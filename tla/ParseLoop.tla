----------------------------- MODULE ParseLoop ------------------------------
(***************************************************************************)
(* The loop of parseCSV (usecase/parse.go) with the callback of            *)
(* processUpload, over a body that comes line by line, and what the        *)
(* queries answer about its results once they are stored.                  *)
(***************************************************************************)
EXTENDS Listing

CONSTANTS
  Lines,      \* the lines a body is made of
  MaxLines    \* bound: the longest body

VARIABLES
  body,    \* the lines handed to reader.Read so far
  totals,  \* the locals of parseCSV and processUpload
  end      \* how the loop ended, "none" while it runs

vars == <<body, totals, end>>

Init ==
  /\ body = <<>>
  /\ totals = NoTotals
  /\ end = "none"

(* reader.Read returns a record. *)
Record(line) ==
  /\ end = "none" /\ Len(body) < MaxLines
  /\ line.quoted
  /\ body' = Append(body, line)
  /\ totals' = ReadLine(totals, line)
  /\ UNCHANGED end

(* reader.Read refuses a line. *)
Refuse(line) ==
  /\ end = "none" /\ Len(body) < MaxLines
  /\ ~line.quoted
  /\ body' = Append(body, line)
  /\ totals' = ReadFails(totals)
  /\ end' = "failed"

(* reader.Read passes on an error of the reader below it. *)
Break ==
  /\ end = "none"
  /\ totals' = ReadFails(totals)
  /\ end' = "failed"
  /\ UNCHANGED body

(* reader.Read returns io.EOF. *)
Eof ==
  /\ end = "none"
  /\ end' = "done"
  /\ UNCHANGED <<body, totals>>

Next == (\E line \in Lines : Record(line) \/ Refuse(line)) \/ Break \/ Eof

Spec == Init /\ [][Next]_vars

-----------------------------------------------------------------------------
(* The loop computes what the file says, to the wrap of int64, the order   *)
(* of the issues and the counts: a line that does not parse is counted and *)
(* passed over, a line the csv reader refuses ends the file.               *)
ParsedIsEvaluated == totals = Evaluate(body, end # "failed")

(* The lists of statuses and types a client gives, and the filters it can  *)
(* ask for with them.                                                      *)
StatusLists ==
  {<<>>, <<"">>, <<"Failed">>, <<"PENDING", "">>, <<"FAILED", "PENDING">>, <<"SUCCESS">>}
TypeLists == {<<>>, <<"credit">>, <<"DEBIT">>, <<"", "DEBIT", "CREDIT">>, <<"REFUND">>}

Filters == {ParseIssueFilter(s, t) : s \in StatusLists, t \in TypeLists} \ {Invalid}

(* The values of page and page_size a client can give. *)
Params == {Absent} \cup -1..(MaxInt + 1)

(* Every filter a client can pass selects, over its pages and in file      *)
(* order, exactly the issues of its statuses and types; without a status   *)
(* these are the failed and the pending ones, which is all there are.      *)
PagesCoverIssues ==
  \A filter \in Filters, sizeRaw \in {Absent} \cup 0..(MaxPageSize + 1) :
    LET asked == ParsePagination(1, sizeRaw)
        wanted == Asked(totals.issues, filter)
        Page(p) == ListIssues(totals.issues, filter, p, asked.pageSize)
    IN asked.ok =>
         \A p \in 1..(Len(wanted) + 1) :
           /\ Page(p).total = Len(wanted)
           /\ p * asked.pageSize <= MaxInt => Page(p).items = PageOf(wanted, p, asked.pageSize)

(* README.md line 46, "List failed and pending transactions (pagination +  *)
(* filters)": a page that lies behind the last issue is empty.             *)
FarPagesAreEmpty ==
  \A pageRaw, sizeRaw \in Params :
    LET asked == ParsePagination(pageRaw, sizeRaw)
        list == ListIssues(totals.issues, ParseIssueFilter(<<>>, <<>>), asked.page, asked.pageSize)
    IN asked.ok /\ (asked.page - 1) * asked.pageSize >= list.total => list.items = <<>>
=============================================================================
