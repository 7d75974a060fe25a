-------------------------- MODULE ParseLoopProofs ---------------------------
(***************************************************************************)
(* Theorems about module ParseLoop, for any width of the integers, any     *)
(* kinds of lines and a body of any length.                                *)
(***************************************************************************)
EXTENDS ParseLoop, ListingProofs

(* Until a line is refused every line was read, and as long as the loop    *)
(* runs its locals are those of a body that ends here.                     *)
IInv ==
  /\ body \in Seq(Lines)
  /\ end \in {"none", "done", "failed"}
  /\ end # "failed" => Readable(body) /\ totals = Evaluate(body, TRUE)
  /\ end = "failed" => totals = Evaluate(body, FALSE)

LEMMA InitIInv == Init => IInv
<1> SUFFICES ASSUME Init PROVE IInv
  OBVIOUS
<1>1. body = <<>> /\ totals = NoTotals /\ end = "none"
  BY DEF Init
<1>2. Readable(body) /\ Evaluate(body, TRUE) = totals
  BY <1>1, EmptyBody
<1>3. body \in Seq(Lines)
  BY <1>1, EmptySeq
<1> QED
  BY <1>1, <1>2, <1>3 DEF IInv

LEMMA RecordIInv ==
  ASSUME IInv, NEW line \in Lines, Record(line)
  PROVE  IInv'
<1>1. body \in Seq(Lines) /\ Readable(body) /\ line.quoted /\ totals = Evaluate(body, TRUE)
  BY DEF IInv, Record
<1>2. body' = Append(body, line) /\ totals' = ReadLine(totals, line) /\ end' = "none"
  BY DEF Record
<1>3. Append(body, line) \in Seq(Lines)
  BY <1>1
<1>4. Readable(Append(body, line)) /\ Evaluate(Append(body, line), TRUE) = ReadLine(totals, line)
  BY <1>1, NextLine
<1> QED
  BY <1>2, <1>3, <1>4 DEF IInv

LEMMA RefuseIInv ==
  ASSUME IInv, NEW line \in Lines, Refuse(line)
  PROVE  IInv'
<1>1. /\ body \in Seq(Lines) /\ Len(body) \in Nat /\ Readable(body) /\ ~line.quoted
      /\ totals = Evaluate(body, TRUE)
  BY DEF IInv, Refuse
<1> DEFINE b == Append(body, line)
<1>2. body' = b /\ totals' = ReadFails(totals) /\ end' = "failed"
  BY DEF Refuse
<1>3. /\ b \in Seq(Lines) /\ Len(b) = Len(body) + 1 /\ b[Len(body) + 1] = line
      /\ \A i \in 1..Len(body) : b[i] = body[i]
  BY <1>1
<1> HIDE DEF b
<1>4. \A i \in 1..Len(body) : b[i].quoted
  BY <1>1, <1>3 DEF Readable
<1>5. Records(b) = 1..Len(body)
  BY <1>1, <1>3, <1>4, RefusedRecords
<1>6. ~ReadsThrough(b, FALSE)
  BY DEF ReadsThrough
<1>7. Evaluate(b, FALSE) = ReadFails(totals)
  BY <1>1, <1>3, <1>5, <1>6, CutShort
<1> QED
  BY <1>2, <1>3, <1>7 DEF IInv

LEMMA BreakIInv ==
  ASSUME IInv, Break
  PROVE  IInv'
<1>1. body \in Seq(Lines) /\ Readable(body) /\ totals = Evaluate(body, TRUE)
  BY DEF IInv, Break
<1>2. body' = body /\ totals' = ReadFails(totals) /\ end' = "failed"
  BY DEF Break
<1>3. Records(body) = 1..Len(body) /\ ~ReadsThrough(body, FALSE)
  BY <1>1, ReadableRecords DEF ReadsThrough
<1>4. Evaluate(body, FALSE) = ReadFails(totals)
  BY <1>1, <1>3, CutShort
<1> QED
  BY <1>1, <1>2, <1>4 DEF IInv

LEMMA NextIInv ==
  ASSUME IInv, [Next]_vars
  PROVE  IInv'
<1>1. ASSUME NEW line \in Lines, Record(line) PROVE IInv'
  BY <1>1, RecordIInv
<1>2. ASSUME NEW line \in Lines, Refuse(line) PROVE IInv'
  BY <1>2, RefuseIInv
<1>3. CASE Break
  BY <1>3, BreakIInv
<1>4. CASE Eof
  BY <1>4 DEF Eof, IInv
<1>5. CASE UNCHANGED vars
  BY <1>5 DEF vars, IInv
<1> QED
  BY <1>1, <1>2, <1>3, <1>4, <1>5 DEF Next

LEMMA Invariance == Spec => []IInv
<1>1. Init => IInv
  BY InitIInv
<1>2. IInv /\ [Next]_vars => IInv'
  BY NextIInv
<1> QED
  BY <1>1, <1>2, PTL DEF Spec

LEMMA ParsedFromIInv == IInv => ParsedIsEvaluated
<1>1. CASE end = "failed"
  BY <1>1 DEF IInv, ParsedIsEvaluated
<1>2. CASE end # "failed"
  BY <1>2 DEF IInv, ParsedIsEvaluated
<1> QED
  BY <1>1, <1>2

(* At every moment the locals of parseCSV and processUpload are what the   *)
(* lines so far amount to: the wrapped balance, the issues in file order   *)
(* and the counts, with one error for a refused line or a broken stream.   *)
THEOREM ParsesRight == Spec => []ParsedIsEvaluated
<1>1. IInv => ParsedIsEvaluated
  BY ParsedFromIInv
<1>2. Spec => []IInv
  BY Invariance
<1> QED
  BY <1>1, <1>2, PTL

(* ListIssues over what the loop has stored: every page of every filter a  *)
(* client can ask for is the slice of the issues that the filter selects,  *)
(* as long as the last number of the page is an int.                       *)
THEOREM PagesRight == Spec => []PagesCoverIssues
<1>1. ASSUME IInv PROVE PagesCoverIssues
  <2>1. /\ totals.issues \in Seq({Tx(v) : v \in Lines})
        /\ Typed(totals.issues)
    <3>1. PICK e : totals = Evaluate(body, e)
      BY <1>1 DEF IInv
    <3> QED
      BY <1>1, <3>1, IssuesType DEF IInv
  <2>2. \A filter \in Filters : filter.statuses # {}
    <3>1. ASSUME NEW filter \in Filters
          PROVE  filter.statuses # {}
      <4>1. PICK s, t : filter = ParseIssueFilter(s, t) /\ filter # Invalid
        BY DEF Filters
      <4>2. ParseIssueFilter(s, t).ok
        BY <4>1 DEF ParseIssueFilter
      <4> QED
        BY <4>1, <4>2, ValidFilter
    <3> QED
      BY <3>1
  <2> SUFFICES ASSUME NEW filter \in Filters, NEW sizeRaw, ParsePagination(1, sizeRaw).ok,
                      NEW p \in 1..(Len(Asked(totals.issues, filter)) + 1)
               PROVE  LET size == ParsePagination(1, sizeRaw).pageSize
                          wanted == Asked(totals.issues, filter)
                          page == ListIssues(totals.issues, filter, p, size)
                      IN /\ page.total = Len(wanted)
                         /\ p * size <= MaxInt => page.items = PageOf(wanted, p, size)
    BY DEF PagesCoverIssues
  <2> DEFINE size == ParsePagination(1, sizeRaw).pageSize
             wanted == Asked(totals.issues, filter)
  <2>3. size \in Nat \ {0}
    BY ValidPaging
  <2>4. wanted \in Seq({Tx(v) : v \in Lines}) /\ p \in Nat \ {0}
    BY <2>1, AskedType
  <2>5. ListIssues(totals.issues, filter, p, size).total = Len(wanted)
    BY <2>1, <2>2, MatchesAsked DEF ListIssues
  <2>6. ASSUME p * size <= MaxInt
        PROVE  ListIssues(totals.issues, filter, p, size).items = PageOf(wanted, p, size)
    BY <2>1, <2>2, <2>3, <2>4, <2>6, PageIsSlice
  <2> QED
    BY <2>5, <2>6
<1> QED
  BY <1>1, Invariance, PTL
=============================================================================
