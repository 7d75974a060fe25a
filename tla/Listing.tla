------------------------------ MODULE Listing -------------------------------
(***************************************************************************)
(* GET /transactions/issues: its parameters (parsePagination and           *)
(* parseIssueFilter of inbound/http_endpoint.go), the filter               *)
(* (usecase/models.go) and the page of issues (store/memory.go).           *)
(*                                                                         *)
(* A parameter that is missing is Absent; one that strconv.Atoi refuses is *)
(* a number outside IntRange.  A comma-separated list is the sequence of   *)
(* its trimmed elements, "" where there is nothing between two commas.     *)
(***************************************************************************)
EXTENDS Statement

CONSTANTS
  MaxPageSize,   \* the largest page_size that is not cut down
  Absent         \* a parameter that is not given

(* Where page_size is not given. *)
DefaultPageSize == 10

ASSUME MaxPageSizeAssumption ==
  MaxPageSize \in IntRange /\ MaxPageSize > 0 /\ DefaultPageSize \in IntRange

Invalid == [ok |-> FALSE]

(***************************************************************************)
(* A fault, a plausible slip of the code; nothing below uses it.           *)
(***************************************************************************)
(* Matches is content with one of the two fields. *)
MatchesEither(filter, tx) ==
  tx.status \in filter.statuses \/ tx.type \in filter.types

-----------------------------------------------------------------------------
(* strconv.Atoi succeeds and the value is not below one. *)
Positive(raw) == raw = Absent \/ (raw \in IntRange /\ raw >= 1)

ParsePagination(pageRaw, sizeRaw) ==
  IF Positive(pageRaw) /\ Positive(sizeRaw)
  THEN [ok |-> TRUE,
        page |-> IF pageRaw = Absent THEN 1 ELSE pageRaw,
        pageSize |-> IF sizeRaw = Absent THEN DefaultPageSize
                     ELSE IF sizeRaw > MaxPageSize THEN MaxPageSize ELSE sizeRaw]
  ELSE Invalid

(* parseStatus and parseType accept these words, in any case. *)
FilterStatuses == {"FAILED", "PENDING"}

(* The words of a comma-separated list. *)
Words(raw) == {Upper(raw[i]) : i \in DOMAIN raw} \ {""}

ParseIssueFilter(statusRaw, typeRaw) ==
  LET statuses == Words(statusRaw)
      types == Words(typeRaw)
  IN IF statuses \subseteq FilterStatuses /\ types \subseteq TxTypes
     THEN [ok |-> TRUE,
           statuses |-> IF statuses = {} THEN FilterStatuses ELSE statuses,
           types |-> types]
     ELSE Invalid

(* An empty list asks for nothing in particular. *)
Matches(filter, tx) ==
  /\ filter.statuses # {} => tx.status \in filter.statuses
  /\ filter.types # {} => tx.type \in filter.types

(* The variable start of ListIssues, computed in the width of int. *)
FirstOfPage(page, pageSize) == Wrap((page - 1) * pageSize)

ListIssues(issues, filter, page, pageSize) ==
  LET matching == Pick(issues, {i \in DOMAIN issues : Matches(filter, issues[i])})
      start == FirstOfPage(page, pageSize)
      end == Wrap(start + pageSize)
  IN [items |-> Pick(matching, {k \in DOMAIN matching : start < k /\ k <= end}),
      total |-> Len(matching)]

(* What a valid filter asks for: the issues of its statuses and types, in  *)
(* file order.                                                             *)
Asked(issues, filter) ==
  LET types == IF filter.types = {} THEN TxTypes ELSE filter.types
  IN Pick(issues, {i \in DOMAIN issues : issues[i].status \in filter.statuses
                                        /\ issues[i].type \in types})

(* A page of a list, counted from one. *)
PageOf(s, page, pageSize) ==
  SubSeq(s, (page - 1) * pageSize + 1, IF page * pageSize < Len(s) THEN page * pageSize ELSE Len(s))
=============================================================================
