----------------------------- MODULE Statement ------------------------------
(***************************************************************************)
(* What a statement file means: the record parser of usecase/parse.go and  *)
(* the callback of processUpload (usecase.go) that computes the balance,   *)
(* the issues and the counts of an upload.                                 *)
(*                                                                         *)
(* A line is a record of what encoding/csv and the field parsers can tell  *)
(* apart.  The csv reader itself refuses a line with quoted = FALSE (a     *)
(* bare quote).  A text that is no int64 is a number outside IntRange.     *)
(* Counterparty and description are carried along unread by the code; the  *)
(* timestamp is enough to tell two transactions apart.                     *)
(***************************************************************************)
EXTENDS Integers, Sequences, FiniteSets

CONSTANT MaxInt   \* the largest int and int64

ASSUME MaxIntAssumption == MaxInt \in Nat

MinInt == -MaxInt - 1
IntRange == MinInt .. MaxInt

(* What an operation on int64 makes of the exact result x. *)
Wrap(x) == ((x - MinInt) % (MaxInt - MinInt + 1)) + MinInt

TxTypes == {"CREDIT", "DEBIT"}
TxStatuses == {"SUCCESS", "FAILED", "PENDING"}

(* strings.ToUpper on the words of the models that are not upper case. *)
Upper(word) ==
  CASE word = "credit" -> "CREDIT"
    [] word = "Failed" -> "FAILED"
    [] OTHER -> word

(***************************************************************************)
(* A fault, a plausible slip of the code; nothing below uses it.           *)
(***************************************************************************)
(* The callback goes on after its SUCCESS case. *)
OnTxFallingThrough(totals, tx) ==
  LET delta == CASE tx.status # "SUCCESS" -> 0
                 [] tx.type = "CREDIT" -> tx.amount
                 [] OTHER -> -tx.amount
  IN [totals EXCEPT !.balance = Wrap(@ + delta), !.issues = Append(@, tx)]

-----------------------------------------------------------------------------
(* parseRecord returns no error. *)
Parses(line) ==
  /\ line.fields = 6
  /\ line.timestamp \in IntRange
  /\ Upper(line.type) \in TxTypes
  /\ line.amount \in IntRange
  /\ Upper(line.status) \in TxStatuses

(* The transaction parseRecord returns. *)
Tx(line) ==
  [timestamp |-> line.timestamp, type |-> Upper(line.type),
   amount |-> line.amount, status |-> Upper(line.status)]

(* The locals of parseCSV and processUpload before the first line. *)
NoTotals == [balance |-> 0, issues |-> <<>>,
             totalLines |-> 0, parsedOK |-> 0, parseErr |-> 0]

(* The callback of processUpload: what a parsed transaction adds. *)
OnTx(totals, tx) ==
  CASE tx.status # "SUCCESS" -> [totals EXCEPT !.issues = Append(@, tx)]
    [] tx.status = "SUCCESS" /\ tx.type = "CREDIT" ->
         [totals EXCEPT !.balance = Wrap(@ + tx.amount)]
    [] tx.status = "SUCCESS" /\ tx.type = "DEBIT" ->
         [totals EXCEPT !.balance = Wrap(@ - tx.amount)]

(* The body of the loop of parseCSV for a record that reader.Read returns. *)
ReadLine(totals, line) ==
  LET counted == [totals EXCEPT !.totalLines = @ + 1]
  IN IF Parses(line)
     THEN OnTx([counted EXCEPT !.parsedOK = @ + 1], Tx(line))
     ELSE [counted EXCEPT !.parseErr = @ + 1]

(* The error of reader.Read, which ends the loop. *)
ReadFails(totals) == [totals EXCEPT !.parseErr = @ + 1]

-----------------------------------------------------------------------------
(* The k-th of a set of positions, and the members of s at all of them.    *)
Nth(S, k) == CHOOSE i \in S : Cardinality({j \in S : j <= i}) = k
InOrder(S) == [k \in 1..Cardinality(S) |-> Nth(S, k)]
Pick(s, S) == [k \in 1..Cardinality(S) |-> s[Nth(S, k)]]

(* The sum of a sequence of numbers. *)
AddUp(s) ==
  LET sum[n \in 0..Len(s)] == IF n = 0 THEN 0 ELSE sum[n - 1] + s[n]
  IN sum[Len(s)]

(***************************************************************************)
(* The reference, said without the loop: what the lines of a body amount   *)
(* to when the body is, or is not, read to its EOF.                        *)
(***************************************************************************)
(* The lines before the first one the csv reader refuses. *)
Records(body) == {i \in DOMAIN body : \A j \in 1..i : body[j].quoted}

(* The body is read to its end: intact says that there is one. *)
ReadsThrough(body, intact) == intact /\ Records(body) = DOMAIN body

Parsed(body) == {i \in Records(body) : Parses(body[i])}
Unsettled(body) == {i \in Parsed(body) : Tx(body[i]).status # "SUCCESS"}
Transactions(body) == [i \in Records(body) |-> Tx(body[i])]

(* What each record adds to the sum of the successful transactions of a type. *)
Amounts(body, type) ==
  [i \in Records(body) |->
     IF i \in Parsed(body) \ Unsettled(body) /\ Tx(body[i]).type = type
     THEN body[i].amount ELSE 0]

Evaluate(body, intact) ==
  [balance |-> Wrap(AddUp(Amounts(body, "CREDIT")) - AddUp(Amounts(body, "DEBIT"))),
   issues |-> Pick(Transactions(body), Unsettled(body)),
   totalLines |-> Cardinality(Records(body)),
   parsedOK |-> Cardinality(Parsed(body)),
   parseErr |-> Cardinality(Records(body) \ Parsed(body))
                  + (IF ReadsThrough(body, intact) THEN 0 ELSE 1)]
=============================================================================
