------------------------------ MODULE MCUpload ------------------------------
(***************************************************************************)
(* Instances of the upload path for TLC: two requests on one slot and two  *)
(* IDs, so that one waits for the other and an ID may come twice; files of *)
(* every outcome, a refused line first, last and alone.                    *)
(***************************************************************************)
EXTENDS Upload

CONSTANTS r1, r2, u1, u2

Transaction(type, status1, amount) ==
  [quoted |-> TRUE, fields |-> 6, timestamp |-> 1,
   type |-> type, status |-> status1, amount |-> amount]

Paid == Transaction("CREDIT", "SUCCESS", 3)
Bounced == Transaction("DEBIT", "FAILED", 2)
Open == Transaction("DEBIT", "PENDING", 1)
Junk == [Paid EXCEPT !.fields = 2]
BareQuote == [Paid EXCEPT !.quoted = FALSE]

MCRequests == {r1, r2}
MCUploadIDs == {u1, u2}
MCFiles ==
  [r \in MCRequests |->
    IF r = r1
    THEN {<<>>, <<Paid, Bounced>>, <<Junk, Open>>, <<BareQuote, Paid>>, <<Bounced, BareQuote>>}
    ELSE {<<Bounced>>, <<Open, Paid>>, <<BareQuote, Bounced>>}]
=============================================================================
