----------------------------- MODULE MCService ------------------------------
(***************************************************************************)
(* An instance of the service for TLC: one upload and one poller (pollers  *)
(* only read, so more of them do not meet), pages of one issue, a filter,  *)
(* and a page size that is refused.                                        *)
(***************************************************************************)
EXTENDS Service

CONSTANTS r1, u1, c1

Transaction(type, status1, amount) ==
  [quoted |-> TRUE, fields |-> 6, timestamp |-> 1,
   type |-> type, status |-> status1, amount |-> amount]

Paid == Transaction("CREDIT", "SUCCESS", 3)
Bounced == Transaction("DEBIT", "FAILED", 2)
Open == Transaction("DEBIT", "PENDING", 1)
BareQuote == [Paid EXCEPT !.quoted = FALSE]

MCRequests == {r1}
MCPollers == {c1}
MCUploadIDs == {u1}
MCFiles == [r \in MCRequests |-> {<<Open, Paid, Bounced>>, <<BareQuote>>}]

MCListings ==
  {[size |-> 1, statuses |-> <<>>, types |-> <<>>],
   [size |-> Absent, statuses |-> <<"Failed">>, types |-> <<"">>],
   [size |-> 0, statuses |-> <<>>, types |-> <<>>]}
=============================================================================
