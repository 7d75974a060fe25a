---------------------------- MODULE MCParseLoop -----------------------------
(***************************************************************************)
(* Instances of the parse loop for TLC.  MaxInt = 63 stands for that of    *)
(* int: two amounts of 60 overflow the balance, the pages of three issues  *)
(* do not overflow and the last pages a client can name do.                *)
(***************************************************************************)
EXTENDS ParseLoop

Line(type, status, amount) ==
  [quoted |-> TRUE, fields |-> 6, timestamp |-> 1,
   type |-> type, status |-> status, amount |-> amount]

MCLines ==
  { Line("CREDIT", "SUCCESS", 60), Line("DEBIT", "SUCCESS", 43),
    Line("credit", "Failed", 5), Line("DEBIT", "FAILED", -3), Line("DEBIT", "PENDING", 9),
    Line("CREDIT", "SUCCESS", 64),                       \* no int64
    Line("REFUND", "SUCCESS", 1), Line("CREDIT", "LATE", 1),
    [Line("CREDIT", "SUCCESS", 1) EXCEPT !.fields = 2],
    [Line("DEBIT", "SUCCESS", 1) EXCEPT !.timestamp = -65],
    [Line("CREDIT", "PENDING", 1) EXCEPT !.quoted = FALSE] }
=============================================================================
