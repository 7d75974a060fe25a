---------------------------- MODULE UploadLedger ----------------------------
(***************************************************************************)
(* What POST /statements promises to the clients that poll: an ID stands   *)
(* for one document, its status moves forward only, and the moment it is   *)
(* final the results are those of the whole document.                      *)
(***************************************************************************)
EXTENDS Statement

CONSTANTS
  UploadIDs,    \* the IDs of uploads
  NoDocument    \* the document of an ID that is not in use

VARIABLES
  status,     \* entity.UploadStatus of each ID, "ABSENT" when unknown
  document,   \* what was uploaded under each ID
  results     \* the results that go with a final status

vars == <<status, document, results>>

Init ==
  /\ status = [u \in UploadIDs |-> "ABSENT"]
  /\ document = [u \in UploadIDs |-> NoDocument]
  /\ results = [u \in UploadIDs |-> NoTotals]

Register(u) ==
  /\ status[u] = "ABSENT"
  /\ status' = [status EXCEPT ![u] = "QUEUED"]
  /\ \A v \in UploadIDs \ {u} : document'[v] = document[v]
  /\ document'[u] # NoDocument
  /\ UNCHANGED results

Start(u) ==
  /\ status[u] = "QUEUED"
  /\ status' = [status EXCEPT ![u] = "PROCESSING"]
  /\ UNCHANGED <<document, results>>

Settle(u) ==
  LET body == document[u].body
      intact == document[u].intact
  IN /\ status[u] = "PROCESSING"
     /\ status' = [status EXCEPT ![u] = IF ReadsThrough(body, intact) THEN "DONE" ELSE "FAILED"]
     /\ results' = [results EXCEPT ![u] = Evaluate(body, intact)]
     /\ UNCHANGED document

Next == \E u \in UploadIDs : Register(u) \/ Start(u) \/ Settle(u)

Spec == Init /\ [][Next]_vars
=============================================================================
