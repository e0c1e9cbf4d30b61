-------------------------- MODULE SnapshotPromise ---------------------------
(***************************************************************************)
(* What `baseline upload` promises, whatever the number of processes,      *)
(* retries, crashes and resumed runs behind it: there is one staging       *)
(* record per snapshot; it receives the parts strictly by ordinal, each    *)
(* once; it is sealed when all of them are there; nothing is taken back;   *)
(* and a process tells its user that the snapshot is committed, or that    *)
(* its ingestion succeeded, only after that happened.                      *)
(***************************************************************************)
EXTENDS Naturals

CONSTANTS
  Clients,   \* who may tell
  N          \* number of parts of the snapshot

VARIABLES
  record,    \* "absent", "open", "sealed" or "closed" without being sealed
  accepted,  \* ordinals of the accepted parts
  ingested,  \* whether the sealed snapshot has become a corpus
  told       \* pairs <<client, claim>> reported to users

vars == <<record, accepted, ingested, told>>

Init ==
  /\ record = "absent"
  /\ accepted = {}
  /\ ingested = FALSE
  /\ told = {}

Open ==
  /\ record = "absent"
  /\ record' = "open"
  /\ UNCHANGED <<accepted, ingested, told>>

\* Part k is accepted when exactly the parts before it have been.
Accept(k) ==
  /\ record = "open"
  /\ accepted = 1..(k - 1)
  /\ accepted' = accepted \cup {k}
  /\ UNCHANGED <<record, ingested, told>>

Seal ==
  /\ record = "open"
  /\ accepted = 1..N
  /\ record' = "sealed"
  /\ UNCHANGED <<accepted, ingested, told>>

Close ==
  /\ record = "open"
  /\ record' = "closed"
  /\ UNCHANGED <<accepted, ingested, told>>

Ingest ==
  /\ record = "sealed"
  /\ ingested' = TRUE
  /\ UNCHANGED <<record, accepted, told>>

Tell(c, claim) ==
  /\ record = "sealed"
  /\ claim = "succeeded" => ingested
  /\ told' = told \cup {<<c, claim>>}
  /\ UNCHANGED <<record, accepted, ingested>>

Next ==
  \/ Open \/ Seal \/ Close \/ Ingest
  \/ \E k \in 1..N : Accept(k)
  \/ \E c \in Clients, claim \in {"snapshot_committed", "succeeded"} : Tell(c, claim)

Spec == Init /\ [][Next]_vars
=============================================================================
