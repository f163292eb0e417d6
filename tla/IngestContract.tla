---------------------------- MODULE IngestContract ----------------------------
(***************************************************************************)
(* What the ingest API promises about a run, whatever handlers do to get   *)
(* there: its ops are written one by one, it is published once and only    *)
(* when all of them are written, and a published or closed run stays so.   *)
(* It does not promise that a closed run has written nothing, nor that it  *)
(* writes nothing any more.                                                *)
(***************************************************************************)
CONSTANTS Runs, Items, Payload

VARIABLES outcome, written

vars == <<outcome, written>>

Init ==
  /\ outcome = [r \in Runs |-> "open"]
  /\ written = [r \in Runs |-> {}]

Write(r, i) ==
  /\ i \in Payload[r]
  /\ written' = [written EXCEPT ![r] = @ \union {i}]
  /\ UNCHANGED outcome

Publish(r) ==
  /\ outcome[r] = "open"
  /\ written[r] = Payload[r]
  /\ outcome' = [outcome EXCEPT ![r] = "published"]
  /\ UNCHANGED written

Close(r) ==
  /\ outcome[r] = "open"
  /\ outcome' = [outcome EXCEPT ![r] = "closed"]
  /\ UNCHANGED written

Next ==
  \E r \in Runs :
    \/ \E i \in Items : Write(r, i)
    \/ Publish(r)
    \/ Close(r)

Spec == Init /\ [][Next]_vars
=============================================================================
