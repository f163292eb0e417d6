-------------------------------- MODULE MCApart --------------------------------
(***************************************************************************)
(* Five components that share no state for TLC: the clients (ClientRun,    *)
(* PageDriver, ExtensionSync) and the two that change email addresses      *)
(* (EmailTransfer, the user's own address; SharedContacts, the addresses   *)
(* in a student's sharedWith).  A behaviour is one of one component:       *)
(* beside each other they would reach the product of what they reach       *)
(* alone.  The last two are each explored in two parts, as all their       *)
(* causes together are too many.                                           *)
(***************************************************************************)
EXTENDS ClientRun, PageDriver, ExtensionSync, EmailTransfer, SharedContacts

CONSTANTS r1, r2, c1, c2, g1, g2, s1, s2, s3, alarm, click,
          u1, u2, e1, e2, e3, t1, t2, h1, h2, p1, a1, a2, m1, q1, q2

TwoRuns == {r1, r2}
TwoCalls == {c1, c2}
TwoGotos == {g1, g2}
ThreeSyncs == {s1, s2, s3}
TwoRounds == {alarm, click}

TwoUsers == {u1, u2}
ThreeEmails == {e1, e2, e3}
TwoTransfers == {t1, t2}
TwoHandlers == {h1, h2}
AllBesides == {"expiry", "throw", "cancel"}
TwoFirst == [u \in TwoUsers |-> IF u = u1 THEN e1 ELSE e2]

OneParent == {p1}
TwoAddresses == {a1, a2}
OneChange == {m1}
TwoRoutes == {q1, q2}

Symmetry == Permutations(TwoAddresses)

VARIABLE part  \* which behaviours these are

clientSide == <<clientVars, driverVars, extVars>>
serverSide == <<transferVars, contactVars>>
allVars == <<part, clientSide, serverSide>>

Init ==
  /\ part \in {"client", "driver", "extension",
               "again", "rivals", "overlap", "change"}
  /\ ClientInit /\ DriverInit /\ ExtInit /\ TransferInit /\ ContactInit
  /\ wanted[t1].user = u1 /\ wanted[t1].to = e3
  /\ wanted[t2].user = IF part = "rivals" THEN u2 ELSE u1
  /\ wanted[t2].to \in IF part \in {"again", "rivals"} THEN {e1, e3} ELSE {e3}

\* Which run, sync, handler or request is which does not matter either: the
\* first of its kind begins first.  (In the symmetry set their permutations
\* would multiply at every state.)
RunsInOrder == at'[r2] # at[r2] => at[r1] # "idle"
SyncsInOrder == IsPrefix(started', <<s1, s2, s3>>)
HandlersInOrder == calls[h2] = Idle /\ calls'[h2] # Idle => calls[h1] # Idle
RoutesInOrder ==
  underway[q2] = Free /\ underway'[q2] # Free => underway[q1] # Free

\* A user who asks twice, and may cancel in the second handler; the first
\* transfer may expire.  No confirmation throws half-way.
Again ==
  /\ TransferNext /\ HandlersInOrder
  /\ cutShort' = cutShort /\ t2 \notin expired'
  /\ \A h \in Handlers : calls'[h] # Idle => calls'[h].user = u1
  /\ calls'[h1].pc # "withdraw"

\* Two users, nobody cancels, nothing expires.
Rivals ==
  /\ TransferNext /\ HandlersInOrder /\ expired' = {}
  /\ \A h \in Handlers : calls'[h].pc # "withdraw"

\* Two requests at a time, no change of an address.
Overlap == ContactNext /\ RoutesInOrder /\ changes' = changes

\* Changes of an address, one request at a time.
OneByOne == ContactNext /\ underway'[q2] = Free

Next ==
  /\ UNCHANGED part
  /\ \/ /\ UNCHANGED serverSide
        /\ \/ part = "client" /\ ClientNext /\ RunsInOrder /\ faults' + signedOut' <= 1 /\ UNCHANGED <<driverVars, extVars>>
           \/ part = "driver" /\ DriverNext /\ UNCHANGED <<clientVars, extVars>>
           \/ part = "extension" /\ ExtNext /\ SyncsInOrder /\ UNCHANGED <<clientVars, driverVars>>
     \/ /\ UNCHANGED clientSide
        /\ \/ part = "again" /\ Again /\ UNCHANGED contactVars
           \/ part = "rivals" /\ Rivals /\ UNCHANGED contactVars
           \/ part = "overlap" /\ Overlap /\ UNCHANGED transferVars
           \/ part = "change" /\ OneByOne /\ UNCHANGED transferVars

Spec == Init /\ [][Next]_allVars
=============================================================================
