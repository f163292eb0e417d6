-------------------------------- MODULE Accounts --------------------------------
(***************************************************************************)
(* The account routes of one API: sign-in sessions and connector tokens,   *)
(* and AccountDeletionService, which deletes a parent with the parent's    *)
(* students and their logins, one command after another, beside the other  *)
(* requests.  Of the purged collections the model has slc_device_auth,     *)
(* sessions and refresh_tokens, in the order of the list; slc_devices and  *)
(* revoked_connector_tokens are not on it.                                 *)
(***************************************************************************)
EXTENDS Sessions, DeviceTokens

CONSTANTS
  Students,      \* documents of 'students'
  ParentOf,      \* [Students -> Users]
  LoginOf,       \* [Students -> Users], the student's own login
  MaxDeletions,  \* bound: deletion requests
  MaxTotal,      \* bound: requests of all kinds
  MaxOverlap,    \* bound: those under way at once
  MaxBeside,     \* bound: the other requests of a behaviour with a deletion
  MaxAllFaults,  \* bound: faults of both kinds
  Mixed          \* bound: whether session and device requests occur together

ASSUME AccountConstants ==
  /\ Owners = Users
  /\ ParentOf \in [Students -> Users] /\ LoginOf \in [Students -> Users]
  /\ \A s, t \in Students : /\ LoginOf[s] # ParentOf[t]
                            /\ LoginOf[s] = LoginOf[t] => ParentOf[s] = ParentOf[t]
  /\ MaxDeletions \in Nat /\ MaxTotal \in Nat /\ MaxOverlap \in Nat
  /\ MaxBeside \in Nat /\ MaxAllFaults \in Nat
  /\ Mixed \in BOOLEAN

Deletions == 1..MaxDeletions
Parents == {ParentOf[s] : s \in Students}

VARIABLES
  students,  \* the documents of 'students'
  deletion,  \* [Deletions -> Deletion], the handlers
  cut        \* history: parents whose deletion failed after a student was
             \* deleted, with logins left to delete or other requests about

vars == <<sessVars, devVars, students, deletion, cut>>

(***************************************************************************)
(* pc: the command about to be issued.  found: the students read.  logins: *)
(* their logins.  target: the user being purged.  left: the logins still   *)
(* to purge.  raced: history, another request of the household was under   *)
(* way.                                                                    *)
(***************************************************************************)
Deletion ==
  [pc : {"idle", "parent", "students", "logins", "auth", "sessions", "tokens",
         "dropStudents", "dropLogins", "dropUser", "audit", "done", "failed"},
   parent : Users, found : SUBSET Students, logins : SUBSET Users,
   target : Users, left : SUBSET Users, raced : BOOLEAN]

NoDeletion(u) ==
  [pc |-> "idle", parent |-> u, found |-> {}, logins |-> {}, target |-> u,
   left |-> {}, raced |-> FALSE]

AccTypeOK ==
  /\ SessTypeOK /\ DevTypeOK
  /\ students \in SUBSET Students
  /\ deletion \in [Deletions -> Deletion]
  /\ cut \in SUBSET Users

Init ==
  /\ SessInit /\ DevInit
  /\ students = Students
  /\ \E u \in Users : deletion = [x \in Deletions |-> NoDeletion(u)]
  /\ cut = {}

-----------------------------------------------------------------------------
DelAt(x, p) == deletion[x].pc = p
Deleting(x) == deletion[x].pc \notin {"idle", "done", "failed"}
Household(p) == {p} \union {LoginOf[s] : s \in {t \in Students : ParentOf[t] = p}}

DelGoes(x, d) == deletion' = [deletion EXCEPT ![x] = d]
DelStep(x, p) == DelGoes(x, [deletion[x] EXCEPT !.pc = p])

Busy(us) ==
  \/ \E r \in Requests : InFlight(r) /\ UserOf[ClientOf(r)] \in us
  \/ \E r \in DeviceRequests : DevInFlight(r) /\ DeviceOwner[Dev(r)] \in us

\* A request of u begins beside a deletion of u's household, or after it with
\* an access token that outlives it.
Races(u) ==
  deletion' = [x \in Deletions |->
    IF ~DelAt(x, "idle") /\ u \in Household(deletion[x].parent)
    THEN [deletion[x] EXCEPT !.raced = TRUE] ELSE deletion[x]]

SessionBegins(r, c) ==
  /\ SessStart(r, c) /\ Races(UserOf[c])
  /\ UNCHANGED <<users, devVars, students, cut>>

DeviceBegins(r, d, k) ==
  /\ DevStart(r, d, k) /\ Races(DeviceOwner[d])
  /\ UNCHANGED <<sessVars, students, cut>>

SessionRuns == SessRuns /\ UNCHANGED <<devVars, students, deletion, cut>>
DeviceRuns == DevRuns /\ UNCHANGED <<sessVars, students, deletion, cut>>

-----------------------------------------------------------------------------
(***************************************************************************)
(* deleteParentAccount.                                                    *)
(***************************************************************************)
FamiliesOf(us) == {f \in Requests : req[f].kind = "login" /\ UserOf[ClientOf(f)] \in us}

\* DELETE /api/account, with a password of p.
StartDeletion(x, p) ==
  LET beside == {y \in Deletions : Deleting(y) /\ deletion[y].parent = p} IN
  /\ DelAt(x, "idle") /\ \A y \in Deletions : y < x => ~DelAt(y, "idle")
  /\ p \in Parents \intersect users
  /\ deletion' = [y \in Deletions |->
       IF y = x THEN [deletion[x] EXCEPT !.pc = "parent", !.parent = p,
                        !.raced = Busy(Household(p)) \/ beside # {}]
       ELSE IF y \in beside THEN [deletion[y] EXCEPT !.raced = TRUE] ELSE deletion[y]]
  /\ UNCHANGED <<sessVars, devVars, students, cut>>

FindParent(x) ==
  /\ DelAt(x, "parent")
  /\ DelStep(x, IF deletion[x].parent \in users THEN "students" ELSE "failed")
  /\ UNCHANGED <<sessVars, devVars, students, cut>>

FindOwned(x) ==
  /\ DelAt(x, "students")
  /\ DelGoes(x, [deletion[x] EXCEPT !.pc = "logins",
       !.found = {s \in students : ParentOf[s] = deletion[x].parent}])
  /\ UNCHANGED <<sessVars, devVars, students, cut>>

\* Variant: the logins are deleted, their collections are not purged.
FindLoginsOnly(x) ==
  /\ DelAt(x, "logins")
  /\ LET ls == {LoginOf[s] : s \in deletion[x].found} \intersect users IN
     DelGoes(x, [deletion[x] EXCEPT !.pc = "auth", !.logins = ls, !.left = {},
                                     !.target = deletion[x].parent])
  /\ UNCHANGED <<sessVars, devVars, students, cut>>

\* findByStudentId for every student found.
FindLogins(x) ==
  /\ DelAt(x, "logins")
  /\ LET ls == {LoginOf[s] : s \in deletion[x].found} \intersect users IN
     DelGoes(x, [deletion[x] EXCEPT !.pc = "auth", !.logins = ls, !.left = ls,
                                     !.target = deletion[x].parent])
  /\ UNCHANGED <<sessVars, devVars, students, cut>>

\* purgeCollectionsForUser, of the parent and then of each login.  A code that
\* nobody has approved has no userId.
PurgeAuth(x) ==
  /\ DelAt(x, "auth") /\ DelStep(x, "sessions")
  /\ auth' = [d \in Devices |->
       IF auth[d].status = "approved" /\ DeviceOwner[d] = deletion[x].target
       THEN [auth[d] EXCEPT !.status = "gone"] ELSE auth[d]]
  /\ UNCHANGED <<sessVars, device, ledger, dreq, taken, devFaults, superseded, students, cut>>

PurgeSessions(x) ==
  /\ DelAt(x, "sessions") /\ DelStep(x, "tokens")
  /\ rows' = rows \ RowsOfUser(deletion[x].target)
  /\ UNCHANGED <<users, token, expired, req, client, faults, sessHistory, devVars, students, cut>>

PurgeTokens(x) ==
  /\ DelAt(x, "tokens")
  /\ LET d == deletion[x] IN
     IF d.left = {} THEN DelStep(x, "dropStudents")
     ELSE \E u \in d.left :
       DelGoes(x, [d EXCEPT !.pc = "auth", !.target = u, !.left = @ \ {u}])
  /\ token' = [t \in Requests |->
       IF token[t] # "none" /\ Owner(Fam(t)) = deletion[x].target THEN "none" ELSE token[t]]
  /\ excused' = excused \union FamiliesOf({deletion[x].target})
  /\ UNCHANGED <<users, rows, expired, req, client, faults, delisted, straggled,
                 devVars, students, cut>>

DropStudents(x) ==
  /\ DelAt(x, "dropStudents")
  /\ LET found == deletion[x].found IN
     IF found = {} THEN DelStep(x, "dropLogins") /\ UNCHANGED students
     ELSE \E s \in found : /\ DelGoes(x, [deletion[x] EXCEPT !.found = @ \ {s}])
                            /\ students' = students \ {s}
  /\ UNCHANGED <<sessVars, devVars, cut>>

DropsUser(u) == users' = users \ {u} /\ excused' = excused \union FamiliesOf({u})

DropLogins(x) ==
  /\ DelAt(x, "dropLogins")
  /\ LET logins == deletion[x].logins IN
     IF logins = {} THEN DelStep(x, "dropUser") /\ UNCHANGED <<users, excused>>
     ELSE \E u \in logins :
       /\ DelGoes(x, [deletion[x] EXCEPT !.logins = @ \ {u}]) /\ DropsUser(u)
  /\ UNCHANGED <<token, rows, expired, req, client, faults, delisted, straggled,
                 devVars, students, cut>>

DropUser(x) ==
  /\ DelAt(x, "dropUser") /\ DelStep(x, "audit")
  /\ DropsUser(deletion[x].parent)
  /\ UNCHANGED <<token, rows, expired, req, client, faults, delisted, straggled,
                 devVars, students, cut>>

Audit(x) ==
  /\ DelAt(x, "audit") /\ DelStep(x, "done")
  /\ UNCHANGED <<sessVars, devVars, students, cut>>

\* A command throws or the process dies; the parent may ask again.
FailDeletion(x) ==
  /\ Deleting(x) /\ faults < MaxFaults /\ DelStep(x, "failed")
  /\ faults' = faults + 1
  /\ cut' = IF /\ deletion[x].logins # {} \/ deletion[x].raced
               /\ \E s \in Students \ students : ParentOf[s] = deletion[x].parent
            THEN cut \union {deletion[x].parent} ELSE cut
  /\ delisted' = IF DelAt(x, "tokens") THEN delisted \union FamiliesOf({deletion[x].target})
                 ELSE delisted
  /\ UNCHANGED <<store, req, client, excused, straggled, devVars, students>>

Deletes(x) ==
  \/ FindParent(x) \/ FindOwned(x) \/ FindLogins(x) \/ PurgeAuth(x)
  \/ PurgeSessions(x) \/ PurgeTokens(x) \/ DropStudents(x) \/ DropLogins(x)
  \/ DropUser(x) \/ Audit(x) \/ FailDeletion(x)

Signing == {r \in Requests : ~At(r, "idle")}
Devs == {r \in DeviceRequests : ~DevAt(r, "idle")}
Dels == {x \in Deletions : ~DelAt(x, "idle")}

\* The bounds on what begins: in all, at once, beside a deletion, mixed.
Room ==
  /\ Cardinality({r \in Signing : InFlight(r)}) + Cardinality({r \in Devs : DevInFlight(r)})
     + Cardinality({x \in Dels : Deleting(x)}) < MaxOverlap
  /\ Cardinality(Signing) + Cardinality(Devs) + Cardinality(Dels) < MaxTotal
Beside(n) == Dels = {} \/ Cardinality(Signing) + Cardinality(Devs) + n <= MaxBeside

SessionsBegin ==
  /\ Beside(1) /\ (Mixed \/ Devs = {})
  /\ \E r \in Requests, c \in Clients : SessionBegins(r, c)

DevicesBegin ==
  /\ Beside(1) /\ (Mixed \/ Signing = {})
  /\ \E r \in DeviceRequests, d \in Devices, k \in {"approve", "issue", "poll", "revoke"} :
       DeviceBegins(r, d, k)

DeletionBegins ==
  /\ Cardinality(Signing) + Cardinality(Devs) <= MaxBeside
  /\ \E x \in Deletions, p \in Users : StartDeletion(x, p)

Next ==
  /\ \/ SessionRuns \/ DeviceRuns \/ \E x \in Deletions : Deletes(x)
     \/ Room /\ (SessionsBegin \/ DevicesBegin \/ DeletionBegins)
  /\ faults' + devFaults' <= MaxAllFaults

Spec == Init /\ [][Next]_vars

-----------------------------------------------------------------------------
\* The tokens and rows of u's families are about to go, rows first.
LogsOut(f) == \E r \in Requests :
  req[r].kind = "logout" /\ Fam(r) = f /\ req[r].pc \in {"loagain", "revoke"}
Purges(f) == \E x \in Deletions : DelAt(x, "tokens") /\ deletion[x].target = Owner(f)

(***************************************************************************)
(* HeldSessionIsListed: a live token that a client stores belongs to a     *)
(* family with a row in 'sessions', so the user can see the session,       *)
(* unless the row was revoked by hand, or a logout or a deletion has       *)
(* removed it and is about to remove the tokens, or failed at that point,  *)
(* or the logout found its token deleted by then.                          *)
(***************************************************************************)
HeldSessionIsListed ==
  \A c \in Clients :
    held[c] # None /\ Live(held[c]) /\ Fam(held[c]) \notin delisted
    /\ ~LogsOut(Fam(held[c])) /\ ~Purges(Fam(held[c]))
      => RowsOf(Fam(held[c])) # {}

Erased(p) ==
  /\ Household(p) \intersect users = {}
  /\ \A s \in students : ParentOf[s] # p
  /\ \A t \in Requests : token[t] # "none" => Owner(Fam(t)) \notin Household(p)
  /\ \A x \in rows : Owner(Fam(x)) \notin Household(p)
  /\ \A d \in Devices : DeviceOwner[d] = p => auth[d].status # "approved"

\* x ended, with nothing beside it and no attempt before it cut short.
Undisturbed(x) ==
  DelAt(x, "done") /\ ~deletion[x].raced /\ deletion[x].parent \notin cut

(***************************************************************************)
(* DeletionIsComplete: after a deletion that ran beside no other request   *)
(* of the household nothing of it is left in the modelled collections,     *)
(* also when an earlier attempt failed - but not when that one failed with *)
(* a student deleted and a login not yet, or a login's requests under way: *)
(* the next attempt finds no student and so no login.                      *)
(***************************************************************************)
DeletionIsComplete ==
  \A x \in Deletions : Undisturbed(x) => Erased(deletion[x].parent)
=============================================================================
