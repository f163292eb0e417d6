-------------------------------- MODULE Sessions --------------------------------
(***************************************************************************)
(* Sign-in sessions: the refresh tokens of AuthService, rotated within a   *)
(* family; the rows of 'sessions' that list them; and the clients that     *)
(* store a token.  Every request is a handler of the API server that       *)
(* issues its commands one by one, interleaved with all others.            *)
(*                                                                         *)
(* A request names the refresh token it stores and the session row it      *)
(* creates; a family is named by the login that began it.  Passwords,      *)
(* access tokens and device texts are left out.                            *)
(***************************************************************************)
EXTENDS Naturals, FiniteSets

CONSTANTS
  Users,        \* user documents there may be
  Clients,      \* token storages: a browser profile, an installed app
  UserOf,       \* [Clients -> Users], who signs in there
  Tabs,         \* [Clients -> Nat], pages that share a storage; an app is one
  Browsers,     \* the clients that are browsers; the others are the mobile app
  MaxRequests,  \* bound: requests to the session routes
  MaxFaults     \* bound: failed commands, crashes, lost answers and expiries

ASSUME SessionConstants ==
  /\ UserOf \in [Clients -> Users] /\ Tabs \in [Clients -> Nat \ {0}]
  /\ Browsers \subseteq Clients /\ \A c \in Clients \ Browsers : Tabs[c] = 1
  /\ MaxRequests \in Nat /\ MaxFaults \in Nat

Requests == 1..MaxRequests
None == 0

VARIABLES
  users,      \* the documents of 'users'
  token,      \* [Requests -> TokenStates], the documents of 'refresh_tokens'
  rows,       \* documents of 'sessions' without revokedAt, by their creator
  expired,    \* families past their expiresAt, which rotation keeps
  req,        \* [Requests -> Handler]
  held,       \* [Clients -> Requests \union {None}], the stored refresh token
  session,    \* [Clients -> Requests \union {None}], the login a client shows
  epoch,      \* [Clients -> Nat], _sessionEpoch
  faults,
  excused,    \* history: families with a reason to end
  delisted,   \* history: families with a reason not to be listed
  straggled   \* history: clients whose session ended under a request

sessHistory == <<excused, delisted, straggled>>
client == <<held, session, epoch>>
store == <<users, token, rows, expired>>
sessVars == <<store, req, client, faults, sessHistory>>

TokenStates == {"none", "live", "revoked"}

(***************************************************************************)
(* pc: the command a handler is about to issue.  tok: the token presented. *)
(* fam: its family, which never changes (of a login: the new one; of a     *)
(* listing request: the current one).  row: the session row it found.  at: *)
(* the client's epoch when it sent the request.                            *)
(***************************************************************************)
Handler ==
  [kind : {"none", "login", "refresh", "logout", "delist", "others"},
   pc : {"idle", "check", "reuse", "user", "rotate", "create", "findrow",
         "writerow", "lofind", "lorows", "loagain", "revoke", "target",
         "delist", "others", "answer", "refuse", "done"},
   client : Clients \union {None}, tok : Requests \union {None},
   fam : Requests \union {None}, row : Requests \union {None}, at : Nat]

NoHandler == [kind |-> "none", pc |-> "idle", client |-> None, tok |-> None,
              fam |-> None, row |-> None, at |-> 0]

SessTypeOK ==
  /\ users \in SUBSET Users
  /\ token \in [Requests -> TokenStates]
  /\ rows \in SUBSET Requests /\ expired \in SUBSET Requests
  /\ req \in [Requests -> Handler]
  /\ held \in [Clients -> Requests \union {None}]
  /\ session \in [Clients -> Requests \union {None}]
  /\ epoch \in [Clients -> Nat]
  /\ faults \in Nat
  /\ excused \in SUBSET Requests /\ delisted \in SUBSET Requests
  /\ straggled \in SUBSET Clients

SessInit ==
  /\ users = Users
  /\ token = [r \in Requests |-> "none"]
  /\ rows = {} /\ expired = {}
  /\ req = [r \in Requests |-> NoHandler]
  /\ held = [c \in Clients |-> None]
  /\ session = [c \in Clients |-> None]
  /\ epoch = [c \in Clients |-> 0]
  /\ faults = 0
  /\ excused = {} /\ delisted = {} /\ straggled = {}

-----------------------------------------------------------------------------
At(r, p) == req[r].pc = p
InFlight(r) == ~At(r, "idle") /\ ~At(r, "done")
ClientOf(r) == req[r].client
Fam(r) == req[r].fam
Owner(f) == UserOf[ClientOf(f)]
Sent(c) == {r \in Requests : InFlight(r) /\ ClientOf(r) = c}
IdleClient(c) == Sent(c) = {}
Refreshing(c) == {r \in Sent(c) : req[r].kind = "refresh"}
\* Variant: revokedAt is not looked at.
LiveOrRevoked(t) == token[t] # "none" /\ Fam(t) \notin expired

Live(t) == token[t] = "live" /\ Fam(t) \notin expired
TokensOf(f) == {t \in Requests : token[t] # "none" /\ Fam(t) = f}
RowsOf(f) == {x \in rows : Fam(x) = f}
RowsOfUser(u) == {x \in rows : Owner(Fam(x)) = u}

Becomes(r, h) == req' = [req EXCEPT ![r] = h]
Goes(r, p) == Becomes(r, [req[r] EXCEPT !.pc = p])

Begins(r, c, k, p, t) ==
  /\ At(r, "idle") /\ \A q \in Requests : q < r => ~At(q, "idle")
  /\ Becomes(r, [NoHandler EXCEPT !.kind = k, !.pc = p, !.client = c, !.tok = t,
                   !.fam = IF k = "login" THEN r ELSE Fam(t), !.at = epoch[c]])
  /\ UNCHANGED <<store, client, faults, delisted, straggled>>

Step(r, p) == Goes(r, p) /\ UNCHANGED <<client, faults, sessHistory>>

-----------------------------------------------------------------------------
(***************************************************************************)
(* The clients.  A page refreshes one request at a time (_refreshPromise). *)
(***************************************************************************)
StartLogin(r, c) ==
  /\ session[c] = None
  /\ \A q \in Sent(c) : req[q].kind # "login"
  /\ Begins(r, c, "login", "user", None)
  /\ UNCHANGED excused

\* Variant: no single flight.
AnyFlight(c) == TRUE

SingleFlight(c) == Cardinality(Refreshing(c)) < Tabs[c]

\* Pages that share a storage may present one token twice.
StartRefresh(r, c) ==
  /\ held[c] # None /\ SingleFlight(c)
  /\ Begins(r, c, "refresh", "check", held[c])
  /\ excused' = IF Tabs[c] > 1 /\ \E q \in Refreshing(c) : req[q].tok = held[c]
                THEN excused \union {Fam(held[c])} ELSE excused

StartLogout(r, c) ==
  /\ c \in Browsers /\ session[c] # None /\ held[c] # None
  /\ Begins(r, c, "logout", "lofind", held[c])
  /\ excused' = excused \union {Fam(held[c])}

StartDelist(r, c, k) ==
  /\ session[c] # None /\ held[c] # None
  /\ k \in {"delist", "others"}
  /\ Begins(r, c, k, IF k = "delist" THEN "target" ELSE "others", held[c])
  /\ UNCHANGED excused

\* The client forgets its session, whatever is still under way.
Leaves(c, r) ==
  /\ held' = [held EXCEPT ![c] = None]
  /\ session' = [session EXCEPT ![c] = None]
  /\ epoch' = [epoch EXCEPT ![c] = @ + 1]
  /\ straggled' = IF Sent(c) \ {r} = {} THEN straggled ELSE straggled \union {c}

Stays == UNCHANGED <<client, straggled>>

\* The app signs out without a request to the server.
AppLogout(c) ==
  /\ c \notin Browsers /\ session[c] # None
  /\ Leaves(c, None)
  /\ excused' = excused \union {session[c]}
  /\ UNCHANGED <<store, req, faults, delisted>>

\* An error response.  The app compares epochs; a browser does not, and a page
\* that refreshed ahead of time ignores the result.
Refused(r) ==
  LET c == ClientOf(r) IN
  CASE req[r].kind = "logout" -> Leaves(c, r)
    [] req[r].kind = "refresh" /\ c \notin Browsers ->
         IF req[r].at = epoch[c] THEN Leaves(c, r) ELSE Stays
    [] req[r].kind = "refresh" /\ c \in Browsers -> Leaves(c, r) \/ Stays
    [] OTHER -> Stays

\* No response: fetch throws.
Unanswered(r) ==
  LET c == ClientOf(r) IN
  CASE req[r].kind = "logout" -> Leaves(c, r)
    [] req[r].kind = "refresh" /\ c \in Browsers -> Leaves(c, r) \/ Stays
    [] OTHER -> Stays

Answer(r) ==
  LET c == ClientOf(r) IN
  /\ At(r, "answer") /\ Goes(r, "done")
  /\ CASE req[r].kind = "login" ->
            /\ held' = [held EXCEPT ![c] = r]
            /\ session' = [session EXCEPT ![c] = r]
            /\ epoch' = [epoch EXCEPT ![c] = @ + 1]
            /\ UNCHANGED straggled
       [] req[r].kind = "refresh" ->
            /\ held' = [held EXCEPT ![c] = r]
            /\ UNCHANGED <<session, epoch, straggled>>
       [] req[r].kind = "logout" -> Leaves(c, r)
       [] OTHER -> Stays
  /\ UNCHANGED <<store, faults, excused, delisted>>

Refuse(r) ==
  /\ At(r, "refuse") /\ Goes(r, "done") /\ Refused(r)
  /\ UNCHANGED <<store, faults, excused, delisted>>

\* A command throws, the process dies, or the answer is lost on its way.  A
\* command that took effect first is the step before this one.
Fail(r) ==
  /\ InFlight(r) /\ faults < MaxFaults
  /\ Goes(r, "done") /\ (Refused(r) \/ Unanswered(r))
  /\ faults' = faults + 1
  /\ excused' = IF req[r].kind = "refresh" THEN excused \union {Fam(r)} ELSE excused
  /\ delisted' = IF req[r].kind = "logout" THEN delisted \union {Fam(r)} ELSE delisted
  /\ UNCHANGED store

-----------------------------------------------------------------------------
(***************************************************************************)
(* AuthService.refreshAccessToken and login, then upsertSession.           *)
(***************************************************************************)
Check(r) ==
  /\ At(r, "check")
  /\ Step(r, IF Live(req[r].tok) THEN "user" ELSE "reuse")
  /\ UNCHANGED store

Reuse(r) ==
  /\ At(r, "reuse")
  /\ Step(r, IF token[req[r].tok] = "revoked" THEN "revoke" ELSE "refuse")
  /\ UNCHANGED store

FindUser(r) ==
  /\ At(r, "user")
  /\ LET known == UserOf[ClientOf(r)] \in users IN
     Step(r, IF req[r].kind = "login" THEN (IF known THEN "create" ELSE "refuse")
             ELSE IF known THEN "rotate" ELSE "revoke")
  /\ UNCHANGED store

Revoked(ts) == [t \in Requests |-> IF t \in ts THEN "revoked" ELSE token[t]]

Rotate(r) ==
  /\ At(r, "rotate") /\ Step(r, "create")
  /\ token' = Revoked({req[r].tok} \intersect TokensOf(Fam(r)))
  /\ UNCHANGED <<users, rows, expired>>

Create(r) ==
  /\ At(r, "create") /\ Step(r, "findrow")
  /\ token' = [token EXCEPT ![r] = "live"]
  /\ UNCHANGED <<users, rows, expired>>

\* Variant: the row is looked for by user alone.
FindAnyRow(r) ==
  LET found == RowsOfUser(UserOf[ClientOf(r)]) IN
  /\ At(r, "findrow")
  /\ \E x \in IF found = {} THEN {None} ELSE found :
       Becomes(r, [req[r] EXCEPT !.pc = "writerow", !.row = x])
  /\ UNCHANGED <<store, client, faults, sessHistory>>

FindRow(r) ==
  /\ At(r, "findrow")
  /\ \E x \in IF RowsOf(Fam(r)) = {} THEN {None} ELSE RowsOf(Fam(r)) :
       Becomes(r, [req[r] EXCEPT !.pc = "writerow", !.row = x])
  /\ UNCHANGED <<store, client, faults, sessHistory>>

\* updateLastActive changes a date only.
WriteRow(r) ==
  /\ At(r, "writerow") /\ Step(r, "answer")
  /\ rows' = IF req[r].row = None THEN rows \union {r} ELSE rows
  /\ UNCHANGED <<users, token, expired>>

\* revokeFamily: the end of a logout, of a reuse and of an orphaned refresh.
RevokeFamily(r) ==
  /\ At(r, "revoke")
  /\ Step(r, IF req[r].kind = "logout" THEN "answer" ELSE "refuse")
  /\ token' = Revoked(TokensOf(Fam(r)))
  /\ UNCHANGED <<users, rows, expired>>

-----------------------------------------------------------------------------
(***************************************************************************)
(* handleLogout, which looks the token up for the rows and again for the   *)
(* tokens, and the two DELETE routes of /sessions, which mark rows only.   *)
(***************************************************************************)
FindLogout(r) ==
  /\ At(r, "lofind")
  /\ Step(r, IF token[req[r].tok] = "none" THEN "loagain" ELSE "lorows")
  /\ UNCHANGED store

LogoutRows(r) ==
  /\ At(r, "lorows") /\ Step(r, "loagain")
  /\ rows' = rows \ RowsOf(Fam(r))
  /\ UNCHANGED <<users, token, expired>>

FindAgain(r) ==
  /\ At(r, "loagain")
  /\ LET gone == token[req[r].tok] = "none" IN
     /\ Goes(r, IF gone THEN "answer" ELSE "revoke")
     /\ delisted' = IF gone THEN delisted \union {Fam(r)} ELSE delisted
  /\ UNCHANGED <<store, client, faults, excused, straggled>>

FindTarget(r) ==
  /\ At(r, "target")
  /\ \/ \E x \in RowsOfUser(UserOf[ClientOf(r)]) :
          Becomes(r, [req[r] EXCEPT !.pc = "delist", !.row = x])
     \/ Goes(r, "refuse")
  /\ UNCHANGED <<store, client, faults, sessHistory>>

Delists(r, xs) ==
  /\ Goes(r, "answer")
  /\ rows' = rows \ xs
  /\ delisted' = delisted \union {Fam(x) : x \in xs}
  /\ UNCHANGED <<users, token, expired, client, faults, excused, straggled>>

Delist(r) == At(r, "delist") /\ Delists(r, {req[r].row})

DelistOthers(r) ==
  /\ At(r, "others")
  /\ Delists(r, {x \in RowsOfUser(UserOf[ClientOf(r)]) : Fam(x) # Fam(r)})

\* expiresAt, which a family keeps, passes; then the TTL index deletes.
Expire(f) ==
  /\ f \notin expired /\ TokensOf(f) # {} /\ faults < MaxFaults
  /\ expired' = expired \union {f}
  /\ excused' = excused \union {f}
  /\ faults' = faults + 1
  /\ UNCHANGED <<users, token, rows, req, client, delisted, straggled>>

Sweep(f) ==
  /\ f \in expired /\ TokensOf(f) # {}
  /\ token' = [t \in Requests |-> IF t \in TokensOf(f) THEN "none" ELSE token[t]]
  /\ UNCHANGED <<users, rows, expired, req, client, faults, sessHistory>>

SessServer(r) ==
  \/ Check(r) \/ Reuse(r) \/ FindUser(r) \/ Rotate(r) \/ Create(r)
  \/ FindRow(r) \/ WriteRow(r) \/ RevokeFamily(r)
  \/ FindLogout(r) \/ LogoutRows(r) \/ FindAgain(r)
  \/ FindTarget(r) \/ Delist(r) \/ DelistOthers(r)
  \/ Answer(r) \/ Refuse(r) \/ Fail(r)

SessStart(r, c) ==
  \/ StartLogin(r, c) \/ StartRefresh(r, c) \/ StartLogout(r, c)
  \/ \E k \in {"delist", "others"} : StartDelist(r, c, k)

\* Every step but the start of a request.
SessRuns ==
  \/ \E r \in Requests : SessServer(r) \/ Expire(r) \/ Sweep(r)
  \/ \E c \in Clients : AppLogout(c)

-----------------------------------------------------------------------------
\* c, which shows a session and has nothing under way, stores a live token of it.
HoldsLiveToken(c) ==
  IdleClient(c) /\ session[c] # None /\ session[c] \notin excused
    => held[c] # None /\ Live(held[c]) /\ Fam(held[c]) = session[c]

(***************************************************************************)
(* SessionSurvives: rotation (AuthService 648-693) never costs a client    *)
(* its session.  A client is not signed out, and when it has nothing under *)
(* way it stores a live token, unless the family was logged out, expired,  *)
(* deleted with its user, refreshed by two pages at once or by a request   *)
(* that failed, or the client ended a session while a request of its own   *)
(* was under way.                                                          *)
(***************************************************************************)
SessionSurvives ==
  [][\A c \in Clients : c \notin straggled' =>
       /\ session[c] # None /\ session[c] \notin excused' => session'[c] = session[c]
       /\ HoldsLiveToken(c)']_sessVars

\* A refresh has seen a live token of the family and has not stored the next.
Rotating(f) == \E r \in Requests :
  req[r].kind = "refresh" /\ Fam(r) = f /\ req[r].pc \in {"user", "rotate", "create"}

Dead(f) ==
  /\ req[f].kind = "login" /\ req[f].pc \notin {"user", "create"}
  /\ ~Rotating(f)
  /\ \A t \in TokensOf(f) : token[t] # "live"

(***************************************************************************)
(* FamilyDeathIsFinal: a family without a live token gets one again only   *)
(* from a refresh that had passed findValidByTokenHash before (logout,     *)
(* reuse and deletion are final but for such a refresh).                   *)
(***************************************************************************)
FamilyDeathIsFinal == [][\A f \in Requests : Dead(f) => Dead(f)']_sessVars
=============================================================================
