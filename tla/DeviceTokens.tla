------------------------------ MODULE DeviceTokens ------------------------------
(***************************************************************************)
(* Connector tokens: a device code is approved by a parent, the token made *)
(* for it is handed to the polling device, and every device has one active *)
(* token (connectorDeviceTokens, IngestDeviceAuthRepository).  Requests    *)
(* are handlers that issue their commands one by one.                      *)
(*                                                                         *)
(* The id of a token (jti) is the request that made it; a device authorised *)
(* by a code has the code as its id.                                       *)
(***************************************************************************)
EXTENDS Naturals, FiniteSets

CONSTANTS
  Devices,           \* device ids, each the code of its authorisation
  DeviceOwner,       \* [Devices -> Owners], the parent who approves it
  Owners,
  MaxDeviceRequests, \* bound
  MaxDeviceFaults    \* bound: failed commands, crashes, lost answers and
                     \* expiries

ASSUME DeviceConstants ==
  /\ DeviceOwner \in [Devices -> Owners]
  /\ MaxDeviceRequests \in Nat /\ MaxDeviceFaults \in Nat

DeviceRequests == 1..MaxDeviceRequests
NoJti == 0
Jtis == DeviceRequests \union {NoJti}

VARIABLES
  auth,       \* [Devices -> Auth], the documents of 'slc_device_auth'
  device,     \* [Devices -> Row], the documents of 'slc_devices'
  ledger,     \* [DeviceRequests -> ...], 'revoked_connector_tokens'
  dreq,       \* [DeviceRequests -> DeviceHandler]
  taken,      \* [Devices -> Jtis], the token the device was given last
  devFaults,
  superseded  \* history: tokens that another mint or a revocation followed

devVars == <<auth, device, ledger, dreq, taken, devFaults, superseded>>

\* "gone": expired, or deleted by the TTL index or with its user.
Auth == [status : {"pending", "approved", "gone"}, jti : Jtis, sent : BOOLEAN]
Row == [active : Jtis, revoked : BOOLEAN]   \* no document: no active jti

\* pc: the command about to be issued.  read: the jti the handler has read.
DeviceHandler ==
  [kind : {"none", "approve", "issue", "poll", "revoke"},
   pc : {"idle", "pending", "existing", "mark", "upsert", "record", "approve",
         "answer", "get", "deliver", "find", "revoke", "marklast", "done"},
   dev : Devices, read : Jtis]

DevTypeOK ==
  /\ auth \in [Devices -> Auth] /\ device \in [Devices -> Row]
  /\ ledger \in [DeviceRequests -> {"none", "open", "revoked"}]
  /\ dreq \in [DeviceRequests -> DeviceHandler]
  /\ taken \in [Devices -> Jtis]
  /\ devFaults \in Nat /\ superseded \in SUBSET DeviceRequests

\* POST /device/start has been answered for every code.
DevInit ==
  /\ auth = [d \in Devices |-> [status |-> "pending", jti |-> NoJti, sent |-> FALSE]]
  /\ device = [d \in Devices |-> [active |-> NoJti, revoked |-> FALSE]]
  /\ ledger = [j \in DeviceRequests |-> "none"]
  /\ \E d \in Devices : dreq = [j \in DeviceRequests |->
       [kind |-> "none", pc |-> "idle", dev |-> d, read |-> NoJti]]
  /\ taken = [d \in Devices |-> NoJti]
  /\ devFaults = 0 /\ superseded = {}

-----------------------------------------------------------------------------
Dev(r) == dreq[r].dev
DevAt(r, p) == dreq[r].pc = p
DevGoes(r, p, j) == dreq' = [dreq EXCEPT ![r].pc = p, ![r].read = j]
DevInFlight(r) == ~DevAt(r, "idle") /\ ~DevAt(r, "done")

\* Handlers inside mintConnectorTokenForDevice, or past it, or inside
\* revokeConnectorDevice.
Changing == {"existing", "mark", "upsert", "record", "approve", "answer",
             "revoke", "marklast"}
Changes(d) == {r \in DeviceRequests : Dev(r) = d /\ dreq[r].pc \in Changing}
Minted(d) == {r \in DeviceRequests :
                Dev(r) = d /\ dreq[r].kind \in {"approve", "issue"}
                /\ dreq[r].pc \notin {"idle", "pending"}}

\* A mint or a revocation of d by r begins: older tokens are to end, and its
\* own token too if another one is under way.
Supersedes(r, d) ==
  superseded' = superseded \union (Minted(d) \ {r})
                \union (IF Changes(d) \ {r} = {} THEN {} ELSE {r})

DevStart(r, d, k) ==
  /\ k \in {"approve", "issue", "poll", "revoke"}
  /\ DevAt(r, "idle") /\ \A q \in DeviceRequests : q < r => ~DevAt(q, "idle")
  /\ dreq' = [dreq EXCEPT ![r] =
       [kind |-> k, dev |-> d, read |-> NoJti,
        pc |-> CASE k = "approve" -> "pending" [] k = "issue" -> "existing"
                 [] k = "poll" -> "get" [] OTHER -> "find"]]
  /\ IF k = "issue" THEN Supersedes(r, d) ELSE UNCHANGED superseded
  /\ UNCHANGED <<auth, device, ledger, taken, devFaults>>

-----------------------------------------------------------------------------
(***************************************************************************)
(* POST /device/approve: find the pending code, mint, approve the code.    *)
(***************************************************************************)
FindPending(r) ==
  /\ DevAt(r, "pending")
  /\ IF auth[Dev(r)].status = "pending"
     THEN DevGoes(r, "existing", NoJti) /\ Supersedes(r, Dev(r))
     ELSE DevGoes(r, "done", NoJti) /\ UNCHANGED superseded
  /\ UNCHANGED <<auth, device, ledger, taken, devFaults>>

FindExisting(r) ==
  /\ DevAt(r, "existing")
  /\ LET j == device[Dev(r)].active IN
     DevGoes(r, IF j = NoJti THEN "upsert" ELSE "mark", j)
  /\ UNCHANGED <<auth, device, ledger, taken, devFaults, superseded>>

\* updateOne without upsert: no document, no effect.
Marked(j) == [i \in DeviceRequests |->
  IF i = j /\ ledger[i] = "open" THEN "revoked" ELSE ledger[i]]

MarkOld(r) ==
  /\ DevAt(r, "mark") /\ DevGoes(r, "upsert", dreq[r].read)
  /\ ledger' = Marked(dreq[r].read)
  /\ UNCHANGED <<auth, device, taken, devFaults, superseded>>

\* Variant: the row's revokedAt is not reset.
UpsertKeepsRevoked(r) ==
  /\ DevAt(r, "upsert") /\ DevGoes(r, "record", dreq[r].read)
  /\ device' = [device EXCEPT ![Dev(r)].active = r]
  /\ UNCHANGED <<auth, ledger, taken, devFaults, superseded>>

Upsert(r) ==
  /\ DevAt(r, "upsert") /\ DevGoes(r, "record", dreq[r].read)
  /\ device' = [device EXCEPT ![Dev(r)] = [active |-> r, revoked |-> FALSE]]
  /\ UNCHANGED <<auth, ledger, taken, devFaults, superseded>>

RecordJti(r) ==
  /\ DevAt(r, "record")
  /\ DevGoes(r, IF dreq[r].kind = "approve" THEN "approve" ELSE "answer", NoJti)
  /\ ledger' = [ledger EXCEPT ![r] = "open"]
  /\ UNCHANGED <<auth, device, taken, devFaults, superseded>>

Approve(r) ==
  /\ DevAt(r, "approve") /\ DevGoes(r, "done", NoJti)
  /\ auth' = IF auth[Dev(r)].status = "pending"
             THEN [auth EXCEPT ![Dev(r)].status = "approved", ![Dev(r)].jti = r]
             ELSE auth
  /\ UNCHANGED <<device, ledger, taken, devFaults, superseded>>

\* POST /scraper-token answers the device itself.
AnswerIssue(r) ==
  /\ DevAt(r, "answer") /\ DevGoes(r, "done", NoJti)
  /\ taken' = [taken EXCEPT ![Dev(r)] = r]
  /\ UNCHANGED <<auth, device, ledger, devFaults, superseded>>

-----------------------------------------------------------------------------
(***************************************************************************)
(* POST /device/poll: deliverTokenOnce reads the code and then marks the   *)
(* token delivered, with no condition on the mark.                         *)
(***************************************************************************)
Poll(r) ==
  /\ DevAt(r, "get")
  /\ LET a == auth[Dev(r)] IN
     IF a.status = "approved" /\ ~a.sent
     THEN DevGoes(r, "deliver", a.jti) ELSE DevGoes(r, "done", NoJti)
  /\ UNCHANGED <<auth, device, ledger, taken, devFaults, superseded>>

Deliver(r) ==
  /\ DevAt(r, "deliver") /\ DevGoes(r, "done", NoJti)
  /\ auth' = IF auth[Dev(r)].status = "gone" THEN auth
             ELSE [auth EXCEPT ![Dev(r)].sent = TRUE]
  /\ taken' = [taken EXCEPT ![Dev(r)] = dreq[r].read]
  /\ UNCHANGED <<device, ledger, devFaults, superseded>>

DeliverLost(r) ==
  /\ DevAt(r, "deliver") /\ DevGoes(r, "done", NoJti)
  /\ devFaults < MaxDeviceFaults /\ devFaults' = devFaults + 1
  /\ auth' = IF auth[Dev(r)].status = "gone" THEN auth
             ELSE [auth EXCEPT ![Dev(r)].sent = TRUE]
  /\ UNCHANGED <<device, ledger, taken, superseded>>

(***************************************************************************)
(* DELETE /scraper-token: revokeDevice, then the ledger.                   *)
(***************************************************************************)
FindDevice(r) ==
  /\ DevAt(r, "find")
  /\ LET w == device[Dev(r)] IN
     IF w.active # NoJti /\ ~w.revoked
     THEN DevGoes(r, "revoke", w.active) /\ Supersedes(r, Dev(r))
     ELSE DevGoes(r, "done", NoJti) /\ UNCHANGED superseded
  /\ UNCHANGED <<auth, device, ledger, taken, devFaults>>

RevokeDevice(r) ==
  /\ DevAt(r, "revoke") /\ DevGoes(r, "marklast", dreq[r].read)
  /\ device' = [device EXCEPT ![Dev(r)].revoked = TRUE]
  /\ UNCHANGED <<auth, ledger, taken, devFaults, superseded>>

MarkLast(r) ==
  /\ DevAt(r, "marklast") /\ DevGoes(r, "done", NoJti)
  /\ ledger' = Marked(dreq[r].read)
  /\ UNCHANGED <<auth, device, taken, devFaults, superseded>>

\* A command throws, the process dies, or the answer is lost.
DevFail(r) ==
  /\ DevInFlight(r) /\ devFaults < MaxDeviceFaults
  /\ DevGoes(r, "done", NoJti) /\ devFaults' = devFaults + 1
  /\ UNCHANGED <<auth, device, ledger, taken, superseded>>

\* expiresAt passes for a pending code, or the TTL index deletes the document.
ExpireCode(d) ==
  /\ auth[d].status # "gone" /\ devFaults < MaxDeviceFaults
  /\ auth' = [auth EXCEPT ![d].status = "gone"]
  /\ devFaults' = devFaults + 1
  /\ UNCHANGED <<device, ledger, dreq, taken, superseded>>

DevServer(r) ==
  \/ FindPending(r) \/ FindExisting(r) \/ MarkOld(r) \/ Upsert(r)
  \/ RecordJti(r) \/ Approve(r) \/ AnswerIssue(r)
  \/ Poll(r) \/ Deliver(r) \/ DeliverLost(r)
  \/ FindDevice(r) \/ RevokeDevice(r) \/ MarkLast(r) \/ DevFail(r)

\* Every step but the start of a request.
DevRuns ==
  \/ \E r \in DeviceRequests : DevServer(r)
  \/ \E d \in Devices : ExpireCode(d)

-----------------------------------------------------------------------------
\* connectorTokenAllowed
Accepted(d, j) ==
  device[d].active = j /\ ~device[d].revoked /\ ledger[j] # "revoked"

(***************************************************************************)
(* TakenTokenWorks: the token a device was given last is accepted by       *)
(* connectorAuth, unless a mint or a revocation for the device began later *)
(* or while the token was made (two approvals of one code at once may hand *)
(* the device the token that lost).                                        *)
(***************************************************************************)
TakenTokenWorks ==
  \A d \in Devices : taken[d] # NoJti /\ taken[d] \notin superseded => Accepted(d, taken[d])
=============================================================================
