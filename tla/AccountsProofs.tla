----------------------------- MODULE AccountsProofs -----------------------------
(***************************************************************************)
(* Proofs about Accounts, for any users, clients, devices and students and *)
(* any number of requests, deletions and faults: the bounds only occur as  *)
(* guards and no proof uses one.                                           *)
(***************************************************************************)
EXTENDS Accounts, FiniteSetTheorems, TLAPS

-----------------------------------------------------------------------------
(* Sessions: what the position of a handler says about its request.        *)

Makers == {"login", "refresh"}
Presenters == {"refresh", "logout", "delist", "others"}

\* A handler of a request of kind k may be at p.
Fit(k, p) ==
  /\ p = "idle" <=> k = "none"
  /\ p \in {"check", "reuse", "rotate"} => k = "refresh"
  /\ p \in {"user", "create", "findrow", "writerow"} => k \in Makers
  /\ p \in {"lofind", "lorows", "loagain"} => k = "logout"
  /\ p = "target" => k = "delist"
  /\ p = "revoke" => k \in {"refresh", "logout"}
  /\ p \in {"delist", "others"} => k = p

\* h is a state of the handler of r.
Shape(r, h) ==
  /\ Fit(h.kind, h.pc)
  /\ h.pc # "idle" => h.client \in Clients /\ h.fam \in Requests
  /\ h.kind = "login" => h.fam = r
  /\ h.kind \in Presenters => h.tok \in Requests
  /\ h.pc = "delist" => h.row \in Requests

\* A request belongs to the family and the client of the token it presents.
Linked(r) ==
  ~At(r, "idle") =>
    /\ req[Fam(r)].kind = "login" /\ ClientOf(Fam(r)) = ClientOf(r)
    /\ req[r].tok # None => /\ ~At(req[r].tok, "idle")
                            /\ Fam(req[r].tok) = Fam(r)
                            /\ ClientOf(req[r].tok) = ClientOf(r)
    /\ req[r].row # None => ~At(req[r].row, "idle")

Handlers == \A r \in Requests : Shape(r, req[r]) /\ Linked(r)

Stored ==
  /\ \A t \in Requests : token[t] # "none" =>
       req[t].kind \in Makers /\ req[t].pc \in {"findrow", "writerow", "answer", "done"}
  /\ \A x \in rows : ~At(x, "idle")
  /\ \A c \in Clients :
       /\ held[c] # None => /\ ClientOf(held[c]) = c /\ At(held[c], "done")
                            /\ req[held[c]].kind \in Makers
       /\ session[c] # None => ClientOf(session[c]) = c /\ req[session[c]].kind = "login"

SessInv == SessTypeOK /\ Handlers /\ Stored

\* What a request was sent for does not change.
Kept(r) ==
  ~At(r, "idle") => /\ ~At(r, "idle")'
                    /\ req'[r].kind = req[r].kind /\ req'[r].client = req[r].client
                    /\ req'[r].tok = req[r].tok /\ req'[r].fam = req[r].fam

LEMMA SessInvInit == SessInit => SessInv
<1> SUFFICES ASSUME SessInit PROVE SessInv
  OBVIOUS
<1>1. NoHandler \in Handler
  BY DEF NoHandler, Handler
<1>2. SessTypeOK
  BY <1>1 DEF SessInit, SessTypeOK, TokenStates
<1>3. Handlers
  BY DEF SessInit, Handlers, Shape, Fit, Linked, At, NoHandler, Presenters
<1>4. Stored
  BY DEF SessInit, Stored
<1> QED BY <1>2, <1>3, <1>4 DEF SessInv

\* A handler that goes on.
LEMMA Advances ==
  ASSUME SessInv, NEW r \in Requests, ~At(r, "idle"), NEW h \in Handler, h.pc # "idle",
         h.kind = req[r].kind, h.client = req[r].client,
         h.tok = req[r].tok, h.fam = req[r].fam,
         Shape(r, h), h.row # None => ~At(h.row, "idle"),
         req' = [req EXCEPT ![r] = h]
  PROVE  /\ req' \in [Requests -> Handler] /\ Handlers'
         /\ \A q \in Requests : Kept(q)
         /\ \A q \in Requests : q # r => req'[q] = req[q]
         /\ req'[r] = h
<1>1. req \in [Requests -> Handler]
  BY DEF SessInv, SessTypeOK
<1>2. /\ req' \in [Requests -> Handler] /\ req'[r] = h
      /\ \A q \in Requests : q # r => req'[q] = req[q]
  BY <1>1
<1>3. \A q \in Requests : Kept(q)
  BY <1>2 DEF Kept, At
<1>4. \A q \in Requests : Shape(q, req'[q])
  BY <1>2 DEF SessInv, Handlers
<1>5. ASSUME NEW q \in Requests, ~At(q, "idle") PROVE Linked(q)'
  <2>1. /\ Fam(q) \in Requests /\ req[Fam(q)].kind = "login"
        /\ ClientOf(Fam(q)) = ClientOf(q)
        /\ req[q].tok \in Requests \union {None}
        /\ req[q].tok # None => /\ ~At(req[q].tok, "idle")
                                /\ Fam(req[q].tok) = Fam(q)
                                /\ ClientOf(req[q].tok) = ClientOf(q)
    BY <1>1, <1>5 DEF SessInv, Handlers, Shape, Linked, Handler, At, Fam
  <2>2. ~At(Fam(q), "idle")
    BY <2>1 DEF SessInv, Handlers, Shape, Fit, At
  <2>3. /\ req'[Fam(q)].kind = "login" /\ req'[Fam(q)].client = ClientOf(q)
        /\ req'[q].fam = Fam(q) /\ req'[q].client = ClientOf(q) /\ req'[q].tok = req[q].tok
    BY <1>3, <1>5, <2>1, <2>2 DEF Kept, ClientOf, Fam
  <2>4. req[q].tok # None =>
          /\ req'[req[q].tok].pc # "idle" /\ req'[req[q].tok].fam = Fam(q)
          /\ req'[req[q].tok].client = ClientOf(q)
    BY <1>3, <2>1 DEF Kept, ClientOf, Fam, At
  <2>5. req'[q].row # None => req'[req'[q].row].pc # "idle"
    <3>1. req'[q].row # None => req'[q].row \in Requests /\ ~At(req'[q].row, "idle")
      BY <1>1, <1>2, <1>5 DEF SessInv, Handlers, Linked, Handler
    <3> QED BY <1>3, <3>1 DEF Kept, At
  <2> QED BY <2>3, <2>4, <2>5 DEF Linked, At, Fam, ClientOf
<1>6. \A q \in Requests : At(q, "idle") => Linked(q)'
  BY <1>2 DEF Linked, At
<1> QED BY <1>2, <1>3, <1>4, <1>5, <1>6 DEF Handlers

After == {"findrow", "writerow", "answer", "done"}

\* What a step of the handler of r, which leaves it in state h, may store.
Stores(r, h) ==
  /\ h.kind \in Makers /\ req[r].pc \in After => h.pc \in After
  /\ \A t \in Requests : token'[t] # "none" =>
       token[t] # "none" \/ (t = r /\ h.kind \in Makers /\ h.pc \in After)
  /\ \A x \in rows' : x \in rows \/ x = r
  /\ \A c \in Clients :
       /\ held'[c] \in {held[c], None}
          \/ (held'[c] = r /\ h.client = c /\ h.pc = "done" /\ h.kind \in Makers)
       /\ session'[c] \in {session[c], None}
          \/ (session'[c] = r /\ h.client = c /\ h.kind = "login")

LEMMA StoredKept ==
  ASSUME SessInv, NEW r \in Requests, InFlight(r), NEW h \in Handler, h.pc # "idle",
         \A q \in Requests : Kept(q),
         \A q \in Requests : q # r => req'[q] = req[q],
         req'[r] = h, Stores(r, h)
  PROVE  Stored'
<1>1. ASSUME NEW t \in Requests, token'[t] # "none"
      PROVE  req'[t].kind \in Makers /\ req'[t].pc \in After
  <2>1. CASE token[t] = "none"
    BY <1>1, <2>1 DEF Stores
  <2>2. CASE token[t] # "none"
    <3>1. req[t].kind \in Makers /\ req[t].pc \in After
      BY <2>2 DEF SessInv, Stored, After
    <3>2. CASE t = r
      <4>1. h.kind = req[r].kind
        BY DEF Kept, InFlight
      <4> QED BY <3>1, <3>2, <4>1 DEF Stores
    <3> QED BY <3>1, <3>2
  <2> QED BY <2>1, <2>2
<1>2. \A x \in rows' : req'[x].pc # "idle"
  <2>1. \A x \in rows' : x \in Requests
    BY DEF Stores, SessInv, SessTypeOK
  <2>2. \A x \in rows : ~At(x, "idle")
    BY DEF SessInv, Stored
  <2> QED BY <2>1, <2>2 DEF Stores, Kept, At
<1>3. ASSUME NEW c \in Clients, held'[c] # None
      PROVE  /\ req'[held'[c]].client = c /\ req'[held'[c]].pc = "done"
             /\ req'[held'[c]].kind \in Makers
  <2>1. CASE held'[c] = r /\ h.client = c /\ h.pc = "done" /\ h.kind \in Makers
    BY <2>1
  <2>2. CASE held'[c] = held[c]
    <3>1. /\ held[c] \in Requests /\ ClientOf(held[c]) = c /\ At(held[c], "done")
          /\ req[held[c]].kind \in Makers
      BY <1>3, <2>2 DEF SessInv, SessTypeOK, Stored
    <3>2. held[c] # r
      BY <3>1 DEF InFlight
    <3> QED BY <2>2, <3>1, <3>2 DEF ClientOf, At
  <2> QED BY <1>3, <2>1, <2>2 DEF Stores
<1>4. ASSUME NEW c \in Clients, session'[c] # None
      PROVE  req'[session'[c]].client = c /\ req'[session'[c]].kind = "login"
  <2>1. CASE session'[c] = r /\ h.client = c /\ h.kind = "login"
    BY <2>1
  <2>2. CASE session'[c] = session[c]
    <3>1. /\ session[c] \in Requests /\ ClientOf(session[c]) = c
          /\ req[session[c]].kind = "login"
      BY <1>4, <2>2 DEF SessInv, SessTypeOK, Stored
    <3>2. ~At(session[c], "idle")
      BY <3>1 DEF SessInv, Handlers, Shape, Fit, At
    <3> QED BY <2>2, <3>1, <3>2 DEF ClientOf, Kept
  <2> QED BY <1>4, <2>1, <2>2 DEF Stores
<1> QED BY <1>1, <1>2, <1>3, <1>4 DEF Stored, After, At, ClientOf

\* A handler that goes on in state h.
LEMMA HandlerMoves ==
  ASSUME SessInv, NEW r \in Requests, InFlight(r), NEW h \in Handler, h.pc # "idle",
         h.kind = req[r].kind, h.client = req[r].client,
         h.tok = req[r].tok, h.fam = req[r].fam,
         Shape(r, h), h.row # None => ~At(h.row, "idle"), Becomes(r, h), Stores(r, h)
  PROVE  req' \in [Requests -> Handler] /\ Handlers' /\ Stored'
<1>1. ~At(r, "idle") /\ req' = [req EXCEPT ![r] = h]
  BY DEF InFlight, Becomes
<1>2. /\ req' \in [Requests -> Handler] /\ Handlers'
      /\ \A q \in Requests : Kept(q)
      /\ \A q \in Requests : q # r => req'[q] = req[q]
      /\ req'[r] = h
  BY <1>1, Advances
<1> QED BY <1>2, StoredKept

\* Facts about a handler in progress.
LEMMA HandlerFacts ==
  ASSUME SessInv, NEW r \in Requests
  PROVE  /\ req[r] \in Handler /\ Shape(r, req[r])
         /\ ~At(r, "idle") => /\ ClientOf(r) \in Clients /\ Fam(r) \in Requests
                              /\ Owner(Fam(r)) = UserOf[ClientOf(r)]
                              /\ req[Fam(r)].kind = "login"
                              /\ ClientOf(Fam(r)) = ClientOf(r)
                              /\ ~At(Fam(r), "idle")
                              /\ req[r].row # None => ~At(req[r].row, "idle")
<1>1. req[r] \in Handler /\ Shape(r, req[r]) /\ Linked(r)
  BY DEF SessInv, SessTypeOK, Handlers
<1>2. ~At(r, "idle") => Fam(r) \in Requests /\ ClientOf(r) \in Clients
  BY <1>1 DEF Shape, At, Fam, ClientOf
<1>3. ~At(r, "idle") => ~At(Fam(r), "idle")
  BY <1>1, <1>2 DEF SessInv, Handlers, Shape, Fit, Linked, At
<1> QED BY <1>1, <1>2, <1>3 DEF Linked, Owner

Positions ==
  {"check", "reuse", "user", "rotate", "create", "findrow", "writerow", "lofind",
   "lorows", "loagain", "revoke", "target", "others", "answer", "refuse", "done"}

\* A handler that only changes its position, to p.
LEMMA HandlerGoes ==
  ASSUME SessInv, NEW r \in Requests, InFlight(r), NEW p \in Positions,
         Goes(r, p), Fit(req[r].kind, p), Stores(r, [req[r] EXCEPT !.pc = p])
  PROVE  req' \in [Requests -> Handler] /\ Handlers' /\ Stored'
<1> DEFINE h == [req[r] EXCEPT !.pc = p]
<1>1. /\ req[r] \in Handler /\ (req[r].row # None => ~At(req[r].row, "idle"))
      /\ Shape(r, req[r]) /\ req[r].pc # "idle"
  BY HandlerFacts DEF InFlight, At
<1>2. /\ h \in Handler /\ h.pc = p /\ h.kind = req[r].kind /\ h.client = req[r].client
      /\ h.tok = req[r].tok /\ h.fam = req[r].fam /\ h.row = req[r].row
  BY <1>1 DEF Handler, Positions
<1>3. Becomes(r, h) /\ Stores(r, h)
  BY DEF Goes
<1>4. h.pc \notin {"idle", "delist"} /\ (h.row # None => ~At(h.row, "idle"))
  BY <1>1, <1>2 DEF Positions
<1> HIDE DEF h
<1>5. Shape(r, h)
  BY <1>1, <1>2, <1>4 DEF Shape
<1> QED BY <1>2, <1>3, <1>4, <1>5, HandlerMoves

LEMMA PlainStores ==
  ASSUME SessInv, NEW r \in Requests, NEW h \in Handler,
         rows' \subseteq rows, UNCHANGED client,
         \A t \in Requests : token'[t] # "none" => token[t] # "none",
         h.kind \in Makers /\ req[r].pc \in After => h.pc \in After
  PROVE  Stores(r, h)
BY DEF Stores, client

\* The same when it stores nothing new and the client does not hear of it.
LEMMA PlainGoes ==
  ASSUME SessInv, NEW r \in Requests, InFlight(r), NEW p \in Positions,
         Goes(r, p), Fit(req[r].kind, p), rows' \subseteq rows, UNCHANGED client,
         \A t \in Requests : token'[t] # "none" => token[t] # "none",
         req[r].kind \in Makers /\ req[r].pc \in After => p \in After
  PROVE  req' \in [Requests -> Handler] /\ Handlers' /\ Stored'
<1> DEFINE h == [req[r] EXCEPT !.pc = p]
<1>1. h \in Handler /\ h.pc = p /\ h.kind = req[r].kind
  BY HandlerFacts DEF Handler, Positions
<1>2. Stores(r, h)
  BY <1>1, PlainStores
<1> QED BY <1>2, HandlerGoes

-----------------------------------------------------------------------------
(* Every step of the session routes keeps SessInv: the handlers' commands. *)

LEMMA KeepsCheck ==
  ASSUME SessInv, NEW r \in Requests,
         Check(r) \/ Reuse(r) \/ FindUser(r) \/ FindLogout(r) \/ FindAgain(r)
  PROVE  SessInv'
<1>1. Fit(req[r].kind, req[r].pc)
  BY HandlerFacts DEF Shape
<1>2. PICK p \in {"user", "reuse", "revoke", "refuse", "create", "rotate", "loagain",
                  "lorows", "answer"} :
        Goes(r, p) /\ Fit(req[r].kind, p)
  <2>1. CASE Check(r)
    BY <1>1, <2>1 DEF Check, Step, At, Fit, Makers
  <2>2. CASE Reuse(r)
    BY <1>1, <2>2 DEF Reuse, Step, At, Fit, Makers
  <2>3. CASE FindUser(r)
    BY <1>1, <2>3 DEF FindUser, Step, At, Fit, Makers
  <2>4. CASE FindLogout(r)
    BY <1>1, <2>4 DEF FindLogout, Step, At, Fit, Makers
  <2>5. CASE FindAgain(r)
    BY <1>1, <2>5 DEF FindAgain, At, Fit, Makers
  <2> QED BY <2>1, <2>2, <2>3, <2>4, <2>5
<1>3. /\ InFlight(r) /\ req[r].pc \in {"check", "reuse", "user", "lofind", "loagain"}
      /\ UNCHANGED <<store, client, faults, excused, straggled>>
  BY DEF Check, Reuse, FindUser, FindLogout, FindAgain, Step, At, InFlight, sessHistory
<1>4. req' \in [Requests -> Handler] /\ Handlers' /\ Stored'
  BY <1>2, <1>3, PlainGoes DEF store, After, Positions
<1>5. delisted' \in SUBSET Requests
  <2>1. Fam(r) \in Requests
    BY <1>3, HandlerFacts DEF InFlight
  <2> QED BY <2>1 DEF SessInv, SessTypeOK, Check, Reuse, FindUser, FindLogout, FindAgain,
              Step, sessHistory
<1> QED BY <1>3, <1>4, <1>5 DEF SessInv, SessTypeOK, store, client

LEMMA KeepsFind ==
  ASSUME SessInv, NEW r \in Requests, FindRow(r) \/ FindTarget(r)
  PROVE  SessInv'
<1>1. /\ req[r] \in Handler /\ Shape(r, req[r]) /\ InFlight(r)
      /\ UNCHANGED <<store, client, faults, sessHistory>>
  BY HandlerFacts DEF FindRow, FindTarget, At, InFlight
<1>2. \A x \in rows : x \in Requests /\ ~At(x, "idle")
  BY DEF SessInv, SessTypeOK, Stored
<1>3. ASSUME NEW x \in Requests \union {None}, x # None => ~At(x, "idle"),
             NEW p \in {"writerow", "delist"}, Fit(req[r].kind, p),
             p = "delist" => x # None /\ req[r].pc \notin After,
             Becomes(r, [req[r] EXCEPT !.pc = p, !.row = x])
      PROVE  req' \in [Requests -> Handler] /\ Handlers' /\ Stored'
  <2> DEFINE h == [req[r] EXCEPT !.pc = p, !.row = x]
  <2>1. /\ h \in Handler /\ h.pc = p /\ h.kind = req[r].kind /\ h.row = x
        /\ h.client = req[r].client /\ h.tok = req[r].tok /\ h.fam = req[r].fam
    <3>1. req[r] \in Handler
      BY <1>1
    <3>2. h.pc = p /\ h.row = x
      BY <3>1 DEF Handler
    <3>3. /\ h.kind = req[r].kind /\ h.client = req[r].client
          /\ h.tok = req[r].tok /\ h.fam = req[r].fam
      BY <3>1 DEF Handler
    <3>4. h \in Handler
      BY <3>1 DEF Handler
    <3> QED BY <3>2, <3>3, <3>4
  <2>2. Becomes(r, h)
    BY <1>3
  <2>3. h.pc # "idle" /\ (h.row # None => ~At(h.row, "idle"))
    BY <1>3, <2>1
  <2> HIDE DEF h
  <2>4. Shape(r, h)
    BY <1>1, <1>3, <2>1 DEF Shape, InFlight, At
  <2>5. Stores(r, h)
    BY <1>1, <1>3, <2>1, PlainStores DEF store, After
  <2> QED BY <1>1, <2>1, <2>2, <2>3, <2>4, <2>5, HandlerMoves
<1>4. ASSUME FindRow(r)
      PROVE  req' \in [Requests -> Handler] /\ Handlers' /\ Stored'
  <2>1. PICK x \in IF RowsOf(Fam(r)) = {} THEN {None} ELSE RowsOf(Fam(r)) :
          Becomes(r, [req[r] EXCEPT !.pc = "writerow", !.row = x])
    BY <1>4 DEF FindRow
  <2>2. x \in Requests \union {None} /\ (x # None => ~At(x, "idle"))
    BY <1>2 DEF RowsOf
  <2>3. Fit(req[r].kind, "writerow")
    BY <1>1, <1>4 DEF FindRow, At, Shape, Fit, Makers
  <2> QED BY <1>3, <2>1, <2>2, <2>3
<1>5. ASSUME FindTarget(r)
      PROVE  req' \in [Requests -> Handler] /\ Handlers' /\ Stored'
  <2>1. ASSUME NEW x \in RowsOfUser(UserOf[ClientOf(r)]),
               Becomes(r, [req[r] EXCEPT !.pc = "delist", !.row = x])
        PROVE  req' \in [Requests -> Handler] /\ Handlers' /\ Stored'
    <3>1. x \in Requests /\ x # None /\ ~At(x, "idle")
      BY <1>2 DEF RowsOfUser, Requests, None
    <3>2. Fit(req[r].kind, "delist") /\ req[r].pc \notin After
      BY <1>1, <1>5 DEF FindTarget, At, Shape, Fit, After, Makers
    <3> QED BY <1>3, <2>1, <3>1, <3>2
  <2>2. CASE Goes(r, "refuse")
    <3>1. Fit(req[r].kind, "refuse") /\ req[r].pc \notin After
      BY <1>1, <1>5 DEF FindTarget, At, Shape, Fit, After, Makers
    <3> QED BY <1>1, <2>2, <3>1, PlainGoes DEF store, Positions
  <2> QED BY <1>5, <2>1, <2>2 DEF FindTarget
<1> QED BY <1>1, <1>3, <1>4, <1>5 DEF SessInv, SessTypeOK, store, client, sessHistory

LEMMA KeepsToken ==
  ASSUME SessInv, NEW r \in Requests, Rotate(r) \/ RevokeFamily(r)
  PROVE  SessInv'
<1>1. Fit(req[r].kind, req[r].pc)
  BY HandlerFacts DEF Shape
<1>2. PICK p \in {"create", "refuse", "answer"} : Goes(r, p) /\ Fit(req[r].kind, p)
  <2>1. CASE Rotate(r)
    BY <1>1, <2>1 DEF Rotate, Step, At, Fit, Makers
  <2>2. CASE RevokeFamily(r)
    BY <1>1, <2>2 DEF RevokeFamily, Step, At, Fit, Makers
  <2> QED BY <2>1, <2>2
<1>3. /\ InFlight(r) /\ req[r].pc \in {"rotate", "revoke"}
      /\ UNCHANGED <<client, faults, sessHistory, users, rows, expired>>
  BY DEF Rotate, RevokeFamily, Step, At, InFlight
<1>4. /\ token' \in [Requests -> TokenStates]
      /\ \A t \in Requests : token'[t] # "none" => token[t] # "none"
  <2>1. PICK ts \in SUBSET Requests :
          token' = Revoked(ts) /\ \A t \in ts : token[t] # "none"
    BY DEF Rotate, RevokeFamily, TokensOf
  <2> QED BY <2>1 DEF Revoked, SessInv, SessTypeOK, TokenStates
<1>5. req' \in [Requests -> Handler] /\ Handlers' /\ Stored'
  BY <1>2, <1>3, <1>4, PlainGoes DEF After, Positions
<1> QED BY <1>3, <1>4, <1>5 DEF SessInv, SessTypeOK, client, sessHistory

LEMMA KeepsCreate ==
  ASSUME SessInv, NEW r \in Requests, Create(r) \/ WriteRow(r)
  PROVE  SessInv'
<1>1. Fit(req[r].kind, req[r].pc) /\ req[r] \in Handler
  BY HandlerFacts DEF Shape
<1>2. PICK p \in {"findrow", "answer"} : Goes(r, p)
  BY DEF Create, WriteRow, Step
<1>3. /\ InFlight(r) /\ req[r].kind \in Makers /\ Fit(req[r].kind, p)
      /\ UNCHANGED <<client, faults, sessHistory, users, expired>>
  BY <1>1 DEF Create, WriteRow, Step, At, InFlight, Fit, Makers
<1>4. /\ token' \in [Requests -> TokenStates] /\ rows' \in SUBSET Requests
      /\ \A t \in Requests : token'[t] # "none" => token[t] # "none" \/ t = r
      /\ \A x \in rows' : x \in rows \/ x = r
  BY DEF Create, WriteRow, SessInv, SessTypeOK, TokenStates
<1>5. Stores(r, [req[r] EXCEPT !.pc = p])
  <2> DEFINE h == [req[r] EXCEPT !.pc = p]
  <2>1. h.pc \in After /\ h.kind \in Makers
    BY <1>1, <1>3 DEF Handler, After
  <2> QED BY <1>3, <1>4, <2>1 DEF Stores, client
<1>6. req' \in [Requests -> Handler] /\ Handlers' /\ Stored'
  BY <1>2, <1>3, <1>5, HandlerGoes DEF Positions
<1> QED BY <1>3, <1>4, <1>6 DEF SessInv, SessTypeOK, client, sessHistory

LEMMA KeepsRows ==
  ASSUME SessInv, NEW r \in Requests, LogoutRows(r) \/ Delist(r) \/ DelistOthers(r)
  PROVE  SessInv'
<1>1. Shape(r, req[r]) /\ Fit(req[r].kind, req[r].pc)
  BY HandlerFacts DEF Shape
<1>2. PICK p \in {"loagain", "answer"} : Goes(r, p) /\ Fit(req[r].kind, p)
  BY <1>1 DEF LogoutRows, Delist, DelistOthers, Delists, Step, At, Fit, Makers
<1>3. /\ InFlight(r) /\ req[r].pc \in {"lorows", "delist", "others"}
      /\ UNCHANGED <<client, faults, users, token, expired, excused, straggled>>
      /\ rows' \subseteq rows
  BY DEF LogoutRows, Delist, DelistOthers, Delists, Step, At, InFlight, sessHistory
<1>4. req' \in [Requests -> Handler] /\ Handlers' /\ Stored'
  BY <1>2, <1>3, PlainGoes DEF After, Positions
<1>5. delisted' \in SUBSET Requests
  <2>1. \A x \in rows : x \in Requests /\ ~At(x, "idle")
    BY DEF SessInv, SessTypeOK, Stored
  <2>2. At(r, "delist") => req[r].row \in Requests /\ ~At(req[r].row, "idle")
    <3>1. At(r, "delist") => req[r].row \in Requests
      BY <1>1 DEF Shape, At
    <3>2. ~At(r, "idle") /\ (req[r].row # None => ~At(req[r].row, "idle"))
      BY <1>3, HandlerFacts DEF InFlight
    <3> QED BY <3>1, <3>2 DEF Requests, None
  <2>3. \A x \in Requests : ~At(x, "idle") => Fam(x) \in Requests
    BY HandlerFacts
  <2>4. CASE LogoutRows(r)
    BY <2>4 DEF LogoutRows, Step, sessHistory, SessInv, SessTypeOK
  <2>5. CASE Delist(r)
    BY <2>2, <2>3, <2>5 DEF Delist, Delists, SessInv, SessTypeOK
  <2>6. CASE DelistOthers(r)
    BY <2>1, <2>3, <2>6 DEF DelistOthers, Delists, RowsOfUser, SessInv, SessTypeOK
  <2> QED BY <2>4, <2>5, <2>6
<1> QED BY <1>3, <1>4, <1>5 DEF SessInv, SessTypeOK, client

-----------------------------------------------------------------------------
(* The clients. *)

\* c forgets its session or keeps it; the other clients are not concerned.
Forgets(c) ==
  /\ UNCHANGED client \/ (held'[c] = None /\ session'[c] = None)
  /\ held' \in [Clients -> Requests \union {None}]
  /\ session' \in [Clients -> Requests \union {None}]
  /\ epoch' \in [Clients -> Nat]
  /\ straggled' \in SUBSET Clients
  /\ \A d \in Clients : d # c => held'[d] = held[d] /\ session'[d] = session[d]

LEMMA LeavesForgets ==
  ASSUME SessInv, NEW c \in Clients, NEW r, Leaves(c, r) \/ Stays
  PROVE  Forgets(c)
BY DEF SessInv, SessTypeOK, Leaves, Stays, Forgets, client

LEMMA EndForgets ==
  ASSUME SessInv, NEW r \in Requests, InFlight(r), Refused(r) \/ Unanswered(r)
  PROVE  Forgets(ClientOf(r))
<1>1. ClientOf(r) \in Clients
  BY HandlerFacts DEF InFlight
<1>2. Leaves(ClientOf(r), r) \/ Stays
  BY DEF Refused, Unanswered
<1> QED BY <1>1, <1>2, LeavesForgets

LEMMA KeepsEnd ==
  ASSUME SessInv, NEW r \in Requests, InFlight(r), Goes(r, "done"),
         Forgets(ClientOf(r)), UNCHANGED store, faults' \in Nat,
         excused' \in SUBSET Requests, delisted' \in SUBSET Requests
  PROVE  SessInv'
<1> DEFINE h == [req[r] EXCEPT !.pc = "done"]
<1>1. req[r] \in Handler /\ Shape(r, req[r]) /\ ClientOf(r) \in Clients
  BY HandlerFacts DEF InFlight
<1>2. h.pc = "done" /\ h.kind = req[r].kind
  BY <1>1 DEF Handler
<1>3. Stores(r, h)
  BY <1>1, <1>2 DEF Stores, Forgets, store, client, After
<1>4. Fit(req[r].kind, "done")
  BY <1>1 DEF Shape, Fit, InFlight, At
<1>5. req' \in [Requests -> Handler] /\ Handlers' /\ Stored'
  BY <1>3, <1>4, HandlerGoes DEF Positions
<1> QED BY <1>5 DEF SessInv, SessTypeOK, Forgets, store

LEMMA KeepsRefuse ==
  ASSUME SessInv, NEW r \in Requests, Refuse(r) \/ Fail(r)
  PROVE  SessInv'
<1>1. InFlight(r) /\ Goes(r, "done") /\ (Refused(r) \/ Unanswered(r)) /\ UNCHANGED store
  BY DEF Refuse, Fail, At, InFlight
<1>2. Fam(r) \in Requests
  BY <1>1, HandlerFacts DEF InFlight
<1>3. faults' \in Nat /\ excused' \in SUBSET Requests /\ delisted' \in SUBSET Requests
  BY <1>2 DEF Refuse, Fail, SessInv, SessTypeOK
<1> QED BY <1>1, <1>3, EndForgets, KeepsEnd

LEMMA KeepsAnswer ==
  ASSUME SessInv, NEW r \in Requests, Answer(r)
  PROVE  SessInv'
<1>1. /\ InFlight(r) /\ Goes(r, "done") /\ UNCHANGED store
      /\ faults' \in Nat /\ excused' \in SUBSET Requests /\ delisted' \in SUBSET Requests
  BY DEF Answer, At, InFlight, SessInv, SessTypeOK
<1>2. CASE req[r].kind \notin Makers
  <2>1. Leaves(ClientOf(r), r) \/ Stays
    BY <1>2 DEF Answer, Makers
  <2>2. ClientOf(r) \in Clients
    BY <1>1, HandlerFacts DEF InFlight
  <2> QED BY <1>1, <2>1, <2>2, LeavesForgets, KeepsEnd
<1>3. CASE req[r].kind \in Makers
  <2> DEFINE h == [req[r] EXCEPT !.pc = "done"]
             c == ClientOf(r)
  <2>1. req[r] \in Handler /\ Shape(r, req[r]) /\ c \in Clients
    BY <1>1, HandlerFacts DEF InFlight
  <2>2. h.pc = "done" /\ h.kind = req[r].kind /\ h.client = c
    BY <2>1 DEF Handler, ClientOf
  <2>3. /\ held' = [held EXCEPT ![c] = r]
        /\ session' = session \/ (req[r].kind = "login" /\ session' = [session EXCEPT ![c] = r])
        /\ epoch' \in [Clients -> Nat] /\ straggled' = straggled
    BY <1>3, <2>1 DEF Answer, Makers, SessInv, SessTypeOK
  <2>4. /\ held' \in [Clients -> Requests \union {None}]
        /\ session' \in [Clients -> Requests \union {None}]
        /\ \A d \in Clients : held'[d] = IF d = c THEN r ELSE held[d]
        /\ \A d \in Clients : session'[d] # session[d] =>
             d = c /\ session'[d] = r /\ req[r].kind = "login"
    BY <2>1, <2>3 DEF SessInv, SessTypeOK
  <2>5. Stores(r, h)
    BY <1>1, <1>3, <2>2, <2>4 DEF Stores, store, After
  <2>6. Fit(req[r].kind, "done")
    BY <1>3, <2>1 DEF Shape, Fit, Makers
  <2>7. req' \in [Requests -> Handler] /\ Handlers' /\ Stored'
    BY <1>1, <2>5, <2>6, HandlerGoes DEF Positions
  <2> QED BY <1>1, <2>3, <2>4, <2>7 DEF SessInv, SessTypeOK, store
<1> QED BY <1>2, <1>3

\* Steps that move no handler and store nothing new.
LEMMA KeepsQuiet ==
  ASSUME SessInv, UNCHANGED req, SessTypeOK',
         \A t \in Requests : token'[t] # "none" => token[t] # "none",
         rows' \subseteq rows,
         \A c \in Clients : held'[c] \in {held[c], None} /\ session'[c] \in {session[c], None}
  PROVE  SessInv'
<1>1. Handlers'
  BY DEF SessInv, Handlers, Linked, At, Fam, ClientOf
<1>2. Stored'
  BY DEF SessInv, Stored, At, ClientOf
<1> QED BY <1>1, <1>2 DEF SessInv

LEMMA KeepsAppLogout ==
  ASSUME SessInv, NEW c \in Clients, AppLogout(c)
  PROVE  SessInv'
<1>1. Forgets(c)
  BY LeavesForgets DEF AppLogout
<1>2. SessTypeOK'
  BY <1>1 DEF AppLogout, SessInv, SessTypeOK, Forgets, store
<1>3. UNCHANGED <<req, store>>
  BY DEF AppLogout
<1> QED BY <1>1, <1>2, <1>3, KeepsQuiet DEF Forgets, client, store

LEMMA KeepsExpire ==
  ASSUME SessInv, NEW f \in Requests, Expire(f) \/ Sweep(f)
  PROVE  SessInv'
<1>1. SessTypeOK' /\ \A t \in Requests : token'[t] # "none" => token[t] # "none"
  BY DEF Expire, Sweep, SessInv, SessTypeOK, TokenStates, client, sessHistory
<1>2. UNCHANGED <<req, rows, client>>
  BY DEF Expire, Sweep
<1> QED BY <1>1, <1>2, KeepsQuiet DEF client

-----------------------------------------------------------------------------
(* A request arrives. *)

Sending(r, c, k, p, t) ==
  [NoHandler EXCEPT !.kind = k, !.pc = p, !.client = c, !.tok = t,
                    !.fam = IF k = "login" THEN r ELSE Fam(t), !.at = epoch[c]]

\* A login presents no token, any other request the one its client stores.
LEMMA KeepsBegin ==
  ASSUME SessInv, NEW r \in Requests, NEW c \in Clients,
         NEW k \in {"login", "refresh", "logout", "delist", "others"},
         NEW p \in {"user", "check", "lofind", "target", "others"},
         NEW t \in Requests \union {None}, Begins(r, c, k, p, t), Fit(k, p),
         IF k = "login" THEN t = None ELSE held[c] # None /\ t = held[c],
         excused' \in SUBSET Requests
  PROVE  /\ SessInv'
         /\ \A q \in Requests : Kept(q)
         /\ \A q \in Requests : q # r => req'[q] = req[q]
         /\ req'[r] = Sending(r, c, k, p, t)
<1> DEFINE h == Sending(r, c, k, p, t)
<1>1. /\ req \in [Requests -> Handler] /\ req' = [req EXCEPT ![r] = h] /\ At(r, "idle")
      /\ UNCHANGED <<store, client, faults, delisted, straggled>>
  BY DEF Begins, Becomes, Sending, SessInv, SessTypeOK
<1>2. k # "login" => /\ t \in Requests /\ ~At(t, "idle") /\ ClientOf(t) = c
                     /\ Fam(t) \in Requests /\ t # r
  <2>1. k # "login" => t \in Requests /\ At(t, "done") /\ ClientOf(t) = c
    BY DEF SessInv, Stored
  <2> QED BY <1>1, <2>1, HandlerFacts DEF At
<1>3. /\ h.kind = k /\ h.pc = p /\ h.client = c /\ h.tok = t /\ h.row = None
      /\ h.fam = IF k = "login" THEN r ELSE Fam(t)
      /\ h \in Handler
  <2>1. h.kind = k /\ h.pc = p /\ h.client = c
    BY DEF Sending, NoHandler
  <2>2. h.tok = t /\ h.row = None /\ h.fam = IF k = "login" THEN r ELSE Fam(t)
    BY DEF Sending, NoHandler
  <2>3. epoch[c] \in Nat /\ (k = "login" \/ Fam(t) \in Requests)
    BY <1>2 DEF SessInv, SessTypeOK
  <2>4. h \in Handler
    <3> DEFINE g == [NoHandler EXCEPT !.kind = k, !.pc = p, !.client = c, !.tok = t]
    <3>1. NoHandler \in Handler
      BY DEF NoHandler, Handler
    <3>2. g \in Handler
      BY <3>1 DEF Handler
    <3>3. h = [g EXCEPT !.fam = IF k = "login" THEN r ELSE Fam(t), !.at = epoch[c]]
      BY DEF Sending
    <3>4. (IF k = "login" THEN r ELSE Fam(t)) \in Requests /\ epoch[c] \in Nat
      BY <2>3
    <3> HIDE DEF g, h
    <3> QED BY <3>2, <3>3, <3>4 DEF Handler
  <2> QED BY <2>1, <2>2, <2>4
<1> HIDE DEF h
<1>4. Shape(r, h)
  BY <1>2, <1>3 DEF Shape, Fit, Presenters
<1>5. /\ req' \in [Requests -> Handler] /\ req'[r] = h
      /\ \A q \in Requests : q # r => req'[q] = req[q]
  BY <1>1, <1>3
<1>6. \A q \in Requests : Kept(q)
  BY <1>1, <1>5 DEF Kept, At
<1>7. \A q \in Requests : ~At(q, "idle") => q # r
  BY <1>1
<1>8. ASSUME NEW q \in Requests, ~At(q, "idle") PROVE Linked(q)'
  <2>1. /\ Fam(q) \in Requests /\ req[Fam(q)].kind = "login" /\ ~At(Fam(q), "idle")
        /\ ClientOf(Fam(q)) = ClientOf(q)
    BY <1>8, HandlerFacts
  <2>2. /\ req[q].tok # None => /\ req[q].tok \in Requests /\ ~At(req[q].tok, "idle")
                                /\ Fam(req[q].tok) = Fam(q)
                                /\ ClientOf(req[q].tok) = ClientOf(q)
        /\ req[q].row # None => req[q].row \in Requests /\ ~At(req[q].row, "idle")
    BY <1>8 DEF SessInv, SessTypeOK, Handlers, Linked, Handler
  <2>3. req'[q] = req[q] /\ req'[Fam(q)] = req[Fam(q)]
    BY <1>5, <1>7, <1>8, <2>1
  <2>4. /\ req[q].tok # None => req'[req[q].tok] = req[req[q].tok]
        /\ req[q].row # None => req'[req[q].row] = req[req[q].row]
    BY <1>5, <1>7, <2>2
  <2> QED BY <2>1, <2>2, <2>3, <2>4 DEF Linked, At, Fam, ClientOf
<1>9. Linked(r)'
  <2>1. CASE k = "login"
    BY <1>3, <1>5, <2>1 DEF Linked, At, Fam, ClientOf
  <2>2. CASE k # "login"
    <3>1. req'[t] = req[t] /\ req'[Fam(t)] = req[Fam(t)]
          /\ req[Fam(t)].kind = "login" /\ ClientOf(Fam(t)) = ClientOf(t)
      BY <1>2, <1>5, <1>7, <2>2, HandlerFacts
    <3> QED BY <1>2, <1>3, <1>5, <2>2, <3>1 DEF Linked, At, Fam, ClientOf
  <2> QED BY <2>1, <2>2
<1>10. Handlers'
  <2>1. \A q \in Requests : Shape(q, req'[q])
    BY <1>4, <1>5 DEF SessInv, Handlers
  <2>2. \A q \in Requests : q # r /\ At(q, "idle") => Linked(q)'
    BY <1>5 DEF Linked, At
  <2> QED BY <1>8, <1>9, <2>1, <2>2 DEF Handlers
<1>11. Stored'
  <2>1. \A q \in Requests : token[q] # "none" => q # r
    BY <1>1 DEF SessInv, Stored, At
  <2>2. \A x \in rows : x \in Requests /\ x # r
    BY <1>1 DEF SessInv, SessTypeOK, Stored, At
  <2>3. \A d \in Clients :
          /\ held[d] # None => held[d] \in Requests /\ held[d] # r
          /\ session[d] # None => session[d] \in Requests /\ session[d] # r
    <3>1. \A d \in Clients : held[d] # None => held[d] \in Requests /\ held[d] # r
      BY <1>1 DEF SessInv, SessTypeOK, Stored, At
    <3>2. Fit(req[r].kind, req[r].pc) /\ req[r].kind = "none"
      BY <1>1, HandlerFacts DEF Shape, Fit, At
    <3>3. \A d \in Clients : session[d] # None => session[d] \in Requests /\ session[d] # r
      BY <3>2 DEF SessInv, SessTypeOK, Stored
    <3> QED BY <3>1, <3>3
  <2> QED BY <1>1, <1>5, <2>1, <2>2, <2>3 DEF SessInv, Stored, At, ClientOf, store, client
<1>12. SessTypeOK'
  BY <1>1, <1>5 DEF SessInv, SessTypeOK, store, client
<1> QED BY <1>5, <1>6, <1>10, <1>11, <1>12 DEF SessInv, h

\* The kinds of requests, and what each begins with.
Starts(r, c, k, p, t) ==
  /\ k \in {"login", "refresh", "logout", "delist", "others"}
  /\ p \in {"user", "check", "lofind", "target", "others"}
  /\ t \in Requests \union {None}
  /\ Begins(r, c, k, p, t) /\ Fit(k, p) /\ (p = "user" => k = "login")
  /\ IF k = "login" THEN t = None ELSE held[c] # None /\ t = held[c]
  /\ excused' \in SUBSET Requests

LEMMA StartForms ==
  ASSUME SessInv, NEW r \in Requests, NEW c \in Clients
  PROVE  /\ StartLogin(r, c) => Starts(r, c, "login", "user", None)
         /\ StartRefresh(r, c) => Starts(r, c, "refresh", "check", held[c])
         /\ StartLogout(r, c) => Starts(r, c, "logout", "lofind", held[c])
         /\ \A k \in {"delist", "others"} : StartDelist(r, c, k) =>
              Starts(r, c, k, IF k = "delist" THEN "target" ELSE "others", held[c])
<1>1. held[c] # None => held[c] \in Requests /\ Fam(held[c]) \in Requests
  <2>1. held[c] # None => held[c] \in Requests /\ At(held[c], "done")
    BY DEF SessInv, SessTypeOK, Stored
  <2> QED BY <2>1, HandlerFacts DEF At
<1>2. excused \in SUBSET Requests
  BY DEF SessInv, SessTypeOK
<1>3. StartLogin(r, c) => Starts(r, c, "login", "user", None)
  BY <1>2 DEF StartLogin, Starts, Fit, Makers
<1>4. StartRefresh(r, c) => Starts(r, c, "refresh", "check", held[c])
  BY <1>1, <1>2 DEF StartRefresh, Starts, Fit, Makers
<1>5. StartLogout(r, c) => Starts(r, c, "logout", "lofind", held[c])
  BY <1>1, <1>2 DEF StartLogout, Starts, Fit, Makers
<1>6. ASSUME NEW k \in {"delist", "others"}, StartDelist(r, c, k)
      PROVE  Starts(r, c, k, IF k = "delist" THEN "target" ELSE "others", held[c])
  BY <1>1, <1>2, <1>6 DEF StartDelist, Starts, Fit, Makers
<1> QED BY <1>3, <1>4, <1>5, <1>6

LEMMA KeepsStart ==
  ASSUME SessInv, NEW r \in Requests, NEW c \in Clients, SessStart(r, c)
  PROVE  SessInv'
<1>1. \E k, p, t : Starts(r, c, k, p, t)
  BY StartForms DEF SessStart
<1> QED BY <1>1, KeepsBegin DEF Starts

-----------------------------------------------------------------------------
(* The deletions beside them. *)

LEMMA KeepsRun == ASSUME SessInv, SessRuns PROVE SessInv'
<1>1. ASSUME NEW r \in Requests, SessServer(r) PROVE SessInv'
  BY <1>1, KeepsCheck, KeepsFind, KeepsToken, KeepsCreate, KeepsRows, KeepsAnswer,
     KeepsRefuse DEF SessServer
<1> QED BY <1>1, KeepsExpire, KeepsAppLogout DEF SessRuns

\* The steps that change the state of the sessions.
LEMMA SessionSteps ==
  ASSUME [Next]_vars
  PROVE  \/ UNCHANGED sessVars
         \/ SessRuns
         \/ \E r \in Requests, c \in Clients : SessStart(r, c) /\ Races(UserOf[c])
         \/ \E x \in Deletions : \/ PurgeSessions(x) \/ PurgeTokens(x) \/ DropLogins(x)
                                 \/ DropUser(x) \/ FailDeletion(x)
<1>1. ASSUME NEW x \in Deletions,
             \/ FindParent(x) \/ FindOwned(x) \/ FindLogins(x) \/ PurgeAuth(x)
             \/ DropStudents(x) \/ Audit(x)
      PROVE  UNCHANGED sessVars
  BY <1>1 DEF FindParent, FindOwned, FindLogins, PurgeAuth, DropStudents, Audit
<1>2. ASSUME NEW x \in Deletions, NEW p \in Users, StartDeletion(x, p)
      PROVE  UNCHANGED sessVars
  BY <1>2 DEF StartDeletion
<1>3. DeviceRuns \/ DevicesBegin => UNCHANGED sessVars
  BY DEF DeviceRuns, DevicesBegin, DeviceBegins
<1> QED BY <1>1, <1>2, <1>3 DEF Next, vars, SessionRuns, SessionsBegin, SessionBegins,
          DeletionBegins, Deletes

LEMMA KeepsDeletion ==
  ASSUME SessInv, NEW x \in Deletions,
         \/ PurgeSessions(x) \/ PurgeTokens(x) \/ DropLogins(x) \/ DropUser(x)
         \/ FailDeletion(x)
  PROVE  SessInv'
<1>1. UNCHANGED req /\ UNCHANGED client
  BY DEF PurgeSessions, PurgeTokens, DropLogins, DropUser, FailDeletion
<1>2. \A us : FamiliesOf(us) \in SUBSET Requests
  BY DEF FamiliesOf
<1>3. SessTypeOK' /\ rows' \subseteq rows
      /\ \A t \in Requests : token'[t] # "none" => token[t] # "none"
  <2>1. CASE PurgeSessions(x)
    BY <2>1 DEF PurgeSessions, SessInv, SessTypeOK, client, sessHistory
  <2>2. CASE PurgeTokens(x)
    BY <1>2, <2>2 DEF PurgeTokens, SessInv, SessTypeOK, client, TokenStates
  <2>3. CASE DropLogins(x) \/ DropUser(x)
    BY <1>2, <2>3 DEF DropLogins, DropUser, DropsUser, SessInv, SessTypeOK, client
  <2>4. CASE FailDeletion(x)
    BY <1>2, <2>4 DEF FailDeletion, SessInv, SessTypeOK, client, store
  <2> QED BY <2>1, <2>2, <2>3, <2>4
<1> QED BY <1>1, <1>3, KeepsQuiet DEF client

LEMMA SessInvNext == SessInv /\ [Next]_vars => SessInv'
<1> SUFFICES ASSUME SessInv, [Next]_vars PROVE SessInv'
  OBVIOUS
<1>1. CASE UNCHANGED sessVars
  <2>1. UNCHANGED <<store, req, client, faults, excused, delisted, straggled>>
    BY <1>1 DEF sessVars, sessHistory
  <2>2. SessTypeOK'
    BY <2>1 DEF SessInv, SessTypeOK, store, client
  <2> QED BY <2>1, <2>2, KeepsQuiet DEF store, client
<1>2. CASE SessRuns
  BY <1>2, KeepsRun
<1>3. ASSUME NEW r \in Requests, NEW c \in Clients, SessStart(r, c) PROVE SessInv'
  BY <1>3, KeepsStart
<1> QED BY <1>1, <1>2, <1>3, KeepsDeletion, SessionSteps

LEMMA SessInvAlways == Spec => []SessInv
<1>1. Init => SessInv
  BY SessInvInit DEF Init
<1> QED BY <1>1, SessInvNext, PTL DEF Spec

-----------------------------------------------------------------------------
(* A dead family stays dead. *)

\* Only r moves, to p.
Moves(r, p) ==
  /\ InFlight(r) /\ req'[r].pc = p
  /\ req'[r].kind = req[r].kind /\ req'[r].client = req[r].client
  /\ req'[r].tok = req[r].tok /\ req'[r].fam = req[r].fam /\ req'[r].at = req[r].at
  /\ \A q \in Requests : q # r => req'[q] = req[q]

LEMMA GoesMoves ==
  ASSUME SessInv, NEW r \in Requests, NEW p, InFlight(r), Goes(r, p)
  PROVE  Moves(r, p)
<1>1. req[r] \in Handler /\ req' = [req EXCEPT ![r] = [req[r] EXCEPT !.pc = p]]
      /\ req \in [Requests -> Handler]
  BY DEF Goes, Becomes, SessInv, SessTypeOK
<1> QED BY <1>1 DEF Moves, Handler

LEMMA RowMoves ==
  ASSUME SessInv, NEW r \in Requests, NEW p, NEW x, InFlight(r),
         Becomes(r, [req[r] EXCEPT !.pc = p, !.row = x])
  PROVE  Moves(r, p) /\ req'[r].row = x
<1>1. req[r] \in Handler /\ req' = [req EXCEPT ![r] = [req[r] EXCEPT !.pc = p, !.row = x]]
      /\ req \in [Requests -> Handler]
  BY DEF Becomes, SessInv, SessTypeOK
<1> QED BY <1>1 DEF Moves, Handler

LEMMA DeadMoves ==
  ASSUME SessInv, NEW f \in Requests, Dead(f), NEW r \in Requests, NEW p, Moves(r, p),
         p \in {"user", "rotate", "create"} => Fam(r) # f,
         \A t \in Requests : token'[t] = "live" => token[t] = "live" \/ Fam(t) # f
  PROVE  Dead(f)'
<1>1. req'[f].kind = "login" /\ req'[f].pc \notin {"user", "create"}
  <2>1. CASE r = f
    <3>1. Fam(f) = f
      BY HandlerFacts DEF Dead, Shape, Fam
    <3> QED BY <2>1, <3>1 DEF Moves, Dead
  <2>2. CASE r # f
    BY <2>2 DEF Moves, Dead
  <2> QED BY <2>1, <2>2
<1>2. ASSUME NEW q \in Requests, req'[q].kind = "refresh", req'[q].fam = f
      PROVE  req'[q].pc \notin {"user", "rotate", "create"}
  BY <1>2 DEF Moves, Dead, Rotating, Fam
<1>3. ASSUME NEW t \in Requests, req'[t].fam = f PROVE token'[t] # "live"
  <2>1. Fam(t) = f
    BY <1>3 DEF Moves, Fam
  <2> QED BY <2>1 DEF Dead, TokensOf
<1> QED BY <1>1, <1>2, <1>3 DEF Dead, Rotating, TokensOf, Fam

\* The handlers that may still make a token are of other families.
LEMMA DeadElsewhere ==
  ASSUME SessInv, NEW f \in Requests, Dead(f), NEW r \in Requests,
         req[r].pc \in {"user", "rotate", "create"}
  PROVE  Fam(r) # f
<1>1. Shape(r, req[r])
  BY HandlerFacts
<1>2. req[r].kind \in Makers /\ (req[r].kind = "login" => Fam(r) = r /\ ~At(r, "rotate"))
  BY <1>1 DEF Shape, Fit, Makers, Fam, At
<1> QED BY <1>2 DEF Dead, Rotating, Makers, At

LEMMA DeadCheck ==
  ASSUME SessInv, NEW f \in Requests, Dead(f), NEW r \in Requests, Check(r)
  PROVE  Dead(f)'
<1> DEFINE p == IF Live(req[r].tok) THEN "user" ELSE "reuse"
<1>1. InFlight(r) /\ Goes(r, p) /\ UNCHANGED token
  BY DEF Check, Step, At, InFlight, store
<1>2. Moves(r, p)
  BY <1>1, GoesMoves
<1>3. Live(req[r].tok) => Fam(r) # f
  <2>1. req[r].tok \in Requests /\ Fam(req[r].tok) = Fam(r)
    <3>1. Shape(r, req[r]) /\ Linked(r) /\ ~At(r, "idle")
      BY <1>1, HandlerFacts DEF SessInv, Handlers, InFlight
    <3>2. req[r].tok \in Requests
      BY <3>1 DEF Check, Shape, Fit, At, Presenters
    <3> QED BY <3>1, <3>2 DEF Linked, Requests, None
  <2> QED BY <2>1 DEF Live, Dead, TokensOf
<1>4. p \in {"user", "rotate", "create"} => Fam(r) # f
  BY <1>3
<1>5. \A t \in Requests : token'[t] = "live" => token[t] = "live" \/ Fam(t) # f
  BY <1>1
<1> HIDE DEF p
<1> QED BY <1>2, <1>4, <1>5, DeadMoves

LEMMA DeadServer ==
  ASSUME SessInv, NEW f \in Requests, Dead(f), NEW r \in Requests, SessServer(r)
  PROVE  Dead(f)'
<1>1. CASE Check(r)
  BY <1>1, DeadCheck
<1>2. CASE FindUser(r) \/ Rotate(r) \/ Create(r)
  <2>1. Fam(r) # f /\ InFlight(r)
    BY <1>2, DeadElsewhere DEF FindUser, Rotate, Create, At, InFlight
  <2>2. PICK p : Goes(r, p)
    BY <1>2 DEF FindUser, Rotate, Create, Step
  <2>3. \A t \in Requests : token'[t] = "live" => token[t] = "live" \/ Fam(t) # f
    BY <1>2, <2>1 DEF FindUser, Rotate, Create, Revoked, store, SessInv, SessTypeOK
  <2> QED BY <2>1, <2>2, <2>3, GoesMoves, DeadMoves
<1>3. CASE FindRow(r) \/ FindTarget(r)
  <2>1. InFlight(r) /\ UNCHANGED token
    BY <1>3 DEF FindRow, FindTarget, At, InFlight, store
  <2>2. \E p \in {"writerow", "delist", "refuse"} : Moves(r, p)
    BY <1>3, <2>1, RowMoves, GoesMoves DEF FindRow, FindTarget
  <2> QED BY <2>1, <2>2, DeadMoves
<1>4. CASE \/ Reuse(r) \/ WriteRow(r) \/ RevokeFamily(r) \/ FindLogout(r) \/ LogoutRows(r)
           \/ FindAgain(r) \/ Delist(r) \/ DelistOthers(r)
           \/ Answer(r) \/ Refuse(r) \/ Fail(r)
  <2>1. InFlight(r) /\ \E p \in Positions \ {"user", "rotate", "create"} : Goes(r, p)
    BY <1>4 DEF Reuse, WriteRow, RevokeFamily, FindLogout, LogoutRows, FindAgain, Delist,
                DelistOthers, Delists, Answer, Refuse, Fail, Step, At, InFlight, Positions
  <2>2. \A t \in Requests : token'[t] = "live" => token[t] = "live"
    BY <1>4 DEF Reuse, WriteRow, RevokeFamily, FindLogout, LogoutRows, FindAgain, Delist,
                DelistOthers, Delists, Answer, Refuse, Fail, Revoked, store
  <2> QED BY <2>1, <2>2, GoesMoves, DeadMoves
<1> QED BY <1>1, <1>2, <1>3, <1>4 DEF SessServer

\* Steps that move no handler and make no token.
LEMMA DeadQuiet ==
  ASSUME NEW f \in Requests, Dead(f), UNCHANGED req,
         \A t \in Requests : token'[t] = "live" => token[t] = "live"
  PROVE  Dead(f)'
BY DEF Dead, Rotating, TokensOf, Fam

LEMMA DeadStart ==
  ASSUME SessInv, NEW f \in Requests, Dead(f), NEW r \in Requests, NEW c \in Clients,
         SessStart(r, c)
  PROVE  Dead(f)'
<1>1. PICK k, p, t : Starts(r, c, k, p, t)
  BY StartForms DEF SessStart
<1>2. /\ \A q \in Requests : q # r => req'[q] = req[q]
      /\ req'[r] = Sending(r, c, k, p, t) /\ At(r, "idle") /\ UNCHANGED token
      /\ k \in {"login", "refresh", "logout", "delist", "others"} /\ Fit(k, p)
      /\ p \in {"user", "check", "lofind", "target", "others"}
  <2>1. /\ \A q \in Requests : q # r => req'[q] = req[q]
        /\ req'[r] = Sending(r, c, k, p, t)
    BY <1>1, KeepsBegin DEF Starts
  <2>2. Begins(r, c, k, p, t)
    BY <1>1 DEF Starts
  <2>3. At(r, "idle") /\ UNCHANGED token
    BY <2>2 DEF Begins, store
  <2> QED BY <1>1, <2>1, <2>3 DEF Starts
<1>3. req'[r].kind = k /\ req'[r].pc = p
  BY <1>2 DEF Sending, NoHandler
<1>4. r # f /\ token[r] = "none"
  <2>1. req[r].kind = "none"
    BY <1>2, HandlerFacts DEF Shape, Fit, At
  <2> QED BY <2>1 DEF Dead, SessInv, Stored, Makers
<1>5. ~(k = "refresh" /\ p \in {"user", "rotate", "create"})
  BY <1>1, <1>2 DEF Starts
<1> QED BY <1>2, <1>3, <1>4, <1>5 DEF Dead, Rotating, TokensOf, Fam

\* FamilyDeathIsFinal, for any number of clients and requests.
THEOREM DeadFamiliesStayDead == Spec => FamilyDeathIsFinal
<1>1. SessInv /\ [Next]_vars => [\A f \in Requests : Dead(f) => Dead(f)']_sessVars
  <2> SUFFICES ASSUME SessInv, [Next]_vars, ~UNCHANGED sessVars,
                      NEW f \in Requests, Dead(f)
               PROVE  Dead(f)'
    OBVIOUS
  <2>1. ASSUME SessRuns PROVE Dead(f)'
    <3>1. ASSUME NEW r \in Requests, Expire(r) \/ Sweep(r) PROVE Dead(f)'
      BY <3>1, DeadQuiet DEF Expire, Sweep
    <3>2. ASSUME NEW c \in Clients, AppLogout(c) PROVE Dead(f)'
      BY <3>2, DeadQuiet DEF AppLogout, store
    <3> QED BY <2>1, <3>1, <3>2, DeadServer DEF SessRuns
  <2>2. ASSUME NEW r \in Requests, NEW c \in Clients, SessStart(r, c) PROVE Dead(f)'
    BY <2>2, DeadStart
  <2>3. ASSUME NEW x \in Deletions,
               \/ PurgeSessions(x) \/ PurgeTokens(x) \/ DropLogins(x) \/ DropUser(x)
               \/ FailDeletion(x)
        PROVE  Dead(f)'
    BY <2>3, DeadQuiet DEF PurgeSessions, PurgeTokens, DropLogins, DropUser, FailDeletion, store
  <2> QED BY <2>1, <2>2, <2>3, SessionSteps
<1> QED BY <1>1, SessInvAlways, PTL DEF Spec, FamilyDeathIsFinal

-----------------------------------------------------------------------------
(* Device tokens: what the position of a handler says. *)

Minting == {"approve", "issue"}
Past == {"record", "approve", "answer", "done"}

DevFit(h) ==
  /\ h.pc \in {"existing", "mark", "upsert", "record"} => h.kind \in Minting
  /\ h.pc \in {"pending", "approve"} => h.kind = "approve"
  /\ h.pc = "answer" => h.kind = "issue"
  /\ h.pc \in {"find", "revoke", "marklast"} => h.kind = "revoke"

\* The token j is being made, or its ledger entry has been written.
Made(j) == dreq[j].pc \in {"existing", "mark", "upsert", "record"} \/ ledger[j] # "none"

\* j is a token of d whose row has been written.
Rowed(j, d) == Dev(j) = d /\ dreq[j].kind \in Minting /\ dreq[j].pc \in Past

Entries ==
  /\ \A j \in DeviceRequests : ledger[j] # "none" =>
       dreq[j].kind \in Minting /\ dreq[j].pc \in Past \ {"record"}
  /\ \A j \in DeviceRequests : dreq[j].pc \in {"approve", "answer"} => ledger[j] # "none"

Reads ==
  /\ \A d \in Devices : device[d].active # NoJti => Rowed(device[d].active, d)
  /\ \A r \in DeviceRequests :
       /\ dreq[r].pc \in {"mark", "revoke", "marklast"} =>
            dreq[r].read # NoJti /\ Rowed(dreq[r].read, Dev(r))
       /\ DevAt(r, "deliver") /\ dreq[r].read # NoJti =>
            Dev(dreq[r].read) = Dev(r) /\ ledger[dreq[r].read] # "none"
  /\ \A d \in Devices :
       /\ auth[d].jti # NoJti => Dev(auth[d].jti) = d /\ ledger[auth[d].jti] # "none"
       /\ taken[d] # NoJti => Dev(taken[d]) = d /\ ledger[taken[d]] # "none"

\* A token that is not superseded is alone on its device, and on its row.
Sole ==
  \A j \in DeviceRequests : j \notin superseded =>
    /\ Made(j) => \A r \in DeviceRequests : r # j /\ Dev(r) = Dev(j) => dreq[r].pc \notin Changing
    /\ DevAt(j, "record") \/ ledger[j] # "none" => Accepted(Dev(j), j)

DevInv ==
  DevTypeOK /\ (\A r \in DeviceRequests : DevFit(dreq[r])) /\ Entries /\ Reads /\ Sole

LEMMA DevInvInit == DevInit => DevInv
<1> SUFFICES ASSUME DevInit PROVE DevInv
  OBVIOUS
<1>1. NoJti \in Jtis /\ NoJti \notin DeviceRequests
  BY DEF Jtis, DeviceRequests, NoJti
<1>2. PICK d \in Devices : dreq = [j \in DeviceRequests |->
        [kind |-> "none", pc |-> "idle", dev |-> d, read |-> NoJti]]
  BY DEF DevInit
<1>3. DevTypeOK
  BY <1>1, <1>2 DEF DevInit, DevTypeOK, Auth, Row, DeviceHandler
<1>4. \A r \in DeviceRequests : DevFit(dreq[r])
  BY <1>2 DEF DevFit
<1>5. Entries /\ Reads /\ Sole
  BY <1>2 DEF DevInit, Entries, Reads, Sole, Made, DevAt, Past
<1> QED BY <1>3, <1>4, <1>5 DEF DevInv

\* Only r moves, to p, with j in hand.
DevMoves(r, p, j) ==
  /\ dreq'[r].kind = dreq[r].kind /\ dreq'[r].pc = p /\ dreq'[r].dev = Dev(r)
  /\ dreq'[r].read = j
  /\ \A q \in DeviceRequests : q # r => dreq'[q] = dreq[q]
  /\ dreq' \in [DeviceRequests -> DeviceHandler]

DevPositions ==
  {"existing", "mark", "upsert", "record", "approve", "answer", "deliver",
   "revoke", "marklast", "done"}

LEMMA DevGoesMoves ==
  ASSUME DevInv, NEW r \in DeviceRequests, NEW p \in DevPositions, NEW j \in Jtis,
         DevGoes(r, p, j)
  PROVE  DevMoves(r, p, j)
<1>1. dreq \in [DeviceRequests -> DeviceHandler] /\ dreq[r] \in DeviceHandler
  BY DEF DevInv, DevTypeOK
<1> DEFINE h == [[dreq[r] EXCEPT !.pc = p] EXCEPT !.read = j]
<1>2. dreq' = [dreq EXCEPT ![r] = h]
  BY <1>1 DEF DevGoes
<1>3. h \in DeviceHandler /\ h.kind = dreq[r].kind /\ h.pc = p /\ h.dev = dreq[r].dev /\ h.read = j
  BY <1>1 DEF DeviceHandler, DevPositions
<1> QED BY <1>1, <1>2, <1>3 DEF DevMoves, Dev

\* What earlier steps established stays when r, not idle and not done, moves on
\* and the ledger keeps its entries.
LEMMA RowedStays ==
  ASSUME DevInv, NEW r \in DeviceRequests, NEW p, NEW j, DevMoves(r, p, j),
         dreq[r].pc \in Past => p \in Past,
         NEW i \in DeviceRequests, NEW d, Rowed(i, d)
  PROVE  Rowed(i, d)'
BY DEF DevMoves, Rowed, Dev

LEMMA MovesReads ==
  ASSUME DevInv, NEW r \in DeviceRequests, NEW p \in DevPositions, NEW j \in Jtis,
         DevMoves(r, p, j), dreq[r].pc \in Past => p \in Past,
         \A i \in DeviceRequests : ledger[i] # "none" => ledger'[i] # "none",
         p \in {"mark", "revoke", "marklast"} => j # NoJti /\ Rowed(j, Dev(r)),
         p = "deliver" /\ j # NoJti => Dev(j) = Dev(r) /\ ledger[j] # "none",
         \A d \in Devices :
           /\ device'[d].active = device[d].active
              \/ (device'[d].active = r /\ d = Dev(r) /\ p = "record" /\ dreq[r].kind \in Minting)
           /\ auth'[d].jti = auth[d].jti
              \/ (auth'[d].jti = r /\ d = Dev(r) /\ ledger[r] # "none")
           /\ taken'[d] = taken[d]
              \/ (d = Dev(r) /\ taken'[d] \in Jtis /\ (taken'[d] # NoJti =>
                    Dev(taken'[d]) = d /\ ledger[taken'[d]] # "none"))
  PROVE  Reads'
<1>1. /\ DevTypeOK /\ Reads /\ \A i \in Jtis : i # NoJti => i \in DeviceRequests
      /\ \A i \in DeviceRequests : Dev(i)' = Dev(i)
  BY DEF DevInv, Jtis, DevMoves, Dev
<1>2. \A i \in DeviceRequests, d \in Devices : Rowed(i, d) => Rowed(i, d)'
  BY RowedStays
<1>3. ASSUME NEW d \in Devices, device'[d].active # NoJti
      PROVE  Rowed(device[d].active, d)'
  <2>1. PICK i : i = device'[d].active
    OBVIOUS
  <2>2. CASE i = device[d].active
    <3>1. i \in DeviceRequests /\ Rowed(i, d)
      BY <1>1, <1>3, <2>1, <2>2 DEF Reads, DevTypeOK, Row
    <3>2. Rowed(i, d)'
      BY <1>2, <3>1
    <3> QED BY <2>1, <3>2 DEF Rowed, Dev
  <2>3. CASE i = r /\ d = Dev(r) /\ p = "record" /\ dreq[r].kind \in Minting
    BY <2>1, <2>3 DEF DevMoves, Rowed, Dev, Past
  <2> QED BY <2>1, <2>2, <2>3
<1>4. ASSUME NEW q \in DeviceRequests, dreq'[q].pc \in {"mark", "revoke", "marklast"}
      PROVE  dreq'[q].read # NoJti /\ Rowed(dreq[q].read, Dev(q))'
  <2>1. PICK i : i = dreq'[q].read
    OBVIOUS
  <2>2. i # NoJti /\ i \in DeviceRequests /\ Rowed(i, Dev(q))
    <3>1. CASE q = r
      BY <1>1, <1>4, <2>1, <3>1 DEF DevMoves
    <3>2. CASE q # r
      <4>1. dreq'[q] = dreq[q] /\ dreq[q] \in DeviceHandler
        BY <3>2 DEF DevMoves, DevInv, DevTypeOK
      <4> QED BY <1>1, <1>4, <2>1, <4>1 DEF Reads, DeviceHandler
    <3> QED BY <3>1, <3>2
  <2>3. Dev(q) \in Devices /\ Dev(q)' = Dev(q)
    BY <1>1 DEF DevTypeOK, DeviceHandler, Dev
  <2>4. Rowed(i, Dev(q))'
    BY <2>2, <2>3, RowedStays DEF Rowed
  <2> QED BY <2>1, <2>2, <2>4 DEF Rowed, Dev
<1>5. ASSUME NEW q \in DeviceRequests, dreq'[q].pc = "deliver", dreq'[q].read # NoJti
      PROVE  dreq'[dreq'[q].read].dev = dreq'[q].dev /\ ledger'[dreq'[q].read] # "none"
  <2>1. PICK i : i = dreq'[q].read
    OBVIOUS
  <2>2. i \in DeviceRequests /\ Dev(i) = Dev(q) /\ ledger[i] # "none"
    <3>1. CASE q = r
      BY <1>1, <1>5, <2>1, <3>1 DEF DevMoves
    <3>2. CASE q # r
      <4>1. dreq'[q] = dreq[q] /\ dreq[q] \in DeviceHandler
        BY <3>2 DEF DevMoves, DevInv, DevTypeOK
      <4> QED BY <1>1, <1>5, <2>1, <4>1 DEF Reads, DeviceHandler, DevAt
    <3> QED BY <3>1, <3>2
  <2> QED BY <1>1, <2>1, <2>2 DEF Dev
<1>6. ASSUME NEW d \in Devices, auth'[d].jti # NoJti
      PROVE  dreq'[auth'[d].jti].dev = d /\ ledger'[auth'[d].jti] # "none"
  <2>1. PICK i : i = auth'[d].jti
    OBVIOUS
  <2>2. i \in DeviceRequests /\ Dev(i) = d /\ ledger[i] # "none"
    BY <1>1, <1>6, <2>1 DEF Reads, DevTypeOK, Auth
  <2> QED BY <1>1, <2>1, <2>2 DEF Dev
<1>7. ASSUME NEW d \in Devices, taken'[d] # NoJti
      PROVE  dreq'[taken'[d]].dev = d /\ ledger'[taken'[d]] # "none"
  <2>1. PICK i : i = taken'[d]
    OBVIOUS
  <2>2. i \in DeviceRequests /\ Dev(i) = d /\ ledger[i] # "none"
    BY <1>1, <1>7, <2>1 DEF Reads, DevTypeOK
  <2> QED BY <1>1, <2>1, <2>2 DEF Dev
<1> QED BY <1>3, <1>4, <1>5, <1>6, <1>7 DEF Reads, DevAt, Dev, Rowed

LEMMA MovesEntries ==
  ASSUME DevInv, NEW r \in DeviceRequests, NEW p, NEW j, DevMoves(r, p, j),
         dreq[r].pc \in Past \ {"record"} => p \in Past \ {"record"},
         p \in {"approve", "answer"} => ledger'[r] # "none",
         \A i \in DeviceRequests :
           /\ ledger[i] # "none" => ledger'[i] # "none"
           /\ ledger'[i] # "none" => \/ ledger[i] # "none"
                                     \/ i = r /\ dreq[r].kind \in Minting
                                        /\ p \in Past \ {"record"}
  PROVE  Entries'
BY DEF DevInv, Entries, DevMoves

\* A mint or a revocation begins: what it supersedes is all that it disturbs.
LEMMA SoleBegins ==
  ASSUME DevInv, NEW r \in DeviceRequests, NEW d \in Devices,
         dreq[r].pc \in {"idle", "pending", "find"}, dreq[r].pc # "idle" => Dev(r) = d,
         dreq'[r].dev = d, dreq'[r].pc \in {"existing", "revoke"},
         \A q \in DeviceRequests : q # r => dreq'[q] = dreq[q],
         UNCHANGED <<device, ledger>>, Supersedes(r, d)
  PROVE  Sole'
<1> SUFFICES ASSUME NEW j \in DeviceRequests, j \notin superseded'
             PROVE  /\ Made(j)' => \A q \in DeviceRequests :
                         q # j /\ Dev(q)' = Dev(j)' => dreq'[q].pc \notin Changing
                    /\ DevAt(j, "record")' \/ ledger'[j] # "none" => Accepted(Dev(j), j)'
  BY DEF Sole
<1>1. j \notin superseded /\ j \notin Minted(d) \ {r} /\ (j = r => Changes(d) \ {r} = {})
  BY DEF Supersedes
<1>2. ledger[j] # "none" => dreq[j].kind \in Minting /\ dreq[j].pc \in Past
  BY DEF DevInv, Entries
<1>3. CASE j = r
  <2>1. ledger[r] = "none" /\ ~DevAt(r, "record")'
    BY <1>2, <1>3 DEF Past, DevAt
  <2>2. \A q \in DeviceRequests : q # r /\ Dev(q) = d => dreq[q].pc \notin Changing
    BY <1>1, <1>3 DEF Changes
  <2> QED BY <1>3, <2>1, <2>2 DEF Dev
<1>4. CASE j # r
  <2>1. dreq'[j] = dreq[j]
    BY <1>4
  <2>2. Made(j) => Dev(j) # d
    <3>1. Made(j) => dreq[j].kind \in Minting /\ dreq[j].pc \notin {"idle", "pending"}
      BY <1>2 DEF Made, DevInv, DevFit, Past
    <3> QED BY <1>1, <1>4, <3>1 DEF Minted, Minting
  <2>3. Made(j)' = Made(j)
    BY <2>1 DEF Made
  <2>4. Made(j) => \A q \in DeviceRequests :
          q # j /\ Dev(q)' = Dev(j)' => dreq'[q].pc \notin Changing
    BY <1>1, <2>1, <2>2 DEF DevInv, Sole, Dev
  <2>5. DevAt(j, "record")' \/ ledger'[j] # "none" => Accepted(Dev(j), j)'
    BY <1>1, <2>1 DEF DevInv, Sole, Dev, DevAt, Accepted
  <2> QED BY <2>3, <2>4, <2>5
<1> QED BY <1>3, <1>4

\* A handler goes on: only one that is changing the device touches its row or
\* ends one of its tokens.
LEMMA SoleMoves ==
  ASSUME DevInv, NEW r \in DeviceRequests, NEW p, NEW j, DevMoves(r, p, j),
         p \in Changing => dreq[r].pc \in Changing,
         superseded' = superseded,
         Made(r)' => Made(r),
         p = "record" \/ ledger'[r] # "none" => Made(r),
         p = "record" => device'[Dev(r)] = [active |-> r, revoked |-> FALSE]
                         /\ ledger'[r] = "none",
         \A d \in Devices : (d = Dev(r) /\ dreq[r].pc \in Changing) \/ device'[d] = device[d],
         dreq[r].pc \in {"record", "approve", "answer"} => device' = device,
         ledger[r] # "none" => device' = device,
         \A i \in DeviceRequests :
           \/ ledger'[i] = ledger[i]
           \/ i = r /\ ledger'[i] = "open" /\ dreq[r].pc = "record"
           \/ i # r /\ Dev(i) = Dev(r) /\ dreq[r].pc \in Changing /\ ledger[i] # "none"
  PROVE  Sole'
<1> SUFFICES ASSUME NEW i \in DeviceRequests, i \notin superseded
             PROVE  /\ Made(i)' => \A q \in DeviceRequests :
                         q # i /\ Dev(q)' = Dev(i)' => dreq'[q].pc \notin Changing
                    /\ DevAt(i, "record")' \/ ledger'[i] # "none" => Accepted(Dev(i), i)'
  BY DEF Sole
<1>1. \A q \in DeviceRequests : Dev(q)' = Dev(q) /\ Dev(q) \in Devices
  BY DEF DevMoves, Dev, DevInv, DevTypeOK, DeviceHandler
<1>2. Made(i)' => Made(i)
  BY DEF DevMoves, Made
<1>3. Made(i) => \A q \in DeviceRequests : q # i /\ Dev(q) = Dev(i) => dreq[q].pc \notin Changing
  BY DEF DevInv, Sole
<1>4. Made(i)' => \A q \in DeviceRequests :
        q # i /\ Dev(q)' = Dev(i)' => dreq'[q].pc \notin Changing
  BY <1>1, <1>2, <1>3 DEF DevMoves
<1>5. ASSUME dreq'[i].pc = "record" \/ ledger'[i] # "none" PROVE Accepted(Dev(i), i)'
  <2>1. CASE i = r /\ p = "record"
    BY <1>1, <2>1 DEF Accepted, DevMoves
  <2>2. CASE ~(i = r /\ p = "record")
    <3>1. dreq[i].pc = "record" \/ ledger[i] # "none"
      BY <1>5, <2>2 DEF DevMoves
    <3>2. Made(i) /\ Accepted(Dev(i), i)
      BY <3>1 DEF Made, DevInv, Sole, DevAt
    <3>3. device'[Dev(i)] = device[Dev(i)]
      <4>1. CASE i = r
        BY <3>1, <4>1
      <4>2. CASE i # r
        BY <1>1, <1>3, <3>2, <4>2
      <4> QED BY <4>1, <4>2
    <3>4. ledger'[i] # "revoked"
      <4>1. ~(i # r /\ Dev(i) = Dev(r) /\ dreq[r].pc \in Changing)
        BY <1>3, <3>2
      <4> QED BY <3>2, <4>1 DEF Accepted
    <3> QED BY <1>1, <3>2, <3>3, <3>4 DEF Accepted
  <2> QED BY <2>1, <2>2
<1> QED BY <1>4, <1>5 DEF DevAt

-----------------------------------------------------------------------------
(* The commands of the device routes keep DevInv. *)

LEMMA DevFacts ==
  ASSUME DevInv, NEW r \in DeviceRequests
  PROVE  /\ dreq[r] \in DeviceHandler /\ DevFit(dreq[r]) /\ Dev(r) \in Devices
         /\ ledger[r] # "none" => dreq[r].kind \in Minting /\ dreq[r].pc \in Past \ {"record"}
         /\ device[Dev(r)] \in Row /\ auth[Dev(r)] \in Auth
         /\ r # NoJti /\ r \in Jtis /\ NoJti \in Jtis
BY DEF DevInv, DevTypeOK, DeviceHandler, Dev, Entries, DeviceRequests, Jtis, NoJti

\* A step that changes neither rows nor entries.
LEMMA DevPlain ==
  ASSUME DevInv, NEW r \in DeviceRequests, NEW p \in DevPositions, NEW j \in Jtis,
         DevGoes(r, p, j), dreq[r].pc \notin Past \/ p = "done",
         p \notin {"record", "approve", "answer"},
         p \in Changing => dreq[r].pc \in Changing /\ Made(r),
         DevFit([kind |-> dreq[r].kind, pc |-> p]),
         p \in {"mark", "revoke", "marklast"} => j # NoJti /\ Rowed(j, Dev(r)),
         p = "deliver" /\ j # NoJti => Dev(j) = Dev(r) /\ ledger[j] # "none",
         UNCHANGED <<device, ledger, superseded>>, DevTypeOK',
         \A d \in Devices :
           /\ auth'[d].jti = auth[d].jti
              \/ (auth'[d].jti = r /\ d = Dev(r) /\ ledger[r] # "none")
           /\ taken'[d] = taken[d]
              \/ (d = Dev(r) /\ taken'[d] \in Jtis /\ (taken'[d] # NoJti =>
                    Dev(taken'[d]) = d /\ ledger[taken'[d]] # "none"))
  PROVE  DevInv'
<1>1. DevMoves(r, p, j)
  BY DevGoesMoves
<1>2. \A q \in DeviceRequests : DevFit(dreq'[q])
  BY <1>1 DEF DevMoves, DevFit, DevInv
<1>3. Entries'
  <2>1. dreq[r].pc \in Past \ {"record"} => p \in Past \ {"record"}
    BY DEF Past
  <2> QED BY <1>1, <2>1, MovesEntries
<1>4. Reads'
  <2>1. dreq[r].pc \in Past => p \in Past
    BY DEF Past
  <2> QED BY <1>1, <2>1, MovesReads
<1>5. Sole'
  <2>1. Made(r)' => Made(r)
    BY <1>1 DEF Made, DevMoves, Changing
  <2>2. ledger'[r] # "none" => Made(r)
    BY DEF Made
  <2> QED BY <1>1, <2>1, <2>2, SoleMoves
<1> QED BY <1>2, <1>3, <1>4, <1>5 DEF DevInv

LEMMA KeepsFindExisting ==
  ASSUME DevInv, NEW r \in DeviceRequests, FindExisting(r)
  PROVE  DevInv'
<1> DEFINE j == device[Dev(r)].active
           p == IF j = NoJti THEN "upsert" ELSE "mark"
<1>1. /\ j \in Jtis /\ DevGoes(r, p, j) /\ DevAt(r, "existing") /\ p \in {"upsert", "mark"}
      /\ UNCHANGED <<auth, device, ledger, taken, devFaults, superseded>>
  BY DevFacts DEF FindExisting, Row
<1>2. j # NoJti => Rowed(j, Dev(r))
  BY DevFacts DEF DevInv, Reads
<1>3. p = "mark" => j # NoJti
  OBVIOUS
<1>4. dreq[r].kind \in Minting
  BY <1>1, DevFacts DEF DevFit, DevAt
<1> HIDE DEF j, p
<1>5. DevMoves(r, p, j)
  BY <1>1, DevGoesMoves DEF DevPositions
<1>6. DevTypeOK'
  BY <1>1, <1>5 DEF DevMoves, DevInv, DevTypeOK
<1>7. DevFit([kind |-> dreq[r].kind, pc |-> p])
  BY <1>1, <1>4 DEF DevFit
<1> QED BY <1>1, <1>2, <1>3, <1>6, <1>7, DevPlain DEF DevPositions, DevAt, Past, Made, Changing

LEMMA KeepsDone ==
  ASSUME DevInv, NEW r \in DeviceRequests, DevGoes(r, "done", NoJti),
         UNCHANGED <<device, ledger, superseded>>, devFaults' \in Nat,
         auth' \in [Devices -> Auth], taken' \in [Devices -> Jtis],
         \A d \in Devices :
           /\ auth'[d].jti = auth[d].jti
              \/ (auth'[d].jti = r /\ d = Dev(r) /\ ledger[r] # "none")
           /\ taken'[d] = taken[d]
              \/ (d = Dev(r) /\ taken'[d] \in Jtis /\ (taken'[d] # NoJti =>
                    Dev(taken'[d]) = d /\ ledger[taken'[d]] # "none"))
  PROVE  DevInv'
<1>1. NoJti \in Jtis
  BY DevFacts
<1>2. DevMoves(r, "done", NoJti)
  BY <1>1, DevGoesMoves DEF DevPositions
<1>3. DevTypeOK'
  BY <1>2 DEF DevMoves, DevInv, DevTypeOK
<1>4. DevFit([kind |-> dreq[r].kind, pc |-> "done"])
  BY DEF DevFit
<1> QED BY <1>1, <1>3, <1>4, DevPlain DEF DevPositions, Changing

LEMMA KeepsEnds ==
  ASSUME DevInv, NEW r \in DeviceRequests,
         \/ Approve(r) \/ AnswerIssue(r) \/ Deliver(r) \/ DeliverLost(r) \/ DevFail(r)
         \/ Poll(r) /\ DevGoes(r, "done", NoJti)
  PROVE  DevInv'
<1>1. /\ DevGoes(r, "done", NoJti) /\ UNCHANGED <<device, ledger, superseded>>
      /\ devFaults' \in Nat
  BY DEF Approve, AnswerIssue, Deliver, DeliverLost, DevFail, Poll, DevInv, DevTypeOK
<1>2. /\ auth \in [Devices -> Auth] /\ taken \in [Devices -> Jtis] /\ Dev(r) \in Devices
      /\ r \in Jtis /\ dreq[r].read \in Jtis
  BY DevFacts DEF DevInv, DevTypeOK, DeviceHandler
<1>3. CASE Approve(r)
  <2>1. ledger[r] # "none"
    BY <1>3 DEF Approve, DevAt, DevInv, Entries
  <2>2. /\ auth' \in [Devices -> Auth] /\ taken' = taken
        /\ \A d \in Devices : auth'[d].jti = auth[d].jti \/ (auth'[d].jti = r /\ d = Dev(r))
    BY <1>2, <1>3 DEF Approve, Auth
  <2> QED BY <1>1, <1>2, <2>1, <2>2, KeepsDone
<1>4. CASE AnswerIssue(r)
  <2>1. ledger[r] # "none"
    BY <1>4 DEF AnswerIssue, DevAt, DevInv, Entries
  <2> QED BY <1>1, <1>2, <1>4, <2>1, KeepsDone DEF AnswerIssue
<1>5. CASE Deliver(r) \/ DeliverLost(r)
  <2>1. dreq[r].read # NoJti => Dev(dreq[r].read) = Dev(r) /\ ledger[dreq[r].read] # "none"
    BY <1>5 DEF Deliver, DeliverLost, DevInv, Reads
  <2>2. /\ auth' \in [Devices -> Auth] /\ \A d \in Devices : auth'[d].jti = auth[d].jti
    <3>1. [auth[Dev(r)] EXCEPT !.sent = TRUE] \in Auth
          /\ [auth[Dev(r)] EXCEPT !.sent = TRUE].jti = auth[Dev(r)].jti
      BY <1>2 DEF Auth
    <3>2. \/ auth' = auth
          \/ auth' = [auth EXCEPT ![Dev(r)] = [auth[Dev(r)] EXCEPT !.sent = TRUE]]
      BY <1>5 DEF Deliver, DeliverLost
    <3> QED BY <1>2, <3>1, <3>2
  <2>3. taken' \in [Devices -> Jtis]
        /\ \A d \in Devices : taken'[d] = taken[d] \/ (d = Dev(r) /\ taken'[d] = dreq[r].read)
    BY <1>2, <1>5 DEF Deliver, DeliverLost
  <2> QED BY <1>1, <1>2, <2>1, <2>2, <2>3, KeepsDone
<1>6. CASE DevFail(r) \/ Poll(r)
  BY <1>1, <1>2, <1>6, KeepsDone DEF DevFail, Poll
<1> QED BY <1>3, <1>4, <1>5, <1>6

LEMMA KeepsPoll ==
  ASSUME DevInv, NEW r \in DeviceRequests, Poll(r)
  PROVE  DevInv'
<1> DEFINE j == auth[Dev(r)].jti
<1>1. CASE DevGoes(r, "done", NoJti)
  BY <1>1, KeepsEnds
<1>2. CASE DevGoes(r, "deliver", j)
  <2>1. j \in Jtis /\ DevAt(r, "get")
        /\ UNCHANGED <<auth, device, ledger, taken, devFaults, superseded>>
    BY DevFacts DEF Poll, Auth
  <2>2. j # NoJti => Dev(j) = Dev(r) /\ ledger[j] # "none"
    BY DevFacts DEF DevInv, Reads
  <2> HIDE DEF j
  <2>3. DevMoves(r, "deliver", j)
    BY <1>2, <2>1, DevGoesMoves DEF DevPositions
  <2>4. DevTypeOK'
    BY <2>1, <2>3 DEF DevMoves, DevInv, DevTypeOK
  <2>5. DevFit([kind |-> dreq[r].kind, pc |-> "deliver"])
    BY DEF DevFit
  <2> QED BY <1>2, <2>1, <2>2, <2>4, <2>5, DevPlain DEF DevPositions, DevAt, Past, Changing
<1> QED BY <1>1, <1>2 DEF Poll

\* Handlers that find nothing to do end; the others begin a change.
LEMMA KeepsFindPending ==
  ASSUME DevInv, NEW r \in DeviceRequests, FindPending(r) \/ FindDevice(r)
  PROVE  DevInv'
<1>1. DevTypeOK /\ dreq[r] \in DeviceHandler /\ NoJti \in Jtis /\ Dev(r) \in Devices
      /\ UNCHANGED <<auth, device, ledger, taken, devFaults>>
  BY DevFacts DEF DevInv, FindPending, FindDevice
<1>2. CASE DevGoes(r, "done", NoJti) /\ UNCHANGED superseded
  BY <1>1, <1>2, KeepsDone DEF DevTypeOK
<1>3. ASSUME NEW p \in {"existing", "revoke"}, NEW j \in Jtis,
             DevGoes(r, p, j), Supersedes(r, Dev(r)), dreq[r].pc \in {"pending", "find"},
             p = "existing" => dreq[r].kind \in Minting,
             p = "revoke" => dreq[r].kind = "revoke" /\ j # NoJti /\ Rowed(j, Dev(r))
      PROVE  DevInv'
  <2>1. DevMoves(r, p, j)
    BY <1>3, DevGoesMoves DEF DevPositions
  <2>2. DevTypeOK'
    <3>1. superseded' \in SUBSET DeviceRequests
      BY <1>1, <1>3 DEF Supersedes, Minted, DevTypeOK
    <3> QED BY <1>1, <2>1, <3>1 DEF DevMoves, DevTypeOK
  <2>3. \A q \in DeviceRequests : DevFit(dreq'[q])
    BY <1>3, <2>1 DEF DevMoves, DevFit, DevInv
  <2>4. Entries'
    BY <1>1, <1>3, <2>1, MovesEntries DEF Past
  <2>5. Reads'
    BY <1>1, <1>3, <2>1, MovesReads DEF Past, DevPositions
  <2>6. Sole'
    <3>1. dreq'[r].dev = Dev(r) /\ dreq'[r].pc = p
          /\ \A q \in DeviceRequests : q # r => dreq'[q] = dreq[q]
      BY <2>1 DEF DevMoves
    <3> QED BY <1>1, <1>3, <3>1, SoleBegins
  <2> QED BY <2>2, <2>3, <2>4, <2>5, <2>6 DEF DevInv
<1>4. CASE FindPending(r)
  <2>1. CASE DevGoes(r, "existing", NoJti) /\ Supersedes(r, Dev(r))
    <3>1. dreq[r].pc = "pending" /\ dreq[r].kind \in Minting
      BY <1>4, DevFacts DEF FindPending, DevAt, DevFit, Minting
    <3> QED BY <1>1, <1>3, <2>1, <3>1
  <2> QED BY <1>2, <1>4, <2>1 DEF FindPending
<1>5. CASE FindDevice(r)
  <2> DEFINE j == device[Dev(r)].active
  <2>1. CASE DevGoes(r, "revoke", j) /\ Supersedes(r, Dev(r)) /\ j # NoJti
    <3>1. dreq[r].pc = "find" /\ dreq[r].kind = "revoke"
      BY <1>5, DevFacts DEF FindDevice, DevAt, DevFit
    <3>2. j \in Jtis /\ Rowed(j, Dev(r))
      BY <1>1, <2>1 DEF DevTypeOK, Row, DevInv, Reads
    <3> QED BY <1>3, <2>1, <3>1, <3>2
  <2> QED BY <1>2, <1>5, <2>1 DEF FindDevice
<1> QED BY <1>4, <1>5

LEMMA KeepsMark ==
  ASSUME DevInv, NEW r \in DeviceRequests, MarkOld(r) \/ MarkLast(r)
  PROVE  DevInv'
<1>1. PICK p \in {"upsert", "done"}, j \in Jtis :
        /\ DevGoes(r, p, j)
        /\ p = "upsert" => DevAt(r, "mark") /\ dreq[r].kind \in Minting
        /\ p = "done" => DevAt(r, "marklast")
  <2>1. dreq[r].read \in Jtis /\ NoJti \in Jtis
    BY DevFacts DEF DeviceHandler
  <2>2. CASE MarkOld(r)
    BY <2>1, <2>2, DevFacts DEF MarkOld, DevAt, DevFit
  <2>3. CASE MarkLast(r)
    BY <2>1, <2>3 DEF MarkLast
  <2> QED BY <2>2, <2>3
<1>2. /\ dreq[r].pc \in {"mark", "marklast"} /\ ledger' = Marked(dreq[r].read)
      /\ UNCHANGED <<auth, device, taken, devFaults, superseded>>
  BY DEF MarkOld, MarkLast, DevAt
<1>3. DevMoves(r, p, j)
  BY <1>1, DevGoesMoves DEF DevPositions
<1>4. dreq[r].read # NoJti /\ Rowed(dreq[r].read, Dev(r)) /\ dreq[r].read # r
  <2>1. dreq[r].read # NoJti /\ Rowed(dreq[r].read, Dev(r))
    BY <1>2 DEF DevInv, Reads
  <2> QED BY <1>2, <2>1 DEF Rowed, Past
<1>5. \A i \in DeviceRequests :
        /\ ledger'[i] # "none" <=> ledger[i] # "none"
        /\ ledger'[i] = ledger[i] \/ (i = dreq[r].read /\ ledger[i] # "none")
  BY <1>2 DEF Marked
<1>6. DevTypeOK'
  <2>1. ledger' \in [DeviceRequests -> {"none", "open", "revoked"}]
    BY <1>2 DEF Marked, DevInv, DevTypeOK
  <2> QED BY <1>2, <1>3, <2>1 DEF DevMoves, DevInv, DevTypeOK
<1>7. \A q \in DeviceRequests : DevFit(dreq'[q])
  BY <1>1, <1>3 DEF DevMoves, DevFit, DevInv
<1>8. Entries'
  BY <1>1, <1>2, <1>3, <1>5, MovesEntries DEF Past
<1>9. Reads'
  BY <1>1, <1>2, <1>3, <1>5, MovesReads DEF Past, DevPositions
<1>10. Sole'
  <2>1. Made(r)' => Made(r)
    BY <1>1, <1>2, <1>3, <1>5 DEF Made, DevMoves, DevAt
  <2>2. ledger'[r] # "none" => Made(r)
    BY <1>5 DEF Made
  <2>3. dreq[r].pc \in Changing
    BY <1>2 DEF Changing
  <2>4. Dev(dreq[r].read) = Dev(r)
    BY <1>4 DEF Rowed
  <2> QED BY <1>1, <1>2, <1>3, <1>4, <1>5, <2>1, <2>2, <2>3, <2>4, SoleMoves
<1> QED BY <1>6, <1>7, <1>8, <1>9, <1>10 DEF DevInv

LEMMA KeepsUpsert ==
  ASSUME DevInv, NEW r \in DeviceRequests, Upsert(r)
  PROVE  DevInv'
<1> DEFINE j == dreq[r].read
<1>1. /\ DevGoes(r, "record", j) /\ dreq[r].pc = "upsert" /\ dreq[r].kind \in Minting
      /\ device' = [device EXCEPT ![Dev(r)] = [active |-> r, revoked |-> FALSE]]
      /\ UNCHANGED <<auth, ledger, taken, devFaults, superseded>>
      /\ j \in Jtis /\ r \in Jtis /\ Dev(r) \in Devices
  BY DevFacts DEF Upsert, DevAt, DevFit, DeviceHandler
<1> HIDE DEF j
<1>2. DevMoves(r, "record", j)
  BY <1>1, DevGoesMoves DEF DevPositions
<1>3. /\ device' \in [Devices -> Row] /\ device'[Dev(r)] = [active |-> r, revoked |-> FALSE]
      /\ \A d \in Devices : d # Dev(r) => device'[d] = device[d]
  BY <1>1 DEF DevInv, DevTypeOK, Row
<1>4. DevTypeOK'
  BY <1>1, <1>2, <1>3 DEF DevMoves, DevInv, DevTypeOK
<1>5. \A q \in DeviceRequests : DevFit(dreq'[q])
  BY <1>1, <1>2 DEF DevMoves, DevFit, DevInv
<1>6. ledger[r] = "none"
  BY <1>1, DevFacts DEF Past
<1>7. Entries'
  BY <1>1, <1>2, MovesEntries DEF Past
<1>8. Reads'
  BY <1>1, <1>2, <1>3, MovesReads DEF Past, DevPositions
<1>9. Sole'
  BY <1>1, <1>2, <1>3, <1>6, SoleMoves DEF Made, Changing
<1> QED BY <1>4, <1>5, <1>7, <1>8, <1>9 DEF DevInv

LEMMA KeepsRecord ==
  ASSUME DevInv, NEW r \in DeviceRequests, RecordJti(r)
  PROVE  DevInv'
<1> DEFINE p == IF dreq[r].kind = "approve" THEN "approve" ELSE "answer"
<1>1. /\ DevGoes(r, p, NoJti) /\ dreq[r].pc = "record" /\ dreq[r].kind \in Minting
      /\ p \in {"approve", "answer"} /\ NoJti \in Jtis
      /\ ledger' = [ledger EXCEPT ![r] = "open"]
      /\ UNCHANGED <<auth, device, taken, devFaults, superseded>>
  BY DevFacts DEF RecordJti, DevAt, DevFit
<1>2. DevFit([kind |-> dreq[r].kind, pc |-> p])
  BY <1>1 DEF DevFit, Minting
<1> HIDE DEF p
<1>3. DevMoves(r, p, NoJti)
  BY <1>1, DevGoesMoves DEF DevPositions
<1>4. /\ ledger' \in [DeviceRequests -> {"none", "open", "revoked"}] /\ ledger'[r] = "open"
      /\ \A i \in DeviceRequests : i # r => ledger'[i] = ledger[i]
  BY <1>1 DEF DevInv, DevTypeOK
<1>5. DevTypeOK'
  BY <1>1, <1>3, <1>4 DEF DevMoves, DevInv, DevTypeOK
<1>6. \A q \in DeviceRequests : DevFit(dreq'[q])
  BY <1>2, <1>3 DEF DevMoves, DevFit, DevInv
<1>7. Entries'
  BY <1>1, <1>3, <1>4, MovesEntries DEF Past
<1>8. Reads'
  BY <1>1, <1>3, <1>4, MovesReads DEF Past, DevPositions
<1>9. Sole'
  BY <1>1, <1>3, <1>4, SoleMoves DEF Made, Changing
<1> QED BY <1>5, <1>6, <1>7, <1>8, <1>9 DEF DevInv

LEMMA KeepsRevoke ==
  ASSUME DevInv, NEW r \in DeviceRequests, RevokeDevice(r)
  PROVE  DevInv'
<1> DEFINE j == dreq[r].read
<1>1. /\ DevGoes(r, "marklast", j) /\ dreq[r].pc = "revoke" /\ dreq[r].kind = "revoke"
      /\ device' = [device EXCEPT ![Dev(r)].revoked = TRUE]
      /\ UNCHANGED <<auth, ledger, taken, devFaults, superseded>>
      /\ j \in Jtis /\ Dev(r) \in Devices /\ j # NoJti /\ Rowed(j, Dev(r))
  BY DevFacts DEF RevokeDevice, DevAt, DevFit, DeviceHandler, DevInv, Reads
<1> HIDE DEF j
<1>2. DevMoves(r, "marklast", j)
  BY <1>1, DevGoesMoves DEF DevPositions
<1>3. /\ device' \in [Devices -> Row]
      /\ \A d \in Devices : device'[d].active = device[d].active
      /\ \A d \in Devices : d # Dev(r) => device'[d] = device[d]
  BY <1>1 DEF DevInv, DevTypeOK, Row
<1>4. DevTypeOK'
  BY <1>1, <1>2, <1>3 DEF DevMoves, DevInv, DevTypeOK
<1>5. \A q \in DeviceRequests : DevFit(dreq'[q])
  BY <1>1, <1>2 DEF DevMoves, DevFit, DevInv
<1>6. ledger[r] = "none"
  BY <1>1, DevFacts DEF Minting
<1>7. Entries'
  BY <1>1, <1>2, MovesEntries DEF Past
<1>8. Reads'
  BY <1>1, <1>2, <1>3, MovesReads DEF Past, DevPositions
<1>9. Sole'
  <2>1. Made(r)' => Made(r)
    BY <1>1, <1>2 DEF Made, DevMoves
  <2> QED BY <1>1, <1>2, <1>3, <1>6, <2>1, SoleMoves DEF Changing
<1> QED BY <1>4, <1>5, <1>7, <1>8, <1>9 DEF DevInv

LEMMA KeepsDevStart ==
  ASSUME DevInv, NEW r \in DeviceRequests, NEW d \in Devices,
         NEW k \in {"approve", "issue", "poll", "revoke"}, DevStart(r, d, k)
  PROVE  DevInv'
<1> DEFINE p == CASE k = "approve" -> "pending" [] k = "issue" -> "existing"
                  [] k = "poll" -> "get" [] OTHER -> "find"
           h == [kind |-> k, dev |-> d, read |-> NoJti, pc |-> p]
<1>1. /\ dreq' = [dreq EXCEPT ![r] = h] /\ dreq[r].pc = "idle"
      /\ UNCHANGED <<auth, device, ledger, taken, devFaults>>
      /\ IF k = "issue" THEN Supersedes(r, d) ELSE UNCHANGED superseded
  BY DEF DevStart, DevAt
<1>2. /\ h.pc \in {"pending", "existing", "get", "find"} /\ h.dev = d /\ DevFit(h)
      /\ h \in DeviceHandler /\ (h.pc = "existing" <=> k = "issue")
  BY DevFacts DEF DevFit, DeviceHandler, Minting
<1> HIDE DEF h
<1>3. /\ dreq' \in [DeviceRequests -> DeviceHandler] /\ dreq'[r] = h
      /\ \A q \in DeviceRequests : q # r => dreq'[q] = dreq[q]
  BY <1>1, <1>2 DEF DevInv, DevTypeOK
<1>4. DevTypeOK'
  <2>1. superseded' \in SUBSET DeviceRequests
    BY <1>1 DEF Supersedes, Minted, DevInv, DevTypeOK
  <2> QED BY <1>1, <1>3, <2>1 DEF DevInv, DevTypeOK
<1>5. \A q \in DeviceRequests : DevFit(dreq'[q])
  BY <1>2, <1>3 DEF DevInv
<1>6. ledger[r] = "none"
  BY <1>1, DevFacts DEF Past
<1>7. Entries'
  BY <1>1, <1>2, <1>3, <1>6 DEF DevInv, Entries
<1>8. \A i \in DeviceRequests : (\E e : Rowed(i, e)) \/ ledger[i] # "none" => i # r
  BY <1>1, <1>6 DEF Rowed, Past
<1>9. Reads'
  <2>1. DevTypeOK /\ Reads /\ \A i \in Jtis : i # NoJti => i \in DeviceRequests
    BY DEF DevInv, Jtis
  <2>2. ASSUME NEW e \in Devices, device'[e].active # NoJti
        PROVE  Rowed(device[e].active, e)'
    <3>1. /\ device[e].active \in DeviceRequests /\ Rowed(device[e].active, e)
          /\ device' = device
      BY <1>1, <2>1, <2>2 DEF Reads, DevTypeOK, Row
    <3>2. dreq'[device[e].active] = dreq[device[e].active]
      BY <1>3, <1>8, <3>1
    <3> QED BY <3>1, <3>2 DEF Rowed, Dev
  <2>3. ASSUME NEW q \in DeviceRequests, dreq'[q].pc \in {"mark", "revoke", "marklast"}
        PROVE  dreq'[q].read # NoJti /\ Rowed(dreq[q].read, Dev(q))'
    <3>1. q # r /\ dreq'[q] = dreq[q] /\ dreq[q] \in DeviceHandler
      BY <1>2, <1>3, <2>1, <2>3 DEF DevTypeOK
    <3>2. dreq[q].read # NoJti /\ dreq[q].read \in DeviceRequests /\ Rowed(dreq[q].read, Dev(q))
      BY <2>1, <2>3, <3>1 DEF Reads, DeviceHandler
    <3>3. dreq'[dreq[q].read] = dreq[dreq[q].read]
      BY <1>3, <1>8, <3>2
    <3> QED BY <3>1, <3>2, <3>3 DEF Rowed, Dev
  <2>4. ASSUME NEW q \in DeviceRequests, dreq'[q].pc = "deliver", dreq'[q].read # NoJti
        PROVE  dreq'[dreq'[q].read].dev = dreq'[q].dev /\ ledger'[dreq'[q].read] # "none"
    <3>1. q # r /\ dreq'[q] = dreq[q] /\ dreq[q] \in DeviceHandler
      BY <1>2, <1>3, <2>1, <2>4 DEF DevTypeOK
    <3>2. dreq[q].read \in DeviceRequests /\ Dev(dreq[q].read) = Dev(q)
          /\ ledger[dreq[q].read] # "none"
      BY <2>1, <2>4, <3>1 DEF Reads, DeviceHandler, DevAt
    <3>3. dreq'[dreq[q].read] = dreq[dreq[q].read]
      BY <1>3, <1>8, <3>2
    <3> QED BY <1>1, <3>1, <3>2, <3>3 DEF Dev
  <2>5. ASSUME NEW e \in Devices
        PROVE  /\ auth'[e].jti # NoJti =>
                    dreq'[auth'[e].jti].dev = e /\ ledger'[auth'[e].jti] # "none"
               /\ taken'[e] # NoJti =>
                    dreq'[taken'[e]].dev = e /\ ledger'[taken'[e]] # "none"
    <3>1. /\ auth[e].jti # NoJti => auth[e].jti \in DeviceRequests
                 /\ Dev(auth[e].jti) = e /\ ledger[auth[e].jti] # "none"
          /\ taken[e] # NoJti => taken[e] \in DeviceRequests
                 /\ Dev(taken[e]) = e /\ ledger[taken[e]] # "none"
      BY <2>1 DEF Reads, DevTypeOK, Auth
    <3>2. /\ auth[e].jti # NoJti => dreq'[auth[e].jti] = dreq[auth[e].jti]
          /\ taken[e] # NoJti => dreq'[taken[e]] = dreq[taken[e]]
      BY <1>3, <1>8, <3>1
    <3> QED BY <1>1, <3>1, <3>2 DEF Dev
  <2> QED BY <2>2, <2>3, <2>4, <2>5 DEF Reads, DevAt, Dev, Rowed
<1>10. Sole'
  <2>1. CASE k = "issue"
    <3>1. dreq'[r].dev = d /\ dreq'[r].pc = "existing" /\ Supersedes(r, d)
      BY <1>1, <1>2, <1>3, <2>1
    <3> QED BY <1>1, <1>3, <3>1, SoleBegins
  <2>2. CASE k # "issue"
    <3> SUFFICES ASSUME NEW i \in DeviceRequests, i \notin superseded
                 PROVE  /\ Made(i)' => \A q \in DeviceRequests :
                             q # i /\ Dev(q)' = Dev(i)' => dreq'[q].pc \notin Changing
                        /\ DevAt(i, "record")' \/ ledger'[i] # "none" => Accepted(Dev(i), i)'
      BY <1>1, <2>2 DEF Sole
    <3>1. Made(i)' \/ DevAt(i, "record")' \/ ledger'[i] # "none" => i # r
      BY <1>1, <1>2, <1>3, <1>6, <2>2 DEF Made, DevAt
    <3>2. i # r => dreq'[i] = dreq[i]
      BY <1>3
    <3>3. dreq'[r].pc \notin Changing
      BY <1>2, <1>3, <2>2 DEF Changing
    <3>4. Made(i)' => \A q \in DeviceRequests :
            q # i /\ Dev(q)' = Dev(i)' => dreq'[q].pc \notin Changing
      BY <1>1, <1>3, <3>1, <3>2, <3>3 DEF DevInv, Sole, Made, Dev
    <3>5. DevAt(i, "record")' \/ ledger'[i] # "none" => Accepted(Dev(i), i)'
      BY <1>1, <3>1, <3>2 DEF DevInv, Sole, Dev, DevAt, Accepted
    <3> QED BY <3>4, <3>5
  <2> QED BY <2>1, <2>2
<1> QED BY <1>4, <1>5, <1>7, <1>9, <1>10 DEF DevInv

\* Codes that expire or are deleted.
LEMMA KeepsCodes ==
  ASSUME DevInv, UNCHANGED <<device, ledger, dreq, taken, superseded>>,
         auth' \in [Devices -> Auth], devFaults' \in Nat,
         \A d \in Devices : auth'[d].jti = auth[d].jti
  PROVE  DevInv'
<1>1. DevTypeOK' /\ Entries' /\ Sole' /\ \A r \in DeviceRequests : DevFit(dreq'[r])
  BY DEF DevInv, DevTypeOK, Entries, Sole, Made, Dev, DevAt, Accepted
<1>2. Reads'
  BY DEF DevInv, Reads, Rowed, Dev, DevAt
<1> QED BY <1>1, <1>2 DEF DevInv

LEMMA KeepsDevRun == ASSUME DevInv, DevRuns PROVE DevInv'
<1>1. ASSUME NEW r \in DeviceRequests, DevServer(r) PROVE DevInv'
  BY <1>1, KeepsFindPending, KeepsFindExisting, KeepsMark, KeepsUpsert, KeepsRecord,
     KeepsEnds, KeepsPoll, KeepsRevoke DEF DevServer
<1>2. ASSUME NEW d \in Devices, ExpireCode(d) PROVE DevInv'
  <2>1. /\ auth' \in [Devices -> Auth] /\ devFaults' \in Nat
        /\ \A e \in Devices : auth'[e].jti = auth[e].jti
    BY <1>2 DEF ExpireCode, DevInv, DevTypeOK, Auth
  <2> QED BY <1>2, <2>1, KeepsCodes DEF ExpireCode
<1> QED BY <1>1, <1>2 DEF DevRuns

\* The steps that change the state of the devices.
LEMMA DeviceSteps ==
  ASSUME [Next]_vars
  PROVE  \/ UNCHANGED devVars
         \/ DevRuns
         \/ \E r \in DeviceRequests, d \in Devices, k \in {"approve", "issue", "poll", "revoke"} :
              DevStart(r, d, k)
         \/ \E x \in Deletions : PurgeAuth(x)
<1>1. ASSUME NEW x \in Deletions, Deletes(x), ~PurgeAuth(x)
      PROVE  UNCHANGED devVars
  BY <1>1 DEF Deletes, FindParent, FindOwned, FindLogins, PurgeSessions, PurgeTokens,
              DropStudents, DropLogins, DropUser, Audit, FailDeletion
<1>2. ASSUME NEW x \in Deletions, NEW p \in Users, StartDeletion(x, p)
      PROVE  UNCHANGED devVars
  BY <1>2 DEF StartDeletion
<1>3. SessionRuns \/ SessionsBegin => UNCHANGED devVars
  BY DEF SessionRuns, SessionsBegin, SessionBegins
<1> QED BY <1>1, <1>2, <1>3 DEF Next, vars, DeviceRuns, DevicesBegin, DeviceBegins,
          DeletionBegins

LEMMA DevInvNext == DevInv /\ [Next]_vars => DevInv'
<1> SUFFICES ASSUME DevInv, [Next]_vars PROVE DevInv'
  OBVIOUS
<1>1. CASE UNCHANGED devVars
  <2>1. /\ UNCHANGED <<device, ledger, dreq, taken, superseded, auth, devFaults>>
    BY <1>1 DEF devVars
  <2> QED BY <2>1, KeepsCodes DEF DevInv, DevTypeOK
<1>2. ASSUME NEW x \in Deletions, PurgeAuth(x) PROVE DevInv'
  <2>1. /\ auth' \in [Devices -> Auth] /\ \A e \in Devices : auth'[e].jti = auth[e].jti
    BY <1>2 DEF PurgeAuth, DevInv, DevTypeOK, Auth
  <2>2. /\ UNCHANGED <<device, ledger, dreq, taken, superseded>> /\ devFaults' \in Nat
    BY <1>2 DEF PurgeAuth, DevInv, DevTypeOK
  <2> QED BY <2>1, <2>2, KeepsCodes
<1> QED BY <1>1, <1>2, KeepsDevRun, KeepsDevStart, DeviceSteps

LEMMA DevInvAlways == Spec => []DevInv
<1>1. Init => DevInv
  BY DevInvInit DEF Init
<1> QED BY <1>1, DevInvNext, PTL DEF Spec

\* A connector token that arrived works until another mint or a revocation.
THEOREM TakenTokensWork == Spec => []TakenTokenWorks
<1>1. DevInv => TakenTokenWorks
  <2> SUFFICES ASSUME DevInv, NEW d \in Devices, taken[d] # NoJti, taken[d] \notin superseded
               PROVE  Accepted(d, taken[d])
    BY DEF TakenTokenWorks
  <2>1. taken[d] \in DeviceRequests /\ Dev(taken[d]) = d /\ ledger[taken[d]] # "none"
    BY DEF DevInv, DevTypeOK, Reads, Jtis
  <2> QED BY <2>1 DEF DevInv, Sole
<1> QED BY <1>1, DevInvAlways, PTL

-----------------------------------------------------------------------------
(* Deletions: types, and that only two steps leave a purge of tokens. *)

DelTypeOK ==
  /\ students \in SUBSET Students
  /\ deletion \in [Deletions -> Deletion]
  /\ cut \in SUBSET Users

\* What a deletion becomes.
LEMMA DelBecomes ==
  ASSUME DelTypeOK, NEW x \in Deletions, NEW d \in Deletion, DelGoes(x, d)
  PROVE  /\ deletion' \in [Deletions -> Deletion] /\ deletion'[x] = d
         /\ \A y \in Deletions : y # x => deletion'[y] = deletion[y]
BY DEF DelTypeOK, DelGoes

LEMMA DelSteps ==
  ASSUME DelTypeOK, NEW x \in Deletions,
         NEW p \in {"students", "auth", "sessions", "tokens", "dropStudents", "dropLogins",
                    "dropUser", "audit", "done", "failed"},
         DelStep(x, p)
  PROVE  /\ deletion' \in [Deletions -> Deletion] /\ deletion'[x].pc = p
         /\ deletion'[x].target = deletion[x].target
         /\ \A y \in Deletions : y # x => deletion'[y] = deletion[y]
<1> DEFINE d == [deletion[x] EXCEPT !.pc = p]
<1>1. d \in Deletion /\ d.pc = p /\ d.target = deletion[x].target /\ DelGoes(x, d)
  BY DEF DelTypeOK, Deletion, DelStep
<1> HIDE DEF d
<1> QED BY <1>1, DelBecomes

\* Every step of deletions is one deletion's, a start or a race.
DelMoves ==
  /\ DelTypeOK'
  /\ \A y \in Deletions :
       \/ Deletes(y)
       \/ deletion'[y].pc = deletion[y].pc /\ deletion'[y].target = deletion[y].target
       \/ DelAt(y, "idle")

LEMMA DelOne ==
  ASSUME DelTypeOK, NEW x \in Deletions, Deletes(x), students' \in SUBSET Students,
         cut' \in SUBSET Users, NEW d \in Deletion, DelGoes(x, d)
  PROVE  DelMoves
BY DelBecomes DEF DelMoves, DelTypeOK

LEMMA DelDeletes == ASSUME DelTypeOK, NEW x \in Deletions, Deletes(x) PROVE DelMoves
<1>1. deletion[x] \in Deletion /\ students \in SUBSET Students /\ cut \in SUBSET Users
  BY DEF DelTypeOK
<1>2. CASE FindParent(x) \/ PurgeAuth(x) \/ PurgeSessions(x) \/ DropUser(x) \/ Audit(x)
           \/ FailDeletion(x)
  <2>1. \E p \in {"students", "sessions", "tokens", "audit", "done", "failed"} : DelStep(x, p)
    BY <1>2 DEF FindParent, PurgeAuth, PurgeSessions, DropUser, Audit, FailDeletion
  <2>2. students' \in SUBSET Students /\ cut' \in SUBSET Users
    BY <1>1, <1>2 DEF FindParent, PurgeAuth, PurgeSessions, DropUser, Audit, FailDeletion,
                      Deletion
  <2>3. \A p \in {"students", "sessions", "tokens", "audit", "done", "failed"} :
          [deletion[x] EXCEPT !.pc = p] \in Deletion
    BY <1>1 DEF Deletion
  <2> QED BY <2>1, <2>2, <2>3, DelOne DEF DelStep
<1>3. CASE FindOwned(x)
  <2> DEFINE d == [deletion[x] EXCEPT !.pc = "logins",
                     !.found = {s \in students : ParentOf[s] = deletion[x].parent}]
  <2>1. d \in Deletion
    BY <1>1 DEF Deletion
  <2> QED BY <1>1, <1>3, <2>1, DelOne DEF FindOwned
<1>4. CASE FindLogins(x)
  <2> DEFINE ls == {LoginOf[s] : s \in deletion[x].found} \intersect users
             d == [deletion[x] EXCEPT !.pc = "auth", !.logins = ls, !.left = ls,
                                      !.target = deletion[x].parent]
  <2>1. ls \in SUBSET Users
    BY <1>1, AccountConstants DEF Deletion
  <2>2. d \in Deletion /\ DelGoes(x, d)
    BY <1>1, <1>4, <2>1 DEF Deletion, FindLogins
  <2> QED BY <1>1, <1>4, <2>2, DelOne DEF FindLogins
<1>5. CASE PurgeTokens(x)
  <2>1. CASE DelStep(x, "dropStudents")
    <3>1. [deletion[x] EXCEPT !.pc = "dropStudents"] \in Deletion
      BY <1>1 DEF Deletion
    <3> QED BY <1>1, <1>5, <2>1, <3>1, DelOne DEF DelStep, PurgeTokens
  <2>2. ASSUME NEW u \in deletion[x].left,
               DelGoes(x, [deletion[x] EXCEPT !.pc = "auth", !.target = u, !.left = @ \ {u}])
        PROVE  DelMoves
    <3>1. [deletion[x] EXCEPT !.pc = "auth", !.target = u, !.left = @ \ {u}] \in Deletion
      BY <1>1 DEF Deletion
    <3> QED BY <1>1, <1>5, <2>2, <3>1, DelOne DEF PurgeTokens
  <2> QED BY <1>5, <2>1, <2>2 DEF PurgeTokens
<1>6. CASE DropStudents(x)
  <2>1. CASE DelStep(x, "dropLogins") /\ UNCHANGED students
    <3>1. [deletion[x] EXCEPT !.pc = "dropLogins"] \in Deletion
      BY <1>1 DEF Deletion
    <3> QED BY <1>1, <1>6, <2>1, <3>1, DelOne DEF DelStep, DropStudents
  <2>2. ASSUME NEW s \in deletion[x].found, students' = students \ {s},
               DelGoes(x, [deletion[x] EXCEPT !.found = @ \ {s}])
        PROVE  DelMoves
    <3>1. [deletion[x] EXCEPT !.found = @ \ {s}] \in Deletion
      BY <1>1 DEF Deletion
    <3> QED BY <1>1, <1>6, <2>2, <3>1, DelOne DEF DropStudents
  <2> QED BY <1>6, <2>1, <2>2 DEF DropStudents
<1>7. CASE DropLogins(x)
  <2>1. CASE DelStep(x, "dropUser")
    <3>1. [deletion[x] EXCEPT !.pc = "dropUser"] \in Deletion
      BY <1>1 DEF Deletion
    <3> QED BY <1>1, <1>7, <2>1, <3>1, DelOne DEF DelStep, DropLogins
  <2>2. ASSUME NEW u \in deletion[x].logins,
               DelGoes(x, [deletion[x] EXCEPT !.logins = @ \ {u}])
        PROVE  DelMoves
    <3>1. [deletion[x] EXCEPT !.logins = @ \ {u}] \in Deletion
      BY <1>1 DEF Deletion
    <3> QED BY <1>1, <1>7, <2>2, <3>1, DelOne DEF DropLogins
  <2> QED BY <1>7, <2>1, <2>2 DEF DropLogins
<1> QED BY <1>2, <1>3, <1>4, <1>5, <1>6, <1>7 DEF Deletes

LEMMA DelNext == ASSUME DelTypeOK, [Next]_vars PROVE DelMoves
<1>1. CASE UNCHANGED <<students, deletion, cut>>
  BY <1>1 DEF DelMoves, DelTypeOK
<1>2. ASSUME NEW u, Races(u), UNCHANGED <<students, cut>> PROVE DelMoves
  <2>1. \A d \in Deletion : [d EXCEPT !.raced = TRUE] \in Deletion
          /\ [d EXCEPT !.raced = TRUE].pc = d.pc /\ [d EXCEPT !.raced = TRUE].target = d.target
    BY DEF Deletion
  <2>2. \A x \in Deletions : deletion'[x] \in {deletion[x], [deletion[x] EXCEPT !.raced = TRUE]}
    BY <1>2 DEF Races
  <2>3. deletion' = [x \in Deletions |-> deletion'[x]]
    BY <1>2 DEF Races
  <2>4. \A x \in Deletions : deletion'[x] \in Deletion /\ deletion'[x].pc = deletion[x].pc
                             /\ deletion'[x].target = deletion[x].target
    BY <2>1, <2>2 DEF DelTypeOK
  <2> HIDE DEF Races
  <2> QED BY <1>2, <2>3, <2>4 DEF DelMoves, DelTypeOK
<1>3. ASSUME NEW x \in Deletions, NEW p \in Users, StartDeletion(x, p) PROVE DelMoves
  <2> DEFINE beside == {y \in Deletions : Deleting(y) /\ deletion[y].parent = p}
             n == [deletion[x] EXCEPT !.pc = "parent", !.parent = p,
                     !.raced = Busy(Household(p)) \/ beside # {}]
  <2>1. /\ \A d \in Deletion : [d EXCEPT !.raced = TRUE] \in Deletion
             /\ [d EXCEPT !.raced = TRUE].pc = d.pc /\ [d EXCEPT !.raced = TRUE].target = d.target
        /\ n \in Deletion
    BY DEF Deletion, DelTypeOK
  <2>2. /\ deletion' = [y \in Deletions |-> IF y = x THEN n
             ELSE IF y \in beside THEN [deletion[y] EXCEPT !.raced = TRUE] ELSE deletion[y]]
        /\ DelAt(x, "idle") /\ UNCHANGED <<students, cut>>
    BY <1>3 DEF StartDeletion
  <2> HIDE DEF beside, n
  <2>3. \A y \in Deletions : /\ deletion'[y] \in Deletion
                             /\ y # x => deletion'[y].pc = deletion[y].pc
                                         /\ deletion'[y].target = deletion[y].target
    BY <2>1, <2>2 DEF DelTypeOK
  <2>4. deletion' \in [Deletions -> Deletion]
    BY <2>2, <2>3
  <2> QED BY <2>2, <2>3, <2>4 DEF DelMoves, DelTypeOK
<1>4. SessionRuns \/ DeviceRuns \/ UNCHANGED vars => UNCHANGED <<students, deletion, cut>>
  BY DEF SessionRuns, DeviceRuns, vars
<1>5. SessionsBegin \/ DevicesBegin => \E u : Races(u) /\ UNCHANGED <<students, cut>>
  BY DEF SessionsBegin, DevicesBegin, SessionBegins, DeviceBegins
<1> QED BY <1>1, <1>2, <1>3, <1>4, <1>5, DelDeletes DEF Next, DeletionBegins

LEMMA DelTypeInit == Init => DelTypeOK
<1> SUFFICES ASSUME Init PROVE DelTypeOK
  OBVIOUS
<1>1. \A u \in Users : NoDeletion(u) \in Deletion
  BY DEF NoDeletion, Deletion
<1> QED BY <1>1 DEF Init, DelTypeOK

LEMMA DelTypeAlways == Spec => []DelTypeOK
<1>1. DelTypeOK /\ [Next]_vars => DelTypeOK'
  BY DelNext DEF DelMoves
<1> QED BY <1>1, DelTypeInit, PTL DEF Spec

\* The state of the account routes is always well typed.
THEOREM AccTypeCorrect == Spec => []AccTypeOK
<1>1. SessInv /\ DevInv /\ DelTypeOK => AccTypeOK
  BY DEF SessInv, DevInv, DelTypeOK, AccTypeOK
<1> QED BY <1>1, SessInvAlways, DevInvAlways, DelTypeAlways, PTL

-----------------------------------------------------------------------------
(* What a client holds is listed. *)

LEMMA ServerMoves ==
  ASSUME SessInv, NEW r \in Requests, SessServer(r)
  PROVE  InFlight(r) /\ \E p : Moves(r, p)
<1>1. InFlight(r)
  BY DEF SessServer, Check, Reuse, FindUser, Rotate, Create, FindRow, WriteRow,
         RevokeFamily, FindLogout, LogoutRows, FindAgain, FindTarget, Delist, DelistOthers,
         Answer, Refuse, Fail, At, InFlight
<1>2. CASE FindRow(r) \/ FindTarget(r)
  <2>1. \/ \E x : Becomes(r, [req[r] EXCEPT !.pc = "writerow", !.row = x])
        \/ \E x : Becomes(r, [req[r] EXCEPT !.pc = "delist", !.row = x])
        \/ Goes(r, "refuse")
    BY <1>2 DEF FindRow, FindTarget
  <2> QED BY <1>1, <2>1, RowMoves, GoesMoves
<1>3. CASE ~(FindRow(r) \/ FindTarget(r))
  <2>1. \E p : Goes(r, p)
    BY <1>3 DEF SessServer, Check, Reuse, FindUser, Rotate, Create, WriteRow,
         RevokeFamily, FindLogout, LogoutRows, FindAgain, Delist, DelistOthers, Delists,
         Answer, Refuse, Fail, Step
  <2> QED BY <1>1, <2>1, GoesMoves
<1> QED BY <1>1, <1>2, <1>3

LEMMA KeptAlways ==
  ASSUME SessInv, [Next]_vars
  PROVE  \A q \in Requests : Kept(q)
<1>1. CASE UNCHANGED req
  BY <1>1 DEF Kept, At
<1>2. ASSUME NEW r \in Requests, SessServer(r) PROVE \A q \in Requests : Kept(q)
  <2>1. PICK p : Moves(r, p)
    BY <1>2, ServerMoves
  <2>2. req'[r].kind # "none" => req'[r].pc # "idle"
    <3>1. SessInv'
      BY <1>2, KeepsRun DEF SessRuns
    <3> QED BY <3>1 DEF SessInv, Handlers, Shape, Fit
  <2>3. req[r].kind # "none"
    BY <2>1, HandlerFacts DEF Moves, Shape, Fit, InFlight, At
  <2> QED BY <2>1, <2>2, <2>3 DEF Moves, Kept, At
<1>3. ASSUME NEW r \in Requests, NEW c \in Clients, SessStart(r, c)
      PROVE  \A q \in Requests : Kept(q)
  <2>1. \E k, p, t : Starts(r, c, k, p, t)
    BY <1>3, StartForms DEF SessStart
  <2> QED BY <2>1, KeepsBegin DEF Starts
<1>4. ASSUME NEW r \in Requests, Expire(r) \/ Sweep(r) PROVE UNCHANGED req
  BY <1>4 DEF Expire, Sweep
<1>5. ASSUME NEW c \in Clients, AppLogout(c) PROVE UNCHANGED req
  BY <1>5 DEF AppLogout
<1>6. ASSUME NEW x \in Deletions,
             \/ PurgeSessions(x) \/ PurgeTokens(x) \/ DropLogins(x) \/ DropUser(x)
             \/ FailDeletion(x)
      PROVE  UNCHANGED req
  BY <1>6 DEF PurgeSessions, PurgeTokens, DropLogins, DropUser, FailDeletion
<1>7. UNCHANGED sessVars => UNCHANGED req
  BY DEF sessVars
<1> QED BY <1>1, <1>2, <1>3, <1>4, <1>5, <1>6, <1>7, SessionSteps DEF SessRuns

\* The exceptions of HeldSessionIsListed, or a row.
Visible(f) ==
  RowsOf(f) # {} \/ LogsOut(f) \/ Purges(f) \/ f \in delisted \/ f \in expired

\* t is a live token that a client stores or is about to be given.
Owed(t) ==
  /\ token[t] = "live"
  /\ \/ \E c \in Clients : held[c] = t
     \/ req[t].kind \in Makers /\ (At(t, "answer") \/ (At(t, "writerow") /\ req[t].row # None))

Listed == \A t \in Requests : Owed(t) => Visible(Fam(t))

NoLive(f) == \A t \in Requests : Fam(t) = f => token[t] # "live"

LEMMA HistoryGrows ==
  ASSUME SessInv, [Next]_vars
  PROVE  delisted \subseteq delisted' /\ expired \subseteq expired'
<1>1. ASSUME NEW r \in Requests, SessServer(r)
      PROVE  delisted \subseteq delisted' /\ expired' = expired
  BY <1>1 DEF SessServer, Check, Reuse, FindUser, Rotate, Create, FindRow, WriteRow,
         RevokeFamily, FindLogout, LogoutRows, FindAgain, FindTarget, Delist, DelistOthers,
         Delists, Answer, Refuse, Fail, Step, store, sessHistory
<1>2. ASSUME NEW r \in Requests, NEW c \in Clients, SessStart(r, c)
      PROVE  delisted' = delisted /\ expired' = expired
  <2>1. \E k, p, t : Begins(r, c, k, p, t)
    BY <1>2 DEF SessStart, StartLogin, StartRefresh, StartLogout, StartDelist
  <2> QED BY <2>1 DEF Begins, store
<1>3. ASSUME NEW r \in Requests, Expire(r) \/ Sweep(r)
      PROVE  delisted' = delisted /\ expired \subseteq expired'
  BY <1>3 DEF Expire, Sweep, sessHistory
<1>4. ASSUME NEW c \in Clients, AppLogout(c) PROVE delisted' = delisted /\ expired' = expired
  BY <1>4 DEF AppLogout, store
<1>5. ASSUME NEW x \in Deletions,
             \/ PurgeSessions(x) \/ PurgeTokens(x) \/ DropLogins(x) \/ DropUser(x)
             \/ FailDeletion(x)
      PROVE  delisted \subseteq delisted' /\ expired' = expired
  BY <1>5 DEF PurgeSessions, PurgeTokens, DropLogins, DropUser, FailDeletion, sessHistory, store
<1>6. UNCHANGED sessVars => delisted' = delisted /\ expired' = expired
  BY DEF sessVars, store, sessHistory
<1> QED BY <1>1, <1>2, <1>3, <1>4, <1>5, <1>6, SessionSteps DEF SessRuns

\* A purge ends with the tokens deleted, or fails and is recorded.
LEMMA PurgesStay ==
  ASSUME SessInv, DelTypeOK, [Next]_vars, NEW t \in Requests, token[t] # "none",
         NEW f, f = Fam(t), Purges(f)
  PROVE  Purges(f)' \/ token'[t] # "live" \/ f \in delisted'
<1>1. PICK x \in Deletions : DelAt(x, "tokens") /\ deletion[x].target = Owner(f)
  BY DEF Purges
<1>2. /\ f \in Requests /\ req[f].kind = "login" /\ ~At(f, "idle") /\ ~At(t, "idle")
  <2>1. ~At(t, "idle")
    BY DEF SessInv, Stored, At
  <2> QED BY <2>1, HandlerFacts
<1>3. Owner(f)' = Owner(f)
  BY <1>2, KeptAlways DEF Kept, Owner, ClientOf
<1>4. CASE Deletes(x)
  <2>1. PurgeTokens(x) \/ FailDeletion(x)
    BY <1>1, <1>4 DEF Deletes, FindParent, FindOwned, FindLogins, PurgeAuth, PurgeSessions,
       DropStudents, DropLogins, DropUser, Audit, DelAt
  <2>2. CASE PurgeTokens(x)
    <3>1. Owner(Fam(t)) = deletion[x].target
      BY <1>1
    <3> QED BY <2>2, <3>1 DEF PurgeTokens
  <2>3. CASE FailDeletion(x)
    <3>1. f \in FamiliesOf({deletion[x].target})
      BY <1>1, <1>2 DEF FamiliesOf, Owner
    <3> QED BY <1>1, <2>3, <3>1 DEF FailDeletion
  <2> QED BY <2>1, <2>2, <2>3
<1>5. CASE deletion'[x].pc = deletion[x].pc /\ deletion'[x].target = deletion[x].target
  BY <1>1, <1>3, <1>5 DEF Purges, DelAt
<1> QED BY <1>1, <1>4, <1>5, DelNext DEF DelMoves, DelAt

LEMMA LogsOutStay ==
  ASSUME SessInv, [Next]_vars, NEW t \in Requests, token[t] # "none",
         NEW f, f = Fam(t), LogsOut(f)
  PROVE  LogsOut(f)' \/ token'[t] # "live" \/ f \in delisted'
<1>1. PICK r \in Requests :
        req[r].kind = "logout" /\ Fam(r) = f /\ req[r].pc \in {"loagain", "revoke"}
  BY DEF LogsOut
<1>2. CASE req'[r].pc = req[r].pc
  <2>1. req'[r].kind = "logout" /\ req'[r].fam = f
    BY <1>1, KeptAlways DEF Kept, At, Fam
  <2> QED BY <1>1, <1>2, <2>1 DEF LogsOut, Fam
<1>3. CASE SessServer(r)
  <2>1. FindAgain(r) \/ RevokeFamily(r) \/ Fail(r)
    BY <1>1, <1>3 DEF SessServer, Check, Reuse, FindUser, Rotate, Create, FindRow, WriteRow,
       FindLogout, LogoutRows, FindTarget, Delist, DelistOthers, Answer, Refuse, At
  <2>2. CASE FindAgain(r)
    <3>1. CASE token[req[r].tok] = "none"
      BY <1>1, <2>2, <3>1 DEF FindAgain
    <3>2. CASE token[req[r].tok] # "none"
      <4>1. Moves(r, "revoke")
        BY <2>2, <3>2, GoesMoves DEF FindAgain, At, InFlight
      <4> QED BY <1>1, <4>1 DEF LogsOut, Moves, Fam
    <3> QED BY <3>1, <3>2
  <2>3. CASE RevokeFamily(r)
    <3>1. t \in TokensOf(Fam(r))
      BY <1>1 DEF TokensOf
    <3> QED BY <2>3, <3>1 DEF RevokeFamily, Revoked
  <2>4. CASE Fail(r)
    BY <1>1, <2>4 DEF Fail
  <2> QED BY <2>1, <2>2, <2>3, <2>4
<1>4. ASSUME NEW q \in Requests, SessServer(q), q # r PROVE req'[r].pc = req[r].pc
  BY <1>4, ServerMoves DEF Moves
<1>5. ASSUME NEW q \in Requests, NEW c \in Clients, SessStart(q, c)
      PROVE  req'[r].pc = req[r].pc
  <2>1. PICK k, p, s : Starts(q, c, k, p, s)
    BY <1>5, StartForms DEF SessStart
  <2>2. At(q, "idle") /\ \A i \in Requests : i # q => req'[i] = req[i]
    <3>1. \A i \in Requests : i # q => req'[i] = req[i]
      BY <2>1, KeepsBegin DEF Starts
    <3>2. Begins(q, c, k, p, s)
      BY <2>1 DEF Starts
    <3> QED BY <3>1, <3>2 DEF Begins
  <2> QED BY <1>1, <2>2 DEF At
<1>6. ASSUME UNCHANGED req PROVE req'[r].pc = req[r].pc
  BY <1>6
<1>7. ASSUME NEW q \in Requests, Expire(q) \/ Sweep(q) PROVE UNCHANGED req
  BY <1>7 DEF Expire, Sweep
<1>8. ASSUME NEW c \in Clients, AppLogout(c) PROVE UNCHANGED req
  BY <1>8 DEF AppLogout
<1>9. ASSUME NEW x \in Deletions,
             \/ PurgeSessions(x) \/ PurgeTokens(x) \/ DropLogins(x) \/ DropUser(x)
             \/ FailDeletion(x)
      PROVE  UNCHANGED req
  BY <1>9 DEF PurgeSessions, PurgeTokens, DropLogins, DropUser, FailDeletion
<1>10. UNCHANGED sessVars => UNCHANGED req
  BY DEF sessVars
<1> QED BY <1>2, <1>3, <1>4, <1>5, <1>6, <1>7, <1>8, <1>9, <1>10, SessionSteps DEF SessRuns

\* Whoever removes the last row is about to remove the tokens, or is recorded.
LEMMA RowsStay ==
  ASSUME SessInv, DelTypeOK, [Next]_vars, NEW t \in Requests, token[t] # "none",
         NEW f, f = Fam(t), RowsOf(f) # {}
  PROVE  RowsOf(f)' # {} \/ LogsOut(f)' \/ Purges(f)' \/ f \in delisted'
<1>1. PICK x \in rows : Fam(x) = f
  BY DEF RowsOf
<1>2. x \in Requests /\ ~At(x, "idle")
  BY DEF SessInv, SessTypeOK, Stored
<1>3. CASE x \in rows'
  <2>1. req'[x].fam = f
    BY <1>1, <1>2, KeptAlways DEF Kept, Fam
  <2> QED BY <1>3, <2>1 DEF RowsOf, Fam
<1>4. CASE x \notin rows'
  <2>1. ASSUME NEW r \in Requests, SessServer(r) PROVE LogsOut(f)' \/ f \in delisted'
    <3>1. LogoutRows(r) \/ Delist(r) \/ DelistOthers(r)
      BY <1>4, <2>1 DEF SessServer, Check, Reuse, FindUser, Rotate, Create, FindRow, WriteRow,
         RevokeFamily, FindLogout, FindAgain, FindTarget, Answer, Refuse, Fail, Step, store
    <3>2. CASE LogoutRows(r)
      <4>1. Fam(r) = f
        BY <1>1, <1>4, <3>2 DEF LogoutRows, RowsOf
      <4>2. Moves(r, "loagain")
        BY <3>2, GoesMoves DEF LogoutRows, Step, At, InFlight
      <4>3. req[r].kind = "logout"
        BY <3>2, HandlerFacts DEF LogoutRows, At, Shape, Fit
      <4> QED BY <4>1, <4>2, <4>3 DEF LogsOut, Moves, Fam
    <3>3. CASE Delist(r) \/ DelistOthers(r)
      BY <1>1, <1>4, <3>3 DEF Delist, DelistOthers, Delists
    <3> QED BY <3>1, <3>2, <3>3
  <2>2. ASSUME NEW d \in Deletions, PurgeSessions(d) PROVE Purges(f)'
    <3>1. Owner(f) = deletion[d].target /\ UNCHANGED req
      BY <1>1, <1>4, <2>2 DEF PurgeSessions, RowsOfUser
    <3>2. deletion'[d].pc = "tokens" /\ deletion'[d].target = deletion[d].target
      BY <2>2, DelSteps DEF PurgeSessions
    <3> QED BY <3>1, <3>2 DEF Purges, DelAt, Owner, ClientOf
  <2>3. ASSUME NEW r \in Requests, NEW c \in Clients, SessStart(r, c) PROVE rows' = rows
    <3>1. \E k, p, s : Begins(r, c, k, p, s)
      BY <2>3 DEF SessStart, StartLogin, StartRefresh, StartLogout, StartDelist
    <3> QED BY <3>1 DEF Begins, store
  <2>4. ASSUME NEW q \in Requests, Expire(q) \/ Sweep(q) PROVE rows' = rows
    BY <2>4 DEF Expire, Sweep
  <2>5. ASSUME NEW c \in Clients, AppLogout(c) PROVE rows' = rows
    BY <2>5 DEF AppLogout, store
  <2>6. ASSUME NEW d \in Deletions,
               PurgeTokens(d) \/ DropLogins(d) \/ DropUser(d) \/ FailDeletion(d)
        PROVE  rows' = rows
    BY <2>6 DEF PurgeTokens, DropLogins, DropUser, FailDeletion, store
  <2>7. UNCHANGED sessVars => rows' = rows
    BY DEF sessVars, store
  <2> QED BY <1>4, <2>1, <2>2, <2>3, <2>4, <2>5, <2>6, <2>7, SessionSteps DEF SessRuns
<1> QED BY <1>3, <1>4

LEMMA VisibleStays ==
  ASSUME SessInv, DelTypeOK, [Next]_vars, NEW t \in Requests, token[t] # "none",
         Visible(Fam(t))
  PROVE  token'[t] # "live" \/ Visible(Fam(t))'
<1>1. PICK f : f = Fam(t)
  OBVIOUS
<1>2. Fam(t)' = f
  BY <1>1, KeptAlways DEF Kept, Fam, SessInv, Stored, At
<1>3. token'[t] # "live" \/ Visible(f)'
  BY <1>1, HistoryGrows, PurgesStay, LogsOutStay, RowsStay DEF Visible
<1> QED BY <1>2, <1>3 DEF Visible, RowsOf, LogsOut, Purges

\* A token is owed a row only from the step that finds or writes one.
LEMMA OwedServer ==
  ASSUME SessInv, NEW r \in Requests, SessServer(r), NEW t \in Requests, Owed(t)'
  PROVE  Owed(t) \/ Visible(Fam(t))'
<1>1. PICK p : Moves(r, p)
  BY ServerMoves
<1>2. CASE Create(r)
  <2>1. req'[r].pc = "findrow" /\ UNCHANGED client
        /\ \A q \in Requests : q # r => token'[q] = token[q]
    <3>1. Moves(r, "findrow")
      BY <1>2, GoesMoves DEF Create, Step, At, InFlight
    <3> QED BY <1>2, <3>1 DEF Create, Step, Moves, SessInv, SessTypeOK
  <2>2. t = r => FALSE
    <3>1. \A c \in Clients : held[c] # r
      BY <1>2 DEF Create, At, SessInv, SessTypeOK, Stored, Requests, None
    <3> QED BY <2>1, <3>1 DEF Owed, At, client
  <2> QED BY <1>1, <2>1, <2>2 DEF Owed, Moves, At, client
<1>3. CASE FindRow(r)
  <2>1. PICK x \in IF RowsOf(Fam(r)) = {} THEN {None} ELSE RowsOf(Fam(r)) :
          Becomes(r, [req[r] EXCEPT !.pc = "writerow", !.row = x])
    BY <1>3 DEF FindRow
  <2>2. /\ Moves(r, "writerow") /\ req'[r].row = x /\ UNCHANGED <<token, rows, client>>
        /\ InFlight(r) /\ At(r, "findrow")
    BY <1>3, <2>1, RowMoves DEF FindRow, At, InFlight, store
  <2>3. CASE t = r /\ x # None
    <3>1. x \in rows /\ Fam(x) = Fam(r) /\ x \in Requests /\ ~At(x, "idle")
      BY <2>1, <2>3 DEF RowsOf, SessInv, SessTypeOK, Stored
    <3>2. req'[x].fam = req'[r].fam
      BY <2>2, <3>1 DEF Moves, Fam
    <3> QED BY <2>2, <2>3, <3>1, <3>2 DEF Visible, RowsOf, Fam
  <2>4. CASE t # r \/ x = None
    BY <2>2, <2>4 DEF Owed, Moves, At, client
  <2> QED BY <2>3, <2>4
<1>4. CASE WriteRow(r)
  <2>1. /\ Moves(r, "answer") /\ UNCHANGED <<token, client>> /\ At(r, "writerow")
        /\ rows' = IF req[r].row = None THEN rows \union {r} ELSE rows
    BY <1>4, GoesMoves DEF WriteRow, Step, At, InFlight
  <2>2. CASE t = r /\ req[r].row = None
    BY <2>1, <2>2 DEF Visible, RowsOf, Fam
  <2>3. CASE t # r \/ req[r].row # None
    BY <2>1, <2>3 DEF Owed, Moves, At, client
  <2> QED BY <2>2, <2>3
<1>5. CASE Answer(r)
  <2>1. Moves(r, "done") /\ At(r, "answer") /\ InFlight(r) /\ UNCHANGED token
    BY <1>5, GoesMoves DEF Answer, At, InFlight, store
  <2>2. ASSUME NEW c \in Clients, held'[c] = t
        PROVE  held[c] = t \/ (t = r /\ req[r].kind \in Makers)
    <3>1. ClientOf(r) \in Clients
      BY <2>1, HandlerFacts DEF InFlight
    <3> QED BY <1>5, <2>2, <3>1 DEF Answer, Leaves, Stays, client, SessInv, SessTypeOK,
                                    Makers, Requests, None
  <2> QED BY <2>1, <2>2 DEF Owed, Moves, At
<1>6. CASE ~(Create(r) \/ FindRow(r) \/ WriteRow(r) \/ Answer(r))
  <2>1. /\ \A q \in Requests : token'[q] = "live" => token[q] = "live"
        /\ \A c \in Clients : held'[c] = t => held[c] = t
    <3>1. ASSUME Refuse(r) \/ Fail(r) PROVE token' = token /\ Forgets(ClientOf(r))
      <4>1. InFlight(r)
        BY <3>1 DEF Refuse, Fail, At, InFlight
      <4> QED BY <3>1, <4>1, EndForgets DEF Refuse, Fail, store
    <3>2. CASE Refuse(r) \/ Fail(r)
      BY <3>1, <3>2 DEF Forgets, Requests, None, client
    <3>3. CASE ~(Refuse(r) \/ Fail(r))
      BY <1>6, <3>3 DEF SessServer, Check, Reuse, FindUser, Rotate, RevokeFamily, FindLogout,
         LogoutRows, FindAgain, FindTarget, Delist, DelistOthers, Delists, Revoked, Step,
         store, client
    <3> QED BY <3>2, <3>3
  <2>2. req[r].kind \in Makers => p \notin {"answer", "writerow"}
    <3>1. CASE FindTarget(r)
      BY <3>1, HandlerFacts DEF FindTarget, At, Shape, Fit, Makers
    <3>2. CASE ~FindTarget(r)
      <4>1. ASSUME NEW s, Goes(r, s) PROVE p = s
        BY <1>1, <4>1, GoesMoves DEF Moves
      <4>2. req[r].kind \in Makers =>
              ~(At(r, "loagain") \/ At(r, "delist") \/ At(r, "others"))
              /\ req[r].kind # "logout"
        BY HandlerFacts DEF Shape, Fit, At, Makers
      <4> QED BY <1>6, <3>2, <4>1, <4>2 DEF SessServer, Check, Reuse, FindUser, Rotate,
             RevokeFamily, FindLogout, LogoutRows, FindAgain, Delist, DelistOthers, Delists,
             Refuse, Fail, Step
    <3> QED BY <3>1, <3>2
  <2> QED BY <1>1, <2>1, <2>2 DEF Owed, Moves, At
<1> QED BY <1>2, <1>3, <1>4, <1>5, <1>6

LEMMA OwedQuiet ==
  ASSUME UNCHANGED req, NEW t \in Requests, Owed(t)',
         token'[t] = "live" => token[t] = "live",
         \A c \in Clients : held'[c] \in {held[c], None}
  PROVE  Owed(t)
BY DEF Owed, At, Requests, None

LEMMA OwedSteps ==
  ASSUME SessInv, [Next]_vars, NEW t \in Requests, Owed(t)'
  PROVE  Owed(t) \/ Visible(Fam(t))'
<1>1. ASSUME NEW r \in Requests, NEW c \in Clients, SessStart(r, c) PROVE Owed(t)
  <2>1. PICK k, p, s : Starts(r, c, k, p, s)
    BY <1>1, StartForms DEF SessStart
  <2>2. \A q \in Requests : q # r => req'[q] = req[q]
    BY <2>1, KeepsBegin DEF Starts
  <2>3. Begins(r, c, k, p, s)
    BY <2>1 DEF Starts
  <2>4. At(r, "idle") /\ UNCHANGED <<token, held>>
    BY <2>3 DEF Begins, store, client
  <2>5. t # r
    BY <2>4 DEF Owed, SessInv, Stored, At
  <2> QED BY <2>2, <2>4, <2>5 DEF Owed, At
<1>2. ASSUME NEW r \in Requests, Expire(r) \/ Sweep(r) PROVE Owed(t)
  BY <1>2, OwedQuiet DEF Expire, Sweep, client
<1>3. ASSUME NEW c \in Clients, AppLogout(c) PROVE Owed(t)
  <2>1. Forgets(c)
    BY <1>3, LeavesForgets DEF AppLogout
  <2>2. \A d \in Clients : held'[d] \in {held[d], None}
    BY <2>1 DEF Forgets, client
  <2> QED BY <1>3, <2>2, OwedQuiet DEF AppLogout, store
<1>4. ASSUME NEW x \in Deletions,
             \/ PurgeSessions(x) \/ PurgeTokens(x) \/ DropLogins(x) \/ DropUser(x)
             \/ FailDeletion(x)
      PROVE  Owed(t)
  <2>1. UNCHANGED <<req, client>> /\ (token'[t] = "live" => token[t] = "live")
    BY <1>4 DEF PurgeSessions, PurgeTokens, DropLogins, DropUser, FailDeletion, store
  <2> QED BY <2>1, OwedQuiet DEF client
<1>5. UNCHANGED sessVars => Owed(t)
  <2> SUFFICES ASSUME UNCHANGED sessVars PROVE Owed(t)
    OBVIOUS
  <2>1. UNCHANGED <<req, token, held>>
    BY DEF sessVars, store, client
  <2> QED BY <2>1, OwedQuiet
<1> QED BY <1>1, <1>2, <1>3, <1>4, <1>5, OwedServer, SessionSteps DEF SessRuns

LEMMA ListedNext ==
  ASSUME SessInv, DelTypeOK, Listed, [Next]_vars
  PROVE  Listed'
<1> SUFFICES ASSUME NEW t \in Requests, Owed(t)' PROVE Visible(Fam(t))'
  BY DEF Listed
<1>1. CASE Owed(t)
  <2>1. Visible(Fam(t)) /\ token[t] # "none"
    BY <1>1 DEF Listed, Owed
  <2>2. token'[t] = "live"
    BY DEF Owed
  <2> QED BY <2>1, <2>2, VisibleStays
<1> QED BY <1>1, OwedSteps

\* What a client holds is listed, whatever requests, deletions and failures run
\* beside each other.
THEOREM HeldSessionsAreListed == Spec => []HeldSessionIsListed
<1>1. Init => Listed
  BY DEF Init, SessInit, Listed, Owed
<1>2. Listed /\ SessInv /\ DelTypeOK /\ [Next]_vars => Listed'
  BY ListedNext
<1>3. Spec => []Listed
  BY <1>1, <1>2, SessInvAlways, DelTypeAlways, PTL DEF Spec
<1>4. Listed /\ SessInv => HeldSessionIsListed
  BY DEF Listed, Owed, Visible, HeldSessionIsListed, Live, SessInv, SessTypeOK
<1> QED BY <1>3, <1>4, SessInvAlways, PTL

-----------------------------------------------------------------------------
(* Rotation costs no client its session. *)

Storing == {"findrow", "writerow", "answer"}

\* The stored token is live, but for the refresh that is replacing it.
Fresh(c) ==
  /\ \A r, q \in Refreshing(c) : r = q
  /\ \A r \in Refreshing(c) :
       /\ req[r].tok = held[c] /\ req[r].pc \notin {"reuse", "revoke", "refuse"}
       /\ req[r].pc \in {"check", "user", "rotate"} => Live(held[c])
       /\ req[r].pc \in Storing => Live(r)
  /\ Refreshing(c) = {} => Live(held[c])

\* A client either signs in, once, or sends requests of its one session.
ClientInv(c) ==
  /\ held[c] = None <=> session[c] = None
  /\ held[c] # None => Fam(held[c]) = session[c]
  /\ \A r \in Sent(c) : /\ req[r].kind = "login" <=> session[c] = None
                        /\ req[r].kind # "login" => Fam(r) = session[c]
  /\ \A r, q \in Sent(c) : req[r].kind = "login" /\ req[q].kind = "login" => r = q
  /\ \A r \in Sent(c) :
       req[r].kind = "login" /\ r \notin excused /\ req[r].pc \in Storing => Live(r)
  /\ session[c] # None /\ session[c] \notin excused => Fresh(c)

\* Families whose user is gone: one that got or may get a token is excused.
Begun(f) ==
  \/ req[f].pc \in {"create"} \union Storing
  \/ \E c \in Clients : held[c] # None /\ Fam(held[c]) = f
  \/ \E r \in Requests : r # f /\ ~At(r, "idle") /\ Fam(r) = f

Reasons ==
  /\ expired \subseteq excused
  /\ \A r \in Requests : req[r].kind = "logout" => Fam(r) \in excused
  /\ \A f \in Requests :
       req[f].kind = "login" /\ Begun(f) /\ UserOf[ClientOf(f)] \notin users => f \in excused

Survival == Reasons /\ \A c \in Clients : c \notin straggled => ClientInv(c)

\* The live tokens of c's families stay live unless there is a reason.
LiveKept(c) ==
  \A t \in Requests : Live(t) /\ ClientOf(t) = c /\ Fam(t) \notin excused' => Live(t)'

LEMMA ClientHolds ==
  ASSUME SessInv, NEW c \in Clients
  PROVE  /\ held[c] # None => /\ held[c] \in Requests /\ ~At(held[c], "idle")
                              /\ ClientOf(held[c]) = c /\ At(held[c], "done")
         /\ session[c] # None => session[c] \in Requests
         /\ \A r \in Sent(c) : r \in Requests /\ InFlight(r) /\ ClientOf(r) = c /\ r # None
BY DEF SessInv, SessTypeOK, Stored, At, Sent, Requests, None

\* A step that concerns no request of c.
LEMMA ClientKept ==
  ASSUME SessInv, NEW c \in Clients, ClientInv(c), Sent(c)' = Sent(c),
         \A q \in Sent(c) : req'[q] = req[q],
         \A q \in Requests : Kept(q),
         held'[c] = held[c], session'[c] = session[c],
         excused \subseteq excused', LiveKept(c)
  PROVE  ClientInv(c)'
<1>1. held[c] # None => Fam(held[c])' = Fam(held[c])'
  OBVIOUS
<1>2. held[c] # None => req'[held[c]].fam = Fam(held[c])
  BY ClientHolds DEF Kept, Fam
<1>3. Refreshing(c)' = Refreshing(c)
  BY DEF Refreshing
<1>4. \A t \in Requests : ClientOf(t) = c /\ Fam(t) \notin excused' /\ Live(t) => Live(t)'
  BY DEF LiveKept
<1>5. \A r \in Sent(c) : req[r].kind = "login" => Fam(r) = r
  BY HandlerFacts, ClientHolds DEF Shape, Fam
<1>6. \A r \in Sent(c) :
        req'[r].kind = "login" /\ r \notin excused' /\ req'[r].pc \in Storing => Live(r)'
  BY <1>4, <1>5, ClientHolds DEF ClientInv
<1>7. session[c] # None /\ session[c] \notin excused' => Fresh(c)'
  <2> SUFFICES ASSUME session[c] # None, session[c] \notin excused' PROVE Fresh(c)'
    OBVIOUS
  <2>1. PICK h : h = held[c]
    OBVIOUS
  <2>2. h \in Requests /\ ClientOf(h) = c /\ Fam(h) = session[c] /\ Fresh(c)
    BY <2>1, ClientHolds DEF ClientInv
  <2>3. Live(h) => Live(h)'
    BY <1>4, <2>2
  <2>4. \A r \in Refreshing(c) : Live(r) => Live(r)'
    <3>1. \A r \in Refreshing(c) : r \in Requests /\ ClientOf(r) = c /\ Fam(r) = session[c]
      BY ClientHolds DEF Refreshing, ClientInv
    <3> QED BY <1>4, <3>1
  <2>5. \A r \in Refreshing(c) : req'[r] = req[r]
    BY DEF Refreshing
  <2> HIDE DEF Fresh
  <2>6. Live(held[c])' <=> Live(h)'
    BY <2>1 DEF Live, Fam
  <2> QED BY <1>3, <2>1, <2>2, <2>3, <2>4, <2>5, <2>6 DEF Fresh
<1> QED BY <1>2, <1>6, <1>7 DEF ClientInv, Fam

\* A request of c goes on.
LEMMA ClientGoesOn ==
  ASSUME SessInv, NEW c \in Clients, ClientInv(c), NEW r \in Sent(c), NEW p, Moves(r, p),
         p \notin {"idle", "done"},
         held'[c] = held[c], session'[c] = session[c], excused \subseteq excused',
         req[r].kind = "login" /\ r \notin excused' /\ p \in Storing => Live(r)',
         req[r].kind = "refresh" /\ session[c] \notin excused' =>
           /\ p \notin {"reuse", "revoke", "refuse"}
           /\ p \in {"check", "user", "rotate"} => \A h \in Requests : h = held[c] => Live(h)'
           /\ p \in Storing => Live(r)',
         req[r].kind # "refresh" => LiveKept(c)
  PROVE  ClientInv(c)'
<1>1. r \in Requests /\ InFlight(r) /\ ClientOf(r) = c
  BY ClientHolds
<1>2. Sent(c)' = Sent(c)
  BY <1>1 DEF Sent, InFlight, At, ClientOf, Moves
<1>3. \A q \in Sent(c) : /\ req'[q].kind = req[q].kind /\ req'[q].tok = req[q].tok
                         /\ req'[q].fam = req[q].fam /\ q \in Requests
                         /\ q # r => req'[q] = req[q]
  BY ClientHolds DEF Moves
<1>4. Refreshing(c)' = Refreshing(c)
  BY <1>2, <1>3 DEF Refreshing
<1>5. \A q \in Requests : req'[q].fam = Fam(q) /\ req'[q].client = ClientOf(q)
  BY DEF Moves, Fam, ClientOf
<1>6. \A q \in Sent(c) :
        req'[q].kind = "login" /\ q \notin excused' /\ req'[q].pc \in Storing => Live(q)'
  <2> SUFFICES ASSUME NEW q \in Sent(c), req'[q].kind = "login", q \notin excused',
                      req'[q].pc \in Storing
               PROVE  Live(q)'
    OBVIOUS
  <2>1. CASE q = r
    BY <1>3, <2>1 DEF Moves
  <2>2. CASE q # r
    <3>1. req[r].kind # "login" => FALSE
      BY <1>3 DEF ClientInv
    <3>2. req[r].kind = "login" => FALSE
      BY <1>3, <2>2 DEF ClientInv
    <3> QED BY <3>1, <3>2
  <2> QED BY <2>1, <2>2
<1>7. session[c] # None /\ session[c] \notin excused' => Fresh(c)'
  <2> SUFFICES ASSUME session[c] # None, session[c] \notin excused' PROVE Fresh(c)'
    OBVIOUS
  <2>1. PICK h : h = held[c]
    OBVIOUS
  <2>2. h \in Requests /\ ClientOf(h) = c /\ Fam(h) = session[c] /\ Fresh(c)
    BY <2>1, ClientHolds DEF ClientInv
  <2>3. Live(held[c])' <=> Live(h)'
    BY <2>1 DEF Live, Fam
  <2>4. CASE req[r].kind = "refresh"
    <3>1. r \in Refreshing(c) /\ \A q \in Refreshing(c) : q = r
      BY <2>2, <2>4 DEF Refreshing, Fresh
    <3>2. /\ p \notin {"reuse", "revoke", "refuse"}
          /\ p \in {"check", "user", "rotate"} => Live(h)'
          /\ p \in Storing => Live(r)'
      BY <2>1, <2>2, <2>4
    <3>3. req'[r].tok = held'[c] /\ req'[r].pc = p
      BY <2>2, <3>1 DEF Fresh, Moves
    <3> QED BY <1>4, <2>3, <3>1, <3>2, <3>3 DEF Fresh
  <2>5. CASE req[r].kind # "refresh"
    <3>1. \A t \in Requests : ClientOf(t) = c /\ Fam(t) \notin excused' /\ Live(t) => Live(t)'
      BY <2>5 DEF LiveKept
    <3>2. Live(h) => Live(h)'
      BY <2>2, <3>1
    <3>3. \A q \in Refreshing(c) : req'[q] = req[q] /\ (Live(q) => Live(q)')
      <4>1. \A q \in Refreshing(c) : /\ q \in Requests /\ ClientOf(q) = c
                                     /\ Fam(q) = session[c] /\ q # r
        BY <2>5, ClientHolds DEF Refreshing, ClientInv
      <4> QED BY <3>1, <4>1 DEF Moves
    <3> QED BY <1>4, <2>1, <2>2, <2>3, <3>2, <3>3 DEF Fresh
  <2> QED BY <2>4, <2>5
<1> QED BY <1>2, <1>3, <1>5, <1>6, <1>7, ClientHolds DEF ClientInv, Fam

-----------------------------------------------------------------------------
(* Reasons to end are kept. *)

LEMMA ReasonsGrow ==
  ASSUME SessInv, [Next]_vars
  PROVE  /\ excused \subseteq excused' /\ straggled \subseteq straggled'
         /\ expired' \subseteq expired \union excused'
         /\ users' \subseteq users
         /\ \A u \in users \ users' : FamiliesOf({u}) \subseteq excused'
<1> DEFINE G == /\ excused \subseteq excused' /\ straggled \subseteq straggled'
                /\ expired' \subseteq expired \union excused'
                /\ users' \subseteq users
                /\ \A u \in users \ users' : FamiliesOf({u}) \subseteq excused'
<1>1. ASSUME NEW c \in Clients, NEW r, Leaves(c, r) \/ Stays
      PROVE  straggled \subseteq straggled'
  BY <1>1 DEF Leaves, Stays
<1>2. ASSUME NEW r \in Requests, SessServer(r) PROVE G
  <2>1. CASE Answer(r) \/ Refuse(r) \/ Fail(r)
    <3>1. ClientOf(r) \in Clients
      BY <2>1, HandlerFacts DEF Answer, Refuse, Fail, InFlight, At
    <3>2. straggled \subseteq straggled'
      BY <1>1, <2>1, <3>1 DEF Answer, Refuse, Fail, Refused, Unanswered, Leaves, Stays
    <3>3. excused \subseteq excused' /\ UNCHANGED store
      BY <2>1 DEF Answer, Refuse, Fail
    <3> QED BY <3>2, <3>3 DEF store
  <2>2. CASE ~(Answer(r) \/ Refuse(r) \/ Fail(r))
    <3>1. UNCHANGED <<users, expired, excused, straggled>>
      BY <1>2, <2>2 DEF SessServer, Check, Reuse, FindUser, Rotate, Create, FindRow, WriteRow,
         RevokeFamily, FindLogout, LogoutRows, FindAgain, FindTarget, Delist, DelistOthers,
         Delists, Step, store, sessHistory
    <3> QED BY <3>1
  <2> QED BY <2>1, <2>2
<1>3. ASSUME NEW r \in Requests, NEW c \in Clients, SessStart(r, c) PROVE G
  <2>1. \E k, p, t : Begins(r, c, k, p, t)
    BY <1>3 DEF SessStart, StartLogin, StartRefresh, StartLogout, StartDelist
  <2>2. excused \subseteq excused'
    BY <1>3 DEF SessStart, StartLogin, StartRefresh, StartLogout, StartDelist
  <2> QED BY <2>1, <2>2 DEF Begins, store
<1>4. ASSUME NEW r \in Requests, Expire(r) \/ Sweep(r) PROVE G
  BY <1>4 DEF Expire, Sweep, sessHistory
<1>5. ASSUME NEW c \in Clients, AppLogout(c) PROVE G
  BY <1>1, <1>5 DEF AppLogout, store
<1>6. ASSUME NEW x \in Deletions,
             \/ PurgeSessions(x) \/ PurgeTokens(x) \/ DropLogins(x) \/ DropUser(x)
             \/ FailDeletion(x)
      PROVE  G
  BY <1>6 DEF PurgeSessions, PurgeTokens, DropLogins, DropUser, DropsUser, FailDeletion,
     sessHistory, store
<1>7. UNCHANGED sessVars => G
  BY DEF sessVars, store, sessHistory
<1> QED BY <1>2, <1>3, <1>4, <1>5, <1>6, <1>7, SessionSteps DEF SessRuns

\* Which step of a handler it is.
LEMMA ServerAt ==
  ASSUME SessInv, NEW r \in Requests, SessServer(r)
  PROVE  Fail(r)
         \/ /\ At(r, "check") => Check(r)
            /\ At(r, "reuse") => Reuse(r)
            /\ At(r, "user") => FindUser(r)
            /\ At(r, "rotate") => Rotate(r)
            /\ At(r, "create") => Create(r)
            /\ At(r, "findrow") => FindRow(r)
            /\ At(r, "writerow") => WriteRow(r)
            /\ At(r, "revoke") => RevokeFamily(r)
            /\ At(r, "answer") => Answer(r)
            /\ At(r, "refuse") => Refuse(r)
BY DEF SessServer, Check, Reuse, FindUser, Rotate, Create, FindRow, WriteRow, RevokeFamily,
       FindLogout, LogoutRows, FindAgain, FindTarget, Delist, DelistOthers, Answer, Refuse, At

\* Only an answer gives a client a token or a session.
LEMMA HeldMoves ==
  ASSUME SessInv, NEW r \in Requests, SessServer(r), NEW c \in Clients
  PROVE  /\ held'[c] \in {held[c], None} \/ (held'[c] = r /\ At(r, "answer"))
         /\ ClientOf(r) # c => held'[c] = held[c] /\ session'[c] = session[c]
<1>1. InFlight(r) /\ ClientOf(r) \in Clients
  BY ServerMoves, HandlerFacts DEF InFlight
<1>2. CASE Refuse(r) \/ Fail(r)
  <2>1. Forgets(ClientOf(r))
    BY <1>1, <1>2, EndForgets DEF Refuse, Fail
  <2> QED BY <2>1 DEF Forgets, client
<1>3. CASE Answer(r)
  <2>1. Leaves(ClientOf(r), r) \/ Stays => Forgets(ClientOf(r))
    BY <1>1, LeavesForgets
  <2>2. CASE req[r].kind \in Makers
    BY <1>1, <1>3, <2>2 DEF Answer, Makers, SessInv, SessTypeOK
  <2>3. CASE req[r].kind \notin Makers
    BY <1>3, <2>1, <2>3 DEF Answer, Makers, Forgets, client
  <2> QED BY <2>2, <2>3
<1>4. CASE ~(Refuse(r) \/ Fail(r) \/ Answer(r))
  <2>1. UNCHANGED client
    BY <1>4 DEF SessServer, Check, Reuse, FindUser, Rotate, Create, FindRow, WriteRow,
       RevokeFamily, FindLogout, LogoutRows, FindAgain, FindTarget, Delist, DelistOthers,
       Delists, Step
  <2> QED BY <2>1 DEF client
<1> QED BY <1>2, <1>3, <1>4

\* A family gets its first token when its user is there.
LEMMA BegunServer ==
  ASSUME SessInv, NEW f \in Requests, req[f].kind = "login", NEW r \in Requests,
         SessServer(r), Begun(f)'
  PROVE  Begun(f) \/ UserOf[ClientOf(f)] \in users
<1>1. PICK p : Moves(r, p)
  BY ServerMoves
<1>2. InFlight(r) /\ ~At(r, "idle")
  BY ServerMoves DEF InFlight
<1>3. ASSUME req'[f].pc \in {"create"} \union Storing
      PROVE  Begun(f) \/ UserOf[ClientOf(f)] \in users
  <2>1. CASE r # f
    BY <1>1, <1>3, <2>1 DEF Moves, Begun
  <2>2. CASE r = f
    <3>1. /\ req[f].pc \notin {"check", "reuse", "rotate", "revoke", "lofind", "lorows",
                               "loagain", "target", "delist", "others"}
          /\ req[f].kind # "logout"
      BY HandlerFacts DEF Shape, Fit
    <3>2. req[f] \in Handler /\ InFlight(f)
      BY <1>2, <2>2, HandlerFacts
    <3>3. req[f].pc \in {"user", "create", "findrow", "writerow", "answer", "refuse"}
      BY <3>1, <3>2 DEF Handler, InFlight, At
    <3>4. ASSUME NEW s, Goes(f, s) PROVE s \in {"create"} \union Storing
      BY <1>3, <3>2, <3>4, GoesMoves DEF Moves
    <3>5. CASE req[f].pc = "user"
      <4>1. FindUser(f) \/ Fail(f)
        BY <1>2, <2>2, <3>5, ServerAt DEF At
      <4>2. Fail(f) => FALSE
        BY <3>4 DEF Fail, Storing
      <4>3. UserOf[ClientOf(f)] \in users
        BY <3>4, <4>1, <4>2 DEF FindUser, Step, Storing
      <4> QED BY <4>3
    <3>6. CASE req[f].pc = "refuse"
      <4>1. Refuse(f) \/ Fail(f)
        BY <1>2, <2>2, <3>6, ServerAt DEF At
      <4> QED BY <3>4, <4>1 DEF Refuse, Fail, Storing
    <3> QED BY <3>3, <3>5, <3>6 DEF Begun, Storing
  <2> QED BY <2>1, <2>2
<1>4. ASSUME NEW c \in Clients, held'[c] # None, req'[held'[c]].fam = f
      PROVE  Begun(f)
  <2>1. CASE held'[c] = held[c]
    <3>1. held[c] \in Requests
      BY <1>4, <2>1 DEF SessInv, SessTypeOK
    <3> QED BY <1>1, <1>4, <2>1, <3>1 DEF Moves, Begun, Fam
  <2>2. CASE held'[c] # held[c]
    <3>1. held'[c] = r /\ At(r, "answer")
      BY <1>4, <2>2, HeldMoves
    <3>2. Fam(r) = f
      BY <1>1, <1>4, <3>1 DEF Moves, Fam
    <3> QED BY <1>2, <3>1, <3>2 DEF Begun, At, Storing
  <2> QED BY <2>1, <2>2
<1>5. ASSUME NEW q \in Requests, q # f, req'[q].pc # "idle", req'[q].fam = f
      PROVE  Begun(f)
  <2>1. CASE q = r
    BY <1>1, <1>2, <1>5, <2>1 DEF Moves, Begun, Fam
  <2>2. CASE q # r
    BY <1>1, <1>5, <2>2 DEF Moves, Begun, Fam, At
  <2> QED BY <2>1, <2>2
<1> QED BY <1>3, <1>4, <1>5 DEF Begun, Fam, At

LEMMA BegunStart ==
  ASSUME SessInv, NEW f \in Requests, req'[f].kind = "login", NEW r \in Requests,
         NEW c \in Clients, SessStart(r, c), Begun(f)'
  PROVE  Begun(f) /\ req'[f] = req[f]
<1>1. PICK k, p, t : Starts(r, c, k, p, t)
  BY StartForms DEF SessStart
<1>2. /\ \A q \in Requests : q # r => req'[q] = req[q]
      /\ req'[r] = Sending(r, c, k, p, t) /\ At(r, "idle") /\ UNCHANGED client
      /\ p \notin {"create"} \union Storing
      /\ IF k = "login" THEN t = None ELSE held[c] # None /\ t = held[c]
  <2>1. /\ \A q \in Requests : q # r => req'[q] = req[q]
        /\ req'[r] = Sending(r, c, k, p, t)
    BY <1>1, KeepsBegin DEF Starts
  <2>2. Begins(r, c, k, p, t)
    BY <1>1 DEF Starts
  <2>3. At(r, "idle") /\ UNCHANGED client
    BY <2>2 DEF Begins
  <2> QED BY <1>1, <2>1, <2>3 DEF Starts, Storing
<1>3. req'[r].pc = p /\ req'[r].fam = IF k = "login" THEN r ELSE Fam(t)
  BY <1>2 DEF Sending, NoHandler
<1>4. \A d \in Clients : held[d] # None => held[d] \in Requests /\ held[d] # r
  BY <1>2, ClientHolds
<1>5. \A q \in Requests : ~At(q, "idle") => Fam(q) # r
  <2>1. req[r].kind = "none"
    BY <1>2, HandlerFacts DEF Shape, Fit, At
  <2> QED BY <2>1, HandlerFacts
<1>6. \/ req'[f].pc \in {"create"} \union Storing
      \/ \E d \in Clients : held'[d] # None /\ req'[held'[d]].fam = f
      \/ \E q \in Requests : q # f /\ req'[q].pc # "idle" /\ req'[q].fam = f
  BY DEF Begun, Fam, At
<1>7. CASE req'[f].pc \in {"create"} \union Storing
  BY <1>2, <1>3, <1>7 DEF Begun
<1>8. CASE \E d \in Clients : held'[d] # None /\ req'[held'[d]].fam = f
  <2>1. PICK d \in Clients : held[d] # None /\ req'[held[d]].fam = f
    BY <1>2, <1>8 DEF client
  <2>2. Fam(held[d]) = f /\ ~At(held[d], "idle")
    BY <1>2, <1>4, <2>1, ClientHolds DEF Fam
  <2>3. f # r
    BY <1>4, <1>5, <2>1, <2>2
  <2> QED BY <1>2, <2>1, <2>2, <2>3 DEF Begun
<1>9. CASE \E q \in Requests : q # f /\ req'[q].pc # "idle" /\ req'[q].fam = f
  <2>1. PICK q \in Requests : q # f /\ req'[q].pc # "idle" /\ req'[q].fam = f
    BY <1>9
  <2>2. CASE q = r
    <3>1. k # "login" /\ Fam(held[c]) = f /\ held[c] # None
      BY <1>2, <1>3, <2>1, <2>2
    <3> QED BY <1>2, <2>1, <2>2, <3>1 DEF Begun
  <2>3. CASE q # r
    <3>1. ~At(q, "idle") /\ Fam(q) = f
      BY <1>2, <2>1, <2>3 DEF At, Fam
    <3> QED BY <1>2, <1>5, <2>1, <3>1 DEF Begun
  <2> QED BY <2>2, <2>3
<1> QED BY <1>6, <1>7, <1>8, <1>9

LEMMA BegunNext ==
  ASSUME SessInv, [Next]_vars, NEW f \in Requests, req'[f].kind = "login", Begun(f)'
  PROVE  /\ req[f].kind = "login" /\ req'[f].client = req[f].client
         /\ Begun(f) \/ UserOf[ClientOf(f)] \in users'
<1>1. ASSUME NEW r \in Requests, SessServer(r)
      PROVE  /\ req[f].kind = "login" /\ req'[f].client = req[f].client
             /\ Begun(f) \/ UserOf[ClientOf(f)] \in users'
  <2>1. req[f].kind = "login" /\ req'[f].client = req[f].client
    BY <1>1, ServerMoves DEF Moves
  <2>2. users' = users
    BY <1>1 DEF SessServer, Check, Reuse, FindUser, Rotate, Create, FindRow, WriteRow,
       RevokeFamily, FindLogout, LogoutRows, FindAgain, FindTarget, Delist, DelistOthers,
       Delists, Answer, Refuse, Fail, Step, store
  <2> QED BY <1>1, <2>1, <2>2, BegunServer
<1>2. ASSUME UNCHANGED req, \A c \in Clients : held'[c] \in {held[c], None}
      PROVE  req'[f] = req[f] /\ Begun(f)
  <2>1. \A d \in Clients : held'[d] # None => held'[d] = held[d]
    BY <1>2
  <2> QED BY <1>2, <2>1 DEF Begun, Fam, At
<1>3. ASSUME NEW r \in Requests, Expire(r) \/ Sweep(r) PROVE UNCHANGED <<req, held>>
  BY <1>3 DEF Expire, Sweep, client
<1>4. ASSUME NEW c \in Clients, AppLogout(c)
      PROVE  UNCHANGED req /\ \A d \in Clients : held'[d] \in {held[d], None}
  <2>1. Forgets(c)
    BY <1>4, LeavesForgets DEF AppLogout
  <2> QED BY <1>4, <2>1 DEF AppLogout, Forgets, client
<1>5. ASSUME NEW x \in Deletions,
             \/ PurgeSessions(x) \/ PurgeTokens(x) \/ DropLogins(x) \/ DropUser(x)
             \/ FailDeletion(x)
      PROVE  UNCHANGED <<req, held>>
  BY <1>5 DEF PurgeSessions, PurgeTokens, DropLogins, DropUser, FailDeletion, client
<1>6. UNCHANGED sessVars => UNCHANGED <<req, held>>
  BY DEF sessVars, client
<1> QED BY <1>1, <1>2, <1>3, <1>4, <1>5, <1>6, BegunStart, SessionSteps DEF SessRuns

\* A logout begins with a reason.
LEMMA LogoutExcused ==
  ASSUME SessInv, [Next]_vars, Reasons, NEW r \in Requests, req'[r].kind = "logout"
  PROVE  req'[r].fam \in excused'
<1>1. CASE ~At(r, "idle")
  <2>1. req[r].kind = "logout" /\ req'[r].fam = Fam(r)
    BY <1>1, KeptAlways DEF Kept, Fam
  <2> QED BY <2>1, ReasonsGrow DEF Reasons
<1>2. CASE At(r, "idle")
  <2>1. req[r].kind = "none"
    BY <1>2, HandlerFacts DEF Shape, Fit, At
  <2>2. ASSUME NEW q \in Requests, SessServer(q) PROVE FALSE
    BY <2>1, <2>2, ServerMoves DEF Moves
  <2>3. ASSUME NEW q \in Requests, NEW c \in Clients, SessStart(q, c)
        PROVE  req'[r].fam \in excused'
    <3>1. PICK k, p, t : Starts(q, c, k, p, t)
      BY <2>3, StartForms DEF SessStart
    <3>2. /\ \A i \in Requests : i # q => req'[i] = req[i]
          /\ req'[q] = Sending(q, c, k, p, t)
      BY <3>1, KeepsBegin DEF Starts
    <3>3. q = r /\ k = "logout"
      <4>1. q = r
        BY <2>1, <3>2
      <4>2. Sending(q, c, k, p, t).kind = k
        BY DEF Sending, NoHandler
      <4> QED BY <3>2, <4>1, <4>2
    <3>4. \A l, m, n : Starts(r, c, l, m, n) => req'[r].kind = l
      <4>1. ASSUME NEW l, NEW m, NEW n, Starts(r, c, l, m, n) PROVE req'[r].kind = l
        <5>1. req'[r] = Sending(r, c, l, m, n)
          BY <4>1, KeepsBegin DEF Starts
        <5> QED BY <5>1 DEF Sending, NoHandler
      <4> QED BY <4>1
    <3>5. StartLogout(r, c)
      BY <2>3, <3>3, <3>4, StartForms DEF SessStart
    <3>6. Starts(r, c, "logout", "lofind", held[c])
      BY <3>5, StartForms
    <3>7. req'[r] = Sending(r, c, "logout", "lofind", held[c])
      BY <3>6, KeepsBegin DEF Starts
    <3>8. req'[r].fam = Fam(held[c])
      BY <3>7 DEF Sending, NoHandler
    <3> QED BY <3>5, <3>8 DEF StartLogout
  <2>4. ASSUME UNCHANGED req PROVE FALSE
    BY <2>1, <2>4
  <2>5. ASSUME NEW q \in Requests, Expire(q) \/ Sweep(q) PROVE FALSE
    BY <2>4, <2>5 DEF Expire, Sweep
  <2>6. ASSUME NEW c \in Clients, AppLogout(c) PROVE FALSE
    BY <2>4, <2>6 DEF AppLogout
  <2>7. ASSUME NEW x \in Deletions,
               \/ PurgeSessions(x) \/ PurgeTokens(x) \/ DropLogins(x) \/ DropUser(x)
               \/ FailDeletion(x)
        PROVE  FALSE
    BY <2>4, <2>7 DEF PurgeSessions, PurgeTokens, DropLogins, DropUser, FailDeletion
  <2>8. UNCHANGED sessVars => FALSE
    BY <2>4 DEF sessVars
  <2> QED BY <2>2, <2>3, <2>5, <2>6, <2>7, <2>8, SessionSteps DEF SessRuns
<1> QED BY <1>1, <1>2

LEMMA ReasonsNext ==
  ASSUME SessInv, [Next]_vars, Reasons
  PROVE  Reasons'
<1>1. expired' \subseteq excused'
  BY ReasonsGrow DEF Reasons
<1>2. \A r \in Requests : req'[r].kind = "logout" => req'[r].fam \in excused'
  BY LogoutExcused
<1>3. ASSUME NEW f \in Requests, req'[f].kind = "login", Begun(f)',
             UserOf[req'[f].client] \notin users'
      PROVE  f \in excused'
  <2>1. /\ req[f].kind = "login" /\ UserOf[ClientOf(f)] \notin users' /\ Begun(f)
    BY <1>3, BegunNext DEF ClientOf
  <2>2. CASE UserOf[ClientOf(f)] \notin users
    BY <2>1, <2>2, ReasonsGrow DEF Reasons
  <2>3. CASE UserOf[ClientOf(f)] \in users
    <3>1. f \in FamiliesOf({UserOf[ClientOf(f)]})
      BY <2>1 DEF FamiliesOf
    <3> QED BY <2>1, <2>3, <3>1, ReasonsGrow
  <2> QED BY <2>2, <2>3
<1> QED BY <1>1, <1>2, <1>3 DEF Reasons, Fam, ClientOf

-----------------------------------------------------------------------------
(* The steps that concern no request of a client. *)

LEMMA LiveServer ==
  ASSUME SessInv, NEW c \in Clients, NEW r \in Requests, SessServer(r),
         ClientOf(r) = c => ~Rotate(r) /\ ~RevokeFamily(r)
  PROVE  LiveKept(c)
<1>1. \A t \in Requests : Fam(t)' = Fam(t)
  BY ServerMoves DEF Moves, Fam
<1>2. expired' = expired
  BY DEF SessServer, Check, Reuse, FindUser, Rotate, Create, FindRow, WriteRow,
     RevokeFamily, FindLogout, LogoutRows, FindAgain, FindTarget, Delist, DelistOthers,
     Delists, Answer, Refuse, Fail, Step, store
<1>3. ASSUME NEW t \in Requests, token[t] = "live", ClientOf(t) = c PROVE token'[t] = "live"
  <2>1. CASE Rotate(r) \/ RevokeFamily(r)
    <3>1. ~At(t, "idle") /\ InFlight(r)
      BY <1>3, ServerMoves DEF SessInv, Stored, At
    <3>2. ClientOf(Fam(t)) = c /\ ClientOf(Fam(r)) # c
      BY <1>3, <2>1, <3>1, HandlerFacts DEF InFlight
    <3>3. t \notin TokensOf(Fam(r))
      BY <3>2 DEF TokensOf
    <3> QED BY <1>3, <2>1, <3>3 DEF Rotate, RevokeFamily, Revoked
  <2>2. CASE Create(r)
    BY <1>3, <2>2 DEF Create, SessInv, SessTypeOK
  <2>3. CASE ~(Rotate(r) \/ RevokeFamily(r) \/ Create(r))
    <3>1. UNCHANGED token
      BY <2>3 DEF SessServer, Check, Reuse, FindUser, FindRow, WriteRow, FindLogout,
         LogoutRows, FindAgain, FindTarget, Delist, DelistOthers, Delists, Answer, Refuse,
         Fail, store
    <3> QED BY <1>3, <3>1
  <2> QED BY <2>1, <2>2, <2>3
<1> QED BY <1>1, <1>2, <1>3 DEF LiveKept, Live

LEMMA ClientElsewhere ==
  ASSUME SessInv, [Next]_vars, NEW c \in Clients, ClientInv(c), NEW r \in Requests,
         SessServer(r), ClientOf(r) # c
  PROVE  ClientInv(c)'
<1>1. PICK p : Moves(r, p)
  BY ServerMoves
<1>2. \A q \in Requests : q # r => req'[q] = req[q]
  BY <1>1 DEF Moves
<1>3. ClientOf(r)' # c
  BY <1>1 DEF Moves, ClientOf
<1>4. Sent(c)' = Sent(c)
  BY <1>2, <1>3 DEF Sent, InFlight, At, ClientOf
<1>5. \A q \in Sent(c) : req'[q] = req[q]
  BY <1>2 DEF Sent
<1>6. LiveKept(c) /\ held'[c] = held[c] /\ session'[c] = session[c]
  BY LiveServer, HeldMoves
<1> QED BY <1>4, <1>5, <1>6, KeptAlways, ReasonsGrow, ClientKept

LEMMA ClientQuiet ==
  ASSUME SessInv, [Next]_vars, NEW c \in Clients, ClientInv(c), UNCHANGED req,
         held'[c] = held[c], session'[c] = session[c], LiveKept(c)
  PROVE  ClientInv(c)'
<1>1. Sent(c)' = Sent(c)
  BY DEF Sent, InFlight, At, ClientOf
<1> QED BY <1>1, KeptAlways, ReasonsGrow, ClientKept

\* Expiry, sweeps, deletions and the sign-out of another app.
LEMMA ClientBeside ==
  ASSUME SessInv, [Next]_vars, NEW c \in Clients, ClientInv(c), Reasons,
         \/ UNCHANGED sessVars
         \/ \E r \in Requests : Expire(r) \/ Sweep(r)
         \/ \E d \in Clients : d # c /\ AppLogout(d)
         \/ \E x \in Deletions : \/ PurgeSessions(x) \/ PurgeTokens(x) \/ DropLogins(x)
                                 \/ DropUser(x) \/ FailDeletion(x)
  PROVE  ClientInv(c)'
<1> DEFINE G == /\ UNCHANGED req /\ held'[c] = held[c] /\ session'[c] = session[c]
                /\ \A t \in Requests : Live(t) /\ Fam(t) \notin excused' =>
                     token'[t] = "live" /\ Fam(t) \notin expired'
<1>1. UNCHANGED sessVars => G
  BY DEF sessVars, store, client, Live
<1>2. ASSUME NEW r \in Requests, Expire(r) \/ Sweep(r) PROVE G
  <2>1. UNCHANGED <<req, client>> /\ excused \subseteq excused'
    BY <1>2 DEF Expire, Sweep, sessHistory
  <2>2. CASE Expire(r)
    BY <2>1, <2>2 DEF Expire, Live, client
  <2>3. CASE Sweep(r)
    BY <2>1, <2>3 DEF Sweep, Live, TokensOf, client
  <2> QED BY <1>2, <2>2, <2>3
<1>3. ASSUME NEW d \in Clients, d # c, AppLogout(d) PROVE G
  <2>1. Forgets(d)
    BY <1>3, LeavesForgets DEF AppLogout
  <2> QED BY <1>3, <2>1 DEF AppLogout, Forgets, client, store, Live
<1>4. ASSUME NEW x \in Deletions, PurgeTokens(x) PROVE G
  <2>1. UNCHANGED <<req, client, expired>>
    BY <1>4 DEF PurgeTokens
  <2>2. ASSUME NEW t \in Requests, token[t] = "live", Fam(t) \notin excused'
        PROVE  token'[t] = "live"
    <3>1. req[Fam(t)].kind = "login" /\ Fam(t) \in Requests
      BY <2>2, HandlerFacts DEF SessInv, Stored, At
    <3>2. Owner(Fam(t)) # deletion[x].target
      BY <1>4, <2>2, <3>1 DEF PurgeTokens, FamiliesOf, Owner
    <3> QED BY <1>4, <2>2, <3>2 DEF PurgeTokens
  <2> QED BY <2>1, <2>2 DEF Live, client
<1>5. ASSUME NEW x \in Deletions,
             PurgeSessions(x) \/ DropLogins(x) \/ DropUser(x) \/ FailDeletion(x)
      PROVE  G
  BY <1>5 DEF PurgeSessions, DropLogins, DropUser, FailDeletion, client, store, Live
<1>6. G
  BY <1>1, <1>2, <1>3, <1>4, <1>5
<1>7. LiveKept(c)
  <2>1. \A t \in Requests : Fam(t)' = Fam(t)
    BY <1>6 DEF Fam
  <2> QED BY <1>6, <2>1 DEF LiveKept, Live
<1> QED BY <1>6, <1>7, ClientQuiet

-----------------------------------------------------------------------------
(* The steps of a request of the client itself. *)

\* The user of a session with a reason to go on is there.
LEMMA UserThere ==
  ASSUME SessInv, Reasons, NEW c \in Clients, ClientInv(c), NEW r \in Sent(c),
         req[r].kind = "refresh", session[c] \notin excused
  PROVE  UserOf[c] \in users
<1>1. /\ r \in Requests /\ ClientOf(r) = c /\ ~At(r, "idle") /\ Fam(r) = session[c]
  BY ClientHolds DEF ClientInv, InFlight
<1>2. PICK f \in Requests : f = Fam(r)
  BY <1>1, HandlerFacts
<1>3. /\ req[f].kind = "login" /\ ClientOf(f) = c /\ f # r
  BY <1>1, <1>2, HandlerFacts
<1>4. Begun(f)
  BY <1>1, <1>2, <1>3 DEF Begun
<1> QED BY <1>1, <1>2, <1>3, <1>4 DEF Reasons

\* A refresh that goes on as SessionSurvives demands.
LEMMA RefreshGoesOn ==
  ASSUME SessInv, [Next]_vars, Reasons, NEW c \in Clients, ClientInv(c), NEW r \in Sent(c),
         SessServer(r), req[r].kind = "refresh", session[c] \notin excused',
         NEW p, Moves(r, p), p \notin {"done"}
  PROVE  /\ p \notin {"reuse", "revoke", "refuse"}
         /\ p \in {"check", "user", "rotate"} => \A h \in Requests : h = held[c] => Live(h)'
         /\ p \in Storing => Live(r)'
<1>1. /\ r \in Requests /\ InFlight(r) /\ ClientOf(r) = c
      /\ session[c] # None /\ Fam(r) = session[c]
  BY ClientHolds DEF ClientInv
<1>2. session[c] \notin excused /\ session[c] \notin expired
  BY ReasonsGrow DEF Reasons
<1>3. Fresh(c) /\ r \in Refreshing(c)
  BY <1>1, <1>2 DEF ClientInv, Refreshing
<1>4. /\ req[r].tok = held[c] /\ req[r].pc \notin {"reuse", "revoke", "refuse"}
      /\ req[r].pc \in {"check", "user", "rotate"} => Live(held[c])
      /\ req[r].pc \in Storing => Live(r)
  BY <1>3 DEF Fresh
<1>5. PICK h : h = held[c]
  OBVIOUS
<1>6. h \in Requests /\ Fam(h) = session[c]
  BY <1>1, <1>5, ClientHolds DEF ClientInv
<1>7. \A t \in Requests : Fam(t)' = Fam(t)
  BY DEF Moves, Fam
<1>8. ASSUME NEW s, Goes(r, s) PROVE p = s
  BY <1>1, <1>8, GoesMoves DEF Moves
<1>9. ASSUME NEW s, NEW x, Becomes(r, [req[r] EXCEPT !.pc = s, !.row = x]) PROVE p = s
  BY <1>1, <1>9, RowMoves DEF Moves
<1>10. ~Fail(r) /\ ~Answer(r) /\ ~Refuse(r)
  BY <1>4, <1>8 DEF Fail, Answer, Refuse, At
<1>11. /\ req[r].pc \in {"check", "user", "rotate", "create", "findrow", "writerow"}
  <2>1. /\ req[r] \in Handler
        /\ req[r].pc \notin {"lofind", "lorows", "loagain", "target", "delist", "others"}
    BY <1>1, HandlerFacts DEF Shape, Fit
  <2>2. ~At(r, "answer")
    BY <1>1, <1>10, ServerAt
  <2> QED BY <1>1, <1>4, <2>1, <2>2 DEF Handler, InFlight, At
<1>12. CASE req[r].pc = "check"
  <2>1. Check(r)
    BY <1>1, <1>10, <1>12, ServerAt DEF At
  <2>2. p = "user" /\ UNCHANGED store
    BY <1>4, <1>8, <1>12, <2>1 DEF Check, Step
  <2>3. Live(h)'
    BY <1>4, <1>5, <1>6, <1>7, <1>12, <2>2 DEF Live, store
  <2> QED BY <1>5, <2>2, <2>3 DEF Storing
<1>13. CASE req[r].pc = "user"
  <2>1. FindUser(r)
    BY <1>1, <1>10, <1>13, ServerAt DEF At
  <2>2. p = "rotate" /\ UNCHANGED store
    BY <1>1, <1>2, <1>8, <2>1, UserThere DEF FindUser, Step
  <2>3. Live(h)'
    BY <1>4, <1>5, <1>6, <1>7, <1>13, <2>2 DEF Live, store
  <2> QED BY <1>5, <2>2, <2>3 DEF Storing
<1>14. CASE req[r].pc = "rotate"
  <2>1. Rotate(r)
    BY <1>1, <1>10, <1>14, ServerAt DEF At
  <2>2. p = "create"
    BY <1>8, <2>1 DEF Rotate, Step
  <2> QED BY <2>2 DEF Storing
<1>15. CASE req[r].pc = "create"
  <2>1. Create(r)
    BY <1>1, <1>10, <1>15, ServerAt DEF At
  <2>2. p = "findrow" /\ token'[r] = "live" /\ expired' = expired
    BY <1>1, <1>8, <2>1 DEF Create, Step, SessInv, SessTypeOK
  <2>3. Live(r)'
    BY <1>1, <1>2, <1>7, <2>2 DEF Live
  <2> QED BY <2>2, <2>3
<1>16. CASE req[r].pc \in {"findrow", "writerow"}
  <2>1. FindRow(r) \/ WriteRow(r)
    BY <1>1, <1>10, <1>16, ServerAt DEF At
  <2>2. p \in Storing /\ UNCHANGED <<token, expired>>
    BY <1>8, <1>9, <2>1 DEF FindRow, WriteRow, Step, store, Storing
  <2>3. Live(r)'
    BY <1>1, <1>4, <1>7, <1>16, <2>2 DEF Live, Storing
  <2> QED BY <2>2, <2>3 DEF Storing
<1> QED BY <1>11, <1>12, <1>13, <1>14, <1>15, <1>16

\* A login that has stored its token.
LEMMA LoginGoesOn ==
  ASSUME SessInv, [Next]_vars, Reasons, NEW c \in Clients, ClientInv(c), NEW r \in Sent(c),
         SessServer(r), req[r].kind = "login", r \notin excused',
         NEW p \in Storing, Moves(r, p)
  PROVE  Live(r)'
<1>1. r \in Requests /\ InFlight(r) /\ Fam(r) = r
  BY ClientHolds, HandlerFacts DEF Shape, Fam
<1>2. r \notin excused /\ r \notin expired
  BY ReasonsGrow DEF Reasons
<1>3. Fam(r)' = r
  BY <1>1 DEF Moves, Fam
<1>4. ASSUME NEW s, Goes(r, s) PROVE p = s
  BY <1>1, <1>4, GoesMoves DEF Moves
<1>5. ~Fail(r) /\ ~Answer(r) /\ ~Refuse(r)
  BY <1>4 DEF Fail, Answer, Refuse, Storing
<1>6. req[r].pc \in {"user", "create", "findrow", "writerow"}
  <2>1. /\ req[r] \in Handler
        /\ req[r].pc \notin {"check", "reuse", "rotate", "revoke", "lofind", "lorows",
                             "loagain", "target", "delist", "others"}
    BY <1>1, HandlerFacts DEF Shape, Fit
  <2>2. ~At(r, "answer") /\ ~At(r, "refuse")
    BY <1>1, <1>5, ServerAt
  <2> QED BY <1>1, <2>1, <2>2 DEF Handler, InFlight, At
<1>7. CASE req[r].pc = "user"
  <2>1. FindUser(r)
    BY <1>1, <1>5, <1>7, ServerAt DEF At
  <2> QED BY <1>4, <2>1 DEF FindUser, Step, Storing
<1>8. CASE req[r].pc = "create"
  <2>1. Create(r)
    BY <1>1, <1>5, <1>8, ServerAt DEF At
  <2> QED BY <1>1, <1>2, <1>3, <2>1 DEF Create, Live, SessInv, SessTypeOK
<1>9. CASE req[r].pc \in {"findrow", "writerow"}
  <2>1. FindRow(r) \/ WriteRow(r)
    BY <1>1, <1>5, <1>9, ServerAt DEF At
  <2>2. UNCHANGED <<token, expired>>
    BY <2>1 DEF FindRow, WriteRow, Step, store
  <2>3. Live(r)
    BY <1>2, <1>9 DEF ClientInv, Storing
  <2> QED BY <1>1, <1>3, <2>2, <2>3 DEF Live
<1> QED BY <1>6, <1>7, <1>8, <1>9

LEMMA ClientOnward ==
  ASSUME SessInv, [Next]_vars, Reasons, NEW c \in Clients, ClientInv(c), NEW r \in Sent(c),
         SessServer(r), ~(Answer(r) \/ Refuse(r) \/ Fail(r))
  PROVE  ClientInv(c)'
<1>1. r \in Requests /\ InFlight(r) /\ ClientOf(r) = c
  BY ClientHolds
<1>2. PICK p : Moves(r, p)
  BY <1>1, ServerMoves
<1>3. ASSUME NEW s, Goes(r, s) PROVE p = s
  BY <1>1, <1>2, <1>3, GoesMoves DEF Moves
<1>4. ASSUME NEW s, NEW x, Becomes(r, [req[r] EXCEPT !.pc = s, !.row = x]) PROVE p = s
  BY <1>1, <1>2, <1>4, RowMoves DEF Moves
<1>5. p \notin {"idle", "done"}
  <2>1. CASE FindRow(r) \/ FindTarget(r)
    BY <1>3, <1>4, <2>1 DEF FindRow, FindTarget
  <2>2. CASE ~(FindRow(r) \/ FindTarget(r))
    BY <1>3, <2>2 DEF SessServer, Check, Reuse, FindUser, Rotate, Create, WriteRow,
       RevokeFamily, FindLogout, LogoutRows, FindAgain, Delist, DelistOthers, Delists, Step
  <2> QED BY <2>1, <2>2
<1>6. held'[c] = held[c] /\ session'[c] = session[c]
  <2>1. UNCHANGED client
    BY DEF SessServer, Check, Reuse, FindUser, Rotate, Create, FindRow, WriteRow,
       RevokeFamily, FindLogout, LogoutRows, FindAgain, FindTarget, Delist, DelistOthers,
       Delists, Step
  <2> QED BY <2>1 DEF client
<1>7. req[r].kind = "login" /\ r \notin excused' /\ p \in Storing => Live(r)'
  BY <1>2, LoginGoesOn
<1>8. req[r].kind = "refresh" /\ session[c] \notin excused' =>
        /\ p \notin {"reuse", "revoke", "refuse"}
        /\ p \in {"check", "user", "rotate"} => \A h \in Requests : h = held[c] => Live(h)'
        /\ p \in Storing => Live(r)'
  BY <1>2, <1>5, RefreshGoesOn
<1>9. req[r].kind # "refresh" => LiveKept(c)
  <2>1. SUFFICES ASSUME req[r].kind # "refresh" PROVE LiveKept(c)
    OBVIOUS
  <2>2. ~At(r, "rotate")
    BY <1>1, <2>1, HandlerFacts DEF Shape, Fit, At
  <2>3. ~Rotate(r)
    BY <2>2 DEF Rotate
  <2>4. CASE RevokeFamily(r)
    <3>1. Fam(r) \in excused'
      <4>1. req[r].kind = "logout"
        BY <1>1, <2>1, <2>4, HandlerFacts DEF RevokeFamily, Shape, Fit, At
      <4> QED BY <1>1, <4>1, ReasonsGrow DEF Reasons
    <3>2. \A t \in Requests : Fam(t) \notin excused' => token'[t] = token[t]
      BY <2>4, <3>1 DEF RevokeFamily, Revoked, TokensOf
    <3>3. \A t \in Requests : Fam(t)' = Fam(t)
      BY <1>2 DEF Moves, Fam
    <3> QED BY <2>4, <3>2, <3>3 DEF RevokeFamily, LiveKept, Live
  <2>5. CASE ~RevokeFamily(r)
    BY <1>1, <2>3, <2>5, LiveServer
  <2> QED BY <2>4, <2>5
<1> QED BY <1>2, <1>5, <1>6, <1>7, <1>8, <1>9, ReasonsGrow, ClientGoesOn

\* A request that ends and leaves the client as it was.
LEMMA ClientRid ==
  ASSUME SessInv, NEW c \in Clients, ClientInv(c), NEW r \in Sent(c), Moves(r, "done"),
         held'[c] = held[c], session'[c] = session[c], excused \subseteq excused',
         UNCHANGED store, req[r].kind = "refresh" => session[c] \in excused'
  PROVE  ClientInv(c)'
<1>1. /\ Sent(c)' = Sent(c) \ {r} /\ r \in Requests
      /\ \A q \in Sent(c) \ {r} : q \in Requests /\ req'[q] = req[q]
  <2>1. r \in Requests
    BY ClientHolds
  <2>2. Sent(c)' = Sent(c) \ {r}
    BY <2>1 DEF Sent, InFlight, At, ClientOf, Moves
  <2> QED BY <2>1, <2>2, ClientHolds DEF Moves
<1>2. \A q \in Requests : Fam(q)' = Fam(q) /\ (Live(q)' <=> Live(q))
  BY DEF Moves, Fam, Live, store
<1>3. held[c] # None => held[c] \in Requests
  BY ClientHolds
<1>4. PICK h : h = held[c]
  OBVIOUS
<1>5. Fam(held[c])' = Fam(h)' /\ (Live(held[c])' <=> Live(h)')
  BY <1>4 DEF Fam, Live
<1>6. session[c] # None /\ session[c] \notin excused' => Fresh(c)'
  <2> SUFFICES ASSUME session[c] # None, session[c] \notin excused' PROVE Fresh(c)'
    OBVIOUS
  <2>1. Fresh(c) /\ h \in Requests
    BY <1>3, <1>4 DEF ClientInv
  <2>2. req[r].kind # "refresh"
    OBVIOUS
  <2>3. Refreshing(c)' = Refreshing(c)
    BY <1>1, <2>2 DEF Refreshing
  <2>4. \A q \in Refreshing(c) : q \in Requests /\ req'[q] = req[q]
    BY <1>1, <2>2 DEF Refreshing
  <2> QED BY <1>2, <1>4, <1>5, <2>1, <2>3, <2>4 DEF Fresh
<1>7. /\ held'[c] = None <=> session'[c] = None
      /\ held'[c] # None => Fam(held[c])' = session'[c]
  BY <1>2, <1>3, <1>4, <1>5 DEF ClientInv
<1> QED BY <1>1, <1>2, <1>4, <1>6, <1>7 DEF ClientInv, Fam

\* A client that leaves with nothing under way.
LEMMA ClientLeft ==
  ASSUME NEW c \in Clients, Sent(c)' = {}, held'[c] = None, session'[c] = None
  PROVE  ClientInv(c)'
BY DEF ClientInv

LEMMA ClientRefused ==
  ASSUME SessInv, [Next]_vars, Reasons, NEW c \in Clients, ClientInv(c), NEW r \in Sent(c),
         Refuse(r) \/ Fail(r), c \notin straggled'
  PROVE  /\ ClientInv(c)'
         /\ session[c] # None /\ session[c] \notin excused' => session'[c] = session[c]
<1>1. r \in Requests /\ InFlight(r) /\ ClientOf(r) = c
  BY ClientHolds
<1>2. Moves(r, "done")
  BY <1>1, GoesMoves DEF Refuse, Fail
<1>3. Sent(c)' = Sent(c) \ {r}
  BY <1>1, <1>2 DEF Sent, InFlight, At, ClientOf, Moves
<1>4. Leaves(c, r) \/ Stays
  BY <1>1 DEF Refuse, Fail, Refused, Unanswered
<1>5. req[r].kind = "refresh" => session[c] \in excused'
  <2>1. SUFFICES ASSUME req[r].kind = "refresh" PROVE session[c] \in excused'
    OBVIOUS
  <2>2. session[c] # None /\ Fam(r) = session[c]
    BY <2>1 DEF ClientInv
  <2>3. CASE Fail(r)
    BY <2>1, <2>2, <2>3 DEF Fail
  <2>4. CASE Refuse(r)
    <3>1. ~Fresh(c)
      BY <2>1, <2>4 DEF Fresh, Refreshing, Refuse, At
    <3> QED BY <2>2, <3>1, ReasonsGrow DEF ClientInv
  <2> QED BY <2>3, <2>4
<1>6. CASE Stays
  <2>1. held'[c] = held[c] /\ session'[c] = session[c] /\ UNCHANGED store
    BY <1>6 DEF Stays, client, Refuse, Fail
  <2> QED BY <1>2, <1>5, <2>1, ReasonsGrow, ClientRid
<1>7. CASE Leaves(c, r)
  <2>1. held'[c] = None /\ session'[c] = None /\ Sent(c) \ {r} = {}
    BY <1>7 DEF Leaves, SessInv, SessTypeOK
  <2>2. ClientInv(c)'
    BY <1>3, <2>1, ClientLeft
  <2>3. session[c] # None => session[c] \in excused'
    <3>1. SUFFICES ASSUME session[c] # None PROVE session[c] \in excused'
      OBVIOUS
    <3>2. CASE req[r].kind = "logout"
      <4>1. Fam(r) \in excused /\ Fam(r) = session[c]
        BY <1>1, <3>2 DEF Reasons, ClientInv
      <4> QED BY <4>1, ReasonsGrow
    <3>3. CASE req[r].kind \notin {"refresh", "logout"}
      <4>1. Stays
        BY <1>1, <3>3 DEF Refuse, Fail, Refused, Unanswered
      <4>2. session'[c] = session[c]
        BY <4>1 DEF Stays, client
      <4> QED BY <2>1, <3>1, <4>2
    <3> QED BY <1>5, <3>2, <3>3
  <2> QED BY <2>1, <2>2, <2>3
<1> QED BY <1>4, <1>6, <1>7

LEMMA ClientAnswered ==
  ASSUME SessInv, [Next]_vars, Reasons, NEW c \in Clients, ClientInv(c), NEW r \in Sent(c),
         Answer(r), c \notin straggled'
  PROVE  /\ ClientInv(c)'
         /\ session[c] # None /\ session[c] \notin excused' => session'[c] = session[c]
<1>1. r \in Requests /\ InFlight(r) /\ ClientOf(r) = c /\ r # None /\ At(r, "answer")
  BY ClientHolds DEF Answer
<1>2. Moves(r, "done")
  BY <1>1, GoesMoves DEF Answer
<1>3. Sent(c)' = Sent(c) \ {r}
  BY <1>1, <1>2 DEF Sent, InFlight, At, ClientOf, Moves
<1>4. UNCHANGED store /\ excused' = excused
  BY DEF Answer
<1>5. \A q \in Requests : Fam(q)' = Fam(q) /\ (Live(q)' <=> Live(q))
  BY <1>2, <1>4 DEF Moves, Fam, Live, store
<1>6. CASE req[r].kind = "login"
  <2>1. session[c] = None /\ Sent(c)' = {} /\ Fam(r) = r
    <3>1. session[c] = None /\ \A q \in Sent(c) : q = r
      BY <1>6 DEF ClientInv
    <3> QED BY <1>1, <1>3, <1>6, <3>1, HandlerFacts DEF Shape, Fam
  <2>2. held'[c] = r /\ session'[c] = r
    BY <1>1, <1>6 DEF Answer, SessInv, SessTypeOK
  <2>3. r \notin excused => Live(r)
    BY <1>1, <1>6 DEF ClientInv, At, Storing
  <2>4. Fam(held[c])' = Fam(r)' /\ (Live(held[c])' <=> Live(r)')
    BY <2>2 DEF Fam, Live
  <2> QED BY <1>1, <1>4, <1>5, <2>1, <2>2, <2>3, <2>4 DEF ClientInv, Fresh, Refreshing
<1>7. CASE req[r].kind = "refresh"
  <2>1. held'[c] = r /\ session'[c] = session[c]
    BY <1>1, <1>7 DEF Answer, SessInv, SessTypeOK
  <2>2. Fam(held[c])' = Fam(r)' /\ (Live(held[c])' <=> Live(r)')
    BY <2>1 DEF Fam, Live
  <2>3. session[c] # None /\ Fam(r) = session[c]
    BY <1>7 DEF ClientInv
  <2>4. \A q \in Sent(c)' : q \in Sent(c) /\ q \in Requests /\ req'[q] = req[q]
    BY <1>2, <1>3, ClientHolds DEF Moves
  <2>5. session[c] \notin excused => Fresh(c)'
    <3> SUFFICES ASSUME session[c] \notin excused PROVE Fresh(c)'
      OBVIOUS
    <3>1. Fresh(c) /\ r \in Refreshing(c)
      BY <1>7, <2>3 DEF ClientInv, Refreshing
    <3>2. Live(r)
      BY <1>1, <3>1 DEF Fresh, At, Storing
    <3>3. Refreshing(c)' = {}
      BY <1>3, <2>4, <3>1 DEF Fresh, Refreshing
    <3> QED BY <1>1, <1>5, <2>2, <3>2, <3>3 DEF Fresh
  <2>6. \A q \in Sent(c)' : req'[q].kind # "login" /\ req'[q].fam = session[c]
    BY <2>3, <2>4 DEF ClientInv, Fam
  <2> QED BY <1>1, <1>4, <1>5, <2>1, <2>2, <2>3, <2>5, <2>6 DEF ClientInv, Fam
<1>8. CASE req[r].kind = "logout"
  <2>1. Leaves(c, r)
    BY <1>1, <1>8 DEF Answer
  <2>2. held'[c] = None /\ session'[c] = None /\ Sent(c) \ {r} = {}
    BY <2>1 DEF Leaves, SessInv, SessTypeOK
  <2>3. Fam(r) \in excused /\ Fam(r) = session[c]
    BY <1>1, <1>8 DEF Reasons, ClientInv
  <2> QED BY <1>3, <1>4, <2>2, <2>3, ClientLeft
<1>9. CASE req[r].kind \notin {"login", "refresh", "logout"}
  <2>1. Stays
    BY <1>1, <1>9 DEF Answer
  <2>2. held'[c] = held[c] /\ session'[c] = session[c]
    BY <2>1 DEF Stays, client
  <2> QED BY <1>2, <1>4, <1>9, <2>2, ClientRid
<1> QED BY <1>6, <1>7, <1>8, <1>9

LEMMA ClientLogsOut ==
  ASSUME SessInv, NEW c \in Clients, AppLogout(c), c \notin straggled'
  PROVE  /\ ClientInv(c)'
         /\ session[c] # None /\ session[c] \notin excused' => session'[c] = session[c]
<1>1. /\ held'[c] = None /\ session'[c] = None /\ Sent(c) \ {None} = {}
      /\ session[c] \in excused'
  BY DEF AppLogout, Leaves, SessInv, SessTypeOK
<1>2. UNCHANGED req
  BY DEF AppLogout
<1>3. Sent(c)' = {}
  <2>1. Sent(c)' = Sent(c)
    BY <1>2 DEF Sent, InFlight, At, ClientOf
  <2> QED BY <1>1, <2>1, ClientHolds
<1> QED BY <1>1, <1>3, ClientLeft

-----------------------------------------------------------------------------
(* A client sends a request. *)

\* Pages that share a storage but not a refresh.
LEMMA SingleFlightAlone ==
  ASSUME SessInv, NEW c \in Clients, ClientInv(c), NEW r \in Requests, StartRefresh(r, c),
         session[c] \notin excused'
  PROVE  Refreshing(c) = {}
<1>1. held[c] # None /\ session[c] # None /\ Fam(held[c]) = session[c] /\ SingleFlight(c)
  BY DEF StartRefresh, ClientInv
<1>2. excused \subseteq excused'
  BY DEF StartRefresh
<1>3. Fresh(c)
  BY <1>1, <1>2 DEF ClientInv
<1>4. CASE Tabs[c] > 1
  <2>1. \A q \in Refreshing(c) : req[q].tok # held[c]
    BY <1>1, <1>4 DEF StartRefresh
  <2> QED BY <1>3, <2>1 DEF Fresh
<1>5. CASE ~(Tabs[c] > 1)
  <2>1. Tabs[c] \in Nat \ {0}
    BY SessionConstants
  <2>2. Tabs[c] = 1
    BY <1>5, <2>1
  <2>3. IsFiniteSet(Requests)
    BY SessionConstants, FS_Interval DEF Requests
  <2>4. IsFiniteSet(Refreshing(c))
    BY <2>3, FS_Subset DEF Refreshing, Sent
  <2>5. Cardinality(Refreshing(c)) \in Nat /\ Cardinality(Refreshing(c)) < 1
    BY <1>1, <2>2, <2>4, FS_CardinalityType DEF SingleFlight
  <2>6. Cardinality(Refreshing(c)) = 0
    BY <2>5
  <2> QED BY <2>4, <2>6, FS_EmptySet
<1> QED BY <1>4, <1>5

LEMMA ClientSends ==
  ASSUME SessInv, NEW c \in Clients, ClientInv(c), NEW r \in Requests, SessStart(r, c)
  PROVE  ClientInv(c)' /\ session'[c] = session[c]
<1>1. PICK k, p, t : Starts(r, c, k, p, t)
  BY StartForms DEF SessStart
<1>2. /\ \A q \in Requests : q # r => req'[q] = req[q]
      /\ req'[r] = Sending(r, c, k, p, t) /\ At(r, "idle")
      /\ UNCHANGED <<store, client, straggled>>
      /\ k \in {"login", "refresh", "logout", "delist", "others"}
      /\ p \in {"user", "check", "lofind", "target", "others"} /\ Fit(k, p)
      /\ IF k = "login" THEN t = None ELSE held[c] # None /\ t = held[c]
  <2>1. /\ \A q \in Requests : q # r => req'[q] = req[q]
        /\ req'[r] = Sending(r, c, k, p, t)
    BY <1>1, KeepsBegin DEF Starts
  <2>2. Begins(r, c, k, p, t)
    BY <1>1 DEF Starts
  <2>3. At(r, "idle") /\ UNCHANGED <<store, client, straggled>>
    BY <2>2 DEF Begins
  <2> QED BY <1>1, <2>1, <2>3 DEF Starts
<1>3. /\ req'[r].pc = p /\ req'[r].kind = k /\ req'[r].client = c /\ req'[r].tok = t
      /\ req'[r].fam = IF k = "login" THEN r ELSE Fam(t)
  BY <1>2 DEF Sending, NoHandler
<1>4. Sent(c)' = Sent(c) \union {r} /\ r \notin Sent(c)
  BY <1>2, <1>3 DEF Sent, InFlight, At, ClientOf
<1>5. \A q \in Sent(c) : q \in Requests /\ q # r /\ req'[q] = req[q]
  BY <1>2, <1>4, ClientHolds
<1>6. \A q \in Requests : token[q] # "none" => Fam(q)' = Fam(q) /\ (Live(q) => Live(q)')
  <2>1. \A q \in Requests : token[q] # "none" => q # r
    BY <1>2 DEF SessInv, Stored, At
  <2> QED BY <1>2, <2>1 DEF Fam, Live, store
<1>7. /\ held[c] # None => held[c] \in Requests /\ held[c] # r
      /\ held'[c] = held[c] /\ session'[c] = session[c]
  BY <1>2, ClientHolds DEF client
<1>8. /\ excused \subseteq excused'
      /\ k = "login" => session[c] = None /\ \A q \in Sent(c) : req[q].kind # "login"
      /\ k = "refresh" => p = "check" /\ (session[c] \notin excused' => Refreshing(c) = {})
  <2>1. \A l, m, n : Starts(r, c, l, m, n) => l = k /\ m = p
    <3>1. ASSUME NEW l, NEW m, NEW n, Starts(r, c, l, m, n) PROVE l = k /\ m = p
      <4>1. req'[r] = Sending(r, c, l, m, n)
        BY <3>1, KeepsBegin DEF Starts
      <4> QED BY <1>3, <4>1 DEF Sending, NoHandler
    <3> QED BY <3>1
  <2>2. CASE StartLogin(r, c)
    BY <2>1, <2>2, StartForms DEF StartLogin
  <2>3. CASE StartRefresh(r, c)
    <3>1. k = "refresh" /\ p = "check"
      BY <2>1, <2>3, StartForms
    <3>2. excused \subseteq excused'
      BY <2>3 DEF StartRefresh
    <3> QED BY <2>3, <3>1, <3>2, SingleFlightAlone
  <2>4. CASE StartLogout(r, c)
    BY <2>1, <2>4, StartForms DEF StartLogout
  <2>5. ASSUME NEW l \in {"delist", "others"}, StartDelist(r, c, l)
        PROVE  k \notin {"login", "refresh"} /\ excused \subseteq excused'
    <3>1. l = k
      BY <2>1, <2>5, StartForms
    <3> QED BY <2>5, <3>1 DEF StartDelist
  <2> QED BY <2>2, <2>3, <2>4, <2>5 DEF SessStart
<1>9. k # "login" => session[c] # None /\ Fam(t) = session[c]
  BY <1>2 DEF ClientInv
<1>10. session[c] # None /\ session[c] \notin excused' => Fresh(c)'
  <2> SUFFICES ASSUME session[c] # None, session[c] \notin excused' PROVE Fresh(c)'
    OBVIOUS
  <2>1. Fresh(c) /\ k # "login"
    BY <1>8 DEF ClientInv
  <2>2. PICK h \in Requests : h = held[c]
    BY <1>7 DEF ClientInv
  <2>3. Live(h) => Live(h)'
    BY <1>6 DEF Live
  <2>4. Live(held[c])' <=> Live(h)'
    BY <1>7, <2>2 DEF Live, Fam
  <2>5. CASE k = "refresh"
    <3>1. Refreshing(c) = {} /\ p = "check" /\ Live(h)
      BY <1>8, <2>1, <2>2, <2>5 DEF Fresh
    <3>2. Refreshing(c)' = {r}
      BY <1>3, <1>4, <1>5, <2>5, <3>1 DEF Refreshing
    <3>3. req'[r].tok = held'[c] /\ req'[r].pc = "check"
      BY <1>2, <1>3, <1>7, <2>5, <3>1
    <3> QED BY <2>3, <2>4, <3>1, <3>2, <3>3 DEF Fresh, Storing
  <2>6. CASE k # "refresh"
    <3>1. Refreshing(c)' = Refreshing(c)
      BY <1>3, <1>4, <1>5, <2>6 DEF Refreshing
    <3>2. \A q \in Refreshing(c) : req'[q] = req[q] /\ (Live(q) => Live(q)')
      <4>1. \A q \in Refreshing(c) : q \in Requests /\ req'[q] = req[q]
        BY <1>5 DEF Refreshing
      <4> QED BY <1>6, <4>1 DEF Live
    <3> QED BY <1>7, <2>1, <2>2, <2>3, <2>4, <3>1, <3>2 DEF Fresh
  <2> QED BY <2>5, <2>6
<1>11. \A q \in Sent(c) :
         req'[q].kind = "login" /\ q \notin excused' /\ req'[q].pc \in Storing => Live(q)'
  <2>1. \A q \in Sent(c) :
          req'[q].kind = "login" /\ q \notin excused' /\ req'[q].pc \in Storing => Live(q)
    BY <1>5, <1>8 DEF ClientInv
  <2> QED BY <1>5, <1>6, <2>1 DEF Live
<1>12. held[c] # None => req'[held[c]].fam = session[c]
  BY <1>2, <1>7 DEF ClientInv, Fam
<1>13. req'[r].pc \notin Storing
  BY <1>2, <1>3 DEF Storing
<1>14. \A q \in Sent(c)' : /\ req'[q].kind = "login" <=> session[c] = None
                           /\ req'[q].kind # "login" => req'[q].fam = session[c]
  BY <1>3, <1>4, <1>5, <1>8, <1>9 DEF ClientInv, Fam
<1>15. \A q, s \in Sent(c)' : req'[q].kind = "login" /\ req'[s].kind = "login" => q = s
  BY <1>3, <1>4, <1>5, <1>8 DEF ClientInv
<1> QED BY <1>4, <1>7, <1>10, <1>11, <1>12, <1>13, <1>14, <1>15 DEF ClientInv, Fam

LEMMA OtherSends ==
  ASSUME SessInv, [Next]_vars, NEW c \in Clients, ClientInv(c), NEW r \in Requests,
         NEW d \in Clients, d # c, SessStart(r, d)
  PROVE  ClientInv(c)' /\ session'[c] = session[c]
<1>1. PICK k, p, t : Starts(r, d, k, p, t)
  BY StartForms DEF SessStart
<1>2. /\ \A q \in Requests : q # r => req'[q] = req[q]
      /\ req'[r] = Sending(r, d, k, p, t) /\ At(r, "idle") /\ UNCHANGED <<store, client>>
  <2>1. /\ \A q \in Requests : q # r => req'[q] = req[q]
        /\ req'[r] = Sending(r, d, k, p, t)
    BY <1>1, KeepsBegin DEF Starts
  <2>2. Begins(r, d, k, p, t)
    BY <1>1 DEF Starts
  <2>3. At(r, "idle") /\ UNCHANGED <<store, client>>
    BY <2>2 DEF Begins
  <2> QED BY <2>1, <2>3
<1>3. req'[r].client = d
  BY <1>2 DEF Sending, NoHandler
<1>4. Sent(c)' = Sent(c) /\ \A q \in Sent(c) : req'[q] = req[q]
  BY <1>2, <1>3 DEF Sent, InFlight, At, ClientOf
<1>5. LiveKept(c)
  <2>1. \A q \in Requests : token[q] # "none" => q # r
    BY <1>2 DEF SessInv, Stored, At
  <2> QED BY <1>2, <2>1 DEF LiveKept, Fam, Live, store
<1>6. held'[c] = held[c] /\ session'[c] = session[c]
  BY <1>2 DEF client
<1> QED BY <1>4, <1>5, <1>6, KeptAlways, ReasonsGrow, ClientKept

LEMMA ClientNext ==
  ASSUME SessInv, [Next]_vars, Survival, NEW c \in Clients, c \notin straggled'
  PROVE  /\ ClientInv(c)'
         /\ session[c] # None /\ session[c] \notin excused' => session'[c] = session[c]
<1>1. Reasons /\ ClientInv(c)
  BY ReasonsGrow DEF Survival
<1> DEFINE G == /\ ClientInv(c)'
                /\ session[c] # None /\ session[c] \notin excused' => session'[c] = session[c]
<1>2. ASSUME NEW r \in Requests, SessServer(r) PROVE G
  <2>1. CASE ClientOf(r) # c
    BY <1>1, <1>2, <2>1, ClientElsewhere, HeldMoves
  <2>2. CASE ClientOf(r) = c
    <3>1. r \in Sent(c)
      BY <1>2, <2>2, ServerMoves DEF Sent
    <3>2. CASE Answer(r)
      BY <1>1, <3>1, <3>2, ClientAnswered
    <3>3. CASE Refuse(r) \/ Fail(r)
      BY <1>1, <3>1, <3>3, ClientRefused
    <3>4. CASE ~(Answer(r) \/ Refuse(r) \/ Fail(r))
      <4>1. ClientInv(c)'
        BY <1>1, <1>2, <3>1, <3>4, ClientOnward
      <4>2. UNCHANGED client
        BY <1>2, <3>4 DEF SessServer, Check, Reuse, FindUser, Rotate, Create, FindRow, WriteRow,
           RevokeFamily, FindLogout, LogoutRows, FindAgain, FindTarget, Delist, DelistOthers,
           Delists, Step
      <4> QED BY <4>1, <4>2 DEF client
    <3> QED BY <3>2, <3>3, <3>4
  <2> QED BY <2>1, <2>2
<1>3. ASSUME NEW r \in Requests, NEW d \in Clients, SessStart(r, d) PROVE G
  <2>1. CASE d = c
    BY <1>1, <1>3, <2>1, ClientSends
  <2>2. CASE d # c
    BY <1>1, <1>3, <2>2, OtherSends
  <2> QED BY <2>1, <2>2
<1>4. CASE AppLogout(c)
  BY <1>4, ClientLogsOut
<1>5. CASE \/ UNCHANGED sessVars
           \/ \E r \in Requests : Expire(r) \/ Sweep(r)
           \/ \E d \in Clients : d # c /\ AppLogout(d)
           \/ \E x \in Deletions : \/ PurgeSessions(x) \/ PurgeTokens(x) \/ DropLogins(x)
                                   \/ DropUser(x) \/ FailDeletion(x)
  <2>1. ClientInv(c)'
    BY <1>1, <1>5, ClientBeside
  <2>2. session'[c] = session[c]
    <3>1. ASSUME NEW d \in Clients, d # c, AppLogout(d) PROVE session'[c] = session[c]
      <4>1. Forgets(d)
        BY <3>1, LeavesForgets DEF AppLogout
      <4> QED BY <3>1, <4>1 DEF Forgets, client
    <3>2. ASSUME NEW r \in Requests, Expire(r) \/ Sweep(r) PROVE session'[c] = session[c]
      BY <3>2 DEF Expire, Sweep, client
    <3>3. ASSUME NEW x \in Deletions,
                 \/ PurgeSessions(x) \/ PurgeTokens(x) \/ DropLogins(x) \/ DropUser(x)
                 \/ FailDeletion(x)
          PROVE  session'[c] = session[c]
      BY <3>3 DEF PurgeSessions, PurgeTokens, DropLogins, DropUser, FailDeletion, client
    <3>4. UNCHANGED sessVars => session'[c] = session[c]
      BY DEF sessVars, client
    <3> QED BY <1>5, <3>1, <3>2, <3>3, <3>4
  <2> QED BY <2>1, <2>2
<1> QED BY <1>2, <1>3, <1>4, <1>5, SessionSteps DEF SessRuns

\* SessionSurvives, for any number of clients, pages and requests.
THEOREM SessionsSurvive == Spec => SessionSurvives
<1>1. Init => Survival
  <2> SUFFICES ASSUME Init PROVE Survival
    OBVIOUS
  <2>1. \A r \in Requests : req[r].kind = "none" /\ req[r].pc = "idle"
    BY DEF Init, SessInit, NoHandler
  <2>2. \A c \in Clients : held[c] = None /\ session[c] = None
    BY DEF Init, SessInit
  <2>3. Reasons
    BY <2>1 DEF Reasons, Init, SessInit
  <2>4. \A c \in Clients : Sent(c) = {}
    BY <2>1 DEF Sent, InFlight, At
  <2> QED BY <2>2, <2>3, <2>4 DEF Survival, ClientInv
<1>2. Survival /\ SessInv /\ [Next]_vars => Survival'
  <2> SUFFICES ASSUME Survival, SessInv, [Next]_vars PROVE Survival'
    OBVIOUS
  <2>1. Reasons'
    BY ReasonsNext DEF Survival
  <2>2. \A c \in Clients : c \notin straggled' => ClientInv(c)'
    BY ClientNext
  <2> QED BY <2>1, <2>2 DEF Survival
<1>3. Spec => []Survival
  BY <1>1, <1>2, SessInvAlways, PTL DEF Spec
<1>4. Survival /\ SessInv /\ Survival' /\ [Next]_vars =>
        [\A c \in Clients : c \notin straggled' =>
           /\ session[c] # None /\ session[c] \notin excused' => session'[c] = session[c]
           /\ HoldsLiveToken(c)']_sessVars
  <2> SUFFICES ASSUME Survival, SessInv, Survival', [Next]_vars,
                      NEW c \in Clients, c \notin straggled'
               PROVE  /\ session[c] # None /\ session[c] \notin excused'
                           => session'[c] = session[c]
                      /\ HoldsLiveToken(c)'
    OBVIOUS
  <2>1. session[c] # None /\ session[c] \notin excused' => session'[c] = session[c]
    BY ClientNext
  <2>2. ClientInv(c)'
    BY ClientNext
  <2>3. HoldsLiveToken(c)'
    BY <2>2 DEF HoldsLiveToken, ClientInv, Fresh, Refreshing, IdleClient
  <2> QED BY <2>1, <2>3
<1> QED BY <1>3, <1>4, SessInvAlways, PTL DEF Spec, SessionSurvives

-----------------------------------------------------------------------------
(* A deletion is complete.                                                 *)

Logins == {LoginOf[s] : s \in Students}

UserBusy(u) ==
  \/ \E r \in Requests : InFlight(r) /\ UserOf[ClientOf(r)] = u
  \/ \E r \in DeviceRequests : DevInFlight(r) /\ DeviceOwner[Dev(r)] = u

\* x has not failed and ran beside no other request of the household.
Counts(x) == ~DelAt(x, "idle") /\ ~DelAt(x, "failed") /\ ~deletion[x].raced

AloneInv ==
  \A x \in Deletions : Counts(x) =>
    /\ \A u \in Household(deletion[x].parent) : ~UserBusy(u)
    /\ \A y \in Deletions :
         y # x /\ ~DelAt(y, "idle") /\ deletion[y].parent = deletion[x].parent => DelAt(y, "failed")

\* The commands by which a login or a refresh makes a token and a row.
Making == {"rotate", "create", "findrow", "writerow"}

SessClean(u) ==
  /\ \A t \in Requests : token[t] # "none" => Owner(Fam(t)) # u
  /\ \A x \in rows : Owner(Fam(x)) # u
DevClean(u) == \A d \in Devices : DeviceOwner[d] = u => auth[d].status # "approved"

\* Nothing of the login u is left and nothing will be made for it.
Gone(u) ==
  /\ u \notin users /\ SessClean(u)
  /\ \A r \in Requests : req[r].pc \in Making => UserOf[ClientOf(r)] # u

Purging == {"auth", "sessions", "tokens"}
Late == {"dropStudents", "dropLogins", "dropUser", "audit", "done"}

\* What a deletion has in hand.
Form(d) ==
  /\ d.pc # "idle" => d.parent \in Parents
  /\ \A s \in d.found : ParentOf[s] = d.parent
  /\ \A u \in d.logins : \E s \in Students :
       ParentOf[s] = d.parent /\ LoginOf[s] = u /\ (s \in d.found \/ s \notin students)
  /\ d.pc \in {"idle", "parent", "students", "logins"} => d.logins = {}
  /\ d.pc \in Purging => d.left \subseteq d.logins /\ d.target \in d.logins \union {d.parent}
  /\ d.pc \in {"idle", "parent", "students"} => d.found = {}
  /\ d.pc \in {"dropLogins", "dropUser", "audit", "done"} => d.found = {}
  /\ d.pc \in {"dropUser", "audit", "done"} => d.logins = {}
  /\ d.pc \in {"audit", "done"} => d.parent \notin users

FormInv ==
  /\ \A x \in Deletions : Form(deletion[x])
  /\ \A u \in Logins \ users : \E s \in Students \ students : LoginOf[s] = u

\* The login of a student that is gone is gone too, unless a deletion has yet to
\* delete it or was cut short.
GoneInv ==
  \A s \in Students \ students : ParentOf[s] \notin cut =>
    \/ Gone(LoginOf[s])
    \/ \E y \in Deletions : deletion[y].parent = ParentOf[s] /\ deletion[y].pc \in Late

\* What a deletion d that ran alone has found and purged.
Stage(d) ==
  LET p == d.parent IN
  /\ d.pc \in {"logins"} \union Purging \union Late =>
       \A s \in students : ParentOf[s] = p => s \in d.found
  /\ d.pc = "logins" =>
       \A s \in Students : ParentOf[s] = p => s \in d.found \/ Gone(LoginOf[s])
  /\ d.pc \in Purging =>
       \A u \in Household(p) : u \in d.left \union {d.target} \/ SessClean(u)
  /\ d.pc = "tokens" => \A x \in rows : Owner(Fam(x)) # d.target
  /\ d.pc \in Purging \union Late /\ (d.pc = "auth" => d.target # p) => DevClean(p)
  /\ d.pc \in Late => \A u \in Household(p) : SessClean(u)
  /\ d.pc \in Purging \union Late =>
       \A u \in Household(p) \ {p} : u \in d.logins \/ u \notin users

StageInv ==
  \A x \in Deletions : Counts(x) /\ deletion[x].parent \notin cut => Stage(deletion[x])

-----------------------------------------------------------------------------
(* Users only go, and what a login or a refresh makes for them.            *)

\* Tokens and rows come from the commands in Making, and users only go.
LEMMA OnlyMaking ==
  ASSUME SessInv, [Next]_vars
  PROVE  /\ users' \subseteq users
         /\ \A t \in Requests : token'[t] # "none" => token[t] # "none" \/ At(t, "create")
         /\ \A x \in rows' : x \in rows \/ (x \in Requests /\ At(x, "writerow"))
<1> DEFINE G == /\ users' \subseteq users
                /\ \A t \in Requests : token'[t] # "none" => token[t] # "none" \/ At(t, "create")
                /\ \A x \in rows' : x \in rows \/ (x \in Requests /\ At(x, "writerow"))
<1>1. ASSUME NEW r \in Requests, SessServer(r) PROVE G
  <2>1. CASE Create(r)
    BY <2>1 DEF Create, SessInv, SessTypeOK
  <2>2. CASE Rotate(r) \/ RevokeFamily(r)
    BY <2>2 DEF Rotate, RevokeFamily, Revoked, TokensOf
  <2>3. CASE WriteRow(r)
    BY <2>3 DEF WriteRow
  <2>4. CASE ~(Create(r) \/ Rotate(r) \/ RevokeFamily(r) \/ WriteRow(r))
    BY <1>1, <2>4 DEF SessServer, Check, Reuse, FindUser, FindRow, FindLogout, LogoutRows,
       FindAgain, FindTarget, Delist, DelistOthers, Delists, Answer, Refuse, Fail, Step, store
  <2> QED BY <2>1, <2>2, <2>3, <2>4
<1>2. ASSUME NEW r \in Requests, NEW c \in Clients, SessStart(r, c) PROVE G
  <2>1. \E k, p, t : Begins(r, c, k, p, t)
    BY <1>2 DEF SessStart, StartLogin, StartRefresh, StartLogout, StartDelist
  <2> QED BY <2>1 DEF Begins, store
<1>3. ASSUME NEW r \in Requests, Expire(r) \/ Sweep(r) PROVE G
  BY <1>3 DEF Expire, Sweep, TokensOf
<1>4. ASSUME NEW c \in Clients, AppLogout(c) PROVE G
  BY <1>4 DEF AppLogout, store
<1>5. ASSUME NEW x \in Deletions,
             \/ PurgeSessions(x) \/ PurgeTokens(x) \/ DropLogins(x) \/ DropUser(x)
             \/ FailDeletion(x)
      PROVE  G
  BY <1>5 DEF PurgeSessions, PurgeTokens, DropLogins, DropUser, DropsUser, FailDeletion, store
<1>6. UNCHANGED sessVars => G
  BY DEF sessVars, store
<1> QED BY <1>1, <1>2, <1>3, <1>4, <1>5, <1>6, SessionSteps DEF SessRuns

\* They are reached through a user document that is there.
LEMMA MakingBegins ==
  ASSUME SessInv, [Next]_vars, NEW r \in Requests, req'[r].pc \in Making
  PROVE  /\ req'[r].client = req[r].client
         /\ req[r].pc \in Making \/ UserOf[ClientOf(r)] \in users
<1>1. ASSUME NEW q \in Requests, SessServer(q)
      PROVE  /\ req'[r].client = req[r].client
             /\ req[r].pc \in Making \/ UserOf[ClientOf(r)] \in users
  <2>1. PICK p : Moves(q, p)
    BY <1>1, ServerMoves
  <2>2. CASE q # r
    BY <2>1, <2>2 DEF Moves
  <2>3. CASE q = r
    <3>1. InFlight(r) /\ req'[r].client = req[r].client
      BY <2>1, <2>3 DEF Moves
    <3>2. SUFFICES ASSUME req[r].pc \notin Making PROVE UserOf[ClientOf(r)] \in users
      BY <3>1
    <3>3. ASSUME NEW s, Goes(r, s) PROVE s \in Making
      BY <3>1, <3>3, GoesMoves DEF Moves
    <3>4. CASE FindUser(r)
      <4>1. \E s : Goes(r, s) /\ (UserOf[ClientOf(r)] \notin users => s \in {"refuse", "revoke"})
        BY <3>4 DEF FindUser, Step
      <4> QED BY <3>3, <4>1 DEF Making
    <3>5. CASE Rotate(r) \/ Create(r) \/ FindRow(r) \/ WriteRow(r)
      BY <3>2, <3>5 DEF Rotate, Create, FindRow, WriteRow, At, Making
    <3>6. CASE FindTarget(r)
      <4>1. \/ \E x : Becomes(r, [req[r] EXCEPT !.pc = "delist", !.row = x])
            \/ Goes(r, "refuse")
        BY <3>6 DEF FindTarget
      <4>2. ASSUME NEW x, Becomes(r, [req[r] EXCEPT !.pc = "delist", !.row = x])
            PROVE  FALSE
        <5>1. Moves(r, "delist")
          BY <3>1, <4>2, RowMoves
        <5> QED BY <5>1 DEF Moves, Making
      <4>3. Goes(r, "refuse") => FALSE
        BY <3>3 DEF Making
      <4> QED BY <4>1, <4>2, <4>3
    <3>7. CASE ~(FindUser(r) \/ Rotate(r) \/ Create(r) \/ FindRow(r) \/ WriteRow(r)
                 \/ FindTarget(r))
      <4>1. \E s : Goes(r, s) /\ s \notin Making
        BY <1>1, <2>3, <3>7 DEF SessServer, Check, Reuse, RevokeFamily, FindLogout, LogoutRows,
           FindAgain, Delist, DelistOthers, Delists, Answer, Refuse, Fail, Step, Making
      <4> QED BY <3>3, <4>1
    <3> QED BY <3>4, <3>5, <3>6, <3>7
  <2> QED BY <2>2, <2>3
<1>2. ASSUME NEW q \in Requests, NEW c \in Clients, SessStart(q, c)
      PROVE  req'[r] = req[r]
  <2>1. PICK k, p, t : Starts(q, c, k, p, t)
    BY <1>2, StartForms DEF SessStart
  <2>2. /\ \A i \in Requests : i # q => req'[i] = req[i]
        /\ req'[q] = Sending(q, c, k, p, t)
    BY <2>1, KeepsBegin DEF Starts
  <2>3. req'[q].pc = p /\ p \notin Making
    BY <2>1, <2>2 DEF Starts, Sending, NoHandler, Making
  <2> QED BY <2>2, <2>3
<1>3. ASSUME UNCHANGED req
      PROVE  /\ req'[r].client = req[r].client
             /\ req[r].pc \in Making \/ UserOf[ClientOf(r)] \in users
  BY <1>3
<1>4. ASSUME NEW q \in Requests, Expire(q) \/ Sweep(q) PROVE UNCHANGED req
  BY <1>4 DEF Expire, Sweep
<1>5. ASSUME NEW c \in Clients, AppLogout(c) PROVE UNCHANGED req
  BY <1>5 DEF AppLogout
<1>6. ASSUME NEW x \in Deletions,
             \/ PurgeSessions(x) \/ PurgeTokens(x) \/ DropLogins(x) \/ DropUser(x)
             \/ FailDeletion(x)
      PROVE  UNCHANGED req
  BY <1>6 DEF PurgeSessions, PurgeTokens, DropLogins, DropUser, FailDeletion
<1>7. UNCHANGED sessVars => UNCHANGED req
  BY DEF sessVars
<1> QED BY <1>1, <1>2, <1>3, <1>4, <1>5, <1>6, <1>7, SessionSteps DEF SessRuns

LEMMA RowsStayAway ==
  ASSUME SessInv, [Next]_vars, NEW u, \A x \in rows : Owner(Fam(x)) # u,
         \A r \in Requests : req[r].pc \in Making => UserOf[ClientOf(r)] # u
  PROVE  \A x \in rows' : (Owner(Fam(x)) # u)'
<1>1. ASSUME NEW x \in rows' PROVE (Owner(Fam(x)) # u)'
  <2>1. x \in Requests /\ ~At(x, "idle")
    BY OnlyMaking DEF SessInv, SessTypeOK, Stored, At
  <2>2. Owner(Fam(x)) # u
    <3>1. CASE x \in rows
      BY <3>1
    <3>2. CASE At(x, "writerow")
      <4>1. Owner(Fam(x)) = UserOf[ClientOf(x)]
        BY <2>1, HandlerFacts
      <4> QED BY <2>1, <3>2, <4>1 DEF At, Making
    <3> QED BY <3>1, <3>2, OnlyMaking
  <2> QED BY <2>1, <2>2, HandlerFacts, KeptAlways DEF Kept, Owner, Fam, ClientOf
<1> QED BY <1>1

\* What is clean stays clean while nothing is being made for it.
LEMMA CleanStays ==
  ASSUME SessInv, [Next]_vars, NEW u, SessClean(u),
         \A r \in Requests : req[r].pc \in Making => UserOf[ClientOf(r)] # u
  PROVE  SessClean(u)'
<1>1. ASSUME NEW t \in Requests, token'[t] # "none" PROVE (Owner(Fam(t)) # u)'
  <2>1. token[t] # "none" \/ At(t, "create")
    BY <1>1, OnlyMaking
  <2>2. ~At(t, "idle")
    BY <2>1 DEF SessInv, Stored, At
  <2>3. Owner(Fam(t)) # u
    <3>1. CASE token[t] # "none"
      BY <3>1 DEF SessClean
    <3>2. CASE At(t, "create")
      <4>1. Owner(Fam(t)) = UserOf[ClientOf(t)]
        BY <2>2, HandlerFacts
      <4> QED BY <3>2, <4>1 DEF At, Making
    <3> QED BY <2>1, <3>1, <3>2
  <2> QED BY <2>2, <2>3, HandlerFacts, KeptAlways DEF Kept, Owner, Fam, ClientOf
<1> QED BY <1>1, RowsStayAway DEF SessClean

LEMMA GoneStays ==
  ASSUME SessInv, [Next]_vars, NEW u, Gone(u)
  PROVE  Gone(u)'
<1>1. SessClean(u)' /\ u \notin users'
  BY CleanStays, OnlyMaking DEF Gone
<1>2. ASSUME NEW r \in Requests, req'[r].pc \in Making PROVE (UserOf[ClientOf(r)] # u)'
  BY <1>2, MakingBegins DEF Gone, ClientOf
<1> QED BY <1>1, <1>2 DEF Gone

LEMMA InFlightStays ==
  ASSUME SessInv, SessRuns, NEW r \in Requests, InFlight(r)'
  PROVE  InFlight(r) /\ req'[r].client = req[r].client
<1>1. ASSUME NEW q \in Requests, SessServer(q)
      PROVE  InFlight(r) /\ req'[r].client = req[r].client
  <2>1. InFlight(q) /\ \E p : Moves(q, p)
    BY <1>1, ServerMoves
  <2> QED BY <2>1 DEF Moves, InFlight, At
<1>2. ASSUME NEW q \in Requests, Expire(q) \/ Sweep(q) PROVE UNCHANGED req
  BY <1>2 DEF Expire, Sweep
<1>3. ASSUME NEW c \in Clients, AppLogout(c) PROVE UNCHANGED req
  BY <1>3 DEF AppLogout
<1> QED BY <1>1, <1>2, <1>3 DEF SessRuns, InFlight, At

LEMMA DevGoesOn ==
  ASSUME DevInv, NEW r \in DeviceRequests, NEW p, NEW j, DevGoes(r, p, j)
  PROVE  /\ dreq'[r].dev = dreq[r].dev
         /\ \A q \in DeviceRequests : q # r => dreq'[q] = dreq[q]
<1>1. dreq \in [DeviceRequests -> DeviceHandler] /\ dreq[r] \in DeviceHandler
  BY DEF DevInv, DevTypeOK
<1> DEFINE h == [[dreq[r] EXCEPT !.pc = p] EXCEPT !.read = j]
<1>2. dreq' = [dreq EXCEPT ![r] = h]
  BY <1>1 DEF DevGoes
<1>3. h.dev = dreq[r].dev
  BY <1>1 DEF DeviceHandler
<1> HIDE DEF h
<1> QED BY <1>1, <1>2, <1>3

LEMMA DevInFlightStays ==
  ASSUME DevInv, DevRuns, NEW r \in DeviceRequests, DevInFlight(r)'
  PROVE  DevInFlight(r) /\ dreq'[r].dev = dreq[r].dev
<1>1. ASSUME NEW q \in DeviceRequests, DevServer(q)
      PROVE  DevInFlight(r) /\ dreq'[r].dev = dreq[r].dev
  <2>1. \E p, j : DevGoes(q, p, j)
    BY <1>1 DEF DevServer, FindPending, FindExisting, MarkOld, Upsert, RecordJti, Approve,
       AnswerIssue, Poll, Deliver, DeliverLost, FindDevice, RevokeDevice, MarkLast, DevFail
  <2>2. DevInFlight(q)
    BY <1>1 DEF DevServer, FindPending, FindExisting, MarkOld, Upsert, RecordJti, Approve,
       AnswerIssue, Poll, Deliver, DeliverLost, FindDevice, RevokeDevice, MarkLast, DevFail,
       DevAt, DevInFlight
  <2> QED BY <2>1, <2>2, DevGoesOn DEF DevInFlight, DevAt
<1>2. ASSUME NEW d \in Devices, ExpireCode(d) PROVE UNCHANGED dreq
  BY <1>2 DEF ExpireCode
<1> QED BY <1>1, <1>2 DEF DevRuns, DevInFlight, DevAt

\* A request of u begins beside the deletions of its household.
LEMMA BusyBegins ==
  ASSUME SessInv, DevInv, [Next]_vars, NEW u, UserBusy(u)', ~UserBusy(u)
  PROVE  Races(u)
<1>1. ASSUME NEW q \in Requests, NEW c \in Clients, SessionBegins(q, c) PROVE Races(u)
  <2>1. SessStart(q, c) /\ Races(UserOf[c]) /\ UNCHANGED dreq
    BY <1>1 DEF SessionBegins, devVars
  <2>2. PICK k, p, t : Starts(q, c, k, p, t)
    BY <2>1, StartForms DEF SessStart
  <2>3. /\ \A i \in Requests : i # q => req'[i] = req[i]
        /\ req'[q] = Sending(q, c, k, p, t)
    BY <2>2, KeepsBegin DEF Starts
  <2>4. req'[q].client = c
    BY <2>3 DEF Sending, NoHandler
  <2>5. UserOf[c] = u
    BY <2>1, <2>3, <2>4 DEF UserBusy, InFlight, At, ClientOf, DevInFlight, DevAt, Dev
  <2> QED BY <2>1, <2>5
<1>2. ASSUME NEW q \in DeviceRequests, NEW d \in Devices, NEW k, DeviceBegins(q, d, k)
      PROVE  Races(u)
  <2>1. DevStart(q, d, k) /\ Races(DeviceOwner[d]) /\ UNCHANGED req
    BY <1>2 DEF DeviceBegins, sessVars
  <2>2. dreq \in [DeviceRequests -> DeviceHandler]
    BY DEF DevInv, DevTypeOK
  <2>3. PICK h : dreq' = [dreq EXCEPT ![q] = h] /\ h.dev = d
    <3> DEFINE h == [kind |-> k, dev |-> d, read |-> NoJti,
                     pc |-> CASE k = "approve" -> "pending" [] k = "issue" -> "existing"
                              [] k = "poll" -> "get" [] OTHER -> "find"]
    <3>1. dreq' = [dreq EXCEPT ![q] = h]
      BY <2>1 DEF DevStart
    <3>2. h.dev = d
      OBVIOUS
    <3> QED BY <3>1, <3>2
  <2>4. dreq'[q].dev = d /\ \A i \in DeviceRequests : i # q => dreq'[i] = dreq[i]
    BY <2>2, <2>3
  <2>5. DeviceOwner[d] = u
    BY <2>1, <2>4 DEF UserBusy, InFlight, At, ClientOf, DevInFlight, DevAt, Dev
  <2> QED BY <2>1, <2>5
<1>3. CASE SessionRuns
  <2>1. SessRuns /\ UNCHANGED dreq
    BY <1>3 DEF SessionRuns, devVars
  <2> QED BY <2>1, InFlightStays DEF UserBusy, ClientOf, DevInFlight, DevAt, Dev
<1>4. CASE DeviceRuns
  <2>1. DevRuns /\ UNCHANGED req
    BY <1>4 DEF DeviceRuns, sessVars
  <2> QED BY <2>1, DevInFlightStays DEF UserBusy, InFlight, At, ClientOf, Dev
<1>5. ASSUME NEW x \in Deletions, Deletes(x) PROVE UNCHANGED <<req, dreq>>
  BY <1>5 DEF Deletes, FindParent, FindOwned, FindLogins, PurgeAuth, PurgeSessions,
     PurgeTokens, DropStudents, DropLogins, DropUser, Audit, FailDeletion, sessVars, devVars
<1>6. ASSUME NEW x \in Deletions, NEW p \in Users, StartDeletion(x, p)
      PROVE  UNCHANGED <<req, dreq>>
  BY <1>6 DEF StartDeletion, sessVars, devVars
<1>7. UNCHANGED vars => UNCHANGED <<req, dreq>>
  BY DEF vars, sessVars, devVars
<1>8. UNCHANGED <<req, dreq>> => FALSE
  BY DEF UserBusy, InFlight, At, ClientOf, DevInFlight, DevAt, Dev
<1> QED BY <1>1, <1>2, <1>3, <1>4, <1>5, <1>6, <1>7, <1>8
        DEF Next, SessionsBegin, DevicesBegin, DeletionBegins

LEMMA DevCleanStays ==
  ASSUME DevInv, [Next]_vars, NEW u, DevClean(u), ~UserBusy(u)
  PROVE  DevClean(u)'
<1> SUFFICES ASSUME NEW d \in Devices, DeviceOwner[d] = u, auth'[d].status = "approved"
             PROVE  FALSE
  BY DEF DevClean
<1>1. auth[d].status # "approved" /\ auth \in [Devices -> Auth]
  BY DEF DevClean, DevInv, DevTypeOK
<1>2. ASSUME NEW r \in DeviceRequests, DevServer(r) PROVE FALSE
  <2>1. Dev(r) \in Devices
    BY DevFacts
  <2>2. CASE Approve(r)
    <3>1. DevInFlight(r)
      BY <2>2 DEF Approve, DevInFlight, DevAt
    <3>2. Dev(r) # d
      BY <3>1 DEF UserBusy
    <3> QED BY <1>1, <2>1, <2>2, <3>2 DEF Approve
  <2>3. CASE Deliver(r) \/ DeliverLost(r)
    BY <1>1, <2>1, <2>3 DEF Deliver, DeliverLost, Auth
  <2>4. CASE ~(Approve(r) \/ Deliver(r) \/ DeliverLost(r))
    BY <1>1, <1>2, <2>4 DEF DevServer, FindPending, FindExisting, MarkOld, Upsert, RecordJti,
       AnswerIssue, Poll, FindDevice, RevokeDevice, MarkLast, DevFail
  <2> QED BY <2>2, <2>3, <2>4
<1>3. ASSUME NEW e \in Devices, ExpireCode(e) PROVE FALSE
  BY <1>1, <1>3 DEF ExpireCode, Auth
<1>4. ASSUME NEW r \in DeviceRequests, NEW e \in Devices, NEW k, DevStart(r, e, k) PROVE FALSE
  BY <1>1, <1>4 DEF DevStart
<1>5. ASSUME NEW x \in Deletions, PurgeAuth(x) PROVE FALSE
  BY <1>1, <1>5 DEF PurgeAuth, Auth
<1>6. UNCHANGED devVars => FALSE
  BY <1>1 DEF devVars
<1> QED BY <1>2, <1>3, <1>4, <1>5, <1>6, DeviceSteps DEF DevRuns

-----------------------------------------------------------------------------
(* What the steps do to the deletions.                                     *)

Hands(d) == <<d.found, d.logins, d.left, d.target>>

\* d and, after a step that is not its own, e.
Elsewhere(d, e) ==
  /\ e.pc = d.pc /\ e.parent = d.parent /\ Hands(e) = Hands(d)
  /\ d.raced => e.raced

LEMMA DelFields ==
  ASSUME DelTypeOK, NEW x \in Deletions, Deletes(x), NEW d, d = deletion[x],
         NEW e, e = deletion'[x]
  PROVE  /\ \A y \in Deletions : y # x => deletion'[y] = deletion[y]
         /\ e.parent = d.parent /\ e.raced = d.raced
         /\ d.pc \notin {"idle", "done", "failed"} /\ e.pc # "idle"
         /\ FindParent(x) => d.pc = "parent" /\ e.pc \in {"students", "failed"}
                             /\ Hands(e) = Hands(d)
         /\ FindOwned(x) => /\ d.pc = "students" /\ e.pc = "logins"
                            /\ e.found = {s \in students : ParentOf[s] = d.parent}
                            /\ e.logins = d.logins /\ e.left = d.left
         /\ FindLogins(x) => /\ d.pc = "logins" /\ e.pc = "auth" /\ e.found = d.found
                             /\ e.logins = {LoginOf[s] : s \in d.found} \intersect users
                             /\ e.left = e.logins /\ e.target = d.parent
         /\ PurgeAuth(x) => d.pc = "auth" /\ e.pc = "sessions" /\ Hands(e) = Hands(d)
         /\ PurgeSessions(x) => d.pc = "sessions" /\ e.pc = "tokens" /\ Hands(e) = Hands(d)
         /\ PurgeTokens(x) =>
              /\ d.pc = "tokens" /\ e.found = d.found /\ e.logins = d.logins
              /\ \/ d.left = {} /\ e.pc = "dropStudents" /\ Hands(e) = Hands(d)
                 \/ e.pc = "auth" /\ e.target \in d.left /\ e.left = d.left \ {e.target}
         /\ DropStudents(x) =>
              /\ d.pc = "dropStudents"
              /\ \/ d.found = {} /\ e.pc = "dropLogins" /\ Hands(e) = Hands(d)
                    /\ students' = students
                 \/ \E s \in d.found : /\ e.pc = "dropStudents" /\ e.found = d.found \ {s}
                                       /\ e.logins = d.logins /\ e.left = d.left
                                       /\ students' = students \ {s}
         /\ DropLogins(x) =>
              /\ d.pc = "dropLogins" /\ e.found = d.found /\ e.left = d.left
              /\ \/ d.logins = {} /\ e.pc = "dropUser" /\ Hands(e) = Hands(d) /\ users' = users
                 \/ \E u \in d.logins : /\ e.pc = "dropLogins" /\ e.logins = d.logins \ {u}
                                        /\ users' = users \ {u}
         /\ DropUser(x) => /\ d.pc = "dropUser" /\ e.pc = "audit" /\ Hands(e) = Hands(d)
                           /\ users' = users \ {d.parent}
         /\ Audit(x) => d.pc = "audit" /\ e.pc = "done" /\ Hands(e) = Hands(d)
         /\ FailDeletion(x) => e.pc = "failed" /\ Hands(e) = Hands(d)
<1>1. d \in Deletion /\ deletion \in [Deletions -> Deletion]
  BY DEF DelTypeOK
<1>2. ASSUME NEW f, DelGoes(x, f)
      PROVE  e = f /\ \A y \in Deletions : y # x => deletion'[y] = deletion[y]
  BY <1>1, <1>2 DEF DelGoes
<1>3. ASSUME NEW p, DelStep(x, p)
      PROVE  /\ \A y \in Deletions : y # x => deletion'[y] = deletion[y]
             /\ e.pc = p /\ e.parent = d.parent /\ e.raced = d.raced /\ Hands(e) = Hands(d)
  <2>1. DelGoes(x, [d EXCEPT !.pc = p])
    BY <1>3 DEF DelStep
  <2> QED BY <1>1, <1>2, <2>1 DEF Deletion, Hands
<1>4. ASSUME FindParent(x) \/ PurgeAuth(x) \/ PurgeSessions(x) \/ DropUser(x) \/ Audit(x)
             \/ FailDeletion(x)
      PROVE  \E p : DelStep(x, p) /\ p # "idle"
  BY <1>4 DEF FindParent, PurgeAuth, PurgeSessions, DropUser, Audit, FailDeletion
<1>5. ASSUME FindOwned(x)
      PROVE  /\ \A y \in Deletions : y # x => deletion'[y] = deletion[y]
             /\ e.parent = d.parent /\ e.raced = d.raced
             /\ d.pc = "students" /\ e.pc = "logins"
             /\ e.found = {s \in students : ParentOf[s] = d.parent}
             /\ e.logins = d.logins /\ e.left = d.left
  <2>0. PICK fs : fs = {s \in students : ParentOf[s] = d.parent}
    OBVIOUS
  <2>1. DelGoes(x, [d EXCEPT !.pc = "logins", !.found = fs]) /\ d.pc = "students"
    BY <1>5, <2>0 DEF FindOwned, DelAt
  <2>2. /\ \A y \in Deletions : y # x => deletion'[y] = deletion[y]
        /\ e = [d EXCEPT !.pc = "logins", !.found = fs]
    BY <1>2, <2>1
  <2> QED BY <1>1, <2>0, <2>1, <2>2 DEF Deletion
<1>6. ASSUME FindLogins(x)
      PROVE  /\ \A y \in Deletions : y # x => deletion'[y] = deletion[y]
             /\ e.parent = d.parent /\ e.raced = d.raced
             /\ d.pc = "logins" /\ e.pc = "auth" /\ e.found = d.found
             /\ e.logins = {LoginOf[s] : s \in d.found} \intersect users
             /\ e.left = e.logins /\ e.target = d.parent
  <2>0. PICK ls : ls = {LoginOf[s] : s \in d.found} \intersect users
    OBVIOUS
  <2>1. DelGoes(x, [d EXCEPT !.pc = "auth", !.logins = ls, !.left = ls, !.target = d.parent])
    BY <1>6, <2>0 DEF FindLogins
  <2>2. /\ \A y \in Deletions : y # x => deletion'[y] = deletion[y]
        /\ e = [d EXCEPT !.pc = "auth", !.logins = ls, !.left = ls, !.target = d.parent]
    BY <1>2, <2>1
  <2> QED BY <1>1, <1>6, <2>0, <2>2 DEF Deletion, FindLogins, DelAt
<1>7. ASSUME PurgeTokens(x)
      PROVE  /\ \A y \in Deletions : y # x => deletion'[y] = deletion[y]
             /\ e.parent = d.parent /\ e.raced = d.raced
             /\ d.pc = "tokens" /\ e.found = d.found /\ e.logins = d.logins
             /\ \/ d.left = {} /\ e.pc = "dropStudents" /\ Hands(e) = Hands(d)
                \/ e.pc = "auth" /\ e.target \in d.left /\ e.left = d.left \ {e.target}
  <2>1. CASE d.left = {}
    <3>1. DelStep(x, "dropStudents") /\ d.pc = "tokens"
      BY <1>7, <2>1 DEF PurgeTokens, DelAt
    <3> QED BY <1>3, <2>1, <3>1 DEF Hands
  <2>2. CASE d.left # {}
    <3>1. PICK u \in d.left :
            DelGoes(x, [d EXCEPT !.pc = "auth", !.target = u, !.left = @ \ {u}])
      BY <1>7, <2>2 DEF PurgeTokens
    <3>2. d.pc = "tokens"
      BY <1>7 DEF PurgeTokens, DelAt
    <3>3. /\ \A y \in Deletions : y # x => deletion'[y] = deletion[y]
          /\ e = [d EXCEPT !.pc = "auth", !.target = u, !.left = @ \ {u}]
      BY <1>2, <3>1
    <3> QED BY <1>1, <3>1, <3>2, <3>3 DEF Deletion
  <2> QED BY <2>1, <2>2
<1>8. ASSUME DropStudents(x)
      PROVE  /\ \A y \in Deletions : y # x => deletion'[y] = deletion[y]
             /\ e.parent = d.parent /\ e.raced = d.raced
             /\ d.pc = "dropStudents"
             /\ \/ d.found = {} /\ e.pc = "dropLogins" /\ Hands(e) = Hands(d)
                   /\ students' = students
                \/ \E s \in d.found : /\ e.pc = "dropStudents" /\ e.found = d.found \ {s}
                                      /\ e.logins = d.logins /\ e.left = d.left
                                      /\ students' = students \ {s}
  <2>1. d.pc = "dropStudents"
    BY <1>8 DEF DropStudents, DelAt
  <2>2. CASE d.found = {}
    <3>1. DelStep(x, "dropLogins") /\ students' = students
      BY <1>8, <2>2 DEF DropStudents
    <3> QED BY <1>3, <2>1, <2>2, <3>1
  <2>3. CASE d.found # {}
    <3>1. PICK s \in d.found :
            DelGoes(x, [d EXCEPT !.found = @ \ {s}]) /\ students' = students \ {s}
      BY <1>8, <2>3 DEF DropStudents
    <3>2. /\ \A y \in Deletions : y # x => deletion'[y] = deletion[y]
          /\ e = [d EXCEPT !.found = @ \ {s}]
      BY <1>2, <3>1
    <3> QED BY <1>1, <2>1, <3>1, <3>2 DEF Deletion
  <2> QED BY <2>2, <2>3
<1>9. ASSUME DropLogins(x)
      PROVE  /\ \A y \in Deletions : y # x => deletion'[y] = deletion[y]
             /\ e.parent = d.parent /\ e.raced = d.raced
             /\ d.pc = "dropLogins" /\ e.found = d.found /\ e.left = d.left
             /\ \/ d.logins = {} /\ e.pc = "dropUser" /\ Hands(e) = Hands(d) /\ users' = users
                \/ \E u \in d.logins : /\ e.pc = "dropLogins" /\ e.logins = d.logins \ {u}
                                       /\ users' = users \ {u}
  <2>1. d.pc = "dropLogins"
    BY <1>9 DEF DropLogins, DelAt
  <2>2. CASE d.logins = {}
    <3>1. DelStep(x, "dropUser") /\ users' = users
      BY <1>9, <2>2 DEF DropLogins
    <3> QED BY <1>3, <2>1, <2>2, <3>1 DEF Hands
  <2>3. CASE d.logins # {}
    <3>1. PICK u \in d.logins :
            DelGoes(x, [d EXCEPT !.logins = @ \ {u}]) /\ users' = users \ {u}
      BY <1>9, <2>3 DEF DropLogins, DropsUser
    <3>2. /\ \A y \in Deletions : y # x => deletion'[y] = deletion[y]
          /\ e = [d EXCEPT !.logins = @ \ {u}]
      BY <1>2, <3>1
    <3> QED BY <1>1, <2>1, <3>1, <3>2 DEF Deletion
  <2> QED BY <2>2, <2>3
<1>10. /\ FindParent(x) => d.pc = "parent" /\ e.pc \in {"students", "failed"}
                           /\ Hands(e) = Hands(d)
       /\ PurgeAuth(x) => d.pc = "auth" /\ e.pc = "sessions" /\ Hands(e) = Hands(d)
       /\ PurgeSessions(x) => d.pc = "sessions" /\ e.pc = "tokens" /\ Hands(e) = Hands(d)
  BY <1>3 DEF FindParent, PurgeAuth, PurgeSessions, DelAt
<1>11. /\ DropUser(x) => /\ d.pc = "dropUser" /\ e.pc = "audit" /\ Hands(e) = Hands(d)
                         /\ users' = users \ {d.parent}
       /\ Audit(x) => d.pc = "audit" /\ e.pc = "done" /\ Hands(e) = Hands(d)
       /\ FailDeletion(x) => e.pc = "failed" /\ Hands(e) = Hands(d)
                             /\ d.pc \notin {"idle", "done", "failed"}
  BY <1>3 DEF DropUser, DropsUser, Audit, FailDeletion, DelAt, Deleting
<1>12. /\ \A y \in Deletions : y # x => deletion'[y] = deletion[y]
       /\ e.parent = d.parent /\ e.raced = d.raced
       /\ d.pc \notin {"idle", "done", "failed"} /\ e.pc # "idle"
  <2>1. CASE FindParent(x) \/ PurgeAuth(x) \/ PurgeSessions(x) \/ DropUser(x) \/ Audit(x)
             \/ FailDeletion(x)
    <3>1. PICK p : DelStep(x, p) /\ p # "idle"
      BY <1>4, <2>1
    <3> QED BY <1>3, <1>10, <1>11, <2>1, <3>1
  <2>2. CASE FindOwned(x)
    BY <1>5, <2>2
  <2>3. CASE FindLogins(x)
    BY <1>6, <2>3
  <2>4. CASE PurgeTokens(x)
    BY <1>7, <2>4
  <2>5. CASE DropStudents(x)
    BY <1>8, <2>5
  <2>6. CASE DropLogins(x)
    BY <1>9, <2>6
  <2> QED BY <2>1, <2>2, <2>3, <2>4, <2>5, <2>6 DEF Deletes
<1> QED BY <1>5, <1>6, <1>7, <1>8, <1>9, <1>10, <1>11, <1>12

\* The steps, seen from the deletions.
LEMMA NextForms ==
  ASSUME DelTypeOK, [Next]_vars
  PROVE  \/ /\ UNCHANGED <<students, cut, users>>
            /\ \A y \in Deletions : Elsewhere(deletion[y], deletion'[y])
         \/ \E x \in Deletions, p \in Users : StartDeletion(x, p)
         \/ \E x \in Deletions : Deletes(x)
<1> DEFINE G == /\ UNCHANGED <<students, cut, users>>
                /\ \A y \in Deletions : Elsewhere(deletion[y], deletion'[y])
<1>1. UNCHANGED <<students, deletion, cut, users>> => G
  BY DEF Elsewhere
<1>2. ASSUME NEW u, Races(u), UNCHANGED <<students, cut, users>> PROVE G
  <2>1. ASSUME NEW y \in Deletions PROVE Elsewhere(deletion[y], deletion'[y])
    <3>1. deletion'[y] \in {deletion[y], [deletion[y] EXCEPT !.raced = TRUE]}
      BY <1>2 DEF Races
    <3>2. deletion[y] \in Deletion
      BY DEF DelTypeOK
    <3> QED BY <3>1, <3>2 DEF Elsewhere, Hands, Deletion
  <2> QED BY <1>2, <2>1
<1>3. SessionRuns => UNCHANGED <<students, deletion, cut, users>>
  <2>1. ASSUME NEW r \in Requests, SessServer(r) PROVE users' = users
    BY <2>1 DEF SessServer, Check, Reuse, FindUser, Rotate, Create, FindRow, WriteRow,
       RevokeFamily, FindLogout, LogoutRows, FindAgain, FindTarget, Delist, DelistOthers,
       Delists, Answer, Refuse, Fail, Step, store
  <2>2. ASSUME NEW r \in Requests, Expire(r) \/ Sweep(r) PROVE users' = users
    BY <2>2 DEF Expire, Sweep
  <2>3. ASSUME NEW c \in Clients, AppLogout(c) PROVE users' = users
    BY <2>3 DEF AppLogout, store
  <2> QED BY <2>1, <2>2, <2>3 DEF SessionRuns, SessRuns
<1>4. DeviceRuns \/ UNCHANGED vars => UNCHANGED <<students, deletion, cut, users>>
  BY DEF DeviceRuns, vars, sessVars, store
<1>5. SessionsBegin \/ DevicesBegin => \E u : Races(u) /\ UNCHANGED <<students, cut, users>>
  BY DEF SessionsBegin, DevicesBegin, SessionBegins, DeviceBegins, sessVars, store
<1> QED BY <1>1, <1>2, <1>3, <1>4, <1>5 DEF Next, DeletionBegins

\* What a deletion does when another one starts, and what it starts with.
LEMMA StartIs ==
  ASSUME DelTypeOK, NEW x \in Deletions, NEW p \in Users, StartDeletion(x, p)
  PROVE  /\ DelAt(x, "idle") /\ p \in Parents /\ p \in users
         /\ UNCHANGED <<students, cut, users>>
         /\ deletion'[x].pc = "parent" /\ deletion'[x].parent = p
         /\ Hands(deletion'[x]) = Hands(deletion[x])
         /\ ~deletion'[x].raced =>
              /\ ~Busy(Household(p))
              /\ \A y \in Deletions : Deleting(y) => deletion[y].parent # p
         /\ \A y \in Deletions : y # x =>
              /\ Elsewhere(deletion[y], deletion'[y])
              /\ Deleting(y) /\ deletion[y].parent = p => deletion'[y].raced
<1> DEFINE beside == {y \in Deletions : Deleting(y) /\ deletion[y].parent = p}
           n == [deletion[x] EXCEPT !.pc = "parent", !.parent = p,
                   !.raced = Busy(Household(p)) \/ beside # {}]
<1>1. /\ deletion' = [y \in Deletions |-> IF y = x THEN n
           ELSE IF y \in beside THEN [deletion[y] EXCEPT !.raced = TRUE] ELSE deletion[y]]
      /\ DelAt(x, "idle") /\ UNCHANGED <<students, cut, users>> /\ p \in Parents /\ p \in users
  BY DEF StartDeletion, sessVars, store
<1>2. /\ n.pc = "parent" /\ n.parent = p /\ Hands(n) = Hands(deletion[x])
      /\ ~n.raced => ~Busy(Household(p)) /\ beside = {}
  <2>1. deletion[x] \in Deletion
    BY DEF DelTypeOK
  <2> QED BY <2>1 DEF Deletion, Hands
<1> HIDE DEF n
<1>3. ASSUME NEW y \in Deletions, y # x
      PROVE  /\ Elsewhere(deletion[y], deletion'[y])
             /\ Deleting(y) /\ deletion[y].parent = p => deletion'[y].raced
  <2>1. deletion[y] \in Deletion
    BY DEF DelTypeOK
  <2> QED BY <1>1, <1>3, <2>1 DEF Elsewhere, Hands, Deletion
<1> QED BY <1>1, <1>2, <1>3

\* A deletion that has begun keeps its parent, and an end is an end.
LEMMA DelKept ==
  ASSUME DelTypeOK, [Next]_vars, NEW y \in Deletions, ~DelAt(y, "idle")
  PROVE  /\ ~DelAt(y, "idle")' /\ deletion'[y].parent = deletion[y].parent
         /\ deletion[y].raced => deletion'[y].raced
         /\ \A p \in {"failed", "done"} : DelAt(y, p) => DelAt(y, p)'
<1>1. CASE Elsewhere(deletion[y], deletion'[y])
  BY <1>1 DEF Elsewhere, DelAt
<1>2. ASSUME NEW x \in Deletions, NEW p \in Users, StartDeletion(x, p)
      PROVE  Elsewhere(deletion[y], deletion'[y])
  BY <1>2, StartIs
<1>3. ASSUME NEW x \in Deletions, Deletes(x), x # y PROVE deletion'[y] = deletion[y]
  BY <1>3, DelFields
<1>4. CASE Deletes(y)
  BY <1>4, DelFields DEF DelAt
<1> QED BY <1>1, <1>2, <1>3, <1>4, NextForms DEF DelAt

\* A deletion that is new has just started.
LEMMA DelBegins ==
  ASSUME DelTypeOK, [Next]_vars, NEW y \in Deletions, DelAt(y, "idle"), ~DelAt(y, "idle")'
  PROVE  \E p \in Users : StartDeletion(y, p) /\ deletion'[y].parent = p
<1>1. ~Elsewhere(deletion[y], deletion'[y])
  BY DEF Elsewhere, DelAt
<1>2. ASSUME NEW x \in Deletions, Deletes(x) PROVE FALSE
  BY <1>2, DelFields DEF DelAt
<1>3. PICK x \in Deletions, p \in Users : StartDeletion(x, p)
  BY <1>1, <1>2, NextForms
<1> QED BY <1>1, <1>3, StartIs

LEMMA CountsBack ==
  ASSUME DelTypeOK, [Next]_vars, NEW y \in Deletions, Counts(y)', ~DelAt(y, "idle")
  PROVE  Counts(y) /\ deletion'[y].parent = deletion[y].parent
BY DelKept DEF Counts

LEMMA AloneNext ==
  ASSUME SessInv, DevInv, DelTypeOK, FormInv, AloneInv, [Next]_vars
  PROVE  AloneInv'
<1> SUFFICES ASSUME NEW x \in Deletions, Counts(x)'
             PROVE  /\ \A u \in Household(deletion'[x].parent) : ~UserBusy(u)'
                    /\ \A y \in Deletions :
                         y # x /\ ~DelAt(y, "idle")' /\ deletion'[y].parent = deletion'[x].parent
                           => DelAt(y, "failed")'
  BY DEF AloneInv, Household
<1>0. PICK p : p = deletion'[x].parent
  OBVIOUS
<1>d. ASSUME NEW y \in Deletions, DelAt(y, "done") PROVE deletion[y].parent \notin users
  BY <1>d DEF FormInv, Form, DelAt
<1>1. CASE DelAt(x, "idle")
  <2>1. p \in Users /\ StartDeletion(x, p)
    BY <1>0, <1>1, DelBegins DEF Counts
  <2>2. /\ p \in users /\ ~Busy(Household(p))
        /\ \A y \in Deletions : Deleting(y) => deletion[y].parent # p
        /\ \A y \in Deletions : y # x => Elsewhere(deletion[y], deletion'[y])
    BY <2>1, StartIs DEF Counts
  <2>3. UNCHANGED <<req, dreq>>
    BY <2>1 DEF StartDeletion, sessVars, devVars
  <2>4. ASSUME NEW u \in Household(p) PROVE ~UserBusy(u)'
    BY <2>2, <2>3, <2>4 DEF Busy, UserBusy, InFlight, At, ClientOf, DevInFlight, DevAt, Dev
  <2>5. ASSUME NEW y \in Deletions, y # x, ~DelAt(y, "idle")', deletion'[y].parent = p
        PROVE  DelAt(y, "failed")'
    <3>1. Elsewhere(deletion[y], deletion'[y])
      BY <2>2, <2>5
    <3>2. ~DelAt(y, "idle") /\ deletion[y].parent = p
      BY <2>5, <3>1 DEF Elsewhere, DelAt
    <3>3. ~DelAt(y, "done")
      BY <1>d, <2>2, <3>2
    <3>4. DelAt(y, "failed")
      BY <2>2, <3>2, <3>3 DEF Deleting, DelAt
    <3> QED BY <3>2, <3>4, DelKept
  <2> QED BY <1>0, <2>4, <2>5
<1>2. CASE ~DelAt(x, "idle")
  <2>1. Counts(x) /\ deletion[x].parent = p
    BY <1>0, <1>2, CountsBack
  <2>2. ASSUME NEW u \in Household(p), UserBusy(u)' PROVE FALSE
    <3>1. ~UserBusy(u)
      BY <2>1, <2>2 DEF AloneInv
    <3>2. Races(u)
      BY <2>2, <3>1, BusyBegins
    <3>3. deletion'[x].raced
      <4>1. deletion[x] \in Deletion
        BY DEF DelTypeOK
      <4> QED BY <1>2, <2>1, <2>2, <3>2, <4>1 DEF Races, Deletion
    <3> QED BY <3>3 DEF Counts
  <2>3. ASSUME NEW y \in Deletions, y # x, ~DelAt(y, "idle")', deletion'[y].parent = p
        PROVE  DelAt(y, "failed")'
    <3>1. CASE ~DelAt(y, "idle")
      BY <2>1, <2>3, <3>1, DelKept DEF AloneInv
    <3>2. CASE DelAt(y, "idle")
      <4>1. p \in Users /\ StartDeletion(y, p)
        BY <2>3, <3>2, DelBegins
      <4>2. p \in users /\ ~(Deleting(x) /\ deletion[x].parent = p)
        BY <2>3, <4>1, StartIs DEF Counts
      <4>3. DelAt(x, "done")
        BY <2>1, <4>2 DEF Counts, Deleting, DelAt
      <4> QED BY <1>d, <2>1, <4>2, <4>3
    <3> QED BY <3>1, <3>2
  <2> QED BY <1>0, <2>2, <2>3
<1> QED BY <1>1, <1>2

LEMMA DelFrame ==
  ASSUME NEW x \in Deletions, Deletes(x)
  PROVE  /\ ~DropLogins(x) /\ ~DropUser(x) => users' = users
         /\ ~DropStudents(x) => students' = students
         /\ ~FailDeletion(x) => cut' = cut
         /\ cut \subseteq cut'
BY DEF Deletes, FindParent, FindOwned, FindLogins, PurgeAuth, PurgeSessions, PurgeTokens,
   DropStudents, DropLogins, DropUser, Audit, FailDeletion, sessVars, store

LEMMA FormKept ==
  ASSUME NEW d, NEW e, Form(d), e.pc = d.pc, e.parent = d.parent, Hands(e) = Hands(d),
         users' \subseteq users, students' \subseteq students
  PROVE  Form(e)'
<1>1. e.found = d.found /\ e.logins = d.logins /\ e.left = d.left /\ e.target = d.target
  BY DEF Hands
<1> QED BY <1>1 DEF Form, Purging

LEMMA StudentsOnlyGo ==
  ASSUME DelTypeOK, [Next]_vars
  PROVE  students' \subseteq students /\ cut \subseteq cut'
<1>1. ASSUME NEW x \in Deletions, Deletes(x) PROVE students' \subseteq students
  <2>1. CASE DropStudents(x)
    BY <1>1, <2>1, DelFields
  <2> QED BY <1>1, <2>1, DelFrame
<1>2. ASSUME NEW x \in Deletions, NEW p \in Users, StartDeletion(x, p)
      PROVE  UNCHANGED <<students, cut>>
  BY <1>2, StartIs
<1> QED BY <1>1, <1>2, DelFrame, NextForms

LEMMA FormNext ==
  ASSUME SessInv, DelTypeOK, FormInv, [Next]_vars
  PROVE  FormInv'
<1>0. users' \subseteq users /\ students' \subseteq students
  BY OnlyMaking, StudentsOnlyGo
<1>b. PICK D : D = deletion'
  OBVIOUS
<1>a. \A s \in Students : ParentOf[s] \in Users /\ LoginOf[s] \in Users
  BY AccountConstants
<1>1. CASE /\ UNCHANGED <<students, cut, users>>
           /\ \A y \in Deletions : Elsewhere(deletion[y], deletion'[y])
  BY <1>0, <1>1, FormKept DEF FormInv, Elsewhere
<1>2. ASSUME NEW x \in Deletions, NEW p \in Users, StartDeletion(x, p) PROVE FormInv'
  <2>1. /\ DelAt(x, "idle") /\ p \in Parents /\ UNCHANGED <<students, users>>
        /\ deletion'[x].pc = "parent" /\ deletion'[x].parent = p
        /\ Hands(deletion'[x]) = Hands(deletion[x])
        /\ \A y \in Deletions : y # x => Elsewhere(deletion[y], deletion'[y])
    BY <1>2, StartIs
  <2>2. Form(D[x])'
    BY <1>b, <2>1 DEF FormInv, Form, Hands, DelAt, Purging
  <2>3. ASSUME NEW y \in Deletions, y # x PROVE Form(D[y])'
    BY <1>0, <1>b, <2>1, <2>3, FormKept DEF FormInv, Elsewhere
  <2> QED BY <1>b, <2>1, <2>2, <2>3 DEF FormInv
<1>3. ASSUME NEW x \in Deletions, Deletes(x) PROVE FormInv'
  <2>0. PICK d, e : d = deletion[x] /\ e = deletion'[x]
    OBVIOUS
  <2>1. Form(d) /\ d \in Deletion
    BY <2>0 DEF FormInv, DelTypeOK
  <2>2. Form(e)'
    <3>1. CASE FindParent(x)
      BY <1>0, <1>3, <2>0, <2>1, <3>1, DelFields DEF Form, Hands, Purging
    <3>2. CASE FindOwned(x)
      BY <1>0, <1>3, <2>0, <2>1, <3>2, DelFields DEF Form, Purging
    <3>3. CASE FindLogins(x)
      <4>1. /\ d.pc = "logins" /\ e.pc = "auth" /\ e.found = d.found /\ e.parent = d.parent
            /\ e.logins = {LoginOf[s] : s \in d.found} \intersect users /\ e.left = e.logins
            /\ e.target = e.parent
        BY <1>3, <2>0, <3>3, DelFields
      <4>2. d.found \subseteq Students
        BY <2>1 DEF Deletion
      <4>3. e.logins \subseteq Logins
        BY <4>1, <4>2 DEF Logins
      <4> QED BY <2>1, <4>1, <4>2, <4>3 DEF Form, Purging
    <3>4. CASE PurgeAuth(x) \/ PurgeSessions(x)
      BY <1>0, <1>3, <2>0, <2>1, <3>4, DelFields DEF Form, Hands, Purging
    <3>5. CASE PurgeTokens(x)
      <4>1. /\ d.pc = "tokens" /\ e.found = d.found /\ e.parent = d.parent
            /\ e.logins = d.logins /\ e.left \subseteq d.left
            /\ \/ e.pc = "dropStudents"
               \/ e.pc = "auth" /\ e.target \in d.left
        BY <1>3, <2>0, <3>5, DelFields DEF Hands
      <4> QED BY <1>0, <2>1, <4>1 DEF Form, Purging
    <3>6. CASE DropStudents(x)
      <4>1. /\ d.pc = "dropStudents" /\ e.parent = d.parent
            /\ e.logins = d.logins /\ e.left = d.left
            /\ e.found \subseteq d.found /\ students' = students \ (d.found \ e.found)
            /\ \/ e.pc = "dropStudents"
               \/ e.pc = "dropLogins" /\ e.found = {}
        <5>1. CASE d.found = {} /\ e.pc = "dropLogins" /\ Hands(e) = Hands(d)
                   /\ students' = students
          BY <1>3, <2>0, <3>6, <5>1, DelFields DEF Hands
        <5>2. CASE \E s \in d.found : /\ e.pc = "dropStudents" /\ e.found = d.found \ {s}
                                      /\ e.logins = d.logins /\ e.left = d.left
                                      /\ students' = students \ {s}
          BY <1>3, <2>0, <3>6, <5>2, DelFields
        <5> QED BY <1>3, <2>0, <3>6, <5>1, <5>2, DelFields
      <4> QED BY <2>1, <4>1 DEF Form, Purging
    <3>7. CASE DropLogins(x)
      <4>1. /\ d.pc = "dropLogins" /\ e.found = d.found /\ e.parent = d.parent
            /\ e.left = d.left /\ e.logins \subseteq d.logins
            /\ \/ e.pc = "dropLogins"
               \/ e.pc = "dropUser" /\ e.logins = {}
        BY <1>3, <2>0, <3>7, DelFields DEF Hands
      <4> QED BY <1>0, <2>1, <4>1 DEF Form, Purging
    <3>8. CASE DropUser(x)
      BY <1>0, <1>3, <2>0, <2>1, <3>8, DelFields DEF Form, Hands, Purging
    <3>9. CASE Audit(x)
      BY <1>0, <1>3, <2>0, <2>1, <3>9, DelFields DEF Form, Hands, Purging
    <3>10. CASE FailDeletion(x)
      <4>1. /\ e.pc = "failed" /\ e.parent = d.parent /\ Hands(e) = Hands(d)
            /\ d.pc # "idle"
        BY <1>3, <2>0, <3>10, DelFields
      <4> QED BY <1>0, <2>1, <4>1 DEF Form, Hands, Purging
    <3> QED BY <1>3, <3>1, <3>2, <3>3, <3>4, <3>5, <3>6, <3>7, <3>8, <3>9, <3>10 DEF Deletes
  <2>3. ASSUME NEW y \in Deletions PROVE Form(D[y])'
    <3>1. CASE y = x
      BY <1>b, <2>0, <2>2, <3>1
    <3>2. CASE y # x
      <4>1. deletion'[y] = deletion[y]
        BY <1>3, <3>2, DelFields
      <4> QED BY <1>0, <1>b, <4>1, FormKept DEF FormInv
    <3> QED BY <3>1, <3>2
  <2>4. ASSUME NEW u \in Logins \ users'
        PROVE  \E s \in Students \ students' : LoginOf[s] = u
    <3>1. CASE u \notin users
      BY <1>0, <2>4, <3>1 DEF FormInv
    <3>2. CASE u \in users /\ DropLogins(x)
      <4>1. u \in d.logins /\ d.found = {} /\ d.pc = "dropLogins"
        <5>1. d.pc = "dropLogins" /\ (users' = users \/ \E v \in d.logins : users' = users \ {v})
          BY <1>3, <2>0, <3>2, DelFields
        <5> QED BY <2>1, <2>4, <3>2, <5>1 DEF Form, Purging
      <4>2. PICK s \in Students : LoginOf[s] = u /\ s \notin students
        BY <2>1, <4>1 DEF Form, Purging
      <4> QED BY <1>0, <4>2
    <3>3. CASE u \in users /\ DropUser(x)
      <4>1. u = d.parent /\ d.parent \in Parents
        <5>1. d.pc = "dropUser" /\ users' = users \ {d.parent}
          BY <1>3, <2>0, <3>3, DelFields
        <5> QED BY <2>1, <2>4, <3>3, <5>1 DEF Form, Purging
      <4> QED BY <2>4, <4>1, AccountConstants DEF Parents, Logins
    <3>4. CASE u \in users /\ ~DropLogins(x) /\ ~DropUser(x)
      BY <1>3, <2>4, <3>4, DelFrame
    <3> QED BY <3>1, <3>2, <3>3, <3>4
  <2> QED BY <1>b, <2>3, <2>4 DEF FormInv, Logins
<1> QED BY <1>1, <1>2, <1>3, NextForms

LEMMA LateGoes ==
  ASSUME DelTypeOK, [Next]_vars, NEW y \in Deletions, deletion[y].pc \in Late
  PROVE  deletion'[y].pc \in Late \/ FailDeletion(y)
<1>1. ASSUME NEW x \in Deletions, NEW p \in Users, StartDeletion(x, p), x # y
      PROVE  deletion'[y].pc = deletion[y].pc
  BY <1>1, StartIs DEF Elsewhere
<1>2. ASSUME NEW p \in Users, StartDeletion(y, p) PROVE FALSE
  BY <1>2, StartIs DEF DelAt, Late
<1>3. ASSUME NEW x \in Deletions, Deletes(x), x # y PROVE deletion'[y] = deletion[y]
  BY <1>3, DelFields
<1>4. ASSUME Deletes(y), ~FailDeletion(y) PROVE deletion'[y].pc \in Late
  <2>1. ~(FindParent(y) \/ FindOwned(y) \/ FindLogins(y) \/ PurgeAuth(y) \/ PurgeSessions(y)
          \/ PurgeTokens(y))
    BY DEF FindParent, FindOwned, FindLogins, PurgeAuth, PurgeSessions, PurgeTokens, DelAt, Late
  <2>2. DropStudents(y) => deletion'[y].pc \in {"dropStudents", "dropLogins"}
    BY <1>4, DelFields
  <2>3. DropLogins(y) => deletion'[y].pc \in {"dropLogins", "dropUser"}
    BY <1>4, DelFields
  <2>4. DropUser(y) \/ Audit(y) => deletion'[y].pc \in {"audit", "done"}
    BY <1>4, DelFields
  <2> QED BY <1>4, <2>1, <2>2, <2>3, <2>4 DEF Deletes, Late
<1> QED BY <1>1, <1>2, <1>3, <1>4, NextForms DEF Elsewhere

LEMMA QuietMakesNothing ==
  ASSUME NEW u, ~UserBusy(u)
  PROVE  \A r \in Requests : req[r].pc \in Making => UserOf[ClientOf(r)] # u
BY DEF UserBusy, InFlight, At, Making

LEMMA InHousehold ==
  ASSUME NEW s \in Students
  PROVE  LoginOf[s] \in Household(ParentOf[s]) \ {ParentOf[s]}
BY AccountConstants DEF Household

LEMMA GoneNext ==
  ASSUME SessInv, DelTypeOK, FormInv, AloneInv, GoneInv, StageInv, [Next]_vars
  PROVE  GoneInv'
<1> SUFFICES ASSUME NEW s \in Students, s \notin students', ParentOf[s] \notin cut',
                    ~Gone(LoginOf[s])'
             PROVE  \E y \in Deletions : deletion'[y].parent = ParentOf[s]
                                         /\ deletion'[y].pc \in Late
  BY DEF GoneInv
<1>0. ~Gone(LoginOf[s]) /\ ParentOf[s] \notin cut
  BY GoneStays, StudentsOnlyGo
<1>1. CASE s \notin students
  <2>1. PICK y \in Deletions : deletion[y].parent = ParentOf[s] /\ deletion[y].pc \in Late
    BY <1>0, <1>1 DEF GoneInv
  <2>2. ~DelAt(y, "idle")
    BY <2>1 DEF DelAt, Late
  <2>3. ASSUME FailDeletion(y) PROVE FALSE
    <3>1. deletion[y].logins = {} /\ ~deletion[y].raced
      BY <1>1, <2>1, <2>3 DEF FailDeletion
    <3>2. Counts(y)
      BY <2>1, <2>2, <3>1 DEF Counts, DelAt, Late
    <3>3. Stage(deletion[y])
      BY <1>0, <2>1, <3>2 DEF StageInv
    <3>4. SessClean(LoginOf[s]) /\ LoginOf[s] \notin users
      BY <2>1, <3>1, <3>3, InHousehold DEF Stage
    <3>5. ~UserBusy(LoginOf[s])
      BY <2>1, <3>2, InHousehold DEF AloneInv
    <3> QED BY <1>0, <3>4, <3>5, QuietMakesNothing DEF Gone
  <2> QED BY <2>1, <2>2, <2>3, LateGoes, DelKept
<1>2. CASE s \in students
  <2>1. PICK x \in Deletions : Deletes(x) /\ DropStudents(x)
    <3>1. PICK x \in Deletions : Deletes(x)
      BY <1>2, NextForms, StartIs
    <3> QED BY <1>2, <3>1, DelFrame
  <2>2. PICK t \in deletion[x].found : /\ deletion'[x].pc = "dropStudents"
                                       /\ students' = students \ {t}
    BY <1>2, <2>1, DelFields
  <2>3. t = s /\ deletion'[x].parent = deletion[x].parent
    BY <1>2, <2>1, <2>2, DelFields
  <2>4. deletion[x].parent = ParentOf[s]
    BY <2>2, <2>3 DEF FormInv, Form
  <2> QED BY <2>2, <2>3, <2>4 DEF Late
<1> QED BY <1>1, <1>2

-----------------------------------------------------------------------------
(* What an undisturbed deletion has done, command by command.              *)

\* What a step keeps of the household of a deletion that counts.
Keeps(p) ==
  /\ students' \subseteq students /\ users' \subseteq users
  /\ \A u : Gone(u) => Gone(u)'
  /\ \A u \in Household(p) :
       /\ SessClean(u) => SessClean(u)'
       /\ (\A x \in rows : Owner(Fam(x)) # u) => \A x \in rows' : (Owner(Fam(x)) # u)'
  /\ DevClean(p) => DevClean(p)'

LEMMA HouseholdKept ==
  ASSUME SessInv, DevInv, DelTypeOK, AloneInv, [Next]_vars, NEW x \in Deletions, Counts(x),
         NEW p, p = deletion[x].parent
  PROVE  Keeps(p)
<1>1. \A u \in Household(p) : ~UserBusy(u)
  BY DEF AloneInv
<1>2. p \in Household(p)
  BY DEF Household
<1>3. ASSUME NEW u \in Household(p)
      PROVE  /\ SessClean(u) => SessClean(u)'
             /\ (\A r \in rows : Owner(Fam(r)) # u) => \A r \in rows' : (Owner(Fam(r)) # u)'
  BY <1>1, <1>3, QuietMakesNothing, CleanStays, RowsStayAway
<1>4. DevClean(p) => DevClean(p)'
  BY <1>1, <1>2, DevCleanStays
<1>5. \A u : Gone(u) => Gone(u)'
  BY GoneStays
<1> QED BY <1>3, <1>4, <1>5, OnlyMaking, StudentsOnlyGo DEF Keeps

\* A student of the household that is gone has taken the login along.
LEMMA StudentsGone ==
  ASSUME AloneInv, GoneInv, NEW x \in Deletions, Counts(x), deletion[x].pc \notin Late,
         deletion[x].parent \notin cut,
         NEW s \in Students \ students, ParentOf[s] = deletion[x].parent
  PROVE  Gone(LoginOf[s])
<1>1. ASSUME NEW y \in Deletions, deletion[y].parent = ParentOf[s], deletion[y].pc \in Late
      PROVE  FALSE
  <2>1. y # x /\ ~DelAt(y, "idle") /\ ~DelAt(y, "failed")
    BY <1>1 DEF DelAt, Late
  <2> QED BY <1>1, <2>1 DEF AloneInv
<1> QED BY <1>1 DEF GoneInv

LEMMA StageElsewhere ==
  ASSUME NEW d \in Deletion, NEW e, Stage(d), Form(d), Keeps(d.parent),
         e.pc = d.pc, e.parent = d.parent, Hands(e) = Hands(d)
  PROVE  Stage(e)'
<1> DEFINE p == d.parent
<1>0. /\ e.found = d.found /\ e.logins = d.logins /\ e.left = d.left /\ e.target = d.target
      /\ students' \subseteq students /\ users' \subseteq users
      /\ \A s \in Students : Gone(LoginOf[s]) => Gone(LoginOf[s])'
      /\ \A u \in Household(p) : SessClean(u) => SessClean(u)'
      /\ DevClean(p) => DevClean(p)'
  BY DEF Hands, Keeps
<1>1. Household(p)' = Household(p)
  BY DEF Household
<1>2. d.pc = "tokens" => d.target \in Household(p)
  BY DEF Form, Purging, Household
<1>3. d.pc = "tokens" => \A x \in rows' : (Owner(Fam(x)) # d.target)'
  BY <1>2 DEF Stage, Keeps
<1>4. (\A x \in rows' : (Owner(Fam(x)) # d.target)')
        => (\A x \in rows : Owner(Fam(x)) # e.target)'
  BY <1>0
<1> QED BY <1>0, <1>1, <1>3, <1>4 DEF Stage

LEMMA StageGoes ==
  ASSUME SessInv, DevInv, DelTypeOK, AloneInv, FormInv, GoneInv, [Next]_vars,
         NEW x \in Deletions, Deletes(x), Counts(x), deletion[x].parent \notin cut,
         Stage(deletion[x]), NEW e, e = deletion'[x]
  PROVE  Stage(e)'
<1>0. PICK d, p : d = deletion[x] /\ p = d.parent
  OBVIOUS
<1>1. /\ d \in Deletion /\ Form(d) /\ Stage(d) /\ Keeps(p) /\ e.parent = p
      /\ p \in Users /\ p \notin cut
  BY <1>0, HouseholdKept, DelFields DEF DelTypeOK, FormInv, Deletion
<1>2. /\ students' \subseteq students /\ users' \subseteq users
      /\ \A s \in Students : Gone(LoginOf[s]) => Gone(LoginOf[s])'
      /\ \A u \in Household(p) : SessClean(u) => SessClean(u)'
      /\ DevClean(p) => DevClean(p)'
  BY <1>1 DEF Keeps
<1>3. /\ Household(p)' = Household(p)
      /\ \A s \in Students : ParentOf[s] = p => LoginOf[s] \in Household(p) \ {p}
      /\ \A u \in Household(p) \ {p} : \E s \in Students : ParentOf[s] = p /\ LoginOf[s] = u
  BY InHousehold DEF Household
<1>4. CASE FindParent(x)
  <2>1. e.pc \in {"students", "failed"}
    BY <1>0, <1>4, DelFields
  <2> QED BY <2>1 DEF Stage, Purging, Late
<1>5. CASE FindOwned(x)
  <2>1. /\ d.pc = "students" /\ e.pc = "logins"
        /\ e.found = {s \in students : ParentOf[s] = p}
    BY <1>0, <1>5, DelFields
  <2>2. ASSUME NEW s \in Students, ParentOf[s] = p, s \notin e.found
        PROVE  Gone(LoginOf[s])'
    <3>1. s \in Students \ students
      BY <2>1, <2>2
    <3>2. Gone(LoginOf[s])
      BY <1>0, <1>1, <2>1, <2>2, <3>1, StudentsGone DEF Late
    <3> QED BY <1>2, <3>2
  <2> QED BY <1>1, <1>2, <2>1, <2>2 DEF Stage, Purging, Late
<1>6. CASE FindLogins(x)
  <2>1. /\ d.pc = "logins" /\ e.pc = "auth" /\ e.found = d.found
        /\ e.logins = {LoginOf[s] : s \in d.found} \intersect users
        /\ e.left = e.logins /\ e.target = p
    BY <1>0, <1>6, DelFields
  <2>2. \A s \in students : ParentOf[s] = p => s \in e.found
    BY <1>0, <1>1, <2>1 DEF Stage, Purging, Late
  <2>3. ASSUME NEW u \in Household(p) \ {p}
        PROVE  u \in e.logins \/ Gone(u)
    <3>1. PICK s \in Students : ParentOf[s] = p /\ LoginOf[s] = u
      BY <1>3, <2>3
    <3>2. CASE s \notin d.found
      BY <1>0, <1>1, <2>1, <3>1, <3>2 DEF Stage, Purging, Late
    <3>3. CASE u \in users /\ s \in d.found
      BY <2>1, <3>1, <3>3
    <3>4. CASE u \notin users
      <4>1. PICK t \in Students \ students : LoginOf[t] = u
        BY <3>1, <3>4 DEF FormInv, Logins
      <4>2. ParentOf[t] = p
        BY <3>1, <4>1, AccountConstants
      <4> QED BY <1>0, <1>1, <2>1, <4>1, <4>2, StudentsGone DEF Late
    <3> QED BY <3>2, <3>3, <3>4
  <2>4. ASSUME NEW u \in Household(p)
        PROVE  /\ u = p \/ u \in e.left \/ SessClean(u)'
               /\ u # p => u \in e.logins \/ u \notin users'
    <3>1. CASE u = p
      BY <3>1
    <3>2. CASE u # p
      BY <1>2, <2>1, <2>3, <2>4, <3>2 DEF Gone
    <3> QED BY <3>1, <3>2
  <2> QED BY <1>1, <1>2, <1>3, <2>1, <2>2, <2>4 DEF Stage, Purging, Late
<1>7. CASE PurgeAuth(x)
  <2>1. d.pc = "auth" /\ e.pc = "sessions" /\ e.found = d.found /\ e.logins = d.logins
        /\ e.left = d.left /\ e.target = d.target
    BY <1>0, <1>7, DelFields DEF Hands
  <2>2. DevClean(p)'
    <3>1. CASE d.target # p
      BY <1>0, <1>1, <1>2, <2>1, <3>1 DEF Stage, Purging
    <3>2. CASE d.target = p
      <4>1. auth \in [Devices -> Auth]
        BY DEF DevInv, DevTypeOK
      <4> QED BY <1>0, <1>7, <3>2, <4>1 DEF PurgeAuth, DevClean, Auth
    <3> QED BY <3>1, <3>2
  <2> QED BY <1>0, <1>1, <1>2, <1>3, <2>1, <2>2 DEF Stage, Purging, Late
<1>8. CASE PurgeSessions(x)
  <2>1. d.pc = "sessions" /\ e.pc = "tokens" /\ e.found = d.found /\ e.logins = d.logins
        /\ e.left = d.left /\ e.target = d.target
    BY <1>0, <1>8, DelFields DEF Hands
  <2>2. ASSUME NEW r \in rows' PROVE (Owner(Fam(r)))' # e.target
    BY <1>0, <1>8, <2>1, <2>2 DEF PurgeSessions, RowsOfUser, RowsOf, Owner, Fam, ClientOf
  <2> QED BY <1>0, <1>1, <1>2, <1>3, <2>1, <2>2 DEF Stage, Purging, Late
<1>9. CASE PurgeTokens(x)
  <2>1. /\ d.pc = "tokens" /\ e.found = d.found /\ e.logins = d.logins
        /\ \/ d.left = {} /\ e.pc = "dropStudents"
           \/ e.pc = "auth" /\ e.target \in d.left /\ e.left = d.left \ {e.target}
    BY <1>0, <1>9, DelFields
  <2>2. d.target \in Household(p)
    BY <1>0, <1>1, <1>3, <2>1 DEF Form, Purging, Household
  <2>3. SessClean(d.target)'
    <3>1. \A r \in rows : Owner(Fam(r)) # d.target
      BY <1>1, <2>1 DEF Stage
    <3> QED BY <1>0, <1>9, <3>1 DEF PurgeTokens, SessClean, Owner, Fam, ClientOf
  <2>4. \A u \in Household(p) : u \in d.left \/ SessClean(u)'
    BY <1>0, <1>1, <1>2, <2>1, <2>3 DEF Stage, Purging
  <2>5. DevClean(p)' /\ \A u \in Household(p) \ {p} : u \in d.logins \/ u \notin users'
    BY <1>0, <1>1, <1>2, <2>1 DEF Stage, Purging
  <2>6. \A s \in students' : ParentOf[s] = p => s \in e.found
    BY <1>0, <1>1, <1>2, <2>1 DEF Stage, Purging
  <2> QED BY <1>1, <1>3, <2>1, <2>4, <2>5, <2>6 DEF Stage, Purging, Late
<1>10. CASE DropStudents(x)
  <2>1. /\ d.pc = "dropStudents" /\ e.logins = d.logins
        /\ e.pc \in {"dropStudents", "dropLogins"}
        /\ students' \intersect d.found \subseteq e.found
    <3>1. \/ d.found = {} /\ e.pc = "dropLogins" /\ Hands(e) = Hands(d)
          \/ \E s \in d.found : /\ e.pc = "dropStudents" /\ e.found = d.found \ {s}
                                /\ e.logins = d.logins /\ students' = students \ {s}
      BY <1>0, <1>10, DelFields
    <3>2. d.pc = "dropStudents"
      BY <1>0, <1>10, DelFields
    <3> QED BY <3>1, <3>2 DEF Hands
  <2>2. \A s \in students' : ParentOf[s] = p => s \in e.found
    BY <1>0, <1>1, <1>2, <2>1 DEF Stage, Late
  <2> QED BY <1>0, <1>1, <1>2, <1>3, <2>1, <2>2 DEF Stage, Purging, Late
<1>11. CASE DropLogins(x)
  <2>1. /\ d.pc = "dropLogins" /\ e.found = d.found
        /\ e.pc \in {"dropLogins", "dropUser"}
        /\ users' \intersect d.logins \subseteq e.logins
    <3>1. \/ d.logins = {} /\ e.pc = "dropUser"
          \/ \E u \in d.logins : /\ e.pc = "dropLogins" /\ e.logins = d.logins \ {u}
                                 /\ users' = users \ {u}
      BY <1>0, <1>11, DelFields
    <3>2. d.pc = "dropLogins" /\ e.found = d.found
      BY <1>0, <1>11, DelFields
    <3> QED BY <3>1, <3>2
  <2>2. \A u \in Household(p) \ {p} : u \in e.logins \/ u \notin users'
    BY <1>0, <1>1, <1>2, <2>1 DEF Stage, Late
  <2> QED BY <1>0, <1>1, <1>2, <1>3, <2>1, <2>2 DEF Stage, Purging, Late
<1>12. CASE DropUser(x) \/ Audit(x)
  <2>1. /\ d.pc \in {"dropUser", "audit"} /\ e.pc \in {"audit", "done"}
        /\ e.found = d.found /\ e.logins = d.logins
    BY <1>0, <1>12, DelFields DEF Hands
  <2> QED BY <1>0, <1>1, <1>2, <1>3, <2>1 DEF Stage, Purging, Late
<1>13. CASE FailDeletion(x)
  <2>1. e.pc = "failed"
    BY <1>0, <1>13, DelFields
  <2> QED BY <2>1 DEF Stage, Purging, Late
<1> QED BY <1>4, <1>5, <1>6, <1>7, <1>8, <1>9, <1>10, <1>11, <1>12, <1>13 DEF Deletes

LEMMA StageNext ==
  ASSUME SessInv, DevInv, DelTypeOK, AloneInv, FormInv, GoneInv, StageInv, [Next]_vars
  PROVE  StageInv'
<1>0. PICK D, C : D = deletion' /\ C = deletion
  OBVIOUS
<1> SUFFICES ASSUME NEW x \in Deletions, Counts(x)', D[x].parent \notin cut'
             PROVE  Stage(D[x])'
  BY <1>0 DEF StageInv
<1>1. CASE DelAt(x, "idle")
  <2>1. D[x].pc = "parent"
    BY <1>0, <1>1, DelBegins, StartIs DEF Counts
  <2> QED BY <2>1 DEF Stage, Purging, Late
<1>2. CASE ~DelAt(x, "idle")
  <2>1. /\ Counts(x) /\ C[x] \in Deletion /\ Form(C[x]) /\ D[x].parent = C[x].parent
        /\ C[x].parent \notin cut
    BY <1>0, <1>2, CountsBack, StudentsOnlyGo DEF FormInv, DelTypeOK
  <2>2. Stage(C[x]) /\ Keeps(C[x].parent)
    BY <1>0, <2>1, HouseholdKept DEF StageInv
  <2>3. CASE Deletes(x)
    BY <1>0, <2>1, <2>2, <2>3, StageGoes
  <2>4. CASE ~Deletes(x)
    <3>1. D[x].pc = C[x].pc /\ Hands(D[x]) = Hands(C[x])
      <4>1. ASSUME NEW y \in Deletions, NEW p \in Users, StartDeletion(y, p)
            PROVE  Elsewhere(deletion[x], deletion'[x])
        BY <1>2, <4>1, StartIs
      <4>2. ASSUME NEW y \in Deletions, Deletes(y) PROVE deletion'[x] = deletion[x]
        BY <2>4, <4>2, DelFields
      <4> QED BY <1>0, <4>1, <4>2, NextForms DEF Elsewhere
    <3> QED BY <2>1, <2>2, <3>1, StageElsewhere
  <2> QED BY <2>3, <2>4
<1> QED BY <1>1, <1>2

DelInv == AloneInv /\ FormInv /\ GoneInv /\ StageInv

LEMMA DelInvInit == Init => DelInv
<1> SUFFICES ASSUME Init PROVE DelInv
  OBVIOUS
<1>1. students = Students /\ users = Users
  BY DEF Init, SessInit
<1>2. PICK u \in Users : deletion = [x \in Deletions |-> NoDeletion(u)]
  BY DEF Init
<1>3. \A x \in Deletions : deletion[x] = NoDeletion(u)
  BY <1>2
<1>4. AloneInv /\ StageInv
  BY <1>3 DEF AloneInv, StageInv, Counts, DelAt, NoDeletion
<1>5. \A x \in Deletions : Form(deletion[x])
  BY <1>3 DEF Form, NoDeletion, Purging
<1>6. Logins \subseteq users
  BY <1>1, AccountConstants DEF Logins
<1> QED BY <1>1, <1>4, <1>5, <1>6 DEF DelInv, FormInv, GoneInv

LEMMA DelInvAlways == Spec => []DelInv
<1>1. SessInv /\ DevInv /\ DelTypeOK /\ DelInv /\ [Next]_vars => DelInv'
  BY AloneNext, FormNext, GoneNext, StageNext DEF DelInv
<1> QED BY <1>1, DelInvInit, SessInvAlways, DevInvAlways, DelTypeAlways, PTL DEF Spec

(***************************************************************************)
(* deleteParentAccount leaves nothing of the household in the modelled     *)
(* collections when no other request of the household ran beside it and no *)
(* attempt before it was cut short, however many attempts failed.          *)
(***************************************************************************)
THEOREM DeletionsAreComplete == Spec => []DeletionIsComplete
<1>1. SessInv /\ DevInv /\ DelTypeOK /\ DelInv => DeletionIsComplete
  <2> SUFFICES ASSUME SessInv, DelTypeOK, DelInv, NEW x \in Deletions, Undisturbed(x)
               PROVE  Erased(deletion[x].parent)
    BY DEF DeletionIsComplete
  <2>0. PICK d, p : d = deletion[x] /\ p = d.parent
    OBVIOUS
  <2>1. d.pc = "done" /\ Stage(d) /\ Form(d)
    BY <2>0 DEF Undisturbed, DelInv, StageInv, FormInv, Counts, DelAt
  <2>2. d.logins = {} /\ d.found = {} /\ p \notin users
    BY <2>0, <2>1 DEF Form
  <2>3. /\ \A s \in students : ParentOf[s] # p
        /\ DevClean(p)
        /\ \A u \in Household(p) : SessClean(u)
        /\ \A u \in Household(p) \ {p} : u \notin users
    BY <2>0, <2>1, <2>2 DEF Stage, Late, Purging
  <2> QED BY <2>0, <2>2, <2>3 DEF Erased, DevClean, SessClean
<1> QED BY <1>1, SessInvAlways, DevInvAlways, DelTypeAlways, DelInvAlways, PTL
=============================================================================
