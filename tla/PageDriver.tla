------------------------------ MODULE PageDriver ------------------------------
(***************************************************************************)
(* WebViewPageDriver of packages/mobile: how a recipe drives the portal    *)
(* page in the app's WebView.  Everything crosses an asynchronous bridge:  *)
(* an evaluated function answers with a message that carries the call's    *)
(* id, a finished page announces itself with onLoadEnd, and every wait has *)
(* a timer beside it.  The page may navigate at any time, by the recipe's  *)
(* goto or by itself, and takes the functions running in it along.         *)
(*                                                                         *)
(* A recipe waits for one goto before the next; calls overlap, because the *)
(* sign-in check of SyncScreen stops listening before its call settles.    *)
(* Pages are numbered documents; urls and popups, which continue in the    *)
(* same frame as navigations of the site, are left out.                    *)
(***************************************************************************)
EXTENDS Naturals, Sequences

CONSTANTS
  Calls,      \* calls of evaluate and content
  Gotos,      \* calls of goto
  SiteMoves,  \* bound: navigations the site makes by itself
  Site        \* the origin of those navigations and of the first page

ASSUME PageDriverConstants ==
  /\ Calls \intersect Gotos = {}
  /\ Site \notin Calls \union Gotos
  /\ Calls \intersect {"unasked", "waiting", "timedOut", "threw", "loaded"} = {}
  /\ SiteMoves \in Nat

VARIABLES
  attached,   \* _injectFn is there
  heading,    \* navigations begun and not committed: at most one, by origin
  loading,    \* the current document has not finished loading
  siteMoves,  \* navigations of the site so far
  inPage,     \* calls whose function runs in the current document
  posted,     \* messages on the bridge, by call
  loadEnds,   \* onLoadEnd events on the bridge
  pendingEvals,   \* _pending
  loadResolvers,  \* _loadResolvers
  outcome     \* of each call and goto

pageVars == <<heading, loading, siteMoves>>
driverVars == <<attached, pageVars, inPage, posted, loadEnds, pendingEvals,
                loadResolvers, outcome>>

Waiters == Calls \union Gotos

DriverTypeOK ==
  /\ attached \in BOOLEAN
  /\ heading \in SUBSET (Gotos \union {Site})
  /\ loading \in BOOLEAN
  /\ siteMoves \in Nat
  /\ inPage \in SUBSET Calls
  /\ posted \in SUBSET Calls
  /\ loadEnds \in Nat
  /\ pendingEvals \in SUBSET Calls
  /\ loadResolvers \in SUBSET Gotos
  /\ outcome \in [Waiters -> {"unasked", "waiting", "timedOut", "threw", "loaded"}
                             \union Calls]

\* The WebView opens its initial url.
DriverInit ==
  /\ attached = FALSE
  /\ heading = {Site}
  /\ loading = FALSE
  /\ siteMoves = 0
  /\ inPage = {}
  /\ posted = {}
  /\ loadEnds = 0
  /\ pendingEvals = {}
  /\ loadResolvers = {}
  /\ outcome = [w \in Waiters |-> "unasked"]

-----------------------------------------------------------------------------
(* The page. *)

\* The new document replaces the old one and what runs in it.
Commit ==
  /\ heading # {}
  /\ heading' = {}
  /\ loading' = TRUE
  /\ inPage' = {}
  /\ UNCHANGED <<attached, siteMoves, posted, loadEnds, pendingEvals,
                 loadResolvers, outcome>>

\* The document is there, or failed to load: onLoadEnd in both cases.
FinishLoad ==
  /\ loading
  /\ loading' = FALSE
  /\ loadEnds' = loadEnds + 1
  /\ UNCHANGED <<attached, heading, siteMoves, inPage, posted,
                 pendingEvals, loadResolvers, outcome>>

\* A redirect by script, a form, a tap of the user.
SiteNavigates ==
  /\ siteMoves < SiteMoves
  /\ siteMoves' = siteMoves + 1
  /\ heading' = {Site}
  /\ UNCHANGED <<attached, loading, inPage, posted, loadEnds,
                 pendingEvals, loadResolvers, outcome>>

\* window.__slc_run__ has its result, or the error of the function.
Post(c) ==
  /\ c \in inPage
  /\ inPage' = inPage \ {c}
  /\ posted' = posted \union {c}
  /\ UNCHANGED <<attached, pageVars, loadEnds, pendingEvals, loadResolvers, outcome>>

-----------------------------------------------------------------------------
(* The driver. *)

Settles(w, o) == outcome' = [outcome EXCEPT ![w] = o]

Evaluate(c) ==
  /\ outcome[c] = "unasked"
  /\ attached
  /\ pendingEvals' = pendingEvals \union {c}
  /\ inPage' = inPage \union {c}
  /\ Settles(c, "waiting")
  /\ UNCHANGED <<attached, pageVars, posted, loadEnds, loadResolvers>>

EvaluateUnattached(c) ==
  /\ outcome[c] = "unasked"
  /\ ~ attached
  /\ Settles(c, "threw")
  /\ UNCHANGED <<attached, pageVars, inPage, posted, loadEnds, pendingEvals,
                 loadResolvers>>

\* Variant: whoever waits takes the message.
AnybodyPending(c) == pendingEvals

\* _pending.get(msg.id): the call that asked, if it still waits.
AddresseeOf(c) == {c} \intersect pendingEvals

HandleMessage(c) ==
  /\ c \in posted
  /\ posted' = posted \ {c}
  /\ IF AddresseeOf(c) = {}
     THEN UNCHANGED <<pendingEvals, outcome>>
     ELSE \E w \in AddresseeOf(c) :
            /\ pendingEvals' = pendingEvals \ {w}
            /\ Settles(w, c)
  /\ UNCHANGED <<attached, pageVars, inPage, loadEnds, loadResolvers>>

EvalTimeout(c) ==
  /\ c \in pendingEvals
  /\ pendingEvals' = pendingEvals \ {c}
  /\ Settles(c, "timedOut")
  /\ UNCHANGED <<attached, pageVars, inPage, posted, loadEnds, loadResolvers>>

\* The script sets location.href, which ends a navigation under way; without
\* _injectFn nothing is injected, and the wait is on.
Goto(g) ==
  /\ outcome[g] = "unasked"
  /\ \A h \in Gotos : outcome[h] # "waiting"
  /\ heading' = IF attached THEN {g} ELSE heading
  /\ loadResolvers' = loadResolvers \union {g}
  /\ Settles(g, "waiting")
  /\ UNCHANGED <<attached, loading, siteMoves, inPage, posted,
                 loadEnds, pendingEvals>>

\* The map is left alone by a load: its calls have their timers.
KeepsEvals == pendingEvals

\* onLoad attaches, _handleLoadEnd resolves all who wait for a load.
HandleLoadEnd ==
  /\ loadEnds > 0
  /\ loadEnds' = loadEnds - 1
  /\ attached' = TRUE
  /\ loadResolvers' = {}
  /\ pendingEvals' = KeepsEvals
  /\ outcome' = [w \in Waiters |->
       IF w \in loadResolvers /\ outcome[w] = "waiting" THEN "loaded" ELSE outcome[w]]
  /\ UNCHANGED <<pageVars, inPage, posted>>

\* The timer looks for the promise's resolve, which is not what the list
\* holds: the entry stays until the next load, and has no effect then.
LoadTimeout(g) ==
  /\ outcome[g] = "waiting"
  /\ Settles(g, "timedOut")
  /\ UNCHANGED <<attached, pageVars, inPage, posted, loadEnds, pendingEvals,
                 loadResolvers>>

DriverNext ==
  \/ Commit \/ FinishLoad \/ SiteNavigates
  \/ HandleLoadEnd
  \/ \E c \in Calls : \/ Evaluate(c) \/ EvaluateUnattached(c) \/ Post(c)
                      \/ HandleMessage(c) \/ EvalTimeout(c)
  \/ \E g \in Gotos : Goto(g) \/ LoadTimeout(g)

DriverSpec == DriverInit /\ [][DriverNext]_driverVars

-----------------------------------------------------------------------------
(* Properties. *)

\* Whatever pages come and go, a call is answered by its own function only, be
\* the answer late or another call's in the meantime, and a call without an
\* answer is in the map still, with the timer that ends it (_handleMessage,
\* _handleLoadEnd, the timer of evaluate).
CallsSettleThemselves ==
  \A c \in Calls :
    /\ outcome[c] \in Calls => outcome[c] = c
    /\ outcome[c] = "waiting" <=> c \in pendingEvals
=============================================================================
