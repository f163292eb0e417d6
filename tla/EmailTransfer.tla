---------------------------- MODULE EmailTransfer ----------------------------
(***************************************************************************)
(* A user changes the email address of the account: EmailTransferService   *)
(* and the routes /api/account/email-transfer.  A transfer is a record in  *)
(* the user document; a link is mailed to the old and to the new address;  *)
(* each click leaves a document per user and side in                       *)
(* email_transfer_confirmations, then looks whether both are there and, if *)
(* so, completes whatever transfer the user document holds by then.        *)
(*                                                                         *)
(* A link can be clicked again and again, at the same time as the other    *)
(* (mail filters follow links), and after the transfer was replaced.  Each *)
(* command to the database is one step and may fail: the handler throws.   *)
(***************************************************************************)
EXTENDS Naturals, FiniteSets

CONSTANTS
  Users,
  Emails,
  Transfers,   \* requests to POST initiate
  Handlers,    \* requests to confirm or cancel in progress at one time
  NoTransfer,  \* emailTransferRequest undefined or null
  FirstEmail,  \* the addresses at the beginning
  Besides      \* of "expiry", "throw", "cancel": what happens besides clicks

ASSUME TransferConstants ==
  /\ NoTransfer \notin Transfers
  /\ FirstEmail \in [Users -> Emails]
  /\ \A u, v \in Users : FirstEmail[u] = FirstEmail[v] => u = v

Sides == {"old", "new"}

VARIABLES
  email,      \* users.email
  request,    \* users.emailTransferRequest
  expired,    \* transfers whose expiresAt is past
  wanted,     \* of a transfer: whose, which address, how far its request is
  confirmations,  \* documents by user and side
  calls,      \* confirm and cancel requests in progress
  clicked,    \* history: links agreed whose token was accepted
  withdrawn,  \* history: transfers cancelled, replaced or cleared
  cutShort,   \* history: users with a confirmation that threw after it was accepted
  swept,      \* history: users whose confirmations went while a transfer was pending
  agreed,   \* history: users and sides of the links accepted since the clean-up
  raced       \* history: users with a clean-up beside a confirmation accepted before

docs == <<email, request, confirmations>>
transferVars == <<docs, expired, wanted, calls, clicked, withdrawn,
                  cutShort, swept, agreed, raced>>

Idle == [pc |-> "idle"]
CallPcs == {"read", "clear", "upsert", "check", "reread", "write", "withdraw", "clean"}
Call == [pc : CallPcs, user : Users, side : Sides,
         transfer : Transfers \union {NoTransfer},
         looked : SUBSET Sides, saw : SUBSET Sides]

TransferTypeOK ==
  /\ email \in [Users -> Emails]
  /\ request \in [Users -> Transfers \union {NoTransfer}]
  /\ expired \subseteq Transfers
  /\ wanted \in [Transfers -> [pc : {"unasked", "asked", "checked",
                                     "stored", "refused"},
                               user : Users, to : Emails]]
  /\ confirmations \subseteq Users \X Sides
  /\ calls \in [Handlers -> Call \union {Idle}]
  /\ clicked \subseteq Transfers \X Sides
  /\ withdrawn \subseteq Transfers
  /\ cutShort \subseteq Users
  /\ swept \subseteq Users
  /\ agreed \subseteq Users \X Sides
  /\ raced \subseteq Users

TransferInit ==
  /\ email = FirstEmail
  /\ request = [u \in Users |-> NoTransfer]
  /\ expired = {}
  /\ wanted \in [Transfers -> [pc : {"unasked"}, user : Users, to : Emails]]
  /\ confirmations = {}
  /\ calls = [h \in Handlers |-> Idle]
  /\ clicked = {}
  /\ withdrawn = {}
  /\ cutShort = {}
  /\ swept = {}
  /\ agreed = {}
  /\ raced = {}

-----------------------------------------------------------------------------
(* POST initiate. *)

Becomes(t, pc) == wanted' = [wanted EXCEPT ![t].pc = pc]

\* The route reads the user and compares the addresses.
Ask(t) ==
  /\ wanted[t].pc = "unasked"
  /\ Becomes(t, IF wanted[t].to = email[wanted[t].user] THEN "refused" ELSE "asked")
  /\ UNCHANGED <<docs, expired, calls, clicked, withdrawn, cutShort, swept,
                 agreed, raced>>

Taken(t) == \E u \in Users \ {wanted[t].user} : email[u] = wanted[t].to

CheckAddress(t) ==
  /\ wanted[t].pc = "asked"
  /\ Becomes(t, IF Taken(t) THEN "refused" ELSE "checked")
  /\ UNCHANGED <<docs, expired, calls, clicked, withdrawn, cutShort, swept,
                 agreed, raced>>

\* The transfer before is replaced; its confirmations stay.  The links are
\* mailed after this, or their mailing fails: nobody has to follow them.
StoreRequest(t) ==
  LET u == wanted[t].user
  IN /\ wanted[t].pc = "checked"
     /\ Becomes(t, "stored")
     /\ request' = [request EXCEPT ![u] = t]
     /\ withdrawn' = withdrawn \union ({request[u]} \ {NoTransfer})
     /\ UNCHANGED <<email, confirmations, expired, calls, clicked, cutShort, swept,
                    agreed, raced>>

Expire(t) ==
  /\ "expiry" \in Besides
  /\ wanted[t].pc = "stored"
  /\ expired' = expired \union {t}
  /\ UNCHANGED <<docs, wanted, calls, clicked, withdrawn, cutShort, swept,
                 agreed, raced>>

-----------------------------------------------------------------------------
(* GET confirm-old, confirm-new. *)

Moves(h, pc) == calls' = [calls EXCEPT ![h].pc = pc]
Ends(h) == calls' = [calls EXCEPT ![h] = Idle]

Click(h, t, s) ==
  /\ calls[h] = Idle
  /\ wanted[t].pc = "stored"
  /\ calls' = [calls EXCEPT ![h] = [pc |-> "read", user |-> wanted[t].user, side |-> s,
                                    transfer |-> t, looked |-> {}, saw |-> {}]]
  /\ UNCHANGED <<docs, expired, wanted, clicked, withdrawn, cutShort, swept,
                 agreed, raced>>

\* The token is that of the transfer in the user document.
TokenMatches(c) == request[c.user] = c.transfer

\* No transfer, another token, or past its time: refused.
ReadUser(h) ==
  LET c == calls[h]
  IN /\ c.pc = "read"
     /\ IF request[c.user] # NoTransfer /\ request[c.user] \in expired
        THEN /\ Moves(h, "clear")
             /\ UNCHANGED <<clicked, agreed>>
        ELSE IF TokenMatches(c)
             THEN /\ Moves(h, "upsert")
                  /\ clicked' = clicked \union {<<c.transfer, c.side>>}
                  /\ agreed' = agreed \union {<<c.user, c.side>>}
             ELSE /\ Ends(h)
                  /\ UNCHANGED <<clicked, agreed>>
     /\ UNCHANGED <<docs, expired, wanted, withdrawn, cutShort, swept, raced>>

\* Of an expired one, whatever the document holds by now.
ClearRequest(h) ==
  LET u == calls[h].user
  IN /\ calls[h].pc = "clear"
     /\ request' = [request EXCEPT ![u] = NoTransfer]
     /\ withdrawn' = withdrawn \union ({request[u]} \ {NoTransfer})
     /\ Ends(h)
     /\ UNCHANGED <<email, confirmations, expired, wanted, clicked, cutShort,
                    swept, agreed, raced>>

\* Variant: one document per user.
MarkedByUser(c) == {d \in confirmations : d[1] # c.user} \union {<<c.user, c.side>>}

\* The upsert of { userId, type }.
Marked(c) == confirmations \union {<<c.user, c.side>>}

Confirm(h) ==
  LET c == calls[h]
  IN /\ c.pc = "upsert"
     /\ confirmations' = Marked(c)
     /\ Moves(h, "check")
     /\ UNCHANGED <<email, request, expired, wanted, clicked, withdrawn, cutShort,
                    swept, agreed, raced>>

\* checkAndCompleteTransfer: two findOne at the same time, then the check.
Look(h, s) ==
  LET c == calls[h]
      looked == c.looked \union {s}
      saw == c.saw \union {x \in {s} : <<c.user, x>> \in confirmations}
  IN /\ c.pc = "check"
     /\ s \notin c.looked
     /\ IF looked = Sides /\ saw # Sides
        THEN Ends(h)
        ELSE calls' = IF looked = Sides
                      THEN [calls EXCEPT ![h].pc = "reread", ![h].looked = {}, ![h].saw = {}]
                      ELSE [calls EXCEPT ![h].looked = looked, ![h].saw = saw]
     /\ UNCHANGED <<docs, expired, wanted, clicked, withdrawn, cutShort, swept,
                    agreed, raced>>

RereadUser(h) ==
  LET u == calls[h].user
  IN /\ calls[h].pc = "reread"
     /\ IF request[u] = NoTransfer
        THEN Ends(h)
        ELSE calls' = [calls EXCEPT ![h].pc = "write", ![h].transfer = request[u]]
     /\ UNCHANGED <<docs, expired, wanted, clicked, withdrawn, cutShort, swept,
                    agreed, raced>>

\* The unique index lets it in.
Admitted(c) == \A u \in Users \ {c.user} : email[u] # wanted[c.transfer].to

WriteEmail(h) ==
  LET c == calls[h]
  IN /\ c.pc = "write"
     /\ Admitted(c)
     /\ email' = [email EXCEPT ![c.user] = wanted[c.transfer].to]
     /\ request' = [request EXCEPT ![c.user] = NoTransfer]
     /\ Moves(h, "clean")
     /\ withdrawn' = withdrawn \union ({request[c.user]} \ {NoTransfer, c.transfer})
     /\ UNCHANGED <<confirmations, expired, wanted, clicked, cutShort, swept,
                    agreed, raced>>

\* Variant: the documents stay, for the next transfer.
LeftOver(u) == confirmations

NotOf(u) == confirmations \ ({u} \X Sides)

\* Confirmations the clean-up overtakes: accepted, or with a document in hand.
Overtakes(h) ==
  \E g \in Handlers \ {h} :
    /\ calls[g] # Idle /\ calls[g].user = calls[h].user
    /\ calls[g].pc \in {"upsert", "reread", "write"} \/ calls[g].saw # {}

DeleteConfirmations(h) ==
  LET c == calls[h]
  IN /\ c.pc = "clean"
     /\ confirmations' = NotOf(c.user)
     /\ Ends(h)
     /\ swept' = swept \union {u \in {c.user} : request[u] # NoTransfer}
     /\ agreed' = agreed \ ({c.user} \X Sides)
     /\ raced' = raced \union {u \in {c.user} : Overtakes(h)}
     /\ UNCHANGED <<email, request, expired, wanted, clicked, withdrawn, cutShort>>

\* Any await may reject; the duplicate key of WriteEmail always does.
Throw(h) ==
  /\ "throw" \in Besides \/ (calls[h].pc = "write" /\ ~ Admitted(calls[h]))
  /\ calls[h] # Idle
  /\ Ends(h)
  /\ cutShort' = IF calls[h].pc \in {"read", "clear", "withdraw"}
                 THEN cutShort ELSE cutShort \union {calls[h].user}
  /\ UNCHANGED <<docs, expired, wanted, clicked, withdrawn, swept, agreed, raced>>

-----------------------------------------------------------------------------
(* POST cancel. *)

Cancel(h, u) ==
  /\ "cancel" \in Besides
  /\ calls[h] = Idle
  /\ calls' = [calls EXCEPT ![h] = [pc |-> "withdraw", user |-> u, side |-> "old",
                                    transfer |-> NoTransfer, looked |-> {}, saw |-> {}]]
  /\ UNCHANGED <<docs, expired, wanted, clicked, withdrawn, cutShort, swept,
                 agreed, raced>>

\* Variant: a cancellation removes the confirmations only.
LeavesRequest(u) == request[u]

NoRequest(u) == NoTransfer

Withdraw(h) ==
  LET u == calls[h].user
  IN /\ calls[h].pc = "withdraw"
     /\ request' = [request EXCEPT ![u] = NoRequest(u)]
     /\ withdrawn' = withdrawn \union ({request[u]} \ {NoTransfer})
     /\ Moves(h, "clean")
     /\ UNCHANGED <<email, confirmations, expired, wanted, clicked, cutShort,
                    swept, agreed, raced>>

TransferNext ==
  \/ \E t \in Transfers : Ask(t) \/ CheckAddress(t) \/ StoreRequest(t) \/ Expire(t)
  \/ \E h \in Handlers :
       \/ \E t \in Transfers, s \in Sides : Click(h, t, s)
       \/ \E s \in Sides : Look(h, s)
       \/ \E u \in Users : Cancel(h, u)
       \/ ReadUser(h) \/ ClearRequest(h) \/ Confirm(h) \/ RereadUser(h)
       \/ WriteEmail(h) \/ DeleteConfirmations(h) \/ Throw(h) \/ Withdraw(h)

TransferSpec == TransferInit /\ [][TransferNext]_transferVars

-----------------------------------------------------------------------------
(* Properties. *)

\* An address changes only when both links were accepted since the clean-up
\* before, not on documents that an earlier transfer or a cancellation left
\* (checkAndCompleteTransfer, deleteMany).  A confirmation is the user's and not
\* the transfer's: one given to a transfer that was replaced counts for the next.
\* Excepted is a user one of whose clean-ups overtook a confirmation.
ChangeIsConfirmed ==
  [][ \A u \in Users :
        email'[u] # email[u]
          => u \in raced \/ {u} \X Sides \subseteq agreed ]_email

\* Whoever confirms last completes: of two clicks at the same time at least one
\* sees both confirmations.  A pending transfer whose links were both accepted
\* has a handler at work, unless one threw half-way, or the clean-up of an
\* earlier transfer or of a cancellation took a confirmation away.
ConfirmedIsHandled ==
  \A u \in Users :
    /\ request[u] # NoTransfer
    /\ {request[u]} \X Sides \subseteq clicked
    => \/ u \in cutShort \union swept
       \/ \E h \in Handlers : calls[h] # Idle /\ calls[h].user = u

\* No confirmation takes up a transfer that was cancelled, replaced or cleared:
\* only one that had already read it may still write it.
WithdrawnIsNotTakenUp ==
  [][ \A h \in Handlers :
        calls'[h].pc = "write" /\ calls[h].pc # "write"
          => calls'[h].transfer \notin withdrawn ]_calls
=============================================================================
