---------------------------- MODULE SharedContacts ----------------------------
(***************************************************************************)
(* The people a student is shared with: the array sharedWith of the        *)
(* student document and the routes of packages/api that change it, as well *)
(* as the invitation accepted by a magic link and the opt-in to texts.     *)
(*                                                                         *)
(* Each request reads the student, checks it, and writes the WHOLE array   *)
(* it computed from what it read; two requests lose each other's changes.  *)
(* The change of a contact's address writes a confirmation between the     *)
(* two.  An entry is found by its address and is the first one with it.    *)
(***************************************************************************)
EXTENDS Naturals, SequencesExt

CONSTANTS
  Owner,       \* the user who owns the student
  Parents,     \* other users
  Addresses,
  Changes,     \* changes of a contact's address
  Routes,      \* requests in progress at one time
  MaxContacts, \* bound: entries of the array
  NoUser, NoChange

ASSUME ContactConstants ==
  /\ Owner \notin Parents
  /\ NoUser \notin Parents \union {Owner}
  /\ NoChange \notin Changes
  /\ MaxContacts \in Nat

People == Parents \union {Owner}
LinkSides == {"old", "new"}

VARIABLES
  shared,    \* students.sharedWith
  changes,   \* of each change of address: from, to, or not asked yet
  overdue,   \* changes of address older than 48 hours
  followed,  \* shared_parent_transfer_confirmations, by address and side
  underway,  \* requests in progress, with the array each will write
  promoted,  \* history: users somebody made an admin
  collided   \* history: addresses changed to while an entry had them

contactVars == <<shared, changes, overdue, followed, underway,
                promoted, collided>>

Contact == [email : Addresses, user : People \union {NoUser},
            status : {"pending", "accepted", "declined"},
            admin : BOOLEAN, transfer : Changes \union {NoChange}]

Fresh(e) == [email |-> e, user |-> NoUser, status |-> "pending",
             admin |-> FALSE, transfer |-> NoChange]

Free == [pc |-> "idle"]
Underway == [pc : {"write", "confirm", "look", "delete"},
             op : {"change", "complete"}, email : Addresses,
             next : Seq(Contact), side : LinkSides,
             looked : SUBSET LinkSides, saw : SUBSET LinkSides]

ContactTypeOK ==
  /\ shared \in Seq(Contact)
  /\ changes \in [Changes -> {Free} \union [from : Addresses, to : Addresses]]
  /\ overdue \subseteq Changes
  /\ followed \subseteq Addresses \X LinkSides
  /\ underway \in [Routes -> {Free} \union Underway]
  /\ promoted \subseteq People
  /\ collided \subseteq Addresses

ContactInit ==
  /\ shared = << >>
  /\ changes = [t \in Changes |-> Free]
  /\ overdue = {}
  /\ followed = {}
  /\ underway = [h \in Routes |-> Free]
  /\ promoted = {}
  /\ collided = {}

-----------------------------------------------------------------------------
(* Who may do what, and which entry is meant. *)

HasAccess(u) ==
  u = Owner \/ \E s \in ToSet(shared) : s.status = "accepted" /\ s.user = u

CanAdmin(u) ==
  u = Owner \/ \E s \in ToSet(shared) : s.status = "accepted" /\ s.user = u /\ s.admin

HasContact(e) == \E s \in ToSet(shared) : s.email = e

\* The first entry with an address, whatever its status; 0 if there is none.
EntryOf(e) == SelectInSeq(shared, LAMBDA s : s.email = e)

\* Variant: the entry may have been accepted before.
AnyInvite(e) == SelectInSeq(shared, LAMBDA s : s.email = e)

\* The first pending one.
InviteOf(e) == SelectInSeq(shared, LAMBDA s : s.email = e /\ s.status = "pending")

AcceptedOf(e) == SelectInSeq(shared, LAMBDA s : s.email = e /\ s.status = "accepted")

-----------------------------------------------------------------------------
(* Requests: the student is read and the new array computed. *)

Plan(e, next) ==
  [pc |-> "write", op |-> "change", email |-> e, next |-> next,
   side |-> "old", looked |-> {}, saw |-> {}]

Begin(h, call) ==
  /\ underway[h] = Free
  /\ underway' = [underway EXCEPT ![h] = call]
  /\ UNCHANGED <<shared, overdue, followed, promoted, collided>>

Replaced(i, s) == [shared EXCEPT ![i] = s]

\* POST contacts: an address that is not in the array.
AddContact(h, by, e) ==
  /\ CanAdmin(by)
  /\ ~ HasContact(e)
  /\ Len(shared) < MaxContacts
  /\ Begin(h, Plan(e, Append(shared, Fresh(e))))
  /\ UNCHANGED changes

\* Variant: only those who accepted count as invited.
InvitedAlready(e) == \E s \in ToSet(shared) : s.email = e /\ s.status = "accepted"

Invited(e) == \E s \in ToSet(shared) : s.email = e /\ s.status # "declined"

\* POST parents/invite: who declined can be invited again, by a second entry.
InviteParent(h, by, e) ==
  /\ CanAdmin(by)
  /\ ~ Invited(e)
  /\ Len(shared) < MaxContacts
  /\ Begin(h, Plan(e, Append(shared, Fresh(e))))
  /\ UNCHANGED changes

\* POST contacts/accept, parents/accept, and the magic link of an invitation.
Accept(h, by, e) ==
  LET i == InviteOf(e)
  IN /\ i # 0
     /\ Begin(h, Plan(e,
                Replaced(i, [shared[i] EXCEPT !.user = by, !.status = "accepted"])))
     /\ UNCHANGED changes

Decline(h, e) ==
  LET i == InviteOf(e)
  IN /\ i # 0
     /\ Begin(h, Plan(e, Replaced(i, [shared[i] EXCEPT !.status = "declined"])))
     /\ UNCHANGED changes

\* PUT contacts/:email.  What it sets, alerts and the like, is left out.
Edit(h, by, e) ==
  LET i == EntryOf(e)
  IN /\ HasAccess(by)
     /\ i # 0
     /\ CanAdmin(by) \/ shared[i].user = by
     /\ Begin(h, Plan(e, shared))
     /\ UNCHANGED changes

\* The opt-in to texts adds phone and channel, which are left out, to the entry.
OptInText(h, e) ==
  /\ HasContact(e)
  /\ Begin(h, Plan(e, shared))
  /\ UNCHANGED changes

\* The entries with another address, in their order.
Without(e) ==
  LET kept[n \in 0 .. Len(shared)] ==
        IF n = 0 THEN << >>
        ELSE IF shared[n].email = e THEN kept[n - 1]
        ELSE Append(kept[n - 1], shared[n])
  IN kept[Len(shared)]

\* DELETE contacts/:email.
RemoveContact(h, by, e) ==
  /\ HasContact(e)
  /\ CanAdmin(by)
  /\ Begin(h, Plan(e, Without(e)))
  /\ UNCHANGED changes

\* DELETE parents/:email, by oneself.
LeaveStudent(h, by, e) ==
  /\ HasAccess(by)
  /\ \E s \in ToSet(shared) : s.user = by /\ s.email = e
  /\ Begin(h, Plan(e, Without(e)))
  /\ UNCHANGED changes

\* PUT parents/:email/admin.
SetAdmin(h, by, e, admin) ==
  LET i == AcceptedOf(e)
  IN /\ CanAdmin(by)
     /\ i # 0
     /\ underway[h] = Free
     /\ underway' = [underway EXCEPT ![h] =
                       Plan(e, Replaced(i, [shared[i] EXCEPT !.admin = admin]))]
     /\ promoted' = promoted \union {u \in {shared[i].user} : admin}
     /\ UNCHANGED <<shared, changes, overdue, followed, collided>>

\* POST contacts/:email/transfer-email: every entry with the address gets it.
AskTransfer(h, by, t, e, to) ==
  LET i == EntryOf(e)
  IN /\ changes[t] = Free
     /\ HasAccess(by)
     /\ i # 0 /\ shared[i].user = by
     /\ to # e
     /\ ~ HasContact(to)
     /\ changes' = [changes EXCEPT ![t] = [from |-> e, to |-> to]]
     /\ Begin(h, Plan(e,
          [j \in DOMAIN shared |-> IF shared[j].email = e
                                   THEN [shared[j] EXCEPT !.transfer = t]
                                   ELSE shared[j]]))

TransferPasses(t) ==
  /\ changes[t] # Free
  /\ overdue' = overdue \union {t}
  /\ UNCHANGED <<shared, changes, followed, underway, promoted, collided>>

LinkAddress(t, side) == IF side = "old" THEN changes[t].from ELSE changes[t].to

\* The entry whose change of address names the link's address.
ChangingEntry(e) ==
  SelectInSeq(shared, LAMBDA s :
    s.transfer # NoChange /\ (s.email = e \/ changes[s.transfer].to = e))

\* POST contacts/transfer-confirm with the link t of one side: past its time it
\* clears the request, a wrong token is refused.
FollowLink(h, t, side) ==
  LET e == LinkAddress(t, side)
      i == ChangingEntry(e)
      s == shared[i]
      cleared == [s EXCEPT !.transfer = NoChange]
  IN /\ changes[t] # Free
     /\ i # 0
     /\ \/ /\ s.transfer \in overdue
           /\ Begin(h, Plan(s.email, Replaced(i, cleared)))
        \/ /\ s.transfer \notin overdue
           /\ s.transfer = t
           /\ side = IF s.email = e THEN "old" ELSE "new"
           /\ Begin(h, [Plan(s.email, Replaced(i, [cleared EXCEPT !.email = changes[t].to]))
                          EXCEPT !.op = "complete", !.pc = "confirm", !.side = side])
     /\ UNCHANGED changes

-----------------------------------------------------------------------------
(* Requests: what they send after it. *)

\* The upsert keeps one document per address and side.
ConfirmChange(h) ==
  /\ underway[h].pc = "confirm"
  /\ followed' = followed \union {<<underway[h].email, underway[h].side>>}
  /\ underway' = [underway EXCEPT ![h].pc = "look"]
  /\ UNCHANGED <<shared, changes, overdue, promoted, collided>>

LookUp(h, side) ==
  LET c == underway[h]
      looked == c.looked \union {side}
      saw == c.saw \union {x \in {side} : <<c.email, x>> \in followed}
  IN /\ c.pc = "look"
     /\ side \notin c.looked
     /\ underway' = IF looked = LinkSides /\ saw # LinkSides
                    THEN [underway EXCEPT ![h] = Free]
                    ELSE IF looked = LinkSides
                    THEN [underway EXCEPT ![h].pc = "write", ![h].looked = {}, ![h].saw = {}]
                    ELSE [underway EXCEPT ![h].looked = looked, ![h].saw = saw]
     /\ UNCHANGED <<shared, changes, overdue, followed, promoted, collided>>

AddressesOf(entries) == {s.email : s \in ToSet(entries)}

\* Addresses that two entries have which were not declined.
Doubled(entries) ==
  {e \in AddressesOf(entries) :
     \E i, j \in DOMAIN entries :
       /\ i # j
       /\ entries[i].email = e /\ entries[i].status # "declined"
       /\ entries[j].email = e /\ entries[j].status # "declined"}

\* studentRepository.update: sharedWith as computed.
WriteArray(h) ==
  LET c == underway[h]
  IN /\ c.pc = "write"
     /\ shared' = c.next
     /\ underway' = [underway EXCEPT ![h] =
          IF c.op = "complete" THEN [c EXCEPT !.pc = "delete", !.next = << >>] ELSE Free]
     /\ collided' = IF c.op = "complete" THEN collided \union Doubled(c.next) ELSE collided
     /\ UNCHANGED <<changes, overdue, followed, promoted>>

DropConfirmations(h) ==
  /\ underway[h].pc = "delete"
  /\ followed' = {d \in followed : d[1] # underway[h].email}
  /\ underway' = [underway EXCEPT ![h] = Free]
  /\ UNCHANGED <<shared, changes, overdue, promoted, collided>>

ContactNext ==
  \/ \E h \in Routes :
       \/ /\ underway[h] = Free
          /\ \/ \E by \in People, e \in Addresses :
                  \/ AddContact(h, by, e) \/ InviteParent(h, by, e)
                  \/ RemoveContact(h, by, e) \/ LeaveStudent(h, by, e)
                  \/ Accept(h, by, e) \/ Edit(h, by, e)
                  \/ \E b \in BOOLEAN : SetAdmin(h, by, e, b)
                  \/ \E t \in Changes, to \in Addresses : AskTransfer(h, by, t, e, to)
             \/ \E e \in Addresses : Decline(h, e) \/ OptInText(h, e)
             \/ \E t \in Changes, side \in LinkSides : FollowLink(h, t, side)
       \/ \E side \in LinkSides : LookUp(h, side)
       \/ ConfirmChange(h) \/ WriteArray(h) \/ DropConfirmations(h)
  \/ \E t \in Changes : TransferPasses(t)

ContactSpec == ContactInit /\ [][ContactNext]_contactVars

-----------------------------------------------------------------------------
(* Properties. *)

\* Two entries that nobody declined never have one address, whatever requests
\* overlap, unless a contact changed to an address that was added meanwhile
\* (hasContact is asked when the change is asked for, not when it is done).
LiveAddressesDistinct == Doubled(shared) \subseteq collided

\* Whoever administers the student was made an admin in person: no invitation,
\* acceptance, change of address or older array passes the right on.
AdminsWerePromoted ==
  \A s \in ToSet(shared) : s.admin => s.user \in promoted
=============================================================================
