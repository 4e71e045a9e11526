------------------------------ MODULE Contacts ------------------------------
(***************************************************************************)
(* What the devices of one account know about the peers of another person: *)
(* core/peers.go and profile.go, with the peers table (repo/db/peers.go).  *)
(* A peer that changes its name or avatar announces its card in every      *)
(* thread it shares with a device.  A device that stores a card that is    *)
(* new to it announces it to the others in the account thread.             *)
(*                                                                         *)
(* A stored card is dated by the clock of the device that stores it, not   *)
(* by the date the card came with.                                         *)
(***************************************************************************)
EXTENDS Integers, FiniteSets

CONSTANTS
    Persons,    \* the peers of the other person, all with one address
    MyDevices,  \* the devices of the account
    Names,      \* the names, or avatars, a peer may take
    MaxNow,     \* bound on the time
    LongAgo,    \* how far back no clock is off
    Habits      \* what may happen in a behaviour: see Habit

\* skew: how far the clock of each device is off; adds: who may add whom
\* by hand; removes: who may remove the contact; sets: what the persons may set; most:
\* bound, how much may be on its way when a person sets something.
Habit == [skew : [MyDevices -> Int], adds : SUBSET (MyDevices \X Persons),
          removes : SUBSET MyDevices, most : Nat,
          sets : SUBSET (Persons \X {"name", "avatar"} \X Names)]

ASSUME ContactsAssumption ==
    /\ MaxNow \in Nat /\ IsFiniteSet(MyDevices) /\ Habits \subseteq Habit
    /\ LongAgo \in Nat \ {0}
    /\ \A h \in Habits, d \in MyDevices : -LongAgo < h.skew[d]

VARIABLES
    habit,      \* chosen once: see Habits
    now,        \* the time, also the clock of the persons
    card,       \* what each person's own table says of it
    known,      \* the table of each device: the card of each person, or none
    mailed,     \* announcements that were sent and not handled
    checked,    \* handlers that have read the table and not written it
    echoes,     \* how often each device announced each card
    overlap,    \* <<p, t, q, u>>: the card of p dated t was sent while that of
                \* q dated u was on its way
    removed     \* the devices that have removed the contact

conVars == <<habit, now, card, known, mailed, checked, echoes, overlap, removed>>

Blank == ""
NoCard == [name |-> Blank, avatar |-> Blank, updated |-> -LongAgo]
Card == [name : Names \cup {Blank}, avatar : Names \cup {Blank}, updated : Int]

ConTypeOK ==
    /\ habit \in Habits /\ now \in 0..MaxNow
    /\ card \in [Persons -> Card] /\ known \in [MyDevices -> [Persons -> Card]]
    /\ \A m \in mailed : m.to \in MyDevices /\ m.of \in Persons /\ m.card \in Card
    /\ \A h \in checked : h.to \in MyDevices /\ h.of \in Persons
                          /\ h.card \in Card /\ h.old \in Card
    /\ echoes \in [MyDevices \X Persons \X (0..MaxNow) -> Nat]
    /\ overlap \subseteq Persons \X Int \X Persons \X Int
    /\ removed \subseteq MyDevices

ConInit ==
    /\ habit \in Habits /\ now = 0
    /\ card = [p \in Persons |-> [name |-> Blank, avatar |-> Blank, updated |-> 0]]
    /\ known = [d \in MyDevices |-> [p \in Persons |-> NoCard]]
    /\ mailed = {} /\ checked = {}
    /\ echoes = [e \in MyDevices \X Persons \X (0..MaxNow) |-> 0]
    /\ overlap = {} /\ removed = {}

OnWay == mailed \cup checked

\* One announcement is one block, from a person or the nth from a device.
ToAll(devices, from, p, c) ==
    {[to |-> d, from |-> from, of |-> p, card |-> c] : d \in devices}

\* What is on its way when the card of p dated t is sent.
Meets(p, t) == {<<p, t, x.of, x.card.updated>> : x \in OnWay}

-----------------------------------------------------------------------------
\* UpdateName, UpdateAvatar: the row is stamped.
Updated(c, field, value, t) ==
    [name |-> IF field = "name" THEN value ELSE c.name,
     avatar |-> IF field = "avatar" THEN value ELSE c.avatar, updated |-> t]

\* SetName, SetAvatar: the own row is updated and the card is announced,
\* unless it says so already.
SetProfile(p, field, value) ==
    /\ now < MaxNow /\ card[p][field] # value
    /\ <<p, field, value>> \in habit.sets /\ Cardinality(OnWay) <= habit.most
    /\ now' = now + 1
    /\ card' = [card EXCEPT ![p] = Updated(@, field, value, now')]
    /\ mailed' = mailed \cup ToAll(MyDevices, <<p, 0>>, p, card'[p])
    /\ overlap' = overlap \cup Meets(p, now + 1)
    /\ UNCHANGED <<habit, known, checked, echoes, removed>>

Pass ==
    /\ now < MaxNow
    /\ now' = now + 1
    /\ UNCHANGED <<habit, card, known, mailed, checked, echoes, overlap, removed>>

\* A card from a search that is added by hand; bound: each device adds each
\* person once at a time.
AddContact(d, p) ==
    /\ <<d, p>> \in habit.adds /\ card[p].updated > 0
    /\ \A x \in OnWay : ~(x.from = <<d, -1>> /\ x.of = p)
    /\ mailed' = mailed \cup ToAll({d}, <<d, -1>>, p, card[p])
    /\ overlap' = overlap \cup Meets(p, card[p].updated)
    /\ UNCHANGED <<habit, now, card, known, checked, echoes, removed>>

\* Mutant: a card that is known is never replaced.
IsNewerFirst(old, c) == old = NoCard

\* addPeer: an older card is left alone.
IsNewer(old, c) == old = NoCard \/ ~(old.updated > c.updated)

\* addPeer reads the table.
CheckPeer(m) ==
    /\ m \in mailed
    /\ mailed' = mailed \ {m}
    /\ checked' = IF IsNewer(known[m.to][m.of], m.card)
                  THEN checked \cup {[to |-> m.to, from |-> m.from, of |-> m.of,
                                      card |-> m.card, old |-> known[m.to][m.of]]}
                  ELSE checked
    /\ UNCHANGED <<habit, now, card, known, echoes, overlap, removed>>

PeersEqual(a, b) == a.name = b.name /\ a.avatar = b.avatar

\* AddOrUpdate.
Stamped(h) == [h.card EXCEPT !.updated = now + habit.skew[h.to]]

\* What the handler has says something that the row it read does not.
SaysNew(h) == h.old = NoCard \/ ~PeersEqual(h.old, h.card)

\* addPeer writes the table, and announces the card if it says something new.
StorePeer(h) ==
    LET e == <<h.to, h.of, h.card.updated>>
    IN  /\ h \in checked
        /\ checked' = checked \ {h}
        /\ known' = [known EXCEPT ![h.to][h.of] = Stamped(h)]
        /\ mailed' = IF SaysNew(h)
                     THEN mailed \cup ToAll(MyDevices \ {h.to}, <<h.to, echoes[e]>>,
                                           h.of, h.card)
                     ELSE mailed
        /\ echoes' = IF SaysNew(h) THEN [echoes EXCEPT ![e] = @ + 1]
                     ELSE echoes
        /\ UNCHANGED <<habit, now, card, overlap, removed>>

\* DeleteByAddress: the rows of all peers of the person; bound: each device
\* removes them once.
RemoveContact(d) ==
    /\ d \in habit.removes /\ d \notin removed
    /\ known' = [known EXCEPT ![d] = [p \in Persons |-> NoCard]]
    /\ removed' = removed \cup {d}
    /\ UNCHANGED <<habit, now, card, mailed, checked, echoes, overlap>>

ConNext ==
    \/ \E p \in Persons, v \in Names :
           SetProfile(p, "name", v) \/ SetProfile(p, "avatar", v)
    \/ Pass
    \/ \E d \in MyDevices, p \in Persons : AddContact(d, p)
    \/ \E m \in mailed : CheckPeer(m)
    \/ \E h \in checked : StorePeer(h)
    \/ \E d \in MyDevices : RemoveContact(d)

ConSpec == ConInit /\ [][ConNext]_conVars

-----------------------------------------------------------------------------
Says(c) == <<c.name, c.avatar>>

\* Another card of p was on its way with the one dated t: the rows are dated by
\* when they are stored, so either may hide the other.
Hasty(p, t) ==
    \E o \in overlap : o[1] = p /\ o[3] = p /\ o[2] # o[4] /\ t \in {o[2], o[4]}

\* That, or the card was sent a second time while it was on its way.
Repeated(p, t) ==
    \E o \in overlap : o[1] = p /\ o[3] = p /\ t \in {o[2], o[4]}

\* Once the announcements of a person are over, every device that has not
\* removed the contact has the card as it is, if no clock is ahead and no
\* earlier card of the same person was still on its way when it was sent.
NewestKept ==
    (\A d \in MyDevices : habit.skew[d] <= 0) =>
        \A d \in MyDevices \ removed, p \in Persons :
            (\A x \in OnWay : x.of # p) /\ card[p].updated > 0
                /\ ~Hasty(p, card[p].updated)
            => Says(known[d][p]) = Says(card[p])

\* A device announces one card again for each way that it came before the first
\* handler has stored it, over some of the other devices: with each device there
\* may be twice as many, but the announcements do not go round.
EchoesEnd ==
    removed = {} =>
        \A e \in DOMAIN echoes :
            ~Repeated(e[2], e[3]) => echoes[e] <= Cardinality(SUBSET (MyDevices \ {e[1]}))

\* core/peers.go addPeer: the announcements of a card come to an end, and then
\* all devices have it, unless they met those of another card of that person.
CardsSettle == NewestKept /\ EchoesEnd
=============================================================================
