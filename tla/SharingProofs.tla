--------------------------- MODULE SharingProofs ---------------------------
(***************************************************************************)
(* Membership for any number of nodes and any graph of invites:            *)
(* MembersAgree follows from MemInv.  Its core: the creator is known to    *)
(* everybody, since its JOIN is behind every head, so everybody tells it   *)
(* of their own JOIN; and of two members that the creator has welcomed the *)
(* later one was sent heads with the JOIN of the other (Spread).           *)
(*                                                                         *)
(* ThreadFiles for any number of blocks and files: FilesSettled follows    *)
(* from ShelfInv, which says of the states in between what is kept of a    *)
(* block that is only on its way, and of one that goes.                    *)
(*                                                                         *)
(* ThreadAccess for any accounts, any policies and however many invites:   *)
(* all of it follows from AccInv.                                          *)
(*                                                                         *)
(* Contacts for any devices, persons and clocks, at the end: CardsSettle   *)
(* follows from ConInv, which counts the announcements of one card: those  *)
(* that are made and due are fewer than the sets of devices that have it.  *)
(***************************************************************************)
EXTENDS Membership, ThreadFiles, ThreadAccess, Contacts, FiniteSetTheorems, TLAPS

\* A block is published once, with everything behind it, and every history
\* starts with the JOIN of the creator.
History ==
    \A b \in published :
        /\ hist[b] \subseteq published /\ Creator \in Closure({b})
        /\ \A c \in hist[b] : hist[c] \subseteq hist[b]

\* A block waits in one queue, a JOIN in that of its node, until it is published.
Queues ==
    /\ \A n \in Peer : queued[n] \cap published = {}
    /\ \A n, m \in Peer : \A b \in queued[n] :
           (b \in queued[m] => m = n) /\ (b = m => m = n)
    /\ \A n \in Peer : member[n] = "in" => n \in queued[n] \cup published
    /\ \A n \in Peer : member[n] = "out" => n \notin published /\ queued[n] = {}

\* What a node is still to learn from the heads it was told of.
Followed(n, b) == \E tl \in behind[n] : b \in Closure(tl[2])

\* Everything in a table, a message or a tail was published; a node that is
\* not in the thread has nothing of it.
Sound ==
    /\ \A n \in Peer : know[n] \subseteq published /\ tips[n] \subseteq published
    /\ \A n \in Peer : \A tl \in behind[n] :
           tl[2] # {} /\ tl[2] \subseteq published /\ tl[2] \subseteq Closure(tips[n])
    /\ \A n \in Peer, b \in Entry : <<n, b>> \in wire => b \in published
    /\ \A a \in addMsgs :
           a.parents # {} /\ a.parents \subseteq published /\ member[a.from] # "out"
    /\ member[Creator] # "out"
    /\ \A n \in Peer : member[n] = "out" => know[n] = {} /\ tips[n] = {} /\ behind[n] = {}
    /\ \A n \in Peer : member[n] = "in" /\ n # Creator => tips[n] # {}

\* The heads of a node reach all that it knows, and what they reach it knows or
\* is following.
Whole ==
    \A n \in Peer :
        /\ know[n] \subseteq Closure(tips[n])
        /\ \A c \in Closure(tips[n]) : c \in know[n] \/ Followed(n, c)

\* The rows of a table are of members, and whose JOIN is known has one.
Rows ==
    /\ \A n, m \in Peer : peerTbl[n][m] # "none" => member[m] # "out"
    /\ \A n, m \in Peer : m \in know[n] /\ m # n => peerTbl[n][m] # "none"

\* What a node knows or is about to.
Gets(n, b) ==
    \/ b \in know[n] \/ Followed(n, b)
    \/ \E h \in Entry : <<n, h>> \in wire /\ b \in Closure({h})

\* A member has told a block to everybody in its table, or will by welcoming.
Tells(n, b) ==
    /\ member[n] = "in" /\ b \in know[n]
    /\ \A m \in Peer : peerTbl[n][m] = "welcomed" => Gets(m, b)

\* Whoever is not welcomed yet will be by a tail.
NewFollowed == \A n, m \in Peer : peerTbl[n][m] = "new" => behind[n] # {}

\* Every member gets the JOIN of the creator, who has a row of those whose JOIN
\* it knows.
RootGets == \A n \in Peer : member[n] = "in" /\ n # Creator => Gets(n, Creator)
RootRows == \A m \in Peer : peerTbl[Creator][m] # "none" => m \in know[Creator]

\* Every block is told by somebody, a JOIN by its node.
Told ==
    /\ \A n \in Peer : n \in published => Tells(n, n)
    /\ \A b \in published : \E n \in Peer : Tells(n, b)

\* Of two members that the creator has welcomed, one gets to know the other, who
\* then learns of it.
Meet ==
    \A n, m \in Peer :
        peerTbl[Creator][n] = "welcomed" /\ peerTbl[Creator][m] = "welcomed" /\ n # m
        => Gets(n, m) \/ Gets(m, n)

Spread == welcoming = {} /\ NewFollowed /\ RootGets /\ RootRows /\ Told /\ Meet

\* No message comes inside a sendWelcome, and nobody left.
Calm == scene.overlap = {} /\ \A n \in Peer : member[n] # "left"

MemInv ==
    /\ MemTypeOK /\ History /\ Queues /\ Sound /\ Whole /\ Rows
    /\ Calm => Spread
-----------------------------------------------------------------------------
(* What lies behind heads                                                    *)

LEMMA ClosureIs ==
    ASSUME NEW B, NEW b
    PROVE  b \in Closure(B) <=> b \in B \/ \E h \in B : b \in hist[h]
  BY DEF Closure

LEMMA ClosurePublished ==
    ASSUME History, NEW B, B \subseteq published
    PROVE  Closure(B) \subseteq published
  BY ClosureIs DEF History

LEMMA ClosureClosed ==
    ASSUME History, NEW A, A \subseteq published, NEW B, B \subseteq Closure(A)
    PROVE  Closure(B) \subseteq Closure(A)
  <1> SUFFICES ASSUME NEW b \in Closure(B) PROVE b \in Closure(A)
    OBVIOUS
  <1>1. CASE b \in B
    BY <1>1
  <1>2. ASSUME NEW h \in B, b \in hist[h] PROVE b \in Closure(A)
    <2>1. CASE h \in A
      BY <1>2, <2>1, ClosureIs
    <2>2. ASSUME NEW a \in A, h \in hist[a] PROVE b \in Closure(A)
      <3>1. hist[h] \subseteq hist[a]
        BY <2>2 DEF History
      <3> QED BY <1>2, <3>1, ClosureIs
    <2> QED BY <1>2, <2>1, <2>2, ClosureIs
  <1> QED BY <1>1, <1>2, ClosureIs

LEMMA ClosureRooted ==
    ASSUME History, NEW B, B \subseteq published, B # {}
    PROVE  Creator \in Closure(B)
  <1>1. PICK b \in B : TRUE
    OBVIOUS
  <1>2. Creator \in Closure({b})
    BY <1>1 DEF History
  <1> QED BY <1>1, <1>2, ClosureIs

\* The history of what was published never changes.
HistSame == published \subseteq published' /\ \A b \in published : hist'[b] = hist[b]

LEMMA ClosureSame ==
    ASSUME HistSame, NEW B, B \subseteq published
    PROVE  Closure(B)' = Closure(B)
  BY DEF HistSame, Closure

-----------------------------------------------------------------------------
(* The tables                                                                *)

Row == {"none", "new", "welcomed"}

LEMMA AddPeersIs ==
    ASSUME MemTypeOK, NEW n \in Peer, NEW B
    PROVE  /\ AddPeers(n, B) \in [Peer -> [Peer -> Row]]
           /\ \A k, m \in Peer : AddPeers(n, B)[k][m] =
                  IF k = n /\ m \in B /\ m # n /\ peerTbl[n][m] = "none"
                  THEN "new" ELSE peerTbl[k][m]
  BY DEF MemTypeOK, AddPeers, Row

LEMMA MarkedIs ==
    ASSUME NEW rows \in [Peer -> [Peer -> Row]], NEW n \in Peer
    PROVE  /\ Marked(rows, n) \in [Peer -> [Peer -> Row]]
           /\ \A k, m \in Peer : Marked(rows, n)[k][m] =
                  IF k = n /\ rows[n][m] = "new" THEN "welcomed" ELSE rows[k][m]
  BY DEF Marked, Row

-----------------------------------------------------------------------------
\* A block that is received is taken, or nothing happens.
Taken(n, b) ==
    /\ member[n] = "in"
    /\ know' = [know EXCEPT ![n] = @ \cup {b}] /\ tips' = [tips EXCEPT ![n] = @ \cup {b}]
    /\ peerTbl' = AddPeers(n, {b} \cap Peer)
    /\ behind' = [behind EXCEPT ![n] = @ \cup {<<"head", {b}>>}]
Dropped(n, b) ==
    (member[n] # "in" \/ b \in know[n]) /\ UNCHANGED <<know, tips, peerTbl, behind>>

LEMMA ReceiveIs ==
    ASSUME NEW n, NEW b, ReceiveBlock(n, b)
    PROVE  /\ <<n, b>> \in wire /\ wire' = wire \ {<<n, b>>}
           /\ UNCHANGED <<scene, member, hist, published, queued, addMsgs, welcoming>>
           /\ Taken(n, b) \/ Dropped(n, b)
  BY DEF ReceiveBlock, Taken, Dropped

\* The variables keep their types.
LEMMA MemTypes ==
    ASSUME MemTypeOK, [MemNext]_memVars
    PROVE  MemTypeOK'
  <1> USE MembershipAssumption
  <1>0. \A B \in SUBSET Entry : Closure(B) \subseteq Entry
    BY DEF MemTypeOK, Closure
  <1>1. ASSUME NEW n \in Peer, NEW b \in Entry, Author(n, b) PROVE MemTypeOK'
    BY <1>1 DEF MemTypeOK, Author
  <1>2. ASSUME NEW n \in Peer, NEW b \in Entry, PostBlock(n, b) PROVE MemTypeOK'
    <2>1. Closure(tips[n]) \subseteq Entry
      BY <1>0 DEF MemTypeOK
    <2>2. hist' \in [Entry -> SUBSET Entry]
      BY <1>2, <2>1 DEF MemTypeOK, PostBlock
    <2>3. wire' \subseteq Peer \X Entry
      BY <1>2 DEF MemTypeOK, PostBlock
    <2> QED BY <1>2, <2>2, <2>3 DEF MemTypeOK, PostBlock
  <1>3. ASSUME NEW n \in Peer, NEW m \in Peer, Invite(n, m) PROVE MemTypeOK'
    BY <1>3 DEF MemTypeOK, Invite
  <1>4. ASSUME NEW a \in addMsgs, AcceptAdd(a) PROVE MemTypeOK'
    <2>1. a \in [from : Peer, to : Peer, parents : SUBSET Entry]
      BY DEF MemTypeOK
    <2>2. a.to \in Peer /\ a.parents \in SUBSET Entry
      BY <2>1
    <2>3. peerTbl' \in [Peer -> [Peer -> {"none", "new", "welcomed"}]]
      BY <1>4, <2>2, AddPeersIs DEF AcceptAdd, Row
    <2>4. a.to \in Entry
      BY <2>2 DEF Entry
    <2>5. behind' \in [Peer -> SUBSET ({"add", "head"} \X SUBSET Entry)]
      <3>1. <<"add", a.parents>> \in {"add", "head"} \X SUBSET Entry
        BY <2>2
      <3> QED BY <1>4, <2>2, <3>1 DEF MemTypeOK, AcceptAdd
    <2>6. /\ tips' \in [Peer -> SUBSET Entry] /\ queued' \in [Peer -> SUBSET Entry]
          /\ member' \in [Peer -> {"out", "in", "left"}]
      BY <1>4, <2>2, <2>4 DEF MemTypeOK, AcceptAdd
    <2>7. UNCHANGED <<scene, know, hist, published, wire, addMsgs, welcoming>>
      BY <1>4 DEF AcceptAdd
    <2> QED BY <2>3, <2>5, <2>6, <2>7 DEF MemTypeOK
  <1>5. ASSUME NEW n \in Peer, NEW b \in Entry, ReceiveBlock(n, b) PROVE MemTypeOK'
    <2>1. /\ wire' \subseteq Peer \X Entry
          /\ UNCHANGED <<scene, member, hist, published, queued, addMsgs, welcoming>>
      BY <1>5, ReceiveIs DEF MemTypeOK
    <2>2. CASE Dropped(n, b)
      BY <2>1, <2>2 DEF MemTypeOK, Dropped
    <2>3. CASE Taken(n, b)
      <3>1. peerTbl' \in [Peer -> [Peer -> {"none", "new", "welcomed"}]]
        BY <2>3, AddPeersIs DEF Taken, Row
      <3>2. behind' \in [Peer -> SUBSET ({"add", "head"} \X SUBSET Entry)]
        <4>1. <<"head", {b}>> \in {"add", "head"} \X SUBSET Entry
          OBVIOUS
        <4> QED BY <2>3, <4>1 DEF MemTypeOK, Taken
      <3>3. know' \in [Peer -> SUBSET Entry] /\ tips' \in [Peer -> SUBSET Entry]
        BY <2>3 DEF MemTypeOK, Taken
      <3> QED BY <2>1, <3>1, <3>2, <3>3 DEF MemTypeOK
    <2> QED BY <1>5, <2>2, <2>3, ReceiveIs
  <1>6. ASSUME NEW n \in Peer, NEW tl \in behind[n], FollowTail(n, tl) PROVE MemTypeOK'
    <2> DEFINE rows == AddPeers(n, Closure(tl[2]) \cap Peer)
               next == IF tl[1] = "add" THEN tips[n]
                       ELSE tl[2] \cup {b \in tips[n] :
                                        b \notin UNION {hist[h] : h \in tl[2]}}
    <2>1. tl \in {"add", "head"} \X SUBSET Entry
      BY DEF MemTypeOK
    <2>2. tl[2] \in SUBSET Entry /\ next \subseteq Entry
      BY <2>1 DEF MemTypeOK
    <2>3. Closure(tl[2]) \subseteq Entry
      BY <1>0, <2>2
    <2>4. rows \in [Peer -> [Peer -> Row]]
      BY AddPeersIs
    <2>5. Marked(rows, n) \in [Peer -> [Peer -> Row]]
      BY <2>4, MarkedIs
    <2>6. peerTbl' \in [Peer -> [Peer -> {"none", "new", "welcomed"}]]
      BY <1>6, <2>4, <2>5 DEF FollowTail, Row
    <2> HIDE DEF rows, next
    <2>7. wire' \subseteq Peer \X Entry
      <3>1. wire' = wire \cup ({m \in Peer : rows[n][m] = "new"} \X next)
        BY <1>6 DEF FollowTail, rows, next
      <3> QED BY <2>2, <3>1 DEF MemTypeOK
    <2>8. tips' = [tips EXCEPT ![n] = next]
      BY <1>6 DEF FollowTail, next
    <2>9. tips' \in [Peer -> SUBSET Entry]
      BY <2>2, <2>8 DEF MemTypeOK
    <2>10. /\ know' \in [Peer -> SUBSET Entry]
           /\ behind' \in [Peer -> SUBSET ({"add", "head"} \X SUBSET Entry)]
      BY <1>6, <2>3 DEF MemTypeOK, FollowTail
    <2> QED BY <1>6, <2>6, <2>7, <2>9, <2>10 DEF MemTypeOK, FollowTail
  <1>7. ASSUME NEW n \in Peer, MarkWelcomed(n) PROVE MemTypeOK'
    <2>1. peerTbl' \in [Peer -> [Peer -> {"none", "new", "welcomed"}]]
      BY <1>7, MarkedIs DEF MemTypeOK, MarkWelcomed, Row
    <2> QED BY <1>7, <2>1 DEF MemTypeOK, MarkWelcomed
  <1>8. ASSUME NEW n \in Peer, Leave(n) PROVE MemTypeOK'
    BY <1>8 DEF MemTypeOK, Leave
  <1>9. CASE UNCHANGED memVars
    BY <1>9 DEF MemTypeOK, memVars
  <1> QED BY <1>1, <1>2, <1>3, <1>4, <1>5, <1>6, <1>7, <1>8, <1>9 DEF MemNext

LEMMA MemInitOK == MemInit => MemInv
  <1> SUFFICES ASSUME MemInit PROVE MemInv
    OBVIOUS
  <1> USE MembershipAssumption DEF MemInit
  <1>1. MemTypeOK
    BY DEF MemTypeOK, Entry
  <1>2. Rows
    BY DEF Rows
  <1>3. History /\ Queues /\ Sound
    BY DEF History, Queues, Sound
  <1>4. Whole
    BY DEF Whole, Closure
  <1>5. Spread
    BY DEF Spread, NewFollowed, RootGets, RootRows, Told, Meet
  <1> QED BY <1>1, <1>2, <1>3, <1>4, <1>5 DEF MemInv

\* What is not touched keeps its invariants.
LEMMA Still ==
    ASSUME MemInv, UNCHANGED <<scene, member, know, tips, hist, published, peerTbl, wire,
                               behind, welcoming>>
    PROVE  History' /\ Whole' /\ Rows' /\ (Calm' => Spread')
  <1>1. \A B : Closure(B)' = Closure(B)
    BY DEF Closure
  <1>2. History'
    BY <1>1 DEF MemInv, History
  <1>3. \A n \in Peer : \A b : Followed(n, b)' <=> Followed(n, b)
    BY <1>1 DEF Followed
  <1>4. \A n \in Peer : Closure(tips[n])' = Closure(tips[n])
    BY DEF Closure
  <1>5. Whole'
    BY <1>3, <1>4 DEF MemInv, Whole
  <1>6. Rows'
    BY DEF MemInv, Rows
  <1>7. \A n \in Peer : \A b : Gets(n, b)' <=> Gets(n, b)
    BY <1>1, <1>3 DEF Gets
  <1>8. \A n \in Peer : \A b : Tells(n, b)' <=> Tells(n, b)
    BY <1>7 DEF Tells
  <1>9. Calm' => Calm /\ Spread
    BY DEF MemInv, Calm
  <1>10. Spread => RootGets' /\ Meet' /\ NewFollowed' /\ RootRows' /\ welcoming' = {}
    BY MembershipAssumption, <1>7 DEF Spread, RootGets, Meet, NewFollowed, RootRows
  <1>11. Spread => Told'
    BY <1>8 DEF Spread, Told
  <1> QED BY <1>2, <1>5, <1>6, <1>9, <1>10, <1>11 DEF Spread

\* What was to come still comes, if what a message or a tail brings does.
LEMMA GetsKept ==
    ASSUME MemInv, HistSame, NEW m \in Peer, know[m] \subseteq know'[m],
           \A tl \in behind[m] :
               tl \in behind'[m] \/ \A b \in Closure(tl[2]) : Gets(m, b)',
           \A h \in Entry : <<m, h>> \in wire =>
               <<m, h>> \in wire' \/ \A b \in Closure({h}) : Gets(m, b)'
    PROVE  \A b : Gets(m, b) => Gets(m, b)'
  <1> SUFFICES ASSUME NEW b, Gets(m, b) PROVE Gets(m, b)'
    OBVIOUS
  <1>1. CASE b \in know[m]
    BY <1>1 DEF Gets
  <1>2. ASSUME NEW tl \in behind[m], b \in Closure(tl[2]) PROVE Gets(m, b)'
    <2>1. Closure(tl[2])' = Closure(tl[2])
      BY ClosureSame DEF MemInv, Sound
    <2> QED BY <1>2, <2>1 DEF Gets, Followed
  <1>3. ASSUME NEW h \in Entry, <<m, h>> \in wire, b \in Closure({h}) PROVE Gets(m, b)'
    <2>1. {h} \subseteq published
      BY <1>3 DEF MemInv, Sound
    <2>2. Closure({h})' = Closure({h})
      BY <2>1, ClosureSame
    <2> QED BY <1>3, <2>2 DEF Gets
  <1> QED BY <1>1, <1>2, <1>3 DEF Gets, Followed

\* The step of a member that goes on as it should: what was to come comes, who
\* is welcomed gets to know everything, what is published is told.
LEMMA SpreadKept ==
    ASSUME MemInv, Calm, Spread, RootRows',
           \A m \in Peer : \A b : member[m] = "in" /\ Gets(m, b) => Gets(m, b)',
           \A n \in Peer : member[n] = "in" => member'[n] = "in" /\ know[n] \subseteq know'[n],
           \A n \in Peer : member'[n] = "in" /\ member[n] # "in" => Gets(n, Creator)',
           \A n, m \in Peer : peerTbl'[n][m] = "welcomed" /\ peerTbl[n][m] # "welcomed" =>
               \A b \in know'[n] : Gets(m, b)',
           \A b \in published' \ published :
               \E n \in Peer : Tells(n, b)' /\ (b \in Peer => n = b)
    PROVE  RootGets' /\ Told' /\ Meet'
  <1>1. \A n, m \in Peer : peerTbl[n][m] = "welcomed" => member[m] = "in"
    BY DEF MemInv, MemTypeOK, Rows, Calm
  <1>2. RootGets'
    BY MembershipAssumption DEF Spread, RootGets
  <1>3. ASSUME NEW n \in Peer, NEW b, Tells(n, b) PROVE Tells(n, b)'
    BY <1>1, <1>3 DEF Tells
  <1>4. Told'
    BY <1>3 DEF Spread, Told
  <1>5. ASSUME NEW n \in Peer, NEW m \in Peer, peerTbl'[Creator][n] = "welcomed",
               peerTbl'[Creator][m] = "welcomed", n # m
        PROVE  Gets(n, m)' \/ Gets(m, n)'
    <2>1. n \in know'[Creator] /\ m \in know'[Creator] /\ Creator \in Peer
      BY <1>5, MembershipAssumption DEF RootRows
    <2>2. CASE peerTbl[Creator][n] = "welcomed" /\ peerTbl[Creator][m] = "welcomed"
      BY <1>1, <1>5, <2>1, <2>2 DEF Spread, Meet
    <2> QED BY <1>5, <2>1, <2>2
  <1>6. Meet'
    BY <1>5 DEF Meet
  <1> QED BY <1>2, <1>4, <1>6

LEMMA AuthorKept ==
    ASSUME MemInv, NEW n \in Peer, NEW b \in Entry, Author(n, b)
    PROVE  History' /\ Queues' /\ Sound' /\ Whole' /\ Rows' /\ (Calm' => Spread')
  <1>0. UNCHANGED <<scene, member, know, tips, hist, published, peerTbl, wire, behind,
                    addMsgs, welcoming>>
    BY DEF Author
  <1>1. Queues'
    <2>1. b \notin Peer /\ b \notin published /\ \A m \in Peer : b \notin queued[m]
      BY MembershipAssumption DEF MemInv, MemTypeOK, Scene, Author
    <2>2. queued' = [queued EXCEPT ![n] = queued[n] \cup {b}] /\ member[n] = "in"
      BY DEF Author
    <2> QED BY <1>0, <2>1, <2>2 DEF MemInv, MemTypeOK, Queues
  <1>2. Sound'
    <2>1. \A k \in Peer : Closure(tips[k])' = Closure(tips[k])
      BY <1>0 DEF Closure
    <2> QED BY <1>0, <2>1 DEF MemInv, Sound
  <1> QED BY <1>0, <1>1, <1>2, Still

LEMMA InviteKept ==
    ASSUME MemInv, NEW n \in Peer, NEW m \in Peer, Invite(n, m)
    PROVE  History' /\ Queues' /\ Sound' /\ Whole' /\ Rows' /\ (Calm' => Spread')
  <1>0. UNCHANGED <<scene, member, know, tips, hist, published, peerTbl, wire, behind,
                    queued, welcoming>>
    BY DEF Invite
  <1>1. Queues'
    BY <1>0 DEF MemInv, Queues
  <1>2. Sound'
    <2>1. \A k \in Peer : Closure(tips[k])' = Closure(tips[k])
      BY <1>0 DEF Closure
    <2>2. /\ addMsgs' = addMsgs \cup {[from |-> n, to |-> m, parents |-> tips[n]]}
          /\ member[n] = "in" /\ tips[n] # {}
      BY DEF Invite
    <2>3. tips[n] \subseteq published
      BY DEF MemInv, Sound
    <2>4. \A a \in addMsgs' :
              a.parents # {} /\ a.parents \subseteq published /\ member[a.from] # "out"
      BY <2>2, <2>3 DEF MemInv, Sound
    <2> QED BY <1>0, <2>1, <2>4 DEF MemInv, Sound
  <1> QED BY <1>0, <1>1, <1>2, Still

LEMMA MarkKept ==
    ASSUME MemInv, NEW n \in Peer, MarkWelcomed(n)
    PROVE  History' /\ Queues' /\ Sound' /\ Whole' /\ Rows' /\ (Calm' => Spread')
  <1>0. UNCHANGED <<scene, member, know, tips, hist, published, wire, behind,
                    queued, addMsgs>>
    BY DEF MarkWelcomed
  <1>1. History' /\ Queues'
    BY <1>0 DEF MemInv, History, Queues, Closure
  <1>2. \A k \in Peer : Closure(tips[k])' = Closure(tips[k])
    BY <1>0 DEF Closure
  <1>3. Sound'
    BY <1>0, <1>2 DEF MemInv, Sound
  <1>4. Whole'
    <2>1. \A k \in Peer : \A b : Followed(k, b)' <=> Followed(k, b)
      BY <1>0 DEF Followed, Closure
    <2> QED BY <1>0, <1>2, <2>1 DEF MemInv, Whole
  <1>5. Rows'
    <2>1. \A k, m \in Peer : peerTbl'[k][m] = "none" <=> peerTbl[k][m] = "none"
      <3>1. peerTbl \in [Peer -> [Peer -> Row]] /\ peerTbl' = Marked(peerTbl, n)
        BY DEF MemInv, MemTypeOK, MarkWelcomed, Row
      <3>2. \A k, m \in Peer : peerTbl'[k][m] =
                IF k = n /\ peerTbl[n][m] = "new" THEN "welcomed" ELSE peerTbl[k][m]
        BY <3>1, MarkedIs, SMTT(60)
      <3> QED BY <3>2
    <2> QED BY <1>0, <2>1 DEF MemInv, Rows
  <1>6. ~Calm'
    <2>1. welcoming # {} /\ (Calm' => Calm)
      BY <1>0 DEF MarkWelcomed, Calm
    <2> QED BY <2>1 DEF MemInv, Spread
  <1> QED BY <1>1, <1>3, <1>4, <1>5, <1>6

LEMMA LeaveKept ==
    ASSUME MemInv, NEW n \in Peer, Leave(n)
    PROVE  History' /\ Queues' /\ Sound' /\ Whole' /\ Rows' /\ (Calm' => Spread')
  <1>0. /\ UNCHANGED <<scene, hist, published, wire, behind, addMsgs>> /\ behind[n] = {}
        /\ member[n] = "in"
        /\ member' = [member EXCEPT ![n] = "left"] /\ know' = [know EXCEPT ![n] = {}]
        /\ tips' = [tips EXCEPT ![n] = {}] /\ queued' = [queued EXCEPT ![n] = {}]
        /\ peerTbl' = [peerTbl EXCEPT ![n] = [m \in Peer |-> "none"]]
    BY DEF Leave
  <1> USE DEF MemInv, MemTypeOK
  <1>1. History' /\ Queues'
    BY <1>0 DEF History, Queues, Closure
  <1>2. \A k \in Peer \ {n} : tips'[k] = tips[k] /\ Closure(tips[k])' = Closure(tips[k])
    BY <1>0 DEF Closure
  <1>3. tips'[n] = {} /\ Closure(tips[n])' = {}
    BY <1>0 DEF Closure
  <1>4. Sound'
    <2>1. \A k \in Peer : \A tl \in behind'[k] : /\ tl[2] # {} /\ tl[2] \subseteq published'
                                                /\ tl[2] \subseteq Closure(tips[k])'
      BY <1>0, <1>2 DEF Sound
    <2>2. \A a \in addMsgs' : a.parents # {} /\ a.parents \subseteq published'
                              /\ member'[a.from] # "out"
      BY <1>0 DEF Sound
    <2> QED BY <1>0, <1>2, <1>3, <2>1, <2>2, MembershipAssumption DEF Sound
  <1>5. Whole'
    <2>1. \A k \in Peer : \A b : Followed(k, b)' <=> Followed(k, b)
      BY <1>0 DEF Followed, Closure
    <2> QED BY <1>0, <1>2, <1>3, <2>1 DEF Whole
  <1>6. Rows'
    BY <1>0 DEF Rows
  <1>7. ~Calm'
    BY <1>0 DEF Calm
  <1> QED BY <1>1, <1>4, <1>5, <1>6, <1>7

LEMMA AcceptKept ==
    ASSUME MemInv, NEW a \in addMsgs, AcceptAdd(a)
    PROVE  History' /\ Queues' /\ Sound' /\ Whole' /\ Rows' /\ (Calm' => Spread')
  <1> DEFINE n == a.to
  <1>0. /\ UNCHANGED <<scene, know, hist, published, wire, addMsgs, welcoming>>
        /\ member[n] = "out" /\ peerTbl' = AddPeers(n, {a.from})
        /\ member' = [member EXCEPT ![n] = "in"] /\ tips' = [tips EXCEPT ![n] = a.parents]
        /\ queued' = [queued EXCEPT ![n] = queued[n] \cup {n}]
        /\ behind' = [behind EXCEPT ![n] = behind[n] \cup {<<"add", a.parents>>}]
    BY DEF AcceptAdd
  <1> HIDE DEF n
  <1>1. /\ n \in Peer /\ a.from \in Peer /\ member[a.from] # "out"
        /\ a.parents # {} /\ a.parents \subseteq published
    BY DEF MemInv, MemTypeOK, Sound, n
  <1>2. /\ know[n] = {} /\ tips[n] = {} /\ behind[n] = {} /\ n \notin published
        /\ queued[n] = {} /\ member[Creator] # "out" /\ n # Creator
    BY <1>0, <1>1 DEF MemInv, Sound, Queues
  <1>3. /\ behind'[n] = {<<"add", a.parents>>} /\ tips'[n] = a.parents /\ queued'[n] = {n}
        /\ member'[n] = "in"
        /\ \A k \in Peer \ {n} : /\ behind'[k] = behind[k] /\ tips'[k] = tips[k]
                                 /\ queued'[k] = queued[k] /\ member'[k] = member[k]
    BY <1>0, <1>1, <1>2 DEF MemInv, MemTypeOK
  <1>4. History /\ MemTypeOK /\ Sound /\ Rows /\ Whole /\ Queues
    BY DEF MemInv
  <1>5. HistSame
    BY <1>0 DEF HistSame
  <1>6. History' /\ \A B : Closure(B)' = Closure(B)
    BY <1>0, <1>4 DEF History, Closure
  <1>7. Queues'
    BY <1>0, <1>1, <1>2, <1>3, <1>4 DEF Queues
  <1>8. \A k \in Peer \ {n} : Closure(tips[k])' = Closure(tips[k])
    BY <1>0, <1>3 DEF Closure
  <1>9. Closure(tips[n])' = Closure(a.parents)
    BY <1>0, <1>3 DEF Closure
  <1>10. Sound'
    <2>1. \A k \in Peer : \A tl \in behind'[k] : /\ tl[2] # {} /\ tl[2] \subseteq published'
                                                /\ tl[2] \subseteq Closure(tips[k])'
      <3>1. a.parents \subseteq Closure(a.parents)
        BY ClosureIs
      <3> QED BY <1>0, <1>1, <1>3, <1>4, <1>8, <1>9, <3>1 DEF Sound
    <2>2. \A b \in addMsgs' : b.parents # {} /\ b.parents \subseteq published'
                              /\ member'[b.from] # "out"
      BY <1>0, <1>1, <1>3, <1>4 DEF Sound, MemTypeOK
    <2>3. \A k \in Peer : know'[k] \subseteq published' /\ tips'[k] \subseteq published'
      BY <1>0, <1>1, <1>3, <1>4 DEF Sound
    <2> QED BY <1>0, <1>1, <1>2, <1>3, <1>4, <2>1, <2>2, <2>3, MembershipAssumption DEF Sound
  <1>11. \A b \in Closure(a.parents) : Followed(n, b)'
    <2>1. <<"add", a.parents>> \in behind'[n] /\ <<"add", a.parents>>[2] = a.parents
      BY <1>3
    <2> QED BY <1>6, <2>1 DEF Followed
  <1>12. Whole'
    <2>1. \A k \in Peer \ {n} : \A b : Followed(k, b)' <=> Followed(k, b)
      BY <1>3, <1>6 DEF Followed
    <2> QED BY <1>0, <1>2, <1>4, <1>8, <1>9, <1>11, <2>1 DEF Whole
  <1>13. \A k, m \in Peer : peerTbl'[k][m] = IF k = n /\ m = a.from /\ peerTbl[n][m] = "none"
                                             THEN "new" ELSE peerTbl[k][m]
    BY <1>0, <1>1, <1>4, AddPeersIs
  <1>14. Rows'
    <2>1. \A k, m \in Peer : peerTbl'[k][m] # "none" => member'[m] # "out"
      <3>1. \A m \in Peer : member'[m] = "out" => member[m] = "out"
        BY <1>3
      <3>2. \A k, m \in Peer : peerTbl'[k][m] # "none" => peerTbl[k][m] # "none" \/ m = a.from
        BY <1>13
      <3> QED BY <1>1, <1>4, <3>1, <3>2 DEF Rows
    <2>2. \A k, m \in Peer : m \in know'[k] /\ m # k => peerTbl'[k][m] # "none"
      BY <1>0, <1>4, <1>13 DEF Rows
    <2> QED BY <2>1, <2>2 DEF Rows
  <1>15. ASSUME Calm' PROVE Spread'
    <2>1. Calm /\ Spread
      BY <1>0, <1>1, <1>3, <1>15 DEF Calm, MemInv
    <2>2. NewFollowed'
      BY <1>3, <1>13, <2>1, ZenonT(60) DEF Spread, NewFollowed
    <2>3. RootRows'
      BY <1>0, <1>2, <1>13, <2>1, MembershipAssumption DEF Spread, RootRows
    <2>4. Gets(n, Creator)'
      BY <1>1, <1>4, <1>11, ClosureRooted DEF Gets
    <2>5. \A m \in Peer : \A b : Gets(m, b) => Gets(m, b)'
      BY <1>0, <1>2, <1>3, <1>5, GetsKept
    <2>6. \A k \in Peer : member[k] = "in" => member'[k] = "in" /\ know[k] \subseteq know'[k]
      BY <1>0, <1>3
    <2>7. RootGets' /\ Told' /\ Meet'
      BY <1>0, <1>3, <1>13, <2>1, <2>3, <2>4, <2>5, <2>6, SpreadKept
    <2> QED BY <1>0, <2>1, <2>2, <2>3, <2>7 DEF Spread
  <1> QED BY <1>6, <1>7, <1>10, <1>12, <1>14, <1>15

LEMMA ReceiveKept ==
    ASSUME MemInv, NEW n \in Peer, NEW b \in Entry, ReceiveBlock(n, b)
    PROVE  History' /\ Queues' /\ Sound' /\ Whole' /\ Rows' /\ (Calm' => Spread')
  <1>0. /\ <<n, b>> \in wire /\ wire' = wire \ {<<n, b>>}
        /\ UNCHANGED <<scene, member, hist, published, queued, addMsgs, welcoming>>
        /\ Taken(n, b) \/ Dropped(n, b)
    BY ReceiveIs
  <1>1. History /\ MemTypeOK /\ Sound /\ Rows /\ Whole /\ Queues
    BY DEF MemInv
  <1>2. HistSame /\ b \in published
    BY <1>0, <1>1 DEF HistSame, Sound
  <1>3. History' /\ \A B : Closure(B)' = Closure(B)
    BY <1>0, <1>1 DEF History, Closure
  <1>4. Queues'
    BY <1>0, <1>1 DEF Queues
  <1>5. CASE Dropped(n, b)
    <2>0. UNCHANGED <<know, tips, peerTbl, behind>>
      BY <1>5 DEF Dropped
    <2>1. \A k \in Peer : Closure(tips[k])' = Closure(tips[k])
      BY <1>0, <2>0 DEF Closure
    <2>2. Sound'
      BY <1>0, <1>1, <2>0, <2>1 DEF Sound
    <2>3. Rows'
      BY <1>0, <1>1, <2>0 DEF Rows
    <2>4. \A k \in Peer : \A x : Followed(k, x)' <=> Followed(k, x)
      BY <1>3, <2>0 DEF Followed
    <2>5. Whole'
      BY <1>1, <2>0, <2>1, <2>4 DEF Whole
    <2>6. ASSUME Calm' PROVE Spread'
      <3>1. Calm /\ Spread
        BY <1>0, <2>6 DEF Calm, MemInv
      <3>2. ASSUME NEW m \in Peer, member[m] = "in" PROVE \A x : Gets(m, x) => Gets(m, x)'
        <4>1. ASSUME m = n PROVE \A x \in Closure({b}) : Gets(m, x)'
          <5>1. {b} \subseteq Closure(tips[n]) /\ tips[n] \subseteq published
            BY <1>1, <1>5, <3>2, <4>1 DEF Dropped, Whole, Sound
          <5>2. Closure({b}) \subseteq Closure(tips[n])
            BY <1>1, <5>1, ClosureClosed
          <5> QED BY <1>1, <2>0, <2>4, <4>1, <5>2 DEF Whole, Gets
        <4>2. \A h \in Entry : <<m, h>> \in wire => <<m, h>> \in wire' \/ (m = n /\ h = b)
          BY <1>0
        <4>3. \A h \in Entry : <<m, h>> \in wire =>
                  <<m, h>> \in wire' \/ \A x \in Closure({h}) : Gets(m, x)'
          BY <4>1, <4>2
        <4> QED BY <1>2, <2>0, <4>3, GetsKept
      <3>3. NewFollowed' /\ RootRows'
        BY <2>0, <3>1 DEF Spread, NewFollowed, RootRows
      <3>4. RootGets' /\ Told' /\ Meet'
        BY <1>0, <2>0, <3>1, <3>2, <3>3, SpreadKept
      <3> QED BY <1>0, <3>1, <3>3, <3>4 DEF Spread
    <2> QED BY <1>3, <1>4, <2>2, <2>3, <2>5, <2>6
  <1>6. CASE Taken(n, b)
    <2>0. /\ member[n] = "in" /\ know'[n] = know[n] \cup {b} /\ tips'[n] = tips[n] \cup {b}
          /\ behind'[n] = behind[n] \cup {<<"head", {b}>>}
          /\ \A k \in Peer \ {n} : /\ know'[k] = know[k] /\ tips'[k] = tips[k]
                                   /\ behind'[k] = behind[k]
      BY <1>1, <1>6 DEF Taken, MemTypeOK
    <2>1. \A k, m \in Peer : peerTbl'[k][m] =
              IF k = n /\ m = b /\ m # n /\ peerTbl[n][m] = "none"
              THEN "new" ELSE peerTbl[k][m]
      BY <1>1, <1>6, AddPeersIs DEF Taken
    <2>2. \A k \in Peer \ {n} : Closure(tips[k])' = Closure(tips[k])
      BY <1>0, <2>0 DEF Closure
    <2>3. \A x : x \in Closure(tips[n])' <=> x \in Closure(tips[n]) \/ x \in Closure({b})
      BY <1>0, <2>0 DEF Closure
    <2>4. Sound'
      <3>1. b \in Closure({b})
        BY ClosureIs
      <3>2. \A k \in Peer : \A tl \in behind'[k] : /\ tl[2] # {} /\ tl[2] \subseteq published'
                                                  /\ tl[2] \subseteq Closure(tips[k])'
        <4>1. ASSUME NEW k \in Peer \ {n}, NEW tl \in behind'[k]
              PROVE  /\ tl[2] # {} /\ tl[2] \subseteq published'
                     /\ tl[2] \subseteq Closure(tips[k])'
          BY <1>0, <1>1, <2>0, <2>2, <4>1 DEF Sound
        <4>2. ASSUME NEW tl \in behind[n]
              PROVE  /\ tl[2] # {} /\ tl[2] \subseteq published'
                     /\ tl[2] \subseteq Closure(tips[n])'
          <5>1. tl[2] # {} /\ tl[2] \subseteq published /\ tl[2] \subseteq Closure(tips[n])
            BY <1>1, <4>2 DEF Sound
          <5> QED BY <1>0, <2>3, <5>1
        <4>3. <<"head", {b}>>[2] = {b} /\ {b} \subseteq Closure(tips[n])'
          BY <2>3, <3>1
        <4>4. {b} # {} /\ {b} \subseteq published'
          BY <1>0, <1>2
        <4>5. ASSUME NEW tl \in behind'[n]
              PROVE  /\ tl[2] # {} /\ tl[2] \subseteq published'
                     /\ tl[2] \subseteq Closure(tips[n])'
          <5>1. tl \in behind[n] \/ tl = <<"head", {b}>>
            BY <2>0
          <5> QED BY <4>2, <4>3, <4>4, <5>1
        <4> QED BY <4>1, <4>5
      <3>3. \A k \in Peer : know'[k] \subseteq published' /\ tips'[k] \subseteq published'
        BY <1>0, <1>1, <1>2, <2>0 DEF Sound
      <3> QED BY <1>0, <1>1, <2>0, <3>2, <3>3 DEF Sound
    <2>5. \A x \in Closure({b}) : Followed(n, x)'
      <3>1. <<"head", {b}>> \in behind'[n] /\ <<"head", {b}>>[2] = {b}
        BY <2>0
      <3> QED BY <1>3, <3>1 DEF Followed
    <2>6. /\ \A k \in Peer \ {n} : \A x : Followed(k, x)' <=> Followed(k, x)
          /\ \A x : Followed(n, x) => Followed(n, x)'
      BY <1>3, <2>0 DEF Followed
    <2>7. Whole'
      <3>1. b \in Closure({b})
        BY ClosureIs
      <3>2. know'[n] \subseteq Closure(tips[n])'
        BY <1>1, <2>0, <2>3, <3>1 DEF Whole
      <3>3. \A c \in Closure(tips[n])' : c \in know'[n] \/ Followed(n, c)'
        BY <1>1, <2>0, <2>3, <2>5, <2>6 DEF Whole
      <3>4. ASSUME NEW k \in Peer \ {n}
            PROVE  /\ know'[k] \subseteq Closure(tips[k])'
                   /\ \A c \in Closure(tips[k])' : c \in know'[k] \/ Followed(k, c)'
        BY <1>1, <2>0, <2>2, <2>6, <3>4 DEF Whole
      <3> QED BY <3>2, <3>3, <3>4 DEF Whole
    <2>8. Rows'
      <3>1. b \in Peer => member[b] # "out"
        BY <1>1, <1>2 DEF Queues
      <3> QED BY <1>0, <1>1, <2>0, <2>1, <3>1 DEF Rows
    <2>9. ASSUME Calm' PROVE Spread'
      <3>1. Calm /\ Spread
        BY <1>0, <2>9 DEF Calm, MemInv
      <3>2. ASSUME NEW m \in Peer PROVE \A x : Gets(m, x) => Gets(m, x)'
        <4>1. ASSUME m = n PROVE \A x \in Closure({b}) : Gets(m, x)'
          BY <2>5, <4>1 DEF Gets
        <4>2. \A h \in Entry : <<m, h>> \in wire => <<m, h>> \in wire' \/ (m = n /\ h = b)
          BY <1>0
        <4>3. \A h \in Entry : <<m, h>> \in wire =>
                  <<m, h>> \in wire' \/ \A x \in Closure({h}) : Gets(m, x)'
          BY <4>1, <4>2
        <4>4. know[m] \subseteq know'[m] /\ behind[m] \subseteq behind'[m]
          BY <2>0
        <4> QED BY <1>2, <4>3, <4>4, GetsKept
      <3>3. NewFollowed'
        BY <2>0, <2>1, <3>1 DEF Spread, NewFollowed
      <3>4. RootRows'
        BY <2>0, <2>1, <3>1, MembershipAssumption DEF Spread, RootRows
      <3>5. \A k \in Peer : know[k] \subseteq know'[k]
        BY <2>0
      <3>6. RootGets' /\ Told' /\ Meet'
        BY <1>0, <2>1, <3>1, <3>2, <3>4, <3>5, SpreadKept
      <3> QED BY <1>0, <3>1, <3>3, <3>4, <3>6 DEF Spread
    <2> QED BY <1>3, <1>4, <2>4, <2>7, <2>8, <2>9
  <1> QED BY <1>0, <1>5, <1>6

LEMMA PostKept ==
    ASSUME MemInv, NEW n \in Peer, NEW b \in Entry, PostBlock(n, b)
    PROVE  History' /\ Queues' /\ Sound' /\ Whole' /\ Rows' /\ (Calm' => Spread')
  <1>0. /\ UNCHANGED <<scene, member, peerTbl, addMsgs, behind, welcoming>>
        /\ member[n] = "in" /\ b \in queued[n] /\ (b \in Peer \/ tips[n] # {})
        /\ hist' = [hist EXCEPT ![b] = Closure(tips[n])]
        /\ know' = [know EXCEPT ![n] = know[n] \cup {b}]
        /\ tips' = [tips EXCEPT ![n] = {b}] /\ published' = published \cup {b}
        /\ queued' = [queued EXCEPT ![n] = queued[n] \ {b}]
        /\ wire' = wire \cup ({m \in Peer : peerTbl[n][m] # "none"} \X {b})
    BY DEF PostBlock
  <1>1. History /\ MemTypeOK /\ Sound /\ Rows /\ Whole /\ Queues
    BY DEF MemInv
  <1>2. b \notin published /\ (b \in Peer => b = n)
    BY <1>0, <1>1 DEF Queues
  <1>3. /\ hist'[b] = Closure(tips[n]) /\ \A c \in Entry \ {b} : hist'[c] = hist[c]
        /\ know'[n] = know[n] \cup {b} /\ tips'[n] = {b} /\ queued'[n] = queued[n] \ {b}
        /\ \A k \in Peer \ {n} : /\ know'[k] = know[k] /\ tips'[k] = tips[k]
                                 /\ queued'[k] = queued[k]
    BY <1>0, <1>1 DEF MemTypeOK
  <1>4. HistSame /\ published \subseteq Entry
    BY <1>0, <1>1, <1>2, <1>3 DEF HistSame, MemTypeOK
  <1>5. tips[n] \subseteq published /\ Closure(tips[n]) \subseteq published
    BY <1>1, ClosurePublished DEF Sound
  <1>6. \A B : B \subseteq published => Closure(B)' = Closure(B)
    BY <1>4, ClosureSame
  <1>7. \A x : x \in Closure({b})' <=> x = b \/ x \in Closure(tips[n])
    BY <1>3 DEF Closure
  <1>8. History'
    <2>1. Creator \in Closure({b})'
      <3>1. CASE tips[n] = {}
        BY <1>0, <1>1, <1>2, <1>7, <3>1 DEF Sound
      <3>2. CASE tips[n] # {}
        BY <1>1, <1>5, <1>7, <3>2, ClosureRooted
      <3> QED BY <3>1, <3>2
    <2>2. \A c \in hist'[b] : hist'[c] \subseteq hist'[b]
      <3>1. ASSUME NEW c \in Closure(tips[n]) PROVE hist[c] \subseteq Closure(tips[n])
        <4>1. Closure({c}) \subseteq Closure(tips[n])
          BY <1>1, <1>5, ClosureClosed
        <4> QED BY <4>1, ClosureIs
      <3> QED BY <1>2, <1>3, <1>4, <1>5, <3>1
    <2>3. ASSUME NEW h \in published
          PROVE  /\ hist'[h] \subseteq published' /\ Creator \in Closure({h})'
                 /\ \A c \in hist'[h] : hist'[c] \subseteq hist'[h]
      <3>1. /\ hist[h] \subseteq published /\ Creator \in Closure({h})
            /\ \A c \in hist[h] : hist[c] \subseteq hist[h]
        BY <1>1 DEF History
      <3>2. hist'[h] = hist[h] /\ \A c \in hist[h] : hist'[c] = hist[c]
        BY <1>4, <3>1 DEF HistSame
      <3>3. Closure({h})' = Closure({h})
        BY <1>6
      <3> QED BY <1>0, <3>1, <3>2, <3>3
    <2>4. hist'[b] \subseteq published'
      BY <1>0, <1>3, <1>5
    <2> QED BY <1>0, <2>1, <2>2, <2>3, <2>4 DEF History
  <1>9. Queues'
    BY <1>0, <1>1, <1>2, <1>3 DEF Queues
  <1>10. \A k \in Peer \ {n} : Closure(tips[k])' = Closure(tips[k])
    <2> SUFFICES ASSUME NEW k \in Peer \ {n}
                 PROVE  Closure(tips[k])' = Closure(tips[k])
      OBVIOUS
    <2>1. tips'[k] = tips[k] /\ tips[k] \subseteq published
      BY <1>1, <1>3 DEF Sound
    <2> QED BY <1>4, <2>1 DEF HistSame, Closure
  <1>11. \A x : x \in Closure(tips[n])' <=> x = b \/ x \in Closure(tips[n])
    BY <1>3 DEF Closure
  <1>12. Sound'
    <2>1. ASSUME NEW k \in Peer, NEW tl \in behind'[k]
          PROVE  tl[2] # {} /\ tl[2] \subseteq published' /\ tl[2] \subseteq Closure(tips[k])'
      <3>1. tl[2] # {} /\ tl[2] \subseteq published /\ tl[2] \subseteq Closure(tips[k])
        BY <1>0, <1>1, <2>1 DEF Sound
      <3> QED BY <1>0, <1>10, <1>11, <3>1
    <2>2. \A k \in Peer : know'[k] \subseteq published' /\ tips'[k] \subseteq published'
      BY <1>0, <1>1, <1>3 DEF Sound
    <2>3. \A k \in Peer, h \in Entry : <<k, h>> \in wire' => h \in published'
      BY <1>0, <1>1 DEF Sound
    <2>4. \A a \in addMsgs' : a.parents # {} /\ a.parents \subseteq published'
                              /\ member'[a.from] # "out"
      BY <1>0, <1>1 DEF Sound
    <2>5. \A k \in Peer : member'[k] = "out" => know'[k] = {} /\ tips'[k] = {} /\ behind'[k] = {}
      BY <1>0, <1>1, <1>3 DEF Sound
    <2>6. \A k \in Peer : member'[k] = "in" /\ k # Creator => tips'[k] # {}
      BY <1>0, <1>1, <1>3 DEF Sound
    <2>7. member'[Creator] # "out"
      BY <1>0, <1>1 DEF Sound
    <2> QED BY <2>1, <2>2, <2>3, <2>4, <2>5, <2>6, <2>7 DEF Sound
  <1>13. \A k \in Peer : \A x : Followed(k, x)' <=> Followed(k, x)
    <2> SUFFICES ASSUME NEW k \in Peer, NEW x PROVE Followed(k, x)' <=> Followed(k, x)
      OBVIOUS
    <2>1. \A tl \in behind[k] : Closure(tl[2])' = Closure(tl[2])
      BY <1>1, <1>6 DEF Sound
    <2> QED BY <1>0, <2>1 DEF Followed
  <1>14. Whole'
    <2>1. know'[n] \subseteq Closure(tips[n])'
      BY <1>1, <1>3, <1>11 DEF Whole
    <2>2. \A c \in Closure(tips[n])' : c \in know'[n] \/ Followed(n, c)'
      BY <1>1, <1>3, <1>11, <1>13 DEF Whole
    <2>3. ASSUME NEW k \in Peer \ {n}
          PROVE  /\ know'[k] \subseteq Closure(tips[k])'
                 /\ \A c \in Closure(tips[k])' : c \in know'[k] \/ Followed(k, c)'
      BY <1>1, <1>3, <1>10, <1>13, <2>3 DEF Whole
    <2> QED BY <2>1, <2>2, <2>3 DEF Whole
  <1>15. Rows'
    BY <1>0, <1>1, <1>2, <1>3 DEF Rows
  <1>16. ASSUME Calm' PROVE Spread'
    <2>1. Calm /\ Spread
      BY <1>0, <1>16 DEF Calm, MemInv
    <2>2. ASSUME NEW m \in Peer PROVE \A x : Gets(m, x) => Gets(m, x)'
      <3>1. know[m] \subseteq know'[m] /\ behind[m] \subseteq behind'[m] /\ wire \subseteq wire'
        BY <1>0, <1>3
      <3> QED BY <1>4, <3>1, GetsKept
    <2>3. NewFollowed' /\ RootRows'
      BY <1>0, <1>3, <2>1, MembershipAssumption DEF Spread, NewFollowed, RootRows
    <2>4. Tells(n, b)'
      <3>1. ASSUME NEW m \in Peer, peerTbl'[n][m] = "welcomed" PROVE Gets(m, b)'
        <4>1. <<m, b>> \in wire' /\ b \in Closure({b})'
          BY <1>0, <1>7, <3>1
        <4> QED BY <4>1 DEF Gets
      <3> QED BY <1>0, <1>3, <3>1 DEF Tells
    <2>5. \A k \in Peer : know[k] \subseteq know'[k]
      BY <1>3
    <2>6. \A x \in published' \ published : \E k \in Peer : Tells(k, x)' /\ (x \in Peer => k = x)
      BY <1>0, <1>2, <2>4
    <2>7. RootGets' /\ Told' /\ Meet'
      BY <1>0, <2>1, <2>2, <2>3, <2>5, <2>6, SpreadKept
    <2> QED BY <1>0, <2>1, <2>3, <2>7 DEF Spread
  <1> QED BY <1>8, <1>9, <1>12, <1>14, <1>15, <1>16

\* What the clean-up of the heads leaves reaches what they reached.
LEMMA HeadsCleaned ==
    ASSUME MemInv, NEW n \in Peer, NEW tl \in behind[n], NEW next,
           next = IF tl[1] = "add" THEN tips[n]
                  ELSE tl[2] \cup {b \in tips[n] : b \notin UNION {hist[h] : h \in tl[2]}}
    PROVE  /\ next # {} /\ next \subseteq published
           /\ \A x : x \in Closure(next) <=> x \in Closure(tips[n])
  <1>1. /\ tl[2] # {} /\ tl[2] \subseteq published /\ tl[2] \subseteq Closure(tips[n])
        /\ tips[n] \subseteq published
    BY DEF MemInv, Sound
  <1>2. CASE tl[1] = "add"
    <2>1. next = tips[n]
      BY <1>2
    <2>2. tips[n] # {}
      BY <1>1, ClosureIs
    <2> QED BY <1>1, <2>1, <2>2
  <1>3. CASE tl[1] # "add"
    <2>1. \A x : x \in next <=> \/ x \in tl[2]
                                \/ x \in tips[n] /\ \A h \in tl[2] : x \notin hist[h]
      BY <1>3
    <2>2. next # {} /\ next \subseteq published
      BY <1>1, <2>1
    <2>3. next \subseteq Closure(tips[n])
      BY <1>1, <2>1, ClosureIs
    <2>4. Closure(next) \subseteq Closure(tips[n])
      BY <1>1, <2>3, ClosureClosed DEF MemInv
    <2>5. tips[n] \subseteq Closure(next)
      BY <2>1, ClosureIs
    <2>6. Closure(tips[n]) \subseteq Closure(next)
      BY <2>2, <2>5, ClosureClosed DEF MemInv
    <2> QED BY <2>2, <2>4, <2>6
  <1> QED BY <1>2, <1>3

LEMMA FollowKept ==
    ASSUME MemInv, NEW n \in Peer, NEW tl \in behind[n], FollowTail(n, tl)
    PROVE  History' /\ Queues' /\ Sound' /\ Whole' /\ Rows' /\ (Calm' => Spread')
  <1> DEFINE old == Closure(tl[2])
             next == IF tl[1] = "add" THEN tips[n]
                     ELSE tl[2] \cup {b \in tips[n] : b \notin UNION {hist[h] : h \in tl[2]}}
             rows == AddPeers(n, old \cap Peer)
  <1>0. /\ UNCHANGED <<scene, member, hist, published, queued, addMsgs>> /\ n \notin welcoming
        /\ behind' = [behind EXCEPT ![n] = behind[n] \ {tl}]
        /\ know' = [know EXCEPT ![n] = know[n] \cup old] /\ tips' = [tips EXCEPT ![n] = next]
        /\ peerTbl' = IF n \in scene.overlap THEN rows ELSE Marked(rows, n)
        /\ wire' = wire \cup ({m \in Peer : rows[n][m] = "new"} \X next)
        /\ welcoming' = IF n \in scene.overlap THEN welcoming \cup {n} ELSE welcoming
    BY DEF FollowTail
  <1>1. History /\ MemTypeOK /\ Sound /\ Rows /\ Whole /\ Queues
    BY DEF MemInv
  <1>20. next = IF tl[1] = "add" THEN tips[n]
                ELSE tl[2] \cup {b \in tips[n] : b \notin UNION {hist[h] : h \in tl[2]}}
    OBVIOUS
  <1> HIDE DEF next
  <1>2. /\ next # {} /\ next \subseteq published
        /\ \A x : x \in Closure(next) <=> x \in Closure(tips[n])
    BY <1>20, HeadsCleaned
  <1>3. /\ tl[2] \subseteq published /\ tl[2] \subseteq Closure(tips[n])
        /\ tips[n] \subseteq published
    BY <1>1 DEF Sound
  <1>4. old \subseteq published /\ old \subseteq Closure(tips[n])
    BY <1>1, <1>3, ClosurePublished, ClosureClosed
  <1>5. rows \in [Peer -> [Peer -> Row]] /\ \A k, m \in Peer : rows[k][m] =
            IF k = n /\ m \in old /\ m # n /\ peerTbl[n][m] = "none"
            THEN "new" ELSE peerTbl[k][m]
    BY <1>1, AddPeersIs
  <1> HIDE DEF old, rows
  <1>6. \A k, m \in Peer : peerTbl'[k][m] =
            IF n \notin scene.overlap /\ k = n /\ rows[n][m] = "new"
            THEN "welcomed" ELSE rows[k][m]
    <2>1. CASE n \in scene.overlap
      BY <1>0, <2>1
    <2>2. CASE n \notin scene.overlap
      <3>1. peerTbl' = Marked(rows, n)
        BY <1>0, <2>2
      <3>2. \A k, m \in Peer : peerTbl'[k][m] =
                IF k = n /\ rows[n][m] = "new" THEN "welcomed" ELSE rows[k][m]
        BY <1>5, <3>1, MarkedIs
      <3> QED BY <2>2, <3>2
    <2> QED BY <2>1, <2>2
  <1>7. /\ behind'[n] = behind[n] \ {tl} /\ know'[n] = know[n] \cup old /\ tips'[n] = next
        /\ \A k \in Peer \ {n} : /\ know'[k] = know[k] /\ tips'[k] = tips[k]
                                 /\ behind'[k] = behind[k]
    BY <1>0, <1>1 DEF MemTypeOK
  <1>8. HistSame
    BY <1>0 DEF HistSame
  <1>9. History' /\ \A B : Closure(B)' = Closure(B)
    BY <1>0, <1>1 DEF History, Closure
  <1>10. Queues'
    BY <1>0, <1>1 DEF Queues
  <1>11. \A k \in Peer \ {n} : Closure(tips[k])' = Closure(tips[k])
    BY <1>0, <1>7 DEF Closure
  <1>12. \A x : x \in Closure(tips[n])' <=> x \in Closure(tips[n])
    <2>1. \A x : x \in Closure(tips[n])' <=> x \in Closure(next)
      BY <1>0, <1>7 DEF Closure
    <2> QED BY <1>2, <2>1
  <1>13. Sound'
    <2>1. ASSUME NEW k \in Peer, NEW u \in behind'[k]
          PROVE  u[2] # {} /\ u[2] \subseteq published' /\ u[2] \subseteq Closure(tips[k])'
      <3>1. u \in behind[k]
        BY <1>7, <2>1
      <3>2. u[2] # {} /\ u[2] \subseteq published /\ u[2] \subseteq Closure(tips[k])
        BY <1>1, <3>1 DEF Sound
      <3> QED BY <1>0, <1>11, <1>12, <3>2
    <2>2. \A k \in Peer : know'[k] \subseteq published' /\ tips'[k] \subseteq published'
      BY <1>0, <1>1, <1>2, <1>4, <1>7 DEF Sound
    <2>3. \A k \in Peer, h \in Entry : <<k, h>> \in wire' => h \in published'
      BY <1>0, <1>1, <1>2 DEF Sound
    <2>4. member[n] # "out"
      BY <1>1 DEF Sound
    <2>5. \A k \in Peer : member'[k] = "out" => know'[k] = {} /\ tips'[k] = {} /\ behind'[k] = {}
      BY <1>0, <1>1, <1>7, <2>4 DEF Sound
    <2>6. \A k \in Peer : member'[k] = "in" /\ k # Creator => tips'[k] # {}
      BY <1>0, <1>1, <1>2, <1>7 DEF Sound
    <2>7. \A a \in addMsgs' : a.parents # {} /\ a.parents \subseteq published'
                              /\ member'[a.from] # "out"
      BY <1>0, <1>1 DEF Sound
    <2>8. member'[Creator] # "out"
      BY <1>0, <1>1 DEF Sound
    <2> QED BY <2>1, <2>2, <2>3, <2>5, <2>6, <2>7, <2>8 DEF Sound
  <1>14. /\ \A k \in Peer \ {n} : \A x : Followed(k, x)' <=> Followed(k, x)
         /\ \A x : Followed(n, x) => Followed(n, x)' \/ x \in old
    BY <1>7, <1>9 DEF Followed, old
  <1>15. Whole'
    <2>1. know'[n] \subseteq Closure(tips[n])'
      BY <1>1, <1>4, <1>7, <1>12 DEF Whole
    <2>2. \A c \in Closure(tips[n])' : c \in know'[n] \/ Followed(n, c)'
      BY <1>1, <1>7, <1>12, <1>14 DEF Whole
    <2>3. ASSUME NEW k \in Peer \ {n}
          PROVE  /\ know'[k] \subseteq Closure(tips[k])'
                 /\ \A c \in Closure(tips[k])' : c \in know'[k] \/ Followed(k, c)'
      BY <1>1, <1>7, <1>11, <1>14, <2>3 DEF Whole
    <2> QED BY <2>1, <2>2, <2>3 DEF Whole
  <1>16. \A k, m \in Peer : /\ peerTbl[k][m] # "none" => peerTbl'[k][m] # "none"
                            /\ peerTbl'[k][m] # "none" =>
                                  peerTbl[k][m] # "none" \/ (k = n /\ m \in old)
                            /\ k = n /\ m \in old /\ m # n => peerTbl'[k][m] # "none"
    BY <1>5, <1>6
  <1>17. Rows'
    <2>1. \A m \in Peer : m \in old => member[m] # "out"
      BY <1>1, <1>4 DEF Queues
    <2>2. \A k, m \in Peer : peerTbl'[k][m] # "none" => member'[m] # "out"
      BY <1>0, <1>1, <1>16, <2>1 DEF Rows
    <2>3. \A k, m \in Peer : m \in know'[k] /\ m # k => peerTbl'[k][m] # "none"
      BY <1>1, <1>7, <1>16 DEF Rows
    <2> QED BY <2>2, <2>3 DEF Rows
  <1>18. ASSUME Calm' PROVE Spread'
    <2>1. Calm /\ Spread
      BY <1>0, <1>18 DEF Calm, MemInv
    <2>2. n \notin scene.overlap /\ welcoming' = welcoming
      BY <1>0, <2>1 DEF Calm
    <2>3. \A k, m \in Peer : /\ peerTbl'[k][m] = "new" => peerTbl[k][m] = "new" /\ k # n
                             /\ peerTbl'[k][m] = "welcomed" =>
                                    peerTbl[k][m] = "welcomed" \/ (k = n /\ rows[n][m] = "new")
      BY <1>5, <1>6, <2>2
    <2>4. NewFollowed'
      BY <1>7, <2>1, <2>3 DEF Spread, NewFollowed
    <2>5. RootRows'
      BY <1>7, <1>16, <2>1, MembershipAssumption DEF Spread, RootRows
    <2>6. ASSUME NEW m \in Peer PROVE \A x : Gets(m, x) => Gets(m, x)'
      <3>1. know[m] \subseteq know'[m] /\ wire \subseteq wire'
        BY <1>0, <1>7
      <3>2. \A u \in behind[m] : u \in behind'[m] \/ (m = n /\ u = tl)
        BY <1>7
      <3>3. m = n => \A x \in Closure(tl[2]) : Gets(m, x)'
        BY <1>7 DEF Gets, old
      <3>4. \A u \in behind[m] : u \in behind'[m] \/ \A x \in Closure(u[2]) : Gets(m, x)'
        BY <3>2, <3>3
      <3> QED BY <1>8, <3>1, <3>4, GetsKept
    <2>7. ASSUME NEW m \in Peer, rows[n][m] = "new", NEW x \in know'[n] PROVE Gets(m, x)'
      <3>1. x \in Closure(next)
        BY <1>1, <1>2, <1>4, <1>7, <2>7 DEF Whole
      <3>2. PICK h \in next : x \in Closure({h})
        BY <3>1, ClosureIs
      <3>3. h \in Entry /\ <<m, h>> \in wire'
        BY <1>0, <1>1, <1>2, <2>7 DEF MemTypeOK
      <3>4. x \in Closure({h})'
        BY <1>9, <3>2
      <3> QED BY <3>3, <3>4 DEF Gets
    <2>8. \A k, m \in Peer : peerTbl'[k][m] = "welcomed" /\ peerTbl[k][m] # "welcomed" =>
              \A x \in know'[k] : Gets(m, x)'
      BY <2>3, <2>7
    <2>9. \A k \in Peer : know[k] \subseteq know'[k]
      BY <1>7
    <2>10. RootGets' /\ Told' /\ Meet'
      BY <1>0, <2>1, <2>5, <2>6, <2>8, <2>9, SpreadKept
    <2> QED BY <2>1, <2>2, <2>4, <2>5, <2>10 DEF Spread
  <1> QED BY <1>9, <1>10, <1>13, <1>15, <1>17, <1>18

-----------------------------------------------------------------------------
THEOREM MemberInvariant == MemSpec => []MemInv
  <1>1. ASSUME MemInv, [MemNext]_memVars PROVE MemInv'
    <2>0. MemTypeOK'
      BY <1>1, MemTypes DEF MemInv
    <2>1. ASSUME NEW n \in Peer, NEW b \in Entry, Author(n, b) PROVE MemInv'
      BY <1>1, <2>0, <2>1, AuthorKept DEF MemInv
    <2>2. ASSUME NEW n \in Peer, NEW b \in Entry, PostBlock(n, b) PROVE MemInv'
      BY <1>1, <2>0, <2>2, PostKept DEF MemInv
    <2>3. ASSUME NEW n \in Peer, NEW b \in Entry, ReceiveBlock(n, b) PROVE MemInv'
      BY <1>1, <2>0, <2>3, ReceiveKept DEF MemInv
    <2>4. ASSUME NEW n \in Peer, NEW m \in Peer, Invite(n, m) PROVE MemInv'
      BY <1>1, <2>0, <2>4, InviteKept DEF MemInv
    <2>5. ASSUME NEW n \in Peer, NEW tl \in behind[n], FollowTail(n, tl) PROVE MemInv'
      BY <1>1, <2>0, <2>5, FollowKept DEF MemInv
    <2>6. ASSUME NEW n \in Peer, MarkWelcomed(n) PROVE MemInv'
      BY <1>1, <2>0, <2>6, MarkKept DEF MemInv
    <2>7. ASSUME NEW n \in Peer, Leave(n) PROVE MemInv'
      BY <1>1, <2>0, <2>7, LeaveKept DEF MemInv
    <2>8. ASSUME NEW a \in addMsgs, AcceptAdd(a) PROVE MemInv'
      BY <1>1, <2>0, <2>8, AcceptKept DEF MemInv
    <2>9. ASSUME UNCHANGED memVars PROVE MemInv'
      <3>1. Queues' /\ Sound'
        <4>1. \A k \in Peer : Closure(tips[k])' = Closure(tips[k])
          BY <2>9 DEF memVars, Closure
        <4> QED BY <1>1, <2>9, <4>1 DEF MemInv, Queues, Sound, memVars
      <3>2. History' /\ Whole' /\ Rows' /\ (Calm' => Spread')
        BY <1>1, <2>9, Still DEF memVars
      <3> QED BY <2>0, <3>1, <3>2 DEF MemInv
    <2> QED BY <1>1, <2>1, <2>2, <2>3, <2>4, <2>5, <2>6, <2>7, <2>8, <2>9 DEF MemNext
  <1> QED BY MemInitOK, <1>1, PTL DEF MemSpec

\* When nothing is on its way, everybody knows everybody and everything.
LEMMA AllTold ==
    ASSUME MemInv, Quiescent, Calm
    PROVE  \A n, m \in Peer : member[n] = "in" /\ member[m] = "in" =>
               know[n] = published /\ (n # m => peerTbl[n][m] # "none")
  <1> USE MembershipAssumption
  <1>1. Spread /\ MemTypeOK /\ Rows /\ Queues /\ Sound
    BY DEF MemInv
  <1>2. \A n \in Peer : \A b : Gets(n, b) <=> b \in know[n]
    BY DEF Quiescent, Gets, Followed
  <1>3. \A n \in Peer : member[n] = "in" => n \in published
    BY <1>1 DEF Quiescent, Queues
  <1>4. \A n, m \in Peer : m \in know[n] /\ m # n => peerTbl[n][m] = "welcomed"
    <2>1. \A n, m \in Peer : peerTbl[n][m] # "new"
      BY <1>1 DEF Spread, NewFollowed, Quiescent
    <2> QED BY <1>1, <2>1 DEF Rows, MemTypeOK
  <1>5. ASSUME NEW n \in Peer, NEW m \in Peer, n # m, member[n] = "in", m \in know[n]
        PROVE  n \in know[m]
    <2>1. Tells(n, n)
      BY <1>1, <1>3, <1>5 DEF Spread, Told
    <2> QED BY <1>2, <1>4, <1>5, <2>1 DEF Tells
  <1>6. \A n \in Peer : member[n] = "in" /\ n # Creator => n \in know[Creator]
    BY <1>1, <1>2, <1>5 DEF Spread, RootGets
  <1>7. ASSUME NEW n \in Peer, NEW m \in Peer, n # m, member[n] = "in", member[m] = "in"
        PROVE  m \in know[n]
    <2>1. CASE n = Creator
      BY <1>6, <1>7, <2>1
    <2>2. CASE m = Creator
      BY <1>1, <1>2, <1>7, <2>2 DEF Spread, RootGets
    <2>3. CASE n # Creator /\ m # Creator
      <3>1. /\ peerTbl[Creator][n] = "welcomed" /\ peerTbl[Creator][m] = "welcomed"
        BY <1>4, <1>6, <1>7, <2>3
      <3>2. m \in know[n] \/ n \in know[m]
        BY <1>1, <1>2, <1>7, <3>1 DEF Spread, Meet
      <3> QED BY <1>5, <1>7, <3>2
    <2> QED BY <2>1, <2>2, <2>3
  <1>8. ASSUME NEW n \in Peer, member[n] = "in", NEW b \in published PROVE b \in know[n]
    <2>1. PICK k \in Peer : Tells(k, b)
      BY <1>1 DEF Spread, Told
    <2>2. CASE k = n
      BY <2>1, <2>2 DEF Tells
    <2>3. CASE k # n
      <3>1. peerTbl[k][n] = "welcomed"
        BY <1>4, <1>7, <1>8, <2>1, <2>3 DEF Tells
      <3> QED BY <1>2, <2>1, <3>1 DEF Tells
    <2> QED BY <2>2, <2>3
  <1>9. \A n \in Peer : member[n] = "in" => know[n] = published
    <2>1. \A n \in Peer : know[n] \subseteq published
      BY <1>1 DEF Sound
    <2>2. \A n \in Peer : member[n] = "in" => published \subseteq know[n]
      BY <1>8
    <2> QED BY <2>1, <2>2
  <1>10. \A n, m \in Peer : n # m /\ member[n] = "in" /\ member[m] = "in" => peerTbl[n][m] # "none"
    BY <1>1, <1>7 DEF Rows
  <1> QED BY <1>9, <1>10

\* However many nodes there are, whoever invites whom and in whichever order
\* messages come: when nothing is on its way, every member has every block and
\* every other member in its table (post and sendWelcome of thread.go,
\* addOrUpdatePeer); and what a member knows has no holes.
THEOREM MembersAlwaysAgree == MemSpec => []MembersAgree
  <1>1. ASSUME MemInv PROVE MembersAgree
    <2>1. Converged
      BY <1>1, AllTold DEF Converged, Calm
    <2>2. KnowsWhole
      <3> SUFFICES ASSUME NEW n \in Peer, behind[n] = {}
                   PROVE  know[n] = Closure(know[n]) /\ know[n] \subseteq Closure(tips[n])
        BY DEF KnowsWhole
      <3>1. know[n] \subseteq Closure(tips[n]) /\ Closure(tips[n]) \subseteq know[n]
        BY <1>1 DEF MemInv, Whole, Followed
      <3>2. Closure(know[n]) \subseteq Closure(tips[n])
        BY <1>1, <3>1, ClosureClosed DEF MemInv, Sound
      <3>3. know[n] \subseteq Closure(know[n])
        BY ClosureIs
      <3> QED BY <3>1, <3>2, <3>3
    <2> QED BY <2>1, <2>2 DEF MembersAgree
  <1> QED BY <1>1, MemberInvariant, PTL

-----------------------------------------------------------------------------
(* The files of a node.                                                      *)

\* A block, an IGNORE and a removal each go through states of their own; a row
\* is of a block that was indexed, a target of a file that its data links.
Kinds ==
    /\ \A b \in FilesBlock : work[b] \in {"none", "prepared", "keep", "drop", "taken",
                                          "index", "indexed", "done"}
    /\ \A i \in IgnoreBlock : work[i] \in {"none", "remove", "deindex", "index", "done"}
    /\ \A t \in ThreadId : work[t] \in {"none", "clean", "done"}
    /\ \A b \in FilesBlock :
           IF b \in layout.local THEN work[b] \in {"none", "prepared", "indexed", "done"}
                                 ELSE work[b] \notin {"prepared", "indexed"}
    /\ \A b \in filesRows : work[b] \in {"indexed", "done"}
    /\ \A t \in ThreadId : \A b \in toClean[t] : layout.thread[b] = t
    /\ \A f \in File : \A d \in targets[f] : f \in layout.files[d]

\* An IGNORE that has begun, is in the index, or works on the files.
Begun ==
    /\ \A b \in FilesBlock : work[b] = "indexed" => b \in filesRows
    /\ \A i \in IgnoreBlock : work[i] \in {"remove", "deindex"} /\ i \in layout.local
           => i \in ignoreRows
    /\ \A i \in ignoreRows :
           work[i] = "done" \/ (i \in layout.local /\ work[i] \in {"remove", "deindex"})
    /\ \A i \in IgnoreBlock : work[i] # "none" /\ layout.target[i] \in layout.local
           => work[layout.target[i]] = "done"
    /\ \A i \in IgnoreBlock : work[i] = "deindex" =>
           /\ layout.target[i] \in filesRows /\ work[layout.target[i]] = "done"
           /\ layout.data[layout.target[i]] \notin pinnedData
           /\ UsedOnce(layout.target[i])

\* One call or handler at a time.
OneAtATime == \A x, y \in Piece : ~Resting(x) /\ ~Resting(y) => x = y

\* The data node of a block has a pin, if it did not lose it before AddFiles ...
Pins(b) == layout.data[b] \in pinnedData \/ b \in unpinned
\* ... and its files have rows, pins and the target.
Holds(b) ==
    \A f \in Linked(b) : f \in fileRows \cap pinnedFiles /\ layout.data[b] \in targets[f]

\* Nothing was done about a block but to add it.
Shown(b) ==
    /\ work[b] = "done" /\ b \notin failed /\ IgnoredBy(b) = {}
    /\ \A i \in IgnoreBlock : layout.target[i] = b =>
           i \notin failed /\ work[i] \notin {"deindex", "index"}
    /\ layout.thread[b] \notin failed
    /\ work[layout.thread[b]] = "clean" => b \in toClean[layout.thread[b]]

\* What is shown is kept, and what is on the way has what it needs.
Keeping ==
    /\ \A b \in FilesBlock :
           /\ work[b] \in {"prepared", "indexed", "taken", "index"} => Pins(b)
           /\ work[b] \in {"indexed", "taken", "index"} => Linked(b) \subseteq pinnedFiles
           /\ work[b] = "index" => Holds(b)
           /\ work[b] = "drop" => IgnoredBy(b) # {}
    /\ \A b \in filesRows : Shown(b) => Holds(b) /\ Pins(b)

\* The only block that ever had its data; nothing is left of the data.
Alone(b) == \A c \in FilesBlock : layout.data[c] = layout.data[b] => c = b
Clean(b) == layout.data[b] \notin pinnedData /\ \A f \in File : layout.data[b] \notin targets[f]
\* The files of a block are filed in full.
Filed(b) == \A f \in Linked(b) : f \in fileRows /\ layout.data[b] \in targets[f]

\* Data of one block is filed in full or not at all, and not at all after the
\* block was ignored.
Going ==
    /\ \A b \in FilesBlock : Alone(b) /\ work[b] \in {"none", "keep", "drop"} => Clean(b)
    /\ \A b \in filesRows \ failed : Alone(b) /\ work[b] = "done" => Filed(b) \/ Clean(b)
    /\ \A b \in FilesBlock : Alone(b) /\ work[b] = "index" => Filed(b)
    /\ \A b \in FilesBlock : work[b] \in {"keep", "taken", "index"} => IgnoredBy(b) \subseteq layout.skewed
    /\ \A i \in IgnoreBlock :
           LET b == layout.target[i] IN
           /\ b \in filesRows \ failed /\ Alone(b) /\ work[b] = "done"
           /\ \/ work[i] = "index"
              \/ i \in ignoreRows \ layout.skewed /\ work[i] = "done"
           => Clean(b)

\* A file with a row or a pin is a target, or of a block that is on its way.
Owned ==
    \A f \in fileRows \cup pinnedFiles :
        \/ targets[f] # {}
        \/ \E b \in FilesBlock :
               f \in Linked(b) /\ (work[b] \in {"prepared", "indexed", "taken"} \/ b \in failed)

\* Two files the table has one row for.
Copies(f, g) == f # g /\ layout.copyOf[f] = layout.copyOf[g]

\* A handler has the row of each file or of a copy of it, and one that failed
\* met a copy.
Copied ==
    /\ \A b \in FilesBlock : work[b] = "taken" =>
           \A f \in Linked(b) : \E g \in fileRows : layout.copyOf[f] = layout.copyOf[g]
    /\ \A b \in (failed \cap FilesBlock) \ layout.local :
           \E f \in Linked(b) : \E g \in File : Copies(f, g)

\* Some files of a block lost the data node as a target.
SomeGone(b) == \E F \in SUBSET Linked(b) : DeIndex(b, F)

ShelfInv ==
    /\ ShelfTypeOK /\ Kinds /\ Owned
    /\ ~layout.overlap => Begun /\ OneAtATime /\ Keeping /\ Going /\ Copied

LEMMA LayoutIs ==
    ASSUME ShelfTypeOK
    PROVE  /\ layout.thread \in [FilesBlock -> ThreadId] /\ layout.data \in [FilesBlock -> Datum]
           /\ layout.files \in [Datum -> SUBSET File]
           /\ layout.target \in [IgnoreBlock -> FilesBlock]
           /\ \A b \in FilesBlock : Linked(b) \subseteq File /\ layout.data[b] \in Datum
  BY ThreadFilesAssumption DEF ShelfTypeOK, Layout, Linked

\* The kinds of work do not overlap.
LEMMA Pieces ==
    /\ \A b \in FilesBlock : b \in Piece /\ b \notin IgnoreBlock /\ b \notin ThreadId
    /\ \A i \in IgnoreBlock : i \in Piece /\ i \notin FilesBlock /\ i \notin ThreadId
    /\ \A t \in ThreadId : t \in Piece /\ t \notin FilesBlock /\ t \notin IgnoreBlock
  BY ThreadFilesAssumption DEF Piece

LEMMA ShelfStart == ShelfInit => ShelfInv
  <1> SUFFICES ASSUME ShelfInit PROVE ShelfInv
    OBVIOUS
  <1>1. ShelfTypeOK
    BY DEF ShelfInit, ShelfTypeOK
  <1>2. Kinds /\ Owned
    BY Pieces DEF ShelfInit, Kinds, Owned
  <1>3. Begun /\ OneAtATime
    BY Pieces, <1>1, LayoutIs DEF ShelfInit, Begun, OneAtATime, Resting
  <1>4. Keeping
    BY Pieces DEF ShelfInit, Keeping
  <1>5. Going
    BY Pieces, <1>1, LayoutIs DEF ShelfInit, Going, Clean
  <1>6. Copied
    BY Pieces DEF ShelfInit, Copied
  <1> QED BY <1>1, <1>2, <1>3, <1>4, <1>5, <1>6 DEF ShelfInv

\* What removals do to the files of a block, in full or up to a failure.
LEMMA AllGone == ASSUME NEW b, DeIndex(b, Linked(b)) PROVE SomeGone(b)
  BY DEF SomeGone

LEMMA PartGone == ASSUME NEW b, DeIndexSome(b) PROVE SomeGone(b)
  BY DEF SomeGone, DeIndexSome

LEMMA ShelfTyped ==
    ASSUME ShelfTypeOK, Kinds, ShelfNext
    PROVE  ShelfTypeOK' /\ Kinds'
  <1> USE Pieces, LayoutIs
  <1>1. ASSUME NEW b \in FilesBlock, Prepare(b) PROVE ShelfTypeOK' /\ Kinds'
    BY <1>1 DEF Prepare, At, ShelfTypeOK, Kinds, Linked
  <1>2. ASSUME NEW b \in FilesBlock, AddFiles(b) PROVE ShelfTypeOK' /\ Kinds'
    BY <1>2 DEF AddFiles, At, ShelfTypeOK, Kinds, Linked, tableVars
  <1>3. ASSUME NEW b \in FilesBlock, CheckIgnored(b) PROVE ShelfTypeOK' /\ Kinds'
    BY <1>3 DEF CheckIgnored, At, ShelfTypeOK, Kinds, tableVars, pinVars
  <1>4. ASSUME NEW b \in FilesBlock, TakeFiles(b) PROVE ShelfTypeOK' /\ Kinds'
    BY <1>4 DEF TakeFiles, At, ShelfTypeOK, Kinds, Linked
  <1>5. ASSUME NEW b \in FilesBlock, IndexFileData(b) PROVE ShelfTypeOK' /\ Kinds'
    <2>1. ShelfTypeOK'
      BY <1>5 DEF IndexFileData, At, ShelfTypeOK, Linked, pinVars
    <2>2. Kinds'
      BY <1>5 DEF IndexFileData, At, ShelfTypeOK, Kinds, Linked, pinVars
    <2> QED BY <2>1, <2>2
  <1>6. ASSUME NEW b \in FilesBlock, IndexFileDataFails(b) PROVE ShelfTypeOK' /\ Kinds'
    <2> PICK F \in SUBSET (Linked(b) \cap fileRows) :
            targets' = [f \in File |-> IF f \in F THEN targets[f] \cup {layout.data[b]}
                                       ELSE targets[f]]
      BY <1>6 DEF IndexFileDataFails
    <2>1. ShelfTypeOK'
      BY <1>6 DEF IndexFileDataFails, At, ShelfTypeOK, Linked, pinVars
    <2>2. Kinds'
      BY <1>6 DEF IndexFileDataFails, At, ShelfTypeOK, Kinds, Linked, pinVars
    <2> QED BY <2>1, <2>2
  <1>7. ASSUME NEW b \in FilesBlock, IndexFiles(b) PROVE ShelfTypeOK' /\ Kinds'
    BY <1>7 DEF IndexFiles, At, ShelfTypeOK, Kinds, tableVars, pinVars
  <1>8. ASSUME NEW i \in IgnoreBlock, BeginIgnore(i) PROVE ShelfTypeOK' /\ Kinds'
    BY <1>8 DEF BeginIgnore, At, ShelfTypeOK, Kinds, tableVars, pinVars
  <1>9. ASSUME NEW i \in IgnoreBlock, RemoveData(i) PROVE ShelfTypeOK' /\ Kinds'
    BY <1>9 DEF RemoveData, Unpin, AfterRemoval, At, ShelfTypeOK, Kinds, tableVars
  <1>10. ASSUME NEW b \in FilesBlock, SomeGone(b), UNCHANGED layout
         PROVE  /\ fileRows' \subseteq File /\ targets' \in [File -> SUBSET Datum]
                /\ \A f \in File \ fileRows' : targets'[f] = {}
                /\ pinnedFiles' \subseteq File
                /\ \A f \in File : targets'[f] \subseteq targets[f]
    BY <1>10 DEF SomeGone, DeIndex, ShelfTypeOK
  <1>11. ASSUME NEW i \in IgnoreBlock, RemoveFiles(i) PROVE ShelfTypeOK' /\ Kinds'
    <2>1. SomeGone(layout.target[i]) /\ UNCHANGED layout /\ layout.target[i] \in FilesBlock
      BY <1>11, AllGone DEF RemoveFiles
    <2> QED BY <1>11, <1>10, <2>1 DEF RemoveFiles, AfterRemoval, At, ShelfTypeOK, Kinds
  <1>12. ASSUME NEW i \in IgnoreBlock, RemoveFilesFails(i) PROVE ShelfTypeOK' /\ Kinds'
    <2>1. SomeGone(layout.target[i]) /\ UNCHANGED layout /\ layout.target[i] \in FilesBlock
      BY <1>12, PartGone DEF RemoveFilesFails
    <2> QED BY <1>12, <1>10, <2>1 DEF RemoveFilesFails, At, ShelfTypeOK, Kinds
  <1>13. ASSUME NEW i \in IgnoreBlock, IndexIgnore(i) PROVE ShelfTypeOK' /\ Kinds'
    BY <1>13 DEF IndexIgnore, At, ShelfTypeOK, Kinds, tableVars, pinVars
  <1>14. ASSUME NEW t \in ThreadId, BeginLeave(t) PROVE ShelfTypeOK' /\ Kinds'
    BY <1>14 DEF BeginLeave, At, ShelfTypeOK, Kinds, tableVars, pinVars
  <1>15. ASSUME NEW t \in ThreadId, NEW b \in FilesBlock, LeaveBlock(t, b)
         PROVE  ShelfTypeOK' /\ Kinds'
    <2>1. CASE UsedOnce(b)
      BY <1>15, <1>10, <2>1, AllGone DEF LeaveBlock, Unpin, ShelfTypeOK, Kinds
    <2>2. CASE ~UsedOnce(b)
      BY <1>15, <2>2 DEF LeaveBlock, ShelfTypeOK, Kinds, tableVars, pinVars
    <2> QED BY <2>1, <2>2
  <1>16. ASSUME NEW t \in ThreadId, NEW b \in FilesBlock, LeaveFails(t, b)
         PROVE  ShelfTypeOK' /\ Kinds'
    <2>1. SomeGone(b) /\ UNCHANGED layout
      BY <1>16, PartGone DEF LeaveFails
    <2> QED BY <1>16, <1>10, <2>1 DEF LeaveFails, Unpin, At, ShelfTypeOK, Kinds
  <1>17. ASSUME NEW t \in ThreadId, LeaveEnd(t) PROVE ShelfTypeOK' /\ Kinds'
    BY <1>17 DEF LeaveEnd, At, ShelfTypeOK, Kinds, tableVars, pinVars
  <1> QED
    BY <1>1, <1>2, <1>3, <1>4, <1>5, <1>6, <1>7, <1>8, <1>9, <1>11, <1>12, <1>13, <1>14,
       <1>15, <1>16, <1>17 DEF ShelfNext

\* A file that nothing is the target of any more goes with its row and pin.
LEMMA DeIndexOwned ==
    ASSUME ShelfTypeOK, Owned, NEW b \in FilesBlock, SomeGone(b),
           UNCHANGED layout, failed \subseteq failed',
           \A c \in FilesBlock : work[c] \in {"prepared", "indexed", "taken"} => work'[c] = work[c]
    PROVE  Owned'
  <1>1. \A f \in fileRows' \cup pinnedFiles' : f \in fileRows \cup pinnedFiles
    BY DEF SomeGone, DeIndex
  <1>2. \A f \in fileRows' \cup pinnedFiles' : targets[f] # {} => targets'[f] # {}
    BY LayoutIs DEF SomeGone, DeIndex, ShelfTypeOK
  <1>3. \A c \in FilesBlock : Linked(c)' = Linked(c)
    BY DEF Linked
  <1> QED BY <1>1, <1>2, <1>3 DEF Owned

\* What may happen was chosen once.
LEMMA SameLayout == ASSUME ShelfNext PROVE layout' = layout
  <1>1. ASSUME NEW b \in FilesBlock,
               \/ Prepare(b) \/ AddFiles(b) \/ CheckIgnored(b) \/ TakeFiles(b)
               \/ IndexFileData(b) \/ IndexFileDataFails(b) \/ IndexFiles(b)
        PROVE  layout' = layout
    BY <1>1 DEF Prepare, AddFiles, CheckIgnored, TakeFiles, IndexFileData,
       IndexFileDataFails, IndexFiles
  <1>2. ASSUME NEW i \in IgnoreBlock,
               \/ BeginIgnore(i) \/ RemoveData(i) \/ RemoveFiles(i) \/ RemoveFilesFails(i)
               \/ IndexIgnore(i)
        PROVE  layout' = layout
    BY <1>2 DEF BeginIgnore, RemoveData, RemoveFiles, RemoveFilesFails, IndexIgnore
  <1>3. ASSUME NEW t \in ThreadId,
               \/ BeginLeave(t) \/ LeaveEnd(t)
               \/ \E b \in FilesBlock : LeaveBlock(t, b) \/ LeaveFails(t, b)
        PROVE  layout' = layout
    BY <1>3 DEF BeginLeave, LeaveEnd, LeaveBlock, LeaveFails
  <1> QED BY <1>1, <1>2, <1>3 DEF ShelfNext

LEMMA ShelfOwned ==
    ASSUME ShelfTypeOK, Kinds, Owned, ShelfNext
    PROVE  Owned'
  <1> USE Pieces
  <1>L. \A b \in FilesBlock : Linked(b)' = Linked(b)
    BY SameLayout DEF Linked
  <1> USE <1>L, AllGone, PartGone
  <1>1. ASSUME NEW b \in FilesBlock, Prepare(b) PROVE Owned'
    BY <1>1 DEF Prepare, At, ShelfTypeOK, Owned
  <1>2. ASSUME NEW b \in FilesBlock, AddFiles(b) PROVE Owned'
    BY <1>2 DEF AddFiles, At, ShelfTypeOK, Owned, tableVars
  <1>3. ASSUME NEW b \in FilesBlock, CheckIgnored(b) PROVE Owned'
    BY <1>3 DEF CheckIgnored, At, ShelfTypeOK, Owned, tableVars, pinVars
  <1>4. ASSUME NEW b \in FilesBlock, TakeFiles(b) PROVE Owned'
    BY <1>4 DEF TakeFiles, At, ShelfTypeOK, Owned
  <1>5. ASSUME NEW b \in FilesBlock, IndexFileData(b) PROVE Owned'
    <2>1. \A f \in File : targets[f] # {} \/ f \in Linked(b) => targets'[f] # {}
      BY <1>5, LayoutIs DEF IndexFileData, ShelfTypeOK
    <2>2. \A c \in FilesBlock : c # b => work'[c] = work[c]
      BY <1>5 DEF IndexFileData, At, ShelfTypeOK
    <2>3. fileRows' = fileRows /\ pinnedFiles' = pinnedFiles /\ failed' = failed
      BY <1>5 DEF IndexFileData, pinVars
    <2>4. \A f \in fileRows \cup pinnedFiles : f \in File
      BY DEF ShelfTypeOK
    <2> QED BY <2>1, <2>2, <2>3, <2>4 DEF Owned
  <1>6. ASSUME NEW b \in FilesBlock, IndexFileDataFails(b) PROVE Owned'
    <2>1. \A f \in File : targets[f] # {} => targets'[f] # {}
      BY <1>6, LayoutIs DEF IndexFileDataFails, ShelfTypeOK
    <2>2. \A c \in FilesBlock : c # b => work'[c] = work[c]
      BY <1>6 DEF IndexFileDataFails, At, ShelfTypeOK
    <2>3. fileRows' = fileRows /\ pinnedFiles' = pinnedFiles /\ failed' = failed \cup {b}
      BY <1>6 DEF IndexFileDataFails, pinVars
    <2>4. \A f \in fileRows \cup pinnedFiles : f \in File
      BY DEF ShelfTypeOK
    <2> QED BY <2>1, <2>2, <2>3, <2>4 DEF Owned
  <1>7. ASSUME NEW b \in FilesBlock, IndexFiles(b) PROVE Owned'
    BY <1>7 DEF IndexFiles, At, ShelfTypeOK, Owned, tableVars, pinVars
  <1>8. ASSUME NEW i \in IgnoreBlock, BeginIgnore(i) PROVE Owned'
    BY <1>8 DEF BeginIgnore, At, ShelfTypeOK, Owned, tableVars, pinVars
  <1>9. ASSUME NEW i \in IgnoreBlock, RemoveData(i) PROVE Owned'
    BY <1>9 DEF RemoveData, AfterRemoval, At, ShelfTypeOK, Owned, tableVars
  <1>10. ASSUME NEW i \in IgnoreBlock, RemoveFiles(i) PROVE Owned'
    <2>1. SomeGone(layout.target[i]) /\ layout.target[i] \in FilesBlock
      BY <1>10, LayoutIs DEF RemoveFiles
    <2>2. \A c \in FilesBlock : work'[c] = work[c]
      BY <1>10 DEF RemoveFiles, AfterRemoval, At, ShelfTypeOK
    <2> QED BY <1>10, <2>1, <2>2, DeIndexOwned DEF RemoveFiles
  <1>11. ASSUME NEW i \in IgnoreBlock, RemoveFilesFails(i) PROVE Owned'
    <2>1. SomeGone(layout.target[i]) /\ layout.target[i] \in FilesBlock
      BY <1>11, LayoutIs DEF RemoveFilesFails
    <2>2. \A c \in FilesBlock : work'[c] = work[c]
      BY <1>11 DEF RemoveFilesFails, At, ShelfTypeOK
    <2> QED BY <1>11, <2>1, <2>2, DeIndexOwned DEF RemoveFilesFails
  <1>12. ASSUME NEW i \in IgnoreBlock, IndexIgnore(i) PROVE Owned'
    BY <1>12 DEF IndexIgnore, At, ShelfTypeOK, Owned, tableVars, pinVars
  <1>13. ASSUME NEW t \in ThreadId, BeginLeave(t) PROVE Owned'
    BY <1>13 DEF BeginLeave, At, ShelfTypeOK, Owned, tableVars, pinVars
  <1>14. ASSUME NEW t \in ThreadId, NEW b \in FilesBlock, LeaveBlock(t, b) PROVE Owned'
    <2>1. CASE UsedOnce(b)
      BY <1>14, <2>1, DeIndexOwned DEF LeaveBlock
    <2>2. CASE ~UsedOnce(b)
      BY <1>14, <2>2 DEF LeaveBlock, Owned, tableVars, pinVars
    <2> QED BY <2>1, <2>2
  <1>15. ASSUME NEW t \in ThreadId, NEW b \in FilesBlock, LeaveFails(t, b) PROVE Owned'
    <2>1. \A c \in FilesBlock : work'[c] = work[c]
      BY <1>15 DEF LeaveFails, At, ShelfTypeOK
    <2> QED BY <1>15, <2>1, DeIndexOwned DEF LeaveFails
  <1>16. ASSUME NEW t \in ThreadId, LeaveEnd(t) PROVE Owned'
    BY <1>16 DEF LeaveEnd, At, ShelfTypeOK, Owned, tableVars, pinVars
  <1> QED
    BY <1>1, <1>2, <1>3, <1>4, <1>5, <1>6, <1>7, <1>8, <1>9, <1>10, <1>11, <1>12, <1>13, <1>14,
       <1>15, <1>16 DEF ShelfNext

\* Without overlap everything else rests ...
LEMMA OthersRest ==
    ASSUME OneAtATime, NEW x \in Piece, ~Resting(x)
    PROVE  \A y \in Piece : y # x => work[y] \in {"none", "prepared", "done"}
  BY DEF OneAtATime, Resting

\* ... and when something begins, everything does.
LEMMA AllRest ==
    ASSUME ~layout.overlap, NEW x, Begins(x)
    PROVE  \A y \in Piece : work[y] \in {"none", "prepared", "done"}
  BY DEF Begins, Resting

\* What begins or goes on is the one that works.
LEMMA ShelfSerial ==
    ASSUME ShelfTypeOK, Kinds, OneAtATime, ~layout.overlap, ShelfNext
    PROVE  OneAtATime'
  <1> USE Pieces
  <1>1. ASSUME NEW x \in Piece, \A y \in Piece : y # x => work'[y] = work[y],
               \A y \in Piece : y # x => Resting(y)
        PROVE  OneAtATime'
    BY <1>1 DEF OneAtATime, Resting
  <1>2. ASSUME NEW x \in Piece, NEW w, At(x, w), Begins(x) \/ ~Resting(x) PROVE OneAtATime'
    <2>1. \A y \in Piece : y # x => work'[y] = work[y]
      BY <1>2 DEF At, ShelfTypeOK
    <2>2. \A y \in Piece : y # x => Resting(y)
      BY <1>2 DEF OneAtATime, Begins
    <2> QED BY <1>1, <2>1, <2>2
  <1>3. ASSUME work' = work PROVE OneAtATime'
    BY <1>3 DEF OneAtATime, Resting
  <1>4. \A x \in Piece : work[x] \in {"keep", "drop", "taken", "index", "indexed", "remove",
                                      "deindex", "clean"} => ~Resting(x)
    BY DEF Resting
  <1>5. ASSUME NEW b \in FilesBlock,
               \/ Prepare(b) \/ AddFiles(b) \/ CheckIgnored(b) \/ TakeFiles(b)
               \/ IndexFileData(b) \/ IndexFileDataFails(b) \/ IndexFiles(b)
        PROVE  OneAtATime'
    BY <1>2, <1>4, <1>5 DEF Prepare, AddFiles, CheckIgnored, TakeFiles, IndexFileData,
       IndexFileDataFails, IndexFiles
  <1>6. ASSUME NEW i \in IgnoreBlock,
               \/ BeginIgnore(i) \/ RemoveData(i) \/ RemoveFiles(i) \/ RemoveFilesFails(i)
               \/ IndexIgnore(i)
        PROVE  OneAtATime'
    BY <1>2, <1>4, <1>6 DEF BeginIgnore, RemoveData, RemoveFiles, RemoveFilesFails, IndexIgnore,
       AfterRemoval
  <1>7. ASSUME NEW t \in ThreadId,
               \/ BeginLeave(t) \/ LeaveEnd(t)
               \/ \E b \in FilesBlock : LeaveBlock(t, b) \/ LeaveFails(t, b)
        PROVE  OneAtATime'
    BY <1>2, <1>3, <1>4, <1>7 DEF BeginLeave, LeaveEnd, LeaveBlock, LeaveFails
  <1> QED BY <1>5, <1>6, <1>7 DEF ShelfNext

LEMMA ShelfBegun ==
    ASSUME ShelfTypeOK, Kinds, Begun, OneAtATime, ~layout.overlap, ShelfNext
    PROVE  Begun'
  <1> USE Pieces, LayoutIs
  <1>1. ASSUME NEW b \in FilesBlock, Prepare(b) PROVE Begun'
    <2> \A y \in Piece : work[y] \in {"none", "prepared", "done"}
      BY <1>1, AllRest DEF Prepare
    <2> QED BY <1>1 DEF Prepare, At, ShelfTypeOK, Kinds, Begun, UsedOnce
  <1>2. ASSUME NEW b \in FilesBlock, AddFiles(b) PROVE Begun'
    <2> \A y \in Piece : work[y] \in {"none", "prepared", "done"}
      BY <1>2, AllRest DEF AddFiles
    <2> QED BY <1>2 DEF AddFiles, At, ShelfTypeOK, Kinds, Begun, UsedOnce
  <1>3. ASSUME NEW b \in FilesBlock, CheckIgnored(b) PROVE Begun'
    <2> \A y \in Piece : work[y] \in {"none", "prepared", "done"}
      BY <1>3, AllRest DEF CheckIgnored
    <2> QED BY <1>3 DEF CheckIgnored, At, ShelfTypeOK, Kinds, Begun, UsedOnce
  <1>4. ASSUME NEW b \in FilesBlock,
               TakeFiles(b) \/ IndexFileData(b) \/ IndexFileDataFails(b) \/ IndexFiles(b)
        PROVE  Begun'
    <2>1. ~Resting(b)
      BY <1>4 DEF Resting, TakeFiles, IndexFileData, IndexFileDataFails, IndexFiles
    <2>2. \A y \in Piece : y # b => work[y] \in {"none", "prepared", "done"}
      BY <2>1, OthersRest
    <2> USE <2>2
    <2>3. CASE TakeFiles(b)
      BY <2>3 DEF TakeFiles, At, ShelfTypeOK, Kinds, Begun, UsedOnce
    <2>4. CASE IndexFileData(b)
      BY <2>4 DEF IndexFileData, At, ShelfTypeOK, Kinds, Begun, UsedOnce, pinVars
    <2>5. CASE IndexFileDataFails(b)
      BY <2>5 DEF IndexFileDataFails, At, ShelfTypeOK, Kinds, Begun, UsedOnce, pinVars
    <2>6. CASE IndexFiles(b)
      BY <2>6 DEF IndexFiles, At, ShelfTypeOK, Kinds, Begun, UsedOnce, pinVars
    <2> QED BY <1>4, <2>3, <2>4, <2>5, <2>6
  <1>5. ASSUME NEW i \in IgnoreBlock, BeginIgnore(i) PROVE Begun'
    <2> \A y \in Piece : work[y] \in {"none", "prepared", "done"}
      BY <1>5, AllRest DEF BeginIgnore
    <2> QED BY <1>5 DEF BeginIgnore, At, ShelfTypeOK, Kinds, Begun, UsedOnce, pinVars
  <1>6. ASSUME NEW i \in IgnoreBlock,
               RemoveData(i) \/ RemoveFiles(i) \/ RemoveFilesFails(i) \/ IndexIgnore(i)
        PROVE  Begun'
    <2>1. ~Resting(i)
      BY <1>6 DEF Resting, RemoveData, RemoveFiles, RemoveFilesFails, IndexIgnore
    <2>2. \A y \in Piece : y # i => work[y] \in {"none", "prepared", "done"}
      BY <2>1, OthersRest
    <2> USE <2>2
    <2>3. CASE RemoveData(i)
      BY <2>3 DEF RemoveData, Unpin, AfterRemoval, At, ShelfTypeOK, Kinds, Begun, UsedOnce
    <2>4. CASE RemoveFiles(i)
      BY <2>4 DEF RemoveFiles, AfterRemoval, At, ShelfTypeOK, Kinds, Begun, UsedOnce
    <2>5. CASE RemoveFilesFails(i)
      BY <2>5 DEF RemoveFilesFails, At, ShelfTypeOK, Kinds, Begun, UsedOnce, pinVars
    <2>6. CASE IndexIgnore(i)
      BY <2>6 DEF IndexIgnore, At, ShelfTypeOK, Kinds, Begun, UsedOnce, pinVars
    <2> QED BY <1>6, <2>3, <2>4, <2>5, <2>6
  <1>7. ASSUME NEW t \in ThreadId, BeginLeave(t) PROVE Begun'
    <2> \A y \in Piece : work[y] \in {"none", "prepared", "done"}
      BY <1>7, AllRest DEF BeginLeave
    <2> QED BY <1>7 DEF BeginLeave, At, ShelfTypeOK, Kinds, Begun, UsedOnce, pinVars
  <1>8. ASSUME NEW t \in ThreadId,
               \/ LeaveEnd(t)
               \/ \E b \in FilesBlock : LeaveBlock(t, b) \/ LeaveFails(t, b)
        PROVE  Begun'
    <2>1. ~Resting(t)
      BY <1>8 DEF Resting, LeaveEnd, LeaveBlock, LeaveFails
    <2>2. \A y \in Piece : y # t => work[y] \in {"none", "prepared", "done"}
      BY <2>1, OthersRest
    <2>3. \A y \in Piece : y # t => work'[y] = work[y]
      BY <1>8 DEF LeaveEnd, LeaveBlock, LeaveFails, At, ShelfTypeOK
    <2>4. UNCHANGED layout /\ ignoreRows' \subseteq ignoreRows
      BY <1>8 DEF LeaveEnd, LeaveBlock, LeaveFails
    <2> QED BY <2>2, <2>3, <2>4 DEF Begun, ShelfTypeOK
  <1> QED
    BY <1>1, <1>2, <1>3, <1>4, <1>5, <1>6, <1>7, <1>8 DEF ShelfNext

\* Removing the files of a block takes nothing from other data.
LEMMA DeIndexKeeps ==
    ASSUME ShelfTypeOK, NEW b \in FilesBlock, SomeGone(b), UNCHANGED layout,
           NEW c \in FilesBlock, layout.data[c] # layout.data[b]
    PROVE  (Holds(c) => Holds(c)') /\ (Filed(c) => Filed(c)')
  <1>1. \A f \in File : layout.data[c] \in targets[f] => layout.data[c] \in targets'[f]
    BY LayoutIs DEF SomeGone, DeIndex, ShelfTypeOK
  <1>2. \A f \in File : layout.data[c] \in targets[f] /\ f \in fileRows => f \in fileRows'
    BY LayoutIs DEF SomeGone, DeIndex, ShelfTypeOK
  <1>3. \A f \in File : layout.data[c] \in targets[f] /\ f \in pinnedFiles => f \in pinnedFiles'
    BY LayoutIs DEF SomeGone, DeIndex, ShelfTypeOK
  <1>4. Linked(c)' = Linked(c) /\ Linked(c) \subseteq File
    BY LayoutIs DEF Linked
  <1> QED BY <1>1, <1>2, <1>3, <1>4 DEF Holds, Filed

LEMMA ShelfKeeping ==
    ASSUME ShelfTypeOK, Kinds, Begun, OneAtATime, Keeping, ~layout.overlap, ShelfNext
    PROVE  Keeping'
  <1> USE Pieces, LayoutIs
  <1>1. ASSUME NEW b \in FilesBlock, Prepare(b) PROVE Keeping'
    <2>1. \A c \in FilesBlock : c # b => work'[c] = work[c]
      BY <1>1 DEF Prepare, At, ShelfTypeOK
    <2>2. work'[b] = "prepared" /\ b \notin filesRows
      BY <1>1 DEF Prepare, At, ShelfTypeOK, Kinds
    <2>3. \A c \in FilesBlock : (Pins(c) => Pins(c)') /\ (Holds(c) => Holds(c)') /\ Pins(b)'
      BY <1>1 DEF Prepare, Pins, Holds, Linked
    <2>4. \A c \in filesRows : Shown(c)' => Shown(c)
      BY <1>1, <2>1, <2>2 DEF Prepare, Shown, IgnoredBy, At, ShelfTypeOK
    <2>5. UNCHANGED <<layout, filesRows, ignoreRows>> /\ pinnedFiles \subseteq pinnedFiles'
      BY <1>1 DEF Prepare
    <2> QED BY <2>1, <2>2, <2>3, <2>4, <2>5 DEF Keeping, IgnoredBy, Linked, ShelfTypeOK
  <1>2. ASSUME NEW b \in FilesBlock, AddFiles(b) PROVE Keeping'
    <2>1. \A c \in FilesBlock : c # b => work'[c] = work[c]
      BY <1>2 DEF AddFiles, At, ShelfTypeOK
    <2>2. work'[b] = "indexed" /\ work[b] = "prepared" /\ Linked(b) \subseteq pinnedFiles'
      BY <1>2 DEF AddFiles, At, ShelfTypeOK
    <2>3. \A c \in FilesBlock : (Pins(c) => Pins(c)') /\ (Holds(c) => Holds(c)')
      BY <1>2 DEF AddFiles, Pins, Holds, Linked, tableVars
    <2>4. \A c \in filesRows' : Shown(c)' => Shown(c) /\ c \in filesRows
      BY <1>2, <2>1, <2>2 DEF AddFiles, Shown, IgnoredBy, At, ShelfTypeOK
    <2>5. UNCHANGED <<layout, ignoreRows>> /\ pinnedFiles \subseteq pinnedFiles'
      BY <1>2 DEF AddFiles
    <2> QED BY <2>1, <2>2, <2>3, <2>4, <2>5 DEF Keeping, IgnoredBy, Linked, ShelfTypeOK
  <1>3. ASSUME NEW b \in FilesBlock, CheckIgnored(b) PROVE Keeping'
    <2>1. \A c \in FilesBlock : c # b => work'[c] = work[c]
      BY <1>3 DEF CheckIgnored, At, ShelfTypeOK
    <2>2. work'[b] \in {"keep", "drop"} /\ (work'[b] = "drop" => IgnoredBy(b) # {})
      BY <1>3 DEF CheckIgnored, At, ShelfTypeOK, IgnoredBy
    <2>3. \A c \in filesRows : Shown(c)' => Shown(c)
      BY <1>3, <2>1, <2>2 DEF CheckIgnored, Shown, IgnoredBy, At, ShelfTypeOK
    <2>4. UNCHANGED <<layout, filesRows, ignoreRows, tableVars, pinVars, unpinned>>
      BY <1>3 DEF CheckIgnored
    <2>5. \A c \in FilesBlock : /\ Pins(c)' = Pins(c) /\ Holds(c)' = Holds(c)
                                /\ IgnoredBy(c)' = IgnoredBy(c) /\ Linked(c)' = Linked(c)
      BY <2>4 DEF IgnoredBy, Linked, Pins, Holds, tableVars, pinVars
    <2>6. filesRows' = filesRows /\ pinnedFiles' = pinnedFiles /\ filesRows \subseteq FilesBlock
      BY <2>4 DEF pinVars, ShelfTypeOK
    <2> QED BY <2>1, <2>2, <2>3, <2>5, <2>6 DEF Keeping
  <1>4. ASSUME NEW b \in FilesBlock, TakeFiles(b) PROVE Keeping'
    <2>1. \A c \in FilesBlock : c # b => work'[c] = work[c]
      BY <1>4 DEF TakeFiles, At, ShelfTypeOK
    <2>2. work'[b] = "taken" /\ Pins(b)' /\ Linked(b)' \subseteq pinnedFiles'
      BY <1>4 DEF TakeFiles, At, ShelfTypeOK, Pins, Linked
    <2>3. \A c \in FilesBlock : (Pins(c) => Pins(c)') /\ (Holds(c) => Holds(c)')
      BY <1>4 DEF TakeFiles, Pins, Holds, Linked
    <2>4. \A c \in filesRows : Shown(c)' => Shown(c)
      BY <1>4, <2>1, <2>2 DEF TakeFiles, Shown, IgnoredBy, At, ShelfTypeOK
    <2>5. UNCHANGED <<layout, filesRows, ignoreRows>> /\ pinnedFiles \subseteq pinnedFiles'
      BY <1>4 DEF TakeFiles
    <2> QED BY <2>1, <2>2, <2>3, <2>4, <2>5 DEF Keeping, IgnoredBy, Linked, ShelfTypeOK
  <1>5. ASSUME NEW b \in FilesBlock, IndexFileData(b) PROVE Keeping'
    <2>1. \A c \in FilesBlock : c # b => work'[c] = work[c]
      BY <1>5 DEF IndexFileData, At, ShelfTypeOK
    <2>2. Pins(b) /\ Linked(b) \subseteq fileRows \cap pinnedFiles
      BY <1>5 DEF IndexFileData, Keeping
    <2>3. \A f \in File : targets[f] \subseteq targets'[f]
      BY <1>5 DEF IndexFileData, ShelfTypeOK
    <2>4. \A f \in Linked(b) : layout.data[b] \in targets'[f]
      BY <1>5 DEF IndexFileData, ShelfTypeOK
    <2>5. UNCHANGED <<layout, filesRows, ignoreRows, fileRows, pinVars, toClean, failed, unpinned>>
      BY <1>5 DEF IndexFileData
    <2>6. \A c \in FilesBlock : (Pins(c) => Pins(c)') /\ (Holds(c) => Holds(c)') /\ Holds(b)'
      BY <2>2, <2>3, <2>4, <2>5 DEF Pins, Holds, Linked, pinVars
    <2>7. \A c \in filesRows : c # b /\ Shown(c)' => Shown(c)
      BY <1>5, <2>1, <2>5 DEF IndexFileData, Shown, IgnoredBy, At, ShelfTypeOK
    <2>8. work'[b] \in {"index", "done"}
      BY <1>5 DEF IndexFileData, At, ShelfTypeOK
    <2> QED
      BY <2>1, <2>2, <2>5, <2>6, <2>7, <2>8 DEF Keeping, IgnoredBy, Linked, ShelfTypeOK, pinVars
  <1>6. ASSUME NEW b \in FilesBlock, IndexFileDataFails(b) PROVE Keeping'
    <2>1. \A c \in FilesBlock : c # b => work'[c] = work[c]
      BY <1>6 DEF IndexFileDataFails, At, ShelfTypeOK
    <2>2. work'[b] = "done" /\ b \in failed'
      BY <1>6 DEF IndexFileDataFails, At, ShelfTypeOK
    <2>3. \A f \in File : targets[f] \subseteq targets'[f]
      BY <1>6 DEF IndexFileDataFails, ShelfTypeOK
    <2>4. UNCHANGED <<layout, filesRows, ignoreRows, fileRows, pinVars, toClean, unpinned>>
      BY <1>6 DEF IndexFileDataFails
    <2>5. \A c \in FilesBlock : (Pins(c) => Pins(c)') /\ (Holds(c) => Holds(c)')
      BY <2>3, <2>4 DEF Pins, Holds, Linked, pinVars
    <2>6. \A c \in filesRows : Shown(c)' => Shown(c) /\ c # b
      BY <1>6, <2>1, <2>2, <2>4 DEF IndexFileDataFails, Shown, IgnoredBy, At, ShelfTypeOK
    <2> QED
      BY <2>1, <2>2, <2>4, <2>5, <2>6 DEF Keeping, IgnoredBy, Linked, ShelfTypeOK, pinVars
  <1>7. ASSUME NEW b \in FilesBlock, IndexFiles(b) PROVE Keeping'
    <2>1. \A c \in FilesBlock : c # b => work'[c] = work[c]
      BY <1>7 DEF IndexFiles, At, ShelfTypeOK
    <2>2. work'[b] = "done" /\ work[b] \in {"drop", "index"} /\ filesRows' = filesRows \cup {b}
      BY <1>7 DEF IndexFiles, At, ShelfTypeOK
    <2>3. UNCHANGED <<layout, ignoreRows, tableVars, pinVars, toClean, failed, unpinned>>
      BY <1>7 DEF IndexFiles
    <2>4. \A c \in filesRows : c # b /\ Shown(c)' => Shown(c)
      BY <1>7, <2>1, <2>3 DEF IndexFiles, Shown, IgnoredBy, At, ShelfTypeOK
    <2>5. Shown(b)' => Holds(b) /\ Pins(b)
      BY <2>2, <2>3 DEF Keeping, Shown, IgnoredBy
    <2> QED
      BY <2>1, <2>2, <2>3, <2>4, <2>5
         DEF Keeping, IgnoredBy, Linked, Pins, Holds, ShelfTypeOK, tableVars, pinVars
  <1>8. ASSUME NEW i \in IgnoreBlock, BeginIgnore(i) PROVE Keeping'
    <2>1. \A c \in FilesBlock : work'[c] = work[c] /\ (IgnoredBy(c) \subseteq IgnoredBy(c)')
      BY <1>8 DEF BeginIgnore, At, ShelfTypeOK, IgnoredBy
    <2>2. UNCHANGED <<layout, filesRows, tableVars, pinVars, toClean, failed, unpinned>>
      BY <1>8 DEF BeginIgnore
    <2>3. \A c \in filesRows : Shown(c)' => Shown(c)
      BY <1>8, <2>1, <2>2 DEF BeginIgnore, Shown, At, ShelfTypeOK
    <2> QED
      BY <2>1, <2>2, <2>3 DEF Keeping, Linked, Pins, Holds, ShelfTypeOK, tableVars, pinVars
  <1>9. ASSUME NEW t \in ThreadId, BeginLeave(t) PROVE Keeping'
    <2>1. \A c \in FilesBlock : work'[c] = work[c]
      BY <1>9 DEF BeginLeave, At, ShelfTypeOK
    <2>2. UNCHANGED <<layout, filesRows, ignoreRows, tableVars, pinVars, failed, unpinned>>
      BY <1>9 DEF BeginLeave
    <2>3. \A c \in filesRows : Shown(c)' => Shown(c)
      BY <1>9, <2>1, <2>2 DEF BeginLeave, Shown, IgnoredBy, At, ShelfTypeOK
    <2> QED
      BY <2>1, <2>2, <2>3
         DEF Keeping, IgnoredBy, Linked, Pins, Holds, ShelfTypeOK, tableVars, pinVars
  \* While an IGNORE or a removal works, blocks rest, and what is to be shown
  \* is of other data than what goes.
  <1>10. ASSUME NEW x \in Piece, ~Resting(x), x \notin FilesBlock,
                NEW b \in FilesBlock, UsedOnce(b), Unpin(b) \/ UNCHANGED <<pinnedData, unpinned>>,
                SomeGone(b) \/ UNCHANGED <<tableVars, pinnedFiles>>,
                UNCHANGED <<layout, ignoreRows, filesRows>>,
                \A c \in FilesBlock : work'[c] = work[c],
                \A c \in filesRows : Shown(c)' => Shown(c) /\ c # b
         PROVE  Keeping'
    <2>1. \A c \in FilesBlock : work[c] \in {"none", "prepared", "done"}
      BY <1>10, OthersRest
    <2>2. \A c \in FilesBlock : work[c] = "prepared" /\ Pins(c) => Pins(c)'
      BY <1>10 DEF Pins, Unpin
    <2>3. \A c \in filesRows : c # b => layout.data[c] # layout.data[b]
      BY <1>10 DEF UsedOnce
    <2>4. \A c \in filesRows : c # b => (Pins(c) => Pins(c)')
      BY <1>10, <2>3 DEF Pins, Unpin
    <2>5. ASSUME NEW c \in filesRows, c # b, Holds(c) PROVE Holds(c)'
      <3>1. c \in FilesBlock /\ layout.data[c] # layout.data[b]
        BY <2>3, <2>5 DEF ShelfTypeOK
      <3>2. CASE SomeGone(b)
        BY <1>10, <2>5, <3>1, <3>2, DeIndexKeeps
      <3>3. CASE UNCHANGED <<tableVars, pinnedFiles>>
        BY <1>10, <2>5, <3>3 DEF Holds, Linked, tableVars
      <3> QED BY <1>10, <3>2, <3>3
    <2> QED BY <1>10, <2>1, <2>2, <2>4, <2>5 DEF Keeping, ShelfTypeOK
  <1>11. ASSUME NEW i \in IgnoreBlock, RemoveData(i) PROVE Keeping'
    <2>1. ~Resting(i) /\ layout.target[i] \in FilesBlock
      BY <1>11 DEF RemoveData, Resting
    <2>2. \A c \in FilesBlock : work'[c] = work[c]
      BY <1>11 DEF RemoveData, AfterRemoval, At, ShelfTypeOK
    <2>3. UNCHANGED <<layout, filesRows, ignoreRows, tableVars, pinnedFiles, toClean, failed>>
      BY <1>11 DEF RemoveData
    <2>4. \A c \in filesRows : Shown(c)' => Shown(c)
      BY <1>11, <2>2, <2>3 DEF RemoveData, AfterRemoval, Shown, IgnoredBy, At, ShelfTypeOK
    <2>5. CASE UsedOnce(layout.target[i])
      <3>1. Unpin(layout.target[i]) /\ work'[i] = "deindex"
        BY <1>11, <2>5 DEF RemoveData, At, ShelfTypeOK
      <3>2. ~Shown(layout.target[i])'
        BY <2>3, <3>1 DEF Shown
      <3> QED BY <1>10, <2>1, <2>2, <2>3, <2>4, <2>5, <3>1, <3>2
    <2>6. CASE ~UsedOnce(layout.target[i])
      <3> UNCHANGED <<pinnedData, unpinned>>
        BY <1>11, <2>6 DEF RemoveData
      <3> QED
        BY <2>2, <2>3, <2>4 DEF Keeping, IgnoredBy, Linked, Pins, Holds, ShelfTypeOK, tableVars
    <2> QED BY <2>5, <2>6
  <1>12. ASSUME NEW i \in IgnoreBlock, RemoveFiles(i) PROVE Keeping'
    <2>1. ~Resting(i) /\ layout.target[i] \in FilesBlock /\ work[i] = "deindex"
      BY <1>12 DEF RemoveFiles, Resting
    <2>2. \A c \in FilesBlock : work'[c] = work[c]
      BY <1>12 DEF RemoveFiles, AfterRemoval, At, ShelfTypeOK
    <2>3. UNCHANGED <<layout, filesRows, ignoreRows, pinnedData, toClean, failed, unpinned>>
      BY <1>12 DEF RemoveFiles
    <2>4. UsedOnce(layout.target[i]) /\ (i \in layout.local => i \in ignoreRows)
      BY <2>1 DEF Begun
    <2>5. i \notin layout.local => work'[i] = "index"
      BY <1>12 DEF RemoveFiles, AfterRemoval, At, ShelfTypeOK
    <2>6. ~Shown(layout.target[i])'
      BY <2>3, <2>4, <2>5 DEF Shown, IgnoredBy
    <2>7. \A c \in filesRows : c # layout.target[i] /\ Shown(c)' => Shown(c)
      BY <1>12, <2>2, <2>3 DEF RemoveFiles, AfterRemoval, Shown, IgnoredBy, At, ShelfTypeOK
    <2> QED BY <1>10, <1>12, <2>1, <2>2, <2>3, <2>4, <2>6, <2>7, AllGone DEF RemoveFiles
  <1>13. ASSUME NEW i \in IgnoreBlock, RemoveFilesFails(i) PROVE Keeping'
    <2>1. ~Resting(i) /\ layout.target[i] \in FilesBlock /\ work[i] = "deindex"
      BY <1>13 DEF RemoveFilesFails, Resting
    <2>2. \A c \in FilesBlock : work'[c] = work[c]
      BY <1>13 DEF RemoveFilesFails, At, ShelfTypeOK
    <2>3. /\ UNCHANGED <<layout, filesRows, ignoreRows, pinnedData, toClean, unpinned>>
          /\ i \in failed' /\ SomeGone(layout.target[i])
      BY <1>13, PartGone DEF RemoveFilesFails
    <2>4. UsedOnce(layout.target[i])
      BY <2>1 DEF Begun
    <2>5. \A c \in filesRows : Shown(c)' => Shown(c) /\ c # layout.target[i]
      BY <1>13, <2>2, <2>3 DEF RemoveFilesFails, Shown, IgnoredBy, At, ShelfTypeOK
    <2> QED BY <1>10, <2>1, <2>2, <2>3, <2>4, <2>5
  <1>14. ASSUME NEW i \in IgnoreBlock, IndexIgnore(i) PROVE Keeping'
    <2>1. \A c \in FilesBlock : work'[c] = work[c] /\ (IgnoredBy(c) \subseteq IgnoredBy(c)')
      BY <1>14 DEF IndexIgnore, At, ShelfTypeOK, IgnoredBy
    <2>2. UNCHANGED <<layout, filesRows, tableVars, pinVars, toClean, failed, unpinned>>
      BY <1>14 DEF IndexIgnore
    <2>3. \A c \in filesRows : Shown(c)' => Shown(c)
      BY <1>14, <2>1, <2>2 DEF IndexIgnore, Shown, IgnoredBy, At, ShelfTypeOK
    <2> QED
      BY <2>1, <2>2, <2>3 DEF Keeping, Linked, Pins, Holds, ShelfTypeOK, tableVars, pinVars
  <1>15. ASSUME NEW t \in ThreadId, NEW b \in FilesBlock, LeaveBlock(t, b) PROVE Keeping'
    <2>1. ~Resting(t) /\ work[t] = "clean" /\ layout.thread[b] = t
      BY <1>15 DEF LeaveBlock, Resting, Kinds
    <2>2. UNCHANGED <<layout, filesRows, ignoreRows, work, failed>>
      BY <1>15 DEF LeaveBlock
    <2>3. \A c \in filesRows : Shown(c)' => Shown(c) /\ c # b
      BY <1>15, <2>1, <2>2 DEF LeaveBlock, Shown, IgnoredBy, ShelfTypeOK
    <2>4. CASE UsedOnce(b)
      BY <1>10, <1>15, <2>1, <2>2, <2>3, <2>4, AllGone DEF LeaveBlock
    <2>5. CASE ~UsedOnce(b)
      BY <1>15, <2>2, <2>3, <2>5
         DEF LeaveBlock, Keeping, IgnoredBy, Linked, Pins, Holds, ShelfTypeOK, tableVars, pinVars
    <2> QED BY <2>4, <2>5
  <1>16. ASSUME NEW t \in ThreadId, NEW b \in FilesBlock, LeaveFails(t, b) PROVE Keeping'
    <2>1. ~Resting(t) /\ work[t] = "clean" /\ layout.thread[b] = t
      BY <1>16 DEF LeaveFails, Resting, Kinds
    <2>2. UNCHANGED <<layout, filesRows, ignoreRows>> /\ t \in failed' /\ SomeGone(b)
      BY <1>16, PartGone DEF LeaveFails
    <2>3. \A c \in FilesBlock : work'[c] = work[c]
      BY <1>16 DEF LeaveFails, At, ShelfTypeOK
    <2>4. \A c \in filesRows : Shown(c)' => Shown(c) /\ c # b
      BY <1>16, <2>1, <2>2, <2>3 DEF LeaveFails, Shown, IgnoredBy, At, ShelfTypeOK
    <2> QED BY <1>10, <1>16, <2>1, <2>2, <2>3, <2>4 DEF LeaveFails
  <1>17. ASSUME NEW t \in ThreadId, LeaveEnd(t) PROVE Keeping'
    <2>1. ~Resting(t) /\ work[t] = "clean"
      BY <1>17 DEF LeaveEnd, Resting
    <2>2. \A c \in FilesBlock : work[c] \in {"none", "prepared", "done"}
      BY <2>1, OthersRest
    <2>3. \A c \in FilesBlock : work'[c] = work[c]
      BY <1>17 DEF LeaveEnd, At, ShelfTypeOK
    <2>4. UNCHANGED <<layout, tableVars, pinVars, toClean, failed, unpinned>>
      BY <1>17 DEF LeaveEnd
    <2>5. \A c \in filesRows' : c \in filesRows /\ layout.thread[c] # t
      BY <1>17 DEF LeaveEnd
    <2>6. \A c \in filesRows' : IgnoredBy(c)' = IgnoredBy(c)
      BY <1>17, <2>5 DEF LeaveEnd, IgnoredBy, ShelfTypeOK
    <2>7. \A c \in filesRows' : Shown(c)' => Shown(c)
      BY <1>17, <2>3, <2>4, <2>5, <2>6 DEF LeaveEnd, Shown, At, ShelfTypeOK
    <2> QED
      BY <2>2, <2>3, <2>4, <2>5, <2>7
         DEF Keeping, Linked, Pins, Holds, ShelfTypeOK, tableVars, pinVars
  <1> QED
    BY <1>1, <1>2, <1>3, <1>4, <1>5, <1>6, <1>7, <1>8, <1>9, <1>11, <1>12, <1>13, <1>14, <1>15,
       <1>16, <1>17 DEF ShelfNext

\* Going, of one block.
GoingAt(b) ==
    /\ Alone(b) /\ work[b] \in {"none", "keep", "drop"} => Clean(b)
    /\ b \in filesRows \ failed /\ Alone(b) /\ work[b] = "done" => Filed(b) \/ Clean(b)
    /\ Alone(b) /\ work[b] = "index" => Filed(b)
    /\ work[b] \in {"keep", "taken", "index"} => IgnoredBy(b) \subseteq layout.skewed
    /\ \A i \in IgnoreBlock :
           /\ layout.target[i] = b
           /\ b \in filesRows \ failed /\ Alone(b) /\ work[b] = "done"
           /\ \/ work[i] = "index"
              \/ i \in ignoreRows \ layout.skewed /\ work[i] = "done"
           => Clean(b)

LEMMA GoingIs == ASSUME ShelfTypeOK PROVE Going <=> \A b \in FilesBlock : GoingAt(b)
  BY LayoutIs DEF Going, GoingAt, ShelfTypeOK

\* What is added for one block does not concern the data of a single other one.
LEMMA GoingApart ==
    ASSUME ShelfTypeOK, Going, ShelfTypeOK', NEW b \in FilesBlock,
           UNCHANGED <<layout, ignoreRows>>, fileRows \subseteq fileRows',
           \A f \in File : targets[f] \subseteq targets'[f],
           \A f \in File : targets'[f] \subseteq targets[f] \cup {layout.data[b]},
           pinnedData' \subseteq pinnedData \cup {layout.data[b]},
           \A x \in Piece : x # b => work'[x] = work[x],
           filesRows' \ failed' \subseteq (filesRows \ failed) \cup {b},
           GoingAt(b)'
    PROVE  Going'
  <1>1. ASSUME NEW c \in FilesBlock, c # b PROVE GoingAt(c)'
    <2>1. Alone(c)' = Alone(c) /\ work'[c] = work[c] /\ IgnoredBy(c)' = IgnoredBy(c)
      BY <1>1, Pieces DEF Alone, IgnoredBy
    <2>2. Filed(c) => Filed(c)'
      BY <1>1, LayoutIs DEF Filed, Linked
    <2>3. Alone(c) /\ Clean(c) => Clean(c)'
      BY <1>1 DEF Alone, Clean
    <2>4. \A i \in IgnoreBlock : work'[i] = work[i]
      BY Pieces
    <2>5. GoingAt(c)
      BY GoingIs
    <2> QED BY <1>1, <2>1, <2>2, <2>3, <2>4, <2>5 DEF GoingAt
  <1>2. \A c \in FilesBlock : GoingAt(c)'
    BY <1>1
  <1>3. \A c \in filesRows' : c \in FilesBlock
    BY DEF ShelfTypeOK
  <1> QED BY <1>2, <1>3, LayoutIs DEF Going, GoingAt

\* What is removed leaves what is clean clean, and what is filed filed unless
\* it is of the same data.
LEMMA GoingRemoves ==
    ASSUME ShelfTypeOK, Going, ShelfTypeOK', NEW b \in FilesBlock,
           UNCHANGED <<layout, ignoreRows, filesRows>>,
           SomeGone(b) \/ UNCHANGED <<tableVars, pinnedFiles>>,
           pinnedData' \subseteq pinnedData, failed \subseteq failed',
           \A c \in FilesBlock : work'[c] = work[c] /\ work[c] \in {"none", "prepared", "done"},
           GoingAt(b)',
           \A i \in IgnoreBlock : layout.target[i] # b => work'[i] = work[i]
    PROVE  Going'
  <1>1. ASSUME NEW c \in FilesBlock, c # b PROVE GoingAt(c)'
    <2>1. Alone(c)' = Alone(c) /\ IgnoredBy(c)' = IgnoredBy(c)
      BY DEF Alone, IgnoredBy
    <2>2. \A f \in File : targets'[f] \subseteq targets[f]
      BY DEF SomeGone, DeIndex, ShelfTypeOK, tableVars
    <2>3. Clean(c) => Clean(c)'
      BY <2>2 DEF Clean
    <2>4. Alone(c) /\ Filed(c) => Filed(c)'
      <3>1. CASE SomeGone(b)
        BY <1>1, <3>1, DeIndexKeeps DEF Alone
      <3>2. CASE UNCHANGED tableVars
        BY <3>2 DEF tableVars, Filed, Linked
      <3> QED BY <3>1, <3>2
    <2>5. GoingAt(c)
      BY GoingIs
    <2> QED BY <1>1, <2>1, <2>3, <2>4, <2>5 DEF GoingAt
  <1>2. \A c \in FilesBlock : GoingAt(c)'
    BY <1>1
  <1>3. \A c \in filesRows' : c \in FilesBlock
    BY DEF ShelfTypeOK
  <1> QED BY <1>2, <1>3, LayoutIs DEF Going, GoingAt

LEMMA ShelfGoing ==
    ASSUME ShelfTypeOK, Kinds, Begun, OneAtATime, Keeping, Going, ~layout.overlap, ShelfNext,
           ShelfTypeOK'
    PROVE  Going'
  <1> USE Pieces, LayoutIs
  <1> \A b \in FilesBlock : GoingAt(b)
    BY GoingIs
  <1>1. ASSUME NEW b \in FilesBlock, Prepare(b) PROVE Going'
    <2>1. \A x \in Piece : x # b => work'[x] = work[x]
      BY <1>1 DEF Prepare, At, ShelfTypeOK
    <2>2. work'[b] = "prepared"
      BY <1>1 DEF Prepare, At, ShelfTypeOK
    <2>3. GoingAt(b)'
      BY <2>2 DEF GoingAt
    <2> QED BY <1>1, <2>1, <2>3, GoingApart DEF Prepare
  <1>2. ASSUME NEW b \in FilesBlock, AddFiles(b) PROVE Going'
    <2>1. \A x \in Piece : x # b => work'[x] = work[x]
      BY <1>2 DEF AddFiles, At, ShelfTypeOK
    <2>2. work'[b] = "indexed"
      BY <1>2 DEF AddFiles, At, ShelfTypeOK
    <2>3. GoingAt(b)'
      BY <2>2 DEF GoingAt
    <2> QED BY <1>2, <2>1, <2>3, GoingApart DEF AddFiles, tableVars
  <1>3. ASSUME NEW b \in FilesBlock, CheckIgnored(b) PROVE Going'
    <2>1. \A x \in Piece : x # b => work'[x] = work[x]
      BY <1>3 DEF CheckIgnored, At, ShelfTypeOK
    <2>2. UNCHANGED <<layout, filesRows, ignoreRows, tableVars, pinVars, failed>>
      BY <1>3 DEF CheckIgnored
    <2>3. work'[b] \in {"keep", "drop"} /\ work[b] = "none"
      BY <1>3 DEF CheckIgnored, At, ShelfTypeOK
    <2>4. work'[b] = "keep" => IgnoredBy(b) \subseteq layout.skewed
      BY <1>3 DEF CheckIgnored, At, ShelfTypeOK, IgnoredBy
    <2>5. GoingAt(b)'
      BY <2>2, <2>3, <2>4 DEF GoingAt, Alone, Clean, IgnoredBy, tableVars, pinVars
    <2> QED BY <2>1, <2>2, <2>5, GoingApart DEF tableVars, pinVars
  <1>4. ASSUME NEW b \in FilesBlock, TakeFiles(b) PROVE Going'
    <2>1. \A x \in Piece : x # b => work'[x] = work[x]
      BY <1>4 DEF TakeFiles, At, ShelfTypeOK
    <2>2. work'[b] = "taken" /\ work[b] = "keep"
      BY <1>4 DEF TakeFiles, At, ShelfTypeOK
    <2>3. GoingAt(b)'
      BY <1>4, <2>2 DEF TakeFiles, GoingAt, IgnoredBy
    <2> QED BY <1>4, <2>1, <2>3, GoingApart DEF TakeFiles
  <1>5. ASSUME NEW b \in FilesBlock, IndexFileData(b) PROVE Going'
    <2>1. \A x \in Piece : x # b => work'[x] = work[x]
      BY <1>5 DEF IndexFileData, At, ShelfTypeOK
    <2>2. UNCHANGED <<layout, filesRows, ignoreRows, fileRows, pinVars, toClean, failed>>
      BY <1>5 DEF IndexFileData
    <2>3. \A f \in File : targets'[f] = IF f \in Linked(b) THEN targets[f] \cup {layout.data[b]}
                                        ELSE targets[f]
      BY <1>5 DEF IndexFileData
    <2>4. Filed(b)'
      BY <1>5, <2>2, <2>3 DEF IndexFileData, Filed, Linked
    <2>5. CASE work[b] = "taken"
      <3>1. work'[b] = "index"
        BY <1>5, <2>5 DEF IndexFileData, At, ShelfTypeOK
      <3>2. GoingAt(b)'
        BY <2>2, <2>4, <2>5, <3>1 DEF GoingAt, IgnoredBy
      <3> QED BY <2>1, <2>2, <2>3, <3>2, GoingApart DEF pinVars
    <2>6. CASE work[b] = "indexed"
      <3>1. work'[b] = "done" /\ b \in layout.local
        BY <1>5, <2>6 DEF IndexFileData, At, ShelfTypeOK, Kinds
      <3>2. \A i \in IgnoreBlock : layout.target[i] = b => work'[i] = "none"
        BY <2>1, <2>6, <3>1 DEF Begun
      <3>3. \A i \in IgnoreBlock : layout.target[i] = b => i \notin ignoreRows
        BY <2>1, <3>2 DEF Begun
      <3>4. GoingAt(b)'
        BY <2>2, <2>4, <3>1, <3>2, <3>3 DEF GoingAt
      <3> QED BY <2>1, <2>2, <2>3, <3>4, GoingApart DEF pinVars
    <2> QED BY <1>5, <2>5, <2>6 DEF IndexFileData
  <1>6. ASSUME NEW b \in FilesBlock, IndexFileDataFails(b) PROVE Going'
    <2>1. \A x \in Piece : x # b => work'[x] = work[x]
      BY <1>6 DEF IndexFileDataFails, At, ShelfTypeOK
    <2>2. UNCHANGED <<layout, filesRows, ignoreRows, fileRows, pinVars>>
      BY <1>6 DEF IndexFileDataFails
    <2>3. \A f \in File :
             targets[f] \subseteq targets'[f] /\ targets'[f] \subseteq targets[f] \cup {layout.data[b]}
      BY <1>6 DEF IndexFileDataFails, ShelfTypeOK
    <2>4. work'[b] = "done" /\ failed' = failed \cup {b}
      BY <1>6 DEF IndexFileDataFails, At, ShelfTypeOK
    <2>5. GoingAt(b)'
      BY <2>4 DEF GoingAt
    <2> QED BY <2>1, <2>2, <2>3, <2>4, <2>5, GoingApart DEF pinVars
  <1>7. ASSUME NEW b \in FilesBlock, IndexFiles(b) PROVE Going'
    <2>1. \A x \in Piece : x # b => work'[x] = work[x]
      BY <1>7 DEF IndexFiles, At, ShelfTypeOK
    <2>2. UNCHANGED <<layout, ignoreRows, tableVars, pinVars, toClean, failed>>
      BY <1>7 DEF IndexFiles
    <2>3. work'[b] = "done" /\ work[b] \in {"drop", "index"} /\ filesRows' = filesRows \cup {b}
      BY <1>7 DEF IndexFiles, At, ShelfTypeOK
    <2>4. ~Resting(b)
      BY <2>3 DEF Resting
    <2>5. \A i \in IgnoreBlock : work'[i] # "index"
      BY <2>1, <2>4, OthersRest
    <2>6. \A c \in FilesBlock : /\ Alone(c)' = Alone(c) /\ Filed(c)' = Filed(c)
                                /\ Clean(c)' = Clean(c) /\ IgnoredBy(c)' = IgnoredBy(c)
      BY <2>2 DEF Alone, Filed, Clean, Linked, IgnoredBy, tableVars, pinVars
    <2>7. work[b] = "index" => \A i \in ignoreRows \ layout.skewed : layout.target[i] # b
      BY DEF GoingAt, IgnoredBy
    <2>8. GoingAt(b)'
      BY <2>2, <2>3, <2>5, <2>6, <2>7 DEF GoingAt
    <2> QED BY <2>1, <2>2, <2>3, <2>8, GoingApart DEF tableVars, pinVars
  <1>8. ASSUME NEW i \in IgnoreBlock, BeginIgnore(i) PROVE Going'
    <2>1. work[i] = "none" /\ work'[i] = "remove" /\ \A x \in Piece : x # i => work'[x] = work[x]
      BY <1>8 DEF BeginIgnore, At, ShelfTypeOK
    <2>2. UNCHANGED <<layout, filesRows, tableVars, pinVars, failed>>
      BY <1>8 DEF BeginIgnore
    <2>3. ignoreRows \subseteq ignoreRows' /\ ignoreRows' \subseteq ignoreRows \cup {i}
      BY <1>8 DEF BeginIgnore
    <2>4. \A c \in FilesBlock : work[c] \notin {"keep", "taken", "index"}
      BY <1>8, AllRest DEF BeginIgnore
    <2>5. \A c \in FilesBlock : /\ Alone(c)' = Alone(c) /\ Filed(c)' = Filed(c)
                                /\ Clean(c)' = Clean(c)
      BY <2>2 DEF Alone, Filed, Clean, Linked, tableVars, pinVars
    <2>6. \A c \in FilesBlock : work'[c] = work[c]
      BY <2>1
    <2> QED BY <2>1, <2>2, <2>3, <2>4, <2>5, <2>6 DEF Going, ShelfTypeOK
  <1>9. ASSUME NEW i \in IgnoreBlock,
               RemoveData(i) \/ RemoveFiles(i) \/ RemoveFilesFails(i)
        PROVE  Going'
    <2> DEFINE b == layout.target[i]
    <2>1. b \in FilesBlock /\ ~Resting(i)
      BY <1>9 DEF RemoveData, RemoveFiles, RemoveFilesFails, Resting
    <2>2. \A x \in Piece : x # i => work'[x] = work[x] /\ work[x] \in {"none", "prepared", "done"}
      BY <1>9, <2>1, OthersRest
         DEF RemoveData, RemoveFiles, RemoveFilesFails, AfterRemoval, At, ShelfTypeOK
    <2>3. UNCHANGED <<layout, filesRows, ignoreRows>> /\ failed \subseteq failed'
      BY <1>9 DEF RemoveData, RemoveFiles, RemoveFilesFails
    <2>4. pinnedData' \subseteq pinnedData /\ (SomeGone(b) \/ UNCHANGED <<tableVars, pinnedFiles>>)
      BY <1>9, AllGone, PartGone DEF RemoveData, RemoveFiles, RemoveFilesFails, Unpin
    <2>5. \A f \in File : targets'[f] \subseteq targets[f]
      BY <2>4 DEF SomeGone, DeIndex, ShelfTypeOK, tableVars
    <2>6. Clean(b) => Clean(b)'
      BY <2>3, <2>4, <2>5 DEF Clean
    <2>7. Alone(b)' = Alone(b) /\ IgnoredBy(b)' = IgnoredBy(b)
      BY <2>3 DEF Alone, IgnoredBy
    <2>8. CASE RemoveData(i)
      <3>1. UNCHANGED <<tableVars, failed>> /\ (Filed(b) => Filed(b)')
        BY <2>3, <2>8 DEF RemoveData, Filed, Linked, tableVars
      <3>2. CASE UsedOnce(b)
        <4>1. work'[i] = "deindex"
          BY <2>8, <3>2 DEF RemoveData, At, ShelfTypeOK
        <4> QED
          BY <2>1, <2>2, <2>3, <2>6, <2>7, <3>1, <4>1, <2>4, GoingRemoves DEF GoingAt
      <3>3. CASE ~UsedOnce(b)
        <4>1. ~(Alone(b) /\ b \in filesRows)
          BY <2>3, <3>3 DEF Alone, UsedOnce, ShelfTypeOK
        <4>2. GoingAt(b)'
          BY <2>1, <2>2, <2>3, <2>6, <2>7, <4>1 DEF GoingAt
        <4> QED BY <2>1, <2>2, <2>3, <2>4, <4>2, GoingRemoves
      <3> QED BY <3>2, <3>3
    <2>9. CASE RemoveFiles(i)
      <3>1. Clean(b)'
        <4>1. layout.data[b] \notin pinnedData
          BY <2>9 DEF RemoveFiles, Begun
        <4>2. \A f \in File : layout.data[b] \in targets[f] => f \in Linked(b)
          BY DEF Kinds, Linked, ShelfTypeOK
        <4>3. \A f \in Linked(b) : layout.data[b] \notin targets'[f]
          BY <2>1, <2>9 DEF RemoveFiles, DeIndex
        <4> QED BY <2>3, <2>4, <2>5, <4>1, <4>2, <4>3 DEF Clean
      <3>2. GoingAt(b)'
        BY <2>1, <2>2, <2>3, <3>1 DEF GoingAt
      <3> QED BY <2>1, <2>2, <2>3, <2>4, <3>2, GoingRemoves
    <2>10. CASE RemoveFilesFails(i)
      <3>1. ~Filed(b) /\ b \in filesRows /\ work[b] = "done"
        BY <2>10 DEF RemoveFilesFails, DeIndexSome, Filed, Begun
      <3>2. Alone(b) /\ b \notin failed => Clean(b)
        BY <2>1, <3>1 DEF GoingAt
      <3>3. GoingAt(b)'
        BY <2>1, <2>2, <2>3, <2>6, <2>7, <3>2, <3>1 DEF GoingAt
      <3> QED BY <2>1, <2>2, <2>3, <2>4, <3>3, GoingRemoves
    <2> QED BY <1>9, <2>8, <2>9, <2>10
  <1>10. ASSUME NEW i \in IgnoreBlock, IndexIgnore(i) PROVE Going'
    <2>1. work[i] = "index" /\ work'[i] = "done" /\ \A x \in Piece : x # i => work'[x] = work[x]
      BY <1>10 DEF IndexIgnore, At, ShelfTypeOK
    <2>2. UNCHANGED <<layout, filesRows, tableVars, pinVars, failed>>
      BY <1>10 DEF IndexIgnore
    <2>3. ignoreRows' = ignoreRows \cup {i}
      BY <1>10 DEF IndexIgnore
    <2>4. \A c \in FilesBlock : work[c] \notin {"keep", "taken", "index"}
      BY <2>1, OthersRest DEF Resting
    <2>5. \A c \in FilesBlock : /\ Alone(c)' = Alone(c) /\ Filed(c)' = Filed(c)
                                /\ Clean(c)' = Clean(c)
      BY <2>2 DEF Alone, Filed, Clean, Linked, tableVars, pinVars
    <2>6. \A c \in FilesBlock : work'[c] = work[c]
      BY <2>1
    <2> QED BY <2>1, <2>2, <2>3, <2>4, <2>5, <2>6 DEF Going, ShelfTypeOK
  <1>11. ASSUME NEW t \in ThreadId, BeginLeave(t) PROVE Going'
    <2>1. \A x \in Piece : x # t => work'[x] = work[x]
      BY <1>11 DEF BeginLeave, At, ShelfTypeOK
    <2>2. UNCHANGED <<layout, filesRows, ignoreRows, tableVars, pinVars, failed>>
      BY <1>11 DEF BeginLeave
    <2>3. \A c \in FilesBlock : /\ Alone(c)' = Alone(c) /\ Filed(c)' = Filed(c)
                                /\ Clean(c)' = Clean(c) /\ IgnoredBy(c)' = IgnoredBy(c)
      BY <2>2 DEF Alone, Filed, Clean, Linked, IgnoredBy, tableVars, pinVars
    <2>4. \A c \in FilesBlock \cup IgnoreBlock : work'[c] = work[c]
      BY <2>1
    <2> QED BY <2>2, <2>3, <2>4 DEF Going, ShelfTypeOK
  <1>12. ASSUME NEW t \in ThreadId, NEW b \in FilesBlock, LeaveBlock(t, b) \/ LeaveFails(t, b)
         PROVE  Going'
    <2>1. ~Resting(t)
      BY <1>12 DEF LeaveBlock, LeaveFails, Resting
    <2>2. \A x \in Piece : x # t => work'[x] = work[x] /\ work[x] \in {"none", "prepared", "done"}
      BY <1>12, <2>1, OthersRest DEF LeaveBlock, LeaveFails, At, ShelfTypeOK
    <2>3. UNCHANGED <<layout, filesRows, ignoreRows>> /\ failed \subseteq failed'
      BY <1>12 DEF LeaveBlock, LeaveFails
    <2>4. pinnedData' \subseteq pinnedData /\ (SomeGone(b) \/ UNCHANGED <<tableVars, pinnedFiles>>)
      BY <1>12, AllGone, PartGone DEF LeaveBlock, LeaveFails, Unpin, pinVars
    <2>5. \A f \in File : targets'[f] \subseteq targets[f]
      BY <2>4 DEF SomeGone, DeIndex, ShelfTypeOK, tableVars
    <2>6. Clean(b) => Clean(b)'
      BY <2>3, <2>4, <2>5 DEF Clean
    <2>7. Alone(b)' = Alone(b) /\ IgnoredBy(b)' = IgnoredBy(b)
      BY <2>3 DEF Alone, IgnoredBy
    <2>8. b \in filesRows \ failed /\ Alone(b) /\ work[b] = "done" => Filed(b)' \/ Clean(b)'
      <3> SUFFICES ASSUME b \in filesRows \ failed, Alone(b), work[b] = "done", ~Clean(b)
                   PROVE  Filed(b)' \/ Clean(b)'
        BY <2>6
      <3>1. Filed(b) /\ UsedOnce(b)
        BY DEF GoingAt, Alone, UsedOnce, ShelfTypeOK
      <3>2. LeaveBlock(t, b)
        BY <1>12, <3>1 DEF LeaveFails, DeIndexSome, Filed
      <3>3. DeIndex(b, Linked(b)) /\ Unpin(b)
        BY <3>1, <3>2 DEF LeaveBlock
      <3>4. \A f \in File : layout.data[b] \in targets[f] => f \in Linked(b)
        BY DEF Kinds, Linked, ShelfTypeOK
      <3>5. \A f \in Linked(b) : layout.data[b] \notin targets'[f]
        BY <3>3 DEF DeIndex
      <3> QED BY <2>3, <2>5, <3>3, <3>4, <3>5 DEF Clean, Unpin
    <2>9. GoingAt(b)'
      BY <2>2, <2>3, <2>6, <2>7, <2>8 DEF GoingAt
    <2> QED BY <2>2, <2>3, <2>4, <2>9, GoingRemoves
  <1>13. ASSUME NEW t \in ThreadId, LeaveEnd(t) PROVE Going'
    <2>1. \A x \in Piece : x # t => work'[x] = work[x]
      BY <1>13 DEF LeaveEnd, At, ShelfTypeOK
    <2>2. UNCHANGED <<layout, tableVars, pinVars, failed>>
      BY <1>13 DEF LeaveEnd
    <2>3. filesRows' \subseteq filesRows /\ ignoreRows' \subseteq ignoreRows
      BY <1>13 DEF LeaveEnd
    <2>4. \A c \in FilesBlock : /\ Alone(c)' = Alone(c) /\ Filed(c)' = Filed(c)
                                /\ Clean(c)' = Clean(c) /\ IgnoredBy(c)' \subseteq IgnoredBy(c)
      BY <2>2, <2>3 DEF Alone, Filed, Clean, Linked, IgnoredBy, tableVars, pinVars
    <2>5. \A c \in FilesBlock \cup IgnoreBlock : work'[c] = work[c]
      BY <2>1
    <2> QED BY <2>2, <2>3, <2>4, <2>5 DEF Going, ShelfTypeOK
  <1> QED
    BY <1>1, <1>2, <1>3, <1>4, <1>5, <1>6, <1>7, <1>8, <1>9, <1>10, <1>11, <1>12, <1>13
       DEF ShelfNext

\* What a handler counts on stays while it works.
LEMMA ShelfCopied ==
    ASSUME ShelfTypeOK, ShelfTypeOK', Kinds, OneAtATime, Copied, ~layout.overlap, ShelfNext,
           UNCHANGED layout
    PROVE  Copied'
  <1> USE Pieces, LayoutIs
  <1>1. \A b \in FilesBlock : Linked(b)' = Linked(b)
    BY DEF Linked
  <1>2. ASSUME fileRows \subseteq fileRows', failed' \cap FilesBlock \subseteq failed,
               \A b \in FilesBlock : work'[b] = "taken" => work[b] = "taken"
        PROVE  Copied'
    BY <1>1, <1>2 DEF Copied, Copies
  <1>3. ASSUME failed' \cap FilesBlock \subseteq failed,
               \A b \in FilesBlock : work'[b] # "taken"
        PROVE  Copied'
    BY <1>1, <1>3 DEF Copied, Copies
  <1>4. ASSUME NEW b \in FilesBlock,
               \/ Prepare(b) \/ AddFiles(b) \/ CheckIgnored(b) \/ IndexFileData(b)
               \/ IndexFiles(b)
        PROVE  Copied'
    BY <1>2, <1>4 DEF Prepare, AddFiles, CheckIgnored, IndexFileData, IndexFiles, At,
       ShelfTypeOK, tableVars
  <1>5. ASSUME NEW b \in FilesBlock, TakeFiles(b) PROVE Copied'
    <2>1. \A c \in FilesBlock : c # b => work'[c] = work[c]
      BY <1>5 DEF TakeFiles, At, ShelfTypeOK
    <2>2. failed' = failed /\ fileRows \subseteq fileRows'
      BY <1>5 DEF TakeFiles
    <2>3. \A f \in Linked(b) : \E g \in fileRows' : layout.copyOf[f] = layout.copyOf[g]
      BY <1>5 DEF TakeFiles
    <2> QED BY <1>1, <2>1, <2>2, <2>3 DEF Copied, Copies
  <1>6. ASSUME NEW b \in FilesBlock, IndexFileDataFails(b) PROVE Copied'
    <2>1. \A c \in FilesBlock : c # b => work'[c] = work[c]
      BY <1>6 DEF IndexFileDataFails, At, ShelfTypeOK
    <2>2. work'[b] = "done" /\ failed' = failed \cup {b} /\ fileRows' = fileRows
      BY <1>6 DEF IndexFileDataFails, At, ShelfTypeOK
    <2>3. ASSUME b \notin layout.local
          PROVE  \E f \in Linked(b) : \E g \in File : Copies(f, g)
      <3>1. work[b] = "taken"
        BY <1>6, <2>3 DEF IndexFileDataFails, Kinds
      <3>2. PICK f \in Linked(b) : f \notin fileRows
        BY <1>6 DEF IndexFileDataFails
      <3>3. PICK g \in fileRows : layout.copyOf[f] = layout.copyOf[g]
        BY <3>1, <3>2 DEF Copied
      <3>4. g \in File /\ Copies(f, g)
        BY <3>2, <3>3 DEF Copies, ShelfTypeOK
      <3> QED BY <3>2, <3>4
    <2>4. \A c \in (failed' \cap FilesBlock) \ layout.local :
              \E f \in Linked(c) : \E g \in File : Copies(f, g)
      BY <2>2, <2>3 DEF Copied
    <2> QED BY <1>1, <2>1, <2>2, <2>4 DEF Copied, Copies
  \* While an IGNORE or a removal works, no handler does.
  <1>7. ASSUME NEW x \in Piece, ~Resting(x), x \notin FilesBlock,
               \A b \in FilesBlock : work'[b] = work[b],
               failed' \cap FilesBlock \subseteq failed
        PROVE  Copied'
    <2>1. \A b \in FilesBlock : work[b] # "taken"
      BY <1>7, OthersRest
    <2> QED BY <1>3, <1>7, <2>1
  <1>8. ASSUME NEW i \in IgnoreBlock, BeginIgnore(i) PROVE Copied'
    BY <1>2, <1>8 DEF BeginIgnore, At, ShelfTypeOK, tableVars
  <1>9. ASSUME NEW i \in IgnoreBlock,
               RemoveData(i) \/ RemoveFiles(i) \/ RemoveFilesFails(i) \/ IndexIgnore(i)
        PROVE  Copied'
    <2>1. ~Resting(i)
      BY <1>9 DEF Resting, RemoveData, RemoveFiles, RemoveFilesFails, IndexIgnore
    <2>2. \A b \in FilesBlock : work'[b] = work[b]
      BY <1>9 DEF RemoveData, RemoveFiles, RemoveFilesFails, IndexIgnore, AfterRemoval, At,
         ShelfTypeOK
    <2>3. failed' \cap FilesBlock \subseteq failed
      BY <1>9 DEF RemoveData, RemoveFiles, RemoveFilesFails, IndexIgnore
    <2> QED BY <1>7, <2>1, <2>2, <2>3
  <1>10. ASSUME NEW t \in ThreadId, BeginLeave(t) PROVE Copied'
    BY <1>2, <1>10 DEF BeginLeave, At, ShelfTypeOK, tableVars
  <1>11. ASSUME NEW t \in ThreadId,
                LeaveEnd(t) \/ \E b \in FilesBlock : LeaveBlock(t, b) \/ LeaveFails(t, b)
         PROVE  Copied'
    <2>1. ~Resting(t)
      BY <1>11 DEF Resting, LeaveEnd, LeaveBlock, LeaveFails
    <2>2. \A b \in FilesBlock : work'[b] = work[b]
      BY <1>11 DEF LeaveEnd, LeaveBlock, LeaveFails, At, ShelfTypeOK
    <2>3. failed' \cap FilesBlock \subseteq failed
      BY <1>11 DEF LeaveEnd, LeaveBlock, LeaveFails
    <2> QED BY <1>7, <2>1, <2>2, <2>3
  <1> QED BY <1>4, <1>5, <1>6, <1>8, <1>9, <1>10, <1>11 DEF ShelfNext

LEMMA ShelfFiles == ShelfSpec => []ShelfInv
  <1>1. ASSUME ShelfInv, ShelfNext PROVE ShelfInv'
    <2>1. ShelfTypeOK' /\ Kinds' /\ Owned'
      BY <1>1, ShelfTyped, ShelfOwned DEF ShelfInv
    <2>2. layout' = layout
      BY <1>1, SameLayout
    <2>3. ASSUME ~layout.overlap PROVE Begun' /\ OneAtATime' /\ Keeping' /\ Going' /\ Copied'
      BY <1>1, <2>1, <2>2, <2>3, ShelfSerial, ShelfBegun, ShelfKeeping, ShelfGoing, ShelfCopied
         DEF ShelfInv
    <2> QED BY <2>1, <2>2, <2>3 DEF ShelfInv
  <1>2. ASSUME ShelfInv, UNCHANGED shelfVars PROVE ShelfInv'
    <2> USE <1>2 DEF shelfVars
    <2>1. ShelfTypeOK' /\ Kinds' /\ Owned'
      BY DEF ShelfInv, ShelfTypeOK, Kinds, Owned, Linked
    <2>2. Begun' <=> Begun
      BY DEF Begun, UsedOnce
    <2>3. OneAtATime' <=> OneAtATime
      BY DEF OneAtATime, Resting
    <2>4. Keeping' <=> Keeping
      BY DEF Keeping, Pins, Holds, Shown, Linked, IgnoredBy
    <2>5. Going' <=> Going
      BY DEF Going, Alone, Clean, Filed, Linked, IgnoredBy
    <2>6. Copied' <=> Copied
      BY DEF Copied, Copies, Linked
    <2> QED BY <2>1, <2>2, <2>3, <2>4, <2>5, <2>6 DEF ShelfInv
  <1> QED BY <1>1, <1>2, ShelfStart, PTL DEF ShelfSpec

\* Whatever files the blocks of a node share, and in whichever order blocks are
\* added, handled and ignored and threads are left, one after the other: what
\* nobody ignored is kept, what was ignored is gone, and a block of another
\* member is lost only over a file that has a copy (AddFiles, handleFilesBlock,
\* removeFiles and leave; repo/db/files.go).
THEOREM FilesAlwaysSettled == ShelfSpec => []FilesSettled
  <1>1. ASSUME ShelfInv PROVE FilesSettled
    <2> SUFFICES ASSUME AllResting, ~layout.overlap PROVE FilesSettled
      BY DEF FilesSettled, FilesKept, IgnoredGone, LostToCopy
    <2> USE <1>1, LayoutIs, Pieces DEF ShelfInv
    <2>1. \A x \in Piece : work[x] \in {"none", "prepared", "done"}
      BY DEF AllResting, Resting
    <2>2. \A b \in filesRows : b \in FilesBlock /\ work[b] = "done"
      BY <2>1 DEF Kinds, ShelfTypeOK
    <2>3. FilesKept
      <3> SUFFICES ASSUME NEW b \in filesRows \ failed, IgnoredBy(b) = {},
                          \A i \in failed \cap IgnoreBlock : layout.target[i] # b,
                          layout.thread[b] \notin failed
                   PROVE  /\ layout.data[b] \in pinnedData \/ b \in unpinned
                          /\ \A f \in Linked(b) : /\ f \in fileRows \cap pinnedFiles
                                                  /\ layout.data[b] \in targets[f]
        BY DEF FilesKept
      <3>1. Shown(b)
        BY <2>1, <2>2 DEF Shown
      <3> QED BY <3>1 DEF Keeping, Holds, Pins
    <2>4. ASSUME NEW b \in filesRows, \A c \in FilesBlock : layout.data[c] = layout.data[b] => c = b,
                 IgnoredBy(b) \ layout.skewed # {}, ~Prepared(layout.data[b])
          PROVE  /\ layout.data[b] \notin pinnedData
                 /\ \A f \in File : layout.data[b] \notin targets[f]
      <3>1. Alone(b) /\ b \notin failed
        BY <2>2, <2>4 DEF Alone, Prepared
      <3>2. PICK i \in ignoreRows \ layout.skewed : layout.target[i] = b
        BY <2>4 DEF IgnoredBy
      <3>3. i \in IgnoreBlock /\ work[i] = "done"
        BY <2>1, <3>2 DEF Begun, ShelfTypeOK
      <3>4. Clean(b)
        BY <2>2, <3>1, <3>2, <3>3 DEF Going
      <3> QED BY <3>4 DEF Clean
    <2>5. ASSUME NEW f \in fileRows \cup pinnedFiles
          PROVE  targets[f] # {} \/ \E d \in Datum : f \in layout.files[d] /\ Prepared(d)
      BY <2>1 DEF Owned, Prepared, Linked
    <2>6. LostToCopy
      BY DEF LostToCopy, Copied, Copies
    <2> QED BY <2>3, <2>4, <2>5, <2>6 DEF FilesSettled, IgnoredGone
  <1> QED BY <1>1, ShelfFiles, PTL

-----------------------------------------------------------------------------
\* What is known of the chosen policy, of those who hold the thread and of the
\* block that is on its way: its author passed the checks that the handlers
\* make.
HoldInv ==
    \A n \in holders :
        /\ Member(Self(n))
        /\ policy.sharing = "notShared" => Self(n) = policy.initiator

JoinInv ==
    (policy.type = "private" => policy.sharing = "notShared") =>
        \A n \in holders : n \in inside /\ Readable(Self(n))

LetterInv ==
    /\ letter # NoLetter => Allowed(AddressOf[letter.by], letter.type)
    /\ outcome = "refused" => \E n \in holders : ~Readable(Self(n))

\* Nobody gives up the thread, so whoever sent an invite has it still.
OfferInv == \A o \in offers : o[1] \in holders

AccInv == AccTypeOK /\ HoldInv /\ JoinInv /\ OfferInv /\ LetterInv

-----------------------------------------------------------------------------
\* A policy that was chosen is one, and accounts are those of the devices.
LEMMA PolicyType ==
    ASSUME AccTypeOK
    PROVE  /\ policy \in Policy
           /\ \A n \in Device : Self(n) \in Address
  BY ThreadAccessAssumption DEF AccTypeOK, Self, Address

\* Whoever may be given the thread is a member, and of the initiator's account
\* if the thread is not shared and the giver is.
LEMMA ShareableStays ==
    ASSUME policy \in Policy, NEW a, NEW b, Shareable(a, b), Member(a),
           policy.sharing = "notShared" => a = policy.initiator
    PROVE  /\ Member(b)
           /\ policy.sharing = "notShared" => b = policy.initiator
  BY DEF Shareable, Member, Policy

\* A member may read every thread that is not private.
LEMMA MemberReads ==
    ASSUME NEW a, Member(a),
           policy.type = "private" => policy.sharing = "notShared",
           policy.sharing = "notShared" => a = policy.initiator
    PROVE  Readable(a)
  BY DEF Readable, Member

\* The checks of an author are those of the handlers, type by type.
LEMMA AuthorAllowed ==
    ASSUME AccTypeOK, NEW n \in Device, AuthorStep(n)
    PROVE  /\ letter' = [by |-> n, type |-> letter'.type]
           /\ letter'.type \in BlockType
           /\ Allowed(Self(n), letter'.type)
  <1> USE DEF Write, Allowed, BlockType
  <1>1. CASE Join(n)
    BY <1>1 DEF Join, HandleJoinBlock
  <1>2. CASE LeaveThread(n)
    BY <1>2 DEF LeaveThread, HandleLeaveBlock
  <1>3. CASE Announce(n)
    BY <1>3 DEF Announce, HandleAnnounceBlock
  <1>4. CASE RenameThread(n)
    BY <1>4 DEF RenameThread, HandleAnnounceBlock
  <1>5. CASE AddMessage(n)
    BY <1>5 DEF AddMessage, HandleMessageBlock
  <1>6. CASE AddFilesBlock(n)
    BY <1>6 DEF AddFilesBlock, HandleFilesBlock
  <1>7. CASE AddComment(n)
    BY <1>7 DEF AddComment, HandleCommentBlock
  <1>8. CASE AddLike(n)
    BY <1>8 DEF AddLike, HandleLikeBlock
  <1>9. CASE AddFlag(n)
    BY <1>9 DEF AddFlag, HandleFlagBlock
  <1>10. CASE AddIgnore(n)
    BY <1>10 DEF AddIgnore, HandleIgnoreBlock
  <1> QED
    BY <1>1, <1>2, <1>3, <1>4, <1>5, <1>6, <1>7, <1>8, <1>9, <1>10 DEF AuthorStep

-----------------------------------------------------------------------------
LEMMA AccInitOK == AccInit => AccInv
  <1> SUFFICES ASSUME AccInit PROVE AccInv
    OBVIOUS
  <1>1. PICK n \in Device : AddressOf[n] = policy.initiator /\ holders = {n} /\ inside = {n}
    BY DEF AccInit
  <1>2. AccTypeOK
    BY <1>1 DEF AccInit, AccTypeOK
  <1>3. HoldInv /\ JoinInv
    BY <1>1 DEF HoldInv, JoinInv, Member, Readable, Self
  <1>4. OfferInv /\ LetterInv
    BY DEF AccInit, OfferInv, LetterInv
  <1> QED
    BY <1>2, <1>3, <1>4 DEF AccInv

\* What the access methods say changes with the policy only.
LEMMA SamePolicy ==
    ASSUME policy' = policy
    PROVE  /\ \A a : Member(a)' <=> Member(a)
           /\ \A a : Readable(a)' <=> Readable(a)
           /\ \A a, ty : Allowed(a, ty)' <=> Allowed(a, ty)
  BY DEF Member, Readable, Allowed, HandleJoinBlock, HandleLeaveBlock,
     HandleAnnounceBlock,
         HandleMessageBlock, HandleFilesBlock, HandleCommentBlock, HandleLikeBlock,
         HandleFlagBlock, HandleIgnoreBlock, Annotatable, Writable

\* Authoring and handling move neither the thread nor the invites.
LEMMA BlocksOK ==
    ASSUME AccInv, NEW n \in Device, AuthorStep(n) \/ HandleBlock(n)
    PROVE  AccInv'
  <1>1. UNCHANGED <<policy, holders, inside, offers>>
    BY DEF AuthorStep, HandleBlock, Write, Join, LeaveThread, Announce, RenameThread,
       AddMessage,
           AddFilesBlock, AddComment, AddLike, AddFlag, AddIgnore
  <1>2. HoldInv' /\ JoinInv' /\ OfferInv'
    BY <1>1, SamePolicy DEF AccInv, HoldInv, JoinInv, OfferInv, Self
  <1>3. AccTypeOK' /\ LetterInv'
    <2>1. CASE AuthorStep(n)
      <3>1. /\ letter' = [by |-> n, type |-> letter'.type]
            /\ letter'.type \in BlockType
            /\ Allowed(Self(n), letter'.type)
        BY <2>1, AuthorAllowed DEF AccInv
      <3>2. outcome' = outcome
        BY <2>1 DEF AuthorStep, Write, Join, LeaveThread, Announce, RenameThread,
           AddMessage,
                    AddFilesBlock, AddComment, AddLike, AddFlag, AddIgnore
      <3>3. letter'.by = n
        BY <3>1
      <3> QED
        BY <1>1, <3>1, <3>2, <3>3, SamePolicy DEF AccInv, AccTypeOK, LetterInv, Self
    <2>2. CASE HandleBlock(n)
      <3>1. Allowed(AddressOf[letter.by], letter.type)
        BY <2>2 DEF HandleBlock, AccInv, LetterInv
      <3>2. outcome' = "refused" => ~Readable(Self(n))
        BY <2>2, <3>1 DEF HandleBlock
      <3> QED
        BY <1>1, <2>2, <3>2, SamePolicy DEF HandleBlock, AccInv, AccTypeOK, LetterInv,
           Self
    <2> QED
      BY <2>1, <2>2
  <1> QED
    BY <1>2, <1>3 DEF AccInv

\* An invite is sent by a node that has the thread.
LEMMA OffersOK ==
    ASSUME AccInv, NEW n \in Device,
           AddExternalInvite(n) \/ \E m \in Device : AddInvite(n, m)
    PROVE  AccInv'
  <1>1. UNCHANGED <<policy, holders, inside, letter, outcome>>
    BY DEF AddExternalInvite, AddInvite
  <1>2. /\ \A o \in offers' : o[1] \in holders
        /\ offers' \subseteq Device \X (Device \cup {Anyone})
    BY DEF AddExternalInvite, AddInvite, AccInv, OfferInv, AccTypeOK
  <1> QED
    BY <1>1, <1>2, SamePolicy
    DEF AccInv, AccTypeOK, HoldInv, JoinInv, OfferInv, LetterInv, Self

\* An invite is accepted: the inviter is a member, so the invitee is one, and may
\* read what is not private.
LEMMA AcceptOK ==
    ASSUME AccInv, NEW n \in Device, NEW m \in Device, HandleThreadAdd(n, m)
    PROVE  AccInv'
  <1>1. UNCHANGED <<policy, letter, outcome>> /\ holders' = holders \cup {n}
    BY DEF HandleThreadAdd
  <1>2. m \in holders
    BY DEF HandleThreadAdd, AccInv, OfferInv
  <1>3. Member(Self(n)) /\ (policy.sharing = "notShared" => Self(n) = policy.initiator)
    BY <1>2, PolicyType, ShareableStays DEF HandleThreadAdd, AccInv, HoldInv
  <1>4. HoldInv'
    BY <1>1, <1>3, SamePolicy DEF AccInv, HoldInv, Self
  <1>5. (policy.type = "private" => policy.sharing = "notShared") => Readable(Self(n))
    BY <1>3, MemberReads
  <1>6. JoinInv'
    BY <1>1, <1>5, SamePolicy DEF HandleThreadAdd, AccInv, JoinInv, Self
  <1>7. AccTypeOK' /\ OfferInv'
    BY <1>1 DEF HandleThreadAdd, AccInv, AccTypeOK, OfferInv
  <1>8. LetterInv'
    BY <1>1, SamePolicy DEF AccInv, LetterInv, Self
  <1> QED
    BY <1>4, <1>6, <1>7, <1>8 DEF AccInv

LEMMA AccStep == AccInv /\ [AccNext]_accVars => AccInv'
  <1> SUFFICES ASSUME AccInv, [AccNext]_accVars PROVE AccInv'
    OBVIOUS
  <1>1. CASE NextBlock
    BY <1>1, SamePolicy
    DEF NextBlock, AccInv, AccTypeOK, HoldInv, JoinInv, OfferInv, LetterInv, Self
  <1>2. CASE UNCHANGED accVars
    BY <1>2, SamePolicy
    DEF accVars, AccInv, AccTypeOK, HoldInv, JoinInv, OfferInv, LetterInv, Self
  <1> QED
    BY <1>1, <1>2, BlocksOK, OffersOK, AcceptOK DEF AccNext

\* The parts of the invariant, at all times.
LEMMA AccAlways == AccSpec => []AccInv
  BY AccInitOK, AccStep, PTL DEF AccSpec

-----------------------------------------------------------------------------
\* Every handler takes what an author was allowed to write: the checks of the
\* authors (AddMessage, AddLike, ...) imply those of the handlers
\* (handleMessageBlock, handleLikeBlock, ...), and only a node that may not
\* read refuses.
THEOREM HandlersAgree == AccSpec => []AuthoredAccepted
  <1>1. AccInv => AuthoredAccepted
    BY DEF AccInv, LetterInv, AuthoredAccepted
  <1> QED
    BY <1>1, AccAlways, PTL

\* However invites are passed on, shareable keeps the thread with the members
\* that the initiator named.
THEOREM NobodyElse == AccSpec => []StaysInside
  <1>1. AccInv => StaysInside
    BY DEF AccInv, HoldInv, StaysInside
  <1> QED
    BY <1>1, AccAlways, PTL

\* Unless a private thread is shared, whoever has the thread may read it and
\* has joined it (readable, join).
THEOREM EveryoneReads == AccSpec => []HoldersRead
  <1>1. AccInv => HoldersRead
    BY DEF AccInv, AccTypeOK, JoinInv, HoldersRead
  <1> QED
    BY <1>1, AccAlways, PTL

\* Both together, as they are checked.
THEOREM WhoHolds == AccSpec => []ThreadKept
  <1>1. StaysInside /\ HoldersRead => ThreadKept
    BY DEF ThreadKept
  <1> QED
    BY <1>1, NobodyElse, EveryoneReads, PTL


-----------------------------------------------------------------------------
(* Contacts                                                                  *)

\* Of person p: who has its card, and for each device the announcements of it
\* that are on the way, how often it was announced there and how often it still
\* may be.
HaveCard(p) == {d \in MyDevices : known[d][p] # NoCard /\ PeersEqual(known[d][p], card[p])}
MailsTo(d, p) == {m \in mailed : m.to = d /\ m.of = p}
NewsAt(d, p) == {h \in checked : h.to = d /\ h.of = p /\ SaysNew(h)}
EchoesOf(d, p) == echoes[<<d, p, card[p].updated>>]
Mails(p) == [d \in MyDevices |-> Cardinality(MailsTo(d, p))]
Made(p) == [d \in MyDevices |-> EchoesOf(d, p)]
Due(p) == [d \in MyDevices |-> EchoesOf(d, p) + Cardinality(NewsAt(d, p))]

\* The announcements of the devices S if each makes f[d], and the ways over some
\* of them.
Each(S, f) == {u \in S \X Nat : u[2] < f[u[1]]}
Subsets(S) == Cardinality(SUBSET S)

\* Devices S have the card; a device that has not is told by its person and by
\* each of theirs at most.
Bounded(S, made, due, mails) ==
    /\ \A d \in MyDevices \ S :
          made[d] = 0 /\ mails[d] + due[d] <= 1 + Cardinality(Each(S, made))
    /\ Cardinality(Each(S, due)) + 1 <= Subsets(S)
    /\ \A d \in S : due[d] <= Subsets(S \ {d})

\* Cards are dated by their persons, and rows not after now if no clock is ahead.
DatedCards ==
    /\ \A p \in Persons : card[p].updated \in 0..now
    /\ \A m \in mailed : m.card.updated \in 1..card[m.of].updated
    /\ \A h \in checked : h.card.updated \in 1..card[h.of].updated
    /\ \A e \in DOMAIN echoes : e[3] > card[e[2]].updated => echoes[e] = 0

NoneAhead == \A d \in MyDevices : habit.skew[d] <= 0

DatedRows == NoneAhead => \A d \in MyDevices, p \in Persons : known[d][p].updated <= now

\* What is on its way is the card as it is, or the two met.
Latest ==
    \A x \in OnWay : \/ x.card = card[x.of]
                     \/ Hasty(x.of, x.card.updated) /\ Hasty(x.of, card[x.of].updated)

\* Who has not the card is told, by one that it does not take for an older one.
Coming(d, p) ==
    card[p].updated > 0 =>
        \/ Says(known[d][p]) = Says(card[p])
        \/ MailsTo(d, p) # {} /\ known[d][p].updated <= card[p].updated
        \/ \E h \in checked : h.to = d /\ h.of = p

Typed == ConTypeOK /\ IsFiniteSet(mailed) /\ IsFiniteSet(checked)

Arriving ==
    NoneAhead => \A d \in MyDevices \ removed, p \in Persons :
                    ~Hasty(p, card[p].updated) => Coming(d, p)

Rounds ==
    removed = {} =>
        \A p \in Persons : ~Repeated(p, card[p].updated)
                              => Bounded(HaveCard(p), Made(p), Due(p), Mails(p))

ConInv ==
    /\ Typed /\ DatedCards /\ DatedRows /\ Latest /\ EchoesEnd
    /\ Rounds /\ Arriving

-----------------------------------------------------------------------------
(* Counting announcements                                                    *)

\* What finitely many devices announce is finite.
LEMMA EachFinite ==
    ASSUME NEW S, IsFiniteSet(S), NEW f, \A d \in S : f[d] \in Nat
    PROVE  IsFiniteSet(Each(S, f))
  <1> DEFINE Pile(d) == {d} \X (0..(f[d] - 1))
             piles == {Pile(d) : d \in S}
             r == [d \in S |-> Pile(d)]
  <1>1. r \in Surjection(S, piles)
    BY DEF Surjection
  <1>2. IsFiniteSet(piles)
    BY <1>1, FS_Surjection
  <1>3. ASSUME NEW d \in S PROVE IsFiniteSet(Pile(d))
    <2>1. IsFiniteSet({d})
      BY FS_Singleton
    <2>2. IsFiniteSet(0..(f[d] - 1))
      BY FS_Interval
    <2> QED BY <2>1, <2>2, FS_Product
  <1>4. IsFiniteSet(UNION piles)
    <2>1. \A T \in piles : IsFiniteSet(T)
      BY <1>3
    <2> QED BY <1>2, <2>1, FS_UNION
  <1>5. Each(S, f) \subseteq UNION piles
    <2>1. ASSUME NEW u \in Each(S, f) PROVE u \in UNION piles
      <3>1. PICK d \in S, n \in Nat : u = <<d, n>> /\ n < f[d]
        BY <2>1 DEF Each
      <3>2. n \in 0..(f[d] - 1)
        BY <3>1
      <3>3. u \in Pile(d)
        BY <3>1, <3>2
      <3> QED BY <3>3
    <2> QED BY <2>1
  <1> QED BY <1>4, <1>5, FS_Subset

\* How many one device announces.
LEMMA EachOfOne ==
    ASSUME NEW d, NEW f, f[d] \in Nat
    PROVE  IsFiniteSet(Each({d}, f)) /\ Cardinality(Each({d}, f)) = f[d]
  <1>1. PICK n \in Nat : n = f[d]
    OBVIOUS
  <1> DEFINE r == [i \in 0..(n - 1) |-> <<d, i>>]
  <1>2. r \in [0..(n - 1) -> Each({d}, f)]
    <2>1. \A i \in 0..(n - 1) : <<d, i>> \in Each({d}, f)
      BY <1>1 DEF Each
    <2> QED BY <2>1
  <1>3. \A i, j \in 0..(n - 1) : r[i] = r[j] => i = j
    OBVIOUS
  <1>4. \A u \in Each({d}, f) : \E i \in 0..(n - 1) : r[i] = u
    <2>1. ASSUME NEW u \in Each({d}, f) PROVE \E i \in 0..(n - 1) : r[i] = u
      <3>1. PICK i \in Nat : u = <<d, i>> /\ i < f[d]
        BY DEF Each
      <3>2. i \in 0..(n - 1)
        BY <1>1, <3>1
      <3> QED BY <3>1, <3>2
    <2> QED BY <2>1
  <1> HIDE DEF r
  <1>5. r \in Bijection(0..(n - 1), Each({d}, f))
    BY <1>2, <1>3, <1>4 DEF Bijection, Injection, Surjection, IsInjective
  <1>6. ExistsBijection(0..(n - 1), Each({d}, f))
    BY <1>5 DEF ExistsBijection
  <1>7. IsFiniteSet(0..(n - 1)) /\ Cardinality(0..(n - 1)) = n
    <2>1. n - 1 \in Int
      OBVIOUS
    <2>2. IsFiniteSet(0..(n - 1))
          /\ Cardinality(0..(n - 1)) = IF 0 > n - 1 THEN 0 ELSE (n - 1) - 0 + 1
      BY <2>1, FS_Interval
    <2> QED BY <2>2
  <1> QED BY <1>1, <1>6, <1>7, FS_Bijection

\* A set with one more has twice as many subsets.
LEMMA SubsetsDouble ==
    ASSUME NEW S, IsFiniteSet(S), NEW d, d \notin S
    PROVE  Subsets(S \cup {d}) = Subsets(S) + Subsets(S) /\ Subsets(S) \in Nat
  <1>1. IsFiniteSet(SUBSET S)
    BY FS_SUBSET
  <1>2. PICK with : with = {T \cup {d} : T \in SUBSET S}
    OBVIOUS
  <1>3. \A X : X \in with <=> \E T \in SUBSET S : X = T \cup {d}
    BY <1>2
  <1>4. PICK r : r = [T \in SUBSET S |-> T \cup {d}]
    OBVIOUS
  <1>5. r \in [SUBSET S -> with]
    BY <1>3, <1>4
  <1>6. \A T, U \in SUBSET S : r[T] = r[U] => T = U
    <2>1. ASSUME NEW T \in SUBSET S, NEW U \in SUBSET S, r[T] = r[U] PROVE T = U
      <3>1. T \cup {d} = U \cup {d}
        BY <1>4, <2>1
      <3>2. d \notin T /\ d \notin U
        OBVIOUS
      <3>3. \A x : x \in T <=> x \in U
        BY <3>1, <3>2
      <3> QED BY <3>3
    <2> QED BY <2>1
  <1>7. \A X \in with : \E T \in SUBSET S : r[T] = X
    BY <1>3, <1>4
  <1>8. r \in Bijection(SUBSET S, with)
    <2>1. r \in Injection(SUBSET S, with)
      BY <1>5, <1>6 DEF Injection, IsInjective
    <2>2. r \in Surjection(SUBSET S, with)
      BY <1>5, <1>7 DEF Surjection
    <2> QED BY <2>1, <2>2 DEF Bijection
  <1>9. ExistsBijection(SUBSET S, with)
    BY <1>8 DEF ExistsBijection
  <1>10. IsFiniteSet(with) /\ Cardinality(with) = Cardinality(SUBSET S)
    BY <1>1, <1>9, FS_Bijection
  <1>11. SUBSET (S \cup {d}) = (SUBSET S) \cup with
    <2>1. ASSUME NEW X \in SUBSET (S \cup {d}) PROVE X \in SUBSET S \/ X \in with
      <3>1. CASE d \in X
        <4>1. X \ {d} \in SUBSET S /\ X = (X \ {d}) \cup {d}
          BY <3>1
        <4> QED BY <1>3, <4>1
      <3>2. CASE d \notin X
        BY <3>2
      <3> QED BY <3>1, <3>2
    <2>2. \A X \in with : X \in SUBSET (S \cup {d})
      BY <1>3
    <2>3. \A X : X \in SUBSET (S \cup {d}) => X \in (SUBSET S) \cup with
      BY <2>1
    <2>4. \A X \in (SUBSET S) \cup with : X \in SUBSET (S \cup {d})
      <3>1. \A X \in SUBSET S : X \in SUBSET (S \cup {d})
        OBVIOUS
      <3> QED BY <2>2, <3>1
    <2>5. \A X : X \in SUBSET (S \cup {d}) <=> X \in (SUBSET S) \cup with
      BY <2>3, <2>4
    <2> QED BY <2>5
  <1>12. (SUBSET S) \cap with = {}
    <2>1. ASSUME NEW X \in SUBSET S, X \in with PROVE FALSE
      <3>1. d \in X
        BY <1>3, <2>1
      <3> QED BY <3>1
    <2> QED BY <2>1
  <1>13. Cardinality((SUBSET S) \cup with)
           = Cardinality(SUBSET S) + Cardinality(with) - Cardinality((SUBSET S) \cap with)
    BY <1>1, <1>10, FS_Union
  <1>14. Cardinality((SUBSET S) \cap with) = 0
    BY <1>12, FS_EmptySet
  <1>15. PICK n \in Nat : n = Cardinality(SUBSET S)
    BY <1>1, FS_CardinalityType
  <1>16. Cardinality(SUBSET (S \cup {d})) = n + n - 0
    BY <1>10, <1>11, <1>13, <1>14, <1>15
  <1>17. n + n - 0 = n + n
    OBVIOUS
  <1> QED BY <1>15, <1>16, <1>17 DEF Subsets

\* A subset has as many subsets at most, and each set has one.
LEMMA SubsetsGrow ==
    ASSUME NEW T, IsFiniteSet(T), NEW S, S \subseteq T
    PROVE  Subsets(S) \in Nat /\ Subsets(T) \in Nat /\ 1 <= Subsets(S) /\ Subsets(S) <= Subsets(T)
  <1>1. IsFiniteSet(SUBSET T)
    BY FS_SUBSET
  <1>2. SUBSET S \in SUBSET (SUBSET T)
    OBVIOUS
  <1>3. IsFiniteSet(SUBSET S) /\ Cardinality(SUBSET S) <= Cardinality(SUBSET T)
    BY <1>1, <1>2, FS_Subset
  <1>4. Cardinality(SUBSET S) \in Nat /\ Cardinality(SUBSET T) \in Nat
    BY <1>1, <1>3, FS_CardinalityType
  <1>5. SUBSET S # {}
    <2>1. {} \in SUBSET S
      OBVIOUS
    <2> QED BY <2>1
  <1>6. Cardinality(SUBSET S) # 0
    BY <1>3, <1>5, FS_EmptySet
  <1> QED BY <1>3, <1>4, <1>6 DEF Subsets

\* One device more adds what it announces.
LEMMA EachAdd ==
    ASSUME NEW S, IsFiniteSet(S), NEW d, d \notin S,
           NEW f, \A x \in S : f[x] \in Nat, f[d] \in Nat
    PROVE  /\ Cardinality(Each(S \cup {d}, f)) = Cardinality(Each(S, f)) + f[d]
           /\ Cardinality(Each(S, f)) \in Nat
  <1>1. IsFiniteSet(Each(S, f))
    BY EachFinite
  <1>2. IsFiniteSet(Each({d}, f)) /\ Cardinality(Each({d}, f)) = f[d]
    BY EachOfOne
  <1>3. Each(S \cup {d}, f) = Each(S, f) \cup Each({d}, f)
    BY DEF Each
  <1>4. Each(S, f) \cap Each({d}, f) = {}
    <2>1. ASSUME NEW u \in Each(S, f), u \in Each({d}, f) PROVE FALSE
      <3>1. PICK x \in S, n \in Nat : u = <<x, n>>
        BY DEF Each
      <3>2. PICK k \in Nat : u = <<d, k>>
        BY <2>1 DEF Each
      <3> QED BY <3>1, <3>2
    <2> QED BY <2>1
  <1>5. Cardinality(Each(S, f) \cup Each({d}, f))
           = Cardinality(Each(S, f)) + Cardinality(Each({d}, f))
             - Cardinality(Each(S, f) \cap Each({d}, f))
    BY <1>1, <1>2, FS_Union
  <1>6. Cardinality(Each(S, f) \cap Each({d}, f)) = 0
    BY <1>4, FS_EmptySet
  <1>7. PICK n \in Nat : n = Cardinality(Each(S, f))
    BY <1>1, FS_CardinalityType
  <1>8. Cardinality(Each(S \cup {d}, f)) = n + f[d] - 0
    BY <1>2, <1>3, <1>5, <1>6, <1>7
  <1>9. n + f[d] - 0 = n + f[d]
    BY <1>7
  <1> QED BY <1>7, <1>8, <1>9

\* More devices that announce more.
LEMMA EachGrow ==
    ASSUME NEW T, IsFiniteSet(T), NEW S, S \subseteq T, NEW f, NEW g,
           \A x \in T : f[x] \in Nat /\ g[x] \in Nat, \A x \in S : f[x] <= g[x]
    PROVE  /\ Cardinality(Each(S, f)) \in Nat /\ Cardinality(Each(T, g)) \in Nat
           /\ Cardinality(Each(S, f)) <= Cardinality(Each(T, g))
  <1>1. IsFiniteSet(Each(T, g))
    BY EachFinite
  <1>2. ASSUME NEW u \in Each(S, f) PROVE u \in Each(T, g)
    <2>1. PICK x \in S, n \in Nat : u = <<x, n>> /\ n < f[x]
      BY DEF Each
    <2>2. x \in T /\ n < g[x]
      BY <2>1
    <2> QED BY <2>1, <2>2 DEF Each
  <1>3. Each(S, f) \subseteq Each(T, g)
    BY <1>2
  <1>4. IsFiniteSet(Each(S, f)) /\ Cardinality(Each(S, f)) <= Cardinality(Each(T, g))
    BY <1>1, <1>3, FS_Subset
  <1> QED BY <1>1, <1>4, FS_CardinalityType

\* One of them announces one more.
LEMMA EachMore ==
    ASSUME NEW T, IsFiniteSet(T), NEW S, S \subseteq T, NEW f, NEW g,
           \A x \in T : f[x] \in Nat /\ g[x] \in Nat, \A x \in S : f[x] <= g[x],
           NEW d \in T, f[d] < g[d]
    PROVE  Cardinality(Each(S, f)) + 1 <= Cardinality(Each(T, g))
  <1>1. IsFiniteSet(Each(S, f)) /\ IsFiniteSet(Each(T, g))
    <2>1. IsFiniteSet(S)
      BY FS_Subset
    <2>2. \A x \in S : f[x] \in Nat
      OBVIOUS
    <2>3. \A x \in T : g[x] \in Nat
      OBVIOUS
    <2> QED BY <2>1, <2>2, <2>3, EachFinite
  <1>2. <<d, f[d]>> \notin Each(S, f) /\ <<d, f[d]>> \in Each(T, g)
    BY DEF Each
  <1>3. Each(S, f) \cup {<<d, f[d]>>} \subseteq Each(T, g)
    <2>1. ASSUME NEW u \in Each(S, f) PROVE u \in Each(T, g)
      <3>1. PICK x \in S, n \in Nat : u = <<x, n>> /\ n < f[x]
        BY DEF Each
      <3>2. x \in T /\ n < g[x]
        BY <3>1
      <3> QED BY <3>1, <3>2 DEF Each
    <2> QED BY <1>2, <2>1
  <1>4. Cardinality(Each(S, f) \cup {<<d, f[d]>>}) = Cardinality(Each(S, f)) + 1
    BY <1>1, <1>2, FS_AddElement
  <1>5. Cardinality(Each(S, f) \cup {<<d, f[d]>>}) <= Cardinality(Each(T, g))
    BY <1>1, <1>3, FS_Subset
  <1> QED BY <1>4, <1>5

-----------------------------------------------------------------------------
(* A round of announcements                                                  *)

Counts == [MyDevices -> Nat]

LEMMA DevicesFinite ==
    IsFiniteSet(MyDevices) /\ \A S \in SUBSET MyDevices : IsFiniteSet(S)
  <1>1. IsFiniteSet(MyDevices)
    BY ContactsAssumption
  <1>2. \A S \in SUBSET MyDevices : IsFiniteSet(S)
    BY <1>1, FS_Subset
  <1> QED BY <1>1, <1>2

\* A new card: everybody is told once and nobody has announced it.
LEMMA RoundBegins ==
    ASSUME NEW S \in SUBSET MyDevices, NEW made \in Counts, NEW due \in Counts, NEW mails \in Counts,
           \A d \in MyDevices : made[d] = 0 /\ due[d] = 0 /\ mails[d] <= 1
    PROVE  Bounded(S, made, due, mails)
  <1>1. IsFiniteSet(S)
    BY DevicesFinite
  <1>2. Each(S, made) = {} /\ Each(S, due) = {}
    BY DEF Each, Counts
  <1>3. Cardinality(Each(S, made)) = 0 /\ Cardinality(Each(S, due)) = 0
    BY <1>2, FS_EmptySet
  <1>4. 1 <= Subsets(S) /\ Subsets(S) \in Nat
    BY <1>1, SubsetsGrow
  <1>5. \A d \in S : 0 <= Subsets(S \ {d})
    BY <1>1, SubsetsGrow
  <1>6. \A d \in MyDevices \ S : made[d] = 0 /\ mails[d] + due[d] <= 1 + 0
    BY DEF Counts
  <1>7. 0 + 1 <= Subsets(S)
    BY <1>4
  <1>8. \A d \in S : due[d] <= Subsets(S \ {d})
    BY <1>5
  <1> QED BY <1>3, <1>6, <1>7, <1>8 DEF Bounded

\* An announcement that is handled no further, or that becomes due.
LEMMA RoundHears ==
    ASSUME NEW S \in SUBSET MyDevices, NEW made \in Counts, NEW due \in Counts, NEW mails \in Counts,
           NEW due2 \in Counts, NEW mails2 \in Counts,
           Bounded(S, made, due, mails),
           \A d \in S : due2[d] <= due[d],
           \A d \in MyDevices \ S : mails2[d] + due2[d] <= mails[d] + due[d]
    PROVE  Bounded(S, made, due2, mails2)
  <1>1. IsFiniteSet(S)
    BY DevicesFinite
  <1>2. /\ Cardinality(Each(S, due2)) \in Nat /\ Cardinality(Each(S, due)) \in Nat
        /\ Cardinality(Each(S, due2)) <= Cardinality(Each(S, due))
    BY <1>1, EachGrow DEF Counts
  <1>3. Cardinality(Each(S, made)) \in Nat
    BY <1>1, EachGrow DEF Counts
  <1>4. Subsets(S) \in Nat /\ \A d \in S : Subsets(S \ {d}) \in Nat
    BY <1>1, SubsetsGrow
  <1>5. \A d \in MyDevices \ S :
           made[d] = 0 /\ mails2[d] + due2[d] <= 1 + Cardinality(Each(S, made))
    BY <1>3 DEF Bounded, Counts
  <1>6. Cardinality(Each(S, due2)) + 1 <= Subsets(S)
    BY <1>2, <1>4 DEF Bounded
  <1>7. \A d \in S : due2[d] <= Subsets(S \ {d})
    BY <1>4 DEF Bounded, Counts
  <1> QED BY <1>5, <1>6, <1>7 DEF Bounded

\* A device that takes the card does not announce it more often than it may.
LEMMA RoundAdds ==
    ASSUME NEW S \in SUBSET MyDevices, NEW made \in Counts, NEW due \in Counts, NEW mails \in Counts,
           Bounded(S, made, due, mails), \A x \in MyDevices : made[x] <= due[x],
           NEW d \in MyDevices
    PROVE  /\ Cardinality(Each(S \cup {d}, due)) + 1 <= Subsets(S \cup {d})
           /\ \A x \in S \cup {d} : due[x] <= Subsets((S \cup {d}) \ {x})
  <1>1. IsFiniteSet(S)
    BY DevicesFinite
  <1>2. CASE d \in S
    <2>1. S \cup {d} = S
      BY <1>2
    <2> QED BY <2>1 DEF Bounded
  <1>3. CASE d \notin S
    <2>1. /\ Cardinality(Each(S \cup {d}, due)) = Cardinality(Each(S, due)) + due[d]
          /\ Cardinality(Each(S, due)) \in Nat
      BY <1>1, <1>3, EachAdd DEF Counts
    <2>2. /\ Cardinality(Each(S, made)) \in Nat
          /\ Cardinality(Each(S, made)) <= Cardinality(Each(S, due))
      BY <1>1, EachGrow DEF Counts
    <2>3. Subsets(S \cup {d}) = Subsets(S) + Subsets(S) /\ Subsets(S) \in Nat
      BY <1>1, <1>3, SubsetsDouble
    <2>4. mails[d] + due[d] <= 1 + Cardinality(Each(S, made)) /\ mails[d] \in Nat /\ due[d] \in Nat
      BY <1>3 DEF Bounded, Counts
    <2>5. Cardinality(Each(S, due)) + 1 <= Subsets(S)
      BY DEF Bounded
    <2>6. due[d] <= Subsets(S)
      BY <2>1, <2>2, <2>3, <2>4, <2>5
    <2>7. Cardinality(Each(S \cup {d}, due)) + 1 <= Subsets(S \cup {d})
      BY <2>1, <2>3, <2>4, <2>5, <2>6
    <2>8. ASSUME NEW x \in S \cup {d} PROVE due[x] <= Subsets((S \cup {d}) \ {x})
      <3>1. CASE x = d
        <4>1. (S \cup {d}) \ {d} = S
          BY <1>3
        <4> QED BY <2>6, <3>1, <4>1
      <3>2. CASE x \in S
        <4>1. due[x] <= Subsets(S \ {x}) /\ due[x] \in Nat
          BY <3>2 DEF Bounded, Counts
        <4>2. IsFiniteSet(S \cup {d})
          BY <1>1, FS_AddElement
        <4>3. IsFiniteSet((S \cup {d}) \ {x})
          BY <4>2, FS_Subset
        <4>4. S \ {x} \subseteq (S \cup {d}) \ {x}
          OBVIOUS
        <4>5. /\ Subsets(S \ {x}) \in Nat /\ Subsets((S \cup {d}) \ {x}) \in Nat
              /\ Subsets(S \ {x}) <= Subsets((S \cup {d}) \ {x})
          BY <4>3, <4>4, SubsetsGrow
        <4> QED BY <4>1, <4>5
      <3> QED BY <3>1, <3>2
    <2> QED BY <2>7, <2>8
  <1> QED BY <1>2, <1>3

\* A device has stored the card and does not announce it.
LEMMA RoundStores ==
    ASSUME NEW S \in SUBSET MyDevices, NEW made \in Counts, NEW due \in Counts, NEW mails \in Counts,
           Bounded(S, made, due, mails), \A x \in MyDevices : made[x] <= due[x],
           NEW d \in MyDevices
    PROVE  Bounded(S \cup {d}, made, due, mails)
  <1>1. IsFiniteSet(S) /\ IsFiniteSet(S \cup {d})
    BY DevicesFinite
  <1>2. /\ Cardinality(Each(S, made)) \in Nat /\ Cardinality(Each(S \cup {d}, made)) \in Nat
        /\ Cardinality(Each(S, made)) <= Cardinality(Each(S \cup {d}, made))
    BY <1>1, EachGrow DEF Counts
  <1>3. \A x \in MyDevices \ (S \cup {d}) :
           made[x] = 0 /\ mails[x] + due[x] <= 1 + Cardinality(Each(S \cup {d}, made))
    BY <1>2 DEF Bounded, Counts
  <1>4. /\ Cardinality(Each(S \cup {d}, due)) + 1 <= Subsets(S \cup {d})
        /\ \A x \in S \cup {d} : due[x] <= Subsets((S \cup {d}) \ {x})
    BY RoundAdds
  <1> QED BY <1>3, <1>4 DEF Bounded

\* A device has stored the card and announces it to the others.
LEMMA RoundAnnounces ==
    ASSUME NEW S \in SUBSET MyDevices, NEW made \in Counts, NEW due \in Counts, NEW mails \in Counts,
           Bounded(S, made, due, mails), \A x \in MyDevices : made[x] <= due[x],
           NEW d \in MyDevices, NEW made2 \in Counts, NEW mails2 \in Counts,
           made2[d] = made[d] + 1,
           \A x \in MyDevices \ {d} : made2[x] = made[x] /\ mails2[x] <= mails[x] + 1
    PROVE  Bounded(S \cup {d}, made2, due, mails2)
  <1>1. IsFiniteSet(S) /\ IsFiniteSet(S \cup {d})
    BY DevicesFinite
  <1>2. Cardinality(Each(S, made)) \in Nat /\ Cardinality(Each(S \cup {d}, made2)) \in Nat
    <2>1. Cardinality(Each(S, made)) \in Nat
      BY <1>1, EachGrow DEF Counts
    <2>2. Cardinality(Each(S \cup {d}, made2)) \in Nat
      BY <1>1, EachGrow DEF Counts
    <2> QED BY <2>1, <2>2
  <1>3. Cardinality(Each(S, made)) + 1 <= Cardinality(Each(S \cup {d}, made2))
    <2>1. \A x \in S \cup {d} : made[x] \in Nat /\ made2[x] \in Nat
      BY DEF Counts
    <2>2. \A x \in S : made[x] <= made2[x]
      BY <2>1
    <2>3. S \subseteq S \cup {d} /\ d \in S \cup {d} /\ made[d] < made2[d]
      BY <2>1
    <2> QED BY <1>1, <2>1, <2>2, <2>3, EachMore
  <1>4. ASSUME NEW x \in MyDevices \ (S \cup {d})
        PROVE  made2[x] = 0 /\ mails2[x] + due[x] <= 1 + Cardinality(Each(S \cup {d}, made2))
    <2>1. made2[x] = made[x] /\ mails2[x] <= mails[x] + 1
      OBVIOUS
    <2>2. made[x] = 0 /\ mails[x] + due[x] <= 1 + Cardinality(Each(S, made))
      BY DEF Bounded
    <2>3. mails[x] \in Nat /\ mails2[x] \in Nat /\ due[x] \in Nat
      BY DEF Counts
    <2> QED BY <1>2, <1>3, <2>1, <2>2, <2>3
  <1>5. /\ Cardinality(Each(S \cup {d}, due)) + 1 <= Subsets(S \cup {d})
        /\ \A x \in S \cup {d} : due[x] <= Subsets((S \cup {d}) \ {x})
    BY RoundAdds
  <1> QED BY <1>4, <1>5 DEF Bounded

-----------------------------------------------------------------------------
(* The tables, the announcements and their dates                             *)

LEMMA HabitType == ASSUME ConTypeOK PROVE habit \in Habit
                                          /\ habit.skew \in [MyDevices -> Int]
                                          /\ \A d \in MyDevices : -LongAgo < habit.skew[d]
  BY ContactsAssumption DEF ConTypeOK, Habit

LEMMA CardType ==
    /\ NoCard \in Card
    /\ \A c \in Card, f \in {"name", "avatar"}, v \in Names, t \in Int :
          Updated(c, f, v, t) \in Card
  <1>1. NoCard \in Card
    BY ContactsAssumption DEF NoCard, Card
  <1>2. ASSUME NEW c \in Card, NEW f \in {"name", "avatar"}, NEW v \in Names, NEW t \in Int
        PROVE  Updated(c, f, v, t) \in Card
    BY DEF Updated, Card
  <1> QED BY <1>1, <1>2

LEMMA StampedType ==
    ASSUME ConTypeOK, NEW h \in checked
    PROVE  /\ Stamped(h) \in Card /\ Stamped(h).updated = now + habit.skew[h.to]
           /\ PeersEqual(Stamped(h), h.card) /\ Stamped(h) # NoCard
  <1>1. h.to \in MyDevices /\ h.card \in Card /\ now \in Nat
    BY DEF ConTypeOK
  <1>2. habit.skew[h.to] \in Int /\ -LongAgo < habit.skew[h.to]
    BY <1>1, HabitType
  <1>3. Stamped(h) = [name |-> h.card.name, avatar |-> h.card.avatar,
                      updated |-> now + habit.skew[h.to]]
    BY <1>1 DEF Stamped, Card
  <1>4. Stamped(h).updated > -LongAgo
    BY <1>1, <1>2, <1>3, ContactsAssumption
  <1>5. NoCard.updated = -LongAgo
    BY DEF NoCard
  <1>6. Stamped(h) # NoCard
    BY <1>4, <1>5, ContactsAssumption
  <1> QED BY <1>1, <1>2, <1>3, <1>6 DEF Card, PeersEqual

\* What is sent to some devices.
LEMMA SentAre ==
    ASSUME NEW S \in SUBSET MyDevices, NEW from, NEW p, NEW c
    PROVE  /\ IsFiniteSet(ToAll(S, from, p, c))
           /\ \A m \in ToAll(S, from, p, c) : m.to \in S /\ m.of = p /\ m.card = c
           /\ \A d \in S : [to |-> d, from |-> from, of |-> p, card |-> c] \in ToAll(S, from, p, c)
  <1>1. PICK r : r = [d \in S |-> [to |-> d, from |-> from, of |-> p, card |-> c]]
    OBVIOUS
  <1>2. r \in Surjection(S, ToAll(S, from, p, c))
    BY <1>1 DEF Surjection, ToAll
  <1>3. IsFiniteSet(S)
    BY DevicesFinite
  <1>4. IsFiniteSet(ToAll(S, from, p, c))
    BY <1>2, <1>3, FS_Surjection
  <1> QED BY <1>4 DEF ToAll

\* What a card meets.
LEMMA MeetsAre ==
    ASSUME Typed, NEW p \in Persons, NEW t \in Int
    PROVE  Meets(p, t) \subseteq Persons \X Int \X Persons \X Int
  <1>1. \A x \in OnWay : x.of \in Persons /\ x.card.updated \in Int
    BY DEF OnWay, Typed, ConTypeOK, Card
  <1> QED BY <1>1 DEF Meets

\* What was on its way at once stays on record.
LEMMA OverlapGrows ==
    ASSUME [ConNext]_conVars
    PROVE  overlap \subseteq overlap' /\ removed \subseteq removed' /\ habit' = habit
  <1>1. CASE UNCHANGED conVars
    BY <1>1 DEF conVars
  <1>2. ASSUME NEW p \in Persons, NEW v \in Names, SetProfile(p, "name", v) \/ SetProfile(p, "avatar", v)
        PROVE  overlap \subseteq overlap' /\ removed \subseteq removed' /\ habit' = habit
    BY <1>2 DEF SetProfile
  <1>3. CASE Pass
    BY <1>3 DEF Pass
  <1>4. ASSUME NEW d \in MyDevices, NEW p \in Persons, AddContact(d, p)
        PROVE  overlap \subseteq overlap' /\ removed \subseteq removed' /\ habit' = habit
    BY <1>4 DEF AddContact
  <1>5. ASSUME NEW m \in mailed, CheckPeer(m)
        PROVE  overlap \subseteq overlap' /\ removed \subseteq removed' /\ habit' = habit
    BY <1>5 DEF CheckPeer
  <1>6. ASSUME NEW h \in checked, StorePeer(h)
        PROVE  overlap \subseteq overlap' /\ removed \subseteq removed' /\ habit' = habit
    BY <1>6 DEF StorePeer
  <1>7. ASSUME NEW d \in MyDevices, RemoveContact(d)
        PROVE  overlap \subseteq overlap' /\ removed \subseteq removed' /\ habit' = habit
    BY <1>7 DEF RemoveContact
  <1> QED BY <1>1, <1>2, <1>3, <1>4, <1>5, <1>6, <1>7 DEF ConNext

LEMMA InitTyped == ConInit => Typed
  <1> SUFFICES ASSUME ConInit PROVE Typed
    OBVIOUS
  <1>1. [name |-> Blank, avatar |-> Blank, updated |-> 0] \in Card
    BY DEF Card
  <1>2. habit \in Habits /\ now \in 0..MaxNow
    BY ContactsAssumption DEF ConInit
  <1>3. card \in [Persons -> Card] /\ known \in [MyDevices -> [Persons -> Card]]
    BY <1>1, CardType DEF ConInit
  <1>4. echoes \in [MyDevices \X Persons \X (0..MaxNow) -> Nat]
    BY DEF ConInit
  <1>5. mailed = {} /\ checked = {} /\ overlap = {} /\ removed = {}
    BY DEF ConInit
  <1> QED BY <1>2, <1>3, <1>4, <1>5, FS_EmptySet DEF Typed, ConTypeOK

LEMMA ProfileTyped ==
    ASSUME Typed, NEW p \in Persons, NEW f \in {"name", "avatar"}, NEW v \in Names,
           SetProfile(p, f, v)
    PROVE  Typed'
  <1> USE DEF SetProfile, Typed
  <1>1. habit' \in Habits /\ now' \in 0..MaxNow
    BY ContactsAssumption DEF ConTypeOK
  <1>2. now' \in Int /\ card[p] \in Card
    BY DEF ConTypeOK
  <1>3. Updated(card[p], f, v, now') \in Card
    BY <1>2, CardType
  <1>4. card' \in [Persons -> Card]
    BY <1>3 DEF ConTypeOK
  <1>5. card'[p] \in Card
    BY <1>4
  <1>6. PICK c : c = card'[p]
    OBVIOUS
  <1>7. mailed' = mailed \cup ToAll(MyDevices, <<p, 0>>, p, c)
    BY <1>6
  <1>8. /\ IsFiniteSet(ToAll(MyDevices, <<p, 0>>, p, c))
        /\ \A m \in ToAll(MyDevices, <<p, 0>>, p, c) : m.to \in MyDevices /\ m.of = p /\ m.card = c
    BY SentAre
  <1>9. IsFiniteSet(mailed')
    <2>1. PICK T : T = ToAll(MyDevices, <<p, 0>>, p, c)
      OBVIOUS
    <2>2. IsFiniteSet(T) /\ IsFiniteSet(mailed)
      BY <1>8, <2>1
    <2>3. IsFiniteSet(mailed \cup T)
      BY <2>2, FS_Union
    <2> QED BY <1>7, <2>1, <2>3
  <1>10. \A m \in mailed' : m.to \in MyDevices /\ m.of \in Persons /\ m.card \in Card
    BY <1>5, <1>6, <1>7, <1>8 DEF ConTypeOK
  <1>11. UNCHANGED <<known, checked, echoes, removed>>
    OBVIOUS
  <1>12. overlap' \subseteq Persons \X Int \X Persons \X Int
    <2>1. PICK O : O = Meets(p, now + 1)
      OBVIOUS
    <2>2. now + 1 \in Int
      BY DEF ConTypeOK
    <2>3. O \subseteq Persons \X Int \X Persons \X Int
      BY <2>1, <2>2, MeetsAre
    <2>4. overlap' = overlap \cup O
      BY <2>1
    <2> QED BY <2>3, <2>4 DEF ConTypeOK
  <1> QED BY <1>1, <1>4, <1>9, <1>10, <1>11, <1>12 DEF ConTypeOK

LEMMA PassTyped == ASSUME Typed, Pass PROVE Typed'
  <1>1. now' \in 0..MaxNow
    BY ContactsAssumption DEF Pass, Typed, ConTypeOK
  <1> QED BY <1>1 DEF Pass, Typed, ConTypeOK

LEMMA AddTyped ==
    ASSUME Typed, NEW d \in MyDevices, NEW p \in Persons, AddContact(d, p)
    PROVE  Typed'
  <1>1. PICK T : T = ToAll({d}, <<d, -1>>, p, card[p])
    OBVIOUS
  <1>2. IsFiniteSet(T) /\ \A m \in T : m.to \in {d} /\ m.of = p /\ m.card = card[p]
    BY <1>1, SentAre
  <1>3. mailed' = mailed \cup T
    BY <1>1 DEF AddContact
  <1>4. card[p] \in Card /\ card[p].updated \in Int
    BY DEF Typed, ConTypeOK, Card
  <1>5. \A m \in mailed' : m.to \in MyDevices /\ m.of \in Persons /\ m.card \in Card
    BY <1>2, <1>3, <1>4 DEF Typed, ConTypeOK
  <1>6. IsFiniteSet(mailed')
    BY <1>2, <1>3, FS_Union DEF Typed
  <1>7. overlap' \subseteq Persons \X Int \X Persons \X Int
    <2>1. PICK O : O = Meets(p, card[p].updated)
      OBVIOUS
    <2>2. O \subseteq Persons \X Int \X Persons \X Int
      BY <1>4, <2>1, MeetsAre
    <2>3. overlap' = overlap \cup O
      BY <2>1 DEF AddContact
    <2> QED BY <2>2, <2>3 DEF Typed, ConTypeOK
  <1> QED BY <1>5, <1>6, <1>7 DEF AddContact, Typed, ConTypeOK

LEMMA CheckTyped ==
    ASSUME Typed, NEW m \in mailed, CheckPeer(m)
    PROVE  Typed'
  <1> USE DEF Typed
  <1>1. mailed' = mailed \ {m} /\ UNCHANGED <<habit, now, card, known, echoes, overlap, removed>>
    BY DEF CheckPeer
  <1>2. m.to \in MyDevices /\ m.of \in Persons /\ m.card \in Card /\ known[m.to][m.of] \in Card
    BY DEF ConTypeOK
  <1>3. PICK h : h = [to |-> m.to, from |-> m.from, of |-> m.of, card |-> m.card,
                      old |-> known[m.to][m.of]]
    OBVIOUS
  <1>4. h.to \in MyDevices /\ h.of \in Persons /\ h.card \in Card /\ h.old \in Card
    BY <1>2, <1>3
  <1>5. checked' = checked \/ checked' = checked \cup {h}
    BY <1>3 DEF CheckPeer
  <1>6. IsFiniteSet(mailed') /\ IsFiniteSet(checked')
    <2>1. IsFiniteSet(mailed')
      BY <1>1, FS_Subset
    <2>2. IsFiniteSet(checked \cup {h})
      BY FS_AddElement
    <2> QED BY <1>5, <2>1, <2>2
  <1>7. \A k \in checked' : k.to \in MyDevices /\ k.of \in Persons /\ k.card \in Card /\ k.old \in Card
    BY <1>4, <1>5 DEF ConTypeOK
  <1>8. \A k \in mailed' : k.to \in MyDevices /\ k.of \in Persons /\ k.card \in Card
    BY <1>1 DEF ConTypeOK
  <1> QED BY <1>1, <1>6, <1>7, <1>8 DEF ConTypeOK

LEMMA StoreTyped ==
    ASSUME Typed, NEW h \in checked, StorePeer(h)
    PROVE  Typed'
  <1> USE DEF Typed
  <1>1. h.to \in MyDevices /\ h.of \in Persons /\ h.card \in Card /\ Stamped(h) \in Card
    BY StampedType DEF ConTypeOK
  <1>2. checked' = checked \ {h} /\ UNCHANGED <<habit, now, card, overlap, removed>>
    BY DEF StorePeer
  <1>3. known' \in [MyDevices -> [Persons -> Card]]
    <2>1. known' = [known EXCEPT ![h.to] = [known[h.to] EXCEPT ![h.of] = Stamped(h)]]
      BY DEF StorePeer
    <2>2. known[h.to] \in [Persons -> Card]
      BY <1>1 DEF ConTypeOK
    <2>3. [known[h.to] EXCEPT ![h.of] = Stamped(h)] \in [Persons -> Card]
      BY <1>1, <2>2
    <2> QED BY <2>1, <2>3 DEF ConTypeOK
  <1>4. PICK e : e = <<h.to, h.of, h.card.updated>>
    OBVIOUS
  <1>5. echoes' \in [MyDevices \X Persons \X (0..MaxNow) -> Nat]
    <2>1. echoes' = echoes \/ echoes' = [echoes EXCEPT ![e] = echoes[e] + 1]
      BY <1>4 DEF StorePeer
    <2>2. [echoes EXCEPT ![e] = echoes[e] + 1] \in [MyDevices \X Persons \X (0..MaxNow) -> Nat]
      <3>1. echoes \in [MyDevices \X Persons \X (0..MaxNow) -> Nat]
        BY DEF ConTypeOK
      <3>2. CASE e \in MyDevices \X Persons \X (0..MaxNow)
        <4>1. echoes[e] + 1 \in Nat
          BY <3>1, <3>2
        <4> QED BY <3>1, <4>1
      <3>3. CASE e \notin MyDevices \X Persons \X (0..MaxNow)
        <4>1. [echoes EXCEPT ![e] = echoes[e] + 1] = echoes
          BY <3>1, <3>3
        <4> QED BY <3>1, <4>1
      <3> QED BY <3>2, <3>3
    <2> QED BY <2>1, <2>2 DEF ConTypeOK
  <1>6. PICK T : T = ToAll(MyDevices \ {h.to}, <<h.to, echoes[e]>>, h.of, h.card)
    OBVIOUS
  <1>7. mailed' = mailed \/ mailed' = mailed \cup T
    BY <1>4, <1>6 DEF StorePeer
  <1>8. IsFiniteSet(T) /\ \A m \in T : m.to \in MyDevices \ {h.to} /\ m.of = h.of /\ m.card = h.card
    BY <1>6, SentAre
  <1>9. IsFiniteSet(mailed') /\ IsFiniteSet(checked')
    <2>1. IsFiniteSet(mailed \cup T)
      BY <1>8, FS_Union
    <2>2. IsFiniteSet(checked')
      BY <1>2, FS_Subset
    <2> QED BY <1>7, <2>1, <2>2
  <1>10. \A m \in mailed' : m.to \in MyDevices /\ m.of \in Persons /\ m.card \in Card
    BY <1>1, <1>7, <1>8 DEF ConTypeOK
  <1>11. \A k \in checked' : k.to \in MyDevices /\ k.of \in Persons /\ k.card \in Card /\ k.old \in Card
    BY <1>2 DEF ConTypeOK
  <1> QED BY <1>2, <1>3, <1>5, <1>9, <1>10, <1>11 DEF ConTypeOK

LEMMA RemoveTyped ==
    ASSUME Typed, NEW d \in MyDevices, RemoveContact(d)
    PROVE  Typed'
  <1> USE DEF Typed
  <1>1. known' \in [MyDevices -> [Persons -> Card]]
    <2>1. [p \in Persons |-> NoCard] \in [Persons -> Card]
      BY CardType
    <2> QED BY <2>1 DEF RemoveContact, ConTypeOK
  <1>2. removed' \subseteq MyDevices
    BY DEF RemoveContact, ConTypeOK
  <1>3. UNCHANGED <<habit, now, card, mailed, checked, echoes, overlap>>
    BY DEF RemoveContact
  <1> QED BY <1>1, <1>2, <1>3 DEF ConTypeOK

LEMMA ConTyped == ASSUME Typed, [ConNext]_conVars PROVE Typed'
  <1>1. CASE UNCHANGED conVars
    BY <1>1 DEF Typed, ConTypeOK, conVars
  <1>2. ASSUME NEW p \in Persons, NEW v \in Names, SetProfile(p, "name", v) \/ SetProfile(p, "avatar", v)
        PROVE  Typed'
    BY <1>2, ProfileTyped
  <1>3. CASE Pass
    BY <1>3, PassTyped
  <1>4. ASSUME NEW d \in MyDevices, NEW p \in Persons, AddContact(d, p) PROVE Typed'
    BY <1>4, AddTyped
  <1>5. ASSUME NEW m \in mailed, CheckPeer(m) PROVE Typed'
    BY <1>5, CheckTyped
  <1>6. ASSUME NEW h \in checked, StorePeer(h) PROVE Typed'
    BY <1>6, StoreTyped
  <1>7. ASSUME NEW d \in MyDevices, RemoveContact(d) PROVE Typed'
    BY <1>7, RemoveTyped
  <1> QED BY <1>1, <1>2, <1>3, <1>4, <1>5, <1>6, <1>7 DEF ConNext

-----------------------------------------------------------------------------
(* The step of each handler, and of the others in one                        *)

\* A person that sets its profile.
LEMMA ProfileIs ==
    ASSUME Typed, NEW p \in Persons, NEW f \in {"name", "avatar"}, NEW v \in Names,
           SetProfile(p, f, v)
    PROVE  \E c \in Card :
             /\ now' = now + 1 /\ c.updated = now + 1 /\ now \in Nat
             /\ card' = [card EXCEPT ![p] = c]
             /\ mailed' = mailed \cup ToAll(MyDevices, <<p, 0>>, p, c)
             /\ overlap' = overlap \cup Meets(p, now + 1)
             /\ UNCHANGED <<habit, known, checked, echoes, removed>>
  <1>1. now' = now + 1 /\ now \in Nat /\ card[p] \in Card
    BY DEF SetProfile, Typed, ConTypeOK
  <1>2. PICK c : c = Updated(card[p], f, v, now + 1)
    OBVIOUS
  <1>3. c \in Card
    BY <1>1, <1>2, CardType
  <1>4. c.updated = now + 1
    BY <1>2 DEF Updated
  <1>5. card' = [card EXCEPT ![p] = c]
    BY <1>1, <1>2 DEF SetProfile
  <1>6. card'[p] = c
    BY <1>5 DEF Typed, ConTypeOK
  <1>7. mailed' = mailed \cup ToAll(MyDevices, <<p, 0>>, p, c)
    BY <1>6 DEF SetProfile
  <1> QED BY <1>1, <1>3, <1>4, <1>5, <1>7 DEF SetProfile

\* A handler that is begun.
LEMMA CheckIs ==
    ASSUME Typed, NEW m \in mailed, CheckPeer(m)
    PROVE  /\ mailed' = mailed \ {m}
           /\ UNCHANGED <<habit, now, card, known, echoes, overlap, removed>>
           /\ m.to \in MyDevices /\ m.of \in Persons /\ m.card \in Card
           /\ \/ checked' = checked /\ ~IsNewer(known[m.to][m.of], m.card)
              \/ \E h : /\ checked' = checked \cup {h} /\ h.to = m.to /\ h.of = m.of
                        /\ h.card = m.card /\ h.old = known[m.to][m.of]
  <1>1. mailed' = mailed \ {m} /\ UNCHANGED <<habit, now, card, known, echoes, overlap, removed>>
    BY DEF CheckPeer
  <1>2. m.to \in MyDevices /\ m.of \in Persons /\ m.card \in Card
    BY DEF Typed, ConTypeOK
  <1>3. PICK h : h = [to |-> m.to, from |-> m.from, of |-> m.of, card |-> m.card,
                      old |-> known[m.to][m.of]]
    OBVIOUS
  <1>4. \/ checked' = checked /\ ~IsNewer(known[m.to][m.of], m.card)
        \/ checked' = checked \cup {h}
    BY <1>3 DEF CheckPeer
  <1>5. h.to = m.to /\ h.of = m.of /\ h.card = m.card /\ h.old = known[m.to][m.of]
    BY <1>3
  <1> QED BY <1>1, <1>2, <1>4, <1>5

\* A handler that ends.
LEMMA StoreKnown ==
    ASSUME Typed, NEW h \in checked, StorePeer(h), NEW d \in MyDevices, NEW p \in Persons
    PROVE  known'[d][p] = IF d = h.to /\ p = h.of THEN Stamped(h) ELSE known[d][p]
  <1>1. h.to \in MyDevices /\ h.of \in Persons
    BY DEF Typed, ConTypeOK
  <1>2. known' = [known EXCEPT ![h.to] = [known[h.to] EXCEPT ![h.of] = Stamped(h)]]
    BY DEF StorePeer
  <1>3. known[h.to] \in [Persons -> Card] /\ known \in [MyDevices -> [Persons -> Card]]
    BY <1>1 DEF Typed, ConTypeOK
  <1> QED BY <1>1, <1>2, <1>3

LEMMA StoreIs ==
    ASSUME Typed, NEW h \in checked, StorePeer(h)
    PROVE  /\ checked' = checked \ {h} /\ UNCHANGED <<habit, now, card, overlap, removed>>
           /\ h.to \in MyDevices /\ h.of \in Persons /\ h.card \in Card
           /\ \A d \in MyDevices, p \in Persons :
                 known'[d][p] = IF d = h.to /\ p = h.of THEN Stamped(h) ELSE known[d][p]
           /\ \/ mailed' = mailed /\ echoes' = echoes /\ ~SaysNew(h)
              \/ /\ SaysNew(h)
                 /\ \E e, T :
                       /\ e = <<h.to, h.of, h.card.updated>>
                       /\ T = ToAll(MyDevices \ {h.to}, <<h.to, echoes[e]>>, h.of, h.card)
                       /\ mailed' = mailed \cup T
                       /\ echoes' = [echoes EXCEPT ![e] = echoes[e] + 1]
  <1>1. checked' = checked \ {h} /\ UNCHANGED <<habit, now, card, overlap, removed>>
    BY DEF StorePeer
  <1>2. h.to \in MyDevices /\ h.of \in Persons /\ h.card \in Card
    BY DEF Typed, ConTypeOK
  <1>3. ASSUME NEW d \in MyDevices, NEW p \in Persons
        PROVE  known'[d][p] = IF d = h.to /\ p = h.of THEN Stamped(h) ELSE known[d][p]
    BY StoreKnown
  <1>4. PICK e : e = <<h.to, h.of, h.card.updated>>
    OBVIOUS
  <1>5. PICK T : T = ToAll(MyDevices \ {h.to}, <<h.to, echoes[e]>>, h.of, h.card)
    OBVIOUS
  <1>6. CASE SaysNew(h)
    <2>1. mailed' = mailed \cup T /\ echoes' = [echoes EXCEPT ![e] = echoes[e] + 1]
      BY <1>4, <1>5, <1>6 DEF StorePeer
    <2> QED BY <1>1, <1>2, <1>3, <1>4, <1>5, <1>6, <2>1
  <1>7. CASE ~SaysNew(h)
    <2>1. mailed' = mailed /\ echoes' = echoes
      BY <1>7 DEF StorePeer
    <2> QED BY <1>1, <1>2, <1>3, <1>7, <2>1
  <1> QED BY <1>6, <1>7

-----------------------------------------------------------------------------
(* Dates                                                                     *)

LEMMA ProfileDated ==
    ASSUME Typed, DatedCards, DatedRows,
           NEW p \in Persons, NEW f \in {"name", "avatar"}, NEW v \in Names, SetProfile(p, f, v)
    PROVE  DatedCards' /\ DatedRows'
  <1>1. PICK c \in Card :
             /\ now' = now + 1 /\ c.updated = now + 1 /\ now \in Nat
             /\ card' = [card EXCEPT ![p] = c]
             /\ mailed' = mailed \cup ToAll(MyDevices, <<p, 0>>, p, c)
             /\ UNCHANGED <<habit, known, checked, echoes>>
    BY ProfileIs
  <1>2. card \in [Persons -> Card] /\ card' \in [Persons -> Card]
    BY <1>1 DEF Typed, ConTypeOK
  <1>3. \A q \in Persons : card[q].updated \in 0..now /\ card'[q].updated \in 0..(now + 1)
                           /\ card[q].updated <= card'[q].updated
    BY <1>1, <1>2 DEF DatedCards
  <1>4. \A m \in ToAll(MyDevices, <<p, 0>>, p, c) : m.of = p /\ m.card = c
    BY SentAre
  <1>5. \A m \in mailed' : m.card.updated \in 1..card'[m.of].updated
    <2>1. ASSUME NEW m \in mailed PROVE m.card.updated \in 1..card'[m.of].updated
      <3>1. m.of \in Persons /\ m.card.updated \in 1..card[m.of].updated
        BY DEF DatedCards, Typed, ConTypeOK
      <3> QED BY <1>3, <3>1
    <2>2. card'[p] = c /\ c.updated \in 1..c.updated
      BY <1>1, <1>2
    <2> QED BY <1>1, <1>4, <2>1, <2>2
  <1>6. ASSUME NEW h \in checked PROVE h.card.updated \in 1..card'[h.of].updated
    <2>1. h.of \in Persons /\ h.card.updated \in 1..card[h.of].updated
      BY DEF DatedCards, Typed, ConTypeOK
    <2> QED BY <1>3, <2>1
  <1>7. ASSUME NEW e \in DOMAIN echoes, e[3] > card'[e[2]].updated PROVE echoes[e] = 0
    <2>1. e[2] \in Persons /\ e[3] \in Nat
      BY DEF Typed, ConTypeOK
    <2>2. e[3] > card[e[2]].updated
      BY <1>3, <1>7, <2>1
    <2> QED BY <2>2 DEF DatedCards
  <1>8. DatedCards'
    BY <1>1, <1>3, <1>5, <1>6, <1>7 DEF DatedCards
  <1>9. DatedRows'
    <2>1. SUFFICES ASSUME NoneAhead', NEW d \in MyDevices, NEW q \in Persons
                   PROVE  known'[d][q].updated <= now'
      BY DEF DatedRows
    <2>2. NoneAhead
      BY <1>1, <2>1 DEF NoneAhead
    <2>3. known[d][q].updated <= now /\ known[d][q].updated \in Int
      BY <2>2 DEF DatedRows, Typed, ConTypeOK, Card
    <2> QED BY <1>1, <2>3
  <1> QED BY <1>8, <1>9

LEMMA PassDated == ASSUME Typed, DatedCards, DatedRows, Pass PROVE DatedCards' /\ DatedRows'
  <1>1. now' = now + 1 /\ now \in Nat /\ UNCHANGED <<habit, card, known, mailed, checked, echoes>>
    BY DEF Pass, Typed, ConTypeOK
  <1>2. \A p \in Persons : card[p].updated \in 0..(now + 1)
    BY <1>1 DEF DatedCards
  <1>3. DatedCards'
    BY <1>1, <1>2 DEF DatedCards
  <1>4. ASSUME NoneAhead, NEW d \in MyDevices, NEW q \in Persons
        PROVE  known[d][q].updated <= now + 1
    <2>1. known[d][q].updated <= now /\ known[d][q].updated \in Int
      BY <1>4 DEF DatedRows, Typed, ConTypeOK, Card
    <2> QED BY <1>1, <2>1
  <1>5. DatedRows'
    BY <1>1, <1>4 DEF DatedRows, NoneAhead
  <1> QED BY <1>3, <1>5

LEMMA AddDated ==
    ASSUME Typed, DatedCards, DatedRows, NEW d \in MyDevices, NEW p \in Persons, AddContact(d, p)
    PROVE  DatedCards' /\ DatedRows'
  <1>1. /\ mailed' = mailed \cup ToAll({d}, <<d, -1>>, p, card[p]) /\ card[p].updated > 0
        /\ UNCHANGED <<habit, now, card, known, checked, echoes>>
    BY DEF AddContact
  <1>2. \A m \in ToAll({d}, <<d, -1>>, p, card[p]) : m.of = p /\ m.card = card[p]
    BY SentAre
  <1>3. card[p].updated \in Int
    BY DEF Typed, ConTypeOK, Card
  <1>4. ASSUME NEW m \in mailed'
        PROVE  m.card.updated \in 1..card[m.of].updated
    <2>1. CASE m \in mailed
      BY <2>1 DEF DatedCards
    <2>2. CASE m \in ToAll({d}, <<d, -1>>, p, card[p])
      <3>1. m.of = p /\ m.card = card[p]
        BY <2>2, <1>2
      <3> QED BY <3>1, <1>1, <1>3
    <2> QED BY <2>1, <2>2, <1>1
  <1>5. DatedCards'
    BY <1>1, <1>4 DEF DatedCards
  <1> QED BY <1>1, <1>5 DEF DatedRows, NoneAhead

LEMMA CheckDated ==
    ASSUME Typed, DatedCards, DatedRows, NEW m \in mailed, CheckPeer(m)
    PROVE  DatedCards' /\ DatedRows'
  <1>1. mailed' = mailed \ {m} /\ UNCHANGED <<habit, now, card, known, echoes>>
    BY CheckIs
  <1>2. \A h \in checked' : h.card.updated \in 1..card[h.of].updated
    BY CheckIs DEF DatedCards
  <1>3. DatedCards'
    BY <1>1, <1>2 DEF DatedCards
  <1> QED BY <1>1, <1>3 DEF DatedRows, NoneAhead

LEMMA StoreDated ==
    ASSUME Typed, DatedCards, DatedRows, NEW h \in checked, StorePeer(h)
    PROVE  DatedCards' /\ DatedRows'
  <1>1. /\ checked' = checked \ {h} /\ UNCHANGED <<habit, now, card>>
        /\ h.to \in MyDevices /\ h.of \in Persons /\ h.card \in Card
    BY StoreIs
  <1>2. h.card.updated \in 1..card[h.of].updated
    BY DEF DatedCards
  <1>3. \A k \in mailed' : k.card.updated \in 1..card[k.of].updated
    <2>1. CASE mailed' = mailed
      BY <2>1 DEF DatedCards
    <2>2. CASE mailed' # mailed
      <3>1. PICK e, T : /\ T = ToAll(MyDevices \ {h.to}, <<h.to, echoes[e]>>, h.of, h.card)
                        /\ mailed' = mailed \cup T
        BY <2>2, StoreIs
      <3>2. \A k \in T : k.of = h.of /\ k.card = h.card
        BY <3>1, SentAre
      <3>3. \A k \in T : k.card.updated \in 1..card[k.of].updated
        BY <1>2, <3>2
      <3> QED BY <3>1, <3>3 DEF DatedCards
    <2> QED BY <2>1, <2>2
  <1>4. ASSUME NEW e \in DOMAIN echoes', e[3] > card[e[2]].updated PROVE echoes'[e] = 0
    <2>1. DOMAIN echoes' = DOMAIN echoes
      BY StoreIs
    <2>2. e # <<h.to, h.of, h.card.updated>>
      <3>1. SUFFICES ASSUME e = <<h.to, h.of, h.card.updated>> PROVE FALSE
        OBVIOUS
      <3>2. e[2] = h.of /\ e[3] = h.card.updated
        BY <3>1
      <3>3. card[h.of].updated \in Int
        BY <1>1 DEF Typed, ConTypeOK, Card
      <3> QED BY <1>2, <1>4, <3>2, <3>3
    <2>3. echoes'[e] = echoes[e]
      BY <2>1, <2>2, StoreIs DEF Typed, ConTypeOK
    <2> QED BY <1>4, <2>1, <2>3 DEF DatedCards
  <1>5. DatedCards'
    BY <1>1, <1>3, <1>4 DEF DatedCards
  <1>6. DatedRows'
    <2>1. SUFFICES ASSUME NoneAhead', NEW d \in MyDevices, NEW q \in Persons
                   PROVE  known'[d][q].updated <= now'
      BY DEF DatedRows
    <2>2. NoneAhead
      BY <1>1, <2>1 DEF NoneAhead
    <2>3. known[d][q].updated <= now /\ now \in Nat
      BY <2>2 DEF DatedRows, Typed, ConTypeOK
    <2>4. Stamped(h).updated = now + habit.skew[h.to]
      BY StampedType DEF Typed
    <2>5. habit.skew[h.to] <= 0 /\ habit.skew[h.to] \in Int
      BY <1>1, <2>2, HabitType DEF NoneAhead, Typed
    <2>6. Stamped(h).updated <= now
      BY <2>3, <2>4, <2>5
    <2> QED BY <1>1, <2>3, <2>6, StoreIs
  <1> QED BY <1>5, <1>6

LEMMA RemoveDated ==
    ASSUME Typed, DatedCards, DatedRows, NEW d \in MyDevices, RemoveContact(d)
    PROVE  DatedCards' /\ DatedRows'
  <1>1. UNCHANGED <<habit, now, card, mailed, checked, echoes>>
    BY DEF RemoveContact
  <1>3. DatedCards'
    BY <1>1 DEF DatedCards
  <1>4. ASSUME NEW a \in MyDevices, NEW q \in Persons, NoneAhead PROVE known'[a][q].updated <= now
    <2>1. known'[a][q] = NoCard \/ known'[a][q] = known[a][q]
      BY DEF RemoveContact, Typed, ConTypeOK
    <2>2. NoCard.updated <= now
      BY ContactsAssumption DEF NoCard, Typed, ConTypeOK
    <2> QED BY <1>4, <2>1, <2>2 DEF DatedRows
  <1>5. DatedRows'
    BY <1>1, <1>4 DEF DatedRows, NoneAhead
  <1> QED BY <1>3, <1>5

LEMMA ConDated ==
    ASSUME Typed, DatedCards, DatedRows, [ConNext]_conVars
    PROVE  DatedCards' /\ DatedRows'
  <1>1. CASE UNCHANGED conVars
    BY <1>1 DEF DatedCards, DatedRows, NoneAhead, conVars
  <1>2. ASSUME NEW p \in Persons, NEW v \in Names, SetProfile(p, "name", v) \/ SetProfile(p, "avatar", v)
        PROVE  DatedCards' /\ DatedRows'
    BY <1>2, ProfileDated
  <1>3. CASE Pass
    BY <1>3, PassDated
  <1>4. ASSUME NEW d \in MyDevices, NEW p \in Persons, AddContact(d, p)
        PROVE  DatedCards' /\ DatedRows'
    BY <1>4, AddDated
  <1>5. ASSUME NEW m \in mailed, CheckPeer(m) PROVE DatedCards' /\ DatedRows'
    BY <1>5, CheckDated
  <1>6. ASSUME NEW h \in checked, StorePeer(h) PROVE DatedCards' /\ DatedRows'
    BY <1>6, StoreDated
  <1>7. ASSUME NEW d \in MyDevices, RemoveContact(d) PROVE DatedCards' /\ DatedRows'
    BY <1>7, RemoveDated
  <1> QED BY <1>1, <1>2, <1>3, <1>4, <1>5, <1>6, <1>7 DEF ConNext

-----------------------------------------------------------------------------
(* What is on its way                                                        *)

LEMMA ConLatest ==
    ASSUME Typed, DatedCards, Latest, [ConNext]_conVars
    PROVE  Latest'
  <1> SUFFICES ASSUME NEW x \in OnWay', x.card # card'[x.of]
               PROVE  Hasty(x.of, x.card.updated)' /\ Hasty(x.of, card[x.of].updated)'
    BY DEF Latest
  <1>1. overlap \subseteq overlap'
    BY OverlapGrows
  <1>2. ASSUME x \in OnWay, card' = card
        PROVE  Hasty(x.of, x.card.updated)' /\ Hasty(x.of, card[x.of].updated)'
    <2>1. Hasty(x.of, x.card.updated) /\ Hasty(x.of, card[x.of].updated)
      BY <1>2 DEF Latest
    <2> QED BY <1>1, <1>2, <2>1 DEF Hasty
  <1>3. CASE UNCHANGED conVars
    BY <1>2, <1>3 DEF conVars, OnWay
  <1>4. ASSUME NEW p \in Persons, NEW f \in {"name", "avatar"}, NEW v \in Names, SetProfile(p, f, v)
        PROVE  Hasty(x.of, x.card.updated)' /\ Hasty(x.of, card[x.of].updated)'
    <2>1. PICK c, T :
             /\ c.updated = now + 1 /\ now \in Nat
             /\ card' = [card EXCEPT ![p] = c]
             /\ T = ToAll(MyDevices, <<p, 0>>, p, c) /\ mailed' = mailed \cup T
             /\ checked' = checked /\ overlap' = overlap \cup Meets(p, now + 1)
      BY <1>4, ProfileIs
    <2>2. card'[p] = c /\ \A q \in Persons \ {p} : card'[q] = card[q]
      BY <2>1 DEF Typed, ConTypeOK
    <2>3. \A m \in T : m.of = p /\ m.card = c
      BY <2>1, SentAre
    <2>4. x \in OnWay
      BY <2>1, <2>2, <2>3 DEF OnWay
    <2>5. x.of \in Persons /\ x.card.updated \in 1..card[x.of].updated /\ card[x.of].updated \in 0..now
      BY <2>4 DEF OnWay, Typed, ConTypeOK, DatedCards
    <2>6. CASE x.of = p
      <3>1. PICK o : o = <<p, now + 1, x.of, x.card.updated>>
        OBVIOUS
      <3>2. o \in overlap'
        BY <2>1, <2>4, <3>1 DEF Meets
      <3>3. o[1] = p /\ o[2] = now + 1 /\ o[3] = p /\ o[4] = x.card.updated /\ o[2] # o[4]
        BY <2>1, <2>5, <2>6, <3>1
      <3>4. card'[x.of].updated = now + 1
        BY <2>1, <2>2, <2>6
      <3> QED BY <2>6, <3>2, <3>3, <3>4 DEF Hasty
    <2>7. CASE x.of # p
      <3>1. card'[x.of] = card[x.of]
        BY <2>2, <2>5, <2>7
      <3>2. Hasty(x.of, x.card.updated) /\ Hasty(x.of, card[x.of].updated)
        BY <2>4, <3>1 DEF Latest
      <3> QED BY <1>1, <3>1, <3>2 DEF Hasty
    <2> QED BY <2>6, <2>7
  <1>5. CASE Pass
    BY <1>2, <1>5 DEF Pass, OnWay
  <1>6. ASSUME NEW d \in MyDevices, NEW p \in Persons, AddContact(d, p)
        PROVE  Hasty(x.of, x.card.updated)' /\ Hasty(x.of, card[x.of].updated)'
    <2>1. \A m \in ToAll({d}, <<d, -1>>, p, card[p]) : m.of = p /\ m.card = card[p]
      BY SentAre
    <2> QED BY <1>2, <1>6, <2>1 DEF AddContact, OnWay
  <1>7. ASSUME NEW m \in mailed, CheckPeer(m)
        PROVE  Hasty(x.of, x.card.updated)' /\ Hasty(x.of, card[x.of].updated)'
    <2>1. \E y \in OnWay : y.of = x.of /\ y.card = x.card
      <3>1. mailed' = mailed \ {m}
        BY <1>7, CheckIs
      <3>2. \/ checked' = checked
            \/ \E h : checked' = checked \cup {h} /\ h.of = m.of /\ h.card = m.card
        BY <1>7, CheckIs
      <3> QED BY <3>1, <3>2 DEF OnWay
    <2>2. card' = card
      BY <1>7, CheckIs
    <2>3. Hasty(x.of, x.card.updated) /\ Hasty(x.of, card[x.of].updated)
      BY <2>1, <2>2 DEF Latest
    <2> QED BY <1>1, <2>2, <2>3 DEF Hasty
  <1>8. ASSUME NEW h \in checked, StorePeer(h)
        PROVE  Hasty(x.of, x.card.updated)' /\ Hasty(x.of, card[x.of].updated)'
    <2>1. checked' = checked \ {h} /\ card' = card
      BY <1>8, StoreIs
    <2>2. \E y \in OnWay : y.of = x.of /\ y.card = x.card
      <3>1. CASE mailed' = mailed
        BY <2>1, <3>1 DEF OnWay
      <3>2. CASE mailed' # mailed
        <4>1. PICK e, T : /\ T = ToAll(MyDevices \ {h.to}, <<h.to, echoes[e]>>, h.of, h.card)
                          /\ mailed' = mailed \cup T
          BY <1>8, <3>2, StoreIs
        <4>2. \A k \in T : k.of = h.of /\ k.card = h.card
          BY <4>1, SentAre
        <4> QED BY <2>1, <4>1, <4>2 DEF OnWay
      <3> QED BY <3>1, <3>2
    <2>3. Hasty(x.of, x.card.updated) /\ Hasty(x.of, card[x.of].updated)
      BY <2>1, <2>2 DEF Latest
    <2> QED BY <1>1, <2>1, <2>3 DEF Hasty
  <1>9. ASSUME NEW d \in MyDevices, RemoveContact(d)
        PROVE  Hasty(x.of, x.card.updated)' /\ Hasty(x.of, card[x.of].updated)'
    BY <1>2, <1>9 DEF RemoveContact, OnWay
  <1> QED BY <1>3, <1>4, <1>5, <1>6, <1>7, <1>8, <1>9 DEF ConNext

\* No other card of p is on its way than its own.
OnlyCard(p) == \A x \in OnWay : x.of = p => x.card = card[p]

LEMMA LatestOnly ==
    ASSUME Latest, NEW p \in Persons, ~Hasty(p, card[p].updated)
    PROVE  OnlyCard(p)
  BY DEF Latest, OnlyCard

\* A card that met nothing in the end has met nothing so far.
LEMMA HastySame ==
    ASSUME overlap \subseteq overlap', NEW p \in Persons, card'[p] = card[p]
    PROVE  /\ Hasty(p, card[p].updated) => Hasty(p, card[p].updated)'
           /\ Repeated(p, card[p].updated) => Repeated(p, card[p].updated)'
           /\ Hasty(p, card[p].updated) => Repeated(p, card[p].updated)
  <1>1. Hasty(p, card[p].updated) => Hasty(p, card[p].updated)'
    BY DEF Hasty
  <1>2. Repeated(p, card[p].updated) => Repeated(p, card[p].updated)'
    BY DEF Repeated
  <1>3. Hasty(p, card[p].updated) => Repeated(p, card[p].updated)
    BY DEF Hasty, Repeated
  <1> QED BY <1>1, <1>2, <1>3

\* A row that says what the card says.
LEMMA SaysIs ==
    ASSUME NEW a, NEW b
    PROVE  PeersEqual(a, b) <=> Says(a) = Says(b)
  BY DEF PeersEqual, Says

\* A device that was told is told until it has stored the card.
LEMMA ComingKept ==
    ASSUME Typed, NEW d \in MyDevices, NEW p \in Persons, Coming(d, p),
           card'[p] = card[p], known'[d][p] = known[d][p],
           MailsTo(d, p) \subseteq mailed',
           \A h \in checked : h.to = d /\ h.of = p => h \in checked'
    PROVE  Coming(d, p)'
  <1>1. \A m \in mailed' : m.to = d /\ m.of = p <=> m \in MailsTo(d, p)'
    BY DEF MailsTo
  <1>2. MailsTo(d, p) \subseteq MailsTo(d, p)'
    BY DEF MailsTo
  <1> QED BY <1>2 DEF Coming

LEMMA ConArriving ==
    ASSUME Typed, DatedCards, DatedRows, Latest, Arriving, [ConNext]_conVars
    PROVE  Arriving'
  <1>1. habit' = habit /\ overlap \subseteq overlap' /\ removed \subseteq removed'
    BY OverlapGrows
  <1> SUFFICES ASSUME NoneAhead', NEW d \in MyDevices \ removed', NEW p \in Persons,
                      ~Hasty(p, card[p].updated)'
               PROVE  Coming(d, p)'
    BY DEF Arriving
  <1>2. NoneAhead /\ d \in MyDevices \ removed
    BY <1>1 DEF NoneAhead
  <1>0. ASSUME card'[p] = card[p] PROVE Coming(d, p) /\ OnlyCard(p)
    <2>1. ~Hasty(p, card[p].updated)
      BY <1>0, <1>1, HastySame
    <2> QED BY <1>2, <2>1, LatestOnly DEF Arriving
  <1>3. CASE UNCHANGED conVars
    BY <1>0, <1>3 DEF Coming, MailsTo, conVars
  <1>4. ASSUME NEW q \in Persons, NEW f \in {"name", "avatar"}, NEW v \in Names, SetProfile(q, f, v)
        PROVE  Coming(d, p)'
    <2>1. PICK c \in Card :
             /\ now' = now + 1 /\ c.updated = now + 1 /\ now \in Nat
             /\ card' = [card EXCEPT ![q] = c]
             /\ mailed' = mailed \cup ToAll(MyDevices, <<q, 0>>, q, c)
             /\ UNCHANGED <<known, checked>>
      BY <1>4, ProfileIs
    <2>2. CASE q = p
      <3>1. card'[p] = c
        BY <2>1, <2>2 DEF Typed, ConTypeOK
      <3>2. PICK m : m = [to |-> d, from |-> <<q, 0>>, of |-> q, card |-> c]
        OBVIOUS
      <3>3. m \in mailed' /\ m.to = d /\ m.of = p
        BY <2>1, <2>2, <3>2, SentAre
      <3>4. MailsTo(d, p)' # {}
        BY <3>3 DEF MailsTo
      <3>5. known[d][p].updated <= now /\ known[d][p].updated \in Int
        BY <1>2 DEF DatedRows, Typed, ConTypeOK, Card
      <3> QED BY <2>1, <3>1, <3>4, <3>5 DEF Coming
    <2>3. CASE q # p
      <3>1. card'[p] = card[p]
        BY <2>1, <2>3 DEF Typed, ConTypeOK
      <3>2. MailsTo(d, p) \subseteq mailed'
        BY <2>1 DEF MailsTo
      <3> QED BY <1>0, <1>2, <2>1, <3>1, <3>2, ComingKept
    <2> QED BY <2>2, <2>3
  <1>5. CASE Pass
    BY <1>0, <1>2, <1>5, ComingKept DEF Pass, MailsTo
  <1>6. ASSUME NEW a \in MyDevices, NEW q \in Persons, AddContact(a, q) PROVE Coming(d, p)'
    <2>1. MailsTo(d, p) \subseteq mailed' /\ UNCHANGED <<card, known, checked>>
      BY <1>6 DEF AddContact, MailsTo
    <2> QED BY <1>0, <1>2, <2>1, ComingKept
  <1>7. ASSUME NEW m \in mailed, CheckPeer(m) PROVE Coming(d, p)'
    <2>1. /\ mailed' = mailed \ {m} /\ UNCHANGED <<now, card, known>>
          /\ checked \subseteq checked'
      BY <1>7, CheckIs
    <2>2. CASE m.to = d /\ m.of = p
      <3>1. CASE \E h \in checked' : h.to = d /\ h.of = p
        BY <3>1 DEF Coming
      <3>2. CASE ~\E h \in checked' : h.to = d /\ h.of = p
        <4>1. ~IsNewer(known[d][p], m.card)
          BY <1>7, <2>2, <3>2, CheckIs
        <4>2. known[d][p].updated > m.card.updated /\ m.card = card[p]
          BY <1>0, <2>1, <2>2, <4>1 DEF IsNewer, OnlyCard, OnWay
        <4>3. known[d][p].updated \in Int /\ card[p].updated \in Int
          BY DEF Typed, ConTypeOK, Card
        <4>4. card[p].updated > 0 => Says(known[d][p]) = Says(card[p])
          BY <1>0, <2>1, <3>2, <4>2, <4>3 DEF Coming
        <4> QED BY <2>1, <4>4 DEF Coming
      <3> QED BY <3>1, <3>2
    <2>3. CASE ~(m.to = d /\ m.of = p)
      <3>1. MailsTo(d, p) \subseteq mailed'
        BY <2>1, <2>3 DEF MailsTo
      <3> QED BY <1>0, <1>2, <2>1, <3>1, ComingKept
    <2> QED BY <2>2, <2>3
  <1>8. ASSUME NEW h \in checked, StorePeer(h) PROVE Coming(d, p)'
    <2>1. /\ checked' = checked \ {h} /\ UNCHANGED <<now, card>>
          /\ \A a \in MyDevices, q \in Persons :
                known'[a][q] = IF a = h.to /\ q = h.of THEN Stamped(h) ELSE known[a][q]
      BY <1>8, StoreIs
    <2>4. mailed \subseteq mailed'
      BY <1>8 DEF StorePeer
    <2>2. CASE d = h.to /\ p = h.of
      <3>1. h.card = card[p]
        BY <1>0, <2>1, <2>2 DEF OnlyCard, OnWay
      <3>2. PeersEqual(Stamped(h), h.card)
        BY StampedType DEF Typed
      <3>3. Says(known'[d][p]) = Says(card'[p])
        BY <2>1, <2>2, <3>1, <3>2, SaysIs
      <3> QED BY <3>3 DEF Coming
    <2>3. CASE ~(d = h.to /\ p = h.of)
      <3>1. MailsTo(d, p) \subseteq mailed'
        BY <2>4 DEF MailsTo
      <3>2. known'[d][p] = known[d][p]
        BY <2>1, <2>3
      <3>3. \A k \in checked : k.to = d /\ k.of = p => k \in checked'
        BY <2>1, <2>3
      <3> QED BY <1>0, <1>2, <2>1, <3>1, <3>2, <3>3, ComingKept
    <2> QED BY <2>2, <2>3
  <1>9. ASSUME NEW a \in MyDevices, RemoveContact(a) PROVE Coming(d, p)'
    <2>1. UNCHANGED <<card, mailed, checked>> /\ a # d
      BY <1>9 DEF RemoveContact
    <2>2. known'[d][p] = known[d][p]
      BY <1>2, <1>9, <2>1 DEF RemoveContact, Typed, ConTypeOK
    <2>3. MailsTo(d, p) \subseteq mailed'
      BY <2>1 DEF MailsTo
    <2> QED BY <1>0, <1>2, <2>1, <2>2, <2>3, ComingKept
  <1> QED BY <1>3, <1>4, <1>5, <1>6, <1>7, <1>8, <1>9 DEF ConNext

-----------------------------------------------------------------------------
(* Announcements of one card                                                 *)

\* What is counted of a person.
LEMMA CountsAre ==
    ASSUME Typed, DatedCards, NEW p \in Persons
    PROVE  /\ HaveCard(p) \in SUBSET MyDevices
           /\ Made(p) \in Counts /\ Due(p) \in Counts /\ Mails(p) \in Counts
           /\ \A d \in MyDevices :
                 /\ EchoesOf(d, p) \in Nat /\ Made(p)[d] = EchoesOf(d, p)
                 /\ IsFiniteSet(NewsAt(d, p)) /\ Cardinality(NewsAt(d, p)) \in Nat
                 /\ Due(p)[d] = EchoesOf(d, p) + Cardinality(NewsAt(d, p))
                 /\ IsFiniteSet(MailsTo(d, p)) /\ Cardinality(MailsTo(d, p)) \in Nat
                 /\ Mails(p)[d] = Cardinality(MailsTo(d, p))
  <1>1. ASSUME NEW d \in MyDevices
        PROVE  /\ EchoesOf(d, p) \in Nat
               /\ IsFiniteSet(NewsAt(d, p)) /\ Cardinality(NewsAt(d, p)) \in Nat
               /\ IsFiniteSet(MailsTo(d, p)) /\ Cardinality(MailsTo(d, p)) \in Nat
    <2>1. card[p].updated \in 0..MaxNow
      BY ContactsAssumption DEF DatedCards, Typed, ConTypeOK
    <2>2. EchoesOf(d, p) \in Nat
      BY <2>1 DEF EchoesOf, Typed, ConTypeOK
    <2>3. NewsAt(d, p) \subseteq checked /\ MailsTo(d, p) \subseteq mailed
      BY DEF NewsAt, MailsTo
    <2>4. IsFiniteSet(NewsAt(d, p)) /\ IsFiniteSet(MailsTo(d, p))
      BY <2>3, FS_Subset DEF Typed
    <2> QED BY <2>2, <2>4, FS_CardinalityType
  <1>2. HaveCard(p) \in SUBSET MyDevices
    BY DEF HaveCard
  <1> QED BY <1>1, <1>2 DEF Made, Due, Mails, Counts

LEMMA CountsNext ==
    ASSUME Typed', DatedCards', NEW p \in Persons
    PROVE  /\ HaveCard(p)' \in SUBSET MyDevices
           /\ Made(p)' \in Counts /\ Due(p)' \in Counts /\ Mails(p)' \in Counts
           /\ \A d \in MyDevices :
                 /\ Made(p)'[d] = EchoesOf(d, p)'
                 /\ Due(p)'[d] = EchoesOf(d, p)' + Cardinality(NewsAt(d, p)')
                 /\ Mails(p)'[d] = Cardinality(MailsTo(d, p)')
  <1>1. ASSUME NEW d \in MyDevices
        PROVE  /\ EchoesOf(d, p)' \in Nat /\ Cardinality(NewsAt(d, p)') \in Nat
               /\ Cardinality(MailsTo(d, p)') \in Nat
    <2>1. card'[p].updated \in 0..MaxNow
      BY ContactsAssumption DEF DatedCards, Typed, ConTypeOK
    <2>2. EchoesOf(d, p)' \in Nat
      BY <2>1 DEF EchoesOf, Typed, ConTypeOK
    <2>3. NewsAt(d, p)' \subseteq checked' /\ MailsTo(d, p)' \subseteq mailed'
      BY DEF NewsAt, MailsTo
    <2>4. IsFiniteSet(checked') /\ IsFiniteSet(mailed')
      BY DEF Typed
    <2>5. IsFiniteSet(NewsAt(d, p)') /\ IsFiniteSet(MailsTo(d, p)')
      BY <2>3, <2>4, FS_Subset
    <2> QED BY <2>2, <2>5, FS_CardinalityType
  <1>2. HaveCard(p)' \in SUBSET MyDevices
    BY DEF HaveCard
  <1> QED BY <1>1, <1>2 DEF Made, Due, Mails, Counts

LEMMA RoundNext ==
    ASSUME NEW p, NEW S, NEW made, NEW due, NEW mails, Bounded(S, made, due, mails),
           S = HaveCard(p)', made = Made(p)', due = Due(p)', mails = Mails(p)'
    PROVE  Bounded(HaveCard(p), Made(p), Due(p), Mails(p))'
  BY DEF Bounded

\* Nothing happens to what is counted of p.
LEMMA RoundSame ==
    ASSUME NEW p \in Persons, Bounded(HaveCard(p), Made(p), Due(p), Mails(p)),
           card'[p] = card[p], \A d \in MyDevices : known'[d][p] = known[d][p],
           \A d \in MyDevices : EchoesOf(d, p)' = EchoesOf(d, p),
           \A d \in MyDevices : MailsTo(d, p)' = MailsTo(d, p),
           \A d \in MyDevices : NewsAt(d, p)' = NewsAt(d, p)
    PROVE  Bounded(HaveCard(p), Made(p), Due(p), Mails(p))'
  <1>1. HaveCard(p)' = HaveCard(p)
    BY DEF HaveCard
  <1>2. Made(p)' = Made(p)
    BY DEF Made
  <1>3. Due(p)' = Due(p)
    BY DEF Due
  <1>4. Mails(p)' = Mails(p)
    BY DEF Mails
  <1>5. PICK S, made, due, mails : S = HaveCard(p) /\ made = Made(p) /\ due = Due(p) /\ mails = Mails(p)
    OBVIOUS
  <1>6. Bounded(S, made, due, mails)
    BY <1>5
  <1> QED BY <1>1, <1>2, <1>3, <1>4, <1>5, <1>6, RoundNext

\* One announcement at most.
LEMMA OneAtMost ==
    ASSUME NEW T, NEW m, \A x \in T : x = m
    PROVE  Cardinality(T) <= 1 /\ Cardinality(T) \in Nat
  <1>1. CASE T = {}
    BY <1>1, FS_EmptySet
  <1>2. CASE T # {}
    <2>1. T = {m}
      BY <1>2
    <2>2. Cardinality(T) = 1
      BY <2>1, FS_Singleton
    <2> QED BY <2>2
  <1> QED BY <1>1, <1>2

LEMMA ProfileRound ==
    ASSUME Typed, DatedCards, Typed', DatedCards', NEW p \in Persons,
           card'[p] = card[p] => Bounded(HaveCard(p), Made(p), Due(p), Mails(p)),
           ~Repeated(p, card[p].updated)',
           NEW q \in Persons, NEW f \in {"name", "avatar"}, NEW v \in Names, SetProfile(q, f, v)
    PROVE  Bounded(HaveCard(p), Made(p), Due(p), Mails(p))'
  <1>1. PICK c \in Card :
             /\ now' = now + 1 /\ c.updated = now + 1 /\ now \in Nat
             /\ card' = [card EXCEPT ![q] = c]
             /\ mailed' = mailed \cup ToAll(MyDevices, <<q, 0>>, q, c)
             /\ UNCHANGED <<known, checked, echoes>>
             /\ overlap' = overlap \cup Meets(q, now + 1)
    BY ProfileIs
  <1>4. ASSUME q = p, NEW x \in OnWay, x.of = p PROVE FALSE
    <2>1. PICK o : o = <<p, now + 1, x.of, x.card.updated>>
      OBVIOUS
    <2>2. o \in overlap'
      BY <1>1, <1>4, <2>1 DEF Meets
    <2>3. o[1] = p /\ o[2] = now + 1 /\ o[3] = p
      BY <1>4, <2>1
    <2>4. card'[p].updated = now + 1
      BY <1>1, <1>4 DEF Typed, ConTypeOK
    <2> QED BY <2>2, <2>3, <2>4 DEF Repeated
  <1>2. CASE q = p
    <2>1. PICK S, made, due, mails :
              S = HaveCard(p)' /\ made = Made(p)' /\ due = Due(p)' /\ mails = Mails(p)'
      OBVIOUS
    <2>2. S \in SUBSET MyDevices /\ made \in Counts /\ due \in Counts /\ mails \in Counts
      BY <2>1, CountsNext
    <2>3. ASSUME NEW d \in MyDevices PROVE made[d] = 0 /\ due[d] = 0 /\ mails[d] <= 1
      <3>1. EchoesOf(d, p)' = 0
        <4>1. PICK e : e = <<d, p, now + 1>>
          OBVIOUS
        <4>2. now + 1 \in 0..MaxNow /\ card[p].updated \in 0..now
          BY <1>1 DEF Typed, ConTypeOK, DatedCards
        <4>3. e \in DOMAIN echoes /\ e[2] = p /\ e[3] = now + 1
          BY <4>1, <4>2 DEF Typed, ConTypeOK
        <4>4. e[3] > card[e[2]].updated
          BY <1>1, <4>2, <4>3
        <4>5. echoes[e] = 0
          BY <4>3, <4>4 DEF DatedCards
        <4>6. card'[p].updated = now + 1
          BY <1>1, <1>2 DEF Typed, ConTypeOK
        <4> QED BY <1>1, <4>1, <4>5, <4>6 DEF EchoesOf
      <3>2. NewsAt(d, p)' = {}
        BY <1>1, <1>2, <1>4 DEF NewsAt, OnWay
      <3>3. Cardinality(NewsAt(d, p)') = 0
        BY <3>2, FS_EmptySet
      <3>4. PICK m : m = [to |-> d, from |-> <<q, 0>>, of |-> q, card |-> c]
        OBVIOUS
      <3>5. \A x \in MailsTo(d, p)' : x = m
        BY <1>1, <1>2, <1>4, <3>4 DEF MailsTo, ToAll, OnWay
      <3>6. PICK T : T = MailsTo(d, p)'
        OBVIOUS
      <3>7. Cardinality(T) <= 1
        BY <3>5, <3>6, OneAtMost
      <3> QED BY <2>1, <3>1, <3>3, <3>6, <3>7, CountsNext
    <2>4. Bounded(S, made, due, mails)
      BY <2>2, <2>3, RoundBegins
    <2> QED BY <2>1, <2>4, RoundNext
  <1>3. CASE q # p
    <2>1. card'[p] = card[p]
      BY <1>1, <1>3 DEF Typed, ConTypeOK
    <2>2. \A d \in MyDevices : EchoesOf(d, p)' = EchoesOf(d, p)
      BY <1>1, <2>1 DEF EchoesOf
    <2>3. \A d \in MyDevices : MailsTo(d, p)' = MailsTo(d, p)
      <3>1. \A m \in ToAll(MyDevices, <<q, 0>>, q, c) : m.of = q
        BY SentAre
      <3> QED BY <1>1, <1>3, <3>1 DEF MailsTo
    <2>4. \A d \in MyDevices : NewsAt(d, p)' = NewsAt(d, p)
      BY <1>1 DEF NewsAt, SaysNew
    <2> QED BY <1>1, <2>1, <2>2, <2>3, <2>4, RoundSame
  <1> QED BY <1>2, <1>3

\* The card is sent again when the announcements of its person are handled.
LEMMA RoundAgain ==
    ASSUME NEW S \in SUBSET MyDevices, NEW made \in Counts, NEW due \in Counts,
           NEW mails, NEW mails2 \in Counts,
           Bounded(S, made, due, mails),
           \A d \in MyDevices : due[d] = made[d] /\ mails2[d] <= 1
    PROVE  Bounded(S, made, due, mails2)
  <1>1. IsFiniteSet(S)
    BY DevicesFinite
  <1>2. Cardinality(Each(S, made)) \in Nat
    BY <1>1, EachGrow DEF Counts
  <1>3. ASSUME NEW d \in MyDevices \ S
        PROVE  made[d] = 0 /\ mails2[d] + due[d] <= 1 + Cardinality(Each(S, made))
    <2>1. made[d] = 0 /\ due[d] = 0 /\ mails2[d] \in Nat /\ mails2[d] <= 1
      BY DEF Bounded, Counts
    <2> QED BY <1>2, <2>1
  <1> QED BY <1>3 DEF Bounded

LEMMA AddRound ==
    ASSUME Typed, DatedCards, Typed', DatedCards', NEW p \in Persons,
           Bounded(HaveCard(p), Made(p), Due(p), Mails(p)), ~Repeated(p, card[p].updated)',
           NEW a \in MyDevices, NEW q \in Persons, AddContact(a, q)
    PROVE  Bounded(HaveCard(p), Made(p), Due(p), Mails(p))'
  <1>1. /\ mailed' = mailed \cup ToAll({a}, <<a, -1>>, q, card[q])
        /\ UNCHANGED <<habit, now, card, known, checked, echoes>>
        /\ overlap' = overlap \cup Meets(q, card[q].updated)
    BY DEF AddContact
  <1>5. ASSUME q = p, NEW x \in OnWay, x.of = p PROVE FALSE
    <2>1. PICK o : o = <<p, card[p].updated, x.of, x.card.updated>>
      OBVIOUS
    <2>2. o \in overlap'
      BY <1>1, <1>5, <2>1 DEF Meets
    <2>3. o[1] = p /\ o[2] = card'[p].updated /\ o[3] = p
      BY <1>1, <1>5, <2>1
    <2> QED BY <2>2, <2>3 DEF Repeated
  <1>2. \A d \in MyDevices : EchoesOf(d, p)' = EchoesOf(d, p) /\ NewsAt(d, p)' = NewsAt(d, p)
    BY <1>1 DEF EchoesOf, NewsAt, SaysNew
  <1>3. CASE q # p
    <2>1. \A d \in MyDevices : MailsTo(d, p)' = MailsTo(d, p)
      <3>1. \A m \in ToAll({a}, <<a, -1>>, q, card[q]) : m.of = q
        BY SentAre
      <3> QED BY <1>1, <1>3, <3>1 DEF MailsTo
    <2> QED BY <1>1, <1>2, <2>1, RoundSame
  <1>4. CASE q = p
    <2>1. PICK S, made, due, mails, mails2 :
              /\ S = HaveCard(p) /\ made = Made(p) /\ due = Due(p) /\ mails = Mails(p)
              /\ mails2 = Mails(p)'
      OBVIOUS
    <2>2. S \in SUBSET MyDevices /\ made \in Counts /\ due \in Counts
      BY <2>1, CountsAre
    <2>3. mails2 \in Counts
      BY <2>1, CountsNext
    <2>4. ASSUME NEW d \in MyDevices PROVE due[d] = made[d] /\ mails2[d] <= 1
      <3>1. NewsAt(d, p) = {}
        BY <1>4, <1>5 DEF NewsAt, OnWay
      <3>2. Cardinality(NewsAt(d, p)) = 0
        BY <3>1, FS_EmptySet
      <3>3. due[d] = made[d]
        BY <2>1, <3>2, CountsAre
      <3>4. PICK m : m = [to |-> a, from |-> <<a, -1>>, of |-> q, card |-> card[q]]
        OBVIOUS
      <3>5. \A x \in MailsTo(d, p)' : x = m
        BY <1>1, <1>4, <1>5, <3>4 DEF MailsTo, ToAll, OnWay
      <3>6. PICK T : T = MailsTo(d, p)'
        OBVIOUS
      <3>7. Cardinality(T) <= 1
        BY <3>5, <3>6, OneAtMost
      <3>8. mails2[d] <= 1
        BY <2>1, <3>6, <3>7, CountsNext
      <3> QED BY <3>3, <3>8
    <2>5. Bounded(S, made, due, mails)
      BY <2>1
    <2>6. Bounded(S, made, due, mails2)
      BY <2>2, <2>3, <2>4, <2>5, RoundAgain
    <2>7. S = HaveCard(p)'
      BY <1>1, <2>1 DEF HaveCard
    <2>8. made = Made(p)' /\ due = Due(p)'
      BY <1>2, <2>1 DEF Made, Due
    <2> QED BY <2>1, <2>6, <2>7, <2>8, RoundNext
  <1> QED BY <1>3, <1>4

LEMMA CheckRound ==
    ASSUME Typed, DatedCards, Typed', DatedCards', NEW p \in Persons, OnlyCard(p),
           Bounded(HaveCard(p), Made(p), Due(p), Mails(p)),
           NEW m \in mailed, CheckPeer(m)
    PROVE  Bounded(HaveCard(p), Made(p), Due(p), Mails(p))'
  <1>1. /\ mailed' = mailed \ {m} /\ UNCHANGED <<habit, now, card, known, echoes>>
        /\ m.to \in MyDevices
    BY CheckIs
  <1>2. \/ checked' = checked
        \/ \E h : /\ checked' = checked \cup {h} /\ h.to = m.to /\ h.of = m.of
                  /\ h.card = m.card /\ h.old = known[m.to][m.of]
    BY CheckIs
  <1>3. \A d \in MyDevices : EchoesOf(d, p)' = EchoesOf(d, p)
    BY <1>1 DEF EchoesOf
  <1>4. \A d \in MyDevices : d # m.to \/ p # m.of =>
           MailsTo(d, p)' = MailsTo(d, p) /\ NewsAt(d, p)' = NewsAt(d, p)
    <2>1. ASSUME NEW d \in MyDevices, d # m.to \/ p # m.of PROVE MailsTo(d, p)' = MailsTo(d, p)
      BY <1>1, <2>1 DEF MailsTo
    <2>2. ASSUME NEW d \in MyDevices, d # m.to \/ p # m.of PROVE NewsAt(d, p)' = NewsAt(d, p)
      BY <1>2, <2>2 DEF NewsAt, SaysNew
    <2> QED BY <2>1, <2>2
  <1>5. CASE p # m.of
    BY <1>1, <1>3, <1>4, <1>5, RoundSame
  <1>6. CASE p = m.of
    <2>1. PICK S, made, due, mails, due2, mails2 :
              /\ S = HaveCard(p) /\ made = Made(p) /\ due = Due(p) /\ mails = Mails(p)
              /\ due2 = Due(p)' /\ mails2 = Mails(p)'
      OBVIOUS
    <2>2. S \in SUBSET MyDevices /\ made \in Counts /\ due \in Counts /\ mails \in Counts
      BY <2>1, CountsAre
    <2>3. due2 \in Counts /\ mails2 \in Counts
      BY <2>1, CountsNext
    <2>4. ASSUME NEW d \in MyDevices, d # m.to PROVE due2[d] = due[d] /\ mails2[d] = mails[d]
      BY <1>3, <1>4, <2>1, <2>4, CountsAre, CountsNext
    <2>5. mails2[m.to] + 1 = mails[m.to]
      <3>1. MailsTo(m.to, p)' = MailsTo(m.to, p) \ {m} /\ m \in MailsTo(m.to, p)
        BY <1>1, <1>6 DEF MailsTo
      <3>2. PICK T : T = MailsTo(m.to, p)
        OBVIOUS
      <3>3. IsFiniteSet(T) /\ Cardinality(T) \in Nat
        BY <1>1, <3>2, CountsAre
      <3>4. Cardinality(T \ {m}) = Cardinality(T) - 1
        BY <3>1, <3>2, <3>3, FS_RemoveElement
      <3>5. mails[m.to] = Cardinality(T) /\ mails2[m.to] = Cardinality(T \ {m})
        BY <1>1, <2>1, <3>1, <3>2, CountsAre, CountsNext
      <3> QED BY <3>3, <3>4, <3>5
    <2>6. due2[m.to] <= due[m.to] + 1 /\ (m.to \in S => due2[m.to] <= due[m.to])
      <3>1. PICK n, T, U : /\ n \in Nat /\ n = EchoesOf(m.to, p) /\ T = NewsAt(m.to, p)
                              /\ U = NewsAt(m.to, p)'
        BY <1>1, CountsAre
      <3>2. IsFiniteSet(T) /\ Cardinality(T) \in Nat
        BY <1>1, <3>1, CountsAre
      <3>3. due[m.to] = n + Cardinality(T)
        BY <1>1, <2>1, <3>1, CountsAre
      <3>4. due2[m.to] = n + Cardinality(U)
        BY <1>1, <1>3, <2>1, <3>1, CountsNext
      <3>5. CASE checked' = checked
        <4>1. T = U
          BY <1>1, <3>1, <3>5 DEF NewsAt, SaysNew
        <4> QED BY <3>1, <3>2, <3>3, <3>4, <4>1
      <3>6. CASE checked' # checked
        <4>1. PICK h : /\ checked' = checked \cup {h} /\ h.to = m.to /\ h.of = m.of
                       /\ h.card = m.card /\ h.old = known[m.to][m.of]
          BY <1>2, <3>6
        <4>2. U \subseteq T \cup {h}
          BY <3>1, <4>1 DEF NewsAt
        <4>3. Cardinality(T \cup {h}) <= Cardinality(T) + 1 /\ IsFiniteSet(T \cup {h})
              /\ Cardinality(T \cup {h}) \in Nat
          <5>1. IsFiniteSet(T \cup {h})
            BY <3>2, FS_AddElement
          <5>2. Cardinality(T \cup {h}) = Cardinality(T) \/ Cardinality(T \cup {h}) = Cardinality(T) + 1
            BY <3>2, FS_AddElement
          <5> QED BY <3>2, <5>1, <5>2
        <4>4. Cardinality(U) <= Cardinality(T \cup {h}) /\ Cardinality(U) \in Nat
          <5>1. IsFiniteSet(U) /\ Cardinality(U) <= Cardinality(T \cup {h})
            BY <4>2, <4>3, FS_Subset
          <5> QED BY <5>1, FS_CardinalityType
        <4>5. due2[m.to] <= due[m.to] + 1
          BY <3>1, <3>2, <3>3, <3>4, <4>3, <4>4
        <4>6. ASSUME m.to \in S PROVE due2[m.to] <= due[m.to]
          <5>1. m.card = card[p]
            BY <1>6 DEF OnlyCard, OnWay
          <5>2. known[m.to][p] # NoCard /\ PeersEqual(known[m.to][p], card[p])
            BY <2>1, <4>6 DEF HaveCard
          <5>3. ~SaysNew(h)
            BY <1>6, <4>1, <5>1, <5>2 DEF SaysNew
          <5>4. U = T
            BY <3>1, <4>1, <5>3 DEF NewsAt
          <5> QED BY <3>1, <3>2, <3>3, <3>4, <5>4
        <4> QED BY <4>5, <4>6
      <3> QED BY <3>5, <3>6
    <2>7. \A d \in S : due2[d] <= due[d]
      BY <2>2, <2>3, <2>4, <2>6 DEF Counts
    <2>8. \A d \in MyDevices \ S : mails2[d] + due2[d] <= mails[d] + due[d]
      <3>1. \A d \in MyDevices : /\ mails[d] \in Nat /\ mails2[d] \in Nat
                                 /\ due[d] \in Nat /\ due2[d] \in Nat
        BY <2>2, <2>3 DEF Counts
      <3> QED BY <2>4, <2>5, <2>6, <3>1
    <2>9. Bounded(S, made, due, mails)
      BY <2>1
    <2>10. Bounded(S, made, due2, mails2)
      BY <2>2, <2>3, <2>7, <2>8, <2>9, RoundHears
    <2>11. S = HaveCard(p)' /\ made = Made(p)'
      BY <1>1, <1>3, <2>1 DEF HaveCard, Made
    <2> QED BY <2>1, <2>10, <2>11, RoundNext
  <1> QED BY <1>5, <1>6

\* What h is of is told to the others.
LEMMA StoreOthers ==
    ASSUME Typed, DatedCards, NEW h \in checked, StorePeer(h), NEW p \in Persons, p # h.of,
           Bounded(HaveCard(p), Made(p), Due(p), Mails(p))
    PROVE  Bounded(HaveCard(p), Made(p), Due(p), Mails(p))'
  <1>1. checked' = checked \ {h} /\ UNCHANGED <<habit, now, card>>
    BY StoreIs
  <1>2. \A d \in MyDevices : known'[d][p] = known[d][p]
    <2>1. ASSUME NEW d \in MyDevices
          PROVE  known'[d][p] = IF d = h.to /\ p = h.of THEN Stamped(h) ELSE known[d][p]
      BY StoreKnown
    <2> QED BY <2>1
  <1>3. \A d \in MyDevices : NewsAt(d, p)' = NewsAt(d, p)
    BY <1>1 DEF NewsAt, SaysNew
  <1>4. CASE mailed' = mailed /\ echoes' = echoes
    <2>1. \A d \in MyDevices : EchoesOf(d, p)' = EchoesOf(d, p) /\ MailsTo(d, p)' = MailsTo(d, p)
      BY <1>1, <1>4 DEF EchoesOf, MailsTo
    <2> QED BY <1>1, <1>2, <1>3, <2>1, RoundSame
  <1>5. CASE ~(mailed' = mailed /\ echoes' = echoes)
    <2>1. PICK e, T :
              /\ e = <<h.to, h.of, h.card.updated>>
              /\ T = ToAll(MyDevices \ {h.to}, <<h.to, echoes[e]>>, h.of, h.card)
              /\ mailed' = mailed \cup T
              /\ echoes' = [echoes EXCEPT ![e] = echoes[e] + 1]
      BY <1>5, StoreIs
    <2>2. ASSUME NEW d \in MyDevices PROVE EchoesOf(d, p)' = EchoesOf(d, p)
      <3>1. card[p].updated \in 0..MaxNow
        BY ContactsAssumption DEF DatedCards, Typed, ConTypeOK
      <3>2. PICK x : x = <<d, p, card[p].updated>>
        OBVIOUS
      <3>3. x \in DOMAIN echoes /\ x # e
        BY <2>1, <3>1, <3>2 DEF Typed, ConTypeOK
      <3> QED BY <1>1, <2>1, <3>2, <3>3 DEF EchoesOf
    <2>3. \A m \in T : m.of = h.of
      BY <2>1, SentAre
    <2>4. \A d \in MyDevices : MailsTo(d, p)' = MailsTo(d, p)
      BY <2>1, <2>3 DEF MailsTo
    <2> QED BY <1>1, <1>2, <1>3, <2>2, <2>4, RoundSame
  <1> QED BY <1>4, <1>5

\* Who has the card, and what is due, after it is stored.
LEMMA StoreHas ==
    ASSUME Typed, NEW h \in checked, StorePeer(h), h.card = card[h.of]
    PROVE  /\ HaveCard(h.of)' = HaveCard(h.of) \cup {h.to}
           /\ \A d \in MyDevices \ {h.to} : NewsAt(d, h.of)' = NewsAt(d, h.of)
           /\ NewsAt(h.to, h.of)' = IF SaysNew(h) THEN NewsAt(h.to, h.of) \ {h} ELSE NewsAt(h.to, h.of)
           /\ SaysNew(h) => h \in NewsAt(h.to, h.of)
  <1>1. /\ checked' = checked \ {h} /\ card' = card
        /\ h.to \in MyDevices /\ h.of \in Persons
    BY StoreIs
  <1>2. \A d \in MyDevices :
           known'[d][h.of] = IF d = h.to THEN Stamped(h) ELSE known[d][h.of]
    <2>1. \A d \in MyDevices, p \in Persons :
             known'[d][p] = IF d = h.to /\ p = h.of THEN Stamped(h) ELSE known[d][p]
      BY StoreIs
    <2> QED BY <1>1, <2>1
  <1>3. Stamped(h) # NoCard /\ PeersEqual(Stamped(h), card[h.of])
    BY StampedType DEF Typed
  <1>4. HaveCard(h.of)' = HaveCard(h.of) \cup {h.to}
    BY <1>1, <1>2, <1>3 DEF HaveCard
  <1>5. \A d \in MyDevices \ {h.to} : NewsAt(d, h.of)' = NewsAt(d, h.of)
    BY <1>1 DEF NewsAt, SaysNew
  <1>6. NewsAt(h.to, h.of)' = IF SaysNew(h) THEN NewsAt(h.to, h.of) \ {h} ELSE NewsAt(h.to, h.of)
    BY <1>1 DEF NewsAt, SaysNew
  <1>7. SaysNew(h) => h \in NewsAt(h.to, h.of)
    BY DEF NewsAt
  <1> QED BY <1>4, <1>5, <1>6, <1>7

LEMMA StoreRound ==
    ASSUME Typed, DatedCards, Typed', DatedCards', NEW h \in checked, StorePeer(h),
           h.card = card[h.of], Bounded(HaveCard(h.of), Made(h.of), Due(h.of), Mails(h.of))
    PROVE  Bounded(HaveCard(h.of), Made(h.of), Due(h.of), Mails(h.of))'
  <1>1. PICK p, d : p = h.of /\ d = h.to
    OBVIOUS
  <1>2. p \in Persons /\ d \in MyDevices /\ card' = card
    BY <1>1, StoreIs
  <1>3. PICK S, made, due, mails, S2, made2, due2, mails2 :
            /\ S = HaveCard(p) /\ made = Made(p) /\ due = Due(p) /\ mails = Mails(p)
            /\ S2 = HaveCard(p)' /\ made2 = Made(p)' /\ due2 = Due(p)' /\ mails2 = Mails(p)'
    OBVIOUS
  <1>4. S \in SUBSET MyDevices /\ made \in Counts /\ due \in Counts /\ mails \in Counts
    BY <1>2, <1>3, CountsAre
  <1>5. made2 \in Counts /\ due2 \in Counts /\ mails2 \in Counts
    BY <1>2, <1>3, CountsNext
  <1>6. S2 = S \cup {d}
    BY <1>1, <1>3, StoreHas
  <1>7. \A x \in MyDevices : made[x] <= due[x]
    <2>1. ASSUME NEW x \in MyDevices PROVE made[x] <= due[x]
      <3>1. PICK n, k : n \in Nat /\ k \in Nat /\ n = EchoesOf(x, p) /\ k = Cardinality(NewsAt(x, p))
        BY <1>2, CountsAre
      <3>2. made[x] = n /\ due[x] = n + k
        BY <1>2, <1>3, <3>1, CountsAre
      <3> QED BY <3>1, <3>2
    <2> QED BY <2>1
  <1>8. Bounded(S, made, due, mails)
    BY <1>1, <1>3
  <1>9. CASE mailed' = mailed /\ echoes' = echoes /\ ~SaysNew(h)
    <2>1. \A x \in MyDevices : EchoesOf(x, p)' = EchoesOf(x, p) /\ MailsTo(x, p)' = MailsTo(x, p)
      BY <1>2, <1>9 DEF EchoesOf, MailsTo
    <2>2. \A x \in MyDevices : NewsAt(x, p)' = NewsAt(x, p)
      BY <1>1, <1>9, StoreHas
    <2>3. made2 = made /\ due2 = due /\ mails2 = mails
      BY <1>3, <2>1, <2>2 DEF Made, Due, Mails
    <2>4. Bounded(S \cup {d}, made, due, mails)
      BY <1>2, <1>4, <1>7, <1>8, RoundStores
    <2>5. Bounded(S2, made2, due2, mails2)
      BY <1>6, <2>3, <2>4
    <2> QED BY <1>1, <1>3, <2>5, RoundNext
  <1>10. CASE SaysNew(h)
    <2>1. PICK e, T :
              /\ e = <<h.to, h.of, h.card.updated>>
              /\ T = ToAll(MyDevices \ {h.to}, <<h.to, echoes[e]>>, h.of, h.card)
              /\ mailed' = mailed \cup T
              /\ echoes' = [echoes EXCEPT ![e] = echoes[e] + 1]
      BY <1>10, StoreIs
    <2>2. e = <<d, p, card[p].updated>>
      BY <1>1, <2>1
    <2>3. e \in DOMAIN echoes
      <3>1. card[p].updated \in 0..MaxNow
        BY <1>2, ContactsAssumption DEF DatedCards, Typed, ConTypeOK
      <3> QED BY <1>2, <2>2, <3>1 DEF Typed, ConTypeOK
    <2>4. made2[d] = made[d] + 1
      <3>1. EchoesOf(d, p)' = EchoesOf(d, p) + 1
        BY <1>2, <2>1, <2>2, <2>3 DEF EchoesOf, Typed, ConTypeOK
      <3> QED BY <1>2, <1>3, <3>1, CountsAre, CountsNext
    <2>5. ASSUME NEW x \in MyDevices \ {d} PROVE EchoesOf(x, p)' = EchoesOf(x, p)
      <3>1. PICK y : y = <<x, p, card[p].updated>>
        OBVIOUS
      <3>2. y # e
        BY <2>2, <3>1
      <3>3. echoes'[y] = echoes[y]
        <4>1. card[p].updated \in 0..MaxNow
          BY <1>2, ContactsAssumption DEF DatedCards, Typed, ConTypeOK
        <4>2. y \in DOMAIN echoes
          BY <1>2, <3>1, <4>1 DEF Typed, ConTypeOK
        <4> QED BY <2>1, <3>2, <4>2
      <3> QED BY <1>2, <3>1, <3>3 DEF EchoesOf
    <2>6. ASSUME NEW x \in MyDevices \ {d} PROVE made2[x] = made[x] /\ mails2[x] <= mails[x] + 1
      <3>1. made2[x] = made[x]
        BY <1>2, <1>3, <2>5, CountsAre, CountsNext
      <3>2. PICK M, N : M = MailsTo(x, p) /\ N = MailsTo(x, p)'
        OBVIOUS
      <3>3. IsFiniteSet(M) /\ Cardinality(M) \in Nat /\ mails[x] = Cardinality(M)
        BY <1>2, <1>3, <3>2, CountsAre
      <3>4. mails2[x] = Cardinality(N)
        BY <1>2, <1>3, <3>2, CountsNext
      <3>5. PICK m : m = [to |-> x, from |-> <<h.to, echoes[e]>>, of |-> h.of, card |-> h.card]
        OBVIOUS
      <3>6. \A k \in T : k.to = x => k = m
        BY <2>1, <3>5 DEF ToAll
      <3>7. N \subseteq M \cup {m}
        BY <2>1, <3>2, <3>6 DEF MailsTo
      <3>8. IsFiniteSet(M \cup {m})
            /\ (Cardinality(M \cup {m}) = Cardinality(M) \/ Cardinality(M \cup {m}) = Cardinality(M) + 1)
        BY <3>3, FS_AddElement
      <3>9. IsFiniteSet(N) /\ Cardinality(N) <= Cardinality(M \cup {m})
        BY <3>7, <3>8, FS_Subset
      <3>10. Cardinality(N) \in Nat
        BY <3>9, FS_CardinalityType
      <3>11. Cardinality(N) <= Cardinality(M) + 1
        BY <3>3, <3>8, <3>9, <3>10
      <3> QED BY <3>1, <3>3, <3>4, <3>11
    <2>7. due2 = due
      <3>1. ASSUME NEW x \in MyDevices PROVE due2[x] = due[x]
        <4>1. CASE x # d
          <5>1. NewsAt(x, p)' = NewsAt(x, p)
            BY <1>1, <4>1, StoreHas
          <5>2. EchoesOf(x, p)' = EchoesOf(x, p)
            BY <2>5, <4>1
          <5> QED BY <1>2, <1>3, <5>1, <5>2, CountsAre, CountsNext
        <4>2. CASE x = d
          <5>1. PICK n, U : n = EchoesOf(d, p) /\ U = NewsAt(d, p)
            OBVIOUS
          <5>2. n \in Nat /\ IsFiniteSet(U) /\ Cardinality(U) \in Nat
            BY <1>2, <5>1, CountsAre
          <5>3. NewsAt(d, p)' = U \ {h} /\ h \in U
            BY <1>1, <1>10, <5>1, StoreHas
          <5>4. Cardinality(U \ {h}) = Cardinality(U) - 1
            BY <5>2, <5>3, FS_RemoveElement
          <5>5. EchoesOf(d, p)' = n + 1
            BY <1>2, <2>1, <2>2, <2>3, <5>1 DEF EchoesOf, Typed, ConTypeOK
          <5>6. due[d] = n + Cardinality(U)
            BY <1>2, <1>3, <5>1, CountsAre
          <5>7. due2[d] = (n + 1) + Cardinality(U \ {h})
            BY <1>2, <1>3, <5>3, <5>5, CountsNext
          <5>8. (n + 1) + (Cardinality(U) - 1) = n + Cardinality(U)
            BY <5>2
          <5> QED BY <4>2, <5>4, <5>6, <5>7, <5>8
        <4> QED BY <4>1, <4>2
      <3> QED BY <1>4, <1>5, <3>1 DEF Counts
    <2>8. Bounded(S \cup {d}, made2, due, mails2)
      BY <1>2, <1>4, <1>5, <1>7, <1>8, <2>4, <2>6, RoundAnnounces
    <2>9. Bounded(S2, made2, due2, mails2)
      BY <1>6, <2>7, <2>8
    <2> QED BY <1>1, <1>3, <2>9, RoundNext
  <1> QED BY <1>9, <1>10, StoreIs

LEMMA ConRounds ==
    ASSUME Typed, DatedCards, Typed', DatedCards', Latest, Rounds, [ConNext]_conVars
    PROVE  Rounds'
  <1> SUFFICES ASSUME removed' = {}, NEW p \in Persons, ~Repeated(p, card[p].updated)'
               PROVE Bounded(HaveCard(p), Made(p), Due(p), Mails(p))'
    BY DEF Rounds
  <1>0. ASSUME card'[p] = card[p]
        PROVE  Bounded(HaveCard(p), Made(p), Due(p), Mails(p)) /\ OnlyCard(p)
    <2>1. overlap \subseteq overlap' /\ removed = {}
      BY OverlapGrows
    <2>2. ~Repeated(p, card[p].updated) /\ ~Hasty(p, card[p].updated)
      BY <1>0, <2>1, HastySame
    <2> QED BY <2>1, <2>2, LatestOnly DEF Rounds
  <1>1. ASSUME UNCHANGED <<card, known, mailed, checked, echoes>>
        PROVE  Bounded(HaveCard(p), Made(p), Due(p), Mails(p))'
    BY <1>0, <1>1, RoundSame DEF EchoesOf, MailsTo, NewsAt, SaysNew
  <1>2. CASE UNCHANGED conVars
    BY <1>1, <1>2 DEF conVars
  <1>3. ASSUME NEW q \in Persons, NEW f \in {"name", "avatar"}, NEW v \in Names, SetProfile(q, f, v)
        PROVE  Bounded(HaveCard(p), Made(p), Due(p), Mails(p))'
    BY <1>0, <1>3, ProfileRound
  <1>4. CASE Pass
    BY <1>1, <1>4 DEF Pass
  <1>5. ASSUME NEW a \in MyDevices, NEW q \in Persons, AddContact(a, q)
        PROVE  Bounded(HaveCard(p), Made(p), Due(p), Mails(p))'
    <2>1. card' = card
      BY <1>5 DEF AddContact
    <2> QED BY <1>0, <1>5, <2>1, AddRound
  <1>6. ASSUME NEW m \in mailed, CheckPeer(m)
        PROVE  Bounded(HaveCard(p), Made(p), Due(p), Mails(p))'
    <2>1. card' = card
      BY <1>6 DEF CheckPeer
    <2> QED BY <1>0, <1>6, <2>1, CheckRound
  <1>7. ASSUME NEW h \in checked, StorePeer(h)
        PROVE  Bounded(HaveCard(p), Made(p), Due(p), Mails(p))'
    <2>0. card' = card
      BY <1>7 DEF StorePeer
    <2>1. CASE p # h.of
      BY <1>0, <1>7, <2>0, <2>1, StoreOthers
    <2>2. CASE p = h.of
      <3>1. h.card = card[h.of]
        BY <1>0, <2>0, <2>2 DEF OnlyCard, OnWay
      <3>2. Bounded(HaveCard(h.of), Made(h.of), Due(h.of), Mails(h.of))
        BY <1>0, <2>0, <2>2
      <3>3. Bounded(HaveCard(h.of), Made(h.of), Due(h.of), Mails(h.of))'
        BY <1>7, <3>1, <3>2, StoreRound
      <3> QED BY <2>2, <3>3
    <2> QED BY <2>1, <2>2
  <1>8. ASSUME NEW a \in MyDevices, RemoveContact(a) PROVE FALSE
    BY <1>8 DEF RemoveContact
  <1> QED BY <1>2, <1>3, <1>4, <1>5, <1>6, <1>7, <1>8 DEF ConNext

\* A device that has the card announced it as often as it was due at most.
LEMMA ConEchoes ==
    ASSUME Typed, DatedCards, Typed', DatedCards', Latest, EchoesEnd, Rounds', [ConNext]_conVars
    PROVE  EchoesEnd'
  <1> SUFFICES ASSUME removed' = {}, NEW e \in DOMAIN echoes', ~Repeated(e[2], e[3])'
               PROVE  echoes'[e] <= Cardinality(SUBSET (MyDevices \ {e[1]}))
    BY DEF EchoesEnd
  <1>1. DOMAIN echoes' = DOMAIN echoes /\ e[1] \in MyDevices
    BY DEF Typed, ConTypeOK
  <1>0. overlap \subseteq overlap' /\ removed = {}
    BY OverlapGrows
  <1>2. echoes[e] <= Cardinality(SUBSET (MyDevices \ {e[1]})) /\ ~Repeated(e[2], e[3])
    <2>1. ~Repeated(e[2], e[3])
      BY <1>0 DEF Repeated
    <2> QED BY <1>0, <1>1, <2>1 DEF EchoesEnd
  <1>3. CASE echoes'[e] = echoes[e]
    BY <1>2, <1>3
  <1>4. ASSUME NEW h \in checked, StorePeer(h), echoes'[e] # echoes[e]
        PROVE  echoes'[e] <= Cardinality(SUBSET (MyDevices \ {e[1]}))
    <2>1. PICK x : x = <<h.to, h.of, h.card.updated>> /\ echoes' = [echoes EXCEPT ![x] = echoes[x] + 1]
      BY <1>4, StoreIs
    <2>2. x = e
      BY <1>1, <1>4, <2>1 DEF Typed, ConTypeOK
    <2>3. PICK p, d : p = h.of /\ d = h.to
      OBVIOUS
    <2>4. p \in Persons /\ d \in MyDevices /\ card' = card
      BY <1>4, <2>3, StoreIs
    <2>0. h.card = card[h.of]
      <3>1. h \in OnWay /\ e[2] = h.of /\ e[3] = h.card.updated
        BY <2>1, <2>2 DEF OnWay
      <3>2. ~Hasty(h.of, h.card.updated)
        BY <1>2, <3>1 DEF Hasty, Repeated
      <3> QED BY <3>1, <3>2 DEF Latest
    <2>5. e = <<d, p, card'[p].updated>>
      BY <2>0, <2>1, <2>2, <2>3, <2>4
    <2>6. PICK S, made, due, mails :
              S = HaveCard(p)' /\ made = Made(p)' /\ due = Due(p)' /\ mails = Mails(p)'
      OBVIOUS
    <2>7. S \in SUBSET MyDevices /\ due \in Counts
      BY <2>4, <2>6, CountsNext
    <2>8. d \in S
      BY <1>4, <2>0, <2>3, <2>6, StoreHas
    <2>9. Bounded(S, made, due, mails)
      <3>1. ~Repeated(p, card[p].updated)'
        BY <2>5 DEF Repeated
      <3> QED BY <2>4, <2>6, <3>1 DEF Rounds, Bounded
    <2>10. due[d] <= Subsets(S \ {d})
      BY <2>8, <2>9 DEF Bounded
    <2>11. echoes'[e] <= due[d]
      <3>1. EchoesOf(d, p)' = echoes'[e]
        BY <2>5 DEF EchoesOf
      <3>2. PICK T : T = NewsAt(d, p)'
        OBVIOUS
      <3>3. due[d] = echoes'[e] + Cardinality(T)
        BY <2>4, <2>6, <3>1, <3>2, CountsNext
      <3>4. echoes'[e] \in Nat
        BY DEF Typed, ConTypeOK
      <3>5. Cardinality(T) \in Nat
        <4>1. T \subseteq checked' /\ IsFiniteSet(checked')
          BY <3>2 DEF NewsAt, Typed
        <4> QED BY <4>1, FS_Subset, FS_CardinalityType
      <3> QED BY <3>3, <3>4, <3>5
    <2>12. Subsets(S \ {d}) \in Nat /\ Subsets(MyDevices \ {d}) \in Nat
           /\ Subsets(S \ {d}) <= Subsets(MyDevices \ {d})
      <3>1. IsFiniteSet(MyDevices \ {d}) /\ S \ {d} \subseteq MyDevices \ {d}
        BY <2>7, DevicesFinite
      <3> QED BY <3>1, SubsetsGrow
    <2>13. echoes'[e] \in Nat /\ due[d] \in Nat
      BY <2>4, <2>7 DEF Counts, Typed, ConTypeOK
    <2>14. echoes'[e] <= Subsets(MyDevices \ {d})
      BY <2>10, <2>11, <2>12, <2>13
    <2>15. e[1] = d
      BY <2>5
    <2> QED BY <2>14, <2>15 DEF Subsets
  <1>5. ASSUME NEW d \in MyDevices, RemoveContact(d) PROVE FALSE
    BY <1>5 DEF RemoveContact
  <1>6. CASE UNCHANGED echoes
    BY <1>3, <1>6
  <1>7. (\E h \in checked : StorePeer(h)) \/ (\E d \in MyDevices : RemoveContact(d)) \/ UNCHANGED echoes
    BY DEF ConNext, conVars, SetProfile, Pass, AddContact, CheckPeer
  <1> QED BY <1>3, <1>4, <1>5, <1>6, <1>7

-----------------------------------------------------------------------------
LEMMA ConInitInv == ConInit => ConInv
  <1> SUFFICES ASSUME ConInit PROVE ConInv
    OBVIOUS
  <1>1. Typed
    BY InitTyped
  <1>2. DatedCards
    BY DEF ConInit, DatedCards
  <1>3. DatedRows
    BY ContactsAssumption DEF ConInit, DatedRows, NoCard
  <1>4. Latest
    BY DEF ConInit, Latest, OnWay
  <1>5. Arriving
    BY DEF ConInit, Arriving, Coming
  <1>6. ASSUME NEW p \in Persons PROVE Bounded(HaveCard(p), Made(p), Due(p), Mails(p))
    <2>1. /\ HaveCard(p) \in SUBSET MyDevices
          /\ Made(p) \in Counts /\ Due(p) \in Counts /\ Mails(p) \in Counts
      BY <1>1, <1>2, CountsAre
    <2>2. ASSUME NEW d \in MyDevices PROVE Made(p)[d] = 0 /\ Due(p)[d] = 0 /\ Mails(p)[d] <= 1
      <3>1. MailsTo(d, p) = {} /\ NewsAt(d, p) = {}
        BY DEF ConInit, MailsTo, NewsAt
      <3>2. Cardinality(MailsTo(d, p)) = 0 /\ Cardinality(NewsAt(d, p)) = 0
        BY <3>1, FS_EmptySet
      <3>3. EchoesOf(d, p) = 0
        BY ContactsAssumption DEF ConInit, EchoesOf
      <3> QED BY <1>1, <1>2, <3>2, <3>3, CountsAre
    <2> QED BY <2>1, <2>2, RoundBegins
  <1>7. EchoesEnd
    <2>1. ASSUME NEW e \in DOMAIN echoes
          PROVE  echoes[e] <= Cardinality(SUBSET (MyDevices \ {e[1]}))
      <3>1. Subsets(MyDevices \ {e[1]}) \in Nat
        BY DevicesFinite, SubsetsGrow
      <3>2. echoes[e] = 0
        BY DEF ConInit
      <3> QED BY <3>1, <3>2 DEF Subsets
    <2> QED BY <2>1 DEF EchoesEnd
  <1> QED BY <1>1, <1>2, <1>3, <1>4, <1>5, <1>6, <1>7 DEF ConInv, Rounds

LEMMA ConStep == ConInv /\ [ConNext]_conVars => ConInv'
  <1> SUFFICES ASSUME ConInv, [ConNext]_conVars PROVE ConInv'
    OBVIOUS
  <1>1. Typed /\ DatedCards /\ DatedRows /\ Latest /\ EchoesEnd
    BY DEF ConInv
  <1>2. Typed'
    BY <1>1, ConTyped
  <1>3. DatedCards' /\ DatedRows'
    BY <1>1, ConDated
  <1>4. Latest'
    BY <1>1, <1>3, ConLatest
  <1>5. Rounds'
    BY <1>1, <1>2, <1>3, ConRounds DEF ConInv
  <1>6. Arriving'
    BY <1>1, ConArriving DEF ConInv
  <1>7. EchoesEnd'
    BY <1>1, <1>2, <1>3, <1>5, ConEchoes
  <1> QED BY <1>2, <1>3, <1>4, <1>5, <1>6, <1>7 DEF ConInv

LEMMA ConAlways == ConSpec => []ConInv
  BY ConInitInv, ConStep, PTL DEF ConSpec

\* core/peers.go addPeer: for any persons, devices, clocks and changes, a device
\* is left with an older card only if another card of that person was on its way
\* with the newest, and no other card is announced more often than there are ways
\* for it to come.
THEOREM CardsAlwaysSettle == ConSpec => []CardsSettle
  <1>1. ConInv => CardsSettle
    <2> SUFFICES ASSUME ConInv PROVE CardsSettle
      OBVIOUS
    <2>1. EchoesEnd
      BY DEF ConInv
    <2>2. ASSUME NoneAhead, NEW d \in MyDevices \ removed, NEW p \in Persons,
                 \A x \in OnWay : x.of # p, card[p].updated > 0, ~Hasty(p, card[p].updated)
          PROVE  Says(known[d][p]) = Says(card[p])
      <3>1. Coming(d, p)
        BY <2>2 DEF ConInv, Arriving
      <3>2. MailsTo(d, p) = {} /\ ~\E h \in checked : h.to = d /\ h.of = p
        BY <2>2 DEF OnWay, MailsTo
      <3> QED BY <2>2, <3>1, <3>2 DEF Coming
    <2>3. NewestKept
      BY <2>2 DEF NewestKept, NoneAhead
    <2> QED BY <2>1, <2>3 DEF CardsSettle
  <1> QED BY <1>1, ConAlways, PTL

\* The tables of peers, the announcements and the handlers.
THEOREM ContactsTypeCorrect == ConSpec => []ConTypeOK
  <1>1. ConInv => ConTypeOK
    BY DEF ConInv, Typed
  <1> QED BY <1>1, ConAlways, PTL
=============================================================================
