----------------------------- MODULE Membership -----------------------------
(***************************************************************************)
(* How the members of a thread come to know each other and what was said:  *)
(* core/invites.go, core/thread_joins.go, thread_adds.go, thread_leaves.go *)
(* and sendWelcome, post and addOrUpdatePeer of core/thread.go, on several *)
(* nodes that exchange blocks.                                             *)
(*                                                                         *)
(* A block stands for its wrapping node, and its history for what          *)
(* followParents reaches from it.  The heads are what handleHead makes of  *)
(* them when nobody writes them meanwhile; ThreadSync has those races.     *)
(* Messages are delayed and reordered without limit, and not lost: the     *)
(* outboxes retry.                                                         *)
(***************************************************************************)
EXTENDS Naturals, FiniteSets

CONSTANTS
    Peer,       \* the nodes
    Creator,    \* the one that starts the thread
    Texts,      \* blocks that are not JOINs
    Scenes,     \* what may happen in a behaviour: see Scene
    MaxAdds     \* bound: how many invites are sent

\* A behaviour is bounded by who may invite whom, the nodes that may
\* leave, the texts that may be written and the nodes where messages may
\* arrive inside sendWelcome.
Scene == [invites : SUBSET (Peer \X Peer), leavers : SUBSET Peer,
          texts : SUBSET Texts, overlap : SUBSET Peer]

ASSUME MembershipAssumption ==
    /\ Creator \in Peer /\ Scenes \subseteq Scene
    /\ Texts \cap Peer = {} /\ MaxAdds \in Nat

\* The JOIN block of a node has the node's name.
Entry == Peer \cup Texts

VARIABLES
    scene,      \* chosen once: see Scenes
    member,     \* "out", "in" or "left"
    know,       \* the blocks in the index of each node
    tips,       \* the heads of each node
    hist,       \* the blocks that can be reached from a published block
    published,  \* the blocks that were published
    peerTbl,    \* the thread_peers table of each node
    queued,     \* blocks that were authored and wait to be published
    wire,       \* block messages on their way: receiver and block
    addMsgs,    \* ADD messages: inviter, invitee and the parents they carry
    behind,     \* heads whose tails are still to be followed
    welcoming   \* nodes inside sendWelcome

memVars == <<scene, member, know, tips, hist, published, peerTbl, queued, wire,
             addMsgs, behind, welcoming>>

MemTypeOK ==
    /\ scene \in Scene
    /\ member \in [Peer -> {"out", "in", "left"}]
    /\ know \in [Peer -> SUBSET Entry] /\ tips \in [Peer -> SUBSET Entry]
    /\ hist \in [Entry -> SUBSET Entry] /\ published \subseteq Entry
    /\ peerTbl \in [Peer -> [Peer -> {"none", "new", "welcomed"}]]
    /\ queued \in [Peer -> SUBSET Entry]
    /\ wire \subseteq Peer \X Entry
    /\ addMsgs \subseteq [from : Peer, to : Peer, parents : SUBSET Entry]
    /\ behind \in [Peer -> SUBSET ({"add", "head"} \X SUBSET Entry)]
    /\ welcoming \subseteq Peer

\* AddThread with join: the creator's JOIN is queued.
MemInit ==
    /\ scene \in Scenes
    /\ member = [n \in Peer |-> IF n = Creator THEN "in" ELSE "out"]
    /\ know = [n \in Peer |-> {}] /\ tips = [n \in Peer |-> {}]
    /\ hist = [b \in Entry |-> {}] /\ published = {}
    /\ peerTbl = [n \in Peer |-> [m \in Peer |-> "none"]]
    /\ queued = [n \in Peer |-> IF n = Creator THEN {n} ELSE {}]
    /\ wire = {} /\ addMsgs = {}
    /\ behind = [n \in Peer |-> {}]
    /\ welcoming = {}

\* What lies behind a set of heads, the heads included.
Closure(B) == B \cup UNION {hist[b] : b \in B}

\* Mutant: the author of a block found while following parents is not kept.
AddPeersForgotten(n, B) == peerTbl

\* addOrUpdatePeer for the authors of the JOINs in B.  A row that exists is
\* left alone; a new one is unwelcomed whatever the caller asks for.
AddPeers(n, B) ==
    [peerTbl EXCEPT ![n] = [m \in Peer |->
        IF m \in B /\ m # n /\ @[m] = "none" THEN "new" ELSE @[m]]]

-----------------------------------------------------------------------------
\* addMessage and the like: only a node that is in the thread authors blocks.
Author(n, b) ==
    /\ member[n] = "in"
    /\ b \in scene.texts \ published /\ \A m \in Peer : b \notin queued[m]
    /\ queued' = [queued EXCEPT ![n] = @ \cup {b}]
    /\ UNCHANGED <<scene, member, know, tips, hist, published, peerTbl, wire,
                   addMsgs, behind, welcoming>>

\* FlushBlocks and post: every block but a JOIN needs a parent; it goes to
\* every row of the table.
PostBlock(n, b) ==
    /\ member[n] = "in" /\ b \in queued[n] /\ (b \in Peer \/ tips[n] # {})
    /\ hist' = [hist EXCEPT ![b] = Closure(tips[n])]
    /\ know' = [know EXCEPT ![n] = @ \cup {b}]
    /\ tips' = [tips EXCEPT ![n] = {b}]
    /\ published' = published \cup {b}
    /\ queued' = [queued EXCEPT ![n] = @ \ {b}]
    /\ wire' = wire \cup ({m \in Peer : peerTbl[n][m] # "none"} \X {b})
    /\ UNCHANGED <<scene, member, peerTbl, addMsgs, behind, welcoming>>

\* AddInvite and the post of the ADD, which goes to the invitee alone and
\* never enters the index of another node.
Invite(n, m) ==
    /\ member[n] = "in" /\ tips[n] # {} /\ <<n, m>> \in scene.invites /\ member[m] = "out"
    /\ Cardinality(addMsgs) < MaxAdds
    /\ \A a \in addMsgs : ~(a.from = n /\ a.to = m)
    /\ addMsgs' = addMsgs \cup {[from |-> n, to |-> m, parents |-> tips[n]]}
    /\ UNCHANGED <<scene, member, know, tips, hist, published, peerTbl, queued,
                   wire, behind, welcoming>>

\* handleThreadAdd, by an account peer or through AcceptInvite: the inviter
\* becomes a peer, the parents become the heads, a JOIN is queued and the
\* tail is left to the background.
AcceptAdd(a) ==
    LET n == a.to IN
    /\ member[n] = "out"
    /\ member' = [member EXCEPT ![n] = "in"]
    /\ peerTbl' = AddPeers(n, {a.from})
    /\ tips' = [tips EXCEPT ![n] = a.parents]
    /\ queued' = [queued EXCEPT ![n] = @ \cup {n}]
    /\ behind' = [behind EXCEPT ![n] = @ \cup {<<"add", a.parents>>}]
    /\ UNCHANGED <<scene, know, hist, published, wire, addMsgs, welcoming>>

\* Handle in the foreground: what is indexed, or is for a thread this node
\* does not have, is acknowledged and dropped.
ReceiveBlock(n, b) ==
    /\ <<n, b>> \in wire
    /\ wire' = wire \ {<<n, b>>}
    /\ \/ /\ member[n] # "in" \/ b \in know[n]
          /\ UNCHANGED <<know, tips, peerTbl, behind>>
       \/ /\ member[n] = "in" /\ b \notin know[n]
          /\ know' = [know EXCEPT ![n] = @ \cup {b}]
          /\ tips' = [tips EXCEPT ![n] = @ \cup {b}]
          /\ peerTbl' = AddPeers(n, {b} \cap Peer)
          /\ behind' = [behind EXCEPT ![n] = @ \cup {<<"head", {b}>>}]
    /\ UNCHANGED <<scene, member, hist, published, queued, addMsgs, welcoming>>

\* WelcomeByThread marks every row of the thread, not the rows it listed.
Marked(rows, n) ==
    [rows EXCEPT ![n] = [m \in Peer |-> IF @[m] = "new" THEN "welcomed" ELSE @[m]]]

\* The tail under the stop lock: the history is handled, the heads are
\* cleaned up (not after an accepted invite, whose parents are the heads),
\* and sendWelcome queues the heads for the unwelcomed peers.  Messages may
\* come before it marks them, if overlap is allowed.
FollowTail(n, tl) ==
    LET B == tl[2]
        old == Closure(B)
        next == IF tl[1] = "add" THEN tips[n]
                ELSE B \cup {b \in tips[n] : b \notin UNION {hist[h] : h \in B}}
        rows == AddPeers(n, old \cap Peer)
    IN
    /\ tl \in behind[n] /\ n \notin welcoming
    /\ behind' = [behind EXCEPT ![n] = @ \ {tl}]
    /\ know' = [know EXCEPT ![n] = @ \cup old]
    /\ tips' = [tips EXCEPT ![n] = next]
    /\ peerTbl' = IF n \in scene.overlap THEN rows ELSE Marked(rows, n)
    /\ wire' = wire \cup ({m \in Peer : rows[n][m] = "new"} \X next)
    /\ welcoming' = IF n \in scene.overlap THEN welcoming \cup {n} ELSE welcoming
    /\ UNCHANGED <<scene, member, hist, published, queued, addMsgs>>

MarkWelcomed(n) ==
    /\ n \in welcoming
    /\ peerTbl' = Marked(peerTbl, n)
    /\ welcoming' = welcoming \ {n}
    /\ UNCHANGED <<scene, member, know, tips, hist, published, queued, wire,
                   addMsgs, behind>>

\* RemoveThread: leave queues a LEAVE block and then deletes every block of
\* the thread, the LEAVE included, and its peers; the thread goes last.
Leave(n) ==
    /\ n \in scene.leavers /\ member[n] = "in"
    /\ n \notin welcoming /\ behind[n] = {}
    /\ member' = [member EXCEPT ![n] = "left"]
    /\ know' = [know EXCEPT ![n] = {}] /\ tips' = [tips EXCEPT ![n] = {}]
    /\ peerTbl' = [peerTbl EXCEPT ![n] = [m \in Peer |-> "none"]]
    /\ queued' = [queued EXCEPT ![n] = {}]
    /\ UNCHANGED <<scene, hist, published, wire, addMsgs, behind, welcoming>>

MemNext ==
    \/ \E n \in Peer :
        \/ \E b \in Entry : Author(n, b) \/ PostBlock(n, b) \/ ReceiveBlock(n, b)
        \/ \E m \in Peer : Invite(n, m)
        \/ \E tl \in behind[n] : FollowTail(n, tl)
        \/ MarkWelcomed(n) \/ Leave(n)
    \/ \E a \in addMsgs : AcceptAdd(a)

MemSpec == MemInit /\ [][MemNext]_memVars

-----------------------------------------------------------------------------
\* Nothing is on its way, queued or being followed.
Quiescent ==
    /\ wire = {} /\ welcoming = {}
    /\ \A n \in Peer : queued[n] = {} /\ behind[n] = {}

\* Members converge: when nothing is left to do, every member has every block
\* that was published and has every other member in its table, whoever invited
\* whom and in whichever order blocks came.  It needs sendWelcome not to
\* overlap with a message that brings a new peer, and that nobody left.
Converged ==
    Quiescent /\ scene.overlap = {} /\ (\A n \in Peer : member[n] # "left") =>
        \A n, m \in Peer : member[n] = "in" /\ member[m] = "in" =>
            /\ know[n] = published
            /\ n # m => peerTbl[n][m] # "none"

\* RemoveThread: "notify peers".  When nothing is left to do, a node that left
\* is in nobody's table.
LeaveNotified ==
    Quiescent => \A n, m \in Peer :
        member[n] = "left" /\ member[m] = "in" => peerTbl[m][n] = "none"

\* What a member knows has no holes once its tails are followed, and its heads
\* reach all of it, with and without overlap.
KnowsWhole ==
    \A n \in Peer : behind[n] = {} /\ member[n] = "in" =>
        /\ know[n] = Closure(know[n])
        /\ know[n] \subseteq Closure(tips[n])

\* Members that messages have reached agree on who they are and on the whole
\* history, and no order of them leaves one a history with holes.
MembersAgree == Converged /\ KnowsWhole
=============================================================================
