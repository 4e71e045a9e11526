---------------------------- MODULE ThreadAccess ----------------------------
(***************************************************************************)
(* Who may have, read, annotate, write and share a thread: the access      *)
(* methods of core/thread.go, and the checks that every author and every   *)
(* handler of a block makes with them.                                     *)
(*                                                                         *)
(* Each node checks with its own copy of the policy, which the invite      *)
(* carries.  A block is checked by its author alone and then, later, by    *)
(* every node that handles it; a block that a handler refuses is a hole in *)
(* the thread of that node.                                                *)
(***************************************************************************)
EXTENDS Naturals, FiniteSets

CONSTANTS
    Device,     \* nodes
    AddressOf,  \* the account of each node
    Policies,   \* the policies a thread may be created with
    MaxOffers   \* bound: invites that are open at a time

Address == {AddressOf[n] : n \in Device}
Policy == [initiator : Address, whitelist : SUBSET Address,
           type : {"private", "readOnly", "public", "open"},
           sharing : {"notShared", "inviteOnly", "shared"}]

\* The types of blocks; a rename is an ANNOUNCE with a name.
BlockType == {"join", "announce", "rename", "leave", "text", "files", "comment",
              "like", "flag", "ignore"}

ASSUME ThreadAccessAssumption ==
    /\ AddressOf \in [Device -> Address] /\ Policies \subseteq Policy
    /\ MaxOffers \in Nat

VARIABLES
    policy,     \* chosen once: see Policies
    holders,    \* nodes that have the thread
    inside,     \* nodes whose join was authored
    offers,     \* invites: inviter and invitee, or Anyone for an external one
    letter,     \* a block on its way, or NoLetter
    outcome     \* what the handler made of it

accVars == <<policy, holders, inside, offers, letter, outcome>>

NoLetter == [by |-> "none", type |-> "none"]
Anyone == "anyone"

AccTypeOK ==
    /\ policy \in Policies
    /\ inside \subseteq holders /\ holders \subseteq Device
    /\ offers \subseteq Device \X (Device \cup {Anyone})
    /\ letter = NoLetter \/ letter \in [by : Device, type : BlockType]
    /\ outcome \in {"none", "accepted", "refused"}

\* The creator is a node of the initiator's account.
AccInit ==
    /\ policy \in Policies
    /\ \E n \in Device : AddressOf[n] = policy.initiator /\ holders = {n} /\ inside = {n}
    /\ offers = {} /\ letter = NoLetter /\ outcome = "none"

-----------------------------------------------------------------------------
\* With an empty whitelist everyone is a member.
Member(a) ==
    policy.whitelist = {} \/ a = policy.initiator \/ a \in policy.whitelist

Readable(a) ==
    a = policy.initiator \/ (policy.type # "private" /\ Member(a))

Annotatable(a) ==
    a = policy.initiator \/ (policy.type \in {"public", "open"} /\ Member(a))

Writable(a) ==
    a = policy.initiator \/ (policy.type = "open" /\ Member(a))

\* Mutant: only the inviter's side is looked at.
ShareableFrom(from, to) ==
    \/ from = to
    \/ policy.sharing = "inviteOnly" /\ from = policy.initiator
    \/ policy.sharing = "shared" /\ Member(from)

Shareable(from, to) ==
    \/ from = to
    \/ policy.sharing = "inviteOnly" /\ from = policy.initiator /\ Member(to)
    \/ policy.sharing = "shared" /\ Member(from) /\ Member(to)

-----------------------------------------------------------------------------
(* Invites                                                                   *)

Self(n) == AddressOf[n]

\* Thread.AddInvite.
AddInvite(n, m) ==
    /\ n \in holders /\ m # n /\ Shareable(Self(n), Self(m))
    /\ Cardinality(offers) < MaxOffers
    /\ offers' = offers \cup {<<n, m>>}
    /\ UNCHANGED <<policy, holders, inside, letter, outcome>>

\* AddExternalInvite asks nobody.
AddExternalInvite(n) ==
    /\ n \in holders /\ Cardinality(offers) < MaxOffers
    /\ offers' = offers \cup {<<n, Anyone>>}
    /\ UNCHANGED <<policy, holders, inside, letter, outcome>>

\* handleThreadAdd: the thread is added, then joined, which may be refused; it
\* stays in that case.  A direct invite is deleted.
HandleThreadAdd(n, m) ==
    /\ <<m, n>> \in offers \/ <<m, Anyone>> \in offers
    /\ n \notin holders /\ Shareable(Self(m), Self(n))
    /\ holders' = holders \cup {n}
    /\ inside' = IF Readable(Self(n)) THEN inside \cup {n} ELSE inside
    /\ offers' = offers \ {<<m, n>>}
    /\ UNCHANGED <<policy, letter, outcome>>

-----------------------------------------------------------------------------
(* Authors                                                                   *)

Write(n, ty) ==
    /\ n \in holders /\ letter = NoLetter
    /\ letter' = [by |-> n, type |-> ty]
    /\ UNCHANGED <<policy, holders, inside, offers, outcome>>

Join(n) == Readable(Self(n)) /\ Write(n, "join")
LeaveThread(n) == Readable(Self(n)) /\ Write(n, "leave")
Announce(n) == Readable(Self(n)) /\ Write(n, "announce")
RenameThread(n) == Self(n) = policy.initiator /\ Readable(Self(n)) /\ Write(n, "rename")
AddMessage(n) == Writable(Self(n)) /\ Write(n, "text")
AddFilesBlock(n) == Writable(Self(n)) /\ Write(n, "files")
AddComment(n) == Annotatable(Self(n)) /\ Write(n, "comment")
AddLike(n) == Annotatable(Self(n)) /\ Write(n, "like")
AddFlag(n) == Annotatable(Self(n)) /\ Write(n, "flag")
AddIgnore(n) == Annotatable(Self(n)) /\ Write(n, "ignore")

AuthorStep(n) ==
    \/ Join(n) \/ LeaveThread(n) \/ Announce(n) \/ RenameThread(n) \/ AddMessage(n)
    \/ AddFilesBlock(n) \/ AddComment(n) \/ AddLike(n) \/ AddFlag(n) \/ AddIgnore(n)

-----------------------------------------------------------------------------
(* Handlers: what each asks of the address in the header of the block        *)

HandleJoinBlock(a) == Readable(a)
HandleLeaveBlock(a) == Readable(a)
HandleAnnounceBlock(a, ty) == Readable(a) /\ (ty = "rename" => a = policy.initiator)
HandleMessageBlock(a) == Writable(a)
HandleFilesBlock(a) == Writable(a)

\* Mutant: a handler wants more than the author was asked for.
HandleCommentWritable(a) == Writable(a)
HandleCommentBlock(a) == Annotatable(a)
HandleLikeBlock(a) == Annotatable(a)
HandleFlagBlock(a) == Annotatable(a)
HandleIgnoreBlock(a) == Annotatable(a)

Allowed(a, ty) ==
    \/ ty = "join" /\ HandleJoinBlock(a)
    \/ ty = "leave" /\ HandleLeaveBlock(a)
    \/ ty \in {"announce", "rename"} /\ HandleAnnounceBlock(a, ty)
    \/ ty = "text" /\ HandleMessageBlock(a)
    \/ ty = "files" /\ HandleFilesBlock(a)
    \/ ty = "comment" /\ HandleCommentBlock(a)
    \/ ty = "like" /\ HandleLikeBlock(a)
    \/ ty = "flag" /\ HandleFlagBlock(a)
    \/ ty = "ignore" /\ HandleIgnoreBlock(a)

\* Every handler asks first whether its own node may read.
HandleBlock(n) ==
    /\ n \in holders /\ letter # NoLetter /\ letter.by # n /\ outcome = "none"
    /\ outcome' = IF Readable(Self(n)) /\ Allowed(AddressOf[letter.by], letter.type)
                  THEN "accepted" ELSE "refused"
    /\ UNCHANGED <<policy, holders, inside, offers, letter>>

\* The next block.
NextBlock ==
    /\ outcome # "none"
    /\ letter' = NoLetter /\ outcome' = "none"
    /\ UNCHANGED <<policy, holders, inside, offers>>

AccNext ==
    \/ \E n \in Device :
        \/ AuthorStep(n) \/ HandleBlock(n) \/ AddExternalInvite(n)
        \/ \E m \in Device : AddInvite(n, m) \/ HandleThreadAdd(n, m)
    \/ NextBlock

AccSpec == AccInit /\ [][AccNext]_accVars

-----------------------------------------------------------------------------
\* What an author may write, every reader takes: no block that passed the
\* checks of its author is refused by a node that may read the thread, so an
\* honest author leaves no hole in anybody's thread, whatever the policy.
AuthoredAccepted == outcome = "refused" => \E n \in holders : ~Readable(Self(n))

\* However invites travel, direct or external, and whoever passes them on, the
\* thread stays with those its initiator let in: with the own account when it
\* is not shared, and with members of the whitelist otherwise.
StaysInside ==
    \A n \in holders :
        /\ Member(Self(n))
        /\ policy.sharing = "notShared" => Self(n) = policy.initiator

\* readable: a node that is neither the initiator's nor allowed to read a
\* PRIVATE thread has none ("should not happen").  It holds for the policies
\* that do not share a private thread.
HoldersRead == (policy.type = "private" => policy.sharing = "notShared") => inside = holders

\* Whoever has a thread is one the initiator named, and may read it.
ThreadKept == StaysInside /\ HoldersRead
=============================================================================
