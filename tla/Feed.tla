-------------------------------- MODULE Feed --------------------------------
(***************************************************************************)
(* The feed of a thread (core/feed.go, over core/blocks.go and the index   *)
(* of repo/db/blocks.go): a reader asks for page after page, each from the *)
(* offset the last one named, while blocks go on arriving in any order.    *)
(*                                                                         *)
(* Blocks are numbered by their dates, which are taken to differ.          *)
(***************************************************************************)
EXTENDS Naturals, Sequences, FiniteSets

LOCAL INSTANCE SequencesExt

CONSTANTS
    Logs,       \* the blocks of the thread: see Log
    Limits,     \* page sizes
    Late        \* bound: blocks that arrive while the feed is read

Kinds == {"text", "merge", "comment", "like", "ignore"}

\* A log gives each block its kind and its target, 0 for none.
IsLog(g) ==
    \A b \in DOMAIN g : /\ g[b].kind \in Kinds /\ g[b].target \in 0..(b - 1)
                        /\ g[b].target = 0 <=> g[b].kind \in {"text", "merge"}

ASSUME FeedAssumption ==
    /\ \A g \in Logs : IsLog(g)
    /\ Limits \subseteq Nat \ {0} /\ Late \in Nat

VARIABLES
    threadLog,  \* chosen once
    arrived,    \* the blocks in the index
    mode,       \* "chrono", "annotated" or "stacks"
    limit,      \* the page size
    offset,     \* where the next page starts; 0 at the end
    late,       \* the blocks that arrived since it was begun
    shown,      \* the blocks of all pages
    blank       \* a page had no block that is not ignored

feedVars == <<threadLog, arrived, mode, limit, offset, late, shown, blank>>

All == DOMAIN threadLog
Begin0 == Len(threadLog) + 1    \* no offset: before the newest block

FeedInit ==
    /\ threadLog \in Logs
    /\ mode \in {"chrono", "annotated", "stacks"} /\ limit \in Limits
    /\ \E L \in SUBSET All : /\ Cardinality(L) <= Late
                             /\ arrived = All \ L
    /\ offset = Begin0 /\ late = {} /\ shown = <<>> /\ blank = FALSE

-----------------------------------------------------------------------------
Kind(b) == threadLog[b].kind
IsAnnotation(b) == Kind(b) \in {"comment", "like"}

\* flatFeedTypes, annotatedFeedTypes.
FeedTypes == IF mode = "annotated" THEN {"text"} ELSE {"text", "comment", "like"}

Ignored(b) == \E i \in arrived : Kind(i) = "ignore" /\ threadLog[i].target = b

\* BlockDB.List: the newest blocks before an offset.
ListBlocks(off, n) ==
    LET s == SetToSortSeq({b \in arrived : Kind(b) \in FeedTypes /\ b < off},
                          LAMBDA a, b : a > b)
    IN  SubSeq(s, 1, IF n < Len(s) THEN n ELSE Len(s))

\* Blocks drops what was ignored.
PageBlocks == SelectSeq(ListBlocks(offset, limit), LAMBDA b : ~Ignored(b))

\* getTargetId
TargetId(b) == IF IsAnnotation(b) THEN threadLog[b].target ELSE b

\* Neighbours with one target are a stack.
Stacks(blocks) ==
    FoldLeft(LAMBDA stacks, b :
                 IF stacks # <<>> /\ TargetId(Head(Last(stacks))) = TargetId(b)
                 THEN Append(Front(stacks), Append(Last(stacks), b))
                 ELSE Append(stacks, <<b>>),
             <<>>, blocks)

\* An item: the block it is about, its annotations, and the annotation that
\* it is wrapped in, 0 if it is not.
Item0(target, notes, top) == [target |-> target, notes |-> notes, top |-> top]
NoItem == Item0(0, {}, 0)

Notes(blocks) == {b \in blocks : IsAnnotation(b)}

\* feedStackItem: the target is a child, the top, or has to be loaded.
StackItem(st) ==
    LET id == TargetId(Head(st))
        children == ToSet(Tail(st))
    IN  IF id \in ToSet(st) THEN Item0(id, Notes(ToSet(st)), 0)
        ELSE IF Ignored(id) \/ id \notin arrived THEN NoItem
        ELSE Item0(id, Notes(children), Head(st))

\* feedItem: a block with its annotations, or an annotation with its target.
FlatItem(b) ==
    IF mode = "annotated"
    THEN Item0(b, {a \in arrived : IsAnnotation(a) /\ threadLog[a].target = b
                                   /\ ~Ignored(a)}, 0)
    ELSE IF IsAnnotation(b)
    THEN Item0(IF threadLog[b].target \in arrived THEN threadLog[b].target ELSE 0, {}, b)
    ELSE Item0(b, {}, 0)

ItemsOf(blocks) ==
    IF mode = "stacks"
    THEN SelectSeq([k \in DOMAIN Stacks(blocks) |-> StackItem(Stacks(blocks)[k])],
                   LAMBDA i : i # NoItem)
    ELSE [k \in DOMAIN blocks |-> FlatItem(blocks[k])]

\* Mutant: a page with fewer blocks than the limit is the last one.
NextOffsetShort(blocks) == IF Len(blocks) < limit THEN 0 ELSE Last(blocks)

\* The last block of the page, if there is one and there is more.
NextOffset(blocks) ==
    IF blocks = <<>> \/ ListBlocks(Last(blocks), 1) = <<>> THEN 0 ELSE Last(blocks)

\* Feed: one page.
ReadPage ==
    /\ offset > 0
    /\ offset' = NextOffset(PageBlocks)
    /\ shown' = shown \o PageBlocks
    /\ blank' = (blank \/ (PageBlocks = <<>> /\ ListBlocks(offset, limit) # <<>>))
    /\ UNCHANGED <<threadLog, arrived, mode, limit, late>>

\* A block is handled, an old one as well as a new one.
Index(b) ==
    /\ offset > 0 /\ b \in All \ arrived
    /\ arrived' = arrived \cup {b}
    /\ late' = late \cup {b}
    /\ UNCHANGED <<threadLog, mode, limit, offset, shown, blank>>

FeedNext == ReadPage \/ \E b \in All : Index(b)

FeedSpec == FeedInit /\ [][FeedNext]_feedVars

-----------------------------------------------------------------------------
FeedTypeOK ==
    /\ arrived \subseteq All /\ late \subseteq arrived
    /\ offset \in 0..Begin0
    /\ ToSet(shown) \subseteq arrived
    /\ blank \in BOOLEAN

\* Pages follow each other without an overlap, newest first, whatever arrives
\* between them.
PagesDescend == \A i, j \in DOMAIN shown : i < j => shown[i] > shown[j]

\* A reader that has come to the end was given every block that was there from
\* the start and is not ignored, unless a whole page was ignored.
NothingSkipped ==
    offset = 0 /\ ~blank =>
        \A b \in arrived \ late :
            Kind(b) \in FeedTypes /\ ~Ignored(b) => b \in ToSet(shown)

\* Every block of the page that can be read now is in one of its items, as
\* the target, an annotation of it or around it; in a feed of stacks it is
\* left out only if its target is ignored or unknown.
ItemsShowAll ==
    LET I == ItemsOf(PageBlocks)
    IN  \A b \in ToSet(PageBlocks) :
            \/ \E i \in DOMAIN I : b \in I[i].notes \cup {I[i].target, I[i].top}
            \/ /\ mode = "stacks" /\ IsAnnotation(b)
               /\ TargetId(b) \notin arrived \/ Ignored(TargetId(b))

\* Who reads a feed page by page sees every block once, newest first, and each
\* with what it annotates, while other blocks arrive.
FeedComplete == PagesDescend /\ NothingSkipped /\ ItemsShowAll
=============================================================================
