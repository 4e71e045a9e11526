---------------------------- MODULE ThreadFiles ----------------------------
(***************************************************************************)
(* The files of the threads of one node: core/files.go, thread_files.go,   *)
(* thread_ignores.go, the clean-up of thread_leaves.go and                 *)
(* repo/db/files.go.                                                       *)
(*                                                                         *)
(* A FILES block names a data node, a data node links files.  The files    *)
(* table has a row per file with the data nodes it is a target of.  An     *)
(* IGNORE block, or leaving the thread, unpins the data node when it is    *)
(* the data of one block only, and every file that no target is left of.   *)
(* Blocks come from this node or from others, in any order.                *)
(***************************************************************************)
EXTENDS Naturals

CONSTANTS
    FilesBlock,     \* FILES blocks
    IgnoreBlock,    \* IGNORE blocks
    ThreadId,       \* threads of the node
    Datum,          \* data nodes
    File,           \* files
    Layouts         \* what may happen in a behaviour: see Layout

\* thread, data: of each FILES block; files: what a data node links; target: of
\* each IGNORE; local: blocks this node authors; skewed: IGNOREs that are dated
\* before their targets; removes: threads that may be removed; copyOf: the same
\* for files that the table has one row for, those with the mill and checksum
\* of one another: a file that somebody else made of the same content has
\* another key and so another hash; overlap: whether handlers and calls run at
\* the same time.
Layout == [thread : [FilesBlock -> ThreadId], data : [FilesBlock -> Datum],
           files : [Datum -> SUBSET File], target : [IgnoreBlock -> FilesBlock],
           local : SUBSET (FilesBlock \cup IgnoreBlock),
           skewed : SUBSET IgnoreBlock, removes : SUBSET ThreadId,
           copyOf : [File -> File], overlap : BOOLEAN]

ASSUME ThreadFilesAssumption ==
    /\ \A l \in Layouts : l \in Layout
    /\ FilesBlock \cap IgnoreBlock = {} /\ ThreadId \cap (FilesBlock \cup IgnoreBlock) = {}

VARIABLES
    layout,     \* chosen once: see Layouts
    filesRows,  \* FILES blocks in the index
    ignoreRows, \* IGNORE blocks in the index
    fileRows,   \* files in the files table
    targets,    \* the targets of each file
    pinnedData, pinnedFiles,
    work,       \* how far each block, and each removal of a thread, is
    toClean,    \* the blocks that a removal has still to clean up
    failed,     \* what ended with an error
    unpinned    \* history: blocks whose data was unpinned after it was prepared

shelfVars == <<layout, filesRows, ignoreRows, fileRows, targets, pinnedData,
               pinnedFiles, work, toClean, failed, unpinned>>
pinVars == <<pinnedData, pinnedFiles>>
tableVars == <<fileRows, targets>>

Piece == FilesBlock \cup IgnoreBlock \cup ThreadId

ShelfTypeOK ==
    /\ layout \in Layouts
    /\ filesRows \subseteq FilesBlock /\ ignoreRows \subseteq IgnoreBlock
    /\ fileRows \subseteq File /\ targets \in [File -> SUBSET Datum]
    /\ \A f \in File \ fileRows : targets[f] = {}
    /\ pinnedData \subseteq Datum /\ pinnedFiles \subseteq File
    /\ work \in [Piece -> {"none", "prepared", "keep", "drop", "taken", "index",
                           "indexed", "remove", "deindex", "clean", "done"}]
    /\ toClean \in [ThreadId -> SUBSET FilesBlock]
    /\ failed \subseteq Piece /\ unpinned \subseteq layout.local \cap FilesBlock

ShelfInit ==
    /\ layout \in Layouts
    /\ filesRows = {} /\ ignoreRows = {}
    /\ fileRows = {} /\ targets = [f \in File |-> {}]
    /\ pinnedData = {} /\ pinnedFiles = {}
    /\ work = [x \in Piece |-> "none"]
    /\ toClean = [t \in ThreadId |-> {}]
    /\ failed = {} /\ unpinned = {}

ThreadAt(x) == IF x \in ThreadId THEN x
               ELSE layout.thread[IF x \in FilesBlock THEN x ELSE layout.target[x]]
Linked(b) == layout.files[layout.data[b]]
OneRowEach(F) == \A f, g \in F : layout.copyOf[f] = layout.copyOf[g] => f = g
Resting(x) == work[x] \in {"none", "prepared", "done"}
At(x, w) == work' = [work EXCEPT ![x] = w]

\* A call or a handler begins on a thread the node still has.  Authoring takes
\* the lock of the thread; handlers take none.
Locks(x) == x \in layout.local \cup ThreadId
Begins(x) ==
    /\ work[ThreadAt(x)] # "done"
    /\ \A y \in Piece : ~Resting(y) =>
        layout.overlap /\ ~(Locks(x) /\ Locks(y) /\ ThreadAt(x) = ThreadAt(y))

-----------------------------------------------------------------------------
\* AddFileIndex for each file and AddNodeFromFiles: rows without a target, and
\* the pins of the nodes.  A file that has a row is not added again, and neither
\* is a copy: the data node links the file that has the row.
Prepare(b) ==
    /\ b \in layout.local /\ work[b] = "none" /\ Begins(b)
    /\ fileRows' = fileRows \cup Linked(b) /\ OneRowEach(fileRows')
    /\ pinnedData' = pinnedData \cup {layout.data[b]}
    /\ pinnedFiles' = pinnedFiles \cup Linked(b)
    /\ At(b, "prepared")
    /\ UNCHANGED <<layout, filesRows, ignoreRows, targets, toClean, failed, unpinned>>

\* AddFiles: the data is processed, which pins the files, and the block indexed.
AddFiles(b) ==
    /\ work[b] = "prepared" /\ Begins(b)
    /\ pinnedFiles' = pinnedFiles \cup Linked(b)
    /\ filesRows' = filesRows \cup {b}
    /\ At(b, "indexed")
    /\ UNCHANGED <<layout, ignoreRows, tableVars, pinnedData, toClean, failed, unpinned>>

\* Mutant: an IGNORE that came first is not looked for.
CheckIgnoredNever(b) ==
    /\ b \in FilesBlock \ layout.local /\ work[b] = "none" /\ Begins(b)
    /\ At(b, "keep")
    /\ UNCHANGED <<layout, filesRows, ignoreRows, tableVars, pinVars, toClean, failed, unpinned>>

\* handleFilesBlock looks for the latest IGNORE of the block, which may have
\* come first.
CheckIgnored(b) ==
    /\ b \in FilesBlock \ layout.local /\ work[b] = "none" /\ Begins(b)
    /\ At(b, IF \E i \in ignoreRows : layout.target[i] = b /\ i \notin layout.skewed
             THEN "drop" ELSE "keep")
    /\ UNCHANGED <<layout, filesRows, ignoreRows, tableVars, pinVars, toClean, failed, unpinned>>

\* Nodes and files are pinned and the files added, in any order (the keys are
\* a Go map).  A file whose copy has a row is taken for one that exists.
TakeFiles(b) ==
    /\ work[b] = "keep"
    /\ pinnedData' = pinnedData \cup {layout.data[b]}
    /\ pinnedFiles' = pinnedFiles \cup Linked(b)
    /\ \E F \in SUBSET Linked(b) : fileRows' = fileRows \cup F
    /\ OneRowEach(fileRows')
    /\ \A f \in Linked(b) : \E g \in fileRows' : layout.copyOf[f] = layout.copyOf[g]
    /\ At(b, "taken")
    /\ UNCHANGED <<layout, filesRows, ignoreRows, targets, toClean, failed, unpinned>>

\* Mutant: a file without a row is not an error.
IndexFileDataUnchecked(b) ==
    /\ work[b] \in {"taken", "indexed"}
    /\ targets' = [f \in File |-> IF f \in Linked(b) THEN targets[f] \cup {layout.data[b]}
                                  ELSE targets[f]]
    /\ At(b, IF work[b] = "taken" THEN "index" ELSE "done")
    /\ UNCHANGED <<layout, filesRows, ignoreRows, fileRows, pinVars, toClean, failed, unpinned>>

\* indexFileData: AddTarget for every file.
IndexFileData(b) ==
    /\ work[b] \in {"taken", "indexed"} /\ Linked(b) \subseteq fileRows
    /\ targets' = [f \in File |-> IF f \in Linked(b) THEN targets[f] \cup {layout.data[b]}
                                  ELSE targets[f]]
    /\ At(b, IF work[b] = "taken" THEN "index" ELSE "done")
    /\ UNCHANGED <<layout, filesRows, ignoreRows, fileRows, pinVars, toClean, failed, unpinned>>

\* AddTarget of a file without a row, after some of the others: the block of
\* AddFiles stays queued, the one of a handler, which may have taken a copy for
\* its file, is not indexed.
IndexFileDataFails(b) ==
    /\ work[b] \in {"taken", "indexed"} /\ ~(Linked(b) \subseteq fileRows)
    /\ \E F \in SUBSET (Linked(b) \cap fileRows) :
           targets' = [f \in File |-> IF f \in F THEN targets[f] \cup {layout.data[b]}
                                     ELSE targets[f]]
    /\ failed' = failed \cup {b}
    /\ At(b, "done")
    /\ UNCHANGED <<layout, filesRows, ignoreRows, fileRows, pinVars, toClean, unpinned>>

\* handle indexes the block last, ignored or not.
IndexFiles(b) ==
    /\ work[b] \in {"drop", "index"} /\ b \in FilesBlock
    /\ filesRows' = filesRows \cup {b}
    /\ At(b, "done")
    /\ UNCHANGED <<layout, ignoreRows, tableVars, pinVars, toClean, failed, unpinned>>

-----------------------------------------------------------------------------
\* ignoreBlockTarget and removeFiles go on when the block is known and no
\* other block has the same data, of whatever thread, ignored or not.
UsedOnce(b) ==
    b \in filesRows /\ \A c \in filesRows : layout.data[c] = layout.data[b] => c = b

\* The data node is unpinned, although the user may have prepared a block with
\* the same data: AddFiles will not pin it again.
Unpin(b) ==
    /\ pinnedData' = pinnedData \ {layout.data[b]}
    /\ unpinned' = unpinned \cup
           {c \in FilesBlock : work[c] = "prepared" /\ layout.data[c] = layout.data[b]}

\* deIndexFileLink for files F of the block: a file without a target is unpinned
\* and deleted.
DeIndex(b, F) ==
    LET gone == {f \in F : targets[f] \subseteq {layout.data[b]}} IN
    /\ targets' = [f \in File |-> IF f \in F THEN targets[f] \ {layout.data[b]}
                                  ELSE targets[f]]
    /\ fileRows' = fileRows \ gone
    /\ pinnedFiles' = pinnedFiles \ gone

\* AddIgnore indexes first, handleIgnoreBlock last.  A block of this node, or
\* one that this node ignores, is indexed before it is ignored.
BeginIgnore(i) ==
    /\ i \in IgnoreBlock /\ work[i] = "none" /\ Begins(i)
    /\ {i, layout.target[i]} \cap layout.local # {} => layout.target[i] \in filesRows
    /\ ignoreRows' = IF i \in layout.local THEN ignoreRows \cup {i} ELSE ignoreRows
    /\ At(i, "remove")
    /\ UNCHANGED <<layout, filesRows, tableVars, pinVars, toClean, failed, unpinned>>

\* What follows the removal of files.
AfterRemoval(i) == At(i, IF i \in layout.local THEN "done" ELSE "index")

RemoveData(i) ==
    /\ work[i] = "remove"
    /\ IF UsedOnce(layout.target[i])
       THEN Unpin(layout.target[i]) /\ At(i, "deindex")
       ELSE AfterRemoval(i) /\ UNCHANGED <<pinnedData, unpinned>>
    /\ UNCHANGED <<layout, filesRows, ignoreRows, tableVars, pinnedFiles, toClean, failed>>

RemoveFiles(i) ==
    /\ work[i] = "deindex" /\ Linked(layout.target[i]) \subseteq fileRows
    /\ DeIndex(layout.target[i], Linked(layout.target[i]))
    /\ AfterRemoval(i)
    /\ UNCHANGED <<layout, filesRows, ignoreRows, pinnedData, toClean, failed, unpinned>>

\* Links are de-indexed up to the first file without a row.
DeIndexSome(b) ==
    /\ ~(Linked(b) \subseteq fileRows)
    /\ \E F \in SUBSET (Linked(b) \cap fileRows) : DeIndex(b, F)

\* RemoveTarget of a file without a row, which a block that was ignored
\* before has: the IGNORE of a handler is not indexed.
RemoveFilesFails(i) ==
    /\ work[i] = "deindex"
    /\ DeIndexSome(layout.target[i])
    /\ failed' = failed \cup {i}
    /\ At(i, "done")
    /\ UNCHANGED <<layout, filesRows, ignoreRows, pinnedData, toClean, unpinned>>

IndexIgnore(i) ==
    /\ work[i] = "index" /\ i \in IgnoreBlock
    /\ ignoreRows' = ignoreRows \cup {i}
    /\ At(i, "done")
    /\ UNCHANGED <<layout, filesRows, tableVars, pinVars, toClean, failed, unpinned>>

-----------------------------------------------------------------------------
\* RemoveThread and leave: the blocks of the thread are listed ...
BeginLeave(t) ==
    /\ t \in layout.removes /\ work[t] = "none" /\ Begins(t)
    /\ toClean' = [toClean EXCEPT ![t] = {b \in filesRows : layout.thread[b] = t}]
    /\ At(t, "clean")
    /\ UNCHANGED <<layout, filesRows, ignoreRows, tableVars, pinVars, failed, unpinned>>

\* ... each is ignored ...
LeaveBlock(t, b) ==
    /\ work[t] = "clean" /\ b \in toClean[t]
    /\ UsedOnce(b) => Linked(b) \subseteq fileRows
    /\ IF UsedOnce(b)
       THEN DeIndex(b, Linked(b)) /\ Unpin(b)
       ELSE UNCHANGED <<tableVars, pinVars, unpinned>>
    /\ toClean' = [toClean EXCEPT ![t] = @ \ {b}]
    /\ UNCHANGED <<layout, filesRows, ignoreRows, work, failed>>

\* ... up to the first error, which RemoveThread logs before it deletes the
\* thread ...
LeaveFails(t, b) ==
    /\ work[t] = "clean" /\ b \in toClean[t]
    /\ UsedOnce(b) /\ Unpin(b) /\ DeIndexSome(b)
    /\ failed' = failed \cup {t}
    /\ toClean' = [toClean EXCEPT ![t] = {}]
    /\ At(t, "done")
    /\ UNCHANGED <<layout, filesRows, ignoreRows>>

\* ... and then the rows of all blocks of the thread are deleted.
LeaveEnd(t) ==
    /\ work[t] = "clean" /\ toClean[t] = {}
    /\ filesRows' = {b \in filesRows : layout.thread[b] # t}
    /\ ignoreRows' = {i \in ignoreRows : layout.thread[layout.target[i]] # t}
    /\ At(t, "done")
    /\ UNCHANGED <<layout, tableVars, pinVars, toClean, failed, unpinned>>

ShelfNext ==
    \/ \E b \in FilesBlock :
        \/ Prepare(b) \/ AddFiles(b) \/ CheckIgnored(b) \/ TakeFiles(b)
        \/ IndexFileData(b) \/ IndexFileDataFails(b) \/ IndexFiles(b)
    \/ \E i \in IgnoreBlock :
        BeginIgnore(i) \/ RemoveData(i) \/ RemoveFiles(i) \/ RemoveFilesFails(i) \/ IndexIgnore(i)
    \/ \E t \in ThreadId :
        BeginLeave(t) \/ LeaveEnd(t) \/ \E b \in FilesBlock : LeaveBlock(t, b) \/ LeaveFails(t, b)

ShelfSpec == ShelfInit /\ [][ShelfNext]_shelfVars

-----------------------------------------------------------------------------
IgnoredBy(b) == {i \in ignoreRows : layout.target[i] = b}
AllResting == \A x \in Piece : Resting(x)

\* The files of a block that nobody ignored are there: the data node is
\* pinned, and each of its files has a row and a pin, whatever other blocks
\* share them and in whichever order blocks are added, handled and ignored
\* and threads are left, one after the other.  (removeFiles: "unless they are
\* used by another block".)  An AddFiles that reports an error is left out, and
\* a block whose IGNORE ended with one.  A data node that was unpinned between
\* the preparation of a block and its AddFiles may stay unpinned; its files not.
FilesKept ==
    AllResting /\ ~layout.overlap =>
        \A b \in filesRows \ failed :
            /\ IgnoredBy(b) = {} /\ \A i \in failed \cap IgnoreBlock : layout.target[i] # b
            /\ layout.thread[b] \notin failed
            => /\ layout.data[b] \in pinnedData \/ b \in unpinned
               /\ \A f \in Linked(b) : f \in fileRows \cap pinnedFiles /\ layout.data[b] \in targets[f]

\* The user may still add a block with the data, or could not.
Prepared(d) ==
    \E b \in FilesBlock : layout.data[b] = d /\ (work[b] = "prepared" \/ b \in failed)

\* What was ignored goes: data that only the ignored block ever had is unpinned
\* and the target of no file, also when the IGNORE came before the block, and
\* no file without a target keeps a row or a pin.  What the user has prepared
\* and not added yet stays; so does data that a second block had at some time.
IgnoredGone ==
    AllResting /\ ~layout.overlap =>
        /\ \A b \in filesRows :
            /\ \A c \in FilesBlock : layout.data[c] = layout.data[b] => c = b
            /\ IgnoredBy(b) \ layout.skewed # {} /\ ~Prepared(layout.data[b])
            =>
                /\ layout.data[b] \notin pinnedData
                /\ \A f \in File : layout.data[b] \notin targets[f]
        /\ \A f \in fileRows \cup pinnedFiles :
            targets[f] # {} \/ \E d \in Datum : f \in layout.files[d] /\ Prepared(d)

\* A FILES block of another member fails, and is not indexed, only over a file
\* that has a copy: the table has room for one of them, and the handler finds
\* no row for the other.  Nothing that was ignored, left, prepared or handled
\* before, and no failure of any of it, takes a row that a handler counts on.
LostToCopy ==
    AllResting /\ ~layout.overlap =>
        \A b \in (failed \cap FilesBlock) \ layout.local :
            \E f \in Linked(b) : \E g \in File \ {f} : layout.copyOf[f] = layout.copyOf[g]

\* Handling, ignoring and leaving in any order keep what a block still shows,
\* and nothing else, and lose only what a copy stands in the way of.
FilesSettled == FilesKept /\ IgnoredGone /\ LostToCopy
=============================================================================
