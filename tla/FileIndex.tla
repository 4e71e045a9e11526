----------------------------- MODULE FileIndex -----------------------------
(***************************************************************************)
(* From a file to the directory of files that a thread's schema asks for:  *)
(* schema/schema.go (Steps), AddFileIndex and AddNodeFrom... in            *)
(* core/files.go, the mills, the calls of mobile/files.go and              *)
(* core/api_mill.go, and the command that runs many of them at a time      *)
(* (cmd/files.go, millBatch).                                              *)
(*                                                                         *)
(* A content is an input at a width: 0 is what exif makes of it, a JSON    *)
(* document.  The hash of a file is its content and the key it is          *)
(* encrypted with, which is a new one each time.                           *)
(***************************************************************************)
EXTENDS Integers, Sequences, FiniteSets

CONSTANTS
    Jobs,       \* goroutines, each with a file to add
    Originals,  \* the files, before any mill
    Parcels     \* what may happen in a behaviour: see IsParcel

FileTag == ":file"
SingleFileTag == ":single"

-----------------------------------------------------------------------------
(* Contents, mills and checksums.                                            *)

Raw(i) == [of |-> i, width |-> 2]
Rejected == [of |-> "rejected", width |-> -1]

\* ImageResize.Mill: never larger than the image is.  A document is no image.
Resize(c, w) == IF c.width = 0 THEN Rejected ELSE [c EXCEPT !.width = IF w < @ THEN w ELSE @]

\* ImageExif.Mill: a document about the image.
Exif(c) == IF c.width = 0 THEN Rejected ELSE [c EXCEPT !.width = 0]

\* Json.Mill.
Json(c) == IF c.width = 0 THEN c ELSE Rejected

\* getMill, AcceptMedia and Mill.
Milled(l, c) ==
    CASE l.mill = "blob" -> c [] l.mill = "resize" -> Resize(c, l.width)
      [] l.mill = "exif" -> Exif(c) [] l.mill = "json" -> Json(c)

\* Options, with what AddFileIndex adds to them.
Options(l) == <<IF l.mill = "resize" THEN l.width ELSE 0, l.plain>>

\* Mutant: the checksum does not tell whether the file may be encrypted.
ChecksumShort(c, plain) == <<c, FALSE>>

checksum(c, plain) == <<c, plain>>

-----------------------------------------------------------------------------
Mills == {"blob", "resize", "exif", "json"}
Paths == {"http", "path", "data"}
Encoded == [of : Originals, width : Nat]
FileHash == [content : Encoded, key : Int]

\* A row of the files table.
FileRow == [mill : Mills, check : Encoded \X BOOLEAN, source : Encoded \X BOOLEAN,
            opts : Nat \X BOOLEAN, hash : FileHash]

\* It was made by AddFileIndex: the output of its mill with its options for
\* its source, with a key unless it is plain.
Made(f) ==
    /\ f.hash.content = Milled([mill |-> f.mill, width |-> f.opts[1]], f.source[1])
    /\ f.check = checksum(f.hash.content, f.opts[2])
    /\ f.opts[2] <=> f.hash.key = 0

\* links: of the schema, or of its mill; via: "http", or the mobile calls
\* AddFiles ("path") and AddData ("data"); input: the file of each job; remote:
\* files that come with the blocks of others, whose nodes made them; removes:
\* whether blocks are ignored meanwhile.
IsParcel(p) ==
    /\ DOMAIN p = {"links", "via", "input", "remote", "removes"}
    /\ DOMAIN p.links # {} /\ IsFiniteSet(DOMAIN p.links)
    /\ \A l \in DOMAIN p.links :
        /\ DOMAIN p.links[l] = {"mill", "width", "use", "plain"}
        /\ p.links[l].mill \in Mills
        /\ p.links[l].width \in Nat /\ p.links[l].plain \in BOOLEAN
    /\ SingleFileTag \in DOMAIN p.links =>
        DOMAIN p.links = {SingleFileTag} /\ p.links[SingleFileTag].use = FileTag
    /\ p.via \in Paths /\ p.removes \in BOOLEAN
    /\ p.input \in [Jobs -> Originals]
    /\ p.remote \subseteq FileRow /\ \A f \in p.remote : Made(f)

ASSUME FileIndexAssumption == \A p \in Parcels : IsParcel(p)

VARIABLES
    parcel,       \* chosen once: see Parcels
    files,      \* the files table
    used,       \* hashes of files that are a target
    keys,       \* how many keys were generated
    incoming,   \* remote files that are still to come
    adder         \* the goroutines

fiVars == <<parcel, files, used, keys, incoming, adder>>

NoFile == [mill |-> "none"]
NoConf == [source |-> "none"]
NoJob == [at |-> "idle", run |-> {}, unused |-> {}, round |-> 0, steps |-> <<>>,
          done |-> 0, conf |-> NoConf, new |-> NoFile, dir |-> [n \in {} |-> NoFile]]

Place == {"idle", "order", "configure", "lookup", "mill", "insert", "fetch", "node", "post",
          "done", "error", "panic"}

\* What a step starts from, and a job; the files that it has are by the name
\* of their link.
FileConf == [input : Encoded, source : Encoded \X BOOLEAN]
IsAdder(a) ==
    /\ DOMAIN a = {"at", "run", "unused", "round", "steps", "done", "conf", "new", "dir"}
    /\ a.at \in Place /\ a.run \cup a.unused \subseteq DOMAIN parcel.links
    /\ a.round \in 0..Cardinality(DOMAIN parcel.links)
    /\ a.steps \in Seq(DOMAIN parcel.links) /\ a.done \in 0..Len(a.steps)
    /\ a.conf \in {NoConf} \cup FileConf /\ a.new \in {NoFile} \cup FileRow
    /\ DOMAIN a.dir = {a.steps[i] : i \in 1..a.done}
    /\ \A n \in DOMAIN a.dir : a.dir[n] \in {NoFile} \cup FileRow

\* The table takes one of them only.
Twins(f, g) ==
    f.mill = g.mill /\ (f.check = g.check \/ (f.source = g.source /\ f.opts = g.opts))

FiTypeOK ==
    /\ parcel \in Parcels
    /\ files \subseteq FileRow /\ used \subseteq FileHash
    /\ \A f, g \in files : Twins(f, g) => f = g
    /\ keys \in Nat /\ incoming \subseteq parcel.remote
    /\ DOMAIN adder = Jobs /\ \A j \in Jobs : IsAdder(adder[j])

FiInit ==
    /\ parcel \in Parcels
    /\ files = {} /\ used = {} /\ keys = 0
    /\ incoming = parcel.remote
    /\ adder = [j \in Jobs |-> NoJob]

-----------------------------------------------------------------------------
(* The table.                                                                *)

GetBySource(m, s, o) == {f \in files : f.mill = m /\ f.source = s /\ f.opts = o}
GetByPrimary(m, c) == {f \in files : f.mill = m /\ f.check = c}
Get(h) == {f \in files : f.hash = h}

\* The primary key and the unique index.
Conflict(f) == GetByPrimary(f.mill, f.check) \cup GetBySource(f.mill, f.source, f.opts) # {}

-----------------------------------------------------------------------------
(* schema.Steps.                                                             *)

To(j, r) == adder' = [adder EXCEPT ![j] = r]
TableKept == UNCHANGED <<parcel, files, used, keys, incoming>>

\* buildDirectory and mill (of the command): a schema with a mill of its own
\* has no links, and makes one file.
BeginFile(j) ==
    /\ adder[j].at = "idle"
    /\ To(j, IF SingleFileTag \in DOMAIN parcel.links
             THEN [NoJob EXCEPT !.at = "configure", !.steps = <<SingleFileTag>>]
             ELSE [NoJob EXCEPT !.at = "order", !.run = DOMAIN parcel.links])
    /\ TableKept

InSteps(j, n) == \E i \in DOMAIN adder[j].steps : adder[j].steps[i] = n

\* orderLinks takes the links in any order: those that use the file go to the
\* front, those that use one that has its place to the end.
OrderLink(j, l) ==
    LET u == parcel.links[l].use IN
    /\ adder[j].at = "order" /\ l \in adder[j].run
    /\ To(j, [adder[j] EXCEPT
            !.run = @ \ {l},
            !.steps = IF u = FileTag THEN <<l>> \o @
                      ELSE IF InSteps(j, u) THEN Append(@, l) ELSE @,
            !.unused = IF u = FileTag \/ InSteps(j, u) THEN @ ELSE @ \cup {l}])
    /\ TableKept

\* Steps goes on with what is left, once more than there are links.
NextRound(j) ==
    /\ adder[j].at = "order" /\ adder[j].run = {}
    /\ To(j, IF adder[j].unused = {} THEN [adder[j] EXCEPT !.at = "configure"]
             ELSE IF adder[j].round = Cardinality(DOMAIN parcel.links)
             THEN [adder[j] EXCEPT !.at = "error"]
             ELSE [adder[j] EXCEPT !.run = adder[j].unused, !.unused = {}, !.round = @ + 1])
    /\ TableKept

-----------------------------------------------------------------------------
(* AddFileIndex, once for each step.                                         *)

Name(j) == adder[j].steps[adder[j].done + 1]
Link(j) == parcel.links[Name(j)]

\* What the step's Use gave.
UsedFile(j) ==
    IF Link(j).use \in DOMAIN adder[j].dir THEN adder[j].dir[Link(j).use] ELSE NoFile

\* getFileConfig: the input is the file, also for a link that uses another one
\* if the data was handed over, or the content of a file in the table, whose
\* checksum then is the source.
Configure(j) ==
    LET u == UsedFile(j)
        direct == Link(j).use = FileTag \/ (parcel.via = "data" /\ u # NoFile)
        found == {f \in files : u # NoFile /\ f.hash = u.hash}
    IN
    /\ adder[j].at = "configure"
    /\ \/ /\ direct
          /\ LET c == Raw(parcel.input[j]) IN
             To(j, [adder[j] EXCEPT !.at = "lookup",
                        !.conf = [input |-> c, source |-> checksum(c, Link(j).plain)]])
       \/ /\ ~direct
          /\ \E f \in found :
             To(j, [adder[j] EXCEPT !.at = "lookup",
                        !.conf = [input |-> f.hash.content, source |-> f.check]])
       \/ ~direct /\ found = {} /\ To(j, [adder[j] EXCEPT !.at = "error"])
    /\ TableKept

\* What the goroutine is when the step has its file.
WithFile(j, f) ==
    [adder[j] EXCEPT !.dir = [n \in DOMAIN @ \cup {Name(j)} |-> IF n = Name(j) THEN f ELSE @[n]],
                   !.done = @ + 1, !.conf = NoConf, !.new = NoFile,
                   !.at = IF adder[j].done + 1 = Len(adder[j].steps) THEN "node" ELSE "configure"]

\* The same input was milled with the same options.
Lookup(j) ==
    LET found == GetBySource(Link(j).mill, adder[j].conf.source, Options(Link(j))) IN
    /\ adder[j].at = "lookup"
    /\ IF found = {} THEN To(j, [adder[j] EXCEPT !.at = "mill"])
       ELSE \E f \in found : To(j, WithFile(j, f))
    /\ TableKept

\* Another input gave the same output; if none did, the output is encrypted
\* with a new key and added to the node.
MillFile(j) ==
    LET out   == Milled(Link(j), adder[j].conf.input)
        check == checksum(out, Link(j).plain)
        found == GetByPrimary(Link(j).mill, check)
    IN
    /\ adder[j].at = "mill"
    /\ \/ out = Rejected /\ To(j, [adder[j] EXCEPT !.at = "error"]) /\ keys' = keys
       \/ /\ out # Rejected /\ keys' = keys
          /\ \E f \in found : To(j, WithFile(j, f))
       \/ /\ out # Rejected /\ found = {}
          /\ keys' = IF Link(j).plain THEN keys ELSE keys + 1
          /\ To(j, [adder[j] EXCEPT !.at = "insert",
                !.new = [mill |-> Link(j).mill, check |-> check, source |-> adder[j].conf.source,
                         opts |-> Options(Link(j)),
                         hash |-> [content |-> out, key |-> IF Link(j).plain THEN 0 ELSE keys']]])
    /\ UNCHANGED <<parcel, files, used, incoming>>

\* Files().Add: a conflict is not an error ...
Insert(j) ==
    /\ adder[j].at = "insert"
    /\ files' = IF Conflict(adder[j].new) THEN files ELSE files \cup {adder[j].new}
    /\ To(j, [adder[j] EXCEPT !.at = "fetch"])
    /\ UNCHANGED <<parcel, used, keys, incoming>>

\* ... and the file is looked up by its hash, which is none of the winner's if
\* it is encrypted.  The API cannot render no file.
Fetch(j) ==
    LET found == Get(adder[j].new.hash) IN
    /\ adder[j].at = "fetch"
    /\ \/ \E f \in found : To(j, WithFile(j, f))
       \/ /\ found = {}
          /\ To(j, IF parcel.via = "http" THEN [adder[j] EXCEPT !.at = "error"] ELSE WithFile(j, NoFile))
    /\ TableKept

-----------------------------------------------------------------------------
(* The node and the block.                                                   *)

FilesOf(j) == {adder[j].dir[n] : n \in DOMAIN adder[j].dir}
HashesOf(j) == {f.hash : f \in FilesOf(j)}
HaveRows(j) == \A h \in HashesOf(j) : Get(h) # {}

\* AddNodeFromFiles, AddNodeFromDirs: fileNode for each file.
AddNode(j) ==
    /\ adder[j].at = "node"
    /\ To(j, [adder[j] EXCEPT !.at = IF NoFile \in FilesOf(j) THEN "panic"
                                   ELSE IF HaveRows(j) THEN "post" ELSE "error"])
    /\ TableKept

\* writeFiles, addThreadFiles: AddFiles makes the files targets.
Post(j) ==
    /\ adder[j].at = "post"
    /\ used' = used \cup {h \in HashesOf(j) : Get(h) # {}}
    /\ To(j, [adder[j] EXCEPT !.at = IF HaveRows(j) THEN "done" ELSE "error"])
    /\ UNCHANGED <<parcel, files, keys, incoming>>

\* handleFilesBlock adds the file of another member, unless a file of this node
\* has its checksum, and makes it a target.
Receive(f) ==
    /\ f \in incoming
    /\ incoming' = incoming \ {f}
    /\ files' = IF Conflict(f) THEN files ELSE files \cup {f}
    /\ used' = IF Conflict(f) THEN used ELSE used \cup {f.hash}
    /\ UNCHANGED <<parcel, keys, adder>>

\* deIndexFileLink: the last block with the file is ignored.
RemoveFiles(h) ==
    /\ parcel.removes /\ h \in used
    /\ files' = files \ Get(h)
    /\ used' = used \ {h}
    /\ UNCHANGED <<parcel, keys, incoming, adder>>

FiNext ==
    \/ \E j \in Jobs :
        \/ BeginFile(j) \/ NextRound(j) \/ \E l \in DOMAIN parcel.links : OrderLink(j, l)
        \/ Configure(j) \/ Lookup(j) \/ MillFile(j) \/ Insert(j) \/ Fetch(j)
        \/ AddNode(j) \/ Post(j)
    \/ \E f \in incoming : Receive(f)
    \/ \E h \in used : RemoveFiles(h)

FiSpec == FiInit /\ [][FiNext]_fiVars

-----------------------------------------------------------------------------
\* Every file of a directory that is posted is what its link asks for: the
\* mill's output of the file that the link uses, and encrypted if and only if
\* the link says so, whichever earlier file it was recognised as, by source or
\* by checksum, and whoever added that.
DirectoryRight ==
    \A j \in Jobs : \A n \in DOMAIN adder[j].dir :
        LET f == adder[j].dir[n]
            l == parcel.links[n]
            c == IF l.use = FileTag \/ parcel.via = "data" THEN Raw(parcel.input[j])
                 ELSE adder[j].dir[l.use].hash.content
        IN  f # NoFile => f.hash.content = Milled(l, c) /\ (f.hash.key = 0 <=> l.plain)

\* The links can be put in an order.
Solvable ==
    \/ DOMAIN parcel.links = {SingleFileTag}
    \/ \E at \in [DOMAIN parcel.links -> 1..Cardinality(DOMAIN parcel.links)] :
        \A l \in DOMAIN parcel.links :
            \/ parcel.links[l].use = FileTag
            \/ parcel.links[l].use \in DOMAIN parcel.links /\ at[parcel.links[l].use] < at[l]

\* Somebody else works on the same file: adds it too, sends it or removes it.
Crowded(j) ==
    \/ \E k \in Jobs \ {j} : parcel.input[k] = parcel.input[j]
    \/ \E f \in parcel.remote : f.hash.content.of = parcel.input[j]

\* A file fails for its own reasons only: an order is found for the links if
\* there is one, in whichever order they are looked at, and other files that
\* are added or removed at the same time do not matter unless they are the same.
FailsForReason ==
    \A j \in Jobs :
        /\ adder[j].at = "panic" => Crowded(j)
        /\ adder[j].at = "error" =>
            \/ ~Solvable
            \/ adder[j].steps # <<>> /\ adder[j].done < Len(adder[j].steps) /\ adder[j].conf # NoConf
               /\ Milled(Link(j), adder[j].conf.input) = Rejected
            \/ Crowded(j)
        /\ adder[j].at \in {"configure", "done"} => Solvable

\* A directory has the files its schema asks for, or an error of its own.
FilesRight == DirectoryRight /\ FailsForReason
=============================================================================
