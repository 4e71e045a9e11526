--------------------------- MODULE InvitesProofs ---------------------------
(***************************************************************************)
(* Invites for any threads, messages and occasions, and however many tasks *)
(* run at once, statements fail and processes die: InvitesSound follows    *)
(* from DeskInv.  Its core: a task marks what it shares with another one   *)
(* when it begins (Fights), so about what is not marked there is one kind  *)
(* of task, and between its steps the tables are as AddTidy, UpdateTidy    *)
(* and ThreadTidy say; the list of loaded threads and the table differ by  *)
(* the threads that are on their way, as long as one removal at a time has *)
(* read a position (Rostered).                                             *)
(*                                                                         *)
(* Backups, which restore threads as invites add them, for any devices,    *)
(* threads, batches and attempts: BackupsSound follows from BakInv, which  *)
(* says of each device that every request of a batch is in the table       *)
(* (Requests), that what a batch has read of a thread is what it is, or    *)
(* that a younger request waits for it (ReadRight), that a thread without  *)
(* its snapshot has something that will renew it (Renewed), and that one   *)
(* that goes is unstored after all that stores it (Unstored).              *)
(***************************************************************************)
EXTENDS Invites, Backups, FiniteSetTheorems, SequenceTheorems, TLAPS

Busy(k) == tasks[k] # NoTask
Th(k) == ThreadOf(tasks[k].what)
In(k, at, t) == tasks[k].at = at /\ Th(k) = t

\* What a task does, and where it may be.
Role(k) ==
    \/ tasks[k] = NoTask
    \/ /\ tasks[k].op = "handle" /\ tasks[k].what \in Adds
       /\ tasks[k].at \in {"look", "store", "note", "get", "row", "load", "join"}
    \/ /\ tasks[k].op = "handle" /\ tasks[k].what \in Updates
       /\ tasks[k].at \in {"look", "head", "note", "find", "leave", "delete", "drop"}
       /\ tasks[k].at \in {"find", "leave", "delete", "drop"} => Removal(tasks[k])
    \/ /\ tasks[k].op = "accept" /\ tasks[k].what \in Adds
       /\ tasks[k].at \in {"get", "row", "load", "join", "forget", "unnote"}
    \/ /\ tasks[k].op = "ignore" /\ tasks[k].what \in Adds
       /\ tasks[k].at \in {"forget", "unnote"}
    \/ /\ tasks[k].op = "remove" /\ tasks[k].what \in Threads
       /\ tasks[k].at \in {"find", "leave", "delete", "drop"}
    \/ /\ tasks[k].op = "add" /\ tasks[k].what \in Threads
       /\ tasks[k].at \in {"row", "load", "join"}
Roles == \A k \in Tasks : Role(k)

\* InviteKept, and what is going to be answered or forgotten is kept too.
Kept(i) == i \in waiting \cup refused \/ ThreadOf(i) \in entered
KeptBy(k) ==
    /\ tasks[k].at = "note" /\ tasks[k].what \in Adds => Kept(tasks[k].what)
    /\ tasks[k].at = "forget" => tasks[k].what \in refused \/ Th(k) \in entered
    /\ tasks[k].at \in {"load", "join"} => Th(k) \in entered
Keeps ==
    /\ ToSet(rows) \subseteq entered /\ ToSet(roster) \subseteq entered
    /\ \A i \in acked : Kept(i)
    /\ \A k \in Tasks : KeptBy(k)

\* The list and the table differ by the threads that are being loaded and by
\* the one that is being removed, whose position has not changed.
Loading(t) == \E k \in Tasks : In(k, "load", t)
Dropping(t) == \E k \in Tasks : In(k, "drop", t)
Differ(t) ==
    /\ \A j, k \in Tasks : In(j, "load", t) /\ In(k, "load", t) => j = k
    /\ HasRow(t) /\ ~Loaded(t) => Loading(t)
    /\ ~HasRow(t) /\ Loaded(t) => Dropping(t)
    /\ Loaded(t) /\ Loading(t) => Dropping(t)
    /\ HasRow(t) /\ Dropping(t) => Loading(t)
Placed(k) ==
    /\ Removing(k) => tasks[k].index \in DOMAIN roster /\ roster[tasks[k].index] = Th(k)
    /\ tasks[k].at \in {"leave", "delete", "load"} => HasRow(Th(k))
Intact ==
    /\ \A j, k \in Tasks : Removing(j) /\ Removing(k) => j = k
    /\ \A k \in Tasks : Placed(k)
    /\ \A t \in Threads : Differ(t)
Rostered ==
    /\ IsInjective(rows) /\ IsInjective(roster)
    /\ \A k \in Tasks : Removing(k) => tasks[k].index > 0
    /\ ~torn => Intact

\* Tasks that fight have blurred what they fight over.
Fights ==
    \A j, k \in Tasks : j # k /\ Busy(j) /\ Busy(k) => Shared(tasks[j], tasks[k]) \subseteq blurred

At(k, at, x) == tasks[k].at = at /\ tasks[k].what = x
TaskOn(at, x) == \E k \in Tasks : At(k, at, x)

\* The notifications of an invite that is clear, between the steps of tasks.
AddTidy(i) ==
    /\ TaskOn("note", i) => i \in waiting /\ notes[i] = 0
    /\ \A j, k \in Tasks : At(j, "note", i) /\ At(k, "note", i) => j = k
    /\ i \in waiting /\ ~TaskOn("note", i) => notes[i] = 1
    /\ i \notin waiting /\ ~TaskOn("unnote", i) => notes[i] = 0
    /\ TaskOn("unnote", i) => i \notin waiting

\* A block that is clear belongs to a thread that nobody is deleting.
UpdateTidy(u) ==
    /\ TaskOn("note", u) => u \in stored /\ notes[u] = 0
    /\ \A j, k \in Tasks : At(j, "note", u) /\ At(k, "note", u) => j = k
    /\ u \in stored /\ ~TaskOn("note", u) => notes[u] = 1
    /\ u \notin stored => notes[u] = 0
    /\ u \in stored => HasRow(ThreadOf(u))
    /\ \A k \in Tasks : In(k, "delete", ThreadOf(u)) => u \notin stored

\* A thread that is clear is joined, or will be, or is going.
ThreadTidy(t) ==
    /\ \A k \in Tasks : In(k, "row", t) /\ Loaded(t) => HasRow(t)
    /\ \A k \in Tasks : In(k, "load", t) => HasRow(t) /\ ~Loaded(t)
    /\ \A j, k \in Tasks : In(j, "load", t) /\ In(k, "load", t) => j = k
    /\ HasRow(t) =>
           t \in joined \/ \E k \in Tasks : \E at \in {"load", "join", "delete"} : In(k, at, t)

Tidies ==
    /\ \A i \in Adds \ blurred : AddTidy(i)
    /\ \A u \in Updates \ blurred : UpdateTidy(u)
    /\ \A t \in Threads \ blurred : ThreadTidy(t)

DeskInv == InvTypeOK /\ Roles /\ Keeps /\ Rostered /\ Fights /\ Tidies

-----------------------------------------------------------------------------
\* What the operators on sequences do to the threads in a list.
LEMMA PositionIs ==
    ASSUME NEW S, NEW s \in Seq(S), NEW t \in ToSet(s)
    PROVE  Position(s, t) \in 1..Len(s) /\ s[Position(s, t)] = t
  <1>1. \E i \in DOMAIN s : s[i] = t
    BY DEF ToSet
  <1>2. DOMAIN s = 1..Len(s)
    BY LenProperties
  <1> QED BY <1>1, <1>2 DEF Position

\* A thread that is new to a list is appended to it.
LEMMA AppendIs ==
    ASSUME NEW S, NEW s \in Seq(S), NEW t \in S
    PROVE  /\ Append(s, t) \in Seq(S) /\ ToSet(Append(s, t)) = ToSet(s) \cup {t}
           /\ IsInjective(s) /\ t \notin ToSet(s) => IsInjective(Append(s, t))
           /\ \A i \in DOMAIN s : i \in DOMAIN Append(s, t) /\ Append(s, t)[i] = s[i]
  <1>1. /\ Append(s, t) \in Seq(S) /\ Len(Append(s, t)) = Len(s) + 1
        /\ \A i \in 1..Len(s) : Append(s, t)[i] = s[i]
        /\ Append(s, t)[Len(s) + 1] = t
    BY AppendProperties
  <1> DEFINE r == Append(s, t)
  <1> HIDE DEF r
  <1>2. /\ DOMAIN s = 1..Len(s) /\ Len(s) \in Nat
        /\ r \in Seq(S) /\ DOMAIN r = 1..(Len(s) + 1)
        /\ \A i \in 1..Len(s) : r[i] = s[i]
        /\ r[Len(s) + 1] = t
    <2>1. r \in Seq(S) /\ Len(r) = Len(s) + 1
      BY <1>1 DEF r
    <2>2. DOMAIN r = 1..Len(r)
      BY <2>1, LenProperties
    <2> QED BY <1>1, <2>1, <2>2, LenProperties DEF r
  <1>3. ToSet(r) = ToSet(s) \cup {t}
    BY <1>2 DEF ToSet
  <1>4. IsInjective(s) /\ t \notin ToSet(s) => IsInjective(r)
    BY <1>2 DEF ToSet, IsInjective
  <1> QED BY <1>2, <1>3, <1>4 DEF r

\* The place that is removed takes one thread along, and no other.
LEMMA RemoveAtIs ==
    ASSUME NEW S, NEW s \in Seq(S), NEW n \in 1..Len(s), IsInjective(s)
    PROVE  /\ RemoveAt(s, n) \in Seq(S) /\ IsInjective(RemoveAt(s, n))
           /\ ToSet(RemoveAt(s, n)) = ToSet(s) \ {s[n]}
  <1> DEFINE a == SubSeq(s, 1, n - 1)
             b == SubSeq(s, n + 1, Len(s))
  <1>1. Len(s) \in Nat /\ DOMAIN s = 1..Len(s) /\ \A i \in 1..Len(s) : s[i] \in S
    BY LenProperties, ElementOfSeq
  <1>2. /\ a \in Seq(S) /\ Len(a) = n - 1
        /\ \A i \in 1..(n - 1) : a[i] = s[i]
    <2>1. \A i \in 1..(n - 1) : s[i] \in S
      BY <1>1
    <2>2. 1 \in Int /\ n - 1 \in Int
      BY <1>1
    <2>3. /\ a \in Seq(S) /\ Len(a) = (IF 1 <= n - 1 THEN (n - 1) - 1 + 1 ELSE 0)
          /\ \A i \in 1..((n - 1) - 1 + 1) : a[i] = s[1 + i - 1]
      BY <2>1, <2>2, SubSeqProperties
    <2> HIDE DEF a
    <2> QED BY <1>1, <2>3
  <1>3. /\ b \in Seq(S) /\ Len(b) = Len(s) - n
        /\ \A i \in 1..(Len(s) - n) : b[i] = s[n + i]
    <2>1. \A i \in (n + 1)..Len(s) : s[i] \in S
      BY <1>1
    <2>2. n + 1 \in Int /\ Len(s) \in Int
      BY <1>1
    <2>3. /\ b \in Seq(S) /\ Len(b) = (IF n + 1 <= Len(s) THEN Len(s) - (n + 1) + 1 ELSE 0)
          /\ \A i \in 1..(Len(s) - (n + 1) + 1) : b[i] = s[(n + 1) + i - 1]
      BY <2>1, <2>2, SubSeqProperties
    <2> HIDE DEF b
    <2>4. Len(b) = Len(s) - n
      <3>1. CASE n + 1 <= Len(s)
        <4>1. Len(b) = Len(s) - (n + 1) + 1
          BY <2>3, <3>1
        <4> QED BY <1>1, <4>1
      <3>2. CASE ~(n + 1 <= Len(s))
        <4>1. Len(s) \in Nat
          BY <1>1
        <4>2. Len(s) = n
          BY <3>2, <4>1
        <4>3. Len(b) = 0
          BY <2>3, <3>2
        <4> QED BY <4>1, <4>2, <4>3
      <3> QED BY <3>1, <3>2
    <2>5. ASSUME NEW i \in 1..(Len(s) - n) PROVE b[i] = s[n + i]
      <3>1. i \in 1..(Len(s) - (n + 1) + 1) /\ (n + 1) + i - 1 = n + i
        BY <1>1
      <3> QED BY <2>3, <3>1
    <2> QED BY <2>3, <2>4, <2>5
  <1> DEFINE r == RemoveAt(s, n)
  <1> HIDE DEF a, b
  <1> HIDE DEF r
  <1>4. /\ r \in Seq(S) /\ Len(r) = Len(a) + Len(b)
        /\ \A i \in 1..(Len(a) + Len(b)) : r[i] = IF i <= Len(a) THEN a[i] ELSE b[i - Len(a)]
    <2>1. r = a \o b
      BY DEF RemoveAt, a, b, r
    <2>2. /\ a \o b \in Seq(S) /\ Len(a \o b) = Len(a) + Len(b)
          /\ \A i \in 1..(Len(a) + Len(b)) :
                 (a \o b)[i] = IF i <= Len(a) THEN a[i] ELSE b[i - Len(a)]
      BY <1>2, <1>3, ConcatProperties
    <2> QED BY <2>1, <2>2
  <1>5. DOMAIN r = 1..(Len(s) - 1)
    BY <1>1, <1>2, <1>3, <1>4, LenProperties
  <1>9. Len(a) = n - 1 /\ Len(a) + Len(b) = Len(s) - 1 /\ Len(s) \in Nat
    BY <1>1, <1>2, <1>3
  <1>6. \A i \in 1..(Len(s) - 1) : r[i] = IF i < n THEN s[i] ELSE s[i + 1]
    <2> TAKE i \in 1..(Len(s) - 1)
    <2>1. CASE i < n
      <3>1. i \in 1..(Len(a) + Len(b)) /\ i <= Len(a) /\ i \in 1..(n - 1)
        BY <1>9, <2>1
      <3> QED BY <1>2, <1>4, <2>1, <3>1
    <2>2. CASE ~(i < n)
      <3>1. r[i] = b[i - (n - 1)]
        <4>1. i \in 1..(Len(a) + Len(b)) /\ ~(i <= Len(a)) /\ i - Len(a) = i - (n - 1)
          BY <1>9, <2>2
        <4> QED BY <1>4, <4>1
      <3>2. i - (n - 1) \in 1..(Len(s) - n) /\ n + (i - (n - 1)) = i + 1
        BY <1>1, <2>2
      <3> QED BY <1>3, <2>2, <3>1, <3>2
    <2> QED BY <2>1, <2>2
  <1>7. IsInjective(r)
    <2>1. SUFFICES ASSUME NEW i \in 1..(Len(s) - 1), NEW j \in 1..(Len(s) - 1), r[i] = r[j]
                   PROVE  i = j
      BY <1>5 DEF IsInjective
    <2> DEFINE f(k) == IF k < n THEN k ELSE k + 1
    <2>2. /\ f(i) \in DOMAIN s /\ f(j) \in DOMAIN s
          /\ r[i] = s[f(i)] /\ r[j] = s[f(j)]
      BY <1>1, <1>6
    <2>3. f(i) = f(j)
      <3> HIDE DEF f
      <3> QED BY <2>1, <2>2 DEF IsInjective
    <2> QED BY <1>1, <2>3
  <1>8. ToSet(r) = ToSet(s) \ {s[n]}
    <2>1. \A i \in 1..(Len(s) - 1) : r[i] \in ToSet(s) \ {s[n]}
      BY <1>1, <1>5, <1>6 DEF ToSet, IsInjective
    <2>2. ASSUME NEW i \in 1..Len(s), s[i] # s[n] PROVE s[i] \in ToSet(r)
      <3>1. CASE i < n
        <4>1. i \in 1..(Len(s) - 1) /\ r[i] = s[i]
          BY <1>1, <1>6, <3>1
        <4> QED BY <1>5, <4>1 DEF ToSet
      <3>2. CASE i > n
        <4>1. i - 1 \in 1..(Len(s) - 1) /\ r[i - 1] = s[i]
          BY <1>1, <1>6, <3>2
        <4> QED BY <1>5, <4>1 DEF ToSet
      <3> QED BY <1>1, <2>2, <3>1, <3>2
    <2> QED BY <1>1, <1>5, <2>1, <2>2 DEF ToSet
  <1> QED BY <1>4, <1>7, <1>8 DEF r

\* Any order will do for the rows that are there at first.
LEMMA SetToSeqIs ==
    ASSUME NEW S, IsFiniteSet(S)
    PROVE  /\ SetToSeq(S) \in Seq(S) /\ IsInjective(SetToSeq(S)) /\ ToSet(SetToSeq(S)) = S
  <1> DEFINE c == Cardinality(S)
  <1>1. c \in Nat /\ ExistsBijection(1..c, S)
    BY FS_CardinalityType
  <1> HIDE DEF c
  <1>2. PICK f \in [1..c -> S] : IsInjective(f)
    BY <1>1 DEF ExistsBijection, Bijection, Injection
  <1>3. SetToSeq(S) \in [1..c -> S] /\ IsInjective(SetToSeq(S))
    BY <1>2 DEF SetToSeq, c
  <1>4. Cardinality(1..c) = c
    BY <1>1, FS_Interval
  <1> DEFINE g == SetToSeq(S)
  <1> HIDE DEF g
  <1>5. g \in Injection(1..c, S)
    BY <1>3 DEF Injection, g, IsInjective
  <1>6. g \in Surjection(1..c, S)
    BY <1>4, <1>5, FS_Injection DEF c
  <1>7. g \in Seq(S)
    BY <1>1, <1>3, SeqDef DEF g
  <1>8. ToSet(g) = S
    BY <1>6 DEF Surjection, ToSet
  <1> QED BY <1>3, <1>7, <1>8 DEF g

-----------------------------------------------------------------------------
\* What was chosen is an occasion, and everything has a thread.
LEMMA OccasionIs ==
    ASSUME InvTypeOK
    PROVE  /\ occasion.of \in [Message -> Threads] /\ occasion.own \subseteq Message
           /\ occasion.leaves \subseteq Updates /\ occasion.copies \in [Message -> Nat]
           /\ occasion.start \subseteq Threads /\ IsFiniteSet(occasion.start)
           /\ \A x \in Message \cup Threads : ThreadOf(x) \in Threads
           /\ \A t \in Threads : ThreadOf(t) = t
           /\ \A m \in Message : ThreadOf(m) = occasion.of[m] /\ m \notin Threads
  <1>1. occasion \in Occasion
    BY InvitesAssumption DEF InvTypeOK
  <1>2. /\ occasion.of \in [Message -> Threads] /\ occasion.own \subseteq Message
        /\ occasion.leaves \subseteq Updates /\ occasion.copies \in [Message -> Nat]
        /\ occasion.start \subseteq Threads
    BY <1>1 DEF Occasion, Message
  <1>3. \A m \in Message : m \notin Threads
    BY InvitesAssumption DEF Message
  <1>4. IsFiniteSet(occasion.start)
    BY <1>2, InvitesAssumption, FS_Subset
  <1> QED BY <1>2, <1>3, <1>4 DEF ThreadOf

\* What a task that is somewhere may be at.
LEMMA RoleIs ==
    ASSUME InvTypeOK, Roles, NEW k \in Tasks
    PROVE  /\ tasks[k] = NoTask <=> tasks[k].at = "none"
           /\ tasks[k] # NoTask => tasks[k].what \in Message \cup Threads /\ Th(k) \in Threads
           /\ tasks[k].at = "look" => tasks[k].what \in Message /\ tasks[k].op = "handle"
           /\ tasks[k].at = "head" => tasks[k].what \in Updates /\ tasks[k].op = "handle"
           /\ tasks[k].at = "store" => tasks[k].what \in Adds /\ tasks[k].op = "handle"
           /\ tasks[k].at = "note" => tasks[k].what \in Message /\ tasks[k].op = "handle"
           /\ tasks[k].at = "get" => tasks[k].what \in Adds /\ tasks[k].op \in {"handle", "accept"}
           /\ tasks[k].at \in {"row", "load", "join"} =>
                  \/ tasks[k].what \in Adds /\ tasks[k].op \in {"handle", "accept"}
                  \/ tasks[k].what \in Threads /\ tasks[k].op = "add"
           /\ tasks[k].at \in {"forget", "unnote"} =>
                  tasks[k].what \in Adds /\ tasks[k].op \in {"accept", "ignore"}
           /\ tasks[k].at \in {"find", "leave", "delete", "drop"} => Removal(tasks[k])
  <1>1. tasks[k] \in Task
    BY DEF InvTypeOK
  <1>2. tasks[k] = NoTask => tasks[k].at = "none"
    BY DEF NoTask
  <1>3. tasks[k] # NoTask => tasks[k].what \in Message \cup Threads /\ tasks[k].at # "none"
    BY DEF Roles, Role, Message
  <1>4. tasks[k] # NoTask => Th(k) \in Threads
    BY <1>3, OccasionIs DEF Th
  <1>5. tasks[k].at # "none" => tasks[k] # NoTask
    BY <1>2
  <1> QED BY <1>2, <1>3, <1>4, <1>5 DEF Roles, Role, Removal, Message

\* A task goes on, ends or begins.
LEMMA GotoIs ==
    ASSUME InvTypeOK, NEW k \in Tasks, NEW at \in Steps, Goto(k, at)
    PROVE  /\ tasks' \in [Tasks -> Task]
           /\ \A j \in Tasks \ {k} : tasks'[j] = tasks[j]
           /\ tasks'[k].op = tasks[k].op /\ tasks'[k].what = tasks[k].what
           /\ tasks'[k].at = at /\ tasks'[k].index = tasks[k].index
  <1>1. tasks[k] \in Task
    BY DEF InvTypeOK
  <1>2. [tasks[k] EXCEPT !.at = at] \in Task
    BY <1>1 DEF Task
  <1> QED BY <1>1, <1>2 DEF Goto, InvTypeOK, Task

\* A task that ends is nothing any more.
LEMMA DoneIs ==
    ASSUME InvTypeOK, NEW k \in Tasks, Done(k)
    PROVE  /\ tasks' \in [Tasks -> Task]
           /\ \A j \in Tasks \ {k} : tasks'[j] = tasks[j]
           /\ tasks'[k] = NoTask /\ tasks'[k].at = "none" /\ ~Busy(k)'
  <1>1. NoTask \in Task
    BY DEF NoTask, Task, Steps
  <1> QED BY <1>1 DEF Done, InvTypeOK, NoTask, Busy

Advanced(k, A) ==
    /\ tasks' \in [Tasks -> Task] /\ \A j \in Tasks \ {k} : tasks'[j] = tasks[j]
    /\ \/ tasks'[k] = NoTask
       \/ /\ tasks'[k].op = tasks[k].op /\ tasks'[k].what = tasks[k].what
          /\ tasks'[k].at \in A

\* Both are a task that advances.
LEMMA GoesOn ==
    ASSUME InvTypeOK, NEW k \in Tasks, NEW A \in SUBSET Steps,
           Done(k) \/ \E at \in A : Goto(k, at)
    PROVE  Advanced(k, A)
  BY GotoIs, DoneIs DEF Advanced

\* A task that begins marks what it shares with those that are there.
LEMMA EnterIs ==
    ASSUME InvTypeOK, NEW k \in Tasks, NEW op \in {"handle", "accept", "ignore", "remove", "add"},
           NEW x \in Message \cup Threads, NEW at \in Steps, Enter(k, TaskAt(op, x, at))
    PROVE  /\ tasks[k] = NoTask /\ tasks[k].at = "none"
           /\ tasks' \in [Tasks -> Task]
           /\ \A j \in Tasks \ {k} : tasks'[j] = tasks[j]
           /\ tasks'[k].op = op /\ tasks'[k].what = x
           /\ tasks'[k].at = at /\ tasks'[k].index = 0
           /\ blurred \subseteq blurred' /\ blurred' \subseteq Message \cup Threads
           /\ \A j \in Tasks : tasks[j] # NoTask => Shared(tasks'[k], tasks[j]) \subseteq blurred'
  <1>1. TaskAt(op, x, at) \in Task
    BY DEF TaskAt, Task
  <1>2. tasks' = [tasks EXCEPT ![k] = TaskAt(op, x, at)] /\ tasks[k] = NoTask
    BY DEF Enter
  <1>3. tasks'[k] = TaskAt(op, x, at)
    BY <1>2 DEF InvTypeOK
  <1>4. blurred' = blurred \cup UNION {Shared(tasks'[k], tasks[j]) :
                                        j \in {j \in Tasks : tasks[j] # NoTask}}
    BY <1>3 DEF Enter
  <1>5. ASSUME NEW j \in Tasks PROVE Shared(tasks'[k], tasks[j]) \subseteq Message \cup Threads
    <2>1. ThreadOf(x) \in Threads
      BY OccasionIs
    <2>2. tasks'[k].what = x
      BY <1>3 DEF TaskAt
    <2> QED BY <2>1, <2>2 DEF Shared, Whole, BlocksIn
  <1>6. blurred \subseteq Message \cup Threads
    BY DEF InvTypeOK
  <1>7. blurred' \subseteq Message \cup Threads
    BY <1>4, <1>5, <1>6
  <1>8. \A j \in Tasks : tasks[j] # NoTask => Shared(tasks'[k], tasks[j]) \subseteq blurred'
    BY <1>4
  <1>9. blurred \subseteq blurred'
    BY <1>4
  <1> QED BY <1>1, <1>2, <1>3, <1>7, <1>8, <1>9 DEF InvTypeOK, TaskAt, NoTask

-----------------------------------------------------------------------------
\* Every step of a task that was there leads from one place to the next.
LEMMA PathIs ==
    ASSUME InvTypeOK, Roles, NEW k \in Tasks
    PROVE  /\ HandleStart(k) => tasks[k].at = "look" /\ Advanced(k, {"get", "store", "head"})
                   /\ occasion' = occasion
           /\ StoreInvite(k) => tasks[k].at = "store" /\ Advanced(k, {"note"})
                   /\ occasion' = occasion
           /\ HandleUpdate(k) => tasks[k].at = "head" /\ Advanced(k, {"note"})
                   /\ occasion' = occasion
           /\ SendNotification(k) => tasks[k].at = "note" /\ Advanced(k, {"find"})
                   /\ occasion' = occasion
           /\ CheckThread(k) => tasks[k].at = "get" /\ Advanced(k, {"row", "forget"})
                   /\ occasion' = occasion
           /\ AddRow(k) => tasks[k].at = "row" /\ Advanced(k, {"load"}) /\ occasion' = occasion
           /\ LoadThread(k) => tasks[k].at = "load" /\ Advanced(k, {"join"})
                   /\ occasion' = occasion
           /\ JoinThread(k) => tasks[k].at = "join" /\ Advanced(k, {"forget"})
                   /\ occasion' = occasion
           /\ ForgetInvite(k) => tasks[k].at = "forget" /\ Advanced(k, {"unnote"})
                   /\ occasion' = occasion
           /\ ForgetNote(k) => tasks[k].at = "unnote" /\ Advanced(k, {}) /\ occasion' = occasion
           /\ ThreadLeave(k) => tasks[k].at = "leave" /\ Advanced(k, {"delete"})
                   /\ occasion' = occasion
           /\ DeleteRow(k) => tasks[k].at = "delete" /\ Advanced(k, {"drop"})
                   /\ occasion' = occasion
           /\ TaskFails(k) => tasks[k].at # "none" /\ Advanced(k, {"delete"})
                   /\ occasion' = occasion
  <1> USE DEF Steps
  <1>1. ASSUME HandleStart(k)
        PROVE  tasks[k].at = "look" /\ Advanced(k, {"get", "store", "head"}) /\ occasion' = occasion
    <2>1. /\ tasks[k].at = "look" /\ occasion' = occasion
          /\ Done(k) \/ \E at \in {"get", "store", "head"} : Goto(k, at)
      BY <1>1 DEF HandleStart, deskVars
    <2> QED BY <2>1, GoesOn
  <1>2. ASSUME StoreInvite(k)
        PROVE  tasks[k].at = "store" /\ Advanced(k, {"note"}) /\ occasion' = occasion
    <2>1. /\ tasks[k].at = "store" /\ occasion' = occasion
          /\ Done(k) \/ \E at \in {"note"} : Goto(k, at)
      BY <1>2 DEF StoreInvite, deskVars
    <2> QED BY <2>1, GoesOn
  <1>3. ASSUME HandleUpdate(k)
        PROVE  tasks[k].at = "head" /\ Advanced(k, {"note"}) /\ occasion' = occasion
    <2>1. /\ tasks[k].at = "head" /\ occasion' = occasion
          /\ Done(k) \/ \E at \in {"note"} : Goto(k, at)
      BY <1>3 DEF HandleUpdate, deskVars
    <2> QED BY <2>1, GoesOn
  <1>4. ASSUME SendNotification(k)
        PROVE  tasks[k].at = "note" /\ Advanced(k, {"find"}) /\ occasion' = occasion
    <2>1. /\ tasks[k].at = "note" /\ occasion' = occasion
          /\ Done(k) \/ \E at \in {"find"} : Goto(k, at)
      BY <1>4 DEF SendNotification, deskVars
    <2> QED BY <2>1, GoesOn
  <1>5. ASSUME CheckThread(k)
        PROVE  tasks[k].at = "get" /\ Advanced(k, {"row", "forget"}) /\ occasion' = occasion
    <2>1. /\ tasks[k].at = "get" /\ occasion' = occasion
          /\ Done(k) \/ \E at \in {"row", "forget"} : Goto(k, at)
      BY <1>5 DEF CheckThread, deskVars
    <2> QED BY <2>1, GoesOn
  <1>6. ASSUME AddRow(k)
        PROVE  tasks[k].at = "row" /\ Advanced(k, {"load"}) /\ occasion' = occasion
    <2>1. /\ tasks[k].at = "row" /\ occasion' = occasion
          /\ Done(k) \/ \E at \in {"load"} : Goto(k, at)
      BY <1>6 DEF AddRow, deskVars
    <2> QED BY <2>1, GoesOn
  <1>7. ASSUME LoadThread(k)
        PROVE  tasks[k].at = "load" /\ Advanced(k, {"join"}) /\ occasion' = occasion
    <2>1. /\ tasks[k].at = "load" /\ occasion' = occasion
          /\ Done(k) \/ \E at \in {"join"} : Goto(k, at)
      BY <1>7 DEF LoadThread, deskVars
    <2> QED BY <2>1, GoesOn
  <1>8. ASSUME JoinThread(k)
        PROVE  tasks[k].at = "join" /\ Advanced(k, {"forget"}) /\ occasion' = occasion
    <2>1. /\ tasks[k].at = "join" /\ occasion' = occasion
          /\ Done(k) \/ \E at \in {"forget"} : Goto(k, at)
      BY <1>8 DEF JoinThread, deskVars
    <2> QED BY <2>1, GoesOn
  <1>9. ASSUME ForgetInvite(k)
        PROVE  tasks[k].at = "forget" /\ Advanced(k, {"unnote"}) /\ occasion' = occasion
    <2>1. /\ tasks[k].at = "forget" /\ occasion' = occasion
          /\ Done(k) \/ \E at \in {"unnote"} : Goto(k, at)
      BY <1>9 DEF ForgetInvite, deskVars
    <2> QED BY <2>1, GoesOn
  <1>10. ASSUME ForgetNote(k)
        PROVE  tasks[k].at = "unnote" /\ Advanced(k, {}) /\ occasion' = occasion
    <2>1. /\ tasks[k].at = "unnote" /\ occasion' = occasion
          /\ Done(k) \/ \E at \in {} : Goto(k, at)
      BY <1>10 DEF ForgetNote, deskVars
    <2> QED BY <2>1, GoesOn
  <1>11. ASSUME ThreadLeave(k)
        PROVE  tasks[k].at = "leave" /\ Advanced(k, {"delete"}) /\ occasion' = occasion
    <2>1. /\ tasks[k].at = "leave" /\ occasion' = occasion
          /\ Done(k) \/ \E at \in {"delete"} : Goto(k, at)
      BY <1>11 DEF ThreadLeave, deskVars
    <2> QED BY <2>1, GoesOn
  <1>12. ASSUME DeleteRow(k)
        PROVE  tasks[k].at = "delete" /\ Advanced(k, {"drop"}) /\ occasion' = occasion
    <2>1. /\ tasks[k].at = "delete" /\ occasion' = occasion
          /\ Done(k) \/ \E at \in {"drop"} : Goto(k, at)
      BY <1>12 DEF DeleteRow, deskVars
    <2> QED BY <2>1, GoesOn
  <1>13. ASSUME TaskFails(k)
         PROVE  tasks[k].at # "none" /\ Advanced(k, {"delete"}) /\ occasion' = occasion
    <2>1. /\ tasks[k].at # "none" /\ occasion' = occasion
          /\ Done(k) \/ \E at \in {"delete"} : Goto(k, at)
      BY <1>13 DEF TaskFails
    <2> QED BY <2>1, GoesOn
  <1> QED BY <1>1, <1>2, <1>3, <1>4, <1>5, <1>6, <1>7, <1>8, <1>9, <1>10, <1>11, <1>12, <1>13

\* A task that begins is one of five.
Enters(k) ==
    \/ \E m \in Message : HandleMessage(k, m)
    \/ \E i \in Adds : AcceptInvite(k, i) \/ IgnoreInvite(k, i)
    \/ \E t \in Threads : AddThread(k, t) \/ RemoveThread(k, t)

Entered(k) ==
    /\ tasks' \in [Tasks -> Task] /\ \A j \in Tasks \ {k} : tasks'[j] = tasks[j]
    /\ tasks[k] = NoTask /\ tasks[k].at = "none" /\ Role(k)'
    /\ tasks'[k].at \in {"look", "get", "forget", "row", "find"}
    /\ tasks'[k].at = "forget" => tasks'[k].what \in refused'
    /\ tasks'[k].at = "row" => tasks'[k].what \in Threads \ entered
    /\ blurred \subseteq blurred' /\ blurred' \subseteq Message \cup Threads
    /\ \A j \in Tasks : tasks[j] # NoTask => Shared(tasks'[k], tasks[j]) \subseteq blurred'
    /\ refused \subseteq refused' /\ refused' \subseteq Adds /\ copies' \in [Message -> Nat]
    /\ UNCHANGED <<occasion, rows, roster, joined, stored, waiting, notes, acked, entered, torn,
                   breaks>>

\* What all beginnings have in common.
LEMMA EntersIs ==
    ASSUME InvTypeOK, NEW k \in Tasks, Enters(k)
    PROVE  Entered(k)
  <1>0. Adds \subseteq Message /\ refused \subseteq Adds /\ copies \in [Message -> Nat]
    BY DEF Message, InvTypeOK
  <1>a. /\ "look" \in Steps /\ "get" \in Steps /\ "forget" \in Steps
        /\ "row" \in Steps /\ "find" \in Steps
    BY DEF Steps
  <1>b. \A m \in Message : m \in Message \cup Threads
    OBVIOUS
  <1>c. \A t \in Threads : t \in Message \cup Threads
    OBVIOUS
  <1>1. ASSUME NEW m \in Message, HandleMessage(k, m) PROVE Entered(k)
    <2>1. Enter(k, TaskAt("handle", m, "look"))
      BY <1>1 DEF HandleMessage
    <2>2. /\ tasks[k] = NoTask /\ tasks[k].at = "none" /\ tasks' \in [Tasks -> Task]
          /\ \A j \in Tasks \ {k} : tasks'[j] = tasks[j]
          /\ tasks'[k].op = "handle" /\ tasks'[k].what = m /\ tasks'[k].at = "look"
          /\ blurred \subseteq blurred' /\ blurred' \subseteq Message \cup Threads
          /\ \A j \in Tasks : tasks[j] # NoTask => Shared(tasks'[k], tasks[j]) \subseteq blurred'
      BY <1>0, <1>a, <1>b, <2>1, EnterIs
    <2>3. Role(k)'
      BY <2>2 DEF Role, Message
    <2> QED BY <1>0, <1>1, <2>2, <2>3 DEF HandleMessage, Entered
  <1>2. ASSUME NEW i \in Adds, AcceptInvite(k, i) PROVE Entered(k)
    <2>1. Enter(k, TaskAt("accept", i, "get"))
      BY <1>2 DEF AcceptInvite
    <2>2. /\ tasks[k] = NoTask /\ tasks[k].at = "none" /\ tasks' \in [Tasks -> Task]
          /\ \A j \in Tasks \ {k} : tasks'[j] = tasks[j]
          /\ tasks'[k].op = "accept" /\ tasks'[k].what = i /\ tasks'[k].at = "get"
          /\ blurred \subseteq blurred' /\ blurred' \subseteq Message \cup Threads
          /\ \A j \in Tasks : tasks[j] # NoTask => Shared(tasks'[k], tasks[j]) \subseteq blurred'
      BY <1>0, <1>a, <1>b, <2>1, EnterIs
    <2>3. Role(k)'
      BY <2>2 DEF Role, Message
    <2> QED BY <1>0, <1>2, <2>2, <2>3 DEF AcceptInvite, Entered
  <1>3. ASSUME NEW i \in Adds, IgnoreInvite(k, i) PROVE Entered(k)
    <2>1. Enter(k, TaskAt("ignore", i, "forget"))
      BY <1>3 DEF IgnoreInvite
    <2>2. /\ tasks[k] = NoTask /\ tasks[k].at = "none" /\ tasks' \in [Tasks -> Task]
          /\ \A j \in Tasks \ {k} : tasks'[j] = tasks[j]
          /\ tasks'[k].op = "ignore" /\ tasks'[k].what = i /\ tasks'[k].at = "forget"
          /\ blurred \subseteq blurred' /\ blurred' \subseteq Message \cup Threads
          /\ \A j \in Tasks : tasks[j] # NoTask => Shared(tasks'[k], tasks[j]) \subseteq blurred'
      BY <1>0, <1>a, <1>b, <2>1, EnterIs
    <2>3. Role(k)'
      BY <2>2 DEF Role, Message
    <2> QED BY <1>0, <1>3, <2>2, <2>3 DEF IgnoreInvite, Entered
  <1>4. ASSUME NEW t \in Threads, AddThread(k, t) PROVE Entered(k)
    <2>1. Enter(k, TaskAt("add", t, "row"))
      BY <1>4 DEF AddThread
    <2>2. /\ tasks[k] = NoTask /\ tasks[k].at = "none" /\ tasks' \in [Tasks -> Task]
          /\ \A j \in Tasks \ {k} : tasks'[j] = tasks[j]
          /\ tasks'[k].op = "add" /\ tasks'[k].what = t /\ tasks'[k].at = "row"
          /\ blurred \subseteq blurred' /\ blurred' \subseteq Message \cup Threads
          /\ \A j \in Tasks : tasks[j] # NoTask => Shared(tasks'[k], tasks[j]) \subseteq blurred'
      BY <1>0, <1>a, <1>c, <2>1, EnterIs
    <2>3. Role(k)'
      BY <2>2 DEF Role, Message
    <2> QED BY <1>0, <1>4, <2>2, <2>3 DEF AddThread, Entered
  <1>5. ASSUME NEW t \in Threads, RemoveThread(k, t) PROVE Entered(k)
    <2>1. Enter(k, TaskAt("remove", t, "find"))
      BY <1>5 DEF RemoveThread
    <2>2. /\ tasks[k] = NoTask /\ tasks[k].at = "none" /\ tasks' \in [Tasks -> Task]
          /\ \A j \in Tasks \ {k} : tasks'[j] = tasks[j]
          /\ tasks'[k].op = "remove" /\ tasks'[k].what = t /\ tasks'[k].at = "find"
          /\ blurred \subseteq blurred' /\ blurred' \subseteq Message \cup Threads
          /\ \A j \in Tasks : tasks[j] # NoTask => Shared(tasks'[k], tasks[j]) \subseteq blurred'
      BY <1>0, <1>a, <1>c, <2>1, EnterIs
    <2>3. Role(k)'
      BY <2>2 DEF Role, Message
    <2> QED BY <1>0, <1>5, <2>2, <2>3 DEF RemoveThread, Entered
  <1> QED BY <1>1, <1>2, <1>3, <1>4, <1>5 DEF Enters

-----------------------------------------------------------------------------
\* The types of the tables and the roles of the tasks survive every step.
LEMMA RoleStays ==
    ASSUME Roles, NEW k \in Tasks, occasion' = occasion, Role(k)',
           \A j \in Tasks \ {k} : tasks'[j] = tasks[j]
    PROVE  Roles'
  <1>1. ASSUME NEW j \in Tasks \ {k} PROVE Role(j)'
    BY <1>1 DEF Roles, Role, Removal
  <1> QED BY <1>1 DEF Roles

\* After a restart no task is left, and every row is loaded.
LEMMA RestartIs ==
    ASSUME InvTypeOK, NEW k \in Tasks, Restart(k), occasion' = occasion
    PROVE  /\ tasks' \in [Tasks -> Task] /\ \A j \in Tasks : tasks'[j] = NoTask
           /\ roster' = rows' /\ torn' = FALSE /\ blurred \subseteq blurred'
           /\ Roles'
  <1>1. NoTask \in Task
    BY DEF NoTask, Task, Steps
  <1> QED BY <1>1 DEF Restart, Roles, Role

\* What a restart marks are messages and threads.
LEMMA RestartBlurs ==
    ASSUME InvTypeOK, Roles, NEW k \in Tasks, Restart(k)
    PROVE  blurred' \subseteq Message \cup Threads
  <1>1. ASSUME NEW j \in Tasks, tasks[j] # NoTask
        PROVE  Whole(ThreadOf(tasks[j].what)) \subseteq Message \cup Threads
    <2>1. ThreadOf(tasks[j].what) \in Threads
      BY <1>1, RoleIs DEF Th
    <2> QED BY <2>1 DEF Whole, BlocksIn
  <1>2. blurred \subseteq Message \cup Threads
    BY DEF InvTypeOK
  <1> QED BY <1>1, <1>2 DEF Restart

\* The type invariant is inductive together with the roles.
LEMMA DeskTypes ==
    ASSUME InvTypeOK, Roles, Rostered, InvNext
    PROVE  InvTypeOK' /\ Roles'
  <1> USE DEF Steps
  <1>0. /\ \A n \in Nat : n + 1 \in Nat
        /\ \A t \in Threads : BlocksIn(t) \subseteq Message /\ Whole(t) \subseteq Message \cup Threads
        /\ Adds \subseteq Message /\ Updates \subseteq Message
    BY DEF BlocksIn, Whole, Message
  <1>1. ASSUME NEW k \in Tasks, Enters(k) PROVE InvTypeOK' /\ Roles'
    <2>1. Entered(k)
      BY <1>1, EntersIs
    <2>2. InvTypeOK'
      BY <2>1 DEF Entered, InvTypeOK
    <2> QED BY <2>1, <2>2, RoleStays DEF Entered
  <1>2. ASSUME NEW k \in Tasks, HandleStart(k) PROVE InvTypeOK' /\ Roles'
    <2>1. Role(k) /\ tasks[k].at = "look" /\ Advanced(k, {"get", "store", "head"}) /\ occasion' = occasion
      BY <1>2, PathIs DEF Roles
    <2>3. /\ tasks'[k].at = "head" => tasks[k].what \in Updates
          /\ tasks'[k].at \in {"get", "store"} => tasks[k].what \in Adds
      BY <1>2, <2>1, GotoIs, DoneIs DEF HandleStart
    <2>4. Role(k)'
      BY <2>1, <2>3, InvitesAssumption DEF Role, Removal, Advanced, Message, NoTask
    <2>5. InvTypeOK'
      BY <1>2, <1>0, <2>1, RoleIs DEF HandleStart, InvTypeOK, Advanced, deskVars
    <2> QED BY <2>1, <2>4, <2>5, RoleStays DEF Advanced
  <1>3. ASSUME NEW k \in Tasks, StoreInvite(k) PROVE InvTypeOK' /\ Roles'
    <2>1. Role(k) /\ tasks[k].at = "store" /\ Advanced(k, {"note"}) /\ occasion' = occasion
      BY <1>3, PathIs DEF Roles
    <2>4. Role(k)'
      BY <2>1, InvitesAssumption DEF Role, Removal, Advanced, Message, NoTask
    <2>5. InvTypeOK'
      BY <1>3, <1>0, <2>1, RoleIs DEF StoreInvite, InvTypeOK, Advanced, deskVars
    <2> QED BY <2>1, <2>4, <2>5, RoleStays DEF Advanced
  <1>4. ASSUME NEW k \in Tasks, HandleUpdate(k) PROVE InvTypeOK' /\ Roles'
    <2>1. Role(k) /\ tasks[k].at = "head" /\ Advanced(k, {"note"}) /\ occasion' = occasion
      BY <1>4, PathIs DEF Roles
    <2>4. Role(k)'
      BY <2>1, InvitesAssumption DEF Role, Removal, Advanced, Message, NoTask
    <2>5. InvTypeOK'
      BY <1>4, <1>0, <2>1, RoleIs DEF HandleUpdate, InvTypeOK, Advanced, deskVars
    <2> QED BY <2>1, <2>4, <2>5, RoleStays DEF Advanced
  <1>5. ASSUME NEW k \in Tasks, SendNotification(k) PROVE InvTypeOK' /\ Roles'
    <2>1. Role(k) /\ tasks[k].at = "note" /\ Advanced(k, {"find"}) /\ occasion' = occasion
      BY <1>5, PathIs DEF Roles
    <2>3. /\ tasks'[k].at = "find" => tasks[k].what \in occasion.own \cap occasion.leaves
      BY <1>5, <2>1, GotoIs, DoneIs DEF SendNotification
    <2>4. Role(k)'
      BY <2>1, <2>3, InvitesAssumption, OccasionIs DEF Role, Removal, Advanced, Message, NoTask
    <2>5. InvTypeOK'
      BY <1>5, <1>0, <2>1, RoleIs DEF SendNotification, InvTypeOK, Advanced, deskVars
    <2> QED BY <2>1, <2>4, <2>5, RoleStays DEF Advanced
  <1>6. ASSUME NEW k \in Tasks, CheckThread(k) PROVE InvTypeOK' /\ Roles'
    <2>1. Role(k) /\ tasks[k].at = "get" /\ Advanced(k, {"row", "forget"}) /\ occasion' = occasion
      BY <1>6, PathIs DEF Roles
    <2>3. /\ tasks'[k].at = "forget" => tasks[k].op = "accept"
      BY <1>6, <2>1, GotoIs, DoneIs DEF CheckThread
    <2>4. Role(k)'
      BY <2>1, <2>3, InvitesAssumption DEF Role, Removal, Advanced, Message, NoTask
    <2>5. InvTypeOK'
      BY <1>6, <1>0, <2>1, RoleIs DEF CheckThread, InvTypeOK, Advanced, deskVars
    <2> QED BY <2>1, <2>4, <2>5, RoleStays DEF Advanced
  <1>7. ASSUME NEW k \in Tasks, AddRow(k) PROVE InvTypeOK' /\ Roles'
    <2>1. Role(k) /\ tasks[k].at = "row" /\ Advanced(k, {"load"}) /\ occasion' = occasion
      BY <1>7, PathIs DEF Roles
    <2>4. Role(k)'
      BY <2>1, InvitesAssumption DEF Role, Removal, Advanced, Message, NoTask
    <2>5. InvTypeOK'
      <3>1. ThreadOf(tasks[k].what) \in Threads
        BY <2>1, RoleIs DEF Th
      <3>2. Append(rows, ThreadOf(tasks[k].what)) \in Seq(Threads)
        BY <3>1, AppendProperties DEF InvTypeOK
      <3> QED BY <1>7, <2>1, <3>1, <3>2 DEF AddRow, InvTypeOK, Advanced
    <2> QED BY <2>1, <2>4, <2>5, RoleStays DEF Advanced
  <1>8. ASSUME NEW k \in Tasks, LoadThread(k) PROVE InvTypeOK' /\ Roles'
    <2>1. Role(k) /\ tasks[k].at = "load" /\ Advanced(k, {"join"}) /\ occasion' = occasion
      BY <1>8, PathIs DEF Roles
    <2>4. Role(k)'
      BY <2>1, InvitesAssumption DEF Role, Removal, Advanced, Message, NoTask
    <2>5. InvTypeOK'
      <3>1. ThreadOf(tasks[k].what) \in Threads
        BY <2>1, RoleIs DEF Th
      <3>2. Append(roster, ThreadOf(tasks[k].what)) \in Seq(Threads)
        BY <3>1, AppendProperties DEF InvTypeOK
      <3> QED BY <1>8, <2>1, <3>1, <3>2 DEF LoadThread, InvTypeOK, Advanced
    <2> QED BY <2>1, <2>4, <2>5, RoleStays DEF Advanced
  <1>9. ASSUME NEW k \in Tasks, JoinThread(k) PROVE InvTypeOK' /\ Roles'
    <2>1. Role(k) /\ tasks[k].at = "join" /\ Advanced(k, {"forget"}) /\ occasion' = occasion
      BY <1>9, PathIs DEF Roles
    <2>3. /\ tasks'[k].at = "forget" => tasks[k].op = "accept"
      BY <1>9, <2>1, GotoIs, DoneIs DEF JoinThread
    <2>4. Role(k)'
      BY <2>1, <2>3, InvitesAssumption DEF Role, Removal, Advanced, Message, NoTask
    <2>5. InvTypeOK'
      <3>1. ThreadOf(tasks[k].what) \in Threads
        BY <2>1, RoleIs DEF Th
      <3> QED BY <1>9, <2>1, <3>1 DEF JoinThread, InvTypeOK, Advanced, deskVars
    <2> QED BY <2>1, <2>4, <2>5, RoleStays DEF Advanced
  <1>10. ASSUME NEW k \in Tasks, ForgetInvite(k) PROVE InvTypeOK' /\ Roles'
    <2>1. Role(k) /\ tasks[k].at = "forget" /\ Advanced(k, {"unnote"}) /\ occasion' = occasion
      BY <1>10, PathIs DEF Roles
    <2>4. Role(k)'
      BY <2>1, InvitesAssumption DEF Role, Removal, Advanced, Message, NoTask
    <2>5. InvTypeOK'
      BY <1>10, <1>0, <2>1, RoleIs DEF ForgetInvite, InvTypeOK, Advanced, deskVars
    <2> QED BY <2>1, <2>4, <2>5, RoleStays DEF Advanced
  <1>11. ASSUME NEW k \in Tasks, ForgetNote(k) PROVE InvTypeOK' /\ Roles'
    <2>1. Role(k) /\ tasks[k].at = "unnote" /\ Advanced(k, {}) /\ occasion' = occasion
      BY <1>11, PathIs DEF Roles
    <2>4. Role(k)'
      BY <2>1, InvitesAssumption DEF Role, Removal, Advanced, Message, NoTask
    <2>5. InvTypeOK'
      BY <1>11, <1>0, <2>1, RoleIs DEF ForgetNote, InvTypeOK, Advanced, deskVars
    <2> QED BY <2>1, <2>4, <2>5, RoleStays DEF Advanced
  <1>12. ASSUME NEW k \in Tasks, ThreadLeave(k) PROVE InvTypeOK' /\ Roles'
    <2>1. Role(k) /\ tasks[k].at = "leave" /\ Advanced(k, {"delete"}) /\ occasion' = occasion
      BY <1>12, PathIs DEF Roles
    <2>4. Role(k)'
      BY <2>1, InvitesAssumption DEF Role, Removal, Advanced, Message, NoTask
    <2>5. InvTypeOK'
      BY <1>12, <1>0, <2>1, RoleIs DEF ThreadLeave, InvTypeOK, Advanced, deskVars
    <2> QED BY <2>1, <2>4, <2>5, RoleStays DEF Advanced
  <1>13. ASSUME NEW k \in Tasks, DeleteRow(k) PROVE InvTypeOK' /\ Roles'
    <2>1. Role(k) /\ tasks[k].at = "delete" /\ Advanced(k, {"drop"}) /\ occasion' = occasion
      BY <1>13, PathIs DEF Roles
    <2>4. Role(k)'
      BY <2>1, InvitesAssumption DEF Role, Removal, Advanced, Message, NoTask
    <2>5. InvTypeOK'
      <3>1. ThreadOf(tasks[k].what) \in Threads
        BY <2>1, RoleIs DEF Th
      <3>2. rows' \in Seq(Threads)
        <4>1. CASE ~HasRow(ThreadOf(tasks[k].what))
          BY <1>13, <4>1 DEF DeleteRow, InvTypeOK
        <4>2. CASE HasRow(ThreadOf(tasks[k].what))
          <5>1. rows \in Seq(Threads) /\ IsInjective(rows)
            BY DEF InvTypeOK, Rostered
          <5>2. Position(rows, ThreadOf(tasks[k].what)) \in 1..Len(rows)
            BY <5>1, <4>2, PositionIs DEF HasRow
          <5>3. RemoveAt(rows, Position(rows, ThreadOf(tasks[k].what))) \in Seq(Threads)
            BY <5>1, <5>2, RemoveAtIs
          <5> QED BY <1>13, <4>2, <5>3 DEF DeleteRow
        <4> QED BY <4>1, <4>2
      <3> QED BY <1>13, <2>1, <3>2 DEF DeleteRow, InvTypeOK, Advanced, deskVars
    <2> QED BY <2>1, <2>4, <2>5, RoleStays DEF Advanced
  <1>14. ASSUME NEW k \in Tasks, FindLoaded(k) PROVE InvTypeOK' /\ Roles'
    <2>1. Role(k) /\ tasks[k].at = "find" /\ occasion' = occasion /\ Th(k) \in Threads
      BY <1>14, RoleIs DEF Roles, FindLoaded
    <2>2. tasks' \in [Tasks -> Task] /\ (\A j \in Tasks \ {k} : tasks'[j] = tasks[j]) /\ Role(k)'
      <3>1. CASE Done(k)
        BY <3>1, DoneIs DEF Role
      <3>2. CASE Loaded(Th(k))
        <4> DEFINE n == Position(roster, Th(k))
        <4>1. n \in Nat
          BY <3>2, PositionIs DEF Loaded, InvTypeOK
        <4>2. tasks' = [tasks EXCEPT ![k].at = "leave", ![k].index = n]
          BY <1>14, <3>2 DEF FindLoaded, Th
        <4> HIDE DEF n
        <4>3. tasks[k] \in Task
          BY DEF InvTypeOK
        <4>4. tasks'[k] = [tasks[k] EXCEPT !.at = "leave", !.index = n]
          BY <4>2 DEF InvTypeOK
        <4>5. /\ tasks'[k] \in Task /\ tasks'[k].op = tasks[k].op
              /\ tasks'[k].what = tasks[k].what /\ tasks'[k].at = "leave"
          BY <4>1, <4>3, <4>4 DEF Task
        <4>6. Role(k)'
          BY <2>1, <4>5, InvitesAssumption DEF Role, Removal, NoTask
        <4> QED BY <4>2, <4>5, <4>6 DEF InvTypeOK
      <3> QED BY <1>14, <3>1, <3>2 DEF FindLoaded, Th
    <2>3. torn' \in BOOLEAN
      BY <1>14 DEF FindLoaded, InvTypeOK
    <2>4. InvTypeOK'
      BY <1>14, <2>2, <2>3 DEF FindLoaded, InvTypeOK
    <2> QED BY <2>1, <2>2, <2>4, RoleStays
  <1>15. ASSUME NEW k \in Tasks, DropLoaded(k) PROVE InvTypeOK' /\ Roles'
    <2>1. tasks[k].at = "drop" /\ occasion' = occasion
      BY <1>15 DEF DropLoaded
    <2>2. tasks[k].index \in Nat /\ tasks[k].index > 0
      BY <2>1 DEF InvTypeOK, Task, Rostered, Removing
    <2>3. roster \in Seq(Threads) /\ IsInjective(roster) /\ Len(roster) \in Nat
      BY LenProperties DEF InvTypeOK, Rostered
    <2>4. CASE tasks[k].index <= Len(roster)
      <3>1. /\ roster' = RemoveAt(roster, tasks[k].index) /\ Done(k)
            /\ UNCHANGED <<rows, blurred, torn>>
        BY <1>15, <2>2, <2>3, <2>4 DEF DropLoaded
      <3>2. tasks[k].index \in 1..Len(roster)
        BY <2>2, <2>3, <2>4
      <3>3. roster' \in Seq(Threads)
        BY <2>3, <3>1, <3>2, RemoveAtIs
      <3>4. Advanced(k, {})
        BY <3>1, GoesOn
      <3>5. Role(k)'
        BY <3>4 DEF Role, Advanced
      <3>6. InvTypeOK'
        BY <1>15, <3>1, <3>3, <3>4 DEF DropLoaded, InvTypeOK, Advanced
      <3> QED BY <2>1, <3>4, <3>5, <3>6, RoleStays DEF Advanced
    <2>5. CASE ~(tasks[k].index <= Len(roster))
      <3>1. Restart(k) /\ UNCHANGED rows
        BY <1>15, <2>5 DEF DropLoaded
      <3>2. tasks' \in [Tasks -> Task] /\ roster' = rows' /\ torn' = FALSE /\ Roles'
        BY <2>1, <3>1, RestartIs
      <3>3. blurred' \subseteq Message \cup Threads
        BY <3>1, RestartBlurs
      <3>4. InvTypeOK'
        BY <1>15, <3>1, <3>2, <3>3 DEF DropLoaded, InvTypeOK
      <3> QED BY <3>2, <3>4
    <2> QED BY <2>4, <2>5
  <1>16. ASSUME NEW k \in Tasks, TaskFails(k) PROVE InvTypeOK' /\ Roles'
    <2>1. /\ Role(k) /\ occasion' = occasion /\ tasks[k].at # "none" /\ tasks[k].at # "look"
          /\ \/ Done(k)
             \/ tasks[k].at = "leave" /\ \E at \in {"delete"} : Goto(k, at)
      BY <1>16 DEF Roles, TaskFails
    <2>2. Advanced(k, {"delete"}) /\ (tasks[k].at = "leave" \/ tasks'[k] = NoTask)
      BY <2>1, GoesOn, DoneIs
    <2>3. Role(k)'
      BY <2>1, <2>2, InvitesAssumption DEF Role, Removal, Advanced, Message, NoTask
    <2>4. Whole(Th(k)) \subseteq Message \cup Threads
      BY <1>0, <2>1, RoleIs
    <2>5. breaks' \in 0..MaxBreaks /\ torn' \in BOOLEAN
      <3>1. breaks \in Nat /\ MaxBreaks \in Nat
        BY InvitesAssumption DEF InvTypeOK
      <3> QED BY <1>16, <3>1 DEF TaskFails, InvTypeOK
    <2>6. InvTypeOK'
      BY <1>16, <2>2, <2>4, <2>5 DEF TaskFails, InvTypeOK, Advanced, Th
    <2> QED BY <2>1, <2>2, <2>3, <2>6, RoleStays DEF Advanced
  <1>17. ASSUME ProcessDies PROVE InvTypeOK' /\ Roles'
    <2>1. PICK k \in Tasks : Restart(k) /\ UNCHANGED rows
      BY <1>17 DEF ProcessDies
    <2>2. tasks' \in [Tasks -> Task] /\ roster' = rows' /\ torn' = FALSE /\ Roles'
      BY <1>17, <2>1, RestartIs DEF ProcessDies
    <2>3. blurred' \subseteq Message \cup Threads
      BY <2>1, RestartBlurs
    <2>4. breaks' \in 0..MaxBreaks
      <3>1. breaks \in Nat /\ MaxBreaks \in Nat
        BY InvitesAssumption DEF InvTypeOK
      <3> QED BY <1>17, <3>1 DEF ProcessDies, InvTypeOK
    <2>5. InvTypeOK'
      BY <1>17, <2>1, <2>2, <2>3, <2>4 DEF ProcessDies, InvTypeOK
    <2> QED BY <2>2, <2>5
  <1> QED
    BY <1>1, <1>2, <1>3, <1>4, <1>5, <1>6, <1>7, <1>8, <1>9, <1>10, <1>11, <1>12, <1>13,
       <1>14, <1>15, <1>16, <1>17 DEF InvNext, Enters

-----------------------------------------------------------------------------
\* Tasks that fight have blurred what they fight over: a step either goes on
\* with tasks that were there, or begins one that fights from the start.
GoingOn == \A j \in Tasks : \/ tasks'[j] = NoTask
                            \/ /\ tasks[j] # NoTask
                               /\ tasks'[j].op = tasks[j].op /\ tasks'[j].what = tasks[j].what
Beginning(k) ==
    /\ tasks[k] = NoTask /\ \A j \in Tasks \ {k} : tasks'[j] = tasks[j]
    /\ \A j \in Tasks : tasks[j] # NoTask => Shared(tasks'[k], tasks[j]) \subseteq blurred'

\* The tasks that advance were there.
LEMMA AdvancedGoesOn ==
    ASSUME NEW k \in Tasks, NEW A, Advanced(k, A), tasks[k] # NoTask
    PROVE  GoingOn
  BY DEF Advanced, GoingOn

\* Marks are not taken back, whatever happens.
LEMMA StepIs ==
    ASSUME InvTypeOK, Roles, InvNext
    PROVE  /\ occasion' = occasion /\ blurred \subseteq blurred'
           /\ GoingOn \/ \E k \in Tasks : Beginning(k)
  <1> USE DEF Steps
  <1> DEFINE P == /\ occasion' = occasion /\ blurred \subseteq blurred'
                  /\ GoingOn \/ \E k \in Tasks : Beginning(k)
  <1>1. ASSUME NEW k \in Tasks, Enters(k) PROVE P
    <2>1. Entered(k)
      BY <1>1, EntersIs
    <2> QED BY <2>1 DEF Entered, Beginning
  <1>2. ASSUME NEW k \in Tasks,
               \/ HandleStart(k) \/ StoreInvite(k) \/ HandleUpdate(k) \/ SendNotification(k)
               \/ CheckThread(k) \/ AddRow(k) \/ LoadThread(k) \/ JoinThread(k)
               \/ ForgetInvite(k) \/ ForgetNote(k) \/ ThreadLeave(k) \/ DeleteRow(k) \/ TaskFails(k)
        PROVE  P
    <2>1. /\ occasion' = occasion /\ tasks[k].at # "none" /\ \E A : Advanced(k, A)
      BY <1>2, PathIs
    <2>2. blurred \subseteq blurred'
      BY <1>2 DEF HandleStart, StoreInvite, HandleUpdate, SendNotification, CheckThread, AddRow,
                  LoadThread, JoinThread, ForgetInvite, ForgetNote, ThreadLeave, DeleteRow,
                  TaskFails, deskVars
    <2> QED BY <2>1, <2>2, RoleIs, AdvancedGoesOn
  <1>3. ASSUME NEW k \in Tasks, FindLoaded(k) PROVE P
    <2>1. occasion' = occasion /\ blurred' = blurred /\ tasks[k].at = "find" /\ tasks[k] # NoTask
      BY <1>3, RoleIs DEF FindLoaded
    <2>2. CASE Done(k)
      BY <2>1, <2>2, DoneIs DEF GoingOn
    <2>3. CASE Loaded(Th(k))
      <3>1. tasks' = [tasks EXCEPT ![k].at = "leave", ![k].index = Position(roster, Th(k))]
        BY <1>3, <2>3 DEF FindLoaded, Th
      <3>2. tasks[k] \in Task
        BY DEF InvTypeOK
      <3>3. tasks'[k].op = tasks[k].op /\ tasks'[k].what = tasks[k].what
        BY <3>1, <3>2 DEF InvTypeOK, Task
      <3>4. \A j \in Tasks \ {k} : tasks'[j] = tasks[j]
        BY <3>1 DEF InvTypeOK
      <3> QED BY <2>1, <3>3, <3>4 DEF GoingOn
    <2> QED BY <1>3, <2>2, <2>3 DEF FindLoaded, Th
  <1>4. ASSUME NEW k \in Tasks, DropLoaded(k) PROVE P
    <2>1. occasion' = occasion /\ tasks[k].at = "drop" /\ tasks[k] # NoTask
      BY <1>4, RoleIs DEF DropLoaded
    <2>2. CASE Done(k) /\ UNCHANGED blurred
      BY <2>1, <2>2, DoneIs DEF GoingOn
    <2>3. CASE Restart(k)
      BY <2>1, <2>3, RestartIs DEF GoingOn
    <2> QED BY <1>4, <2>2, <2>3 DEF DropLoaded
  <1>5. ASSUME ProcessDies PROVE P
    <2>1. PICK k \in Tasks : Restart(k)
      BY <1>5 DEF ProcessDies
    <2> QED BY <1>5, <2>1, RestartIs DEF ProcessDies, GoingOn
  <1> QED BY <1>1, <1>2, <1>3, <1>4, <1>5 DEF InvNext, Enters

\* Two tasks fight over the same wherever they are.
LEMMA SharedIs ==
    ASSUME NEW a, NEW b, NEW c, NEW d, a.op = c.op, a.what = c.what, b.op = d.op, b.what = d.what
    PROVE  Shared(a, b) = Shared(c, d) /\ Shared(a, b) = Shared(b, a)
  BY DEF Shared, Removal

\* So what they fight over stays marked.
LEMMA FightsStay ==
    ASSUME InvTypeOK, Roles, Fights, InvNext
    PROVE  Fights'
  <1>1. occasion' = occasion /\ blurred \subseteq blurred'
    BY StepIs
  <1>2. \A a, b : Shared(a, b)' = Shared(a, b)
    BY <1>1 DEF Shared, Removal, Whole, BlocksIn, ThreadOf
  <1>3. SUFFICES ASSUME NEW j \in Tasks, NEW k \in Tasks, j # k, Busy(j)', Busy(k)'
                 PROVE  Shared(tasks'[j], tasks'[k]) \subseteq blurred'
    BY <1>2 DEF Fights
  <1>4. CASE GoingOn
    <2>1. /\ Busy(j) /\ tasks'[j].op = tasks[j].op /\ tasks'[j].what = tasks[j].what
          /\ Busy(k) /\ tasks'[k].op = tasks[k].op /\ tasks'[k].what = tasks[k].what
      BY <1>3, <1>4 DEF GoingOn, Busy
    <2>2. Shared(tasks'[j], tasks'[k]) = Shared(tasks[j], tasks[k])
      BY <2>1, SharedIs
    <2> QED BY <1>1, <1>3, <2>1, <2>2 DEF Fights
  <1>5. ASSUME NEW n \in Tasks, Beginning(n) PROVE Shared(tasks'[j], tasks'[k]) \subseteq blurred'
    <2>1. CASE j = n
      BY <1>3, <1>5, <2>1 DEF Beginning, Busy
    <2>2. CASE k = n
      <3>1. Shared(tasks'[k], tasks'[j]) \subseteq blurred'
        BY <1>3, <1>5, <2>2 DEF Beginning, Busy
      <3> QED BY <3>1, SharedIs
    <2>3. CASE j # n /\ k # n
      BY <1>1, <1>3, <1>5, <2>3 DEF Beginning, Busy, Fights
    <2> QED BY <2>1, <2>2, <2>3
  <1> QED BY <1>4, <1>5, StepIs

-----------------------------------------------------------------------------
\* What the steps of a task do to the list and the table.
LEMMA AddRowIs ==
    ASSUME InvTypeOK, Roles, Rostered, NEW k \in Tasks, AddRow(k)
    PROVE  /\ IsInjective(rows')
           /\ \/ HasRow(Th(k)) /\ rows' = rows /\ entered' = entered /\ tasks'[k] = NoTask
              \/ /\ ~HasRow(Th(k)) /\ tasks'[k].at = "load"
                 /\ ToSet(rows') = ToSet(rows) \cup {Th(k)} /\ entered' = entered \cup {Th(k)}
  <1>1. tasks[k].at = "row" /\ Th(k) \in Threads
    BY RoleIs DEF AddRow
  <1>2. rows \in Seq(Threads) /\ IsInjective(rows)
    BY DEF InvTypeOK, Rostered
  <1>3. CASE HasRow(Th(k))
    BY <1>2, <1>3, DoneIs DEF AddRow, Th
  <1>4. CASE ~HasRow(Th(k))
    <2>1. Goto(k, "load") /\ rows' = Append(rows, Th(k)) /\ entered' = entered \cup {Th(k)}
      BY <1>4 DEF AddRow, Th
    <2>2. tasks'[k].at = "load"
      BY <2>1, GotoIs DEF Steps
    <2>3. ToSet(rows') = ToSet(rows) \cup {Th(k)} /\ IsInjective(rows')
      BY <1>1, <1>2, <1>4, <2>1, AppendIs DEF HasRow
    <2> QED BY <1>4, <2>1, <2>2, <2>3
  <1> QED BY <1>3, <1>4

\* loadThread refuses a thread that is in the list.
LEMMA LoadThreadIs ==
    ASSUME InvTypeOK, Roles, Rostered, NEW k \in Tasks, LoadThread(k)
    PROVE  /\ IsInjective(roster')
           /\ \/ Loaded(Th(k)) /\ roster' = roster /\ tasks'[k] = NoTask /\ torn' = TRUE
              \/ /\ ~Loaded(Th(k)) /\ tasks'[k].at = "join"
                 /\ ToSet(roster') = ToSet(roster) \cup {Th(k)} /\ torn' = torn
                 /\ \A i \in DOMAIN roster : i \in DOMAIN roster' /\ roster'[i] = roster[i]
  <1>1. tasks[k].at = "load" /\ Th(k) \in Threads
    BY RoleIs DEF LoadThread
  <1>2. roster \in Seq(Threads) /\ IsInjective(roster) /\ torn \in BOOLEAN
    BY DEF InvTypeOK, Rostered
  <1>3. CASE Loaded(Th(k))
    BY <1>2, <1>3, DoneIs DEF LoadThread, Th
  <1>4. CASE ~Loaded(Th(k))
    <2>1. Goto(k, "join") /\ roster' = Append(roster, Th(k)) /\ torn' = torn
      BY <1>2, <1>4 DEF LoadThread, Th
    <2>2. tasks'[k].at = "join"
      BY <2>1, GotoIs DEF Steps
    <2>3. /\ ToSet(roster') = ToSet(roster) \cup {Th(k)} /\ IsInjective(roster')
          /\ \A i \in DOMAIN roster : i \in DOMAIN roster' /\ roster'[i] = roster[i]
      BY <1>1, <1>2, <1>4, <2>1, AppendIs DEF Loaded
    <2> QED BY <1>4, <2>1, <2>2, <2>3
  <1> QED BY <1>3, <1>4

\* The row of the thread goes, if it is there.
LEMMA DeleteRowIs ==
    ASSUME InvTypeOK, Rostered, NEW k \in Tasks, DeleteRow(k)
    PROVE  /\ IsInjective(rows') /\ ToSet(rows') = ToSet(rows) \ {Th(k)}
           /\ tasks'[k].at = "drop"
  <1>1. rows \in Seq(Threads) /\ IsInjective(rows)
    BY DEF InvTypeOK, Rostered
  <1>2. tasks'[k].at = "drop"
    BY GotoIs DEF Steps, DeleteRow
  <1>3. CASE ~HasRow(Th(k))
    BY <1>1, <1>2, <1>3 DEF DeleteRow, Th, HasRow
  <1>4. CASE HasRow(Th(k))
    <2>1. Position(rows, Th(k)) \in 1..Len(rows) /\ rows[Position(rows, Th(k))] = Th(k)
      BY <1>1, <1>4, PositionIs DEF HasRow
    <2>2. rows' = RemoveAt(rows, Position(rows, Th(k)))
      BY <1>4 DEF DeleteRow, Th
    <2> QED BY <1>1, <1>2, <2>1, <2>2, RemoveAtIs
  <1> QED BY <1>3, <1>4

\* The list loses what is at the position, or the process panics.
LEMMA DropLoadedIs ==
    ASSUME InvTypeOK, Rostered, NEW k \in Tasks, DropLoaded(k)
    PROVE  /\ UNCHANGED rows
           /\ \/ Restart(k)
              \/ /\ tasks[k].index \in 1..Len(roster) /\ IsInjective(roster')
                 /\ ToSet(roster') = ToSet(roster) \ {roster[tasks[k].index]}
                 /\ Done(k) /\ UNCHANGED <<blurred, torn>>
  <1>1. roster \in Seq(Threads) /\ IsInjective(roster) /\ Len(roster) \in Nat
    BY LenProperties DEF InvTypeOK, Rostered
  <1>2. tasks[k].index \in Nat /\ tasks[k].index > 0 /\ UNCHANGED rows
    BY DEF DropLoaded, InvTypeOK, Task, Rostered, Removing
  <1>3. CASE tasks[k].index <= Len(roster)
    <2>1. tasks[k].index \in 1..Len(roster)
      BY <1>1, <1>2, <1>3
    <2>2. /\ roster' = RemoveAt(roster, tasks[k].index) /\ Done(k) /\ UNCHANGED <<blurred, torn>>
      BY <1>1, <1>2, <1>3 DEF DropLoaded
    <2> QED BY <1>1, <1>2, <2>1, <2>2, RemoveAtIs
  <1>4. CASE ~(tasks[k].index <= Len(roster))
    BY <1>2, <1>4 DEF DropLoaded
  <1> QED BY <1>3, <1>4

\* The position of the thread is right when it is read.
LEMMA FindLoadedIs ==
    ASSUME InvTypeOK, NEW k \in Tasks, FindLoaded(k)
    PROVE  /\ \A j \in Tasks \ {k} : tasks'[j] = tasks[j]
           /\ \/ ~Loaded(Th(k)) /\ tasks'[k] = NoTask /\ torn' = torn
              \/ /\ Loaded(Th(k)) /\ tasks'[k].at = "leave"
                 /\ tasks'[k].what = tasks[k].what /\ tasks'[k].op = tasks[k].op
                 /\ tasks'[k].index \in 1..Len(roster) /\ roster[tasks'[k].index] = Th(k)
                 /\ torn' = (torn \/ \E j \in Tasks \ {k} : Removing(j))
  <1>1. CASE ~Loaded(Th(k))
    <2>1. Done(k) /\ torn' = torn
      BY <1>1 DEF FindLoaded, Th
    <2> QED BY <1>1, <2>1, DoneIs
  <1>2. CASE Loaded(Th(k))
    <2> DEFINE n == Position(roster, Th(k))
    <2>1. n \in 1..Len(roster) /\ roster[n] = Th(k)
      BY <1>2, PositionIs DEF Loaded, InvTypeOK
    <2>2. /\ tasks' = [tasks EXCEPT ![k].at = "leave", ![k].index = n]
          /\ torn' = (torn \/ \E j \in Tasks \ {k} : Removing(j))
      BY <1>2 DEF FindLoaded, Th
    <2> HIDE DEF n
    <2>3. tasks[k] \in Task
      BY DEF InvTypeOK
    <2>4. /\ tasks'[k] = [tasks[k] EXCEPT !.at = "leave", !.index = n]
          /\ \A j \in Tasks \ {k} : tasks'[j] = tasks[j]
      BY <2>2 DEF InvTypeOK
    <2>5. /\ tasks'[k].op = tasks[k].op /\ tasks'[k].what = tasks[k].what
          /\ tasks'[k].at = "leave" /\ tasks'[k].index = n
      BY <2>3, <2>4 DEF Task
    <2> QED BY <1>2, <2>1, <2>2, <2>4, <2>5
  <1> QED BY <1>1, <1>2

-----------------------------------------------------------------------------
\* What was answered is kept.
LEMMA ThreadsStay ==
    ASSUME occasion' = occasion
    PROVE  /\ \A x : ThreadOf(x)' = ThreadOf(x)
           /\ \A t : BlocksIn(t)' = BlocksIn(t) /\ Whole(t)' = Whole(t)
           /\ \A k \in Tasks : tasks'[k].what = tasks[k].what => Th(k)' = Th(k)
  BY DEF ThreadOf, BlocksIn, Whole, Th

\* An invite leaves the table only once it is refused or its thread is there,
\* and the tasks that go on keep what they kept.
KeepsMore ==
    /\ occasion' = occasion /\ entered \subseteq entered' /\ refused \subseteq refused'
    /\ \A i \in waiting : i \in waiting' \cup refused' \/ ThreadOf(i) \in entered'

\* What is kept stays kept.
LEMMA KeptStays ==
    ASSUME KeepsMore
    PROVE  /\ \A i : Kept(i) => Kept(i)'
           /\ \A j \in Tasks : /\ tasks'[j] = tasks[j] /\ KeptBy(j) => KeptBy(j)'
                               /\ tasks'[j] = NoTask => KeptBy(j)'
  <1>1. ASSUME NEW i, Kept(i) PROVE Kept(i)'
    BY <1>1 DEF Kept, KeepsMore, ThreadOf
  <1>2. ASSUME NEW j \in Tasks, tasks'[j] = tasks[j], KeptBy(j) PROVE KeptBy(j)'
    BY <1>2 DEF KeptBy, Kept, KeepsMore, Th, ThreadOf
  <1>3. ASSUME NEW j \in Tasks, tasks'[j] = NoTask PROVE KeptBy(j)'
    BY <1>3 DEF KeptBy, NoTask
  <1> QED BY <1>1, <1>2, <1>3

\* So every step needs to account for its own answers only.
LEMMA KeepsAre ==
    ASSUME Keeps, KeepsMore, ToSet(rows') \subseteq entered', ToSet(roster') \subseteq entered',
           \A i \in acked' \ acked : Kept(i)',
           \A j \in Tasks : tasks'[j] = tasks[j] \/ tasks'[j] = NoTask \/ KeptBy(j)'
    PROVE  Keeps'
  BY KeptStays DEF Keeps

\* Nothing that was answered is lost in any step.
LEMMA KeepsStay ==
    ASSUME InvTypeOK, Roles, Rostered, Keeps, InvNext
    PROVE  Keeps'
  <1> USE DEF Steps
  <1>0. /\ ToSet(rows) \subseteq entered /\ ToSet(roster) \subseteq entered
        /\ \A k \in Tasks : KeptBy(k)
    BY DEF Keeps
  <1>1. ASSUME NEW k \in Tasks, Enters(k) PROVE Keeps'
    <2>1. Entered(k)
      BY <1>1, EntersIs
    <2>2. KeepsMore /\ KeptBy(k)'
      BY <2>1 DEF Entered, KeepsMore, KeptBy
    <2> QED BY <1>0, <2>1, <2>2, KeepsAre DEF Entered
  <1>2. ASSUME NEW k \in Tasks, HandleStart(k) PROVE Keeps'
    <2>1. tasks[k].at = "look" /\ Advanced(k, {"get", "store", "head"}) /\ occasion' = occasion
      BY <1>2, PathIs
    <2>2. KeepsMore /\ (tasks'[k] = NoTask \/ KeptBy(k)')
      BY <1>2, <1>0, <2>1 DEF HandleStart, deskVars, KeepsMore, KeptBy, Advanced
    <2> QED BY <1>2, <1>0, <2>1, <2>2, KeepsAre DEF HandleStart, deskVars, Advanced
  <1>3. ASSUME NEW k \in Tasks, StoreInvite(k) PROVE Keeps'
    <2>1. tasks[k].at = "store" /\ Advanced(k, {"note"}) /\ occasion' = occasion
      BY <1>3, PathIs
    <2>2. KeepsMore /\ (tasks'[k] = NoTask \/ KeptBy(k)')
      <3>1. KeepsMore
        BY <1>3 DEF StoreInvite, KeepsMore
      <3>2. tasks'[k] = NoTask \/ KeptBy(k)'
        BY <1>3, <1>0, <2>1 DEF StoreInvite, KeptBy, Kept, Advanced
      <3> QED BY <3>1, <3>2
    <2>3. \A i \in acked' \ acked : Kept(i)'
      BY <1>3 DEF StoreInvite, Kept
    <2> QED BY <1>3, <1>0, <2>1, <2>2, <2>3, KeepsAre DEF StoreInvite, Advanced
  <1>4. ASSUME NEW k \in Tasks, HandleUpdate(k) PROVE Keeps'
    <2>1. tasks[k].at = "head" /\ Advanced(k, {"note"}) /\ occasion' = occasion
      BY <1>4, PathIs
    <2>2. KeepsMore /\ (tasks'[k] = NoTask \/ KeptBy(k)')
      BY <1>4, <1>0, <2>1, RoleIs, InvitesAssumption DEF HandleUpdate, KeepsMore, KeptBy, Advanced
    <2> QED BY <1>4, <1>0, <2>1, <2>2, KeepsAre DEF HandleUpdate, Advanced
  <1>5. ASSUME NEW k \in Tasks, SendNotification(k) PROVE Keeps'
    <2>1. tasks[k].at = "note" /\ Advanced(k, {"find"}) /\ occasion' = occasion
      BY <1>5, PathIs
    <2>2. KeepsMore /\ (tasks'[k] = NoTask \/ KeptBy(k)')
      BY <1>5, <1>0, <2>1 DEF SendNotification, KeepsMore, KeptBy, Advanced
    <2>3. \A i \in acked' \ acked : Kept(i)'
      BY <1>5, <1>0, <2>1, <2>2, KeptStays DEF SendNotification, KeptBy
    <2> QED BY <1>5, <1>0, <2>1, <2>2, <2>3, KeepsAre DEF SendNotification, Advanced
  <1>6. ASSUME NEW k \in Tasks, CheckThread(k) PROVE Keeps'
    <2>1. tasks[k].at = "get" /\ Advanced(k, {"row", "forget"}) /\ occasion' = occasion
      BY <1>6, PathIs
    <2>2. tasks'[k].at = "forget" => Th(k) \in entered
      BY <1>6, <1>0, GotoIs, DoneIs DEF CheckThread, Th, Loaded
    <2>3. KeepsMore /\ (tasks'[k] = NoTask \/ KeptBy(k)')
      BY <1>6, <1>0, <2>1, <2>2, ThreadsStay DEF CheckThread, deskVars, KeepsMore, KeptBy, Advanced
    <2> QED BY <1>6, <1>0, <2>1, <2>3, KeepsAre DEF CheckThread, deskVars, Advanced
  <1>7. ASSUME NEW k \in Tasks, AddRow(k) PROVE Keeps'
    <2>1. tasks[k].at = "row" /\ Advanced(k, {"load"}) /\ occasion' = occasion
      BY <1>7, PathIs
    <2>2. KeepsMore /\ (tasks'[k] = NoTask \/ KeptBy(k)')
      BY <1>7, <1>0, <2>1, AddRowIs, ThreadsStay DEF AddRow, KeepsMore, KeptBy, Advanced
    <2>3. ToSet(rows') \subseteq entered' /\ ToSet(roster') \subseteq entered'
      BY <1>7, <1>0, AddRowIs DEF AddRow
    <2> QED BY <1>7, <1>0, <2>1, <2>2, <2>3, KeepsAre DEF AddRow, Advanced
  <1>8. ASSUME NEW k \in Tasks, LoadThread(k) PROVE Keeps'
    <2>1. tasks[k].at = "load" /\ Advanced(k, {"join"}) /\ occasion' = occasion
      BY <1>8, PathIs
    <2>2. KeepsMore /\ (tasks'[k] = NoTask \/ KeptBy(k)')
      BY <1>8, <1>0, <2>1, ThreadsStay DEF LoadThread, KeepsMore, KeptBy, Advanced
    <2>3. ToSet(rows') \subseteq entered' /\ ToSet(roster') \subseteq entered'
      BY <1>8, <1>0, <2>1, LoadThreadIs DEF LoadThread, KeptBy
    <2> QED BY <1>8, <1>0, <2>1, <2>2, <2>3, KeepsAre DEF LoadThread, Advanced
  <1>9. ASSUME NEW k \in Tasks, JoinThread(k) PROVE Keeps'
    <2>1. tasks[k].at = "join" /\ Advanced(k, {"forget"}) /\ occasion' = occasion
      BY <1>9, PathIs
    <2>2. KeepsMore /\ (tasks'[k] = NoTask \/ KeptBy(k)')
      BY <1>9, <1>0, <2>1, ThreadsStay DEF JoinThread, deskVars, KeepsMore, KeptBy, Advanced
    <2> QED BY <1>9, <1>0, <2>1, <2>2, KeepsAre DEF JoinThread, deskVars, Advanced
  <1>10. ASSUME NEW k \in Tasks, ForgetInvite(k) PROVE Keeps'
    <2>1. tasks[k].at = "forget" /\ Advanced(k, {"unnote"}) /\ occasion' = occasion
      BY <1>10, PathIs
    <2>2. KeepsMore /\ (tasks'[k] = NoTask \/ KeptBy(k)')
      BY <1>10, <1>0, <2>1 DEF ForgetInvite, deskVars, KeepsMore, KeptBy, Advanced, Th
    <2> QED BY <1>10, <1>0, <2>1, <2>2, KeepsAre DEF ForgetInvite, deskVars, Advanced
  <1>11. ASSUME NEW k \in Tasks, ForgetNote(k) PROVE Keeps'
    <2>1. tasks[k].at = "unnote" /\ Advanced(k, {}) /\ occasion' = occasion
      BY <1>11, PathIs
    <2>2. KeepsMore /\ (tasks'[k] = NoTask \/ KeptBy(k)')
      BY <1>11, <1>0, <2>1 DEF ForgetNote, deskVars, KeepsMore, KeptBy, Advanced
    <2> QED BY <1>11, <1>0, <2>1, <2>2, KeepsAre DEF ForgetNote, deskVars, Advanced
  <1>12. ASSUME NEW k \in Tasks, ThreadLeave(k) PROVE Keeps'
    <2>1. tasks[k].at = "leave" /\ Advanced(k, {"delete"}) /\ occasion' = occasion
      BY <1>12, PathIs
    <2>2. KeepsMore /\ (tasks'[k] = NoTask \/ KeptBy(k)')
      BY <1>12, <1>0, <2>1 DEF ThreadLeave, deskVars, KeepsMore, KeptBy, Advanced
    <2> QED BY <1>12, <1>0, <2>1, <2>2, KeepsAre DEF ThreadLeave, deskVars, Advanced
  <1>13. ASSUME NEW k \in Tasks, DeleteRow(k) PROVE Keeps'
    <2>1. tasks[k].at = "delete" /\ Advanced(k, {"drop"}) /\ occasion' = occasion
      BY <1>13, PathIs
    <2>2. KeepsMore /\ (tasks'[k] = NoTask \/ KeptBy(k)')
      BY <1>13, <1>0, <2>1 DEF DeleteRow, deskVars, KeepsMore, KeptBy, Advanced
    <2>3. ToSet(rows') \subseteq entered' /\ ToSet(roster') \subseteq entered'
      BY <1>13, <1>0, DeleteRowIs DEF DeleteRow, deskVars
    <2> QED BY <1>13, <1>0, <2>1, <2>2, <2>3, KeepsAre DEF DeleteRow, deskVars, Advanced
  <1>14. ASSUME NEW k \in Tasks, FindLoaded(k) PROVE Keeps'
    <2>1. \A j \in Tasks \ {k} : tasks'[j] = tasks[j]
      BY <1>14, FindLoadedIs
    <2>2. KeepsMore /\ (tasks'[k] = NoTask \/ KeptBy(k)')
      BY <1>14, FindLoadedIs DEF FindLoaded, KeepsMore, KeptBy
    <2> QED BY <1>14, <1>0, <2>1, <2>2, KeepsAre DEF FindLoaded
  <1>15. ASSUME NEW k \in Tasks, DropLoaded(k) PROVE Keeps'
    <2>1. KeepsMore /\ UNCHANGED <<rows, entered, acked>>
      BY <1>15, DropLoadedIs DEF DropLoaded, KeepsMore
    <2>2. CASE Done(k)
      <3>1. \A j \in Tasks : tasks'[j] = tasks[j] \/ tasks'[j] = NoTask
        BY <2>2, DoneIs
      <3>2. ToSet(roster') \subseteq entered'
        BY <1>15, <1>0, <2>1, DropLoadedIs DEF Restart
      <3> QED BY <1>0, <2>1, <3>1, <3>2, KeepsAre
    <2>3. CASE Restart(k)
      <3>1. roster' = rows' /\ \A j \in Tasks : tasks'[j] = NoTask
        BY <2>1, <2>3, RestartIs DEF KeepsMore
      <3> QED BY <1>0, <2>1, <3>1, KeepsAre
    <2> QED BY <1>15, <2>2, <2>3, DropLoadedIs
  <1>16. ASSUME NEW k \in Tasks, TaskFails(k) PROVE Keeps'
    <2>1. KeepsMore /\ UNCHANGED <<rows, roster, entered, acked>>
      BY <1>16 DEF TaskFails, KeepsMore
    <2>2. Advanced(k, {"delete"})
      BY <1>16, GoesOn DEF TaskFails
    <2>3. tasks'[k] = NoTask \/ KeptBy(k)'
      BY <2>2 DEF Advanced, KeptBy
    <2> QED BY <1>0, <2>1, <2>2, <2>3, KeepsAre DEF Advanced
  <1>17. ASSUME ProcessDies PROVE Keeps'
    <2>1. KeepsMore /\ UNCHANGED <<rows, entered, acked>> /\ \E k \in Tasks : Restart(k)
      BY <1>17 DEF ProcessDies, KeepsMore
    <2>2. roster' = rows' /\ \A j \in Tasks : tasks'[j] = NoTask
      BY <2>1, RestartIs DEF KeepsMore
    <2> QED BY <1>0, <2>1, <2>2, KeepsAre
  <1> QED BY <1>1, <1>2, <1>3, <1>4, <1>5, <1>6, <1>7, <1>8, <1>9, <1>10, <1>11, <1>12,
             <1>13, <1>14, <1>15, <1>16, <1>17 DEF InvNext, Enters

-----------------------------------------------------------------------------
\* The list and the table.
LEMMA OthersAre ==
    ASSUME occasion' = occasion, NEW j \in Tasks, tasks'[j] = tasks[j]
    PROVE  /\ Th(j)' = Th(j) /\ (Removing(j)' <=> Removing(j))
           /\ \A at, t : In(j, at, t)' <=> In(j, at, t)
  BY DEF Th, Removing, In, ThreadOf

\* A step between places that do not matter here changes nothing.
LEMMA RosteredSame ==
    ASSUME Rostered, UNCHANGED <<occasion, rows, roster, torn>>,
           \A j \in Tasks : \/ tasks'[j] = tasks[j]
                            \/ /\ tasks[j].at \notin {"leave", "delete", "drop", "load"}
                               /\ tasks'[j].at \notin {"leave", "delete", "drop", "load"}
    PROVE  Rostered'
  <1>1. ASSUME NEW j \in Tasks
        PROVE  /\ Removing(j)' <=> Removing(j)
               /\ Removing(j) => tasks'[j] = tasks[j] /\ Th(j)' = Th(j)
               /\ \A t : In(j, "load", t)' <=> In(j, "load", t)
               /\ \A t : In(j, "drop", t)' <=> In(j, "drop", t)
    BY OthersAre DEF Removing, In
  <1>2. \A t \in Threads : Differ(t) => Differ(t)'
    BY <1>1 DEF Differ, Loading, Dropping, HasRow, Loaded
  <1>3. \A j \in Tasks : Placed(j) => Placed(j)'
    BY <1>1, OthersAre DEF Placed, HasRow
  <1> QED BY <1>1, <1>2, <1>3 DEF Rostered, Intact

\* A process that starts has loaded its rows.
LEMMA RosteredNew ==
    ASSUME Rostered, \A j \in Tasks : tasks'[j] = NoTask, roster' = rows', rows' = rows
    PROVE  Rostered'
  <1>1. \A j \in Tasks : ~Removing(j)' /\ \A at, t : at # "none" => ~In(j, at, t)'
    BY DEF Removing, NoTask, In
  <1>2. \A t \in Threads : Differ(t)'
    BY <1>1 DEF Differ, Loading, Dropping, HasRow, Loaded
  <1>3. \A j \in Tasks : Placed(j)'
    BY <1>1 DEF Placed, NoTask, Removing
  <1> QED BY <1>1, <1>2, <1>3 DEF Rostered, Intact

\* A new row is one that its task is going to load.
LEMMA RosteredByAddRow ==
    ASSUME InvTypeOK, Roles, Rostered, NEW k \in Tasks, AddRow(k)
    PROVE  Rostered'
  <1>1. /\ tasks[k].at = "row" /\ UNCHANGED <<occasion, roster, torn>> /\ Th(k) \in Threads
        /\ \A j \in Tasks \ {k} : tasks'[j] = tasks[j]
        /\ tasks'[k] = NoTask \/ tasks'[k].what = tasks[k].what
    BY RoleIs, GotoIs, DoneIs DEF AddRow, Steps
  <1>2. CASE HasRow(Th(k))
    BY <1>1, <1>2, AddRowIs, RosteredSame DEF NoTask
  <1>3. CASE ~HasRow(Th(k))
    <2>1. /\ IsInjective(rows') /\ tasks'[k].at = "load" /\ Th(k)' = Th(k)
          /\ \A t : HasRow(t)' <=> HasRow(t) \/ t = Th(k)
          /\ \A t : Loaded(t)' <=> Loaded(t)
      BY <1>1, <1>3, AddRowIs, ThreadsStay DEF HasRow, Loaded, NoTask
    <2>2. /\ \A j \in Tasks : Removing(j)' <=> Removing(j)
          /\ \A j \in Tasks : \A t : In(j, "drop", t)' <=> In(j, "drop", t)
          /\ \A j \in Tasks : \A t : In(j, "load", t)' <=> In(j, "load", t) \/ (j = k /\ t = Th(k))
          /\ \A j \in Tasks : Removing(j) => tasks'[j] = tasks[j] /\ Th(j)' = Th(j)
      <3>1. /\ ~Removing(k) /\ ~Removing(k)'
            /\ \A t : ~In(k, "drop", t) /\ ~In(k, "drop", t)'
            /\ \A t : ~In(k, "load", t) /\ (In(k, "load", t)' <=> t = Th(k))
        BY <1>1, <2>1 DEF Removing, In
      <3>2. ASSUME NEW j \in Tasks \ {k}
            PROVE  /\ Th(j)' = Th(j) /\ (Removing(j)' <=> Removing(j)) /\ tasks'[j] = tasks[j]
                   /\ \A at, t : In(j, at, t)' <=> In(j, at, t)
        BY <1>1, OthersAre
      <3> QED BY <3>1, <3>2
    <2>3. ASSUME Intact PROVE Intact'
      <3>1. \A j \in Tasks : ~In(j, "load", Th(k))
        BY <1>3, <2>3 DEF Intact, Placed, In
      <3>2. \A t \in Threads : Differ(t)'
        BY <1>1, <1>3, <2>1, <2>2, <2>3, <3>1 DEF Intact, Differ, Loading, Dropping
      <3>3. \A j \in Tasks : Placed(j)'
        <4>1. Placed(k)'
          BY <1>1, <2>1 DEF Placed, Removing
        <4>2. ASSUME NEW j \in Tasks \ {k} PROVE Placed(j)'
          BY <1>1, <2>1, <2>2, <2>3, OthersAre DEF Intact, Placed
        <4> QED BY <4>1, <4>2
      <3> QED BY <2>2, <2>3, <3>2, <3>3 DEF Intact
    <2> QED BY <1>1, <2>1, <2>2, <2>3 DEF Rostered
  <1> QED BY <1>2, <1>3

\* The thread that is loaded has a row, and nobody drops it.
LEMMA RosteredByLoad ==
    ASSUME InvTypeOK, Roles, Rostered, NEW k \in Tasks, LoadThread(k)
    PROVE  Rostered'
  <1>1. /\ tasks[k].at = "load" /\ UNCHANGED <<occasion, rows>> /\ Th(k) \in Threads
        /\ \A j \in Tasks \ {k} : tasks'[j] = tasks[j]
        /\ IsInjective(rows') /\ IsInjective(roster')
    BY RoleIs, GotoIs, DoneIs, LoadThreadIs DEF LoadThread, Steps, Rostered
  <1>2. /\ tasks'[k].at \notin {"leave", "delete", "drop", "load"}
        /\ \A j \in Tasks : Removing(j)' => Removing(j) /\ tasks'[j] = tasks[j] /\ Th(j)' = Th(j)
        /\ \A j \in Tasks : \A t : In(j, "drop", t)' <=> In(j, "drop", t)
        /\ \A j \in Tasks : \A t : In(j, "load", t)' <=> In(j, "load", t) /\ j # k
    <2>1. tasks'[k].at \notin {"leave", "delete", "drop", "load"}
      <3>1. tasks'[k] = NoTask \/ tasks'[k].at = "join"
        BY LoadThreadIs
      <3> QED BY <3>1 DEF NoTask
    <2>2. /\ ~Removing(k)' /\ \A t : ~In(k, "drop", t) /\ ~In(k, "drop", t)' /\ ~In(k, "load", t)'
      BY <1>1, <2>1 DEF Removing, In
    <2>3. ASSUME NEW j \in Tasks \ {k}
          PROVE  /\ Th(j)' = Th(j) /\ (Removing(j)' <=> Removing(j)) /\ tasks'[j] = tasks[j]
                 /\ \A at, t : In(j, at, t)' <=> In(j, at, t)
      BY <1>1, OthersAre
    <2> QED BY <2>1, <2>2, <2>3
  <1>3. ASSUME ~torn', Intact PROVE Intact'
    <2>1. /\ ~Loaded(Th(k)) /\ HasRow(Th(k)) /\ In(k, "load", Th(k))
          /\ \A t : HasRow(t)' <=> HasRow(t)
          /\ \A t : Loaded(t)' <=> Loaded(t) \/ t = Th(k)
          /\ \A i \in DOMAIN roster : i \in DOMAIN roster' /\ roster'[i] = roster[i]
      BY <1>1, <1>3, LoadThreadIs DEF HasRow, Loaded, Intact, Placed, In
    <2>2. \A j \in Tasks : ~In(j, "drop", Th(k))
      BY <1>3, <2>1 DEF Intact, Placed, In, Removing, Loaded, ToSet
    <2>3. \A j \in Tasks : In(j, "load", Th(k)) => j = k
      BY <1>1, <1>3, <2>1 DEF Intact, Differ
    <2>4. ASSUME NEW t \in Threads PROVE Differ(t)'
      <3>1. CASE t = Th(k)
        BY <1>2, <2>1, <2>2, <2>3, <3>1 DEF Differ, Loading, Dropping
      <3>2. CASE t # Th(k)
        <4>1. \A j \in Tasks : In(j, "load", t)' <=> In(j, "load", t)
          BY <1>2, <3>2 DEF In
        <4> QED BY <1>2, <1>3, <2>1, <3>2, <4>1 DEF Intact, Differ, Loading, Dropping
      <3> QED BY <3>1, <3>2
    <2>5. \A j \in Tasks : Placed(j)'
      <3>1. Placed(k)'
        BY <1>2 DEF Placed, Removing
      <3>2. ASSUME NEW j \in Tasks \ {k} PROVE Placed(j)'
        BY <1>1, <1>2, <1>3, <2>1, OthersAre DEF Intact, Placed
      <3> QED BY <3>1, <3>2
    <2> QED BY <1>2, <1>3, <2>4, <2>5 DEF Intact
  <1>4. ~torn' => ~torn
    BY LoadThreadIs DEF InvTypeOK
  <1> QED BY <1>1, <1>2, <1>3, <1>4 DEF Rostered

\* A position that was read while another task removes tears the list.
LEMMA RosteredByFind ==
    ASSUME InvTypeOK, Roles, Rostered, NEW k \in Tasks, FindLoaded(k)
    PROVE  Rostered'
  <1>1. /\ tasks[k].at = "find" /\ UNCHANGED <<occasion, rows, roster>> /\ Th(k) \in Threads
        /\ \A j \in Tasks \ {k} : tasks'[j] = tasks[j]
    BY RoleIs, FindLoadedIs DEF FindLoaded
  <1>2. CASE ~Loaded(Th(k))
    <2>1. tasks'[k].at = "none" /\ torn' = torn
      BY <1>2, FindLoadedIs DEF NoTask
    <2> QED BY <1>1, <2>1, RosteredSame
  <1>3. CASE Loaded(Th(k))
    <2>1. /\ tasks'[k].at = "leave" /\ tasks'[k].what = tasks[k].what
          /\ tasks'[k].index \in 1..Len(roster) /\ roster[tasks'[k].index] = Th(k)
          /\ torn' = (torn \/ \E j \in Tasks \ {k} : Removing(j))
      BY <1>3, FindLoadedIs
    <2>2. DOMAIN roster = 1..Len(roster) /\ Len(roster) \in Nat /\ tasks'[k].index > 0
      BY <2>1, LenProperties DEF InvTypeOK
    <2>3. Th(k)' = Th(k) /\ Removing(k)' /\ ~Removing(k)
      BY <1>1, <2>1, ThreadsStay DEF Removing
    <2>4. ASSUME NEW j \in Tasks \ {k}
          PROVE  /\ Th(j)' = Th(j) /\ (Removing(j)' <=> Removing(j)) /\ tasks'[j] = tasks[j]
                 /\ \A at, t : In(j, at, t)' <=> In(j, at, t)
      BY <1>1, OthersAre
    <2>5. ASSUME ~torn', Intact PROVE Intact'
      <3>1. ~torn /\ \A j \in Tasks \ {k} : ~Removing(j)
        BY <2>1, <2>5
      <3>2. \A j \in Tasks, t \in Threads : ~In(j, "drop", t)
        BY <2>3, <3>1 DEF Removing, In
      <3>3. HasRow(Th(k))
        BY <1>1, <1>3, <2>5, <3>2 DEF Intact, Differ, Dropping
      <3>4. ASSUME NEW t \in Threads PROVE Differ(t)'
        <4>1. \A j \in Tasks : /\ In(j, "load", t)' <=> In(j, "load", t)
                               /\ In(j, "drop", t)' <=> In(j, "drop", t)
          BY <1>1, <2>1, <2>4 DEF In
        <4> QED BY <1>1, <2>5, <4>1 DEF Intact, Differ, Loading, Dropping, HasRow, Loaded
      <3>5. ASSUME NEW j \in Tasks PROVE Placed(j)'
        <4>1. CASE j = k
          BY <1>1, <2>1, <2>2, <2>3, <3>3, <4>1 DEF Placed, HasRow
        <4>2. CASE j # k
          BY <1>1, <2>4, <2>5, <4>2 DEF Intact, Placed, HasRow
        <4> QED BY <4>1, <4>2
      <3>6. \A i, j \in Tasks : Removing(i)' /\ Removing(j)' => i = j
        BY <2>4, <3>1
      <3> QED BY <3>4, <3>5, <3>6 DEF Intact
    <2>6. \A j \in Tasks : Removing(j)' => tasks'[j].index > 0
      BY <2>2, <2>4 DEF Rostered
    <2> QED BY <1>1, <2>1, <2>5, <2>6 DEF Rostered, InvTypeOK
  <1> QED BY <1>2, <1>3

\* ThreadLeave, and its failure, which the removal survives.
LEMMA RosteredByLeave ==
    ASSUME InvTypeOK, Roles, Rostered, NEW k \in Tasks, Goto(k, "delete"), tasks[k].at = "leave",
           UNCHANGED <<occasion, rows, roster, torn>>
    PROVE  Rostered'
  <1>1. /\ \A j \in Tasks \ {k} : tasks'[j] = tasks[j]
        /\ tasks'[k].at = "delete" /\ tasks'[k].what = tasks[k].what
        /\ tasks'[k].index = tasks[k].index
    BY GotoIs DEF Steps
  <1>2. ASSUME NEW j \in Tasks
        PROVE  /\ Th(j)' = Th(j) /\ (Removing(j)' <=> Removing(j))
               /\ tasks'[j].index = tasks[j].index
               /\ \A t : In(j, "load", t)' <=> In(j, "load", t)
               /\ \A t : In(j, "drop", t)' <=> In(j, "drop", t)
               /\ tasks'[j].at \in {"leave", "delete", "load"} =>
                      tasks[j].at \in {"leave", "delete", "load"}
    <2>1. CASE j = k
      BY <1>1, <2>1, ThreadsStay DEF Removing, In
    <2>2. CASE j # k
      BY <1>1, <2>2, OthersAre
    <2> QED BY <2>1, <2>2
  <1>3. \A t \in Threads : Differ(t) => Differ(t)'
    BY <1>2 DEF Differ, Loading, Dropping, HasRow, Loaded
  <1>4. \A j \in Tasks : Placed(j) => Placed(j)'
    BY <1>2 DEF Placed, HasRow
  <1> QED BY <1>2, <1>3, <1>4 DEF Rostered, Intact

\* The row goes while the thread is in the list, and nobody is loading it.
LEMMA RosteredByDelete ==
    ASSUME InvTypeOK, Roles, Rostered, NEW k \in Tasks, DeleteRow(k)
    PROVE  Rostered'
  <1>1. /\ tasks[k].at = "delete" /\ UNCHANGED <<occasion, roster, torn>> /\ Th(k) \in Threads
        /\ \A j \in Tasks \ {k} : tasks'[j] = tasks[j]
        /\ tasks'[k].at = "drop" /\ tasks'[k].what = tasks[k].what
        /\ tasks'[k].index = tasks[k].index
    BY RoleIs, GotoIs DEF DeleteRow, Steps, deskVars
  <1>2. Th(k)' = Th(k) /\ Removing(k)' /\ Removing(k)
    BY <1>1, ThreadsStay DEF Removing
  <1>3. ASSUME NEW j \in Tasks \ {k}
        PROVE  /\ Th(j)' = Th(j) /\ (Removing(j)' <=> Removing(j)) /\ tasks'[j] = tasks[j]
               /\ \A at, t : In(j, at, t)' <=> In(j, at, t)
    BY <1>1, OthersAre
  <1>4. IsInjective(rows') /\ \A t : HasRow(t)' <=> HasRow(t) /\ t # Th(k)
    BY DeleteRowIs DEF HasRow
  <1>5. ASSUME Intact PROVE Intact'
    <2>1. \A j \in Tasks \ {k} : ~Removing(j)
      BY <1>2, <1>5 DEF Intact
    <2>2. Loaded(Th(k))
      BY <1>2, <1>5 DEF Intact, Placed, Loaded, ToSet
    <2>3. \A j \in Tasks, t \in Threads : ~In(j, "drop", t)
      BY <1>1, <2>1 DEF Removing, In
    <2>4. \A j \in Tasks : ~In(j, "load", Th(k))
      BY <1>1, <1>5, <2>2, <2>3 DEF Intact, Differ, Loading, Dropping
    <2>5. ASSUME NEW t \in Threads PROVE Differ(t)'
      <3>1. \A j \in Tasks : /\ In(j, "load", t)' <=> In(j, "load", t)
                             /\ In(j, "drop", t)' <=> j = k /\ t = Th(k)
        BY <1>1, <1>2, <1>3, <2>3 DEF In
      <3>2. Loaded(t)' <=> Loaded(t)
        BY <1>1 DEF Loaded
      <3>3. CASE t = Th(k)
        BY <1>4, <2>2, <2>4, <3>1, <3>2, <3>3 DEF Differ, Loading, Dropping
      <3>4. CASE t # Th(k)
        BY <1>4, <1>5, <2>3, <3>1, <3>2, <3>4 DEF Intact, Differ, Loading, Dropping
      <3> QED BY <3>3, <3>4
    <2>6. ASSUME NEW j \in Tasks PROVE Placed(j)'
      <3>1. CASE j = k
        BY <1>1, <1>2, <1>5, <3>1 DEF Intact, Placed
      <3>2. CASE j # k
        <4>1. tasks[j].at \in {"leave", "delete", "load"} => tasks[j].at = "load" /\ Th(j) # Th(k)
          BY <2>1, <2>4, <3>2 DEF Removing, In
        <4> QED BY <1>1, <1>3, <1>4, <1>5, <3>2, <4>1 DEF Intact, Placed
      <3> QED BY <3>1, <3>2
    <2>7. \A i, j \in Tasks : Removing(i)' /\ Removing(j)' => i = j
      BY <1>3, <2>1
    <2> QED BY <2>5, <2>6, <2>7 DEF Intact
  <1>6. \A j \in Tasks : Removing(j)' => tasks'[j].index > 0
    BY <1>1, <1>2, <1>3 DEF Rostered
  <1> QED BY <1>1, <1>4, <1>5, <1>6 DEF Rostered

\* The position still is that of the thread: nobody has removed another.
LEMMA RosteredByDrop ==
    ASSUME InvTypeOK, Roles, Rostered, NEW k \in Tasks, DropLoaded(k)
    PROVE  Rostered'
  <1>1. /\ tasks[k].at = "drop" /\ UNCHANGED <<occasion, rows>> /\ Th(k) \in Threads /\ Removing(k)
    BY RoleIs, DropLoadedIs DEF DropLoaded, Removing
  <1>2. CASE Restart(k)
    BY <1>1, <1>2, RestartIs, RosteredNew
  <1>3. CASE ~Restart(k)
    <2>1. /\ tasks[k].index \in 1..Len(roster) /\ IsInjective(roster')
          /\ ToSet(roster') = ToSet(roster) \ {roster[tasks[k].index]}
          /\ Done(k) /\ torn' = torn
      BY <1>3, DropLoadedIs
    <2>2. tasks'[k] = NoTask /\ \A j \in Tasks \ {k} : tasks'[j] = tasks[j]
      BY <2>1, DoneIs
    <2>3. ~Removing(k)' /\ \A at, t : at # "none" => ~In(k, at, t)'
      BY <2>2 DEF Removing, In, NoTask
    <2>4. ASSUME NEW j \in Tasks \ {k}
          PROVE  /\ Th(j)' = Th(j) /\ (Removing(j)' <=> Removing(j)) /\ tasks'[j] = tasks[j]
                 /\ \A at, t : In(j, at, t)' <=> In(j, at, t)
      BY <1>1, <2>2, OthersAre
    <2>5. ASSUME Intact PROVE Intact'
      <3>1. \A j \in Tasks \ {k} : ~Removing(j)
        BY <1>1, <2>5 DEF Intact
      <3>2. /\ roster[tasks[k].index] = Th(k)
            /\ \A t : HasRow(t)' <=> HasRow(t)
            /\ \A t : Loaded(t)' <=> Loaded(t) /\ t # Th(k)
        BY <1>1, <2>1, <2>5 DEF Intact, Placed, HasRow, Loaded
      <3>3. \A j \in Tasks : ~Removing(j)'
        BY <2>3, <2>4, <3>1
      <3>4. ASSUME NEW t \in Threads PROVE Differ(t)'
        <4>1. \A j \in Tasks : /\ In(j, "load", t)' <=> In(j, "load", t)
                               /\ In(j, "drop", t) <=> j = k /\ t = Th(k)
                               /\ ~In(j, "drop", t)'
          BY <1>1, <2>3, <2>4, <3>1 DEF In, Removing
        <4> QED BY <2>5, <3>2, <4>1 DEF Intact, Differ, Loading, Dropping
      <3>5. ASSUME NEW j \in Tasks PROVE Placed(j)'
        <4>1. CASE j = k
          BY <2>2, <2>3, <4>1 DEF Placed, NoTask
        <4>2. CASE j # k
          BY <2>4, <2>5, <3>2, <3>3, <4>2 DEF Intact, Placed
        <4> QED BY <4>1, <4>2
      <3> QED BY <3>3, <3>4, <3>5 DEF Intact
    <2>6. \A j \in Tasks : Removing(j)' => tasks'[j].index > 0
      BY <2>3, <2>4 DEF Rostered
    <2> QED BY <1>1, <2>1, <2>5, <2>6 DEF Rostered
  <1> QED BY <1>2, <1>3

\* A task that does not load may give up; one that removes leaves the row.
LEMMA RosteredByEnd ==
    ASSUME InvTypeOK, Roles, Rostered, NEW k \in Tasks, Done(k), tasks[k].at # "load",
           tasks[k].at # "drop", UNCHANGED <<occasion, rows, roster, torn>>
    PROVE  Rostered'
  <1>1. tasks'[k] = NoTask /\ \A j \in Tasks \ {k} : tasks'[j] = tasks[j]
    BY DoneIs
  <1>2. ASSUME NEW j \in Tasks
        PROVE  /\ \A t : In(j, "load", t)' <=> In(j, "load", t)
               /\ \A t : In(j, "drop", t)' <=> In(j, "drop", t)
               /\ Removing(j)' => Removing(j)
               /\ tasks'[j] = tasks[j] \/ tasks'[j] = NoTask
    <2>1. CASE j = k
      BY <1>1, <2>1 DEF In, Removing, NoTask
    <2>2. CASE j # k
      BY <1>1, <2>2, OthersAre
    <2> QED BY <2>1, <2>2
  <1>3. \A t \in Threads : Differ(t) => Differ(t)'
    BY <1>2 DEF Differ, Loading, Dropping, HasRow, Loaded
  <1>4. ASSUME NEW j \in Tasks, Placed(j) PROVE Placed(j)'
    <2>1. CASE tasks'[j] = tasks[j]
      BY <1>4, <2>1, OthersAre DEF Placed, HasRow
    <2>2. CASE tasks'[j] = NoTask
      BY <2>2 DEF Placed, NoTask, Removing
    <2> QED BY <1>2, <2>1, <2>2
  <1>5. \A j \in Tasks : Removing(j)' => tasks'[j].index > 0
    BY <1>2 DEF Rostered, Removing, NoTask
  <1> QED BY <1>2, <1>3, <1>4, <1>5 DEF Rostered, Intact

\* A load that fails leaves a row that is not loaded.
LEMMA RosteredByTear ==
    ASSUME InvTypeOK, Roles, Rostered, NEW k \in Tasks, Done(k), torn' = TRUE,
           UNCHANGED <<occasion, rows, roster>>
    PROVE  Rostered'
  <1>1. tasks'[k] = NoTask /\ \A j \in Tasks \ {k} : tasks'[j] = tasks[j]
    BY DoneIs
  <1>2. \A j \in Tasks : Removing(j)' => tasks'[j].index > 0
    BY <1>1 DEF Rostered, Removing, NoTask
  <1> QED BY <1>2 DEF Rostered

\* The list and the table agree after every step, but for what is on its way.
LEMMA RosteredStays ==
    ASSUME InvTypeOK, Roles, Rostered, InvNext
    PROVE  Rostered'
  <1>1. ASSUME NEW k \in Tasks, Enters(k) PROVE Rostered'
    <2>1. Entered(k)
      BY <1>1, EntersIs
    <2> QED BY <2>1, RosteredSame DEF Entered
  <1>2. ASSUME NEW k \in Tasks,
               \/ HandleStart(k) \/ StoreInvite(k) \/ HandleUpdate(k) \/ SendNotification(k)
               \/ CheckThread(k) \/ JoinThread(k) \/ ForgetInvite(k) \/ ForgetNote(k)
        PROVE  Rostered'
    <2>1. UNCHANGED <<occasion, rows, roster, torn>>
      BY <1>2 DEF HandleStart, StoreInvite, HandleUpdate, SendNotification, CheckThread,
                  JoinThread, ForgetInvite, ForgetNote, deskVars
    <2> QED BY <1>2, <2>1, PathIs, RosteredSame DEF Advanced, NoTask
  <1>3. ASSUME NEW k \in Tasks, ThreadLeave(k) PROVE Rostered'
    BY <1>3, RosteredByLeave DEF ThreadLeave
  <1>4. ASSUME NEW k \in Tasks, TaskFails(k) PROVE Rostered'
    <2>1. /\ UNCHANGED <<occasion, rows, roster>> /\ tasks[k].at # "drop"
          /\ torn' = (torn \/ tasks[k].at = "load")
          /\ IF tasks[k].at = "leave" THEN Goto(k, "delete") ELSE Done(k)
      BY <1>4 DEF TaskFails
    <2>2. torn \in BOOLEAN
      BY DEF InvTypeOK
    <2>3. CASE tasks[k].at = "leave"
      BY <2>1, <2>2, <2>3, RosteredByLeave
    <2>4. CASE tasks[k].at = "load"
      BY <2>1, <2>2, <2>4, RosteredByTear
    <2>5. CASE tasks[k].at # "leave" /\ tasks[k].at # "load"
      BY <2>1, <2>2, <2>5, RosteredByEnd
    <2> QED BY <2>3, <2>4, <2>5
  <1>5. ASSUME ProcessDies PROVE Rostered'
    <2>1. PICK k \in Tasks : Restart(k) /\ UNCHANGED rows /\ UNCHANGED occasion
      BY <1>5 DEF ProcessDies
    <2> QED BY <2>1, RestartIs, RosteredNew
  <1> QED BY <1>1, <1>2, <1>3, <1>4, <1>5, RosteredByAddRow, RosteredByLoad, RosteredByFind,
             RosteredByDelete, RosteredByDrop DEF InvNext, Enters

-----------------------------------------------------------------------------
\* What is clear is met by one kind of task at a time.
LEMMA InWhole ==
    ASSUME InvTypeOK
    PROVE  /\ \A t : t \in Whole(t)
           /\ \A m \in Message : m \in Whole(ThreadOf(m))
  BY OccasionIs DEF Whole, BlocksIn

\* A removal has what is clear to itself, and an invite has one kind of task.
LEMMA Alone ==
    ASSUME InvTypeOK, Fights, NEW j \in Tasks, NEW k \in Tasks, j # k, Busy(j), Busy(k),
           NEW x, x \notin blurred
    PROVE  /\ Th(j) = Th(k) /\ Removal(tasks[j]) => x \notin Whole(Th(k))
           /\ tasks[j].what = x /\ tasks[k].what = x /\ x \in Message => tasks[j].op = tasks[k].op
  <1>1. x \notin Shared(tasks[j], tasks[k])
    BY DEF Fights
  <1> QED BY <1>1, InWhole DEF Shared, Th

\* What a restart cut off is marked.
LEMMA CutIs ==
    ASSUME InvTypeOK, NEW k \in Tasks, Restart(k), NEW j \in Tasks, Busy(j),
           NEW x, x \notin blurred'
    PROVE  x \notin Whole(Th(j))
  BY DEF Restart, Busy, Th

-----------------------------------------------------------------------------
\* The notifications of an invite.
LEMMA AddSame ==
    ASSUME NEW i, AddTidy(i), notes'[i] = notes[i], i \in waiting' <=> i \in waiting,
           \A j \in Tasks : /\ At(j, "note", i)' <=> At(j, "note", i)
                            /\ At(j, "unnote", i)' <=> At(j, "unnote", i)
    PROVE  AddTidy(i)'
  BY DEF AddTidy, TaskOn

\* A task that does not notify, or is about something else.
LEMMA AddElsewhere ==
    ASSUME NEW i, AddTidy(i), notes'[i] = notes[i], i \in waiting' <=> i \in waiting,
           \A j \in Tasks :
               \/ tasks'[j] = tasks[j]
               \/ /\ tasks[j].at \notin {"note", "unnote"} \/ tasks[j].what # i
                  /\ tasks'[j].at \notin {"note", "unnote"} \/ tasks'[j].what # i
    PROVE  AddTidy(i)'
  <1>1. \A j \in Tasks : /\ At(j, "note", i)' <=> At(j, "note", i)
                         /\ At(j, "unnote", i)' <=> At(j, "unnote", i)
    BY DEF At
  <1> QED BY <1>1, AddSame

\* An invite is stored once, and notified by the task that stored it.
LEMMA AddByStore ==
    ASSUME InvTypeOK, Roles, Fights, NEW k \in Tasks, StoreInvite(k),
           NEW i \in Adds, i \notin blurred, AddTidy(i)
    PROVE  AddTidy(i)'
  <1>1. /\ tasks[k].at = "store" /\ notes' = notes /\ tasks[k].op = "handle" /\ tasks[k] # NoTask
        /\ tasks'[k] = NoTask \/ tasks'[k].what = tasks[k].what
        /\ \A j \in Tasks \ {k} : tasks'[j] = tasks[j]
    BY RoleIs, GotoIs, DoneIs DEF StoreInvite, Steps
  <1>2. CASE tasks[k].what # i
    <2>1. tasks'[k].at # "note" \/ tasks'[k].what # i
      BY <1>1, <1>2 DEF NoTask
    <2>2. tasks'[k].at # "unnote" \/ tasks'[k].what # i
      BY <1>1, <1>2 DEF NoTask
    <2>3. i \in waiting' <=> i \in waiting
      BY <1>2 DEF StoreInvite
    <2> QED BY <1>1, <1>2, <2>1, <2>2, <2>3, AddElsewhere
  <1>3. CASE tasks[k].what = i /\ i \in waiting
    <2>1. tasks'[k].at = "none" /\ waiting' = waiting
      BY <1>3, DoneIs DEF StoreInvite
    <2> QED BY <1>1, <2>1, AddElsewhere
  <1>4. CASE tasks[k].what = i /\ i \notin waiting
    <2>1. /\ tasks'[k].at = "note" /\ tasks'[k].what = i /\ waiting' = waiting \cup {i}
      BY <1>4, GotoIs DEF StoreInvite, Steps
    <2>2. \A j \in Tasks : ~At(j, "unnote", i)
      <3>1. SUFFICES ASSUME NEW j \in Tasks, At(j, "unnote", i) PROVE FALSE
        OBVIOUS
      <3>2. tasks[j].op # "handle" /\ tasks[j] # NoTask /\ tasks[j].what = i
        BY <3>1, RoleIs DEF At
      <3> QED BY <1>1, <1>4, <3>2, Alone DEF Busy, Message
    <2>3. \A j \in Tasks : ~At(j, "note", i)
      BY <1>4 DEF AddTidy, TaskOn
    <2>4. \A j \in Tasks : /\ At(j, "note", i)' <=> j = k
                           /\ ~At(j, "unnote", i)'
      BY <1>1, <2>1, <2>2, <2>3 DEF At
    <2>5. notes'[i] = 0
      BY <1>1, <1>4, <2>2 DEF AddTidy, TaskOn
    <2> QED BY <2>1, <2>4, <2>5 DEF AddTidy, TaskOn
  <1> QED BY <1>2, <1>3, <1>4

\* Its notification is the first.
LEMMA AddBySend ==
    ASSUME InvTypeOK, Roles, NEW k \in Tasks, SendNotification(k),
           NEW i \in Adds, AddTidy(i)
    PROVE  AddTidy(i)'
  <1>1. /\ tasks[k].at = "note" /\ waiting' = waiting
        /\ tasks'[k].at \notin {"note", "unnote"}
        /\ \A j \in Tasks \ {k} : tasks'[j] = tasks[j]
    BY RoleIs, GotoIs, DoneIs DEF SendNotification, Steps
  <1>2. notes \in [Message -> Nat] /\ notes' = [notes EXCEPT ![tasks[k].what] = @ + 1] /\ i \in Message
    BY DEF InvTypeOK, SendNotification, Message
  <1>3. CASE tasks[k].what # i
    <2>1. notes'[i] = notes[i]
      BY <1>2, <1>3
    <2> QED BY <1>1, <1>3, <2>1, AddElsewhere
  <1>4. CASE tasks[k].what = i
    <2>1. At(k, "note", i)
      BY <1>1, <1>4 DEF At
    <2>2. i \in waiting /\ notes[i] = 0 /\ \A j \in Tasks : At(j, "note", i) => j = k
      BY <2>1 DEF AddTidy, TaskOn
    <2>3. notes'[i] = 1
      BY <1>2, <1>4, <2>2
    <2>4. \A j \in Tasks : ~At(j, "note", i)' /\ ~At(j, "unnote", i)'
      BY <1>1, <2>2 DEF At, AddTidy, TaskOn
    <2> QED BY <1>1, <2>2, <2>3, <2>4 DEF AddTidy, TaskOn
  <1> QED BY <1>3, <1>4

\* Nobody notifies of an invite that is being forgotten.
LEMMA AddByForget ==
    ASSUME InvTypeOK, Roles, Fights, NEW k \in Tasks, ForgetInvite(k),
           NEW i \in Adds, i \notin blurred, AddTidy(i)
    PROVE  AddTidy(i)'
  <1>1. /\ tasks[k].at = "forget" /\ notes' = notes /\ tasks[k].op # "handle" /\ tasks[k] # NoTask
        /\ tasks'[k].at = "unnote" /\ tasks'[k].what = tasks[k].what
        /\ waiting' = waiting \ {tasks[k].what}
        /\ \A j \in Tasks \ {k} : tasks'[j] = tasks[j]
    BY RoleIs, GotoIs DEF ForgetInvite, Steps
  <1>2. CASE tasks[k].what # i
    BY <1>1, <1>2, AddElsewhere
  <1>3. CASE tasks[k].what = i
    <2>1. \A j \in Tasks : ~At(j, "note", i)
      <3>1. SUFFICES ASSUME NEW j \in Tasks, At(j, "note", i) PROVE FALSE
        OBVIOUS
      <3>2. tasks[j].op = "handle" /\ tasks[j] # NoTask /\ tasks[j].what = i
        BY <3>1, RoleIs DEF At
      <3> QED BY <1>1, <1>3, <3>2, Alone DEF Busy, Message
    <2>2. At(k, "unnote", i)' /\ \A j \in Tasks : ~At(j, "note", i)'
      BY <1>1, <1>3, <2>1 DEF At
    <2> QED BY <1>1, <1>3, <2>2 DEF AddTidy, TaskOn
  <1> QED BY <1>2, <1>3

\* Its notification goes after the invite.
LEMMA AddByForgetNote ==
    ASSUME InvTypeOK, Roles, NEW k \in Tasks, ForgetNote(k), NEW i \in Adds, AddTidy(i)
    PROVE  AddTidy(i)'
  <1>1. /\ tasks[k].at = "unnote" /\ waiting' = waiting
        /\ tasks'[k].at \notin {"note", "unnote"}
        /\ \A j \in Tasks \ {k} : tasks'[j] = tasks[j]
    BY DoneIs DEF ForgetNote
  <1>2. notes \in [Message -> Nat] /\ notes' = [notes EXCEPT ![tasks[k].what] = 0] /\ i \in Message
    BY DEF InvTypeOK, ForgetNote, deskVars, Message
  <1>3. CASE tasks[k].what # i
    <2>1. notes'[i] = notes[i]
      BY <1>2, <1>3
    <2> QED BY <1>1, <1>3, <2>1, AddElsewhere
  <1>4. CASE tasks[k].what = i
    <2>1. At(k, "unnote", i)
      BY <1>1, <1>4 DEF At
    <2>2. i \notin waiting /\ notes'[i] = 0
      BY <1>2, <1>4, <2>1 DEF AddTidy, TaskOn
    <2>3. \A j \in Tasks : At(j, "note", i)' => At(j, "note", i)
      BY <1>1 DEF At
    <2> QED BY <1>1, <2>2, <2>3 DEF AddTidy, TaskOn
  <1> QED BY <1>3, <1>4

\* A thread that is left takes the notifications of its invites along.
LEMMA AddByLeave ==
    ASSUME InvTypeOK, Roles, NEW k \in Tasks, ThreadLeave(k),
           NEW i \in Adds, i \notin blurred', AddTidy(i)
    PROVE  AddTidy(i)'
  <1>1. /\ tasks[k].at = "leave" /\ waiting' = waiting /\ tasks'[k].at = "delete"
        /\ \A j \in Tasks \ {k} : tasks'[j] = tasks[j]
    BY GotoIs DEF ThreadLeave, Steps
  <1>2. /\ notes'[i] = IF ThreadOf(i) = Th(k) THEN 0 ELSE notes[i]
        /\ ThreadOf(i) = Th(k) => i \notin waiting
    BY OccasionIs DEF ThreadLeave, Th, BlocksIn, Message
  <1>3. \A j \in Tasks : /\ At(j, "note", i)' <=> At(j, "note", i)
                         /\ At(j, "unnote", i)' <=> At(j, "unnote", i)
    BY <1>1 DEF At
  <1>4. CASE ThreadOf(i) # Th(k)
    BY <1>1, <1>2, <1>3, <1>4, AddSame
  <1>5. CASE ThreadOf(i) = Th(k)
    BY <1>1, <1>2, <1>3, <1>5 DEF AddTidy, TaskOn
  <1> QED BY <1>4, <1>5

\* A restart has marked the invites that tasks were at.
LEMMA AddByRestart ==
    ASSUME InvTypeOK, Roles, NEW k \in Tasks, Restart(k), UNCHANGED <<occasion, waiting, notes>>,
           NEW i \in Adds, i \notin blurred', AddTidy(i)
    PROVE  AddTidy(i)'
  <1>1. ASSUME NEW j \in Tasks, NEW at, at # "none" PROVE ~At(j, at, i)'
    <2>1. tasks'[j] = NoTask
      BY RestartIs
    <2> QED BY <1>1, <2>1 DEF At, NoTask
  <1>2. ASSUME NEW j \in Tasks, NEW at, at # "none" PROVE ~At(j, at, i)
    <2>1. SUFFICES ASSUME At(j, at, i) PROVE FALSE
      OBVIOUS
    <2>2. Busy(j) /\ i \in Whole(Th(j))
      BY <1>2, <2>1, RoleIs, InWhole DEF At, Busy, Th, Message
    <2> QED BY <2>2, CutIs
  <1> QED BY <1>1, <1>2, AddSame

\* An invite that is clear stays tidy.
LEMMA AddStays ==
    ASSUME InvTypeOK, Roles, Rostered, Fights, InvNext, NEW i \in Adds, i \notin blurred', AddTidy(i)
    PROVE  AddTidy(i)'
  <1>0. occasion' = occasion /\ i \notin blurred /\ i \in Message
    BY StepIs DEF Message
  <1>1. ASSUME NEW k \in Tasks, Enters(k) PROVE AddTidy(i)'
    <2>1. Entered(k)
      BY <1>1, EntersIs
    <2> QED BY <2>1, AddElsewhere DEF Entered
  <1>2. ASSUME NEW k \in Tasks,
               \/ HandleStart(k) \/ CheckThread(k) \/ AddRow(k) \/ LoadThread(k)
               \/ JoinThread(k) \/ DeleteRow(k)
        PROVE  AddTidy(i)'
    <2>1. UNCHANGED <<waiting, notes>>
      BY <1>2 DEF HandleStart, CheckThread, AddRow, LoadThread, JoinThread, DeleteRow, deskVars
    <2> QED BY <1>2, <2>1, PathIs, AddElsewhere DEF Advanced, NoTask
  <1>3. ASSUME NEW k \in Tasks, HandleUpdate(k) PROVE AddTidy(i)'
    <2>1. /\ tasks[k].at = "head" /\ waiting' = waiting /\ tasks[k].what \in Updates
      BY <1>3, RoleIs DEF HandleUpdate
    <2>2. Advanced(k, {"note"})
      BY <1>3, PathIs
    <2>3. notes'[i] = notes[i]
      BY <1>0, <1>3 DEF HandleUpdate
    <2>4. tasks'[k].what # i \/ tasks'[k].at = "none"
      BY <2>1, <2>2, InvitesAssumption DEF Advanced, NoTask
    <2> QED BY <2>1, <2>2, <2>3, <2>4, AddElsewhere DEF Advanced
  <1>4. ASSUME NEW k \in Tasks, FindLoaded(k) PROVE AddTidy(i)'
    <2>1. /\ UNCHANGED <<waiting, notes>> /\ tasks[k].at = "find"
          /\ \A j \in Tasks \ {k} : tasks'[j] = tasks[j]
          /\ tasks'[k].at \in {"none", "leave"}
      BY <1>4, FindLoadedIs DEF FindLoaded, NoTask
    <2> QED BY <2>1, AddElsewhere
  <1>5. ASSUME NEW k \in Tasks, DropLoaded(k) PROVE AddTidy(i)'
    <2>1. UNCHANGED <<waiting, notes>> /\ tasks[k].at = "drop"
      BY <1>5 DEF DropLoaded
    <2>2. CASE Restart(k)
      BY <1>0, <2>1, <2>2, AddByRestart
    <2>3. CASE Done(k)
      BY <2>1, <2>3, DoneIs, AddElsewhere
    <2> QED BY <1>5, <2>2, <2>3 DEF DropLoaded
  <1>6. ASSUME NEW k \in Tasks, TaskFails(k) PROVE AddTidy(i)'
    <2>1. UNCHANGED <<waiting, notes>> /\ i \notin Whole(Th(k))
      BY <1>6 DEF TaskFails, Th
    <2>2. Advanced(k, {"delete"})
      BY <1>6, PathIs
    <2>3. tasks[k].what # i
      BY <1>0, <2>1, InWhole DEF Th
    <2> QED BY <2>1, <2>2, <2>3, AddElsewhere DEF Advanced, NoTask
  <1>7. ASSUME ProcessDies PROVE AddTidy(i)'
    <2>1. UNCHANGED <<waiting, notes>> /\ \E k \in Tasks : Restart(k)
      BY <1>7 DEF ProcessDies
    <2> QED BY <1>0, <2>1, AddByRestart
  <1> QED BY <1>0, <1>1, <1>2, <1>3, <1>4, <1>5, <1>6, <1>7, AddByStore, AddBySend,
             AddByForget, AddByForgetNote, AddByLeave DEF InvNext, Enters

-----------------------------------------------------------------------------
\* The notifications of a block, and the thread it belongs to.
LEMMA UpdateElsewhere ==
    ASSUME occasion' = occasion, NEW u, UpdateTidy(u), notes'[u] = notes[u],
           u \in stored' <=> u \in stored,
           HasRow(ThreadOf(u)) => HasRow(ThreadOf(u))',
           \A j \in Tasks :
               \/ tasks'[j] = tasks[j]
               \/ /\ tasks[j].at # "note" \/ tasks[j].what # u
                  /\ tasks'[j].at # "note" \/ tasks'[j].what # u
                  /\ tasks'[j].at # "delete" \/ Th(j)' # ThreadOf(u)
    PROVE  UpdateTidy(u)'
  <1>1. /\ ThreadOf(u)' = ThreadOf(u)
        /\ \A j \in Tasks : tasks'[j] = tasks[j] => Th(j)' = Th(j)
    BY OthersAre, ThreadsStay
  <1>2. \A j \in Tasks : /\ At(j, "note", u)' <=> At(j, "note", u)
                         /\ In(j, "delete", ThreadOf(u))' => In(j, "delete", ThreadOf(u))
    BY <1>1 DEF At, In
  <1> QED BY <1>1, <1>2 DEF UpdateTidy, TaskOn

\* A block is indexed once, under a thread that nobody is removing.
LEMMA UpdateByHandle ==
    ASSUME InvTypeOK, Roles, Fights, NEW k \in Tasks, HandleUpdate(k),
           NEW u \in Updates, u \notin blurred', UpdateTidy(u)
    PROVE  UpdateTidy(u)'
  <1>1. /\ tasks[k].at = "head" /\ UNCHANGED <<occasion, rows>> /\ tasks[k] # NoTask
        /\ stored' = stored \cup {tasks[k].what} /\ tasks[k].what \in Updates
        /\ tasks'[k] = NoTask \/ tasks'[k].what = tasks[k].what
        /\ tasks'[k].at \in {"none", "note"}
        /\ \A j \in Tasks \ {k} : tasks'[j] = tasks[j]
    BY RoleIs, GotoIs, DoneIs DEF HandleUpdate, Steps
  <1>2. notes'[u] = notes[u] /\ u \in Message /\ u \notin blurred
    BY DEF HandleUpdate, Message
  <1>3. HasRow(ThreadOf(u))' <=> HasRow(ThreadOf(u))
    BY <1>1, ThreadsStay DEF HasRow
  <1>4. CASE tasks[k].what # u
    <2>1. tasks'[k].at # "note" \/ tasks'[k].what # u
      BY <1>1, <1>4 DEF NoTask
    <2> QED BY <1>1, <1>2, <1>3, <1>4, <2>1, UpdateElsewhere
  <1>5. CASE tasks[k].what = u /\ u \in stored
    <2>1. tasks'[k].at = "none"
      BY <1>5, DoneIs DEF HandleUpdate
    <2> QED BY <1>1, <1>2, <1>3, <1>5, <2>1, UpdateElsewhere
  <1>6. CASE tasks[k].what = u /\ u \notin stored
    <2>1. HasRow(ThreadOf(u)) /\ Goto(k, "note")
      BY <1>6 DEF HandleUpdate
    <2>2. tasks'[k].at = "note" /\ tasks'[k].what = u
      BY <1>6, <2>1, GotoIs DEF Steps
    <2>3. /\ \A j \in Tasks : ~At(j, "note", u)
          /\ notes[u] = 0
      BY <1>6 DEF UpdateTidy, TaskOn
    <2>4. \A j \in Tasks : ~In(j, "delete", ThreadOf(u))
      <3>1. SUFFICES ASSUME NEW j \in Tasks, In(j, "delete", ThreadOf(u)) PROVE FALSE
        OBVIOUS
      <3>2. Removal(tasks[j]) /\ Busy(j) /\ Th(j) = Th(k) /\ j # k
        BY <1>1, <1>6, <3>1, RoleIs DEF In, Busy, Th
      <3>3. u \notin Whole(Th(k))
        BY <1>1, <1>2, <3>2, Alone DEF Busy
      <3> QED BY <1>2, <1>6, <3>3, InWhole DEF Th
    <2>5. \A j \in Tasks : /\ At(j, "note", u)' <=> j = k
                           /\ ~In(j, "delete", ThreadOf(u))'
      <3>1. ASSUME NEW j \in Tasks \ {k}
            PROVE  ~At(j, "note", u)' /\ ~In(j, "delete", ThreadOf(u))'
        BY <1>1, <2>3, <2>4, OthersAre, ThreadsStay DEF At, In
      <3>2. At(k, "note", u)' /\ ~In(k, "delete", ThreadOf(u))'
        BY <2>2 DEF At, In
      <3> QED BY <3>1, <3>2
    <2> QED BY <1>1, <1>2, <1>3, <1>6, <2>1, <2>3, <2>5 DEF UpdateTidy, TaskOn
  <1> QED BY <1>4, <1>5, <1>6

\* Its notification is the first.
LEMMA UpdateBySend ==
    ASSUME InvTypeOK, Roles, NEW k \in Tasks, SendNotification(k), NEW u \in Updates, UpdateTidy(u)
    PROVE  UpdateTidy(u)'
  <1>1. /\ tasks[k].at = "note" /\ UNCHANGED <<occasion, rows, stored>>
        /\ tasks'[k].at \in {"none", "find"}
        /\ \A j \in Tasks \ {k} : tasks'[j] = tasks[j]
    BY GotoIs, DoneIs DEF SendNotification, Steps
  <1>2. notes \in [Message -> Nat] /\ notes' = [notes EXCEPT ![tasks[k].what] = @ + 1] /\ u \in Message
    BY DEF InvTypeOK, SendNotification, Message
  <1>3. HasRow(ThreadOf(u))' <=> HasRow(ThreadOf(u))
    BY <1>1, ThreadsStay DEF HasRow
  <1>4. CASE tasks[k].what # u
    <2>1. notes'[u] = notes[u]
      BY <1>2, <1>4
    <2> QED BY <1>1, <1>3, <1>4, <2>1, UpdateElsewhere
  <1>5. CASE tasks[k].what = u
    <2>1. At(k, "note", u)
      BY <1>1, <1>5 DEF At
    <2>2. u \in stored /\ notes[u] = 0 /\ \A j \in Tasks : At(j, "note", u) => j = k
      BY <2>1 DEF UpdateTidy, TaskOn
    <2>3. notes'[u] = 1
      BY <1>2, <1>5, <2>2
    <2>4. ASSUME NEW j \in Tasks
          PROVE  /\ ~At(j, "note", u)'
                 /\ In(j, "delete", ThreadOf(u))' => In(j, "delete", ThreadOf(u))
      <3>1. CASE j = k
        BY <1>1, <3>1 DEF At, In
      <3>2. CASE j # k
        BY <1>1, <2>2, <3>2, OthersAre, ThreadsStay DEF At, In
      <3> QED BY <3>1, <3>2
    <2> QED BY <1>1, <1>3, <2>2, <2>3, <2>4 DEF UpdateTidy, TaskOn
  <1> QED BY <1>4, <1>5

\* A removal deletes the blocks of its thread, and no task is at one.
LEMMA UpdateByLeave ==
    ASSUME InvTypeOK, Roles, Fights, NEW k \in Tasks, ThreadLeave(k),
           NEW u \in Updates, u \notin blurred', UpdateTidy(u)
    PROVE  UpdateTidy(u)'
  <1>1. /\ tasks[k].at = "leave" /\ UNCHANGED <<occasion, rows>> /\ tasks[k] # NoTask
        /\ tasks'[k].at = "delete" /\ tasks'[k].what = tasks[k].what /\ Removal(tasks[k])
        /\ \A j \in Tasks \ {k} : tasks'[j] = tasks[j]
    BY RoleIs, GotoIs DEF ThreadLeave, Steps
  <1>2. /\ notes'[u] = IF ThreadOf(u) = Th(k) THEN 0 ELSE notes[u]
        /\ u \in stored' <=> u \in stored /\ ThreadOf(u) # Th(k)
        /\ u \in Message /\ u \notin blurred /\ Th(k)' = Th(k)
    BY <1>1, ThreadsStay DEF ThreadLeave, Th, Message
  <1>3. HasRow(ThreadOf(u))' <=> HasRow(ThreadOf(u))
    BY <1>1, ThreadsStay DEF HasRow
  <1>4. CASE ThreadOf(u) # Th(k)
    BY <1>1, <1>2, <1>3, <1>4, UpdateElsewhere
  <1>5. CASE ThreadOf(u) = Th(k)
    <2>1. \A j \in Tasks : ~At(j, "note", u)
      <3>1. SUFFICES ASSUME NEW j \in Tasks, At(j, "note", u) PROVE FALSE
        OBVIOUS
      <3>2. Busy(j) /\ Busy(k) /\ Th(j) = Th(k) /\ j # k
        BY <1>1, <1>5, <3>1, RoleIs DEF At, Busy, Th
      <3>3. u \notin Whole(Th(j))
        BY <1>1, <1>2, <3>2, Alone
      <3> QED BY <1>2, <1>5, <3>2, <3>3, InWhole
    <2>2. \A j \in Tasks : ~At(j, "note", u)'
      BY <1>1, <2>1 DEF At
    <2> QED BY <1>2, <1>5, <2>2 DEF UpdateTidy, TaskOn
  <1> QED BY <1>4, <1>5

\* The row goes after the blocks.
LEMMA UpdateByDelete ==
    ASSUME InvTypeOK, Roles, Rostered, NEW k \in Tasks, DeleteRow(k), NEW u \in Updates, UpdateTidy(u)
    PROVE  UpdateTidy(u)'
  <1>1. /\ tasks[k].at = "delete" /\ UNCHANGED <<occasion, stored, notes>>
        /\ tasks'[k].at = "drop"
        /\ \A j \in Tasks \ {k} : tasks'[j] = tasks[j]
    BY GotoIs DEF DeleteRow, deskVars, Steps
  <1>2. HasRow(ThreadOf(u))' <=> HasRow(ThreadOf(u)) /\ ThreadOf(u) # Th(k)
    BY <1>1, DeleteRowIs, ThreadsStay DEF HasRow
  <1>3. CASE ThreadOf(u) # Th(k)
    BY <1>1, <1>2, <1>3, UpdateElsewhere
  <1>4. CASE ThreadOf(u) = Th(k)
    <2>1. u \notin stored
      BY <1>1, <1>4 DEF UpdateTidy, In
    <2>2. \A j \in Tasks : ~At(j, "note", u)'
      BY <1>1, <2>1 DEF UpdateTidy, TaskOn, At
    <2> QED BY <1>1, <2>1, <2>2 DEF UpdateTidy, TaskOn
  <1> QED BY <1>3, <1>4

\* A restart has marked the blocks that tasks were at.
LEMMA UpdateByRestart ==
    ASSUME InvTypeOK, Roles, NEW k \in Tasks, Restart(k), UNCHANGED <<occasion, rows, stored, notes>>,
           NEW u \in Updates, u \notin blurred', UpdateTidy(u)
    PROVE  UpdateTidy(u)'
  <1>1. \A j \in Tasks : tasks'[j] = NoTask
    BY RestartIs
  <1>2. ASSUME NEW j \in Tasks PROVE ~At(j, "note", u)
    <2>1. SUFFICES ASSUME At(j, "note", u) PROVE FALSE
      OBVIOUS
    <2>2. Busy(j) /\ u \in Whole(Th(j))
      BY <2>1, RoleIs, InWhole DEF At, Busy, Th, Message
    <2> QED BY <2>2, CutIs
  <1>3. HasRow(ThreadOf(u))' <=> HasRow(ThreadOf(u))
    BY ThreadsStay DEF HasRow
  <1>4. \A j \in Tasks : /\ tasks[j].at # "note" \/ tasks[j].what # u
                         /\ tasks'[j].at # "note" /\ tasks'[j].at # "delete"
    BY <1>1, <1>2 DEF At, NoTask
  <1> QED BY <1>3, <1>4, UpdateElsewhere

\* A block that is clear stays tidy.
LEMMA UpdateStays ==
    ASSUME InvTypeOK, Roles, Rostered, Fights, InvNext,
           NEW u \in Updates, u \notin blurred', UpdateTidy(u)
    PROVE  UpdateTidy(u)'
  <1>0. occasion' = occasion /\ u \notin blurred /\ u \in Message
    BY StepIs DEF Message
  <1>1. rows' = rows => (HasRow(ThreadOf(u)) => HasRow(ThreadOf(u))')
    BY <1>0, ThreadsStay DEF HasRow
  <1>2. ASSUME NEW k \in Tasks, Enters(k) PROVE UpdateTidy(u)'
    <2>1. Entered(k)
      BY <1>2, EntersIs
    <2> QED BY <1>1, <2>1, UpdateElsewhere DEF Entered
  <1>3. ASSUME NEW k \in Tasks,
               \/ HandleStart(k) \/ CheckThread(k) \/ LoadThread(k) \/ JoinThread(k)
               \/ ForgetInvite(k)
        PROVE  UpdateTidy(u)'
    <2>1. UNCHANGED <<rows, stored, notes>>
      BY <1>3 DEF HandleStart, CheckThread, LoadThread, JoinThread, ForgetInvite, deskVars
    <2> QED BY <1>0, <1>1, <1>3, <2>1, PathIs, UpdateElsewhere DEF Advanced, NoTask
  <1>4. ASSUME NEW k \in Tasks, StoreInvite(k) PROVE UpdateTidy(u)'
    <2>1. /\ UNCHANGED <<rows, stored, notes>> /\ tasks[k].at = "store" /\ tasks[k].what \in Adds
      BY <1>4, RoleIs DEF StoreInvite
    <2>2. Advanced(k, {"note"})
      BY <1>4, PathIs
    <2>3. tasks'[k].what # u \/ tasks'[k].at = "none"
      BY <2>1, <2>2, InvitesAssumption DEF Advanced, NoTask
    <2>4. tasks'[k].at # "delete"
      BY <2>2 DEF Advanced, NoTask
    <2> QED BY <1>0, <1>1, <2>1, <2>2, <2>3, <2>4, UpdateElsewhere DEF Advanced
  <1>5. ASSUME NEW k \in Tasks, AddRow(k) PROVE UpdateTidy(u)'
    <2>1. UNCHANGED <<stored, notes>> /\ tasks[k].at = "row"
      BY <1>5 DEF AddRow
    <2>2. Advanced(k, {"load"})
      BY <1>5, PathIs
    <2>3. HasRow(ThreadOf(u)) => HasRow(ThreadOf(u))'
      BY <1>0, <1>5, AddRowIs, ThreadsStay DEF HasRow
    <2> QED BY <1>0, <2>1, <2>2, <2>3, UpdateElsewhere DEF Advanced, NoTask
  <1>6. ASSUME NEW k \in Tasks, ForgetNote(k) PROVE UpdateTidy(u)'
    <2>1. /\ UNCHANGED <<rows, stored>> /\ tasks[k].at = "unnote" /\ tasks[k].what \in Adds
          /\ notes' = [notes EXCEPT ![tasks[k].what] = 0] /\ notes \in [Message -> Nat]
          /\ tasks'[k].at = "none" /\ \A j \in Tasks \ {k} : tasks'[j] = tasks[j]
      BY <1>6, RoleIs, DoneIs DEF ForgetNote, InvTypeOK
    <2>2. notes'[u] = notes[u]
      BY <1>0, <2>1, InvitesAssumption
    <2> QED BY <1>0, <1>1, <2>1, <2>2, UpdateElsewhere
  <1>7. ASSUME NEW k \in Tasks, FindLoaded(k) PROVE UpdateTidy(u)'
    <2>1. /\ UNCHANGED <<rows, stored, notes>> /\ tasks[k].at = "find"
          /\ \A j \in Tasks \ {k} : tasks'[j] = tasks[j]
          /\ tasks'[k].at \in {"none", "leave"}
      BY <1>7, FindLoadedIs DEF FindLoaded, NoTask
    <2> QED BY <1>0, <1>1, <2>1, UpdateElsewhere
  <1>8. ASSUME NEW k \in Tasks, DropLoaded(k) PROVE UpdateTidy(u)'
    <2>1. UNCHANGED <<rows, stored, notes>> /\ tasks[k].at = "drop"
      BY <1>8, DropLoadedIs DEF DropLoaded
    <2>2. CASE Restart(k)
      BY <1>0, <2>1, <2>2, UpdateByRestart
    <2>3. CASE Done(k)
      BY <1>0, <1>1, <2>1, <2>3, DoneIs, UpdateElsewhere
    <2> QED BY <1>8, <2>2, <2>3 DEF DropLoaded
  <1>9. ASSUME NEW k \in Tasks, TaskFails(k) PROVE UpdateTidy(u)'
    <2>1. UNCHANGED <<rows, stored, notes>> /\ u \notin Whole(Th(k))
      BY <1>9 DEF TaskFails, Th
    <2>2. Advanced(k, {"delete"})
      BY <1>9, PathIs
    <2>3. tasks[k].what # u /\ Th(k) # ThreadOf(u)
      BY <1>0, <2>1, InWhole DEF Th
    <2>4. tasks'[k].at # "delete" \/ Th(k)' # ThreadOf(u)
      BY <1>0, <2>2, <2>3, ThreadsStay DEF Advanced, NoTask
    <2> QED BY <1>0, <1>1, <2>1, <2>2, <2>3, <2>4, UpdateElsewhere DEF Advanced, NoTask
  <1>10. ASSUME ProcessDies PROVE UpdateTidy(u)'
    <2>1. UNCHANGED <<rows, stored, notes>> /\ \E k \in Tasks : Restart(k)
      BY <1>10 DEF ProcessDies
    <2> QED BY <1>0, <2>1, UpdateByRestart
  <1> QED BY <1>0, <1>1, <1>2, <1>3, <1>4, <1>5, <1>6, <1>7, <1>8, <1>9, <1>10,
             UpdateByHandle, UpdateBySend, UpdateByLeave, UpdateByDelete DEF InvNext, Enters

-----------------------------------------------------------------------------
\* This node joins the threads it has.
LEMMA TidyElsewhere ==
    ASSUME occasion' = occasion, NEW t, ThreadTidy(t), rows' = rows, t \in joined => t \in joined',
           Loaded(t)' => Loaded(t),
           \A j \in Tasks :
               \/ tasks'[j] = tasks[j]
               \/ /\ tasks[j].at \notin {"load", "join", "delete"} \/ Th(j) # t
                  /\ tasks'[j].at \notin {"row", "load", "join", "delete"} \/ Th(j)' # t
    PROVE  ThreadTidy(t)'
  <1>1. HasRow(t)' <=> HasRow(t)
    BY DEF HasRow
  <1>2. \A j \in Tasks : /\ In(j, "row", t)' => In(j, "row", t)
                         /\ In(j, "load", t)' <=> In(j, "load", t)
                         /\ In(j, "join", t)' <=> In(j, "join", t)
                         /\ In(j, "delete", t)' <=> In(j, "delete", t)
    BY OthersAre DEF In
  <1> QED BY <1>1, <1>2 DEF ThreadTidy

\* A thread that is going to be added is not in the list.
LEMMA TidyByCheck ==
    ASSUME InvTypeOK, Roles, NEW k \in Tasks, CheckThread(k), NEW t \in Threads, ThreadTidy(t)
    PROVE  ThreadTidy(t)'
  <1>1. /\ UNCHANGED <<occasion, rows, roster, joined>> /\ tasks[k].at = "get"
        /\ Done(k) \/ \E at \in {"row", "forget"} : Goto(k, at)
    BY DEF CheckThread, deskVars
  <1>2. Advanced(k, {"row", "forget"})
    BY <1>1, GoesOn DEF Steps
  <1>3. tasks'[k].at = "row" => ~Loaded(Th(k)) /\ Th(k)' = Th(k)
    BY <1>1, GotoIs, DoneIs, ThreadsStay DEF CheckThread, Th, Steps
  <1>4. ASSUME NEW j \in Tasks
        PROVE  /\ In(j, "row", t)' => In(j, "row", t) \/ ~Loaded(t)
               /\ In(j, "load", t)' <=> In(j, "load", t)
               /\ In(j, "join", t)' <=> In(j, "join", t)
               /\ In(j, "delete", t)' <=> In(j, "delete", t)
    <2>1. CASE j = k
      BY <1>1, <1>2, <1>3, <2>1 DEF In, Advanced, NoTask
    <2>2. CASE j # k
      BY <1>1, <1>2, <2>2, OthersAre DEF Advanced
    <2> QED BY <2>1, <2>2
  <1>5. (HasRow(t)' <=> HasRow(t)) /\ (Loaded(t)' <=> Loaded(t))
    BY <1>1 DEF HasRow, Loaded
  <1> QED BY <1>1, <1>4, <1>5 DEF ThreadTidy

\* The id of a thread that the user adds is new, and so is the thread.
LEMMA TidyByNew ==
    ASSUME InvTypeOK, Keeps, NEW k \in Tasks, Entered(k), tasks'[k].at = "row",
           NEW t \in Threads, ThreadTidy(t)
    PROVE  ThreadTidy(t)'
  <1> DEFINE n == tasks'[k].what
  <1>1. UNCHANGED <<occasion, rows, roster, joined>> /\ n \in Threads \ entered
    BY DEF Entered
  <1>2. tasks[k].at = "none" /\ \A j \in Tasks \ {k} : tasks'[j] = tasks[j]
    BY DEF Entered
  <1>3. ~Loaded(n) /\ Th(k)' = n
    <2>1. ThreadOf(n) = n
      BY <1>1, OccasionIs
    <2> QED BY <1>1, <1>2, <2>1, ThreadsStay DEF Keeps, Loaded, Th
  <1>4. ASSUME NEW j \in Tasks
        PROVE  /\ In(j, "row", t)' => In(j, "row", t) \/ ~Loaded(t)
               /\ In(j, "load", t)' <=> In(j, "load", t)
               /\ In(j, "join", t)' <=> In(j, "join", t)
               /\ In(j, "delete", t)' <=> In(j, "delete", t)
    <2>1. CASE j = k
      BY <1>2, <1>3, <2>1 DEF In
    <2>2. CASE j # k
      BY <1>1, <1>2, <2>2, OthersAre
    <2> QED BY <2>1, <2>2
  <1>5. (HasRow(t)' <=> HasRow(t)) /\ (Loaded(t)' <=> Loaded(t))
    BY <1>1 DEF HasRow, Loaded
  <1> QED BY <1>1, <1>4, <1>5 DEF ThreadTidy

\* Its row is followed by a load that succeeds.
LEMMA TidyByAddRow ==
    ASSUME InvTypeOK, Roles, Rostered, NEW k \in Tasks, AddRow(k), NEW t \in Threads, ThreadTidy(t)
    PROVE  ThreadTidy(t)'
  <1>1. /\ UNCHANGED <<occasion, roster, joined>> /\ tasks[k].at = "row"
        /\ \A j \in Tasks \ {k} : tasks'[j] = tasks[j]
        /\ tasks'[k] = NoTask \/ tasks'[k].what = tasks[k].what
    BY GotoIs, DoneIs DEF AddRow, Steps
  <1>2. Loaded(t)' <=> Loaded(t)
    BY <1>1 DEF Loaded
  <1>3. CASE HasRow(Th(k))
    <2>1. rows' = rows /\ tasks'[k].at = "none"
      BY <1>3, AddRowIs DEF NoTask
    <2> QED BY <1>1, <1>2, <2>1, TidyElsewhere
  <1>4. CASE ~HasRow(Th(k))
    <2>1. tasks'[k].at = "load" /\ Th(k)' = Th(k) /\ \A x : HasRow(x)' <=> HasRow(x) \/ x = Th(k)
      BY <1>1, <1>4, AddRowIs, ThreadsStay DEF HasRow, NoTask
    <2>2. ASSUME NEW j \in Tasks
          PROVE  /\ In(j, "row", t)' => In(j, "row", t)
                 /\ In(j, "load", t)' <=> In(j, "load", t) \/ (j = k /\ t = Th(k))
                 /\ In(j, "join", t)' <=> In(j, "join", t)
                 /\ In(j, "delete", t)' <=> In(j, "delete", t)
      <3>1. CASE j = k
        BY <1>1, <2>1, <3>1 DEF In
      <3>2. CASE j # k
        BY <1>1, <3>2, OthersAre
      <3> QED BY <3>1, <3>2
    <2>3. CASE t # Th(k)
      BY <1>1, <1>2, <2>1, <2>2, <2>3 DEF ThreadTidy
    <2>4. CASE t = Th(k)
      <3>1. ~Loaded(t) /\ HasRow(t)' /\ \A j \in Tasks : ~In(j, "load", t)
        BY <1>1, <1>4, <2>1, <2>4 DEF ThreadTidy, In
      <3>2. \A j \in Tasks : In(j, "load", t)' <=> j = k
        BY <2>2, <2>4, <3>1
      <3> QED BY <1>2, <2>2, <3>1, <3>2 DEF ThreadTidy
    <2> QED BY <2>3, <2>4
  <1> QED BY <1>3, <1>4

\* The load is followed by a JOIN.
LEMMA TidyByLoad ==
    ASSUME InvTypeOK, Roles, Rostered, NEW k \in Tasks, LoadThread(k), NEW t \in Threads, ThreadTidy(t)
    PROVE  ThreadTidy(t)'
  <1>1. /\ UNCHANGED <<occasion, rows, joined>> /\ tasks[k].at = "load"
        /\ \A j \in Tasks \ {k} : tasks'[j] = tasks[j]
        /\ tasks'[k] = NoTask \/ tasks'[k].what = tasks[k].what
    BY GotoIs, DoneIs DEF LoadThread, Steps
  <1>2. tasks'[k].at \in {"none", "join"}
    <2>1. tasks'[k] = NoTask \/ tasks'[k].at = "join"
      BY LoadThreadIs
    <2> QED BY <2>1 DEF NoTask
  <1>3. HasRow(t)' <=> HasRow(t)
    BY <1>1 DEF HasRow
  <1>4. CASE t # Th(k)
    <2>1. Loaded(t)' <=> Loaded(t)
      <3>1. roster' = roster \/ ToSet(roster') = ToSet(roster) \cup {Th(k)}
        BY LoadThreadIs
      <3> QED BY <1>4, <3>1 DEF Loaded
    <2>2. tasks'[k].at = "none" \/ Th(k)' # t
      BY <1>1, <1>4, ThreadsStay DEF NoTask
    <2> QED BY <1>1, <1>2, <1>4, <2>1, <2>2, TidyElsewhere
  <1>5. CASE t = Th(k)
    <2>1. In(k, "load", t)
      BY <1>1, <1>5 DEF In
    <2>2. HasRow(t) /\ ~Loaded(t) /\ \A j \in Tasks : In(j, "load", t) => j = k
      BY <2>1 DEF ThreadTidy
    <2>3. tasks'[k].at = "join"
      BY <1>5, <2>2, LoadThreadIs
    <2>4. In(k, "join", t)'
      BY <1>1, <1>5, <2>3, ThreadsStay DEF In, NoTask
    <2>5. ASSUME NEW j \in Tasks PROVE ~In(j, "load", t)'
      <3>1. CASE j = k
        BY <2>3, <3>1 DEF In
      <3>2. CASE j # k
        BY <1>1, <2>2, <3>2, OthersAre
      <3> QED BY <3>1, <3>2
    <2> QED BY <1>3, <2>2, <2>4, <2>5 DEF ThreadTidy
  <1> QED BY <1>4, <1>5

\* The task that joins leaves a JOIN behind.
LEMMA TidyByJoin ==
    ASSUME InvTypeOK, Roles, NEW k \in Tasks, JoinThread(k), NEW t \in Threads, ThreadTidy(t)
    PROVE  ThreadTidy(t)'
  <1>1. /\ UNCHANGED <<occasion, rows, roster>> /\ tasks[k].at = "join"
        /\ joined' = joined \cup {Th(k)}
        /\ \A j \in Tasks \ {k} : tasks'[j] = tasks[j]
        /\ tasks'[k].at \in {"none", "forget"}
    BY GotoIs, DoneIs DEF JoinThread, Steps, Th, deskVars
  <1>2. (HasRow(t)' <=> HasRow(t)) /\ (Loaded(t)' <=> Loaded(t))
    BY <1>1 DEF HasRow, Loaded
  <1>3. ASSUME NEW j \in Tasks
        PROVE  /\ In(j, "row", t)' => In(j, "row", t)
               /\ In(j, "load", t)' <=> In(j, "load", t)
               /\ In(j, "join", t) => In(j, "join", t)' \/ t \in joined'
               /\ In(j, "delete", t)' <=> In(j, "delete", t)
    <2>1. CASE j = k
      BY <1>1, <2>1 DEF In
    <2>2. CASE j # k
      BY <1>1, <2>2, OthersAre
    <2> QED BY <2>1, <2>2
  <1> QED BY <1>1, <1>2, <1>3 DEF ThreadTidy

\* The task that takes the JOIN goes on to take the row.
LEMMA TidyByLeave ==
    ASSUME InvTypeOK, Roles, NEW k \in Tasks, ThreadLeave(k), NEW t \in Threads, ThreadTidy(t)
    PROVE  ThreadTidy(t)'
  <1>1. /\ UNCHANGED <<occasion, rows, roster>> /\ tasks[k].at = "leave"
        /\ joined' = joined \ {Th(k)}
        /\ \A j \in Tasks \ {k} : tasks'[j] = tasks[j]
        /\ tasks'[k].at = "delete" /\ Th(k)' = Th(k)
    BY GotoIs, ThreadsStay DEF ThreadLeave, Steps, Th
  <1>2. (HasRow(t)' <=> HasRow(t)) /\ (Loaded(t)' <=> Loaded(t))
    BY <1>1 DEF HasRow, Loaded
  <1>3. ASSUME NEW j \in Tasks
        PROVE  /\ In(j, "row", t)' => In(j, "row", t)
               /\ In(j, "load", t)' <=> In(j, "load", t)
               /\ In(j, "join", t)' <=> In(j, "join", t)
               /\ In(j, "delete", t) => In(j, "delete", t)'
    <2>1. CASE j = k
      BY <1>1, <2>1 DEF In
    <2>2. CASE j # k
      BY <1>1, <2>2, OthersAre
    <2> QED BY <2>1, <2>2
  <1>4. t = Th(k) => In(k, "delete", t)'
    BY <1>1 DEF In
  <1> QED BY <1>1, <1>2, <1>3, <1>4 DEF ThreadTidy

\* Nobody adds or loads a clear thread whose row goes.
LEMMA TidyByDelete ==
    ASSUME InvTypeOK, Roles, Rostered, Fights, NEW k \in Tasks, DeleteRow(k),
           NEW t \in Threads, t \notin blurred, ThreadTidy(t)
    PROVE  ThreadTidy(t)'
  <1>1. /\ UNCHANGED <<occasion, roster, joined>> /\ tasks[k].at = "delete" /\ tasks[k] # NoTask
        /\ \A j \in Tasks \ {k} : tasks'[j] = tasks[j]
        /\ tasks'[k].at = "drop" /\ Removal(tasks[k])
    BY GotoIs, RoleIs DEF DeleteRow, Steps, deskVars
  <1>2. (HasRow(t)' <=> HasRow(t) /\ t # Th(k)) /\ (Loaded(t)' <=> Loaded(t))
    BY <1>1, DeleteRowIs DEF HasRow, Loaded
  <1>3. ASSUME NEW j \in Tasks
        PROVE  /\ In(j, "row", t)' <=> In(j, "row", t)
               /\ In(j, "load", t)' <=> In(j, "load", t)
               /\ In(j, "join", t)' <=> In(j, "join", t)
               /\ In(j, "delete", t) /\ t # Th(k) => In(j, "delete", t)'
    <2>1. CASE j = k
      BY <1>1, <2>1 DEF In
    <2>2. CASE j # k
      BY <1>1, <2>2, OthersAre
    <2> QED BY <2>1, <2>2
  <1>4. CASE t # Th(k)
    BY <1>1, <1>2, <1>3, <1>4 DEF ThreadTidy
  <1>5. CASE t = Th(k)
    <2>1. ASSUME NEW j \in Tasks, NEW at \in {"row", "load"} PROVE ~In(j, at, t)
      <3>1. SUFFICES ASSUME In(j, at, t) PROVE FALSE
        OBVIOUS
      <3>2. Busy(j) /\ Busy(k) /\ Th(j) = Th(k) /\ j # k
        BY <1>1, <1>5, <3>1, RoleIs DEF In, Busy
      <3>3. t \notin Whole(Th(j))
        BY <1>1, <3>2, Alone
      <3> QED BY <1>5, <3>2, <3>3, InWhole
    <2> QED BY <1>2, <1>3, <1>5, <2>1 DEF ThreadTidy
  <1> QED BY <1>4, <1>5

\* A restart has marked the threads that tasks were at.
LEMMA TidyByRestart ==
    ASSUME InvTypeOK, Roles, NEW k \in Tasks, Restart(k), UNCHANGED <<occasion, rows, joined>>,
           NEW t \in Threads, t \notin blurred', ThreadTidy(t)
    PROVE  ThreadTidy(t)'
  <1>1. ASSUME NEW j \in Tasks PROVE \A at : at # "none" => ~In(j, at, t)'
    <2>1. tasks'[j] = NoTask
      BY RestartIs
    <2> QED BY <2>1 DEF In, NoTask
  <1>2. ASSUME NEW j \in Tasks, NEW at, at # "none" PROVE ~In(j, at, t)
    <2>1. SUFFICES ASSUME In(j, at, t) PROVE FALSE
      OBVIOUS
    <2>2. Busy(j) /\ t \in Whole(Th(j))
      BY <1>2, <2>1, RoleIs, InWhole DEF In, Busy
    <2> QED BY <2>2, CutIs
  <1>3. HasRow(t)' <=> HasRow(t)
    BY DEF HasRow
  <1> QED BY <1>1, <1>2, <1>3 DEF ThreadTidy

\* A thread that is clear stays tidy.
LEMMA TidyStays ==
    ASSUME InvTypeOK, Roles, Rostered, Keeps, Fights, InvNext,
           NEW t \in Threads, t \notin blurred', ThreadTidy(t)
    PROVE  ThreadTidy(t)'
  <1>0. occasion' = occasion /\ t \notin blurred /\ (roster' = roster => (Loaded(t)' => Loaded(t)))
    BY StepIs DEF Loaded
  <1>1. ASSUME NEW k \in Tasks, Enters(k) PROVE ThreadTidy(t)'
    <2>1. Entered(k)
      BY <1>1, EntersIs
    <2>2. CASE tasks'[k].at = "row"
      BY <2>1, <2>2, TidyByNew
    <2>3. CASE tasks'[k].at # "row"
      BY <1>0, <2>1, <2>3, TidyElsewhere DEF Entered
    <2> QED BY <2>2, <2>3
  <1>2. ASSUME NEW k \in Tasks,
               \/ HandleStart(k) \/ StoreInvite(k) \/ HandleUpdate(k) \/ SendNotification(k)
               \/ ForgetInvite(k) \/ ForgetNote(k)
        PROVE  ThreadTidy(t)'
    <2>1. UNCHANGED <<rows, roster, joined>>
      BY <1>2 DEF HandleStart, StoreInvite, HandleUpdate, SendNotification, ForgetInvite, ForgetNote,
                  deskVars
    <2> QED BY <1>0, <1>2, <2>1, PathIs, TidyElsewhere DEF Advanced, NoTask
  <1>3. ASSUME NEW k \in Tasks, FindLoaded(k) PROVE ThreadTidy(t)'
    <2>1. /\ UNCHANGED <<rows, roster, joined>> /\ tasks[k].at = "find"
          /\ \A j \in Tasks \ {k} : tasks'[j] = tasks[j]
          /\ tasks'[k] = NoTask \/ tasks'[k].at = "leave"
      BY <1>3, FindLoadedIs DEF FindLoaded
    <2>2. tasks'[k].at \in {"none", "leave"}
      BY <2>1 DEF NoTask
    <2> QED BY <1>0, <2>1, <2>2, TidyElsewhere
  <1>4. ASSUME NEW k \in Tasks, DropLoaded(k) PROVE ThreadTidy(t)'
    <2>1. UNCHANGED <<rows, joined>> /\ tasks[k].at = "drop"
      BY <1>4, DropLoadedIs DEF DropLoaded
    <2>2. CASE Restart(k)
      BY <1>0, <2>1, <2>2, TidyByRestart
    <2>3. CASE ~Restart(k)
      <3>1. Done(k) /\ (Loaded(t)' => Loaded(t))
        BY <1>4, <2>3, DropLoadedIs DEF Loaded
      <3> QED BY <1>0, <2>1, <3>1, DoneIs, TidyElsewhere
    <2> QED BY <2>2, <2>3
  <1>5. ASSUME NEW k \in Tasks, TaskFails(k) PROVE ThreadTidy(t)'
    <2>1. UNCHANGED <<rows, roster, joined>> /\ t \notin Whole(Th(k))
      BY <1>5 DEF TaskFails, Th
    <2>2. Advanced(k, {"delete"})
      BY <1>5, PathIs
    <2>3. Th(k) # t
      BY <1>0, <2>1, InWhole
    <2>4. tasks'[k].at = "none" \/ Th(k)' # t
      BY <1>0, <2>2, <2>3, ThreadsStay DEF Advanced, NoTask
    <2> QED BY <1>0, <2>1, <2>2, <2>3, <2>4, TidyElsewhere DEF Advanced
  <1>6. ASSUME ProcessDies PROVE ThreadTidy(t)'
    <2>1. UNCHANGED <<rows, joined>> /\ \E k \in Tasks : Restart(k)
      BY <1>6 DEF ProcessDies
    <2> QED BY <1>0, <2>1, TidyByRestart
  <1> QED BY <1>0, <1>1, <1>2, <1>3, <1>4, <1>5, <1>6, TidyByCheck, TidyByAddRow,
             TidyByLoad, TidyByJoin, TidyByLeave, TidyByDelete DEF InvNext, Enters

-----------------------------------------------------------------------------
\* At first there are only the threads of the occasion.
LEMMA DeskInit ==
    ASSUME InvInit
    PROVE  DeskInv
  <1>1. occasion \in Occasion /\ IsFiniteSet(occasion.start) /\ occasion.start \subseteq Threads
    <2>1. occasion \in Occasion /\ occasion.start \subseteq Threads
      BY InvitesAssumption DEF InvInit, Occasion
    <2> QED BY <2>1, InvitesAssumption, FS_Subset
  <1>2. /\ rows \in Seq(Threads) /\ roster = rows /\ IsInjective(rows)
        /\ ToSet(rows) = occasion.start
    <2>1. /\ rows \in Seq(occasion.start) /\ IsInjective(rows) /\ ToSet(rows) = occasion.start
          /\ roster = rows
      BY <1>1, SetToSeqIs DEF InvInit
    <2>2. rows \in Seq(Threads)
      BY <1>1, <2>1
    <2> QED BY <2>1, <2>2
  <1>3. InvTypeOK
    <2>1. occasion.copies \in [Message -> Nat]
      BY <1>1 DEF Occasion, Message
    <2>2. NoTask \in Task
      BY DEF NoTask, Task, Steps
    <2>3. 0 \in 0..MaxBreaks
      BY InvitesAssumption
    <2> QED BY <1>1, <1>2, <2>1, <2>2, <2>3 DEF InvInit, InvTypeOK
  <1>4. \A k \in Tasks : tasks[k] = NoTask
    BY DEF InvInit
  <1>5. ASSUME NEW k \in Tasks
        PROVE  Role(k) /\ KeptBy(k) /\ ~Removing(k) /\ ~Busy(k) /\ Placed(k)
    BY <1>4 DEF Role, KeptBy, Removing, Busy, Placed, NoTask
  <1>6. \A k \in Tasks : \A at : at # "none" => \A t : ~In(k, at, t) /\ ~At(k, at, t)
    BY <1>4 DEF In, At, NoTask
  <1>7. Keeps
    BY <1>2, <1>5 DEF Keeps, InvInit
  <1>8. Rostered
    <2>1. \A t \in Threads : Differ(t)
      BY <1>2, <1>6 DEF Differ, Loading, Dropping, HasRow, Loaded
    <2> QED BY <1>2, <1>5, <2>1 DEF Rostered, Intact
  <1>9. Tidies
    <2>1. \A m \in Message : notes[m] = 0
      BY DEF InvInit
    <2>2. waiting = {} /\ stored = {} /\ joined = ToSet(rows)
      BY <1>2 DEF InvInit
    <2>3. \A i \in Adds : AddTidy(i)
      BY <1>6, <2>1, <2>2 DEF AddTidy, TaskOn, Message
    <2>4. \A u \in Updates : UpdateTidy(u)
      BY <1>6, <2>1, <2>2 DEF UpdateTidy, TaskOn, Message
    <2>5. \A t \in Threads : ThreadTidy(t)
      BY <1>6, <2>2 DEF ThreadTidy, HasRow
    <2> QED BY <2>3, <2>4, <2>5 DEF Tidies
  <1>10. Roles /\ Fights
    BY <1>5 DEF Roles, Fights
  <1> QED BY <1>3, <1>7, <1>8, <1>9, <1>10 DEF DeskInv

\* Every step keeps the invariant.
LEMMA DeskNext ==
    ASSUME DeskInv, [InvNext]_invVars
    PROVE  DeskInv'
  <1>1. CASE InvNext
    <2>1. InvTypeOK' /\ Roles' /\ Rostered' /\ Keeps' /\ Fights'
      BY <1>1, DeskTypes, RosteredStays, KeepsStay, FightsStay DEF DeskInv
    <2>2. blurred \subseteq blurred'
      BY <1>1, StepIs DEF DeskInv
    <2>3. Tidies'
      BY <1>1, <2>2, AddStays, UpdateStays, TidyStays DEF DeskInv, Tidies
    <2> QED BY <2>1, <2>3 DEF DeskInv
  <1>2. CASE UNCHANGED invVars
    <2> USE <1>2 DEF invVars
    <2>1. InvTypeOK'
      BY DEF DeskInv, InvTypeOK
    <2>2. Roles' /\ Keeps'
      BY DEF DeskInv, Roles, Role, Removal, Keeps, KeptBy, Kept, Th, ThreadOf
    <2>3. Rostered'
      BY RosteredSame DEF DeskInv
    <2>4. Fights'
      BY DEF DeskInv, Fights, Busy, Shared, Removal, Whole, BlocksIn, ThreadOf
    <2>5. Tidies'
      <3>1. \A i : AddTidy(i) => AddTidy(i)'
        BY AddElsewhere
      <3>2. \A u : HasRow(ThreadOf(u)) => HasRow(ThreadOf(u))'
        BY DEF HasRow, ThreadOf
      <3>3. \A u : UpdateTidy(u) => UpdateTidy(u)'
        BY <3>2, UpdateElsewhere
      <3>4. \A t : ThreadTidy(t) => ThreadTidy(t)'
        BY TidyElsewhere DEF Loaded
      <3> QED BY <3>1, <3>3, <3>4 DEF DeskInv, Tidies
    <2> QED BY <2>1, <2>2, <2>3, <2>4, <2>5 DEF DeskInv
  <1> QED BY <1>1, <1>2

\* What is answered is not lost, the list of loaded threads is the table's, and
\* what nothing met half way is tidy: whoever handles what at the same time.
THEOREM InvitesAlwaysSound == InvSpec => []InvitesSound
  <1>1. ASSUME DeskInv PROVE InvitesSound
    <2>1. InviteKept
      BY <1>1 DEF DeskInv, Keeps, Kept, InviteKept
    <2>2. RosterMatches
      <3>1. ASSUME AllDone, ~torn PROVE ToSet(roster) = ToSet(rows)
        <4>1. \A t \in Threads : HasRow(t) <=> Loaded(t)
          BY <1>1, <3>1 DEF DeskInv, Rostered, Intact, Differ, Loading, Dropping, In, AllDone, NoTask
        <4>2. ToSet(roster) \subseteq Threads /\ ToSet(rows) \subseteq Threads
          BY <1>1 DEF DeskInv, InvTypeOK, Keeps
        <4> QED BY <4>1, <4>2 DEF HasRow, Loaded
      <3> QED BY <1>1, <3>1 DEF RosterMatches, DeskInv, Rostered
    <2>3. ASSUME AllDone PROVE LeftTidy
      <3>1. \A k \in Tasks : \A at : at # "none" => \A t : ~In(k, at, t) /\ ~At(k, at, t)
        BY <2>3 DEF In, At, NoTask, AllDone
      <3>2. \A i \in Adds \ blurred : notes[i] = IF i \in waiting THEN 1 ELSE 0
        BY <1>1, <3>1 DEF DeskInv, Tidies, AddTidy, TaskOn
      <3>3. \A u \in Updates \ blurred : /\ u \in stored => HasRow(ThreadOf(u))
                                         /\ notes[u] = IF u \in stored THEN 1 ELSE 0
        BY <1>1, <3>1 DEF DeskInv, Tidies, UpdateTidy, TaskOn
      <3>4. \A t \in ToSet(rows) \ blurred : t \in joined
        <4>1. ToSet(rows) \subseteq Threads
          BY <1>1 DEF DeskInv, InvTypeOK, Keeps
        <4> QED BY <1>1, <3>1, <4>1 DEF DeskInv, Tidies, ThreadTidy, HasRow
      <3> QED BY <3>2, <3>3, <3>4 DEF LeftTidy
    <2> QED BY <2>1, <2>2, <2>3 DEF InvitesSound, LeftTidy
  <1> QED BY <1>1, DeskInit, DeskNext, PTL DEF InvSpec

-----------------------------------------------------------------------------
\* What is still to be done for the snapshot of a thread: a block that goes to
\* its head, a removal, a request that was not handled.
Editing(d, t) == \E e \in edits[d] : e.thread = t
LeavingIt(d, t) == leaving[d].thread = t
Gone(d, t) == stacks[d][t] = NoThread \/ leaving[d] = [thread |-> t, at |-> "row"]
Due(d, t) == \E r \in queue[d] \ flush[d].good : r.thread = t
UnstoreDue(d, t) == \E r \in queue[d] \ flush[d].good : r.thread = t /\ r.type = "unstore"
Covered(d, t) ==
    \/ joinOf[d][t] = "queued" \/ Editing(d, t) \/ LeavingIt(d, t) \/ Due(d, t)
    \/ kept[d][t] = stacks[d][t]
ToWalk(d, t) == \E i \in walk[d].at..walk[d].len : loadedBy[d][i] = t

\* The requests of a batch, and the one whose thread was read and is under way.
InBatch(d) == flush[d].todo \cup flush[d].good \cup flush[d].bad
Handed(d, r) ==
    /\ flush[d].hand # NoThread /\ r \in flush[d].todo /\ r.type = "store"
    /\ \A s \in flush[d].todo : s.type = "store" => s.date >= r.date

\* The table of requests, and the batch of a flush in it.
Requests(d) ==
    /\ \A r, s \in queue[d] : r.date = s.date => r = s
    /\ \A r \in queue[d] : r.date <= dates[d]
    /\ InBatch(d) \subseteq queue[d] /\ \A r \in InBatch(d) : r.date <= flush[d].last
    /\ flush[d].todo \cap flush[d].good = {} /\ flush[d].todo \cap flush[d].bad = {}
    /\ flush[d].good \cap flush[d].bad = {}
    /\ ~flush[d].on => flush[d] = Still

\* The list of threads and the table, a walk, and a device without a cafe.
Listing(d) ==
    /\ IsInjective(loadedBy[d])
    /\ \A t \in Backed : Has(d, t) <=> stacks[d][t] # NoThread
    /\ \A t \in Backed : LeavingIt(d, t) => stacks[d][t] # NoThread
    /\ walk[d] # NoWalk => walk[d].at \in 1..(walk[d].len + 1)
    /\ d \notin backlog.session =>
        /\ queue[d] = {} /\ flush[d] = Still /\ walk[d] = NoWalk
        /\ \A t \in Backed : kept[d][t] = NoThread

\* What was restored is in the thread, or on its way to it.
Merged(d) ==
    \A r \in restored[d] :
        /\ stacks[d][r.thread] # NoThread
        /\ \/ r.blocks \subseteq stacks[d][r.thread]
           \/ [thread |-> r.thread, news |-> r.blocks, at |-> "head"] \in edits[d]

\* The snapshot of a thread is not stale without something that renews it.
Renewed(d, t) ==
    /\ walk[d] = NoWalk /\ d \in backlog.session => Covered(d, t)
    /\ walk[d] # NoWalk => /\ walk[d].len <= Len(loadedBy[d])
                           /\ Covered(d, t) \/ ToWalk(d, t)

\* A thread that goes takes its JOIN along; its snapshot goes, too, and it is
\* not asked to go for a thread that stays.
Unstored(d, t) ==
    /\ stacks[d][t] = NoThread \/ LeavingIt(d, t) => joinOf[d][t] = "none"
    /\ HasRequest(d, t, "unstore") => Gone(d, t)
    /\ Gone(d, t) => kept[d][t] = NoThread \/ UnstoreDue(d, t)

\* What was read of a thread is what it is, or will be stored again; and if
\* the thread goes, the request that it does comes after.
ReadRight(d, t) ==
    \A r \in flush[d].todo : Handed(d, r) /\ r.thread = t =>
        /\ \A s \in InBatch(d) : s.thread = t => s.type = "store"
        /\ Gone(d, t) => UnstoreDue(d, t)
        /\ \/ flush[d].hand = stacks[d][t] \/ Editing(d, t) \/ LeavingIt(d, t)
           \/ \E s \in queue[d] \ flush[d].good : s.thread = t /\ s # r

Firm(d, t) == <<d, t>> \in frayed \/ (Renewed(d, t) /\ Unstored(d, t) /\ ReadRight(d, t))

-----------------------------------------------------------------------------
\* The constants, unfolded.
LEMMA BakConstants ==
    /\ Backlogs \subseteq Backlog /\ GroupSize \in Nat /\ Attempts \in Nat /\ Mishaps \in Nat
    /\ IsFiniteSet(Backed) /\ NoThread \notin Backed /\ NoThread \notin Content
  BY BackupsAssumption DEF BackupsAssumption

\* A request that is added is one.
LEMMA AddRequestTypes ==
    ASSUME BakTypeOK, NEW d \in Devices, NEW t \in Backed, NEW type \in {"store", "unstore"},
           AddRequest(d, t, type)
    PROVE  queue' \in [Devices -> SUBSET Asked] /\ dates' \in [Devices -> Nat]
  <1>1. NewRequest(d, t, type) \in Asked
    BY BakConstants DEF NewRequest, Asked, BakTypeOK
  <1>2. dates[d] + 1 \in Nat
    BY DEF BakTypeOK
  <1>3. CASE d \in backlog.session
    <2>1. /\ dates' = [dates EXCEPT ![d] = dates[d] + 1]
          /\ queue' = [queue EXCEPT ![d] = queue[d] \cup {NewRequest(d, t, type)}]
      BY <1>3 DEF AddRequest
    <2>2. queue' \in [Devices -> SUBSET Asked]
      BY <1>1, <2>1 DEF BakTypeOK
    <2>3. dates' \in [Devices -> Nat]
      BY <1>2, <2>1 DEF BakTypeOK
    <2> QED BY <2>2, <2>3
  <1>4. CASE d \notin backlog.session
    BY <1>4 DEF AddRequest, BakTypeOK, queueVars
  <1> QED BY <1>3, <1>4

\* The next batch is of requests in the table.
LEMMA NextBatchTypes ==
    ASSUME BakTypeOK, NEW d \in Devices, NEW date, NextBatch(d, date)
    PROVE  flush' \in [Devices -> Flushing]
  <1>1. Still \in Flushing
    BY DEF Still, Flushing
  <1>2. Listed(d, date) \subseteq Asked
    BY DEF Listed, BakTypeOK
  <1>3. ASSUME NEW last \in Listed(d, date)
        PROVE  [on |-> TRUE, todo |-> Listed(d, date), type |-> "none", hand |-> NoThread,
                last |-> last.date, good |-> {}, bad |-> {}] \in Flushing
    BY <1>2, <1>3 DEF Asked, Flushing
  <1>4. PICK f \in Flushing : flush' = [flush EXCEPT ![d] = f]
    BY <1>1, <1>3 DEF NextBatch
  <1> QED BY <1>4 DEF BakTypeOK

\* What a device loses is not there any more.
LEMMA LosesTypes ==
    ASSUME BakTypeOK, NEW d \in Devices, DeviceLoses(d)
    PROVE  /\ edits' \in [Devices -> SUBSET Edit]
           /\ leaving' \in [Devices -> [thread : Backed, at : {"request", "row"}] \cup {Nowhere}]
           /\ walk' \in [Devices -> [at : Nat, len : Nat]]
           /\ flush' \in [Devices -> Flushing]
           /\ answers' \in [Devices -> SUBSET Result] /\ restored' \in [Devices -> SUBSET Result]
           /\ frayed' \subseteq Devices \X Backed
  <1>1. /\ leaving[d].thread \in Backed \cup {NoThread}
        /\ {e.thread : e \in edits[d]} \subseteq Backed
    BY DEF BakTypeOK, Nowhere, Edit
  <1>2. frayed' \subseteq Devices \X Backed
    BY <1>1 DEF DeviceLoses, BakTypeOK
  <1>3. leaving' \in [Devices -> [thread : Backed, at : {"request", "row"}] \cup {Nowhere}]
    BY DEF DeviceLoses, BakTypeOK
  <1>4. walk' \in [Devices -> [at : Nat, len : Nat]]
    BY DEF DeviceLoses, BakTypeOK, NoWalk
  <1>5. Still \in Flushing
    BY DEF Still, Flushing
  <1>6. flush' \in [Devices -> Flushing]
    BY <1>5 DEF DeviceLoses, BakTypeOK
  <1> QED BY <1>2, <1>3, <1>4, <1>6 DEF DeviceLoses, BakTypeOK

\* An answered request leaves what is to do.
LEMMA AnsweredTypes ==
    ASSUME BakTypeOK, NEW d \in Devices, NEW r \in flush[d].todo, NEW ok \in BOOLEAN,
           Answered(d, r, ok)
    PROVE  flush' \in [Devices -> Flushing]
  <1> DEFINE f == flush[d]
             g == [on |-> f.on, todo |-> f.todo \ {r}, type |-> r.type, hand |-> NoThread,
                   last |-> f.last, good |-> IF ok THEN f.good \cup {r} ELSE f.good,
                   bad |-> IF ok THEN f.bad ELSE f.bad \cup {r}]
  <1>1. f \in Flushing /\ r \in Asked
    BY DEF BakTypeOK, Flushing
  <1>2. r.type \in {"store", "unstore"}
    BY <1>1 DEF Asked
  <1>3. g \in Flushing
    BY <1>1, <1>2 DEF Flushing
  <1> QED BY <1>3 DEF Answered, BakTypeOK

\* A removal from the list leaves a list of threads.
LEMMA LoadedTypes ==
    ASSUME BakTypeOK, NEW d \in Devices, IsInjective(loadedBy[d]), NEW i \in DOMAIN loadedBy[d]
    PROVE  /\ loadedBy[d] \in Seq(Backed) /\ DOMAIN loadedBy[d] = 1..Len(loadedBy[d])
           /\ RemoveAt(loadedBy[d], i) \in Seq(Backed) /\ IsInjective(RemoveAt(loadedBy[d], i))
           /\ ToSet(RemoveAt(loadedBy[d], i)) = ToSet(loadedBy[d]) \ {loadedBy[d][i]}
  <1>1. loadedBy[d] \in Seq(Backed)
    BY DEF BakTypeOK
  <1>2. DOMAIN loadedBy[d] = 1..Len(loadedBy[d])
    BY <1>1, LenProperties
  <1> QED BY <1>1, <1>2, RemoveAtIs

\* A row that is added has its type.
LEMMA AddRowTypes ==
    ASSUME BakTypeOK, NEW d \in Devices, NEW t \in Backed, NEW blocks \in Content,
           AddBackedRow(d, t, blocks)
    PROVE  /\ stacks' \in [Devices -> [Backed -> {NoThread} \cup Content]]
           /\ loadedBy' \in [Devices -> Seq(Backed)] /\ frayed' \subseteq Devices \X Backed
  <1>1. Append(loadedBy[d], t) \in Seq(Backed)
    BY AppendProperties DEF BakTypeOK
  <1> QED BY <1>1 DEF AddBackedRow, BakTypeOK

\* What a search finds are snapshots.
LEMMA FoundTypes ==
    ASSUME BakTypeOK, NEW d \in Devices, SyncAccount(d)
    PROVE  answers' \in [Devices -> SUBSET Result]
  <1> DEFINE backed == {t \in Backed : \E e \in Devices : kept[e][t] # NoThread}
  <1>1. PICK pick \in [backed -> Devices] :
            /\ \A t \in backed : kept[pick[t]][t] # NoThread
            /\ answers' = [answers EXCEPT ![d] = SearchThreadSnapshots(pick)]
    BY DEF SyncAccount
  <1>2. SearchLocal(pick) \subseteq Result
    <2>1. ASSUME NEW t \in backed PROVE kept[pick[t]][t] \in Content
      BY <1>1, <2>1 DEF BakTypeOK
    <2>2. DOMAIN pick = backed
      BY <1>1
    <2> QED BY <2>1, <2>2 DEF SearchLocal, Result
  <1>3. ASSUME NEW e \in Devices PROVE OwnThreads(e) \subseteq Result
    BY DEF OwnThreads, Result, BakTypeOK
  <1>4. backlog.online \subseteq Devices
    BY DEF BakTypeOK, Backlog
  <1>5. SearchThreadSnapshots(pick) \subseteq Result
    BY <1>2, <1>3, <1>4 DEF SearchThreadSnapshots
  <1> QED BY <1>1, <1>5 DEF BakTypeOK

\* Every step keeps the types.
LEMMA BakStepTypes ==
    ASSUME BakTypeOK, NEW d \in Devices, Listing(d)
    PROVE  /\ \A t \in Backed : AddBacked(d, t) => BakTypeOK'
           /\ \A t \in Backed : PostJoin(d, t) => BakTypeOK'
           /\ \A t \in Backed : RemoveBacked(d, t) => BakTypeOK'
           /\ \A t \in Backed, b \in Blocks : PostUpdate(d, t, b) => BakTypeOK'
           /\ \A e \in edits[d] : UpdateHead(d, e) => BakTypeOK'
           /\ \A e \in edits[d] : Store(d, e) => BakTypeOK'
           /\ RequestUnstore(d) => BakTypeOK'
           /\ DeleteBackedRow(d) => BakTypeOK'
           /\ SnapshotThreads(d) => BakTypeOK'
           /\ SnapshotNext(d) => BakTypeOK'
           /\ StartFlush(d) => BakTypeOK'
           /\ EndBatch(d) => BakTypeOK'
           /\ SyncAccount(d) => BakTypeOK'
           /\ DeviceDies(d) => BakTypeOK'
           /\ \A r \in flush[d].todo : ReadThread(d, r) => BakTypeOK'
           /\ \A r \in flush[d].todo, ok, arrives \in BOOLEAN :
                StoreThread(d, r, ok, arrives) => BakTypeOK'
           /\ \A r \in flush[d].todo, ok, arrives \in BOOLEAN :
                UnstoreThread(d, r, ok, arrives) => BakTypeOK'
           /\ \A r \in answers[d] : ApplySnapshot(d, r) => BakTypeOK'
  <1> USE DEF threadVars, workVars, queueVars, syncVars
  <1>0. /\ backlog \in Backlog /\ \A e \in edits[d] : e \in Edit
        /\ \A r \in queue[d] \cup flush[d].todo \cup flush[d].bad : r \in Asked
        /\ \A r \in answers[d] : r \in Result
        /\ Mishaps \in Nat /\ flush[d] \in Flushing /\ IsInjective(loadedBy[d])
        /\ {d} \in Content /\ {} \in Content /\ \A b \in Blocks : {b} \in Content
    BY BakConstants DEF BakTypeOK, Flushing, Content, Listing
  <1>1. ASSUME NEW t \in Backed, AddBacked(d, t) PROVE BakTypeOK'
    <2>1. backlog' \in Backlog
      BY <1>0, <1>1 DEF AddBacked, Backlog
    <2>2. joinOf' \in [Devices -> [Backed -> {"none", "queued", "posted"}]]
      BY <1>1 DEF AddBacked, BakTypeOK
    <2>3. AddBackedRow(d, t, {})
      BY <1>1 DEF AddBacked
    <2> QED BY <1>0, <1>1, <2>1, <2>2, <2>3, AddRowTypes DEF AddBacked, BakTypeOK
  <1>2. ASSUME NEW t \in Backed, PostJoin(d, t) PROVE BakTypeOK'
    <2>1. [thread |-> t, news |-> {d}, at |-> "head"] \in Edit
      BY <1>0 DEF Edit
    <2> QED BY <1>2, <2>1 DEF PostJoin, BakTypeOK
  <1>3. ASSUME NEW t \in Backed, RemoveBacked(d, t) PROVE BakTypeOK'
    <2>1. backlog' \in Backlog
      BY <1>0, <1>3 DEF RemoveBacked, Backlog
    <2> QED BY <1>3, <2>1 DEF RemoveBacked, BakTypeOK
  <1>4. ASSUME NEW t \in Backed, NEW b \in Blocks, PostUpdate(d, t, b) PROVE BakTypeOK'
    <2>1. backlog' \in Backlog
      BY <1>0, <1>4 DEF PostUpdate, Backlog
    <2>2. [thread |-> t, news |-> {b}, at |-> "head"] \in Edit
      BY <1>0 DEF Edit
    <2> QED BY <1>4, <2>1, <2>2 DEF PostUpdate, BakTypeOK
  <1>5. ASSUME NEW e \in edits[d], UpdateHead(d, e) PROVE BakTypeOK'
    <2>1. [e EXCEPT !.at = "store"] \in Edit /\ e.thread \in Backed /\ e.news \in Content
      BY <1>0 DEF Edit
    <2>2. \A blocks \in Content : blocks \cup e.news \in Content
      BY <2>1 DEF Content
    <2>3. stacks' \in [Devices -> [Backed -> {NoThread} \cup Content]]
      <3>1. stacks[d] \in [Backed -> {NoThread} \cup Content]
        BY DEF BakTypeOK
      <3>2. PICK x \in {NoThread} \cup Content :
                stacks' = [stacks EXCEPT ![d] = [stacks[d] EXCEPT ![e.thread] = x]]
        BY <1>5, <2>1, <2>2, <3>1 DEF UpdateHead, BakTypeOK
      <3> QED BY <2>1, <3>1, <3>2 DEF BakTypeOK
    <2> QED BY <1>5, <2>1, <2>3 DEF UpdateHead, BakTypeOK
  <1>6. ASSUME NEW e \in edits[d], Store(d, e) PROVE BakTypeOK'
    <2>1. e.thread \in Backed /\ AddRequest(d, e.thread, "store")
      BY <1>0, <1>6 DEF Edit, Store
    <2>2. queue' \in [Devices -> SUBSET Asked] /\ dates' \in [Devices -> Nat]
      BY <2>1, AddRequestTypes
    <2> QED BY <1>6, <2>2 DEF Store, BakTypeOK
  <1>7. ASSUME RequestUnstore(d) PROVE BakTypeOK'
    <2>1. leaving[d] \in [thread : Backed, at : {"request", "row"}]
      BY <1>7 DEF RequestUnstore, BakTypeOK, Nowhere
    <2>2. leaving[d].thread \in Backed /\ AddRequest(d, leaving[d].thread, "unstore")
      BY <1>7, <2>1 DEF RequestUnstore
    <2>3. queue' \in [Devices -> SUBSET Asked] /\ dates' \in [Devices -> Nat]
      BY <2>2, AddRequestTypes
    <2> QED BY <1>7, <2>1, <2>3 DEF RequestUnstore, BakTypeOK
  <1>8. ASSUME DeleteBackedRow(d) PROVE BakTypeOK'
    <2>1. leaving[d] \in [thread : Backed, at : {"request", "row"}]
      BY <1>8 DEF DeleteBackedRow, BakTypeOK, Nowhere
    <2>2. loadedBy' \in [Devices -> Seq(Backed)]
      <3>1. PICK i \in DOMAIN loadedBy[d] :
                 loadedBy' = [loadedBy EXCEPT ![d] = RemoveAt(loadedBy[d], i)]
        BY <1>8 DEF DeleteBackedRow
      <3>2. RemoveAt(loadedBy[d], i) \in Seq(Backed)
        BY <1>0, <3>1, LoadedTypes
      <3> QED BY <3>1, <3>2 DEF BakTypeOK
    <2>3. stacks' \in [Devices -> [Backed -> {NoThread} \cup Content]]
      BY <1>8, <2>1 DEF DeleteBackedRow, BakTypeOK
    <2> QED BY <1>8, <2>2, <2>3 DEF DeleteBackedRow, BakTypeOK
  <1>9. ASSUME SnapshotThreads(d) PROVE BakTypeOK'
    <2>1. backlog' \in Backlog
      BY <1>0, <1>9 DEF SnapshotThreads, Backlog
    <2>2. Len(loadedBy[d]) \in Nat
      BY LenProperties DEF BakTypeOK
    <2> QED BY <1>9, <2>1, <2>2 DEF SnapshotThreads, BakTypeOK
  <1>10. ASSUME SnapshotNext(d) PROVE BakTypeOK'
    <2>0. walk[d] # NoWalk
      BY <1>10 DEF SnapshotNext
    <2>1. CASE walk[d].at > walk[d].len /\ walk' = [walk EXCEPT ![d] = NoWalk]
               /\ UNCHANGED <<queueVars, edits, leaving, flush, syncVars, frayed>>
      <3>1. NoWalk \in [at : Nat, len : Nat]
        BY DEF NoWalk
      <3> QED BY <1>10, <2>1, <3>1 DEF SnapshotNext, BakTypeOK
    <2>2. CASE /\ walk[d].at <= walk[d].len /\ walk[d].at <= Len(loadedBy[d])
               /\ AddRequest(d, loadedBy[d][walk[d].at], "store")
               /\ walk' = [walk EXCEPT ![d].at = walk[d].at + 1]
               /\ UNCHANGED <<edits, leaving, flush, syncVars, frayed>>
      <3>1. walk[d] \in [at : Nat, len : Nat] /\ walk[d].at >= 1 /\ Len(loadedBy[d]) \in Nat
        BY <2>0, LenProperties DEF BakTypeOK, Listing
      <3>2. loadedBy[d][walk[d].at] \in Backed
        BY <2>2, <3>1, ElementOfSeq DEF BakTypeOK
      <3>3. queue' \in [Devices -> SUBSET Asked] /\ dates' \in [Devices -> Nat]
        BY <2>2, <3>2, AddRequestTypes
      <3>4. walk' \in [Devices -> [at : Nat, len : Nat]]
        <4>1. [walk[d] EXCEPT !.at = walk[d].at + 1] \in [at : Nat, len : Nat]
          BY <3>1
        <4>2. walk' = [walk EXCEPT ![d] = [walk[d] EXCEPT !.at = walk[d].at + 1]]
          BY <2>2
        <4> QED BY <4>1, <4>2 DEF BakTypeOK
      <3> QED BY <1>10, <2>2, <3>3, <3>4 DEF SnapshotNext, BakTypeOK
    <2>3. CASE DeviceLoses(d) /\ UNCHANGED queueVars
      BY <1>10, <2>3, LosesTypes DEF SnapshotNext, BakTypeOK
    <2> QED BY <1>10, <2>1, <2>2, <2>3 DEF SnapshotNext
  <1>11. ASSUME StartFlush(d) PROVE BakTypeOK'
    BY <1>11, NextBatchTypes DEF StartFlush, BakTypeOK
  <1>12. ASSUME EndBatch(d) PROVE BakTypeOK'
    <2> DEFINE f == flush[d]
               lost == {r \in f.bad : r.attempts + 1 >= Attempts}
               again(r) == IF r \in f.bad THEN [r EXCEPT !.attempts = @ + 1] ELSE r
    <2>1. ASSUME NEW r \in queue[d] \ (f.good \cup lost) PROVE again(r) \in Asked
      BY <1>0, <2>1, BakConstants DEF Asked
    <2>2. queue' \in [Devices -> SUBSET Asked]
      BY <1>12, <2>1 DEF EndBatch, BakTypeOK
    <2>3. \A r \in lost : r.thread \in Backed
      BY <1>0 DEF Flushing, Asked
    <2>4. frayed' \subseteq Devices \X Backed
      BY <1>12, <2>3 DEF EndBatch, BakTypeOK
    <2>5. flush' \in [Devices -> Flushing]
      BY <1>12, NextBatchTypes DEF EndBatch
    <2> QED BY <1>12, <2>2, <2>4, <2>5 DEF EndBatch, BakTypeOK
  <1>13. ASSUME SyncAccount(d) PROVE BakTypeOK'
    <2>1. backlog' \in Backlog
      BY <1>0, <1>13 DEF SyncAccount, Backlog
    <2> QED BY <1>13, <2>1, FoundTypes DEF SyncAccount, BakTypeOK
  <1>14. ASSUME DeviceDies(d) PROVE BakTypeOK'
    <2>1. DeviceLoses(d) /\ UNCHANGED <<backlog, threadVars, queueVars, kept>>
      BY <1>14 DEF DeviceDies
    <2>2. mishaps' \in 0..Mishaps
      BY <1>0, <1>14, BakConstants DEF DeviceDies, BakTypeOK
    <2>3. UNCHANGED <<backlog, stacks, kept, joinOf, loadedBy, queue, dates>>
      BY <2>1 DEF threadVars, queueVars
    <2> QED BY <2>1, <2>2, <2>3, LosesTypes DEF BakTypeOK
  <1>15. ASSUME NEW r \in flush[d].todo, ReadThread(d, r) PROVE BakTypeOK'
    <2>1. r.thread \in Backed /\ stacks[d][r.thread] \in {NoThread} \cup Content
      BY <1>0 DEF Asked, BakTypeOK
    <2>2. frayed' \subseteq Devices \X Backed
      <3>1. frayed' \subseteq frayed \cup {<<d, r.thread>>}
        BY <1>15 DEF ReadThread
      <3> QED BY <2>1, <3>1 DEF BakTypeOK
    <2>3. CASE Answered(d, r, TRUE)
      BY <1>15, <2>2, <2>3, AnsweredTypes DEF ReadThread, BakTypeOK
    <2>4. CASE flush' = [flush EXCEPT ![d] = [@ EXCEPT !.hand = stacks[d][r.thread], !.type = "store"]]
      <3>1. flush' \in [Devices -> Flushing]
        BY <1>0, <2>1, <2>4 DEF Flushing, BakTypeOK
      <3> QED BY <1>15, <2>2, <3>1 DEF ReadThread, BakTypeOK
    <2> QED BY <1>15, <2>3, <2>4 DEF ReadThread
  <1>16. ASSUME NEW r \in flush[d].todo, NEW ok \in BOOLEAN, NEW arrives \in BOOLEAN,
                StoreThread(d, r, ok, arrives)
         PROVE  BakTypeOK'
    <2>1. r.thread \in Backed /\ flush[d].hand \in {NoThread} \cup Content
      BY <1>0 DEF Asked, Flushing
    <2>2. kept' \in [Devices -> [Backed -> {NoThread} \cup Content]]
      <3>1. kept[d] \in [Backed -> {NoThread} \cup Content]
        BY DEF BakTypeOK
      <3>2. CASE kept' = kept
        BY <3>2 DEF BakTypeOK
      <3>3. CASE kept' = [kept EXCEPT ![d] = [kept[d] EXCEPT ![r.thread] = flush[d].hand]]
        BY <2>1, <3>1, <3>3 DEF BakTypeOK
      <3> QED BY <1>16, <3>2, <3>3 DEF StoreThread, HandleStoreThread
    <2>3. mishaps' \in 0..Mishaps
      BY <1>0, <1>16 DEF StoreThread, Sent, BakTypeOK
    <2>4. flush' \in [Devices -> Flushing]
      BY <1>16, AnsweredTypes DEF StoreThread
    <2> QED BY <1>16, <2>2, <2>3, <2>4 DEF StoreThread, BakTypeOK
  <1>17. ASSUME NEW r \in flush[d].todo, NEW ok \in BOOLEAN, NEW arrives \in BOOLEAN,
                UnstoreThread(d, r, ok, arrives)
         PROVE  BakTypeOK'
    <2>2. kept' \in [Devices -> [Backed -> {NoThread} \cup Content]]
      <3>1. kept[d] \in [Backed -> {NoThread} \cup Content]
        BY DEF BakTypeOK
      <3>2. CASE kept' = kept
        BY <3>2 DEF BakTypeOK
      <3>3. CASE kept' = [kept EXCEPT ![d] = [kept[d] EXCEPT ![r.thread] = NoThread]]
        BY <3>1, <3>3 DEF BakTypeOK
      <3> QED BY <1>17, <3>2, <3>3 DEF UnstoreThread, HandleUnstoreThread
    <2>3. mishaps' \in 0..Mishaps
      BY <1>0, <1>17 DEF UnstoreThread, Sent, BakTypeOK
    <2>4. flush' \in [Devices -> Flushing]
      BY <1>17, AnsweredTypes DEF UnstoreThread
    <2> QED BY <1>17, <2>2, <2>3, <2>4 DEF UnstoreThread, BakTypeOK
  <1>18. ASSUME NEW r \in answers[d], ApplySnapshot(d, r) PROVE BakTypeOK'
    <2>1. r.thread \in Backed /\ r.blocks \in Content
      BY <1>0 DEF Result
    <2>2. joinOf' \in [Devices -> [Backed -> {"none", "queued", "posted"}]]
      BY <1>18, <2>1 DEF ApplySnapshot, BakTypeOK
    <2>3. [thread |-> r.thread, news |-> r.blocks, at |-> "head"] \in Edit
      BY <2>1 DEF Edit
    <2>6. /\ answers' \in [Devices -> SUBSET Result] /\ restored' \in [Devices -> SUBSET Result]
      BY <1>18, <1>0 DEF ApplySnapshot, BakTypeOK
    <2>4. CASE AddBackedRow(d, r.thread, r.blocks) /\ UNCHANGED edits
      <3>1. /\ stacks' \in [Devices -> [Backed -> {NoThread} \cup Content]]
            /\ loadedBy' \in [Devices -> Seq(Backed)] /\ frayed' \subseteq Devices \X Backed
        BY <2>1, <2>4, AddRowTypes
      <3> QED BY <1>18, <2>2, <2>4, <2>6, <3>1 DEF ApplySnapshot, BakTypeOK
    <2>5. CASE /\ edits' \in {edits, [edits EXCEPT ![d] = edits[d] \cup
                                {[thread |-> r.thread, news |-> r.blocks, at |-> "head"]}]}
               /\ frayed' = frayed \cup IF leaving[d].thread = r.thread THEN {<<d, r.thread>>} ELSE {}
               /\ UNCHANGED <<stacks, loadedBy>>
      <3>1. edits' \in [Devices -> SUBSET Edit]
        <4>1. CASE edits' = edits
          BY <4>1 DEF BakTypeOK
        <4>2. CASE edits' = [edits EXCEPT ![d] = edits[d] \cup
                                {[thread |-> r.thread, news |-> r.blocks, at |-> "head"]}]
          BY <2>3, <4>2 DEF BakTypeOK
        <4> QED BY <2>5, <4>1, <4>2
      <3>2. frayed' \subseteq Devices \X Backed
        BY <2>1, <2>5 DEF BakTypeOK
      <3> QED BY <1>18, <2>2, <2>5, <2>6, <3>1, <3>2 DEF ApplySnapshot, BakTypeOK
    <2> QED BY <1>18, <2>4, <2>5 DEF ApplySnapshot
  <1> QED BY <1>1, <1>2, <1>3, <1>4, <1>5, <1>6, <1>7, <1>8, <1>9, <1>10, <1>11, <1>12, <1>13,
             <1>14, <1>15, <1>16, <1>17, <1>18

-----------------------------------------------------------------------------
\* What holds of a device.
DevInv(d) == Requests(d) /\ Listing(d) /\ Merged(d) /\ \A t \in Backed : Firm(d, t)

\* A device that a step is not about.
Untouched(e) ==
    /\ stacks'[e] = stacks[e] /\ loadedBy'[e] = loadedBy[e] /\ joinOf'[e] = joinOf[e]
    /\ edits'[e] = edits[e] /\ leaving'[e] = leaving[e] /\ walk'[e] = walk[e]
    /\ queue'[e] = queue[e] /\ dates'[e] = dates[e] /\ flush'[e] = flush[e]
    /\ kept'[e] = kept[e] /\ restored'[e] = restored[e]
    /\ e \in backlog'.session <=> e \in backlog.session
    /\ \A t \in Backed : <<e, t>> \in frayed => <<e, t>> \in frayed'

\* It keeps what it had.
LEMMA UntouchedKeeps ==
    ASSUME NEW e \in Devices, DevInv(e), Untouched(e)
    PROVE  DevInv(e)'
  <1>1. Requests(e)'
    BY DEF DevInv, Untouched, Requests, InBatch
  <1>2. Listing(e)'
    BY DEF DevInv, Untouched, Listing, Has, LeavingIt
  <1>3. Merged(e)'
    BY DEF DevInv, Untouched, Merged
  <1>4. ASSUME NEW t \in Backed PROVE Firm(e, t)'
    <2>1. Firm(e, t)
      BY DEF DevInv
    <2>2. Gone(e, t)' <=> Gone(e, t)
      BY DEF Gone, Untouched
    <2>3. Covered(e, t)' <=> Covered(e, t)
      BY DEF Untouched, Covered, Editing, LeavingIt, Due
    <2>4. UnstoreDue(e, t)' <=> UnstoreDue(e, t)
      BY DEF Untouched, UnstoreDue
    <2>5. Renewed(e, t) => Renewed(e, t)'
      BY <2>3 DEF Untouched, Renewed, ToWalk
    <2>6. Unstored(e, t) => Unstored(e, t)'
      BY <2>2, <2>4 DEF Untouched, Unstored, LeavingIt, HasRequest
    <2>7. ReadRight(e, t) => ReadRight(e, t)'
      BY <2>2, <2>4 DEF Untouched, ReadRight, Handed, InBatch, Editing, LeavingIt
    <2> QED BY <2>1, <2>5, <2>6, <2>7 DEF Firm, Untouched
  <1> QED BY <1>1, <1>2, <1>3, <1>4 DEF DevInv

\* A thread for which nothing was taken away that would renew its snapshot.
Minded(d, t) ==
    /\ stacks'[d][t] = stacks[d][t] /\ kept'[d][t] = kept[d][t] /\ flush'[d] = flush[d]
    /\ walk'[d] = walk[d] /\ (d \in backlog'.session <=> d \in backlog.session)
    /\ <<d, t>> \in frayed => <<d, t>> \in frayed'
    /\ queue[d] \subseteq queue'[d]
    /\ \A r \in queue'[d] \ queue[d] : r.thread = t => r.type = "store"
    /\ \/ Editing(d, t) => Editing(d, t)' \/ d \notin backlog.session
       \/ \E r \in queue'[d] \ queue[d] : r.thread = t
    /\ joinOf'[d][t] = joinOf[d][t] \/ (joinOf[d][t] = "queued" /\ Editing(d, t)')
    /\ LeavingIt(d, t)' <=> LeavingIt(d, t)
    /\ Gone(d, t)' <=> Gone(d, t)
    /\ walk[d] # NoWalk =>
        /\ ToWalk(d, t) /\ walk[d].len <= Len(loadedBy[d]) => ToWalk(d, t)'
        /\ walk[d].len <= Len(loadedBy[d]) => walk[d].len <= Len(loadedBy'[d])

\* What does not touch a thread keeps what holds of its snapshot.
LEMMA MindedKeeps ==
    ASSUME NEW d \in Devices, NEW t \in Backed, DevInv(d), Minded(d, t)
    PROVE  Firm(d, t)'
  <1>0. Firm(d, t) /\ InBatch(d) \subseteq queue[d] /\ Listing(d)
    BY DEF DevInv, Requests
  <1>1. d \in backlog.session /\ Covered(d, t) => Covered(d, t)'
    BY <1>0 DEF Minded, Covered, Due, InBatch
  <1>2. UnstoreDue(d, t) => UnstoreDue(d, t)'
    BY DEF Minded, UnstoreDue
  <1>3. Renewed(d, t) => Renewed(d, t)'
    BY <1>0, <1>1 DEF Minded, Renewed, Listing
  <1>4. Unstored(d, t) => Unstored(d, t)'
    BY <1>2 DEF Minded, Unstored, HasRequest
  <1>5. ReadRight(d, t) => ReadRight(d, t)'
    <2>1. SUFFICES ASSUME ReadRight(d, t), NEW r \in flush'[d].todo, Handed(d, r)', r.thread = t
                   PROVE  /\ \A s \in InBatch(d)' : s.thread = t => s.type = "store"
                          /\ Gone(d, t)' => UnstoreDue(d, t)'
                          /\ \/ flush'[d].hand = stacks'[d][t] \/ Editing(d, t)' \/ LeavingIt(d, t)'
                             \/ \E s \in queue'[d] \ flush'[d].good : s.thread = t /\ s # r
      BY DEF ReadRight
    <2>2. r \in flush[d].todo /\ Handed(d, r) /\ InBatch(d)' = InBatch(d)
      BY <2>1 DEF Minded, Handed, InBatch
    <2>3. d \in backlog.session
      BY <1>0, <2>2 DEF Listing, Still
    <2>4. r \in queue[d] /\ flush[d].good \subseteq queue[d]
      BY <1>0, <2>2 DEF InBatch
    <2> QED BY <1>2, <2>1, <2>2, <2>3, <2>4 DEF Minded, ReadRight
  <1> QED BY <1>0, <1>3, <1>4, <1>5 DEF Firm, Minded

\* What a request that is added leaves of the table.
LEMMA AddRequestIs ==
    ASSUME BakTypeOK, NEW d \in Devices, NEW t \in Backed, NEW type \in {"store", "unstore"},
           Requests(d), AddRequest(d, t, type), flush'[d] = flush[d]
    PROVE  /\ Requests(d)' /\ queue[d] \subseteq queue'[d]
           /\ \A r \in queue'[d] \ queue[d] : r.thread = t /\ r.type = type
           /\ d \in backlog.session => \E r \in queue'[d] \ queue[d] : r.thread = t /\ r.type = type
           /\ d \notin backlog.session => queue'[d] = queue[d]
  <1>1. dates[d] \in Nat /\ \A r \in queue[d] : r.date \in Nat
    BY DEF BakTypeOK, Asked
  <1>2. CASE d \in backlog.session
    <2> DEFINE n == NewRequest(d, t, type)
    <2>1. dates'[d] = dates[d] + 1 /\ queue'[d] = queue[d] \cup {n}
      BY <1>2 DEF AddRequest, BakTypeOK
    <2>2. n.date = dates[d] + 1 /\ n.thread = t /\ n.type = type
      BY DEF NewRequest
    <2> HIDE DEF n
    <2>3. n \notin queue[d]
      BY <1>1, <2>2 DEF Requests
    <2>4. Requests(d)'
      BY <1>1, <2>1, <2>2 DEF Requests, InBatch
    <2> QED BY <1>2, <2>1, <2>2, <2>3, <2>4
  <1>3. CASE d \notin backlog.session
    <2>1. queue'[d] = queue[d] /\ dates'[d] = dates[d]
      BY <1>3 DEF AddRequest, queueVars
    <2>2. Requests(d)'
      BY <2>1 DEF Requests, InBatch
    <2> QED BY <1>3, <2>1, <2>2
  <1> QED BY <1>2, <1>3

\* What is there of a device, by name.
LEMMA DeviceIs ==
    ASSUME BakTypeOK, NEW d \in Devices, DevInv(d)
    PROVE  /\ Requests(d) /\ Listing(d) /\ Merged(d) /\ InBatch(d) \subseteq queue[d]
           /\ stacks[d] \in [Backed -> {NoThread} \cup Content]
           /\ kept[d] \in [Backed -> {NoThread} \cup Content]
           /\ joinOf[d] \in [Backed -> {"none", "queued", "posted"}]
           /\ loadedBy[d] \in Seq(Backed) /\ edits[d] \subseteq Edit
           /\ leaving[d] \in [thread : Backed, at : {"request", "row"}] \cup {Nowhere}
           /\ walk[d] \in [at : Nat, len : Nat] /\ queue[d] \subseteq Asked /\ flush[d] \in Flushing
           /\ restored[d] \subseteq Result /\ answers[d] \subseteq Result
           /\ NoThread \notin Backed /\ NoThread \notin Content /\ Len(loadedBy[d]) \in Nat
           /\ ToSet(loadedBy[d]) = {t \in Backed : stacks[d][t] # NoThread}
  <1>1. ToSet(loadedBy[d]) \subseteq Backed /\ Len(loadedBy[d]) \in Nat
    <2>1. loadedBy[d] \in Seq(Backed)
      BY DEF BakTypeOK
    <2> QED BY <2>1, LenProperties, ElementOfSeq DEF ToSet
  <1>2. Requests(d) /\ Listing(d) /\ Merged(d)
    BY DEF DevInv
  <1>3. InBatch(d) \subseteq queue[d]
    BY <1>2 DEF Requests
  <1>4. ToSet(loadedBy[d]) = {t \in Backed : stacks[d][t] # NoThread}
    BY <1>1, <1>2 DEF Listing, Has
  <1> QED BY <1>1, <1>2, <1>3, <1>4, BakConstants DEF BakTypeOK

\* Blocks that are posted are on their way to a head.
LEMMA PostsKeep ==
    ASSUME BakTypeOK, NEW d \in Devices, DevInv(d), NEW t \in Backed,
           PostJoin(d, t) \/ \E b \in Blocks : PostUpdate(d, t, b)
    PROVE  DevInv(d)'
  <1> USE DEF threadVars, workVars, queueVars, syncVars
  <1>1. PICK n : edits' = [edits EXCEPT ![d] = edits[d] \cup {n}] /\ n.thread = t
    <2> DEFINE N(news) == [thread |-> t, news |-> news, at |-> "head"]
    <2>0. \A news : N(news).thread = t
      OBVIOUS
    <2>1. CASE PostJoin(d, t)
      <3>1. edits' = [edits EXCEPT ![d] = edits[d] \cup {N({d})}]
        BY <2>1 DEF PostJoin
      <3> QED BY <3>1, <2>0
    <2>2. CASE \E b \in Blocks : PostUpdate(d, t, b)
      <3>1. PICK b : edits' = [edits EXCEPT ![d] = edits[d] \cup {N({b})}]
        BY <2>2 DEF PostUpdate
      <3> QED BY <3>1, <2>0
    <2> QED BY <2>1, <2>2
  <1>2. /\ edits'[d] = edits[d] \cup {n}
        /\ UNCHANGED <<stacks, loadedBy, leaving, walk, queue, dates, flush, kept, restored, frayed>>
        /\ backlog'.session = backlog.session
    BY <1>1 DEF PostJoin, PostUpdate, BakTypeOK, Backlog
  <1>3. Requests(d)' /\ Listing(d)' /\ Merged(d)'
    BY <1>2, DeviceIs DEF Requests, InBatch, Listing, Has, LeavingIt, Merged
  <1>4. ASSUME NEW u \in Backed PROVE Minded(d, u)
    <2>1. joinOf'[d][u] = joinOf[d][u] \/ (u = t /\ joinOf[d][u] = "queued")
      <3>1. CASE PostJoin(d, t)
        <4>1. joinOf[d][t] = "queued" /\ joinOf'[d] = [joinOf[d] EXCEPT ![t] = "posted"]
          BY <3>1 DEF PostJoin, BakTypeOK
        <4> QED BY <4>1, DeviceIs
      <3>2. CASE \E b \in Blocks : PostUpdate(d, t, b)
        BY <3>2 DEF PostUpdate
      <3> QED BY <3>1, <3>2
    <2>2. Editing(d, t)' /\ (Editing(d, u) => Editing(d, u)')
      BY <1>1, <1>2 DEF Editing
    <2>3. Gone(d, u)' = Gone(d, u) /\ LeavingIt(d, u)' = LeavingIt(d, u) /\ ToWalk(d, u)' = ToWalk(d, u)
      BY <1>2 DEF Gone, LeavingIt, ToWalk
    <2> QED BY <1>2, <2>1, <2>2, <2>3 DEF Minded
  <1> QED BY <1>3, <1>4, MindedKeeps DEF DevInv

\* A new row is in the list, and is going to be joined.
LEMMA AddBackedKeeps ==
    ASSUME BakTypeOK, NEW d \in Devices, DevInv(d), NEW t \in Backed, NEW blocks \in Content,
           AddBackedRow(d, t, blocks), stacks[d][t] = NoThread,
           ~LeavingIt(d, t), joinOf[d][t] = "none" => joinOf'[d][t] = "queued",
           \A u \in Backed \ {t} : joinOf'[d][u] = joinOf[d][u],
           UNCHANGED <<edits, leaving, walk, queue, dates, flush, kept>>,
           d \in backlog'.session <=> d \in backlog.session
    PROVE  Requests(d)' /\ Listing(d)' /\ \A u \in Backed : Firm(d, u)'
  <1>1. /\ stacks'[d] = [stacks[d] EXCEPT ![t] = blocks]
        /\ loadedBy'[d] = Append(loadedBy[d], t)
        /\ HasRequest(d, t, "unstore") => <<d, t>> \in frayed'
        /\ frayed \subseteq frayed'
    BY DEF AddBackedRow, BakTypeOK
  <1>2. t \notin ToSet(loadedBy[d]) /\ blocks # NoThread
    BY DeviceIs
  <1>3. /\ IsInjective(loadedBy'[d]) /\ ToSet(loadedBy'[d]) = ToSet(loadedBy[d]) \cup {t}
        /\ Len(loadedBy'[d]) = Len(loadedBy[d]) + 1
        /\ \A i \in 1..Len(loadedBy[d]) : loadedBy'[d][i] = loadedBy[d][i]
    BY <1>1, <1>2, DeviceIs, AppendIs, AppendProperties DEF Listing
  <1>4. Requests(d)'
    BY DeviceIs DEF Requests, InBatch
  <1>5. Listing(d)'
    BY <1>1, <1>2, <1>3, DeviceIs DEF Listing, Has, LeavingIt
  <1>6. ASSUME NEW u \in Backed, u # t PROVE Firm(d, u)'
    <2>1. stacks'[d][u] = stacks[d][u]
      BY <1>1, <1>6, DeviceIs
    <2>2. /\ Gone(d, u)' <=> Gone(d, u)
          /\ LeavingIt(d, u)' <=> LeavingIt(d, u)
          /\ Editing(d, u)' <=> Editing(d, u)
      BY <2>1 DEF Gone, LeavingIt, Editing
    <2>3. walk[d] # NoWalk =>
            /\ walk[d].len <= Len(loadedBy[d]) => walk[d].len <= Len(loadedBy'[d])
            /\ ToWalk(d, u) /\ walk[d].len <= Len(loadedBy[d]) => ToWalk(d, u)'
      <3>1. ASSUME walk[d] # NoWalk, ToWalk(d, u), walk[d].len <= Len(loadedBy[d])
            PROVE  ToWalk(d, u)'
        <4>1. walk[d].at \in Nat \ {0} /\ walk[d].len \in Nat /\ Len(loadedBy[d]) \in Nat
          BY <3>1, DeviceIs DEF Listing
        <4>2. PICK i \in walk[d].at..walk[d].len : loadedBy[d][i] = u
          BY <3>1 DEF ToWalk
        <4>3. i \in 1..Len(loadedBy[d])
          BY <3>1, <4>1
        <4>4. loadedBy'[d][i] = u
          BY <1>3, <4>2, <4>3
        <4> QED BY <4>4 DEF ToWalk
      <3>2. walk[d].len \in Nat /\ Len(loadedBy[d]) \in Nat
        BY DeviceIs
      <3> QED BY <1>3, <3>1, <3>2
    <2> QED BY <1>1, <1>6, <2>1, <2>2, <2>3, MindedKeeps DEF Minded
  <1>7. CASE <<d, t>> \in frayed'
    BY <1>4, <1>5, <1>6, <1>7 DEF Firm
  <1>8. CASE <<d, t>> \notin frayed'
    <2>1. Renewed(d, t) /\ Unstored(d, t) /\ ReadRight(d, t) /\ ~HasRequest(d, t, "unstore")
      BY <1>1, <1>8 DEF DevInv, Firm
    <2>2. joinOf[d][t] = "none" /\ ~UnstoreDue(d, t) /\ Gone(d, t)
      BY <2>1 DEF Unstored, UnstoreDue, HasRequest, Gone
    <2>3. joinOf'[d][t] = "queued" /\ stacks'[d][t] # NoThread /\ ~LeavingIt(d, t)' /\ ~Gone(d, t)'
      BY <1>1, <1>2, <2>2, DeviceIs DEF LeavingIt, Gone
    <2>4. Renewed(d, t)'
      BY <1>3, <2>1, <2>3, DeviceIs DEF Renewed, Covered
    <2>5. Unstored(d, t)'
      BY <2>1, <2>3 DEF Unstored, HasRequest
    <2>6. ReadRight(d, t)'
      BY <2>1, <2>2 DEF ReadRight, Handed, InBatch
    <2> QED BY <1>4, <1>5, <1>6, <2>4, <2>5, <2>6 DEF Firm
  <1> QED BY <1>7, <1>8

\* A user adds a thread.
LEMMA AddKeeps ==
    ASSUME BakTypeOK, NEW d \in Devices, DevInv(d), NEW t \in Backed, AddBacked(d, t)
    PROVE  DevInv(d)'
  <1> USE DEF threadVars, workVars, queueVars, syncVars
  <1>1. stacks[d][t] = NoThread /\ ~LeavingIt(d, t)
    BY DeviceIs DEF AddBacked, Has, LeavingIt, Nowhere
  <1>2. /\ joinOf'[d] = [joinOf[d] EXCEPT ![t] = "queued"]
        /\ (d \in backlog'.session <=> d \in backlog.session)
        /\ {} \in Content
    BY DEF AddBacked, BakTypeOK, Backlog, Content
  <1>3. joinOf'[d][t] = "queued" /\ \A u \in Backed \ {t} : joinOf'[d][u] = joinOf[d][u]
    BY <1>2, DeviceIs
  <1>4. AddBackedRow(d, t, {}) /\ UNCHANGED <<edits, leaving, walk, queue, dates, flush, kept, restored>>
    BY DEF AddBacked
  <1>5. Requests(d)' /\ Listing(d)' /\ \A u \in Backed : Firm(d, u)'
    BY <1>1, <1>2, <1>3, <1>4, AddBackedKeeps
  <1>6. Merged(d)'
    <2>1. stacks'[d] = [stacks[d] EXCEPT ![t] = {}]
      BY <1>4 DEF AddBackedRow, BakTypeOK
    <2>2. ASSUME NEW r \in restored[d] PROVE r.thread # t /\ r.thread \in Backed
      BY <1>1, <2>2, DeviceIs DEF Merged, Result
    <2>3. \A r \in restored[d] : stacks'[d][r.thread] = stacks[d][r.thread]
      BY <2>1, <2>2, DeviceIs
    <2>4. restored[d] \subseteq Result /\ Merged(d) /\ restored'[d] = restored[d]
      BY <1>4, DeviceIs
    <2> QED BY <1>4, <2>2, <2>3, <2>4 DEF Merged
  <1> QED BY <1>5, <1>6 DEF DevInv

\* The head moves on: what it merges was on its way.
LEMMA UpdateKeeps ==
    ASSUME BakTypeOK, NEW d \in Devices, DevInv(d), NEW e \in edits[d], UpdateHead(d, e)
    PROVE  DevInv(d)'
  <1> USE DEF threadVars, workVars, queueVars, syncVars
  <1> DEFINE t == e.thread
             n == [e EXCEPT !.at = "store"]
  <1>1. /\ e.thread \in Backed /\ e.news \in Content /\ e.at = "head"
        /\ n.thread = e.thread /\ n.news = e.news /\ n.at = "store"
    BY DeviceIs DEF Edit, UpdateHead
  <1>2. PICK x \in {NoThread} \cup Content :
            /\ stacks'[d] = [stacks[d] EXCEPT ![t] = x]
            /\ x = NoThread <=> stacks[d][t] = NoThread
            /\ stacks[d][t] # NoThread => x = stacks[d][t] \cup e.news
    <2>1. \A blocks \in Content : blocks \cup e.news \in Content
      BY <1>1 DEF Content
    <2>2. stacks'[d] = [stacks[d] EXCEPT ![t] = IF stacks[d][t] = NoThread THEN NoThread
                                                ELSE stacks[d][t] \cup e.news]
      BY <1>1, DeviceIs DEF UpdateHead, BakTypeOK
    <2>3. CASE stacks[d][t] = NoThread
      BY <2>2, <2>3
    <2>4. CASE stacks[d][t] # NoThread
      <3>1. stacks[d][t] \in Content
        BY <1>1, <2>4, DeviceIs
      <3>2. stacks[d][t] \cup e.news \in Content \ {NoThread}
        BY <2>1, <3>1, DeviceIs
      <3> QED BY <2>2, <2>4, <3>2
    <2> QED BY <2>3, <2>4
  <1>3. edits'[d] = (edits[d] \ {e}) \cup {n}
    BY DEF UpdateHead, BakTypeOK
  <1> HIDE DEF t, n
  <1>4. UNCHANGED <<backlog, loadedBy, joinOf, leaving, walk, queue, dates, flush, kept, restored, frayed>>
    BY DEF UpdateHead
  <1>5. /\ \A u \in Backed : stacks'[d][u] = NoThread <=> stacks[d][u] = NoThread
        /\ \A u \in Backed \ {t} : stacks'[d][u] = stacks[d][u]
    BY <1>1, <1>2, DeviceIs DEF t
  <1>6. Requests(d)' /\ Listing(d)'
    BY <1>4, <1>5, DeviceIs DEF Requests, InBatch, Listing, Has, LeavingIt
  <1>7. Merged(d)'
    <2> SUFFICES ASSUME NEW r \in restored[d]
                 PROVE  /\ stacks'[d][r.thread] # NoThread
                        /\ \/ r.blocks \subseteq stacks'[d][r.thread]
                           \/ [thread |-> r.thread, news |-> r.blocks, at |-> "head"] \in edits'[d]
      BY <1>4 DEF Merged
    <2>1. /\ r.thread \in Backed /\ stacks[d][r.thread] # NoThread
          /\ \/ r.blocks \subseteq stacks[d][r.thread]
             \/ [thread |-> r.thread, news |-> r.blocks, at |-> "head"] \in edits[d]
      BY DeviceIs DEF Merged, Result
    <2>2. stacks'[d][r.thread] # NoThread
      BY <1>5, <2>1
    <2>3. CASE r.blocks \subseteq stacks[d][r.thread]
      <3>1. stacks[d][r.thread] \subseteq stacks'[d][r.thread]
        BY <1>1, <1>2, <1>5, <2>1, DeviceIs DEF t
      <3> QED BY <2>2, <2>3, <3>1
    <2>4. CASE [thread |-> r.thread, news |-> r.blocks, at |-> "head"] = e
      <3>1. e.thread = r.thread /\ e.news = r.blocks
        BY <2>4
      <3>2. stacks'[d][r.thread] = stacks[d][r.thread] \cup r.blocks
        BY <1>1, <1>2, <2>1, <3>1, DeviceIs DEF t
      <3> QED BY <2>2, <3>2
    <2>5. CASE [thread |-> r.thread, news |-> r.blocks, at |-> "head"] \in edits[d] \ {e}
      BY <1>3, <2>2, <2>5
    <2> QED BY <2>1, <2>3, <2>4, <2>5
  <1>8. \A u \in Backed : Gone(d, u)' <=> Gone(d, u)
    BY <1>4, <1>5 DEF Gone
  <1>9. ASSUME NEW u \in Backed PROVE Firm(d, u)'
    <2>1. Editing(d, u) => Editing(d, u)'
      BY <1>1, <1>3 DEF Editing
    <2>2. CASE u # t
      <3>1. LeavingIt(d, u)' = LeavingIt(d, u) /\ ToWalk(d, u)' = ToWalk(d, u)
        BY <1>4 DEF LeavingIt, ToWalk
      <3> QED BY <1>4, <1>5, <1>8, <2>1, <2>2, <3>1, MindedKeeps DEF Minded
    <2>3. CASE u = t
      <3>1. Editing(d, u)'
        BY <1>1, <1>3, <2>3 DEF Editing, t
      <3>2. Renewed(d, u) => Renewed(d, u)'
        BY <1>4, <3>1 DEF Renewed, Covered
      <3>3. Unstored(d, u) => Unstored(d, u)'
        BY <1>4, <1>5, <1>8 DEF Unstored, LeavingIt, HasRequest, UnstoreDue
      <3>4. ReadRight(d, u) => ReadRight(d, u)'
        BY <1>4, <1>8, <3>1 DEF ReadRight, Handed, InBatch, UnstoreDue
      <3> QED BY <1>4, <3>2, <3>3, <3>4 DEF Firm, DevInv
    <2> QED BY <2>2, <2>3
  <1> QED BY <1>6, <1>7, <1>9 DEF DevInv

\* The head is stored: the request is there before the edit is over.
LEMMA StoreKeeps ==
    ASSUME BakTypeOK, NEW d \in Devices, DevInv(d), NEW e \in edits[d], Store(d, e)
    PROVE  DevInv(d)'
  <1> USE DEF threadVars, workVars, queueVars, syncVars
  <1>1. e.thread \in Backed /\ e.at = "store" /\ edits'[d] = edits[d] \ {e}
    BY DeviceIs DEF Edit, Store, BakTypeOK
  <1>2. UNCHANGED <<backlog, stacks, loadedBy, joinOf, leaving, walk, flush, kept, restored, frayed>>
    BY DEF Store
  <1>3. /\ Requests(d)' /\ queue[d] \subseteq queue'[d]
        /\ \A r \in queue'[d] \ queue[d] : r.thread = e.thread /\ r.type = "store"
        /\ d \in backlog.session =>
            \E r \in queue'[d] \ queue[d] : r.thread = e.thread /\ r.type = "store"
        /\ d \notin backlog.session => queue'[d] = queue[d]
    BY <1>1, <1>2, AddRequestIs, DeviceIs DEF Store
  <1>4. Listing(d)'
    BY <1>2, <1>3, DeviceIs DEF Listing, Has, LeavingIt
  <1>5. Merged(d)'
    <2>1. ASSUME NEW r PROVE [thread |-> r.thread, news |-> r.blocks, at |-> "head"] # e
      BY <1>1
    <2> QED BY <1>1, <1>2, <2>1, DeviceIs DEF Merged
  <1>6. ASSUME NEW u \in Backed PROVE Firm(d, u)'
    <2>1. CASE u = e.thread
      BY <1>2, <1>3, <2>1, MindedKeeps DEF Minded, Gone, LeavingIt, ToWalk
    <2>2. CASE u # e.thread
      <3>1. Editing(d, u) => Editing(d, u)'
        BY <1>1, <2>2 DEF Editing
      <3> QED BY <1>2, <1>3, <3>1, MindedKeeps DEF Minded, Gone, LeavingIt, ToWalk
    <2> QED BY <2>1, <2>2
  <1> QED BY <1>3, <1>4, <1>5, <1>6 DEF DevInv

\* A removal begins: the thread is there.
LEMMA RemoveKeeps ==
    ASSUME BakTypeOK, NEW d \in Devices, DevInv(d), NEW t \in Backed, RemoveBacked(d, t)
    PROVE  DevInv(d)'
  <1> USE DEF threadVars, workVars, queueVars, syncVars
  <1>1. /\ leaving[d] = Nowhere /\ leaving'[d] = [thread |-> t, at |-> "request"]
        /\ joinOf'[d] = [joinOf[d] EXCEPT ![t] = "none"]
    BY DEF RemoveBacked, BakTypeOK
  <1>2. /\ UNCHANGED <<stacks, loadedBy, edits, walk, queue, dates, flush, kept, restored, frayed>>
        /\ backlog'.session = backlog.session
    BY DEF RemoveBacked, BakTypeOK, Backlog
  <1>3. /\ stacks[d][t] # NoThread
        /\ \A u : ~LeavingIt(d, u) \/ u = NoThread
        /\ \A u : LeavingIt(d, u)' <=> u = t
        /\ \A u \in Backed : Gone(d, u) <=> stacks[d][u] = NoThread
        /\ \A u \in Backed : Gone(d, u)' <=> Gone(d, u)
    <2>1. stacks[d][t] # NoThread
      BY DeviceIs DEF RemoveBacked, Has
    <2> QED BY <1>1, <1>2, <2>1 DEF LeavingIt, Gone, Nowhere
  <1>4. joinOf'[d][t] = "none" /\ \A u \in Backed \ {t} : joinOf'[d][u] = joinOf[d][u]
    BY <1>1, DeviceIs
  <1>5. Requests(d)' /\ Merged(d)'
    BY <1>2, DeviceIs DEF Requests, InBatch, Merged
  <1>6. Listing(d)'
    BY <1>2, <1>3, DeviceIs DEF Listing, Has
  <1>7. ASSUME NEW u \in Backed PROVE Firm(d, u)'
    <2>1. CASE u # t
      <3>1. ~LeavingIt(d, u) /\ ~LeavingIt(d, u)'
        BY <1>3, <2>1, DeviceIs
      <3>2. (Editing(d, u) => Editing(d, u)') /\ ToWalk(d, u)' = ToWalk(d, u)
        BY <1>2 DEF Editing, ToWalk
      <3> QED BY <1>2, <1>3, <1>4, <2>1, <3>1, <3>2, MindedKeeps DEF Minded
    <2>2. CASE u = t
      <3>1. LeavingIt(d, u)' /\ ~Gone(d, u) /\ ~Gone(d, u)'
        BY <1>3, <2>2
      <3>2. Renewed(d, u) => Renewed(d, u)'
        BY <1>2, <3>1 DEF Renewed, Covered
      <3>3. Unstored(d, u) => Unstored(d, u)'
        BY <1>2, <1>4, <2>2, <3>1 DEF Unstored, HasRequest
      <3>4. ReadRight(d, u) => ReadRight(d, u)'
        BY <1>2, <3>1 DEF ReadRight, Handed, InBatch
      <3> QED BY <1>2, <3>2, <3>3, <3>4 DEF Firm, DevInv
    <2> QED BY <2>1, <2>2
  <1> QED BY <1>5, <1>6, <1>7 DEF DevInv

\* The request to unstore comes before the row goes.
LEMMA RequestUnstoreKeeps ==
    ASSUME BakTypeOK, NEW d \in Devices, DevInv(d), RequestUnstore(d)
    PROVE  DevInv(d)'
  <1> USE DEF threadVars, workVars, queueVars, syncVars
  <1>1. PICK t \in Backed : leaving[d] = [thread |-> t, at |-> "request"]
    <2>1. leaving[d] \in [thread : Backed, at : {"request", "row"}] /\ leaving[d].at = "request"
      BY DeviceIs DEF RequestUnstore, Nowhere
    <2> QED BY <2>1
  <1>2. /\ leaving'[d] = [thread |-> t, at |-> "row"]
        /\ AddRequest(d, t, "unstore")
    BY <1>1 DEF RequestUnstore, BakTypeOK
  <1>3. UNCHANGED <<backlog, stacks, loadedBy, joinOf, edits, walk, flush, kept, restored, frayed>>
    BY DEF RequestUnstore
  <1>4. /\ Requests(d)' /\ queue[d] \subseteq queue'[d]
        /\ \A r \in queue'[d] \ queue[d] : r.thread = t /\ r.type = "unstore"
        /\ d \in backlog.session => \E r \in queue'[d] \ queue[d] : r.thread = t /\ r.type = "unstore"
        /\ d \notin backlog.session => queue'[d] = queue[d]
    BY <1>2, <1>3, AddRequestIs, DeviceIs
  <1>5. /\ \A u : LeavingIt(d, u) <=> u = t
        /\ \A u : LeavingIt(d, u)' <=> u = t
        /\ \A u \in Backed \ {t} : Gone(d, u)' <=> Gone(d, u)
        /\ Gone(d, t)'
    BY <1>1, <1>2, <1>3 DEF LeavingIt, Gone
  <1>6. Listing(d)'
    BY <1>3, <1>4, <1>5, DeviceIs DEF Listing, Has
  <1>7. Merged(d)'
    BY <1>3, DeviceIs DEF Merged
  <1>8. ASSUME NEW u \in Backed PROVE Firm(d, u)'
    <2>1. CASE u # t
      <3>1. (Editing(d, u) => Editing(d, u)') /\ ToWalk(d, u)' = ToWalk(d, u)
        BY <1>3 DEF Editing, ToWalk
      <3> QED BY <1>3, <1>4, <1>5, <2>1, <3>1, MindedKeeps DEF Minded
    <2>2. CASE u = t
      <3>1. LeavingIt(d, u) /\ LeavingIt(d, u)' /\ Gone(d, u)'
        BY <1>5, <2>2
      <3>2. d \in backlog.session => UnstoreDue(d, u)'
        BY <1>3, <1>4, <2>2, DeviceIs DEF UnstoreDue, InBatch
      <3>3. Renewed(d, u) => Renewed(d, u)'
        BY <1>3, <3>1 DEF Renewed, Covered
      <3>4. Unstored(d, u) => Unstored(d, u)'
        BY <1>3, <3>1, <3>2, DeviceIs DEF Unstored, Listing
      <3>5. ReadRight(d, u) => ReadRight(d, u)'
        BY <1>3, <3>1, <3>2, DeviceIs DEF ReadRight, Handed, InBatch, Listing, Still
      <3> QED BY <1>3, <3>3, <3>4, <3>5 DEF Firm, DevInv
    <2> QED BY <2>1, <2>2
  <1> QED BY <1>4, <1>6, <1>7, <1>8 DEF DevInv

\* The row and the place in the list go together.
LEMMA DeleteKeeps ==
    ASSUME BakTypeOK, NEW d \in Devices, DevInv(d), DeleteBackedRow(d)
    PROVE  DevInv(d)'
  <1> USE DEF threadVars, workVars, queueVars, syncVars
  <1>1. PICK t \in Backed : leaving[d] = [thread |-> t, at |-> "row"]
    <2>1. leaving[d] \in [thread : Backed, at : {"request", "row"}] /\ leaving[d].at = "row"
      BY DeviceIs DEF DeleteBackedRow, Nowhere
    <2> QED BY <2>1
  <1>2. PICK i \in DOMAIN loadedBy[d] :
            loadedBy[d][i] = t /\ loadedBy'[d] = RemoveAt(loadedBy[d], i)
    BY <1>1 DEF DeleteBackedRow, BakTypeOK
  <1>3. /\ leaving'[d] = Nowhere /\ stacks'[d] = [stacks[d] EXCEPT ![t] = NoThread]
        /\ restored'[d] = {r \in restored[d] : r.thread # t}
        /\ frayed \subseteq frayed'
        /\ walk[d] # NoWalk => \A u \in Backed : <<d, u>> \in frayed'
    BY <1>1 DEF DeleteBackedRow, BakTypeOK
  <1>4. UNCHANGED <<backlog, joinOf, edits, walk, queue, dates, flush, kept>>
    BY DEF DeleteBackedRow
  <1>5. stacks'[d][t] = NoThread /\ \A u \in Backed \ {t} : stacks'[d][u] = stacks[d][u]
    BY <1>3, DeviceIs
  <1>6. IsInjective(loadedBy'[d]) /\ ToSet(loadedBy'[d]) = ToSet(loadedBy[d]) \ {t}
    <2>1. IsInjective(loadedBy[d])
      BY DeviceIs DEF Listing
    <2>2. ToSet(RemoveAt(loadedBy[d], i)) = ToSet(loadedBy[d]) \ {loadedBy[d][i]}
      BY <2>1, LoadedTypes
    <2>3. IsInjective(RemoveAt(loadedBy[d], i))
      BY <2>1, LoadedTypes
    <2> QED BY <1>2, <2>2, <2>3
  <1>7. /\ \A u : LeavingIt(d, u) <=> u = t
        /\ \A u : LeavingIt(d, u)' <=> u = NoThread
        /\ \A u \in Backed : Gone(d, u)' <=> Gone(d, u)
    BY <1>1, <1>3, <1>5, DeviceIs DEF LeavingIt, Gone, Nowhere
  <1>8. Requests(d)'
    BY <1>4, DeviceIs DEF Requests, InBatch
  <1>9. Listing(d)'
    BY <1>4, <1>5, <1>6, <1>7, DeviceIs DEF Listing, Has
  <1>10. Merged(d)'
    <2>1. \A r \in restored'[d] : r \in restored[d] /\ stacks'[d][r.thread] = stacks[d][r.thread]
      BY <1>3, <1>5, DeviceIs DEF Result
    <2> QED BY <1>4, <2>1, DeviceIs DEF Merged
  <1>11. ASSUME NEW u \in Backed PROVE Firm(d, u)'
    <2>1. CASE walk[d] # NoWalk
      BY <1>3, <2>1 DEF Firm
    <2>2. CASE walk[d] = NoWalk /\ u # t
      <3>1. Editing(d, u) => Editing(d, u)'
        BY <1>4 DEF Editing
      <3>2. ~LeavingIt(d, u) /\ ~LeavingIt(d, u)'
        BY <1>7, <2>2, DeviceIs
      <3> QED BY <1>3, <1>4, <1>5, <1>7, <2>2, <3>1, <3>2, MindedKeeps DEF Minded
    <2>3. CASE walk[d] = NoWalk /\ u = t
      <3>1. Gone(d, u) /\ LeavingIt(d, u) /\ ~LeavingIt(d, u)' /\ Gone(d, u)' /\ stacks'[d][u] = NoThread
        BY <1>1, <1>5, <1>7, <2>3, DeviceIs DEF Gone
      <3>2. UnstoreDue(d, u)' = UnstoreDue(d, u) /\ (UnstoreDue(d, u) => Due(d, u)')
        BY <1>4 DEF UnstoreDue, Due
      <3>3. Unstored(d, u) => Renewed(d, u)'
        BY <1>4, <2>3, <3>1, <3>2 DEF Unstored, Renewed, Covered
      <3>4. Unstored(d, u) => Unstored(d, u)'
        BY <1>4, <3>1, <3>2 DEF Unstored, HasRequest
      <3>5. ReadRight(d, u) => ReadRight(d, u)'
        <4>1. SUFFICES ASSUME ReadRight(d, u), NEW r \in flush'[d].todo, Handed(d, r)', r.thread = u
                       PROVE  /\ \A s \in InBatch(d)' : s.thread = u => s.type = "store"
                              /\ Gone(d, u)' => UnstoreDue(d, u)'
                              /\ \E s \in queue'[d] \ flush'[d].good : s.thread = u /\ s # r
          BY DEF ReadRight
        <4>2. r \in flush[d].todo /\ Handed(d, r) /\ InBatch(d)' = InBatch(d) /\ r.type = "store"
          BY <1>4, <4>1 DEF Handed, InBatch
        <4>3. UnstoreDue(d, u) /\ \A s \in InBatch(d) : s.thread = u => s.type = "store"
          BY <3>1, <4>1, <4>2 DEF ReadRight
        <4>4. \E s \in queue'[d] \ flush'[d].good : s.thread = u /\ s # r
          BY <1>4, <4>2, <4>3 DEF UnstoreDue
        <4> QED BY <3>2, <4>2, <4>3, <4>4
      <3> QED BY <1>3, <3>3, <3>4, <3>5 DEF Firm, DevInv
    <2> QED BY <2>1, <2>2, <2>3
  <1> QED BY <1>8, <1>9, <1>10, <1>11 DEF DevInv

\* A walk begins: every thread that is there is before it.
LEMMA SnapshotKeeps ==
    ASSUME BakTypeOK, NEW d \in Devices, DevInv(d), SnapshotThreads(d)
    PROVE  DevInv(d)'
  <1> USE DEF threadVars, workVars, queueVars, syncVars
  <1>1. /\ walk[d] = NoWalk /\ walk'[d] = [at |-> 1, len |-> Len(loadedBy[d])]
        /\ d \in backlog'.session /\ walk'[d] # NoWalk
    BY DEF SnapshotThreads, BakTypeOK, Backlog, NoWalk
  <1>2. UNCHANGED <<stacks, loadedBy, joinOf, edits, leaving, queue, dates, flush, kept, restored, frayed>>
    BY DEF SnapshotThreads
  <1>3. Requests(d)' /\ Merged(d)'
    BY <1>2, DeviceIs DEF Requests, InBatch, Merged
  <1>4. Listing(d)'
    BY <1>1, <1>2, DeviceIs DEF Listing, Has, LeavingIt
  <1>5. ASSUME NEW t \in Backed PROVE Firm(d, t)'
    <2>0. Covered(d, t) => Covered(d, t)'
      BY <1>2 DEF Covered, Due, Editing, LeavingIt
    <2>1. ASSUME stacks[d][t] # NoThread PROVE Renewed(d, t)'
      <3>1. DOMAIN loadedBy[d] = 1..Len(loadedBy[d])
        BY DeviceIs, LenProperties
      <3>2. ToWalk(d, t)'
        BY <1>1, <1>2, <2>1, <3>1, DeviceIs DEF ToWalk, ToSet
      <3> QED BY <1>1, <1>2, <3>2, DeviceIs DEF Renewed
    <2>2. ASSUME d \in backlog.session PROVE Renewed(d, t) => Renewed(d, t)'
      BY <1>1, <1>2, <2>0, <2>2, DeviceIs DEF Renewed
    <2>3. ASSUME stacks[d][t] = NoThread, d \notin backlog.session PROVE Renewed(d, t)'
      BY <1>1, <1>2, <2>3, DeviceIs DEF Renewed, Covered, Listing
    <2>4. (Unstored(d, t) => Unstored(d, t)') /\ (ReadRight(d, t) => ReadRight(d, t)')
      BY <1>2 DEF Unstored, ReadRight, Gone, LeavingIt, HasRequest, UnstoreDue, Handed, InBatch,
                  Editing
    <2> QED BY <1>2, <2>1, <2>2, <2>3, <2>4 DEF Firm, DevInv
  <1> QED BY <1>3, <1>4, <1>5 DEF DevInv

\* What a device loses is marked.
LEMMA LosesKeeps ==
    ASSUME BakTypeOK, NEW d \in Devices, DevInv(d), DeviceLoses(d),
           UNCHANGED <<backlog, stacks, loadedBy, joinOf, queue, dates, kept>>
    PROVE  DevInv(d)'
  <1>1. /\ edits'[d] = {} /\ leaving'[d] = Nowhere /\ walk'[d] = NoWalk /\ flush'[d] = Still
        /\ restored'[d] = {} /\ frayed \subseteq frayed'
    BY DEF DeviceLoses, BakTypeOK
  <1>2. ASSUME NEW t \in Backed, walk[d] # NoWalk \/ Editing(d, t) \/ LeavingIt(d, t)
        PROVE  <<d, t>> \in frayed'
    BY <1>2, DeviceIs DEF DeviceLoses, Editing, LeavingIt
  <1>3. Requests(d)' /\ Merged(d)'
    BY <1>1, DeviceIs DEF Requests, InBatch, Still, Merged
  <1>4. Listing(d)'
    BY <1>1, DeviceIs DEF Listing, Has, LeavingIt, Nowhere
  <1>5. ASSUME NEW t \in Backed, <<d, t>> \notin frayed'
        PROVE  Renewed(d, t)' /\ Unstored(d, t)' /\ ReadRight(d, t)'
    <2>1. /\ Renewed(d, t) /\ Unstored(d, t) /\ walk[d] = NoWalk
          /\ ~Editing(d, t) /\ ~LeavingIt(d, t)
      BY <1>1, <1>2, <1>5 DEF DevInv, Firm
    <2>2. Gone(d, t) <=> stacks[d][t] = NoThread
      BY <2>1 DEF Gone, LeavingIt
    <2>3. (Gone(d, t)' <=> stacks[d][t] = NoThread) /\ ~LeavingIt(d, t)'
      BY <1>1, DeviceIs DEF Gone, LeavingIt, Nowhere
    <2>4. (Due(d, t) => Due(d, t)') /\ (UnstoreDue(d, t) => UnstoreDue(d, t)')
      BY <1>1 DEF Due, UnstoreDue, Still
    <2>5. Renewed(d, t)'
      BY <1>1, <2>1, <2>4 DEF Renewed, Covered
    <2>6. Unstored(d, t)'
      BY <2>1, <2>2, <2>3, <2>4 DEF Unstored, HasRequest
    <2>7. ReadRight(d, t)'
      BY <1>1 DEF ReadRight, Still
    <2> QED BY <2>5, <2>6, <2>7
  <1> QED BY <1>3, <1>4, <1>5 DEF DevInv, Firm

\* A walk goes on, ends, or finds the list shorter than it was.
LEMMA WalkKeeps ==
    ASSUME BakTypeOK, NEW d \in Devices, DevInv(d), SnapshotNext(d)
    PROVE  DevInv(d)'
  <1> USE DEF threadVars, workVars, queueVars, syncVars
  <1>1. /\ walk[d] # NoWalk /\ d \in backlog.session
        /\ UNCHANGED <<backlog, stacks, loadedBy, joinOf, kept>>
    BY DeviceIs DEF SnapshotNext, Listing
  <1>2. CASE DeviceLoses(d) /\ UNCHANGED queueVars
    BY <1>1, <1>2, LosesKeeps
  <1>3. CASE /\ walk[d].at > walk[d].len /\ walk' = [walk EXCEPT ![d] = NoWalk]
             /\ UNCHANGED <<queueVars, edits, leaving, flush, syncVars, frayed>>
    <2>1. walk'[d] = NoWalk
      BY <1>3 DEF BakTypeOK
    <2>2. Requests(d)' /\ Merged(d)' /\ Listing(d)'
      BY <1>1, <1>3, <2>1, DeviceIs DEF Requests, InBatch, Merged, Listing, Has, LeavingIt
    <2>3. ASSUME NEW t \in Backed PROVE Firm(d, t)'
      <3>1. ~ToWalk(d, t)
        BY <1>3, DeviceIs DEF ToWalk
      <3>2. Covered(d, t)' = Covered(d, t)
        BY <1>1, <1>3 DEF Covered, Editing, LeavingIt, Due
      <3>3. Renewed(d, t) => Renewed(d, t)'
        BY <1>1, <2>1, <3>1, <3>2 DEF Renewed
      <3>4. (Unstored(d, t) => Unstored(d, t)') /\ (ReadRight(d, t) => ReadRight(d, t)')
        BY <1>1, <1>3 DEF Unstored, ReadRight, Gone, LeavingIt, HasRequest, UnstoreDue, Handed,
                          InBatch, Editing
      <3> QED BY <1>3, <3>3, <3>4 DEF Firm, DevInv
    <2> QED BY <2>2, <2>3 DEF DevInv
  <1>4. CASE /\ walk[d].at <= walk[d].len /\ walk[d].at <= Len(loadedBy[d])
             /\ AddRequest(d, loadedBy[d][walk[d].at], "store")
             /\ walk' = [walk EXCEPT ![d].at = walk[d].at + 1]
             /\ UNCHANGED <<edits, leaving, flush, syncVars, frayed>>
    <2> DEFINE i == walk[d].at
               t == loadedBy[d][i]
    <2>1. i \in Nat \ {0} /\ walk[d].len \in Nat /\ Len(loadedBy[d]) \in Nat
      BY <1>1, DeviceIs DEF Listing
    <2>2. t \in Backed
      BY <1>4, <2>1, DeviceIs, ElementOfSeq
    <2>3. walk'[d].at = i + 1 /\ walk'[d].len = walk[d].len /\ walk'[d] # NoWalk
      <3>1. walk'[d] = [walk[d] EXCEPT !.at = i + 1]
        BY <1>4 DEF BakTypeOK
      <3> QED BY <2>1, <3>1, DeviceIs DEF NoWalk
    <2> HIDE DEF i, t
    <2>4. /\ Requests(d)' /\ queue[d] \subseteq queue'[d]
          /\ \A r \in queue'[d] \ queue[d] : r.thread = t /\ r.type = "store"
          /\ \E r \in queue'[d] \ queue[d] : r.thread = t /\ r.type = "store"
      BY <1>1, <1>4, <2>2, AddRequestIs, DeviceIs DEF i, t
    <2>5. Merged(d)'
      BY <1>1, <1>4, DeviceIs DEF Merged
    <2>6. Listing(d)'
      BY <1>1, <1>4, <2>1, <2>3, DeviceIs DEF Listing, Has, LeavingIt, i
    <2>7. ASSUME NEW u \in Backed PROVE Firm(d, u)'
      <3>1. Covered(d, u) => Covered(d, u)'
        BY <1>1, <1>4, <2>4 DEF Covered, Editing, LeavingIt, Due
      <3>2. ToWalk(d, u) => Covered(d, u)' \/ ToWalk(d, u)'
        <4>1. SUFFICES ASSUME ToWalk(d, u), u # t PROVE ToWalk(d, u)'
          BY <1>4, <2>4, DeviceIs DEF Covered, Due, InBatch
        <4>2. PICK j \in walk[d].at..walk[d].len : loadedBy[d][j] = u
          BY <4>1 DEF ToWalk
        <4>3. j \in (i + 1)..walk[d].len
          BY <2>1, <4>1, <4>2 DEF i, t
        <4> QED BY <1>1, <2>3, <4>2, <4>3 DEF ToWalk
      <3>3. Renewed(d, u) => Renewed(d, u)'
        BY <1>1, <2>3, <3>1, <3>2 DEF Renewed
      <3>4. UnstoreDue(d, u) => UnstoreDue(d, u)'
        BY <1>4, <2>4 DEF UnstoreDue
      <3>5. Gone(d, u)' = Gone(d, u) /\ LeavingIt(d, u)' = LeavingIt(d, u)
        BY <1>1, <1>4 DEF Gone, LeavingIt
      <3>6. Unstored(d, u) => Unstored(d, u)'
        BY <1>1, <2>4, <3>4, <3>5 DEF Unstored, HasRequest
      <3>7. ReadRight(d, u) => ReadRight(d, u)'
        BY <1>1, <1>4, <2>4, <3>4, <3>5 DEF ReadRight, Handed, InBatch, Editing
      <3> QED BY <1>4, <3>3, <3>6, <3>7 DEF Firm, DevInv
    <2> QED BY <2>4, <2>5, <2>6, <2>7 DEF DevInv
  <1> QED BY <1>2, <1>3, <1>4 DEF SnapshotNext

\* The next batch is of what is in the table, younger than the last.
LEMMA NextBatchIs ==
    ASSUME BakTypeOK, NEW d \in Devices, NEW date \in Nat, NextBatch(d, date)
    PROVE  /\ flush'[d].todo \subseteq {r \in queue[d] : r.date > date}
           /\ flush'[d].good = {} /\ flush'[d].bad = {} /\ flush'[d].hand = NoThread
           /\ ~flush'[d].on => flush'[d] = Still
           /\ \A r \in flush'[d].todo : r.date <= flush'[d].last
  <1>1. Listed(d, date) \subseteq {r \in queue[d] : r.date > date}
    BY DEF Listed
  <1>2. CASE flush' = [flush EXCEPT ![d] = Still]
    BY <1>2 DEF BakTypeOK, Still
  <1>3. ASSUME NEW last \in Listed(d, date), \A r \in Listed(d, date) : r.date <= last.date,
               flush' = [flush EXCEPT ![d] =
                   [on |-> TRUE, todo |-> Listed(d, date), type |-> "none", hand |-> NoThread,
                    last |-> last.date, good |-> {}, bad |-> {}]]
        PROVE  /\ flush'[d].todo = Listed(d, date) /\ flush'[d].on /\ flush'[d].last = last.date
               /\ flush'[d].good = {} /\ flush'[d].bad = {} /\ flush'[d].hand = NoThread
    BY <1>3 DEF BakTypeOK
  <1> QED BY <1>1, <1>2, <1>3 DEF NextBatch

\* A flush begins.
LEMMA StartKeeps ==
    ASSUME BakTypeOK, NEW d \in Devices, DevInv(d), StartFlush(d)
    PROVE  DevInv(d)'
  <1> USE DEF threadVars, workVars, queueVars, syncVars
  <1>1. /\ UNCHANGED <<backlog, stacks, loadedBy, joinOf, edits, leaving, walk, queue, dates, kept,
                       restored, frayed>>
        /\ flush[d] = Still /\ queue[d] # {} /\ NextBatch(d, 0)
    BY DeviceIs DEF StartFlush, Requests
  <1>2. /\ flush'[d].todo \subseteq queue[d] /\ flush'[d].hand = NoThread
        /\ flush'[d].good = {} /\ flush'[d].bad = {}
        /\ ~flush'[d].on => flush'[d] = Still
        /\ \A r \in flush'[d].todo : r.date <= flush'[d].last
    BY <1>1, NextBatchIs
  <1>3. Requests(d)'
    BY <1>1, <1>2, DeviceIs DEF Requests, InBatch
  <1>4. Listing(d)' /\ Merged(d)'
    BY <1>1, DeviceIs DEF Listing, Has, LeavingIt, Merged
  <1>5. ASSUME NEW t \in Backed PROVE Firm(d, t)'
    <2>1. (Due(d, t) => Due(d, t)') /\ (UnstoreDue(d, t) => UnstoreDue(d, t)')
      BY <1>1, <1>2 DEF Due, UnstoreDue
    <2>2. Renewed(d, t) => Renewed(d, t)'
      BY <1>1, <2>1 DEF Renewed, Covered, Editing, LeavingIt, ToWalk
    <2>3. Unstored(d, t) => Unstored(d, t)'
      BY <1>1, <2>1 DEF Unstored, Gone, LeavingIt, HasRequest
    <2>4. ReadRight(d, t)'
      BY <1>2 DEF ReadRight, Handed
    <2> QED BY <1>1, <2>2, <2>3, <2>4 DEF Firm, DevInv
  <1> QED BY <1>3, <1>4, <1>5 DEF DevInv

\* A batch ends: what was handled goes, what failed stays or is marked.
LEMMA EndKeeps ==
    ASSUME BakTypeOK, NEW d \in Devices, DevInv(d), EndBatch(d)
    PROVE  DevInv(d)'
  <1> USE DEF threadVars, workVars, queueVars, syncVars
  <1> DEFINE f == flush[d]
             lost == {r \in f.bad : r.attempts + 1 >= Attempts}
             again(r) == IF r \in f.bad THEN [r EXCEPT !.attempts = @ + 1] ELSE r
             rest == queue[d] \ (f.good \cup lost)
  <1>1. /\ UNCHANGED <<backlog, stacks, loadedBy, joinOf, edits, leaving, walk, dates, kept, restored>>
        /\ f.on /\ NextBatch(d, f.last) /\ frayed \subseteq frayed'
        /\ \A r \in lost : <<d, r.thread>> \in frayed'
    BY DEF EndBatch
  <1>2. queue'[d] = {again(r) : r \in rest}
    BY DEF EndBatch, BakTypeOK
  <1>3. \A r \in rest : /\ again(r).date = r.date /\ again(r).thread = r.thread
                        /\ again(r).type = r.type
    <2>1. \A r \in rest : r \in Asked
      BY DeviceIs
    <2> QED BY <2>1 DEF Asked
  <1>4. /\ flush'[d].todo \subseteq {r \in queue[d] : r.date > f.last} /\ flush'[d].hand = NoThread
        /\ flush'[d].good = {} /\ flush'[d].bad = {}
        /\ ~flush'[d].on => flush'[d] = Still
        /\ \A r \in flush'[d].todo : r.date <= flush'[d].last
    BY <1>1, NextBatchIs, DeviceIs DEF Flushing
  <1>5. \A r \in flush'[d].todo : r \in rest /\ again(r) = r
    <2> SUFFICES ASSUME NEW r \in flush'[d].todo PROVE r \in rest /\ again(r) = r
      OBVIOUS
    <2>1. r \in queue[d] /\ r.date > f.last /\ r.date \in Nat /\ f.last \in Nat
      BY <1>4, DeviceIs DEF Asked, Flushing
    <2>2. \A s \in f.good \cup f.bad : s.date <= f.last
      BY DeviceIs DEF Requests, InBatch
    <2>3. r \notin f.good \cup f.bad
      BY <2>1, <2>2
    <2> QED BY <2>1, <2>3
  <1> HIDE DEF again, lost, rest
  <1>6. \A r, s \in rest : again(r).date = again(s).date => r = s
    BY <1>3, DeviceIs DEF Requests, rest
  <1>7. Requests(d)'
    <2>1. \A r, s \in queue'[d] : r.date = s.date => r = s
      BY <1>2, <1>6
    <2>2. \A r \in queue'[d] : r.date <= dates'[d]
      BY <1>1, <1>2, <1>3, DeviceIs DEF Requests, rest
    <2>3. InBatch(d)' = flush'[d].todo
      BY <1>4 DEF InBatch
    <2>4. flush'[d].todo \subseteq queue'[d]
      BY <1>2, <1>5
    <2> QED BY <1>4, <2>1, <2>2, <2>3, <2>4 DEF Requests
  <1>8. d \in backlog.session
    BY <1>1, DeviceIs DEF Listing, Still
  <1>9. Listing(d)' /\ Merged(d)'
    BY <1>1, <1>8, DeviceIs DEF Listing, Has, LeavingIt, Merged
  <1>10. ASSUME NEW t \in Backed, <<d, t>> \notin frayed'
         PROVE  Renewed(d, t)' /\ Unstored(d, t)' /\ ReadRight(d, t)'
    <2>1. Renewed(d, t) /\ Unstored(d, t) /\ \A r \in lost : r.thread # t
      BY <1>1, <1>10 DEF DevInv, Firm
    <2>2. ASSUME NEW r \in queue[d] \ f.good, r.thread = t
          PROVE  again(r) \in queue'[d] \ flush'[d].good /\ again(r).thread = t /\ again(r).type = r.type
      BY <1>2, <1>3, <1>4, <2>1, <2>2 DEF rest
    <2>3. (Due(d, t) => Due(d, t)') /\ (UnstoreDue(d, t) => UnstoreDue(d, t)')
      BY <2>2 DEF Due, UnstoreDue
    <2>4. HasRequest(d, t, "unstore")' => HasRequest(d, t, "unstore")
      BY <1>2, <1>3 DEF HasRequest, rest
    <2>5. Renewed(d, t)'
      BY <1>1, <2>1, <2>3 DEF Renewed, Covered, Editing, LeavingIt, ToWalk
    <2>6. Unstored(d, t)'
      BY <1>1, <2>1, <2>3, <2>4 DEF Unstored, Gone, LeavingIt
    <2>7. ReadRight(d, t)'
      BY <1>4 DEF ReadRight, Handed
    <2> QED BY <2>5, <2>6, <2>7
  <1> QED BY <1>7, <1>9, <1>10 DEF DevInv, Firm

\* What a request that was answered leaves of the batch.
LEMMA AnsweredIs ==
    ASSUME BakTypeOK, NEW d \in Devices, NEW r \in flush[d].todo, NEW ok \in BOOLEAN,
           Answered(d, r, ok), Requests(d), UNCHANGED <<queue, dates>>
    PROVE  /\ Requests(d)' /\ InBatch(d)' = InBatch(d) /\ flush'[d].hand = NoThread
           /\ flush'[d].good = IF ok THEN flush[d].good \cup {r} ELSE flush[d].good
           /\ flush[d].on
  <1> DEFINE f == flush[d]
             g == [on |-> f.on, todo |-> f.todo \ {r}, type |-> r.type, hand |-> NoThread,
                   last |-> f.last, good |-> IF ok THEN f.good \cup {r} ELSE f.good,
                   bad |-> IF ok THEN f.bad ELSE f.bad \cup {r}]
  <1>1. flush'[d] = g
    BY DEF Answered, BakTypeOK
  <1>2. flush[d].on
    BY DEF Requests, Still
  <1>3. /\ g.on = f.on /\ g.todo = f.todo \ {r} /\ g.hand = NoThread /\ g.last = f.last
        /\ g.good = IF ok THEN f.good \cup {r} ELSE f.good
        /\ g.bad = IF ok THEN f.bad ELSE f.bad \cup {r}
    OBVIOUS
  <1> HIDE DEF g
  <1>4. InBatch(d)' = InBatch(d)
    <2>1. CASE ok
      BY <1>1, <1>3, <2>1 DEF InBatch
    <2>2. CASE ~ok
      BY <1>1, <1>3, <2>2 DEF InBatch
    <2> QED BY <2>1, <2>2
  <1>5. Requests(d)'
    <2>1. CASE ok
      BY <1>1, <1>2, <1>3, <1>4, <2>1 DEF Requests
    <2>2. CASE ~ok
      BY <1>1, <1>2, <1>3, <1>4, <2>2 DEF Requests
    <2> QED BY <2>1, <2>2
  <1> QED BY <1>1, <1>2, <1>3, <1>4, <1>5

\* What is due when a request was answered: everything else.
LEMMA AnsweredDue ==
    ASSUME NEW d \in Devices, NEW r, NEW ok \in BOOLEAN, UNCHANGED queue,
           flush'[d].good = IF ok THEN flush[d].good \cup {r} ELSE flush[d].good
    PROVE  /\ \A t : Due(d, t) /\ (t # r.thread \/ ~ok) => Due(d, t)'
           /\ \A t : UnstoreDue(d, t) /\ (t # r.thread \/ r.type = "store" \/ ~ok) =>
                         UnstoreDue(d, t)'
  <1>1. CASE ok
    BY <1>1 DEF Due, UnstoreDue
  <1>2. CASE ~ok
    BY <1>2 DEF Due, UnstoreDue
  <1> QED BY <1>1, <1>2

\* The thread is read: as it is, and it is not one that goes.
LEMMA ReadKeeps ==
    ASSUME BakTypeOK, NEW d \in Devices, DevInv(d), NEW r \in flush[d].todo, ReadThread(d, r)
    PROVE  DevInv(d)'
  <1> USE DEF threadVars, workVars, queueVars, syncVars
  <1> DEFINE t == r.thread
  <1>1. /\ UNCHANGED <<backlog, stacks, loadedBy, joinOf, edits, leaving, walk, queue, dates, kept,
                       restored>>
        /\ r.type = "store" /\ flush[d].hand = NoThread
        /\ \A s \in flush[d].todo : s.type = "store" => s.date >= r.date
        /\ frayed \subseteq frayed'
    BY DEF ReadThread, IsNext
  <1>2. r \in queue[d] /\ r \notin flush[d].good /\ r \in Asked /\ t \in Backed
    BY DeviceIs DEF Requests, InBatch, Asked, Flushing
  <1> HIDE DEF t
  <1>3. d \in backlog.session
    BY DeviceIs DEF Listing, Still
  <1>4. Listing(d)' /\ Merged(d)'
    BY <1>1, <1>3, DeviceIs DEF Listing, Has, LeavingIt, Merged
  <1>5. \A u : /\ Gone(d, u)' = Gone(d, u) /\ LeavingIt(d, u)' = LeavingIt(d, u)
               /\ Editing(d, u)' = Editing(d, u) /\ ToWalk(d, u)' = ToWalk(d, u)
               /\ HasRequest(d, u, "unstore")' = HasRequest(d, u, "unstore")
    BY <1>1 DEF Gone, LeavingIt, Editing, ToWalk, HasRequest
  <1>6. CASE stacks[d][t] = NoThread
    <2>1. Answered(d, r, TRUE)
      BY <1>6 DEF ReadThread, t
    <2>2. /\ Requests(d)' /\ flush'[d].hand = NoThread
          /\ flush'[d].good = flush[d].good \cup {r}
      BY <1>1, <2>1, AnsweredIs, DeviceIs
    <2>3. ASSUME NEW u \in Backed PROVE Firm(d, u)'
      <3>1. (Due(d, u) /\ u # t => Due(d, u)') /\ (UnstoreDue(d, u) => UnstoreDue(d, u)')
        BY <1>1, <2>2, AnsweredDue DEF t
      <3>2. Unstored(d, u) => Unstored(d, u)'
        BY <1>1, <1>5, <3>1 DEF Unstored
      <3>3. Unstored(d, u) /\ Renewed(d, u) => Renewed(d, u)'
        <4>1. CASE u # t
          BY <1>1, <1>5, <3>1, <4>1 DEF Renewed, Covered
        <4>2. CASE u = t
          <5>1. Unstored(d, u) => kept[d][u] = stacks[d][u] \/ UnstoreDue(d, u)
            BY <1>6, <4>2 DEF Unstored, Gone
          <5>2. UnstoreDue(d, u) => Due(d, u)'
            BY <3>1 DEF UnstoreDue, Due
          <5> QED BY <1>1, <1>5, <5>1, <5>2 DEF Renewed, Covered
        <4> QED BY <4>1, <4>2
      <3>4. ReadRight(d, u)'
        BY <2>2 DEF ReadRight, Handed
      <3> QED BY <1>1, <3>2, <3>3, <3>4 DEF Firm, DevInv
    <2> QED BY <1>4, <2>2, <2>3 DEF DevInv
  <1>7. CASE stacks[d][t] # NoThread
    <2>1. /\ flush' = [flush EXCEPT ![d] = [flush[d] EXCEPT !.hand = stacks[d][t], !.type = "store"]]
          /\ leaving[d] = [thread |-> t, at |-> "row"] => <<d, t>> \in frayed'
      BY <1>7 DEF ReadThread, t
    <2>2. /\ flush'[d].on = flush[d].on /\ flush'[d].todo = flush[d].todo
          /\ flush'[d].good = flush[d].good /\ flush'[d].bad = flush[d].bad
          /\ flush'[d].last = flush[d].last /\ flush'[d].hand = stacks[d][t]
      BY <2>1, DeviceIs DEF BakTypeOK, Flushing
    <2>3. flush[d].on
      BY DeviceIs DEF Requests, Still
    <2>4. InBatch(d)' = InBatch(d)
      BY <2>2 DEF InBatch
    <2>5. Requests(d)'
      BY <1>1, <2>2, <2>3, <2>4, DeviceIs DEF Requests
    <2>6. ASSUME NEW u \in Backed PROVE Firm(d, u)'
      <3>1. Due(d, u)' = Due(d, u) /\ UnstoreDue(d, u)' = UnstoreDue(d, u)
        BY <1>1, <2>2 DEF Due, UnstoreDue
      <3>2. Unstored(d, u) => Unstored(d, u)'
        BY <1>1, <1>5, <3>1 DEF Unstored
      <3>3. Renewed(d, u) => Renewed(d, u)'
        BY <1>1, <1>5, <3>1 DEF Renewed, Covered
      <3>4. ASSUME <<d, u>> \notin frayed', Unstored(d, u) PROVE ReadRight(d, u)'
        <4> SUFFICES ASSUME NEW q \in flush'[d].todo, Handed(d, q)', q.thread = u
                     PROVE  /\ \A s \in InBatch(d)' : s.thread = u => s.type = "store"
                            /\ ~Gone(d, u)' /\ flush'[d].hand = stacks'[d][u]
          BY DEF ReadRight
        <4>1. q = r
          <5>1. q \in flush[d].todo /\ q.type = "store" /\ r.date >= q.date /\ q.date >= r.date
            BY <1>1, <2>2 DEF Handed
          <5>2. q \in queue[d] /\ q.date \in Nat /\ r.date \in Nat
            BY <1>2, <5>1, DeviceIs DEF InBatch, Asked
          <5> QED BY <1>2, <5>1, <5>2, DeviceIs DEF Requests
        <4>2. u = t
          BY <4>1 DEF t
        <4>3. ~Gone(d, u)
          BY <1>7, <2>1, <3>4, <4>2 DEF Gone
        <4>4. ~HasRequest(d, u, "unstore")
          BY <3>4, <4>3 DEF Unstored
        <4>5. \A s \in InBatch(d) : s.thread = u => s.type = "store"
          BY <4>4, DeviceIs DEF HasRequest, Asked
        <4> QED BY <1>1, <1>5, <2>2, <2>4, <4>2, <4>3, <4>5
      <3> QED BY <1>1, <3>2, <3>3, <3>4 DEF Firm, DevInv
    <2> QED BY <1>4, <2>5, <2>6 DEF DevInv
  <1> QED BY <1>6, <1>7

\* The cafe has what was read, or the request stays.
LEMMA StoreThreadKeeps ==
    ASSUME BakTypeOK, NEW d \in Devices, DevInv(d), NEW r \in flush[d].todo,
           NEW ok \in BOOLEAN, NEW arrives \in BOOLEAN, StoreThread(d, r, ok, arrives)
    PROVE  DevInv(d)'
  <1> USE DEF threadVars, workVars, queueVars, syncVars
  <1> DEFINE t == r.thread
  <1>1. /\ UNCHANGED <<backlog, stacks, loadedBy, joinOf, edits, leaving, walk, queue, dates,
                       restored, frayed>>
        /\ Handed(d, r) /\ r.type = "store" /\ Answered(d, r, ok) /\ (ok => arrives)
    BY DEF StoreThread, Handed, Sent
  <1>2. r \in queue[d] /\ r \notin flush[d].good /\ t \in Backed
    BY DeviceIs DEF Requests, InBatch, Asked
  <1> HIDE DEF t
  <1>3. /\ \A u \in Backed \ {t} : kept'[d][u] = kept[d][u]
        /\ kept'[d][t] = IF arrives THEN flush[d].hand ELSE kept[d][t]
    <2>1. kept' = IF arrives THEN [kept EXCEPT ![d] = [kept[d] EXCEPT ![t] = flush[d].hand]] ELSE kept
      BY DEF StoreThread, HandleStoreThread, t
    <2>2. CASE arrives
      <3>1. kept'[d] = [kept[d] EXCEPT ![t] = flush[d].hand]
        BY <2>1, <2>2 DEF BakTypeOK
      <3> QED BY <1>2, <2>2, <3>1, DeviceIs
    <2>3. CASE ~arrives
      BY <2>1, <2>3
    <2> QED BY <2>2, <2>3
  <1>4. /\ Requests(d)' /\ flush'[d].hand = NoThread
        /\ flush'[d].good = IF ok THEN flush[d].good \cup {r} ELSE flush[d].good
    <2>1. Requests(d) /\ Answered(d, r, ok) /\ UNCHANGED <<queue, dates>>
      BY <1>1, DeviceIs
    <2> QED BY <2>1, AnsweredIs
  <1>5. d \in backlog.session
    BY DeviceIs DEF Listing, Still
  <1>6. Listing(d)' /\ Merged(d)'
    BY <1>1, <1>5, DeviceIs DEF Listing, Has, LeavingIt, Merged
  <1>7. \A u : /\ Gone(d, u)' = Gone(d, u) /\ LeavingIt(d, u)' = LeavingIt(d, u)
               /\ Editing(d, u)' = Editing(d, u) /\ ToWalk(d, u)' = ToWalk(d, u)
               /\ HasRequest(d, u, "unstore")' = HasRequest(d, u, "unstore")
    BY <1>1 DEF Gone, LeavingIt, Editing, ToWalk, HasRequest
  <1>8. ASSUME NEW u \in Backed PROVE Firm(d, u)'
    <2>1. /\ Due(d, u) /\ (u # t \/ ~ok) => Due(d, u)'
          /\ UnstoreDue(d, u) => UnstoreDue(d, u)'
      BY <1>1, <1>4, AnsweredDue DEF t
    <2>2. ReadRight(d, u)'
      BY <1>4 DEF ReadRight, Handed
    <2>3. CASE u # t
      <3>1. Unstored(d, u) => Unstored(d, u)'
        BY <1>1, <1>3, <1>7, <2>1, <2>3 DEF Unstored
      <3>2. Renewed(d, u) => Renewed(d, u)'
        BY <1>1, <1>3, <1>7, <2>1, <2>3 DEF Renewed, Covered
      <3> QED BY <1>1, <2>2, <3>1, <3>2 DEF Firm, DevInv
    <2>4. CASE u = t
      <3>1. ASSUME ReadRight(d, u)
            PROVE  /\ Gone(d, u) => UnstoreDue(d, u)
                   /\ \/ flush[d].hand = stacks[d][u] \/ Editing(d, u) \/ LeavingIt(d, u)
                      \/ \E s \in queue[d] \ flush[d].good : s.thread = u /\ s # r
        BY <1>1, <2>4, <3>1 DEF ReadRight, t
      <3>2. ReadRight(d, u) /\ Unstored(d, u) => Unstored(d, u)'
        BY <1>1, <1>7, <2>1, <3>1 DEF Unstored
      <3>3. ASSUME ReadRight(d, u) PROVE Covered(d, u)'
        <4>1. CASE ok
          <5>1. arrives /\ kept'[d][u] = flush[d].hand
            BY <1>1, <1>3, <2>4, <4>1
          <5>2. (\E s \in queue[d] \ flush[d].good : s.thread = u /\ s # r) => Due(d, u)'
            BY <1>1, <1>4 DEF Due
          <5> QED BY <1>1, <1>7, <3>1, <3>3, <5>1, <5>2 DEF Covered
        <4>2. CASE ~ok
          <5>1. Due(d, u)'
            BY <1>1, <1>2, <1>4, <2>4, <4>2 DEF Due, t
          <5> QED BY <5>1 DEF Covered
        <4> QED BY <4>1, <4>2
      <3>4. Renewed(d, u) /\ ReadRight(d, u) => Renewed(d, u)'
        BY <1>1, <3>3 DEF Renewed
      <3> QED BY <1>1, <2>2, <3>2, <3>4 DEF Firm, DevInv
    <2> QED BY <2>3, <2>4
  <1> QED BY <1>4, <1>6, <1>8 DEF DevInv

\* A thread is unstored that is gone, or the request stays.
LEMMA UnstoreThreadKeeps ==
    ASSUME BakTypeOK, NEW d \in Devices, DevInv(d), NEW r \in flush[d].todo,
           NEW ok \in BOOLEAN, NEW arrives \in BOOLEAN, UnstoreThread(d, r, ok, arrives)
    PROVE  DevInv(d)'
  <1> USE DEF threadVars, workVars, queueVars, syncVars
  <1> DEFINE t == r.thread
  <1>1. /\ UNCHANGED <<backlog, stacks, loadedBy, joinOf, edits, leaving, walk, queue, dates,
                       restored, frayed>>
        /\ r.type = "unstore" /\ Answered(d, r, ok) /\ (ok => arrives)
    BY DEF UnstoreThread, IsNext, Sent
  <1>2. r \in queue[d] /\ r \notin flush[d].good /\ t \in Backed
    BY DeviceIs DEF Requests, InBatch, Asked
  <1> HIDE DEF t
  <1>3. /\ \A u \in Backed \ {t} : kept'[d][u] = kept[d][u]
        /\ kept'[d][t] = IF arrives THEN NoThread ELSE kept[d][t]
    <2>1. kept' = IF arrives THEN [kept EXCEPT ![d] = [kept[d] EXCEPT ![t] = NoThread]] ELSE kept
      BY DEF UnstoreThread, HandleUnstoreThread, t
    <2>2. CASE arrives
      <3>1. kept'[d] = [kept[d] EXCEPT ![t] = NoThread]
        BY <2>1, <2>2 DEF BakTypeOK
      <3> QED BY <1>2, <2>2, <3>1, DeviceIs
    <2>3. CASE ~arrives
      BY <2>1, <2>3
    <2> QED BY <2>2, <2>3
  <1>4. /\ Requests(d)' /\ flush'[d].hand = NoThread
        /\ flush'[d].good = IF ok THEN flush[d].good \cup {r} ELSE flush[d].good
    <2>1. Requests(d) /\ Answered(d, r, ok) /\ UNCHANGED <<queue, dates>>
      BY <1>1, DeviceIs
    <2> QED BY <2>1, AnsweredIs
  <1>5. d \in backlog.session
    BY DeviceIs DEF Listing, Still
  <1>6. Listing(d)' /\ Merged(d)'
    BY <1>1, <1>5, DeviceIs DEF Listing, Has, LeavingIt, Merged
  <1>7. \A u : /\ Gone(d, u)' = Gone(d, u) /\ LeavingIt(d, u)' = LeavingIt(d, u)
               /\ Editing(d, u)' = Editing(d, u) /\ ToWalk(d, u)' = ToWalk(d, u)
               /\ HasRequest(d, u, "unstore")' = HasRequest(d, u, "unstore")
    BY <1>1 DEF Gone, LeavingIt, Editing, ToWalk, HasRequest
  <1>8. ASSUME NEW u \in Backed PROVE Firm(d, u)'
    <2>1. /\ Due(d, u) /\ (u # t \/ ~ok) => Due(d, u)'
          /\ UnstoreDue(d, u) /\ (u # t \/ ~ok) => UnstoreDue(d, u)'
      BY <1>1, <1>4, AnsweredDue DEF t
    <2>2. ReadRight(d, u)'
      BY <1>4 DEF ReadRight, Handed
    <2>3. CASE u # t
      <3>1. Unstored(d, u) => Unstored(d, u)'
        BY <1>1, <1>3, <1>7, <2>1, <2>3 DEF Unstored
      <3>2. Renewed(d, u) => Renewed(d, u)'
        BY <1>1, <1>3, <1>7, <2>1, <2>3 DEF Renewed, Covered
      <3> QED BY <1>1, <2>2, <3>1, <3>2 DEF Firm, DevInv
    <2>4. CASE u = t
      <3>1. Unstored(d, u) => Gone(d, u)
        BY <1>1, <1>2, <2>4 DEF Unstored, HasRequest, t
      <3>2. Unstored(d, u) => Unstored(d, u)'
        BY <1>1, <1>3, <1>7, <2>1, <2>4 DEF Unstored
      <3>3. Gone(d, u) => Covered(d, u)'
        <4>1. CASE ok
          BY <1>1, <1>3, <1>7, <2>4, <4>1 DEF Covered, Gone, LeavingIt
        <4>2. CASE ~ok
          <5>1. Due(d, u)'
            BY <1>1, <1>2, <1>4, <2>4, <4>2 DEF Due, t
          <5> QED BY <5>1 DEF Covered
        <4> QED BY <4>1, <4>2
      <3>4. Renewed(d, u) /\ Unstored(d, u) => Renewed(d, u)'
        BY <1>1, <3>1, <3>3 DEF Renewed
      <3> QED BY <1>1, <2>2, <3>2, <3>4 DEF Firm, DevInv
    <2> QED BY <2>3, <2>4
  <1> QED BY <1>4, <1>6, <1>8 DEF DevInv

\* A sync asks, and changes nothing else.
LEMMA SyncKeeps ==
    ASSUME BakTypeOK, NEW d \in Devices, DevInv(d), SyncAccount(d)
    PROVE  DevInv(d)'
  <1> USE DEF threadVars, workVars, queueVars, syncVars
  <1>1. /\ UNCHANGED <<stacks, loadedBy, joinOf, edits, leaving, walk, queue, dates, flush, kept,
                       restored, frayed>>
        /\ backlog'.session = backlog.session
    BY DEF SyncAccount, BakTypeOK, Backlog
  <1> QED BY <1>1, UntouchedKeeps DEF Untouched

\* A result is applied: to a new row, or on its way to one.
LEMMA ApplyKeeps ==
    ASSUME BakTypeOK, NEW d \in Devices, DevInv(d), NEW r \in answers[d], ApplySnapshot(d, r)
    PROVE  DevInv(d)'
  <1> USE DEF threadVars, workVars, queueVars, syncVars
  <1> DEFINE t == r.thread
             n == [thread |-> t, news |-> r.blocks, at |-> "head"]
  <1>1. /\ t \in Backed /\ r.blocks \in Content /\ n.thread = t
        /\ UNCHANGED <<backlog, leaving, walk, queue, dates, flush, kept>>
        /\ restored'[d] = restored[d] \cup {r}
    BY DeviceIs DEF ApplySnapshot, Result, BakTypeOK
  <1>2. /\ \A u \in Backed \ {t} : joinOf'[d][u] = joinOf[d][u]
        /\ joinOf'[d][t] = IF joinOf[d][t] = "none" THEN "queued" ELSE joinOf[d][t]
    <2>1. joinOf'[d] = [joinOf[d] EXCEPT ![t] = IF joinOf[d][t] = "none" THEN "queued"
                                                ELSE joinOf[d][t]]
      BY DEF ApplySnapshot, BakTypeOK
    <2> QED BY <1>1, <2>1, DeviceIs
  <1>3. CASE stacks[d][t] = NoThread
    <2>1. AddBackedRow(d, t, r.blocks) /\ UNCHANGED edits
      BY <1>3 DEF ApplySnapshot
    <2>2. ~LeavingIt(d, t)
      BY <1>1, <1>3, DeviceIs DEF Listing
    <2>3. joinOf[d][t] = "none" => joinOf'[d][t] = "queued"
      BY <1>2
    <2>4. d \in backlog'.session <=> d \in backlog.session
      BY <1>1
    <2> HIDE DEF t, n
    <2>5. Requests(d)' /\ Listing(d)' /\ \A u \in Backed : Firm(d, u)'
      BY <1>1, <1>2, <1>3, <2>1, <2>2, <2>3, <2>4, AddBackedKeeps
    <2>6. Merged(d)'
      <3>1. stacks'[d] = [stacks[d] EXCEPT ![t] = r.blocks]
        BY <2>1 DEF AddBackedRow, BakTypeOK
      <3>2. stacks'[d][t] = r.blocks /\ r.blocks # NoThread
        BY <1>1, <3>1, DeviceIs
      <3>3. ASSUME NEW q \in restored[d] PROVE stacks'[d][q.thread] = stacks[d][q.thread]
        <4>1. q.thread # t /\ q.thread \in Backed
          <5>1. restored[d] \subseteq Result /\ Merged(d)
            BY DeviceIs
          <5> QED BY <1>3, <3>3, <5>1 DEF Merged, Result
        <4> QED BY <3>1, <4>1, DeviceIs
      <3>4. Merged(d) /\ edits' = edits
        BY <2>1, DeviceIs
      <3>5. ASSUME NEW q \in restored'[d]
            PROVE  /\ stacks'[d][q.thread] # NoThread
                   /\ \/ q.blocks \subseteq stacks'[d][q.thread]
                      \/ [thread |-> q.thread, news |-> q.blocks, at |-> "head"] \in edits'[d]
        <4>1. CASE q \in restored[d]
          BY <3>3, <3>4, <4>1 DEF Merged
        <4>2. CASE q = r
          BY <3>2, <4>2 DEF t
        <4> QED BY <1>1, <3>5, <4>1, <4>2
      <3> QED BY <3>5 DEF Merged
    <2> QED BY <2>5, <2>6 DEF DevInv
  <1>4. CASE stacks[d][t] # NoThread
    <2>1. /\ UNCHANGED <<stacks, loadedBy>>
          /\ frayed \subseteq frayed'
          /\ LeavingIt(d, t) => <<d, t>> \in frayed'
          /\ edits' = IF stacks[d][t] = r.blocks THEN edits
                      ELSE [edits EXCEPT ![d] = edits[d] \cup {n}]
      BY <1>4 DEF ApplySnapshot, LeavingIt
    <2>2. edits'[d] = IF stacks[d][t] = r.blocks THEN edits[d] ELSE edits[d] \cup {n}
      BY <2>1 DEF BakTypeOK
    <2>3. Requests(d)'
      BY <1>1, DeviceIs DEF Requests, InBatch
    <2>4. Listing(d)'
      BY <1>1, <2>1, DeviceIs DEF Listing, Has, LeavingIt
    <2>5. Merged(d)'
      <3>1. ASSUME NEW q \in restored[d]
            PROVE  /\ stacks'[d][q.thread] # NoThread
                   /\ \/ q.blocks \subseteq stacks'[d][q.thread]
                      \/ [thread |-> q.thread, news |-> q.blocks, at |-> "head"] \in edits'[d]
        BY <2>1, <2>2, DeviceIs DEF Merged
      <3>2. /\ stacks'[d][t] # NoThread
            /\ r.blocks \subseteq stacks'[d][t] \/ n \in edits'[d]
        <4>1. stacks'[d][t] # NoThread
          BY <1>4, <2>1
        <4>2. CASE stacks[d][t] = r.blocks
          BY <2>1, <4>1, <4>2
        <4>3. CASE stacks[d][t] # r.blocks
          BY <2>2, <4>1, <4>3
        <4> QED BY <4>2, <4>3
      <3>3. ASSUME NEW q \in restored'[d]
            PROVE  /\ stacks'[d][q.thread] # NoThread
                   /\ \/ q.blocks \subseteq stacks'[d][q.thread]
                      \/ [thread |-> q.thread, news |-> q.blocks, at |-> "head"] \in edits'[d]
        <4>1. CASE q \in restored[d]
          BY <3>1, <4>1
        <4>2. CASE q = r
          BY <3>2, <4>2
        <4> QED BY <1>1, <4>1, <4>2
      <3> QED BY <3>3 DEF Merged
    <2> HIDE DEF t, n
    <2>6. ASSUME NEW u \in Backed PROVE Firm(d, u)'
      <3>1. /\ Editing(d, u) => Editing(d, u)'
            /\ Gone(d, u)' = Gone(d, u) /\ LeavingIt(d, u)' = LeavingIt(d, u)
            /\ ToWalk(d, u)' = ToWalk(d, u)
        BY <1>1, <2>1, <2>2 DEF Editing, Gone, LeavingIt, ToWalk
      <3>2. CASE u # t
        BY <1>1, <1>2, <2>1, <3>1, <3>2, MindedKeeps DEF Minded
      <3>3. CASE u = t /\ LeavingIt(d, t)
        BY <2>1, <3>3 DEF Firm
      <3>4. CASE u = t /\ ~LeavingIt(d, t)
        <4>1. Renewed(d, u) => Renewed(d, u)'
          BY <1>1, <1>2, <2>1, <3>1, <3>4 DEF Renewed, Covered, Due
        <4>2. Unstored(d, u) => Unstored(d, u)'
          BY <1>1, <1>4, <2>1, <3>1, <3>4 DEF Unstored, HasRequest, UnstoreDue
        <4>3. ReadRight(d, u) => ReadRight(d, u)'
          BY <1>1, <2>1, <3>1 DEF ReadRight, Handed, InBatch, UnstoreDue
        <4> QED BY <2>1, <4>1, <4>2, <4>3 DEF Firm, DevInv
      <3> QED BY <3>2, <3>3, <3>4
    <2> QED BY <2>3, <2>4, <2>5, <2>6 DEF DevInv
  <1> QED BY <1>3, <1>4

\* A device dies: what it loses is marked.
LEMMA DiesKeeps ==
    ASSUME BakTypeOK, NEW d \in Devices, DevInv(d), DeviceDies(d)
    PROVE  DevInv(d)'
  <1>1. /\ DeviceLoses(d)
        /\ UNCHANGED <<backlog, stacks, loadedBy, joinOf, queue, dates, kept>>
    BY DEF DeviceDies, threadVars, queueVars
  <1> QED BY <1>1, LosesKeeps

-----------------------------------------------------------------------------
\* What device d does at a step.
BakStep(d) ==
    \/ \E t \in Backed : AddBacked(d, t) \/ PostJoin(d, t) \/ RemoveBacked(d, t)
    \/ \E t \in Backed, b \in Blocks : PostUpdate(d, t, b)
    \/ \E e \in edits[d] : UpdateHead(d, e) \/ Store(d, e)
    \/ RequestUnstore(d) \/ DeleteBackedRow(d) \/ SnapshotThreads(d) \/ SnapshotNext(d)
    \/ StartFlush(d) \/ EndBatch(d) \/ SyncAccount(d) \/ DeviceDies(d)
    \/ \E r \in flush[d].todo :
        \/ ReadThread(d, r)
        \/ \E ok, arrives \in BOOLEAN :
            StoreThread(d, r, ok, arrives) \/ UnstoreThread(d, r, ok, arrives)
    \/ \E r \in answers[d] : ApplySnapshot(d, r)

\* Every step is one of a device.
LEMMA BakStepIs ==
    BakNext <=> \E d \in Devices : BakStep(d)
  BY DEF BakNext, BakStep

\* It keeps the types and what holds of the device.
LEMMA StepKeeps ==
    ASSUME BakTypeOK, NEW d \in Devices, DevInv(d), BakStep(d)
    PROVE  BakTypeOK' /\ DevInv(d)'
  <1>0. Listing(d)
    BY DEF DevInv
  <1>1. ASSUME NEW t \in Backed, AddBacked(d, t) \/ PostJoin(d, t) \/ RemoveBacked(d, t)
        PROVE  BakTypeOK' /\ DevInv(d)'
    BY <1>0, <1>1, BakStepTypes, AddKeeps, PostsKeep, RemoveKeeps
  <1>2. ASSUME NEW t \in Backed, NEW b \in Blocks, PostUpdate(d, t, b)
        PROVE  BakTypeOK' /\ DevInv(d)'
    BY <1>0, <1>2, BakStepTypes, PostsKeep
  <1>3. ASSUME NEW e \in edits[d], UpdateHead(d, e) \/ Store(d, e)
        PROVE  BakTypeOK' /\ DevInv(d)'
    BY <1>0, <1>3, BakStepTypes, UpdateKeeps, StoreKeeps
  <1>4. ASSUME RequestUnstore(d) \/ DeleteBackedRow(d) \/ SnapshotThreads(d) \/ SnapshotNext(d)
        PROVE  BakTypeOK' /\ DevInv(d)'
    BY <1>0, <1>4, BakStepTypes, RequestUnstoreKeeps, DeleteKeeps, SnapshotKeeps, WalkKeeps
  <1>5. ASSUME StartFlush(d) \/ EndBatch(d) \/ SyncAccount(d) \/ DeviceDies(d)
        PROVE  BakTypeOK' /\ DevInv(d)'
    BY <1>0, <1>5, BakStepTypes, StartKeeps, EndKeeps, SyncKeeps, DiesKeeps
  <1>6. ASSUME NEW r \in flush[d].todo, ReadThread(d, r)
        PROVE  BakTypeOK' /\ DevInv(d)'
    BY <1>0, <1>6, BakStepTypes, ReadKeeps
  <1>7. ASSUME NEW r \in flush[d].todo, NEW ok \in BOOLEAN, NEW arrives \in BOOLEAN,
               StoreThread(d, r, ok, arrives)
        PROVE  BakTypeOK' /\ DevInv(d)'
    BY <1>0, <1>7, BakStepTypes, StoreThreadKeeps
  <1>8. ASSUME NEW r \in flush[d].todo, NEW ok \in BOOLEAN, NEW arrives \in BOOLEAN,
               UnstoreThread(d, r, ok, arrives)
        PROVE  BakTypeOK' /\ DevInv(d)'
    BY <1>0, <1>8, BakStepTypes, UnstoreThreadKeeps
  <1>9. ASSUME NEW r \in answers[d], ApplySnapshot(d, r)
        PROVE  BakTypeOK' /\ DevInv(d)'
    BY <1>0, <1>9, BakStepTypes, ApplyKeeps
  <1> QED BY <1>1, <1>2, <1>3, <1>4, <1>5, <1>6, <1>7, <1>8, <1>9 DEF BakStep

\* It leaves the others alone.
LEMMA OthersUntouched ==
    ASSUME BakTypeOK, NEW d \in Devices, NEW e \in Devices, e # d, BakStep(d)
    PROVE  Untouched(e)
  <1> USE DEF BakTypeOK, Untouched, threadVars, workVars, queueVars, syncVars, AddRequest,
              AddBackedRow, Answered, NextBatch, DeviceLoses, Backlog
  <1>1. ASSUME NEW t \in Backed, AddBacked(d, t) PROVE Untouched(e)
    BY <1>1 DEF AddBacked
  <1>2. ASSUME NEW t \in Backed, PostJoin(d, t) PROVE Untouched(e)
    BY <1>2 DEF PostJoin
  <1>3. ASSUME NEW t \in Backed, RemoveBacked(d, t) PROVE Untouched(e)
    BY <1>3 DEF RemoveBacked
  <1>4. ASSUME NEW t \in Backed, NEW b \in Blocks, PostUpdate(d, t, b) PROVE Untouched(e)
    BY <1>4 DEF PostUpdate
  <1>5. ASSUME NEW x \in edits[d], UpdateHead(d, x) PROVE Untouched(e)
    BY <1>5 DEF UpdateHead
  <1>6. ASSUME NEW x \in edits[d], Store(d, x) PROVE Untouched(e)
    BY <1>6 DEF Store
  <1>7. ASSUME RequestUnstore(d) PROVE Untouched(e)
    BY <1>7 DEF RequestUnstore
  <1>8. ASSUME DeleteBackedRow(d) PROVE Untouched(e)
    BY <1>8 DEF DeleteBackedRow
  <1>9. ASSUME SnapshotThreads(d) PROVE Untouched(e)
    BY <1>9 DEF SnapshotThreads
  <1>10. ASSUME SnapshotNext(d) PROVE Untouched(e)
    BY <1>10 DEF SnapshotNext
  <1>11. ASSUME StartFlush(d) PROVE Untouched(e)
    BY <1>11 DEF StartFlush
  <1>12. ASSUME EndBatch(d) PROVE Untouched(e)
    BY <1>12 DEF EndBatch
  <1>13. ASSUME SyncAccount(d) PROVE Untouched(e)
    BY <1>13 DEF SyncAccount
  <1>14. ASSUME DeviceDies(d) PROVE Untouched(e)
    BY <1>14 DEF DeviceDies
  <1>15. ASSUME NEW r \in flush[d].todo, ReadThread(d, r) PROVE Untouched(e)
    BY <1>15 DEF ReadThread
  <1>16. ASSUME NEW r \in flush[d].todo, NEW ok \in BOOLEAN, NEW arrives \in BOOLEAN,
                StoreThread(d, r, ok, arrives)
         PROVE  Untouched(e)
    BY <1>16 DEF StoreThread, HandleStoreThread
  <1>17. ASSUME NEW r \in flush[d].todo, NEW ok \in BOOLEAN, NEW arrives \in BOOLEAN,
                UnstoreThread(d, r, ok, arrives)
         PROVE  Untouched(e)
    BY <1>17 DEF UnstoreThread, HandleUnstoreThread
  <1>18. ASSUME NEW r \in answers[d], ApplySnapshot(d, r) PROVE Untouched(e)
    BY <1>18 DEF ApplySnapshot
  <1> HIDE DEF BakTypeOK, Untouched, threadVars, workVars, queueVars, syncVars, AddRequest,
              AddBackedRow, Answered, NextBatch, DeviceLoses, Backlog
  <1> QED BY <1>1, <1>2, <1>3, <1>4, <1>5, <1>6, <1>7, <1>8, <1>9, <1>10, <1>11, <1>12, <1>13,
             <1>14, <1>15, <1>16, <1>17, <1>18 DEF BakStep

\* The invariant holds of devices that have done nothing.
LEMMA BakInvInit ==
    BakInit => BakTypeOK /\ \A d \in Devices : DevInv(d)
  <1> SUFFICES ASSUME BakInit PROVE BakTypeOK /\ \A d \in Devices : DevInv(d)
    OBVIOUS
  <1>1. backlog \in Backlog /\ Mishaps \in Nat /\ NoThread \notin Backed /\ NoThread \notin Content
    BY BakConstants DEF BakInit
  <1>2. ASSUME NEW d \in Devices
        PROVE  /\ backlog.has[d] \subseteq Backed /\ loadedBy[d] = SetToSeq(backlog.has[d])
               /\ loadedBy[d] \in Seq(Backed) /\ IsInjective(loadedBy[d])
               /\ ToSet(loadedBy[d]) = backlog.has[d]
    <2>1. backlog.has[d] \subseteq Backed
      BY <1>1 DEF Backlog
    <2>2. IsFiniteSet(backlog.has[d])
      BY <2>1, BakConstants, FS_Subset
    <2>3. /\ SetToSeq(backlog.has[d]) \in Seq(backlog.has[d]) /\ IsInjective(SetToSeq(backlog.has[d]))
          /\ ToSet(SetToSeq(backlog.has[d])) = backlog.has[d]
      BY <2>2, SetToSeqIs
    <2>4. SetToSeq(backlog.has[d]) \in Seq(Backed)
      BY <2>1, <2>3, SeqDef
    <2> QED BY <2>1, <2>3, <2>4 DEF BakInit
  <1>3. /\ \A d \in Devices : {d} \in Content
        /\ Still \in Flushing /\ NoWalk \in [at : Nat, len : Nat]
    BY DEF Content, Still, Flushing, NoWalk
  <1>4. stacks \in [Devices -> [Backed -> {NoThread} \cup Content]]
    BY <1>3 DEF BakInit
  <1>5. kept \in [Devices -> [Backed -> {NoThread} \cup Content]]
    BY <1>4 DEF BakInit
  <1>6. BakTypeOK
    BY <1>1, <1>2, <1>3, <1>4, <1>5 DEF BakInit, BakTypeOK
  <1>7. ASSUME NEW d \in Devices PROVE DevInv(d)
    <2>1. /\ \A t \in Backed : stacks[d][t] # NoThread <=> t \in backlog.has[d]
          /\ \A t \in Backed : joinOf[d][t] = IF t \in backlog.has[d] THEN "posted" ELSE "none"
          /\ \A t \in Backed : kept[d][t] = IF d \in backlog.session THEN stacks[d][t] ELSE NoThread
          /\ edits[d] = {} /\ leaving[d] = Nowhere /\ walk[d] = NoWalk /\ queue[d] = {}
          /\ dates[d] = 0 /\ flush[d] = Still /\ restored[d] = {}
      BY <1>1, <1>3 DEF BakInit
    <2>2. Requests(d) /\ Merged(d)
      BY <2>1 DEF Requests, InBatch, Still, Merged
    <2>3. \A t \in Backed : ~LeavingIt(d, t)
      BY <1>1, <2>1 DEF LeavingIt, Nowhere
    <2>4. Listing(d)
      BY <1>2, <2>1, <2>3 DEF Listing, Has
    <2>5. ASSUME NEW t \in Backed PROVE Renewed(d, t) /\ Unstored(d, t) /\ ReadRight(d, t)
      <3>1. Renewed(d, t)
        BY <2>1 DEF Renewed, Covered
      <3>2. Gone(d, t) <=> stacks[d][t] = NoThread
        BY <2>1, <2>3 DEF Gone, Nowhere
      <3>3. Unstored(d, t)
        BY <2>1, <2>3, <3>2 DEF Unstored, HasRequest
      <3>4. ReadRight(d, t)
        BY <2>1 DEF ReadRight, Still
      <3> QED BY <3>1, <3>3, <3>4
    <2> QED BY <2>2, <2>4, <2>5 DEF DevInv, Firm
  <1> QED BY <1>6, <1>7

\* The invariant.
BakInv == BakTypeOK /\ \A d \in Devices : DevInv(d)

\* Every step keeps it.
LEMMA BakInvStep ==
    BakInv /\ [BakNext]_bakVars => BakInv'
  <1> SUFFICES ASSUME BakInv, [BakNext]_bakVars PROVE BakInv'
    OBVIOUS
  <1>1. ASSUME NEW d \in Devices, BakStep(d) PROVE BakInv'
    <2>1. BakTypeOK' /\ DevInv(d)'
      BY <1>1, StepKeeps DEF BakInv
    <2>2. ASSUME NEW e \in Devices, e # d PROVE DevInv(e)'
      <3>1. Untouched(e)
        BY <1>1, <2>2, OthersUntouched DEF BakInv
      <3> QED BY <3>1, UntouchedKeeps DEF BakInv
    <2> QED BY <2>1, <2>2 DEF BakInv
  <1>2. CASE UNCHANGED bakVars
    <2>1. ASSUME NEW e \in Devices PROVE DevInv(e)'
      <3>1. Untouched(e)
        BY <1>2 DEF bakVars, Untouched
      <3> QED BY <3>1, UntouchedKeeps DEF BakInv
    <2>2. BakTypeOK'
      BY <1>2 DEF BakInv, bakVars, BakTypeOK
    <2> QED BY <2>1, <2>2 DEF BakInv
  <1> QED BY <1>1, <1>2, BakStepIs

\* The variables of the devices keep their types.
THEOREM BackupsTypeCorrect == BakSpec => []BakTypeOK
  <1>1. BakInit => BakInv
    BY BakInvInit DEF BakInv
  <1>2. BakInv => BakTypeOK
    BY DEF BakInv
  <1> QED BY <1>1, <1>2, BakInvStep, PTL DEF BakSpec

\* What the cafe keeps of the threads of a device is what the device has, but
\* for what is still to be done and for what was marked; and what a sync has
\* applied stays.
THEOREM BackupsAlwaysSound == BakSpec => []BackupsSound
  <1>1. BakInit => BakInv
    BY BakInvInit DEF BakInv
  <1>2. BakInv => BackupsSound
    <2> SUFFICES ASSUME BakInv PROVE BackupsSound
      OBVIOUS
    <2>1. SnapshotsMatch
      <3> SUFFICES ASSUME NEW d \in backlog.session, NEW t \in Backed
                   PROVE  Pending(d, t) \/ <<d, t>> \in frayed \/ kept[d][t] = stacks[d][t]
        BY DEF SnapshotsMatch
      <3>1. d \in Devices
        BY DEF BakInv, BakTypeOK, Backlog
      <3>2. Firm(d, t) /\ queue[d] \subseteq Asked
        BY <3>1 DEF BakInv, DevInv, BakTypeOK
      <3>3. Due(d, t) => HasRequest(d, t, "store") \/ HasRequest(d, t, "unstore")
        BY <3>2 DEF Due, HasRequest, Asked
      <3> QED BY <3>2, <3>3 DEF Firm, Renewed, Covered, Pending, Editing, LeavingIt
    <2>2. RestoredKept
      <3> SUFFICES ASSUME NEW d \in Devices, NEW r \in restored[d]
                   PROVE  \/ \E e \in edits[d] : e.thread = r.thread
                          \/ stacks[d][r.thread] # NoThread /\ r.blocks \subseteq stacks[d][r.thread]
        BY DEF RestoredKept
      <3> QED BY DEF BakInv, DevInv, Merged
    <2> QED BY <2>1, <2>2 DEF BackupsSound
  <1> QED BY <1>1, <1>2, BakInvStep, PTL DEF BakSpec

=============================================================================
