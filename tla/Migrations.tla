----------------------------- MODULE Migrations -----------------------------
(***************************************************************************)
(* The repository on disk: repo/init.go and core InitRepo create it,       *)
(* repo/migrations.go brings an older one up to the current version, and   *)
(* NewTextile opens it.  The process may die between any two statements.   *)
(*                                                                         *)
(* The database is the set of columns of each table, without the columns   *)
(* that no migration touches ("base" stands for them) and without the      *)
(* indexes; of its rows one block of type FILES and one open thread are    *)
(* kept, and the account.                                                  *)
(***************************************************************************)
EXTENDS Integers, Sequences

CONSTANT Histories  \* what may happen in a behaviour: see History

Current == 16       \* len(migrations), and Repover
Unreadable == -1    \* a repover file that is empty

\* from: the version the repository starts at (Unreadable: there is none);
\* crashes: bound, how often the process dies.
History == [from : (0..Current) \cup {Unreadable}, crashes : Nat]

ASSUME MigrationsAssumption == Histories \subseteq History

VARIABLES
    history,    \* chosen once: see Histories
    schema,     \* the columns of each table, none if there is no such table
    dataRow,    \* target and data of the FILES block, sharing of the thread
    repover,    \* the version file
    ipfsRepo,   \* fsrepo.IsInitialized
    account,    \* the account is in the config table
    exported,   \* the files that the major migration has written
    task,       \* "off", "init", "open" or "migrate"
    step,       \* its migration, and the statements left of it
    verdict,    \* of the last job: "none", "done", "open" or "failed"
    deaths      \* how often the process has died

migVars == <<history, schema, dataRow, repover, ipfsRepo, account, exported, task, step,
             verdict, deaths>>

Tables == {"blocks", "threads", "contacts", "peers", "thread_messages", "block_messages",
           "thread_invites", "invites", "cafe_requests", "cafe_clients", "cafe_tokens",
           "profile", "notifications"}

Empty == [t \in Tables |-> {}]

-----------------------------------------------------------------------------
\* Statements: what each needs of the database, and what it makes of it.
Stmt(op, table, arg) == [op |-> op, table |-> table, arg |-> arg]
Add(t, cs) == Stmt("add", t, cs)
Create(t, cs) == Stmt("create", t, cs)
Drop(t) == Stmt("drop", t, {})
DropIfAny(t) == Stmt("dropIfAny", t, {})
Replace(t, cs) == Stmt("replace", t, cs)        \* in one transaction
Rename(t, u) == Stmt("rename", t, {u})
Put(what) == Stmt(what, "blocks", {})           \* anything that is not a table

Applies(s) ==
    CASE s.op = "add"     -> schema[s.table] # {} /\ schema[s.table] \cap s.arg = {}
      [] s.op = "create"  -> schema[s.table] = {}
      [] s.op \in {"drop", "replace"} -> schema[s.table] # {}
      [] s.op = "rename"  -> schema[s.table] # {} /\ \A u \in s.arg : schema[u] = {}
      [] s.op = "self"    -> ipfsRepo
      [] s.op = "tables"  -> schema = Empty
      [] OTHER            -> TRUE

\* The tables that initDatabaseTables creates.
Fresh == [t \in Tables |->
    CASE t = "blocks" -> {"base", "data", "status", "attempts"}
      [] t = "threads" -> {"base", "members", "sharing"}
      [] t \in {"peers", "block_messages", "cafe_tokens"} -> {"base"}
      [] t = "invites" -> {"base", "inviter", "parents"}
      [] t = "cafe_requests" -> {"base", "groupId", "syncGroupId", "size", "status",
                                 "attempts", "groupSize", "groupTransferred"}
      [] t = "cafe_clients" -> {"base", "tokenId"}
      [] t = "notifications" -> {"base", "subject"}
      [] OTHER -> {}]

SchemaAfter(s) ==
    CASE s.op = "add" -> [schema EXCEPT ![s.table] = @ \cup s.arg]
      [] s.op \in {"create", "replace"} -> [schema EXCEPT ![s.table] = s.arg]
      [] s.op \in {"drop", "dropIfAny"} -> [schema EXCEPT ![s.table] = {}]
      [] s.op = "rename" -> [t \in Tables |-> CASE t \in s.arg -> schema[s.table]
                                                [] t = s.table -> {}
                                                [] OTHER -> schema[t]]
      [] s.op = "datastore" -> Empty
      [] s.op = "tables" -> Fresh
      [] OTHER -> schema

\* update threads set sharing ...; update blocks set ...
RowAfter(s) ==
    CASE s.op = "share" -> [dataRow EXCEPT !.sharing = "shared"]
      [] s.op = "copyTarget" -> [dataRow EXCEPT !.data = dataRow.target]
      [] s.op = "clearTarget" -> [dataRow EXCEPT !.target = ""]
      [] OTHER -> dataRow

-----------------------------------------------------------------------------
\* The migrations.  os.Create empties the version file and Write fills it.
Version == <<Put("truncate"), Put("version")>>

Minor000 == <<Add("blocks", {"dataUsernameCipher"})>> \o Version
Minor001 == <<Add("blocks", {"dataMetadataCipher"})>> \o Version
Minor002 == <<Create("notifications", {"base", "targetId"})>> \o Version
Minor003 == <<Add("notifications", {"actorUn", "category"})>> \o Version
Minor004 == <<Replace("notifications", {"base", "subject"})>> \o Version

\* The major one saves what it can and removes the repository, but for its
\* version file.
Major005 == <<Put("peerid"), Put("threads"), Put("photos"),
              Put("config"), Put("datastore")>>

Minor006 == <<Put("self"), DropIfAny("profile")>> \o Version
Minor007 == <<Drop("thread_invites"), Create("thread_invites", {"base", "contact"})>>
            \o Version
Minor008 == <<Add("threads", {"members"}), Add("threads", {"sharing"}), Put("share")>>
            \o Version
Minor009 == <<Create("cafe_tokens", {"base"}), Add("cafe_clients", {"tokenId"})>>
            \o Version
Minor010 == <<Drop("thread_messages"), Drop("thread_invites"),
              Create("block_messages", {"base"}),
              Create("invites", {"base", "inviter"})>> \o Version
Minor011 == <<Rename("contacts", "peers")>> \o Version
Minor012 == <<Add("cafe_requests", {"size"}), Add("cafe_requests", {"groupId"}),
              Add("cafe_requests", {"status"})>> \o Version

\* Mutant: the table is not dropped first.
Minor013Kept ==
    <<Add("invites", {"parents"}),
      Create("cafe_requests", {"base", "groupId", "syncGroupId", "size", "status",
                               "attempts"})>> \o Version

Minor013 == <<Add("invites", {"parents"}), Drop("cafe_requests"),
              Create("cafe_requests", {"base", "groupId", "syncGroupId", "size", "status",
                                       "attempts"})>> \o Version
Minor014 == <<Add("blocks", {"data"}), Add("blocks", {"status"}),
              Add("blocks", {"attempts"}), Put("copyTarget"), Put("clearTarget")>>
            \o Version
Minor015 == <<Add("cafe_requests", {"groupSize"}),
              Add("cafe_requests", {"groupTransferred"})>> \o Version

\* migrations[v:v+1]
Script(v) ==
    <<Minor000, Minor001, Minor002, Minor003, Minor004, Major005, Minor006, Minor007,
      Minor008, Minor009, Minor010, Minor011, Minor012, Minor013, Minor014,
      Minor015>>[v + 1]

\* InitRepo: fsrepo.Init, the version, the tables, the account.
InitScript == <<Put("fsrepo")>> \o Version \o <<Put("tables"), Put("configure")>>

\* The tables of the versions 0 and 6; the migrations are all that is known
\* of those in between.
Version0 == [Empty EXCEPT !["blocks"] = {"base"}, !["threads"] = {"base"}]
Version6 == [t \in Tables |->
    CASE t \in {"blocks", "threads", "contacts", "thread_messages", "cafe_requests",
                "cafe_clients", "profile"} -> {"base"}
      [] t = "thread_invites" -> {"base", "inviter"}
      [] t = "notifications" -> {"base", "subject"}
      [] OTHER -> {}]

OldRow == [target |-> "d", data |-> "", sharing |-> "none"]
Idle == [at |-> 0, left |-> <<>>]

\* A repository that exists has version 0 or 6 (those in between are reached
\* by migrating), or is a fresh one.
MigInit ==
    /\ history \in Histories
    /\ repover = IF history.from = Unreadable THEN 0 ELSE history.from
    /\ schema = CASE history.from = Unreadable -> Empty
                  [] history.from = 0 -> Version0
                  [] history.from = 6 -> Version6
                  [] OTHER -> Fresh
    /\ dataRow = IF history.from = Current
                 THEN [target |-> "", data |-> "d", sharing |-> "shared"]
             ELSE OldRow
    /\ ipfsRepo = (history.from # Unreadable) /\ account = ipfsRepo
    /\ exported = {}
    /\ task = "off" /\ step = Idle /\ verdict = "none" /\ deaths = 0

-----------------------------------------------------------------------------
\* InitRepo begins; it refuses a repository that is there.
InitRepo ==
    /\ task = "off" /\ ~ipfsRepo
    /\ task' = "init" /\ step' = [at |-> Current, left |-> InitScript]
    /\ UNCHANGED <<history, schema, dataRow, repover, ipfsRepo, account, exported, verdict,
                   deaths>>

\* version: Stat and MigrateUp return the error of an unreadable file.
VersionReadable == repover \in 0..Current

\* Stat: there is a major migration ahead.
MajorAhead == repover <= 5

\* NewTextile up to MigrateUp; MigrateRepo does not ask Stat.
Begin(j) ==
    /\ task = "off" /\ ipfsRepo /\ verdict # "open"
    /\ IF ~VersionReadable \/ (j = "open" /\ MajorAhead)
       THEN /\ verdict' = "failed"
            /\ UNCHANGED <<task, step>>
       ELSE /\ task' = j
            /\ step' = IF repover = Current THEN [at |-> Current, left |-> <<>>]
                       ELSE [at |-> repover, left |-> Script(repover)]
            /\ UNCHANGED verdict
    /\ UNCHANGED <<history, schema, dataRow, repover, ipfsRepo, account, exported, deaths>>

\* The next statement of Up or of InitRepo.
Execute ==
    LET s == Head(step.left)
    IN  /\ task # "off" /\ step.left # <<>> /\ Applies(s)
        /\ schema' = SchemaAfter(s)
        /\ dataRow' = RowAfter(s)
        /\ repover' = CASE s.op = "truncate" -> Unreadable
                        [] s.op = "version" -> IF task = "init" THEN Current ELSE step.at + 1
                        [] OTHER -> repover
        /\ ipfsRepo' = CASE s.op = "fsrepo" -> TRUE
                         [] s.op = "config" -> FALSE
                         [] OTHER -> ipfsRepo
        /\ account' = CASE s.op = "configure" -> TRUE
                        [] s.op = "datastore" -> FALSE
                        [] OTHER -> account
        /\ exported' = IF s.op \in {"peerid", "threads", "photos"}
                       THEN exported \cup {s.op} ELSE exported
        /\ step' = [step EXCEPT !.left = Tail(@)]
        /\ UNCHANGED <<history, task, verdict, deaths>>

\* A statement that does not apply ends the job.
Fail ==
    /\ task # "off" /\ step.left # <<>> /\ ~Applies(Head(step.left))
    /\ task' = "off" /\ step' = Idle /\ verdict' = "failed"
    /\ UNCHANGED <<history, schema, dataRow, repover, ipfsRepo, account, exported, deaths>>

\* The next migration, or the end: NewTextile reads the account.
NextMigration ==
    /\ task # "off" /\ step.left = <<>>
    /\ IF step.at < Current - 1
       THEN /\ step' = [at |-> step.at + 1, left |-> Script(step.at + 1)]
            /\ UNCHANGED <<task, verdict>>
       ELSE /\ task' = "off" /\ step' = Idle
            /\ verdict' = IF task # "open" THEN "done" ELSE IF account THEN "open" ELSE "failed"
    /\ UNCHANGED <<history, schema, dataRow, repover, ipfsRepo, account, exported, deaths>>

Die ==
    /\ task # "off" /\ deaths < history.crashes
    /\ task' = "off" /\ step' = Idle /\ verdict' = "none"
    /\ deaths' = deaths + 1
    /\ UNCHANGED <<history, schema, dataRow, repover, ipfsRepo, account, exported>>

MigNext ==
    InitRepo \/ Begin("open") \/ Begin("migrate") \/ Execute \/ Fail \/ NextMigration \/ Die

MigSpec == MigInit /\ [][MigNext]_migVars

-----------------------------------------------------------------------------
MigTypeOK ==
    /\ history \in Histories
    /\ \A t \in Tables : schema[t] \subseteq UNION {Fresh[u] : u \in Tables} \cup
                            {"targetId", "actorUn", "category", "contact",
                             "dataUsernameCipher", "dataMetadataCipher"}
    /\ dataRow \in [target : {"", "d"}, data : {"", "d"}, sharing : {"none", "shared"}]
    /\ repover \in (0..Current) \cup {Unreadable}
    /\ ipfsRepo \in BOOLEAN /\ account \in BOOLEAN
    /\ exported \subseteq {"peerid", "threads", "photos"}
    /\ task \in {"off", "init", "open", "migrate"}
    /\ step.at \in 0..Current /\ Len(step.left) <= 7
    /\ verdict \in {"none", "done", "open", "failed"}
    /\ deaths \in 0..history.crashes

\* A repository that a node opens is a current one, whatever interrupted its
\* migrations: every table is the one of a fresh repository, no FILES block
\* has lost its data, and an open thread can still be shared.
OpenIsCurrent ==
    verdict = "open" =>
        /\ schema = Fresh
        /\ history.from \in 6..Current =>
               dataRow = [target |-> "", data |-> "d", sharing |-> "shared"]

\* Nothing but an interruption or the major migration makes a repository
\* fail to open: every migration fits the tables that the ones before it left.
OpensUnharmed == verdict = "failed" /\ deaths = 0 => history.from = 0

\* The keys of the threads are saved before the database is removed.
KeysExported ==
    history.from = 0 /\ schema = Empty => exported = {"peerid", "threads", "photos"}

\* An upgrade ends in a current repository or, where it was interrupted or the
\* major migration came, in an error; it loses nothing.
UpgradeSafe == OpenIsCurrent /\ OpensUnharmed /\ KeysExported
=============================================================================
