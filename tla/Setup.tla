-------------------------------- MODULE Setup --------------------------------
(***************************************************************************)
(* How a repository comes to be and how a node starts from it: InitRepo,   *)
(* NewTextile and Start of core/core.go, repo/init.go, repo/config,        *)
(* core/config.go, addAccountThread of threads.go, and the requests of     *)
(* api_config.go that rewrite the configuration while the node runs.       *)
(* Migrations models how an older repository is upgraded; one that was has *)
(* the account thread of its version here.                                 *)
(***************************************************************************)
EXTENDS Naturals, Sequences, FiniteSets

CONSTANTS
    Visitors,   \* requests that change the configuration
    Friends,    \* contacts of the account
    Outlines,   \* what may happen in a behaviour: see Outline
    Outages     \* bound: how often the process ends

\* The "textile" file.  A longer address setting makes a longer file.
Config == [owner : BOOLEAN, mobile : BOOLEAN, server : BOOLEAN, api : 0..2]
Default == [owner |-> FALSE, mobile |-> FALSE, server |-> FALSE, api |-> 1]
Torn == [torn |-> TRUE]
Absent == [absent |-> TRUE]
Size(conf) == conf.api + IF conf.owner THEN 3 ELSE 0

\* from: a new repository, one that runs, or one with the account thread of
\* 0.1.10 (another id) or of 0.1.11 (no schema); options and ports of InitRepo;
\* asks: the field that a request patches, or what it puts.
Ask == [method : {"put", "patch"}, field : {"owner", "mobile", "server", "api"}, conf : Config]
Outline == [from : {"new", "made", "malformed", "schemaless"}, options : Config,
            ports : Seq(1..3), asks : [Visitors -> {Absent} \cup Ask]]

ASSUME SetupAssumption == Outlines \subseteq Outline /\ Outages \in Nat

VARIABLES
    outline,  \* the scenario
    textile,  \* the textile configuration file
    ipfs,     \* the IPFS configuration
    versionFile,  \* the version file: "none", "empty" or "16"
    base,     \* the datastore: tables, the account, the row of the own peer
    row,      \* the account thread in the threads table
    node,     \* the process: how far it is, and what it has in memory
    visits,   \* the requests
    stuck,   \* a node did not start
    scars,    \* what the code cannot make good
    outages   \* how often the process ended

setupVars == <<outline, textile, ipfs, versionFile, base, row, node, visits, stuck, scars,
               outages>>
fileVars == <<textile, ipfs, versionFile, base, row>>

Initial == {"ipfs", "create", "write", "version", "number", "ports", "tables", "rest", "seed",
            "self", "options", "recreate", "rewrite"}
Starting == {"profile", "load", "thread", "add", "join", "tell"}
NoNode == [at |-> "off", conf |-> Default, seed |-> FALSE]
Rows == [id : {"own", "other"}, schema : BOOLEAN, joined : BOOLEAN, told : SUBSET Friends]

SetupTypeOK ==
    /\ outline \in Outlines
    /\ textile \in Config \cup {Torn, Absent} /\ versionFile \in {"none", "empty", "16"}
    /\ base \in [tables : 0..2, seed : BOOLEAN, self : BOOLEAN]
    /\ row \in Rows \cup {Absent}
    /\ node \in [at : {"off", "new", "up"} \cup Initial \cup Starting, conf : Config,
                 seed : BOOLEAN]
    /\ visits \in [Visitors -> [at : {"ask", "truncate", "write", "done"}, conf : Config]]
    /\ stuck \in BOOLEAN /\ scars \subseteq {"init", "torn", "mixed", "owner", "thread"}
    /\ outages \in 0..Outages

-----------------------------------------------------------------------------
\* InitIpfs.  A flag is one that differs between the profiles.
InitIpfs(mobile, server) ==
    [noAnnounce |-> server, addrFilters |-> server, mdns |-> ~server,
     routing |-> IF server THEN "dht" ELSE "dhtclient",
     reprovider |-> IF server THEN 12 ELSE 0,
     lowWater |-> IF mobile THEN 200 ELSE 600, highWater |-> IF mobile THEN 500 ELSE 900,
     disableMetrics |-> mobile, disableNat |-> server, relayHop |-> server,
     autoRelay |-> ~server, autoNat |-> server, swarm |-> {}]

\* Mutant: what the server profile sets is left when the profile is another.
EnsureProfileServer(profile, conf) ==
    LET server == profile = "server"
        mobile == profile = "mobile"
    IN  [noAnnounce |-> conf.noAnnounce \/ server,
         addrFilters |-> conf.addrFilters \/ server, mdns |-> ~server,
         routing |-> IF server THEN "dht" ELSE "dhtclient",
         reprovider |-> IF server THEN 12 ELSE 0,
         lowWater |-> IF mobile THEN 200 ELSE 600, highWater |-> IF mobile THEN 500 ELSE 900,
         disableMetrics |-> mobile, disableNat |-> server, relayHop |-> server,
         autoRelay |-> ~server, autoNat |-> server, swarm |-> conf.swarm]

\* ensureProfile, at every start.  It sets all of these, and keeps the rest.
EnsureProfile(profile, conf) ==
    LET server == profile = "server"
        mobile == profile = "mobile"
    IN  [noAnnounce |-> server, addrFilters |-> server, mdns |-> ~server,
         routing |-> IF server THEN "dht" ELSE "dhtclient",
         reprovider |-> IF server THEN 12 ELSE 0,
         lowWater |-> IF mobile THEN 200 ELSE 600, highWater |-> IF mobile THEN 500 ELSE 900,
         disableMetrics |-> mobile, disableNat |-> server, relayHop |-> server,
         autoRelay |-> ~server, autoNat |-> server, swarm |-> conf.swarm]

Profile(conf) == IF conf.mobile THEN "mobile" ELSE IF conf.server THEN "server" ELSE "desktop"

\* applySwarmPortConfigOption: TCP, or TCP and WS; 0 is a port by chance, for
\* none and for more than two, too.
SwarmPorts(ports) == IF Len(ports) \in {1, 2} THEN {ports[i] : i \in DOMAIN ports} ELSE {0}

\* applyTextileConfigOptions keeps the address if the option is empty.
WithOptions(conf, options) ==
    [options EXCEPT !.owner = TRUE, !.api = IF @ = 0 THEN conf.api ELSE @]

OwnRow == [id |-> "own", schema |-> TRUE, joined |-> FALSE, told |-> {}]

SetupInit ==
    /\ outline \in Outlines
    /\ LET fresh == outline.from = "new" IN
       /\ textile = IF fresh THEN Absent ELSE WithOptions(Default, outline.options)
       /\ ipfs = IF fresh THEN Absent
                 ELSE [InitIpfs(outline.options.mobile, outline.options.server)
                          EXCEPT !.swarm = SwarmPorts(outline.ports)]
       /\ versionFile = IF fresh THEN "none" ELSE "16"
       /\ base = [tables |-> IF fresh THEN 0 ELSE 2, seed |-> ~fresh, self |-> ~fresh]
       /\ row = CASE outline.from = "malformed" -> [OwnRow EXCEPT !.id = "other", !.joined = TRUE]
                  [] outline.from = "schemaless" ->
                         [OwnRow EXCEPT !.schema = FALSE, !.joined = TRUE, !.told = Friends]
                  [] OTHER -> Absent
    /\ node = NoNode /\ visits = [v \in Visitors |-> [at |-> "ask", conf |-> Default]]
    /\ stuck = FALSE /\ scars = {} /\ outages = 0

-----------------------------------------------------------------------------
Step(from, to) == node.at = from /\ node' = [node EXCEPT !.at = to]
setupRest == <<outline, visits, stuck, scars, outages>>

\* InitRepo: not where a repository is, whatever is in it.
BeginInit ==
    /\ outline.from = "new" /\ ipfs = Absent /\ Step("off", "ipfs")
    /\ UNCHANGED <<fileVars, setupRest>>

InitIpfsRepo ==
    /\ Step("ipfs", "create") /\ ipfs' = InitIpfs(outline.options.mobile, outline.options.server)
    /\ UNCHANGED <<textile, versionFile, base, row, setupRest>>

\* Write: os.Create, then the text.
CreateConfig ==
    /\ Step("create", "write") \/ Step("recreate", "rewrite")
    /\ textile' = Torn
    /\ UNCHANGED <<ipfs, versionFile, base, row, setupRest>>

WriteConfig ==
    /\ \/ Step("write", "version") /\ textile' = Default
       \/ Step("rewrite", "off") /\ textile' = node.conf
    /\ UNCHANGED <<ipfs, versionFile, base, row, setupRest>>

WriteVersion ==
    /\ \/ Step("version", "number") /\ versionFile' = "empty"
       \/ Step("number", "ports") /\ versionFile' = "16"
    /\ UNCHANGED <<textile, ipfs, base, row, setupRest>>

ApplySwarmPorts ==
    /\ Step("ports", "tables") /\ ipfs' = [ipfs EXCEPT !.swarm = SwarmPorts(outline.ports)]
    /\ UNCHANGED <<textile, versionFile, base, row, setupRest>>

\* The statements that create the tables are not one transaction.
InitTables ==
    /\ \/ Step("tables", "rest") /\ base' = [base EXCEPT !.tables = 1]
       \/ Step("rest", "seed") /\ base' = [base EXCEPT !.tables = 2]
    /\ UNCHANGED <<textile, ipfs, versionFile, row, setupRest>>

ConfigureBase ==
    /\ Step("seed", "self") /\ base' = [base EXCEPT !.seed = TRUE]
    /\ UNCHANGED <<textile, ipfs, versionFile, row, setupRest>>

AddSelf ==
    /\ Step("self", "options") /\ base' = [base EXCEPT !.self = TRUE]
    /\ UNCHANGED <<textile, ipfs, versionFile, row, setupRest>>

ApplyOptions ==
    /\ node.at = "options"
    /\ node' = [node EXCEPT !.at = "recreate", !.conf = WithOptions(textile, outline.options)]
    /\ UNCHANGED <<fileVars, setupRest>>

-----------------------------------------------------------------------------
StartFails == node' = NoNode /\ stuck' = TRUE

\* No seed is not an error.
GetAccount == base.seed

\* The version file says whether a migration is needed; then the configuration
\* is read, and the account.
NewTextile ==
    /\ node.at = "off" /\ ipfs # Absent
    /\ IF versionFile = "16" /\ textile \in Config /\ base.tables > 0
       THEN /\ node' = [at |-> "new", conf |-> textile, seed |-> GetAccount]
            /\ UNCHANGED stuck
       ELSE StartFails
    /\ UNCHANGED <<fileVars, outline, visits, scars, outages>>

Start == Step("new", "profile") /\ UNCHANGED <<fileVars, setupRest>>

StartProfile ==
    /\ Step("profile", "load") /\ ipfs' = EnsureProfile(Profile(node.conf), ipfs)
    /\ UNCHANGED <<textile, versionFile, base, row, setupRest>>

\* Without an account the log line at the end of Start is a nil dereference.
LoadThreads ==
    /\ node.at = "load"
    /\ IF node.seed THEN Step("load", "thread") /\ UNCHANGED stuck ELSE StartFails
    /\ UNCHANGED <<fileVars, outline, visits, scars, outages>>

\* addAccountThread looks for the thread by the key that the configuration
\* has.  The schema may not be found, although the row has one.
AccountThread == node.conf.owner /\ row # Absent

KeepAccountThread(found) ==
    /\ AccountThread /\ row.id = "own" /\ Step("thread", "up")
    /\ row' = IF found THEN row ELSE [row EXCEPT !.schema = TRUE]
    /\ found => row.schema
    /\ UNCHANGED <<textile, ipfs, versionFile, base, setupRest>>

RemoveMalformed ==
    /\ AccountThread /\ row.id # "own" /\ Step("thread", "add")
    /\ row' = Absent
    /\ UNCHANGED <<textile, ipfs, versionFile, base, setupRest>>

NoAccountThread == ~AccountThread /\ Step("thread", "add") /\ UNCHANGED <<fileVars, setupRest>>

\* AddThread: its row conflicts with one that has the key, its JOIN comes
\* after the row, and then what it is told of the contacts.
AddAccountThread ==
    /\ node.at = "add"
    /\ IF row = Absent THEN Step("add", "join") /\ row' = OwnRow /\ UNCHANGED stuck
       ELSE StartFails /\ UNCHANGED row
    /\ UNCHANGED <<textile, ipfs, versionFile, base, outline, visits, scars, outages>>

JoinAccountThread ==
    /\ Step("join", "tell") /\ row' = [row EXCEPT !.joined = TRUE]
    /\ UNCHANGED <<textile, ipfs, versionFile, base, setupRest>>

AnnounceContacts ==
    /\ node.at = "tell"
    /\ \/ \E c \in Friends \ row.told : row' = [row EXCEPT !.told = @ \cup {c}] /\ UNCHANGED node
       \/ row.told = Friends /\ Step("tell", "up") /\ UNCHANGED row
    /\ UNCHANGED <<textile, ipfs, versionFile, base, setupRest>>

\* A daemon stops its API first, and ends; the node of a phone keeps what it has
\* read when it starts again.
StopNode ==
    /\ node.at = "up" /\ \A v \in Visitors : visits[v].at \in {"ask", "done"}
    /\ node' = IF node.conf.mobile THEN [node EXCEPT !.at = "new"] ELSE NoNode
    /\ UNCHANGED <<fileVars, setupRest>>

ProcessEnds ==
    /\ node.at # "off" /\ outages < Outages /\ outages' = outages + 1
    /\ node' = NoNode
    /\ visits' = [v \in Visitors |-> IF visits[v].at = "ask" THEN visits[v]
                                     ELSE [visits[v] EXCEPT !.at = "done"]]
    /\ scars' = scars \cup (IF node.at \in Initial THEN {"init"} ELSE {})
                      \cup (IF node.at \in {"join", "tell"} THEN {"thread"} ELSE {})
                      \cup (IF textile = Torn /\ (\E v \in Visitors : visits[v].at = "write")
                          THEN {"torn"} ELSE {})
    /\ UNCHANGED <<fileVars, outline, stuck>>

-----------------------------------------------------------------------------
Visited(v, to, conf) == visits' = [visits EXCEPT ![v] = [at |-> to, conf |-> conf]]

\* patchConfig reads the file; nothing can be applied to one that is empty.
PatchConfig(v) ==
    LET ask == outline.asks[v] IN
    /\ node.at = "up" /\ visits[v].at = "ask" /\ ask # Absent /\ ask.method = "patch"
    /\ IF textile \in Config
       THEN Visited(v, "truncate", [textile EXCEPT ![ask.field] = ask.conf[ask.field]])
       ELSE Visited(v, "done", Default)
    /\ UNCHANGED <<fileVars, outline, node, stuck, scars, outages>>

SetConfig(v) ==
    LET ask == outline.asks[v] IN
    /\ node.at = "up" /\ visits[v].at = "ask" /\ ask # Absent /\ ask.method = "put"
    /\ Visited(v, "truncate", ask.conf)
    /\ UNCHANGED <<fileVars, outline, node, stuck, scars, outages>>

\* WriteFile, each from the start of the file: a shorter text leaves the end
\* of one that another request wrote since.
Truncate(v) ==
    /\ visits[v].at = "truncate" /\ Visited(v, "write", visits[v].conf) /\ textile' = Torn
    /\ UNCHANGED <<ipfs, versionFile, base, row, outline, node, stuck, scars, outages>>

WriteFile(v) ==
    LET conf == visits[v].conf
        mixed == textile \in Config /\ Size(textile) > Size(conf)
    IN  /\ visits[v].at = "write" /\ Visited(v, "done", conf)
        /\ textile' = IF mixed THEN Torn ELSE conf
        /\ scars' = scars \cup (IF mixed THEN {"mixed"} ELSE {})
                          \cup (IF conf.owner THEN {} ELSE {"owner"})
        /\ UNCHANGED <<ipfs, versionFile, base, row, outline, node, stuck, outages>>

SetupNext ==
    \/ BeginInit \/ InitIpfsRepo \/ CreateConfig \/ WriteConfig \/ WriteVersion \/ ApplySwarmPorts
    \/ InitTables \/ ConfigureBase \/ AddSelf \/ ApplyOptions
    \/ NewTextile \/ Start \/ StartProfile \/ LoadThreads
    \/ \E found \in BOOLEAN : KeepAccountThread(found)
    \/ RemoveMalformed \/ NoAccountThread \/ AddAccountThread \/ JoinAccountThread
    \/ AnnounceContacts \/ StopNode \/ ProcessEnds
    \/ \E v \in Visitors : PatchConfig(v) \/ SetConfig(v) \/ Truncate(v) \/ WriteFile(v)

SetupSpec == SetupInit /\ [][SetupNext]_setupVars

-----------------------------------------------------------------------------
\* A node starts from its repository, unless InitRepo was cut short, a write of
\* the configuration was cut short or ran into another, or a request took the
\* account out of the configuration: never because a start was cut short, at
\* whatever step, or because of what a version before left.
BootsAgain == stuck => scars \ {"thread"} # {}

\* The IPFS node of one that runs is set up like that of a repository that was
\* made with this profile, whichever the profiles were before, and listens at
\* the ports that InitRepo was told.
ProfileFits ==
    node.at \in {"load", "thread", "add", "join", "tell", "up"} =>
        LET mobile == node.conf.mobile
            server == node.conf.server /\ ~mobile
        IN  ipfs = [InitIpfs(mobile, server) EXCEPT !.swarm = SwarmPorts(outline.ports)]

\* A node that runs has an account thread with the id of the account, a schema
\* and its JOIN, which knows the contacts, unless its creation was cut short.
AccountReady ==
    node.at = "up" /\ scars = {} =>
        /\ row # Absent /\ row.id = "own" /\ row.schema /\ row.joined /\ row.told = Friends
        /\ node.conf.owner /\ base = [tables |-> 2, seed |-> TRUE, self |-> TRUE]

SetupSound == BootsAgain /\ ProfileFits /\ AccountReady
=============================================================================
