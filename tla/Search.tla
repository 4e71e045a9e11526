------------------------------- MODULE Search -------------------------------
(***************************************************************************)
(* A search of a node (core/search.go): the local index first, then every  *)
(* cafe the node has a session with, or the network when it has none, all  *)
(* at once.  The results go through one unbuffered channel per source and  *)
(* a goroutine that copies each to the channel the consumer reads.  The    *)
(* consumer is SyncAccount, or a stream to the API or the mobile app.      *)
(***************************************************************************)
EXTENDS Naturals, Sequences, FiniteSets

CONSTANTS
    Sources,    \* the cafes with a session, or the one pubsub search
    Ids,        \* identifiers of results
    Dates,      \* dates of results, positive
    Plans       \* what may happen in a behaviour: see Plan

Item == [id : Ids, date : Dates]
Nothing == [id |-> "none", date |-> 0]

\* local: what the own index holds; remote: what each source answers, in
\* order; limit: 0 for none; hideOlder: the filter of the query; localOnly: no
\* source is asked (and one that asks only them has an empty index); faulty:
\* the sources that may fail, "local" for the own index; silent: the cafes that
\* after their answers neither go on nor end the stream, which no timer ends;
\* consumer: "sync" reads on after an error, "stream" does not; rude: it may
\* cancel the search.
Plan == [local : SUBSET Item, remote : [Sources -> Seq(Item)], limit : Nat,
         hideOlder : BOOLEAN, localOnly : BOOLEAN,
         faulty : SUBSET (Sources \cup {"local"}), silent : SUBSET Sources,
         consumer : {"sync", "stream"}, rude : BOOLEAN]

ASSUME SearchAssumption ==
    /\ Dates \subseteq Nat \ {0}
    /\ \A p \in Plans : p \in Plan /\ IsFiniteSet(p.local)

VARIABLES
    plan,       \* chosen once: see Plans
    seeker,     \* the goroutine of search
    localLeft,  \* local results that are still to be sent
    found,      \* the result set: the date of each identifier, 0 for none
    reader,     \* the goroutine of each source
    rest,       \* what it has not read yet
    hand,       \* the result it is sending
    copier,     \* what the goroutine behind each channel holds
    quit,       \* the cancel broadcaster is closed
    consumer,   \* "reading", "done" or, after an error, "gone"
    received    \* what the consumer was given

searchVars == <<plan, seeker, localLeft, found, reader, rest, hand, copier, quit,
                consumer, received>>

Channels == Sources \cup {"local"}

SearchTypeOK ==
    /\ plan \in Plans
    /\ seeker \in {"local", "failing", "waiting", "closed"}
    /\ localLeft \subseteq Item
    /\ found \in [Ids -> Dates \cup {0}]
    /\ reader \in [Sources -> {"off", "reading", "sending", "failing", "done"}]
    /\ rest \in [Sources -> Seq(Item)]
    /\ hand \in [Sources -> Item \cup {Nothing}]
    /\ copier \in [Channels -> Item \cup {Nothing}]
    /\ quit \in BOOLEAN
    /\ consumer \in {"reading", "done", "gone"}
    /\ received \subseteq Item

\* queryResultSet.Add for one result.
Accepts(set, i) == ~plan.hideOlder \/ i.date > set[i.id]

\* The result set that searchLocal makes of the own index.
SearchLocal(p) ==
    [x \in Ids |-> LET D == {i.date : i \in {j \in p.local : j.id = x}}
                   IN IF D = {} THEN 0 ELSE CHOOSE d \in D : \A e \in D : e <= d]

\* Full: queryDefaults makes a limit of zero or less as good as none.
Full(set) == plan.limit > 0 /\ Cardinality({x \in Ids : set[x] # 0}) >= plan.limit

SearchInit ==
    /\ plan \in Plans
    /\ seeker = "local"
    /\ found = SearchLocal(plan)
    /\ localLeft = {i \in plan.local : found[i.id] = i.date}
    /\ reader = [s \in Sources |-> "off"]
    /\ rest = plan.remote
    /\ hand = [s \in Sources |-> Nothing]
    /\ copier = [c \in Channels |-> Nothing]
    /\ quit = FALSE /\ consumer = "reading" /\ received = {}

-----------------------------------------------------------------------------
\* The local results are sent first.
LocalSend(i) ==
    /\ seeker = "local" /\ i \in localLeft /\ copier["local"] = Nothing
    /\ localLeft' = localLeft \ {i}
    /\ copier' = [copier EXCEPT !["local"] = i]
    /\ UNCHANGED <<plan, seeker, found, reader, rest, hand, quit, consumer, received>>

\* The own index cannot be read.
LocalFails ==
    /\ seeker = "local" /\ "local" \in plan.faulty
    /\ copier["local"] = Nothing /\ received = {}
    /\ seeker' = "failing" /\ localLeft' = {}
    /\ UNCHANGED <<plan, found, reader, rest, hand, copier, quit, consumer, received>>

\* The end of the local search: the channels are closed when there is enough,
\* otherwise every source is asked.
LocalEnd ==
    /\ seeker = "local" /\ localLeft = {}
    /\ IF plan.localOnly \/ Full(found)
       THEN seeker' = "closed" /\ reader' = reader
       ELSE seeker' = "waiting" /\ reader' = [s \in Sources |-> "reading"]
    /\ UNCHANGED <<plan, localLeft, found, rest, hand, copier, quit, consumer, received>>

\* A source has a result: it is added to the set, which is one for all
\* sources, and sent on if it was added.  cancel.Close ends the others when
\* the set is full.
ReadResult(s) ==
    LET i == Head(rest[s])
        f == IF Accepts(found, i) THEN [found EXCEPT ![i.id] = i.date] ELSE found
    IN  /\ reader[s] = "reading" /\ rest[s] # <<>>
        /\ rest' = [rest EXCEPT ![s] = Tail(@)]
        /\ found' = f
        /\ IF Accepts(found, i)
           THEN /\ reader' = [reader EXCEPT ![s] = "sending"]
                /\ hand' = [hand EXCEPT ![s] = i]
                /\ quit' = quit
           ELSE /\ quit' = (quit \/ Full(f))
                /\ UNCHANGED <<reader, hand>>
        /\ UNCHANGED <<plan, seeker, localLeft, copier, consumer, received>>

SendResult(s) ==
    /\ reader[s] = "sending" /\ copier[s] = Nothing
    /\ copier' = [copier EXCEPT ![s] = hand[s]]
    /\ hand' = [hand EXCEPT ![s] = Nothing]
    /\ reader' = [reader EXCEPT ![s] = "reading"]
    /\ quit' = (quit \/ Full(found))
    /\ UNCHANGED <<plan, seeker, localLeft, found, rest, consumer, received>>

\* The stream of the source ends, or the search was cancelled.
ReadEnd(s) ==
    /\ reader[s] = "reading" /\ ((rest[s] = <<>> /\ s \notin plan.silent) \/ quit)
    /\ reader' = [reader EXCEPT ![s] = "done"]
    /\ UNCHANGED <<plan, seeker, localLeft, found, rest, hand, copier, quit, consumer, received>>

ReadFails(s) ==
    /\ reader[s] = "reading" /\ s \in plan.faulty
    /\ reader' = [reader EXCEPT ![s] = "failing"]
    /\ UNCHANGED <<plan, seeker, localLeft, found, rest, hand, copier, quit, consumer, received>>

\* Mutant: a source that has reported its error goes on.
SourceErrorStays(s) ==
    /\ reader[s] = "failing" /\ consumer = "reading"
    /\ consumer' = IF plan.consumer = "stream" THEN "gone" ELSE consumer
    /\ UNCHANGED <<plan, seeker, localLeft, found, rest, hand, copier, quit, reader, received>>

\* The error channel is unbuffered too; a stream stops reading both channels.
SourceError(s) ==
    /\ reader[s] = "failing" /\ consumer = "reading"
    /\ reader' = [reader EXCEPT ![s] = "done"]
    /\ consumer' = IF plan.consumer = "stream" THEN "gone" ELSE consumer
    /\ UNCHANGED <<plan, seeker, localLeft, found, rest, hand, copier, quit, received>>

LocalError ==
    /\ seeker = "failing" /\ consumer = "reading"
    /\ seeker' = "closed"
    /\ consumer' = IF plan.consumer = "stream" THEN "gone" ELSE consumer
    /\ UNCHANGED <<plan, localLeft, found, reader, rest, hand, copier, quit, received>>

\* wg.Wait, and the channels are closed.
CloseChannels ==
    /\ seeker = "waiting" /\ \A s \in Sources : reader[s] = "done"
    /\ seeker' = "closed"
    /\ UNCHANGED <<plan, localLeft, found, reader, rest, hand, copier, quit, consumer, received>>

\* mergeQueryResults: a copied result is read by the consumer.
Merge(c) ==
    /\ copier[c] # Nothing /\ consumer = "reading"
    /\ copier' = [copier EXCEPT ![c] = Nothing]
    /\ received' = received \cup {copier[c]}
    /\ UNCHANGED <<plan, seeker, localLeft, found, reader, rest, hand, quit, consumer>>

\* The merged channel is closed when every copier has seen its channel closed.
ResultsEnd ==
    /\ consumer = "reading" /\ seeker = "closed"
    /\ \A c \in Channels : copier[c] = Nothing
    /\ consumer' = "done"
    /\ UNCHANGED <<plan, seeker, localLeft, found, reader, rest, hand, copier, quit, received>>

\* maybeSyncAccount, SearchHandle.Cancel, or a client that hangs up.
Cancel ==
    /\ plan.rude /\ consumer = "reading" /\ ~quit
    /\ quit' = TRUE
    /\ UNCHANGED <<plan, seeker, localLeft, found, reader, rest, hand, copier, consumer, received>>

SearchProgress ==
    \/ \E i \in Item : LocalSend(i)
    \/ LocalEnd \/ LocalError \/ CloseChannels \/ ResultsEnd
    \/ \E s \in Sources : ReadResult(s) \/ SendResult(s) \/ ReadEnd(s) \/ SourceError(s)
    \/ \E c \in Channels : Merge(c)

SearchNext ==
    SearchProgress \/ LocalFails \/ Cancel \/ \E s \in Sources : ReadFails(s)

\* The goroutines run; every search is finite, so one condition is enough.
SearchSpec == SearchInit /\ [][SearchNext]_searchVars /\ WF_searchVars(SearchProgress)

-----------------------------------------------------------------------------
\* Whoever reads a search to its end was given, for every result that some
\* source answered and search took, that one or a newer one: no result is
\* left in a channel, and the filter drops only what is older.
NewestArrives ==
    consumer = "done" =>
        \A s \in Sources : \A k \in 1..(Len(plan.remote[s]) - Len(rest[s])) :
            \E r \in received : /\ r.id = plan.remote[s][k].id
                                /\ plan.hideOlder => r.date >= plan.remote[s][k].date

\* A search that no silent cafe holds up ends, and so does every search that
\* is cancelled or has enough: SyncAccount gets to the end of the results
\* whatever fails, a stream at least to its first error.
SearchSettles ==
    plan.silent = {} \/ <>quit =>
        <>(consumer = "done" \/ (consumer = "gone" /\ plan.consumer = "stream"))
=============================================================================
