--------------------------- MODULE MobileRequests ---------------------------
(***************************************************************************)
(* The cafe requests of a phone (mobile/cafes.go over                      *)
(* repo/db/cafe_requests.go).  Its CafeOutboxHandler is the application:   *)
(* it lists groups of requests, has their HTTP bodies written to disk,     *)
(* uploads them in the background, also while the process is gone, and     *)
(* reports what became of them.  Reports of different groups overlap.      *)
(*                                                                         *)
(* The requests of one block are a sync group; the block is posted when    *)
(* they are complete.  A message to an inbox is a sync group of its own.   *)
(***************************************************************************)
EXTENDS Naturals, FiniteSets

CONSTANTS
    ReqGroup,       \* groups of requests, each to one cafe
    Envelope,       \* the groups that carry a message to an inbox
    SyncGroup,      \* what requests are made for: blocks and messages
    SyncOf,         \* the sync group of a group
    MaxSetbacks     \* bound: uploads that are tried again, and kills

ASSUME MobileRequestsAssumption ==
    /\ Envelope \subseteq ReqGroup /\ SyncOf \in [ReqGroup -> SyncGroup]
    /\ \A s \in SyncGroup : \E g \in ReqGroup : SyncOf[g] = s
    /\ MaxSetbacks \in Nat

VARIABLES
    rstatus,    \* the status of the rows of a group, "none" if it has none
    body,       \* the groups whose body is on disk
    payload,    \* of an envelope: "pinned", "loose" or "collected"
    upload,     \* what the application does with a group
    report,     \* its call of Complete- or FailCafeRequest: see Report
    blockSent,  \* the blocks that were posted
    events,     \* CAFE_SYNC_GROUP events of each sync group, and of "" in case
                \* of a status that was read when there were no rows
    early,      \* history: blocks posted while a request was open
    gaveUp,     \* history: groups that were reported failed
    setbacks

rqVars == <<rstatus, body, payload, upload, report, blockSent, events, early, gaveUp,
            setbacks>>

Open == {"new", "pending"}
NoReport == [at |-> "no", kind |-> "none", id |-> "", last |-> FALSE]

\* at: between the writes and reads of the call; id, last: the status that
\* was read, the sync group it is of and whether no request of it is left.
Report == [at : {"no", "updated", "read", "notified"},
           kind : {"none", "complete", "fail"},
           id : SyncGroup \cup {""}, last : BOOLEAN]

RqInit ==
    /\ rstatus = [g \in ReqGroup |-> "new"] /\ body = {}
    /\ payload = [g \in Envelope |-> "pinned"]
    /\ upload = [g \in ReqGroup |-> "idle"]
    /\ report = [g \in ReqGroup |-> NoReport]
    /\ blockSent = {} /\ events = [s \in SyncGroup \cup {""} |-> {}] /\ early = {} /\ gaveUp = {}
    /\ setbacks = 0

Of(s) == {g \in ReqGroup : SyncOf[g] = s}
BlockSync == {s \in SyncGroup : Of(s) \cap Envelope = {}}

-----------------------------------------------------------------------------
(* External: the application                                                 *)

\* CafeRequests lists it, and WriteCafeRequest writes its body; writing the
\* body of an envelope unpins the envelope.
WriteCafeRequest(g) ==
    /\ upload[g] = "idle" /\ report[g].at = "no" /\ rstatus[g] = "new"
    /\ g \in Envelope => payload[g] # "collected"
    /\ body' = body \cup {g}
    /\ payload' = IF g \in Envelope THEN [payload EXCEPT ![g] = "loose"] ELSE payload
    /\ upload' = [upload EXCEPT ![g] = "written"]
    /\ UNCHANGED <<rstatus, report, blockSent, events, early, gaveUp, setbacks>>

\* A writer that finds no data for the body returns an error; the group stays.
WriteBodyFails(g) ==
    /\ upload[g] = "idle" /\ report[g].at = "no" /\ rstatus[g] = "new"
    /\ g \in Envelope /\ payload[g] = "collected"
    /\ setbacks < MaxSetbacks
    /\ setbacks' = setbacks + 1
    /\ UNCHANGED <<rstatus, body, payload, upload, report, blockSent, events, early, gaveUp>>

CafeRequestPending(g) ==
    /\ upload[g] = "written"
    /\ rstatus' = [rstatus EXCEPT ![g] = IF @ = "none" THEN @ ELSE "pending"]
    /\ upload' = [upload EXCEPT ![g] = "sending"]
    /\ UNCHANGED <<body, payload, report, blockSent, events, early, gaveUp, setbacks>>

\* The upload is given up for now.
CafeRequestNotPending(g) ==
    /\ upload[g] = "sending" /\ setbacks < MaxSetbacks
    /\ rstatus' = [rstatus EXCEPT ![g] = IF @ = "none" THEN @ ELSE "new"]
    /\ upload' = [upload EXCEPT ![g] = "idle"]
    /\ setbacks' = setbacks + 1
    /\ UNCHANGED <<body, payload, report, blockSent, events, early, gaveUp>>

\* The upload ends, well or not, and is reported.
UploadEnds(g, kind) ==
    /\ upload[g] = "sending"
    /\ upload' = [upload EXCEPT ![g] = kind]
    /\ UNCHANGED <<rstatus, body, payload, report, blockSent, events, early, gaveUp,
                   setbacks>>

-----------------------------------------------------------------------------
(* Reports                                                                   *)

\* SyncGroupStatus: the rows of the sync group that the rows of the group
\* name; without a row everything is empty, and 0 of 0 are complete.
SyncGroupStatus(g) ==
    IF rstatus[g] = "none" THEN [id |-> "", last |-> TRUE]
    ELSE [id |-> SyncOf[g], last |-> \A h \in Of(SyncOf[g]) : rstatus[h] \notin Open]

ReadStatus(g, kind) ==
    report' = [report EXCEPT ![g] = [at |-> "read", kind |-> kind,
                                     id |-> SyncGroupStatus(g).id,
                                     last |-> SyncGroupStatus(g).last]]

CompleteCafeRequest(g) ==
    /\ upload[g] = "complete" /\ report[g].at = "no"
    /\ rstatus' = [rstatus EXCEPT ![g] = IF @ = "none" THEN @ ELSE "complete"]
    /\ report' = [report EXCEPT ![g].at = "updated"]
    /\ UNCHANGED <<body, payload, upload, blockSent, events, early, gaveUp, setbacks>>

CompleteStatus(g) ==
    /\ report[g].at = "updated"
    /\ ReadStatus(g, "complete")
    /\ UNCHANGED <<rstatus, body, payload, upload, blockSent, events, early, gaveUp, setbacks>>

FailCafeRequest(g) ==
    /\ upload[g] = "fail" /\ report[g].at = "no"
    /\ ReadStatus(g, "fail")
    /\ gaveUp' = gaveUp \cup {g}
    /\ UNCHANGED <<rstatus, body, payload, upload, blockSent, events, early, setbacks>>

Event(g) == IF report[g].kind = "fail" THEN "failed"
            ELSE IF report[g].last THEN "complete" ELSE "update"

\* handleCafeRequestDone: the event; the rows of a failed group are deleted.
NotifyDone(g) ==
    /\ report[g].at = "read"
    /\ events' = [events EXCEPT ![report[g].id] = @ \cup {Event(g)}]
    /\ rstatus' = IF report[g].kind = "fail" THEN [rstatus EXCEPT ![g] = "none"] ELSE rstatus
    /\ report' = [report EXCEPT ![g].at = "notified"]
    /\ UNCHANGED <<body, payload, upload, blockSent, early, gaveUp, setbacks>>

\* Mutant: one complete request is enough.
SyncGroupDoneAny(s) ==
    (\A g \in Of(s) : rstatus[g] = "none") \/ (\E g \in Of(s) : rstatus[g] = "complete")

\* SyncGroupDone: it has no row, or only complete ones.
SyncGroupDone(s) == \A g \in Of(s) : rstatus[g] \notin Open

\* FlushBlocks: the blocks of complete sync groups are posted, and their
\* requests deleted, with those of the sync groups that are cleaned up.
FlushBlocks(blocks, cleaned) ==
    LET ready == {s \in blocks \ blockSent : SyncGroupDone(s)}
    IN  /\ blockSent' = blockSent \cup ready
        /\ rstatus' = [g \in ReqGroup |-> IF SyncOf[g] \in ready \cup cleaned
                                          THEN "none" ELSE rstatus[g]]
        /\ early' = early \cup {s \in ready : \E g \in Of(s) : rstatus[g] \in Open}

\* The pending blocks are released and the body is removed.
ReportReturns(g) ==
    /\ report[g].at = "notified"
    /\ FlushBlocks(BlockSync, {})
    /\ body' = body \ {g}
    /\ report' = [report EXCEPT ![g] = NoReport]
    /\ upload' = [upload EXCEPT ![g] = "over"]
    /\ UNCHANGED <<payload, events, gaveUp, setbacks>>

-----------------------------------------------------------------------------
\* CafeOutbox.Flush, from FlushCafes or runJobs: the blocks, unless they are
\* skipped, then DeleteCompleteSyncGroups.
FlushOutbox(skipBlocks) ==
    /\ FlushBlocks(IF skipBlocks THEN {} ELSE BlockSync,
                   {s \in SyncGroup : SyncGroupDone(s)})
    /\ UNCHANGED <<body, payload, upload, report, events, gaveUp, setbacks>>

\* External: ipfs collects what is not pinned.
CollectGarbage(g) ==
    /\ payload[g] = "loose"
    /\ payload' = [payload EXCEPT ![g] = "collected"]
    /\ UNCHANGED <<rstatus, body, upload, report, blockSent, events, early, gaveUp, setbacks>>

\* The process dies.  The background uploads go on, and reports that did not
\* return are made again.
Kill ==
    /\ setbacks < MaxSetbacks
    /\ setbacks' = setbacks + 1
    /\ report' = [g \in ReqGroup |-> NoReport]
    /\ UNCHANGED <<rstatus, body, payload, upload, blockSent, events, early, gaveUp>>

RqNext ==
    \/ \E g \in ReqGroup :
        \/ WriteCafeRequest(g) \/ WriteBodyFails(g)
        \/ CafeRequestPending(g) \/ CafeRequestNotPending(g)
        \/ \E kind \in {"complete", "fail"} : UploadEnds(g, kind)
        \/ CompleteCafeRequest(g) \/ CompleteStatus(g) \/ FailCafeRequest(g)
        \/ NotifyDone(g) \/ ReportReturns(g)
    \/ \E skipBlocks \in BOOLEAN : FlushOutbox(skipBlocks)
    \/ \E g \in Envelope : CollectGarbage(g)
    \/ Kill

RqSpec == RqInit /\ [][RqNext]_rqVars

-----------------------------------------------------------------------------
RqTypeOK ==
    /\ rstatus \in [ReqGroup -> Open \cup {"none", "complete"}]
    /\ body \subseteq ReqGroup
    /\ payload \in [Envelope -> {"pinned", "loose", "collected"}]
    /\ upload \in [ReqGroup -> {"idle", "written", "sending", "complete", "fail", "over"}]
    /\ report \in [ReqGroup -> Report]
    /\ blockSent \subseteq SyncGroup /\ early \subseteq blockSent /\ gaveUp \subseteq ReqGroup
    /\ events \in [SyncGroup \cup {""} -> SUBSET {"update", "complete", "failed"}]
    /\ setbacks \in 0..MaxSetbacks

\* A block is held back until none of its requests is open.
BlockHeldBack == early = {}

Finished(s) == \A g \in Of(s) : upload[g] = "over"

\* When the last report about a sync group has returned, the application has
\* been told of its end: that it is complete, or that a group of it has
\* failed.  However the reports overlap, one of them sees that nothing is
\* left.  Only an event that names no sync group may stand for the former,
\* when a flush deletes the rows before the status is read.
EndReported == \A s \in SyncGroup :
    Finished(s) => \/ "complete" \in events[s] \cup events[""]
                   \/ \E g \in Of(s) : g \in gaveUp /\ "failed" \in events[s] \cup events[""]

\* ... and the block has been posted, whichever of complete and failed came
\* last.
NotStranded == \A s \in BlockSync : Finished(s) => s \in blockSent

\* A body is on disk only as long as the application needs it.
BodiesGone == \A g \in ReqGroup : upload[g] = "over" => g \notin body

\* A sync group ends once, as a whole: its block is held back until then and
\* posted then, the application is told, and nothing of it is left on disk.
SyncGroupEnds == BlockHeldBack /\ EndReported /\ NotStranded /\ BodiesGone
=============================================================================
