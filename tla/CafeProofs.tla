----------------------------- MODULE CafeProofs -----------------------------
(***************************************************************************)
(* Theorems about what a cafe keeps for its clients: the sessions of a     *)
(* node with a cafe (CafeSession), for any number of goroutines that share *)
(* one, any content and any time; the inboxes (CafeMailbox), for any       *)
(* clients, messages and page sizes; and the rows and the answers of the   *)
(* cafe itself (CafeHost), for any guests, calls and buffers.              *)
(***************************************************************************)
EXTENDS CafeSession, CafeMailbox, CafeHost, FiniteSetTheorems, SequenceTheorems, TLAPS

\* Whoever has a session is a client of the cafe: a handler of a registration
\* that has made one, a call that uses one, and the node that stores one.
Clients ==
    /\ SessionBacked
    /\ \A k \in Attempt : regs[k].at \in {"added", "answered"} => client
    /\ \A w \in Workers :
           at[w] \in {"sent", "denied", "renewed", "resent", "objects"} => client

\* A call sees time advance once at most, a session that was made in a call is
\* as new as the call, and no session is from the future.
InTime ==
    /\ held <= clock /\ newest <= clock
    /\ \A w \in Workers :
           /\ tok[w] <= clock /\ begun[w] <= clock
           /\ at[w] \notin {"idle", "refused"} => clock <= begun[w] + 1
           /\ at[w] \in {"renewed", "resent"} => tok[w] >= begun[w]
           /\ at[w] \in {"challenged", "registering"} =>
                  \A k \in Attempt : regs[k].at \in {"added", "answered"} =>
                                         regs[k].tok >= begun[w]
    /\ \A k \in Attempt : regs[k].tok <= clock

\* Only a store sends objects, and only while the cafe needs some.
ObjectsNeeded ==
    \A w \in Workers : at[w] = "objects" => job[w] = "store" /\ need[w] # {}

\* The nonce of a registration that was answered is gone.
NonceGone == \A k \in Attempt : regs[k].at = "answered" => regNonce \notin nonces

SessInv ==
    /\ SessTypeOK /\ Clients /\ InTime /\ ObjectsNeeded /\ NonceGone
    /\ NotLockedOut /\ RefusedLate /\ StoredIsPinned

-----------------------------------------------------------------------------
\* The types of what a call keeps.
CallTypes ==
    /\ at \in [Workers -> Places]
    /\ job \in [Workers -> Work \cup {"none", "user"}]
    /\ tok \in [Workers -> SessionId \cup {NoSession}]
    /\ begun \in [Workers -> SessionId]
    /\ need \in [Workers -> SUBSET Objects]
RegTypes ==
    /\ regs \in [Attempt -> [at : {"none", "sent", "checked", "added", "answered", "refused"},
                             tok : SessionId \cup {NoSession}]]
    /\ regNonce \in 0..MaxNonce /\ given \in 0..MaxNonce /\ nonces \subseteq 1..MaxNonce
FlagTypes ==
    /\ cafeOpen \in BOOLEAN /\ devToken \in BOOLEAN /\ client \in BOOLEAN
    /\ snapshot \in BOOLEAN /\ indexed \in BOOLEAN
DataTypes ==
    /\ visit \in Visit /\ clock \in SessionId
    /\ pinned \subseteq Objects /\ told \subseteq Objects /\ taken \subseteq Objects
    /\ held \in SessionId \cup {NoSession} /\ newest \in SessionId \cup {NoSession}
    /\ chores \subseteq Work

LEMMA TypeParts == SessTypeOK <=> CallTypes /\ RegTypes /\ FlagTypes /\ DataTypes
  BY DEF SessTypeOK, CallTypes, RegTypes, FlagTypes, DataTypes

LEMMA SessInitOK == SessInit => SessInv
  <1> SUFFICES ASSUME SessInit PROVE SessInv
    OBVIOUS
  <1> USE CafeSessionAssumption DEF SessInit, NoSession, SessionId, NoReg, Attempt
  <1>1. SessTypeOK
    <2>1. visit \in Visit
      OBVIOUS
    <2>2. visit.work \subseteq Work
      BY <2>1 DEF Visit
    <2>3. FlagTypes
      BY DEF FlagTypes
    <2>4. CallTypes /\ RegTypes
      BY DEF CallTypes, RegTypes, Places
    <2>5. DataTypes
      BY <2>1, <2>2 DEF DataTypes
    <2> QED BY <2>3, <2>4, <2>5, TypeParts
  <1>2. Clients /\ InTime /\ ObjectsNeeded /\ NonceGone
    BY DEF Clients, SessionBacked, InTime, ObjectsNeeded, NonceGone
  <1>3. NotLockedOut /\ RefusedLate /\ StoredIsPinned
    BY DEF NotLockedOut, RefusedLate, StoredIsPinned
  <1> QED BY <1>1, <1>2, <1>3 DEF SessInv

\* How the fields of a call change when it moves, goes on or is over.
LEMMA CallMoves ==
    ASSUME CallTypes, NEW w \in Workers
    PROVE  /\ Over(w) => CallTypes'
           /\ \A p \in Places : Go(w, p) => at' \in [Workers -> Places]
  BY CafeSessionAssumption DEF CallTypes, Over, Go, Places, NoSession, SessionId

\* The variables keep their types.
LEMMA CallTypesKept ==
    ASSUME SessTypeOK, [SessNext]_sessVars
    PROVE  CallTypes'
  <1> USE CafeSessionAssumption DEF callSide
  <1>0. /\ CallTypes /\ clock \in SessionId /\ held \in SessionId \cup {NoSession}
        /\ pinned \subseteq Objects
    BY TypeParts DEF DataTypes
  <1>1. ASSUME UNCHANGED <<at, job, tok, begun, need>> PROVE CallTypes'
    BY <1>0, <1>1 DEF CallTypes
  <1>2. ASSUME NEW w \in Workers, NEW p \in Places, Go(w, p),
               job' \in [Workers -> Work \cup {"none", "user"}],
               tok' \in [Workers -> SessionId \cup {NoSession}],
               begun' \in [Workers -> SessionId],
               need' \in [Workers -> SUBSET Objects]
        PROVE  CallTypes'
    BY <1>0, <1>2, CallMoves DEF CallTypes
  <1>3. ASSUME NEW w \in Workers, Challenge(w) PROVE CallTypes'
    <2>1. "challenged" \in Places
      BY DEF Places
    <2> QED BY <1>0, <1>2, <1>3, <2>1 DEF Challenge, CallTypes
  <1>4. ASSUME NEW w \in Workers, NEW k \in Attempt, Answer(w, k) PROVE CallTypes'
    <2>1. "registering" \in Places
      BY DEF Places
    <2> QED BY <1>0, <1>2, <1>4, <2>1 DEF Answer, CallTypes
  <1>5. ASSUME NEW w \in Workers, NEW k \in Attempt, RegisterDone(w, k) PROVE CallTypes'
    BY <1>0, <1>5, CallMoves DEF RegisterDone
  <1>6. ASSUME NEW w \in Workers, DeregisterRequests(w) PROVE CallTypes'
    <2>1. "leaving" \in Places
      BY DEF Places
    <2> QED BY <1>0, <1>2, <1>6, <2>1 DEF DeregisterRequests, CallTypes
  <1>7. ASSUME NEW w \in Workers, DeregisterDelete(w) \/ Refused(w) \/ CallLost(w)
        PROVE  CallTypes'
    BY <1>0, <1>7, CallMoves DEF DeregisterDelete, Refused, CallLost
  <1>8. ASSUME NEW w \in Workers, UserRefresh(w) PROVE CallTypes'
    <2>1. "denied" \in Places
      BY DEF Places
    <2> QED BY <1>0, <1>2, <1>8, <2>1 DEF UserRefresh, CallTypes
  <1>9. ASSUME NEW w \in Workers, NEW j \in Work, SendRequest(w, j) PROVE CallTypes'
    <2>1. "sent" \in Places
      BY DEF Places
    <2> QED BY <1>0, <1>2, <1>9, <2>1 DEF SendRequest, CallTypes
  <1>10. ASSUME NEW w \in Workers, NEW p \in Places, GoOn(w, p),
                need' \in [Workers -> SUBSET Objects]
         PROVE  CallTypes'
    BY <1>0, <1>2, <1>10 DEF GoOn, CallTypes
  <1>11. ASSUME NEW w \in Workers, NEW d, Finish(w, d) PROVE CallTypes'
    BY <1>0, <1>11, CallMoves DEF Finish
  <1>12. /\ {"objects", "refused", "denied", "resent", "renewed"} \subseteq Places
         /\ need \in [Workers -> SUBSET Objects]
    BY <1>0 DEF Places, CallTypes
  <1>13. ASSUME NEW w \in Workers, Handle(w) PROVE CallTypes'
    <2>1. CASE HandleStore(w)
      <3>1. [need EXCEPT ![w] = Objects \ pinned] \in [Workers -> SUBSET Objects]
        BY <1>12
      <3> QED BY <1>10, <1>11, <1>12, <2>1, <3>1 DEF HandleStore
    <2>2. CASE HandleUnstore(w)
      BY <1>11, <2>2 DEF HandleUnstore
    <2>3. CASE HandleClient(w)
      BY <1>10, <1>11, <1>12, <2>3 DEF HandleClient
    <2>4. CASE ~AccessValid(tok[w])
      BY <1>10, <1>12, <1>13, <2>4 DEF Handle
    <2> QED BY <1>13, <2>1, <2>2, <2>3, <2>4 DEF Handle
  <1>14. ASSUME NEW w \in Workers, HandleRefresh(w) PROVE CallTypes'
    <2>1. /\ tok' \in [Workers -> SessionId \cup {NoSession}]
          /\ Go(w, "renewed") \/ Go(w, "refused")
          /\ UNCHANGED <<job, begun, need>>
      BY <1>0, <1>14 DEF HandleRefresh, CallTypes
    <2> QED BY <1>0, <1>2, <1>12, <1>14, <2>1 DEF HandleRefresh, CallTypes
  <1>15. ASSUME NEW w \in Workers, Refreshed(w) PROVE CallTypes'
    BY <1>10, <1>11, <1>12, <1>15 DEF Refreshed
  <1>16. ASSUME NEW w \in Workers, NEW o \in Objects, HandleObject(w, o) PROVE CallTypes'
    <2>1. [need EXCEPT ![w] = @ \ {o}] \in [Workers -> SUBSET Objects]
      BY <1>12
    <2> QED BY <1>10, <1>11, <1>12, <1>16, <2>1 DEF HandleObject
  <1>17. ASSUME NEW k \in Attempt,
                RegisterRefuse(k) \/ RegisterCheck(k) \/ RegisterClient(k) \/ RegisterAnswer(k)
         PROVE  CallTypes'
    BY <1>1, <1>17 DEF RegisterRefuse, RegisterCheck, RegisterClient, RegisterAnswer
  <1>18. ASSUME NEW o \in Objects, OtherUnstores(o) PROVE CallTypes'
    BY <1>1, <1>18 DEF OtherUnstores
  <1>19. CASE Tick \/ CafeCloses \/ RemoveToken \/ UNCHANGED sessVars
    BY <1>1, <1>19 DEF Tick, CafeCloses, RemoveToken, sessVars
  <1> QED BY <1>3, <1>4, <1>5, <1>6, <1>7, <1>8, <1>9, <1>13, <1>14, <1>15, <1>16, <1>17,
             <1>18, <1>19 DEF SessNext, UserCall, Request

\* Which steps write what.
LEMMA Writers ==
    ASSUME [SessNext]_sessVars
    PROVE  /\ \/ UNCHANGED <<regs, regNonce, given, nonces>>
              \/ \E w \in Workers : Challenge(w) \/ \E k \in Attempt : Answer(w, k)
              \/ \E k \in Attempt : \/ RegisterRefuse(k) \/ RegisterCheck(k)
                                    \/ RegisterClient(k) \/ RegisterAnswer(k)
           /\ \/ UNCHANGED <<held, newest>>
              \/ \E w \in Workers : \/ \E k \in Attempt : RegisterDone(w, k)
                                    \/ DeregisterDelete(w) \/ Refreshed(w)
           /\ \/ UNCHANGED <<pinned, told, taken>>
              \/ \E w \in Workers : Handle(w) \/ \E o \in Objects : HandleObject(w, o)
              \/ \E o \in Objects : OtherUnstores(o)
           /\ UNCHANGED clock \/ Tick
           /\ client' = client \/ client' = TRUE
           /\ cafeOpen' = cafeOpen \/ cafeOpen' = FALSE
  <1> USE DEF cafeSide, nodeSide, regSide
  <1> DEFINE regsKept == UNCHANGED <<regs, regNonce, given, nonces>>
             heldKept == UNCHANGED <<held, newest>>
             dataKept == UNCHANGED <<pinned, told, taken>>
             flags == /\ client' = client \/ client' = TRUE
                      /\ cafeOpen' = cafeOpen \/ cafeOpen' = FALSE
  <1>1. ASSUME NEW w \in Workers, Challenge(w)
        PROVE  heldKept /\ dataKept /\ UNCHANGED clock /\ flags
    BY <1>1 DEF Challenge
  <1>2. ASSUME NEW w \in Workers, NEW k \in Attempt, Answer(w, k)
        PROVE  heldKept /\ dataKept /\ UNCHANGED clock /\ flags
    BY <1>2 DEF Answer
  <1>3. ASSUME NEW w \in Workers, NEW k \in Attempt, RegisterDone(w, k)
        PROVE  regsKept /\ dataKept /\ UNCHANGED clock /\ flags
    BY <1>3 DEF RegisterDone
  <1>4. ASSUME NEW w \in Workers, DeregisterRequests(w) \/ UserRefresh(w)
        PROVE  regsKept /\ heldKept /\ dataKept /\ UNCHANGED clock /\ flags
    BY <1>4 DEF DeregisterRequests, UserRefresh
  <1>5. ASSUME NEW w \in Workers, DeregisterDelete(w) \/ Refreshed(w)
        PROVE  regsKept /\ dataKept /\ UNCHANGED clock /\ flags
    BY <1>5 DEF DeregisterDelete, Refreshed
  <1>6. ASSUME NEW w \in Workers, NEW j \in Work, SendRequest(w, j)
        PROVE  regsKept /\ heldKept /\ dataKept /\ UNCHANGED clock /\ flags
    BY <1>6 DEF SendRequest
  <1>7. ASSUME NEW w \in Workers, Handle(w)
        PROVE  regsKept /\ heldKept /\ UNCHANGED clock /\ flags
    BY <1>7 DEF Handle, HandleStore, HandleUnstore, HandleClient
  <1>8. ASSUME NEW w \in Workers, HandleRefresh(w) \/ Refused(w) \/ CallLost(w)
        PROVE  regsKept /\ heldKept /\ dataKept /\ UNCHANGED clock /\ flags
    BY <1>8 DEF HandleRefresh, Refused, CallLost
  <1>9. ASSUME NEW w \in Workers, NEW o \in Objects, HandleObject(w, o)
        PROVE  regsKept /\ heldKept /\ UNCHANGED clock /\ flags
    BY <1>9 DEF HandleObject
  <1>10. ASSUME NEW k \in Attempt,
                RegisterRefuse(k) \/ RegisterCheck(k) \/ RegisterClient(k) \/ RegisterAnswer(k)
         PROVE  heldKept /\ dataKept /\ UNCHANGED clock /\ flags
    BY <1>10 DEF RegisterRefuse, RegisterCheck, RegisterClient, RegisterAnswer
  <1>11. ASSUME NEW o \in Objects, OtherUnstores(o)
         PROVE  regsKept /\ heldKept /\ UNCHANGED clock /\ flags
    BY <1>11 DEF OtherUnstores
  <1>12. CASE Tick
    BY <1>12 DEF Tick
  <1>13. CASE CafeCloses \/ RemoveToken \/ UNCHANGED sessVars
    BY <1>13 DEF CafeCloses, RemoveToken, sessVars
  <1> HIDE DEF regsKept, heldKept, dataKept, flags
  <1>14. regsKept \/ (\E w \in Workers : Challenge(w) \/ \E k \in Attempt : Answer(w, k))
         \/ \E k \in Attempt :
                RegisterRefuse(k) \/ RegisterCheck(k) \/ RegisterClient(k) \/ RegisterAnswer(k)
    BY <1>3, <1>4, <1>5, <1>6, <1>7, <1>8, <1>9, <1>11, <1>12, <1>13
       DEF SessNext, UserCall, Request, regsKept
  <1>15. heldKept \/ \E w \in Workers : \/ \E k \in Attempt : RegisterDone(w, k)
                                        \/ DeregisterDelete(w) \/ Refreshed(w)
    BY <1>1, <1>2, <1>4, <1>6, <1>7, <1>8, <1>9, <1>10, <1>11, <1>12, <1>13
       DEF SessNext, UserCall, Request, heldKept
  <1>16. dataKept \/ (\E w \in Workers : Handle(w) \/ \E o \in Objects : HandleObject(w, o))
         \/ \E o \in Objects : OtherUnstores(o)
    BY <1>1, <1>2, <1>3, <1>4, <1>5, <1>6, <1>8, <1>10, <1>12, <1>13
       DEF SessNext, UserCall, Request, dataKept
  <1>17. (UNCHANGED clock \/ Tick) /\ flags
    BY <1>1, <1>2, <1>3, <1>4, <1>5, <1>6, <1>7, <1>8, <1>9, <1>10, <1>11, <1>12, <1>13
       DEF SessNext, UserCall, Request, flags
  <1> QED BY <1>14, <1>15, <1>16, <1>17 DEF regsKept, heldKept, dataKept, flags

\* The variables keep their types.
LEMMA SessTypes ==
    ASSUME SessTypeOK, [SessNext]_sessVars
    PROVE  SessTypeOK'
  <1> USE CafeSessionAssumption DEF NoSession, SessionId, Attempt, NoReg
  <1>0. CallTypes /\ RegTypes /\ FlagTypes /\ DataTypes
    BY TypeParts
  <1>1. RegTypes'
    <2> USE <1>0 DEF RegTypes
    <2>1. ASSUME NEW w \in Workers, Challenge(w) PROVE RegTypes'
      <3>1. given \in Nat /\ given < MaxNonce /\ given' = given + 1 /\ MaxNonce \in Nat
        BY <2>1 DEF Challenge
      <3>2. given' \in 1..MaxNonce /\ given' \in 0..MaxNonce
        BY <3>1
      <3> QED BY <2>1, <3>2 DEF Challenge
    <2>2. ASSUME NEW w \in Workers, NEW k \in Attempt, Answer(w, k) PROVE RegTypes'
      BY <2>2 DEF Answer, cafeSide
    <2>3. ASSUME NEW k \in Attempt,
                 RegisterRefuse(k) \/ RegisterCheck(k) \/ RegisterClient(k) \/ RegisterAnswer(k)
          PROVE  RegTypes'
      BY <2>3, <1>0
         DEF RegisterRefuse, RegisterCheck, RegisterClient, RegisterAnswer, cafeSide,
            DataTypes
    <2>4. ASSUME UNCHANGED <<regs, regNonce, given, nonces>> PROVE RegTypes'
      BY <2>4
    <2> QED BY <2>1, <2>2, <2>3, <2>4, Writers
  <1>2. FlagTypes'
    <2>1. client' \in BOOLEAN /\ cafeOpen' \in BOOLEAN
      BY <1>0, Writers DEF FlagTypes
    <2>2. CASE UNCHANGED <<snapshot, indexed, devToken>>
      BY <1>0, <2>1, <2>2 DEF FlagTypes
    <2>3. ASSUME NEW w \in Workers, HandleClient(w), UNCHANGED devToken PROVE FlagTypes'
      <3>1. snapshot' \in BOOLEAN
        BY <1>0, <2>3 DEF FlagTypes, HandleClient
      <3>2. indexed' \in BOOLEAN
        BY <1>0, <2>3 DEF FlagTypes, HandleClient
      <3> QED BY <1>0, <2>1, <2>3, <3>1, <3>2 DEF FlagTypes
    <2>4. CASE RemoveToken
      BY <1>0, <2>1, <2>4 DEF FlagTypes, RemoveToken
    <2> QED BY <2>2, <2>3, <2>4 DEF SessNext, UserCall, Request, Challenge, Answer,
         RegisterDone, DeregisterRequests, DeregisterDelete, UserRefresh, SendRequest,
            Handle,
         HandleStore, HandleUnstore, HandleRefresh, Refreshed, Refused, CallLost,
         HandleObject, OtherUnstores, RegisterRefuse, RegisterCheck, RegisterClient,
         RegisterAnswer, Tick, CafeCloses, sessVars, cafeSide
  <1>3. DataTypes'
    <2> USE <1>0 DEF DataTypes
    <2>1. visit' = visit
      BY DEF SessNext, UserCall, Request, Challenge, Answer,
         RegisterDone, DeregisterRequests, DeregisterDelete, UserRefresh, SendRequest,
            Handle,
         HandleRefresh, Refreshed, Refused, CallLost, HandleObject, OtherUnstores,
         RegisterRefuse, RegisterCheck, RegisterClient, RegisterAnswer, Tick, CafeCloses,
         RemoveToken, sessVars
    <2>2. clock' \in SessionId
      <3>1. ASSUME Tick PROVE clock' \in SessionId
        <4>1. clock \in Nat /\ clock < MaxTime /\ clock' = clock + 1 /\ MaxTime \in Nat
          BY <3>1 DEF Tick
        <4> QED BY <4>1
      <3> QED BY <3>1, Writers
    <2>3. pinned' \subseteq Objects /\ told' \subseteq Objects /\ taken' \subseteq Objects
      <3>1. ASSUME NEW w \in Workers, Handle(w)
            PROVE  pinned' \subseteq Objects /\ told' \subseteq Objects /\ taken' = taken
        <4>1. CASE HandleStore(w)
          BY <3>1, <4>1 DEF Handle, HandleStore
        <4>2. CASE HandleUnstore(w)
          BY <3>1, <4>2 DEF Handle, HandleUnstore
        <4>3. CASE HandleClient(w)
          BY <3>1, <4>3 DEF Handle, HandleClient
        <4> QED BY <3>1, <4>1, <4>2, <4>3 DEF Handle
      <3>2. ASSUME NEW w \in Workers, NEW o \in Objects, HandleObject(w, o)
            PROVE  pinned' \subseteq Objects /\ told' \subseteq Objects /\ taken' = taken
        BY <3>2 DEF HandleObject
      <3>3. ASSUME NEW o \in Objects, OtherUnstores(o)
            PROVE  pinned' \subseteq Objects /\ told' = told /\ taken' \subseteq Objects
        BY <3>3 DEF OtherUnstores, nodeSide
      <3> QED BY <3>1, <3>2, <3>3, Writers
    <2>4. held' \in SessionId \cup {NoSession} /\ newest' \in SessionId \cup {NoSession}
      <3>1. ASSUME NEW w \in Workers, NEW k \in Attempt, RegisterDone(w, k)
            PROVE  {held', newest'} \subseteq SessionId \cup {NoSession}
        BY <3>1 DEF RegTypes, RegisterDone, SaveSession
      <3>2. ASSUME NEW w \in Workers, DeregisterDelete(w) \/ Refreshed(w)
            PROVE  {held', newest'} \subseteq SessionId \cup {NoSession}
        BY <3>2 DEF CallTypes, DeregisterDelete, Refreshed, SaveSession
      <3> QED BY <3>1, <3>2, Writers
    <2>5. chores' \subseteq chores
      BY ZenonT(60) DEF SessNext, UserCall, Request, Challenge, Answer,
         RegisterDone, DeregisterRequests, DeregisterDelete, UserRefresh, SendRequest,
            Handle,
         HandleStore, HandleUnstore, HandleClient, Finish, GoOn, HandleRefresh, Refreshed,
         Refused, CallLost, HandleObject, OtherUnstores, RegisterRefuse, RegisterCheck,
         RegisterClient, RegisterAnswer, Tick, CafeCloses, RemoveToken, sessVars, nodeSide
    <2> QED BY <2>1, <2>2, <2>3, <2>4, <2>5
  <1> QED BY <1>1, <1>2, <1>3, CallTypesKept, TypeParts
          DEF CallTypes, RegTypes, FlagTypes, DataTypes, SessTypeOK

-----------------------------------------------------------------------------
\* What a step can do to a call: nothing, end it, begin it, or move it on.
Ends(v) == at'[v] = "idle" /\ tok'[v] = NoSession /\ begun'[v] = 0
Begins(v) ==
    /\ at[v] = "idle" /\ begun'[v] = clock
    /\ \/ /\ at'[v] = "challenged" /\ tok'[v] = tok[v]
          /\ regs' = [k \in Attempt |-> NoReg]
       \/ at'[v] = "leaving" /\ tok'[v] = tok[v]
       \/ at'[v] \in {"denied", "sent"} /\ tok'[v] = held /\ held # NoSession
GoesOn(v) ==
    /\ begun'[v] = begun[v] /\ job'[v] = job[v]
    /\ \/ /\ at[v] = "denied" /\ at'[v] = "renewed" /\ tok'[v] = clock
       \/ /\ tok'[v] = tok[v]
          /\ \/ at[v] \in {"challenged", "registering"} /\ at'[v] = "registering"
             \/ at[v] = "sent" /\ at'[v] = "denied"
             \/ at[v] = "renewed" /\ at'[v] = "resent"
             \/ /\ at[v] = "denied" /\ at'[v] = "refused"
                /\ ~cafeOpen \/ clock > tok[v] + 2
             \/ at[v] = "resent" /\ at'[v] = "refused" /\ clock > tok[v] + 1
             \/ at[v] \in {"sent", "resent"} /\ at'[v] = "refused" /\ ~client
             \/ /\ at[v] \in {"sent", "resent"} /\ at'[v] = "objects"
                /\ job[v] = "store" /\ need'[v] # {}
             \/ at[v] = "objects" /\ at'[v] = "objects" /\ need'[v] # {}
             \/ at[v] = "objects" /\ at'[v] = "refused" /\ need'[v] = need[v]
Stays(v) ==
    /\ at'[v] = at[v] /\ job'[v] = job[v] /\ tok'[v] = tok[v] /\ begun'[v] = begun[v]
    /\ need'[v] = need[v]
Move(v) == Stays(v) \/ Ends(v) \/ Begins(v) \/ GoesOn(v)

LEMMA CallMove ==
    ASSUME SessTypeOK, [SessNext]_sessVars, NEW v \in Workers
    PROVE  Move(v)
  <1>0. CallTypes /\ clock \in Int /\ tok[v] \in Int
    BY CafeSessionAssumption, TypeParts DEF DataTypes, CallTypes, SessionId, NoSession
  <1>1. ASSUME UNCHANGED <<at, job, tok, begun, need>> PROVE Move(v)
    BY <1>1 DEF Move, Stays
  <1>2. ASSUME NEW w \in Workers, Over(w) PROVE Move(v)
    BY <1>0, <1>2 DEF Over, Go, Move, Stays, Ends, CallTypes
  <1>3. ASSUME NEW w \in Workers,
               Challenge(w) \/ DeregisterRequests(w) \/ UserRefresh(w)
                   \/ (\E j \in Work : SendRequest(w, j))
        PROVE  Move(v)
    BY <1>0, <1>3 DEF Challenge, DeregisterRequests, UserRefresh, SendRequest, Go, Move,
       Stays,
       Begins, CallTypes
  <1>4. ASSUME NEW w \in Workers, NEW k \in Attempt, Answer(w, k) PROVE Move(v)
    BY <1>0, <1>4 DEF Answer, Go, Move, Stays, GoesOn, CallTypes
  <1>5. ASSUME NEW w \in Workers,
               \/ DeregisterDelete(w) \/ Refused(w) \/ CallLost(w)
               \/ \E k \in Attempt : RegisterDone(w, k)
        PROVE  Move(v)
    BY <1>2, <1>5 DEF DeregisterDelete, Refused, CallLost, RegisterDone
  <1>6. ASSUME NEW w \in Workers, Handle(w) PROVE Move(v)
    <2>1. CASE HandleStore(w)
      BY <1>0, <1>2, <1>6, <2>1 DEF Handle, HandleStore, Finish, GoOn, Go, Move, Stays,
         GoesOn,
         CallTypes
    <2>2. CASE HandleUnstore(w)
      BY <1>2, <2>2 DEF HandleUnstore, Finish
    <2>3. CASE HandleClient(w)
      BY <1>0, <1>2, <1>6, <2>3 DEF Handle, HandleClient, Finish, GoOn, Go, Move, Stays,
         GoesOn,
         CallTypes
    <2>4. CASE ~AccessValid(tok[w]) /\ GoOn(w, IF at[w] = "sent" THEN "denied" ELSE "refused")
               /\ need' = need
      BY <1>0, <1>6, <2>4 DEF Handle, AccessValid, GoOn, Go, Move, Stays, GoesOn,
         CallTypes
    <2> QED BY <1>6, <2>1, <2>2, <2>3, <2>4 DEF Handle
  <1>7. ASSUME NEW w \in Workers, HandleRefresh(w) PROVE Move(v)
    BY <1>0, <1>7 DEF HandleRefresh, RefreshValid, Go, Move, Stays, GoesOn, CallTypes
  <1>8. ASSUME NEW w \in Workers, Refreshed(w) PROVE Move(v)
    BY <1>0, <1>2, <1>8 DEF Refreshed, Finish, GoOn, Go, Move, Stays, GoesOn, CallTypes
  <1>9. ASSUME NEW w \in Workers, NEW o \in Objects, HandleObject(w, o) PROVE Move(v)
    BY <1>0, <1>2, <1>9 DEF HandleObject, Finish, GoOn, Go, Move, Stays, GoesOn, CallTypes
  <1>10. ASSUME NEW k \in Attempt,
                RegisterRefuse(k) \/ RegisterCheck(k) \/ RegisterClient(k) \/ RegisterAnswer(k)
         PROVE  Move(v)
    BY <1>1, <1>10 DEF RegisterRefuse, RegisterCheck, RegisterClient, RegisterAnswer,
       callSide
  <1>11. ASSUME NEW o \in Objects, OtherUnstores(o) PROVE Move(v)
    BY <1>1, <1>11 DEF OtherUnstores, callSide
  <1>12. CASE Tick \/ CafeCloses \/ RemoveToken \/ UNCHANGED sessVars
    BY <1>1, <1>12 DEF Tick, CafeCloses, RemoveToken, sessVars, callSide
  <1> QED BY <1>3, <1>4, <1>5, <1>6, <1>7, <1>8, <1>9, <1>10, <1>11, <1>12
          DEF SessNext, UserCall, Request

\* A session is made for a client, used by a client and kept by a client.
LEMMA ClientsKept ==
    ASSUME SessInv, [SessNext]_sessVars
    PROVE  Clients'
  <1> DEFINE Calling == {"sent", "denied", "renewed", "resent", "objects"}
             Answered == {"added", "answered"}
  <1>1. (client => client') /\ CallTypes /\ RegTypes
    <2>1. client' = client \/ client' = TRUE
      BY Writers
    <2>2. client => client'
      BY ONLY <2>1
    <2> QED BY <2>2, TypeParts DEF SessInv
  <1>2. held' # NoSession => client'
    <2>1. ASSUME NEW w \in Workers, NEW k \in Attempt, RegisterDone(w, k)
          PROVE  held' # NoSession => client
      BY <2>1 DEF RegisterDone, SaveSession, SessInv, Clients, SessionBacked
    <2>2. ASSUME NEW w \in Workers, DeregisterDelete(w) \/ Refreshed(w)
          PROVE  held' # NoSession => client
      BY <2>2 DEF DeregisterDelete, Refreshed, SaveSession, SessInv, Clients
    <2>3. held # NoSession => client
      BY DEF SessInv, Clients, SessionBacked
    <2> QED BY <1>1, <2>1, <2>2, <2>3, Writers
  <1>3. ASSUME NEW k \in Attempt, regs'[k].at \in Answered PROVE client'
    <2>1. regs[k].at \in Answered => client
      BY DEF SessInv, Clients
    <2>2. ASSUME NEW w \in Workers, Challenge(w) PROVE FALSE
      BY <1>3, <2>2 DEF Challenge, NoReg
    <2>3. ASSUME NEW w \in Workers, NEW m \in Attempt, Answer(w, m)
          PROVE  regs[k].at \in Answered
      BY <1>1, <1>3, <2>3 DEF Answer, RegTypes
    <2>4. ASSUME NEW m \in Attempt, RegisterRefuse(m) \/ RegisterCheck(m) \/ RegisterAnswer(m)
          PROVE  regs[k].at \in Answered
      BY <1>1, <1>3, <2>4 DEF RegisterRefuse, RegisterCheck, RegisterAnswer, RegTypes
    <2>5. ASSUME NEW m \in Attempt, RegisterClient(m) PROVE client'
      BY <2>5 DEF RegisterClient
    <2>6. regs[k].at \in Answered \/ client'
      BY <1>3, <2>2, <2>3, <2>4, <2>5, Writers
    <2> QED BY <1>1, <2>1, <2>6
  <1>4. ASSUME NEW v \in Workers, at'[v] \in Calling PROVE client'
    <2>1. (at[v] \in Calling => client) /\ (held # NoSession => client)
      BY DEF SessInv, Clients, SessionBacked
    <2>2. at[v] \in Calling \/ held # NoSession
      BY <1>4, CallMove DEF SessInv, Move, Stays, Ends, Begins, GoesOn
    <2> QED BY <1>1, <2>1, <2>2
  <1> QED BY <1>2, <1>3, <1>4 DEF Clients, SessionBacked

\* What a step can do to the handler of an attempt to register.
LEMMA RegMove ==
    ASSUME SessTypeOK, [SessNext]_sessVars, NEW k \in Attempt
    PROVE  \/ regs'[k].at = regs[k].at /\ regs'[k].tok = regs[k].tok
           \/ regs'[k].at = "none" /\ regs'[k].tok = NoSession
           \/ regs'[k].at \in {"sent", "refused"} /\ regs'[k].tok = regs[k].tok
           \/ /\ regs[k].at = "sent" /\ regs'[k].at = "checked" /\ regs'[k].tok = regs[k].tok
              /\ regNonce \in nonces
           \/ regs'[k].at = "added" /\ regs'[k].tok = clock
           \/ /\ regs[k].at = "added" /\ regs'[k].at = "answered" /\ regs'[k].tok = regs[k].tok
              /\ nonces' = nonces \ {regNonce} /\ regNonce' = regNonce
  <1>0. RegTypes
    BY TypeParts
  <1>1. ASSUME NEW w \in Workers, Challenge(w)
        PROVE  regs'[k].at = "none" /\ regs'[k].tok = NoSession
    BY <1>1 DEF Challenge, NoReg
  <1>2. ASSUME NEW w \in Workers, NEW m \in Attempt, Answer(w, m)
        PROVE  regs'[k].at \in {regs[k].at, "sent"} /\ regs'[k].tok = regs[k].tok
    BY <1>0, <1>2 DEF Answer, RegTypes
  <1>3. ASSUME NEW m \in Attempt, RegisterRefuse(m)
        PROVE  regs'[k].at \in {regs[k].at, "refused"} /\ regs'[k].tok = regs[k].tok
    BY <1>0, <1>3 DEF RegisterRefuse, RegTypes
  <1>4. ASSUME NEW m \in Attempt, RegisterCheck(m)
        PROVE  /\ regs'[k].tok = regs[k].tok
               /\ \/ regs'[k].at = regs[k].at
                  \/ regs[k].at = "sent" /\ regs'[k].at = "checked" /\ regNonce \in nonces
    BY <1>0, <1>4 DEF RegisterCheck, RegTypes
  <1>5. ASSUME NEW m \in Attempt, RegisterClient(m)
        PROVE  \/ regs'[k].at = regs[k].at /\ regs'[k].tok = regs[k].tok
               \/ regs'[k].at = "added" /\ regs'[k].tok = clock
    BY <1>0, <1>5 DEF RegisterClient, RegTypes
  <1>6. ASSUME NEW m \in Attempt, RegisterAnswer(m)
        PROVE  /\ regs'[k].tok = regs[k].tok
               /\ \/ regs'[k].at = regs[k].at
                  \/ /\ regs[k].at = "added" /\ regs'[k].at = "answered"
                     /\ nonces' = nonces \ {regNonce} /\ regNonce' = regNonce
    BY <1>0, <1>6 DEF RegisterAnswer, RegTypes
  <1> QED BY <1>1, <1>2, <1>3, <1>4, <1>5, <1>6, Writers

\* Numbers for the provers.
LEMMA Times ==
    ASSUME SessTypeOK
    PROVE  /\ clock \in Nat /\ held \in Int /\ newest \in Int
           /\ \A w \in Workers : tok[w] \in Int /\ begun[w] \in Nat
           /\ \A k \in Attempt : regs[k].tok \in Int
  BY CafeSessionAssumption, TypeParts
     DEF DataTypes, CallTypes, RegTypes, SessionId, NoSession

\* Time goes on.
LEMMA ClockForward ==
    ASSUME SessTypeOK, [SessNext]_sessVars
    PROVE  clock' \in Nat /\ clock <= clock'
  <1>1. clock \in Nat
    BY Times
  <1>2. UNCHANGED clock \/ Tick
    BY Writers
  <1>3. UNCHANGED clock \/ clock' = clock + 1
    BY <1>2 DEF Tick
  <1> QED BY <1>1, <1>3

\* Time passes once in a call, and a session made in it is as new as the call.
LEMMA InTimeKept ==
    ASSUME SessInv, [SessNext]_sessVars
    PROVE  InTime'
  <1>0. SessTypeOK /\ InTime
    BY DEF SessInv
  <1>1. /\ clock \in Nat /\ held \in Int /\ newest \in Int
        /\ \A w \in Workers : tok[w] \in Int /\ begun[w] \in Nat
        /\ \A k \in Attempt : regs[k].tok \in Int
    BY <1>0, Times
  <1>2. clock' \in Nat /\ clock <= clock'
    BY ClockForward DEF SessInv
  <1>3. held' <= clock' /\ newest' <= clock'
    <2>1. ASSUME NEW w \in Workers, NEW k \in Attempt, RegisterDone(w, k)
          PROVE  held' <= clock /\ newest' <= clock /\ held' \in Int /\ newest' \in Int
      BY <1>0, <1>1, <2>1 DEF RegisterDone, SaveSession, InTime
    <2>2. ASSUME NEW w \in Workers, DeregisterDelete(w) \/ Refreshed(w)
          PROVE  held' <= clock /\ newest' <= clock /\ held' \in Int /\ newest' \in Int
      BY <1>0, <1>1, <2>2 DEF DeregisterDelete, Refreshed, SaveSession, InTime, NoSession
    <2>3. held' <= clock /\ newest' <= clock /\ held' \in Int /\ newest' \in Int
      BY <1>0, <1>1, <2>1, <2>2, Writers DEF InTime
    <2> QED BY <1>1, <1>2, <2>3
  <1>4. \A k \in Attempt : regs'[k].tok <= clock'
    BY <1>0, <1>1, <1>2, RegMove DEF InTime, NoSession
  <1>5. ASSUME NEW v \in Workers
        PROVE  /\ tok'[v] <= clock' /\ begun'[v] <= clock'
               /\ at'[v] \notin {"idle", "refused"} => clock' <= begun'[v] + 1
               /\ at'[v] \in {"renewed", "resent"} => tok'[v] >= begun'[v]
    <2>1. CASE Tick
      BY <1>0, <1>1, <2>1 DEF Tick, callSide, InTime
    <2>2. CASE UNCHANGED clock
      BY <1>0, <1>1, <2>2, CallMove DEF InTime, Move, Stays, Ends, Begins, GoesOn,
         NoSession
    <2> QED BY <2>1, <2>2, Writers
  <1>6. ASSUME NEW v \in Workers, at'[v] \in {"challenged", "registering"},
               NEW k \in Attempt, regs'[k].at \in {"added", "answered"}
        PROVE  regs'[k].tok >= begun'[v]
    <2>1. \/ regs[k].at \in {"added", "answered"} /\ regs'[k].tok = regs[k].tok
          \/ regs'[k].tok = clock
      BY <1>0, <1>6, RegMove
    <2>2. \/ at[v] \in {"challenged", "registering"} /\ begun'[v] = begun[v]
          \/ regs'[k].at = "none"
      BY <1>0, <1>6, CallMove DEF Move, Stays, Ends, Begins, GoesOn, NoReg
    <2> QED BY <1>0, <1>1, <1>6, <2>1, <2>2 DEF InTime
  <1> QED BY <1>3, <1>4, <1>5, <1>6 DEF InTime

LEMMA ObjectsNeededKept ==
    ASSUME SessInv, [SessNext]_sessVars
    PROVE  ObjectsNeeded'
  BY CallMove DEF SessInv, ObjectsNeeded, Move, Stays, Ends, Begins, GoesOn

\* The handlers of one answer share its nonce, and the first to answer deletes it.
LEMMA NonceGoneKept ==
    ASSUME SessInv, [SessNext]_sessVars
    PROVE  NonceGone'
  <1>1. ASSUME NEW k \in Attempt, regs'[k].at = "answered", regs[k].at # "answered"
        PROVE  regNonce' \notin nonces'
    BY <1>1, RegMove DEF SessInv
  <1>2. ASSUME NEW k \in Attempt, regs'[k].at = "answered", regs[k].at = "answered"
        PROVE  regNonce' \notin nonces'
    <2>1. regNonce \notin nonces
      BY <1>2 DEF SessInv, NonceGone
    <2>2. ASSUME NEW w \in Workers, Challenge(w) PROVE FALSE
      BY <1>2, <2>2 DEF Challenge, NoReg
    <2>3. ASSUME NEW w \in Workers, NEW m \in Attempt, Answer(w, m)
          PROVE  UNCHANGED <<nonces, regNonce>>
      BY <2>3 DEF Answer, cafeSide
    <2>4. ASSUME NEW m \in Attempt,
                 RegisterRefuse(m) \/ RegisterCheck(m) \/ RegisterClient(m) \/ RegisterAnswer(m)
          PROVE  UNCHANGED regNonce /\ nonces' \subseteq nonces
      BY <2>4 DEF RegisterRefuse, RegisterCheck, RegisterClient, RegisterAnswer, cafeSide
    <2>5. UNCHANGED regNonce /\ nonces' \subseteq nonces
      <3>1. ASSUME UNCHANGED <<regs, regNonce, given, nonces>>
            PROVE  UNCHANGED regNonce /\ nonces' \subseteq nonces
        BY <3>1
      <3> QED BY <2>2, <2>3, <2>4, <3>1, Writers
    <2> QED BY <2>1, <2>5
  <1> QED BY <1>1, <1>2 DEF NonceGone

\* A session that is stored was made in the call that stores it, so that the
\* newest one is not more than one duration ahead.
LEMMA NotLockedOutKept ==
    ASSUME SessInv, [SessNext]_sessVars
    PROVE  NotLockedOut'
  <1>1. /\ clock \in Nat /\ held \in Int /\ newest \in Int
        /\ \A w \in Workers : tok[w] \in Int /\ begun[w] \in Nat
        /\ \A k \in Attempt : regs[k].tok \in Int
    BY Times DEF SessInv
  <1>2. ASSUME NEW t \in Int, t <= clock, clock <= t + 1, SaveSession(t)
        PROVE  newest' <= held' + 1
    BY <1>1, <1>2 DEF SaveSession, SessInv, InTime
  <1>3. ASSUME NEW w \in Workers, NEW k \in Attempt, RegisterDone(w, k)
        PROVE  NotLockedOut'
    <2>1. CASE regs[k].at = "answered"
      <3>1. regs[k].tok <= clock /\ clock <= regs[k].tok + 1
        BY <1>1, <1>3, <2>1 DEF RegisterDone, SessInv, InTime
      <3> QED BY <1>1, <1>2, <1>3, <2>1, <3>1 DEF RegisterDone, NotLockedOut
    <2>2. CASE regs[k].at # "answered"
      BY <1>3, <2>2 DEF RegisterDone, NotLockedOut, SessInv
    <2> QED BY <2>1, <2>2
  <1>4. ASSUME NEW w \in Workers, Refreshed(w) PROVE NotLockedOut'
    <2>1. tok[w] <= clock /\ clock <= tok[w] + 1
      BY <1>1, <1>4 DEF Refreshed, SessInv, InTime
    <2> QED BY <1>1, <1>2, <1>4, <2>1 DEF Refreshed, NotLockedOut
  <1>5. ASSUME NEW w \in Workers, DeregisterDelete(w) PROVE NotLockedOut'
    BY <1>5 DEF DeregisterDelete, NotLockedOut
  <1>6. ASSUME UNCHANGED <<held, newest>> PROVE NotLockedOut'
    BY <1>6 DEF NotLockedOut, SessInv
  <1> QED BY <1>3, <1>4, <1>5, <1>6, Writers

\* One retry is enough, since its token is as new as the call.
LEMMA RefusedLateKept ==
    ASSUME SessInv, [SessNext]_sessVars
    PROVE  RefusedLate'
  <1>1. /\ clock \in Nat /\ \A w \in Workers : tok[w] \in Int /\ begun[w] \in Nat
    BY Times DEF SessInv
  <1>2. clock' \in Nat /\ clock <= clock'
    BY ClockForward DEF SessInv
  <1>3. ~cafeOpen => ~cafeOpen'
    <2>1. cafeOpen' = cafeOpen \/ cafeOpen' = FALSE
      BY Writers
    <2> QED BY ONLY <2>1
  <1>4. ASSUME NEW v \in Workers, at'[v] = "refused"
        PROVE  ~cafeOpen' \/ clock' > tok'[v] + 2 \/ (job'[v] = "store" /\ need'[v] # {})
    <2>1. CASE Stays(v)
      BY <1>1, <1>2, <1>3, <1>4, <2>1 DEF Stays, SessInv, RefusedLate
    <2>2. CASE GoesOn(v)
      <3>1. tok'[v] = tok[v] /\ job'[v] = job[v]
        BY <1>4, <2>2 DEF GoesOn
      <3>2. \/ ~cafeOpen \/ clock > tok[v] + 2
            \/ at[v] = "objects" /\ need'[v] = need[v]
            \/ at[v] = "resent" /\ clock > tok[v] + 1
            \/ at[v] \in {"sent", "resent"} /\ ~client
        BY <1>4, <2>2 DEF GoesOn
      <3>3. ~(at[v] = "resent" /\ clock > tok[v] + 1)
        BY <1>1 DEF SessInv, InTime
      <3>4. ~(at[v] \in {"sent", "resent"} /\ ~client)
        BY DEF SessInv, Clients
      <3>5. at[v] = "objects" => job[v] = "store" /\ need[v] # {}
        BY DEF SessInv, ObjectsNeeded
      <3> QED BY <1>1, <1>2, <1>3, <3>1, <3>2, <3>3, <3>4, <3>5
    <2> QED BY <1>4, <2>1, <2>2, CallMove DEF SessInv, Move, Ends, Begins
  <1> QED BY <1>4 DEF RefusedLate

\* What is unpinned is either not called stored any more or taken by another.
LEMMA StoredKept ==
    ASSUME SessInv, [SessNext]_sessVars
    PROVE  StoredIsPinned'
  <1> USE DEF SessInv, StoredIsPinned
  <1>0. told \subseteq Objects
    BY TypeParts DEF DataTypes
  <1>1. ASSUME NEW w \in Workers, Handle(w) PROVE StoredIsPinned'
    <2>1. CASE HandleStore(w)
      BY <1>1, <2>1 DEF Handle, HandleStore
    <2>2. CASE HandleUnstore(w)
      BY <1>0, <1>1, <2>2 DEF Handle, HandleUnstore
    <2>3. CASE HandleClient(w)
      BY <1>1, <2>3 DEF Handle, HandleClient
    <2> QED BY <1>1, <2>1, <2>2, <2>3 DEF Handle
  <1>2. ASSUME NEW w \in Workers, NEW o \in Objects, HandleObject(w, o) PROVE StoredIsPinned'
    BY <1>2 DEF HandleObject
  <1>3. ASSUME NEW o \in Objects, OtherUnstores(o) PROVE StoredIsPinned'
    BY <1>3 DEF OtherUnstores, nodeSide
  <1> QED BY <1>1, <1>2, <1>3, Writers

-----------------------------------------------------------------------------
\* However the user, the flush of the outbox and the check of the inbox share
\* and refresh the session of a cafe, and however attempts to register overlap
\* (core/cafes.go, core/cafe_service.go).
THEOREM SessInvariant == SessSpec => []SessInv
  <1>1. SessInv /\ [SessNext]_sessVars => SessInv'
    BY SessTypes, ClientsKept, InTimeKept, ObjectsNeededKept, NonceGoneKept,
       NotLockedOutKept, RefusedLateKept, StoredKept DEF SessInv
  <1> QED BY SessInitOK, <1>1, PTL DEF SessSpec

\* A session that a node holds can be used or refreshed, the cafe knows its
\* client, one retry is enough, and what the cafe said it stored is pinned
\* (sendCafeRequest, handleRegistration, handleStore).
THEOREM SessionAlwaysGood == SessSpec => []SessionGood
  <1>1. SessInv => SessionGood
    BY DEF SessInv, SessionGood, Clients
  <1> QED BY SessInvariant, <1>1, PTL

\* An attempt to register reads its nonce before any other has answered with a
\* session for it (handleRegistration).
THEOREM NonceAlwaysUsedUp == SessSpec => NonceUsedUp
  <1>1. SessInv /\ [SessNext]_sessVars =>
            [\A k \in Attempt : regs[k].at = "sent" /\ regs'[k].at = "checked" =>
                \A m \in Attempt : regs[m].at # "answered"]_sessVars
    <2> SUFFICES ASSUME SessInv, [SessNext]_sessVars, NEW k \in Attempt,
                        regs[k].at = "sent", regs'[k].at = "checked"
                 PROVE  \A m \in Attempt : regs[m].at # "answered"
      OBVIOUS
    <2>1. regNonce \in nonces
      BY RegMove DEF SessInv
    <2> QED BY <2>1 DEF SessInv, NonceGone
  <1> QED BY SessInvariant, <1>1, PTL DEF SessSpec, NonceUsedUp
-----------------------------------------------------------------------------
(* The mailbox at the cafe (CafeMailbox). *)

\* No message is sent to two clients; DeleteByClient deletes by message.
NotShared ==
    \A m \in Msg : \A c, d \in Client : c \in Dest[m] /\ d \in Dest[m] => c = d

Done(c) == handled[c] \cup dropped[c]

Addressed == \A c \in Client : \A m \in box[c] : c \in Dest[m]

\* A client that checks alone deletes the page it was given, and by then every
\* message of it has a row, or was handled or given up.
PageOf(c) ==
    \A k \in Check :
        /\ pc[c][k] = "listed" => listing[c][k] = Oldest(c)
        /\ pc[c][k] # "listed" => listing[c][k] = {}
        /\ pc[c][k] = "delete" => Oldest(c) \subseteq InboxRows(c) \cup Done(c)
PageHeld == \A c \in Client : PageOf(c)

OneCheck == \A c \in Client : \A k, l \in Checking(c) : k = l

\* What an inbox goroutine works on has its row still, unless another one is done.
WorkOf(c) == \A w \in working[c] : w[1] \in InboxRows(c) \cup Done(c)
WorkKnown == \A c \in Client : WorkOf(c)

QuietInv == MailTypeOK /\ Addressed /\ PageHeld /\ OneCheck /\ WorkKnown

LEMMA OldestRows == \A c : Oldest(c) \subseteq box[c]
  BY DEF Oldest

\* The rows of a client stay in the order of their dates: a delivery makes its
\* message the newest, a delete leaves the others as they are.
LEMMA OrderKept ==
    ASSUME NEW R, NEW r, DateOrder(R, r)
    PROVE  /\ \A S \in SUBSET R : DateOrder(S, r \cap (S \X S))
           /\ \A m : DateOrder(R \cup {m}, (r \cap ((R \ {m}) \X (R \ {m}))) \cup ((R \ {m}) \X {m}))
  BY DEF DateOrder

\* The order of dates survives a delivery and a delete of anybody
\* (handleDeliverMessage, DeleteByClient).
THEOREM MailTypesHold == MailSpec => []MailTypeOK
  <1> USE CafeMailboxAssumption
  <1>1. MailInit => MailTypeOK
    BY DEF MailInit, MailTypeOK, DateOrder, AtRest, NoRow
  <1>2. ASSUME MailTypeOK, [MailNext]_mailVars PROVE MailTypeOK'
    <2> USE <1>2 DEF MailTypeOK
    <2>1. CASE UNCHANGED mailVars
      BY <2>1 DEF mailVars, cafe, checks, local
    <2>2. ASSUME NEW c \in Client, DeletePage(c)
          PROVE  /\ box' \in [Client -> SUBSET Msg] /\ before' \in [Client -> SUBSET (Msg \X Msg)]
                 /\ \A d \in Client : DateOrder(box'[d], before'[d])
      <3>1. \A d \in Client : /\ box'[d] = box[d] \ Oldest(c)
                              /\ before'[d] = before[d] \cap (box'[d] \X box'[d])
        BY <2>2 DEF DeletePage
      <3>2. ASSUME NEW d \in Client PROVE DateOrder(box'[d], before'[d])
        <4>1. DateOrder(box[d], before[d]) /\ box'[d] \in SUBSET box[d]
          BY <3>1
        <4>2. DateOrder(box'[d], before[d] \cap (box'[d] \X box'[d]))
          BY ONLY <4>1, OrderKept
        <4> QED BY <3>1, <4>2
      <3> QED BY <2>2, <3>2 DEF DeletePage
    <2>3. ASSUME NEW c \in Client, NEW m \in Msg, Deliver(c, m) PROVE MailTypeOK'
      <3>1. \A d \in Client \ {c} : box'[d] = box[d] /\ before'[d] = before[d]
        BY <2>3 DEF Deliver
      <3>2. /\ box'[c] = box[c] \cup {m}
            /\ before'[c] = (before[c] \cap ((box[c] \ {m}) \X (box[c] \ {m})))
                                \cup ((box[c] \ {m}) \X {m})
        BY <2>3 DEF Deliver
      <3>3. ASSUME NEW d \in Client PROVE DateOrder(box'[d], before'[d])
        <4>1. DateOrder(box[d], before[d])
          OBVIOUS
        <4>2. CASE d = c
          <5>1. DateOrder(box[c] \cup {m}, (before[c] \cap ((box[c] \ {m}) \X (box[c] \ {m})))
                                              \cup ((box[c] \ {m}) \X {m}))
            BY ONLY <4>1, <4>2, OrderKept
          <5> QED BY ONLY <3>2, <4>2, <5>1
        <4> QED BY <3>1, <4>1, <4>2
      <3>4. box' \in [Client -> SUBSET Msg] /\ before' \in [Client -> SUBSET (Msg \X Msg)]
        BY <2>3 DEF Deliver
      <3>5. sent' \in [Client -> [Msg -> 0 .. MaxDeliver]]
        BY <2>3 DEF Deliver
      <3> QED BY <2>3, <3>3, <3>4, <3>5 DEF Deliver, checks, local
    <2>4. ASSUME NEW c \in Client, NEW k \in Check, CheckStep(c, k) PROVE MailTypeOK'
      <3>1. CASE StartCheck(c, k)
        BY <3>1 DEF StartCheck, local
      <3>2. CASE List(c, k)
        BY <3>2, OldestRows DEF List, cafe, local
      <3>3. CASE SavePage(c, k)
        BY <3>3 DEF SavePage, cafe, AtRest, NoRow
      <3>4. CASE Delete(c, k)
        BY <2>2, <3>4 DEF Delete, local, AtRest
      <3>5. CASE DeleteRetried(c, k)
        BY <2>2, <3>5 DEF DeleteRetried, checks, local
      <3>6. CASE RequestFails(c, k)
        BY <2>2, <3>6 DEF RequestFails, local, AtRest
      <3> QED BY <2>4, <3>1, <3>2, <3>3, <3>4, <3>5, <3>6 DEF CheckStep
    <2>5. ASSUME NEW c \in Client, FlushInbox(c) PROVE MailTypeOK'
      <3>1. inbox[c] \in [Msg -> 0 .. MailAttempts] /\ MailAttempts \in Nat
        OBVIOUS
      <3>2. \A m \in InboxRows(c) : inbox[c][m] \in 0 .. MailAttempts - 1
        BY ONLY <3>1 DEF InboxRows, NoRow
      <3> QED BY <2>5, <3>2 DEF FlushInbox, cafe, checks, InboxRows
    <2>6. ASSUME NEW c \in Client, NEW w \in Msg \X (0 .. MailAttempts - 1),
                 HandleMsg(c, w) \/ HandleErr(c, w)
          PROVE  MailTypeOK'
      <3>1. \A a \in 0 .. MailAttempts : AddAttempt(a) \in 0 .. MailAttempts
        BY DEF AddAttempt
      <3>2. w[1] \in Msg /\ MailAttempts \in Nat
        OBVIOUS
      <3>3. /\ inbox \in [Client -> [Msg -> 0 .. MailAttempts]]
            /\ handled \in [Client -> SUBSET Msg] /\ dropped \in [Client -> SUBSET Msg]
            /\ working \in [Client -> SUBSET (Msg \X (0 .. MailAttempts - 1))]
        OBVIOUS
      <3>4. inbox' \in [Client -> [Msg -> 0 .. MailAttempts]]
        <4> DEFINE Row(a) == [inbox EXCEPT ![c][w[1]] = a]
        <4>1. ASSUME NEW a \in 0 .. MailAttempts
              PROVE  Row(a) \in [Client -> [Msg -> 0 .. MailAttempts]]
          BY ONLY <3>2, <3>3, <4>1
        <4>2. NoRow \in 0 .. MailAttempts /\ AddAttempt(inbox[c][w[1]]) \in 0 .. MailAttempts
          BY ONLY <3>1, <3>2, <3>3, c \in Client DEF NoRow
        <4>3. inbox' \in {inbox, Row(NoRow), Row(AddAttempt(inbox[c][w[1]]))}
          BY ONLY <2>6 DEF HandleMsg, HandleErr
        <4> HIDE DEF Row
        <4> QED BY ONLY <3>3, <4>1, <4>2, <4>3
      <3>5. working' \in [Client -> SUBSET (Msg \X (0 .. MailAttempts - 1))]
        <4>1. working' = [working EXCEPT ![c] = @ \ {w}]
          BY ONLY <2>6 DEF HandleMsg, HandleErr
        <4> QED BY ONLY <3>3, <4>1
      <3>6. handled' \in [Client -> SUBSET Msg]
        <4>1. handled' \in {handled, [handled EXCEPT ![c] = @ \cup {w[1]}]}
          BY ONLY <2>6 DEF HandleMsg, HandleErr
        <4> QED BY ONLY <3>2, <3>3, <4>1
      <3>7. dropped' \in [Client -> SUBSET Msg]
        <4>1. dropped' \in {dropped, [dropped EXCEPT ![c] = @ \cup {w[1]}]}
          BY ONLY <2>6 DEF HandleMsg, HandleErr
        <4> QED BY ONLY <3>2, <3>3, <4>1
      <3> QED BY <2>6, <3>4, <3>5, <3>6, <3>7 DEF HandleMsg, HandleErr, cafe, checks
    <2>7. ASSUME NEW c \in Client, ClientCrash(c) PROVE MailTypeOK'
      BY <2>7 DEF ClientCrash, cafe, AtRest
    <2> QED BY <1>2, <2>1, <2>3, <2>4, <2>5, <2>6, <2>7 DEF MailNext, InboxStep
  <1> QED BY <1>1, <1>2, PTL DEF MailSpec

LEMMA WaitingIs ==
    ASSUME NEW c, NEW m
    PROVE  /\ m \in Waiting(c) <=> \/ m \in box[c] \/ m \in InboxRows(c)
                                  \/ \E k \in Check : m \in listing[c][k]
           /\ m \in Waiting(c)' <=> \/ m \in box'[c] \/ m \in InboxRows(c)'
                                   \/ \E k \in Check : m \in listing'[c][k]
  <1> DEFINE U == UNION {listing[c][k] : k \in Check}
             V == UNION {listing'[c][k] : k \in Check}
  <1>1. /\ m \in U <=> \E k \in Check : m \in listing[c][k]
        /\ m \in V <=> \E k \in Check : m \in listing'[c][k]
    OBVIOUS
  <1>2. Waiting(c) = box[c] \cup InboxRows(c) \cup U
    BY DEF Waiting
  <1>3. Waiting(c)' = box'[c] \cup InboxRows(c)' \cup V
    BY DEF Waiting
  <1> HIDE DEF U, V
  <1> QED BY <1>1, <1>2, <1>3

\* What a step on the rows of one client is to the mailbox.
LEMMA MailboxStep ==
    ASSUME NEW c \in Client,
           \A d \in Client \ {c} : Waiting(d)' = Waiting(d) /\ Done(d)' = Done(d),
           \/ \E m \in Msg : Waiting(c)' = Waiting(c) \cup {m} /\ Done(c)' = Done(c)
           \/ \E m \in Msg : /\ m \in Waiting(c) \cup Done(c)
                             /\ Done(c)' = Done(c) \cup {m}
                             /\ Waiting(c)' \in {Waiting(c), Waiting(c) \ {m}}
           \/ Done(c)' = Done(c) /\ Waiting(c)' \ Done(c) = Waiting(c) \ Done(c)
    PROVE  Abstract!Next
  <1> DEFINE W == [d \in Client |-> Waiting(d)]
             D == [d \in Client |-> handled[d] \cup dropped[d]]
  <1>1. ASSUME NEW S PROVE Waiting(c)' = S => W' = [W EXCEPT ![c] = S]
    OBVIOUS
  <1>2. ASSUME NEW S PROVE Done(c)' = S => D' = [D EXCEPT ![c] = S]
    BY DEF Done
  <1>3. Done(c)' = Done(c) => D' = D
    BY DEF Done
  <1>4. Waiting(c)' = Waiting(c) => W' = W
    OBVIOUS
  <1>5. W[c] = Waiting(c) /\ D[c] = Done(c)
    BY DEF Done
  <1>6. ASSUME NEW m \in Msg, Waiting(c)' = Waiting(c) \cup {m}, Done(c)' = Done(c)
        PROVE  Abstract!Accept(c, m)
    BY <1>1, <1>3, <1>5, <1>6 DEF Abstract!Accept
  <1>7. ASSUME NEW m \in Msg, m \in Waiting(c) \cup Done(c), Done(c)' = Done(c) \cup {m}
        PROVE  /\ Waiting(c)' = Waiting(c) => Abstract!Again(c, m)
               /\ Waiting(c)' = Waiting(c) \ {m} => Abstract!Close(c, m)
    BY <1>1, <1>2, <1>4, <1>5, <1>7 DEF Abstract!Again, Abstract!Close
  <1>8. ASSUME Done(c)' = Done(c), Waiting(c)' \ Done(c) = Waiting(c) \ Done(c)
        PROVE  Abstract!Copies(c)
    <2> DEFINE S == Waiting(c)' \cap Done(c)
    <2>1. W' = [W EXCEPT ![c] = (W[c] \ D[c]) \cup S] /\ S \in SUBSET D[c]
      BY <1>1, <1>5, <1>8
    <2>2. D' = D
      BY <1>3, <1>8
    <2> QED BY <2>1, <2>2 DEF Abstract!Copies
  <1> QED BY <1>6, <1>7, <1>8 DEF Abstract!Next

LEMMA OneAtATime ==
    ASSUME NEW S \in SUBSET Check, Cardinality(S) <= 1
    PROVE  \A k, l \in S : k = l
  <1>1. IsFiniteSet({}) /\ Cardinality({}) = 0
    BY FS_EmptySet
  <1>2. IsFiniteSet({"tick"}) /\ Cardinality({"tick"}) = 1
    BY <1>1, FS_AddElement, {} \cup {"tick"} = {"tick"}
  <1>3. Cardinality({"tick", "mail"}) = 2
    BY <1>2, FS_AddElement, {"tick"} \cup {"mail"} = {"tick", "mail"}
  <1>4. S # {"tick", "mail"}
    BY <1>3
  <1> QED BY <1>4 DEF Check

\* What the steps of a quiet mailbox leave to show.
QuietGoal == Addressed' /\ PageHeld' /\ OneCheck' /\ WorkKnown' /\ [Abstract!Next]_(Abstract!mvars)

LEMMA QuietOne ==
    ASSUME MailTypeOK', QuietMail
    PROVE  OneCheck'
  <1> SUFFICES ASSUME NEW c \in Client PROVE \A k, l \in Checking(c)' : k = l
    BY DEF OneCheck
  <1>1. Checking(c)' \in SUBSET Check /\ Cardinality(Checking(c)') <= 1
    BY DEF QuietMail, Checking
  <1> QED BY <1>1, OneAtATime

\* A page is deleted of a client whose messages no other client has.
LEMMA PageDeleted ==
    ASSUME NotShared, MailTypeOK, Addressed, NEW c \in Client, DeletePage(c)
    PROVE  /\ Addressed'
           /\ box'[c] = box[c] \ Oldest(c)
           /\ \A d \in Client \ {c} : box'[d] = box[d] /\ before'[d] = before[d]
  <1>1. \A d \in Client : /\ box'[d] = box[d] \ Oldest(c)
                          /\ before'[d] = before[d] \cap (box'[d] \X box'[d])
    BY DEF DeletePage
  <1>2. ASSUME NEW d \in Client \ {c} PROVE box'[d] = box[d] /\ before'[d] = before[d]
    <2>1. \A m \in Oldest(c) : m \in Msg /\ c \in Dest[m]
      BY OldestRows DEF Addressed, MailTypeOK
    <2>2. box[d] \cap Oldest(c) = {}
      BY <2>1 DEF Addressed, NotShared
    <2>3. box'[d] = box[d]
      BY <1>1, <2>2
    <2>4. before[d] \subseteq box[d] \X box[d]
      BY DEF MailTypeOK, DateOrder
    <2>5. before'[d] = before[d] \cap (box[d] \X box[d])
      BY <1>1, <2>3
    <2>6. before'[d] = before[d]
      BY <2>4, <2>5
    <2> QED BY <2>3, <2>6
  <1> QED BY <1>1, <1>2 DEF Addressed

\* The page of a client whose rows stay.
LEMMA PageSame ==
    ASSUME NEW d \in Client, box'[d] = box[d], before'[d] = before[d]
    PROVE  Oldest(d)' = Oldest(d)
  BY DEF Oldest

\* A step of one client leaves the others as they are.
LEMMA Elsewhere ==
    ASSUME QuietInv, MailTypeOK', QuietMail, NEW c \in Client,
           \A d \in Client \ {c} :
               /\ box'[d] = box[d] /\ before'[d] = before[d]
               /\ pc'[d] = pc[d] /\ listing'[d] = listing[d] /\ inbox'[d] = inbox[d]
               /\ working'[d] = working[d] /\ handled'[d] = handled[d] /\ dropped'[d] = dropped[d],
           Addressed', PageOf(c)', WorkOf(c)',
           \/ \E m \in Msg : Waiting(c)' = Waiting(c) \cup {m} /\ Done(c)' = Done(c)
           \/ \E m \in Msg : /\ m \in Waiting(c) \cup Done(c)
                             /\ Done(c)' = Done(c) \cup {m}
                             /\ Waiting(c)' \in {Waiting(c), Waiting(c) \ {m}}
           \/ Done(c)' = Done(c) /\ Waiting(c)' \ Done(c) = Waiting(c) \ Done(c)
    PROVE  QuietGoal
  <1>1. ASSUME NEW d \in Client \ {c}
        PROVE  Done(d)' = Done(d) /\ Waiting(d)' = Waiting(d) /\ InboxRows(d)' = InboxRows(d)
    BY DEF Done, Waiting, InboxRows
  <1>2. Abstract!Next
    BY <1>1, MailboxStep
  <1>3. ASSUME NEW d \in Client \ {c} PROVE PageOf(d)' /\ WorkOf(d)'
    <2>1. Oldest(d)' = Oldest(d)
      BY PageSame
    <2>2. PageOf(d) /\ WorkOf(d)
      BY DEF QuietInv, PageHeld, WorkKnown
    <2> QED BY <1>1, <2>1, <2>2 DEF PageOf, WorkOf
  <1> QED BY <1>2, <1>3, QuietOne DEF QuietGoal, PageHeld, WorkKnown

LEMMA QuietDeliver ==
    ASSUME QuietInv, MailTypeOK', QuietMail, NEW c \in Client, NEW m \in Msg, Deliver(c, m)
    PROVE  QuietGoal
  <1> USE CafeMailboxAssumption
  <1>1. \A d \in Client \ {c} : box'[d] = box[d] /\ before'[d] = before[d]
    BY DEF Deliver, QuietInv, MailTypeOK
  <1>2. box'[c] = box[c] \cup {m}
    BY DEF Deliver, QuietInv, MailTypeOK
  <1>3. UNCHANGED <<pc, listing, inbox, working, handled, dropped>>
    BY DEF Deliver, checks, local
  <1>4. sent'[c] # sent[c]
    <2>1. sent'[c][m] = sent[c][m] + 1 /\ sent[c][m] \in Nat
      BY DEF Deliver, QuietInv, MailTypeOK
    <2> QED BY <2>1
  <1>5. \A k \in Check : pc[c][k] = AtRest
    BY <1>4 DEF QuietMail, Checking
  <1>6. PageOf(c)'
    BY <1>3, <1>5 DEF PageOf, QuietInv, PageHeld, AtRest
  <1>7. WorkOf(c)'
    BY <1>3 DEF WorkOf, QuietInv, WorkKnown, InboxRows, Done
  <1>8. Addressed'
    BY <1>1, <1>2 DEF Addressed, QuietInv, Deliver
  <1>9. Waiting(c)' = Waiting(c) \cup {m} /\ Done(c)' = Done(c)
    BY <1>2, <1>3 DEF Waiting, Done, InboxRows
  <1> QED BY <1>1, <1>3, <1>6, <1>7, <1>8, <1>9, Elsewhere

LEMMA QuietAsk ==
    ASSUME QuietInv, MailTypeOK', QuietMail, NEW c \in Client, NEW k \in Check,
           StartCheck(c, k) \/ List(c, k)
    PROVE  QuietGoal
  <1>1. UNCHANGED <<box, before, inbox, working, handled, dropped>>
    BY DEF StartCheck, List, cafe, local
  <1>2. \A d \in Client \ {c} : pc'[d] = pc[d] /\ listing'[d] = listing[d]
    BY DEF StartCheck, List, QuietInv, MailTypeOK
  <1>3. PageOf(c)
    BY DEF QuietInv, PageHeld
  <1>4. Oldest(c)' = Oldest(c)
    BY <1>1, PageSame
  <1>5. \A l \in Check \ {k} : pc'[c][l] = pc[c][l] /\ listing'[c][l] = listing[c][l]
    BY DEF StartCheck, List, QuietInv, MailTypeOK
  <1>6. \/ pc'[c][k] = "ask" /\ listing'[c][k] = listing[c][k] /\ pc[c][k] = AtRest
        \/ pc'[c][k] = "listed" /\ listing'[c][k] = Oldest(c) /\ pc[c][k] = "ask"
    BY DEF StartCheck, List, QuietInv, MailTypeOK
  <1>7. InboxRows(c)' = InboxRows(c) /\ Done(c)' = Done(c)
    BY <1>1 DEF InboxRows, Done
  <1>8. PageOf(c)'
    BY <1>3, <1>4, <1>5, <1>6, <1>7 DEF PageOf, AtRest
  <1>9. WorkOf(c)' /\ Addressed'
    BY <1>1, <1>7 DEF WorkOf, QuietInv, WorkKnown, Addressed
  <1>10. Waiting(c)' = Waiting(c)
    <2>1. \A m : m \in Waiting(c)' <=> m \in Waiting(c)
      BY <1>1, <1>3, <1>5, <1>6, <1>7, WaitingIs, OldestRows DEF PageOf, AtRest
    <2> QED BY <2>1
  <1> QED BY <1>1, <1>2, <1>7, <1>8, <1>9, <1>10, Elsewhere

LEMMA QuietSave ==
    ASSUME QuietInv, MailTypeOK', QuietMail, NEW c \in Client, NEW k \in Check, SavePage(c, k)
    PROVE  QuietGoal
  <1>1. UNCHANGED <<box, before, working, handled, dropped>>
    BY DEF SavePage, cafe
  <1>2. \A d \in Client \ {c} :
            pc'[d] = pc[d] /\ listing'[d] = listing[d] /\ inbox'[d] = inbox[d]
    BY DEF SavePage, QuietInv, MailTypeOK
  <1>3. PageOf(c) /\ WorkOf(c)
    BY DEF QuietInv, PageHeld, WorkKnown
  <1>4. Oldest(c)' = Oldest(c) /\ Done(c)' = Done(c)
    BY <1>1, PageSame DEF Done
  <1>5. \A l \in Check \ {k} : pc'[c][l] = pc[c][l] /\ listing'[c][l] = listing[c][l]
    BY DEF SavePage, QuietInv, MailTypeOK
  <1>6. /\ pc[c][k] = "listed" /\ pc'[c][k] \in {AtRest, "delete"} /\ listing'[c][k] = {}
        /\ listing[c][k] = Oldest(c) /\ listing[c][k] \subseteq Msg
    BY <1>3 DEF SavePage, QuietInv, MailTypeOK, PageOf
  <1>7. InboxRows(c)' = InboxRows(c) \cup listing[c][k]
    <2>1. inbox'[c] = [m \in Msg |-> IF m \in listing[c][k] /\ inbox[c][m] = NoRow
                                     THEN 0 ELSE inbox[c][m]]
      BY DEF SavePage, QuietInv, MailTypeOK
    <2>2. NoRow # 0
      BY CafeMailboxAssumption DEF NoRow
    <2>3. \A m \in Msg : inbox'[c][m] # NoRow <=> m \in listing[c][k] \/ inbox[c][m] # NoRow
      BY <2>1, <2>2
    <2>4. InboxRows(c)' = {m \in Msg : inbox'[c][m] # NoRow}
      BY DEF InboxRows, NoRow
    <2> QED BY <1>6, <2>3, <2>4 DEF InboxRows
  <1>8. PageOf(c)'
    BY <1>3, <1>4, <1>5, <1>6, <1>7 DEF PageOf, AtRest
  <1>9. WorkOf(c)' /\ Addressed'
    BY <1>1, <1>3, <1>4, <1>7 DEF WorkOf, QuietInv, Addressed
  <1>10. Waiting(c)' = Waiting(c)
    <2>1. \A m : m \in Waiting(c)' <=> m \in Waiting(c)
      BY <1>1, <1>5, <1>6, <1>7, WaitingIs
    <2> QED BY <2>1
  <1> QED BY <1>1, <1>2, <1>4, <1>8, <1>9, <1>10, Elsewhere

\* The page goes when its messages have rows, or an answer is lost and the check
\* ends; what was listed then is at the cafe still.
LEMMA QuietDelete ==
    ASSUME NotShared, QuietInv, MailTypeOK', QuietMail, NEW c \in Client, NEW k \in Check,
           Delete(c, k) \/ DeleteRetried(c, k) \/ RequestFails(c, k)
    PROVE  QuietGoal
  <1>1. UNCHANGED <<inbox, working, handled, dropped>>
    BY DEF Delete, DeleteRetried, RequestFails, local
  <1>2. MailTypeOK /\ Addressed /\ PageOf(c) /\ WorkOf(c)
    BY DEF QuietInv, PageHeld, WorkKnown
  <1>3. InboxRows(c)' = InboxRows(c) /\ Done(c)' = Done(c)
    BY <1>1 DEF InboxRows, Done
  <1>4. /\ Addressed'
        /\ \A d \in Client \ {c} : box'[d] = box[d] /\ before'[d] = before[d]
        /\ \/ box'[c] = box[c]
           \/ pc[c][k] = "delete" /\ box'[c] = box[c] \ Oldest(c)
    <2>1. CASE DeletePage(c) /\ pc[c][k] = "delete"
      BY <1>2, <2>1, PageDeleted
    <2>2. CASE UNCHANGED <<box, before>>
      <3>1. Addressed'
        BY <1>2, <2>2 DEF Addressed
      <3>2. box' = box /\ before' = before
        BY <2>2
      <3> QED BY <3>1, <3>2
    <2> QED BY <2>1, <2>2 DEF Delete, DeleteRetried, RequestFails
  <1>5. \A d \in Client \ {c} : pc'[d] = pc[d] /\ listing'[d] = listing[d]
    BY DEF Delete, DeleteRetried, RequestFails, checks, QuietInv, MailTypeOK
  <1>6. \A l \in Check \ {k} : pc'[c][l] = pc[c][l] /\ listing'[c][l] = listing[c][l]
    BY DEF Delete, DeleteRetried, RequestFails, checks, QuietInv, MailTypeOK
  <1>7. pc[c][k] \in {"ask", "listed", "delete"}
    BY DEF Delete, DeleteRetried, RequestFails
  <1>8. \A l \in Check \ {k} : pc[c][l] = AtRest
    BY <1>7 DEF QuietInv, OneCheck, Checking, AtRest
  <1>9. /\ pc'[c][k] \in {"ask", AtRest, "delete"} /\ listing'[c][k] = {}
        /\ pc'[c][k] = "delete" => pc[c][k] = "delete" /\ DeletePage(c)
    <2>1. CASE Delete(c, k)
      <3>1. pc[c][k] = "delete" /\ DeletePage(c) /\ listing' = listing
        BY <2>1 DEF Delete
      <3>2. pc'[c][k] = IF box'[c] # {} THEN "ask" ELSE AtRest
        BY <1>2, <2>1 DEF Delete, MailTypeOK
      <3>3. listing[c][k] = {}
        BY <1>2, <3>1 DEF PageOf
      <3> QED BY <3>1, <3>2, <3>3
    <2>2. CASE DeleteRetried(c, k)
      BY <1>2, <2>2 DEF DeleteRetried, checks, MailTypeOK, PageOf, AtRest
    <2>3. CASE RequestFails(c, k)
      BY <1>2, <2>3 DEF RequestFails, MailTypeOK, AtRest
    <2> QED BY <2>1, <2>2, <2>3
  <1>10. ASSUME pc'[c][k] = "delete" PROVE Oldest(c)' \subseteq Oldest(c)
    <2>1. CASE box'[c] = box[c]
      <3>1. before'[c] = before[c] \cap (box[c] \X box[c])
        BY <1>9, <1>10, <2>1 DEF DeletePage
      <3>2. before[c] \subseteq box[c] \X box[c]
        BY <1>2 DEF MailTypeOK, DateOrder
      <3> QED BY <2>1, <3>1, <3>2, PageSame
    <2>2. CASE box'[c] # box[c]
      <3>1. box'[c] = {}
        BY <1>9, <1>10, <2>2 DEF QuietMail
      <3> QED BY <3>1 DEF Oldest
    <2> QED BY <2>1, <2>2
  <1>11. PageOf(c)'
    BY <1>2, <1>3, <1>6, <1>8, <1>9, <1>10 DEF PageOf, AtRest
  <1>12. WorkOf(c)'
    BY <1>1, <1>2, <1>3 DEF WorkOf
  <1>13. Waiting(c)' \ Done(c) = Waiting(c) \ Done(c)
    <2>1. Oldest(c) \subseteq box[c]
      BY OldestRows
    <2>2. \A l \in Check \ {k} : listing[c][l] = {} /\ listing'[c][l] = {}
      BY <1>2, <1>6, <1>8 DEF PageOf, AtRest
    <2>3. ASSUME NEW m \in listing[c][k] PROVE m \in box'[c]
      BY <1>2, <1>4, <2>1, <2>3 DEF PageOf
    <2>4. \A m : m \in Oldest(c) /\ m \notin box'[c] => m \in InboxRows(c) \cup Done(c)
      BY <1>2, <1>4, <2>1 DEF PageOf
    <2>5. ASSUME NEW m, m \notin Done(c) PROVE m \in Waiting(c)' <=> m \in Waiting(c)
      BY <1>3, <1>4, <1>9, <2>1, <2>2, <2>3, <2>4, <2>5, WaitingIs
    <2> QED BY <2>5
  <1> QED BY <1>1, <1>3, <1>4, <1>5, <1>11, <1>12, <1>13, Elsewhere

LEMMA QuietCrash ==
    ASSUME QuietInv, MailTypeOK', QuietMail, NEW c \in Client, ClientCrash(c)
    PROVE  QuietGoal
  <1>1. UNCHANGED <<box, before, inbox, handled, dropped>>
    BY DEF ClientCrash, cafe
  <1>2. \A d \in Client \ {c} :
            pc'[d] = pc[d] /\ listing'[d] = listing[d] /\ working'[d] = working[d]
    BY DEF ClientCrash, QuietInv, MailTypeOK
  <1>3. working'[c] = {} /\ \A k \in Check : pc'[c][k] = AtRest /\ listing'[c][k] = {}
    BY DEF ClientCrash, QuietInv, MailTypeOK
  <1>4. InboxRows(c)' = InboxRows(c) /\ Done(c)' = Done(c)
    BY <1>1 DEF InboxRows, Done
  <1>5. PageOf(c)' /\ WorkOf(c)' /\ Addressed'
    BY <1>1, <1>3 DEF PageOf, WorkOf, AtRest, QuietInv, Addressed
  <1>6. Waiting(c)' = Waiting(c)
    <2>1. \A k \in Check : listing[c][k] \subseteq box[c]
      BY OldestRows DEF QuietInv, PageHeld, PageOf
    <2>2. \A m : m \in Waiting(c)' <=> m \in Waiting(c)
      BY <1>1, <1>3, <1>4, <2>1, WaitingIs
    <2> QED BY <2>2
  <1> QED BY <1>1, <1>2, <1>4, <1>5, <1>6, Elsewhere

LEMMA QuietFlush ==
    ASSUME QuietInv, MailTypeOK', QuietMail, NEW c \in Client, FlushInbox(c)
    PROVE  QuietGoal
  <1>1. UNCHANGED <<box, before, pc, listing, inbox, handled, dropped>>
    BY DEF FlushInbox, cafe, checks
  <1>2. \A d \in Client \ {c} : working'[d] = working[d]
    BY DEF FlushInbox, QuietInv, MailTypeOK
  <1>3. MailTypeOK /\ Addressed /\ PageOf(c) /\ WorkOf(c)
    BY DEF QuietInv, PageHeld, WorkKnown
  <1>4. Oldest(c)' = Oldest(c) /\ Addressed'
    BY <1>1, <1>3, PageSame DEF Addressed
  <1>5. InboxRows(c)' = InboxRows(c) /\ Done(c)' = Done(c) /\ Waiting(c)' = Waiting(c)
    BY <1>1 DEF InboxRows, Done, Waiting
  <1>6. working'[c] = working[c] \cup {<<m, inbox[c][m]>> : m \in InboxRows(c)}
    BY <1>3 DEF FlushInbox, MailTypeOK
  <1>7. WorkOf(c)'
    BY <1>3, <1>5, <1>6 DEF WorkOf
  <1>8. PageOf(c)'
    BY <1>1, <1>3, <1>4, <1>5 DEF PageOf
  <1> QED BY <1>1, <1>2, <1>4, <1>5, <1>7, <1>8, Elsewhere

LEMMA QuietHandle ==
    ASSUME QuietInv, MailTypeOK', QuietMail, NEW c \in Client,
           NEW w \in Msg \X (0 .. MailAttempts - 1), HandleMsg(c, w) \/ HandleErr(c, w)
    PROVE  QuietGoal
  <1>1. UNCHANGED <<box, before, pc, listing>>
    BY DEF HandleMsg, HandleErr, cafe, checks
  <1>2. \A d \in Client \ {c} : /\ inbox'[d] = inbox[d] /\ working'[d] = working[d]
                               /\ handled'[d] = handled[d] /\ dropped'[d] = dropped[d]
    BY DEF HandleMsg, HandleErr, QuietInv, MailTypeOK
  <1>3. MailTypeOK /\ Addressed /\ PageOf(c) /\ WorkOf(c)
    BY DEF QuietInv, PageHeld, WorkKnown
  <1>4. Oldest(c)' = Oldest(c) /\ Addressed'
    BY <1>1, <1>3, PageSame DEF Addressed
  \* A row goes when its message is done.
  <1>5. /\ w \in working[c] /\ working'[c] \subseteq working[c]
        /\ \/ InboxRows(c)' = InboxRows(c) /\ Done(c)' = Done(c)
           \/ /\ Done(c)' = Done(c) \cup {w[1]}
              /\ InboxRows(c)' \in {InboxRows(c), InboxRows(c) \ {w[1]}}
    <2> DEFINE i == w[1]
    <2>3. inbox[c] \in [Msg -> 0 .. MailAttempts] /\ MailAttempts \in Nat \ {0}
      BY <1>3, CafeMailboxAssumption DEF MailTypeOK
    <2>4. ASSUME NEW a \in 0 .. MailAttempts - 1 PROVE AddAttempt(a) # NoRow
      BY ONLY <2>3, <2>4 DEF AddAttempt, NoRow
    <2>5. AddAttempt(NoRow) = NoRow
      BY ONLY <2>3 DEF AddAttempt, NoRow
    <2>6. i \in Msg
      OBVIOUS
    <2>7. ASSUME inbox'[c] = [inbox[c] EXCEPT ![i] = NoRow] PROVE InboxRows(c)' = InboxRows(c) \ {i}
      BY <2>3, <2>6, <2>7 DEF InboxRows, NoRow
    <2>8. ASSUME inbox'[c] = [inbox[c] EXCEPT ![i] = AddAttempt(@)]
          PROVE  InboxRows(c)' = InboxRows(c)
      <3>1. AddAttempt(inbox[c][i]) = NoRow <=> inbox[c][i] = NoRow
        <4>1. inbox[c][i] \in 0 .. MailAttempts - 1 \/ inbox[c][i] = NoRow
          BY <2>3, <2>6 DEF NoRow
        <4> QED BY <2>4, <2>5, <4>1
      <3>2. \A m \in Msg : inbox'[c][m] = NoRow <=> inbox[c][m] = NoRow
        BY <2>3, <2>6, <2>8, <3>1
      <3> HIDE DEF i
      <3> QED BY <3>2 DEF InboxRows, NoRow
    <2>9. CASE HandleMsg(c, w)
      <3>1. /\ w \in working[c] /\ working'[c] = working[c] \ {w}
            /\ handled'[c] = handled[c] \cup {i} /\ dropped'[c] = dropped[c]
            /\ inbox'[c] = [inbox[c] EXCEPT ![i] = NoRow] \/ inbox'[c] = inbox[c]
        BY <1>3, <2>9 DEF HandleMsg, MailTypeOK
      <3>2. Done(c)' = Done(c) \cup {i}
        BY <3>1 DEF Done
      <3>3. inbox'[c] = inbox[c] => InboxRows(c)' = InboxRows(c)
        BY DEF InboxRows, NoRow
      <3> QED BY <2>7, <3>1, <3>2, <3>3
    <2>10. CASE HandleErr(c, w)
      <3>1. /\ w \in working[c] /\ working'[c] = working[c] \ {w} /\ handled'[c] = handled[c]
            /\ \/ /\ inbox'[c] = [inbox[c] EXCEPT ![i] = NoRow]
                  /\ dropped'[c] = dropped[c] \cup {i}
               \/ /\ inbox'[c] = [inbox[c] EXCEPT ![i] = AddAttempt(@)]
                  /\ dropped'[c] = dropped[c]
        BY <1>3, <2>10 DEF HandleErr, MailTypeOK
      <3>2. \/ Done(c)' = Done(c) \cup {i} /\ dropped'[c] = dropped[c] \cup {i}
            \/ Done(c)' = Done(c) /\ dropped'[c] = dropped[c]
        BY <3>1 DEF Done
      <3>3. CASE /\ inbox'[c] = [inbox[c] EXCEPT ![i] = NoRow]
                 /\ dropped'[c] = dropped[c] \cup {i}
        <4>1. Done(c)' = Done(c) \cup {i}
          BY <3>1, <3>3 DEF Done
        <4> QED BY <2>7, <3>1, <3>3, <4>1
      <3>4. CASE /\ inbox'[c] = [inbox[c] EXCEPT ![i] = AddAttempt(@)]
                 /\ dropped'[c] = dropped[c]
        <4>1. Done(c)' = Done(c)
          BY <3>1, <3>4 DEF Done
        <4> QED BY <2>8, <3>1, <3>4, <4>1
      <3> QED BY <3>1, <3>3, <3>4
    <2> QED BY <2>9, <2>10
  <1>6. WorkOf(c)'
    BY <1>3, <1>5 DEF WorkOf
  <1>7. PageOf(c)'
    BY <1>1, <1>3, <1>4, <1>5 DEF PageOf
  <1>8. w[1] \in Msg /\ w[1] \in InboxRows(c) \cup Done(c)
    BY <1>3, <1>5 DEF WorkOf
  <1>9. \/ Done(c)' = Done(c) /\ Waiting(c)' = Waiting(c)
        \/ /\ w[1] \in Waiting(c) \cup Done(c) /\ Done(c)' = Done(c) \cup {w[1]}
           /\ Waiting(c)' \in {Waiting(c), Waiting(c) \ {w[1]}}
    <2>1. ASSUME InboxRows(c)' = InboxRows(c) PROVE Waiting(c)' = Waiting(c)
      BY <1>1, <2>1 DEF Waiting
    <2>2. ASSUME InboxRows(c)' = InboxRows(c) \ {w[1]}
          PROVE  Waiting(c)' \in {Waiting(c), Waiting(c) \ {w[1]}}
      <3>1. CASE w[1] \in Waiting(c)'
        <4>1. \A m : m \in Waiting(c)' <=> m \in Waiting(c)
          BY <1>1, <2>2, <3>1, WaitingIs
        <4> QED BY <4>1
      <3>2. CASE w[1] \notin Waiting(c)'
        <4>1. \A m : m \in Waiting(c)' <=> m \in Waiting(c) /\ m # w[1]
          BY <1>1, <2>2, <3>2, WaitingIs
        <4> QED BY <4>1
      <3> QED BY <3>1, <3>2
    <2>3. InboxRows(c) \subseteq Waiting(c)
      BY DEF Waiting
    <2> QED BY <1>5, <1>8, <2>1, <2>2, <2>3
  <1> QED BY <1>1, <1>2, <1>4, <1>6, <1>7, <1>8, <1>9, Elsewhere

\* With no delivery between a check and its delete, one check at a time and no
\* message of two clients, the cafe and its clients keep the promise of an
\* inbox: a message waits until it was handled or given up, whatever requests
\* fail and wherever a client crashes (CheckMessages, DeleteMessages, Flush).
THEOREM InboxImplementsMailbox ==
    ASSUME NotShared
    PROVE  MailSpec /\ [][QuietMail]_mailVars => ImplementsMailbox
  <1>1. MailInit => QuietInv /\ Abstract!Init
    <2> SUFFICES ASSUME MailInit PROVE QuietInv /\ Abstract!Init
      OBVIOUS
    <2>1. Addressed /\ PageHeld /\ OneCheck /\ WorkKnown
      BY DEF MailInit, Addressed, PageHeld, PageOf, OneCheck, Checking, WorkKnown, WorkOf, AtRest
    <2>2. ASSUME NEW c \in Client PROVE Waiting(c) = {} /\ handled[c] \cup dropped[c] = {}
      <3>1. InboxRows(c) = {}
        BY DEF MailInit, InboxRows
      <3>2. \A m : m \notin Waiting(c)
        BY <3>1, WaitingIs DEF MailInit
      <3> QED BY <3>2 DEF MailInit
    <2>3. Abstract!Init
      BY <2>2 DEF Abstract!Init
    <2>4. MailTypeOK
      BY CafeMailboxAssumption DEF MailInit, MailTypeOK, DateOrder, AtRest, NoRow
    <2> QED BY <2>1, <2>3, <2>4 DEF QuietInv
  <1>2. ASSUME QuietInv, MailTypeOK', [MailNext]_mailVars, [QuietMail]_mailVars
        PROVE  QuietInv' /\ [Abstract!Next]_(Abstract!mvars)
    <2>1. ASSUME QuietGoal PROVE QuietInv' /\ [Abstract!Next]_(Abstract!mvars)
      BY <1>2, <2>1 DEF QuietGoal, QuietInv
    <2>2. CASE UNCHANGED mailVars
      <3>1. QuietInv'
        <4>1. UNCHANGED <<box, before, pc, listing, inbox, working, handled, dropped>>
          BY <2>2 DEF mailVars, cafe, checks, local
        <4>2. \A c : /\ InboxRows(c)' = InboxRows(c) /\ Done(c)' = Done(c)
                    /\ Checking(c)' = Checking(c) /\ Oldest(c)' = Oldest(c)
          BY <4>1 DEF InboxRows, Done, Checking, Oldest
        <4>3. PageHeld' /\ OneCheck' /\ WorkKnown'
          BY <1>2, <4>1, <4>2 DEF QuietInv, PageHeld, PageOf, OneCheck, WorkKnown, WorkOf
        <4> QED BY <1>2, <4>1, <4>3 DEF QuietInv, Addressed
      <3>2. \A c : Waiting(c)' = Waiting(c)
        BY <2>2 DEF mailVars, cafe, checks, local, Waiting, InboxRows
      <3>3. UNCHANGED Abstract!mvars
        BY <2>2, <3>2 DEF mailVars, local, Abstract!mvars
      <3> QED BY <3>1, <3>3
    <2>3. ASSUME QuietMail, NEW c \in Client, NEW k \in Check, CheckStep(c, k) PROVE QuietGoal
      BY <1>2, <2>3, QuietAsk, QuietSave, QuietDelete DEF CheckStep
    <2>4. ASSUME QuietMail, NEW c \in Client, InboxStep(c) PROVE QuietGoal
      BY <1>2, <2>4, QuietFlush, QuietHandle DEF InboxStep
    <2> QED BY <1>2, <2>1, <2>2, <2>3, <2>4, QuietDeliver, QuietCrash DEF MailNext
  <1> QED BY <1>1, <1>2, MailTypesHold, PTL DEF MailSpec, ImplementsMailbox, Abstract!Spec

-----------------------------------------------------------------------------
(* The side of the cafe (CafeHost).                                          *)

\* What a call may ask for, by its kind.
LEMMA CallsFit ==
    ASSUME HostTypeOK, NEW c \in Calls
    PROVE  /\ plot[c] \in AnyCall /\ KindOf(c) \in CallKinds
           /\ By(c) \in Guests \cup {"admin"} /\ plot[c].to \in Guests
           /\ plot[c].shelf \in Shelves
           /\ plot[c].dev.id \in TokenIds /\ plot[c].dev.secret \in Secrets \cup {"hash"}
           /\ plot[c].parts \in Seq(Parts \cup {"bad", "dir"})
           /\ KindOf(c) \notin {"create", "validate", "remove", "off"} => By(c) \in Guests
           /\ KindOf(c) # "pin" => "dir" \notin ToSet(plot[c].parts)
           /\ KindOf(c) = "unstore" => plot[c].parts # <<>>
           /\ KindOf(c) = plot[c].kind /\ By(c) = plot[c].by
  <1>1. plot[c] \in Call
    BY CafeHostAssumption DEF HostTypeOK, Plot
  <1>2. plot[c] \in AnyCall
    BY <1>1 DEF Call
  <1>3. /\ plot[c].kind \in CallKinds /\ plot[c].by \in Guests \cup {"admin"}
        /\ plot[c].to \in Guests /\ plot[c].shelf \in Shelves
        /\ plot[c].dev \in [id : TokenIds, secret : Secrets \cup {"hash"}]
        /\ plot[c].parts \in Seq(Parts \cup {"bad", "dir"})
    BY <1>2 DEF AnyCall
  <1> QED BY <1>1, <1>2, <1>3 DEF Call, KindOf, By

Status == {0, 200, 201, 204, 400, 401, 403, 500}

\* A session that is opened is the latest of its guest.
LEMMA SessionOpens ==
    ASSUME HostTypeOK, NEW g \in Guests, NewSession(g)
    PROVE  /\ issued' \in Seq([subject : Guests, at : 0..MaxHour])
           /\ purse' \in [Guests -> Seq(DOMAIN issued')]
           /\ DOMAIN issued' = DOMAIN issued \cup {Len(issued) + 1}
           /\ \A n \in DOMAIN issued : issued'[n] = issued[n]
           /\ issued'[Len(issued) + 1].subject = g
  <1> DEFINE S == [subject : Guests, at : 0..MaxHour]
             s == [subject |-> g, at |-> hour]
  <1>1. issued \in Seq(S) /\ s \in S /\ issued' = Append(issued, s)
    BY DEF HostTypeOK, NewSession
  <1> HIDE DEF S
  <1>2. /\ issued' \in Seq(S) /\ Len(issued') = Len(issued) + 1
        /\ DOMAIN issued = 1..Len(issued) /\ DOMAIN issued' = 1..Len(issued')
        /\ \A n \in 1..Len(issued) : issued'[n] = issued[n]
        /\ issued'[Len(issued) + 1] = s
    BY <1>1
  <1>3. Len(issued) \in Nat
    BY <1>1
  <1>4. DOMAIN issued' = DOMAIN issued \cup {Len(issued) + 1}
    BY <1>2, <1>3
  <1>5. \A h \in Guests : purse[h] \in Seq(DOMAIN issued')
    <2> TAKE h \in Guests
    <2>1. purse[h] \in Seq(DOMAIN issued)
      BY DEF HostTypeOK
    <2> QED BY <2>1, <1>4
  <1>6. Append(purse[g], Len(issued')) \in Seq(DOMAIN issued')
    BY <1>5, <1>2, <1>3, <1>4
  <1>7. purse' = [purse EXCEPT ![g] = Append(@, Len(issued'))] /\ purse \in [Guests -> Seq(DOMAIN issued)]
    BY DEF NewSession, HostTypeOK
  <1>8. purse' \in [Guests -> Seq(DOMAIN issued')]
    BY <1>5, <1>6, <1>7
  <1> QED BY <1>2, <1>4, <1>8 DEF S


\* A handler goes on, or answers.
LEMMA MovesFit ==
    ASSUME stage \in [Calls -> Stages], NEW c, NEW s \in Stages, MoveTo(c, s)
    PROVE  stage' \in [Calls -> Stages]
  BY DEF MoveTo

LEMMA RepliesFit ==
    ASSUME stage \in [Calls -> Stages], reply \in [Calls -> Status], NEW c, NEW n \in Status,
           Reply(c, n)
    PROVE  stage' \in [Calls -> Stages] /\ reply' \in [Calls -> Status]
  <1>1. MoveTo(c, "done") /\ "done" \in Stages
    BY DEF Reply, Stages
  <1> QED BY <1>1, MovesFit DEF Reply

Answering == stage \in [Calls -> Stages] /\ reply \in [Calls -> Status]

LEMMA AnsweringStays ==
    ASSUME Answering, NEW c, NEW n \in Status, NEW s \in Stages,
           Reply(c, n) \/ (MoveTo(c, s) /\ UNCHANGED reply)
    PROVE  Answering'
  BY MovesFit, RepliesFit DEF Answering

\* The tables, handlers and buffers keep their types, by group of steps.
LEMMA TokenTypes ==
    ASSUME HostTypeOK, NEW c \in Calls,
           CreateCafeToken(c) \/ ValidateCafeToken(c) \/ RemoveCafeToken(c)
    PROVE  HostTypeOK'
  <1> DEFINE i == plot[c].dev.id
  <1>1. Answering /\ i \in TokenIds /\ plot[c].dev.secret \in Secrets \cup {"hash"}
    BY CallsFit DEF HostTypeOK, Answering, Status
  <1>2. Answering'
    <2>1. \E n \in {200, 201, 204, 400, 401} : Reply(c, n)
      BY DEF CreateCafeToken, ValidateCafeToken, RemoveCafeToken
    <2>2. {200, 201, 204, 400, 401} \subseteq Status /\ "done" \in Stages
      BY DEF Status, Stages
    <2> QED BY <1>1, <2>1, <2>2, AnsweringStays
  <1>3. tokenRows' \in TokenTable
    <2>1. tokenRows \in [TokenIds -> Secrets \cup {"none"}]
      BY DEF HostTypeOK, TokenTable
    <2>2. \E x \in Secrets \cup {"none"} : tokenRows' \in {tokenRows, [tokenRows EXCEPT ![i] = x]}
      BY <1>1 DEF CreateCafeToken, ValidateCafeToken, RemoveCafeToken, hostRows
    <2> QED BY <2>1, <2>2 DEF TokenTable
  <1>4. UNCHANGED <<plot, hour, nonceRows, clientRows, threadRows, inboxRows, pins, issued, purse,
                    reads, buffer, text, query, gone, admitted, smudges>>
    BY DEF CreateCafeToken, ValidateCafeToken, RemoveCafeToken, hostRows, hostSearch
  <1> QED BY <1>2, <1>3, <1>4 DEF HostTypeOK, Answering, Status

\* What a handler that looks at the token of the caller answers.
LEMMA AuthorizeAnswers ==
    ASSUME NEW c, Authorize(c)
    PROVE  /\ Started(c) /\ plot' = plot
           /\ \/ MoveTo(c, "authorized") /\ UNCHANGED reply
              \/ \E n \in {401, 403} : Reply(c, n)
  <1>1. PICK v : v = IF ~HasToken(c) THEN "none" ELSE Validate(Shown(c), FALSE, "any")
    OBVIOUS
  <1>2. /\ Started(c) /\ plot' = plot
        /\ IF v = "ok" THEN MoveTo(c, "authorized") /\ UNCHANGED reply
           ELSE Reply(c, IF v = "invalid" THEN 403 ELSE 401)
    BY <1>1 DEF Authorize
  <1>3. PICK n \in {401, 403} : n = IF v = "invalid" THEN 403 ELSE 401
    OBVIOUS
  <1> QED BY <1>2, <1>3

LEMMA RefreshAnswers ==
    ASSUME NEW c, RefreshSession(c)
    PROVE  \E n \in {200, 401, 403} : Reply(c, n)
  <1>1. PICK v : v = IF ~HasToken(c) THEN "none" ELSE Validate(Shown(c), TRUE, By(c))
    OBVIOUS
  <1>2. PICK good \in BOOLEAN : IF good THEN Reply(c, 200)
                               ELSE Reply(c, IF v \in {"none", "expired"} THEN 401 ELSE 403)
    <2>1. PICK good \in BOOLEAN :
             good <=> v = "ok" /\ (plot[c].shows # "mixed" \/ Len(purse[By(c)]) = 1)
      OBVIOUS
    <2> QED BY <1>1, <2>1 DEF RefreshSession
  <1>3. PICK n \in {401, 403} : n = IF v \in {"none", "expired"} THEN 401 ELSE 403
    OBVIOUS
  <1> QED BY <1>2, <1>3

LEMMA BodyTypes ==
    ASSUME HostTypeOK, NEW c \in Calls,
           Authorize(c) \/ FindClient(c) \/ ReadBody(c) \/ GiveBack(c)
    PROVE  HostTypeOK'
  <1>1. Answering
    BY DEF HostTypeOK, Answering, Status
  <1>2. Answering'
    <2>1. \/ \E n \in {200, 400, 401, 403} : Reply(c, n)
          \/ \E s \in {"authorized", "found", "read", "over"} : MoveTo(c, s) /\ UNCHANGED reply
      <3>1. CASE Authorize(c)
        BY <3>1, AuthorizeAnswers
      <3>2. CASE FindClient(c)
        BY <3>2 DEF FindClient
      <3>3. CASE ReadBody(c)
        BY <3>3 DEF ReadBody
      <3>4. CASE GiveBack(c)
        BY <3>4 DEF GiveBack
      <3> QED BY <3>1, <3>2, <3>3, <3>4
    <2>2. {200, 400, 401, 403} \subseteq Status
      BY DEF Status
    <2>3. {"authorized", "found", "read", "over"} \subseteq Stages /\ "done" \in Stages
      BY DEF Stages
    <2> QED BY <1>1, <2>1, <2>2, <2>3, AnsweringStays
  <1>3. buffer' \in [Calls -> Buffers \cup {"none"}] /\ text' \in [Buffers -> Calls \cup {NoCall}]
    <2>1. CASE Authorize(c) \/ FindClient(c)
      <3>1. UNCHANGED <<buffer, text>>
        BY <2>1 DEF Authorize, FindClient
      <3> QED BY <3>1 DEF HostTypeOK
    <2>2. CASE ReadBody(c)
      <3>1. PICK b \in Buffers : /\ buffer' = [buffer EXCEPT ![c] = b]
                                 /\ text' = [text EXCEPT ![b] = c]
        BY <2>2 DEF ReadBody, FreeBuffers
      <3> QED BY <3>1 DEF HostTypeOK
    <2>3. CASE GiveBack(c)
      BY <2>3 DEF GiveBack, HostTypeOK
    <2> QED BY <2>1, <2>2, <2>3
  <1>4. UNCHANGED <<plot, hour, tokenRows, nonceRows, clientRows, threadRows, inboxRows, pins,
                    issued, purse, reads, query, gone, admitted, smudges>>
    BY DEF Authorize, FindClient, ReadBody, GiveBack, hostRows, hostSearch
  <1> QED BY <1>2, <1>3, <1>4 DEF HostTypeOK, Answering, Status


\* Who holds a buffer has it alone, with its body in it, until it has answered.
Buffered ==
    \A c \in Calls : /\ buffer[c] # "none" => text[buffer[c]] = c
                     /\ stage[c] = "read" => buffer[c] # "none"

LEMMA RowTypes ==
    ASSUME HostTypeOK, Buffered, NEW c \in Calls,
           HostStoreThread(c) \/ HostUnstoreThread(c) \/ DeliverMessage(c)
    PROVE  HostTypeOK'
  <1> DEFINE r == <<By(c), plot[c].shelf>>
             body == text[buffer[c]]
  <1>1. Answering /\ plot[c].to \in Guests /\ By(c) \in Guests
    <2>1. KindOf(c) \in {"storeThread", "unstoreThread", "deliver"}
      BY DEF HostStoreThread, HostUnstoreThread, DeliverMessage
    <2> QED BY <2>1, CallsFit DEF HostTypeOK, Answering, Status
  <1>2. Answering'
    <2>1. \E n \in {200, 204} : Reply(c, n)
      BY DEF HostStoreThread, HostUnstoreThread, DeliverMessage
    <2> QED BY <1>1, <2>1, RepliesFit DEF Answering, Status
  <1>3. HostUnstoreThread(c) \/ body = c
    BY DEF HostStoreThread, DeliverMessage, Buffered
  <1>4. threadRows' \in ThreadTable
    <2>1. threadRows' \in {threadRows, [threadRows EXCEPT ![r] = c], [threadRows EXCEPT ![r] = NoCall]}
      BY <1>3 DEF HostStoreThread, HostUnstoreThread, DeliverMessage
    <2>2. threadRows \in [Guests \X Shelves -> Calls \cup {NoCall}]
      BY DEF HostTypeOK, ThreadTable
    <2> QED BY <2>1, <2>2 DEF ThreadTable
  <1>5. inboxRows' \in InboxTable
    <2>1. inboxRows' \subseteq inboxRows \cup {<<plot[c].to, c>>}
      BY <1>3 DEF HostStoreThread, HostUnstoreThread, DeliverMessage
    <2> QED BY <1>1, <2>1 DEF HostTypeOK, InboxTable
  <1>6. pins' \subseteq Parts \cup Calls \cup {NoCall}
    <2>1. pins' \subseteq pins \cup {c}
      BY <1>3 DEF HostStoreThread, HostUnstoreThread, DeliverMessage
    <2> QED BY <2>1 DEF HostTypeOK
  <1>8. smudges' \subseteq Guests \cup Parts \cup Calls \cup {NoCall}
    <2>1. LeftBehind(By(c)) \subseteq {By(c)} /\ LeftBehind(plot[c].to) \subseteq {plot[c].to}
      BY DEF LeftBehind
    <2>2. smudges' \subseteq smudges \cup {By(c), plot[c].to}
      BY <2>1 DEF HostStoreThread, HostUnstoreThread, DeliverMessage
    <2>3. smudges \subseteq Guests \cup Parts \cup Calls \cup {NoCall}
      BY DEF HostTypeOK
    <2> QED BY <1>1, <2>2, <2>3
  <1>7. UNCHANGED <<plot, hour, tokenRows, nonceRows, clientRows, issued, purse, reads, buffer,
                    text, query, gone, admitted>>
    BY DEF HostStoreThread, HostUnstoreThread, DeliverMessage, hostSearch
  <1> QED BY <1>2, <1>4, <1>5, <1>6, <1>7, <1>8 DEF HostTypeOK, Answering, Status

LEMMA FileTypes ==
    ASSUME HostTypeOK, NEW c \in Calls,
           StoreFile(c) \/ StoredFiles(c) \/ UnstoreFile(c) \/ PinArchive(c)
    PROVE  HostTypeOK'
  <1>1. Answering /\ plot[c].parts \in Seq(Parts \cup {"bad", "dir"})
        /\ (KindOf(c) # "pin" => "dir" \notin ToSet(plot[c].parts))
        /\ (KindOf(c) = "unstore" => plot[c].parts # <<>>)
    BY CallsFit DEF HostTypeOK, Answering, Status
  <1>2. Answering'
    <2>1. (\E n \in {201, 204, 400, 500} : Reply(c, n)) \/ UNCHANGED <<stage, reply>>
      <3>1. CASE StoreFile(c)
        BY <3>1 DEF StoreFile
      <3>2. CASE StoredFiles(c)
        BY <3>2 DEF StoredFiles
      <3>3. CASE UnstoreFile(c)
        BY <3>3 DEF UnstoreFile
      <3>4. CASE PinArchive(c)
        BY <3>4 DEF PinArchive
      <3> QED BY <3>1, <3>2, <3>3, <3>4
    <2> QED BY <1>1, <2>1, RepliesFit DEF Answering, Status
  <1>3. reads' \in [Calls -> Nat]
    <2>1. reads' = [reads EXCEPT ![c] = reads[c] + 1] \/ reads' = reads
      <3>1. CASE StoreFile(c)
        BY <3>1 DEF StoreFile
      <3>2. CASE StoredFiles(c) \/ UnstoreFile(c) \/ PinArchive(c)
        BY <3>2 DEF StoredFiles, UnstoreFile, PinArchive
      <3> QED BY <3>1, <3>2
    <2> QED BY <2>1 DEF HostTypeOK
  <1>4. pins' \subseteq Parts \cup Calls \cup {NoCall} /\ smudges' \subseteq smudges \cup Parts
    <2>1. CASE StoreFile(c)
      <3> DEFINE f == plot[c].parts[reads[c] + 1]
      <3>1. f # "bad" => f \in Parts
        <4>1. reads[c] + 1 \in DOMAIN plot[c].parts
          BY <1>1, <2>1 DEF StoreFile, HostTypeOK
        <4> QED BY <1>1, <2>1, <4>1 DEF StoreFile, ToSet
      <3> QED BY <2>1, <3>1 DEF StoreFile, HostTypeOK
    <2>2. CASE UnstoreFile(c)
      <3> DEFINE f == plot[c].parts[1]
      <3>1. f # "bad" => f \in Parts
        <4>1. 1 \in DOMAIN plot[c].parts
          BY <1>1, <2>2 DEF UnstoreFile
        <4> QED BY <1>1, <2>2, <4>1 DEF UnstoreFile, ToSet
      <3> QED BY <2>2, <3>1 DEF UnstoreFile, HostTypeOK
    <2>3. CASE StoredFiles(c)
      BY <2>3 DEF StoredFiles, HostTypeOK, hostRows
    <2>4. CASE PinArchive(c)
      BY <2>4 DEF PinArchive, HostTypeOK
    <2> QED BY <2>1, <2>2, <2>3, <2>4
  <1>5. UNCHANGED <<plot, hour, tokenRows, nonceRows, clientRows, threadRows, inboxRows, issued,
                    purse, buffer, text, query, gone, admitted>>
    BY DEF StoreFile, StoredFiles, UnstoreFile, PinArchive, hostRows, hostSearch
  <1> QED BY <1>2, <1>3, <1>4, <1>5 DEF HostTypeOK, Answering, Status

LEMMA ClientTypes ==
    ASSUME HostTypeOK, NEW c \in Calls, ClientStep(c)
    PROVE  HostTypeOK'
  <1> DEFINE g == By(c)
  <1>1. Answering /\ g \in Guests /\ plot[c].dev.id \in TokenIds
    <2>1. KindOf(c) \in {"register", "refresh", "deregister"}
      BY DEF ClientStep, CheckToken, AddClient, OpenSession, RefreshSession, DeregisterThreads,
             DeregisterMessages, DeregisterClient
    <2> QED BY <2>1, CallsFit DEF HostTypeOK, Answering, Status
  <1>2. Answering'
    <2>1. \/ \E n \in {200, 401, 403} : Reply(c, n)
          \/ \E s \in {"admitting", "added", "deregistering", "forgetting"} :
                 MoveTo(c, s) /\ UNCHANGED reply
      <3>1. CASE CheckToken(c)
        BY <3>1 DEF CheckToken
      <3>2. CASE AddClient(c) \/ OpenSession(c)
        BY <3>2 DEF AddClient, OpenSession
      <3>3. CASE RefreshSession(c)
        BY <3>3, RefreshAnswers
      <3>4. CASE DeregisterThreads(c) \/ DeregisterMessages(c) \/ DeregisterClient(c)
        BY <3>4 DEF DeregisterThreads, DeregisterMessages, DeregisterClient
      <3> QED BY <3>1, <3>2, <3>3, <3>4 DEF ClientStep
    <2>2. {200, 401, 403} \subseteq Status
      BY DEF Status
    <2>3. {"admitting", "added", "deregistering", "forgetting", "done"} \subseteq Stages
      BY DEF Stages
    <2> QED BY <1>1, <2>1, <2>2, <2>3, AnsweringStays
  <1>3. /\ issued' \in Seq([subject : Guests, at : 0..MaxHour])
        /\ purse' \in [Guests -> Seq(DOMAIN issued')]
    <2>1. NewSession(g) \/ UNCHANGED <<issued, purse>>
      BY DEF ClientStep, CheckToken, AddClient, OpenSession, RefreshSession, DeregisterThreads,
             DeregisterMessages, DeregisterClient
    <2>2. CASE NewSession(g)
      BY <1>1, <2>2, SessionOpens
    <2>3. CASE UNCHANGED <<issued, purse>>
      BY <2>3 DEF HostTypeOK
    <2> QED BY <2>1, <2>2, <2>3
  <1>4. clientRows' \in ClientTable /\ nonceRows' \in NonceTable
        /\ admitted' \subseteq Guests \X TokenIds
    <2>1. CASE AddClient(c)
      <3>1. clientRows \in [Guests -> TokenIds \cup {"none"}]
        BY DEF HostTypeOK, ClientTable
      <3>2. \E x \in TokenIds \cup {"none"} : clientRows' = [clientRows EXCEPT ![g] = x]
        BY <1>1, <2>1, <3>1 DEF AddClient
      <3>3. admitted' = admitted \cup {<<g, plot[c].dev.id>>} /\ nonceRows' = nonceRows
        BY <2>1 DEF AddClient
      <3> QED BY <1>1, <3>1, <3>2, <3>3 DEF HostTypeOK, ClientTable
    <2>2. CASE OpenSession(c)
      BY <2>2 DEF OpenSession, HostTypeOK, NonceTable
    <2>3. CASE DeregisterClient(c)
      <3>1. clientRows' = [clientRows EXCEPT ![g] = "none"]
        BY <2>3 DEF DeregisterClient
      <3>2. nonceRows' = nonceRows /\ admitted' = admitted
        BY <2>3 DEF DeregisterClient
      <3> QED BY <3>1, <3>2 DEF HostTypeOK, ClientTable
    <2>4. CASE \/ CheckToken(c) \/ RefreshSession(c) \/ DeregisterThreads(c)
               \/ DeregisterMessages(c)
      <3>1. UNCHANGED <<clientRows, nonceRows, admitted>>
        BY <2>4 DEF CheckToken, RefreshSession, DeregisterThreads, DeregisterMessages, hostRows
      <3> QED BY <3>1 DEF HostTypeOK
    <2> QED BY <2>1, <2>2, <2>3, <2>4 DEF ClientStep
  <1>5. threadRows' \in ThreadTable /\ inboxRows' \in InboxTable
    <2>1. \/ UNCHANGED threadRows
          \/ threadRows' = [r \in DOMAIN threadRows |-> IF r[1] = g THEN NoCall ELSE threadRows[r]]
      BY DEF ClientStep, CheckToken, AddClient, OpenSession, RefreshSession, DeregisterThreads,
             DeregisterMessages, DeregisterClient, hostRows
    <2>2. inboxRows' \subseteq inboxRows
      BY DEF ClientStep, CheckToken, AddClient, OpenSession, RefreshSession, DeregisterThreads,
             DeregisterMessages, DeregisterClient, hostRows
    <2> QED BY <2>1, <2>2 DEF HostTypeOK, ThreadTable, InboxTable
  <1>6. UNCHANGED <<plot, hour, tokenRows, pins, reads, buffer, text, query, gone, smudges>>
    BY DEF ClientStep, CheckToken, AddClient, OpenSession, RefreshSession, DeregisterThreads,
             DeregisterMessages, DeregisterClient, hostRows, hostSearch
  <1> QED BY <1>2, <1>3, <1>4, <1>5, <1>6 DEF HostTypeOK, Answering, Status

LEMMA SearchTypes ==
    ASSUME HostTypeOK, NEW c \in Calls, SearchStep(c)
    PROVE  HostTypeOK'
  <1>1. Answering
    BY DEF HostTypeOK, Answering, Status
  <1>2. Answering'
    <2>1. \/ \E n \in {200, 500} : Reply(c, n)
          \/ \E s \in {"streaming", "cancelled"} : MoveTo(c, s) /\ UNCHANGED reply
          \/ UNCHANGED <<stage, reply>>
      BY DEF SearchStep, OpenSearch, QueryFinds, QueryEnds, StreamResult, StreamEnds, CallerLeaves,
             CancelSearch, StreamGone
    <2>2. {200, 500} \subseteq Status
      BY DEF Status
    <2>3. {"streaming", "cancelled", "done"} \subseteq Stages
      BY DEF Stages
    <2>4. CASE UNCHANGED <<stage, reply>>
      BY <1>1, <2>4 DEF Answering
    <2> QED BY <1>1, <2>1, <2>2, <2>3, <2>4, AnsweringStays
  <1>3. query' \in [Calls -> {"none", "searching", "sending", "over"}]
    <2>1. \E x \in {"searching", "sending", "over"} : query' \in {query, [query EXCEPT ![c] = x]}
      <3>1. CASE OpenSearch(c) \/ QueryFinds(c) \/ QueryEnds(c)
        BY <3>1 DEF OpenSearch, QueryFinds, QueryEnds
      <3>2. CASE StreamResult(c)
        BY <3>2 DEF StreamResult
      <3>3. CASE StreamEnds(c) \/ CallerLeaves(c) \/ CancelSearch(c) \/ StreamGone(c)
        <4>1. query' = query
          BY <3>3 DEF StreamEnds, CallerLeaves, CancelSearch, StreamGone, hostSearch
        <4> QED BY <4>1
      <3> QED BY <3>1, <3>2, <3>3 DEF SearchStep
    <2>2. query \in [Calls -> {"none", "searching", "sending", "over"}]
      BY DEF HostTypeOK
    <2> QED BY <2>1, <2>2
  <1>5. gone' \subseteq Calls
    <2>1. gone' \subseteq gone \cup {c}
      BY DEF SearchStep, OpenSearch, QueryFinds, QueryEnds, StreamResult, StreamEnds, CallerLeaves,
             CancelSearch, StreamGone, hostSearch
    <2> QED BY <2>1 DEF HostTypeOK
  <1>4. UNCHANGED <<plot, hour, tokenRows, nonceRows, clientRows, threadRows, inboxRows, pins,
                    issued, purse, reads, buffer, text, admitted, smudges>>
    BY DEF SearchStep, OpenSearch, QueryFinds, QueryEnds, StreamResult, StreamEnds, CallerLeaves,
           CancelSearch, StreamGone, searchRest, hostRows
  <1> QED BY <1>2, <1>3, <1>4, <1>5 DEF HostTypeOK, Answering, Status
\* An answer is the end of a call, and what stands in the middle of a
\* registration or a deregistration is one.
Shaped ==
    \A c \in Calls :
        /\ reply[c] # 0 => stage[c] \in {"done", "over"}
        /\ stage[c] \in {"deregistering", "forgetting"} => KindOf(c) = "deregister"
        /\ stage[c] \in {"admitting", "added"} => KindOf(c) = "register"

\* A token that was kept when it was made.
Vouched(t) ==
    \E d \in Calls : /\ KindOf(d) = "create" /\ plot[d].kept /\ reply[d] = 201
                     /\ plot[d].dev = t

\* Tokens in the table were made, registrations that go on have one, and who
\* has a session was admitted.
Registering ==
    /\ \A i \in TokenIds :
        tokenRows[i] # "none" => Vouched([id |-> i, secret |-> tokenRows[i]])
    /\ \A c \in Calls : stage[c] \in {"admitting", "added"} => Vouched(plot[c].dev)
    /\ \A c \in Calls :
        stage[c] = "added" => <<By(c), plot[c].dev.id>> \in admitted
    /\ \A g \in Guests : purse[g] # <<>> => \E a \in admitted : a[1] = g

NoThreads(g) == \A s \in Shelves : threadRows[<<g, s>>] = NoCall
NoMessages(g) == \A m \in inboxRows : m[1] # g

\* What a deregistration has removed is gone, or somebody wrote it again.
Leaving ==
    \A c \in Calls :
        /\ stage[c] \in {"deregistering", "forgetting"} =>
            By(c) \in smudges \/ NoThreads(By(c))
        /\ stage[c] = "forgetting" => By(c) \in smudges \/ NoMessages(By(c))

\* The files that an upload is done with are pinned.
Uploading ==
    \A c \in Calls : KindOf(c) = "store" /\ stage[c] \in {"none", "authorized"} =>
        /\ reads[c] <= Len(plot[c].parts)
        /\ \A i \in 1..reads[c] : plot[c].parts[i] \in pins \cup smudges

HostInv ==
    /\ HostTypeOK /\ Buffered /\ Shaped /\ Registering /\ Leaving /\ Uploading
    /\ RowsOwned /\ NothingLeft /\ AdmittedByToken /\ WordKept

\* The steps of one call.
HostStep(c) ==
    \/ CreateCafeToken(c) \/ ValidateCafeToken(c) \/ RemoveCafeToken(c)
    \/ Authorize(c) \/ FindClient(c) \/ ReadBody(c) \/ GiveBack(c)
    \/ HostStoreThread(c) \/ HostUnstoreThread(c) \/ DeliverMessage(c)
    \/ StoreFile(c) \/ StoredFiles(c) \/ UnstoreFile(c) \/ PinArchive(c)
    \/ ClientStep(c) \/ SearchStep(c)

LEMMA HostStepTypes ==
    ASSUME HostTypeOK, Buffered, NEW c \in Calls, HostStep(c)
    PROVE  HostTypeOK'
  BY TokenTypes, BodyTypes, RowTypes, FileTypes, ClientTypes, SearchTypes DEF HostStep

LEMMA HourTypes ==
    ASSUME HostTypeOK, HourPasses
    PROVE  HostTypeOK'
  <1>1. UNCHANGED <<plot, tokenRows, nonceRows, clientRows, threadRows, inboxRows, pins, issued,
                    purse, stage, reply, reads, buffer, text, query, gone, admitted, smudges>>
    BY DEF HourPasses, hostRows, hostCalls, hostSearch
  <1>2. hour' \in 0..MaxHour
    BY CafeHostAssumption DEF HourPasses, HostTypeOK
  <1> QED BY <1>1, <1>2 DEF HostTypeOK

\* What a step does with the call that takes it: it is answered, goes on,
\* gives its buffer back, or stays where it is.
CallEnds(c) == /\ stage[c] \notin {"done", "over"}
           /\ \E n \in Status \ {0} : Reply(c, n)
CallGoesOn(c, s) ==
    /\ stage[c] \notin {"done", "over"} /\ MoveTo(c, s) /\ UNCHANGED reply
    /\ s \in {"authorized", "found", "read", "streaming", "cancelled", "deregistering",
              "forgetting", "admitting", "added"}
    /\ s = "authorized" => Authorize(c)
    /\ s = "read" => ReadBody(c)
    /\ s = "deregistering" => DeregisterThreads(c)
    /\ s = "forgetting" => DeregisterMessages(c)
    /\ s = "admitting" => CheckToken(c)
    /\ s = "added" => AddClient(c)
Advances(c) ==
    /\ plot' = plot
    /\ CallEnds(c) \/ (\E s : CallGoesOn(c, s)) \/ GiveBack(c) \/ UNCHANGED <<stage, reply>>

LEMMA RowsAdvance ==
    ASSUME NEW c, CreateCafeToken(c) \/ ValidateCafeToken(c) \/ RemoveCafeToken(c)
                  \/ HostStoreThread(c) \/ HostUnstoreThread(c) \/ DeliverMessage(c)
    PROVE  Advances(c)
  <1>1. CASE CreateCafeToken(c)
    BY <1>1 DEF CreateCafeToken, Started, Advances, CallEnds, Status
  <1>2. CASE ValidateCafeToken(c)
    BY <1>2 DEF ValidateCafeToken, Started, Advances, CallEnds, Status
  <1>3. CASE RemoveCafeToken(c)
    BY <1>3 DEF RemoveCafeToken, Started, Advances, CallEnds, Status
  <1>4. CASE HostStoreThread(c)
    BY <1>4 DEF HostStoreThread, Advances, CallEnds, Status
  <1>5. CASE HostUnstoreThread(c)
    BY <1>5 DEF HostUnstoreThread, Advances, CallEnds, Status
  <1>6. CASE DeliverMessage(c)
    BY <1>6 DEF DeliverMessage, Advances, CallEnds, Status
  <1> QED BY <1>1, <1>2, <1>3, <1>4, <1>5, <1>6

LEMMA BodiesAdvance ==
    ASSUME NEW c, Authorize(c) \/ FindClient(c) \/ ReadBody(c) \/ GiveBack(c)
                  \/ StoreFile(c) \/ StoredFiles(c) \/ UnstoreFile(c) \/ PinArchive(c)
    PROVE  Advances(c)
  <1>1. CASE Authorize(c)
    <2>1. plot' = plot /\ stage[c] \notin {"done", "over"}
      BY <1>1, AuthorizeAnswers DEF Started
    <2>2. (MoveTo(c, "authorized") /\ UNCHANGED reply) \/ \E n \in {401, 403} : Reply(c, n)
      BY <1>1, AuthorizeAnswers
    <2> QED BY <1>1, <2>1, <2>2 DEF Advances, CallEnds, CallGoesOn, Status
  <1>2. CASE FindClient(c)
    <2>1. plot' = plot /\ stage[c] \notin {"done", "over"}
      BY <1>2 DEF FindClient, Started
    <2>2. (MoveTo(c, "found") /\ UNCHANGED reply) \/ \E n \in {200, 403} : Reply(c, n)
      BY <1>2 DEF FindClient
    <2> QED BY <2>1, <2>2 DEF Advances, CallEnds, CallGoesOn, Status
  <1>3. CASE ReadBody(c)
    <2>1. plot' = plot /\ stage[c] \notin {"done", "over"}
      BY <1>3 DEF ReadBody, Started
    <2>2. (MoveTo(c, "read") /\ UNCHANGED reply) \/ Reply(c, 400)
      BY <1>3 DEF ReadBody
    <2> QED BY <1>3, <2>1, <2>2 DEF Advances, CallEnds, CallGoesOn, Status
  <1>4. CASE GiveBack(c)
    BY <1>4 DEF GiveBack, Advances
  <1>5. CASE StoreFile(c)
    <2>1. plot' = plot /\ stage[c] \notin {"done", "over"}
      BY <1>5 DEF StoreFile
    <2>2. Reply(c, 400) \/ UNCHANGED <<stage, reply>>
      BY <1>5 DEF StoreFile
    <2> QED BY <2>1, <2>2 DEF Advances, CallEnds, Status
  <1>6. CASE StoredFiles(c)
    BY <1>6 DEF StoredFiles, Advances, CallEnds, Status
  <1>7. CASE UnstoreFile(c)
    <2>1. plot' = plot /\ stage[c] \notin {"done", "over"}
      BY <1>7 DEF UnstoreFile
    <2>2. \E n \in {204, 400} : Reply(c, n)
      BY <1>7 DEF UnstoreFile
    <2> QED BY <2>1, <2>2 DEF Advances, CallEnds, Status
  <1>8. CASE PinArchive(c)
    <2>1. plot' = plot /\ stage[c] \notin {"done", "over"}
      BY <1>8 DEF PinArchive
    <2>2. \E n \in {201, 400, 500} : Reply(c, n)
      BY <1>8 DEF PinArchive
    <2> QED BY <2>1, <2>2 DEF Advances, CallEnds, Status
  <1> QED BY <1>1, <1>2, <1>3, <1>4, <1>5, <1>6, <1>7, <1>8

LEMMA ClientsAdvance ==
    ASSUME NEW c, ClientStep(c)
    PROVE  Advances(c)
  <1>0. plot' = plot /\ stage[c] \notin {"done", "over"}
    BY DEF ClientStep, CheckToken, AddClient, OpenSession, RefreshSession, DeregisterThreads,
           DeregisterMessages, DeregisterClient, Called, Started
  <1>1. CASE CheckToken(c)
    <2>1. (MoveTo(c, "admitting") /\ UNCHANGED reply) \/ Reply(c, 403)
      BY <1>1 DEF CheckToken
    <2> QED BY <1>0, <1>1, <2>1 DEF Advances, CallEnds, CallGoesOn, Status
  <1>2. CASE AddClient(c)
    <2>1. MoveTo(c, "added") /\ UNCHANGED reply
      BY <1>2 DEF AddClient
    <2> QED BY <1>0, <1>2, <2>1 DEF Advances, CallGoesOn
  <1>3. CASE OpenSession(c) \/ DeregisterClient(c)
    <2>1. Reply(c, 200)
      BY <1>3 DEF OpenSession, DeregisterClient
    <2> QED BY <1>0, <2>1 DEF Advances, CallEnds, Status
  <1>4. CASE RefreshSession(c)
    <2>1. \E n \in {200, 401, 403} : Reply(c, n)
      BY <1>4, RefreshAnswers
    <2> QED BY <1>0, <2>1 DEF Advances, CallEnds, Status
  <1>5. CASE DeregisterThreads(c)
    <2>1. MoveTo(c, "deregistering") /\ UNCHANGED reply
      BY <1>5 DEF DeregisterThreads
    <2> QED BY <1>0, <1>5, <2>1 DEF Advances, CallGoesOn
  <1>6. CASE DeregisterMessages(c)
    <2>1. MoveTo(c, "forgetting") /\ UNCHANGED reply
      BY <1>6 DEF DeregisterMessages
    <2> QED BY <1>0, <1>6, <2>1 DEF Advances, CallGoesOn
  <1> QED BY <1>1, <1>2, <1>3, <1>4, <1>5, <1>6 DEF ClientStep

LEMMA SearchesAdvance ==
    ASSUME NEW c, SearchStep(c)
    PROVE  Advances(c)
  <1>1. plot' = plot
    BY DEF SearchStep, OpenSearch, QueryFinds, QueryEnds, StreamResult, StreamEnds, CallerLeaves,
           CancelSearch, StreamGone, searchRest
  <1>2. CASE OpenSearch(c)
    BY <1>1, <1>2 DEF OpenSearch, Advances, CallGoesOn
  <1>3. CASE CancelSearch(c)
    BY <1>1, <1>3 DEF CancelSearch, Advances, CallGoesOn, CallEnds, Status
  <1>4. CASE StreamEnds(c) \/ StreamGone(c)
    BY <1>1, <1>4 DEF StreamEnds, StreamGone, Advances, CallEnds, Status
  <1>5. CASE QueryFinds(c) \/ QueryEnds(c) \/ StreamResult(c) \/ CallerLeaves(c)
    BY <1>1, <1>5 DEF QueryFinds, QueryEnds, StreamResult, CallerLeaves, Advances
  <1> QED BY <1>2, <1>3, <1>4, <1>5 DEF SearchStep

LEMMA HostAdvances ==
    ASSUME NEW c, HostStep(c)
    PROVE  Advances(c)
  BY RowsAdvance, BodiesAdvance, ClientsAdvance, SearchesAdvance DEF HostStep

\* What a step leaves alone, unless it is one of those named.
Frames(c) ==
    /\ ReadBody(c) \/ GiveBack(c) \/ UNCHANGED <<buffer, text>>
    /\ HostStoreThread(c) \/ HostUnstoreThread(c) \/ DeregisterThreads(c) \/ UNCHANGED threadRows
    /\ DeliverMessage(c) \/ DeregisterMessages(c) \/ UNCHANGED inboxRows
    /\ AddClient(c) \/ DeregisterClient(c) \/ UNCHANGED clientRows
    /\ AddClient(c) \/ UNCHANGED admitted
    /\ CreateCafeToken(c) \/ RemoveCafeToken(c) \/ UNCHANGED tokenRows
    /\ OpenSession(c) \/ RefreshSession(c) \/ UNCHANGED <<issued, purse>>
    /\ StoreFile(c) \/ UNCHANGED reads
    /\ UnstoreFile(c) \/ pins \subseteq pins'
    /\ smudges \subseteq smudges'
    /\ pins \cup smudges \subseteq pins' \cup smudges'

\* Which steps touch which tables.
LEMMA HostFrames ==
    ASSUME NEW c, HostStep(c)
    PROVE  Frames(c)
  <1>1. CASE CreateCafeToken(c) \/ RemoveCafeToken(c)
    <2>1. UNCHANGED <<clientRows, threadRows, inboxRows, pins, issued, purse, reads, buffer, text,
                      admitted, smudges>>
      BY <1>1 DEF CreateCafeToken, RemoveCafeToken
    <2> QED BY <1>1, <2>1 DEF Frames
  <1>2. CASE ValidateCafeToken(c) \/ Authorize(c) \/ FindClient(c) \/ StoredFiles(c)
    <2>1. UNCHANGED <<tokenRows, clientRows, threadRows, inboxRows, pins, issued, purse, reads,
                      buffer, text, admitted, smudges>>
      BY <1>2 DEF ValidateCafeToken, Authorize, FindClient, StoredFiles, hostRows
    <2> QED BY <2>1 DEF Frames
  <1>3. CASE ReadBody(c) \/ GiveBack(c)
    <2>1. UNCHANGED <<tokenRows, clientRows, threadRows, inboxRows, pins, issued, purse, reads,
                      admitted, smudges>>
      BY <1>3 DEF ReadBody, GiveBack, hostRows
    <2> QED BY <1>3, <2>1 DEF Frames
  <1>4. CASE HostStoreThread(c) \/ HostUnstoreThread(c)
    <2>1. UNCHANGED <<tokenRows, clientRows, inboxRows, pins, issued, purse, reads, buffer, text,
                      admitted>>
      BY <1>4 DEF HostStoreThread, HostUnstoreThread
    <2>2. smudges \subseteq smudges'
      BY <1>4 DEF HostStoreThread, HostUnstoreThread
    <2> QED BY <1>4, <2>1, <2>2 DEF Frames
  <1>5. CASE DeliverMessage(c)
    <2>1. UNCHANGED <<tokenRows, clientRows, threadRows, issued, purse, reads, buffer, text,
                      admitted>>
      BY <1>5 DEF DeliverMessage
    <2>2. smudges \subseteq smudges' /\ pins \subseteq pins'
      BY <1>5 DEF DeliverMessage
    <2> QED BY <1>5, <2>1, <2>2 DEF Frames
  <1>6. CASE StoreFile(c)
    <2>1. UNCHANGED <<tokenRows, clientRows, threadRows, inboxRows, issued, purse, buffer, text,
                      admitted, smudges>>
      BY <1>6 DEF StoreFile
    <2>2. pins \subseteq pins'
      BY <1>6 DEF StoreFile
    <2> QED BY <1>6, <2>1, <2>2 DEF Frames
  <1>7. CASE UnstoreFile(c)
    <2>1. UNCHANGED <<tokenRows, clientRows, threadRows, inboxRows, issued, purse, reads, buffer,
                      text, admitted>>
      BY <1>7 DEF UnstoreFile
    <2>2. smudges \subseteq smudges' /\ pins \cup smudges \subseteq pins' \cup smudges'
      BY <1>7 DEF UnstoreFile
    <2> QED BY <1>7, <2>1, <2>2 DEF Frames
  <1>8. CASE PinArchive(c)
    <2>1. UNCHANGED <<tokenRows, clientRows, threadRows, inboxRows, issued, purse, reads, buffer,
                      text, admitted, smudges>>
      BY <1>8 DEF PinArchive
    <2>2. pins \subseteq pins'
      BY <1>8 DEF PinArchive
    <2> QED BY <1>8, <2>1, <2>2 DEF Frames
  <1>9. CASE CheckToken(c) \/ OpenSession(c) \/ RefreshSession(c)
    <2>1. UNCHANGED <<tokenRows, clientRows, threadRows, inboxRows, pins, reads, buffer, text,
                      admitted, smudges>>
      BY <1>9 DEF CheckToken, OpenSession, RefreshSession, hostRows
    <2>2. CheckToken(c) => UNCHANGED <<issued, purse>>
      BY DEF CheckToken
    <2> QED BY <1>9, <2>1, <2>2 DEF Frames
  <1>10. CASE AddClient(c) \/ DeregisterClient(c)
    <2>1. UNCHANGED <<tokenRows, threadRows, inboxRows, pins, issued, purse, reads, buffer, text,
                      smudges>>
      BY <1>10 DEF AddClient, DeregisterClient
    <2>2. DeregisterClient(c) => UNCHANGED admitted
      BY DEF DeregisterClient
    <2> QED BY <1>10, <2>1, <2>2 DEF Frames
  <1>11. CASE DeregisterThreads(c)
    <2>1. UNCHANGED <<tokenRows, clientRows, inboxRows, pins, issued, purse, reads, buffer, text,
                      admitted, smudges>>
      BY <1>11 DEF DeregisterThreads
    <2> QED BY <1>11, <2>1 DEF Frames
  <1>12. CASE DeregisterMessages(c)
    <2>1. UNCHANGED <<tokenRows, clientRows, threadRows, pins, issued, purse, reads, buffer, text,
                      admitted, smudges>>
      BY <1>12 DEF DeregisterMessages
    <2> QED BY <1>12, <2>1 DEF Frames
  <1>13. CASE SearchStep(c)
    <2>1. UNCHANGED <<tokenRows, clientRows, threadRows, inboxRows, pins, issued, purse, reads,
                      buffer, text, admitted, smudges>>
      BY <1>13 DEF SearchStep, OpenSearch, QueryFinds, QueryEnds, StreamResult, StreamEnds,
                   CallerLeaves, CancelSearch, StreamGone, searchRest, hostRows
    <2> QED BY <2>1 DEF Frames
  <1> QED BY <1>1, <1>2, <1>3, <1>4, <1>5, <1>6, <1>7, <1>8, <1>9, <1>10, <1>11, <1>12, <1>13
          DEF HostStep, ClientStep

\* What was answered stays, and so does what follows from it.
LEMMA AnswersStay ==
    ASSUME HostTypeOK, Shaped, NEW c \in Calls, Advances(c)
    PROVE  /\ plot' = plot
           /\ \A d \in Calls : /\ stage[d] # "none" => stage'[d] # "none"
                               /\ reply[d] # 0 => reply'[d] = reply[d]
                               /\ d # c => stage'[d] = stage[d] /\ reply'[d] = reply[d]
           /\ \A t : Vouched(t) => Vouched(t)'
  <1>1. stage \in [Calls -> Stages] /\ reply \in [Calls -> Status]
    BY DEF HostTypeOK, Status
  <1>2. \A d \in Calls : /\ stage[d] # "none" => stage'[d] # "none"
                         /\ reply[d] # 0 => reply'[d] = reply[d]
                         /\ d # c => stage'[d] = stage[d] /\ reply'[d] = reply[d]
    <2>1. CASE CallEnds(c)
      BY <1>1, <2>1 DEF CallEnds, Reply, MoveTo, Shaped
    <2>2. CASE \E s : CallGoesOn(c, s)
      <3>1. PICK s : CallGoesOn(c, s)
        BY <2>2
      <3>2. stage' = [stage EXCEPT ![c] = s] /\ reply' = reply /\ s # "none"
        BY <3>1 DEF CallGoesOn, MoveTo
      <3> QED BY <1>1, <3>2
    <2>3. CASE GiveBack(c)
      <3>1. stage' = [stage EXCEPT ![c] = "over"] /\ reply' = reply
        BY <2>3 DEF GiveBack, MoveTo
      <3> QED BY <1>1, <3>1
    <2>4. CASE UNCHANGED <<stage, reply>>
      BY <2>4
    <2> QED BY <2>1, <2>2, <2>3, <2>4 DEF Advances
  <1>3. plot' = plot
    BY DEF Advances
  <1> QED BY <1>2, <1>3 DEF Vouched, KindOf

\* Only steps of a registration or a deregistration lead into one.
LEMMA ShapeStays ==
    ASSUME HostTypeOK, Shaped, NEW c \in Calls, Advances(c)
    PROVE  Shaped'
  <1>1. stage \in [Calls -> Stages] /\ reply \in [Calls -> Status]
    BY DEF HostTypeOK, Status
  <1>2. \A d \in Calls : KindOf(d)' = KindOf(d)
    BY DEF Advances, KindOf
  <1>3. \A d \in Calls : d # c => stage'[d] = stage[d] /\ reply'[d] = reply[d]
    BY AnswersStay
  <1>4. /\ reply'[c] # 0 => stage'[c] \in {"done", "over"}
        /\ stage'[c] \in {"deregistering", "forgetting"} => KindOf(c) = "deregister"
        /\ stage'[c] \in {"admitting", "added"} => KindOf(c) = "register"
    <2>1. CASE CallEnds(c)
      BY <1>1, <2>1 DEF CallEnds, Reply, MoveTo
    <2>2. CASE \E s : CallGoesOn(c, s)
      <3>1. PICK s : CallGoesOn(c, s)
        BY <2>2
      <3>2. stage'[c] = s /\ reply'[c] = 0
        BY <1>1, <3>1 DEF CallGoesOn, MoveTo, Shaped
      <3>3. /\ s \in {"deregistering", "forgetting"} => KindOf(c) = "deregister"
            /\ s \in {"admitting", "added"} => KindOf(c) = "register"
        BY <3>1 DEF CallGoesOn, DeregisterThreads, DeregisterMessages, CheckToken, AddClient
      <3> QED BY <3>2, <3>3
    <2>3. CASE GiveBack(c)
      <3>1. stage'[c] = "over"
        BY <1>1, <2>3 DEF GiveBack, MoveTo
      <3> QED BY <3>1
    <2>4. CASE UNCHANGED <<stage, reply>>
      BY <2>4 DEF Shaped
    <2> QED BY <2>1, <2>2, <2>3, <2>4 DEF Advances
  <1> QED BY <1>2, <1>3, <1>4 DEF Shaped

\* Nobody is given a buffer that somebody has.
LEMMA BuffersStay ==
    ASSUME HostTypeOK, Buffered, Shaped, NEW c \in Calls, HostStep(c)
    PROVE  Buffered'
  <1>0. CafeHostAssumption
    BY CafeHostAssumption
  <1>1. /\ stage \in [Calls -> Stages] /\ buffer \in [Calls -> Buffers \cup {"none"}]
        /\ text \in [Buffers -> Calls \cup {NoCall}] /\ "none" \notin Buffers
        /\ NoCall \notin Calls
    BY <1>0 DEF HostTypeOK, CafeHostAssumption, NoCall
  <1>2. Advances(c) /\ Frames(c) /\ \A d \in Calls : d # c => stage'[d] = stage[d]
    BY HostAdvances, HostFrames, AnswersStay
  <1>3. CASE ReadBody(c)
    <2>1. PICK b \in FreeBuffers : /\ buffer' = [buffer EXCEPT ![c] = b]
                                   /\ text' = [text EXCEPT ![b] = c]
      BY <1>3 DEF ReadBody
    <2>2. b \in Buffers /\ \A d \in Calls : buffer[d] # b
      BY DEF FreeBuffers
    <2>3. \A d \in Calls : buffer'[d] # "none" => text'[buffer'[d]] = d
      BY <1>1, <2>1, <2>2 DEF Buffered
    <2> QED BY <1>1, <1>2, <2>1, <2>2, <2>3 DEF Buffered
  <1>4. CASE GiveBack(c)
    <2>1. buffer' = [buffer EXCEPT ![c] = "none"] /\ stage'[c] = "over"
      BY <1>1, <1>4 DEF GiveBack, MoveTo
    <2>2. \A d \in Calls \ {c} : buffer[d] # "none" => text'[buffer[d]] = text[buffer[d]]
      <3>1. CASE buffer[c] = "none"
        BY <1>4, <3>1 DEF GiveBack
      <3>2. CASE buffer[c] # "none"
        <4>1. text' = [text EXCEPT ![buffer[c]] = NoCall] /\ text[buffer[c]] = c
          BY <1>4, <3>2 DEF GiveBack, Buffered
        <4> QED BY <1>1, <4>1 DEF Buffered
      <3> QED BY <3>1, <3>2
    <2> QED BY <1>1, <1>2, <2>1, <2>2 DEF Buffered
  <1>5. CASE ~ReadBody(c) /\ ~GiveBack(c)
    <2>1. UNCHANGED <<buffer, text>>
      BY <1>2, <1>5 DEF Frames
    <2>2. stage'[c] = "read" => stage[c] = "read"
      <3>1. CASE CallEnds(c)
        BY <1>1, <3>1 DEF CallEnds, Reply, MoveTo
      <3>2. CASE \E s : CallGoesOn(c, s)
        <4>1. PICK s : CallGoesOn(c, s)
          BY <3>2
        <4>2. stage'[c] = s /\ s # "read"
          BY <1>1, <1>5, <4>1 DEF CallGoesOn, MoveTo
        <4> QED BY <4>2
      <3>3. CASE UNCHANGED <<stage, reply>>
        BY <3>3
      <3> QED BY <1>2, <1>5, <3>1, <3>2, <3>3 DEF Advances
    <2> QED BY <1>2, <2>1, <2>2 DEF Buffered
  <1> QED BY <1>3, <1>4, <1>5

\* The call that takes a step is at the stage it came to, or was there.
LEMMA StageReached ==
    ASSUME HostTypeOK, NEW c \in Calls, Advances(c),
           NEW s \in {"deregistering", "forgetting", "admitting", "added", "authorized"},
           stage'[c] = s
    PROVE  stage[c] = s \/ CallGoesOn(c, s)
  <1>1. stage \in [Calls -> Stages]
    BY DEF HostTypeOK
  <1>2. CASE CallEnds(c)
    BY <1>1, <1>2 DEF CallEnds, Reply, MoveTo
  <1>3. CASE \E z : CallGoesOn(c, z)
    <2>1. PICK z : CallGoesOn(c, z)
      BY <1>3
    <2>2. stage'[c] = z
      BY <1>1, <2>1 DEF CallGoesOn, MoveTo
    <2> QED BY <2>1, <2>2
  <1>4. CASE GiveBack(c)
    <2>1. stage'[c] = "over"
      BY <1>1, <1>4 DEF GiveBack, MoveTo
    <2> QED BY <2>1
  <1>5. CASE UNCHANGED <<stage, reply>>
    BY <1>5
  <1> QED BY <1>2, <1>3, <1>4, <1>5 DEF Advances

\* Tokens come into the table when they are made, and are compared as a whole.
LEMMA TokensStay ==
    ASSUME HostTypeOK, Shaped, Registering, NEW c \in Calls, HostStep(c)
    PROVE  /\ \A i \in TokenIds : \A t :
                tokenRows'[i] # "none" /\ t = [id |-> i, secret |-> tokenRows'[i]] => Vouched(t)'
           /\ \A d \in Calls : stage'[d] \in {"admitting", "added"} => Vouched(plot[d].dev)'
  <1>1. /\ tokenRows \in [TokenIds -> Secrets \cup {"none"}] /\ stage \in [Calls -> Stages]
        /\ reply \in [Calls -> Status]
    BY DEF HostTypeOK, TokenTable, Status
  <1>2. Advances(c) /\ Frames(c) /\ (\A t : Vouched(t) => Vouched(t)') /\ plot' = plot
        /\ \A d \in Calls : d # c => stage'[d] = stage[d]
    BY HostAdvances, HostFrames, AnswersStay
  <1>3. ASSUME NEW i \in TokenIds, tokenRows'[i] # "none",
               NEW t, t = [id |-> i, secret |-> tokenRows'[i]]
        PROVE  Vouched(t)'
    <2>1. CASE tokenRows'[i] = tokenRows[i]
      BY <1>2, <1>3, <2>1 DEF Registering
    <2>2. CASE tokenRows'[i] # tokenRows[i]
      <3>1. CreateCafeToken(c)
        BY <1>1, <1>2, <1>3, <2>2 DEF Frames, RemoveCafeToken
      <3>2. /\ plot[c].dev \in [id : TokenIds, secret : Secrets \cup {"hash"}]
        <4>1. plot[c] \in AnyCall
          BY CallsFit
        <4> QED BY <4>1 DEF AnyCall
      <3>3. /\ plot[c].kept /\ Reply(c, 201) /\ KindOf(c) = "create"
            /\ tokenRows' = [tokenRows EXCEPT ![plot[c].dev.id] = plot[c].dev.secret]
        BY <2>2, <3>1 DEF CreateCafeToken
      <3>4. plot[c].dev.id = i /\ tokenRows'[i] = plot[c].dev.secret
        BY <1>1, <2>2, <3>2, <3>3
      <3>5. plot[c].dev = t
        BY <1>3, <3>2, <3>4
      <3>6. reply'[c] = 201
        BY <1>1, <3>3 DEF Reply
      <3> QED BY <1>2, <3>3, <3>5, <3>6 DEF Vouched, KindOf
    <2> QED BY <2>1, <2>2
  <1>4. ASSUME NEW d \in Calls, stage'[d] \in {"admitting", "added"}
        PROVE  Vouched(plot[d].dev)'
    <2>1. CASE stage[d] \in {"admitting", "added"}
      <3>1. Vouched(plot[d].dev)
        BY <2>1 DEF Registering
      <3> QED BY <1>2, <3>1
    <2>2. CASE stage[d] \notin {"admitting", "added"}
      <3>1. d = c
        BY <1>2, <1>4, <2>2
      <3>2. CheckToken(c) \/ AddClient(c)
        BY <1>2, <1>4, <2>2, <3>1, StageReached DEF CallGoesOn
      <3>3. CheckToken(c)
        BY <2>2, <3>1, <3>2 DEF AddClient
      <3>4. Matches(plot[c].dev)
        <4>1. Reply(c, 403) => stage'[c] = "done"
          BY <1>1 DEF Reply, MoveTo
        <4> QED BY <1>4, <3>1, <3>3, <4>1 DEF CheckToken
      <3>5. plot[c].dev \in [id : TokenIds, secret : Secrets \cup {"hash"}]
        <4>1. plot[c] \in AnyCall
          BY CallsFit
        <4> QED BY <4>1 DEF AnyCall
      <3>6. /\ plot[c].dev = [id |-> plot[c].dev.id, secret |-> tokenRows[plot[c].dev.id]]
            /\ plot[c].dev.id \in TokenIds /\ tokenRows[plot[c].dev.id] # "none"
        BY <3>4, <3>5 DEF Matches
      <3>7. Vouched(plot[c].dev)
        BY <3>6 DEF Registering
      <3> QED BY <1>2, <3>1, <3>7
    <2> QED BY <2>1, <2>2
  <1> QED BY <1>3, <1>4

\* Whoever is admitted has shown a token that was kept.
LEMMA ClientsStay ==
    ASSUME HostTypeOK, Shaped, Registering, AdmittedByToken, NEW c \in Calls, HostStep(c)
    PROVE  /\ admitted \subseteq admitted'
           /\ \A d \in Calls : stage'[d] = "added" => <<By(d), plot[d].dev.id>> \in admitted'
           /\ \A a \in admitted' : \E d \in Calls :
                /\ KindOf(d) = "register" /\ By(d) = a[1] /\ plot[d].dev.id = a[2]
                /\ Vouched(plot[d].dev)'
           /\ \A g \in Guests : clientRows'[g] = "none" \/ <<g, clientRows'[g]>> \in admitted'
  <1>1. clientRows \in [Guests -> TokenIds \cup {"none"}]
    BY DEF HostTypeOK, ClientTable
  <1>2. Advances(c) /\ Frames(c) /\ (\A t : Vouched(t) => Vouched(t)') /\ plot' = plot
        /\ \A d \in Calls : d # c => stage'[d] = stage[d]
    BY HostAdvances, HostFrames, AnswersStay
  <1>3. admitted' = admitted \/ (AddClient(c) /\ admitted' = admitted \cup {<<By(c), plot[c].dev.id>>})
    BY <1>2 DEF Frames, AddClient
  <1>4. ASSUME NEW d \in Calls, stage'[d] = "added"
        PROVE  <<By(d), plot[d].dev.id>> \in admitted'
    <2>1. stage[d] = "added" \/ (d = c /\ AddClient(c))
      BY <1>2, <1>4, StageReached DEF CallGoesOn
    <2>2. CASE stage[d] = "added"
      BY <1>3, <2>2 DEF Registering
    <2>3. CASE d = c /\ AddClient(c)
      BY <2>3 DEF AddClient
    <2> QED BY <2>1, <2>2, <2>3
  <1>5. ASSUME NEW a \in admitted'
        PROVE  \E d \in Calls : /\ KindOf(d) = "register" /\ By(d) = a[1]
                                 /\ plot[d].dev.id = a[2] /\ Vouched(plot[d].dev)'
    <2>1. CASE a \in admitted
      <3>1. PICK d, e \in Calls :
                /\ KindOf(d) = "register" /\ By(d) = a[1] /\ plot[d].dev.id = a[2]
                /\ KindOf(e) = "create" /\ plot[e].kept /\ reply[e] = 201
                /\ plot[e].dev = plot[d].dev
        BY <2>1 DEF AdmittedByToken
      <3>2. Vouched(plot[d].dev)
        BY <3>1 DEF Vouched
      <3> QED BY <1>2, <3>1, <3>2
    <2>2. CASE a \notin admitted
      <3>1. AddClient(c) /\ a = <<By(c), plot[c].dev.id>>
        BY <1>3, <2>2
      <3>2. KindOf(c) = "register" /\ stage[c] = "admitting"
        BY <3>1 DEF AddClient
      <3>3. Vouched(plot[c].dev)
        BY <3>2 DEF Registering
      <3> QED BY <1>2, <3>1, <3>2, <3>3
    <2> QED BY <2>1, <2>2
  <1>6. ASSUME NEW g \in Guests, clientRows'[g] # "none"
        PROVE  <<g, clientRows'[g]>> \in admitted'
    <2>1. CASE clientRows'[g] = clientRows[g]
      BY <1>3, <1>6, <2>1 DEF AdmittedByToken
    <2>2. CASE clientRows'[g] # clientRows[g]
      <3>1. AddClient(c)
        BY <1>1, <1>2, <1>6, <2>2 DEF Frames, DeregisterClient
      <3>2. g = By(c) /\ clientRows'[g] = plot[c].dev.id
        BY <1>1, <2>2, <3>1 DEF AddClient
      <3> QED BY <3>1, <3>2 DEF AddClient
    <2> QED BY <2>1, <2>2
  <1> QED BY <1>3, <1>4, <1>5, <1>6

\* A session is for a guest that was admitted, or that has a session already.
LEMMA SessionsStay ==
    ASSUME HostTypeOK, Shaped, Registering, AdmittedByToken, NEW c \in Calls, HostStep(c)
    PROVE  /\ \A g \in Guests : purse'[g] # <<>> => \E a \in admitted' : a[1] = g
           /\ \A n \in DOMAIN issued' : \E a \in admitted' : a[1] = issued'[n].subject
  <1>1. admitted \subseteq admitted' /\ Frames(c)
    BY ClientsStay, HostFrames
  <1>2. CASE UNCHANGED <<issued, purse>>
    BY <1>1, <1>2 DEF Registering, AdmittedByToken
  <1>3. CASE NewSession(By(c)) /\ By(c) \in Guests /\ \E a \in admitted : a[1] = By(c)
    <2>1. /\ DOMAIN issued' = DOMAIN issued \cup {Len(issued) + 1}
          /\ \A n \in DOMAIN issued : issued'[n] = issued[n]
          /\ issued'[Len(issued) + 1].subject = By(c)
      BY <1>3, SessionOpens
    <2>2. \A g \in Guests \ {By(c)} : purse'[g] = purse[g]
      BY <1>3 DEF NewSession, HostTypeOK
    <2> QED BY <1>1, <1>3, <2>1, <2>2 DEF Registering, AdmittedByToken
  <1>4. OpenSession(c) \/ RefreshSession(c) \/ UNCHANGED <<issued, purse>>
    BY <1>1 DEF Frames
  <1>5. ASSUME OpenSession(c)
        PROVE  NewSession(By(c)) /\ By(c) \in Guests /\ \E a \in admitted : a[1] = By(c)
    <2>1. NewSession(By(c)) /\ stage[c] = "added" /\ KindOf(c) = "register"
      BY <1>5 DEF OpenSession
    <2>2. By(c) \in Guests
      BY <2>1, CallsFit
    <2> QED BY <2>1, <2>2 DEF Registering
  <1>6. ASSUME RefreshSession(c), ~UNCHANGED <<issued, purse>>
        PROVE  NewSession(By(c)) /\ By(c) \in Guests /\ \E a \in admitted : a[1] = By(c)
    <2>1. NewSession(By(c)) /\ KindOf(c) = "refresh" /\ HasToken(c)
      BY <1>6 DEF RefreshSession
    <2>2. By(c) \in Guests
      BY <2>1, CallsFit
    <2> QED BY <2>1, <2>2 DEF Registering, HasToken
  <1> QED BY <1>2, <1>3, <1>4, <1>5, <1>6

\* Rows of a guest appear only by a call that notes it when the guest is
\* leaving, or has left.
LEMMA RowsAppear ==
    ASSUME HostTypeOK, Buffered, NEW c \in Calls, HostStep(c), NEW g \in Guests
    PROVE  /\ NoThreads(g) => NoThreads(g)' \/ (HostStoreThread(c) /\ By(c) = g)
           /\ NoMessages(g) => NoMessages(g)' \/ (DeliverMessage(c) /\ plot[c].to = g)
           /\ (HostStoreThread(c) /\ By(c) = g) \/ (DeliverMessage(c) /\ plot[c].to = g) =>
                LeftBehind(g) \subseteq smudges'
  <1>1. Frames(c) /\ threadRows \in [Guests \X Shelves -> Calls \cup {NoCall}]
    BY HostFrames DEF HostTypeOK, ThreadTable
  <1>2. ASSUME NoThreads(g), ~(HostStoreThread(c) /\ By(c) = g)
        PROVE  NoThreads(g)'
    <2>1. \A s \in Shelves : threadRows[<<g, s>>] = NoCall
      BY <1>2 DEF NoThreads
    <2>2. CASE HostStoreThread(c)
      <3>1. threadRows' = [threadRows EXCEPT ![<<By(c), plot[c].shelf>>] = text[buffer[c]]]
        BY <2>2 DEF HostStoreThread
      <3>2. \A s \in Shelves : threadRows'[<<g, s>>] = threadRows[<<g, s>>]
        BY <1>1, <1>2, <2>2, <3>1
      <3> QED BY <2>1, <3>2 DEF NoThreads
    <2>3. CASE HostUnstoreThread(c)
      <3>1. threadRows' = [threadRows EXCEPT ![<<By(c), plot[c].shelf>>] = NoCall]
        BY <2>3 DEF HostUnstoreThread
      <3>2. \A s \in Shelves : threadRows'[<<g, s>>] \in {threadRows[<<g, s>>], NoCall}
        BY <1>1, <3>1
      <3> QED BY <2>1, <3>2 DEF NoThreads
    <2>4. CASE DeregisterThreads(c)
      <3>1. threadRows' = [r \in DOMAIN threadRows |-> IF r[1] = By(c) THEN NoCall ELSE threadRows[r]]
        BY <2>4 DEF DeregisterThreads
      <3>2. \A s \in Shelves : threadRows'[<<g, s>>] \in {threadRows[<<g, s>>], NoCall}
        BY <1>1, <3>1
      <3> QED BY <2>1, <3>2 DEF NoThreads
    <2>5. CASE UNCHANGED threadRows
      BY <2>1, <2>5 DEF NoThreads
    <2> QED BY <1>1, <2>2, <2>3, <2>4, <2>5 DEF Frames
  <1>3. ASSUME NoMessages(g), ~(DeliverMessage(c) /\ plot[c].to = g)
        PROVE  NoMessages(g)'
    <2>1. \A m \in inboxRows' : m \in inboxRows \/ m[1] # g
      <3>1. CASE DeliverMessage(c)
        <4>1. inboxRows' = inboxRows \cup {<<plot[c].to, text[buffer[c]]>>}
          BY <3>1 DEF DeliverMessage
        <4> QED BY <1>3, <3>1, <4>1
      <3>2. CASE DeregisterMessages(c)
        BY <3>2 DEF DeregisterMessages
      <3>3. CASE UNCHANGED inboxRows
        BY <3>3
      <3> QED BY <1>1, <3>1, <3>2, <3>3 DEF Frames
    <2> QED BY <1>3, <2>1 DEF NoMessages
  <1>4. ASSUME HostStoreThread(c) /\ By(c) = g
        PROVE  LeftBehind(g) \subseteq smudges'
    BY <1>4 DEF HostStoreThread
  <1>5. ASSUME DeliverMessage(c) /\ plot[c].to = g
        PROVE  LeftBehind(g) \subseteq smudges'
    BY <1>5 DEF DeliverMessage
  <1> QED BY <1>2, <1>3, <1>4, <1>5

\* What a deregistration has removed stays away, or somebody is noted.
LEMMA LeavingStays ==
    ASSUME HostTypeOK, Buffered, Shaped, Leaving, NEW c \in Calls, HostStep(c)
    PROVE  Leaving'
  <1>1. Advances(c) /\ Frames(c) /\ plot' = plot
        /\ \A d \in Calls : d # c => stage'[d] = stage[d]
    BY HostAdvances, HostFrames, AnswersStay
  <1>2. SUFFICES ASSUME NEW d \in Calls, stage'[d] \in {"deregistering", "forgetting"}
                 PROVE  /\ By(d)' \in smudges' \/ NoThreads(By(d))'
                        /\ stage'[d] = "forgetting" => By(d)' \in smudges' \/ NoMessages(By(d))'
    BY DEF Leaving
  <1> DEFINE g == By(d)
  <1>3. \/ d = c /\ DeregisterThreads(c) /\ stage'[d] = "deregistering"
        \/ d = c /\ DeregisterMessages(c) /\ stage'[d] = "forgetting"
        \/ stage'[d] = stage[d]
    BY <1>1, <1>2, StageReached DEF CallGoesOn
  <1>4. CASE d = c /\ DeregisterThreads(c) /\ stage'[d] = "deregistering"
    <2>1. KindOf(c) = "deregister" /\ threadRows' =
            [r \in DOMAIN threadRows |-> IF r[1] = By(c) THEN NoCall ELSE threadRows[r]]
      BY <1>4 DEF DeregisterThreads
    <2>2. g \in Guests /\ threadRows \in [Guests \X Shelves -> Calls \cup {NoCall}]
      BY <1>4, <2>1, CallsFit DEF HostTypeOK, ThreadTable
    <2>3. \A s \in Shelves : threadRows'[<<g, s>>] = NoCall
      BY <1>4, <2>1, <2>2
    <2>4. By(d)' = g
      BY <1>1 DEF By
    <2> QED BY <1>4, <2>3, <2>4 DEF NoThreads
  <1>5. CASE d = c /\ DeregisterMessages(c) /\ stage'[d] = "forgetting"
    <2>1. /\ inboxRows' = {m \in inboxRows : m[1] # g} /\ UNCHANGED <<threadRows, smudges>>
          /\ stage[d] = "deregistering"
      BY <1>5 DEF DeregisterMessages
    <2>2. g \in smudges \/ NoThreads(g)
      BY <2>1 DEF Leaving
    <2> QED BY <1>1, <2>1, <2>2 DEF NoThreads, NoMessages, By
  <1>6. CASE stage'[d] = stage[d]
    <2>1. KindOf(d) = "deregister"
      BY <1>2, <1>6 DEF Shaped
    <2>2. PICK h \in Guests : h = By(d)
      BY <2>1, CallsFit
    <2>3. /\ h \in smudges \/ NoThreads(h)
          /\ stage[d] = "forgetting" => h \in smudges \/ NoMessages(h)
      BY <1>2, <1>6, <2>2 DEF Leaving, NoThreads, NoMessages
    <2>4. LeftBehind(h) = {h}
      BY <1>2, <1>6, <2>1, <2>2 DEF LeftBehind
    <2>5. smudges \subseteq smudges'
      BY <1>1 DEF Frames
    <2>6. By(d)' = h
      BY <1>1, <2>2 DEF By
    <2>7. /\ NoThreads(h) => NoThreads(h)' \/ LeftBehind(h) \subseteq smudges'
          /\ NoMessages(h) => NoMessages(h)' \/ LeftBehind(h) \subseteq smudges'
      BY <2>2, RowsAppear
    <2>8. h \in smudges' \/ NoThreads(h)'
      BY <2>3, <2>4, <2>5, <2>7
    <2>9. stage'[d] = "forgetting" => h \in smudges' \/ NoMessages(h)'
      BY <1>6, <2>3, <2>4, <2>5, <2>7
    <2> QED BY <2>6, <2>8, <2>9 DEF NoThreads, NoMessages
  <1> QED BY <1>3, <1>4, <1>5, <1>6

\* Nobody has rows who is no client.
LEMMA LeftStays ==
    ASSUME HostTypeOK, Buffered, Leaving, NothingLeft, NEW c \in Calls, HostStep(c)
    PROVE  NothingLeft'
  <1>1. Frames(c) /\ clientRows \in [Guests -> TokenIds \cup {"none"}]
    BY HostFrames DEF HostTypeOK, ClientTable
  <1>2. SUFFICES ASSUME NEW g \in Guests, clientRows'[g] = "none", g \notin smudges'
                 PROVE  NoThreads(g)' /\ NoMessages(g)'
    BY DEF NothingLeft, NoThreads, NoMessages
  <1>3. g \notin smudges
    BY <1>1, <1>2 DEF Frames
  <1>4. CASE clientRows[g] = "none"
    <2>1. NoThreads(g) /\ NoMessages(g)
      BY <1>3, <1>4 DEF NothingLeft, NoThreads, NoMessages
    <2>2. LeftBehind(g) = {g}
      BY <1>4 DEF LeftBehind
    <2> QED BY <1>2, <2>1, <2>2, RowsAppear
  <1>5. CASE clientRows[g] # "none"
    <2>1. ~AddClient(c)
      <3>1. SUFFICES ASSUME AddClient(c)
                     PROVE  FALSE
        OBVIOUS
      <3>2. clientRows'[g] = clientRows[g] \/ (g = By(c) /\ clientRows[g] = "none")
        BY <1>1, <3>1 DEF AddClient
      <3> QED BY <1>2, <1>5, <3>2
    <2>2. DeregisterClient(c)
      BY <1>1, <1>2, <1>5, <2>1 DEF Frames
    <2>3. g = By(c) /\ stage[c] = "forgetting" /\ UNCHANGED <<threadRows, inboxRows>>
      BY <1>1, <1>2, <1>5, <2>2 DEF DeregisterClient
    <2>4. NoThreads(g) /\ NoMessages(g)
      BY <1>3, <2>3 DEF Leaving
    <2> QED BY <2>3, <2>4 DEF NoThreads, NoMessages
  <1> QED BY <1>4, <1>5

\* A row is written with the body of the call that writes it.
LEMMA OwnersStay ==
    ASSUME HostTypeOK, Buffered, RowsOwned, NEW c \in Calls, HostStep(c)
    PROVE  RowsOwned'
  <1>1. Frames(c) /\ Advances(c) /\ plot' = plot
    BY HostFrames, HostAdvances DEF Advances
  <1>2. \A d : KindOf(d)' = KindOf(d) /\ By(d)' = By(d)
    BY <1>1 DEF KindOf, By
  <1>3. /\ threadRows \in [Guests \X Shelves -> Calls \cup {NoCall}]
        /\ inboxRows \subseteq Guests \X (Calls \cup {NoCall})
        /\ stage \in [Calls -> Stages]
    BY DEF HostTypeOK, ThreadTable, InboxTable
  <1>4. ASSUME NEW r \in DOMAIN threadRows', threadRows'[r] # NoCall
        PROVE  /\ KindOf(threadRows'[r]) = "storeThread"
               /\ <<By(threadRows'[r]), plot[threadRows'[r]].shelf>> = r
    <2>1. \/ r \in DOMAIN threadRows /\ threadRows'[r] = threadRows[r]
          \/ HostStoreThread(c) /\ r = <<By(c), plot[c].shelf>> /\ threadRows'[r] = text[buffer[c]]
      <3>1. CASE HostStoreThread(c)
        <4>1. threadRows' = [threadRows EXCEPT ![<<By(c), plot[c].shelf>>] = text[buffer[c]]]
          BY <3>1 DEF HostStoreThread
        <4> QED BY <1>3, <1>4, <3>1, <4>1
      <3>2. CASE HostUnstoreThread(c)
        <4>1. threadRows' = [threadRows EXCEPT ![<<By(c), plot[c].shelf>>] = NoCall]
          BY <3>2 DEF HostUnstoreThread
        <4> QED BY <1>3, <1>4, <4>1
      <3>3. CASE DeregisterThreads(c)
        BY <1>3, <1>4, <3>3 DEF DeregisterThreads
      <3>4. CASE UNCHANGED threadRows
        BY <1>3, <1>4, <3>4
      <3> QED BY <1>1, <3>1, <3>2, <3>3, <3>4 DEF Frames
    <2>2. CASE r \in DOMAIN threadRows /\ threadRows'[r] = threadRows[r]
      BY <1>4, <2>2 DEF RowsOwned
    <2>3. CASE /\ HostStoreThread(c) /\ r = <<By(c), plot[c].shelf>>
               /\ threadRows'[r] = text[buffer[c]]
      <3>1. text[buffer[c]] = c /\ KindOf(c) = "storeThread"
        BY <2>3 DEF HostStoreThread, Buffered
      <3> QED BY <2>3, <3>1
    <2> QED BY <2>1, <2>2, <2>3
  <1>5. ASSUME NEW m \in inboxRows'
        PROVE  m[2] \in pins' /\ m[2] # NoCall /\ KindOf(m[2]) = "deliver" /\ plot[m[2]].to = m[1]
    <2>1. m \in inboxRows \/ (DeliverMessage(c) /\ m = <<plot[c].to, text[buffer[c]]>>)
      BY <1>1 DEF Frames, DeliverMessage, DeregisterMessages
    <2>2. CASE m \in inboxRows
      <3>1. m[2] \in pins /\ m[2] # NoCall /\ KindOf(m[2]) = "deliver" /\ plot[m[2]].to = m[1]
        BY <2>2 DEF RowsOwned
      <3>2. m[2] \in Calls
        BY <1>3, <2>2, <3>1
      <3>3. m[2] \in pins'
        <4>1. CASE pins \subseteq pins'
          BY <3>1, <4>1
        <4>2. CASE UnstoreFile(c)
          <5>1. plot[c].parts[1] = "bad" \/ pins' = pins \ {plot[c].parts[1]}
            BY <4>2 DEF UnstoreFile
          <5>2. CASE plot[c].parts[1] = "bad"
            BY <3>1, <4>2, <5>2 DEF UnstoreFile
          <5>3. CASE pins' = pins \ {plot[c].parts[1]}
            <6>1. /\ plot[c].parts \in Seq(Parts \cup {"bad", "dir"}) /\ plot[c].parts # <<>>
              BY <4>2, CallsFit DEF UnstoreFile
            <6>2. plot[c].parts[1] \in Parts \cup {"bad", "dir"}
              BY <6>1
            <6>3. plot[c].parts[1] # m[2]
              BY <3>2, <6>2, CafeHostAssumption DEF CafeHostAssumption
            <6> QED BY <3>1, <5>3, <6>3
          <5> QED BY <5>1, <5>2, <5>3
        <4> QED BY <1>1, <4>1, <4>2 DEF Frames
      <3> QED BY <3>1, <3>3
    <2>3. CASE DeliverMessage(c) /\ m = <<plot[c].to, text[buffer[c]]>>
      <3>1. /\ text[buffer[c]] = c /\ KindOf(c) = "deliver"
            /\ pins' = pins \cup {text[buffer[c]]}
        BY <2>3 DEF DeliverMessage, Buffered
      <3>2. c # NoCall
        BY CafeHostAssumption DEF CafeHostAssumption, NoCall
      <3> QED BY <2>3, <3>1, <3>2
    <2> QED BY <2>1, <2>2, <2>3
  <1> QED BY <1>1, <1>2, <1>4, <1>5 DEF RowsOwned, KindOf, By

\* An upload is pinned file by file.
LEMMA UploadsStay ==
    ASSUME HostTypeOK, Shaped, Uploading, NEW c \in Calls, HostStep(c)
    PROVE  Uploading'
  <1>1. Frames(c) /\ Advances(c) /\ plot' = plot
        /\ \A d \in Calls : /\ stage[d] # "none" => stage'[d] # "none"
                            /\ d # c => stage'[d] = stage[d]
    BY HostFrames, HostAdvances, AnswersStay
  <1>2. SUFFICES ASSUME NEW d \in Calls, KindOf(d) = "store", stage'[d] \in {"none", "authorized"}
                 PROVE  /\ reads'[d] <= Len(plot[d].parts)
                        /\ \A i \in 1..reads'[d] : plot[d].parts[i] \in pins' \cup smudges'
    BY <1>1 DEF Uploading, KindOf
  <1>3. stage[d] \in {"none", "authorized"}
    <2>1. stage'[d] = "authorized" /\ d = c => stage[d] = "authorized" \/ Authorize(c)
      BY <1>1, StageReached DEF CallGoesOn
    <2> QED BY <1>1, <1>2, <2>1 DEF Authorize, Started
  <1>4. /\ reads[d] <= Len(plot[d].parts)
        /\ \A i \in 1..reads[d] : plot[d].parts[i] \in pins' \cup smudges'
    BY <1>1, <1>2, <1>3 DEF Uploading, Frames
  <1>5. CASE reads'[d] = reads[d]
    BY <1>4, <1>5
  <1>6. CASE reads'[d] # reads[d]
    <2>1. StoreFile(c)
      BY <1>1, <1>6 DEF Frames
    <2>2. /\ d = c /\ reads'[d] = reads[d] + 1 /\ reads[d] \in Nat
          /\ reads[d] + 1 <= Len(plot[d].parts)
      BY <1>6, <2>1 DEF StoreFile, HostTypeOK
    <2>3. plot[d].parts[reads[d] + 1] \in pins'
      <3>1. ~Reply(c, 400)
        BY <1>2, <2>2 DEF Reply, MoveTo, HostTypeOK
      <3> QED BY <2>1, <2>2, <3>1 DEF StoreFile
    <2>4. \A i \in 1..reads'[d] : i \in 1..reads[d] \/ i = reads[d] + 1
      BY <2>2
    <2> QED BY <1>4, <2>2, <2>3, <2>4
  <1> QED BY <1>5, <1>6

\* Who is told that a thread, or files, are stored.
LEMMA StoredReplies ==
    ASSUME HostTypeOK, NEW c \in Calls, HostStep(c), reply'[c] = 204, reply[c] # 204,
           KindOf(c) \in {"storeThread", "store"}
    PROVE  HostStoreThread(c) \/ StoredFiles(c)
  <1>1. \A n : Reply(c, n) => reply'[c] = n
    BY DEF Reply, HostTypeOK
  <1>2. ~CreateCafeToken(c) /\ ~ValidateCafeToken(c) /\ ~RemoveCafeToken(c) /\ ~UnstoreFile(c)
        /\ ~PinArchive(c) /\ ~HostUnstoreThread(c) /\ ~DeliverMessage(c) /\ ~ClientStep(c)
    BY DEF CreateCafeToken, ValidateCafeToken, RemoveCafeToken, UnstoreFile, PinArchive,
           HostUnstoreThread, DeliverMessage, ClientStep, CheckToken, AddClient, OpenSession,
           RefreshSession, DeregisterThreads, DeregisterMessages, DeregisterClient
  <1>3. ~Authorize(c)
    <2>1. Authorize(c) => UNCHANGED reply \/ \E n \in {401, 403} : Reply(c, n)
      BY AuthorizeAnswers
    <2> QED BY <1>1, <2>1
  <1>4. ~FindClient(c)
    <2>1. FindClient(c) => UNCHANGED reply \/ \E n \in {200, 403} : Reply(c, n)
      BY DEF FindClient
    <2> QED BY <1>1, <2>1
  <1>5. ~ReadBody(c) /\ ~GiveBack(c)
    <2>1. ReadBody(c) \/ GiveBack(c) => UNCHANGED reply \/ Reply(c, 400)
      BY DEF ReadBody, GiveBack
    <2> QED BY <1>1, <2>1
  <1>6. ~StoreFile(c)
    <2>1. StoreFile(c) => UNCHANGED reply \/ Reply(c, 400)
      BY DEF StoreFile
    <2> QED BY <1>1, <2>1
  <1>7. ~SearchStep(c)
    <2>1. SearchStep(c) => UNCHANGED reply \/ \E n \in {200, 500} : Reply(c, n)
      BY DEF SearchStep, OpenSearch, QueryFinds, QueryEnds, StreamResult, StreamEnds, CallerLeaves,
             CancelSearch, StreamGone
    <2> QED BY <1>1, <2>1
  <1> QED BY <1>2, <1>3, <1>4, <1>5, <1>6, <1>7 DEF HostStep

\* What was stored is taken away by those that WordKept names, and by no others.
LEMMA WordStays ==
    ASSUME HostTypeOK, Buffered, Shaped, Uploading, WordKept, NEW c \in Calls, HostStep(c)
    PROVE  WordKept'
  <1>1. Frames(c) /\ plot' = plot
        /\ \A d \in Calls : /\ stage[d] # "none" => stage'[d] # "none"
                            /\ reply[d] # 0 => reply'[d] = reply[d]
                            /\ d # c => stage'[d] = stage[d] /\ reply'[d] = reply[d]
    BY HostFrames, HostAdvances, AnswersStay
  <1>2. threadRows \in [Guests \X Shelves -> Calls \cup {NoCall}] /\ NoCall \notin Calls
        /\ stage \in [Calls -> Stages]
    BY CafeHostAssumption DEF HostTypeOK, ThreadTable, CafeHostAssumption, NoCall
  <1>3. ASSUME NEW d \in Calls, KindOf(d) = "storeThread", reply'[d] = 204
        PROVE  \/ threadRows'[<<By(d), plot[d].shelf>>] # NoCall
               \/ \E e \in Calls : /\ By(e) = By(d) /\ stage'[e] # "none"
                                   /\ \/ KindOf(e) = "deregister"
                                      \/ KindOf(e) = "unstoreThread" /\ plot[e].shelf = plot[d].shelf
    <2> DEFINE r == <<By(d), plot[d].shelf>>
    <2>0. r \in Guests \X Shelves
      BY <1>3, CallsFit
    <2>1. CASE reply[d] # 204
      <3>1. d = c
        BY <1>1, <1>3, <2>1
      <3>2. HostStoreThread(c)
        BY <1>3, <2>1, <3>1, StoredReplies DEF StoredFiles
      <3>3. threadRows' = [threadRows EXCEPT ![r] = c]
        BY <3>1, <3>2 DEF HostStoreThread, Buffered
      <3> QED BY <1>2, <2>0, <3>3
    <2>2. CASE reply[d] = 204
      <3>1. \/ threadRows[r] # NoCall
            \/ \E e \in Calls : /\ By(e) = By(d) /\ stage[e] # "none"
                                /\ \/ KindOf(e) = "deregister"
                                   \/ KindOf(e) = "unstoreThread" /\ plot[e].shelf = plot[d].shelf
        BY <1>3, <2>2 DEF WordKept
      <3>2. CASE threadRows[r] # NoCall
        <4>1. CASE HostStoreThread(c)
          <5>1. threadRows' = [threadRows EXCEPT ![<<By(c), plot[c].shelf>>] = c]
            BY <4>1 DEF HostStoreThread, Buffered
          <5> QED BY <1>2, <2>0, <3>2, <5>1
        <4>2. CASE HostUnstoreThread(c)
          <5>1. threadRows' = [threadRows EXCEPT ![<<By(c), plot[c].shelf>>] = NoCall]
                /\ KindOf(c) = "unstoreThread" /\ stage[c] # "none"
            BY <4>2 DEF HostUnstoreThread
          <5>2. CASE r = <<By(c), plot[c].shelf>>
            BY <1>1, <5>1, <5>2
          <5>3. CASE r # <<By(c), plot[c].shelf>>
            BY <1>2, <2>0, <3>2, <5>1, <5>3
          <5> QED BY <5>2, <5>3
        <4>3. CASE DeregisterThreads(c)
          <5>1. /\ KindOf(c) = "deregister" /\ stage' = [stage EXCEPT ![c] = "deregistering"]
                /\ threadRows' = [q \in DOMAIN threadRows |-> IF q[1] = By(c) THEN NoCall ELSE threadRows[q]]
            BY <4>3 DEF DeregisterThreads, MoveTo
          <5>2. CASE By(c) = By(d)
            BY <1>2, <5>1, <5>2
          <5>3. CASE By(c) # By(d)
            BY <1>2, <2>0, <3>2, <5>1, <5>3
          <5> QED BY <5>2, <5>3
        <4>4. CASE UNCHANGED threadRows
          BY <3>2, <4>4
        <4> QED BY <1>1, <4>1, <4>2, <4>3, <4>4 DEF Frames
      <3>3. CASE \E e \in Calls :
                    /\ By(e) = By(d) /\ stage[e] # "none"
                    /\ \/ KindOf(e) = "deregister"
                       \/ KindOf(e) = "unstoreThread" /\ plot[e].shelf = plot[d].shelf
        BY <1>1, <3>3
      <3> QED BY <3>1, <3>2, <3>3
    <2> QED BY <2>1, <2>2
  <1>4. ASSUME NEW d \in Calls, KindOf(d) = "store", reply'[d] = 204
        PROVE  ToSet(plot[d].parts) \subseteq pins' \cup smudges'
    <2>0. pins \cup smudges \subseteq pins' \cup smudges'
      BY <1>1 DEF Frames
    <2>1. CASE reply[d] = 204
      <3>1. ToSet(plot[d].parts) \subseteq pins \cup smudges
        BY <1>4, <2>1 DEF WordKept
      <3> QED BY <2>0, <3>1
    <2>2. CASE reply[d] # 204
      <3>1. d = c
        BY <1>1, <1>4, <2>2
      <3>2. StoredFiles(c)
        BY <1>4, <2>2, <3>1, StoredReplies DEF HostStoreThread
      <3>3. stage[d] = "authorized" /\ reads[d] = Len(plot[d].parts)
        BY <3>1, <3>2 DEF StoredFiles
      <3>4. \A i \in 1..Len(plot[d].parts) : plot[d].parts[i] \in pins \cup smudges
        BY <1>4, <3>3 DEF Uploading
      <3>5. plot[d].parts \in Seq(Parts \cup {"bad", "dir"})
        BY CallsFit
      <3>6. ToSet(plot[d].parts) \subseteq pins \cup smudges
        BY <3>4, <3>5 DEF ToSet
      <3> QED BY <2>0, <3>6
    <2> QED BY <2>1, <2>2
  <1> QED BY <1>1, <1>3, <1>4 DEF WordKept, KindOf, By

LEMMA HostInvInit ==
    ASSUME HostInit
    PROVE  HostInv
  <1>1. HostTypeOK
    <2>1. 0 \in 0..MaxHour
      BY CafeHostAssumption DEF CafeHostAssumption
    <2>2. /\ issued \in Seq([subject : Guests, at : 0..MaxHour])
          /\ purse \in [Guests -> Seq(DOMAIN issued)]
      BY DEF HostInit
    <2>3. /\ tokenRows \in TokenTable /\ nonceRows \in NonceTable /\ clientRows \in ClientTable
          /\ threadRows \in ThreadTable /\ inboxRows \in InboxTable
      BY DEF HostInit, TokenTable, NonceTable, ClientTable, ThreadTable, InboxTable
    <2>4. stage \in [Calls -> Stages]
      BY DEF HostInit, Stages
    <2> QED BY <2>1, <2>2, <2>3, <2>4 DEF HostInit, HostTypeOK
  <1>2. Buffered /\ Shaped /\ Leaving /\ NothingLeft
    BY DEF HostInit, Buffered, Shaped, Leaving, NothingLeft
  <1>3. Registering /\ AdmittedByToken
    BY DEF HostInit, Registering, AdmittedByToken
  <1>4. Uploading
    <2> SUFFICES ASSUME NEW c \in Calls
                 PROVE  /\ reads[c] <= Len(plot[c].parts)
                        /\ \A i \in 1..reads[c] : plot[c].parts[i] \in pins \cup smudges
      BY DEF Uploading
    <2>1. reads[c] = 0
      BY DEF HostInit
    <2>2. Len(plot[c].parts) \in Nat
      BY <1>1, CallsFit
    <2> QED BY <2>1, <2>2
  <1>5. RowsOwned /\ WordKept
    BY DEF HostInit, RowsOwned, WordKept
  <1> QED BY <1>1, <1>2, <1>3, <1>4, <1>5 DEF HostInv

LEMMA HostInvStep ==
    ASSUME HostInv, [HostNext]_hostVars
    PROVE  HostInv'
  <1> USE DEF HostInv
  <1>1. ASSUME NEW c \in Calls, HostStep(c)
        PROVE  HostInv'
    <2>1. HostTypeOK' /\ Buffered' /\ Shaped' /\ Leaving' /\ Uploading'
      BY <1>1, HostStepTypes, BuffersStay, HostAdvances, ShapeStays, LeavingStays, UploadsStay
    <2>2. RowsOwned' /\ NothingLeft' /\ WordKept'
      BY <1>1, OwnersStay, LeftStays, WordStays
    <2>3. plot' = plot /\ \A d : KindOf(d)' = KindOf(d) /\ By(d)' = By(d)
      BY <1>1, HostAdvances DEF Advances, KindOf, By
    <2>4. Registering'
      BY <1>1, <2>3, TokensStay, ClientsStay, SessionsStay DEF Registering
    <2>5. AdmittedByToken'
      BY <1>1, <2>3, ClientsStay, SessionsStay DEF AdmittedByToken, Vouched
    <2> QED BY <2>1, <2>2, <2>4, <2>5
  <1>2. CASE HourPasses
    <2>1. HostTypeOK'
      BY <1>2, HourTypes
    <2>2. UNCHANGED <<plot, tokenRows, nonceRows, clientRows, threadRows, inboxRows, pins, issued,
                      purse, stage, reply, reads, buffer, text, query, gone, admitted, smudges>>
      BY <1>2 DEF HourPasses, hostRows, hostCalls, hostSearch
    <2>3. Buffered' /\ Shaped' /\ Leaving' /\ Uploading' /\ Registering'
      BY <2>2 DEF Buffered, Shaped, Leaving, Uploading, Registering, Vouched, KindOf, By, NoThreads,
                  NoMessages
    <2>4. RowsOwned' /\ NothingLeft' /\ WordKept' /\ AdmittedByToken'
      BY <2>2 DEF RowsOwned, NothingLeft, WordKept, AdmittedByToken, KindOf, By
    <2> QED BY <2>1, <2>3, <2>4
  <1>3. CASE UNCHANGED hostVars
    <2>1. UNCHANGED <<plot, hour, tokenRows, nonceRows, clientRows, threadRows, inboxRows, pins,
                      issued, purse, stage, reply, reads, buffer, text, query, gone, admitted,
                      smudges>>
      BY <1>3 DEF hostVars, hostRows, hostCalls, hostSearch
    <2>2. HostTypeOK'
      BY <2>1 DEF HostTypeOK
    <2>3. Buffered' /\ Shaped' /\ Leaving' /\ Uploading' /\ Registering'
      BY <2>1 DEF Buffered, Shaped, Leaving, Uploading, Registering, Vouched, KindOf, By, NoThreads,
                  NoMessages
    <2>4. RowsOwned' /\ NothingLeft' /\ WordKept' /\ AdmittedByToken'
      BY <2>1 DEF RowsOwned, NothingLeft, WordKept, AdmittedByToken, KindOf, By
    <2> QED BY <2>2, <2>3, <2>4
  <1> QED BY <1>1, <1>2, <1>3 DEF HostNext, HostStep

\* The state of the cafe's side has its shape.
THEOREM HostTypeCorrect == HostSpec => []HostTypeOK
  <1>1. HostInit => HostInv
    BY HostInvInit
  <1>2. HostInv /\ [HostNext]_hostVars => HostInv'
    BY HostInvStep
  <1>3. HostInv => HostTypeOK
    BY DEF HostInv
  <1> QED BY <1>1, <1>2, <1>3, PTL DEF HostSpec

\* Every row of a cafe holds the body that was sent for it, although the
\* handlers share buffers; nothing is left of a guest that deregistered but
\* what was written meanwhile; only a token that was kept admits; and what a
\* guest was told is stored is there until somebody takes it away.
THEOREM HostAlwaysSound == HostSpec => []HostSound
  <1>1. HostInit => HostInv
    BY HostInvInit
  <1>2. HostInv /\ [HostNext]_hostVars => HostInv'
    BY HostInvStep
  <1>3. HostInv => HostSound
    BY DEF HostInv, HostSound
  <1> QED BY <1>1, <1>2, <1>3, PTL DEF HostSpec
=============================================================================
