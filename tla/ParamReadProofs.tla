---------------------------- MODULE ParamReadProofs ----------------------------
(* What ParamRead promises for any threads, parameters, values and bounds. *)
EXTENDS ParamRead, TLAPS

-----------------------------------------------------------------------------
(* The inductive invariant. *)

SaysValue(frame) == frame.kind \in {"response", "setting"}

\* A thread that is in a call asks for a parameter, and has no answer until it
\* returns.
Askers ==
  \A t \in Threads :
    /\ pc[t] # "idle" => query[t].par \in Params
    /\ Running(t) => query[t].result = NoValue

\* The history "said" covers the controller's table and every value on its way.
Truthful ==
  /\ \A p \in Params : device[p] \in said[p]
  /\ \A i \in 1..Len(rxQueue) : SaysValue(rxQueue[i]) => rxQueue[i].val \in said[rxQueue[i].par]

\* While a query is left alone, its history "during" does the same for the
\* parameter it asks for.
Timely ==
  \A t \in Threads : Running(t) /\ query[t].clear =>
    /\ device[query[t].par] \in query[t].during
    /\ \A i \in 1..Len(rxQueue) :
         SaysValue(rxQueue[i]) /\ rxQueue[i].par = query[t].par => rxQueue[i].val \in query[t].during

\* Until the reader thread has set O_NONBLOCK it reads nothing.  If no two
\* queries have met, only one thread can take a frame that select() announced.
OneAtATime ==
  /\ reader = "start" <=> ~nonblock
  /\ ~crowded /\ ~nonblock =>
       /\ \A t, u \in Threads : Running(t) /\ Running(u) => t = u
       /\ \A t \in Threads : pc[t] = "read" => rxQueue # <<>>

IndInv == AnswersSafe /\ NeverStuckInRead /\ Askers /\ Truthful /\ Timely /\ OneAtATime

-----------------------------------------------------------------------------
(* Queues, frames and queries. *)

\* What taking the first frame of a queue leaves.
LEMMA TailFacts ==
  ASSUME NEW S, NEW q \in Seq(S), q # <<>>
  PROVE  /\ Head(q) \in S /\ Head(q) = q[1] /\ 1 \in 1..Len(q)
         /\ Tail(q) \in Seq(S) /\ Len(Tail(q)) = Len(q) - 1
         /\ \A i \in 1..Len(Tail(q)) : i + 1 \in 1..Len(q) /\ Tail(q)[i] = q[i + 1]
PROOF OBVIOUS

\* What adding a frame to a queue keeps.
LEMMA AppendFacts ==
  ASSUME NEW S, NEW q \in Seq(S), NEW e \in S
  PROVE  /\ Append(q, e) \in Seq(S) /\ Len(Append(q, e)) = Len(q) + 1 /\ Append(q, e) # <<>>
         /\ \A i \in 1..Len(Append(q, e)) :
              \/ i \in 1..Len(q) /\ Append(q, e)[i] = q[i]
              \/ i = Len(q) + 1 /\ Append(q, e)[i] = e
PROOF OBVIOUS

\* Only settings and responses carry a value, and theirs is of a parameter.
LEMMA FrameFacts ==
  /\ \A f \in Frames : SaysValue(f) => f.par \in Params /\ f.val \in Values
  /\ \A f \in Frames : f.kind \in {"request", "setting", "response"} => f.par \in Params
  /\ StatusFrame \in Frames /\ ~SaysValue(StatusFrame)
  /\ \A p \in Params : [kind |-> "request", par |-> p, val |-> NoValue] \in Frames
  /\ \A p \in Params, v \in Values :
       /\ [kind |-> "setting", par |-> p, val |-> v] \in Frames
       /\ [kind |-> "response", par |-> p, val |-> v] \in Frames
PROOF BY DEF Frames, ParamFrames, EmptyFrames, StatusFrame, SaysValue

\* A query is a record of five fields, and a proper one if it asks for anything.
LEMMA QueryFacts ==
  ASSUME NEW r \in Queries \union {NoQuery}
  PROVE  /\ r = [par |-> r.par, result |-> r.result, answered |-> r.answered,
                 clear |-> r.clear, during |-> r.during]
         /\ r.result \in Values \union {NoValue} /\ r.answered \in BOOLEAN
         /\ r.clear \in BOOLEAN /\ r.during \in SUBSET Values
         /\ r.par \in Params => r \in Queries
         /\ r.par \notin Params => r = NoQuery
PROOF
<1>1. CASE r \in Queries
  BY <1>1 DEF Queries
<1>2. CASE r = NoQuery
  <2>1. NoQuery \in [par : {NoParam}, result : {NoValue}, answered : {FALSE}, clear : {TRUE},
                     during : {{}}]
    BY DEF NoQuery
  <2>2. NoParam \in Params => NoQuery \in Queries
    BY DEF NoQuery, Queries
  <2> QED BY <1>2, <2>1, <2>2
<1> QED BY <1>1, <1>2

\* The query a request begins with.
LEMMA NewQuery ==
  ASSUME NEW p, NEW d, NEW b
  PROVE  [NoQuery EXCEPT !.par = p, !.during = d, !.clear = b] =
           [par |-> p, result |-> NoValue, answered |-> FALSE, clear |-> b, during |-> d]
PROOF
<1>1. [NoQuery EXCEPT !.par = p, !.during = d, !.clear = b] \in
        [par : {p}, result : {NoValue}, answered : {FALSE}, clear : {b}, during : {d}]
  BY DEF NoQuery
<1>2. ASSUME NEW r \in [par : {p}, result : {NoValue}, answered : {FALSE}, clear : {b},
                        during : {d}]
      PROVE  r = [par |-> p, result |-> NoValue, answered |-> FALSE, clear |-> b, during |-> d]
  OBVIOUS
<1> QED BY <1>1, <1>2

\* Decode returns a value of a frame about the parameter, or nothing.
LEMMA DecodeFacts ==
  ASSUME NEW p, NEW f \in Frames
  PROVE  /\ Decode(p, f) \in Values \union {NoValue}
         /\ Decode(p, f) # NoValue =>
              SaysValue(f) /\ f.par = p /\ Decode(p, f) = f.val
PROOF BY FrameFacts DEF Decode, SaysValue

\* The types of the state, as a step that keeps most of it uses them.
StateTypes ==
  /\ pc \in [Threads -> {"idle", "select", "read", "blocked", "returned"}]
  /\ query \in [Threads -> Queries \union {NoQuery}]
  /\ toDevice \in Seq(Frames) /\ rxQueue \in Seq(Frames)
  /\ device \in [Params -> Values]
  /\ said \in [Params -> SUBSET Values]

LEMMA Types == IndInv => StateTypes
PROOF BY DEF IndInv, AnswersSafe, TypeOK, StateTypes

-----------------------------------------------------------------------------
LEMMA InitInv == Init => IndInv
PROOF
<1> SUFFICES ASSUME Init PROVE IndInv
  OBVIOUS
<1> USE DEF Init
<1>1. TypeOK
  <2>1. query \in [Threads -> Queries \union {NoQuery}] /\ said \in [Params -> SUBSET Values]
    BY StoredAssumption
  <2>2. /\ toDevice \in Seq(Frames) /\ Len(toDevice) = 0
        /\ rxQueue \in Seq(Frames) /\ Len(rxQueue) = 0
    OBVIOUS
  <2>3. /\ pc \in [Threads -> {"idle", "select", "read", "blocked", "returned"}]
        /\ reader = "start" /\ nonblock \in BOOLEAN /\ crowded \in BOOLEAN
        /\ device \in [Params -> Values]
    BY StoredAssumption
  <2>4. calls \in 0..MaxCalls /\ noise \in 0..MaxNoise
    BY BoundsAssumption
  <2> HIDE DEF Init
  <2> QED BY <2>1, <2>2, <2>3, <2>4, BoundsAssumption DEF TypeOK
<1>2. AnswersSafe /\ NeverStuckInRead /\ Askers
  BY <1>1 DEF AnswersSafe, ReadIsAuthentic, ReadIsFresh, Returned, NeverStuckInRead, Askers, Running
<1>3. Truthful /\ Timely /\ OneAtATime
  BY DEF Truthful, Timely, OneAtATime, Running
<1> QED BY <1>2, <1>3 DEF IndInv

(* The application threads. *)

LEMMA ReadRequestStep ==
  ASSUME IndInv, NEW t \in Threads, NEW p \in Params, ReadRequest(t, p)
  PROVE  IndInv'
PROOF
<1> DEFINE alone == NoneAbout(p, toDevice) /\ NoneAbout(p, rxQueue)
           q == [par |-> p, result |-> NoValue, answered |-> FALSE, clear |-> alone,
                 during |-> {device[p]}]
<1>0. IndInv /\ StateTypes
  BY Types
<1>1. /\ pc' = [pc EXCEPT ![t] = "select"]
      /\ query' = [query EXCEPT ![t] = q]
      /\ pc[t] = "idle" /\ calls < MaxCalls /\ calls' = calls + 1 /\ Room(toDevice)
      /\ toDevice' = Append(toDevice, [kind |-> "request", par |-> p, val |-> NoValue])
      /\ crowded' = (crowded \/ (~nonblock /\ \E u \in Threads \ {t} : Running(u)))
      /\ UNCHANGED <<reader, nonblock, device, rxQueue, said, noise>>
  <2>1. alone \in BOOLEAN
    BY DEF NoneAbout
  <2>2. [NoQuery EXCEPT !.par = p, !.during = {device[p]}, !.clear = alone] = q
    BY <2>1, NewQuery, Zenon
  <2> QED BY <2>2, Zenon DEF ReadRequest, readerVars
<1>2. alone \in BOOLEAN /\ (alone => \A i \in 1..Len(rxQueue) : rxQueue[i].par # p)
  BY <1>0 DEF NoneAbout, StateTypes
<1> HIDE DEF alone
<1>3. /\ q \in Queries /\ q.par = p /\ q.result = NoValue /\ q.during = {device[p]}
      /\ q.clear => \A i \in 1..Len(rxQueue) : rxQueue[i].par # p
  BY <1>0, <1>2 DEF Queries, StateTypes
<1> HIDE DEF q
<1>4. /\ query'[t] = q /\ \A u \in Threads : u # t => query'[u] = query[u]
      /\ pc'[t] = "select" /\ \A u \in Threads : u # t => pc'[u] = pc[u]
  BY <1>0, <1>1 DEF StateTypes
<1>5. \A u \in Threads : u # t => Running(u)' = Running(u)
  BY <1>4 DEF Running
<1>6. TypeOK'
  <2>1. toDevice' \in Seq(Frames) /\ Len(toDevice') <= QueueBound
    BY <1>0, <1>1, AppendFacts, FrameFacts, BoundsAssumption DEF Room, StateTypes
  <2>2. calls' \in 0..MaxCalls /\ crowded' \in BOOLEAN
    BY <1>0, <1>1, BoundsAssumption DEF IndInv, AnswersSafe, TypeOK
  <2> QED BY <1>0, <1>1, <1>3, <2>1, <2>2 DEF IndInv, AnswersSafe, TypeOK, StateTypes
<1>7. (ReadIsAuthentic /\ ReadIsFresh)'
  BY <1>0, <1>1, <1>4 DEF IndInv, AnswersSafe, ReadIsAuthentic, ReadIsFresh, Returned
<1>8. NeverStuckInRead' /\ Truthful'
  BY <1>0, <1>1, <1>4 DEF IndInv, NeverStuckInRead, Truthful
<1>9. Askers' /\ Timely'
  BY <1>0, <1>1, <1>3, <1>4, <1>5 DEF IndInv, Askers, Timely
<1>10. OneAtATime'
  <2>1. ~crowded' /\ ~nonblock' => \A u \in Threads : u # t => ~Running(u)
    BY <1>1
  <2> QED BY <1>0, <1>1, <1>4, <1>5, <2>1 DEF IndInv, OneAtATime
<1> QED BY <1>6, <1>7, <1>8, <1>9, <1>10 DEF IndInv, AnswersSafe

LEMMA ReadRefusedStep ==
  ASSUME IndInv, NEW t \in Threads, NEW p \in Params, ReadRefused(t, p)
  PROVE  IndInv'
PROOF
<1> DEFINE q == [NoQuery EXCEPT !.par = p, !.during = {device[p]}]
<1>0. IndInv /\ StateTypes
  BY Types
<1>1. /\ pc' = [pc EXCEPT ![t] = "returned"] /\ query' = [query EXCEPT ![t] = q]
      /\ calls < MaxCalls /\ calls' = calls + 1
      /\ UNCHANGED <<readerVars, busVars, rxQueue, history, noise>>
  BY DEF ReadRefused
<1>2. q \in Queries /\ q.par = p /\ q.result = NoValue
  BY <1>0 DEF NoQuery, Queries, StateTypes
<1> HIDE DEF q
<1>3. /\ query'[t] = q /\ \A u \in Threads : u # t => query'[u] = query[u]
      /\ pc'[t] = "returned" /\ \A u \in Threads : u # t => pc'[u] = pc[u]
  BY <1>0, <1>1 DEF StateTypes
<1>4. \A u \in Threads : Running(u)' => u # t /\ Running(u)
  BY <1>3 DEF Running
<1> USE DEF readerVars, busVars, history
<1>5. TypeOK'
  BY <1>0, <1>1, <1>2, BoundsAssumption DEF IndInv, AnswersSafe, TypeOK, StateTypes
<1>6. (ReadIsAuthentic /\ ReadIsFresh)'
  BY <1>0, <1>1, <1>2, <1>3 DEF IndInv, AnswersSafe, ReadIsAuthentic, ReadIsFresh, Returned
<1>7. NeverStuckInRead' /\ Askers' /\ Truthful'
  BY <1>0, <1>1, <1>2, <1>3, <1>4 DEF IndInv, NeverStuckInRead, Askers, Truthful
<1>8. Timely' /\ OneAtATime'
  BY <1>0, <1>1, <1>3, <1>4 DEF IndInv, Timely, OneAtATime
<1> QED BY <1>5, <1>6, <1>7, <1>8 DEF IndInv, AnswersSafe

\* A step of a thread that neither takes a frame nor ends with a value.
LEMMA QuietStep ==
  ASSUME IndInv, NEW t \in Threads,
         SelectReady(t) \/ SelectTimeout(t) \/ ReadNothing(t) \/ ReadBlocks(t)
  PROVE  IndInv'
PROOF
<1>0. IndInv /\ StateTypes
  BY Types
<1>1. UNCHANGED <<query, calls, readerVars, busVars, rxQueue, history, noise>>
  BY DEF SelectReady, SelectTimeout, ReadNothing, ReadBlocks
<1>2. PICK v \in {"read", "returned", "blocked"} :
        /\ pc' = [pc EXCEPT ![t] = v]
        /\ v = "read" => rxQueue # <<>>
        /\ v = "blocked" => pc[t] = "read" /\ rxQueue = <<>> /\ ~nonblock
  BY DEF SelectReady, SelectTimeout, ReadNothing, ReadBlocks
<1>3. Running(t)
  BY DEF SelectReady, SelectTimeout, ReadNothing, ReadBlocks, Running
<1>4. pc'[t] = v /\ \A u \in Threads : u # t => pc'[u] = pc[u]
  BY <1>0, <1>2 DEF StateTypes
<1>5. \A u \in Threads : Running(u)' => Running(u)
  BY <1>3, <1>4 DEF Running
<1>6. query[t].result = NoValue /\ query[t].par \in Params
  BY <1>0, <1>3 DEF IndInv, Askers, Running
<1> USE DEF readerVars, busVars, history
<1>7. TypeOK'
  BY <1>0, <1>1, <1>2 DEF IndInv, AnswersSafe, TypeOK, StateTypes
<1>8. (ReadIsAuthentic /\ ReadIsFresh)'
  BY <1>0, <1>1, <1>4, <1>6 DEF IndInv, AnswersSafe, ReadIsAuthentic, ReadIsFresh, Returned
<1>9. Askers' /\ Truthful' /\ Timely'
  BY <1>0, <1>1, <1>4, <1>5, <1>6 DEF IndInv, Askers, Truthful, Timely
<1>10. NeverStuckInRead' /\ OneAtATime'
  BY <1>0, <1>1, <1>2, <1>4, <1>5 DEF IndInv, NeverStuckInRead, OneAtATime
<1> QED BY <1>7, <1>8, <1>9, <1>10 DEF IndInv, AnswersSafe

\* A step of any thread that takes the first frame of the receive queue keeps
\* what is known of the frames.
LEMMA TakenFrame ==
  ASSUME IndInv, rxQueue # <<>>, rxQueue' = Tail(rxQueue), UNCHANGED <<device, said>>
  PROVE  /\ rxQueue' \in Seq(Frames) /\ Len(rxQueue') <= QueueBound
         /\ Head(rxQueue) \in Frames /\ Head(rxQueue) = rxQueue[1] /\ 1 \in 1..Len(rxQueue)
         /\ Truthful'
         /\ \A i \in 1..Len(rxQueue') : \E j \in 1..Len(rxQueue) : rxQueue'[i] = rxQueue[j]
PROOF
<1>1. rxQueue \in Seq(Frames) /\ Len(rxQueue) <= QueueBound
  BY DEF IndInv, AnswersSafe, TypeOK
<1>2. /\ rxQueue' \in Seq(Frames) /\ Len(rxQueue') <= QueueBound
      /\ Head(rxQueue) \in Frames /\ Head(rxQueue) = rxQueue[1] /\ 1 \in 1..Len(rxQueue)
  BY <1>1, TailFacts, BoundsAssumption
<1>3. \A i \in 1..Len(rxQueue') : i + 1 \in 1..Len(rxQueue) /\ rxQueue'[i] = rxQueue[i + 1]
  BY <1>1, TailFacts
<1>4. Truthful'
  BY <1>3 DEF IndInv, Truthful
<1> QED BY <1>2, <1>3, <1>4

LEMMA ReadFrameStep ==
  ASSUME IndInv, NEW t \in Threads, ReadFrame(t)
  PROVE  IndInv'
PROOF
<1> DEFINE f == Head(rxQueue)
           q == [query[t] EXCEPT !.result = Decode(query[t].par, f)]
<1>0. IndInv /\ StateTypes
  BY Types
<1>1. /\ pc[t] \in {"read", "blocked"} /\ rxQueue # <<>> /\ rxQueue' = Tail(rxQueue)
      /\ pc' = [pc EXCEPT ![t] = "returned"] /\ query' = [query EXCEPT ![t] = q]
      /\ UNCHANGED <<calls, readerVars, busVars, history, noise>>
  BY DEF ReadFrame
<1>2. /\ rxQueue' \in Seq(Frames) /\ Len(rxQueue') <= QueueBound
      /\ f \in Frames /\ f = rxQueue[1] /\ 1 \in 1..Len(rxQueue) /\ Truthful'
      /\ \A i \in 1..Len(rxQueue') : \E j \in 1..Len(rxQueue) : rxQueue'[i] = rxQueue[j]
  BY <1>0, <1>1, TakenFrame DEF busVars, history
<1>3. Running(t) /\ query[t].par \in Params /\ query[t] \in Queries
  BY <1>0, <1>1, QueryFacts DEF IndInv, Askers, Running, StateTypes
<1>4. /\ q \in Queries /\ q.par = query[t].par /\ q.clear = query[t].clear
      /\ q.during = query[t].during /\ q.result = Decode(query[t].par, f)
  BY <1>2, <1>3, DecodeFacts DEF Queries
<1> HIDE DEF q
<1>5. /\ query'[t] = q /\ \A u \in Threads : u # t => query'[u] = query[u]
      /\ pc'[t] = "returned" /\ \A u \in Threads : u # t => pc'[u] = pc[u]
  BY <1>0, <1>1 DEF StateTypes
<1>6. \A u \in Threads : Running(u)' => u # t /\ Running(u)
  BY <1>5 DEF Running
<1>7. q.result # NoValue =>
        /\ q.result \in said[q.par]
        /\ q.clear => q.result \in q.during
  <2>1. q.result # NoValue => SaysValue(f) /\ f.par = q.par /\ q.result = f.val
    BY <1>2, <1>4, DecodeFacts
  <2> QED BY <1>0, <1>2, <1>3, <1>4, <2>1 DEF IndInv, Truthful, Timely
<1> USE DEF readerVars, busVars, history
<1>8. TypeOK'
  BY <1>0, <1>1, <1>2, <1>4 DEF IndInv, AnswersSafe, TypeOK, StateTypes
<1>9. (ReadIsAuthentic /\ ReadIsFresh)'
  BY <1>0, <1>1, <1>5, <1>7 DEF IndInv, AnswersSafe, ReadIsAuthentic, ReadIsFresh, Returned
<1>10. Askers' /\ Timely'
  BY <1>0, <1>1, <1>2, <1>3, <1>4, <1>5, <1>6 DEF IndInv, Askers, Timely
<1>11. NeverStuckInRead' /\ OneAtATime'
  BY <1>0, <1>1, <1>3, <1>5, <1>6 DEF IndInv, NeverStuckInRead, OneAtATime, Running
<1> QED BY <1>2, <1>8, <1>9, <1>10, <1>11 DEF IndInv, AnswersSafe

LEMMA TakeStep ==
  ASSUME IndInv, NEW t \in Threads, Take(t)
  PROVE  IndInv'
PROOF
<1>0. IndInv /\ StateTypes
  BY Types
<1>1. /\ pc' = [pc EXCEPT ![t] = "idle"] /\ query' = [query EXCEPT ![t] = NoQuery]
      /\ UNCHANGED <<calls, readerVars, busVars, rxQueue, history, noise>>
  BY DEF Take
<1>2. /\ \A u \in Threads : u # t => query'[u] = query[u] /\ pc'[u] = pc[u]
      /\ pc'[t] = "idle"
  BY <1>0, <1>1 DEF StateTypes
<1>3. \A u \in Threads : Running(u)' => u # t /\ Running(u)
  BY <1>2 DEF Running
<1> USE DEF readerVars, busVars, history
<1>4. TypeOK'
  BY <1>0, <1>1 DEF IndInv, AnswersSafe, TypeOK, StateTypes
<1>5. (ReadIsAuthentic /\ ReadIsFresh)'
  BY <1>0, <1>1, <1>2 DEF IndInv, AnswersSafe, ReadIsAuthentic, ReadIsFresh, Returned
<1>6. Askers' /\ Truthful' /\ Timely'
  BY <1>0, <1>1, <1>2, <1>3 DEF IndInv, Askers, Truthful, Timely
<1>7. NeverStuckInRead' /\ OneAtATime'
  BY <1>0, <1>1, <1>2, <1>3 DEF IndInv, NeverStuckInRead, OneAtATime
<1> QED BY <1>4, <1>5, <1>6, <1>7 DEF IndInv, AnswersSafe

\* Disturbed changes nothing but "clear", which it only takes away.
LEMMA DisturbedFacts ==
  ASSUME StateTypes, NEW p \in Params
  PROVE  /\ Disturbed(p) \in [Threads -> Queries \union {NoQuery}]
         /\ \A t \in Threads :
              /\ Disturbed(p)[t].par = query[t].par /\ Disturbed(p)[t].result = query[t].result
              /\ Disturbed(p)[t].during = query[t].during
              /\ Disturbed(p)[t].clear => query[t].clear /\ query[t].par # p
PROOF
<1> SUFFICES ASSUME NEW t \in Threads
             PROVE  LET r == [query[t] EXCEPT !.clear = @ /\ query[t].par # p]
                    IN /\ r \in Queries \union {NoQuery}
                       /\ r.par = query[t].par /\ r.result = query[t].result
                       /\ r.during = query[t].during
                       /\ r.clear => query[t].clear /\ query[t].par # p
  BY DEF Disturbed
<1>1. query[t] \in Queries \union {NoQuery}
  BY DEF StateTypes
<1>2. CASE query[t] \in Queries
  BY <1>2 DEF Queries
<1>3. CASE query[t] = NoQuery
  <2>1. NoParam = p => NoQuery \in Queries
    BY DEF NoQuery, Queries
  <2>2. NoParam # p => [NoQuery EXCEPT !.clear = @ /\ NoQuery.par # p] = NoQuery
    BY DEF NoQuery
  <2>3. NoQuery.par = NoParam
    BY DEF NoQuery
  <2> QED BY <1>2, <1>3, <2>1, <2>2, <2>3
<1> QED BY <1>1, <1>2, <1>3

LEMMA SetStep ==
  ASSUME IndInv, NEW t \in Threads, NEW p \in Params, NEW v \in Values, Set(t, p, v)
  PROVE  IndInv'
PROOF
<1>0. IndInv /\ StateTypes
  BY Types
<1>1. /\ query' = Disturbed(p) /\ Room(toDevice) /\ calls < MaxCalls /\ calls' = calls + 1
      /\ toDevice' = Append(toDevice, [kind |-> "setting", par |-> p, val |-> v])
      /\ UNCHANGED <<pc, readerVars, device, rxQueue, history, noise>>
  BY DEF Set
<1>2. toDevice' \in Seq(Frames) /\ Len(toDevice') <= QueueBound
  <2>1. [kind |-> "setting", par |-> p, val |-> v] \in Frames
    BY FrameFacts
  <2> QED BY <1>0, <1>1, <2>1, AppendFacts, BoundsAssumption DEF Room, StateTypes
<1>3. /\ query' \in [Threads -> Queries \union {NoQuery}]
      /\ \A u \in Threads : /\ query'[u].par = query[u].par /\ query'[u].result = query[u].result
                            /\ query'[u].during = query[u].during
                            /\ query'[u].clear => query[u].clear
  BY <1>0, <1>1, DisturbedFacts
<1>4. \A u \in Threads : Running(u)' = Running(u)
  BY <1>1 DEF Running
<1> USE DEF readerVars, history
<1>5. TypeOK'
  BY <1>0, <1>1, <1>2, <1>3, BoundsAssumption DEF IndInv, AnswersSafe, TypeOK, StateTypes
<1>6. (ReadIsAuthentic /\ ReadIsFresh)'
  BY <1>0, <1>1, <1>3 DEF IndInv, AnswersSafe, ReadIsAuthentic, ReadIsFresh, Returned
<1>7. NeverStuckInRead' /\ Askers' /\ Truthful'
  BY <1>0, <1>1, <1>3, <1>4 DEF IndInv, NeverStuckInRead, Askers, Truthful
<1>8. Timely' /\ OneAtATime'
  BY <1>0, <1>1, <1>3, <1>4 DEF IndInv, Timely, OneAtATime
<1> QED BY <1>5, <1>6, <1>7, <1>8 DEF IndInv, AnswersSafe

-----------------------------------------------------------------------------
(* The reader thread. *)

LEMMA ReaderStep ==
  ASSUME IndInv, ReaderNext
  PROVE  IndInv'
PROOF
<1>0. IndInv /\ StateTypes
  BY Types
<1> USE DEF appVars, busVars, history
<1>1. UNCHANGED <<appVars, busVars, history, noise>> /\ \A u \in Threads : Running(u)' = Running(u)
  BY DEF ReaderNext, ReaderSetsNonblock, ReaderSelects, ReaderReads, ReaderFindsNothing, Running
<1>2. CASE ReaderReads
  <2>1. /\ rxQueue # <<>> /\ rxQueue' = Tail(rxQueue)
        /\ nonblock /\ nonblock' = nonblock /\ reader = "read" /\ reader' = "select"
    BY <1>0, <1>2 DEF ReaderReads, IndInv, NeverStuckInRead
  <2>2. /\ rxQueue' \in Seq(Frames) /\ Len(rxQueue') <= QueueBound /\ Truthful'
        /\ \A i \in 1..Len(rxQueue') : \E j \in 1..Len(rxQueue) : rxQueue'[i] = rxQueue[j]
    BY <1>0, <1>1, <2>1, TakenFrame
  <2>3. TypeOK'
    BY <1>0, <1>1, <2>1, <2>2 DEF IndInv, AnswersSafe, TypeOK
  <2>4. (ReadIsAuthentic /\ ReadIsFresh)' /\ Askers'
    BY <1>0, <1>1 DEF IndInv, AnswersSafe, ReadIsAuthentic, ReadIsFresh, Returned, Askers
  <2>5. Timely'
    BY <1>0, <1>1, <2>2 DEF IndInv, Timely
  <2>6. NeverStuckInRead' /\ OneAtATime'
    BY <1>0, <1>1, <2>1 DEF IndInv, NeverStuckInRead, OneAtATime
  <2> QED BY <2>2, <2>3, <2>4, <2>5, <2>6 DEF IndInv, AnswersSafe
<1>3. CASE ReaderSetsNonblock \/ ReaderSelects \/ ReaderFindsNothing
  <2>1. /\ rxQueue' = rxQueue
        /\ \/ reader = "start" /\ reader' = "select" /\ nonblock'
           \/ reader # "start" /\ reader' \in {"select", "read"} /\ nonblock' = nonblock
    BY <1>3 DEF ReaderSetsNonblock, ReaderSelects, ReaderFindsNothing
  <2>2. nonblock' /\ nonblock' \in BOOLEAN /\ reader' \in {"select", "read"}
    BY <1>0, <1>3, <2>1 DEF IndInv, AnswersSafe, TypeOK, OneAtATime, ReaderSetsNonblock
  <2>3. TypeOK'
    BY <1>0, <1>1, <2>1, <2>2 DEF IndInv, AnswersSafe, TypeOK
  <2>4. (ReadIsAuthentic /\ ReadIsFresh)' /\ Askers'
    BY <1>0, <1>1 DEF IndInv, AnswersSafe, ReadIsAuthentic, ReadIsFresh, Returned, Askers
  <2>5. Timely' /\ Truthful'
    BY <1>0, <1>1, <2>1 DEF IndInv, Timely, Truthful
  <2>6. NeverStuckInRead' /\ OneAtATime'
    BY <1>0, <1>1, <2>1, <2>2 DEF IndInv, NeverStuckInRead, OneAtATime
  <2> QED BY <2>3, <2>4, <2>5, <2>6 DEF IndInv, AnswersSafe
<1> QED BY <1>2, <1>3 DEF ReaderNext

-----------------------------------------------------------------------------
(* The controller and the other nodes. *)

\* A frame that joins the receive queue keeps what is known of the frames, if
\* it says of its parameter only what the histories cover.
LEMMA JoinedFrame ==
  ASSUME IndInv, Room(rxQueue), NEW f \in Frames, rxQueue' = Append(rxQueue, f),
         UNCHANGED device, said' \in [Params -> SUBSET Values],
         \A p \in Params : said[p] \subseteq said'[p],
         SaysValue(f) => f.val \in said'[f.par]
  PROVE  /\ rxQueue' \in Seq(Frames) /\ Len(rxQueue') <= QueueBound /\ rxQueue' # <<>>
         /\ Truthful'
         /\ \A i \in 1..Len(rxQueue') :
              rxQueue'[i] = f \/ \E j \in 1..Len(rxQueue) : rxQueue'[i] = rxQueue[j]
PROOF
<1>1. rxQueue \in Seq(Frames)
  BY DEF IndInv, AnswersSafe, TypeOK
<1>2. /\ rxQueue' \in Seq(Frames) /\ Len(rxQueue') <= QueueBound /\ rxQueue' # <<>>
      /\ \A i \in 1..Len(rxQueue') : \/ i \in 1..Len(rxQueue) /\ rxQueue'[i] = rxQueue[i]
                                    \/ rxQueue'[i] = f
  BY <1>1, AppendFacts, BoundsAssumption DEF Room
<1>3. \A i \in 1..Len(rxQueue) : rxQueue[i] \in Frames
  BY <1>1
<1>4. Truthful'
  BY <1>2, <1>3, FrameFacts DEF IndInv, Truthful
<1> QED BY <1>2, <1>4

LEMMA DeviceAnswersStep ==
  ASSUME IndInv, DeviceAnswers
  PROVE  IndInv'
PROOF
<1> DEFINE p == Head(toDevice).par
           f == [kind |-> "response", par |-> p, val |-> device[p]]
           q(t) == [query[t] EXCEPT !.answered = @ \/ (Running(t) /\ query[t].par = p)]
<1>0. IndInv /\ StateTypes
  BY Types
<1>1. /\ toDevice # <<>> /\ Head(toDevice).kind = "request" /\ Room(rxQueue)
      /\ rxQueue' = Append(rxQueue, f) /\ query' = [t \in Threads |-> q(t)]
      /\ toDevice' = Tail(toDevice)
      /\ UNCHANGED <<pc, calls, readerVars, device, history, noise>>
  BY DEF DeviceAnswers
<1>2. /\ Head(toDevice) \in Frames /\ toDevice' \in Seq(Frames) /\ Len(toDevice') <= QueueBound
      /\ p \in Params /\ device[p] \in Values /\ f \in Frames /\ device[p] \in said[p]
      /\ f.val = device[p] /\ f.par = p
  <2>1. /\ Head(toDevice) \in Frames /\ toDevice' \in Seq(Frames)
        /\ Len(toDevice') <= QueueBound
    BY <1>0, <1>1, TailFacts, BoundsAssumption DEF IndInv, AnswersSafe, TypeOK
  <2>2. p \in Params /\ device[p] \in Values /\ device[p] \in said[p]
    BY <1>0, <1>1, <2>1, FrameFacts DEF IndInv, StateTypes, Truthful
  <2> QED BY <2>1, <2>2, FrameFacts
<1>3. \A t \in Threads :
        /\ q(t) \in Queries \union {NoQuery}
        /\ q(t).par = query[t].par /\ q(t).result = query[t].result
        /\ q(t).during = query[t].during /\ q(t).clear = query[t].clear
  <2> SUFFICES ASSUME NEW t \in Threads
               PROVE  /\ q(t) \in Queries \union {NoQuery}
                      /\ q(t).par = query[t].par /\ q(t).result = query[t].result
                      /\ q(t).during = query[t].during /\ q(t).clear = query[t].clear
    OBVIOUS
  <2> DEFINE b == Running(t) /\ query[t].par = p
  <2>1. query[t] \in Queries \union {NoQuery} /\ b \in BOOLEAN /\ (b => query[t] \in Queries)
    BY <1>0, <1>2, QueryFacts DEF StateTypes, Running
  <2>2. q(t) = [query[t] EXCEPT !.answered = @ \/ b]
    BY Zenon
  <2> HIDE DEF b, q
  <2>3. CASE query[t] \in Queries
    BY <2>1, <2>2, <2>3 DEF Queries
  <2>4. CASE query[t] = NoQuery /\ ~b
    <3>1. [NoQuery EXCEPT !.answered = @ \/ FALSE] \in
            [par : {NoParam}, result : {NoValue}, answered : {FALSE}, clear : {TRUE}, during : {{}}]
      BY DEF NoQuery
    <3>2. q(t) = NoQuery
      BY <2>2, <2>4, <3>1 DEF NoQuery
    <3>3. NoQuery = query[t]
      BY <2>4
    <3> QED BY <3>2, <3>3
  <2> QED BY <2>1, <2>3, <2>4
<1> HIDE DEF p, f, q
<1>4. /\ query' \in [Threads -> Queries \union {NoQuery}]
      /\ \A t \in Threads : query'[t] = q(t)
  BY <1>1, <1>3
<1> USE DEF readerVars, history
<1>5. /\ rxQueue' \in Seq(Frames) /\ Len(rxQueue') <= QueueBound /\ rxQueue' # <<>> /\ Truthful'
      /\ \A i \in 1..Len(rxQueue') :
           rxQueue'[i] = f \/ \E j \in 1..Len(rxQueue) : rxQueue'[i] = rxQueue[j]
  BY <1>0, <1>1, <1>2, JoinedFrame DEF StateTypes
<1>6. \A u \in Threads : Running(u)' = Running(u)
  BY <1>1 DEF Running
<1>7. TypeOK'
  BY <1>0, <1>1, <1>2, <1>4, <1>5 DEF IndInv, AnswersSafe, TypeOK
<1>8. (ReadIsAuthentic /\ ReadIsFresh)' /\ Askers'
  BY <1>0, <1>1, <1>3, <1>4, <1>6
     DEF IndInv, AnswersSafe, ReadIsAuthentic, ReadIsFresh, Returned, Askers
<1>9. Timely'
  <2> SUFFICES ASSUME NEW t \in Threads, Running(t), query[t].clear
               PROVE  /\ device[query[t].par] \in query[t].during
                      /\ \A i \in 1..Len(rxQueue') :
                           SaysValue(rxQueue'[i]) /\ rxQueue'[i].par = query[t].par =>
                             rxQueue'[i].val \in query[t].during
    BY <1>1, <1>3, <1>4, <1>6 DEF Timely
  <2>1. /\ device[query[t].par] \in query[t].during
        /\ \A i \in 1..Len(rxQueue) :
             SaysValue(rxQueue[i]) /\ rxQueue[i].par = query[t].par =>
               rxQueue[i].val \in query[t].during
    BY <1>0 DEF IndInv, Timely
  <2>2. f.par = query[t].par => f.val \in query[t].during
    BY <1>2, <2>1
  <2> QED BY <1>5, <2>1, <2>2
<1>10. NeverStuckInRead' /\ OneAtATime'
  BY <1>0, <1>1, <1>5, <1>6 DEF IndInv, NeverStuckInRead, OneAtATime
<1> QED BY <1>5, <1>7, <1>8, <1>9, <1>10 DEF IndInv, AnswersSafe

LEMMA DeviceAppliesStep ==
  ASSUME IndInv, DeviceApplies
  PROVE  IndInv'
PROOF
<1> DEFINE p == Head(toDevice).par
           v == Head(toDevice).val
           q(t) == IF query[t].par = p THEN [query[t] EXCEPT !.during = @ \union {v}] ELSE query[t]
<1>0. IndInv /\ StateTypes
  BY Types
<1>1. /\ toDevice # <<>> /\ Head(toDevice).kind = "setting" /\ toDevice' = Tail(toDevice)
      /\ device' = [device EXCEPT ![p] = v] /\ said' = [said EXCEPT ![p] = @ \union {v}]
      /\ query' = [t \in Threads |-> q(t)]
      /\ UNCHANGED <<pc, calls, readerVars, rxQueue, crowded, noise>>
  BY DEF DeviceApplies
<1>2. /\ Head(toDevice) \in Frames /\ toDevice' \in Seq(Frames) /\ Len(toDevice') <= QueueBound
      /\ p \in Params /\ v \in Values
  <2>1. /\ Head(toDevice) \in Frames /\ toDevice' \in Seq(Frames)
        /\ Len(toDevice') <= QueueBound
    BY <1>0, <1>1, TailFacts, BoundsAssumption DEF IndInv, AnswersSafe, TypeOK
  <2> QED BY <1>1, <2>1, FrameFacts DEF SaysValue
<1> HIDE DEF p, v
<1>3. /\ device' \in [Params -> Values] /\ device'[p] = v /\ v \in said'[p]
      /\ \A r \in Params : r # p => device'[r] = device[r]
      /\ said' \in [Params -> SUBSET Values] /\ \A r \in Params : said[r] \subseteq said'[r]
  BY <1>0, <1>1, <1>2 DEF StateTypes
<1>4. \A t \in Threads :
        /\ q(t) \in Queries \union {NoQuery}
        /\ q(t).par = query[t].par /\ q(t).result = query[t].result
        /\ q(t).clear = query[t].clear /\ query[t].during \subseteq q(t).during
        /\ query[t].par = p => v \in q(t).during
  <2> SUFFICES ASSUME NEW t \in Threads
               PROVE  /\ q(t) \in Queries \union {NoQuery}
                      /\ q(t).par = query[t].par /\ q(t).result = query[t].result
                      /\ q(t).clear = query[t].clear /\ query[t].during \subseteq q(t).during
                      /\ query[t].par = p => v \in q(t).during
    OBVIOUS
  <2>1. query[t] \in Queries \union {NoQuery} /\ (query[t].par = p => query[t] \in Queries)
    BY <1>0, <1>2, QueryFacts DEF StateTypes
  <2>2. CASE query[t].par = p
    BY <1>2, <2>1, <2>2 DEF Queries
  <2>3. CASE query[t].par # p
    BY <2>1, <2>3
  <2> QED BY <2>2, <2>3
<1> HIDE DEF q
<1>5. /\ query' \in [Threads -> Queries \union {NoQuery}]
      /\ \A t \in Threads : query'[t] = q(t)
  BY <1>1, <1>4
<1>6. \A u \in Threads : Running(u)' = Running(u)
  BY <1>1 DEF Running
<1>7. \A t \in Threads : pc[t] # "idle" => query[t].par \in Params
  BY <1>0 DEF IndInv, Askers
<1>8. \A i \in 1..Len(rxQueue) : SaysValue(rxQueue[i]) => rxQueue[i].par \in Params
  BY <1>0, FrameFacts DEF StateTypes
<1> USE DEF readerVars
<1>9. TypeOK'
  BY <1>0, <1>1, <1>2, <1>3, <1>5 DEF IndInv, AnswersSafe, TypeOK
<1>10. (ReadIsAuthentic /\ ReadIsFresh)' /\ Askers'
  BY <1>0, <1>1, <1>3, <1>4, <1>5, <1>6, <1>7
     DEF IndInv, AnswersSafe, ReadIsAuthentic, ReadIsFresh, Returned, Askers
<1>11. Truthful'
  BY <1>0, <1>1, <1>3, <1>8 DEF IndInv, Truthful
<1>12. Timely'
  BY <1>0, <1>1, <1>3, <1>4, <1>5, <1>6, <1>7 DEF IndInv, Timely, Running
<1>13. NeverStuckInRead' /\ OneAtATime'
  BY <1>0, <1>1, <1>6 DEF IndInv, NeverStuckInRead, OneAtATime
<1> QED BY <1>9, <1>10, <1>11, <1>12, <1>13 DEF IndInv, AnswersSafe

LEMMA LoseRequestStep ==
  ASSUME IndInv, LoseRequest
  PROVE  IndInv'
PROOF
<1>0. IndInv /\ StateTypes
  BY Types
<1>1. /\ toDevice # <<>> /\ toDevice' = Tail(toDevice)
      /\ UNCHANGED <<appVars, readerVars, device, rxQueue, history, noise>>
  BY DEF LoseRequest
<1> USE DEF appVars, readerVars, history
<1>2. TypeOK'
  <2>1. toDevice' \in Seq(Frames) /\ Len(toDevice') <= QueueBound
    BY <1>0, <1>1, TailFacts, BoundsAssumption DEF IndInv, AnswersSafe, TypeOK
  <2> QED BY <1>0, <1>1, <2>1 DEF IndInv, AnswersSafe, TypeOK
<1>3. (ReadIsAuthentic /\ ReadIsFresh)' /\ Askers' /\ Truthful' /\ Timely'
  BY <1>0, <1>1 DEF IndInv, AnswersSafe, ReadIsAuthentic, ReadIsFresh, Returned, Askers, Truthful,
                    Timely, Running
<1>4. NeverStuckInRead' /\ OneAtATime'
  BY <1>0, <1>1 DEF IndInv, NeverStuckInRead, OneAtATime, Running
<1> QED BY <1>2, <1>3, <1>4 DEF IndInv, AnswersSafe

LEMMA StatusArrivesStep ==
  ASSUME IndInv, StatusArrives
  PROVE  IndInv'
PROOF
<1>0. IndInv /\ StateTypes
  BY Types
<1>1. /\ noise < MaxNoise /\ noise' = noise + 1 /\ Room(rxQueue)
      /\ rxQueue' = Append(rxQueue, StatusFrame)
      /\ UNCHANGED <<appVars, readerVars, busVars, history>>
  BY DEF StatusArrives
<1> USE DEF appVars, readerVars, busVars, history
<1>2. /\ rxQueue' \in Seq(Frames) /\ Len(rxQueue') <= QueueBound /\ rxQueue' # <<>> /\ Truthful'
      /\ \A i \in 1..Len(rxQueue') :
           rxQueue'[i] = StatusFrame \/ \E j \in 1..Len(rxQueue) : rxQueue'[i] = rxQueue[j]
  BY <1>0, <1>1, FrameFacts, JoinedFrame DEF StateTypes
<1>3. TypeOK'
  BY <1>0, <1>1, <1>2, BoundsAssumption DEF IndInv, AnswersSafe, TypeOK
<1>4. (ReadIsAuthentic /\ ReadIsFresh)' /\ Askers'
  BY <1>0, <1>1 DEF IndInv, AnswersSafe, ReadIsAuthentic, ReadIsFresh, Returned, Askers, Running
<1>5. Timely'
  BY <1>0, <1>1, <1>2, FrameFacts DEF IndInv, Timely, Running
<1>6. NeverStuckInRead' /\ OneAtATime'
  BY <1>0, <1>1, <1>2 DEF IndInv, NeverStuckInRead, OneAtATime, Running
<1> QED BY <1>2, <1>3, <1>4, <1>5, <1>6 DEF IndInv, AnswersSafe

LEMMA ForeignFrameStep ==
  ASSUME IndInv, NEW f \in Frames \ {StatusFrame}, ForeignFrame(f)
  PROVE  IndInv'
PROOF
<1>0. IndInv /\ StateTypes
  BY Types
<1>1. /\ noise < MaxNoise /\ noise' = noise + 1 /\ Room(rxQueue) /\ Room(toDevice)
      /\ f.kind \in {"request", "setting"}
      /\ toDevice' = Append(toDevice, f) /\ rxQueue' = Append(rxQueue, f)
      /\ said' = IF f.kind = "setting" THEN [said EXCEPT ![f.par] = @ \union {f.val}] ELSE said
      /\ query' = Disturbed(f.par)
      /\ UNCHANGED <<pc, calls, readerVars, device, crowded>>
  BY DEF ForeignFrame
<1>2. f \in Frames /\ f.par \in Params /\ (SaysValue(f) <=> f.kind = "setting")
      /\ (SaysValue(f) => f.val \in Values)
  BY <1>1, FrameFacts DEF SaysValue
<1>3. /\ said' \in [Params -> SUBSET Values] /\ \A p \in Params : said[p] \subseteq said'[p]
      /\ SaysValue(f) => f.val \in said'[f.par]
  BY <1>0, <1>1, <1>2 DEF StateTypes
<1>4. toDevice' \in Seq(Frames) /\ Len(toDevice') <= QueueBound
  BY <1>0, <1>1, <1>2, AppendFacts, BoundsAssumption DEF Room, StateTypes
<1>5. /\ rxQueue' \in Seq(Frames) /\ Len(rxQueue') <= QueueBound /\ rxQueue' # <<>> /\ Truthful'
      /\ \A i \in 1..Len(rxQueue') :
           rxQueue'[i] = f \/ \E j \in 1..Len(rxQueue) : rxQueue'[i] = rxQueue[j]
  BY <1>0, <1>1, <1>2, <1>3, JoinedFrame
<1>6. /\ query' \in [Threads -> Queries \union {NoQuery}]
      /\ \A u \in Threads :
           /\ query'[u].par = query[u].par /\ query'[u].result = query[u].result
           /\ query'[u].during = query[u].during
           /\ query'[u].clear => query[u].clear /\ query[u].par # f.par
  BY <1>0, <1>1, <1>2, DisturbedFacts
<1>7. \A u \in Threads : Running(u)' = Running(u)
  BY <1>1 DEF Running
<1> USE DEF readerVars
<1>8. TypeOK'
  BY <1>0, <1>1, <1>3, <1>4, <1>5, <1>6, BoundsAssumption DEF IndInv, AnswersSafe, TypeOK
<1>9. (ReadIsAuthentic /\ ReadIsFresh)' /\ Askers'
  BY <1>0, <1>1, <1>3, <1>6, <1>7
     DEF IndInv, AnswersSafe, ReadIsAuthentic, ReadIsFresh, Returned, Askers
<1>10. Timely'
  BY <1>0, <1>1, <1>5, <1>6, <1>7 DEF IndInv, Timely
<1>11. NeverStuckInRead' /\ OneAtATime'
  BY <1>0, <1>1, <1>5, <1>7 DEF IndInv, NeverStuckInRead, OneAtATime
<1> QED BY <1>5, <1>8, <1>9, <1>10, <1>11 DEF IndInv, AnswersSafe

-----------------------------------------------------------------------------
LEMMA NextInv == IndInv /\ [Next]_vars => IndInv'
PROOF
<1> SUFFICES ASSUME IndInv, [Next]_vars PROVE IndInv'
  OBVIOUS
<1>1. ASSUME NEW t \in Threads, AppNext(t)
      PROVE  IndInv'
  <2>1. ASSUME NEW p \in Params, ReadRequest(t, p)
        PROVE  IndInv'
    BY <2>1, ReadRequestStep
  <2>2. ASSUME NEW p \in Params, ReadRefused(t, p)
        PROVE  IndInv'
    BY <2>2, ReadRefusedStep
  <2>3. ASSUME NEW p \in Params, NEW v \in Values, Set(t, p, v)
        PROVE  IndInv'
    BY <2>3, SetStep
  <2>4. CASE SelectReady(t) \/ SelectTimeout(t) \/ ReadNothing(t) \/ ReadBlocks(t)
    BY <2>4, QuietStep
  <2>5. CASE ReadFrame(t)
    BY <2>5, ReadFrameStep
  <2>6. CASE Take(t)
    BY <2>6, TakeStep
  <2> QED BY <1>1, <2>1, <2>2, <2>3, <2>4, <2>5, <2>6 DEF AppNext, AppRead
<1>2. CASE ReaderNext
  BY <1>2, ReaderStep
<1>3. CASE DeviceAnswers
  BY <1>3, DeviceAnswersStep
<1>4. CASE DeviceApplies
  BY <1>4, DeviceAppliesStep
<1>5. CASE LoseRequest
  BY <1>5, LoseRequestStep
<1>6. CASE StatusArrives
  BY <1>6, StatusArrivesStep
<1>7. ASSUME NEW f \in Frames \ {StatusFrame}, ForeignFrame(f)
      PROVE  IndInv'
  BY <1>7, ForeignFrameStep
<1>8. CASE UNCHANGED vars
  BY <1>8 DEF vars, appVars, readerVars, busVars, history, IndInv, AnswersSafe, TypeOK,
              ReadIsAuthentic, ReadIsFresh, Returned, NeverStuckInRead, Askers, Truthful, Timely,
              OneAtATime, Running
<1> QED BY <1>1, <1>2, <1>3, <1>4, <1>5, <1>6, <1>7, <1>8 DEF Next, Environment

LEMMA Inductive == Spec => []IndInv
PROOF BY InitInv, NextInv, PTL DEF Spec

-----------------------------------------------------------------------------
\* Whatever threads query and set which parameters, whoever takes whose frame
\* and whatever other clients say, ReadParameter returns a value of the
\* parameter it was asked for and, if nobody talked about that parameter
\* meanwhile, one it had during the call.
THEOREM Answers == Spec => []AnswersSafe
PROOF
<1>1. IndInv => AnswersSafe
  BY DEF IndInv
<1> QED BY <1>1, Inductive, PTL

\* No thread waits in read() for a frame that another thread took, unless two
\* queries met before the reader thread had set O_NONBLOCK.
THEOREM NeverStuck == Spec => []NeverStuckInRead
PROOF
<1>1. IndInv => NeverStuckInRead
  BY DEF IndInv
<1> QED BY <1>1, Inductive, PTL
================================================================================
