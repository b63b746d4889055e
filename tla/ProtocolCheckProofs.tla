-------------------------- MODULE ProtocolCheckProofs --------------------------
(* What ProtocolCheck promises for any timing, bounds and pair of protocol and *)
(* firmware.                                                                   *)
EXTENDS ProtocolCheck, TLAPS

-----------------------------------------------------------------------------
(* The inductive invariant. *)

Querying == pc \in {"send", "poll"}

\* A running query has slept what its failed transmissions and polls took.
Budget ==
  /\ Querying => tries < MaxAttempts
  /\ pc = "send" => polls = 0 /\ slept = tries * WaitTime
  /\ pc = "poll" => slept = tries * WaitTime + polls * PollStep

\* A query and a verified write exclude each other, and neither has answered
\* while it runs.  What a query finds in the slot was stored since it began.
Phases ==
  /\ pc = "write" <=> phase = "busy"
  /\ pc # "idle" => result = "none" /\ verified = "none"
  /\ pc = "write" => protocol = "Spark25x"
  /\ Querying => /\ slot # Empty => stored
                 /\ call = "verify" => protocol = "Classic"

\* Only 25.x firmware says that a write succeeded.
Heard25x ==
  /\ \A i \in 1..Len(rxQueue) : rxQueue[i] = "success" => firmware = "Spark25x"
  /\ acked # {} => firmware = "Spark25x"

\* A version that a request without data is answered with.
Honest(frame) ==
  frame # "zeros" /\ (frame = "version" /\ protocol = "Classic" => firmware = "Classic")

\* As long as no other client talks, only this object's requests and the
\* controller's answers to them are in flight, and a query finds no other.
Undisturbed ==
  alone =>
    /\ \A i \in 1..Len(toDevice) : toDevice[i] \in Own
    /\ \A i \in 1..Len(rxQueue) : Honest(rxQueue[i])
    /\ Querying => Honest(slot)

IndInv ==
  /\ AnswersSafe /\ SoundWhenAlone /\ Sound25x /\ BlockingBounded
  /\ Budget /\ Phases /\ Heard25x /\ Undisturbed

-----------------------------------------------------------------------------
(* Queues and times. *)

\* What taking the first frame of a queue leaves.
LEMMA TailFacts ==
  ASSUME NEW S, NEW q \in Seq(S), q # <<>>
  PROVE  /\ Head(q) \in S /\ Head(q) = q[1] /\ 1 \in 1..Len(q)
         /\ Tail(q) \in Seq(S) /\ Len(Tail(q)) = Len(q) - 1
         /\ \A i \in 1..Len(Tail(q)) : i + 1 \in 1..Len(q) /\ Tail(q)[i] = q[i + 1]
PROOF OBVIOUS

\* What adding a frame to a queue keeps.
LEMMA AppendFacts ==
  ASSUME NEW S, NEW q \in Seq(S), NEW e \in S
  PROVE  /\ Append(q, e) \in Seq(S) /\ Len(Append(q, e)) = Len(q) + 1
         /\ \A i \in 1..Len(Append(q, e)) :
              \/ i \in 1..Len(q) /\ Append(q, e)[i] = q[i]
              \/ i = Len(q) + 1 /\ Append(q, e)[i] = e
PROOF OBVIOUS

\* A frame offered to a queue is in it or dropped.
LEMMA OfferFacts ==
  ASSUME NEW S, NEW q \in Seq(S), Len(q) <= QueueBound, NEW e \in S
  PROVE  /\ Offer(q, e) \in Seq(S) /\ Len(Offer(q, e)) <= QueueBound
         /\ \A i \in 1..Len(Offer(q, e)) :
              Offer(q, e)[i] = e \/ \E j \in 1..Len(q) : Offer(q, e)[i] = q[j]
PROOF
<1>1. CASE Len(q) < QueueBound
  <2>1. Offer(q, e) = Append(q, e)
    BY <1>1 DEF Offer, Room
  <2>2. Len(Append(q, e)) <= QueueBound
    BY <1>1, AppendFacts, BoundsAssumption
  <2> QED BY <2>1, <2>2, AppendFacts
<1>2. CASE ~(Len(q) < QueueBound)
  BY <1>2 DEF Offer, Room
<1> QED BY <1>1, <1>2

\* The times of transmissions and polls add up, and stay within the bound.
LEMMA TimeFacts ==
  /\ \A t \in Nat : t * WaitTime \in Nat /\ (t + 1) * WaitTime = t * WaitTime + WaitTime
  /\ \A n \in Nat : n * PollStep \in Nat /\ (n + 1) * PollStep = n * PollStep + PollStep
  /\ \A t \in Nat, n \in 0..PollSleeps : t < MaxAttempts =>
       t * WaitTime + n * PollStep <= (MaxAttempts - 1) * WaitTime + PollSleeps * PollStep
  /\ \A t \in Nat : t < MaxAttempts =>
       t * WaitTime + WaitTime <= (MaxAttempts - 1) * WaitTime + PollSleeps * PollStep
  /\ 0 * WaitTime = 0 /\ 0 * PollStep = 0
  /\ (MaxAttempts - 1) * WaitTime + PollSleeps * PollStep \in Nat
PROOF
<1>1. \A a, b, c \in Nat : a <= b => a * c \in Nat /\ a * c <= b * c
  OBVIOUS
<1>2. \A a, c \in Nat : a * c \in Nat /\ (a + 1) * c = a * c + c /\ 0 * c = 0
  OBVIOUS
<1>3. MaxAttempts - 1 \in Nat /\ WaitTime \in Nat /\ PollSleeps \in Nat /\ PollStep \in Nat
  BY TimingAssumption
<1>4. \A t \in Nat : t < MaxAttempts => t * WaitTime <= (MaxAttempts - 1) * WaitTime
  <2>1. \A t \in Nat : t < MaxAttempts => t <= MaxAttempts - 1
    BY TimingAssumption
  <2> QED BY <1>1, <1>3, <2>1
<1>5. \A n \in 0..PollSleeps : n * PollStep \in Nat /\ n * PollStep <= PollSleeps * PollStep
  BY <1>1, <1>3
<1>6. (MaxAttempts - 1) * WaitTime \in Nat /\ PollSleeps * PollStep \in Nat
  BY <1>2, <1>3
<1>7. \A a, b, c, d \in Nat : a <= c /\ b <= d => a + b <= c + d
  OBVIOUS
<1>8. \A t \in Nat, n \in 0..PollSleeps : t < MaxAttempts =>
        t * WaitTime + n * PollStep <= (MaxAttempts - 1) * WaitTime + PollSleeps * PollStep
  BY <1>2, <1>3, <1>4, <1>5, <1>6, <1>7
<1>9. \A t \in Nat : t < MaxAttempts =>
        t * WaitTime + WaitTime <= (MaxAttempts - 1) * WaitTime + PollSleeps * PollStep
  BY <1>2, <1>3, <1>4, <1>6, <1>7, TimingAssumption
<1> QED BY <1>2, <1>3, <1>6, <1>8, <1>9

-----------------------------------------------------------------------------
LEMMA InitInv == Init => IndInv
PROOF
<1> SUFFICES ASSUME Init PROVE IndInv
  OBVIOUS
<1>1. phase = "idle" /\ wanted = StatusPeriod2 /\ acked = {} /\ outcome = "none"
  BY DEF Init, Write!Init
<1>2. TypeOK
  <2>1. /\ toDevice \in Seq(Requests) /\ Len(toDevice) <= QueueBound
        /\ rxQueue \in Seq(Arrivals) /\ Len(rxQueue) <= QueueBound
    BY BoundsAssumption DEF Init
  <2>2. tries \in 0..MaxAttempts /\ polls \in 0..PollSleeps /\ slept \in Nat
    BY TimingAssumption DEF Init
  <2>3. calls = 0 /\ others = 0 /\ stored \in BOOLEAN /\ alone \in BOOLEAN
    BY DEF Init
  <2>4. /\ protocol \in Protocols /\ firmware \in Protocols
        /\ pc = "idle" /\ call = "read" /\ result = "none" /\ verified = "none" /\ slot = Empty
    BY DEF Init
  <2> QED BY <1>1, <2>1, <2>2, <2>3, <2>4, BoundsAssumption DEF TypeOK
<1>3. AnswerIsNew /\ SoundWhenAlone /\ Sound25x /\ BlockingBounded
  BY TimeFacts DEF Init, AnswerIsNew, SoundWhenAlone, Sound25x, BlockingBounded
<1>4. Budget /\ Phases /\ Heard25x /\ Undisturbed
  BY <1>1 DEF Init, Budget, Phases, Heard25x, Undisturbed, Querying
<1> QED BY <1>2, <1>3, <1>4 DEF IndInv, AnswersSafe

\* What a call that begins alone finds in flight.
LEMMA OwnFacts ==
  ASSUME IndInv, alone' = OnlyOwnInFlight
  PROVE  /\ alone' \in BOOLEAN
         /\ alone' => /\ \A i \in 1..Len(toDevice) : toDevice[i] \in Own
                      /\ \A i \in 1..Len(rxQueue) : rxQueue[i] \in {"success", "rejection"}
PROOF
<1>1. DOMAIN toDevice = 1..Len(toDevice) /\ DOMAIN rxQueue = 1..Len(rxQueue)
  BY DEF IndInv, AnswersSafe, TypeOK
<1>2. OnlyOwnInFlight \in BOOLEAN
  BY Zenon DEF OnlyOwnInFlight
<1>3. OnlyOwnInFlight => /\ \A i \in 1..Len(toDevice) : toDevice[i] \in Own
                         /\ \A i \in 1..Len(rxQueue) : rxQueue[i] \in {"success", "rejection"}
  BY <1>1, Zenon DEF OnlyOwnInFlight
<1> QED BY <1>2, <1>3, Zenon

(* The query. *)

LEMMA BeginQueryStep ==
  ASSUME IndInv, NEW c \in {"read", "verify"}, BeginQuery(c)
  PROVE  IndInv'
PROOF
<1> USE DEF config, writeVars, IndInv
<1>1. /\ pc = "idle" /\ pc' = "send" /\ call' = c /\ calls < MaxCalls /\ calls' = calls + 1
      /\ c = "verify" => protocol = "Classic"
      /\ slot' = Empty /\ stored' = FALSE /\ tries' = 0 /\ polls' = 0 /\ slept' = 0
      /\ result' = "none" /\ verified' = "none" /\ alone' = OnlyOwnInFlight
      /\ UNCHANGED <<config, toDevice, rxQueue, writeVars, others>>
  BY DEF BeginQuery
<1>2. /\ alone' \in BOOLEAN
      /\ alone' => /\ \A i \in 1..Len(toDevice) : toDevice[i] \in Own
                   /\ \A i \in 1..Len(rxQueue) : rxQueue[i] \in {"success", "rejection"}
  BY OwnFacts, <1>1
<1>3. TypeOK'
  <2>1. calls' \in 0..MaxCalls /\ tries' \in 0..MaxAttempts /\ polls' \in 0..PollSleeps
        /\ slept' \in Nat
    BY <1>1, TimingAssumption, BoundsAssumption DEF AnswersSafe, TypeOK
  <2> QED BY <1>1, <1>2, <2>1 DEF AnswersSafe, TypeOK
<1>4. AnswerIsNew' /\ Phases' /\ Budget' /\ BlockingBounded'
  BY <1>1, TimingAssumption, TimeFacts
     DEF AnswerIsNew, Phases, Budget, BlockingBounded, Querying, Empty
<1>5. SoundWhenAlone' /\ Sound25x' /\ Heard25x'
  BY <1>1 DEF SoundWhenAlone, Sound25x, Heard25x
<1>6. Undisturbed'
  BY <1>1, <1>2 DEF Undisturbed, Honest, Own, Empty
<1> QED BY <1>3, <1>4, <1>5, <1>6 DEF AnswersSafe

LEMMA SendAcceptedStep ==
  ASSUME IndInv, SendAccepted
  PROVE  IndInv'
PROOF
<1> USE DEF config, loopVars, returnVars, history, writeVars, bounds, IndInv
<1> DEFINE r == IF protocol = "Spark25x" THEN "remote" ELSE "data"
<1>1. /\ pc = "send" /\ pc' = "poll" /\ Room(toDevice) /\ toDevice' = Append(toDevice, r)
      /\ UNCHANGED <<config, call, loopVars, returnVars, slot, rxQueue, history, writeVars, bounds>>
  BY DEF SendAccepted
<1>2. r \in Requests /\ r \in Own
  BY DEF Requests, Own
<1>3. /\ toDevice' \in Seq(Requests) /\ Len(toDevice') <= QueueBound
      /\ \A i \in 1..Len(toDevice') :
           toDevice'[i] = r \/ \E j \in 1..Len(toDevice) : toDevice'[i] = toDevice[j]
  BY <1>1, <1>2, AppendFacts, BoundsAssumption DEF AnswersSafe, TypeOK, Room
<1> HIDE DEF r
<1>4. TypeOK'
  BY <1>1, <1>3 DEF AnswersSafe, TypeOK
<1>5. AnswerIsNew' /\ Phases' /\ BlockingBounded'
  BY <1>1 DEF AnswersSafe, AnswerIsNew, Phases, BlockingBounded, Querying
<1>6. Budget'
  <2>1. slept = tries * WaitTime + polls * PollStep /\ tries < MaxAttempts
    BY <1>1, TimeFacts DEF AnswersSafe, TypeOK, Budget, Querying
  <2> QED BY <1>1, <2>1 DEF Budget
<1>7. SoundWhenAlone' /\ Sound25x' /\ Heard25x'
  BY <1>1 DEF SoundWhenAlone, Sound25x, Heard25x
<1>8. Undisturbed'
  BY <1>1, <1>2, <1>3 DEF Undisturbed, Honest, Own, Querying
<1> QED BY <1>4, <1>5, <1>6, <1>7, <1>8 DEF AnswersSafe

\* The end of a query: nullopt, or what is in the slot.
LEMMA ReturnStep ==
  ASSUME IndInv, Querying, NEW r, r = "nullopt" \/ (r = slot /\ slot # Empty), Return(r),
         tries' \in 0..MaxAttempts, slept' \in Nat, BlockingBounded',
         UNCHANGED <<config, call, polls, slot, toDevice, rxQueue, history, writeVars, bounds>>
  PROVE  IndInv'
PROOF
<1> USE DEF config, history, writeVars, bounds, IndInv
<1>1. /\ pc' = "idle" /\ result' = r
      /\ verified' = IF call # "verify" THEN "none" ELSE IF r = "nullopt" THEN "false" ELSE "true"
  BY DEF Return
<1>2. TypeOK'
  BY <1>1 DEF AnswersSafe, TypeOK, Empty
<1>3. AnswerIsNew' /\ Phases' /\ Budget'
  BY <1>1 DEF AnswerIsNew, Phases, Budget, Querying
<1>4. Sound25x' /\ Heard25x'
  BY <1>1 DEF Phases, Sound25x, Heard25x
<1>5. SoundWhenAlone'
  BY <1>1 DEF AnswersSafe, TypeOK, Phases, Undisturbed, Honest, SoundWhenAlone, Protocols, Empty
<1>6. Undisturbed'
  BY <1>1 DEF Undisturbed, Honest, Own, Querying
<1> QED BY <1>2, <1>3, <1>4, <1>5, <1>6 DEF AnswersSafe

LEMMA SendBusyStep ==
  ASSUME IndInv, SendBusy
  PROVE  IndInv'
PROOF
<1> USE DEF config, returnVars, history, writeVars, bounds, IndInv
<1>1. /\ pc = "send" /\ Querying /\ tries' = tries + 1 /\ slept' = slept + WaitTime
      /\ UNCHANGED <<config, call, polls, slot, toDevice, rxQueue, history, writeVars, bounds>>
  BY DEF SendBusy, Querying
<1>2. /\ tries \in Nat /\ tries < MaxAttempts /\ polls = 0 /\ slept = tries * WaitTime
      /\ slept \in Nat /\ WaitTime \in Nat
  BY <1>1, TimingAssumption DEF AnswersSafe, TypeOK, Budget
<1>3. /\ tries' \in 0..MaxAttempts /\ slept' \in Nat /\ BlockingBounded'
      /\ slept' = tries' * WaitTime
  BY <1>1, <1>2, TimeFacts, TimingAssumption DEF BlockingBounded
<1>4. CASE tries' < MaxAttempts /\ UNCHANGED <<pc, returnVars>>
  <2>1. TypeOK'
    BY <1>1, <1>3, <1>4 DEF AnswersSafe, TypeOK
  <2>2. AnswerIsNew' /\ Phases' /\ Budget'
    BY <1>1, <1>2, <1>3, <1>4 DEF AnswersSafe, AnswerIsNew, Phases, Budget, Querying
  <2>3. SoundWhenAlone' /\ Sound25x' /\ Heard25x' /\ Undisturbed'
    BY <1>1, <1>4 DEF SoundWhenAlone, Sound25x, Heard25x, Undisturbed, Honest, Own, Querying
  <2> QED BY <1>3, <2>1, <2>2, <2>3 DEF AnswersSafe
<1>5. CASE Return("nullopt")
  BY <1>1, <1>3, <1>5, ReturnStep
<1> QED BY <1>4, <1>5 DEF SendBusy

LEMMA QueryReturnsStep ==
  ASSUME IndInv, SendFailed \/ PollFound \/ PollTimeout
  PROVE  IndInv'
PROOF
<1> USE DEF loopVars
<1>1. /\ Querying
      /\ UNCHANGED <<config, call, loopVars, slot, toDevice, rxQueue, history, writeVars, bounds>>
  BY DEF SendFailed, PollFound, PollTimeout, Querying
<1>2. tries' \in 0..MaxAttempts /\ slept' \in Nat /\ BlockingBounded'
  BY <1>1 DEF IndInv, AnswersSafe, TypeOK, BlockingBounded
<1>3. PICK r : Return(r) /\ (r = "nullopt" \/ (r = slot /\ slot # Empty))
  BY DEF SendFailed, PollFound, PollTimeout
<1> QED BY <1>1, <1>2, <1>3, ReturnStep

LEMMA PollSleepStep ==
  ASSUME IndInv, PollSleep
  PROVE  IndInv'
PROOF
<1> USE DEF config, returnVars, history, writeVars, bounds, IndInv
<1>1. /\ pc = "poll" /\ polls < PollSleeps /\ polls' = polls + 1 /\ slept' = slept + PollStep
      /\ UNCHANGED <<config, pc, call, tries, returnVars, slot, toDevice, rxQueue, history,
                     writeVars, bounds>>
  BY DEF PollSleep
<1>2. /\ tries \in Nat /\ tries < MaxAttempts /\ polls \in Nat
      /\ slept = tries * WaitTime + polls * PollStep /\ slept \in Nat
  BY <1>1, TimingAssumption DEF AnswersSafe, TypeOK, Budget, Querying
<1>3. polls' \in 0..PollSleeps
  BY <1>1, <1>2, TimingAssumption
<1>4. slept' = tries * WaitTime + polls' * PollStep /\ slept' \in Nat
  BY <1>1, <1>2, TimeFacts, TimingAssumption
<1>5. BlockingBounded'
  BY <1>2, <1>3, <1>4, TimeFacts DEF BlockingBounded
<1>6. TypeOK'
  BY <1>1, <1>3, <1>4 DEF AnswersSafe, TypeOK
<1>7. AnswerIsNew' /\ Phases' /\ Budget'
  BY <1>1, <1>2, <1>4 DEF AnswersSafe, AnswerIsNew, Phases, Budget, Querying
<1>8. SoundWhenAlone' /\ Sound25x' /\ Heard25x' /\ Undisturbed'
  BY <1>1 DEF SoundWhenAlone, Sound25x, Heard25x, Undisturbed, Honest, Own, Querying
<1> QED BY <1>5, <1>6, <1>7, <1>8 DEF AnswersSafe

-----------------------------------------------------------------------------
(* The verified write. *)

LEMMA BeginWriteStep ==
  ASSUME IndInv, BeginWrite
  PROVE  IndInv'
PROOF
<1> USE DEF config, IndInv
<1>1. /\ pc = "idle" /\ pc' = "write" /\ calls < MaxCalls /\ protocol = "Spark25x"
      /\ call' = "verify" /\ calls' = calls + 1
      /\ tries' = 0 /\ polls' = 0 /\ slept' = 0
      /\ result' = "none" /\ verified' = "none" /\ alone' = OnlyOwnInFlight /\ stored' = FALSE
      /\ UNCHANGED <<config, slot, toDevice, rxQueue, others>>
  BY DEF BeginWrite
<1>2. phase' = "busy" /\ wanted' = StatusPeriod2 /\ acked' = {} /\ outcome' = "none"
  BY DEF BeginWrite, Write!Begin
<1>3. /\ alone' \in BOOLEAN
      /\ alone' => /\ \A i \in 1..Len(toDevice) : toDevice[i] \in Own
                   /\ \A i \in 1..Len(rxQueue) : rxQueue[i] \in {"success", "rejection"}
  BY OwnFacts, <1>1
<1>4. TypeOK'
  <2>1. calls' \in 0..MaxCalls /\ tries' \in 0..MaxAttempts /\ polls' \in 0..PollSleeps
        /\ slept' \in Nat
    BY <1>1, TimingAssumption, BoundsAssumption DEF AnswersSafe, TypeOK
  <2> QED BY <1>1, <1>2, <1>3, <2>1 DEF AnswersSafe, TypeOK
<1>5. AnswerIsNew' /\ Phases' /\ Budget' /\ BlockingBounded'
  BY <1>1, <1>2, TimeFacts DEF AnswerIsNew, Phases, Budget, BlockingBounded, Querying
<1>6. SoundWhenAlone' /\ Sound25x' /\ Heard25x'
  BY <1>1, <1>2 DEF SoundWhenAlone, Sound25x, Heard25x
<1>7. Undisturbed'
  BY <1>1, <1>3 DEF Undisturbed, Honest, Own, Querying
<1> QED BY <1>4, <1>5, <1>6, <1>7 DEF AnswersSafe

LEMMA WriteSendsStep ==
  ASSUME IndInv, WriteSends
  PROVE  IndInv'
PROOF
<1> USE DEF config, loopVars, returnVars, history, writeVars, bounds, IndInv
<1>1. /\ pc = "write" /\ Room(toDevice) /\ toDevice' = Append(toDevice, "write")
      /\ UNCHANGED <<config, pc, call, loopVars, returnVars, slot, rxQueue, history, writeVars, bounds>>
  BY DEF WriteSends
<1>2. "write" \in Requests /\ "write" \in Own
  BY <1>1 DEF Requests, Own, Phases
<1>3. /\ toDevice' \in Seq(Requests) /\ Len(toDevice') <= QueueBound
      /\ \A i \in 1..Len(toDevice') :
           toDevice'[i] = "write" \/ \E j \in 1..Len(toDevice) : toDevice'[i] = toDevice[j]
  BY <1>1, <1>2, AppendFacts, BoundsAssumption DEF AnswersSafe, TypeOK, Room
<1>4. TypeOK'
  BY <1>1, <1>3 DEF AnswersSafe, TypeOK
<1>5. AnswerIsNew' /\ Phases' /\ BlockingBounded' /\ Budget'
  BY <1>1 DEF AnswersSafe, AnswerIsNew, Phases, BlockingBounded, Budget, Querying
<1>6. SoundWhenAlone' /\ Sound25x' /\ Heard25x'
  BY <1>1 DEF SoundWhenAlone, Sound25x, Heard25x
<1>7. Undisturbed'
  BY <1>1, <1>2, <1>3 DEF Undisturbed, Honest, Own, Querying
<1> QED BY <1>4, <1>5, <1>6, <1>7 DEF AnswersSafe

LEMMA WriteReturnsStep ==
  ASSUME IndInv, WriteReturns
  PROVE  IndInv'
PROOF
<1> USE DEF config, loopVars, history, bounds, IndInv
<1>1. /\ pc = "write" /\ pc' = "idle" /\ verified' = outcome'
      /\ UNCHANGED <<config, call, loopVars, result, slot, toDevice, rxQueue, history, bounds>>
  BY DEF WriteReturns
<1>2. /\ phase' = "idle" /\ UNCHANGED <<wanted, acked>>
      /\ outcome' \in {"true", "false", "thrown"}
      /\ outcome' = "true" => wanted \in acked
  BY DEF WriteReturns, Write!ReturnTrue, Write!Fail
<1>3. outcome' = "true" => firmware = "Spark25x"
  BY <1>2 DEF Heard25x
<1>4. TypeOK'
  BY <1>1, <1>2 DEF AnswersSafe, TypeOK
<1>5. AnswerIsNew' /\ Phases' /\ BlockingBounded' /\ Budget'
  BY <1>1, <1>2 DEF AnswersSafe, AnswerIsNew, Phases, BlockingBounded, Budget, Querying
<1>6. SoundWhenAlone' /\ Sound25x' /\ Heard25x'
  BY <1>1, <1>2, <1>3 DEF SoundWhenAlone, Sound25x, Heard25x, Phases
<1>7. Undisturbed'
  BY <1>1 DEF Undisturbed, Honest, Own, Querying
<1> QED BY <1>4, <1>5, <1>6, <1>7 DEF AnswersSafe

-----------------------------------------------------------------------------
(* The reader thread. *)

LEMMA ReaderStoresStep ==
  ASSUME IndInv, ReaderStores
  PROVE  IndInv'
PROOF
<1> USE DEF config, loopVars, returnVars, bounds, IndInv
<1> DEFINE f == Head(rxQueue)
<1>1. /\ rxQueue # <<>> /\ rxQueue' = Tail(rxQueue)
      /\ IF f \in {"version", "zeros"} THEN slot' = f /\ stored' = TRUE ELSE UNCHANGED <<slot, stored>>
      /\ UNCHANGED <<config, pc, call, loopVars, returnVars, toDevice, alone, bounds>>
  BY DEF ReaderStores
<1>2. /\ UNCHANGED <<phase, wanted, outcome>>
      /\ \/ acked' = acked
         \/ f = "success" /\ acked' = acked \union {StatusPeriod2}
  BY DEF ReaderStores, Write!Hear, writeVars
<1>3. /\ f \in Arrivals /\ f = rxQueue[1] /\ 1 \in 1..Len(rxQueue)
      /\ rxQueue' \in Seq(Arrivals) /\ Len(rxQueue') <= QueueBound
      /\ \A i \in 1..Len(rxQueue') : \E j \in 1..Len(rxQueue) : rxQueue'[i] = rxQueue[j]
  <2>1. rxQueue \in Seq(Arrivals) /\ Len(rxQueue) <= QueueBound
    BY DEF AnswersSafe, TypeOK
  <2> QED BY <1>1, <2>1, TailFacts, BoundsAssumption
<1> HIDE DEF f
<1>4. /\ slot' \in {Empty, "version", "zeros"} /\ stored' \in BOOLEAN
      /\ stored => stored'
      /\ slot' = slot \/ (slot' = f /\ stored')
  BY <1>1 DEF AnswersSafe, TypeOK
<1>5. TypeOK'
  BY <1>1, <1>2, <1>3, <1>4 DEF AnswersSafe, TypeOK
<1>6. AnswerIsNew' /\ Phases' /\ BlockingBounded' /\ Budget'
  BY <1>1, <1>2, <1>4 DEF AnswersSafe, AnswerIsNew, Phases, BlockingBounded, Budget, Querying
<1>7. SoundWhenAlone' /\ Sound25x' /\ Heard25x'
  BY <1>1, <1>2, <1>3 DEF SoundWhenAlone, Sound25x, Heard25x
<1>8. Undisturbed'
  BY <1>1, <1>3, <1>4 DEF Undisturbed, Honest, Own, Querying
<1> QED BY <1>5, <1>6, <1>7, <1>8 DEF AnswersSafe

-----------------------------------------------------------------------------
(* The controller, the other clients and the bus. *)

\* A step of the bus keeps the invariant if the frames it leaves or brings do.
LEMMA BusStep ==
  ASSUME IndInv, alone' \in BOOLEAN, alone' => alone, others' \in 0..MaxOthers,
         UNCHANGED <<config, pc, call, loopVars, returnVars, slot, stored, writeVars, calls>>,
         toDevice' \in Seq(Requests), Len(toDevice') <= QueueBound,
         rxQueue' \in Seq(Arrivals), Len(rxQueue') <= QueueBound,
         alone' => \A i \in 1..Len(toDevice') : toDevice'[i] \in Own,
         alone' => \A i \in 1..Len(rxQueue') : Honest(rxQueue'[i]),
         \A i \in 1..Len(rxQueue') : rxQueue'[i] = "success" => firmware = "Spark25x"
  PROVE  IndInv'
PROOF
<1> USE DEF config, loopVars, returnVars, writeVars, IndInv
<1>1. TypeOK'
  BY DEF AnswersSafe, TypeOK
<1>2. AnswerIsNew' /\ Phases' /\ BlockingBounded' /\ Budget'
  BY DEF AnswersSafe, AnswerIsNew, Phases, BlockingBounded, Budget, Querying
<1>3. SoundWhenAlone' /\ Sound25x' /\ Heard25x'
  BY DEF SoundWhenAlone, Sound25x, Heard25x
<1>4. Undisturbed'
  BY DEF Undisturbed, Honest, Own, Querying
<1> QED BY <1>1, <1>2, <1>3, <1>4 DEF AnswersSafe

\* What is known of the queues before a step of the bus.
LEMMA QueueFacts ==
  ASSUME IndInv
  PROVE  /\ toDevice \in Seq(Requests) /\ Len(toDevice) <= QueueBound
         /\ rxQueue \in Seq(Arrivals) /\ Len(rxQueue) <= QueueBound
         /\ alone \in BOOLEAN /\ others \in 0..MaxOthers
         /\ protocol \in Protocols /\ firmware \in Protocols
         /\ alone => \A i \in 1..Len(toDevice) : toDevice[i] \in Own
         /\ alone => \A i \in 1..Len(rxQueue) : Honest(rxQueue[i])
         /\ \A i \in 1..Len(rxQueue) : rxQueue[i] = "success" => firmware = "Spark25x"
PROOF BY DEF IndInv, AnswersSafe, TypeOK, Undisturbed, Heard25x

LEMMA DeviceAnswersStep ==
  ASSUME IndInv, DeviceAnswers
  PROVE  IndInv'
PROOF
<1> DEFINE r == Head(toDevice)
<1>1. PICK a \in Answers(r) : rxQueue' = Offer(rxQueue, a)
  BY DEF DeviceAnswers
<1>2. /\ toDevice # <<>> /\ toDevice' = Tail(toDevice)
      /\ UNCHANGED <<config, pc, call, loopVars, returnVars, slot, history, writeVars, bounds>>
  BY DEF DeviceAnswers
<1>3. /\ r \in Requests /\ r = toDevice[1] /\ 1 \in 1..Len(toDevice)
      /\ toDevice' \in Seq(Requests) /\ Len(toDevice') <= QueueBound
      /\ \A i \in 1..Len(toDevice') : \E j \in 1..Len(toDevice) : toDevice'[i] = toDevice[j]
  BY <1>2, QueueFacts, TailFacts, BoundsAssumption
<1> HIDE DEF r
<1>4. /\ a \in Arrivals /\ a # "zeros"
      /\ a = "success" => firmware = "Spark25x"
      /\ a = "version" => r = "remote" \/ firmware = "Classic"
  BY <1>1, <1>3 DEF Answers, Requests, Arrivals
<1>5. /\ rxQueue' \in Seq(Arrivals) /\ Len(rxQueue') <= QueueBound
      /\ \A i \in 1..Len(rxQueue') :
           rxQueue'[i] = a \/ \E j \in 1..Len(rxQueue) : rxQueue'[i] = rxQueue[j]
  <2>1. rxQueue \in Seq(Arrivals) /\ Len(rxQueue) <= QueueBound
    BY QueueFacts
  <2>2. /\ Offer(rxQueue, a) \in Seq(Arrivals) /\ Len(Offer(rxQueue, a)) <= QueueBound
        /\ \A i \in 1..Len(Offer(rxQueue, a)) :
             Offer(rxQueue, a)[i] = a \/ \E j \in 1..Len(rxQueue) : Offer(rxQueue, a)[i] = rxQueue[j]
    BY <1>4, <2>1, OfferFacts
  <2> QED BY <1>1, <2>2, Zenon
<1>6. alone => Honest(a)
  BY <1>3, <1>4, QueueFacts DEF Honest, Own
<1> QED
  BY <1>2, <1>3, <1>4, <1>5, <1>6, QueueFacts, BusStep DEF history, bounds

LEMMA LossStep ==
  ASSUME IndInv, LoseRequest \/ LoseArrival
  PROVE  IndInv'
PROOF
<1>1. UNCHANGED <<config, pc, call, loopVars, returnVars, slot, history, writeVars, bounds>>
  BY DEF LoseRequest, LoseArrival
<1>2. /\ toDevice' \in Seq(Requests) /\ Len(toDevice') <= QueueBound
      /\ \A i \in 1..Len(toDevice') : \E j \in 1..Len(toDevice) : toDevice'[i] = toDevice[j]
  <2>1. toDevice \in Seq(Requests) /\ Len(toDevice) <= QueueBound
    BY QueueFacts
  <2>2. toDevice' = toDevice \/ (toDevice # <<>> /\ toDevice' = Tail(toDevice))
    BY DEF LoseRequest, LoseArrival
  <2> QED BY <2>1, <2>2, TailFacts, BoundsAssumption
<1>3. /\ rxQueue' \in Seq(Arrivals) /\ Len(rxQueue') <= QueueBound
      /\ \A i \in 1..Len(rxQueue') : \E j \in 1..Len(rxQueue) : rxQueue'[i] = rxQueue[j]
  <2>1. rxQueue \in Seq(Arrivals) /\ Len(rxQueue) <= QueueBound
    BY QueueFacts
  <2>2. rxQueue' = rxQueue \/ (rxQueue # <<>> /\ rxQueue' = Tail(rxQueue))
    BY DEF LoseRequest, LoseArrival
  <2> QED BY <2>1, <2>2, TailFacts, BoundsAssumption
<1> QED BY <1>1, <1>2, <1>3, QueueFacts, BusStep DEF history, bounds

LEMMA OtherRequestsStep ==
  ASSUME IndInv, NEW r \in Requests, OtherRequests(r)
  PROVE  IndInv'
PROOF
<1>1. /\ others < MaxOthers /\ others' = others + 1 /\ alone' = FALSE
      /\ Room(toDevice) /\ toDevice' = Append(toDevice, r)
      /\ rxQueue' = Offer(rxQueue, "zeros") \/ rxQueue' = rxQueue
      /\ UNCHANGED <<config, pc, call, loopVars, returnVars, slot, stored, writeVars, calls>>
  BY DEF OtherRequests
<1>2. toDevice' \in Seq(Requests) /\ Len(toDevice') <= QueueBound
  BY <1>1, QueueFacts, AppendFacts, BoundsAssumption DEF Room
<1>3. /\ rxQueue' \in Seq(Arrivals) /\ Len(rxQueue') <= QueueBound
      /\ \A i \in 1..Len(rxQueue') :
           rxQueue'[i] = "zeros" \/ \E j \in 1..Len(rxQueue) : rxQueue'[i] = rxQueue[j]
  <2>1. "zeros" \in Arrivals
    BY DEF Arrivals
  <2>2. rxQueue \in Seq(Arrivals) /\ Len(rxQueue) <= QueueBound
    BY QueueFacts
  <2> DEFINE offered == Offer(rxQueue, "zeros")
  <2>3. /\ offered \in Seq(Arrivals) /\ Len(offered) <= QueueBound
        /\ \A i \in 1..Len(offered) :
             offered[i] = "zeros" \/ \E j \in 1..Len(rxQueue) : offered[i] = rxQueue[j]
    BY <2>1, <2>2, OfferFacts
  <2>4. rxQueue' = offered \/ rxQueue' = rxQueue
    BY <1>1
  <2> HIDE DEF offered
  <2>5. CASE rxQueue' = offered
    BY <2>3, <2>5, Zenon
  <2>6. CASE rxQueue' = rxQueue
    BY <2>2, <2>6
  <2> QED BY <2>4, <2>5, <2>6
<1>4. others' \in 0..MaxOthers
  BY <1>1, QueueFacts, BoundsAssumption
<1> QED BY <1>1, <1>2, <1>3, <1>4, QueueFacts, BusStep

-----------------------------------------------------------------------------
LEMMA NextInv == IndInv /\ [Next]_vars => IndInv'
PROOF
<1> SUFFICES ASSUME IndInv, [Next]_vars PROVE IndInv'
  OBVIOUS
<1>1. ASSUME NEW c \in {"read", "verify"}, BeginQuery(c)
      PROVE  IndInv'
  BY <1>1, BeginQueryStep
<1>2. CASE SendAccepted
  BY <1>2, SendAcceptedStep
<1>3. CASE SendBusy
  BY <1>3, SendBusyStep
<1>4. CASE SendFailed \/ PollFound \/ PollTimeout
  BY <1>4, QueryReturnsStep
<1>5. CASE PollSleep
  BY <1>5, PollSleepStep
<1>6. CASE BeginWrite
  BY <1>6, BeginWriteStep
<1>7. CASE WriteSends
  BY <1>7, WriteSendsStep
<1>8. CASE WriteReturns
  BY <1>8, WriteReturnsStep
<1>9. CASE ReaderStores
  BY <1>9, ReaderStoresStep
<1>10. CASE DeviceAnswers
  BY <1>10, DeviceAnswersStep
<1>11. CASE LoseRequest \/ LoseArrival
  BY <1>11, LossStep
<1>12. ASSUME NEW r \in Requests, OtherRequests(r)
       PROVE  IndInv'
  BY <1>12, OtherRequestsStep
<1>13. CASE UNCHANGED vars
  BY <1>13, QueueFacts, BusStep DEF vars, history, bounds, Own, Honest, config
<1> QED
  BY <1>1, <1>2, <1>3, <1>4, <1>5, <1>6, <1>7, <1>8, <1>9, <1>10, <1>11, <1>12, <1>13
     DEF Next, QueryStep

LEMMA Inductive == Spec => []IndInv
PROOF BY InitInv, NextInv, PTL DEF Spec

-----------------------------------------------------------------------------
\* ReadFirmwareVersion returns a version only if one was stored after its reset
\* of the slot, however late answers to earlier queries come.
THEOREM NewAnswers == Spec => []AnswersSafe
PROOF
<1>1. IndInv => AnswersSafe
  BY DEF IndInv
<1> QED BY <1>1, Inductive, PTL

\* With no other client around, VerifyProtocol succeeds only with a controller
\* that speaks the object's protocol, and a version is the controller's.
THEOREM Alone == Spec => []SoundWhenAlone
PROOF
<1>1. IndInv => SoundWhenAlone
  BY DEF IndInv
<1> QED BY <1>1, Inductive, PTL

\* For 25.x it succeeds only with 25.x firmware, whoever else talks.
THEOREM Sound == Spec => []Sound25x
PROOF
<1>1. IndInv => Sound25x
  BY DEF IndInv
<1> QED BY <1>1, Inductive, PTL

\* A query never sleeps longer than its transmissions and its deadline allow:
\* with the numbers of the code, 49 * 1 + 10 * 5 = 99 ms.
THEOREM Blocking == Spec => []BlockingBounded
PROOF
<1>1. IndInv => BlockingBounded
  BY DEF IndInv
<1> QED BY <1>1, Inductive, PTL
================================================================================
