-------------------------- MODULE VerifiedWriteProofs --------------------------
(* What VerifiedWrite promises for every value of its constants. *)
EXTENDS VerifiedWrite, TLAPS

\* The time of k attempts fits in that of k + 1, and in that of any more.
LEMMA AttemptTimeFacts ==
  /\ AttemptTime \in Nat
  /\ \A k \in 0..Retries : k * AttemptTime \in Nat /\ k * AttemptTime <= Retries * AttemptTime
  /\ \A k \in Nat : (k + 1) * AttemptTime = k * AttemptTime + AttemptTime
  /\ \A t \in 0..MaxAttempts - 1 :
       /\ t * WaitTime \in Nat
       /\ t * WaitTime <= (MaxAttempts - 1) * WaitTime
       /\ (t + 1) * WaitTime = t * WaitTime + WaitTime
  /\ \A n \in 0..PollSleeps :
       /\ n * PollStep \in Nat
       /\ n * PollStep <= PollSleeps * PollStep
       /\ (n + 1) * PollStep = n * PollStep + PollStep
PROOF
<1>1. \A a, b, c \in Nat : a <= b => a * c \in Nat /\ a * c <= b * c
  OBVIOUS
<1>2. \A a, c \in Nat : (a + 1) * c = a * c + c
  OBVIOUS
<1>3. AttemptTime \in Nat
  <2>1. MaxAttempts - 1 \in Nat
    BY TimingAssumption
  <2>2. (MaxAttempts - 1) * WaitTime \in Nat /\ PollSleeps * PollStep \in Nat
    BY <1>1, <2>1, TimingAssumption
  <2> QED BY <2>2 DEF AttemptTime
<1>4. \A k \in 0..Retries : k * AttemptTime \in Nat /\ k * AttemptTime <= Retries * AttemptTime
  BY <1>1, <1>3, TimingAssumption
<1>5. \A t \in 0..MaxAttempts - 1 : /\ t * WaitTime \in Nat
                                    /\ t * WaitTime <= (MaxAttempts - 1) * WaitTime
                                    /\ (t + 1) * WaitTime = t * WaitTime + WaitTime
  BY <1>1, <1>2, TimingAssumption
<1>6. \A n \in 0..PollSleeps : /\ n * PollStep \in Nat
                               /\ n * PollStep <= PollSleeps * PollStep
                               /\ (n + 1) * PollStep = n * PollStep + PollStep
  BY <1>1, <1>2, TimingAssumption
<1> QED BY <1>2, <1>3, <1>4, <1>5, <1>6

\* The parts of an attempt add up.
LEMMA SumFacts ==
  \A s, x, a, b, m, n \in Nat :
    s <= x + a + b /\ a <= m /\ b <= n => s <= x + (m + n)
PROOF OBVIOUS

\* What taking the first element of a queue leaves.
LEMMA TailFacts ==
  ASSUME NEW S, NEW q \in Seq(S), q # <<>>
  PROVE  /\ Head(q) \in S /\ Head(q) = q[1] /\ 1 \in 1..Len(q)
         /\ Tail(q) \in Seq(S) /\ Len(Tail(q)) = Len(q) - 1
         /\ \A i \in 1..Len(Tail(q)) : i + 1 \in 1..Len(q) /\ Tail(q)[i] = q[i + 1]
PROOF OBVIOUS

\* What adding an element to a queue keeps.
LEMMA AppendFacts ==
  ASSUME NEW S, NEW q \in Seq(S), NEW e \in S
  PROVE  /\ Append(q, e) \in Seq(S) /\ Len(Append(q, e)) = Len(q) + 1
         /\ \A i \in 1..Len(Append(q, e)) :
              \/ i \in 1..Len(q) /\ Append(q, e)[i] = q[i]
              \/ i = Len(q) + 1 /\ Append(q, e)[i] = e
PROOF OBVIOUS

\* A slot that is not empty holds a response, and is that record.
LEMMA SlotFacts ==
  ASSUME TypeOK, slot # NoResponse
  PROVE  /\ slot \in Responses /\ slot.par \in Params /\ slot.rc \in Codes
         /\ slot = [par |-> slot.par, rc |-> slot.rc]
PROOF BY DEF TypeOK, Responses

\* A code is never the sentinel, so an empty slot is never a success.
LEMMA CodeFacts ==
  /\ NoCode \notin Codes /\ Success \in Codes
  /\ NoResponse.rc # Success /\ NoResponse \notin Responses
PROOF BY CodesAssumption DEF NoCode, Success, Codes, NoResponse, Responses

LEMMA CallStep ==
  ASSUME IndInv, NEW p \in Params, NEW v \in Values, Call(p, v)
  PROVE  IndInv'
PROOF
<1> USE DEF IndInv, Call
<1>1. TypeOK'
  <2>1. quiet' \in BOOLEAN
    OBVIOUS
  <2> QED BY <2>1, TimingAssumption, BoundsAssumption DEF TypeOK, PCs, Outcomes, busVars
<1>2. (SlotIsFresh /\ CodeAgrees)'
  BY DEF SlotIsFresh, CodeAgrees, Success, NoCode
<1>3. (Budget /\ BlockingBounded)'
  BY TimingAssumption, AttemptTimeFacts DEF Budget, BlockingBounded
<1>4. QuietBus'
  <2>1. quiet' => Len(toDevice') = 0 /\ Len(rxQueue') = 0 /\ fresh' = {}
    BY DEF busVars
  <2> QED BY <2>1 DEF QuietBus
<1>5. TrueIsAnswered'
  BY DEF TrueIsAnswered
<1> QED BY <1>1, <1>2, <1>3, <1>4, <1>5

LEMMA BeginAttemptStep ==
  ASSUME IndInv, BeginAttempt
  PROVE  IndInv'
PROOF
<1> USE DEF IndInv, BeginAttempt
<1>1. TypeOK'
  BY TimingAssumption DEF TypeOK, PCs, callVars, resultVars, busVars
<1>2. (SlotIsFresh /\ CodeAgrees)'
  BY DEF SlotIsFresh, CodeAgrees, callVars, resultVars
<1>3. (Budget /\ BlockingBounded)'
  BY TimingAssumption, AttemptTimeFacts DEF TypeOK, Budget, BlockingBounded
<1>4. (QuietBus /\ TrueIsAnswered)'
  BY DEF QuietBus, TrueIsAnswered, CodeAgrees, callVars, resultVars, busVars
<1> QED BY <1>1, <1>2, <1>3, <1>4

LEMMA GiveUpStep ==
  ASSUME IndInv, GiveUp
  PROVE  IndInv'
PROOF
<1> USE DEF IndInv, GiveUp
<1>1. TypeOK'
  BY DEF TypeOK, PCs, Outcomes, callVars, loopVars, busVars, history
<1>2. (SlotIsFresh /\ CodeAgrees)'
  BY DEF SlotIsFresh, CodeAgrees, callVars, loopVars, busVars, history
<1>3. (Budget /\ BlockingBounded)'
  BY DEF TypeOK, Budget, BlockingBounded, callVars, loopVars, busVars, history
<1>4. (QuietBus /\ TrueIsAnswered)'
  BY DEF QuietBus, TrueIsAnswered, callVars, loopVars, busVars, history
<1> QED BY <1>1, <1>2, <1>3, <1>4

LEMMA SendAcceptedStep ==
  ASSUME IndInv, SendAccepted
  PROVE  IndInv'
PROOF
<1> USE DEF IndInv, SendAccepted
<1>1. [par |-> par, val |-> val] \in Requests
  BY DEF TypeOK, Requests
<1>2. TypeOK'
  BY <1>1, AppendFacts DEF TypeOK, PCs, callVars, loopVars, resultVars, history
<1>3. (SlotIsFresh /\ CodeAgrees)'
  BY DEF SlotIsFresh, CodeAgrees, callVars, resultVars, history
<1>4. (Budget /\ BlockingBounded)'
  BY DEF Budget, BlockingBounded, loopVars
<1>5. QuietBus'
  BY <1>1, AppendFacts DEF TypeOK, QuietBus, callVars, history
<1>6. TrueIsAnswered'
  BY DEF TrueIsAnswered, callVars, resultVars, history
<1> QED BY <1>1, <1>2, <1>3, <1>4, <1>5, <1>6

LEMMA SendBusyStep ==
  ASSUME IndInv, SendBusy
  PROVE  IndInv'
PROOF
<1> USE DEF IndInv, SendBusy
<1>1. TypeOK'
  BY TimingAssumption DEF TypeOK, PCs, Outcomes, Budget, callVars, busVars, history
<1>2. (SlotIsFresh /\ CodeAgrees)'
  BY DEF SlotIsFresh, CodeAgrees, callVars, history
<1>3. slept' <= attempt * AttemptTime + tries' * WaitTime
  <2>1. slept <= attempt * AttemptTime + tries * WaitTime
    BY TimingAssumption, AttemptTimeFacts DEF TypeOK, Budget
  <2>2. (tries + 1) * WaitTime = tries * WaitTime + WaitTime /\ tries * WaitTime \in Nat
    BY TimingAssumption, AttemptTimeFacts DEF TypeOK, Budget
  <2>3. attempt * AttemptTime \in Nat
    BY AttemptTimeFacts DEF TypeOK
  <2> QED BY <2>1, <2>2, <2>3, TimingAssumption DEF TypeOK
<1>4. Budget'
  <2>1. polls' = 0 /\ polls' * PollStep = 0
    BY TimingAssumption DEF Budget
  <2>2. attempt * AttemptTime \in Nat /\ tries' \in Nat
    BY AttemptTimeFacts DEF TypeOK
  <2>3. pc' = "send" => tries' < MaxAttempts /\ tries' * WaitTime \in Nat
    BY <2>2, TimingAssumption, AttemptTimeFacts
  <2>4. pc' \in {"send", "idle"} /\ attempt' < Retries
    BY DEF Budget
  <2> QED BY <1>3, <2>1, <2>2, <2>3, <2>4 DEF Budget
<1>5. BlockingBounded'
  <2>1. tries' * WaitTime <= (MaxAttempts - 1) * WaitTime + WaitTime /\ tries' * WaitTime \in Nat
    BY TimingAssumption, AttemptTimeFacts DEF TypeOK, Budget
  <2>2. (MaxAttempts - 1) * WaitTime \in Nat /\ PollSleeps * PollStep \in Nat
    BY TimingAssumption, AttemptTimeFacts
  <2>3. tries' * WaitTime <= AttemptTime
    BY <2>1, <2>2, TimingAssumption DEF AttemptTime
  <2>4. attempt * AttemptTime + AttemptTime <= Retries * AttemptTime
    <3>1. attempt + 1 \in 0..Retries /\ attempt \in Nat
      BY TimingAssumption DEF TypeOK, Budget
    <3> QED BY <3>1, AttemptTimeFacts
  <2>5. attempt * AttemptTime \in Nat /\ Retries * AttemptTime \in Nat
    BY TimingAssumption, AttemptTimeFacts DEF TypeOK
  <2>6. slept' \in Nat
    BY TimingAssumption DEF TypeOK
  <2> QED BY <1>3, <2>1, <2>3, <2>4, <2>5, <2>6, AttemptTimeFacts DEF BlockingBounded
<1>6. (QuietBus /\ TrueIsAnswered)'
  BY DEF QuietBus, TrueIsAnswered, CodeAgrees, callVars, busVars, history
<1> QED BY <1>1, <1>2, <1>3, <1>4, <1>5, <1>6

LEMMA SendFailedStep ==
  ASSUME IndInv, SendFailed
  PROVE  IndInv'
PROOF
<1> USE DEF IndInv, SendFailed
<1>1. TypeOK'
  BY DEF TypeOK, PCs, Outcomes, callVars, loopVars, busVars, history
<1>2. (SlotIsFresh /\ CodeAgrees)'
  BY DEF SlotIsFresh, CodeAgrees, callVars, loopVars, busVars, history
<1>3. (Budget /\ BlockingBounded)'
  BY DEF Budget, BlockingBounded, callVars, loopVars, busVars, history
<1>4. (QuietBus /\ TrueIsAnswered)'
  BY DEF QuietBus, TrueIsAnswered, callVars, loopVars, busVars, history
<1> QED BY <1>1, <1>2, <1>3, <1>4

LEMMA PollSuccessStep ==
  ASSUME IndInv, PollSuccess
  PROVE  IndInv'
PROOF
<1> USE DEF IndInv, PollSuccess
<1>1. slot # NoResponse /\ slot = [par |-> par, rc |-> Success]
  BY SlotFacts, CodeFacts
<1>2. slot \in fresh /\ slot \in heard
  BY <1>1 DEF SlotIsFresh
<1>3. TypeOK'
  BY CodeFacts DEF TypeOK, PCs, Outcomes, callVars, loopVars, busVars, history
<1>4. SlotIsFresh'
  BY DEF SlotIsFresh, callVars, loopVars, busVars, history
<1>5. CodeAgrees'
  BY <1>1, <1>2 DEF CodeAgrees, callVars, loopVars, busVars, history
<1>6. TrueIsAnswered'
  BY <1>1, <1>2 DEF TrueIsAnswered, callVars, loopVars, busVars, history
<1>7. (Budget /\ BlockingBounded)'
  BY DEF Budget, BlockingBounded, callVars, loopVars, busVars, history
<1>8. QuietBus'
  BY DEF QuietBus, callVars, loopVars, busVars, history
<1> QED BY <1>1, <1>2, <1>3, <1>4, <1>5, <1>6, <1>7, <1>8

LEMMA PollRetryStep ==
  ASSUME IndInv, PollRetry
  PROVE  IndInv'
PROOF
<1> USE DEF IndInv, PollRetry
<1>1. TypeOK'
  BY SlotFacts, TimingAssumption DEF TypeOK, PCs, Budget, callVars, busVars, history
<1>2. SlotIsFresh'
  BY DEF SlotIsFresh, history
<1>3. CodeAgrees'
  <2>1. slot \in heard /\ slot.rc # NoCode /\ slot = [par |-> slot.par, rc |-> slot.rc]
    BY SlotFacts, CodeFacts DEF SlotIsFresh
  <2> QED BY <2>1 DEF CodeAgrees, callVars, history
<1>4. Budget'
  <2>1. attempt + 1 \in 0..Retries /\ attempt \in Nat
    BY TimingAssumption DEF TypeOK, Budget
  <2>2. tries * WaitTime \in Nat /\ tries * WaitTime <= (MaxAttempts - 1) * WaitTime
    BY TimingAssumption, AttemptTimeFacts DEF TypeOK, Budget
  <2>3. polls * PollStep \in Nat /\ polls * PollStep <= PollSleeps * PollStep
    BY AttemptTimeFacts DEF TypeOK
  <2>4. (MaxAttempts - 1) * WaitTime \in Nat /\ PollSleeps * PollStep \in Nat
    BY TimingAssumption, AttemptTimeFacts
  <2>5. AttemptTime = (MaxAttempts - 1) * WaitTime + PollSleeps * PollStep
    BY DEF AttemptTime
  <2>6. attempt * AttemptTime \in Nat /\ AttemptTime \in Nat
    BY AttemptTimeFacts DEF TypeOK
  <2>7. slept \in Nat /\ slept <= attempt * AttemptTime + tries * WaitTime + polls * PollStep
    BY DEF TypeOK, Budget
  <2>8. slept <= attempt * AttemptTime + AttemptTime
    BY <2>2, <2>3, <2>4, <2>5, <2>6, <2>7, SumFacts
  <2> QED BY <2>1, <2>8, AttemptTimeFacts DEF Budget
<1>5. (BlockingBounded /\ QuietBus /\ TrueIsAnswered)'
  BY DEF BlockingBounded, QuietBus, TrueIsAnswered, CodeAgrees, callVars, busVars, history
<1> QED BY <1>1, <1>2, <1>3, <1>4, <1>5

LEMMA PollSleepStep ==
  ASSUME IndInv, PollSleep
  PROVE  IndInv'
PROOF
<1> USE DEF IndInv, PollSleep
<1>1. TypeOK'
  BY TimingAssumption DEF TypeOK, PCs, callVars, resultVars, busVars, history
<1>2. (SlotIsFresh /\ CodeAgrees)'
  BY DEF SlotIsFresh, CodeAgrees, callVars, resultVars, history
<1>3. slept' <= attempt * AttemptTime + tries * WaitTime + polls' * PollStep
  <2>1. (polls + 1) * PollStep = polls * PollStep + PollStep /\ polls * PollStep \in Nat
    BY TimingAssumption, AttemptTimeFacts DEF TypeOK
  <2>2. attempt * AttemptTime \in Nat /\ tries * WaitTime \in Nat
    BY TimingAssumption, AttemptTimeFacts DEF TypeOK, Budget
  <2> QED BY <2>1, <2>2, TimingAssumption DEF TypeOK, Budget
<1>4. Budget'
  BY <1>3, TimingAssumption DEF TypeOK, Budget
<1>5. BlockingBounded'
  <2>1. tries * WaitTime \in Nat /\ tries * WaitTime <= (MaxAttempts - 1) * WaitTime
    BY TimingAssumption, AttemptTimeFacts DEF TypeOK, Budget
  <2>2. polls' \in 0..PollSleeps
    BY TimingAssumption DEF TypeOK
  <2>3. polls' * PollStep \in Nat /\ polls' * PollStep <= PollSleeps * PollStep
    BY <2>2, AttemptTimeFacts
  <2>4. (MaxAttempts - 1) * WaitTime \in Nat /\ PollSleeps * PollStep \in Nat
    BY TimingAssumption, AttemptTimeFacts
  <2>5. attempt + 1 \in 0..Retries /\ attempt \in 0..Retries /\ attempt \in Nat
    BY TimingAssumption DEF TypeOK, Budget
  <2>6. attempt * AttemptTime + AttemptTime <= Retries * AttemptTime
    BY <2>5, AttemptTimeFacts
  <2>7. attempt * AttemptTime \in Nat /\ Retries * AttemptTime \in Nat
    BY <2>5, TimingAssumption, AttemptTimeFacts
  <2>8. slept' \in Nat
    BY TimingAssumption DEF TypeOK
  <2>9. tries * WaitTime + polls' * PollStep <= AttemptTime
    BY <2>1, <2>3, <2>4 DEF AttemptTime
  <2> QED BY <1>3, <2>1, <2>3, <2>6, <2>7, <2>8, <2>9, AttemptTimeFacts DEF BlockingBounded
<1>6. (QuietBus /\ TrueIsAnswered)'
  BY DEF QuietBus, TrueIsAnswered, callVars, resultVars, busVars, history
<1> QED BY <1>1, <1>2, <1>3, <1>4, <1>5, <1>6

LEMMA PollTimeoutStep ==
  ASSUME IndInv, PollTimeout
  PROVE  IndInv'
PROOF
<1> USE DEF IndInv, PollTimeout
<1>1. TypeOK'
  BY TimingAssumption DEF TypeOK, PCs, Budget, callVars, resultVars, busVars, history
<1>2. (SlotIsFresh /\ CodeAgrees)'
  BY DEF SlotIsFresh, CodeAgrees, callVars, resultVars, history
<1>3. Budget'
  <2>1. attempt + 1 \in 0..Retries /\ attempt \in Nat
    BY TimingAssumption DEF TypeOK, Budget
  <2>2. tries * WaitTime \in Nat /\ tries * WaitTime <= (MaxAttempts - 1) * WaitTime
    BY TimingAssumption, AttemptTimeFacts DEF TypeOK, Budget
  <2>3. polls * PollStep \in Nat /\ polls * PollStep <= PollSleeps * PollStep
    BY AttemptTimeFacts DEF TypeOK
  <2>4. (MaxAttempts - 1) * WaitTime \in Nat /\ PollSleeps * PollStep \in Nat
    BY TimingAssumption, AttemptTimeFacts
  <2>5. AttemptTime = (MaxAttempts - 1) * WaitTime + PollSleeps * PollStep
    BY DEF AttemptTime
  <2>6. attempt * AttemptTime \in Nat /\ AttemptTime \in Nat
    BY AttemptTimeFacts DEF TypeOK
  <2>7. slept \in Nat /\ slept <= attempt * AttemptTime + tries * WaitTime + polls * PollStep
    BY DEF TypeOK, Budget
  <2>8. slept <= attempt * AttemptTime + AttemptTime
    BY <2>2, <2>3, <2>4, <2>5, <2>6, <2>7, SumFacts
  <2> QED BY <2>1, <2>8, AttemptTimeFacts DEF Budget
<1>4. (BlockingBounded /\ QuietBus /\ TrueIsAnswered)'
  BY DEF BlockingBounded, QuietBus, TrueIsAnswered, callVars, resultVars, busVars, history
<1> QED BY <1>1, <1>2, <1>3, <1>4

LEMMA ReaderStoresStep ==
  ASSUME IndInv, ReaderStores
  PROVE  IndInv'
PROOF
<1> USE DEF IndInv, ReaderStores
<1>1. Head(rxQueue) \in Responses /\ Head(rxQueue) = rxQueue[1] /\ 1 \in 1..Len(rxQueue)
  BY TailFacts DEF TypeOK
<1>2. TypeOK'
  <2>1. rxQueue' \in Seq(Responses)
    BY TailFacts DEF TypeOK
  <2> QED BY <1>1, <2>1 DEF TypeOK, callVars, loopVars, resultVars
<1>3. (SlotIsFresh /\ CodeAgrees)'
  BY DEF SlotIsFresh, CodeAgrees, callVars, resultVars
<1>4. (Budget /\ BlockingBounded)'
  BY DEF Budget, BlockingBounded, loopVars
<1>5. QuietBus'
  BY <1>1, TailFacts DEF TypeOK, QuietBus, callVars
<1>6. TrueIsAnswered'
  BY DEF TrueIsAnswered, callVars, resultVars
<1> QED BY <1>1, <1>2, <1>3, <1>4, <1>5, <1>6

LEMMA DeviceAnswersStep ==
  ASSUME IndInv, DeviceAnswers
  PROVE  IndInv'
PROOF
<1> USE DEF IndInv, DeviceAnswers
<1>1. PICK rc \in Codes :
        /\ device' = IF rc = Success
                     THEN [device EXCEPT ![Head(toDevice).par] = Head(toDevice).val]
                     ELSE device
        /\ rxQueue' = Offer(rxQueue, [par |-> Head(toDevice).par, rc |-> rc])
  OBVIOUS
<1>2. /\ Head(toDevice) \in Requests /\ Head(toDevice) = toDevice[1] /\ 1 \in 1..Len(toDevice)
      /\ toDevice' \in Seq(Requests)
      /\ \A i \in 1..Len(toDevice') : i + 1 \in 1..Len(toDevice) /\ toDevice'[i] = toDevice[i + 1]
  BY TailFacts DEF TypeOK
<1> DEFINE answer == [par |-> Head(toDevice).par, rc |-> rc]
<1>4. answer \in Responses
  BY <1>2 DEF Requests, Responses
<1>5. /\ rxQueue' \in Seq(Responses)
      /\ \A i \in 1..Len(rxQueue') :
           (i \in 1..Len(rxQueue) /\ rxQueue'[i] = rxQueue[i]) \/ rxQueue'[i] = answer
  BY <1>1, <1>4, AppendFacts DEF TypeOK, Offer
<1>6. TypeOK'
  BY <1>1, <1>2, <1>5 DEF TypeOK, Requests, callVars, loopVars, resultVars, history
<1>7. (SlotIsFresh /\ CodeAgrees /\ Budget)'
  BY DEF SlotIsFresh, CodeAgrees, Budget, callVars, loopVars, resultVars, history
<1>8. (BlockingBounded /\ TrueIsAnswered)'
  BY DEF BlockingBounded, TrueIsAnswered, callVars, loopVars, resultVars, history
<1>9. QuietBus'
  <2> SUFFICES ASSUME quiet PROVE QuietBus'
    BY DEF QuietBus, history
  <2>1. Head(toDevice) = [par |-> par, val |-> val]
    BY <1>2 DEF QuietBus
  <2>2. device[par] = val => device'[par] = val
    BY <1>1, <2>1 DEF TypeOK
  <2>3. rc = Success => device'[par] = val
    BY <1>1, <2>1 DEF TypeOK
  <2>4. \A i \in 1..Len(toDevice') : toDevice'[i] = [par |-> par, val |-> val]
    BY <1>2 DEF QuietBus
  <2>5. \A i \in 1..Len(rxQueue') : rxQueue'[i].rc = Success => device'[par] = val
    BY <1>5, <2>2, <2>3 DEF QuietBus
  <2>6. \A r \in fresh : r.rc = Success => device'[par] = val
    BY <2>2 DEF QuietBus
  <2> QED BY <2>4, <2>5, <2>6 DEF QuietBus, callVars, history
<1> QED BY <1>6, <1>7, <1>8, <1>9

LEMMA ForeignWriteStep ==
  ASSUME IndInv, NEW p \in Params, NEW v \in Values, ForeignWrite(p, v)
  PROVE  IndInv'
PROOF
<1> USE DEF IndInv, ForeignWrite
<1>1. [par |-> p, val |-> v] \in Requests
  BY DEF Requests
<1>2. toDevice' \in Seq(Requests)
  BY <1>1, AppendFacts DEF TypeOK
<1>3. quiet' \in BOOLEAN /\ foreign' \in 0..MaxForeign
  <2>1. quiet' \in BOOLEAN
    OBVIOUS
  <2>2. foreign' \in 0..MaxForeign
    BY BoundsAssumption DEF TypeOK
  <2> QED BY <2>1, <2>2
<1>4. TypeOK'
  BY <1>2, <1>3 DEF TypeOK, callVars, loopVars, resultVars
<1>5. (SlotIsFresh /\ CodeAgrees /\ Budget)'
  BY DEF SlotIsFresh, CodeAgrees, Budget, callVars, loopVars, resultVars
<1>6. (QuietBus /\ BlockingBounded /\ TrueIsAnswered)'
  BY DEF QuietBus, BlockingBounded, TrueIsAnswered, callVars, loopVars, resultVars
<1> QED BY <1>4, <1>5, <1>6

LEMMA LoseRequestStep ==
  ASSUME IndInv, LoseRequest
  PROVE  IndInv'
PROOF
<1> USE DEF IndInv, LoseRequest
<1>1. TypeOK'
  BY TailFacts DEF TypeOK, callVars, loopVars, resultVars, history
<1>2. (SlotIsFresh /\ CodeAgrees /\ Budget)'
  BY DEF SlotIsFresh, CodeAgrees, Budget, callVars, loopVars, resultVars, history
<1>3. (BlockingBounded /\ TrueIsAnswered)'
  BY DEF BlockingBounded, TrueIsAnswered, callVars, loopVars, resultVars, history
<1>4. QuietBus'
  BY TailFacts DEF TypeOK, QuietBus, callVars, history
<1> QED BY <1>1, <1>2, <1>3, <1>4

LEMMA LoseResponseStep ==
  ASSUME IndInv, LoseResponse
  PROVE  IndInv'
PROOF
<1> USE DEF IndInv, LoseResponse
<1>1. TypeOK'
  BY TailFacts DEF TypeOK, callVars, loopVars, resultVars, history
<1>2. (SlotIsFresh /\ CodeAgrees /\ Budget)'
  BY DEF SlotIsFresh, CodeAgrees, Budget, callVars, loopVars, resultVars, history
<1>3. (BlockingBounded /\ TrueIsAnswered)'
  BY DEF BlockingBounded, TrueIsAnswered, callVars, loopVars, resultVars, history
<1>4. QuietBus'
  BY TailFacts DEF TypeOK, QuietBus, callVars, history
<1> QED BY <1>1, <1>2, <1>3, <1>4

-----------------------------------------------------------------------------
LEMMA InitIndInv == Init => IndInv
PROOF
<1> SUFFICES ASSUME Init PROVE IndInv
  OBVIOUS
<1> USE DEF Init
<1>1. TypeOK
  BY TimingAssumption, BoundsAssumption
  DEF TypeOK, PCs, Outcomes, Codes, Requests, Responses
<1>2. SlotIsFresh /\ CodeAgrees /\ QuietBus /\ TrueIsAnswered
  BY DEF SlotIsFresh, CodeAgrees, QuietBus, TrueIsAnswered, Success, NoCode
<1>3. Budget /\ BlockingBounded
  BY TimingAssumption, AttemptTimeFacts DEF Budget, BlockingBounded
<1> QED BY <1>1, <1>2, <1>3 DEF IndInv

LEMMA StutterIndInv ==
  ASSUME IndInv, UNCHANGED vars
  PROVE  IndInv'
PROOF
<1> USE DEF vars, callVars, loopVars, resultVars, busVars, history
<1>1. TypeOK'
  BY DEF IndInv, TypeOK
<1>2. (SlotIsFresh /\ CodeAgrees /\ QuietBus /\ TrueIsAnswered)'
  BY DEF IndInv, SlotIsFresh, CodeAgrees, QuietBus, TrueIsAnswered
<1>3. (Budget /\ BlockingBounded)'
  BY DEF IndInv, Budget, BlockingBounded
<1> QED BY <1>1, <1>2, <1>3 DEF IndInv

LEMMA NextIndInv == IndInv /\ [Next]_vars => IndInv'
PROOF
<1> SUFFICES ASSUME IndInv, [Next]_vars PROVE IndInv'
  OBVIOUS
<1>1. ASSUME NEW p \in Params, NEW v \in Values, Call(p, v) PROVE IndInv'
  BY <1>1, CallStep
<1>2. CASE BeginAttempt
  BY <1>2, BeginAttemptStep
<1>3. CASE GiveUp
  BY <1>3, GiveUpStep
<1>4. CASE SendAccepted
  BY <1>4, SendAcceptedStep
<1>5. CASE SendBusy
  BY <1>5, SendBusyStep
<1>6. CASE SendFailed
  BY <1>6, SendFailedStep
<1>7. CASE PollSuccess
  BY <1>7, PollSuccessStep
<1>8. CASE PollRetry
  BY <1>8, PollRetryStep
<1>9. CASE PollSleep
  BY <1>9, PollSleepStep
<1>10. CASE PollTimeout
  BY <1>10, PollTimeoutStep
<1>11. CASE ReaderStores
  BY <1>11, ReaderStoresStep
<1>12. CASE DeviceAnswers
  BY <1>12, DeviceAnswersStep
<1>13. CASE LoseRequest
  BY <1>13, LoseRequestStep
<1>14. CASE LoseResponse
  BY <1>14, LoseResponseStep
<1>15. ASSUME NEW p \in Params, NEW v \in Values, ForeignWrite(p, v) PROVE IndInv'
  BY <1>15, ForeignWriteStep
<1>16. CASE UNCHANGED vars
  BY <1>16, StutterIndInv
<1> QED
  BY <1>1, <1>2, <1>3, <1>4, <1>5, <1>6, <1>7, <1>8, <1>9, <1>10, <1>11, <1>12, <1>13, <1>14, <1>15, <1>16 DEF Next, AppStep, Environment

\* The inductive invariant holds in every state of every behaviour.
THEOREM Inductive == Spec => []IndInv
PROOF
<1> QED BY InitIndInv, NextIndInv, PTL DEF Spec

\* Every variable keeps its type, whatever the constants.
THEOREM Typing == Spec => []TypeOK
PROOF
<1>1. IndInv => TypeOK
  BY DEF IndInv
<1> QED BY <1>1, Inductive, PTL

\* A call returns "true" only on a success for its parameter that the reader
\* thread stored after the last reset of param_resp_.
THEOREM TrueAnswered == Spec => []TrueIsAnswered
PROOF
<1>1. IndInv => TrueIsAnswered
  BY DEF IndInv
<1> QED BY <1>1, Inductive, PTL

\* On a quiet bus, "true" means that the controller holds the value.
THEOREM TrueStored == Spec => []TrueMeansStored
PROOF
<1>1. IndInv => TrueMeansStored
  <2> SUFFICES ASSUME IndInv, outcome = "true", quiet PROVE device[par] = val
    BY DEF TrueMeansStored
  <2>1. [par |-> par, rc |-> Success] \in fresh
    BY DEF IndInv, TrueIsAnswered
  <2> QED BY <2>1 DEF IndInv, QuietBus
<1> QED BY <1>1, Inductive, PTL

\* lastResultCode never reports a response to another parameter, and it is
\* the success code exactly when the call returned "true".
THEOREM CodeExplained == Spec => []CodeExplainsOutcome
PROOF
<1>1. IndInv => CodeExplainsOutcome
  BY DEF IndInv, CodeAgrees, CodeExplainsOutcome
<1> QED BY <1>1, Inductive, PTL

\* A call never sleeps longer than its attempts can: with the numbers of the
\* code, 3 * (49 * 1 + 10 * 5) = 297 ms.
THEOREM Blocking == Spec => []BlockingBounded
PROOF
<1>1. IndInv => BlockingBounded
  BY DEF IndInv
<1> QED BY <1>1, Inductive, PTL

-----------------------------------------------------------------------------
(* The detailed call implements WriteContract. *)

LEMMA InitContract == Init => Contract!Init
PROOF BY DEF Init, Contract!Init

\* What the reader stores is heard; nothing else of the bus shows.
LEMMA ReaderContract ==
  ASSUME IndInv, ReaderStores
  PROVE  [Contract!Next]_Contract!vars
PROOF
<1> DEFINE acked == {h.par : h \in {g \in heard : g.rc = Success}}
           r == Head(rxQueue)
<1>1. r \in Responses
  BY TailFacts DEF IndInv, TypeOK, ReaderStores
<1>2. UNCHANGED <<pc, par, outcome>> /\ heard' = heard \union {r}
  BY DEF ReaderStores, callVars, resultVars
<1>3. CASE r.rc = Success
  <2>1. PICK p \in Params : p = r.par
    BY <1>1 DEF Responses
  <2>2. acked' = acked \union {p}
    BY <1>2, <1>3, <2>1
  <2>3. Contract!Hear(p)
    BY <1>2, <2>2 DEF Contract!Hear
  <2> QED BY <2>3 DEF Contract!Next
<1>4. CASE r.rc # Success
  <2>1. acked' = acked
    BY <1>2, <1>4
  <2> QED BY <1>2, <2>1 DEF Contract!vars
<1> QED BY <1>3, <1>4

\* "True" is returned only with the success of the wanted parameter heard.
LEMMA ReturnContract ==
  ASSUME IndInv, PollSuccess
  PROVE  Contract!ReturnTrue
PROOF
<1>1. slot # NoResponse /\ slot \in heard
  BY CodeFacts DEF IndInv, SlotIsFresh, PollSuccess
<1>2. par \in {h.par : h \in {g \in heard : g.rc = Success}}
  BY <1>1 DEF PollSuccess
<1> QED BY <1>2 DEF PollSuccess, Contract!ReturnTrue, callVars, history

LEMMA NextContract == IndInv /\ [Next]_vars => [Contract!Next]_Contract!vars
PROOF
<1> SUFFICES ASSUME IndInv, [Next]_vars PROVE [Contract!Next]_Contract!vars
  OBVIOUS
<1> USE DEF callVars, loopVars, resultVars, busVars, history
<1>1. ASSUME NEW p \in Params, NEW v \in Values, Call(p, v)
      PROVE  [Contract!Next]_Contract!vars
  <2>1. Contract!Begin(p)
    BY <1>1 DEF Call, Contract!Begin
  <2> QED BY <2>1 DEF Contract!Next
<1>2. CASE BeginAttempt \/ SendAccepted \/ PollSleep \/ PollRetry \/ PollTimeout
  BY <1>2 DEF BeginAttempt, SendAccepted, PollSleep, PollRetry, PollTimeout, Contract!vars
<1>3. CASE GiveUp \/ SendFailed
  <2>1. Contract!Fail
    BY <1>3 DEF GiveUp, SendFailed, Contract!Fail
  <2> QED BY <2>1 DEF Contract!Next
<1>4. CASE SendBusy
  <2>1. Contract!Fail \/ UNCHANGED Contract!vars
    BY <1>4 DEF SendBusy, Contract!Fail, Contract!vars
  <2> QED BY <2>1 DEF Contract!Next
<1>5. CASE PollSuccess
  BY <1>5, ReturnContract DEF Contract!Next
<1>6. CASE ReaderStores
  BY <1>6, ReaderContract
<1>7. CASE DeviceAnswers \/ LoseRequest \/ LoseResponse
  BY <1>7 DEF DeviceAnswers, LoseRequest, LoseResponse, Contract!vars
<1>8. ASSUME NEW p \in Params, NEW v \in Values, ForeignWrite(p, v)
      PROVE  [Contract!Next]_Contract!vars
  BY <1>8 DEF ForeignWrite, Contract!vars
<1>9. CASE UNCHANGED vars
  BY <1>9 DEF vars, Contract!vars
<1> QED
  BY <1>1, <1>2, <1>3, <1>4, <1>5, <1>6, <1>7, <1>8, <1>9 DEF Next, AppStep, Environment

\* Every behaviour of the code's call is a behaviour of the contract.
THEOREM Refinement == Spec => ImplementsContract
PROOF
<1> QED BY InitContract, NextContract, Inductive, PTL DEF Spec, ImplementsContract, Contract!Spec
================================================================================
