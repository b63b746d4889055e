---------------------------- MODULE TelemetryProofs ----------------------------
(* What the caches promise for any set of frames, queue, length of behaviour *)
(* and clock.                                                                *)
EXTENDS Telemetry, TLAPS

-----------------------------------------------------------------------------
(* The inductive invariant. *)

\* No cache was stamped, and no frame received, in the future.
PastOnly ==
  /\ \A c \in Caches : stamp[c] <= clock
  /\ \A f \in Fields : cache[f].rx <= clock
  /\ \A i \in 1..Len(rxQueue) : rxQueue[i].rx <= clock

\* The queue is in the order of arrival, behind all that is cached.
InOrder ==
  /\ \A i, j \in 1..Len(rxQueue) : i <= j => rxQueue[i].rx <= rxQueue[j].rx
  /\ \A f \in Fields, i \in 1..Len(rxQueue) : cache[f].rx <= rxQueue[i].rx

\* The age the application has read is never younger than the cache.
Patient == watch.pc = "aged" => watch.heard <= stamp[watch.of]

\* A matched 25.x controller without siblings sends no class-6 frame.
Matched == protocol = "Spark25x" /\ firmware = protocol /\ lone
QueuedWhenMatched ==
  Matched => \A i \in 1..Len(rxQueue) :
               rxQueue[i].device = Mine => rxQueue[i].kind \in Speaks("Spark25x")

IndInv ==
  /\ AgesTrue /\ AgeThenValueIsSafe /\ OwnedWhenMatched
  /\ PastOnly /\ InOrder /\ Patient /\ QueuedWhenMatched

-----------------------------------------------------------------------------
(* The tables. *)

\* The ages on offer and the values they are meant for.
LEMMA AgedFacts ==
  /\ DOMAIN Aged = {"period2", "period3", "period4", "status5"}
  /\ \A c \in DOMAIN Aged : c \in Caches /\ Aged[c] \in Fields
  /\ Aged["period2"] = "position" /\ Aged["period3"] = "analogPosition"
  /\ Aged["period4"] = "altEncoderPosition" /\ Aged["status5"] = "absPosition"
PROOF
<1>1. /\ DOMAIN Aged = {"period2", "period3", "period4", "status5"}
      /\ Aged["period2"] = "position" /\ Aged["period3"] = "analogPosition"
      /\ Aged["period4"] = "altEncoderPosition" /\ Aged["status5"] = "absPosition"
  BY DEF Aged
<1> QED
  BY <1>1 DEF Caches, Fields, Period2, Period3, Period4, Status5

\* A frame writes a value with an age if and only if it stamps that age.
LEMMA WritesWithStamp ==
  ASSUME NEW kind \in Kinds, NEW c \in DOMAIN Aged
  PROVE  Aged[c] \in Writes(kind) <=> c \in Stamps(kind)
PROOF
<1>1. c \in {"period2", "period3", "period4", "status5"}
  BY AgedFacts
<1>2. CASE kind \in ClassicKinds
  BY <1>1, <1>2, AgedFacts
     DEF ClassicKinds, Writes, Stamps, Period0, Period1, Period2, Period3, Period4
<1>3. CASE kind \in StatusKinds
  BY <1>1, <1>3, AgedFacts DEF StatusKinds, Writes, Stamps, Period4, Status5
<1>4. CASE kind \in {"Firmware", "ParamResponse"}
  BY <1>4 DEF Writes, Stamps
<1> QED BY <1>2, <1>3, <1>4 DEF Kinds

\* What a 25.x status frame writes it owns.
LEMMA WritesOwned ==
  ASSUME NEW kind \in Speaks("Spark25x"), NEW f \in Writes(kind)
  PROVE  Owner(f) = kind
PROOF
<1>1. kind \in StatusKinds \/ kind \in {"Firmware", "ParamResponse"}
  BY DEF Speaks
<1>2. CASE kind \in {"Firmware", "ParamResponse"}
  BY <1>2 DEF Writes
<1>3. CASE kind \in {"Status0", "Status1", "Status2", "Status3"}
  BY <1>3 DEF Writes, Owner, Period4, Status5
<1>4. CASE kind \in {"Status4", "Status5"}
  BY <1>4 DEF Writes, Owner, Period4, Status5
<1> QED BY <1>1, <1>2, <1>3, <1>4 DEF StatusKinds

-----------------------------------------------------------------------------
(* Queues. *)

\* What taking the first frame leaves.
LEMMA TailFacts ==
  ASSUME NEW S, NEW q \in Seq(S), q # <<>>
  PROVE  /\ Head(q) \in S /\ Head(q) = q[1] /\ 1 \in 1..Len(q)
         /\ Tail(q) \in Seq(S) /\ Len(Tail(q)) = Len(q) - 1
         /\ \A i \in 1..Len(Tail(q)) : i + 1 \in 1..Len(q) /\ Tail(q)[i] = q[i + 1]
PROOF OBVIOUS

\* What a frame more at the end leaves.
LEMMA AppendFacts ==
  ASSUME NEW S, NEW q \in Seq(S), NEW e \in S
  PROVE  /\ Append(q, e) \in Seq(S) /\ Len(Append(q, e)) = Len(q) + 1
         /\ \A i \in 1..Len(q) : Append(q, e)[i] = q[i]
         /\ Append(q, e)[Len(q) + 1] = e
PROOF OBVIOUS

-----------------------------------------------------------------------------
(* The initial states. *)

LEMMA InitInv == Init => IndInv
PROOF
<1> SUFFICES ASSUME Init PROVE IndInv
  OBVIOUS
<1> USE DEF Init
<1>1. /\ protocol \in Protocols /\ firmware \in Protocols
      /\ filtered \in BOOLEAN /\ lone \in BOOLEAN
  OBVIOUS
<1>2. clock \in 0..MaxClock /\ received \in 0..MaxFrames
  BY BoundsAssumption
<1>3. rxQueue \in Seq(Frames) /\ Len(rxQueue) = 0 /\ Len(rxQueue) <= QueueBound
  BY BoundsAssumption
<1>4. /\ cache \in [Fields -> Origins \union {Unset}]
      /\ fwResp \in Origins \union {Unset} /\ paramResp \in Origins \union {Unset}
  OBVIOUS
<1>5. stamp \in [Caches -> 0..MaxClock \union {Never}]
  OBVIOUS
<1>6. /\ watch \in [pc : {"idle", "aged", "read"}, of : DOMAIN Aged,
                    heard : 0..MaxClock \union {Never}, value : Origins \union {Unset}]
      /\ watch.pc = "idle"
  BY AgedFacts DEF NoWatch
<1>7. TypeOK
  BY <1>1, <1>2, <1>3, <1>4, <1>5, <1>6 DEF TypeOK
<1>8. /\ \A f \in Fields : cache[f] = Unset
      /\ \A c \in Caches : stamp[c] = Never
      /\ Unset.rx = -1 /\ Unset.at = -1 /\ Unset.kind = "none" /\ Never = -1 /\ clock = 0
  BY DEF Unset, Never
<1>9. AgeIsThatOfValue
  BY <1>8, AgedFacts DEF AgeIsThatOfValue
<1>10. PastOnly /\ InOrder
  BY <1>3, <1>8 DEF PastOnly, InOrder
<1>11. AgeThenValueIsSafe /\ Patient
  BY <1>6 DEF AgeThenValueIsSafe, Patient
<1>12. OwnedWhenMatched /\ QueuedWhenMatched
  BY <1>3, <1>8 DEF OwnedWhenMatched, QueuedWhenMatched
<1> QED
  BY <1>7, <1>9, <1>10, <1>11, <1>12 DEF IndInv, AgesTrue

-----------------------------------------------------------------------------
(* The reader thread. *)

\* Where a time may lie.
LEMMA Times ==
  ASSUME TypeOK
  PROVE  /\ clock \in 0..MaxClock
         /\ rxQueue \in Seq(Frames)
         /\ \A i \in 1..Len(rxQueue) : rxQueue[i].rx \in 0..MaxClock
         /\ \A f \in Fields : cache[f].rx \in 0..MaxClock \union {-1}
         /\ \A c \in Caches : stamp[c] \in 0..MaxClock \union {-1}
PROOF
<1>1. /\ clock \in 0..MaxClock /\ rxQueue \in Seq(Frames)
      /\ cache \in [Fields -> Origins \union {Unset}]
      /\ stamp \in [Caches -> 0..MaxClock \union {Never}]
  BY DEF TypeOK
<1>2. \A frame \in Frames : frame.rx \in 0..MaxClock
  BY DEF Frames
<1>3. \A o \in Origins \union {Unset} : o.rx \in 0..MaxClock \union {-1}
  BY DEF Origins, Unset, Never
<1>4. \A i \in 1..Len(rxQueue) : rxQueue[i] \in Frames
  BY <1>1
<1> QED BY <1>1, <1>2, <1>3, <1>4 DEF Never

\* What the handling of a frame does to each field and cache.
LEMMA DispatchFacts ==
  ASSUME TypeOK, Dispatch, NEW frame, frame = Head(rxQueue)
  PROVE  /\ frame \in Frames /\ 1 \in 1..Len(rxQueue) /\ frame = rxQueue[1]
         /\ rxQueue' \in Seq(Frames) /\ Len(rxQueue') <= QueueBound
         /\ \A i \in 1..Len(rxQueue') :
              i + 1 \in 1..Len(rxQueue) /\ rxQueue'[i] = rxQueue[i + 1]
         /\ cache' \in [Fields -> Origins \union {Unset}]
         /\ stamp' \in [Caches -> 0..MaxClock \union {Never}]
         /\ fwResp' \in Origins \union {Unset} /\ paramResp' \in Origins \union {Unset}
         /\ \A f \in Fields :
              cache'[f] = IF Handled(frame) /\ f \in Writes(frame.kind)
                          THEN Origin(frame) ELSE cache[f]
         /\ \A c \in Caches :
              stamp'[c] = IF Handled(frame) /\ c \in Stamps(frame.kind)
                          THEN clock ELSE stamp[c]
PROOF
<1>1. /\ rxQueue # <<>> /\ rxQueue' = Tail(rxQueue)
      /\ rxQueue \in Seq(Frames) /\ Len(rxQueue) <= QueueBound
      /\ clock \in 0..MaxClock
      /\ cache \in [Fields -> Origins \union {Unset}]
      /\ stamp \in [Caches -> 0..MaxClock \union {Never}]
      /\ fwResp \in Origins \union {Unset} /\ paramResp \in Origins \union {Unset}
  BY DEF Dispatch, TypeOK
<1>2. /\ frame \in Frames /\ 1 \in 1..Len(rxQueue) /\ frame = rxQueue[1]
      /\ rxQueue' \in Seq(Frames)
      /\ \A i \in 1..Len(rxQueue') :
           i + 1 \in 1..Len(rxQueue) /\ rxQueue'[i] = rxQueue[i + 1]
  BY <1>1, TailFacts
<1>3. Len(rxQueue') <= QueueBound
  BY <1>1, TailFacts, BoundsAssumption
<1>4. Origin(frame) \in Origins
  BY <1>1, <1>2 DEF Origin, Frames, Origins
<1>5. CASE Handled(frame)
  <2>1. /\ cache' = [f \in Fields |->
                       IF f \in Writes(frame.kind) THEN Origin(frame) ELSE cache[f]]
        /\ stamp' = [c \in Caches |->
                       IF c \in Stamps(frame.kind) THEN clock ELSE stamp[c]]
        /\ fwResp' = IF frame.kind = "Firmware" THEN Origin(frame) ELSE fwResp
        /\ paramResp' = IF frame.kind = "ParamResponse" THEN Origin(frame) ELSE paramResp
    BY <1>5 DEF Dispatch
  <2>2. cache' \in [Fields -> Origins \union {Unset}]
    BY <1>1, <1>4, <2>1
  <2>3. stamp' \in [Caches -> 0..MaxClock \union {Never}]
    BY <1>1, <2>1
  <2>4. fwResp' \in Origins \union {Unset} /\ paramResp' \in Origins \union {Unset}
    BY <1>1, <1>4, <2>1
  <2>5. /\ \A f \in Fields :
             cache'[f] = IF f \in Writes(frame.kind) THEN Origin(frame) ELSE cache[f]
        /\ \A c \in Caches :
             stamp'[c] = IF c \in Stamps(frame.kind) THEN clock ELSE stamp[c]
    BY <2>1
  <2> QED BY <1>2, <1>3, <1>5, <2>2, <2>3, <2>4, <2>5
<1>6. CASE ~Handled(frame)
  <2>1. UNCHANGED <<cache, stamp, slots>>
    BY <1>6 DEF Dispatch
  <2> QED BY <1>1, <1>2, <1>3, <1>6, <2>1 DEF slots
<1> QED BY <1>5, <1>6

LEMMA DispatchStep == IndInv /\ Dispatch => IndInv'
PROOF
<1> SUFFICES ASSUME IndInv, Dispatch PROVE IndInv'
  OBVIOUS
<1> DEFINE frame == Head(rxQueue)
<1>1. TypeOK
  BY DEF IndInv, AgesTrue
<1>2. UNCHANGED <<config, clock, filtered, watch, lone, received>>
  BY DEF Dispatch
<1>3. /\ frame \in Frames /\ 1 \in 1..Len(rxQueue) /\ frame = rxQueue[1]
      /\ rxQueue' \in Seq(Frames) /\ Len(rxQueue') <= QueueBound
      /\ \A i \in 1..Len(rxQueue') :
           i + 1 \in 1..Len(rxQueue) /\ rxQueue'[i] = rxQueue[i + 1]
  BY <1>1, DispatchFacts
<1>4. /\ cache' \in [Fields -> Origins \union {Unset}]
      /\ stamp' \in [Caches -> 0..MaxClock \union {Never}]
      /\ fwResp' \in Origins \union {Unset} /\ paramResp' \in Origins \union {Unset}
  BY <1>1, DispatchFacts
<1>5. /\ \A f \in Fields :
           cache'[f] = IF Handled(frame) /\ f \in Writes(frame.kind)
                       THEN Origin(frame) ELSE cache[f]
      /\ \A c \in Caches :
           stamp'[c] = IF Handled(frame) /\ c \in Stamps(frame.kind)
                       THEN clock ELSE stamp[c]
  BY <1>1, DispatchFacts
<1> HIDE DEF frame
<1>6. /\ Origin(frame).kind = frame.kind /\ Origin(frame).rx = frame.rx
      /\ Origin(frame).at = clock
      /\ frame.kind \in Kinds /\ frame.rx \in 0..MaxClock
  BY <1>3 DEF Origin, Frames
<1>7. /\ clock \in 0..MaxClock
      /\ rxQueue \in Seq(Frames)
      /\ \A i \in 1..Len(rxQueue) : rxQueue[i].rx \in 0..MaxClock
      /\ \A f \in Fields : cache[f].rx \in 0..MaxClock \union {-1}
      /\ \A c \in Caches : stamp[c] \in 0..MaxClock \union {-1}
  BY <1>1, Times
<1>8. /\ \A c \in Caches : stamp[c] <= clock
      /\ \A f \in Fields : cache[f].rx <= clock
      /\ \A i \in 1..Len(rxQueue) : rxQueue[i].rx <= clock
      /\ \A i, j \in 1..Len(rxQueue) : i <= j => rxQueue[i].rx <= rxQueue[j].rx
      /\ \A f \in Fields, i \in 1..Len(rxQueue) : cache[f].rx <= rxQueue[i].rx
  BY DEF IndInv, PastOnly, InOrder
<1>9. TypeOK'
  BY <1>1, <1>2, <1>3, <1>4 DEF TypeOK, config
<1>10. AgeIsThatOfValue'
  <2> SUFFICES ASSUME NEW c \in DOMAIN Aged
               PROVE  stamp'[c] = cache'[Aged[c]].at
    BY DEF AgeIsThatOfValue
  <2>1. c \in Caches /\ Aged[c] \in Fields
    BY AgedFacts
  <2>2. stamp[c] = cache[Aged[c]].at
    BY DEF IndInv, AgesTrue, AgeIsThatOfValue
  <2>3. Aged[c] \in Writes(frame.kind) <=> c \in Stamps(frame.kind)
    BY <1>6, WritesWithStamp
  <2> QED BY <1>5, <1>6, <2>1, <2>2, <2>3
<1>11. PastOnly'
  BY <1>2, <1>3, <1>5, <1>6, <1>7, <1>8 DEF PastOnly
<1>12. InOrder'
  <2>1. \A i, j \in 1..Len(rxQueue') : i <= j => rxQueue'[i].rx <= rxQueue'[j].rx
    <3> SUFFICES ASSUME NEW i \in 1..Len(rxQueue'), NEW j \in 1..Len(rxQueue'), i <= j
                 PROVE  rxQueue'[i].rx <= rxQueue'[j].rx
      OBVIOUS
    <3>1. /\ rxQueue'[i] = rxQueue[i + 1] /\ i + 1 \in 1..Len(rxQueue)
          /\ rxQueue'[j] = rxQueue[j + 1] /\ j + 1 \in 1..Len(rxQueue)
      BY <1>3
    <3>2. i + 1 <= j + 1
      OBVIOUS
    <3> QED BY <1>8, <3>1, <3>2
  <2>2. \A f \in Fields, i \in 1..Len(rxQueue') : cache'[f].rx <= rxQueue'[i].rx
    <3> SUFFICES ASSUME NEW f \in Fields, NEW i \in 1..Len(rxQueue')
                 PROVE  cache'[f].rx <= rxQueue'[i].rx
      OBVIOUS
    <3>1. frame.rx <= rxQueue'[i].rx
      BY <1>3, <1>8
    <3>2. cache[f].rx <= rxQueue'[i].rx
      BY <1>3, <1>8
    <3> QED BY <1>5, <1>6, <3>1, <3>2
  <2> QED BY <2>1, <2>2 DEF InOrder
<1>13. AgeThenValueIsSafe'
  BY <1>2 DEF IndInv, AgeThenValueIsSafe
<1>14. Patient'
  <2> SUFFICES ASSUME watch.pc = "aged" PROVE watch.heard <= stamp'[watch.of]
    BY <1>2 DEF Patient
  <2>1. watch.heard <= stamp[watch.of]
    BY DEF IndInv, Patient
  <2>2. watch.of \in Caches /\ watch.heard \in 0..MaxClock \union {-1}
    BY <1>1, AgedFacts DEF TypeOK, Never
  <2> QED BY <1>5, <1>7, <1>8, <2>1, <2>2
<1>15. OwnedWhenMatched' /\ QueuedWhenMatched'
  <2> SUFFICES ASSUME Matched
               PROVE  /\ \A f \in Fields : cache'[f].kind \in {Owner(f), "none"}
                      /\ \A i \in 1..Len(rxQueue') :
                           rxQueue'[i].device = Mine => rxQueue'[i].kind \in Speaks("Spark25x")
    BY <1>2 DEF OwnedWhenMatched, QueuedWhenMatched, Matched, config
  <2>1. \A i \in 1..Len(rxQueue) :
          rxQueue[i].device = Mine => rxQueue[i].kind \in Speaks("Spark25x")
    BY DEF IndInv, QueuedWhenMatched
  <2>2. \A f \in Fields : cache[f].kind \in {Owner(f), "none"}
    BY DEF IndInv, OwnedWhenMatched, Matched
  <2>3. Handled(frame) => frame.kind \in Speaks("Spark25x")
    BY <1>3, <2>1 DEF Handled
  <2>4. \A f \in Fields : cache'[f].kind \in {Owner(f), "none"}
    BY <1>5, <1>6, <2>2, <2>3, WritesOwned
  <2> QED BY <1>3, <2>1, <2>4
<1> QED
  BY <1>9, <1>10, <1>11, <1>12, <1>13, <1>14, <1>15 DEF IndInv, AgesTrue
-----------------------------------------------------------------------------
(* The application, the filter and the clock. *)

LEMMA AppStep == IndInv /\ App => IndInv'
PROOF
<1> SUFFICES ASSUME IndInv, App PROVE IndInv'
  OBVIOUS
<1>1. TypeOK
  BY DEF IndInv, AgesTrue
<1>2. UNCHANGED <<config, clock, rxQueue, cache, stamp, slots, filtered, lone, received>>
  BY DEF App, ReadAge, ReadValue, Forget
<1> DEFINE Watches == [pc : {"idle", "aged", "read"}, of : DOMAIN Aged,
                       heard : 0..MaxClock \union {Never}, value : Origins \union {Unset}]
<1>3. /\ watch \in Watches /\ Unset \in Origins \union {Unset}
      /\ Never \in 0..MaxClock \union {Never}
      /\ stamp \in [Caches -> 0..MaxClock \union {Never}]
      /\ cache \in [Fields -> Origins \union {Unset}]
  BY <1>1 DEF TypeOK
<1>4. \A c \in Caches : stamp[c] \in 0..MaxClock \union {-1}
  BY <1>1, Times
<1>5. /\ watch' \in Watches
      /\ watch'.pc = "aged" => watch'.heard <= stamp[watch'.of]
      /\ watch'.pc = "read" => watch'.value.at >= watch'.heard
  <2>1. ASSUME NEW c \in DOMAIN Aged, ReadAge(c)
        PROVE  /\ watch' \in Watches /\ watch'.pc = "aged"
               /\ watch'.heard = stamp[c] /\ watch'.of = c
    <3>1. c \in Caches /\ stamp[c] \in 0..MaxClock \union {Never}
      BY <1>3, AgedFacts
    <3>2. watch' = [pc |-> "aged", of |-> c, heard |-> stamp[c], value |-> Unset]
      BY <2>1 DEF ReadAge, NoWatch
    <3> QED BY <1>3, <3>1, <3>2
  <2>2. ASSUME ReadValue
        PROVE  /\ watch' \in Watches /\ watch'.pc = "read"
               /\ watch'.value.at >= watch'.heard
    <3>1. watch.pc = "aged" /\ watch.of \in DOMAIN Aged
          /\ watch' = [watch EXCEPT !.pc = "read", !.value = cache[Aged[watch.of]]]
      BY <1>3, <2>2 DEF ReadValue
    <3>2. watch.of \in Caches /\ Aged[watch.of] \in Fields
      BY <3>1, AgedFacts
    <3>3. stamp[watch.of] = cache[Aged[watch.of]].at
      BY <3>1 DEF IndInv, AgesTrue, AgeIsThatOfValue
    <3>4. watch.heard <= stamp[watch.of] /\ watch.heard \in 0..MaxClock \union {-1}
      BY <1>3, <3>1 DEF IndInv, Patient, Never
    <3>5. cache[Aged[watch.of]] \in Origins \union {Unset}
      BY <1>3, <3>2
    <3>6. watch' \in Watches /\ watch'.pc = "read" /\ watch'.heard = watch.heard
          /\ watch'.value = cache[Aged[watch.of]]
      BY <1>3, <3>1, <3>5
    <3> QED BY <1>4, <3>2, <3>3, <3>4, <3>6
  <2>3. ASSUME Forget
        PROVE  watch' \in Watches /\ watch'.pc = "idle"
    BY <1>3, <2>3, AgedFacts DEF Forget, NoWatch
  <2>4. ASSUME NEW c \in DOMAIN Aged, ReadAge(c)
        PROVE  watch'.heard <= stamp[watch'.of]
    BY <1>4, <2>1, <2>4, AgedFacts
  <2> HIDE DEF Watches
  <2> QED BY <2>1, <2>2, <2>3, <2>4 DEF App
<1>6. TypeOK'
  BY <1>1, <1>2, <1>5 DEF TypeOK, config, slots
<1>7. AgeIsThatOfValue' /\ PastOnly' /\ InOrder' /\ OwnedWhenMatched' /\ QueuedWhenMatched'
  BY <1>2 DEF IndInv, AgesTrue, AgeIsThatOfValue, PastOnly, InOrder, OwnedWhenMatched,
              QueuedWhenMatched, Matched, config
<1>8. AgeThenValueIsSafe' /\ Patient'
  BY <1>2, <1>5 DEF AgeThenValueIsSafe, Patient
<1> QED
  BY <1>6, <1>7, <1>8 DEF IndInv, AgesTrue

\* The filter and the clock touch no cache and no frame.
LEMMA TimeStep == IndInv /\ (InstallFilter \/ Tick) => IndInv'
PROOF
<1> SUFFICES ASSUME IndInv, InstallFilter \/ Tick PROVE IndInv'
  OBVIOUS
<1>1. TypeOK
  BY DEF IndInv, AgesTrue
<1>2. UNCHANGED <<config, rxQueue, cache, stamp, slots, watch, lone, received>>
  BY DEF InstallFilter, Tick
<1>3. filtered' \in BOOLEAN
  BY <1>1 DEF InstallFilter, Tick, TypeOK
<1>4. clock' \in 0..MaxClock /\ clock <= clock'
  BY <1>1, BoundsAssumption DEF InstallFilter, Tick, TypeOK
<1>5. TypeOK'
  BY <1>1, <1>2, <1>3, <1>4 DEF TypeOK, config, slots
<1>6. PastOnly'
  BY <1>1, <1>2, <1>4, Times DEF IndInv, PastOnly
<1>7. /\ AgeIsThatOfValue' /\ InOrder' /\ OwnedWhenMatched' /\ QueuedWhenMatched'
      /\ AgeThenValueIsSafe' /\ Patient'
  BY <1>2 DEF IndInv, AgesTrue, AgeIsThatOfValue, InOrder, OwnedWhenMatched,
              QueuedWhenMatched, Matched, AgeThenValueIsSafe, Patient, config
<1> QED
  BY <1>5, <1>6, <1>7 DEF IndInv, AgesTrue

-----------------------------------------------------------------------------
(* The bus. *)

\* A frame from anybody joins the queue; while the object is matched and
\* alone, one with its controller's number is that controller's.
LEMMA ReceiveStep ==
  ASSUME IndInv, NEW kind \in Kinds, NEW device \in {Mine, Other}, NEW dlc \in Lengths,
         Receive(kind, device, dlc),
         lone' = lone \/ lone' = FALSE,
         lone' /\ device = Mine => kind \in Speaks(firmware)
  PROVE  IndInv'
PROOF
<1> DEFINE frame == [kind |-> kind, device |-> device, dlc |-> dlc, rx |-> clock]
<1>1. TypeOK
  BY DEF IndInv, AgesTrue
<1>2. /\ received < MaxFrames /\ received' = received + 1 /\ Len(rxQueue) < QueueBound
      /\ rxQueue' = Append(rxQueue, frame)
      /\ UNCHANGED <<config, clock, cache, stamp, slots, filtered, watch>>
  BY DEF Receive
<1>3. frame \in Frames /\ frame.kind = kind /\ frame.device = device /\ frame.rx = clock
  BY <1>1, Times DEF Frames
<1> HIDE DEF frame
<1>4. /\ rxQueue' \in Seq(Frames) /\ Len(rxQueue') = Len(rxQueue) + 1
      /\ \A i \in 1..Len(rxQueue) : rxQueue'[i] = rxQueue[i]
      /\ rxQueue'[Len(rxQueue) + 1] = frame
  BY <1>1, <1>2, <1>3, AppendFacts, Times
<1>5. received' \in 0..MaxFrames /\ Len(rxQueue') <= QueueBound /\ Len(rxQueue) \in Nat
  BY <1>1, <1>2, <1>4, BoundsAssumption DEF TypeOK
<1>6. lone' \in BOOLEAN /\ (lone' => lone)
  <2>1. lone \in BOOLEAN
    BY <1>1 DEF TypeOK
  <2>2. CASE lone' = lone
    BY <2>1, <2>2
  <2>3. CASE lone' = FALSE
    BY <2>3
  <2> QED BY <2>2, <2>3
<1>7. TypeOK'
  BY <1>1, <1>2, <1>4, <1>5, <1>6 DEF TypeOK, config, slots
<1>8. PastOnly'
  BY <1>1, <1>2, <1>3, <1>4, <1>5, Times DEF IndInv, PastOnly
<1>9. InOrder'
  BY <1>1, <1>2, <1>3, <1>4, <1>5, Times DEF IndInv, PastOnly, InOrder
<1>10. OwnedWhenMatched' /\ QueuedWhenMatched'
  <2>1. OwnedWhenMatched'
    BY <1>2, <1>6 DEF IndInv, OwnedWhenMatched, config
  <2>2. QueuedWhenMatched'
    BY <1>2, <1>3, <1>4, <1>5, <1>6 DEF IndInv, QueuedWhenMatched, Matched, config
  <2> QED BY <2>1, <2>2
<1>11. AgeIsThatOfValue' /\ AgeThenValueIsSafe' /\ Patient'
  BY <1>2 DEF IndInv, AgesTrue, AgeIsThatOfValue, AgeThenValueIsSafe, Patient
<1> QED
  BY <1>7, <1>8, <1>9, <1>10, <1>11 DEF IndInv, AgesTrue

LEMMA BusStep == IndInv /\ (Bus \/ Siblings) => IndInv'
PROOF
<1> SUFFICES ASSUME IndInv, Bus \/ Siblings PROVE IndInv'
  OBVIOUS
<1>1. Mine # Other /\ Mine \in {Mine, Other} /\ Other \in {Mine, Other}
  BY DEF Mine, Other
<1>2. \A kind \in Kinds : Length(kind) \in Lengths
  BY DEF Length, Lengths
<1>3. \A kind \in Kinds : ControllerSends(kind) => IndInv'
  BY <1>1, <1>2, ReceiveStep DEF ControllerSends
<1>4. \A kind \in Kinds : OtherControllerSends(kind) => IndInv'
  BY <1>1, <1>2, ReceiveStep DEF OtherControllerSends
<1>5. \A kind \in ClassicKinds : SiblingSetsPeriod(kind) => IndInv'
  BY <1>1, ReceiveStep DEF SiblingSetsPeriod, Lengths, Kinds
<1>6. \A dlc \in Lengths : SiblingAsksFirmware(dlc) => IndInv'
  BY <1>1, ReceiveStep DEF SiblingAsksFirmware, Kinds
<1> QED
  BY <1>3, <1>4, <1>5, <1>6 DEF Bus, Siblings

-----------------------------------------------------------------------------
LEMMA NextInv == IndInv /\ [Next]_vars => IndInv'
PROOF
<1> SUFFICES ASSUME IndInv, [Next]_vars PROVE IndInv'
  OBVIOUS
<1>1. CASE UNCHANGED vars
  BY <1>1 DEF vars, config, slots, IndInv, AgesTrue, TypeOK, AgeIsThatOfValue,
              AgeThenValueIsSafe, OwnedWhenMatched, PastOnly, InOrder, Patient,
              QueuedWhenMatched, Matched
<1> QED
  BY <1>1, DispatchStep, AppStep, TimeStep, BusStep DEF Next

LEMMA Inductive == Spec => []IndInv
PROOF BY InitInv, NextInv, PTL DEF Spec

-----------------------------------------------------------------------------
\* Every age is that of the value it is meant for, whatever is received.
THEOREM TrueAges == Spec => []AgesTrue
PROOF
<1>1. IndInv => AgesTrue
  BY DEF IndInv
<1> QED BY <1>1, Inductive, PTL

\* An age read before its value is never better than the value deserves.
THEOREM SafeOrder == Spec => []AgeThenValueIsSafe
PROOF
<1>1. IndInv => AgeThenValueIsSafe
  BY DEF IndInv
<1> QED BY <1>1, Inductive, PTL

\* With matched 25.x firmware and no sibling one status frame owns each value.
THEOREM Owned == Spec => []OwnedWhenMatched
PROOF
<1>1. IndInv => OwnedWhenMatched
  BY DEF IndInv
<1> QED BY <1>1, Inductive, PTL

\* No value is replaced by one that arrived earlier, and no time stamp goes back.
THEOREM Newer == Spec => OnlyNewer
PROOF
<1> DEFINE Monotone == /\ \A f \in Fields : cache'[f].rx >= cache[f].rx
                       /\ \A c \in Caches : stamp'[c] >= stamp[c]
<1>1. IndInv /\ [Next]_vars => [Monotone]_vars
  <2> SUFFICES ASSUME IndInv, Next PROVE Monotone
    OBVIOUS
  <2>1. TypeOK
    BY DEF IndInv, AgesTrue
  <2>2. /\ \A f \in Fields : cache[f].rx \in 0..MaxClock \union {-1}
        /\ \A c \in Caches : stamp[c] \in 0..MaxClock \union {-1} /\ clock \in 0..MaxClock
    BY <2>1, Times
  <2>3. CASE Dispatch
    <3> DEFINE frame == Head(rxQueue)
    <3>1. /\ frame = rxQueue[1] /\ 1 \in 1..Len(rxQueue)
          /\ \A f \in Fields :
               cache'[f] = IF Handled(frame) /\ f \in Writes(frame.kind)
                           THEN Origin(frame) ELSE cache[f]
          /\ \A c \in Caches :
               stamp'[c] = IF Handled(frame) /\ c \in Stamps(frame.kind)
                           THEN clock ELSE stamp[c]
      BY <2>1, <2>3, DispatchFacts
    <3> HIDE DEF frame
    <3>2. /\ \A f \in Fields : cache[f].rx <= frame.rx
          /\ \A c \in Caches : stamp[c] <= clock
      BY <3>1 DEF IndInv, InOrder, PastOnly
    <3>3. Origin(frame).rx = frame.rx /\ frame.rx \in 0..MaxClock
      BY <2>1, <3>1, Times DEF Origin
    <3> QED BY <2>2, <3>1, <3>2, <3>3
  <2>4. CASE ~Dispatch
    <3>1. UNCHANGED <<cache, stamp>>
      BY <2>4 DEF Next, App, ReadAge, ReadValue, Forget, InstallFilter, Bus, Siblings,
                  ControllerSends, OtherControllerSends, SiblingSetsPeriod,
                  SiblingAsksFirmware, Receive, Tick
    <3> QED BY <2>2, <3>1
  <2> QED BY <2>3, <2>4
<1> QED BY <1>1, Inductive, PTL DEF Spec, OnlyNewer

=============================================================================
