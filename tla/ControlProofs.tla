----------------------------- MODULE ControlProofs -----------------------------
(* What Control promises for every set of threads, controllers, commands and  *)
(* values and for every length of the transmit queue.                         *)
EXTENDS Control, TLAPS

\* What taking the first frame leaves of a queue.
LEMMA TailFacts ==
  ASSUME NEW S, NEW q \in Seq(S), q # <<>>
  PROVE  /\ Head(q) \in S /\ Head(q) = q[1] /\ 1 \in DOMAIN q
         /\ Tail(q) \in Seq(S) /\ Len(Tail(q)) = Len(q) - 1
         /\ \A i \in DOMAIN Tail(q) : i + 1 \in DOMAIN q /\ Tail(q)[i] = q[i + 1]
PROOF OBVIOUS

\* What queuing a frame keeps of a queue.
LEMMA AppendFacts ==
  ASSUME NEW S, NEW q \in Seq(S), NEW e \in S
  PROVE  /\ Append(q, e) \in Seq(S) /\ Len(Append(q, e)) = Len(q) + 1
         /\ DOMAIN Append(q, e) = 1..(Len(q) + 1) /\ DOMAIN q = 1..Len(q)
         /\ \A i \in DOMAIN Append(q, e) :
              \/ i \in DOMAIN q /\ Append(q, e)[i] = q[i]
              \/ i = Len(q) + 1 /\ i \notin DOMAIN q /\ Append(q, e)[i] = e
PROOF OBVIOUS

\* The frame of a command means that command, but for the broadcast heartbeat.
LEMMA Names ==
  ASSUME NEW p \in Protocols, NEW op \in Ops
  PROVE  /\ FrameName(p, op) \in FrameNames
         /\ FrameName(p, op) # "Broadcast" => Meaning(FrameName(p, op)) = op
         /\ FrameName(p, op) = "Broadcast" => op = "Heartbeat"
         /\ Meaning("Broadcast") = "Broadcast" /\ "Broadcast" \notin Ops /\ "Broadcast" \notin Steering
PROOF
<1>1. op \in AllOps
  BY OpsAssumption
<1>2. "Broadcast" \notin AllOps
  BY DEF AllOps, Steering, Setpoints, Maintenance
<1>3. FrameName(p, op) \in FrameNames
  BY DEF FrameNames
<1>4. FrameName(p, op) # "Broadcast" => Meaning(FrameName(p, op)) = op
  BY <1>1 DEF FrameName, Meaning, SlotKind, AllOps, Steering, Setpoints, Maintenance, Protocols
<1>5. FrameName(p, op) = "Broadcast" => op = "Heartbeat"
  BY <1>1, <1>2 DEF FrameName, SlotKind
<1>6. Meaning("Broadcast") = "Broadcast" /\ "Broadcast" \notin Steering
  BY DEF Meaning, Steering, Setpoints
<1> QED BY <1>2, <1>3, <1>4, <1>5, <1>6, OpsAssumption

\* Every frame carries the verdict of its command.
LEMMA FrameVerdict ==
  ASSUME NEW p \in Protocols, NEW op \in Ops, NEW value, Verdict(op, value) = "ok"
  PROVE  Verdict(Meaning(FrameName(p, op)), value) = "ok"
PROOF
<1>1. Verdict("Broadcast", value) = "ok"
  BY DEF Verdict, Setpoints
<1> QED BY <1>1, Names

\* What a thread that is about to transmit puts on the queue.
LEMMA FrameFacts ==
  ASSUME IndInv, NEW t \in Threads, pc[t] # "idle"
  PROVE  /\ Frame(t) \in Frames
         /\ call[t].obj \in Objects /\ call[t].op \in Ops /\ call[t].value \in AllValues
         /\ protocol[call[t].obj] \in Protocols
         /\ Frame(t).name = FrameName(protocol[call[t].obj], call[t].op)
         /\ Frame(t).obj = call[t].obj /\ Frame(t).value = call[t].value
         /\ Verdict(Meaning(Frame(t).name), Frame(t).value) = "ok"
         /\ Frame(t).name = "Broadcast" => Frame(t).mask = Objects
PROOF
<1> DEFINE c == call[t]
           name == FrameName(protocol[c.obj], c.op)
           mask == IF name = "Broadcast" THEN HeartbeatMask(c.obj) ELSE {}
<1>1. c \in Calls /\ Verdict(c.op, c.value) = "ok"
  BY DEF IndInv, CallsValid
<1>2. c.op \in Ops /\ c.obj \in Objects /\ c.value \in AllValues
  BY <1>1 DEF Calls
<1>3. protocol[c.obj] \in Protocols /\ slot[t] \in 0..3
  BY <1>2 DEF IndInv, TypeOK
<1>4. name \in FrameNames
  BY <1>2, <1>3, Names
<1>5. mask \in SUBSET Objects /\ (name = "Broadcast" => mask = Objects)
  BY DEF HeartbeatMask
<1>6. Frame(t) = [name |-> name, obj |-> c.obj, value |-> c.value, slot |-> slot[t], mask |-> mask]
  BY DEF Frame
<1>7. Verdict(Meaning(name), c.value) = "ok"
  BY <1>1, <1>2, <1>3, FrameVerdict
<1> HIDE DEF c, name, mask
<1>8. Frame(t) \in Frames
  BY <1>2, <1>3, <1>4, <1>5, <1>6 DEF Frames
<1>9. /\ Frame(t).name = name /\ Frame(t).obj = c.obj /\ Frame(t).value = c.value
      /\ Frame(t).mask = mask
  BY <1>6
<1> QED BY <1>2, <1>3, <1>5, <1>7, <1>8, <1>9 DEF c, name

-----------------------------------------------------------------------------
(* The inductive invariant. *)

LEMMA InitInv == Init => IndInv
PROOF
<1> SUFFICES ASSUME Init PROVE IndInv
  OBVIOUS
<1>1. TypeOK
  <2>1. slots \in [Objects -> [velocity : 0..3, position : 0..3]]
    <3>1. [velocity |-> 0, position |-> 1] \in [velocity : 0..3, position : 0..3]
      OBVIOUS
    <3> QED BY <3>1 DEF Init
  <2>2. /\ pc \in [Threads -> {"idle", "encode", "send"}]
        /\ call \in [Threads -> Calls \union {Nobody}]
        /\ slot \in [Threads -> 0..3] /\ seen \in [Threads -> SUBSET (0..3)]
        /\ outcome \in [Threads -> {"none", "ok", "thrown", "refused"}]
    BY DEF Init
  <2>3. tries \in [Threads -> 0..(MaxAttempts - 1)]
    BY BoundsAssumption DEF Init
  <2>4. txQueue \in Seq(Frames) /\ Len(txQueue) <= QueueBound /\ sent \in Seq(Frames)
    BY BoundsAssumption DEF Init
  <2>5. /\ protocol \in [Objects -> Protocols]
        /\ obeys \in [Objects -> [op : Ops, value : AllValues, slot : 0..3] \union {Nobody}]
        /\ enabled \in [Objects -> BOOLEAN] /\ lost \in BOOLEAN
    BY DEF Init
  <2>6. calls \in 0..MaxCalls /\ changes \in 0..MaxChanges /\ lapses \in 0..MaxLapses
    BY BoundsAssumption DEF Init
  <2> QED BY <2>1, <2>2, <2>3, <2>4, <2>5, <2>6 DEF TypeOK
<1>2. CallsValid /\ SlotInForce /\ SlotAsChosen
  BY DEF Init, CallsValid, SlotInForce, SlotAsChosen
<1>3. OrdersValid
  BY DEF Init, OrdersValid
<1> QED BY <1>1, <1>2, <1>3 DEF IndInv

\* The parts of the type invariant of the threads, and of the rest.
ThreadTypes ==
  /\ pc \in [Threads -> {"idle", "encode", "send"}]
  /\ call \in [Threads -> Calls \union {Nobody}]
  /\ slot \in [Threads -> 0..3] /\ tries \in [Threads -> 0..(MaxAttempts - 1)]
  /\ outcome \in [Threads -> {"none", "ok", "thrown", "refused"}]
  /\ seen \in [Threads -> SUBSET (0..3)]
DeviceTypes ==
  /\ protocol \in [Objects -> Protocols]
  /\ slots \in [Objects -> [velocity : 0..3, position : 0..3]]
  /\ txQueue \in Seq(Frames) /\ Len(txQueue) <= QueueBound
  /\ obeys \in [Objects -> [op : Ops, value : AllValues, slot : 0..3] \union {Nobody}]
  /\ enabled \in [Objects -> BOOLEAN]
  /\ sent \in Seq(Frames)
  /\ lost \in BOOLEAN
CountTypes == calls \in 0..MaxCalls /\ changes \in 0..MaxChanges /\ lapses \in 0..MaxLapses

LEMMA Types == TypeOK <=> ThreadTypes /\ DeviceTypes /\ CountTypes
PROOF BY DEF TypeOK, ThreadTypes, DeviceTypes, CountTypes

\* A slot number of either kind.
LEMMA SlotFacts ==
  ASSUME DeviceTypes, NEW o \in Objects, NEW op
  PROVE  LET kind == SlotKind(protocol[o], op)
         IN kind # "none" => slots[o][kind] \in 0..3 /\ slots[o][kind] % 4 = slots[o][kind]
PROOF
<1>1. slots[o] \in [velocity : 0..3, position : 0..3]
  BY DEF DeviceTypes
<1>2. slots[o]["velocity"] \in 0..3 /\ slots[o]["position"] \in 0..3
  BY <1>1
<1>3. \A n \in 0..3 : n % 4 = n
  OBVIOUS
<1>4. SlotKind(protocol[o], op) \in {"velocity", "position", "none"}
  BY DEF SlotKind
<1> QED BY <1>2, <1>3, <1>4

LEMMA BeginInv ==
  ASSUME IndInv, NEW t \in Threads, NEW op \in Ops, NEW o \in Objects, NEW value \in Values[op],
         Begin(t, op, o, value)
  PROVE  IndInv'
PROOF
<1> DEFINE kind == SlotKind(protocol[o], op)
           c == [op |-> op, obj |-> o, value |-> value, id |-> calls']
           where == IF kind = "none" THEN "send" ELSE "encode"
           S == IF kind = "none" THEN {0} ELSE {slots[o][kind]}
<1>1. ThreadTypes /\ DeviceTypes /\ CountTypes
  BY Types DEF IndInv
<1>2. kind # "none" => slots[o][kind] \in 0..3
  BY <1>1, SlotFacts
<1>3. calls' \in 1..MaxCalls
  BY <1>1, BoundsAssumption DEF Begin, CountTypes
<1>4. value \in AllValues
  BY OpsAssumption DEF AllValues
<1>5. c \in Calls
  BY <1>3, <1>4 DEF Calls
<1>6. Verdict(c.op, c.value) = "ok" /\ SlotKind(protocol[c.obj], c.op) = kind /\ c.obj = o
  BY DEF Begin
<1>7. /\ pc' = [pc EXCEPT ![t] = where] /\ call' = [call EXCEPT ![t] = c]
      /\ seen' = [seen EXCEPT ![t] = S] /\ outcome' = [outcome EXCEPT ![t] = "none"]
      /\ pc[t] = "idle"
  BY DEF Begin
<1>8. where \in {"encode", "send"} /\ (where = "send" <=> kind = "none") /\ S \in SUBSET (0..3)
  BY <1>2
<1>9. kind = "none" => S = {0}
  OBVIOUS
<1>10. kind # "none" => S = {slots[o][kind]}
  OBVIOUS
<1>11. UNCHANGED <<protocol, slots, slot, tries, txQueue, obeys, enabled, sent, lost, changes, lapses>>
  BY DEF Begin, deviceVars
<1> HIDE DEF kind, c, where, S
<1>12. \A u \in Threads : IF u = t THEN pc'[u] = where /\ call'[u] = c /\ seen'[u] = S /\ slot'[u] = slot[u]
                          ELSE pc'[u] = pc[u] /\ call'[u] = call[u] /\ seen'[u] = seen[u] /\ slot'[u] = slot[u]
  BY <1>1, <1>7, <1>11 DEF ThreadTypes
<1>13. TypeOK'
  <2>1. ThreadTypes'
    BY <1>1, <1>5, <1>7, <1>8, <1>11 DEF ThreadTypes
  <2>2. DeviceTypes'
    BY <1>1, <1>11 DEF DeviceTypes
  <2>3. CountTypes'
    BY <1>1, <1>3, <1>11, BoundsAssumption DEF CountTypes
  <2> QED BY <2>1, <2>2, <2>3, Types, PTL
<1>14. CallsValid'
  BY <1>5, <1>6, <1>12 DEF IndInv, CallsValid
<1>15. SlotInForce'
  BY <1>6, <1>7, <1>8, <1>10, <1>11, <1>12 DEF IndInv, SlotInForce, Kind
<1>16. SlotAsChosen'
  BY <1>7, <1>8, <1>9, <1>12 DEF IndInv, SlotInForce, SlotAsChosen
<1>17. OrdersValid'
  BY <1>11 DEF IndInv, OrdersValid
<1> QED BY <1>13, <1>14, <1>15, <1>16, <1>17 DEF IndInv

\* A refused call and a refused slot move nothing but an outcome.
LEMMA RefuseInv ==
  ASSUME IndInv, NEW t \in Threads,
         \/ \E op \in Ops : \E value \in Values[op] : Refuse(t, op, value)
         \/ \E s \in NewSlots : RefuseSlot(t, s)
  PROVE  IndInv'
PROOF
<1>1. ThreadTypes /\ DeviceTypes /\ CountTypes
  BY Types DEF IndInv
<1>2. /\ outcome' = [outcome EXCEPT ![t] = "refused"]
      /\ UNCHANGED <<protocol, slots, pc, call, slot, tries, txQueue, obeys, enabled, sent, seen, lost, lapses>>
  BY DEF Refuse, RefuseSlot, deviceVars, history
<1>3. CountTypes'
  <2>1. CASE \E op \in Ops : \E value \in Values[op] : Refuse(t, op, value)
    BY <1>1, <2>1, BoundsAssumption DEF Refuse, CountTypes
  <2>2. CASE \E s \in NewSlots : RefuseSlot(t, s)
    BY <1>1, <2>2, BoundsAssumption DEF RefuseSlot, CountTypes
  <2> QED BY <2>1, <2>2
<1>4. ThreadTypes'
  BY <1>1, <1>2 DEF ThreadTypes
<1>5. DeviceTypes'
  BY <1>1, <1>2 DEF DeviceTypes
<1>6. TypeOK'
  BY <1>3, <1>4, <1>5, Types, PTL
<1>7. CallsValid' /\ SlotInForce' /\ SlotAsChosen'
  BY <1>2 DEF IndInv, CallsValid, SlotInForce, SlotAsChosen, Kind
<1>8. OrdersValid'
  BY <1>2 DEF IndInv, OrdersValid
<1> QED BY <1>6, <1>7, <1>8 DEF IndInv

\* The slot read is the one in force, which the call has seen.
LEMMA EncodeInv ==
  ASSUME IndInv, NEW t \in Threads, Encode(t)
  PROVE  IndInv'
PROOF
<1> DEFINE s == slots[call[t].obj][Kind(t)] % 4
<1>1. ThreadTypes /\ DeviceTypes /\ CountTypes
  BY Types DEF IndInv
<1>2. /\ pc[t] = "encode" /\ pc' = [pc EXCEPT ![t] = "send"] /\ slot' = [slot EXCEPT ![t] = s]
      /\ UNCHANGED <<protocol, slots, call, tries, outcome, txQueue, obeys, enabled, sent, seen, lost,
                     calls, changes, lapses>>
  BY DEF Encode, deviceVars, history, bounds
<1>3. call[t].obj \in Objects
  BY <1>2 DEF IndInv, CallsValid, Calls
<1>4. Kind(t) # "none" /\ slots[call[t].obj][Kind(t)] \in seen[t]
  BY <1>2 DEF IndInv, SlotInForce
<1>5. s \in 0..3 /\ s \in seen[t]
  BY <1>1, <1>3, <1>4, SlotFacts DEF Kind
<1> HIDE DEF s
<1>6. TypeOK'
  <2>1. ThreadTypes'
    BY <1>1, <1>2, <1>5 DEF ThreadTypes
  <2>2. DeviceTypes'
    BY <1>1, <1>2 DEF DeviceTypes
  <2>3. CountTypes'
    BY <1>1, <1>2 DEF CountTypes
  <2> QED BY <2>1, <2>2, <2>3, Types, PTL
<1>7. \A u \in Threads : IF u = t THEN pc'[u] = "send" /\ slot'[u] = s
                         ELSE pc'[u] = pc[u] /\ slot'[u] = slot[u]
  BY <1>1, <1>2 DEF ThreadTypes
<1>8. CallsValid'
  BY <1>2, <1>7 DEF IndInv, CallsValid
<1>9. SlotInForce' /\ SlotAsChosen'
  BY <1>2, <1>5, <1>7 DEF IndInv, SlotInForce, SlotAsChosen, Kind
<1>10. OrdersValid'
  BY <1>2 DEF IndInv, OrdersValid
<1> QED BY <1>6, <1>8, <1>9, <1>10 DEF IndInv

\* A return clears what the call had, and nothing of the others.
LEMMA ReturnFacts ==
  ASSUME IndInv, NEW t \in Threads, NEW how \in {"ok", "thrown"}, Return(t, how),
         UNCHANGED <<protocol, slots>>
  PROVE  ThreadTypes' /\ CallsValid' /\ SlotInForce' /\ SlotAsChosen'
PROOF
<1>1. ThreadTypes /\ CallsValid /\ SlotInForce /\ SlotAsChosen
  BY Types DEF IndInv
<1>2. ThreadTypes'
  <2>1. 0 \in 0..(MaxAttempts - 1)
    BY BoundsAssumption
  <2> QED BY <1>1, <2>1 DEF ThreadTypes, Return
<1>3. \A u \in Threads : IF u = t THEN pc'[u] = "idle" /\ slot'[u] = 0
                         ELSE /\ pc'[u] = pc[u] /\ call'[u] = call[u]
                              /\ slot'[u] = slot[u] /\ seen'[u] = seen[u]
  BY <1>1 DEF ThreadTypes, Return
<1>4. CallsValid'
  BY <1>1, <1>3 DEF CallsValid
<1>5. SlotInForce' /\ SlotAsChosen'
  BY <1>1, <1>3 DEF SlotInForce, SlotAsChosen, Kind
<1> QED BY <1>2, <1>4, <1>5

LEMMA SendAcceptedInv ==
  ASSUME IndInv, NEW t \in Threads, SendAccepted(t)
  PROVE  IndInv'
PROOF
<1>1. DeviceTypes /\ CountTypes
  BY Types DEF IndInv
<1>2. /\ pc[t] = "send" /\ Len(txQueue) < QueueBound /\ Return(t, "ok")
      /\ txQueue' = Append(txQueue, Frame(t)) /\ sent' = Append(sent, Frame(t))
      /\ UNCHANGED <<protocol, slots, obeys, enabled, lost, calls, changes, lapses>>
  BY DEF SendAccepted, deviceVars, bounds
<1>3. /\ Frame(t) \in Frames /\ Verdict(Meaning(Frame(t).name), Frame(t).value) = "ok"
      /\ Frame(t).name = "Broadcast" => Frame(t).mask = Objects
  BY <1>2, FrameFacts
<1>4. ThreadTypes' /\ CallsValid' /\ SlotInForce' /\ SlotAsChosen'
  BY <1>2, ReturnFacts
<1>5. /\ txQueue' \in Seq(Frames) /\ Len(txQueue') = Len(txQueue) + 1 /\ sent' \in Seq(Frames)
      /\ \A i \in DOMAIN txQueue' :
           \/ i \in DOMAIN txQueue /\ txQueue'[i] = txQueue[i]
           \/ txQueue'[i] = Frame(t)
  BY <1>1, <1>2, <1>3, AppendFacts DEF DeviceTypes
<1>6. DeviceTypes'
  <2>1. Len(txQueue) \in Nat
    BY <1>1 DEF DeviceTypes
  <2>2. Len(txQueue') <= QueueBound
    BY <1>2, <1>5, <2>1, BoundsAssumption
  <2> QED BY <1>1, <1>2, <1>5, <2>2 DEF DeviceTypes
<1>7. CountTypes'
  BY <1>1, <1>2 DEF CountTypes
<1>8. TypeOK'
  BY <1>4, <1>6, <1>7, Types, PTL
<1>9. OrdersValid'
  BY <1>2, <1>3, <1>5 DEF IndInv, OrdersValid
<1> QED BY <1>4, <1>8, <1>9 DEF IndInv

\* A full queue or an error: another attempt is counted, or the call is over.
LEMMA NotSentInv ==
  ASSUME IndInv, NEW t \in Threads, SendBusy(t) \/ SendFailed(t)
  PROVE  IndInv'
PROOF
<1>1. ThreadTypes /\ DeviceTypes /\ CountTypes
  BY Types DEF IndInv
<1>2. UNCHANGED <<protocol, slots, txQueue, obeys, enabled, sent, lost, calls, changes, lapses>>
  BY DEF SendBusy, SendFailed, deviceVars, bounds
<1>3. ThreadTypes' /\ CallsValid' /\ SlotInForce' /\ SlotAsChosen'
  <2>1. CASE Return(t, "thrown")
    BY <1>2, <2>1, ReturnFacts
  <2>2. CASE /\ tries[t] + 1 < MaxAttempts /\ tries' = [tries EXCEPT ![t] = @ + 1]
             /\ UNCHANGED <<pc, call, slot, outcome, seen>>
    <3>1. tries[t] + 1 \in 0..(MaxAttempts - 1)
      BY <1>1, <2>2, BoundsAssumption DEF ThreadTypes
    <3>2. ThreadTypes'
      BY <1>1, <2>2, <3>1 DEF ThreadTypes
    <3> QED BY <1>2, <2>2, <3>2 DEF IndInv, CallsValid, SlotInForce, SlotAsChosen, Kind
  <2> QED BY <2>1, <2>2 DEF SendBusy, SendFailed
<1>4. DeviceTypes'
  BY <1>1, <1>2 DEF DeviceTypes
<1>5. CountTypes'
  BY <1>1, <1>2 DEF CountTypes
<1>6. TypeOK'
  BY <1>3, <1>4, <1>5, Types, PTL
<1>7. OrdersValid'
  BY <1>2 DEF IndInv, OrdersValid
<1> QED BY <1>3, <1>6, <1>7 DEF IndInv

\* A thread that selects a slot adds it to what the calls under way have seen.
LEMMA SetSlotInv ==
  ASSUME IndInv, NEW t \in Threads, NEW o \in Objects, NEW kind \in {"velocity", "position"},
         NEW s \in NewSlots, SetSlot(t, o, kind, s)
  PROVE  IndInv'
PROOF
<1>1. ThreadTypes /\ DeviceTypes /\ CountTypes
  BY Types DEF IndInv
<1>2. s \in 0..3
  BY SlotsAssumption DEF SetSlot
<1>3. /\ slots' = [slots EXCEPT ![o][kind] = s] /\ changes' = changes + 1 /\ changes < MaxChanges
      /\ UNCHANGED <<protocol, pc, call, slot, tries, outcome, txQueue, obeys, enabled, sent, lost,
                     calls, lapses>>
  BY DEF SetSlot, threadVars, deviceVars
<1>4. \A u \in Threads : Kind(u)' = Kind(u)
  BY <1>3 DEF Kind
<1>5. /\ seen' \in [Threads -> SUBSET (0..3)]
      /\ \A u \in Threads :
           /\ seen[u] \subseteq seen'[u]
           /\ pc[u] # "idle" /\ call[u].obj = o /\ Kind(u) = kind => s \in seen'[u]
  BY <1>1, <1>2 DEF SetSlot, ThreadTypes
<1>6. /\ slots' \in [Objects -> [velocity : 0..3, position : 0..3]]
      /\ slots'[o][kind] = s
      /\ \A o2 \in Objects, k \in {"velocity", "position"} :
           ~(o2 = o /\ k = kind) => slots'[o2][k] = slots[o2][k]
  <2>1. slots \in [Objects -> [velocity : 0..3, position : 0..3]]
    BY <1>1 DEF DeviceTypes
  <2>2. slots' = [slots EXCEPT ![o] = [slots[o] EXCEPT ![kind] = s]]
    BY <1>3
  <2>3. slots[o] \in [velocity : 0..3, position : 0..3]
    BY <2>1
  <2> DEFINE r == [slots[o] EXCEPT ![kind] = s]
  <2>4. /\ r \in [velocity : 0..3, position : 0..3] /\ r[kind] = s
        /\ \A k \in {"velocity", "position"} : k # kind => r[k] = slots[o][k]
    BY <1>2, <2>3
  <2>5. slots' = [slots EXCEPT ![o] = r]
    BY <2>2
  <2> HIDE DEF r
  <2> QED BY <2>1, <2>4, <2>5
<1>7. TypeOK'
  <2>1. ThreadTypes'
    BY <1>1, <1>3, <1>5 DEF ThreadTypes
  <2>2. DeviceTypes'
    BY <1>1, <1>3, <1>6 DEF DeviceTypes
  <2>3. CountTypes'
    BY <1>1, <1>3, BoundsAssumption DEF CountTypes
  <2> QED BY <2>1, <2>2, <2>3, Types, PTL
<1>8. CallsValid'
  BY <1>3 DEF IndInv, CallsValid
<1>9. SlotInForce'
  <2> SUFFICES ASSUME NEW u \in Threads
               PROVE  /\ pc[u] = "encode" => Kind(u) # "none" /\ slots'[call[u].obj][Kind(u)] \in seen'[u]
                      /\ pc[u] # "send" => slot[u] = 0
    BY <1>3, <1>4 DEF SlotInForce
  <2>1. pc[u] # "send" => slot[u] = 0
    BY DEF IndInv, SlotInForce
  <2>2. ASSUME pc[u] = "encode"
        PROVE  Kind(u) # "none" /\ slots'[call[u].obj][Kind(u)] \in seen'[u]
    <3>1. Kind(u) # "none" /\ slots[call[u].obj][Kind(u)] \in seen[u]
      BY <2>2 DEF IndInv, SlotInForce
    <3>2. Kind(u) \in {"velocity", "position"}
      BY <3>1 DEF Kind, SlotKind
    <3>3. call[u].obj \in Objects
      BY <2>2 DEF IndInv, CallsValid, Calls
    <3>4. CASE call[u].obj = o /\ Kind(u) = kind
      BY <1>5, <1>6, <2>2, <3>1, <3>4
    <3>5. CASE ~(call[u].obj = o /\ Kind(u) = kind)
      BY <1>5, <1>6, <3>1, <3>2, <3>3, <3>5
    <3> QED BY <3>4, <3>5
  <2> QED BY <2>1, <2>2
<1>10. SlotAsChosen'
  BY <1>3, <1>5 DEF IndInv, SlotAsChosen
<1>11. OrdersValid'
  BY <1>3 DEF IndInv, OrdersValid
<1> QED BY <1>7, <1>8, <1>9, <1>10, <1>11 DEF IndInv

\* A frame that leaves the queue, for a controller or for nowhere, leaves the
\* threads and the rest of the queue as they are.
LEMMA DequeueFacts ==
  ASSUME IndInv, txQueue # <<>>, txQueue' = Tail(txQueue),
         UNCHANGED <<protocol, slots, threadVars, seen, sent, bounds>>
  PROVE  /\ ThreadTypes' /\ CallsValid' /\ SlotInForce' /\ SlotAsChosen' /\ CountTypes'
         /\ txQueue' \in Seq(Frames) /\ Len(txQueue') <= QueueBound
         /\ Head(txQueue) \in Frames /\ Head(txQueue) = txQueue[1] /\ 1 \in DOMAIN txQueue
         /\ \A i \in DOMAIN txQueue' : i + 1 \in DOMAIN txQueue /\ txQueue'[i] = txQueue[i + 1]
PROOF
<1>1. ThreadTypes /\ DeviceTypes /\ CountTypes
  BY Types DEF IndInv
<1>2. UNCHANGED <<protocol, slots, pc, call, slot, tries, outcome, seen, calls, changes, lapses>>
  BY DEF threadVars, bounds
<1>3. ThreadTypes' /\ CountTypes'
  BY <1>1, <1>2 DEF ThreadTypes, CountTypes
<1>4. CallsValid' /\ SlotInForce' /\ SlotAsChosen'
  BY <1>2 DEF IndInv, CallsValid, SlotInForce, SlotAsChosen, Kind
<1>5. /\ txQueue' \in Seq(Frames) /\ Len(txQueue') = Len(txQueue) - 1
      /\ Head(txQueue) \in Frames /\ Head(txQueue) = txQueue[1] /\ 1 \in DOMAIN txQueue
      /\ \A i \in DOMAIN txQueue' : i + 1 \in DOMAIN txQueue /\ txQueue'[i] = txQueue[i + 1]
  BY <1>1, TailFacts DEF DeviceTypes
<1>6. Len(txQueue') <= QueueBound
  <2>1. Len(txQueue) \in Nat /\ Len(txQueue) <= QueueBound
    BY <1>1 DEF DeviceTypes
  <2> QED BY <1>5, <2>1, BoundsAssumption
<1> QED BY <1>3, <1>4, <1>5, <1>6

LEMMA LoseInv == ASSUME IndInv, Lose PROVE IndInv'
PROOF
<1>1. /\ txQueue # <<>> /\ txQueue' = Tail(txQueue) /\ lost' = TRUE
      /\ UNCHANGED <<protocol, slots, threadVars, obeys, enabled, sent, seen, bounds>>
  BY DEF Lose, deviceVars
<1>2. /\ ThreadTypes' /\ CallsValid' /\ SlotInForce' /\ SlotAsChosen' /\ CountTypes'
      /\ txQueue' \in Seq(Frames) /\ Len(txQueue') <= QueueBound
      /\ \A i \in DOMAIN txQueue' : i + 1 \in DOMAIN txQueue /\ txQueue'[i] = txQueue[i + 1]
  BY <1>1, DequeueFacts
<1>3. DeviceTypes'
  <2>1. DeviceTypes
    BY Types DEF IndInv
  <2> QED BY <1>1, <1>2, <2>1 DEF DeviceTypes
<1>4. TypeOK'
  BY <1>2, <1>3, Types, PTL
<1>5. OrdersValid'
  BY <1>1, <1>2 DEF IndInv, OrdersValid
<1> QED BY <1>2, <1>4, <1>5 DEF IndInv

\* A controller obeys a frame only as a command the application may give, with
\* a value that passed its checks.
LEMMA DeliverInv == ASSUME IndInv, Deliver PROVE IndInv'
PROOF
<1> DEFINE f == Head(txQueue)
           order == [op |-> Meaning(f.name), value |-> f.value, slot |-> f.slot]
           heard(o) == IF f.name = "Broadcast" /\ protocol[o] = "Spark25x" THEN o \in f.mask
                       ELSE IF f.name = "Heartbeat" /\ o = f.obj THEN TRUE
                       ELSE enabled[o]
<1>1. /\ txQueue # <<>> /\ txQueue' = Tail(txQueue)
      /\ obeys' = IF Meaning(f.name) \in Steering THEN [obeys EXCEPT ![f.obj] = order] ELSE obeys
      /\ enabled' = [o \in Objects |-> heard(o)]
      /\ UNCHANGED <<protocol, slots, threadVars, sent, seen, lost, bounds>>
  BY DEF Deliver, history
<1>2. DeviceTypes
  BY Types DEF IndInv
<1>3. /\ ThreadTypes' /\ CallsValid' /\ SlotInForce' /\ SlotAsChosen' /\ CountTypes'
      /\ txQueue' \in Seq(Frames) /\ Len(txQueue') <= QueueBound
      /\ f \in Frames /\ f = txQueue[1] /\ 1 \in DOMAIN txQueue
      /\ \A i \in DOMAIN txQueue' : i + 1 \in DOMAIN txQueue /\ txQueue'[i] = txQueue[i + 1]
  BY <1>1, DequeueFacts
<1>4. f.name \in FrameNames /\ f.obj \in Objects /\ f.value \in AllValues /\ f.slot \in 0..3
  BY <1>3 DEF Frames
<1>5. Meaning(f.name) \in Steering => Meaning(f.name) \in Ops
  <2>1. PICK p \in Protocols, op \in Ops : f.name = FrameName(p, op)
    BY <1>4 DEF FrameNames
  <2> QED BY <2>1, Names
<1>6. Meaning(f.name) \in Steering =>
        /\ order \in [op : Ops, value : AllValues, slot : 0..3]
        /\ order.op \in Steering /\ Verdict(order.op, order.value) = "ok"
  <2>1. Verdict(Meaning(f.name), f.value) = "ok"
    BY <1>3 DEF IndInv, OrdersValid
  <2> QED BY <1>4, <1>5, <2>1
<1>7. ASSUME NEW o \in Objects PROVE heard(o) \in BOOLEAN
  <2>1. enabled[o] \in BOOLEAN
    BY <1>2 DEF DeviceTypes
  <2>2. (o \in f.mask) \in BOOLEAN
    OBVIOUS
  <2>3. CASE f.name = "Broadcast" /\ protocol[o] = "Spark25x"
    BY <2>2, <2>3, Zenon
  <2>4. CASE ~(f.name = "Broadcast" /\ protocol[o] = "Spark25x")
    <3> DEFINE rest == IF f.name = "Heartbeat" /\ o = f.obj THEN TRUE ELSE enabled[o]
    <3>1. rest \in BOOLEAN
      BY <2>1, Zenon
    <3>2. heard(o) = rest
      BY <2>4, Zenon
    <3> QED BY <3>1, <3>2, Zenon
  <2> QED BY <2>3, <2>4
<1> HIDE DEF f, order, heard
<1>8. enabled' \in [Objects -> BOOLEAN]
  BY <1>1, <1>7
<1>9. obeys' \in [Objects -> [op : Ops, value : AllValues, slot : 0..3] \union {Nobody}]
  BY <1>1, <1>2, <1>4, <1>6 DEF DeviceTypes
<1>10. DeviceTypes'
  BY <1>1, <1>2, <1>3, <1>8, <1>9 DEF DeviceTypes
<1>11. TypeOK'
  BY <1>3, <1>10, Types, PTL
<1>12. OrdersValid'
  <2>1. \A i \in DOMAIN txQueue' :
          /\ Verdict(Meaning(txQueue'[i].name), txQueue'[i].value) = "ok"
          /\ txQueue'[i].name = "Broadcast" => txQueue'[i].mask = Objects
    BY <1>3 DEF IndInv, OrdersValid
  <2>2. \A o \in Objects :
          obeys'[o] # Nobody => obeys'[o].op \in Steering /\ Verdict(obeys'[o].op, obeys'[o].value) = "ok"
    BY <1>1, <1>2, <1>4, <1>6 DEF IndInv, OrdersValid, DeviceTypes
  <2> QED BY <2>1, <2>2 DEF OrdersValid
<1> QED BY <1>3, <1>11, <1>12 DEF IndInv

LEMMA LapseInv == ASSUME IndInv, NEW o \in Objects, Lapse(o) PROVE IndInv'
PROOF
<1>1. ThreadTypes /\ DeviceTypes /\ CountTypes
  BY Types DEF IndInv
<1>2. /\ enabled' = [enabled EXCEPT ![o] = FALSE] /\ lapses' = lapses + 1 /\ lapses < MaxLapses
      /\ UNCHANGED <<protocol, slots, pc, call, slot, tries, outcome, txQueue, obeys, sent, seen, lost,
                     calls, changes>>
  BY DEF Lapse, threadVars, history
<1>3. ThreadTypes' /\ DeviceTypes'
  BY <1>1, <1>2 DEF ThreadTypes, DeviceTypes
<1>4. CountTypes'
  BY <1>1, <1>2, BoundsAssumption DEF CountTypes
<1>5. TypeOK'
  BY <1>3, <1>4, Types, PTL
<1>6. CallsValid' /\ SlotInForce' /\ SlotAsChosen'
  BY <1>2 DEF IndInv, CallsValid, SlotInForce, SlotAsChosen, Kind
<1>7. OrdersValid'
  BY <1>2 DEF IndInv, OrdersValid
<1> QED BY <1>5, <1>6, <1>7 DEF IndInv

LEMMA NextInv == IndInv /\ [Next]_vars => IndInv'
PROOF
<1> SUFFICES ASSUME IndInv, [Next]_vars PROVE IndInv'
  OBVIOUS
<1>1. ASSUME NEW t \in Threads, ThreadStep(t) PROVE IndInv'
  BY <1>1, EncodeInv, SendAcceptedInv, NotSentInv DEF ThreadStep
<1>2. ASSUME NEW t \in Threads, Application(t) PROVE IndInv'
  BY <1>2, BeginInv, RefuseInv, SetSlotInv DEF Application
<1>3. CASE UNCHANGED vars
  <2>1. UNCHANGED <<protocol, slots, pc, call, slot, tries, outcome, txQueue, obeys, enabled, sent,
                    seen, lost, calls, changes, lapses>>
    BY <1>3 DEF vars, threadVars, deviceVars, history, bounds
  <2>2. TypeOK'
    BY <2>1 DEF IndInv, TypeOK
  <2>3. CallsValid' /\ SlotInForce' /\ SlotAsChosen' /\ OrdersValid'
    BY <2>1 DEF IndInv, CallsValid, SlotInForce, SlotAsChosen, OrdersValid, Kind
  <2> QED BY <2>2, <2>3 DEF IndInv
<1> QED BY <1>1, <1>2, <1>3, DeliverInv, LoseInv, LapseInv DEF Next

\* The inductive invariant holds in every reachable state.
THEOREM Inductive == Spec => []IndInv
PROOF
<1>1. Init => IndInv
  BY InitInv
<1>2. IndInv /\ [Next]_vars => IndInv'
  BY NextInv
<1> QED BY <1>1, <1>2, PTL DEF Spec

\* The threads, the queue and the controllers keep their types and bounds: no
\* frame is tried more often than SendRawFrame may, nothing outgrows the queue.
THEOREM Typing == Spec => []TypeOK
PROOF
<1>1. IndInv => TypeOK
  BY DEF IndInv
<1> QED BY <1>1, Inductive, PTL

\* A 25.x setpoint carries a slot selected for its kind of setpoint and in force
\* during its call, for any number of threads that select slots without a lock.
THEOREM SlotChosen == Spec => []SlotAsChosen
PROOF
<1>1. IndInv => SlotAsChosen
  BY DEF IndInv
<1> QED BY <1>1, Inductive, PTL

\* No controller follows a setpoint that is not finite or an output out of
\* range, unless SendSetpointWithCtrlType sent it.
THEOREM SafeOrders == Spec => []SafeSetpoints
PROOF
<1>1. IndInv => SafeSetpoints
  <2> SUFFICES ASSUME IndInv, NEW o \in Objects, obeys[o] # Nobody, obeys[o].op # "SetpointWithCtrlType"
               PROVE  /\ obeys[o].value # NaN
                      /\ obeys[o].op = "DutyCycle" => obeys[o].value \in -1..1
    BY DEF SafeSetpoints
  <2>1. obeys[o].op \in Setpoints /\ Verdict(obeys[o].op, obeys[o].value) = "ok"
    BY DEF IndInv, OrdersValid, Steering
  <2> QED BY <2>1 DEF Verdict
<1> QED BY <1>1, Inductive, PTL

-----------------------------------------------------------------------------
(* Heartbeats. *)

\* A step that delivers a heartbeat disables nobody, and one that delivers a
\* broadcast enables every 25.x controller; without a lapse no other step
\* touches what is enabled.
THEOREM Heartbeats == Spec => HeartbeatReachesAll
PROOF
<1> DEFINE A == lapses' = lapses =>
       /\ \A o \in Objects : enabled[o] => enabled'[o]
       /\ (enabled' # enabled /\ Head(txQueue).name = "Broadcast") =>
            \A o \in Objects : protocol[o] = "Spark25x" => enabled'[o]
<1>1. ASSUME IndInv, Next PROVE A
  <2>1. CASE UNCHANGED enabled
    BY <2>1
  <2>2. CASE Deliver
    <3> DEFINE f == Head(txQueue)
    <3>1. f = txQueue[1] /\ 1 \in DOMAIN txQueue
      BY <2>2, <1>1, TailFacts DEF Deliver, IndInv, TypeOK
    <3>2. f.name = "Broadcast" => f.mask = Objects
      BY <1>1, <3>1 DEF IndInv, OrdersValid
    <3>3. enabled' = [o \in Objects |->
                        IF f.name = "Broadcast" /\ protocol[o] = "Spark25x" THEN o \in f.mask
                        ELSE IF f.name = "Heartbeat" /\ o = f.obj THEN TRUE
                        ELSE enabled[o]]
      BY <2>2 DEF Deliver
    <3> HIDE DEF f
    <3>4. ASSUME NEW o \in Objects
          PROVE  /\ enabled[o] => enabled'[o]
                 /\ f.name = "Broadcast" /\ protocol[o] = "Spark25x" => enabled'[o]
      BY <3>2, <3>3, Zenon
    <3> QED BY <3>4 DEF f
  <2>3. ASSUME NEW o \in Objects, Lapse(o) PROVE A
    <3>1. lapses \in Nat /\ lapses' = lapses + 1
      BY <1>1, <2>3 DEF Lapse, IndInv, TypeOK
    <3> QED BY <3>1
  <2>4. \/ UNCHANGED enabled \/ Deliver \/ \E o \in Objects : Lapse(o)
    BY <1>1 DEF Next, ThreadStep, Application, Encode, SendAccepted, SendBusy, SendFailed, Begin,
                Refuse, SetSlot, RefuseSlot, Lose, deviceVars
  <2> QED BY <2>1, <2>2, <2>3, <2>4
<1>2. IndInv /\ [Next]_vars => [A]_vars
  BY <1>1
<1> HIDE DEF A
<1>3. Spec => [][A]_vars
  BY <1>2, Inductive, PTL DEF Spec
<1> QED BY <1>3 DEF HeartbeatReachesAll, A

-----------------------------------------------------------------------------
(* The last word. *)

\* The setpoints on their way to a controller, and the last of them.
Pending(o) == {i \in DOMAIN txQueue : txQueue[i].obj = o /\ Meaning(txQueue[i].name) \in Steering}
LastPending(o, i) == i \in Pending(o) /\ \A j \in Pending(o) : j <= i

\* A completed call that asked for this.
Asked(o, op, value, s) == \E c \in final[o] : op = c.op /\ value = c.value /\ s \in c.slots

\* What a controller will follow in the end was asked for by a call that no
\* later call replaced: it is the last setpoint under way, or if there is none
\* what the controller follows now.
LastWord ==
  /\ final = [o \in Objects |-> final[o]]
  /\ ~lost =>
       \A o \in Objects :
         /\ \A i \in DOMAIN txQueue : LastPending(o, i) =>
              Asked(o, Meaning(txQueue[i].name), txQueue[i].value, txQueue[i].slot)
         /\ Pending(o) = {} /\ final[o] # {} =>
              Asked(o, obeys[o].op, obeys[o].value, obeys[o].slot)

\* A setpoint that is queued is the last one of its controller, and that of the
\* call that completes; a frame that is no setpoint disturbs none.
LEMMA AcceptLastWord ==
  ASSUME IndInv, LastWord, NEW t \in Threads, SendAccepted(t)
  PROVE  LastWord'
PROOF
<1> DEFINE f == Frame(t)
           n == Len(txQueue)
           k == call[t]
           done == [op |-> k.op, value |-> k.value, slots |-> seen[t], id |-> k.id]
<1>1. /\ pc[t] = "send" /\ txQueue' = Append(txQueue, f)
      /\ final' = IF k.op \in Steering THEN [final EXCEPT ![k.obj] = (@ \ before[t]) \union {done}]
                  ELSE final
      /\ UNCHANGED <<obeys, lost>>
  BY DEF SendAccepted, deviceVars
<1>2. /\ f \in Frames /\ f.name = FrameName(protocol[k.obj], k.op) /\ f.obj = k.obj /\ f.value = k.value
      /\ k.op \in Ops /\ k.obj \in Objects /\ protocol[k.obj] \in Protocols
  BY <1>1, FrameFacts
<1>3. f.slot = slot[t] /\ slot[t] \in seen[t]
  BY <1>1 DEF Frame, IndInv, SlotAsChosen
<1>4. Meaning(f.name) \in Steering <=> k.op \in Steering
  <2>1. CASE f.name = "Broadcast"
    <3>1. k.op = "Heartbeat" /\ Meaning(f.name) \notin Steering
      BY <1>2, <2>1, Names
    <3>2. "Heartbeat" \notin Steering
      BY DEF Steering, Setpoints
    <3> QED BY <3>1, <3>2
  <2>2. CASE f.name # "Broadcast"
    BY <1>2, <2>2, Names
  <2> QED BY <2>1, <2>2
<1>5. Meaning(f.name) \in Steering => Meaning(f.name) = k.op
  BY <1>2, Names
<1>6. /\ n \in Nat /\ DOMAIN txQueue = 1..n /\ DOMAIN txQueue' = 1..(n + 1)
      /\ \A i \in 1..n : txQueue'[i] = txQueue[i]
      /\ txQueue'[n + 1] = f
  BY <1>1, <1>2 DEF IndInv, TypeOK
<1>7. final' = [o \in Objects |-> final'[o]]
  BY <1>1 DEF LastWord
<1> HIDE DEF f, n, done
<1>8. ASSUME NEW o \in Objects, f.obj = o, Meaning(f.name) \in Steering, ~lost
      PROVE  /\ n + 1 \in Pending(o)'
             /\ \E c \in final'[o] : Meaning(f.name) = c.op /\ f.value = c.value /\ f.slot \in c.slots
  <2>1. done \in final'[o]
    BY <1>1, <1>2, <1>4, <1>8 DEF LastWord
  <2>2. Meaning(f.name) = done.op /\ f.value = done.value /\ f.slot \in done.slots
    BY <1>2, <1>3, <1>5, <1>8 DEF done
  <2>3. n + 1 \in Pending(o)'
    BY <1>6, <1>8 DEF Pending
  <2> QED BY <2>1, <2>2, <2>3
<1>9. ASSUME NEW o \in Objects, ~(f.obj = o /\ Meaning(f.name) \in Steering)
      PROVE  Pending(o)' = Pending(o) /\ final'[o] = final[o]
  <2>1. Pending(o)' = Pending(o)
    BY <1>6, <1>9 DEF Pending
  <2>2. final'[o] = final[o]
    BY <1>1, <1>2, <1>4, <1>9 DEF LastWord
  <2> QED BY <2>1, <2>2
<1>10. ASSUME NEW o \in Objects, ~lost,
              NEW i \in DOMAIN txQueue', LastPending(o, i)'
       PROVE  Asked(o, Meaning(txQueue[i].name), txQueue[i].value, txQueue[i].slot)'
  <2>1. CASE f.obj = o /\ Meaning(f.name) \in Steering
    <3>1. n + 1 <= i
      BY <1>8, <1>10, <2>1 DEF LastPending
    <3>2. i = n + 1
      BY <1>6, <1>10, <3>1
    <3> QED BY <1>6, <1>8, <1>10, <2>1, <3>2 DEF Asked
  <2>2. CASE ~(f.obj = o /\ Meaning(f.name) \in Steering)
    <3>1. LastPending(o, i) /\ i \in DOMAIN txQueue
      BY <1>9, <1>10, <2>2 DEF LastPending, Pending
    <3>2. Asked(o, Meaning(txQueue[i].name), txQueue[i].value, txQueue[i].slot)
      BY <1>10, <3>1 DEF LastWord
    <3>3. txQueue'[i] = txQueue[i]
      BY <1>6, <3>1
    <3> QED BY <1>9, <2>2, <3>2, <3>3 DEF Asked
  <2> QED BY <2>1, <2>2
<1>11. ASSUME NEW o \in Objects, ~lost, Pending(o)' = {}, final'[o] # {}
       PROVE  Asked(o, obeys[o].op, obeys[o].value, obeys[o].slot)'
  <2>1. ~(f.obj = o /\ Meaning(f.name) \in Steering)
    BY <1>8, <1>11
  <2>2. Pending(o) = {} /\ final[o] # {}
    BY <1>9, <1>11, <2>1
  <2>3. Asked(o, obeys[o].op, obeys[o].value, obeys[o].slot)
    BY <1>11, <2>2 DEF LastWord
  <2> QED BY <1>1, <1>9, <2>1, <2>3 DEF Asked
<1> QED BY <1>1, <1>7, <1>10, <1>11 DEF LastWord

\* A delivered frame is obeyed; if it was the last setpoint under way, what was
\* to be followed in the end is followed now.
LEMMA DeliverLastWord ==
  ASSUME IndInv, LastWord, Deliver
  PROVE  LastWord'
PROOF
<1> DEFINE f == Head(txQueue)
           order == [op |-> Meaning(f.name), value |-> f.value, slot |-> f.slot]
<1>1. /\ txQueue # <<>> /\ txQueue' = Tail(txQueue)
      /\ obeys' = IF Meaning(f.name) \in Steering THEN [obeys EXCEPT ![f.obj] = order] ELSE obeys
      /\ UNCHANGED <<final, lost>>
  BY DEF Deliver, history
<1>2. txQueue \in Seq(Frames) /\ obeys = [o \in Objects |-> obeys[o]]
  BY DEF IndInv, TypeOK
<1>3. /\ Len(txQueue) \in Nat \ {0}
      /\ DOMAIN txQueue = 1..Len(txQueue) /\ DOMAIN txQueue' = 1..(Len(txQueue) - 1)
      /\ \A i \in DOMAIN txQueue' : i + 1 \in DOMAIN txQueue /\ txQueue'[i] = txQueue[i + 1]
      /\ f = txQueue[1] /\ f \in Frames
  BY <1>1, <1>2
<1>4. f.obj \in Objects
  BY <1>3 DEF Frames
<1>5. ASSUME NEW o \in Objects
      PROVE  \A i \in DOMAIN txQueue' : i \in Pending(o)' <=> i + 1 \in Pending(o)
  BY <1>3 DEF Pending
<1>6. ASSUME NEW o \in Objects, NEW j \in Pending(o), j # 1
      PROVE  j - 1 \in Pending(o)' /\ j - 1 \in DOMAIN txQueue'
  <2>1. j \in 1..Len(txQueue) /\ j - 1 \in DOMAIN txQueue' /\ (j - 1) + 1 = j
    BY <1>3, <1>6 DEF Pending
  <2> QED BY <1>5, <2>1
<1> HIDE DEF f, order
<1>7. ASSUME NEW o \in Objects, ~lost,
             NEW i \in DOMAIN txQueue', LastPending(o, i)'
      PROVE  Asked(o, Meaning(txQueue[i].name), txQueue[i].value, txQueue[i].slot)'
  <2>1. i + 1 \in Pending(o) /\ i \in 1..(Len(txQueue) - 1)
    BY <1>3, <1>5, <1>7 DEF LastPending
  <2>2. ASSUME NEW j \in Pending(o) PROVE j <= i + 1
    <3>1. j \in 1..Len(txQueue)
      BY <1>3 DEF Pending
    <3>2. CASE j = 1
      BY <2>1, <3>2
    <3>3. CASE j # 1
      <4>1. j - 1 <= i
        BY <1>6, <1>7, <3>3 DEF LastPending
      <4> QED BY <2>1, <3>1, <4>1
    <3> QED BY <3>2, <3>3
  <2>3. LastPending(o, i + 1) /\ i + 1 \in DOMAIN txQueue
    BY <1>3, <2>1, <2>2 DEF LastPending
  <2>4. Asked(o, Meaning(txQueue[i + 1].name), txQueue[i + 1].value, txQueue[i + 1].slot)
    BY <1>7, <2>3 DEF LastWord
  <2> QED BY <1>1, <1>3, <2>4 DEF Asked
<1>8. ASSUME NEW o \in Objects, ~lost, Pending(o)' = {}, final[o] # {}
      PROVE  Asked(o, obeys[o].op, obeys[o].value, obeys[o].slot)'
  <2>1. \A j \in Pending(o) : j = 1
    BY <1>6, <1>8
  <2>2. CASE f.obj = o /\ Meaning(f.name) \in Steering
    <3>1. 1 \in Pending(o) /\ 1 \in DOMAIN txQueue
      BY <1>3, <2>2 DEF Pending
    <3>2. LastPending(o, 1)
      BY <2>1, <3>1 DEF LastPending
    <3>3. Asked(o, Meaning(f.name), f.value, f.slot)
      BY <1>3, <1>8, <3>1, <3>2 DEF LastWord
    <3>4. obeys'[o].op = Meaning(f.name) /\ obeys'[o].value = f.value /\ obeys'[o].slot = f.slot
      BY <1>1, <1>2, <2>2 DEF order
    <3> QED BY <1>1, <3>3, <3>4 DEF Asked
  <2>3. CASE ~(f.obj = o /\ Meaning(f.name) \in Steering)
    <3>1. Pending(o) = {}
      BY <1>3, <2>1, <2>3 DEF Pending
    <3>2. obeys'[o] = obeys[o]
      BY <1>1, <1>2, <1>4, <2>3
    <3>3. Asked(o, obeys[o].op, obeys[o].value, obeys[o].slot)
      BY <1>8, <3>1 DEF LastWord
    <3> QED BY <1>1, <3>2, <3>3 DEF Asked
  <2> QED BY <2>2, <2>3
<1> QED BY <1>1, <1>7, <1>8 DEF LastWord

LEMMA NextLastWord == IndInv /\ LastWord /\ [Next]_vars => LastWord'
PROOF
<1> SUFFICES ASSUME IndInv, LastWord, [Next]_vars PROVE LastWord'
  OBVIOUS
<1>1. CASE UNCHANGED <<txQueue, obeys, final, lost>>
  BY <1>1 DEF LastWord, Asked, LastPending, Pending
<1>2. CASE Lose
  BY <1>2 DEF Lose, LastWord
<1>3. \/ UNCHANGED <<txQueue, obeys, final, lost>> \/ Deliver \/ Lose
      \/ \E t \in Threads : SendAccepted(t)
  BY DEF Next, ThreadStep, Application, Encode, SendBusy, SendFailed, Begin, Refuse, SetSlot,
         RefuseSlot, Lapse, vars, deviceVars, history
<1> QED BY <1>1, <1>2, <1>3, AcceptLastWord, DeliverLastWord

\* Once the bus has delivered what was sent and lost nothing, each controller
\* follows the last call made for it, for any number of threads and calls and
\* any length of the queue: a setpoint that waited for the queue never replaces
\* that of a call begun after it returned.
THEOREM LastWordObeyed == Spec => []ObeysLastWord
PROOF
<1>1. Init => LastWord
  BY DEF Init, LastWord, LastPending, Pending
<1>2. LastWord => ObeysLastWord
  <2> SUFFICES ASSUME LastWord, NEW o \in Objects, ~lost, final[o] # {},
                      \A i \in DOMAIN txQueue : txQueue[i].obj # o
               PROVE  \E c \in final[o] :
                        obeys[o].op = c.op /\ obeys[o].value = c.value /\ obeys[o].slot \in c.slots
    BY DEF ObeysLastWord
  <2>1. Pending(o) = {}
    BY DEF Pending
  <2> QED BY <2>1 DEF LastWord, Asked
<1> QED BY <1>1, <1>2, NextLastWord, Inductive, PTL DEF Spec

-----------------------------------------------------------------------------
(* The implementation of the contract. *)

ValidCommands == {c \in Commands : Verdict(c.op, c.value) = "ok"}
Doing(t) == IF pc[t] = "idle" THEN Nobody ELSE Command(call[t].op, call[t].obj, call[t].value)
Effect(f) == Command(IF f.name = "Broadcast" THEN "Heartbeat" ELSE Meaning(f.name), f.obj, f.value)

\* A thread in a call does a valid command, not nothing.
LEMMA DoingFacts ==
  ASSUME IndInv, NEW t \in Threads, pc[t] # "idle"
  PROVE  /\ Doing(t) = Command(call[t].op, call[t].obj, call[t].value)
         /\ Doing(t) # Nobody
PROOF
<1>1. call[t].op \in AllOps
  BY OpsAssumption DEF IndInv, CallsValid, Calls
<1>2. "none" \notin AllOps
  BY DEF AllOps, Steering, Setpoints, Maintenance
<1>3. Doing(t) = Command(call[t].op, call[t].obj, call[t].value)
  BY DEF Doing
<1>4. Doing(t).op = call[t].op /\ Nobody.op = "none"
  BY <1>3 DEF Command, Nobody
<1> QED BY <1>1, <1>2, <1>3, <1>4

\* A step of one thread changes what that thread does, and nothing else.
LEMMA OneDoing ==
  ASSUME ThreadTypes, NEW t \in Threads, NEW d, Doing(t)' = d,
         \A u \in Threads : u # t => pc'[u] = pc[u] /\ call'[u] = call[u]
  PROVE  [u \in Threads |-> Doing(u)]' = [[u \in Threads |-> Doing(u)] EXCEPT ![t] = d]
PROOF
<1>1. \A u \in Threads : u # t => Doing(u)' = Doing(u)
  BY DEF Doing
<1> QED BY <1>1

\* A frame queued for a call is the effect the call was made for.
LEMMA OneEffect ==
  ASSUME IndInv, NEW t \in Threads, SendAccepted(t)
  PROVE  [i \in DOMAIN sent |-> Effect(sent[i])]' = Append([i \in DOMAIN sent |-> Effect(sent[i])], Doing(t))
PROOF
<1> DEFINE eff == [i \in DOMAIN sent |-> Effect(sent[i])]
           n == Len(sent)
           f == Frame(t)
           S == {Effect(g) : g \in Frames}
<1>1. sent \in Seq(Frames) /\ pc[t] = "send" /\ sent' = Append(sent, f)
  BY DEF IndInv, TypeOK, SendAccepted
<1>2. f \in Frames /\ f.name = FrameName(protocol[call[t].obj], call[t].op)
      /\ f.obj = call[t].obj /\ f.value = call[t].value
      /\ call[t].op \in Ops /\ protocol[call[t].obj] \in Protocols
  BY <1>1, FrameFacts
<1>3. Effect(f) = Doing(t)
  <2>1. (IF f.name = "Broadcast" THEN "Heartbeat" ELSE Meaning(f.name)) = call[t].op
    BY <1>2, Names
  <2> QED BY <1>1, <1>2, <2>1, DoingFacts DEF Effect
<1>4. /\ n \in Nat /\ DOMAIN sent = 1..n /\ DOMAIN sent' = 1..(n + 1)
      /\ \A i \in 1..n : sent'[i] = sent[i] /\ sent[i] \in Frames
      /\ sent'[n + 1] = f
  BY <1>1, <1>2
<1>5. eff \in Seq(S) /\ Len(eff) = n /\ Effect(f) \in S
  <2>1. \A i \in 1..n : Effect(sent[i]) \in S
    BY <1>4
  <2>2. eff \in [1..n -> S]
    BY <1>4, <2>1
  <2> HIDE DEF eff, n, S
  <2>3. eff \in Seq(S) /\ Len(eff) = n
    BY <1>4, <2>2
  <2> QED BY <1>2, <2>3 DEF S
<1> DEFINE e2 == [i \in 1..(n + 1) |-> Effect(sent'[i])]
<1>6. \A i \in 1..n : eff[i] = Effect(sent[i])
  BY <1>4
<1>7. \A i \in 1..(n + 1) : e2[i] = IF i = n + 1 THEN Effect(f) ELSE eff[i]
  BY <1>4, <1>6
<1>8. e2 = Append(eff, Effect(f))
  <2>1. e2 \in [1..(n + 1) -> S]
    <3>1. \A i \in 1..(n + 1) : Effect(sent'[i]) \in S
      BY <1>2, <1>4
    <3> QED BY <3>1
  <2> HIDE DEF eff, n, S, e2, f
  <2>2. DOMAIN e2 = 1..(n + 1)
    BY <2>1
  <2> DEFINE a == Append(eff, Effect(f))
  <2>3. a \in Seq(S) /\ Len(a) = n + 1 /\ DOMAIN a = 1..(n + 1)
    BY <1>4, <1>5
  <2>4. \A i \in 1..(n + 1) : a[i] = IF i = n + 1 THEN Effect(f) ELSE eff[i]
    BY <1>4, <1>5
  <2>5. e2 \in Seq(S) /\ Len(e2) = n + 1
    BY <1>4, <2>1
  <2> HIDE DEF a
  <2>6. \A i \in 1..(n + 1) : e2[i] = a[i]
    BY <1>7, <2>4
  <2>7. e2 = a
    BY <1>4, <2>3, <2>5, <2>6
  <2> QED BY <2>7 DEF a
<1>9. eff' = e2
  BY <1>4 DEF Effect, Command
<1> QED BY <1>3, <1>8, <1>9

\* A return ends what a thread does.
LEMMA ReturnDoing ==
  ASSUME IndInv, NEW t \in Threads, NEW how \in {"ok", "thrown"}, Return(t, how)
  PROVE  [u \in Threads |-> Doing(u)]' = [[u \in Threads |-> Doing(u)] EXCEPT ![t] = Nobody]
PROOF
<1>1. ThreadTypes
  BY Types DEF IndInv
<1>2. \A u \in Threads : u # t => pc'[u] = pc[u] /\ call'[u] = call[u]
  BY <1>1 DEF Return, ThreadTypes
<1>3. Doing(t)' = Nobody
  BY <1>1 DEF Doing, Return, ThreadTypes
<1> QED BY <1>1, <1>2, <1>3, OneDoing

LEMMA InitContract == Init => Contract!Init
PROOF
<1> SUFFICES ASSUME Init PROVE Contract!Init
  OBVIOUS
<1>1. [t \in Threads |-> Doing(t)] = [t \in Threads |-> Nobody]
  BY DEF Doing, Init
<1>2. [i \in DOMAIN sent |-> Effect(sent[i])] = <<>>
  BY DEF Init
<1> QED BY <1>1, <1>2 DEF Contract!Init, Init, Doing, Effect

\* Each step of a call is a step of the contract, or none.
LEMMA CallContract ==
  ASSUME IndInv, NEW t \in Threads, ThreadStep(t) \/ Application(t)
  PROVE  [Contract!Next]_Contract!vars
PROOF
<1> DEFINE doing == [u \in Threads |-> Doing(u)]
           effects == [i \in DOMAIN sent |-> Effect(sent[i])]
<1>1. ThreadTypes
  BY Types DEF IndInv
<1>2. pc[t] = "idle" => doing[t] = Nobody
  BY DEF Doing
<1>3. pc[t] # "idle" => doing[t] = Doing(t) /\ doing[t] # Nobody
  BY DoingFacts
<1>4. ASSUME NEW op \in Ops, NEW o \in Objects, NEW value \in Values[op], Begin(t, op, o, value)
      PROVE  [Contract!Next]_Contract!vars
  <2> DEFINE c == Command(op, o, value)
  <2>1. c \in ValidCommands
    <3>1. value \in AllValues
      BY OpsAssumption DEF AllValues
    <3> QED BY <1>4, <3>1 DEF ValidCommands, Commands, Command, Begin
  <2>2. Doing(t)' = c
    BY <1>1, <1>4 DEF Doing, Begin, ThreadTypes
  <2>3. \A u \in Threads : u # t => pc'[u] = pc[u] /\ call'[u] = call[u]
    BY <1>1, <1>4 DEF Begin, ThreadTypes
  <2>4. doing' = [doing EXCEPT ![t] = c]
    BY <1>1, <2>2, <2>3, OneDoing
  <2>5. effects' = effects /\ outcome' = [outcome EXCEPT ![t] = "none"] /\ doing[t] = Nobody
    BY <1>2, <1>4 DEF Begin, Effect
  <2>6. Contract!Begin(t, c)
    BY <2>1, <2>4, <2>5 DEF Contract!Begin, Doing, Effect, ValidCommands
  <2> QED BY <2>1, <2>6 DEF Contract!Next, ValidCommands
<1>5. CASE \/ \E op \in Ops : \E value \in Values[op] : Refuse(t, op, value)
           \/ \E s \in NewSlots : RefuseSlot(t, s)
  <2>1. /\ pc[t] = "idle" /\ outcome' = [outcome EXCEPT ![t] = "refused"]
        /\ UNCHANGED <<pc, call, sent>>
    BY <1>5 DEF Refuse, RefuseSlot, history
  <2>2. doing' = doing /\ effects' = effects /\ doing[t] = Nobody
    BY <1>2, <2>1 DEF Doing, Effect
  <2>3. Contract!Refuse(t)
    BY <2>1, <2>2 DEF Contract!Refuse, Doing, Effect
  <2> QED BY <2>3 DEF Contract!Next
<1>6. CASE \/ \E o \in Objects, kind \in {"velocity", "position"}, s \in NewSlots : SetSlot(t, o, kind, s)
           \/ SendBusy(t) /\ ~Return(t, "thrown")
  <2>1. UNCHANGED <<pc, call, outcome, sent>>
    BY <1>6 DEF SetSlot, SendBusy, threadVars
  <2>2. doing' = doing /\ effects' = effects
    BY <2>1 DEF Doing, Effect
  <2> QED BY <2>1, <2>2 DEF Contract!vars, Doing, Effect
<1>7. CASE Encode(t)
  <2>1. UNCHANGED <<call, outcome, sent>> /\ pc[t] = "encode" /\ pc' = [pc EXCEPT ![t] = "send"]
    BY <1>7 DEF Encode, history
  <2>2. \A u \in Threads : Doing(u)' = Doing(u)
    BY <1>1, <2>1 DEF Doing, ThreadTypes
  <2>3. doing' = doing /\ effects' = effects
    BY <2>1, <2>2 DEF Effect
  <2> QED BY <2>1, <2>3 DEF Contract!vars, Doing, Effect
<1>8. CASE SendAccepted(t)
  <2>1. /\ pc[t] = "send" /\ Return(t, "ok") /\ outcome' = [outcome EXCEPT ![t] = "ok"]
    BY <1>8 DEF SendAccepted, Return
  <2>2. doing' = [doing EXCEPT ![t] = Nobody]
    BY <2>1, ReturnDoing
  <2>3. effects' = Append(effects, doing[t]) /\ doing[t] # Nobody
    BY <1>3, <1>8, <2>1, OneEffect
  <2>4. Contract!TakeEffect(t)
    BY <2>1, <2>2, <2>3 DEF Contract!TakeEffect, Doing, Effect
  <2> QED BY <2>4 DEF Contract!Next
<1>9. CASE (SendBusy(t) \/ SendFailed(t)) /\ Return(t, "thrown")
  <2>1. pc[t] = "send" /\ outcome' = [outcome EXCEPT ![t] = "thrown"] /\ UNCHANGED sent
    BY <1>9 DEF SendBusy, SendFailed, Return
  <2>2. doing' = [doing EXCEPT ![t] = Nobody]
    BY <1>9, ReturnDoing
  <2>3. effects' = effects /\ doing[t] # Nobody
    BY <1>3, <2>1 DEF Effect
  <2>4. Contract!Fail(t)
    BY <2>1, <2>2, <2>3 DEF Contract!Fail, Doing, Effect
  <2> QED BY <2>4 DEF Contract!Next
<1>10. SendFailed(t) => Return(t, "thrown")
  BY DEF SendFailed
<1> QED BY <1>4, <1>5, <1>6, <1>7, <1>8, <1>9, <1>10 DEF ThreadStep, Application

LEMMA NextContract == IndInv /\ [Next]_vars => [Contract!Next]_Contract!vars
PROOF
<1> SUFFICES ASSUME IndInv, [Next]_vars PROVE [Contract!Next]_Contract!vars
  OBVIOUS
<1>1. ASSUME NEW t \in Threads, ThreadStep(t) \/ Application(t)
      PROVE  [Contract!Next]_Contract!vars
  BY <1>1, CallContract
<1>2. ASSUME \/ Deliver \/ Lose \/ UNCHANGED vars
             \/ \E o \in Objects : Lapse(o)
      PROVE  [Contract!Next]_Contract!vars
  <2>1. UNCHANGED <<pc, call, outcome, sent>>
    BY <1>2 DEF Deliver, Lose, Lapse, vars, threadVars, history
  <2> QED BY <2>1 DEF Contract!vars, Command
<1> QED BY <1>1, <1>2 DEF Next

\* For any threads, controllers, commands and bounds, every command takes effect
\* exactly once and during its call, or throws and has none.
THEOREM Refinement == Spec => ImplementsContract
PROOF
<1> QED BY InitContract, NextContract, Inductive, PTL DEF Spec, ImplementsContract, Contract!Spec
=============================================================================
