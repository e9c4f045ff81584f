------------------------ MODULE PressureModesProofs ------------------------
(***************************************************************************)
(* Proofs about PressureModes, for every set of boots and readings and for  *)
(* every dwell, staleness limit and bound.                                  *)
(***************************************************************************)
EXTENDS PressureModes, SequenceTheorems, TLAPS

\* What an evaluation leaves behind, as long as no newer message waits for
\* one of its own: HandledIsApplied, already true while the adapter publishes.
Applied ==
    "adapter" \notin waiting =>
        /\ state.pressure = Snapshot(adapter)
        /\ ~adapter.online => /\ state.mode = "IDLE"
                              /\ "SENSOR_ERROR" \in state.attention
        /\ Pressed(Snapshot(adapter)) => state.mode # "NIGHT_EXEC"

\* DwellIsGrounded in the same form, with the history variable in the past.
Grounded ==
    /\ calmSince <= now
    /\ since # None =>
        /\ "adapter" \notin waiting => Calm(Snapshot(adapter))
        /\ Calm(Snapshot(adapter)) => since >= calmSince

\* The inductive invariant.
IInv == TypeOK /\ Applied /\ Grounded /\ TrackerAgrees

USE DEF Evaluators, Modes, Flags

\* What a decision of StateMachineV2.evaluate can be: its parts have their
\* types, SENSOR_ERROR is raised exactly on invalid pressure, a dwell runs
\* only on calm, valid pressure and NIGHT_EXEC needs a whole dwell.
LEMMA EvaluateDecision ==
    ASSUME NEW p \in PressureOf, NEW s \in Nat \cup {None}, NEW t \in Nat
    PROVE  LET d == Evaluate(p, s, t) IN
           /\ d.mode \in Modes
           /\ d.attention \in SUBSET Flags
           /\ d.since \in Nat \cup {None}
           /\ ~p.online => d.mode = "IDLE" /\ "SENSOR_ERROR" \in d.attention
           /\ Pressed(p) => d.mode # "NIGHT_EXEC"
           /\ d.since # None => /\ Calm(p)
                                /\ d.since = IF s = None THEN t ELSE s
           /\ d.mode = "NIGHT_EXEC" => /\ IsValid(p, t)
                                       /\ d.since # None
                                       /\ t - d.since >= DwellMs
<1> DEFINE from == IF s = None THEN t ELSE s
           d == Evaluate(p, s, t)
<1>0. from \in Nat /\ from # None
  BY NoneAssumption
<1>1. CASE ~IsValid(p, t)
  <2>1. d = [mode |-> "IDLE", attention |-> {"SENSOR_ERROR"}, since |-> None]
    BY <1>1 DEF Evaluate, Decide, DwellStart
  <2> QED BY <2>1
<1>2. CASE IsValid(p, t) /\ Pressed(p)
  <2>1. d = [mode |-> "DAY_WORK", attention |-> {}, since |-> None]
    BY <1>2 DEF Evaluate, Decide, DwellStart
  <2> QED BY <2>1, <1>2 DEF IsValid
<1>3. CASE IsValid(p, t) /\ ~Pressed(p)
  <2>1. d = [mode |-> IF t - from >= DwellMs THEN "NIGHT_EXEC" ELSE "IDLE",
             attention |-> {}, since |-> from]
    BY <1>3 DEF Evaluate, Decide, DwellStart
  <2> QED BY <2>1, <1>3, <1>0 DEF IsValid, Calm
<1> QED BY <1>1, <1>2, <1>3

\* Initially nothing has been received and IDLE with SENSOR_ERROR stands.
LEMMA InitIInv == Init => IInv
<1> SUFFICES ASSUME Init PROVE IInv
  OBVIOUS
<1>1. /\ device \in [boot: Boots \cup {0}, seq: -1..MaxSeq, linked: BOOLEAN]
      /\ device.linked => device.boot \in Boots
  BY BoundsAssumption DEF Init
<1>2. retained \in [availability: AvailabilityMsg \cup {None}, state: StateMsg \cup {None}]
  BY DEF Init
<1>3. adapter \in AdapterOf
  BY BoundsAssumption DEF Init, AdapterOf
<1>4. state \in [mode: Modes, attention: SUBSET Flags, pressure: PressureOf]
  BY DEF Init, PressureOf, EmptyPressure
<1>5. published \in [mode: Modes, attention: SUBSET Flags, online: BOOLEAN, valid: BOOLEAN]
  BY DEF Init
<1>6. /\ now \in Nat /\ since \in Nat \cup {None} /\ calmSince \in Nat
      /\ waiting \in SUBSET Evaluators
      /\ holder \in Evaluators \cup {"sync", None}
      /\ subscribed \in BOOLEAN
  BY DEF Init
<1>6a. inbox \in Seq(Msgs)
  BY EmptySeq DEF Init
<1>7. Applied
  BY DEF Init, Applied, EmptyPressure, Snapshot, Pressed
<1>8. Grounded /\ TrackerAgrees
  BY DEF Init, Grounded, TrackerAgrees
<1> QED BY <1>1, <1>2, <1>3, <1>4, <1>5, <1>6, <1>6a, <1>7, <1>8 DEF IInv, TypeOK

\* The adapter's handlers keep the adapter's state in its type.
LEMMA HandlersTyped ==
    ASSUME NEW a \in AdapterOf, NEW t \in Nat
    PROVE  /\ \A m \in AvailabilityMsg : HandleAvailability(a, m, t) \in AdapterOf
           /\ \A m \in StateMsg : HandleState(a, m, t) \in AdapterOf
<1>1. \A b \in Boots : TrackedSeq(a, b) \in -1..MaxSeq
  BY BoundsAssumption DEF TrackedSeq, AdapterOf
<1>2. ASSUME NEW m \in AvailabilityMsg PROVE HandleAvailability(a, m, t) \in AdapterOf
  <2>1. NamesBoot(m) => m.boot \in Boots /\ TrackedSeq(a, m.boot) \in -1..MaxSeq
    BY <1>1 DEF NamesBoot, AvailabilityMsg
  <2>2. m.online \in BOOLEAN
    BY DEF AvailabilityMsg
  <2> QED BY <2>1, <2>2 DEF HandleAvailability, AdapterOf
<1>3. ASSUME NEW m \in StateMsg PROVE HandleState(a, m, t) \in AdapterOf
  <2>1. m.boot \in Boots /\ m.seq \in 0..MaxSeq /\ m.reading \in Readings
    BY DEF StateMsg
  <2>2. [boot |-> m.boot, seq |-> m.seq, reading |-> m.reading, at |-> t] \in SampleOf
    BY <2>1 DEF SampleOf
  <2>3. m.seq \in -1..MaxSeq
    BY <2>1, BoundsAssumption
  <2> QED BY <2>1, <2>2, <2>3 DEF HandleState, AdapterOf
<1> QED BY <1>2, <1>3

\* Every step keeps the variables in their types.
LEMMA TypeStep == TypeOK /\ [Next]_vars => TypeOK'
<1> SUFFICES ASSUME TypeOK, [Next]_vars PROVE TypeOK'
  OBVIOUS
<1> USE DEF TypeOK
<1>1. CASE Clock
  BY <1>1 DEF Clock, envVars, orchVars
<1>2. ASSUME Device PROVE TypeOK'
  <2>1. \A m \in Msgs : Deliver(m) => inbox' \in Seq(Msgs)
    BY DEF Deliver
  <2>2. ASSUME NEW b \in Boots, NEW up \in BOOLEAN, PublishAvailability(b, up)
        PROVE  /\ inbox' \in Seq(Msgs)
               /\ retained' \in [availability: AvailabilityMsg \cup {None},
                                 state: StateMsg \cup {None}]
    <3>1. [kind |-> "availability", online |-> up, boot |-> b] \in AvailabilityMsg
      BY DEF AvailabilityMsg
    <3> QED BY <2>1, <2>2, <3>1 DEF PublishAvailability, Msgs
  <2>3. ASSUME NEW q \in 0..MaxSeq, NEW r \in Readings, PublishState(q, r), device.linked
        PROVE  /\ inbox' \in Seq(Msgs)
               /\ retained' \in [availability: AvailabilityMsg \cup {None},
                                 state: StateMsg \cup {None}]
    <3>1. [kind |-> "state", boot |-> device.boot, seq |-> q, reading |-> r] \in StateMsg
      BY <2>3 DEF StateMsg
    <3> QED BY <2>1, <2>3, <3>1 DEF PublishState, Msgs
  <2>4. ASSUME NEW b \in Boots, DeviceBoot(b) \/ DeviceQuickReboot(b) PROVE TypeOK'
    <3>1. device' = [boot |-> b, seq |-> -1, linked |-> TRUE]
      BY <2>4 DEF DeviceBoot, DeviceQuickReboot
    <3>2. -1 \in -1..MaxSeq
      BY BoundsAssumption
    <3>3. /\ device' \in [boot: Boots \cup {0}, seq: -1..MaxSeq, linked: BOOLEAN]
          /\ device'.linked => device'.boot \in Boots
      BY <3>1, <3>2
    <3>4. PublishAvailability(b, TRUE)
      BY <2>4 DEF DeviceBoot, DeviceQuickReboot
    <3>5. UNCHANGED <<now, subscribed, adapter, orchVars, waiting, holder, calmSince>>
      BY <2>4 DEF DeviceBoot, DeviceQuickReboot
    <3> QED BY <2>2, <3>3, <3>4, <3>5 DEF orchVars
  <2>5. CASE DeviceLost
    BY <2>5, <2>2 DEF DeviceLost, orchVars
  <2>6. CASE DeviceBack
    BY <2>6, <2>2 DEF DeviceBack, orchVars
  <2>7. CASE Garbage
    <3>1. {[kind |-> "malformed"], [kind |-> "availability", online |-> TRUE, boot |-> None]}
            \subseteq Msgs
      BY DEF Msgs, MalformedMsg, AvailabilityMsg
    <3>2. PICK m \in Msgs : inbox' = Append(inbox, m)
      BY <2>7, <3>1 DEF Garbage
    <3>3. inbox' \in Seq(Msgs)
      BY <3>2 DEF TypeOK
    <3>4. UNCHANGED <<now, device, retained, subscribed, adapter, orchVars, waiting,
                      holder, calmSince>>
      BY <2>7 DEF Garbage, envVars
    <3> QED BY <3>3, <3>4 DEF orchVars, TypeOK
  <2>8. ASSUME NEW r \in Readings, DeviceSample(r) PROVE TypeOK'
    <3>1. device.seq + 1 \in 0..MaxSeq /\ device.seq + 1 \in -1..MaxSeq
      BY <2>8, BoundsAssumption DEF DeviceSample
    <3> QED BY <2>8, <2>3, <3>1 DEF DeviceSample, orchVars
  <2>9. ASSUME NEW q \in 0..MaxSeq, NEW r \in Readings, DeviceResend(q, r) PROVE TypeOK'
    BY <2>9, <2>3 DEF DeviceResend, orchVars
  <2> QED BY <1>2, <2>4, <2>5, <2>6, <2>7, <2>8, <2>9 DEF Device
<1>3. CASE Subscribe
  <2>1. inbox' \in Seq(Msgs)
    <3>1. \A m \in Msgs \cup {None} : Replay(m) \in Seq(Msgs)
      BY EmptySeq DEF Replay
    <3>2. retained.availability \in Msgs \cup {None} /\ retained.state \in Msgs \cup {None}
      BY DEF Msgs
    <3>3. \A x, y \in Seq(Msgs) : x \o y \in Seq(Msgs)
      BY ConcatProperties
    <3> QED BY <1>3, <3>1, <3>2, <3>3 DEF Subscribe
  <2> QED BY <1>3, <2>1 DEF Subscribe, orchVars
<1>4. CASE SessionLost
  <2>1. inbox' \in Seq(Msgs)
    BY <1>4, EmptySeq DEF SessionLost
  <2>2. /\ subscribed' \in BOOLEAN
        /\ UNCHANGED <<now, device, retained, adapter, orchVars, waiting, holder, calmSince>>
    BY <1>4 DEF SessionLost
  <2> QED BY <2>1, <2>2 DEF orchVars
<1>5. CASE HandleMessage
  <2>1. Head(inbox) \in Msgs /\ Tail(inbox) \in Seq(Msgs)
    BY <1>5 DEF HandleMessage
  <2>2. \A a \in AdapterOf : Store(a) =>
            adapter' \in AdapterOf /\ waiting' \in SUBSET Evaluators /\ calmSince' \in Nat
    BY DEF Store
  <2>3. Head(inbox).kind = "availability" => Head(inbox) \in AvailabilityMsg
    BY <2>1 DEF Msgs, AvailabilityMsg, StateMsg, MalformedMsg
  <2>4. Head(inbox).kind = "state" => Head(inbox) \in StateMsg
    BY <2>1 DEF Msgs, AvailabilityMsg, StateMsg, MalformedMsg
  <2>5. adapter' \in AdapterOf /\ waiting' \in SUBSET Evaluators /\ calmSince' \in Nat
    BY <1>5, <2>2, <2>3, <2>4, HandlersTyped
    DEF HandleMessage, OnAvailability, OnState, OnMalformed, Ignore
  <2> QED BY <1>5, <2>1, <2>5 DEF HandleMessage, envVars, orchVars
<1>6. CASE TickDue
  BY <1>6 DEF TickDue, envVars, orchVars
<1>7. CASE SyncBegin
  BY <1>7 DEF SyncBegin, envVars, orchVars
<1>8. CASE SyncEnd
  BY <1>8 DEF SyncEnd, envVars, BuildState, PressureOf
<1>9. ASSUME NEW p \in Evaluators, EvaluateAndApply(p) PROVE TypeOK'
  <2>1. Snapshot(adapter) \in PressureOf
    BY DEF Snapshot, AdapterOf, PressureOf
  <2> DEFINE d == Evaluate(Snapshot(adapter), since, now)
             att == MergeAttention(state.attention, d.attention)
  <2>2. d.mode \in Modes /\ d.since \in Nat \cup {None}
    BY <2>1, EvaluateDecision
  <2>3. att \in SUBSET Flags
    BY DEF MergeAttention
  <2> HIDE DEF d, att
  <2>4. /\ since' = d.since
        /\ state' \in {state, [mode |-> d.mode, attention |-> att,
                               pressure |-> Snapshot(adapter)]}
        /\ holder' \in {p, None} /\ waiting' = waiting \ {p}
        /\ UNCHANGED <<now, envVars, inbox, adapter, published, calmSince>>
    BY <1>9 DEF EvaluateAndApply, d, att
  <2>5. state' \in [mode: Modes, attention: SUBSET Flags, pressure: PressureOf]
    <3>1. [mode |-> d.mode, attention |-> att, pressure |-> Snapshot(adapter)]
             \in [mode: Modes, attention: SUBSET Flags, pressure: PressureOf]
      BY <2>1, <2>2, <2>3
    <3> QED BY <2>4, <3>1
  <2> QED BY <2>2, <2>4, <2>5 DEF envVars
<1>10. ASSUME NEW p \in Evaluators, Publish(p) PROVE TypeOK'
  BY <1>10 DEF Publish, envVars, BuildState, PressureOf
<1>11. CASE UNCHANGED vars
  BY <1>11 DEF vars
<1> QED BY <1>1, <1>2, <1>3, <1>4, <1>5, <1>6, <1>7, <1>8, <1>9, <1>10, <1>11
        DEF Next, Adapter, Orchestrator

\* The parts of the inductive invariant that only the adapter's message
\* handler and an evaluation can disturb: every other step leaves what they
\* read alone, or only advances the clock.
LEMMA QuietStep ==
    ASSUME IInv, UNCHANGED <<adapter, since, state, calmSince>>,
           now' \in Nat, now' >= now,
           "adapter" \in waiting <=> "adapter" \in waiting'
    PROVE  Applied' /\ Grounded' /\ TrackerAgrees'
  BY DEF IInv, TypeOK, Applied, Grounded, TrackerAgrees, Snapshot, Calm, Pressed

\* An evaluation applies the snapshot it read and leaves a grounded dwell.
LEMMA EvaluationStep ==
    ASSUME IInv, NEW p \in Evaluators, EvaluateAndApply(p)
    PROVE  Applied' /\ Grounded' /\ TrackerAgrees'
<1> DEFINE s == Snapshot(adapter)
           d == Evaluate(s, since, now)
           att == MergeAttention(state.attention, d.attention)
<1>1. s \in PressureOf /\ now \in Nat /\ since \in Nat \cup {None}
  BY DEF IInv, TypeOK, Snapshot, AdapterOf, PressureOf
<1>2. /\ ~s.online => d.mode = "IDLE" /\ "SENSOR_ERROR" \in d.attention
      /\ Pressed(s) => d.mode # "NIGHT_EXEC"
      /\ d.since # None => Calm(s) /\ d.since = IF since = None THEN now ELSE since
  BY <1>1, EvaluateDecision
<1>3. "SENSOR_ERROR" \in d.attention => "SENSOR_ERROR" \in att
  BY DEF MergeAttention
<1>4. s.online = adapter.online
  BY DEF Snapshot
<1> HIDE DEF d, att
<1>5. /\ since' = d.since
      /\ state'.pressure = s /\ state'.mode = d.mode /\ state'.attention = att
      /\ UNCHANGED <<now, adapter, calmSince>>
  BY DEF EvaluateAndApply, d, att, IInv, TypeOK
<1>6. Snapshot(adapter)' = s
  BY <1>5 DEF Snapshot
<1> HIDE DEF s
<1>7. Applied'
  BY <1>2, <1>3, <1>4, <1>5, <1>6 DEF Applied
<1>8. Grounded'
  <2>1. calmSince' <= now'
    BY <1>5 DEF IInv, Grounded
  <2>2. ASSUME since' # None PROVE Calm(s) /\ since' >= calmSince'
    <3>1. Calm(s) /\ since' = IF since = None THEN now ELSE since
      BY <2>2, <1>2, <1>5
    <3>2. since # None => since >= calmSince
      BY <3>1 DEF IInv, Grounded, s
    <3>3. calmSince <= now /\ now \in Nat /\ calmSince \in Nat
      BY DEF IInv, Grounded, TypeOK
    <3> QED BY <3>1, <3>2, <3>3, <1>5
  <2> QED BY <2>1, <2>2, <1>6 DEF Grounded
<1>9. TrackerAgrees'
  BY <1>5 DEF IInv, TrackerAgrees
<1> QED BY <1>7, <1>8, <1>9

\* A message is handled only when the last one has been evaluated, so a dwell
\* that runs now was calm before; a new sample moves the tracker with it.
LEMMA MessageStep ==
    ASSUME IInv, HandleMessage
    PROVE  Applied' /\ Grounded' /\ TrackerAgrees'
<1> DEFINE m == Head(inbox)
<1>1. m \in Msgs
  BY DEF HandleMessage, IInv, TypeOK
<1>2. UNCHANGED <<now, since, state>> /\ "adapter" \notin waiting
  BY DEF HandleMessage, orchVars, AdapterIdle
<1>3. ASSUME NEW a \in AdapterOf, Store(a) PROVE Applied' /\ Grounded'
  <2>1. "adapter" \in waiting' /\ adapter' = a
    BY <1>3 DEF Store
  <2>2. calmSince' = IF Calm(Snapshot(a)) /\ ~Calm(Snapshot(adapter)) THEN now ELSE calmSince
    BY <1>3 DEF Store
  <2>3. since # None => Calm(Snapshot(adapter)) /\ since >= calmSince
    BY <1>2 DEF IInv, Grounded
  <2>4. calmSince' <= now'
    BY <2>2, <1>2 DEF IInv, TypeOK, Grounded
  <2>5. since' # None => since' >= calmSince'
    BY <2>2, <2>3, <1>2
  <2> QED BY <2>1, <2>4, <2>5 DEF Applied, Grounded
<1>4. CASE OnAvailability(m)
  <2>1. m \in AvailabilityMsg
    BY <1>1, <1>4 DEF OnAvailability, Msgs, AvailabilityMsg, StateMsg, MalformedMsg
  <2>2. HandleAvailability(adapter, m, now) \in AdapterOf
    BY <2>1, HandlersTyped DEF IInv, TypeOK
  <2>3. TrackerAgrees'
    <3>1. adapter' = HandleAvailability(adapter, m, now)
      BY <1>4 DEF OnAvailability, Store
    <3>2. /\ adapter'.sample = adapter.sample
          /\ adapter'.lastSeq # -1 => /\ adapter'.lastSeq = adapter.lastSeq
                                      /\ adapter'.lastBoot = adapter.lastBoot
      BY <3>1 DEF HandleAvailability, TrackedSeq
    <3> QED BY <3>2 DEF TrackerAgrees, IInv
  <2> QED BY <1>4, <2>2, <1>3, <2>3 DEF OnAvailability
<1>5. CASE OnState(m)
  <2>1. m \in StateMsg
    BY <1>1, <1>5 DEF OnState, Msgs, AvailabilityMsg, StateMsg, MalformedMsg
  <2>2. HandleState(adapter, m, now) \in AdapterOf
    BY <2>1, HandlersTyped DEF IInv, TypeOK
  <2>3. CASE IsNewSample(adapter, m)
    <3>1. Store(HandleState(adapter, m, now))
      BY <1>5, <2>3 DEF OnState
    <3>2. adapter' = HandleState(adapter, m, now)
      BY <3>1 DEF Store
    <3>3. [boot |-> m.boot, seq |-> m.seq, reading |-> m.reading, at |-> now] \in SampleOf
      BY <2>1 DEF StateMsg, SampleOf, IInv, TypeOK
    <3>4. adapter'.sample # None
      BY <3>2, <3>3, NoneAssumption DEF HandleState
    <3>5. TrackerAgrees'
      BY <3>2, <3>4 DEF TrackerAgrees, HandleState
    <3> QED BY <3>1, <3>5, <2>2, <1>3
  <2>4. CASE ~IsNewSample(adapter, m)
    BY <1>5, <2>4, <1>2, QuietStep DEF OnState, Ignore, IInv, TypeOK
  <2> QED BY <2>3, <2>4
<1>6. CASE OnMalformed(m)
  BY <1>6, <1>2, QuietStep DEF OnMalformed, Ignore, IInv, TypeOK
<1> QED BY <1>4, <1>5, <1>6 DEF HandleMessage

\* IInv is inductive.
LEMMA StepIInv == IInv /\ [Next]_vars => IInv'
<1> SUFFICES ASSUME IInv, [Next]_vars PROVE Applied' /\ Grounded' /\ TrackerAgrees'
  BY TypeStep DEF IInv
<1>0. now \in Nat
  BY DEF IInv, TypeOK
<1>1. CASE Clock
  BY <1>0, <1>1, QuietStep DEF Clock, orchVars
<1>2. CASE Device
  <2>1. UNCHANGED <<now, adapter, orchVars, waiting, calmSince>>
    BY <1>2 DEF Device, DeviceBoot, DeviceQuickReboot, DeviceLost, DeviceBack, Garbage,
                DeviceSample, DeviceResend
  <2> QED BY <1>0, <2>1, QuietStep DEF orchVars
<1>3. CASE Subscribe \/ SessionLost
  BY <1>0, <1>3, QuietStep DEF Subscribe, SessionLost, orchVars
<1>4. CASE HandleMessage
  BY <1>4, MessageStep
<1>5. CASE TickDue \/ SyncBegin \/ SyncEnd
  BY <1>0, <1>5, QuietStep DEF TickDue, SyncBegin, SyncEnd, orchVars
<1>6. ASSUME NEW p \in Evaluators, EvaluateAndApply(p) PROVE Applied' /\ Grounded' /\ TrackerAgrees'
  BY <1>6, EvaluationStep
<1>7. ASSUME NEW p \in Evaluators, Publish(p) PROVE Applied' /\ Grounded' /\ TrackerAgrees'
  BY <1>0, <1>7, QuietStep DEF Publish
<1>8. CASE UNCHANGED vars
  BY <1>0, <1>8, QuietStep DEF vars
<1> QED BY <1>1, <1>2, <1>3, <1>4, <1>5, <1>6, <1>7, <1>8 DEF Next, Adapter, Orchestrator

\* IInv holds in every reachable state.
THEOREM Invariance == Spec => []IInv
<1>1. Init => IInv
  BY InitIInv
<1>2. IInv /\ [Next]_vars => IInv'
  BY StepIInv
<1> QED BY <1>1, <1>2, PTL DEF Spec

\* Type correctness, for every value of the constants.
THEOREM TypeCorrect == Spec => []TypeOK
<1>1. IInv => TypeOK
  BY DEF IInv
<1> QED BY <1>1, Invariance, PTL

\* The state reflects every handled message: the code's claim that offline is
\* IDLE with SENSOR_ERROR, and that a press ends the night, in any interleaving.
THEOREM HandledIsAppliedAlways == Spec => []HandledIsApplied
<1>1. IInv => HandledIsApplied
  BY DEF IInv, Applied, HandledIsApplied, AdapterIdle
<1> QED BY <1>1, Invariance, PTL

\* The dwell timer only ever counts an uninterrupted calm.
THEOREM DwellIsGroundedAlways == Spec => []DwellIsGrounded
<1>1. IInv => DwellIsGrounded
  BY DEF IInv, Grounded, DwellIsGrounded, AdapterIdle
<1> QED BY <1>1, Invariance, PTL

\* The sequence tracker of the adapter describes the sample it stores.
THEOREM TrackerAgreesAlways == Spec => []TrackerAgrees
<1>1. IInv => TrackerAgrees
  BY DEF IInv
<1> QED BY <1>1, Invariance, PTL

\* NIGHT_EXEC is entered only by an evaluation, and then by one whose dwell
\* has run its time: with a grounded dwell that is a whole dwell of calm.
THEOREM NightIsEarnedAlways == Spec => NightIsEarned
<1> DEFINE Earned ==
      state.mode # "NIGHT_EXEC" /\ state'.mode = "NIGHT_EXEC" =>
          /\ IsValid(Snapshot(adapter), now)
          /\ Calm(Snapshot(adapter))
          /\ now - calmSince >= DwellMs
<1>1. IInv /\ [Next]_vars => [Earned]_vars
  <2> SUFFICES ASSUME IInv, [Next]_vars,
                      state.mode # "NIGHT_EXEC", state'.mode = "NIGHT_EXEC"
               PROVE  /\ IsValid(Snapshot(adapter), now)
                      /\ Calm(Snapshot(adapter))
                      /\ now - calmSince >= DwellMs
    OBVIOUS
  <2>1. state' # state
    OBVIOUS
  <2>2. ~Device
    BY <2>1 DEF Device, DeviceBoot, DeviceQuickReboot, DeviceLost, DeviceBack, Garbage,
                DeviceSample, DeviceResend, orchVars
  <2>3. PICK p \in Evaluators : EvaluateAndApply(p)
    BY <2>1, <2>2 DEF Next, vars, Clock, Adapter, Orchestrator, Subscribe, SessionLost,
           HandleMessage, TickDue, SyncBegin, SyncEnd, Publish, orchVars
  <2> DEFINE s == Snapshot(adapter)
             d == Evaluate(s, since, now)
  <2>4. s \in PressureOf /\ now \in Nat /\ since \in Nat \cup {None}
    BY DEF IInv, TypeOK, Snapshot, AdapterOf, PressureOf
  <2>5. d.mode = "NIGHT_EXEC"
    BY <2>1, <2>3 DEF EvaluateAndApply
  <2>6. /\ IsValid(s, now) /\ d.since # None /\ now - d.since >= DwellMs
        /\ Calm(s) /\ d.since = IF since = None THEN now ELSE since
    <3>1. /\ d.since # None => /\ Calm(s)
                               /\ d.since = IF since = None THEN now ELSE since
          /\ d.mode = "NIGHT_EXEC" => /\ IsValid(s, now)
                                      /\ d.since # None
                                      /\ now - d.since >= DwellMs
      BY <2>4, EvaluateDecision
    <3> HIDE DEF d, s
    <3> QED BY <3>1, <2>5
  <2> HIDE DEF d
  <2>7. d.since \in Nat /\ d.since >= calmSince /\ calmSince \in Nat
    BY <2>4, <2>6 DEF IInv, TypeOK, Grounded
  <2> QED BY <2>4, <2>6, <2>7, BoundsAssumption
<1> QED BY <1>1, Invariance, PTL DEF Spec, NightIsEarned

\* Only a new sample is stored, and new means later than the tracker, which
\* describes the sample that is replaced for as long as no other boot has been
\* announced or heard.
THEOREM SamplesMoveForwardAlways == Spec => SamplesMoveForward
<1>1. IInv /\ [Next]_vars =>
        [adapter'.sample # adapter.sample /\ adapter.lastSeq # -1
         => \/ adapter'.sample.boot # adapter.sample.boot
            \/ adapter'.sample.seq > adapter.sample.seq]_vars
  <2> SUFFICES ASSUME IInv, Next, adapter'.sample # adapter.sample, adapter.lastSeq # -1,
                      adapter'.sample.boot = adapter.sample.boot
               PROVE  adapter'.sample.seq > adapter.sample.seq
    OBVIOUS
  <2>1. ~Device
    BY DEF Device, DeviceBoot, DeviceQuickReboot, DeviceLost, DeviceBack, Garbage,
           DeviceSample, DeviceResend
  <2>2. HandleMessage
    BY <2>1 DEF Next, Clock, Adapter, Orchestrator, Subscribe, SessionLost, TickDue,
                SyncBegin, SyncEnd, EvaluateAndApply, Publish
  <2> DEFINE m == Head(inbox)
  <2>3. CASE OnAvailability(m)
    BY <2>3 DEF OnAvailability, Store, HandleAvailability
  <2>4. CASE OnState(m)
    <3>1. IsNewSample(adapter, m) /\ adapter' = HandleState(adapter, m, now)
      BY <2>4 DEF OnState, Store, Ignore
    <3>2. adapter'.sample.boot = m.boot /\ adapter'.sample.seq = m.seq
      BY <3>1 DEF HandleState
    <3>3. adapter.sample.seq = adapter.lastSeq /\ adapter.sample.boot = adapter.lastBoot
      BY DEF IInv, TrackerAgrees
    <3>4. m.seq > adapter.lastSeq
      BY <3>1, <3>2, <3>3 DEF IsNewSample, TrackedSeq
    <3> QED BY <3>2, <3>3, <3>4
  <2>5. CASE OnMalformed(m)
    BY <2>5 DEF OnMalformed, Ignore
  <2> QED BY <2>2, <2>3, <2>4, <2>5 DEF HandleMessage
<1> QED BY <1>1, Invariance, PTL DEF Spec, SamplesMoveForward

=============================================================================
