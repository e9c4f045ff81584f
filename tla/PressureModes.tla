--------------------------- MODULE PressureModes ---------------------------
(***************************************************************************)
(* From an ESP32 pressure reading to a system mode.                         *)
(*                                                                         *)
(* The pressure node publishes retained availability and state messages; a  *)
(* broker delivers them to PressureMqttAdapter, which keeps the rolling     *)
(* PressureState.  After every accepted message the adapter awaits the      *)
(* orchestrator's _evaluate_and_apply, and a tick loop calls the same       *)
(* coroutine every 250 ms.  It runs under the orchestrator's lock, asks     *)
(* StateMachineV2 for a decision and, if anything changed, applies it and   *)
(* publishes while still holding the lock.  A full panel sync takes the     *)
(* same lock and may hold it for seconds.                                   *)
(*                                                                         *)
(* Time is an integer clock.  Revisions, panel frames and the attention     *)
(* flags that other code owns are the subject of module PanelLink.          *)
(***************************************************************************)
EXTENDS Integers, Sequences

CONSTANTS
    Boots,      \* boot ids of the pressure node, consecutive naturals from 1
    Readings,   \* the [cushion, footrest] readings the node can send
    MaxSeq,     \* bound: last sequence number of one boot of the node
    MaxTime,    \* bound: last instant of the clock
    MaxInbox,   \* bound: messages waiting for the adapter
    StaleMs,    \* a sample older than this is not valid
    DwellMs,    \* how long everything must be released before NIGHT_EXEC
    None        \* Python's None

ASSUME ReadingsAssumption ==
    Readings \subseteq [cushion: BOOLEAN, footrest: BOOLEAN]
ASSUME BootsAssumption == Boots \subseteq Nat \ {0}
ASSUME BoundsAssumption ==
    /\ MaxSeq \in Nat /\ MaxTime \in Nat /\ MaxInbox \in Nat
    /\ StaleMs \in Nat /\ DwellMs \in Nat

VARIABLES
    now,        \* time.monotonic() of the OPI
    device,     \* pressure node: boot (0: never booted), seq of its last message, linked?
    retained,   \* the broker's retained availability and state messages
    subscribed, \* is the adapter's broker session up?
    inbox,      \* messages delivered to the adapter and not yet handled
    adapter,    \* PressureMqttAdapter: online, sample, updatedAt, lastBoot, lastSeq
    since,      \* StateMachineV2._all_released_since_ms
    state,      \* SystemState: mode, attention, pressure
    waiting,    \* coroutines waiting for the orchestrator's lock
    holder,     \* the coroutine that holds the lock, or None
    published,  \* the state document last given to the MQTT state listener
    calmSince   \* history: when the adapter's state last became online and released

vars == <<now, device, retained, subscribed, inbox, adapter, since, state,
          waiting, holder, published, calmSince>>

envVars == <<device, retained, subscribed>>
orchVars == <<since, state, published>>

-----------------------------------------------------------------------------
(* Data.                                                                    *)

SampleOf == [boot: Boots, seq: 0..MaxSeq, reading: Readings, at: Nat]

\* Of an availability that says online, the adapter does not require a boot id.
AvailabilityMsg == [kind: {"availability"}, online: BOOLEAN, boot: Boots \cup {None}]
StateMsg == [kind: {"state"}, boot: Boots, seq: 0..MaxSeq, reading: Readings]
MalformedMsg == [kind: {"malformed"}]
Msgs == AvailabilityMsg \cup StateMsg \cup MalformedMsg

AdapterOf == [online: BOOLEAN, sample: SampleOf \cup {None}, updatedAt: Nat,
              lastBoot: Boots \cup {None}, lastSeq: -1..MaxSeq]
PressureOf == [online: BOOLEAN, sample: SampleOf \cup {None}, updatedAt: Nat]
Modes == {"IDLE", "DAY_WORK", "NIGHT_EXEC"}
Flags == {"SENSOR_ERROR"}
Evaluators == {"adapter", "tick"}

ASSUME NoneAssumption ==
    /\ None \notin Nat
    /\ None \notin {"adapter", "tick", "sync"}
    /\ None \notin SampleOf
    /\ None \notin Msgs

EmptyPressure == [online |-> FALSE, sample |-> None, updatedAt |-> 0]

\* PressureMqttAdapter.snapshot(): the PressureState part of the adapter.
Snapshot(a) == [online |-> a.online, sample |-> a.sample, updatedAt |-> a.updatedAt]

\* PressureState.is_valid
IsValid(p, t) ==
    /\ p.online
    /\ p.sample # None
    /\ t - p.sample.at <= StaleMs

Pressed(p) == p.sample # None /\ (p.sample.reading.cushion \/ p.sample.reading.footrest)

\* The PressureState says "online, nothing pressed", whatever its age.
Calm(p) == p.online /\ p.sample # None /\ ~Pressed(p)

-----------------------------------------------------------------------------
(* StateMachineV2.evaluate: the decision and the dwell timer it leaves.     *)

\* When the dwell that is running, or begins now, began.
DwellStart(s, t) == IF s = None THEN t ELSE s

\* The priority of the rules: an invalid pressure, a pressed input, the dwell.
Decide(valid, p, from, dwelt) ==
    IF ~valid THEN
        [mode |-> "IDLE", attention |-> {"SENSOR_ERROR"}, since |-> None]
    ELSE IF Pressed(p) THEN
        [mode |-> "DAY_WORK", attention |-> {}, since |-> None]
    ELSE
        [mode |-> IF dwelt THEN "NIGHT_EXEC" ELSE "IDLE", attention |-> {}, since |-> from]

\* Mutant: a pressed input does not cancel a running dwell.
EvaluateKeepsDwell(p, s, t) ==
    LET d == Decide(IsValid(p, t), p, DwellStart(s, t), t - DwellStart(s, t) >= DwellMs)
    IN  IF d.mode = "DAY_WORK" THEN [d EXCEPT !.since = s] ELSE d

\* Mutant: NIGHT_EXEC one instant before the dwell is over.
EvaluateEarly(p, s, t) ==
    Decide(IsValid(p, t), p, DwellStart(s, t), t - DwellStart(s, t) + 1 >= DwellMs)

\* Mutant: the age of the sample is not looked at.
EvaluateIgnoresAge(p, s, t) ==
    Decide(p.online /\ p.sample # None, p, DwellStart(s, t),
           t - DwellStart(s, t) >= DwellMs)

\* Mutant: the dwell must be exceeded, and is restarted when it is.
EvaluateRestartsDwell(p, s, t) ==
    LET from == IF s = None \/ t - s > DwellMs THEN t ELSE s
    IN  Decide(IsValid(p, t), p, from, t - from > DwellMs)

Evaluate(p, s, t) ==
    Decide(IsValid(p, t), p, DwellStart(s, t), t - DwellStart(s, t) >= DwellMs)

-----------------------------------------------------------------------------
(* PressureMqttAdapter: what one message does to the adapter's state.       *)
(* A message that is undecodable, of another schema or of another device is *)
(* dropped; so is a state message whose sequence number is not new.         *)

\* A boot id other than the last one restarts the sequence tracking.
TrackedSeq(a, boot) == IF boot = a.lastBoot THEN a.lastSeq ELSE -1

NamesBoot(m) == m.online /\ m.boot # None

\* Mutant: a new boot id does not restart the sequence tracking.
HandleAvailabilityKeepsSeq(a, m, t) ==
    [online |-> m.online, sample |-> a.sample, updatedAt |-> t,
     lastBoot |-> IF NamesBoot(m) THEN m.boot ELSE a.lastBoot, lastSeq |-> a.lastSeq]

\* _handle_availability: the last sample is kept in either case.
HandleAvailability(a, m, t) ==
    [online    |-> m.online,
     sample    |-> a.sample,
     updatedAt |-> t,
     lastBoot  |-> IF NamesBoot(m) THEN m.boot ELSE a.lastBoot,
     lastSeq   |-> IF NamesBoot(m) THEN TrackedSeq(a, m.boot) ELSE a.lastSeq]

\* Mutant: only an exact duplicate is dropped, a reordered sample is not.
IsOtherSample(a, m) == m.seq # TrackedSeq(a, m.boot)

\* _handle_state: is the sample new for the boot it belongs to?
IsNewSample(a, m) == m.seq > TrackedSeq(a, m.boot)

\* _handle_state, for a new sample: stamped with the time of its receipt.
HandleState(a, m, t) ==
    [online    |-> a.online,
     sample    |-> [boot |-> m.boot, seq |-> m.seq, reading |-> m.reading, at |-> t],
     updatedAt |-> t,
     lastBoot  |-> m.boot,
     lastSeq   |-> m.seq]

-----------------------------------------------------------------------------
Init ==
    /\ now = 0
    /\ device = [boot |-> 0, seq |-> -1, linked |-> FALSE]
    /\ retained = [availability |-> None, state |-> None]
    /\ subscribed = FALSE
    /\ inbox = <<>>
    /\ adapter = [online |-> FALSE, sample |-> None, updatedAt |-> 0,
                  lastBoot |-> None, lastSeq |-> -1]
    /\ since = None
    /\ state = [mode |-> "IDLE", attention |-> {"SENSOR_ERROR"},
                pressure |-> EmptyPressure]
    /\ waiting = {}
    /\ holder = None
    /\ published = [mode |-> "IDLE", attention |-> {"SENSOR_ERROR"},
                    online |-> FALSE, valid |-> FALSE]
    /\ calmSince = 0

Clock ==
    /\ now < MaxTime
    /\ now' = now + 1
    /\ UNCHANGED <<envVars, inbox, adapter, orchVars, waiting, holder, calmSince>>

-----------------------------------------------------------------------------
(* The pressure node and the broker (external).  A published message is     *)
(* retained, and delivered when the adapter's session is up.                *)

Deliver(m) ==
    inbox' = IF subscribed THEN Append(inbox, m) ELSE inbox

InboxHasRoom == Len(inbox) < MaxInbox

PublishAvailability(b, up) ==
    LET m == [kind |-> "availability", online |-> up, boot |-> b] IN
    /\ retained' = [retained EXCEPT !.availability = m]
    /\ Deliver(m)

\* The node powers up, or reboots, under a boot id of its own.
DeviceBoot(b) ==
    /\ ~device.linked
    /\ InboxHasRoom
    /\ b > device.boot
    /\ device' = [boot |-> b, seq |-> -1, linked |-> TRUE]
    /\ PublishAvailability(b, TRUE)
    /\ UNCHANGED <<now, subscribed, adapter, orchVars, waiting, holder, calmSince>>

\* The node's broker connection breaks: the broker publishes its last will.
DeviceLost ==
    /\ device.linked
    /\ InboxHasRoom
    /\ device' = [device EXCEPT !.linked = FALSE]
    /\ PublishAvailability(device.boot, FALSE)
    /\ UNCHANGED <<now, subscribed, adapter, orchVars, waiting, holder, calmSince>>

\* The node reboots so fast that its new session replaces the old one before
\* the broker publishes the last will.
DeviceQuickReboot(b) ==
    /\ device.linked
    /\ InboxHasRoom
    /\ b > device.boot
    /\ device' = [boot |-> b, seq |-> -1, linked |-> TRUE]
    /\ PublishAvailability(b, TRUE)
    /\ UNCHANGED <<now, subscribed, adapter, orchVars, waiting, holder, calmSince>>

\* The node reconnects without a reboot.
DeviceBack ==
    /\ ~device.linked /\ device.boot # 0
    /\ InboxHasRoom
    /\ device' = [device EXCEPT !.linked = TRUE]
    /\ PublishAvailability(device.boot, TRUE)
    /\ UNCHANGED <<now, subscribed, adapter, orchVars, waiting, holder, calmSince>>

PublishState(q, r) ==
    LET m == [kind |-> "state", boot |-> device.boot, seq |-> q, reading |-> r] IN
    /\ retained' = [retained EXCEPT !.state = m]
    /\ Deliver(m)

\* A new reading, or the periodic resend, with the next sequence number.
DeviceSample(r) ==
    /\ device.linked /\ device.seq < MaxSeq
    /\ InboxHasRoom
    /\ device' = [device EXCEPT !.seq = @ + 1]
    /\ PublishState(device.seq + 1, r)
    /\ UNCHANGED <<now, subscribed, adapter, orchVars, waiting, holder, calmSince>>

\* QoS 1 retransmission: a sample of this boot arrives again, late.
DeviceResend(q, r) ==
    /\ device.linked /\ q <= device.seq
    /\ InboxHasRoom
    /\ PublishState(q, r)
    /\ UNCHANGED <<now, device, subscribed, adapter, orchVars, waiting, holder, calmSince>>

\* Something that is not a message of the frozen contract reaches a topic: all
\* the adapter accepts of it is an availability without a boot id.
Garbage ==
    /\ subscribed
    /\ InboxHasRoom
    /\ \E m \in {[kind |-> "malformed"],
                [kind |-> "availability", online |-> TRUE, boot |-> None]} :
            inbox' = Append(inbox, m)
    /\ UNCHANGED <<now, envVars, adapter, orchVars, waiting, holder, calmSince>>

-----------------------------------------------------------------------------
(* PressureMqttAdapter._run_loop.                                           *)

AdapterIdle == "adapter" \notin waiting /\ holder # "adapter"

Replay(m) == IF m = None THEN <<>> ELSE <<m>>

\* Connect and subscribe: the broker replays the retained messages in the
\* order of the subscriptions, availability before state.
Subscribe ==
    /\ ~subscribed
    /\ subscribed' = TRUE
    /\ inbox' = Replay(retained.availability) \o Replay(retained.state)
    /\ UNCHANGED <<now, device, retained, adapter, orchVars, waiting, holder, calmSince>>

\* The session breaks; the adapter notices when it asks for the next message.
\* Its PressureState is left as it was.
SessionLost ==
    /\ subscribed /\ AdapterIdle
    /\ subscribed' = FALSE
    /\ inbox' = <<>>
    /\ UNCHANGED <<now, device, retained, adapter, orchVars, waiting, holder, calmSince>>

\* Every accepted message stores the new PressureState and then awaits
\* on_updated, so the next message is handled only after the evaluation.
Store(a) ==
    /\ adapter' = a
    /\ waiting' = waiting \cup {"adapter"}
    /\ calmSince' = IF Calm(Snapshot(a)) /\ ~Calm(Snapshot(adapter))
                    THEN now ELSE calmSince

Ignore == UNCHANGED <<adapter, waiting, calmSince>>

OnAvailability(m) ==
    /\ m.kind = "availability"
    /\ Store(HandleAvailability(adapter, m, now))

OnState(m) ==
    /\ m.kind = "state"
    /\ IF IsNewSample(adapter, m) THEN Store(HandleState(adapter, m, now)) ELSE Ignore

\* A payload that fails decoding or names another device is logged and dropped.
OnMalformed(m) == m.kind = "malformed" /\ Ignore

HandleMessage ==
    /\ AdapterIdle
    /\ inbox # <<>>
    /\ inbox' = Tail(inbox)
    /\ OnAvailability(Head(inbox)) \/ OnState(Head(inbox)) \/ OnMalformed(Head(inbox))
    /\ UNCHANGED <<now, envVars, orchVars, holder>>

-----------------------------------------------------------------------------
(* NightshiftOrchestrator: the tick loop and _evaluate_and_apply.           *)

\* _tick_loop: the sleep is over and the loop asks for the lock.
TickDue ==
    /\ "tick" \notin waiting /\ holder # "tick"
    /\ waiting' = waiting \cup {"tick"}
    /\ UNCHANGED <<now, envVars, inbox, adapter, orchVars, holder, calmSince>>

\* Mutant: what the state machine decided is left out.
MergeAttentionForgets(old, decided) == old \ {"SENSOR_ERROR"}

\* _merge_attention: only SENSOR_ERROR comes from the state machine.
MergeAttention(old, decided) ==
    (old \ {"SENSOR_ERROR"}) \cup (decided \cap {"SENSOR_ERROR"})

\* The lock is free: read the snapshot, decide and, unless nothing changed,
\* apply the decision and keep the lock for publishing.
EvaluateAndApply(p) ==
    LET pressure == Snapshot(adapter)
        decision == Evaluate(pressure, since, now)
        attention == MergeAttention(state.attention, decision.attention)
        changed == \/ pressure # state.pressure
                   \/ decision.mode # state.mode
                   \/ attention # state.attention
    IN  /\ p \in waiting /\ holder = None
        /\ waiting' = waiting \ {p}
        /\ since' = decision.since
        /\ holder' = IF changed THEN p ELSE None
        /\ state' = IF changed
                    THEN [mode |-> decision.mode, attention |-> attention,
                          pressure |-> pressure]
                    ELSE state
        /\ UNCHANGED <<now, envVars, inbox, adapter, published, calmSince>>

\* Mutant: `valid` is what `online and sample` evaluates to in Python.
BuildStateTruthy(s) ==
    [mode |-> s.mode, attention |-> s.attention, online |-> s.pressure.online,
     valid |-> IF s.pressure.online THEN s.pressure.sample ELSE FALSE]

\* schemas.build_state as MqttPublisher.publish_state calls it, that is
\* without now_ms and stale_ms.
BuildState(s) ==
    [mode |-> s.mode, attention |-> s.attention, online |-> s.pressure.online,
     valid |-> s.pressure.sample # None /\ s.pressure.online]

\* The awaits of event listeners, panel frames and state listeners are over:
\* the state listener got the current state and the lock is released.
Publish(p) ==
    /\ holder = p
    /\ published' = BuildState(state)
    /\ holder' = None
    /\ UNCHANGED <<now, envVars, inbox, adapter, since, state, waiting, calmSince>>

\* A full panel sync takes the lock, for as long as the panel takes.
SyncBegin ==
    /\ holder = None
    /\ holder' = "sync"
    /\ UNCHANGED <<now, envVars, inbox, adapter, orchVars, waiting, calmSince>>

SyncEnd ==
    /\ holder = "sync"
    /\ holder' = None
    /\ published' = BuildState(state)
    /\ UNCHANGED <<now, envVars, inbox, adapter, since, state, waiting, calmSince>>

-----------------------------------------------------------------------------
Device ==
    \/ \E b \in Boots : DeviceBoot(b) \/ DeviceQuickReboot(b)
    \/ DeviceLost \/ DeviceBack \/ Garbage
    \/ \E r \in Readings : DeviceSample(r)
    \/ \E q \in 0..MaxSeq, r \in Readings : DeviceResend(q, r)

Adapter == Subscribe \/ SessionLost \/ HandleMessage

Orchestrator ==
    \/ TickDue \/ SyncBegin \/ SyncEnd
    \/ \E p \in Evaluators : EvaluateAndApply(p) \/ Publish(p)

Next == Clock \/ Device \/ Adapter \/ Orchestrator

Spec == Init /\ [][Next]_vars

\* The tick loop never stops (its body catches every exception), every send
\* is bounded by its retries and timeouts, so a lock holder lets go, and
\* asyncio.Lock serves its waiters first come, first served.
Fairness ==
    /\ WF_vars(TickDue)
    /\ WF_vars(SyncEnd)
    /\ \A p \in Evaluators : WF_vars(Publish(p)) /\ SF_vars(EvaluateAndApply(p))

FairSpec == Spec /\ Fairness

-----------------------------------------------------------------------------
(* Properties.                                                              *)

\* Every variable has its type: times are naturals, the adapter's tracker
\* and sample are of the pressure contract, only evaluators wait for the lock.
TypeOK ==
    /\ now \in Nat
    /\ device \in [boot: Boots \cup {0}, seq: -1..MaxSeq, linked: BOOLEAN]
    /\ device.linked => device.boot \in Boots
    /\ retained \in [availability: AvailabilityMsg \cup {None}, state: StateMsg \cup {None}]
    /\ subscribed \in BOOLEAN
    /\ inbox \in Seq(Msgs)
    /\ adapter \in AdapterOf
    /\ since \in Nat \cup {None}
    /\ state \in [mode: Modes, attention: SUBSET Flags, pressure: PressureOf]
    /\ waiting \in SUBSET Evaluators
    /\ holder \in Evaluators \cup {"sync", None}
    /\ published \in [mode: Modes, attention: SUBSET Flags,
                      online: BOOLEAN, valid: BOOLEAN]
    /\ calmSince \in Nat

\* Once the adapter is ready for its next message, the authoritative state
\* reflects the last one, in whatever order the tick loop, the adapter and a
\* sync got the lock: same PressureState, IDLE with SENSOR_ERROR when the node
\* is offline, and never NIGHT_EXEC while something is pressed.
HandledIsApplied ==
    AdapterIdle =>
        /\ state.pressure = Snapshot(adapter)
        /\ ~adapter.online => /\ state.mode = "IDLE"
                              /\ "SENSOR_ERROR" \in state.attention
        /\ Pressed(Snapshot(adapter)) => state.mode # "NIGHT_EXEC"

\* The dwell timer never runs on readings that do not exist: when the adapter
\* is idle a running timer means the node is online and all released, and the
\* timer never started before the adapter's state became so.
DwellIsGrounded ==
    since # None =>
        /\ AdapterIdle => Calm(Snapshot(adapter))
        /\ Calm(Snapshot(adapter)) => since >= calmSince

\* NIGHT_EXEC is entered only on valid pressure, online and all released, and
\* only after the adapter has seen nothing else for the whole dwell
\* (state_machine.py: "for 3 s continuously"; a press cancels the dwell).
NightIsEarned ==
    [][state.mode # "NIGHT_EXEC" /\ state'.mode = "NIGHT_EXEC" =>
          /\ IsValid(Snapshot(adapter), now)
          /\ Calm(Snapshot(adapter))
          /\ now - calmSince >= DwellMs]_vars

\* The tracker describes the stored sample, unless a new boot id was
\* announced and no sample of that boot has come yet.
TrackerAgrees ==
    adapter.lastSeq # -1 =>
        /\ adapter.sample # None
        /\ adapter.sample.seq = adapter.lastSeq
        /\ adapter.sample.boot = adapter.lastBoot

\* While the tracker follows the boot of the stored sample, retransmitted,
\* reordered and replayed samples never replace it by an older one of that
\* boot: what replaces it is later, or of another boot.  Nothing is said of
\* what happens once another boot has been announced: lastSeq is then -1, and
\* an older sample of the first boot is taken again.
SamplesMoveForward ==
    [][adapter'.sample # adapter.sample /\ adapter.lastSeq # -1
       => \/ adapter'.sample.boot # adapter.sample.boot
          \/ adapter'.sample.seq > adapter.sample.seq]_vars

\* A node that goes silent or offline is noticed without any message of its
\* own: the tick loop brings the mode to IDLE and raises SENSOR_ERROR, unless
\* valid pressure returns first.
LossIsNoticed ==
    ~IsValid(Snapshot(adapter), now)
        ~> \/ IsValid(Snapshot(adapter), now)
           \/ state.mode = "IDLE" /\ "SENSOR_ERROR" \in state.attention

\* A dwell that has run its time ends in NIGHT_EXEC with no further message,
\* unless the pressure stops being valid and released first.
DwellCompletes ==
    (since # None /\ now - since >= DwellMs)
        ~> \/ state.mode = "NIGHT_EXEC"
           \/ ~IsValid(Snapshot(adapter), now)
           \/ Pressed(Snapshot(adapter))

\* docs/gap-analysis-v2.md: "Any state older than 10 seconds or missing ->
\* mark pressure_valid=false".  The published document that reports
\* SENSOR_ERROR must not call the same pressure valid.
PublishedValidIsHonest ==
    "SENSOR_ERROR" \in published.attention => ~published.valid

=============================================================================
