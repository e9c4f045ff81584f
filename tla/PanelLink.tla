----------------------------- MODULE PanelLink -----------------------------
(***************************************************************************)
(* The OPI side of the T5 panel link: UartGateway and the coroutines of     *)
(* NightshiftOrchestrator that send through it.                             *)
(*                                                                         *)
(* Every coroutine of the asyncio program that can have a send() in flight  *)
(* is a task: the start-up sync, the handshake of the connection loop, the  *)
(* pressure evaluation, an MQTT command, the UI action that the read loop   *)
(* executes inline, the heartbeat loop, the publish created on an online or *)
(* offline edge, and one full sync per panel boot (the HELLO callback).     *)
(* A step of the model is what one of them does between two awaits.         *)
(*                                                                         *)
(* The state T5 sees is abstracted to its revision and the PANEL_OFFLINE    *)
(* flag: a mode, work state or confirmation change is a new revision.  A    *)
(* frame carries the revision it was encoded with.                          *)
(***************************************************************************)
EXTENDS Integers, Sequences, FiniteSets

CONSTANTS
    Boots,      \* boot ids the panel may have
    CoreFrames, \* frames of _send_core_state, in order
    ListFrames, \* dashboard, notice and task list frames of a full sync
    UiOps,      \* what panel UI actions ask for: subset of Ops
    MqttOps,    \* what MQTT commands ask for: subset of Ops
    Publishers, \* tasks for the publishes that edges create
    MaxTries,   \* UartConfig.max_retries + 1
    MaxRev,     \* bound: last revision
    MaxWire,    \* bound: frames waiting for the read loop
    Seqs,       \* frame sequence numbers, more than can be in use at a time
    Activities, \* which of AllActivities an instance exercises
    None        \* Python's None

\* "refused" stands for a UI action or command that changes nothing: an
\* unknown object, a pause of an executor that is not running, a page event.
Ops == {"resync", "confirm", "refused"}

\* "evaluate": pressure evaluations change the state; "heartbeat": the heartbeat
\* loop runs; "loss": the link loses frames; "delay": an answer may take longer
\* than command_timeout_ms; "failure": the serial port fails and is reopened.
AllActivities == {"evaluate", "heartbeat", "loss", "delay", "failure"}

ASSUME ActivitiesAssumption == Activities \subseteq AllActivities
ASSUME OpsAssumption == UiOps \subseteq Ops /\ MqttOps \subseteq Ops
ASSUME BoundsAssumption == MaxTries \in Nat \ {0} /\ MaxRev \in Nat /\ MaxWire \in Nat
\* Every edge that needs a publisher takes a revision.
ASSUME PublishersAssumption == Cardinality(Publishers) >= MaxRev

VARIABLES
    connected,  \* UartGateway._connected
    gwOnline,   \* UartGateway._panel_online
    session,    \* UartSession.boot_id
    state,      \* SystemState: rev, offline (PANEL_OFFLINE in attention), online (panel_online)
    job,        \* task -> phase and the frames it still has to send
    pending,    \* task -> the frame whose answer its send() waits for, or None
    holder,     \* the task that holds the orchestrator's lock, or None
    toOpi,      \* what the panel has sent and the read loop not yet dispatched
    panel,      \* T5: boot, used (boot ids so far), core (revision per core frame),
                \*     open (snapshot bracket being received), commit (its outcome)
    gaveUp      \* history: given up a publish or sync since the last one was started?

vars == <<connected, gwOnline, session, state, job, pending, holder,
          toOpi, panel, gaveUp>>

wires == <<toOpi, panel>>

-----------------------------------------------------------------------------
Coroutines ==
    {"start", "handshake", "evaluate", "mqtt", "reader", "heartbeat", "recover"}

Tasks == Coroutines \cup Publishers \cup Boots

ASSUME NamesAssumption ==
    /\ IsFiniteSet(Boots) /\ IsFiniteSet(Publishers)
    /\ Boots \cap Publishers = {} /\ (Boots \cup Publishers) \cap Coroutines = {}
    /\ None \notin Tasks
ASSUME SeqsAssumption ==
    /\ Seqs \subseteq Nat \ {0} /\ IsFiniteSet(Seqs)
    /\ Cardinality(Seqs) >= MaxWire + Cardinality(Tasks)

\* The tasks that are, or end in, a full sync.
Syncers == {"start", "mqtt", "reader", "recover"} \cup Boots

Elems(s) == {s[i] : i \in DOMAIN s}

Controls == {"BEGIN", "END", "HELLO", "HEARTBEAT"}

ASSUME FramesAssumption ==
    /\ CoreFrames \in Seq(STRING) /\ ListFrames \in Seq(STRING)
    /\ (Elems(CoreFrames) \cup Elems(ListFrames)) \cap Controls = {}
    /\ Elems(CoreFrames) \cap Elems(ListFrames) = {}

SyncFrames == <<"BEGIN">> \o CoreFrames \o ListFrames \o <<"END">>

Idle == [phase |-> "idle", todo |-> <<>>]
AwaitSync == [phase |-> "lock", todo |-> SyncFrames]    \* _full_sync
RunCore == [phase |-> "run", todo |-> CoreFrames]       \* _publish_state
RunOne(cmd) == [phase |-> "run", todo |-> <<cmd>>]

IsIdle(t) == job[t].phase = "idle"
Running(t) == job[t].phase = "run"

\* The read loop awaits the UI action handler: it dispatches nothing else.
ReaderFree == IsIdle("reader")

\* _next_sequence: 65535 numbers in turn, so never one that is still around.
InUse == {pending[t].frame.seq : t \in {u \in Tasks : pending[u] # None}}
         \cup {f.seq : f \in {g \in Elems(toOpi) : g.kind = "ack"}}

NextSequence == CHOOSE n \in Seqs \ InUse : TRUE

Frame(t, cmd) ==
    [seq |-> NextSequence, cmd |-> cmd, owner |-> t,
     rev |-> IF cmd \in {"HELLO", "HEARTBEAT"} THEN 0 ELSE state.rev]

\* Bound: a wire that is full loses what is written to it, a UART overrun.
Put(wire, f) == IF Len(wire) < MaxWire THEN Append(wire, f) ELSE wire

-----------------------------------------------------------------------------
Init ==
    /\ connected = FALSE
    /\ gwOnline = FALSE
    /\ session = None
    /\ state = [rev |-> 0, offline |-> FALSE, online |-> FALSE]
    /\ job = [t \in Tasks |-> IF t = "start" THEN AwaitSync ELSE Idle]
    /\ pending = [t \in Tasks |-> None]
    /\ holder = None
    /\ toOpi = <<>>
    /\ panel = [boot |-> None, used |-> {}, core |-> [c \in Elems(CoreFrames) |-> -1],
                open |-> None, commit |-> "none"]
    /\ gaveUp = FALSE

-----------------------------------------------------------------------------
(* PanelConnectivityChanged: the gateway's edge and the orchestrator's      *)
(* handler of it, which run in one step of the event loop.                  *)

\* _on_event for PanelConnectivityChanged: PANEL_OFFLINE follows the edge,
\* and the revision advances only if the attention changed.
AfterEdge(s, on) ==
    [rev |-> IF s.offline = on THEN s.rev + 1 ELSE s.rev, offline |-> ~on, online |-> on]

\* ... which is then published by a task of its own, without the lock.
WithPublish(j, on) ==
    IF state.offline = on
    THEN [j EXCEPT ![CHOOSE p \in Publishers : IsIdle(p)] = RunCore] ELSE j

\* Bound: n revisions are left besides those set aside for edges that nothing
\* may hold up: the way back online, and a heartbeat that fails.
RevisionsLeft(n) ==
    state.rev + n + (IF state.offline THEN 1 ELSE 0)
                  + (IF IsIdle("heartbeat") THEN 0 ELSE 2) <= MaxRev

\* The gateway reports an edge only when _panel_online really changes; j is
\* what the step makes of the jobs apart from the edge.
Edge(on, j) ==
    IF gwOnline = on
    THEN UNCHANGED <<gwOnline, state>> /\ job' = j
    ELSE /\ gwOnline' = on
         /\ state' = AfterEdge(state, on)
         /\ job' = WithPublish(j, on)

-----------------------------------------------------------------------------
(* The panel (external): it acknowledges what it receives, drops core       *)
(* frames older than what it shows, and takes a snapshot between BEGIN and  *)
(* END.  Which task sent a frame is history, it does not use it.            *)

Body(p, f) ==
    IF p.open # None /\ p.open.owner = f.owner
    THEN [p.open EXCEPT !.got = @ \cup {f.cmd}] ELSE p.open

PanelApply(p, f) ==
    CASE f.cmd = "BEGIN" ->
           [p EXCEPT !.open = [owner |-> f.owner, got |-> {"BEGIN"}]]
      [] f.cmd = "END" /\ p.open # None ->
           [p EXCEPT !.open = None,
                     !.commit = IF p.open.owner = f.owner
                                   /\ p.open.got = Elems(SyncFrames) \ {"END"}
                                THEN "whole" ELSE "partial"]
      [] f.cmd \in Elems(CoreFrames) ->
           [p EXCEPT !.open = Body(p, f),
                     !.core[f.cmd] = IF f.rev < @ THEN @ ELSE f.rev]
      [] f.cmd \in Elems(ListFrames) -> [p EXCEPT !.open = Body(p, f)]
      [] OTHER -> p

Ack(f) == [kind |-> "ack", seq |-> f.seq]

\* Transmission is instantaneous and the answers queue up: a delay on the way
\* to the panel cannot be told from a delay of the answer.
Transmit(f) ==
    \/ /\ panel.boot # None
       /\ panel' = PanelApply(panel, f)
       /\ \/ toOpi' = Put(toOpi, Ack(f))
          \/ "loss" \in Activities /\ UNCHANGED toOpi
    \/ /\ panel.boot = None \/ "loss" \in Activities
       /\ UNCHANGED <<panel, toOpi>>

-----------------------------------------------------------------------------
(* UartGateway.send, frame by frame.                                        *)

\* Mutant: a full sync does not take the lock.
AcquireNothing(t) ==
    /\ job[t].phase = "lock"
    /\ job' = [job EXCEPT ![t].phase = "run"]
    /\ gaveUp' = FALSE
    /\ UNCHANGED <<connected, gwOnline, session, state, pending, holder, wires>>

\* async with self._lock in _full_sync.
Acquire(t) ==
    /\ job[t].phase = "lock" /\ holder = None
    /\ holder' = t
    /\ job' = [job EXCEPT ![t].phase = "run"]
    /\ gaveUp' = FALSE
    /\ UNCHANGED <<connected, gwOnline, session, state, pending, wires>>

Sending(t) == Running(t) /\ pending[t] = None /\ job[t].todo # <<>>

\* The next frame is encoded from the current state and written.
Send(t) ==
    /\ Sending(t) /\ connected
    /\ LET f == Frame(t, Head(job[t].todo)) IN
         /\ pending' = [pending EXCEPT ![t] = [frame |-> f, tries |-> 1]]
         /\ Transmit(f)
    /\ UNCHANGED <<connected, gwOnline, session, state, job, holder, gaveUp>>

\* An exception ends the send() of task t: the heartbeat loop reports the
\* panel offline, any other task goes on with todo.
Abort(t, todo) ==
    /\ pending' = [pending EXCEPT ![t] = None]
    /\ IF t = "heartbeat"
       THEN Edge(FALSE, [job EXCEPT ![t] = Idle])
       ELSE UNCHANGED <<gwOnline, state>> /\ job' = [job EXCEPT ![t].todo = todo]
    /\ gaveUp' = (gaveUp \/ t \notin {"heartbeat", "handshake"})
    /\ UNCHANGED <<connected, session, holder, wires>>

\* Mutant: a full sync that fails starts again instead of being given up.
RaiseRestartsSync(t) == Abort(t, IF t \in Syncers THEN SyncFrames ELSE <<>>)

\* Mutant: a heartbeat that times out marks the panel offline in the gateway
\* and reports nothing.
RaiseSilently(t) ==
    /\ pending' = [pending EXCEPT ![t] = None]
    /\ gwOnline' = (gwOnline /\ t # "heartbeat")
    /\ job' = [job EXCEPT ![t] = IF t = "heartbeat" THEN Idle ELSE [@ EXCEPT !.todo = <<>>]]
    /\ gaveUp' = (gaveUp \/ t \notin {"heartbeat", "handshake"})
    /\ UNCHANGED <<connected, session, state, holder, wires>>

\* _publish_state and _full_sync give up the frames that are left; a failed
\* handshake is only logged.
Raise(t) == Abort(t, <<>>)

\* "UART not connected"
SendRefused(t) == Sending(t) /\ ~connected /\ Raise(t)

\* asyncio.wait_for expires: the answer is not under way, or it is but cannot
\* be dispatched in time.
Expired(t) ==
    /\ pending[t] # None
    /\ LET n == pending[t].frame.seq IN
         \/ "delay" \in Activities
         \/ ~ReaderFree
         \/ \A a \in Elems(toOpi) : a.kind = "ack" => a.seq # n

\* Mutant: one attempt too many.
RetryOnceMore(t) ==
    /\ Expired(t) /\ pending[t].tries <= MaxTries
    /\ pending' = [pending EXCEPT ![t].tries = @ + 1]
    /\ IF connected THEN Transmit(pending[t].frame) ELSE UNCHANGED wires
    /\ UNCHANGED <<connected, gwOnline, session, state, job, holder, gaveUp>>

Retry(t) ==
    /\ Expired(t) /\ pending[t].tries < MaxTries
    /\ pending' = [pending EXCEPT ![t].tries = @ + 1]
    /\ IF connected THEN Transmit(pending[t].frame) ELSE UNCHANGED wires
    /\ UNCHANGED <<connected, gwOnline, session, state, job, holder, gaveUp>>

GiveUp(t) == Expired(t) /\ pending[t].tries = MaxTries /\ Raise(t)

\* Every frame is acknowledged, or the rest was given up: the coroutine ends
\* and releases the lock if it had it.  For "reader" the UI action is answered.
Finish(t) ==
    /\ Running(t) /\ pending[t] = None /\ job[t].todo = <<>>
    /\ t # "heartbeat"
    /\ job' = [job EXCEPT ![t] = Idle]
    /\ holder' = IF holder = t THEN None ELSE holder
    /\ UNCHANGED <<connected, gwOnline, session, state, pending, wires, gaveUp>>

-----------------------------------------------------------------------------
(* The heartbeat loop.                                                      *)

Heartbeat ==
    /\ "heartbeat" \in Activities
    /\ connected /\ IsIdle("heartbeat") /\ RevisionsLeft(2)
    /\ job' = [job EXCEPT !["heartbeat"] = RunOne("HEARTBEAT")]
    /\ UNCHANGED <<connected, gwOnline, session, state, pending, holder, wires, gaveUp>>

HeartbeatAnswered ==
    Running("heartbeat") /\ pending["heartbeat"] = None /\ job["heartbeat"].todo = <<>>

\* _on_event for HeartbeatReceived: telemetry, without a new revision.
AfterHeartbeat(s) == [rev |-> s.rev, offline |-> FALSE, online |-> TRUE]

\* Mutant: HeartbeatReceived is emitted before the edge.
HeartbeatBeforeEdge ==
    LET s == AfterHeartbeat(state)
        idle == [job EXCEPT !["heartbeat"] = Idle]
    IN  /\ HeartbeatAnswered
        /\ gwOnline' = TRUE
        /\ state' = IF gwOnline THEN s ELSE AfterEdge(s, TRUE)
        /\ job' = IF state.online THEN idle ELSE [idle EXCEPT !["recover"] = AwaitSync]
        /\ UNCHANGED <<connected, session, pending, holder, wires, gaveUp>>

\* Status OK: the online edge, if it is one, then HeartbeatReceived, whose
\* handler starts a full sync if the panel was offline until now.
HeartbeatOk ==
    LET s == IF gwOnline THEN state ELSE AfterEdge(state, TRUE)
        idle == [job EXCEPT !["heartbeat"] = Idle]
        jobs == IF gwOnline THEN idle ELSE WithPublish(idle, TRUE)
    IN  /\ HeartbeatAnswered
        /\ gwOnline' = TRUE
        /\ state' = AfterHeartbeat(s)
        /\ job' = IF s.online THEN jobs ELSE [jobs EXCEPT !["recover"] = AwaitSync]
        /\ UNCHANGED <<connected, session, pending, holder, wires, gaveUp>>

\* Another status, or an answer that cannot be parsed: no state changes.
HeartbeatFailed ==
    /\ HeartbeatAnswered
    /\ job' = [job EXCEPT !["heartbeat"] = Idle]
    /\ UNCHANGED <<connected, gwOnline, session, state, pending, holder, wires, gaveUp>>

-----------------------------------------------------------------------------
(* The read loop.                                                           *)

Receive(kind) ==
    /\ connected /\ ReaderFree
    /\ toOpi # <<>> /\ Head(toOpi).kind = kind
    /\ toOpi' = Tail(toOpi)

\* A response resolves the future registered under its sequence number; a late
\* one finds none and is ignored.
OnResponse ==
    /\ Receive("ack")
    /\ LET hit == {t \in Tasks : pending[t] # None /\ pending[t].frame.seq = Head(toOpi).seq} IN
         /\ pending' = [t \in Tasks |-> IF t \in hit THEN None ELSE pending[t]]
         /\ job' = [t \in Tasks |-> IF t \in hit THEN [job[t] EXCEPT !.todo = Tail(@)]
                                                 ELSE job[t]]
    /\ UNCHANGED <<connected, gwOnline, session, state, holder, panel, gaveUp>>

\* A boot id other than the session's: the HELLO callback's full sync.
HelloSync(b) == IF b = session THEN job ELSE [job EXCEPT ![b] = AwaitSync]

OnHello ==
    /\ Receive("hello")
    /\ session' = Head(toOpi).boot
    /\ Edge(TRUE, HelloSync(Head(toOpi).boot))
    /\ UNCHANGED <<connected, pending, holder, panel, gaveUp>>

\* Bound: out of revisions, every operation is a refused one or a resync.
Changes(op) == op = "confirm" /\ RevisionsLeft(1)

\* What an operation asks of task t: "confirm" stands for every handler that
\* changes the database and the confirmation count, then syncs.
Operate(t, op) ==
    /\ state' = [state EXCEPT !.rev = IF Changes(op) THEN @ + 1 ELSE @]
    /\ job' = [job EXCEPT ![t] =
                 IF op = "resync" \/ Changes(op) THEN AwaitSync ELSE Idle]

\* Without a session the action is answered NOT_READY.
OnUiAction ==
    /\ Receive("ui")
    /\ IF session = None THEN UNCHANGED <<state, job>>
                         ELSE Operate("reader", Head(toOpi).op)
    /\ UNCHANGED <<connected, gwOnline, session, pending, holder, panel, gaveUp>>

\* The serial port fails under read(): the loop ends, with an offline edge.
ReadError ==
    /\ "failure" \in Activities /\ connected /\ ReaderFree
    /\ gwOnline => RevisionsLeft(2)
    /\ connected' = FALSE
    /\ toOpi' = <<>>
    /\ Edge(FALSE, job)
    /\ UNCHANGED <<session, pending, holder, panel, gaveUp>>

\* _connection_loop: the port opens, and the handshake sends our HELLO.
Connect ==
    /\ ~connected /\ IsIdle("handshake")
    /\ connected' = TRUE
    /\ job' = [job EXCEPT !["handshake"] = RunOne("HELLO")]
    /\ UNCHANGED <<gwOnline, session, state, pending, holder, wires, gaveUp>>

-----------------------------------------------------------------------------
(* NightshiftOrchestrator.                                                  *)

\* _evaluate_and_apply found a change: a new revision, published under the lock.
Evaluate ==
    /\ "evaluate" \in Activities /\ IsIdle("evaluate") /\ holder = None
    /\ RevisionsLeft(1)
    /\ state' = [state EXCEPT !.rev = @ + 1]
    /\ holder' = "evaluate"
    /\ job' = [job EXCEPT !["evaluate"] = RunCore]
    /\ gaveUp' = FALSE
    /\ UNCHANGED <<connected, gwOnline, session, pending, wires>>

MqttCommand(op) ==
    /\ IsIdle("start") /\ IsIdle("mqtt")
    /\ Operate("mqtt", op)
    /\ UNCHANGED <<connected, gwOnline, session, pending, holder, wires, gaveUp>>

-----------------------------------------------------------------------------
(* The panel's own steps (external).                                        *)

PanelBoot(b) ==
    /\ b \notin panel.used
    /\ panel' = [boot |-> b, used |-> panel.used \cup {b},
                 core |-> [c \in Elems(CoreFrames) |-> -1],
                 open |-> None, commit |-> "none"]
    /\ UNCHANGED <<connected, gwOnline, session, state, job, pending, holder, toOpi, gaveUp>>

PanelSends(m) ==
    /\ panel.boot # None /\ connected
    /\ Len(toOpi) < MaxWire /\ \A x \in Elems(toOpi) : x.kind # m.kind
    /\ toOpi' = Append(toOpi, m)
    /\ UNCHANGED <<connected, gwOnline, session, state, job, pending, holder,
                   panel, gaveUp>>

\* A HELLO that repeats the session's boot id while the panel is online
\* changes nothing, so the model does not send it.
PanelHello ==
    /\ session # panel.boot \/ ~gwOnline
    /\ PanelSends([kind |-> "hello", boot |-> panel.boot])
PanelUi(op) == PanelSends([kind |-> "ui", op |-> op])

-----------------------------------------------------------------------------
\* At most one of these is possible for a task at a time.
Proceed(t) == Send(t) \/ SendRefused(t) \/ Retry(t) \/ GiveUp(t) \/ Finish(t)

TaskStep(t) == Acquire(t) \/ Proceed(t)

Reader == OnResponse \/ OnHello \/ OnUiAction \/ ReadError

HeartbeatLoop == Heartbeat \/ HeartbeatOk \/ HeartbeatFailed

Panel ==
    \/ PanelHello
    \/ \E b \in Boots : PanelBoot(b)
    \/ \E op \in UiOps : PanelUi(op)

\* No coroutine has anything under way: the program waits for its timers and
\* for the panel, which have used up their bounds.
Wait ==
    /\ \A t \in Tasks : IsIdle(t)
    /\ holder = None /\ toOpi = <<>>
    /\ UNCHANGED vars

Next ==
    \/ \E t \in Tasks : TaskStep(t)
    \/ Reader \/ HeartbeatLoop \/ Connect \/ Evaluate
    \/ \E op \in MqttOps : MqttCommand(op)
    \/ Panel \/ Wait

Spec == Init /\ [][Next]_vars

\* Timers and the event loop run: every send ends in an answer or, after its
\* retries, in an exception; asyncio.Lock is first come, first served; the
\* read loop dispatches what arrives and the panel answers what it receives.
TaskFairness ==
    /\ \A t \in Tasks : WF_vars(Proceed(t))
    /\ \A t \in Syncers : SF_vars(Acquire(t))

FairSpec ==
    /\ Spec /\ TaskFairness
    /\ WF_vars(Reader) /\ WF_vars(HeartbeatOk) /\ WF_vars(Connect)
    /\ WF_vars(PanelHello)

-----------------------------------------------------------------------------
(* Properties.                                                              *)

FrameOf == [seq: Seqs, cmd: Elems(SyncFrames) \cup {"HELLO", "HEARTBEAT"},
            owner: Tasks, rev: 0..MaxRev]

\* Every variable has its type.
TypeOK ==
    /\ connected \in BOOLEAN /\ gwOnline \in BOOLEAN /\ gaveUp \in BOOLEAN
    /\ session \in Boots \cup {None}
    /\ state \in [rev: 0..MaxRev, offline: BOOLEAN, online: BOOLEAN]
    /\ \A t \in Tasks :
         /\ job[t].phase \in {"idle", "lock", "run"}
         /\ Elems(job[t].todo) \subseteq Elems(SyncFrames) \cup {"HELLO", "HEARTBEAT"}
         /\ pending[t] # None => /\ pending[t].frame \in FrameOf
                                 /\ pending[t].tries \in 1..MaxTries
    /\ holder \in Tasks \cup {None}

\* The gateway's and the orchestrator's idea of the panel never differ, and
\* PANEL_OFFLINE is never shown for a panel that is online.
OnlineAgrees == gwOnline = state.online /\ (state.offline => ~state.online)

\* tests/test_revision_ownership.py: the revision counts the changes T5 sees.
\* It never falls, moves by one at a time, and moves whenever PANEL_OFFLINE
\* does, although HeartbeatReceived clears the flag without a new revision.
RevisionCountsChanges ==
    [][/\ state'.rev \in {state.rev, state.rev + 1}
       /\ state'.offline # state.offline => state'.rev = state.rev + 1]_state

\* tests/test_orchestrator_services.py, test_full_sync_does_not_commit_partial
\* _snapshot: the panel commits a snapshot only if it got every frame of that
\* very sync since its BEGIN, whatever was lost, late, retried or sent by
\* other tasks in between.
SnapshotsAreWhole == panel.commit # "partial"

Quiet ==
    /\ \A t \in Tasks : IsIdle(t)
    /\ toOpi = <<>>
    /\ panel.boot # None /\ session = panel.boot

\* When nothing is under way and nothing was given up since the lock was last
\* taken, the panel shows the current revision in every core frame: no change
\* is left unpublished, and no late retry undoes a newer frame, although the
\* publishes of edges run beside a sync, without its lock.  No run checks it;
\* PanelLinkProofs has the proof (CurrentPanel).
PanelIsCurrent ==
    Quiet /\ ~gaveUp => \A c \in Elems(CoreFrames) : panel.core[c] = state.rev

\* Nobody keeps the orchestrator's lock: every full sync that asks for it gets
\* it and ends, that of a UI action too, which runs inside the read loop and
\* waits for answers that only the read loop could deliver.
SyncsEnd == \A t \in Syncers : job[t].phase = "lock" ~> IsIdle(t)

\* docs/gap-analysis-v2.md: "on inbound HELLO from panel (panel reboot) OPI
\* re-emits the full snapshot".
HelloGetsSnapshot ==
    \A b \in Boots : session = b ~> (panel.boot # b \/ panel.commit = "whole")

=============================================================================
