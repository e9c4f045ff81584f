# Verification of nightshift-opi

TLA+ models of the nightshift-opi backend, TLC runs over small instances of
them, and TLAPS proofs of what matters most for every size. The code is the
reference: where a model and the code differ, the model is wrong. Sources are
quoted as paths under `src/`; `PROJECT.json` maps every definition to its lines.

- [The system](#the-system)
- [Modules](#modules)
- [Runs](#runs), [bounds](#bounds) and [fairness](#fairness)
- [Proofs](#proofs)
- [Where code and documents disagree](#where-code-and-documents-disagree)
- [What is assumed of the surroundings](#what-is-assumed-of-the-surroundings)
- [What is not modelled](#what-is-not-modelled)
- [Plan](#plan)

## The system

One Python process (asyncio, one event loop) on an Orange Pi ("OPI"). It takes
pressure readings of a chair from an ESP32 over MQTT, derives a mode of the
desk (IDLE, DAY_WORK, NIGHT_EXEC), shows mode, attention flags, tasks and
notices on a T5 panel over a serial line, executes the panel's buttons, and
serves MQTT clients with state documents and commands.

| Component | State | Operations | Talks to |
|---|---|---|---|
| Pressure adapter (`integrations/mqtt/pressure_adapter.py`, `domain/pressure.py`, `pressure_codec.py`) | online, last sample, last boot id and sequence number | session with the broker, availability message, state message | broker (subscriber); awaits the orchestrator after each accepted message |
| State machine (`domain/state_machine.py`) | when everything was released (dwell timer) | `evaluate` | called by the orchestrator |
| Orchestrator (`services/orchestrator.py`) | `SystemState` (revision, mode, attention, pressure, panel online, counts), dashboard, one `asyncio.Lock` | tick loop, evaluate and apply, publish, full sync, gateway events, UI actions, entry points for MQTT commands | gateway (send), services, state and event listeners |
| UART gateway (`hardware/uart/gateway.py`) | connected, panel online, pending sends, sequence number | connection loop with HELLO, send with retries, read loop, heartbeat loop, UI actions | panel; calls the orchestrator back from inside its loops |
| UART session (`hardware/uart/session.py`) | panel boot id, results of the last 256 actions | check, record, reset | called by the gateway |
| Codec and payloads (`hardware/uart/codec.py`, `protocol.py`) | none | COBS, CRC-16, packing | gateway |
| MQTT client, publisher, schemas (`integrations/mqtt/`) | session, availability and last will | publish state and events, receive commands one by one | broker; state listener of the orchestrator |
| MQTT command handler (`integrations/mqtt/command_handler.py`) | reply cache by request id | expiry, duplicate and conflict checks, dispatch | MQTT client; orchestrator and services |
| Task, notice and confirmation services (`services/`) | none of their own | transitions, dismissal, records, counts, queries | database |
| Database (`persistence/database.py`) | one aiosqlite connection, one transaction | open, migrate, close | SQLite |
| Executor service (`services/executor_service.py`) | work state | pause, resume, start, ... | orchestrator; nothing starts it |
| Entry point (`apps/backend/main.py`) | none | builds and starts the parts in order, stops them on a signal | all |
| Access point (`deploy/scripts/`, `deploy/systemd/`) | hostapd, dnsmasq, iptables rules, address of ap0 | start, stop, down; restarts and start limit | systemd, wpa_supplicant, mosquitto |

What is hard here is that almost everything awaits something while the rest of
the program goes on:

- The lock is held while frames are sent and retried, so the tick loop, the
  adapter and every sync wait for each other, and decide on what is true when
  they get the lock, not when they asked.
- The read loop executes UI actions itself. While it does, nobody dispatches
  the answers that the action's own full sync is waiting for.
- Publishes caused by an online or offline edge run without the lock, between
  the frames of snapshots.
- Answers are lost, late, or belong to a send that gave up; the panel and the
  pressure node reboot at any time; the serial port fails and comes back.
- The serial line carries a stream of bytes that knows no frames and may lose
  or change any of them.
- The MQTT session is lost while coroutines that publish are waiting for the
  panel; two retained messages outlive session and program.
- The panel repeats actions and the broker and clients repeat commands; the
  caches that recognise repetitions are bounded, in time or in size.
- All services share one database connection and so one transaction; a
  decision is two commits with awaits between them; the program can end in
  between.
- The access point shares one radio with the station interface and must use its
  channel; systemd restarts it, but not for ever, and the broker needs its
  address.

Correct means, for each part:

| Part | Properties |
|---|---|
| Pressure to mode | the mode follows the last handled message; silence is noticed; NIGHT_EXEC only after a whole dwell of valid, released pressure; within one boot of the node no older sample comes back |
| Panel link | gateway and orchestrator agree on whether the panel is there; each visible change takes a revision; the panel commits whole snapshots only and ends up current; every sync ends |
| UART session | a repeated action is executed again only when the cache cannot remember it; a new one is executed; an answer belongs to the action |
| MQTT commands | at most one effect per command; an id executes nothing else while remembered; repeated answers are equal |
| Wire | only frames that were sent are dispatched; one that came through is never lost to the damage of others |
| MQTT session | the retained document is current whenever somebody could rely on it; the availability is true; a session comes back |
| Access point | forwards only in a run that saw the station; gives up only for a reason; ends up on the station's channel, with the broker running |
| Decisions | decided once; what was answered OK is on disk with its record; the published dashboard is the database's, and so is what the panel acknowledged |

## Modules

| Module | Models | Lines it is about |
|---|---|---|
| `PressureModes` | adapter, state machine, evaluation, tick loop, the lock, the published document; node and broker are its environment | `pressure_adapter.py`, `state_machine.py`, `pressure.py`, `orchestrator.py` 199-279, `schemas.py` |
| `PanelLink` | gateway and every coroutine of the orchestrator that sends; the panel's protocol side is its environment | `gateway.py`, `orchestrator.py` 131-321, 403-534 |
| `UartSession` | which UI actions are executed and what is answered | `session.py`, `gateway.py` 236-378 |
| `RecentOnce` | abstract: no request is executed while one of its number is remembered, and every answer reports the execution of a remembered one | what `UartSession` implements |
| `MqttCommands` | expiry, cache, conflicts, dispatch, failure | `command_handler.py`, `client.py` 224-266 |
| `OnceOnly` | abstract: a request takes effect at most once, and every answer reports that one outcome | what `MqttCommands` implements |
| `MqttSession` | connection, last will, availability, retained document, and every coroutine that publishes | `client.py` 36-246, `publisher.py`, `schemas.py` 148-264, `orchestrator.py` 149-322, 436-450 |
| `LinkWire` | bytes, COBS, CRC-16, the header and the read loop's buffer | `codec.py`, `protocol.py` 16-70, `gateway.py` 107-149, 197-217 |
| `AccessPoint` | start, stop and down scripts, systemd, the broker's start | `deploy/scripts/*`, `nightshift-ap.service`, `mosquitto-nightshift.conf` |
| `Decisions` | services over the shared connection, counts and queries of a full sync, restart | `services/*.py`, `database.py`, `orchestrator.py` 324-343, 454-534 |
| `MC*` | instances for TLC | |
| `*Proofs` | theorems about the module they extend | |

Every model takes what a coroutine does between two awaits as one step; that is
what asyncio guarantees. The modules meet at interfaces each of them keeps
whole:

- `PanelLink` sees a mode change as "a new revision, published under the lock"
  (`Evaluate`); `PressureModes` shows which changes there are and sees a full
  sync as something that holds the lock for any time (`SyncBegin`, `SyncEnd`).
- `PanelLink` sees a UI action or MQTT command as an operation that ends in a
  full sync, or changes nothing (`Operate`); `UartSession` and `MqttCommands`
  decide whether it is executed, `Decisions` what it does to the database.
- `MqttSession` takes whoever changes the state as a worker that takes a
  revision, sends frames for any time and then publishes, with or without the
  lock as the code does; what the frames do is `PanelLink`'s subject, what the
  document says of the pressure `PressureModes`', of the tasks `Decisions`'.
- `PanelLink` puts whole frames on the wire and loses them; `LinkWire` is why
  that is what noise does to them.

### PressureModes

`adapter` is `PressureMqttAdapter`'s rolling state, `since` the state machine's
timer, `state` and `published` the orchestrator's. `HandleMessage` is
`_handle_message`: it stores or ignores, and on an accepted message puts the
adapter among the coroutines `waiting` for the lock; it handles nothing more
until its evaluation is done (`AdapterIdle`), because the callback is awaited. An
availability message may name no boot id (`NamesBoot`), which leaves the sequence
tracking alone.
`EvaluateAndApply` reads the snapshot and the clock at the moment the lock is
granted; `Publish` ends the evaluation and releases it. Messages of the node
are retained, replayed on subscription, repeated (`DeviceResend`) and lost when
nobody is subscribed; the node reboots with a new boot id, with or without its
last will.

### PanelLink

Every coroutine that can have a `send()` in flight is a task with the frames it
still has to send (`job`) and the frame whose answer it awaits (`pending`):
start-up sync, HELLO handshake, evaluation, MQTT command, the read loop's UI
action, heartbeat, the publish task of each edge, one sync per HELLO. `Send`,
`Retry`, `GiveUp`, `SendRefused` are the paths of `UartGateway.send`, `Raise` is
what each caller makes of its exception. `OnResponse`, `OnHello` and `OnUiAction`
are dispatched only while the read loop does not execute an action
(`ReaderFree`). A response is matched by its sequence number only, as in the
code. `Edge` is `PanelConnectivityChanged` together with the orchestrator's
handler of it, which run without an await between them.

The panel's state is what the properties need: the revision each core frame
carried last, the bracket of a snapshot being received, and whether the last
committed one had every frame of its own sync.

### UartSession and RecentOnce

`cache` is `_dedup_cache` with its order, `busy` the action in `_in_flight`. The
panel numbers its frames in turn and the numbers go around (`SeqMax`), it
reboots with a new boot id, and repeats what is not answered: an action, or its
HELLO, which it may also send again later, when it takes the link for lost. Only a
HELLO with another boot id begins a session. `log`, `outcome` and `answers` are
histories. A HELLO and an action too short to be parsed are refused without any
change of the state (INVALID_ARGUMENT, INVALID_LENGTH) and are left out.

`ExecutesOnceWhileRecent` is the refinement: the memory of `RecentOnce` is the
cache and, while an action is executed, what the cache will be after it; a request
is what the gateway can tell apart, number and digest. It does not mention the
boot of a frame, which carries none, so it holds only if the gateway's session is
always that of the boot that sent the action.

### MqttCommands and OnceOnly

A command is a value of its digest's fields and its request id; `Dispatch` is
the effect, `Conclude` the cached and published reply, `Fail` an exception that
leaves nothing in the cache. The clock moves on between them. `Restart` empties
the cache, also in the middle of a dispatch, and `SetBack` sets the clock back;
the handler knows of neither, and the histories count anew for exactly the
commands that can be executed again after it (`Forget`). `AnswersOnce` is the
refinement: `OnceOnly` with commands as requests, the concluded dispatch as the
execution, and the two interruptions as the only steps that forget.

### MqttSession

`client` is where `_run_loop` is, `link` the connection below it, which breaks
before the loop notices. `retained` and `armed` are the broker: the availability
as the boot id it names, the state document as revision and panel block, and
whether a will is due. The document does not say which run of the program wrote
it; `writer` is a history of that, which the properties need, since the revision
starts at zero again after a restart. `Connect` takes over an older session of the same
client id, whose will the broker publishes first. A publish writes to the socket
before it awaits anything, so it happens at once or not at all; what takes time
is the frames that a coroutine sends before it (`job` is "frames"). `End` is the
end of the program, killed (`Crash`) or stopped: `stop()` cancels the loop, so
the offline availability after it is never published, and leaving the client's
context disconnects in order, which costs the will. `unwilled` remembers that.

### LinkWire

The panel writes frames at any time (`Send`): packed (`Raw`), given their checksum
and stuffed (`StuffFrame`). Bytes remember the frame they belong to, on the `line`
and in `buffer`, `_read_loop`'s own; only the properties look at that. A
disturbance removes, replaces or inserts a byte that was not read yet (`Lose`,
`Change`, `Add`), or the port is opened anew, whose read loop begins with an
empty buffer (`Reopen`). `Read` is the await of a chunk, `Take` one turn of the
inner loop: the bytes up to the first delimiter are a frame that is dispatched,
or are dropped.

`CobsEncode`, `CobsDecode`, `Crc16` and `Parse` are the codec itself; only the
length of a full COBS block is a constant (`MaxBlock`, 254 in the code), so that
short frames have full blocks. Its loops are functions of the number of
iterations, and a loop that ends early stays where it is; the exclusive or of
two bytes is a table. `MCLinkWire` assumes, and TLC evaluates, two of the
repository's golden vectors for blocks of 254.

### AccessPoint

`phase` is where the start script is, or what systemd does without it; `run` what
the script has decided (`STA_FREQ`, `STA_CONNECTED`, exit status). A unit of time
is longer than the script's own work and stands for thirty seconds: `Tick` is
possible only when neither script nor systemd has something to do. `limit` is
systemd's rate limit. The station moves as it likes (`Move`), the radio refuses a
second channel (`RadioRefuses`), children die, and an operator calls
`nightshift-ap-down`, which does not stop the service: after it, the access point
is back in half a minute, or stays down for good if hostapd was just starting.

### Decisions

`db` is the database as the connection sees it and `disk` what is committed.
Coroutines put one statement at a time into the worker thread's `queue`
(`Serve`), and are resumed in the order of the `results` (`Resume`): an update
and its commit, the lookup, the record and its commit, the count, then the lock
and the three queries of a full sync. A commit commits everybody's writes. A
statement can raise (`Raise`), with or without SQLite rolling the transaction
back, and the program can end anywhere (`Restart`). `memory` is
`confirmation_count` and the dashboard. `shown` is what the last sync published,
and, if the panel acknowledged every frame of it (`sent`), its task list and
notices. A sync ends in one of two ways. `FinishSync` is the one that was
acknowledged to its END. `GiveUpSending` is the one with a send that failed:
the rest is not sent, the state is published and the sender answered OK all the
same. The sync of a UI action always ends like that, because the read loop
awaits the handler and dispatches no answer meanwhile (`gateway.py` 171-188, 215,
267-269), so `FinishSync` excludes it; `PanelLink` has the mechanism. A notice
can expire at any time (`Expire`): it leaves the query without a commit, and
nobody tells the panel. The query for a notice takes the clock when it is made
(`Awaiting`). There are no more tasks than the 16 that `list_recent` returns. What
one request reads between two awaits of its own can be changed by the other
sender, which is what the properties are about.

## Runs

| Run | Module, cfg | Shows |
|---|---|---|
| `pressure_modes` | `MCPressureModes`, `PressureModes.cfg` | HandledIsApplied, DwellIsGrounded, TrackerAgrees, NightIsEarned, SamplesMoveForward over two boots of the node; LossIsNoticed, DwellCompletes: with no further message the tick loop does it |
| `pressure_stale_valid` | `PressureStaleValid.cfg` | violated: PublishedValidIsHonest |
| `panel_link` | `MCPanelLink`, `PanelLink.cfg` | SnapshotsAreWhole with loss, retries, UI and MQTT syncs and two boots of the panel |
| `panel_heartbeat` | `PanelLinkHeartbeat.cfg` | OnlineAgrees, RevisionCountsChanges with heartbeats, late answers and serial failures |
| `panel_live` | `PanelLinkLive.cfg` | SyncsEnd: a resync inside the read loop, and everyone behind its lock, ends |
| `panel_hello` | `PanelLinkHello.cfg` | violated: HelloGetsSnapshot |
| `uart_session` | `MCUartSession`, `UartSession.cfg` | RepeatsAreRemembered, NewActionsAreExecuted and the refinement ExecutesOnceWhileRecent with a full cache, numbers going around, reboots and restarts |
| `mqtt_commands` | `MCMqttCommands`, `MqttCommands.cfg` | ExecutesOnce, IdsAreNotShared, AnswersOnce, with a restart or a clock that is set back |
| `decisions` | `MCDecisions`, `Decisions.cfg` | DecidedOnce, GapsAreInterruptions, AcknowledgedIsDurable, and ShownIsCurrent with sends that fail and a notice that expires |
| `mqtt_session` | `MCMqttSession`, `MqttSession.cfg` | DocumentIsCurrent, AvailabilityIsHonest, Recovers with losses, restarts of the broker, crashes and stops |
| `access_point` | `MCAccessPoint`, `AccessPoint.cfg` | RulesAreOwned, GivesUpForAReason, Settles with a station that moves, faults and an operator |
| `link_wire` | `MCLinkWire`, `LinkWire.cfg` | OnlySentFrames, IntactFramesArrive with two disturbances anywhere, at any time, and chunks of two sizes |

The first run of each module also checks its `TypeOK`. Every property of a
passing run has a mutant: a plausible mistake in one definition, kept beside it
in the module under a comment that says "Mutant", with which TLC finds the
property violated.

### Bounds

Bounds are constants and stand in guards; each is named in its module.

- `PressureModes`: two boots, two sequence numbers per boot, a clock of three
  instants, one message in the adapter's inbox. `StaleMs` and `DwellMs` are one
  instant, so a sample can age past its limit and a dwell can be interrupted
  and finished within the clock. One message suffices: the broker keeps the
  rest as retained messages, and the node can send again.
- `PanelLink`: one core frame and one list frame stand for all of their kind,
  since a property can only tell whether a frame is sent by publishes too. Two
  frames on the wire (one in `panel_heartbeat`), a full wire being an overrun,
  one retry. `panel_link`
  has two boots and one revision besides the initial one: a stale frame needs
  two revisions, a stale snapshot two boots. `panel_heartbeat` leaves the
  frames of snapshots out and has four revisions, which is offline and online
  twice.
  `RevisionsLeft` keeps back those that the edges under way will need.
- `UartSession`: a cache of two, numbers of three, four frames per boot: the
  cache overflows, and numbers go around while an entry is still cached.
- `MqttCommands`: two ids, two send times, two times to live, a retry window of
  one, a clock that outlasts every cache entry, and one interruption, at any
  time and, for the clock, of any size; the proofs are for any number of them.
- `Decisions`: two tasks, since a lost count needs two; one notice,
  which may expire; two requests by one or both senders; one fault and one
  restart, in either order.
  Tasks start pending or failed, the states an operation can leave, and the
  notice is active; the others are reached.

- `MqttSession`: two boots, two helpers besides the evaluation and the command
  handler (a HELLO starts two coroutines), two revisions per boot, two losses:
  a document of an old boot, one published late and one lost all occur.
- `AccessPoint`: two frequencies in and one above the 2.4 GHz band, three moves,
  two faults, and a start limit of three starts in ten units, as configured.
- `LinkWire`: two frames, short and long, two disturbances, which can damage
  both or one twice, full blocks of three bytes; chunks of nine bytes cut every
  frame, chunks of 64 hold both. Noise is a delimiter or a byte within a block's
  range.

Deadlock is checked except where there is nothing more to ask once the bounds
are used up: in `uart_session` and `decisions` the program waits for panel and
clients, in `mqtt_session` it may have ended for good, in `link_wire` everything
was read. `PanelLink` has `Wait` for that state and only for that: nothing
under way, the lock free and the wire empty.

### Fairness

Safety runs use `Spec`, without fairness. The temporal ones use `FairSpec`:

- `PressureModes`: weak fairness of the tick, of the end of a sync and of
  publishing, strong fairness of getting the lock. The tick loop catches every
  exception of its body, a send ends after its retries, and `asyncio.Lock`
  serves its waiters in order. Nothing is assumed of node and broker.
- `PanelLink`: weak fairness of what a task does next (timers expire), of the
  read loop and of the connection loop, strong fairness of getting the lock. Of
  the panel only that it sends HELLO once it has booted; the link may lose it
  where the instance has loss.
- `MqttSession`: weak fairness of the loop's next step (a lost connection raises
  in it, the backoff ends), of what a coroutine does next (sends end), of the
  broker's noticing a dead connection (keepalive), strong fairness of the lock.
- `AccessPoint`: the script and systemd go on, time passes, the broker is started
  again and again. Nothing is assumed of station, children and operator.

## Proofs

tlapm proves these for every value of the constants that their `ASSUME`s allow.

`PressureModesProofs`: `TypeCorrect`, `HandledIsAppliedAlways`,
`DwellIsGroundedAlways`, `TrackerAgreesAlways`, `NightIsEarnedAlways`,
`SamplesMoveForwardAlways`.
The invariant is `TypeOK /\ Applied /\ Grounded /\ TrackerAgrees`. The checked
properties speak of an idle adapter and are not inductive: `Applied` and
`Grounded` say what holds while the adapter waits for the lock, namely that
nothing about the stored pressure is lost until its evaluation. A lemma about
`Evaluate` (`EvaluateDecision`) is all the proofs use of the state machine: a
dwell runs only on calm, valid pressure and NIGHT_EXEC needs a whole one.
`NightIsEarned` follows since only an evaluation changes the mode and the timer
never began before `calmSince`. `SamplesMoveForwardAlways` is about one boot at a
time: when the adapter turns to another boot it forgets its sequence number, so
that a retained sample of an earlier boot, replayed then, does replace a newer one.
No property says otherwise.

`PanelLinkProofs`: `OnlineAgreesAlways`, `RevisionCountsChangesAlways`,
`TypeCorrect`, `WholeSnapshots`, `CurrentPanel`, `SuccessIsAlwaysReceipt`. For the
first two: every step of any number of tasks is one of six kinds for the part of
the state that says whether the panel is there (`LinkStep`): nothing, an edge in either
direction, a heartbeat without an edge, a heartbeat after the edge it caused, a
new revision. The invariant (`IInv`) is their agreement; given it, a heartbeat's
silent clearing of PANEL_OFFLINE never changes anything, because the edge came
first.

The other four rest on `Inv`, which adds what the senders, the wire and the
panel have to do with each other:

- `TaskInv`: a full sync has the end of `SyncFrames` left and holds the lock; no
  other sender has a BEGIN or an END; the frame a task waits for is the first it
  has left. The sync that `HeartbeatReceived` would start never runs.
- `Spared`: revisions and publishers suffice for the edges that may still come.
- `Booted`: boot ids are used once, so the sync of a boot is started once; one
  HELLO at most is on the wire.
- `Answers`: sequence numbers tell waiting tasks apart, and an acknowledgement on
  the wire stands for a frame the panel has: in the open snapshot, if it is a
  sync's, and shown, if it is a core frame of the boot the session is or will be
  with. This is where late answers and retries are dealt with.
- `Snapshot`: a bracket that is open while a sync is under way is of that sync
  and has all it had acknowledged, so the END finds everything.
- `Core`: a core frame of the session's boot has the current revision, or some
  task still owes it, unless something was given up.

All steps but sending and being answered treat each task in one of four ways
(`Local`): it stays, starts, gets the lock, or leaves what it had. `LocalInv`
deals with them at once; `TransmitInv`, `ResponseInv`, `BootInv` and `MessageInv`
are the rest. `SuccessIsAlwaysReceipt` is what callers of `send` rely on: it returns
only when the panel has that frame. It excepts a panel that booted and whose HELLO
was not handled yet, since an answer of the boot before still ends a send. The assumptions are that tasks have different names
(`NamesAssumption`), that sequence numbers are more than can be in use
(`SeqsAssumption`: 65535 in the code), that core and list frames are different
(`FramesAssumption`), and that every edge finds a task
(`PublishersAssumption`).

`MqttCommandsProofs`: `TypeCorrect`, `ExecutesOnceAlways`,
`IdsAreNotSharedAlways`, `ImplementsOnceOnly`. The invariant adds to the types:
every answered command that was not forgotten is in the cache until its retry
window is over (`Kept`), cache entries report the outcome of the command they
belong to (`Honest`), what is being served was not answered and has no entry
(`Alone`), and a command that took effect more often than it failed is being
served, expired or cached (`Counted`). `NewIsUnanswered` is the heart: the retry
window begins where the time to live ends, so what is neither expired nor
remembered was never answered. The refinement maps every step to a step of
`OnceOnly` or to a stutter.

`MqttSessionProofs`: `TypeCorrect`, `CurrentDocument`, `HonestAvailability`.
`DocumentIsCurrent` speaks of moments at which nobody is
publishing; the invariant speaks of all: when the session is set up, the
document is current or somebody who still has to publish is at work, and a
coroutine that will publish without the lock is one that changed the state.

`AccessPointProofs`: `TypeCorrect`, `RulesAlwaysOwned`, `GivesUpOnlyForAReason`.
The last one is a counting argument: each start in systemd's window but the first
was preceded by a fault, a move, or a station above 2.4 GHz, whatever the
lengths of the window and of the waits.

`UartSessionProofs`: `TypeCorrect`, `AnswersAlwaysFit`,
`RepeatsAlwaysRemembered`, `NewActionsAlwaysExecuted`, `ImplementsRecentOnce`,
`ResultsAreOfOneAction`. The cache is the end of
the history of executions under its keys (`Remembered`), so an action that is
not in it was executed at least a cache ago; what is cached is older than what is
being executed and carries the payload of everything that has its outcome
(`Fits`); and since frames arrive in order, everything behind the running boot's
HELLO is of that boot (`Ordered`), so that two of its numbers are equal modulo
`SeqMax` only a whole round apart (`NumbersTellApart`).
The refinement needs that for every boot, not only the running one: what the read
loop takes off the wire is of the session's boot, because frames between one HELLO
and the next are of one boot (`InSession`), and the wire is lost with the session
when the program ends. Executing an action records it in the memory
(`RecordedSays`: recording and evicting are what `RecentOnce` does with its
memory), being answered and replaying report an entry, a new session and a restart
forget. `ResultsAreOfOneAction` is then proved from the steps of `RecentOnce`
alone: no execution is reported for two actions that differ in boot, number or
payload, however long ago the first was forgotten. `AnswersAlwaysFit` says the same
of the history of executions, with the payload only; no run repeats it.

`DecisionsProofs`: `TypeCorrect`, `DecidedOnlyOnce`, `AcknowledgedStays`,
`GapsAreInterrupted`, `ShownStaysCurrent`. The
types include where each coroutine is: in the queue, in the results, at the lock
or nowhere, and that a request goes on after its commit only if its update found
the row. `Lawful` gives the first half of `DecidedOnce`: a row that awaits a
decision was decided no more often than it was put back. The rest is
bookkeeping (`Books`): for each object, what senders were told, plus what the two
coroutines that serve them have under way, is covered by what the connection's
database and the disk hold. How far a request is follows from the statement it
is at: an update that found its row owes a confirmation until the record is
served, and what is served is on disk once any commit is. `Serve` moves one
statement's weight, `Conclude` and the end of the sync move it to what was told,
`Restart` forgets the weights and keeps the disk, and a rollback by SQLite is
the one step that breaks the balance, which is why the property excepts it.
Gaps follow from two facts. No state of a decided task leads back to one that
awaits a decision, so a task has one gap at most (`OneDecision`; it is the reason
why one fault that rolls back two confirmations is covered: they are of two
tasks). And before the first fault or restart every decision has its
confirmation or a coroutine that owes it (`Recorded`).
`ShownIsCurrent` speaks of moments at which everybody is idle. Of the task list
and the notices it speaks only if the last sync was acknowledged, and lets the
panel show a notice that expired since; the dashboard and the count are
published in any case. The invariant
(`Reflected`) says who will put things right at all others. Whoever changed a
row is ahead of a sync, and while nobody is, what the sync under way has fetched
so far is what the database holds (`Shows`); while nobody is to count, the last
count among the results that wait for the event loop is right, which rests on
their order (`Counted`); and what differs from the disk belongs to a coroutine
whose next statement commits it (`Committed`). A fault breaks each of these, for
the queries of a sync that fails are not repeated: hence `sound`. A send that
fails breaks none of them.

`LinkWireProofs`: `TypeCorrect`, `IntactFramesAlwaysArrive`,
`OnlyDamagedFramesMistaken`, `UndisturbedOnlySentFrames`,
`WhatIsSentCanBeReceived`, `OnlyTheDelimiterIsZero`,
for frames of any content up to 1024 bytes of payload, any length of a full block
up to 254, any noise and chunks.

- The codec. The library's induction over the naturals takes an operator, which
  no installed prover can instantiate; `SetInduction` states induction of a set of
  numbers, by the least number that is not in it, and `LoopInvariant` is that for a function that repeats a turn. Two loop
  invariants follow: what `cobs_encode` has written is the zero-free code of
  whole blocks with an unfinished one beside it, and `cobs_decode`, let loose on
  a code, passes these same blocks one by one (`DecodeNextBlock`), so that its
  output is what the encoder had read (`CobsRoundTrip`). The delimiting zero,
  header and checksum add `StuffRoundTrip` and `FrameRoundTrip`. Of the checksum
  only its range matters here: both ends compute the same one.
- The stream. The invariant (`Good`) is about the bytes that were not taken yet,
  in the buffer or on the line, and does not mind where one ends and the other
  begins, so `Read` keeps it by definition. Bytes and dispatched frames are in
  the order of the frames they belong to; a frame that was not damaged is either
  there as a whole, with a delimiter of the frame before it in front or nothing
  at all, and nothing else of its number was dispatched (`OnItsWay`), or it is
  gone and was dispatched once (`HasArrived`). The delimiter in front is what
  makes `Take` find its beginning, and why a disturbed delimiter damages the next
  frame, too. Each kind of disturbance has its lemma on sequences (`LoseGood`,
  `ChangeGood`, `AddGood`, `CutGood`), and each action one that reduces it to that.

`CurrentPanel` (`PanelIsCurrent`) has no run: what it is about needs edges, whose
publishes hold no lock, beside a sync, with retries that repeat an older frame
after a newer one and at least two revisions.

Only model-checked: liveness (fairness and ENABLED are out of the prover's
reach), and `OnlySentFrames` once bytes were disturbed. For arbitrary noise it is
not a theorem: enough changed bytes make another frame whose checksum fits. What
is proved is that nothing else can: when `OnlySentFrames` fails, there is an entry
among the dispatched frames that is mistaken, a frame dispatched twice, as
another, or where none was sent, and its bytes were disturbed
(`OnlyDamagedFramesMistaken`), so the damage never spreads and the read loop by
itself invents nothing (`UndisturbedOnlySentFrames`). TLC shows that two
disturbances of the instance's frames have no such result.

## Where code and documents disagree

The first two have a run whose property states the document, which TLC finds
violated; the others are described here.

1. `PublishedValidIsHonest`: the published `pressure.valid` ignores the age of
   the sample, since `publish_state` calls `build_state` without a clock;
   `docs/gap-analysis-v2.md` wants stale pressure marked invalid. One document
   can say SENSOR_ERROR and `valid`.
2. `HelloGetsSnapshot`: a HELLO's sync fails for good when the read loop spends
   its retries inside a UI action, and nothing repeats it.
3. Announcing a new boot of the node keeps the last sample of the old one, which
   stays valid until it is stale; `domain/pressure.py` 49-50 says valid means
   "from the current boot".
4. The digest of a command covers `sent_at_ms`, `ttl_ms` and `reply_to`, which
   `docs/gap-analysis-v2.md` leaves out of it, so a client that retries with a
   new send time is told of a conflict.
5. `nightshift-ap-start` says "local AP services remain available" when it goes
   on without a station; with a station above 2.4 GHz every such run ends at its
   first check, and the start limit ends them all (`GivesUpForAReason` allows
   for it). The document forbids NAT for the access point's clients and has
   hostapd in the background; the script masquerades, and runs it in the
   foreground.
6. `MqttClient.on_domain_event` translates changes of work state, attention and
   panel connectivity, which the orchestrator never passes to it.
7. `parse_get_info_response` unpacks 14 bytes with a format of 16 and so raises
   for every payload; nothing calls it.
8. After an orderly stop the retained availability still says online
   (`AvailabilityIsHonest` allows for it through `unwilled`), although `client.py`
   230 means to publish the opposite.

Weak spots on which no document says anything are in `PROJECT.json` as hazards,
with a note where no property covers them because the code does exactly that
(a command or an action that is executed again after a restart, for one):
the confirmation count is zero after a restart until somebody decides; a link
that recovers gets only the core frames; a rollback by SQLite undoes the writes
of whoever shares the transaction; and others. Not in that
list: a state payload that is not UTF-8 ends the adapter's session, again and
again if it is retained (`pressure_adapter.py` 196); MQTT and UI handlers stamp
tasks with different clocks, by which `list_recent` orders them
(`command_handler.py` 171); the read loop's buffer grows while no zero byte comes
(`gateway.py` 207); the reconnection backoff is never reset, since a session
ends by an exception (`client.py` 159).

## What is assumed of the surroundings

Marked external in `PROJECT.json`, and taken from how the code uses them:

- Panel: numbers its frames in turn, sends HELLO after booting and acts only
  once it was answered, acknowledges frames it receives, takes a snapshot when
  END follows BEGIN. `send` treats every response as success, whatever its
  status, so the model has one kind of acknowledgement.
- Pressure node: samples of one boot are numbered upwards; none of an old boot
  is sent after a new one, except by the broker's retained message. Payloads
  are UTF-8.
- Broker: keeps the order of a topic, replays retained messages on subscription,
  publishes the will of a session that ends without DISCONNECT, and the old one's
  before a new session of the same client id begins; forgets wills when it is
  restarted, with or without its retained messages.
- Line: changes, loses or adds bytes; never turns one valid frame into another
  whose checksum fits (two disturbances of the instance's frames do not).
- systemd: counts starts in a window that begins with the first; the radio serves
  one channel.
- aiosqlite and SQLite: statements in order of request, results in order of
  execution, a commit durable for a restart of the program (not for a loss of
  power: WAL with `synchronous=NORMAL`).
- `asyncio`: one step at a time, the lock first come, first served.

## What is not modelled

Payloads of frames and contents of documents, the executor (nothing starts it,
so pausing and resuming always change nothing), the mock pressure source,
reading the environment, the contents of events published to MQTT, TLS,
`deploy.sh` and the contract tools. Of the shutdown only what the MQTT client
does is modelled. `TaskService.create`, `complete`, `fail` and `NoticeService.create` have no
caller in the program. `PROJECT.json` lists every component with its status.

## Plan

The order is by how much of the system's behaviour depends on the part.

Done: `PressureModes`, `PanelLink`, `UartSession` with `RecentOnce`, `MqttCommands`
with `OnceOnly`, `Decisions`, `MqttSession`, `AccessPoint`, `LinkWire`.

Their safety properties are proved, but for `OnlySentFrames` with noise. Next, to
model: page events and payload layouts.
