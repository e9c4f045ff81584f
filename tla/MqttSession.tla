---------------------------- MODULE MqttSession ----------------------------
(***************************************************************************)
(* MqttClient's connection to the broker and the two retained messages it   *)
(* keeps there: the availability, which the broker's last will takes back,  *)
(* and the state document, written by whoever changes or synchronises the   *)
(* state (the orchestrator's state listener) and at every connection.       *)
(*                                                                         *)
(* A publish writes to the socket before it awaits anything, so a message   *)
(* is at the broker in the step that publishes it, or never.  The frames a  *)
(* coroutine sends to the panel before it publishes take any time.          *)
(***************************************************************************)
EXTENDS Naturals, FiniteSets

CONSTANTS
    Helpers,   \* coroutines for edges, HELLO syncs and UI actions
    MaxBoots,  \* bound: starts of the program
    MaxRev,    \* bound: revisions of one boot
    MaxLosses, \* bound: losses of the connection, and restarts of the broker
    None       \* Python's None

ASSUME SessionBounds == MaxBoots \in Nat /\ MaxRev \in Nat /\ MaxLosses \in Nat

VARIABLES
    boot,      \* number of starts so far, for MqttClient._boot_id
    client,    \* where _run_loop is; "off" when the program does not run
    link,      \* the connection under aiomqtt.Client: "none", "up", "broken"
    armed,     \* broker: a session is open, its last will not yet published
    retained,  \* broker: availability (a boot id when online) and document;
               \*   writer, a history: the boot that wrote the document
    state,     \* SystemState: rev, panel (panel_online), offline (PANEL_OFFLINE)
    job,       \* coroutine -> what it does next on its way to publishing
    holder,    \* the coroutine that holds the orchestrator's lock, or None
    losses,    \* counts what MaxLosses bounds
    unwilled   \* history: the last session ended without its will

vars == <<boot, client, link, armed, retained, state, job, holder, losses, unwilled>>

broker == <<armed, retained, unwilled>>
session == <<boot, client, link, losses>>
orchestrator == <<state, job, holder>>

Workers == {"evaluate", "mqtt"} \cup Helpers

DocumentType == [rev: 0..MaxRev, panel: BOOLEAN]

ASSUME NoneAssumption ==
    None \notin Workers /\ None \notin 1..MaxBoots /\ None \notin DocumentType

Running == client # "off"

\* self._publisher is not None.
HasPublisher == client \in {"subscribe", "greet", "up", "serve"}

FreshState == [rev |-> 0, panel |-> FALSE, offline |-> FALSE]

NothingRetained == [availability |-> None, document |-> None, writer |-> None]

Init ==
    /\ boot = 0 /\ client = "off" /\ link = "none"
    /\ armed = FALSE /\ retained = NothingRetained
    /\ state = FreshState
    /\ job = [w \in Workers |-> "idle"] /\ holder = None
    /\ losses = 0 /\ unwilled = FALSE

-----------------------------------------------------------------------------
(* Publishing.                                                              *)

\* build_state, of which nothing tells one boot's documents from another's.
Document == [rev |-> state.rev, panel |-> state.panel]

\* publish_state on a connection that is broken raises, and is only logged.
PublishState ==
    retained' = IF HasPublisher /\ link = "up"
                THEN [retained EXCEPT !.document = Document, !.writer = boot] ELSE retained

-----------------------------------------------------------------------------
(* The program starts and ends.                                             *)

\* A boot id is drawn and the state starts again, at revision 0; the messages
\* retained for an earlier boot stay until the new one connects.
Start ==
    /\ client = "off" /\ boot < MaxBoots
    /\ boot' = boot + 1
    /\ client' = "down"
    /\ state' = FreshState
    /\ UNCHANGED <<link, losses, job, holder, broker>>

End ==
    /\ client' = "off" /\ link' = "none"
    /\ job' = [w \in Workers |-> "idle"] /\ holder' = None
    /\ UNCHANGED <<boot, losses, state, retained>>

\* Killed or failed: the broker is left to notice.
Crash == Running /\ End /\ UNCHANGED <<armed, unwilled>>

\* stop() cancels the task at once, so the availability that follows the loop
\* is never published; leaving the client's context says DISCONNECT to the
\* broker, which makes it drop the will.
Stop ==
    /\ Running /\ End
    /\ IF link = "up" THEN armed' = FALSE /\ unwilled' = TRUE
                      ELSE UNCHANGED <<armed, unwilled>>

-----------------------------------------------------------------------------
(* _run_loop and _connect_and_run.                                          *)

\* Mutant: the client connects without a will.
ConnectWithoutWill ==
    /\ client = "down"
    /\ client' = "subscribe" /\ link' = "up"
    /\ armed' = FALSE /\ unwilled' = FALSE
    /\ retained' = [retained EXCEPT !.availability = IF armed THEN None ELSE @]
    /\ UNCHANGED <<boot, losses, orchestrator>>

\* The broker takes the client: it ends an older session of the same client
\* id first, with its will.  Then the publisher is set, and the subscription
\* awaited.
Connect ==
    /\ client = "down"
    /\ client' = "subscribe" /\ link' = "up"
    /\ armed' = TRUE /\ unwilled' = FALSE
    /\ retained' = [retained EXCEPT !.availability = IF armed THEN None ELSE @]
    /\ UNCHANGED <<boot, losses, orchestrator>>

Greet ==
    /\ client = "subscribe" /\ link = "up"
    /\ client' = "greet"
    /\ retained' = [retained EXCEPT !.availability = boot]
    /\ UNCHANGED <<boot, link, losses, armed, unwilled, orchestrator>>

\* Mutant: only the listener publishes the state, not a new connection.
ReportNothing ==
    /\ client = "greet" /\ link = "up"
    /\ client' = "up"
    /\ UNCHANGED <<boot, link, losses, broker, orchestrator>>

\* The current state, for whatever was published while there was no session.
Report ==
    /\ client = "greet" /\ link = "up"
    /\ client' = "up"
    /\ PublishState
    /\ UNCHANGED <<boot, link, losses, armed, unwilled, orchestrator>>

\* Mutant: the loop goes on waiting for messages of the lost connection.
NoticeNothing ==
    /\ client \in {"subscribe", "greet", "up"} /\ link # "up"
    /\ UNCHANGED vars

\* The exception of a lost connection: no publisher until the next one, which
\* is tried after the backoff.  A command that is being handled is handled to
\* its end first.
NoticeLoss ==
    /\ client \in {"subscribe", "greet", "up"} /\ link # "up"
    /\ client' = "down"
    /\ UNCHANGED <<boot, link, losses, broker, orchestrator>>

\* _handle_message, when its command asks for a change or a sync: one message
\* at a time.  Its reply is MqttCommands' subject.
HandlerDone ==
    /\ client = "serve" /\ job["mqtt"] = "idle"
    /\ client' = "up"
    /\ UNCHANGED <<boot, link, losses, broker, orchestrator>>

-----------------------------------------------------------------------------
(* NightshiftOrchestrator: whoever changes the state, publishes it.         *)

NextRev == [state EXCEPT !.rev = @ + 1]

\* _evaluate_and_apply found a change: it publishes events, sends the core
\* frames and publishes the document, all under the lock.
Evaluate ==
    /\ Running /\ job["evaluate"] = "idle" /\ holder = None /\ state.rev < MaxRev
    /\ state' = NextRev
    /\ holder' = "evaluate"
    /\ job' = [job EXCEPT !["evaluate"] = "event"]
    /\ UNCHANGED <<session, broker>>

\* PressureChanged or ModeChanged through on_domain_event: not retained, and
\* lost where there is no publisher.
SendEvent(w) ==
    /\ job[w] = "event"
    /\ job' = [job EXCEPT ![w] = "frames"]
    /\ UNCHANGED <<session, broker, state, holder>>

\* A UI action or a command: pause and resume change the state and publish it
\* without the lock, the others run a full sync, a resync without a change.
Operate(w) ==
    /\ Running /\ job[w] = "idle"
    /\ \/ state.rev < MaxRev /\ state' = NextRev
          /\ \E next \in {"lock", "frames"} : job' = [job EXCEPT ![w] = next]
       \/ state' = state /\ job' = [job EXCEPT ![w] = "lock"]
    /\ UNCHANGED <<boot, link, losses, broker, holder>>

Action(w) == Operate(w) /\ UNCHANGED client

HandleMessage ==
    /\ client = "up" /\ link = "up"
    /\ client' = "serve"
    /\ Operate("mqtt")

Acquire(w) ==
    /\ job[w] = "lock" /\ holder = None
    /\ holder' = w
    /\ job' = [job EXCEPT ![w] = "frames"]
    /\ UNCHANGED <<session, broker, state>>

\* Mutant: the coroutine does not give the lock back.
PublishKeepsLock(w) ==
    /\ job[w] = "frames"
    /\ PublishState
    /\ job' = [job EXCEPT ![w] = "idle"]
    /\ UNCHANGED <<session, armed, unwilled, state, holder>>

\* _notify_state_listeners with the state as it is once the frames are sent.
Publish(w) ==
    /\ job[w] = "frames"
    /\ PublishState
    /\ job' = [job EXCEPT ![w] = "idle"]
    /\ holder' = IF holder = w THEN None ELSE holder
    /\ UNCHANGED <<session, armed, unwilled, state>>

\* PanelConnectivityChanged: PANEL_OFFLINE follows the edge, and a coroutine
\* of its own publishes the change, without the lock.  An edge that does not
\* change the attention is the first one online: nothing is published.
Edge(on, w, jobs) ==
    LET changed == state.offline = on IN
        /\ Running /\ state.panel # on
        /\ changed => state.rev < MaxRev /\ jobs[w] = "idle"
        /\ state' = [rev |-> IF changed THEN state.rev + 1 ELSE state.rev,
                     panel |-> on, offline |-> ~on]
        /\ job' = IF changed THEN [jobs EXCEPT ![w] = "frames"] ELSE jobs
        /\ UNCHANGED <<session, broker, holder>>

ConnectivityChanged(on, w) == Edge(on, w, job)

\* A HELLO of a panel that booted starts a full sync and reports the edge in
\* one step; without an edge it is a resync, an Action.
Hello(v, w) == job[v] = "idle" /\ Edge(TRUE, w, [job EXCEPT ![v] = "lock"])

-----------------------------------------------------------------------------
(* The network and the broker (external).                                   *)

Lose ==
    /\ link = "up" /\ losses < MaxLosses
    /\ losses' = losses + 1
    /\ link' = "broken"
    /\ UNCHANGED <<boot, client, broker, orchestrator>>

\* The broker finds that a connection is gone that never said DISCONNECT.
WillFires ==
    /\ armed /\ link # "up"
    /\ armed' = FALSE
    /\ retained' = [retained EXCEPT !.availability = None]
    /\ UNCHANGED <<session, orchestrator, unwilled>>

\* With or without its retained messages; the wills are gone.
BrokerRestart ==
    /\ losses < MaxLosses
    /\ losses' = losses + 1
    /\ link' = IF link = "up" THEN "broken" ELSE link
    /\ armed' = FALSE /\ unwilled' = TRUE
    /\ \/ retained' = NothingRetained
       \/ UNCHANGED retained
    /\ UNCHANGED <<boot, client, orchestrator>>

-----------------------------------------------------------------------------
RunLoop == Connect \/ Greet \/ Report \/ NoticeLoss \/ HandlerDone

Worker(w) == Acquire(w) \/ SendEvent(w) \/ Publish(w)

Changes ==
    \/ Evaluate \/ HandleMessage
    \/ \E w \in Helpers : \/ Action(w)
                          \/ \E on \in BOOLEAN : ConnectivityChanged(on, w)
                          \/ \E v \in Helpers : Hello(v, w)

Next ==
    \/ Start \/ Crash \/ Stop
    \/ RunLoop \/ Changes
    \/ \E w \in Workers : Worker(w)
    \/ Lose \/ WillFires \/ BrokerRestart

Spec == Init /\ [][Next]_vars

\* The event loop runs, every send to the panel ends, the broker takes a
\* connection that is tried again and again, and notices one that is gone.
FairSpec ==
    /\ Spec
    /\ WF_vars(RunLoop) /\ WF_vars(WillFires)
    /\ \A w \in Workers : WF_vars(SendEvent(w) \/ Publish(w)) /\ SF_vars(Acquire(w))

-----------------------------------------------------------------------------
(* Properties.                                                              *)

\* Every variable has its type, and the lock is held by somebody at work.
TypeOK ==
    /\ boot \in 0..MaxBoots
    /\ client \in {"off", "down", "subscribe", "greet", "up", "serve"}
    /\ link \in {"none", "up", "broken"}
    /\ armed \in BOOLEAN /\ unwilled \in BOOLEAN
    /\ retained \in [availability: 1..MaxBoots \cup {None},
                     document: DocumentType \cup {None},
                     writer: 1..MaxBoots \cup {None}]
    /\ state \in [rev: 0..MaxRev, panel: BOOLEAN, offline: BOOLEAN]
    /\ job \in [Workers -> {"idle", "lock", "event", "frames"}]
    /\ holder \in Workers \cup {None}
    /\ holder # None => job[holder] \in {"event", "frames"}
    /\ losses \in 0..MaxLosses

Settled == client \in {"up", "serve"} /\ link = "up"

\* client.py 217, orchestrator.py 279: once a session is set up and no
\* coroutine is on its way to publishing, the retained document was written by
\* this boot, not left by an earlier one, and its revision is the current one,
\* whatever was changed before, during and after the connection was lost.  Its panel block may be wrong in one
\* way only: it says offline after the first online edge.
DocumentIsCurrent ==
    Settled /\ (\A w \in Workers : job[w] = "idle")
        => /\ retained.document # None
           /\ retained.writer = boot /\ retained.document.rev = state.rev
           /\ retained.document.panel => state.panel

\* client.py 194: while a session is set up the availability is that of this
\* boot, and without a session it says online only if the session ended in a
\* way that costs it its will: a stop of the program, a restart of the broker.
AvailabilityIsHonest ==
    /\ Settled => retained.availability = boot
    /\ retained.availability # None => armed \/ unwilled

\* Once losses have ended, the client of a running program has a session with
\* its availability and current revision published, and keeps it.
Recovers ==
    <>[](Running => /\ Settled /\ retained.availability = boot
                    /\ retained.document # None
                    /\ retained.writer = boot
                    /\ retained.document.rev = state.rev)
=============================================================================
