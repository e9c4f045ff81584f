------------------------- MODULE MqttSessionProofs -------------------------
(* Proofs about MqttSession, for any helpers and bounds.                    *)
EXTENDS MqttSession, TLAPS

-----------------------------------------------------------------------------
(* Type correctness.  A program that runs has a boot id.                    *)

Booted == client # "off" => boot # 0

RetainedType == [availability: 1..MaxBoots \cup {None}, document: DocumentType \cup {None},
                 writer: 1..MaxBoots \cup {None}]

LEMMA DocumentTyped ==
    ASSUME TypeOK
    PROVE  Document \in DocumentType /\ Document # None
BY NoneAssumption, SessionBounds DEF TypeOK, Document, DocumentType

LEMMA PublishStateTyped ==
    ASSUME TypeOK, Booted, PublishState
    PROVE  retained' \in RetainedType
<1>1. HasPublisher => boot # 0
  BY DEF HasPublisher, Booted
<1>2. boot # 0 => boot \in 1..MaxBoots
  BY SessionBounds DEF TypeOK
<1> QED BY <1>1, <1>2, DocumentTyped DEF PublishState, TypeOK, RetainedType

TypeInv == TypeOK /\ Booted

LEMMA FreshStateTyped == FreshState \in [rev: 0..MaxRev, panel: BOOLEAN, offline: BOOLEAN]
BY SessionBounds DEF FreshState

LEMMA InitTypeInv == Init => TypeInv
<1> SUFFICES ASSUME Init PROVE TypeInv
  OBVIOUS
<1>1. boot \in 0..MaxBoots /\ losses \in 0..MaxLosses
  BY SessionBounds DEF Init
<1>2. retained \in RetainedType
  BY DEF Init, NothingRetained, RetainedType
<1> QED BY <1>1, <1>2, FreshStateTyped DEF Init, TypeInv, TypeOK, Booted, RetainedType

LEMMA NextTypeInv == TypeInv /\ [Next]_vars => TypeInv'
<1> SUFFICES ASSUME TypeInv, [Next]_vars PROVE TypeInv'
  OBVIOUS
<1>0. TypeOK /\ Booted
  BY DEF TypeInv
<1> USE <1>0, SessionBounds, NoneAssumption DEF TypeInv, Booted
<1>1. CASE UNCHANGED vars
  BY <1>1 DEF vars, TypeOK
<1>2. CASE Start
  <2>1. boot' \in 0..MaxBoots /\ boot' # 0
    BY <1>2 DEF Start, TypeOK
  <2> QED BY <1>2, <2>1, FreshStateTyped DEF Start, broker, TypeOK
<1>3. ASSUME End, armed' \in BOOLEAN, unwilled' \in BOOLEAN PROVE TypeInv'
  BY <1>3 DEF End, TypeOK
<1>8. CASE Crash
  BY <1>3, <1>8 DEF Crash, TypeOK
<1>9. CASE Stop
  BY <1>3, <1>9 DEF Stop, TypeOK
<1>4. CASE RunLoop
  <2>1. CASE Connect
    BY <2>1 DEF Connect, orchestrator, TypeOK
  <2>2. CASE Greet
    <3>1. boot \in 1..MaxBoots
      BY <2>2 DEF Greet, TypeOK
    <3> QED BY <2>2, <3>1 DEF Greet, orchestrator, TypeOK
  <2>3. CASE Report
    BY <2>3, PublishStateTyped DEF Report, orchestrator, TypeOK, RetainedType
  <2>4. CASE NoticeLoss \/ HandlerDone
    BY <2>4 DEF NoticeLoss, HandlerDone, orchestrator, broker, TypeOK
  <2> QED BY <1>4, <2>1, <2>2, <2>3, <2>4 DEF RunLoop
<1>5. CASE Changes
  <2>1. "evaluate" \in Workers /\ "mqtt" \in Workers /\ Helpers \subseteq Workers
    BY DEF Workers
  <2>2. CASE Evaluate
    BY <2>1, <2>2 DEF Evaluate, NextRev, session, broker, TypeOK
  <2>3. ASSUME NEW w \in Workers, Operate(w), client' \in {client, "serve"},
               client' = client \/ client = "up", UNCHANGED <<armed, unwilled>>
        PROVE  TypeInv'
    BY <2>3 DEF Operate, NextRev, broker, TypeOK
  <2>4. CASE HandleMessage
    BY <2>1, <2>3, <2>4 DEF HandleMessage, Operate, broker
  <2>5. ASSUME NEW w \in Helpers, Action(w) PROVE TypeInv'
    BY <2>1, <2>3, <2>5 DEF Action, Operate, broker
  <2>6. ASSUME NEW on \in BOOLEAN, NEW w \in Workers, NEW jobs, Edge(on, w, jobs),
               jobs \in [Workers -> {"idle", "lock", "event", "frames"}],
               holder # None => jobs[holder] \in {"event", "frames"}
        PROVE  TypeInv'
    BY <2>6 DEF Edge, session, broker, TypeOK
  <2>7. ASSUME NEW on \in BOOLEAN, NEW w \in Helpers, ConnectivityChanged(on, w)
        PROVE  TypeInv'
    BY <2>1, <2>6, <2>7 DEF ConnectivityChanged, TypeOK
  <2>8. ASSUME NEW v \in Helpers, NEW w \in Helpers, Hello(v, w) PROVE TypeInv'
    <3> DEFINE jobs == [job EXCEPT ![v] = "lock"]
    <3>1. jobs \in [Workers -> {"idle", "lock", "event", "frames"}]
      BY <2>1 DEF TypeOK
    <3>2. holder # None => jobs[holder] \in {"event", "frames"}
      BY <2>1, <2>8 DEF Hello, TypeOK
    <3>3. Edge(TRUE, w, jobs)
      BY <2>8 DEF Hello
    <3> HIDE DEF jobs
    <3> QED BY <2>1, <2>6, <3>1, <3>2, <3>3
  <2> QED BY <1>5, <2>2, <2>4, <2>5, <2>7, <2>8 DEF Changes
<1>6. ASSUME NEW w \in Workers, Worker(w) PROVE TypeInv'
  <2>1. CASE Acquire(w)
    BY <1>6, <2>1 DEF Acquire, session, broker, TypeOK
  <2>2. CASE SendEvent(w)
    BY <1>6, <2>2 DEF SendEvent, session, broker, TypeOK
  <2>3. CASE Publish(w)
    <3>1. retained' \in RetainedType
      BY <2>3, PublishStateTyped DEF Publish
    <3>2. job' \in [Workers -> {"idle", "lock", "event", "frames"}]
      BY <2>3 DEF Publish, TypeOK
    <3>3. holder' \in Workers \cup {None}
          /\ (holder' # None => job'[holder'] \in {"event", "frames"})
      BY <1>6, <2>3 DEF Publish, TypeOK
    <3> QED BY <2>3, <3>1, <3>2, <3>3 DEF Publish, session, TypeOK, RetainedType
  <2> QED BY <1>6, <2>1, <2>2, <2>3 DEF Worker
<1>7. CASE Lose \/ WillFires \/ BrokerRestart
  <2>1. CASE Lose
    BY <2>1 DEF Lose, orchestrator, broker, TypeOK
  <2>2. CASE WillFires
    BY <2>2 DEF WillFires, session, orchestrator, TypeOK
  <2>3. CASE BrokerRestart
    <3>1. retained' \in RetainedType
      BY <2>3 DEF BrokerRestart, NothingRetained, TypeOK, RetainedType
    <3>2. losses' \in 0..MaxLosses
      BY <2>3 DEF BrokerRestart, TypeOK
    <3>3. link' \in {"none", "up", "broken"}
      BY <2>3 DEF BrokerRestart, TypeOK
    <3>4. UNCHANGED <<boot, client, state, job, holder>>
          /\ armed' \in BOOLEAN /\ unwilled' \in BOOLEAN
      BY <2>3 DEF BrokerRestart, orchestrator
    <3> QED BY <3>1, <3>2, <3>3, <3>4 DEF TypeOK, RetainedType
  <2> QED BY <1>7, <2>1, <2>2, <2>3
<1> QED BY <1>1, <1>2, <1>4, <1>5, <1>6, <1>7, <1>8, <1>9 DEF Next

\* The lock of the orchestrator is never left to a coroutine that is done,
\* and every retained message is of a boot that was.
THEOREM TypeCorrect == Spec => []TypeOK
<1>1. TypeInv => TypeOK
  BY DEF TypeInv
<1> QED BY <1>1, InitTypeInv, NextTypeInv, PTL DEF Spec

-----------------------------------------------------------------------------
(* The availability: a session that is up has its will, and nothing but a   *)
(* will takes back what was said when it was set up.                        *)

Armed ==
    /\ client \in {"off", "down"} => link # "up"
    /\ link = "up" => armed
    /\ client \in {"greet", "up", "serve"} /\ link = "up" => retained.availability = boot
    /\ retained.availability # None => armed \/ unwilled

LEMMA PublishStateKeepsAvailability ==
    TypeOK /\ PublishState => retained'.availability = retained.availability
BY DEF PublishState, TypeOK

LEMMA InitArmed == Init => Armed
BY DEF Init, NothingRetained, Armed

LEMMA NextArmed == TypeOK /\ Armed /\ [Next]_vars => Armed'
<1> SUFFICES ASSUME TypeOK, Armed, [Next]_vars PROVE Armed'
  OBVIOUS
<1>0. retained \in RetainedType
  BY DEF TypeOK, RetainedType
<1> USE DEF Armed
<1>1. CASE UNCHANGED vars
  BY <1>1 DEF vars
<1>2. CASE Start
  BY <1>2 DEF Start, broker
<1>3. CASE Crash
  BY <1>3 DEF Crash, End, Running
<1>4. CASE Stop
  BY <1>4 DEF Stop, End, Running
<1>5. CASE RunLoop
  <2>1. CASE Connect
    BY <2>1 DEF Connect
  <2>2. CASE Greet
    BY <1>0, <2>2 DEF Greet, RetainedType
  <2>3. CASE Report
    BY <2>3, PublishStateKeepsAvailability DEF Report
  <2>4. CASE NoticeLoss
    BY <2>4 DEF NoticeLoss, broker
  <2>5. CASE HandlerDone
    BY <2>5 DEF HandlerDone, broker
  <2> QED BY <1>5, <2>1, <2>2, <2>3, <2>4, <2>5 DEF RunLoop
<1>6. CASE Changes
  <2>1. CASE Evaluate
    BY <2>1 DEF Evaluate, session, broker
  <2>2. CASE HandleMessage
    BY <2>2 DEF HandleMessage, Operate, broker
  <2>3. ASSUME NEW w \in Helpers, Action(w) PROVE Armed'
    BY <2>3 DEF Action, Operate, broker
  <2>4. ASSUME NEW on \in BOOLEAN, NEW w \in Helpers, ConnectivityChanged(on, w)
        PROVE  Armed'
    BY <2>4 DEF ConnectivityChanged, Edge, session, broker
  <2>5. ASSUME NEW v \in Helpers, NEW w \in Helpers, Hello(v, w) PROVE Armed'
    BY <2>5 DEF Hello, Edge, session, broker
  <2> QED BY <1>6, <2>1, <2>2, <2>3, <2>4, <2>5 DEF Changes
<1>7. ASSUME NEW w \in Workers, Worker(w) PROVE Armed'
  <2>1. CASE Acquire(w) \/ SendEvent(w)
    BY <2>1 DEF Acquire, SendEvent, session, broker
  <2>2. CASE Publish(w)
    BY <2>2, PublishStateKeepsAvailability DEF Publish, session
  <2> QED BY <1>7, <2>1, <2>2 DEF Worker
<1>8. CASE Lose
  BY <1>8 DEF Lose, broker
<1>9. CASE WillFires
  BY <1>0, <1>9 DEF WillFires, session, RetainedType
<1>10. CASE BrokerRestart
  BY <1>10 DEF BrokerRestart, NothingRetained
<1> QED BY <1>1, <1>2, <1>3, <1>4, <1>5, <1>6, <1>7, <1>8, <1>9, <1>10 DEF Next

\* However sessions end and begin, the broker never says online for a program
\* without a session, unless the session ended in a way that drops its will.
THEOREM HonestAvailability == Spec => []AvailabilityIsHonest
<1>1. Armed => AvailabilityIsHonest
  BY DEF Armed, AvailabilityIsHonest, Settled
<1>2. TypeInv => TypeOK
  BY DEF TypeInv
<1> QED BY <1>1, <1>2, InitTypeInv, NextTypeInv, InitArmed, NextArmed, PTL DEF Spec

-----------------------------------------------------------------------------
(* The document: who changes the state is on the way to publishing it.      *)

AllIdle == \A w \in Workers : job[w] = "idle"

Current ==
    /\ state.panel => ~state.offline
    /\ Settled => retained.document # None /\ retained.writer = boot
    /\ Settled /\ AllIdle => /\ retained.document.rev = state.rev
                             /\ retained.document.panel => state.panel

LEMMA PublishStateIsCurrent ==
    ASSUME TypeOK, HasPublisher, link = "up", PublishState
    PROVE  /\ retained'.document = Document /\ retained'.document # None
           /\ retained'.writer = boot /\ Document.rev = state.rev
           /\ Document.panel = state.panel
<1>1. retained'.document = Document /\ retained'.writer = boot
  BY DEF PublishState, TypeOK
<1> QED BY <1>1, DocumentTyped DEF Document

LEMMA InitCurrent == Init => Current
BY DEF Init, Current, Settled, FreshState

LEMMA NextCurrent == TypeInv /\ Current /\ [Next]_vars => Current'
<1> SUFFICES ASSUME TypeInv, Current, [Next]_vars PROVE Current'
  OBVIOUS
<1>0. TypeOK /\ Booted
  BY DEF TypeInv
<1>j. job \in [Workers -> {"idle", "lock", "event", "frames"}]
      /\ retained \in RetainedType
  BY <1>0 DEF TypeOK, RetainedType
<1>w. "evaluate" \in Workers /\ "mqtt" \in Workers /\ Helpers \subseteq Workers
  BY DEF Workers
<1>s. state \in [rev: 0..MaxRev, panel: BOOLEAN, offline: BOOLEAN]
  BY <1>0 DEF TypeOK
<1> USE DEF Current, Settled
<1>1. CASE UNCHANGED vars
  BY <1>1 DEF vars, AllIdle
<1>2. CASE Start
  BY <1>2 DEF Start, FreshState
<1>3. CASE Crash \/ Stop
  BY <1>3 DEF Crash, Stop, End
<1>4. CASE RunLoop
  <2>1. CASE Connect
    BY <2>1 DEF Connect, orchestrator
  <2>2. CASE Greet
    BY <2>2 DEF Greet, orchestrator
  <2>3. CASE Report
    <3>1. HasPublisher /\ link = "up" /\ PublishState
      BY <2>3 DEF Report, HasPublisher
    <3> QED BY <1>0, <2>3, <3>1, PublishStateIsCurrent DEF Report, orchestrator
  <2>4. CASE NoticeLoss
    BY <2>4 DEF NoticeLoss, orchestrator
  <2>5. CASE HandlerDone
    BY <2>5 DEF HandlerDone, broker, orchestrator, AllIdle
  <2> QED BY <1>4, <2>1, <2>2, <2>3, <2>4, <2>5 DEF RunLoop
<1>5. ASSUME UNCHANGED <<boot, link, retained>>, Settled' => Settled,
             state'.panel => ~state'.offline,
             NEW w \in Workers, job'[w] # "idle"
      PROVE  Current'
  BY <1>5 DEF AllIdle
<1>6. CASE Changes
  <2>1. CASE Evaluate
    <3>1. state'.panel = state.panel /\ state'.offline = state.offline
      BY <1>s, <2>1 DEF Evaluate, NextRev
    <3>2. job'["evaluate"] # "idle"
      BY <1>j, <1>w, <2>1 DEF Evaluate
    <3> QED BY <1>5, <1>w, <2>1, <3>1, <3>2 DEF Evaluate, session, broker
  <2>2. ASSUME NEW w \in Workers, Operate(w), Settled' => Settled PROVE Current'
    <3>1. state'.panel = state.panel /\ state'.offline = state.offline
      BY <1>s, <2>2 DEF Operate, NextRev
    <3>2. job'[w] # "idle"
      BY <1>j, <2>2 DEF Operate
    <3> QED BY <1>5, <2>2, <3>1, <3>2 DEF Operate, broker
  <2>3. CASE HandleMessage
    BY <1>w, <2>2, <2>3 DEF HandleMessage
  <2>4. ASSUME NEW w \in Helpers, Action(w) PROVE Current'
    <3>1. Settled' => Settled
      BY <2>4 DEF Action, Operate
    <3> QED BY <1>w, <2>2, <2>4, <3>1 DEF Action
  <2>5. ASSUME NEW on \in BOOLEAN, NEW w \in Workers,
               NEW jobs \in [Workers -> {"idle", "lock", "event", "frames"}],
               Edge(on, w, jobs), jobs = job \/ \E v \in Workers : jobs[v] = "lock"
        PROVE  Current'
    <3>1. state'.panel = on /\ state'.offline = ~on
      BY <2>5 DEF Edge
    <3>2. Settled' => Settled
      BY <2>5 DEF Edge, session
    <3>3. UNCHANGED <<boot, link, retained, client>>
      BY <2>5 DEF Edge, session, broker
    <3>4. CASE state.offline = on
      <4>1. job'[w] # "idle"
        BY <2>5, <3>4 DEF Edge
      <4> QED BY <1>5, <3>1, <3>2, <3>3, <4>1
    <3>5. CASE state.offline # on
      <4>1. job' = jobs /\ state'.rev = state.rev /\ state.panel # on
        BY <2>5, <3>5 DEF Edge
      <4>2. on = TRUE
        BY <1>s, <3>5, <4>1
      <4>3. CASE jobs = job
        BY <3>1, <3>3, <4>1, <4>2, <4>3 DEF AllIdle
      <4>4. ASSUME NEW v \in Workers, jobs[v] = "lock" PROVE Current'
        <5>1. job'[v] # "idle"
          BY <4>1, <4>4
        <5> QED BY <1>5, <3>1, <3>2, <3>3, <5>1
      <4> QED BY <2>5, <4>3, <4>4
    <3> QED BY <3>4, <3>5
  <2>6. ASSUME NEW on \in BOOLEAN, NEW w \in Helpers, ConnectivityChanged(on, w)
        PROVE  Current'
    BY <1>j, <1>w, <2>5, <2>6 DEF ConnectivityChanged
  <2>7. ASSUME NEW v \in Helpers, NEW w \in Helpers, Hello(v, w) PROVE Current'
    <3> DEFINE jobs == [job EXCEPT ![v] = "lock"]
    <3>1. jobs \in [Workers -> {"idle", "lock", "event", "frames"}] /\ jobs[v] = "lock"
      BY <1>j, <1>w
    <3>2. Edge(TRUE, w, jobs)
      BY <2>7 DEF Hello
    <3> HIDE DEF jobs
    <3> QED BY <1>w, <2>5, <3>1, <3>2
  <2> QED BY <1>6, <2>1, <2>3, <2>4, <2>6, <2>7 DEF Changes
<1>7. ASSUME NEW w \in Workers, Worker(w) PROVE Current'
  <2>1. CASE Acquire(w)
    <3>1. job'[w] # "idle"
      BY <1>j, <2>1 DEF Acquire
    <3> QED BY <1>5, <2>1, <3>1 DEF Acquire, session, broker
  <2>2. CASE SendEvent(w)
    <3>1. job'[w] # "idle"
      BY <1>j, <2>2 DEF SendEvent
    <3> QED BY <1>5, <2>2, <3>1 DEF SendEvent, session, broker
  <2>3. CASE Publish(w)
    <3>1. ASSUME Settled PROVE Current'
      <4>1. HasPublisher /\ link = "up" /\ PublishState
        BY <2>3, <3>1 DEF Publish, HasPublisher
      <4> QED BY <1>0, <2>3, <4>1, PublishStateIsCurrent DEF Publish, session
    <3>2. CASE ~Settled
      BY <2>3, <3>2 DEF Publish, session
    <3> QED BY <3>1, <3>2
  <2> QED BY <1>7, <2>1, <2>2, <2>3 DEF Worker
<1>8. CASE Lose
  BY <1>8 DEF Lose, orchestrator
<1>9. CASE WillFires
  BY <1>9 DEF WillFires, session, orchestrator
<1>10. CASE BrokerRestart
  BY <1>10 DEF BrokerRestart, orchestrator
<1> QED BY <1>1, <1>2, <1>3, <1>4, <1>6, <1>7, <1>8, <1>9, <1>10 DEF Next

\* When nobody is on the way to publishing, a session that is set up has
\* published what the program knows.
THEOREM CurrentDocument == Spec => []DocumentIsCurrent
<1>1. Current => DocumentIsCurrent
  BY DEF Current, DocumentIsCurrent, AllIdle
<1> QED BY <1>1, InitTypeInv, NextTypeInv, InitCurrent, NextCurrent, PTL DEF Spec

=============================================================================
