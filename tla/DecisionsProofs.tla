-------------------------- MODULE DecisionsProofs --------------------------
(* Proofs about Decisions, for any tasks and notices and any number of      *)
(* requests, faults and restarts.                                           *)
EXTENDS Decisions, SequenceTheorems, FiniteSetTheorems, TLAPS

-----------------------------------------------------------------------------
(* Sequences without repetitions.                                           *)

LEMMA OnceAppended ==
    ASSUME NEW S, NEW s \in Seq(S), NEW e \in S, Once(s), e \notin Elems(s)
    PROVE  /\ Append(s, e) \in Seq(S) /\ Once(Append(s, e))
           /\ Elems(Append(s, e)) = Elems(s) \cup {e}
           /\ s # <<>> => Head(Append(s, e)) = Head(s)
           /\ s = <<>> => Head(Append(s, e)) = e
<1> DEFINE t == Append(s, e)
<1>1. /\ t \in Seq(S) /\ Len(t) = Len(s) + 1
      /\ \A i \in 1..Len(s) : t[i] = s[i]
      /\ t[Len(s) + 1] = e
  BY AppendProperties
<1>2. DOMAIN t = 1..(Len(s) + 1) /\ DOMAIN s = 1..Len(s) /\ Len(s) \in Nat
  BY <1>1, LenProperties
<1>3. Head(t) = t[1] /\ Head(s) = s[1]
  OBVIOUS
<1> HIDE DEF t
<1>4. 1..(Len(s) + 1) = (1..Len(s)) \cup {Len(s) + 1}
  BY <1>2
<1>5. Elems(t) = Elems(s) \cup {e}
  BY <1>1, <1>2, <1>4 DEF Elems
<1>6. Once(t)
  BY <1>1, <1>2, <1>4 DEF Once, Elems
<1>7. s # <<>> => 1 \in 1..Len(s)
  BY <1>2, EmptySeq
<1>8. s # <<>> => Head(t) = Head(s)
  BY <1>1, <1>3, <1>7
<1>9. s = <<>> => Head(t) = e
  BY <1>1, <1>3
<1> QED BY <1>1, <1>5, <1>6, <1>8, <1>9 DEF t

LEMMA OnceRemoved ==
    ASSUME NEW S, NEW s \in Seq(S), s # <<>>, Once(s)
    PROVE  /\ Tail(s) \in Seq(S) /\ Once(Tail(s)) /\ Head(s) \in S
           /\ Elems(Tail(s)) = Elems(s) \ {Head(s)}
           /\ Head(s) \in Elems(s)
<1> DEFINE t == Tail(s)
<1>1. /\ t \in Seq(S) /\ Len(t) = Len(s) - 1 /\ Head(s) \in S
      /\ \A i \in 1..Len(t) : t[i] = s[i + 1]
  BY HeadTailProperties
<1>2. DOMAIN t = 1..Len(t) /\ DOMAIN s = 1..Len(s) /\ Len(s) \in Nat /\ Len(t) \in Nat
  BY <1>1, LenProperties
<1>3. Head(s) = s[1]
  OBVIOUS
<1> HIDE DEF t
<1>4. 1 \in DOMAIN s /\ \A i \in DOMAIN s : i # 1 => i - 1 \in DOMAIN t /\ s[i] = t[i - 1]
  BY <1>1, <1>2, EmptySeq
<1>5. \A i \in DOMAIN t : i + 1 \in DOMAIN s /\ i + 1 # 1 /\ t[i] = s[i + 1]
  BY <1>1, <1>2
<1>6. Once(t)
  <2> SUFFICES ASSUME NEW i \in DOMAIN t, NEW j \in DOMAIN t, t[i] = t[j] PROVE i = j
    BY DEF Once
  <2>1. i + 1 = j + 1
    BY <1>5 DEF Once
  <2> QED BY <1>2, <2>1
<1>7. \A i \in DOMAIN t : t[i] \in Elems(s) /\ t[i] # Head(s)
  BY <1>3, <1>4, <1>5 DEF Elems, Once
<1>8. \A i \in DOMAIN s : s[i] # Head(s) => s[i] \in Elems(t)
  BY <1>3, <1>4 DEF Elems
<1>9. Elems(t) = Elems(s) \ {Head(s)} /\ Head(s) \in Elems(s)
  BY <1>3, <1>4, <1>7, <1>8 DEF Elems
<1> QED BY <1>1, <1>6, <1>9 DEF t

LEMMA NothingInEmpty == Elems(<<>>) = {} /\ Once(<<>>)
BY DEF Elems, Once

LEMMA OneInSingleton == \A c : /\ <<c>> # <<>> /\ Elems(<<c>>) = {c} /\ Once(<<c>>)
                               /\ Head(<<c>>) = c
BY DEF Elems, Once

LEMMA CountTyped == \A S : S \subseteq Tasks => Cardinality(S) \in 0..Cardinality(Tasks)
BY FS_Subset, FS_CardinalityType, ObjectsAssumption

-----------------------------------------------------------------------------
(* Types.                                                                   *)

Ops == Decisions \cup {"retry", "dismiss"}

\* The statements of a request.
Statements(op) ==
    {"update", "commit", "get"}
        \cup (IF op \in Decisions THEN {"record", "save", "count"} ELSE {})
        \cup (IF op = "retry" THEN {"count"} ELSE {})

Queries == {"list", "dashboard", "notice"}

Places == {"update", "commit", "get", "record", "save", "count",
           "list", "dashboard", "notice", "raise", "none"}

DashboardType == [open: Nat, completed: Nat, failed: Nat]

JobType == [phase: {"idle", "services", "lock", "sync", "send"},
            op: Ops \cup {"resync", "none"}, object: Objects \cup {"none"}, at: Places,
            hit: BOOLEAN, count: 0..Cardinality(Tasks), dashboard: DashboardType,
            tasks: [Tasks -> TaskStates \cup NoticeStates \cup {"none"}],
            notices: SUBSET Notices]

\* The object is one that the request can name.
Named(j) ==
    /\ j.op \in Ops /\ j.object \in Objects
    /\ j.op = "retry" => j.object \in Tasks
    /\ j.op = "dismiss" => j.object \in Notices

\* A request that goes on after its commit has changed the object.
Sane(j) ==
    /\ j.phase = "idle" => j.op = "none"
    /\ j.phase = "services" => /\ Named(j) /\ j.at \in Statements(j.op) \cup {"raise"}
                               /\ j.at \notin {"update", "commit", "raise"} => j.hit
    /\ j.phase = "sync" => j.at \in Queries \cup {"raise"}
    /\ j.phase \in {"lock", "sync", "send"} =>
         j.op \in {"resync", "none"} \/ (Named(j) /\ j.hit)

Placed ==
    /\ queue \in Seq(Coroutines) /\ results \in Seq(Coroutines) /\ lock \in Seq(Coroutines)
    /\ Once(queue) /\ Once(results) /\ Once(lock)
    /\ Elems(queue) \cap Elems(results) = {}
    /\ Elems(queue) \cup Elems(results) = InPhase({"services", "sync"})
    /\ Elems(lock) = InPhase({"lock", "sync", "send"})
    /\ \A c \in InPhase({"sync", "send"}) : c = Head(lock)

Jobs ==
    /\ job \in [Coroutines -> JobType]
    /\ \A c \in Coroutines : Sane(job[c])
    /\ job["start"].op = "none"
    /\ \A c \in Elems(queue) : job[c].at # "raise" /\ (job[c].at = "update" => ~job[c].hit)

StateOf(o) == IF o \in Tasks THEN TaskStates ELSE NoticeStates

Data ==
    /\ db \in Databases /\ disk \in Databases
    /\ \A o \in Objects : db.state[o] \in StateOf(o) /\ disk.state[o] \in StateOf(o)

Rest ==
    /\ memory \in [count: 0..Cardinality(Tasks), dashboard: DashboardType]
    /\ told \in [Objects -> [decisions: Nat, changes: Nat]]
    /\ past \in [requests: Nat, faults: Nat, restarts: Nat, counted: BOOLEAN,
                 sound: BOOLEAN, rolledBack: BOOLEAN]

Typed == Placed /\ Jobs /\ Data /\ Rest

LEMMA TypedIsTypeOK == Typed => TypeOK
BY DEF Typed, Placed, Data, Rest, TypeOK, StateOf

LEMMA DecisionsAre == Decisions = {"confirm", "reject"}
                      /\ Ops = {"confirm", "reject", "retry", "dismiss"}
BY DEF Decisions, Ops

\* What comes after a statement belongs to the same request, and is never its
\* update.
LEMMA AfterStatement ==
    ASSUME NEW op \in Ops, NEW s \in Statements(op)
    PROVE  /\ After(op, s) \in Statements(op) \cup {"done"}
           /\ After(op, s) \notin {"update", "raise"}
           /\ After(op, s) = "commit" => s = "update"
           /\ After(op, s) = "get" => s = "commit"
           /\ After(op, s) = "record" => s = "get" /\ op \in Decisions
           /\ After(op, s) = "save" => s = "record"
           /\ After(op, s) = "count" => s = "save" \/ op = "retry"
           /\ After(op, s) = "done" => s = "count" \/ (s = "get" /\ op = "dismiss")
           /\ s \in Places
<1> USE DecisionsAre DEF Statements, After, Places
<1>1. CASE s = "update"
  BY <1>1
<1>2. CASE s = "commit"
  BY <1>2
<1>3. CASE s = "get"
  BY <1>3
<1>4. CASE s = "record"
  BY <1>4
<1>5. CASE s = "save"
  BY <1>5
<1>6. CASE s = "count"
  BY <1>6
<1> QED BY <1>1, <1>2, <1>3, <1>4, <1>5, <1>6

LEMMA AfterQuery ==
    ASSUME NEW op, NEW s \in Queries
    PROVE  After(op, s) \in Queries \cup {"done"} /\ s \in Places
<1> USE DEF Queries, After, Places
<1>1. CASE s = "list"
  BY <1>1
<1>2. CASE s = "dashboard"
  BY <1>2
<1>3. CASE s = "notice"
  BY <1>3
<1> QED BY <1>1, <1>2, <1>3

LEMMA IdleTyped == Idle \in JobType /\ Sane(Idle)
<1>1. 0 \in 0..Cardinality(Tasks)
  BY CountTyped
<1>2. NoDashboard \in DashboardType
  BY DEF NoDashboard, DashboardType
<1>3. [t \in Tasks |-> "none"] \in [Tasks -> TaskStates \cup NoticeStates \cup {"none"}]
  OBVIOUS
<1> QED BY <1>1, <1>2, <1>3 DEF Idle, JobType, Sane, Places

LEMMA AwaitLockTyped ==
    ASSUME NEW j \in JobType
    PROVE  /\ AwaitLock(j) \in JobType /\ AwaitLock(j).phase = "lock"
           /\ AwaitLock(j).op = j.op /\ AwaitLock(j).object = j.object
           /\ AwaitLock(j).hit = j.hit
BY DEF AwaitLock, JobType, Places

\* c awaits its next statement.
LEMMA AwaitingHas ==
    ASSUME NEW j \in JobType, After(j.op, j.at) # "done"
    PROVE  /\ Awaiting(j) \in JobType /\ Awaiting(j).at = After(j.op, j.at)
           /\ Awaiting(j).at \notin {"raise", "none", "done"}
           /\ Awaiting(j).phase = j.phase /\ Awaiting(j).op = j.op
           /\ Awaiting(j).object = j.object /\ Awaiting(j).hit = j.hit
           /\ Awaiting(j).count = j.count /\ Awaiting(j).tasks = j.tasks
           /\ Awaiting(j).dashboard = j.dashboard
           /\ Awaiting(j).notices = IF After(j.op, j.at) = "notice" THEN Notices \ expired
                                    ELSE j.notices
<1>1. Notices \ expired \in SUBSET Notices
  OBVIOUS
<1>2. After(j.op, j.at) \in Places \ {"raise", "none", "done"}
  BY DEF After, Places
<1> QED BY <1>1, <1>2 DEF Awaiting, JobType

LEMMA DashboardTyped ==
    ASSUME NEW d PROVE Dashboard(d) \in DashboardType /\ CountPending(d) \in 0..Cardinality(Tasks)
<1>1. \A s : Having(d, s) \subseteq Tasks
  BY DEF Having
<1>2. Having(d, "pending") \cup Having(d, "active") \subseteq Tasks
  BY <1>1
<1>3. Cardinality(Tasks) \in Nat
  BY FS_CardinalityType, ObjectsAssumption
<1>4. \A S : S \subseteq Tasks => Cardinality(S) \in Nat
  BY <1>3, CountTyped
<1> QED BY <1>1, <1>2, <1>4, CountTyped DEF Dashboard, DashboardType, CountPending

-----------------------------------------------------------------------------
(* Steps keep the types.                                                    *)

\* A coroutine's job is k now.
LEMMA PhaseChange ==
    ASSUME Jobs, NEW c \in Coroutines, NEW k \in JobType, job' = [job EXCEPT ![c] = k]
    PROVE  \A P : InPhase(P)' = IF k.phase \in P THEN InPhase(P) \cup {c} ELSE InPhase(P) \ {c}
BY DEF Jobs, InPhase

LEMMA JobsKept ==
    ASSUME Jobs, NEW c \in Coroutines, NEW k \in JobType, job' = [job EXCEPT ![c] = k],
           Sane(k), c = "start" => k.op = "none",
           \A d \in Elems(queue') :
              \/ d \in Elems(queue) /\ d # c
              \/ d = c /\ k.at # "raise" /\ (k.at = "update" => ~k.hit)
    PROVE  Jobs'
<1>1. job' \in [Coroutines -> JobType] /\ job'[c] = k
      /\ \A d \in Coroutines : d # c => job'[d] = job[d]
  BY DEF Jobs
<1>2. "start" \in Coroutines
  BY DEF Coroutines
<1>3. \A d \in Coroutines : Sane(job'[d])
  BY <1>1 DEF Jobs
<1>4. job'["start"].op = "none"
  BY <1>1, <1>2 DEF Jobs
<1>5. \A d \in Elems(queue') : job'[d].at # "raise" /\ (job'[d].at = "update" => ~job'[d].hit)
  <2> SUFFICES ASSUME NEW d \in Elems(queue')
               PROVE  job'[d].at # "raise" /\ (job'[d].at = "update" => ~job'[d].hit)
    OBVIOUS
  <2>1. CASE d = c
    BY <1>1, <2>1
  <2>2. CASE d # c
    <3>1. d \in Elems(queue) /\ job'[d] = job[d]
      BY <1>1, <2>2 DEF Jobs
    <3> QED BY <3>1 DEF Jobs
  <2> QED BY <2>1, <2>2
<1> QED BY <1>1, <1>3, <1>4, <1>5 DEF Jobs

\* The worker thread is done with the first of the queue.
LEMMA ServedTyped ==
    ASSUME Placed, Jobs, queue # <<>>, NEW k \in JobType,
           queue' = Tail(queue), results' = Append(results, Head(queue)), lock' = lock,
           job' = [job EXCEPT ![Head(queue)] = k],
           k.phase = job[Head(queue)].phase, k.op = job[Head(queue)].op, Sane(k)
    PROVE  Placed' /\ Jobs'
<1> DEFINE c == Head(queue)
<1>1. /\ queue' \in Seq(Coroutines) /\ Once(queue') /\ c \in Coroutines
      /\ Elems(queue') = Elems(queue) \ {c} /\ c \in Elems(queue)
  BY OnceRemoved DEF Placed
<1>2. /\ results' \in Seq(Coroutines) /\ Once(results')
      /\ Elems(results') = Elems(results) \cup {c}
  BY <1>1, OnceAppended DEF Placed
<1>3. \A P : InPhase(P)' = InPhase(P)
  BY <1>1, PhaseChange DEF InPhase
<1>4. Placed'
  BY <1>1, <1>2, <1>3 DEF Placed
<1>5. c = "start" => k.op = "none"
  BY DEF Jobs
<1> QED BY <1>1, <1>4, <1>5, JobsKept

\* The first of the results goes on with another statement.
LEMMA AwaitingTyped ==
    ASSUME Placed, Jobs, results # <<>>, NEW k \in JobType,
           results' = Tail(results), queue' = Append(queue, Head(results)), lock' = lock,
           job' = [job EXCEPT ![Head(results)] = k],
           k.phase = job[Head(results)].phase, k.op = job[Head(results)].op, Sane(k),
           k.at \notin {"update", "raise"}
    PROVE  Placed' /\ Jobs'
<1> DEFINE c == Head(results)
<1>1. /\ results' \in Seq(Coroutines) /\ Once(results') /\ c \in Coroutines
      /\ Elems(results') = Elems(results) \ {c} /\ c \in Elems(results)
  BY OnceRemoved DEF Placed
<1>2. /\ queue' \in Seq(Coroutines) /\ Once(queue') /\ c \notin Elems(queue)
      /\ Elems(queue') = Elems(queue) \cup {c}
  BY <1>1, OnceAppended DEF Placed
<1>3. \A P : InPhase(P)' = InPhase(P)
  BY <1>1, PhaseChange DEF InPhase
<1>4. Placed'
  BY <1>1, <1>2, <1>3 DEF Placed
<1>5. c = "start" => k.op = "none"
  BY DEF Jobs
<1> QED BY <1>1, <1>2, <1>4, <1>5, JobsKept

\* The first of the results leaves the database, for one of three phases.
LEMMA LeavingTyped ==
    ASSUME Placed, Jobs, results # <<>>, NEW k \in JobType,
           results' = Tail(results), queue' = queue,
           job' = [job EXCEPT ![Head(results)] = k],
           Head(results) = "start" => k.op = "none", Sane(k),
           LET c == Head(results)
           IN  \/ job[c].phase = "services" /\ k.phase = "idle" /\ lock' = lock
               \/ job[c].phase = "services" /\ k.phase = "lock" /\ lock' = Append(lock, c)
               \/ job[c].phase = "sync" /\ k.phase = "send" /\ lock' = lock
               \/ job[c].phase = "sync" /\ k.phase = "idle" /\ lock' = Tail(lock)
    PROVE  Placed' /\ Jobs'
<1> DEFINE c == Head(results)
<1>1. /\ results' \in Seq(Coroutines) /\ Once(results') /\ c \in Coroutines
      /\ Elems(results') = Elems(results) \ {c} /\ c \in Elems(results)
      /\ c \notin Elems(queue)
  BY OnceRemoved DEF Placed
<1>2. \A P : InPhase(P)' = IF k.phase \in P THEN InPhase(P) \cup {c} ELSE InPhase(P) \ {c}
  BY <1>1, PhaseChange
<1>3. Jobs'
  BY <1>1, JobsKept
<1>4. Elems(queue') \cap Elems(results') = {}
  BY <1>1 DEF Placed
<1>5. Elems(queue') \cup Elems(results') = InPhase({"services", "sync"})'
  BY <1>1, <1>2 DEF Placed
<1>6. /\ lock' \in Seq(Coroutines) /\ Once(lock')
      /\ Elems(lock') = InPhase({"lock", "sync", "send"})'
      /\ \A d \in InPhase({"sync", "send"})' : d = Head(lock')
  <2>0. lock \in Seq(Coroutines) /\ Once(lock)
        /\ Elems(lock) = InPhase({"lock", "sync", "send"})
        /\ \A d \in InPhase({"sync", "send"}) : d = Head(lock)
    BY DEF Placed
  <2>1. CASE job[c].phase = "services" /\ k.phase = "idle" /\ lock' = lock
    BY <1>1, <1>2, <2>0, <2>1 DEF InPhase
  <2>2. CASE job[c].phase = "services" /\ k.phase = "lock" /\ lock' = Append(lock, c)
    <3>1. c \notin Elems(lock)
      BY <2>0, <2>2 DEF InPhase
    <3>2. /\ lock' \in Seq(Coroutines) /\ Once(lock') /\ Elems(lock') = Elems(lock) \cup {c}
          /\ lock # <<>> => Head(lock') = Head(lock)
      BY <1>1, <2>0, <2>2, <3>1, OnceAppended
    <3>3. lock = <<>> => InPhase({"sync", "send"}) = {}
      BY <2>0, NothingInEmpty DEF InPhase
    <3>4. InPhase({"sync", "send"})' \subseteq InPhase({"sync", "send"})
          /\ InPhase({"lock", "sync", "send"})' = InPhase({"lock", "sync", "send"}) \cup {c}
      BY <1>2, <2>2
    <3> QED BY <2>0, <3>2, <3>3, <3>4
  <2>3. CASE job[c].phase = "sync" /\ k.phase = "send" /\ lock' = lock
    BY <1>1, <1>2, <2>0, <2>3 DEF InPhase
  <2>4. CASE job[c].phase = "sync" /\ k.phase = "idle" /\ lock' = Tail(lock)
    <3>1. c \in InPhase({"sync", "send"}) /\ c \in Elems(lock)
      BY <1>1, <2>0, <2>4 DEF InPhase
    <3>2. lock # <<>> /\ c = Head(lock)
      BY <2>0, <3>1, NothingInEmpty
    <3>3. /\ lock' \in Seq(Coroutines) /\ Once(lock') /\ Elems(lock') = Elems(lock) \ {c}
      BY <2>0, <2>4, <3>2, OnceRemoved
    <3>4. InPhase({"sync", "send"})' = {}
      BY <1>2, <2>0, <2>4, <3>2
    <3>5. InPhase({"lock", "sync", "send"})' = InPhase({"lock", "sync", "send"}) \ {c}
      BY <1>2, <2>4
    <3> QED BY <2>0, <3>3, <3>4, <3>5
  <2> QED BY <2>1, <2>2, <2>3, <2>4
<1> QED BY <1>1, <1>3, <1>4, <1>5, <1>6 DEF Placed

\* A coroutine that awaits nobody starts to, or stops waiting at the lock.
LEMMA EnteringTyped ==
    ASSUME Placed, Jobs, NEW c \in Coroutines, NEW k \in JobType,
           job' = [job EXCEPT ![c] = k], results' = results,
           c = "start" => k.op = "none", Sane(k), k.at # "raise", k.at = "update" => ~k.hit,
           \/ /\ job[c].phase = "idle" /\ k.phase = "services"
              /\ queue' = Append(queue, c) /\ lock' = lock
           \/ /\ job[c].phase = "idle" /\ k.phase = "lock"
              /\ queue' = queue /\ lock' = Append(lock, c)
           \/ /\ job[c].phase = "lock" /\ k.phase = "sync" /\ lock # <<>> /\ c = Head(lock)
              /\ queue' = Append(queue, c) /\ lock' = lock
           \/ /\ job[c].phase = "send" /\ k.phase = "idle"
              /\ queue' = queue /\ lock' = Tail(lock)
    PROVE  Placed' /\ Jobs'
<1>1. \A P : InPhase(P)' = IF k.phase \in P THEN InPhase(P) \cup {c} ELSE InPhase(P) \ {c}
  BY PhaseChange
<1>2. /\ queue \in Seq(Coroutines) /\ lock \in Seq(Coroutines) /\ Once(queue) /\ Once(lock)
      /\ Elems(queue) \cap Elems(results) = {}
      /\ Elems(queue) \cup Elems(results) = InPhase({"services", "sync"})
      /\ Elems(lock) = InPhase({"lock", "sync", "send"})
      /\ \A d \in InPhase({"sync", "send"}) : d = Head(lock)
  BY DEF Placed
<1>3. c \notin Elems(queue) /\ c \notin Elems(results)
  BY <1>2 DEF InPhase
<1>4. queue' = Append(queue, c) =>
        /\ queue' \in Seq(Coroutines) /\ Once(queue') /\ Elems(queue') = Elems(queue) \cup {c}
  BY <1>2, <1>3, OnceAppended
<1>5. lock = <<>> => InPhase({"sync", "send"}) = {}
  BY <1>2, NothingInEmpty DEF InPhase
<1>6. Jobs'
  BY <1>3, <1>4, JobsKept
<1>7. CASE /\ job[c].phase = "idle" /\ k.phase = "services"
           /\ queue' = Append(queue, c) /\ lock' = lock
  <2>1. InPhase({"services", "sync"})' = InPhase({"services", "sync"}) \cup {c}
    BY <1>1, <1>7
  <2>2. InPhase({"lock", "sync", "send"})' = InPhase({"lock", "sync", "send"})
    BY <1>1, <1>7 DEF InPhase
  <2>3. InPhase({"sync", "send"})' = InPhase({"sync", "send"})
    BY <1>1, <1>7 DEF InPhase
  <2>4. Once(results') /\ results' \in Seq(Coroutines)
    BY DEF Placed
  <2> QED BY <1>2, <1>3, <1>4, <1>6, <1>7, <2>1, <2>2, <2>3, <2>4 DEF Placed
<1>8. CASE /\ job[c].phase = "idle" /\ k.phase = "lock"
           /\ queue' = queue /\ lock' = Append(lock, c)
  <2>1. c \notin Elems(lock)
    BY <1>2, <1>8 DEF InPhase
  <2>2. /\ lock' \in Seq(Coroutines) /\ Once(lock') /\ Elems(lock') = Elems(lock) \cup {c}
        /\ lock # <<>> => Head(lock') = Head(lock)
    BY <1>2, <1>8, <2>1, OnceAppended
  <2>3. InPhase({"sync", "send"})' = InPhase({"sync", "send"})
    BY <1>1, <1>8 DEF InPhase
  <2>4. InPhase({"services", "sync"})' = InPhase({"services", "sync"})
    BY <1>1, <1>8 DEF InPhase
  <2>5. InPhase({"lock", "sync", "send"})' = InPhase({"lock", "sync", "send"}) \cup {c}
    BY <1>1, <1>8
  <2> QED BY <1>2, <1>5, <1>6, <1>8, <2>2, <2>3, <2>4, <2>5 DEF Placed
<1>9. CASE /\ job[c].phase = "lock" /\ k.phase = "sync" /\ lock # <<>> /\ c = Head(lock)
           /\ queue' = Append(queue, c) /\ lock' = lock
  <2>1. InPhase({"services", "sync"})' = InPhase({"services", "sync"}) \cup {c}
    BY <1>1, <1>9
  <2>2. InPhase({"lock", "sync", "send"})' = InPhase({"lock", "sync", "send"})
    BY <1>1, <1>9 DEF InPhase
  <2>3. InPhase({"sync", "send"})' = InPhase({"sync", "send"}) \cup {c}
    BY <1>1, <1>9
  <2>4. Once(results') /\ results' \in Seq(Coroutines)
    BY DEF Placed
  <2> QED BY <1>2, <1>3, <1>4, <1>6, <1>9, <2>1, <2>2, <2>3, <2>4 DEF Placed
<1>10. CASE /\ job[c].phase = "send" /\ k.phase = "idle"
            /\ queue' = queue /\ lock' = Tail(lock)
  <2>1. c \in Elems(lock) /\ c = Head(lock) /\ lock # <<>>
    BY <1>2, <1>10, NothingInEmpty DEF InPhase
  <2>2. lock' \in Seq(Coroutines) /\ Once(lock') /\ Elems(lock') = Elems(lock) \ {c}
    BY <1>2, <1>10, <2>1, OnceRemoved
  <2>3. InPhase({"sync", "send"})' = {}
    BY <1>1, <1>2, <1>10, <2>1
  <2>4. InPhase({"services", "sync"})' = InPhase({"services", "sync"})
    BY <1>1, <1>10 DEF InPhase
  <2>5. InPhase({"lock", "sync", "send"})' = InPhase({"lock", "sync", "send"}) \ {c}
    BY <1>1, <1>10
  <2> QED BY <1>2, <1>6, <1>10, <2>2, <2>3, <2>4, <2>5 DEF Placed
<1> QED BY <1>7, <1>8, <1>9, <1>10

\* At the start of the program everybody is idle but start().
Fresh ==
    /\ job = [c \in Coroutines |-> IF c = "start" THEN AwaitLock(Idle) ELSE Idle]
    /\ queue = <<>> /\ results = <<>> /\ lock = <<"start">>
    /\ memory = FreshMemory

LEMMA FreshTyped ==
    Fresh => Placed /\ Jobs /\ memory \in [count: 0..Cardinality(Tasks),
                                           dashboard: DashboardType]
<1> SUFFICES ASSUME Fresh
             PROVE  Placed /\ Jobs /\ memory \in [count: 0..Cardinality(Tasks),
                                                  dashboard: DashboardType]
  OBVIOUS
<1>1. "start" \in Coroutines
  BY DEF Coroutines
<1>2. Idle.phase = "idle" /\ Idle.op = "none"
  BY DEF Idle
<1>3. /\ job \in [Coroutines -> JobType]
      /\ job["start"].phase = "lock" /\ job["start"].op = "none"
      /\ \A c \in Coroutines : c # "start" => job[c] = Idle
  BY <1>1, <1>2, IdleTyped, AwaitLockTyped DEF Fresh
<1>4. \A c \in Coroutines : Sane(job[c])
  BY <1>3, IdleTyped DEF Sane
<1>5. /\ InPhase({"services", "sync"}) = {} /\ InPhase({"sync", "send"}) = {}
      /\ InPhase({"lock", "sync", "send"}) = {"start"}
  BY <1>1, <1>2, <1>3 DEF InPhase
<1>6. /\ <<>> \in Seq(Coroutines) /\ <<"start">> \in Seq(Coroutines)
  BY <1>1
<1>7. Placed /\ Jobs
  BY <1>3, <1>4, <1>5, <1>6, NothingInEmpty, OneInSingleton DEF Fresh, Placed, Jobs
<1>8. 0 \in 0..Cardinality(Tasks) /\ NoDashboard \in DashboardType
  BY CountTyped DEF NoDashboard, DashboardType
<1> QED BY <1>7, <1>8 DEF Fresh, FreshMemory

LEMMA FreshTypedNext ==
    Fresh' => (Placed /\ Jobs /\ memory \in [count: 0..Cardinality(Tasks),
                                            dashboard: DashboardType])'
BY FreshTyped, PTL

LEMMA InitTyped == Init => Typed
<1> SUFFICES ASSUME Init PROVE Typed
  OBVIOUS
<1>1. Fresh
  BY DEF Init, Fresh
<1>2. Data
  <2>1. PICK s \in [Objects -> LeftBehind \cup NoticesLeft] :
          /\ \A o \in Objects : s[o] \in (IF o \in Tasks THEN LeftBehind ELSE NoticesLeft)
          /\ db = [state |-> s, recorded |-> NoCounters,
                   decided |-> NoCounters, retried |-> NoCounters]
    BY DEF Init
  <2>2. NoCounters \in [Objects -> Nat]
    BY DEF NoCounters
  <2>3. s \in [Objects -> TaskStates \cup NoticeStates]
    BY LeftBehindAssumption
  <2>4. db \in Databases /\ db.state = s
    BY <2>1, <2>2, <2>3 DEF Databases
  <2> QED BY <2>1, <2>4, LeftBehindAssumption DEF Init, Data, StateOf
<1>3. /\ told \in [Objects -> [decisions: Nat, changes: Nat]]
      /\ past \in [requests: Nat, faults: Nat, restarts: Nat, counted: BOOLEAN,
                   sound: BOOLEAN, rolledBack: BOOLEAN]
  BY DEF Init
<1> QED BY <1>1, <1>2, <1>3, FreshTyped DEF Typed, Rest

\* What the worker thread does to the database keeps its columns readable.
LEMMA EffectTyped ==
    ASSUME Data, Jobs, NEW c \in Coroutines, job[c].phase \in {"services", "sync"}
    PROVE  Effect(c) \in Databases /\ \A o \in Objects : Effect(c).state[o] \in StateOf(o)
<1> DEFINE j == job[c]
<1>1. j.at \in {"update", "record"} => Named(j)
  BY DEF Jobs, Sane, Queries
<1>2. db \in Databases /\ \A o \in Objects : db.state[o] \in StateOf(o)
  BY DEF Data
<1>3. CASE j.at = "update"
  <2>1. Effect(c) = Update(j.op, j.object)
    BY <1>3 DEF Effect
  <2>2. To(j.op, j.object) \in StateOf(j.object)
    BY <1>1, <1>3, ObjectsAssumption, DecisionsAre
       DEF To, StateOf, Named, Objects, TaskStates, NoticeStates
  <2>3. StateOf(j.object) \subseteq TaskStates \cup NoticeStates
    BY DEF StateOf
  <2>4. \/ Effect(c) = db
        \/ /\ Effect(c).state = [db.state EXCEPT ![j.object] = To(j.op, j.object)]
           /\ Effect(c) \in Databases
    <3>1. CASE Matches(j.op, j.object)
      <4>1. Effect(c) =
              [db EXCEPT !.state[j.object] = To(j.op, j.object),
                         !.decided[j.object] = IF j.op = "retry" THEN @ ELSE @ + 1,
                         !.retried[j.object] = IF j.op = "retry" THEN @ + 1 ELSE @]
        BY <2>1, <3>1 DEF Update
      <4>2. /\ Effect(c).state = [db.state EXCEPT ![j.object] = To(j.op, j.object)]
            /\ Effect(c).decided = [db.decided EXCEPT
                                      ![j.object] = IF j.op = "retry" THEN @ ELSE @ + 1]
            /\ Effect(c).retried = [db.retried EXCEPT
                                      ![j.object] = IF j.op = "retry" THEN @ + 1 ELSE @]
            /\ Effect(c).recorded = db.recorded
            /\ Effect(c) = [state |-> Effect(c).state, recorded |-> Effect(c).recorded,
                            decided |-> Effect(c).decided, retried |-> Effect(c).retried]
        BY <1>2, <4>1 DEF Databases
      <4>3. /\ db.state \in [Objects -> TaskStates \cup NoticeStates]
            /\ db.decided \in [Objects -> Nat] /\ db.retried \in [Objects -> Nat]
            /\ db.recorded \in [Objects -> Nat] /\ j.object \in Objects
        BY <1>1, <1>2, <1>3 DEF Named, Databases
      <4>4. /\ Effect(c).state \in [Objects -> TaskStates \cup NoticeStates]
            /\ Effect(c).decided \in [Objects -> Nat] /\ Effect(c).retried \in [Objects -> Nat]
            /\ Effect(c).recorded \in [Objects -> Nat]
        BY <2>2, <2>3, <4>2, <4>3
      <4> QED BY <4>2, <4>4 DEF Databases
    <3> QED BY <2>1, <3>1 DEF Update
  <2> QED BY <1>1, <1>2, <1>3, <2>2, <2>4 DEF Databases, Named
<1>4. CASE j.at = "record"
  BY <1>1, <1>2, <1>4 DEF Effect, Named, Databases
<1>5. CASE j.at \notin {"update", "record"}
  BY <1>2, <1>5 DEF Effect
<1> QED BY <1>3, <1>4, <1>5

\* What a query leaves with its coroutine.
LEMMA AnswerTyped ==
    ASSUME Data, Jobs, NEW c \in Coroutines, job[c].phase \in {"services", "sync"}
    PROVE  /\ Answer(c) \in JobType /\ Sane(Answer(c))
           /\ Answer(c).phase = job[c].phase /\ Answer(c).op = job[c].op
           /\ Answer(c).object = job[c].object /\ Answer(c).at = job[c].at
           /\ Answer(c).hit = IF job[c].at = "update" THEN Matches(job[c].op, job[c].object)
                              ELSE job[c].hit
<1> DEFINE j == job[c]
<1>1. j \in JobType /\ Sane(j)
  BY DEF Jobs
<1>2. ListRecent(db) \in [Tasks -> TaskStates \cup NoticeStates \cup {"none"}]
  BY DEF Data, Databases, ListRecent, Objects
<1>3. Dashboard(db) \in DashboardType /\ CountPending(db) \in 0..Cardinality(Tasks)
  BY DashboardTyped
<1>4. j.notices \cap ActiveNotices(db) \in SUBSET Notices
  BY <1>1 DEF JobType
<1>5. Matches(j.op, j.object) \in BOOLEAN
  BY DEF Matches
<1>6. /\ Answer(c) \in JobType
      /\ Answer(c).phase = j.phase /\ Answer(c).op = j.op
      /\ Answer(c).object = j.object /\ Answer(c).at = j.at
      /\ Answer(c).hit = IF j.at = "update" THEN Matches(j.op, j.object) ELSE j.hit
  <2>1. CASE j.at = "update"
    BY <1>1, <1>5, <2>1 DEF Answer, JobType
  <2>2. CASE j.at = "count"
    BY <1>1, <1>3, <2>2 DEF Answer, JobType
  <2>3. CASE j.at = "list"
    BY <1>1, <1>2, <2>3 DEF Answer, JobType
  <2>4. CASE j.at = "dashboard"
    BY <1>1, <1>3, <2>4 DEF Answer, JobType
  <2>5. CASE j.at = "notice"
    BY <1>1, <1>4, <2>5 DEF Answer, JobType
  <2>6. CASE j.at \notin {"update", "count", "list", "dashboard", "notice"}
    BY <1>1, <2>6 DEF Answer
  <2> QED BY <2>1, <2>2, <2>3, <2>4, <2>5, <2>6
<1>7. Sane(Answer(c))
  <2>1. j.phase = "sync" => Answer(c).hit = j.hit
    BY <1>1, <1>6 DEF Sane, Queries
  <2> QED BY <1>1, <1>6, <2>1 DEF Sane, Named
<1> QED BY <1>6, <1>7

LEMMA ServeTyped == ASSUME Typed, Serve PROVE Typed'
<1> DEFINE c == Head(queue)
<1>1. c \in Coroutines /\ c \in Elems(queue)
  BY OnceRemoved DEF Serve, Typed, Placed
<1>2. job[c].phase \in {"services", "sync"}
  BY <1>1 DEF Typed, Placed, InPhase
<1>3. Placed' /\ Jobs'
  BY <1>1, <1>2, AnswerTyped, ServedTyped DEF Serve, Typed
<1>4. Data'
  BY <1>1, <1>2, EffectTyped DEF Serve, Typed, Data
<1> QED BY <1>3, <1>4 DEF Typed, Rest, Serve

LEMMA RaiseTyped == ASSUME Typed, Raise PROVE Typed'
<1> DEFINE c == Head(queue)
           k == [job[c] EXCEPT !.at = "raise"]
<1>1. c \in Coroutines /\ c \in Elems(queue)
  BY OnceRemoved DEF Raise, Typed, Placed
<1>2. job[c].phase \in {"services", "sync"}
  BY <1>1 DEF Typed, Placed, InPhase
<1>3. job[c] \in JobType /\ Sane(job[c])
  BY <1>1 DEF Typed, Jobs
<1>4. k \in JobType /\ Sane(k) /\ k.phase = job[c].phase /\ k.op = job[c].op
  BY <1>2, <1>3 DEF JobType, Places, Sane, Named
<1>5. job' = [job EXCEPT ![c] = k]
  BY DEF Raise
<1>6. Placed' /\ Jobs'
  BY <1>4, <1>5, ServedTyped DEF Raise, Typed
<1>7. Data'
  BY DEF Raise, Typed, Data
<1>8. Rest'
  <2>1. past.faults + 1 \in Nat /\ past.rolledBack \in BOOLEAN
    BY DEF Typed, Rest
  <2>2. (past.rolledBack \/ db' # db) \in BOOLEAN
    OBVIOUS
  <2>3. past' = [past EXCEPT !.faults = past.faults + 1, !.sound = FALSE,
                             !.rolledBack = past.rolledBack \/ db' # db]
    BY DEF Raise
  <2> QED BY <2>1, <2>2, <2>3 DEF Raise, Typed, Rest
<1> QED BY <1>6, <1>7, <1>8 DEF Typed

\* Who is answered OK had its request done.
LEMMA TellTyped ==
    ASSUME Jobs, Rest, NEW c \in Coroutines, job[c].phase \in {"sync", "send"}, Tell(c)
    PROVE  told' \in [Objects -> [decisions: Nat, changes: Nat]]
<1>1. told \in [Objects -> [decisions: Nat, changes: Nat]] /\ Sane(job[c])
  BY DEF Jobs, Rest
<1>2. job[c].op \in Ops => job[c].object \in Objects
  BY <1>1, DecisionsAre DEF Sane, Named
<1>3. CASE job[c].op \in Decisions
  <2> DEFINE o == job[c].object
  <2>1. told' = [told EXCEPT ![o].decisions = @ + 1]
    BY <1>3, DecisionsAre DEF Tell
  <2>2. o \in Objects /\ told[o] \in [decisions: Nat, changes: Nat]
    BY <1>1, <1>2, <1>3, DecisionsAre
  <2>3. [told[o] EXCEPT !.decisions = @ + 1] \in [decisions: Nat, changes: Nat]
    BY <2>2
  <2>4. told' = [told EXCEPT ![o] = [told[o] EXCEPT !.decisions = @ + 1]]
    BY <2>1
  <2> QED BY <1>1, <2>2, <2>3, <2>4
<1>4. CASE job[c].op \notin Decisions /\ job[c].op \in {"retry", "dismiss"}
  <2> DEFINE o == job[c].object
  <2>1. told' = [told EXCEPT ![o].changes = @ + 1]
    BY <1>4, DecisionsAre DEF Tell
  <2>2. o \in Objects /\ told[o] \in [decisions: Nat, changes: Nat]
    BY <1>1, <1>2, <1>4, DecisionsAre
  <2>3. [told[o] EXCEPT !.changes = @ + 1] \in [decisions: Nat, changes: Nat]
    BY <2>2
  <2>4. told' = [told EXCEPT ![o] = [told[o] EXCEPT !.changes = @ + 1]]
    BY <2>1
  <2> QED BY <1>1, <2>2, <2>3, <2>4
<1>5. CASE job[c].op \notin Decisions \cup {"retry", "dismiss"}
  BY <1>1, <1>5 DEF Tell
<1> QED BY <1>3, <1>4, <1>5

\* The step of the event loop that the first of the results takes, and what its
\* job is then.
LEMMA ResumeTyped == ASSUME Typed, Resume PROVE Typed'
<1> DEFINE c == Head(results)
<1>1. /\ c \in Coroutines /\ c \in Elems(results) /\ results # <<>>
      /\ results' = Tail(results)
  BY OnceRemoved DEF Resume, Typed, Placed
<1>2. job[c] \in JobType /\ Sane(job[c]) /\ (c = "start" => job[c].op = "none")
  BY <1>1 DEF Typed, Jobs
<1>3. Data' /\ (memory' = memory /\ told' = told /\ past' = past => Rest')
  BY DEF Resume, Typed, Data, Rest
<1>4. Idle \in JobType /\ Sane(Idle) /\ Idle.phase = "idle" /\ Idle.op = "none"
  BY IdleTyped DEF Idle
<1>5. CASE Refuse(c)
  <2>1. Placed' /\ Jobs'
    BY <1>1, <1>4, <1>5, LeavingTyped DEF Refuse, Refused, Typed
  <2> QED BY <1>3, <1>5, <2>1 DEF Refuse, Typed
<1>6. CASE Fail(c)
  <2>1. Placed' /\ Jobs'
    BY <1>1, <1>4, <1>6, LeavingTyped DEF Fail, Typed
  <2> QED BY <1>3, <1>6, <2>1 DEF Fail, Typed
<1>7. CASE NextStatement(c)
  <2> DEFINE k == Awaiting(job[c])
  <2>1. job[c].phase = "services" /\ NextOf(c) # "done" /\ ~Refused(c)
    BY <1>7 DEF NextStatement
  <2>2. job[c].at # "raise" /\ Named(job[c]) /\ job[c].at \in Statements(job[c].op)
    BY <1>2, <2>1 DEF Sane, NextOf, After
  <2>3. /\ NextOf(c) \in Statements(job[c].op) /\ NextOf(c) \notin {"update", "raise"}
        /\ NextOf(c) = "commit" => job[c].at = "update"
    BY <2>1, <2>2, AfterStatement DEF NextOf, Named
  <2>5. /\ k \in JobType /\ k.phase = job[c].phase /\ k.op = job[c].op
        /\ k.object = job[c].object /\ k.at = NextOf(c) /\ k.hit = job[c].hit
    BY <1>2, <2>1, AwaitingHas DEF NextOf
  <2>6. NextOf(c) # "commit" => job[c].hit
    <3>1. CASE job[c].at = "update"
      BY <2>1, <2>2, <3>1 DEF NextOf, After
    <3>2. CASE job[c].at = "commit"
      BY <1>2, <2>1, <3>2 DEF Refused, JobType
    <3>3. CASE job[c].at \notin {"update", "commit"}
      BY <1>2, <2>1, <2>2, <3>3 DEF Sane
    <3> QED BY <3>1, <3>2, <3>3
  <2>7. Sane(k)
    BY <2>1, <2>2, <2>3, <2>5, <2>6 DEF Sane, Named
  <2>8. Placed' /\ Jobs'
    <3>1. job' = [job EXCEPT ![c] = k] /\ queue' = Append(queue, c) /\ lock' = lock
      BY <1>7 DEF NextStatement, AwaitNext
    <3> QED BY <1>1, <2>3, <2>5, <2>7, <3>1, AwaitingTyped DEF Typed
  <2> QED BY <1>3, <1>7, <2>8 DEF NextStatement, Typed
<1>8. CASE Conclude(c)
  <2> DEFINE k == AwaitLock(job[c])
  <2>1. job[c].phase = "services" /\ NextOf(c) = "done" /\ job[c].at # "raise"
    BY <1>8 DEF Conclude
  <2>2. Named(job[c]) /\ job[c].at \in Statements(job[c].op)
    BY <1>2, <2>1 DEF Sane
  <2>3. job[c].hit
    BY <1>2, <2>1, <2>2, AfterStatement DEF Sane, Named, NextOf
  <2>4. /\ k \in JobType /\ k.phase = "lock" /\ k.op = job[c].op
        /\ k.object = job[c].object /\ k.hit = job[c].hit
    BY <1>2, AwaitLockTyped
  <2>5. Sane(k)
    BY <2>2, <2>3, <2>4 DEF Sane, Named
  <2>6. Placed' /\ Jobs'
    BY <1>1, <1>2, <1>8, <2>1, <2>4, <2>5, LeavingTyped DEF Conclude, Typed
  <2>7. job[c].count \in 0..Cardinality(Tasks)
    BY <1>2 DEF JobType
  <2>8. Rest'
    BY <1>8, <2>7 DEF Conclude, Typed, Rest
  <2> QED BY <1>3, <2>6, <2>8 DEF Typed
<1>9. CASE NextQuery(c)
  <2> DEFINE k == Awaiting(job[c])
  <2>1. job[c].phase = "sync" /\ NextOf(c) # "done"
    BY <1>9 DEF NextQuery
  <2>2. job[c].at \in Queries
    BY <1>2, <2>1 DEF Sane, NextOf, After
  <2>3. NextOf(c) \in Queries
    BY <2>1, <2>2, AfterQuery DEF NextOf
  <2>4. /\ k \in JobType /\ k.phase = job[c].phase /\ k.op = job[c].op
        /\ k.object = job[c].object /\ k.at = NextOf(c) /\ k.hit = job[c].hit
    BY <1>2, <2>1, AwaitingHas DEF NextOf
  <2>5. Sane(k)
    BY <1>2, <2>1, <2>3, <2>4 DEF Sane, Named
  <2>6. k.at \notin {"update", "raise"}
    BY <2>3, <2>4 DEF Queries
  <2>7. job' = [job EXCEPT ![c] = k] /\ queue' = Append(queue, c) /\ lock' = lock
    BY <1>9 DEF NextQuery, AwaitNext
  <2>8. Placed' /\ Jobs'
    BY <1>1, <2>4, <2>5, <2>6, <2>7, AwaitingTyped DEF Typed
  <2>9. job[c].dashboard \in DashboardType
    BY <1>2 DEF JobType
  <2>10. Rest'
    BY <1>9, <2>9 DEF NextQuery, Typed, Rest
  <2> QED BY <1>3, <2>8, <2>10 DEF Typed
<1>10. CASE StartSending(c)
  <2> DEFINE k == [job[c] EXCEPT !.phase = "send", !.at = "none"]
  <2>1. job[c].phase = "sync" /\ job' = [job EXCEPT ![c] = k]
    BY <1>10 DEF StartSending
  <2>2. k \in JobType /\ Sane(k) /\ k.phase = "send" /\ k.op = job[c].op
    BY <1>2, <2>1 DEF JobType, Places, Sane, Named
  <2>3. Placed' /\ Jobs'
    BY <1>1, <1>2, <1>10, <2>1, <2>2, LeavingTyped DEF StartSending, Typed
  <2> QED BY <1>3, <1>10, <2>3 DEF StartSending, Typed
<1>11. CASE GiveUpSync(c)
  <2>1. Placed' /\ Jobs'
    BY <1>1, <1>4, <1>11, LeavingTyped DEF GiveUpSync, Release, Typed
  <2>2. told' \in [Objects -> [decisions: Nat, changes: Nat]]
    BY <1>1, <1>11, TellTyped DEF GiveUpSync, Release, Typed
  <2> QED BY <1>3, <1>11, <2>1, <2>2 DEF GiveUpSync, Typed, Rest
<1> QED BY <1>5, <1>6, <1>7, <1>8, <1>9, <1>10, <1>11 DEF Resume

LEMMA NextTyped == Typed /\ [Next]_vars => Typed'
<1> SUFFICES ASSUME Typed, [Next]_vars PROVE Typed'
  OBVIOUS
<1>0. \A c \in Coroutines : job[c] \in JobType /\ Sane(job[c])
                            /\ (c = "start" => job[c].op = "none")
  BY DEF Typed, Jobs
<1>1. CASE Serve
  BY <1>1, ServeTyped
<1>2. CASE Raise
  BY <1>2, RaiseTyped
<1>3. CASE Resume
  BY <1>3, ResumeTyped
<1>4. CASE Granted
  <2> DEFINE c == Head(lock)
             k == [job[c] EXCEPT !.phase = "sync", !.at = "list"]
  <2>1. c \in Coroutines /\ job[c].phase = "lock" /\ lock # <<>>
    BY <1>4, OnceRemoved DEF Granted, Typed, Placed
  <2>2. /\ k \in JobType /\ Sane(k) /\ k.phase = "sync" /\ k.op = job[c].op /\ k.at = "list"
    BY <1>0, <2>1 DEF JobType, Places, Sane, Named, Queries
  <2>3. Placed' /\ Jobs'
    BY <1>0, <1>4, <2>1, <2>2, EnteringTyped DEF Granted, Typed
  <2> QED BY <1>4, <2>3 DEF Granted, Typed, Data, Rest
<1>5. CASE Restart
  <2>1. Fresh'
    BY <1>5 DEF Restart, Starting, Fresh
  <2>2. Placed' /\ Jobs' /\ memory' \in [count: 0..Cardinality(Tasks), dashboard: DashboardType]
    BY <2>1, FreshTypedNext
  <2>3. Data'
    BY <1>5 DEF Restart, Typed, Data
  <2>4. /\ past.restarts + 1 \in Nat /\ told' = told
        /\ past' = [past EXCEPT !.restarts = past.restarts + 1, !.counted = FALSE, !.sound = TRUE]
    BY <1>5 DEF Restart, Typed, Rest
  <2>5. Rest'
    BY <2>2, <2>4 DEF Typed, Rest
  <2> QED BY <2>2, <2>3, <2>5 DEF Typed
<1>6. ASSUME NEW c \in Coroutines, FinishSync(c) \/ GiveUpSending(c) PROVE Typed'
  <2>1. Placed' /\ Jobs'
    <3>1. Idle.phase = "idle" /\ Idle.op = "none" /\ Idle.at = "none"
      BY DEF Idle
    <3> QED BY <1>6, <3>1, IdleTyped, EnteringTyped DEF FinishSync, GiveUpSending, Release, Typed
  <2>2. told' \in [Objects -> [decisions: Nat, changes: Nat]]
    BY <1>6, TellTyped DEF FinishSync, GiveUpSending, Release, Typed
  <2> QED BY <1>6, <2>1, <2>2 DEF FinishSync, GiveUpSending, Typed, Data, Rest
<1>7. ASSUME NEW c \in {"ui", "mqtt"}, Resync(c) PROVE Typed'
  <2> DEFINE j == [Idle EXCEPT !.op = "resync"]
  <2>1. c \in Coroutines /\ c # "start"
    BY DEF Coroutines
  <2>2. j \in JobType /\ j.op = "resync" /\ j.object = "none" /\ ~j.hit
    BY IdleTyped DEF JobType, Idle
  <2>3. /\ AwaitLock(j) \in JobType /\ AwaitLock(j).phase = "lock" /\ AwaitLock(j).op = "resync"
        /\ AwaitLock(j).at = "none"
    BY <2>2, AwaitLockTyped DEF AwaitLock, JobType
  <2>4. Sane(AwaitLock(j))
    BY <2>3 DEF Sane
  <2>5. Placed' /\ Jobs'
    BY <1>7, <2>1, <2>3, <2>4, EnteringTyped DEF Resync, Ready, Typed
  <2>6. Data'
    BY <1>7 DEF Resync, Typed, Data
  <2>7. past.requests + 1 \in Nat /\ past' = [past EXCEPT !.requests = past.requests + 1]
        /\ memory' = memory /\ told' = told
    BY <1>7 DEF Resync, Typed, Rest
  <2>8. Rest'
    BY <2>7 DEF Typed, Rest
  <2> QED BY <2>5, <2>6, <2>8 DEF Typed
<1>8. ASSUME NEW c \in {"ui", "mqtt"}, NEW r \in Requests(c), Ask(c, r[1], r[2]) PROVE Typed'
  <2> DEFINE j == [Idle EXCEPT !.phase = "services", !.op = r[1], !.object = r[2],
                               !.at = "update"]
  <2>1. c \in Coroutines /\ c # "start"
    BY DEF Coroutines
  <2>2. /\ r[1] \in Ops /\ r[2] \in Objects
        /\ r[1] = "retry" => r[2] \in Tasks
        /\ r[1] = "dismiss" => r[2] \in Notices
    BY DecisionsAre DEF Requests, Objects
  <2>3. /\ j \in JobType /\ j.phase = "services" /\ j.op = r[1] /\ j.object = r[2]
        /\ j.at = "update" /\ ~j.hit
    BY <2>2, IdleTyped DEF JobType, Idle, Places
  <2>4. Sane(j)
    BY <2>2, <2>3 DEF Sane, Named, Statements
  <2>5. Placed' /\ Jobs'
    BY <1>8, <2>1, <2>3, <2>4, EnteringTyped DEF Ask, Ready, Typed
  <2>6. Data'
    BY <1>8 DEF Ask, Typed, Data
  <2>7. past.requests + 1 \in Nat /\ past' = [past EXCEPT !.requests = past.requests + 1]
        /\ memory' = memory /\ told' = told
    BY <1>8 DEF Ask, Typed, Rest
  <2>8. Rest'
    BY <2>7 DEF Typed, Rest
  <2> QED BY <2>5, <2>6, <2>8 DEF Typed
<1>9. CASE UNCHANGED vars \/ \E n \in Notices : Expire(n)
  BY <1>9 DEF vars, Expire, Typed, Placed, Jobs, Data, Rest, InPhase
<1> QED BY <1>1, <1>2, <1>3, <1>4, <1>5, <1>6, <1>7, <1>8, <1>9 DEF Next

\* Whatever the panel, the MQTT clients and the faults do, the columns hold
\* values the program can read back, no coroutine waits for two statements, and
\* only the holder of the orchestrator's lock is in a sync (task_service.py,
\* orchestrator.py _full_sync).
THEOREM TypeCorrect == Spec => []TypeOK
<1>1. Spec => []Typed
  BY InitTyped, NextTyped, PTL DEF Spec
<1> QED BY <1>1, TypedIsTypeOK, PTL

-----------------------------------------------------------------------------
(* A task is decided once.                                                  *)

\* A row can be decided as often as it was put back, and once more; while it
\* waits for a decision, that one is still to come.
Lawful(d) ==
    \A o \in Objects :
        /\ d.decided[o] <= d.retried[o] + 1
        /\ d.state[o] = From("confirm", o) => d.decided[o] <= d.retried[o]

Laws == Lawful(db) /\ Lawful(disk)

-----------------------------------------------------------------------------
(* What is answered OK is on disk.                                          *)

\* The senders whose requests count, and how far their requests are.
Senders == {"ui", "mqtt"}
Served(c) == c \in Elems(results)
Writing(c) == job[c].phase = "services"
Through(c) == job[c].phase \in {"lock", "sync", "send"}

\* A decision on o that the sender is not yet told of ...
Deciding(c, o) == job[c].op \in Decisions /\ job[c].object = o

\* ... has its row in confirmations, ...
Entered(c, o) ==
    /\ Deciding(c, o)
    /\ \/ Through(c)
       \/ Writing(c) /\ (job[c].at \in {"save", "count"} \/ (job[c].at = "record" /\ Served(c)))

\* ... has it committed, ...
Kept(c, o) ==
    /\ Deciding(c, o)
    /\ \/ Through(c)
       \/ Writing(c) /\ (job[c].at = "count" \/ (job[c].at = "save" /\ Served(c)))

\* ... or has changed o and is to get its row yet.
Owing(c, o) ==
    /\ Deciding(c, o) /\ Writing(c) /\ job[c].hit
    /\ job[c].at \in {"update", "commit", "get"} \/ (job[c].at = "record" /\ ~Served(c))

\* The change of o that the sender is not yet told of is made ...
Changing(c, o) ==
    job[c].op \in Ops /\ job[c].object = o /\ (o \in Tasks => job[c].op = "retry")

Made(c, o) == Changing(c, o) /\ job[c].hit /\ (Through(c) \/ (Writing(c) /\ job[c].at # "raise"))

\* ... and committed.
MadeGood(c, o) ==
    /\ Changing(c, o) /\ job[c].hit
    /\ \/ Through(c)
       \/ /\ Writing(c) /\ job[c].at \notin {"raise", "update"}
          /\ job[c].at = "commit" => Served(c)

Weight(b) == IF b THEN 1 ELSE 0

\* The changes of o that senders were told of, and those that d holds.
ToldOf(o) == told[o].changes + (IF o \in Notices THEN told[o].decisions ELSE 0)
Changes(d, o) == IF o \in Tasks THEN d.retried[o] ELSE d.decided[o]

Balanced(o) ==
    /\ told[o].decisions + Weight(Entered("ui", o)) + Weight(Entered("mqtt", o)) <= db.recorded[o]
    /\ told[o].decisions + Weight(Kept("ui", o)) + Weight(Kept("mqtt", o)) <= disk.recorded[o]
    /\ db.recorded[o] + Weight(Owing("ui", o)) + Weight(Owing("mqtt", o)) <= db.decided[o]
    /\ disk.recorded[o] <= disk.decided[o]
    /\ ToldOf(o) + Weight(Made("ui", o)) + Weight(Made("mqtt", o)) <= Changes(db, o)
    /\ ToldOf(o) + Weight(MadeGood("ui", o)) + Weight(MadeGood("mqtt", o)) <= Changes(disk, o)

\* While no transaction of another was rolled back, the books balance.
Books == ~past.rolledBack => \A o \in Objects : Balanced(o)

\* The step adds nothing to what c's request stands for.
NoHigher(c) ==
    \A o \in Objects :
        /\ Entered(c, o)' => Entered(c, o)
        /\ Kept(c, o)' => Kept(c, o)
        /\ Owing(c, o)' => Owing(c, o)
        /\ Made(c, o)' => Made(c, o)
        /\ MadeGood(c, o)' => MadeGood(c, o)

\* c's request stands for nothing: it has changed nothing.
Nothing(c) ==
    \A o \in Objects :
        ~Entered(c, o) /\ ~Kept(c, o) /\ ~Owing(c, o) /\ ~Made(c, o) /\ ~MadeGood(c, o)

LEMMA NumbersTyped ==
    ASSUME Typed, NEW o \in Objects
    PROVE  /\ told[o].decisions \in Nat /\ told[o].changes \in Nat /\ ToldOf(o) \in Nat
           /\ db.recorded[o] \in Nat /\ db.decided[o] \in Nat /\ db.retried[o] \in Nat
           /\ disk.recorded[o] \in Nat /\ disk.decided[o] \in Nat /\ disk.retried[o] \in Nat
           /\ Changes(db, o) \in Nat /\ Changes(disk, o) \in Nat
<1>1. told[o].decisions \in Nat /\ told[o].changes \in Nat
  BY DEF Typed, Rest
<1>2. /\ db.recorded[o] \in Nat /\ db.decided[o] \in Nat /\ db.retried[o] \in Nat
      /\ disk.recorded[o] \in Nat /\ disk.decided[o] \in Nat /\ disk.retried[o] \in Nat
  BY DEF Typed, Data, Databases
<1> QED BY <1>1, <1>2 DEF ToldOf, Changes

\* What is committed is made.
LEMMA KeptIsEntered ==
    ASSUME NEW c, NEW o
    PROVE  (Kept(c, o) => Entered(c, o)) /\ (MadeGood(c, o) => Made(c, o))
BY DEF Kept, Entered, MadeGood, Made

LEMMA NothingStands ==
    ASSUME NEW c, \/ job[c].phase = "idle" \/ job[c].op \notin Ops
                  \/ job[c].phase = "services" /\ job[c].at = "raise"
                  \/ job[c].phase = "services" /\ job[c].at = "update" /\ ~job[c].hit
    PROVE  Nothing(c)
BY DEF Nothing, Entered, Kept, Owing, Made, MadeGood, Deciding, Changing, Through, Writing, Ops

LEMMA NothingStandsNext ==
    ASSUME NEW c, \/ job'[c].phase = "idle" \/ job'[c].op \notin Ops
                  \/ job'[c].phase = "services" /\ job'[c].at = "raise"
                  \/ job'[c].phase = "services" /\ job'[c].at = "update" /\ ~job'[c].hit
    PROVE  Nothing(c)' /\ NoHigher(c)
<1>1. Nothing(c)'
  BY DEF Nothing, Entered, Kept, Owing, Made, MadeGood, Deciding, Changing, Through, Writing, Ops
<1> QED BY <1>1 DEF Nothing, NoHigher

\* Those that the step is not about.
LEMMA OthersKept ==
    ASSUME Jobs, NEW c \in Coroutines, NEW k, job' = [job EXCEPT ![c] = k],
           NEW d \in Senders, d # c,
           d \in Elems(results') <=> d \in Elems(results)
    PROVE  NoHigher(d)
<1>1. job'[d] = job[d] /\ (Served(d)' <=> Served(d))
  BY DEF Jobs, Senders, Coroutines, Served
<1> QED
  BY <1>1 DEF NoHigher, Entered, Kept, Owing, Made, MadeGood, Deciding, Changing, Through, Writing

LEMMA StillThrough ==
    ASSUME NEW c, Through(c), job'[c].phase # "services", job'[c].op = job[c].op,
           job'[c].object = job[c].object, job'[c].hit = job[c].hit
    PROVE  NoHigher(c)
<1>1. ~Writing(c)'
  BY DEF Writing
<1> QED BY <1>1 DEF NoHigher, Entered, Kept, Owing, Made, MadeGood, Deciding, Changing

\* A step that adds nothing and leaves the database alone.
LEMMA BooksKept ==
    ASSUME Typed, Books, NoHigher("ui"), NoHigher("mqtt"),
           db' = db, disk' = disk, told' = told, past'.rolledBack = past.rolledBack
    PROVE  Books'
<1> SUFFICES ASSUME ~past.rolledBack, NEW o \in Objects PROVE Balanced(o)'
  BY DEF Books
<1>1. Balanced(o)
  BY DEF Books
<1>2. ToldOf(o)' = ToldOf(o) /\ Changes(db, o)' = Changes(db, o)
      /\ Changes(disk, o)' = Changes(disk, o)
  BY DEF ToldOf, Changes
<1> QED BY <1>1, <1>2, NumbersTyped DEF Balanced, NoHigher, Weight

LEMMA InitBooks == Init => Laws /\ Books
<1> SUFFICES ASSUME Init PROVE Laws /\ Books
  OBVIOUS
<1>1. /\ \A o \in Objects : db.recorded[o] = 0 /\ db.decided[o] = 0 /\ db.retried[o] = 0
      /\ disk = db
  BY DEF Init, NoCounters
<1>2. \A c \in Senders : job[c].phase = "idle"
  BY DEF Init, Senders, Coroutines, Idle
<1>3. \A o \in Objects : told[o].decisions = 0 /\ told[o].changes = 0
  BY DEF Init
<1>4. \A c \in Senders : Nothing(c)
  BY <1>2, NothingStands
<1>5. \A o \in Objects : Balanced(o)
  BY <1>1, <1>3, <1>4 DEF Balanced, Nothing, Senders, Weight, ToldOf, Changes
<1> QED BY <1>1, <1>5 DEF Laws, Lawful, Books

\* What an update does to each row.
LEMMA UpdateDoes ==
    ASSUME Typed, NEW c \in Coroutines, job[c].phase \in {"services", "sync"},
           job[c].at = "update"
    PROVE  /\ Named(job[c])
           /\ ~Matches(job[c].op, job[c].object) => Effect(c) = db
           /\ Matches(job[c].op, job[c].object) => \A o \in Objects :
                /\ Effect(c).recorded[o] = db.recorded[o]
                /\ Effect(c).state[o] = IF o = job[c].object THEN To(job[c].op, o)
                                        ELSE db.state[o]
                /\ Effect(c).decided[o] = IF o = job[c].object /\ job[c].op # "retry"
                                          THEN db.decided[o] + 1 ELSE db.decided[o]
                /\ Effect(c).retried[o] = IF o = job[c].object /\ job[c].op = "retry"
                                          THEN db.retried[o] + 1 ELSE db.retried[o]
<1> DEFINE j == job[c]
<1>1. Named(j)
  BY DEF Typed, Jobs, Sane, Queries
<1>2. Effect(c) = Update(j.op, j.object)
  BY DEF Effect
<1>3. db \in Databases
  BY DEF Typed, Data
<1>4. CASE ~Matches(j.op, j.object)
  BY <1>1, <1>2, <1>4 DEF Update
<1>5. CASE Matches(j.op, j.object)
  <2>1. Effect(c) =
          [db EXCEPT !.state[j.object] = To(j.op, j.object),
                     !.decided[j.object] = IF j.op = "retry" THEN @ ELSE @ + 1,
                     !.retried[j.object] = IF j.op = "retry" THEN @ + 1 ELSE @]
    BY <1>2, <1>5 DEF Update
  <2>2. /\ Effect(c).state = [db.state EXCEPT ![j.object] = To(j.op, j.object)]
        /\ Effect(c).decided = [db.decided EXCEPT
                                  ![j.object] = IF j.op = "retry" THEN @ ELSE @ + 1]
        /\ Effect(c).retried = [db.retried EXCEPT
                                  ![j.object] = IF j.op = "retry" THEN @ + 1 ELSE @]
        /\ Effect(c).recorded = db.recorded
    BY <1>3, <2>1 DEF Databases
  <2>3. /\ db.state \in [Objects -> TaskStates \cup NoticeStates]
        /\ db.decided \in [Objects -> Nat] /\ db.retried \in [Objects -> Nat]
    BY <1>3 DEF Databases
  <2> QED BY <1>1, <1>5, <2>2, <2>3
<1> QED BY <1>1, <1>4, <1>5

\* WHERE state = ? lets a row be decided only when that is still to come.
LEMMA EffectLawful ==
    ASSUME Typed, Laws, NEW c \in Coroutines, job[c].phase \in {"services", "sync"}
    PROVE  Lawful(Effect(c))
<1> DEFINE j == job[c]
<1>1. Lawful(db) /\ db \in Databases
  BY DEF Laws, Typed, Data
<1>2. CASE j.at = "update" /\ Matches(j.op, j.object)
  <2>1. Named(j) /\ db.state[j.object] = From(j.op, j.object)
    BY <1>2, UpdateDoes DEF Matches
  <2> SUFFICES ASSUME NEW o \in Objects
               PROVE  /\ Effect(c).decided[o] <= Effect(c).retried[o] + 1
                      /\ Effect(c).state[o] = From("confirm", o) =>
                           Effect(c).decided[o] <= Effect(c).retried[o]
    BY DEF Lawful
  <2>2. /\ db.decided[o] <= db.retried[o] + 1
        /\ db.state[o] = From("confirm", o) => db.decided[o] <= db.retried[o]
        /\ db.decided[o] \in Nat /\ db.retried[o] \in Nat
    BY <1>1 DEF Lawful, Databases
  <2>3. CASE o # j.object
    BY <1>2, <2>2, <2>3, UpdateDoes
  <2>4. CASE o = j.object /\ j.op = "retry"
    BY <1>2, <2>2, <2>4, UpdateDoes
  <2>5. CASE o = j.object /\ j.op # "retry"
    <3>1. db.state[o] = From("confirm", o)
      BY <2>1, <2>5 DEF From
    <3>2. To(j.op, o) # From("confirm", o)
      BY <2>1, <2>5, DecisionsAre, ObjectsAssumption DEF Named, To, From, Objects
    <3> QED BY <1>2, <2>2, <2>5, <3>1, <3>2, UpdateDoes
  <2> QED BY <2>3, <2>4, <2>5
<1>3. CASE j.at = "update" /\ ~Matches(j.op, j.object)
  BY <1>1, <1>3, UpdateDoes
<1>4. CASE j.at = "record"
  <2>1. /\ Effect(c).decided = db.decided /\ Effect(c).retried = db.retried
        /\ Effect(c).state = db.state
    BY <1>1, <1>4 DEF Effect, Databases
  <2> QED BY <1>1, <2>1 DEF Lawful
<1>5. CASE j.at \notin {"update", "record"}
  BY <1>1, <1>5 DEF Effect
<1> QED BY <1>2, <1>3, <1>4, <1>5

LEMMA NextLawful == Typed /\ Laws /\ [Next]_vars => Laws'
<1> SUFFICES ASSUME Typed, Laws, [Next]_vars PROVE Laws'
  OBVIOUS
<1>1. CASE Serve
  <2>1. PICK c \in Coroutines : c = Head(queue) /\ job[c].phase \in {"services", "sync"}
    <3>1. Head(queue) \in Coroutines /\ Head(queue) \in Elems(queue)
      BY <1>1, OnceRemoved DEF Serve, Typed, Placed
    <3> QED BY <3>1 DEF Typed, Placed, InPhase
  <2>2. db' = Effect(c) /\ disk' \in {db, disk}
    BY <1>1, <2>1 DEF Serve
  <2>3. Lawful(db)' /\ Lawful(disk)'
    BY <2>1, <2>2, EffectLawful DEF Laws, Lawful
  <2> QED BY <2>3 DEF Laws
<1>2. CASE db' \in {db, disk} /\ disk' = disk
  BY <1>2 DEF Laws, Lawful
<1>3. CASE ~Serve
  <2>1. db' \in {db, disk} /\ disk' = disk
    BY <1>3 DEF Next, vars, Raise, Resume, Granted, Restart, FinishSync, GiveUpSending,
                     Expire, Resync, Ask
  <2> QED BY <1>2, <2>1
<1> QED BY <1>1, <1>3

\* An update that finds its row is entered in the books as made and, for a
\* decision, as owing its confirmation.
LEMMA UpdateBooked ==
    ASSUME Typed, Books, NEW c \in Coroutines, c \notin Elems(results),
           job[c].phase \in {"services", "sync"}, job[c].at = "update", ~job[c].hit,
           Matches(job[c].op, job[c].object), Answer(c).hit,
           db' = Effect(c), disk' = disk, told' = told, past' = past,
           job' = [job EXCEPT ![c] = Answer(c)],
           Elems(results') = Elems(results) \cup {c}
    PROVE  Books'
<1> SUFFICES ASSUME ~past.rolledBack, NEW o \in Objects PROVE Balanced(o)'
  BY DEF Books
<1>1. Balanced(o)
  BY DEF Books
<1>2. /\ Named(job[c]) /\ job[c].phase = "services"
      /\ db'.recorded[o] = db.recorded[o]
      /\ db'.decided[o] = IF o = job[c].object /\ job[c].op # "retry"
                          THEN db.decided[o] + 1 ELSE db.decided[o]
      /\ db'.retried[o] = IF o = job[c].object /\ job[c].op = "retry"
                          THEN db.retried[o] + 1 ELSE db.retried[o]
  BY UpdateDoes DEF Typed, Jobs, Sane, Queries
<1>3. /\ job'[c].op = job[c].op /\ job'[c].object = job[c].object
      /\ job'[c].phase = "services" /\ job'[c].at = "update"
  BY <1>2, AnswerTyped DEF Typed, Jobs
<1>4. Nothing(c)
  BY <1>2, NothingStands
<1>5. ~Entered(c, o)' /\ ~Kept(c, o)' /\ ~MadeGood(c, o)'
  BY <1>3 DEF Entered, Kept, MadeGood, Through
<1>6. Owing(c, o)' => o = job[c].object /\ job[c].op # "retry"
  BY <1>3, DecisionsAre DEF Owing, Deciding
<1>7. Made(c, o)' => o = job[c].object /\ (o \in Tasks <=> job[c].op = "retry")
  BY <1>2, <1>3 DEF Made, Changing, Named
<1>8. \A d \in Senders : d # c => NoHigher(d)
  BY AnswerTyped, OthersKept DEF Typed
<1>9. \A d \in Senders :
        /\ Weight(Entered(d, o)') <= Weight(Entered(d, o))
        /\ Weight(Kept(d, o)') <= Weight(Kept(d, o))
        /\ Weight(MadeGood(d, o)') <= Weight(MadeGood(d, o))
        /\ d # c => /\ Weight(Owing(d, o)') <= Weight(Owing(d, o))
                    /\ Weight(Made(d, o)') <= Weight(Made(d, o))
  BY <1>5, <1>8 DEF NoHigher, Weight
<1>10. /\ Weight(Owing(c, o)) = 0 /\ Weight(Made(c, o)) = 0
       /\ db.decided[o] + Weight(Owing(c, o)') <= db'.decided[o]
       /\ Changes(db, o) + Weight(Made(c, o)') <= Changes(db', o)
       /\ Changes(db, o) <= Changes(db', o) /\ db.decided[o] <= db'.decided[o]
  BY <1>2, <1>4, <1>6, <1>7, NumbersTyped DEF Nothing, Weight, Changes
<1>11. ToldOf(o)' = ToldOf(o) /\ Changes(db, o)' = Changes(db', o)
       /\ Changes(disk, o)' = Changes(disk, o)
  BY DEF ToldOf, Changes
<1>12. \A b : Weight(b) \in {0, 1}
  BY DEF Weight
<1>13. Changes(db', o) \in Nat /\ db'.decided[o] \in Nat /\ db'.recorded[o] \in Nat
  BY <1>2, NumbersTyped DEF Changes
<1>14. CASE c \in Senders
  <2>1. CASE c = "ui"
    BY <1>1, <1>2, <1>9, <1>10, <1>11, <1>12, <1>13, <2>1, NumbersTyped DEF Balanced, Senders
  <2>2. CASE c = "mqtt"
    BY <1>1, <1>2, <1>9, <1>10, <1>11, <1>12, <1>13, <2>2, NumbersTyped DEF Balanced, Senders
  <2> QED BY <1>14, <2>1, <2>2 DEF Senders
<1>15. CASE c \notin Senders
  BY <1>1, <1>2, <1>9, <1>10, <1>11, <1>12, <1>13, <1>15, NumbersTyped DEF Balanced, Senders
<1> QED BY <1>14, <1>15

\* The row in confirmations is what the decision owed.
LEMMA RecordBooked ==
    ASSUME Typed, Books, NEW c \in Coroutines, c \notin Elems(results),
           job[c].phase \in {"services", "sync"}, job[c].at = "record",
           db' = Effect(c), disk' = disk, told' = told, past' = past,
           job' = [job EXCEPT ![c] = Answer(c)],
           Elems(results') = Elems(results) \cup {c}
    PROVE  Books'
<1> SUFFICES ASSUME ~past.rolledBack, NEW o \in Objects PROVE Balanced(o)'
  BY DEF Books
<1>1. Balanced(o)
  BY DEF Books
<1>2. /\ Named(job[c]) /\ job[c].phase = "services" /\ job[c].hit
      /\ job[c].op \in Decisions
  BY DecisionsAre DEF Typed, Jobs, Sane, Queries, Statements, Named
<1>3. job'[c] = job[c] /\ Served(c)' /\ ~Served(c)
  BY DEF Answer, Served, Typed, Jobs
<1>4. /\ db'.decided = db.decided /\ db'.retried = db.retried
      /\ db'.recorded[o] = IF o = job[c].object THEN db.recorded[o] + 1 ELSE db.recorded[o]
  BY <1>2 DEF Effect, Named, Typed, Data, Databases
<1>5. /\ ~Entered(c, o) /\ ~Kept(c, o)' /\ ~Owing(c, o)'
      /\ Entered(c, o)' <=> o = job[c].object
      /\ Owing(c, o) <=> o = job[c].object
      /\ Made(c, o)' => Made(c, o)
      /\ MadeGood(c, o)' => MadeGood(c, o)
  BY <1>2, <1>3 DEF Entered, Kept, Owing, Made, MadeGood, Deciding, Changing, Through, Writing
<1>6. \A d \in Senders : d # c => NoHigher(d)
  BY AnswerTyped, OthersKept DEF Typed
<1>7. \A d \in Senders :
        /\ Weight(Kept(d, o)') <= Weight(Kept(d, o))
        /\ Weight(Made(d, o)') <= Weight(Made(d, o))
        /\ Weight(MadeGood(d, o)') <= Weight(MadeGood(d, o))
        /\ d # c => /\ Weight(Entered(d, o)') <= Weight(Entered(d, o))
                    /\ Weight(Owing(d, o)') <= Weight(Owing(d, o))
  BY <1>5, <1>6 DEF NoHigher, Weight
<1>8. /\ Weight(Entered(c, o)) = 0 /\ Weight(Owing(c, o)') = 0
      /\ Weight(Entered(c, o)') = db'.recorded[o] - db.recorded[o]
      /\ Weight(Owing(c, o)) = db'.recorded[o] - db.recorded[o]
      /\ db'.recorded[o] \in Nat
  BY <1>4, <1>5, NumbersTyped DEF Weight
<1>9. ToldOf(o)' = ToldOf(o) /\ Changes(db, o)' = Changes(db, o)
      /\ Changes(disk, o)' = Changes(disk, o)
  BY <1>4 DEF ToldOf, Changes
<1>10. \A b : Weight(b) \in {0, 1}
  BY DEF Weight
<1>11. c \in Senders
  BY <1>2, DecisionsAre DEF Typed, Jobs, Coroutines, Senders
<1>12. CASE c = "ui"
  BY <1>1, <1>4, <1>7, <1>8, <1>9, <1>10, <1>12, NumbersTyped DEF Balanced, Senders
<1>13. CASE c = "mqtt"
  BY <1>1, <1>4, <1>7, <1>8, <1>9, <1>10, <1>13, NumbersTyped DEF Balanced, Senders
<1> QED BY <1>11, <1>12, <1>13 DEF Senders

\* A commit commits everybody's rows.
LEMMA CommitBooked ==
    ASSUME Typed, Books, NEW c \in Coroutines, c \notin Elems(results),
           job[c].phase \in {"services", "sync"}, job[c].at \in {"commit", "save"},
           db' = db, disk' = db, told' = told, past' = past,
           job' = [job EXCEPT ![c] = Answer(c)],
           Elems(results') = Elems(results) \cup {c}
    PROVE  Books'
<1> SUFFICES ASSUME ~past.rolledBack, NEW o \in Objects PROVE Balanced(o)'
  BY DEF Books
<1>1. Balanced(o)
  BY DEF Books
<1>2. job[c].phase = "services"
  BY DEF Typed, Jobs, Sane, Queries
<1>3. job'[c] = job[c] /\ Served(c)' /\ ~Served(c)
  BY DEF Answer, Served, Typed, Jobs
<1>4. /\ Entered(c, o)' => Entered(c, o)
      /\ Owing(c, o)' => Owing(c, o)
      /\ Made(c, o)' => Made(c, o)
  BY <1>2, <1>3 DEF Entered, Owing, Made, Deciding, Changing, Through, Writing
<1>5. \A d \in Senders : d # c => NoHigher(d)
  BY AnswerTyped, OthersKept DEF Typed
<1>6. \A d \in Senders : (Kept(d, o)' => Entered(d, o)') /\ (MadeGood(d, o)' => Made(d, o)')
  BY DEF Kept, Entered, MadeGood, Made
<1>7. \A d \in Senders :
        /\ Weight(Entered(d, o)') <= Weight(Entered(d, o))
        /\ Weight(Owing(d, o)') <= Weight(Owing(d, o))
        /\ Weight(Made(d, o)') <= Weight(Made(d, o))
        /\ Weight(Kept(d, o)') <= Weight(Entered(d, o))
        /\ Weight(MadeGood(d, o)') <= Weight(Made(d, o))
  BY <1>4, <1>5, <1>6 DEF NoHigher, Weight
<1>8. ToldOf(o)' = ToldOf(o) /\ Changes(db, o)' = Changes(db, o)
      /\ Changes(disk, o)' = Changes(db, o)
  BY DEF ToldOf, Changes
<1>9. \A b : Weight(b) \in {0, 1}
  BY DEF Weight
<1> QED BY <1>1, <1>7, <1>8, <1>9, NumbersTyped DEF Balanced, Senders

LEMMA ServeBooked == ASSUME Typed, Books, Serve PROVE Books'
<1>1. PICK c \in Coroutines : /\ c = Head(queue) /\ c \in Elems(queue)
                              /\ job[c].phase \in {"services", "sync"}
  <2>1. Head(queue) \in Coroutines /\ Head(queue) \in Elems(queue)
    BY OnceRemoved DEF Serve, Typed, Placed
  <2> QED BY <2>1 DEF Typed, Placed, InPhase
<1>2. c \notin Elems(results) /\ Elems(results') = Elems(results) \cup {c}
  BY <1>1, OnceAppended DEF Serve, Typed, Placed
<1>3. /\ db' = Effect(c) /\ job' = [job EXCEPT ![c] = Answer(c)]
      /\ disk' = (IF job[c].at \in {"commit", "save"} THEN db ELSE disk)
      /\ told' = told /\ past' = past
  BY <1>1 DEF Serve
<1>4. /\ Answer(c).phase = job[c].phase /\ Answer(c).op = job[c].op
      /\ Answer(c).object = job[c].object /\ Answer(c).at = job[c].at
      /\ Answer(c).hit = IF job[c].at = "update" THEN Matches(job[c].op, job[c].object)
                         ELSE job[c].hit
      /\ job'[c] = Answer(c) /\ job[c].at # "raise"
      /\ job[c].at = "update" => ~job[c].hit
  BY <1>1, <1>3, AnswerTyped DEF Typed, Jobs
<1>5. \A d \in Senders : d # c => NoHigher(d)
  BY <1>2, <1>3, <1>4, OthersKept DEF Typed
<1>6. CASE job[c].at = "update" /\ Matches(job[c].op, job[c].object)
  BY <1>1, <1>2, <1>3, <1>4, <1>6, UpdateBooked
<1>7. CASE job[c].at = "update" /\ ~Matches(job[c].op, job[c].object)
  <2>1. db' = db /\ disk' = disk
    BY <1>1, <1>3, <1>7, UpdateDoes
  <2>2. job[c].phase = "services"
    BY <1>1, <1>7 DEF Typed, Jobs, Sane, Queries
  <2>3. NoHigher(c)
    BY <1>4, <1>7, <2>2, NothingStandsNext
  <2> QED BY <1>3, <1>5, <2>1, <2>3, BooksKept DEF Senders
<1>8. CASE job[c].at = "record"
  BY <1>1, <1>2, <1>3, <1>8, RecordBooked
<1>9. CASE job[c].at \in {"commit", "save"}
  <2>1. db' = db /\ disk' = db
    BY <1>3, <1>9 DEF Effect
  <2> QED BY <1>1, <1>2, <1>3, <1>9, <2>1, CommitBooked
<1>10. CASE job[c].at \notin {"update", "record", "commit", "save"}
  <2>1. db' = db /\ disk' = disk
    BY <1>3, <1>10 DEF Effect
  <2>2. NoHigher(c)
    <3>1. CASE job[c].phase = "sync"
      BY <1>4, <1>10, <3>1, StillThrough DEF Through
    <3>2. CASE job[c].phase = "services"
      BY <1>4, <1>10, <3>2
         DEF NoHigher, Entered, Kept, Owing, Made, MadeGood, Deciding, Changing, Through, Writing
    <3> QED BY <1>1, <3>1, <3>2
  <2> QED BY <1>3, <1>5, <2>1, <2>2, BooksKept DEF Senders
<1> QED BY <1>6, <1>7, <1>8, <1>9, <1>10

LEMMA RaiseBooked == ASSUME Typed, Books, Raise PROVE Books'
<1>1. PICK c \in Coroutines : /\ c = Head(queue) /\ c \in Elems(queue)
                              /\ job[c].phase \in {"services", "sync"}
  <2>1. Head(queue) \in Coroutines /\ Head(queue) \in Elems(queue)
    BY OnceRemoved DEF Raise, Typed, Placed
  <2> QED BY <2>1 DEF Typed, Placed, InPhase
<1>2. Elems(results') = Elems(results) \cup {c}
  BY <1>1, OnceAppended DEF Raise, Typed, Placed
<1>3. job' = [job EXCEPT ![c] = [job[c] EXCEPT !.at = "raise"]]
  BY <1>1 DEF Raise
<1>4. /\ job'[c].phase = job[c].phase /\ job'[c].op = job[c].op
      /\ job'[c].object = job[c].object /\ job'[c].hit = job[c].hit /\ job'[c].at = "raise"
  BY <1>3 DEF Typed, Jobs, JobType
<1>5. \A d \in Senders : d # c => NoHigher(d)
  BY <1>2, <1>3, OthersKept DEF Typed
<1>6. NoHigher(c)
  <2>1. CASE job[c].phase = "sync"
    BY <1>4, <2>1, StillThrough DEF Through
  <2>2. CASE job[c].phase = "services"
    BY <1>4, <2>2, NothingStandsNext
  <2> QED BY <1>1, <2>1, <2>2
<1>7. disk' = disk /\ told' = told
      /\ past'.rolledBack = (past.rolledBack \/ db' # db)
  BY DEF Raise, Typed, Rest
<1>8. CASE db' = db
  <2>1. past'.rolledBack = past.rolledBack
    BY <1>7, <1>8, Zenon DEF Typed, Rest
  <2> QED BY <1>5, <1>6, <1>7, <1>8, <2>1, BooksKept DEF Senders
<1>9. CASE db' # db
  BY <1>7, <1>9 DEF Books
<1> QED BY <1>8, <1>9

\* What a sender is told of is what its request stood for.
LEMMA TellCounts ==
    ASSUME Typed, NEW c \in Coroutines, job[c].phase \in {"sync", "send"}, Tell(c),
           NEW o \in Objects
    PROVE  /\ told'[o].decisions = told[o].decisions + Weight(Entered(c, o))
           /\ told'[o].decisions = told[o].decisions + Weight(Kept(c, o))
           /\ ToldOf(o)' = ToldOf(o) + Weight(Made(c, o))
           /\ ToldOf(o)' = ToldOf(o) + Weight(MadeGood(c, o))
<1> DEFINE q == job[c].object
<1>1. /\ Entered(c, o) <=> Deciding(c, o)
      /\ Kept(c, o) <=> Deciding(c, o)
  BY DEF Entered, Kept, Through
<1>2. Sane(job[c]) /\ told \in [Objects -> [decisions: Nat, changes: Nat]]
  BY DEF Typed, Jobs, Rest
<1>3. job[c].op \in Ops => Named(job[c]) /\ job[c].hit
  BY <1>2, DecisionsAre DEF Sane
<1>4. /\ Made(c, o) <=> Changing(c, o)
      /\ MadeGood(c, o) <=> Changing(c, o)
  BY <1>3 DEF Made, MadeGood, Through, Writing, Changing
<1>5. CASE job[c].op \in Decisions
  <2>1. told' = [told EXCEPT ![q].decisions = @ + 1]
    BY <1>5, DecisionsAre DEF Tell
  <2>2. /\ told'[o].decisions = IF o = q THEN told[o].decisions + 1 ELSE told[o].decisions
        /\ told'[o].changes = told[o].changes
    BY <1>2, <1>3, <1>5, <2>1, DecisionsAre DEF Named
  <2>3. /\ Deciding(c, o) <=> o = q
        /\ Changing(c, o) <=> o = q /\ o \in Notices
    BY <1>5, DecisionsAre, ObjectsAssumption DEF Deciding, Changing, Objects
  <2>4. told[o].decisions \in Nat /\ told[o].changes \in Nat
    BY <1>2
  <2> QED BY <1>1, <1>4, <2>2, <2>3, <2>4 DEF Weight, ToldOf
<1>6. CASE job[c].op \in {"retry", "dismiss"}
  <2>1. told' = [told EXCEPT ![q].changes = @ + 1]
    BY <1>6, DecisionsAre DEF Tell
  <2>2. /\ told'[o].changes = IF o = q THEN told[o].changes + 1 ELSE told[o].changes
        /\ told'[o].decisions = told[o].decisions
    BY <1>2, <1>3, <1>6, <2>1, DecisionsAre DEF Named
  <2>3. /\ ~Deciding(c, o)
        /\ Changing(c, o) <=> o = q
    BY <1>3, <1>6, DecisionsAre, ObjectsAssumption DEF Deciding, Changing, Named
  <2>4. told[o].decisions \in Nat /\ told[o].changes \in Nat
    BY <1>2
  <2> QED BY <1>1, <1>4, <2>2, <2>3, <2>4 DEF Weight, ToldOf
<1>7. CASE job[c].op \notin Ops
  <2>1. told' = told /\ ~Deciding(c, o) /\ ~Changing(c, o)
    BY <1>7, DecisionsAre DEF Tell, Deciding, Changing
  <2> QED BY <1>1, <1>2, <1>4, <2>1 DEF Weight, ToldOf
<1> QED BY <1>5, <1>6, <1>7, DecisionsAre

\* The end of a sync, when the sender is answered.
LEMMA ReleaseBooked ==
    ASSUME Typed, Books, NEW c \in Coroutines, job[c].phase \in {"sync", "send"}, Tell(c),
           job' = [job EXCEPT ![c] = Idle], db' = db, disk' = disk, past' = past,
           \A d \in Coroutines : d # c => (d \in Elems(results') <=> d \in Elems(results))
    PROVE  Books'
<1> SUFFICES ASSUME ~past.rolledBack, NEW o \in Objects PROVE Balanced(o)'
  BY DEF Books
<1>1. Balanced(o)
  BY DEF Books
<1>2. Nothing(c)'
  BY NothingStandsNext DEF Typed, Jobs, Idle
<1>3. \A d \in Senders : d # c => NoHigher(d)
  BY OthersKept DEF Typed, Senders, Coroutines
<1>4. /\ ~Entered(c, o)' /\ ~Kept(c, o)' /\ ~Owing(c, o)' /\ ~Made(c, o)' /\ ~MadeGood(c, o)'
  BY <1>2 DEF Nothing
<1>5. \A d \in Senders :
        /\ Weight(Owing(d, o)') <= Weight(Owing(d, o))
        /\ d # c => /\ Weight(Entered(d, o)') <= Weight(Entered(d, o))
                    /\ Weight(Kept(d, o)') <= Weight(Kept(d, o))
                    /\ Weight(Made(d, o)') <= Weight(Made(d, o))
                    /\ Weight(MadeGood(d, o)') <= Weight(MadeGood(d, o))
  BY <1>3, <1>4 DEF NoHigher, Weight
<1>6. /\ Weight(Entered(c, o)') = 0 /\ Weight(Kept(c, o)') = 0
      /\ Weight(Made(c, o)') = 0 /\ Weight(MadeGood(c, o)') = 0
  BY <1>4 DEF Weight
<1>7. /\ told'[o].decisions = told[o].decisions + Weight(Entered(c, o))
      /\ told'[o].decisions = told[o].decisions + Weight(Kept(c, o))
      /\ ToldOf(o)' = ToldOf(o) + Weight(Made(c, o))
      /\ ToldOf(o)' = ToldOf(o) + Weight(MadeGood(c, o))
  BY TellCounts
<1>8. Changes(db, o)' = Changes(db, o) /\ Changes(disk, o)' = Changes(disk, o)
  BY DEF Changes
<1>9. \A b : Weight(b) \in {0, 1}
  BY DEF Weight
<1>10. CASE c = "ui"
  BY <1>1, <1>5, <1>6, <1>7, <1>8, <1>9, <1>10, NumbersTyped DEF Balanced, Senders
<1>11. CASE c = "mqtt"
  BY <1>1, <1>5, <1>6, <1>7, <1>8, <1>9, <1>11, NumbersTyped DEF Balanced, Senders
<1>12. CASE c = "start"
  <2>1. job[c].op \notin Ops
    BY <1>12, DecisionsAre DEF Typed, Jobs
  <2>2. Nothing(c)
    BY <2>1, NothingStands
  <2>3. /\ Weight(Entered(c, o)) = 0 /\ Weight(Kept(c, o)) = 0
        /\ Weight(Made(c, o)) = 0 /\ Weight(MadeGood(c, o)) = 0
    BY <2>2 DEF Nothing, Weight
  <2> QED BY <1>1, <1>5, <1>7, <1>8, <1>9, <1>12, <2>3, NumbersTyped DEF Balanced, Senders
<1> QED BY <1>10, <1>11, <1>12 DEF Coroutines

LEMMA ResumeBooked == ASSUME Typed, Books, Resume PROVE Books'
<1>1. PICK c \in Coroutines : c = Head(results)
  BY OnceRemoved DEF Resume, Typed, Placed
<1>2. /\ c \in Elems(results) /\ Elems(results') = Elems(results) \ {c}
      /\ db' = db /\ disk' = disk /\ Served(c) /\ ~Served(c)'
  BY <1>1, OnceRemoved DEF Resume, Typed, Placed, Served
<1>3. job[c] \in JobType /\ Sane(job[c]) /\ job \in [Coroutines -> JobType]
  BY DEF Typed, Jobs
<1>4. \A k : job' = [job EXCEPT ![c] = k] =>
               job'[c] = k /\ \A d \in Senders : d # c => NoHigher(d)
  BY <1>2, <1>3, OthersKept DEF Typed
<1>5. ASSUME NEW k, job' = [job EXCEPT ![c] = k], NoHigher(c),
             told' = told, past'.rolledBack = past.rolledBack
      PROVE  Books'
  BY <1>2, <1>4, <1>5, BooksKept DEF Senders
<1>6. CASE Refuse(c) \/ Fail(c)
  <2>1. job' = [job EXCEPT ![c] = Idle] /\ told' = told /\ past' = past
    BY <1>6 DEF Refuse, Fail
  <2>2. NoHigher(c)
    BY <1>4, <2>1, NothingStandsNext DEF Idle
  <2> QED BY <1>5, <2>1, <2>2
<1>7. CASE NextStatement(c)
  <2> DEFINE k == Awaiting(job[c])
  <2>1. /\ job[c].phase = "services" /\ NextOf(c) # "done"
        /\ job' = [job EXCEPT ![c] = k] /\ told' = told /\ past' = past
    BY <1>7 DEF NextStatement, AwaitNext
  <2>2. job[c].at # "raise" /\ Named(job[c]) /\ job[c].at \in Statements(job[c].op)
    BY <1>3, <2>1 DEF Sane, NextOf, After
  <2>3. /\ job'[c].phase = job[c].phase /\ job'[c].op = job[c].op
        /\ job'[c].object = job[c].object /\ job'[c].hit = job[c].hit
        /\ job'[c].at = NextOf(c)
    BY <1>3, <1>4, <2>1, AwaitingHas DEF NextOf
  <2>4. /\ NextOf(c) \notin {"update", "raise"}
        /\ NextOf(c) = "commit" => job[c].at = "update"
        /\ NextOf(c) = "get" => job[c].at = "commit"
        /\ NextOf(c) = "record" => job[c].at = "get"
        /\ NextOf(c) = "save" => job[c].at = "record"
        /\ NextOf(c) = "count" => job[c].at = "save" \/ job[c].op = "retry"
    BY <2>1, <2>2, AfterStatement DEF NextOf, Named
  <2>5. NoHigher(c)
    <3> SUFFICES ASSUME NEW o \in Objects
                 PROVE  /\ Entered(c, o)' => Entered(c, o)
                        /\ Kept(c, o)' => Kept(c, o)
                        /\ Owing(c, o)' => Owing(c, o)
                        /\ Made(c, o)' => Made(c, o)
                        /\ MadeGood(c, o)' => MadeGood(c, o)
      BY DEF NoHigher
    <3>1. (Deciding(c, o)' <=> Deciding(c, o)) /\ (Changing(c, o)' <=> Changing(c, o))
      BY <2>3 DEF Deciding, Changing
    <3>2. ~Through(c)' /\ Writing(c) /\ Writing(c)'
      BY <2>1, <2>3 DEF Through, Writing
    <3>3. Deciding(c, o) => job[c].op # "retry"
      BY DecisionsAre DEF Deciding
    <3>4. (Entered(c, o)' => Entered(c, o)) /\ (Kept(c, o)' => Kept(c, o))
      BY <1>2, <2>3, <2>4, <3>1, <3>2, <3>3 DEF Entered, Kept
    <3>5. Owing(c, o)' => Owing(c, o)
      BY <1>2, <2>3, <2>4, <3>1, <3>2 DEF Owing
    <3>6. Made(c, o)' => Made(c, o)
      BY <2>2, <2>3, <3>1, <3>2 DEF Made
    <3>7. MadeGood(c, o)' => MadeGood(c, o)
      <4>1. job[c].at = "update" => NextOf(c) = "commit"
        BY DEF NextOf, After
      <4> QED BY <1>2, <2>2, <2>3, <3>1, <3>2, <4>1 DEF MadeGood
    <3> QED BY <3>4, <3>5, <3>6, <3>7
  <2> QED BY <1>5, <2>1, <2>5
<1>8. CASE Conclude(c)
  <2> DEFINE k == AwaitLock(job[c])
  <2>1. /\ job[c].phase = "services" /\ NextOf(c) = "done" /\ job[c].at # "raise"
        /\ job' = [job EXCEPT ![c] = k] /\ told' = told
    BY <1>8 DEF Conclude
  <2>2. Named(job[c]) /\ job[c].at \in Statements(job[c].op)
    BY <1>3, <2>1 DEF Sane
  <2>3. job[c].at = "count" \/ (job[c].at = "get" /\ job[c].op = "dismiss")
    BY <2>1, <2>2, AfterStatement DEF NextOf, Named
  <2>4. /\ job'[c].phase = "lock" /\ job'[c].op = job[c].op
        /\ job'[c].object = job[c].object /\ job'[c].hit = job[c].hit
    BY <1>3, <1>4, <2>1, AwaitLockTyped
  <2>5. NoHigher(c)
    <3> SUFFICES ASSUME NEW o \in Objects
                 PROVE  /\ Entered(c, o)' => Entered(c, o)
                        /\ Kept(c, o)' => Kept(c, o)
                        /\ Owing(c, o)' => Owing(c, o)
                        /\ Made(c, o)' => Made(c, o)
                        /\ MadeGood(c, o)' => MadeGood(c, o)
      BY DEF NoHigher
    <3>1. (Deciding(c, o)' <=> Deciding(c, o)) /\ (Changing(c, o)' <=> Changing(c, o))
      BY <2>4 DEF Deciding, Changing
    <3>2. Deciding(c, o) => job[c].at = "count"
      BY <2>3, DecisionsAre DEF Deciding
    <3>3. ~Writing(c)' /\ Writing(c)
      BY <2>1, <2>4 DEF Writing
    <3> QED BY <2>3, <2>4, <3>1, <3>2, <3>3 DEF Entered, Kept, Owing, Made, MadeGood
  <2>6. past'.rolledBack = past.rolledBack
    BY <1>8 DEF Conclude, Typed, Rest
  <2> QED BY <1>5, <2>1, <2>5, <2>6
<1>9. CASE NextQuery(c) \/ StartSending(c)
  <2>1. /\ job[c].phase = "sync" /\ told' = told /\ past' = past
        /\ \/ job' = [job EXCEPT ![c] = Awaiting(job[c])] /\ NextOf(c) # "done"
           \/ job' = [job EXCEPT ![c] = [job[c] EXCEPT !.phase = "send", !.at = "none"]]
    BY <1>9 DEF NextQuery, AwaitNext, StartSending
  <2>2. /\ job'[c].phase # "services" /\ job'[c].op = job[c].op
        /\ job'[c].object = job[c].object /\ job'[c].hit = job[c].hit
    <3>1. CASE job' = [job EXCEPT ![c] = Awaiting(job[c])] /\ NextOf(c) # "done"
      BY <1>3, <2>1, <3>1, AwaitingHas DEF NextOf
    <3>2. CASE job' = [job EXCEPT ![c] = [job[c] EXCEPT !.phase = "send", !.at = "none"]]
      BY <1>3, <2>1, <3>2 DEF JobType
    <3> QED BY <2>1, <3>1, <3>2
  <2>3. NoHigher(c)
    BY <2>1, <2>2, StillThrough DEF Through
  <2> QED BY <1>5, <2>1, <2>3
<1>10. CASE GiveUpSync(c)
  BY <1>2, <1>10, ReleaseBooked DEF GiveUpSync, Release
<1> QED BY <1>1, <1>6, <1>7, <1>8, <1>9, <1>10 DEF Resume

LEMMA NextBooked == Typed /\ Books /\ [Next]_vars => Books'
<1> SUFFICES ASSUME Typed, Books, [Next]_vars PROVE Books'
  OBVIOUS
<1>1. CASE Serve
  BY <1>1, ServeBooked
<1>2. CASE Raise
  BY <1>2, RaiseBooked
<1>3. CASE Resume
  BY <1>3, ResumeBooked
<1>4. CASE Restart
  <2>1. /\ db' = disk /\ disk' = disk /\ told' = told /\ past'.rolledBack = past.rolledBack
        /\ \A c \in Senders : job'[c].phase = "idle"
    BY <1>4 DEF Restart, Starting, Senders, Coroutines, Idle, Typed, Rest
  <2>2. \A c \in Senders : Nothing(c)'
    BY <2>1, NothingStandsNext
  <2> SUFFICES ASSUME ~past.rolledBack, NEW o \in Objects PROVE Balanced(o)'
    BY <2>1 DEF Books
  <2>3. Balanced(o)
    BY DEF Books
  <2>4. ToldOf(o)' = ToldOf(o) /\ Changes(db, o)' = Changes(disk, o)
        /\ Changes(disk, o)' = Changes(disk, o)
    BY <2>1 DEF ToldOf, Changes
  <2>5. \A c \in Senders :
          /\ Weight(Entered(c, o)') = 0 /\ Weight(Kept(c, o)') = 0 /\ Weight(Owing(c, o)') = 0
          /\ Weight(Made(c, o)') = 0 /\ Weight(MadeGood(c, o)') = 0
    BY <2>2 DEF Nothing, Weight
  <2>6. \A b : Weight(b) \in {0, 1}
    BY DEF Weight
  <2> QED BY <2>1, <2>3, <2>4, <2>5, <2>6, NumbersTyped DEF Balanced, Senders
<1>5. ASSUME NEW c \in Coroutines, FinishSync(c) \/ GiveUpSending(c) PROVE Books'
  BY <1>5, ReleaseBooked DEF FinishSync, GiveUpSending, Release
<1>6. ASSUME NEW c \in Coroutines, NEW k, job' = [job EXCEPT ![c] = k], NoHigher(c),
             results' = results, db' = db, disk' = disk, told' = told,
             past'.rolledBack = past.rolledBack
      PROVE  Books'
  <2>1. \A d \in Senders : d # c => NoHigher(d)
    BY <1>6, OthersKept DEF Typed
  <2> QED BY <1>6, <2>1, BooksKept DEF Senders
<1>7. CASE Granted
  <2>1. PICK c \in Coroutines : c = Head(lock)
    BY <1>7, OnceRemoved DEF Granted, Typed, Placed
  <2>2. /\ job[c].phase = "lock"
        /\ job' = [job EXCEPT ![c] = [job[c] EXCEPT !.phase = "sync", !.at = "list"]]
        /\ results' = results /\ db' = db /\ disk' = disk /\ told' = told /\ past' = past
    BY <1>7, <2>1 DEF Granted
  <2>3. NoHigher(c)
    BY <2>2, StillThrough DEF Through, Typed, Jobs, JobType
  <2> QED BY <1>6, <2>2, <2>3
<1>8. ASSUME NEW c \in {"ui", "mqtt"}, Resync(c) PROVE Books'
  <2> DEFINE k == AwaitLock([Idle EXCEPT !.op = "resync"])
  <2>1. c \in Coroutines
    BY DEF Coroutines
  <2>2. k.op = "resync"
    BY DEF AwaitLock, Idle
  <2>3. /\ job' = [job EXCEPT ![c] = k] /\ results' = results /\ db' = db /\ disk' = disk
        /\ told' = told /\ past'.rolledBack = past.rolledBack
    BY <1>8 DEF Resync, Typed, Rest
  <2>4. job'[c].op \notin Ops
    BY <2>1, <2>2, <2>3, DecisionsAre DEF Typed, Jobs
  <2> QED BY <1>6, <2>1, <2>3, <2>4, NothingStandsNext
<1>9. ASSUME NEW c \in {"ui", "mqtt"}, NEW r \in Requests(c), Ask(c, r[1], r[2]) PROVE Books'
  <2> DEFINE k == [Idle EXCEPT !.phase = "services", !.op = r[1], !.object = r[2],
                               !.at = "update"]
  <2>1. c \in Coroutines
    BY DEF Coroutines
  <2>2. k.phase = "services" /\ k.at = "update" /\ ~k.hit
    BY DEF Idle
  <2>3. /\ job' = [job EXCEPT ![c] = k] /\ results' = results /\ db' = db /\ disk' = disk
        /\ told' = told /\ past'.rolledBack = past.rolledBack
    BY <1>9 DEF Ask, Typed, Rest
  <2>4. job'[c] = k
    BY <2>1, <2>3 DEF Typed, Jobs
  <2> QED BY <1>6, <2>1, <2>2, <2>3, <2>4, NothingStandsNext
<1>10. CASE UNCHANGED vars \/ \E n \in Notices : Expire(n)
  <2>1. \A c : NoHigher(c)
    BY <1>10 DEF vars, Expire, NoHigher, Entered, Kept, Owing, Made, MadeGood, Deciding, Changing,
                 Through, Writing, Served
  <2> QED BY <1>10, <2>1, BooksKept DEF vars, Expire
<1> QED BY <1>1, <1>2, <1>3, <1>4, <1>5, <1>7, <1>8, <1>9, <1>10 DEF Next

LEMMA Invariants == Spec => [](Typed /\ Laws /\ Books)
<1>1. Init => Typed /\ Laws /\ Books
  BY InitTyped, InitBooks
<1>2. Typed /\ Laws /\ Books /\ [Next]_vars => (Typed /\ Laws /\ Books)'
  BY NextTyped, NextLawful, NextBooked
<1> QED BY <1>1, <1>2, PTL DEF Spec

\* Whatever the panel and the MQTT clients ask for, and in whatever order the
\* statements are served, no row is decided more often than it was put back,
\* plus once, and no more decisions are answered OK (task_service.py, the
\* WHERE state = ? of confirm and reject; notice_service.py).
THEOREM DecidedOnlyOnce == Spec => []DecidedOnce
<1>1. Typed /\ Laws /\ Books => DecidedOnce
  <2> SUFFICES ASSUME Typed, Laws, Books, NEW o \in Objects
               PROVE  /\ db.decided[o] <= 1 + db.retried[o]
                      /\ ~past.rolledBack => told[o].decisions <= 1 + db.retried[o]
    BY DEF DecidedOnce
  <2>1. db.decided[o] <= 1 + db.retried[o]
    BY NumbersTyped DEF Laws, Lawful
  <2>2. \A b : Weight(b) \in {0, 1}
    BY DEF Weight
  <2>3. ~past.rolledBack => told[o].decisions <= db.decided[o]
    BY <2>2, NumbersTyped DEF Books, Balanced
  <2> QED BY <2>1, <2>3, NumbersTyped
<1> QED BY <1>1, Invariants, PTL

\* As long as no transaction of another coroutine was rolled back, whatever a
\* sender was answered OK is on disk, so that no crash or restart, wherever it
\* falls, loses it (confirmation_service.py and task_service.py commit before
\* they return; the answer comes after the sync).
THEOREM AcknowledgedStays == Spec => []AcknowledgedIsDurable
<1>1. Typed /\ Books => AcknowledgedIsDurable
  <2> SUFFICES ASSUME Typed, Books, ~past.rolledBack, NEW o \in Objects
               PROVE  /\ told[o].decisions <= disk.recorded[o]
                      /\ disk.recorded[o] <= disk.decided[o]
                      /\ ToldOf(o) <= Changes(disk, o)
    BY DEF AcknowledgedIsDurable, ToldOf, Changes
  <2>1. \A b : Weight(b) \in {0, 1}
    BY DEF Weight
  <2> QED BY <2>1, NumbersTyped DEF Books, Balanced
<1> QED BY <1>1, Invariants, PTL

-----------------------------------------------------------------------------
(* A decision without a confirmation was interrupted.                       *)

\* No task is put back once it is decided.
OneDecision(d) ==
    \A t \in Tasks :
        /\ d.decided[t] <= 1
        /\ d.state[t] \in {"pending", "failed"} => d.decided[t] = 0

\* Before anything was interrupted, a decision has its confirmation or a
\* coroutine is on the way to enter it.
Undisturbed == past.faults = 0 /\ past.restarts = 0

Recorded ==
    Undisturbed =>
        \A t \in Tasks :
            db.decided[t] <= db.recorded[t] + Weight(Owing("ui", t)) + Weight(Owing("mqtt", t))

Gaps == OneDecision(db) /\ OneDecision(disk) /\ Recorded

\* The step takes nothing away from what c's request owes.
StillOwing(c) == \A t \in Tasks : Owing(c, t) => Owing(c, t)'

LEMMA OthersStillOwing ==
    ASSUME Jobs, NEW c \in Coroutines, NEW k, job' = [job EXCEPT ![c] = k],
           NEW d \in Senders, d # c,
           d \in Elems(results') <=> d \in Elems(results)
    PROVE  StillOwing(d)
<1>1. job'[d] = job[d] /\ (Served(d)' <=> Served(d))
  BY DEF Jobs, Senders, Coroutines, Served
<1> QED BY <1>1 DEF StillOwing, Owing, Deciding, Writing

LEMMA RecordedKept ==
    ASSUME Typed, Recorded, StillOwing("ui"), StillOwing("mqtt"), db' = db,
           Undisturbed' => Undisturbed
    PROVE  Recorded'
<1> SUFFICES ASSUME Undisturbed, NEW t \in Tasks
             PROVE  db'.decided[t] <= db'.recorded[t]
                                      + Weight(Owing("ui", t))' + Weight(Owing("mqtt", t))'
  BY DEF Recorded
<1>1. db.decided[t] <= db.recorded[t] + Weight(Owing("ui", t)) + Weight(Owing("mqtt", t))
  BY DEF Recorded
<1>2. /\ Weight(Owing("ui", t)) <= Weight(Owing("ui", t)')
      /\ Weight(Owing("mqtt", t)) <= Weight(Owing("mqtt", t)')
  BY DEF StillOwing, Weight
<1>3. \A b : Weight(b) \in {0, 1}
  BY DEF Weight
<1>4. db.decided[t] \in Nat /\ db.recorded[t] \in Nat
  BY NumbersTyped DEF Objects
<1> QED BY <1>1, <1>2, <1>3, <1>4

LEMMA InitGaps == Init => Gaps
<1> SUFFICES ASSUME Init PROVE Gaps
  OBVIOUS
<1>1. \A o \in Objects : db.recorded[o] = 0 /\ db.decided[o] = 0
  BY DEF Init, NoCounters
<1>2. disk = db /\ Tasks \subseteq Objects
  BY DEF Init, Objects
<1>3. \A b : Weight(b) \in {0, 1}
  BY DEF Weight
<1>4. OneDecision(db) /\ OneDecision(disk)
  BY <1>1, <1>2 DEF OneDecision
<1>5. Recorded
  BY <1>1, <1>2, <1>3 DEF Recorded
<1> QED BY <1>4, <1>5 DEF Gaps

LEMMA EffectOnce ==
    ASSUME Typed, OneDecision(db), NEW c \in Coroutines, job[c].phase \in {"services", "sync"}
    PROVE  OneDecision(Effect(c))
<1> DEFINE j == job[c]
<1>1. db \in Databases
  BY DEF Typed, Data
<1>2. CASE j.at = "update" /\ Matches(j.op, j.object)
  <2>1. Named(j) /\ db.state[j.object] = From(j.op, j.object)
    BY <1>2, UpdateDoes DEF Matches
  <2> SUFFICES ASSUME NEW t \in Tasks
               PROVE  /\ Effect(c).decided[t] <= 1
                      /\ Effect(c).state[t] \in {"pending", "failed"} =>
                           Effect(c).decided[t] = 0
    BY DEF OneDecision
  <2>2. /\ db.decided[t] <= 1 /\ t \in Objects /\ t \notin Notices
        /\ db.state[t] \in {"pending", "failed"} => db.decided[t] = 0
    BY ObjectsAssumption DEF OneDecision, Objects
  <2>3. CASE t # j.object
    BY <1>2, <2>2, <2>3, UpdateDoes
  <2>4. CASE t = j.object
    <3>1. db.decided[t] = 0 /\ j.op # "dismiss"
      BY <2>1, <2>2, <2>4 DEF From, Named
    <3>2. CASE j.op = "retry"
      BY <1>2, <2>2, <2>4, <3>1, <3>2, UpdateDoes
    <3>3. CASE j.op \in Decisions
      <4>1. To(j.op, t) \notin {"pending", "failed"}
        BY <2>2, <3>3, DecisionsAre DEF To
      <4> QED BY <1>2, <2>2, <2>4, <3>1, <3>3, <4>1, DecisionsAre, UpdateDoes
    <3> QED BY <2>1, <3>1, <3>2, <3>3, DecisionsAre DEF Named
  <2> QED BY <2>3, <2>4
<1>3. CASE j.at = "update" /\ ~Matches(j.op, j.object)
  BY <1>3, UpdateDoes
<1>4. CASE j.at = "record"
  <2>1. Effect(c).decided = db.decided /\ Effect(c).state = db.state
    BY <1>1, <1>4 DEF Effect, Databases
  <2> QED BY <2>1 DEF OneDecision
<1>5. CASE j.at \notin {"update", "record"}
  BY <1>5 DEF Effect
<1> QED BY <1>2, <1>3, <1>4, <1>5

\* The worker thread: a decision owes its confirmation until it is served.
LEMMA ServeRecorded == ASSUME Typed, Recorded, Serve PROVE Recorded'
<1>1. PICK c \in Coroutines : /\ c = Head(queue) /\ c \in Elems(queue)
                              /\ job[c].phase \in {"services", "sync"}
  <2>1. Head(queue) \in Coroutines /\ Head(queue) \in Elems(queue)
    BY OnceRemoved DEF Serve, Typed, Placed
  <2> QED BY <2>1 DEF Typed, Placed, InPhase
<1>2. c \notin Elems(results) /\ Elems(results') = Elems(results) \cup {c}
  BY <1>1, OnceAppended DEF Serve, Typed, Placed
<1>3. db' = Effect(c) /\ job' = [job EXCEPT ![c] = Answer(c)] /\ past' = past
  BY <1>1 DEF Serve
<1>4. /\ Answer(c).phase = job[c].phase /\ Answer(c).op = job[c].op
      /\ Answer(c).object = job[c].object /\ Answer(c).at = job[c].at
      /\ Answer(c).hit = IF job[c].at = "update" THEN Matches(job[c].op, job[c].object)
                         ELSE job[c].hit
      /\ job'[c] = Answer(c) /\ (job[c].at = "update" => ~job[c].hit)
  BY <1>1, <1>3, AnswerTyped DEF Typed, Jobs
<1>5. \A d \in Senders : d # c => StillOwing(d)
  BY <1>2, <1>3, OthersStillOwing DEF Typed
<1>6. CASE job[c].at \notin {"update", "record"}
  <2>1. StillOwing(c)
    BY <1>4, <1>6 DEF StillOwing, Owing, Deciding, Writing
  <2>2. db' = db
    BY <1>3, <1>6 DEF Effect
  <2> QED BY <1>3, <1>5, <2>1, <2>2, RecordedKept DEF Senders, Undisturbed
<1>7. CASE job[c].at = "update" /\ ~Matches(job[c].op, job[c].object)
  <2>1. StillOwing(c)
    BY <1>4, <1>7 DEF StillOwing, Owing
  <2>2. db' = db
    BY <1>1, <1>3, <1>7, UpdateDoes
  <2> QED BY <1>3, <1>5, <2>1, <2>2, RecordedKept DEF Senders, Undisturbed
<1>8. CASE job[c].at = "record" \/ (job[c].at = "update" /\ Matches(job[c].op, job[c].object))
  <2> SUFFICES ASSUME Undisturbed, NEW t \in Tasks
               PROVE  db'.decided[t] <= db'.recorded[t]
                                        + Weight(Owing("ui", t))' + Weight(Owing("mqtt", t))'
    BY <1>3 DEF Recorded, Undisturbed
  <2>1. db.decided[t] <= db.recorded[t] + Weight(Owing("ui", t)) + Weight(Owing("mqtt", t))
    BY DEF Recorded
  <2>2. /\ Named(job[c]) /\ job[c].phase = "services" /\ c \in Senders
        /\ job[c].at = "record" => job[c].op \in Decisions /\ job[c].hit
    BY <1>1, <1>8, DecisionsAre
       DEF Typed, Jobs, Sane, Queries, Statements, Named, Coroutines, Senders
  <2>3. \A d \in Senders : d # c => Weight(Owing(d, t)) <= Weight(Owing(d, t)')
    BY <1>5 DEF StillOwing, Weight
  <2>4. t \in Objects /\ t \notin Notices /\ db.decided[t] \in Nat /\ db.recorded[t] \in Nat
    BY ObjectsAssumption, NumbersTyped DEF Objects
  <2>5. /\ db'.decided[t] \in Nat /\ db'.recorded[t] \in Nat
        /\ db'.decided[t] - db'.recorded[t] - Weight(Owing(c, t)')
             <= db.decided[t] - db.recorded[t] - Weight(Owing(c, t))
    <3>1. CASE job[c].at = "record"
      <4>1. /\ db'.decided = db.decided
            /\ db'.recorded[t] = IF t = job[c].object THEN db.recorded[t] + 1
                                 ELSE db.recorded[t]
        BY <1>3, <2>2, <2>4, <3>1 DEF Effect, Named, Typed, Data, Databases
      <4>2. Owing(c, t) => t = job[c].object
        BY DEF Owing, Deciding
      <4> QED BY <2>4, <4>1, <4>2 DEF Weight
    <3>2. CASE job[c].at = "update" /\ Matches(job[c].op, job[c].object)
      <4>1. /\ db'.recorded[t] = db.recorded[t]
            /\ db'.decided[t] = IF t = job[c].object /\ job[c].op # "retry"
                                THEN db.decided[t] + 1 ELSE db.decided[t]
        BY <1>1, <1>3, <2>4, <3>2, UpdateDoes
      <4>2. ~Owing(c, t)
        BY <1>4, <3>2 DEF Owing
      <4>3. t = job[c].object /\ job[c].op # "retry" => Owing(c, t)'
        BY <1>4, <2>2, <2>4, <3>2, DecisionsAre DEF Owing, Deciding, Writing, Named
      <4> QED BY <2>4, <4>1, <4>2, <4>3 DEF Weight
    <3> QED BY <1>8, <3>1, <3>2
  <2>6. \A b : Weight(b) \in {0, 1}
    BY DEF Weight
  <2>7. CASE c = "ui"
    BY <2>1, <2>3, <2>4, <2>5, <2>6, <2>7 DEF Senders
  <2>8. CASE c = "mqtt"
    BY <2>1, <2>3, <2>4, <2>5, <2>6, <2>8 DEF Senders
  <2> QED BY <2>2, <2>7, <2>8 DEF Senders
<1> QED BY <1>6, <1>7, <1>8

\* The event loop: only a request that found nothing, or raised, ends before
\* its confirmation.
LEMMA ResumeRecorded == ASSUME Typed, Recorded, Resume PROVE Recorded'
<1>1. PICK c \in Coroutines : c = Head(results)
  BY OnceRemoved DEF Resume, Typed, Placed
<1>2. /\ c \in Elems(results) /\ Elems(results') = Elems(results) \ {c}
      /\ db' = db /\ Served(c) /\ ~Served(c)'
  BY <1>1, OnceRemoved DEF Resume, Typed, Placed, Served
<1>3. Sane(job[c]) /\ job[c] \in JobType /\ job \in [Coroutines -> JobType]
  BY DEF Typed, Jobs
<1>4. past'.faults = past.faults /\ past'.restarts = past.restarts
  <2>1. past' = past \/ past' = [past EXCEPT !.counted = TRUE]
    BY <1>1 DEF Resume, Refuse, NextStatement, Conclude, Fail, NextQuery, StartSending, GiveUpSync
  <2> QED BY <2>1 DEF Typed, Rest
<1>5. ASSUME NEW k, job' = [job EXCEPT ![c] = k], StillOwing(c) PROVE Recorded'
  <2>1. \A d \in Senders : d # c => StillOwing(d)
    BY <1>2, <1>5, OthersStillOwing DEF Typed
  <2> QED BY <1>2, <1>4, <1>5, <2>1, RecordedKept DEF Senders, Undisturbed
<1>6. CASE NextStatement(c)
  <2> DEFINE k == Awaiting(job[c])
  <2>1. /\ job[c].phase = "services" /\ job' = [job EXCEPT ![c] = k] /\ ~Refused(c)
        /\ NextOf(c) # "done"
    BY <1>6 DEF NextStatement, AwaitNext
  <2>2. /\ job'[c].phase = job[c].phase /\ job'[c].op = job[c].op
        /\ job'[c].object = job[c].object /\ job'[c].hit = job[c].hit
        /\ job'[c].at = NextOf(c)
    BY <1>3, <2>1, AwaitingHas DEF NextOf
  <2>3. \A t : Owing(c, t) => NextOf(c) \in {"commit", "get", "record"}
    BY <1>2 DEF Owing, Deciding, NextOf, After
  <2>4. StillOwing(c)
    BY <1>2, <2>2, <2>3 DEF StillOwing, Owing, Deciding, Writing
  <2> QED BY <1>5, <2>1, <2>4
<1>7. CASE \/ Refuse(c) \/ Conclude(c) \/ Fail(c)
           \/ NextQuery(c) \/ StartSending(c) \/ GiveUpSync(c)
  <2>1. \E k : job' = [job EXCEPT ![c] = k]
    BY <1>7 DEF Refuse, Conclude, Fail, NextQuery, AwaitNext, StartSending, GiveUpSync, Release
  <2>2. \A t : ~Owing(c, t)
    <3>1. CASE Conclude(c)
      <4>1. NextOf(c) = "done"
        BY <3>1 DEF Conclude
      <4>2. \A t : Owing(c, t) => NextOf(c) \in {"commit", "get", "record"}
        BY <1>2 DEF Owing, Deciding, NextOf, After
      <4> QED BY <4>1, <4>2
    <3>2. CASE ~Conclude(c)
      BY <1>7, <3>2 DEF Refuse, Refused, Fail, NextQuery, StartSending, GiveUpSync, Owing, Writing
    <3> QED BY <3>1, <3>2
  <2> QED BY <1>5, <2>1, <2>2 DEF StillOwing
<1> QED BY <1>1, <1>6, <1>7 DEF Resume

LEMMA NextGaps == Typed /\ Gaps /\ [Next]_vars => Gaps'
<1> SUFFICES ASSUME Typed, Gaps, [Next]_vars PROVE Gaps'
  OBVIOUS
<1>1. OneDecision(db)' /\ OneDecision(disk)'
  <2>1. CASE Serve
    <3>1. PICK c \in Coroutines : c = Head(queue) /\ job[c].phase \in {"services", "sync"}
      <4>1. Head(queue) \in Coroutines /\ Head(queue) \in Elems(queue)
        BY <2>1, OnceRemoved DEF Serve, Typed, Placed
      <4> QED BY <4>1 DEF Typed, Placed, InPhase
    <3>2. db' = Effect(c) /\ disk' \in {db, disk}
      BY <2>1, <3>1 DEF Serve
    <3> QED BY <3>1, <3>2, EffectOnce DEF Gaps, OneDecision
  <2>2. CASE ~Serve
    <3>1. db' \in {db, disk} /\ disk' = disk
      BY <2>2 DEF Next, vars, Raise, Resume, Granted, Restart, FinishSync, GiveUpSending,
                     Expire, Resync, Ask
    <3> QED BY <3>1 DEF Gaps, OneDecision
  <2> QED BY <2>1, <2>2
<1>2. Recorded'
  <2>1. CASE Serve
    BY <2>1, ServeRecorded DEF Gaps
  <2>2. CASE Resume
    BY <2>2, ResumeRecorded DEF Gaps
  <2>3. CASE Raise \/ Restart
    <3>1. past'.faults = past.faults + 1 \/ past'.restarts = past.restarts + 1
      BY <2>3 DEF Raise, Restart, Typed, Rest
    <3>2. ~Undisturbed'
      BY <3>1 DEF Undisturbed, Typed, Rest
    <3> QED BY <3>2 DEF Recorded, Undisturbed
  <2>4. ASSUME NEW c \in Coroutines, job[c].phase # "services", NEW k,
               job' = [job EXCEPT ![c] = k], results' = results, db' = db,
               Undisturbed' => Undisturbed
        PROVE  Recorded'
    <3>1. \A d \in Senders : d # c => StillOwing(d)
      BY <2>4, OthersStillOwing DEF Typed
    <3>2. StillOwing(c)
      BY <2>4 DEF StillOwing, Owing, Writing
    <3> QED BY <2>4, <3>1, <3>2, RecordedKept DEF Gaps, Senders
  <2>5. CASE Granted
    <3>1. PICK c \in Coroutines : c = Head(lock)
      BY <2>5, OnceRemoved DEF Granted, Typed, Placed
    <3> QED BY <2>4, <2>5, <3>1 DEF Granted, Undisturbed
  <2>6. ASSUME NEW c \in Coroutines, FinishSync(c) \/ GiveUpSending(c) PROVE Recorded'
    BY <2>4, <2>6 DEF FinishSync, GiveUpSending, Release, Undisturbed
  <2>7. ASSUME NEW c \in {"ui", "mqtt"}, Resync(c) PROVE Recorded'
    <3>1. c \in Coroutines /\ (Undisturbed' => Undisturbed)
      BY <2>7 DEF Coroutines, Resync, Undisturbed, Typed, Rest
    <3> QED BY <2>4, <2>7, <3>1 DEF Resync, Ready
  <2>8. ASSUME NEW c \in {"ui", "mqtt"}, NEW r \in Requests(c), Ask(c, r[1], r[2])
        PROVE  Recorded'
    <3>1. c \in Coroutines /\ (Undisturbed' => Undisturbed)
      BY <2>8 DEF Coroutines, Ask, Undisturbed, Typed, Rest
    <3> QED BY <2>4, <2>8, <3>1 DEF Ask, Ready
  <2>9. CASE UNCHANGED vars \/ \E n \in Notices : Expire(n)
    BY <2>9 DEF vars, Expire, Gaps, Recorded, Undisturbed, Owing, Deciding, Writing, Served
  <2> QED BY <2>1, <2>2, <2>3, <2>5, <2>6, <2>7, <2>8, <2>9 DEF Next
<1> QED BY <1>1, <1>2 DEF Gaps

\* Only what was interrupted, by a fault or the end of the program, leaves a
\* decision without its confirmation (confirmation_service.py, where the
\* transition and its record are two commits).
THEOREM GapsAreInterrupted == Spec => []GapsAreInterruptions
<1>1. Spec => [](Typed /\ Gaps)
  <2>1. Init => Typed /\ Gaps
    BY InitTyped, InitGaps
  <2>2. Typed /\ Gaps /\ [Next]_vars => (Typed /\ Gaps)'
    BY NextTyped, NextGaps
  <2> QED BY <2>1, <2>2, PTL DEF Spec
<1>2. Typed /\ Gaps => GapsAreInterruptions
  <2> SUFFICES ASSUME Typed, Gaps, Quiet, NEW t \in Tasks
               PROVE  db.decided[t] - db.recorded[t] <= past.faults + past.restarts
    BY DEF GapsAreInterruptions
  <2>1. /\ db.decided[t] \in Nat /\ db.recorded[t] \in Nat
        /\ past.faults \in Nat /\ past.restarts \in Nat
    BY NumbersTyped DEF Objects, Typed, Rest
  <2>2. CASE Undisturbed
    <3>1. ~Owing("ui", t) /\ ~Owing("mqtt", t)
      BY DEF Quiet, Coroutines, Owing, Writing
    <3> QED BY <2>1, <2>2, <3>1 DEF Gaps, Recorded, Weight, Undisturbed
  <2>3. CASE ~Undisturbed
    BY <2>1, <2>3 DEF Gaps, OneDecision, Undisturbed
  <2> QED BY <2>2, <2>3
<1> QED BY <1>1, <1>2, PTL

-----------------------------------------------------------------------------
(* What is shown is what is in the database.                                *)

\* c has changed something, or was asked, and is to query and send it all.
Ahead(c) == (Writing(c) /\ job[c].hit) \/ job[c].phase = "lock"

Syncing == InPhase({"sync", "send"})

\* What the sync of c has fetched so far is what is in the database.
Current(c) ==
    LET at == job[c].at
        sending == job[c].phase = "send"
    IN  /\ sending \/ at # "list" \/ Served(c) => job[c].tasks = ListRecent(db)
        /\ at = "dashboard" /\ Served(c) => job[c].dashboard = Dashboard(db)
        /\ sending \/ at = "notice" => memory.dashboard = Dashboard(db)
        /\ at = "notice" /\ ~Served(c) => Notices \ expired \subseteq job[c].notices
        /\ sending \/ (at = "notice" /\ Served(c)) => ShowsNotices(job[c].notices)

ShownNow ==
    /\ shown.memory.dashboard = Dashboard(db)
    /\ shown.memory.count = memory.count
    /\ shown.sent => shown.tasks = ListRecent(db) /\ ShowsNotices(shown.notices)

\* Nobody is ahead: the sync under way fetches the latest, or the last one has
\* published it and has shown it to the panel unless its sends failed.
Shows ==
    (\A c \in Coroutines : ~Ahead(c)) =>
        /\ \A c \in Syncing : Current(c)
        /\ Syncing = {} => ShownNow

\* c is to count yet.
AtCount(c) == Writing(c) /\ job[c].at = "count"
Recount(c) ==
    Writing(c) /\ job[c].hit /\ job[c].op # "dismiss" /\ ~(job[c].at = "count" /\ Served(c))

\* The i-th result is a count.
Counting(i) == AtCount(results[i])
LastCounting(i) == Counting(i) /\ \A j \in DOMAIN results : j > i => ~Counting(j)

\* Nobody is to count: the last count on its way to memory, or else the one
\* in memory, is the latest.
Counted ==
    (\A c \in Coroutines : ~Recount(c)) =>
        /\ \A i \in DOMAIN results :
             LastCounting(i) => job[results[i]].count = CountPending(db)
        /\ past.counted /\ (\A i \in DOMAIN results : ~Counting(i))
             => memory.count = CountPending(db)

\* c is to commit what it has written.
Committing(c) ==
    Writing(c) /\ job[c].at \in (IF Served(c) THEN {"update", "record"} ELSE {"commit", "save"})

Committed == db = disk \/ \E c \in Coroutines : Committing(c)

Calm == \A c \in Coroutines : job[c].at # "raise"

LEMMA SameViews ==
    ASSUME db'.state = db.state
    PROVE  /\ ListRecent(db)' = ListRecent(db) /\ ActiveNotices(db)' = ActiveNotices(db)
           /\ Dashboard(db)' = Dashboard(db) /\ CountPending(db)' = CountPending(db)
<1>1. \A s : Having(db, s)' = Having(db, s)
  BY DEF Having
<1> QED BY <1>1 DEF ListRecent, ActiveNotices, Dashboard, CountPending

\* What the worker thread leaves with a coroutine.
LEMMA AnswerHas ==
    ASSUME NEW c \in Coroutines, job[c] \in JobType
    PROVE  /\ Answer(c).count = IF job[c].at = "count" THEN CountPending(db) ELSE job[c].count
           /\ Answer(c).tasks = IF job[c].at = "list" THEN ListRecent(db) ELSE job[c].tasks
           /\ Answer(c).dashboard = IF job[c].at = "dashboard" THEN Dashboard(db)
                                    ELSE job[c].dashboard
           /\ Answer(c).notices = IF job[c].at = "notice"
                                  THEN job[c].notices \cap ActiveNotices(db)
                                  ELSE job[c].notices
<1> USE DEF Answer, JobType
<1>1. CASE job[c].at = "update"
  BY <1>1
<1>2. CASE job[c].at = "count"
  BY <1>2
<1>3. CASE job[c].at = "list"
  BY <1>3
<1>4. CASE job[c].at = "dashboard"
  BY <1>4
<1>5. CASE job[c].at = "notice"
  BY <1>5
<1>6. CASE job[c].at \notin {"update", "count", "list", "dashboard", "notice"}
  BY <1>6
<1> QED BY <1>1, <1>2, <1>3, <1>4, <1>5, <1>6

\* Time only takes notices away.
LEMMA LaterNotices ==
    ASSUME db'.state = db.state, expired \subseteq expired', NEW N
    PROVE  /\ ActiveNotices(db) \ expired \subseteq N => (ActiveNotices(db) \ expired)' \subseteq N
           /\ ActiveNotices(db)' = ActiveNotices(db)
           /\ Notices \ expired \subseteq N => Notices \ expired' \subseteq N
BY SameViews

\* A coroutine outside a sync moves.
LEMMA ShowsKept ==
    ASSUME Typed, Shows, NEW c \in Coroutines, NEW k, job' = [job EXCEPT ![c] = k],
           c \notin Syncing, k.phase \notin {"sync", "send"}, expired' = expired,
           \A d \in Coroutines : d # c => (d \in Elems(results') <=> d \in Elems(results)),
           \/ Ahead(c)'
           \/ ~Ahead(c) /\ db'.state = db.state /\ memory' = memory /\ shown' = shown
    PROVE  Shows'
<1>1. CASE Ahead(c)'
  BY <1>1 DEF Shows
<1>2. CASE ~Ahead(c) /\ db'.state = db.state /\ memory' = memory /\ shown' = shown
  <2> SUFFICES ASSUME \A d \in Coroutines : ~Ahead(d)'
               PROVE  /\ \A d \in Syncing' : Current(d)'
                      /\ Syncing' = {} => ShownNow'
    BY DEF Shows
  <2>1. \A d \in Coroutines : d # c => job'[d] = job[d] /\ (Served(d)' <=> Served(d))
    BY DEF Typed, Jobs, Served
  <2>2. job'[c] = k
    BY DEF Typed, Jobs
  <2>3. \A d \in Coroutines : ~Ahead(d)
    BY <1>2, <2>1 DEF Ahead, Writing
  <2>4. Syncing' = Syncing
    BY <2>1, <2>2 DEF Syncing, InPhase
  <2>5. \A d \in Syncing : d \in Coroutines /\ d # c /\ Current(d)
    BY <2>3 DEF Shows, Syncing, InPhase
  <2>6. \A d \in Syncing : Current(d)'
    BY <1>2, <2>1, <2>5, SameViews DEF Current, ShowsNotices
  <2>7. Syncing = {} => ShownNow'
    BY <1>2, <2>3, SameViews DEF Shows, ShownNow, ShowsNotices
  <2> QED BY <2>4, <2>6, <2>7
<1> QED BY <1>1, <1>2

\* The step in which the worker thread serves c.
Serves(c) ==
    /\ c = Head(queue) /\ job[c].phase \in {"services", "sync"} /\ job[c].at # "raise"
    /\ job[c].phase = "services" => Named(job[c]) /\ job[c].at \in Statements(job[c].op)
    /\ job[c].phase = "sync" => job[c].at \in Queries
    /\ ~Served(c) /\ Served(c)'
    /\ \A d \in Coroutines :
         d # c => job'[d] = job[d] /\ (Served(d)' <=> Served(d))
    /\ db' = Effect(c) /\ job' = [job EXCEPT ![c] = Answer(c)]
    /\ disk' = (IF job[c].at \in {"commit", "save"} THEN db ELSE disk)
    /\ job'[c] = Answer(c)
    /\ Answer(c).phase = job[c].phase /\ Answer(c).op = job[c].op
    /\ Answer(c).at = job[c].at
    /\ Answer(c).hit = IF job[c].at = "update" THEN Matches(job[c].op, job[c].object)
                       ELSE job[c].hit
    /\ job[c].at = "update" => ~job[c].hit

LEMMA Serving == ASSUME Typed, Serve PROVE \E c \in Coroutines : Serves(c)
<1>1. PICK c \in Coroutines : /\ c = Head(queue) /\ c \in Elems(queue)
                              /\ job[c].phase \in {"services", "sync"}
  <2>1. Head(queue) \in Coroutines /\ Head(queue) \in Elems(queue)
    BY OnceRemoved DEF Serve, Typed, Placed
  <2> QED BY <2>1 DEF Typed, Placed, InPhase
<1>2. c \notin Elems(results) /\ Elems(results') = Elems(results) \cup {c}
  BY <1>1, OnceAppended DEF Serve, Typed, Placed
<1>3. /\ db' = Effect(c) /\ job' = [job EXCEPT ![c] = Answer(c)]
      /\ disk' = (IF job[c].at \in {"commit", "save"} THEN db ELSE disk)
  BY <1>1 DEF Serve
<1>4. /\ job[c].at # "raise" /\ (job[c].at = "update" => ~job[c].hit) /\ Sane(job[c])
      /\ job[c] \in JobType /\ job \in [Coroutines -> JobType]
  BY <1>1 DEF Typed, Jobs
<1>5. /\ Answer(c).phase = job[c].phase /\ Answer(c).op = job[c].op
      /\ Answer(c).at = job[c].at
      /\ Answer(c).hit = IF job[c].at = "update" THEN Matches(job[c].op, job[c].object)
                         ELSE job[c].hit
  BY <1>1, <1>4, AnswerTyped DEF Typed, Jobs
<1>6. /\ job[c].phase = "services" => Named(job[c]) /\ job[c].at \in Statements(job[c].op)
      /\ job[c].phase = "sync" => job[c].at \in Queries
  BY <1>4 DEF Sane
<1>7. job'[c] = Answer(c) /\ \A d \in Coroutines : d # c => job'[d] = job[d]
  BY <1>3, <1>4
<1>8. /\ ~Served(c) /\ Served(c)'
      /\ \A d \in Coroutines : d # c => (Served(d)' <=> Served(d))
  BY <1>2 DEF Served
<1> QED BY <1>1, <1>3, <1>4, <1>5, <1>6, <1>7, <1>8 DEF Serves

\* Only an update that finds its row changes a state.
LEMMA StateKept ==
    ASSUME Typed, NEW c \in Coroutines, job[c].phase \in {"services", "sync"},
           ~(job[c].at = "update" /\ Matches(job[c].op, job[c].object))
    PROVE  Effect(c).state = db.state
<1>1. CASE job[c].at = "update"
  BY <1>1, UpdateDoes
<1>2. CASE job[c].at = "record"
  BY <1>2 DEF Effect, Typed, Data, Databases
<1>3. CASE job[c].at \notin {"update", "record"}
  BY <1>3 DEF Effect
<1> QED BY <1>1, <1>2, <1>3

LEMMA ServeShows == ASSUME Typed, Shows, Serve PROVE Shows'
<1>1. PICK c \in Coroutines : Serves(c)
  BY Serving
<1>2. memory' = memory /\ shown' = shown /\ expired' = expired /\ job[c] \in JobType
  BY DEF Serve, Typed, Jobs
<1>3. \A d \in Coroutines : d # c => (d \in Elems(results') <=> d \in Elems(results))
  BY <1>1 DEF Serves, Served
<1>4. CASE job[c].phase = "services"
  <2>1. c \notin Syncing /\ Answer(c).phase \notin {"sync", "send"}
    BY <1>1, <1>4 DEF Syncing, InPhase, Serves
  <2>2. CASE job[c].at = "update" /\ Matches(job[c].op, job[c].object)
    <3>1. Ahead(c)'
      BY <1>1, <1>4, <2>2 DEF Ahead, Writing, Serves
    <3> QED BY <1>1, <1>2, <1>3, <2>1, <3>1, ShowsKept DEF Serves
  <2>3. CASE ~(job[c].at = "update" /\ Matches(job[c].op, job[c].object))
    <3>1. db'.state = db.state
      BY <1>1, <2>3, StateKept DEF Serves
    <3>2. Ahead(c)' \/ ~Ahead(c)
      BY <1>1, <1>4 DEF Ahead, Writing, Serves
    <3> QED BY <1>1, <1>2, <1>3, <2>1, <3>1, <3>2, ShowsKept DEF Serves
  <2> QED BY <2>2, <2>3
<1>5. CASE job[c].phase = "sync"
  <2> SUFFICES ASSUME \A d \in Coroutines : ~Ahead(d)'
               PROVE  /\ \A d \in Syncing' : Current(d)'
                      /\ Syncing' = {} => ShownNow'
    BY DEF Shows
  <2>1. db'.state = db.state /\ job[c].at \in Queries
    BY <1>1, <1>5, StateKept DEF Serves, Queries
  <2>2. \A d \in Coroutines : ~Ahead(d)
    BY <1>1, <1>5 DEF Ahead, Writing, Serves
  <2>3. Syncing' = Syncing /\ c \in Syncing
    BY <1>1, <1>5 DEF Syncing, InPhase, Serves
  <2>4. \A d \in Syncing : d \in Coroutines /\ Current(d)
    BY <2>2 DEF Shows, Syncing, InPhase
  <2>5. \A d \in Syncing : d # c => Current(d)'
    BY <1>1, <1>2, <2>1, <2>4, SameViews DEF Current, Serves, ShowsNotices
  <2>6. Current(c)'
    <3>1. /\ job'[c] = Answer(c) /\ Answer(c).phase = "sync" /\ Answer(c).at = job[c].at
          /\ ~Served(c) /\ Served(c)' /\ Current(c)
      BY <1>1, <1>5, <2>3, <2>4 DEF Serves
    <3>2. job[c].at = "notice" => ShowsNotices(job[c].notices)'
      <4> SUFFICES ASSUME job[c].at = "notice" PROVE ShowsNotices(job[c].notices)'
        OBVIOUS
      <4>1. Answer(c).notices = job[c].notices \cap ActiveNotices(db)
            /\ Notices \ expired \subseteq job[c].notices
        BY <1>1, <1>2, <3>1, AnswerHas DEF Current
      <4>2. ActiveNotices(db) \subseteq Notices
        BY DEF ActiveNotices
      <4>3. ActiveNotices(db)' = ActiveNotices(db)
        BY <2>1, SameViews
      <4>4. Answer(c).notices = job'[c].notices
        BY <3>1
      <4> QED BY <1>2, <4>1, <4>2, <4>3, <4>4 DEF ShowsNotices
    <3> QED BY <1>1, <1>2, <1>5, <2>1, <3>1, <3>2, SameViews, AnswerHas
            DEF Current, Queries, ShowsNotices
  <2> QED BY <2>3, <2>5, <2>6
<1> QED BY <1>1, <1>4, <1>5 DEF Serves

\* A coroutine gets the result of its statement, which did not raise.
Resumes(c) ==
    /\ c = Head(results) /\ results' = Tail(results) /\ results # <<>>
    /\ job[c].at # "raise" /\ job[c].phase \in {"services", "sync"}
    /\ job[c].phase = "services" => Named(job[c]) /\ job[c].at \in Statements(job[c].op)
    /\ job[c].phase = "sync" => job[c].at \in Queries
    /\ Served(c) /\ ~Served(c)'
    /\ \A d \in Coroutines :
         d # c => job'[d] = job[d] /\ (Served(d)' <=> Served(d))
    /\ db' = db /\ disk' = disk /\ expired' = expired

\* What the step does with the job of c.
ResumesWith(c, k) ==
    /\ Resumes(c)
    /\ job' = [job EXCEPT ![c] = k] /\ job'[c] = k
    /\ \/ Refuse(c) /\ k = Idle
       \/ Conclude(c) /\ k = AwaitLock(job[c])
       \/ (NextStatement(c) \/ NextQuery(c)) /\ NextOf(c) # "done" /\ k = Awaiting(job[c])
       \/ StartSending(c) /\ k = [job[c] EXCEPT !.phase = "send", !.at = "none"]

LEMMA Resuming ==
    ASSUME Typed, Calm, Resume
    PROVE  \E c \in Coroutines, k \in JobType : ResumesWith(c, k)
<1>1. PICK c \in Coroutines : c = Head(results)
  BY OnceRemoved DEF Resume, Typed, Placed
<1>2. /\ c \in Elems(results) /\ Elems(results') = Elems(results) \ {c}
      /\ results' = Tail(results) /\ results # <<>>
      /\ db' = db /\ disk' = disk /\ expired' = expired /\ Served(c) /\ ~Served(c)'
  BY <1>1, OnceRemoved DEF Resume, Typed, Placed, Served
<1>3. /\ job[c] \in JobType /\ Sane(job[c]) /\ job \in [Coroutines -> JobType]
      /\ job[c].at # "raise" /\ job[c].phase \in {"services", "sync"}
  BY <1>2 DEF Typed, Jobs, Placed, InPhase, Calm
<1>4. /\ job[c].phase = "services" => Named(job[c]) /\ job[c].at \in Statements(job[c].op)
      /\ job[c].phase = "sync" => job[c].at \in Queries
  BY <1>3 DEF Sane
<1>5. \E k : /\ job' = [job EXCEPT ![c] = k]
             /\ \/ Refuse(c) /\ k = Idle
                \/ Conclude(c) /\ k = AwaitLock(job[c])
                \/ (NextStatement(c) \/ NextQuery(c)) /\ NextOf(c) # "done" /\ k = Awaiting(job[c])
                \/ StartSending(c) /\ k = [job[c] EXCEPT !.phase = "send", !.at = "none"]
  <2>1. ~Fail(c) /\ ~GiveUpSync(c)
    BY <1>3 DEF Fail, GiveUpSync
  <2>2. CASE Refuse(c)
    BY <2>2 DEF Refuse
  <2>3. CASE NextStatement(c) \/ NextQuery(c)
    BY <2>3 DEF NextStatement, NextQuery, AwaitNext
  <2>4. CASE Conclude(c)
    BY <2>4 DEF Conclude
  <2>5. CASE StartSending(c)
    BY <2>5 DEF StartSending
  <2> QED BY <1>1, <2>1, <2>2, <2>3, <2>4, <2>5 DEF Resume
<1>6. PICK k : /\ job' = [job EXCEPT ![c] = k]
               /\ \/ Refuse(c) /\ k = Idle
                  \/ Conclude(c) /\ k = AwaitLock(job[c])
                  \/ (NextStatement(c) \/ NextQuery(c)) /\ NextOf(c) # "done" /\ k = Awaiting(job[c])
                  \/ StartSending(c) /\ k = [job[c] EXCEPT !.phase = "send", !.at = "none"]
  BY <1>5
<1>7. /\ job'[c] = k
      /\ \A d \in Coroutines : d # c => job'[d] = job[d] /\ (Served(d)' <=> Served(d))
  BY <1>2, <1>3, <1>6 DEF Served
<1>8. job' \in [Coroutines -> JobType]
  BY ResumeTyped DEF Typed, Jobs
<1>9. k \in JobType
  BY <1>7, <1>8
<1>10. Resumes(c)
  BY <1>1, <1>2, <1>3, <1>4, <1>7 DEF Resumes
<1>11. ResumesWith(c, k)
  BY <1>6, <1>7, <1>10 DEF ResumesWith
<1> QED BY <1>9, <1>11

LEMMA ResumeShows == ASSUME Typed, Calm, Shows, Resume PROVE Shows'
<1>1. PICK c \in Coroutines, k \in JobType : ResumesWith(c, k)
  BY Resuming
<1>2. /\ Resumes(c) /\ job' = [job EXCEPT ![c] = k] /\ job'[c] = k /\ db' = db
      /\ job[c] \in JobType /\ Sane(job[c])
  BY <1>1 DEF ResumesWith, Resumes, Typed, Jobs
<1>3. \A d \in Coroutines : d # c => (d \in Elems(results') <=> d \in Elems(results))
  BY <1>2 DEF Resumes, Served
<1>4. CASE job[c].phase = "services"
  <2>1. c \notin Syncing
    BY <1>4 DEF Syncing, InPhase
  <2>2. CASE Conclude(c)
    <3>0. k = AwaitLock(job[c])
      BY <1>1, <1>4, <2>2, AwaitLockTyped DEF ResumesWith, Conclude, NextOf, NextStatement,
                              NextQuery, Refuse, Refused, StartSending
    <3>1. k.phase = "lock"
      BY <1>2, <3>0, AwaitLockTyped
    <3>2. Ahead(c)'
      BY <1>2, <3>1 DEF Ahead
    <3> QED BY <1>2, <1>3, <2>1, <3>1, <3>2, ShowsKept DEF Resumes
  <2>3. CASE ~Conclude(c)
    <3>1. /\ memory' = memory /\ shown' = shown
          /\ \/ k = Idle /\ ~job[c].hit
             \/ k = Awaiting(job[c]) /\ NextOf(c) # "done"
      BY <1>1, <1>4, <2>3
         DEF ResumesWith, Refuse, Refused, NextStatement, NextQuery, StartSending
    <3>2. k.phase \notin {"sync", "send"} /\ (Ahead(c)' \/ ~Ahead(c))
      <4>1. CASE k = Idle /\ ~job[c].hit
        BY <1>4, <4>1 DEF Idle, Ahead
      <4>2. CASE k = Awaiting(job[c]) /\ NextOf(c) # "done"
        BY <1>2, <1>4, <4>2, AwaitingHas DEF NextOf, Ahead, Writing
      <4> QED BY <3>1, <4>1, <4>2
    <3> QED BY <1>2, <1>3, <2>1, <3>1, <3>2, ShowsKept DEF Resumes
  <2> QED BY <2>2, <2>3
<1>5. CASE job[c].phase = "sync"
  <2> SUFFICES ASSUME \A d \in Coroutines : ~Ahead(d)'
               PROVE  /\ \A d \in Syncing' : Current(d)'
                      /\ Syncing' = {} => ShownNow'
    BY DEF Shows
  <2>1. \/ /\ NextQuery(c) /\ NextOf(c) # "done" /\ k = Awaiting(job[c])
        \/ /\ StartSending(c) /\ k = [job[c] EXCEPT !.phase = "send", !.at = "none"]
    BY <1>1, <1>5 DEF ResumesWith, Refuse, Refused, Conclude, NextStatement
  <2>2. k.phase \in {"sync", "send"} /\ shown' = shown
    <3>1. CASE NextQuery(c) /\ NextOf(c) # "done" /\ k = Awaiting(job[c])
      BY <1>2, <1>5, <3>1, AwaitingHas DEF NextOf, NextQuery
    <3>2. CASE StartSending(c) /\ k = [job[c] EXCEPT !.phase = "send", !.at = "none"]
      BY <1>2, <3>2 DEF JobType, StartSending
    <3> QED BY <2>1, <3>1, <3>2
  <2>3. Syncing' = Syncing /\ c \in Syncing
    BY <1>2, <1>5, <2>2 DEF Syncing, InPhase, Resumes
  <2>4. \A d \in Coroutines : ~Ahead(d)
    BY <1>2, <1>5 DEF Ahead, Writing, Resumes
  <2>5. Current(c)
    BY <2>3, <2>4 DEF Shows
  <2>6. \A d \in Syncing : d = c
    BY <2>3 DEF Syncing, Typed, Placed
  <2>7. ~Served(c)' /\ Served(c) /\ job[c].at \in Queries /\ expired' = expired
    BY <1>2, <1>5 DEF Resumes
  <2>8. Current(c)'
    <3>1. CASE NextQuery(c) /\ NextOf(c) # "done" /\ k = Awaiting(job[c])
      <4>1. /\ k.at = NextOf(c) /\ k.phase = "sync" /\ k.tasks = job[c].tasks
            /\ k.dashboard = job[c].dashboard
            /\ NextOf(c) = "notice" => k.notices = Notices \ expired
        BY <1>2, <1>5, <3>1, AwaitingHas DEF NextOf
      <4>2. /\ NextOf(c) # "list" /\ NextOf(c) = "notice" => job[c].at = "dashboard"
        BY <2>7 DEF NextOf, After, Queries
      <4>3. job[c].at = "dashboard" => memory'.dashboard = job[c].dashboard
        BY <3>1 DEF NextQuery, Typed, Rest
      <4> QED BY <1>2, <1>5, <2>5, <2>7, <4>1, <4>2, <4>3, SameViews DEF Current, Queries
    <3>2. CASE StartSending(c) /\ k = [job[c] EXCEPT !.phase = "send", !.at = "none"]
      <4>1. /\ k.at = "none" /\ k.phase = "send" /\ k.tasks = job[c].tasks
            /\ k.notices = job[c].notices
        BY <1>2, <1>5, <3>2 DEF JobType
      <4>2. memory' = memory /\ job[c].at = "notice"
        BY <3>2 DEF StartSending
      <4> QED BY <1>2, <1>5, <2>5, <2>7, <4>1, <4>2, SameViews DEF Current, ShowsNotices
    <3> QED BY <2>1, <3>1, <3>2
  <2> QED BY <2>3, <2>6, <2>8
<1> QED BY <1>2, <1>4, <1>5 DEF Resumes

\* The worker thread takes a count, or changes what there is to count.
LEMMA ServeCounted == ASSUME Typed, Counted, Serve PROVE Counted'
<1>1. PICK c \in Coroutines : Serves(c)
  BY Serving
<1>2. /\ memory' = memory /\ past' = past /\ results \in Seq(Coroutines)
      /\ results' = Append(results, c) /\ job[c] \in JobType
  BY <1>1 DEF Serve, Serves, Typed, Jobs, Placed
<1>0. PICK n \in Nat : n = Len(results) + 1
  BY <1>2, LenProperties
<1>3. /\ DOMAIN results = 1..Len(results) /\ DOMAIN results' = (1..Len(results)) \cup {n}
      /\ Len(results) \in Nat /\ results'[n] = c
      /\ \A i \in 1..Len(results) :
           results'[i] = results[i] /\ results[i] \in Coroutines /\ n > i /\ i # n
  <2>1. /\ DOMAIN results = 1..Len(results) /\ Len(results) \in Nat
        /\ \A i \in 1..Len(results) : results[i] \in Coroutines
    BY <1>2, LenProperties, ElementOfSeq
  <2>2. /\ results' \in Seq(Coroutines) /\ Len(results') = n /\ results'[n] = c
        /\ \A i \in 1..Len(results) : results'[i] = results[i]
    BY <1>0, <1>2, AppendProperties
  <2>3. DOMAIN results' = 1..n
    BY <2>2, LenProperties
  <2> QED BY <1>0, <2>1, <2>2, <2>3
<1>4. \A i \in 1..Len(results) : job'[results'[i]] = job[results[i]]
  BY <1>1, <1>3 DEF Serves, Served, Elems
<1>5. /\ \A i \in 1..Len(results) : Counting(i)' <=> Counting(i)
      /\ Counting(n)' <=> AtCount(c)
  BY <1>1, <1>3, <1>4 DEF Counting, AtCount, Writing, Serves
<1> SUFFICES ASSUME \A d \in Coroutines : ~Recount(d)'
             PROVE  /\ \A i \in DOMAIN results' :
                         LastCounting(i)' => job'[results'[i]].count = CountPending(db)'
                    /\ past'.counted /\ (\A i \in DOMAIN results' : ~Counting(i)')
                         => memory'.count = CountPending(db)'
  BY DEF Counted
<1>7. CASE AtCount(c)
  <2>1. db' = db /\ job'[c].count = CountPending(db)
    BY <1>1, <1>2, <1>7, AnswerHas DEF Serves, Effect, AtCount
  <2>2. CountPending(db)' = CountPending(db)
    BY <2>1, SameViews
  <2>3. \A i \in DOMAIN results' : LastCounting(i)' => i = n
    BY <1>3, <1>5, <1>7 DEF LastCounting
  <2> QED BY <1>3, <1>5, <1>7, <2>1, <2>2, <2>3
<1>8. CASE ~AtCount(c)
  <2>1. ~(/\ job[c].at = "update" /\ Matches(job[c].op, job[c].object)
          /\ job[c].op # "dismiss" /\ Writing(c))
    BY <1>1 DEF Serves, Recount, Writing
  <2>2. CountPending(db)' = CountPending(db)
    <3>1. CASE ~(job[c].at = "update" /\ Matches(job[c].op, job[c].object))
      <4>1. db'.state = db.state
        BY <1>1, <3>1, StateKept DEF Serves
      <4> QED BY <4>1, SameViews
    <3>2. CASE job[c].at = "update" /\ Matches(job[c].op, job[c].object)
      <4>1. Writing(c)
        BY <1>1, <3>2 DEF Serves, Writing, Queries
      <4>2. job[c].object \in Notices /\ job[c].object \notin Tasks
        BY <1>1, <2>1, <3>2, <4>1, ObjectsAssumption DEF Serves, Named, Writing
      <4>3. \A t \in Tasks : db'.state[t] = db.state[t]
        BY <1>1, <3>2, <4>2, UpdateDoes DEF Serves, Objects
      <4>4. Having(db, "pending")' = Having(db, "pending")
        BY <4>3 DEF Having
      <4> QED BY <4>4 DEF CountPending
    <3> QED BY <3>1, <3>2
  <2>3. \A d \in Coroutines : ~Recount(d)
    BY <1>1, <1>8 DEF Serves, Recount, AtCount, Writing
  <2>4. /\ \A i \in DOMAIN results :
             LastCounting(i) => job[results[i]].count = CountPending(db)
        /\ past.counted /\ (\A i \in DOMAIN results : ~Counting(i))
             => memory.count = CountPending(db)
    BY <2>3 DEF Counted
  <2>5. \A i \in DOMAIN results' : LastCounting(i)' => i \in DOMAIN results /\ LastCounting(i)
    BY <1>3, <1>5, <1>8 DEF LastCounting
  <2>6. (\A i \in DOMAIN results' : ~Counting(i)') => \A i \in DOMAIN results : ~Counting(i)
    BY <1>3, <1>5
  <2> QED BY <1>2, <1>3, <1>4, <2>2, <2>4, <2>5, <2>6
<1> QED BY <1>7, <1>8

\* The counts are applied in the order in which they were taken.
LEMMA ResumeCounted == ASSUME Typed, Calm, Counted, Resume PROVE Counted'
<1>1. PICK c \in Coroutines, k \in JobType : ResumesWith(c, k)
  BY Resuming
<1>2. /\ Resumes(c) /\ job'[c] = k /\ db' = db /\ job[c] \in JobType
      /\ results \in Seq(Coroutines) /\ results # <<>> /\ results' = Tail(results)
      /\ c = Head(results) /\ Once(results)
  BY <1>1 DEF ResumesWith, Resumes, Typed, Jobs, Placed
<1>3. /\ DOMAIN results = 1..Len(results) /\ DOMAIN results' = 1..(Len(results) - 1)
      /\ Len(results) \in Nat /\ Len(results) >= 1 /\ results[1] = c
      /\ \A i \in 1..(Len(results) - 1) : results'[i] = results[i + 1]
      /\ \A i \in 1..Len(results) : results[i] \in Coroutines
  <2>1. /\ DOMAIN results = 1..Len(results) /\ Len(results) \in Nat
        /\ \A i \in 1..Len(results) : results[i] \in Coroutines
    BY <1>2, LenProperties, ElementOfSeq
  <2>2. /\ results' \in Seq(Coroutines) /\ Len(results') = Len(results) - 1
        /\ \A i \in 1..Len(results') : results'[i] = results[i + 1]
    BY <1>2, HeadTailProperties
  <2>3. DOMAIN results' = 1..Len(results')
    BY <2>2, LenProperties
  <2>4. Len(results) >= 1 /\ results[1] = c
    BY <1>2, <2>1, EmptySeq
  <2> QED BY <2>1, <2>2, <2>3, <2>4
<1>4. \A i \in DOMAIN results : i > 1 => results[i] # c /\ i - 1 \in DOMAIN results'
  BY <1>2, <1>3 DEF Once
<1>5. \A i \in DOMAIN results' :
        /\ i + 1 \in DOMAIN results /\ i + 1 > 1
        /\ job'[results'[i]] = job[results[i + 1]]
  BY <1>2, <1>3, <1>4 DEF Resumes
<1>6. \A i \in DOMAIN results' : Counting(i)' <=> Counting(i + 1)
  BY <1>5 DEF Counting, AtCount, Writing
<1>7. CountPending(db)' = CountPending(db)
  BY <1>2, SameViews
<1> SUFFICES ASSUME \A d \in Coroutines : ~Recount(d)'
             PROVE  /\ \A i \in DOMAIN results' :
                         LastCounting(i)' => job'[results'[i]].count = CountPending(db)'
                    /\ past'.counted /\ (\A i \in DOMAIN results' : ~Counting(i)')
                         => memory'.count = CountPending(db)'
  BY DEF Counted
<1>8. ~Recount(c)
  <2> SUFFICES ASSUME Recount(c) PROVE FALSE
    OBVIOUS
  <2>1. /\ job[c].phase = "services" /\ job[c].hit /\ job[c].op # "dismiss"
        /\ job[c].at # "count" /\ Served(c) /\ ~Served(c)'
    BY <1>2 DEF Recount, Resumes, Writing
  <2>2. job[c].op \in Ops /\ job[c].at \in Statements(job[c].op)
    BY <1>2, <2>1 DEF Resumes, Named
  <2>3. ~Conclude(c)
    BY <2>1, <2>2, AfterStatement DEF Conclude, NextOf
  <2>4. k = Awaiting(job[c]) /\ NextOf(c) # "done"
    BY <1>1, <2>1, <2>3 DEF ResumesWith, Refuse, Refused, StartSending
  <2>5. Recount(c)'
    BY <1>2, <2>1, <2>4, AwaitingHas DEF NextOf, Recount, Writing
  <2> QED BY <2>5
<1>9. \A d \in Coroutines : ~Recount(d)
  BY <1>2, <1>8 DEF Resumes, Recount, Writing
<1>10. /\ \A i \in DOMAIN results :
            LastCounting(i) => job[results[i]].count = CountPending(db)
       /\ past.counted /\ (\A i \in DOMAIN results : ~Counting(i))
            => memory.count = CountPending(db)
  BY <1>9 DEF Counted
<1>11. \A i \in DOMAIN results' : LastCounting(i)' => LastCounting(i + 1)
  <2> SUFFICES ASSUME NEW i \in DOMAIN results', LastCounting(i)',
                      NEW j \in DOMAIN results, j > i + 1
               PROVE  ~Counting(j)
    BY <1>6 DEF LastCounting
  <2>1. j - 1 \in DOMAIN results' /\ j - 1 > i /\ (j - 1) + 1 = j
    BY <1>3
  <2> QED BY <1>6, <2>1 DEF LastCounting
<1>12. (\A i \in DOMAIN results' : ~Counting(i)') =>
         \A j \in DOMAIN results : j > 1 => ~Counting(j)
  <2> SUFFICES ASSUME \A i \in DOMAIN results' : ~Counting(i)',
                      NEW j \in DOMAIN results, j > 1
               PROVE  ~Counting(j)
    OBVIOUS
  <2>1. j - 1 \in DOMAIN results' /\ (j - 1) + 1 = j
    BY <1>3
  <2> QED BY <1>6, <2>1
<1>13. ASSUME past'.counted, \A i \in DOMAIN results' : ~Counting(i)'
       PROVE  memory'.count = CountPending(db)
  <2>1. 1 \in DOMAIN results /\ (Counting(1) <=> AtCount(c))
        /\ \A i \in DOMAIN results : i = 1 \/ i > 1
    BY <1>3 DEF Counting
  <2>2. CASE AtCount(c)
    <3>1. /\ job[c].phase = "services" /\ job[c].at = "count" /\ NextOf(c) = "done"
      BY <2>2 DEF AtCount, Writing, NextOf, After
    <3>2. Conclude(c) /\ job[c].op # "dismiss"
      BY <1>1, <1>2, <3>1, DecisionsAre
         DEF ResumesWith, Refuse, Refused, NextStatement, NextQuery, StartSending,
             Resumes, Statements
    <3>3. memory'.count = job[c].count
      BY <3>2 DEF Conclude, Typed, Rest
    <3>4. LastCounting(1)
      BY <1>12, <1>13, <2>1, <2>2 DEF LastCounting
    <3> QED BY <1>3, <1>10, <2>1, <3>3, <3>4
  <2>3. CASE ~AtCount(c)
    <3>1. memory'.count = memory.count /\ past'.counted = past.counted
      <4>1. CASE Conclude(c)
        <5>1. job[c].phase = "services" /\ NextOf(c) = "done"
          BY <4>1 DEF Conclude
        <5>2. job[c].op = "dismiss"
          BY <1>2, <2>3, <5>1, AfterStatement DEF AtCount, Writing, NextOf, Resumes, Named
        <5> QED BY <4>1, <5>2 DEF Conclude
      <4>2. CASE ~Conclude(c)
        BY <1>1, <4>2 DEF ResumesWith, Refuse, NextStatement, NextQuery, StartSending,
                          Typed, Rest
      <4> QED BY <4>1, <4>2
    <3> QED BY <1>10, <1>12, <1>13, <2>1, <2>3, <3>1
  <2> QED BY <2>2, <2>3
<1> QED BY <1>5, <1>7, <1>10, <1>11, <1>13

\* What an update writes is committed by the coroutine's next statement.
LEMMA ServeCommitted == ASSUME Typed, Committed, Serve PROVE Committed'
<1>1. PICK c \in Coroutines : Serves(c)
  BY Serving
<1>2. CASE job[c].at \in {"commit", "save"}
  <2>1. db' = db /\ disk' = db
    BY <1>1, <1>2 DEF Serves, Effect
  <2> QED BY <2>1 DEF Committed
<1>3. CASE job[c].at \in {"update", "record"}
  <2>1. Committing(c)'
    BY <1>1, <1>3 DEF Serves, Committing, Writing, Queries
  <2> QED BY <2>1 DEF Committed
<1>4. CASE job[c].at \notin {"update", "record", "commit", "save"}
  <2>1. db' = db /\ disk' = disk
    BY <1>1, <1>4 DEF Serves, Effect
  <2>2. \A d \in Coroutines : Committing(d) => Committing(d)'
    BY <1>1, <1>4 DEF Serves, Committing, Writing
  <2> QED BY <2>1, <2>2 DEF Committed
<1> QED BY <1>2, <1>3, <1>4

LEMMA ResumeCommitted == ASSUME Typed, Calm, Committed, Resume PROVE Committed'
<1>1. PICK c \in Coroutines, k \in JobType : ResumesWith(c, k)
  BY Resuming
<1>2. /\ Resumes(c) /\ job'[c] = k /\ db' = db /\ disk' = disk /\ job[c] \in JobType
  BY <1>1 DEF ResumesWith, Resumes, Typed, Jobs
<1>3. \A d \in Coroutines : d # c => (Committing(d) => Committing(d)')
  BY <1>2 DEF Resumes, Committing, Writing
<1>4. Committing(c) => Committing(c)'
  <2> SUFFICES ASSUME Committing(c) PROVE Committing(c)'
    OBVIOUS
  <2>1. /\ job[c].phase = "services" /\ job[c].at \in {"update", "record"}
        /\ NextOf(c) \in {"commit", "save"}
    BY <1>2 DEF Committing, Writing, Resumes, NextOf, After
  <2>2. k = Awaiting(job[c]) /\ NextOf(c) # "done"
    BY <1>1, <2>1 DEF ResumesWith, Refuse, Refused, Conclude, StartSending
  <2> QED BY <1>2, <2>1, <2>2, AwaitingHas DEF NextOf, Resumes, Committing, Writing
<1> QED BY <1>2, <1>3, <1>4 DEF Committed

LEMMA ResumeCalm == ASSUME Typed, Calm, Resume PROVE Calm'
<1>1. PICK c \in Coroutines, k \in JobType : ResumesWith(c, k)
  BY Resuming
<1>2. /\ job'[c] = k /\ job[c] \in JobType
      /\ \A d \in Coroutines : d # c => job'[d] = job[d]
  BY <1>1 DEF ResumesWith, Resumes, Typed, Jobs
<1>3. k.at # "raise"
  <2>1. CASE k = Idle
    BY <2>1 DEF Idle
  <2>2. CASE k = AwaitLock(job[c])
    BY <1>2, <2>2 DEF AwaitLock, JobType
  <2>3. CASE k = Awaiting(job[c]) /\ NextOf(c) # "done"
    BY <1>2, <2>3, AwaitingHas DEF NextOf
  <2>4. CASE k = [job[c] EXCEPT !.phase = "send", !.at = "none"]
    BY <1>2, <2>4 DEF JobType
  <2> QED BY <1>1, <2>1, <2>2, <2>3, <2>4 DEF ResumesWith
<1> QED BY <1>2, <1>3 DEF Calm

LEMMA ServeCalm == ASSUME Typed, Calm, Serve PROVE Calm'
<1>1. PICK c \in Coroutines : Serves(c)
  BY Serving
<1> QED BY <1>1 DEF Serves, Calm

\* A start asks for a sync and has nothing else to show.
Started == Fresh /\ db = disk /\ ~past.counted
Reflected == Calm /\ Shows /\ Counted /\ Committed

LEMMA StartReflected == Started => Reflected
<1> SUFFICES ASSUME Started PROVE Reflected
  OBVIOUS
<1>1. "start" \in Coroutines /\ Ahead("start")
  BY DEF Started, Fresh, Coroutines, Ahead, AwaitLock, Idle
<1>2. Calm
  BY DEF Started, Fresh, Calm, Coroutines, AwaitLock, Idle
<1>3. DOMAIN results = {}
  BY DEF Started, Fresh
<1> QED BY <1>1, <1>2, <1>3 DEF Started, Reflected, Shows, Counted, Committed

LEMMA StartReflectedNext == Started' => Reflected'
BY StartReflected, PTL

\* Requests come in, the lock is granted and syncs end without the database.
LEMMA ElsewhereReflected ==
    ASSUME Typed, Reflected, NEW c \in Coroutines, NEW k, job' = [job EXCEPT ![c] = k],
           job[c].phase # "services", job[c].phase # "sync", k.at # "raise",
           k.phase = "services" => ~k.hit /\ k.at = "update",
           results' = results, db' = db, disk' = disk, memory' = memory,
           past'.counted = past.counted
    PROVE  Calm' /\ Counted' /\ Committed'
<1>1. /\ job'[c] = k /\ c \notin Elems(results)
      /\ \A d \in Coroutines : d # c => job'[d] = job[d]
      /\ \A d \in Coroutines : Served(d)' <=> Served(d)
  BY DEF Typed, Jobs, Placed, InPhase, Served
<1>2. Calm'
  BY <1>1 DEF Reflected, Calm
<1>3. Committed'
  <2>1. \A d \in Coroutines : Committing(d) => Committing(d)'
    BY <1>1 DEF Committing, Writing
  <2> QED BY <2>1 DEF Reflected, Committed
<1>4. Counted'
  <2>1. \A d \in Coroutines : Recount(d)' <=> Recount(d)
    BY <1>1 DEF Recount, Writing
  <2>2. \A i \in DOMAIN results : results[i] \in Coroutines /\ results[i] # c
    BY <1>1, ElementOfSeq, LenProperties DEF Typed, Placed, Elems
  <2>3. \A i \in DOMAIN results :
          job'[results'[i]] = job[results[i]] /\ (Counting(i)' <=> Counting(i))
    BY <1>1, <2>2 DEF Counting, AtCount, Writing
  <2> SUFFICES ASSUME \A d \in Coroutines : ~Recount(d)'
               PROVE  /\ \A i \in DOMAIN results' :
                           LastCounting(i)' => job'[results'[i]].count = CountPending(db)'
                      /\ past'.counted /\ (\A i \in DOMAIN results' : ~Counting(i)')
                           => memory'.count = CountPending(db)'
    BY DEF Counted
  <2>4. /\ \A i \in DOMAIN results :
             LastCounting(i) => job[results[i]].count = CountPending(db)
        /\ past.counted /\ (\A i \in DOMAIN results : ~Counting(i))
             => memory.count = CountPending(db)
    BY <2>1 DEF Reflected, Counted
  <2>5. DOMAIN results' = DOMAIN results
    OBVIOUS
  <2>6. \A i \in DOMAIN results : LastCounting(i)' => LastCounting(i)
    <3> SUFFICES ASSUME NEW i \in DOMAIN results, LastCounting(i)' PROVE LastCounting(i)
      OBVIOUS
    <3>1. Counting(i)' /\ \A j \in DOMAIN results' : j > i => ~Counting(j)'
      BY DEF LastCounting
    <3> QED BY <2>3, <2>5, <3>1 DEF LastCounting
  <2>7. CountPending(db)' = CountPending(db)
    BY SameViews
  <2> QED BY <2>3, <2>4, <2>5, <2>6, <2>7
<1> QED BY <1>2, <1>3, <1>4

\* While nothing has raised since the start of the program.
Truthful == past.sound => Reflected

LEMMA NextTruthful == Typed /\ Truthful /\ [Next]_vars => Truthful'
<1> SUFFICES ASSUME Typed, Truthful, [Next]_vars, past'.sound PROVE Reflected'
  BY DEF Truthful
<1>1. CASE Serve
  <2>1. Reflected
    BY <1>1 DEF Truthful, Serve
  <2> QED BY <1>1, <2>1, ServeCalm, ServeShows, ServeCounted, ServeCommitted DEF Reflected
<1>2. CASE Raise
  BY <1>2 DEF Raise, Typed, Rest
<1>3. CASE Resume
  <2>1. past'.sound = past.sound
    <3>1. past' = past \/ past' = [past EXCEPT !.counted = TRUE]
      BY <1>3 DEF Resume, Refuse, NextStatement, Conclude, Fail, NextQuery, StartSending, GiveUpSync
    <3> QED BY <3>1 DEF Typed, Rest
  <2>2. Reflected
    BY <2>1 DEF Truthful
  <2> QED BY <1>3, <2>2, ResumeCalm, ResumeShows, ResumeCounted, ResumeCommitted DEF Reflected
<1>4. CASE Restart
  <2>1. Started'
    BY <1>4 DEF Restart, Starting, Started, Fresh, Typed, Rest
  <2> QED BY <2>1, StartReflectedNext
<1>5. CASE Granted
  <2>1. PICK c \in Coroutines : c = Head(lock)
    BY <1>5, OnceRemoved DEF Granted, Typed, Placed
  <2> DEFINE k == [job[c] EXCEPT !.phase = "sync", !.at = "list"]
  <2>2. /\ job[c].phase = "lock" /\ job' = [job EXCEPT ![c] = k]
        /\ results' = results /\ db' = db /\ disk' = disk /\ memory' = memory /\ past' = past
    BY <1>5, <2>1 DEF Granted
  <2>3. /\ k.phase = "sync" /\ k.at = "list" /\ job'[c] = k
        /\ \A d \in Coroutines : d # c => job'[d] = job[d]
    BY <2>2 DEF Typed, Jobs, JobType
  <2>4. Reflected
    BY <2>2 DEF Truthful
  <2>5. Calm' /\ Counted' /\ Committed'
    BY <2>2, <2>3, <2>4, ElsewhereReflected
  <2>6. Syncing' = {c}
    <3>1. \A d \in Coroutines : job[d].phase \notin {"sync", "send"}
      BY <2>1, <2>2 DEF InPhase, Typed, Placed
    <3> QED BY <2>3, <3>1 DEF Syncing, InPhase
  <2>7. ~Served(c)'
    BY <2>2 DEF Served, Typed, Placed, InPhase
  <2>8. Current(c)'
    BY <2>3, <2>7 DEF Current
  <2> QED BY <2>5, <2>6, <2>8 DEF Reflected, Shows
<1>6. ASSUME NEW c \in Coroutines, FinishSync(c) \/ GiveUpSending(c) PROVE Reflected'
  <2>1. /\ job[c].phase = "send" /\ job' = [job EXCEPT ![c] = Idle]
        /\ \/ shown' = [memory |-> memory, tasks |-> job[c].tasks,
                        notices |-> job[c].notices, sent |-> TRUE]
           \/ shown' = Unsent(memory)
        /\ results' = results /\ db' = db /\ disk' = disk /\ memory' = memory /\ past' = past
        /\ expired' = expired
    BY <1>6 DEF FinishSync, GiveUpSending, Release
  <2>2. /\ job'[c] = Idle /\ Idle.phase = "idle" /\ Idle.at = "none"
        /\ \A d \in Coroutines : d # c => job'[d] = job[d]
    BY <2>1 DEF Typed, Jobs, Idle
  <2>3. Reflected
    BY <2>1 DEF Truthful
  <2>4. Calm' /\ Counted' /\ Committed'
    BY <2>1, <2>2, <2>3, ElsewhereReflected
  <2>5. Syncing' = {}
    BY <2>1, <2>2 DEF Syncing, InPhase, Typed, Placed
  <2>6. ASSUME \A d \in Coroutines : ~Ahead(d)' PROVE ShownNow'
    <3>1. \A d \in Coroutines : ~Ahead(d)
      BY <2>1, <2>2, <2>6 DEF Ahead, Writing
    <3>2. Current(c)
      BY <2>1, <2>3, <3>1 DEF Reflected, Shows, Syncing, InPhase
    <3>3. shown'.memory = memory /\ (shown'.sent => /\ shown'.tasks = job[c].tasks
                                                   /\ shown'.notices = job[c].notices)
      BY <2>1 DEF Unsent
    <3> QED BY <2>1, <3>2, <3>3, SameViews DEF Current, ShownNow, ShowsNotices
  <2> QED BY <2>4, <2>5, <2>6 DEF Reflected, Shows
<1>7. ASSUME NEW c \in {"ui", "mqtt"}, Resync(c) PROVE Reflected'
  <2> DEFINE k == AwaitLock([Idle EXCEPT !.op = "resync"])
  <2>1. /\ c \in Coroutines /\ job[c].phase = "idle" /\ job' = [job EXCEPT ![c] = k]
        /\ past' = [past EXCEPT !.requests = @ + 1]
        /\ results' = results /\ db' = db /\ disk' = disk /\ memory' = memory
    BY <1>7 DEF Resync, Ready, Coroutines
  <2>2. k.phase = "lock" /\ k.at = "none" /\ job'[c] = k
    BY <2>1 DEF AwaitLock, Idle, Typed, Jobs
  <2>3. past'.sound = past.sound /\ past'.counted = past.counted
    BY <2>1 DEF Typed, Rest
  <2>4. Reflected
    BY <2>3 DEF Truthful
  <2>5. Calm' /\ Counted' /\ Committed'
    BY <2>1, <2>2, <2>3, <2>4, ElsewhereReflected
  <2>6. Ahead(c)'
    BY <2>2 DEF Ahead
  <2> QED BY <2>1, <2>5, <2>6 DEF Reflected, Shows
<1>8. ASSUME NEW c \in {"ui", "mqtt"}, NEW r \in Requests(c), Ask(c, r[1], r[2])
      PROVE  Reflected'
  <2> DEFINE k == [Idle EXCEPT !.phase = "services", !.op = r[1], !.object = r[2],
                               !.at = "update"]
  <2>1. /\ c \in Coroutines /\ job[c].phase = "idle" /\ job' = [job EXCEPT ![c] = k]
        /\ past' = [past EXCEPT !.requests = @ + 1]
        /\ results' = results /\ db' = db /\ disk' = disk /\ memory' = memory /\ shown' = shown
        /\ expired' = expired
    BY <1>8 DEF Ask, Ready, Coroutines
  <2>2. k.phase = "services" /\ k.at = "update" /\ ~k.hit
    BY DEF Idle
  <2>3. past'.sound = past.sound /\ past'.counted = past.counted
    BY <2>1 DEF Typed, Rest
  <2>4. Reflected
    BY <2>3 DEF Truthful
  <2>5. Calm' /\ Counted' /\ Committed'
    BY <2>1, <2>2, <2>3, <2>4, ElsewhereReflected
  <2>6. c \notin Syncing /\ ~Ahead(c)
    BY <2>1 DEF Syncing, InPhase, Ahead, Writing
  <2>7. Shows'
    BY <2>1, <2>2, <2>4, <2>6, ShowsKept DEF Reflected
  <2> QED BY <2>5, <2>7 DEF Reflected
<1>9. CASE UNCHANGED vars \/ \E n \in Notices : Expire(n)
  <2>1. Reflected
    BY <1>9 DEF vars, Expire, Truthful
  <2>2. /\ db' = db /\ disk' = disk /\ job' = job /\ results' = results
        /\ memory' = memory /\ past' = past /\ shown' = shown /\ expired \subseteq expired'
    BY <1>9 DEF vars, Expire
  <2>0. \A d : (Served(d)' <=> Served(d)) /\ (Writing(d)' <=> Writing(d))
               /\ (Ahead(d)' <=> Ahead(d))
    BY <2>2 DEF Served, Writing, Ahead
  <2>3. Calm' /\ Committed'
    BY <2>0, <2>1, <2>2 DEF Reflected, Calm, Committed, Committing
  <2>4. Shows'
    <3>1. \A N : ShowsNotices(N) => ShowsNotices(N)'
      BY <2>2, LaterNotices DEF ShowsNotices
    <3>2. \A d : Current(d) => Current(d)'
      BY <2>0, <2>2, <3>1, SameViews DEF Current
    <3>3. ShownNow => ShownNow'
      BY <2>2, <3>1, SameViews DEF ShownNow
    <3>4. Syncing' = Syncing
      BY <2>2 DEF Syncing, InPhase
    <3> QED BY <2>0, <2>1, <3>2, <3>3, <3>4 DEF Reflected, Shows
  <2>5. Counted'
    BY <2>0, <2>1, <2>2, SameViews DEF Reflected, Counted, Recount, LastCounting, Counting, AtCount
  <2> QED BY <2>3, <2>4, <2>5 DEF Reflected
<1> QED BY <1>1, <1>2, <1>3, <1>4, <1>5, <1>6, <1>7, <1>8, <1>9 DEF Next

\* While no statement raises, every answer leaves the published dashboard and
\* counters and the disk as the database is, whether the panel was reached or
\* not, and the panel too if the last sync reached it, whatever the order in
\* which requests, queries and counts are served (orchestrator.py, _full_sync
\* and the handlers that await the database before they count).
THEOREM ShownStaysCurrent == Spec => []ShownIsCurrent
<1>1. Spec => [](Typed /\ Truthful)
  <2>1. Init => Typed /\ Truthful
    <3>1. Init => Started
      BY DEF Init, Started, Fresh
    <3> QED BY <3>1, InitTyped, StartReflected DEF Truthful
  <2>2. Typed /\ Truthful /\ [Next]_vars => (Typed /\ Truthful)'
    BY NextTyped, NextTruthful
  <2> QED BY <2>1, <2>2, PTL DEF Spec
<1>2. Typed /\ Truthful => ShownIsCurrent
  <2> SUFFICES ASSUME Typed, Truthful, Quiet, past.sound
               PROVE  /\ disk = db
                      /\ shown.memory.dashboard = Dashboard(db)
                      /\ past.counted => shown.memory.count = CountPending(db)
                      /\ shown.sent => /\ shown.tasks = ListRecent(db)
                                      /\ ShowsNotices(shown.notices)
    BY DEF ShownIsCurrent
  <2>1. Reflected /\ \A c \in Coroutines : job[c].phase = "idle"
    BY DEF Truthful, Quiet
  <2>2. disk = db
    BY <2>1 DEF Reflected, Committed, Committing, Writing
  <2>3. ShownNow
    BY <2>1 DEF Reflected, Shows, Ahead, Writing, Syncing, InPhase
  <2>4. \A i \in DOMAIN results : ~Counting(i)
    <3>1. \A i \in DOMAIN results : results[i] \in Coroutines
      BY ElementOfSeq, LenProperties DEF Typed, Placed
    <3> QED BY <2>1, <3>1 DEF Counting, AtCount, Writing
  <2>5. past.counted => memory.count = CountPending(db)
    BY <2>1, <2>4 DEF Reflected, Counted, Recount, Writing
  <2> QED BY <2>2, <2>3, <2>5 DEF ShownNow
<1> QED BY <1>1, <1>2, PTL

=============================================================================
