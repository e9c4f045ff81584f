----------------------------- MODULE Decisions -----------------------------
(***************************************************************************)
(* Decisions on tasks and notices: TaskService, NoticeService and           *)
(* ConfirmationService over the one aiosqlite connection of the program,    *)
(* and what the orchestrator shows of them.                                 *)
(*                                                                         *)
(* Everybody shares the connection and therefore its transaction.  Each     *)
(* awaited statement is a request to the connection's worker thread, which  *)
(* serves them in order (Serve); the event loop resumes the coroutines in   *)
(* the order of the results (Resume).  What a coroutine does between two    *)
(* awaits is one step.                                                      *)
(*                                                                         *)
(* db is the database as the connection sees it, disk what is committed:    *)
(* the file as the next start of the program finds it.                      *)
(***************************************************************************)
EXTENDS Integers, Sequences, FiniteSets

CONSTANTS
    Tasks, Notices, \* rows of the two tables
    Expiring,       \* notices that have an expires_at_ms
    LeftBehind,     \* states in which earlier runs may have left the tasks,
    NoticesLeft,    \* and the notices
    MaxRequests,    \* bound: requests in a behaviour
    MaxFaults,      \* bound: statements that raise
    MaxRestarts     \* bound: ends of the program, by crash or signal

ASSUME ObjectsAssumption ==
    Tasks \cap Notices = {} /\ IsFiniteSet(Tasks) /\ Expiring \subseteq Notices
\* Bound: no more tasks than list_recent returns.
ASSUME ListAssumption == Cardinality(Tasks) <= 16
ASSUME BoundsAssumption == {MaxRequests, MaxFaults, MaxRestarts} \subseteq Nat

VARIABLES
    db, disk, \* records [state, recorded, decided, retried] over Objects:
              \*   state and recorded (rows of confirmations) are columns,
              \*   decided and retried histories of the transitions
    job,      \* coroutine -> its request, and the statement it is at
    queue,    \* coroutines whose statement waits for the worker thread
    results,  \* coroutines whose result waits for the event loop
    lock,     \* the orchestrator's lock: its holder, then those who wait
    memory,   \* SystemState.confirmation_count and _dashboard
    shown,    \* what the last sync published (memory) and, if the panel
              \*   acknowledged all of it (sent), its tasks and notices
    expired,  \* notices that are over: expires_at_ms <= the clock
    told,     \* history: object -> decisions and other changes answered with OK
    past      \* history: requests, faults, restarts, rolledBack (a fault did);
              \*   since the start of the program, counted (a count was
              \*   applied) and sound (nothing raised)

vars == <<db, disk, job, queue, results, lock, memory, shown, expired, told, past>>

Objects == Tasks \cup Notices

\* The read loop with its UI action, the MQTT handler, and start().
Coroutines == {"ui", "mqtt", "start"}

-----------------------------------------------------------------------------
(* The requests and their statements.                                       *)

TaskStates == {"pending", "active", "completed", "failed"}
NoticeStates == {"active", "dismissed"}

ASSUME LeftBehindAssumption ==
    LeftBehind \subseteq TaskStates /\ NoticesLeft \subseteq NoticeStates

Decisions == {"confirm", "reject"}

\* What a coroutine may be asked for: the panel names the object's type, MQTT
\* commands confirm and reject tasks only.
Requests(c) ==
    (Decisions \cup {"retry"}) \X Tasks
        \cup {"dismiss"} \X Notices
        \cup (IF c = "ui" THEN Decisions \X Notices ELSE {})

\* WHERE state = ? and SET state = ?, or the same of dismissed_at_ms.
From(op, o) ==
    IF o \in Notices THEN "active" ELSE IF op = "retry" THEN "failed" ELSE "pending"

To(op, o) ==
    IF o \in Notices THEN "dismissed"
    ELSE CASE op = "confirm" -> "active" [] op = "reject" -> "completed" [] op = "retry" -> "pending"

\* Mutant: the update without AND state = ?.
MatchesAny(op, o) == TRUE

Matches(op, o) == db.state[o] = From(op, o)

Update(op, o) ==
    IF Matches(op, o)
    THEN [db EXCEPT !.state[o] = To(op, o),
                    !.decided[o] = IF op = "retry" THEN @ ELSE @ + 1,
                    !.retried[o] = IF op = "retry" THEN @ + 1 ELSE @]
    ELSE db

\* What a coroutine awaits after statement s.  A query is one statement: its
\* rows are those of its execution, and between that and its result's turn in
\* the event loop others are served, as they are while the rows are fetched and
\* the cursor is closed.  "save" is the second commit of a decision.

\* Mutant: _record without its commit.
AfterUncommitted(op, s) ==
    CASE s = "update" -> "commit" [] s = "commit" -> "get"
      [] s = "get"    -> IF op \in Decisions THEN "record"
                         ELSE IF op = "retry" THEN "count" ELSE "done"
      [] s = "record" -> "count"
      [] s = "list"   -> "dashboard" [] s = "dashboard" -> "notice"
      [] OTHER        -> "done"

\* Mutant: a rejection is not recorded.
AfterUnrecorded(op, s) ==
    CASE s = "update" -> "commit" [] s = "commit" -> "get"
      [] s = "get"    -> IF op = "confirm" THEN "record"
                         ELSE IF op = "dismiss" THEN "done" ELSE "count"
      [] s = "record" -> "save" [] s = "save" -> "count"
      [] s = "list"   -> "dashboard" [] s = "dashboard" -> "notice"
      [] OTHER        -> "done"

After(op, s) ==
    CASE s = "update" -> "commit" [] s = "commit" -> "get"
      [] s = "get"    -> IF op \in Decisions THEN "record"
                         ELSE IF op = "retry" THEN "count" ELSE "done"
      [] s = "record" -> "save" [] s = "save" -> "count"
      [] s = "list"   -> "dashboard" [] s = "dashboard" -> "notice"
      [] OTHER        -> "done"

-----------------------------------------------------------------------------
(* What is shown of a database d.                                           *)

Having(d, s) == {t \in Tasks : d.state[t] = s}

CountPending(d) == Cardinality(Having(d, "pending"))

\* The counters per quadrant are one here.
Dashboard(d) ==
    [open |-> Cardinality(Having(d, "pending") \cup Having(d, "active")),
     completed |-> Cardinality(Having(d, "completed")),
     failed |-> Cardinality(Having(d, "failed"))]

ListRecent(d) == [t \in Tasks |-> d.state[t]]

\* Not dismissed; latest_active takes the newest of those not expired.
ActiveNotices(d) == {n \in Notices : d.state[n] = "active"}

-----------------------------------------------------------------------------
NoCounters == [o \in Objects |-> 0]

NoDashboard == [open |-> 0, completed |-> 0, failed |-> 0]

Idle == [phase |-> "idle", op |-> "none", object |-> "none", at |-> "none",
         hit |-> FALSE, count |-> 0, dashboard |-> NoDashboard,
         tasks |-> [t \in Tasks |-> "none"], notices |-> {}]

\* _full_sync: asks for the lock.
AwaitLock(j) == [j EXCEPT !.phase = "lock", !.at = "none"]

FreshMemory == [count |-> 0, dashboard |-> NoDashboard]

\* Published, not sent.
Unsent(m) == [memory |-> m, tasks |-> Idle.tasks, notices |-> {}, sent |-> FALSE]

NothingShown == Unsent(FreshMemory)

Starting ==
    /\ job' = [c \in Coroutines |-> IF c = "start" THEN AwaitLock(Idle) ELSE Idle]
    /\ queue' = <<>> /\ results' = <<>> /\ lock' = <<"start">>
    /\ memory' = FreshMemory /\ shown' = NothingShown

\* Any database that earlier runs left behind.
Init ==
    /\ \E s \in [Objects -> LeftBehind \cup NoticesLeft] :
        /\ \A o \in Objects : s[o] \in (IF o \in Tasks THEN LeftBehind ELSE NoticesLeft)
        /\ db = [state |-> s, recorded |-> NoCounters,
                 decided |-> NoCounters, retried |-> NoCounters]
    /\ disk = db
    /\ job = [c \in Coroutines |-> IF c = "start" THEN AwaitLock(Idle) ELSE Idle]
    /\ queue = <<>> /\ results = <<>> /\ lock = <<"start">>
    /\ memory = FreshMemory /\ shown = NothingShown /\ expired = {}
    /\ told = [o \in Objects |-> [decisions |-> 0, changes |-> 0]]
    /\ past = [requests |-> 0, faults |-> 0, restarts |-> 0, counted |-> FALSE,
               sound |-> TRUE, rolledBack |-> FALSE]

-----------------------------------------------------------------------------
(* The worker thread.                                                       *)

\* Mutant: the count is taken before the transition.
AnswerCountsFirst(c) ==
    LET j == job[c]
    IN  CASE j.at = "update" -> [j EXCEPT !.hit = Matches(j.op, j.object),
                                          !.count = CountPending(db)]
          [] j.at = "list"   -> [j EXCEPT !.tasks = ListRecent(db)]
          [] j.at = "dashboard" -> [j EXCEPT !.dashboard = Dashboard(db)]
          [] j.at = "notice" -> [j EXCEPT !.notices = @ \cap ActiveNotices(db)]
          [] OTHER -> j

\* What a query leaves with the coroutine.
Answer(c) ==
    LET j == job[c]
    IN  CASE j.at = "update" -> [j EXCEPT !.hit = Matches(j.op, j.object)]
          [] j.at = "count"  -> [j EXCEPT !.count = CountPending(db)]
          [] j.at = "list"   -> [j EXCEPT !.tasks = ListRecent(db)]
          [] j.at = "dashboard" -> [j EXCEPT !.dashboard = Dashboard(db)]
          [] j.at = "notice" -> [j EXCEPT !.notices = @ \cap ActiveNotices(db)]
          [] OTHER -> j

Effect(c) ==
    LET j == job[c]
    IN  CASE j.at = "update" -> Update(j.op, j.object)
          [] j.at = "record" -> [db EXCEPT !.recorded[j.object] = @ + 1]
          [] OTHER -> db

\* A commit commits what any coroutine has written so far.
Serve ==
    /\ queue # <<>>
    /\ LET c == Head(queue)
       IN  /\ db' = Effect(c)
           /\ disk' = IF job[c].at \in {"commit", "save"} THEN db ELSE disk
           /\ job' = [job EXCEPT ![c] = Answer(c)]
           /\ queue' = Tail(queue)
           /\ results' = Append(results, c)
    /\ UNCHANGED <<lock, memory, shown, expired, told, past>>

\* The statement raises and has no effect; on some errors SQLite also rolls the
\* transaction back, whoever it belongs to.
Raise ==
    /\ queue # <<>>
    /\ past.faults < MaxFaults
    /\ db' \in {db, disk}
    /\ job' = [job EXCEPT ![Head(queue)].at = "raise"]
    /\ queue' = Tail(queue)
    /\ results' = Append(results, Head(queue))
    /\ past' = [past EXCEPT !.faults = @ + 1, !.sound = FALSE,
                            !.rolledBack = @ \/ db' # db]
    /\ UNCHANGED <<disk, lock, memory, shown, expired, told>>

-----------------------------------------------------------------------------
(* The event loop: requests and answers.                                    *)

\* Each sender's requests are handled one by one; the MQTT client is started
\* once start() has returned.
Ready(c) == job[c].phase = "idle" /\ (c = "mqtt" => job["start"].phase = "idle")

\* A UI action or an MQTT command.
Ask(c, op, o) ==
    /\ Ready(c)
    /\ past.requests < MaxRequests
    /\ job' = [job EXCEPT ![c] = [Idle EXCEPT !.phase = "services", !.op = op,
                                              !.object = o, !.at = "update"]]
    /\ queue' = Append(queue, c)
    /\ past' = [past EXCEPT !.requests = @ + 1]
    /\ UNCHANGED <<db, disk, results, lock, memory, shown, expired, told>>

Resync(c) ==
    /\ Ready(c)
    /\ past.requests < MaxRequests
    /\ job' = [job EXCEPT ![c] = AwaitLock([Idle EXCEPT !.op = "resync"])]
    /\ lock' = Append(lock, c)
    /\ past' = [past EXCEPT !.requests = @ + 1]
    /\ UNCHANGED <<db, disk, queue, results, memory, shown, expired, told>>

\* The sender is answered OK.
Tell(c) ==
    told' = CASE job[c].op \in Decisions -> [told EXCEPT ![job[c].object].decisions = @ + 1]
              [] job[c].op \in {"retry", "dismiss"} -> [told EXCEPT ![job[c].object].changes = @ + 1]
              [] OTHER -> told

-----------------------------------------------------------------------------
(* The event loop: coroutine c gets the result of its statement.            *)

NextOf(c) == After(job[c].op, job[c].at)

\* The query for a notice takes the clock with it when it is made.
Awaiting(j) ==
    [j EXCEPT !.at = After(j.op, j.at),
              !.notices = IF After(j.op, j.at) = "notice" THEN Notices \ expired ELSE @]

AwaitNext(c) ==
    /\ job' = [job EXCEPT ![c] = Awaiting(job[c])]
    /\ queue' = Append(queue, c)

\* rowcount is looked at once the update is committed.
Refused(c) == job[c].phase = "services" /\ job[c].at = "commit" /\ ~job[c].hit

\* Answered NOT_FOUND.
Refuse(c) ==
    /\ Refused(c)
    /\ job' = [job EXCEPT ![c] = Idle]
    /\ UNCHANGED <<queue, lock, memory, shown, told, past>>

NextStatement(c) ==
    /\ job[c].phase = "services" /\ NextOf(c) # "done" /\ ~Refused(c)
    /\ AwaitNext(c)
    /\ UNCHANGED <<lock, memory, shown, told, past>>

\* Applies the count, if the request has one, and asks for a sync.
Conclude(c) ==
    /\ job[c].phase = "services" /\ NextOf(c) = "done" /\ job[c].at # "raise"
    /\ IF job[c].op = "dismiss" THEN UNCHANGED <<memory, past>>
       ELSE /\ memory' = [memory EXCEPT !.count = job[c].count]
            /\ past' = [past EXCEPT !.counted = TRUE]
    /\ job' = [job EXCEPT ![c] = AwaitLock(@)]
    /\ lock' = Append(lock, c)
    /\ UNCHANGED <<queue, shown, told>>

\* The request is answered with an error.
Fail(c) ==
    /\ job[c].phase = "services" /\ job[c].at = "raise"
    /\ job' = [job EXCEPT ![c] = Idle]
    /\ UNCHANGED <<queue, lock, memory, shown, told, past>>

NextQuery(c) ==
    /\ job[c].phase = "sync" /\ NextOf(c) # "done"
    /\ AwaitNext(c)
    /\ memory' = IF job[c].at = "dashboard"
                 THEN [memory EXCEPT !.dashboard = job[c].dashboard] ELSE memory
    /\ UNCHANGED <<lock, shown, told, past>>

StartSending(c) ==
    /\ job[c].phase = "sync" /\ job[c].at = "notice"
    /\ job' = [job EXCEPT ![c].phase = "send", ![c].at = "none"]
    /\ UNCHANGED <<queue, lock, memory, shown, told, past>>

\* Mutant: the lock is not released.
ReleaseNothing(c, s) ==
    /\ shown' = s
    /\ job' = [job EXCEPT ![c] = Idle]
    /\ Tell(c)
    /\ UNCHANGED lock

\* The sync ends, and what is in memory is published with it.
Release(c, s) ==
    /\ shown' = s
    /\ lock' = Tail(lock)
    /\ job' = [job EXCEPT ![c] = Idle]
    /\ Tell(c)

\* A sync that fails is logged, the request still answered OK.
GiveUpSync(c) ==
    /\ job[c].phase = "sync" /\ job[c].at = "raise"
    /\ Release(c, Unsent(memory))
    /\ UNCHANGED <<queue, memory, past>>

Resume ==
    /\ results # <<>>
    /\ LET c == Head(results)
       IN  \/ Refuse(c) \/ NextStatement(c) \/ Conclude(c) \/ Fail(c)
           \/ NextQuery(c) \/ StartSending(c) \/ GiveUpSync(c)
    /\ results' = Tail(results)
    /\ UNCHANGED <<db, disk, expired>>

\* The first of those who asked for the lock gets it.
Granted ==
    /\ lock # <<>>
    /\ job[Head(lock)].phase = "lock"
    /\ job' = [job EXCEPT ![Head(lock)] = [@ EXCEPT !.phase = "sync", !.at = "list"]]
    /\ queue' = Append(queue, Head(lock))
    /\ UNCHANGED <<db, disk, results, lock, memory, shown, expired, told, past>>

\* Every frame is acknowledged.  The sync of a UI action cannot get that far:
\* the read loop, which waits for the handler, has to dispatch the answers.
FinishSync(c) ==
    /\ job[c].phase = "send" /\ c # "ui"
    /\ Release(c, [memory |-> memory, tasks |-> job[c].tasks,
                   notices |-> job[c].notices, sent |-> TRUE])
    /\ UNCHANGED <<db, disk, queue, results, memory, expired, past>>

\* A send fails, as the BEGIN of a UI action's sync always does, and the frames
\* that are left are not sent; the state is published and the request answered
\* OK all the same.
GiveUpSending(c) ==
    /\ job[c].phase = "send"
    /\ Release(c, Unsent(memory))
    /\ UNCHANGED <<db, disk, queue, results, memory, expired, past>>

\* Time passes; nobody is told.
Expire(n) ==
    /\ n \in Expiring \ expired
    /\ expired' = expired \cup {n}
    /\ UNCHANGED <<db, disk, job, queue, results, lock, memory, shown, told, past>>

\* The program ends anywhere, without its open transaction, and starts again.
\* If the machine does too, the monotonic clock starts at zero.
Restart ==
    /\ past.restarts < MaxRestarts
    /\ Starting
    /\ expired' \in {expired, {}}
    /\ db' = disk
    /\ past' = [past EXCEPT !.restarts = @ + 1, !.counted = FALSE, !.sound = TRUE]
    /\ UNCHANGED <<disk, told>>

Next ==
    \/ Serve \/ Raise \/ Resume \/ Granted \/ Restart
    \/ \E c \in Coroutines : FinishSync(c) \/ GiveUpSending(c)
    \/ \E n \in Notices : Expire(n)
    \/ \E c \in {"ui", "mqtt"} : Resync(c) \/ \E r \in Requests(c) : Ask(c, r[1], r[2])

Spec == Init /\ [][Next]_vars

-----------------------------------------------------------------------------
(* Properties.                                                              *)

Databases == [state : [Objects -> TaskStates \cup NoticeStates], recorded : [Objects -> Nat],
              decided : [Objects -> Nat], retried : [Objects -> Nat]]

Elems(s) == {s[i] : i \in DOMAIN s}
Once(s) == \A i, j \in DOMAIN s : s[i] = s[j] => i = j
InPhase(P) == {c \in Coroutines : job[c].phase \in P}

\* Every column holds a value that the program can read back, a coroutine
\* waits for one statement at a time, and only the lock's holder is in a sync.
TypeOK ==
    /\ {db, disk} \subseteq Databases
    /\ \A d \in {db, disk}, o \in Objects :
        d.state[o] \in (IF o \in Tasks THEN TaskStates ELSE NoticeStates)
    /\ Once(queue) /\ Once(results) /\ Once(lock)
    /\ Elems(queue) \cap Elems(results) = {}
    /\ Elems(queue) \cup Elems(results) = InPhase({"services", "sync"})
    /\ Elems(lock) = InPhase({"lock", "sync", "send"})
    /\ \A c \in InPhase({"sync", "send"}) : c = Head(lock)
    /\ memory.count \in 0..Cardinality(Tasks)

\* However the panel and MQTT clients race, a task is decided once, and once
\* more for each retry that put it back; a notice is dismissed once.  No more
\* decisions than that are ever answered OK.
DecidedOnce ==
    \A o \in Objects :
        /\ db.decided[o] <= 1 + db.retried[o]
        /\ ~past.rolledBack => told[o].decisions <= 1 + db.retried[o]

\* A decision that was answered OK is on disk with its confirmation, a retry
\* or a dismissal that was answered OK is on disk, and no confirmation is on
\* disk without its decision: whenever the program ends, nothing that a sender
\* was told is lost.  Only a fault that rolls back a transaction of somebody
\* else's can break this.
AcknowledgedIsDurable ==
    ~past.rolledBack =>
        \A o \in Objects :
            /\ told[o].decisions <= disk.recorded[o]
            /\ disk.recorded[o] <= disk.decided[o]
            /\ told[o].changes + (IF o \in Notices THEN told[o].decisions ELSE 0)
               <= (IF o \in Tasks THEN disk.retried[o] ELSE disk.decided[o])

\* While nothing is under way, the decisions on a task that have no
\* confirmation are those that a fault or the end of the program interrupted.
Quiet == \A c \in Coroutines : job[c].phase = "idle"

GapsAreInterruptions ==
    Quiet => \A t \in Tasks : db.decided[t] - db.recorded[t] <= past.faults + past.restarts

\* What the panel may show of the notices: those that are neither dismissed nor
\* over, and perhaps some that were not over yet when they were fetched.
ShowsNotices(N) ==
    ActiveNotices(db) \ expired \subseteq N /\ N \subseteq ActiveNotices(db)

\* Once every request is answered, the published dashboard is that of the
\* database, and all of it is committed; the number of confirmations too, once
\* a request has counted it: whether or not the panel could be told.  If the
\* last sync reached the panel, its task list and notices are those of the
\* database, whoever decided what before, and whatever became of their syncs.
ShownIsCurrent ==
    Quiet /\ past.sound =>
        /\ disk = db
        /\ shown.memory.dashboard = Dashboard(db)
        /\ past.counted => shown.memory.count = CountPending(db)
        /\ shown.sent => shown.tasks = ListRecent(db) /\ ShowsNotices(shown.notices)
=============================================================================
