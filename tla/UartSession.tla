---------------------------- MODULE UartSession ----------------------------
(***************************************************************************)
(* UartSession and its use by UartGateway: which UI actions of the panel    *)
(* are executed, and what the panel is answered.                            *)
(*                                                                         *)
(* A UI action carries the panel's frame sequence number.  The panel sends  *)
(* it again until it is answered, so the gateway remembers the results of   *)
(* the last actions under (boot id, sequence number), forgets them when the *)
(* panel boots, and forgets the oldest one when there are too many.  The    *)
(* read loop executes an action before it looks at the next frame.          *)
(***************************************************************************)
EXTENDS Integers, Sequences, FiniteSets

CONSTANTS
    Boots,       \* boot ids of the panel
    Payloads,    \* action, object and value of a UI action
    CacheSize,   \* _max_cache_size
    SeqMax,      \* the panel's sequence numbers are 1..SeqMax, in turn
    MaxFrames,   \* bound: frames the panel sends in one boot
    MaxWire,     \* bound: frames on their way to the read loop
    MaxEffects,  \* bound: executions
    MaxRestarts, \* bound: restarts of the OPI program
    None         \* Python's None

ASSUME SizesAssumption == CacheSize \in Nat \ {0} /\ SeqMax \in Nat \ {0}
ASSUME BoundsAssumption ==
    /\ MaxFrames \in Nat /\ MaxWire \in Nat /\ MaxEffects \in Nat /\ MaxRestarts \in Nat

VARIABLES
    panel,    \* T5: boot (None before the first), used boot ids, greeted (its HELLO
              \*     was answered), count of frames sent, actions sent
    wire,     \* frames the read loop has not dispatched yet
    session,  \* UartSession.boot_id
    cache,    \* _dedup_cache, oldest entry first
    busy,     \* the action being executed, in _in_flight, or None
    effects,  \* executions so far
    restarts, \* restarts of the OPI program so far
    log,      \* history: actions executed since the session began, in order
    outcome,  \* history: action -> the outcome of its last execution, or None
    answers   \* history: the [request, outcome] pairs that the panel was told

vars == <<panel, wire, session, cache, busy, effects, restarts, log, outcome, answers>>

-----------------------------------------------------------------------------
\* The n-th frame a boot of the panel sends, if it is a UI action.
Actions == [boot: Boots, n: 1..MaxFrames, payload: Payloads]

Outcomes == 1..MaxEffects

ASSUME NoneAssumption == None \notin Boots /\ None \notin Actions /\ None \notin Nat

\* The number that the panel (external) gives to its n-th frame.
SeqOf(n) == ((n - 1) % SeqMax) + 1

Hello(b) == [kind |-> "hello", boot |-> b]
Ui(a) == [kind |-> "ui", action |-> a]
Frames == {Hello(b) : b \in Boots} \cup {Ui(a) : a \in Actions}

Elems(s) == {s[i] : i \in DOMAIN s}

Init ==
    /\ panel = [boot |-> None, used |-> {}, greeted |-> FALSE, count |-> 0, sent |-> {}]
    /\ wire = <<>>
    /\ session = None
    /\ cache = <<>>
    /\ busy = None
    /\ effects = 0
    /\ restarts = 0
    /\ log = <<>>
    /\ outcome = [a \in Actions |-> None]
    /\ answers = {}

history == <<log, outcome, answers>>
gateway == <<session, cache, busy, effects>>

-----------------------------------------------------------------------------
(* The panel (external).  A frame that is lost is one it did not send yet.  *)

PanelBoot(b) ==
    /\ b \notin panel.used
    /\ panel' = [boot |-> b, used |-> panel.used \cup {b}, greeted |-> FALSE,
                 count |-> 0, sent |-> {}]
    /\ UNCHANGED <<wire, gateway, restarts, history>>

\* Bound: the panel sends no more actions than may be executed.
WireHasRoom ==
    /\ Len(wire) < MaxWire
    /\ effects + Len(wire) < MaxEffects

\* Repeated until it is answered, and whenever the panel takes the link for lost.
PanelHello ==
    /\ panel.boot # None
    /\ Hello(panel.boot) \notin Elems(wire) /\ Len(wire) < MaxWire
    /\ wire' = Append(wire, Hello(panel.boot))
    /\ UNCHANGED <<panel, gateway, restarts, history>>

\* With its HELLO answered, the panel sends actions ...
PanelActs(p) ==
    LET a == [boot |-> panel.boot, n |-> panel.count + 1, payload |-> p] IN
    /\ panel.greeted
    /\ panel.count < MaxFrames /\ WireHasRoom
    /\ panel' = [panel EXCEPT !.count = @ + 1, !.sent = @ \cup {a}]
    /\ wire' = Append(wire, Ui(a))
    /\ UNCHANGED <<gateway, restarts, history>>

\* ... page events and acknowledged frames, which take numbers too ...
PanelCounts ==
    /\ panel.greeted /\ panel.count < MaxFrames
    /\ panel' = [panel EXCEPT !.count = @ + 1]
    /\ UNCHANGED <<wire, gateway, restarts, history>>

\* ... and repeats an action, under the number it had.
PanelRepeats(a) ==
    /\ a \in panel.sent /\ WireHasRoom
    /\ wire' = Append(wire, Ui(a))
    /\ UNCHANGED <<panel, gateway, restarts, history>>

-----------------------------------------------------------------------------
(* UartSession.                                                             *)

Key(a) == [boot |-> session, seq |-> SeqOf(a.n)]

\* The entry for the action's key, at most one.
Hits(a) == {i \in DOMAIN cache : cache[i].key = Key(a)}

\* Mutant: the digest of the payload is not compared.
SameKey(a, e) == TRUE

SameDigest(a, e) == e.digest = a.payload

\* Mutant: the newest entry is evicted.
EvictNewest(c) == IF Len(c) >= CacheSize THEN SubSeq(c, 1, Len(c) - 1) ELSE c

\* Mutant: one entry too many.
EvictLate(c) == IF Len(c) > CacheSize THEN Tail(c) ELSE c

Evict(c) == IF Len(c) >= CacheSize THEN Tail(c) ELSE c

\* record_result
Record(a, o) ==
    Append(Evict(cache),
           [key |-> Key(a), digest |-> a.payload, action |-> a, outcome |-> o])

\* Mutant: a new boot id does not end the session.
ResetOnce(b) ==
    IF session = None THEN session' = b /\ cache' = <<>> /\ log' = <<>>
                      ELSE UNCHANGED <<session, cache, log>>

\* reset
Reset(b) ==
    /\ session' = b
    /\ cache' = <<>>
    /\ log' = IF b = session THEN log ELSE <<>>

-----------------------------------------------------------------------------
(* UartGateway: the read loop.  A HELLO and a UI action too short to be     *)
(* parsed are refused, INVALID_ARGUMENT and INVALID_LENGTH, with no change  *)
(* of the state: they are not sent here.                                    *)

Receive(kind) ==
    /\ busy = None
    /\ wire # <<>> /\ Head(wire).kind = kind
    /\ wire' = Tail(wire)

\* Mutant: every HELLO begins a session.
OnHelloAnew ==
    /\ Receive("hello")
    /\ Reset(Head(wire).boot)
    /\ \E heard \in BOOLEAN :
         panel' = [panel EXCEPT !.greeted = @ \/ (heard /\ Head(wire).boot = panel.boot)]
    /\ UNCHANGED <<busy, effects, restarts, outcome, answers>>

\* Answered, which the panel may not hear; only another boot id begins a session.
OnHello ==
    /\ Receive("hello")
    /\ IF Head(wire).boot # session THEN Reset(Head(wire).boot)
       ELSE UNCHANGED <<session, cache, log>>
    /\ \E heard \in BOOLEAN :
         panel' = [panel EXCEPT !.greeted = @ \/ (heard /\ Head(wire).boot = panel.boot)]
    /\ UNCHANGED <<busy, effects, restarts, outcome, answers>>

Tell(a, o) == answers' = answers \cup {[request |-> a, outcome |-> o]}

\* Answered with NOT_READY: there is no session.
NotReady(a) == session = None /\ UNCHANGED <<busy, effects, answers>>

\* Answered with the cached result.
Replay(a) ==
    /\ \E i \in Hits(a) : SameDigest(a, cache[i]) /\ Tell(a, cache[i].outcome)
    /\ UNCHANGED <<busy, effects>>

\* Answered with STATE_CONFLICT.
Conflict(a) ==
    /\ \E i \in Hits(a) : ~SameDigest(a, cache[i])
    /\ UNCHANGED <<busy, effects, answers>>

\* Executed: the handler changes the state and then awaits the panel.
Execute(a) ==
    /\ session # None /\ Hits(a) = {}
    /\ busy' = a
    /\ effects' = effects + 1
    /\ UNCHANGED answers

OnUiAction ==
    /\ Receive("ui")
    /\ LET a == Head(wire).action IN
         NotReady(a) \/ Replay(a) \/ Conflict(a) \/ Execute(a)
    /\ UNCHANGED <<panel, session, cache, restarts, log, outcome>>

\* The handler returned a status, or raised: INTERNAL_ERROR is a result too.
Answered ==
    /\ busy # None
    /\ busy' = None
    /\ cache' = Record(busy, effects)
    /\ log' = Append(log, busy)
    /\ outcome' = [outcome EXCEPT ![busy] = effects]
    /\ Tell(busy, effects)
    /\ UNCHANGED <<panel, wire, session, effects, restarts>>

\* The program is restarted: the session and what is on the wire are lost.
Restart ==
    /\ restarts < MaxRestarts
    /\ restarts' = restarts + 1
    /\ wire' = <<>>
    /\ session' = None /\ cache' = <<>> /\ busy' = None /\ log' = <<>>
    /\ UNCHANGED <<panel, effects, outcome, answers>>

-----------------------------------------------------------------------------
Panel ==
    \/ \E b \in Boots : PanelBoot(b)
    \/ PanelHello \/ PanelCounts
    \/ \E p \in Payloads : PanelActs(p)
    \/ \E a \in Actions : PanelRepeats(a)

Next == Panel \/ OnHello \/ OnUiAction \/ Answered \/ Restart

Spec == Init /\ [][Next]_vars

-----------------------------------------------------------------------------
(* Properties.                                                              *)

EntryOf == [key: [boot: Boots, seq: 1..SeqMax], digest: Payloads,
            action: Actions, outcome: Outcomes]

\* Every variable has its type; the cache keeps to its size.
TypeOK ==
    /\ panel \in [boot: Boots \cup {None}, used: SUBSET Boots, greeted: BOOLEAN,
                  count: 0..MaxFrames, sent: SUBSET Actions]
    /\ Elems(wire) \subseteq Frames
    /\ session \in Boots \cup {None}
    /\ Len(cache) <= CacheSize /\ Elems(cache) \subseteq EntryOf
    /\ busy \in Actions \cup {None}
    /\ effects \in 0..MaxEffects /\ restarts \in 0..MaxRestarts
    /\ outcome \in [Actions -> Outcomes \cup {None}]
    /\ answers \subseteq [request: Actions, outcome: Outcomes]

\* A repeated action is executed again only after as many other actions of the
\* session as the cache has room for.
RepeatsAreRemembered ==
    [][\A a \in Actions : busy = None /\ busy' = a =>
          \A i \in DOMAIN log : log[i] = a => Len(log) - i >= CacheSize]_vars

\* An action of a panel whose HELLO was answered, seen for the first time, is
\* executed, and not taken for a repetition or a conflict, unless the panel's
\* numbers have gone once around between it and an action still cached.
NewActionsAreExecuted ==
    [][\A a \in Actions :
          /\ wire # <<>> /\ wire' = Tail(wire) /\ Head(wire) = Ui(a)
          /\ a.boot = panel.boot /\ panel.greeted /\ session' # None
          /\ outcome[a] = None
          /\ \A e \in Elems(cache) : /\ a.n < e.action.n + SeqMax
                                     /\ e.action.n < a.n + SeqMax
          => busy' = a]_vars

\* Numbers that went around never make one action answered with the result of
\* a different one: it is refused as a conflict.
AnswersFitTheAction ==
    [][\A t \in answers' \ answers : \A b \in Actions :
          outcome'[b] = t.outcome => b.payload = t.request.payload]_vars

-----------------------------------------------------------------------------
(* UartSession implements RecentOnce.  An action is remembered from the     *)
(* moment it is executed: while it is, the read loop looks at nothing else. *)

Remembering == IF busy = None THEN cache ELSE Record(busy, effects)

\* What an entry, and an answer to the panel, say.
EntrySays(e) == [request |-> [number |-> e.key, content |-> e.digest], outcome |-> e.outcome]

AnswerSays(t) ==
    [request |-> [number |-> [boot |-> t.request.boot, seq |-> SeqOf(t.request.n)],
                  content |-> t.request.payload],
     outcome |-> t.outcome]

AllSay(c) == [i \in DOMAIN c |-> EntrySays(c[i])]

Recent == INSTANCE RecentOnce WITH
    Numbers <- [boot: Boots, seq: 1..SeqMax], Contents <- Payloads, Size <- CacheSize,
    memory <- AllSay(Remembering), answers <- {AnswerSays(t) : t \in answers}

\* session.py 3-4, "Dedup key is (t5_boot_id, sequence, command)": an action is executed
\* in the session of the boot that sent it, once while its result is cached, and every
\* answer that reports a result reports that of its own boot, number and payload.
ExecutesOnceWhileRecent == Recent!Spec
=============================================================================
