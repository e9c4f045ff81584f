---------------------------- MODULE MqttCommands ----------------------------
(***************************************************************************)
(* MqttCommandHandler: commands published by MQTT clients, which carry a    *)
(* request id, a send time and a time to live, and which QoS 1 and client   *)
(* retries may deliver any number of times, at any time, in any order.      *)
(*                                                                         *)
(* MqttClient hands them over one at a time, so a command is begun, takes   *)
(* effect in _dispatch (whose awaits the clock and the rest of the program  *)
(* do not wait for), and is answered, before the next one is looked at.     *)
(* The reply is cached under the request id, with a digest of the command.  *)
(* Commands that do not parse or that name a foreign reply topic are        *)
(* dropped without any effect and are left out.                             *)
(*                                                                         *)
(* The cache is in memory, and expiry compares the clocks of two machines:  *)
(* the program may end and start again at any time, and the clock of the    *)
(* OPI, which has none that goes on without power, may be set back.         *)
(***************************************************************************)
EXTENDS Naturals

CONSTANTS
    Ids,         \* request ids
    Bodies,      \* {schema, client_id, command, args} of a command
    Times,       \* instants a client may put into sent_at_ms
    Ttls,        \* times to live
    RetryWindow, \* _CACHE_RETRY_WINDOW_MS
    MaxTime,     \* bound: last instant of the clock
    MaxEffects,  \* bound: commands dispatched
    MaxInterruptions, \* bound: restarts and steps back of the clock
    None         \* Python's None

ASSUME TimesAssumption == Times \subseteq Nat /\ Ttls \subseteq Nat \ {0}
ASSUME WindowAssumption == RetryWindow \in Nat
ASSUME BoundsAssumption ==
    MaxTime \in Nat /\ MaxEffects \in Nat /\ MaxInterruptions \in Nat

\* The digest covers every field of the command but the request id, so two
\* commands have the same id and digest if and only if they are equal.
Commands == [id: Ids, body: Bodies, sentAt: Times, ttl: Ttls]

VARIABLES
    now,     \* time.time() of the OPI
    cache,   \* _cache: request id -> [command, outcome, expires], or None
    serving, \* the command being dispatched, or None
    effects, \* dispatches that took effect, which is what a reply's revision tells
             \* (counted on over restarts, to tell outcomes apart)
    reply,   \* the reply this step publishes, or None
    done,    \* history: command -> how often it took effect,
    failed,  \* history: and its dispatch raised an exception, since it was last forgotten
    outcome, \* history: command -> the outcome of its answered dispatch, or None
    answers, \* history: the [request, outcome] pairs that clients were told
    interruptions \* history: how often cache or clock were set back

vars == <<now, cache, serving, effects, reply, done, failed, outcome, answers,
          interruptions>>

-----------------------------------------------------------------------------
\* What is told of a dispatch is the revision its reply carries.
Outcomes == 0..MaxEffects

EntryOf == [command: Commands, outcome: Outcomes, expires: Nat]
ReplyOf == [command: Commands, code: {"expired", "state_conflict", "done"}]

ASSUME NoneAssumption ==
    None \notin Commands /\ None \notin Nat /\ None \notin EntryOf

Expired(m) == now > m.sentAt + m.ttl

\* A cached reply counts until its retry window is over.
Remembered(id) == cache[id] # None /\ now <= cache[id].expires

\* ... for the command it was given to.
Held(m) == Remembered(m.id) /\ cache[m.id].command = m

Init ==
    /\ now = 0
    /\ cache = [id \in Ids |-> None]
    /\ serving = None
    /\ effects = 0
    /\ reply = None
    /\ done = [m \in Commands |-> 0]
    /\ failed = [m \in Commands |-> 0]
    /\ outcome = [m \in Commands |-> None]
    /\ answers = {}
    /\ interruptions = 0

Clock ==
    /\ now < MaxTime
    /\ now' = now + 1
    /\ reply' = None
    /\ UNCHANGED <<cache, serving, effects, done, failed, outcome, answers,
                   interruptions>>

-----------------------------------------------------------------------------
(* handle(), up to the call of _dispatch.  Any command may be delivered at  *)
(* any time: for the first time, again, late, or from a client whose clock  *)
(* is wrong.  It waits in the client's queue while another one is served.   *)

Reply(m, code) == reply' = [command |-> m, code |-> code]

Tell(m, o) ==
    /\ Reply(m, "done")
    /\ answers' = answers \cup {[request |-> m, outcome |-> o]}

HandleExpired(m) ==
    /\ Expired(m)
    /\ Reply(m, "expired") /\ UNCHANGED answers

HandleConflict(m) ==
    /\ ~Expired(m)
    /\ Remembered(m.id) /\ cache[m.id].command # m
    /\ Reply(m, "state_conflict") /\ UNCHANGED answers

\* Mutant: the cached reply is returned for any command of the request id.
HandleAnyRepeated(m) ==
    /\ ~Expired(m)
    /\ Remembered(m.id)
    /\ Tell(m, cache[m.id].outcome)

HandleRepeated(m) ==
    /\ ~Expired(m)
    /\ Held(m)
    /\ Tell(m, cache[m.id].outcome)

\* The replies that nothing is dispatched for.
HandleAtOnce(m) ==
    /\ serving = None
    /\ HandleExpired(m) \/ HandleConflict(m) \/ HandleRepeated(m)
    /\ UNCHANGED <<now, cache, serving, effects, done, failed, outcome,
                   interruptions>>

\* _evict_cache
Evicted == [id \in Ids |-> IF Remembered(id) THEN cache[id] ELSE None]

\* What both _dispatch and its mutants do; the caller says when.
TakeEffect(m) ==
    /\ effects < MaxEffects
    /\ cache' = Evicted
    /\ serving' = m
    /\ effects' = effects + 1
    /\ reply' = None
    /\ done' = [done EXCEPT ![m] = @ + 1]
    /\ UNCHANGED <<now, failed, outcome, answers, interruptions>>

\* Mutant: only a cached reply of the very same command is looked at.
DispatchShared(m) ==
    /\ serving = None
    /\ ~Expired(m) /\ ~Held(m)
    /\ TakeEffect(m)

\* The command is new: _dispatch changes the state and then awaits the panel
\* and the MQTT publishers.
Dispatch(m) == serving = None /\ ~Expired(m) /\ ~Remembered(m.id) /\ TakeEffect(m)

-----------------------------------------------------------------------------
(* handle(), after the call of _dispatch.                                   *)

\* Mutant: the retry window is counted from the time the command was sent.
ExpiryWithoutTtl(m) == m.sentAt + RetryWindow

Expiry(m) == m.sentAt + m.ttl + RetryWindow

\* _dispatch returned: the reply carries what the state is by now.
Conclude(m) ==
    /\ serving = m
    /\ serving' = None
    /\ cache' = [cache EXCEPT ![m.id] =
                   [command |-> m, outcome |-> effects, expires |-> Expiry(m)]]
    /\ outcome' = [outcome EXCEPT ![m] = effects]
    /\ Tell(m, effects)
    /\ UNCHANGED <<now, effects, done, failed, interruptions>>

\* Mutant: the exception is cached as a reply that says nothing.
FailIsCached(m) ==
    /\ serving = m
    /\ serving' = None
    /\ failed' = [failed EXCEPT ![m] = @ + 1]
    /\ reply' = None
    /\ cache' = [cache EXCEPT ![m.id] =
                   [command |-> m, outcome |-> None, expires |-> Expiry(m)]]
    /\ UNCHANGED <<now, effects, done, outcome, answers, interruptions>>

\* _dispatch raised an exception after its effect: no reply, nothing cached.
Fail(m) ==
    /\ serving = m
    /\ serving' = None
    /\ failed' = [failed EXCEPT ![m] = @ + 1]
    /\ reply' = None
    /\ UNCHANGED <<now, cache, effects, done, outcome, answers, interruptions>>

Handle(m) == HandleAtOnce(m) \/ Dispatch(m) \/ Conclude(m) \/ Fail(m)

-----------------------------------------------------------------------------
(* Interruptions, for which the handler does nothing.                       *)

\* Answered, within its retry window now, and not in the cache.
Forgotten(m) == now <= Expiry(m) /\ ~Held(m)

\* History: a forgotten command has no outcome, and one that can be executed
\* again counts from zero.
Forget ==
    /\ outcome' = [m \in Commands |-> IF Forgotten(m)' THEN None ELSE outcome[m]]
    /\ LET fresh(m) == ~Expired(m)' /\ ~Held(m)' /\ serving' # m IN
         /\ done' = [m \in Commands |-> IF fresh(m) THEN 0 ELSE done[m]]
         /\ failed' = [m \in Commands |-> IF fresh(m) THEN 0 ELSE failed[m]]

Interrupt ==
    /\ interruptions < MaxInterruptions
    /\ interruptions' = interruptions + 1
    /\ reply' = None
    /\ UNCHANGED <<effects, answers>>

\* The program ends, perhaps in the middle of a dispatch, and starts again.
Restart ==
    /\ Interrupt
    /\ cache' = [id \in Ids |-> None]
    /\ serving' = None
    /\ UNCHANGED now
    /\ Forget

\* time.time() is set back.
SetBack(t) ==
    /\ Interrupt
    /\ t < now /\ now' = t
    /\ UNCHANGED <<cache, serving>>
    /\ Forget

Next ==
    \/ Clock \/ Restart
    \/ \E t \in 0..MaxTime : SetBack(t)
    \/ \E m \in Commands : Handle(m)

Spec == Init /\ [][Next]_vars

-----------------------------------------------------------------------------
(* Properties.                                                              *)

\* Every variable has its type.
TypeOK ==
    /\ now \in Nat
    /\ cache \in [Ids -> EntryOf \cup {None}]
    /\ serving \in Commands \cup {None}
    /\ effects \in Outcomes
    /\ reply \in ReplyOf \cup {None}
    /\ done \in [Commands -> Nat]
    /\ failed \in [Commands -> Nat]
    /\ outcome \in [Commands -> Outcomes \cup {None}]
    /\ answers \subseteq [request: Commands, outcome: Outcomes]
    /\ interruptions \in 0..MaxInterruptions

\* A command takes effect once, however often and late it is delivered and
\* however long its dispatch takes: the time-to-live check takes over before
\* the cache forgets.  What lets it happen again is a dispatch that raised, or
\* an interruption after which the command is neither expired nor cached: a
\* time to live that outlasts a restart, or a clock that is set back beyond it
\* after its reply was evicted.  Nothing else does, whatever is interrupted.
ExecutesOnce == \A m \in Commands : done[m] <= 1 + failed[m]

\* Two commands under one request id both take effect only if the earlier one
\* was forgotten by then, or raised: a client that reuses an id within the
\* retry window executes nothing, unless an interruption came between.
IdsAreNotShared ==
    [][\A m \in Commands : serving = None /\ serving' = m =>
          \A n \in Commands :
              n.id = m.id /\ outcome[n] # None => now > Expiry(n)]_vars

-----------------------------------------------------------------------------
(* Refinement: a command is a request of OnceOnly, whose execution is the   *)
(* conclusion of its dispatch.                                              *)

Once == INSTANCE OnceOnly WITH Requests <- Commands

\* Whatever is delivered again gets the one outcome it got before, as long as
\* no interruption came between.
AnswersOnce == Once!Spec
=============================================================================
