-------------------------- MODULE PanelLinkProofs --------------------------
(* Proofs about PanelLink, for any frames, panel boots, operations, bounds  *)
(* and activities.                                                          *)
EXTENDS PanelLink, SequenceTheorems, FiniteSetTheorems, TLAPS

-----------------------------------------------------------------------------
(* The inductive invariant: what the gateway and the orchestrator think of  *)
(* the panel, which only their common edges and heartbeats change.          *)

StateOf == [rev: Nat, offline: BOOLEAN, online: BOOLEAN]

IInv == state \in StateOf /\ gwOnline \in BOOLEAN /\ OnlineAgrees

\* What a step may do to the two: nothing, an edge, a heartbeat of an online
\* panel, or a change that T5 has to be told of.
Nothing == UNCHANGED <<gwOnline, state>>
EdgeTo(on) == gwOnline # on /\ gwOnline' = on /\ state' = AfterEdge(state, on)
Beat == gwOnline /\ gwOnline' = TRUE /\ state' = AfterHeartbeat(state)
Recovery ==
    ~gwOnline /\ gwOnline' = TRUE /\ state' = AfterHeartbeat(AfterEdge(state, TRUE))
Change == UNCHANGED gwOnline /\ state' = [state EXCEPT !.rev = @ + 1]

LinkStep == Nothing \/ EdgeTo(TRUE) \/ EdgeTo(FALSE) \/ Beat \/ Recovery \/ Change

-----------------------------------------------------------------------------
LEMMA EdgeIsLinkStep ==
    ASSUME gwOnline \in BOOLEAN, NEW on \in BOOLEAN, NEW j, Edge(on, j)
    PROVE  LinkStep
<1>1. CASE gwOnline = on
  BY <1>1 DEF Edge, LinkStep, Nothing
<1>2. CASE gwOnline # on
  <2>1. EdgeTo(on)
    BY <1>2 DEF Edge, EdgeTo
  <2>2. CASE on = TRUE
    BY <2>1, <2>2 DEF LinkStep
  <2>3. CASE on = FALSE
    BY <2>1, <2>3 DEF LinkStep
  <2> QED BY <2>2, <2>3
<1> QED BY <1>1, <1>2

LEMMA OperateIsLinkStep ==
    ASSUME state \in StateOf, NEW t, NEW op, Operate(t, op), UNCHANGED gwOnline
    PROVE  LinkStep
<1>1. CASE Changes(op)
  BY <1>1 DEF Operate, LinkStep, Change
<1>2. CASE ~Changes(op)
  <2>1. state' = [state EXCEPT !.rev = state.rev]
    BY <1>2 DEF Operate
  <2>2. state' = state
    BY <2>1 DEF StateOf
  <2> QED BY <2>2 DEF LinkStep, Nothing
<1> QED BY <1>1, <1>2

LEMMA RaiseIsLinkStep ==
    ASSUME gwOnline \in BOOLEAN, NEW t, Raise(t)
    PROVE  LinkStep
<1>1. CASE t = "heartbeat"
  <2>1. Edge(FALSE, [job EXCEPT ![t] = Idle])
    BY <1>1 DEF Raise, Abort
  <2> QED BY <2>1, EdgeIsLinkStep
<1>2. CASE t # "heartbeat"
  BY <1>2 DEF Raise, Abort, LinkStep, Nothing
<1> QED BY <1>1, <1>2

LEMMA NextIsLinkStep == IInv /\ [Next]_vars => LinkStep
<1> SUFFICES ASSUME IInv, [Next]_vars PROVE LinkStep
  OBVIOUS
<1>0. state \in StateOf /\ gwOnline \in BOOLEAN
  BY DEF IInv
<1>1. CASE UNCHANGED vars
  BY <1>1 DEF vars, LinkStep, Nothing
<1>2. ASSUME NEW t \in Tasks, TaskStep(t) PROVE LinkStep
  <2>1. CASE Acquire(t)
    BY <2>1 DEF Acquire, LinkStep, Nothing
  <2>2. CASE Send(t)
    BY <2>2 DEF Send, LinkStep, Nothing
  <2>3. CASE SendRefused(t)
    BY <2>3, <1>0, RaiseIsLinkStep DEF SendRefused
  <2>4. CASE Retry(t)
    BY <2>4 DEF Retry, LinkStep, Nothing
  <2>5. CASE GiveUp(t)
    BY <2>5, <1>0, RaiseIsLinkStep DEF GiveUp
  <2>6. CASE Finish(t)
    BY <2>6 DEF Finish, LinkStep, Nothing
  <2> QED BY <1>2, <2>1, <2>2, <2>3, <2>4, <2>5, <2>6 DEF TaskStep, Proceed
<1>3. CASE Reader
  <2>1. CASE OnResponse
    BY <2>1 DEF OnResponse, LinkStep, Nothing
  <2>2. CASE OnHello
    BY <2>2, <1>0, EdgeIsLinkStep DEF OnHello
  <2>3. CASE OnUiAction
    <3>1. CASE session = None
      BY <2>3, <3>1 DEF OnUiAction, LinkStep, Nothing
    <3>2. CASE session # None
      BY <2>3, <3>2, <1>0, OperateIsLinkStep DEF OnUiAction
    <3> QED BY <3>1, <3>2
  <2>4. CASE ReadError
    BY <2>4, <1>0, EdgeIsLinkStep DEF ReadError
  <2> QED BY <1>3, <2>1, <2>2, <2>3, <2>4 DEF Reader
<1>4. CASE HeartbeatLoop
  <2>1. CASE Heartbeat
    BY <2>1 DEF Heartbeat, LinkStep, Nothing
  <2>2. CASE HeartbeatOk
    <3>1. CASE gwOnline
      BY <2>2, <3>1 DEF HeartbeatOk, LinkStep, Beat
    <3>2. CASE ~gwOnline
      BY <2>2, <3>2 DEF HeartbeatOk, LinkStep, Recovery
    <3> QED BY <3>1, <3>2
  <2>3. CASE HeartbeatFailed
    BY <2>3 DEF HeartbeatFailed, LinkStep, Nothing
  <2> QED BY <1>4, <2>1, <2>2, <2>3 DEF HeartbeatLoop
<1>5. CASE Connect
  BY <1>5 DEF Connect, LinkStep, Nothing
<1>6. CASE Evaluate
  BY <1>6 DEF Evaluate, LinkStep, Change
<1>7. ASSUME NEW op \in MqttOps, MqttCommand(op) PROVE LinkStep
  BY <1>7, <1>0, OperateIsLinkStep DEF MqttCommand
<1>8. CASE Panel
  BY <1>8 DEF Panel, PanelHello, PanelBoot, PanelUi, PanelSends, LinkStep, Nothing
<1>9. CASE Wait
  BY <1>9 DEF Wait, vars, LinkStep, Nothing
<1> QED BY <1>1, <1>2, <1>3, <1>4, <1>5, <1>6, <1>7, <1>8, <1>9 DEF Next

-----------------------------------------------------------------------------
(* What a step of each kind does.                                           *)

LEMMA LinkStepIInv ==
    ASSUME IInv, LinkStep
    PROVE  /\ IInv'
           /\ state'.rev \in {state.rev, state.rev + 1}
           /\ state'.offline # state.offline => state'.rev = state.rev + 1
<1>0. /\ state.rev \in Nat /\ state.offline \in BOOLEAN /\ state.online \in BOOLEAN
      /\ state \in StateOf /\ gwOnline \in BOOLEAN
      /\ gwOnline = state.online /\ (state.offline => ~state.online)
  BY DEF IInv, StateOf, OnlineAgrees
<1>1. CASE Nothing
  BY <1>1 DEF Nothing, IInv, OnlineAgrees
<1>2. ASSUME NEW on \in BOOLEAN, EdgeTo(on)
      PROVE  /\ IInv'
             /\ state'.rev \in {state.rev, state.rev + 1}
             /\ state'.offline # state.offline => state'.rev = state.rev + 1
  <2>1. /\ gwOnline' = on
        /\ state' = [rev |-> IF state.offline = on THEN state.rev + 1 ELSE state.rev,
                     offline |-> ~on, online |-> on]
    BY <1>2 DEF EdgeTo, AfterEdge
  <2>2. state' \in StateOf
    BY <2>1, <1>0 DEF StateOf
  <2> QED BY <2>1, <2>2, <1>0 DEF IInv, OnlineAgrees
<1>3. CASE Beat
  <2>1. gwOnline' = TRUE /\ state' = [rev |-> state.rev, offline |-> FALSE, online |-> TRUE]
    BY <1>3 DEF Beat, AfterHeartbeat
  <2>2. state' \in StateOf /\ ~state.offline
    BY <2>1, <1>3, <1>0 DEF StateOf, Beat
  <2> QED BY <2>1, <2>2, <1>0 DEF IInv, OnlineAgrees
<1>4. CASE Recovery
  <2>1. /\ gwOnline' = TRUE
        /\ state' = [rev |-> IF state.offline THEN state.rev + 1 ELSE state.rev,
                     offline |-> FALSE, online |-> TRUE]
    BY <1>4, <1>0 DEF Recovery, AfterHeartbeat, AfterEdge
  <2>2. state' \in StateOf
    BY <2>1, <1>0 DEF StateOf
  <2> QED BY <2>1, <2>2, <1>0 DEF IInv, OnlineAgrees
<1>5. CASE Change
  <2>1. /\ gwOnline' = gwOnline /\ state' \in StateOf
        /\ state'.rev = state.rev + 1
        /\ state'.offline = state.offline /\ state'.online = state.online
    BY <1>5, <1>0 DEF Change, StateOf
  <2> QED BY <2>1, <1>0 DEF IInv, OnlineAgrees
<1> QED BY <1>1, <1>2, <1>3, <1>4, <1>5 DEF LinkStep

LEMMA InitIInv == Init => IInv
<1> SUFFICES ASSUME Init PROVE IInv
  OBVIOUS
<1>1. gwOnline = FALSE
  BY Zenon DEF Init
<1>2. state = [rev |-> 0, offline |-> FALSE, online |-> FALSE]
  BY Zenon DEF Init
<1>3. state \in StateOf
  BY <1>2 DEF StateOf
<1> QED BY <1>1, <1>2, <1>3 DEF IInv, OnlineAgrees

\* The invariant holds in every reachable state.
THEOREM Invariance == Spec => []IInv
<1>1. IInv /\ [Next]_vars => IInv'
  BY NextIsLinkStep, LinkStepIInv
<1> QED BY <1>1, InitIInv, PTL DEF Spec

\* UartGateway._panel_online and SystemState.panel_online never differ, and
\* PANEL_OFFLINE is not set while the panel is online, however heartbeats,
\* HELLOs, read errors and sends of any number of tasks interleave.
THEOREM OnlineAgreesAlways == Spec => []OnlineAgrees
<1>1. IInv => OnlineAgrees
  BY DEF IInv
<1> QED BY <1>1, Invariance, PTL

\* SystemState.revision moves by one at a time and whenever PANEL_OFFLINE
\* does: a heartbeat, which takes no revision, never changes the flag itself.
THEOREM RevisionCountsChangesAlways == Spec => RevisionCountsChanges
<1>1. IInv /\ [Next]_vars =>
        [/\ state'.rev \in {state.rev, state.rev + 1}
         /\ state'.offline # state.offline => state'.rev = state.rev + 1]_state
  BY NextIsLinkStep, LinkStepIInv
<1> QED BY <1>1, Invariance, PTL DEF Spec, RevisionCountsChanges

-----------------------------------------------------------------------------
(* What every task may be about.                                            *)

Marks == {"BEGIN", "END"}
Commands == Elems(SyncFrames) \cup {"HELLO", "HEARTBEAT"}
Total == Len(SyncFrames)

JobType == [phase: {"idle", "lock", "run"}, todo: Seq(Commands)]
FrameType == [seq: Seqs, cmd: Commands, owner: Tasks, rev: 0..MaxRev]
PendingType == [frame: FrameType, tries: 1..MaxTries]
Messages == [kind: {"ack"}, seq: Seqs] \cup [kind: {"hello"}, boot: Boots]
              \cup [kind: {"ui"}, op: UiOps]
OpenType == [owner: Tasks, got: SUBSET Elems(SyncFrames)]
PanelType == [boot: Boots \cup {None}, used: SUBSET Boots, core: [Elems(CoreFrames) -> Int],
              open: OpenType \cup {None}, commit: {"none", "whole", "partial"}]

Waiting(t) == pending[t] # None

\* What is left of a full sync.
IsRest(s) == /\ Len(s) <= Total
             /\ \A i \in 1..Len(s) : s[i] = SyncFrames[Total - Len(s) + i]

\* A coroutine that is not a full sync sends no BEGIN and no END; one that is
\* sends its frames in order, one at a time, under the lock.
TaskInv(t) ==
    /\ IsIdle(t) => job[t].todo = <<>>
    /\ job[t].phase = "lock" => t \in Syncers /\ job[t].todo = SyncFrames
    /\ Waiting(t) => /\ Running(t) /\ job[t].todo # <<>>
                     /\ pending[t].frame.cmd = Head(job[t].todo)
                     /\ pending[t].frame.owner = t
                     /\ pending[t].frame.rev <= state.rev
    /\ t \in Syncers => IsRest(job[t].todo) /\ (Running(t) => holder = t)
    /\ t \notin Syncers => Elems(job[t].todo) \cap Marks = {}
    /\ t \in {"handshake", "heartbeat"} => Elems(job[t].todo) \cap Elems(CoreFrames) = {}
    /\ t = "recover" => IsIdle(t)

Types ==
    /\ connected \in BOOLEAN /\ gaveUp \in BOOLEAN
    /\ session \in Boots \cup {None}
    /\ job \in [Tasks -> JobType]
    /\ pending \in [Tasks -> PendingType \cup {None}]
    /\ holder \in Tasks \cup {None}
    /\ toOpi \in Seq(Messages) /\ Len(toOpi) <= MaxWire
    /\ panel \in PanelType

\* Revisions that edges under way will take, and the publishers they leave.
Busy == {p \in Publishers : ~IsIdle(p)}

Spared ==
    /\ state.rev + (IF state.offline THEN 1 ELSE 0)
                 + (IF IsIdle("heartbeat") THEN 0 ELSE 2) <= MaxRev
    /\ Cardinality(Busy) <= state.rev

-----------------------------------------------------------------------------
(* Boots of the panel: the full sync of one is started once.                *)

HelloAt(i) == toOpi[i].kind = "hello"

Booted ==
    /\ session # None => session \in panel.used
    /\ panel.boot # None => panel.boot \in panel.used
    /\ \A b \in Boots : ~IsIdle(b) => b \in panel.used
    /\ panel.boot \in Boots /\ panel.boot # session => IsIdle(panel.boot)
    /\ \A i, j \in DOMAIN toOpi : HelloAt(i) /\ HelloAt(j) => i = j
    /\ \A i \in DOMAIN toOpi : HelloAt(i) =>
         /\ toOpi[i].boot \in panel.used
         /\ toOpi[i].boot # session => IsIdle(toOpi[i].boot)
         /\ toOpi[i].boot # panel.boot => session # panel.boot

-----------------------------------------------------------------------------
(* Answers: what is acknowledged was received.                              *)

AckAt(i, t) == toOpi[i].kind = "ack" /\ Waiting(t) /\ toOpi[i].seq = pending[t].frame.seq

\* Its frame is in the snapshot that is open, or none is.
Collected(t) ==
    panel.open # None => panel.open.owner = t /\ pending[t].frame.cmd \in panel.open.got

\* Its frame, if a core frame, is shown or a newer one is.
Shows(t) ==
    pending[t].frame.cmd \in Elems(CoreFrames) =>
        panel.core[pending[t].frame.cmd] >= pending[t].frame.rev

\* The answer at i is one of the panel that the gateway has, or will have, a
\* session with.
OfThisBoot(i) ==
    session = panel.boot \/ \E k \in DOMAIN toOpi : k < i /\ HelloAt(k) /\ toOpi[k].boot = panel.boot

Answers ==
    /\ \A t, u \in Tasks :
         Waiting(t) /\ Waiting(u) /\ pending[t].frame.seq = pending[u].frame.seq => t = u
    /\ \A i \in DOMAIN toOpi, t \in Tasks : AckAt(i, t) =>
         /\ t \in Syncers => Collected(t)
         /\ panel.boot # None /\ OfThisBoot(i) => Shows(t)

-----------------------------------------------------------------------------
(* The snapshot.                                                            *)

\* The frames of its sync that t has had acknowledged.
Done(t) == {SyncFrames[i] : i \in 1..(Total - Len(job[t].todo))}

\* While a sync is between its BEGIN and its END, the panel has the snapshot
\* of that sync open, with all that was acknowledged, or none.
Snapshot ==
    /\ \A t \in Syncers :
         Running(t) /\ job[t].todo # <<>> /\ Len(job[t].todo) < Total /\ panel.open # None
           => panel.open.owner = t /\ Done(t) \subseteq panel.open.got
    /\ panel.open # None => "END" \notin panel.open.got
    /\ SnapshotsAreWhole

-----------------------------------------------------------------------------
(* The core frames.                                                         *)

\* t has still to send frame c, with the revision of that moment, or has sent
\* it with the present one.
Owes(t, c) ==
    IF Waiting(t)
    THEN \/ c \in Elems(Tail(job[t].todo))
         \/ c = pending[t].frame.cmd /\ pending[t].frame.rev = state.rev
    ELSE c \in Elems(job[t].todo)

Core ==
    /\ \A c \in Elems(CoreFrames) : panel.core[c] <= state.rev
    /\ panel.boot # None /\ session = panel.boot /\ ~gaveUp =>
         \A c \in Elems(CoreFrames) : panel.core[c] = state.rev \/ \E t \in Tasks : Owes(t, c)

Inv == /\ IInv /\ Types /\ (\A t \in Tasks : TaskInv(t)) /\ Spared
       /\ Booted /\ Answers /\ Snapshot /\ Core

-----------------------------------------------------------------------------
(* Frames and sequences.                                                    *)

LEMMA ElemsAre ==
    ASSUME NEW S, NEW s \in Seq(S)
    PROVE  /\ Len(s) \in Nat /\ DOMAIN s = 1..Len(s) /\ Elems(s) \subseteq S
           /\ \A i \in 1..Len(s) : s[i] \in S /\ s[i] \in Elems(s)
           /\ \A x \in Elems(s) : \E i \in 1..Len(s) : s[i] = x
<1>1. Len(s) \in Nat /\ DOMAIN s = 1..Len(s) /\ \A i \in 1..Len(s) : s[i] \in S
  BY ElementOfSeq, LenProperties
<1> QED BY <1>1 DEF Elems

LEMMA ElemsOfTail ==
    ASSUME NEW S, NEW s \in Seq(S), s # <<>>
    PROVE  /\ Tail(s) \in Seq(S) /\ Len(Tail(s)) = Len(s) - 1 /\ Len(s) \in Nat \ {0}
           /\ Head(s) = s[1] /\ Head(s) \in S
           /\ \A i \in 1..(Len(s) - 1) : Tail(s)[i] = s[i + 1]
           /\ Elems(s) = {Head(s)} \cup Elems(Tail(s))
<1>1. /\ Tail(s) \in Seq(S) /\ Len(Tail(s)) = Len(s) - 1 /\ Head(s) \in S
      /\ \A i \in 1..Len(Tail(s)) : Tail(s)[i] = s[i + 1]
  BY HeadTailProperties
<1>2. Len(s) \in Nat \ {0} /\ Head(s) = s[1]
  BY EmptySeq
<1>3. Elems(s) \subseteq {Head(s)} \cup Elems(Tail(s))
  <2> SUFFICES ASSUME NEW x \in Elems(s), x # Head(s) PROVE x \in Elems(Tail(s))
    OBVIOUS
  <2>1. PICK i \in 1..Len(s) : s[i] = x
    BY ElemsAre
  <2>2. i - 1 \in 1..Len(Tail(s)) /\ (i - 1) + 1 = i
    BY <1>1, <1>2, <2>1
  <2>3. Tail(s)[i - 1] = x
    BY <1>1, <2>1, <2>2
  <2> QED BY <1>1, <2>2, <2>3, ElemsAre
<1>4. Elems(Tail(s)) \subseteq Elems(s)
  <2> SUFFICES ASSUME NEW x \in Elems(Tail(s)) PROVE x \in Elems(s)
    OBVIOUS
  <2>1. PICK i \in 1..Len(Tail(s)) : Tail(s)[i] = x
    BY <1>1, ElemsAre
  <2>2. i + 1 \in 1..Len(s) /\ s[i + 1] = x
    BY <1>1, <1>2, <2>1
  <2> QED BY <2>2, ElemsAre
<1>5. Head(s) \in Elems(s)
  BY <1>2, ElemsAre
<1> QED BY <1>1, <1>2, <1>3, <1>4, <1>5

LEMMA ElemsOfAppend ==
    ASSUME NEW S, NEW s \in Seq(S), NEW e \in S
    PROVE  /\ Append(s, e) \in Seq(S) /\ Len(Append(s, e)) = Len(s) + 1
           /\ DOMAIN Append(s, e) = 1..(Len(s) + 1) /\ DOMAIN s = 1..Len(s) /\ Len(s) \in Nat
           /\ \A i \in 1..Len(s) : Append(s, e)[i] = s[i]
           /\ Append(s, e)[Len(s) + 1] = e
<1>1. /\ Append(s, e) \in Seq(S) /\ Len(Append(s, e)) = Len(s) + 1
      /\ \A i \in 1..Len(s) : Append(s, e)[i] = s[i]
      /\ Append(s, e)[Len(s) + 1] = e
  BY AppendProperties
<1> QED BY <1>1, LenProperties

LEMMA ElemsOfConcat ==
    ASSUME NEW S, NEW s \in Seq(S), NEW t \in Seq(S)
    PROVE  /\ s \o t \in Seq(S) /\ Len(s \o t) = Len(s) + Len(t)
           /\ Elems(s \o t) = Elems(s) \cup Elems(t)
<1> DEFINE u == s \o t
<1>1. /\ u \in Seq(S) /\ Len(u) = Len(s) + Len(t)
      /\ \A i \in 1..(Len(s) + Len(t)) :
            u[i] = IF i <= Len(s) THEN s[i] ELSE t[i - Len(s)]
  BY ConcatProperties
<1> HIDE DEF u
<1>2. Len(s) \in Nat /\ Len(t) \in Nat
  BY LenProperties
<1>3. Elems(s) \subseteq Elems(u)
  <2> SUFFICES ASSUME NEW x \in Elems(s) PROVE x \in Elems(u)
    OBVIOUS
  <2>1. PICK i \in 1..Len(s) : s[i] = x
    BY ElemsAre
  <2>2. i \in 1..Len(u) /\ u[i] = x
    BY <1>1, <1>2, <2>1
  <2> QED BY <1>1, <2>2, ElemsAre
<1>4. Elems(t) \subseteq Elems(u)
  <2> SUFFICES ASSUME NEW x \in Elems(t) PROVE x \in Elems(u)
    OBVIOUS
  <2>1. PICK i \in 1..Len(t) : t[i] = x
    BY ElemsAre
  <2>2. /\ i + Len(s) \in 1..Len(u) /\ ~(i + Len(s) <= Len(s))
        /\ (i + Len(s)) - Len(s) = i
    BY <1>1, <1>2, <2>1
  <2>3. u[i + Len(s)] = x
    BY <1>1, <2>1, <2>2
  <2> QED BY <1>1, <2>2, <2>3, ElemsAre
<1>5. Elems(u) \subseteq Elems(s) \cup Elems(t)
  <2> SUFFICES ASSUME NEW x \in Elems(u), x \notin Elems(s) PROVE x \in Elems(t)
    OBVIOUS
  <2>1. PICK i \in 1..Len(u) : u[i] = x
    BY <1>1, ElemsAre
  <2>2. ~(i <= Len(s))
    <3> SUFFICES ASSUME i <= Len(s) PROVE FALSE
      OBVIOUS
    <3>1. i \in 1..Len(s) /\ s[i] = x
      BY <1>1, <1>2, <2>1
    <3> QED BY <3>1, ElemsAre
  <2>3. i - Len(s) \in 1..Len(t) /\ t[i - Len(s)] = x
    BY <1>1, <1>2, <2>1, <2>2
  <2> QED BY <2>3, ElemsAre
<1> QED BY <1>1, <1>3, <1>4, <1>5 DEF u

LEMMA ElemsOfSingle ==
    ASSUME NEW S, NEW e \in S
    PROVE  <<e>> \in Seq(S) /\ Len(<<e>>) = 1 /\ Elems(<<e>>) = {e} /\ <<e>> # <<>>
BY DEF Elems

\* A full sync: BEGIN, the core frames, the lists, END.
LEMMA SyncFramesAre ==
    /\ SyncFrames \in Seq(STRING \cup Marks) /\ Total \in Nat /\ Total >= 2 /\ DOMAIN SyncFrames = 1..Total
    /\ SyncFrames[1] = "BEGIN" /\ SyncFrames[Total] = "END"
    /\ \A i \in 2..(Total - 1) : SyncFrames[i] \notin Controls
    /\ Elems(SyncFrames) = Elems(CoreFrames) \cup Elems(ListFrames) \cup Marks
    /\ Elems(CoreFrames) \cap Controls = {} /\ Elems(ListFrames) \cap Controls = {}
<1> DEFINE Names == STRING \cup Marks
           B == <<"BEGIN">>
           E == <<"END">>
           C == CoreFrames
           L == ListFrames
           S1 == B \o C
           S2 == S1 \o L
<1>1. /\ B \in Seq(Names) /\ E \in Seq(Names) /\ Len(B) = 1 /\ Len(E) = 1
      /\ Elems(B) = {"BEGIN"} /\ Elems(E) = {"END"}
  <2>1. "BEGIN" \in Names /\ "END" \in Names
    BY DEF Marks
  <2>2. B \in Seq(Names) /\ Len(B) = 1 /\ Elems(B) = {"BEGIN"}
    BY <2>1, ElemsOfSingle
  <2>3. E \in Seq(Names) /\ Len(E) = 1 /\ Elems(E) = {"END"}
    BY <2>1, ElemsOfSingle
  <2> QED BY <2>2, <2>3
<1>2. C \in Seq(Names) /\ L \in Seq(Names)
  BY FramesAssumption, SeqMonotonic
<1>11. B[1] = "BEGIN" /\ E[1] = "END"
  OBVIOUS
<1>6. SyncFrames = S2 \o E
  BY DEF SyncFrames
<1> HIDE DEF Names, B, E, C, L
<1>3. Len(C) \in Nat /\ Len(L) \in Nat
  BY <1>2, ElemsAre
<1>4. /\ S1 \in Seq(Names) /\ Len(S1) = 1 + Len(C)
      /\ Elems(S1) = {"BEGIN"} \cup Elems(C)
  <2>1. B \in Seq(Names) /\ C \in Seq(Names)
    BY <1>1, <1>2
  <2>2. /\ S1 \in Seq(Names) /\ Len(S1) = Len(B) + Len(C)
        /\ Elems(S1) = Elems(B) \cup Elems(C)
    BY <2>1, ElemsOfConcat
  <2> QED BY <1>1, <2>2
<1>8. \A i \in 1..(1 + Len(C)) : S1[i] = IF i <= 1 THEN B[i] ELSE C[i - 1]
  <2>1. \A i \in 1..(Len(B) + Len(C)) : S1[i] = IF i <= Len(B) THEN B[i] ELSE C[i - Len(B)]
    BY <1>1, <1>2, ConcatProperties
  <2> QED BY <1>1, <2>1
<1> HIDE DEF S1
<1>5. /\ S2 \in Seq(Names) /\ Len(S2) = 1 + Len(C) + Len(L)
      /\ Elems(S2) = {"BEGIN"} \cup Elems(C) \cup Elems(L)
  BY <1>2, <1>4, ElemsOfConcat
<1>9. \A i \in 1..(1 + Len(C) + Len(L)) :
        S2[i] = IF i <= 1 + Len(C) THEN S1[i] ELSE L[i - (1 + Len(C))]
  BY <1>2, <1>4, ConcatProperties
<1> HIDE DEF S2
<1>7. /\ SyncFrames \in Seq(Names) /\ Total = Len(C) + Len(L) + 2
      /\ Elems(SyncFrames) = Elems(C) \cup Elems(L) \cup {"BEGIN", "END"}
  <2>1. S2 \in Seq(Names) /\ E \in Seq(Names)
    BY <1>1, <1>5
  <2>2. /\ S2 \o E \in Seq(Names) /\ Len(S2 \o E) = Len(S2) + Len(E)
        /\ Elems(S2 \o E) = Elems(S2) \cup Elems(E)
    BY <2>1, ElemsOfConcat
  <2>3. /\ SyncFrames \in Seq(Names) /\ Total = Len(S2) + Len(E)
        /\ Elems(SyncFrames) = Elems(S2) \cup Elems(E)
    BY <1>6, <2>2 DEF Total
  <2> QED BY <1>1, <1>3, <1>5, <2>3
<1>10. \A i \in 1..Total : SyncFrames[i] = IF i <= Total - 1 THEN S2[i] ELSE E[i - (Total - 1)]
  <2>1. \A i \in 1..(Len(S2) + Len(E)) :
          SyncFrames[i] = IF i <= Len(S2) THEN S2[i] ELSE E[i - Len(S2)]
    BY <1>1, <1>5, <1>6, ConcatProperties
  <2>2. Len(S2) = Total - 1 /\ Len(S2) + Len(E) = Total
    BY <1>1, <1>3, <1>5, <1>7
  <2> QED BY <2>1, <2>2
<1>12. Total \in Nat /\ Total >= 2 /\ DOMAIN SyncFrames = 1..Total
  BY <1>3, <1>7, ElemsAre DEF Total
<1>13. SyncFrames[1] = "BEGIN"
  BY <1>3, <1>7, <1>8, <1>9, <1>10, <1>11, <1>12
<1>14. SyncFrames[Total] = "END"
  BY <1>10, <1>11, <1>12
<1>15. ASSUME NEW i \in 2..(Total - 1) PROVE SyncFrames[i] \in Elems(C) \cup Elems(L)
  <2>1. SyncFrames[i] = S2[i] /\ i \in 1..(1 + Len(C) + Len(L))
    BY <1>3, <1>7, <1>10, <1>12
  <2>2. CASE i <= 1 + Len(C)
    <3>1. i - 1 \in 1..Len(C) /\ S2[i] = C[i - 1]
      BY <1>3, <1>8, <1>9, <2>1, <2>2
    <3> QED BY <1>2, <2>1, <3>1, ElemsAre
  <2>3. CASE ~(i <= 1 + Len(C))
    <3>1. i - (1 + Len(C)) \in 1..Len(L) /\ S2[i] = L[i - (1 + Len(C))]
      BY <1>3, <1>9, <2>1, <2>3
    <3> QED BY <1>2, <2>1, <3>1, ElemsAre
  <2> QED BY <2>2, <2>3
<1>16. Elems(C) \cap Controls = {} /\ Elems(L) \cap Controls = {}
  BY FramesAssumption DEF C, L
<1>17. /\ \A i \in 2..(Total - 1) : SyncFrames[i] \notin Controls
       /\ Elems(SyncFrames) = Elems(C) \cup Elems(L) \cup Marks
  BY <1>7, <1>15, <1>16 DEF Marks
<1> QED BY <1>7, <1>12, <1>13, <1>14, <1>16, <1>17 DEF Names, C, L

LEMMA CommandsAre ==
    /\ Marks \cup Elems(CoreFrames) \cup Elems(ListFrames) \cup {"HELLO", "HEARTBEAT"} = Commands
    /\ CoreFrames \in Seq(Commands) /\ SyncFrames \in Seq(Commands)
    /\ <<>> \in Seq(Commands) /\ <<"HELLO">> \in Seq(Commands) /\ <<"HEARTBEAT">> \in Seq(Commands)
<1>1. Marks \cup Elems(CoreFrames) \cup Elems(ListFrames) \cup {"HELLO", "HEARTBEAT"} = Commands
  BY SyncFramesAre DEF Commands
<1>2. \A S, s : s \in Seq(S) => \A T : Elems(s) \subseteq T => s \in Seq(T)
  <2> SUFFICES ASSUME NEW S, NEW s \in Seq(S), NEW T, Elems(s) \subseteq T PROVE s \in Seq(T)
    OBVIOUS
  <2>1. DOMAIN s = 1..Len(s) /\ Len(s) \in Nat /\ s \in [1..Len(s) -> S]
    BY LenProperties
  <2>2. \A i \in 1..Len(s) : s[i] \in T
    BY <2>1 DEF Elems
  <2>3. s \in [1..Len(s) -> T]
    BY <2>1, <2>2
  <2> QED BY <2>1, <2>3, SeqDef
<1>3. Elems(CoreFrames) \subseteq Commands /\ Elems(SyncFrames) \subseteq Commands
  BY SyncFramesAre DEF Commands
<1>4. CoreFrames \in Seq(Commands) /\ SyncFrames \in Seq(Commands)
  BY <1>2, <1>3, SyncFramesAre, FramesAssumption
<1> QED BY <1>1, <1>4 DEF Commands

\* What is left of a sync after its next frame.
LEMMA RestOfSync ==
    ASSUME NEW s \in Seq(Commands), IsRest(s), s # <<>>
    PROVE  /\ IsRest(Tail(s)) /\ Len(Tail(s)) = Len(s) - 1 /\ Len(s) \in 1..Total
           /\ Head(s) = SyncFrames[Total - Len(s) + 1] /\ Head(s) \in Elems(SyncFrames)
           /\ (Head(s) = "BEGIN") <=> (Len(s) = Total)
           /\ (Head(s) = "END") <=> (Len(s) = 1)
<1>1. /\ Tail(s) \in Seq(Commands) /\ Len(Tail(s)) = Len(s) - 1 /\ Len(s) \in Nat \ {0}
      /\ Head(s) = s[1] /\ \A i \in 1..(Len(s) - 1) : Tail(s)[i] = s[i + 1]
  BY ElemsOfTail
<1>2. /\ Len(s) <= Total /\ \A i \in 1..Len(s) : s[i] = SyncFrames[Total - Len(s) + i]
      /\ Total \in Nat
  BY SyncFramesAre DEF IsRest
<1>3. Head(s) = SyncFrames[Total - Len(s) + 1] /\ Total - Len(s) + 1 \in 1..Total
  BY <1>1, <1>2
<1>4. IsRest(Tail(s))
  <2>1. \A i \in 1..(Len(s) - 1) : Tail(s)[i] = SyncFrames[Total - Len(s) + (i + 1)]
    BY <1>1, <1>2
  <2>2. \A i \in 1..(Len(s) - 1) : Total - Len(s) + (i + 1) = Total - (Len(s) - 1) + i
    BY <1>1, <1>2
  <2>3. \A i \in 1..(Len(s) - 1) : Tail(s)[i] = SyncFrames[Total - (Len(s) - 1) + i]
    BY <2>1, <2>2
  <2> QED BY <1>1, <1>2, <2>3 DEF IsRest
<1>5. Head(s) \in Elems(SyncFrames)
  BY <1>3, SyncFramesAre DEF Elems
<1>6. Len(s) = Total => Head(s) = "BEGIN"
  <2> SUFFICES ASSUME Len(s) = Total PROVE Head(s) = "BEGIN"
    OBVIOUS
  <2>1. Total - Len(s) + 1 = 1
    BY <1>2
  <2> QED BY <1>3, <2>1, SyncFramesAre
<1>7. Len(s) = 1 => Head(s) = "END"
  <2> SUFFICES ASSUME Len(s) = 1 PROVE Head(s) = "END"
    OBVIOUS
  <2>1. Total - Len(s) + 1 = Total
    BY <1>2
  <2> QED BY <1>3, <2>1, SyncFramesAre
<1>8. Len(s) # Total /\ Len(s) # 1 => Head(s) \notin Controls
  <2> SUFFICES ASSUME Len(s) # Total, Len(s) # 1 PROVE Head(s) \notin Controls
    OBVIOUS
  <2> DEFINE n == Len(s)
  <2>1. n \in Nat /\ Total \in Nat /\ n <= Total /\ n # 0 /\ n # 1 /\ n # Total
    BY <1>1, <1>2
  <2>2. Total - n + 1 \in 2..(Total - 1)
    <3> HIDE DEF n
    <3> QED BY <2>1
  <2> QED BY <1>3, <2>2, SyncFramesAre
<1>9. (Head(s) = "BEGIN") <=> (Len(s) = Total)
  BY <1>6, <1>7, <1>8 DEF Controls
<1>10. (Head(s) = "END") <=> (Len(s) = 1)
  BY <1>6, <1>7, <1>8, SyncFramesAre DEF Controls
<1>11. Len(s) \in 1..Total
  BY <1>1, <1>2
<1> QED BY <1>1, <1>3, <1>4, <1>5, <1>9, <1>10, <1>11

LEMMA WholeSync == IsRest(SyncFrames) /\ IsRest(<<>>)
BY SyncFramesAre DEF IsRest, Total

-----------------------------------------------------------------------------
(* What a step may do to a task, apart from sending and being answered.     *)

Keeps(t) == job'[t] = job[t] /\ pending'[t] = pending[t]

Starts(t) ==
    /\ IsIdle(t) /\ pending'[t] = pending[t]
    /\ \/ t \in Syncers \ {"recover"} /\ job'[t] = AwaitSync
       \/ t \in Publishers \cup {"evaluate"} /\ job'[t] = RunCore
       \/ t = "handshake" /\ job'[t] = RunOne("HELLO")
       \/ t = "heartbeat" /\ job'[t] = RunOne("HEARTBEAT")

Locks(t) ==
    /\ job[t].phase = "lock" /\ job'[t] = [job[t] EXCEPT !.phase = "run"]
    /\ pending'[t] = pending[t] /\ holder' = t

\* What t leaves unsent, if anything, is a handshake or a heartbeat or is
\* known to have been given up.
Leaves(t) ==
    /\ pending'[t] = None
    /\ \/ job'[t] = Idle
       \/ Running(t) /\ job'[t] = [job[t] EXCEPT !.todo = <<>>]
    /\ gaveUp' \/ t \in {"heartbeat", "handshake"} \/ job[t].todo = <<>>

Local(t) == Keeps(t) \/ Starts(t) \/ Locks(t) \/ Leaves(t)

\* The lock stays with a full sync until that ends.
LockKept(t) == t \in Syncers /\ holder = t /\ Running(t)' => holder' = t

TaskTyped(t) == job[t] \in JobType /\ pending[t] \in PendingType \cup {None}

LEMMA NoSyncers == /\ "evaluate" \notin Syncers /\ "handshake" \notin Syncers /\ "heartbeat" \notin Syncers
                   /\ Publishers \cap Syncers = {} /\ Syncers \subseteq Tasks
                   /\ \A p \in Publishers : p \notin Coroutines
                   /\ \A b \in Boots : b \notin Coroutines /\ b \notin Publishers
BY NamesAssumption DEF Syncers, Tasks, Coroutines

LEMMA JobsAre ==
    /\ Idle \in JobType /\ AwaitSync \in JobType /\ RunCore \in JobType
    /\ RunOne("HELLO") \in JobType /\ RunOne("HEARTBEAT") \in JobType
    /\ Idle.phase = "idle" /\ Idle.todo = <<>>
    /\ AwaitSync.phase = "lock" /\ AwaitSync.todo = SyncFrames
    /\ RunCore.phase = "run" /\ RunCore.todo = CoreFrames
    /\ Elems(CoreFrames) \cap Marks = {} /\ Elems(CoreFrames) \subseteq Elems(SyncFrames)
    /\ \A cmd \in {"HELLO", "HEARTBEAT"} :
         /\ RunOne(cmd).phase = "run" /\ RunOne(cmd).todo = <<cmd>>
         /\ Elems(<<cmd>>) = {cmd} /\ cmd \notin Marks \cup Elems(CoreFrames)
    /\ Elems(<<>>) = {}
<1>1. /\ Idle \in JobType /\ AwaitSync \in JobType /\ RunCore \in JobType
      /\ RunOne("HELLO") \in JobType /\ RunOne("HEARTBEAT") \in JobType
  BY CommandsAre DEF JobType, Idle, AwaitSync, RunCore, RunOne
<1>2. /\ Idle.phase = "idle" /\ Idle.todo = <<>>
      /\ AwaitSync.phase = "lock" /\ AwaitSync.todo = SyncFrames
      /\ RunCore.phase = "run" /\ RunCore.todo = CoreFrames
  BY DEF Idle, AwaitSync, RunCore
<1>3. Elems(CoreFrames) \cap Marks = {} /\ Elems(CoreFrames) \subseteq Elems(SyncFrames)
  BY SyncFramesAre DEF Marks, Controls
<1>4. ASSUME NEW cmd \in {"HELLO", "HEARTBEAT"}
      PROVE  /\ RunOne(cmd).phase = "run" /\ RunOne(cmd).todo = <<cmd>>
             /\ Elems(<<cmd>>) = {cmd} /\ cmd \notin Marks \cup Elems(CoreFrames)
  <2>1. Elems(<<cmd>>) = {cmd}
    BY ElemsOfSingle
  <2>2. cmd \notin Marks \cup Elems(CoreFrames)
    BY SyncFramesAre DEF Marks, Controls
  <2> QED BY <2>1, <2>2 DEF RunOne
<1>5. Elems(<<>>) = {}
  BY DEF Elems
<1> QED BY <1>1, <1>2, <1>3, <1>4, <1>5

\* No such step breaks what a task may be about, and none leaves a core frame
\* unsent that was still owed unless that is known.
LEMMA LocalKeepsTask ==
    ASSUME NEW t \in Tasks, TaskTyped(t), TaskInv(t), Local(t), LockKept(t),
           state.rev \in Nat, state'.rev \in Nat, state.rev <= state'.rev
    PROVE  /\ TaskTyped(t)' /\ TaskInv(t)'
           /\ pending'[t] = pending[t] \/ pending'[t] = None
           /\ ~gaveUp' /\ state'.rev = state.rev =>
                \A c \in Elems(CoreFrames) : Owes(t, c) => Owes(t, c)'
           /\ t \in Syncers =>
                \/ ~Running(t)' \/ job'[t].todo = <<>> \/ Len(job'[t].todo) = Total
                \/ job'[t].todo = job[t].todo /\ Running(t)
<1>1. CASE Keeps(t)
  <2>1. job'[t] = job[t] /\ pending'[t] = pending[t]
    BY <1>1 DEF Keeps
  <2>2. TaskTyped(t)'
    BY <2>1 DEF TaskTyped
  <2>3. Waiting(t) => pending[t].frame.rev \in Nat
    BY BoundsAssumption DEF TaskTyped, Waiting, PendingType, FrameType
  <2>4. TaskInv(t)'
    BY <2>1, <2>3 DEF TaskInv, IsIdle, Running, Waiting, LockKept
  <2>5. state'.rev = state.rev => \A c \in Elems(CoreFrames) : Owes(t, c) => Owes(t, c)'
    BY <2>1 DEF Owes, Waiting
  <2> QED BY <2>1, <2>2, <2>4, <2>5 DEF Running
<1>2. CASE Starts(t)
  <2>1. IsIdle(t) /\ job[t].todo = <<>> /\ ~Waiting(t) /\ pending'[t] = None
    BY <1>2 DEF Starts, TaskInv, IsIdle, Running, Waiting
  <2>2. \A c : ~Owes(t, c)
    BY <2>1, JobsAre DEF Owes
  <2>3. CASE t \in Syncers \ {"recover"} /\ job'[t] = AwaitSync
    <3>1. TaskTyped(t)'
      BY <2>1, <2>3, JobsAre DEF TaskTyped
    <3>2. TaskInv(t)'
      BY <2>1, <2>3, JobsAre, WholeSync, NoSyncers DEF TaskInv, IsIdle, Running, Waiting
    <3> QED BY <2>1, <2>2, <2>3, <3>1, <3>2, JobsAre DEF Running
  <2>4. CASE t \in Publishers \cup {"evaluate"} /\ job'[t] = RunCore
    <3>1. TaskTyped(t)'
      BY <2>1, <2>4, JobsAre DEF TaskTyped
    <3>2. t \notin Syncers /\ t \notin {"handshake", "heartbeat", "recover"}
      BY <2>4, NoSyncers DEF Coroutines
    <3>3. TaskInv(t)'
      BY <2>1, <2>4, <3>2, JobsAre DEF TaskInv, IsIdle, Running, Waiting
    <3> QED BY <2>1, <2>2, <3>1, <3>2, <3>3
  <2>5. ASSUME NEW cmd \in {"HELLO", "HEARTBEAT"}, t \in {"handshake", "heartbeat"},
               job'[t] = RunOne(cmd)
        PROVE  /\ TaskTyped(t)' /\ TaskInv(t)' /\ pending'[t] = None
               /\ ~gaveUp' /\ state'.rev = state.rev =>
                    \A c \in Elems(CoreFrames) : Owes(t, c) => Owes(t, c)'
               /\ t \notin Syncers
    <3>1. TaskTyped(t)'
      BY <2>1, <2>5, JobsAre DEF TaskTyped
    <3>2. t \notin Syncers /\ t # "recover"
      BY <2>5, NoSyncers
    <3>3. TaskInv(t)'
      BY <2>1, <2>5, <3>2, JobsAre DEF TaskInv, IsIdle, Running, Waiting
    <3> QED BY <2>1, <2>2, <3>1, <3>2, <3>3
  <2> QED BY <1>2, <2>3, <2>4, <2>5 DEF Starts
<1>3. CASE Locks(t)
  <2>1. /\ t \in Syncers /\ job[t].phase = "lock" /\ job[t].todo = SyncFrames /\ ~Waiting(t)
        /\ pending'[t] = None /\ pending[t] = None /\ holder' = t /\ t # "recover"
    BY <1>3 DEF Locks, TaskInv, IsIdle, Running, Waiting
  <2>2. job'[t] \in JobType /\ job'[t].phase = "run" /\ job'[t].todo = SyncFrames
    BY <1>3, <2>1 DEF Locks, JobType, TaskTyped
  <2>3. TaskTyped(t)'
    BY <2>1, <2>2 DEF TaskTyped
  <2>4. t \notin {"handshake", "heartbeat"}
    BY <2>1, NoSyncers
  <2>5. TaskInv(t)'
    BY <2>1, <2>2, <2>4, WholeSync DEF TaskInv, IsIdle, Running, Waiting
  <2>6. \A c : Owes(t, c) => Owes(t, c)'
    BY <2>1, <2>2 DEF Owes, Waiting
  <2> QED BY <2>1, <2>2, <2>3, <2>5, <2>6 DEF Total
<1>4. CASE Leaves(t)
  <2>1. pending'[t] = None /\ ~Waiting(t)'
    BY <1>4 DEF Leaves, Waiting
  <2>2. /\ job'[t] \in JobType /\ job'[t].todo = <<>>
        /\ job'[t].phase = "idle" \/ (job'[t].phase = "run" /\ Running(t))
    <3>1. CASE job'[t] = Idle
      <4>1. Idle \in JobType /\ Idle.phase = "idle" /\ Idle.todo = <<>>
        BY JobsAre
      <4> QED BY <3>1, <4>1
    <3>2. CASE Running(t) /\ job'[t] = [job[t] EXCEPT !.todo = <<>>]
      <4>1. job[t] \in JobType /\ job[t].phase = "run" /\ <<>> \in Seq(Commands)
        BY <3>2, CommandsAre DEF TaskTyped, Running
      <4>2. job'[t] \in JobType /\ job'[t].todo = <<>> /\ job'[t].phase = job[t].phase
        BY <3>2, <4>1 DEF JobType
      <4> QED BY <3>2, <4>1, <4>2
    <3> QED BY <1>4, <3>1, <3>2 DEF Leaves
  <2>3. TaskTyped(t)'
    BY <2>1, <2>2 DEF TaskTyped
  <2>4. Elems(job'[t].todo) = {}
    BY <2>2, JobsAre
  <2>5. TaskInv(t)'
    BY <2>1, <2>2, <2>4, WholeSync DEF TaskInv, IsIdle, Running, Waiting, LockKept
  <2>6. ~gaveUp' => \A c \in Elems(CoreFrames) : ~Owes(t, c)
    <3> SUFFICES ASSUME ~gaveUp', NEW c \in Elems(CoreFrames) PROVE ~Owes(t, c)
      OBVIOUS
    <3>1. CASE job[t].todo = <<>>
      BY <3>1, JobsAre DEF TaskInv, Owes
    <3>2. CASE t \in {"heartbeat", "handshake"} /\ job[t].todo # <<>>
      <4>1. Elems(job[t].todo) \cap Elems(CoreFrames) = {}
        BY <3>2 DEF TaskInv
      <4>2. Elems(job[t].todo) = {Head(job[t].todo)} \cup Elems(Tail(job[t].todo))
        BY <3>2, ElemsOfTail DEF TaskTyped, JobType
      <4> QED BY <4>1, <4>2 DEF Owes, TaskInv
    <3> QED BY <1>4, <3>1, <3>2 DEF Leaves
  <2> QED BY <2>1, <2>2, <2>3, <2>5, <2>6
<1> QED BY <1>1, <1>2, <1>3, <1>4 DEF Local

-----------------------------------------------------------------------------
(* There are numbers and publishers enough.                                 *)

LEMMA TasksAreFinite == IsFiniteSet(Tasks) /\ Cardinality(Tasks) \in Nat
<1>1. IsFiniteSet({"start", "handshake", "evaluate"})
  <2>1. IsFiniteSet({} \cup {"start"})
    BY FS_EmptySet, FS_AddElement
  <2>2. IsFiniteSet(({} \cup {"start"}) \cup {"handshake"})
    BY <2>1, FS_AddElement
  <2>3. IsFiniteSet((({} \cup {"start"}) \cup {"handshake"}) \cup {"evaluate"})
    BY <2>2, FS_AddElement
  <2>4. (({} \cup {"start"}) \cup {"handshake"}) \cup {"evaluate"} = {"start", "handshake", "evaluate"}
    OBVIOUS
  <2> QED BY <2>3, <2>4
<1>2. IsFiniteSet({"mqtt", "reader", "heartbeat", "recover"})
  <2>1. IsFiniteSet({} \cup {"mqtt"})
    BY FS_EmptySet, FS_AddElement
  <2>2. IsFiniteSet(({} \cup {"mqtt"}) \cup {"reader"})
    BY <2>1, FS_AddElement
  <2>3. IsFiniteSet((({} \cup {"mqtt"}) \cup {"reader"}) \cup {"heartbeat"})
    BY <2>2, FS_AddElement
  <2>4. IsFiniteSet(((({} \cup {"mqtt"}) \cup {"reader"}) \cup {"heartbeat"}) \cup {"recover"})
    BY <2>3, FS_AddElement
  <2>5. ((({} \cup {"mqtt"}) \cup {"reader"}) \cup {"heartbeat"}) \cup {"recover"}
          = {"mqtt", "reader", "heartbeat", "recover"}
    OBVIOUS
  <2> QED BY <2>4, <2>5
<1>3. IsFiniteSet({"start", "handshake", "evaluate"} \cup {"mqtt", "reader", "heartbeat", "recover"})
  BY <1>1, <1>2, FS_Union
<1>4. Coroutines = {"start", "handshake", "evaluate"} \cup {"mqtt", "reader", "heartbeat", "recover"}
  BY DEF Coroutines
<1>5. IsFiniteSet(Coroutines \cup Publishers)
  BY <1>3, <1>4, NamesAssumption, FS_Union
<1>6. IsFiniteSet(Tasks)
  BY <1>5, NamesAssumption, FS_Union DEF Tasks
<1> QED BY <1>6, FS_CardinalityType

\* _next_sequence always finds a number that nobody waits for or is about to
\* be told of.
LEMMA NextSequenceIsFree ==
    ASSUME pending \in [Tasks -> PendingType \cup {None}],
           toOpi \in Seq(Messages), Len(toOpi) <= MaxWire,
           NEW t \in Tasks, ~Waiting(t)
    PROVE  NextSequence \in Seqs \ InUse
<1> DEFINE A == {u \in Tasks : pending[u] # None}
           FA == [u \in A |-> pending[u].frame.seq]
           TA == {pending[u].frame.seq : u \in A}
           B == {i \in 1..Len(toOpi) : toOpi[i].kind = "ack"}
           FB == [i \in B |-> toOpi[i].seq]
           TB == {toOpi[i].seq : i \in B}
<1>1. IsFiniteSet(TA) /\ Cardinality(TA) <= Cardinality(A)
  <2>1. FA \in Surjection(A, TA)
    BY DEF Surjection
  <2>2. IsFiniteSet(A)
    BY TasksAreFinite, FS_Subset
  <2> HIDE DEF A, FA, TA
  <2> QED BY <2>1, <2>2, FS_Surjection
<1>2. IsFiniteSet(A) /\ Cardinality(A) <= Cardinality(Tasks) - 1 /\ Cardinality(A) \in Nat
  <2>1. IsFiniteSet(Tasks \ {t}) /\ Cardinality(Tasks \ {t}) = Cardinality(Tasks) - 1
    BY TasksAreFinite, FS_RemoveElement
  <2>2. A \in SUBSET (Tasks \ {t})
    BY DEF Waiting
  <2> HIDE DEF A
  <2>3. IsFiniteSet(A) /\ Cardinality(A) <= Cardinality(Tasks \ {t})
    BY <2>1, <2>2, FS_Subset
  <2> QED BY <2>1, <2>3, FS_CardinalityType
<1>3. Len(toOpi) \in Nat /\ DOMAIN toOpi = 1..Len(toOpi)
  BY LenProperties
<1>4. IsFiniteSet(B) /\ Cardinality(B) <= MaxWire /\ Cardinality(B) \in Nat
  <2>1. IsFiniteSet(1..Len(toOpi)) /\ Cardinality(1..Len(toOpi)) = Len(toOpi)
    BY <1>3, FS_Interval
  <2>2. B \in SUBSET (1..Len(toOpi))
    OBVIOUS
  <2> HIDE DEF B
  <2>3. IsFiniteSet(B) /\ Cardinality(B) <= Len(toOpi) /\ Cardinality(B) \in Nat
    BY <2>1, <2>2, FS_Subset, FS_CardinalityType
  <2> QED BY <2>3, <1>3, BoundsAssumption
<1>5. IsFiniteSet(TB) /\ Cardinality(TB) <= Cardinality(B)
  <2>1. FB \in Surjection(B, TB)
    BY DEF Surjection
  <2> HIDE DEF B, FB, TB
  <2> QED BY <2>1, <1>4, FS_Surjection
<1>6. InUse = TA \cup TB
  <2>1. {f.seq : f \in {g \in Elems(toOpi) : g.kind = "ack"}} \subseteq TB
    BY <1>3 DEF Elems
  <2>2. TB \subseteq {f.seq : f \in {g \in Elems(toOpi) : g.kind = "ack"}}
    BY <1>3 DEF Elems
  <2> QED BY <2>1, <2>2 DEF InUse
<1> HIDE DEF A, FA, TA, B, FB, TB
<1>7. /\ IsFiniteSet(InUse) /\ Cardinality(InUse) \in Nat
      /\ Cardinality(InUse) <= Cardinality(TA) + Cardinality(TB)
      /\ Cardinality(TA) \in Nat /\ Cardinality(TB) \in Nat
  <2>1. /\ IsFiniteSet(TA \cup TB)
        /\ Cardinality(TA \cup TB) = Cardinality(TA) + Cardinality(TB) - Cardinality(TA \cap TB)
    BY <1>1, <1>5, FS_Union
  <2>2. IsFiniteSet(TA \cap TB)
    BY <1>1, FS_Subset
  <2>3. /\ Cardinality(TA \cap TB) \in Nat /\ Cardinality(TA) \in Nat /\ Cardinality(TB) \in Nat
        /\ Cardinality(TA \cup TB) \in Nat
    BY <1>1, <1>5, <2>1, <2>2, FS_CardinalityType
  <2> QED BY <1>6, <2>1, <2>3
<1>8. Cardinality(InUse) < Cardinality(Seqs)
  <2>1. Cardinality(Seqs) \in Nat /\ Cardinality(Seqs) >= MaxWire + Cardinality(Tasks)
    BY SeqsAssumption, FS_CardinalityType
  <2> QED BY <1>1, <1>2, <1>4, <1>5, <1>7, <2>1, TasksAreFinite, BoundsAssumption
<1>9. ~(Seqs \subseteq InUse)
  <2> SUFFICES ASSUME Seqs \subseteq InUse PROVE FALSE
    OBVIOUS
  <2>1. Cardinality(Seqs) <= Cardinality(InUse) /\ Cardinality(Seqs) \in Nat
    BY <1>7, SeqsAssumption, FS_Subset, FS_CardinalityType
  <2> QED BY <1>7, <1>8, <2>1
<1>10. \E n \in Seqs \ InUse : TRUE
  BY <1>9
<1> QED BY <1>10 DEF NextSequence

\* An edge that takes a revision finds a task to publish it.
LEMMA IdlePublisher ==
    ASSUME Cardinality(Busy) <= state.rev, state.rev \in Nat, state.rev + 1 <= MaxRev
    PROVE  (CHOOSE p \in Publishers : IsIdle(p)) \in {p \in Publishers : IsIdle(p)}
<1>1. Busy \subseteq Publishers /\ IsFiniteSet(Publishers)
  BY NamesAssumption DEF Busy
<1>2. /\ IsFiniteSet(Busy) /\ Cardinality(Busy) \in Nat /\ Cardinality(Publishers) \in Nat
  BY <1>1, FS_Subset, FS_CardinalityType
<1>3. Busy # Publishers
  BY <1>2, PublishersAssumption, BoundsAssumption
<1>4. PICK p \in Publishers : IsIdle(p)
  BY <1>1, <1>3 DEF Busy
<1> QED BY <1>4

-----------------------------------------------------------------------------
(* The steps that transmit nothing and answer nobody.                       *)

Room == state.rev + (IF state.offline THEN 1 ELSE 0)
                  + (IF IsIdle("heartbeat") THEN 0 ELSE 2) <= MaxRev

\* Somebody is about to send every core frame.
Refreshes ==
    \E t \in Tasks : job'[t].todo \in {SyncFrames, CoreFrames} /\ pending'[t] = None

\* The read loop takes the HELLO of boot b.
Called(b) ==
    /\ toOpi # <<>> /\ Head(toOpi).kind = "hello" /\ Head(toOpi).boot = b
    /\ toOpi' = Tail(toOpi) /\ session' = b

LocalStep ==
    /\ job' = [t \in Tasks |-> job'[t]] /\ pending' = [t \in Tasks |-> pending'[t]]
    /\ \A t \in Tasks : Local(t) /\ LockKept(t)
    /\ connected' \in BOOLEAN /\ gaveUp' \in BOOLEAN /\ holder' \in Tasks \cup {None}
    /\ Refreshes \/ (state'.rev = state.rev /\ (~gaveUp' => ~gaveUp))
    /\ \E q : \A p \in Publishers : Starts(p) => p = q /\ state'.rev = state.rev + 1
    /\ \A b \in Boots : Starts(b) => Called(b)
    /\ Room'

LEMMA IdleTask ==
    ASSUME Types, NEW t \in Tasks, TaskInv(t), IsIdle(t)
    PROVE  ~Waiting(t) /\ pending[t] = None /\ job[t].todo = <<>>
BY DEF TaskInv, Waiting, Running, IsIdle

\* One task moves.
LEMMA OneMoves ==
    ASSUME Types, NEW t \in Tasks, NEW v, job' = [job EXCEPT ![t] = v],
           pending' = pending \/ pending' = [pending EXCEPT ![t] = None]
    PROVE  /\ job' = [u \in Tasks |-> job'[u]] /\ pending' = [u \in Tasks |-> pending'[u]]
           /\ job'[t] = v /\ pending'[t] \in {pending[t], None}
           /\ pending' = [pending EXCEPT ![t] = None] => pending'[t] = None
           /\ \A u \in Tasks \ {t} : Keeps(u)
<1>1. job \in [Tasks -> JobType] /\ pending \in [Tasks -> PendingType \cup {None}]
  BY DEF Types
<1>2. job' = [u \in Tasks |-> job'[u]] /\ job'[t] = v /\ \A u \in Tasks \ {t} : job'[u] = job[u]
  BY <1>1
<1>3. /\ pending' = [u \in Tasks |-> pending'[u]] /\ pending'[t] \in {pending[t], None}
      /\ pending' = [pending EXCEPT ![t] = None] => pending'[t] = None
      /\ \A u \in Tasks \ {t} : pending'[u] = pending[u]
  BY <1>1
<1> QED BY <1>2, <1>3 DEF Keeps

\* One task moves, and a publisher starts.
LEMMA TwoMove ==
    ASSUME Types, NEW t \in Tasks, NEW v, NEW p \in Publishers, t # p,
           job' = [[job EXCEPT ![t] = v] EXCEPT ![p] = RunCore],
           pending' = pending \/ pending' = [pending EXCEPT ![t] = None]
    PROVE  /\ job' = [u \in Tasks |-> job'[u]] /\ pending' = [u \in Tasks |-> pending'[u]]
           /\ job'[t] = v /\ pending'[t] \in {pending[t], None}
           /\ pending' = [pending EXCEPT ![t] = None] => pending'[t] = None
           /\ job'[p] = RunCore /\ pending'[p] = pending[p]
           /\ \A u \in Tasks \ {t, p} : Keeps(u)
<1>1. /\ job \in [Tasks -> JobType] /\ pending \in [Tasks -> PendingType \cup {None}]
      /\ p \in Tasks
  BY DEF Types, Tasks
<1>2. /\ job' = [u \in Tasks |-> job'[u]] /\ job'[t] = v /\ job'[p] = RunCore
      /\ \A u \in Tasks \ {t, p} : job'[u] = job[u]
  BY <1>1
<1>3. /\ pending' = [u \in Tasks |-> pending'[u]] /\ pending'[t] \in {pending[t], None}
      /\ pending' = [pending EXCEPT ![t] = None] => pending'[t] = None
      /\ pending'[p] = pending[p]
      /\ \A u \in Tasks \ {t} : pending'[u] = pending[u]
  BY <1>1
<1> QED BY <1>2, <1>3 DEF Keeps

\* An edge either takes a revision, which a publisher publishes, or none.
LEMMA EdgeShape ==
    ASSUME IInv, Spared, NEW on \in BOOLEAN, NEW j, Edge(on, j),
           gwOnline # on /\ state.offline = on => state.rev + 1 <= MaxRev
    PROVE  \/ /\ job' = j /\ state'.rev = state.rev
              /\ state' = state \/ (state.offline # on /\ state'.offline = ~on)
           \/ /\ gwOnline # on /\ state.offline = on
              /\ state'.rev = state.rev + 1 /\ state'.offline = ~on
              /\ \E p \in Publishers : IsIdle(p) /\ job' = [j EXCEPT ![p] = RunCore]
<1>0. state.rev \in Nat /\ state.offline \in BOOLEAN
  BY DEF IInv, StateOf
<1>1. CASE gwOnline = on
  BY <1>1 DEF Edge
<1>2. CASE gwOnline # on
  <2>1. /\ state' = AfterEdge(state, on) /\ job' = WithPublish(j, on)
    BY <1>2 DEF Edge
  <2>2. state'.rev = (IF state.offline = on THEN state.rev + 1 ELSE state.rev)
        /\ state'.offline = ~on
    BY <2>1 DEF AfterEdge
  <2>3. CASE state.offline = on
    <3>1. (CHOOSE p \in Publishers : IsIdle(p)) \in {p \in Publishers : IsIdle(p)}
      BY <1>0, <1>2, <2>3, IdlePublisher DEF Spared
    <3>2. job' = [j EXCEPT ![CHOOSE p \in Publishers : IsIdle(p)] = RunCore]
      BY <2>1, <2>3 DEF WithPublish
    <3> QED BY <1>2, <2>2, <2>3, <3>1, <3>2
  <2>4. CASE state.offline # on
    BY <2>1, <2>2, <2>4 DEF WithPublish
  <2> QED BY <2>3, <2>4
<1> QED BY <1>1, <1>2

LEMMA KeepsOrStarts ==
    ASSUME NEW t \in Tasks, Keeps(t)
    PROVE  ~Starts(t) /\ Local(t)
<1>1. /\ AwaitSync.phase # "idle" /\ RunCore.phase # "idle"
      /\ RunOne("HELLO").phase # "idle" /\ RunOne("HEARTBEAT").phase # "idle"
  BY JobsAre
<1> QED BY <1>1 DEF Keeps, Starts, IsIdle, Local

\* A step of one task is local if what that task does is.
LEMMA OneLocal ==
    ASSUME NEW t \in Tasks, Local(t),
           job' = [u \in Tasks |-> job'[u]], pending' = [u \in Tasks |-> pending'[u]],
           \A u \in Tasks \ {t} : Keeps(u),
           \A u \in Tasks : LockKept(u),
           connected' \in BOOLEAN, gaveUp' \in BOOLEAN, holder' \in Tasks \cup {None},
           Refreshes \/ (state'.rev = state.rev /\ (~gaveUp' => ~gaveUp)),
           t \in Publishers /\ Starts(t) => state'.rev = state.rev + 1,
           t \in Boots /\ Starts(t) => Called(t),
           Room'
    PROVE  LocalStep
<1>1. \A u \in Tasks : Local(u) /\ LockKept(u)
  BY KeepsOrStarts
<1>2. /\ \A p \in Publishers : Starts(p) => p = t /\ state'.rev = state.rev + 1
      /\ \A b \in Boots : Starts(b) => Called(b)
  BY KeepsOrStarts DEF Tasks
<1> QED BY <1>1, <1>2 DEF LocalStep

LEMMA AcquireLocal ==
    ASSUME Inv, NEW t \in Tasks, Acquire(t)
    PROVE  LocalStep
<1>1. /\ Types /\ TaskInv(t) /\ Room /\ job[t].phase = "lock" /\ holder = None
      /\ t # None /\ \A u \in Tasks : u # None
  BY NamesAssumption DEF Inv, Spared, Room, Acquire
<1>2. job' = [job EXCEPT ![t] = [job[t] EXCEPT !.phase = "run"]] /\ pending' = pending
  BY DEF Acquire
<1>3. /\ job' = [u \in Tasks |-> job'[u]] /\ pending' = [u \in Tasks |-> pending'[u]]
      /\ job'[t] = [job[t] EXCEPT !.phase = "run"]
      /\ \A u \in Tasks \ {t} : Keeps(u)
  BY <1>1, <1>2, OneMoves
<1>4. Local(t)
  BY <1>1, <1>2, <1>3 DEF Local, Locks, Acquire
<1>5. t \in Syncers /\ job[t].todo = SyncFrames /\ pending[t] = None /\ job[t] \in JobType
  BY <1>1 DEF TaskInv, Types, Waiting, Running
<1>6. Refreshes
  BY <1>2, <1>3, <1>5 DEF Refreshes, JobType
<1>7. Room'
  BY <1>1, <1>3, <1>5, NoSyncers DEF Room, Acquire, IsIdle, Keeps, Tasks, Coroutines
<1>8. \A u \in Tasks : LockKept(u)
  BY <1>1 DEF LockKept
<1>9. ~Starts(t)
  BY <1>1 DEF Starts, IsIdle
<1> QED BY <1>1, <1>3, <1>4, <1>6, <1>7, <1>8, <1>9, OneLocal DEF Acquire, Types

LEMMA FinishLocal ==
    ASSUME Inv, NEW t \in Tasks, Finish(t)
    PROVE  LocalStep
<1>1. /\ Types /\ TaskInv(t) /\ Room /\ Running(t) /\ job[t].todo = <<>>
      /\ pending[t] = None /\ t # "heartbeat" /\ UNCHANGED <<connected, state, gaveUp>>
  BY DEF Inv, Spared, Room, Finish
<1>2. job' = [job EXCEPT ![t] = Idle] /\ pending' = pending
  BY DEF Finish
<1>3. /\ job' = [u \in Tasks |-> job'[u]] /\ pending' = [u \in Tasks |-> pending'[u]]
      /\ job'[t] = Idle /\ \A u \in Tasks \ {t} : Keeps(u)
  BY <1>1, <1>2, OneMoves
<1>4. Local(t) /\ ~Starts(t)
  BY <1>1, <1>2, <1>3 DEF Local, Leaves, Starts, IsIdle, Running
<1>5. Room'
  BY <1>1, <1>3 DEF Room, IsIdle, Keeps, Tasks, Coroutines
<1>6. ~Running(t)'
  BY <1>3, JobsAre DEF Running
<1>7. \A u \in Tasks : LockKept(u)
  BY <1>3, <1>6 DEF LockKept, Finish, Keeps
<1>8. holder' \in Tasks \cup {None}
  BY <1>1 DEF Finish, Types
<1> QED BY <1>1, <1>3, <1>4, <1>5, <1>7, <1>8, OneLocal DEF Types

\* What the steps below leave alone.
LEMMA LockIsKept ==
    ASSUME holder' = holder
    PROVE  \A u \in Tasks : LockKept(u)
BY DEF LockKept

LEMMA RaiseLocal ==
    ASSUME Inv, NEW t \in Tasks, Running(t), Raise(t)
    PROVE  LocalStep
<1>1. /\ IInv /\ Types /\ TaskInv(t) /\ Room /\ Spared /\ state.rev \in Nat
  BY DEF Inv, Spared, Room, IInv, StateOf
<1>2. /\ pending' = [pending EXCEPT ![t] = None]
      /\ gaveUp' = (gaveUp \/ t \notin {"heartbeat", "handshake"})
      /\ UNCHANGED <<connected, session, holder>>
  BY DEF Raise, Abort
<1>3. /\ \A u \in Tasks : LockKept(u)
      /\ connected' \in BOOLEAN /\ gaveUp' \in BOOLEAN /\ holder' \in Tasks \cup {None}
  BY <1>1, <1>2, LockIsKept DEF Types
<1>4. CASE t # "heartbeat"
  <2>1. UNCHANGED <<gwOnline, state>> /\ job' = [job EXCEPT ![t] = [job[t] EXCEPT !.todo = <<>>]]
    BY <1>4 DEF Raise, Abort
  <2>2. /\ job' = [u \in Tasks |-> job'[u]] /\ pending' = [u \in Tasks |-> pending'[u]]
        /\ job'[t] = [job[t] EXCEPT !.todo = <<>>] /\ pending'[t] = None
        /\ \A u \in Tasks \ {t} : Keeps(u)
    BY <1>1, <1>2, <2>1, OneMoves
  <2>3. Local(t) /\ ~Starts(t)
    BY <1>2, <1>4, <2>2 DEF Local, Leaves, Starts, IsIdle, Running
  <2>4. Room'
    BY <1>1, <1>4, <2>1, <2>2 DEF Room, IsIdle, Keeps, Tasks, Coroutines
  <2> QED BY <1>2, <1>3, <2>1, <2>2, <2>3, <2>4, OneLocal
<1>5. CASE t = "heartbeat"
  <2>1. Edge(FALSE, [job EXCEPT ![t] = Idle]) /\ ~IsIdle("heartbeat")
    BY <1>5 DEF Raise, Abort, Running, IsIdle
  <2>2. state.rev + 2 <= MaxRev
    BY <1>1, <2>1, BoundsAssumption DEF Room
  <2> DEFINE j == [job EXCEPT ![t] = Idle]
  <2>3. \/ /\ job' = j /\ state'.rev = state.rev
           /\ state' = state \/ state'.offline = TRUE
        \/ /\ state.offline = FALSE
           /\ state'.rev = state.rev + 1 /\ state'.offline = TRUE
           /\ \E p \in Publishers : IsIdle(p) /\ job' = [j EXCEPT ![p] = RunCore]
    <3> HIDE DEF j
    <3>1. state.rev + 1 <= MaxRev
      BY <1>1, <2>2, BoundsAssumption
    <3> QED BY <1>1, <2>1, <3>1, EdgeShape DEF j
  <2>4. CASE job' = j /\ state'.rev = state.rev /\ (state' = state \/ state'.offline = TRUE)
    <3>1. /\ job' = [u \in Tasks |-> job'[u]] /\ pending' = [u \in Tasks |-> pending'[u]]
          /\ job'[t] = Idle /\ pending'[t] = None
          /\ \A u \in Tasks \ {t} : Keeps(u)
      BY <1>1, <1>2, <2>4, OneMoves
    <3>2. Local(t)
      BY <1>5, <3>1 DEF Local, Leaves
    <3>3. Room'
      BY <1>1, <1>5, <2>2, <2>4, <3>1, JobsAre, BoundsAssumption DEF Room, IsIdle
    <3>4. t \notin Publishers /\ t \notin Boots
      BY <1>5, NoSyncers DEF Coroutines
    <3> QED BY <1>2, <1>3, <2>4, <3>1, <3>2, <3>3, <3>4, OneLocal
  <2>5. CASE /\ state.offline = FALSE
             /\ state'.rev = state.rev + 1 /\ state'.offline = TRUE
             /\ \E p \in Publishers : IsIdle(p) /\ job' = [j EXCEPT ![p] = RunCore]
    <3>1. PICK p \in Publishers : IsIdle(p) /\ job' = [j EXCEPT ![p] = RunCore]
      BY <2>5
    <3>2. t # p /\ p \in Tasks /\ t \notin Publishers /\ t \notin Boots /\ p \notin Boots
      BY <1>5, NoSyncers DEF Coroutines, Tasks
    <3>3. /\ job' = [u \in Tasks |-> job'[u]] /\ pending' = [u \in Tasks |-> pending'[u]]
          /\ job'[t] = Idle /\ pending'[t] = None
          /\ job'[p] = RunCore /\ pending'[p] = pending[p]
          /\ \A u \in Tasks \ {t, p} : Keeps(u)
      BY <1>1, <1>2, <3>1, <3>2, TwoMove
    <3>4. Local(t) /\ Local(p)
      BY <1>5, <3>1, <3>3 DEF Local, Leaves, Starts
    <3>5. \A u \in Tasks : Local(u)
      BY <3>3, <3>4, KeepsOrStarts
    <3>6. /\ \A q \in Publishers : Starts(q) => q = p /\ state'.rev = state.rev + 1
          /\ \A b \in Boots : Starts(b) => Called(b)
      BY <2>5, <3>2, <3>3, KeepsOrStarts DEF Tasks
    <3>7. Room'
      BY <1>1, <1>5, <2>2, <2>5, <3>3, JobsAre, BoundsAssumption DEF Room, IsIdle
    <3>8. pending[p] = None
      BY <3>1, <3>2, IdleTask DEF Inv
    <3>9. Refreshes
      BY <3>2, <3>3, <3>8, JobsAre DEF Refreshes
    <3> QED BY <1>3, <3>3, <3>5, <3>6, <3>7, <3>9 DEF LocalStep
  <2> QED BY <2>3, <2>4, <2>5
<1> QED BY <1>4, <1>5

LEMMA HeartbeatLocal ==
    ASSUME Inv, Heartbeat
    PROVE  LocalStep
<1> DEFINE t == "heartbeat"
<1>1. /\ Types /\ t \in Tasks /\ t \notin Publishers /\ t \notin Boots
      /\ IsIdle(t) /\ UNCHANGED <<connected, state, holder, gaveUp>>
      /\ job' = [job EXCEPT ![t] = RunOne("HEARTBEAT")] /\ pending' = pending
  BY NoSyncers DEF Inv, Heartbeat, Tasks, Coroutines
<1>2. /\ job' = [u \in Tasks |-> job'[u]] /\ pending' = [u \in Tasks |-> pending'[u]]
      /\ job'[t] = RunOne("HEARTBEAT") /\ \A u \in Tasks \ {t} : Keeps(u)
  BY <1>1, OneMoves
<1>3. Local(t)
  BY <1>1, <1>2 DEF Local, Starts
<1>4. Room'
  <2>1. state.rev \in Nat /\ state.offline \in BOOLEAN /\ MaxRev \in Nat
    BY BoundsAssumption DEF Inv, IInv, StateOf
  <2>2. state.rev + 2 + (IF state.offline THEN 1 ELSE 0) <= MaxRev
    BY <1>1, <2>1 DEF Heartbeat, RevisionsLeft
  <2>3. ~IsIdle(t)'
    BY <1>2, JobsAre DEF IsIdle
  <2> QED BY <1>1, <2>1, <2>2, <2>3 DEF Room
<1> QED BY <1>1, <1>2, <1>3, <1>4, LockIsKept, OneLocal DEF Types

LEMMA HeartbeatFailedLocal ==
    ASSUME Inv, HeartbeatFailed
    PROVE  LocalStep
<1> DEFINE t == "heartbeat"
<1>1. /\ Types /\ Room /\ t \in Tasks /\ t \notin Publishers /\ t \notin Boots
      /\ Running(t) /\ pending[t] = None /\ job[t].todo = <<>>
      /\ UNCHANGED <<connected, state, holder, gaveUp>>
      /\ job' = [job EXCEPT ![t] = Idle] /\ pending' = pending
      /\ state.rev \in Nat /\ state.offline \in BOOLEAN
  BY NoSyncers DEF Inv, HeartbeatFailed, HeartbeatAnswered, Spared, Room, Tasks, Coroutines,
                   IInv, StateOf
<1>2. /\ job' = [u \in Tasks |-> job'[u]] /\ pending' = [u \in Tasks |-> pending'[u]]
      /\ job'[t] = Idle /\ \A u \in Tasks \ {t} : Keeps(u)
  BY <1>1, OneMoves
<1>3. Local(t)
  BY <1>1, <1>2 DEF Local, Leaves
<1>4. Room'
  BY <1>1, <1>2, JobsAre, BoundsAssumption DEF Room, IsIdle, Running
<1> QED BY <1>1, <1>2, <1>3, <1>4, LockIsKept, OneLocal DEF Types

LEMMA HeartbeatOkLocal ==
    ASSUME Inv, HeartbeatOk
    PROVE  LocalStep
<1> DEFINE t == "heartbeat"
<1>1. /\ Types /\ IInv /\ Spared /\ Room /\ t \in Tasks /\ t \notin Publishers /\ t \notin Boots
      /\ Running(t) /\ ~IsIdle(t) /\ pending[t] = None /\ job[t].todo = <<>>
      /\ UNCHANGED <<connected, holder, gaveUp>> /\ pending' = pending
      /\ state.rev \in Nat /\ state.offline \in BOOLEAN /\ gwOnline \in BOOLEAN
      /\ gwOnline = state.online /\ (state.offline => ~state.online)
  BY NoSyncers DEF Inv, HeartbeatOk, HeartbeatAnswered, Spared, Room, Tasks, Coroutines,
                   IInv, StateOf, OnlineAgrees, Running, IsIdle
<1>2. state.rev + 2 <= MaxRev
  BY <1>1, BoundsAssumption DEF Room
<1>3. /\ \A u \in Tasks : LockKept(u)
      /\ connected' \in BOOLEAN /\ gaveUp' \in BOOLEAN /\ holder' \in Tasks \cup {None}
  BY <1>1, LockIsKept DEF Types
<1> DEFINE j == [job EXCEPT ![t] = Idle]
<1>4. ASSUME job' = j, state'.rev = state.rev, state'.offline = FALSE
      PROVE  LocalStep
  <2>1. /\ job' = [u \in Tasks |-> job'[u]] /\ pending' = [u \in Tasks |-> pending'[u]]
        /\ job'[t] = Idle /\ \A u \in Tasks \ {t} : Keeps(u)
    BY <1>1, <1>4, OneMoves
  <2>2. Local(t)
    BY <1>1, <2>1 DEF Local, Leaves
  <2>3. Room'
    BY <1>2, <1>4, <2>1, JobsAre, <1>1, BoundsAssumption DEF Room, IsIdle
  <2> QED BY <1>1, <1>3, <1>4, <2>1, <2>2, <2>3, OneLocal
<1>5. CASE gwOnline
  <2>1. job' = j /\ state' = AfterHeartbeat(state)
    BY <1>1, <1>5 DEF HeartbeatOk
  <2> QED BY <1>4, <2>1 DEF AfterHeartbeat
<1>6. CASE ~gwOnline
  <2>1. /\ state' = AfterHeartbeat(AfterEdge(state, TRUE))
        /\ job' = WithPublish(j, TRUE)
    BY <1>6 DEF HeartbeatOk, AfterEdge
  <2>2. /\ state'.rev = (IF state.offline THEN state.rev + 1 ELSE state.rev)
        /\ state'.offline = FALSE
    BY <1>1, <2>1 DEF AfterHeartbeat, AfterEdge
  <2>3. CASE ~state.offline
    <3>1. job' = j
      BY <2>1, <2>3 DEF WithPublish
    <3> QED BY <1>4, <2>2, <2>3, <3>1
  <2>4. CASE state.offline
    <3> DEFINE p == CHOOSE q \in Publishers : IsIdle(q)
    <3>1. p \in Publishers /\ IsIdle(p)
      <4>1. state.rev + 1 <= MaxRev
        BY <1>1, <1>2, BoundsAssumption
      <4>2. p \in {q \in Publishers : IsIdle(q)}
        BY <1>1, <4>1, IdlePublisher DEF Spared
      <4> QED BY <4>2
    <3>2. job' = [j EXCEPT ![p] = RunCore]
      BY <1>1, <2>1, <2>4 DEF WithPublish
    <3> HIDE DEF p
    <3>3. t # p /\ p \in Tasks /\ p \notin Boots
      BY <1>1, <3>1, NoSyncers DEF Tasks
    <3>4. /\ job' = [u \in Tasks |-> job'[u]] /\ pending' = [u \in Tasks |-> pending'[u]]
          /\ job'[t] = Idle /\ job'[p] = RunCore /\ pending'[p] = pending[p]
          /\ \A u \in Tasks \ {t, p} : Keeps(u)
      BY <1>1, <3>1, <3>2, <3>3, TwoMove
    <3>5. Local(t) /\ Local(p)
      BY <1>1, <3>1, <3>4 DEF Local, Leaves, Starts
    <3>6. \A u \in Tasks : Local(u)
      BY <3>4, <3>5, KeepsOrStarts
    <3>7. /\ \A q \in Publishers : Starts(q) => q = p /\ state'.rev = state.rev + 1
          /\ \A b \in Boots : Starts(b) => Called(b)
      BY <1>1, <2>2, <2>4, <3>3, <3>4, KeepsOrStarts DEF Tasks
    <3>8. Room'
      BY <1>1, <1>2, <2>2, <2>4, <3>4, JobsAre, BoundsAssumption DEF Room, IsIdle
    <3>9. pending[p] = None
      BY <3>1, <3>3, IdleTask DEF Inv
    <3>10. Refreshes
      BY <3>3, <3>4, <3>9, JobsAre DEF Refreshes
    <3> QED BY <1>3, <3>4, <3>6, <3>7, <3>8, <3>10 DEF LocalStep
  <2> QED BY <1>1, <2>3, <2>4
<1> QED BY <1>1, <1>5, <1>6

LEMMA ConnectLocal ==
    ASSUME Inv, Connect
    PROVE  LocalStep
<1> DEFINE t == "handshake"
<1>1. /\ Types /\ Room /\ t \in Tasks /\ t # "heartbeat" /\ "heartbeat" \in Tasks
      /\ t \notin Publishers /\ t \notin Boots
      /\ IsIdle(t) /\ UNCHANGED <<state, holder, gaveUp>> /\ connected' = TRUE
      /\ job' = [job EXCEPT ![t] = RunOne("HELLO")] /\ pending' = pending
  BY NoSyncers DEF Inv, Spared, Room, Connect, Tasks, Coroutines
<1>2. /\ job' = [u \in Tasks |-> job'[u]] /\ pending' = [u \in Tasks |-> pending'[u]]
      /\ job'[t] = RunOne("HELLO") /\ \A u \in Tasks \ {t} : Keeps(u)
  BY <1>1, OneMoves
<1>3. Local(t)
  BY <1>1, <1>2 DEF Local, Starts
<1>4. Room'
  BY <1>1, <1>2 DEF Room, IsIdle, Keeps
<1> QED BY <1>1, <1>2, <1>3, <1>4, LockIsKept, OneLocal DEF Types

LEMMA EvaluateLocal ==
    ASSUME Inv, Evaluate
    PROVE  LocalStep
<1> DEFINE t == "evaluate"
<1>1. /\ Types /\ t \in Tasks /\ t # "heartbeat" /\ "heartbeat" \in Tasks
      /\ t \notin Publishers /\ t \notin Boots /\ \A u \in Tasks : u # None
      /\ IsIdle(t) /\ UNCHANGED connected /\ holder = None /\ holder' = t /\ gaveUp' = FALSE
      /\ job' = [job EXCEPT ![t] = RunCore] /\ pending' = pending
      /\ state.rev \in Nat /\ state' = [state EXCEPT !.rev = state.rev + 1] /\ state \in StateOf
  BY NoSyncers, NamesAssumption DEF Inv, Evaluate, Tasks, Coroutines, IInv, StateOf
<1>2. /\ job' = [u \in Tasks |-> job'[u]] /\ pending' = [u \in Tasks |-> pending'[u]]
      /\ job'[t] = RunCore /\ \A u \in Tasks \ {t} : Keeps(u)
  BY <1>1, OneMoves
<1>3. Local(t)
  BY <1>1, <1>2 DEF Local, Starts
<1>4. Room'
  <2>1. state'.rev = state.rev + 1 /\ state'.offline = state.offline
    BY <1>1 DEF StateOf
  <2> QED BY <1>1, <1>2, <2>1, BoundsAssumption
          DEF Room, IsIdle, Keeps, Evaluate, RevisionsLeft
<1>5. Refreshes
  <2>1. pending[t] = None
    BY <1>1, IdleTask DEF Inv
  <2> QED BY <1>1, <1>2, <2>1, JobsAre DEF Refreshes
<1>6. \A u \in Tasks : LockKept(u)
  BY <1>1 DEF LockKept
<1> QED BY <1>1, <1>2, <1>3, <1>4, <1>5, <1>6, OneLocal DEF Types

\* An operation that task t is asked for: a command or a UI action.
LEMMA OperateLocal ==
    ASSUME Inv, NEW t \in {"mqtt", "reader"}, NEW op, IsIdle(t), Operate(t, op),
           UNCHANGED <<connected, holder, gaveUp, pending>>
    PROVE  LocalStep
<1>1. /\ Types /\ Room /\ t \in Tasks /\ t # "heartbeat" /\ "heartbeat" \in Tasks
      /\ t \notin Publishers /\ t \notin Boots /\ t \in Syncers /\ t # "recover"
      /\ state.rev \in Nat /\ state \in StateOf
      /\ job[t].todo = <<>> /\ pending[t] = None
  BY NoSyncers, IdleTask DEF Inv, Spared, Room, Syncers, Tasks, Coroutines, IInv, StateOf
<1> DEFINE v == IF op = "resync" \/ Changes(op) THEN AwaitSync ELSE Idle
<1>2. job' = [job EXCEPT ![t] = v]
  BY DEF Operate
<1> HIDE DEF v
<1>3. /\ job' = [u \in Tasks |-> job'[u]] /\ pending' = [u \in Tasks |-> pending'[u]]
      /\ job'[t] = v /\ pending'[t] = None /\ \A u \in Tasks \ {t} : Keeps(u)
  BY <1>1, <1>2, OneMoves
<1>4. Local(t)
  BY <1>1, <1>3 DEF v, Local, Starts, Leaves
<1>5. CASE Changes(op)
  <2>1. state'.rev = state.rev + 1 /\ state'.offline = state.offline
    BY <1>1, <1>5 DEF Operate, StateOf
  <2>2. Room'
    BY <1>1, <1>3, <1>5, <2>1, BoundsAssumption DEF Room, IsIdle, Keeps, Changes, RevisionsLeft
  <2>3. Refreshes
    BY <1>1, <1>3, <1>5, JobsAre DEF v, Refreshes
  <2> QED BY <1>1, <1>3, <1>4, <2>2, <2>3, LockIsKept, OneLocal DEF Types
<1>6. CASE ~Changes(op)
  <2>1. state'.rev = state.rev /\ state'.offline = state.offline
    BY <1>1, <1>6 DEF Operate, StateOf
  <2>2. Room'
    BY <1>1, <1>3, <2>1 DEF Room, IsIdle, Keeps
  <2> QED BY <1>1, <1>3, <1>4, <2>1, <2>2, LockIsKept, OneLocal DEF Types
<1> QED BY <1>5, <1>6

LEMMA NothingLocal ==
    ASSUME Inv, UNCHANGED <<connected, state, job, pending, holder, gaveUp>>
    PROVE  LocalStep
<1>1. \A t \in Tasks : Keeps(t) /\ LockKept(t)
  BY LockIsKept DEF Keeps
<1>2. \A t \in Tasks : Local(t) /\ ~Starts(t)
  BY <1>1, KeepsOrStarts
<1>3. job' = [u \in Tasks |-> job'[u]] /\ pending' = [u \in Tasks |-> pending'[u]]
  BY DEF Inv, Types
<1> QED BY <1>1, <1>2, <1>3 DEF LocalStep, Inv, Types, Spared, Room, Tasks, IsIdle

LEMMA OnUiActionLocal ==
    ASSUME Inv, OnUiAction
    PROVE  LocalStep
<1>1. CASE session = None
  BY <1>1, NothingLocal DEF OnUiAction
<1>2. CASE session # None
  BY <1>2, OperateLocal DEF OnUiAction, Receive, ReaderFree
<1> QED BY <1>1, <1>2

LEMMA MqttCommandLocal ==
    ASSUME Inv, NEW op, MqttCommand(op)
    PROVE  LocalStep
BY OperateLocal DEF MqttCommand

LEMMA ReadErrorLocal ==
    ASSUME Inv, ReadError
    PROVE  LocalStep
<1>1. /\ Types /\ IInv /\ Spared /\ Room /\ Edge(FALSE, job) /\ connected' = FALSE
      /\ UNCHANGED <<holder, gaveUp, pending>> /\ state.rev \in Nat
      /\ state.offline \in BOOLEAN /\ gwOnline \in BOOLEAN /\ MaxRev \in Nat
      /\ gwOnline = state.online /\ (state.offline => ~state.online)
      /\ gwOnline => state.rev + 2 + (IF state.offline THEN 1 ELSE 0)
                       + (IF IsIdle("heartbeat") THEN 0 ELSE 2) <= MaxRev
  BY BoundsAssumption
     DEF Inv, ReadError, Spared, Room, IInv, StateOf, OnlineAgrees, RevisionsLeft
<1>2. \/ gwOnline = FALSE /\ job' = job /\ state' = state
      \/ /\ gwOnline /\ state.offline = FALSE
         /\ state'.rev = state.rev + 1 /\ state'.offline = TRUE
         /\ \E p \in Publishers : IsIdle(p) /\ job' = [job EXCEPT ![p] = RunCore]
  <2>1. CASE gwOnline = FALSE
    BY <1>1, <2>1 DEF Edge
  <2>2. CASE gwOnline # FALSE
    <3>1. gwOnline = TRUE /\ state.online = TRUE /\ state.offline = FALSE
      BY <1>1, <2>2
    <3>2. state.rev + 1 <= MaxRev
      <4>1. state.rev + 2 + 0 + (IF IsIdle("heartbeat") THEN 0 ELSE 2) <= MaxRev
        BY <1>1, <3>1
      <4> QED BY <1>1, <4>1
    <3>3. \/ /\ job' = job /\ state'.rev = state.rev
             /\ state' = state \/ (state.offline # FALSE /\ state'.offline = ~FALSE)
          \/ /\ state'.rev = state.rev + 1 /\ state'.offline = ~FALSE
             /\ \E p \in Publishers : IsIdle(p) /\ job' = [job EXCEPT ![p] = RunCore]
      BY <1>1, <3>2, EdgeShape
    <3>4. state' = AfterEdge(state, FALSE)
      BY <1>1, <2>2 DEF Edge
    <3>5. state'.rev = state.rev + 1 /\ state'.offline = TRUE
      BY <3>1, <3>4 DEF AfterEdge
    <3>6. \E p \in Publishers : IsIdle(p) /\ job' = [job EXCEPT ![p] = RunCore]
      <4>1. state'.rev # state.rev
        BY <1>1, <3>5
      <4> QED BY <3>3, <4>1, Zenon
    <3> QED BY <3>1, <3>5, <3>6
  <2> QED BY <2>1, <2>2
<1>3. CASE gwOnline = FALSE /\ job' = job /\ state' = state
  <2>1. \A t \in Tasks : Keeps(t) /\ LockKept(t)
    BY <1>1, <1>3, LockIsKept DEF Keeps
  <2>2. \A t \in Tasks : Local(t) /\ ~Starts(t)
    BY <2>1, KeepsOrStarts
  <2>3. job' = [u \in Tasks |-> job'[u]] /\ pending' = [u \in Tasks |-> pending'[u]]
    BY <1>1, <1>3 DEF Types
  <2> QED BY <1>1, <1>3, <2>1, <2>2, <2>3 DEF LocalStep, Types, Room, Tasks, IsIdle
<1>4. CASE /\ gwOnline /\ state.offline = FALSE
           /\ state'.rev = state.rev + 1 /\ state'.offline = TRUE
           /\ \E p \in Publishers : IsIdle(p) /\ job' = [job EXCEPT ![p] = RunCore]
  <2>1. PICK p \in Publishers : IsIdle(p) /\ job' = [job EXCEPT ![p] = RunCore]
    BY <1>4
  <2>2. p \in Tasks /\ p \notin Boots /\ p # "heartbeat" /\ "heartbeat" \in Tasks
    BY NoSyncers DEF Tasks, Coroutines
  <2>3. /\ job' = [u \in Tasks |-> job'[u]] /\ pending' = [u \in Tasks |-> pending'[u]]
        /\ job'[p] = RunCore /\ pending'[p] = pending[p] /\ \A u \in Tasks \ {p} : Keeps(u)
    BY <1>1, <2>1, <2>2, OneMoves
  <2>4. Local(p)
    BY <2>1, <2>3 DEF Local, Starts
  <2>5. pending[p] = None
    BY <2>1, <2>2, IdleTask DEF Inv
  <2>6. Refreshes
    BY <2>2, <2>3, <2>5, JobsAre DEF Refreshes
  <2>7. Room'
    BY <1>1, <1>4, <2>2, <2>3 DEF Room, IsIdle, Keeps
  <2> QED BY <1>1, <1>4, <2>2, <2>3, <2>4, <2>6, <2>7, LockIsKept, OneLocal DEF Types
<1> QED BY <1>2, <1>3, <1>4

\* A HELLO of another boot starts the full sync of that boot.
LEMMA OnHelloLocal ==
    ASSUME Inv, OnHello
    PROVE  /\ LocalStep /\ session' \in Boots /\ Head(toOpi).boot = session'
           /\ Called(session')
           /\ session' # session =>
                Refreshes /\ job'[session'].todo = SyncFrames /\ pending'[session'] = None
<1> DEFINE b == Head(toOpi).boot
<1>1. /\ Types /\ IInv /\ Spared /\ Room /\ Edge(TRUE, HelloSync(b)) /\ session' = b
      /\ UNCHANGED <<connected, holder, gaveUp, pending>> /\ state.rev \in Nat
      /\ state.offline \in BOOLEAN /\ gwOnline \in BOOLEAN /\ MaxRev \in Nat
      /\ toOpi # <<>> /\ Head(toOpi).kind = "hello" /\ Called(b)
  BY BoundsAssumption
     DEF Inv, OnHello, Receive, Spared, Room, IInv, StateOf, Called
<1>2. Head(toOpi) \in Messages
  BY <1>1, HeadTailProperties DEF Types
<1>3. b \in Boots
  BY <1>1, <1>2 DEF Messages
<1>4. b # session => IsIdle(b) /\ pending[b] = None /\ job[b].todo = <<>>
  <2> SUFFICES ASSUME b # session PROVE IsIdle(b) /\ pending[b] = None /\ job[b].todo = <<>>
    OBVIOUS
  <2>1. 1 \in DOMAIN toOpi /\ toOpi[1] = Head(toOpi)
    BY <1>1, ElemsOfTail, ElemsAre DEF Types
  <2>2. IsIdle(b)
    BY <1>1, <2>1 DEF Inv, Booted, HelloAt
  <2> QED BY <1>3, <2>2, IdleTask DEF Inv, Tasks
<1> HIDE DEF b
<1>5. /\ b \in Tasks /\ b \notin Publishers /\ b # "heartbeat" /\ "heartbeat" \in Tasks
      /\ b \in Syncers /\ b # "recover"
  BY <1>3, NoSyncers DEF Tasks, Coroutines, Syncers
<1>6. /\ \A u \in Tasks : LockKept(u)
      /\ connected' \in BOOLEAN /\ gaveUp' \in BOOLEAN /\ holder' \in Tasks \cup {None}
  BY <1>1, LockIsKept DEF Types
<1> DEFINE v == IF b = session THEN job[b] ELSE AwaitSync
<1>7. HelloSync(b) = [job EXCEPT ![b] = v]
  <2>1. job \in [Tasks -> JobType]
    BY <1>1 DEF Types
  <2> QED BY <1>5, <2>1 DEF HelloSync
<1> DEFINE j == [job EXCEPT ![b] = v]
<1>8. \/ /\ job' = j /\ state'.rev = state.rev
         /\ state' = state \/ state'.offline = FALSE
      \/ /\ state.offline = TRUE /\ state'.rev = state.rev + 1 /\ state'.offline = FALSE
         /\ \E p \in Publishers : IsIdle(p) /\ job' = [j EXCEPT ![p] = RunCore]
  <2>1. state.offline = TRUE => state.rev + 1 <= MaxRev
    BY <1>1 DEF Room
  <2> HIDE DEF v
  <2> QED BY <1>1, <1>7, <2>1, EdgeShape
<1>9. CASE job' = j /\ state'.rev = state.rev /\ (state' = state \/ state'.offline = FALSE)
  <2>1. /\ job' = [u \in Tasks |-> job'[u]] /\ pending' = [u \in Tasks |-> pending'[u]]
        /\ job'[b] = v /\ pending'[b] = pending[b] /\ \A u \in Tasks \ {b} : Keeps(u)
    BY <1>1, <1>5, <1>9, OneMoves
  <2>2. Local(b)
    BY <1>4, <1>5, <2>1 DEF Local, Starts, Keeps
  <2>3. b # session => Refreshes /\ job'[b].todo = SyncFrames /\ pending'[b] = None
    BY <1>4, <1>5, <2>1, JobsAre DEF Refreshes
  <2>4. Room'
    <3>1. "heartbeat" \in Tasks \ {b} => IsIdle("heartbeat")' = IsIdle("heartbeat")
      BY <2>1 DEF IsIdle, Keeps
    <3>2. CASE state' = state
      BY <1>1, <1>5, <3>1, <3>2 DEF Room
    <3>3. CASE state'.offline = FALSE
      BY <1>1, <1>5, <1>9, <3>1, <3>3 DEF Room
    <3> QED BY <1>9, <3>2, <3>3
  <2>5. LocalStep
    BY <1>1, <1>5, <1>6, <1>9, <2>1, <2>2, <2>4, OneLocal
  <2> QED BY <1>1, <1>3, <2>3, <2>5 DEF b
<1>10. CASE /\ state.offline = TRUE /\ state'.rev = state.rev + 1 /\ state'.offline = FALSE
            /\ \E p \in Publishers : IsIdle(p) /\ job' = [j EXCEPT ![p] = RunCore]
  <2>1. PICK p \in Publishers : IsIdle(p) /\ job' = [j EXCEPT ![p] = RunCore]
    BY <1>10
  <2>2. p \in Tasks /\ p \notin Boots /\ p # b /\ p # "heartbeat"
    BY <1>5, NoSyncers DEF Tasks, Coroutines
  <2>3. /\ job' = [u \in Tasks |-> job'[u]] /\ pending' = [u \in Tasks |-> pending'[u]]
        /\ job'[b] = v /\ pending'[b] = pending[b]
        /\ job'[p] = RunCore /\ pending'[p] = pending[p]
        /\ \A u \in Tasks \ {b, p} : Keeps(u)
    BY <1>1, <1>5, <2>1, <2>2, TwoMove
  <2>4. Local(b) /\ Local(p)
    BY <1>4, <1>5, <2>1, <2>3 DEF Local, Starts, Keeps
  <2>5. \A u \in Tasks : Local(u)
    BY <2>3, <2>4, KeepsOrStarts
  <2>6. /\ \A q \in Publishers : Starts(q) => q = p /\ state'.rev = state.rev + 1
        /\ \A c \in Boots : Starts(c) => Called(c)
    BY <1>1, <1>5, <1>10, <2>2, <2>3, KeepsOrStarts DEF Tasks
  <2>7. pending[p] = None
    BY <2>1, <2>2, IdleTask DEF Inv
  <2>8. Refreshes
    BY <2>2, <2>3, <2>7, JobsAre DEF Refreshes
  <2>9. Room'
    <3>1. IsIdle("heartbeat")' = IsIdle("heartbeat")
      BY <1>5, <2>2, <2>3 DEF IsIdle, Keeps
    <3> QED BY <1>1, <1>10, <3>1 DEF Room
  <2>10. LocalStep
    BY <1>6, <2>3, <2>5, <2>6, <2>8, <2>9 DEF LocalStep
  <2>11. b # session => job'[b].todo = SyncFrames /\ pending'[b] = None
    BY <1>4, <2>3, JobsAre
  <2> QED BY <1>1, <1>3, <2>8, <2>10, <2>11 DEF b
<1> QED BY <1>8, <1>9, <1>10

-----------------------------------------------------------------------------
(* What local steps preserve.                                               *)

\* The read loop takes the first message, or all are lost.
Pops == toOpi' = toOpi \/ toOpi' = <<>> \/ (toOpi # <<>> /\ toOpi' = Tail(toOpi))

\* Message i of the wire was message i + n.
Shifted(n) == \A i \in DOMAIN toOpi' : i + n \in DOMAIN toOpi /\ toOpi'[i] = toOpi[i + n]

LEMMA PopsShift ==
    ASSUME Types, Pops
    PROVE  /\ toOpi' \in Seq(Messages) /\ Len(toOpi') <= MaxWire
           /\ DOMAIN toOpi \subseteq Nat \ {0} /\ DOMAIN toOpi' \subseteq Nat \ {0}
           /\ Shifted(0) \/ Shifted(1)
           /\ toOpi # <<>> /\ toOpi' = Tail(toOpi) =>
                Shifted(1) /\ 1 \in DOMAIN toOpi /\ toOpi[1] = Head(toOpi)
<1>1. /\ toOpi \in Seq(Messages) /\ Len(toOpi) <= MaxWire /\ MaxWire \in Nat
      /\ DOMAIN toOpi = 1..Len(toOpi) /\ Len(toOpi) \in Nat
  BY ElemsAre, BoundsAssumption DEF Types
<1>2. DOMAIN toOpi \subseteq Nat \ {0} /\ \A i \in DOMAIN toOpi : i + 0 = i
  BY <1>1
<1>3. ASSUME toOpi # <<>>, toOpi' = Tail(toOpi)
      PROVE  /\ toOpi' \in Seq(Messages) /\ Len(toOpi') <= MaxWire
             /\ DOMAIN toOpi' \subseteq Nat \ {0}
             /\ Shifted(1) /\ 1 \in DOMAIN toOpi /\ toOpi[1] = Head(toOpi)
  <2>1. /\ toOpi' \in Seq(Messages) /\ Len(toOpi') = Len(toOpi) - 1 /\ Len(toOpi) \in Nat \ {0}
        /\ Head(toOpi) = toOpi[1] /\ \A i \in 1..(Len(toOpi) - 1) : toOpi'[i] = toOpi[i + 1]
    BY <1>1, <1>3, ElemsOfTail
  <2>2. DOMAIN toOpi' = 1..(Len(toOpi) - 1)
    BY <2>1, ElemsAre
  <2>3. Shifted(1)
    BY <1>1, <2>1, <2>2 DEF Shifted
  <2> QED BY <1>1, <2>1, <2>2, <2>3
<1>4. CASE toOpi' = toOpi
  <2>1. Shifted(0)
    BY <1>2, <1>4 DEF Shifted
  <2>2. DOMAIN toOpi' \subseteq Nat \ {0} /\ toOpi' \in Seq(Messages) /\ Len(toOpi') <= MaxWire
    BY <1>1, <1>2, <1>4
  <2> QED BY <1>2, <1>3, <2>1, <2>2
<1>5. CASE toOpi' = <<>>
  <2>1. toOpi' \in Seq(Messages) /\ Len(toOpi') = 0 /\ DOMAIN toOpi' = {}
    BY <1>5, EmptySeq
  <2>2. Shifted(0) /\ Len(toOpi') <= MaxWire
    BY <1>1, <2>1 DEF Shifted
  <2> QED BY <1>2, <1>3, <2>1, <2>2
<1>6. CASE toOpi # <<>> /\ toOpi' = Tail(toOpi)
  BY <1>2, <1>3, <1>6
<1> QED BY <1>4, <1>5, <1>6 DEF Pops

LEMMA LocalTasks ==
    ASSUME Inv, LocalStep, state.rev \in Nat, state'.rev \in Nat, state.rev <= state'.rev
    PROVE  /\ job' \in [Tasks -> JobType] /\ pending' \in [Tasks -> PendingType \cup {None}]
           /\ \A t \in Tasks : TaskInv(t)' /\ (pending'[t] = pending[t] \/ pending'[t] = None)
           /\ ~gaveUp' /\ state'.rev = state.rev =>
                \A t \in Tasks : \A c \in Elems(CoreFrames) : Owes(t, c) => Owes(t, c)'
           /\ \A t \in Syncers :
                \/ ~Running(t)' \/ job'[t].todo = <<>> \/ Len(job'[t].todo) = Total
                \/ job'[t].todo = job[t].todo /\ Running(t)
<1>1. ASSUME NEW t \in Tasks
      PROVE  /\ TaskTyped(t)' /\ TaskInv(t)'
             /\ pending'[t] = pending[t] \/ pending'[t] = None
             /\ ~gaveUp' /\ state'.rev = state.rev =>
                  \A c \in Elems(CoreFrames) : Owes(t, c) => Owes(t, c)'
             /\ t \in Syncers =>
                  \/ ~Running(t)' \/ job'[t].todo = <<>> \/ Len(job'[t].todo) = Total
                  \/ job'[t].todo = job[t].todo /\ Running(t)
  <2>1. TaskTyped(t) /\ TaskInv(t) /\ Local(t) /\ LockKept(t)
    BY DEF Inv, Types, TaskTyped, LocalStep
  <2> QED BY <2>1, LocalKeepsTask
<1>2. /\ job' = [t \in Tasks |-> job'[t]] /\ pending' = [t \in Tasks |-> pending'[t]]
  BY DEF LocalStep
<1>3. job' \in [Tasks -> JobType] /\ pending' \in [Tasks -> PendingType \cup {None}]
  BY <1>1, <1>2 DEF TaskTyped
<1> QED BY <1>1, <1>3, NoSyncers

LEMMA IdleStays ==
    ASSUME NEW t \in Tasks, Local(t), IsIdle(t), ~Starts(t)
    PROVE  IsIdle(t)'
<1>1. ~Running(t)
  BY DEF IsIdle, Running
<1>2. CASE Keeps(t)
  BY <1>2 DEF Keeps, IsIdle
<1>3. CASE Locks(t)
  BY <1>3 DEF Locks, IsIdle
<1>4. CASE Leaves(t)
  BY <1>1, <1>4, JobsAre DEF Leaves, IsIdle
<1> QED BY <1>2, <1>3, <1>4 DEF Local

LEMMA LocalSpared ==
    ASSUME Inv, LocalStep, state.rev \in Nat, state'.rev \in Nat, state.rev <= state'.rev
    PROVE  Spared'
<1>1. PICK q : \A p \in Publishers : Starts(p) => p = q /\ state'.rev = state.rev + 1
  BY DEF LocalStep
<1>2. ASSUME NEW p \in Publishers, IsIdle(p), ~Starts(p) PROVE IsIdle(p)'
  BY <1>2, IdleStays DEF LocalStep, Tasks
<1>3. IsFiniteSet(Busy) /\ Cardinality(Busy) <= state.rev /\ Cardinality(Busy) \in Nat
  BY NamesAssumption, FS_Subset, FS_CardinalityType DEF Busy, Inv, Spared
<1>4. CASE \E p \in Publishers : Starts(p)
  <2>1. state'.rev = state.rev + 1 /\ Busy' \in SUBSET (Busy \cup {q})
    BY <1>1, <1>2, <1>4 DEF Busy
  <2>2. IsFiniteSet(Busy \cup {q}) /\ Cardinality(Busy \cup {q}) <= Cardinality(Busy) + 1
        /\ Cardinality(Busy \cup {q}) \in Nat
    <3>1. /\ IsFiniteSet(Busy \cup {q})
          /\ Cardinality(Busy \cup {q}) =
               IF q \in Busy THEN Cardinality(Busy) ELSE Cardinality(Busy) + 1
      BY <1>3, FS_AddElement
    <3> QED BY <1>3, <3>1
  <2>3. Cardinality(Busy') <= Cardinality(Busy \cup {q}) /\ Cardinality(Busy') \in Nat
    BY <2>1, <2>2, FS_Subset, FS_CardinalityType
  <2> QED BY <1>3, <2>1, <2>2, <2>3 DEF Spared, LocalStep, Room
<1>5. CASE \A p \in Publishers : ~Starts(p)
  <2>1. Busy' \in SUBSET Busy
    BY <1>2, <1>5 DEF Busy
  <2>2. Cardinality(Busy') <= Cardinality(Busy) /\ Cardinality(Busy') \in Nat
    BY <1>3, <2>1, FS_Subset, FS_CardinalityType
  <2> QED BY <1>3, <2>2 DEF Spared, LocalStep, Room
<1> QED BY <1>4, <1>5

LEMMA LocalSnapshot ==
    ASSUME Inv, LocalStep, state.rev \in Nat, state'.rev \in Nat, state.rev <= state'.rev,
           panel' = panel
    PROVE  Snapshot'
<1> SUFFICES ASSUME NEW t \in Syncers,
                    Running(t)', job'[t].todo # <<>>, Len(job'[t].todo) < Total,
                    panel.open # None
             PROVE  panel.open.owner = t /\ Done(t)' \subseteq panel.open.got
  BY DEF Inv, Snapshot, SnapshotsAreWhole
<1>1. Total \in Nat
  BY SyncFramesAre
<1>2. job'[t].todo = job[t].todo /\ Running(t)
  BY <1>1, LocalTasks
<1> QED BY <1>2 DEF Inv, Snapshot, Done

LEMMA LocalCore ==
    ASSUME Inv, LocalStep, state.rev \in Nat, state'.rev \in Nat, state.rev <= state'.rev,
           panel' = panel, Refreshes \/ session' = session
    PROVE  Core'
<1>1. Core /\ panel \in PanelType
  BY DEF Inv, Types
<1>2. \A c \in Elems(CoreFrames) : panel.core[c] \in Int /\ panel'.core[c] <= state'.rev
  BY <1>1 DEF Core, PanelType
<1> SUFFICES ASSUME panel.boot # None, session' = panel.boot, ~gaveUp',
                    NEW c \in Elems(CoreFrames)
             PROVE  panel.core[c] = state'.rev \/ \E t \in Tasks : Owes(t, c)'
  BY <1>2 DEF Core
<1>3. CASE Refreshes
  <2>1. PICK t \in Tasks : job'[t].todo \in {SyncFrames, CoreFrames} /\ pending'[t] = None
    BY <1>3 DEF Refreshes
  <2>2. c \in Elems(job'[t].todo)
    BY <2>1, JobsAre
  <2> QED BY <2>1, <2>2 DEF Owes, Waiting
<1>4. CASE ~Refreshes
  <2>1. session = panel.boot /\ ~gaveUp /\ state'.rev = state.rev
    BY <1>4 DEF LocalStep
  <2>2. panel.core[c] = state.rev \/ \E t \in Tasks : Owes(t, c)
    BY <1>1, <2>1 DEF Core
  <2> QED BY <2>1, <2>2, LocalTasks
<1> QED BY <1>3, <1>4

\* The session stays, or the HELLO of another boot begins one.
SessionStep == session' = session \/ (session' \in Boots /\ Called(session'))

\* Nobody begins to wait: the answers on the wire stand for what they did.
LEMMA PopAnswers ==
    ASSUME Inv, panel' = panel, Pops, SessionStep,
           \A t \in Tasks : pending'[t] = pending[t] \/ pending'[t] = None
    PROVE  Answers'
<1>1. Types /\ Answers
  BY DEF Inv
<1>2. \A t \in Tasks : Waiting(t)' => Waiting(t) /\ pending'[t] = pending[t]
  BY DEF Waiting
<1>3. ASSUME NEW i \in DOMAIN toOpi', NEW t \in Tasks, AckAt(i, t)', NEW n \in {0, 1}, Shifted(n)
      PROVE  i + n \in DOMAIN toOpi /\ AckAt(i + n, t)
  BY <1>2, <1>3 DEF Shifted, AckAt
<1>4. ASSUME NEW i \in DOMAIN toOpi', NEW n \in {0, 1}, Shifted(n),
             \E k \in DOMAIN toOpi' : k < i /\ HelloAt(k)' /\ toOpi'[k].boot = panel.boot
      PROVE  OfThisBoot(i + n)
  <2>1. PICK k \in DOMAIN toOpi' : k < i /\ HelloAt(k)' /\ toOpi'[k].boot = panel.boot
    BY <1>4
  <2>2. k + n \in DOMAIN toOpi /\ HelloAt(k + n) /\ toOpi[k + n].boot = panel.boot
    BY <1>4, <2>1 DEF Shifted, HelloAt
  <2>3. k \in Nat /\ i \in Nat /\ k + n < i + n
    BY <1>1, <2>1, PopsShift
  <2> QED BY <2>2, <2>3 DEF OfThisBoot
<1>5. ASSUME NEW i \in DOMAIN toOpi', NEW t \in Tasks, AckAt(i, t)'
      PROVE  /\ t \in Syncers => Collected(t)'
             /\ panel.boot # None /\ OfThisBoot(i)' => Shows(t)'
  <2>1. Waiting(t) /\ pending'[t] = pending[t]
    BY <1>2, <1>5 DEF AckAt
  <2>2. PICK n \in {0, 1} : Shifted(n)
    BY <1>1, PopsShift
  <2>3. t \in Syncers => Collected(t)'
    BY <1>1, <1>3, <1>5, <2>1, <2>2 DEF Answers, Collected
  <2>4. ASSUME panel.boot # None, NEW m \in {0, 1}, Shifted(m), OfThisBoot(i + m) PROVE Shows(t)'
    BY <1>1, <1>3, <1>5, <2>1, <2>4 DEF Answers, Shows
  <2>5. CASE session' = session /\ session = panel.boot
    BY <2>2, <2>3, <2>4, <2>5 DEF OfThisBoot
  <2>6. CASE session' # session /\ session' = panel.boot
    <3>1. Shifted(1) /\ 1 \in DOMAIN toOpi /\ HelloAt(1) /\ toOpi[1].boot = panel.boot
      BY <1>1, <2>6, PopsShift DEF SessionStep, Called, HelloAt
    <3>2. i \in Nat \ {0} /\ 1 < i + 1
      BY <1>1, PopsShift
    <3> QED BY <2>3, <2>4, <3>1, <3>2 DEF OfThisBoot
  <2>7. CASE \E k \in DOMAIN toOpi' : k < i /\ HelloAt(k)' /\ toOpi'[k].boot = panel.boot
    BY <1>4, <2>2, <2>3, <2>4, <2>7
  <2> QED BY <2>3, <2>5, <2>6, <2>7 DEF OfThisBoot
<1>6. \A t, u \in Tasks :
         Waiting(t)' /\ Waiting(u)' /\ pending'[t].frame.seq = pending'[u].frame.seq => t = u
  BY <1>1, <1>2 DEF Answers
<1> QED BY <1>5, <1>6 DEF Answers

\* No full sync of a boot starts but that of the HELLO that is taken.
LEMMA PopBooted ==
    ASSUME Inv, panel' = panel, Pops, SessionStep,
           \A b \in Boots : IsIdle(b) /\ ~Called(b) => IsIdle(b)'
    PROVE  Booted'
<1>1. Types /\ Booted
  BY DEF Inv
<1>2. \A b \in Boots : IsIdle(b) /\ session' # b => IsIdle(b)'
  BY DEF Called
<1>3. ASSUME NEW b, Called(b)
      PROVE  /\ 1 \in DOMAIN toOpi /\ HelloAt(1) /\ toOpi[1].boot = b /\ Shifted(1)
             /\ b \in panel.used
  <2>1. /\ 1 \in DOMAIN toOpi /\ HelloAt(1) /\ toOpi[1].boot = b /\ Shifted(1)
    BY <1>1, <1>3, PopsShift DEF Called, HelloAt
  <2> QED BY <1>1, <2>1 DEF Booted
<1>4. session' # None => session' \in panel.used
  BY <1>1, <1>3 DEF SessionStep, Booted
<1>5. ASSUME NEW b \in Boots, ~IsIdle(b)' PROVE b \in panel.used
  <2>1. CASE Called(b)
    BY <1>3, <2>1
  <2>2. CASE ~Called(b)
    <3>1. ~IsIdle(b)
      BY <1>5, <2>2
    <3> QED BY <1>1, <3>1 DEF Booted
  <2> QED BY <2>1, <2>2
<1>6. panel.boot \in Boots /\ panel.boot # session' => IsIdle(panel.boot)'
  <2> SUFFICES ASSUME panel.boot \in Boots, panel.boot # session' PROVE IsIdle(panel.boot)'
    OBVIOUS
  <2>1. session # panel.boot
    BY <1>1, <1>3 DEF SessionStep, Booted
  <2> QED BY <1>1, <1>2, <2>1 DEF Booted
<1>7. PICK n \in {0, 1} : Shifted(n)
  BY <1>1, PopsShift
<1>8. \A i \in DOMAIN toOpi' : i \in Nat \ {0}
  BY <1>1, PopsShift
<1>9. ASSUME NEW i \in DOMAIN toOpi', NEW j \in DOMAIN toOpi', HelloAt(i)', HelloAt(j)'
      PROVE  i = j
  <2>1. /\ i + n \in DOMAIN toOpi /\ HelloAt(i + n)
        /\ j + n \in DOMAIN toOpi /\ HelloAt(j + n)
    BY <1>7, <1>9 DEF Shifted, HelloAt
  <2>2. i + n = j + n
    BY <1>1, <2>1 DEF Booted
  <2> QED BY <1>8, <2>2
<1>10. ASSUME NEW i \in DOMAIN toOpi', HelloAt(i)'
       PROVE  (/\ toOpi[i].boot \in panel.used
               /\ toOpi[i].boot # session => IsIdle(toOpi[i].boot)
               /\ toOpi[i].boot # panel.boot => session # panel.boot)'
  <2>0. PICK b : b = toOpi'[i].boot
    OBVIOUS
  <2>1. ASSUME NEW m \in {0, 1}, Shifted(m)
        PROVE  /\ i + m \in DOMAIN toOpi /\ HelloAt(i + m) /\ toOpi[i + m].boot = b
    BY <1>10, <2>0, <2>1 DEF Shifted, HelloAt
  <2>2. /\ b \in panel.used /\ b \in Boots
        /\ b # session => IsIdle(b)
        /\ b # panel.boot => session # panel.boot
    <3>1. i + n \in DOMAIN toOpi /\ HelloAt(i + n) /\ toOpi[i + n].boot = b
      BY <1>7, <2>1
    <3> QED BY <1>1, <3>1 DEF Booted, Types, PanelType
  <2>3. session' = session
    <3> SUFFICES ASSUME session' # session PROVE FALSE
      OBVIOUS
    <3>1. Shifted(1) /\ 1 \in DOMAIN toOpi /\ HelloAt(1)
      BY <1>3 DEF SessionStep
    <3>2. i + 1 \in DOMAIN toOpi /\ HelloAt(i + 1)
      BY <2>1, <3>1
    <3>3. i + 1 = 1
      BY <1>1, <3>1, <3>2 DEF Booted
    <3> QED BY <1>8, <3>3
  <2>4. b # session' => IsIdle(b)'
    BY <1>2, <2>2, <2>3
  <2> QED BY <2>0, <2>2, <2>3, <2>4 DEF IsIdle
<1> QED BY <1>1, <1>4, <1>5, <1>6, <1>9, <1>10 DEF Booted

\* The read loop's and the orchestrator's local steps, all together.
LEMMA LocalInv ==
    ASSUME Inv, LocalStep, IInv', state'.rev \in {state.rev, state.rev + 1},
           panel' = panel, Pops, SessionStep, Refreshes \/ session' = session
    PROVE  Inv'
<1>1. state.rev \in Nat /\ state'.rev \in Nat /\ state.rev <= state'.rev
  BY DEF Inv, IInv, StateOf
<1>2. Types'
  <2>1. toOpi' \in Seq(Messages) /\ Len(toOpi') <= MaxWire
    BY PopsShift DEF Inv
  <2>2. job' \in [Tasks -> JobType] /\ pending' \in [Tasks -> PendingType \cup {None}]
    BY <1>1, LocalTasks
  <2>3. session' \in Boots \cup {None} /\ panel' \in PanelType
    BY DEF SessionStep, Inv, Types
  <2> QED BY <2>1, <2>2, <2>3 DEF Types, LocalStep
<1>3. \A t \in Tasks : TaskInv(t)'
  BY <1>1, LocalTasks
<1>4. \A b \in Boots : IsIdle(b) /\ ~Called(b) => IsIdle(b)'
  BY IdleStays DEF LocalStep, Tasks
<1>5. \A t \in Tasks : pending'[t] = pending[t] \/ pending'[t] = None
  BY <1>1, LocalTasks
<1>6. Booted' /\ Answers'
  BY <1>4, <1>5, PopBooted, PopAnswers
<1> QED BY <1>1, <1>2, <1>3, <1>6, LocalSpared, LocalSnapshot, LocalCore DEF Inv

-----------------------------------------------------------------------------
(* What the panel makes of a frame.                                         *)

LEMMA FrameKinds ==
    ASSUME NEW f \in FrameType
    PROVE  /\ f.cmd = "BEGIN" \/ f.cmd = "END" \/ f.cmd \in Elems(CoreFrames)
                \/ f.cmd \in Elems(ListFrames) \/ f.cmd \in {"HELLO", "HEARTBEAT"}
           /\ f.cmd \in Elems(CoreFrames) \cup Elems(ListFrames) =>
                f.cmd \notin Controls /\ f.cmd \in Elems(SyncFrames)
           /\ f.rev \in Nat /\ f.owner \in Tasks /\ f.seq \in Seqs
BY SyncFramesAre, CommandsAre, BoundsAssumption DEF FrameType, Marks

LEMMA PanelGetsBegin ==
    ASSUME panel \in PanelType, NEW f \in FrameType, f.cmd = "BEGIN"
    PROVE  PanelApply(panel, f) = [panel EXCEPT !.open = [owner |-> f.owner, got |-> {"BEGIN"}]]
<1>1. f.cmd # "END" /\ f.cmd \notin Elems(CoreFrames) /\ f.cmd \notin Elems(ListFrames)
  BY FrameKinds DEF Controls
<1> QED BY <1>1 DEF PanelApply

LEMMA PanelGetsEnd ==
    ASSUME panel \in PanelType, NEW f \in FrameType, f.cmd = "END"
    PROVE  /\ panel.open = None => PanelApply(panel, f) = panel
           /\ panel.open # None =>
                PanelApply(panel, f) =
                  [panel EXCEPT !.open = None,
                                !.commit = IF panel.open.owner = f.owner
                                              /\ panel.open.got = Elems(SyncFrames) \ {"END"}
                                           THEN "whole" ELSE "partial"]
<1>1. f.cmd # "BEGIN" /\ f.cmd \notin Elems(CoreFrames) /\ f.cmd \notin Elems(ListFrames)
  BY FrameKinds DEF Controls
<1> QED BY <1>1 DEF PanelApply

LEMMA PanelGetsCore ==
    ASSUME panel \in PanelType, NEW f \in FrameType, f.cmd \in Elems(CoreFrames)
    PROVE  PanelApply(panel, f) =
             [panel EXCEPT !.open = Body(panel, f),
                           !.core = [panel.core EXCEPT ![f.cmd] =
                                       IF f.rev < panel.core[f.cmd] THEN panel.core[f.cmd]
                                                                    ELSE f.rev]]
<1>1. /\ f.cmd # "BEGIN" /\ f.cmd # "END" /\ f.cmd \notin Elems(ListFrames)
      /\ panel.core \in [Elems(CoreFrames) -> Int]
  BY FrameKinds, FramesAssumption DEF Controls, PanelType
<1>2. PanelApply(panel, f) =
        [panel EXCEPT !.open = Body(panel, f),
                      !.core[f.cmd] = IF f.rev < @ THEN @ ELSE f.rev]
  BY <1>1 DEF PanelApply
<1> QED BY <1>1, <1>2 DEF PanelType

LEMMA PanelGetsOther ==
    ASSUME panel \in PanelType, NEW f \in FrameType,
           f.cmd \notin Marks, f.cmd \notin Elems(CoreFrames)
    PROVE  \/ /\ f.cmd \in Elems(ListFrames)
              /\ PanelApply(panel, f) = [panel EXCEPT !.open = Body(panel, f)]
           \/ f.cmd \notin Elems(SyncFrames) /\ PanelApply(panel, f) = panel
<1>1. f.cmd # "BEGIN" /\ f.cmd # "END"
  BY DEF Marks
<1>2. CASE f.cmd \in Elems(ListFrames)
  BY <1>1, <1>2 DEF PanelApply
<1>3. CASE f.cmd \notin Elems(ListFrames)
  BY <1>1, <1>3, SyncFramesAre DEF PanelApply
<1> QED BY <1>2, <1>3

\* The snapshot that is open, if another task's, is left alone.
LEMMA BodyIs ==
    ASSUME panel \in PanelType, NEW f \in FrameType, f.cmd \in Elems(SyncFrames)
    PROVE  /\ Body(panel, f) \in OpenType \cup {None}
           /\ panel.open = None => Body(panel, f) = None
           /\ panel.open # None /\ panel.open.owner # f.owner => Body(panel, f) = panel.open
           /\ panel.open # None /\ panel.open.owner = f.owner =>
                /\ Body(panel, f).owner = f.owner
                /\ Body(panel, f).got = panel.open.got \cup {f.cmd}
<1>1. panel.open \in OpenType \cup {None}
  BY DEF PanelType
<1>2. CASE panel.open # None /\ panel.open.owner = f.owner
  <2>1. Body(panel, f) = [panel.open EXCEPT !.got = panel.open.got \cup {f.cmd}]
    BY <1>2 DEF Body
  <2> QED BY <1>1, <1>2, <2>1 DEF OpenType
<1>3. CASE ~(panel.open # None /\ panel.open.owner = f.owner)
  BY <1>1, <1>3 DEF Body
<1> QED BY <1>2, <1>3

\* Whatever arrives: the boot stays, core frames never go back, and a core
\* frame is shown unless a newer one is.
LEMMA PanelKeeps ==
    ASSUME panel \in PanelType, NEW f \in FrameType, panel' = PanelApply(panel, f)
    PROVE  /\ panel' \in PanelType /\ panel'.boot = panel.boot /\ panel'.used = panel.used
           /\ \A c \in Elems(CoreFrames) :
                /\ panel'.core[c] \in Int /\ panel.core[c] \in Int
                /\ panel'.core[c] >= panel.core[c] /\ panel'.core[c] \in {panel.core[c], f.rev}
           /\ f.cmd \in Elems(CoreFrames) => panel'.core[f.cmd] >= f.rev
<1>0. /\ panel.core \in [Elems(CoreFrames) -> Int] /\ f.rev \in Nat /\ f.owner \in Tasks
      /\ \A c \in Elems(CoreFrames) : panel.core[c] \in Int
  BY FrameKinds DEF PanelType
<1>1. CASE f.cmd = "BEGIN"
  <2>1. panel' = [panel EXCEPT !.open = [owner |-> f.owner, got |-> {"BEGIN"}]]
    BY <1>1, PanelGetsBegin
  <2>2. "BEGIN" \in Elems(SyncFrames) /\ f.cmd \notin Elems(CoreFrames)
    BY <1>1, SyncFramesAre, FrameKinds DEF Marks, Controls
  <2>3. [owner |-> f.owner, got |-> {"BEGIN"}] \in OpenType
    BY <1>0, <2>2 DEF OpenType
  <2>4. /\ panel' \in PanelType /\ panel'.boot = panel.boot /\ panel'.used = panel.used
        /\ panel'.core = panel.core
    BY <2>1, <2>3 DEF PanelType
  <2> QED BY <1>0, <2>2, <2>4
<1>2. CASE f.cmd = "END"
  <2>1. f.cmd \notin Elems(CoreFrames)
    BY <1>2, FrameKinds DEF Controls
  <2>2. CASE panel.open = None
    BY <1>0, <1>2, <2>1, <2>2, PanelGetsEnd
  <2>3. CASE panel.open # None
    <3>1. PICK k \in {"whole", "partial"} : panel' = [panel EXCEPT !.open = None, !.commit = k]
      BY <1>2, <2>3, PanelGetsEnd
    <3>2. /\ panel' \in PanelType /\ panel'.boot = panel.boot /\ panel'.used = panel.used
          /\ panel'.core = panel.core
      BY <3>1 DEF PanelType
    <3> QED BY <1>0, <2>1, <3>2
  <2> QED BY <2>2, <2>3
<1>3. CASE f.cmd \in Elems(CoreFrames)
  <2> DEFINE r == IF f.rev < panel.core[f.cmd] THEN panel.core[f.cmd] ELSE f.rev
  <2>1. panel' = [panel EXCEPT !.open = Body(panel, f), !.core = [panel.core EXCEPT ![f.cmd] = r]]
    BY <1>3, PanelGetsCore
  <2>2. r \in Int /\ r >= panel.core[f.cmd] /\ r >= f.rev /\ r \in {panel.core[f.cmd], f.rev}
    BY <1>0, <1>3
  <2> HIDE DEF r
  <2>3. [panel.core EXCEPT ![f.cmd] = r] \in [Elems(CoreFrames) -> Int]
    BY <1>0, <2>2
  <2>4. Body(panel, f) \in OpenType \cup {None}
    BY <1>3, BodyIs, FrameKinds
  <2>5. /\ panel' \in PanelType /\ panel'.boot = panel.boot /\ panel'.used = panel.used
        /\ panel'.core = [panel.core EXCEPT ![f.cmd] = r]
    BY <2>1, <2>3, <2>4 DEF PanelType
  <2>6. ASSUME NEW c \in Elems(CoreFrames)
        PROVE  panel'.core[c] = IF c = f.cmd THEN r ELSE panel.core[c]
    BY <1>0, <2>5
  <2> QED BY <1>0, <1>3, <2>2, <2>5, <2>6
<1>4. CASE f.cmd \notin Marks /\ f.cmd \notin Elems(CoreFrames)
  <2>1. CASE f.cmd \in Elems(ListFrames) /\ panel' = [panel EXCEPT !.open = Body(panel, f)]
    <3>1. Body(panel, f) \in OpenType \cup {None}
      BY <2>1, BodyIs, FrameKinds
    <3>2. /\ panel' \in PanelType /\ panel'.boot = panel.boot /\ panel'.used = panel.used
          /\ panel'.core = panel.core
      BY <2>1, <3>1 DEF PanelType
    <3> QED BY <1>0, <1>4, <3>2
  <2>2. CASE panel' = panel
    BY <1>0, <1>4, <2>2
  <2> QED BY <1>4, <2>1, <2>2, PanelGetsOther
<1> QED BY <1>1, <1>2, <1>3, <1>4, FrameKinds DEF Marks

-----------------------------------------------------------------------------
(* A frame is transmitted, for the first time or again.                     *)

LEMMA Appended ==
    ASSUME Types, NEW m \in Messages, Len(toOpi) < MaxWire, toOpi' = Append(toOpi, m)
    PROVE  /\ toOpi' \in Seq(Messages) /\ Len(toOpi') <= MaxWire
           /\ \A i \in DOMAIN toOpi' :
                \/ i \in DOMAIN toOpi /\ toOpi'[i] = toOpi[i]
                \/ i = Len(toOpi) + 1 /\ toOpi'[i] = m
           /\ \A i \in DOMAIN toOpi, k \in DOMAIN toOpi' :
                k < i => k \in DOMAIN toOpi /\ toOpi'[k] = toOpi[k]
<1>1. toOpi \in Seq(Messages) /\ MaxWire \in Nat
  BY BoundsAssumption DEF Types
<1>2. /\ toOpi' \in Seq(Messages) /\ Len(toOpi') = Len(toOpi) + 1
      /\ DOMAIN toOpi' = 1..(Len(toOpi) + 1) /\ DOMAIN toOpi = 1..Len(toOpi) /\ Len(toOpi) \in Nat
      /\ \A i \in 1..Len(toOpi) : toOpi'[i] = toOpi[i]
      /\ toOpi'[Len(toOpi) + 1] = m
  BY <1>1, ElemsOfAppend
<1> QED BY <1>1, <1>2

Received(f) ==
    /\ panel.boot # None /\ panel' = PanelApply(panel, f)
    /\ \/ toOpi' = toOpi
       \/ toOpi' = Append(toOpi, Ack(f)) /\ Len(toOpi) < MaxWire

\* f is the frame that t waits for already, or is made of the present state.
Transmits(t, f) ==
    /\ UNCHANGED <<connected, session, state, job, holder, gaveUp>>
    /\ Running(t) /\ job[t].todo # <<>> /\ f.cmd = Head(job[t].todo)
    /\ f \in FrameType /\ f.owner = t /\ f.rev <= state.rev
    /\ \E k \in 1..MaxTries : pending' = [pending EXCEPT ![t] = [frame |-> f, tries |-> k]]
    /\ \/ Waiting(t) /\ pending[t].frame = f
       \/ /\ ~Waiting(t) /\ f.seq \notin InUse
          /\ f.cmd \in Elems(CoreFrames) => f.rev = state.rev
    /\ UNCHANGED wires \/ Received(f)

LEMMA TransmitIsReceipt ==
    ASSUME NEW f, Transmit(f)
    PROVE  UNCHANGED wires \/ Received(f)
BY DEF Transmit, Received, wires, Put

LEMMA SendTransmits ==
    ASSUME Inv, NEW t \in Tasks, Send(t)
    PROVE  Transmits(t, Frame(t, Head(job[t].todo)))
<1> DEFINE cmd == Head(job[t].todo)
           f == Frame(t, cmd)
<1>1. /\ Types /\ Running(t) /\ ~Waiting(t) /\ job[t].todo # <<>>
      /\ state.rev \in 0..MaxRev
  <2>1. state.rev \in Nat /\ state.rev <= MaxRev
    BY BoundsAssumption DEF Inv, IInv, StateOf, Spared
  <2> QED BY <2>1, BoundsAssumption DEF Inv, Send, Sending, Waiting
<1>2. NextSequence \in Seqs /\ NextSequence \notin InUse
  BY <1>1, NextSequenceIsFree DEF Types
<1>3. cmd \in Commands
  BY <1>1, ElemsOfTail DEF Types, JobType
<1>4. f = [seq |-> NextSequence, cmd |-> cmd, owner |-> t,
           rev |-> IF cmd \in {"HELLO", "HEARTBEAT"} THEN 0 ELSE state.rev]
  BY DEF Frame
<1> HIDE DEF cmd
<1>5. /\ f.seq = NextSequence /\ f.cmd = cmd /\ f.owner = t
      /\ f.rev = IF cmd \in {"HELLO", "HEARTBEAT"} THEN 0 ELSE state.rev
  BY <1>4
<1>6. f \in FrameType /\ f.rev <= state.rev
  BY <1>1, <1>2, <1>3, <1>4, <1>5, BoundsAssumption DEF FrameType
<1>7. f.cmd \in Elems(CoreFrames) => f.rev = state.rev
  BY <1>5, <1>6, FrameKinds DEF Controls
<1>8. pending' = [pending EXCEPT ![t] = [frame |-> f, tries |-> 1]] /\ 1 \in 1..MaxTries
  BY BoundsAssumption DEF Send, cmd
<1>9. UNCHANGED wires \/ Received(f)
  <2>1. Transmit(f)
    BY DEF Send, cmd
  <2> HIDE DEF f
  <2> QED BY <2>1, TransmitIsReceipt
<1>10. UNCHANGED <<connected, session, state, job, holder, gaveUp>>
  BY DEF Send
<1> HIDE DEF f
<1>11. Transmits(t, f)
  BY <1>1, <1>2, <1>5, <1>6, <1>7, <1>8, <1>9, <1>10 DEF Transmits, cmd
<1> QED BY <1>11 DEF f, cmd

LEMMA RetryTransmits ==
    ASSUME Inv, NEW t \in Tasks, Retry(t)
    PROVE  Transmits(t, pending[t].frame)
<1> DEFINE f == pending[t].frame
<1>1. /\ Types /\ TaskInv(t) /\ Waiting(t) /\ pending[t].tries < MaxTries
      /\ UNCHANGED <<connected, session, state, job, holder, gaveUp>>
      /\ pending' = [pending EXCEPT ![t].tries = pending[t].tries + 1]
      /\ UNCHANGED wires \/ Transmit(f)
  BY DEF Inv, Retry, Expired, Waiting
<1>2. pending[t] \in PendingType
  BY <1>1 DEF Types, Waiting
<1>3. f \in FrameType /\ pending[t].tries \in 1..MaxTries
  BY <1>2 DEF PendingType
<1>4. /\ pending' = [pending EXCEPT ![t] = [frame |-> f, tries |-> pending[t].tries + 1]]
      /\ pending[t].tries + 1 \in 1..MaxTries
  <2> DEFINE n == pending[t].tries + 1
  <2>1. n \in 1..MaxTries
    BY <1>1, <1>3, BoundsAssumption
  <2>2. pending' = [pending EXCEPT ![t] = [pending[t] EXCEPT !.tries = n]]
    BY <1>1
  <2> HIDE DEF n
  <2>3. [pending[t] EXCEPT !.tries = n] = [frame |-> f, tries |-> n]
    BY <1>2 DEF PendingType
  <2> QED BY <2>1, <2>2, <2>3 DEF n
<1>5. UNCHANGED wires \/ Received(f)
  <2> HIDE DEF f
  <2> QED BY <1>1, TransmitIsReceipt
<1>6. /\ Running(t) /\ job[t].todo # <<>> /\ f.cmd = Head(job[t].todo) /\ f.owner = t
      /\ f.rev <= state.rev
  BY <1>1 DEF TaskInv
<1> QED BY <1>1, <1>3, <1>4, <1>5, <1>6 DEF Transmits

\* What the rest relies on.
LEMMA TransmitFacts ==
    ASSUME Inv, NEW t \in Tasks, NEW f, Transmits(t, f)
    PROVE  /\ f \in FrameType /\ f.owner = t
           /\ t \notin Syncers => f.cmd \notin Marks
           /\ t \in Syncers => f.cmd \in Elems(SyncFrames) /\ holder = t
           /\ (t \in Syncers /\ f.cmd = "BEGIN") => Len(job[t].todo) = Total
           /\ (t \in Syncers /\ f.cmd = "END") => Len(job[t].todo) = 1
           /\ (t \in Syncers /\ f.cmd # "BEGIN" /\ panel.open # None) =>
                panel.open.owner = t /\ Done(t) \subseteq panel.open.got
           /\ \E r \in PendingType : r.frame = f /\ pending' = [pending EXCEPT ![t] = r]
<1>1. /\ Types /\ TaskInv(t) /\ Running(t) /\ job[t].todo # <<>>
      /\ f.cmd = Head(job[t].todo) /\ f \in FrameType /\ f.owner = t
      /\ job[t].todo \in Seq(Commands) /\ Total \in Nat
  BY SyncFramesAre DEF Inv, Transmits, Types, JobType
<1>2. t \notin Syncers => f.cmd \notin Marks
  <2>1. f.cmd \in Elems(job[t].todo)
    BY <1>1, ElemsOfTail
  <2> QED BY <1>1, <2>1 DEF TaskInv
<1>3. ASSUME t \in Syncers
      PROVE  /\ f.cmd \in Elems(SyncFrames) /\ holder = t
             /\ f.cmd = "BEGIN" => Len(job[t].todo) = Total
             /\ f.cmd = "END" => Len(job[t].todo) = 1
             /\ (f.cmd # "BEGIN" /\ panel.open # None) =>
                  panel.open.owner = t /\ Done(t) \subseteq panel.open.got
  <2>1. IsRest(job[t].todo) /\ holder = t
    BY <1>1, <1>3 DEF TaskInv
  <2>2. /\ f.cmd \in Elems(SyncFrames) /\ Len(job[t].todo) \in 1..Total
        /\ (f.cmd = "BEGIN") <=> (Len(job[t].todo) = Total)
        /\ (f.cmd = "END") <=> (Len(job[t].todo) = 1)
    BY <1>1, <2>1, RestOfSync
  <2>3. f.cmd # "BEGIN" => Len(job[t].todo) < Total
    BY <1>1, <2>2
  <2> QED BY <1>1, <1>3, <2>1, <2>2, <2>3 DEF Inv, Snapshot
<1>4. PICK k \in 1..MaxTries : pending' = [pending EXCEPT ![t] = [frame |-> f, tries |-> k]]
  BY DEF Transmits
<1>5. [frame |-> f, tries |-> k] \in PendingType
  BY <1>1 DEF PendingType
<1> QED BY <1>1, <1>2, <1>3, <1>4, <1>5

LEMMA TransmitTasks ==
    ASSUME Inv, NEW t \in Tasks, NEW f, Transmits(t, f)
    PROVE  /\ pending' \in [Tasks -> PendingType \cup {None}] /\ pending'[t].frame = f
           /\ \A u \in Tasks \ {t} : pending'[u] = pending[u]
           /\ \A u \in Tasks : TaskInv(u)'
<1>1. PICK r \in PendingType : r.frame = f /\ pending' = [pending EXCEPT ![t] = r]
  BY TransmitFacts
<1>2. /\ pending \in [Tasks -> PendingType \cup {None}]
      /\ UNCHANGED <<state, job, holder>>
  BY DEF Inv, Types, Transmits
<1>3. /\ pending' \in [Tasks -> PendingType \cup {None}] /\ pending'[t].frame = f
      /\ \A u \in Tasks \ {t} : pending'[u] = pending[u]
  BY <1>1, <1>2
<1>4. ASSUME NEW u \in Tasks PROVE TaskInv(u)'
  <2>1. TaskInv(u)
    BY DEF Inv
  <2>2. CASE u # t
    BY <1>2, <1>3, <2>1, <2>2 DEF TaskInv, IsIdle, Running, Waiting
  <2>3. CASE u = t
    <3>1. /\ Running(t) /\ job[t].todo # <<>> /\ f.cmd = Head(job[t].todo) /\ f.owner = t
          /\ f.rev <= state.rev
      BY DEF Transmits
    <3> QED BY <1>2, <1>3, <2>1, <2>3, <3>1 DEF TaskInv, IsIdle, Running, Waiting
  <2> QED BY <2>2, <2>3
<1> QED BY <1>3, <1>4

LEMMA TransmitWire ==
    ASSUME Inv, NEW t \in Tasks, NEW f, Transmits(t, f)
    PROVE  /\ toOpi' \in Seq(Messages) /\ Len(toOpi') <= MaxWire
           /\ panel' \in PanelType /\ panel'.boot = panel.boot /\ panel'.used = panel.used
           /\ \A i \in DOMAIN toOpi' :
                \/ i \in DOMAIN toOpi /\ toOpi'[i] = toOpi[i]
                \/ toOpi'[i] = Ack(f) /\ Received(f)
           /\ \A i \in DOMAIN toOpi, k \in DOMAIN toOpi' :
                k < i => k \in DOMAIN toOpi /\ toOpi'[k] = toOpi[k]
<1>1. Types /\ f \in FrameType /\ panel \in PanelType
  BY TransmitFacts DEF Inv, Types
<1>2. CASE UNCHANGED wires
  BY <1>1, <1>2 DEF wires, Types
<1>3. CASE Received(f)
  <2>1. panel' \in PanelType /\ panel'.boot = panel.boot /\ panel'.used = panel.used
    BY <1>1, <1>3, PanelKeeps DEF Received
  <2>2. CASE toOpi' = toOpi
    BY <1>1, <2>1, <2>2 DEF Types
  <2>3. CASE toOpi' = Append(toOpi, Ack(f)) /\ Len(toOpi) < MaxWire
    <3>1. Ack(f) \in Messages
      BY <1>1 DEF Ack, Messages, FrameType
    <3> QED BY <1>1, <1>3, <2>1, <2>3, <3>1, Appended
  <2> QED BY <1>3, <2>2, <2>3 DEF Received
<1> QED BY <1>2, <1>3 DEF Transmits

LEMMA TransmitBooted ==
    ASSUME Inv, NEW t \in Tasks, NEW f, Transmits(t, f)
    PROVE  Booted'
<1>1. /\ Booted /\ UNCHANGED <<session, job>>
      /\ panel'.boot = panel.boot /\ panel'.used = panel.used
  BY TransmitWire DEF Inv, Transmits
<1>2. \A i \in DOMAIN toOpi' : HelloAt(i)' =>
        i \in DOMAIN toOpi /\ HelloAt(i) /\ toOpi'[i] = toOpi[i]
  BY TransmitWire DEF HelloAt, Ack
<1> QED BY <1>1, <1>2 DEF Booted, IsIdle

LEMMA TransmitCore ==
    ASSUME Inv, NEW t \in Tasks, NEW f, Transmits(t, f)
    PROVE  Core'
<1>1. /\ Core /\ UNCHANGED <<state, job, session, gaveUp>> /\ f \in FrameType /\ panel \in PanelType
      /\ f.rev \in Nat /\ f.rev <= state.rev /\ panel'.boot = panel.boot /\ state.rev \in Nat
  BY TransmitWire, TransmitFacts, FrameKinds DEF Inv, Transmits, Types, IInv, StateOf
<1>2. ASSUME NEW c \in Elems(CoreFrames)
      PROVE  /\ panel'.core[c] <= state.rev
             /\ panel.core[c] = state.rev => panel'.core[c] = state.rev
  <2>1. panel.core[c] <= state.rev /\ panel.core[c] \in Int
    BY <1>1 DEF Core, PanelType
  <2>2. CASE UNCHANGED wires
    BY <2>1, <2>2 DEF wires
  <2>3. CASE Received(f)
    <3>1. /\ panel'.core[c] \in Int /\ panel'.core[c] >= panel.core[c]
          /\ panel'.core[c] \in {panel.core[c], f.rev}
      BY <1>1, <2>3, PanelKeeps DEF Received
    <3> QED BY <1>1, <2>1, <3>1
  <2> QED BY <2>2, <2>3 DEF Transmits
<1>3. ASSUME NEW u \in Tasks, NEW c \in Elems(CoreFrames), Owes(u, c) PROVE Owes(u, c)'
  <2>1. CASE u # t
    BY <1>1, <1>3, <2>1, TransmitTasks DEF Owes, Waiting
  <2>2. CASE u = t
    <3>1. /\ pending'[t].frame = f /\ f.cmd = Head(job[t].todo)
          /\ Elems(job[t].todo) = {Head(job[t].todo)} \cup Elems(Tail(job[t].todo))
      BY TransmitTasks, ElemsOfTail DEF Transmits, Inv, Types, JobType
    <3>2. c \in Elems(Tail(job[t].todo)) \/ (c = f.cmd /\ f.rev = state.rev)
      <4>1. CASE Waiting(t) /\ pending[t].frame = f
        BY <1>3, <2>2, <4>1 DEF Owes
      <4>2. CASE ~Waiting(t) /\ (f.cmd \in Elems(CoreFrames) => f.rev = state.rev)
        BY <1>3, <2>2, <3>1, <4>2 DEF Owes
      <4> QED BY <4>1, <4>2 DEF Transmits
    <3> QED BY <1>1, <2>2, <3>1, <3>2 DEF Owes
  <2> QED BY <2>1, <2>2
<1> QED BY <1>1, <1>2, <1>3 DEF Core

\* The snapshot after a frame that is no BEGIN and no END.
LEMMA OpenAfter ==
    ASSUME panel \in PanelType, NEW f \in FrameType, f.cmd \notin Marks,
           panel' = PanelApply(panel, f)
    PROVE  /\ panel'.commit = panel.commit
           /\ \/ f.cmd \in Elems(SyncFrames) /\ panel'.open = Body(panel, f)
              \/ f.cmd \notin Elems(SyncFrames) /\ panel'.open = panel.open
<1>1. CASE f.cmd \in Elems(CoreFrames)
  <2>1. panel' = [panel EXCEPT !.open = Body(panel, f),
                               !.core = [panel.core EXCEPT ![f.cmd] =
                                           IF f.rev < panel.core[f.cmd] THEN panel.core[f.cmd]
                                                                        ELSE f.rev]]
    BY <1>1, PanelGetsCore
  <2> QED BY <1>1, <2>1, FrameKinds DEF PanelType
<1>2. CASE f.cmd \notin Elems(CoreFrames)
  BY <1>2, PanelGetsOther, FrameKinds DEF PanelType
<1> QED BY <1>1, <1>2

LEMMA TransmitSnapshot ==
    ASSUME Inv, NEW t \in Tasks, NEW f, Transmits(t, f)
    PROVE  Snapshot'
<1>1. /\ Snapshot /\ UNCHANGED <<job, holder>> /\ panel \in PanelType /\ f \in FrameType
      /\ f.owner = t /\ Running(t) /\ job[t].todo # <<>>
      /\ \A u \in Syncers : Running(u) => holder = u
  BY TransmitFacts, NoSyncers DEF Inv, Types, Transmits, TaskInv
<1>2. \A u \in Tasks : Running(u)' = Running(u) /\ Done(u)' = Done(u)
  BY <1>1 DEF Running, Done
<1>3. ASSUME panel'.commit # "partial",
             panel'.open # None => "END" \notin panel'.open.got,
             ASSUME NEW u \in Syncers, Running(u), job[u].todo # <<>>,
                    Len(job[u].todo) < Total, panel'.open # None
             PROVE  panel'.open.owner = u /\ Done(u) \subseteq panel'.open.got
      PROVE  Snapshot'
  <2>1. \A u \in Syncers :
          Running(u)' /\ job'[u].todo # <<>> /\ Len(job'[u].todo) < Total /\ panel'.open # None
            => panel'.open.owner = u /\ Done(u)' \subseteq panel'.open.got
    BY <1>1, <1>2, <1>3, NoSyncers
  <2> QED BY <1>3, <2>1 DEF Snapshot, SnapshotsAreWhole
<1>4. CASE UNCHANGED wires
  BY <1>1, <1>4, <1>3 DEF wires, Snapshot, SnapshotsAreWhole
<1>5. CASE Received(f) /\ f.cmd = "BEGIN"
  <2>1. /\ panel'.open = [owner |-> t, got |-> {"BEGIN"}] /\ panel'.commit = panel.commit
        /\ "END" \notin panel'.open.got
    <3>1. panel' = [panel EXCEPT !.open = [owner |-> t, got |-> {"BEGIN"}]]
      BY <1>1, <1>5, PanelGetsBegin DEF Received
    <3>2. panel'.open = [owner |-> t, got |-> {"BEGIN"}] /\ panel'.commit = panel.commit
      BY <1>1, <3>1 DEF PanelType
    <3> QED BY <3>2
  <2>2. t \in Syncers /\ holder = t /\ Len(job[t].todo) = Total /\ Total \in Nat
    BY <1>5, TransmitFacts, SyncFramesAre DEF Marks
  <2>3. \A u \in Syncers : Running(u) => u = t
    BY <1>1, <2>2
  <2>4. panel'.commit # "partial"
    BY <1>1, <2>1 DEF Snapshot, SnapshotsAreWhole
  <2>5. \A u \in Syncers : Running(u) => ~(Len(job[u].todo) < Total)
    BY <2>2, <2>3
  <2> QED BY <1>3, <2>1, <2>4, <2>5
<1>6. CASE Received(f) /\ f.cmd = "END"
  <2>1. t \in Syncers /\ Len(job[t].todo) = 1 /\ Total \in Nat
    BY <1>6, TransmitFacts, SyncFramesAre DEF Marks
  <2>2. CASE panel.open = None
    <3>1. panel' = panel
      BY <1>1, <1>6, <2>2, PanelGetsEnd DEF Received
    <3> QED BY <1>1, <1>3, <2>2, <3>1 DEF Snapshot, SnapshotsAreWhole
  <2>3. CASE panel.open # None
    <3>1. panel.open.owner = t /\ Done(t) \subseteq panel.open.got
      BY <1>6, <2>1, <2>3, TransmitFacts
    <3>2. panel.open.got \subseteq Elems(SyncFrames) /\ "END" \notin panel.open.got
      BY <1>1, <2>3 DEF PanelType, OpenType, Snapshot
    <3>3. Elems(SyncFrames) \ {"END"} \subseteq Done(t)
      <4> SUFFICES ASSUME NEW x \in Elems(SyncFrames), x # "END" PROVE x \in Done(t)
        OBVIOUS
      <4>1. PICK i \in 1..Total : SyncFrames[i] = x
        BY SyncFramesAre, ElemsAre DEF Total
      <4>2. i # Total
        BY <4>1, SyncFramesAre
      <4>3. i \in 1..(Total - Len(job[t].todo))
        BY <2>1, <4>1, <4>2
      <4> QED BY <4>1, <4>3 DEF Done
    <3>4. panel.open.got = Elems(SyncFrames) \ {"END"}
      BY <3>1, <3>2, <3>3
    <3>5. panel'.open = None /\ panel'.commit = "whole"
      BY <1>1, <1>6, <2>3, <3>1, <3>4, PanelGetsEnd DEF Received, PanelType
    <3> QED BY <1>3, <3>5
  <2> QED BY <2>2, <2>3
<1>7. CASE Received(f) /\ f.cmd \notin Marks
  <2>1. /\ panel'.commit = panel.commit
        /\ \/ f.cmd \in Elems(SyncFrames) /\ panel'.open = Body(panel, f)
           \/ f.cmd \notin Elems(SyncFrames) /\ panel'.open = panel.open
    BY <1>1, <1>7, OpenAfter DEF Received
  <2>2. CASE panel'.open = panel.open
    BY <1>1, <1>3, <2>1, <2>2 DEF Snapshot, SnapshotsAreWhole
  <2>3. CASE f.cmd \in Elems(SyncFrames) /\ panel'.open = Body(panel, f) /\ panel'.open # panel.open
    <3>1. /\ panel.open # None /\ panel.open.owner = t /\ panel'.open.owner = t
          /\ panel'.open.got = panel.open.got \cup {f.cmd}
      BY <1>1, <2>3, BodyIs
    <3>2. "END" \notin panel'.open.got
      BY <1>1, <1>7, <3>1 DEF Snapshot, Marks
    <3>3. panel'.commit # "partial"
      BY <1>1, <2>1 DEF Snapshot, SnapshotsAreWhole
    <3>4. ASSUME NEW u \in Syncers, Running(u), job[u].todo # <<>>, Len(job[u].todo) < Total
          PROVE  panel'.open.owner = u /\ Done(u) \subseteq panel'.open.got
      <4>1. panel.open.owner = u /\ Done(u) \subseteq panel.open.got
        BY <1>1, <3>1, <3>4 DEF Snapshot
      <4> QED BY <3>1, <4>1
    <3> QED BY <1>3, <3>2, <3>3, <3>4
  <2> QED BY <2>1, <2>2, <2>3
<1> QED BY <1>4, <1>5, <1>6, <1>7 DEF Transmits, Marks

\* What an acknowledgement of f stands for.
LEMMA TransmitAnswered ==
    ASSUME Inv, NEW t \in Tasks, NEW f, Transmits(t, f), Received(f)
    PROVE  (t \in Syncers => Collected(t)') /\ Shows(t)'
<1>1. /\ panel \in PanelType /\ f \in FrameType /\ f.owner = t /\ pending'[t].frame = f
      /\ panel' = PanelApply(panel, f)
  BY TransmitFacts, TransmitTasks DEF Inv, Types, Received
<1>2. Shows(t)'
  BY <1>1, PanelKeeps DEF Shows
<1>3. ASSUME t \in Syncers, panel'.open # None
      PROVE  panel'.open.owner = t /\ f.cmd \in panel'.open.got
  <2>1. CASE f.cmd = "BEGIN"
    <3>1. panel'.open = [owner |-> t, got |-> {"BEGIN"}]
      BY <1>1, <2>1, PanelGetsBegin DEF PanelType
    <3> QED BY <2>1, <3>1
  <2>2. CASE f.cmd = "END"
    <3>1. panel'.open = None
      BY <1>1, <2>2, PanelGetsEnd DEF PanelType
    <3> QED BY <1>3, <3>1
  <2>3. CASE f.cmd \notin Marks
    <3>1. f.cmd \in Elems(SyncFrames)
      BY <1>3, TransmitFacts
    <3>2. panel'.open = Body(panel, f)
      BY <1>1, <2>3, <3>1, OpenAfter
    <3>3. panel.open # None
      BY <1>1, <1>3, <3>1, <3>2, BodyIs
    <3>4. panel.open.owner = t
      BY <1>3, <2>3, <3>3, TransmitFacts DEF Marks
    <3> QED BY <1>1, <3>1, <3>2, <3>3, <3>4, BodyIs
  <2> QED BY <2>1, <2>2, <2>3 DEF Marks
<1> QED BY <1>1, <1>2, <1>3 DEF Collected

\* What was acknowledged to another task stays received.
LEMMA TransmitOthers ==
    ASSUME Inv, NEW t \in Tasks, NEW f, Transmits(t, f), Received(f),
           NEW u \in Tasks, u # t, Waiting(u)
    PROVE  /\ u \in Syncers /\ Collected(u) => Collected(u)'
           /\ Shows(u) => Shows(u)'
<1>1. /\ panel \in PanelType /\ f \in FrameType /\ f.owner = t /\ pending'[u] = pending[u]
      /\ panel' = PanelApply(panel, f) /\ TaskInv(u) /\ pending[u] \in PendingType
  BY TransmitFacts, TransmitTasks DEF Inv, Types, Received, Waiting
<1>2. Shows(u) => Shows(u)'
  <2>1. pending[u].frame.rev \in Nat
    BY <1>1, BoundsAssumption DEF PendingType, FrameType
  <2>2. \A c \in Elems(CoreFrames) :
          /\ panel'.core[c] \in Int /\ panel.core[c] \in Int
          /\ panel'.core[c] >= panel.core[c]
    BY <1>1, PanelKeeps
  <2> QED BY <1>1, <2>1, <2>2 DEF Shows
<1>3. ASSUME u \in Syncers, Collected(u) PROVE Collected(u)'
  <2>1. holder = u
    BY <1>1, <1>3 DEF TaskInv
  <2>2. t \notin Syncers /\ f.cmd \notin Marks
    BY <2>1, TransmitFacts
  <2>3. panel'.open = panel.open
    <3>1. \/ f.cmd \in Elems(SyncFrames) /\ panel'.open = Body(panel, f)
          \/ panel'.open = panel.open
      BY <1>1, <2>2, OpenAfter
    <3>2. panel.open # None => panel.open.owner # t
      BY <1>3 DEF Collected
    <3> QED BY <1>1, <3>1, <3>2, BodyIs
  <2> QED BY <1>1, <1>3, <2>3 DEF Collected
<1> QED BY <1>2, <1>3

LEMMA TransmitAnswers ==
    ASSUME Inv, NEW t \in Tasks, NEW f, Transmits(t, f)
    PROVE  Answers'
<1>1. /\ Types /\ Answers /\ UNCHANGED session /\ panel'.boot = panel.boot
      /\ pending'[t].frame = f /\ \A u \in Tasks \ {t} : pending'[u] = pending[u]
  BY TransmitWire, TransmitTasks DEF Inv, Transmits
<1>2. \A u \in Tasks : u # t /\ Waiting(u) => pending[u].frame.seq # f.seq
  BY <1>1 DEF Transmits, Answers, InUse, Waiting
<1>3. \A u, v \in Tasks :
         Waiting(u)' /\ Waiting(v)' /\ pending'[u].frame.seq = pending'[v].frame.seq => u = v
  BY <1>1, <1>2 DEF Answers, Waiting
<1>4. \A i \in DOMAIN toOpi : toOpi[i] \in Elems(toOpi)
  BY DEF Elems
<1>5. \A i \in DOMAIN toOpi : toOpi[i].kind = "ack" /\ toOpi[i].seq = f.seq => AckAt(i, t)
  BY <1>4 DEF Transmits, AckAt, InUse
<1>6. ASSUME NEW i \in DOMAIN toOpi, i \in DOMAIN toOpi', OfThisBoot(i)' PROVE OfThisBoot(i)
  BY <1>1, <1>6, TransmitWire DEF OfThisBoot, HelloAt
<1>7. ASSUME NEW i \in DOMAIN toOpi', NEW u \in Tasks, AckAt(i, u)'
      PROVE  /\ u \in Syncers => Collected(u)'
             /\ panel'.boot # None /\ OfThisBoot(i)' => Shows(u)'
  <2>1. CASE u # t
    <3>1. Waiting(u) /\ pending'[u] = pending[u] /\ pending[u].frame.seq # f.seq
      BY <1>1, <1>2, <1>7, <2>1 DEF AckAt, Waiting
    <3>2. i \in DOMAIN toOpi /\ toOpi'[i] = toOpi[i]
      BY <1>7, <3>1, TransmitWire DEF AckAt, Ack
    <3>3. AckAt(i, u)
      BY <1>7, <3>1, <3>2 DEF AckAt
    <3>4. /\ u \in Syncers => Collected(u)
          /\ panel.boot # None /\ OfThisBoot(i) => Shows(u)
      BY <1>1, <3>2, <3>3 DEF Answers
    <3>5. CASE UNCHANGED wires
      BY <1>1, <1>6, <3>1, <3>2, <3>4, <3>5 DEF wires, Collected, Shows
    <3>6. CASE Received(f)
      BY <1>1, <1>6, <2>1, <3>1, <3>2, <3>4, <3>6, TransmitOthers
    <3> QED BY <3>5, <3>6 DEF Transmits
  <2>2. CASE u = t /\ Received(f)
    BY <2>2, TransmitAnswered
  <2>3. CASE u = t /\ UNCHANGED wires
    <3>1. i \in DOMAIN toOpi /\ AckAt(i, t)
      BY <1>1, <1>5, <1>7, <2>3 DEF wires, AckAt
    <3>2. Waiting(t) /\ pending[t].frame = f
      BY <3>1 DEF AckAt, Transmits
    <3>3. /\ t \in Syncers => Collected(t)
          /\ panel.boot # None /\ OfThisBoot(i) => Shows(t)
      BY <1>1, <3>1 DEF Answers
    <3> QED BY <1>1, <1>6, <2>3, <3>1, <3>2, <3>3 DEF wires, Collected, Shows
  <2> QED BY <2>1, <2>2, <2>3 DEF Transmits
<1> QED BY <1>3, <1>7 DEF Answers

LEMMA TransmitInv ==
    ASSUME Inv, NEW t \in Tasks, NEW f, Transmits(t, f), IInv'
    PROVE  Inv'
<1>1. UNCHANGED <<connected, session, state, job, holder, gaveUp>>
  BY DEF Transmits
<1>2. Types'
  BY <1>1, TransmitTasks, TransmitWire DEF Inv, Types
<1>3. Spared'
  BY <1>1 DEF Inv, Spared, Busy, IsIdle
<1>4. \A u \in Tasks : TaskInv(u)'
  BY TransmitTasks
<1> QED BY <1>2, <1>3, <1>4, TransmitBooted, TransmitAnswers, TransmitSnapshot, TransmitCore DEF Inv

-----------------------------------------------------------------------------
(* A response reaches the task that waits for it.                           *)

Hit(t) == Waiting(t) /\ pending[t].frame.seq = Head(toOpi).seq

LEMMA ResponseTasks ==
    ASSUME Inv, OnResponse
    PROVE  /\ job' \in [Tasks -> JobType] /\ pending' \in [Tasks -> PendingType \cup {None}]
           /\ 1 \in DOMAIN toOpi
           /\ \A t \in Tasks :
                /\ job'[t].phase = job[t].phase /\ TaskInv(t)'
                /\ ~Hit(t) => job'[t] = job[t] /\ pending'[t] = pending[t]
                /\ Hit(t) => /\ AckAt(1, t) /\ pending'[t] = None /\ job[t].todo # <<>>
                             /\ job'[t].todo = Tail(job[t].todo)
<1>1. /\ Types /\ toOpi # <<>> /\ Head(toOpi).kind = "ack" /\ UNCHANGED <<state, holder>>
      /\ pending' = [t \in Tasks |-> IF Hit(t) THEN None ELSE pending[t]]
      /\ job' = [t \in Tasks |-> IF Hit(t) THEN [job[t] EXCEPT !.todo = Tail(job[t].todo)]
                                           ELSE job[t]]
  BY DEF Inv, OnResponse, Receive, Hit, Waiting
<1>2. 1 \in DOMAIN toOpi /\ toOpi[1] = Head(toOpi)
  BY <1>1, ElemsOfTail, ElemsAre DEF Types
<1>3. ASSUME NEW t \in Tasks
      PROVE  /\ job'[t] \in JobType /\ pending'[t] \in PendingType \cup {None}
             /\ job'[t].phase = job[t].phase /\ TaskInv(t)'
             /\ ~Hit(t) => job'[t] = job[t] /\ pending'[t] = pending[t]
             /\ Hit(t) => /\ AckAt(1, t) /\ pending'[t] = None /\ job[t].todo # <<>>
                          /\ job'[t].todo = Tail(job[t].todo)
  <2>1. /\ job[t] \in JobType /\ pending[t] \in PendingType \cup {None} /\ TaskInv(t)
        /\ job[t].todo \in Seq(Commands)
    BY <1>1 DEF Inv, Types, JobType
  <2>2. CASE ~Hit(t)
    <3>1. job'[t] = job[t] /\ pending'[t] = pending[t]
      BY <1>1, <2>2
    <3> QED BY <1>1, <2>1, <2>2, <3>1 DEF TaskInv, IsIdle, Running, Waiting
  <2>3. CASE Hit(t)
    <3>1. /\ pending'[t] = None /\ job'[t] = [job[t] EXCEPT !.todo = Tail(job[t].todo)]
          /\ Waiting(t) /\ Running(t) /\ job[t].todo # <<>>
      BY <1>1, <2>1, <2>3 DEF Hit, TaskInv
    <3>2. /\ Tail(job[t].todo) \in Seq(Commands)
          /\ Elems(Tail(job[t].todo)) \subseteq Elems(job[t].todo)
      BY <2>1, <3>1, ElemsOfTail
    <3>3. /\ job'[t] \in JobType /\ job'[t].phase = job[t].phase
          /\ job'[t].todo = Tail(job[t].todo)
      BY <2>1, <3>1, <3>2 DEF JobType
    <3>4. t \in Syncers => IsRest(job'[t].todo)
      BY <2>1, <3>1, <3>3, RestOfSync DEF TaskInv
    <3>5. TaskInv(t)'
      BY <1>1, <2>1, <3>1, <3>2, <3>3, <3>4 DEF TaskInv, IsIdle, Running, Waiting
    <3>6. AckAt(1, t)
      BY <1>1, <1>2, <2>3 DEF AckAt, Hit
    <3> QED BY <2>3, <3>1, <3>3, <3>5, <3>6
  <2> QED BY <2>2, <2>3
<1>4. job' \in [Tasks -> JobType] /\ pending' \in [Tasks -> PendingType \cup {None}]
  BY <1>1, <1>3
<1> QED BY <1>2, <1>3, <1>4

LEMMA ResponseSnapshot ==
    ASSUME Inv, OnResponse
    PROVE  Snapshot'
<1>1. Snapshot /\ panel' = panel /\ Answers /\ 1 \in DOMAIN toOpi /\ Total \in Nat
  BY ResponseTasks, SyncFramesAre DEF Inv, OnResponse
<1> SUFFICES ASSUME NEW t \in Syncers, Running(t)', job'[t].todo # <<>>,
                    Len(job'[t].todo) < Total, panel.open # None
             PROVE  panel.open.owner = t /\ Done(t)' \subseteq panel.open.got
  BY <1>1 DEF Snapshot, SnapshotsAreWhole
<1>2. t \in Tasks /\ Running(t) /\ job[t].todo \in Seq(Commands) /\ TaskInv(t)
  BY NoSyncers, ResponseTasks DEF Inv, Types, JobType, Running
<1>3. CASE ~Hit(t)
  <2>1. job'[t] = job[t]
    BY <1>2, <1>3, ResponseTasks
  <2> QED BY <1>1, <1>2, <2>1 DEF Snapshot, Done
<1>4. CASE Hit(t)
  <2> DEFINE s == job[t].todo
  <2>1. AckAt(1, t) /\ s # <<>> /\ job'[t].todo = Tail(s) /\ Waiting(t)
    BY <1>2, <1>4, ResponseTasks DEF Hit
  <2>2. panel.open.owner = t /\ pending[t].frame.cmd \in panel.open.got
    BY <1>1, <1>2, <2>1 DEF Answers, Collected
  <2>3. pending[t].frame.cmd = Head(s) /\ IsRest(s)
    BY <1>2, <2>1 DEF TaskInv
  <2>4. /\ Len(Tail(s)) = Len(s) - 1 /\ Len(s) \in 1..Total
        /\ Head(s) = SyncFrames[Total - Len(s) + 1]
    BY <1>2, <2>1, <2>3, RestOfSync
  <2>5. Done(t) \subseteq panel.open.got
    <3>1. CASE Len(s) < Total
      BY <1>1, <1>2, <2>1, <3>1 DEF Snapshot
    <3>2. CASE Len(s) = Total
      <4>1. 1..(Total - Len(s)) = {}
        BY <1>1, <3>2
      <4> QED BY <4>1 DEF Done
    <3> QED BY <1>1, <2>4, <3>1, <3>2
  <2>6. Done(t)' \subseteq Done(t) \cup {Head(s)}
    <3>1. Done(t)' = {SyncFrames[i] : i \in 1..(Total - (Len(s) - 1))}
      BY <2>1, <2>4 DEF Done
    <3>2. \A i \in 1..(Total - (Len(s) - 1)) : i = Total - Len(s) + 1 \/ i \in 1..(Total - Len(s))
      BY <1>1, <2>4
    <3> QED BY <2>4, <3>1, <3>2 DEF Done
  <2> QED BY <2>2, <2>3, <2>5, <2>6
<1> QED BY <1>3, <1>4

LEMMA ResponseCore ==
    ASSUME Inv, OnResponse
    PROVE  Core'
<1>1. /\ Core /\ Answers /\ Types /\ UNCHANGED <<panel, session, state, gaveUp>>
      /\ 1 \in DOMAIN toOpi /\ state.rev \in Nat
  BY ResponseTasks DEF Inv, OnResponse, IInv, StateOf
<1> SUFFICES ASSUME panel.boot # None, session = panel.boot, NEW c \in Elems(CoreFrames),
                    NEW t \in Tasks, Owes(t, c)
             PROVE  panel.core[c] = state.rev \/ Owes(t, c)'
  BY <1>1 DEF Core
<1>2. CASE ~Hit(t)
  BY <1>2, ResponseTasks, <1>1 DEF Owes, Waiting
<1>3. CASE Hit(t)
  <2>1. /\ AckAt(1, t) /\ pending'[t] = None /\ job'[t].todo = Tail(job[t].todo) /\ Waiting(t)
    BY <1>3, ResponseTasks DEF Hit
  <2>2. CASE c \in Elems(Tail(job[t].todo))
    BY <2>1, <2>2 DEF Owes, Waiting
  <2>3. CASE c = pending[t].frame.cmd /\ pending[t].frame.rev = state.rev
    <3>1. Shows(t)
      BY <1>1, <2>1 DEF Answers, OfThisBoot
    <3>2. panel.core[c] >= state.rev
      BY <2>3, <3>1 DEF Shows
    <3>3. panel.core[c] <= state.rev /\ panel.core[c] \in Int
      BY <1>1 DEF Core, Types, PanelType
    <3> QED BY <1>1, <3>2, <3>3
  <2> QED BY <2>1, <2>2, <2>3 DEF Owes
<1> QED BY <1>2, <1>3

LEMMA ResponseInv ==
    ASSUME Inv, OnResponse, IInv'
    PROVE  Inv'
<1>1. /\ UNCHANGED <<connected, gwOnline, session, state, holder, panel, gaveUp>>
      /\ toOpi # <<>> /\ toOpi' = Tail(toOpi) /\ Types
  BY DEF Inv, OnResponse, Receive
<1>2. \A t \in Tasks : IsIdle(t)' = IsIdle(t)
  BY ResponseTasks DEF IsIdle
<1>3. Pops /\ SessionStep
  BY <1>1 DEF Pops, SessionStep
<1>4. Types'
  BY <1>1, <1>3, PopsShift, ResponseTasks DEF Types
<1>5. Spared'
  BY <1>1, <1>2 DEF Inv, Spared, Busy, Tasks, Coroutines
<1>6. Booted'
  BY <1>1, <1>2, <1>3, PopBooted DEF Tasks
<1>7. Answers'
  BY <1>1, <1>3, ResponseTasks, PopAnswers
<1>8. \A t \in Tasks : TaskInv(t)'
  BY ResponseTasks
<1> QED BY <1>4, <1>5, <1>6, <1>7, <1>8, ResponseSnapshot, ResponseCore DEF Inv

-----------------------------------------------------------------------------
(* The panel's own steps.                                                   *)

LEMMA BootInv ==
    ASSUME Inv, NEW b \in Boots, PanelBoot(b), IInv'
    PROVE  Inv'
<1>1. /\ UNCHANGED <<connected, gwOnline, session, state, job, pending, holder, toOpi, gaveUp>>
      /\ b \notin panel.used
      /\ panel' = [boot |-> b, used |-> panel.used \cup {b},
                   core |-> [c \in Elems(CoreFrames) |-> -1],
                   open |-> None, commit |-> "none"]
  BY DEF PanelBoot
<1>2. /\ panel'.boot = b /\ panel'.used = panel.used \cup {b} /\ panel'.open = None
      /\ panel'.commit = "none" /\ \A c \in Elems(CoreFrames) : panel'.core[c] = -1
  BY <1>1
<1>3. panel' \in PanelType
  <2>1. panel.used \in SUBSET Boots
    BY DEF Inv, Types, PanelType
  <2> QED BY <1>1, <2>1 DEF PanelType
<1>4. Types'
  BY <1>1, <1>3 DEF Inv, Types
<1>5. \A t \in Tasks : TaskInv(t)'
  BY <1>1 DEF Inv, TaskInv, IsIdle, Running, Waiting
<1>6. Spared'
  BY <1>1 DEF Inv, Spared, Busy, IsIdle
<1>7. /\ Booted /\ b # None /\ session # b
      /\ \A i \in DOMAIN toOpi : HelloAt(i) => toOpi[i].boot # b
  BY <1>1, NamesAssumption DEF Inv, Booted, Tasks
<1>8. Booted'
  <2>1. IsIdle(b)
    BY <1>1, <1>7 DEF Booted
  <2>2. /\ session # None => session \in panel'.used
        /\ \A a \in Boots : ~IsIdle(a) => a \in panel'.used
        /\ \A i, j \in DOMAIN toOpi : HelloAt(i) /\ HelloAt(j) => i = j
    BY <1>2, <1>7 DEF Booted
  <2>3. ASSUME NEW i \in DOMAIN toOpi, HelloAt(i)
        PROVE  /\ toOpi[i].boot \in panel'.used
               /\ toOpi[i].boot # session => IsIdle(toOpi[i].boot)
    BY <1>2, <1>7, <2>3 DEF Booted
  <2> QED BY <1>1, <1>2, <1>7, <2>1, <2>2, <2>3 DEF Booted, IsIdle, HelloAt
<1>9. Answers'
  <2>1. \A i \in DOMAIN toOpi : ~OfThisBoot(i)'
    BY <1>1, <1>2, <1>7 DEF OfThisBoot, HelloAt
  <2> QED BY <1>1, <1>2, <2>1 DEF Inv, Answers, AckAt, Waiting, Collected
<1>10. Snapshot'
  BY <1>1, <1>2 DEF Snapshot, SnapshotsAreWhole
<1>11. Core'
  <2>1. state.rev \in Nat
    BY DEF Inv, IInv, StateOf
  <2>2. \A c \in Elems(CoreFrames) : panel'.core[c] <= state'.rev
    BY <1>1, <1>2, <2>1
  <2> QED BY <1>1, <1>2, <1>7, <2>2 DEF Core
<1> QED BY <1>4, <1>5, <1>6, <1>8, <1>9, <1>10, <1>11 DEF Inv

LEMMA MessageInv ==
    ASSUME Inv, NEW m \in Messages, PanelSends(m), m.kind # "ack",
           m.kind = "hello" => m.boot = panel.boot, IInv'
    PROVE  Inv'
<1>1. /\ UNCHANGED <<connected, gwOnline, session, state, job, pending, holder, panel, gaveUp>>
      /\ Len(toOpi) < MaxWire /\ toOpi' = Append(toOpi, m) /\ Types /\ panel.boot # None
      /\ \A x \in Elems(toOpi) : x.kind # m.kind
  BY DEF PanelSends, Inv
<1>2. /\ toOpi' \in Seq(Messages) /\ Len(toOpi') <= MaxWire
      /\ \A i \in DOMAIN toOpi' :
           \/ i \in DOMAIN toOpi /\ toOpi'[i] = toOpi[i]
           \/ i = Len(toOpi) + 1 /\ toOpi'[i] = m
      /\ \A i \in DOMAIN toOpi, k \in DOMAIN toOpi' :
           k < i => k \in DOMAIN toOpi /\ toOpi'[k] = toOpi[k]
  BY <1>1, Appended
<1>3. Types'
  BY <1>1, <1>2 DEF Types
<1>4. \A t \in Tasks : TaskInv(t)'
  BY <1>1 DEF Inv, TaskInv, IsIdle, Running, Waiting
<1>5. Spared'
  BY <1>1 DEF Inv, Spared, Busy, IsIdle
<1>6. Booted'
  <2>1. Booted /\ panel.boot \in Boots
    BY <1>1 DEF Inv, Types, PanelType
  <2>2. ASSUME m.kind = "hello" PROVE \A i \in DOMAIN toOpi : ~HelloAt(i)
    BY <1>1, <2>2 DEF HelloAt, Elems
  <2>3. \A i, j \in DOMAIN toOpi' : HelloAt(i)' /\ HelloAt(j)' => i = j
    BY <1>2, <2>1, <2>2 DEF Booted, HelloAt
  <2>4. ASSUME NEW i \in DOMAIN toOpi', HelloAt(i)'
        PROVE  /\ toOpi'[i].boot \in panel.used
               /\ toOpi'[i].boot # session => IsIdle(toOpi'[i].boot)
               /\ toOpi'[i].boot # panel.boot => session # panel.boot
    <3>1. CASE i \in DOMAIN toOpi /\ toOpi'[i] = toOpi[i]
      BY <2>1, <2>4, <3>1 DEF Booted, HelloAt
    <3>2. CASE toOpi'[i] = m
      <4>1. toOpi'[i].boot = panel.boot
        BY <2>4, <3>2 DEF HelloAt
      <4> QED BY <1>1, <2>1, <4>1 DEF Booted
    <3> QED BY <1>2, <3>1, <3>2
  <2> QED BY <1>1, <2>1, <2>3, <2>4 DEF Booted, IsIdle
<1>7. Answers'
  <2>1. ASSUME NEW i \in DOMAIN toOpi', NEW t \in Tasks, AckAt(i, t)'
        PROVE  /\ t \in Syncers => Collected(t)
               /\ panel.boot # None /\ OfThisBoot(i)' => Shows(t)
    <3>1. i \in DOMAIN toOpi /\ AckAt(i, t)
      BY <1>1, <1>2, <2>1 DEF AckAt, Waiting
    <3>2. OfThisBoot(i)' => OfThisBoot(i)
      BY <1>1, <1>2, <3>1 DEF OfThisBoot, HelloAt
    <3> QED BY <3>1, <3>2 DEF Inv, Answers
  <2>2. \A t, u \in Tasks :
           Waiting(t)' /\ Waiting(u)' /\ pending'[t].frame.seq = pending'[u].frame.seq => t = u
    BY <1>1 DEF Inv, Answers, Waiting
  <2> QED BY <1>1, <2>1, <2>2 DEF Answers, Collected, Shows
<1>8. Snapshot'
  BY <1>1 DEF Inv, Snapshot, SnapshotsAreWhole, Running, Done
<1>9. Core'
  BY <1>1 DEF Inv, Core, Owes, Waiting
<1> QED BY <1>3, <1>4, <1>5, <1>6, <1>7, <1>8, <1>9 DEF Inv

LEMMA PanelInv ==
    ASSUME Inv, Panel, IInv'
    PROVE  Inv'
<1>1. ASSUME NEW b \in Boots, PanelBoot(b) PROVE Inv'
  BY <1>1, BootInv
<1>2. CASE PanelHello
  <2> DEFINE m == [kind |-> "hello", boot |-> panel.boot]
  <2>1. PanelSends(m) /\ panel.boot \in Boots
    BY <1>2 DEF PanelHello, PanelSends, Inv, Types, PanelType
  <2>2. m \in Messages /\ m.kind # "ack" /\ m.boot = panel.boot
    BY <2>1 DEF Messages
  <2> HIDE DEF m
  <2> QED BY <2>1, <2>2, MessageInv
<1>3. ASSUME NEW op \in UiOps, PanelUi(op) PROVE Inv'
  <2> DEFINE m == [kind |-> "ui", op |-> op]
  <2>1. PanelSends(m)
    BY <1>3 DEF PanelUi
  <2>2. m \in Messages /\ m.kind # "ack" /\ m.kind # "hello"
    BY DEF Messages
  <2> HIDE DEF m
  <2> QED BY <2>1, <2>2, MessageInv
<1> QED BY <1>1, <1>2, <1>3 DEF Panel

-----------------------------------------------------------------------------
(* Every step keeps the invariant.                                          *)

LEMMA StepInv == Inv /\ [Next]_vars => Inv'
<1> SUFFICES ASSUME Inv, [Next]_vars PROVE Inv'
  OBVIOUS
<1>0. IInv' /\ state'.rev \in {state.rev, state.rev + 1}
  BY NextIsLinkStep, LinkStepIInv DEF Inv
\* A step that is local to its tasks and leaves session and wire alone.
<1>1. ASSUME LocalStep, UNCHANGED <<session, panel>>, toOpi' = toOpi PROVE Inv'
  BY <1>0, <1>1, LocalInv DEF Pops, SessionStep
<1>2. ASSUME UNCHANGED vars PROVE Inv'
  BY <1>1, <1>2, NothingLocal DEF vars, wires
<1>3. ASSUME NEW t \in Tasks, TaskStep(t) PROVE Inv'
  <2>1. CASE Acquire(t)
    BY <1>1, <2>1, AcquireLocal DEF Acquire, wires
  <2>2. CASE Send(t)
    BY <1>0, <2>2, SendTransmits, TransmitInv
  <2>3. CASE SendRefused(t)
    <3>1. Running(t) /\ Raise(t)
      BY <2>3 DEF SendRefused, Sending
    <3> QED BY <1>1, <3>1, RaiseLocal DEF Raise, Abort, wires
  <2>4. CASE Retry(t)
    BY <1>0, <2>4, RetryTransmits, TransmitInv
  <2>5. CASE GiveUp(t)
    <3>1. Running(t) /\ Raise(t)
      BY <2>5 DEF GiveUp, Expired, Inv, TaskInv, Waiting
    <3> QED BY <1>1, <3>1, RaiseLocal DEF Raise, Abort, wires
  <2>6. CASE Finish(t)
    BY <1>1, <2>6, FinishLocal DEF Finish, wires
  <2> QED BY <1>3, <2>1, <2>2, <2>3, <2>4, <2>5, <2>6 DEF TaskStep, Proceed
<1>4. CASE Reader
  <2>1. CASE OnResponse
    BY <1>0, <2>1, ResponseInv
  <2>2. CASE OnHello
    <3>1. LocalStep /\ SessionStep /\ (Refreshes \/ session' = session)
      BY <2>2, OnHelloLocal DEF SessionStep
    <3>2. panel' = panel /\ Pops
      BY <2>2 DEF OnHello, Receive, Pops
    <3> QED BY <1>0, <3>1, <3>2, LocalInv
  <2>3. CASE OnUiAction
    <3>1. session' = session /\ panel' = panel /\ Pops
      BY <2>3 DEF OnUiAction, Receive, Pops
    <3> QED BY <1>0, <2>3, <3>1, OnUiActionLocal, LocalInv DEF SessionStep
  <2>4. CASE ReadError
    <3>1. session' = session /\ panel' = panel /\ Pops
      BY <2>4 DEF ReadError, Pops
    <3> QED BY <1>0, <2>4, <3>1, ReadErrorLocal, LocalInv DEF SessionStep
  <2> QED BY <1>4, <2>1, <2>2, <2>3, <2>4 DEF Reader
<1>5. CASE HeartbeatLoop
  <2>1. CASE Heartbeat
    BY <1>1, <2>1, HeartbeatLocal DEF Heartbeat, wires
  <2>2. CASE HeartbeatOk
    BY <1>1, <2>2, HeartbeatOkLocal DEF HeartbeatOk, wires
  <2>3. CASE HeartbeatFailed
    BY <1>1, <2>3, HeartbeatFailedLocal DEF HeartbeatFailed, wires
  <2> QED BY <1>5, <2>1, <2>2, <2>3 DEF HeartbeatLoop
<1>6. CASE Connect
  BY <1>1, <1>6, ConnectLocal DEF Connect, wires
<1>7. CASE Evaluate
  BY <1>1, <1>7, EvaluateLocal DEF Evaluate, wires
<1>8. ASSUME NEW op \in MqttOps, MqttCommand(op) PROVE Inv'
  BY <1>1, <1>8, MqttCommandLocal DEF MqttCommand, wires
<1>9. CASE Panel
  BY <1>0, <1>9, PanelInv
<1>10. CASE Wait
  BY <1>2, <1>10 DEF Wait
<1> QED BY <1>2, <1>3, <1>4, <1>5, <1>6, <1>7, <1>8, <1>9, <1>10 DEF Next

LEMMA InitInv == Init => Inv
<1> SUFFICES ASSUME Init PROVE Inv
  OBVIOUS
<1>1. /\ connected = FALSE /\ session = None /\ holder = None /\ toOpi = <<>> /\ gaveUp = FALSE
      /\ state = [rev |-> 0, offline |-> FALSE, online |-> FALSE]
      /\ job = [t \in Tasks |-> IF t = "start" THEN AwaitSync ELSE Idle]
      /\ pending = [t \in Tasks |-> None]
      /\ panel = [boot |-> None, used |-> {}, core |-> [c \in Elems(CoreFrames) |-> -1],
                  open |-> None, commit |-> "none"]
  BY DEF Init
<1>2. /\ state.rev = 0 /\ state.offline = FALSE
      /\ panel.boot = None /\ panel.open = None /\ panel.commit = "none"
      /\ \A c \in Elems(CoreFrames) : panel.core[c] = -1
  BY <1>1
<1>3. ASSUME NEW t \in Tasks
      PROVE  job[t] = IF t = "start" THEN AwaitSync ELSE Idle
  BY <1>1
<1>4. \A t \in Tasks : ~Waiting(t) /\ ~Running(t)
  BY <1>1, <1>3, JobsAre DEF Waiting, Running
<1>5. \A t \in Tasks \ {"start"} : IsIdle(t) /\ job[t].todo = <<>>
  BY <1>3, JobsAre DEF IsIdle
<1>6. DOMAIN toOpi = {} /\ Len(toOpi) = 0 /\ toOpi \in Seq(Messages)
  BY <1>1, EmptySeq
<1>7. Types
  <2>1. job \in [Tasks -> JobType]
    BY <1>1, JobsAre
  <2>2. panel \in PanelType
    BY <1>1 DEF PanelType
  <2>3. pending \in [Tasks -> PendingType \cup {None}]
    BY <1>1
  <2>4. Len(toOpi) <= MaxWire
    BY <1>6, BoundsAssumption
  <2>5. connected \in BOOLEAN /\ gaveUp \in BOOLEAN
    BY <1>1
  <2>6. session \in Boots \cup {None} /\ holder \in Tasks \cup {None}
    BY <1>1
  <2> QED BY <1>6, <2>1, <2>2, <2>3, <2>4, <2>5, <2>6 DEF Types
<1>8. ASSUME NEW t \in Tasks PROVE TaskInv(t)
  <2>1. CASE t = "start"
    <3>1. job[t].phase = "lock" /\ job[t].todo = SyncFrames
      BY <1>3, <2>1, JobsAre
    <3>2. t \in Syncers /\ t \notin {"handshake", "heartbeat"} /\ t # "recover"
      BY <2>1 DEF Syncers
    <3> QED BY <1>4, <3>1, <3>2, WholeSync DEF TaskInv, IsIdle
  <2>2. CASE t # "start"
    <3>1. IsIdle(t) /\ job[t].todo = <<>> /\ Elems(<<>>) = {}
      BY <1>5, <2>2, JobsAre
    <3> QED BY <1>4, <3>1, WholeSync DEF TaskInv, IsIdle
  <2> QED BY <2>1, <2>2
<1>9. Spared
  <2>1. \A p \in Publishers : IsIdle(p)
    BY <1>5, NoSyncers DEF Tasks, Coroutines
  <2>2. Busy = {}
    BY <2>1 DEF Busy
  <2>3. Cardinality(Busy) = 0
    BY <2>2, FS_EmptySet
  <2>4. IsIdle("heartbeat")
    BY <1>5 DEF Tasks, Coroutines
  <2> QED BY <1>2, <2>3, <2>4, BoundsAssumption DEF Spared
<1>10. Booted
  <2>1. \A b \in Boots : IsIdle(b)
    BY <1>5, NoSyncers DEF Tasks, Coroutines
  <2>2. panel.boot \notin Boots
    BY <1>2, NamesAssumption DEF Tasks
  <2> QED BY <1>1, <1>2, <1>6, <2>1, <2>2 DEF Booted
<1>11. Answers
  BY <1>4, <1>6 DEF Answers
<1>12. Snapshot
  BY <1>2, <1>4, NoSyncers DEF Snapshot, SnapshotsAreWhole
<1>13. Core
  BY <1>2 DEF Core
<1> QED BY <1>7, <1>8, <1>9, <1>10, <1>11, <1>12, <1>13, InitIInv DEF Inv

\* The invariant of the tasks, the wire and the panel holds in every reachable
\* state of the gateway and the orchestrator.
THEOREM LinkInvariance == Spec => []Inv
BY InitInv, StepInv, PTL DEF Spec

\* The gateway, its senders and the panel stay well-formed: no revision beyond
\* the bound, however many edges a failing link adds.
THEOREM TypeCorrect == Spec => []TypeOK
<1>1. Inv => TypeOK
  <2> SUFFICES ASSUME Inv PROVE TypeOK
    OBVIOUS
  <2>1. state \in [rev: 0..MaxRev, offline: BOOLEAN, online: BOOLEAN]
    <3>1. state \in StateOf /\ state.rev \in Nat
      BY DEF Inv, IInv, StateOf
    <3>2. state.rev \in 0..MaxRev
      BY <3>1, BoundsAssumption DEF Inv, Spared
    <3> QED BY <3>1, <3>2 DEF StateOf
  <2>2. ASSUME NEW t \in Tasks
        PROVE  /\ job[t].phase \in {"idle", "lock", "run"}
               /\ Elems(job[t].todo) \subseteq Elems(SyncFrames) \cup {"HELLO", "HEARTBEAT"}
               /\ pending[t] # None => /\ pending[t].frame \in FrameOf
                                       /\ pending[t].tries \in 1..MaxTries
    <3>1. job[t] \in JobType /\ pending[t] \in PendingType \cup {None}
      BY DEF Inv, Types
    <3>2. Elems(job[t].todo) \subseteq Commands
      BY <3>1, ElemsAre DEF JobType
    <3> QED BY <3>1, <3>2 DEF JobType, PendingType, FrameType, FrameOf, Commands
  <2> QED BY <2>1, <2>2 DEF Inv, IInv, Types, TypeOK
<1> QED BY <1>1, LinkInvariance, PTL

\* T5 commits a snapshot only when it got every frame of that very sync since
\* its BEGIN: _full_sync holds the lock from BEGIN to END, no other sender has
\* frames between them, and send() goes on only when a frame is acknowledged.
THEOREM WholeSnapshots == Spec => []SnapshotsAreWhole
<1>1. Inv => SnapshotsAreWhole
  BY DEF Inv, Snapshot
<1> QED BY <1>1, LinkInvariance, PTL

\* When nothing is under way and nothing was given up since the last publish
\* or sync began, T5 shows the present revision in every core frame, whatever
\* was lost, late, retried or sent twice, and however senders interleaved.
THEOREM CurrentPanel == Spec => []PanelIsCurrent
<1>1. Inv => PanelIsCurrent
  <2> SUFFICES ASSUME Inv, Quiet, ~gaveUp, NEW c \in Elems(CoreFrames)
               PROVE  panel.core[c] = state.rev
    BY DEF PanelIsCurrent
  <2>1. ASSUME NEW t \in Tasks PROVE ~Owes(t, c)
    <3>1. ~Waiting(t) /\ job[t].todo = <<>>
      BY IdleTask DEF Inv, Quiet
    <3> QED BY <3>1, JobsAre DEF Owes
  <2> QED BY <2>1 DEF Inv, Core, Quiet
<1> QED BY <1>1, LinkInvariance, PTL

\* What send() reports to its caller is true, although an answer is known by its sequence
\* number only: when it returns, the panel the session is with shows that core frame, or a
\* newer one, and the snapshot it receives, if any, is the caller's with that frame in it.
\* (An answer from before a reboot still counts until the new boot's HELLO is handled.)
SuccessIsReceipt ==
    [][\A t \in Tasks :
          OnResponse /\ Waiting(t) /\ ~Waiting(t)' =>
            /\ panel.boot # None /\ session = panel.boot => Shows(t)
            /\ t \in Syncers => Collected(t)]_vars

\* Whatever was lost, late or retried, a send ends with an answer only for its own frame:
\* the acknowledgement that ends it stands for one the panel has.
THEOREM SuccessIsAlwaysReceipt == Spec => SuccessIsReceipt
<1>1. ASSUME Inv, NEW t \in Tasks, OnResponse, Waiting(t), ~Waiting(t)'
      PROVE  /\ panel.boot # None /\ session = panel.boot => Shows(t)
             /\ t \in Syncers => Collected(t)
  <2>1. toOpi \in Seq(Messages) /\ toOpi # <<>> /\ Head(toOpi).kind = "ack"
    BY <1>1 DEF OnResponse, Receive, Inv, Types
  <2>2. 1 \in DOMAIN toOpi /\ Head(toOpi) = toOpi[1]
    BY <2>1, EmptySeq, LenProperties
  <2>3. pending[t].frame.seq = Head(toOpi).seq
    BY <1>1 DEF OnResponse, Waiting
  <2>4. AckAt(1, t)
    BY <1>1, <2>1, <2>2, <2>3 DEF AckAt
  <2> QED BY <1>1, <2>2, <2>4 DEF Inv, Answers, OfThisBoot
<1>2. Inv /\ [Next]_vars =>
        [\A t \in Tasks :
          OnResponse /\ Waiting(t) /\ ~Waiting(t)' =>
            /\ panel.boot # None /\ session = panel.boot => Shows(t)
            /\ t \in Syncers => Collected(t)]_vars
  BY <1>1
<1> QED BY <1>2, LinkInvariance, PTL DEF Spec, SuccessIsReceipt

=============================================================================
