------------------------- MODULE UartSessionProofs -------------------------
(* Proofs about UartSession, for any boots and payloads, any size of the    *)
(* cache and any range of sequence numbers.                                 *)
EXTENDS UartSession, SequenceTheorems, TLAPS

-----------------------------------------------------------------------------
(* Sequences.                                                               *)

LEMMA ElemsOfAppend ==
    ASSUME NEW S, NEW s \in Seq(S), NEW e \in S
    PROVE  Elems(Append(s, e)) = Elems(s) \cup {e}
<1>1. /\ Append(s, e) \in Seq(S) /\ Len(Append(s, e)) = Len(s) + 1
      /\ \A i \in 1..Len(s) : Append(s, e)[i] = s[i]
      /\ Append(s, e)[Len(s) + 1] = e
  BY AppendProperties
<1>2. DOMAIN Append(s, e) = 1..(Len(s) + 1) /\ DOMAIN s = 1..Len(s) /\ Len(s) \in Nat
  BY <1>1, LenProperties
<1>3. 1..(Len(s) + 1) = (1..Len(s)) \cup {Len(s) + 1}
  BY <1>2
<1> QED BY <1>1, <1>2, <1>3 DEF Elems

LEMMA ElemsOfTail ==
    ASSUME NEW S, NEW s \in Seq(S), s # <<>>
    PROVE  Elems(Tail(s)) \subseteq Elems(s)
<1>1. /\ Tail(s) \in Seq(S) /\ Len(Tail(s)) = Len(s) - 1
      /\ \A i \in 1..Len(Tail(s)) : Tail(s)[i] = s[i + 1]
  BY HeadTailProperties
<1>2. /\ DOMAIN Tail(s) = 1..Len(Tail(s)) /\ DOMAIN s = 1..Len(s)
      /\ Len(s) \in Nat /\ Len(Tail(s)) \in Nat
  BY <1>1, LenProperties
<1>3. \A i \in 1..Len(Tail(s)) : i + 1 \in DOMAIN s
  BY <1>1, <1>2
<1> QED BY <1>1, <1>2, <1>3 DEF Elems

LEMMA ElemsTyped ==
    ASSUME NEW S, NEW s \in Seq(S)
    PROVE  Elems(s) \subseteq S
BY LenProperties, ElementOfSeq DEF Elems

LEMMA ElemsOfEmpty == Elems(<<>>) = {}
BY DEF Elems

-----------------------------------------------------------------------------
(* Type correctness.                                                        *)

\* Every action on the wire can still be executed within the bound.
Affordable == \A i \in 1..Len(wire) : wire[i].kind = "ui" => effects + i <= MaxEffects

Typed ==
    /\ TypeOK
    /\ wire \in Seq(Frames) /\ cache \in Seq(EntryOf) /\ log \in Seq(Actions)
    /\ busy # None => effects >= 1 /\ session # None
    /\ panel.greeted => panel.boot # None
    /\ Affordable

LEMMA SeqOfTyped == \A n \in 1..MaxFrames : SeqOf(n) \in 1..SeqMax
<1>1. \A n \in 1..MaxFrames : n - 1 \in Nat
  BY BoundsAssumption
<1>2. \A k \in Nat : k % SeqMax \in 0..(SeqMax - 1)
  BY SizesAssumption
<1> QED BY <1>1, <1>2, SizesAssumption DEF SeqOf

LEMMA KeyTyped ==
    ASSUME session \in Boots, NEW a \in Actions
    PROVE  Key(a) \in [boot: Boots, seq: 1..SeqMax]
BY SeqOfTyped DEF Key, Actions

\* The frame that is taken off the wire.
LEMMA Received ==
    ASSUME Typed, NEW kind, Receive(kind)
    PROVE  /\ Head(wire) \in Frames /\ Head(wire).kind = kind
           /\ Head(wire) = wire[1] /\ 1 \in 1..Len(wire)
           /\ wire' \in Seq(Frames) /\ Len(wire') = Len(wire) - 1
           /\ \A i \in 1..Len(wire') : i + 1 \in 1..Len(wire) /\ wire'[i] = wire[i + 1]
<1>1. wire \in Seq(Frames) /\ wire # <<>> /\ wire' = Tail(wire) /\ Head(wire).kind = kind
  BY DEF Typed, Receive
<1>2. /\ Head(wire) \in Frames /\ wire' \in Seq(Frames) /\ Len(wire') = Len(wire) - 1
      /\ \A i \in 1..Len(wire') : wire'[i] = wire[i + 1]
  BY <1>1, HeadTailProperties
<1>3. Head(wire) = wire[1]
  BY <1>1
<1>4. Len(wire) \in Nat /\ Len(wire') \in Nat
  BY <1>1, <1>2, LenProperties
<1>5. Len(wire) # 0
  BY <1>1, EmptySeq
<1> QED BY <1>1, <1>2, <1>3, <1>4, <1>5

LEMMA Sent ==
    ASSUME Typed, NEW f \in Frames, wire' = Append(wire, f)
    PROVE  /\ wire' \in Seq(Frames) /\ Len(wire') = Len(wire) + 1 /\ Len(wire) \in Nat
           /\ \A i \in 1..Len(wire) : wire'[i] = wire[i]
           /\ wire'[Len(wire) + 1] = f
BY AppendProperties, LenProperties DEF Typed

\* All of new but its last element is the end of old.
Shifted(old, new) ==
    \A i \in 1..(Len(new) - 1) :
        \E j \in 1..Len(old) : j = i + Len(old) + 1 - Len(new) /\ new[i] = old[j]

\* Recording moves the entries that stay to the front of the new one.
LEMMA Recorded ==
    ASSUME Typed, NEW o \in Outcomes, NEW a \in Actions, session \in Boots,
           NEW e, e = [key |-> Key(a), digest |-> a.payload, action |-> a, outcome |-> o],
           NEW c, c = Record(a, o)
    PROVE  /\ e \in EntryOf /\ c \in Seq(EntryOf)
           /\ Len(c) = (IF Len(cache) >= CacheSize THEN CacheSize ELSE Len(cache) + 1)
           /\ Len(c) \in Nat /\ Len(cache) \in Nat
           /\ c[Len(c)] = e
           /\ Shifted(cache, c)
           /\ Elems(c) \subseteq Elems(cache) \cup {e}
<1> DEFINE k == Evict(cache)
<1>1. c = Append(k, e)
  BY DEF Record
<1>2. e \in EntryOf
  BY KeyTyped DEF EntryOf, Actions
<1>3. cache \in Seq(EntryOf) /\ Len(cache) \in Nat /\ Len(cache) <= CacheSize
  BY LenProperties DEF Typed, TypeOK
<1>4. /\ k \in Seq(EntryOf) /\ Len(k) \in Nat
      /\ Len(k) = (IF Len(cache) >= CacheSize THEN CacheSize - 1 ELSE Len(cache))
      /\ \A i \in 1..Len(k) : /\ i + Len(cache) - Len(k) \in 1..Len(cache)
                              /\ k[i] = cache[i + Len(cache) - Len(k)]
      /\ Elems(k) \subseteq Elems(cache)
  <2>1. CASE Len(cache) >= CacheSize
    <3>1. cache # <<>> /\ k = Tail(cache)
      BY <1>3, <2>1, SizesAssumption DEF Evict
    <3>2. /\ k \in Seq(EntryOf) /\ Len(k) = Len(cache) - 1
          /\ \A i \in 1..Len(k) : k[i] = cache[i + 1]
      BY <1>3, <3>1, HeadTailProperties
    <3>3. Elems(k) \subseteq Elems(cache)
      BY <1>3, <3>1, ElemsOfTail
    <3>4. Len(k) \in Nat
      BY <3>2, LenProperties
    <3> HIDE DEF k
    <3> QED BY <1>3, <2>1, <3>2, <3>3, <3>4, SizesAssumption
  <2>2. CASE ~(Len(cache) >= CacheSize)
    <3>1. k = cache
      BY <2>2 DEF Evict
    <3> QED BY <1>3, <2>2, <3>1
  <2> QED BY <2>1, <2>2
<1> HIDE DEF k
<1>5. /\ c \in Seq(EntryOf) /\ Len(c) = Len(k) + 1
      /\ \A i \in 1..Len(k) : c[i] = k[i]
      /\ c[Len(k) + 1] = e
  BY <1>1, <1>2, <1>4, AppendProperties
<1>6. Elems(c) = Elems(k) \cup {e}
  BY <1>1, <1>2, <1>4, ElemsOfAppend
<1>7. Shifted(cache, c)
  <2> SUFFICES ASSUME NEW i \in 1..(Len(c) - 1), NEW j, j = i + Len(cache) + 1 - Len(c)
               PROVE  j \in 1..Len(cache) /\ c[i] = cache[j]
    BY DEF Shifted
  <2>1. i \in 1..Len(k) /\ j = i + Len(cache) - Len(k)
    BY <1>3, <1>4, <1>5
  <2> QED BY <1>4, <1>5, <2>1
<1>8. Len(c) = (IF Len(cache) >= CacheSize THEN CacheSize ELSE Len(cache) + 1)
  BY <1>3, <1>4, <1>5, SizesAssumption
<1>9. Len(c) \in Nat
  BY <1>4, <1>5
<1> QED BY <1>2, <1>3, <1>4, <1>5, <1>6, <1>7, <1>8, <1>9

LEMMA InitTyped == Init => Typed
<1> SUFFICES ASSUME Init PROVE Typed
  OBVIOUS
<1>1. Len(wire) = 0 /\ Len(cache) = 0
  BY DEF Init
<1>2. Elems(wire) = {} /\ Elems(cache) = {}
  BY ElemsOfEmpty DEF Init
<1> QED BY <1>1, <1>2, BoundsAssumption, SizesAssumption DEF Init, Typed, TypeOK, Affordable

PanelType == [boot: Boots \cup {None}, used: SUBSET Boots, greeted: BOOLEAN,
              count: 0..MaxFrames, sent: SUBSET Actions]

LEMMA SendingTyped ==
    ASSUME Typed, NEW f \in Frames, wire' = Append(wire, f),
           f.kind = "ui" => effects + Len(wire) < MaxEffects,
           UNCHANGED <<gateway, restarts, history>>,
           panel' \in PanelType,
           panel'.boot = panel.boot, panel'.greeted = panel.greeted
    PROVE  Typed'
<1>1. /\ wire' \in Seq(Frames) /\ Len(wire') = Len(wire) + 1 /\ Len(wire) \in Nat
      /\ \A i \in 1..Len(wire) : wire'[i] = wire[i]
      /\ wire'[Len(wire) + 1] = f
  BY Sent
<1>2. Elems(wire') \subseteq Frames
  BY <1>1, ElemsTyped
<1>3. Affordable'
  BY <1>1, BoundsAssumption DEF Affordable, Typed, TypeOK, gateway
<1> QED BY <1>1, <1>2, <1>3 DEF Typed, TypeOK, PanelType, gateway, history

LEMMA ReceivingTyped ==
    ASSUME Typed, NEW kind, Receive(kind)
    PROVE  /\ Elems(wire') \subseteq Frames
           /\ \A i \in 1..Len(wire') : wire'[i].kind = "ui" => effects + 1 + i <= MaxEffects
           /\ kind = "ui" => effects + 1 <= MaxEffects
<1>1. /\ wire' \in Seq(Frames) /\ Head(wire) = wire[1] /\ 1 \in 1..Len(wire)
      /\ Head(wire).kind = kind
      /\ \A i \in 1..Len(wire') : i + 1 \in 1..Len(wire) /\ wire'[i] = wire[i + 1]
  BY Received
<1>2. effects \in Nat
  BY DEF Typed, TypeOK
<1>3. \A i \in 1..Len(wire) : wire[i].kind = "ui" => effects + i <= MaxEffects
  BY DEF Typed, Affordable
<1>4. Elems(wire') \subseteq Frames
  BY <1>1, ElemsTyped
<1>5. kind = "ui" => effects + 1 <= MaxEffects
  BY <1>1, <1>3
<1>6. ASSUME NEW i \in 1..Len(wire'), wire'[i].kind = "ui"
      PROVE  effects + 1 + i <= MaxEffects
  <2>1. effects + (i + 1) <= MaxEffects
    BY <1>1, <1>3, <1>6
  <2> QED BY <1>2, <2>1, BoundsAssumption
<1> QED BY <1>4, <1>5, <1>6

LEMMA NextTyped == Typed /\ [Next]_vars => Typed'
<1> SUFFICES ASSUME Typed, [Next]_vars PROVE Typed'
  OBVIOUS
<1>0. TypeOK
  BY DEF Typed
<1>p. panel \in PanelType
  BY <1>0 DEF TypeOK, PanelType
<1>e. <<>> \in Seq(Frames) /\ <<>> \in Seq(EntryOf) /\ <<>> \in Seq(Actions) /\ Len(<<>>) = 0
  BY EmptySeq
<1>1. ASSUME NEW b \in Boots, PanelBoot(b) PROVE Typed'
  BY <1>0, <1>1, BoundsAssumption DEF PanelBoot, gateway, history, Typed, TypeOK, Affordable
<1>2. CASE PanelHello
  <2>1. Hello(panel.boot) \in Frames /\ Hello(panel.boot).kind = "hello"
    BY <1>0, <1>2 DEF PanelHello, TypeOK, Frames, Hello
  <2>2. /\ UNCHANGED <<panel, gateway, restarts, history>>
        /\ wire' = Append(wire, Hello(panel.boot))
    BY <1>2 DEF PanelHello
  <2> QED BY <1>p, <2>1, <2>2, SendingTyped
<1>3. ASSUME NEW p \in Payloads, PanelActs(p) PROVE Typed'
  <2> DEFINE a == [boot |-> panel.boot, n |-> panel.count + 1, payload |-> p]
  <2>1. a \in Actions
    BY <1>0, <1>3, BoundsAssumption DEF PanelActs, Typed, TypeOK, Actions
  <2>2. Ui(a) \in Frames /\ effects + Len(wire) < MaxEffects
    BY <1>3, <2>1 DEF PanelActs, WireHasRoom, Frames
  <2>3. /\ panel' = [panel EXCEPT !.count = @ + 1, !.sent = @ \cup {a}]
        /\ wire' = Append(wire, Ui(a)) /\ panel.count < MaxFrames
    BY <1>3 DEF PanelActs
  <2>4. /\ panel' \in PanelType
        /\ panel'.boot = panel.boot /\ panel'.greeted = panel.greeted
    <3>1. panel.count + 1 \in 0..MaxFrames /\ panel.sent \cup {a} \subseteq Actions
      BY <1>p, <2>1, <2>3, BoundsAssumption DEF PanelType
    <3> HIDE DEF a
    <3> QED BY <1>p, <2>3, <3>1 DEF PanelType
  <2> QED BY <1>3, <2>2, <2>3, <2>4, SendingTyped DEF PanelActs
<1>4. CASE PanelCounts
  <2>1. panel.count + 1 \in 0..MaxFrames
    BY <1>p, <1>4, BoundsAssumption DEF PanelCounts, PanelType
  <2>2. /\ panel' \in PanelType
        /\ panel'.boot = panel.boot /\ panel'.greeted = panel.greeted
    BY <1>p, <1>4, <2>1 DEF PanelCounts, PanelType
  <2> QED BY <1>0, <1>4, <2>2
          DEF PanelCounts, gateway, history, Typed, TypeOK, PanelType, Affordable
<1>5. ASSUME NEW a \in Actions, PanelRepeats(a) PROVE Typed'
  <2>1. Ui(a) \in Frames /\ effects + Len(wire) < MaxEffects
    BY <1>5 DEF PanelRepeats, WireHasRoom, Frames
  <2>2. UNCHANGED <<panel, gateway, restarts, history>> /\ wire' = Append(wire, Ui(a))
    BY <1>5 DEF PanelRepeats
  <2> QED BY <1>p, <2>1, <2>2, SendingTyped
<1>6. CASE OnHello
  <2>1. Receive("hello")
    BY <1>6 DEF OnHello
  <2>2. /\ Head(wire) \in Frames /\ Head(wire).kind = "hello"
        /\ wire' \in Seq(Frames) /\ busy = None
    BY <2>1, Received DEF Receive
  <2>3. Head(wire).boot \in Boots
    BY <2>2 DEF Frames, Hello, Ui
  <2>4. /\ session' \in Boots \cup {None} /\ cache' \in Seq(EntryOf) /\ log' \in Seq(Actions)
        /\ Len(cache') <= CacheSize /\ Elems(cache') \subseteq EntryOf
    <3>1. CASE UNCHANGED <<session, cache, log>>
      BY <1>0, <3>1 DEF Typed, TypeOK
    <3>2. CASE session' = Head(wire).boot /\ cache' = <<>> /\ log' = <<>>
      BY <1>e, <2>3, <3>2, ElemsOfEmpty, SizesAssumption
    <3> QED BY <1>6, <3>1, <3>2 DEF OnHello, Reset
  <2>5. /\ panel' \in PanelType
        /\ panel'.greeted => panel'.boot # None
    <3>h. PICK heard \in BOOLEAN :
            panel' = [panel EXCEPT !.greeted = @ \/ (heard /\ Head(wire).boot = panel.boot)]
      BY <1>6 DEF OnHello
    <3>1. /\ panel'.boot = panel.boot
          /\ panel.greeted \in BOOLEAN /\ panel'.greeted \in BOOLEAN
          /\ panel'.greeted => (panel.greeted \/ Head(wire).boot = panel.boot)
      BY <1>p, <3>h DEF PanelType
    <3>2. panel' \in PanelType
      BY <1>p, <3>h DEF PanelType
    <3> QED BY <2>3, <3>1, <3>2, NoneAssumption DEF Typed
  <2>6. Affordable' /\ Elems(wire') \subseteq Frames
    <3>1. effects' = effects /\ effects \in Nat
      BY <1>0, <1>6 DEF OnHello, TypeOK
    <3>2. Len(wire') \in Nat
      BY <2>2, LenProperties
    <3> QED BY <2>1, <3>1, <3>2, ReceivingTyped, BoundsAssumption DEF Affordable
  <2> QED BY <1>0, <1>6, <2>2, <2>4, <2>5, <2>6
          DEF OnHello, Typed, TypeOK, PanelType
<1>7. CASE OnUiAction
  <2>1. Receive("ui")
    BY <1>7 DEF OnUiAction
  <2>2. /\ Head(wire) \in Frames /\ Head(wire).kind = "ui"
        /\ wire' \in Seq(Frames) /\ busy = None
    BY <2>1, Received DEF Receive
  <2> DEFINE a == Head(wire).action
  <2>3. a \in Actions
    BY <2>2 DEF Frames, Hello, Ui
  <2>4. NotReady(a) \/ Replay(a) \/ Conflict(a) \/ Execute(a)
    BY <1>7 DEF OnUiAction
  <2>5. /\ busy' \in Actions \cup {None} /\ effects' \in {effects, effects + 1}
        /\ busy' # None => effects' = effects + 1 /\ session # None
    BY <2>2, <2>3, <2>4 DEF NotReady, Replay, Conflict, Execute
  <2>6. answers' \subseteq [request: Actions, outcome: Outcomes]
    <3>1. ASSUME Replay(a) PROVE answers' \subseteq [request: Actions, outcome: Outcomes]
      <4>1. PICK i \in Hits(a) : Tell(a, cache[i].outcome)
        BY <3>1 DEF Replay
      <4>2. cache[i].outcome \in Outcomes
        <5>1. cache \in Seq(EntryOf) /\ i \in DOMAIN cache
          BY DEF Hits, Typed
        <5>2. cache[i] \in EntryOf
          BY <5>1, LenProperties, ElementOfSeq
        <5> QED BY <5>2 DEF EntryOf
      <4> QED BY <1>0, <2>3, <4>1, <4>2 DEF Tell, TypeOK
    <3> QED BY <1>0, <2>4, <3>1 DEF NotReady, Conflict, Execute, TypeOK
  <2>7. Affordable' /\ Elems(wire') \subseteq Frames /\ effects + 1 <= MaxEffects
    <3>1. effects' \in Nat /\ effects' <= effects + 1 /\ effects \in Nat
      BY <1>0, <2>5 DEF TypeOK
    <3>2. Len(wire') \in Nat
      BY <2>2, LenProperties
    <3>3. ASSUME NEW i \in 1..Len(wire'), wire'[i].kind = "ui"
          PROVE  effects' + i <= MaxEffects
      <4>1. effects + 1 + i <= MaxEffects
        BY <2>1, <3>3, ReceivingTyped
      <4>2. i \in Nat
        BY <3>2
      <4>3. \A x, y, z, m \in Nat : y <= x + 1 /\ x + 1 + z <= m => y + z <= m
        OBVIOUS
      <4> QED BY <3>1, <4>1, <4>2, <4>3, BoundsAssumption
    <3> QED BY <2>1, <3>3, ReceivingTyped DEF Affordable
  <2>8. effects' \in 0..MaxEffects /\ (busy' # None => effects' >= 1 /\ session' # None)
    BY <1>0, <1>7, <2>5, <2>7, BoundsAssumption DEF OnUiAction, TypeOK
  <2> HIDE DEF a
  <2> QED BY <1>0, <1>7, <2>2, <2>5, <2>6, <2>7, <2>8 DEF OnUiAction, Typed, TypeOK
<1>8. CASE Answered
  <2>1. busy \in Actions /\ session \in Boots /\ effects \in Outcomes
    BY <1>0, <1>8, NoneAssumption, BoundsAssumption DEF Answered, Typed, TypeOK, Outcomes
  <2>2. cache' = Record(busy, effects)
    BY <1>8 DEF Answered
  <2>e. PICK e : e = [key |-> Key(busy), digest |-> busy.payload, action |-> busy,
                      outcome |-> effects]
    OBVIOUS
  <2>3. cache' \in Seq(EntryOf) /\ Len(cache') <= CacheSize
    <3>1. /\ cache' \in Seq(EntryOf)
          /\ Len(cache') = (IF Len(cache) >= CacheSize THEN CacheSize ELSE Len(cache) + 1)
          /\ Len(cache) \in Nat
      BY <2>1, <2>2, <2>e, Recorded
    <3> QED BY <3>1, SizesAssumption
  <2>4. Elems(cache') \subseteq EntryOf
    BY <2>3, ElemsTyped
  <2>5. log' \in Seq(Actions)
    BY <1>8, <2>1, AppendProperties DEF Answered, Typed
  <2>6. /\ outcome' \in [Actions -> Outcomes \cup {None}]
        /\ answers' \subseteq [request: Actions, outcome: Outcomes]
    BY <1>0, <1>8, <2>1 DEF Answered, Tell, TypeOK
  <2> QED BY <1>0, <1>8, <2>3, <2>4, <2>5, <2>6 DEF Answered, Typed, TypeOK, Affordable
<1>9. CASE Restart
  <2>1. Elems(wire') = {} /\ Elems(cache') = {}
    BY <1>9, ElemsOfEmpty DEF Restart
  <2> QED BY <1>0, <1>9, <1>e, <2>1, SizesAssumption, BoundsAssumption
          DEF Restart, Typed, TypeOK, Affordable
<1>10. CASE UNCHANGED vars
  BY <1>0, <1>10 DEF vars, Typed, TypeOK, Affordable
<1> QED BY <1>1, <1>2, <1>3, <1>4, <1>5, <1>6, <1>7, <1>8, <1>9, <1>10 DEF Next, Panel

\* The session, the cache and what is on the wire keep their types and bounds,
\* for a cache of any size.
THEOREM TypeCorrect == Spec => []TypeOK
<1>1. Typed => TypeOK
  BY DEF Typed
<1> QED BY <1>1, InitTyped, NextTyped, PTL DEF Spec

-----------------------------------------------------------------------------
(* An answer fits: outcomes are numbered, so one that is remembered belongs *)
(* to actions executed before, all with the payload it was cached with.     *)

Past(o, n, a) == o <= n /\ (a # None => o < n)

Fits ==
    /\ \A b \in Actions : outcome[b] # None => Past(outcome[b], effects, busy)
    /\ \A e \in Elems(cache) :
        /\ Past(e.outcome, effects, busy) /\ outcome[e.action] # None
        /\ \A b \in Actions : outcome[b] = e.outcome => b.payload = e.digest

LEMMA InitFits == Init => Fits
BY ElemsOfEmpty DEF Init, Fits

LEMMA FitsKept ==
    ASSUME Typed, Fits, outcome' = outcome, Elems(cache') \subseteq Elems(cache),
           \/ effects' = effects /\ busy' \in {busy, None}
           \/ effects' = effects + 1 /\ busy = None
    PROVE  Fits'
<1>1. effects \in Nat /\ Elems(cache) \subseteq EntryOf /\ outcome \in [Actions -> Outcomes \cup {None}]
  BY DEF Typed, TypeOK
<1>2. \A o \in Outcomes : Past(o, effects, busy) => Past(o, effects', busy')
  BY <1>1 DEF Past, Outcomes
<1>3. \A e \in Elems(cache) : e.outcome \in Outcomes
  BY <1>1 DEF EntryOf
<1>4. \A b \in Actions : outcome[b] # None => outcome[b] \in Outcomes
  BY <1>1
<1> QED BY <1>2, <1>3, <1>4 DEF Fits

LEMMA AnsweredFits == Typed /\ Fits /\ Answered => Fits'
<1> SUFFICES ASSUME Typed, Fits, Answered PROVE Fits'
  OBVIOUS
<1>1. /\ busy \in Actions /\ busy # None /\ session \in Boots /\ effects \in Outcomes
      /\ effects' = effects /\ busy' = None
      /\ outcome \in [Actions -> Outcomes \cup {None}]
      /\ outcome' = [outcome EXCEPT ![busy] = effects]
      /\ cache' = Record(busy, effects)
  BY NoneAssumption, BoundsAssumption DEF Answered, Typed, TypeOK, Outcomes
<1>2. PICK e : e = [key |-> Key(busy), digest |-> busy.payload, action |-> busy,
                    outcome |-> effects]
  OBVIOUS
<1>3. Elems(cache') \subseteq Elems(cache) \cup {e}
  BY <1>1, <1>2, Recorded
<1>4. /\ effects # None /\ effects \in Nat
      /\ \A o \in Outcomes : Past(o, effects, busy) => o # effects /\ Past(o, effects', busy')
      /\ Past(effects, effects', busy')
  BY <1>1, NoneAssumption DEF Past, Outcomes
<1>5. \A b \in Actions : outcome[b] # None => outcome[b] \in Outcomes /\ outcome[b] # effects
  BY <1>1, <1>4 DEF Fits
<1>6. ASSUME NEW b \in Actions, outcome'[b] # None PROVE Past(outcome'[b], effects', busy')
  <2>1. CASE b = busy
    BY <1>1, <1>4, <2>1
  <2>2. CASE b # busy
    BY <1>1, <1>4, <1>5, <1>6, <2>2 DEF Fits
  <2> QED BY <2>1, <2>2
<1>7. ASSUME NEW x \in Elems(cache')
      PROVE  /\ Past(x.outcome, effects', busy') /\ outcome'[x.action] # None
             /\ \A b \in Actions : outcome'[b] = x.outcome => b.payload = x.digest
  <2>1. CASE x = e
    <3>1. x.outcome = effects /\ x.action = busy /\ x.digest = busy.payload
      BY <1>2, <2>1
    <3>2. \A b \in Actions : outcome'[b] = effects => b = busy
      BY <1>1, <1>4, <1>5
    <3>3. outcome'[busy] = effects
      BY <1>1
    <3> QED BY <1>4, <3>1, <3>2, <3>3
  <2>2. CASE x \in Elems(cache)
    <3>1. /\ Past(x.outcome, effects, busy) /\ outcome[x.action] # None
          /\ \A b \in Actions : outcome[b] = x.outcome => b.payload = x.digest
      BY <2>2 DEF Fits
    <3>2. x.outcome \in Outcomes /\ x.action \in Actions
      BY <2>2 DEF Typed, TypeOK, EntryOf
    <3>3. x.outcome # effects /\ Past(x.outcome, effects', busy')
      BY <1>4, <3>1, <3>2
    <3>4. outcome'[x.action] # None
      BY <1>1, <1>4, <3>1, <3>2
    <3>5. \A b \in Actions : outcome'[b] = x.outcome => outcome[b] = x.outcome
      BY <1>1, <3>3
    <3> QED BY <3>1, <3>3, <3>4, <3>5
  <2> QED BY <1>3, <1>7, <2>1, <2>2
<1> QED BY <1>6, <1>7 DEF Fits

LEMMA NextFits == Typed /\ Fits /\ [Next]_vars => Fits'
<1> SUFFICES ASSUME Typed, Fits, [Next]_vars PROVE Fits'
  OBVIOUS
<1>e. Elems(<<>>) = {}
  BY ElemsOfEmpty
<1>1. CASE Panel \/ UNCHANGED vars
  <2>1. UNCHANGED <<effects, busy, cache, outcome>>
    BY <1>1 DEF Panel, PanelBoot, PanelHello, PanelActs, PanelCounts, PanelRepeats,
                gateway, history, vars
  <2> QED BY <2>1, FitsKept
<1>2. CASE OnHello
  BY <1>2, <1>e, FitsKept DEF OnHello, Reset
<1>3. CASE OnUiAction
  <2>1. busy = None
    BY <1>3 DEF OnUiAction, Receive
  <2>2. (effects' = effects /\ busy' = busy) \/ effects' = effects + 1
    BY <1>3 DEF OnUiAction, NotReady, Replay, Conflict, Execute
  <2> QED BY <1>3, <2>1, <2>2, FitsKept DEF OnUiAction
<1>4. CASE Answered
  BY <1>4, AnsweredFits
<1>5. CASE Restart
  BY <1>5, <1>e, FitsKept DEF Restart
<1> QED BY <1>1, <1>2, <1>3, <1>4, <1>5 DEF Next

LEMMA AnswersFit ==
    ASSUME Typed, Fits, [Next]_vars, NEW t \in answers' \ answers, NEW b \in Actions,
           outcome'[b] = t.outcome
    PROVE  b.payload = t.request.payload
<1>1. CASE OnUiAction
  <2> DEFINE a == Head(wire).action
  <2>1. Replay(a) /\ outcome' = outcome
    BY <1>1 DEF OnUiAction, NotReady, Conflict, Execute
  <2>2. PICK i \in Hits(a) : SameDigest(a, cache[i]) /\ Tell(a, cache[i].outcome)
    BY <2>1 DEF Replay
  <2>3. t.request = a /\ t.outcome = cache[i].outcome
    BY <2>2 DEF Tell
  <2>4. cache[i] \in Elems(cache)
    BY DEF Hits, Elems
  <2> QED BY <2>1, <2>2, <2>3, <2>4 DEF Fits, SameDigest
<1>2. CASE Answered
  <2>1. /\ busy \in Actions /\ busy # None /\ effects \in Outcomes
        /\ outcome \in [Actions -> Outcomes \cup {None}]
        /\ outcome' = [outcome EXCEPT ![busy] = effects]
    BY <1>2, NoneAssumption, BoundsAssumption DEF Answered, Typed, TypeOK, Outcomes
  <2>2. t.request = busy /\ t.outcome = effects
    BY <1>2 DEF Answered, Tell
  <2>3. \A c \in Actions : outcome[c] # effects
    BY <2>1, NoneAssumption DEF Fits, Past, Outcomes
  <2> QED BY <2>1, <2>2, <2>3
<1>3. CASE ~OnUiAction /\ ~Answered
  BY <1>3 DEF Next, Panel, PanelBoot, PanelHello, PanelActs, PanelCounts, PanelRepeats,
              OnHello, Restart, gateway, history, vars
<1> QED BY <1>1, <1>2, <1>3

\* Whatever numbers go around, the panel is never told the result of an action
\* with another payload: an outcome that is cached is older than what is being
\* executed, and was cached with the payload of everything that has it.
THEOREM AnswersAlwaysFit == Spec => AnswersFitTheAction
<1>1. Typed /\ Fits /\ [Next]_vars
        => [\A t \in answers' \ answers : \A b \in Actions :
               outcome'[b] = t.outcome => b.payload = t.request.payload]_vars
  BY AnswersFit
<1> QED BY <1>1, InitTyped, NextTyped, InitFits, NextFits, PTL DEF Spec, AnswersFitTheAction

-----------------------------------------------------------------------------
(* The cache is the end of the log: the last CacheSize executions of the    *)
(* session, in order, each under its key.                                   *)

Remembered ==
    /\ Len(cache) = (IF Len(log) >= CacheSize THEN CacheSize ELSE Len(log))
    /\ \A i \in 1..Len(cache) :
        /\ cache[i].action = log[i + Len(log) - Len(cache)]
        /\ cache[i].key = [boot |-> session, seq |-> SeqOf(cache[i].action.n)]

LEMMA InitRemembered == Init => Remembered
<1> SUFFICES ASSUME Init PROVE Remembered
  OBVIOUS
<1>1. Len(cache) = 0 /\ Len(log) = 0
  BY DEF Init
<1> QED BY <1>1, SizesAssumption DEF Remembered

LEMMA AnsweredRemembered == Typed /\ Remembered /\ Answered => Remembered'
<1> SUFFICES ASSUME Typed, Remembered, Answered PROVE Remembered'
  OBVIOUS
<1>1. /\ busy \in Actions /\ session \in Boots /\ effects \in Outcomes
      /\ session' = session /\ log' = Append(log, busy) /\ cache' = Record(busy, effects)
  BY NoneAssumption, BoundsAssumption DEF Answered, Typed, TypeOK, Outcomes
<1>2. PICK e : e = [key |-> Key(busy), digest |-> busy.payload, action |-> busy,
                    outcome |-> effects]
  OBVIOUS
<1>3. /\ Len(cache') = (IF Len(cache) >= CacheSize THEN CacheSize ELSE Len(cache) + 1)
      /\ Len(cache') \in Nat /\ Len(cache) \in Nat /\ cache'[Len(cache')] = e
      /\ Shifted(cache, cache')
  BY <1>1, <1>2, Recorded
<1>4. /\ log \in Seq(Actions) /\ Len(log) \in Nat /\ Len(log') = Len(log) + 1
      /\ \A i \in 1..Len(log) : log'[i] = log[i]
      /\ log'[Len(log) + 1] = busy
  BY <1>1, AppendProperties, LenProperties DEF Typed
<1>5. Len(cache) = (IF Len(log) >= CacheSize THEN CacheSize ELSE Len(log))
  BY DEF Remembered
<1>6. Len(cache') = (IF Len(log') >= CacheSize THEN CacheSize ELSE Len(log'))
  BY <1>3, <1>4, <1>5, SizesAssumption
<1>7. ASSUME NEW i \in 1..Len(cache')
      PROVE  /\ cache'[i].action = log'[i + Len(log') - Len(cache')]
             /\ cache'[i].key = [boot |-> session', seq |-> SeqOf(cache'[i].action.n)]
  <2>1. CASE i = Len(cache')
    <3>1. cache'[i] = e /\ i + Len(log') - Len(cache') = Len(log) + 1
      BY <1>3, <1>4, <2>1
    <3> QED BY <1>1, <1>2, <1>4, <3>1 DEF Key
  <2>2. CASE i # Len(cache')
    <3>1. PICK j \in 1..Len(cache) :
            j = i + Len(cache) + 1 - Len(cache') /\ cache'[i] = cache[j]
      BY <1>3, <2>2 DEF Shifted
    <3>2. /\ cache[j].action = log[j + Len(log) - Len(cache)]
          /\ cache[j].key = [boot |-> session, seq |-> SeqOf(cache[j].action.n)]
      BY DEF Remembered
    <3>3. /\ j + Len(log) - Len(cache) = i + Len(log') - Len(cache')
          /\ j + Len(log) - Len(cache) \in 1..Len(log)
      <4>1. Len(cache) <= Len(log) /\ Len(cache') \in Nat /\ i \in Nat
        BY <1>3, <1>4, <1>5, SizesAssumption
      <4> QED BY <1>3, <1>4, <3>1, <4>1
    <3>4. log'[i + Len(log') - Len(cache')] = log[j + Len(log) - Len(cache)]
      BY <1>4, <3>3
    <3> QED BY <1>1, <3>1, <3>2, <3>4
  <2> QED BY <2>1, <2>2
<1> QED BY <1>6, <1>7 DEF Remembered

LEMMA NextRemembered == Typed /\ Remembered /\ [Next]_vars => Remembered'
<1> SUFFICES ASSUME Typed, Remembered, [Next]_vars PROVE Remembered'
  OBVIOUS
<1>1. ASSUME UNCHANGED <<session, cache, log>> PROVE Remembered'
  BY <1>1 DEF Remembered
<1>2. ASSUME cache' = <<>>, log' = <<>> PROVE Remembered'
  <2>1. Len(cache') = 0 /\ Len(log') = 0
    BY <1>2
  <2> QED BY <2>1, SizesAssumption DEF Remembered
<1>3. CASE Panel \/ UNCHANGED vars
  <2>1. UNCHANGED <<session, cache, log>>
    BY <1>3 DEF Panel, PanelBoot, PanelHello, PanelActs, PanelCounts, PanelRepeats,
                gateway, history, vars
  <2> QED BY <1>1, <2>1
<1>4. CASE OnHello
  BY <1>1, <1>2, <1>4 DEF OnHello, Reset
<1>5. CASE OnUiAction
  BY <1>1, <1>5 DEF OnUiAction
<1>6. CASE Answered
  BY <1>6, AnsweredRemembered
<1>7. CASE Restart
  BY <1>2, <1>7 DEF Restart
<1> QED BY <1>3, <1>4, <1>5, <1>6, <1>7 DEF Next

LEMMA OnlyUnknownIsExecuted ==
    ASSUME Typed, [Next]_vars, NEW a \in Actions, busy = None, busy' = a
    PROVE  Execute(a) /\ Head(wire).action = a
BY NoneAssumption DEF Next, Panel, PanelBoot, PanelHello, PanelActs, PanelCounts, PanelRepeats,
     OnHello, OnUiAction, NotReady, Replay, Conflict, Execute, Answered, Restart,
     gateway, history, vars

\* A repetition is executed only after CacheSize others of its session: before
\* that, its last execution is among those that the cache holds.
THEOREM RepeatsAlwaysRemembered == Spec => RepeatsAreRemembered
<1>1. ASSUME Typed, Remembered, [Next]_vars, NEW a \in Actions, busy = None, busy' = a,
             NEW i \in DOMAIN log, log[i] = a
      PROVE  Len(log) - i >= CacheSize
  <2>1. /\ Len(log) \in Nat /\ i \in 1..Len(log)
        /\ Len(cache) \in Nat /\ DOMAIN cache = 1..Len(cache)
    BY LenProperties DEF Typed
  <2>2. Hits(a) = {}
    BY <1>1, OnlyUnknownIsExecuted DEF Execute
  <2> SUFFICES ASSUME ~(Len(log) - i >= CacheSize) PROVE FALSE
    OBVIOUS
  <2> DEFINE j == i - Len(log) + Len(cache)
  <2>3. j \in 1..Len(cache) /\ j + Len(log) - Len(cache) = i
    <3>1. Len(cache) = (IF Len(log) >= CacheSize THEN CacheSize ELSE Len(log))
      BY <1>1 DEF Remembered
    <3>2. i + CacheSize > Len(log) /\ CacheSize \in Nat
      BY <2>1, SizesAssumption
    <3>3. i + Len(cache) > Len(log)
      BY <2>1, <3>1, <3>2
    <3> QED BY <2>1, <3>3
  <2>4. cache[j].action = a /\ cache[j].key = Key(a)
    <3> HIDE DEF j
    <3> QED BY <1>1, <2>3 DEF Remembered, Key
  <2> QED BY <2>1, <2>2, <2>3, <2>4 DEF Hits
<1>2. Typed /\ Remembered /\ [Next]_vars
        => [\A a \in Actions : busy = None /\ busy' = a =>
               \A i \in DOMAIN log : log[i] = a => Len(log) - i >= CacheSize]_vars
  BY <1>1
<1> QED BY <1>2, InitTyped, NextTyped, InitRemembered, NextRemembered, PTL
        DEF Spec, RepeatsAreRemembered

-----------------------------------------------------------------------------
(* What is known of a boot was sent by it, and after its HELLO.             *)

FrameBoot(f) == IF f.kind = "hello" THEN f.boot ELSE f.action.boot

IsSent(a) == a.boot \in panel.used /\ (a.boot = panel.boot => a \in panel.sent)

SentOnce ==
    /\ {panel.boot, session} \subseteq panel.used \cup {None}
    /\ \A x \in panel.sent : x.boot = panel.boot /\ x.n <= panel.count
    /\ \A x \in panel.sent : \A y \in panel.sent : x.n = y.n => x = y
    /\ \A f \in Elems(wire) : FrameBoot(f) \in panel.used /\ (f.kind = "ui" => IsSent(f.action))
    /\ \A e \in Elems(cache) : IsSent(e.action)
    /\ busy # None => IsSent(busy)

LEMMA InitSentOnce == Init => SentOnce
BY ElemsOfEmpty DEF Init, SentOnce

LEMMA HeadOfWire ==
    ASSUME Typed, NEW kind, Receive(kind)
    PROVE  Head(wire) \in Elems(wire) /\ Elems(wire') \subseteq Elems(wire)
<1>1. wire \in Seq(Frames) /\ wire # <<>> /\ wire' = Tail(wire)
  BY DEF Typed, Receive
<1>2. DOMAIN wire = 1..Len(wire) /\ 1 \in 1..Len(wire) /\ Head(wire) = wire[1]
  BY <1>1, LenProperties, Received
<1> QED BY <1>1, <1>2, ElemsOfTail DEF Elems

\* Nothing is sent, or what the panel has sent before.
LEMMA SentOnceKept ==
    ASSUME Typed, SentOnce,
           panel'.boot = panel.boot, panel'.used = panel.used, panel'.sent = panel.sent,
           panel'.count \in Nat, panel'.count >= panel.count,
           session' \in panel.used \cup {None},
           \A f \in Elems(wire') : \/ f \in Elems(wire)
                                   \/ /\ FrameBoot(f) \in panel.used
                                      /\ f.kind = "ui" => IsSent(f.action),
           \A e \in Elems(cache') : IsSent(e.action),
           busy' # None => IsSent(busy')
    PROVE  SentOnce'
<1>1. \A a \in Actions : IsSent(a) => (a.boot \in panel'.used
                                       /\ (a.boot = panel'.boot => a \in panel'.sent))
  BY DEF IsSent
<1>2. \A x \in panel.sent : x.n \in Nat /\ x.n <= panel.count => x.n <= panel'.count
  BY DEF Typed, TypeOK
<1>3. \A x \in panel.sent : x.n \in Nat
  BY BoundsAssumption DEF Typed, TypeOK, Actions
<1> QED BY <1>1, <1>2, <1>3 DEF SentOnce, IsSent

LEMMA NextSentOnce == Typed /\ SentOnce /\ [Next]_vars => SentOnce'
<1> SUFFICES ASSUME Typed, SentOnce, [Next]_vars PROVE SentOnce'
  OBVIOUS
<1>0. TypeOK /\ panel \in PanelType /\ panel.count \in Nat /\ wire \in Seq(Frames)
  BY BoundsAssumption DEF Typed, TypeOK, PanelType
<1>e. Elems(<<>>) = {}
  BY ElemsOfEmpty
<1>s. /\ session \in panel.used \cup {None} /\ panel.boot \in panel.used \cup {None}
      /\ \A e \in Elems(cache) : IsSent(e.action)
      /\ busy # None => IsSent(busy)
  BY DEF SentOnce
<1>1. ASSUME NEW b \in Boots, PanelBoot(b) PROVE SentOnce'
  <2>1. /\ panel'.boot = b /\ panel'.used = panel.used \cup {b} /\ panel'.sent = {}
        /\ b \notin panel.used
        /\ UNCHANGED <<wire, session, cache, busy>>
    BY <1>1 DEF PanelBoot, gateway
  <2>2. \A a : IsSent(a) => a.boot \in panel'.used /\ a.boot # panel'.boot
    BY <2>1 DEF IsSent
  <2> QED BY <2>1, <2>2 DEF SentOnce, IsSent
<1>2. CASE PanelHello
  <2>1. Hello(panel.boot) \in Frames /\ panel.boot \in panel.used
    BY <1>0, <1>2, <1>s DEF PanelHello, PanelType, Frames
  <2>2. Elems(wire') = Elems(wire) \cup {Hello(panel.boot)}
    BY <1>0, <1>2, <2>1, ElemsOfAppend DEF PanelHello
  <2>3. FrameBoot(Hello(panel.boot)) = panel.boot /\ Hello(panel.boot).kind # "ui"
    BY DEF FrameBoot, Hello
  <2> QED BY <1>0, <1>2, <1>s, <2>1, <2>2, <2>3, SentOnceKept DEF PanelHello, gateway
<1>3. ASSUME NEW p \in Payloads, PanelActs(p) PROVE SentOnce'
  <2> DEFINE a == [boot |-> panel.boot, n |-> panel.count + 1, payload |-> p]
  <2>1. a \in Actions /\ panel.boot \in panel.used
    BY <1>0, <1>3, <1>s, BoundsAssumption DEF PanelActs, Typed, PanelType, Actions
  <2>2. Ui(a) \in Frames
    BY <2>1 DEF Frames
  <2>3. Elems(wire') = Elems(wire) \cup {Ui(a)}
    BY <1>0, <1>3, <2>2, ElemsOfAppend DEF PanelActs
  <2>4. FrameBoot(Ui(a)) = panel.boot /\ Ui(a).action = a
    BY DEF FrameBoot, Ui
  <2>5. /\ panel'.boot = panel.boot /\ panel'.used = panel.used
        /\ panel'.count = panel.count + 1 /\ panel'.sent = panel.sent \cup {a}
        /\ UNCHANGED <<session, cache, busy>>
    BY <1>0, <1>3 DEF PanelActs, PanelType, gateway
  <2>6. /\ a.boot = panel.boot /\ a.n = panel.count + 1
        /\ \A x \in panel.sent : x.n \in Nat /\ x.n <= panel.count
    BY <1>0, BoundsAssumption DEF SentOnce, PanelType, Actions
  <2> HIDE DEF a
  <2>7. /\ \A x \in panel'.sent : x.boot = panel'.boot /\ x.n <= panel'.count
        /\ \A x \in panel'.sent : \A y \in panel'.sent : x.n = y.n => x = y
    BY <1>0, <2>5, <2>6 DEF SentOnce
  <2>8. \A x : IsSent(x) => (x.boot \in panel'.used /\ (x.boot = panel'.boot => x \in panel'.sent))
    BY <2>5 DEF IsSent
  <2>9. \A f \in Elems(wire') :
           /\ FrameBoot(f) \in panel'.used
           /\ f.kind = "ui" => (/\ f.action.boot \in panel'.used
                                /\ f.action.boot = panel'.boot => f.action \in panel'.sent)
    BY <2>1, <2>3, <2>4, <2>5, <2>6, <2>8 DEF SentOnce
  <2> QED BY <1>s, <2>5, <2>7, <2>8, <2>9 DEF SentOnce, IsSent
<1>4. CASE PanelCounts
  <2>1. /\ panel'.boot = panel.boot /\ panel'.used = panel.used /\ panel'.sent = panel.sent
        /\ panel'.count \in Nat /\ panel'.count >= panel.count
    BY <1>0, <1>4 DEF PanelCounts, PanelType
  <2> QED BY <1>4, <1>s, <2>1, SentOnceKept DEF PanelCounts, gateway
<1>5. ASSUME NEW a \in Actions, PanelRepeats(a) PROVE SentOnce'
  <2>1. Ui(a) \in Frames /\ a \in panel.sent
    BY <1>5 DEF PanelRepeats, Frames
  <2>2. Elems(wire') = Elems(wire) \cup {Ui(a)}
    BY <1>0, <1>5, <2>1, ElemsOfAppend DEF PanelRepeats
  <2>3. FrameBoot(Ui(a)) = a.boot /\ Ui(a).action = a /\ a.boot = panel.boot
    BY <2>1 DEF FrameBoot, Ui, SentOnce
  <2>4. panel.boot \in panel.used
    BY <1>s, <2>3, NoneAssumption DEF Actions
  <2>5. FrameBoot(Ui(a)) \in panel.used /\ IsSent(Ui(a).action)
    BY <2>1, <2>3, <2>4 DEF IsSent
  <2> QED BY <1>0, <1>5, <1>s, <2>2, <2>5, SentOnceKept DEF PanelRepeats, gateway
<1>6. CASE OnHello
  <2>1. /\ Head(wire) \in Elems(wire) /\ Elems(wire') \subseteq Elems(wire)
        /\ Head(wire).kind = "hello"
    BY <1>6, HeadOfWire DEF OnHello, Receive
  <2>2. Head(wire).boot \in panel.used
    BY <2>1 DEF SentOnce, FrameBoot
  <2>3. session' \in panel.used \cup {None} /\ Elems(cache') \subseteq Elems(cache)
    BY <1>6, <1>e, <1>s, <2>2 DEF OnHello, Reset
  <2>4. /\ panel'.boot = panel.boot /\ panel'.used = panel.used /\ panel'.sent = panel.sent
        /\ panel'.count = panel.count
    BY <1>0, <1>6 DEF OnHello, PanelType
  <2> QED BY <1>0, <1>6, <1>s, <2>1, <2>3, <2>4, SentOnceKept DEF OnHello
<1>7. CASE OnUiAction
  <2>1. /\ Head(wire) \in Elems(wire) /\ Elems(wire') \subseteq Elems(wire)
        /\ Head(wire).kind = "ui" /\ busy = None
    BY <1>7, HeadOfWire DEF OnUiAction, Receive
  <2>2. busy' # None => busy' = Head(wire).action
    BY <1>7, <2>1 DEF OnUiAction, NotReady, Replay, Conflict, Execute
  <2>3. busy' # None => IsSent(busy')
    BY <2>1, <2>2 DEF SentOnce
  <2> QED BY <1>0, <1>7, <1>s, <2>1, <2>3, SentOnceKept DEF OnUiAction
<1>8. CASE Answered
  <2>1. /\ busy \in Actions /\ busy # None /\ session \in Boots /\ effects \in Outcomes
        /\ cache' = Record(busy, effects) /\ busy' = None
        /\ UNCHANGED <<panel, wire, session>>
    BY <1>8, NoneAssumption, BoundsAssumption DEF Answered, Typed, TypeOK, Outcomes
  <2>2. PICK e : e = [key |-> Key(busy), digest |-> busy.payload, action |-> busy,
                      outcome |-> effects]
    OBVIOUS
  <2>3. Elems(cache') \subseteq Elems(cache) \cup {e}
    BY <2>1, <2>2, Recorded
  <2>4. e.action = busy
    BY <2>2
  <2>5. \A x \in Elems(cache') : IsSent(x.action)
    BY <1>s, <2>1, <2>3, <2>4
  <2> QED BY <1>0, <1>s, <2>1, <2>5, SentOnceKept
<1>9. CASE Restart
  BY <1>0, <1>9, <1>e, <1>s, SentOnceKept DEF Restart
<1>10. CASE UNCHANGED vars
  BY <1>0, <1>10, <1>s, SentOnceKept DEF vars
<1> QED BY <1>1, <1>2, <1>3, <1>4, <1>5, <1>6, <1>7, <1>8, <1>9, <1>10 DEF Next, Panel

\* A session of the running boot began with its HELLO, and every frame after
\* that HELLO is of that boot.
Ordered ==
    /\ panel.greeted => session \in {None, panel.boot}
    /\ panel.greeted \/ (session # None /\ session = panel.boot) =>
        \A f \in Elems(wire) : FrameBoot(f) = panel.boot
    /\ session # None /\ session = panel.boot =>
        /\ \A e \in Elems(cache) : e.action.boot = panel.boot
        /\ busy # None => busy.boot = panel.boot
    /\ \A i, j \in 1..Len(wire) :
        i <= j /\ wire[i] = Hello(panel.boot) => FrameBoot(wire[j]) = panel.boot

LEMMA InitOrdered == Init => Ordered
<1> SUFFICES ASSUME Init PROVE Ordered
  OBVIOUS
<1>1. Len(wire) = 0
  BY DEF Init
<1> QED BY <1>1 DEF Init, Ordered

\* The panel sends a frame of its own boot.
LEMMA SendingOrdered ==
    ASSUME Typed, Ordered, NEW f \in Frames, wire' = Append(wire, f),
           FrameBoot(f) = panel.boot,
           panel'.boot = panel.boot, panel'.greeted = panel.greeted,
           UNCHANGED gateway
    PROVE  Ordered'
<1>1. /\ Len(wire') = Len(wire) + 1 /\ Len(wire) \in Nat
      /\ \A i \in 1..Len(wire) : wire'[i] = wire[i]
      /\ wire'[Len(wire) + 1] = f
  BY Sent
<1>2. Elems(wire') = Elems(wire) \cup {f}
  BY ElemsOfAppend DEF Typed
<1>3. ASSUME NEW i \in 1..Len(wire'), NEW j \in 1..Len(wire'), i <= j,
             wire'[i] = Hello(panel.boot)
      PROVE  FrameBoot(wire'[j]) = panel.boot
  <2>1. CASE j = Len(wire) + 1
    BY <1>1, <2>1
  <2>2. CASE j # Len(wire) + 1
    <3>1. i \in 1..Len(wire) /\ j \in 1..Len(wire)
      BY <1>1, <1>3, <2>2
    <3>2. wire'[i] = wire[i] /\ wire'[j] = wire[j]
      BY <1>1, <3>1
    <3> QED BY <1>3, <3>1, <3>2 DEF Ordered
  <2> QED BY <2>1, <2>2
<1> QED BY <1>2, <1>3 DEF Ordered, gateway

\* A frame is taken off the wire.
LEMMA ReceivingOrdered ==
    ASSUME Typed, Ordered, NEW kind, Receive(kind)
    PROVE  /\ \A i, j \in 1..Len(wire') :
                i <= j /\ wire'[i] = Hello(panel.boot) => FrameBoot(wire'[j]) = panel.boot
           /\ Head(wire) = Hello(panel.boot) =>
                \A f \in Elems(wire') : FrameBoot(f) = panel.boot
<1>1. /\ wire' \in Seq(Frames) /\ Head(wire) = wire[1] /\ 1 \in 1..Len(wire)
      /\ \A i \in 1..Len(wire') : i + 1 \in 1..Len(wire) /\ wire'[i] = wire[i + 1]
  BY Received
<1>2. Len(wire') \in Nat /\ DOMAIN wire' = 1..Len(wire')
  BY <1>1, LenProperties
<1>3. ASSUME NEW i \in 1..Len(wire'), NEW j \in 1..Len(wire'), i <= j,
             wire'[i] = Hello(panel.boot)
      PROVE  FrameBoot(wire'[j]) = panel.boot
  <2>1. i + 1 \in 1..Len(wire) /\ j + 1 \in 1..Len(wire) /\ i + 1 <= j + 1
    BY <1>1, <1>2, <1>3
  <2>2. wire[i + 1] = Hello(panel.boot) /\ wire'[j] = wire[j + 1]
    BY <1>1, <1>3
  <2> QED BY <2>1, <2>2 DEF Ordered
<1>4. ASSUME Head(wire) = Hello(panel.boot), NEW f \in Elems(wire')
      PROVE  FrameBoot(f) = panel.boot
  <2>1. PICK i \in 1..Len(wire') : f = wire'[i]
    BY <1>2 DEF Elems
  <2>2. i + 1 \in 1..Len(wire) /\ f = wire[i + 1] /\ 1 <= i + 1
    BY <1>1, <1>2, <2>1
  <2> QED BY <1>1, <1>4, <2>2 DEF Ordered
<1> QED BY <1>3, <1>4

LEMMA NextOrdered == Typed /\ SentOnce /\ Ordered /\ [Next]_vars => Ordered'
<1> SUFFICES ASSUME Typed, SentOnce, Ordered, [Next]_vars PROVE Ordered'
  OBVIOUS
<1>0. /\ panel \in PanelType /\ wire \in Seq(Frames)
      /\ DOMAIN wire = 1..Len(wire) /\ Elems(wire) \subseteq Frames
  BY LenProperties DEF Typed, TypeOK, PanelType
<1>e. Elems(<<>>) = {} /\ Len(<<>>) = 0
  BY ElemsOfEmpty
<1>1. ASSUME NEW b \in Boots, PanelBoot(b) PROVE Ordered'
  <2>1. /\ panel'.boot = b /\ panel'.greeted = FALSE /\ b \notin panel.used /\ b # None
        /\ UNCHANGED <<wire, session, cache, busy>>
    BY <1>1, NoneAssumption DEF PanelBoot, gateway
  <2>2. session # b /\ \A f \in Elems(wire) : FrameBoot(f) # b
    BY <2>1 DEF SentOnce
  <2>3. \A i \in 1..Len(wire) : wire[i] # Hello(b)
    <3>1. \A i \in 1..Len(wire) : wire[i] \in Elems(wire)
      BY <1>0 DEF Elems
    <3>2. FrameBoot(Hello(b)) = b
      BY DEF FrameBoot, Hello
    <3> QED BY <2>2, <3>1, <3>2
  <2> QED BY <2>1, <2>2, <2>3 DEF Ordered
<1>2. CASE PanelHello
  <2>1. Hello(panel.boot) \in Frames /\ FrameBoot(Hello(panel.boot)) = panel.boot
    BY <1>0, <1>2 DEF PanelHello, PanelType, Frames, FrameBoot, Hello
  <2> QED BY <1>2, <2>1, SendingOrdered DEF PanelHello
<1>3. ASSUME NEW p \in Payloads, PanelActs(p) PROVE Ordered'
  <2> DEFINE a == [boot |-> panel.boot, n |-> panel.count + 1, payload |-> p]
  <2>1. a \in Actions
    BY <1>0, <1>3, BoundsAssumption DEF PanelActs, Typed, PanelType, Actions
  <2>2. Ui(a) \in Frames /\ FrameBoot(Ui(a)) = panel.boot
    BY <2>1 DEF Frames, FrameBoot, Ui
  <2>3. panel'.boot = panel.boot /\ panel'.greeted = panel.greeted
    BY <1>0, <1>3 DEF PanelActs, PanelType
  <2> QED BY <1>3, <2>2, <2>3, SendingOrdered DEF PanelActs
<1>4. CASE PanelCounts
  <2>1. panel'.boot = panel.boot /\ panel'.greeted = panel.greeted
    BY <1>0, <1>4 DEF PanelCounts, PanelType
  <2> QED BY <1>4, <2>1 DEF PanelCounts, gateway, Ordered
<1>5. ASSUME NEW a \in Actions, PanelRepeats(a) PROVE Ordered'
  <2>1. Ui(a) \in Frames /\ FrameBoot(Ui(a)) = panel.boot
    BY <1>5 DEF PanelRepeats, Frames, FrameBoot, Ui, SentOnce
  <2> QED BY <1>5, <2>1, SendingOrdered DEF PanelRepeats
<1>6. CASE OnHello
  <2>1. /\ Receive("hello") /\ busy = None /\ busy' = None
        /\ Head(wire) \in Elems(wire) /\ Elems(wire') \subseteq Elems(wire)
        /\ Head(wire).kind = "hello"
    BY <1>6, HeadOfWire DEF OnHello, Receive
  <2> DEFINE h == Head(wire).boot
  <2>2. h \in Boots /\ h # None /\ Head(wire) = Hello(h) /\ FrameBoot(Head(wire)) = h
    BY <1>0, <2>1, NoneAssumption DEF Frames, Hello, Ui, FrameBoot
  <2>3. /\ panel'.boot = panel.boot
        /\ panel.greeted \in BOOLEAN /\ panel'.greeted \in BOOLEAN
        /\ panel'.greeted => (panel.greeted \/ h = panel.boot)
    <3>1. PICK heard \in BOOLEAN :
            panel' = [panel EXCEPT !.greeted = @ \/ (heard /\ h = panel.boot)]
      BY <1>6 DEF OnHello
    <3> QED BY <1>0, <3>1 DEF PanelType
  <2>4. session' = h /\ (session # h => cache' = <<>>) /\ (session = h => cache' = cache)
    BY <1>6 DEF OnHello, Reset
  <2> HIDE DEF h
  <2>5. CASE h = panel.boot
    <3>1. \A f \in Elems(wire') : FrameBoot(f) = panel.boot
      BY <2>1, <2>2, <2>5, ReceivingOrdered
    <3>2. \A e \in Elems(cache') : e.action.boot = panel.boot
      BY <1>e, <2>2, <2>4, <2>5 DEF Ordered
    <3>3. \A i, j \in 1..Len(wire') :
             i <= j /\ wire'[i] = Hello(panel.boot) => FrameBoot(wire'[j]) = panel.boot
      BY <2>1, ReceivingOrdered
    <3> QED BY <2>1, <2>3, <2>4, <2>5, <3>1, <3>2, <3>3 DEF Ordered
  <2>6. CASE h # panel.boot
    <3>1. ~panel.greeted
      BY <2>1, <2>2, <2>6 DEF Ordered
    <3>2. \A i, j \in 1..Len(wire') :
             i <= j /\ wire'[i] = Hello(panel.boot) => FrameBoot(wire'[j]) = panel.boot
      BY <2>1, ReceivingOrdered
    <3> QED BY <2>3, <2>4, <2>6, <3>1, <3>2 DEF Ordered
  <2> QED BY <2>5, <2>6
<1>7. CASE OnUiAction
  <2>1. /\ Receive("ui") /\ busy = None
        /\ Head(wire) \in Elems(wire) /\ Elems(wire') \subseteq Elems(wire)
        /\ Head(wire).kind = "ui"
    BY <1>7, HeadOfWire DEF OnUiAction, Receive
  <2>2. busy' # None => busy' = Head(wire).action
    BY <1>7, <2>1 DEF OnUiAction, NotReady, Replay, Conflict, Execute
  <2>3. busy' # None => busy'.boot = FrameBoot(Head(wire))
    BY <2>1, <2>2 DEF FrameBoot
  <2>4. \A i, j \in 1..Len(wire') :
           i <= j /\ wire'[i] = Hello(panel.boot) => FrameBoot(wire'[j]) = panel.boot
    BY <2>1, ReceivingOrdered
  <2> QED BY <1>7, <2>1, <2>3, <2>4 DEF OnUiAction, Ordered
<1>8. CASE Answered
  <2>1. /\ busy \in Actions /\ busy # None /\ session \in Boots /\ effects \in Outcomes
        /\ cache' = Record(busy, effects) /\ busy' = None
        /\ UNCHANGED <<panel, wire, session>>
    BY <1>8, NoneAssumption, BoundsAssumption DEF Answered, Typed, TypeOK, Outcomes
  <2>2. PICK e : e = [key |-> Key(busy), digest |-> busy.payload, action |-> busy,
                      outcome |-> effects]
    OBVIOUS
  <2>3. Elems(cache') \subseteq Elems(cache) \cup {e}
    BY <2>1, <2>2, Recorded
  <2>4. e.action = busy
    BY <2>2
  <2> QED BY <2>1, <2>3, <2>4 DEF Ordered
<1>9. CASE Restart
  BY <1>9, <1>e DEF Restart, Ordered
<1>10. CASE UNCHANGED vars
  BY <1>10 DEF vars, gateway, Ordered
<1> QED BY <1>1, <1>2, <1>3, <1>4, <1>5, <1>6, <1>7, <1>8, <1>9, <1>10 DEF Next, Panel

\* Numbers less than a round apart are the same only for the same frame.
LEMMA NumbersTellApart ==
    ASSUME NEW m \in 1..MaxFrames, NEW n \in 1..MaxFrames,
           SeqOf(m) = SeqOf(n), m < n + SeqMax, n < m + SeqMax
    PROVE  m = n
<1>1. ASSUME NEW k \in Nat PROVE k = SeqMax * (k \div SeqMax) + (k % SeqMax)
  BY SizesAssumption
<1>2. m - 1 \in Nat /\ n - 1 \in Nat /\ SeqMax \in Nat /\ SeqMax > 0
  BY BoundsAssumption, SizesAssumption
<1>3. (m - 1) % SeqMax = (n - 1) % SeqMax
  <2>1. (m - 1) % SeqMax \in Nat /\ (n - 1) % SeqMax \in Nat
    BY <1>2
  <2> QED BY <2>1 DEF SeqOf
<1>4. /\ (m - 1) \div SeqMax \in Int /\ (n - 1) \div SeqMax \in Int
      /\ (n - 1) % SeqMax \in Int
  BY <1>2
<1>5. \A s, p, q, r \in Int : s > 0 /\ s * p + r < s * q + r + s => p <= q
  OBVIOUS
<1>6. (m - 1) \div SeqMax = (n - 1) \div SeqMax
  BY <1>1, <1>2, <1>3, <1>4, <1>5
<1> QED BY <1>1, <1>2, <1>3, <1>6

LEMMA NewIsExecuted ==
    ASSUME Typed, Fits, Remembered, SentOnce, Ordered, [Next]_vars, NEW a \in Actions,
           wire # <<>>, wire' = Tail(wire), Head(wire) = Ui(a),
           a.boot = panel.boot, panel.greeted, session' # None, outcome[a] = None,
           \A e \in Elems(cache) : a.n < e.action.n + SeqMax /\ e.action.n < a.n + SeqMax
    PROVE  busy' = a
<1>1. OnUiAction
  <2>1. wire \in Seq(Frames) /\ Tail(wire) # wire /\ \A f \in Frames : Append(wire, f) # wire'
    <3>1. wire \in Seq(Frames)
      BY DEF Typed
    <3>2. Len(Tail(wire)) = Len(wire) - 1 /\ Len(wire) \in Nat
      BY <3>1, HeadTailProperties, LenProperties
    <3>3. \A f \in Frames : Len(Append(wire, f)) = Len(wire) + 1
      BY <3>1, AppendProperties
    <3> DEFINE t == Tail(wire)
    <3>4. Len(t) = Len(wire) - 1
      BY <3>2
    <3> HIDE DEF t
    <3>5. t # wire
      BY <3>2, <3>4
    <3>6. ASSUME NEW f \in Frames, NEW u, u = Append(wire, f) PROVE u # t
      <4>1. Len(u) = Len(wire) + 1
        BY <3>3, <3>6
      <4> QED BY <3>2, <3>4, <4>1
    <3> QED BY <3>1, <3>5, <3>6 DEF t
  <2>2. panel.boot \in Boots /\ panel.count \in Nat
    BY BoundsAssumption DEF Typed, TypeOK, Actions
  <2>3. Hello(panel.boot) \in Frames
    BY <2>2 DEF Frames
  <2>4. ~PanelHello
    BY <2>1, <2>3 DEF PanelHello
  <2>5. ASSUME NEW p \in Payloads, PanelActs(p) PROVE FALSE
    <3>1. [boot |-> panel.boot, n |-> panel.count + 1, payload |-> p] \in Actions
      BY <2>2, <2>5, BoundsAssumption DEF PanelActs, Actions
    <3> QED BY <2>1, <2>5, <3>1 DEF PanelActs, Frames
  <2>6. ASSUME NEW b \in Actions, PanelRepeats(b) PROVE FALSE
    BY <2>1, <2>6 DEF PanelRepeats, Frames
  <2>7. ~OnHello
    BY DEF OnHello, Receive, Ui
  <2> QED BY <2>1, <2>4, <2>5, <2>6, <2>7
          DEF Next, Panel, PanelBoot, PanelCounts, Answered, Restart, vars
<1>2. session = panel.boot /\ session' = session
  BY <1>1 DEF OnUiAction, Ordered
<1>3. a \in panel.sent
  <2>1. Ui(a) \in Elems(wire)
    BY <1>1, HeadOfWire DEF OnUiAction
  <2> QED BY <2>1 DEF SentOnce, IsSent, Ui
<1>4. Hits(a) = {}
  <2> SUFFICES ASSUME NEW i \in Hits(a) PROVE FALSE
    OBVIOUS
  <2>1. /\ cache \in Seq(EntryOf) /\ i \in 1..Len(cache)
        /\ cache[i] \in EntryOf /\ cache[i] \in Elems(cache)
    BY LenProperties, ElementOfSeq DEF Hits, Typed, Elems
  <2> DEFINE x == cache[i].action
  <2>2. x \in Actions /\ IsSent(x) /\ x.boot = panel.boot /\ outcome[x] # None
    BY <1>2, <2>1 DEF EntryOf, SentOnce, Ordered, Fits
  <2>3. SeqOf(x.n) = SeqOf(a.n)
    <3>1. cache[i].key = [boot |-> session, seq |-> SeqOf(x.n)]
      BY <2>1 DEF Remembered
    <3>2. cache[i].key = [boot |-> session, seq |-> SeqOf(a.n)]
      BY DEF Hits, Key
    <3> HIDE DEF x
    <3> QED BY <3>1, <3>2
  <2>4. x.n \in 1..MaxFrames /\ a.n \in 1..MaxFrames
    BY <2>2 DEF Actions
  <2>5. a.n < x.n + SeqMax /\ x.n < a.n + SeqMax
    BY <2>1
  <2>6. x.n = a.n
    BY <2>3, <2>4, <2>5, NumbersTellApart
  <2>7. x \in panel.sent
    BY <2>2 DEF IsSent
  <2> QED BY <1>3, <2>2, <2>6, <2>7 DEF SentOnce
<1>5. Head(wire).action = a
  BY DEF Ui
<1> QED BY <1>1, <1>2, <1>4, <1>5 DEF OnUiAction, NotReady, Replay, Conflict, Execute

\* A panel that was greeted is listened to: what the cache holds is of its own
\* boot, and a number in it is a new action's only if it went around.
THEOREM NewActionsAlwaysExecuted == Spec => NewActionsAreExecuted
<1> DEFINE Inv == Typed /\ Fits /\ Remembered /\ SentOnce /\ Ordered
<1>1. Init => Inv
  BY InitTyped, InitFits, InitRemembered, InitSentOnce, InitOrdered
<1>2. Inv /\ [Next]_vars => Inv'
  BY NextTyped, NextFits, NextRemembered, NextSentOnce, NextOrdered
<1>3. Inv /\ [Next]_vars =>
        [\A a \in Actions :
          /\ wire # <<>> /\ wire' = Tail(wire) /\ Head(wire) = Ui(a)
          /\ a.boot = panel.boot /\ panel.greeted /\ session' # None
          /\ outcome[a] = None
          /\ \A e \in Elems(cache) : /\ a.n < e.action.n + SeqMax
                                     /\ e.action.n < a.n + SeqMax
          => busy' = a]_vars
  BY NewIsExecuted
<1> QED BY <1>1, <1>2, <1>3, PTL DEF Spec, NewActionsAreExecuted

-----------------------------------------------------------------------------
(* UartSession implements RecentOnce.                                       *)

\* Between a HELLO and the next one, the frames on the wire are of one boot, and
\* what the read loop takes off it is of the session's.  Outcomes are new.
InSession ==
    /\ \A j \in 1..Len(wire) : wire[j].kind = "ui" =>
        IF j = 1 THEN session \in {None, FrameBoot(wire[1])}
        ELSE FrameBoot(wire[j - 1]) = FrameBoot(wire[j])
    /\ busy # None => busy.boot = session
    /\ panel.sent # {} => panel.greeted
    /\ \A t \in answers : Past(t.outcome, effects, busy)

LEMMA InitInSession == Init => InSession
<1> SUFFICES ASSUME Init PROVE InSession
  OBVIOUS
<1>1. Len(wire) = 0
  BY DEF Init
<1> QED BY <1>1 DEF Init, InSession

\* The panel sends an action when everything on the wire is of its boot, as the
\* session is, or any other frame.
LEMMA SendingInSession ==
    ASSUME Typed, Ordered, InSession, NEW f \in Frames, wire' = Append(wire, f),
           f.kind = "ui" => panel.greeted /\ FrameBoot(f) = panel.boot,
           panel'.sent # {} => panel'.greeted,
           UNCHANGED gateway, UNCHANGED answers
    PROVE  InSession'
<1>1. /\ Len(wire') = Len(wire) + 1 /\ Len(wire) \in Nat
      /\ \A i \in 1..Len(wire) : wire'[i] = wire[i]
      /\ wire'[Len(wire) + 1] = f
      /\ \A i \in 1..Len(wire) : wire[i] \in Elems(wire)
  BY Sent, LenProperties DEF Typed, Elems
<1>2. ASSUME NEW j \in 1..Len(wire'), wire'[j].kind = "ui"
      PROVE  IF j = 1 THEN session \in {None, FrameBoot(wire'[1])}
             ELSE FrameBoot(wire'[j - 1]) = FrameBoot(wire'[j])
  <2>1. CASE j # Len(wire) + 1
    <3>1. j \in 1..Len(wire) /\ wire'[j] = wire[j] /\ (j # 1 => wire'[j - 1] = wire[j - 1])
      BY <1>1, <2>1
    <3> QED BY <1>2, <3>1 DEF InSession
  <2>2. CASE j = Len(wire) + 1
    <3>1. wire'[j] = f /\ panel.greeted /\ FrameBoot(f) = panel.boot
      BY <1>1, <1>2, <2>2
    <3>2. CASE j = 1
      BY <3>1, <3>2 DEF Ordered
    <3>3. CASE j # 1
      <4>1. j - 1 \in 1..Len(wire)
        BY <1>1, <2>2, <3>3
      <4>2. FrameBoot(wire'[j - 1]) = panel.boot
        BY <1>1, <3>1, <4>1 DEF Ordered
      <4> QED BY <3>1, <3>3, <4>2
    <3> QED BY <3>2, <3>3
  <2> QED BY <2>1, <2>2
<1> QED BY <1>2 DEF InSession, gateway

\* The session is still, or from now on, that of the frame taken off the wire.
LEMMA ReceivingInSession ==
    ASSUME Typed, InSession, NEW kind, Receive(kind),
           session' \in {None, FrameBoot(Head(wire))},
           busy' # None => busy'.boot = session',
           panel'.sent # {} => panel'.greeted,
           \A t \in answers' : Past(t.outcome, effects', busy')
    PROVE  InSession'
<1>1. /\ Head(wire) = wire[1]
      /\ \A i \in 1..Len(wire') : i + 1 \in 1..Len(wire) /\ wire'[i] = wire[i + 1]
      /\ wire' \in Seq(Frames)
  BY Received
<1>2. Len(wire') \in Nat
  BY <1>1, LenProperties
<1>3. ASSUME NEW j \in 1..Len(wire'), wire'[j].kind = "ui"
      PROVE  IF j = 1 THEN session' \in {None, FrameBoot(wire'[1])}
             ELSE FrameBoot(wire'[j - 1]) = FrameBoot(wire'[j])
  <2>1. j + 1 \in 1..Len(wire) /\ wire'[j] = wire[j + 1] /\ j + 1 # 1 /\ (j + 1) - 1 = j
    BY <1>1
  <2>2. FrameBoot(wire[j]) = FrameBoot(wire[j + 1])
    BY <1>3, <2>1 DEF InSession
  <2>3. j # 1 => wire'[j - 1] = wire[j]
    <3> SUFFICES ASSUME j # 1 PROVE wire'[j - 1] = wire[j]
      OBVIOUS
    <3>1. j - 1 \in 1..Len(wire') /\ (j - 1) + 1 = j
      BY <1>2
    <3> QED BY <1>1, <3>1
  <2> QED BY <1>1, <2>1, <2>2, <2>3
<1> QED BY <1>3 DEF InSession

LEMMA NextInSession ==
    Typed /\ SentOnce /\ Fits /\ Ordered /\ InSession /\ [Next]_vars => InSession'
<1> SUFFICES ASSUME Typed, SentOnce, Fits, Ordered, InSession, [Next]_vars PROVE InSession'
  OBVIOUS
<1>0. /\ panel \in PanelType /\ panel.boot \in Boots \cup {None} /\ panel.count \in Nat
      /\ effects \in Nat /\ answers \subseteq [request: Actions, outcome: Outcomes]
  BY BoundsAssumption DEF Typed, TypeOK, PanelType
<1>1. ASSUME UNCHANGED <<wire, gateway, answers>>, panel'.sent # {} => panel'.greeted
      PROVE  InSession'
  BY <1>1 DEF InSession, gateway
<1>2. CASE PanelCounts \/ (\E b \in Boots : PanelBoot(b)) \/ UNCHANGED vars
  <2>1. UNCHANGED <<wire, gateway, answers>>
    BY <1>2 DEF PanelCounts, PanelBoot, gateway, history, vars
  <2>2. panel'.sent # {} => panel'.greeted
    <3>1. CASE PanelCounts
      BY <3>1 DEF PanelCounts
    <3>2. CASE \E b \in Boots : PanelBoot(b)
      BY <3>2 DEF PanelBoot
    <3>3. CASE UNCHANGED vars
      BY <3>3 DEF vars, InSession
    <3> QED BY <1>2, <3>1, <3>2, <3>3
  <2> QED BY <1>1, <2>1, <2>2
<1>3. CASE PanelHello
  <2>1. Hello(panel.boot) \in Frames /\ Hello(panel.boot).kind = "hello"
    BY <1>0, <1>3 DEF PanelHello, Frames, Hello
  <2> QED BY <1>3, <2>1, SendingInSession DEF PanelHello, InSession, history
<1>4. ASSUME NEW p \in Payloads, PanelActs(p) PROVE InSession'
  <2> DEFINE a == [boot |-> panel.boot, n |-> panel.count + 1, payload |-> p]
  <2>1. Ui(a) \in Frames /\ FrameBoot(Ui(a)) = panel.boot /\ panel.greeted
    <3>1. panel.greeted /\ panel.boot \in Boots /\ panel.count + 1 \in 1..MaxFrames
      BY <1>0, <1>4, BoundsAssumption DEF PanelActs, Typed
    <3>2. a \in Actions
      BY <3>1 DEF Actions
    <3> QED BY <3>1, <3>2 DEF Frames, FrameBoot, Ui
  <2>2. panel'.greeted
    BY <1>4, <2>1 DEF PanelActs
  <2>3. wire' = Append(wire, Ui(a)) /\ UNCHANGED gateway /\ UNCHANGED answers
    BY <1>4 DEF PanelActs, history
  <2> HIDE DEF a
  <2> QED BY <2>1, <2>2, <2>3, SendingInSession
<1>5. ASSUME NEW a \in Actions, PanelRepeats(a) PROVE InSession'
  <2>1. Ui(a) \in Frames /\ FrameBoot(Ui(a)) = panel.boot /\ panel.greeted
    BY <1>5 DEF PanelRepeats, Frames, SentOnce, InSession, FrameBoot, Ui
  <2> QED BY <1>5, <2>1, SendingInSession DEF PanelRepeats, history
<1>6. CASE OnHello
  <2>1. Receive("hello") /\ session' = Head(wire).boot /\ FrameBoot(Head(wire)) = Head(wire).boot
    BY <1>6 DEF OnHello, Reset, Receive, FrameBoot
  <2>2. UNCHANGED <<effects, busy, answers>> /\ busy = None
    BY <1>6 DEF OnHello, Receive
  <2>3. panel'.sent # {} => panel'.greeted
    BY <1>0, <1>6 DEF OnHello, InSession, PanelType
  <2> QED BY <2>1, <2>2, <2>3, ReceivingInSession DEF InSession
<1>7. CASE OnUiAction
  <2> DEFINE a == Head(wire).action
  <2>1. Receive("ui") /\ session' = session /\ panel' = panel /\ busy = None
    BY <1>7 DEF OnUiAction, Receive
  <2>2. session \in {None, FrameBoot(Head(wire))} /\ FrameBoot(Head(wire)) = a.boot
    BY <2>1, Received DEF InSession, FrameBoot
  <2>3. /\ busy' # None => busy'.boot = session'
        /\ \A t \in answers' : Past(t.outcome, effects', busy')
    <3>1. CASE Execute(a)
      <4>1. /\ session # None /\ busy' = a /\ effects' = effects + 1 /\ answers' = answers
        BY <3>1 DEF Execute
      <4>2. ASSUME NEW t \in answers PROVE t.outcome < effects'
        <5>1. t.outcome <= effects /\ t.outcome \in Nat
          BY <1>0 DEF InSession, Past, Outcomes
        <5> QED BY <1>0, <4>1, <5>1
      <4>3. \A t \in answers' : Past(t.outcome, effects', busy')
        BY <1>0, <4>1, <4>2 DEF Past, Outcomes
      <4> QED BY <2>1, <2>2, <4>1, <4>3
    <3>2. CASE Replay(a)
      <4>1. busy' = busy /\ effects' = effects
        BY <3>2 DEF Replay
      <4>2. PICK i \in Hits(a) : answers' = answers \cup {[request |-> a, outcome |-> cache[i].outcome]}
        BY <3>2 DEF Replay, Tell
      <4>3. Past(cache[i].outcome, effects, busy)
        BY DEF Fits, Hits, Elems
      <4> QED BY <2>1, <4>1, <4>2, <4>3 DEF InSession
    <3>3. CASE NotReady(a) \/ Conflict(a)
      BY <2>1, <3>3 DEF NotReady, Conflict, InSession
    <3> QED BY <1>7, <3>1, <3>2, <3>3 DEF OnUiAction
  <2> QED BY <2>1, <2>2, <2>3, ReceivingInSession DEF InSession
<1>8. CASE Answered
  <2>1. /\ busy # None /\ busy' = None /\ UNCHANGED <<wire, session, panel, effects>>
        /\ answers' = answers \cup {[request |-> busy, outcome |-> effects]}
    BY <1>8 DEF Answered, Tell
  <2>2. \A t \in answers' : Past(t.outcome, effects', busy')
    BY <1>0, <2>1 DEF InSession, Past
  <2> QED BY <2>1, <2>2 DEF InSession
<1>9. CASE Restart
  <2>1. Len(wire') = 0 /\ busy' = None /\ UNCHANGED <<panel, effects, answers>>
    BY <1>9 DEF Restart
  <2> QED BY <2>1 DEF InSession, Past
<1> QED BY <1>2, <1>3, <1>4, <1>5, <1>6, <1>7, <1>8, <1>9 DEF Next, Panel

\* Recording an entry is what RecentOnce does with its memory.
LEMMA RecordedSays ==
    ASSUME Typed, NEW o \in Outcomes, NEW a \in Actions, session \in Boots,
           NEW e, e = [key |-> Key(a), digest |-> a.payload, action |-> a, outcome |-> o]
    PROVE  AllSay(Record(a, o)) =
               Append(IF Len(AllSay(cache)) < CacheSize THEN AllSay(cache)
                      ELSE Tail(AllSay(cache)), EntrySays(e))
<1> DEFINE S == {EntrySays(x) : x \in EntryOf}
           c == Record(a, o)
           old == AllSay(cache)
           kept == IF Len(old) < CacheSize THEN old ELSE Tail(old)
           new == Append(kept, EntrySays(e))
<1>1. /\ e \in EntryOf /\ c \in Seq(EntryOf) /\ Len(c) \in Nat /\ Len(cache) \in Nat
      /\ Len(c) = (IF Len(cache) >= CacheSize THEN CacheSize ELSE Len(cache) + 1)
      /\ c[Len(c)] = e /\ Shifted(cache, c)
  BY Recorded
<1>2. cache \in Seq(EntryOf) /\ Len(cache) <= CacheSize
  BY DEF Typed, TypeOK
<1> HIDE DEF c
<1>3. ASSUME NEW s \in Seq(EntryOf)
      PROVE  /\ AllSay(s) \in Seq(S) /\ Len(AllSay(s)) = Len(s)
             /\ \A i \in 1..Len(s) : AllSay(s)[i] = EntrySays(s[i])
  <2>1. DOMAIN s = 1..Len(s) /\ Len(s) \in Nat /\ \A i \in 1..Len(s) : s[i] \in EntryOf
    BY LenProperties, ElementOfSeq
  <2> QED BY <2>1 DEF AllSay
<1>4. /\ old \in Seq(S) /\ Len(old) = Len(cache)
      /\ \A i \in 1..Len(cache) : old[i] = EntrySays(cache[i])
  BY <1>2, <1>3
<1> HIDE DEF S, old
<1>5. /\ kept \in Seq(S)
      /\ Len(kept) = (IF Len(cache) >= CacheSize THEN CacheSize - 1 ELSE Len(cache))
      /\ \A i \in 1..Len(kept) : kept[i] = EntrySays(cache[i + Len(cache) - Len(kept)])
  <2>1. CASE Len(old) < CacheSize
    <3>1. kept = old
      BY <2>1
    <3> QED BY <1>1, <1>4, <2>1, <3>1, SizesAssumption
  <2>2. CASE ~(Len(old) < CacheSize)
    <3>1. old # <<>> /\ kept = Tail(old) /\ Len(cache) = CacheSize
      BY <1>1, <1>2, <1>4, <2>2, SizesAssumption
    <3>2. /\ kept \in Seq(S) /\ Len(kept) = Len(old) - 1
          /\ \A i \in 1..Len(kept) : kept[i] = old[i + 1]
      BY <1>4, <3>1, HeadTailProperties
    <3> HIDE DEF kept
    <3>3. ASSUME NEW i \in 1..Len(kept)
          PROVE  kept[i] = EntrySays(cache[i + Len(cache) - Len(kept)])
      <4>1. i + 1 \in 1..Len(cache) /\ i + Len(cache) - Len(kept) = i + 1
        BY <1>1, <1>4, <3>2
      <4> QED BY <1>4, <3>2, <4>1
    <3> QED BY <1>4, <3>1, <3>2, <3>3, SizesAssumption
  <2> QED BY <2>1, <2>2
<1> HIDE DEF kept
<1>6. EntrySays(e) \in S
  BY <1>1 DEF S
<1>7. /\ new \in Seq(S) /\ Len(new) = Len(kept) + 1 /\ Len(kept) \in Nat
      /\ \A i \in 1..Len(kept) : new[i] = kept[i]
      /\ new[Len(kept) + 1] = EntrySays(e)
  BY <1>5, <1>6, AppendProperties, LenProperties
<1>8. /\ AllSay(c) \in Seq(S) /\ Len(AllSay(c)) = Len(c)
      /\ \A i \in 1..Len(c) : AllSay(c)[i] = EntrySays(c[i])
  BY <1>1, <1>3 DEF S
<1>9. Len(c) = Len(kept) + 1
  BY <1>1, <1>2, <1>5, SizesAssumption
<1> HIDE DEF new
<1>10. ASSUME NEW i \in 1..Len(c) PROVE AllSay(c)[i] = new[i]
  <2>1. CASE i = Len(c)
    BY <1>1, <1>7, <1>8, <1>9, <2>1
  <2>2. CASE i # Len(c)
    <3>1. i \in 1..(Len(c) - 1) /\ i \in 1..Len(kept)
      BY <1>1, <1>9, <2>2
    <3>2. PICK j \in 1..Len(cache) : j = i + Len(cache) + 1 - Len(c) /\ c[i] = cache[j]
      BY <1>1, <3>1 DEF Shifted
    <3>3. j = i + Len(cache) - Len(kept)
      BY <1>1, <1>7, <1>9, <3>2
    <3> QED BY <1>5, <1>7, <1>8, <3>1, <3>2, <3>3
  <2> QED BY <2>1, <2>2
<1>11. AllSay(c) = new
  BY <1>7, <1>8, <1>9, <1>10, SeqEqual
<1> QED BY <1>11 DEF c, new, kept, old

AnswersSay == {AnswerSays(t) : t \in answers}

\* An action begins to be executed: RecentOnce executes its request.
LEMMA ExecutingImplements ==
    ASSUME Typed, Fits, InSession, OnUiAction, Execute(Head(wire).action)
    PROVE  Recent!Next
<1> DEFINE a == Head(wire).action
           r == [number |-> Key(a), content |-> a.payload]
           o == effects + 1
           e == [key |-> Key(a), digest |-> a.payload, action |-> a, outcome |-> o]
<1>1. /\ Receive("ui") /\ busy = None /\ UNCHANGED <<session, cache, answers>>
      /\ session # None /\ Hits(a) = {} /\ busy' = a /\ effects' = o
  BY DEF OnUiAction, Receive, Execute
<1>2. /\ Head(wire) \in Frames /\ Head(wire).kind = "ui" /\ Head(wire) = wire[1]
      /\ 1 \in 1..Len(wire)
  BY <1>1, Received
<1>3. a \in Actions /\ a # None
  BY <1>2, NoneAssumption DEF Frames, Hello, Ui
<1>4. effects \in Nat /\ o \in Outcomes /\ session \in Boots
  <2>1. effects + 1 <= MaxEffects
    BY <1>2 DEF Typed, Affordable
  <2> QED BY <1>1, <2>1, BoundsAssumption DEF Typed, TypeOK, Outcomes
<1>5. r \in Recent!Requests
  BY <1>3, <1>4, KeyTyped DEF Recent!Requests, Actions
<1>6. Remembering = cache /\ Remembering' = Record(a, o)
  BY <1>1, <1>3 DEF Remembering, Record, Evict, Key
<1>7. EntrySays(e) = [request |-> r, outcome |-> o]
  BY DEF EntrySays
<1>8. AllSay(Remembering') = Append(IF Len(AllSay(cache)) < CacheSize THEN AllSay(cache)
                                    ELSE Tail(AllSay(cache)), [request |-> r, outcome |-> o])
  BY <1>3, <1>4, <1>6, <1>7, RecordedSays
<1>9. ASSUME NEW i \in DOMAIN AllSay(cache)
      PROVE  AllSay(cache)[i].request.number # r.number /\ AllSay(cache)[i].outcome # o
  <2>1. /\ i \in DOMAIN cache /\ AllSay(cache)[i].request.number = cache[i].key
        /\ AllSay(cache)[i].outcome = cache[i].outcome
    BY DEF AllSay, EntrySays
  <2>2. cache[i].outcome <= effects /\ cache[i].outcome \in Nat
    <3>1. cache[i] \in Elems(cache)
      BY <2>1 DEF Elems
    <3> QED BY <3>1 DEF Fits, Past, Typed, TypeOK, EntryOf, Outcomes
  <2> QED BY <1>1, <1>4, <2>1, <2>2 DEF Hits
<1>10. ASSUME NEW t \in AnswersSay PROVE t.outcome # o
  <2>1. PICK u \in answers : t = AnswerSays(u)
    BY DEF AnswersSay
  <2>2. t.outcome = u.outcome /\ u.outcome \in Nat /\ u.outcome <= effects
    BY <2>1 DEF AnswerSays, InSession, Past, Typed, TypeOK, Outcomes
  <2> QED BY <1>4, <2>2
<1> HIDE DEF r, o, a
<1>11. Recent!Execute(r, o)
  BY <1>1, <1>6, <1>8, <1>9, <1>10 DEF Recent!Execute, AnswersSay, AllSay, AnswerSays
<1> QED BY <1>4, <1>5, <1>11 DEF Recent!Next

\* An answer reports what is remembered under the action's boot, number and payload.
LEMMA TellingImplements ==
    ASSUME NEW a \in Actions, NEW o, Tell(a, o), NEW i \in DOMAIN Remembering,
           Remembering[i].key = [boot |-> a.boot, seq |-> SeqOf(a.n)],
           Remembering[i].digest = a.payload, Remembering[i].outcome = o,
           Remembering' = Remembering
    PROVE  Recent!Next
<1>1. AllSay(Remembering)[i] = AnswerSays([request |-> a, outcome |-> o])
  BY DEF AllSay, EntrySays, AnswerSays
<1>2. AnswersSay' = AnswersSay \cup {AllSay(Remembering)[i]}
  BY <1>1 DEF Tell, AnswersSay, AnswerSays
<1>3. i \in DOMAIN AllSay(Remembering)
  BY DEF AllSay
<1>4. AllSay(Remembering)' = AllSay(Remembering)
  BY DEF AllSay, EntrySays
<1>5. Recent!Answer(i)
  BY <1>2, <1>4 DEF Recent!Answer, AnswersSay
<1> QED BY <1>3, <1>5 DEF Recent!Next

\* The gateway implements RecentOnce: the cache and the action being executed are its
\* memory, and no frame is taken for one of another boot.
THEOREM ImplementsRecentOnce == Spec => ExecutesOnceWhileRecent
<1> DEFINE Inv == Typed /\ Fits /\ Remembered /\ SentOnce /\ Ordered /\ InSession
<1>1. Init => Inv
  BY InitTyped, InitFits, InitRemembered, InitSentOnce, InitOrdered, InitInSession
<1>2. Inv /\ [Next]_vars => Inv'
  BY NextTyped, NextFits, NextRemembered, NextSentOnce, NextOrdered, NextInSession
<1>3. Init => Recent!Init
  BY DEF Init, Recent!Init, Remembering, AllSay
<1>4. Inv /\ [Next]_vars => [Recent!Next]_<<AllSay(Remembering), AnswersSay>>
  <2> SUFFICES ASSUME Typed, Fits, InSession, [Next]_vars,
                      ~UNCHANGED <<AllSay(Remembering), AnswersSay>>
               PROVE  Recent!Next
    OBVIOUS
  <2>1. ~UNCHANGED <<session, cache, busy, effects, answers>>
    BY DEF Remembering, Record, Evict, Key, AllSay, EntrySays, AnswersSay, AnswerSays
  <2>2. ASSUME Remembering' = <<>>, answers' = answers PROVE Recent!Next
    <3>1. AllSay(Remembering)' = <<>> /\ AnswersSay' = AnswersSay
      BY <2>2 DEF AllSay, AnswersSay, AnswerSays
    <3>2. Recent!Forget
      BY <3>1 DEF Recent!Forget, AnswersSay
    <3> QED BY <3>2 DEF Recent!Next
  <2>3. CASE Panel \/ UNCHANGED vars
    BY <2>1, <2>3 DEF Panel, PanelBoot, PanelHello, PanelActs, PanelCounts, PanelRepeats,
                      gateway, history, vars
  <2>4. CASE OnHello
    BY <2>1, <2>2, <2>4 DEF OnHello, Receive, Reset, Remembering
  <2>5. CASE Restart
    BY <2>2, <2>5 DEF Restart, Remembering
  <2>6. CASE OnUiAction
    <3> DEFINE a == Head(wire).action
    <3>1. /\ Receive("ui") /\ busy = None /\ UNCHANGED <<session, cache>>
      BY <2>6 DEF OnUiAction, Receive
    <3>2. CASE Execute(a)
      BY <2>6, <3>2, ExecutingImplements
    <3>3. CASE Replay(a)
      <4>1. PICK i \in Hits(a) : SameDigest(a, cache[i]) /\ Tell(a, cache[i].outcome)
        BY <3>3 DEF Replay
      <4>2. /\ Head(wire) \in Frames /\ Head(wire).kind = "ui" /\ Head(wire) = wire[1]
            /\ 1 \in 1..Len(wire)
        BY <3>1, Received
      <4>3. a \in Actions
        BY <4>2 DEF Frames, Hello, Ui
      <4>4. cache[i].key.boot = session /\ cache[i] \in EntryOf
        BY <4>1, LenProperties, ElementOfSeq DEF Hits, Key, Typed
      <4>5. Remembering = cache /\ Remembering' = cache
        BY <3>1, <3>3 DEF Remembering, Replay
      <4>6. session = a.boot
        BY <4>2, <4>4, NoneAssumption DEF InSession, FrameBoot, EntryOf
      <4>7. cache[i].key = [boot |-> a.boot, seq |-> SeqOf(a.n)] /\ i \in DOMAIN cache
        BY <4>6 DEF Hits, Key
      <4> QED BY <4>1, <4>3, <4>5, <4>7, TellingImplements DEF SameDigest
    <3>4. CASE NotReady(a) \/ Conflict(a)
      BY <2>1, <3>1, <3>4 DEF NotReady, Conflict
    <3> QED BY <2>6, <3>2, <3>3, <3>4 DEF OnUiAction
  <2>7. CASE Answered
    <3>1. /\ busy \in Actions /\ busy # None /\ effects \in Outcomes /\ session \in Boots
          /\ busy.boot = session /\ busy' = None /\ Tell(busy, effects)
          /\ cache' = Record(busy, effects)
      BY <2>7, NoneAssumption, BoundsAssumption DEF Answered, Typed, TypeOK, Outcomes, InSession
    <3>2. Remembering = Record(busy, effects) /\ Remembering' = Remembering
      BY <3>1 DEF Remembering
    <3> DEFINE c == Record(busy, effects)
    <3>3. PICK e : e = [key |-> Key(busy), digest |-> busy.payload, action |-> busy,
                        outcome |-> effects]
      OBVIOUS
    <3>4. c \in Seq(EntryOf) /\ c[Len(c)] = e /\ Len(c) \in Nat
          /\ Len(c) = (IF Len(cache) >= CacheSize THEN CacheSize ELSE Len(cache) + 1)
          /\ Len(cache) \in Nat
      BY <3>1, <3>3, Recorded
    <3>5. Len(c) \in DOMAIN c
      BY <3>4, SizesAssumption, LenProperties
    <3>6. e.key = [boot |-> busy.boot, seq |-> SeqOf(busy.n)] /\ e.digest = busy.payload
          /\ e.outcome = effects
      BY <3>1, <3>3 DEF Key
    <3> HIDE DEF c
    <3> QED BY <3>1, <3>2, <3>4, <3>5, <3>6, TellingImplements DEF c
  <2> QED BY <2>3, <2>4, <2>5, <2>6, <2>7 DEF Next
<1> QED BY <1>1, <1>2, <1>3, <1>4, PTL DEF Spec, ExecutesOnceWhileRecent, Recent!Spec, AnswersSay

\* So the panel is never told the result of one execution for two actions that differ in
\* boot, number or payload: what RecentOnce promises follows from its steps alone.
THEOREM ResultsAreOfOneAction == Spec => []Recent!OneRequestEach
<1> DEFINE S == [request: Recent!Requests, outcome: Outcomes]
           memory == AllSay(Remembering)
           Good == memory \in Seq(S) /\ Recent!OneRequestEach
<1>1. Recent!Init => Good
  BY EmptySeq DEF Recent!Init, Recent!OneRequestEach
<1>2. Good /\ [Recent!Next]_<<memory, AnswersSay>> => Good'
  <2> SUFFICES ASSUME Good, [Recent!Next]_<<memory, AnswersSay>> PROVE Good'
    OBVIOUS
  <2> DEFINE all == AnswersSay \cup Elems(memory)
  <2> HIDE DEF memory
  <2>0. /\ Recent!OneRequestEach <=> \A t, u \in all : t.outcome = u.outcome => t = u
        /\ Recent!OneRequestEach' <=> \A t, u \in all' : t.outcome = u.outcome => t = u
    BY DEF Recent!OneRequestEach, AnswersSay, Elems, memory
  <2>1. ASSUME memory' \in Seq(S), all' \subseteq all PROVE Good'
    BY <2>0, <2>1
  <2>2. CASE UNCHANGED <<memory, AnswersSay>>
    BY <2>1, <2>2 DEF Elems
  <2>3. ASSUME NEW i \in DOMAIN memory, Recent!Answer(i) PROVE Good'
    <3>1. memory' = memory /\ AnswersSay' = AnswersSay \cup {memory[i]}
      BY <2>3 DEF Recent!Answer, AnswersSay, memory
    <3> QED BY <2>1, <3>1 DEF Elems
  <2>4. ASSUME Recent!Forget PROVE Good'
    <3>1. memory' = <<>> /\ AnswersSay' = AnswersSay
      BY <2>4 DEF Recent!Forget, AnswersSay, memory
    <3>2. Elems(memory') = {} /\ memory' \in Seq(S)
      BY <3>1, ElemsOfEmpty, EmptySeq
    <3> QED BY <2>1, <3>1, <3>2
  <2>5. ASSUME NEW r \in Recent!Requests, NEW o \in Outcomes, Recent!Execute(r, o) PROVE Good'
    <3> DEFINE e == [request |-> r, outcome |-> o]
               kept == IF Len(memory) < CacheSize THEN memory ELSE Tail(memory)
    <3>1. /\ memory' = Append(kept, e) /\ AnswersSay' = AnswersSay
          /\ \A i \in DOMAIN memory : memory[i].outcome # o
          /\ \A t \in AnswersSay : t.outcome # o
      BY <2>5 DEF Recent!Execute, AnswersSay, memory
    <3>2. kept \in Seq(S) /\ Elems(kept) \subseteq Elems(memory)
      <4>1. CASE Len(memory) < CacheSize
        BY <4>1
      <4>2. CASE ~(Len(memory) < CacheSize)
        <5>1. memory # <<>>
          BY <4>2, SizesAssumption
        <5> QED BY <4>2, <5>1, HeadTailProperties, ElemsOfTail
      <4> QED BY <4>1, <4>2
    <3> HIDE DEF kept
    <3>3. e \in S /\ e.outcome = o
      OBVIOUS
    <3> HIDE DEF e, S
    <3>4. Append(kept, e) \in Seq(S) /\ Elems(Append(kept, e)) = Elems(kept) \cup {e}
      BY <3>2, <3>3, AppendProperties, ElemsOfAppend
    <3>5. \A t \in all : t.outcome # o
      BY <3>1 DEF Elems
    <3>6. all' \subseteq all \cup {e}
      BY <3>1, <3>2, <3>4
    <3> HIDE DEF all
    <3>7. \A t, u \in all' : t.outcome = u.outcome => t = u
      BY <2>0, <3>3, <3>5, <3>6
    <3> QED BY <2>0, <3>1, <3>4, <3>7
  <2>6. DOMAIN AllSay(Remembering) = DOMAIN memory
    BY DEF memory
  <2> QED BY <2>2, <2>3, <2>4, <2>5, <2>6 DEF Recent!Next
<1>3. Good => Recent!OneRequestEach
  OBVIOUS
<1> QED BY <1>1, <1>2, <1>3, ImplementsRecentOnce, PTL
        DEF ExecutesOnceWhileRecent, Recent!Spec, AnswersSay

=============================================================================
