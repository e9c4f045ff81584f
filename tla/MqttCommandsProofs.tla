------------------------- MODULE MqttCommandsProofs -------------------------
(* Proofs about MqttCommands, for any request ids, commands, send times,    *)
(* times to live and retry window.                                          *)
EXTENDS MqttCommands, TLAPS

-----------------------------------------------------------------------------
(* The inductive invariant.                                                 *)

\* A command that was answered is in the cache until its retry window is over.
Kept ==
    \A m \in Commands : outcome[m] # None /\ now <= Expiry(m) =>
        /\ cache[m.id] # None
        /\ cache[m.id].command = m
        /\ cache[m.id].expires = Expiry(m)

\* The cache holds nothing but outcomes of answered commands.
Honest ==
    \A id \in Ids : cache[id] # None =>
        /\ outcome[cache[id].command] = cache[id].outcome
        /\ cache[id].command.id = id
        /\ cache[id].expires = Expiry(cache[id].command)

\* Nothing that is still kept shares its request id with the command being
\* served, which has not been answered itself.
Alone ==
    serving # None =>
        /\ outcome[serving] = None /\ cache[serving.id] = None
        /\ \A n \in Commands : n.id = serving.id /\ outcome[n] # None => now > Expiry(n)

\* A command that took effect more often than it failed is being served, or
\* cannot be executed.
Settled(m) == serving = m \/ Expired(m) \/ Held(m)

Counted ==
    \A m \in Commands : done[m] <= failed[m] + (IF Settled(m) THEN 1 ELSE 0)

IInv == TypeOK /\ Kept /\ Honest /\ Alone /\ Counted

LEMMA ExpiryTyped == \A n \in Commands : Expiry(n) \in Nat
<1> SUFFICES ASSUME NEW n \in Commands PROVE Expiry(n) \in Nat
  OBVIOUS
<1>1. n.sentAt \in Nat /\ n.ttl \in Nat /\ RetryWindow \in Nat
  BY TimesAssumption, WindowAssumption DEF Commands
<1> QED BY <1>1 DEF Expiry

-----------------------------------------------------------------------------
(* A command that is not expired and not remembered was never answered.     *)

\* The retry window begins when the time to live ends, so every command that
\* could be executed and was answered is still remembered.
LEMMA NewIsUnanswered ==
    ASSUME IInv, NEW m \in Commands, ~Expired(m), ~Remembered(m.id)
    PROVE  /\ outcome[m] = None
           /\ \A n \in Commands : n.id = m.id /\ outcome[n] # None => now > Expiry(n)
<1>1. now \in Nat
  BY DEF IInv, TypeOK
<1>2. /\ m.sentAt \in Nat /\ m.ttl \in Nat /\ RetryWindow \in Nat
      /\ \A n \in Commands : n.sentAt \in Nat /\ n.ttl \in Nat
  BY TimesAssumption, WindowAssumption DEF Commands
<1>3. ASSUME NEW n \in Commands, n.id = m.id, outcome[n] # None
      PROVE  now > Expiry(n)
  <2>1. Expiry(n) \in Nat
    BY <1>2 DEF Expiry
  <2>2. CASE now <= Expiry(n)
    <3>1. cache[m.id] # None /\ now <= cache[m.id].expires
      BY <2>2, <1>3 DEF IInv, Kept
    <3> QED BY <3>1 DEF Remembered
  <2> QED BY <2>1, <2>2, <1>1
<1>4. now <= Expiry(m)
  BY <1>1, <1>2 DEF Expired, Expiry
<1>5. Expiry(m) \in Nat
  BY <1>2 DEF Expiry
<1>6. outcome[m] = None
  BY <1>3, <1>4, <1>5, <1>1
<1> QED BY <1>3, <1>6

\* What is held is held until its retry window is over, which is not before
\* its time to live is.
LEMMA HeldIs ==
    ASSUME IInv, NEW m \in Commands, Held(m)
    PROVE  cache[m.id] # None /\ cache[m.id].command = m /\ cache[m.id].expires = Expiry(m)
<1>1. m.id \in Ids
  BY DEF Commands
<1> QED BY <1>1 DEF IInv, Honest, Held, Remembered

LEMMA OverIsExpired ==
    ASSUME NEW m \in Commands, now' \in Nat, now' > Expiry(m)
    PROVE  Expired(m)'
<1>1. m.sentAt \in Nat /\ m.ttl \in Nat /\ RetryWindow \in Nat
  BY TimesAssumption, WindowAssumption DEF Commands
<1> QED BY <1>1 DEF Expired, Expiry

-----------------------------------------------------------------------------
(* The invariant holds initially, and every step keeps it.                  *)

LEMMA InitIInv == Init => IInv
<1> SUFFICES ASSUME Init PROVE IInv
  OBVIOUS
<1>1. TypeOK
  BY BoundsAssumption, NoneAssumption DEF Init, TypeOK, Outcomes
<1>2. Kept /\ Honest /\ Alone
  BY DEF Init, Kept, Honest, Alone
<1>3. Counted
  BY DEF Init, Counted
<1> QED BY <1>1, <1>2, <1>3 DEF IInv

\* The steps that change nothing the invariant speaks of, except the clock.
LEMMA QuietStep ==
    ASSUME IInv, TypeOK', now' \in Nat, now' >= now,
           UNCHANGED <<cache, serving, done, failed, outcome>>
    PROVE  IInv'
<1>1. now \in Nat
  BY DEF IInv, TypeOK
<1>2. \A n \in Commands : Expiry(n) \in Nat
  BY ExpiryTyped
<1>3. Kept'
  BY <1>1, <1>2 DEF IInv, Kept
<1>4. Honest'
  BY DEF IInv, Honest, Expiry
<1>5. Alone'
  BY <1>1, <1>2 DEF IInv, Alone
<1>6. ASSUME NEW n \in Commands, Settled(n) PROVE Settled(n)'
  <2>1. CASE serving = n
    BY <2>1 DEF Settled
  <2>2. CASE Expired(n)
    <3>1. n.sentAt \in Nat /\ n.ttl \in Nat
      BY TimesAssumption DEF Commands
    <3> QED BY <1>1, <2>2, <3>1 DEF Settled, Expired
  <2>3. CASE Held(n)
    <3>1. CASE now' <= Expiry(n)
      BY <2>3, <3>1, HeldIs DEF Settled, Held, Remembered
    <3>2. CASE now' > Expiry(n)
      BY <3>2, OverIsExpired DEF Settled
    <3> QED BY <1>2, <3>1, <3>2
  <2> QED BY <1>6, <2>1, <2>2, <2>3 DEF Settled
<1>7. Counted'
  BY <1>6 DEF IInv, Counted, TypeOK
<1> QED BY <1>3, <1>4, <1>5, <1>7 DEF IInv

LEMMA TellTyped ==
    ASSUME TypeOK, NEW m \in Commands, NEW o \in Outcomes, Tell(m, o)
    PROVE  /\ reply' \in ReplyOf \cup {None}
           /\ answers' \subseteq [request: Commands, outcome: Outcomes]
<1>1. reply' = [command |-> m, code |-> "done"]
  BY DEF Tell, Reply
<1>2. reply' \in ReplyOf
  BY <1>1 DEF ReplyOf
<1>3. answers' \subseteq [request: Commands, outcome: Outcomes]
  BY DEF Tell, TypeOK
<1> QED BY <1>2, <1>3

\* What an interruption makes the handler forget leaves the rest as it was.
LEMMA InterruptedStep ==
    ASSUME IInv, Interrupt, Forget, now' \in Nat, Honest', Alone',
           cache' \in [Ids -> EntryOf \cup {None}], serving' \in Commands \cup {None}
    PROVE  IInv'
<1>1. /\ \A m \in Commands : outcome'[m] = IF Forgotten(m)' THEN None ELSE outcome[m]
      /\ outcome' \in [Commands -> Outcomes \cup {None}]
  BY DEF Forget, IInv, TypeOK
<1>2. /\ done' \in [Commands -> Nat] /\ failed' \in [Commands -> Nat]
      /\ \A m \in Commands :
           \/ done'[m] = 0 /\ failed'[m] = 0
           \/ done'[m] = done[m] /\ failed'[m] = failed[m] /\ Settled(m)'
  BY DEF Forget, IInv, TypeOK, Settled
<1>3. TypeOK'
  BY <1>1, <1>2, BoundsAssumption DEF IInv, TypeOK, Interrupt
<1>4. Kept'
  <2> SUFFICES ASSUME NEW m \in Commands, outcome'[m] # None, now' <= Expiry(m)
               PROVE  /\ cache'[m.id] # None
                      /\ cache'[m.id].command = m
                      /\ cache'[m.id].expires = Expiry(m)
    BY DEF Kept, Expiry
  <2>1. Held(m)' /\ m.id \in Ids
    BY <1>1 DEF Forgotten, Expiry, Commands
  <2> QED BY <2>1 DEF Honest, Held, Remembered, Expiry
<1>5. Counted'
  <2> SUFFICES ASSUME NEW m \in Commands
               PROVE  done'[m] <= failed'[m] + (IF Settled(m)' THEN 1 ELSE 0)
    BY DEF Counted
  <2>1. done[m] \in Nat /\ failed[m] \in Nat /\ done[m] <= failed[m] + 1
    BY DEF IInv, TypeOK, Counted
  <2> QED BY <1>2, <2>1
<1> QED BY <1>3, <1>4, <1>5 DEF IInv

LEMMA StepIInv == IInv /\ [Next]_vars => IInv'
<1> SUFFICES ASSUME IInv, [Next]_vars PROVE IInv'
  OBVIOUS
<1> USE DEF IInv
<1>1. CASE UNCHANGED vars
  <2>1. TypeOK' /\ now' = now /\ now \in Nat
    BY <1>1 DEF vars, TypeOK
  <2> QED BY <1>1, <2>1, QuietStep DEF vars
<1>2. CASE Clock
  <2>1. TypeOK' /\ now' = now + 1 /\ now \in Nat
    BY <1>2 DEF Clock, TypeOK
  <2> QED BY <1>2, <2>1, QuietStep DEF Clock
<1>3. ASSUME NEW m \in Commands, HandleAtOnce(m) PROVE IInv'
  <2>1. /\ UNCHANGED <<now, cache, serving, effects, done, failed, outcome, interruptions>>
        /\ now \in Nat
    BY <1>3 DEF HandleAtOnce, TypeOK
  <2>2. /\ reply' \in ReplyOf \cup {None}
        /\ answers' \subseteq [request: Commands, outcome: Outcomes]
    <3>1. CASE HandleExpired(m)
      BY <3>1 DEF HandleExpired, Reply, ReplyOf, TypeOK
    <3>2. CASE HandleConflict(m)
      BY <3>2 DEF HandleConflict, Reply, ReplyOf, TypeOK
    <3>3. CASE HandleRepeated(m)
      <4>1. m.id \in Ids
        BY DEF Commands
      <4>2. cache[m.id] \in EntryOf
        BY <3>3, <4>1 DEF HandleRepeated, Held, Remembered, TypeOK
      <4>3. cache[m.id].outcome \in Outcomes
        BY <4>2 DEF EntryOf
      <4> QED BY <3>3, <4>3, TellTyped DEF HandleRepeated
    <3> QED BY <1>3, <3>1, <3>2, <3>3 DEF HandleAtOnce
  <2>3. TypeOK'
    BY <2>1, <2>2 DEF TypeOK
  <2> QED BY <2>1, <2>3, QuietStep
<1>4. ASSUME NEW m \in Commands, Dispatch(m) PROVE IInv'
  <2>1. /\ serving = None /\ ~Expired(m) /\ ~Remembered(m.id)
        /\ effects < MaxEffects
        /\ cache' = Evicted /\ serving' = m /\ effects' = effects + 1 /\ reply' = None
        /\ done' = [done EXCEPT ![m] = @ + 1]
        /\ UNCHANGED <<now, failed, outcome, answers, interruptions>>
    BY <1>4 DEF Dispatch, TakeEffect
  <2>2. \A id \in Ids : cache'[id] = IF Remembered(id) THEN cache[id] ELSE None
    BY <2>1 DEF Evicted
  <2>3. TypeOK'
    <3>1. cache' \in [Ids -> EntryOf \cup {None}]
      BY <2>1 DEF Evicted, TypeOK
    <3>2. effects' \in Outcomes
      BY <2>1, BoundsAssumption DEF TypeOK, Outcomes
    <3> QED BY <3>1, <3>2, <2>1 DEF TypeOK
  <2>4. outcome[m] = None
        /\ \A n \in Commands : n.id = m.id /\ outcome[n] # None => now > Expiry(n)
    BY <2>1, NewIsUnanswered
  <2>5. Kept'
    <3> SUFFICES ASSUME NEW n \in Commands, outcome[n] # None, now <= Expiry(n)
                 PROVE  /\ cache'[n.id] # None
                        /\ cache'[n.id].command = n
                        /\ cache'[n.id].expires = Expiry(n)
      BY <2>1 DEF Kept
    <3>1. Remembered(n.id) /\ n.id \in Ids
      BY DEF Kept, Remembered, Commands
    <3> QED BY <3>1, <2>2 DEF Kept, Remembered
  <2>6. Honest'
    BY <2>1, <2>2 DEF Honest, Expiry
  <2>7. Alone'
    <3>1. m.id \in Ids
      BY DEF Commands
    <3> QED BY <2>1, <2>2, <2>4, <3>1 DEF Alone
  <2>8. Counted'
    <3>1. ~Settled(m) /\ Settled(m)'
      BY <2>1, NoneAssumption DEF Settled, Held
    <3>2. ASSUME NEW n \in Commands, Settled(n) PROVE Settled(n)'
      <4>1. n.id \in Ids /\ serving # n
        BY <2>1, NoneAssumption DEF Commands
      <4> QED BY <2>1, <2>2, <3>2, <4>1 DEF Settled, Held, Remembered, Expired
    <3>3. /\ done'[m] = done[m] + 1 /\ \A n \in Commands \ {m} : done'[n] = done[n]
          /\ \A n \in Commands : done[n] \in Nat /\ failed[n] \in Nat
      BY <2>1 DEF TypeOK
    <3>4. done'[m] <= failed'[m] + (IF Settled(m)' THEN 1 ELSE 0)
      BY <2>1, <3>1, <3>3 DEF Counted
    <3>5. ASSUME NEW n \in Commands \ {m}
          PROVE  done'[n] <= failed'[n] + (IF Settled(n)' THEN 1 ELSE 0)
      BY <2>1, <3>2, <3>3 DEF Counted
    <3> QED BY <3>4, <3>5 DEF Counted
  <2> QED BY <2>3, <2>5, <2>6, <2>7, <2>8
<1>5. ASSUME NEW m \in Commands, Conclude(m) PROVE IInv'
  <2> DEFINE e == [command |-> m, outcome |-> effects, expires |-> Expiry(m)]
  <2>1. /\ serving = m /\ serving' = None
        /\ cache' = [cache EXCEPT ![m.id] = e]
        /\ outcome' = [outcome EXCEPT ![m] = effects]
        /\ Tell(m, effects)
        /\ UNCHANGED <<now, effects, done, failed, interruptions>>
    BY <1>5 DEF Conclude
  <2>2. /\ m.id \in Ids /\ effects \in Outcomes /\ m # None
        /\ \A n \in Commands : n.id \in Ids
    BY NoneAssumption DEF Commands, TypeOK
  <2>3. e \in EntryOf
    <3>1. Expiry(m) \in Nat
      BY ExpiryTyped
    <3> QED BY <3>1, <2>2 DEF EntryOf
  <2>4. e # None /\ effects # None
    BY <2>3, <2>2, NoneAssumption DEF Outcomes
  <2>5. /\ cache'[m.id] = e
        /\ \A id \in Ids \ {m.id} : cache'[id] = cache[id]
        /\ outcome'[m] = effects
        /\ \A n \in Commands \ {m} : outcome'[n] = outcome[n]
    BY <2>1, <2>2 DEF TypeOK
  <2>6. TypeOK'
    <3>1. cache' \in [Ids -> EntryOf \cup {None}]
      BY <2>1, <2>3 DEF TypeOK
    <3>2. outcome' \in [Commands -> Outcomes \cup {None}]
      BY <2>1, <2>2 DEF TypeOK
    <3>3. /\ reply' \in ReplyOf \cup {None}
          /\ answers' \subseteq [request: Commands, outcome: Outcomes]
      BY <2>1, <2>2, TellTyped
    <3> QED BY <3>1, <3>2, <3>3, <2>1 DEF TypeOK
  <2>7. /\ outcome[m] = None
        /\ \A n \in Commands : n.id = m.id /\ outcome[n] # None => now > Expiry(n)
    BY <2>1, <2>2 DEF Alone
  <2>8. Kept'
    <3> SUFFICES ASSUME NEW n \in Commands, outcome'[n] # None, now <= Expiry(n)
                 PROVE  /\ cache'[n.id] # None
                        /\ cache'[n.id].command = n
                        /\ cache'[n.id].expires = Expiry(n)
      BY <2>1 DEF Kept
    <3>1. CASE n = m
      BY <3>1, <2>4, <2>5
    <3>2. CASE n # m
      <4>1. outcome[n] # None
        BY <3>2, <2>5
      <4>2. n.id # m.id
        <5>1. now \in Nat /\ Expiry(n) \in Nat
          BY ExpiryTyped DEF TypeOK
        <5> QED BY <4>1, <2>7, <5>1
      <4>3. cache'[n.id] = cache[n.id]
        BY <4>2, <2>2, <2>5
      <4> QED BY <4>1, <4>3 DEF Kept
    <3> QED BY <3>1, <3>2
  <2>9. Honest'
    <3> SUFFICES ASSUME NEW id \in Ids, cache'[id] # None
                 PROVE  /\ outcome'[cache'[id].command] = cache'[id].outcome
                        /\ cache'[id].command.id = id
                        /\ cache'[id].expires = Expiry(cache'[id].command)
      BY DEF Honest, Expiry
    <3>1. CASE id = m.id
      BY <3>1, <2>5
    <3>2. CASE id # m.id
      <4>1. cache'[id] = cache[id]
        BY <3>2, <2>5
      <4>2. cache[id] \in EntryOf
        BY <4>1 DEF TypeOK
      <4>3. cache[id].command \in Commands /\ cache[id].outcome \in Outcomes
        BY <4>2 DEF EntryOf
      <4>4. /\ outcome[cache[id].command] = cache[id].outcome
            /\ cache[id].command.id = id
            /\ cache[id].expires = Expiry(cache[id].command)
        BY <4>1 DEF Honest
      <4>5. cache[id].command # m
        BY <4>3, <4>4, <2>7, NoneAssumption DEF Outcomes
      <4> QED BY <4>1, <4>3, <4>4, <4>5, <2>5
    <3> QED BY <3>1, <3>2
  <2>10. Alone'
    BY <2>1 DEF Alone
  <2>11. Counted'
    <3>1. ASSUME NEW n \in Commands, Settled(n) PROVE Settled(n)'
      <4>1. now \in Nat /\ Expiry(m) \in Nat /\ now' = now
        BY <2>1, ExpiryTyped DEF TypeOK
      <4>2. CASE n = m /\ now <= Expiry(m)
        BY <2>4, <2>5, <4>1, <4>2 DEF Settled, Held, Remembered
      <4>3. CASE n = m /\ now > Expiry(m)
        BY <4>1, <4>3, OverIsExpired DEF Settled
      <4>4. CASE n # m /\ Expired(n)
        BY <4>1, <4>4 DEF Settled, Expired
      <4>5. CASE n # m /\ Held(n)
        <5>1. n.id # m.id
          BY <2>1, <2>2, <4>5 DEF Alone, Held, Remembered
        <5> QED BY <2>2, <2>5, <4>1, <4>5, <5>1 DEF Settled, Held, Remembered
      <4> QED BY <2>1, <3>1, <4>1, <4>2, <4>3, <4>4, <4>5 DEF Settled
    <3> QED BY <2>1, <3>1 DEF Counted, TypeOK
  <2> QED BY <2>6, <2>8, <2>9, <2>10, <2>11
<1>6. ASSUME NEW m \in Commands, Fail(m) PROVE IInv'
  <2>1. /\ serving = m /\ serving' = None
        /\ failed' = [failed EXCEPT ![m] = @ + 1]
        /\ reply' = None
        /\ UNCHANGED <<now, cache, effects, done, outcome, answers, interruptions>>
    BY <1>6 DEF Fail
  <2>2. TypeOK'
    BY <2>1 DEF TypeOK
  <2>3. Kept' /\ Honest' /\ Alone'
    BY <2>1 DEF Kept, Honest, Alone, Expiry
  <2>4. Counted'
    <3>1. \A n \in Commands \ {m} : Settled(n) => Settled(n)'
      BY <2>1 DEF Settled, Expired, Held, Remembered
    <3>2. /\ failed'[m] = failed[m] + 1 /\ \A n \in Commands \ {m} : failed'[n] = failed[n]
          /\ \A n \in Commands : done[n] \in Nat /\ failed[n] \in Nat
      BY <2>1 DEF TypeOK
    <3> QED BY <2>1, <3>1, <3>2 DEF Counted
  <2> QED BY <2>2, <2>3, <2>4
<1>7. CASE Restart
  <2>1. /\ now' \in Nat /\ cache' = [id \in Ids |-> None] /\ serving' = None
        /\ Interrupt /\ Forget
    BY <1>7 DEF Restart, TypeOK
  <2>2. cache' \in [Ids -> EntryOf \cup {None}] /\ Honest' /\ Alone'
    BY <2>1 DEF Honest, Alone
  <2> QED BY <2>1, <2>2, InterruptedStep
<1>8. ASSUME NEW t \in 0..MaxTime, SetBack(t) PROVE IInv'
  <2>1. /\ now' \in Nat /\ UNCHANGED <<cache, serving>> /\ Interrupt /\ Forget
    BY <1>8, BoundsAssumption DEF SetBack
  <2>2. cache' \in [Ids -> EntryOf \cup {None}] /\ serving' \in Commands \cup {None}
    BY <2>1 DEF TypeOK
  <2>3. \A m \in Commands :
          outcome'[m] = IF Forgotten(m)' THEN None ELSE outcome[m]
    BY <2>1 DEF Forget
  <2>4. ASSUME NEW n \in Commands, outcome'[n] # None, now' <= Expiry(n)
        PROVE  cache[n.id] # None /\ cache[n.id].command = n
    <3>1. ~Forgotten(n)'
      BY <2>3, <2>4
    <3>2. Held(n)'
      BY <2>4, <3>1 DEF Forgotten, Expiry
    <3> QED BY <2>1, <3>2 DEF Held, Remembered
  <2>5. Honest'
    <3> SUFFICES ASSUME NEW id \in Ids, cache[id] # None
                 PROVE  outcome'[cache[id].command] = cache[id].outcome
      BY <2>1 DEF Honest, Expiry
    <3>1. PICK m \in Commands : m = cache[id].command
      BY DEF TypeOK, EntryOf
    <3>2. m.id = id /\ cache[id].expires = Expiry(m) /\ outcome[m] = cache[id].outcome
      BY <3>1 DEF Honest
    <3>3. ~Forgotten(m)'
      BY <2>1, <3>1, <3>2 DEF Forgotten, Held, Remembered, Expiry
    <3> QED BY <2>3, <3>1, <3>2, <3>3
  <2>6. Alone'
    <3> SUFFICES ASSUME serving # None
                 PROVE  /\ outcome'[serving] = None /\ cache[serving.id] = None
                        /\ \A n \in Commands :
                             n.id = serving.id /\ outcome'[n] # None => now' > Expiry(n)
      BY <2>1 DEF Alone, Expiry
    <3>1. serving \in Commands /\ outcome[serving] = None /\ cache[serving.id] = None
      BY DEF Alone, TypeOK
    <3>2. ASSUME NEW n \in Commands, n.id = serving.id, outcome'[n] # None
          PROVE  now' > Expiry(n)
      <4>1. ~(now' <= Expiry(n))
        BY <2>4, <3>1, <3>2
      <4> QED BY <2>1, <4>1, ExpiryTyped
    <3>3. outcome'[serving] = None
      BY <2>3, <3>1
    <3> QED BY <3>1, <3>2, <3>3
  <2> QED BY <2>1, <2>2, <2>5, <2>6, InterruptedStep
<1> QED BY <1>1, <1>2, <1>3, <1>4, <1>5, <1>6, <1>7, <1>8 DEF Next, Handle

\* The invariant holds in every reachable state.
THEOREM Invariance == Spec => []IInv
<1> QED BY InitIInv, StepIInv, PTL DEF Spec

-----------------------------------------------------------------------------
(* What follows from it.                                                    *)

\* Every variable has its type, in every run of the handler.
THEOREM TypeCorrect == Spec => []TypeOK
<1>1. IInv => TypeOK
  BY DEF IInv
<1> QED BY <1>1, Invariance, PTL

\* handle() lets no command take effect twice, whatever is delivered again and
\* whenever, unless its dispatch raised an exception or the handler was set back
\* to a moment at which the command can be executed and is not cached.
THEOREM ExecutesOnceAlways == Spec => []ExecutesOnce
<1>1. IInv => ExecutesOnce
  <2> SUFFICES ASSUME IInv, NEW m \in Commands PROVE done[m] <= 1 + failed[m]
    BY DEF ExecutesOnce
  <2>1. done[m] <= failed[m] + (IF Settled(m) THEN 1 ELSE 0)
    BY DEF IInv, Counted
  <2>2. failed[m] \in Nat /\ done[m] \in Nat
    BY DEF IInv, TypeOK
  <2> QED BY <2>1, <2>2
<1> QED BY <1>1, Invariance, PTL

\* A request id that is still kept for an answered command is not executed for
\* another one.
THEOREM IdsAreNotSharedAlways == Spec => IdsAreNotShared
<1>1. IInv /\ [Next]_vars =>
        [\A m \in Commands : serving = None /\ serving' = m =>
           \A n \in Commands :
              n.id = m.id /\ outcome[n] # None => now > Expiry(n)]_vars
  <2> SUFFICES ASSUME IInv, Next, NEW m \in Commands, serving = None, serving' = m,
                      NEW n \in Commands, n.id = m.id, outcome[n] # None
               PROVE  now > Expiry(n)
    OBVIOUS
  <2>1. m # None
    BY NoneAssumption
  <2>2. PICK k \in Commands : Dispatch(k)
    BY <2>1 DEF Next, Handle, Clock, HandleAtOnce, Conclude, Fail, Restart, SetBack
  <2>3. k = m /\ ~Expired(m) /\ ~Remembered(m.id)
    BY <2>2 DEF Dispatch, TakeEffect
  <2> QED BY <2>3, NewIsUnanswered
<1> QED BY <1>1, Invariance, PTL DEF Spec, IdsAreNotShared

\* The handler implements OnceOnly: every reply that reports an outcome of a
\* command reports that of its one answered dispatch.
THEOREM ImplementsOnceOnly == Spec => AnswersOnce
<1>1. Init => Once!Init
  BY DEF Init, Once!Init
<1>2. IInv /\ [Next]_vars => [Once!Next]_(Once!abstractVars)
  <2> SUFFICES ASSUME IInv, [Next]_vars
               PROVE  Once!Next \/ UNCHANGED <<outcome, answers, interruptions>>
    BY DEF Once!abstractVars
  <2>1. CASE UNCHANGED vars
    BY <2>1 DEF vars
  <2>2. CASE Clock
    BY <2>2 DEF Clock
  <2>3. ASSUME NEW m \in Commands, HandleAtOnce(m)
        PROVE  Once!Next \/ UNCHANGED <<outcome, answers, interruptions>>
    <3>1. CASE HandleRepeated(m)
      <4>1. cache[m.id] # None /\ cache[m.id].command = m /\ m.id \in Ids
        BY <3>1 DEF HandleRepeated, Held, Remembered, Commands
      <4>2. outcome[m] = cache[m.id].outcome
        BY <4>1 DEF IInv, Honest
      <4>3. cache[m.id].outcome \in Outcomes
        BY <4>1 DEF IInv, TypeOK, EntryOf
      <4>4. outcome[m] # None
        BY <4>2, <4>3, NoneAssumption DEF Outcomes
      <4>5. Once!Answer(m)
        BY <2>3, <3>1, <4>2, <4>4 DEF Once!Answer, Once!Told, HandleRepeated, HandleAtOnce, Tell
      <4> QED BY <4>5 DEF Once!Next
    <3> QED BY <2>3, <3>1 DEF HandleAtOnce, HandleExpired, HandleConflict
  <2>4. ASSUME NEW m \in Commands, Dispatch(m)
        PROVE  UNCHANGED <<outcome, answers, interruptions>>
    BY <2>4 DEF Dispatch, TakeEffect
  <2>5. ASSUME NEW m \in Commands, Conclude(m) PROVE Once!Next
    <3>1. outcome[m] = None /\ effects \in Outcomes
      BY <2>5, NoneAssumption DEF Conclude, IInv, Alone, TypeOK
    <3>2. Once!Execute(m, effects)
      BY <2>5, <3>1 DEF Once!Execute, Once!Told, Conclude, Tell
    <3> QED BY <3>1, <3>2 DEF Once!Next
  <2>6. ASSUME NEW m \in Commands, Fail(m) PROVE UNCHANGED <<outcome, answers, interruptions>>
    BY <2>6 DEF Fail
  <2>7. ASSUME Interrupt, Forget PROVE Once!Next
    <3>1. outcome' = [m \in Commands |->
                        IF m \in {n \in Commands : Forgotten(n)'} THEN None ELSE outcome[m]]
      BY <2>7 DEF Forget
    <3>2. Once!Interrupt
      BY <2>7, <3>1 DEF Once!Interrupt, Interrupt
    <3> QED BY <3>2 DEF Once!Next
  <2> QED BY <2>1, <2>2, <2>3, <2>4, <2>5, <2>6, <2>7 DEF Next, Handle, Restart, SetBack
<1> QED BY <1>1, <1>2, Invariance, PTL DEF Spec, AnswersOnce, Once!Spec

=============================================================================
