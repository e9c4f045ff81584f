------------------------- MODULE AccessPointProofs -------------------------
(* Proofs about AccessPoint, for any frequencies, waits, limits and bounds. *)
EXTENDS AccessPoint, TLAPS

-----------------------------------------------------------------------------
(* Type correctness.                                                        *)

LEMMA FallbackIsLow == IsLow(FallbackFreq)
<1>1. FallbackFreq = 2412
  BY DEF FallbackFreq
<1>2. (2412 - 2407) % 5 = 0
  OBVIOUS
<1> QED BY <1>1, <1>2, FreqsAssumption DEF IsLow

RunType == [freq: Freqs \cup {FallbackFreq, None}, connected: BOOLEAN,
            status: {0, 1, 75, None}]

LEMMA InitTypeOK == Init => TypeOK
<1> SUFFICES ASSUME Init PROVE TypeOK
  OBVIOUS
<1>1. limit \in [age: 0..Interval + 1, starts: 1..Burst]
  BY BoundsAssumption DEF Init
<1> QED BY <1>1, BoundsAssumption
        DEF Init, TypeOK, Phases, ScriptPhases, Undecided, Nothing

LEMMA StartScriptTyped ==
    ASSUME TypeOK, StartScript
    PROVE  TypeOK'
<1>1. limit' \in [age: 0..Interval + 1, starts: 1..Burst]
  BY BoundsAssumption DEF StartScript, TypeOK
<1>2. timer' \in Nat /\ phase' \in {"wait", "failed"}
  BY DEF StartScript, Goto
<1> QED BY <1>1, <1>2 DEF StartScript, environment, TypeOK, Phases, ScriptPhases

LEMMA EndTyped ==
    ASSUME TypeOK, NEW s \in {0, 1, 75}, End(s), faults' \in 0..MaxFaults
    PROVE  TypeOK'
<1>1. phase' = "post" /\ timer' = 0
  BY DEF End, Goto
<1> QED BY <1>1 DEF End, environment, TypeOK, Phases

LEMMA FaultTyped == TypeOK /\ Fault => faults' \in 0..MaxFaults
BY BoundsAssumption DEF TypeOK, Fault

LEMMA NextTypeOK == TypeOK /\ [Next]_vars => TypeOK'
<1> SUFFICES ASSUME TypeOK, [Next]_vars PROVE TypeOK'
  OBVIOUS
<1> USE DEF environment, Goto
<1>1. CASE Decide
  <2>1. ASSUME IsLow(sta), run' = [run EXCEPT !.freq = sta, !.connected = TRUE]
        PROVE  run' \in RunType /\ IsLow(run'.freq)
    BY <2>1 DEF TypeOK, RunType
  <2>2. ASSUME run' = [run EXCEPT !.freq = FallbackFreq]
        PROVE  run' \in RunType /\ IsLow(run'.freq)
    BY <2>2, FallbackIsLow DEF TypeOK, RunType
  <2>3. run' \in RunType /\ IsLow(run'.freq)
    BY <1>1, <2>1, <2>2 DEF Decide
  <2> QED BY <1>1, <2>3 DEF Decide, TypeOK, RunType, Phases, ScriptPhases
<1>2. CASE Prepare
  BY <1>2 DEF Prepare, TypeOK, Phases, ScriptPhases
<1>3. CASE Serve
  BY <1>3 DEF Serve, TypeOK, Phases, ScriptPhases
<1>4. CASE Monitor \/ HostapdEnded \/ RadioRefuses
  <2>1. faults' \in 0..MaxFaults
    BY <1>4 DEF Monitor, HostapdEnded, RadioRefuses, TypeOK
  <2> QED BY <1>4, <2>1, EndTyped DEF Monitor, HostapdEnded, RadioRefuses
<1>5. CASE StopPost
  BY <1>5 DEF StopPost, After, Undecided, TypeOK, Phases
<1>6. CASE Restart \/ Start
  BY <1>6, StartScriptTyped DEF Restart, Start
<1>7. CASE Broker
  BY <1>7 DEF Broker, BrokerStarts, BrokerBinds, TypeOK
<1>8. CASE ScriptFails \/ Stop
  BY <1>8, EndTyped, FaultTyped DEF ScriptFails, Stop
<1>9. CASE ChildDies \/ ApDown
  <2>1. faults' \in 0..MaxFaults
    BY <1>9, FaultTyped DEF ChildDies, ApDown
  <2>2. ap' \in [hostapd: BOOLEAN, dnsmasq: BOOLEAN, rules: BOOLEAN, address: BOOLEAN]
    BY <1>9 DEF ChildDies, ApDown, TypeOK
  <2>3. UNCHANGED <<sta, moves, high, phase, timer, run, limit, broker>>
    BY <1>9 DEF ChildDies, ApDown
  <2> QED BY <2>1, <2>2, <2>3 DEF TypeOK
<1>10. ASSUME NEW f \in Freqs \cup {None}, Move(f) PROVE TypeOK'
  <2>1. high' \in BOOLEAN /\ moves' \in 0..MaxMoves
    BY <1>10, BoundsAssumption DEF Move, TypeOK
  <2> QED BY <1>10, <2>1 DEF Move, TypeOK
<1>11. CASE Tick
  <2>1. limit' \in [age: 0..Interval + 1, starts: 1..Burst]
    BY <1>11, BoundsAssumption DEF Tick, TypeOK
  <2> QED BY <1>11, <2>1 DEF Tick, TypeOK
<1>12. CASE UNCHANGED vars
  BY <1>12 DEF vars, TypeOK
<1> QED BY <1>1, <1>2, <1>3, <1>4, <1>5, <1>6, <1>7, <1>8, <1>9, <1>10, <1>11, <1>12
        DEF Next, Service, Script

\* hostapd is only ever given a channel of the 2.4 GHz band, and no start is
\* counted beyond the limit.
THEOREM TypeCorrect == Spec => []TypeOK
BY InitTypeOK, NextTypeOK, PTL DEF Spec

-----------------------------------------------------------------------------
(* The rules.                                                               *)

LEMMA NextRules == TypeOK /\ RulesAreOwned /\ [Next]_vars => RulesAreOwned'
<1> SUFFICES ASSUME TypeOK, RulesAreOwned, [Next]_vars PROVE RulesAreOwned'
  OBVIOUS
<1> USE DEF RulesAreOwned, environment, Goto, TypeOK
<1>1. CASE Script \/ RadioRefuses
  BY <1>1 DEF Script, Decide, Prepare, Serve, Monitor, HostapdEnded, RadioRefuses, End
<1>2. CASE StopPost
  BY <1>2 DEF StopPost
<1>3. CASE Restart \/ Start
  BY <1>3 DEF Restart, Start, StartScript
<1>4. CASE Broker
  BY <1>4 DEF Broker, BrokerStarts, BrokerBinds
<1>5. CASE ScriptFails \/ Stop
  BY <1>5 DEF ScriptFails, Stop, End, ScriptPhases
<1>6. CASE ChildDies \/ ApDown
  BY <1>6 DEF ChildDies, ApDown
<1>7. ASSUME NEW f \in Freqs \cup {None}, Move(f) PROVE RulesAreOwned'
  BY <1>7 DEF Move
<1>8. CASE Tick
  BY <1>8 DEF Tick
<1>9. CASE UNCHANGED vars
  BY <1>9 DEF vars
<1> QED BY <1>1, <1>2, <1>3, <1>4, <1>5, <1>6, <1>7, <1>8, <1>9 DEF Next, Service

\* nightshift-ap-stop makes it true: no run inherits the forwarding of another.
THEOREM RulesAlwaysOwned == Spec => []RulesAreOwned
<1>1. Init => RulesAreOwned
  BY DEF Init, Nothing, RulesAreOwned
<1> QED BY <1>1, InitTypeOK, NextTypeOK, NextRules, PTL DEF Spec

-----------------------------------------------------------------------------
(* Giving up.  Every start in the window has been answered by a move or a   *)
(* fault, except the one that is running now and not doomed yet.            *)

Alive == phase \in ScriptPhases

Doomed ==
    \/ phase \in {"prepare", "enable", "monitor"} /\ StationMoved
    \/ phase \in {"enable", "monitor"} /\ ~ap.hostapd
    \/ phase = "monitor" /\ ~ap.dnsmasq

Accounted ==
    /\ ~high => sta = None \/ IsLow(sta)
    /\ phase = "failed" => limit.starts >= Burst
    /\ high \/ limit.starts + (IF Doomed THEN 1 ELSE 0)
                 <= faults + moves + (IF Alive THEN 1 ELSE 0)

\* A run that ends although it was doomed, or by a fault.
LEMMA EndAccounted ==
    ASSUME TypeOK, Accounted, NEW s, End(s), Alive, faults' \in Nat,
           \/ Doomed /\ faults' = faults
           \/ faults' = faults + 1
    PROVE  Accounted'
<1>1. ~Doomed' /\ ~Alive' /\ phase' = "post"
  BY DEF End, Goto, Doomed, Alive, ScriptPhases
<1>2. UNCHANGED <<sta, high, moves, limit>>
  BY DEF End, environment
<1>3. limit.starts \in Nat /\ faults \in Nat /\ moves \in Nat
  BY BoundsAssumption DEF TypeOK
<1> QED BY <1>1, <1>2, <1>3 DEF Accounted

\* A move or a fault that may doom the run.
LEMMA BlowAccounted ==
    ASSUME TypeOK, Accounted, UNCHANGED <<phase, limit>>, faults' \in Nat, moves' \in Nat,
           \/ faults' = faults + 1 /\ moves' = moves
           \/ faults' = faults /\ moves' = moves + 1,
           high => high',
           ~high' => sta' = None \/ IsLow(sta')
    PROVE  Accounted'
<1>1. limit.starts \in Nat /\ faults \in Nat /\ moves \in Nat
  BY BoundsAssumption DEF TypeOK
<1>2. Alive' = Alive
  BY DEF Alive
<1>3. limit'.starts = limit.starts
  OBVIOUS
<1>4. ASSUME ~high'
      PROVE  limit.starts + (IF Doomed THEN 1 ELSE 0)
               <= faults + moves + (IF Alive THEN 1 ELSE 0)
  BY <1>4 DEF Accounted
<1>5. ASSUME ~high'
      PROVE  limit.starts + 1 <= faults' + moves' + (IF Alive THEN 1 ELSE 0)
  <2>1. limit.starts <= faults + moves + (IF Alive THEN 1 ELSE 0)
    BY <1>1, <1>4, <1>5
  <2>2. CASE Alive
    BY <1>1, <2>1, <2>2
  <2>3. CASE ~Alive
    BY <1>1, <2>1, <2>3
  <2> QED BY <2>2, <2>3
<1>6. ASSUME ~high'
      PROVE  limit'.starts + (IF Doomed' THEN 1 ELSE 0)
               <= faults' + moves' + (IF Alive' THEN 1 ELSE 0)
  <2>1. CASE Alive
    BY <1>1, <1>2, <1>3, <1>5, <1>6, <2>1
  <2>2. CASE ~Alive
    BY <1>1, <1>2, <1>3, <1>5, <1>6, <2>2
  <2> QED BY <2>1, <2>2
<1> QED BY <1>6 DEF Accounted

\* A step of a run that stays as doomed as it was.
LEMMA QuietAccounted ==
    ASSUME TypeOK, Accounted, UNCHANGED <<sta, high, moves, faults>>,
           limit'.starts = limit.starts, Alive' = Alive, Doomed' => Doomed,
           phase' = "failed" => phase = "failed"
    PROVE  Accounted'
<1>1. limit.starts \in Nat /\ faults \in Nat /\ moves \in Nat
  BY BoundsAssumption DEF TypeOK
<1> QED BY <1>1 DEF Accounted

LEMMA StartAccounted ==
    ASSUME TypeOK, Accounted, StartScript, phase \in {"restart", "stopped"}
    PROVE  Accounted'
<1>1. limit.starts \in Nat /\ faults \in Nat /\ moves \in Nat /\ ~Alive
  BY BoundsAssumption DEF TypeOK, Alive, ScriptPhases
<1>2. UNCHANGED <<sta, high, moves, faults>>
  BY DEF StartScript, environment
<1>3. CASE phase' = "wait"
  <2>1. Alive' /\ ~Doomed'
    BY <1>3 DEF Alive, ScriptPhases, Doomed
  <2>2. limit'.starts \in {1, limit.starts + 1}
    BY <1>3 DEF StartScript, Goto, TypeOK
  <2> QED BY <1>1, <1>2, <1>3, <2>1, <2>2 DEF Accounted
<1>4. CASE phase' = "failed"
  <2>1. ~Alive' /\ ~Doomed'
    BY <1>4 DEF Alive, ScriptPhases, Doomed
  <2>2. limit' = limit /\ ~(limit.starts < Burst)
    BY <1>4 DEF StartScript, Goto
  <2> QED BY <1>1, <1>2, <2>1, <2>2, BoundsAssumption DEF Accounted
<1> QED BY <1>3, <1>4 DEF StartScript, Goto

LEMMA NextAccounted == TypeOK /\ TypeOK' /\ Accounted /\ [Next]_vars => Accounted'
<1> SUFFICES ASSUME TypeOK, TypeOK', Accounted, [Next]_vars PROVE Accounted'
  OBVIOUS
<1>0. faults \in Nat /\ moves \in Nat /\ faults' \in Nat /\ moves' \in Nat
  BY BoundsAssumption DEF TypeOK
<1>1. CASE Decide
  <2>1. Alive' /\ Alive /\ phase' # "failed"
    BY <1>1 DEF Decide, Goto, Alive, ScriptPhases
  <2>2. UNCHANGED <<sta, high, moves, faults, limit>>
    BY <1>1 DEF Decide, environment
  <2>3. ~high => ~Doomed'
    BY <1>1, <2>2 DEF Decide, Goto, Doomed, StationMoved, Accounted, TypeOK
  <2> QED BY <1>0, <2>1, <2>2, <2>3, BoundsAssumption DEF Accounted, TypeOK
<1>2. CASE Prepare
  BY <1>2, QuietAccounted
     DEF Prepare, Goto, environment, Alive, ScriptPhases, Doomed, StationMoved, TypeOK
<1>3. CASE Serve
  BY <1>3, QuietAccounted
     DEF Serve, Goto, environment, Alive, ScriptPhases, Doomed, StationMoved, TypeOK
<1>4. CASE Monitor \/ HostapdEnded \/ RadioRefuses
  <2>1. Doomed /\ Alive /\ faults' = faults /\ \E s : End(s)
    BY <1>4 DEF Monitor, HostapdEnded, RadioRefuses, Doomed, Alive, ScriptPhases
  <2> QED BY <1>0, <2>1, EndAccounted
<1>5. CASE StopPost
  BY <1>5, QuietAccounted
     DEF StopPost, After, Goto, environment, Alive, ScriptPhases, Doomed
<1>6. CASE Restart \/ Start
  BY <1>6, StartAccounted DEF Restart, Start
<1>7. CASE Broker
  BY <1>7, QuietAccounted
     DEF Broker, BrokerStarts, BrokerBinds, environment, Alive, Doomed, StationMoved
<1>8. CASE ScriptFails \/ Stop
  <2>1. Alive /\ faults' = faults + 1 /\ \E s : End(s)
    BY <1>8 DEF ScriptFails, Stop, Fault, Alive, ScriptPhases
  <2> QED BY <1>0, <2>1, EndAccounted
<1>9. CASE ChildDies \/ ApDown
  <2>1. UNCHANGED <<sta, high, moves, phase, limit>> /\ faults' = faults + 1
    BY <1>9 DEF ChildDies, ApDown, environment, Fault
  <2> QED BY <1>0, <2>1, BlowAccounted DEF Accounted
<1>10. ASSUME NEW f \in Freqs \cup {None}, Move(f) PROVE Accounted'
  <2>1. ~high' => sta' = None \/ IsLow(sta')
    BY <1>10 DEF Move
  <2>2. UNCHANGED <<phase, limit>> /\ faults' = faults /\ moves' = moves + 1
    BY <1>10 DEF Move
  <2>3. high => high'
    BY <1>10 DEF Move
  <2> QED BY <1>0, <2>1, <2>2, <2>3, BlowAccounted
<1>11. CASE Tick
  <2>1. limit'.starts = limit.starts
    BY <1>11 DEF Tick, TypeOK
  <2> QED BY <1>11, <2>1, QuietAccounted
          DEF Tick, environment, Alive, Doomed, StationMoved
<1>12. CASE UNCHANGED vars
  BY <1>12, QuietAccounted DEF vars, Alive, Doomed, StationMoved
<1> QED BY <1>1, <1>2, <1>3, <1>4, <1>5, <1>6, <1>7, <1>8, <1>9, <1>10, <1>11, <1>12
        DEF Next, Service, Script

\* systemd gives the service up only after a burst of moves and faults, unless
\* the station uses a band that the access point cannot share.
THEOREM GivesUpOnlyForAReason == Spec => []GivesUpForAReason
<1>1. Init => Accounted
  <2> SUFFICES ASSUME Init PROVE Accounted
    OBVIOUS
  <2>1. ~Doomed /\ Alive /\ phase # "failed"
    BY DEF Init, Doomed, Alive, ScriptPhases
  <2>2. limit.starts = 1 /\ faults = 0 /\ moves = 0
    BY DEF Init
  <2>3. ~high => sta = None \/ IsLow(sta)
    BY DEF Init
  <2> QED BY <2>1, <2>2, <2>3 DEF Accounted
<1>2. TypeOK /\ Accounted => GivesUpForAReason
  <2> SUFFICES ASSUME TypeOK, Accounted, phase = "failed", ~high
               PROVE  faults + moves >= Burst
    BY DEF GivesUpForAReason
  <2>1. ~Alive /\ ~Doomed
    BY DEF Alive, ScriptPhases, Doomed
  <2>2. limit.starts \in Nat /\ faults \in Nat /\ moves \in Nat
    BY BoundsAssumption DEF TypeOK
  <2> QED BY <2>1, <2>2, BoundsAssumption DEF Accounted
<1> QED BY <1>1, <1>2, InitTypeOK, NextTypeOK, NextAccounted, PTL DEF Spec
=============================================================================
