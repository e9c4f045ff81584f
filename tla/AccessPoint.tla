---------------------------- MODULE AccessPoint ----------------------------
(***************************************************************************)
(* The access point service: the start script that systemd runs, which      *)
(* shares one radio with the station interface wlan0 and so has to use its  *)
(* channel, the cleaning script that follows every run, systemd's restarts  *)
(* and start limit, and the broker, which cannot bind its listeners before  *)
(* the access point's address exists.                                       *)
(*                                                                         *)
(* Time is counted in units longer than the script's own work: in a unit    *)
(* the script sets everything up or notices a change.                       *)
(***************************************************************************)
EXTENDS Naturals

CONSTANTS
    Freqs,       \* MHz: what the station's networks use
    StaWait,     \* STA_WAIT_SECONDS
    RestartSec,  \* nightshift-ap.service, as the next two
    Interval,    \* StartLimitIntervalSec
    Burst,       \* StartLimitBurst
    MaxMoves,    \* bound: changes of the station's association
    MaxFaults,   \* bound: failures and commands of an operator
    None         \* the station is not associated; or no such thing

ASSUME FreqsAssumption == Freqs \subseteq Nat /\ None \notin Nat
ASSUME BoundsAssumption ==
    /\ StaWait \in Nat /\ RestartSec \in Nat /\ Interval \in Nat
    /\ Burst \in Nat \ {0} /\ MaxMoves \in Nat /\ MaxFaults \in Nat

VARIABLES
    sta,     \* wlan0: the frequency of its association, or None
    phase,   \* where the start script is, or what systemd does without it
    timer,   \* units spent in this phase
    run,     \* the script's STA_FREQ and STA_CONNECTED, then its exit status
    ap,      \* hostapd, dnsmasq: running?; rules, address: in the kernel?
    limit,   \* systemd's rate limit: age of the window, starts in it
    broker,  \* mosquitto.service
    moves,   \* counts what MaxMoves bounds
    faults,  \* counts what MaxFaults bounds
    high     \* history: the station has been above 2.4 GHz

vars == <<sta, phase, timer, run, ap, limit, broker, moves, faults, high>>

environment == <<sta, moves, high>>

ScriptPhases == {"wait", "prepare", "enable", "monitor"}
Phases == ScriptPhases \cup {"post", "restart", "failed", "stopped"}

Undecided == [freq |-> None, connected |-> FALSE, status |-> None]
Nothing == [hostapd |-> FALSE, dnsmasq |-> FALSE, rules |-> FALSE, address |-> FALSE]

\* A 2.4 GHz channel, as the script tests it.
IsLow(f) == f # None /\ 2412 <= f /\ f <= 2472 /\ (f - 2407) % 5 = 0

\* Mutant: channels are counted from zero.
FallbackFreqZero == 2407

\* FALLBACK_CHANNEL = 1.
FallbackFreq == 2407 + 1 * 5

\* The service is started at boot.
Init ==
    /\ sta \in Freqs \cup {None}
    /\ phase = "wait" /\ timer = 0 /\ run = Undecided
    /\ ap = Nothing
    /\ limit = [age |-> 0, starts |-> 1]
    /\ broker = "waiting"
    /\ moves = 0 /\ faults = 0
    /\ high = (sta # None /\ ~IsLow(sta))

-----------------------------------------------------------------------------
(* nightshift-ap-start.                                                     *)

Goto(p) == phase' = p /\ timer' = 0

\* The loop that waits for the station, but not for ever.
Decide ==
    /\ phase = "wait"
    /\ \/ IsLow(sta) /\ run' = [run EXCEPT !.freq = sta, !.connected = TRUE]
       \/ ~IsLow(sta) /\ timer >= StaWait /\ run' = [run EXCEPT !.freq = FallbackFreq]
    /\ Goto("prepare")
    /\ UNCHANGED <<environment, ap, limit, broker, faults>>

\* ap0 gets its address, then hostapd is started on the channel.
Prepare ==
    /\ phase = "prepare"
    /\ Goto("enable")
    /\ ap' = [ap EXCEPT !.address = TRUE, !.hostapd = TRUE]
    /\ UNCHANGED <<environment, run, limit, broker, faults>>

\* hostapd is enabled: forward what AP clients send, if the script has seen a
\* station, and serve addresses.
Serve ==
    /\ phase = "enable" /\ ap.hostapd
    /\ Goto("monitor")
    /\ ap' = [ap EXCEPT !.address = TRUE, !.dnsmasq = TRUE,
                        !.rules = @ \/ run.connected]
    /\ UNCHANGED <<environment, run, limit, broker, faults>>

\* Mutant: a station that is gone has another frequency, too.
StationMovedOrLeft == sta # run.freq

\* Mutant: the loop compares 2.4 GHz frequencies only.
StationMovedLow == IsLow(sta) /\ sta # run.freq

\* The monitoring loop: the association is complete, on another frequency.
StationMoved == sta # None /\ sta # run.freq

\* The script ends, by itself or because `set -e` or a signal ends it: its
\* trap kills the children.  systemd looks at the exit status.
End(status) ==
    /\ Goto("post")
    /\ run' = [run EXCEPT !.status = status]
    /\ ap' = [ap EXCEPT !.hostapd = FALSE, !.dnsmasq = FALSE]
    /\ UNCHANGED <<environment, limit, broker>>

Monitor ==
    /\ phase = "monitor"
    /\ \/ StationMoved /\ End(75)
       \/ ~(ap.hostapd /\ ap.dnsmasq) /\ End(1)
    /\ UNCHANGED faults

\* hostapd has ended before it was enabled: its status is the script's.
HostapdEnded ==
    /\ phase = "enable" /\ ~ap.hostapd
    /\ \E status \in {0, 1} : End(status)
    /\ UNCHANGED faults

\* The radio cannot serve two channels: hostapd is never enabled.
RadioRefuses ==
    /\ phase = "enable" /\ ap.hostapd /\ StationMoved
    /\ End(1) /\ UNCHANGED faults

-----------------------------------------------------------------------------
(* nightshift-ap-stop, and systemd (nightshift-ap.service).                 *)

After == IF run.status = 0 THEN "stopped" ELSE "restart"

\* Mutant: the forwarding rules are left in the kernel.
StopPostKeepsRules ==
    /\ phase = "post"
    /\ Goto(After)
    /\ run' = Undecided
    /\ ap' = [ap EXCEPT !.address = FALSE]
    /\ UNCHANGED <<environment, limit, broker, faults>>

\* ExecStopPost: the rules, the address and the runtime files are removed.
StopPost ==
    /\ phase = "post"
    /\ Goto(After)
    /\ run' = Undecided
    /\ ap' = [ap EXCEPT !.rules = FALSE, !.address = FALSE]
    /\ UNCHANGED <<environment, limit, broker, faults>>

\* A start, within the limit: systemd counts starts in a window that begins
\* with the first of them.
StartScript ==
    /\ IF limit.age > Interval
         THEN limit' = [age |-> 0, starts |-> 1] /\ Goto("wait")
         ELSE IF limit.starts < Burst
         THEN limit' = [limit EXCEPT !.starts = @ + 1] /\ Goto("wait")
         ELSE limit' = limit /\ Goto("failed")
    /\ UNCHANGED <<environment, run, ap, broker, faults>>

\* Restart=on-failure.
Restart == phase = "restart" /\ timer >= RestartSec /\ StartScript

-----------------------------------------------------------------------------
(* Failures, and commands of an operator.                                   *)

Fault == faults < MaxFaults /\ faults' = faults + 1

\* The script fails: another hostapd, no ap0, hostapd not enabled in time.
ScriptFails == phase \in {"wait", "prepare", "enable"} /\ Fault /\ End(1)

ChildDies ==
    /\ Fault
    /\ \/ ap.hostapd /\ ap' = [ap EXCEPT !.hostapd = FALSE]
       \/ ap.dnsmasq /\ ap' = [ap EXCEPT !.dnsmasq = FALSE]
    /\ UNCHANGED <<environment, phase, timer, run, limit, broker>>

\* nightshift-ap-down: the children are killed by their pid files and ap0 is
\* removed, but the service is not stopped.
ApDown ==
    /\ phase \in {"enable", "monitor"} /\ Fault
    /\ ap' = [ap EXCEPT !.hostapd = FALSE, !.dnsmasq = FALSE, !.address = FALSE]
    /\ UNCHANGED <<environment, phase, timer, run, limit, broker>>

\* systemctl stop: SIGTERM, which the script answers with status 0.
Stop == phase \in ScriptPhases /\ Fault /\ End(0)

\* systemctl start.
Start == phase = "stopped" /\ StartScript

-----------------------------------------------------------------------------
(* mosquitto.service, and the environment (external).                       *)

\* ExecStartPre ends when ap0 has the address.
BrokerStarts ==
    /\ broker = "waiting" /\ ap.address
    /\ broker' = "starting"
    /\ UNCHANGED <<environment, phase, timer, run, ap, limit, faults>>

\* All listeners are bound, or none: without the address the broker fails and
\* systemd starts it again.
BrokerBinds ==
    /\ broker = "starting"
    /\ broker' = IF ap.address THEN "running" ELSE "waiting"
    /\ UNCHANGED <<environment, phase, timer, run, ap, limit, faults>>

\* The station roams, loses its network or finds one; the roam that the
\* script asks for while it waits is one such change.
Move(f) ==
    /\ moves < MaxMoves /\ f # sta
    /\ moves' = moves + 1
    /\ sta' = f
    /\ high' = (high \/ (f # None /\ ~IsLow(f)))
    /\ UNCHANGED <<phase, timer, run, ap, limit, broker, faults>>

\* The script or systemd has something to do that takes less than a unit.
Urgent ==
    \/ phase = "wait" /\ (IsLow(sta) \/ timer >= StaWait)
    \/ phase \in {"prepare", "enable", "post"}
    \/ phase = "monitor" /\ (StationMoved \/ ~(ap.hostapd /\ ap.dnsmasq))
    \/ phase = "restart" /\ timer >= RestartSec

Tick ==
    /\ ~Urgent
    /\ timer' = IF phase \in {"wait", "restart"} THEN timer + 1 ELSE timer
    /\ limit' = [limit EXCEPT !.age = IF @ > Interval THEN @ ELSE @ + 1]
    /\ UNCHANGED <<environment, phase, run, ap, broker, faults>>

-----------------------------------------------------------------------------
Script == Decide \/ Prepare \/ Serve \/ Monitor \/ HostapdEnded

Service == Script \/ StopPost \/ Restart

Broker == BrokerStarts \/ BrokerBinds

Next ==
    \/ Service \/ Broker \/ RadioRefuses
    \/ ScriptFails \/ ChildDies \/ ApDown \/ Stop \/ Start
    \/ \E f \in Freqs \cup {None} : Move(f)
    \/ Tick

Spec == Init /\ [][Next]_vars

\* Scripts run, time passes, the broker is started again and again.
FairSpec == Spec /\ WF_vars(Service) /\ WF_vars(Tick) /\ WF_vars(Broker)

-----------------------------------------------------------------------------
(* Properties.                                                              *)

\* Every variable has its type, and hostapd is given a 2.4 GHz channel.
TypeOK ==
    /\ sta \in Freqs \cup {None}
    /\ phase \in Phases
    /\ timer \in Nat
    /\ run \in [freq: Freqs \cup {FallbackFreq, None}, connected: BOOLEAN,
                status: {0, 1, 75, None}]
    /\ phase \in {"prepare", "enable", "monitor"} => IsLow(run.freq)
    /\ ap \in [hostapd: BOOLEAN, dnsmasq: BOOLEAN, rules: BOOLEAN, address: BOOLEAN]
    /\ limit \in [age: 0..Interval + 1, starts: 1..Burst]
    /\ broker \in {"waiting", "starting", "running"}
    /\ moves \in 0..MaxMoves /\ faults \in 0..MaxFaults /\ high \in BOOLEAN

\* Forwarding belongs to the run that saw the station: whatever ended earlier
\* runs, a standalone access point forwards nothing, nor does the host when
\* the service is down.
RulesAreOwned ==
    ap.rules => phase \in {"monitor", "post"} /\ run.connected

\* A station that is on a 2.4 GHz network or on none cannot make systemd give
\* up: only a burst of moves and faults can.  Above 2.4 GHz it can by merely
\* being there, for then every run ends when it sees the station.
GivesUpForAReason == phase = "failed" => high \/ faults + moves >= Burst

Serving == phase = "monitor" /\ ap.hostapd /\ ap.dnsmasq /\ ap.address

\* The header of the script: in the end the service is down, or the access
\* point serves on the channel of the station, if there is one, and forwards
\* to it, and the broker's listeners are bound.  It does not forward to a
\* station that came to the fallback channel after the wait was over.
Settles ==
    \/ <>[](phase \in {"failed", "stopped"})
    \/ <>[](/\ Serving /\ broker = "running"
            /\ sta # None => /\ sta = run.freq
                             /\ ap.rules \/ sta = FallbackFreq)
=============================================================================
