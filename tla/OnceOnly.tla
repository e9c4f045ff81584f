------------------------------ MODULE OnceOnly ------------------------------
(***************************************************************************)
(* What the MQTT command handler promises to a client that publishes a      *)
(* command again, or whose command the broker delivers twice: a request     *)
(* takes effect at most once, and every answer that reports an outcome      *)
(* reports the outcome of that one execution.  Only an interruption may make *)
(* it forget a request.  MqttCommands implements it.                        *)
(***************************************************************************)
EXTENDS Naturals

CONSTANTS
    Requests, \* what a sender can ask for, repetitions being one request
    Outcomes, \* what an execution can result in
    None      \* not an outcome

VARIABLES
    outcome, \* request -> the outcome of its execution, or None
    answers, \* the [request, outcome] pairs that senders were told
    interruptions \* how often the handler was interrupted

abstractVars == <<outcome, answers, interruptions>>

Init ==
    /\ outcome = [r \in Requests |-> None]
    /\ answers = {}
    /\ interruptions = 0

Told(r, o) == answers \cup {[request |-> r, outcome |-> o]}

\* The sender is told the outcome, or not: its session with
\* the broker may be gone by now.
Execute(r, o) ==
    /\ outcome[r] = None
    /\ outcome' = [outcome EXCEPT ![r] = o]
    /\ answers' \in {answers, Told(r, o)}
    /\ UNCHANGED interruptions

Answer(r) ==
    /\ outcome[r] # None
    /\ answers' = Told(r, outcome[r])
    /\ UNCHANGED <<outcome, interruptions>>

\* Some requests are forgotten.
Interrupt ==
    /\ interruptions' = interruptions + 1
    /\ \E F \in SUBSET Requests :
          outcome' = [r \in Requests |-> IF r \in F THEN None ELSE outcome[r]]
    /\ UNCHANGED answers

Next ==
    \/ \E r \in Requests : Answer(r) \/ \E o \in Outcomes : Execute(r, o)
    \/ Interrupt

Spec == Init /\ [][Next]_abstractVars

=============================================================================
