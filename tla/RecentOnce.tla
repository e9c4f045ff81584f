----------------------------- MODULE RecentOnce -----------------------------
(***************************************************************************)
(* What the gateway promises a panel that sends its requests again until    *)
(* they are answered: a request is executed when none of its number is      *)
(* remembered, the last ones executed are remembered, and every answer      *)
(* with an outcome is that of a remembered request: the same number, the    *)
(* same content, and the one execution that has this outcome.               *)
(* UartSession implements it.                                               *)
(***************************************************************************)
EXTENDS Naturals, Sequences

CONSTANTS
    Numbers,  \* what tells requests apart
    Contents, \* what they ask for
    Outcomes, \* what executions result in
    Size      \* how many are remembered

VARIABLES
    memory, \* the [request, outcome] pairs remembered, oldest first
    answers \* the pairs that the panel was told

Requests == [number: Numbers, content: Contents]

Init == memory = <<>> /\ answers = {}

Execute(r, o) ==
    /\ \A i \in DOMAIN memory : memory[i].request.number # r.number /\ memory[i].outcome # o
    /\ \A t \in answers : t.outcome # o
    /\ memory' = Append(IF Len(memory) < Size THEN memory ELSE Tail(memory),
                        [request |-> r, outcome |-> o])
    /\ UNCHANGED answers

Answer(i) ==
    /\ answers' = answers \cup {memory[i]}
    /\ UNCHANGED memory

\* The panel or the program starts again.
Forget == memory' = <<>> /\ UNCHANGED answers

Next ==
    \/ \E r \in Requests, o \in Outcomes : Execute(r, o)
    \/ \E i \in DOMAIN memory : Answer(i)
    \/ Forget

Spec == Init /\ [][Next]_<<memory, answers>>

-----------------------------------------------------------------------------
\* No execution is ever reported for two requests, however long ago the first was
\* forgotten.
OneRequestEach ==
    \A t, u \in answers \cup {memory[i] : i \in DOMAIN memory} : t.outcome = u.outcome => t = u
=============================================================================
