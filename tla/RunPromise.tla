----------------------------- MODULE RunPromise ------------------------------
(***************************************************************************)
(* What Station 1 promises a user, without jobs, handlers or transactions: *)
(* a run is worked on until it is concluded, all at once, or given up, for *)
(* good; and a client is told the whole of what a run has concluded, as it *)
(* is, or nothing.                                                         *)
(***************************************************************************)
EXTENDS Naturals

CONSTANTS
    MaxRuns,        \* bound: runs the user ever starts
    Client,         \* those who ask
    Findings,       \* what a run may conclude
    Nothing         \* no findings

VARIABLES
    runs,           \* runs so far
    phase,          \* phase[r]: how far run r has come
    findings,       \* findings[r]: what it has concluded
    told            \* told[c]: the findings client c has been told

vars == <<runs, phase, findings, told>>

Runs == 1..MaxRuns

Init ==
    /\ runs = 0
    /\ phase = [r \in Runs |-> "absent"]
    /\ findings = [r \in Runs |-> Nothing]
    /\ told = [c \in Client |-> Nothing]

Start ==
    /\ runs < MaxRuns
    /\ runs' = runs + 1
    /\ phase' = [phase EXCEPT ![runs + 1] = "working"]
    /\ UNCHANGED <<findings, told>>

Conclude(r) ==
    /\ phase[r] = "working"
    /\ phase' = [phase EXCEPT ![r] = "ready"]
    /\ \E f \in Findings : findings' = [findings EXCEPT ![r] = f]
    /\ UNCHANGED <<runs, told>>

GiveUp(r) ==
    /\ phase[r] = "working"
    /\ phase' = [phase EXCEPT ![r] = "failed"]
    /\ UNCHANGED <<runs, findings, told>>

Tell(c, r) ==
    /\ phase[r] = "ready"
    /\ told' = [told EXCEPT ![c] = findings[r]]
    /\ UNCHANGED <<runs, phase, findings>>

Leave(c) ==
    /\ told' = [told EXCEPT ![c] = Nothing]
    /\ UNCHANGED <<runs, phase, findings>>

Next ==
    \/ Start
    \/ \E r \in Runs : Conclude(r) \/ GiveUp(r)
    \/ \E c \in Client : Leave(c) \/ \E r \in Runs : Tell(c, r)

Spec == Init /\ [][Next]_vars
=============================================================================
