----------------------------- MODULE PlanPromise -----------------------------
(***************************************************************************)
(* What Station 2 promises a user, without jobs, requests or failures: a   *)
(* row of hypotheses that only grows, and for each of them at most one     *)
(* plan, which is proposed whole, started or put away, and never edited    *)
(* into something else.                                                    *)
(***************************************************************************)
EXTENDS Naturals

CONSTANTS
    MaxRows,        \* bound: hypotheses of the user
    Proposal,       \* the trees a plan may show
    Nothing         \* no tree

VARIABLES
    rows,           \* hypotheses so far
    version,        \* version[h]: the version number row h carries
    plan,           \* plan[h]: what the client sees of its plan
    proposal        \* proposal[h]: the tree that plan shows

vars == <<rows, version, plan, proposal>>

Rows == 1..MaxRows

Init ==
    /\ rows = 0
    /\ version = [h \in Rows |-> 0]
    /\ plan = [h \in Rows |-> "absent"]
    /\ proposal = [h \in Rows |-> Nothing]

Append ==
    /\ rows < MaxRows
    /\ rows' = rows + 1
    /\ version' = [version EXCEPT ![rows + 1] = rows]
    /\ UNCHANGED <<plan, proposal>>

Open(h) ==
    /\ h <= rows
    /\ plan[h] = "absent"
    /\ plan' = [plan EXCEPT ![h] = "generating"]
    /\ UNCHANGED <<rows, version, proposal>>

Propose(h) ==
    /\ plan[h] = "generating"
    /\ plan' = [plan EXCEPT ![h] = "draft"]
    /\ \E p \in Proposal : proposal' = [proposal EXCEPT ![h] = p]
    /\ UNCHANGED <<rows, version>>

Fail(h) ==
    /\ plan[h] = "generating"
    /\ plan' = [plan EXCEPT ![h] = "failed"]
    /\ UNCHANGED <<rows, version, proposal>>

Activate(h) ==
    /\ plan[h] = "draft"
    /\ plan' = [plan EXCEPT ![h] = "active"]
    /\ UNCHANGED <<rows, version, proposal>>

Archive(h) ==
    /\ plan[h] \in {"draft", "active"}
    /\ plan' = [plan EXCEPT ![h] = "archived"]
    /\ UNCHANGED <<rows, version, proposal>>

Next ==
    \/ Append
    \/ \E h \in Rows : Open(h) \/ Propose(h) \/ Fail(h) \/ Activate(h) \/ Archive(h)

Spec == Init /\ [][Next]_vars
=============================================================================
