---------------------------- MODULE PlanLifecycle ----------------------------
(***************************************************************************)
(* Station 2: one user's hypotheses and the plan of each, from the request *)
(* that settles on a shape to the plan put away.                           *)
(*                                                                         *)
(* API requests append hypotheses (CreateHypothesis, and DecideReconcili-  *)
(* ation with outcome `revise`) and move plans (SetPlanStatus); the Engine *)
(* fills a plan in (the `plan.generate` job, GeneratePlan).  PostgreSQL is *)
(* the shared state and every repository call is a transaction of its own. *)
(*                                                                         *)
(* Hypothesis rows are numbered in the order they were committed; a plan   *)
(* has the number of its hypothesis (plans.hypothesis_id is unique), and   *)
(* so has its job.  A tree is named by the delivery that computed it: two  *)
(* deliveries ask the model, the calendar and the clock again.             *)
(***************************************************************************)
EXTENDS JobQueue

CONSTANTS
    MaxRows,        \* bound: hypotheses the user ever has
    Writer,         \* concurrent requests that append a hypothesis
    Mover           \* concurrent PUT /v1/plans/{plan_id}/status requests

ASSUME PlanConstants == MaxRows \in Nat

VARIABLES
    rows,           \* number of direction_hypotheses rows
    version,        \* version[h]: their version column
    plan,           \* plan[h]: plans.status
    tree,           \* tree[h]: the milestones, tasks and slots of plan h
    baseline,       \* baseline[h]: plans.structure.baseline_schedule
    writer,         \* [at, next, row] of each append request
    mover           \* [at, plan, target] of each status request

station == <<rows, version, plan, tree, baseline>>
clients == <<writer, mover>>
vars    == <<station, queue, at, clients>>

Rows == 1..MaxRows
PlanStatus == {"generating", "draft", "active", "archived", "failed"}
NoTree == 0
WriterIdle == [at |-> "idle", next |-> 0, row |-> 0]
MoverIdle  == [at |-> "idle", plan |-> 0, target |-> "active"]

\* What a user may ask of a plan in each status.
ALLOWED_STATUS_MOVES ==
    [s \in PlanStatus |->
        CASE s = "draft"  -> {"active", "archived"}
          [] s = "active" -> {"archived"}
          [] OTHER        -> {}]

Init ==
    /\ rows = 0
    /\ version = [h \in Rows |-> 0]
    /\ plan = [h \in Rows |-> "absent"]
    /\ tree = [h \in Rows |-> NoTree]
    /\ baseline = [h \in Rows |-> NoTree]
    /\ QueueInit(Rows)
    /\ writer = [w \in Writer |-> WriterIdle]
    /\ mover = [m \in Mover |-> MoverIdle]

-----------------------------------------------------------------------------
(***************************************************************************)
(* Appending a hypothesis: read the highest version, insert the next, in   *)
(* one transaction that other transactions may overtake.                   *)
(***************************************************************************)
Write(w, step, next, row) ==
    writer' = [writer EXCEPT ![w] = [at |-> step, next |-> next, row |-> row]]

AppendReads(w) ==
    /\ writer[w].at = "idle"
    /\ rows < MaxRows
    /\ Write(w, "insert", rows, 0)
    /\ UNCHANGED <<station, queue, at, mover>>

\* Mutant: the table without uq_hypothesis_user_version.
VersionTakenUnchecked(n) == FALSE
VersionTaken(n) == \E h \in 1..rows : version[h] = n

\* A revised hypothesis is complete at this point; a new one gets a plan next.
AppendCommits(w) ==
    /\ writer[w].at = "insert"
    /\ ~VersionTaken(writer[w].next)
    /\ rows < MaxRows
    /\ rows' = rows + 1
    /\ version' = [version EXCEPT ![rows + 1] = writer[w].next]
    /\ \E revise \in {rows > 0, FALSE} :
          IF revise THEN Write(w, "idle", 0, 0) ELSE Write(w, "plan", 0, rows + 1)
    /\ UNCHANGED <<plan, tree, baseline, queue, at, mover>>

\* The second of two concurrent appends fails, and its request with it.
AppendCollides(w) ==
    /\ writer[w].at = "insert"
    /\ VersionTaken(writer[w].next)
    /\ Write(w, "idle", 0, 0)
    /\ UNCHANGED <<station, queue, at, mover>>

PlanCreated(w) ==
    /\ writer[w].at = "plan"
    /\ plan' = [plan EXCEPT ![writer[w].row] = "generating"]
    /\ Write(w, "enqueue", 0, writer[w].row)
    /\ UNCHANGED <<rows, version, tree, baseline, queue, at, mover>>

GenerateEnqueued(w) ==
    /\ writer[w].at = "enqueue"
    /\ Enqueue(writer[w].row)
    /\ Write(w, "idle", 0, 0)
    /\ UNCHANGED <<station, mover>>

\* The API process dies, or the next call fails, between two transactions.
WriterDies(w) ==
    /\ "lost_enqueue" \in Faults
    /\ writer[w].at \in {"plan", "enqueue"}
    /\ Write(w, "idle", 0, 0)
    /\ UNCHANGED <<station, queue, at, mover>>

-----------------------------------------------------------------------------
(***************************************************************************)
(* SetPlanStatus: load the plan, check the move, write the status.         *)
(***************************************************************************)
\* Mutant: only the target is checked.
MayMoveLoosely(h, s) == plan[h] \in {"draft", "active", "archived"}
MayMove(h, s) == plan[h] \in PlanStatus /\ s \in ALLOWED_STATUS_MOVES[plan[h]]

MoveChecked(m) ==
    /\ mover[m].at = "idle"
    /\ \E h \in Rows, s \in {"active", "archived"} :
          /\ MayMove(h, s)
          /\ mover' = [mover EXCEPT ![m] = [at |-> "write", plan |-> h, target |-> s]]
    /\ UNCHANGED <<station, queue, at, writer>>

MoveWritten(m) ==
    /\ mover[m].at = "write"
    /\ plan' = [plan EXCEPT ![mover[m].plan] = mover[m].target]
    /\ mover' = [mover EXCEPT ![m] = MoverIdle]
    /\ UNCHANGED <<rows, version, tree, baseline, queue, at, writer>>

-----------------------------------------------------------------------------
(***************************************************************************)
(* GeneratePlan: the handler of `plan.generate`.  It looks at the plan's   *)
(* existence and never at its status.                                      *)
(***************************************************************************)
\* The order of _store: the tree in one transaction, then the plan's fields.
\* Mutant: the fields first.
FieldsFirst(step) ==
    CASE step = "load" -> "gather" [] step = "gather" -> "fields"
      [] step = "fields" -> "tree" [] step = "tree" -> "return"
Then(step) ==
    CASE step = "load" -> "gather" [] step = "gather" -> "tree"
      [] step = "tree" -> "fields" [] step = "fields" -> "return"

\* Read the plan, then the hypothesis, verdict, shape, profile, events, quota,
\* ask the model and schedule.  Nothing is written.
Gather(h) ==
    /\ at[h] \in {"load", "gather"}
    /\ Goto(h, Then(at[h]))
    /\ UNCHANGED <<station, queue, clients>>

ReplaceTree(h) ==
    /\ at[h] = "tree"
    /\ tree' = [tree EXCEPT ![h] = tries[h]]
    /\ Goto(h, Then("tree"))
    /\ UNCHANGED <<rows, version, plan, baseline, queue, clients>>

\* Mutant: a baseline that is there already is kept ("as first computed").
StoreFieldsOnce(h) ==
    /\ at[h] = "fields"
    /\ plan' = [plan EXCEPT ![h] = "draft"]
    /\ baseline' = [baseline EXCEPT ![h] = IF @ = NoTree THEN tries[h] ELSE @]
    /\ Goto(h, Then("fields"))
    /\ UNCHANGED <<rows, version, tree, queue, clients>>

StoreFields(h) ==
    /\ at[h] = "fields"
    /\ plan' = [plan EXCEPT ![h] = "draft"]
    /\ baseline' = [baseline EXCEPT ![h] = tries[h]]
    /\ Goto(h, Then("fields"))
    /\ UNCHANGED <<rows, version, tree, queue, clients>>

\* Mutant: the exception is only raised again.
FailSilently(h) ==
    /\ at[h] = "fail"
    /\ Goto(h, "raise")
    /\ UNCHANGED <<station, queue, clients>>

Fail(h) ==
    /\ at[h] = "fail"
    /\ plan' = [plan EXCEPT ![h] = "failed"]
    /\ Goto(h, "raise")
    /\ UNCHANGED <<rows, version, tree, baseline, queue, clients>>

\* Any call may raise: a reference that is gone, the model's retries used up,
\* the database.  The first read and the except clause are outside the try.
HandlerRaises(h) ==
    /\ \/ /\ "raise" \in Faults
          /\ at[h] \in {"gather", "tree", "fields"}
          /\ Goto(h, "fail")
       \/ /\ "raise_unhandled" \in Faults
          /\ at[h] \in {"load", "fail"}
          /\ Goto(h, "raise")
    /\ UNCHANGED <<station, queue, clients>>

-----------------------------------------------------------------------------
Deliver(h)        == Delivered(h) /\ UNCHANGED <<station, clients>>
TriesExhausted(h) == GivenUp(h) /\ UNCHANGED <<station, clients>>
JobReturns(h)     == Returned(h) /\ UNCHANGED <<station, clients>>
JobRaises(h)      == Raised(h) /\ UNCHANGED <<station, clients>>
JobTimesOut(h)    == TimedOut(h) /\ UNCHANGED <<station, clients>>
WorkerCrashes(h)  == Stopped(h) /\ UNCHANGED <<station, clients>>

WriterStep(w) ==
    \/ AppendReads(w) \/ AppendCommits(w) \/ AppendCollides(w)
    \/ PlanCreated(w) \/ GenerateEnqueued(w) \/ WriterDies(w)

MoverStep(m) == MoveChecked(m) \/ MoveWritten(m)

HandlerStep(h) == Gather(h) \/ ReplaceTree(h) \/ StoreFields(h) \/ Fail(h)

QueueStep(h) == Deliver(h) \/ TriesExhausted(h) \/ JobReturns(h) \/ JobRaises(h)

Fault(h) == JobTimesOut(h) \/ WorkerCrashes(h) \/ HandlerRaises(h)

Next ==
    \/ \E w \in Writer : WriterStep(w)
    \/ \E m \in Mover : MoverStep(m)
    \/ \E h \in Rows : HandlerStep(h) \/ QueueStep(h) \/ Fault(h)

Spec == Init /\ [][Next]_vars

(***************************************************************************)
(* Fairness: a request that has begun goes on, and so does the worker.     *)
(***************************************************************************)
Fairness ==
    /\ \A w \in Writer : WF_vars(PlanCreated(w) \/ GenerateEnqueued(w))
    /\ \A h \in Rows : WF_vars(HandlerStep(h)) /\ WF_vars(QueueStep(h))

FairSpec == Spec /\ Fairness
-----------------------------------------------------------------------------
(***************************************************************************)
(* Properties.                                                             *)
(***************************************************************************)
WriterState == [at : {"idle", "insert", "plan", "enqueue"},
                next : 0..MaxRows, row : 0..MaxRows]
MoverState == [at : {"idle", "write"}, plan : 0..MaxRows, target : {"active", "archived"}]
Step == {"idle", "load", "gather", "tree", "fields", "fail", "return", "raise"}

\* Every variable has its type.
TypeOK ==
    /\ rows \in 0..MaxRows
    /\ version \in [Rows -> 0..MaxRows]
    /\ plan \in [Rows -> PlanStatus \cup {"absent"}]
    /\ tree \in [Rows -> 0..MaxTries]
    /\ baseline \in [Rows -> 0..MaxTries]
    /\ QueueTypeOK(Rows, Step)
    /\ writer \in [Writer -> WriterState]
    /\ mover \in [Mover -> MoverState]

\* The versions are 0, 1, 2... in the order they were written: no two rows
\* share one and none is skipped, however appends race and fail.
VersionsAreTheChain == \A h \in 1..rows : version[h] = h - 1

Proposed(h) == plan[h] \in {"draft", "active", "archived"}

\* A plan the user is shown has its tree and the baseline that Station 3 will
\* compare it with, wherever earlier deliveries stopped.
ProposedIsWhole == \A h \in Rows : Proposed(h) => tree[h] # NoTree /\ baseline[h] # NoTree

\* A job that ended well left the tree and the baseline of one computation.
DoneIsOfOnePiece == \A h \in Rows : job[h] = "done" => tree[h] = baseline[h]

\* While no delivery was repeated a plan moves only as SetPlanStatus allows, or
\* once from generating to what the Engine made of it.
MovesAsAllowed ==
    [][\A h \in Rows : plan'[h] # plan[h] /\ plan[h] # "absent" /\ tries[h] <= 1 =>
          \/ plan[h] = "generating" /\ plan'[h] \in {"draft", "failed"}
          \/ plan'[h] \in ALLOWED_STATUS_MOVES[plan[h]]]_vars

\* A plan whose job was queued stops generating, unless every delivery is used up.
GenerationEnds ==
    \A h \in Rows :
        job[h] = "queued" ~> (plan[h] # "generating" \/ (job[h] = "failed" /\ tries[h] = MaxTries))

-----------------------------------------------------------------------------
(***************************************************************************)
(* The promise this component keeps as long as no delivery is repeated and *)
(* the user moves plans one request at a time.  The tree and the baseline  *)
(* the promise speaks of are those of a plan that has been proposed.       *)
(***************************************************************************)
Shown(h) == IF Proposed(h) THEN <<tree[h], baseline[h]>> ELSE <<NoTree, NoTree>>

Promise == INSTANCE PlanPromise WITH
    proposal <- [h \in Rows |-> Shown(h)],
    Proposal <- {<<t, t>> : t \in 1..MaxTries},
    Nothing  <- <<NoTree, NoTree>>

KeepsPromise == Promise!Spec
-----------------------------------------------------------------------------
(***************************************************************************)
(* The inductive invariant.                                                *)
(***************************************************************************)
\* Requests hold a version that was free when they read it, or the row they
\* wrote and nobody else works on.
WritersFit ==
    /\ \A w \in Writer :
          /\ writer[w].at = "insert" => writer[w].next <= rows
          /\ writer[w].at \in {"plan", "enqueue"} =>
                writer[w].row \in 1..rows /\ job[writer[w].row] = "none"
          /\ writer[w].at = "plan" => plan[writer[w].row] = "absent"
          /\ writer[w].at = "enqueue" => plan[writer[w].row] = "generating"
    /\ \A w, x \in Writer :
          writer[w].at \in {"plan", "enqueue"} /\ writer[x].at \in {"plan", "enqueue"}
            /\ writer[w].row = writer[x].row => w = x

\* Rows not yet inserted are untouched; without a job there is no computation.
NothingBeforeAppend ==
    \A h \in Rows :
        /\ h > rows => plan[h] = "absent" /\ job[h] = "none"
        /\ job[h] = "none" => tries[h] = 0 /\ baseline[h] = NoTree
        /\ plan[h] = "absent" => job[h] = "none"

\* Where the handler is says what it has stored.
HandlerFits(h) ==
    /\ at[h] # "idle" <=> job[h] = "running"
    /\ job[h] = "running" => tries[h] # 0
    /\ at[h] \in {"fields", "return"} => tree[h] = tries[h]
    /\ at[h] = "return" => baseline[h] = tries[h]
    /\ baseline[h] # NoTree => tree[h] # NoTree

\* A mover only holds a plan that had been proposed.
MoverFits(m) ==
    mover[m].at = "write" =>
        mover[m].plan \in Rows /\ baseline[mover[m].plan] # NoTree

\* Up to the end of its first delivery a plan is the Engine's alone, and the
\* tree and the baseline, once both are there, are of one computation.
FirstDelivery(h) ==
    tries[h] <= 1 =>
        /\ at[h] \in {"load", "gather", "tree", "fields", "fail"} => plan[h] = "generating"
        /\ tries[h] = 0 => plan[h] \in {"absent", "generating"}
        /\ Proposed(h) => tree[h] = 1 /\ baseline[h] = 1
        /\ \A m \in Mover :
              mover[m].at = "write" /\ mover[m].plan = h =>
                  Proposed(h) /\ mover[m].target \in ALLOWED_STATUS_MOVES[plan[h]]

OneMover == \A m, n \in Mover : m = n

\* The invariant the theorems of PlanLifecycleProofs rest on.
PlanInv ==
    /\ TypeOK
    /\ VersionsAreTheChain
    /\ WritersFit
    /\ NothingBeforeAppend
    /\ \A h \in Rows : HandlerFits(h)
    /\ \A m \in Mover : MoverFits(m)
    /\ ProposedIsWhole
    /\ DoneIsOfOnePiece
    /\ OneMover => \A h \in Rows : FirstDelivery(h)
=============================================================================
