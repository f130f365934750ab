---------------------------- MODULE DirectionRun ----------------------------
(***************************************************************************)
(* Station 1: one user's direction runs, from the request that starts one  *)
(* to the Fit Verdicts the client reads.                                   *)
(*                                                                         *)
(* Three kinds of process meet here: API requests (StartDirectionRun,      *)
(* GetDirectionRun), the Engine worker that runs the `direction.run` job,  *)
(* and the job queue between them (ARQ on Redis).  PostgreSQL is the       *)
(* shared state.  Every repository call commits a transaction of its own,  *)
(* so each call that matters is one action, and everything else may happen *)
(* between two of them.                                                    *)
(*                                                                         *)
(* Run identifiers are numbered in the order of created_at.                *)
(***************************************************************************)
EXTENDS JobQueue

CONSTANTS
    MaxRuns,        \* bound: runs the user ever starts
    Dimension,      \* the dimensions a Report may be about
    Base,           \* those every user gets; the others need an uploaded source
    Code,           \* Role Model codes
    Api,            \* concurrent POST /v1/direction/runs requests
    Reader          \* concurrent GET /v1/direction/runs/... requests

ASSUME DirectionConstants ==
    /\ MaxRuns \in Nat
    /\ Base \subseteq Dimension
    /\ Base # {}

VARIABLES
    created,        \* number of direction_runs rows
    status,         \* direction_runs.status
    written,        \* which of period_* and readouts the run's row carries
    reports,        \* reports[r]: dimensions of the Report rows of run r
    verdicts,       \* verdicts[r]: <<code, dimension cited>> of its verdict rows
    profile,        \* profiles.coverage: has data, and the extra dimensions
    catalogue,      \* the active Role Models this user can see
    stored,         \* the handler's local: dimensions of the reports it wrote
    listed,         \* the handler's local: the catalogue it read
    api,            \* [at, run] of each start request
    view            \* [at, run, status, reports, verdicts] of each reader

row     == <<created, status, written, reports, verdicts>>
world   == <<profile, catalogue>>
handler == <<at, stored, listed>>
vars    == <<row, world, queue, handler, api, view>>

RunIds == 1..MaxRuns
Citation == Code \X Dimension
ProfileRow == [data : BOOLEAN, extra : SUBSET (Dimension \ Base)]

(***************************************************************************)
(* The run state machine.                                                  *)
(***************************************************************************)
RunStatus == {"pending", "analyzing", "recommending", "ready", "failed"}
Active    == {"pending", "analyzing", "recommending"}

TRANSITIONS ==
    [s \in RunStatus |->
        CASE s = "pending"      -> {"analyzing", "failed"}
          [] s = "analyzing"    -> {"recommending", "failed"}
          [] s = "recommending" -> {"ready", "failed"}
          [] OTHER              -> {}]

\* Mutant: assert_transition that only refuses finished runs.
TransitionUnlessOver(current, target) == TRANSITIONS[current] # {}
assert_transition(current, target) == target \in TRANSITIONS[current]

(***************************************************************************)
(* The rules a model's answer must pass before it is stored.               *)
(***************************************************************************)
required(p) == Base \cup p.extra

\* missing_dimensions, with the schema's min_length=1.
missing_dimensions(produced, needed) == needed \ produced

\* What complete_validated may return to _analyze: an answer that passes, or
\* the bare analysis of the fallback, which reports the required dimensions.
Analyses(needed) ==
    {out \in SUBSET Dimension : out # {} /\ missing_dimensions(out, needed) = {}}
        \cup {needed}

\* Mutant: the citation rule is dropped.
UncitedRule(draft, expected, available) ==
    {c[1] : c \in draft} = expected

\* verdict_violations returns nothing: each expected code scored, no other, and
\* every one of the five evidence items cites an available report.
verdict_violations_none(draft, expected, available) ==
    /\ {c[1] : c \in draft} = expected
    /\ \A c \in draft : c[2] \in available

(***************************************************************************)
(* replace_for_run: delete the run's rows and insert the new ones, in one  *)
(* transaction.                                                            *)
(***************************************************************************)
\* Mutant: the delete filters by user instead of by run.
ReplaceForUser(rows, r, new) == [x \in RunIds |-> IF x = r THEN new ELSE {}]
replace_for_run(rows, r, new) == [rows EXCEPT ![r] = new]

NoView == [at |-> "idle", run |-> 0, status |-> "absent", reports |-> {}, verdicts |-> {}]

Init ==
    /\ created = 0
    /\ status = [r \in RunIds |-> "absent"]
    /\ written = [r \in RunIds |-> {}]
    /\ reports = [r \in RunIds |-> {}]
    /\ verdicts = [r \in RunIds |-> {}]
    /\ profile \in ProfileRow
    /\ catalogue = Code
    /\ QueueInit(RunIds)
    /\ stored = [r \in RunIds |-> {}]
    /\ listed = [r \in RunIds |-> {}]
    /\ api = [p \in Api |-> [at |-> "idle", run |-> 0]]
    /\ view = [v \in Reader |-> NoView]

-----------------------------------------------------------------------------
(***************************************************************************)
(* StartDirectionRun: two reads, one insert, one enqueue.  Nothing ties    *)
(* them together.  A refused request (409) changes nothing and is a        *)
(* stuttering step.  The two reads are one action: only the second races   *)
(* with anything this request does next.                                   *)
(***************************************************************************)
InFlight(r) == status[r] \in Active

\* Mutant: the check looks for a run that is being worked on.
StartCheckedLoosely(p) ==
    /\ api[p].at = "idle"
    /\ profile.data
    /\ created > 0 => status[created] \notin {"analyzing", "recommending"}
    /\ api' = [api EXCEPT ![p].at = "create"]
    /\ UNCHANGED <<row, world, queue, handler, view>>

StartChecked(p) ==
    /\ api[p].at = "idle"
    /\ profile.data
    /\ created > 0 => ~InFlight(created)
    /\ api' = [api EXCEPT ![p].at = "create"]
    /\ UNCHANGED <<row, world, queue, handler, view>>

StartCreates(p) ==
    /\ api[p].at = "create"
    /\ created < MaxRuns
    /\ created' = created + 1
    /\ status' = [status EXCEPT ![created + 1] = "pending"]
    /\ api' = [api EXCEPT ![p] = [at |-> "enqueue", run |-> created + 1]]
    /\ UNCHANGED <<written, reports, verdicts, world, queue, handler, view>>

StartEnqueues(p) ==
    /\ api[p].at = "enqueue"
    /\ Enqueue(api[p].run)
    /\ api' = [api EXCEPT ![p] = [at |-> "idle", run |-> 0]]
    /\ UNCHANGED <<row, world, stored, listed, view>>

\* The API process dies, or Redis refuses, after the insert has committed.
StartDies(p) ==
    /\ "lost_enqueue" \in Faults
    /\ api[p].at = "enqueue"
    /\ api' = [api EXCEPT ![p] = [at |-> "idle", run |-> 0]]
    /\ UNCHANGED <<row, world, queue, handler, view>>

-----------------------------------------------------------------------------
(***************************************************************************)
(* The `direction.run` job of each run.  Whatever ends a delivery, the     *)
(* handler's locals are gone.                                              *)
(***************************************************************************)
Forget(r) ==
    /\ stored' = [stored EXCEPT ![r] = {}]
    /\ listed' = [listed EXCEPT ![r] = {}]
    /\ UNCHANGED <<row, world, api, view>>

Deliver(r) == Delivered(r) /\ UNCHANGED <<row, world, stored, listed, api, view>>
TriesExhausted(r) == GivenUp(r) /\ UNCHANGED <<row, world, stored, listed, api, view>>
JobReturns(r) == Returned(r) /\ Forget(r)
JobRaises(r) == Raised(r) /\ Forget(r)
JobTimesOut(r) == TimedOut(r) /\ Forget(r)
WorkerCrashes(r) == Stopped(r) /\ Forget(r)

-----------------------------------------------------------------------------
(***************************************************************************)
(* RunDirection: the handler of `direction.run`.                           *)
(***************************************************************************)
\* Mutant: a run that has started already is left to its first delivery.
LoadRunOnce(r) ==
    /\ at[r] = "load"
    /\ Goto(r, IF assert_transition(status[r], "analyzing") THEN "begin" ELSE "return")
    /\ UNCHANGED <<row, world, queue, stored, listed, api, view>>

LoadRun(r) ==
    /\ at[r] = "load"
    /\ Goto(r, IF assert_transition(status[r], "analyzing") THEN "begin" ELSE "fail")
    /\ UNCHANGED <<row, world, queue, stored, listed, api, view>>

SetStatus(r, s) == status' = [status EXCEPT ![r] = s]

BeginAnalyzing(r) ==
    /\ at[r] = "begin"
    /\ SetStatus(r, "analyzing")
    /\ Goto(r, "analyze")
    /\ UNCHANGED <<created, written, reports, verdicts, world, queue, stored, listed, api, view>>

\* Read the Profile, ask the model, then set_period.
Analyze(r) ==
    /\ at[r] = "analyze"
    /\ \E analysis \in Analyses(required(profile)) :
          stored' = [stored EXCEPT ![r] = analysis]
    /\ written' = [written EXCEPT ![r] = @ \cup {"period"}]
    /\ Goto(r, "readouts")
    /\ UNCHANGED <<created, status, reports, verdicts, world, queue, listed, api, view>>

SetReadouts(r) ==
    /\ at[r] = "readouts"
    /\ written' = [written EXCEPT ![r] = @ \cup {"readouts"}]
    /\ Goto(r, "store")
    /\ UNCHANGED <<created, status, reports, verdicts, world, queue, stored, listed, api, view>>

StoreReports(r) ==
    /\ at[r] = "store"
    /\ reports' = replace_for_run(reports, r, stored[r])
    /\ Goto(r, "recommend")
    /\ UNCHANGED <<created, status, written, verdicts, world, queue, stored, listed, api, view>>

BeginRecommending(r) ==
    /\ at[r] = "recommend"
    /\ SetStatus(r, "recommending")
    /\ Goto(r, "list")
    /\ UNCHANGED <<created, written, reports, verdicts, world, queue, stored, listed, api, view>>

\* Mutant: no check that the catalogue holds anything.
ListCatalogueUnchecked(r) ==
    /\ at[r] = "list"
    /\ listed' = [listed EXCEPT ![r] = catalogue]
    /\ Goto(r, "score")
    /\ UNCHANGED <<row, world, queue, stored, api, view>>

\* An empty catalogue is an EngineError.
ListCatalogue(r) ==
    /\ at[r] = "list"
    /\ listed' = [listed EXCEPT ![r] = catalogue]
    /\ Goto(r, IF catalogue = {} THEN "fail" ELSE "score")
    /\ UNCHANGED <<row, world, queue, stored, api, view>>

\* Ask the model; an answer that breaks a rule is never stored, and there is no
\* fallback: LLMValidationExhausted is one of the exceptions of HandlerRaises.
StoreVerdicts(r) ==
    /\ at[r] = "score"
    /\ \E draft \in SUBSET Citation :
          /\ verdict_violations_none(draft, listed[r], stored[r])
          /\ verdicts' = replace_for_run(verdicts, r, draft)
    /\ Goto(r, "finish")
    /\ UNCHANGED <<created, status, written, reports, world, queue, stored, listed, api, view>>

Finish(r) ==
    /\ at[r] = "finish"
    /\ SetStatus(r, "ready")
    /\ Goto(r, "return")
    /\ UNCHANGED <<created, written, reports, verdicts, world, queue, stored, listed, api, view>>

\* Any call may raise: the database, the model, a rule.  The first read is before
\* the try block and _fail's write is in its except clause: nobody handles those.
HandlerRaises(r) ==
    /\ \/ /\ "raise" \in Faults
          /\ at[r] \notin {"idle", "load", "fail", "return", "raise"}
          /\ Goto(r, "fail")
       \/ /\ "raise_unhandled" \in Faults
          /\ at[r] \in {"load", "fail"}
          /\ Goto(r, "raise")
    /\ UNCHANGED <<row, world, queue, stored, listed, api, view>>

\* Mutant: _fail without its early return.
FailStatusAlways(s) == "failed"
\* _fail reads the row again and leaves a finished run alone.
fail_status(s) == IF s \in {"ready", "failed"} THEN s ELSE "failed"

\* The exception is raised again: the job fails too.
Fail(r) ==
    /\ at[r] = "fail"
    /\ SetStatus(r, fail_status(status[r]))
    /\ Goto(r, "raise")
    /\ UNCHANGED <<created, written, reports, verdicts, world, queue, stored, listed, api, view>>

-----------------------------------------------------------------------------
(***************************************************************************)
(* GetDirectionRun: the run's row first, then its reports, then its        *)
(* verdicts, in three transactions.                                        *)
(***************************************************************************)
Show(v, step, run, st, rs, vs) ==
    view' = [view EXCEPT ![v] =
        [at |-> step, run |-> run, status |-> st, reports |-> rs, verdicts |-> vs]]

ReadRun(v) ==
    /\ view[v].at = "idle"
    /\ \E r \in 1..created : Show(v, "run", r, status[r], {}, {})
    /\ UNCHANGED <<row, world, queue, handler, api>>

ReadReports(v) ==
    /\ view[v].at = "run"
    /\ Show(v, "reports", view[v].run, view[v].status, reports[view[v].run], {})
    /\ UNCHANGED <<row, world, queue, handler, api>>

\* Mutant: the verdicts of the latest run, whichever run was asked for.
ReadLatestVerdicts(v) ==
    /\ view[v].at = "reports"
    /\ Show(v, "shown", view[v].run, view[v].status, view[v].reports, verdicts[created])
    /\ UNCHANGED <<row, world, queue, handler, api>>

ReadVerdicts(v) ==
    /\ view[v].at = "reports"
    /\ Show(v, "shown", view[v].run, view[v].status, view[v].reports,
            verdicts[view[v].run])
    /\ UNCHANGED <<row, world, queue, handler, api>>

ReaderLeaves(v) ==
    /\ view[v].at = "shown"
    /\ view' = [view EXCEPT ![v] = NoView]
    /\ UNCHANGED <<row, world, queue, handler, api>>

(***************************************************************************)
(* What the rest of the system does meanwhile: `profile.build` rewrites    *)
(* the coverage, the Catalog Service writes and retires Role Models.       *)
(***************************************************************************)
ProfileRebuilt ==
    /\ profile' \in ProfileRow
    /\ UNCHANGED <<row, catalogue, queue, handler, api, view>>

CatalogueChanges ==
    /\ \E c \in Code : catalogue' \in {catalogue \cup {c}, catalogue \ {c}}
    /\ UNCHANGED <<row, profile, queue, handler, api, view>>

-----------------------------------------------------------------------------
StartRequest(p) ==
    StartChecked(p) \/ StartCreates(p) \/ StartEnqueues(p) \/ StartDies(p)

HandlerStep(r) ==
    \/ LoadRun(r) \/ BeginAnalyzing(r) \/ Analyze(r) \/ SetReadouts(r)
    \/ StoreReports(r) \/ BeginRecommending(r) \/ ListCatalogue(r)
    \/ StoreVerdicts(r) \/ Finish(r) \/ Fail(r)

QueueStep(r) == Deliver(r) \/ TriesExhausted(r) \/ JobReturns(r) \/ JobRaises(r)

Fault(r) == JobTimesOut(r) \/ WorkerCrashes(r) \/ HandlerRaises(r)

Read(v) == ReadRun(v) \/ ReadReports(v) \/ ReadVerdicts(v) \/ ReaderLeaves(v)

Next ==
    \/ \E p \in Api : StartRequest(p)
    \/ \E r \in RunIds : HandlerStep(r) \/ QueueStep(r) \/ Fault(r)
    \/ \E v \in Reader : Read(v)
    \/ ProfileRebuilt
    \/ CatalogueChanges

Spec == Init /\ [][Next]_vars

(***************************************************************************)
(* Fairness: a started request and a running worker keep going.  Nothing   *)
(* forces a user to ask, or a fault to happen.                             *)
(***************************************************************************)
Fairness ==
    /\ \A p \in Api : WF_vars(StartEnqueues(p))
    /\ \A r \in RunIds : WF_vars(HandlerStep(r)) /\ WF_vars(QueueStep(r))

FairSpec == Spec /\ Fairness
-----------------------------------------------------------------------------
(***************************************************************************)
(* Properties.                                                             *)
(***************************************************************************)
Step == {"idle", "load", "begin", "analyze", "readouts", "store", "recommend",
         "list", "score", "finish", "fail", "return", "raise"}

\* Every variable has its type.
TypeOK ==
    /\ created \in 0..MaxRuns
    /\ status \in [RunIds -> RunStatus \cup {"absent"}]
    /\ written \in [RunIds -> SUBSET {"period", "readouts"}]
    /\ reports \in [RunIds -> SUBSET Dimension]
    /\ verdicts \in [RunIds -> SUBSET Citation]
    /\ profile \in ProfileRow
    /\ catalogue \in SUBSET Code
    /\ QueueTypeOK(RunIds, Step)
    /\ stored \in [RunIds -> SUBSET Dimension]
    /\ listed \in [RunIds -> SUBSET Code]
    /\ api \in [Api -> [at : {"idle", "create", "enqueue"}, run : 0..MaxRuns]]
    /\ view \in [Reader -> [at : {"idle", "run", "reports", "shown"},
                            run : 0..MaxRuns,
                            status : RunStatus \cup {"absent"},
                            reports : SUBSET Dimension,
                            verdicts : SUBSET Citation]]

Sourced(vs, rs) == \A c \in vs : c[2] \in rs

\* Every evidence item in the database cites a Report of its own run, whatever
\* other runs, redeliveries and failures write (run_direction.py, _recommend;
\* verdict.py, invariant 3).
EvidenceIsSourced == \A r \in RunIds : Sourced(verdicts[r], reports[r])

\* A run is ready only with its period, its readouts, a Report for every
\* dimension each user gets, and at least one verdict.
ReadyIsComplete ==
    \A r \in RunIds : status[r] = "ready" =>
        /\ written[r] = {"period", "readouts"}
        /\ Base \subseteq reports[r]
        /\ verdicts[r] # {}

\* A run moves only along TRANSITIONS: a redelivered job never takes it back,
\* and a failure after the end never spoils a ready run.
MovesAlongTransitions ==
    [][\A r \in RunIds :
          status[r] \in RunStatus /\ status'[r] # status[r]
            => status'[r] \in TRANSITIONS[status[r]]]_vars

\* Reports and verdicts are written once: what a reader has seen, and what the
\* verdicts were scored against, is never replaced by a second delivery.
EvidenceIsWrittenOnce ==
    [][\A r \in RunIds :
          /\ reports[r] # {} => reports'[r] = reports[r]
          /\ verdicts[r] # {} => verdicts'[r] = verdicts[r]]_vars

\* The three reads of GetDirectionRun are not a snapshot, but their order makes
\* a view that says `ready` complete: status is read before what it promises.
ReadyViewIsComplete ==
    \A v \in Reader : view[v].at = "shown" /\ view[v].status = "ready" =>
        /\ Base \subseteq view[v].reports
        /\ view[v].verdicts # {}
        /\ Sourced(view[v].verdicts, view[v].reports)

\* At most one run of a user is in flight (StartDirectionRun's docstring).
OneInFlight ==
    \A a, b \in RunIds : InFlight(a) /\ InFlight(b) => a = b

\* A run whose job was queued leaves its in-flight states, whatever raises and
\* whenever the worker stops, unless ARQ has used up every delivery.
QueuedRunEnds ==
    \A r \in RunIds :
        job[r] = "queued" ~> (~InFlight(r) \/ (job[r] = "failed" /\ tries[r] = MaxTries))

-----------------------------------------------------------------------------
(***************************************************************************)
(* Station 1 keeps what RunPromise says.  A run that is not ready shows    *)
(* nothing yet, whatever rows it has; a client is told of findings when    *)
(* its third read is done, and only if the first one said `ready`.         *)
(***************************************************************************)
Unconcluded == <<{}, {}>>

Phase(r) == IF InFlight(r) THEN "working" ELSE status[r]
Concluded(r) == IF status[r] = "ready" THEN <<reports[r], verdicts[r]>> ELSE Unconcluded
Told(v) ==
    IF view[v].at = "shown" /\ view[v].status = "ready"
    THEN <<view[v].reports, view[v].verdicts>> ELSE Unconcluded

\* A Report for every dimension each user gets, and verdicts that cite them.
Complete ==
    {f \in (SUBSET Dimension) \X (SUBSET Citation) :
        Base \subseteq f[1] /\ f[2] # {} /\ Sourced(f[2], f[1])}

Promise == INSTANCE RunPromise WITH
    Client   <- Reader,
    Findings <- Complete,
    Nothing  <- Unconcluded,
    runs     <- created,
    phase    <- [r \in RunIds |-> Phase(r)],
    findings <- [r \in RunIds |-> Concluded(r)],
    told     <- [v \in Reader |-> Told(v)]

\* However its job is delivered, interrupted and repeated, a run is concluded once, all
\* at once and whole; and the three reads of GetDirectionRun, which are no snapshot, tell
\* a client exactly what it concluded, or that it is not ready.
KeepsPromise == Promise!Spec

-----------------------------------------------------------------------------
(***************************************************************************)
(* The inductive invariant: what the handler's position says about the     *)
(* rows it has written, and what a status alone still says after a crash,  *)
(* a timeout or an exception has thrown that position away.                *)
(***************************************************************************)
\* Rows not yet inserted are untouched, and requests only enqueue inserted ones.
NothingBeforeCreation ==
    /\ \A r \in RunIds : r > created =>
          status[r] = "absent" /\ job[r] = "none" /\ at[r] = "idle"
    /\ \A r \in 1..created : status[r] \in RunStatus
    /\ \A p \in Api : api[p].at = "enqueue" => api[p].run \in 1..created

\* The step of the handler fixes the status and how far the evidence is written.
StepFitsRow(r) ==
    /\ at[r] = "begin" => status[r] = "pending"
    /\ at[r] \in {"analyze", "readouts", "store"} =>
          status[r] = "analyzing" /\ reports[r] = {}
    /\ at[r] = "recommend" => status[r] = "analyzing"
    /\ at[r] \in {"list", "score", "finish"} => status[r] = "recommending"
    /\ at[r] \in {"recommend", "list", "score", "finish"} => reports[r] = stored[r]
    /\ at[r] \in {"list", "score"} => verdicts[r] = {}
    /\ at[r] \in {"readouts", "store", "recommend", "list", "score", "finish"} =>
          Base \subseteq stored[r] /\ "period" \in written[r]
    /\ at[r] \in {"store", "recommend", "list", "score", "finish"} =>
          "readouts" \in written[r]
    /\ at[r] = "score" => listed[r] # {}
    /\ at[r] = "finish" => verdicts[r] # {}

\* What the status alone says of the evidence.
StatusFitsRows(r) ==
    /\ status[r] \in {"absent", "pending"} => reports[r] = {}
    /\ status[r] \in {"absent", "pending", "analyzing"} => verdicts[r] = {}

\* A view that says ready shows the rows of a ready run, as far as it has read.
ViewFitsRun(v) ==
    view[v].at # "idle" =>
        /\ view[v].run \in 1..created
        /\ view[v].status = "ready" =>
              /\ status[view[v].run] = "ready"
              /\ view[v].at \in {"reports", "shown"} =>
                    view[v].reports = reports[view[v].run]
              /\ view[v].at = "shown" => view[v].verdicts = verdicts[view[v].run]

\* The invariant the theorems of DirectionRunProofs rest on: TypeOK and the
\* parts above, with the two safety invariants of the evidence.
DirectionInv ==
    /\ TypeOK
    /\ NothingBeforeCreation
    /\ \A r \in RunIds : StepFitsRow(r) /\ StatusFitsRows(r)
    /\ \A v \in Reader : ViewFitsRun(v)
    /\ EvidenceIsSourced
    /\ ReadyIsComplete
=============================================================================
