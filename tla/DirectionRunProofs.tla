------------------------- MODULE DirectionRunProofs -------------------------
(***************************************************************************)
(* Theorems about DirectionRun, for every number of runs, deliveries,      *)
(* dimensions, Role Models, requests and readers, and every set of faults. *)
(***************************************************************************)
EXTENDS DirectionRun, TLAPS

\* The queue's steps keep its types (packages/queue).
LEMMA QueueActionTypeOK ==
  ASSUME NEW J, NEW Steps, {"idle", "load"} \subseteq Steps,
         NEW j \in J, QueueTypeOK(J, Steps), QueueAction(j)
  PROVE  QueueTypeOK(J, Steps)'
<1> USE QueueConstants DEF QueueTypeOK, JobStatus, Goto, Ends
<1>1. CASE Enqueue(j)
  BY <1>1 DEF Enqueue
<1>2. CASE Delivered(j)
  BY <1>2 DEF Delivered
<1>3. CASE GivenUp(j)
  BY <1>3 DEF GivenUp
<1>4. CASE Returned(j) \/ Raised(j) \/ TimedOut(j) \/ Stopped(j)
  BY <1>4 DEF Returned, Raised, TimedOut, Stopped
<1>5. QED
  BY <1>1, <1>2, <1>3, <1>4 DEF QueueAction

\* They leave every other job alone.
LEMMA QueueActionFrame ==
  ASSUME NEW J, NEW Steps, NEW j \in J, QueueTypeOK(J, Steps), QueueAction(j),
         NEW k \in J, k # j
  PROVE  job'[k] = job[k] /\ tries'[k] = tries[k] /\ at'[k] = at[k]
  BY DEF QueueTypeOK, QueueAction, Enqueue, Delivered, GivenUp, Returned, Raised,
         TimedOut, Stopped, Goto, Ends

\* A delivery starts the handler; every other step leaves it where it is or ends it.
LEMMA QueueActionPosition ==
  ASSUME NEW J, NEW Steps, NEW j \in J, QueueTypeOK(J, Steps), QueueAction(j)
  PROVE  /\ at'[j] \in {"idle", "load", at[j]}
         /\ job'[j] # "none"
         /\ Enqueue(j) \/ job[j] # "none" \/ at[j] # "idle"
  BY DEF QueueTypeOK, QueueAction, Enqueue, Delivered, GivenUp, Returned, Raised,
         TimedOut, Stopped, Goto, Ends

\* The initial state has the types.
LEMMA InitTypeOK == Init => TypeOK
  BY DirectionConstants, QueueConstants
     DEF Init, NoView, TypeOK, RunIds, Citation, ProfileRow, RunStatus, Step,
         QueueInit, QueueTypeOK, JobStatus

\* Every step of a start request keeps the types (StartDirectionRun).
LEMMA StartTypeOK ==
  ASSUME TypeOK, NothingBeforeCreation, NEW p \in Api, StartRequest(p)
  PROVE  TypeOK'
<1> USE DirectionConstants DEF TypeOK, RunIds
<1>1. CASE StartChecked(p)
  BY <1>1 DEF StartChecked, row, world, queue, handler, QueueTypeOK
<1>2. CASE StartCreates(p)
  BY <1>2 DEF StartCreates, world, queue, handler, RunStatus, QueueTypeOK
<1>3. CASE StartEnqueues(p)
  <2>1. QueueTypeOK(RunIds, Step)'
    <3>1. api[p].run \in RunIds
      BY <1>3 DEF StartEnqueues, NothingBeforeCreation
    <3>2. Enqueue(api[p].run)
      BY <1>3 DEF StartEnqueues
    <3>3. QueueAction(api[p].run) /\ {"idle", "load"} \subseteq Step
      BY <3>2 DEF QueueAction, Step
    <3>4. QED
      BY <3>1, <3>3, QueueActionTypeOK
  <2>2. api' \in [Api -> [at : {"idle", "create", "enqueue"}, run : 0..MaxRuns]]
    BY <1>3 DEF StartEnqueues
  <2>3. QED
    BY <1>3, <2>1, <2>2 DEF StartEnqueues, row, world, handler
<1>4. CASE StartDies(p)
  BY <1>4 DEF StartDies, row, world, queue, handler, QueueTypeOK
<1>5. QED
  BY <1>1, <1>2, <1>3, <1>4 DEF StartRequest

\* Every step of the `direction.run` handler keeps the types (RunDirection).
LEMMA HandlerTypeOK ==
  ASSUME TypeOK, NEW r \in RunIds, HandlerStep(r)
  PROVE  TypeOK'
<1> USE DirectionConstants
        DEF TypeOK, RunIds, QueueTypeOK, Goto, SetStatus, RunStatus, Step
<1>1. CASE LoadRun(r)
  BY <1>1 DEF LoadRun, row, world, queue
<1>2. CASE BeginAnalyzing(r)
  BY <1>2 DEF BeginAnalyzing, world, queue
<1>3. CASE Analyze(r)
  <2>1. PICK analysis \in Analyses(required(profile)) :
           stored' = [stored EXCEPT ![r] = analysis]
    BY <1>3 DEF Analyze
  <2>2. analysis \in SUBSET Dimension
    BY DEF Analyses, required, ProfileRow
  <2>3. QED
    BY <1>3, <2>1, <2>2 DEF Analyze, world, queue
<1>4. CASE SetReadouts(r)
  BY <1>4 DEF SetReadouts, world, queue
<1>5. CASE StoreReports(r)
  BY <1>5 DEF StoreReports, replace_for_run, world, queue
<1>6. CASE BeginRecommending(r)
  BY <1>6 DEF BeginRecommending, world, queue
<1>7. CASE ListCatalogue(r)
  BY <1>7 DEF ListCatalogue, row, world, queue
<1>8. CASE StoreVerdicts(r)
  BY <1>8 DEF StoreVerdicts, replace_for_run, world, queue
<1>9. CASE Finish(r)
  BY <1>9 DEF Finish, world, queue
<1>10. CASE Fail(r)
  BY <1>10 DEF Fail, fail_status, world, queue
<1>11. QED
  BY <1>1, <1>2, <1>3, <1>4, <1>5, <1>6, <1>7, <1>8, <1>9, <1>10 DEF HandlerStep

\* Deliveries, job ends and faults keep the types.
LEMMA QueueTypesKept ==
  ASSUME TypeOK, NEW r \in RunIds, QueueStep(r) \/ Fault(r)
  PROVE  TypeOK'
<1>1. CASE HandlerRaises(r)
  BY <1>1 DEF HandlerRaises, TypeOK, QueueTypeOK, Goto, Step, row, world, queue
<1>2. CASE ~HandlerRaises(r)
  <2>1. QueueAction(r)
    BY <1>2 DEF QueueStep, Fault, Deliver, TriesExhausted, JobReturns, JobRaises,
                JobTimesOut, WorkerCrashes, QueueAction
  <2>2. QueueTypeOK(RunIds, Step)'
    BY <2>1, QueueActionTypeOK DEF TypeOK, Step
  <2>3. /\ UNCHANGED <<row, world, api, view>>
        /\ stored' \in [RunIds -> SUBSET Dimension]
        /\ listed' \in [RunIds -> SUBSET Code]
    BY <1>2 DEF QueueStep, Fault, Deliver, TriesExhausted, JobReturns, JobRaises,
                JobTimesOut, WorkerCrashes, Forget, TypeOK
  <2>4. QED
    BY <2>2, <2>3 DEF TypeOK, row, world
<1>3. QED
  BY <1>1, <1>2

\* Readers and the rest of the system keep the types.
LEMMA OtherTypeOK ==
  ASSUME TypeOK, \A v \in Reader : ViewFitsRun(v),
         (\E v \in Reader : Read(v)) \/ ProfileRebuilt \/ CatalogueChanges
  PROVE  TypeOK'
<1> USE DirectionConstants DEF TypeOK, RunIds, QueueTypeOK
<1> DEFINE View == [at : {"idle", "run", "reports", "shown"},
                    run : 0..MaxRuns,
                    status : RunStatus \cup {"absent"},
                    reports : SUBSET Dimension,
                    verdicts : SUBSET Citation]
<1>1. ASSUME NEW v \in Reader, ReadRun(v) PROVE TypeOK'
  <2>1. PICK r \in 1..created :
           Show(v, "run", r, status[r], {}, {})
    BY <1>1 DEF ReadRun
  <2>2. r \in 0..MaxRuns /\ status[r] \in RunStatus \cup {"absent"}
    OBVIOUS
  <2>3. view' \in [Reader -> View]
    BY <2>1, <2>2 DEF Show
  <2>4. QED
    BY <1>1, <2>3 DEF ReadRun, row, world, queue, handler
<1>2. ASSUME NEW v \in Reader, ReadReports(v) PROVE TypeOK'
  <2>1. view[v].run \in RunIds
    BY <1>2 DEF ReadReports, ViewFitsRun
  <2>2. reports[view[v].run] \in SUBSET Dimension
    BY <2>1
  <2>3. view' \in [Reader -> View]
    BY <1>2, <2>1, <2>2 DEF ReadReports, Show, RunIds
  <2>4. QED
    BY <1>2, <2>3 DEF ReadReports, row, world, queue, handler
<1>3. ASSUME NEW v \in Reader, ReadVerdicts(v) PROVE TypeOK'
  <2>1. view[v].run \in RunIds
    BY <1>3 DEF ReadVerdicts, ViewFitsRun
  <2>2. verdicts[view[v].run] \in SUBSET Citation
    BY <2>1
  <2>3. view' \in [Reader -> View]
    BY <1>3, <2>1, <2>2 DEF ReadVerdicts, Show
  <2>4. QED
    BY <1>3, <2>3 DEF ReadVerdicts, row, world, queue, handler
<1>4. ASSUME NEW v \in Reader, ReaderLeaves(v) PROVE TypeOK'
  BY <1>4 DEF ReaderLeaves, NoView, row, world, queue, handler
<1>5. CASE ProfileRebuilt
  BY <1>5 DEF ProfileRebuilt, row, queue, handler
<1>6. CASE CatalogueChanges
  BY <1>6 DEF CatalogueChanges, row, queue, handler
<1>7. QED
  BY <1>1, <1>2, <1>3, <1>4, <1>5, <1>6 DEF Read

\* Every step keeps the types.
LEMMA NextTypeOK ==
  ASSUME DirectionInv, [Next]_vars
  PROVE  TypeOK'
<1>1. TypeOK /\ NothingBeforeCreation /\ \A v \in Reader : ViewFitsRun(v)
  BY DEF DirectionInv
<1>2. CASE \E p \in Api : StartRequest(p)
  BY <1>1, <1>2, StartTypeOK
<1>3. CASE \E r \in RunIds : HandlerStep(r) \/ QueueStep(r) \/ Fault(r)
  BY <1>1, <1>3, HandlerTypeOK, QueueTypesKept
<1>4. CASE (\E v \in Reader : Read(v)) \/ ProfileRebuilt \/ CatalogueChanges
  BY <1>1, <1>4, OtherTypeOK
<1>5. CASE UNCHANGED vars
  BY <1>1, <1>5 DEF TypeOK, QueueTypeOK, vars, row, world, queue, handler
<1>6. QED
  BY <1>2, <1>3, <1>4, <1>5 DEF Next

-----------------------------------------------------------------------------
(***************************************************************************)
(* What one step does to the rows of one run.                              *)
(***************************************************************************)
\* A step changes a run's status only along TRANSITIONS, and its reports and
\* verdicts only from nothing; the handler is the only writer of the three.
RunMoves(r) ==
    /\ status[r] \in RunStatus /\ status'[r] # status[r]
         => status'[r] \in TRANSITIONS[status[r]]
    /\ reports[r] # {} => reports'[r] = reports[r]
    /\ verdicts[r] # {} => verdicts'[r] = verdicts[r]

\* The table, spelled out (domain/run.py, TRANSITIONS).
LEMMA TransitionTable ==
  /\ TRANSITIONS["pending"] = {"analyzing", "failed"}
  /\ TRANSITIONS["analyzing"] = {"recommending", "failed"}
  /\ TRANSITIONS["recommending"] = {"ready", "failed"}
  /\ TRANSITIONS["ready"] = {}
  /\ TRANSITIONS["failed"] = {}
  BY DEF TRANSITIONS, RunStatus

\* The handler moves its run along the table and writes evidence once.
LEMMA HandlerMoves ==
  ASSUME DirectionInv, NEW r \in RunIds, HandlerStep(r), NEW x \in RunIds
  PROVE  RunMoves(x)
<1> USE DirectionConstants DEF DirectionInv, TypeOK, QueueTypeOK, StepFitsRow, StatusFitsRows,
        RunMoves, SetStatus
<1>1. CASE LoadRun(r)
  BY <1>1 DEF LoadRun, row
<1>2. CASE BeginAnalyzing(r)
  BY <1>2, TransitionTable DEF BeginAnalyzing
<1>3. CASE Analyze(r)
  BY <1>3 DEF Analyze
<1>4. CASE SetReadouts(r)
  BY <1>4 DEF SetReadouts
<1>5. CASE StoreReports(r)
  BY <1>5 DEF StoreReports, replace_for_run
<1>6. CASE BeginRecommending(r)
  BY <1>6, TransitionTable DEF BeginRecommending
<1>7. CASE ListCatalogue(r)
  BY <1>7 DEF ListCatalogue, row
<1>8. CASE StoreVerdicts(r)
  BY <1>8 DEF StoreVerdicts, replace_for_run
<1>9. CASE Finish(r)
  BY <1>9, TransitionTable DEF Finish
<1>10. CASE Fail(r)
  BY <1>10, TransitionTable DEF Fail, fail_status, RunStatus
<1>11. QED
  BY <1>1, <1>2, <1>3, <1>4, <1>5, <1>6, <1>7, <1>8, <1>9, <1>10 DEF HandlerStep

\* So does every step of the system.
LEMMA NextMoves ==
  ASSUME DirectionInv, [Next]_vars, NEW x \in RunIds
  PROVE  RunMoves(x)
<1>1. ASSUME NEW p \in Api, StartRequest(p) PROVE RunMoves(x)
  <2> USE DirectionConstants DEF RunMoves
  <2>1. CASE StartChecked(p)
    BY <2>1 DEF StartChecked, row
  <2>2. CASE StartCreates(p)
    <3>1. created + 1 \in RunIds /\ status[created + 1] = "absent"
      BY <2>2 DEF StartCreates, DirectionInv, TypeOK, NothingBeforeCreation, RunIds
    <3>2. QED
      BY <2>2, <3>1 DEF StartCreates, DirectionInv, TypeOK, RunStatus
  <2>3. CASE StartEnqueues(p)
    BY <2>3 DEF StartEnqueues, row
  <2>4. CASE StartDies(p)
    BY <2>4 DEF StartDies, row
  <2>5. QED
    BY <1>1, <2>1, <2>2, <2>3, <2>4 DEF StartRequest
<1>2. ASSUME NEW r \in RunIds, HandlerStep(r) PROVE RunMoves(x)
  BY <1>2, HandlerMoves
<1>3. CASE UNCHANGED row
  BY <1>3 DEF row, RunMoves
<1>4. ASSUME NEW r \in RunIds, QueueStep(r) \/ Fault(r) PROVE UNCHANGED row
  BY <1>4 DEF QueueStep, Fault, Deliver, TriesExhausted, JobReturns, JobRaises, JobTimesOut,
              WorkerCrashes, HandlerRaises, Forget
<1>5. ASSUME NEW v \in Reader, Read(v) PROVE UNCHANGED row
  BY <1>5 DEF Read, ReadRun, ReadReports, ReadVerdicts, ReaderLeaves
<1>6. CASE ProfileRebuilt \/ CatalogueChanges
  BY <1>3, <1>6 DEF ProfileRebuilt, CatalogueChanges
<1>7. CASE UNCHANGED vars
  BY <1>3, <1>7 DEF vars
<1>8. QED
  BY <1>1, <1>2, <1>3, <1>4, <1>5, <1>6, <1>7 DEF Next

-----------------------------------------------------------------------------
(***************************************************************************)
(* The inductive invariant is preserved.                                   *)
(***************************************************************************)
\* What the invariant says of one run.
RunFits(r) ==
    /\ StepFitsRow(r)
    /\ StatusFitsRows(r)
    /\ Sourced(verdicts[r], reports[r])
    /\ status[r] = "ready" =>
          /\ written[r] = {"period", "readouts"}
          /\ Base \subseteq reports[r]
          /\ verdicts[r] # {}

\* Run by run, the handler keeps what the invariant says.
LEMMA HandlerKeepsRun ==
  ASSUME DirectionInv, NEW r \in RunIds, HandlerStep(r), NEW x \in RunIds
  PROVE  RunFits(x)'
<1>1. TypeOK /\ RunFits(x) /\ RunFits(r)
  BY DEF DirectionInv, RunFits, EvidenceIsSourced, ReadyIsComplete
<1> USE DirectionConstants, <1>1
        DEF TypeOK, QueueTypeOK, RunFits, StepFitsRow, StatusFitsRows, Sourced, Goto,
            SetStatus
<1>2. CASE LoadRun(r)
  <2>1. r \in 1..created
    BY <1>2 DEF LoadRun, DirectionInv, NothingBeforeCreation, RunIds
  <2>2. status[r] \in RunStatus
    BY <2>1 DEF DirectionInv, NothingBeforeCreation
  <2>3. assert_transition(status[r], "analyzing") => status[r] = "pending"
    BY <2>2, TransitionTable DEF assert_transition, RunStatus
  <2>4. QED
    BY <1>2, <2>3 DEF LoadRun, row, Step
<1>3. CASE BeginAnalyzing(r)
  BY <1>3 DEF BeginAnalyzing
<1>4. CASE Analyze(r)
  <2>1. PICK analysis \in Analyses(required(profile)) :
           stored' = [stored EXCEPT ![r] = analysis]
    BY <1>4 DEF Analyze
  <2>2. analysis \in SUBSET Dimension /\ Base \subseteq analysis
    BY DEF Analyses, required, missing_dimensions, ProfileRow
  <2>3. QED
    BY <1>4, <2>1, <2>2 DEF Analyze
<1>5. CASE SetReadouts(r)
  BY <1>5 DEF SetReadouts
<1>6. CASE StoreReports(r)
  BY <1>6 DEF StoreReports, replace_for_run
<1>7. CASE BeginRecommending(r)
  BY <1>7 DEF BeginRecommending
<1>8. CASE ListCatalogue(r)
  BY <1>8 DEF ListCatalogue, row
<1>9. CASE StoreVerdicts(r)
  <2>1. PICK draft \in SUBSET Citation :
           /\ verdict_violations_none(draft, listed[r], stored[r])
           /\ verdicts' = replace_for_run(verdicts, r, draft)
    BY <1>9 DEF StoreVerdicts
  <2>2. draft # {} /\ Sourced(draft, stored[r])
    BY <1>9, <2>1 DEF StoreVerdicts, verdict_violations_none
  <2>3. QED
    BY <1>9, <2>1, <2>2 DEF StoreVerdicts, replace_for_run
<1>10. CASE Finish(r)
  <2>1. written[r] = {"period", "readouts"}
    BY <1>10 DEF Finish
  <2>2. QED
    BY <1>10, <2>1 DEF Finish
<1>11. CASE Fail(r)
  BY <1>11 DEF Fail, fail_status
<1>12. QED
  BY <1>2, <1>3, <1>4, <1>5, <1>6, <1>7, <1>8, <1>9, <1>10, <1>11 DEF HandlerStep

\* A delivery, the end of a job and a fault only forget the handler's position.
LEMMA QueueKeepsRun ==
  ASSUME DirectionInv, NEW r \in RunIds, QueueStep(r) \/ Fault(r), NEW x \in RunIds
  PROVE  RunFits(x)'
<1>1. TypeOK /\ RunFits(x)
  BY DEF DirectionInv, RunFits, EvidenceIsSourced, ReadyIsComplete
<1>2. CASE HandlerRaises(r)
  BY <1>1, <1>2 DEF HandlerRaises, TypeOK, QueueTypeOK, RunFits, StepFitsRow,
                    StatusFitsRows, Sourced, Goto, row
<1>3. CASE ~HandlerRaises(r)
  <2>1. QueueAction(r)
    BY <1>3 DEF QueueStep, Fault, Deliver, TriesExhausted, JobReturns, JobRaises,
                JobTimesOut, WorkerCrashes, QueueAction
  <2>2. at'[x] \in {"idle", "load", at[x]}
    BY <1>1, <2>1, QueueActionFrame, QueueActionPosition DEF TypeOK
  <2>3. UNCHANGED row
    BY <1>3 DEF QueueStep, Fault, Deliver, TriesExhausted, JobReturns, JobRaises,
                JobTimesOut, WorkerCrashes, Forget
  <2>4. CASE UNCHANGED <<stored, listed>>
    BY <1>1, <2>2, <2>3, <2>4 DEF TypeOK, RunFits, StepFitsRow, StatusFitsRows, Sourced, row
  <2>5. CASE Forget(r) /\ at'[r] = "idle"
    BY <1>1, <2>2, <2>3, <2>5 DEF Forget, TypeOK, RunFits, StepFitsRow, StatusFitsRows,
                                  Sourced, row
  <2>6. UNCHANGED <<stored, listed>> \/ (Forget(r) /\ at'[r] = "idle")
    BY <1>1, <1>3 DEF QueueStep, Fault, Deliver, TriesExhausted, JobReturns, JobRaises,
                JobTimesOut, WorkerCrashes, Returned, Raised, TimedOut, Stopped, Ends,
                Goto, TypeOK, QueueTypeOK
  <2>7. QED
    BY <2>4, <2>5, <2>6
<1>4. QED
  BY <1>2, <1>3

\* A start request inserts an untouched row and changes no other.
LEMMA StartKeepsRun ==
  ASSUME DirectionInv, NEW p \in Api, StartRequest(p), NEW x \in RunIds
  PROVE  RunFits(x)'
<1>1. TypeOK /\ NothingBeforeCreation /\ RunFits(x)
  BY DEF DirectionInv, RunFits, EvidenceIsSourced, ReadyIsComplete
<1> USE DirectionConstants, <1>1
        DEF TypeOK, QueueTypeOK, RunFits, StepFitsRow, StatusFitsRows, Sourced, row,
            handler
<1>2. CASE StartChecked(p)
  BY <1>2 DEF StartChecked
<1>3. CASE StartCreates(p)
  <2>1. created + 1 \in RunIds
    BY <1>3 DEF StartCreates, RunIds
  <2>2. status[created + 1] = "absent" /\ at[created + 1] = "idle"
    BY <2>1 DEF NothingBeforeCreation, RunIds
  <2>3. QED
    BY <1>3, <2>1, <2>2 DEF StartCreates
<1>4. CASE StartEnqueues(p)
  BY <1>4 DEF StartEnqueues, Enqueue
<1>5. CASE StartDies(p)
  BY <1>5 DEF StartDies
<1>6. QED
  BY <1>2, <1>3, <1>4, <1>5 DEF StartRequest

\* A delivery, the end of a job and a fault concern one run that has a job.
LEMMA QueueTouchesOne ==
  ASSUME DirectionInv, NEW r \in RunIds, QueueStep(r) \/ Fault(r)
  PROVE  /\ job[r] # "none" \/ at[r] # "idle"
         /\ \A x \in RunIds \ {r} : at'[x] = at[x] /\ job'[x] = job[x]
         /\ UNCHANGED <<created, status, api>>
<1>1. CASE HandlerRaises(r)
  BY <1>1 DEF HandlerRaises, Goto, DirectionInv, TypeOK, QueueTypeOK, queue, row
<1>2. CASE ~HandlerRaises(r)
  <2>1. QueueAction(r)
    BY <1>2 DEF QueueStep, Fault, Deliver, TriesExhausted, JobReturns, JobRaises,
                JobTimesOut, WorkerCrashes, QueueAction
  <2>2. job[r] # "none" \/ at[r] # "idle"
    BY <1>2 DEF QueueStep, Fault, Deliver, TriesExhausted, JobReturns, JobRaises,
                JobTimesOut, WorkerCrashes, Delivered, GivenUp, Returned, Raised,
                TimedOut, Stopped
  <2>3. \A x \in RunIds \ {r} : at'[x] = at[x] /\ job'[x] = job[x]
    BY <2>1, QueueActionFrame DEF DirectionInv, TypeOK
  <2>4. UNCHANGED <<created, status, api>>
    BY <1>2 DEF QueueStep, Fault, Deliver, TriesExhausted, JobReturns, JobRaises,
                JobTimesOut, WorkerCrashes, Forget, row
  <2>5. QED
    BY <2>2, <2>3, <2>4
<1>3. QED
  BY <1>1, <1>2

\* No step touches a row that does not exist yet.
LEMMA CreationInv ==
  ASSUME DirectionInv, [Next]_vars
  PROVE  NothingBeforeCreation'
<1>1. TypeOK /\ NothingBeforeCreation
  BY DEF DirectionInv
<1> USE DirectionConstants, <1>1
        DEF TypeOK, QueueTypeOK, NothingBeforeCreation, RunIds, RunStatus
<1>2. ASSUME NEW p \in Api, StartRequest(p) PROVE NothingBeforeCreation'
  <2>1. CASE StartChecked(p)
    BY <2>1 DEF StartChecked, row, queue, handler
  <2>2. CASE StartCreates(p)
    BY <2>2 DEF StartCreates, queue, handler
  <2>3. CASE StartEnqueues(p)
    BY <2>3 DEF StartEnqueues, Enqueue, row, handler
  <2>4. CASE StartDies(p)
    BY <2>4 DEF StartDies, row, queue, handler
  <2>5. QED
    BY <1>2, <2>1, <2>2, <2>3, <2>4 DEF StartRequest
<1>3. ASSUME NEW r \in RunIds, HandlerStep(r) PROVE NothingBeforeCreation'
  <2>1. at[r] # "idle"
    BY <1>3 DEF HandlerStep, LoadRun, BeginAnalyzing, Analyze, SetReadouts,
           StoreReports, BeginRecommending, ListCatalogue, StoreVerdicts, Finish, Fail
  <2>2. r <= created
    BY <2>1
  <2>3. \A x \in RunIds \ {r} : at'[x] = at[x] /\ status'[x] = status[x]
    BY <1>3 DEF HandlerStep, LoadRun, BeginAnalyzing, Analyze, SetReadouts,
           StoreReports, BeginRecommending, ListCatalogue, StoreVerdicts, Finish, Fail,
           Goto, SetStatus, row
  <2>4. status'[r] \in RunStatus
    <3>1. status[r] \in RunStatus
      BY <2>2
    <3>2. \/ status'[r] = status[r]
          \/ status'[r] \in {"analyzing", "recommending", "ready", "failed"}
      BY <1>3 DEF HandlerStep, LoadRun, BeginAnalyzing, Analyze, SetReadouts,
             StoreReports, BeginRecommending, ListCatalogue, StoreVerdicts, Finish,
             Fail, SetStatus, fail_status, row
    <3>3. QED
      BY <3>1, <3>2
  <2>5. UNCHANGED <<created, job, api>>
    BY <1>3 DEF HandlerStep, LoadRun, BeginAnalyzing, Analyze, SetReadouts,
           StoreReports, BeginRecommending, ListCatalogue, StoreVerdicts, Finish, Fail,
           row, queue
  <2>6. \A x \in RunIds : x > created' =>
           status'[x] = "absent" /\ job'[x] = "none" /\ at'[x] = "idle"
    BY <2>2, <2>3, <2>5
  <2>7. \A x \in 1..created' : status'[x] \in RunStatus
    <3>1. SUFFICES ASSUME NEW x \in 1..created PROVE status'[x] \in RunStatus
      BY <2>5
    <3>2. x \in RunIds /\ status[x] \in RunStatus
      OBVIOUS
    <3>3. QED
      BY <2>3, <2>4, <3>2
  <2>8. \A p \in Api : api'[p].at = "enqueue" => api'[p].run \in 1..created'
    BY <2>5
  <2>9. QED
    BY <2>6, <2>7, <2>8
<1>4. ASSUME NEW r \in RunIds, QueueStep(r) \/ Fault(r) PROVE NothingBeforeCreation'
  <2>1. /\ job[r] # "none" \/ at[r] # "idle"
        /\ \A x \in RunIds \ {r} : at'[x] = at[x] /\ job'[x] = job[x]
        /\ UNCHANGED <<created, status, api>>
    BY <1>4, QueueTouchesOne
  <2>2. r <= created
    BY <2>1
  <2>3. QED
    BY <2>1, <2>2
<1>5. CASE (\E v \in Reader : Read(v)) \/ ProfileRebuilt \/ CatalogueChanges
  BY <1>5 DEF Read, ReadRun, ReadReports, ReadVerdicts, ReaderLeaves,
         ProfileRebuilt, CatalogueChanges, row, queue, handler
<1>6. CASE UNCHANGED vars
  BY <1>6 DEF vars, row, queue, handler
<1>7. QED
  BY <1>2, <1>3, <1>4, <1>5, <1>6 DEF Next

\* What a reader holds of a ready run stays true while it goes on reading.
LEMMA ViewInv ==
  ASSUME DirectionInv, [Next]_vars, NEW v \in Reader
  PROVE  ViewFitsRun(v)'
<1>1. TypeOK /\ ViewFitsRun(v) /\ EvidenceIsSourced /\ ReadyIsComplete
  BY DEF DirectionInv
<1>2. \A r \in RunIds : status[r] = "ready" =>
         status'[r] = "ready" /\ reports'[r] = reports[r] /\ verdicts'[r] = verdicts[r]
  <2>1. SUFFICES ASSUME NEW r \in RunIds, status[r] = "ready"
                 PROVE  /\ status'[r] = "ready"
                        /\ reports'[r] = reports[r] /\ verdicts'[r] = verdicts[r]
    OBVIOUS
  <2>2. RunMoves(r)
    BY NextMoves
  <2>3. reports[r] # {} /\ verdicts[r] # {}
    BY <1>1, <2>1, DirectionConstants DEF ReadyIsComplete
  <2>4. QED
    BY <2>1, <2>2, <2>3, TransitionTable DEF RunMoves, RunStatus
<1>3. created' \in 0..MaxRuns /\ created <= created' /\ created \in 0..MaxRuns
  <2>1. created' = created \/ created' = created + 1
    BY DEF Next, StartRequest, StartChecked, StartCreates, StartEnqueues, StartDies,
           HandlerStep, LoadRun, BeginAnalyzing, Analyze, SetReadouts, StoreReports,
           BeginRecommending, ListCatalogue, StoreVerdicts, Finish, Fail, QueueStep,
           Deliver, TriesExhausted, JobReturns, JobRaises, Fault, JobTimesOut, WorkerCrashes,
           Forget, HandlerRaises, Read, ReadRun, ReadReports, ReadVerdicts, ReaderLeaves,
           ProfileRebuilt, CatalogueChanges, vars, row
  <2>2. QED
    BY <1>1, <2>1, NextTypeOK, DirectionConstants DEF TypeOK
<1>4. CASE view'[v] = view[v]
  BY <1>1, <1>2, <1>3, <1>4, DirectionConstants DEF ViewFitsRun, RunIds
<1>5. CASE Read(v)
  <2>1. UNCHANGED row
    BY <1>5 DEF Read, ReadRun, ReadReports, ReadVerdicts, ReaderLeaves
  <2>2. CASE ReadRun(v)
    BY <1>1, <2>1, <2>2 DEF ReadRun, Show, ViewFitsRun, TypeOK, row
  <2>3. CASE ReadReports(v)
    BY <1>1, <2>1, <2>3 DEF ReadReports, Show, ViewFitsRun, TypeOK, row
  <2>4. CASE ReadVerdicts(v)
    BY <1>1, <2>1, <2>4 DEF ReadVerdicts, Show, ViewFitsRun, TypeOK, row
  <2>5. CASE ReaderLeaves(v)
    BY <1>1, <2>5 DEF ReaderLeaves, NoView, ViewFitsRun, TypeOK
  <2>6. QED
    BY <1>5, <2>2, <2>3, <2>4, <2>5 DEF Read
<1>6. ASSUME NEW w \in Reader, w # v, Read(w) PROVE view'[v] = view[v]
  BY <1>1, <1>6 DEF Read, ReadRun, ReadReports, ReadVerdicts, ReaderLeaves, Show, TypeOK
<1>7. ASSUME ~(\E w \in Reader : Read(w)) PROVE view' = view
  BY <1>7 DEF Next, StartRequest, StartChecked, StartCreates, StartEnqueues, StartDies,
         HandlerStep, LoadRun, BeginAnalyzing, Analyze, SetReadouts, StoreReports,
         BeginRecommending, ListCatalogue, StoreVerdicts, Finish, Fail, QueueStep,
         Deliver, TriesExhausted, JobReturns, JobRaises, Fault, JobTimesOut, WorkerCrashes,
         Forget, HandlerRaises, ProfileRebuilt, CatalogueChanges, vars
<1>8. QED
  BY <1>4, <1>5, <1>6, <1>7

\* The rows of a run are left alone by everything but its requests and handler.
LEMMA NextKeepsRun ==
  ASSUME DirectionInv, [Next]_vars, NEW x \in RunIds
  PROVE  RunFits(x)'
<1>1. RunFits(x)
  BY DEF DirectionInv, RunFits, EvidenceIsSourced, ReadyIsComplete
<1>2. CASE UNCHANGED <<row, handler>>
  BY <1>1, <1>2 DEF RunFits, StepFitsRow, StatusFitsRows, Sourced, row, handler
<1>3. CASE \E p \in Api : StartRequest(p)
  BY <1>3, StartKeepsRun
<1>4. CASE \E r \in RunIds : HandlerStep(r) \/ QueueStep(r) \/ Fault(r)
  BY <1>4, HandlerKeepsRun, QueueKeepsRun
<1>5. CASE (\E v \in Reader : Read(v)) \/ ProfileRebuilt \/ CatalogueChanges
  BY <1>2, <1>5 DEF Read, ReadRun, ReadReports, ReadVerdicts, ReaderLeaves,
                    ProfileRebuilt, CatalogueChanges
<1>6. CASE UNCHANGED vars
  BY <1>2, <1>6 DEF vars
<1>7. QED
  BY <1>3, <1>4, <1>5, <1>6 DEF Next

\* DirectionInv is an inductive invariant of every instance.
THEOREM DirectionInvariant == Spec => []DirectionInv
<1>1. Init => DirectionInv
  <2>1. SUFFICES ASSUME Init PROVE DirectionInv
    OBVIOUS
  <2>2. TypeOK
    BY <2>1, InitTypeOK
  <2>3. NothingBeforeCreation
    BY <2>1, DirectionConstants DEF Init, QueueInit, NothingBeforeCreation, RunIds
  <2>4. \A r \in RunIds : RunFits(r)
    BY <2>1 DEF Init, QueueInit, RunFits, StepFitsRow, StatusFitsRows, Sourced
  <2>5. \A v \in Reader : ViewFitsRun(v)
    BY <2>1 DEF Init, NoView, ViewFitsRun
  <2>6. QED
    BY <2>2, <2>3, <2>4, <2>5 DEF DirectionInv, RunFits, EvidenceIsSourced, ReadyIsComplete
<1>2. DirectionInv /\ [Next]_vars => DirectionInv'
  <2>1. SUFFICES ASSUME DirectionInv, [Next]_vars PROVE DirectionInv'
    OBVIOUS
  <2>2. TypeOK' /\ NothingBeforeCreation'
    BY <2>1, NextTypeOK, CreationInv
  <2>3. \A r \in RunIds : RunFits(r)'
    BY <2>1, NextKeepsRun
  <2>4. \A v \in Reader : ViewFitsRun(v)'
    BY <2>1, ViewInv
  <2>5. QED
    BY <2>2, <2>3, <2>4 DEF DirectionInv, RunFits, EvidenceIsSourced, ReadyIsComplete
<1>3. QED
  BY <1>1, <1>2, PTL DEF Spec

\* Type correctness.
THEOREM TypeCorrect == Spec => []TypeOK
<1>1. DirectionInv => TypeOK
  BY DEF DirectionInv
<1>2. QED
  BY <1>1, DirectionInvariant, PTL

\* Every evidence item in the database cites a Report of its own run.
THEOREM EvidenceSourced == Spec => []EvidenceIsSourced
<1>1. DirectionInv => EvidenceIsSourced
  BY DEF DirectionInv
<1>2. QED
  BY <1>1, DirectionInvariant, PTL

\* A ready run has everything the screens that follow need.
THEOREM ReadyComplete == Spec => []ReadyIsComplete
<1>1. DirectionInv => ReadyIsComplete
  BY DEF DirectionInv
<1>2. QED
  BY <1>1, DirectionInvariant, PTL

\* A view assembled from three transactions and saying `ready` is complete.
THEOREM ReadyViewComplete == Spec => []ReadyViewIsComplete
<1>1. DirectionInv => ReadyViewIsComplete
  <2>1. SUFFICES ASSUME DirectionInv, NEW v \in Reader,
                        view[v].at = "shown", view[v].status = "ready"
                 PROVE  /\ Base \subseteq view[v].reports
                        /\ view[v].verdicts # {}
                        /\ Sourced(view[v].verdicts, view[v].reports)
    BY DEF ReadyViewIsComplete
  <2>2. /\ view[v].run \in RunIds
        /\ status[view[v].run] = "ready"
        /\ view[v].reports = reports[view[v].run]
        /\ view[v].verdicts = verdicts[view[v].run]
    BY <2>1, DirectionConstants DEF DirectionInv, ViewFitsRun, TypeOK, RunIds
  <2>3. QED
    BY <2>1, <2>2 DEF DirectionInv, ReadyIsComplete, EvidenceIsSourced
<1>2. QED
  BY <1>1, DirectionInvariant, PTL

\* Runs move only along TRANSITIONS, under every delivery, crash and failure.
THEOREM StatusMovesAlongTransitions == Spec => MovesAlongTransitions
<1>1. DirectionInv /\ [Next]_vars =>
        [\A r \in RunIds : status[r] \in RunStatus /\ status'[r] # status[r]
            => status'[r] \in TRANSITIONS[status[r]]]_vars
  BY NextMoves DEF RunMoves
<1>2. QED
  BY <1>1, DirectionInvariant, PTL DEF Spec, MovesAlongTransitions

\* Reports and verdicts are never rewritten once stored.
THEOREM EvidenceWrittenOnce == Spec => EvidenceIsWrittenOnce
<1>1. DirectionInv /\ [Next]_vars =>
        [\A r \in RunIds : /\ reports[r] # {} => reports'[r] = reports[r]
                           /\ verdicts[r] # {} => verdicts'[r] = verdicts[r]]_vars
  BY NextMoves DEF RunMoves
<1>2. QED
  BY <1>1, DirectionInvariant, PTL DEF Spec, EvidenceIsWrittenOnce

-----------------------------------------------------------------------------
(***************************************************************************)
(* One run in flight.  The check and the insert of StartDirectionRun are   *)
(* two transactions: the promise needs a user whose requests do not race.  *)
(***************************************************************************)
\* Only the latest run may be in flight, and not even that one once a request has
\* passed the check.
LatestAlone ==
    /\ \A r \in RunIds : r < created => ~InFlight(r)
    /\ \A p \in Api : api[p].at = "create" => created = 0 \/ ~InFlight(created)

LEMMA LatestAloneKept ==
  ASSUME \A p, q \in Api : p = q, DirectionInv, LatestAlone, [Next]_vars
  PROVE  LatestAlone'
<1>1. /\ MaxRuns \in Nat /\ created \in 0..MaxRuns /\ created' \in 0..MaxRuns
      /\ \A r \in RunIds : r <= created => status[r] \in RunStatus
      /\ api \in [Api -> [at : {"idle", "create", "enqueue"}, run : 0..MaxRuns]]
  <2>1. TypeOK /\ TypeOK' /\ NothingBeforeCreation
    BY NextTypeOK DEF DirectionInv
  <2>2. QED
    BY <2>1, DirectionConstants DEF TypeOK, NothingBeforeCreation, RunIds
<1>2. ASSUME NEW r \in RunIds, r <= created, ~InFlight(r) PROVE ~InFlight(r)'
  <2>1. status[r] \in {"ready", "failed"}
    BY <1>1, <1>2 DEF InFlight, Active, RunStatus
  <2>2. TRANSITIONS[status[r]] = {}
    BY <2>1, TransitionTable
  <2>3. status'[r] = status[r]
    BY <1>1, <1>2, <2>2, NextMoves DEF RunMoves
  <2>4. QED
    BY <1>2, <2>3 DEF InFlight
<1>3. CASE UNCHANGED <<created, api>>
  <2>1. created \in Nat /\ (created # 0 => created \in RunIds)
    BY <1>1 DEF RunIds
  <2>2. \A r \in RunIds : r < created => r <= created
    BY <1>1 DEF RunIds
  <2>3. InFlight(created)' => created' = 0 \/ InFlight(created)
    BY <1>1, <1>2, <1>3, <2>1 DEF InFlight
  <2>4. QED
    BY <1>2, <1>3, <2>1, <2>2, <2>3 DEF LatestAlone
<1>4. ASSUME NEW p \in Api, StartRequest(p) PROVE LatestAlone'
  <2>1. \A q \in Api : q = p
    OBVIOUS
  <2>2. CASE StartChecked(p)
    BY <1>1, <2>1, <2>2 DEF StartChecked, LatestAlone, InFlight, row
  <2>3. CASE StartCreates(p)
    <3>1. created' = created + 1 /\ api' = [api EXCEPT ![p] = [at |-> "enqueue", run |-> created + 1]]
          /\ api[p].at = "create"
      BY <2>3 DEF StartCreates
    <3>2. \A q \in Api : api'[q].at # "create"
      BY <1>1, <2>1, <3>1
    <3>3. ASSUME NEW r \in RunIds, r < created' PROVE ~InFlight(r)'
      <4>1. r < created \/ r = created
        BY <1>1, <3>1, <3>3 DEF RunIds
      <4>2. ~InFlight(r) /\ r <= created
        BY <1>1, <3>1, <4>1 DEF LatestAlone, RunIds
      <4>3. QED
        BY <1>2, <4>2
    <3>4. QED
      BY <3>2, <3>3 DEF LatestAlone
  <2>4. CASE StartEnqueues(p) \/ StartDies(p)
    BY <1>1, <2>1, <2>4 DEF StartEnqueues, StartDies, LatestAlone, InFlight, row
  <2>5. QED
    BY <1>4, <2>2, <2>3, <2>4 DEF StartRequest
<1>5. ASSUME NEW r \in RunIds, HandlerStep(r) \/ QueueStep(r) \/ Fault(r)
      PROVE  UNCHANGED <<created, api>>
  BY <1>5 DEF HandlerStep, LoadRun, BeginAnalyzing, Analyze, SetReadouts, StoreReports,
     BeginRecommending, ListCatalogue, StoreVerdicts, Finish, Fail, QueueStep, Fault, Deliver,
     TriesExhausted, JobReturns, JobRaises, JobTimesOut, WorkerCrashes, HandlerRaises, Forget, row
<1>6. CASE (\E v \in Reader : Read(v)) \/ ProfileRebuilt \/ CatalogueChanges \/ UNCHANGED vars
  BY <1>3, <1>6 DEF Read, ReadRun, ReadReports, ReadVerdicts, ReaderLeaves, ProfileRebuilt,
     CatalogueChanges, vars, row
<1>7. QED
  BY <1>3, <1>4, <1>5, <1>6 DEF Next

\* StartDirectionRun's promise, where no two requests of the user race.
THEOREM OneRunInFlight ==
  ASSUME \A p, q \in Api : p = q
  PROVE  Spec => []OneInFlight
<1>1. Init => LatestAlone
  BY DirectionConstants DEF Init, LatestAlone, RunIds
<1>2. DirectionInv /\ LatestAlone /\ [Next]_vars => LatestAlone'
  BY LatestAloneKept
<1>3. DirectionInv /\ LatestAlone => OneInFlight
  <2>1. SUFFICES ASSUME DirectionInv, LatestAlone, NEW a \in RunIds, NEW b \in RunIds,
                        InFlight(a), InFlight(b)
                 PROVE  a = b
    BY DEF OneInFlight
  <2>2. /\ created \in Nat /\ a \in Nat /\ b \in Nat
        /\ a <= created /\ b <= created
    BY <2>1, DirectionConstants
       DEF DirectionInv, TypeOK, NothingBeforeCreation, InFlight, Active, RunIds
  <2>3. ~(a < created) /\ ~(b < created)
    BY <2>1 DEF LatestAlone
  <2>4. QED
    BY <2>2, <2>3
<1>4. QED
  BY <1>1, <1>2, <1>3, DirectionInvariant, PTL DEF Spec

-----------------------------------------------------------------------------
(***************************************************************************)
(* Station 1 implements RunPromise: each step that matters is one of the   *)
(* promise, and all others stutter.                                        *)
(***************************************************************************)
\* What the promise says does not change with the rows of a run that is not ready, nor
\* with a view that is not shown.
LEMMA PromiseStutters ==
  ASSUME UNCHANGED <<created, status>>,
         \A r \in RunIds : status[r] = "ready" => UNCHANGED <<reports[r], verdicts[r]>>,
         \A v \in Reader : Told(v)' = Told(v)
  PROVE  UNCHANGED Promise!vars
<1>1. \A r \in RunIds : Phase(r)' = Phase(r) /\ Concluded(r)' = Concluded(r)
  BY DEF Phase, Concluded, InFlight
<1>2. QED
  BY <1>1 DEF Promise!vars

\* The insert is the start of a run; the other steps of a request are its own matter.
LEMMA PromiseOfStart ==
  ASSUME DirectionInv, NEW p \in Api, StartRequest(p)
  PROVE  [Promise!Next]_(Promise!vars)
<1>1. CASE StartCreates(p)
  <2>1. /\ created \in 0..MaxRuns /\ created < MaxRuns /\ created' = created + 1
        /\ created + 1 \in RunIds /\ status[created + 1] = "absent"
        /\ status \in [RunIds -> RunStatus \cup {"absent"}]
        /\ status' = [status EXCEPT ![created + 1] = "pending"]
        /\ UNCHANGED <<reports, verdicts, view>>
    BY <1>1, DirectionConstants
       DEF StartCreates, DirectionInv, TypeOK, NothingBeforeCreation, RunIds
  <2>2. \A r \in RunIds : /\ Phase(r)' = IF r = created + 1 THEN "working" ELSE Phase(r)
                          /\ Concluded(r)' = Concluded(r)
    BY <2>1 DEF Phase, Concluded, InFlight, Active
  <2>3. \A v \in Reader : Told(v)' = Told(v)
    BY <2>1 DEF Told
  <2>4. Promise!Start
    BY <2>1, <2>2, <2>3 DEF Promise!Start
  <2>5. QED
    BY <2>4 DEF Promise!Next
<1>2. CASE StartChecked(p) \/ StartEnqueues(p) \/ StartDies(p)
  BY <1>2, PromiseStutters DEF StartChecked, StartEnqueues, StartDies, Told, row
<1>3. QED
  BY <1>1, <1>2 DEF StartRequest

\* The last write of the handler concludes the run, with all it wrote before; the error
\* path gives it up, unless it is over.
LEMMA PromiseOfHandler ==
  ASSUME DirectionInv, NEW r \in RunIds, HandlerStep(r)
  PROVE  [Promise!Next]_(Promise!vars)
<1>1. /\ TypeOK /\ StepFitsRow(r)
      /\ reports \in [RunIds -> SUBSET Dimension] /\ verdicts \in [RunIds -> SUBSET Citation]
      /\ status \in [RunIds -> RunStatus \cup {"absent"}]
      /\ Sourced(verdicts[r], reports[r])
  BY DEF DirectionInv, TypeOK, EvidenceIsSourced
<1>2. UNCHANGED <<created, view>>
  BY DEF HandlerStep, LoadRun, BeginAnalyzing, Analyze, SetReadouts, StoreReports,
         BeginRecommending, ListCatalogue, StoreVerdicts, Finish, Fail, row
<1>3. \A v \in Reader : Told(v)' = Told(v)
  BY <1>2 DEF Told
<1>4. CASE LoadRun(r) \/ Analyze(r) \/ SetReadouts(r) \/ ListCatalogue(r)
  BY <1>3, <1>4, PromiseStutters DEF LoadRun, Analyze, SetReadouts, ListCatalogue, row
<1>5. CASE StoreReports(r)
  <2>1. status[r] # "ready"
    BY <1>1, <1>5 DEF StoreReports, StepFitsRow
  <2>2. QED
    BY <1>1, <1>3, <1>5, <2>1, PromiseStutters DEF StoreReports, replace_for_run
<1>6. CASE StoreVerdicts(r)
  <2>1. status[r] # "ready"
    BY <1>1, <1>6 DEF StoreVerdicts, StepFitsRow
  <2>2. QED
    BY <1>1, <1>3, <1>6, <2>1, PromiseStutters DEF StoreVerdicts, replace_for_run
<1>7. CASE BeginAnalyzing(r) \/ BeginRecommending(r)
  <2>1. /\ status[r] \in Active /\ UNCHANGED <<reports, verdicts>>
        /\ \E s \in Active : status' = [status EXCEPT ![r] = s]
    BY <1>1, <1>7 DEF BeginAnalyzing, BeginRecommending, StepFitsRow, SetStatus, Active
  <2>2. \A x \in RunIds : Phase(x)' = Phase(x) /\ Concluded(x)' = Concluded(x)
    BY <1>1, <2>1 DEF Phase, Concluded, InFlight, Active
  <2>3. QED
    BY <1>2, <1>3, <2>2 DEF Promise!vars
<1>8. CASE Finish(r)
  <2>1. /\ status[r] = "recommending" /\ status' = [status EXCEPT ![r] = "ready"]
        /\ UNCHANGED <<reports, verdicts>>
        /\ Base \subseteq reports[r] /\ verdicts[r] # {}
    BY <1>1, <1>8 DEF Finish, StepFitsRow, SetStatus
  <2>2. \A x \in RunIds :
           /\ Phase(x)' = IF x = r THEN "ready" ELSE Phase(x)
           /\ Concluded(x)' = IF x = r THEN <<reports[r], verdicts[r]>> ELSE Concluded(x)
    BY <1>1, <2>1 DEF Phase, Concluded, InFlight, Active
  <2>3. <<reports[r], verdicts[r]>> \in Complete
    BY <1>1, <2>1 DEF Complete
  <2>4. Phase(r) = "working"
    BY <2>1 DEF Phase, InFlight, Active
  <2>5. Promise!Conclude(r)
    BY <1>2, <1>3, <2>2, <2>3, <2>4 DEF Promise!Conclude
  <2>6. QED
    BY <2>5 DEF Promise!Next, Promise!Runs, RunIds
<1>9. CASE Fail(r)
  <2>1. r \in 1..created
    BY <1>9, DirectionConstants
       DEF Fail, DirectionInv, TypeOK, NothingBeforeCreation, RunIds
  <2>2. status[r] \in RunStatus
    BY <2>1 DEF DirectionInv, NothingBeforeCreation
  <2>3. status' = [status EXCEPT ![r] = fail_status(status[r])] /\ UNCHANGED <<reports, verdicts>>
    BY <1>9 DEF Fail, SetStatus
  <2>4. CASE status[r] \in {"ready", "failed"}
    BY <1>1, <1>2, <1>3, <2>3, <2>4, PromiseStutters DEF fail_status
  <2>5. CASE status[r] \in Active
    <3>1. \A x \in RunIds : /\ Phase(x)' = IF x = r THEN "failed" ELSE Phase(x)
                            /\ Concluded(x)' = Concluded(x)
      BY <1>1, <2>3, <2>5 DEF Phase, Concluded, InFlight, Active, fail_status
    <3>2. Phase(r) = "working"
      BY <2>5 DEF Phase, InFlight
    <3>3. Promise!GiveUp(r)
      BY <1>2, <1>3, <3>1, <3>2 DEF Promise!GiveUp
    <3>4. QED
      BY <3>3 DEF Promise!Next, Promise!Runs, RunIds
  <2>6. QED
    BY <2>2, <2>4, <2>5 DEF RunStatus, Active
<1>10. QED
  BY <1>4, <1>5, <1>6, <1>7, <1>8, <1>9 DEF HandlerStep

\* A client is told at its third read, if the first one found the run ready.
LEMMA PromiseOfReader ==
  ASSUME DirectionInv, NEW v \in Reader, Read(v)
  PROVE  [Promise!Next]_(Promise!vars)
<1>1. /\ UNCHANGED row
      /\ view \in [Reader -> [at : {"idle", "run", "reports", "shown"},
                              run : 0..MaxRuns, status : RunStatus \cup {"absent"},
                              reports : SUBSET Dimension, verdicts : SUBSET Citation]]
  BY DEF Read, ReadRun, ReadReports, ReadVerdicts, ReaderLeaves, DirectionInv, TypeOK
<1>2. \A r \in RunIds : Phase(r)' = Phase(r) /\ Concluded(r)' = Concluded(r)
  BY <1>1 DEF Phase, Concluded, InFlight, row
<1>3. CASE ReadRun(v) \/ ReadReports(v)
  <2>1. \A w \in Reader : Told(w)' = Told(w)
    BY <1>1, <1>3 DEF ReadRun, ReadReports, Show, Told
  <2>2. QED
    BY <1>1, <2>1, PromiseStutters DEF row
<1>4. CASE ReadVerdicts(v)
  <2>1. PICK r : r = view[v].run
    OBVIOUS
  <2>2. view' = [view EXCEPT ![v] = [at |-> "shown", run |-> r, status |-> view[v].status,
                                     reports |-> view[v].reports, verdicts |-> verdicts[r]]]
    BY <1>4, <2>1 DEF ReadVerdicts, Show
  <2>3. CASE view[v].status = "ready"
    <3>1. r \in RunIds /\ status[r] = "ready" /\ view[v].reports = reports[r]
      BY <1>4, <2>1, <2>3, DirectionConstants
         DEF ReadVerdicts, DirectionInv, TypeOK, ViewFitsRun, RunIds
    <3>2. \A w \in Reader : Told(w)' = IF w = v THEN Concluded(r) ELSE Told(w)
      BY <1>1, <2>2, <2>3, <3>1 DEF Told, Concluded
    <3>3. Phase(r) = "ready"
      BY <3>1 DEF Phase, InFlight, Active
    <3>4. Promise!Tell(v, r)
      BY <1>1, <1>2, <3>1, <3>2, <3>3 DEF Promise!Tell, row
    <3>5. QED
      BY <3>1, <3>4 DEF Promise!Next, Promise!Runs, RunIds
  <2>4. CASE view[v].status # "ready"
    <3>1. \A w \in Reader : Told(w)' = Told(w)
      BY <1>1, <2>2, <2>4 DEF Told
    <3>2. QED
      BY <1>1, <3>1, PromiseStutters DEF row
  <2>5. QED
    BY <2>3, <2>4
<1>5. CASE ReaderLeaves(v)
  <2>1. \A w \in Reader : Told(w)' = IF w = v THEN Unconcluded ELSE Told(w)
    BY <1>1, <1>5 DEF ReaderLeaves, NoView, Told
  <2>2. Promise!Leave(v)
    BY <1>1, <1>2, <2>1 DEF Promise!Leave, row
  <2>3. QED
    BY <2>2 DEF Promise!Next
<1>6. QED
  BY <1>3, <1>4, <1>5 DEF Read

\* However its job is delivered, interrupted and repeated, a run is concluded once, all
\* at once and whole, and a client is told exactly what it concluded, or that it is not
\* ready, though each of the reads and writes is a transaction of its own.
THEOREM PromiseKept == Spec => KeepsPromise
<1>1. Init => Promise!Init
  BY DEF Init, Promise!Init, Promise!Runs, Phase, Concluded, Told, InFlight, Active,
         RunIds, NoView
<1>2. DirectionInv /\ [Next]_vars => [Promise!Next]_(Promise!vars)
  <2> SUFFICES ASSUME DirectionInv, [Next]_vars PROVE [Promise!Next]_(Promise!vars)
    OBVIOUS
  <2>1. ASSUME UNCHANGED <<row, view>> PROVE UNCHANGED Promise!vars
    BY <2>1, PromiseStutters DEF Told, row
  <2>2. ASSUME NEW r \in RunIds, QueueStep(r) \/ Fault(r) PROVE UNCHANGED <<row, view>>
    BY <2>2 DEF QueueStep, Fault, Deliver, TriesExhausted, JobReturns, JobRaises,
                JobTimesOut, WorkerCrashes, HandlerRaises, Forget
  <2>3. CASE ProfileRebuilt \/ CatalogueChanges \/ UNCHANGED vars
    BY <2>1, <2>3 DEF ProfileRebuilt, CatalogueChanges, vars
  <2>4. QED
    BY <2>1, <2>2, <2>3, PromiseOfStart, PromiseOfHandler, PromiseOfReader DEF Next
<1>3. QED
  BY <1>1, <1>2, DirectionInvariant, PTL DEF Spec, KeepsPromise, Promise!Spec
=============================================================================
