------------------------- MODULE PlanLifecycleProofs -------------------------
(***************************************************************************)
(* Theorems about PlanLifecycle, for every number of hypotheses,           *)
(* deliveries and requests, and every set of faults.                       *)
(***************************************************************************)
EXTENDS PlanLifecycle, TLAPS

\* The queue's steps keep its types (packages/queue).
LEMMA QueueActionTypeOK ==
  ASSUME NEW J, NEW Steps, {"idle", "load"} \subseteq Steps,
         NEW j \in J, QueueTypeOK(J, Steps), QueueAction(j)
  PROVE  QueueTypeOK(J, Steps)'
<1> USE QueueConstants DEF QueueTypeOK, JobStatus, Goto, Ends
<1>1. CASE Enqueue(j)
  BY <1>1 DEF Enqueue
<1>2. CASE Delivered(j)
  BY <1>2 DEF Delivered
<1>3. CASE GivenUp(j)
  BY <1>3 DEF GivenUp
<1>4. CASE Returned(j) \/ Raised(j) \/ TimedOut(j) \/ Stopped(j)
  BY <1>4 DEF Returned, Raised, TimedOut, Stopped
<1>5. QED
  BY <1>1, <1>2, <1>3, <1>4 DEF QueueAction

\* They leave every other job alone.
LEMMA QueueActionFrame ==
  ASSUME NEW J, NEW Steps, NEW j \in J, QueueTypeOK(J, Steps), QueueAction(j),
         NEW k \in J, k # j
  PROVE  job'[k] = job[k] /\ tries'[k] = tries[k] /\ at'[k] = at[k]
  BY DEF QueueTypeOK, QueueAction, Enqueue, Delivered, GivenUp, Returned, Raised,
         TimedOut, Stopped, Goto, Ends

\* The actions that only concern the job of plan h.
OnlyQueue(h) ==
    \/ Deliver(h) \/ TriesExhausted(h) \/ JobReturns(h) \/ JobRaises(h)
    \/ JobTimesOut(h) \/ WorkerCrashes(h)

\* What Next is made of, action by action.
LEMMA NextCases ==
  ASSUME [Next]_vars
  PROVE  \/ \E w \in Writer : WriterStep(w)
         \/ \E m \in Mover : MoverStep(m)
         \/ \E h \in Rows : HandlerStep(h) \/ HandlerRaises(h)
         \/ \E h \in Rows : OnlyQueue(h)
         \/ UNCHANGED vars
  BY DEF Next, QueueStep, Fault, OnlyQueue

\* The moves a user may ask for (plans.py, _ALLOWED_STATUS_MOVES).
LEMMA MoveTable ==
  /\ ALLOWED_STATUS_MOVES["draft"] = {"active", "archived"}
  /\ ALLOWED_STATUS_MOVES["active"] = {"archived"}
  /\ ALLOWED_STATUS_MOVES["archived"] = {}
  /\ ALLOWED_STATUS_MOVES["generating"] = {}
  /\ ALLOWED_STATUS_MOVES["failed"] = {}
  BY DEF ALLOWED_STATUS_MOVES, PlanStatus

\* A move that was allowed is from a proposed plan to one that still is.
LEMMA MoveFromProposed ==
  ASSUME NEW h \in Rows, NEW s, MayMove(h, s)
  PROVE  Proposed(h) /\ s \in {"active", "archived"}
  BY MoveTable DEF MayMove, PlanStatus, Proposed

\* Every job step is one of the queue's, and changes nothing else.
LEMMA OnlyQueueActs ==
  ASSUME NEW h \in Rows, OnlyQueue(h)
  PROVE  QueueAction(h) /\ UNCHANGED <<station, clients>>
  BY DEF OnlyQueue, QueueAction, Deliver, TriesExhausted, JobReturns, JobRaises,
         JobTimesOut, WorkerCrashes

\* What a job step does to the job it is about.
LEMMA OnlyQueueEffect ==
  ASSUME PlanInv, NEW h \in Rows, OnlyQueue(h)
  PROVE  \/ /\ job[h] = "queued" /\ job'[h] = "running"
            /\ tries'[h] = tries[h] + 1 /\ at'[h] = "load"
         \/ /\ job[h] = "queued" /\ job'[h] = "failed"
            /\ tries'[h] = tries[h] /\ at'[h] = at[h]
         \/ /\ job[h] = "running" /\ job'[h] \in {"done", "failed", "queued"}
            /\ job'[h] = "done" => at[h] = "return"
            /\ job'[h] = "queued" => "crash" \in Faults
            /\ tries'[h] = tries[h] /\ at'[h] = "idle"
  BY DEF PlanInv, TypeOK, HandlerFits, QueueTypeOK, OnlyQueue, Deliver, TriesExhausted,
         JobReturns, JobRaises, JobTimesOut, WorkerCrashes, Delivered, GivenUp, Returned,
         Raised, TimedOut, Stopped, Ends, Goto

\* And it leaves every other job alone.
LEMMA OnlyQueueFrame ==
  ASSUME PlanInv, NEW h \in Rows, OnlyQueue(h), NEW x \in Rows, x # h
  PROVE  job'[x] = job[x] /\ tries'[x] = tries[x] /\ at'[x] = at[x]
  BY OnlyQueueActs, QueueActionFrame DEF PlanInv, TypeOK

-----------------------------------------------------------------------------
\* The initial state satisfies the invariant.
LEMMA InitInv == Init => PlanInv
<1> SUFFICES ASSUME Init PROVE PlanInv
  OBVIOUS
<1> USE PlanConstants, QueueConstants DEF Init, QueueInit, WriterIdle, MoverIdle, NoTree
<1>1. TypeOK
  BY DEF TypeOK, Rows, PlanStatus, QueueTypeOK, JobStatus, Step, WriterState, MoverState
<1>2. VersionsAreTheChain /\ WritersFit /\ NothingBeforeAppend
  BY DEF VersionsAreTheChain, WritersFit, NothingBeforeAppend, Rows
<1>3. \A h \in Rows : HandlerFits(h) /\ FirstDelivery(h)
  BY DEF HandlerFits, FirstDelivery, Proposed
<1>4. \A m \in Mover : MoverFits(m)
  BY DEF MoverFits
<1>5. ProposedIsWhole /\ DoneIsOfOnePiece
  BY DEF ProposedIsWhole, DoneIsOfOnePiece, Proposed
<1>6. QED
  BY <1>1, <1>2, <1>3, <1>4, <1>5 DEF PlanInv

\* A request that takes a step stays a request.
LEMMA WriteType ==
  ASSUME TypeOK, NEW w \in Writer, NEW step \in {"idle", "insert", "plan", "enqueue"},
         NEW next \in 0..MaxRows, NEW row \in 0..MaxRows, Write(w, step, next, row)
  PROVE  writer' \in [Writer -> WriterState]
<1>1. [at |-> step, next |-> next, row |-> row] \in WriterState
  BY DEF WriterState
<1>2. QED
  BY <1>1 DEF TypeOK, Write

\* Every step keeps the types.
LEMMA TypesKept ==
  ASSUME PlanInv, [Next]_vars
  PROVE  TypeOK'
<1>1. TypeOK /\ WritersFit
  BY DEF PlanInv
<1> USE PlanConstants, QueueConstants, <1>1
<1>2. ASSUME NEW w \in Writer, WriterStep(w), ~GenerateEnqueued(w) PROVE TypeOK'
  <2>w. 0 \in 0..MaxRows /\ writer[w].next \in 0..MaxRows /\ writer[w].row \in 0..MaxRows
    BY DEF TypeOK, WriterState
  <2> USE <2>w, WriteType DEF TypeOK, QueueTypeOK, Rows, queue, station
  <2>1. CASE AppendReads(w)
    BY <2>1 DEF AppendReads
  <2>2. CASE AppendCommits(w)
    <3>1. rows + 1 \in 0..MaxRows /\ rows + 1 \in Rows
      BY <2>2 DEF AppendCommits
    <3>2. \/ Write(w, "idle", 0, 0)
          \/ Write(w, "plan", 0, rows + 1)
      BY <2>2 DEF AppendCommits
    <3>3. writer' \in [Writer -> WriterState]
      BY <3>1, <3>2
    <3>4. version' \in [Rows -> 0..MaxRows]
      BY <2>2, <3>1 DEF AppendCommits
    <3>5. QED
      BY <2>2, <3>1, <3>3, <3>4 DEF AppendCommits
  <2>3. CASE AppendCollides(w)
    BY <2>3 DEF AppendCollides
  <2>4. CASE PlanCreated(w)
    BY <2>4 DEF PlanCreated, PlanStatus
  <2>5. CASE WriterDies(w)
    BY <2>5 DEF WriterDies
  <2>6. QED
    BY <1>2, <2>1, <2>2, <2>3, <2>4, <2>5 DEF WriterStep
<1>3. ASSUME NEW w \in Writer, GenerateEnqueued(w) PROVE TypeOK'
  <2>1. writer[w].row \in Rows /\ QueueAction(writer[w].row)
    BY <1>3 DEF GenerateEnqueued, QueueAction, WritersFit, TypeOK, Rows
  <2>w. writer' \in [Writer -> WriterState]
    BY <1>3, WriteType DEF GenerateEnqueued
  <2>2. QueueTypeOK(Rows, Step)'
    BY <2>1, QueueActionTypeOK DEF TypeOK, Step
  <2>3. QED
    BY <1>3, <2>2, <2>w DEF GenerateEnqueued, TypeOK, station
<1>4. ASSUME NEW m \in Mover, MoverStep(m) PROVE TypeOK'
  <2> USE DEF TypeOK, QueueTypeOK, queue, station
  <2>1. CASE MoveChecked(m)
    <3>1. PICK h \in Rows, s \in {"active", "archived"} :
             mover' = [mover EXCEPT ![m] = [at |-> "write", plan |-> h, target |-> s]]
      BY <2>1 DEF MoveChecked
    <3>2. [at |-> "write", plan |-> h, target |-> s] \in MoverState
      BY DEF MoverState, Rows
    <3>3. mover' \in [Mover -> MoverState]
      BY <3>1, <3>2
    <3>4. QED
      BY <2>1, <3>3 DEF MoveChecked
  <2>2. CASE MoveWritten(m)
    <3>1. MoverIdle \in MoverState /\ mover[m].target \in PlanStatus
      BY DEF MoverState, MoverIdle, PlanStatus
    <3>2. mover' \in [Mover -> MoverState]
      BY <2>2, <3>1 DEF MoveWritten
    <3>3. plan' \in [Rows -> PlanStatus \cup {"absent"}]
      BY <2>2, <3>1 DEF MoveWritten
    <3>4. QED
      BY <2>2, <3>2, <3>3 DEF MoveWritten
  <2>3. QED
    BY <1>4, <2>1, <2>2 DEF MoverStep
<1>5. ASSUME NEW h \in Rows, HandlerStep(h) \/ HandlerRaises(h) PROVE TypeOK'
  <2> USE DEF TypeOK, QueueTypeOK, queue, station, clients, Goto, Then, Step
  <2>1. CASE Gather(h)
    BY <2>1 DEF Gather
  <2>2. CASE ReplaceTree(h)
    BY <2>2 DEF ReplaceTree
  <2>3. CASE StoreFields(h)
    BY <2>3 DEF StoreFields, PlanStatus
  <2>4. CASE Fail(h)
    BY <2>4 DEF Fail, PlanStatus
  <2>5. CASE HandlerRaises(h)
    BY <2>5 DEF HandlerRaises
  <2>6. QED
    BY <1>5, <2>1, <2>2, <2>3, <2>4, <2>5 DEF HandlerStep
<1>6. ASSUME NEW h \in Rows, OnlyQueue(h) PROVE TypeOK'
  <2>1. QueueTypeOK(Rows, Step)'
    BY <1>6, OnlyQueueActs, QueueActionTypeOK DEF TypeOK, Step
  <2>2. QED
    BY <1>6, <2>1, OnlyQueueActs DEF TypeOK, station, clients
<1>7. CASE UNCHANGED vars
  BY <1>7 DEF TypeOK, QueueTypeOK, vars, station, queue, clients
<1>8. QED
  BY <1>2, <1>3, <1>4, <1>5, <1>6, <1>7, NextCases

-----------------------------------------------------------------------------
\* Appends race, and the versions stay the chain 0, 1, 2...
LEMMA ChainKept ==
  ASSUME PlanInv, [Next]_vars
  PROVE  VersionsAreTheChain'
<1>1. TypeOK /\ VersionsAreTheChain /\ WritersFit
  BY DEF PlanInv
<1>2. CASE UNCHANGED <<rows, version>>
  BY <1>1, <1>2 DEF VersionsAreTheChain
<1>3. ASSUME NEW w \in Writer, AppendCommits(w) PROVE VersionsAreTheChain'
  <2>1. rows \in Nat /\ rows + 1 \in Rows
    BY <1>1, <1>3, PlanConstants DEF TypeOK, AppendCommits, Rows
  <2>2. writer[w].next \in 0..rows
    BY <1>1, <1>3 DEF AppendCommits, WritersFit, TypeOK, WriterState
  <2>3. writer[w].next = rows
    <3>1. SUFFICES ASSUME writer[w].next < rows PROVE FALSE
      BY <2>1, <2>2
    <3>2. writer[w].next + 1 \in 1..rows /\ version[writer[w].next + 1] = writer[w].next
      BY <1>1, <2>1, <2>2, <3>1 DEF VersionsAreTheChain
    <3>3. QED
      BY <1>3, <3>2 DEF AppendCommits, VersionTaken
  <2>4. QED
    BY <1>1, <1>3, <2>1, <2>3 DEF AppendCommits, VersionsAreTheChain, TypeOK
<1>4. \/ UNCHANGED <<rows, version>>
      \/ \E w \in Writer : AppendCommits(w)
  BY NextCases, OnlyQueueActs
     DEF WriterStep, AppendReads, AppendCollides, PlanCreated, GenerateEnqueued,
         WriterDies, MoverStep, MoveChecked, MoveWritten, HandlerStep, Gather,
         ReplaceTree, StoreFields, Fail, HandlerRaises, station, vars
<1>5. QED
  BY <1>2, <1>3, <1>4

\* The statuses a request can be overtaken by, and the rows of other requests.
LEMMA WritersKept ==
  ASSUME PlanInv, [Next]_vars
  PROVE  WritersFit'
<1>1. TypeOK /\ WritersFit /\ NothingBeforeAppend /\ rows \in Nat
  BY DEF PlanInv, TypeOK
<1> USE <1>1
<1>2. ASSUME NEW w \in Writer, WriterStep(w) PROVE WritersFit'
  <2> USE DEF TypeOK, WriterState, WritersFit, Write
  <2>1. CASE AppendReads(w)
    BY <2>1 DEF AppendReads, station, queue
  <2>2. CASE AppendCommits(w)
    <3>1. rows + 1 \in Rows /\ plan[rows + 1] = "absent" /\ job[rows + 1] = "none"
      BY <2>2, PlanConstants DEF AppendCommits, NothingBeforeAppend, Rows
    <3>2. CASE Write(w, "idle", 0, 0)
      BY <2>2, <3>2 DEF AppendCommits, queue
    <3>3. CASE Write(w, "plan", 0, rows + 1)
      BY <2>2, <3>1, <3>3 DEF AppendCommits, queue
    <3>4. QED
      BY <2>2, <3>2, <3>3 DEF AppendCommits
  <2>3. CASE AppendCollides(w)
    BY <2>3 DEF AppendCollides, station, queue
  <2>4. CASE PlanCreated(w)
    BY <2>4 DEF PlanCreated, queue, Rows
  <2>5. CASE GenerateEnqueued(w)
    BY <2>5 DEF GenerateEnqueued, Enqueue, station, QueueTypeOK
  <2>6. CASE WriterDies(w)
    BY <2>6 DEF WriterDies, station, queue
  <2>7. QED
    BY <1>2, <2>1, <2>2, <2>3, <2>4, <2>5, <2>6 DEF WriterStep
<1>3. ASSUME UNCHANGED <<rows, writer>>,
             \A h \in Rows : job[h] = "none" => job'[h] = "none" /\ plan'[h] = plan[h]
      PROVE  WritersFit'
  <2>1. \A w \in Writer : writer[w].at \in {"plan", "enqueue"} => writer[w].row \in Rows
    BY DEF TypeOK, WriterState, WritersFit, Rows
  <2>2. QED
    BY <1>3, <2>1 DEF WritersFit
<1>4. ASSUME NEW m \in Mover, MoverStep(m) PROVE WritersFit'
  <2>1. CASE MoveChecked(m)
    BY <1>3, <2>1 DEF MoveChecked, station, queue
  <2>2. CASE MoveWritten(m)
    <3>1. mover[m].plan \in Rows /\ baseline[mover[m].plan] # NoTree
      BY <2>2 DEF MoveWritten, PlanInv, MoverFits
    <3>2. job[mover[m].plan] # "none"
      BY <3>1 DEF PlanInv, HandlerFits, TypeOK, NothingBeforeAppend
    <3>3. QED
      BY <1>3, <2>2, <3>2 DEF MoveWritten, queue, TypeOK
  <2>3. QED
    BY <1>4, <2>1, <2>2 DEF MoverStep
<1>5. ASSUME NEW h \in Rows, HandlerStep(h) \/ HandlerRaises(h) PROVE WritersFit'
  <2>1. job[h] = "running"
    BY <1>5 DEF HandlerStep, Gather, ReplaceTree, StoreFields, Fail, HandlerRaises,
                PlanInv, HandlerFits
  <2>2. /\ UNCHANGED <<rows, writer, job>>
        /\ \A x \in Rows : x # h => plan'[x] = plan[x]
    BY <1>5 DEF HandlerStep, Gather, ReplaceTree, StoreFields, Fail, HandlerRaises,
                station, queue, clients, TypeOK
  <2>3. QED
    BY <1>3, <2>1, <2>2
<1>6. ASSUME NEW h \in Rows, OnlyQueue(h) PROVE WritersFit'
  BY <1>3, <1>6, OnlyQueueActs, OnlyQueueEffect, OnlyQueueFrame DEF station, clients
<1>7. CASE UNCHANGED vars
  BY <1>3, <1>7 DEF vars, station, queue, clients
<1>8. QED
  BY <1>2, <1>4, <1>5, <1>6, <1>7, NextCases

\* What a step of the API leaves of the Engine's rows, and the Engine of others'.
LEMMA WriterEffect ==
  ASSUME PlanInv, NEW w \in Writer, WriterStep(w)
  PROVE  /\ UNCHANGED <<tree, baseline, tries, at, mover>>
         /\ rows' \in {rows, rows + 1}
         /\ UNCHANGED <<plan, job>>
              \/ \E h \in 1..rows :
                    /\ job[h] = "none"
                    /\ \/ /\ PlanCreated(w)
                          /\ plan[h] = "absent"
                          /\ plan' = [plan EXCEPT ![h] = "generating"]
                          /\ UNCHANGED job
                       \/ /\ plan[h] = "generating"
                          /\ job' = [job EXCEPT ![h] = "queued"]
                          /\ UNCHANGED plan
  BY DEF PlanInv, WritersFit, WriterStep, AppendReads, AppendCommits, AppendCollides,
         PlanCreated, GenerateEnqueued, WriterDies, Enqueue, Write, station, queue

\* A status request holds a plan whose baseline was there when it looked.
LEMMA MoverEffect ==
  ASSUME PlanInv, NEW m \in Mover, MoverStep(m)
  PROVE  /\ UNCHANGED <<rows, version, tree, baseline, queue, at, writer>>
         /\ UNCHANGED plan
              \/ \E h \in Rows :
                    /\ tree[h] # NoTree /\ baseline[h] # NoTree
                    /\ mover[m].at = "write" /\ mover[m].plan = h
                    /\ plan' = [plan EXCEPT ![h] = mover[m].target]
<1>1. CASE MoveChecked(m)
  BY <1>1 DEF MoveChecked, station
<1>2. CASE MoveWritten(m)
  <2>1. mover[m].plan \in Rows /\ baseline[mover[m].plan] # NoTree
    BY <1>2 DEF MoveWritten, PlanInv, MoverFits
  <2>2. tree[mover[m].plan] # NoTree
    BY <2>1 DEF PlanInv, HandlerFits
  <2>3. QED
    BY <1>2, <2>1, <2>2 DEF MoveWritten
<1>3. QED
  BY <1>1, <1>2 DEF MoverStep

\* The handler works on one plan, and only while its job is running.
LEMMA HandlerEffect ==
  ASSUME PlanInv, NEW h \in Rows, HandlerStep(h) \/ HandlerRaises(h)
  PROVE  /\ UNCHANGED <<rows, version, queue, clients>>
         /\ job[h] = "running" /\ tries[h] # 0
         /\ \A x \in Rows \ {h} :
               /\ plan'[x] = plan[x] /\ tree'[x] = tree[x]
               /\ baseline'[x] = baseline[x] /\ at'[x] = at[x]
  BY DEF PlanInv, TypeOK, QueueTypeOK, HandlerFits, HandlerStep, Gather, ReplaceTree,
         StoreFields, Fail, HandlerRaises, Goto, station

\* Requests insert rows in order and give each its plan, and then its job.
LEMMA WriterKeepsNothing ==
  ASSUME PlanInv, NEW w \in Writer, WriterStep(w)
  PROVE  NothingBeforeAppend'
<1>1. TypeOK /\ NothingBeforeAppend /\ rows \in Nat
  BY DEF PlanInv, TypeOK
<1>2. UNCHANGED <<baseline, tries>> /\ rows' \in {rows, rows + 1}
  BY WriterEffect
<1>3. CASE UNCHANGED <<plan, job>>
  BY <1>1, <1>2, <1>3 DEF NothingBeforeAppend, Rows
<1>4. CASE \E h \in 1..rows :
             /\ job[h] = "none" /\ plan[h] = "absent"
             /\ plan' = [plan EXCEPT ![h] = "generating"] /\ UNCHANGED job
  BY <1>1, <1>2, <1>4 DEF NothingBeforeAppend, Rows, TypeOK
<1>5. CASE \E h \in 1..rows :
             /\ job[h] = "none" /\ plan[h] = "generating"
             /\ job' = [job EXCEPT ![h] = "queued"] /\ UNCHANGED plan
  BY <1>1, <1>2, <1>5 DEF NothingBeforeAppend, Rows, TypeOK, QueueTypeOK
<1>6. QED
  BY <1>3, <1>4, <1>5, WriterEffect

\* Rows nobody has inserted stay untouched, and only a job computes a baseline.
LEMMA NothingBeforeAppendKept ==
  ASSUME PlanInv, [Next]_vars
  PROVE  NothingBeforeAppend'
<1>1. TypeOK /\ NothingBeforeAppend /\ rows \in Nat
  BY DEF PlanInv, TypeOK
<1> USE <1>1 DEF NothingBeforeAppend
<1>2. ASSUME NEW w \in Writer, WriterStep(w) PROVE NothingBeforeAppend'
  BY <1>2, WriterKeepsNothing
<1>3. ASSUME NEW m \in Mover, MoverStep(m) PROVE NothingBeforeAppend'
  <2>1. \A h \in Rows : job[h] = "none" => plan'[h] = plan[h]
    BY <1>3, MoverEffect DEF TypeOK
  <2>2. \A h \in Rows : plan'[h] = "absent" => plan[h] = "absent"
    BY <1>3, MoverEffect DEF TypeOK, MoverState
  <2>3. QED
    BY <1>3, <2>1, <2>2, MoverEffect DEF queue
<1>4. ASSUME NEW h \in Rows, HandlerStep(h) \/ HandlerRaises(h) PROVE NothingBeforeAppend'
  <2>1. plan[h] # "absent"
    BY <1>4, HandlerEffect
  <2>2. plan'[h] # "absent"
    BY <1>4, <2>1 DEF HandlerStep, Gather, ReplaceTree, StoreFields, Fail,
                      HandlerRaises, station, TypeOK
  <2>3. QED
    BY <1>4, <2>2, HandlerEffect DEF queue
<1>5. ASSUME NEW h \in Rows, OnlyQueue(h) PROVE NothingBeforeAppend'
  <2>1. job[h] # "none" /\ job'[h] # "none"
    BY <1>5, OnlyQueueEffect
  <2>2. QED
    BY <1>5, <2>1, OnlyQueueActs, OnlyQueueFrame DEF station
<1>6. CASE UNCHANGED vars
  BY <1>6 DEF vars, station, queue
<1>7. QED
  BY <1>2, <1>3, <1>4, <1>5, <1>6, NextCases

\* The handler's position goes on saying what it has stored.
LEMMA HandlerKept ==
  ASSUME PlanInv, [Next]_vars, NEW x \in Rows
  PROVE  HandlerFits(x)'
<1>1. TypeOK /\ HandlerFits(x) /\ NothingBeforeAppend
  BY DEF PlanInv
<1> USE <1>1 DEF HandlerFits
<1>2. CASE UNCHANGED <<tree, baseline, tries>> /\ at'[x] = at[x]
             /\ \/ job'[x] = job[x]
                \/ job[x] = "none" /\ job'[x] = "queued"
  BY <1>2
<1>3. ASSUME NEW w \in Writer, WriterStep(w) PROVE HandlerFits(x)'
  BY <1>2, <1>3, WriterEffect DEF TypeOK, QueueTypeOK
<1>4. ASSUME NEW m \in Mover, MoverStep(m) PROVE HandlerFits(x)'
  BY <1>2, <1>4, MoverEffect DEF queue
<1>5. ASSUME NEW h \in Rows, HandlerStep(h) \/ HandlerRaises(h) PROVE HandlerFits(x)'
  <2>1. CASE x # h
    BY <1>5, <2>1, HandlerEffect DEF queue
  <2>2. CASE x = h
    <3> USE <2>2 DEF TypeOK, QueueTypeOK, Goto, Then, NoTree, queue, station, clients
    <3>1. CASE Gather(h)
      BY <3>1 DEF Gather
    <3>2. CASE ReplaceTree(h)
      BY <3>2, HandlerEffect DEF ReplaceTree
    <3>3. CASE StoreFields(h)
      BY <3>3, HandlerEffect DEF StoreFields
    <3>4. CASE Fail(h)
      BY <3>4 DEF Fail
    <3>5. CASE HandlerRaises(h)
      BY <3>5 DEF HandlerRaises
    <3>6. QED
      BY <1>5, <3>1, <3>2, <3>3, <3>4, <3>5 DEF HandlerStep
  <2>3. QED
    BY <2>1, <2>2
<1>6. ASSUME NEW h \in Rows, OnlyQueue(h) PROVE HandlerFits(x)'
  <2>1. CASE x # h
    BY <1>2, <1>6, <2>1, OnlyQueueActs, OnlyQueueFrame DEF station
  <2>2. CASE x = h
    <3>1. UNCHANGED <<tree, baseline>>
      BY <1>6, OnlyQueueActs DEF station
    <3>2. tries[x] \in Nat
      BY QueueConstants DEF TypeOK, QueueTypeOK
    <3>3. QED
      BY <1>6, <2>2, <3>1, <3>2, OnlyQueueEffect
  <2>3. QED
    BY <2>1, <2>2
<1>7. CASE UNCHANGED vars
  BY <1>2, <1>7 DEF vars, station, queue
<1>8. QED
  BY <1>3, <1>4, <1>5, <1>6, <1>7, NextCases

\* A tree and a baseline, once there, stay there: they are only replaced.
LEMMA StoredStays ==
  ASSUME PlanInv, [Next]_vars, NEW x \in Rows
  PROVE  /\ tree[x] # NoTree => tree'[x] # NoTree
         /\ baseline[x] # NoTree => baseline'[x] # NoTree
<1>1. TypeOK
  BY DEF PlanInv
<1>2. CASE UNCHANGED <<tree, baseline>>
  BY <1>2
<1>3. ASSUME NEW h \in Rows, HandlerStep(h) \/ HandlerRaises(h)
      PROVE  /\ tree[x] # NoTree => tree'[x] # NoTree
             /\ baseline[x] # NoTree => baseline'[x] # NoTree
  <2>1. tries[h] # NoTree
    BY <1>3, HandlerEffect DEF NoTree
  <2>2. QED
    BY <1>1, <1>3, <2>1 DEF TypeOK, HandlerStep, Gather, ReplaceTree, StoreFields,
                            Fail, HandlerRaises, station
<1>4. QED
  BY <1>2, <1>3, NextCases, WriterEffect, MoverEffect, OnlyQueueActs DEF station, vars

\* A status request only ever holds a plan with a baseline.
LEMMA MoverKept ==
  ASSUME PlanInv, [Next]_vars, NEW m \in Mover
  PROVE  MoverFits(m)'
<1>1. TypeOK /\ MoverFits(m) /\ ProposedIsWhole
  BY DEF PlanInv
<1>2. CASE mover'[m] = mover[m]
  BY <1>1, <1>2, StoredStays DEF MoverFits
<1>3. CASE MoveChecked(m)
  <2>1. PICK h \in Rows, s \in {"active", "archived"} :
           /\ MayMove(h, s)
           /\ mover' = [mover EXCEPT ![m] = [at |-> "write", plan |-> h, target |-> s]]
    BY <1>3 DEF MoveChecked
  <2>2. baseline[h] # NoTree
    BY <1>1, <2>1, MoveFromProposed DEF ProposedIsWhole
  <2>3. QED
    BY <1>1, <2>1, <2>2, StoredStays DEF MoverFits, TypeOK
<1>4. CASE MoveWritten(m)
  BY <1>1, <1>4 DEF MoveWritten, MoverFits, MoverIdle, TypeOK
<1>5. ASSUME NEW n \in Mover, n # m, MoverStep(n) PROVE mover'[m] = mover[m]
  BY <1>1, <1>5 DEF MoverStep, MoveChecked, MoveWritten, TypeOK
<1>6. QED
  BY <1>2, <1>3, <1>4, <1>5, NextCases, WriterEffect, HandlerEffect, OnlyQueueActs
     DEF MoverStep, clients, vars

\* A proposed plan is whole.
LEMMA WholeKept ==
  ASSUME PlanInv, [Next]_vars
  PROVE  ProposedIsWhole'
<1> SUFFICES ASSUME NEW x \in Rows, Proposed(x)'
             PROVE  tree'[x] # NoTree /\ baseline'[x] # NoTree
  BY DEF ProposedIsWhole
<1>1. TypeOK /\ ProposedIsWhole
  BY DEF PlanInv
<1>2. CASE Proposed(x)
  BY <1>1, <1>2, StoredStays DEF ProposedIsWhole
<1>3. CASE UNCHANGED plan
  BY <1>2, <1>3 DEF Proposed
<1>4. ASSUME NEW w \in Writer, WriterStep(w) PROVE Proposed(x)
  BY <1>1, <1>4, WriterEffect DEF Proposed, TypeOK
<1>5. ASSUME NEW m \in Mover, MoverStep(m)
      PROVE  tree'[x] # NoTree /\ baseline'[x] # NoTree
  <2>1. tree[x] # NoTree /\ baseline[x] # NoTree
    BY <1>1, <1>5, MoverEffect DEF Proposed, TypeOK, ProposedIsWhole
  <2>2. QED
    BY <2>1, StoredStays
<1>6. ASSUME NEW h \in Rows, HandlerStep(h) \/ HandlerRaises(h)
      PROVE  tree'[x] # NoTree /\ baseline'[x] # NoTree
  <2>1. CASE StoreFields(h) /\ x = h
    <3>1. tree[x] # NoTree
      BY <2>1, <1>6, HandlerEffect DEF StoreFields, PlanInv, HandlerFits, NoTree
    <3>2. QED
      BY <1>1, <1>6, <2>1, <3>1, HandlerEffect DEF StoreFields, TypeOK, NoTree
  <2>2. CASE ~(StoreFields(h) /\ x = h)
    <3>1. Proposed(x)
      BY <1>1, <1>6, <2>2 DEF Proposed, TypeOK, HandlerStep, Gather, ReplaceTree,
             StoreFields, Fail, HandlerRaises, station
    <3>2. QED
      BY <1>2, <3>1
  <2>3. QED
    BY <2>1, <2>2
<1>7. QED
  BY <1>2, <1>3, <1>4, <1>5, <1>6, NextCases, OnlyQueueActs DEF station, vars

\* A job that ended well left one computation.
LEMMA DoneKept ==
  ASSUME PlanInv, [Next]_vars
  PROVE  DoneIsOfOnePiece'
<1> SUFFICES ASSUME NEW x \in Rows, job'[x] = "done"
             PROVE  tree'[x] = baseline'[x]
  BY DEF DoneIsOfOnePiece
<1>1. TypeOK /\ DoneIsOfOnePiece
  BY DEF PlanInv
<1>2. CASE job[x] = "done" /\ tree'[x] = tree[x] /\ baseline'[x] = baseline[x]
  BY <1>1, <1>2 DEF DoneIsOfOnePiece
<1>3. ASSUME NEW w \in Writer, WriterStep(w) PROVE tree'[x] = baseline'[x]
  BY <1>1, <1>2, <1>3, WriterEffect DEF TypeOK, QueueTypeOK
<1>4. ASSUME NEW m \in Mover, MoverStep(m) PROVE tree'[x] = baseline'[x]
  BY <1>2, <1>4, MoverEffect DEF queue
<1>5. ASSUME NEW h \in Rows, HandlerStep(h) \/ HandlerRaises(h)
      PROVE  tree'[x] = baseline'[x]
  BY <1>2, <1>5, HandlerEffect DEF queue
<1>6. ASSUME NEW h \in Rows, OnlyQueue(h) PROVE tree'[x] = baseline'[x]
  <2>1. UNCHANGED <<tree, baseline>>
    BY <1>6, OnlyQueueActs DEF station
  <2>2. CASE x # h
    BY <1>2, <1>6, <2>1, <2>2, OnlyQueueFrame
  <2>3. CASE x = h
    BY <1>6, <2>1, <2>3, OnlyQueueEffect DEF PlanInv, HandlerFits
  <2>4. QED
    BY <2>2, <2>3
<1>7. CASE UNCHANGED vars
  BY <1>2, <1>7 DEF vars, station, queue
<1>8. QED
  BY <1>3, <1>4, <1>5, <1>6, <1>7, NextCases

-----------------------------------------------------------------------------
\* While a plan waits for its first delivery to store it, no request holds it.
LEMMA NobodyMovesIt ==
  ASSUME PlanInv, OneMover, NEW x \in Rows, tries[x] <= 1, ~Proposed(x)
  PROVE  \A m \in Mover : ~(mover[m].at = "write" /\ mover[m].plan = x)
  BY DEF PlanInv, FirstDelivery

\* Up to the end of its first delivery a plan is the Engine's alone.
LEMMA FirstDeliveryKept ==
  ASSUME PlanInv, OneMover, [Next]_vars, NEW x \in Rows
  PROVE  FirstDelivery(x)'
<1> SUFFICES ASSUME tries'[x] <= 1 PROVE FirstDelivery(x)'
  BY DEF FirstDelivery
<1>1. /\ TypeOK /\ HandlerFits(x) /\ NothingBeforeAppend /\ FirstDelivery(x)
      /\ tries[x] \in Nat
  BY QueueConstants DEF PlanInv, TypeOK, QueueTypeOK
<1>2. CASE /\ UNCHANGED <<tries, mover>> /\ tree'[x] = tree[x] /\ baseline'[x] = baseline[x]
             /\ at'[x] = at[x] /\ plan'[x] = plan[x]
  BY <1>1, <1>2 DEF FirstDelivery, Proposed
<1>3. ASSUME NEW w \in Writer, WriterStep(w) PROVE FirstDelivery(x)'
  <2>1. UNCHANGED <<tree, baseline, tries, at, mover>>
    BY <1>3, WriterEffect
  <2>2. CASE plan'[x] = plan[x]
    BY <1>2, <2>1, <2>2
  <2>3. CASE plan'[x] # plan[x]
    <3>1. plan[x] = "absent" /\ plan'[x] = "generating" /\ job[x] = "none"
      BY <1>1, <1>3, <2>3, WriterEffect DEF TypeOK
    <3>2. at[x] = "idle"
      BY <1>1, <3>1 DEF HandlerFits
    <3>3. \A m \in Mover : ~(mover[m].at = "write" /\ mover[m].plan = x)
      BY <2>1, <3>1, NobodyMovesIt DEF Proposed
    <3>4. QED
      BY <2>1, <3>1, <3>2, <3>3 DEF FirstDelivery, Proposed
  <2>4. QED
    BY <2>2, <2>3
<1>4. ASSUME NEW m \in Mover, MoveChecked(m) PROVE FirstDelivery(x)'
  <2>1. PICK h \in Rows, s \in {"active", "archived"} :
           /\ MayMove(h, s)
           /\ mover' = [mover EXCEPT ![m] = [at |-> "write", plan |-> h, target |-> s]]
    BY <1>4 DEF MoveChecked
  <2>2. UNCHANGED <<plan, tree, baseline, tries, at>>
    BY <1>4 DEF MoveChecked, station, queue
  <2>3. Proposed(h) /\ s \in ALLOWED_STATUS_MOVES[plan[h]]
    BY <2>1, MoveFromProposed DEF MayMove
  <2>4. QED
    BY <1>1, <2>1, <2>2, <2>3 DEF FirstDelivery, Proposed, TypeOK
<1>5. ASSUME NEW m \in Mover, MoveWritten(m) PROVE FirstDelivery(x)'
  <2>1. UNCHANGED <<tree, baseline, tries, at>>
    BY <1>5 DEF MoveWritten, queue
  <2>2. \A n \in Mover : mover'[n].at = "idle"
    BY <1>1, <1>5 DEF MoveWritten, OneMover, TypeOK, MoverIdle
  <2>3. CASE mover[m].plan # x
    <3>1. plan'[x] = plan[x]
      BY <1>1, <1>5, <2>3 DEF MoveWritten, TypeOK
    <3>2. QED
      BY <1>1, <2>1, <2>2, <3>1 DEF FirstDelivery, Proposed
  <2>4. CASE mover[m].plan = x
    <3>1. Proposed(x) /\ tries[x] <= 1
      BY <1>1, <1>5, <2>1, <2>4 DEF FirstDelivery, MoveWritten
    <3>2. plan'[x] \in {"active", "archived"}
      BY <1>1, <1>5, <2>4 DEF MoveWritten, TypeOK, MoverState
    <3>3. QED
      BY <1>1, <2>1, <2>2, <3>1, <3>2 DEF FirstDelivery, Proposed
  <2>5. QED
    BY <2>3, <2>4
<1>6. ASSUME NEW h \in Rows, HandlerStep(h) \/ HandlerRaises(h) PROVE FirstDelivery(x)'
  <2>1. CASE x # h
    BY <1>2, <1>6, <2>1, HandlerEffect DEF queue, clients
  <2>2. CASE x = h
    <3>1. UNCHANGED <<tries, mover>> /\ tries[x] = 1
      BY <1>1, <1>6, <2>2, HandlerEffect DEF queue, clients
    <3>2. CASE Gather(h) \/ HandlerRaises(h)
      BY <1>1, <2>2, <3>1, <3>2
         DEF Gather, HandlerRaises, FirstDelivery, Proposed, Goto, Then, TypeOK,
             QueueTypeOK, station
    <3>3. ASSUME at[x] \in {"tree", "fields", "fail"}
          PROVE  /\ plan[x] = "generating"
                 /\ \A m \in Mover : ~(mover[m].at = "write" /\ mover[m].plan = x)
      BY <1>1, <3>1, <3>3, NobodyMovesIt DEF FirstDelivery, Proposed
    <3>4. CASE ReplaceTree(h)
      BY <1>1, <2>2, <3>1, <3>3, <3>4
         DEF ReplaceTree, FirstDelivery, Proposed, Goto, Then, TypeOK, QueueTypeOK
    <3>5. CASE StoreFields(h)
      <4>1. tree'[x] = 1 /\ baseline'[x] = 1 /\ at'[x] = "return" /\ plan'[x] = "draft"
        BY <1>1, <2>2, <3>1, <3>5
           DEF StoreFields, HandlerFits, Goto, Then, TypeOK, QueueTypeOK
      <4>2. at[x] = "fields"
        BY <2>2, <3>5 DEF StoreFields
      <4>3. QED
        BY <3>1, <3>3, <4>1, <4>2 DEF FirstDelivery
    <3>6. CASE Fail(h)
      BY <1>1, <2>2, <3>1, <3>3, <3>6
         DEF Fail, FirstDelivery, Proposed, Goto, TypeOK, QueueTypeOK
    <3>7. QED
      BY <1>6, <3>2, <3>4, <3>5, <3>6 DEF HandlerStep
  <2>3. QED
    BY <2>1, <2>2
<1>7. ASSUME NEW h \in Rows, OnlyQueue(h) PROVE FirstDelivery(x)'
  <2>1. UNCHANGED <<plan, tree, baseline, mover>>
    BY <1>7, OnlyQueueActs DEF station, clients
  <2>2. CASE x # h
    BY <1>1, <1>7, <2>1, <2>2, OnlyQueueFrame DEF FirstDelivery, Proposed
  <2>3. CASE x = h
    <3>1. CASE tries'[x] = tries[x] + 1 /\ at'[x] = "load" /\ job[x] = "queued"
      <4>1. tries[x] = 0 /\ plan[x] = "generating"
        BY <1>1, <3>1 DEF FirstDelivery, NothingBeforeAppend
      <4>2. QED
        BY <1>1, <2>1, <3>1, <4>1 DEF FirstDelivery, Proposed
    <3>2. CASE tries'[x] = tries[x] /\ at'[x] \in {at[x], "idle"}
      BY <1>1, <2>1, <3>2 DEF FirstDelivery, Proposed
    <3>3. QED
      BY <1>7, <2>3, <3>1, <3>2, OnlyQueueEffect
  <2>4. QED
    BY <2>2, <2>3
<1>8. CASE UNCHANGED vars
  BY <1>2, <1>8 DEF vars, station, queue, clients
<1>9. QED
  BY <1>3, <1>4, <1>5, <1>6, <1>7, <1>8, NextCases DEF MoverStep

-----------------------------------------------------------------------------
\* The invariant holds in every state the station can reach: in particular the
\* versions are a chain, a proposed plan is whole, and a finished job is of one
\* computation, for any number of concurrent requests, deliveries and faults.
THEOREM PlanInvariant == Spec => []PlanInv
<1>1. PlanInv /\ [Next]_vars => PlanInv'
  <2> SUFFICES ASSUME PlanInv, [Next]_vars PROVE PlanInv'
    OBVIOUS
  <2>1. TypeOK' /\ VersionsAreTheChain' /\ WritersFit' /\ NothingBeforeAppend'
    BY TypesKept, ChainKept, WritersKept, NothingBeforeAppendKept
  <2>2. (\A h \in Rows : HandlerFits(h))'
    BY HandlerKept DEF Rows
  <2>3. (\A m \in Mover : MoverFits(m))'
    BY MoverKept
  <2>4. ProposedIsWhole' /\ DoneIsOfOnePiece'
    BY WholeKept, DoneKept
  <2>5. (OneMover => \A h \in Rows : FirstDelivery(h))'
    BY FirstDeliveryKept DEF OneMover, Rows
  <2>6. QED
    BY <2>1, <2>2, <2>3, <2>4, <2>5 DEF PlanInv
<1>2. QED
  BY <1>1, InitInv, PTL DEF Spec

\* Appends that race never give two hypotheses one version, nor skip one
\* (repo/pg/direction.py, append).
THEOREM VersionsChain == Spec => []VersionsAreTheChain
<1>1. PlanInv => VersionsAreTheChain
  BY DEF PlanInv
<1>2. QED
  BY <1>1, PlanInvariant, PTL

\* A plan the user is shown is whole, wherever deliveries stopped
\* (generate_plan.py, _store).
THEOREM ProposedWhole == Spec => []ProposedIsWhole
<1>1. PlanInv => ProposedIsWhole
  BY DEF PlanInv
<1>2. QED
  BY <1>1, PlanInvariant, PTL

\* A job that ended well left the tree and baseline of one computation.
THEOREM DoneOfOnePiece == Spec => []DoneIsOfOnePiece
<1>1. PlanInv => DoneIsOfOnePiece
  BY DEF PlanInv
<1>2. QED
  BY <1>1, PlanInvariant, PTL

-----------------------------------------------------------------------------
\* What a handler step makes of the plan of a first delivery.
LEMMA FirstDeliveryEffect ==
  ASSUME PlanInv, OneMover, NEW h \in Rows, HandlerStep(h) \/ HandlerRaises(h),
         tries[h] <= 1
  PROVE  \/ UNCHANGED <<plan, tree, baseline>>
         \/ ReplaceTree(h) /\ plan[h] = "generating"
         \/ StoreFields(h) /\ plan[h] = "generating" /\ tree[h] = 1 /\ tries[h] = 1
         \/ Fail(h) /\ plan[h] = "generating"
<1>1. FirstDelivery(h) /\ HandlerFits(h) /\ tries[h] = 1
  BY HandlerEffect, QueueConstants DEF PlanInv, TypeOK, QueueTypeOK
<1>2. QED
  BY <1>1 DEF HandlerStep, Gather, ReplaceTree, StoreFields, Fail, HandlerRaises, station,
              FirstDelivery, HandlerFits

\* What a status request makes of a plan that was delivered once at most.
LEMMA FirstMoveEffect ==
  ASSUME PlanInv, OneMover, NEW m \in Mover, MoveWritten(m)
  PROVE  \E h \in Rows :
            /\ plan' = [plan EXCEPT ![h] = mover[m].target]
            /\ tries[h] <= 1 => /\ Proposed(h)
                                /\ mover[m].target \in ALLOWED_STATUS_MOVES[plan[h]]
<1>1. mover[m].plan \in Rows /\ mover[m].at = "write"
  BY DEF PlanInv, MoverFits, MoveWritten
<1>2. FirstDelivery(mover[m].plan)
  BY <1>1 DEF PlanInv
<1>3. QED
  BY <1>1, <1>2 DEF MoveWritten, FirstDelivery

\* With one status request at a time, a plan that was delivered once at most
\* moves as SetPlanStatus allows, or from generating to the Engine's answer.
THEOREM MovesAllowed == ASSUME OneMover PROVE Spec => MovesAsAllowed
<1> DEFINE Allowed ==
      \A h \in Rows : plan'[h] # plan[h] /\ plan[h] # "absent" /\ tries[h] <= 1 =>
          \/ plan[h] = "generating" /\ plan'[h] \in {"draft", "failed"}
          \/ plan'[h] \in ALLOWED_STATUS_MOVES[plan[h]]
<1>1. PlanInv /\ [Next]_vars => Allowed
  <2> SUFFICES ASSUME PlanInv, [Next]_vars, NEW x \in Rows,
                      plan'[x] # plan[x], plan[x] # "absent", tries[x] <= 1
               PROVE  \/ plan[x] = "generating" /\ plan'[x] \in {"draft", "failed"}
                      \/ plan'[x] \in ALLOWED_STATUS_MOVES[plan[x]]
    OBVIOUS
  <2>1. TypeOK
    BY DEF PlanInv
  <2>2. ASSUME NEW w \in Writer, WriterStep(w) PROVE FALSE
    BY <2>1, <2>2, WriterEffect DEF TypeOK
  <2>3. ASSUME NEW m \in Mover, MoverStep(m)
        PROVE  plan'[x] \in ALLOWED_STATUS_MOVES[plan[x]]
    <3>1. MoveWritten(m)
      BY <2>3 DEF MoverStep, MoveChecked, station
    <3>2. QED
      BY <2>1, <3>1, FirstMoveEffect DEF TypeOK
  <2>4. ASSUME NEW h \in Rows, HandlerStep(h) \/ HandlerRaises(h)
        PROVE  plan[x] = "generating" /\ plan'[x] \in {"draft", "failed"}
    <3>1. x = h
      BY <2>4, HandlerEffect
    <3>2. QED
      BY <2>1, <2>4, <3>1, FirstDeliveryEffect DEF ReplaceTree, StoreFields, Fail, TypeOK
  <2>5. QED
    BY <2>2, <2>3, <2>4, NextCases, OnlyQueueActs DEF station, vars
<1>2. QED
  <2>1. Spec => [][Allowed]_vars
    BY <1>1, PlanInvariant, PTL DEF Spec
  <2>2. QED
    BY <2>1 DEF MovesAsAllowed

-----------------------------------------------------------------------------
(***************************************************************************)
(* Without a crash no delivery is repeated, and Station 2 implements the   *)
(* promise of PlanPromise.                                                 *)
(***************************************************************************)
NoRepeat == \A h \in Rows : tries[h] <= 1 /\ (job[h] = "queued" => tries[h] = 0)

\* Only a worker that stopped makes ARQ deliver a job again.
LEMMA NeverRepeated == ASSUME "crash" \notin Faults PROVE Spec => []NoRepeat
<1>1. Init => NoRepeat
  BY DEF Init, QueueInit, NoRepeat
<1>2. PlanInv /\ NoRepeat /\ [Next]_vars => NoRepeat'
  <2> SUFFICES ASSUME PlanInv, NoRepeat, [Next]_vars, NEW x \in Rows
               PROVE  tries'[x] <= 1 /\ (job'[x] = "queued" => tries'[x] = 0)
    BY DEF NoRepeat, Rows
  <2>1. CASE tries'[x] = tries[x] /\ job'[x] = job[x]
    BY <2>1 DEF NoRepeat
  <2>2. ASSUME NEW w \in Writer, WriterStep(w)
        PROVE  tries'[x] <= 1 /\ (job'[x] = "queued" => tries'[x] = 0)
    <3>1. tries'[x] = tries[x] /\ (job'[x] = job[x] \/ job[x] = "none")
      BY <2>2, WriterEffect DEF PlanInv, TypeOK, QueueTypeOK
    <3>2. job[x] = "none" => tries[x] = 0
      BY DEF PlanInv, NothingBeforeAppend
    <3>3. QED
      BY <3>1, <3>2 DEF NoRepeat
  <2>3. ASSUME NEW h \in Rows, OnlyQueue(h)
        PROVE  tries'[x] <= 1 /\ (job'[x] = "queued" => tries'[x] = 0)
    <3>1. CASE x # h
      BY <2>1, <2>3, <3>1, OnlyQueueFrame
    <3>2. CASE x = h
      BY <2>3, <3>2, OnlyQueueEffect DEF NoRepeat
    <3>3. QED
      BY <3>1, <3>2
  <2>4. QED
    BY <2>1, <2>2, <2>3, NextCases, MoverEffect, HandlerEffect DEF queue, vars
<1>3. QED
  BY <1>1, <1>2, PlanInvariant, PTL DEF Spec

\* The promise sees nothing of a step that only prepares a proposal.
LEMMA PromiseStutters ==
  ASSUME UNCHANGED <<rows, version, plan>>,
         \A h \in Rows : Proposed(h) => tree'[h] = tree[h] /\ baseline'[h] = baseline[h]
  PROVE  UNCHANGED Promise!vars
  BY DEF Promise!vars, Shown, Proposed, Rows

\* An append, and the creation of a plan, are steps of the promise.
LEMMA PromiseOfWriter ==
  ASSUME PlanInv, PlanInv', NEW w \in Writer, WriterStep(w)
  PROVE  [Promise!Next]_(Promise!vars)
<1>1. TypeOK /\ TypeOK' /\ VersionsAreTheChain' /\ WritersFit
  BY DEF PlanInv
<1>2. CASE AppendCommits(w)
  <2>1. rows \in Nat /\ rows + 1 \in Rows /\ rows' = rows + 1
    BY <1>1, <1>2, PlanConstants DEF TypeOK, AppendCommits, Rows
  <2>2. version'[rows + 1] = rows
    BY <1>1, <2>1 DEF VersionsAreTheChain
  <2>3. version' = [version EXCEPT ![rows + 1] = rows]
    BY <1>1, <1>2, <2>1, <2>2 DEF AppendCommits, TypeOK
  <2>4. Promise!Append
    BY <1>2, <2>3 DEF AppendCommits, Promise!Append, Promise!Rows, Shown, Proposed, Rows
  <2>5. QED
    BY <2>4 DEF Promise!Next
<1>3. CASE PlanCreated(w)
  <2> DEFINE r == writer[w].row
  <2>1. r \in Rows /\ r <= rows /\ plan[r] = "absent"
    BY <1>1, <1>3, PlanConstants DEF PlanCreated, WritersFit, TypeOK, Rows
  <2>2. \A h \in Rows : Shown(h)' = Shown(h)
    BY <1>1, <1>3, <2>1 DEF PlanCreated, Shown, Proposed, TypeOK
  <2>3. Promise!Open(r)
    BY <1>3, <2>1, <2>2 DEF PlanCreated, Promise!Open
  <2>4. QED
    BY <2>1, <2>3 DEF Promise!Next, Promise!Rows, Rows
<1>4. CASE ~AppendCommits(w) /\ ~PlanCreated(w)
  BY <1>4, PromiseStutters
     DEF WriterStep, AppendReads, AppendCollides, GenerateEnqueued, WriterDies, station
<1>5. QED
  BY <1>2, <1>3, <1>4

\* A status request starts a draft or puts a plan away.
LEMMA PromiseOfMover ==
  ASSUME PlanInv, NoRepeat, OneMover, NEW m \in Mover, MoverStep(m)
  PROVE  [Promise!Next]_(Promise!vars)
<1>1. TypeOK
  BY DEF PlanInv
<1>2. CASE MoveChecked(m)
  BY <1>2, PromiseStutters DEF MoveChecked, station
<1>3. CASE MoveWritten(m)
  <2>1. PICK h \in Rows :
           /\ plan' = [plan EXCEPT ![h] = mover[m].target]
           /\ Proposed(h) /\ mover[m].target \in ALLOWED_STATUS_MOVES[plan[h]]
    BY <1>3, FirstMoveEffect DEF NoRepeat
  <2>2. \/ plan[h] = "draft" /\ plan' = [plan EXCEPT ![h] = "active"]
        \/ plan[h] \in {"draft", "active"} /\ plan' = [plan EXCEPT ![h] = "archived"]
    BY <2>1, MoveTable DEF Proposed
  <2>3. UNCHANGED <<rows, version, tree, baseline>>
    BY <1>3 DEF MoveWritten
  <2>4. \A x \in Rows : Shown(x)' = Shown(x)
    BY <1>1, <2>1, <2>2, <2>3 DEF Shown, Proposed, TypeOK
  <2>5. Promise!Activate(h) \/ Promise!Archive(h)
    BY <2>2, <2>3, <2>4 DEF Promise!Activate, Promise!Archive
  <2>6. QED
    BY <2>5 DEF Promise!Next, Promise!Rows, Rows
<1>4. QED
  BY <1>2, <1>3 DEF MoverStep

\* The Engine proposes a plan whole, or fails it, and nothing in between shows.
LEMMA PromiseOfHandler ==
  ASSUME PlanInv, NoRepeat, OneMover, NEW h \in Rows, HandlerStep(h) \/ HandlerRaises(h)
  PROVE  [Promise!Next]_(Promise!vars)
<1>1. TypeOK /\ tries[h] <= 1
  BY DEF PlanInv, NoRepeat
<1>2. UNCHANGED <<rows, version>>
  BY HandlerEffect
<1>3. CASE UNCHANGED <<plan, tree, baseline>>
  BY <1>2, <1>3, PromiseStutters
<1>4. CASE ReplaceTree(h) /\ plan[h] = "generating"
  BY <1>1, <1>4, PromiseStutters DEF ReplaceTree, Proposed, TypeOK
<1>5. CASE StoreFields(h) /\ plan[h] = "generating" /\ tree[h] = 1 /\ tries[h] = 1
  <2>1. plan' = [plan EXCEPT ![h] = "draft"] /\ baseline' = [baseline EXCEPT ![h] = 1]
        /\ UNCHANGED tree
    BY <1>5 DEF StoreFields
  <2>2. \A x \in Rows \ {h} : Shown(x)' = Shown(x)
    BY <1>1, <2>1 DEF Shown, Proposed, TypeOK
  <2>3. Shown(h)' = <<1, 1>>
    BY <1>1, <1>5, <2>1 DEF Shown, Proposed, TypeOK
  <2>4. [x \in Rows |-> Shown(x)]' = [[x \in Rows |-> Shown(x)] EXCEPT ![h] = <<1, 1>>]
    BY <2>2, <2>3 DEF Rows
  <2>5. 1 \in 1..MaxTries
    BY <1>1, <1>5, QueueConstants DEF TypeOK, QueueTypeOK
  <2>6. Promise!Propose(h)
    BY <1>2, <1>5, <2>1, <2>4, <2>5 DEF Promise!Propose
  <2>7. QED
    BY <2>6 DEF Promise!Next, Promise!Rows, Rows
<1>6. CASE Fail(h) /\ plan[h] = "generating"
  <2>1. \A x \in Rows : Shown(x)' = Shown(x)
    BY <1>1, <1>6 DEF Fail, Shown, Proposed, TypeOK
  <2>2. Promise!Fail(h)
    BY <1>6, <2>1 DEF Fail, Promise!Fail
  <2>3. QED
    BY <2>2 DEF Promise!Next, Promise!Rows, Rows
<1>7. QED
  BY <1>1, <1>3, <1>4, <1>5, <1>6, FirstDeliveryEffect

\* Station 2 keeps its promise as long as no worker stops with a job in its
\* hands and the user moves plans one request at a time.
THEOREM PromiseKept ==
  ASSUME OneMover, "crash" \notin Faults
  PROVE  Spec => KeepsPromise
<1>1. Init => Promise!Init
  BY DEF Init, Promise!Init, Promise!Rows, Shown, Proposed, Rows, NoTree
<1>2. PlanInv /\ PlanInv' /\ NoRepeat /\ [Next]_vars => [Promise!Next]_(Promise!vars)
  <2> SUFFICES ASSUME PlanInv, PlanInv', NoRepeat, [Next]_vars
               PROVE  [Promise!Next]_(Promise!vars)
    OBVIOUS
  <2>1. ASSUME NEW h \in Rows, OnlyQueue(h) PROVE [Promise!Next]_(Promise!vars)
    BY <2>1, OnlyQueueActs, PromiseStutters DEF station
  <2>2. CASE UNCHANGED vars
    BY <2>2, PromiseStutters DEF vars, station
  <2>3. QED
    BY <2>1, <2>2, NextCases, PromiseOfWriter, PromiseOfMover, PromiseOfHandler
<1>3. QED
  BY <1>1, <1>2, PlanInvariant, NeverRepeated, PTL DEF Spec, KeepsPromise, Promise!Spec
=============================================================================
