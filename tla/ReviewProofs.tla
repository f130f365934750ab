---------------------------- MODULE ReviewProofs ----------------------------
(***************************************************************************)
(* Theorems about Review, for every number of reviews, hypotheses,         *)
(* deliveries and requests, and every set of faults.                       *)
(***************************************************************************)
EXTENDS Review, TLAPS

\* The queue's steps keep its types (packages/queue).
LEMMA QueueActionTypeOK ==
  ASSUME NEW J, NEW Steps, {"idle", "load"} \subseteq Steps,
         NEW j \in J, QueueTypeOK(J, Steps), QueueAction(j)
  PROVE  QueueTypeOK(J, Steps)'
<1> USE QueueConstants DEF QueueTypeOK, JobStatus, Goto, Ends
<1>1. CASE Enqueue(j)
  BY <1>1 DEF Enqueue
<1>2. CASE Delivered(j)
  BY <1>2 DEF Delivered
<1>3. CASE GivenUp(j)
  BY <1>3 DEF GivenUp
<1>4. CASE Returned(j) \/ Raised(j) \/ TimedOut(j) \/ Stopped(j)
  BY <1>4 DEF Returned, Raised, TimedOut, Stopped
<1>5. QED
  BY <1>1, <1>2, <1>3, <1>4 DEF QueueAction

\* They leave every other job alone.
LEMMA QueueActionFrame ==
  ASSUME NEW J, NEW Steps, NEW j \in J, QueueTypeOK(J, Steps), QueueAction(j),
         NEW k \in J, k # j
  PROVE  job'[k] = job[k] /\ tries'[k] = tries[k] /\ at'[k] = at[k]
  BY DEF QueueTypeOK, QueueAction, Enqueue, Delivered, GivenUp, Returned, Raised,
         TimedOut, Stopped, Goto, Ends

\* The actions of an opening request, of an answering one, of a handler, and those
\* that only concern a job.
Opens(o) == OpenChecks(o) \/ OpenCreates(o) \/ OpenEnqueues(o) \/ OpenLoses(o)
Answers(d) ==
    \/ DecideReads(d) \/ DecideWrites(d) \/ DeciderDies(d)
    \/ AppendNumbers(d) \/ AppendInserts(d) \/ AppendCollides(d)
Handles(r) == LoadReview(r) \/ Compares(r) \/ Complete(r) \/ Fail(r) \/ Breaks(r)
OnlyQueue(r) ==
    \/ Deliver(r) \/ TriesExhausted(r) \/ JobReturns(r) \/ JobRaises(r)
    \/ JobTimesOut(r) \/ WorkerCrashes(r)
Elsewhere == HypothesisCreated \/ RunStarted \/ ReportsStored

\* What Next is made of, actor by actor.
LEMMA NextCases ==
  ASSUME [Next]_vars
  PROVE  \/ \E o \in Opener : Opens(o)
         \/ \E d \in Decider : Answers(d)
         \/ \E r \in Reviews : Handles(r)
         \/ \E r \in Reviews : OnlyQueue(r)
         \/ Elsewhere
         \/ UNCHANGED vars
  BY DEF Next, OpenStep, AppendStep, JobStep, Opens, Answers, Handles, OnlyQueue, Elsewhere

\* Every job step is one of the queue's, and changes no row.
LEMMA OnlyQueueActs ==
  ASSUME NEW r \in Reviews, OnlyQueue(r)
  PROVE  /\ QueueAction(r)
         /\ UNCHANGED <<station, measured, clients>>
         /\ holds' = holds \/ holds' = [holds EXCEPT ![r] = NoComparison]
  BY DEF OnlyQueue, QueueAction, Deliver, TriesExhausted, JobReturns, JobRaises,
         JobTimesOut, WorkerCrashes, Outside, Dropped

\* What a job step does to the job it is about, and to the others.
LEMMA OnlyQueueEffect ==
  ASSUME TypeOK, NEW h \in Reviews, HandlerFits(h), NEW r \in Reviews, OnlyQueue(r)
  PROVE  \/ job'[h] = job[h] /\ tries'[h] = tries[h] /\ at'[h] = at[h]
         \/ /\ job[h] = "queued" /\ job'[h] = "running"
            /\ tries'[h] = tries[h] + 1 /\ at'[h] = "load" /\ at[h] = "idle"
         \/ /\ job[h] = "queued" /\ job'[h] = "failed"
            /\ tries'[h] = tries[h] /\ at'[h] = at[h] /\ at[h] = "idle"
         \/ /\ job[h] = "running" /\ job'[h] \in {"done", "failed", "queued"}
            /\ tries'[h] = tries[h] /\ at'[h] = "idle"
<1>1. CASE h # r
  BY <1>1, OnlyQueueActs, QueueActionFrame DEF TypeOK
<1>2. CASE h = r
  BY <1>2 DEF TypeOK, HandlerFits, QueueTypeOK, OnlyQueue, Deliver, TriesExhausted,
         JobReturns, JobRaises, JobTimesOut, WorkerCrashes, Delivered, GivenUp, Returned,
         Raised, TimedOut, Stopped, Ends, Goto
<1>3. QED
  BY <1>1, <1>2

\* What a handler does to a row: nothing, or its two ends, and never to the answer.
LEMMA HandlerEffect ==
  ASSUME TypeOK, NEW r \in Reviews, Handles(r)
  PROVE  /\ UNCHANGED <<reviews, versions, from, measured, queue, clients>>
         /\ \A h \in Reviews :
               /\ review'[h].of = review[h].of /\ review'[h].outcome = review[h].outcome
               /\ h # r => review'[h] = review[h] /\ at'[h] = at[h]
         /\ \/ /\ review'[r] = review[r]
               /\ at[r] \in {"load", "compare", "complete", "fail"}
               /\ at[r] = "load" => at'[r] \in {"compare", "raise"}
               /\ at[r] = "fail" => at'[r] = "raise"
               /\ at'[r] \in {"compare", "complete", "fail", "raise"}
            \/ /\ at[r] = "complete" /\ at'[r] = "return" /\ review'[r].status = "done"
            \/ /\ at[r] = "fail" /\ at'[r] = "raise" /\ review'[r].status = "failed"
  BY DEF TypeOK, QueueTypeOK, Handles, LoadReview, Compares, Complete, Fail, Breaks, Computes,
         Stores, Completed, Failed, Goto, station, queue, clients

\* The columns of the rows and the fields of the requests.
LEMMA Fields ==
  ASSUME TypeOK
  PROVE  /\ \A r \in Reviews :
               /\ review[r].of \in 0..MaxVersions /\ review[r].found \in Comparison
               /\ review[r].status \in {"absent", "pending", "done", "failed"}
               /\ review[r].outcome \in Answer
         /\ \A o \in Opener :
               opener[o].of \in 0..MaxVersions /\ opener[o].row \in 0..MaxReviews
         /\ \A d \in Decider :
               /\ decider[d].at \in {"idle", "decide", "number", "insert"}
               /\ decider[d].row \in 0..MaxReviews /\ decider[d].found \in Comparison
               /\ decider[d].outcome \in Answer /\ decider[d].next \in 0..MaxVersions
<1>1. \A r \in Reviews : review[r] \in ReviewRow
  BY DEF TypeOK
<1>2. \A o \in Opener : opener[o] \in OpenerState
  BY DEF TypeOK
<1>3. \A d \in Decider : decider[d] \in DeciderState
  BY DEF TypeOK
<1>4. QED
  BY <1>1, <1>2, <1>3 DEF ReviewRow, OpenerState, DeciderState

\* A record of the right parts is a row, or the state of a request.
LEMMA Shapes ==
  /\ \A of \in 0..MaxVersions, status \in {"absent", "pending", "done", "failed"},
        found \in Comparison, outcome \in Answer :
        [of |-> of, status |-> status, found |-> found, outcome |-> outcome] \in ReviewRow
  /\ \A review_ \in 0..MaxReviews, found \in Comparison :
        [review |-> review_, found |-> found] \in Quoted
  /\ \A at_ \in {"idle", "create", "enqueue"}, of \in 0..MaxVersions, row \in 0..MaxReviews :
        [at |-> at_, of |-> of, row |-> row] \in OpenerState
  /\ \A at_ \in {"idle", "decide", "number", "insert"}, row \in 0..MaxReviews,
        found \in Comparison, outcome \in Answer, next \in 0..MaxVersions :
        [at |-> at_, row |-> row, found |-> found, outcome |-> outcome, next |-> next]
            \in DeciderState
  BY DEF ReviewRow, Quoted, OpenerState, DeciderState

-----------------------------------------------------------------------------
\* The initial state satisfies the invariant.
LEMMA InitInv == Init => ReviewInv
<1> SUFFICES ASSUME Init PROVE ReviewInv
  OBVIOUS
<1> USE ReviewConstants, QueueConstants
    DEF Init, QueueInit, OpenerIdle, DeciderIdle, ByHand, NoComparison, Reviews, Versions
<1>1. TypeOK
  BY DEF TypeOK, QueueTypeOK, JobStatus, ReviewSteps, Comparison, Outcomes, Answer, ReviewRow,
         Quoted, OpenerState, DeciderState
<1>2. RowsFit /\ OpenersFit /\ DecidersFit
  BY DEF RowsFit, OpenersFit, DecidersFit
<1>3. \A r \in Reviews : HandlerFits(r)
  BY DEF HandlerFits
<1>4. OneOpenReview /\ OpenerIsAlone
  BY DEF OneOpenReview, OpenerIsAlone
<1>5. \A r \in Reviews : AppendedBy(r) = {}
  BY DEF AppendedBy
<1>6. DeciderIsAlone
  BY <1>5 DEF DeciderIsAlone, NextVersionQuotesItsReview
<1>7. QED
  BY <1>1, <1>2, <1>3, <1>4, <1>6 DEF ReviewInv

\* Every step keeps the types.
LEMMA TypesKept ==
  ASSUME ReviewInv, [Next]_vars
  PROVE  TypeOK'
<1>1. TypeOK /\ OpenersFit /\ DecidersFit
  BY DEF ReviewInv
<1>2. MaxReviews \in Nat /\ MaxVersions \in Nat \ {0} /\ Reviewable \subseteq 1..MaxVersions
  BY ReviewConstants DEF Versions
<1>w. reviews \in 0..MaxReviews /\ versions \in 1..MaxVersions
  BY <1>1 DEF TypeOK, Versions
<1>c. {"none", "measured", "empty"} = Comparison /\ {"holds", "revise", "replace", "none"} = Answer
  BY DEF Comparison, Answer, Outcomes
<1> USE <1>1, <1>2
<1>3. ASSUME NEW o \in Opener, Opens(o), ~OpenEnqueues(o) PROVE TypeOK'
  <2>i. OpenerIdle \in OpenerState
    BY Shapes DEF OpenerIdle
  <2> USE DEF TypeOK, QueueTypeOK, Reviews, Versions, queue, station
  <2>1. CASE OpenChecks(o)
    <3>1. PICK h \in Reviewable \cap 1..versions :
             opener' = [opener EXCEPT ![o] = [at |-> "create", of |-> h, row |-> 0]]
      BY <2>1 DEF OpenChecks
    <3>2. [at |-> "create", of |-> h, row |-> 0] \in OpenerState
      BY Shapes, <1>w
    <3>3. QED
      BY <2>1, <3>1, <3>2 DEF OpenChecks
  <2>2. CASE OpenCreates(o)
    <3>1. reviews + 1 \in 0..MaxReviews /\ reviews + 1 \in Reviews
      BY <2>2, <1>w DEF OpenCreates
    <3>2. /\ [of |-> opener[o].of, status |-> "pending", found |-> NoComparison,
              outcome |-> "none"] \in ReviewRow
          /\ [at |-> "enqueue", of |-> opener[o].of, row |-> reviews + 1] \in OpenerState
      BY Shapes, Fields, <1>c, <3>1 DEF NoComparison
    <3>3. QED
      BY <2>2, <3>1, <3>2 DEF OpenCreates
  <2>3. CASE OpenLoses(o)
    BY <2>3, <2>i DEF OpenLoses
  <2>4. QED
    BY <1>3, <2>1, <2>2, <2>3 DEF Opens
<1>4. ASSUME NEW o \in Opener, OpenEnqueues(o) PROVE TypeOK'
  <2>1. opener[o].row \in Reviews /\ QueueAction(opener[o].row)
    BY <1>4, <1>w DEF OpenEnqueues, QueueAction, OpenersFit, Reviews
  <2>2. QueueTypeOK(Reviews, ReviewSteps)'
    BY <2>1, QueueActionTypeOK DEF TypeOK, ReviewSteps
  <2>3. OpenerIdle \in OpenerState
    BY Shapes DEF OpenerIdle
  <2>4. QED
    BY <1>4, <2>2, <2>3 DEF OpenEnqueues, TypeOK, station
<1>5. ASSUME NEW d \in Decider, Answers(d) PROVE TypeOK'
  <2>i. DeciderIdle \in DeciderState
    BY Shapes, <1>c DEF DeciderIdle, NoComparison
  <2>d. \A step \in {"number", "insert"}, next \in 0..MaxVersions :
           Decides(d, step, next) => decider' \in [Decider -> DeciderState]
    <3>1. \A step \in {"number", "insert"}, next \in 0..MaxVersions :
             [at |-> step, row |-> decider[d].row, found |-> decider[d].found,
              outcome |-> decider[d].outcome, next |-> next] \in DeciderState
      BY Shapes, Fields
    <3>2. QED
      BY <3>1 DEF TypeOK, Decides
  <2>r. Released(d) => decider' \in [Decider -> DeciderState]
    BY <2>i DEF TypeOK, Released
  <2> USE DEF TypeOK, QueueTypeOK, Reviews, Versions, queue, station
  <2>1. CASE DecideReads(d)
    <3>1. PICK r \in 1..reviews, answer \in Outcomes :
             decider' = [decider EXCEPT ![d] =
                [at |-> "decide", row |-> r, found |-> review[r].found,
                 outcome |-> answer, next |-> 0]]
      BY <2>1 DEF DecideReads
    <3>2. [at |-> "decide", row |-> r, found |-> review[r].found,
           outcome |-> answer, next |-> 0] \in DeciderState
      BY Shapes, Fields, <1>w DEF Answer
    <3>3. QED
      BY <2>1, <3>1, <3>2 DEF DecideReads
  <2>2. CASE DecideWrites(d)
    <3> DEFINE r == decider[d].row
    <3>1. r \in Reviews
      BY <2>2, <1>w DEF DecideWrites, DecidersFit
    <3>2. [of |-> review[r].of, status |-> review[r].status, found |-> review[r].found,
           outcome |-> decider[d].outcome] \in ReviewRow
      BY Shapes, Fields, <3>1
    <3>3. decider' \in [Decider -> DeciderState]
      BY <2>2, <2>d, <2>r DEF DecideWrites
    <3>4. QED
      BY <2>2, <3>2, <3>3 DEF DecideWrites
  <2>3. CASE DeciderDies(d) \/ AppendCollides(d)
    BY <2>3, <2>r DEF DeciderDies, AppendCollides
  <2>4. CASE AppendNumbers(d)
    <3>1. versions + 1 \in 0..MaxVersions
      BY <2>4, <1>w DEF AppendNumbers
    <3>2. QED
      BY <2>4, <2>d, <3>1 DEF AppendNumbers
  <2>5. CASE AppendInserts(d)
    <3>1. decider[d].next \in Versions
      BY <2>5, <1>w, Fields DEF AppendInserts
    <3>2. [review |-> decider[d].row, found |-> decider[d].found] \in Quoted
      BY Shapes, Fields
    <3>3. QED
      BY <2>5, <2>r, <3>1, <3>2 DEF AppendInserts
  <2>6. QED
    BY <1>5, <2>1, <2>2, <2>3, <2>4, <2>5 DEF Answers
<1>6. ASSUME NEW r \in Reviews, Handles(r) PROVE TypeOK'
  <2>1. UNCHANGED <<reviews, versions, from, measured, queue, clients>>
    BY <1>6, HandlerEffect
  <2>2. at' \in [Reviews -> ReviewSteps]
    BY <1>6 DEF Handles, LoadReview, Compares, Complete, Fail, Breaks, Computes, Stores, Goto,
           TypeOK, QueueTypeOK, ReviewSteps
  <2>3. holds' \in [Reviews -> Comparison]
    BY <1>6 DEF Handles, LoadReview, Compares, Complete, Fail, Breaks, Computes, Stores,
           TypeOK, NoComparison, Comparison
  <2>4. Completed(r) \in ReviewRow /\ Failed(r) \in ReviewRow
    BY Shapes, Fields DEF Completed, Failed, TypeOK
  <2>5. review' \in [Reviews -> ReviewRow]
    BY <1>6, <2>4 DEF Handles, LoadReview, Compares, Complete, Fail, Breaks, Computes, Stores,
           TypeOK, station
  <2>6. QED
    BY <2>1, <2>2, <2>3, <2>5 DEF TypeOK, QueueTypeOK, queue, clients
<1>7. ASSUME NEW r \in Reviews, OnlyQueue(r) PROVE TypeOK'
  <2>1. QueueTypeOK(Reviews, ReviewSteps)'
    BY <1>7, OnlyQueueActs, QueueActionTypeOK DEF TypeOK, ReviewSteps
  <2>2. holds' \in [Reviews -> Comparison]
    BY <1>7, OnlyQueueActs DEF TypeOK, Comparison, NoComparison
  <2>3. QED
    BY <1>7, <2>1, <2>2, OnlyQueueActs DEF TypeOK, station, clients
<1>8. CASE Elsewhere
  <2>1. versions < MaxVersions => versions + 1 \in Versions
    BY <1>w DEF Versions
  <2>2. QED
    BY <1>8, <2>1 DEF Elsewhere, HypothesisCreated, RunStarted, ReportsStored, TypeOK,
           QueueTypeOK, station, queue, clients
<1>9. CASE UNCHANGED vars
  BY <1>9 DEF TypeOK, QueueTypeOK, vars, station, queue, clients
<1>10. QED
  BY <1>3, <1>4, <1>5, <1>6, <1>7, <1>8, <1>9, NextCases

\* Rows appear one at a time and empty, and only a finished row is answered.
LEMMA RowsKept ==
  ASSUME ReviewInv, [Next]_vars
  PROVE  RowsFit'
<1>1. /\ TypeOK /\ RowsFit /\ OpenersFit /\ DecidersFit
      /\ \A r \in Reviews : HandlerFits(r)
  BY DEF ReviewInv
<1>2. MaxReviews \in Nat /\ MaxVersions \in Nat \ {0}
  BY ReviewConstants
<1> USE <1>1, <1>2 DEF RowsFit
<1>3. ASSUME NEW o \in Opener, Opens(o) PROVE RowsFit'
  <2> USE DEF TypeOK, Reviews, queue, station
  <2>1. CASE OpenChecks(o) \/ OpenLoses(o)
    BY <2>1 DEF OpenChecks, OpenLoses
  <2>2. CASE OpenCreates(o)
    BY <2>2 DEF OpenCreates
  <2>3. CASE OpenEnqueues(o)
    BY <2>3 DEF OpenEnqueues, Enqueue, OpenersFit, QueueTypeOK
  <2>4. QED
    BY <1>3, <2>1, <2>2, <2>3 DEF Opens
<1>4. ASSUME NEW d \in Decider, Answers(d) PROVE RowsFit'
  <2> USE DEF TypeOK, Reviews, Versions, queue, station, Released, Decides
  <2>1. CASE DecideReads(d) \/ DeciderDies(d) \/ AppendCollides(d) \/ AppendNumbers(d)
    BY <2>1 DEF DecideReads, DeciderDies, AppendCollides, AppendNumbers
  <2>2. CASE DecideWrites(d)
    BY <2>2 DEF DecideWrites, DecidersFit
  <2>3. CASE AppendInserts(d)
    BY <2>3 DEF AppendInserts, DecidersFit
  <2>4. QED
    BY <1>4, <2>1, <2>2, <2>3 DEF Answers
<1>5. ASSUME NEW r \in Reviews, Handles(r) PROVE RowsFit'
  BY <1>5, HandlerEffect DEF HandlerFits, queue, TypeOK
<1>6. ASSUME NEW r \in Reviews, OnlyQueue(r) PROVE RowsFit'
  BY <1>6, OnlyQueueActs, OnlyQueueEffect DEF station
<1>7. CASE Elsewhere
  BY <1>7 DEF Elsewhere, HypothesisCreated, RunStarted, ReportsStored, station, queue, TypeOK,
         Versions
<1>8. CASE UNCHANGED vars
  BY <1>8 DEF vars, station, queue
<1>9. QED
  BY <1>3, <1>4, <1>5, <1>6, <1>7, <1>8, NextCases

\* An opener's row is its own.
LEMMA OpenersKept ==
  ASSUME ReviewInv, [Next]_vars
  PROVE  OpenersFit'
<1>1. /\ TypeOK /\ RowsFit /\ OpenersFit /\ DecidersFit
      /\ \A r \in Reviews : HandlerFits(r)
  BY DEF ReviewInv
<1>2. MaxReviews \in Nat /\ MaxVersions \in Nat \ {0}
  BY ReviewConstants
<1> USE <1>1, <1>2 DEF OpenersFit
<1>3. ASSUME NEW o \in Opener, Opens(o) PROVE OpenersFit'
  <2> USE DEF TypeOK, QueueTypeOK, Reviews, Versions, queue, station, OpenerIdle
  <2>1. CASE OpenChecks(o)
    BY <2>1 DEF OpenChecks
  <2>2. CASE OpenCreates(o)
    BY <2>2 DEF OpenCreates, RowsFit
  <2>3. CASE OpenEnqueues(o)
    BY <2>3 DEF OpenEnqueues, Enqueue
  <2>4. CASE OpenLoses(o)
    BY <2>4 DEF OpenLoses
  <2>5. QED
    BY <1>3, <2>1, <2>2, <2>3, <2>4 DEF Opens
<1>4. ASSUME NEW d \in Decider, Answers(d) PROVE OpenersFit'
  <2>1. UNCHANGED <<reviews, job, opener>>
    BY <1>4 DEF Answers, DecideReads, DecideWrites, DeciderDies, AppendNumbers, AppendInserts,
           AppendCollides, queue, station
  <2>2. versions' = versions \/ AppendInserts(d)
    BY <1>4 DEF Answers, DecideReads, DecideWrites, DeciderDies, AppendNumbers,
           AppendCollides, station
  <2>3. versions \in Nat /\ versions' \in Nat /\ versions <= versions'
    BY <2>2, Fields DEF AppendInserts, TypeOK, Versions
  <2>4. QED
    BY <2>1, <2>3
<1>5. ASSUME NEW r \in Reviews, Handles(r) PROVE OpenersFit'
  BY <1>5, HandlerEffect DEF queue, clients
<1>6. ASSUME NEW r \in Reviews, OnlyQueue(r) PROVE OpenersFit'
  <2>1. UNCHANGED <<reviews, versions, opener>>
    BY <1>6, OnlyQueueActs DEF station, clients
  <2>2. \A h \in Reviews : job[h] = "none" => job'[h] = "none"
    BY <1>6, OnlyQueueEffect
  <2>3. 1..reviews \subseteq Reviews
    BY DEF TypeOK, Reviews
  <2>4. QED
    BY <2>1, <2>2, <2>3
<1>7. CASE Elsewhere
  BY <1>7 DEF Elsewhere, HypothesisCreated, RunStarted, ReportsStored, station, queue, clients,
         TypeOK, Versions
<1>8. CASE UNCHANGED vars
  BY <1>8 DEF vars, station, queue, clients
<1>9. QED
  BY <1>3, <1>4, <1>5, <1>6, <1>7, <1>8, NextCases

\* An answering request holds a review that was finished when it read it, and that
\* stays so.
LEMMA DecidersKept ==
  ASSUME ReviewInv, [Next]_vars
  PROVE  DecidersFit'
<1>1. /\ TypeOK /\ RowsFit /\ DecidersFit
      /\ \A r \in Reviews : HandlerFits(r)
  BY DEF ReviewInv
<1>2. reviews \in Nat /\ versions \in Nat /\ 1..reviews \subseteq Reviews
  BY <1>1, ReviewConstants DEF TypeOK, Versions, Reviews
<1> USE <1>1, <1>2 DEF DecidersFit
<1>3. ASSUME NEW o \in Opener, Opens(o) PROVE DecidersFit'
  <2>1. CASE OpenCreates(o)
    BY <2>1 DEF OpenCreates, TypeOK
  <2>2. CASE ~OpenCreates(o)
    BY <1>3, <2>2 DEF Opens, OpenChecks, OpenEnqueues, OpenLoses, station
  <2>3. QED
    BY <2>1, <2>2
<1>4. ASSUME NEW d \in Decider, Answers(d) PROVE DecidersFit'
  <2> USE DEF TypeOK, station, Released, Decides, DeciderIdle
  <2>1. CASE DecideReads(d)
    BY <2>1 DEF DecideReads, MayAnswer
  <2>2. CASE DecideWrites(d)
    BY <2>2 DEF DecideWrites
  <2>3. CASE DeciderDies(d) \/ AppendCollides(d)
    BY <2>3 DEF DeciderDies, AppendCollides
  <2>4. CASE AppendNumbers(d)
    BY <2>4 DEF AppendNumbers, Versions
  <2>5. CASE AppendInserts(d)
    BY <2>5 DEF AppendInserts
  <2>6. QED
    BY <1>4, <2>1, <2>2, <2>3, <2>4, <2>5 DEF Answers
<1>5. ASSUME NEW r \in Reviews, Handles(r) PROVE DecidersFit'
  <2>1. UNCHANGED <<reviews, versions, decider>>
    BY <1>5, HandlerEffect DEF clients
  <2>2. \A h \in Reviews : review'[h].status \in {review[h].status, "done", "failed"}
    BY <1>5, HandlerEffect
  <2>3. QED
    BY <2>1, <2>2
<1>6. ASSUME NEW r \in Reviews, OnlyQueue(r) PROVE DecidersFit'
  BY <1>6, OnlyQueueActs DEF station, clients
<1>7. CASE Elsewhere
  BY <1>7 DEF Elsewhere, HypothesisCreated, RunStarted, ReportsStored, station, clients
<1>8. CASE UNCHANGED vars
  BY <1>8 DEF vars, station, clients
<1>9. QED
  BY <1>3, <1>4, <1>5, <1>6, <1>7, <1>8, NextCases

\* A handler stands where its row says, and stores nothing before its end.
LEMMA HandlersKept ==
  ASSUME ReviewInv, [Next]_vars, NEW x \in Reviews
  PROVE  HandlerFits(x)'
<1>1. /\ TypeOK /\ RowsFit /\ OpenersFit /\ DecidersFit
      /\ HandlerFits(x)
  BY DEF ReviewInv
<1>2. reviews \in Nat /\ 1..reviews \subseteq Reviews /\ tries[x] \in Nat
  BY <1>1, ReviewConstants, QueueConstants DEF TypeOK, Reviews, QueueTypeOK
<1> USE <1>1, <1>2 DEF HandlerFits
<1>3. ASSUME NEW o \in Opener, Opens(o) PROVE HandlerFits(x)'
  <2>1. CASE OpenChecks(o) \/ OpenLoses(o)
    BY <2>1 DEF OpenChecks, OpenLoses, station, queue
  <2>2. CASE OpenCreates(o)
    BY <2>2 DEF OpenCreates, TypeOK, queue, RowsFit, Reviews
  <2>3. CASE OpenEnqueues(o)
    BY <2>3 DEF OpenEnqueues, Enqueue, OpenersFit, RowsFit, TypeOK, QueueTypeOK, station
  <2>4. QED
    BY <1>3, <2>1, <2>2, <2>3 DEF Opens
<1>4. ASSUME NEW d \in Decider, Answers(d) PROVE HandlerFits(x)'
  <2>1. UNCHANGED <<job, tries, at>>
    BY <1>4 DEF Answers, DecideReads, DecideWrites, DeciderDies, AppendNumbers, AppendInserts,
           AppendCollides, queue
  <2>2. review'[x].status = review[x].status
    BY <1>4 DEF Answers, DecideReads, DecideWrites, DeciderDies, AppendNumbers, AppendInserts,
           AppendCollides, station, TypeOK
  <2>3. QED
    BY <2>1, <2>2
<1>5. ASSUME NEW r \in Reviews, Handles(r) PROVE HandlerFits(x)'
  <2>1. CASE x = r
    BY <1>5, <2>1, HandlerEffect DEF queue
  <2>2. CASE x # r
    BY <1>5, <2>2, HandlerEffect DEF queue
  <2>3. QED
    BY <2>1, <2>2
<1>6. ASSUME NEW r \in Reviews, OnlyQueue(r) PROVE HandlerFits(x)'
  <2>1. review' = review
    BY <1>6, OnlyQueueActs DEF station
  <2>2. QED
    BY <1>6, <2>1, Fields, OnlyQueueEffect DEF RowsFit
<1>7. CASE Elsewhere
  BY <1>7 DEF Elsewhere, HypothesisCreated, RunStarted, ReportsStored, station, queue
<1>8. CASE UNCHANGED vars
  BY <1>8 DEF vars, station, queue
<1>9. QED
  BY <1>3, <1>4, <1>5, <1>6, <1>7, <1>8, NextCases

\* A step that opens no review and checks for none leaves at most one open.
LEMMA NothingOpened ==
  ASSUME ReviewInv, OneOpener, reviews' = reviews,
         \A r \in Reviews :
            /\ review'[r].of = review[r].of
            /\ review'[r].status \in _OPEN =>
                  review[r].status \in _OPEN /\ review'[r] = review[r],
         \A o \in Opener : opener'[o].at = "create" => opener'[o] = opener[o]
  PROVE  OpenerIsAlone'
<1>1. OpenerIsAlone /\ TypeOK
  BY DEF ReviewInv
<1>2. 1..reviews \subseteq Reviews
  BY <1>1, ReviewConstants DEF TypeOK, Reviews
<1>3. OneOpenReview'
  BY <1>1, <1>2 DEF OneOpenReview, OpenerIsAlone
<1>4. \A o \in Opener : opener'[o].at = "create" => NoneOpen(opener[o].of)'
  BY <1>1, <1>2 DEF NoneOpen, OpenerIsAlone
<1>5. QED
  BY <1>3, <1>4 DEF OpenerIsAlone, NoneOpen

\* While one request opens reviews, no hypothesis has two of them open.
LEMMA OpenerKept ==
  ASSUME ReviewInv, OneOpener, [Next]_vars
  PROVE  OpenerIsAlone'
<1>1. TypeOK /\ RowsFit /\ OpenersFit /\ DecidersFit /\ OpenerIsAlone
  BY DEF ReviewInv
<1>2. /\ MaxReviews \in Nat /\ reviews \in Nat /\ reviews <= MaxReviews
      /\ 1..reviews \subseteq Reviews
  BY <1>1, ReviewConstants DEF TypeOK, Reviews
<1> USE <1>1, <1>2
<1>3. ASSUME NEW o \in Opener, Opens(o) PROVE OpenerIsAlone'
  <2>1. CASE OpenChecks(o)
    <3>1. PICK h \in Reviewable \cap 1..versions :
             /\ NoneOpen(h)
             /\ opener' = [opener EXCEPT ![o] = [at |-> "create", of |-> h, row |-> 0]]
      BY <2>1 DEF OpenChecks
    <3>2. UNCHANGED <<reviews, review>>
      BY <2>1 DEF OpenChecks, station
    <3>3. \A p \in Opener : opener'[p].of = h
      BY <3>1 DEF TypeOK, OneOpener
    <3>4. \A p \in Opener : NoneOpen(opener[p].of)'
      BY <3>1, <3>2, <3>3 DEF NoneOpen
    <3>5. QED
      BY <3>2, <3>4 DEF OpenerIsAlone, OneOpenReview
  <2>2. CASE OpenCreates(o)
    <3> DEFINE new == reviews + 1
    <3>n. reviews' = new /\ new \in Reviews /\ \A r \in 1..reviews : r \in Reviews /\ r # new
      BY <2>2 DEF OpenCreates, Reviews
    <3>1. /\ reviews' = new /\ \A r \in 1..reviews : review'[r] = review[r]
          /\ review'[new].of = opener[o].of /\ review'[new].outcome = "none"
      BY <2>2, <3>n DEF OpenCreates, TypeOK
    <3>2. \A r \in 1..reviews : review[r].of = opener[o].of => review[r].status \notin _OPEN
      BY <2>2 DEF OpenCreates, OpenerIsAlone, NoneOpen
    <3>3. OneOpenReview'
      BY <3>1, <3>2 DEF OneOpenReview, OpenerIsAlone
    <3>4. \A p \in Opener : opener'[p].at # "create"
      BY <2>2 DEF OpenCreates, TypeOK, OneOpener
    <3>5. QED
      BY <3>3, <3>4 DEF OpenerIsAlone
  <2>3. CASE OpenEnqueues(o) \/ OpenLoses(o)
    <3>1. UNCHANGED <<reviews, review>> /\ \A p \in Opener : opener'[p].at # "create"
      BY <2>3 DEF OpenEnqueues, OpenLoses, OpenerIdle, station, TypeOK, OneOpener
    <3>2. QED
      BY <3>1, NothingOpened
  <2>4. QED
    BY <1>3, <2>1, <2>2, <2>3 DEF Opens
<1>4. ASSUME NEW d \in Decider, Answers(d) PROVE OpenerIsAlone'
  <2>1. UNCHANGED <<reviews, opener>>
    BY <1>4 DEF Answers, DecideReads, DecideWrites, DeciderDies, AppendNumbers, AppendInserts,
           AppendCollides, station
  <2>2. CASE DecideWrites(d)
    <3>1. review[decider[d].row].status \notin _OPEN
      BY <2>2 DEF DecideWrites, DecidersFit, _OPEN
    <3>2. QED
      BY <2>1, <2>2, <3>1, NothingOpened DEF DecideWrites, TypeOK
  <2>3. CASE ~DecideWrites(d)
    <3>1. review' = review
      BY <1>4, <2>3 DEF Answers, DecideReads, DeciderDies, AppendNumbers, AppendInserts,
             AppendCollides, station
    <3>2. QED
      BY <2>1, <3>1, NothingOpened
  <2>4. QED
    BY <2>2, <2>3
<1>5. ASSUME NEW r \in Reviews, Handles(r) PROVE OpenerIsAlone'
  <2>1. UNCHANGED <<reviews, opener>>
    BY <1>5, HandlerEffect DEF clients
  <2>2. \A h \in Reviews : review'[h].of = review[h].of
                        /\ (review'[h].status \in _OPEN => review'[h] = review[h])
    BY <1>5, HandlerEffect DEF _OPEN
  <2>3. QED
    BY <2>1, <2>2, NothingOpened
<1>6. CASE (\E r \in Reviews : OnlyQueue(r)) \/ Elsewhere \/ UNCHANGED vars
  <2>1. UNCHANGED <<reviews, review, opener>>
    BY <1>6, OnlyQueueActs DEF Elsewhere, HypothesisCreated, RunStarted, ReportsStored, vars,
           station, clients
  <2>2. QED
    BY <2>1, NothingOpened
<1>7. QED
  BY <1>3, <1>4, <1>5, <1>6, NextCases

-----------------------------------------------------------------------------
\* A step that changes no answer, appends nothing, and touches of the reviews only
\* the ones nobody has looked at or that are delivered again.
LEMMA NothingAnswered ==
  ASSUME ReviewInv, OneDecider, UNCHANGED decider,
         \A h \in 1..versions : from'[h] = from[h],
         \A r \in Reviews : AppendedBy(r)' = AppendedBy(r),
         \A r \in Reviews :
            /\ review'[r].outcome = review[r].outcome
            /\ tries'[r] <= 1 /\ review[r].status \in {"done", "failed"} =>
                  tries[r] <= 1 /\ review'[r] = review[r]
  PROVE  DeciderIsAlone'
<1>1. TypeOK /\ RowsFit /\ DecidersFit /\ DeciderIsAlone
  BY DEF ReviewInv
<1>2. reviews \in Nat /\ 1..reviews \subseteq Reviews
  BY <1>1, ReviewConstants DEF TypeOK, Reviews
<1>4. \A r \in Reviews : review[r].outcome # "none" => review[r].status \in {"done", "failed"}
  BY <1>1, Fields DEF RowsFit
<1>5. NextVersionQuotesItsReview'
  <2> SUFFICES ASSUME NEW r \in Reviews, NEW h \in AppendedBy(r)
               PROVE  /\ review'[r].outcome = "revise" /\ AppendedBy(r) = {h}
                      /\ tries'[r] <= 1 =>
                            review'[r].status = "done" /\ from'[h].found = review'[r].found
    BY DEF NextVersionQuotesItsReview
  <2>1. h \in 1..versions /\ review[r].outcome = "revise" /\ AppendedBy(r) = {h}
    BY <1>1 DEF DeciderIsAlone, NextVersionQuotesItsReview, AppendedBy
  <2>2. QED
    BY <1>1, <1>4, <2>1 DEF DeciderIsAlone, NextVersionQuotesItsReview
<1>6. QED
  <2> SUFFICES ASSUME NEW d \in Decider, decider[d].at # "idle", NEW r, r = decider[d].row
               PROVE  /\ decider[d].at = "decide" => review'[r].outcome = "none"
                      /\ decider[d].at \in {"number", "insert"} =>
                            review'[r].outcome = "revise" /\ AppendedBy(r)' = {}
                      /\ tries'[r] <= 1 =>
                            review'[r].status = "done" /\ decider[d].found = review'[r].found
    BY <1>5 DEF DeciderIsAlone
  <2>1. r \in Reviews /\ review[r].status \in {"done", "failed"}
    BY <1>1, <1>2 DEF DecidersFit
  <2>2. QED
    BY <1>1, <2>1 DEF DeciderIsAlone

\* While one request answers reviews, an answer is given once and `revise` appends
\* once what it had read.
LEMMA DeciderKept ==
  ASSUME ReviewInv, OneDecider, [Next]_vars
  PROVE  DeciderIsAlone'
<1>1. /\ TypeOK /\ RowsFit /\ DecidersFit /\ DeciderIsAlone
      /\ \A r \in Reviews : HandlerFits(r)
  BY DEF ReviewInv
<1>2. /\ MaxReviews \in Nat /\ reviews \in Nat /\ 1..reviews \subseteq Reviews
      /\ versions \in Nat /\ 0 \notin Reviews /\ \A r \in Reviews : tries[r] \in Nat
  BY <1>1, ReviewConstants, QueueConstants DEF TypeOK, QueueTypeOK, Reviews, Versions
<1> USE <1>1, <1>2
<1>3. ASSUME NEW o \in Opener, Opens(o) PROVE DeciderIsAlone'
  <2>1. UNCHANGED <<versions, from, tries, decider>>
    BY <1>3 DEF Opens, OpenChecks, OpenCreates, OpenEnqueues, OpenLoses, Enqueue, station, queue
  <2>2. CASE OpenCreates(o)
    <3>1. /\ reviews + 1 \in Reviews /\ review[reviews + 1].status = "absent"
          /\ review[reviews + 1].outcome = "none"
      BY <2>2 DEF OpenCreates, RowsFit, Reviews
    <3>2. /\ review'[reviews + 1].outcome = "none"
          /\ \A r \in Reviews : r # reviews + 1 => review'[r] = review[r]
      BY <2>2, <3>1 DEF OpenCreates, TypeOK
    <3>3. QED
      BY <2>1, <3>1, <3>2, NothingAnswered DEF AppendedBy
  <2>3. CASE ~OpenCreates(o)
    <3>1. review' = review
      BY <1>3, <2>3 DEF Opens, OpenChecks, OpenEnqueues, OpenLoses, station
    <3>2. QED
      BY <2>1, <3>1, NothingAnswered DEF AppendedBy
  <2>4. QED
    BY <2>2, <2>3
<1>4. ASSUME NEW d \in Decider, Answers(d) PROVE DeciderIsAlone'
  <2>t. tries' = tries
    BY <1>4 DEF Answers, DecideReads, DecideWrites, DeciderDies, AppendNumbers, AppendInserts,
           AppendCollides, queue
  <2>o. \A e \in Decider : e = d
    BY DEF OneDecider
  <2>1. CASE DecideReads(d)
    <3>1. PICK r \in 1..reviews, answer \in Outcomes :
             /\ MayAnswer(r)
             /\ decider' = [decider EXCEPT ![d] =
                   [at |-> "decide", row |-> r, found |-> review[r].found,
                    outcome |-> answer, next |-> 0]]
      BY <2>1 DEF DecideReads
    <3>2. decider'[d] = [at |-> "decide", row |-> r, found |-> review[r].found,
                         outcome |-> answer, next |-> 0]
      BY <3>1 DEF TypeOK
    <3>3. UNCHANGED <<review, versions, from>>
      BY <2>1 DEF DecideReads, station
    <3>4. QED
      BY <2>t, <2>o, <3>1, <3>2, <3>3
         DEF DeciderIsAlone, NextVersionQuotesItsReview, AppendedBy, MayAnswer
  <2>2. CASE DecideWrites(d)
    <3> DEFINE r == decider[d].row
    <3>1. r \in Reviews /\ review[r].outcome = "none" /\ UNCHANGED <<versions, from>>
      BY <2>2 DEF DecideWrites, DecidersFit, DeciderIsAlone
    <3>2. \A h \in Reviews : AppendedBy(h)' = AppendedBy(h)
      BY <3>1 DEF AppendedBy
    <3>3. AppendedBy(r) = {}
      BY <3>1 DEF DeciderIsAlone, NextVersionQuotesItsReview
    <3>4. /\ review'[r].status = review[r].status /\ review'[r].found = review[r].found
          /\ review'[r].outcome = decider[d].outcome
          /\ \A h \in Reviews : h # r => review'[h] = review[h]
      BY <2>2, <3>1 DEF DecideWrites, TypeOK
    <3>5. NextVersionQuotesItsReview'
      BY <2>t, <3>1, <3>2, <3>3, <3>4 DEF DeciderIsAlone, NextVersionQuotesItsReview, AppendedBy
    <3>6. \/ decider'[d].at = "idle"
          \/ /\ decider'[d].at = "number" /\ decider[d].outcome = "revise"
             /\ decider'[d].row = r /\ decider'[d].found = decider[d].found
      BY <2>2 DEF DecideWrites, Appends, Decides, Released, DeciderIdle, TypeOK
    <3>7. tries[r] <= 1 => review[r].status = "done" /\ decider[d].found = review[r].found
      BY <2>2 DEF DecideWrites, DeciderIsAlone
    <3>8. QED
      BY <2>t, <2>o, <3>1, <3>2, <3>3, <3>4, <3>5, <3>6, <3>7 DEF DeciderIsAlone
  <2>3. CASE AppendNumbers(d) \/ AppendCollides(d) \/ DeciderDies(d)
    <3>1. UNCHANGED <<review, versions, from>>
      BY <2>3 DEF AppendNumbers, AppendCollides, DeciderDies, station
    <3>2. \/ decider'[d].at = "idle"
          \/ /\ decider[d].at = "number" /\ decider'[d].at = "insert"
             /\ decider'[d].row = decider[d].row /\ decider'[d].found = decider[d].found
      BY <2>3 DEF AppendNumbers, AppendCollides, DeciderDies, Decides, Released, DeciderIdle, TypeOK
    <3>3. QED
      BY <2>t, <2>o, <3>1, <3>2 DEF DeciderIsAlone, NextVersionQuotesItsReview, AppendedBy
  <2>4. CASE AppendInserts(d)
    <3>r. PICK r \in Reviews : r = decider[d].row
      BY <2>4 DEF AppendInserts, DecidersFit
    <3>n. PICK n \in Versions : n = decider[d].next /\ n = versions + 1
      BY <2>4, Fields DEF AppendInserts, DecidersFit, Versions
    <3>1. versions' = n /\ review' = review
      BY <2>4, <3>n DEF AppendInserts
    <3>3. from'[n] = [review |-> r, found |-> decider[d].found]
          /\ \A h \in 1..versions : from'[h] = from[h]
      BY <2>4, <3>r, <3>n DEF AppendInserts, TypeOK, Versions
    <3>4. AppendedBy(r) = {} /\ review[r].outcome = "revise"
      BY <2>4, <3>r DEF AppendInserts, DeciderIsAlone
    <3>5. AppendedBy(r)' = {n} /\ \A h \in Reviews : h # r => AppendedBy(h)' = AppendedBy(h)
      BY <3>n, <3>1, <3>3, <3>4 DEF AppendedBy
    <3>6. tries[r] <= 1 => review[r].status = "done" /\ decider[d].found = review[r].found
      BY <2>4, <3>r DEF AppendInserts, DeciderIsAlone
    <3>7. NextVersionQuotesItsReview'
      <4> SUFFICES ASSUME NEW x \in Reviews, NEW h \in AppendedBy(x)'
                   PROVE  /\ review'[x].outcome = "revise" /\ AppendedBy(x)' = {h}
                          /\ tries'[x] <= 1 =>
                                review'[x].status = "done" /\ from'[h].found = review'[x].found
        BY DEF NextVersionQuotesItsReview
      <4>1. CASE x = r
        BY <2>t, <3>1, <3>3, <3>4, <3>5, <3>6, <4>1
      <4>2. CASE x # r
        <5>1. h \in AppendedBy(x) /\ AppendedBy(x)' = AppendedBy(x) /\ h \in 1..versions
          BY <3>5, <4>2 DEF AppendedBy
        <5>2. QED
          BY <2>t, <3>1, <3>3, <5>1 DEF DeciderIsAlone, NextVersionQuotesItsReview
      <4>3. QED
        BY <4>1, <4>2
    <3>8. decider'[d].at = "idle"
      BY <2>4 DEF AppendInserts, Released, DeciderIdle, TypeOK
    <3>9. QED
      BY <2>o, <3>7, <3>8 DEF DeciderIsAlone
  <2>5. QED
    BY <1>4, <2>1, <2>2, <2>3, <2>4 DEF Answers
<1>5. ASSUME NEW r \in Reviews, Handles(r) PROVE DeciderIsAlone'
  <2>1. UNCHANGED <<versions, from, tries, decider>>
    BY <1>5, HandlerEffect DEF queue, clients
  <2>2. tries[r] <= 1 => review[r].status = "pending"
    BY <1>5, HandlerEffect DEF HandlerFits
  <2>3. QED
    BY <1>5, <2>1, <2>2, HandlerEffect, NothingAnswered DEF AppendedBy
<1>6. ASSUME NEW r \in Reviews, OnlyQueue(r) PROVE DeciderIsAlone'
  <2>1. UNCHANGED <<review, versions, from, decider>>
    BY <1>6, OnlyQueueActs DEF station, clients
  <2>2. \A h \in Reviews : tries'[h] <= 1 => tries[h] <= 1
    BY <1>6, OnlyQueueEffect
  <2>3. QED
    BY <2>1, <2>2, NothingAnswered DEF AppendedBy
<1>7. CASE Elsewhere
  <2>1. UNCHANGED <<review, from, tries, decider>>
    BY <1>7 DEF Elsewhere, HypothesisCreated, RunStarted, ReportsStored, station, queue, clients
  <2>2. \/ versions' = versions
        \/ versions' = versions + 1 /\ from[versions + 1] = ByHand
    BY <1>7, ReviewConstants
       DEF Elsewhere, HypothesisCreated, RunStarted, ReportsStored, station, RowsFit, Versions
  <2>3. \A r \in Reviews : AppendedBy(r)' = AppendedBy(r)
    BY <2>1, <2>2 DEF AppendedBy, ByHand
  <2>4. QED
    BY <2>1, <2>3, NothingAnswered
<1>8. CASE UNCHANGED vars
  BY <1>8, NothingAnswered DEF vars, station, queue, clients, AppendedBy
<1>9. QED
  BY <1>3, <1>4, <1>5, <1>6, <1>7, <1>8, NextCases

-----------------------------------------------------------------------------
(***************************************************************************)
(* The theorems.                                                           *)
(***************************************************************************)
\* The invariant holds of every behaviour, for any number of reviews, versions,
\* requests and deliveries and any set of faults.
THEOREM ReviewInvariant == Spec => []ReviewInv
<1>1. ReviewInv /\ [Next]_vars => ReviewInv'
  BY TypesKept, RowsKept, OpenersKept, DecidersKept, HandlersKept, OpenerKept, DeciderKept
     DEF ReviewInv, OneOpener, OneDecider, Reviews
<1>2. QED
  BY InitInv, <1>1, PTL DEF Spec

\* While one request opens reviews, a hypothesis has at most one open review, and
\* nobody has answered it (start_reconciliation, reconciliations.py:78).
THEOREM OneReviewOpen == ASSUME OneOpener PROVE Spec => []OneOpenReview
<1>1. ReviewInv => OneOpenReview
  BY DEF ReviewInv, OpenerIsAlone
<1>2. QED
  BY <1>1, ReviewInvariant, PTL

\* While one request answers reviews, `revise` appends one hypothesis that quotes
\* the comparison the user was shown (_append_next_version, reconciliations.py:142).
THEOREM NextVersionQuotes == ASSUME OneDecider PROVE Spec => []NextVersionQuotesItsReview
<1>1. ReviewInv => NextVersionQuotesItsReview
  BY DEF ReviewInv, DeciderIsAlone
<1>2. QED
  BY <1>1, ReviewInvariant, PTL

\* While one request answers reviews, no step takes an answer back or changes it,
\* however often the job is delivered (reconciliations.py:131, reconcile.py:85).
THEOREM AnswersStand == ASSUME OneDecider PROVE Spec => AnswerStands
<1> DEFINE Stands == \A r \in Reviews :
              review[r].outcome # "none" => review'[r].outcome = review[r].outcome
<1>1. ReviewInv /\ [Next]_vars => Stands
  <2> SUFFICES ASSUME ReviewInv, [Next]_vars, NEW x \in Reviews, review[x].outcome # "none"
               PROVE  review'[x].outcome = review[x].outcome
    OBVIOUS
  <2>1. TypeOK /\ RowsFit /\ DeciderIsAlone /\ MaxReviews \in Nat
    BY ReviewConstants DEF ReviewInv
  <2>2. ASSUME NEW o \in Opener, Opens(o) PROVE review'[x] = review[x]
    <3>1. x <= reviews
      BY <2>1 DEF RowsFit, TypeOK, Reviews
    <3>2. QED
      BY <2>1, <2>2, <3>1
         DEF Opens, OpenChecks, OpenCreates, OpenEnqueues, OpenLoses, station, TypeOK, Reviews
  <2>3. ASSUME NEW d \in Decider, Answers(d) PROVE review'[x] = review[x]
    <3>1. CASE DecideWrites(d)
      BY <2>1, <3>1 DEF DecideWrites, DeciderIsAlone, TypeOK
    <3>2. CASE ~DecideWrites(d)
      BY <2>3, <3>2 DEF Answers, DecideReads, DeciderDies, AppendNumbers, AppendInserts,
             AppendCollides, station
    <3>3. QED
      BY <3>1, <3>2
  <2>4. QED
    BY <2>1, <2>2, <2>3, NextCases, HandlerEffect, OnlyQueueActs
       DEF Elsewhere, HypothesisCreated, RunStarted, ReportsStored, station, vars
<1>2. QED
  <2>1. Spec => [][Stands]_vars
    BY <1>1, ReviewInvariant, PTL DEF Spec
  <2>2. QED
    BY <2>1 DEF AnswerStands
=============================================================================
