------------------------------- MODULE Review -------------------------------
(***************************************************************************)
(* Station 3: the reviews of one user's hypotheses and the answers to      *)
(* them.                                                                   *)
(*                                                                         *)
(* API requests open a review (StartReconciliation) and answer it (Decide- *)
(* Reconciliation); the `reconcile.run` job (Reconcile) computes the       *)
(* comparison, has it narrated and stores both.  Every repository call is  *)
(* a transaction of its own, and what a comparison reads goes on changing. *)
(*                                                                         *)
(* Reviews and hypotheses are numbered in the order of their commits.      *)
(* Of what a comparison reads, the newest direction run stands for all;    *)
(* Comparison has the counts and the arithmetic.                            *)
(* Left out: whose they are (every query is scoped to the user), dates,    *)
(* error texts, and the narrative, which is written with its comparison.   *)
(***************************************************************************)
EXTENDS JobQueue

CONSTANTS
    MaxReviews,     \* bound: reviews ever opened
    MaxVersions,    \* bound: hypotheses the user ever has
    Reviewable,     \* bound: hypotheses the user asks to review
    Opener,         \* concurrent POST /v1/reconciliations requests
    Decider         \* concurrent PUT .../decision requests

Reviews == 1..MaxReviews
Versions == 1..MaxVersions

ASSUME ReviewConstants ==
    MaxReviews \in Nat /\ MaxVersions \in Nat \ {0} /\ Reviewable \subseteq Versions

VARIABLES
    reviews,        \* number of reconciliations rows
    review,         \* review[r]: [of, status, found, outcome], one row
    versions,       \* number of direction_hypotheses rows
    from,           \* from[h]: the review that appended row h, and what it had found
    measured,       \* whether the newest direction run has its reports
    opener,         \* [at, of, row] of each opening request
    decider,        \* [at, row, found, outcome, next] of each answering request
    holds           \* holds[r]: the comparison the handler of job r has computed

station == <<reviews, review, versions, from>>
clients == <<opener, decider>>
vars    == <<station, measured, queue, at, clients, holds>>

Outcomes == {"holds", "revise", "replace"}
_OPEN == {"pending", "running"}

\* A comparison: whether the shares "now" were those of an analysis.
NoComparison == "none"
ByHand == [review |-> 0, found |-> NoComparison]
OpenerIdle == [at |-> "idle", of |-> 0, row |-> 0]
DeciderIdle ==
    [at |-> "idle", row |-> 0, found |-> NoComparison, outcome |-> "none", next |-> 0]

\* One hypothesis, settled on after the first analysis.
Init ==
    /\ reviews = 0
    /\ review = [r \in Reviews |->
            [of |-> 0, status |-> "absent", found |-> NoComparison, outcome |-> "none"]]
    /\ versions = 1
    /\ from = [h \in Versions |-> ByHand]
    /\ measured = TRUE
    /\ QueueInit(Reviews)
    /\ opener = [o \in Opener |-> OpenerIdle]
    /\ decider = [d \in Decider |-> DeciderIdle]
    /\ holds = [r \in Reviews |-> NoComparison]

-----------------------------------------------------------------------------
(***************************************************************************)
(* StartReconciliation: no open review of that hypothesis, then a row,     *)
(* then its job.                                                           *)
(***************************************************************************)
\* Mutant: only a review its job has begun counts as open.
NoneBegun(h) == \A r \in 1..reviews : review[r].of = h => review[r].status # "running"
NoneOpen(h) == \A r \in 1..reviews : review[r].of = h => review[r].status \notin _OPEN

OpenChecks(o) ==
    /\ opener[o].at = "idle"
    /\ reviews < MaxReviews
    /\ \E h \in Reviewable \cap 1..versions :
          /\ NoneOpen(h)
          /\ opener' = [opener EXCEPT ![o] = [at |-> "create", of |-> h, row |-> 0]]
    /\ UNCHANGED <<station, measured, queue, at, decider, holds>>

OpenCreates(o) ==
    /\ opener[o].at = "create"
    /\ reviews < MaxReviews
    /\ reviews' = reviews + 1
    /\ review' = [review EXCEPT ![reviews + 1] =
            [of |-> opener[o].of, status |-> "pending",
             found |-> NoComparison, outcome |-> "none"]]
    /\ opener' = [opener EXCEPT ![o] =
            [at |-> "enqueue", of |-> opener[o].of, row |-> reviews + 1]]
    /\ UNCHANGED <<versions, from, measured, queue, at, decider, holds>>

OpenEnqueues(o) ==
    /\ opener[o].at = "enqueue"
    /\ Enqueue(opener[o].row)
    /\ opener' = [opener EXCEPT ![o] = OpenerIdle]
    /\ UNCHANGED <<station, measured, decider, holds>>

\* The row is committed, and the call to Redis fails.
OpenLoses(o) ==
    /\ "lost_enqueue" \in Faults
    /\ opener[o].at = "enqueue"
    /\ opener' = [opener EXCEPT ![o] = OpenerIdle]
    /\ UNCHANGED <<station, measured, queue, at, decider, holds>>

-----------------------------------------------------------------------------
(***************************************************************************)
(* DecideReconciliation: read the row and check it, write the outcome,     *)
(* and on `revise` append the next hypothesis: read the highest version    *)
(* and insert the next, in one transaction that others may overtake.       *)
(***************************************************************************)
Decides(d, step, next) ==
    decider' = [decider EXCEPT ![d] =
        [at |-> step, row |-> decider[d].row, found |-> decider[d].found,
         outcome |-> decider[d].outcome, next |-> next]]

Released(d) == decider' = [decider EXCEPT ![d] = DeciderIdle]

MayAnswer(r) == review[r].status = "done" /\ review[r].outcome = "none"

\* Mutant: every answer but `holds` appends.
AppendsUnlessHolds(outcome) == outcome # "holds"
Appends(outcome) == outcome = "revise"

DecideReads(d) ==
    /\ decider[d].at = "idle"
    /\ \E r \in 1..reviews, answer \in Outcomes :
          /\ MayAnswer(r)
          /\ decider' = [decider EXCEPT ![d] =
                [at |-> "decide", row |-> r, found |-> review[r].found,
                 outcome |-> answer, next |-> 0]]
    /\ UNCHANGED <<station, measured, queue, at, opener, holds>>

DecideWrites(d) ==
    /\ decider[d].at = "decide"
    /\ LET row == review[decider[d].row] IN
       review' = [review EXCEPT ![decider[d].row] =
            [of |-> row.of, status |-> row.status, found |-> row.found,
             outcome |-> decider[d].outcome]]
    /\ IF Appends(decider[d].outcome) THEN Decides(d, "number", 0) ELSE Released(d)
    /\ UNCHANGED <<reviews, versions, from, measured, queue, at, opener, holds>>

AppendNumbers(d) ==
    /\ decider[d].at = "number"
    /\ versions < MaxVersions
    /\ Decides(d, "insert", versions + 1)
    /\ UNCHANGED <<station, measured, queue, at, opener, holds>>

AppendInserts(d) ==
    /\ decider[d].at = "insert"
    /\ versions < decider[d].next
    /\ versions' = decider[d].next
    /\ from' = [from EXCEPT ![decider[d].next] =
            [review |-> decider[d].row, found |-> decider[d].found]]
    /\ Released(d)
    /\ UNCHANGED <<reviews, review, measured, queue, at, opener, holds>>

\* Another append has taken the number: the request fails, its answer stands.
AppendCollides(d) ==
    /\ decider[d].at = "insert"
    /\ versions >= decider[d].next
    /\ Released(d)
    /\ UNCHANGED <<station, measured, queue, at, opener, holds>>

\* The API process stops, or a call fails, between the answer and the append.
DeciderDies(d) ==
    /\ "lost_enqueue" \in Faults
    /\ decider[d].at \in {"number", "insert"}
    /\ Released(d)
    /\ UNCHANGED <<station, measured, queue, at, opener, holds>>

\* CreateHypothesis (PlanLifecycle has its steps) settles on a shape meanwhile.
HypothesisCreated ==
    /\ versions < MaxVersions
    /\ versions' = versions + 1
    /\ UNCHANGED <<reviews, review, from, measured, queue, at, clients, holds>>

-----------------------------------------------------------------------------
(***************************************************************************)
(* Meanwhile a new direction run starts and stores its reports, or fails   *)
(* and never does (DirectionRun has the steps).                            *)
(***************************************************************************)
RunStarted ==
    /\ measured' = FALSE
    /\ UNCHANGED <<station, queue, at, clients, holds>>

ReportsStored ==
    /\ measured' = TRUE
    /\ UNCHANGED <<station, queue, at, clients, holds>>

-----------------------------------------------------------------------------
(***************************************************************************)
(* Reconcile: the handler of `reconcile.run`.  It looks at the row's       *)
(* existence and never at its status.                                      *)
(***************************************************************************)
Computes(r, comparison, step) ==
    /\ holds' = [holds EXCEPT ![r] = comparison]
    /\ Goto(r, step)
    /\ UNCHANGED <<station, measured, queue, clients>>

LoadReview(r) == at[r] = "load" /\ Computes(r, NoComparison, "compare")

\* The newest run, whether or not it has its reports.  Then the model writes the
\* note: what it may do is to fail, or to take its time.
Compares(r) ==
    /\ at[r] = "compare"
    /\ Computes(r, IF measured THEN "measured" ELSE "empty", "complete")

\* Mutant: the review asks its question anew.
CompletesAnew(r) ==
    [of |-> review[r].of, status |-> "done", found |-> holds[r], outcome |-> "none"]
Completed(r) ==
    [of |-> review[r].of, status |-> "done", found |-> holds[r],
     outcome |-> review[r].outcome]
Failed(r) ==
    [of |-> review[r].of, status |-> "failed", found |-> review[r].found,
     outcome |-> review[r].outcome]

Stores(r, row, step) ==
    /\ review' = [review EXCEPT ![r] = row]
    /\ holds' = [holds EXCEPT ![r] = NoComparison]
    /\ Goto(r, step)
    /\ UNCHANGED <<reviews, versions, from, measured, queue, clients>>

Complete(r) == at[r] = "complete" /\ Stores(r, Completed(r), "return")

\* Mutant: the failure is only logged.
FailSilently(r) == at[r] = "fail" /\ Computes(r, NoComparison, "return")
Fail(r) == at[r] = "fail" /\ Stores(r, Failed(r), "raise")

Breaks(r) ==
    /\ \/ /\ "raise" \in Faults
          /\ at[r] \in {"compare", "complete"}
          /\ Computes(r, NoComparison, "fail")
       \/ /\ "raise_unhandled" \in Faults
          /\ at[r] \in {"load", "fail"}
          /\ Computes(r, NoComparison, "raise")

-----------------------------------------------------------------------------
Outside == <<station, measured, clients>>

Deliver(r)        == Delivered(r) /\ UNCHANGED <<Outside, holds>>
TriesExhausted(r) == GivenUp(r) /\ UNCHANGED <<Outside, holds>>
JobReturns(r)     == Returned(r) /\ UNCHANGED <<Outside, holds>>
JobRaises(r)      == Raised(r) /\ UNCHANGED <<Outside, holds>>
Dropped(r)        == holds' = [holds EXCEPT ![r] = NoComparison] /\ UNCHANGED Outside
JobTimesOut(r)    == TimedOut(r) /\ Dropped(r)
WorkerCrashes(r)  == Stopped(r) /\ Dropped(r)

OpenStep(o)   == OpenChecks(o) \/ OpenCreates(o) \/ OpenEnqueues(o)
AppendStep(d) == AppendNumbers(d) \/ AppendInserts(d) \/ AppendCollides(d)
JobStep(r) ==
    \/ LoadReview(r) \/ Compares(r) \/ Complete(r) \/ Fail(r)
    \/ Deliver(r) \/ TriesExhausted(r) \/ JobReturns(r) \/ JobRaises(r)

Next ==
    \/ \E o \in Opener : OpenStep(o) \/ OpenLoses(o)
    \/ \E d \in Decider :
          DecideReads(d) \/ DecideWrites(d) \/ AppendStep(d) \/ DeciderDies(d)
    \/ \E r \in Reviews : JobStep(r) \/ Breaks(r) \/ JobTimesOut(r) \/ WorkerCrashes(r)
    \/ HypothesisCreated \/ RunStarted \/ ReportsStored

Spec == Init /\ [][Next]_vars

(***************************************************************************)
(* Fairness: the worker takes a job and goes on with it, and an answering  *)
(* request that has begun is not abandoned by the event loop.  Nobody has  *)
(* to open a review or to answer one.                                      *)
(***************************************************************************)
FairSpec ==
    /\ Spec
    /\ \A r \in Reviews : WF_vars(JobStep(r))
    /\ \A d \in Decider : WF_vars(DecideWrites(d) \/ AppendStep(d))

-----------------------------------------------------------------------------
(***************************************************************************)
(* Properties.                                                             *)
(***************************************************************************)
Comparison == {"none", "measured", "empty"}
ReviewSteps == {"idle", "load", "compare", "complete", "fail",
                "return", "raise"}

Answer == Outcomes \cup {"none"}
ReviewRow ==
    [of : 0..MaxVersions, status : {"absent", "pending", "done", "failed"},
     found : Comparison, outcome : Answer]
Quoted == [review : 0..MaxReviews, found : Comparison]
OpenerState ==
    [at : {"idle", "create", "enqueue"}, of : 0..MaxVersions, row : 0..MaxReviews]
DeciderState ==
    [at : {"idle", "decide", "number", "insert"}, row : 0..MaxReviews,
     found : Comparison, outcome : Answer, next : 0..MaxVersions]

\* The rows, the requests and the handlers are of these shapes.
TypeOK ==
    /\ reviews \in 0..MaxReviews /\ versions \in Versions
    /\ measured \in BOOLEAN
    /\ review \in [Reviews -> ReviewRow]
    /\ from \in [Versions -> Quoted]
    /\ QueueTypeOK(Reviews, ReviewSteps)
    /\ opener \in [Opener -> OpenerState]
    /\ decider \in [Decider -> DeciderState]
    /\ holds \in [Reviews -> Comparison]

AppendedBy(r) == {h \in 1..versions : from[h].review = r}

\* An answer is given once and stays: no step takes it back or changes it, not
\* even a second delivery of the job that finds the review answered
\* (DecideReconciliation's last check; PgReconciliationRepo.complete and fail).
AnswerStands ==
    [][\A r \in Reviews :
          review[r].outcome # "none" => review'[r].outcome = review[r].outcome]_vars

\* `revise` appends one hypothesis, no other answer appends any, and the new one
\* quotes the comparison the review had when it was answered -- which is the one
\* it still shows, unless the job was delivered again
\* (DecideReconciliation._append_next_version, evidence_snapshot).
NextVersionQuotesItsReview ==
    \A r \in Reviews :
        /\ \A h \in AppendedBy(r) :
              /\ review[r].outcome = "revise"
              /\ AppendedBy(r) = {h}
              /\ tries[r] <= 1 =>
                    review[r].status = "done" /\ from[h].found = review[r].found

\* While one request opens reviews, a hypothesis has at most one open review, and
\* an open review is not yet asked about.
OneOpenReview ==
    /\ \A r, s \in 1..reviews :
          review[r].of = review[s].of /\ {review[r].status, review[s].status} \subseteq _OPEN
              => r = s
    /\ \A r \in 1..reviews : review[r].status \in _OPEN => review[r].outcome = "none"

\* A review whose job is queued is finished, one way or the other, while the
\* worker runs, unless the job itself failed (Reconcile's except, which raises
\* again once it has stored the failure).
QueuedReviewEnds ==
    \A r \in Reviews :
        job[r] = "queued" ~> review[r].status \in {"done", "failed"} \/ job[r] = "failed"
-----------------------------------------------------------------------------
(***************************************************************************)
(* The inductive invariant.                                                *)
(***************************************************************************)
OneOpener  == \A o, p \in Opener : o = p
OneDecider == \A d, e \in Decider : d = e

\* A row not yet inserted is untouched, and a hypothesis not yet appended quotes
\* nothing; without a job there is no handler; only a finished review is answered.
RowsFit ==
    /\ \A r \in Reviews :
          /\ review[r].status = "absent" <=> r > reviews
          /\ review[r].status = "absent" => job[r] = "none"
          /\ job[r] = "none" => at[r] = "idle" /\ tries[r] = 0
          /\ review[r].status \in {"absent", "pending"} => review[r].outcome = "none"
    /\ \A h \in Versions : h > versions => from[h] = ByHand

\* A request that opens a review names a hypothesis there is, and then the row it
\* has inserted, which nobody else works on.
OpenersFit ==
    /\ \A o \in Opener :
          /\ opener[o].at = "create" => opener[o].of \in 1..versions
          /\ opener[o].at = "enqueue" => opener[o].row \in 1..reviews /\ job[opener[o].row] = "none"
    /\ \A o, p \in Opener :
          opener[o].at = "enqueue" /\ opener[p].at = "enqueue" /\ opener[o].row = opener[p].row
              => o = p

\* A request that answers has seen a finished review, and the number it appends
\* under was the next one when it asked.
DecidersFit ==
    \A d \in Decider :
        /\ decider[d].at # "idle" =>
              /\ decider[d].row \in 1..reviews /\ decider[d].outcome \in Outcomes
              /\ review[decider[d].row].status \in {"done", "failed"}
        /\ decider[d].at = "insert" => decider[d].next \in 2..(versions + 1)

\* Where the handler is says what the row shows: up to the end of its first
\* delivery nothing has been stored.
HandlerFits(r) ==
    /\ at[r] # "idle" => job[r] = "running"
    /\ job[r] = "running" => tries[r] # 0
    /\ tries[r] <= 1 /\ at[r] \in {"load", "compare", "complete", "fail"} =>
          review[r].status = "pending"
    /\ tries[r] = 0 => review[r].status \in {"absent", "pending"}

\* An opener that has looked found no open review, and nobody else opens one.
OpenerIsAlone ==
    /\ OneOpenReview
    /\ \A o \in Opener : opener[o].at = "create" => NoneOpen(opener[o].of)

\* A request that has not written its answer finds the review unanswered; one that
\* has written `revise` is the one that will append, and holds what the review
\* shows unless it was delivered again.
DeciderIsAlone ==
    /\ NextVersionQuotesItsReview
    /\ \A d \in Decider :
          LET r == decider[d].row IN
          /\ decider[d].at = "decide" => review[r].outcome = "none"
          /\ decider[d].at \in {"number", "insert"} =>
                review[r].outcome = "revise" /\ AppendedBy(r) = {}
          /\ decider[d].at # "idle" /\ tries[r] <= 1 =>
                review[r].status = "done" /\ decider[d].found = review[r].found

\* What the theorems of ReviewProofs rest on: the state is well formed, the rows,
\* the requests and the handlers fit each other, one opening request leaves one
\* open review, and one answering request one answer.
ReviewInv ==
    /\ TypeOK
    /\ RowsFit
    /\ OpenersFit
    /\ DecidersFit
    /\ \A r \in Reviews : HandlerFits(r)
    /\ OneOpener => OpenerIsAlone
    /\ OneDecider => DeciderIsAlone
=============================================================================
