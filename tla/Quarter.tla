------------------------------ MODULE Quarter -------------------------------
(***************************************************************************)
(* A plan from its template to its review: Scheduling computes and stores  *)
(* it, the user ticks its tasks off, week by week, and Station 3 compares  *)
(* the stored baseline with the rows there are now.  The uploads that keep *)
(* the schedule away from the user's commitments are also what Measuring   *)
(* counts.                                                                 *)
(*                                                                         *)
(* No operation of the API moves a task: the rows differ from the baseline *)
(* only when a repeated delivery of plan.generate stored its tree and not  *)
(* its plan.  Statuses are ticked while no delivery is at work, a week's   *)
(* tasks alike.                                                            *)
(***************************************************************************)
EXTENDS Scheduling, Measuring

VARIABLE status     \* status[t]: tasks.status of a row

quarter == <<vars, status>>

QuarterInit == Init /\ status = [t \in {} |-> "pending"]

\* The new rows are pending.
Replaces == StoreTree /\ status' = [t \in tree' |-> "pending"]

Plans ==
    /\ \/ Deliver \/ AskModel \/ Schedule \/ AskAgain \/ GiveUp \/ StorePlan \/ Return
       \/ Crash
    /\ UNCHANGED status

\* UpdateTaskStatus, SubmitCheckin
Ticks ==
    /\ step = "over"
    /\ \E w \in {t.week_index : t \in tree}, s \in TaskStatuses \ {"pending"} :
          status' = [t \in tree |-> IF t.week_index = w THEN s ELSE status[t]]
    /\ UNCHANGED vars

QuarterNext == Plans \/ Replaces \/ Ticks

QuarterSpec == QuarterInit /\ [][QuarterNext]_quarter

-----------------------------------------------------------------------------
\* counts_by_status
counts_by_status == [s \in TaskStatuses |-> Cardinality({t \in tree : status[t] = s})]

\* What a reconciliation of this plan finds; the shares are Review's business.
Review == compare(counts_by_status, [d \in {} |-> 0], [d \in {} |-> 0],
                  diff_tasks(baseline, tree), DIMENSIONS)

Places(S) == {<<_align(t), t.start_at, t.end_at, t.all_day>> : t \in S}
Mirror(kind) ==
    CASE kind = "added"     -> "removed"   [] kind = "removed"    -> "added"
      [] kind = "shortened" -> "lengthened" [] kind = "lengthened" -> "shortened"
      [] OTHER              -> kind

\* A diff is empty exactly when every task is where the baseline had it, and read from
\* the other side it says the opposite (diff_tasks).
DiffIsFaithful ==
    step = "over" =>
        /\ Review.schedule_changes = {} <=> Places(baseline) = Places(tree)
        /\ diff_tasks(tree, baseline) =
              {[key |-> e.key, kind |-> Mirror(e.kind)] : e \in diff_tasks(baseline, tree)}

\* A change is called a retreat exactly when there is less to do than was planned and
\* less than half of it was done (classify_revision).
AvoidanceIsRetreat ==
    step = "over" =>
        (classify_revision(Review) = "avoidance" <=>
            /\ Cardinality(tree) < Cardinality(baseline)
            /\ 2 * counts_by_status["done"] < Cardinality(tree))

Classifications(doc) ==
    UNION {[classified -> DIMENSIONS] : classified \in SUBSET Refs(doc)}

\* A longest streak by its definition.
Streaks(weeks) ==
    {n \in 0..Cardinality(weeks) : n = 0 \/ \E w \in weeks : w..(w + n - 1) \subseteq weeks}

\* Whatever the model classifies, every event of the window is counted in exactly one
\* dimension, the shares make up the whole but for the rounding, and the weeks an event
\* is seen in are the weeks of the window (compute_metrics, window).
MetricsAddUp ==
    step = "ask" /\ attempts = 0 =>
        \A assigned \in Classifications(events) :
            LET metrics == compute_metrics(events, assigned, 0)
                inside  == {r \in Refs(events) : InWindow(events, 0, r)}
                total   == Total(Shares(metrics))
            IN  /\ Total([d \in DIMENSIONS |-> metrics[d].events]) = Cardinality(inside)
                /\ Minutes(events, inside) > 0 =>
                      2 * total \in (2 * Whole - Cardinality(DIMENSIONS))
                                    ..(2 * Whole + Cardinality(DIMENSIONS))
                /\ \A d \in DIMENSIONS :
                      LET weeks == _weeks(events, 0, Bucket(events, assigned, 0, d)) IN
                      /\ weeks \subseteq 0..(window_weeks - 1)
                      /\ metrics[d].longest_streak_weeks = Max(Streaks(weeks))
=============================================================================
