----------------------------- MODULE Comparison -----------------------------
(***************************************************************************)
(* Station 3's arithmetic: two schedules compared occurrence by occurrence *)
(* (diff_tasks), the whole picture (compare) and the name given to a plan  *)
(* that changed (classify_revision).                                       *)
(*                                                                         *)
(* A schedule is a set of tasks with key, week_index, occurrence, start_at,*)
(* end_at and all_day; a share is a number of ten-thousandths, the four    *)
(* decimals the code rounds to.  Left out: the snapshots and titles a diff *)
(* carries along.                                                          *)
(***************************************************************************)
EXTENDS Integers, FiniteSets, FiniteSetsExt

Whole == 10000
TaskStatuses == {"pending", "done", "missed", "skipped"}

\* Python's round(n / d): to the nearest, a half to the even neighbour.
Round(n, d) ==
    LET q == n \div d  r == n % d IN
    IF 2 * r > d \/ (2 * r = d /\ q % 2 = 1) THEN q + 1 ELSE q

\* Python's sum(f.values())
Total(f) == MapThenSumSet(LAMBDA x : f[x], DOMAIN f)

-----------------------------------------------------------------------------
_align(t) == <<t.key, t.week_index, t.occurrence>>
Aligned(S, a) == {t \in S : _align(t) = a}

Length(t) == t.end_at - t.start_at

\* Mutant: of two tasks that start together only the shorter one is told apart.
_kind_to_shorter(old, new) ==
    IF old.start_at # new.start_at \/ old.all_day # new.all_day THEN "moved"
    ELSE IF Length(new) < Length(old) THEN "shortened" ELSE "unchanged"

\* A move outranks a change of length.
_kind(old, new) ==
    IF old.start_at # new.start_at \/ old.all_day # new.all_day THEN "moved"
    ELSE IF Length(new) < Length(old) THEN "shortened"
    ELSE IF Length(new) > Length(old) THEN "lengthened"
    ELSE "unchanged"

Entry(before, after, a) ==
    [key  |-> a,
     kind |-> IF Aligned(before, a) = {} THEN "added"
              ELSE IF Aligned(after, a) = {} THEN "removed"
              ELSE _kind(CHOOSE t \in Aligned(before, a) : TRUE,
                         CHOOSE t \in Aligned(after, a) : TRUE)]

diff_tasks(before, after) ==
    {Entry(before, after, a) : a \in {_align(t) : t \in before \cup after}}

OfKind(changes, kinds) == {entry \in changes : entry.kind \in kinds}

-----------------------------------------------------------------------------
\* status_counts[s]: tasks of that status.
Execution(status_counts) ==
    LET planned == Total(status_counts) IN
    [planned |-> planned,
     done |-> status_counts["done"],
     completion |-> IF planned = 0 THEN 0 ELSE Round(Whole * status_counts["done"], planned)]

Share(shares, d) == IF d \in DOMAIN shares THEN shares[d] ELSE 0

compare(status_counts, before_shares, after_shares, changes, Dimensions) ==
    [execution |-> Execution(status_counts),
     shifts |-> [d \in Dimensions |-> Share(after_shares, d) - Share(before_shares, d)],
     schedule_changes |-> OfKind(changes, {"added", "moved", "removed", "shortened", "lengthened"})]

\* Mutant: any change of a plan that is behind is a retreat.
classify_behind(comparison) ==
    IF comparison.schedule_changes = {} THEN "none"
    ELSE IF 2 * comparison.execution.completion < Whole THEN "avoidance" ELSE "growth"

classify_revision(comparison) ==
    LET changes == comparison.schedule_changes
        shrank  == Cardinality(OfKind(changes, {"removed"})) > Cardinality(OfKind(changes, {"added"}))
    IN  IF changes = {} THEN "none"
        ELSE IF shrank /\ 2 * comparison.execution.completion < Whole THEN "avoidance"
        ELSE "growth"
=============================================================================
