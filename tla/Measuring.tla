----------------------------- MODULE Measuring ------------------------------
(***************************************************************************)
(* The countable half of a Report: the events of a document, placed in     *)
(* dimensions by the model, counted over a fixed window (build_coverage,   *)
(* window, compute_metrics).                                               *)
(*                                                                         *)
(* A document is a sequence of events [source_ref, start_at, end_at,       *)
(* all_day]; instants are minutes, days begin at the multiples of a day.   *)
(* Shares are ten-thousandths, hours are tenths, as the code rounds them.  *)
(* Left out: text chunks, skills and roles, which nothing is counted from. *)
(***************************************************************************)
EXTENDS Comparison, Sequences

CONSTANTS
    DIMENSIONS,     \* "unclassified" among them
    window_weeks    \* config/report_dimensions.yaml

ASSUME MeasuringConstants ==
    /\ "unclassified" \in DIMENSIONS /\ IsFiniteSet(DIMENSIONS)
    /\ window_weeks \in Nat \ {0}

DateOf(instant) == instant \div (24 * 60)

\* event_ref: the event's own reference, or its place in the document; 0 is no reference.
_ref(doc, n) == IF doc[n].source_ref # 0 THEN <<"ref", doc[n].source_ref>> ELSE <<"e", n>>
Refs(doc) == {_ref(doc, n) : n \in DOMAIN doc}

\* Two events of one reference are one entry of by_ref, the later one.
by_ref(doc) == [r \in Refs(doc) |-> doc[Max({n \in DOMAIN doc : _ref(doc, n) = r})]]

-----------------------------------------------------------------------------
\* build_coverage
Days(doc) == {DateOf(doc[n].start_at) : n \in DOMAIN doc}

Coverage(doc) ==
    [events |-> Len(doc),
     period |-> IF doc = <<>> THEN {} ELSE {Min(Days(doc)), Max(Days(doc))},
     weeks  |-> IF doc = <<>> THEN 0 ELSE (Max(Days(doc)) - Min(Days(doc))) \div 7 + 1]

\* The last day of the window; with no period, today.
window_end(doc, today) == IF doc = <<>> THEN today ELSE Max(Days(doc))

\* Mutant: the window begins a day early.
window_a_day_longer(doc, today) == window_end(doc, today) - window_weeks * 7

window_start(doc, today) == window_end(doc, today) - (window_weeks * 7 - 1)

-----------------------------------------------------------------------------
(***************************************************************************)
(* compute_metrics.  `assigned` is the model's classification: a function  *)
(* from some of the references to dimensions.                              *)
(***************************************************************************)
_minutes(e) == IF e.all_day \/ e.end_at < e.start_at THEN 0 ELSE e.end_at - e.start_at

DimensionOf(assigned, r) == IF r \in DOMAIN assigned THEN assigned[r] ELSE "unclassified"

InWindow(doc, today, r) ==
    DateOf(by_ref(doc)[r].start_at) \in window_start(doc, today)..window_end(doc, today)

Bucket(doc, assigned, today, d) ==
    {r \in Refs(doc) : InWindow(doc, today, r) /\ DimensionOf(assigned, r) = d}

Minutes(doc, S) == Total([r \in S |-> _minutes(by_ref(doc)[r])])

_weeks(doc, today, S) ==
    {(DateOf(by_ref(doc)[r].start_at) - window_start(doc, today)) \div 7 : r \in S}

\* Mutant: a week without events does not end the streak.
_unbroken_streak(weeks) == Cardinality(weeks)

\* The loop over the weeks: the length of the run that ends with each of them.
_longest_streak(weeks) ==
    IF weeks = {} THEN 0
    ELSE LET run[week \in Min(weeks)..Max(weeks)] ==
                 IF week \notin weeks THEN 0
                 ELSE IF week = Min(weeks) THEN 1 ELSE run[week - 1] + 1
         IN  Max({run[week] : week \in Min(weeks)..Max(weeks)})

compute_metrics(doc, assigned, today) ==
    LET grand_total == Minutes(doc, {r \in Refs(doc) : InWindow(doc, today, r)}) IN
    [d \in DIMENSIONS |->
        LET bucket == Bucket(doc, assigned, today, d)
            weeks  == _weeks(doc, today, bucket)
        IN  [events |-> Cardinality(bucket),
             hours  |-> Round(10 * Minutes(doc, bucket), 60),
             share  |-> IF grand_total = 0 THEN 0
                        ELSE Round(Whole * Minutes(doc, bucket), grand_total),
             weeks_present |-> Cardinality(weeks),
             longest_streak_weeks |-> _longest_streak(weeks),
             last_seen |-> IF bucket = {} THEN {}
                           ELSE {Max({DateOf(by_ref(doc)[r].start_at) : r \in bucket})}]]

Shares(metrics) == [d \in DIMENSIONS |-> metrics[d].share]
=============================================================================
