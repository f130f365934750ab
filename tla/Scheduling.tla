----------------------------- MODULE Scheduling -----------------------------
(***************************************************************************)
(* The arithmetic half of Station 2: GeneratePlan asks the model for a     *)
(* template, `schedule` puts its tasks on dates week by week, a schedule   *)
(* with something left over sends the template back, and what is kept is   *)
(* stored -- the tree in one transaction, the plan with the baseline that  *)
(* Station 3 will compare against in another one.                          *)
(*                                                                         *)
(* An instant is a number of minutes since the local midnight on which the *)
(* plan starts; a range is << start, end >>.  A task is known by its place *)
(* in the template (spec, 0 for a checkpoint), which is also the order of  *)
(* the keys, and a milestone by its place in the flattened tree.  Tasks    *)
(* are a set: their sort_order is a function of it.  Nothing is awaited    *)
(* while `schedule` runs.  Left out: time zones and their jumps, texts,    *)
(* and the statuses PlanLifecycle has.                                     *)
(***************************************************************************)
EXTENDS Comparison, Sequences, SequencesExt

CONSTANTS
    Answers,        \* templates the model may return
    Uploads,        \* documents a user may have uploaded, sequences of events
    Quotas,         \* what the quotas table may hold for a user: at most one row
    Today,          \* the weekday on which the job runs, 0 for Monday
    default_start,  \* "next_monday" or "tomorrow"
    max_attempts,   \* answers the model may give for one delivery
    MaxTries        \* bound: deliveries of the job

\* config/scheduler.yaml, config/quota.yaml
min_gap_minutes == 30
max_shift_days  == 3
checkpoint_hour == 0
slot_order      == <<"morning", "evening", "noon", "any">>
fallback        == [drop_first |-> "career", weekly_minutes |-> 300]

Weekdays == 0..6
Areas == <<"career", "relationships", "health">>
Day == 24 * 60

ASSUME SchedulingConstants ==
    /\ Today \in Weekdays /\ default_start \in {"next_monday", "tomorrow"}
    /\ max_attempts \in Nat \ {0} /\ MaxTries \in Nat \ {0}

\* What the schemas say of the fields of what is read; the rules of a template's shape are
\* below.
ASSUME InputsAssumption ==
    /\ Answers # {}
    /\ \A t \in Answers :
          /\ t.duration_weeks \in Nat /\ IsFiniteSet(DOMAIN t.tasks)
          /\ \A k \in DOMAIN t.tasks :
                /\ k \in Nat \ {0} /\ \E n \in DOMAIN Areas : t.tasks[k].area = Areas[n]
                /\ t.tasks[k].duration_minutes \in Nat \ {0}
                /\ t.tasks[k].times_per_week \in Nat \ {0}
                /\ t.tasks[k].day_hint \in
                      {"mon", "tue", "wed", "thu", "fri", "sat", "sun", "any", "weekend", "weekday"}
                /\ t.tasks[k].slot_hint \in {"morning", "noon", "evening", "any"}
          /\ IsFiniteSet(DOMAIN t.milestones) /\ DOMAIN t.milestones # {}
          /\ \A m \in DOMAIN t.milestones : t.milestones[m].target_week \in Nat
    /\ \A doc \in Uploads :
          /\ IsFiniteSet(DOMAIN doc) /\ DOMAIN doc \subseteq Nat
          /\ \A n \in DOMAIN doc : doc[n].start_at \in Int /\ doc[n].end_at \in Int
    /\ \A stored \in Quotas : \A row \in stored :
          /\ \E n \in DOMAIN Areas : row.drop_first = Areas[n]
          /\ row.weekly_minutes \in Nat

VARIABLES
    template,   \* the answer being scheduled
    events,     \* events of the uploads
    stored_quota,   \* the quotas row
    step,       \* next step of the job
    tries,      \* deliveries of the job
    attempts,   \* answers of the model in this delivery
    week,       \* week_index of the loop
    todo,       \* occurrences of the week that still need a place
    tasks,      \* tasks placed so far
    trimmed,    \* occurrences cut to stay inside the quota
    unplaced,   \* tasks some occurrence of which fits nowhere
    tree,       \* the rows of `tasks` and `schedule_slots`
    baseline    \* structure.baseline_schedule of the plan

inputs == <<template, events, stored_quota>>
result == <<tasks, trimmed, unplaced>>
rows   == <<tree, baseline>>
vars   == <<inputs, step, tries, attempts, week, todo, result, rows>>

-----------------------------------------------------------------------------
(***************************************************************************)
(* The template and the rules of its shape.  A task has a key of its own;  *)
(* nothing keeps it from being the key of a checkpoint.                    *)
(***************************************************************************)
Keys(t) == DOMAIN t.tasks
Milestones(t) == DOMAIN t.milestones
MAX_DEPTH == 3
CheckpointKey(m) == <<"checkpoint", m>>

\* flatten: a milestone follows its parent; its depth counts the levels above it.
Depth(t) ==
    LET depth[m \in 0..Len(t.milestones)] ==
            IF m = 0 THEN -1 ELSE 1 + depth[t.milestones[m].parent]
    IN  depth

shape_rules(t) ==
    /\ \A m \in Milestones(t) :
          /\ Depth(t)[m] < MAX_DEPTH
          /\ t.milestones[m].target_week < t.duration_weeks
    /\ \A k \in Keys(t) :
          /\ \A other \in Keys(t) \ {k} : t.tasks[other].key # t.tasks[k].key
          /\ t.tasks[k].milestone \in Milestones(t)
          /\ t.tasks[k].week_start <= t.tasks[k].week_end
          /\ t.tasks[k].week_end < t.duration_weeks

-----------------------------------------------------------------------------
(***************************************************************************)
(* The quota.                                                              *)
(***************************************************************************)
quota == IF stored_quota = {} THEN fallback ELSE CHOOSE row \in stored_quota : TRUE

\* The place in cut_order: the area named by Q-3 goes first, then the others in their order.
Rank(area) ==
    IF area = quota.drop_first THEN 0 ELSE CHOOSE n \in DOMAIN Areas : Areas[n] = area

\* _ALL_DAY_TYPES
AllDay(k) == template.tasks[k].task_type \in {"rest", "checkpoint"}

\* An occurrence is << task, number >>.
_cost(x) == IF AllDay(x[1]) THEN 0 ELSE template.tasks[x[1]].duration_minutes
Cost(S) == Total([x \in S |-> _cost(x)])

Planned(w) ==
    {x \in Keys(template) \X Weekdays :
        /\ template.tasks[x[1]].week_start <= w /\ w <= template.tasks[x[1]].week_end
        /\ x[2] < template.tasks[x[1]].times_per_week}

\* First the area that comes first in the cut order, in it the latest occurrence,
\* of those the latest task of the template.
CutBefore(x, y) ==
    LET a == Rank(template.tasks[x[1]].area)
        b == Rank(template.tasks[y[1]].area)
    IN  \/ a < b
        \/ a = b /\ x[2] > y[2]
        \/ a = b /\ x[2] = y[2] /\ x[1] > y[1]

\* Mutant: the cut goes on when the quota is just met.
CutsOneMore(w) ==
    {x \in Planned(w) :
        /\ _cost(x) > 0
        /\ Cost(Planned(w)) - Cost({y \in Planned(w) : CutBefore(y, x)}) >= quota.weekly_minutes}

_apply_quota(w) ==
    {x \in Planned(w) :
        /\ _cost(x) > 0
        /\ Cost(Planned(w)) - Cost({y \in Planned(w) : CutBefore(y, x)}) > quota.weekly_minutes}

-----------------------------------------------------------------------------
(***************************************************************************)
(* The day an occurrence aims for.                                         *)
(***************************************************************************)
\* _next_start_date
StartsOn == IF default_start = "tomorrow" THEN (Today + 1) % 7 ELSE 0
WeekdayOf(day) == (StartsOn + day) % 7
WeekStart(w) == 7 * w
WeekEnd(w) == 7 * w + 6

_DAY_HINT_WEEKDAYS ==
    [mon |-> {0}, tue |-> {1}, wed |-> {2}, thu |-> {3}, fri |-> {4}, sat |-> {5}, sun |-> {6},
     weekday |-> 0..4, weekend |-> {5, 6}, any |-> Weekdays]

_candidate_days(w, hint) ==
    {day \in WeekStart(w)..WeekEnd(w) : WeekdayOf(day) \in _DAY_HINT_WEEKDAYS[hint]}

\* Day number n of them, from 0.
Numbered(days, n) == CHOOSE day \in days : Cardinality({d \in days : d < day}) = n

\* _target_days, the day of occurrence n.
TargetDay(w, k, n) ==
    LET days  == _candidate_days(w, template.tasks[k].day_hint)
        last  == Cardinality(days) - 1
        times == template.tasks[k].times_per_week
    IN  IF times = 1 THEN Numbered(days, 0)
        ELSE Numbered(days, Min({Round(n * last, times - 1), last}))

-----------------------------------------------------------------------------
(***************************************************************************)
(* The room there is, and the first place that fits.                       *)
(***************************************************************************)
\* Capacity.default(..).windows: one window for each named slot, the same every day.
Windows(slot) ==
    CASE slot = "morning" -> {<<7 * 60, 9 * 60>>}
      [] slot = "noon"    -> {<<12 * 60, 13 * 60>>}
      [] slot = "evening" -> {<<19 * 60, 22 * 60>>}
      [] OTHER            -> {}

\* _busy_blocks: all-day events and what begins before the plan block nothing, nor
\* does an event that ends before it begins.
_busy_blocks ==
    {<<e.start_at, e.end_at>> :
        e \in {e \in ToSet(events) : ~e.all_day /\ e.start_at >= 0 /\ e.end_at > e.start_at}}

Timed(S) == {t \in S : ~t.all_day}
Taken(t) == <<t.start_at, t.end_at>>

\* Everything taken: busy blocks and timed tasks already placed.
occupied == _busy_blocks \cup {Taken(t) : t \in Timed(tasks)}

Blocked == {<<r[1] - min_gap_minutes, r[2] + min_gap_minutes>> : r \in occupied}

\* Mutant: the gap is kept before a task only.
IsFreeAhead(cursor, duration) ==
    \A block \in Blocked :
        block[2] - min_gap_minutes <= cursor \/ block[1] - cursor >= duration

\* _first_fit tries the start of the window and then, one after the other, the ends of
\* the blocks, and stops at the first instant from which `duration` minutes are free.
\* Only an instant the cursor was moved to is held against the end of the window, and
\* the start of the window when no block is left to look at.
IsFree(cursor, duration) ==
    \A block \in Blocked : block[2] <= cursor \/ block[1] - cursor >= duration

FirstFree(start, duration) ==
    Min({cursor \in {start} \cup {block[2] : block \in Blocked} :
            cursor >= start /\ IsFree(cursor, duration)})

_first_fit(window, duration) ==
    LET cursor == FirstFree(window[1], duration) IN
    IF \/ cursor + duration <= window[2]
       \/ cursor = window[1] /\ \E block \in Blocked : block[2] > cursor
    THEN {cursor} ELSE {}

SlotsOf(k) ==
    IF template.tasks[k].slot_hint = "any" THEN slot_order
    ELSE <<template.tasks[k].slot_hint>>

\* _place: the attempts in the order they are made, day by day, slot by slot.
Attempt(w, x, n) ==
    LET slots == SlotsOf(x[1]) IN
    [day  |-> TargetDay(w, x[1], x[2]) + ((n - 1) \div Len(slots)),
     slot |-> slots[1 + ((n - 1) % Len(slots))]]

Attempts(w, x) ==
    {n \in 1..((max_shift_days + 1) * Len(SlotsOf(x[1]))) : Attempt(w, x, n).day <= WeekEnd(w)}

StartsAt(w, x, n) ==
    LET tried == Attempt(w, x, n) IN
    UNION {_first_fit(<<Day * tried.day + window[1], Day * tried.day + window[2]>>,
                      template.tasks[x[1]].duration_minutes) : window \in Windows(tried.slot)}

_place(w, x) ==
    LET fitting == {n \in Attempts(w, x) : StartsAt(w, x, n) # {}} IN
    IF fitting = {} THEN {} ELSE StartsAt(w, x, Min(fitting))

-----------------------------------------------------------------------------
(***************************************************************************)
(* The job: what it reads, the model's answer, the loop of `schedule`, the *)
(* rule that sends a template back, and the two writes.                    *)
(***************************************************************************)
Begin(w, s) == week' = w /\ step' = s
NothingPlaced == tasks' = {} /\ trimmed' = {} /\ unplaced' = {}

Init ==
    /\ template = CHOOSE t \in Answers : TRUE
    /\ events = <<>> /\ stored_quota = {}
    /\ step = "deliver"
    /\ tries = 0 /\ attempts = 0 /\ week = 0
    /\ todo = {} /\ tasks = {} /\ trimmed = {} /\ unplaced = {}
    /\ tree = {} /\ baseline = {}

\* What it reads may have changed since an earlier delivery.
Deliver ==
    /\ step = "deliver" /\ tries < MaxTries
    /\ tries' = tries + 1
    /\ attempts' = 0
    /\ events' \in Uploads /\ stored_quota' \in Quotas
    /\ NothingPlaced
    /\ Begin(0, "ask")
    /\ UNCHANGED <<template, todo, rows>>

\* complete_validated: the answer is one the schema's validators let through.
AskModel ==
    /\ step = "ask"
    /\ template' \in {t \in Answers : shape_rules(t)}
    /\ attempts' = attempts + 1
    /\ NothingPlaced
    /\ Begin(0, "week")
    /\ UNCHANGED <<events, stored_quota, tries, todo, rows>>

BeginWeek ==
    /\ step = "week" /\ week < template.duration_weeks
    /\ todo' = Planned(week) \ _apply_quota(week)
    /\ trimmed' = trimmed \cup {<<week, x>> : x \in _apply_quota(week)}
    /\ Begin(week, "place")
    /\ UNCHANGED <<inputs, tries, attempts, tasks, unplaced, rows>>

\* The next occurrence of the week, in the order of the template.
Next1 == CHOOSE x \in todo : \A y \in todo : x[1] < y[1] \/ (x[1] = y[1] /\ x[2] <= y[2])

Scheduled(x, start, end) ==
    [spec |-> x[1], key |-> template.tasks[x[1]].key, week_index |-> week, occurrence |-> x[2],
     start_at |-> start, end_at |-> end, all_day |-> AllDay(x[1])]

AllDayBounds(day) == <<Day * day + 60 * checkpoint_hour, Day * (day + 1)>>

PlaceAllDay ==
    /\ step = "place" /\ todo # {} /\ AllDay(Next1[1])
    /\ LET bounds == AllDayBounds(TargetDay(week, Next1[1], Next1[2])) IN
       tasks' = tasks \cup {Scheduled(Next1, bounds[1], bounds[2])}
    /\ todo' = todo \ {Next1}
    /\ UNCHANGED <<inputs, step, tries, attempts, week, trimmed, unplaced, rows>>

PlaceTimed ==
    /\ step = "place" /\ todo # {} /\ ~AllDay(Next1[1])
    /\ \E start \in _place(week, Next1) :
          tasks' = tasks \cup
              {Scheduled(Next1, start, start + template.tasks[Next1[1]].duration_minutes)}
    /\ todo' = todo \ {Next1}
    /\ UNCHANGED <<inputs, step, tries, attempts, week, trimmed, unplaced, rows>>

LeaveUnplaced ==
    /\ step = "place" /\ todo # {} /\ ~AllDay(Next1[1])
    /\ _place(week, Next1) = {}
    /\ unplaced' = unplaced \cup {Next1[1]}
    /\ todo' = todo \ {Next1}
    /\ UNCHANGED <<inputs, step, tries, attempts, week, tasks, trimmed, rows>>

\* _checkpoint: on the Sunday of the week its milestone targets.
Sunday(w) == WeekStart(w) + ((6 - StartsOn) % 7)

Checkpoint(m) ==
    [spec |-> 0, key |-> CheckpointKey(m), week_index |-> week, occurrence |-> 0,
     start_at |-> AllDayBounds(Sunday(week))[1], end_at |-> AllDayBounds(Sunday(week))[2],
     all_day |-> TRUE]

EndWeek ==
    /\ step = "place" /\ todo = {}
    /\ tasks' = tasks \cup
          {Checkpoint(m) : m \in {m \in Milestones(template) :
                                     template.milestones[m].target_week = week}}
    /\ Begin(week + 1, "week")
    /\ UNCHANGED <<inputs, tries, attempts, todo, trimmed, unplaced, rows>>

Finished == step = "week" /\ week = template.duration_weeks

\* _schedulable_rule: a template with an occurrence that fits nowhere is sent back.
AskAgain ==
    /\ Finished /\ unplaced # {} /\ attempts < max_attempts
    /\ Begin(week, "ask")
    /\ UNCHANGED <<inputs, tries, attempts, todo, result, rows>>

\* uq_task_key
Collide == \E t, u \in tasks : t # u /\ _align(t) = _align(u)

\* LLMValidationExhausted fails the plan and the job, and so does an IntegrityError.
GiveUp ==
    /\ Finished
    /\ IF unplaced # {} THEN attempts = max_attempts ELSE Collide
    /\ Begin(week, "over")
    /\ UNCHANGED <<inputs, tries, attempts, todo, result, rows>>

\* _store: replace_tree, then update_fields.  Two rows of one key fail the plan.
StoreTree ==
    /\ Finished /\ unplaced = {} /\ ~Collide
    /\ tree' = tasks
    /\ Begin(week, "store")
    /\ UNCHANGED <<inputs, tries, attempts, todo, result, baseline>>

StorePlan ==
    /\ step = "store"
    /\ baseline' = tasks
    /\ Begin(week, "return")
    /\ UNCHANGED <<inputs, tries, attempts, todo, result, tree>>

Return ==
    /\ step = "return"
    /\ Begin(week, "over")
    /\ UNCHANGED <<inputs, tries, attempts, todo, result, rows>>

\* The worker stops: the job is delivered again, or given up.
Crash ==
    /\ step \in {"ask", "store", "return"}
    /\ todo' = {}
    /\ Begin(week, IF tries < MaxTries THEN "deliver" ELSE "over")
    /\ UNCHANGED <<inputs, tries, attempts, result, rows>>

Place == PlaceAllDay \/ PlaceTimed \/ LeaveUnplaced
Schedule == BeginWeek \/ Place \/ EndWeek
Job == Deliver \/ AskModel \/ Schedule \/ AskAgain \/ GiveUp \/ StoreTree \/ StorePlan \/ Return

Next == Job \/ Crash

Spec == Init /\ [][Next]_vars

-----------------------------------------------------------------------------
(***************************************************************************)
(* Properties.                                                             *)
(***************************************************************************)
Occurrences == UNION {Planned(w) : w \in 0..template.duration_weeks}

ScheduledTasks(S) ==
    \A t \in S :
        /\ DOMAIN t = {"spec", "key", "week_index", "occurrence", "start_at", "end_at", "all_day"}
        /\ t.start_at \in Nat /\ t.end_at \in Nat /\ t.start_at < t.end_at
        /\ t.all_day \in BOOLEAN

\* The job counts within its bounds; what it places are tasks that take some time.
TypeOK ==
    /\ template \in Answers /\ events \in Uploads \cup {<<>>}
    /\ stored_quota \in Quotas \cup {{}}
    /\ step \in {"deliver", "ask", "week", "place", "store", "return", "over"}
    /\ tries \in 0..MaxTries /\ attempts \in 0..max_attempts
    /\ week \in 0..template.duration_weeks
    /\ todo \subseteq Occurrences
    /\ \A S \in {tasks, tree, baseline} : ScheduledTasks(S)

\* Two tasks of a day keep the minimal gap from each other, and a task keeps it from
\* every commitment in the user's calendar, whatever else was placed in between
\* (scheduler._place, _first_fit).
Apart(r, s) == r[2] + min_gap_minutes <= s[1] \/ s[2] + min_gap_minutes <= r[1]

KeepsItsDistance ==
    \A t \in Timed(tasks) :
        /\ \A u \in Timed(tasks) : t # u => Apart(Taken(t), Taken(u))
        /\ \A r \in _busy_blocks : Apart(Taken(t), r)

Planted(S) == {t \in S : t.spec # 0}

\* A task stays in its week, on a day no earlier than the one it aims for and no more
\* than max_shift_days later (scheduler._place).
StaysInItsWeek ==
    \A t \in Planted(tasks) :
        LET day == t.start_at \div Day
            aim == TargetDay(t.week_index, t.spec, t.occurrence)
        IN  /\ day \in WeekStart(t.week_index)..WeekEnd(t.week_index)
            /\ day \in aim..(aim + max_shift_days)
            /\ t.all_day => day = aim

\* A timed task lies inside a window of its slot.
Inside(t, window) ==
    /\ window[1] <= t.start_at % Day
    /\ t.end_at - Day * (t.start_at \div Day) <= window[2]

WindowsOf(k) == UNION {Windows(SlotsOf(k)[n]) : n \in DOMAIN SlotsOf(k)}

InsideItsWindow ==
    \A t \in Timed(tasks) : \E window \in WindowsOf(t.spec) : Inside(t, window)

\* It overruns its window only from the start of one that could never hold it: a task
\* that is short enough is never pushed into the hours after the window.
OverrunsOnlyIfLonger ==
    \A t \in Timed(tasks) : \E window \in WindowsOf(t.spec) :
        \/ Inside(t, window)
        \/ window[1] = t.start_at % Day /\ window[2] - window[1] < Length(t)

\* Where the job stands says what is left of the week, and whether it may ask again.
JobFits ==
    /\ IF step = "place" THEN week < template.duration_weeks /\ todo \subseteq Planned(week)
                         ELSE todo = {}
    /\ step = "ask" => attempts < max_attempts
    /\ IsFiniteSet(Timed(tasks))

\* The stored rows, and the baseline, have no key twice (uq_task_key).
DistinctKeys(S) == \A t, u \in S : _align(t) = _align(u) => t = u

RowsFit ==
    /\ DistinctKeys(tree) /\ DistinctKeys(baseline)
    /\ step = "store" => tree = tasks

\* What is placed is well-formed and well placed, whatever is stored has one row for
\* each key, and so it stays: this is what the theorems of QuarterProofs rest on.
PlacedWell ==
    /\ TypeOK /\ JobFits /\ RowsFit
    /\ KeepsItsDistance /\ StaysInItsWeek /\ OverrunsOnlyIfLonger

\* The weeks that have been planned stay inside the quota, and the cut is no deeper
\* than needed: the last thing dropped would not have fit, and nothing was dropped
\* while something that goes before it in the cut order was kept (_apply_quota).
Dropped(w) == {x \in Planned(w) : <<w, x>> \in trimmed}
PlannedWeeks == 0..(IF step = "place" THEN week ELSE week - 1)

QuotaIsKept ==
    \A w \in PlannedWeeks :
        LET kept == Planned(w) \ Dropped(w) IN
        /\ Cost(kept) <= quota.weekly_minutes
        /\ Dropped(w) # {} =>
              \E last \in Dropped(w) :
                 /\ Cost(kept) + _cost(last) > quota.weekly_minutes
                 /\ \A x \in Planned(w) \ {last} :
                       _cost(x) > 0 => (x \in Dropped(w) <=> CutBefore(x, last))

\* Every occurrence of a template ends up in exactly one place: on the schedule, among
\* the trimmed, or -- by its key -- among the unplaced (ScheduleResult).
OnSchedule(w, x) ==
    \E t \in tasks : t.week_index = w /\ t.spec = x[1] /\ t.occurrence = x[2]

NothingIsLost ==
    \A w \in PlannedWeeks : \A x \in Planned(w) :
        \/ step = "place" /\ w = week /\ x \in todo
        \/ OnSchedule(w, x) /\ x \notin Dropped(w)
        \/ ~OnSchedule(w, x) /\ x \in Dropped(w)
        \/ ~OnSchedule(w, x) /\ x \notin Dropped(w) /\ x[1] \in unplaced

QuotaInv == step \in {"week", "place", "store"} => QuotaIsKept /\ NothingIsLost

=============================================================================
