--------------------------- MODULE QuarterProofs ----------------------------
(***************************************************************************)
(* Theorems about Quarter and the Scheduling, Comparison and Measuring it  *)
(* is composed of, for every set of answers and uploads the schemas allow, *)
(* every quota, and any number of attempts and deliveries.                 *)
(*                                                                         *)
(* Where an induction is called for, the least counterexample is taken.    *)
(***************************************************************************)
EXTENDS Quarter, TLAPS, FiniteSetTheorems, WellFoundedInduction

-----------------------------------------------------------------------------
(* The least and the greatest number of a set *)

LEMMA Below == ASSUME NEW m \in Nat, NEW n \in Nat, m < n PROVE <<m, n>> \in OpToRel(<, Nat)
  BY SMT DEF OpToRel

\* A set of natural numbers has a least one.
LEMMA LeastNatural ==
  ASSUME NEW S \in SUBSET Nat, S # {}
  PROVE  \E n \in S : \A m \in S : n <= m
<1>1. PICK n \in S : \A m \in S : <<m, n>> \notin OpToRel(<, Nat)
  BY Zenon, NatLessThanWellFounded, WFMin
<1>2. ASSUME NEW m \in S PROVE n <= m
  <2>1. ~(m < n)
    BY Zenon, <1>1, Below
  <2>2. QED
    BY <2>1
<1>3. QED
  BY <1>2

\* So has a set of integers that is bounded from below, and it is Min's.
LEMMA LeastInteger ==
  ASSUME NEW S \in SUBSET Int, S # {}, NEW low \in Int, \A m \in S : low <= m
  PROVE  Min(S) \in S /\ \A m \in S : Min(S) <= m
<1> DEFINE Shifted == {m - low : m \in S}
<1>1. Shifted \in SUBSET Nat /\ Shifted # {}
  <2>1. \A m \in S : m - low \in Nat
    <3>1. \A m \in S : m \in Int /\ low <= m
      OBVIOUS
    <3>2. \A m \in Int : low <= m => m - low \in Nat
      OBVIOUS
    <3>3. QED
      BY <3>1, <3>2
  <2>2. QED
    BY <2>1
<1>2. PICK k \in Shifted : \A j \in Shifted : k <= j
  <2> HIDE DEF Shifted
  <2>1. QED
    BY <1>1, LeastNatural
<1>3. PICK n \in S : k = n - low
  BY <1>2
<1>4. ASSUME NEW m \in S PROVE n <= m
  <2>1. m - low \in Shifted /\ m \in Int /\ n \in Int
    BY <1>3
  <2>2. n - low <= m - low
    BY <2>1, <1>2, <1>3
  <2> HIDE DEF Shifted
  <2>3. QED
    BY <2>1, <2>2
<1>5. QED
  BY <1>4 DEF Min

\* A finite set of integers has a greatest element: take a smallest set without one.
LEMMA GreatestExists ==
  ASSUME NEW S \in SUBSET Int, IsFiniteSet(S), S # {}
  PROVE  \E n \in S : \A m \in S : m <= n
<1> DEFINE Bad(T) == T \subseteq Int /\ IsFiniteSet(T) /\ T # {} /\ \A n \in T : \E m \in T : ~(m <= n)
           Sizes == {c \in Nat : \E T : Bad(T) /\ Cardinality(T) = c}
<1>1. SUFFICES ASSUME Bad(S) PROVE FALSE
  BY Zenon
<1>2. Cardinality(S) \in Sizes
  BY <1>1, FS_CardinalityType
<1>3. PICK c \in Sizes : \A d \in Sizes : c <= d
  <2>1. Sizes \in SUBSET Nat /\ Sizes # {}
    BY <1>2
  <2> HIDE DEF Sizes
  <2>2. QED
    BY <2>1, LeastNatural
<1>4. PICK T : Bad(T) /\ Cardinality(T) = c
  BY <1>3
<1>5. PICK x \in T : TRUE
  BY <1>4
<1>6. /\ IsFiniteSet(T \ {x}) /\ Cardinality(T \ {x}) = Cardinality(T) - 1
      /\ Cardinality(T) \in Nat
  BY <1>4, <1>5, FS_RemoveElement, FS_CardinalityType
<1>7. ~Bad(T \ {x})
  <2>1. SUFFICES ASSUME Bad(T \ {x}) PROVE FALSE
    OBVIOUS
  <2>2. Cardinality(T \ {x}) \in Sizes
    BY <2>1, FS_CardinalityType
  <2>3. c <= Cardinality(T \ {x})
    BY Zenon, <2>2, <1>3
  <2>4. QED
    BY <2>3, <1>6, <1>4
<1>8. x \in Int /\ T \subseteq Int
  BY <1>4, <1>5
<1>9. CASE T = {x}
  BY <1>9, <1>4, <1>8
<1>10. CASE T # {x}
  <2>1. PICK y \in T \ {x} : \A m \in T \ {x} : m <= y
    BY <1>4, <1>6, <1>7, <1>10
  <2>2. CASE x <= y
    BY <2>1, <2>2, <1>4
  <2>3. CASE ~(x <= y)
    <3>1. \A m \in T : m <= x
      BY <2>1, <2>3, <1>8
    <3>2. QED
      BY <3>1, <1>4, <1>5
  <2>4. QED
    BY <2>2, <2>3
<1>11. QED
  BY <1>9, <1>10

\* A finite set of integers has a number n for every n below its size.
LEMMA NumberedIsThere ==
  ASSUME NEW S \in SUBSET Int, IsFiniteSet(S), NEW low \in Int, \A d \in S : low <= d,
         NEW n \in Nat, n < Cardinality(S)
  PROVE  Numbered(S, n) \in S
<1> DEFINE Before(day) == {d \in S : d < day}
           Missing == {i \in Nat : i < Cardinality(S) /\ \A day \in S : Cardinality(Before(day)) # i}
<1>1. SUFFICES Missing = {}
  BY <1>1 DEF Numbered
<1>2. SUFFICES ASSUME Missing # {} PROVE FALSE
  OBVIOUS
<1>3. PICK i \in Missing : \A j \in Missing : i <= j
  <2>1. Missing \in SUBSET Nat
    OBVIOUS
  <2> HIDE DEF Missing
  <2>2. QED
    BY <2>1, <1>2, LeastNatural
<1>4. Cardinality(S) \in Nat /\ i \in Nat /\ i < Cardinality(S)
  BY <1>3, FS_CardinalityType
\* The days that come after number i - 1, the first of which is number i.
<1>5. PICK R \in SUBSET S : /\ R # {} /\ Cardinality(S \ R) = i
                            /\ \A d \in S \ R : \A e \in R : d < e
  <2>1. CASE i = 0
    <3>1. S # {}
      BY <1>4, <2>1, FS_EmptySet
    <3>2. Cardinality(S \ S) = 0
      BY FS_EmptySet
    <3>3. QED
      BY <3>1, <3>2, <2>1
  <2>2. CASE i # 0
    <3>1. i - 1 \in Nat /\ i - 1 < Cardinality(S) /\ ~(i <= i - 1)
      BY <1>4, <2>2
    <3>2. i - 1 \notin Missing
      BY Zenon, <3>1, <1>3
    <3>3. PICK p \in S : Cardinality(Before(p)) = i - 1
      BY <3>1, <3>2
    <3> DEFINE Later == {e \in S : p < e}
    <3>4. S \ Later = Before(p) \cup {p} /\ p \notin Before(p)
      <4>1. \A e \in S : e \in Int
        OBVIOUS
      <4>2. p \in Int /\ ~(p < p)
        BY <4>1
      <4>3. \A e \in S : ~(p < e) <=> e < p \/ e = p
        BY <4>1, <4>2
      <4>4. QED
        BY Zenon, <4>2, <4>3
    <3>5. IsFiniteSet(Before(p))
      BY FS_Subset
    <3>6. Cardinality(S \ Later) = i
      <4>1. Cardinality(Before(p) \cup {p}) = (i - 1) + 1
        BY Zenon, <3>3, <3>4, <3>5, FS_AddElement
      <4>2. Cardinality(S \ Later) = (i - 1) + 1
        BY Zenon, <3>4, <4>1
      <4>3. QED
        BY <4>2, <1>4
    <3>7. Later # {}
      <4>1. SUFFICES ASSUME Later = {} PROVE FALSE
        OBVIOUS
      <4>2. S \ Later = S
        BY <4>1
      <4>3. QED
        BY <4>2, <3>6, <1>4
    <3>8. \A d \in S \ Later : \A e \in Later : d < e
      BY <3>3
    <3>9. QED
      BY <3>6, <3>7, <3>8
  <2>3. QED
    BY <2>1, <2>2
<1>6. PICK day \in R : \A e \in R : day <= e
  <2>1. R \subseteq Int /\ \A d \in R : low <= d
    OBVIOUS
  <2>2. QED
    BY <1>5, <2>1, LeastInteger
<1>7. Before(day) = S \ R
  <2>1. \A e \in S : e \in Int
    OBVIOUS
  <2>2. \A e \in R : ~(e < day)
    BY <1>6, <2>1
  <2>3. \A e \in S \ R : e < day
    BY <1>5
  <2>4. QED
    BY Zenon, <2>2, <2>3
<1>8. QED
  BY <1>3, <1>5, <1>6, <1>7

-----------------------------------------------------------------------------
(* The day an occurrence aims for *)

\* What is known of the fields of an answer.
LEMMA SpecFields ==
  ASSUME template \in Answers, NEW k \in Keys(template)
  PROVE  /\ k \in Nat \ {0}
         /\ template.tasks[k].duration_minutes \in Nat \ {0}
         /\ template.tasks[k].times_per_week \in Nat \ {0}
         /\ template.tasks[k].day_hint \in
              {"mon", "tue", "wed", "thu", "fri", "sat", "sun", "any", "weekend", "weekday"}
         /\ template.tasks[k].slot_hint \in {"morning", "noon", "evening", "any"}
  BY InputsAssumption DEF Keys

\* Every hint allows some weekday.
LEMMA HintAllowsADay ==
  ASSUME NEW hint \in {"mon", "tue", "wed", "thu", "fri", "sat", "sun", "any", "weekend", "weekday"}
  PROVE  \E weekday \in 0..6 : weekday \in _DAY_HINT_WEEKDAYS[hint]
<1>1. /\ _DAY_HINT_WEEKDAYS["mon"] = {0} /\ _DAY_HINT_WEEKDAYS["tue"] = {1}
      /\ _DAY_HINT_WEEKDAYS["wed"] = {2} /\ _DAY_HINT_WEEKDAYS["thu"] = {3}
      /\ _DAY_HINT_WEEKDAYS["fri"] = {4} /\ _DAY_HINT_WEEKDAYS["sat"] = {5}
      /\ _DAY_HINT_WEEKDAYS["sun"] = {6} /\ _DAY_HINT_WEEKDAYS["weekday"] = 0..4
      /\ _DAY_HINT_WEEKDAYS["weekend"] = {5, 6} /\ _DAY_HINT_WEEKDAYS["any"] = 0..6
  BY DEF _DAY_HINT_WEEKDAYS, Weekdays
<1>2. QED
  BY <1>1

\* Every week has each weekday once.
LEMMA WeekHasADay ==
  ASSUME NEW w \in Nat, NEW weekday \in 0..6
  PROVE  \E day \in WeekStart(w)..WeekEnd(w) : WeekdayOf(day) = weekday
<1>1. StartsOn \in 0..6
  BY SchedulingConstants DEF StartsOn, Weekdays
<1>2. PICK off \in 0..6 : (StartsOn + off) % 7 = weekday
  <2>1. CASE StartsOn <= weekday
    <3>1. weekday - StartsOn \in 0..6 /\ (StartsOn + (weekday - StartsOn)) % 7 = weekday
      BY <1>1, <2>1
    <3>2. QED
      BY <3>1
  <2>2. CASE ~(StartsOn <= weekday)
    <3>1. 7 + weekday - StartsOn \in 0..6 /\ (StartsOn + (7 + weekday - StartsOn)) % 7 = weekday
      BY <1>1, <2>2
    <3>2. QED
      BY <3>1
  <2>3. QED
    BY <2>1, <2>2
<1>3. (StartsOn + (7 * w + off)) % 7 = (StartsOn + off) % 7
  BY <1>1
<1>4. 7 * w + off \in WeekStart(w)..WeekEnd(w)
  BY DEF WeekStart, WeekEnd
<1>5. QED
  BY <1>2, <1>3, <1>4 DEF WeekdayOf

LEMMA CandidateDays ==
  ASSUME template \in Answers, NEW k \in Keys(template), NEW w \in Nat,
         NEW days, days = _candidate_days(w, template.tasks[k].day_hint)
  PROVE  /\ days \subseteq WeekStart(w)..WeekEnd(w) /\ days \subseteq Int
         /\ IsFiniteSet(days) /\ Cardinality(days) \in Nat \ {0}
<1>1. days \subseteq WeekStart(w)..WeekEnd(w)
  BY DEF _candidate_days
<1>2. WeekStart(w) \in Int /\ WeekEnd(w) \in Int
  BY DEF WeekStart, WeekEnd
<1>3. IsFiniteSet(days)
  BY <1>1, <1>2, FS_Interval, FS_Subset
<1>4. days # {}
  <2>1. PICK weekday \in 0..6 : weekday \in _DAY_HINT_WEEKDAYS[template.tasks[k].day_hint]
    BY SpecFields, HintAllowsADay
  <2>2. PICK day \in WeekStart(w)..WeekEnd(w) : WeekdayOf(day) = weekday
    BY WeekHasADay
  <2>3. QED
    BY <2>1, <2>2 DEF _candidate_days
<1>5. Cardinality(days) \in Nat /\ Cardinality(days) # 0
  BY <1>3, <1>4, FS_CardinalityType, FS_EmptySet
<1>6. QED
  BY <1>1, <1>2, <1>3, <1>5

\* Python's round of a quotient is a natural number.
LEMMA RoundIsNatural ==
  ASSUME NEW n \in Nat, NEW d \in Nat \ {0}
  PROVE  Round(n, d) \in Nat
<1>1. n \div d \in Nat
  BY SMT
<1>2. QED
  BY <1>1 DEF Round

LEMMA LeastOfTwo ==
  ASSUME NEW a \in Nat, NEW b \in Nat
  PROVE  Min({a, b}) \in Nat /\ Min({a, b}) <= b
<1>1. PICK S : S = {a, b}
  OBVIOUS
<1>2. S \in SUBSET Int /\ S # {} /\ 0 \in Int /\ \A m \in S : 0 <= m
  BY <1>1
<1>3. Min(S) \in S /\ \A m \in S : Min(S) <= m
  BY <1>2, LeastInteger
<1>4. QED
  BY <1>1, <1>3

\* An occurrence aims for a day of its week (_target_days).
LEMMA TargetDayInWeek ==
  ASSUME template \in Answers, NEW k \in Keys(template), NEW w \in Nat, NEW n \in Nat
  PROVE  /\ TargetDay(w, k, n) \in Nat
         /\ TargetDay(w, k, n) \in WeekStart(w)..WeekEnd(w)
<1>1. PICK days : days = _candidate_days(w, template.tasks[k].day_hint)
  OBVIOUS
<1>2. /\ days \subseteq WeekStart(w)..WeekEnd(w) /\ days \subseteq Int
      /\ IsFiniteSet(days) /\ Cardinality(days) \in Nat \ {0}
  BY <1>1, CandidateDays
<1>3. PICK times : times = template.tasks[k].times_per_week
  OBVIOUS
<1>4. times \in Nat \ {0}
  BY <1>3, SpecFields
<1>5. PICK last : last = Cardinality(days) - 1
  OBVIOUS
<1>6. last \in Nat
  BY <1>2, <1>5
<1>7. PICK i \in Nat : i <= last /\ TargetDay(w, k, n) = Numbered(days, i)
  <2>1. CASE times = 1
    BY <2>1, <1>1, <1>3, <1>6 DEF TargetDay
  <2>2. CASE times # 1
    <3>1. n * last \in Nat /\ times - 1 \in Nat \ {0}
      BY <1>4, <1>6, <2>2
    <3>2. Round(n * last, times - 1) \in Nat
      BY <3>1, RoundIsNatural
    <3>3. /\ Min({Round(n * last, times - 1), last}) \in Nat
          /\ Min({Round(n * last, times - 1), last}) <= last
      BY <3>2, <1>6, LeastOfTwo
    <3>4. TargetDay(w, k, n) = Numbered(days, Min({Round(n * last, times - 1), last}))
      BY <2>2, <1>1, <1>3, <1>5 DEF TargetDay
    <3>5. QED
      BY <3>3, <3>4
  <2>3. QED
    BY <2>1, <2>2
<1>8. /\ WeekStart(w) \in Nat /\ WeekEnd(w) \in Nat
      /\ \A d \in days : WeekStart(w) <= d
  BY <1>2 DEF WeekStart, WeekEnd
<1>9. i < Cardinality(days) /\ WeekStart(w) \in Int
  BY <1>2, <1>5, <1>6, <1>7, <1>8
<1>10. Numbered(days, i) \in days
  BY <1>2, <1>8, <1>9, NumberedIsThere
<1>11. \A d \in WeekStart(w)..WeekEnd(w) : d \in Nat
  BY <1>8
<1>12. QED
  BY Zenon, <1>2, <1>7, <1>10, <1>11

-----------------------------------------------------------------------------
(* The first place that fits *)

\* The image of a finite set is finite.
LEMMA FiniteImage ==
  ASSUME NEW S, IsFiniteSet(S), NEW f, NEW T, DOMAIN f = S, T = {f[x] : x \in S}
  PROVE  IsFiniteSet(T)
<1>1. PICK g \in [S -> T] : \A x \in S : g[x] = f[x]
  <2>1. [x \in S |-> f[x]] \in [S -> T]
    OBVIOUS
  <2>2. QED
    BY <2>1
<1>2. \A y \in T : \E x \in S : g[x] = y
  BY <1>1
<1>3. g \in Surjection(S, T)
  BY <1>2 DEF Surjection
<1>4. QED
  BY Zenon, <1>3, FS_Surjection

\* What is taken are ranges of integers, and finitely many of them.
LEMMA TakenRanges ==
  ASSUME TypeOK, IsFiniteSet(Timed(tasks))
  PROVE  /\ \A r \in _busy_blocks : r[1] \in Int /\ r[2] \in Int
         /\ \A t \in Timed(tasks) : t \in tasks /\ Taken(t)[1] \in Nat /\ Taken(t)[2] \in Nat
         /\ \A block \in Blocked : block[1] \in Int /\ block[2] \in Int
         /\ IsFiniteSet({block[2] : block \in Blocked})
<1>1. /\ IsFiniteSet(DOMAIN events)
      /\ \A n \in DOMAIN events : events[n].start_at \in Int /\ events[n].end_at \in Int
  <2>1. events \in Uploads \cup {<<>>}
    BY DEF TypeOK
  <2>2. CASE events \in Uploads
    BY <2>2, InputsAssumption
  <2>3. CASE events = <<>>
    <3>1. DOMAIN events = {}
      BY <2>3
    <3>2. QED
      BY <3>1, FS_EmptySet
  <2>4. QED
    BY <2>1, <2>2, <2>3
<1>2. \A r \in _busy_blocks : \E n \in DOMAIN events : r = <<events[n].start_at, events[n].end_at>>
  BY DEF _busy_blocks, ToSet
<1>3. \A t \in Timed(tasks) : t \in tasks /\ t.start_at \in Nat /\ t.end_at \in Nat
  BY DEF TypeOK, ScheduledTasks, Timed
<1>4. \A block \in Blocked : \/ \E n \in DOMAIN events :
                                   block = <<events[n].start_at - 30, events[n].end_at + 30>>
                             \/ \E t \in Timed(tasks) :
                                   block = <<t.start_at - 30, t.end_at + 30>>
  BY <1>2 DEF Blocked, occupied, min_gap_minutes, Taken
<1> DEFINE OfEvents == {[i \in DOMAIN events |-> events[i].end_at + 30][n] : n \in DOMAIN events}
           OfTasks  == {[u \in Timed(tasks) |-> u.end_at + 30][t] : t \in Timed(tasks)}
<1>5. IsFiniteSet(OfEvents)
  <2>1. PICK f : f = [n \in DOMAIN events |-> events[n].end_at + 30]
    OBVIOUS
  <2>2. DOMAIN f = DOMAIN events /\ OfEvents = {f[n] : n \in DOMAIN events}
    BY <2>1
  <2>3. QED
    BY <1>1, <2>2, FiniteImage
<1>6. IsFiniteSet(OfTasks)
  <2>1. PICK f : f = [t \in Timed(tasks) |-> t.end_at + 30]
    OBVIOUS
  <2>2. DOMAIN f = Timed(tasks) /\ OfTasks = {f[t] : t \in Timed(tasks)}
    BY <2>1
  <2>3. QED
    BY <2>2, FiniteImage
<1>7. IsFiniteSet({block[2] : block \in Blocked})
  <2>1. \A block \in Blocked : block[2] \in OfEvents \cup OfTasks
    BY <1>4
  <2>2. IsFiniteSet(OfEvents \cup OfTasks)
    <3> HIDE DEF OfEvents, OfTasks
    <3>1. QED
      BY <1>5, <1>6, FS_Union
  <2>3. {block[2] : block \in Blocked} \subseteq OfEvents \cup OfTasks
    BY Zenon, <2>1
  <2> HIDE DEF OfEvents, OfTasks
  <2>4. QED
    BY Zenon, <2>2, <2>3, FS_Subset
<1>8. QED
  BY <1>1, <1>2, <1>3, <1>4, <1>7 DEF Taken

\* The instant _first_fit stops at is one from which `duration` minutes are free.
LEMMA FirstFreeIsFree ==
  ASSUME TypeOK, IsFiniteSet(Timed(tasks)), NEW start \in Int, NEW duration \in Nat
  PROVE  /\ FirstFree(start, duration) \in Int
         /\ start <= FirstFree(start, duration)
         /\ IsFree(FirstFree(start, duration), duration)
<1> DEFINE Ends == {start} \cup {block[2] : block \in Blocked}
           Free == {cursor \in Ends : cursor >= start /\ IsFree(cursor, duration)}
<1>1. Ends \subseteq Int /\ start \in Ends
  BY TakenRanges
<1>2. IsFiniteSet(Ends)
  BY TakenRanges, FS_AddElement, FS_Singleton, FS_Union
<1>3. PICK n \in Ends : \A m \in Ends : m <= n
  <2> HIDE DEF Ends
  <2>1. QED
    BY <1>1, <1>2, GreatestExists
<1>4. IsFree(n, duration)
  <2>1. \A block \in Blocked : block[2] <= n
    BY <1>3
  <2>2. QED
    BY <2>1 DEF IsFree
<1>5. n \in Free /\ n \in Int
  BY <1>1, <1>3, <1>4
<1>6. Min(Free) \in Free
  <2>1. Free \in SUBSET Int /\ Free # {} /\ \A m \in Free : start <= m
    BY <1>1, <1>5
  <2> HIDE DEF Free
  <2>2. QED
    BY <2>1, LeastInteger
<1>7. FirstFree(start, duration) = Min(Free)
  BY DEF FirstFree
<1>8. QED
  BY <1>1, <1>6, <1>7

-----------------------------------------------------------------------------
(* The place of an occurrence *)

LEMMA WindowsOfADay ==
  ASSUME NEW slot, NEW window \in Windows(slot)
  PROVE  /\ window[1] \in Nat /\ window[2] \in Nat
         /\ window[1] < window[2] /\ window[2] < 1440
<1>1. window \in {<<420, 540>>, <<720, 780>>, <<1140, 1320>>}
  BY DEF Windows
<1>2. QED
  BY <1>1

\* _first_fit stops inside the window, or at the start of one that is too short.
LEMMA FirstFitPlaces ==
  ASSUME TypeOK, IsFiniteSet(Timed(tasks)), NEW day \in Nat, NEW slot,
         NEW window \in Windows(slot), NEW duration \in Nat \ {0},
         NEW from, from = 1440 * day + window[1], NEW to, to = 1440 * day + window[2],
         NEW start \in _first_fit(<<from, to>>, duration)
  PROVE  /\ start \in Nat /\ start \div 1440 = day
         /\ IsFree(start, duration)
         /\ \/ window[1] <= start % 1440 /\ start + duration - 1440 * day <= window[2]
            \/ window[1] = start % 1440 /\ window[2] - window[1] < duration
<1>1. from \in Nat /\ to \in Nat
  BY WindowsOfADay
<1>2. PICK whole : whole = <<from, to>>
  OBVIOUS
<1>3. /\ start = FirstFree(from, duration)
      /\ start + duration <= to \/ start = from
  BY <1>2 DEF _first_fit
<1>4. start \in Int /\ from <= start /\ IsFree(start, duration)
  BY <1>3, FirstFreeIsFree
<1>5. start < 1440 * day + 1440
  BY <1>1, <1>2, <1>3, <1>4, WindowsOfADay
<1>6. PICK off \in 0..1439 : start = 1440 * day + off
  <2>1. start - 1440 * day \in 0..1439
    BY <1>1, <1>4, <1>5, WindowsOfADay
  <2>2. QED
    BY <2>1, <1>4
<1>7. start \div 1440 = day /\ start % 1440 = off
  BY <1>6
<1>8. QED
  BY <1>1, <1>2, <1>3, <1>4, <1>6, <1>7, WindowsOfADay

\* An attempt is made in one of the slots of the task, on one of four days.
LEMMA AttemptFields ==
  ASSUME template \in Answers, NEW k \in Keys(template), NEW w \in Nat, NEW number \in Nat,
         NEW x, x = <<k, number>>, NEW n \in Attempts(w, x)
  PROVE  /\ n \in Nat
         /\ Attempt(w, x, n).day \in Nat
         /\ Attempt(w, x, n).day \in TargetDay(w, k, number)..(TargetDay(w, k, number) + 3)
         /\ Attempt(w, x, n).day <= WeekEnd(w)
         /\ \E i \in DOMAIN SlotsOf(k) : Attempt(w, x, n).slot = SlotsOf(k)[i]
<1>1. PICK slots : slots = SlotsOf(k)
  OBVIOUS
<1>2. /\ Len(slots) \in {1, 4}
      /\ DOMAIN slots = 1..Len(slots)
  <2>1. CASE template.tasks[k].slot_hint = "any"
    <3>1. slots = <<"morning", "evening", "noon", "any">>
      BY <1>1, <2>1 DEF SlotsOf, slot_order
    <3>2. QED
      BY <3>1
  <2>2. CASE template.tasks[k].slot_hint # "any"
    <3>1. PICK hint : slots = <<hint>>
      BY <1>1, <2>2 DEF SlotsOf
    <3>2. QED
      BY <3>1
  <2>3. QED
    BY <2>1, <2>2
<1>3. /\ n \in 1..(4 * Len(slots))
      /\ Attempt(w, x, n).day <= WeekEnd(w)
      /\ Attempt(w, x, n).day = TargetDay(w, k, number) + ((n - 1) \div Len(slots))
      /\ Attempt(w, x, n).slot = slots[1 + ((n - 1) % Len(slots))]
  BY <1>1 DEF Attempts, Attempt, max_shift_days
<1>4. (n - 1) \div Len(slots) \in 0..3 /\ 1 + ((n - 1) % Len(slots)) \in 1..Len(slots)
  <2>1. CASE Len(slots) = 1
    BY <2>1, <1>3
  <2>2. CASE Len(slots) = 4
    BY <2>2, <1>3
  <2>3. QED
    BY <1>2, <2>1, <2>2
<1>5. n \in Nat
  BY <1>2, <1>3
<1>6. TargetDay(w, k, number) \in Nat
  BY TargetDayInWeek
<1>7. QED
  BY <1>1, <1>2, <1>3, <1>4, <1>5, <1>6

LEMMA PlaceFits ==
  ASSUME TypeOK, IsFiniteSet(Timed(tasks)), NEW k \in Keys(template), NEW w \in Nat,
         NEW number \in Nat, NEW x, x = <<k, number>>, NEW start \in _place(w, x),
         NEW duration, duration = template.tasks[k].duration_minutes
  PROVE  /\ start \in Nat /\ IsFree(start, duration)
         /\ start \div Day \in TargetDay(w, k, number)..(TargetDay(w, k, number) + max_shift_days)
         /\ start \div Day \in WeekStart(w)..WeekEnd(w)
         /\ \E window \in WindowsOf(k) :
               \/ /\ window[1] <= start % Day
                  /\ start + duration - Day * (start \div Day) <= window[2]
               \/ window[1] = start % Day /\ window[2] - window[1] < duration
<1> DEFINE fitting == {n \in Attempts(w, x) : StartsAt(w, x, n) # {}}
<1>1. template \in Answers /\ duration \in Nat \ {0}
  BY SpecFields DEF TypeOK
<1>2. fitting # {} /\ start \in StartsAt(w, x, Min(fitting))
  BY DEF _place
<1>3. Min(fitting) \in Attempts(w, x)
  <2>1. \A n \in fitting : n \in Nat /\ 0 <= n
    BY <1>1, AttemptFields
  <2>2. fitting \in SUBSET Int
    BY <2>1
  <2>3. Min(fitting) \in fitting
    <3> HIDE DEF fitting
    <3>1. 0 \in Int /\ \A n \in fitting : 0 <= n
      BY <2>1
    <3>2. QED
      BY <1>2, <2>2, <3>1, LeastInteger
  <2>4. QED
    BY <2>3
<1>4. PICK tried : tried = Attempt(w, x, Min(fitting))
  OBVIOUS
<1>5. PICK day \in Nat : day = tried.day
  BY <1>1, <1>3, <1>4, AttemptFields
<1>6. /\ day \in TargetDay(w, k, number)..(TargetDay(w, k, number) + 3)
      /\ day <= WeekEnd(w)
      /\ \E i \in DOMAIN SlotsOf(k) : tried.slot = SlotsOf(k)[i]
  <2> HIDE DEF fitting
  <2>1. QED
    BY <1>1, <1>3, <1>4, <1>5, AttemptFields
<1>7. PICK window \in Windows(tried.slot), from \in Nat, to \in Nat :
         /\ from = 1440 * day + window[1] /\ to = 1440 * day + window[2]
         /\ start \in _first_fit(<<from, to>>, duration)
  <2> HIDE DEF fitting
  <2>1. x[1] = k
    OBVIOUS
  <2>2. StartsAt(w, x, Min(fitting)) =
           UNION {_first_fit(<<Day * day + window[1], Day * day + window[2]>>, duration)
                     : window \in Windows(tried.slot)}
    BY <2>1, <1>4, <1>5 DEF StartsAt
  <2>3. PICK window \in Windows(tried.slot) :
           start \in _first_fit(<<Day * day + window[1], Day * day + window[2]>>, duration)
    BY Zenon, <1>2, <2>2
  <2>4. PICK from, to : from = Day * day + window[1] /\ to = Day * day + window[2]
    OBVIOUS
  <2>5. from = 1440 * day + window[1] /\ to = 1440 * day + window[2]
    BY <2>4 DEF Day
  <2>6. from \in Nat /\ to \in Nat
    BY <2>5, WindowsOfADay
  <2>7. start \in _first_fit(<<from, to>>, duration)
    BY <2>3, <2>4
  <2>8. QED
    BY <2>5, <2>6, <2>7
<1>8. window \in WindowsOf(k)
  BY <1>6, <1>7 DEF WindowsOf
<1>9. /\ start \in Nat /\ start \div 1440 = day
      /\ IsFree(start, duration)
      /\ \/ window[1] <= start % 1440 /\ start + duration - 1440 * day <= window[2]
         \/ window[1] = start % 1440 /\ window[2] - window[1] < duration
  <2>1. window \in Windows(tried.slot)
    BY <1>7
  <2>2. QED
    BY <1>1, <1>7, <2>1, FirstFitPlaces
<1>10. TargetDay(w, k, number) \in WeekStart(w)..WeekEnd(w) /\ TargetDay(w, k, number) \in Nat
  BY <1>1, TargetDayInWeek
<1>11. day \in WeekStart(w)..WeekEnd(w)
  BY <1>6, <1>10 DEF WeekStart, WeekEnd
<1>12. Day = 1440 /\ max_shift_days = 3
  BY DEF Day, max_shift_days
<1>13. QED
  <2> HIDE DEF fitting
  <2>1. QED
    BY <1>6, <1>8, <1>9, <1>11, <1>12

-----------------------------------------------------------------------------
(* What an action leaves alone, and the occurrence it takes *)

\* What is planned are occurrences of the template's tasks.
LEMMA PlannedPairs ==
  ASSUME NEW w \in Nat, NEW x \in Planned(w)
  PROVE  /\ x = <<x[1], x[2]>> /\ x[1] \in Keys(template) /\ x[2] \in Nat
         /\ w <= template.tasks[x[1]].week_end
  BY DEF Planned, Weekdays

\* The next occurrence is one that is left.
LEMMA NextIsLeft ==
  ASSUME TypeOK, step = "place", JobFits, todo # {}
  PROVE  /\ Next1 \in todo /\ Next1 \in Planned(week)
         /\ Next1 = <<Next1[1], Next1[2]>> /\ Next1[1] \in Keys(template) /\ Next1[2] \in Nat
<1>1. todo \subseteq Planned(week) /\ week \in Nat /\ template \in Answers
  BY InputsAssumption DEF JobFits, TypeOK
<1>2. \A x \in todo : x[1] \in Nat /\ x[2] \in Nat
  <2>1. \A k \in Keys(template) : k \in Nat
    BY <1>1, SpecFields
  <2>2. QED
    BY <1>1, <2>1, PlannedPairs
<1>3. PICK k \in {x[1] : x \in todo} : \A j \in {x[1] : x \in todo} : k <= j
  <2> DEFINE Firsts == {x[1] : x \in todo}
  <2>1. Firsts \in SUBSET Nat /\ Firsts # {}
    BY <1>2
  <2> HIDE DEF Firsts
  <2>2. \E n \in Firsts : \A m \in Firsts : n <= m
    BY <2>1, LeastNatural
  <2>3. QED
    BY <2>2 DEF Firsts
<1> DEFINE Seconds == {x[2] : x \in {y \in todo : y[1] = k}}
<1>4. PICK n \in Seconds : \A m \in Seconds : n <= m
  <2>1. Seconds \in SUBSET Nat /\ Seconds # {}
    BY <1>2, <1>3
  <2> HIDE DEF Seconds
  <2>2. QED
    BY <2>1, LeastNatural
<1>5. PICK x \in todo : x[1] = k /\ x[2] = n
  BY <1>4
<1>6. \A y \in todo : x[1] < y[1] \/ (x[1] = y[1] /\ x[2] <= y[2])
  <2>1. TAKE y \in todo
  <2>2. k <= y[1] /\ k \in Nat /\ y[1] \in Nat
    BY <1>2, <1>3
  <2>3. y[1] = k => n <= y[2]
    BY <1>4
  <2>4. QED
    BY <1>5, <2>2, <2>3
<1>7. Next1 \in todo
  <2> HIDE DEF Seconds
  <2>1. QED
    BY Zenon, <1>6 DEF Next1
<1>8. QED
  BY <1>1, <1>7, PlannedPairs

Placing == KeepsItsDistance /\ StaysInItsWeek /\ OverrunsOnlyIfLonger

\* Where a task aims and the windows it has are read off the template.
LEMMA SameTemplate ==
  ASSUME template' = template
  PROVE  /\ \A w, k, n : TargetDay(w, k, n)' = TargetDay(w, k, n)
         /\ \A k : WindowsOf(k)' = WindowsOf(k)
         /\ \A w : Planned(w)' = Planned(w)
         /\ Occurrences' = Occurrences
<1>1. \A w, k, n : TargetDay(w, k, n)' = TargetDay(w, k, n)
  BY DEF TargetDay
<1>2. \A k : SlotsOf(k)' = SlotsOf(k)
  BY DEF SlotsOf
<1>3. \A k : WindowsOf(k)' = WindowsOf(k)
  BY <1>2 DEF WindowsOf
<1>4. \A w : Planned(w)' = Planned(w)
  BY DEF Planned, Keys
<1>5. Occurrences' = Occurrences
  BY <1>4 DEF Occurrences
<1>6. QED
  BY <1>1, <1>3, <1>4, <1>5

LEMMA SamePlaces ==
  ASSUME Placing, template' = template, events' = events, tasks' = tasks
  PROVE  Placing' /\ Timed(tasks)' = Timed(tasks)
<1>1. Timed(tasks)' = Timed(tasks) /\ Planted(tasks)' = Planted(tasks)
  BY DEF Timed, Planted
<1>2. _busy_blocks' = _busy_blocks
  BY DEF _busy_blocks
<1>3. KeepsItsDistance'
  BY <1>1, <1>2 DEF Placing, KeepsItsDistance, Taken, Apart
<1>4. StaysInItsWeek'
  BY <1>1, SameTemplate DEF Placing, StaysInItsWeek
<1>5. OverrunsOnlyIfLonger'
  BY <1>1, SameTemplate DEF Placing, OverrunsOnlyIfLonger, Inside, Length
<1>6. QED
  BY <1>1, <1>3, <1>4, <1>5 DEF Placing

LEMMA NoPlaces ==
  ASSUME tasks' = {}
  PROVE  Placing' /\ IsFiniteSet(Timed(tasks))'
<1>1. Timed(tasks)' = {} /\ Planted(tasks)' = {}
  BY DEF Timed, Planted
<1>2. QED
  BY <1>1, FS_EmptySet DEF Placing, KeepsItsDistance, StaysInItsWeek, OverrunsOnlyIfLonger

\* The tasks of a day that is free are set down without disturbing the timed ones.
LEMMA MoreAllDay ==
  ASSUME Placing, template' = template, events' = events, NEW S, tasks' = tasks \cup S,
         \A t \in S : t.all_day,
         \A t \in Planted(S) :
            /\ t.start_at \div Day = TargetDay(t.week_index, t.spec, t.occurrence)
            /\ TargetDay(t.week_index, t.spec, t.occurrence) \in Nat
            /\ TargetDay(t.week_index, t.spec, t.occurrence)
                  \in WeekStart(t.week_index)..WeekEnd(t.week_index)
  PROVE  Placing' /\ Timed(tasks)' = Timed(tasks)
<1>1. Timed(tasks)' = Timed(tasks)
  BY DEF Timed
<1>2. Planted(tasks)' = Planted(tasks) \cup Planted(S)
  BY DEF Planted
<1>3. _busy_blocks' = _busy_blocks
  BY DEF _busy_blocks
<1>4. KeepsItsDistance'
  BY <1>1, <1>3 DEF Placing, KeepsItsDistance, Taken, Apart
<1>5. StaysInItsWeek'
  <2>1. \A t \in Planted(S) :
           LET aim == TargetDay(t.week_index, t.spec, t.occurrence)
           IN  aim \in aim..(aim + max_shift_days)
    BY DEF max_shift_days
  <2>2. QED
    BY <1>2, <2>1, SameTemplate DEF Placing, StaysInItsWeek
<1>6. OverrunsOnlyIfLonger'
  BY <1>1, SameTemplate DEF Placing, OverrunsOnlyIfLonger, Inside, Length
<1>7. QED
  BY <1>1, <1>4, <1>5, <1>6 DEF Placing

\* What is free is apart from all that is taken.
LEMMA FreeIsApart ==
  ASSUME NEW start \in Nat, NEW duration \in Nat, IsFree(start, duration),
         NEW r \in occupied, r[1] \in Int, r[2] \in Int, NEW s, s = <<start, start + duration>>
  PROVE  Apart(s, r) /\ Apart(r, s)
<1>1. PICK block : block = <<r[1] - 30, r[2] + 30>>
  OBVIOUS
<1>2. block \in Blocked
  BY <1>1 DEF Blocked, min_gap_minutes
<1>3. block[2] <= start \/ block[1] - start >= duration
  BY <1>2 DEF IsFree
<1>4. QED
  BY <1>1, <1>3 DEF Apart, min_gap_minutes

\* So a timed task may be set down where _place says.
LEMMA OneMoreTimed ==
  ASSUME TypeOK, Placing, IsFiniteSet(Timed(tasks)),
         template' = template, events' = events,
         NEW t, tasks' = tasks \cup {t}, ~t.all_day,
         NEW k \in Keys(template), NEW w \in Nat, NEW number \in Nat,
         NEW x, x = <<k, number>>, NEW start \in _place(w, x),
         NEW duration, duration = template.tasks[k].duration_minutes,
         t.spec = k, t.week_index = w, t.occurrence = number,
         t.start_at = start, t.end_at = start + duration
  PROVE  Placing' /\ IsFiniteSet(Timed(tasks))'
<1>1. /\ start \in Nat /\ IsFree(start, duration)
      /\ start \div Day \in TargetDay(w, k, number)..(TargetDay(w, k, number) + max_shift_days)
      /\ start \div Day \in WeekStart(w)..WeekEnd(w)
      /\ \E window \in WindowsOf(k) :
            \/ /\ window[1] <= start % Day
               /\ start + duration - Day * (start \div Day) <= window[2]
            \/ window[1] = start % Day /\ window[2] - window[1] < duration
  <2>1. w \in Nat
    OBVIOUS
  <2>2. QED
    BY <2>1, PlaceFits
<1>2. duration \in Nat
  BY SpecFields DEF TypeOK
<1>3. Timed(tasks)' = Timed(tasks) \cup {t}
  BY DEF Timed
<1>4. Planted(tasks)' \subseteq Planted(tasks) \cup {t}
  BY DEF Planted
<1>5. _busy_blocks' = _busy_blocks
  BY DEF _busy_blocks
<1>6. KeepsItsDistance'
  <2>1. \A r \in _busy_blocks : Apart(Taken(t), r)
    <3>1. TAKE r \in _busy_blocks
    <3>2. r \in occupied /\ r[1] \in Int /\ r[2] \in Int
      BY TakenRanges DEF occupied
    <3>3. QED
      BY <1>1, <1>2, <3>2, FreeIsApart DEF Taken
  <2>2. \A u \in Timed(tasks) : Apart(Taken(t), Taken(u)) /\ Apart(Taken(u), Taken(t))
    <3>1. TAKE u \in Timed(tasks)
    <3>2. Taken(u) \in occupied /\ Taken(u)[1] \in Int /\ Taken(u)[2] \in Int
      BY TakenRanges DEF occupied
    <3>3. QED
      BY <1>1, <1>2, <3>2, FreeIsApart DEF Taken
  <2>3. \A u \in Timed(tasks) \cup {t} :
           /\ \A v \in Timed(tasks) \cup {t} : u # v => Apart(Taken(u), Taken(v))
           /\ \A r \in _busy_blocks : Apart(Taken(u), r)
    BY Zenon, <2>1, <2>2 DEF Placing, KeepsItsDistance
  <2>4. QED
    BY <1>3, <1>5, <2>3 DEF KeepsItsDistance, Taken, Apart
<1>7. StaysInItsWeek'
  BY <1>1, <1>4, SameTemplate DEF Placing, StaysInItsWeek
<1>8. OverrunsOnlyIfLonger'
  <2>1. Length(t) = duration
    BY <1>1, <1>2 DEF Length
  <2>2. \E window \in WindowsOf(t.spec) :
           \/ Inside(t, window)
           \/ window[1] = t.start_at % Day /\ window[2] - window[1] < Length(t)
    <3>1. PICK window \in WindowsOf(k) :
             \/ /\ window[1] <= start % Day
                /\ start + duration - Day * (start \div Day) <= window[2]
             \/ window[1] = start % Day /\ window[2] - window[1] < duration
      BY Zenon, <1>1
    <3>2. CASE /\ window[1] <= start % Day
               /\ start + duration - Day * (start \div Day) <= window[2]
      <4>1. Inside(t, window)
        BY <3>2, <1>1, <1>2 DEF Inside, Day
      <4>2. QED
        BY <4>1
    <3>3. CASE window[1] = start % Day /\ window[2] - window[1] < duration
      BY <2>1, <3>3
    <3>4. QED
      BY Zenon, <3>1, <3>2, <3>3
  <2>3. QED
    BY <1>3, <2>2, SameTemplate DEF Placing, OverrunsOnlyIfLonger, Inside, Length
<1>9. IsFiniteSet(Timed(tasks))'
  <2>1. IsFiniteSet(Timed(tasks) \cup {t})
    BY Zenon, FS_AddElement
  <2>2. QED
    BY Zenon, <1>3, <2>1
<1>10. QED
  BY <1>6, <1>7, <1>8, <1>9 DEF Placing

-----------------------------------------------------------------------------
(* What is placed is well placed *)

\* The counters an action leaves are in range, and the rows it leaves are well-formed.
LEMMA Typing ==
  ASSUME TypeOK, template' = template, events' = events, stored_quota' = stored_quota,
         step' \in {"deliver", "ask", "week", "place", "store", "return", "over"},
         tries' \in 0..MaxTries, attempts' \in 0..max_attempts,
         week' \in 0..template.duration_weeks,
         todo' = {} \/ todo' \subseteq Planned(week'),
         ScheduledTasks(tasks'), ScheduledTasks(tree'), ScheduledTasks(baseline')
  PROVE  TypeOK'
<1>1. todo' \subseteq Occurrences
  BY DEF Occurrences
<1>2. template' \in Answers /\ events' \in Uploads \cup {<<>>} /\ stored_quota' \in Quotas \cup {{}}
  BY DEF TypeOK
<1>3. \A S \in {tasks', tree', baseline'} : ScheduledTasks(S)
  BY Zenon
<1>4. QED
  BY <1>1, <1>2, <1>3, SameTemplate DEF TypeOK

LEMMA WeekNumbers ==
  ASSUME TypeOK
  PROVE  /\ template.duration_weeks \in Nat /\ week \in Nat /\ week <= template.duration_weeks
         /\ template \in Answers
         /\ ScheduledTasks(tasks) /\ ScheduledTasks(tree) /\ ScheduledTasks(baseline)
  BY InputsAssumption DEF TypeOK

\* The fields of a task, and of a checkpoint.
LEMMA ScheduledFields ==
  ASSUME NEW x, NEW start, NEW end, NEW t, t = Scheduled(x, start, end)
  PROVE  /\ DOMAIN t = {"spec", "key", "week_index", "occurrence", "start_at", "end_at", "all_day"}
         /\ t.spec = x[1] /\ t.week_index = week /\ t.occurrence = x[2]
         /\ t.start_at = start /\ t.end_at = end /\ t.all_day = AllDay(x[1])
  BY DEF Scheduled

LEMMA AllDayIsBoolean == \A k : AllDay(k) \in BOOLEAN
  BY DEF AllDay

LEMMA CheckpointFields ==
  ASSUME TypeOK, NEW m, NEW t, t = Checkpoint(m)
  PROVE  /\ DOMAIN t = {"spec", "key", "week_index", "occurrence", "start_at", "end_at", "all_day"}
         /\ t.spec = 0 /\ t.all_day = TRUE
         /\ t.start_at \in Nat /\ t.end_at \in Nat /\ t.start_at < t.end_at
<1>1. PICK sunday \in Nat : sunday = Sunday(week)
  <2>1. StartsOn \in 0..6
    BY SchedulingConstants DEF StartsOn, Weekdays
  <2>2. Sunday(week) \in Nat
    BY <2>1, WeekNumbers DEF Sunday, WeekStart
  <2>3. QED
    BY <2>2
<1>2. /\ DOMAIN t = {"spec", "key", "week_index", "occurrence", "start_at", "end_at", "all_day"}
      /\ t.spec = 0 /\ t.all_day = TRUE
      /\ t.start_at = AllDayBounds(Sunday(week))[1] /\ t.end_at = AllDayBounds(Sunday(week))[2]
  BY DEF Checkpoint
<1>3. AllDayBounds(sunday)[1] = 1440 * sunday /\ AllDayBounds(sunday)[2] = 1440 * (sunday + 1)
  BY DEF AllDayBounds, Day, checkpoint_hour
<1>4. QED
  BY <1>1, <1>2, <1>3

LEMMA StepsOfPlacing ==
  ASSUME PlacedWell, Place
  PROVE  PlacedWell'
<1>1. /\ TypeOK /\ JobFits /\ RowsFit /\ Placing /\ IsFiniteSet(Timed(tasks))
      /\ step = "place" /\ todo # {} /\ todo' = todo \ {Next1}
      /\ UNCHANGED <<template, events, stored_quota, step, tries, attempts, week, rows>>
  BY DEF PlacedWell, JobFits, Placing, Place, PlaceAllDay, PlaceTimed, LeaveUnplaced, inputs, result, rows
<1>2. /\ Next1 \in Planned(week) /\ Next1 = <<Next1[1], Next1[2]>>
      /\ Next1[1] \in Keys(template) /\ Next1[2] \in Nat
  BY <1>1, NextIsLeft
<1>3. PICK k : k = Next1[1]
  OBVIOUS
<1>4. PICK number \in Nat : number = Next1[2]
  BY <1>2
<1>5. PICK aim : aim = TargetDay(week, k, number)
  OBVIOUS
<1>6. aim \in Nat /\ aim \in WeekStart(week)..WeekEnd(week)
  BY <1>1, <1>2, <1>3, <1>5, TargetDayInWeek, WeekNumbers
<1>7. SUFFICES ASSUME ScheduledTasks(tasks'), Placing', IsFiniteSet(Timed(tasks))'
               PROVE  PlacedWell'
  <2>1. CASE PlaceAllDay
    <3>1. PICK t : t = Scheduled(Next1, AllDayBounds(aim)[1], AllDayBounds(aim)[2])
      OBVIOUS
    <3>2. tasks' = tasks \cup {t} /\ AllDay(k)
      BY <2>1, <3>1, <1>3, <1>4, <1>5 DEF PlaceAllDay
    <3>3. /\ DOMAIN t = {"spec", "key", "week_index", "occurrence", "start_at", "end_at", "all_day"}
          /\ t.spec = k /\ t.week_index = week /\ t.occurrence = number /\ t.all_day = AllDay(k)
          /\ t.start_at = AllDayBounds(aim)[1] /\ t.end_at = AllDayBounds(aim)[2]
      BY <3>1, <1>3, <1>4, ScheduledFields
    <3>4. /\ t.start_at \in Nat /\ t.end_at \in Nat /\ t.start_at < t.end_at
          /\ t.start_at \div Day = aim
      BY <3>3, <1>6 DEF AllDayBounds, Day, checkpoint_hour
    <3>5. ScheduledTasks(tasks')
      BY <1>1, <3>2, <3>3, <3>4, WeekNumbers, AllDayIsBoolean DEF ScheduledTasks
    <3>6. PICK S : S = {t}
      OBVIOUS
    <3>7. /\ tasks' = tasks \cup S /\ \A u \in S : u.all_day
          /\ \A u \in Planted(S) :
                /\ u.start_at \div Day = TargetDay(u.week_index, u.spec, u.occurrence)
                /\ TargetDay(u.week_index, u.spec, u.occurrence) \in Nat
                /\ TargetDay(u.week_index, u.spec, u.occurrence)
                      \in WeekStart(u.week_index)..WeekEnd(u.week_index)
      BY <3>2, <3>3, <3>4, <3>6, <1>5, <1>6 DEF Planted
    <3>8. Placing' /\ Timed(tasks)' = Timed(tasks)
      BY Zenon, <1>1, <3>7, MoreAllDay
    <3>9. QED
      BY <1>1, <1>7, <3>5, <3>8
  <2>2. CASE PlaceTimed
    <3>1. PICK duration \in Nat \ {0} : duration = template.tasks[k].duration_minutes
      BY <1>1, <1>2, <1>3, SpecFields, WeekNumbers
    <3>2. PICK start \in _place(week, Next1) : tasks' = tasks \cup {Scheduled(Next1, start, start + duration)}
      BY <2>2, <3>1, <1>3 DEF PlaceTimed
    <3>3. PICK t : t = Scheduled(Next1, start, start + duration)
      OBVIOUS
    <3>4. /\ DOMAIN t = {"spec", "key", "week_index", "occurrence", "start_at", "end_at", "all_day"}
          /\ t.spec = k /\ t.week_index = week /\ t.occurrence = number /\ t.all_day = AllDay(k)
          /\ t.start_at = start /\ t.end_at = start + duration
      BY <3>3, <1>3, <1>4, ScheduledFields
    <3>5. ~AllDay(k)
      BY <2>2, <1>3 DEF PlaceTimed
    <3>6. Next1 = <<k, number>> /\ week \in Nat /\ k \in Keys(template)
      BY <1>1, <1>2, <1>3, <1>4, WeekNumbers
    <3>7. start \in Nat
      BY Zenon, <1>1, <3>1, <3>2, <3>6, PlaceFits
    <3>8. ScheduledTasks(tasks')
      BY <1>1, <3>1, <3>2, <3>3, <3>4, <3>7, WeekNumbers, AllDayIsBoolean DEF ScheduledTasks
    <3>9. Placing' /\ IsFiniteSet(Timed(tasks))'
      <4>1. /\ tasks' = tasks \cup {t} /\ ~t.all_day
            /\ start \in _place(week, Next1)
            /\ t.spec = k /\ t.week_index = week /\ t.occurrence = number
            /\ t.start_at = start /\ t.end_at = start + duration
        BY Zenon, <3>2, <3>3, <3>4, <3>5
      <4>2. template' = template /\ events' = events
        BY <1>1
      <4>3. QED
        BY <1>1, <3>1, <3>6, <4>1, <4>2, OneMoreTimed
    <3>10. QED
      BY <1>7, <3>8, <3>9
  <2>3. CASE LeaveUnplaced
    <3>1. tasks' = tasks
      BY <2>3 DEF LeaveUnplaced
    <3>2. Placing' /\ Timed(tasks)' = Timed(tasks)
      BY <1>1, <3>1, SamePlaces
    <3>3. QED
      BY <1>1, <1>7, <3>1, <3>2, WeekNumbers
  <2>4. QED
    BY <2>1, <2>2, <2>3 DEF Place
<1>8. tree' = tree /\ baseline' = baseline
  BY <1>1 DEF rows
<1>9. todo' \subseteq Planned(week')
  BY <1>1 DEF JobFits
<1>10. TypeOK'
  <2>1. /\ step' \in {"deliver", "ask", "week", "place", "store", "return", "over"}
        /\ tries' \in 0..MaxTries /\ attempts' \in 0..max_attempts
        /\ week' \in 0..template.duration_weeks
    BY <1>1 DEF TypeOK
  <2>2. ScheduledTasks(tree') /\ ScheduledTasks(baseline')
    BY <1>1, <1>8, WeekNumbers
  <2>3. QED
    BY Zenon, <1>1, <1>7, <1>9, <2>1, <2>2, Typing
<1>11. JobFits'
  BY <1>1, <1>7, <1>9, SameTemplate DEF JobFits
<1>12. RowsFit'
  BY <1>1, <1>8 DEF RowsFit, DistinctKeys
<1>13. QED
  BY <1>7, <1>10, <1>11, <1>12 DEF PlacedWell, Placing

\* An answer, or a delivery, begins with nothing placed.
LEMMA StepsFromNothing ==
  ASSUME PlacedWell, Deliver \/ AskModel
  PROVE  PlacedWell'
<1>1. /\ TypeOK /\ JobFits /\ RowsFit
      /\ tasks' = {} /\ todo' = todo /\ todo = {} /\ week' = 0
      /\ tree' = tree /\ baseline' = baseline
  BY DEF PlacedWell, JobFits, Deliver, AskModel, NothingPlaced, Begin, rows
<1>2. Placing' /\ IsFiniteSet(Timed(tasks))'
  BY <1>1, NoPlaces
<1>3. ScheduledTasks(tasks') /\ ScheduledTasks(tree') /\ ScheduledTasks(baseline')
  BY <1>1, WeekNumbers DEF ScheduledTasks
<1>4. /\ template' \in Answers /\ events' \in Uploads \cup {<<>>}
      /\ stored_quota' \in Quotas \cup {{}}
      /\ step' \in {"ask", "week"}
      /\ tries' \in 0..MaxTries /\ attempts' \in 0..max_attempts
      /\ step' = "ask" => attempts' < max_attempts
  <2>1. CASE Deliver
    <3>1. /\ template' = template /\ events' \in Uploads /\ stored_quota' \in Quotas
          /\ tries < MaxTries /\ tries' = tries + 1 /\ attempts' = 0 /\ step' = "ask"
      BY <2>1 DEF Deliver, Begin
    <3>2. QED
      BY <1>1, <3>1, SchedulingConstants DEF TypeOK
  <2>2. CASE AskModel
    <3>1. /\ template' \in Answers /\ events' = events /\ stored_quota' = stored_quota
          /\ tries' = tries /\ attempts' = attempts + 1 /\ step' = "week" /\ step = "ask"
      BY <2>2 DEF AskModel, Begin
    <3>2. attempts < max_attempts
      BY <1>1, <3>1 DEF JobFits
    <3>3. QED
      BY <1>1, <3>1, <3>2, SchedulingConstants DEF TypeOK
  <2>3. QED
    BY <2>1, <2>2
<1>5. template'.duration_weeks \in Nat
  BY <1>4, InputsAssumption
<1>6. week' \in 0..template'.duration_weeks /\ todo' = {}
  BY <1>1, <1>5
<1>7. TypeOK'
  <2>1. \A S \in {tasks', tree', baseline'} : ScheduledTasks(S)
    BY Zenon, <1>3
  <2>2. QED
    BY <1>4, <1>6, <2>1 DEF TypeOK
<1>8. JobFits' /\ RowsFit'
  BY <1>1, <1>2, <1>4 DEF JobFits, RowsFit, DistinctKeys
<1>9. QED
  BY <1>2, <1>7, <1>8 DEF PlacedWell, Placing

\* The end of a week adds its checkpoints, which take no time of the day.
LEMMA StepsOfEndWeek ==
  ASSUME PlacedWell, EndWeek
  PROVE  PlacedWell'
<1>1. /\ TypeOK /\ JobFits /\ RowsFit /\ Placing /\ IsFiniteSet(Timed(tasks))
      /\ step = "place" /\ todo = {} /\ todo' = {} /\ step' = "week" /\ week' = week + 1
      /\ template' = template /\ events' = events /\ stored_quota' = stored_quota
      /\ tries' = tries /\ attempts' = attempts /\ tree' = tree /\ baseline' = baseline
      /\ week < template.duration_weeks
  BY DEF PlacedWell, JobFits, Placing, EndWeek, Begin, inputs, rows
<1>2. PICK S : /\ S \subseteq {Checkpoint(m) : m \in Milestones(template)}
               /\ tasks' = tasks \cup S
  BY DEF EndWeek
<1>3. \A t \in S : /\ DOMAIN t = {"spec", "key", "week_index", "occurrence", "start_at", "end_at",
                                  "all_day"}
                   /\ t.spec = 0 /\ t.all_day = TRUE
                   /\ t.start_at \in Nat /\ t.end_at \in Nat /\ t.start_at < t.end_at
  BY <1>1, <1>2, CheckpointFields
<1>4. ScheduledTasks(tasks') /\ ScheduledTasks(tree') /\ ScheduledTasks(baseline')
  BY <1>1, <1>2, <1>3, WeekNumbers DEF ScheduledTasks
<1>5. Placing' /\ Timed(tasks)' = Timed(tasks)
  <2>1. \A t \in S : t.all_day
    BY <1>3
  <2>2. Planted(S) = {}
    BY <1>3 DEF Planted
  <2>3. \A t \in Planted(S) :
           /\ t.start_at \div Day = TargetDay(t.week_index, t.spec, t.occurrence)
           /\ TargetDay(t.week_index, t.spec, t.occurrence) \in Nat
           /\ TargetDay(t.week_index, t.spec, t.occurrence)
                 \in WeekStart(t.week_index)..WeekEnd(t.week_index)
    BY Zenon, <2>2
  <2>4. QED
    BY Zenon, <1>1, <1>2, <2>1, <2>3, MoreAllDay
<1>6. TypeOK'
  <2>1. /\ step' \in {"deliver", "ask", "week", "place", "store", "return", "over"}
        /\ tries' \in 0..MaxTries /\ attempts' \in 0..max_attempts
        /\ week' \in 0..template.duration_weeks
    BY <1>1, WeekNumbers DEF TypeOK
  <2>2. QED
    BY Zenon, <1>1, <1>4, <2>1, Typing
<1>7. JobFits' /\ RowsFit'
  BY <1>1, <1>5 DEF JobFits, RowsFit, DistinctKeys
<1>8. QED
  BY <1>5, <1>6, <1>7 DEF PlacedWell, Placing

\* The other steps place nothing.
LEMMA StepsInPlace ==
  ASSUME PlacedWell,
         BeginWeek \/ AskAgain \/ GiveUp \/ StoreTree \/ StorePlan \/ Return \/ Crash
  PROVE  PlacedWell'
<1>1. /\ TypeOK /\ JobFits /\ RowsFit /\ Placing /\ IsFiniteSet(Timed(tasks))
      /\ template' = template /\ events' = events /\ stored_quota' = stored_quota
      /\ tries' = tries /\ attempts' = attempts /\ week' = week /\ tasks' = tasks
  BY DEF PlacedWell, JobFits, Placing, BeginWeek, AskAgain, GiveUp, StoreTree, StorePlan, Return,
         Crash, Begin, inputs, result, rows
<1>2. Placing' /\ Timed(tasks)' = Timed(tasks)
  BY <1>1, SamePlaces
<1>3. tree' \in {tree, tasks} /\ baseline' \in {baseline, tasks}
  BY <1>1 DEF BeginWeek, AskAgain, GiveUp, StoreTree, StorePlan, Return, Crash, rows
<1>4. ScheduledTasks(tasks') /\ ScheduledTasks(tree') /\ ScheduledTasks(baseline')
  BY <1>1, <1>3, WeekNumbers
<1>5. step' \in {"deliver", "ask", "week", "place", "store", "return", "over"}
  BY DEF BeginWeek, AskAgain, GiveUp, StoreTree, StorePlan, Return, Crash, Begin
<1>6. /\ tries' \in 0..MaxTries /\ attempts' \in 0..max_attempts
      /\ week' \in 0..template.duration_weeks
  BY <1>1 DEF TypeOK
<1>7. SUFFICES ASSUME IF step' = "place" THEN week < template.duration_weeks /\ todo' \subseteq Planned(week)
                                         ELSE todo' = {},
                      step' = "ask" => attempts < max_attempts, RowsFit'
               PROVE  PlacedWell'
  <2>1. CASE BeginWeek
    <3>1. /\ step' = "place" /\ week < template.duration_weeks /\ todo' \subseteq Planned(week)
          /\ tree' = tree /\ baseline' = baseline
      BY <2>1 DEF BeginWeek, Begin, rows
    <3>2. QED
      BY <1>1, <1>7, <3>1 DEF RowsFit, DistinctKeys
  <2>2. CASE AskAgain
    <3>1. /\ step' = "ask" /\ attempts < max_attempts /\ step = "week" /\ todo' = todo
          /\ tree' = tree /\ baseline' = baseline
      BY <2>2 DEF AskAgain, Finished, Begin, rows
    <3>2. QED
      BY <1>1, <1>7, <3>1 DEF RowsFit, DistinctKeys, JobFits
  <2>3. CASE GiveUp
    <3>1. step' = "over" /\ step = "week" /\ todo' = todo /\ tree' = tree /\ baseline' = baseline
      BY <2>3 DEF GiveUp, Finished, Begin, rows
    <3>2. QED
      BY <1>1, <1>7, <3>1 DEF RowsFit, DistinctKeys, JobFits
  <2>4. CASE StoreTree
    <3>1. /\ step' = "store" /\ step = "week" /\ todo' = todo /\ ~Collide
          /\ tree' = tasks /\ baseline' = baseline
      BY <2>4 DEF StoreTree, Finished, Begin
    <3>2. DistinctKeys(tasks)
      BY <3>1 DEF DistinctKeys, Collide
    <3>3. QED
      BY <1>1, <1>7, <3>1, <3>2 DEF RowsFit, JobFits, DistinctKeys
  <2>5. CASE StorePlan
    <3>1. /\ step' = "return" /\ step = "store" /\ todo' = todo
          /\ tree' = tree /\ baseline' = tasks
      BY <2>5 DEF StorePlan, Begin
    <3>2. QED
      BY <1>1, <1>7, <3>1 DEF RowsFit, JobFits, DistinctKeys
  <2>6. CASE Return
    <3>1. step' = "over" /\ step = "return" /\ todo' = todo /\ tree' = tree /\ baseline' = baseline
      BY <2>6 DEF Return, Begin, rows
    <3>2. QED
      BY <1>1, <1>7, <3>1 DEF RowsFit, DistinctKeys, JobFits
  <2>7. CASE Crash
    <3>1. step' \in {"deliver", "over"} /\ todo' = {} /\ tree' = tree /\ baseline' = baseline
      BY <2>7 DEF Crash, Begin, rows
    <3>2. QED
      BY <1>1, <1>7, <3>1 DEF RowsFit, DistinctKeys
  <2>8. QED
    BY <2>1, <2>2, <2>3, <2>4, <2>5, <2>6, <2>7
<1>8. TypeOK'
  <2>1. todo' = {} \/ todo' \subseteq Planned(week')
    BY <1>1, <1>7
  <2>2. QED
    BY Zenon, <1>1, <1>4, <1>5, <1>6, <2>1, Typing
<1>9. JobFits'
  BY <1>1, <1>2, <1>7, SameTemplate DEF JobFits
<1>10. QED
  BY <1>2, <1>7, <1>8, <1>9 DEF PlacedWell, Placing

\* Whatever the model answers and whatever is in the calendar: tasks keep their distance
\* from each other and from every commitment, stay in their week near the day they aim
\* for, and overrun a window only when it could never hold them (scheduler._place).
THEOREM PlacingCorrect == QuarterSpec => []PlacedWell
<1>1. QuarterInit => PlacedWell
  <2>1. SUFFICES ASSUME QuarterInit PROVE PlacedWell
    OBVIOUS
  <2>2. /\ template \in Answers /\ events = <<>> /\ stored_quota = {} /\ step = "deliver"
        /\ tries = 0 /\ attempts = 0 /\ week = 0 /\ todo = {} /\ tasks = {}
        /\ tree = {} /\ baseline = {}
    BY <2>1, InputsAssumption DEF QuarterInit, Init
  <2>3. template.duration_weeks \in Nat
    BY <2>2, InputsAssumption
  <2>4. TypeOK
    <3>1. \A S \in {tasks, tree, baseline} : ScheduledTasks(S)
      BY <2>2 DEF ScheduledTasks
    <3>2. QED
      BY <2>2, <2>3, <3>1, SchedulingConstants DEF TypeOK
  <2>5. Timed(tasks) = {} /\ Planted(tasks) = {}
    BY <2>2 DEF Timed, Planted
  <2>6. JobFits /\ RowsFit
    BY <2>2, <2>5, FS_EmptySet DEF JobFits, RowsFit, DistinctKeys
  <2>7. KeepsItsDistance /\ StaysInItsWeek /\ OverrunsOnlyIfLonger
    BY <2>5 DEF KeepsItsDistance, StaysInItsWeek, OverrunsOnlyIfLonger
  <2>8. QED
    BY <2>4, <2>6, <2>7 DEF PlacedWell
<1>2. PlacedWell /\ [QuarterNext]_quarter => PlacedWell'
  <2>1. SUFFICES ASSUME PlacedWell, [QuarterNext]_quarter PROVE PlacedWell'
    OBVIOUS
  <2>2. CASE Deliver \/ AskModel
    BY <2>1, <2>2, StepsFromNothing
  <2>3. CASE Schedule
    BY <2>1, <2>3, StepsOfPlacing, StepsOfEndWeek, StepsInPlace DEF Schedule
  <2>4. CASE AskAgain \/ GiveUp \/ StoreTree \/ StorePlan \/ Return \/ Crash
    BY <2>1, <2>4, StepsInPlace
  <2>5. CASE UNCHANGED vars
    <3>1. /\ TypeOK /\ JobFits /\ RowsFit /\ Placing
          /\ UNCHANGED <<template, events, stored_quota, step, tries, attempts, week, todo, tasks,
                         tree, baseline>>
      BY <2>1, <2>5 DEF PlacedWell, Placing, vars, inputs, result, rows
    <3>2. Placing' /\ Timed(tasks)' = Timed(tasks)
      BY <3>1, SamePlaces
    <3>3. TypeOK'
      BY <3>1, SameTemplate DEF TypeOK
    <3>4. JobFits' /\ RowsFit'
      BY <3>1, <3>2, SameTemplate DEF JobFits, RowsFit, DistinctKeys
    <3>5. QED
      BY <3>2, <3>3, <3>4 DEF PlacedWell, Placing
  <2>6. \/ Deliver \/ AskModel \/ Schedule \/ UNCHANGED vars
        \/ AskAgain \/ GiveUp \/ StoreTree \/ StorePlan \/ Return \/ Crash
    BY <2>1 DEF QuarterNext, Plans, Replaces, Ticks, quarter
  <2>7. QED
    BY <2>2, <2>3, <2>4, <2>5, <2>6
<1>3. QED
  BY <1>1, <1>2, PTL DEF QuarterSpec

-----------------------------------------------------------------------------
(* The comparison with the baseline *)

Kinds == {"added", "removed", "moved", "shortened", "lengthened"}
Keyed(S) == {_align(t) : t \in S}
SamePlace(b, t) == b.start_at = t.start_at /\ b.end_at = t.end_at /\ b.all_day = t.all_day

\* A key is that of one task at most.
LEMMA OnlyOne ==
  ASSUME NEW S, DistinctKeys(S), NEW t \in S
  PROVE  (CHOOSE u \in Aligned(S, _align(t)) : TRUE) = t
<1>1. Aligned(S, _align(t)) = {t}
  BY DEF Aligned, DistinctKeys
<1>2. \A u \in Aligned(S, _align(t)) : u = t
  BY <1>1
<1>3. \E u \in Aligned(S, _align(t)) : TRUE
  BY <1>1
<1>4. QED
  BY Zenon, <1>2, <1>3

\* Two tasks of one key: the kind of the change, and the kind read from the other side.
LEMMA KindOfChange ==
  ASSUME NEW B, NEW T, ScheduledTasks(B), ScheduledTasks(T), NEW b \in B, NEW t \in T
  PROVE  /\ _kind(b, t) \in Kinds \cup {"unchanged"}
         /\ _kind(b, t) = "unchanged" <=> SamePlace(b, t)
         /\ _kind(t, b) = Mirror(_kind(b, t))
<1>1. /\ b.start_at \in Nat /\ b.end_at \in Nat /\ t.start_at \in Nat /\ t.end_at \in Nat
  BY DEF ScheduledTasks
<1>2. CASE b.start_at # t.start_at \/ b.all_day # t.all_day
  <2>1. _kind(b, t) = "moved" /\ _kind(t, b) = "moved"
    BY <1>2 DEF _kind
  <2>2. QED
    BY <1>2, <2>1 DEF Mirror, SamePlace, Kinds
<1>3. CASE ~(b.start_at # t.start_at \/ b.all_day # t.all_day)
  <2>1. CASE t.end_at < b.end_at
    <3>1. _kind(b, t) = "shortened" /\ _kind(t, b) = "lengthened"
      BY <1>1, <1>3, <2>1 DEF _kind, Length
    <3>2. QED
      BY <1>1, <2>1, <3>1 DEF Mirror, SamePlace, Kinds
  <2>2. CASE t.end_at > b.end_at
    <3>1. _kind(b, t) = "lengthened" /\ _kind(t, b) = "shortened"
      BY <1>1, <1>3, <2>2 DEF _kind, Length
    <3>2. QED
      BY <1>1, <2>2, <3>1 DEF Mirror, SamePlace, Kinds
  <2>3. CASE t.end_at = b.end_at
    <3>1. _kind(b, t) = "unchanged" /\ _kind(t, b) = "unchanged"
      BY <1>1, <1>3, <2>3 DEF _kind, Length
    <3>2. QED
      BY <1>3, <2>3, <3>1 DEF Mirror, SamePlace
  <2>4. QED
    BY <1>1, <2>1, <2>2, <2>3
<1>4. QED
  BY <1>2, <1>3

LEMMA EntryOfKey ==
  ASSUME NEW B, NEW T, ScheduledTasks(B), ScheduledTasks(T), DistinctKeys(B), DistinctKeys(T),
         NEW a \in Keyed(B \cup T)
  PROVE  /\ Entry(B, T, a).kind \in Kinds \cup {"unchanged"}
         /\ Entry(B, T, a).kind = "unchanged"
               <=> \E b \in B, t \in T : _align(b) = a /\ _align(t) = a /\ SamePlace(b, t)
         /\ Entry(T, B, a) = [key |-> a, kind |-> Mirror(Entry(B, T, a).kind)]
<1>1. \A x, y : Entry(x, y, a).kind =
         IF Aligned(x, a) = {} THEN "added" ELSE IF Aligned(y, a) = {} THEN "removed"
         ELSE _kind(CHOOSE t \in Aligned(x, a) : TRUE, CHOOSE t \in Aligned(y, a) : TRUE)
  BY DEF Entry
<1>2. Entry(T, B, a) = [key |-> a, kind |-> Entry(T, B, a).kind]
  BY DEF Entry
<1>3. CASE Aligned(B, a) = {}
  <2>1. \A b \in B : _align(b) # a
    BY <1>3 DEF Aligned
  <2>2. Aligned(T, a) # {}
    BY <2>1 DEF Keyed, Aligned
  <2>3. Entry(B, T, a).kind = "added" /\ Entry(T, B, a).kind = "removed"
    BY <1>1, <1>3, <2>2
  <2>4. QED
    BY <1>2, <2>1, <2>3 DEF Mirror, Kinds
<1>4. CASE Aligned(B, a) # {} /\ Aligned(T, a) = {}
  <2>1. \A t \in T : _align(t) # a
    BY <1>4 DEF Aligned
  <2>2. Entry(B, T, a).kind = "removed" /\ Entry(T, B, a).kind = "added"
    BY <1>1, <1>4
  <2>3. QED
    BY <1>2, <2>1, <2>2 DEF Mirror, Kinds
<1>5. CASE Aligned(B, a) # {} /\ Aligned(T, a) # {}
  <2>1. PICK b \in B, t \in T : _align(b) = a /\ _align(t) = a
    BY <1>5 DEF Aligned
  <2>2. /\ (CHOOSE u \in Aligned(B, a) : TRUE) = b
        /\ (CHOOSE u \in Aligned(T, a) : TRUE) = t
    <3>1. /\ (CHOOSE u \in Aligned(B, _align(b)) : TRUE) = b
          /\ (CHOOSE u \in Aligned(T, _align(t)) : TRUE) = t
      BY Zenon, OnlyOne
    <3>2. QED
      BY Zenon, <2>1, <3>1
  <2>3. Entry(B, T, a).kind = _kind(b, t) /\ Entry(T, B, a).kind = _kind(t, b)
    BY Zenon, <1>1, <1>5, <2>2
  <2>4. \A c \in B, u \in T : _align(c) = a /\ _align(u) = a => c = b /\ u = t
    BY Zenon, <2>1 DEF DistinctKeys
  <2>5. QED
    BY <1>2, <2>1, <2>3, <2>4, KindOfChange
<1>6. QED
  BY <1>3, <1>4, <1>5

\* No change is a change of place.
LEMMA NoChange ==
  ASSUME NEW B, NEW T, ScheduledTasks(B), ScheduledTasks(T), DistinctKeys(B), DistinctKeys(T)
  PROVE  OfKind(diff_tasks(B, T), Kinds) = {} <=> Places(B) = Places(T)
<1>1. OfKind(diff_tasks(B, T), Kinds) = {}
         <=> \A a \in Keyed(B \cup T) : Entry(B, T, a).kind \notin Kinds
  BY DEF OfKind, diff_tasks, Keyed
<1>2. \A a \in Keyed(B \cup T) : Entry(B, T, a).kind \notin Kinds
         <=> \E b \in B, t \in T : _align(b) = a /\ _align(t) = a /\ SamePlace(b, t)
  <2>1. \A a \in Keyed(B \cup T) :
           /\ Entry(B, T, a).kind \in Kinds \cup {"unchanged"}
           /\ Entry(B, T, a).kind = "unchanged"
                 <=> \E b \in B, t \in T : _align(b) = a /\ _align(t) = a /\ SamePlace(b, t)
    BY Zenon, EntryOfKey
  <2>2. "unchanged" \notin Kinds
    BY DEF Kinds
  <2>3. QED
    BY Zenon, <2>1, <2>2
<1>3. ASSUME \A a \in Keyed(B \cup T) :
                \E b \in B, t \in T : _align(b) = a /\ _align(t) = a /\ SamePlace(b, t)
      PROVE  Places(B) = Places(T)
  <2>1. \A b \in B : \E t \in T : _align(t) = _align(b) /\ SamePlace(b, t)
    <3>1. TAKE b \in B
    <3>2. _align(b) \in Keyed(B \cup T)
      BY DEF Keyed
    <3>3. PICK c \in B, t \in T : _align(c) = _align(b) /\ _align(t) = _align(b) /\ SamePlace(c, t)
      BY Zenon, <1>3, <3>2
    <3>4. c = b
      BY Zenon, <3>3 DEF DistinctKeys
    <3>5. QED
      BY <3>3, <3>4
  <2>2. \A t \in T : \E b \in B : _align(t) = _align(b) /\ SamePlace(b, t)
    <3>1. TAKE t \in T
    <3>2. _align(t) \in Keyed(B \cup T)
      BY DEF Keyed
    <3>3. PICK b \in B, u \in T : _align(b) = _align(t) /\ _align(u) = _align(t) /\ SamePlace(b, u)
      BY Zenon, <1>3, <3>2
    <3>4. u = t
      BY Zenon, <3>3 DEF DistinctKeys
    <3>5. QED
      BY <3>3, <3>4
  <2>3. Places(B) \subseteq Places(T)
    BY <2>1 DEF Places, SamePlace
  <2>4. Places(T) \subseteq Places(B)
    BY <2>2 DEF Places, SamePlace
  <2>5. QED
    BY <2>3, <2>4
<1>4. ASSUME Places(B) = Places(T), NEW a \in Keyed(B \cup T)
      PROVE  \E b \in B, t \in T : _align(b) = a /\ _align(t) = a /\ SamePlace(b, t)
  <2>1. \A s \in B : \E t \in T : _align(t) = _align(s) /\ SamePlace(s, t)
    <3>1. TAKE s \in B
    <3>2. <<_align(s), s.start_at, s.end_at, s.all_day>> \in Places(T)
      BY <1>4 DEF Places
    <3>3. QED
      BY <3>2 DEF Places, SamePlace
  <2>2. \A s \in T : \E b \in B : _align(b) = _align(s) /\ SamePlace(b, s)
    <3>1. TAKE s \in T
    <3>2. <<_align(s), s.start_at, s.end_at, s.all_day>> \in Places(B)
      BY <1>4 DEF Places
    <3>3. QED
      BY <3>2 DEF Places, SamePlace
  <2>3. PICK s \in B \cup T : a = _align(s)
    BY DEF Keyed
  <2>4. QED
    BY Zenon, <2>1, <2>2, <2>3
<1>5. QED
  BY Zenon, <1>1, <1>2, <1>3, <1>4

\* Read from the other side a diff says the opposite.
LEMMA OtherSide ==
  ASSUME NEW B, NEW T, ScheduledTasks(B), ScheduledTasks(T), DistinctKeys(B), DistinctKeys(T)
  PROVE  diff_tasks(T, B) = {[key |-> e.key, kind |-> Mirror(e.kind)] : e \in diff_tasks(B, T)}
<1>1. diff_tasks(T, B) = {Entry(T, B, a) : a \in Keyed(B \cup T)}
  <2>1. T \cup B = B \cup T
    OBVIOUS
  <2>2. QED
    BY Zenon, <2>1 DEF diff_tasks, Keyed
<1>2. diff_tasks(B, T) = {Entry(B, T, a) : a \in Keyed(B \cup T)}
  BY DEF diff_tasks, Keyed
<1>3. \A a \in Keyed(B \cup T) :
         Entry(T, B, a) = [key |-> Entry(B, T, a).key, kind |-> Mirror(Entry(B, T, a).kind)]
  <2>1. TAKE a \in Keyed(B \cup T)
  <2>2. Entry(B, T, a).key = a
    BY DEF Entry
  <2>3. Entry(T, B, a) = [key |-> a, kind |-> Mirror(Entry(B, T, a).kind)]
    BY Zenon, EntryOfKey
  <2>4. QED
    BY <2>2, <2>3
<1>4. QED
  BY <1>1, <1>2, <1>3

\* A review finds no change exactly when every row is where the baseline has it, and a
\* diff read from the other side says the opposite (diff_tasks).
THEOREM DiffFaithful == QuarterSpec => []DiffIsFaithful
<1>1. PlacedWell => DiffIsFaithful
  <2>1. SUFFICES ASSUME PlacedWell PROVE DiffIsFaithful
    OBVIOUS
  <2>2. /\ ScheduledTasks(baseline) /\ ScheduledTasks(tree)
        /\ DistinctKeys(baseline) /\ DistinctKeys(tree)
    BY <2>1, WeekNumbers DEF PlacedWell, RowsFit
  <2>3. Review.schedule_changes = OfKind(diff_tasks(baseline, tree), Kinds)
    <3>1. {"added", "moved", "removed", "shortened", "lengthened"} = Kinds
      BY DEF Kinds
    <3>2. QED
      BY <3>1 DEF Review, compare
  <2>4. Review.schedule_changes = {} <=> Places(baseline) = Places(tree)
    BY Zenon, <2>2, <2>3, NoChange
  <2>5. diff_tasks(tree, baseline) =
           {[key |-> e.key, kind |-> Mirror(e.kind)] : e \in diff_tasks(baseline, tree)}
    BY Zenon, <2>2, OtherSide
  <2>6. QED
    BY Zenon, <2>4, <2>5 DEF DiffIsFaithful
<1>2. QED
  BY <1>1, PlacingCorrect, PTL

-----------------------------------------------------------------------------
(* Every occurrence is accounted for *)

\* Only weeks that have been planned hold tasks or had something cut, and what is still
\* to be placed has neither a task nor been cut.
WeeksInOrder ==
    /\ \A t \in Planted(tasks) : t.week_index \in PlannedWeeks
    /\ \A w, x : <<w, x>> \in trimmed => w \in PlannedWeeks
    /\ \A x \in todo : ~OnSchedule(week, x) /\ <<week, x>> \notin trimmed

Accounted == step \in {"week", "place", "store"} => NothingIsLost /\ WeeksInOrder

\* Where occurrence x of week w has ended up.
Outcome(w, x) ==
    \/ OnSchedule(w, x) /\ <<w, x>> \notin trimmed
    \/ ~OnSchedule(w, x) /\ <<w, x>> \in trimmed
    \/ ~OnSchedule(w, x) /\ <<w, x>> \notin trimmed /\ x[1] \in unplaced

LEMMA NothingIsLostMeans ==
  NothingIsLost <=> \A w \in PlannedWeeks : \A x \in Planned(w) :
                       (step = "place" /\ w = week /\ x \in todo) \/ Outcome(w, x)
<1>1. \A w : \A x \in Planned(w) : x \in Dropped(w) <=> <<w, x>> \in trimmed
  BY DEF Dropped
<1>2. QED
  BY <1>1 DEF NothingIsLost, Outcome

LEMMA NothingIsLostNext ==
  ASSUME template' = template,
         \A w \in PlannedWeeks' : \A x \in Planned(w) :
            (step' = "place" /\ w = week' /\ x \in todo') \/ Outcome(w, x)'
  PROVE  NothingIsLost'
<1>1. \A w : Planned(w)' = Planned(w)
  BY SameTemplate
<1>2. \A w : \A x \in Planned(w) : x \in Dropped(w)' <=> <<w, x>> \in trimmed'
  BY <1>1 DEF Dropped
<1>3. QED
  BY <1>1, <1>2 DEF NothingIsLost, Outcome

\* A planned occurrence is a pair, and not that of a checkpoint.
LEMMA KeysArePositive ==
  ASSUME TypeOK, NEW w \in Nat, NEW x \in Planned(w)
  PROVE  x = <<x[1], x[2]>> /\ x[1] # 0
<1>1. x[1] \in Keys(template) /\ x = <<x[1], x[2]>>
  BY PlannedPairs
<1>2. x[1] \in Nat \ {0}
  BY <1>1, SpecFields DEF TypeOK
<1>3. QED
  BY <1>1, <1>2

LEMMA AccountsOfBeginWeek ==
  ASSUME TypeOK, JobFits, Accounted, BeginWeek
  PROVE  Accounted'
<1>1. PICK cut : cut = _apply_quota(week)
  OBVIOUS
<1>2. /\ step = "week" /\ step' = "place" /\ week' = week
      /\ tasks' = tasks /\ unplaced' = unplaced /\ template' = template
      /\ todo' = Planned(week) \ cut
      /\ trimmed' = trimmed \cup {<<week, x>> : x \in cut}
  BY <1>1 DEF BeginWeek, Begin, inputs
<1>3. /\ week \in Nat /\ PlannedWeeks = 0..(week - 1) /\ PlannedWeeks' = 0..week
      /\ week \notin PlannedWeeks
  BY <1>2, WeekNumbers DEF PlannedWeeks
<1>4. NothingIsLost /\ WeeksInOrder
  BY <1>2 DEF Accounted
<1>5. /\ \A w, x : OnSchedule(w, x)' <=> OnSchedule(w, x)
      /\ \A w, x : <<w, x>> \in trimmed' <=> <<w, x>> \in trimmed \/ (w = week /\ x \in cut)
  BY <1>2 DEF OnSchedule
<1>6. \A x \in Planned(week) : ~OnSchedule(week, x) /\ <<week, x>> \notin trimmed
  <2>1. TAKE x \in Planned(week)
  <2>2. x[1] # 0
    BY <1>3, KeysArePositive
  <2>3. QED
    BY <1>3, <1>4, <2>2 DEF WeeksInOrder, OnSchedule, Planted
<1>7. ASSUME NEW w \in 0..week, NEW x \in Planned(w)
      PROVE  (w = week /\ x \in todo') \/ Outcome(w, x)'
  <2>1. CASE w = week
    BY <1>2, <1>5, <1>6, <1>7, <2>1 DEF Outcome
  <2>2. CASE w # week
    <3>1. w \in PlannedWeeks
      BY <1>3, <1>7, <2>2
    <3>2. Outcome(w, x)
      BY <1>2, <1>4, <1>7, <2>2, <3>1, NothingIsLostMeans
    <3>3. QED
      BY <1>2, <1>5, <2>2, <3>2 DEF Outcome
  <2>3. QED
    BY <2>1, <2>2
<1>8. NothingIsLost'
  BY <1>2, <1>3, <1>7, NothingIsLostNext
<1>9. WeeksInOrder'
  <2>1. Planted(tasks)' = Planted(tasks)
    BY <1>2 DEF Planted
  <2>2. \A t \in Planted(tasks)' : t.week_index \in PlannedWeeks'
    BY <1>3, <1>4, <2>1 DEF WeeksInOrder
  <2>3. \A w, x : <<w, x>> \in trimmed' => w \in PlannedWeeks'
    BY <1>3, <1>4, <1>5 DEF WeeksInOrder
  <2>4. \A x \in todo' : ~OnSchedule(week, x)' /\ <<week, x>> \notin trimmed'
    BY <1>2, <1>5, <1>6
  <2>5. QED
    BY <1>2, <2>2, <2>3, <2>4 DEF WeeksInOrder
<1>10. QED
  BY <1>8, <1>9 DEF Accounted

LEMMA AccountsOfPlacing ==
  ASSUME TypeOK, JobFits, Accounted, Place
  PROVE  Accounted'
<1>1. /\ step = "place" /\ todo # {} /\ todo' = todo \ {Next1}
      /\ template' = template /\ trimmed' = trimmed /\ step' = step /\ week' = week
  BY DEF Place, PlaceAllDay, PlaceTimed, LeaveUnplaced, inputs
<1>2. PICK y : y = Next1
  OBVIOUS
<1>3. y \in todo /\ y \in Planned(week) /\ y = <<y[1], y[2]>> /\ week \in Nat
  BY <1>1, <1>2, NextIsLeft, WeekNumbers
<1>4. PlannedWeeks = 0..week /\ PlannedWeeks' = 0..week /\ week \in 0..week
  BY <1>1, <1>3 DEF PlannedWeeks
<1>5. NothingIsLost /\ WeeksInOrder
  BY <1>1 DEF Accounted
<1>6. \/ /\ unplaced' = unplaced
         /\ \E t : /\ tasks' = tasks \cup {t}
                   /\ t.week_index = week /\ t.spec = y[1] /\ t.occurrence = y[2]
      \/ tasks' = tasks /\ unplaced' = unplaced \cup {y[1]}
  <2>1. CASE PlaceAllDay
    BY <1>2, <2>1, ScheduledFields DEF PlaceAllDay
  <2>2. CASE PlaceTimed
    BY <1>2, <2>2, ScheduledFields DEF PlaceTimed
  <2>3. CASE LeaveUnplaced
    BY <1>2, <2>3 DEF LeaveUnplaced
  <2>4. QED
    BY <2>1, <2>2, <2>3 DEF Place
<1>7. \A w, x : OnSchedule(w, x) => OnSchedule(w, x)'
  BY <1>6 DEF OnSchedule
<1>8. \A w \in Nat : \A x \in Planned(w) :
         OnSchedule(w, x)' => OnSchedule(w, x) \/ (w = week /\ x = y)
  <2>1. TAKE w \in Nat
  <2>2. TAKE x \in Planned(w)
  <2>3. HAVE OnSchedule(w, x)'
  <2>4. x = <<x[1], x[2]>>
    BY KeysArePositive
  <2>5. PICK t \in tasks' : t.week_index = w /\ t.spec = x[1] /\ t.occurrence = x[2]
    BY <2>3 DEF OnSchedule
  <2>6. CASE t \in tasks
    BY <2>5, <2>6 DEF OnSchedule
  <2>7. CASE t \notin tasks
    <3>1. t.week_index = week /\ t.spec = y[1] /\ t.occurrence = y[2]
      BY <1>6, <2>5, <2>7
    <3>2. QED
      BY <1>3, <2>4, <2>5, <3>1
  <2>8. QED
    BY <2>6, <2>7
<1>9. ASSUME NEW w \in 0..week, NEW x \in Planned(w)
      PROVE  (w = week /\ x \in todo') \/ Outcome(w, x)'
  <2>1. w \in Nat /\ w \in PlannedWeeks
    BY <1>3, <1>4, <1>9
  <2>2. (w = week /\ x \in todo) \/ Outcome(w, x)
    BY <1>5, <1>9, <2>1, NothingIsLostMeans
  <2>3. CASE w = week /\ x = y
    <3>1. ~OnSchedule(w, x) /\ <<w, x>> \notin trimmed'
      BY <1>1, <1>3, <1>5, <2>3 DEF WeeksInOrder
    <3>2. CASE unplaced' = unplaced
                 /\ \E t : /\ tasks' = tasks \cup {t}
                           /\ t.week_index = week /\ t.spec = y[1] /\ t.occurrence = y[2]
      <4>1. OnSchedule(w, x)'
        BY <2>3, <3>2 DEF OnSchedule
      <4>2. QED
        BY <3>1, <4>1 DEF Outcome
    <3>3. CASE tasks' = tasks /\ unplaced' = unplaced \cup {y[1]}
      <4>1. ~OnSchedule(w, x)'
        BY <3>1, <3>3 DEF OnSchedule
      <4>2. x[1] \in unplaced'
        BY <2>3, <3>3
      <4>3. QED
        BY <3>1, <4>1, <4>2 DEF Outcome
    <3>4. QED
      BY Zenon, <1>6, <3>2, <3>3
  <2>4. CASE ~(w = week /\ x = y)
    <3>1. OnSchedule(w, x)' <=> OnSchedule(w, x)
      BY <1>7, <1>8, <2>1, <2>4
    <3>2. x[1] \in unplaced => x[1] \in unplaced'
      BY <1>6
    <3>3. w = week /\ x \in todo => w = week /\ x \in todo'
      BY <1>1, <1>2, <2>4
    <3>4. QED
      BY <1>1, <2>2, <3>1, <3>2, <3>3 DEF Outcome
  <2>5. QED
    BY <2>3, <2>4
<1>10. NothingIsLost'
  BY <1>1, <1>4, <1>9, NothingIsLostNext
<1>11. WeeksInOrder'
  <2>1. \A t \in Planted(tasks)' : t.week_index \in PlannedWeeks'
    BY <1>4, <1>5, <1>6 DEF WeeksInOrder, Planted
  <2>2. \A w, x : <<w, x>> \in trimmed' => w \in PlannedWeeks'
    BY <1>1, <1>4, <1>5 DEF WeeksInOrder
  <2>3. \A x \in todo' : ~OnSchedule(week, x)' /\ <<week, x>> \notin trimmed'
    <3>1. TAKE x \in todo'
    <3>2. x \in todo /\ x # y /\ x \in Planned(week)
      BY <1>1, <1>2 DEF JobFits
    <3>3. QED
      BY <1>1, <1>3, <1>5, <1>8, <3>2 DEF WeeksInOrder
  <2>4. QED
    BY <1>1, <2>1, <2>2, <2>3 DEF WeeksInOrder
<1>12. QED
  BY <1>10, <1>11 DEF Accounted

LEMMA AccountsOfEndWeek ==
  ASSUME TypeOK, JobFits, Accounted, EndWeek
  PROVE  Accounted'
<1>1. /\ step = "place" /\ step' = "week" /\ week' = week + 1 /\ todo = {} /\ todo' = {}
      /\ template' = template /\ trimmed' = trimmed /\ unplaced' = unplaced
  BY DEF EndWeek, Begin, inputs
<1>2. week \in Nat /\ PlannedWeeks = 0..week /\ PlannedWeeks' = 0..week
  <2>1. week \in Nat /\ week + 1 - 1 = week
    BY WeekNumbers
  <2>2. QED
    BY <1>1, <2>1 DEF PlannedWeeks
<1>3. NothingIsLost /\ WeeksInOrder
  BY <1>1 DEF Accounted
<1>4. PICK S : tasks' = tasks \cup S /\ \A t \in S : t.spec = 0
  <2>1. \A m : Checkpoint(m).spec = 0
    BY DEF Checkpoint
  <2>2. PICK ends : ends = {m \in Milestones(template) : template.milestones[m].target_week = week}
    OBVIOUS
  <2>3. tasks' = tasks \cup {Checkpoint(m) : m \in ends}
    BY <2>2 DEF EndWeek
  <2>4. \A t \in {Checkpoint(m) : m \in ends} : t.spec = 0
    BY <2>1
  <2>5. QED
    BY Zenon, <2>3, <2>4
<1>5. ASSUME NEW w \in 0..week, NEW x \in Planned(w)
      PROVE  Outcome(w, x)'
  <2>1. w \in Nat /\ w \in PlannedWeeks
    BY <1>2, <1>5
  <2>2. Outcome(w, x)
    BY <1>1, <1>3, <1>5, <2>1, NothingIsLostMeans
  <2>3. x[1] # 0
    BY <1>5, <2>1, KeysArePositive
  <2>4. OnSchedule(w, x)' <=> OnSchedule(w, x)
    BY <1>4, <2>3 DEF OnSchedule
  <2>5. QED
    BY <1>1, <2>2, <2>4 DEF Outcome
<1>6. NothingIsLost'
  BY <1>1, <1>2, <1>5, NothingIsLostNext
<1>7. WeeksInOrder'
  <2>1. Planted(tasks)' = Planted(tasks)
    BY <1>4 DEF Planted
  <2>2. QED
    BY <1>1, <1>2, <1>3, <2>1 DEF WeeksInOrder
<1>8. QED
  BY <1>6, <1>7 DEF Accounted

\* The weeks stay as they are while the job stays at work in the same place.
LEMMA SameAccounts ==
  ASSUME Accounted, template' = template, tasks' = tasks, trimmed' = trimmed,
         unplaced' = unplaced, todo' = todo, week' = week,
         step' = step \/ (step = "week" /\ step' = "store")
  PROVE  Accounted'
<1>1. SUFFICES ASSUME step' \in {"week", "place", "store"} PROVE NothingIsLost' /\ WeeksInOrder'
  BY DEF Accounted
<1>2. NothingIsLost /\ WeeksInOrder
  BY <1>1 DEF Accounted
<1>3. PlannedWeeks' = PlannedWeeks /\ (step' = "place" <=> step = "place")
  BY DEF PlannedWeeks
<1>4. \A w, x : OnSchedule(w, x)' <=> OnSchedule(w, x)
  BY DEF OnSchedule
<1>5. \A w, x : Outcome(w, x)' <=> Outcome(w, x)
  BY <1>4 DEF Outcome
<1>6. NothingIsLost'
  BY <1>2, <1>3, <1>5, NothingIsLostMeans, NothingIsLostNext
<1>7. WeeksInOrder'
  BY <1>2, <1>3, <1>4 DEF WeeksInOrder, Planted
<1>8. QED
  BY <1>6, <1>7

LEMMA AccountsKept == QuarterSpec => []Accounted
<1>1. QuarterInit => Accounted
  BY DEF QuarterInit, Init, Accounted
<1>2. PlacedWell /\ Accounted /\ [QuarterNext]_quarter => Accounted'
  <2>1. SUFFICES ASSUME PlacedWell, Accounted, [QuarterNext]_quarter PROVE Accounted'
    OBVIOUS
  <2>2. TypeOK /\ JobFits
    BY <2>1 DEF PlacedWell
  <2>3. CASE Deliver \/ GiveUp \/ AskAgain \/ StorePlan \/ Return \/ Crash
    BY <2>3 DEF Deliver, GiveUp, AskAgain, StorePlan, Return, Crash, Begin, Accounted
  <2>4. CASE AskModel
    <3>1. /\ step' = "week" /\ week' = 0 /\ tasks' = {} /\ trimmed' = {} /\ todo' = todo /\ todo = {}
      BY <2>2, <2>4 DEF AskModel, Begin, NothingPlaced, JobFits
    <3>2. PlannedWeeks' = {}
      BY <3>1 DEF PlannedWeeks
    <3>3. NothingIsLost'
      BY <3>2 DEF NothingIsLost
    <3>4. WeeksInOrder'
      BY <3>1 DEF WeeksInOrder, Planted
    <3>5. QED
      BY <3>3, <3>4 DEF Accounted
  <2>5. CASE Schedule
    BY <2>1, <2>2, <2>5, AccountsOfBeginWeek, AccountsOfPlacing, AccountsOfEndWeek DEF Schedule
  <2>6. CASE StoreTree
    <3>1. /\ step = "week" /\ step' = "store" /\ week' = week /\ todo' = todo
          /\ template' = template /\ tasks' = tasks /\ trimmed' = trimmed /\ unplaced' = unplaced
      BY <2>6 DEF StoreTree, Finished, Begin, inputs, result
    <3>2. QED
      BY <2>1, <3>1, SameAccounts
  <2>7. CASE UNCHANGED vars
    <3>1. /\ step' = step /\ week' = week /\ todo' = todo
          /\ template' = template /\ tasks' = tasks /\ trimmed' = trimmed /\ unplaced' = unplaced
      BY <2>7 DEF vars, inputs, result
    <3>2. QED
      BY <2>1, <3>1, SameAccounts
  <2>8. \/ Deliver \/ GiveUp \/ AskAgain \/ StorePlan \/ Return \/ Crash
        \/ AskModel \/ Schedule \/ StoreTree \/ UNCHANGED vars
    BY <2>1 DEF QuarterNext, Plans, Replaces, Ticks, quarter
  <2>9. QED
    BY <2>3, <2>4, <2>5, <2>6, <2>7, <2>8
<1>3. QED
  BY <1>1, <1>2, PlacingCorrect, PTL DEF QuarterSpec

\* Every occurrence of a template is in exactly one place: on the schedule, among the
\* trimmed, or -- by its key -- among the unplaced; or it is still to be placed
\* (schedule, ScheduleResult).
THEOREM NothingLost ==
  QuarterSpec => [](step \in {"week", "place", "store"} => NothingIsLost)
<1>1. Accounted => (step \in {"week", "place", "store"} => NothingIsLost)
  BY DEF Accounted
<1>2. QED
  BY <1>1, AccountsKept, PTL

-----------------------------------------------------------------------------
(* Sums over finite sets *)

\* If every set of numbers below n is in P so is n: then all numbers are.
LEMMA EveryNumber ==
  ASSUME NEW P, \A n \in Nat : (\A m \in Nat : m < n => m \in P) => n \in P
  PROVE  \A n \in Nat : n \in P
<1> DEFINE Missing == {n \in Nat : n \notin P}
<1>1. SUFFICES ASSUME Missing # {} PROVE FALSE
  OBVIOUS
<1>2. PICK n \in Missing : \A m \in Missing : n <= m
  <2>1. Missing \in SUBSET Nat
    OBVIOUS
  <2> HIDE DEF Missing
  <2>2. QED
    BY <2>1, <1>1, LeastNatural
<1>3. \A m \in Nat : m < n => m \in P
  <2>1. TAKE m \in Nat
  <2>2. HAVE m < n
  <2>3. SUFFICES ASSUME m \in Missing PROVE FALSE
    OBVIOUS
  <2>4. n <= m /\ n \in Nat
    BY <2>3, <1>2
  <2>5. QED
    BY <2>2, <2>4
<1>4. QED
  BY <1>2, <1>3

\* What holds of the empty set and carries over from a set with one element less holds
\* of every subset of a finite set.
LEMMA EverySubset ==
  ASSUME NEW S, IsFiniteSet(S), NEW P, {} \in P,
         \A T \in SUBSET S : \A x \in S \ T : T \in P => T \cup {x} \in P
  PROVE  \A T \in SUBSET S : T \in P
<1> DEFINE Sized == {n \in Nat : \A T \in SUBSET S : Cardinality(T) = n => T \in P}
<1>1. ASSUME NEW n \in Nat, \A m \in Nat : m < n => m \in Sized
      PROVE  n \in Sized
  <2>1. SUFFICES ASSUME NEW T \in SUBSET S, Cardinality(T) = n PROVE T \in P
    OBVIOUS
  <2>2. CASE T = {}
    BY <2>2
  <2>3. CASE T # {}
    <3>1. PICK x \in T : TRUE
      BY <2>3
    <3>2. IsFiniteSet(T)
      BY FS_Subset
    <3>3. Cardinality(T \ {x}) = n - 1 /\ n \in Nat /\ Cardinality(T \ {x}) \in Nat
      BY <2>1, <3>1, <3>2, FS_RemoveElement, FS_CardinalityType
    <3>4. n - 1 \in Nat /\ n - 1 < n
      BY <3>3
    <3>5. n - 1 \in Sized
      BY Zenon, <1>1, <3>4
    <3>6. T \ {x} \in P
      BY <3>3, <3>5
    <3>7. T = (T \ {x}) \cup {x} /\ x \in S \ (T \ {x}) /\ T \ {x} \in SUBSET S
      BY <3>1
    <3>8. QED
      BY Zenon, <3>6, <3>7
  <2>4. QED
    BY <2>2, <2>3
<1>2. \A n \in Nat : n \in Sized
  <2> HIDE DEF Sized
  <2>1. \A n \in Nat : (\A m \in Nat : m < n => m \in Sized) => n \in Sized
    BY Zenon, <1>1
  <2>2. QED
    BY Zenon, <2>1, EveryNumber
<1>3. TAKE T \in SUBSET S
<1>4. IsFiniteSet(T)
  BY FS_Subset
<1>5. Cardinality(T) \in Sized
  BY <1>2, <1>4, FS_CardinalityType
<1>6. QED
  BY <1>5

First(s) == CHOOSE x \in s : TRUE

\* g is the sum of f over every subset of S, taken in the order of First, as
\* Total takes it.
Sums(f, S, g) ==
    g = [s \in SUBSET S |-> IF s = {} THEN 0 ELSE f[First(s)] + g[s \ {First(s)}]]

LEMMA FirstIsIn == \A s : s # {} => First(s) \in s
  BY DEF First

\* There is such a g.
LEMMA SumsExist ==
  ASSUME NEW f, NEW S, IsFiniteSet(S)
  PROVE  \E g : Sums(f, S, g)
<1> DEFINE Upto(n) == {s \in SUBSET S : Cardinality(s) <= n}
           SumsUpto(n, g) ==
              g = [s \in Upto(n) |-> IF s = {} THEN 0 ELSE f[First(s)] + g[s \ {First(s)}]]
           Summed == {n \in Nat : \E g : SumsUpto(n, g)}
<1>1. \A s \in SUBSET S : IsFiniteSet(s) /\ Cardinality(s) \in Nat
  BY FS_Subset, FS_CardinalityType
<1>2. \A s \in SUBSET S : s # {} => /\ s \ {First(s)} \in SUBSET S
                                    /\ Cardinality(s \ {First(s)}) = Cardinality(s) - 1
  BY <1>1, FirstIsIn, FS_RemoveElement
<1>3. ASSUME NEW n \in Nat, \A m \in Nat : m < n => m \in Summed
      PROVE  n \in Summed
  <2>1. PICK h : n = 0 \/ SumsUpto(n - 1, h)
    <3>1. CASE n = 0
      BY <3>1
    <3>2. CASE n # 0
      <4>1. n - 1 \in Nat /\ n - 1 < n
        BY <3>2
      <4>2. n - 1 \in Summed
        BY Zenon, <4>1, <1>3
      <4>3. QED
        BY <4>2
    <3>3. QED
      BY <3>1, <3>2
  <2> DEFINE g == [s \in Upto(n) |-> IF s = {} THEN 0 ELSE f[First(s)] + h[s \ {First(s)}]]
  <2>2. ASSUME NEW s \in Upto(n), s # {}
        PROVE  g[s \ {First(s)}] = h[s \ {First(s)}]
    <3> DEFINE t == s \ {First(s)}
    <3>1. t \in SUBSET S /\ Cardinality(t) = Cardinality(s) - 1 /\ Cardinality(s) <= n
          /\ Cardinality(s) \in Nat /\ Cardinality(t) \in Nat
      BY <1>1, <1>2, <2>2
    <3>2. n # 0 /\ Cardinality(t) <= n - 1 /\ Cardinality(t) <= n
      BY <3>1
    <3>3. t \in Upto(n - 1) /\ t \in Upto(n)
      BY <3>1, <3>2
    <3>4. SumsUpto(n - 1, h)
      BY <2>1, <3>2
    <3>5. h[t] = IF t = {} THEN 0 ELSE f[First(t)] + h[t \ {First(t)}]
      <4> HIDE DEF t, Upto
      <4>1. QED
        BY <3>3, <3>4
    <3>6. g[t] = IF t = {} THEN 0 ELSE f[First(t)] + h[t \ {First(t)}]
      <4> HIDE DEF t, Upto
      <4>1. QED
        BY <3>3
    <3> HIDE DEF t, g
    <3>7. g[t] = h[t]
      BY <3>5, <3>6
    <3>8. QED
      BY <3>7 DEF t
  <2>3. SumsUpto(n, g)
    <3> HIDE DEF Upto
    <3>1. \A s \in Upto(n) : (IF s = {} THEN 0 ELSE f[First(s)] + h[s \ {First(s)}])
                           = (IF s = {} THEN 0 ELSE f[First(s)] + g[s \ {First(s)}])
      <4> HIDE DEF g
      <4>1. QED
        BY <2>2
    <3>2. QED
      BY Zenon, <3>1
  <2>4. QED
    <3> HIDE DEF g, SumsUpto
    <3>1. QED
      BY <2>3
<1>4. \A n \in Nat : n \in Summed
  <2> HIDE DEF Summed
  <2>1. \A n \in Nat : (\A m \in Nat : m < n => m \in Summed) => n \in Summed
    BY Zenon, <1>3
  <2>2. QED
    BY Zenon, <2>1, EveryNumber
<1>5. PICK g : SumsUpto(Cardinality(S), g)
  <2>1. Cardinality(S) \in Nat
    BY FS_CardinalityType
  <2>2. Cardinality(S) \in Summed
    BY Zenon, <1>4, <2>1
  <2>3. QED
    BY <2>2
<1>6. Upto(Cardinality(S)) = SUBSET S
  BY FS_Subset
<1>7. QED
  BY <1>5, <1>6 DEF Sums

LEMMA SumsStep ==
  ASSUME NEW f, NEW S, NEW g, Sums(f, S, g)
  PROVE  /\ g[{}] = 0
         /\ \A T \in SUBSET S : T # {} => g[T] = f[First(T)] + g[T \ {First(T)}]
<1>1. \A T \in SUBSET S : g[T] = IF T = {} THEN 0 ELSE f[First(T)] + g[T \ {First(T)}]
  BY DEF Sums
<1>2. {} \in SUBSET S
  OBVIOUS
<1>3. QED
  BY <1>1, <1>2

Amounts(f, S) == \A x \in S : f[x] \in Nat

\* Each summand can be taken out first.
AnyOrder(f, S, g) ==
    \A T \in SUBSET S : g[T] \in Nat /\ \A x \in T : g[T] = f[x] + g[T \ {x}]

\* A sum of natural numbers is one, and does not depend on the order.
LEMMA SumsAnyOrder ==
  ASSUME NEW f, NEW S, IsFiniteSet(S), NEW g, Sums(f, S, g), Amounts(f, S)
  PROVE  AnyOrder(f, S, g)
<1> USE DEF Amounts
<1> DEFINE Good(T) == g[T] \in Nat /\ \A x \in T : g[T] = f[x] + g[T \ {x}]
           Sized == {n \in Nat : \A T \in SUBSET S : Cardinality(T) = n => Good(T)}
<1>1. ASSUME NEW n \in Nat, \A m \in Nat : m < n => m \in Sized
      PROVE  n \in Sized
  <2>1. SUFFICES ASSUME NEW T \in SUBSET S, Cardinality(T) = n PROVE Good(T)
    OBVIOUS
  <2>2. CASE T = {}
    BY <2>2, SumsStep
  <2>3. CASE T # {}
    <3>1. IsFiniteSet(T)
      BY FS_Subset
    <3>2. ASSUME NEW x \in T
          PROVE  Good(T \ {x}) /\ T \ {x} \in SUBSET S
      <4>1. Cardinality(T \ {x}) = n - 1 /\ Cardinality(T \ {x}) \in Nat
        BY <2>1, <3>1, FS_RemoveElement, FS_Subset, FS_CardinalityType
      <4>2. n - 1 \in Nat /\ n - 1 < n
        BY <4>1
      <4>3. n - 1 \in Sized
        BY Zenon, <1>1, <4>2
      <4>4. QED
        BY <4>1, <4>3
    <3>3. PICK y : y = First(T)
      OBVIOUS
    <3>4. y \in T /\ g[T] = f[y] + g[T \ {y}] /\ f[y] \in Nat
      <4>1. y \in T
        BY <2>3, <3>3, FirstIsIn
      <4>2. \A U \in SUBSET S : U # {} => g[U] = f[First(U)] + g[U \ {First(U)}]
        BY SumsStep
      <4>3. g[T] = f[y] + g[T \ {y}]
        BY Zenon, <2>3, <3>3, <4>2
      <4>4. QED
        BY <4>1, <4>3
    <3>5. g[T \ {y}] \in Nat
      BY <3>2, <3>4
    <3>6. ASSUME NEW x \in T, x # y
          PROVE  g[T] = f[x] + g[T \ {x}]
      <4>1. x \in T \ {y} /\ y \in T \ {x} /\ (T \ {y}) \ {x} = (T \ {x}) \ {y} /\ f[x] \in Nat
        BY <3>4, <3>6
      <4>2. g[T \ {y}] = f[x] + g[(T \ {y}) \ {x}]
        BY <3>2, <3>4, <4>1
      <4>3. g[T \ {x}] = f[y] + g[(T \ {x}) \ {y}]
        BY <3>2, <3>6, <4>1
      <4>4. (T \ {x}) \ {y} \in SUBSET S /\ g[(T \ {x}) \ {y}] \in Nat
        <5>1. y \in T \ {x} /\ Good(T \ {x})
          BY <3>2, <3>6, <4>1
        <5>2. IsFiniteSet(T \ {x}) /\ Cardinality(T \ {x}) = n - 1
          BY <2>1, <3>1, FS_RemoveElement, FS_Subset
        <5>3. /\ Cardinality((T \ {x}) \ {y}) = n - 1 - 1
              /\ Cardinality((T \ {x}) \ {y}) \in Nat
          <6>1. /\ IsFiniteSet((T \ {x}) \ {y})
                /\ Cardinality((T \ {x}) \ {y}) = Cardinality(T \ {x}) - 1
            BY <5>1, <5>2, FS_RemoveElement
          <6>2. QED
            BY <5>2, <6>1, FS_CardinalityType
        <5>4. n - 1 - 1 \in Nat /\ n - 1 - 1 < n
          BY <5>3
        <5>5. n - 1 - 1 \in Sized
          BY Zenon, <1>1, <5>4
        <5>6. QED
          BY <5>3, <5>5
      <4>5. PICK r \in Nat : r = g[(T \ {x}) \ {y}]
        BY <4>4
      <4>6. g[T] = f[y] + (f[x] + r)
        BY <3>4, <4>1, <4>2, <4>5
      <4>7. g[T \ {x}] = f[y] + r
        BY <4>3, <4>5
      <4>8. QED
        BY <3>4, <4>1, <4>6, <4>7
    <3>7. g[T] \in Nat
      BY <3>4, <3>5
    <3>8. QED
      BY <3>4, <3>6, <3>7
  <2>4. QED
    BY <2>2, <2>3
<1>2. \A n \in Nat : n \in Sized
  <2> HIDE DEF Sized
  <2>1. \A n \in Nat : (\A m \in Nat : m < n => m \in Sized) => n \in Sized
    BY Zenon, <1>1
  <2>2. QED
    BY Zenon, <2>1, EveryNumber
<1>3. ASSUME NEW T \in SUBSET S PROVE Good(T)
  <2>1. IsFiniteSet(T)
    BY FS_Subset
  <2>2. Cardinality(T) \in Sized
    BY Zenon, <1>2, <2>1, FS_CardinalityType
  <2>3. QED
    BY <2>2
<1>4. QED
  BY <1>3 DEF AnyOrder

\* The sum over two sets that have nothing in common.
LEMMA SumsOfTwo ==
  ASSUME NEW f, NEW S, IsFiniteSet(S), NEW g, Sums(f, S, g), Amounts(f, S),
         NEW A \in SUBSET S, NEW B \in SUBSET S, A \cap B = {}
  PROVE  g[A \cup B] = g[A] + g[B] /\ g[A] \in Nat /\ g[B] \in Nat
<1> DEFINE P == {T \in SUBSET S : A \cap T = {} => g[A \cup T] = g[A] + g[T]}
<1>1. \A V \in SUBSET S : g[V] \in Nat /\ \A y \in V : g[V] = f[y] + g[V \ {y}]
  <2>1. AnyOrder(f, S, g)
    BY Zenon, SumsAnyOrder
  <2>2. QED
    BY Zenon, <2>1 DEF AnyOrder
<1>2. {} \in P
  <2>1. A \cup {} = A /\ g[{}] = 0 /\ g[A] \in Nat
    BY <1>1, SumsStep
  <2>2. QED
    BY <2>1
<1>3. ASSUME NEW T \in SUBSET S, NEW x \in S \ T, T \in P
      PROVE  T \cup {x} \in P
  <2>1. T \cup {x} \in SUBSET S
    OBVIOUS
  <2>2. SUFFICES ASSUME A \cap (T \cup {x}) = {}
                 PROVE  g[A \cup (T \cup {x})] = g[A] + g[T \cup {x}]
    BY <2>1
  <2>3. g[A \cup T] = g[A] + g[T]
    BY <1>3, <2>2
  <2>4. /\ A \cup (T \cup {x}) \in SUBSET S /\ x \in A \cup (T \cup {x}) /\ x \in T \cup {x}
        /\ (A \cup (T \cup {x})) \ {x} = A \cup T /\ (T \cup {x}) \ {x} = T
    BY <1>3, <2>2
  <2>5. PICK U, V : U = A \cup (T \cup {x}) /\ V = T \cup {x}
    OBVIOUS
  <2>6. /\ U \in SUBSET S /\ x \in U /\ U \ {x} = A \cup T
        /\ V \in SUBSET S /\ x \in V /\ V \ {x} = T
    BY Zenon, <2>1, <2>4, <2>5
  <2>7. g[U] = f[x] + g[A \cup T] /\ g[V] = f[x] + g[T]
    BY <1>1, <2>6
  <2>8. g[A] \in Nat /\ g[T] \in Nat /\ f[x] \in Nat
    BY <1>1 DEF Amounts
  <2>9. QED
    BY <2>3, <2>5, <2>7, <2>8
<1>4. \A T \in SUBSET S : T \in P
  <2> HIDE DEF P
  <2>1. \A T \in SUBSET S : \A x \in S \ T : T \in P => T \cup {x} \in P
    BY Zenon, <1>3
  <2>2. QED
    BY Zenon, <1>2, <2>1, EverySubset
<1>5. QED
  BY <1>1, <1>4

Zeros(f, A) == \A x \in A : f[x] = 0

\* A sum of zeros is zero.
LEMMA SumOfZeros ==
  ASSUME NEW f, NEW S, IsFiniteSet(S), NEW g, Sums(f, S, g), Amounts(f, S),
         NEW A \in SUBSET S, Zeros(f, A)
  PROVE  g[A] = 0
<1> USE DEF Zeros
<1> DEFINE P == {T \in SUBSET S : T \subseteq A => g[T] = 0}
<1>1. \A V \in SUBSET S : g[V] \in Nat /\ \A y \in V : g[V] = f[y] + g[V \ {y}]
  <2>1. AnyOrder(f, S, g)
    BY Zenon, SumsAnyOrder
  <2>2. QED
    BY Zenon, <2>1 DEF AnyOrder
<1>2. {} \in P
  BY SumsStep
<1>3. ASSUME NEW T \in SUBSET S, NEW x \in S \ T, T \in P
      PROVE  T \cup {x} \in P
  <2>1. SUFFICES ASSUME T \cup {x} \subseteq A PROVE g[T \cup {x}] = 0
    OBVIOUS
  <2>2. T \cup {x} \in SUBSET S /\ x \in T \cup {x} /\ (T \cup {x}) \ {x} = T
    BY <1>3
  <2>3. g[T \cup {x}] = f[x] + g[T]
    BY Zenon, <1>1, <2>2
  <2>4. f[x] = 0 /\ g[T] = 0
    BY <1>3, <2>1
  <2>5. QED
    BY <2>3, <2>4
<1>4. \A T \in SUBSET S : T \in P
  <2> HIDE DEF P
  <2>1. \A T \in SUBSET S : \A x \in S \ T : T \in P => T \cup {x} \in P
    BY Zenon, <1>3
  <2>2. QED
    BY Zenon, <1>2, <2>1, EverySubset
<1>5. QED
  BY <1>4

\* Two that sum the same numbers agree.
LEMMA SumsAgree ==
  ASSUME NEW f, NEW S, IsFiniteSet(S), NEW g, Sums(f, S, g),
         NEW e, NEW T, IsFiniteSet(T), NEW h, Sums(e, T, h),
         Amounts(f, S), Amounts(e, T),
         NEW A \in SUBSET S, A \in SUBSET T, \A x \in A : f[x] = e[x]
  PROVE  g[A] = h[A]
<1> DEFINE P == {U \in SUBSET S : U \subseteq A => g[U] = h[U]}
<1>1. \A V \in SUBSET S : g[V] \in Nat /\ \A y \in V : g[V] = f[y] + g[V \ {y}]
  <2>1. AnyOrder(f, S, g)
    BY Zenon, SumsAnyOrder
  <2>2. QED
    BY Zenon, <2>1 DEF AnyOrder
<1>2. \A V \in SUBSET T : h[V] \in Nat /\ \A y \in V : h[V] = e[y] + h[V \ {y}]
  <2>1. AnyOrder(e, T, h)
    BY Zenon, SumsAnyOrder
  <2>2. QED
    BY Zenon, <2>1 DEF AnyOrder
<1>3. {} \in P
  BY SumsStep
<1>4. ASSUME NEW U \in SUBSET S, NEW x \in S \ U, U \in P
      PROVE  U \cup {x} \in P
  <2>1. SUFFICES ASSUME U \cup {x} \subseteq A PROVE g[U \cup {x}] = h[U \cup {x}]
    OBVIOUS
  <2>2. /\ U \cup {x} \in SUBSET S /\ U \cup {x} \in SUBSET T
        /\ x \in U \cup {x} /\ (U \cup {x}) \ {x} = U
    BY <1>4, <2>1
  <2>3. g[U \cup {x}] = f[x] + g[U]
    BY Zenon, <1>1, <2>2
  <2>4. h[U \cup {x}] = e[x] + h[U]
    BY Zenon, <1>2, <2>2
  <2>5. f[x] = e[x] /\ g[U] = h[U]
    BY <1>4, <2>1
  <2>6. QED
    BY <2>3, <2>4, <2>5
<1>5. \A U \in SUBSET S : U \in P
  <2> HIDE DEF P
  <2>1. \A U \in SUBSET S : \A x \in S \ U : U \in P => U \cup {x} \in P
    BY Zenon, <1>4
  <2>2. QED
    BY Zenon, <1>3, <2>1, EverySubset
<1>6. QED
  BY <1>5

\* What Total computes is such a sum.
LEMMA TotalIsSum ==
  ASSUME NEW f, NEW S, S = DOMAIN f, IsFiniteSet(S)
  PROVE  \E h : Sums(f, S, h) /\ Total(f) = h[S]
<1> DEFINE Folded(h) == h = [s \in SUBSET S |->
              IF s = {} THEN 0 ELSE f[CHOOSE x \in s : TRUE] + h[s \ {CHOOSE x \in s : TRUE}]]
<1>1. Total(f) = (CHOOSE h : Folded(h))[S]
  BY DEF Total, MapThenSumSet, MapThenFoldSet
<1>2. \A h : Sums(f, S, h) <=> Folded(h)
  BY DEF Sums, First
<1> HIDE DEF Folded
<1>3. PICK h : Folded(h)
  BY <1>2, SumsExist
<1>4. Folded(CHOOSE k : Folded(k))
  BY Zenon, <1>3
<1>5. QED
  BY Zenon, <1>1, <1>2, <1>4

-----------------------------------------------------------------------------
(* A cut that is no deeper than needed *)

\* bef[x] is what goes before x, in a strict total order of S.
Ordered(S, bef) ==
    \A x \in S : /\ bef[x] \subseteq S /\ x \notin bef[x]
                 /\ \A y \in bef[x] : bef[y] \subseteq bef[x]
                 /\ \A y \in S : x = y \/ x \in bef[y] \/ y \in bef[x]

HasEnds(bef, A) ==
    /\ \E x \in A : \A y \in A : y = x \/ x \in bef[y]
    /\ \E x \in A : \A y \in A : y = x \/ y \in bef[x]

LEMMA FirstAndLast ==
  ASSUME NEW S, IsFiniteSet(S), NEW bef, Ordered(S, bef), NEW A \in SUBSET S, A # {}
  PROVE  HasEnds(bef, A)
<1> USE DEF HasEnds
<1> DEFINE P == {T \in SUBSET S : T # {} => HasEnds(bef, T)}
<1>1. {} \in P
  OBVIOUS
<1>2. ASSUME NEW T \in SUBSET S, NEW z \in S \ T, T \in P
      PROVE  T \cup {z} \in P
  <2>1. CASE T = {}
    BY <2>1
  <2>2. CASE T # {}
    <3>1. PICK a \in T : \A y \in T : y = a \/ a \in bef[y]
      BY <1>2, <2>2
    <3>2. PICK b \in T : \A y \in T : y = b \/ y \in bef[b]
      BY <1>2, <2>2
    <3>3. /\ z = a \/ a \in bef[z] \/ z \in bef[a]
          /\ z = b \/ b \in bef[z] \/ z \in bef[b]
      BY Zenon DEF Ordered
    <3>4. \E x \in T \cup {z} : \A y \in T \cup {z} : y = x \/ x \in bef[y]
      <4>1. CASE a \in bef[z]
        BY <4>1, <3>1
      <4>2. CASE z \in bef[a]
        <5>1. \A y \in T : z \in bef[y]
          BY <4>2, <3>1 DEF Ordered
        <5>2. QED
          BY <5>1
      <4>3. QED
        BY <4>1, <4>2, <3>1, <3>3, <1>2
    <3>5. \E x \in T \cup {z} : \A y \in T \cup {z} : y = x \/ y \in bef[x]
      <4>1. CASE b \in bef[z]
        <5>1. \A y \in T : y \in bef[z]
          BY <4>1, <3>2 DEF Ordered
        <5>2. QED
          BY <5>1
      <4>2. CASE z \in bef[b]
        BY <4>2, <3>2
      <4>3. QED
        BY <4>1, <4>2, <3>2, <3>3, <1>2
    <3>6. QED
      BY <3>4, <3>5
  <2>3. QED
    BY <2>1, <2>2
<1>3. \A T \in SUBSET S : T \in P
  <2> HIDE DEF P
  <2>1. \A T \in SUBSET S : \A x \in S \ T : T \in P => T \cup {x} \in P
    BY Zenon, <1>2
  <2>2. QED
    BY Zenon, <1>1, <2>1, EverySubset
<1>4. QED
  BY <1>3

\* A part sums to no more than the whole.
LEMMA SumOfPart ==
  ASSUME NEW f, NEW S, IsFiniteSet(S), NEW g, Sums(f, S, g), Amounts(f, S),
         NEW B \in SUBSET S, NEW A \in SUBSET B
  PROVE  /\ g[B] = g[A] + g[B \ A] /\ g[A] <= g[B]
         /\ g[A] \in Nat /\ g[B] \in Nat /\ g[B \ A] \in Nat
<1>1. PICK C : C = B \ A
  OBVIOUS
<1>2. A \in SUBSET S /\ C \in SUBSET S /\ A \cap C = {} /\ A \cup C = B
  BY <1>1
<1>3. g[A \cup C] = g[A] + g[C] /\ g[A] \in Nat /\ g[C] \in Nat
  BY Zenon, <1>2, SumsOfTwo
<1>4. g[B] = g[A] + g[C]
  BY Zenon, <1>2, <1>3
<1>5. QED
  BY <1>1, <1>3, <1>4

\* What is left of S is inside the limit, and with the last of D it would not be.
NoDeeper(f, S, g, bef, limit, D) ==
    /\ g[S \ D] <= limit
    /\ D # {} => \E last \in D :
         /\ g[S \ D] + f[last] > limit
         /\ \A x \in S \ {last} : f[x] > 0 => (x \in D <=> x \in bef[last])

\* Cutting in that order whatever is over the limit when its turn comes.
LEMMA CutIsExact ==
  ASSUME NEW f, NEW S, IsFiniteSet(S), NEW g, Sums(f, S, g), Amounts(f, S),
         NEW bef, Ordered(S, bef), NEW limit \in Nat,
         NEW D, D = {x \in S : f[x] > 0 /\ g[S] - g[bef[x]] > limit}
  PROVE  NoDeeper(f, S, g, bef, limit, D)
<1>1. \A A, B : B \in SUBSET S /\ A \in SUBSET B =>
         /\ g[B] = g[A] + g[B \ A] /\ g[A] <= g[B]
         /\ g[A] \in Nat /\ g[B] \in Nat /\ g[B \ A] \in Nat
  BY Zenon, SumOfPart
<1>2. PICK K : K = S \ D
  OBVIOUS
<1>3. K \in SUBSET S /\ D \in SUBSET S /\ S \in SUBSET S
  BY <1>2
<1>4. \A x \in S : bef[x] \in SUBSET S
  BY DEF Ordered
<1>5. g[K] <= limit
  <2> DEFINE L == {x \in K : f[x] > 0}
  <2>1. CASE L = {}
    <3>1. \A x \in K : f[x] = 0
      BY <1>3, <2>1 DEF Amounts
    <3>2. g[K] = 0
      <4>1. Zeros(f, K)
        BY <3>1 DEF Zeros
      <4>2. QED
        BY Zenon, <1>3, <4>1, SumOfZeros
    <3>3. QED
      BY <3>2
  <2>2. CASE L # {}
    <3>1. PICK x \in L : \A y \in L : y = x \/ x \in bef[y]
      <4>1. L \in SUBSET S
        BY <1>3
      <4> HIDE DEF L
      <4>2. HasEnds(bef, L)
        BY Zenon, <2>2, <4>1, FirstAndLast
      <4>3. QED
        BY Zenon, <4>2 DEF HasEnds
    <3>2. x \in S /\ x \in K /\ f[x] > 0 /\ bef[x] \in SUBSET S
      BY <1>3, <1>4, <3>1
    <3>3. PICK Rest : Rest = S \ bef[x]
      OBVIOUS
    <3>4. g[Rest] <= limit
      <4>1. g[S] = g[bef[x]] + g[Rest] /\ g[bef[x]] \in Nat /\ g[Rest] \in Nat
        BY Zenon, <1>1, <1>3, <3>2, <3>3
      <4>2. ~(g[S] - g[bef[x]] > limit)
        BY <1>2, <3>2
      <4>3. QED
        BY <4>1, <4>2
    <3>5. PICK E : E = K \cap bef[x]
      OBVIOUS
    <3>6. E \in SUBSET K /\ E \in SUBSET S /\ K \ E \in SUBSET Rest /\ Rest \in SUBSET S
      BY <1>3, <3>3, <3>5
    <3>7. \A y \in E : f[y] = 0
      <4>1. SUFFICES ASSUME NEW y \in E, f[y] # 0 PROVE FALSE
        OBVIOUS
      <4>2. f[y] > 0 /\ y \in K /\ y \in bef[x]
        BY <4>1, <3>5, <3>6 DEF Amounts
      <4>3. y = x \/ x \in bef[y]
        BY <3>1, <4>2
      <4>4. x \in bef[x]
        BY <3>2, <4>2, <4>3 DEF Ordered
      <4>5. QED
        BY <3>2, <4>4 DEF Ordered
    <3>8. g[E] = 0
      <4>1. Zeros(f, E)
        BY <3>7 DEF Zeros
      <4>2. QED
        BY Zenon, <3>6, <4>1, SumOfZeros
    <3>9. g[K] = g[E] + g[K \ E] /\ g[K \ E] \in Nat
      BY Zenon, <1>1, <1>3, <3>6
    <3>10. g[K \ E] <= g[Rest] /\ g[Rest] \in Nat
      BY Zenon, <1>1, <3>6
    <3>11. QED
      BY <3>4, <3>8, <3>9, <3>10
  <2>3. QED
    BY <2>1, <2>2
<1>6. ASSUME D # {}
      PROVE  \E last \in D :
                /\ g[K] + f[last] > limit
                /\ \A x \in S \ {last} : f[x] > 0 => (x \in D <=> x \in bef[last])
  <2>1. PICK last \in D : \A y \in D : y = last \/ y \in bef[last]
    <3>1. HasEnds(bef, D)
      BY Zenon, <1>3, <1>6, FirstAndLast
    <3>2. QED
      BY Zenon, <3>1 DEF HasEnds
  <2>2. last \in S /\ bef[last] \in SUBSET S /\ f[last] \in Nat
    BY <1>3, <1>4, <2>1 DEF Amounts
  <2>3. f[last] > 0 /\ g[S] - g[bef[last]] > limit
    BY <2>1
  <2>4. \A x \in S : x \in bef[last] /\ f[x] > 0 => x \in D
    <3>1. TAKE x \in S
    <3>2. HAVE x \in bef[last] /\ f[x] > 0
    <3>3. bef[x] \in SUBSET bef[last]
      BY <2>2, <3>2 DEF Ordered
    <3>4. g[bef[x]] <= g[bef[last]] /\ g[bef[x]] \in Nat /\ g[bef[last]] \in Nat
      BY Zenon, <1>1, <2>2, <3>3
    <3>5. g[S] \in Nat
      BY Zenon, <1>1, <1>3
    <3>6. g[S] - g[bef[x]] > limit
      BY <2>3, <3>4, <3>5
    <3>7. QED
      BY <3>2, <3>6
  <2>5. PICK Rest : Rest = S \ bef[last]
    OBVIOUS
  <2>6. g[S] = g[bef[last]] + g[Rest] /\ g[bef[last]] \in Nat /\ g[Rest] \in Nat
    BY Zenon, <1>1, <1>3, <2>2, <2>5
  <2>7. AnyOrder(f, S, g)
    BY Zenon, SumsAnyOrder
  <2>8. Rest \in SUBSET S /\ last \in Rest
    BY <2>2, <2>5 DEF Ordered
  <2>9. g[Rest] = f[last] + g[Rest \ {last}]
    BY Zenon, <2>7, <2>8 DEF AnyOrder
  <2>10. Rest \ {last} \in SUBSET K
    BY <1>2, <2>1, <2>5
  <2>11. g[Rest \ {last}] <= g[K] /\ g[Rest \ {last}] \in Nat /\ g[K] \in Nat
    BY Zenon, <1>1, <1>3, <2>10
  <2>12. g[K] + f[last] > limit
    BY <2>2, <2>3, <2>6, <2>9, <2>11
  <2>13. \A x \in S \ {last} : f[x] > 0 => (x \in D <=> x \in bef[last])
    BY <2>1, <2>4
  <2>14. QED
    BY <2>12, <2>13
<1>7. QED
  BY <1>2, <1>5, <1>6 DEF NoDeeper

-----------------------------------------------------------------------------
(* The quota of a week *)

LEMMA CostIsSum ==
  ASSUME NEW A, IsFiniteSet(A), NEW e, e = [x \in A |-> _cost(x)]
  PROVE  \E h : Sums(e, A, h) /\ Cost(A) = h[A]
<1>1. DOMAIN e = A /\ Cost(A) = Total(e)
  BY DEF Cost
<1>2. QED
  BY Zenon, <1>1, TotalIsSum

\* The occurrences of a week, their cost and their order.
LEMMA WeekOfTemplate ==
  ASSUME TypeOK, NEW w \in Nat
  PROVE  /\ IsFiniteSet(Planned(w))
         /\ \A x \in Planned(w) : /\ x = <<x[1], x[2]>> /\ x[1] \in Nat /\ x[2] \in Nat
                                  /\ _cost(x) \in Nat
                                  /\ Rank(template.tasks[x[1]].area) \in Nat
<1>1. template \in Answers
  BY DEF TypeOK
<1>2. IsFiniteSet(Keys(template)) /\ IsFiniteSet(Weekdays)
  <2>1. IsFiniteSet(Keys(template))
    BY <1>1, InputsAssumption DEF Keys
  <2>2. \A a \in Int : \A b \in Int : IsFiniteSet(a..b)
    BY Zenon, FS_Interval
  <2>3. IsFiniteSet(0..6)
    <3>1. 0 \in Int /\ 6 \in Int
      OBVIOUS
    <3>2. QED
      BY Zenon, <2>2, <3>1
  <2>4. QED
    BY <2>1, <2>3 DEF Weekdays
<1>3. IsFiniteSet(Keys(template) \X Weekdays)
  BY Zenon, <1>2, FS_Product
<1>4. IsFiniteSet(Planned(w))
  <2>1. Planned(w) \subseteq Keys(template) \X Weekdays
    BY DEF Planned
  <2>2. QED
    BY Zenon, <1>3, <2>1, FS_Subset
<1>5. ASSUME NEW x \in Planned(w)
      PROVE  /\ x = <<x[1], x[2]>> /\ x[1] \in Nat /\ x[2] \in Nat
             /\ _cost(x) \in Nat
             /\ Rank(template.tasks[x[1]].area) \in Nat
  <2>1. x = <<x[1], x[2]>> /\ x[1] \in Keys(template) /\ x[2] \in Nat
    BY PlannedPairs
  <2>2. x[1] \in Nat /\ template.tasks[x[1]].duration_minutes \in Nat
    BY <1>1, <2>1, SpecFields
  <2>3. PICK area : area = template.tasks[x[1]].area
    OBVIOUS
  <2>4. \E n \in DOMAIN Areas : area = Areas[n]
    BY <1>1, <2>1, <2>3, InputsAssumption DEF Keys
  <2>5. (CHOOSE n \in DOMAIN Areas : Areas[n] = area) \in DOMAIN Areas
    BY Zenon, <2>4
  <2>6. \A n \in DOMAIN Areas : n \in Nat
    BY DEF Areas
  <2>7. Rank(area) \in Nat
    BY <2>5, <2>6 DEF Rank
  <2>8. QED
    BY <2>1, <2>2, <2>3, <2>7 DEF _cost
<1>6. QED
  BY <1>4, <1>5

LEMMA QuotaIsNatural ==
  ASSUME TypeOK
  PROVE  quota.weekly_minutes \in Nat
<1>1. CASE stored_quota = {}
  BY <1>1 DEF quota, fallback
<1>2. CASE stored_quota # {}
  <2>1. quota \in stored_quota /\ stored_quota \in Quotas
    BY <1>2 DEF quota, TypeOK
  <2>2. QED
    BY <2>1, InputsAssumption
<1>3. QED
  BY <1>1, <1>2

\* A cut of week w that keeps it inside the quota and goes no deeper than needed.
ExactCut(w, D) ==
    /\ Cost(Planned(w) \ D) <= quota.weekly_minutes
    /\ D # {} => \E last \in D :
         /\ Cost(Planned(w) \ D) + _cost(last) > quota.weekly_minutes
         /\ \A x \in Planned(w) \ {last} : _cost(x) > 0 => (x \in D <=> CutBefore(x, last))

\* What _apply_quota cuts in a week is such a cut.
LEMMA QuotaOfWeek ==
  ASSUME TypeOK, NEW w \in Nat, NEW D, D = _apply_quota(w)
  PROVE  ExactCut(w, D)
<1>1. PICK S : S = Planned(w)
  OBVIOUS
<1>2. PICK f : f = [x \in S |-> _cost(x)]
  OBVIOUS
<1>3. PICK bef : bef = [x \in S |-> {y \in S : CutBefore(y, x)}]
  OBVIOUS
<1>4. PICK limit \in Nat : limit = quota.weekly_minutes
  BY QuotaIsNatural
<1>5. IsFiniteSet(S)
  BY <1>1, WeekOfTemplate
<1>6. PICK g : Sums(f, S, g)
  BY Zenon, <1>5, SumsExist
<1>7. Amounts(f, S)
  BY <1>1, <1>2, WeekOfTemplate DEF Amounts
<1>8. ASSUME NEW A \in SUBSET S
      PROVE  Cost(A) = g[A]
  <2>1. IsFiniteSet(A)
    BY <1>5, FS_Subset
  <2>2. PICK e : e = [x \in A |-> _cost(x)]
    OBVIOUS
  <2>3. PICK h : Sums(e, A, h) /\ Cost(A) = h[A]
    BY Zenon, <2>1, <2>2, CostIsSum
  <2>4. Amounts(e, A) /\ \A x \in A : f[x] = e[x]
    BY <1>2, <1>7, <2>2 DEF Amounts
  <2>5. A \in SUBSET A
    OBVIOUS
  <2>6. g[A] = h[A]
    BY <1>5, <1>6, <1>7, <2>1, <2>3, <2>4, <2>5, SumsAgree
  <2>7. QED
    BY <2>3, <2>6
<1>9. Ordered(S, bef)
  <2>1. \A x \in S : bef[x] = {y \in S : CutBefore(y, x)}
    BY <1>3
  <2>2. \A x \in S : ~CutBefore(x, x)
    BY <1>1, WeekOfTemplate DEF CutBefore
  <2>3. \A x \in S : \A y \in S : \A z \in S : CutBefore(z, y) /\ CutBefore(y, x) => CutBefore(z, x)
    BY <1>1, WeekOfTemplate DEF CutBefore
  <2>4. \A x \in S : \A y \in S : x = y \/ CutBefore(x, y) \/ CutBefore(y, x)
    BY <1>1, WeekOfTemplate DEF CutBefore
  <2>5. QED
    <3>1. ASSUME NEW x \in S
          PROVE  /\ bef[x] \subseteq S /\ x \notin bef[x]
                 /\ \A y \in bef[x] : bef[y] \subseteq bef[x]
                 /\ \A y \in S : x = y \/ x \in bef[y] \/ y \in bef[x]
      <4>1. \A y \in S : y \in bef[x] <=> CutBefore(y, x)
        BY <2>1
      <4>2. \A y \in S : x \in bef[y] <=> CutBefore(x, y)
        BY <2>1
      <4>3. bef[x] \subseteq S /\ x \notin bef[x]
        BY <2>1, <2>2
      <4>4. ASSUME NEW y \in bef[x], NEW z \in bef[y]
            PROVE  z \in bef[x]
        <5>1. y \in S /\ CutBefore(y, x)
          BY <2>1
        <5>2. z \in S /\ CutBefore(z, y)
          BY <2>1, <5>1
        <5>3. CutBefore(z, x)
          BY Zenon, <2>3, <5>1, <5>2
        <5>4. QED
          BY <4>1, <5>2, <5>3
      <4>5. \A y \in S : x = y \/ x \in bef[y] \/ y \in bef[x]
        BY Zenon, <2>4, <4>1, <4>2
      <4>6. QED
        BY Zenon, <4>3, <4>4, <4>5
    <3>2. QED
      BY Zenon, <3>1 DEF Ordered
<1>10. D = {x \in S : f[x] > 0 /\ g[S] - g[bef[x]] > limit}
  <2>1. \A x \in S : f[x] = _cost(x) /\ Cost({y \in S : CutBefore(y, x)}) = g[bef[x]]
    <3>1. TAKE x \in S
    <3>2. bef[x] \in SUBSET S /\ bef[x] = {y \in S : CutBefore(y, x)}
      BY <1>3
    <3>3. QED
      BY <1>2, <1>8, <3>2
  <2>2. Cost(S) = g[S]
    BY <1>8
  <2>3. D = {x \in S : _cost(x) > 0 /\ Cost(S) - Cost({y \in S : CutBefore(y, x)}) > limit}
    BY Zenon, <1>1, <1>4 DEF _apply_quota
  <2>4. QED
    BY <2>1, <2>2, <2>3
<1>11. NoDeeper(f, S, g, bef, limit, D)
  BY Zenon, <1>5, <1>6, <1>7, <1>9, <1>10, CutIsExact
<1>12. Cost(S \ D) = g[S \ D]
  BY <1>8
<1>13. \A last \in D : /\ last \in S /\ f[last] = _cost(last)
                       /\ \A x \in S : f[x] = _cost(x) /\ (x \in bef[last] <=> CutBefore(x, last))
  BY <1>2, <1>3, <1>10
<1>14. Cost(S \ D) <= limit
  BY <1>11, <1>12 DEF NoDeeper
<1>15. ASSUME D # {}
       PROVE  \E last \in D :
                 /\ Cost(S \ D) + _cost(last) > limit
                 /\ \A x \in S \ {last} : _cost(x) > 0 => (x \in D <=> CutBefore(x, last))
  <2>1. PICK last \in D :
           /\ g[S \ D] + f[last] > limit
           /\ \A x \in S \ {last} : f[x] > 0 => (x \in D <=> x \in bef[last])
    BY Zenon, <1>11, <1>15 DEF NoDeeper
  <2>2. Cost(S \ D) + _cost(last) > limit
    BY <1>12, <1>13, <2>1
  <2>3. \A x \in S \ {last} : _cost(x) > 0 => (x \in D <=> CutBefore(x, last))
    BY <1>13, <2>1
  <2>4. QED
    BY Zenon, <2>2, <2>3
<1>16. QED
  BY Zenon, <1>1, <1>4, <1>14, <1>15 DEF ExactCut

\* What _apply_quota cuts depends on the template and on the quota.
LEMMA SameCut ==
  ASSUME template' = template, stored_quota' = stored_quota
  PROVE  \A w : _apply_quota(w)' = _apply_quota(w)
<1>1. quota' = quota
  BY DEF quota
<1>2. \A area : Rank(area)' = Rank(area)
  BY <1>1 DEF Rank
<1>3. \A x : _cost(x)' = _cost(x)
  BY DEF _cost, AllDay
<1>4. \A w : Planned(w)' = Planned(w)
  BY SameTemplate
<1>5. \A x, y : CutBefore(x, y)' <=> CutBefore(x, y)
  BY <1>2 DEF CutBefore
<1>6. \A S : Cost(S)' = Cost(S)
  BY <1>3 DEF Cost
<1>7. ASSUME NEW w
      PROVE  _apply_quota(w)' = _apply_quota(w)
  <2>1. PICK P : P = Planned(w)
    OBVIOUS
  <2>2. PICK bef : bef = [x \in P |-> {y \in P : CutBefore(y, x)}]
    OBVIOUS
  <2>3. \A x \in P : /\ {y \in Planned(w) : CutBefore(y, x)} = bef[x]
                     /\ {y \in Planned(w) : CutBefore(y, x)}' = bef[x]
    BY <1>4, <1>5, <2>1, <2>2
  <2>4. _apply_quota(w) = {x \in P : _cost(x) > 0 /\ Cost(P) - Cost(bef[x]) > quota.weekly_minutes}
    BY <2>1, <2>3 DEF _apply_quota
  <2>5. _apply_quota(w)' =
          {x \in P : _cost(x)' > 0 /\ Cost(P)' - Cost(bef[x])' > quota'.weekly_minutes}
    BY <1>4, <2>1, <2>3 DEF _apply_quota
  <2>6. QED
    BY <1>1, <1>3, <1>6, <2>4, <2>5
<1>8. QED
  BY <1>7

\* The weeks that have been planned had exactly that cut.
WeeksAreCut ==
    step \in {"week", "place", "store"} => \A w \in PlannedWeeks : Dropped(w) = _apply_quota(w)

LEMMA CutsOfBeginWeek ==
  ASSUME TypeOK, JobFits, Accounted, WeeksAreCut, BeginWeek
  PROVE  WeeksAreCut'
<1>1. PICK cut : cut = _apply_quota(week)
  OBVIOUS
<1>2. /\ step = "week" /\ step' = "place" /\ week' = week
      /\ template' = template /\ stored_quota' = stored_quota
      /\ trimmed' = trimmed \cup {<<week, x>> : x \in cut}
  BY <1>1 DEF BeginWeek, Begin, inputs
<1>3. /\ week \in Nat /\ PlannedWeeks = 0..(week - 1) /\ PlannedWeeks' = 0..week
      /\ week \notin PlannedWeeks
  BY <1>2, WeekNumbers DEF PlannedWeeks
<1>4. \A x : <<week, x>> \notin trimmed
  BY <1>2, <1>3 DEF Accounted, WeeksInOrder
<1>5. ASSUME NEW w \in 0..week
      PROVE  Dropped(w)' = _apply_quota(w)'
  <2>1. Planned(w)' = Planned(w) /\ _apply_quota(w)' = _apply_quota(w)
    BY <1>2, SameTemplate, SameCut
  <2>2. Dropped(w)' = {x \in Planned(w) : <<w, x>> \in trimmed'}
    BY <2>1 DEF Dropped
  <2>3. CASE w = week
    <3>1. cut \subseteq Planned(w)
      BY <1>1, <2>3 DEF _apply_quota
    <3>2. QED
      BY <1>1, <1>2, <1>4, <2>1, <2>2, <2>3, <3>1
  <2>4. CASE w # week
    <3>1. Dropped(w)' = Dropped(w)
      BY <1>2, <2>2, <2>4 DEF Dropped
    <3>2. w \in PlannedWeeks
      BY <1>3, <1>5, <2>4
    <3>3. QED
      BY <1>2, <2>1, <3>1, <3>2 DEF WeeksAreCut
  <2>5. QED
    BY <2>3, <2>4
<1>6. QED
  BY <1>3, <1>5 DEF WeeksAreCut

\* Nothing is cut once a week is planned.
LEMMA SameCuts ==
  ASSUME WeeksAreCut, template' = template, stored_quota' = stored_quota, trimmed' = trimmed,
         step \in {"week", "place", "store"}, PlannedWeeks' = PlannedWeeks
  PROVE  WeeksAreCut'
<1>1. \A w : Planned(w)' = Planned(w) /\ _apply_quota(w)' = _apply_quota(w)
  BY SameTemplate, SameCut
<1>2. \A w : Dropped(w)' = Dropped(w)
  BY <1>1 DEF Dropped
<1>3. QED
  BY <1>1, <1>2 DEF WeeksAreCut

\* Every planned week stays inside the quota and is cut no deeper than needed, and every
\* occurrence ends up in exactly one place (_apply_quota, ScheduleResult).
THEOREM QuotaKept == QuarterSpec => []QuotaInv
<1>1. QuarterInit => WeeksAreCut
  BY DEF QuarterInit, Init, WeeksAreCut
<1>2. PlacedWell /\ Accounted /\ WeeksAreCut /\ [QuarterNext]_quarter => WeeksAreCut'
  <2>1. SUFFICES ASSUME PlacedWell, Accounted, WeeksAreCut, [QuarterNext]_quarter
                 PROVE  WeeksAreCut'
    OBVIOUS
  <2>2. TypeOK /\ JobFits
    BY <2>1 DEF PlacedWell
  <2>3. CASE Deliver \/ GiveUp \/ AskAgain \/ StorePlan \/ Return \/ Crash
    BY <2>3 DEF Deliver, GiveUp, AskAgain, StorePlan, Return, Crash, Begin, WeeksAreCut
  <2>4. CASE AskModel
    <3>1. step' = "week" /\ week' = 0
      BY <2>4 DEF AskModel, Begin
    <3>2. PlannedWeeks' = {}
      BY <3>1 DEF PlannedWeeks
    <3>3. QED
      BY <3>2 DEF WeeksAreCut
  <2>5. CASE BeginWeek
    BY <2>1, <2>2, <2>5, CutsOfBeginWeek
  <2>6. CASE Place
    <3>1. /\ step = "place" /\ step' = step /\ week' = week /\ trimmed' = trimmed
          /\ template' = template /\ stored_quota' = stored_quota
      BY <2>6 DEF Place, PlaceAllDay, PlaceTimed, LeaveUnplaced, inputs
    <3>2. PlannedWeeks' = PlannedWeeks
      BY <3>1 DEF PlannedWeeks
    <3>3. QED
      BY <2>1, <3>1, <3>2, SameCuts
  <2>7. CASE EndWeek
    <3>1. /\ step = "place" /\ step' = "week" /\ week' = week + 1 /\ trimmed' = trimmed
          /\ template' = template /\ stored_quota' = stored_quota
      BY <2>7 DEF EndWeek, Begin, inputs
    <3>2. week \in Nat /\ week + 1 - 1 = week
      BY <2>2, WeekNumbers
    <3>3. PlannedWeeks' = PlannedWeeks
      BY <3>1, <3>2 DEF PlannedWeeks
    <3>4. QED
      BY <2>1, <3>1, <3>3, SameCuts
  <2>8. CASE StoreTree
    <3>1. /\ step = "week" /\ step' = "store" /\ week' = week /\ trimmed' = trimmed
          /\ template' = template /\ stored_quota' = stored_quota
      BY <2>8 DEF StoreTree, Finished, Begin, inputs, result
    <3>2. PlannedWeeks' = PlannedWeeks
      BY <3>1 DEF PlannedWeeks
    <3>3. QED
      BY <2>1, <3>1, <3>2, SameCuts
  <2>9. CASE UNCHANGED vars
    <3>1. /\ step' = step /\ week' = week /\ trimmed' = trimmed
          /\ template' = template /\ stored_quota' = stored_quota
      BY <2>9 DEF vars, inputs, result
    <3>2. PlannedWeeks' = PlannedWeeks
      BY <3>1 DEF PlannedWeeks
    <3>3. CASE step \in {"week", "place", "store"}
      BY <2>1, <3>1, <3>2, <3>3, SameCuts
    <3>4. CASE step \notin {"week", "place", "store"}
      BY <3>1, <3>4 DEF WeeksAreCut
    <3>5. QED
      BY <3>3, <3>4
  <2>10. \/ Deliver \/ GiveUp \/ AskAgain \/ StorePlan \/ Return \/ Crash
         \/ AskModel \/ BeginWeek \/ Place \/ EndWeek \/ StoreTree \/ UNCHANGED vars
    BY <2>1 DEF QuarterNext, Plans, Replaces, Ticks, Schedule, quarter
  <2>11. QED
    BY <2>3, <2>4, <2>5, <2>6, <2>7, <2>8, <2>9, <2>10
<1>3. PlacedWell /\ Accounted /\ WeeksAreCut => QuotaInv
  <2>1. SUFFICES ASSUME PlacedWell, Accounted, WeeksAreCut, step \in {"week", "place", "store"}
                 PROVE  QuotaIsKept /\ NothingIsLost
    BY DEF QuotaInv
  <2>2. TypeOK
    BY <2>1 DEF PlacedWell
  <2>3. ASSUME NEW w \in PlannedWeeks
        PROVE  ExactCut(w, Dropped(w))
    <3>1. w \in Nat
      BY <2>2, <2>3, WeekNumbers DEF PlannedWeeks
    <3>2. PICK D : D = _apply_quota(w)
      OBVIOUS
    <3>3. Dropped(w) = D
      BY <2>1, <2>3, <3>2 DEF WeeksAreCut
    <3>4. ExactCut(w, D)
      BY Zenon, <2>2, <3>1, <3>2, QuotaOfWeek
    <3>5. QED
      BY <3>3, <3>4
  <2>4. QuotaIsKept
    BY <2>3 DEF QuotaIsKept, ExactCut
  <2>5. QED
    BY <2>1, <2>4 DEF Accounted
<1>4. QED
  BY <1>1, <1>2, <1>3, PlacingCorrect, AccountsKept, PTL DEF QuarterSpec

-----------------------------------------------------------------------------
(* Counting by classes *)

\* h counts, or weighs, the subsets of X.
Additive(h, X) ==
    /\ h[{}] = 0
    /\ \A A \in SUBSET X : h[A] \in Nat
    /\ \A A \in SUBSET X : \A B \in SUBSET X : A \cap B = {} => h[A \cup B] = h[A] + h[B]

LEMMA SumsAreAdditive ==
  ASSUME NEW f, NEW S, IsFiniteSet(S), NEW g, Sums(f, S, g), Amounts(f, S)
  PROVE  Additive(g, S)
<1>1. g[{}] = 0
  BY SumsStep
<1>2. \A A \in SUBSET S : g[A] \in Nat
  <2>1. AnyOrder(f, S, g)
    BY Zenon, SumsAnyOrder
  <2>2. QED
    BY <2>1 DEF AnyOrder
<1>3. ASSUME NEW A \in SUBSET S, NEW B \in SUBSET S, A \cap B = {}
      PROVE  g[A \cup B] = g[A] + g[B]
  BY <1>3, SumsOfTwo
<1>4. QED
  BY <1>1, <1>2, <1>3 DEF Additive

LEMMA UnionOfTwo ==
  ASSUME NEW A, NEW B, IsFiniteSet(A), IsFiniteSet(B), A \cap B = {}
  PROVE  Cardinality(A \cup B) = Cardinality(A) + Cardinality(B)
<1>1. Cardinality(A \cup B) = Cardinality(A) + Cardinality(B) - Cardinality(A \cap B)
  BY Zenon, FS_Union
<1>2. Cardinality(A) \in Nat /\ Cardinality(B) \in Nat /\ Cardinality(A \cap B) = 0
  BY FS_CardinalityType, FS_EmptySet
<1>3. QED
  BY <1>1, <1>2

LEMMA CardinalityIsAdditive ==
  ASSUME NEW X, IsFiniteSet(X), NEW h, h = [A \in SUBSET X |-> Cardinality(A)]
  PROVE  Additive(h, X)
<1>1. \A A \in SUBSET X : IsFiniteSet(A) /\ h[A] = Cardinality(A) /\ Cardinality(A) \in Nat
  BY FS_Subset, FS_CardinalityType
<1>2. h[{}] = 0
  BY <1>1, FS_EmptySet
<1>3. ASSUME NEW A \in SUBSET X, NEW B \in SUBSET X, A \cap B = {}
      PROVE  h[A \cup B] = h[A] + h[B]
  <2>1. Cardinality(A \cup B) = Cardinality(A) + Cardinality(B)
    BY Zenon, <1>1, <1>3, UnionOfTwo
  <2>2. A \cup B \in SUBSET X
    OBVIOUS
  <2>3. QED
    BY <1>1, <2>1, <2>2
<1>4. QED
  BY <1>1, <1>2, <1>3 DEF Additive

ByClass(cls, X, C, h, f) == f = [c \in C |-> h[{x \in X : cls[x] = c}]]
Covers(cls, X, C) == \A x \in X : cls[x] \in C

\* What the classes of X weigh adds up to what X weighs.
LEMMA SumOfClasses ==
  ASSUME NEW X, NEW h, Additive(h, X), NEW C, IsFiniteSet(C), NEW cls, Covers(cls, X, C),
         NEW f, ByClass(cls, X, C, h, f), NEW g, Sums(f, C, g)
  PROVE  g[C] = h[X]
<1> DEFINE In(K) == {x \in X : cls[x] \in K}
           P == {K \in SUBSET C : g[K] = h[In(K)]}
<1>1. \A c \in C : f[c] = h[{x \in X : cls[x] = c}] /\ f[c] \in Nat
  <2>1. \A c \in C : f[c] = h[{x \in X : cls[x] = c}]
    BY DEF ByClass
  <2>2. \A c : {x \in X : cls[x] = c} \in SUBSET X
    OBVIOUS
  <2>3. QED
    BY <2>1, <2>2 DEF Additive
<1>2. \A V \in SUBSET C : g[V] \in Nat /\ \A y \in V : g[V] = f[y] + g[V \ {y}]
  <2>1. Amounts(f, C)
    BY <1>1 DEF Amounts
  <2>2. AnyOrder(f, C, g)
    BY Zenon, <2>1, SumsAnyOrder
  <2>3. QED
    BY Zenon, <2>2 DEF AnyOrder
<1>3. {} \in P
  <2>1. g[{}] = 0 /\ In({}) = {}
    BY SumsStep
  <2>2. QED
    BY <2>1 DEF Additive
<1>4. ASSUME NEW K \in SUBSET C, NEW c \in C \ K, K \in P
      PROVE  K \cup {c} \in P
  <2>1. g[K \cup {c}] = f[c] + g[K]
    <3>1. K \cup {c} \in SUBSET C /\ c \in K \cup {c} /\ (K \cup {c}) \ {c} = K
      BY <1>4
    <3>2. QED
      BY Zenon, <1>2, <3>1
  <2>2. PICK A, B : A = In(K) /\ B = {x \in X : cls[x] = c}
    OBVIOUS
  <2>3. /\ A \in SUBSET X /\ B \in SUBSET X /\ B \cap A = {} /\ In(K \cup {c}) = B \cup A
    BY <1>4, <2>2
  <2>4. h[B \cup A] = h[B] + h[A]
    BY Zenon, <2>3 DEF Additive
  <2>5. g[K] = h[A] /\ f[c] = h[B]
    BY <1>1, <1>4, <2>2
  <2>6. K \cup {c} \in SUBSET C
    OBVIOUS
  <2>7. QED
    BY <2>1, <2>3, <2>4, <2>5, <2>6
<1>5. \A K \in SUBSET C : K \in P
  <2> HIDE DEF P
  <2>1. \A K \in SUBSET C : \A c \in C \ K : K \in P => K \cup {c} \in P
    BY Zenon, <1>4
  <2>2. QED
    BY Zenon, <1>3, <2>1, EverySubset
<1>6. In(C) = X
  BY DEF Covers
<1>7. QED
  BY <1>5, <1>6

-----------------------------------------------------------------------------
(* A retreat *)

\* Rounded to four decimals, a share of less than half stays below it, but for wholes of
\* ten thousand and more.
LEMMA RoundedBelowHalf ==
  ASSUME NEW d \in Nat, NEW n \in Nat, 0 < n, n < Whole
  PROVE  2 * Round(Whole * d, n) < Whole <=> 2 * d < n
<1>1. PICK q \in Nat, r \in Nat : /\ q = (10000 * d) \div n /\ r = (10000 * d) % n
                                  /\ 10000 * d = q * n + r /\ r < n
  <2>1. PICK m \in Nat : m = 10000 * d
    OBVIOUS
  <2>2. PICK q, r : q = m \div n /\ r = m % n
    OBVIOUS
  <2>3. q \in Nat
    BY <2>2
  <2>4. r \in Nat /\ r < n
    BY <2>2
  <2>5. m = q * n + r
    BY <2>2
  <2>6. QED
    BY <2>1, <2>2, <2>3, <2>4, <2>5
<1>2. Round(Whole * d, n) = IF 2 * r > n \/ (2 * r = n /\ q % 2 = 1) THEN q + 1 ELSE q
  BY <1>1 DEF Round, Whole
<1>3. CASE q >= 5000
  <2>1. q * n >= 5000 * n
    BY <1>3
  <2>2. 2 * d >= n
    BY <1>1, <2>1
  <2>3. QED
    BY <1>2, <1>3, <2>2 DEF Whole
<1>4. CASE q <= 4998
  <2>1. q * n <= 4998 * n
    BY <1>4
  <2>2. 2 * d < n
    BY <1>1, <2>1
  <2>3. QED
    BY <1>2, <1>4, <2>2 DEF Whole
<1>5. CASE q = 4999
  <2>1. 10000 * d = 4999 * n + r
    BY <1>1, <1>5
  <2>2. Round(Whole * d, n) = IF 2 * r >= n THEN 5000 ELSE 4999
    BY <1>2, <1>5
  <2>3. CASE 2 * r >= n
    <3>1. 20000 * d >= 9999 * n
      BY <2>1, <2>3
    <3>2. ~(2 * d < n)
      BY <3>1 DEF Whole
    <3>3. QED
      BY <2>2, <2>3, <3>2 DEF Whole
  <2>4. CASE 2 * r < n
    <3>1. 2 * d < n
      BY <2>1, <2>4
    <3>2. QED
      BY <2>2, <2>4, <3>1 DEF Whole
  <2>5. QED
    BY <2>3, <2>4
<1>6. QED
  BY <1>3, <1>4, <1>5

\* Different elements with different images: as many of one as of the other.
OneForOne(f, S) == \A x \in S : \A y \in S : f[x] = f[y] => x = y

ImageOf(f, S, T) == T = {f[x] : x \in S}

LEMMA AsMany ==
  ASSUME NEW S, IsFiniteSet(S), NEW f, OneForOne(f, S), NEW T, ImageOf(f, S, T)
  PROVE  IsFiniteSet(T) /\ Cardinality(T) = Cardinality(S)
<1> USE DEF ImageOf
<1>1. PICK g : g = [x \in S |-> f[x]]
  OBVIOUS
<1>2. g \in Surjection(S, T)
  BY <1>1 DEF Surjection
<1>3. g \in Injection(S, T)
  BY <1>1 DEF Injection, IsInjective, OneForOne
<1>4. QED
  BY Zenon, <1>2, <1>3, FS_Surjection

\* A task is added, or removed, when only one side has its key.
LEMMA AddedAndRemoved ==
  ASSUME NEW B, NEW T, NEW a \in Keyed(B \cup T)
  PROVE  /\ Entry(B, T, a).kind = "removed" <=> a \in Keyed(B) \ Keyed(T)
         /\ Entry(B, T, a).kind = "added" <=> a \in Keyed(T) \ Keyed(B)
         /\ Entry(B, T, a).key = a
<1>1. \A S : Aligned(S, a) = {} <=> a \notin Keyed(S)
  BY DEF Aligned, Keyed
<1>2. a \in Keyed(B) \/ a \in Keyed(T)
  BY DEF Keyed
<1>3. \A x, y : _kind(x, y) # "removed" /\ _kind(x, y) # "added"
  BY DEF _kind
<1>4. /\ Entry(B, T, a).key = a
      /\ \/ a \notin Keyed(B) /\ Entry(B, T, a).kind = "added"
         \/ a \in Keyed(B) /\ a \notin Keyed(T) /\ Entry(B, T, a).kind = "removed"
         \/ a \in Keyed(B) /\ a \in Keyed(T) /\ \E x, y : Entry(B, T, a).kind = _kind(x, y)
  BY <1>1 DEF Entry
<1>5. QED
  BY <1>2, <1>3, <1>4

\* More is removed than added exactly when there is less to do than before.
LEMMA MoreRemovedThanAdded ==
  ASSUME NEW B, NEW T, IsFiniteSet(B), IsFiniteSet(T), DistinctKeys(B), DistinctKeys(T),
         NEW changes, changes = OfKind(diff_tasks(B, T), Kinds)
  PROVE  Cardinality(OfKind(changes, {"removed"})) > Cardinality(OfKind(changes, {"added"}))
            <=> Cardinality(T) < Cardinality(B)
<1>1. ASSUME NEW S, IsFiniteSet(S), DistinctKeys(S)
      PROVE  IsFiniteSet(Keyed(S)) /\ Cardinality(Keyed(S)) = Cardinality(S)
  <2>1. PICK f : f = [t \in S |-> _align(t)]
    OBVIOUS
  <2>2. ImageOf(f, S, Keyed(S))
    BY <2>1 DEF Keyed, ImageOf
  <2>3. OneForOne(f, S)
    BY <1>1, <2>1 DEF OneForOne, DistinctKeys
  <2>4. QED
    BY Zenon, <1>1, <2>2, <2>3, AsMany
<1>2. PICK entry : entry = [a \in Keyed(B \cup T) |-> Entry(B, T, a)]
  OBVIOUS
<1>3. \A a \in Keyed(B \cup T) :
         /\ entry[a].kind = "removed" <=> a \in Keyed(B) \ Keyed(T)
         /\ entry[a].kind = "added" <=> a \in Keyed(T) \ Keyed(B)
         /\ entry[a].key = a
  <2>1. TAKE a \in Keyed(B \cup T)
  <2>2. entry[a] = Entry(B, T, a)
    BY <1>2
  <2>3. /\ Entry(B, T, a).kind = "removed" <=> a \in Keyed(B) \ Keyed(T)
        /\ Entry(B, T, a).kind = "added" <=> a \in Keyed(T) \ Keyed(B)
        /\ Entry(B, T, a).key = a
    BY Zenon, <2>1, AddedAndRemoved
  <2>4. QED
    BY <2>2, <2>3
<1>4. Keyed(B \cup T) = Keyed(B) \cup Keyed(T)
  BY DEF Keyed
<1>5. changes = {e \in {entry[a] : a \in Keyed(B \cup T)} : e.kind \in Kinds}
  BY <1>2 DEF OfKind, diff_tasks, Keyed
<1>6. \A e : e \in changes <=> \E a \in Keyed(B \cup T) : e = entry[a] /\ e.kind \in Kinds
  BY <1>5
<1>7. ImageOf(entry, Keyed(B) \ Keyed(T), OfKind(changes, {"removed"}))
  <2>1. \A e : e \in OfKind(changes, {"removed"}) <=> e \in changes /\ e.kind = "removed"
    BY DEF OfKind
  <2>2. \A e : e \in OfKind(changes, {"removed"})
                  <=> \E a \in Keyed(B \cup T) : e = entry[a] /\ e.kind = "removed"
    BY <1>6, <2>1 DEF Kinds
  <2>3. \A e : e \in OfKind(changes, {"removed"})
                  <=> \E a \in Keyed(B) \ Keyed(T) : e = entry[a]
    <3>1. \A a : a \in Keyed(B) \ Keyed(T)
                    <=> a \in Keyed(B \cup T) /\ entry[a].kind = "removed"
      BY <1>3, <1>4
    <3>2. QED
      BY <2>2, <3>1
  <2>4. QED
    BY <2>3 DEF ImageOf
<1>7b. ImageOf(entry, Keyed(T) \ Keyed(B), OfKind(changes, {"added"}))
  <2>1. \A e : e \in OfKind(changes, {"added"}) <=> e \in changes /\ e.kind = "added"
    BY DEF OfKind
  <2>2. \A e : e \in OfKind(changes, {"added"})
                  <=> \E a \in Keyed(B \cup T) : e = entry[a] /\ e.kind = "added"
    BY <1>6, <2>1 DEF Kinds
  <2>3. \A e : e \in OfKind(changes, {"added"})
                  <=> \E a \in Keyed(T) \ Keyed(B) : e = entry[a]
    BY <1>3, <1>4, <2>2
  <2>4. QED
    BY <2>3 DEF ImageOf
<1>8. PICK KB, KT, R, A : /\ KB = Keyed(B) /\ KT = Keyed(T)
                          /\ R = KB \ KT /\ A = KT \ KB
  OBVIOUS
<1>9. /\ IsFiniteSet(KB) /\ IsFiniteSet(KT) /\ IsFiniteSet(R) /\ IsFiniteSet(A)
      /\ IsFiniteSet(KB \cap KT)
      /\ Cardinality(KB) = Cardinality(B) /\ Cardinality(KT) = Cardinality(T)
  BY <1>1, <1>8, FS_Subset
<1>10. OneForOne(entry, R) /\ OneForOne(entry, A)
  <2>1. \A a \in R \cup A : entry[a].key = a
    BY <1>3, <1>4, <1>8
  <2>2. QED
    BY <2>1 DEF OneForOne
<1>11. /\ Cardinality(OfKind(changes, {"removed"})) = Cardinality(R)
       /\ Cardinality(OfKind(changes, {"added"})) = Cardinality(A)
  <2>1. ImageOf(entry, R, OfKind(changes, {"removed"}))
    BY Zenon, <1>7, <1>8
  <2>2. ImageOf(entry, A, OfKind(changes, {"added"}))
    BY Zenon, <1>7b, <1>8
  <2>3. QED
    BY Zenon, <1>9, <1>10, <2>1, <2>2, AsMany
<1>12. /\ Cardinality(KB) = Cardinality(R) + Cardinality(KB \cap KT)
       /\ Cardinality(KT) = Cardinality(A) + Cardinality(KB \cap KT)
  <2>2. /\ R \cap (KB \cap KT) = {} /\ R \cup (KB \cap KT) = KB
        /\ A \cap (KB \cap KT) = {} /\ A \cup (KB \cap KT) = KT
    BY <1>8
  <2>3. QED
    BY Zenon, <1>9, <2>2, UnionOfTwo
<1>13. /\ Cardinality(R) \in Nat /\ Cardinality(A) \in Nat /\ Cardinality(KB \cap KT) \in Nat
  BY <1>9, FS_CardinalityType
<1>14. QED
  BY <1>9, <1>11, <1>12, <1>13

\* All statuses together count every row.
LEMMA CountsAddUp ==
  ASSUME IsFiniteSet(tree), status \in [tree -> TaskStatuses]
  PROVE  Total(counts_by_status) = Cardinality(tree)
<1>1. PICK f, C, h : /\ f = counts_by_status /\ C = TaskStatuses
                     /\ h = [A \in SUBSET tree |-> Cardinality(A)]
  OBVIOUS
<1>2. IsFiniteSet(C)
  <2>1. \A S, x : IsFiniteSet(S) => IsFiniteSet(S \cup {x})
    BY Zenon, FS_AddElement
  <2>2. IsFiniteSet((({"pending"} \cup {"done"}) \cup {"missed"}) \cup {"skipped"})
    BY Zenon, <2>1, FS_Singleton
  <2>3. C = (({"pending"} \cup {"done"}) \cup {"missed"}) \cup {"skipped"}
    BY <1>1 DEF TaskStatuses
  <2>4. QED
    BY <2>2, <2>3
<1>3. C = DOMAIN f
  BY <1>1 DEF counts_by_status
<1>4. PICK g : Sums(f, C, g) /\ Total(f) = g[C]
  BY Zenon, <1>2, <1>3, TotalIsSum
<1>5. Additive(h, tree)
  BY Zenon, <1>1, CardinalityIsAdditive
<1>6. Covers(status, tree, C)
  BY <1>1 DEF Covers
<1>7. ByClass(status, tree, C, h, f)
  <2>1. \A s \in C : /\ {t \in tree : status[t] = s} \in SUBSET tree
                     /\ h[{t \in tree : status[t] = s}] = Cardinality({t \in tree : status[t] = s})
    BY <1>1
  <2>2. QED
    BY <1>1, <2>1 DEF ByClass, counts_by_status
<1>8. g[C] = h[tree]
  BY <1>2, <1>4, <1>5, <1>6, <1>7, SumOfClasses
<1>9. QED
  BY <1>1, <1>4, <1>8

\* Every row has a status, a template keeps its rules, and each of its milestones has a
\* checkpoint once its week is over: no stored tree is empty.
RowsAreTicked ==
    /\ IsFiniteSet(tasks) /\ IsFiniteSet(tree) /\ IsFiniteSet(baseline)
    /\ status \in [tree -> TaskStatuses]
    /\ step \in {"week", "place"} =>
          /\ \A m \in Milestones(template) : template.milestones[m].target_week < template.duration_weeks
          /\ (\E m \in Milestones(template) : template.milestones[m].target_week < week) => tasks # {}
    /\ tree = {} => baseline = {}

\* What a step of `schedule` adds is finite, and a week that ends leaves its checkpoints.
LEMMA TickedInPlace ==
  ASSUME TypeOK, RowsAreTicked, Schedule
  PROVE  /\ IsFiniteSet(tasks') /\ template' = template
         /\ tree' = tree /\ baseline' = baseline
         /\ step \in {"week", "place"} /\ tasks \subseteq tasks'
         /\ (\E m \in Milestones(template) : template.milestones[m].target_week < week') => tasks' # {}
<1>1. IsFiniteSet(tasks) /\ week \in Nat /\ template \in Answers
  BY WeekNumbers DEF RowsAreTicked, TypeOK
<1>2. ASSUME step \in {"week", "place"}, tasks \subseteq tasks', week' = week
      PROVE  (\E m \in Milestones(template) : template.milestones[m].target_week < week') => tasks' # {}
  BY <1>2 DEF RowsAreTicked
<1>3. CASE BeginWeek
  <2>1. /\ template' = template /\ tree' = tree /\ baseline' = baseline
        /\ step = "week" /\ tasks' = tasks /\ week' = week
    BY <1>3 DEF BeginWeek, Begin, inputs, rows
  <2>2. QED
    BY <1>1, <1>2, <2>1
<1>4. CASE Place
  <2>1. /\ template' = template /\ tree' = tree /\ baseline' = baseline
        /\ step = "place" /\ week' = week
        /\ tasks' = tasks \/ \E t : tasks' = tasks \cup {t}
    BY <1>4 DEF Place, PlaceAllDay, PlaceTimed, LeaveUnplaced, inputs, rows
  <2>2. IsFiniteSet(tasks') /\ tasks \subseteq tasks'
    BY <1>1, <2>1, FS_AddElement
  <2>3. QED
    BY <1>2, <2>1, <2>2
<1>5. CASE EndWeek
  <2>1. PICK ends : ends = {m \in Milestones(template) : template.milestones[m].target_week = week}
    OBVIOUS
  <2>2. PICK f : f = [m \in ends |-> Checkpoint(m)]
    OBVIOUS
  <2>3. PICK S : S = {f[m] : m \in ends}
    OBVIOUS
  <2>4. /\ template' = template /\ tree' = tree /\ baseline' = baseline
        /\ step = "place" /\ week' = week + 1 /\ tasks' = tasks \cup S
    BY <1>5, <2>1, <2>2, <2>3 DEF EndWeek, Begin, inputs, rows
  <2>5. IsFiniteSet(S)
    <3>1. IsFiniteSet(Milestones(template)) /\ ends \in SUBSET Milestones(template)
      BY <1>1, <2>1, InputsAssumption DEF Milestones
    <3>2. IsFiniteSet(ends) /\ DOMAIN f = ends
      BY <2>2, <3>1, FS_Subset
    <3>3. QED
      BY Zenon, <2>3, <3>2, FiniteImage
  <2>6. IsFiniteSet(tasks') /\ tasks \subseteq tasks'
    BY <1>1, <2>4, <2>5, FS_Union
  <2>7. ASSUME NEW m \in Milestones(template), template.milestones[m].target_week < week'
        PROVE  tasks' # {}
    <3>1. template.milestones[m].target_week \in Nat
      BY <1>1, InputsAssumption DEF Milestones
    <3>2. CASE template.milestones[m].target_week < week
      BY <2>4, <2>6, <3>2 DEF RowsAreTicked
    <3>3. CASE template.milestones[m].target_week = week
      <4>1. f[m] \in S
        BY <2>1, <2>3, <3>3
      <4>2. QED
        BY <2>4, <4>1
    <3>4. QED
      BY <1>1, <2>4, <2>7, <3>1, <3>2, <3>3
  <2>8. QED
    BY <2>4, <2>6, <2>7
<1>6. QED
  BY <1>3, <1>4, <1>5 DEF Schedule

LEMMA RowsKept == QuarterSpec => []RowsAreTicked
<1>1. QuarterInit => RowsAreTicked
  BY FS_EmptySet DEF QuarterInit, Init, RowsAreTicked
<1>2. PlacedWell /\ RowsAreTicked /\ [QuarterNext]_quarter => RowsAreTicked'
  <2>1. SUFFICES ASSUME PlacedWell, RowsAreTicked, [QuarterNext]_quarter PROVE RowsAreTicked'
    OBVIOUS
  <2>2. TypeOK /\ RowsFit
    BY <2>1 DEF PlacedWell
  <2>3. CASE Schedule /\ UNCHANGED status
    <3>1. status' \in [tree' -> TaskStatuses]
      BY <2>1, <2>2, <2>3, TickedInPlace DEF RowsAreTicked
    <3>2. QED
      BY <2>1, <2>2, <2>3, <3>1, TickedInPlace DEF RowsAreTicked, Milestones
  <2>4. CASE AskModel /\ UNCHANGED status
    <3>1. /\ tasks' = {} /\ tree' = tree /\ baseline' = baseline /\ week' = 0 /\ status' = status
          /\ shape_rules(template')
          /\ template' \in Answers
      BY <2>4 DEF AskModel, NothingPlaced, Begin, rows
    <3>2. \A m \in Milestones(template') :
             /\ template'.milestones[m].target_week < template'.duration_weeks
             /\ ~(template'.milestones[m].target_week < 0)
      BY <3>1, InputsAssumption DEF shape_rules, Milestones
    <3>3. QED
      BY <2>1, <3>1, <3>2, FS_EmptySet DEF RowsAreTicked, Milestones
  <2>5. CASE Replaces
    <3>1. /\ tasks' = tasks /\ tree' = tasks /\ baseline' = baseline /\ step' = "store"
          /\ status' = [t \in tree' |-> "pending"]
          /\ step = "week" /\ week = template.duration_weeks
      BY <2>5 DEF Replaces, StoreTree, Finished, Begin, result
    <3>2. tasks # {}
      <4>1. PICK m \in Milestones(template) : TRUE
        BY <2>2, InputsAssumption DEF TypeOK, Milestones
      <4>2. QED
        BY <2>1, <3>1, <4>1 DEF RowsAreTicked
    <3>3. status' \in [tree' -> TaskStatuses]
      BY <3>1 DEF TaskStatuses
    <3>4. QED
      BY <2>1, <3>1, <3>2, <3>3 DEF RowsAreTicked
  <2>6. CASE StorePlan /\ UNCHANGED status
    <3>1. /\ tasks' = tasks /\ tree' = tree /\ baseline' = tasks /\ step' = "return"
          /\ status' = status /\ tree = tasks
      BY <2>2, <2>6 DEF StorePlan, Begin, result, RowsFit
    <3>2. QED
      BY <2>1, <3>1 DEF RowsAreTicked
  <2>7. CASE Ticks
    <3>1. /\ tasks' = tasks /\ tree' = tree /\ baseline' = baseline
          /\ step' = step /\ step = "over"
      BY <2>7 DEF Ticks, vars, result, rows
    <3>2. PICK w \in {t.week_index : t \in tree}, s \in TaskStatuses \ {"pending"} :
             status' = [t \in tree |-> IF t.week_index = w THEN s ELSE status[t]]
      BY Zenon, <2>7 DEF Ticks
    <3>3. status' \in [tree' -> TaskStatuses]
      BY <2>1, <3>1, <3>2 DEF RowsAreTicked
    <3>4. QED
      BY <2>1, <3>1, <3>3 DEF RowsAreTicked
  <2>8. CASE (Deliver \/ AskAgain \/ GiveUp \/ Return \/ Crash) /\ UNCHANGED status
    <3>1. /\ tasks' = tasks \/ tasks' = {}
          /\ tree' = tree /\ baseline' = baseline /\ status' = status
          /\ step' \notin {"week", "place"}
      BY <2>8 DEF Deliver, AskAgain, GiveUp, Return, Crash, Begin, NothingPlaced, result, rows
    <3>2. QED
      BY <2>1, <3>1, FS_EmptySet DEF RowsAreTicked
  <2>9. CASE UNCHANGED quarter
    <3>1. /\ tasks' = tasks /\ tree' = tree /\ baseline' = baseline /\ status' = status
          /\ step' = step /\ week' = week /\ template' = template
      BY <2>9 DEF quarter, vars, inputs, result, rows
    <3>2. QED
      BY <2>1, <3>1 DEF RowsAreTicked, Milestones
  <2>10. QED
    BY <2>1, <2>3, <2>4, <2>5, <2>6, <2>7, <2>8, <2>9 DEF QuarterNext, Plans
<1>3. QED
  BY <1>1, <1>2, PlacingCorrect, PTL DEF QuarterSpec

\* In a plan of fewer than ten thousand rows a change is called a retreat exactly when
\* there is less to do than was planned and less than half of it was done; from ten
\* thousand on the rounding of the completion may tell otherwise (classify_revision).
THEOREM RetreatsAreNamed ==
  QuarterSpec => [](Cardinality(tree) < Whole => AvoidanceIsRetreat)
<1>1. PlacedWell /\ RowsAreTicked => (Cardinality(tree) < Whole => AvoidanceIsRetreat)
  <2>1. SUFFICES ASSUME PlacedWell, RowsAreTicked, Cardinality(tree) < Whole
                 PROVE  AvoidanceIsRetreat
    OBVIOUS
  <2>2. /\ IsFiniteSet(baseline) /\ IsFiniteSet(tree)
        /\ DistinctKeys(baseline) /\ DistinctKeys(tree)
        /\ Cardinality(tree) \in Nat /\ Cardinality(baseline) \in Nat
    BY <2>1, FS_CardinalityType DEF PlacedWell, RowsFit, RowsAreTicked
  <2>3. PICK changes : changes = Review.schedule_changes
    OBVIOUS
  <2>4. changes = OfKind(diff_tasks(baseline, tree), Kinds)
    <3>1. {"added", "moved", "removed", "shortened", "lengthened"} = Kinds
      BY DEF Kinds
    <3>2. QED
      BY <2>3, <3>1 DEF Review, compare
  <2>5. Cardinality(OfKind(changes, {"removed"})) > Cardinality(OfKind(changes, {"added"}))
           <=> Cardinality(tree) < Cardinality(baseline)
    BY Zenon, <2>2, <2>4, MoreRemovedThanAdded
  <2>6. PICK done, n : done = counts_by_status["done"] /\ n = Cardinality(tree)
    OBVIOUS
  <2>7. done \in Nat
    <3>1. done = Cardinality({t \in tree : status[t] = "done"})
      BY <2>6 DEF counts_by_status, TaskStatuses
    <3>2. IsFiniteSet({t \in tree : status[t] = "done"})
      BY <2>2, FS_Subset
    <3>3. QED
      BY <3>1, <3>2, FS_CardinalityType
  <2>8. Review.execution.completion = IF n = 0 THEN 0 ELSE Round(Whole * done, n)
    <3>1. Total(counts_by_status) = n
      BY <2>1, <2>2, <2>6, CountsAddUp DEF RowsAreTicked
    <3>2. QED
      BY <2>6, <3>1 DEF Review, compare, Execution
  <2>9. changes = {} => ~(Cardinality(tree) < Cardinality(baseline))
    <3>1. changes = {} => /\ OfKind(changes, {"removed"}) = {}
                          /\ OfKind(changes, {"added"}) = {}
      BY DEF OfKind
    <3>2. QED
      BY <2>5, <3>1, FS_EmptySet
  <2>10. classify_revision(Review) = "avoidance"
            <=> /\ Cardinality(tree) < Cardinality(baseline)
                /\ 2 * Review.execution.completion < Whole
    BY <2>3, <2>5, <2>9 DEF classify_revision
  <2>11. CASE n = 0
    <3>1. tree = {} /\ baseline = {}
      BY <2>1, <2>2, <2>6, <2>11, FS_EmptySet DEF RowsAreTicked
    <3>2. ~(Cardinality(tree) < Cardinality(baseline))
      BY <2>2, <3>1
    <3>3. QED
      BY <2>10, <3>2 DEF AvoidanceIsRetreat
  <2>12. CASE n # 0
    <3>1. 2 * Round(Whole * done, n) < Whole <=> 2 * done < n
      BY <2>1, <2>2, <2>6, <2>7, <2>12, RoundedBelowHalf
    <3>2. QED
      BY <2>6, <2>8, <2>10, <2>12, <3>1 DEF AvoidanceIsRetreat
  <2>13. QED
    BY <2>11, <2>12
<1>2. QED
  BY <1>1, PlacingCorrect, RowsKept, PTL

-----------------------------------------------------------------------------
(* The longest streak *)

LEMMA GreatestOfFinite ==
  ASSUME NEW S \in SUBSET Int, IsFiniteSet(S), S # {}
  PROVE  Max(S) \in S /\ \A m \in S : m <= Max(S)
<1>1. PICK n \in S : \A m \in S : m <= n
  BY Zenon, GreatestExists
<1>2. n \in S /\ \A m \in S : n >= m
  BY <1>1
<1>3. Max(S) \in S /\ \A m \in S : Max(S) >= m
  BY Zenon, <1>2 DEF Max
<1>4. QED
  BY <1>3

LEMMA LeastOfFinite ==
  ASSUME NEW S \in SUBSET Int, IsFiniteSet(S), S # {}
  PROVE  Min(S) \in S /\ \A m \in S : Min(S) <= m
<1>1. PICK T : T = {0 - m : m \in S}
  OBVIOUS
<1>2. IsFiniteSet(T)
  <2>1. PICK f : f = [m \in S |-> 0 - m]
    OBVIOUS
  <2>2. DOMAIN f = S /\ T = {f[m] : m \in S}
    BY <1>1, <2>1
  <2>3. QED
    BY Zenon, <2>2, FiniteImage
<1>3. T \in SUBSET Int /\ T # {}
  <2>1. \A m \in S : 0 - m \in Int
    OBVIOUS
  <2>2. QED
    BY <1>1, <2>1
<1>4. PICK k \in T : \A j \in T : j <= k
  BY <1>2, <1>3, GreatestExists
<1>5. k \in Int /\ \A m \in S : 0 - k <= m
  <2>1. k \in Int /\ \A m \in S : m \in Int /\ 0 - m \in T
    BY <1>1, <1>3
  <2>2. \A m \in S : 0 - m <= k
    BY <1>4, <2>1
  <2>3. QED
    BY <2>1, <2>2
<1>6. QED
  BY <1>5, LeastInteger

\* The functions that _longest_streak's loop may compute, and the runs by their definition:
\* the weeks from which on none is missing up to this one.
Runs(weeks, run) ==
    run = [here \in Min(weeks)..Max(weeks) |->
              IF here \notin weeks THEN 0
              ELSE IF here = Min(weeks) THEN 1 ELSE run[here - 1] + 1]

Begins(weeks, here) == {first \in Min(weeks)..here : first..here \subseteq weeks}

RunsInto(weeks, here, n) == n = Cardinality(Begins(weeks, here)) /\ n \in Nat

LEMMA StreakOfRuns ==
  ASSUME NEW weeks, weeks # {}
  PROVE  \E run : /\ (\E r : Runs(weeks, r)) => Runs(weeks, run)
                  /\ _longest_streak(weeks) = Max({run[here] : here \in Min(weeks)..Max(weeks)})
<1>1. PICK run : run = CHOOSE r : Runs(weeks, r)
  OBVIOUS
<1>2. _longest_streak(weeks) = Max({run[here] : here \in Min(weeks)..Max(weeks)})
  BY <1>1 DEF _longest_streak, Runs
<1>3. (\E r : Runs(weeks, r)) => Runs(weeks, run)
  BY Zenon, <1>1
<1>4. QED
  BY <1>2, <1>3

LEMMA BeginsOfWeek ==
  ASSUME NEW weeks \in SUBSET Int, IsFiniteSet(weeks), weeks # {},
         NEW here \in Min(weeks)..Max(weeks)
  PROVE  /\ IsFiniteSet(Begins(weeks, here))
         /\ here \notin weeks => Begins(weeks, here) = {}
         /\ here \in weeks /\ here = Min(weeks) => Begins(weeks, here) = {here}
         /\ here \in weeks /\ here # Min(weeks) =>
               /\ here - 1 \in Min(weeks)..Max(weeks)
               /\ Begins(weeks, here) = Begins(weeks, here - 1) \cup {here}
               /\ here \notin Begins(weeks, here - 1)
<1>1. PICK low, high \in Int : /\ low = Min(weeks) /\ high = Max(weeks)
                               /\ low \in weeks /\ \A m \in weeks : low <= m
  BY LeastOfFinite, GreatestOfFinite
<1>2. here \in low..high /\ here \in Int /\ low \in Int /\ low <= here
  BY <1>1
<1>3. \A w : Begins(weeks, w) = {first \in low..w : first..w \subseteq weeks}
  BY <1>1 DEF Begins
<1>4. IsFiniteSet(Begins(weeks, here))
  <2>1. IsFiniteSet(low..here)
    BY Zenon, <1>2, FS_Interval
  <2>2. Begins(weeks, here) \in SUBSET (low..here)
    BY <1>3
  <2>3. QED
    BY Zenon, <2>1, <2>2, FS_Subset
<1>5. ASSUME here \notin weeks
      PROVE  Begins(weeks, here) = {}
  <2>1. \A first \in low..here : here \in first..here
    BY <1>2
  <2>2. QED
    BY <1>3, <1>5, <2>1
<1>6. ASSUME here \in weeks, here = low
      PROVE  Begins(weeks, here) = {here}
  <2>1. low..here = {here} /\ here..here = {here}
    BY <1>2, <1>6
  <2>2. QED
    BY <1>3, <1>6, <2>1
<1>7. ASSUME here \in weeks, here # low
      PROVE  /\ here - 1 \in low..high
             /\ Begins(weeks, here) = Begins(weeks, here - 1) \cup {here}
             /\ here \notin Begins(weeks, here - 1)
  <2>1. here - 1 \in low..high
    BY <1>1, <1>2, <1>7
  <2>2. ASSUME NEW first \in low..(here - 1)
        PROVE  first..here = (first..(here - 1)) \cup {here}
    BY <1>2, <2>2
  <2>3. low..here = (low..(here - 1)) \cup {here} /\ here..here = {here}
    BY <1>2, <1>7
  <2>4. \A first \in low..(here - 1) : first..here \subseteq weeks <=> first..(here - 1) \subseteq weeks
    BY <1>7, <2>2
  <2>5. here..here \subseteq weeks
    BY <1>7, <2>3
  <2>6. Begins(weeks, here) = Begins(weeks, here - 1) \cup {here}
    BY <1>3, <2>3, <2>4, <2>5
  <2>7. here \notin low..(here - 1)
    BY <1>2
  <2>8. QED
    BY <1>3, <2>1, <2>6, <2>7
<1>8. QED
  BY <1>1, <1>4, <1>5, <1>6, <1>7

\* The loop computes for each week how many weeks are in the run that ends with it.
LEMMA RunsCount ==
  ASSUME NEW weeks \in SUBSET Int, IsFiniteSet(weeks), weeks # {}
  PROVE  /\ \E run : Runs(weeks, run)
         /\ \A run : Runs(weeks, run) =>
               \A here \in Min(weeks)..Max(weeks) : RunsInto(weeks, here, run[here])
<1>1. PICK low, high \in Int : low = Min(weeks) /\ high = Max(weeks)
  BY LeastOfFinite, GreatestOfFinite
<1>2. PICK len : len = [here \in low..high |-> Cardinality(Begins(weeks, here))]
  OBVIOUS
<1>3. \A here \in low..high :
         /\ len[here] \in Nat
         /\ len[here] = IF here \notin weeks THEN 0
                        ELSE IF here = low THEN 1 ELSE len[here - 1] + 1
         /\ here \in weeks /\ here # low => here - 1 \in low..high
  <2>1. TAKE here \in low..high
  <2>2. len[here] = Cardinality(Begins(weeks, here)) /\ len[here] \in Nat
    BY <1>1, <1>2, BeginsOfWeek, FS_CardinalityType
  <2>3. CASE here \notin weeks
    BY <1>1, <2>2, <2>3, BeginsOfWeek, FS_EmptySet
  <2>4. CASE here \in weeks /\ here = low
    <3>1. Begins(weeks, here) = {here}
      BY <1>1, <2>4, BeginsOfWeek
    <3>2. Cardinality({here}) = 1
      BY FS_Singleton
    <3>3. QED
      BY <2>2, <2>4, <3>1, <3>2
  <2>5. CASE here \in weeks /\ here # low
    <3>1. PICK before : before = Begins(weeks, here - 1)
      OBVIOUS
    <3>2. here - 1 \in low..high
      BY <1>1, <2>5, BeginsOfWeek
    <3>3. IsFiniteSet(before) /\ len[here - 1] = Cardinality(before)
      BY <1>1, <1>2, <3>1, <3>2, BeginsOfWeek
    <3>4. Begins(weeks, here) = before \cup {here} /\ here \notin before
      BY <1>1, <2>5, <3>1, BeginsOfWeek
    <3>5. Cardinality(before \cup {here}) = Cardinality(before) + 1
      BY Zenon, <3>3, <3>4, FS_AddElement
    <3>6. QED
      BY <2>2, <2>5, <3>2, <3>3, <3>4, <3>5
  <2>6. QED
    BY <2>3, <2>4, <2>5
<1>4. Runs(weeks, len)
  BY <1>1, <1>2, <1>3 DEF Runs
<1>5. ASSUME NEW run, Runs(weeks, run), NEW here \in low..high
      PROVE  run[here] = len[here]
  <2> DEFINE Wrong == {w \in low..high : run[w] # len[w]}
  <2>1. SUFFICES ASSUME Wrong # {} PROVE FALSE
    BY <1>5
  <2>2. PICK w \in Wrong : \A v \in Wrong : w <= v
    <3>1. Wrong \in SUBSET Int /\ \A v \in Wrong : low <= v
      OBVIOUS
    <3> HIDE DEF Wrong
    <3>2. QED
      BY <1>1, <2>1, <3>1, LeastInteger
  <2>3. run[w] = IF w \notin weeks THEN 0 ELSE IF w = low THEN 1 ELSE run[w - 1] + 1
    BY <1>1, <1>5, <2>2 DEF Runs
  <2>4. w \in weeks /\ w # low
    BY <1>3, <2>2, <2>3
  <2>5. w - 1 \in low..high /\ w \in Int /\ len[w] = len[w - 1] + 1
    BY <1>3, <2>2, <2>4
  <2>6. w - 1 \notin Wrong
    <3>1. ~(w <= w - 1)
      BY <2>5
    <3>2. QED
      BY Zenon, <2>2, <3>1
  <2>7. QED
    BY <2>2, <2>3, <2>4, <2>5, <2>6
<1>6. ASSUME NEW run, Runs(weeks, run), NEW here \in low..high
      PROVE  RunsInto(weeks, here, run[here])
  BY <1>2, <1>3, <1>5, <1>6 DEF RunsInto
<1>7. QED
  BY <1>1, <1>4, <1>6

\* The longest of them is the longest streak there is.
LEMMA LongestStreak ==
  ASSUME NEW weeks \in SUBSET Int, IsFiniteSet(weeks)
  PROVE  _longest_streak(weeks) = Max(Streaks(weeks))
<1>1. /\ Cardinality(weeks) \in Nat
      /\ IsFiniteSet(Streaks(weeks)) /\ Streaks(weeks) \in SUBSET Int /\ 0 \in Streaks(weeks)
  <2>1. Cardinality(weeks) \in Nat /\ 0 \in Int
    BY FS_CardinalityType
  <2>2. IsFiniteSet(0..Cardinality(weeks))
    <3>1. Cardinality(weeks) \in Int
      BY <2>1
    <3>2. QED
      BY Zenon, <2>1, <3>1, FS_Interval
  <2>3. Streaks(weeks) \in SUBSET (0..Cardinality(weeks)) /\ 0 \in Streaks(weeks)
    BY <2>1 DEF Streaks
  <2>4. QED
    BY <2>1, <2>2, <2>3, FS_Subset
<1>2. PICK longest \in Nat : /\ longest = Max(Streaks(weeks)) /\ longest \in Streaks(weeks)
                             /\ \A n \in Streaks(weeks) : n <= longest
  <2>1. Max(Streaks(weeks)) \in Streaks(weeks) /\ \A n \in Streaks(weeks) : n <= Max(Streaks(weeks))
    BY <1>1, GreatestOfFinite
  <2>2. Streaks(weeks) \subseteq Nat
    BY <1>1 DEF Streaks
  <2>3. QED
    BY <2>1, <2>2
<1>3. CASE weeks = {}
  <2>1. Streaks(weeks) = {0}
    BY <1>3, FS_EmptySet DEF Streaks
  <2>2. QED
    BY <1>2, <1>3, <2>1 DEF _longest_streak
<1>4. CASE weeks # {}
  <2>1. PICK low, high \in Int : /\ low = Min(weeks) /\ high = Max(weeks)
                                 /\ low \in weeks /\ high \in weeks
                                 /\ \A m \in weeks : low <= m /\ m <= high
    BY <1>4, LeastOfFinite, GreatestOfFinite
  <2>2. PICK run :
           /\ (\E r : Runs(weeks, r)) => Runs(weeks, run)
           /\ _longest_streak(weeks) = Max({run[here] : here \in Min(weeks)..Max(weeks)})
    BY Zenon, <1>4, StreakOfRuns
  <2>3. PICK R : R = {run[here] : here \in low..high}
    OBVIOUS
  <2>4. \A here \in low..high : /\ RunsInto(weeks, here, run[here])
                                /\ IsFiniteSet(Begins(weeks, here))
    BY <1>4, <2>1, <2>2, RunsCount, BeginsOfWeek
  <2>5. ASSUME NEW here \in low..high
        PROVE  run[here] \in Streaks(weeks)
    <3>1. PICK B, n : /\ B = Begins(weeks, here) /\ n = run[here] /\ n \in Nat
                       /\ n = Cardinality(B) /\ IsFiniteSet(B)
      BY <2>4, <2>5 DEF RunsInto
    <3>2. B = {first \in low..here : first..here \subseteq weeks}
      BY <2>1, <3>1 DEF Begins
    <3>3. CASE n = 0
      BY <1>1, <3>1, <3>3 DEF Streaks
    <3>4. CASE n # 0
      <4>1. B # {} /\ B \in SUBSET Int
        BY <3>1, <3>2, <3>4, FS_EmptySet
      <4>2. PICK first \in B : \A b \in B : first <= b
        BY <3>1, <4>1, LeastOfFinite
      <4>3. first \in Int /\ here \in Int /\ first <= here /\ first..here \subseteq weeks
        BY <3>2, <4>2
      <4>4. B = first..here
        <5>1. \A b \in first..here : b \in low..here /\ b..here \subseteq first..here
          BY <2>1, <3>2, <4>2, <4>3
        <5>2. \A b \in B : b \in first..here
          BY <3>2, <4>2, <4>3
        <5>3. QED
          BY <3>2, <4>3, <5>1, <5>2
      <4>5. n = here - first + 1
        BY <3>1, <4>3, <4>4, FS_Interval
      <4>6. Cardinality(B) <= Cardinality(weeks)
        BY <4>3, <4>4, FS_Subset
      <4>7. first \in weeks /\ first + n - 1 = here
        BY <4>3, <4>5
      <4>8. QED
        BY <1>1, <3>1, <4>3, <4>6, <4>7 DEF Streaks
    <3>5. QED
      BY <3>3, <3>4
  <2>6. \E here \in low..high : longest <= run[here]
    <3>1. CASE longest = 0
      BY <2>1, <2>4, <3>1 DEF RunsInto
    <3>2. CASE longest # 0
      <4>1. PICK first \in weeks : first..(first + longest - 1) \subseteq weeks
        BY <1>2, <3>2 DEF Streaks
      <4>2. PICK here \in Int : here = first + longest - 1
        OBVIOUS
      <4>3. first \in Int /\ first <= here /\ here \in first..here /\ low <= first
        BY <1>2, <2>1, <3>2, <4>2
      <4>4. here \in weeks /\ here \in low..high /\ first..here \subseteq weeks
        BY <2>1, <4>1, <4>2, <4>3
      <4>5. PICK B, n : /\ B = Begins(weeks, here) /\ n = run[here] /\ n \in Nat
                         /\ n = Cardinality(B) /\ IsFiniteSet(B)
        BY <2>4, <4>4 DEF RunsInto
      <4>6. first..here \in SUBSET B
        <5>1. \A b \in first..here : b \in low..here /\ b..here \subseteq first..here
          BY <2>1, <4>3
        <5>2. QED
          BY <2>1, <4>4, <4>5, <5>1 DEF Begins
      <4>7. Cardinality(first..here) <= n
        BY <4>5, <4>6, FS_Subset
      <4>8. Cardinality(first..here) = here - first + 1
        BY <4>3, FS_Interval
      <4>9. longest <= n
        BY <4>2, <4>3, <4>7, <4>8
      <4>10. QED
        BY <4>4, <4>5, <4>9
    <3>3. QED
      BY <3>1, <3>2
  <2>7. longest \in R /\ \A n \in R : n <= longest
    <3>1. \A n \in R : n <= longest
      BY <1>2, <2>3, <2>5
    <3>2. PICK here \in low..high : longest <= run[here]
      BY <2>6
    <3>3. run[here] \in R /\ run[here] \in Nat
      BY <2>3, <2>4, <3>2 DEF RunsInto
    <3>4. run[here] = longest
      BY <3>1, <3>2, <3>3
    <3>5. QED
      BY <3>1, <3>3, <3>4
  <2>8. R \in SUBSET Nat
    BY <2>3, <2>4 DEF RunsInto
  <2>9. Max(R) = longest
    <3>1. longest \in R /\ \A n \in R : longest >= n
      BY <2>7, <2>8
    <3>2. Max(R) \in R /\ \A n \in R : Max(R) >= n
      BY Zenon, <3>1 DEF Max
    <3>3. PICK most : most = Max(R)
      OBVIOUS
    <3>4. most \in Nat /\ longest >= most /\ most >= longest
      BY <2>8, <3>1, <3>2, <3>3
    <3>5. QED
      BY <1>2, <3>3, <3>4
  <2>10. _longest_streak(weeks) = Max(R)
    BY <2>1, <2>2, <2>3
  <2>11. QED
    BY <1>2, <2>9, <2>10
<1>5. QED
  BY <1>3, <1>4

-----------------------------------------------------------------------------
(* Shares that are rounded one by one *)

LEMMA RoundIsNear ==
  ASSUME NEW n \in Nat, NEW d \in Nat, 0 < d
  PROVE  /\ Round(n, d) \in Nat
         /\ 2 * n - d <= 2 * (d * Round(n, d)) /\ 2 * (d * Round(n, d)) <= 2 * n + d
<1>1. PICK q, r : q = n \div d /\ r = n % d
  OBVIOUS
<1>2. q \in Nat
  BY <1>1
<1>3. r \in Nat /\ r < d
  BY <1>1
<1>4. n = d * q + r
  BY <1>1
<1>5. Round(n, d) = IF 2 * r > d \/ (2 * r = d /\ q % 2 = 1) THEN q + 1 ELSE q
  BY <1>1 DEF Round
<1>6. CASE Round(n, d) = q /\ 2 * r <= d
  BY <1>2, <1>3, <1>4, <1>6
<1>7. CASE Round(n, d) = q + 1 /\ 2 * r >= d
  <2>1. d * (q + 1) = d * q + d
    BY <1>2
  <2>2. PICK p \in Nat : p = d * q
    BY <1>2
  <2>3. QED
    BY <1>2, <1>3, <1>4, <1>7, <2>1, <2>2
<1>8. QED
  BY <1>3, <1>5, <1>6, <1>7

LEMMA Cancelled ==
  ASSUME NEW a \in Int, NEW b \in Int, NEW d \in Nat, 0 < d, a * d <= b * d
  PROVE  a <= b
<1>1. SUFFICES ASSUME b + 1 <= a PROVE FALSE
  OBVIOUS
<1>2. (b + 1) * d <= a * d
  BY <1>1
<1>3. (b + 1) * d = b * d + d
  OBVIOUS
<1>4. QED
  BY <1>2, <1>3

\* The share of each part in a whole, rounded.
RoundedShares(m, D, whole, s) == s = [x \in D |-> Round(Whole * m[x], whole)]

\* Shares that are rounded make up the whole but for a half of a unit each.
LEMMA SharesAddUp ==
  ASSUME NEW D, IsFiniteSet(D), NEW m, Amounts(m, D), NEW M, Sums(m, D, M),
         NEW whole \in Nat, 0 < whole, M[D] = whole,
         NEW s, RoundedShares(m, D, whole, s), NEW T, Sums(s, D, T)
  PROVE  2 * T[D] \in (2 * Whole - Cardinality(D))..(2 * Whole + Cardinality(D))
<1>1. \A x \in D : /\ m[x] \in Nat /\ s[x] \in Nat
                   /\ 2 * (Whole * m[x]) - whole <= 2 * (whole * s[x])
                   /\ 2 * (whole * s[x]) <= 2 * (Whole * m[x]) + whole
  <2>1. TAKE x \in D
  <2>2. PICK n \in Nat : n = Whole * m[x]
    BY DEF Amounts, Whole
  <2>3. s[x] = Round(n, whole)
    BY <2>2 DEF RoundedShares
  <2>4. QED
    BY <2>2, <2>3, RoundIsNear DEF Amounts
<1>2. Amounts(s, D)
  BY <1>1 DEF Amounts
<1>3. \A V \in SUBSET D : /\ M[V] \in Nat /\ T[V] \in Nat
                          /\ \A x \in V : M[V] = m[x] + M[V \ {x}] /\ T[V] = s[x] + T[V \ {x}]
  <2>1. AnyOrder(m, D, M) /\ AnyOrder(s, D, T)
    BY Zenon, <1>2, SumsAnyOrder
  <2>2. QED
    BY Zenon, <2>1 DEF AnyOrder
<1> DEFINE Close(K) == LET c == Cardinality(K) IN
              /\ 2 * (Whole * M[K]) - whole * c <= 2 * (whole * T[K])
              /\ 2 * (whole * T[K]) <= 2 * (Whole * M[K]) + whole * c
           P == {K \in SUBSET D : Close(K)}
<1>4. {} \in P
  <2>1. M[{}] = 0 /\ T[{}] = 0 /\ Cardinality({}) = 0
    BY SumsStep, FS_EmptySet
  <2>2. QED
    BY <2>1 DEF Whole
<1>5. ASSUME NEW K \in SUBSET D, NEW x \in D \ K, K \in P
      PROVE  K \cup {x} \in P
  <2>1. PICK L : L = K \cup {x}
    OBVIOUS
  <2>2. L \in SUBSET D /\ x \in L /\ L \ {x} = K
    BY <1>5, <2>1
  <2>3. M[L] = m[x] + M[K] /\ T[L] = s[x] + T[K]
    BY Zenon, <1>3, <2>2
  <2>4. Cardinality(L) = Cardinality(K) + 1 /\ Cardinality(K) \in Nat
    BY <1>5, <2>1, FS_Subset, FS_AddElement, FS_CardinalityType
  <2>5. PICK a, b, c, u, v : a = m[x] /\ b = M[K] /\ c = Cardinality(K) /\ u = s[x] /\ v = T[K]
    OBVIOUS
  <2>6. a \in Nat /\ b \in Nat /\ c \in Nat /\ u \in Nat /\ v \in Nat
    BY <1>1, <1>3, <2>4, <2>5
  <2>7. /\ 2 * (Whole * b) - whole * c <= 2 * (whole * v)
        /\ 2 * (whole * v) <= 2 * (Whole * b) + whole * c
    BY <1>5, <2>5
  <2>8. /\ 2 * (Whole * a) - whole <= 2 * (whole * u)
        /\ 2 * (whole * u) <= 2 * (Whole * a) + whole
    BY <1>1, <2>5
  <2>9. /\ whole * (u + v) = whole * u + whole * v
        /\ whole * (c + 1) = whole * c + whole
        /\ whole * u \in Nat /\ whole * v \in Nat /\ whole * c \in Nat
    BY <2>6
  <2>10. /\ 2 * (Whole * (a + b)) - whole * (c + 1) <= 2 * (whole * (u + v))
         /\ 2 * (whole * (u + v)) <= 2 * (Whole * (a + b)) + whole * (c + 1)
    BY <2>6, <2>7, <2>8, <2>9 DEF Whole
  <2>11. Close(L)
    BY <2>3, <2>4, <2>5, <2>10
  <2>12. QED
    BY <2>1, <2>2, <2>11
<1>6. \A K \in SUBSET D : K \in P
  <2> HIDE DEF P
  <2>1. \A K \in SUBSET D : \A x \in D \ K : K \in P => K \cup {x} \in P
    BY Zenon, <1>5
  <2>2. QED
    BY Zenon, <1>4, <2>1, EverySubset
<1>7. Close(D)
  BY <1>6
<1>8. PICK c, t : c = Cardinality(D) /\ t = T[D] /\ c \in Nat /\ t \in Nat
  BY <1>3, FS_CardinalityType
<1>9. /\ (2 * Whole - c) * whole <= (2 * t) * whole
      /\ (2 * t) * whole <= (2 * Whole + c) * whole
  <2>1. /\ 2 * (Whole * whole) - whole * c <= 2 * (whole * t)
        /\ 2 * (whole * t) <= 2 * (Whole * whole) + whole * c
    BY <1>7, <1>8
  <2>2. /\ (2 * Whole - c) * whole = 2 * (Whole * whole) - whole * c
        /\ (2 * Whole + c) * whole = 2 * (Whole * whole) + whole * c
        /\ (2 * t) * whole = 2 * (whole * t)
    BY <1>8 DEF Whole
  <2>3. QED
    BY <2>1, <2>2
<1>10. 2 * Whole - c \in Int /\ 2 * t \in Int /\ 2 * Whole + c \in Int
  BY <1>8 DEF Whole
<1>11. 2 * Whole - c <= 2 * t /\ 2 * t <= 2 * Whole + c
  BY Zenon, <1>9, <1>10, Cancelled
<1>12. QED
  BY <1>8, <1>10, <1>11

-----------------------------------------------------------------------------
(* The metrics of a document *)

\* The events that count, each of them one of the document's.
LEMMA EventsOfDocument ==
  ASSUME TypeOK
  PROVE  /\ IsFiniteSet(Refs(events))
         /\ \A r \in Refs(events) :
               /\ events # <<>> /\ IsFiniteSet(DOMAIN events)
               /\ \E n \in DOMAIN events : by_ref(events)[r] = events[n]
               /\ _minutes(by_ref(events)[r]) \in Nat
               /\ by_ref(events)[r].start_at \in Int
               /\ \A n \in DOMAIN events : events[n].start_at \in Int
<1>1. events \in Uploads \/ DOMAIN events = {}
  BY DEF TypeOK
<1>2. /\ IsFiniteSet(DOMAIN events) /\ DOMAIN events \subseteq Nat
      /\ \A n \in DOMAIN events : events[n].start_at \in Int /\ events[n].end_at \in Int
  BY <1>1, InputsAssumption, FS_EmptySet
<1>3. IsFiniteSet(Refs(events))
  <2>1. PICK f : f = [n \in DOMAIN events |-> _ref(events, n)]
    OBVIOUS
  <2>2. DOMAIN f = DOMAIN events /\ Refs(events) = {f[n] : n \in DOMAIN events}
    BY <2>1 DEF Refs
  <2>3. QED
    BY Zenon, <1>2, <2>2, FiniteImage
<1>4. ASSUME NEW r \in Refs(events)
      PROVE  \E n \in DOMAIN events : by_ref(events)[r] = events[n]
  <2>1. PICK S : S = {n \in DOMAIN events : _ref(events, n) = r}
    OBVIOUS
  <2>2. S # {} /\ S \in SUBSET Int /\ IsFiniteSet(S)
    BY <1>2, <2>1, FS_Subset DEF Refs
  <2>3. Max(S) \in S
    BY <2>2, GreatestOfFinite
  <2>4. by_ref(events)[r] = events[Max(S)]
    BY <2>1 DEF by_ref
  <2>5. QED
    BY <2>1, <2>3, <2>4
<1>5. ASSUME NEW r \in Refs(events)
      PROVE  /\ _minutes(by_ref(events)[r]) \in Nat /\ by_ref(events)[r].start_at \in Int
             /\ events # <<>>
  <2>1. PICK n \in DOMAIN events : by_ref(events)[r] = events[n]
    BY <1>4
  <2>2. PICK from, to \in Int : from = events[n].start_at /\ to = events[n].end_at
    BY <1>2
  <2>3. _minutes(events[n]) \in Nat
    BY <2>2 DEF _minutes
  <2>4. QED
    BY <2>1, <2>2, <2>3
<1>6. QED
  BY <1>2, <1>3, <1>4, <1>5

\* An event of the window is seen in one of its weeks.
LEMMA WeekOfEvent ==
  ASSUME TypeOK, NEW r \in Refs(events), InWindow(events, 0, r)
  PROVE  (DateOf(by_ref(events)[r].start_at) - window_start(events, 0)) \div 7
            \in 0..(window_weeks - 1)
<1>1. PICK last : last = window_end(events, 0)
  OBVIOUS
<1>2. last \in Int
  <2>1. last = Max(Days(events))
    BY <1>1, EventsOfDocument DEF window_end
  <2>2. PICK f : f = [n \in DOMAIN events |-> DateOf(events[n].start_at)]
    OBVIOUS
  <2>3. \A n \in DOMAIN events : f[n] \in Int
    BY <2>2, EventsOfDocument DEF DateOf
  <2>4. Days(events) = {f[n] : n \in DOMAIN events} /\ DOMAIN f = DOMAIN events
    BY <2>2 DEF Days
  <2>5. IsFiniteSet(DOMAIN events) /\ DOMAIN events # {}
    BY EventsOfDocument
  <2>6. IsFiniteSet(Days(events))
    BY Zenon, <2>4, <2>5, FiniteImage
  <2>7. Days(events) \in SUBSET Int /\ Days(events) # {}
    BY <2>3, <2>4, <2>5
  <2>8. QED
    BY <2>1, <2>6, <2>7, GreatestOfFinite
<1>3. PICK day : day = DateOf(by_ref(events)[r].start_at)
  OBVIOUS
<1>4. PICK weeks \in Nat : weeks = window_weeks /\ weeks > 0
  BY MeasuringConstants
<1>5. PICK first \in Int : first = window_start(events, 0) /\ first = last - (weeks * 7 - 1)
  BY <1>1, <1>2, <1>4 DEF window_start
<1>6. day \in first..last
  BY <1>1, <1>3, <1>5 DEF InWindow
<1>7. (day - first) \div 7 \in 0..(weeks - 1)
  <2>1. PICK n \in Nat : n = day - first /\ n <= weeks * 7 - 1
    BY <1>2, <1>5, <1>6
  <2>2. n \div 7 \in 0..(weeks - 1)
    BY <1>4, <2>1
  <2>3. QED
    BY <2>1, <2>2
<1>8. QED
  BY <1>3, <1>4, <1>5, <1>7

\* What an assignment does with the events inside the window: each has one dimension.
LEMMA OneDimensionEach ==
  ASSUME NEW assigned \in Classifications(events), NEW r \in Refs(events)
  PROVE  DimensionOf(assigned, r) \in DIMENSIONS
<1>1. PICK classified \in SUBSET Refs(events) : assigned \in [classified -> DIMENSIONS]
  BY DEF Classifications
<1>2. QED
  BY <1>1, MeasuringConstants DEF DimensionOf

LEMMA MetricsOfDocument ==
  ASSUME TypeOK, NEW assigned \in Classifications(events),
         NEW metrics, metrics = compute_metrics(events, assigned, 0),
         NEW inside, inside = {r \in Refs(events) : InWindow(events, 0, r)}
  PROVE  /\ Total([d \in DIMENSIONS |-> metrics[d].events]) = Cardinality(inside)
         /\ Minutes(events, inside) > 0 =>
               2 * Total(Shares(metrics)) \in (2 * Whole - Cardinality(DIMENSIONS))
                                              ..(2 * Whole + Cardinality(DIMENSIONS))
<1>1. PICK cls : cls = [r \in inside |-> DimensionOf(assigned, r)]
  OBVIOUS
<1>2. PICK D : D = DIMENSIONS
  OBVIOUS
<1>3. IsFiniteSet(D) /\ IsFiniteSet(inside) /\ inside \in SUBSET Refs(events)
  BY <1>2, EventsOfDocument, MeasuringConstants, FS_Subset
<1>4. Covers(cls, inside, D)
  BY <1>1, <1>2, <1>3, OneDimensionEach DEF Covers
<1>5. PICK part : part = [d \in D |-> {r \in inside : cls[r] = d}]
  OBVIOUS
<1>6. \A d \in D : part[d] = Bucket(events, assigned, 0, d) /\ part[d] \in SUBSET inside
  BY <1>1, <1>5 DEF Bucket
<1>7. \A d \in D : /\ metrics[d].events = Cardinality(part[d])
                   /\ metrics[d].share = IF Minutes(events, inside) = 0 THEN 0
                                         ELSE Round(Whole * Minutes(events, part[d]), Minutes(events, inside))
  BY <1>2, <1>6 DEF compute_metrics
<1>8. Total([d \in D |-> metrics[d].events]) = Cardinality(inside)
  <2>1. PICK h : h = [A \in SUBSET inside |-> Cardinality(A)]
    OBVIOUS
  <2>2. PICK f : f = [d \in D |-> metrics[d].events]
    OBVIOUS
  <2>3. ByClass(cls, inside, D, h, f)
    <3>1. \A d \in D : f[d] = h[part[d]] /\ part[d] = {r \in inside : cls[r] = d}
      BY <1>5, <1>6, <1>7, <2>1, <2>2
    <3>2. QED
      BY <2>2, <3>1 DEF ByClass
  <2>4. D = DOMAIN f
    BY <2>2
  <2>5. PICK g : Sums(f, D, g) /\ Total(f) = g[D]
    BY Zenon, <1>3, <2>4, TotalIsSum
  <2>6. Additive(h, inside)
    BY Zenon, <1>3, <2>1, CardinalityIsAdditive
  <2>7. g[D] = h[inside]
    BY <1>3, <1>4, <2>3, <2>5, <2>6, SumOfClasses
  <2>8. QED
    BY <2>1, <2>2, <2>5, <2>7
<1>9. ASSUME Minutes(events, inside) > 0
      PROVE  2 * Total(Shares(metrics)) \in (2 * Whole - Cardinality(D))..(2 * Whole + Cardinality(D))
  <2>1. PICK f : f = [r \in inside |-> _minutes(by_ref(events)[r])]
    OBVIOUS
  <2>2. Amounts(f, inside)
    BY <1>3, <2>1, EventsOfDocument DEF Amounts
  <2>3. PICK h : Sums(f, inside, h) /\ Total(f) = h[inside]
    <3>1. inside = DOMAIN f
      BY <2>1
    <3>2. QED
      BY Zenon, <1>3, <3>1, TotalIsSum
  <2>4. Additive(h, inside)
    BY Zenon, <1>3, <2>2, <2>3, SumsAreAdditive
  <2>5. ASSUME NEW A \in SUBSET inside
        PROVE  Minutes(events, A) = h[A] /\ h[A] \in Nat
    <3>1. PICK e : e = [r \in A |-> _minutes(by_ref(events)[r])]
      OBVIOUS
    <3>2. IsFiniteSet(A) /\ A = DOMAIN e /\ A \in SUBSET A
      BY <1>3, <3>1, FS_Subset
    <3>3. PICK k : Sums(e, A, k) /\ Total(e) = k[A]
      BY Zenon, <3>2, TotalIsSum
    <3>4. Amounts(e, A) /\ \A r \in A : f[r] = e[r]
      BY <2>1, <2>2, <3>1 DEF Amounts
    <3>5. h[A] = k[A]
      BY <1>3, <2>2, <2>3, <3>2, <3>3, <3>4, SumsAgree
    <3>6. Minutes(events, A) = Total(e)
      BY <3>1 DEF Minutes
    <3>7. QED
      BY <2>4, <3>3, <3>5, <3>6 DEF Additive
  <2>6. PICK whole \in Nat : whole = Minutes(events, inside) /\ 0 < whole /\ whole = h[inside]
    <3>1. inside \in SUBSET inside
      OBVIOUS
    <3>2. QED
      BY <1>9, <2>5, <3>1
  <2>7. PICK m : m = [d \in D |-> h[part[d]]]
    OBVIOUS
  <2>8. \A d \in D : m[d] = Minutes(events, part[d]) /\ m[d] \in Nat
    BY <1>6, <2>5, <2>7
  <2>9. Amounts(m, D) /\ ByClass(cls, inside, D, h, m)
    <3>1. \A d \in D : part[d] = {r \in inside : cls[r] = d}
      BY <1>5
    <3>2. QED
      BY <2>7, <2>8, <3>1 DEF Amounts, ByClass
  <2>10. PICK M : Sums(m, D, M)
    BY Zenon, <1>3, SumsExist
  <2>11. M[D] = whole
    <3>1. M[D] = h[inside]
      BY <1>3, <1>4, <2>4, <2>9, <2>10, SumOfClasses
    <3>2. QED
      BY <2>6, <3>1
  <2>12. PICK s : s = Shares(metrics)
    OBVIOUS
  <2>13. RoundedShares(m, D, whole, s)
    <3>1. \A d \in D : metrics[d].share = Round(Whole * m[d], whole)
      BY <1>7, <2>6, <2>8
    <3>2. s = [d \in D |-> metrics[d].share]
      BY <1>2, <2>12 DEF Shares
    <3>3. QED
      BY <3>1, <3>2 DEF RoundedShares
  <2>14. PICK T : Sums(s, D, T) /\ Total(s) = T[D]
    <3>1. D = DOMAIN s
      BY <1>2, <2>12 DEF Shares
    <3>2. QED
      BY Zenon, <1>3, <3>1, TotalIsSum
  <2>15. 2 * T[D] \in (2 * Whole - Cardinality(D))..(2 * Whole + Cardinality(D))
    BY <1>3, <2>6, <2>9, <2>10, <2>11, <2>13, <2>14, SharesAddUp
  <2>16. QED
    BY <2>12, <2>14, <2>15
<1>10. QED
  BY <1>2, <1>8, <1>9

\* Whatever the model classifies, every event of the window is counted in one dimension,
\* the shares make up the whole but for the rounding, an event is seen in a week of the
\* window, and the loop finds the longest streak (compute_metrics, window).
THEOREM MetricsAreRight == QuarterSpec => []MetricsAddUp
<1>1. TypeOK => MetricsAddUp
  <2>1. SUFFICES ASSUME TypeOK, NEW assigned \in Classifications(events)
                 PROVE  LET metrics == compute_metrics(events, assigned, 0)
                            inside  == {r \in Refs(events) : InWindow(events, 0, r)}
                            total   == Total(Shares(metrics))
                        IN  /\ Total([d \in DIMENSIONS |-> metrics[d].events]) = Cardinality(inside)
                            /\ Minutes(events, inside) > 0 =>
                                  2 * total \in (2 * Whole - Cardinality(DIMENSIONS))
                                                ..(2 * Whole + Cardinality(DIMENSIONS))
                            /\ \A d \in DIMENSIONS :
                                  LET weeks == _weeks(events, 0, Bucket(events, assigned, 0, d)) IN
                                  /\ weeks \subseteq 0..(window_weeks - 1)
                                  /\ metrics[d].longest_streak_weeks = Max(Streaks(weeks))
    BY Zenon DEF MetricsAddUp
  <2>2. PICK metrics, inside : /\ metrics = compute_metrics(events, assigned, 0)
                               /\ inside = {r \in Refs(events) : InWindow(events, 0, r)}
    OBVIOUS
  <2>3. /\ Total([d \in DIMENSIONS |-> metrics[d].events]) = Cardinality(inside)
        /\ Minutes(events, inside) > 0 =>
              2 * Total(Shares(metrics)) \in (2 * Whole - Cardinality(DIMENSIONS))
                                             ..(2 * Whole + Cardinality(DIMENSIONS))
    BY Zenon, <2>1, <2>2, MetricsOfDocument
  <2>4. ASSUME NEW d \in DIMENSIONS, NEW weeks, weeks = _weeks(events, 0, Bucket(events, assigned, 0, d))
        PROVE  /\ weeks \subseteq 0..(window_weeks - 1)
               /\ metrics[d].longest_streak_weeks = Max(Streaks(weeks))
    <3>1. weeks \subseteq 0..(window_weeks - 1)
      <4>1. \A r \in Refs(events) : InWindow(events, 0, r) =>
               (DateOf(by_ref(events)[r].start_at) - window_start(events, 0)) \div 7
                  \in 0..(window_weeks - 1)
        BY Zenon, <2>1, WeekOfEvent
      <4>2. QED
        BY <2>4, <4>1 DEF _weeks, Bucket
    <3>2. weeks \in SUBSET Int /\ IsFiniteSet(weeks)
      <4>1. 0 \in Int /\ window_weeks - 1 \in Int
        BY MeasuringConstants
      <4>2. IsFiniteSet(0..(window_weeks - 1))
        BY Zenon, <4>1, FS_Interval
      <4>3. weeks \in SUBSET (0..(window_weeks - 1))
        BY <3>1
      <4>4. IsFiniteSet(weeks)
        BY Zenon, <4>2, <4>3, FS_Subset
      <4>5. weeks \in SUBSET Int
        BY <4>3
      <4>6. QED
        BY <4>4, <4>5
    <3>3. metrics[d].longest_streak_weeks = _longest_streak(weeks)
      BY <2>2, <2>4 DEF compute_metrics
    <3>4. QED
      BY <3>1, <3>2, <3>3, LongestStreak
  <2>5. QED
    BY Zenon, <2>2, <2>3, <2>4
<1>2. PlacedWell => TypeOK
  BY DEF PlacedWell
<1>3. QED
  BY <1>1, <1>2, PlacingCorrect, PTL
=============================================================================
