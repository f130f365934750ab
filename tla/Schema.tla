------------------------------- MODULE Schema -------------------------------
(* The tables of the database, as the one migration creates them: what the
   rows are, which columns may not repeat, and which rows must be there for
   another to be.

   A row is a record.  Its columns are those that tell two rows apart, that
   name another row, or that some query filters, sorts or updates by; the rest
   of what a row carries is one column, data.  The tables profiles and quotas
   have the user as their primary key.  Row ids are numbers in the order of
   creation, which is the order of created_at.  A table is the set of its
   rows.  *)
EXTENDS Naturals, FiniteSets

CONSTANTS Words,    \* emails, statuses, titles, JSON documents: any payload
          Numbers,  \* what is sorted by: days, dimensions, codes, positions
          MaxId,    \* bound on the row ids
          None      \* SQL NULL

ASSUME SchemaAssumption ==
    /\ {0, 1} \subseteq Numbers /\ Numbers \subseteq Nat
    /\ MaxId \in Nat
    /\ None \notin Words /\ None \notin Nat

Ids == 0 .. MaxId
Nullable(S) == S \cup {None}

-----------------------------------------------------------------------------
(* The rows that cross the boundary of the repositories, entities.py: their
   columns, and what each may hold. *)

User == [id |-> Ids, email |-> Words, google_sub |-> Words]
OAuthConnection == [id |-> Ids, user |-> Ids, provider |-> Numbers, data |-> Words, revoked_at |-> Nullable(Words)]
Import == [id |-> Ids, user |-> Ids, status |-> Words, error |-> Nullable(Words), data |-> Words]
Document == [id |-> Ids, import |-> Ids, data |-> Words]
Profile == [id |-> Ids, timezone |-> Words, data |-> Words]
DirectionRun == [id |-> Ids, user |-> Ids, status |-> Words, error |-> Nullable(Words),
                 period |-> Nullable(Words), readouts |-> Words]
Report == [id |-> Ids, user |-> Ids, run |-> Ids, dimension |-> Numbers, data |-> Words]
RoleModel == [id |-> Ids, code |-> Numbers, tags |-> SUBSET Words, author |-> Words,
              author_user |-> Nullable(Ids), active |-> BOOLEAN, version |-> Nat]
FitVerdict == [id |-> Ids, user |-> Ids, run |-> Ids, role_model |-> Ids, data |-> Words]
QuestionAnswer == [id |-> Ids, user |-> Ids, key |-> Numbers, data |-> Words]
Quota == [id |-> Ids, data |-> Words]
DirectionHypothesis == [id |-> Ids, user |-> Ids, version |-> Nat, role_model |-> Ids, fit_verdict |-> Ids, data |-> Words]
Plan == [id |-> Ids, user |-> Ids, hypothesis |-> Ids, status |-> Words, data |-> Words]
Milestone == [id |-> Ids, plan |-> Ids, parent |-> Nullable(Ids), key |-> Words, depth |-> Numbers,
              position |-> Numbers, status |-> Words]
Task == [id |-> Ids, plan |-> Ids, milestone |-> Ids, key |-> Words, week |-> Numbers, occurrence |-> Numbers,
         sort_order |-> Numbers, status |-> Words, completed_at |-> Nullable(Numbers)]
ScheduleSlot == [id |-> Ids, plan |-> Ids, task |-> Ids, start_at |-> Numbers, external_ref |-> Nullable(Words),
                 synced_at |-> Nullable(Numbers)]
Checkin == [id |-> Ids, plan |-> Ids, date |-> Numbers, data |-> Words]
PlanExport == [id |-> Ids, plan |-> Ids, target |-> Numbers, status |-> Words, calendar |-> Nullable(Words)]
Reconciliation == [id |-> Ids, user |-> Ids, hypothesis |-> Ids, status |-> Words, data |-> Words,
                   outcome |-> Nullable(Words), revision_kind |-> Nullable(Words), error |-> Nullable(Words)]
LlmCallLog == [id |-> Ids, data |-> Words]

Columns ==
    [users |-> User, oauth_connections |-> OAuthConnection, imports |-> Import,
     documents |-> Document, profiles |-> Profile, direction_runs |-> DirectionRun,
     reports |-> Report, role_models |-> RoleModel, fit_verdicts |-> FitVerdict,
     question_answers |-> QuestionAnswer, quotas |-> Quota,
     direction_hypotheses |-> DirectionHypothesis, plans |-> Plan,
     milestones |-> Milestone, tasks |-> Task, schedule_slots |-> ScheduleSlot,
     checkins |-> Checkin, plan_exports |-> PlanExport,
     reconciliations |-> Reconciliation, llm_calls |-> LlmCallLog]

\* NULL is no row.
ASSUME NullAssumption ==
    \A t \in DOMAIN Columns :
        None \notin [DOMAIN Columns[t] -> UNION {Columns[t][c] : c \in DOMAIN Columns[t]}]

\* A row has the columns of its table, and in each a value of its kind.
IsRow(row, t) ==
    /\ row = [c \in DOMAIN Columns[t] |-> row[c]]
    /\ \A c \in DOMAIN Columns[t] : row[c] \in Columns[t][c]

-----------------------------------------------------------------------------
(* create_table: the unique constraints beside the primary key, and the
   foreign keys with what becomes of a row whose target is deleted. *)

References(column, table, ondelete) == [column |-> column, table |-> table, ondelete |-> ondelete]
Owner == References("user", "users", "CASCADE")

llm_calls == [unique |-> {}, refers |-> {}]
users == [unique |-> {{"email"}, {"google_sub"}}, refers |-> {}]
direction_runs == [unique |-> {}, refers |-> {Owner}]
imports == [unique |-> {}, refers |-> {Owner}]
oauth_connections == [unique |-> {{"user", "provider"}}, refers |-> {Owner}]
profiles == [unique |-> {}, refers |-> {References("id", "users", "CASCADE")}]
question_answers == [unique |-> {{"user", "key"}}, refers |-> {Owner}]
quotas == [unique |-> {}, refers |-> {References("id", "users", "CASCADE")}]
role_models == [unique |-> {{"code"}}, refers |-> {References("author_user", "users", "CASCADE")}]
documents == [unique |-> {{"import"}}, refers |-> {References("import", "imports", "CASCADE")}]
fit_verdicts ==
    [unique |-> {{"run", "role_model"}},
     refers |-> {Owner, References("role_model", "role_models", "CASCADE"),
                 References("run", "direction_runs", "CASCADE")}]
reports ==
    [unique |-> {{"run", "dimension"}},
     refers |-> {Owner, References("run", "direction_runs", "CASCADE")}]

\* Mutant: a hypothesis goes with the verdict it was drawn from.
direction_hypotheses_cascading ==
    [unique |-> {{"user", "version"}},
     refers |-> {Owner, References("role_model", "role_models", "RESTRICT"),
                 References("fit_verdict", "fit_verdicts", "CASCADE")}]

direction_hypotheses ==
    [unique |-> {{"user", "version"}},
     refers |-> {Owner, References("role_model", "role_models", "RESTRICT"),
                 References("fit_verdict", "fit_verdicts", "RESTRICT")}]
plans ==
    [unique |-> {{"hypothesis"}},
     refers |-> {Owner, References("hypothesis", "direction_hypotheses", "CASCADE")}]
reconciliations ==
    [unique |-> {},
     refers |-> {Owner, References("hypothesis", "direction_hypotheses", "CASCADE")}]
checkins == [unique |-> {{"plan", "date"}}, refers |-> {References("plan", "plans", "CASCADE")}]
milestones ==
    [unique |-> {{"plan", "key"}},
     refers |-> {References("plan", "plans", "CASCADE"), References("parent", "milestones", "CASCADE")}]
plan_exports == [unique |-> {{"plan", "target"}}, refers |-> {References("plan", "plans", "CASCADE")}]
tasks ==
    [unique |-> {{"plan", "key", "week", "occurrence"}},
     refers |-> {References("plan", "plans", "CASCADE"), References("milestone", "milestones", "CASCADE")}]
schedule_slots ==
    [unique |-> {{"task"}},
     refers |-> {References("plan", "plans", "CASCADE"), References("task", "tasks", "CASCADE")}]

Tables ==
    [llm_calls |-> llm_calls, users |-> users, direction_runs |-> direction_runs,
     imports |-> imports, oauth_connections |-> oauth_connections, profiles |-> profiles,
     question_answers |-> question_answers, quotas |-> quotas, role_models |-> role_models,
     documents |-> documents, fit_verdicts |-> fit_verdicts, reports |-> reports,
     direction_hypotheses |-> direction_hypotheses, plans |-> plans,
     reconciliations |-> reconciliations, checkins |-> checkins, milestones |-> milestones,
     plan_exports |-> plan_exports, tasks |-> tasks, schedule_slots |-> schedule_slots]

EmptyDatabase == [t \in DOMAIN Tables |-> {}]

-----------------------------------------------------------------------------
(* What both stores do with rows. *)

SameKey(a, b, key) == \A c \in key : a[c] = b[c]

\* The row with some of its columns changed.
With(row, values) == [c \in DOMAIN row |-> IF c \in DOMAIN values THEN values[c] ELSE row[c]]

\* The row of a query that finds at most one.
Single(rows) == IF rows = {} THEN None ELSE CHOOSE row \in rows : TRUE
\* The row with the highest value in a column.
Highest(rows, c) ==
    IF rows = {} THEN None ELSE CHOOSE row \in rows : \A other \in rows : other[c] <= row[c]

\* The rows in an order: each stands behind those that come before it.  Rows
\* alike in what they are ordered by come in the order of their creation.
InOrder(rows, before(_, _)) ==
    [n \in 1 .. Cardinality(rows) |->
        CHOOSE row \in rows : Cardinality({other \in rows : before(other, row)}) = n - 1]
By(rows, c) == InOrder(rows, LAMBDA a, b : a[c] < b[c] \/ (a[c] = b[c] /\ a.id < b.id))
ByBoth(rows, c, d) ==
    InOrder(rows, LAMBDA a, b :
        \/ a[c] < b[c]
        \/ a[c] = b[c] /\ (a[d] < b[d] \/ (a[d] = b[d] /\ a.id < b.id)))
Newest(rows) == InOrder(rows, LAMBDA a, b : a.id > b.id)
Limited(rows, limit) == [n \in {k \in DOMAIN rows : k <= limit} |-> rows[n]]

\* A task and its slot, with the columns they are ordered by.
Scheduled(task, slot) ==
    [id |-> task.id, task |-> task, slot |-> slot, start_at |-> slot.start_at, sort_order |-> task.sort_order]

\* Draft j of a tree goes in before draft i; of some drafts, the last to go in.
Shallower(drafts, j, i) ==
    \/ drafts[j].depth < drafts[i].depth
    \/ /\ drafts[j].depth = drafts[i].depth
       /\ drafts[j].position < drafts[i].position \/ (drafts[j].position = drafts[i].position /\ j < i)
Lowest(drafts, some) == CHOOSE i \in some : \A j \in some : j = i \/ Shallower(drafts, j, i)
=============================================================================
