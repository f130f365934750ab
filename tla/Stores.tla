-------------------------------- MODULE Stores --------------------------------
(* The two implementations of the repositories, side by side.  Every test of
   the use cases that needs no database runs on the one in memory, the program
   on the one over PostgreSQL: what the tests show holds of the program as far
   as the two answer alike.  Each step is one call of a use case or a handler
   that writes, made on both.  Only calls the use cases make are made: the
   drafts of a run repeat no dimension and no shape, a task hangs on a
   milestone of its own tree.  The calls are taken one part of the ports at a
   time, from a database that holds what that part refers to.  *)
EXTENDS Schema, Sequences, SequencesExt, FiniteSetsExt

CONSTANTS Parts,      \* the parts of the ports whose calls are made
          MaxOps,     \* bound on the calls of a behaviour
          System,     \* the author "system", a word
          Vocabulary  \* the tags of config/tag_vocab.yaml, some of the words

ASSUME StoresAssumption ==
    /\ Parts \subseteq {"identity", "intake", "direction", "catalog", "planning", "review"}
    /\ System \in Words /\ Vocabulary \subseteq Words
    /\ \E w \in Words : w # System
    /\ MaxOps \in Nat /\ 10 * (MaxOps + 2) <= MaxId

P == INSTANCE PostgresStore
V == INSTANCE Views
M == INSTANCE MemoryStore

VARIABLES part,   \* the part of the ports in use
          pg,     \* the database
          mem,    \* the rows in memory
          ops,    \* the number of calls made
          apart   \* PostgreSQL refused a call the other store took

vars == <<part, pg, mem, ops, apart>>

-----------------------------------------------------------------------------
(* What there is at the start: nothing, for the calls that sign a user in; else
   two users, two shapes, and the first's run, verdict, hypothesis, and plan
   with one task in its tree.  *)

w0 == System
w1 == CHOOSE w \in Words : w # w0

Fixture ==
    [EmptyDatabase EXCEPT
        !.users = {[id |-> 1, email |-> w0, google_sub |-> w0], [id |-> 2, email |-> w1, google_sub |-> w1]},
        !.role_models = {[id |-> 3, code |-> 0, tags |-> {}, author |-> System,
                           author_user |-> None, active |-> TRUE, version |-> 1],
                          [id |-> 11, code |-> 1, tags |-> {}, author |-> System,
                           author_user |-> None, active |-> TRUE, version |-> 1]},
        !.direction_runs = {[id |-> 4, user |-> 1, status |-> w0, error |-> None,
                              period |-> None, readouts |-> w0]},
        !.fit_verdicts = {[id |-> 5, user |-> 1, run |-> 4, role_model |-> 3, data |-> w0]},
        !.direction_hypotheses = {[id |-> 6, user |-> 1, version |-> 0, role_model |-> 3,
                                    fit_verdict |-> 5, data |-> w0]},
        !.plans = {[id |-> 7, user |-> 1, hypothesis |-> 6, status |-> w0, data |-> w0]},
        !.milestones = {[id |-> 8, plan |-> 7, parent |-> None, key |-> w0, depth |-> 0,
                          position |-> 0, status |-> w0]},
        !.tasks = {[id |-> 9, plan |-> 7, milestone |-> 8, key |-> w0, week |-> 0, occurrence |-> 0,
                     sort_order |-> 0, status |-> w0, completed_at |-> None]},
        !.schedule_slots = {[id |-> 10, plan |-> 7, task |-> 9, start_at |-> 0,
                              external_ref |-> None, synced_at |-> None]}]

Init ==
    /\ part \in Parts
    /\ pg = IF part = "identity" THEN EmptyDatabase ELSE Fixture
    /\ mem = pg
    /\ ops = 0
    /\ apart = FALSE

\* The primary key of the next row.
id == 10 * (ops + 1) + 2
IdsOf(t) == {row.id : row \in mem[t]}
Owners == IdsOf("users")

\* One call, on both stores.
Both(p, m) ==
    /\ ops < MaxOps /\ ~apart
    /\ pg' = p.db /\ mem' = m.db
    /\ apart' = (p.ok # m.ok)
    /\ ops' = ops + 1
    /\ UNCHANGED part

-----------------------------------------------------------------------------
(* Signing in, integrations *)

SignsUp == \E email, sub \in Words :
    Both(P!users_create(pg, id, email, sub), M!users_create(mem, id, email, sub))
Connects == \E user \in Owners, provider \in Numbers, data \in Words :
    Both(P!oauth_upsert(pg, id, user, provider, data), M!oauth_upsert(mem, id, user, provider, data))
Revokes == \E user \in Owners, provider \in Numbers :
    Both(P!oauth_mark_revoked(pg, user, provider, w0), M!oauth_mark_revoked(mem, user, provider, w0))

Identity == part = "identity" /\ (SignsUp \/ Connects \/ Revokes)

-----------------------------------------------------------------------------
(* Uploads, documents, the profile *)

StartsImport == \E user \in Owners, data \in Words :
    Both(P!imports_create(pg, id, user, w0, data), M!imports_create(mem, id, user, w0, data))
SetsImport == \E import \in IdsOf("imports"), status \in Words, error \in Nullable(Words) :
    Both(P!imports_set_status(pg, import, status, error), M!imports_set_status(mem, import, status, error))
WritesDocument == \E import \in IdsOf("imports"), data \in Words :
    Both(P!documents_create(pg, id, import, data), M!documents_create(mem, id, import, data))
WritesProfile == \E user \in Owners, timezone, data \in Words :
    Both(P!profiles_upsert(pg, user, timezone, data), M!profiles_upsert(mem, user, timezone, data))
SetsTimezone == \E user \in Owners, timezone \in Words :
    Both(P!profiles_set_timezone(pg, user, timezone, w0), M!profiles_set_timezone(mem, user, timezone, w0))

Intake == part = "intake" /\ (StartsImport \/ SetsImport \/ WritesDocument \/ WritesProfile \/ SetsTimezone)

-----------------------------------------------------------------------------
(* The run of Station 1, the questions, the commitment *)

StartsRun == \E user \in Owners :
    Both(P!runs_create(pg, id, user, w0, w0), M!runs_create(mem, id, user, w0, w0))
SetsRun == \E run \in IdsOf("direction_runs"), status \in Words, error \in Nullable(Words) :
    Both(P!runs_set_status(pg, run, status, error), M!runs_set_status(mem, run, status, error))
SetsPeriod == \E run \in IdsOf("direction_runs"), period \in Words :
    Both(P!runs_set_period(pg, run, period), M!runs_set_period(mem, run, period))
SetsReadouts == \E run \in IdsOf("direction_runs"), readouts \in Words :
    Both(P!runs_set_readouts(pg, run, readouts), M!runs_set_readouts(mem, run, readouts))

\* Drafts in either order, no column's value twice.
DraftsOf(column, values) ==
    {[i \in 1 .. n |-> [c \in {column, "data"} |-> IF c = column THEN f[i] ELSE w1]] :
        f \in {g \in [1 .. 2 -> values] : \A i, j \in 1 .. 2 : g[i] = g[j] => i = j}, n \in 0 .. 2}
WritesReports == \E run \in IdsOf("direction_runs"), drafts \in DraftsOf("dimension", Numbers) :
    Both(P!reports_replace_for_run(pg, id, 1, run, drafts), M!reports_replace_for_run(mem, id, 1, run, drafts))
WritesVerdicts == \E run \in IdsOf("direction_runs"), drafts \in DraftsOf("role_model", {3, 11}) :
    Both(P!verdicts_replace_for_run(pg, id, 1, run, drafts), M!verdicts_replace_for_run(mem, id, 1, run, drafts))
\* A shape is retired, whoever's verdicts speak of it.
DeactivateRoleModel == \E shape \in IdsOf("role_models") :
    Both(P!role_models_deactivate(pg, shape), M!role_models_deactivate(mem, shape))

Commits == \E verdict \in mem.fit_verdicts, data \in Words :
    Both(P!hypotheses_append(pg, id, 1, verdict.role_model, verdict.id, data),
         M!hypotheses_append(mem, id, 1, verdict.role_model, verdict.id, data))
Answers == \E key \in Numbers, data \in Words :
    Both(P!answers_upsert(pg, id, 1, key, data), M!answers_upsert(mem, id, 1, key, data))
SetsQuota == \E data \in Words : Both(P!quotas_upsert(pg, 1, data), M!quotas_upsert(mem, 1, data))

Direction ==
    /\ part = "direction"
    /\ \/ StartsRun \/ SetsRun \/ SetsPeriod \/ SetsReadouts \/ WritesReports \/ WritesVerdicts
       \/ DeactivateRoleModel \/ Commits \/ Answers \/ SetsQuota

-----------------------------------------------------------------------------
(* The catalogue: the use cases of the Catalog Service, and the one of the API
   Service that writes a user's own shape.  *)

Shape(code, tags, author, author_user) ==
    [code |-> code, tags |-> tags, author |-> author, author_user |-> author_user]
Writes(shape) == Both(P!role_models_upsert(pg, id, shape), M!role_models_upsert(mem, id, shape))

\* A tag outside the vocabulary is an InvalidTag, and nothing is written.
validate_tags(tags) == tags \subseteq Vocabulary
UpsertRoleModel == \E code \in Numbers, tags \in SUBSET Words :
    validate_tags(tags) /\ Writes(Shape(code, tags, System, None))
\* The shipped shapes, one upsert each, by code.
SeedCatalog == \E code \in Numbers : Writes(Shape(code, {}, System, None))
\* Whatever code and tags the user asks for.
AuthorRoleModel == \E user \in Owners, code \in Numbers, tags \in SUBSET Words :
    Writes(Shape(code, tags, w1, user))

Catalog == part = "catalog" /\ (UpsertRoleModel \/ SeedCatalog \/ DeactivateRoleModel \/ AuthorRoleModel)

-----------------------------------------------------------------------------
(* The plan, its tree, its check-ins and its exports *)

StartsPlan == \E hypothesis \in IdsOf("direction_hypotheses") :
    Both(P!plans_create(pg, id, 1, hypothesis, w0, w0), M!plans_create(mem, id, 1, hypothesis, w0, w0))
UpdatesPlan == \E plan \in IdsOf("plans"), status \in Words :
    Both(P!plans_update_fields(pg, plan, [status |-> status]),
         M!plans_update_fields(mem, plan, [status |-> status]))

Goal(key, parent, depth) == [key |-> key, parent_key |-> parent, depth |-> depth, position |-> 0]
Work(key, milestone, start, order) ==
    [key |-> key, milestone_key |-> milestone, week |-> 0, occurrence |-> order,
     sort_order |-> order, start_at |-> start]
\* A child drafted before its parent; two tasks at one time.
Drafted == <<Goal(w1, w0, 1), Goal(w0, None, 0)>>
WritesTree == \E plan \in IdsOf("plans"), first, second \in Numbers :
    LET work == <<Work(w0, w1, first, 1), Work(w0, w0, second, 0)>>
    IN Both(P!tree_replace(pg, id, plan, Drafted, work, w0), M!tree_replace(mem, id, plan, Drafted, work, w0))

SetsTask == \E task \in IdsOf("tasks"), status \in Words, at \in Nullable(Numbers) :
    Both(P!tree_set_task_status(pg, task, status, at), M!tree_set_task_status(mem, task, status, at))
\* The ticks of a check-in, twice for one task and once for one unknown.
TicksTasks == \E plan \in IdsOf("plans"), task \in IdsOf("tasks"), status \in Words, at \in Numbers :
    LET results == <<[task |-> task, status |-> w1, completed_at |-> 0],
                     [task |-> task, status |-> status, completed_at |-> at],
                     [task |-> 0, status |-> w1, completed_at |-> 0]>>
    IN Both(P!tree_bulk_set_status(pg, plan, results), M!tree_bulk_set_status(mem, plan, results))
MarksDirty == \E task \in IdsOf("tasks") : Both(P!tree_mark_dirty(pg, task), M!tree_mark_dirty(mem, task))
MarksSynced == \E task \in IdsOf("tasks"), at \in Numbers :
    Both(P!tree_mark_synced(pg, task, w0, at), M!tree_mark_synced(mem, task, w0, at))

ChecksIn == \E plan \in IdsOf("plans"), date \in Numbers, data \in Words :
    Both(P!checkins_upsert(pg, id, plan, date, data), M!checkins_upsert(mem, id, plan, date, data))
SetsExport == \E plan \in IdsOf("plans"), target \in Numbers, calendar \in Nullable(Words) :
    Both(P!exports_upsert(pg, id, plan, target, w0, calendar), M!exports_upsert(mem, id, plan, target, w0, calendar))
DropsExport == \E plan \in IdsOf("plans"), target \in Numbers :
    Both(P!exports_delete(pg, plan, target), M!exports_delete(mem, plan, target))

Planning ==
    /\ part = "planning"
    /\ \/ StartsPlan \/ UpdatesPlan \/ WritesTree \/ SetsTask \/ TicksTasks \/ MarksDirty \/ MarksSynced
       \/ ChecksIn \/ SetsExport \/ DropsExport

-----------------------------------------------------------------------------
(* The review, and the log of the model's calls *)

StartsReview == \E hypothesis \in IdsOf("direction_hypotheses") :
    Both(P!reviews_create(pg, id, 1, hypothesis, w0, w0), M!reviews_create(mem, id, 1, hypothesis, w0, w0))
CompletesReview == \E review \in IdsOf("reconciliations"), data \in Words, kind \in Nullable(Words) :
    Both(P!reviews_complete(pg, review, w1, data, kind), M!reviews_complete(mem, review, w1, data, kind))
DecidesReview == \E review \in IdsOf("reconciliations"), outcome \in Words :
    Both(P!reviews_decide(pg, review, outcome), M!reviews_decide(mem, review, outcome))
FailsReview == \E review \in IdsOf("reconciliations"), error \in Words :
    Both(P!reviews_fail(pg, review, w0, error), M!reviews_fail(mem, review, w0, error))
RecordsCall == \E data \in Words :
    Both(P!llm_calls_record(pg, id, data), M!llm_calls_record(mem, id, data))

Review ==
    /\ part = "review"
    /\ StartsReview \/ CompletesReview \/ DecidesReview \/ FailsReview \/ RecordsCall

Next == Identity \/ Intake \/ Direction \/ Catalog \/ Planning \/ Review

Spec == Init /\ [][Next]_vars

-----------------------------------------------------------------------------
(* The rows of both stores are rows of their tables: no method writes a column
   the entity does not have, or a value it may not take.  *)
IsDatabase(db) ==
    /\ db = [t \in DOMAIN Tables |-> db[t]]
    /\ \A t \in DOMAIN Tables : \A row \in db[t] : IsRow(row, t)

TypeOK ==
    /\ part \in Parts /\ ops \in 0 .. MaxOps /\ apart \in BOOLEAN
    /\ IsDatabase(pg) /\ IsDatabase(mem)

\* Every row is older than the next one.
Older(db) == \A t \in DOMAIN Tables : \A row \in db[t] : row.id < id

\* A goal is a root, or one step below its parent, which is of the same plan.
Hangs(goal, goals) ==
    \/ goal.parent = None /\ goal.depth = 0
    \/ /\ goal.parent # None
       /\ \E above \in goals :
            above.id = goal.parent /\ above.plan = goal.plan /\ goal.depth = above.depth + 1
\* The goals hang together, a task is under a goal of its plan, and has a slot.
TreesHold(db) ==
    /\ \A goal \in db.milestones : Hangs(goal, db.milestones)
    /\ \A task \in db.tasks :
        /\ \E goal \in db.milestones : goal.id = task.milestone /\ goal.plan = task.plan
        /\ \E slot \in db.schedule_slots : slot.task = task.id

\* The versions of each user are 0, 1, 2...
VersionsOf(db, user) == {row.version : row \in {h \in db.direction_hypotheses : h.user = user}}
Numbered(db) == \A user \in Ids : \E n \in 0 .. ops + 1 : VersionsOf(db, user) = {k \in 0 .. ops : k < n}

\* The invariant behind the theorems: what is in the database when a call is
\* made, and that both stores hold the same until they part.
StoresInv ==
    /\ TypeOK
    /\ P!Lawful(pg) /\ Older(pg) /\ TreesHold(pg) /\ Numbered(pg)
    /\ ~apart => mem = pg

Keys == {0} \cup UNION {IdsOf(t) : t \in DOMAIN Tables}

IdentityAlike ==
    /\ \A sub \in Words : P!users_get_by_google_sub(pg, sub) = M!users_get_by_google_sub(mem, sub)
    /\ \A u \in Keys :
        /\ P!users_get(pg, u) = M!users_get(mem, u)
        /\ P!oauth_list_for_user(pg, u) = M!oauth_list_for_user(mem, u)
        /\ \A p \in Numbers : P!oauth_get(pg, u, p) = M!oauth_get(mem, u, p)

IntakeAlike ==
    /\ \A u \in Keys :
        /\ P!imports_list_for_user(pg, u) = M!imports_list_for_user(mem, u)
        /\ P!profiles_get(pg, u) = M!profiles_get(mem, u)
        /\ \A i \in Keys : P!imports_get(pg, u, i) = M!imports_get(mem, u, i)
    /\ \A i \in Keys :
        /\ P!imports_get_unscoped(pg, i) = M!imports_get_unscoped(mem, i)
        /\ P!documents_get_by_import(pg, i) = M!documents_get_by_import(mem, i)
    /\ \A wanted \in {{}, IdsOf("imports")} :
        P!documents_list_by_imports(pg, wanted) = M!documents_list_by_imports(mem, wanted)

DirectionAlike ==
    /\ \A u \in {0} \cup Owners :
        /\ P!runs_latest(pg, u) = M!runs_latest(mem, u)
        /\ P!answers_list_for_user(pg, u) = M!answers_list_for_user(mem, u)
        /\ P!quotas_get(pg, u) = M!quotas_get(mem, u)
        /\ P!hypotheses_list_for_user(pg, u) = M!hypotheses_list_for_user(mem, u)
        /\ P!hypotheses_latest(pg, u) = M!hypotheses_latest(mem, u)
        /\ \A k \in Keys :
            /\ P!runs_get(pg, u, k) = M!runs_get(mem, u, k)
            /\ P!verdicts_get(pg, u, k) = M!verdicts_get(mem, u, k)
            /\ P!hypotheses_get(pg, u, k) = M!hypotheses_get(mem, u, k)
    /\ \A k \in Keys :
        /\ P!runs_get_unscoped(pg, k) = M!runs_get_unscoped(mem, k)
        /\ P!reports_list_for_run(pg, k) = M!reports_list_for_run(mem, k)
        /\ P!verdicts_list_for_run(pg, k) = M!verdicts_list_for_run(mem, k)
        /\ P!hypotheses_get_unscoped(pg, k) = M!hypotheses_get_unscoped(mem, k)

CatalogAlike ==
    /\ \A author \in Nullable(Owners), tags \in SUBSET Words, active \in BOOLEAN, limit \in {1, 50} :
        P!role_models_list(pg, author, System, tags, active, limit)
            = M!role_models_list(mem, author, System, tags, active, limit)
    /\ P!role_models_list_tags(pg) = M!role_models_list_tags(mem)
    /\ \A k \in Keys : P!role_models_get(pg, k) = M!role_models_get(mem, k)
    /\ \A code \in Numbers : P!role_models_get_by_code(pg, code) = M!role_models_get_by_code(mem, code)

PlanningAlike ==
    /\ \A u \in {0} \cup Owners : \A k \in Keys : P!plans_get(pg, u, k) = M!plans_get(mem, u, k)
    /\ \A status \in Nullable(Words) : P!plans_list_for_user(pg, 1, status) = M!plans_list_for_user(mem, 1, status)
    /\ \A h \in IdsOf("direction_hypotheses") :
        P!plans_get_by_hypothesis(pg, h) = M!plans_get_by_hypothesis(mem, h)
    /\ \A k \in {0} \cup IdsOf("plans") :
        /\ P!plans_get_unscoped(pg, k) = M!plans_get_unscoped(mem, k)
        /\ P!tree_list_milestones(pg, k) = M!tree_list_milestones(mem, k)
        /\ \A from, to \in Nullable(Numbers) :
            P!tree_list_scheduled(pg, k, from, to) = M!tree_list_scheduled(mem, k, from, to)
        /\ P!tree_list_dirty(pg, k) = M!tree_list_dirty(mem, k)
        /\ P!tree_counts_by_status(pg, k, Words) = M!tree_counts_by_status(mem, k, Words)
        /\ \A task \in IdsOf("tasks") : P!tree_get_task(pg, k, task) = M!tree_get_task(mem, k, task)
        /\ P!checkins_list_for_plan(pg, k) = M!checkins_list_for_plan(mem, k)
        /\ P!exports_list_for_plan(pg, k) = M!exports_list_for_plan(mem, k)
        /\ \A target \in Numbers : P!exports_get(pg, k, target) = M!exports_get(mem, k, target)
    /\ \A task \in {0} \cup IdsOf("tasks") : P!tree_find_task(pg, task) = M!tree_find_task(mem, task)

ReviewAlike ==
    /\ \A k \in Keys :
        /\ P!reviews_get_unscoped(pg, k) = M!reviews_get_unscoped(mem, k)
        /\ P!reviews_list_for_hypothesis(pg, k) = M!reviews_list_for_hypothesis(mem, k)
        /\ \A u \in {0} \cup Owners : P!reviews_get(pg, u, k) = M!reviews_get(mem, u, k)
    /\ pg.llm_calls = mem.llm_calls

\* Until PostgreSQL refuses a call for a repeated key, or for a row another
\* still needs, the two stores answer every question alike: the same rows, in
\* the same order, with the same ones missing.  What a test without a database
\* sees of a use case is what the program does.
SameAnswers ==
    ~apart => CASE part = "identity" -> IdentityAlike
                [] part = "intake" -> IntakeAlike
                [] part = "direction" -> DirectionAlike
                [] part = "catalog" -> CatalogAlike
                [] part = "planning" -> PlanningAlike
                [] part = "review" -> ReviewAlike

-----------------------------------------------------------------------------
(* What a client sees, over PostgreSQL. *)

\* Every import once, the newest first, its counts those of its document.
ImportsShown ==
    \A user \in Owners :
        LET shown == V!ListImports(pg, user)
        IN /\ {view.id : view \in ToSet(shown)} = {row.id : row \in {i \in pg.imports : i.user = user}}
           /\ \A i, j \in DOMAIN shown : i < j => shown[i].id > shown[j].id
           /\ \A view \in ToSet(shown) : view.counts =
                IF P!documents_get_by_import(pg, view.id) = None THEN None
                ELSE P!documents_get_by_import(pg, view.id).data

\* Every Report and every verdict of the run, the verdicts in the order of
\* their codes and in one order only, whichever PostgreSQL returns them in: as
\* long as the catalogue lists their shapes.
RunShown ==
    \A run \in pg.direction_runs :
        LET verdicts == P!verdicts_list_for_run(pg, run.id)
            views == {V!GetDirectionRun(pg, run.user, run.id, order) : order \in SetToSeqs(verdicts)}
        IN \A view \in views :
            /\ ToSet(view.reports) = {row \in pg.reports : row.run = run.id}
            /\ {v.id : v \in ToSet(view.verdicts)} = {v.id : v \in verdicts}
            /\ \A i, j \in DOMAIN view.verdicts : i < j => ~V!ByCode(view.verdicts[j].code, view.verdicts[i].code)
            /\ (\A v \in ToSet(view.verdicts) : v.code # None) => views = {view}

\* Every version once, oldest first and without a gap, with the code of its
\* shape, retired or not; and alone as in the list.
HypothesesShown ==
    \A user \in Owners :
        LET shown == V!ListHypotheses(pg, user)
        IN /\ \A i \in DOMAIN shown : shown[i].version = i - 1 /\ shown[i].code # None
           /\ ToSet(shown) = {V!GetHypothesis(pg, user, h) : h \in
                                {row.id : row \in {r \in pg.direction_hypotheses : r.user = user}}}

\* The plan's tree is the one that was drafted: all its goals, each at its depth;
\* the summary counts the tasks of the schedule, each of them under a goal
\* of the tree; and nobody else is shown the plan.
PlanShown ==
    \A plan \in pg.plans :
        LET view == V!GetPlan(pg, plan.user, plan.id)
            goals == {row \in pg.milestones : row.plan = plan.id}
            scheduled == V!ListPlanTasks(pg, plan.user, plan.id, None, None)
        IN /\ ToSet(view.milestones.roots) = {goal \in goals : goal.depth = 0}
           /\ \A above \in goals : \A goal \in ToSet(view.milestones.children[above.id]) :
                goal.depth = above.depth + 1
           /\ UNION {ToSet(view.milestones.children[goal.id]) : goal \in goals}
                = {goal \in goals : goal.depth > 0}
           /\ \A status \in Words : view.task_counts[status] =
                Cardinality({i \in DOMAIN scheduled : scheduled[i].status = status})
           /\ \A task \in ToSet(scheduled) : \E goal \in goals : goal.id = task.milestone
           /\ \A user \in Owners \ {plan.user} : V!GetPlan(pg, user, plan.id) = None

\* A client is shown everything there is of its own: no goal, task, version,
\* verdict or upload drops out of a view between the rows and the answer.
NothingIsHidden ==
    CASE part = "intake" -> ImportsShown
      [] part = "direction" -> RunShown /\ HypothesesShown
      [] part = "planning" -> PlanShown
      [] OTHER -> TRUE

\* What a user committed to is never rewritten: no call changes a hypothesis or
\* loses one, and the verdict it quotes stays, though its run may be repeated
\* and its verdicts replaced (direction.py, RESTRICT).
HypothesesAreKept ==
    [][\A h \in pg.direction_hypotheses :
        /\ h \in pg'.direction_hypotheses
        /\ h.fit_verdict \in {v.id : v \in pg'.fit_verdicts}]_vars

\* A shape the program ships stays in every user's list until it is retired:
\* a template a user writes is a further one, "visible only to you".
ShippedStayShipped ==
    [][\A shape \in pg.role_models :
        shape.author = System =>
            \E later \in pg'.role_models : later.id = shape.id /\ later.author = System]_vars
=============================================================================
