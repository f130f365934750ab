----------------------------- MODULE MemoryStore -----------------------------
(* The repositories of packages/repo/memory, which every test that needs no
   database runs on.  Dictionaries by key and lists, and no constraint of any
   kind: each is the set of its rows, as those in the order they came in are in
   the order of their ids.  The outcome of a method has the form it has in
   PostgresStore.  *)
EXTENDS Schema, Sequences, FiniteSetsExt

Done(mem) == [ok |-> TRUE, db |-> mem]
Raised(mem) == [ok |-> FALSE, db |-> mem]

\* self._rows[key] = row: whatever had the key is gone.
Put(mem, t, key, row) == [mem EXCEPT ![t] = {old \in @ : ~SameKey(old, row, key)} \cup {row}]

\* _update, model_copy: nothing happens to a row that is not there.
Copied(mem, t, chosen, update) ==
    [mem EXCEPT ![t] = {IF row \in chosen THEN With(row, update) ELSE row : row \in @}]

-----------------------------------------------------------------------------
(* InMemoryUserRepo, InMemoryOAuthConnectionRepo *)

users_get_by_google_sub(mem, sub) == Single({row \in mem.users : row.google_sub = sub})
users_get(mem, user) == Single({row \in mem.users : row.id = user})
users_create(mem, id, email, sub) ==
    Done(Put(mem, "users", {"id"}, [id |-> id, email |-> email, google_sub |-> sub]))

oauth_get(mem, user, provider) ==
    Single({row \in mem.oauth_connections : row.user = user /\ row.provider = provider})
oauth_list_for_user(mem, user) ==
    By({row \in mem.oauth_connections : row.user = user}, "provider")
\* The id and the date of creation of the row that is there are kept.
oauth_upsert(mem, id, user, provider, data) ==
    LET existing == {row \in mem.oauth_connections : row.user = user /\ row.provider = provider}
    IN Done(Put(mem, "oauth_connections", {"user", "provider"},
                [id |-> IF existing = {} THEN id ELSE Single(existing).id, user |-> user,
                 provider |-> provider, data |-> data, revoked_at |-> None]))
oauth_mark_revoked(mem, user, provider, at) ==
    Done(Copied(mem, "oauth_connections", {row \in mem.oauth_connections : row.user = user /\ row.provider = provider},
                [revoked_at |-> at]))

-----------------------------------------------------------------------------
(* InMemoryImportRepo, InMemoryDocumentRepo, InMemoryProfileRepo *)

imports_create(mem, id, user, pending, data) ==
    Done(Put(mem, "imports", {"id"},
             [id |-> id, user |-> user, status |-> pending, error |-> None, data |-> data]))
imports_get_unscoped(mem, import) == Single({row \in mem.imports : row.id = import})
imports_get(mem, user, import) ==
    Single({row \in mem.imports : row.id = import /\ row.user = user})
imports_list_for_user(mem, user) == Newest({row \in mem.imports : row.user = user})
imports_set_status(mem, import, status, error) ==
    Done(Copied(mem, "imports", {row \in mem.imports : row.id = import}, [status |-> status, error |-> error]))

documents_create(mem, id, import, data) ==
    Done(Put(mem, "documents", {"id"}, [id |-> id, import |-> import, data |-> data]))
documents_get_by_import(mem, import) == Single({row \in mem.documents : row.import = import})
documents_list_by_imports(mem, wanted) ==
    By({row \in mem.documents : row.import \in wanted}, "id")

profiles_get(mem, user) == Single({row \in mem.profiles : row.id = user})
profiles_upsert(mem, user, timezone, data) ==
    Done(Put(mem, "profiles", {"id"}, [id |-> user, timezone |-> timezone, data |-> data]))
\* Mutant: the profile of a user who has none yet starts with no contents.
profiles_set_timezone_alone(mem, user, timezone, nothing) ==
    LET existing == {row \in mem.profiles : row.id = user}
    IN Done(Put(mem, "profiles", {"id"},
                IF existing = {} THEN [id |-> user, timezone |-> timezone, data |-> None]
                ELSE [Single(existing) EXCEPT !.timezone = timezone]))
profiles_set_timezone(mem, user, timezone, nothing) ==
    LET existing == {row \in mem.profiles : row.id = user}
    IN Done(Put(mem, "profiles", {"id"},
                IF existing = {} THEN [id |-> user, timezone |-> timezone, data |-> nothing]
                ELSE [Single(existing) EXCEPT !.timezone = timezone]))

-----------------------------------------------------------------------------
(* The repositories of Station 1 *)

runs_create(mem, id, user, pending, nothing) ==
    Done(Put(mem, "direction_runs", {"id"},
             [id |-> id, user |-> user, status |-> pending, error |-> None,
              period |-> None, readouts |-> nothing]))
runs_get_unscoped(mem, run) == Single({row \in mem.direction_runs : row.id = run})
runs_get(mem, user, run) ==
    Single({row \in mem.direction_runs : row.id = run /\ row.user = user})
runs_latest(mem, user) == Highest({row \in mem.direction_runs : row.user = user}, "id")
runs_update(mem, run, fields) ==
    Done(Copied(mem, "direction_runs", {row \in mem.direction_runs : row.id = run}, fields))
runs_set_status(mem, run, status, error) == runs_update(mem, run, [status |-> status, error |-> error])
runs_set_period(mem, run, period) == runs_update(mem, run, [period |-> period])
runs_set_readouts(mem, run, readouts) == runs_update(mem, run, [readouts |-> readouts])

\* Keep the rows of other runs, then extend.
reports_replace_for_run(mem, id, user, run, drafts) ==
    Done([mem EXCEPT !.reports =
            {row \in @ : row.run # run}
            \cup {[id |-> id + i, user |-> user, run |-> run, dimension |-> drafts[i].dimension,
                   data |-> drafts[i].data] : i \in DOMAIN drafts}])
reports_list_for_run(mem, run) == By({row \in mem.reports : row.run = run}, "dimension")

verdicts_replace_for_run(mem, id, user, run, drafts) ==
    Done([mem EXCEPT !.fit_verdicts =
            {row \in @ : row.run # run}
            \cup {[id |-> id + i, user |-> user, run |-> run, role_model |-> drafts[i].role_model,
                   data |-> drafts[i].data] : i \in DOMAIN drafts}])
verdicts_list_for_run(mem, run) == {row \in mem.fit_verdicts : row.run = run}
verdicts_get(mem, user, verdict) ==
    Single({row \in mem.fit_verdicts : row.id = verdict /\ row.user = user})

answers_upsert(mem, id, user, key, data) ==
    LET existing == {row \in mem.question_answers : row.user = user /\ row.key = key}
    IN Done(Put(mem, "question_answers", {"user", "key"},
                [id |-> IF existing = {} THEN id ELSE Single(existing).id,
                 user |-> user, key |-> key, data |-> data]))
answers_list_for_user(mem, user) ==
    By({row \in mem.question_answers : row.user = user}, "key")
quotas_get(mem, user) == Single({row \in mem.quotas : row.id = user})
quotas_upsert(mem, user, data) == Done(Put(mem, "quotas", {"id"}, [id |-> user, data |-> data]))

\* Append-only: there is no method that changes a row.
hypotheses_append(mem, id, user, role_model, verdict, data) ==
    LET versions == {row.version : row \in {old \in mem.direction_hypotheses : old.user = user}}
    IN Done([mem EXCEPT !.direction_hypotheses = @ \cup
                {[id |-> id, user |-> user, version |-> IF versions # {} THEN Max(versions) + 1 ELSE 0,
                  role_model |-> role_model, fit_verdict |-> verdict, data |-> data]}])
hypotheses_get(mem, user, id) ==
    Single({row \in mem.direction_hypotheses : row.id = id /\ row.user = user})
hypotheses_get_unscoped(mem, id) == Single({row \in mem.direction_hypotheses : row.id = id})
hypotheses_list_for_user(mem, user) ==
    By({row \in mem.direction_hypotheses : row.user = user}, "version")
hypotheses_latest(mem, user) == Highest({row \in mem.direction_hypotheses : row.user = user}, "version")

-----------------------------------------------------------------------------
(* InMemoryRoleModelRepo *)

role_models_get(mem, id) == Single({row \in mem.role_models : row.id = id})
role_models_get_by_code(mem, code) == Single({row \in mem.role_models : row.code = code})
\* One filter after the other: active, visible to the author, tags.
role_models_list(mem, author, system, tags, active_only, limit) ==
    LET active == IF active_only THEN {row \in mem.role_models : row.active} ELSE mem.role_models
        visible == {row \in active : row.author = system \/ (author # None /\ row.author_user = author)}
        tagged == IF tags = {} THEN visible ELSE {row \in visible : tags \cap row.tags # {}}
    IN Limited(By(tagged, "code"), limit)
role_models_list_tags(mem) == UNION {row.tags : row \in {r \in mem.role_models : r.active}}

role_models_upsert(mem, id, template) ==
    LET existing == {row \in mem.role_models : row.code = template.code}
    IN Done(Put(mem, "role_models", {"id"},
                [id |-> IF existing = {} THEN id ELSE Single(existing).id,
                 code |-> template.code, tags |-> template.tags, author |-> template.author,
                 author_user |-> template.author_user, active |-> TRUE,
                 version |-> IF existing = {} THEN 1 ELSE Single(existing).version + 1]))
role_models_deactivate(mem, id) ==
    Done(Copied(mem, "role_models", {row \in mem.role_models : row.id = id}, [active |-> FALSE]))

-----------------------------------------------------------------------------
(* InMemoryPlanRepo, InMemoryPlanTreeRepo *)

plans_create(mem, id, user, hypothesis, generating, nothing) ==
    Done(Put(mem, "plans", {"id"}, [id |-> id, user |-> user, hypothesis |-> hypothesis,
                                    status |-> generating, data |-> nothing]))
plans_get_unscoped(mem, plan) == Single({row \in mem.plans : row.id = plan})
plans_get(mem, user, plan) == Single({row \in mem.plans : row.id = plan /\ row.user = user})
plans_get_by_hypothesis(mem, hypothesis) ==
    Single({row \in mem.plans : row.hypothesis = hypothesis})
plans_list_for_user(mem, user, status) ==
    LET rows == {row \in mem.plans : row.user = user}
    IN Newest(IF status = None THEN rows ELSE {row \in rows : row.status = status})
plans_update_fields(mem, plan, fields) ==
    IF \A row \in mem.plans : row.id # plan THEN Raised(mem)
    ELSE Done(Copied(mem, "plans", {row \in mem.plans : row.id = plan}, fields))

\* The old tree goes first.  A task that names no milestone raises then and
\* there: the tasks before it are in, and nothing is put back.
tree_replace(mem, id, plan, drafts, work, pending) ==
    LET dropped == {row.id : row \in {task \in mem.tasks : task.plan = plan}}
        ids(i) == id + 1 + Cardinality({j \in DOMAIN drafts : Shallower(drafts, j, i)})
        before(i) == {j \in DOMAIN drafts : Shallower(drafts, j, i) /\ drafts[j].key = drafts[i].parent_key}
        keyed(i) == {j \in DOMAIN drafts : drafts[j].key = work[i].milestone_key}
        goals == {[id |-> ids(i), plan |-> plan,
                   parent |-> IF before(i) = {} THEN None ELSE ids(Lowest(drafts, before(i))),
                   key |-> drafts[i].key, depth |-> drafts[i].depth, position |-> drafts[i].position,
                   status |-> pending] : i \in DOMAIN drafts}
        taken == {i \in DOMAIN work : \A j \in 1 .. i : keyed(j) # {}}
        base == id + Len(drafts)
        jobs == {[id |-> base + i, plan |-> plan, milestone |-> ids(Lowest(drafts, keyed(i))),
                  key |-> work[i].key, week |-> work[i].week, occurrence |-> work[i].occurrence,
                  sort_order |-> work[i].sort_order, status |-> pending, completed_at |-> None] : i \in taken}
        slots == {[id |-> base + Len(work) + i, plan |-> plan, task |-> base + i,
                   start_at |-> work[i].start_at, external_ref |-> None, synced_at |-> None] : i \in taken}
        grown == [mem EXCEPT !.milestones = {row \in @ : row.plan # plan} \cup goals,
                             !.tasks = {row \in @ : row.plan # plan} \cup jobs,
                             !.schedule_slots = {row \in @ : row.task \notin dropped} \cup slots]
    IN IF taken = DOMAIN work THEN Done(grown) ELSE Raised(grown)

tree_list_milestones(mem, plan) == ByBoth({row \in mem.milestones : row.plan = plan}, "depth", "position")

SlotOf(mem, task) == Single({row \in mem.schedule_slots : row.task = task})
Rows(mem, chosen) == {Scheduled(task, SlotOf(mem, task.id)) : task \in chosen}
listed(mem, plan) == Rows(mem, {row \in mem.tasks : row.plan = plan})
InSchedule(rows) == ByBoth(rows, "start_at", "sort_order")
tree_list_scheduled(mem, plan, from, to) ==
    LET since == IF from = None THEN listed(mem, plan) ELSE {row \in listed(mem, plan) : row.slot.start_at >= from}
        until == IF to = None THEN since ELSE {row \in since : row.slot.start_at < to}
    IN InSchedule(until)

\* Mutant: a task finished in the very moment of the last sync counts as dirty.
is_dirty_at_once(row) ==
    IF row.slot.synced_at = None THEN TRUE
    ELSE row.task.completed_at # None /\ row.task.completed_at >= row.slot.synced_at

is_dirty(row) ==
    IF row.slot.synced_at = None THEN TRUE
    ELSE row.task.completed_at # None /\ row.task.completed_at > row.slot.synced_at
tree_list_dirty(mem, plan) == InSchedule({row \in listed(mem, plan) : is_dirty(row)})

tree_get_task(mem, plan, task) == Single({row \in mem.tasks : row.id = task /\ row.plan = plan})
tree_find_task(mem, task) ==
    Single(Rows(mem, {row \in mem.tasks : row.id = task}))
tree_set_task_status(mem, task, status, completed) ==
    IF \A row \in mem.tasks : row.id # task THEN Raised(mem)
    ELSE Done(Copied(mem, "tasks", {row \in mem.tasks : row.id = task},
                     [status |-> status, completed_at |-> completed]))
\* One tick after the other: a task named twice keeps the last, a task of
\* another plan is passed over.
tree_bulk_set_status(mem, plan, results) ==
    LET naming(row) == {n \in DOMAIN results : results[n].task = row.id}
        last(row) == results[CHOOSE n \in naming(row) : \A k \in naming(row) : k <= n]
        ticked(row) == With(row, [status |-> last(row).status, completed_at |-> last(row).completed_at])
    IN Done([mem EXCEPT !.tasks =
                {IF row.plan = plan /\ naming(row) # {} THEN ticked(row) ELSE row : row \in @}])
tree_counts_by_status(mem, plan, statuses) ==
    [s \in statuses |-> Cardinality({row \in mem.tasks : row.plan = plan /\ row.status = s})]
tree_mark_dirty(mem, task) ==
    Done(Copied(mem, "schedule_slots", {row \in mem.schedule_slots : row.task = task}, [synced_at |-> None]))
tree_mark_synced(mem, task, ref, at) ==
    Done(Copied(mem, "schedule_slots", {row \in mem.schedule_slots : row.task = task},
                [external_ref |-> ref, synced_at |-> at]))

-----------------------------------------------------------------------------
(* InMemoryCheckinRepo, InMemoryPlanExportRepo, InMemoryReconciliationRepo,
   InMemoryLlmCallRepo *)

checkins_upsert(mem, id, plan, date, data) ==
    LET existing == {row \in mem.checkins : row.plan = plan /\ row.date = date}
    IN Done(Put(mem, "checkins", {"plan", "date"},
                [id |-> IF existing = {} THEN id ELSE Single(existing).id,
                 plan |-> plan, date |-> date, data |-> data]))
checkins_list_for_plan(mem, plan) ==
    By({row \in mem.checkins : row.plan = plan}, "date")

exports_get(mem, plan, target) ==
    Single({row \in mem.plan_exports : row.plan = plan /\ row.target = target})
exports_list_for_plan(mem, plan) ==
    By({row \in mem.plan_exports : row.plan = plan}, "target")
exports_upsert(mem, id, plan, target, status, calendar) ==
    LET existing == {row \in mem.plan_exports : row.plan = plan /\ row.target = target}
    IN Done(Put(mem, "plan_exports", {"plan", "target"},
                [id |-> IF existing = {} THEN id ELSE Single(existing).id, plan |-> plan,
                 target |-> target, status |-> status, calendar |-> calendar]))
exports_delete(mem, plan, target) ==
    Done([mem EXCEPT !.plan_exports =
            {row \in @ : ~(row.plan = plan /\ row.target = target)}])

reviews_create(mem, id, user, hypothesis, pending, nothing) ==
    Done(Put(mem, "reconciliations", {"id"},
             [id |-> id, user |-> user, hypothesis |-> hypothesis, status |-> pending,
              data |-> nothing, outcome |-> None, revision_kind |-> None, error |-> None]))
reviews_get_unscoped(mem, review) == Single({row \in mem.reconciliations : row.id = review})
reviews_get(mem, user, review) ==
    Single({row \in mem.reconciliations : row.id = review /\ row.user = user})
reviews_list_for_hypothesis(mem, hypothesis) ==
    By({row \in mem.reconciliations : row.hypothesis = hypothesis}, "id")
reviews_update(mem, review, fields) ==
    Done(Copied(mem, "reconciliations", {row \in mem.reconciliations : row.id = review}, fields))
reviews_complete(mem, review, done, data, kind) ==
    reviews_update(mem, review,
        [status |-> done, data |-> data, revision_kind |-> kind, error |-> None])
reviews_decide(mem, review, outcome) == reviews_update(mem, review, [outcome |-> outcome])
reviews_fail(mem, review, failed, error) ==
    reviews_update(mem, review, [status |-> failed, error |-> error])

llm_calls_record(mem, id, data) == Done([mem EXCEPT !.llm_calls = @ \cup {[id |-> id, data |-> data]}])
=============================================================================
