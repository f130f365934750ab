---------------------------- MODULE PostgresStore ----------------------------
(* The repositories over PostgreSQL: packages/repo/pg.  A method that writes is
   one transaction: its outcome is the database it commits, or the old one when
   a constraint or a missing row makes it fail.  Methods are named
   <table>_<method>; id is the primary key the new row, or the first of the new
   rows, is given.  *)
EXTENDS Schema, Sequences, FiniteSetsExt

Knows(db, t, id) == \E row \in db[t] : row.id = id

\* Every unique constraint and every foreign key of the schema holds.
Unique(db, t) ==
    \A key \in Tables[t].unique \cup {{"id"}} : \A a, b \in db[t] : SameKey(a, b, key) => a = b
Referred(db, row, ref) == row[ref.column] = None \/ Knows(db, ref.table, row[ref.column])
Lawful(db) ==
    \A t \in DOMAIN Tables :
        /\ Unique(db, t)
        /\ \A ref \in Tables[t].refers : \A row \in db[t] : Referred(db, row, ref)

Failed(db) == [ok |-> FALSE, db |-> db]
Commit(db, new) == IF Lawful(new) THEN [ok |-> TRUE, db |-> new] ELSE Failed(db)

Matches(row, where) == \A c \in DOMAIN where : row[c] = where[c]
Select(db, t, where) == {row \in db[t] : Matches(row, where)}

Insert(db, t, row) ==
    IF Knows(db, t, row.id) THEN Failed(db) ELSE Commit(db, [db EXCEPT ![t] = @ \cup {row}])

Changed(rows, where, values) == {IF Matches(row, where) THEN With(row, values) ELSE row : row \in rows}
Update(db, t, where, values) == Commit(db, [db EXCEPT ![t] = Changed(@, where, values)])

\* Select by the key, and overwrite what is found or add the row.
Overwritten(rows, key, row) ==
    {IF SameKey(old, row, key) THEN [row EXCEPT !.id = old.id] ELSE old : old \in rows}
Upsert(db, t, key, row) ==
    IF \E old \in db[t] : SameKey(old, row, key)
    THEN Commit(db, [db EXCEPT ![t] = Overwritten(@, key, row)])
    ELSE Insert(db, t, row)

\* A delete takes along the rows that cascade; the longest chain has three
\* links (a milestone under a milestone, its task, the task's slot).
Stands(db, t, row) ==
    \A ref \in Tables[t].refers : ref.ondelete = "CASCADE" => Referred(db, row, ref)
Swept(db) == [t \in DOMAIN Tables |-> {row \in db[t] : Stands(db, t, row)}]
Without(db, t, where) == [db EXCEPT ![t] = {row \in @ : ~Matches(row, where)}]
Deleted(db, t, where) == Swept(Swept(Swept(Without(db, t, where))))

-----------------------------------------------------------------------------
(* users, oauth_connections *)

users_get_by_google_sub(db, sub) == Single(Select(db, "users", [google_sub |-> sub]))
users_get(db, user) == Single(Select(db, "users", [id |-> user]))
users_create(db, id, email, sub) == Insert(db, "users", [id |-> id, email |-> email, google_sub |-> sub])

oauth_get(db, user, provider) == Single(Select(db, "oauth_connections", [user |-> user, provider |-> provider]))
oauth_list_for_user(db, user) == By(Select(db, "oauth_connections", [user |-> user]), "provider")
oauth_upsert(db, id, user, provider, data) ==
    Upsert(db, "oauth_connections", {"user", "provider"},
           [id |-> id, user |-> user, provider |-> provider, data |-> data, revoked_at |-> None])
oauth_mark_revoked(db, user, provider, at) ==
    Update(db, "oauth_connections", [user |-> user, provider |-> provider], [revoked_at |-> at])

-----------------------------------------------------------------------------
(* imports, documents, profiles *)

imports_create(db, id, user, pending, data) ==
    Insert(db, "imports", [id |-> id, user |-> user, status |-> pending, error |-> None, data |-> data])
imports_get(db, user, import) == Single(Select(db, "imports", [id |-> import, user |-> user]))
imports_get_unscoped(db, import) == Single(Select(db, "imports", [id |-> import]))
imports_list_for_user(db, user) == Newest(Select(db, "imports", [user |-> user]))
imports_set_status(db, import, status, error) ==
    Update(db, "imports", [id |-> import], [status |-> status, error |-> error])

documents_create(db, id, import, data) ==
    Insert(db, "documents", [id |-> id, import |-> import, data |-> data])
documents_get_by_import(db, import) == Single(Select(db, "documents", [import |-> import]))
documents_list_by_imports(db, wanted) ==
    By({row \in db.documents : row.import \in wanted}, "id")

profiles_get(db, user) == Single(Select(db, "profiles", [id |-> user]))
\* _row: the row to write to, a new one if there is none.
profiles_row(db, user, values, otherwise) ==
    IF Select(db, "profiles", [id |-> user]) = {}
    THEN Insert(db, "profiles", With([id |-> user, timezone |-> otherwise, data |-> otherwise], values))
    ELSE Update(db, "profiles", [id |-> user], values)
profiles_upsert(db, user, timezone, data) ==
    profiles_row(db, user, [timezone |-> timezone, data |-> data], timezone)
profiles_set_timezone(db, user, timezone, nothing) ==
    profiles_row(db, user, [timezone |-> timezone], nothing)

-----------------------------------------------------------------------------
(* direction_runs, reports, fit_verdicts *)

runs_create(db, id, user, pending, nothing) ==
    Insert(db, "direction_runs", [id |-> id, user |-> user, status |-> pending, error |-> None,
                                  period |-> None, readouts |-> nothing])
runs_get(db, user, run) == Single(Select(db, "direction_runs", [id |-> run, user |-> user]))
runs_get_unscoped(db, run) == Single(Select(db, "direction_runs", [id |-> run]))
runs_latest(db, user) == Highest(Select(db, "direction_runs", [user |-> user]), "id")
runs_set_status(db, run, status, error) ==
    Update(db, "direction_runs", [id |-> run], [status |-> status, error |-> error])
runs_set_period(db, run, period) == Update(db, "direction_runs", [id |-> run], [period |-> period])
runs_set_readouts(db, run, readouts) == Update(db, "direction_runs", [id |-> run], [readouts |-> readouts])

\* Delete what the run has, and insert the new rows, in one transaction.
ReplaceForRun(db, t, run, rows) ==
    LET cleared == Deleted(db, t, [run |-> run])
    IN Commit(db, [cleared EXCEPT ![t] = @ \cup rows])
reports_replace_for_run(db, id, user, run, drafts) ==
    ReplaceForRun(db, "reports", run,
        {[id |-> id + i, user |-> user, run |-> run, dimension |-> drafts[i].dimension,
          data |-> drafts[i].data] : i \in DOMAIN drafts})
reports_list_for_run(db, run) == By(Select(db, "reports", [run |-> run]), "dimension")
verdicts_replace_for_run(db, id, user, run, drafts) ==
    ReplaceForRun(db, "fit_verdicts", run,
        {[id |-> id + i, user |-> user, run |-> run, role_model |-> drafts[i].role_model,
          data |-> drafts[i].data] : i \in DOMAIN drafts})
\* One transaction gives its rows one created_at, and the next key is random:
\* the order within a run is anybody's guess, so this is a set.
verdicts_list_for_run(db, run) == Select(db, "fit_verdicts", [run |-> run])
verdicts_get(db, user, verdict) == Single(Select(db, "fit_verdicts", [id |-> verdict, user |-> user]))

-----------------------------------------------------------------------------
(* question_answers, quotas, direction_hypotheses *)

answers_upsert(db, id, user, key, data) ==
    Upsert(db, "question_answers", {"user", "key"}, [id |-> id, user |-> user, key |-> key, data |-> data])
answers_list_for_user(db, user) == By(Select(db, "question_answers", [user |-> user]), "key")
quotas_get(db, user) == Single(Select(db, "quotas", [id |-> user]))
quotas_upsert(db, user, data) == Upsert(db, "quotas", {"id"}, [id |-> user, data |-> data])

\* The next version is the highest in the table plus one, within the transaction.
hypotheses_append(db, id, user, role_model, verdict, data) ==
    LET versions == {row.version : row \in Select(db, "direction_hypotheses", [user |-> user])}
    IN Insert(db, "direction_hypotheses",
              [id |-> id, user |-> user, version |-> IF versions = {} THEN 0 ELSE Max(versions) + 1,
               role_model |-> role_model, fit_verdict |-> verdict, data |-> data])
hypotheses_get(db, user, id) == Single(Select(db, "direction_hypotheses", [id |-> id, user |-> user]))
hypotheses_get_unscoped(db, id) == Single(Select(db, "direction_hypotheses", [id |-> id]))
hypotheses_list_for_user(db, user) == By(Select(db, "direction_hypotheses", [user |-> user]), "version")
hypotheses_latest(db, user) == Highest(Select(db, "direction_hypotheses", [user |-> user]), "version")

-----------------------------------------------------------------------------
(* role_models *)

role_models_get(db, id) == Single(Select(db, "role_models", [id |-> id]))
role_models_get_by_code(db, code) == Single(Select(db, "role_models", [code |-> code]))
\* The shipped shapes, plus the templates this user authored.
role_models_list(db, author, system, tags, active_only, limit) ==
    LET wanted == {row \in db.role_models :
            /\ active_only => row.active
            /\ row.author = system \/ (author # None /\ row.author_user = author)
            /\ tags # {} => row.tags \cap tags # {}}
    IN Limited(By(wanted, "code"), limit)
role_models_list_tags(db) == UNION {row.tags : row \in {r \in db.role_models : r.active}}
role_models_upsert(db, id, template) ==
    LET found == Select(db, "role_models", [code |-> template.code])
    IN IF found = {}
       THEN Insert(db, "role_models",
                   [id |-> id, code |-> template.code, tags |-> template.tags, author |-> template.author,
                    author_user |-> template.author_user, active |-> TRUE, version |-> 1])
       ELSE Update(db, "role_models", [code |-> template.code],
                   [tags |-> template.tags, author |-> template.author, author_user |-> template.author_user,
                    active |-> TRUE, version |-> Single(found).version + 1])
role_models_deactivate(db, id) == Update(db, "role_models", [id |-> id], [active |-> FALSE])

-----------------------------------------------------------------------------
(* plans, and the tree under one *)

plans_create(db, id, user, hypothesis, generating, nothing) ==
    Insert(db, "plans", [id |-> id, user |-> user, hypothesis |-> hypothesis,
                         status |-> generating, data |-> nothing])
plans_get(db, user, plan) == Single(Select(db, "plans", [id |-> plan, user |-> user]))
plans_get_unscoped(db, plan) == Single(Select(db, "plans", [id |-> plan]))
plans_get_by_hypothesis(db, hypothesis) == Single(Select(db, "plans", [hypothesis |-> hypothesis]))
plans_list_for_user(db, user, status) ==
    Newest({row \in db.plans : row.user = user /\ (status # None => row.status = status)})
plans_update_fields(db, plan, fields) ==
    IF Knows(db, "plans", plan) THEN Update(db, "plans", [id |-> plan], fields) ELSE Failed(db)

\* Milestones go in shallowest first, so that a parent has its id before its
\* children need one; a slot goes in with its task.  One transaction.
tree_replace(db, id, plan, drafts, work, pending) ==
    LET cleared == Deleted(Deleted(db, "milestones", [plan |-> plan]), "tasks", [plan |-> plan])
        ids(i) == id + 1 + Cardinality({j \in DOMAIN drafts : Shallower(drafts, j, i)})
        above(i) == {j \in DOMAIN drafts : Shallower(drafts, j, i) /\ drafts[j].key = drafts[i].parent_key}
        named(i) == {j \in DOMAIN drafts : drafts[j].key = work[i].milestone_key}
        base == id + Len(drafts)
        goals == {[id |-> ids(i), plan |-> plan, key |-> drafts[i].key, status |-> pending,
                   depth |-> drafts[i].depth, position |-> drafts[i].position,
                   parent |-> IF above(i) = {} THEN None ELSE ids(Lowest(drafts, above(i)))] : i \in DOMAIN drafts}
        jobs == {[id |-> base + i, plan |-> plan, milestone |-> ids(Lowest(drafts, named(i))),
                  key |-> work[i].key, week |-> work[i].week, occurrence |-> work[i].occurrence,
                  sort_order |-> work[i].sort_order, status |-> pending, completed_at |-> None] :
                 i \in DOMAIN work}
        slots == {[id |-> base + Len(work) + i, plan |-> plan, task |-> base + i,
                   start_at |-> work[i].start_at, external_ref |-> None, synced_at |-> None] :
                  i \in DOMAIN work}
    IN IF \E i \in DOMAIN work : named(i) = {}
       THEN Failed(db)
       ELSE Commit(db, [cleared EXCEPT !.milestones = @ \cup goals, !.tasks = @ \cup jobs,
                                       !.schedule_slots = @ \cup slots])

tree_list_milestones(db, plan) == ByBoth(Select(db, "milestones", [plan |-> plan]), "depth", "position")

\* The join of a task with its slot, and the rows in the order of the schedule.
Join(db) ==
    {Scheduled(pair[1], pair[2]) :
        pair \in {p \in db.tasks \X db.schedule_slots : p[2].task = p[1].id}}
InSchedule(rows) == ByBoth(rows, "start_at", "sort_order")
tree_list_scheduled(db, plan, from, to) ==
    InSchedule({row \in Join(db) :
        /\ row.task.plan = plan
        /\ from # None => row.start_at >= from
        /\ to # None => row.start_at < to})

\* Never synced, or completed after the last sync.
dirty_clause(task, slot) ==
    slot.synced_at = None \/ (task.completed_at # None /\ task.completed_at > slot.synced_at)
tree_list_dirty(db, plan) ==
    InSchedule({row \in Join(db) : row.task.plan = plan /\ dirty_clause(row.task, row.slot)})

tree_get_task(db, plan, task) == Single(Select(db, "tasks", [id |-> task, plan |-> plan]))
tree_find_task(db, id) == Single({row \in Join(db) : row.task.id = id})
tree_set_task_status(db, task, status, completed) ==
    IF Knows(db, "tasks", task)
    THEN Update(db, "tasks", [id |-> task], [status |-> status, completed_at |-> completed])
    ELSE Failed(db)
\* One UPDATE after the other: of a task named twice the last one stays.
tree_bulk_set_status(db, plan, results) ==
    LET naming(row) == {n \in DOMAIN results : results[n].task = row.id /\ row.plan = plan}
        last(row) == results[CHOOSE n \in naming(row) : \A k \in naming(row) : k <= n]
        ticked(row) == With(row, [status |-> last(row).status, completed_at |-> last(row).completed_at])
    IN Commit(db, [db EXCEPT !.tasks = {IF naming(row) = {} THEN row ELSE ticked(row) : row \in @}])
tree_counts_by_status(db, plan, statuses) ==
    [s \in statuses |-> Cardinality(Select(db, "tasks", [plan |-> plan, status |-> s]))]
tree_mark_dirty(db, task) == Update(db, "schedule_slots", [task |-> task], [synced_at |-> None])
tree_mark_synced(db, task, ref, at) ==
    Update(db, "schedule_slots", [task |-> task], [external_ref |-> ref, synced_at |-> at])

-----------------------------------------------------------------------------
(* checkins, plan_exports, reconciliations, llm_calls *)

checkins_upsert(db, id, plan, date, data) ==
    Upsert(db, "checkins", {"plan", "date"}, [id |-> id, plan |-> plan, date |-> date, data |-> data])
checkins_list_for_plan(db, plan) == By(Select(db, "checkins", [plan |-> plan]), "date")

exports_get(db, plan, target) == Single(Select(db, "plan_exports", [plan |-> plan, target |-> target]))
exports_list_for_plan(db, plan) == By(Select(db, "plan_exports", [plan |-> plan]), "target")
exports_upsert(db, id, plan, target, status, calendar) ==
    Upsert(db, "plan_exports", {"plan", "target"},
           [id |-> id, plan |-> plan, target |-> target, status |-> status, calendar |-> calendar])
exports_delete(db, plan, target) ==
    Commit(db, Deleted(db, "plan_exports", [plan |-> plan, target |-> target]))

reviews_create(db, id, user, hypothesis, pending, nothing) ==
    Insert(db, "reconciliations",
           [id |-> id, user |-> user, hypothesis |-> hypothesis, status |-> pending, data |-> nothing,
            outcome |-> None, revision_kind |-> None, error |-> None])
reviews_get(db, user, review) == Single(Select(db, "reconciliations", [id |-> review, user |-> user]))
reviews_get_unscoped(db, review) == Single(Select(db, "reconciliations", [id |-> review]))
reviews_list_for_hypothesis(db, hypothesis) == By(Select(db, "reconciliations", [hypothesis |-> hypothesis]), "id")
reviews_complete(db, review, done, data, kind) ==
    Update(db, "reconciliations", [id |-> review],
           [status |-> done, data |-> data, revision_kind |-> kind, error |-> None])
reviews_decide(db, review, outcome) == Update(db, "reconciliations", [id |-> review], [outcome |-> outcome])
reviews_fail(db, review, failed, error) ==
    Update(db, "reconciliations", [id |-> review], [status |-> failed, error |-> error])

llm_calls_record(db, id, data) == Insert(db, "llm_calls", [id |-> id, data |-> data])
=============================================================================
