-------------------------------- MODULE Views --------------------------------
(* What a client is shown: the use cases of the API Service that only read, as
   operators on the database.  A view is put together from the answers of
   several repositories; here they all answer from the same rows.  (That a run
   may be written between two of the reads is the matter of DirectionRun.)
   None is also the NotFound a client gets for what is not there, or not its
   own, and the empty code of a shape that cannot be named.  *)
EXTENDS PostgresStore, SequencesExt

CONSTANT System  \* the author "system"

\* A row, and some columns more.
Wider(row, more) == [c \in DOMAIN row \cup DOMAIN more |-> IF c \in DOMAIN row THEN row[c] ELSE more[c]]
\* One entry for each row, made by view.
Each(rows, view(_)) == [i \in DOMAIN rows |-> view(rows[i])]
\* The rows that pass, in the order they are in.
Kept(rows, passes(_)) ==
    Each(InOrder({i \in DOMAIN rows : passes(rows[i])}, LAMBDA i, j : i < j), LAMBDA i : rows[i])

-----------------------------------------------------------------------------
(* Uploads, questions *)

\* The counts of an import stay at nothing until its document is written.
to_view(record, document) ==
    Wider(record, [counts |-> IF document = None THEN None ELSE document.data])
ListImports(db, user) ==
    LET records == imports_list_for_user(db, user)
        written == documents_list_by_imports(db, {row.id : row \in ToSet(records)})
        by_import(record) == Single({d \in ToSet(written) : d.import = record.id})
    IN Each(records, LAMBDA record : to_view(record, by_import(record)))

\* All of them, always.
QUESTIONS == Numbers
_answered(row) == IF row = None THEN None ELSE row.data
ListQuestions(db, user) ==
    LET stored(key) == Single({row \in ToSet(answers_list_for_user(db, user)) : row.key = key})
    IN [key \in QUESTIONS |-> _answered(stored(key))]

-----------------------------------------------------------------------------
(* Station 1: the run with its Reports and verdicts, the shapes, the versions *)

ListRoleModels(db, user) == role_models_list(db, user, System, {}, TRUE, 50)

\* The shape the catalogue lists for a verdict, and its code; "" comes first.
Listed(catalogue, verdict) == Single({model \in ToSet(catalogue) : model.id = verdict.role_model})
_code(catalogue, verdict) ==
    LET model == Listed(catalogue, verdict) IN IF model = None THEN None ELSE model.code
ByCode(a, b) == b # None /\ (a = None \/ a < b)

\* Mutant: the verdicts are shown as they come.
sorted_as_they_come(catalogue, verdicts) == verdicts

\* By code; of one code, as they come.
sorted(catalogue, verdicts) ==
    LET code(i) == _code(catalogue, verdicts[i])
        order == InOrder(DOMAIN verdicts,
            LAMBDA i, j : ByCode(code(i), code(j)) \/ (~ByCode(code(j), code(i)) /\ i < j))
    IN Each(order, LAMBDA i : verdicts[i])

_verdict_view(catalogue, row) == Wider(row, [code |-> _code(catalogue, row)])

\* The verdicts come in some order, of those PostgreSQL may give.
GetDirectionRun(db, user, run, verdicts) ==
    LET found == IF run = None THEN runs_latest(db, user) ELSE runs_get(db, user, run)
        catalogue == ListRoleModels(db, user)
        shown(row) == _verdict_view(catalogue, row)
    IN IF found = None THEN None
       ELSE Wider(found, [reports |-> reports_list_for_run(db, found.id),
                          verdicts |-> Each(sorted(catalogue, verdicts), shown)])

\* A hypothesis names its shape, listed or not, and the plan it started.
_hydrate(db, row) ==
    LET role_model == role_models_get(db, row.role_model)
        plan == plans_get_by_hypothesis(db, row.id)
    IN Wider(row, [code |-> IF role_model = None THEN None ELSE role_model.code,
                   plan |-> IF plan = None THEN None ELSE plan.id])
ListHypotheses(db, user) == Each(hypotheses_list_for_user(db, user), LAMBDA row : _hydrate(db, row))
GetHypothesis(db, user, hypothesis) ==
    LET row == hypotheses_get(db, user, hypothesis) IN IF row = None THEN None ELSE _hydrate(db, row)

-----------------------------------------------------------------------------
(* Station 2: the plan, its tree, its tasks *)

_summary(plan, counts) == Wider(plan, [task_counts |-> counts])
ListPlans(db, user, status) ==
    Each(plans_list_for_user(db, user, status),
         LAMBDA row : _summary(row, tree_counts_by_status(db, row.id, Words)))

\* Every goal among the children of its parent, or among the roots if its
\* parent is not one of the rows.
_tree(rows) ==
    LET views == {row.id : row \in ToSet(rows)}
    IN [roots |-> Kept(rows, LAMBDA row : row.parent \notin views),
        children |-> [view \in views |-> Kept(rows, LAMBDA row : row.parent = view)]]
GetPlan(db, user, id) ==
    LET plan == plans_get(db, user, id)
    IN IF plan = None THEN None
       ELSE Wider(_summary(plan, tree_counts_by_status(db, id, Words)),
                  [milestones |-> _tree(tree_list_milestones(db, id))])

_task_view(row) == Wider(row.task, [start_at |-> row.slot.start_at])
ListPlanTasks(db, user, plan, from, to) ==
    IF plans_get(db, user, plan) = None THEN None
    ELSE Each(tree_list_scheduled(db, plan, from, to), _task_view)

\* Every record of an export shows what the next push would send.
GetExportStatus(db, user, plan) ==
    IF plans_get(db, user, plan) = None THEN None
    ELSE Each(exports_list_for_plan(db, plan),
              LAMBDA record : Wider(record, [pending_changes |-> Len(tree_list_dirty(db, plan))]))
=============================================================================
