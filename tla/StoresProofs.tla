---------------------------- MODULE StoresProofs ----------------------------
(***************************************************************************)
(* Theorems about Stores, for every set of words, numbers and parts of the *)
(* schema's use, and any number of calls: the constraints of the migration *)
(* hold, what was committed to stays, and both stores, PostgreSQL and the  *)
(* one in memory, answer alike until PostgreSQL refuses a call; and a      *)
(* client is shown all there is of its own.                                *)
(*                                                                         *)
(* The inductive invariant is StoresInv.  A call is taken in two halves:   *)
(* that both stores write the same rows, or PostgreSQL none; and that the  *)
(* rows, if lawful, keep the trees together and the versions in a row.     *)
(* The second matters for the first: what a cascade takes from PostgreSQL  *)
(* is what the memory store drops only while no tree reaches into another. *)
(***************************************************************************)
EXTENDS Stores, FiniteSetTheorems, TLAPS

-----------------------------------------------------------------------------
(* Both stores speak of the one schema. *)

\* The PostgreSQL store speaks of the tables of the schema.
LEMMA SameTables == P!Tables = Tables
  BY DEF P!Tables, Tables, P!llm_calls, llm_calls, P!users, users, P!direction_runs, direction_runs,
     P!imports, imports, P!oauth_connections, oauth_connections, P!profiles, profiles,
     P!question_answers, question_answers, P!quotas, quotas, P!role_models, role_models,
     P!documents, documents, P!fit_verdicts, fit_verdicts, P!reports, reports,
     P!direction_hypotheses, direction_hypotheses, P!plans, plans, P!reconciliations, reconciliations,
     P!checkins, checkins, P!milestones, milestones, P!plan_exports, plan_exports, P!tasks, tasks,
     P!schedule_slots, schedule_slots, P!Owner, Owner, P!References, References

TableNames ==
    {"llm_calls", "users", "direction_runs", "imports", "oauth_connections", "profiles",
     "question_answers", "quotas", "role_models", "documents", "fit_verdicts", "reports",
     "direction_hypotheses", "plans", "reconciliations", "checkins", "milestones",
     "plan_exports", "tasks", "schedule_slots"}

\* The tables, and that each has its columns.
LEMMA TablesAre == DOMAIN Tables = TableNames /\ DOMAIN Columns = TableNames
  BY DEF Tables, Columns, TableNames

\* A row's id is one of the ids, and a number.
LEMMA IdsOfRows ==
  ASSUME NEW t \in DOMAIN Tables, NEW row, IsRow(row, t)
  PROVE  row.id \in Ids /\ row.id \in Nat
<1>1. "id" \in DOMAIN Columns[t] /\ Columns[t]["id"] = Ids
  BY TablesAre DEF TableNames, Columns, User, OAuthConnection, Import, Document, Profile, DirectionRun,
     Report, RoleModel, FitVerdict, QuestionAnswer, Quota, DirectionHypothesis, Plan, Milestone, Task,
     ScheduleSlot, Checkin, PlanExport, Reconciliation, LlmCallLog
<1>2. row.id \in Ids
  BY <1>1 DEF IsRow
<1> QED
  BY <1>2, SchemaAssumption DEF Ids

\* What a transaction does: it fails, or commits new if that is lawful.
Tried(p, new) == p = P!Failed(pg) \/ p = P!Commit(pg, new)
\* What the invariant asks of the rows, once the call is counted.
Fine(db) ==
    /\ IsDatabase(db)
    /\ \A t \in DOMAIN Tables : \A row \in db[t] : row.id < id + 10
    /\ TreesHold(db)
    /\ \A user \in Ids : \E n \in 0 .. ops + 2 : VersionsOf(db, user) = {k \in 0 .. ops + 1 : k < n}
Keeps(db) == pg.direction_hypotheses \subseteq db.direction_hypotheses
\* The other store: it does the same, or raises at once where the transaction fails.
Follows(p, m, new) ==
    /\ IsDatabase(m.db)
    /\ \/ m.ok = TRUE /\ (p = P!Failed(pg) \/ m.db = new)
       \/ m.ok = FALSE /\ p = P!Failed(pg) /\ m.db = mem

\* One call on both stores keeps the invariant and every hypothesis: when what
\* the transaction would write, if lawful, is a database whose trees hold and
\* whose versions have no gap, and the other store does the same or raises.
LEMMA Call ==
  ASSUME StoresInv, NEW p, NEW m, NEW new, Both(p, m), Tried(p, new),
         P!Lawful(new) => Fine(new) /\ Keeps(new), Follows(p, m, new)
  PROVE  StoresInv' /\ Keeps(pg')
<1>1. ops \in Nat /\ ops < MaxOps /\ MaxOps \in Nat /\ mem = pg
  BY StoresAssumption DEF StoresInv, TypeOK, Both
<1>2. /\ pg' = p.db /\ mem' = m.db /\ ops' = ops + 1 /\ part' = part
      /\ apart' = (p.ok # m.ok)
  BY DEF Both
<1>3. CASE p = P!Commit(pg, new) /\ P!Lawful(new)
  <2>1. p = [ok |-> TRUE, db |-> new] /\ p # P!Failed(pg)
    BY <1>3 DEF P!Commit, P!Failed
  <2>2. p.ok = TRUE /\ p.db = new /\ m.ok = TRUE /\ m.db = new
    <3>1. m.ok = TRUE /\ m.db = new
      BY <2>1, Zenon DEF Follows
    <3> QED
      BY <2>1, <3>1
  <2>3. id' = id + 10 /\ Fine(new) /\ Keeps(new)
    BY <1>1, <1>2, <1>3 DEF id
  <2>4. Older(pg)'
    BY <1>2, <2>2, <2>3 DEF Older, Fine
  <2>5. Numbered(pg)'
    BY <1>1, <1>2, <2>2, <2>3 DEF Numbered, Fine, VersionsOf
  <2>6. TypeOK'
    BY <1>1, <1>2, <2>2, <2>3 DEF TypeOK, StoresInv, Fine
  <2> QED
    BY <1>2, <1>3, <2>2, <2>3, <2>4, <2>5, <2>6 DEF StoresInv, Fine
<1>4. CASE p.db = pg /\ p.ok = FALSE
  <2>1. id' = id + 10 /\ id \in Nat
    BY <1>1, <1>2 DEF id
  <2>2. Older(pg)'
    BY <1>2, <1>4, <2>1, IdsOfRows DEF Older, StoresInv, TypeOK, IsDatabase
  <2>3. Numbered(pg)'
    BY <1>1, <1>2, <1>4 DEF Numbered, StoresInv, VersionsOf
  <2>4. TypeOK'
    BY <1>1, <1>2, <1>4 DEF TypeOK, StoresInv, Follows
  <2> QED
    BY <1>1, <1>2, <1>4, <2>2, <2>3, <2>4 DEF StoresInv, Follows, Keeps
<1>5. p = P!Failed(pg) => p.db = pg /\ p.ok = FALSE
  BY DEF P!Failed
<1>6. ~P!Lawful(new) => P!Commit(pg, new) = P!Failed(pg)
  BY DEF P!Commit
<1> QED
  BY <1>3, <1>4, <1>5, <1>6 DEF Tried

-----------------------------------------------------------------------------
(* Calls that change one table. *)

Apart(t) == t \notin {"milestones", "tasks", "schedule_slots", "direction_hypotheses"}

\* Rows that leave the hypotheses alone leave their versions without a gap.
LEMMA StillNumbered ==
  ASSUME StoresInv, NEW db, db.direction_hypotheses = pg.direction_hypotheses
  PROVE  \A user \in Ids : \E n \in 0 .. ops + 2 : VersionsOf(db, user) = {k \in 0 .. ops + 1 : k < n}
<1> SUFFICES ASSUME NEW user \in Ids
             PROVE  \E n \in 0 .. ops + 2 : VersionsOf(db, user) = {k \in 0 .. ops + 1 : k < n}
  OBVIOUS
<1>1. ops \in Nat
  BY StoresAssumption DEF StoresInv, TypeOK
<1>2. PICK n \in 0 .. ops + 1 : VersionsOf(pg, user) = {k \in 0 .. ops : k < n}
  BY DEF StoresInv, Numbered
<1>3. VersionsOf(db, user) = VersionsOf(pg, user)
  BY DEF VersionsOf
<1>4. {k \in 0 .. ops : k < n} = {k \in 0 .. ops + 1 : k < n} /\ n \in 0 .. ops + 2
  BY <1>1
<1> QED
  BY <1>2, <1>3, <1>4

\* Writing rows of one table, of neither the tree nor the hypotheses, keeps what the invariant asks.
LEMMA OneTable ==
  ASSUME StoresInv, NEW t \in DOMAIN Tables, Apart(t), NEW rows,
         \A row \in rows : IsRow(row, t) /\ row.id < id + 10
  PROVE  Fine([pg EXCEPT ![t] = rows]) /\ Keeps([pg EXCEPT ![t] = rows])
<1> DEFINE new == [pg EXCEPT ![t] = rows]
<1>1. /\ pg = [u \in DOMAIN Tables |-> pg[u]]
      /\ \A u \in DOMAIN Tables : \A row \in pg[u] : IsRow(row, u) /\ row.id < id + 10
  BY IdsOfRows, StoresAssumption DEF StoresInv, TypeOK, IsDatabase, Older, id
<1>2. /\ new = [u \in DOMAIN Tables |-> new[u]]
      /\ new[t] = rows /\ \A u \in DOMAIN Tables \ {t} : new[u] = pg[u]
  BY <1>1
<1>3. /\ new["milestones"] = pg["milestones"] /\ new["tasks"] = pg["tasks"]
      /\ new["schedule_slots"] = pg["schedule_slots"]
      /\ new["direction_hypotheses"] = pg["direction_hypotheses"]
  BY <1>2, TablesAre DEF Apart, TableNames
<1>4. TreesHold(new)
  BY <1>3 DEF StoresInv, TreesHold
<1>5. IsDatabase(new) /\ \A u \in DOMAIN Tables : \A row \in new[u] : row.id < id + 10
  BY <1>1, <1>2 DEF IsDatabase
<1> HIDE DEF new
<1>6. \A user \in Ids : \E n \in 0 .. ops + 2 : VersionsOf(new, user) = {k \in 0 .. ops + 1 : k < n}
  BY <1>3, StillNumbered
<1> QED
  BY <1>3, <1>4, <1>5, <1>6 DEF Fine, Keeps, new

\* Rows from elsewhere, or with columns changed.
Valued(values, t) ==
    /\ DOMAIN values \subseteq DOMAIN Columns[t] \ {"id"}
    /\ \A c \in DOMAIN values : values[c] \in Columns[t][c]

\* A row with a few columns overwritten is a row, and the others are as they were.
LEMMA WithValues ==
  ASSUME NEW t \in DOMAIN Tables, NEW row, IsRow(row, t), NEW values, Valued(values, t)
  PROVE  /\ IsRow(With(row, values), t)
         /\ \A c \in DOMAIN Columns[t] \ DOMAIN values : With(row, values)[c] = row[c]
  BY DEF IsRow, With, Valued

\* Every table has a primary key.
LEMMA IdIsAColumn ==
  ASSUME NEW t \in DOMAIN Tables
  PROVE  "id" \in DOMAIN Columns[t] /\ Columns[t]["id"] = Ids
  BY TablesAre DEF TableNames, Columns, User, OAuthConnection, Import, Document, Profile, DirectionRun,
     Report, RoleModel, FitVerdict, QuestionAnswer, Quota, DirectionHypothesis, Plan, Milestone, Task,
     ScheduleSlot, Checkin, PlanExport, Reconciliation, LlmCallLog

\* An UPDATE writes rows of the table, and no newer ids.
LEMMA Updates ==
  ASSUME StoresInv, NEW t \in DOMAIN Tables, NEW where, NEW values, Valued(values, t)
  PROVE  \A row \in P!Changed(pg[t], where, values) : IsRow(row, t) /\ row.id < id + 10
<1>1. \A row \in pg[t] : IsRow(row, t) /\ row.id < id + 10
  BY IdsOfRows, StoresAssumption DEF StoresInv, TypeOK, IsDatabase, Older, id
<1>2. \A row \in pg[t] : IsRow(With(row, values), t) /\ With(row, values).id = row.id
  BY <1>1, WithValues, IdIsAColumn DEF Valued
<1> QED
  BY <1>1, <1>2 DEF P!Changed, P!With, With

\* So does the DO UPDATE of an upsert.
LEMMA Overwrites ==
  ASSUME StoresInv, NEW t \in DOMAIN Tables, NEW key, NEW row, IsRow(row, t)
  PROVE  \A new \in P!Overwritten(pg[t], key, row) : IsRow(new, t) /\ new.id < id + 10
<1>1. \A old \in pg[t] : IsRow(old, t) /\ old.id \in Ids /\ old.id < id + 10
  BY IdsOfRows, StoresAssumption DEF StoresInv, TypeOK, IsDatabase, Older, id
<1>2. ASSUME NEW old \in pg[t]
      PROVE  IsRow([row EXCEPT !.id = old.id], t) /\ [row EXCEPT !.id = old.id].id = old.id
  BY <1>1, <1>2, IdIsAColumn DEF IsRow
<1> QED
  BY <1>1, <1>2 DEF P!Overwritten

\* So does an INSERT of a row that is one.
LEMMA Inserts ==
  ASSUME StoresInv, NEW t \in DOMAIN Tables, NEW row, IsRow(row, t), row.id < id + 10
  PROVE  \A new \in pg[t] \cup {row} : IsRow(new, t) /\ new.id < id + 10
  BY IdsOfRows, StoresAssumption DEF StoresInv, TypeOK, IsDatabase, Older, id

-----------------------------------------------------------------------------
(* The same call on the other store. *)

\* A row put in a memory repository, in place of the one with its key, leaves a database.
LEMMA PutIsDatabase ==
  ASSUME IsDatabase(mem), NEW t \in DOMAIN Tables, NEW key, NEW row, IsRow(row, t)
  PROVE  IsDatabase(M!Put(mem, t, key, row))
  BY DEF IsDatabase, M!Put

\* So does a memory repository's copy of chosen rows with some columns overwritten.
LEMMA CopiedIsDatabase ==
  ASSUME IsDatabase(mem), NEW t \in DOMAIN Tables, NEW chosen, NEW values, Valued(values, t)
  PROVE  IsDatabase(M!Copied(mem, t, chosen, values))
<1>1. \A row \in mem[t] : IsRow(row, t) /\ IsRow(With(row, values), t)
  BY WithValues DEF IsDatabase
<1> QED
  BY <1>1 DEF IsDatabase, M!Copied, M!With, With

\* What a memory repository answers when it does not raise.
LEMMA DoneIs == ASSUME NEW db PROVE M!Done(db).ok = TRUE /\ M!Done(db).db = db
  BY DEF M!Done

\* Before a call both stores hold the same lawful rows.
LEMMA InStep ==
  ASSUME StoresInv, NEW p, NEW m, Both(p, m)
  PROVE  mem = pg /\ IsDatabase(pg) /\ IsDatabase(mem) /\ P!Lawful(pg)
  BY DEF StoresInv, TypeOK, Both

\* No two rows of a lawful database agree on a unique key.
LEMMA KeysAreUnique ==
  ASSUME NEW db, P!Lawful(db), NEW t \in DOMAIN Tables, NEW key \in Tables[t].unique \cup {{"id"}},
         NEW a \in db[t], NEW b \in db[t], SameKey(a, b, key)
  PROVE  a = b
  BY SameTables DEF P!Lawful, P!Unique, P!SameKey, SameKey

\* A transaction that fails, or that commits what the other store has too.
LEMMA CommitOrFail ==
  ASSUME StoresInv, NEW p, NEW m, NEW new, Both(p, m), m.ok = TRUE, IsDatabase(m.db),
         p = P!Failed(pg) \/ p = P!Commit(pg, new), Fine(new), Keeps(new),
         P!Lawful(new) => p = P!Failed(pg) \/ m.db = new
  PROVE  StoresInv' /\ Keeps(pg')
<1>1. ~P!Lawful(new) => P!Commit(pg, new) = P!Failed(pg)
  BY DEF P!Commit
<1>2. Tried(p, new)
  BY DEF Tried
<1>3. p = P!Failed(pg) \/ m.db = new
  BY <1>1
<1>4. Follows(p, m, new)
  BY <1>3, Zenon DEF Follows
<1> QED
  BY <1>2, <1>4, Call, Zenon

\* create: an INSERT, and a row put in the memory repository.
LEMMA InsertCall ==
  ASSUME StoresInv, NEW t \in DOMAIN Tables, Apart(t), NEW row, IsRow(row, t), row.id < id + 10,
         NEW key \in Tables[t].unique \cup {{"id"}},
         Both(P!Insert(pg, t, row), M!Done(M!Put(mem, t, key, row)))
  PROVE  StoresInv' /\ Keeps(pg')
<1> DEFINE p == P!Insert(pg, t, row)
           m == M!Done(M!Put(mem, t, key, row))
           new == [pg EXCEPT ![t] = pg[t] \cup {row}]
<1>1. Fine(new) /\ Keeps(new)
  BY OneTable, Inserts
<1>2. m.ok = TRUE /\ m.db = M!Put(mem, t, key, row)
  BY DoneIs
<1>3. mem = pg /\ IsDatabase(pg) /\ IsDatabase(m.db)
  BY <1>2, InStep, PutIsDatabase
<1>4. p = IF P!Knows(pg, t, row.id) THEN P!Failed(pg) ELSE P!Commit(pg, new)
  BY DEF P!Insert
<1>5. ASSUME P!Lawful(new), ~P!Knows(pg, t, row.id)
      PROVE  m.db = new
  <2>1. new[t] = pg[t] \cup {row}
    BY <1>3 DEF IsDatabase
  <2>2. \A old \in pg[t] : ~SameKey(old, row, key)
    BY <1>5, <2>1, KeysAreUnique DEF P!Knows
  <2>3. {old \in pg[t] : ~M!SameKey(old, row, key)} = pg[t]
    BY <2>2 DEF M!SameKey, SameKey
  <2> QED
    BY <1>2, <1>3, <2>3 DEF M!Put
<1> HIDE DEF p, m, new
<1>6. Both(p, m)
  BY DEF p, m
<1> QED
  BY <1>1, <1>2, <1>3, <1>4, <1>5, <1>6, CommitOrFail

\* set_*: an UPDATE by id, and a copy of the rows chosen in the memory repository.
LEMMA UpdateCall ==
  ASSUME StoresInv, NEW t \in DOMAIN Tables, Apart(t), NEW where, NEW values, Valued(values, t),
         NEW chosen, \A row \in mem[t] : row \in chosen <=> P!Matches(row, where),
         Both(P!Update(pg, t, where, values), M!Done(M!Copied(mem, t, chosen, values)))
  PROVE  StoresInv' /\ Keeps(pg')
<1> DEFINE p == P!Update(pg, t, where, values)
           m == M!Done(M!Copied(mem, t, chosen, values))
           new == [pg EXCEPT ![t] = P!Changed(pg[t], where, values)]
<1>1. Fine(new) /\ Keeps(new)
  BY OneTable, Updates
<1>2. m.ok = TRUE /\ m.db = M!Copied(mem, t, chosen, values)
  BY DoneIs
<1>3. mem = pg /\ IsDatabase(m.db)
  BY <1>2, InStep, CopiedIsDatabase
<1>4. p = P!Commit(pg, new)
  BY DEF P!Update
<1>5. {IF row \in chosen THEN M!With(row, values) ELSE row : row \in pg[t]} = P!Changed(pg[t], where, values)
  BY <1>3 DEF P!Changed, P!With, M!With
<1>6. m.db = new
  BY <1>2, <1>3, <1>5 DEF M!Copied
<1> HIDE DEF p, m, new
<1>7. Both(p, m)
  BY DEF p, m
<1> QED
  BY <1>1, <1>2, <1>3, <1>4, <1>6, <1>7, CommitOrFail

\* What is put in the place of the row with the key, which keeps its id.
Replaces(written, row, t, key) ==
    /\ IsRow(written, t) /\ \A c \in key : written[c] = row[c]
    /\ \A old \in mem[t] : SameKey(old, row, key) => written = [row EXCEPT !.id = old.id]
    /\ (\A old \in mem[t] : ~SameKey(old, row, key)) => written = row

\* upsert: INSERT ... ON CONFLICT DO UPDATE, and the row put in place of the one with its key.
LEMMA UpsertCall ==
  ASSUME StoresInv, NEW t \in DOMAIN Tables, Apart(t), NEW row, IsRow(row, t), row.id < id + 10,
         NEW key \in Tables[t].unique \cup {{"id"}}, key \subseteq DOMAIN Columns[t],
         NEW written, Replaces(written, row, t, key),
         Both(P!Upsert(pg, t, key, row), M!Done(M!Put(mem, t, key, written)))
  PROVE  StoresInv' /\ Keeps(pg')
<1>m. mem = pg /\ P!Lawful(pg) /\ IsDatabase(pg)
  BY InStep
<1>1. CASE \A old \in mem[t] : ~SameKey(old, row, key)
  <2>1. P!Upsert(pg, t, key, row) = P!Insert(pg, t, row) /\ written = row
    BY <1>m, <1>1 DEF P!Upsert, P!SameKey, SameKey, Replaces
  <2> QED
    BY <2>1, InsertCall
<1>2. CASE \E old \in mem[t] : SameKey(old, row, key)
  <2> DEFINE p == P!Upsert(pg, t, key, row)
             m == M!Done(M!Put(mem, t, key, written))
             new == [pg EXCEPT ![t] = P!Overwritten(pg[t], key, row)]
  <2>1. Fine(new) /\ Keeps(new)
    BY OneTable, Overwrites
  <2>2. m.ok = TRUE /\ m.db = M!Put(mem, t, key, written)
    BY DoneIs
  <2>3. IsDatabase(m.db)
    BY <2>2, InStep, PutIsDatabase DEF Replaces
  <2>4. p = P!Commit(pg, new)
    BY <1>m, <1>2 DEF P!Upsert, P!SameKey, SameKey
  <2>5. PICK old \in pg[t] : SameKey(old, row, key)
    BY <1>m, <1>2
  <2>6. \A other \in pg[t] : SameKey(other, row, key) <=> other = old
    <3>1. ASSUME NEW other \in pg[t], SameKey(other, row, key) PROVE other = old
      <4>1. SameKey(other, old, key)
        BY <2>5, <3>1 DEF SameKey
      <4> QED
        BY <1>m, <4>1, KeysAreUnique
    <3> QED
      BY <2>5, <3>1
  <2>7. written = [row EXCEPT !.id = old.id]
    BY <1>m, <2>5 DEF Replaces
  <2>8. \A other \in pg[t] : M!SameKey(other, written, key) <=> other = old
    BY <2>6 DEF M!SameKey, SameKey, Replaces
  <2>9. P!Overwritten(pg[t], key, row) = {IF other = old THEN written ELSE other : other \in pg[t]}
    BY <2>6, <2>7 DEF P!Overwritten, P!SameKey, SameKey
  <2>10. {other \in pg[t] : ~M!SameKey(other, written, key)} \cup {written}
          = {IF other = old THEN written ELSE other : other \in pg[t]}
    BY <2>8, <2>5
  <2>11. m.db = new
    BY <1>m, <2>2, <2>9, <2>10 DEF M!Put
  <2> HIDE DEF p, m, new
  <2>12. Both(p, m)
    BY DEF p, m
  <2> QED
    BY <2>1, <2>2, <2>3, <2>4, <2>11, <2>12, CommitOrFail
<1> QED
  BY <1>1, <1>2

\* The only row of a set is the one both stores pick.
LEMMA OneOf ==
  ASSUME NEW S, NEW x \in S, \A y \in S : y = x
  PROVE  M!Single(S) = x /\ P!Single(S) = x
<1>1. S # {} /\ (CHOOSE y \in S : TRUE) \in S
  OBVIOUS
<1> QED
  BY <1>1 DEF M!Single, P!Single

\* upsert by a key that is not the id: the memory repository keeps the id of the row it replaces.
LEMMA KeyedCall ==
  ASSUME StoresInv, NEW t \in DOMAIN Tables, Apart(t), NEW row, IsRow(row, t), row.id < id + 10,
         NEW key \in Tables[t].unique, key \subseteq DOMAIN Columns[t] \ {"id"},
         NEW existing, existing = {old \in mem[t] : SameKey(old, row, key)},
         NEW written, written = [row EXCEPT !.id = IF existing = {} THEN row.id ELSE M!Single(existing).id],
         Both(P!Upsert(pg, t, key, row), M!Done(M!Put(mem, t, key, written)))
  PROVE  StoresInv' /\ Keeps(pg')
<1>m. mem = pg /\ P!Lawful(pg) /\ IsDatabase(pg)
  BY InStep
<1>1. ASSUME NEW old \in mem[t], SameKey(old, row, key)
      PROVE  M!Single(existing) = old /\ existing # {}
  <2>1. ASSUME NEW other \in existing PROVE other = old
    <3>1. other \in pg[t] /\ old \in pg[t] /\ SameKey(other, old, key)
      BY <1>m, <1>1, <2>1 DEF SameKey
    <3> QED
      BY <1>m, <3>1, KeysAreUnique
  <2>2. old \in existing
    BY <1>1
  <2> QED
    BY <2>1, <2>2, OneOf
<1>2. \A old \in mem[t] : SameKey(old, row, key) => written = [row EXCEPT !.id = old.id]
  BY <1>1
<1>3. (\A old \in mem[t] : ~SameKey(old, row, key)) => written = row
  <2>1. row = [row EXCEPT !.id = row.id]
    BY IdIsAColumn DEF IsRow
  <2> QED
    BY <2>1
<1>4. \A c \in key : written[c] = row[c]
  BY DEF IsRow
<1>5. IsRow(written, t)
  <2>1. CASE existing = {}
    BY <2>1, <1>3
  <2>2. CASE existing # {}
    <3>1. PICK old \in mem[t] : SameKey(old, row, key)
      BY <2>2
    <3>2. written = [row EXCEPT !.id = old.id] /\ old.id \in Ids
      BY <1>2, <1>m, <3>1, IdsOfRows DEF IsDatabase
    <3> QED
      BY <3>2, IdIsAColumn DEF IsRow
  <2> QED
    BY <2>1, <2>2
<1>6. key \in Tables[t].unique \cup {{"id"}} /\ key \subseteq DOMAIN Columns[t]
  OBVIOUS
<1>7. Replaces(written, row, t, key)
  BY <1>2, <1>3, <1>4, <1>5 DEF Replaces
<1> QED
  BY <1>6, <1>7, UpsertCall

\* The ids of the next call are ids, and newer than every row's.
LEMMA NewIds ==
  ASSUME StoresInv, ops < MaxOps
  PROVE  /\ \A k \in 0 .. 8 : id + k \in Ids /\ id + k < id + 10
         /\ id \in Ids /\ id \in Nat
  BY SchemaAssumption, StoresAssumption DEF StoresInv, TypeOK, id, Ids

\* So are the ids a call names, which are those of rows.
LEMMA NamedIds ==
  ASSUME StoresInv, NEW t \in DOMAIN Tables, NEW k \in IdsOf(t)
  PROVE  k \in Ids /\ (mem = pg => k < id + 10)
  BY IdsOfRows, StoresAssumption DEF StoresInv, TypeOK, IsDatabase, Older, IdsOf, id

\* There are two words.
LEMMA WordsAre == w0 \in Words /\ w1 \in Words /\ w1 # w0
  BY StoresAssumption DEF w0, w1

-----------------------------------------------------------------------------

\* Sign-in and integrations (SQLUserRepository, SQLOAuthConnectionRepository).
LEMMA IdentityCall ==
  ASSUME StoresInv, Identity
  PROVE  StoresInv' /\ Keeps(pg')
<1>t. "users" \in DOMAIN Tables /\ "oauth_connections" \in DOMAIN Tables
  BY TablesAre DEF TableNames
<1>1. CASE SignsUp
  <2>1. PICK email \in Words, sub \in Words :
          Both(P!users_create(pg, id, email, sub), M!users_create(mem, id, email, sub))
    BY <1>1 DEF SignsUp
  <2> DEFINE row == [id |-> id, email |-> email, google_sub |-> sub]
  <2>2. ops < MaxOps
    BY <2>1 DEF Both
  <2>3. IsRow(row, "users") /\ row.id < id + 10
    BY <2>2, NewIds DEF IsRow, Columns, User
  <2>4. Both(P!Insert(pg, "users", row), M!Done(M!Put(mem, "users", {"id"}, row)))
    BY <2>1 DEF P!users_create, M!users_create
  <2> QED
    BY <1>t, <2>3, <2>4, InsertCall DEF Apart
<1>2. CASE Connects
  <2>1. PICK user \in Owners, provider \in Numbers, data \in Words :
          Both(P!oauth_upsert(pg, id, user, provider, data), M!oauth_upsert(mem, id, user, provider, data))
    BY <1>2 DEF Connects
  <2> DEFINE row == [id |-> id, user |-> user, provider |-> provider, data |-> data, revoked_at |-> None]
             existing == {r \in mem.oauth_connections : r.user = user /\ r.provider = provider}
             written == [id |-> IF existing = {} THEN id ELSE M!Single(existing).id,
                         user |-> user, provider |-> provider, data |-> data, revoked_at |-> None]
  <2>2. ops < MaxOps /\ user \in Ids
    BY <1>t, <2>1, NamedIds DEF Both, Owners
  <2>3. IsRow(row, "oauth_connections") /\ row.id < id + 10
    BY <2>2, NewIds DEF IsRow, Columns, OAuthConnection, Nullable
  <2>4. Both(P!Upsert(pg, "oauth_connections", {"user", "provider"}, row),
             M!Done(M!Put(mem, "oauth_connections", {"user", "provider"}, written)))
    BY <2>1 DEF P!oauth_upsert, M!oauth_upsert
  <2>5. existing = {old \in mem["oauth_connections"] : SameKey(old, row, {"user", "provider"})}
    BY DEF SameKey
  <2>6. written = [row EXCEPT !.id = IF existing = {} THEN row.id ELSE M!Single(existing).id]
    OBVIOUS
  <2>7. /\ {"user", "provider"} \in Tables["oauth_connections"].unique
        /\ {"user", "provider"} \subseteq DOMAIN Columns["oauth_connections"] \ {"id"}
    BY DEF Tables, oauth_connections, Columns, OAuthConnection
  <2> HIDE DEF row, written, existing
  <2> QED
    BY <1>t, <2>3, <2>4, <2>5, <2>6, <2>7, KeyedCall DEF Apart
<1>3. CASE Revokes
  <2>1. PICK user \in Owners, provider \in Numbers :
          Both(P!oauth_mark_revoked(pg, user, provider, w0), M!oauth_mark_revoked(mem, user, provider, w0))
    BY <1>3 DEF Revokes
  <2> DEFINE where == [user |-> user, provider |-> provider]
             values == [revoked_at |-> w0]
             chosen == {r \in mem.oauth_connections : r.user = user /\ r.provider = provider}
  <2>2. Both(P!Update(pg, "oauth_connections", where, values),
             M!Done(M!Copied(mem, "oauth_connections", chosen, values)))
    BY <2>1 DEF P!oauth_mark_revoked, M!oauth_mark_revoked
  <2>3. \A r \in mem["oauth_connections"] : r \in chosen <=> P!Matches(r, where)
    BY DEF P!Matches
  <2>4. Valued(values, "oauth_connections")
    BY WordsAre DEF Valued, Columns, OAuthConnection, Nullable
  <2> HIDE DEF where, values, chosen
  <2> QED
    BY <1>t, <2>2, <2>3, <2>4, UpdateCall DEF Apart
<1> QED
  BY <1>1, <1>2, <1>3 DEF Identity

\* An update of one row, that the other store puts anew.
Overwritten1(written, old, t, where, values, key) ==
    /\ old \in pg[t] /\ written = With(old, values)
    /\ \A other \in pg[t] : P!Matches(other, where) <=> other = old
    /\ \A other \in pg[t] : SameKey(other, written, key) <=> other = old

\* An UPDATE where the memory repository puts back the row it found.
LEMMA UpdatePutCall ==
  ASSUME StoresInv, NEW t \in DOMAIN Tables, Apart(t), NEW where, NEW values, Valued(values, t),
         NEW key, NEW written, NEW old, Overwritten1(written, old, t, where, values, key),
         Both(P!Update(pg, t, where, values), M!Done(M!Put(mem, t, key, written)))
  PROVE  StoresInv' /\ Keeps(pg')
<1> DEFINE p == P!Update(pg, t, where, values)
           m == M!Done(M!Put(mem, t, key, written))
           new == [pg EXCEPT ![t] = P!Changed(pg[t], where, values)]
<1>1. Fine(new) /\ Keeps(new)
  BY OneTable, Updates
<1>2. m.ok = TRUE /\ m.db = M!Put(mem, t, key, written)
  BY DoneIs
<1>3. mem = pg /\ IsDatabase(pg)
  BY InStep
<1>4. IsDatabase(m.db)
  <2>1. IsRow(written, t)
    BY <1>3, WithValues DEF IsDatabase, Overwritten1
  <2> QED
    BY <1>2, <2>1, InStep, PutIsDatabase
<1>5. p = P!Commit(pg, new)
  BY DEF P!Update
<1>6. P!Changed(pg[t], where, values) = {other \in pg[t] : ~M!SameKey(other, written, key)} \cup {written}
  BY DEF P!Changed, P!With, With, Overwritten1, M!SameKey, SameKey
<1>7. m.db = new
  BY <1>2, <1>3, <1>6 DEF M!Put
<1> HIDE DEF p, m, new
<1>8. Both(p, m)
  BY DEF p, m
<1> QED
  BY <1>1, <1>2, <1>4, <1>5, <1>7, <1>8, CommitOrFail

\* The profile's row, made when it is missing and else overwritten in part.
LEMMA ProfileCall ==
  ASSUME StoresInv, NEW user \in Owners, NEW values, Valued(values, "profiles"),
         NEW otherwise \in Words,
         NEW written, IsRow(written, "profiles"), written.id = user,
         \A old \in mem["profiles"] : old.id = user => written = With(old, values),
         (\A old \in mem["profiles"] : old.id # user)
             => written = With([id |-> user, timezone |-> otherwise, data |-> otherwise], values),
         Both(P!profiles_row(pg, user, values, otherwise), M!Done(M!Put(mem, "profiles", {"id"}, written)))
  PROVE  StoresInv' /\ Keeps(pg')
<1> DEFINE row == With([id |-> user, timezone |-> otherwise, data |-> otherwise], values)
<1>t. "profiles" \in DOMAIN Tables /\ "users" \in DOMAIN Tables
  BY TablesAre DEF TableNames
<1>m. mem = pg /\ P!Lawful(pg)
  BY InStep
<1>1. CASE \A old \in mem["profiles"] : old.id # user
  <2>1. P!profiles_row(pg, user, values, otherwise) = P!Insert(pg, "profiles", written)
    BY <1>m, <1>1 DEF P!profiles_row, P!Select, P!Matches, P!With, With
  <2>2. written.id < id + 10
    BY <1>t, <1>m, NamedIds DEF Owners
  <2> QED
    BY <1>t, <2>1, <2>2, InsertCall DEF Apart
<1>2. CASE \E old \in mem["profiles"] : old.id = user
  <2> DEFINE where == [id |-> user]
  <2>1. P!profiles_row(pg, user, values, otherwise) = P!Update(pg, "profiles", where, values)
    BY <1>m, <1>2 DEF P!profiles_row, P!Select, P!Matches
  <2>2. PICK old \in pg["profiles"] : old.id = user
    BY <1>m, <1>2
  <2>3. ASSUME NEW other \in pg["profiles"] PROVE other.id = user <=> other = old
    <3>1. other.id = user => SameKey(other, old, {"id"})
      BY <2>2 DEF SameKey
    <3> QED
      BY <1>t, <1>m, <2>2, <3>1, KeysAreUnique
  <2>4. Overwritten1(written, old, "profiles", where, values, {"id"})
    BY <1>m, <2>2, <2>3 DEF Overwritten1, P!Matches, SameKey
  <2> HIDE DEF where
  <2> QED
    BY <1>t, <2>1, <2>4, UpdatePutCall DEF Apart
<1> QED
  BY <1>1, <1>2

\* Imports, documents and the profile.
LEMMA IntakeCall ==
  ASSUME StoresInv, Intake
  PROVE  StoresInv' /\ Keeps(pg')
<1>t. /\ "users" \in DOMAIN Tables /\ "imports" \in DOMAIN Tables /\ "documents" \in DOMAIN Tables
      /\ "profiles" \in DOMAIN Tables
  BY TablesAre DEF TableNames
<1>1. CASE StartsImport
  <2>1. PICK user \in Owners, data \in Words :
          Both(P!imports_create(pg, id, user, w0, data), M!imports_create(mem, id, user, w0, data))
    BY <1>1 DEF StartsImport
  <2> DEFINE row == [id |-> id, user |-> user, status |-> w0, error |-> None, data |-> data]
  <2>2. ops < MaxOps /\ user \in Ids
    BY <1>t, <2>1, NamedIds DEF Both, Owners
  <2>3. IsRow(row, "imports") /\ row.id < id + 10
    BY <2>2, NewIds, WordsAre DEF IsRow, Columns, Import, Nullable
  <2>4. Both(P!Insert(pg, "imports", row), M!Done(M!Put(mem, "imports", {"id"}, row)))
    BY <2>1 DEF P!imports_create, M!imports_create
  <2> QED
    BY <1>t, <2>3, <2>4, InsertCall DEF Apart
<1>2. CASE SetsImport
  <2>1. PICK import \in IdsOf("imports"), status \in Words, error \in Nullable(Words) :
          Both(P!imports_set_status(pg, import, status, error), M!imports_set_status(mem, import, status, error))
    BY <1>2 DEF SetsImport
  <2> DEFINE where == [id |-> import]
             values == [status |-> status, error |-> error]
             chosen == {r \in mem.imports : r.id = import}
  <2>2. Both(P!Update(pg, "imports", where, values), M!Done(M!Copied(mem, "imports", chosen, values)))
    BY <2>1 DEF P!imports_set_status, M!imports_set_status
  <2>3. \A r \in mem["imports"] : r \in chosen <=> P!Matches(r, where)
    BY DEF P!Matches
  <2>4. Valued(values, "imports")
    BY DEF Valued, Columns, Import
  <2> HIDE DEF where, values, chosen
  <2> QED
    BY <1>t, <2>2, <2>3, <2>4, UpdateCall DEF Apart
<1>3. CASE WritesDocument
  <2>1. PICK import \in IdsOf("imports"), data \in Words :
          Both(P!documents_create(pg, id, import, data), M!documents_create(mem, id, import, data))
    BY <1>3 DEF WritesDocument
  <2> DEFINE row == [id |-> id, import |-> import, data |-> data]
  <2>2. ops < MaxOps /\ import \in Ids
    BY <1>t, <2>1, NamedIds DEF Both
  <2>3. IsRow(row, "documents") /\ row.id < id + 10
    BY <2>2, NewIds DEF IsRow, Columns, Document
  <2>4. Both(P!Insert(pg, "documents", row), M!Done(M!Put(mem, "documents", {"id"}, row)))
    BY <2>1 DEF P!documents_create, M!documents_create
  <2> QED
    BY <1>t, <2>3, <2>4, InsertCall DEF Apart
<1>4. CASE WritesProfile
  <2>1. PICK user \in Owners, timezone \in Words, data \in Words :
          Both(P!profiles_upsert(pg, user, timezone, data), M!profiles_upsert(mem, user, timezone, data))
    BY <1>4 DEF WritesProfile
  <2> DEFINE written == [id |-> user, timezone |-> timezone, data |-> data]
             values == [timezone |-> timezone, data |-> data]
  <2>2. user \in Ids
    BY <1>t, <2>1, NamedIds DEF Owners
  <2>3. IsRow(written, "profiles") /\ Valued(values, "profiles")
    BY <2>2 DEF IsRow, Valued, Columns, Profile
  <2>4. ASSUME NEW old \in mem["profiles"], old.id = user PROVE written = With(old, values)
    <3>1. IsRow(old, "profiles")
      BY <1>t, InStep, <2>1 DEF IsDatabase
    <3> QED
      BY <2>4, <3>1 DEF IsRow, Columns, Profile, With
  <2>5. written = With([id |-> user, timezone |-> timezone, data |-> timezone], values)
    BY DEF With
  <2>6. Both(P!profiles_row(pg, user, values, timezone), M!Done(M!Put(mem, "profiles", {"id"}, written)))
    BY <2>1 DEF P!profiles_upsert, M!profiles_upsert
  <2>7. written.id = user
    OBVIOUS
  <2> HIDE DEF written, values
  <2> QED
    BY <2>3, <2>4, <2>5, <2>6, <2>7, ProfileCall
<1>5. CASE SetsTimezone
  <2>1. PICK user \in Owners, timezone \in Words :
          Both(P!profiles_set_timezone(pg, user, timezone, w0), M!profiles_set_timezone(mem, user, timezone, w0))
    BY <1>5 DEF SetsTimezone
  <2> DEFINE existing == {r \in mem.profiles : r.id = user}
             written == IF existing = {} THEN [id |-> user, timezone |-> timezone, data |-> w0]
                        ELSE [M!Single(existing) EXCEPT !.timezone = timezone]
             values == [timezone |-> timezone]
  <2>m. mem = pg /\ P!Lawful(pg) /\ IsDatabase(pg)
    BY <2>1, InStep
  <2>2. user \in Ids
    BY <1>t, <2>1, NamedIds DEF Owners
  <2>3. Valued(values, "profiles")
    BY DEF Valued, Columns, Profile
  <2>4. ASSUME NEW old \in mem["profiles"], old.id = user
        PROVE  written = With(old, values) /\ IsRow(written, "profiles") /\ written.id = user
    <3>1. IsRow(old, "profiles")
      BY <1>t, <2>m DEF IsDatabase
    <3>2. ASSUME NEW other \in existing PROVE other = old
      <4>1. SameKey(other, old, {"id"})
        BY <2>4 DEF SameKey
      <4> QED
        BY <1>t, <2>m, <4>1, KeysAreUnique
    <3>3. old \in existing
      BY <2>4
    <3>4. M!Single(existing) = old
      BY <3>2, <3>3, OneOf
    <3>5. written = [old EXCEPT !.timezone = timezone]
      BY <3>3, <3>4
    <3> HIDE DEF written, existing
    <3> QED
      BY <2>4, <3>1, <3>5 DEF IsRow, Columns, Profile, With
  <2>5. ASSUME \A old \in mem["profiles"] : old.id # user
        PROVE  /\ written = With([id |-> user, timezone |-> w0, data |-> w0], values)
               /\ IsRow(written, "profiles") /\ written.id = user
    <3>1. written = [id |-> user, timezone |-> timezone, data |-> w0]
      BY <2>5
    <3> HIDE DEF written, existing
    <3> QED
      BY <2>2, <3>1, WordsAre DEF With, IsRow, Columns, Profile
  <2>6. Both(P!profiles_row(pg, user, values, w0), M!Done(M!Put(mem, "profiles", {"id"}, written)))
    BY <2>1 DEF P!profiles_set_timezone, M!profiles_set_timezone
  <2> HIDE DEF written, values, existing
  <2>7. IsRow(written, "profiles") /\ written.id = user
    BY <2>4, <2>5
  <2> QED
    BY <2>3, <2>4, <2>5, <2>6, <2>7, WordsAre, ProfileCall
<1> QED
  BY <1>1, <1>2, <1>3, <1>4, <1>5 DEF Intake

-----------------------------------------------------------------------------
Uncascading(t) == \A u \in DOMAIN Tables : \A ref \in Tables[u].refers : ref.ondelete = "CASCADE" => ref.table # t

\* A row still stands when a table that cascades to none is rewritten.
LEMMA ReferredStays ==
  ASSUME IsDatabase(pg), NEW t \in DOMAIN Tables, Uncascading(t), NEW rows,
         NEW u \in DOMAIN Tables, NEW row, P!Stands(pg, u, row)
  PROVE  P!Stands([pg EXCEPT ![t] = rows], u, row)
  BY SameTables DEF IsDatabase, P!Stands, P!Referred, P!Knows, Uncascading

\* No cascade follows a deletion from a table nothing cascades from.
LEMMA SweptStays ==
  ASSUME IsDatabase(pg), P!Lawful(pg), NEW t \in DOMAIN Tables, Uncascading(t), NEW rows, rows \subseteq pg[t]
  PROVE  P!Swept([pg EXCEPT ![t] = rows]) = [pg EXCEPT ![t] = rows]
<1> DEFINE new == [pg EXCEPT ![t] = rows]
<1>1. new = [u \in DOMAIN Tables |-> new[u]] /\ \A u \in DOMAIN Tables : new[u] \subseteq pg[u]
  BY DEF IsDatabase
<1>2. ASSUME NEW u \in DOMAIN Tables, NEW row \in new[u] PROVE P!Stands(new, u, row)
  <2>1. P!Stands(pg, u, row)
    BY <1>1, <1>2, SameTables DEF P!Lawful, P!Stands
  <2> QED
    BY <2>1, ReferredStays
<1> HIDE DEF new
<1>3. P!Swept(new) = new
  BY <1>1, <1>2, SameTables DEF P!Swept
<1> QED
  BY <1>3 DEF new

\* A DELETE from such a table takes its rows and no other.
LEMMA DeletedAlone ==
  ASSUME IsDatabase(pg), P!Lawful(pg), NEW t \in DOMAIN Tables, Uncascading(t), NEW where
  PROVE  P!Deleted(pg, t, where) = [pg EXCEPT ![t] = {row \in pg[t] : ~P!Matches(row, where)}]
<1> DEFINE rows == {row \in pg[t] : ~P!Matches(row, where)}
<1>1. P!Without(pg, t, where) = [pg EXCEPT ![t] = rows] /\ rows \subseteq pg[t]
  BY DEF P!Without
<1> HIDE DEF rows
<1>2. P!Swept([pg EXCEPT ![t] = rows]) = [pg EXCEPT ![t] = rows]
  BY <1>1, SweptStays
<1> QED
  BY <1>1, <1>2 DEF P!Deleted, rows

\* replace_for_run: DELETE the run's rows and INSERT the drafts.
LEMMA ReplaceCall ==
  ASSUME StoresInv, NEW t \in DOMAIN Tables, Apart(t), Uncascading(t), NEW run, NEW rows,
         \A row \in rows : IsRow(row, t) /\ row.id < id + 10, NEW m,
         m = M!Done([mem EXCEPT ![t] = {row \in @ : row.run # run} \cup rows]),
         Both(P!ReplaceForRun(pg, t, run, rows), m)
  PROVE  StoresInv' /\ Keeps(pg')
<1>m. mem = pg /\ P!Lawful(pg) /\ IsDatabase(pg)
  BY InStep
<1> DEFINE all == {row \in pg[t] : row.run # run} \cup rows
           new == [pg EXCEPT ![t] = all]
           p == P!ReplaceForRun(pg, t, run, rows)
<1>1. \A row \in all : IsRow(row, t) /\ row.id < id + 10
  BY <1>m, IdsOfRows, StoresAssumption DEF StoresInv, TypeOK, IsDatabase, Older, id
<1>2. Fine(new) /\ Keeps(new)
  BY <1>1, OneTable
<1>3. m.ok = TRUE /\ m.db = new
  BY <1>m, DoneIs
<1>4. P!Deleted(pg, t, [run |-> run]) = [pg EXCEPT ![t] = {row \in pg[t] : row.run # run}]
  <2> DEFINE where == [run |-> run]
  <2>1. {row \in pg[t] : ~P!Matches(row, where)} = {row \in pg[t] : row.run # run}
    BY DEF P!Matches
  <2> HIDE DEF where
  <2>2. P!Deleted(pg, t, where) = [pg EXCEPT ![t] = {row \in pg[t] : ~P!Matches(row, where)}]
    BY <1>m, DeletedAlone
  <2>3. P!Deleted(pg, t, where) = [pg EXCEPT ![t] = {row \in pg[t] : row.run # run}]
    BY <2>1, <2>2
  <2> QED
    BY <2>3 DEF where
<1>5. p = P!Commit(pg, new)
  BY <1>m, <1>4 DEF P!ReplaceForRun, IsDatabase
<1> HIDE DEF p, new
<1>6. Both(p, m)
  BY DEF p
<1>7. IsDatabase(m.db)
  BY <1>2, <1>3 DEF Fine
<1> QED
  BY <1>2, <1>3, <1>5, <1>6, <1>7, CommitOrFail

\* Nothing cascades from a report, a verdict or an export.
LEMMA NoneCascade == Uncascading("reports") /\ Uncascading("fit_verdicts") /\ Uncascading("plan_exports")
  BY TablesAre DEF Uncascading, TableNames, Tables, llm_calls, users, direction_runs,
     imports, oauth_connections, profiles, question_answers, quotas, role_models,
     documents, fit_verdicts, reports, direction_hypotheses, plans, reconciliations,
     checkins, milestones, plan_exports, tasks, schedule_slots, Owner, References

\* The drafts of a call: at most two, with the values they were drawn from.
LEMMA DraftsAre ==
  ASSUME NEW column, column # "data", NEW values, NEW drafts \in DraftsOf(column, values), NEW i \in DOMAIN drafts
  PROVE  i \in 1 .. 2 /\ drafts[i][column] \in values /\ drafts[i]["data"] \in Words
  BY WordsAre DEF DraftsOf

\* The Reports of a run (reports.replace_for_run).
LEMMA WritesReportsCall ==
  ASSUME StoresInv, WritesReports
  PROVE  StoresInv' /\ Keeps(pg')
<1>t. {"direction_runs", "reports", "users"} \subseteq DOMAIN Tables
  BY TablesAre DEF TableNames
<1>1. PICK run \in IdsOf("direction_runs"), drafts \in DraftsOf("dimension", Numbers) :
        Both(P!reports_replace_for_run(pg, id, 1, run, drafts), M!reports_replace_for_run(mem, id, 1, run, drafts))
  BY DEF WritesReports
<1> DEFINE rows == {[id |-> id + i, user |-> 1, run |-> run, dimension |-> drafts[i].dimension,
                     data |-> drafts[i].data] : i \in DOMAIN drafts}
           m == M!Done([mem EXCEPT !["reports"] = {row \in @ : row.run # run} \cup rows])
<1>2. Both(P!ReplaceForRun(pg, "reports", run, rows), m)
  BY <1>1 DEF P!reports_replace_for_run, M!reports_replace_for_run
<1>3. ASSUME NEW i \in DOMAIN drafts
      PROVE  /\ id + i \in Ids /\ id + i < id + 10
             /\ drafts[i].dimension \in Numbers /\ drafts[i].data \in Words
  <2>1. i \in 1 .. 2 /\ drafts[i]["dimension"] \in Numbers /\ drafts[i]["data"] \in Words
    BY DraftsAre
  <2>2. ops < MaxOps
    BY <1>1 DEF Both
  <2> QED
    BY <2>1, <2>2, NewIds
<1>4. run \in Ids /\ 1 \in Ids
  BY <1>t, NamedIds, SchemaAssumption, StoresAssumption DEF Ids
<1>5. \A row \in rows : IsRow(row, "reports") /\ row.id < id + 10
  BY <1>3, <1>4 DEF IsRow, Columns, Report
<1> HIDE DEF rows, m
<1>6. m = M!Done([mem EXCEPT !["reports"] = {row \in @ : row.run # run} \cup rows])
  BY DEF m
<1> QED
  BY <1>t, <1>2, <1>5, <1>6, NoneCascade, ReplaceCall DEF Apart

\* The verdicts of a run (verdicts.replace_for_run): PostgreSQL refuses when a
\* hypothesis quotes one that would go (RESTRICT), the memory store does not.
LEMMA WritesVerdictsCall ==
  ASSUME StoresInv, WritesVerdicts
  PROVE  StoresInv' /\ Keeps(pg')
<1>t. {"direction_runs", "fit_verdicts"} \subseteq DOMAIN Tables
  BY TablesAre DEF TableNames
<1>1. PICK run \in IdsOf("direction_runs"), drafts \in DraftsOf("role_model", {3, 11}) :
        Both(P!verdicts_replace_for_run(pg, id, 1, run, drafts), M!verdicts_replace_for_run(mem, id, 1, run, drafts))
  BY DEF WritesVerdicts
<1> DEFINE rows == {[id |-> id + i, user |-> 1, run |-> run, role_model |-> drafts[i].role_model,
                     data |-> drafts[i].data] : i \in DOMAIN drafts}
           m == M!Done([mem EXCEPT !["fit_verdicts"] = {row \in @ : row.run # run} \cup rows])
<1>2. Both(P!ReplaceForRun(pg, "fit_verdicts", run, rows), m)
  BY <1>1 DEF P!verdicts_replace_for_run, M!verdicts_replace_for_run
<1>3. ASSUME NEW i \in DOMAIN drafts
      PROVE  /\ id + i \in Ids /\ id + i < id + 10
             /\ drafts[i].role_model \in Ids /\ drafts[i].data \in Words
  <2>1. i \in 1 .. 2 /\ drafts[i]["role_model"] \in {3, 11} /\ drafts[i]["data"] \in Words
    BY DraftsAre
  <2>2. ops < MaxOps
    BY <1>1 DEF Both
  <2> QED
    BY <2>1, <2>2, NewIds, SchemaAssumption, StoresAssumption DEF Ids
<1>4. run \in Ids /\ 1 \in Ids
  BY <1>t, NamedIds, SchemaAssumption, StoresAssumption DEF Ids
<1>5. \A row \in rows : IsRow(row, "fit_verdicts") /\ row.id < id + 10
  BY <1>3, <1>4 DEF IsRow, Columns, FitVerdict
<1> HIDE DEF rows, m
<1>6. m = M!Done([mem EXCEPT !["fit_verdicts"] = {row \in @ : row.run # run} \cup rows])
  BY DEF m
<1> QED
  BY <1>t, <1>2, <1>5, <1>6, NoneCascade, ReplaceCall DEF Apart

\* The next version is the number of versions.
LEMMA NextVersion ==
  ASSUME NEW n \in Nat, NEW S, S = {k \in Nat : k < n}
  PROVE  /\ (IF S = {} THEN 0 ELSE P!Max(S) + 1) = n
         /\ (IF S # {} THEN M!Max(S) + 1 ELSE 0) = n
<1>1. CASE n = 0
  BY <1>1
<1>2. CASE n > 0
  <2>1. n - 1 \in S /\ \A k \in S : n - 1 >= k
    BY <1>2
  <2>2. \A x \in S : (\A k \in S : x >= k) => x = n - 1
    BY <2>1
  <2>3. P!Max(S) = n - 1 /\ M!Max(S) = n - 1
    BY <2>1, <2>2 DEF P!Max, M!Max
  <2> QED
    BY <2>1, <2>3
<1> QED
  BY <1>1, <1>2

\* hypotheses.append: the next version in both stores, and the versions stay
\* without a gap.
LEMMA CommitsCall ==
  ASSUME StoresInv, Commits
  PROVE  StoresInv' /\ Keeps(pg')
<1>t. {"fit_verdicts", "direction_hypotheses"} \subseteq DOMAIN Tables
  BY TablesAre DEF TableNames
<1>1. PICK verdict \in mem.fit_verdicts, data \in Words :
        Both(P!hypotheses_append(pg, id, 1, verdict.role_model, verdict.id, data),
             M!hypotheses_append(mem, id, 1, verdict.role_model, verdict.id, data))
  BY DEF Commits
<1>m. mem = pg /\ P!Lawful(pg) /\ IsDatabase(pg) /\ ops < MaxOps /\ ops \in Nat
  BY <1>1, InStep, StoresAssumption DEF Both, StoresInv, TypeOK
<1>2. 1 \in Ids /\ verdict.role_model \in Ids /\ verdict.id \in Ids
  <2>1. IsRow(verdict, "fit_verdicts")
    BY <1>t, <1>1, <1>m DEF IsDatabase
  <2>2. verdict.role_model \in Ids /\ verdict.id \in Ids
    BY <2>1 DEF IsRow, Columns, FitVerdict
  <2> QED
    BY <2>2, SchemaAssumption, StoresAssumption DEF Ids
<1>3. PICK n \in 0 .. ops + 1 : VersionsOf(pg, 1) = {k \in 0 .. ops : k < n}
  BY <1>2 DEF StoresInv, Numbered
<1> DEFINE row == [id |-> id, user |-> 1, version |-> n, role_model |-> verdict.role_model,
                   fit_verdict |-> verdict.id, data |-> data]
           new == [pg EXCEPT !.direction_hypotheses = pg.direction_hypotheses \cup {row}]
           p == P!hypotheses_append(pg, id, 1, verdict.role_model, verdict.id, data)
           m == M!hypotheses_append(mem, id, 1, verdict.role_model, verdict.id, data)
           S == VersionsOf(pg, 1)
<1>4. S = {k \in Nat : k < n} /\ n \in Nat
  BY <1>3, <1>m
<1>5. /\ {r.version : r \in P!Select(pg, "direction_hypotheses", [user |-> 1])} = S
      /\ {r.version : r \in {old \in mem.direction_hypotheses : old.user = 1}} = S
  BY <1>m DEF P!Select, P!Matches, VersionsOf
<1>6. /\ (IF S = {} THEN 0 ELSE P!Max(S) + 1) = n
      /\ (IF S # {} THEN M!Max(S) + 1 ELSE 0) = n
  <2> HIDE DEF S
  <2> QED
    BY <1>4, NextVersion
<1>7. p = P!Insert(pg, "direction_hypotheses", row)
  BY <1>5, <1>6 DEF P!hypotheses_append
<1>8. m = M!Done(new)
  BY <1>m, <1>5, <1>6 DEF M!hypotheses_append
<1>9. IsRow(row, "direction_hypotheses") /\ row.id < id + 10
  BY <1>2, <1>4, <1>m, NewIds DEF IsRow, Columns, DirectionHypothesis
<1>10. /\ new = [u \in DOMAIN Tables |-> new[u]]
       /\ new["direction_hypotheses"] = pg["direction_hypotheses"] \cup {row}
       /\ \A u \in DOMAIN Tables \ {"direction_hypotheses"} : new[u] = pg[u]
  BY <1>m, <1>t DEF IsDatabase
<1> HIDE DEF row, new, p, m, S
<1>11. Fine(new) /\ Keeps(new)
  <2>1. IsDatabase(new) /\ \A u \in DOMAIN Tables : \A r \in new[u] : r.id < id + 10
    BY <1>9, <1>10, <1>m, IdsOfRows, StoresAssumption DEF IsDatabase, StoresInv, Older, id
  <2>2. new["milestones"] = pg["milestones"] /\ new["tasks"] = pg["tasks"]
        /\ new["schedule_slots"] = pg["schedule_slots"]
    BY <1>10, TablesAre DEF TableNames
  <2>3. TreesHold(new)
    BY <2>2 DEF StoresInv, TreesHold
  <2>4. ASSUME NEW user \in Ids
        PROVE  \E k \in 0 .. ops + 2 : VersionsOf(new, user) = {j \in 0 .. ops + 1 : j < k}
    <3>1. CASE user = 1
      <4>1. VersionsOf(new, 1) = S \cup {n}
        <5>1. row.user = 1 /\ row.version = n
          BY DEF row
        <5>2. {h \in new.direction_hypotheses : h.user = 1} = {h \in pg.direction_hypotheses : h.user = 1} \cup {row}
          BY <1>10, <5>1
        <5> QED
          BY <5>1, <5>2 DEF VersionsOf, S
      <4>2. S \cup {n} = {j \in 0 .. ops + 1 : j < n + 1} /\ n + 1 \in 0 .. ops + 2
        BY <1>3, <1>4, <1>m
      <4> QED
        BY <3>1, <4>1, <4>2
    <3>2. CASE user # 1
      <4>1. VersionsOf(new, user) = VersionsOf(pg, user)
        BY <3>2, <1>10 DEF VersionsOf, row
      <4>2. PICK k \in 0 .. ops + 1 : VersionsOf(pg, user) = {j \in 0 .. ops : j < k}
        BY DEF StoresInv, Numbered
      <4>3. {j \in 0 .. ops : j < k} = {j \in 0 .. ops + 1 : j < k} /\ k \in 0 .. ops + 2
        BY <1>m
      <4> QED
        BY <4>1, <4>2, <4>3
    <3> QED
      BY <3>1, <3>2
  <2> QED
    BY <1>10, <2>1, <2>3, <2>4 DEF Fine, Keeps
<1>12. p = P!Failed(pg) \/ p = P!Commit(pg, new)
  BY <1>7 DEF P!Insert, new
<1>13. m.ok = TRUE /\ m.db = new /\ IsDatabase(m.db)
  BY <1>8, <1>11, DoneIs DEF Fine
<1>14. Both(p, m)
  BY <1>1 DEF p, m
<1> QED
  BY <1>11, <1>12, <1>13, <1>14, CommitOrFail

\* The run of Station 1 (runs.create, set_status, set_period, set_readouts).
LEMMA RunCall ==
  ASSUME StoresInv, StartsRun \/ SetsRun \/ SetsPeriod \/ SetsReadouts
  PROVE  StoresInv' /\ Keeps(pg')
<1>t. {"users", "direction_runs"} \subseteq DOMAIN Tables
  BY TablesAre DEF TableNames
<1>o. 1 \in Ids /\ 1 \in Nat
  BY SchemaAssumption, StoresAssumption DEF Ids
<1>1. CASE StartsRun
  <2>1. PICK user \in Owners :
          Both(P!runs_create(pg, id, user, w0, w0), M!runs_create(mem, id, user, w0, w0))
    BY <1>1 DEF StartsRun
  <2> DEFINE row == [id |-> id, user |-> user, status |-> w0, error |-> None, period |-> None, readouts |-> w0]
  <2>2. ops < MaxOps /\ user \in Ids
    BY <1>t, <2>1, NamedIds DEF Both, Owners
  <2>3. IsRow(row, "direction_runs") /\ row.id < id + 10
    BY <1>o, <2>2, NewIds, WordsAre DEF IsRow, Columns, DirectionRun, Nullable
  <2>4. Both(P!Insert(pg, "direction_runs", row), M!Done(M!Put(mem, "direction_runs", {"id"}, row)))
    BY <2>1 DEF P!runs_create, M!runs_create
  <2> HIDE DEF row
  <2> QED
    BY <1>t, <2>3, <2>4, InsertCall DEF Apart
<1>2. CASE SetsRun
  <2>1. PICK run \in IdsOf("direction_runs"), status \in Words, error \in Nullable(Words) :
          Both(P!runs_set_status(pg, run, status, error), M!runs_set_status(mem, run, status, error))
    BY <1>2 DEF SetsRun
  <2> DEFINE where == [id |-> run]
             values == [status |-> status, error |-> error]
             chosen == {r \in mem.direction_runs : r.id = run}
  <2>2. Both(P!Update(pg, "direction_runs", where, values), M!Done(M!Copied(mem, "direction_runs", chosen, values)))
    BY <2>1 DEF P!runs_set_status, M!runs_set_status, M!runs_update
  <2>3. \A r \in mem["direction_runs"] : r \in chosen <=> P!Matches(r, where)
    BY DEF P!Matches
  <2>4. Valued(values, "direction_runs")
    BY WordsAre DEF Valued, Columns, DirectionRun, Nullable
  <2> HIDE DEF where, values, chosen
  <2> QED
    BY <1>t, <2>2, <2>3, <2>4, UpdateCall DEF Apart
<1>3. CASE SetsPeriod
  <2>1. PICK run \in IdsOf("direction_runs"), period \in Words :
          Both(P!runs_set_period(pg, run, period), M!runs_set_period(mem, run, period))
    BY <1>3 DEF SetsPeriod
  <2> DEFINE where == [id |-> run]
             values == [period |-> period]
             chosen == {r \in mem.direction_runs : r.id = run}
  <2>2. Both(P!Update(pg, "direction_runs", where, values), M!Done(M!Copied(mem, "direction_runs", chosen, values)))
    BY <2>1 DEF P!runs_set_period, M!runs_set_period, M!runs_update
  <2>3. \A r \in mem["direction_runs"] : r \in chosen <=> P!Matches(r, where)
    BY DEF P!Matches
  <2>4. Valued(values, "direction_runs")
    BY WordsAre DEF Valued, Columns, DirectionRun, Nullable
  <2> HIDE DEF where, values, chosen
  <2> QED
    BY <1>t, <2>2, <2>3, <2>4, UpdateCall DEF Apart
<1>4. CASE SetsReadouts
  <2>1. PICK run \in IdsOf("direction_runs"), readouts \in Words :
          Both(P!runs_set_readouts(pg, run, readouts), M!runs_set_readouts(mem, run, readouts))
    BY <1>4 DEF SetsReadouts
  <2> DEFINE where == [id |-> run]
             values == [readouts |-> readouts]
             chosen == {r \in mem.direction_runs : r.id = run}
  <2>2. Both(P!Update(pg, "direction_runs", where, values), M!Done(M!Copied(mem, "direction_runs", chosen, values)))
    BY <2>1 DEF P!runs_set_readouts, M!runs_set_readouts, M!runs_update
  <2>3. \A r \in mem["direction_runs"] : r \in chosen <=> P!Matches(r, where)
    BY DEF P!Matches
  <2>4. Valued(values, "direction_runs")
    BY WordsAre DEF Valued, Columns, DirectionRun, Nullable
  <2> HIDE DEF where, values, chosen
  <2> QED
    BY <1>t, <2>2, <2>3, <2>4, UpdateCall DEF Apart
<1> QED
  BY <1>1, <1>2, <1>3, <1>4

\* The columns of a shape of the catalogue.
LEMMA ShapeColumns ==
  /\ DOMAIN Columns["role_models"] = {"id", "code", "tags", "author", "author_user", "active", "version"}
  /\ Columns["role_models"]["id"] = Ids /\ Columns["role_models"]["code"] = Numbers
  /\ Columns["role_models"]["tags"] = SUBSET Words /\ Columns["role_models"]["author"] = Words
  /\ Columns["role_models"]["author_user"] = Nullable(Ids)
  /\ Columns["role_models"]["active"] = BOOLEAN /\ Columns["role_models"]["version"] = Nat
  BY DEF Columns, RoleModel

\* role_models.deactivate.
LEMMA DeactivateCall ==
  ASSUME StoresInv, DeactivateRoleModel
  PROVE  StoresInv' /\ Keeps(pg')
<1>t. {"role_models"} \subseteq DOMAIN Tables
  BY TablesAre DEF TableNames
<1>o. 1 \in Ids /\ 1 \in Nat
  BY SchemaAssumption, StoresAssumption DEF Ids
<1>1. CASE DeactivateRoleModel
  <2>1. PICK shape \in IdsOf("role_models") :
          Both(P!role_models_deactivate(pg, shape), M!role_models_deactivate(mem, shape))
    BY <1>1 DEF DeactivateRoleModel
  <2> DEFINE where == [id |-> shape]
             values == [active |-> FALSE]
             chosen == {r \in mem.role_models : r.id = shape}
  <2>2. Both(P!Update(pg, "role_models", where, values), M!Done(M!Copied(mem, "role_models", chosen, values)))
    BY <2>1 DEF P!role_models_deactivate, M!role_models_deactivate
  <2>3. \A r \in mem["role_models"] : r \in chosen <=> P!Matches(r, where)
    BY DEF P!Matches
  <2>4. Valued(values, "role_models")
    <3>1. DOMAIN values = {"active"} /\ values["active"] = FALSE
      OBVIOUS
    <3> HIDE DEF values
    <3> QED
      BY <3>1, ShapeColumns DEF Valued
  <2> HIDE DEF where, values, chosen
  <2> QED
    BY <1>t, <2>2, <2>3, <2>4, UpdateCall DEF Apart
<1> QED
  BY <1>1

\* The answers to the questions, and the quota.
LEMMA AnswerCall ==
  ASSUME StoresInv, Answers \/ SetsQuota
  PROVE  StoresInv' /\ Keeps(pg')
<1>t. {"question_answers", "quotas"} \subseteq DOMAIN Tables
  BY TablesAre DEF TableNames
<1>o. 1 \in Ids /\ 1 \in Nat
  BY SchemaAssumption, StoresAssumption DEF Ids
<1>1. CASE Answers
  <2>1. PICK key \in Numbers, data \in Words :
          Both(P!answers_upsert(pg, id, 1, key, data), M!answers_upsert(mem, id, 1, key, data))
    BY <1>1 DEF Answers
  <2> DEFINE row == [id |-> id, user |-> 1, key |-> key, data |-> data]
             existing == {r \in mem.question_answers : r.user = 1 /\ r.key = key}
             written == [id |-> IF existing = {} THEN id ELSE M!Single(existing).id,
                         user |-> 1, key |-> key, data |-> data]
  <2>2. ops < MaxOps /\ 1 \in Ids
    BY <1>t, <1>o, <2>1, NamedIds DEF Both, Owners
  <2>3. IsRow(row, "question_answers") /\ row.id < id + 10
    BY <2>2, NewIds, WordsAre DEF IsRow, Columns, QuestionAnswer, Nullable
  <2>4. Both(P!Upsert(pg, "question_answers", {"user", "key"}, row),
             M!Done(M!Put(mem, "question_answers", {"user", "key"}, written)))
    BY <2>1 DEF P!answers_upsert, M!answers_upsert
  <2>5. existing = {old \in mem["question_answers"] : SameKey(old, row, {"user", "key"})}
    BY DEF SameKey
  <2>6. written = [row EXCEPT !.id = IF existing = {} THEN row.id ELSE M!Single(existing).id]
    OBVIOUS
  <2>7. /\ {"user", "key"} \in Tables["question_answers"].unique
        /\ {"user", "key"} \subseteq DOMAIN Columns["question_answers"] \ {"id"}
    BY DEF Tables, question_answers, Columns, QuestionAnswer
  <2> HIDE DEF row, written, existing
  <2> QED
    BY <1>t, <2>3, <2>4, <2>5, <2>6, <2>7, KeyedCall DEF Apart
<1>2. CASE SetsQuota
  <2>1. PICK data \in Words : Both(P!quotas_upsert(pg, 1, data), M!quotas_upsert(mem, 1, data))
    BY <1>2 DEF SetsQuota
  <2> DEFINE row == [id |-> 1, data |-> data]
  <2>2. IsRow(row, "quotas") /\ row.id < id + 10
    BY <1>o, StoresAssumption DEF IsRow, Columns, Quota, id, StoresInv, TypeOK
  <2>3. \A old \in mem["quotas"] : SameKey(old, row, {"id"}) => row = [row EXCEPT !.id = old.id]
    BY DEF SameKey
  <2>4. Replaces(row, row, "quotas", {"id"})
    BY <2>2, <2>3 DEF Replaces
  <2>5. Both(P!Upsert(pg, "quotas", {"id"}, row), M!Done(M!Put(mem, "quotas", {"id"}, row)))
    BY <2>1 DEF P!quotas_upsert, M!quotas_upsert
  <2>6. {"id"} \subseteq DOMAIN Columns["quotas"]
    BY DEF Columns, Quota
  <2> HIDE DEF row
  <2> QED
    BY <1>t, <2>2, <2>4, <2>5, <2>6, UpsertCall DEF Apart
<1> QED
  BY <1>1, <1>2

\* Every call about the direction.
LEMMA DirectionCall ==
  ASSUME StoresInv, Direction
  PROVE  StoresInv' /\ Keeps(pg')
  BY RunCall, WritesReportsCall, WritesVerdictsCall, DeactivateCall, CommitsCall, AnswerCall DEF Direction

\* The review's row (reconciliations) and the log of the model's calls.
LEMMA ReviewCall ==
  ASSUME StoresInv, Review
  PROVE  StoresInv' /\ Keeps(pg')
<1>t. {"reconciliations", "direction_hypotheses", "llm_calls"} \subseteq DOMAIN Tables
  BY TablesAre DEF TableNames
<1>o. 1 \in Ids /\ 1 \in Nat
  BY SchemaAssumption, StoresAssumption DEF Ids
<1>1. CASE StartsReview
  <2>1. PICK hypothesis \in IdsOf("direction_hypotheses") :
          Both(P!reviews_create(pg, id, 1, hypothesis, w0, w0), M!reviews_create(mem, id, 1, hypothesis, w0, w0))
    BY <1>1 DEF StartsReview
  <2> DEFINE row == [id |-> id, user |-> 1, hypothesis |-> hypothesis, status |-> w0, data |-> w0,
                     outcome |-> None, revision_kind |-> None, error |-> None]
  <2>2. ops < MaxOps /\ hypothesis \in Ids
    BY <1>t, <2>1, NamedIds DEF Both, Owners
  <2>3. IsRow(row, "reconciliations") /\ row.id < id + 10
    BY <1>o, <2>2, NewIds, WordsAre DEF IsRow, Columns, Reconciliation, Nullable
  <2>4. Both(P!Insert(pg, "reconciliations", row), M!Done(M!Put(mem, "reconciliations", {"id"}, row)))
    BY <2>1 DEF P!reviews_create, M!reviews_create
  <2> HIDE DEF row
  <2> QED
    BY <1>t, <2>3, <2>4, InsertCall DEF Apart
<1>2. CASE CompletesReview
  <2>1. PICK review \in IdsOf("reconciliations"), data \in Words, kind \in Nullable(Words) :
          Both(P!reviews_complete(pg, review, w1, data, kind), M!reviews_complete(mem, review, w1, data, kind))
    BY <1>2 DEF CompletesReview
  <2> DEFINE where == [id |-> review]
             values == [status |-> w1, data |-> data, revision_kind |-> kind, error |-> None]
             chosen == {r \in mem.reconciliations : r.id = review}
  <2>2. Both(P!Update(pg, "reconciliations", where, values), M!Done(M!Copied(mem, "reconciliations", chosen, values)))
    BY <2>1 DEF P!reviews_complete, M!reviews_complete, M!reviews_update
  <2>3. \A r \in mem["reconciliations"] : r \in chosen <=> P!Matches(r, where)
    BY DEF P!Matches
  <2>4. Valued(values, "reconciliations")
    BY WordsAre DEF Valued, Columns, Reconciliation, Nullable
  <2> HIDE DEF where, values, chosen
  <2> QED
    BY <1>t, <2>2, <2>3, <2>4, UpdateCall DEF Apart
<1>3. CASE DecidesReview
  <2>1. PICK review \in IdsOf("reconciliations"), outcome \in Words :
          Both(P!reviews_decide(pg, review, outcome), M!reviews_decide(mem, review, outcome))
    BY <1>3 DEF DecidesReview
  <2> DEFINE where == [id |-> review]
             values == [outcome |-> outcome]
             chosen == {r \in mem.reconciliations : r.id = review}
  <2>2. Both(P!Update(pg, "reconciliations", where, values), M!Done(M!Copied(mem, "reconciliations", chosen, values)))
    BY <2>1 DEF P!reviews_decide, M!reviews_decide, M!reviews_update
  <2>3. \A r \in mem["reconciliations"] : r \in chosen <=> P!Matches(r, where)
    BY DEF P!Matches
  <2>4. Valued(values, "reconciliations")
    BY WordsAre DEF Valued, Columns, Reconciliation, Nullable
  <2> HIDE DEF where, values, chosen
  <2> QED
    BY <1>t, <2>2, <2>3, <2>4, UpdateCall DEF Apart
<1>4. CASE FailsReview
  <2>1. PICK review \in IdsOf("reconciliations"), error \in Words :
          Both(P!reviews_fail(pg, review, w0, error), M!reviews_fail(mem, review, w0, error))
    BY <1>4 DEF FailsReview
  <2> DEFINE where == [id |-> review]
             values == [status |-> w0, error |-> error]
             chosen == {r \in mem.reconciliations : r.id = review}
  <2>2. Both(P!Update(pg, "reconciliations", where, values), M!Done(M!Copied(mem, "reconciliations", chosen, values)))
    BY <2>1 DEF P!reviews_fail, M!reviews_fail, M!reviews_update
  <2>3. \A r \in mem["reconciliations"] : r \in chosen <=> P!Matches(r, where)
    BY DEF P!Matches
  <2>4. Valued(values, "reconciliations")
    BY WordsAre DEF Valued, Columns, Reconciliation, Nullable
  <2> HIDE DEF where, values, chosen
  <2> QED
    BY <1>t, <2>2, <2>3, <2>4, UpdateCall DEF Apart
<1>5. CASE RecordsCall
  <2>1. PICK data \in Words : Both(P!llm_calls_record(pg, id, data), M!llm_calls_record(mem, id, data))
    BY <1>5 DEF RecordsCall
  <2> DEFINE row == [id |-> id, data |-> data]
             new == [pg EXCEPT !["llm_calls"] = pg["llm_calls"] \cup {row}]
             p == P!llm_calls_record(pg, id, data)
             m == M!llm_calls_record(mem, id, data)
  <2>m. mem = pg /\ ops < MaxOps
    BY <2>1, InStep DEF Both
  <2>2. IsRow(row, "llm_calls") /\ row.id < id + 10
    BY <2>m, NewIds DEF IsRow, Columns, LlmCallLog
  <2> HIDE DEF row
  <2>3. Fine(new) /\ Keeps(new)
    BY <1>t, <2>2, OneTable, Inserts DEF Apart
  <2>4. p = P!Failed(pg) \/ p = P!Commit(pg, new)
    BY DEF P!llm_calls_record, P!Insert, row
  <2>5. m = M!Done(new)
    BY <2>m DEF M!llm_calls_record, row
  <2> HIDE DEF p, m, new
  <2>6. m.ok = TRUE /\ m.db = new /\ IsDatabase(m.db)
    BY <2>3, <2>5, DoneIs DEF Fine
  <2>7. Both(p, m)
    BY <2>1 DEF p, m
  <2> QED
    BY <2>3, <2>4, <2>6, <2>7, CommitOrFail
<1> QED
  BY <1>1, <1>2, <1>3, <1>4, <1>5 DEF Review

\* A template: what the row of its code becomes, or a new row.
LEMMA TemplateCall ==
  ASSUME StoresInv, NEW code \in Numbers, NEW tags \in SUBSET Words, NEW author \in Words,
         NEW author_user \in Nullable(Ids), Writes(Shape(code, tags, author, author_user))
  PROVE  StoresInv' /\ Keeps(pg')
<1>t. "role_models" \in DOMAIN Tables
  BY TablesAre DEF TableNames
<1> DEFINE template == Shape(code, tags, author, author_user)
           existing == {r \in mem.role_models : r.code = template.code}
           written == [id |-> IF existing = {} THEN id ELSE M!Single(existing).id,
                       code |-> template.code, tags |-> template.tags, author |-> template.author,
                       author_user |-> template.author_user, active |-> TRUE,
                       version |-> IF existing = {} THEN 1 ELSE M!Single(existing).version + 1]
<1>s. /\ template.code = code /\ template.tags = tags /\ template.author = author
      /\ template.author_user = author_user
  BY DEF Shape
<1>1. Both(P!role_models_upsert(pg, id, template), M!Done(M!Put(mem, "role_models", {"id"}, written)))
  BY DEF Writes, M!role_models_upsert
<1>m. mem = pg /\ P!Lawful(pg) /\ IsDatabase(pg) /\ ops < MaxOps
  BY <1>1, InStep DEF Both
<1> HIDE DEF template
<1>f. P!Select(pg, "role_models", [code |-> template.code]) = existing
  BY <1>m DEF P!Select, P!Matches
<1>2. CASE existing = {}
  <2>1. written = [id |-> id, code |-> code, tags |-> tags, author |-> author,
                   author_user |-> author_user, active |-> TRUE, version |-> 1]
    BY <1>s, <1>2
  <2>2. P!role_models_upsert(pg, id, template) = P!Insert(pg, "role_models", written)
    BY <1>s, <1>2, <1>f, <2>1 DEF P!role_models_upsert
  <2> HIDE DEF written, existing
  <2>3. IsRow(written, "role_models") /\ written.id < id + 10
    <3>1. id \in Ids /\ id < id + 10
      BY <1>m, NewIds
    <3>2. written = [c \in DOMAIN Columns["role_models"] |-> written[c]]
      BY <2>1, ShapeColumns
    <3>3. /\ written["id"] \in Ids /\ written["code"] \in Numbers /\ written["tags"] \in SUBSET Words
          /\ written["author"] \in Words /\ written["author_user"] \in Nullable(Ids)
          /\ written["version"] \in Nat
      BY <2>1, <3>1
    <3>4. written["active"] = TRUE
      BY <2>1
    <3>5. \A c \in DOMAIN Columns["role_models"] : written[c] \in Columns["role_models"][c]
      BY <3>3, <3>4, ShapeColumns
    <3> QED
      BY <2>1, <3>1, <3>2, <3>5 DEF IsRow
  <2> QED
    BY <1>t, <1>1, <2>2, <2>3, InsertCall DEF Apart
<1>3. CASE existing # {}
  <2>1. PICK old \in pg["role_models"] : old.code = code
    BY <1>s, <1>m, <1>3
  <2>2. ASSUME NEW other \in pg["role_models"], other.code = code PROVE other = old
    <3>1. SameKey(other, old, {"code"}) /\ {"code"} \in Tables["role_models"].unique
      BY <2>1, <2>2 DEF SameKey, Tables, role_models
    <3> QED
      BY <1>t, <1>m, <3>1, KeysAreUnique
  <2>3. M!Single(existing) = old /\ P!Single(existing) = old
    <3>1. old \in existing /\ \A other \in existing : other = old
      BY <1>s, <1>m, <2>1, <2>2
    <3> HIDE DEF existing
    <3> QED
      BY <3>1, OneOf
  <2> DEFINE where == [code |-> code]
             values == [tags |-> tags, author |-> author, author_user |-> author_user,
                        active |-> TRUE, version |-> old.version + 1]
  <2>4. P!role_models_upsert(pg, id, template) = P!Update(pg, "role_models", where, values)
    BY <1>s, <1>3, <1>f, <2>3 DEF P!role_models_upsert
  <2>5. IsRow(old, "role_models")
    BY <1>t, <1>m DEF IsDatabase
  <2>6. Valued(values, "role_models")
    <3>1. old.version + 1 \in Nat
      BY <2>5, ShapeColumns DEF IsRow
    <3>2. /\ DOMAIN values = {"tags", "author", "author_user", "active", "version"}
          /\ values["tags"] \in SUBSET Words /\ values["author"] \in Words
          /\ values["author_user"] \in Nullable(Ids) /\ values["version"] \in Nat
      BY <3>1
    <3>3. values["active"] = TRUE
      OBVIOUS
    <3> HIDE DEF values
    <3> QED
      BY <3>2, <3>3, ShapeColumns DEF Valued
  <2>7. written = [id |-> old.id, code |-> code, tags |-> tags, author |-> author,
                   author_user |-> author_user, active |-> TRUE, version |-> old.version + 1]
    BY <1>s, <1>3, <2>3
  <2> HIDE DEF written, existing
  <2>8. written = With(old, values)
    <3>1. /\ DOMAIN old = {"id", "code", "tags", "author", "author_user", "active", "version"}
          /\ old.code = code
      BY <2>1, <2>5, ShapeColumns DEF IsRow
    <3>2. /\ DOMAIN With(old, values) = DOMAIN old
          /\ With(old, values)["id"] = old.id /\ With(old, values)["code"] = code
          /\ With(old, values)["tags"] = tags /\ With(old, values)["author"] = author
          /\ With(old, values)["author_user"] = author_user /\ With(old, values)["active"] = TRUE
          /\ With(old, values)["version"] = old.version + 1
      BY <3>1 DEF With
    <3>3. With(old, values) = [c \in DOMAIN old |-> With(old, values)[c]]
      BY DEF With
    <3> QED
      BY <2>7, <3>1, <3>2, <3>3
  <2>9. ASSUME NEW other \in pg["role_models"] PROVE other.id = old.id <=> other = old
    <3>1. other.id = old.id => SameKey(other, old, {"id"})
      BY DEF SameKey
    <3> QED
      BY <1>t, <1>m, <3>1, KeysAreUnique
  <2>10. Overwritten1(written, old, "role_models", where, values, {"id"})
    <3>1. \A other \in pg["role_models"] : P!Matches(other, where) <=> other = old
      BY <2>1, <2>2 DEF P!Matches
    <3>2. written.id = old.id
      BY <2>7
    <3> HIDE DEF where, values
    <3>3. \A other \in pg["role_models"] : SameKey(other, written, {"id"}) <=> other = old
      BY <2>9, <3>2 DEF SameKey
    <3> QED
      BY <2>1, <2>8, <3>1, <3>3 DEF Overwritten1
  <2> HIDE DEF where, values
  <2> QED
    BY <1>t, <1>1, <2>4, <2>6, <2>10, UpdatePutCall DEF Apart
<1> QED
  BY <1>2, <1>3


\* Every call about the catalogue.
LEMMA CatalogCall ==
  ASSUME StoresInv, Catalog
  PROVE  StoresInv' /\ Keeps(pg')
<1>1. "users" \in DOMAIN Tables
  BY TablesAre DEF TableNames
<1>2. System \in Words /\ {} \in SUBSET Words /\ None \in Nullable(Ids)
  BY StoresAssumption DEF Nullable
<1>3. CASE UpsertRoleModel
  BY <1>2, <1>3, TemplateCall DEF UpsertRoleModel
<1>4. CASE SeedCatalog
  BY <1>2, <1>4, TemplateCall DEF SeedCatalog
<1>5. CASE AuthorRoleModel
  <2>1. PICK user \in Owners, code \in Numbers, tags \in SUBSET Words : Writes(Shape(code, tags, w1, user))
    BY <1>5 DEF AuthorRoleModel
  <2>2. user \in Nullable(Ids)
    BY <1>1, NamedIds DEF Owners, Nullable
  <2> QED
    BY <2>1, <2>2, WordsAre, TemplateCall
<1> QED
  BY <1>3, <1>4, <1>5, DeactivateCall DEF Catalog

-----------------------------------------------------------------------------
(* The tree of a plan: rows that stay where they are in it. *)

Rewritten(t, rows) ==
    /\ \A row \in rows : IsRow(row, t) /\ row.id < id + 10
    /\ t = "tasks" => \A row \in rows : \E old \in pg["tasks"] :
                        row.id = old.id /\ row.milestone = old.milestone /\ row.plan = old.plan
    /\ t = "schedule_slots" => \A old \in pg["schedule_slots"] : \E row \in rows : row.task = old.task

\* Rewriting tasks or slots without moving them keeps the tree together.
LEMMA TreeTable ==
  ASSUME StoresInv, NEW t \in {"tasks", "schedule_slots"}, NEW rows, Rewritten(t, rows)
  PROVE  Fine([pg EXCEPT ![t] = rows]) /\ Keeps([pg EXCEPT ![t] = rows])
<1> DEFINE new == [pg EXCEPT ![t] = rows]
<1>t. {"tasks", "schedule_slots", "milestones", "direction_hypotheses"} \subseteq DOMAIN Tables
  BY TablesAre DEF TableNames
<1>1. /\ pg = [u \in DOMAIN Tables |-> pg[u]]
      /\ \A u \in DOMAIN Tables : \A row \in pg[u] : IsRow(row, u) /\ row.id < id + 10
  BY IdsOfRows, StoresAssumption DEF StoresInv, TypeOK, IsDatabase, Older, id
<1>2. /\ new = [u \in DOMAIN Tables |-> new[u]]
      /\ new[t] = rows /\ \A u \in DOMAIN Tables \ {t} : new[u] = pg[u]
  BY <1>1, <1>t
<1>3. new["milestones"] = pg["milestones"] /\ new["direction_hypotheses"] = pg["direction_hypotheses"]
  BY <1>2, <1>t
<1>4. TreesHold(new)
  <2>1. CASE t = "tasks"
    <3>1. new["tasks"] = rows /\ new["schedule_slots"] = pg["schedule_slots"]
      BY <1>2, <1>t, <2>1
    <3> QED
      BY <1>3, <2>1, <3>1 DEF StoresInv, TreesHold, Rewritten
  <2>2. CASE t = "schedule_slots"
    <3>1. new["schedule_slots"] = rows /\ new["tasks"] = pg["tasks"]
      BY <1>2, <1>t, <2>2
    <3>2. \A goal \in new.milestones : Hangs(goal, new.milestones)
      BY <1>3 DEF StoresInv, TreesHold
    <3>3. \A task \in new.tasks : \E goal \in new.milestones : goal.id = task.milestone /\ goal.plan = task.plan
      BY <1>3, <3>1 DEF StoresInv, TreesHold
    <3>4. ASSUME NEW task \in new.tasks PROVE \E slot \in new.schedule_slots : slot.task = task.id
      <4>1. PICK old \in pg["schedule_slots"] : old.task = task.id
        BY <3>1 DEF StoresInv, TreesHold
      <4>2. PICK row \in rows : row.task = old.task
        BY <2>2 DEF Rewritten
      <4> QED
        BY <3>1, <4>1, <4>2
    <3> QED
      BY <3>2, <3>3, <3>4 DEF TreesHold
  <2> QED
    BY <2>1, <2>2
<1>5. IsDatabase(new) /\ \A u \in DOMAIN Tables : \A row \in new[u] : row.id < id + 10
  BY <1>1, <1>2 DEF IsDatabase, Rewritten
<1> HIDE DEF new
<1>6. \A user \in Ids : \E n \in 0 .. ops + 2 : VersionsOf(new, user) = {k \in 0 .. ops + 1 : k < n}
  BY <1>3, StillNumbered
<1> QED
  BY <1>3, <1>4, <1>5, <1>6 DEF Fine, Keeps, new

\* An update of neither end of a link of the tree.
Marks(values, t) == Valued(values, t) /\ DOMAIN values \cap {"plan", "milestone", "task"} = {}

\* An UPDATE of tasks or slots that moves none.
LEMMA TreeUpdateCall ==
  ASSUME StoresInv, NEW t \in {"tasks", "schedule_slots"}, NEW where, NEW values, Marks(values, t),
         NEW chosen, \A row \in mem[t] : row \in chosen <=> P!Matches(row, where),
         Both(P!Update(pg, t, where, values), M!Done(M!Copied(mem, t, chosen, values)))
  PROVE  StoresInv' /\ Keeps(pg')
<1> DEFINE p == P!Update(pg, t, where, values)
           m == M!Done(M!Copied(mem, t, chosen, values))
           rows == P!Changed(pg[t], where, values)
           new == [pg EXCEPT ![t] = rows]
<1>t. t \in DOMAIN Tables /\ t \in DOMAIN Columns
  BY TablesAre DEF TableNames
<1>0. ASSUME NEW old \in pg[t]
      PROVE  LET row == IF P!Matches(old, where) THEN P!With(old, values) ELSE old
             IN  /\ row.id = old.id
                 /\ t = "tasks" => row.milestone = old.milestone /\ row.plan = old.plan
                 /\ t = "schedule_slots" => row.task = old.task
  <2>1. IsRow(old, t)
    BY <1>t DEF StoresInv, TypeOK, IsDatabase
  <2>2. /\ "id" \in DOMAIN old
        /\ t = "tasks" => {"milestone", "plan"} \subseteq DOMAIN old
        /\ t = "schedule_slots" => "task" \in DOMAIN old
    BY <2>1, <1>t DEF IsRow, Columns, Task, ScheduleSlot
  <2>3. "id" \notin DOMAIN values /\ DOMAIN values \cap {"plan", "milestone", "task"} = {}
    BY DEF Marks, Valued
  <2> QED
    BY <2>2, <2>3 DEF P!With
<1>1. Rewritten(t, rows)
  <2>1. \A row \in rows : IsRow(row, t) /\ row.id < id + 10
    BY <1>t, Updates DEF Marks
  <2>2. ASSUME t = "tasks", NEW row \in rows
        PROVE  \E old \in pg["tasks"] :
                    row.id = old.id /\ row.milestone = old.milestone /\ row.plan = old.plan
    BY <1>0, <2>2 DEF P!Changed
  <2>3. ASSUME t = "schedule_slots", NEW old \in pg["schedule_slots"]
        PROVE  \E row \in rows : row.task = old.task
    BY <1>0, <2>3 DEF P!Changed
  <2> QED
    BY <2>1, <2>2, <2>3 DEF Rewritten
<1>2. m.ok = TRUE /\ m.db = M!Copied(mem, t, chosen, values)
  BY DoneIs
<1>3. mem = pg /\ IsDatabase(m.db)
  BY <1>t, <1>2, InStep, CopiedIsDatabase DEF Marks
<1>4. p = P!Commit(pg, new)
  BY DEF P!Update
<1>5. {IF row \in chosen THEN M!With(row, values) ELSE row : row \in pg[t]} = rows
  BY <1>3 DEF P!Changed, P!With, M!With
<1>6. m.db = new
  BY <1>2, <1>3, <1>5 DEF M!Copied
<1> HIDE DEF p, m, rows
<1>7. Both(p, m)
  BY DEF p, m
<1>8. Fine(new) /\ Keeps(new)
  BY <1>1, TreeTable
<1> HIDE DEF new
<1> QED
  BY <1>2, <1>3, <1>4, <1>6, <1>7, <1>8, CommitOrFail

\* tree.set_task_status, mark_dirty and mark_synced.
LEMMA TaskCall ==
  ASSUME StoresInv, SetsTask \/ MarksDirty \/ MarksSynced
  PROVE  StoresInv' /\ Keeps(pg')
<1>t. {"tasks", "schedule_slots"} \subseteq DOMAIN Tables
  BY TablesAre DEF TableNames
<1>o. 1 \in Ids /\ 1 \in Nat
  BY SchemaAssumption, StoresAssumption DEF Ids
<1>1. CASE SetsTask
  <2>1. PICK task \in IdsOf("tasks"), status \in Words, at \in Nullable(Numbers) :
          Both(P!tree_set_task_status(pg, task, status, at), M!tree_set_task_status(mem, task, status, at))
    BY <1>1 DEF SetsTask
  <2> DEFINE where == [id |-> task]
             values == [status |-> status, completed_at |-> at]
             chosen == {r \in mem.tasks : r.id = task}
  <2>2. Both(P!Update(pg, "tasks", where, values), M!Done(M!Copied(mem, "tasks", chosen, values)))
    <3>1. mem = pg
      BY <2>1, InStep
    <3>2. P!Knows(pg, "tasks", task) /\ ~\A row \in mem.tasks : row.id # task
      BY <2>1, <3>1 DEF P!Knows, IdsOf
    <3> QED
      BY <2>1, <3>2 DEF P!tree_set_task_status, M!tree_set_task_status
  <2>3. \A r \in mem["tasks"] : r \in chosen <=> P!Matches(r, where)
    BY DEF P!Matches
  <2>4. Marks(values, "tasks")
    BY WordsAre DEF Marks, Valued, Columns, Task, Nullable
  <2> HIDE DEF where, values, chosen
  <2> QED
    BY <1>t, <2>2, <2>3, <2>4, TreeUpdateCall
<1>2. CASE MarksDirty
  <2>1. PICK task \in IdsOf("tasks") :
          Both(P!tree_mark_dirty(pg, task), M!tree_mark_dirty(mem, task))
    BY <1>2 DEF MarksDirty
  <2> DEFINE where == [task |-> task]
             values == [synced_at |-> None]
             chosen == {r \in mem.schedule_slots : r.task = task}
  <2>2. Both(P!Update(pg, "schedule_slots", where, values), M!Done(M!Copied(mem, "schedule_slots", chosen, values)))
    BY <2>1 DEF P!tree_mark_dirty, M!tree_mark_dirty
  <2>3. \A r \in mem["schedule_slots"] : r \in chosen <=> P!Matches(r, where)
    BY DEF P!Matches
  <2>4. Marks(values, "schedule_slots")
    BY WordsAre DEF Marks, Valued, Columns, ScheduleSlot, Nullable
  <2> HIDE DEF where, values, chosen
  <2> QED
    BY <1>t, <2>2, <2>3, <2>4, TreeUpdateCall
<1>3. CASE MarksSynced
  <2>1. PICK task \in IdsOf("tasks"), at \in Numbers :
          Both(P!tree_mark_synced(pg, task, w0, at), M!tree_mark_synced(mem, task, w0, at))
    BY <1>3 DEF MarksSynced
  <2> DEFINE where == [task |-> task]
             values == [external_ref |-> w0, synced_at |-> at]
             chosen == {r \in mem.schedule_slots : r.task = task}
  <2>2. Both(P!Update(pg, "schedule_slots", where, values), M!Done(M!Copied(mem, "schedule_slots", chosen, values)))
    BY <2>1 DEF P!tree_mark_synced, M!tree_mark_synced
  <2>3. \A r \in mem["schedule_slots"] : r \in chosen <=> P!Matches(r, where)
    BY DEF P!Matches
  <2>4. Marks(values, "schedule_slots")
    BY WordsAre DEF Marks, Valued, Columns, ScheduleSlot, Nullable
  <2> HIDE DEF where, values, chosen
  <2> QED
    BY <1>t, <2>2, <2>3, <2>4, TreeUpdateCall
<1> QED
  BY <1>1, <1>2, <1>3

\* tree.bulk_set_status: a tick after the other in PostgreSQL, one pass in
\* memory; the last tick of a task is the one that stays, and an unknown task is
\* passed over.
LEMMA TicksCall ==
  ASSUME StoresInv, TicksTasks
  PROVE  StoresInv' /\ Keeps(pg')
<1>t. {"tasks", "plans"} \subseteq DOMAIN Tables
  BY TablesAre DEF TableNames
<1>o. 1 \in Ids /\ 1 \in Nat
  BY SchemaAssumption, StoresAssumption DEF Ids
<1>1. PICK plan \in IdsOf("plans"), task \in IdsOf("tasks"), status \in Words, at \in Numbers :
        LET results == <<[task |-> task, status |-> w1, completed_at |-> 0],
                         [task |-> task, status |-> status, completed_at |-> at],
                         [task |-> 0, status |-> w1, completed_at |-> 0]>>
        IN Both(P!tree_bulk_set_status(pg, plan, results), M!tree_bulk_set_status(mem, plan, results))
  BY DEF TicksTasks
<1> DEFINE results == <<[task |-> task, status |-> w1, completed_at |-> 0],
                        [task |-> task, status |-> status, completed_at |-> at],
                        [task |-> 0, status |-> w1, completed_at |-> 0]>>
           naming(row) == {n \in DOMAIN results : results[n].task = row.id /\ row.plan = plan}
           last(row) == results[CHOOSE n \in naming(row) : \A k \in naming(row) : k <= n]
           values(row) == [status |-> last(row).status, completed_at |-> last(row).completed_at]
           tick(row) == IF naming(row) = {} THEN row ELSE P!With(row, values(row))
           rows == {tick(row) : row \in pg["tasks"]}
           new == [pg EXCEPT !["tasks"] = rows]
           p == P!tree_bulk_set_status(pg, plan, results)
           m == M!tree_bulk_set_status(mem, plan, results)
<1>m. mem = pg /\ IsDatabase(pg)
  BY <1>1, InStep
<1>2. p = P!Commit(pg, new)
  BY DEF P!tree_bulk_set_status
<1>r. /\ DOMAIN results = 1 .. 3
      /\ \A n \in 1 .. 3 : results[n].status \in Words /\ results[n].completed_at \in Numbers
  BY WordsAre, SchemaAssumption
<1> HIDE DEF results
<1>3. m = M!Done(new)
  <2> DEFINE named(row) == {n \in DOMAIN results : results[n].task = row.id}
             lastly(row) == results[CHOOSE n \in named(row) : \A k \in named(row) : k <= n]
             ticked(row) == M!With(row, [status |-> lastly(row).status, completed_at |-> lastly(row).completed_at])
             chosen(row) == IF row.plan = plan /\ named(row) # {} THEN ticked(row) ELSE row
  <2>1. m = M!Done([mem EXCEPT !.tasks = {chosen(row) : row \in @}])
    BY DEF M!tree_bulk_set_status
  <2>2. ASSUME NEW row PROVE chosen(row) = tick(row)
    <3>1. CASE row.plan = plan
      <4>1. named(row) = naming(row)
        BY <3>1
      <4>2. lastly(row) = last(row)
        BY <4>1
      <4>3. ticked(row) = P!With(row, values(row))
        BY <4>2 DEF M!With, P!With
      <4> QED
        BY <3>1, <4>1, <4>3
    <3>2. CASE row.plan # plan
      BY <3>2
    <3> QED
      BY <3>1, <3>2
  <2>3. {chosen(row) : row \in pg["tasks"]} = rows
    <3> HIDE DEF chosen, tick
    <3> QED
      BY <2>2
  <2> QED
    BY <1>m, <2>1, <2>3
<1>4. ASSUME NEW row \in pg["tasks"]
      PROVE  /\ IsRow(tick(row), "tasks") /\ tick(row).id < id + 10 /\ tick(row).id = row.id
             /\ tick(row).milestone = row.milestone /\ tick(row).plan = row.plan
  <2>1. IsRow(row, "tasks") /\ row.id < id + 10
    BY <1>t, <1>m, IdsOfRows, StoresAssumption DEF IsDatabase, StoresInv, TypeOK, Older, id
  <2>2. CASE naming(row) = {}
    BY <2>1, <2>2
  <2>3. CASE naming(row) # {}
    <3>1. naming(row) \subseteq 1 .. 3
      BY <1>r
    <3> DEFINE S == naming(row)
    <3> HIDE DEF naming
    <3>2. \E n \in S : \A k \in S : k <= n
      <4>1. CASE 3 \in S
        BY <3>1, <4>1
      <4>2. CASE 3 \notin S /\ 2 \in S
        BY <3>1, <4>2
      <4>3. CASE 3 \notin S /\ 2 \notin S
        <5>1. S = {1}
          BY <2>3, <3>1, <4>3
        <5> QED
          BY <5>1
      <4> QED
        BY <4>1, <4>2, <4>3
    <3>3. (CHOOSE n \in S : \A k \in S : k <= n) \in 1 .. 3
      BY <3>1, <3>2
    <3>4. last(row).status \in Words /\ last(row).completed_at \in Numbers
      BY <1>r, <3>3
    <3> HIDE DEF last
    <3>5. Valued(values(row), "tasks")
      BY <3>4 DEF Valued, Columns, Task, Nullable
    <3>6. DOMAIN values(row) = {"status", "completed_at"}
      OBVIOUS
    <3> HIDE DEF values
    <3>7. /\ IsRow(With(row, values(row)), "tasks")
          /\ \A c \in DOMAIN Columns["tasks"] \ DOMAIN values(row) : With(row, values(row))[c] = row[c]
      BY <1>t, <2>1, <3>5, WithValues
    <3>8. {"id", "milestone", "plan"} \subseteq DOMAIN Columns["tasks"]
      BY DEF Columns, Task
    <3>9. tick(row) = With(row, values(row))
      BY <2>3 DEF P!With, With
    <3>10. /\ tick(row)["id"] = row["id"] /\ tick(row)["milestone"] = row["milestone"]
           /\ tick(row)["plan"] = row["plan"]
      BY <3>6, <3>7, <3>8, <3>9
    <3> QED
      BY <2>1, <3>7, <3>9, <3>10
  <2> QED
    BY <2>2, <2>3
<1> HIDE DEF tick
<1>5. Rewritten("tasks", rows)
  BY <1>4 DEF Rewritten
<1> HIDE DEF rows
<1>6. Fine(new) /\ Keeps(new)
  BY <1>5, TreeTable
<1>7. Both(p, m)
  BY <1>1 DEF results
<1> HIDE DEF p, m, new
<1>8. m.ok = TRUE /\ m.db = new /\ IsDatabase(m.db)
  BY <1>3, <1>6, DoneIs DEF Fine
<1> QED
  BY <1>2, <1>6, <1>7, <1>8, CommitOrFail

\* The plan, its check-ins and its exports.
LEMMA PlanCall ==
  ASSUME StoresInv, StartsPlan \/ UpdatesPlan \/ ChecksIn \/ SetsExport \/ DropsExport
  PROVE  StoresInv' /\ Keeps(pg')
<1>t. {"plans", "checkins", "plan_exports", "direction_hypotheses"} \subseteq DOMAIN Tables
  BY TablesAre DEF TableNames
<1>o. 1 \in Ids /\ 1 \in Nat
  BY SchemaAssumption, StoresAssumption DEF Ids
<1>1. CASE StartsPlan
  <2>1. PICK hypothesis \in IdsOf("direction_hypotheses") :
          Both(P!plans_create(pg, id, 1, hypothesis, w0, w0), M!plans_create(mem, id, 1, hypothesis, w0, w0))
    BY <1>1 DEF StartsPlan
  <2> DEFINE row == [id |-> id, user |-> 1, hypothesis |-> hypothesis, status |-> w0, data |-> w0]
  <2>2. ops < MaxOps /\ hypothesis \in Ids
    BY <1>t, <2>1, NamedIds DEF Both, Owners
  <2>3. IsRow(row, "plans") /\ row.id < id + 10
    BY <1>o, <2>2, NewIds, WordsAre DEF IsRow, Columns, Plan, Nullable
  <2>4. Both(P!Insert(pg, "plans", row), M!Done(M!Put(mem, "plans", {"id"}, row)))
    BY <2>1 DEF P!plans_create, M!plans_create
  <2> HIDE DEF row
  <2> QED
    BY <1>t, <2>3, <2>4, InsertCall DEF Apart
<1>2. CASE UpdatesPlan
  <2>1. PICK plan \in IdsOf("plans"), status \in Words :
          Both(P!plans_update_fields(pg, plan, [status |-> status]), M!plans_update_fields(mem, plan, [status |-> status]))
    BY <1>2 DEF UpdatesPlan
  <2> DEFINE where == [id |-> plan]
             values == [status |-> status]
             chosen == {r \in mem.plans : r.id = plan}
  <2>2. Both(P!Update(pg, "plans", where, values), M!Done(M!Copied(mem, "plans", chosen, values)))
    <3>1. mem = pg
      BY <2>1, InStep
    <3>2. P!Knows(pg, "plans", plan) /\ ~\A row \in mem.plans : row.id # plan
      BY <2>1, <3>1 DEF P!Knows, IdsOf
    <3> QED
      BY <2>1, <3>2 DEF P!plans_update_fields, M!plans_update_fields
  <2>3. \A r \in mem["plans"] : r \in chosen <=> P!Matches(r, where)
    BY DEF P!Matches
  <2>4. Valued(values, "plans")
    BY WordsAre DEF Valued, Columns, Plan, Nullable
  <2> HIDE DEF where, values, chosen
  <2> QED
    BY <1>t, <2>2, <2>3, <2>4, UpdateCall DEF Apart
<1>3. CASE ChecksIn
  <2>1. PICK plan \in IdsOf("plans"), date \in Numbers, data \in Words :
          Both(P!checkins_upsert(pg, id, plan, date, data), M!checkins_upsert(mem, id, plan, date, data))
    BY <1>3 DEF ChecksIn
  <2> DEFINE row == [id |-> id, plan |-> plan, date |-> date, data |-> data]
             existing == {r \in mem.checkins : r.plan = plan /\ r.date = date}
             written == [id |-> IF existing = {} THEN id ELSE M!Single(existing).id,
                         plan |-> plan, date |-> date, data |-> data]
  <2>2. ops < MaxOps /\ plan \in Ids
    BY <1>t, <1>o, <2>1, NamedIds DEF Both, Owners
  <2>3. IsRow(row, "checkins") /\ row.id < id + 10
    BY <2>2, NewIds, WordsAre DEF IsRow, Columns, Checkin, Nullable
  <2>4. Both(P!Upsert(pg, "checkins", {"plan", "date"}, row),
             M!Done(M!Put(mem, "checkins", {"plan", "date"}, written)))
    BY <2>1 DEF P!checkins_upsert, M!checkins_upsert
  <2>5. existing = {old \in mem["checkins"] : SameKey(old, row, {"plan", "date"})}
    BY DEF SameKey
  <2>6. written = [row EXCEPT !.id = IF existing = {} THEN row.id ELSE M!Single(existing).id]
    OBVIOUS
  <2>7. /\ {"plan", "date"} \in Tables["checkins"].unique
        /\ {"plan", "date"} \subseteq DOMAIN Columns["checkins"] \ {"id"}
    BY DEF Tables, checkins, Columns, Checkin
  <2> HIDE DEF row, written, existing
  <2> QED
    BY <1>t, <2>3, <2>4, <2>5, <2>6, <2>7, KeyedCall DEF Apart
<1>4. CASE SetsExport
  <2>1. PICK plan \in IdsOf("plans"), target \in Numbers, calendar \in Nullable(Words) :
          Both(P!exports_upsert(pg, id, plan, target, w0, calendar), M!exports_upsert(mem, id, plan, target, w0, calendar))
    BY <1>4 DEF SetsExport
  <2> DEFINE row == [id |-> id, plan |-> plan, target |-> target, status |-> w0, calendar |-> calendar]
             existing == {r \in mem.plan_exports : r.plan = plan /\ r.target = target}
             written == [id |-> IF existing = {} THEN id ELSE M!Single(existing).id,
                         plan |-> plan, target |-> target, status |-> w0, calendar |-> calendar]
  <2>2. ops < MaxOps /\ plan \in Ids
    BY <1>t, <1>o, <2>1, NamedIds DEF Both, Owners
  <2>3. IsRow(row, "plan_exports") /\ row.id < id + 10
    BY <2>2, NewIds, WordsAre DEF IsRow, Columns, PlanExport, Nullable
  <2>4. Both(P!Upsert(pg, "plan_exports", {"plan", "target"}, row),
             M!Done(M!Put(mem, "plan_exports", {"plan", "target"}, written)))
    BY <2>1 DEF P!exports_upsert, M!exports_upsert
  <2>5. existing = {old \in mem["plan_exports"] : SameKey(old, row, {"plan", "target"})}
    BY DEF SameKey
  <2>6. written = [row EXCEPT !.id = IF existing = {} THEN row.id ELSE M!Single(existing).id]
    OBVIOUS
  <2>7. /\ {"plan", "target"} \in Tables["plan_exports"].unique
        /\ {"plan", "target"} \subseteq DOMAIN Columns["plan_exports"] \ {"id"}
    BY DEF Tables, plan_exports, Columns, PlanExport
  <2> HIDE DEF row, written, existing
  <2> QED
    BY <1>t, <2>3, <2>4, <2>5, <2>6, <2>7, KeyedCall DEF Apart
<1>5. CASE DropsExport
  <2>1. PICK plan \in IdsOf("plans"), target \in Numbers :
          Both(P!exports_delete(pg, plan, target), M!exports_delete(mem, plan, target))
    BY <1>5 DEF DropsExport
  <2> DEFINE where == [plan |-> plan, target |-> target]
             rows == {row \in pg["plan_exports"] : ~P!Matches(row, where)}
             new == [pg EXCEPT !["plan_exports"] = rows]
             p == P!exports_delete(pg, plan, target)
             m == M!exports_delete(mem, plan, target)
  <2>m. mem = pg /\ P!Lawful(pg) /\ IsDatabase(pg)
    BY <2>1, InStep
  <2>2. m = M!Done(new)
    <3>1. rows = {row \in pg["plan_exports"] : ~(row.plan = plan /\ row.target = target)}
      BY DEF P!Matches
    <3> QED
      BY <2>m, <3>1 DEF M!exports_delete
  <2>3. p = P!Commit(pg, P!Deleted(pg, "plan_exports", where))
    BY DEF P!exports_delete
  <2>4. Both(p, m)
    BY <2>1
  <2> HIDE DEF p, m, where
  <2>5. P!Deleted(pg, "plan_exports", where) = new
    BY <1>t, <2>m, NoneCascade, DeletedAlone
  <2>6. \A row \in rows : IsRow(row, "plan_exports") /\ row.id < id + 10
    BY <1>t, <2>m, IdsOfRows, StoresAssumption DEF IsDatabase, StoresInv, TypeOK, Older, id
  <2> HIDE DEF rows
  <2>7. Fine(new) /\ Keeps(new)
    BY <1>t, <2>6, OneTable DEF Apart
  <2> HIDE DEF new
  <2>8. m.ok = TRUE /\ m.db = new /\ IsDatabase(m.db)
    BY <2>2, <2>7, DoneIs DEF Fine
  <2> QED
    BY <2>3, <2>4, <2>5, <2>7, <2>8, CommitOrFail
<1> QED
  BY <1>1, <1>2, <1>3, <1>4, <1>5

\* The database with another tree.
TreeIs(goals, jobs, slots) ==
    [u \in DOMAIN Tables |->
        IF u = "milestones" THEN goals ELSE IF u = "tasks" THEN jobs
        ELSE IF u = "schedule_slots" THEN slots ELSE pg[u]]

\* What refers to a tree: the tree.
LEMMA TreeRefs ==
  /\ \A u \in DOMAIN Tables \ {"milestones", "tasks", "schedule_slots"} :
        \A ref \in Tables[u].refers : ref.table \notin {"milestones", "tasks", "schedule_slots"}
  /\ Tables["milestones"].refers =
        {References("plan", "plans", "CASCADE"), References("parent", "milestones", "CASCADE")}
  /\ Tables["tasks"].refers =
        {References("plan", "plans", "CASCADE"), References("milestone", "milestones", "CASCADE")}
  /\ Tables["schedule_slots"].refers =
        {References("plan", "plans", "CASCADE"), References("task", "tasks", "CASCADE")}
<1>1. ASSUME NEW u \in TableNames \ {"milestones", "tasks", "schedule_slots"}, NEW ref \in Tables[u].refers
      PROVE  ref.table \notin {"milestones", "tasks", "schedule_slots"}
  BY <1>1 DEF TableNames, Tables, llm_calls, users, direction_runs,
     imports, oauth_connections, profiles, question_answers, quotas, role_models,
     documents, fit_verdicts, reports, direction_hypotheses, plans, reconciliations,
     checkins, plan_exports, Owner, References
<1> QED
  BY <1>1, TablesAre DEF Tables, milestones, tasks, schedule_slots

\* What a sweep takes along of a part of the tree.
LEMMA SweptTree ==
  ASSUME IsDatabase(pg), P!Lawful(pg), NEW goals, goals \subseteq pg["milestones"],
         NEW jobs, jobs \subseteq pg["tasks"], NEW slots, slots \subseteq pg["schedule_slots"]
  PROVE  P!Swept(TreeIs(goals, jobs, slots)) =
            TreeIs({row \in goals : row.parent = None \/ \E above \in goals : above.id = row.parent},
                   {row \in jobs : \E goal \in goals : goal.id = row.milestone},
                   {row \in slots : \E task \in jobs : task.id = row.task})
<1> DEFINE db == TreeIs(goals, jobs, slots)
           ours == {"milestones", "tasks", "schedule_slots"}
<1>t. {"milestones", "tasks", "schedule_slots", "plans"} \subseteq DOMAIN Tables
  BY TablesAre DEF TableNames
<1>1. /\ db["milestones"] = goals /\ db["tasks"] = jobs /\ db["schedule_slots"] = slots
      /\ db["plans"] = pg["plans"]
      /\ \A u \in DOMAIN Tables \ ours : db[u] = pg[u]
      /\ DOMAIN db = DOMAIN Tables
  BY <1>t DEF TreeIs
<1> HIDE DEF db
<1>s. \A u \in DOMAIN Tables : \A row \in pg[u] : \A ref \in Tables[u].refers : P!Referred(pg, row, ref)
  BY SameTables DEF P!Lawful
<1>2. ASSUME NEW u \in DOMAIN Tables \ ours, NEW row \in pg[u]
      PROVE  P!Stands(db, u, row)
  <2>1. ASSUME NEW ref \in Tables[u].refers, ref.ondelete = "CASCADE", ref.table \in DOMAIN Tables
        PROVE P!Referred(db, row, ref)
    BY <1>s, <1>1, <2>1, TreeRefs DEF P!Referred, P!Knows
  <2>2. \A ref \in Tables[u].refers : ref.table \in DOMAIN Tables
    BY TablesAre DEF TableNames, Tables, llm_calls, users, direction_runs,
     imports, oauth_connections, profiles, question_answers, quotas, role_models,
     documents, fit_verdicts, reports, direction_hypotheses, plans, reconciliations,
     checkins, plan_exports, Owner, References
  <2> QED
    BY <2>1, <2>2, SameTables DEF P!Stands
<1>3. ASSUME NEW row \in pg["milestones"]
      PROVE  P!Stands(db, "milestones", row) <=>
                (row.parent = None \/ \E above \in goals : above.id = row.parent)
  <2>1. P!Referred(pg, row, References("plan", "plans", "CASCADE"))
    BY <1>s, <1>t, TreeRefs
  <2>2. P!Referred(db, row, References("plan", "plans", "CASCADE"))
    BY <1>1, <2>1 DEF P!Referred, P!Knows, References
  <2>3. P!Referred(db, row, References("parent", "milestones", "CASCADE"))
            <=> (row.parent = None \/ \E above \in goals : above.id = row.parent)
    BY <1>1 DEF P!Referred, P!Knows, References
  <2> QED
    BY <2>2, <2>3, SameTables, TreeRefs DEF P!Stands, References
<1>4. ASSUME NEW row \in pg["tasks"]
      PROVE  P!Stands(db, "tasks", row) <=> \E goal \in goals : goal.id = row.milestone
  <2>0. row.milestone # None
    <3>1. IsRow(row, "tasks")
      BY <1>t DEF IsDatabase
    <3>2. row.milestone \in Ids
      BY <3>1 DEF IsRow, Columns, Task
    <3> QED
      BY <3>2, SchemaAssumption DEF Ids
  <2>1. P!Referred(pg, row, References("plan", "plans", "CASCADE"))
    BY <1>s, <1>t, TreeRefs
  <2>2. P!Referred(db, row, References("plan", "plans", "CASCADE"))
    BY <1>1, <2>1 DEF P!Referred, P!Knows, References
  <2>3. P!Referred(db, row, References("milestone", "milestones", "CASCADE"))
            <=> \E goal \in goals : goal.id = row.milestone
    BY <1>1, <2>0 DEF P!Referred, P!Knows, References
  <2> QED
    BY <2>2, <2>3, SameTables, TreeRefs DEF P!Stands, References
<1>5. ASSUME NEW row \in pg["schedule_slots"]
      PROVE  P!Stands(db, "schedule_slots", row) <=> \E task \in jobs : task.id = row.task
  <2>0. row.task # None
    <3>1. IsRow(row, "schedule_slots")
      BY <1>t DEF IsDatabase
    <3>2. row.task \in Ids
      BY <3>1 DEF IsRow, Columns, ScheduleSlot
    <3> QED
      BY <3>2, SchemaAssumption DEF Ids
  <2>1. P!Referred(pg, row, References("plan", "plans", "CASCADE"))
    BY <1>s, <1>t, TreeRefs
  <2>2. P!Referred(db, row, References("plan", "plans", "CASCADE"))
    BY <1>1, <2>1 DEF P!Referred, P!Knows, References
  <2>3. P!Referred(db, row, References("task", "tasks", "CASCADE"))
            <=> \E task \in jobs : task.id = row.task
    BY <1>1, <2>0 DEF P!Referred, P!Knows, References
  <2> QED
    BY <2>2, <2>3, SameTables, TreeRefs DEF P!Stands, References
<1> DEFINE g2 == {row \in goals : row.parent = None \/ \E above \in goals : above.id = row.parent}
           t2 == {row \in jobs : \E goal \in goals : goal.id = row.milestone}
           s2 == {row \in slots : \E task \in jobs : task.id = row.task}
<1>6. \A u \in DOMAIN Tables \ ours : {row \in db[u] : P!Stands(db, u, row)} = pg[u]
  BY <1>1, <1>2
<1>7. {row \in db["milestones"] : P!Stands(db, "milestones", row)} = g2
  BY <1>1, <1>3
<1>8. {row \in db["tasks"] : P!Stands(db, "tasks", row)} = t2
  BY <1>1, <1>4
<1>9. {row \in db["schedule_slots"] : P!Stands(db, "schedule_slots", row)} = s2
  BY <1>1, <1>5
<1> HIDE DEF g2, t2, s2
<1>10. P!Swept(db) = TreeIs(g2, t2, s2)
  BY <1>6, <1>7, <1>8, <1>9, SameTables DEF P!Swept, TreeIs
<1> QED
  BY <1>10 DEF db, g2, t2, s2

\* All of the plan's tree goes, and nothing else does.
GoalsBut(plan) == {row \in pg["milestones"] : row.plan # plan}
TasksBut(plan) == {row \in pg["tasks"] : row.plan # plan}
SlotsBut(plan) ==
    {row \in pg["schedule_slots"] : row.task \notin {gone.id : gone \in {task \in pg["tasks"] : task.plan = plan}}}

\* The two DELETEs of tree.replace, goals and tasks of the plan, cascade to
\* exactly what the memory store drops: since no tree reaches into another.
LEMMA TreeCleared ==
  ASSUME IsDatabase(pg), P!Lawful(pg), TreesHold(pg), NEW plan
  PROVE  P!Deleted(P!Deleted(pg, "milestones", [plan |-> plan]), "tasks", [plan |-> plan])
            = TreeIs(GoalsBut(plan), TasksBut(plan), SlotsBut(plan))
<1> DEFINE G == GoalsBut(plan)
           T == TasksBut(plan)
           S == SlotsBut(plan)
<1>t. {"milestones", "tasks", "schedule_slots"} \subseteq DOMAIN Tables
  BY TablesAre DEF TableNames
<1>i. /\ \A a, b \in pg["milestones"] : a.id = b.id => a = b
      /\ \A a, b \in pg["tasks"] : a.id = b.id => a = b
  <2>1. ASSUME NEW t \in {"milestones", "tasks"}, NEW a \in pg[t], NEW b \in pg[t], a.id = b.id
        PROVE  a = b
    <3>1. t \in DOMAIN Tables /\ SameKey(a, b, {"id"})
      BY <1>t, <2>1 DEF SameKey
    <3> QED
      BY <3>1, KeysAreUnique
  <2> QED
    BY <2>1
<1>s. \A slot \in pg["schedule_slots"] : \E task \in pg["tasks"] : task.id = slot.task
  <2>1. ASSUME NEW slot \in pg["schedule_slots"]
        PROVE  \E task \in pg["tasks"] : task.id = slot.task
    <3>1. P!Referred(pg, slot, References("task", "tasks", "CASCADE"))
      BY <1>t, SameTables, TreeRefs DEF P!Lawful
    <3>2. slot.task # None
      <4>1. IsRow(slot, "schedule_slots")
        BY <1>t DEF IsDatabase
      <4> QED
        BY <4>1, SchemaAssumption DEF IsRow, Columns, ScheduleSlot, Ids
    <3> QED
      BY <3>1, <3>2 DEF P!Referred, P!Knows, References
  <2> QED
    BY <2>1
<1>0. G \subseteq pg["milestones"] /\ T \subseteq pg["tasks"] /\ S \subseteq pg["schedule_slots"]
  BY DEF GoalsBut, TasksBut, SlotsBut
<1>1. {row \in G : row.parent = None \/ \E above \in G : above.id = row.parent} = G
  BY DEF GoalsBut, TreesHold, Hangs
<1>2. /\ {row \in pg["tasks"] : \E goal \in G : goal.id = row.milestone} = T
      /\ {row \in T : \E goal \in G : goal.id = row.milestone} = T
  BY <1>i DEF GoalsBut, TasksBut, TreesHold
<1>3. /\ {row \in pg["schedule_slots"] : \E task \in pg["tasks"] : task.id = row.task} = pg["schedule_slots"]
      /\ {row \in pg["schedule_slots"] : \E task \in T : task.id = row.task} = S
      /\ {row \in S : \E task \in T : task.id = row.task} = S
  <2>1. ASSUME NEW row \in pg["schedule_slots"]
        PROVE  (\E task \in T : task.id = row.task) <=> row \in S
    <3>1. PICK task \in pg["tasks"] : task.id = row.task
      BY <1>s
    <3>2. row \in S <=> task.plan # plan
      BY <1>i, <3>1 DEF SlotsBut
    <3>3. (\E other \in T : other.id = row.task) <=> task.plan # plan
      BY <1>i, <3>1 DEF TasksBut
    <3> QED
      BY <3>2, <3>3
  <2> QED
    BY <1>0, <1>s, <2>1
<1> DEFINE where == [plan |-> plan]
<1>4. P!Without(pg, "milestones", where) = TreeIs(G, pg["tasks"], pg["schedule_slots"])
  <2>1. {row \in pg["milestones"] : ~P!Matches(row, where)} = G
    BY DEF P!Matches, GoalsBut
  <2>2. pg = [u \in DOMAIN Tables |-> pg[u]]
    BY DEF IsDatabase
  <2> HIDE DEF G, where
  <2> QED
    BY <1>t, <2>1, <2>2 DEF P!Without, TreeIs
<1>5. P!Without(TreeIs(G, T, S), "tasks", where) = TreeIs(G, T, S)
  <2>1. {row \in T : ~P!Matches(row, where)} = T
    BY DEF P!Matches, TasksBut
  <2> HIDE DEF G, T, S, where
  <2> QED
    BY <1>t, <2>1 DEF P!Without, TreeIs
<1> HIDE DEF G, T, S, where
<1>6. P!Swept(TreeIs(G, pg["tasks"], pg["schedule_slots"])) = TreeIs(G, T, pg["schedule_slots"])
  BY <1>0, <1>1, <1>2, <1>3, SweptTree
<1>7. P!Swept(TreeIs(G, T, pg["schedule_slots"])) = TreeIs(G, T, S)
  BY <1>0, <1>1, <1>2, <1>3, SweptTree
<1>8. P!Swept(TreeIs(G, T, S)) = TreeIs(G, T, S)
  BY <1>0, <1>1, <1>2, <1>3, SweptTree
<1>9. P!Deleted(pg, "milestones", where) = TreeIs(G, T, S)
  BY <1>4, <1>6, <1>7, <1>8 DEF P!Deleted
<1>10. P!Deleted(TreeIs(G, T, S), "tasks", where) = TreeIs(G, T, S)
  BY <1>5, <1>8 DEF P!Deleted
<1> QED
  BY <1>9, <1>10 DEF G, T, S, where

\* The tree that is drafted, with the ids it is given.
NewGoals(plan) ==
    {[id |-> id + 2, plan |-> plan, parent |-> id + 1, key |-> w1, depth |-> 1, position |-> 0, status |-> w0],
     [id |-> id + 1, plan |-> plan, parent |-> None, key |-> w0, depth |-> 0, position |-> 0, status |-> w0]}
NewTasks(plan) ==
    {[id |-> id + 3, plan |-> plan, milestone |-> id + 2, key |-> w0, week |-> 0, occurrence |-> 1,
      sort_order |-> 1, status |-> w0, completed_at |-> None],
     [id |-> id + 4, plan |-> plan, milestone |-> id + 1, key |-> w0, week |-> 0, occurrence |-> 0,
      sort_order |-> 0, status |-> w0, completed_at |-> None]}
NewSlots(plan, first, second) ==
    {[id |-> id + 5, plan |-> plan, task |-> id + 3, start_at |-> first, external_ref |-> None, synced_at |-> None],
     [id |-> id + 6, plan |-> plan, task |-> id + 4, start_at |-> second, external_ref |-> None, synced_at |-> None]}

\* The one goal goes in before the other, and each key names one.
LEMMA DraftedInOrder ==
  /\ DOMAIN Drafted = 1 .. 2 /\ Len(Drafted) = 2
  /\ \A i, j \in 1 .. 2 :
        /\ P!Shallower(Drafted, j, i) <=> (j = 2 /\ i = 1)
        /\ M!Shallower(Drafted, j, i) <=> (j = 2 /\ i = 1)
  /\ \A i \in 1 .. 2 : P!Lowest(Drafted, {i}) = i /\ M!Lowest(Drafted, {i}) = i
  /\ Drafted[1] = Goal(w1, w0, 1) /\ Drafted[2] = Goal(w0, None, 0)
<1>1. DOMAIN Drafted = 1 .. 2 /\ Len(Drafted) = 2
  BY DEF Drafted
<1>2. Drafted[1] = Goal(w1, w0, 1) /\ Drafted[2] = Goal(w0, None, 0)
  BY DEF Drafted
<1>3. /\ Drafted[1].depth = 1 /\ Drafted[1].position = 0
      /\ Drafted[2].depth = 0 /\ Drafted[2].position = 0
  BY <1>2 DEF Goal
<1>4. ASSUME NEW i \in 1 .. 2, NEW j \in 1 .. 2
      PROVE  /\ P!Shallower(Drafted, j, i) <=> (j = 2 /\ i = 1)
             /\ M!Shallower(Drafted, j, i) <=> (j = 2 /\ i = 1)
  <2>1. (i = 1 \/ i = 2) /\ (j = 1 \/ j = 2)
    OBVIOUS
  <2> QED
    BY <1>3, <2>1 DEF P!Shallower, M!Shallower
<1>5. \A i \in 1 .. 2 : P!Lowest(Drafted, {i}) = i /\ M!Lowest(Drafted, {i}) = i
  BY DEF P!Lowest, M!Lowest
<1> QED
  BY <1>1, <1>2, <1>4, <1>5

\* Both stores count alike.
LEMMA SameCount ==
  ASSUME NEW S
  PROVE  P!Cardinality(S) = Cardinality(S) /\ M!Cardinality(S) = Cardinality(S)
  BY DEF P!Cardinality, M!Cardinality, Cardinality

\* tree.replace in PostgreSQL: the tree of the plan is the drafted one, the others' stay.
LEMMA TreeDrawn ==
  ASSUME NEW plan, NEW first, NEW second, id \in Nat
  PROVE  LET work == <<Work(w0, w1, first, 1), Work(w0, w0, second, 0)>>
             new == TreeIs(GoalsBut(plan) \cup NewGoals(plan), TasksBut(plan) \cup NewTasks(plan),
                           SlotsBut(plan) \cup NewSlots(plan, first, second))
         IN  IsDatabase(pg) /\ P!Lawful(pg) /\ TreesHold(pg)
                => P!tree_replace(pg, id, plan, Drafted, work, w0) = P!Commit(pg, new)
<1> DEFINE work == <<Work(w0, w1, first, 1), Work(w0, w0, second, 0)>>
           drafts == Drafted
           cleared == P!Deleted(P!Deleted(pg, "milestones", [plan |-> plan]), "tasks", [plan |-> plan])
           ids(i) == id + 1 + P!Cardinality({j \in DOMAIN drafts : P!Shallower(drafts, j, i)})
           above(i) == {j \in DOMAIN drafts : P!Shallower(drafts, j, i) /\ drafts[j].key = drafts[i].parent_key}
           named(i) == {j \in DOMAIN drafts : drafts[j].key = work[i].milestone_key}
           base == id + Len(drafts)
           goal(i) == [id |-> ids(i), plan |-> plan, key |-> drafts[i].key, status |-> w0,
                       depth |-> drafts[i].depth, position |-> drafts[i].position,
                       parent |-> IF above(i) = {} THEN None ELSE ids(P!Lowest(drafts, above(i)))]
           job(i) == [id |-> base + i, plan |-> plan, milestone |-> ids(P!Lowest(drafts, named(i))),
                      key |-> work[i].key, week |-> work[i].week, occurrence |-> work[i].occurrence,
                      sort_order |-> work[i].sort_order, status |-> w0, completed_at |-> None]
           slot(i) == [id |-> base + Len(work) + i, plan |-> plan, task |-> base + i,
                       start_at |-> work[i].start_at, external_ref |-> None, synced_at |-> None]
           goals == {goal(i) : i \in DOMAIN drafts}
           jobs == {job(i) : i \in DOMAIN work}
           slots == {slot(i) : i \in DOMAIN work}
           p == IF \E i \in DOMAIN work : named(i) = {} THEN P!Failed(pg)
                ELSE P!Commit(pg, [cleared EXCEPT !.milestones = @ \cup goals, !.tasks = @ \cup jobs,
                                                  !.schedule_slots = @ \cup slots])
<1>1. P!tree_replace(pg, id, plan, Drafted, work, w0) = p
  BY DEF P!tree_replace
<1>w. /\ DOMAIN work = 1 .. 2 /\ Len(work) = 2
      /\ work[1] = Work(w0, w1, first, 1) /\ work[2] = Work(w0, w0, second, 0)
  OBVIOUS
<1> HIDE DEF work
<1>2. ids(1) = id + 2 /\ ids(2) = id + 1
  <2>1. /\ {j \in DOMAIN drafts : P!Shallower(drafts, j, 1)} = {2}
        /\ {j \in DOMAIN drafts : P!Shallower(drafts, j, 2)} = {}
    BY DraftedInOrder
  <2>2. P!Cardinality({2}) = 1 /\ P!Cardinality({}) = 0
    BY FS_Singleton, FS_EmptySet, SameCount
  <2> QED
    BY <2>1, <2>2
<1>3. above(1) = {2} /\ above(2) = {}
  BY DraftedInOrder DEF Goal
<1>4. named(1) = {1} /\ named(2) = {2}
  BY DraftedInOrder, <1>w, WordsAre DEF Goal, Work
<1>5. /\ P!Lowest(drafts, above(1)) = 2
      /\ P!Lowest(drafts, named(1)) = 1 /\ P!Lowest(drafts, named(2)) = 2
  BY <1>3, <1>4, DraftedInOrder
<1>6. base = id + 2
  BY DraftedInOrder
<1>7. goals = NewGoals(plan)
  <2>1. goals = {goal(1), goal(2)}
    <3>1. DOMAIN drafts = 1 .. 2
      BY DraftedInOrder
    <3> HIDE DEF goal, drafts
    <3> QED
      BY <3>1
  <2>2. goal(1) = [id |-> id + 2, plan |-> plan, parent |-> id + 1, key |-> w1, depth |-> 1,
                   position |-> 0, status |-> w0]
    <3> HIDE DEF ids, above
    <3> QED
      BY <1>2, <1>3, <1>5, DraftedInOrder DEF Goal
  <2>3. goal(2) = [id |-> id + 1, plan |-> plan, parent |-> None, key |-> w0, depth |-> 0,
                   position |-> 0, status |-> w0]
    <3> HIDE DEF ids, above
    <3> QED
      BY <1>2, <1>3, DraftedInOrder DEF Goal
  <2> HIDE DEF goal
  <2> QED
    BY <2>1, <2>2, <2>3 DEF NewGoals
<1>8. jobs = NewTasks(plan)
  <2>1. jobs = {job(1), job(2)}
    <3> HIDE DEF job
    <3> QED
      BY <1>w
  <2>2. job(1) = [id |-> id + 3, plan |-> plan, milestone |-> id + 2, key |-> w0, week |-> 0,
                  occurrence |-> 1, sort_order |-> 1, status |-> w0, completed_at |-> None]
    <3> HIDE DEF ids, named, base
    <3> QED
      BY <1>2, <1>5, <1>6, <1>w DEF Work
  <2>3. job(2) = [id |-> id + 4, plan |-> plan, milestone |-> id + 1, key |-> w0, week |-> 0,
                  occurrence |-> 0, sort_order |-> 0, status |-> w0, completed_at |-> None]
    <3> HIDE DEF ids, named, base
    <3> QED
      BY <1>2, <1>5, <1>6, <1>w DEF Work
  <2> HIDE DEF job
  <2> QED
    BY <2>1, <2>2, <2>3 DEF NewTasks
<1>9. slots = NewSlots(plan, first, second)
  <2>1. slots = {slot(1), slot(2)}
    BY <1>w
  <2>2. slot(1) = [id |-> id + 5, plan |-> plan, task |-> id + 3, start_at |-> first,
                   external_ref |-> None, synced_at |-> None]
    <3> HIDE DEF base
    <3> QED
      BY <1>6, <1>w DEF Work
  <2>3. slot(2) = [id |-> id + 6, plan |-> plan, task |-> id + 4, start_at |-> second,
                   external_ref |-> None, synced_at |-> None]
    <3> HIDE DEF base
    <3> QED
      BY <1>6, <1>w DEF Work
  <2> HIDE DEF slot
  <2> QED
    BY <2>1, <2>2, <2>3 DEF NewSlots
<1>10. ~\E i \in DOMAIN work : named(i) = {}
  BY <1>4, <1>w
<1> HIDE DEF named, goals, jobs, slots, cleared
<1>11. p = P!Commit(pg, [cleared EXCEPT !.milestones = @ \cup NewGoals(plan), !.tasks = @ \cup NewTasks(plan),
                                         !.schedule_slots = @ \cup NewSlots(plan, first, second)])
  BY <1>7, <1>8, <1>9, <1>10
<1>12. ASSUME IsDatabase(pg), P!Lawful(pg), TreesHold(pg)
       PROVE  [cleared EXCEPT !.milestones = @ \cup NewGoals(plan), !.tasks = @ \cup NewTasks(plan),
                              !.schedule_slots = @ \cup NewSlots(plan, first, second)]
                = TreeIs(GoalsBut(plan) \cup NewGoals(plan), TasksBut(plan) \cup NewTasks(plan),
                         SlotsBut(plan) \cup NewSlots(plan, first, second))
  <2>1. cleared = TreeIs(GoalsBut(plan), TasksBut(plan), SlotsBut(plan))
    BY <1>12, TreeCleared DEF cleared
  <2>t. {"milestones", "tasks", "schedule_slots"} \subseteq DOMAIN Tables
    BY TablesAre DEF TableNames
  <2> QED
    BY <2>1, <2>t DEF TreeIs
<1> HIDE DEF p
<1> QED
  BY <1>1, <1>11, <1>12 DEF work

\* tree.replace in memory: the same.
LEMMA TreeCopied ==
  ASSUME NEW plan, NEW first, NEW second, id \in Nat, mem = pg, IsDatabase(pg)
  PROVE  LET work == <<Work(w0, w1, first, 1), Work(w0, w0, second, 0)>>
             new == TreeIs(GoalsBut(plan) \cup NewGoals(plan), TasksBut(plan) \cup NewTasks(plan),
                           SlotsBut(plan) \cup NewSlots(plan, first, second))
         IN  M!tree_replace(mem, id, plan, Drafted, work, w0) = M!Done(new)
<1> DEFINE work == <<Work(w0, w1, first, 1), Work(w0, w0, second, 0)>>
           drafts == Drafted
           dropped == {row.id : row \in {task \in mem.tasks : task.plan = plan}}
           ids(i) == id + 1 + M!Cardinality({j \in DOMAIN drafts : M!Shallower(drafts, j, i)})
           before(i) == {j \in DOMAIN drafts : M!Shallower(drafts, j, i) /\ drafts[j].key = drafts[i].parent_key}
           keyed(i) == {j \in DOMAIN drafts : drafts[j].key = work[i].milestone_key}
           taken == {i \in DOMAIN work : \A j \in 1 .. i : keyed(j) # {}}
           base == id + Len(drafts)
           goal(i) == [id |-> ids(i), plan |-> plan,
                       parent |-> IF before(i) = {} THEN None ELSE ids(M!Lowest(drafts, before(i))),
                       key |-> drafts[i].key, depth |-> drafts[i].depth, position |-> drafts[i].position,
                       status |-> w0]
           job(i) == [id |-> base + i, plan |-> plan, milestone |-> ids(M!Lowest(drafts, keyed(i))),
                      key |-> work[i].key, week |-> work[i].week, occurrence |-> work[i].occurrence,
                      sort_order |-> work[i].sort_order, status |-> w0, completed_at |-> None]
           slot(i) == [id |-> base + Len(work) + i, plan |-> plan, task |-> base + i,
                       start_at |-> work[i].start_at, external_ref |-> None, synced_at |-> None]
           goals == {goal(i) : i \in DOMAIN drafts}
           jobs == {job(i) : i \in taken}
           slots == {slot(i) : i \in taken}
           grown == [mem EXCEPT !.milestones = {row \in @ : row.plan # plan} \cup goals,
                                !.tasks = {row \in @ : row.plan # plan} \cup jobs,
                                !.schedule_slots = {row \in @ : row.task \notin dropped} \cup slots]
           m == IF taken = DOMAIN work THEN M!Done(grown) ELSE M!Raised(grown)
<1>1. M!tree_replace(mem, id, plan, Drafted, work, w0) = m
  BY DEF M!tree_replace
<1>w. /\ DOMAIN work = 1 .. 2 /\ Len(work) = 2
      /\ work[1] = Work(w0, w1, first, 1) /\ work[2] = Work(w0, w0, second, 0)
  OBVIOUS
<1> HIDE DEF work
<1>2. ids(1) = id + 2 /\ ids(2) = id + 1
  <2>1. /\ {j \in DOMAIN drafts : M!Shallower(drafts, j, 1)} = {2}
        /\ {j \in DOMAIN drafts : M!Shallower(drafts, j, 2)} = {}
    BY DraftedInOrder
  <2>2. M!Cardinality({2}) = 1 /\ M!Cardinality({}) = 0
    BY FS_Singleton, FS_EmptySet, SameCount
  <2> QED
    BY <2>1, <2>2
<1>3. before(1) = {2} /\ before(2) = {}
  BY DraftedInOrder DEF Goal
<1>4. keyed(1) = {1} /\ keyed(2) = {2}
  BY DraftedInOrder, <1>w, WordsAre DEF Goal, Work
<1>5. /\ M!Lowest(drafts, before(1)) = 2
      /\ M!Lowest(drafts, keyed(1)) = 1 /\ M!Lowest(drafts, keyed(2)) = 2
  BY <1>3, <1>4, DraftedInOrder
<1>6. base = id + 2
  BY DraftedInOrder
<1>10. taken = 1 .. 2
  <2> HIDE DEF keyed
  <2>1. \A j \in 1 .. 2 : keyed(j) # {}
    BY <1>4
  <2> QED
    BY <1>w, <2>1
<1>7. goals = NewGoals(plan)
  <2>1. goals = {goal(1), goal(2)}
    <3>1. DOMAIN drafts = 1 .. 2
      BY DraftedInOrder
    <3> HIDE DEF goal, drafts
    <3> QED
      BY <3>1
  <2>2. goal(1) = [id |-> id + 2, plan |-> plan, parent |-> id + 1, key |-> w1, depth |-> 1,
                   position |-> 0, status |-> w0]
    <3> HIDE DEF ids, before
    <3> QED
      BY <1>2, <1>3, <1>5, DraftedInOrder DEF Goal
  <2>3. goal(2) = [id |-> id + 1, plan |-> plan, parent |-> None, key |-> w0, depth |-> 0,
                   position |-> 0, status |-> w0]
    <3> HIDE DEF ids, before
    <3> QED
      BY <1>2, <1>3, DraftedInOrder DEF Goal
  <2> HIDE DEF goal
  <2> QED
    BY <2>1, <2>2, <2>3 DEF NewGoals
<1>8. jobs = NewTasks(plan)
  <2>1. jobs = {job(1), job(2)}
    <3> HIDE DEF job, taken
    <3> QED
      BY <1>10
  <2>2. job(1) = [id |-> id + 3, plan |-> plan, milestone |-> id + 2, key |-> w0, week |-> 0,
                  occurrence |-> 1, sort_order |-> 1, status |-> w0, completed_at |-> None]
    <3> HIDE DEF ids, keyed, base
    <3> QED
      BY <1>2, <1>5, <1>6, <1>w DEF Work
  <2>3. job(2) = [id |-> id + 4, plan |-> plan, milestone |-> id + 1, key |-> w0, week |-> 0,
                  occurrence |-> 0, sort_order |-> 0, status |-> w0, completed_at |-> None]
    <3> HIDE DEF ids, keyed, base
    <3> QED
      BY <1>2, <1>5, <1>6, <1>w DEF Work
  <2> HIDE DEF job
  <2> QED
    BY <2>1, <2>2, <2>3 DEF NewTasks
<1>9. slots = NewSlots(plan, first, second)
  <2>1. slots = {slot(1), slot(2)}
    <3> HIDE DEF slot, taken
    <3> QED
      BY <1>10
  <2>2. slot(1) = [id |-> id + 5, plan |-> plan, task |-> id + 3, start_at |-> first,
                   external_ref |-> None, synced_at |-> None]
    <3> HIDE DEF base
    <3> QED
      BY <1>6, <1>w DEF Work
  <2>3. slot(2) = [id |-> id + 6, plan |-> plan, task |-> id + 4, start_at |-> second,
                   external_ref |-> None, synced_at |-> None]
    <3> HIDE DEF base
    <3> QED
      BY <1>6, <1>w DEF Work
  <2> HIDE DEF slot
  <2> QED
    BY <2>1, <2>2, <2>3 DEF NewSlots
<1> HIDE DEF goals, jobs, slots, taken
<1>11. grown = TreeIs(GoalsBut(plan) \cup NewGoals(plan), TasksBut(plan) \cup NewTasks(plan),
                      SlotsBut(plan) \cup NewSlots(plan, first, second))
  <2>t. {"milestones", "tasks", "schedule_slots"} \subseteq DOMAIN Tables
    BY TablesAre DEF TableNames
  <2>1. pg = [u \in DOMAIN Tables |-> pg[u]]
    BY DEF IsDatabase
  <2>2. /\ {row \in mem.milestones : row.plan # plan} = GoalsBut(plan)
        /\ {row \in mem.tasks : row.plan # plan} = TasksBut(plan)
        /\ {row \in mem.schedule_slots : row.task \notin dropped} = SlotsBut(plan)
    BY DEF GoalsBut, TasksBut, SlotsBut
  <2> HIDE DEF dropped
  <2> QED
    BY <2>t, <2>1, <2>2, <1>7, <1>8, <1>9 DEF TreeIs
<1> HIDE DEF grown
<1>12. m = M!Done(grown)
  BY <1>10, <1>w
<1> HIDE DEF m
<1> QED
  BY <1>1, <1>11, <1>12 DEF work

\* tree.replace keeps the invariant: the drafted tree holds together.
LEMMA WritesTreeCall ==
  ASSUME StoresInv, WritesTree
  PROVE  StoresInv' /\ Keeps(pg')
<1>t. {"milestones", "tasks", "schedule_slots", "plans", "direction_hypotheses"} \subseteq DOMAIN Tables
  BY TablesAre DEF TableNames
<1>1. PICK plan \in IdsOf("plans"), first \in Numbers, second \in Numbers :
        LET work == <<Work(w0, w1, first, 1), Work(w0, w0, second, 0)>>
        IN  Both(P!tree_replace(pg, id, plan, Drafted, work, w0), M!tree_replace(mem, id, plan, Drafted, work, w0))
  BY DEF WritesTree
<1> DEFINE work == <<Work(w0, w1, first, 1), Work(w0, w0, second, 0)>>
           goals == GoalsBut(plan) \cup NewGoals(plan)
           jobs == TasksBut(plan) \cup NewTasks(plan)
           slots == SlotsBut(plan) \cup NewSlots(plan, first, second)
           new == TreeIs(goals, jobs, slots)
           p == P!tree_replace(pg, id, plan, Drafted, work, w0)
           m == M!tree_replace(mem, id, plan, Drafted, work, w0)
<1>b. Both(p, m)
  BY <1>1
<1> HIDE DEF p, m
<1>m. /\ mem = pg /\ P!Lawful(pg) /\ IsDatabase(pg) /\ TreesHold(pg)
      /\ ops < MaxOps /\ plan \in Ids
  BY <1>b, <1>t, InStep, NamedIds DEF Both, StoresInv
<1>n. /\ id + 1 \in Ids /\ id + 2 \in Ids /\ id + 3 \in Ids /\ id + 4 \in Ids
      /\ id + 5 \in Ids /\ id + 6 \in Ids /\ id \in Nat
  BY <1>m, NewIds
<1>2. p = P!Commit(pg, new) /\ m = M!Done(new)
  BY <1>m, <1>n, TreeDrawn, TreeCopied DEF p, m
<1>3. \A u \in DOMAIN Tables : \A row \in pg[u] : IsRow(row, u) /\ row.id < id + 10
  BY <1>m, IdsOfRows, StoresAssumption DEF IsDatabase, StoresInv, TypeOK, Older, id
<1>v. w0 \in Words /\ w1 \in Words /\ 0 \in Numbers /\ 1 \in Numbers
      /\ None \in Nullable(Ids) /\ None \in Nullable(Words) /\ None \in Nullable(Numbers)
      /\ id + 1 \in Nullable(Ids)
  BY <1>n, WordsAre, SchemaAssumption DEF Nullable
<1>4. \A row \in NewGoals(plan) : IsRow(row, "milestones") /\ row.id < id + 10
  BY <1>m, <1>n, <1>v DEF NewGoals, IsRow, Columns, Milestone
<1>5. \A row \in NewTasks(plan) : IsRow(row, "tasks") /\ row.id < id + 10
  BY <1>m, <1>n, <1>v DEF NewTasks, IsRow, Columns, Task
<1>6. \A row \in NewSlots(plan, first, second) : IsRow(row, "schedule_slots") /\ row.id < id + 10
  BY <1>m, <1>n, <1>v DEF NewSlots, IsRow, Columns, ScheduleSlot
<1>7. /\ \A row \in goals : IsRow(row, "milestones") /\ row.id < id + 10
      /\ \A row \in jobs : IsRow(row, "tasks") /\ row.id < id + 10
      /\ \A row \in slots : IsRow(row, "schedule_slots") /\ row.id < id + 10
  BY <1>t, <1>3, <1>4, <1>5, <1>6 DEF GoalsBut, TasksBut, SlotsBut
<1>8. TreesHold(new)
  <2>1. new.milestones = goals /\ new.tasks = jobs /\ new.schedule_slots = slots
    BY <1>t DEF TreeIs
  <2>2. ASSUME NEW goal \in goals
        PROVE  Hangs(goal, goals)
    <3>1. CASE goal \in GoalsBut(plan)
      BY <1>m, <3>1 DEF GoalsBut, TreesHold, Hangs
    <3>2. CASE goal \in NewGoals(plan)
      <4> DEFINE child == [id |-> id + 2, plan |-> plan, parent |-> id + 1, key |-> w1, depth |-> 1,
                           position |-> 0, status |-> w0]
                 root == [id |-> id + 1, plan |-> plan, parent |-> None, key |-> w0, depth |-> 0,
                          position |-> 0, status |-> w0]
      <4>1. root.id = id + 1 /\ root.plan = plan /\ child.parent = id + 1 /\ child.plan = plan
            /\ root.parent = None /\ root.depth = 0 /\ child.depth = 1 /\ id + 1 # None
        BY <1>n, SchemaAssumption DEF Ids
      <4>2. NewGoals(plan) = {child, root}
        BY DEF NewGoals
      <4> HIDE DEF child, root
      <4> QED
        BY <3>2, <4>1, <4>2 DEF Hangs
    <3> QED
      BY <3>1, <3>2
  <2>3. ASSUME NEW task \in jobs
        PROVE  /\ \E goal \in goals : goal.id = task.milestone /\ goal.plan = task.plan
               /\ \E slot \in slots : slot.task = task.id
    <3>1. CASE task \in TasksBut(plan)
      <4>1. task \in pg["tasks"] /\ task.plan # plan
        BY <3>1 DEF TasksBut
      <4>2. PICK goal \in pg["milestones"] : goal.id = task.milestone /\ goal.plan = task.plan
        BY <1>m, <4>1 DEF TreesHold
      <4>3. PICK slot \in pg["schedule_slots"] : slot.task = task.id
        BY <1>m, <4>1 DEF TreesHold
      <4>4. ASSUME NEW gone \in pg["tasks"], gone.plan = plan PROVE gone.id # task.id
        <5>1. gone.id = task.id => SameKey(gone, task, {"id"})
          BY DEF SameKey
        <5> QED
          BY <1>t, <1>m, <4>1, <4>4, <5>1, KeysAreUnique
      <4>5. slot \in SlotsBut(plan)
        BY <4>3, <4>4 DEF SlotsBut
      <4> QED
        BY <4>1, <4>2, <4>3, <4>5 DEF GoalsBut
    <3>2. CASE task \in NewTasks(plan)
      <4>1. task.plan = plan /\ ((task.id = id + 3 /\ task.milestone = id + 2) \/ (task.id = id + 4 /\ task.milestone = id + 1))
        BY <3>2 DEF NewTasks
      <4>2. /\ \E goal \in NewGoals(plan) : goal.id = id + 2 /\ goal.plan = plan
            /\ \E goal \in NewGoals(plan) : goal.id = id + 1 /\ goal.plan = plan
        BY DEF NewGoals
      <4>3. /\ \E slot \in NewSlots(plan, first, second) : slot.task = id + 3
            /\ \E slot \in NewSlots(plan, first, second) : slot.task = id + 4
        BY DEF NewSlots
      <4> QED
        BY <4>1, <4>2, <4>3
    <3> QED
      BY <3>1, <3>2
  <2> HIDE DEF goals, jobs, slots, new
  <2> QED
    BY <2>1, <2>2, <2>3 DEF TreesHold
<1> HIDE DEF goals, jobs, slots
<1>9. /\ DOMAIN new = DOMAIN Tables /\ new = [u \in DOMAIN Tables |-> new[u]]
      /\ new["milestones"] = goals /\ new["tasks"] = jobs /\ new["schedule_slots"] = slots
      /\ \A u \in DOMAIN Tables \ {"milestones", "tasks", "schedule_slots"} : new[u] = pg[u]
  BY <1>t DEF TreeIs
<1> HIDE DEF new
<1>10. IsDatabase(new) /\ \A u \in DOMAIN Tables : \A row \in new[u] : row.id < id + 10
  <2>1. ASSUME NEW u \in DOMAIN Tables, NEW row \in new[u] PROVE IsRow(row, u) /\ row.id < id + 10
    BY <1>3, <1>7, <1>9
  <2> QED
    BY <1>9, <2>1 DEF IsDatabase
<1>11. new.direction_hypotheses = pg.direction_hypotheses
  BY <1>t, <1>9
<1>12. \A user \in Ids : \E n \in 0 .. ops + 2 : VersionsOf(new, user) = {k \in 0 .. ops + 1 : k < n}
  BY <1>11, StillNumbered
<1>13. Fine(new) /\ Keeps(new)
  BY <1>8, <1>10, <1>11, <1>12 DEF Fine, Keeps
<1>14. m.ok = TRUE /\ m.db = new /\ IsDatabase(m.db)
  BY <1>2, <1>13, DoneIs DEF Fine
<1> QED
  BY <1>2, <1>b, <1>13, <1>14, CommitOrFail

\* Every call about the plan.
LEMMA PlanningCall ==
  ASSUME StoresInv, Planning
  PROVE  StoresInv' /\ Keeps(pg')
  BY PlanCall, TaskCall, TicksCall, WritesTreeCall DEF Planning

-----------------------------------------------------------------------------
(* What there is at the start. *)

First == [id |-> 1, email |-> w0, google_sub |-> w0]
Second == [id |-> 2, email |-> w1, google_sub |-> w1]
OneShape == [id |-> 3, code |-> 0, tags |-> {}, author |-> System, author_user |-> None, active |-> TRUE, version |-> 1]
Other == [id |-> 11, code |-> 1, tags |-> {}, author |-> System, author_user |-> None, active |-> TRUE, version |-> 1]
TheRun == [id |-> 4, user |-> 1, status |-> w0, error |-> None, period |-> None, readouts |-> w0]
TheVerdict == [id |-> 5, user |-> 1, run |-> 4, role_model |-> 3, data |-> w0]
TheHypothesis == [id |-> 6, user |-> 1, version |-> 0, role_model |-> 3, fit_verdict |-> 5, data |-> w0]
ThePlan == [id |-> 7, user |-> 1, hypothesis |-> 6, status |-> w0, data |-> w0]
TheGoal == [id |-> 8, plan |-> 7, parent |-> None, key |-> w0, depth |-> 0, position |-> 0, status |-> w0]
TheTask == [id |-> 9, plan |-> 7, milestone |-> 8, key |-> w0, week |-> 0, occurrence |-> 0,
            sort_order |-> 0, status |-> w0, completed_at |-> None]
TheSlot == [id |-> 10, plan |-> 7, task |-> 9, start_at |-> 0, external_ref |-> None, synced_at |-> None]

\* What the calls start from, table by table.
LEMMA FixtureTables ==
  /\ Fixture = [t \in DOMAIN Tables |-> Fixture[t]]
  /\ Fixture["users"] = {First, Second} /\ Fixture["role_models"] = {OneShape, Other}
  /\ Fixture["direction_runs"] = {TheRun} /\ Fixture["fit_verdicts"] = {TheVerdict}
  /\ Fixture["direction_hypotheses"] = {TheHypothesis} /\ Fixture["plans"] = {ThePlan}
  /\ Fixture["milestones"] = {TheGoal} /\ Fixture["tasks"] = {TheTask} /\ Fixture["schedule_slots"] = {TheSlot}
  /\ \A t \in DOMAIN Tables \ {"users", "role_models", "direction_runs", "fit_verdicts", "direction_hypotheses",
                               "plans", "milestones", "tasks", "schedule_slots"} : Fixture[t] = {}
<1>1. Fixture = [EmptyDatabase EXCEPT
        !.users = {First, Second}, !.role_models = {OneShape, Other}, !.direction_runs = {TheRun},
        !.fit_verdicts = {TheVerdict}, !.direction_hypotheses = {TheHypothesis}, !.plans = {ThePlan},
        !.milestones = {TheGoal}, !.tasks = {TheTask}, !.schedule_slots = {TheSlot}]
  BY DEF Fixture, First, Second, OneShape, Other, TheRun, TheVerdict, TheHypothesis, ThePlan, TheGoal, TheTask, TheSlot
<1> QED
  BY <1>1, TablesAre DEF EmptyDatabase, TableNames

\* Its rows' keys.
LEMMA FixtureColumns ==
  /\ First.id = 1 /\ TheRun.id = 4 /\ TheVerdict.id = 5 /\ TheHypothesis.id = 6 /\ ThePlan.id = 7
  /\ OneShape.id = 3 /\ OneShape.code = 0 /\ Other.id = 11 /\ Other.code = 1
  /\ TheHypothesis.user = 1 /\ TheHypothesis.version = 0
  /\ TheGoal.id = 8 /\ TheGoal.plan = 7 /\ TheGoal.parent = None /\ TheGoal.depth = 0
  /\ TheTask.id = 9 /\ TheTask.plan = 7 /\ TheTask.milestone = 8 /\ TheSlot.task = 9
  BY DEF First, OneShape, Other, TheRun, TheVerdict, TheHypothesis, ThePlan, TheGoal, TheTask, TheSlot

\* Its rows are rows.
LEMMA FixtureRows ==
  ASSUME NEW t \in DOMAIN Tables, NEW row \in Fixture[t]
  PROVE  IsRow(row, t) /\ row.id < 12
<1>1. /\ \A k \in 0 .. 11 : k \in Ids /\ k \in Nullable(Ids)
      /\ w0 \in Words /\ w1 \in Words /\ 0 \in Numbers /\ 1 \in Numbers
      /\ None \in Nullable(Ids) /\ None \in Nullable(Words) /\ None \in Nullable(Numbers)
  BY WordsAre, SchemaAssumption, StoresAssumption DEF Ids, Nullable
<1>2. CASE t = "users"
  BY <1>1, <1>2, FixtureTables DEF IsRow, Columns, User, First, Second
<1>3. CASE t = "role_models"
  <2>1. /\ row = [c \in DOMAIN Columns["role_models"] |-> row[c]]
        /\ row["id"] \in 0 .. 11 /\ row["code"] \in Numbers /\ row["tags"] \in SUBSET Words
        /\ row["author"] \in Words /\ row["author_user"] \in Nullable(Ids) /\ row["version"] \in Nat
    BY <1>1, <1>3, FixtureTables, ShapeColumns, StoresAssumption DEF OneShape, Other
  <2>2. row["active"] = TRUE
    BY <1>3, FixtureTables DEF OneShape, Other
  <2>3. \A c \in DOMAIN Columns["role_models"] : row[c] \in Columns["role_models"][c]
    BY <1>1, <2>1, <2>2, ShapeColumns
  <2> QED
    BY <1>3, <2>1, <2>3 DEF IsRow
<1>4. CASE t = "direction_runs"
  BY <1>1, <1>4, FixtureTables DEF IsRow, Columns, DirectionRun, TheRun
<1>5. CASE t = "fit_verdicts"
  BY <1>1, <1>5, FixtureTables DEF IsRow, Columns, FitVerdict, TheVerdict
<1>6. CASE t = "direction_hypotheses"
  BY <1>1, <1>6, FixtureTables DEF IsRow, Columns, DirectionHypothesis, TheHypothesis
<1>7. CASE t = "plans"
  BY <1>1, <1>7, FixtureTables DEF IsRow, Columns, Plan, ThePlan
<1>8. CASE t = "milestones"
  BY <1>1, <1>8, FixtureTables DEF IsRow, Columns, Milestone, TheGoal
<1>9. CASE t = "tasks"
  BY <1>1, <1>9, FixtureTables DEF IsRow, Columns, Task, TheTask
<1>10. CASE t = "schedule_slots"
  BY <1>1, <1>10, FixtureTables DEF IsRow, Columns, ScheduleSlot, TheSlot
<1> QED
  BY <1>2, <1>3, <1>4, <1>5, <1>6, <1>7, <1>8, <1>9, <1>10, FixtureTables

\* No two have the same key.
LEMMA FixtureUnique ==
  ASSUME NEW t \in DOMAIN Tables, NEW key \in Tables[t].unique \cup {{"id"}},
         NEW a \in Fixture[t], NEW b \in Fixture[t], SameKey(a, b, key)
  PROVE  a = b
<1>1. CASE t = "users"
  <2>1. key \in {{"id"}, {"email"}, {"google_sub"}}
    BY <1>1 DEF Tables, users
  <2>2. a.id = b.id \/ a.email = b.email \/ a.google_sub = b.google_sub
    BY <2>1 DEF SameKey
  <2> QED
    BY <1>1, <2>2, FixtureTables, WordsAre DEF First, Second
<1>2. CASE t = "role_models"
  <2>1. key \in {{"id"}, {"code"}}
    BY <1>2 DEF Tables, role_models
  <2>2. a.id = b.id \/ a.code = b.code
    BY <2>1 DEF SameKey
  <2> QED
    BY <1>2, <2>2, FixtureTables, FixtureColumns
<1>3. CASE t \notin {"users", "role_models"}
  BY <1>3, FixtureTables
<1> QED
  BY <1>1, <1>2, <1>3

\* What they refer to is there.
LEMMA FixtureReferred ==
  ASSUME NEW t \in DOMAIN Tables, NEW row \in Fixture[t], NEW ref \in Tables[t].refers
  PROVE  P!Referred(Fixture, row, ref)
<1>k. /\ P!Knows(Fixture, "users", 1) /\ P!Knows(Fixture, "role_models", 3)
      /\ P!Knows(Fixture, "direction_runs", 4) /\ P!Knows(Fixture, "fit_verdicts", 5)
      /\ P!Knows(Fixture, "direction_hypotheses", 6) /\ P!Knows(Fixture, "plans", 7)
      /\ P!Knows(Fixture, "milestones", 8) /\ P!Knows(Fixture, "tasks", 9)
  BY FixtureTables, FixtureColumns DEF P!Knows
<1>1. CASE t = "users"
  BY <1>1 DEF Tables, users
<1>2. CASE t = "role_models"
  BY <1>2, FixtureTables DEF Tables, role_models, References, P!Referred, OneShape, Other
<1>3. CASE t = "direction_runs"
  BY <1>k, <1>3, FixtureTables DEF Tables, direction_runs, Owner, References, P!Referred, TheRun
<1>4. CASE t = "fit_verdicts"
  BY <1>k, <1>4, FixtureTables DEF Tables, fit_verdicts, Owner, References, P!Referred, TheVerdict
<1>5. CASE t = "direction_hypotheses"
  BY <1>k, <1>5, FixtureTables DEF Tables, direction_hypotheses, Owner, References, P!Referred, TheHypothesis
<1>6. CASE t = "plans"
  BY <1>k, <1>6, FixtureTables DEF Tables, plans, Owner, References, P!Referred, ThePlan
<1>7. CASE t = "milestones"
  BY <1>k, <1>7, FixtureTables DEF Tables, milestones, References, P!Referred, TheGoal
<1>8. CASE t = "tasks"
  BY <1>k, <1>8, FixtureTables DEF Tables, tasks, References, P!Referred, TheTask
<1>9. CASE t = "schedule_slots"
  BY <1>k, <1>9, FixtureTables DEF Tables, schedule_slots, References, P!Referred, TheSlot
<1> QED
  BY <1>1, <1>2, <1>3, <1>4, <1>5, <1>6, <1>7, <1>8, <1>9, FixtureTables

\* So the invariant holds at the start.
LEMMA StoresInit == Init => StoresInv
<1> SUFFICES ASSUME Init PROVE StoresInv
  OBVIOUS
<1>1. ops = 0 /\ ops \in 0 .. MaxOps /\ id = 12 /\ mem = pg /\ part \in Parts /\ apart = FALSE
  BY StoresAssumption DEF Init, id
<1>2. CASE pg = EmptyDatabase
  <2>1. /\ pg = [t \in DOMAIN Tables |-> {}]
        /\ "direction_hypotheses" \in DOMAIN Tables /\ "milestones" \in DOMAIN Tables /\ "tasks" \in DOMAIN Tables
    BY <1>2, TablesAre DEF EmptyDatabase, TableNames
  <2>2. TypeOK
    BY <1>1, <2>1 DEF TypeOK, IsDatabase
  <2>3. P!Lawful(pg)
    BY <2>1, SameTables DEF P!Lawful, P!Unique
  <2>4. Older(pg) /\ TreesHold(pg)
    BY <2>1 DEF Older, TreesHold
  <2>5. Numbered(pg)
    <3>1. \A user \in Ids : VersionsOf(pg, user) = {k \in 0 .. 0 : k < 0}
      BY <2>1 DEF VersionsOf
    <3> QED
      BY <1>1, <3>1 DEF Numbered
  <2> QED
    BY <1>1, <2>2, <2>3, <2>4, <2>5 DEF StoresInv
<1>3. CASE pg = Fixture
  <2>1. pg = [t \in DOMAIN Tables |-> pg[t]] /\ \A t \in DOMAIN Tables : \A row \in pg[t] : IsRow(row, t) /\ row.id < 12
    BY <1>3, FixtureTables, FixtureRows
  <2>2. TypeOK /\ Older(pg)
    BY <1>1, <2>1 DEF TypeOK, IsDatabase, Older
  <2>3. P!Lawful(pg)
    <3>1. ASSUME NEW t \in DOMAIN Tables PROVE P!Unique(pg, t)
      BY <1>3, FixtureUnique, SameTables DEF P!Unique, P!SameKey, SameKey
    <3>2. \A t \in DOMAIN Tables : \A ref \in Tables[t].refers : \A row \in pg[t] : P!Referred(pg, row, ref)
      BY <1>3, FixtureReferred
    <3> QED
      BY <3>1, <3>2, SameTables DEF P!Lawful
  <2>4. TreesHold(pg)
    BY <1>3, FixtureTables, FixtureColumns DEF TreesHold, Hangs
  <2>5. Numbered(pg)
    <3> SUFFICES ASSUME NEW user \in Ids
                 PROVE  \E n \in 0 .. 1 : VersionsOf(pg, user) = {k \in 0 .. 0 : k < n}
      BY <1>1 DEF Numbered
    <3>1. CASE user = 1
      <4>1. VersionsOf(pg, user) = {0}
        BY <1>3, <3>1, FixtureTables, FixtureColumns DEF VersionsOf
      <4> QED
        BY <4>1
    <3>2. CASE user # 1
      <4>1. VersionsOf(pg, user) = {}
        BY <1>3, <3>2, FixtureTables, FixtureColumns DEF VersionsOf
      <4> QED
        BY <4>1
    <3> QED
      BY <3>1, <3>2
  <2> QED
    BY <1>1, <2>2, <2>3, <2>4, <2>5 DEF StoresInv
<1> QED
  BY <1>2, <1>3 DEF Init

-----------------------------------------------------------------------------
(* The theorems. *)

\* Every call keeps it, and every hypothesis.
LEMMA NextCall ==
  ASSUME StoresInv, Next
  PROVE  StoresInv' /\ Keeps(pg')
  BY IdentityCall, IntakeCall, DirectionCall, CatalogCall, PlanningCall, ReviewCall DEF Next

\* Whatever the calls and their order: every row of both stores is a row of its
\* table, the constraints of the migration hold, a tree is one plan's and has a
\* slot for each task, the versions of a user are 0, 1, 2 ... without a gap, and
\* until PostgreSQL refuses a call both stores hold the same rows (packages/repo,
\* postgres/ and memory/).
THEOREM StoresInvariant == Spec => []StoresInv
<1>1. StoresInv /\ [Next]_vars => StoresInv'
  <2> SUFFICES ASSUME StoresInv, [Next]_vars PROVE StoresInv'
    OBVIOUS
  <2>1. CASE Next
    BY <2>1, NextCall
  <2>2. CASE UNCHANGED vars
    BY <2>2 DEF vars, StoresInv, TypeOK, Older, Numbered, id
  <2> QED
    BY <2>1, <2>2
<1> QED
  BY <1>1, StoresInit, PTL DEF Spec

\* The verdict a hypothesis quotes is there.
LEMMA VerdictIsThere ==
  ASSUME NEW db, IsDatabase(db), P!Lawful(db), NEW h \in db.direction_hypotheses
  PROVE  h.fit_verdict \in {v.id : v \in db.fit_verdicts}
<1>t. "direction_hypotheses" \in DOMAIN Tables
  BY TablesAre DEF TableNames
<1>1. h.fit_verdict # None
  <2>1. IsRow(h, "direction_hypotheses")
    BY <1>t DEF IsDatabase
  <2>2. h.fit_verdict \in Ids
    BY <2>1 DEF IsRow, Columns, DirectionHypothesis
  <2> QED
    BY <2>2, SchemaAssumption DEF Ids
<1>2. References("fit_verdict", "fit_verdicts", "RESTRICT") \in Tables["direction_hypotheses"].refers
  BY DEF Tables, direction_hypotheses
<1>3. P!Referred(db, h, References("fit_verdict", "fit_verdicts", "RESTRICT"))
  BY <1>t, <1>2, SameTables DEF P!Lawful
<1> QED
  BY <1>1, <1>3 DEF P!Referred, P!Knows, References

\* What a user committed to stays as it was, and so does the verdict it quotes,
\* though its run is repeated and its verdicts replaced: the foreign key is
\* RESTRICT (packages/schemas, direction.py).
THEOREM CommitmentsKept == Spec => HypothesesAreKept
<1>1. StoresInv /\ [Next]_vars
        => [\A h \in pg.direction_hypotheses :
                /\ h \in pg'.direction_hypotheses
                /\ h.fit_verdict \in {v.id : v \in pg'.fit_verdicts}]_vars
  <2> SUFFICES ASSUME StoresInv, Next, NEW h \in pg.direction_hypotheses
               PROVE  /\ h \in pg'.direction_hypotheses
                      /\ h.fit_verdict \in {v.id : v \in pg'.fit_verdicts}
    OBVIOUS
  <2>1. h \in pg'.direction_hypotheses
    BY NextCall DEF Keeps
  <2>2. IsDatabase(pg') /\ P!Lawful(pg')
    BY NextCall DEF StoresInv, TypeOK, IsDatabase, P!Lawful, P!Unique, P!Referred, P!Knows
  <2> QED
    BY <2>1, <2>2, VerdictIsThere
<1> QED
  BY <1>1, StoresInvariant, PTL DEF Spec, HypothesesAreKept

-----------------------------------------------------------------------------
(* The two stores, asked the same: the rows they choose are the same set, and
   what is made of a set is one definition.  *)

\* Given the same rows, both stores pick the same one,
LEMMA SameSingle == ASSUME NEW rows PROVE P!Single(rows) = M!Single(rows)
  BY DEF P!Single, M!Single

\* the same highest column,
LEMMA SameHighest == ASSUME NEW rows, NEW c PROVE P!Highest(rows, c) = M!Highest(rows, c)
  BY DEF P!Highest, M!Highest

\* the same order, newest first,
LEMMA SameNewest == ASSUME NEW rows PROVE P!Newest(rows) = M!Newest(rows)
  BY DEF P!Newest, M!Newest, P!InOrder, M!InOrder, P!Cardinality, M!Cardinality

\* the same order by a column,
LEMMA SameBy == ASSUME NEW rows, NEW c PROVE P!By(rows, c) = M!By(rows, c)
  BY DEF P!By, M!By, P!InOrder, M!InOrder, P!Cardinality, M!Cardinality

\* the same schedule,
LEMMA SameSchedule == ASSUME NEW rows PROVE P!InSchedule(rows) = M!InSchedule(rows)
  BY DEF P!InSchedule, M!InSchedule, P!ByBoth, M!ByBoth, P!InOrder, M!InOrder, P!Cardinality, M!Cardinality

\* the same tree, by depth and position,
LEMMA SameDepths ==
  ASSUME NEW rows PROVE P!ByBoth(rows, "depth", "position") = M!ByBoth(rows, "depth", "position")
  BY DEF P!ByBoth, M!ByBoth, P!InOrder, M!InOrder, P!Cardinality, M!Cardinality

\* and stop at the same limit.
LEMMA SameLimited == ASSUME NEW rows, NEW limit PROVE P!Limited(rows, limit) = M!Limited(rows, limit)
  BY DEF P!Limited, M!Limited

\* The questions about users and integrations have the same answers.
LEMMA IdentitySame ==
  ASSUME StoresInv, mem = pg
  PROVE  IdentityAlike
<1>m. mem = pg
  OBVIOUS
<1>1. ASSUME NEW sub
      PROVE  P!users_get_by_google_sub(pg, sub) = M!users_get_by_google_sub(mem, sub)
  <2>1. P!Select(pg, "users", [google_sub |-> sub]) = {row \in mem.users : row.google_sub = sub}
    BY <1>m DEF P!Select, P!Matches
  <2> QED
    BY <2>1, SameSingle DEF P!users_get_by_google_sub, M!users_get_by_google_sub
<1>2. ASSUME NEW u
      PROVE  P!users_get(pg, u) = M!users_get(mem, u)
  <2>1. P!Select(pg, "users", [id |-> u]) = {row \in mem.users : row.id = u}
    BY <1>m DEF P!Select, P!Matches
  <2> QED
    BY <2>1, SameSingle DEF P!users_get, M!users_get
<1>3. ASSUME NEW u
      PROVE  P!oauth_list_for_user(pg, u) = M!oauth_list_for_user(mem, u)
  <2>1. P!Select(pg, "oauth_connections", [user |-> u]) = {row \in mem.oauth_connections : row.user = u}
    BY <1>m DEF P!Select, P!Matches
  <2> QED
    BY <2>1, SameBy DEF P!oauth_list_for_user, M!oauth_list_for_user
<1>4. ASSUME NEW u, NEW p
      PROVE  P!oauth_get(pg, u, p) = M!oauth_get(mem, u, p)
  <2>1. P!Select(pg, "oauth_connections", [user |-> u, provider |-> p]) = {row \in mem.oauth_connections : row.user = u /\ row.provider = p}
    BY <1>m DEF P!Select, P!Matches
  <2> QED
    BY <2>1, SameSingle DEF P!oauth_get, M!oauth_get
<1> QED
  BY <1>1, <1>2, <1>3, <1>4 DEF IdentityAlike

\* Those about uploads, documents and the profile.
LEMMA IntakeSame ==
  ASSUME StoresInv, mem = pg
  PROVE  IntakeAlike
<1>m. mem = pg
  OBVIOUS
<1>1. ASSUME NEW u
      PROVE  P!imports_list_for_user(pg, u) = M!imports_list_for_user(mem, u)
  <2>1. P!Select(pg, "imports", [user |-> u]) = {row \in mem.imports : row.user = u}
    BY <1>m DEF P!Select, P!Matches
  <2> QED
    BY <2>1, SameNewest DEF P!imports_list_for_user, M!imports_list_for_user
<1>2. ASSUME NEW u
      PROVE  P!profiles_get(pg, u) = M!profiles_get(mem, u)
  <2>1. P!Select(pg, "profiles", [id |-> u]) = {row \in mem.profiles : row.id = u}
    BY <1>m DEF P!Select, P!Matches
  <2> QED
    BY <2>1, SameSingle DEF P!profiles_get, M!profiles_get
<1>3. ASSUME NEW u, NEW i
      PROVE  P!imports_get(pg, u, i) = M!imports_get(mem, u, i)
  <2>1. P!Select(pg, "imports", [id |-> i, user |-> u]) = {row \in mem.imports : row.id = i /\ row.user = u}
    BY <1>m DEF P!Select, P!Matches
  <2> QED
    BY <2>1, SameSingle DEF P!imports_get, M!imports_get
<1>4. ASSUME NEW i
      PROVE  P!imports_get_unscoped(pg, i) = M!imports_get_unscoped(mem, i)
  <2>1. P!Select(pg, "imports", [id |-> i]) = {row \in mem.imports : row.id = i}
    BY <1>m DEF P!Select, P!Matches
  <2> QED
    BY <2>1, SameSingle DEF P!imports_get_unscoped, M!imports_get_unscoped
<1>5. ASSUME NEW i
      PROVE  P!documents_get_by_import(pg, i) = M!documents_get_by_import(mem, i)
  <2>1. P!Select(pg, "documents", [import |-> i]) = {row \in mem.documents : row.import = i}
    BY <1>m DEF P!Select, P!Matches
  <2> QED
    BY <2>1, SameSingle DEF P!documents_get_by_import, M!documents_get_by_import
<1>6. ASSUME NEW wanted
      PROVE  P!documents_list_by_imports(pg, wanted) = M!documents_list_by_imports(mem, wanted)
  BY <1>m, SameBy DEF P!documents_list_by_imports, M!documents_list_by_imports
<1> QED
  BY <1>1, <1>2, <1>3, <1>4, <1>5, <1>6 DEF IntakeAlike

\* Those about runs, Reports, verdicts, hypotheses, answers and the quota.
LEMMA DirectionSame ==
  ASSUME StoresInv, mem = pg
  PROVE  DirectionAlike
<1>m. mem = pg
  OBVIOUS
<1>1. ASSUME NEW u
      PROVE  P!runs_latest(pg, u) = M!runs_latest(mem, u)
  <2>1. P!Select(pg, "direction_runs", [user |-> u]) = {row \in mem.direction_runs : row.user = u}
    BY <1>m DEF P!Select, P!Matches
  <2> QED
    BY <2>1, SameHighest DEF P!runs_latest, M!runs_latest
<1>2. ASSUME NEW u
      PROVE  P!answers_list_for_user(pg, u) = M!answers_list_for_user(mem, u)
  <2>1. P!Select(pg, "question_answers", [user |-> u]) = {row \in mem.question_answers : row.user = u}
    BY <1>m DEF P!Select, P!Matches
  <2> QED
    BY <2>1, SameBy DEF P!answers_list_for_user, M!answers_list_for_user
<1>3. ASSUME NEW u
      PROVE  P!quotas_get(pg, u) = M!quotas_get(mem, u)
  <2>1. P!Select(pg, "quotas", [id |-> u]) = {row \in mem.quotas : row.id = u}
    BY <1>m DEF P!Select, P!Matches
  <2> QED
    BY <2>1, SameSingle DEF P!quotas_get, M!quotas_get
<1>4. ASSUME NEW u
      PROVE  P!hypotheses_list_for_user(pg, u) = M!hypotheses_list_for_user(mem, u)
  <2>1. P!Select(pg, "direction_hypotheses", [user |-> u]) = {row \in mem.direction_hypotheses : row.user = u}
    BY <1>m DEF P!Select, P!Matches
  <2> QED
    BY <2>1, SameBy DEF P!hypotheses_list_for_user, M!hypotheses_list_for_user
<1>5. ASSUME NEW u
      PROVE  P!hypotheses_latest(pg, u) = M!hypotheses_latest(mem, u)
  <2>1. P!Select(pg, "direction_hypotheses", [user |-> u]) = {row \in mem.direction_hypotheses : row.user = u}
    BY <1>m DEF P!Select, P!Matches
  <2> QED
    BY <2>1, SameHighest DEF P!hypotheses_latest, M!hypotheses_latest
<1>6. ASSUME NEW u, NEW k
      PROVE  P!runs_get(pg, u, k) = M!runs_get(mem, u, k)
  <2>1. P!Select(pg, "direction_runs", [id |-> k, user |-> u]) = {row \in mem.direction_runs : row.id = k /\ row.user = u}
    BY <1>m DEF P!Select, P!Matches
  <2> QED
    BY <2>1, SameSingle DEF P!runs_get, M!runs_get
<1>7. ASSUME NEW u, NEW k
      PROVE  P!verdicts_get(pg, u, k) = M!verdicts_get(mem, u, k)
  <2>1. P!Select(pg, "fit_verdicts", [id |-> k, user |-> u]) = {row \in mem.fit_verdicts : row.id = k /\ row.user = u}
    BY <1>m DEF P!Select, P!Matches
  <2> QED
    BY <2>1, SameSingle DEF P!verdicts_get, M!verdicts_get
<1>8. ASSUME NEW u, NEW k
      PROVE  P!hypotheses_get(pg, u, k) = M!hypotheses_get(mem, u, k)
  <2>1. P!Select(pg, "direction_hypotheses", [id |-> k, user |-> u]) = {row \in mem.direction_hypotheses : row.id = k /\ row.user = u}
    BY <1>m DEF P!Select, P!Matches
  <2> QED
    BY <2>1, SameSingle DEF P!hypotheses_get, M!hypotheses_get
<1>9. ASSUME NEW k
      PROVE  P!runs_get_unscoped(pg, k) = M!runs_get_unscoped(mem, k)
  <2>1. P!Select(pg, "direction_runs", [id |-> k]) = {row \in mem.direction_runs : row.id = k}
    BY <1>m DEF P!Select, P!Matches
  <2> QED
    BY <2>1, SameSingle DEF P!runs_get_unscoped, M!runs_get_unscoped
<1>10. ASSUME NEW k
      PROVE  P!reports_list_for_run(pg, k) = M!reports_list_for_run(mem, k)
  <2>1. P!Select(pg, "reports", [run |-> k]) = {row \in mem.reports : row.run = k}
    BY <1>m DEF P!Select, P!Matches
  <2> QED
    BY <2>1, SameBy DEF P!reports_list_for_run, M!reports_list_for_run
<1>11. ASSUME NEW k
      PROVE  P!verdicts_list_for_run(pg, k) = M!verdicts_list_for_run(mem, k)
  <2>1. P!Select(pg, "fit_verdicts", [run |-> k]) = {row \in mem.fit_verdicts : row.run = k}
    BY <1>m DEF P!Select, P!Matches
  <2> QED
    BY <2>1 DEF P!verdicts_list_for_run, M!verdicts_list_for_run
<1>12. ASSUME NEW k
      PROVE  P!hypotheses_get_unscoped(pg, k) = M!hypotheses_get_unscoped(mem, k)
  <2>1. P!Select(pg, "direction_hypotheses", [id |-> k]) = {row \in mem.direction_hypotheses : row.id = k}
    BY <1>m DEF P!Select, P!Matches
  <2> QED
    BY <2>1, SameSingle DEF P!hypotheses_get_unscoped, M!hypotheses_get_unscoped
<1> QED
  BY <1>1, <1>2, <1>3, <1>4, <1>5, <1>6, <1>7, <1>8, <1>9, <1>10, <1>11, <1>12 DEF DirectionAlike

\* Those about the catalogue.
LEMMA CatalogSame ==
  ASSUME StoresInv, mem = pg
  PROVE  CatalogAlike
<1>m. mem = pg
  OBVIOUS
<1>1. ASSUME NEW k
      PROVE  P!role_models_get(pg, k) = M!role_models_get(mem, k)
  <2>1. P!Select(pg, "role_models", [id |-> k]) = {row \in mem.role_models : row.id = k}
    BY <1>m DEF P!Select, P!Matches
  <2> QED
    BY <2>1, SameSingle DEF P!role_models_get, M!role_models_get
<1>2. ASSUME NEW code
      PROVE  P!role_models_get_by_code(pg, code) = M!role_models_get_by_code(mem, code)
  <2>1. P!Select(pg, "role_models", [code |-> code]) = {row \in mem.role_models : row.code = code}
    BY <1>m DEF P!Select, P!Matches
  <2> QED
    BY <2>1, SameSingle DEF P!role_models_get_by_code, M!role_models_get_by_code
<1>3. P!role_models_list_tags(pg) = M!role_models_list_tags(mem)
  BY <1>m DEF P!role_models_list_tags, M!role_models_list_tags
<1>4. ASSUME NEW author, NEW tags, NEW active_only, NEW limit
      PROVE  P!role_models_list(pg, author, System, tags, active_only, limit)
                = M!role_models_list(mem, author, System, tags, active_only, limit)
  <2> DEFINE wanted == {row \in pg.role_models :
                /\ active_only => row.active
                /\ row.author = System \/ (author # None /\ row.author_user = author)
                /\ tags # {} => row.tags \cap tags # {}}
             active == IF active_only THEN {row \in mem.role_models : row.active} ELSE mem.role_models
             visible == {row \in active : row.author = System \/ (author # None /\ row.author_user = author)}
             tagged == IF tags = {} THEN visible ELSE {row \in visible : tags \cap row.tags # {}}
  <2>1. \A row : row.tags \cap tags # {} <=> tags \cap row.tags # {}
    OBVIOUS
  <2>2. wanted = tagged
    BY <1>m, <2>1
  <2>3. P!role_models_list(pg, author, System, tags, active_only, limit) = P!Limited(P!By(wanted, "code"), limit)
    BY DEF P!role_models_list
  <2>4. M!role_models_list(mem, author, System, tags, active_only, limit) = M!Limited(M!By(tagged, "code"), limit)
    BY DEF M!role_models_list
  <2> HIDE DEF wanted, tagged
  <2> QED
    BY <2>2, <2>3, <2>4, SameBy, SameLimited
<1> QED
  BY <1>1, <1>2, <1>3, <1>4 DEF CatalogAlike

\* Those about the review.
LEMMA ReviewSame ==
  ASSUME StoresInv, mem = pg
  PROVE  ReviewAlike
<1>m. mem = pg
  OBVIOUS
<1>1. ASSUME NEW k
      PROVE  P!reviews_get_unscoped(pg, k) = M!reviews_get_unscoped(mem, k)
  <2>1. P!Select(pg, "reconciliations", [id |-> k]) = {row \in mem.reconciliations : row.id = k}
    BY <1>m DEF P!Select, P!Matches
  <2> QED
    BY <2>1, SameSingle DEF P!reviews_get_unscoped, M!reviews_get_unscoped
<1>2. ASSUME NEW k
      PROVE  P!reviews_list_for_hypothesis(pg, k) = M!reviews_list_for_hypothesis(mem, k)
  <2>1. P!Select(pg, "reconciliations", [hypothesis |-> k]) = {row \in mem.reconciliations : row.hypothesis = k}
    BY <1>m DEF P!Select, P!Matches
  <2> QED
    BY <2>1, SameBy DEF P!reviews_list_for_hypothesis, M!reviews_list_for_hypothesis
<1>3. ASSUME NEW u, NEW k
      PROVE  P!reviews_get(pg, u, k) = M!reviews_get(mem, u, k)
  <2>1. P!Select(pg, "reconciliations", [id |-> k, user |-> u]) = {row \in mem.reconciliations : row.id = k /\ row.user = u}
    BY <1>m DEF P!Select, P!Matches
  <2> QED
    BY <2>1, SameSingle DEF P!reviews_get, M!reviews_get
<1> QED
  BY <1>m, <1>1, <1>2, <1>3 DEF ReviewAlike

\* Of a task and its slot the join makes one row, and the lookup the same one.
LEMMA JoinIs ==
  ASSUME StoresInv, mem = pg
  PROVE  /\ \A k : {row \in P!Join(pg) : row.task.plan = k} = M!listed(mem, k)
         /\ \A k : {row \in P!Join(pg) : row.task.id = k} = M!Rows(mem, {task \in mem.tasks : task.id = k})
         /\ \A row \in P!Join(pg) : row.start_at = row.slot.start_at
<1>t. "schedule_slots" \in DOMAIN Tables /\ {"task"} \in Tables["schedule_slots"].unique
  BY TablesAre DEF TableNames, Tables, schedule_slots
<1>1. ASSUME NEW slot \in pg["schedule_slots"]
      PROVE  M!SlotOf(mem, slot.task) = slot
  <2> DEFINE S == {row \in mem.schedule_slots : row.task = slot.task}
  <2>1. ASSUME NEW other \in S PROVE other = slot
    <3>1. SameKey(other, slot, {"task"}) /\ P!Lawful(pg)
      BY <2>1 DEF SameKey, StoresInv
    <3> QED
      BY <1>t, <2>1, <3>1, KeysAreUnique
  <2>2. slot \in S
    OBVIOUS
  <2> HIDE DEF S
  <2>3. M!Single(S) = slot
    BY <2>1, <2>2, OneOf
  <2> QED
    BY <2>3 DEF M!SlotOf, S
<1>2. \A task \in pg["tasks"] : \E slot \in pg["schedule_slots"] : slot.task = task.id /\ M!SlotOf(mem, task.id) = slot
  BY <1>1 DEF StoresInv, TreesHold
<1>3. \A task, slot : P!Scheduled(task, slot) = Scheduled(task, slot) /\ M!Scheduled(task, slot) = Scheduled(task, slot)
  BY DEF P!Scheduled, M!Scheduled, Scheduled
<1>4. P!Join(pg) = {Scheduled(task, M!SlotOf(mem, task.id)) : task \in pg["tasks"]}
  <2>1. ASSUME NEW row \in P!Join(pg)
        PROVE  row \in {Scheduled(task, M!SlotOf(mem, task.id)) : task \in pg["tasks"]}
    <3>1. PICK task \in pg["tasks"], slot \in pg["schedule_slots"] :
            slot.task = task.id /\ row = P!Scheduled(task, slot)
      BY <2>1 DEF P!Join
    <3> QED
      BY <1>1, <1>3, <3>1
  <2>2. ASSUME NEW task \in pg["tasks"]
        PROVE  Scheduled(task, M!SlotOf(mem, task.id)) \in P!Join(pg)
    <3>1. PICK slot \in pg["schedule_slots"] : slot.task = task.id /\ M!SlotOf(mem, task.id) = slot
      BY <1>2
    <3>2. <<task, slot>> \in {p \in pg.tasks \X pg.schedule_slots : p[2].task = p[1].id}
      BY <3>1
    <3>3. P!Scheduled(<<task, slot>>[1], <<task, slot>>[2]) \in P!Join(pg)
      BY <3>2 DEF P!Join
    <3> QED
      BY <1>3, <3>1, <3>3
  <2> QED
    BY <2>1, <2>2
<1>5. \A task, slot : Scheduled(task, slot).task = task /\ Scheduled(task, slot).slot = slot
                      /\ Scheduled(task, slot).start_at = slot.start_at
  BY DEF Scheduled
<1>6. \A chosen : M!Rows(mem, chosen) = {Scheduled(task, M!SlotOf(mem, task.id)) : task \in chosen}
  BY <1>3 DEF M!Rows
<1>7. ASSUME NEW k
      PROVE  {row \in P!Join(pg) : row.task.plan = k} = M!listed(mem, k)
  BY <1>4, <1>5, <1>6 DEF M!listed
<1>8. ASSUME NEW k
      PROVE  {row \in P!Join(pg) : row.task.id = k} = M!Rows(mem, {task \in mem.tasks : task.id = k})
  BY <1>4, <1>5, <1>6
<1>9. ASSUME NEW row \in P!Join(pg) PROVE row.start_at = row.slot.start_at
  BY <1>4, <1>5
<1> QED
  BY <1>7, <1>8, <1>9

\* Those about the plan, its tree, its schedule, its check-ins and its exports.
LEMMA PlanningSame ==
  ASSUME StoresInv, mem = pg
  PROVE  PlanningAlike
<1>m. mem = pg
  OBVIOUS
<1>1. ASSUME NEW u, NEW k
      PROVE  P!plans_get(pg, u, k) = M!plans_get(mem, u, k)
  <2>1. P!Select(pg, "plans", [id |-> k, user |-> u]) = {row \in mem.plans : row.id = k /\ row.user = u}
    BY <1>m DEF P!Select, P!Matches
  <2> QED
    BY <2>1, SameSingle DEF P!plans_get, M!plans_get
<1>2. ASSUME NEW user, NEW status
      PROVE  P!plans_list_for_user(pg, user, status) = M!plans_list_for_user(mem, user, status)
  <2> DEFINE wanted == {row \in pg.plans : row.user = user /\ (status # None => row.status = status)}
             ours == {row \in mem.plans : row.user = user}
             chosen == IF status = None THEN ours ELSE {row \in ours : row.status = status}
  <2>1. wanted = chosen
    BY <1>m
  <2>2. P!plans_list_for_user(pg, user, status) = P!Newest(wanted)
    BY DEF P!plans_list_for_user
  <2>3. M!plans_list_for_user(mem, user, status) = M!Newest(chosen)
    BY DEF M!plans_list_for_user
  <2> HIDE DEF wanted, chosen
  <2> QED
    BY <2>1, <2>2, <2>3, SameNewest
<1>3. ASSUME NEW h
      PROVE  P!plans_get_by_hypothesis(pg, h) = M!plans_get_by_hypothesis(mem, h)
  <2>1. P!Select(pg, "plans", [hypothesis |-> h]) = {row \in mem.plans : row.hypothesis = h}
    BY <1>m DEF P!Select, P!Matches
  <2> QED
    BY <2>1, SameSingle DEF P!plans_get_by_hypothesis, M!plans_get_by_hypothesis
<1>4. ASSUME NEW k
      PROVE  P!plans_get_unscoped(pg, k) = M!plans_get_unscoped(mem, k)
  <2>1. P!Select(pg, "plans", [id |-> k]) = {row \in mem.plans : row.id = k}
    BY <1>m DEF P!Select, P!Matches
  <2> QED
    BY <2>1, SameSingle DEF P!plans_get_unscoped, M!plans_get_unscoped
<1>5. ASSUME NEW k
      PROVE  P!tree_list_milestones(pg, k) = M!tree_list_milestones(mem, k)
  <2>1. P!Select(pg, "milestones", [plan |-> k]) = {row \in mem.milestones : row.plan = k}
    BY <1>m DEF P!Select, P!Matches
  <2> QED
    BY <2>1, SameDepths DEF P!tree_list_milestones, M!tree_list_milestones
<1>6. ASSUME NEW k, NEW from, NEW to
      PROVE  P!tree_list_scheduled(pg, k, from, to) = M!tree_list_scheduled(mem, k, from, to)
  <2> DEFINE wanted == {row \in P!Join(pg) :
                /\ row.task.plan = k
                /\ from # None => row.start_at >= from
                /\ to # None => row.start_at < to}
             since == IF from = None THEN M!listed(mem, k) ELSE {row \in M!listed(mem, k) : row.slot.start_at >= from}
             until == IF to = None THEN since ELSE {row \in since : row.slot.start_at < to}
  <2>1. wanted = until
    BY <1>m, JoinIs
  <2>2. P!tree_list_scheduled(pg, k, from, to) = P!InSchedule(wanted)
    BY DEF P!tree_list_scheduled
  <2>3. M!tree_list_scheduled(mem, k, from, to) = M!InSchedule(until)
    BY DEF M!tree_list_scheduled
  <2> HIDE DEF wanted, until
  <2> QED
    BY <2>1, <2>2, <2>3, SameSchedule
<1>7. ASSUME NEW k
      PROVE  P!tree_list_dirty(pg, k) = M!tree_list_dirty(mem, k)
  <2> DEFINE wanted == {row \in P!Join(pg) : row.task.plan = k /\ P!dirty_clause(row.task, row.slot)}
             chosen == {row \in M!listed(mem, k) : M!is_dirty(row)}
  <2>1. \A row : P!dirty_clause(row.task, row.slot) <=> M!is_dirty(row)
    BY DEF P!dirty_clause, M!is_dirty
  <2>2. wanted = chosen
    BY <1>m, <2>1, JoinIs
  <2>3. P!tree_list_dirty(pg, k) = P!InSchedule(wanted) /\ M!tree_list_dirty(mem, k) = M!InSchedule(chosen)
    BY DEF P!tree_list_dirty, M!tree_list_dirty
  <2> HIDE DEF wanted, chosen
  <2> QED
    BY <2>2, <2>3, SameSchedule
<1>8. ASSUME NEW k, NEW statuses
      PROVE  P!tree_counts_by_status(pg, k, statuses) = M!tree_counts_by_status(mem, k, statuses)
  <2>1. ASSUME NEW s
        PROVE  P!Cardinality(P!Select(pg, "tasks", [plan |-> k, status |-> s]))
                 = M!Cardinality({row \in mem.tasks : row.plan = k /\ row.status = s})
    <3>1. P!Select(pg, "tasks", [plan |-> k, status |-> s]) = {row \in mem.tasks : row.plan = k /\ row.status = s}
      BY <1>m DEF P!Select, P!Matches
    <3> QED
      BY <3>1, SameCount
  <2> QED
    BY <2>1 DEF P!tree_counts_by_status, M!tree_counts_by_status
<1>9. ASSUME NEW k
      PROVE  P!checkins_list_for_plan(pg, k) = M!checkins_list_for_plan(mem, k)
  <2>1. P!Select(pg, "checkins", [plan |-> k]) = {row \in mem.checkins : row.plan = k}
    BY <1>m DEF P!Select, P!Matches
  <2> QED
    BY <2>1, SameBy DEF P!checkins_list_for_plan, M!checkins_list_for_plan
<1>10. ASSUME NEW k
      PROVE  P!exports_list_for_plan(pg, k) = M!exports_list_for_plan(mem, k)
  <2>1. P!Select(pg, "plan_exports", [plan |-> k]) = {row \in mem.plan_exports : row.plan = k}
    BY <1>m DEF P!Select, P!Matches
  <2> QED
    BY <2>1, SameBy DEF P!exports_list_for_plan, M!exports_list_for_plan
<1>11. ASSUME NEW k
      PROVE  P!tree_find_task(pg, k) = M!tree_find_task(mem, k)
  <2>1. {row \in P!Join(pg) : row.task.id = k} = M!Rows(mem, {row \in mem.tasks : row.id = k})
    BY <1>m, JoinIs
  <2> QED
    BY <2>1, SameSingle DEF P!tree_find_task, M!tree_find_task
<1>12. ASSUME NEW k, NEW task
      PROVE  P!tree_get_task(pg, k, task) = M!tree_get_task(mem, k, task)
  <2>1. P!Select(pg, "tasks", [id |-> task, plan |-> k]) = {row \in mem.tasks : row.id = task /\ row.plan = k}
    BY <1>m DEF P!Select, P!Matches
  <2> QED
    BY <2>1, SameSingle DEF P!tree_get_task, M!tree_get_task
<1>13. ASSUME NEW k, NEW target
      PROVE  P!exports_get(pg, k, target) = M!exports_get(mem, k, target)
  <2>1. P!Select(pg, "plan_exports", [plan |-> k, target |-> target]) = {row \in mem.plan_exports : row.plan = k /\ row.target = target}
    BY <1>m DEF P!Select, P!Matches
  <2> QED
    BY <2>1, SameSingle DEF P!exports_get, M!exports_get
<1> QED
  BY <1>1, <1>2, <1>3, <1>4, <1>5, <1>6, <1>7, <1>8, <1>9, <1>10, <1>11, <1>12, <1>13 DEF PlanningAlike

\* Until PostgreSQL refuses a call, both stores answer every question alike: the
\* tests of the use cases, which run on the memory repositories (tests/), speak
\* for the program, which runs on PostgreSQL.
THEOREM AnswersAlike == Spec => []SameAnswers
<1>1. StoresInv => SameAnswers
  <2> SUFFICES ASSUME StoresInv, ~apart PROVE SameAnswers
    BY DEF SameAnswers
  <2>1. mem = pg
    BY DEF StoresInv
  <2>2. /\ IdentityAlike /\ IntakeAlike /\ DirectionAlike /\ CatalogAlike /\ PlanningAlike /\ ReviewAlike
    BY <2>1, IdentitySame, IntakeSame, DirectionSame, CatalogSame, PlanningSame, ReviewSame
  <2>3. part \in {"identity", "intake", "direction", "catalog", "planning", "review"}
    BY StoresAssumption DEF StoresInv, TypeOK
  <2> QED
    BY <2>2, <2>3 DEF SameAnswers
<1> QED
  BY <1>1, StoresInvariant, PTL

-----------------------------------------------------------------------------
(* Rows in an order: what a query with an ORDER BY returns. *)

\* An order of S, as a set of pairs.
Orders(R, S) ==
    /\ \A x \in S : <<x, x>> \notin R
    /\ \A x, y, z \in S : <<x, y>> \in R /\ <<y, z>> \in R => <<x, z>> \in R
    /\ \A x, y \in S : x = y \/ <<x, y>> \in R \/ <<y, x>> \in R
\* S in that order: each behind those that come before it.
Ranked(S, R) ==
    [n \in 1 .. Cardinality(S) |-> CHOOSE x \in S : Cardinality({y \in S : <<y, x>> \in R}) = n - 1]
\* A list of all S, in that order, each at the place that says how many come before.
Lists(s, S, R) ==
    /\ DOMAIN s = 1 .. Cardinality(S)
    /\ Cardinality(S) \in Nat
    /\ ToSet(s) = S
    /\ \A i, j \in DOMAIN s : i < j <=> <<s[i], s[j]>> \in R
    /\ \A i \in DOMAIN s : Cardinality({y \in S : <<y, s[i]>> \in R}) = i - 1

\* Behind how many one stands says where it stands.
LEMMA StandsBehind ==
  ASSUME NEW S, NEW R, IsFiniteSet(S), Orders(R, S)
  PROVE  LET before(x) == {y \in S : <<y, x>> \in R}
         IN /\ \A x \in S : Cardinality(before(x)) \in 0 .. Cardinality(S) - 1
            /\ \A x, y \in S : <<x, y>> \in R => Cardinality(before(x)) < Cardinality(before(y))
            /\ \A x, y \in S : Cardinality(before(x)) = Cardinality(before(y)) => x = y
<1> DEFINE before(x) == {y \in S : <<y, x>> \in R}
           r == [x \in S |-> Cardinality(before(x))]
           N == Cardinality(S)
<1>1. N \in Nat
  BY FS_CardinalityType
<1>2. ASSUME NEW x \in S
      PROVE  IsFiniteSet(before(x)) /\ r[x] \in 0 .. N - 1
  <2>1. before(x) \in SUBSET S /\ x \notin before(x)
    BY DEF Orders
  <2>2. IsFiniteSet(before(x)) /\ Cardinality(before(x)) <= N /\ Cardinality(before(x)) # N
    BY <2>1, FS_Subset
  <2>3. Cardinality(before(x)) \in Nat
    BY <2>2, FS_CardinalityType
  <2> QED
    BY <1>1, <2>2, <2>3
<1>3. ASSUME NEW x \in S, NEW y \in S, <<x, y>> \in R
      PROVE  r[x] < r[y]
  <2>1. before(x) \in SUBSET before(y) /\ x \in before(y) /\ x \notin before(x)
    BY <1>3 DEF Orders
  <2>2. Cardinality(before(x)) <= Cardinality(before(y)) /\ Cardinality(before(x)) # Cardinality(before(y))
    BY <1>2, <2>1, FS_Subset
  <2>3. r[x] \in Nat /\ r[y] \in Nat
    BY <1>1, <1>2
  <2> QED
    BY <2>2, <2>3
<1>a. /\ \A x \in S : r[x] \in Nat /\ r[x] + 1 \in 1 .. N
      /\ \A x, y \in S : <<x, y>> \in R => r[x] < r[y]
  <2>1. ASSUME NEW k \in 0 .. N - 1
        PROVE  k \in Nat /\ k + 1 \in 1 .. N
    BY <1>1
  <2> HIDE DEF r, N
  <2> QED
    BY <2>1, <1>2, <1>3
<1>4. ASSUME NEW x \in S, NEW y \in S, r[x] = r[y]
      PROVE  x = y
  <2> HIDE DEF r
  <2>1. x = y \/ <<x, y>> \in R \/ <<y, x>> \in R
    BY DEF Orders
  <2>2. <<x, y>> \in R => r[x] < r[y]
    BY <1>a
  <2>3. <<y, x>> \in R => r[y] < r[x]
    BY <1>a
  <2>4. r[x] \in Nat
    BY <1>a
  <2>5. ~ (r[x] < r[y]) /\ ~ (r[y] < r[x])
    BY <1>4, <2>4
  <2> QED
    BY <2>1, <2>2, <2>3, <2>5
<1> QED
  BY <1>2, <1>3, <1>4

\* To stand behind those that come before is to list them all, in order.
LEMMA RankedLists ==
  ASSUME NEW S, NEW R, IsFiniteSet(S), Orders(R, S)
  PROVE  Lists(Ranked(S, R), S, R)
<1> DEFINE before(x) == {y \in S : <<y, x>> \in R}
           r == [x \in S |-> Cardinality(before(x))]
           N == Cardinality(S)
           s == Ranked(S, R)
<1>1. N \in Nat
  BY FS_CardinalityType
<1>2. \A x \in S : r[x] \in 0 .. N - 1
  BY StandsBehind
<1>3. ASSUME NEW x \in S, NEW y \in S, <<x, y>> \in R
      PROVE  r[x] < r[y]
  BY <1>3, StandsBehind
<1>4. ASSUME NEW x \in S, NEW y \in S, r[x] = r[y]
      PROVE  x = y
  BY <1>4, StandsBehind
<1>a. \A x \in S : r[x] \in Nat /\ r[x] + 1 \in 1 .. N
  <2> HIDE DEF r
  <2> QED
    BY <1>1, <1>2
<1>5. ASSUME NEW k \in 0 .. N - 1
      PROVE  \E x \in S : r[x] = k
  <2>1. r \in Injection(S, 0 .. N - 1)
    <3>1. r \in [S -> 0 .. N - 1]
      BY <1>2
    <3>2. \A x, y \in S : r[x] = r[y] => x = y
      BY <1>4
    <3> HIDE DEF r
    <3> QED
      BY <3>1, <3>2 DEF Injection, IsInjective
  <2>2. IsFiniteSet(0 .. N - 1) /\ Cardinality(0 .. N - 1) = N
    BY <1>1, FS_Interval
  <2>3. r \in Surjection(S, 0 .. N - 1)
    <3> HIDE DEF r
    <3> QED
      BY <2>1, <2>2, FS_Injection
  <2> QED
    <3> HIDE DEF r
    <3> QED
      BY <2>3 DEF Surjection
<1>6. DOMAIN s = 1 .. N
  BY DEF Ranked
<1>7. ASSUME NEW n \in 1 .. N
      PROVE  s[n] \in S /\ r[s[n]] = n - 1
  <2>1. n - 1 \in 0 .. N - 1
    BY <1>1
  <2>2. \E x \in S : Cardinality(before(x)) = n - 1
    BY <1>5, <2>1
  <2>3. s[n] = CHOOSE x \in S : Cardinality(before(x)) = n - 1
    BY DEF Ranked
  <2>4. s[n] \in S /\ Cardinality(before(s[n])) = n - 1
    BY <2>2, <2>3
  <2> QED
    BY <2>4
<1> HIDE DEF r, s
<1>8. ToSet(s) = S
  <2>1. ASSUME NEW x \in S
        PROVE  x \in ToSet(s)
    <3>1. r[x] + 1 \in 1 .. N /\ r[x] \in Nat
      BY <1>a
    <3>2. s[r[x] + 1] = x
      BY <3>1, <1>4, <1>7
    <3> QED
      BY <1>6, <3>1, <3>2 DEF ToSet
  <2> QED
    BY <1>6, <1>7, <2>1 DEF ToSet
<1>9. ASSUME NEW i \in 1 .. N, NEW j \in 1 .. N
      PROVE  i < j <=> <<s[i], s[j]>> \in R
  <2>1. s[i] \in S /\ s[j] \in S /\ r[s[i]] = i - 1 /\ r[s[j]] = j - 1
    BY <1>7
  <2>2. <<s[i], s[j]>> \in R => i < j
    BY <1>1, <1>3, <2>1
  <2>3. <<s[j], s[i]>> \in R => j < i
    BY <1>1, <1>3, <2>1
  <2>4. s[i] = s[j] => i = j
    BY <1>1, <2>1
  <2> QED
    BY <1>1, <2>1, <2>2, <2>3, <2>4 DEF Orders
<1>b. \A i \in 1 .. N : Cardinality({y \in S : <<y, s[i]>> \in R}) = i - 1
  <2>1. \A x \in S : r[x] = Cardinality({y \in S : <<y, x>> \in R})
    BY DEF r
  <2> QED
    BY <1>7, <2>1
<1> QED
  BY <1>1, <1>6, <1>8, <1>9, <1>b DEF Lists, s

\* Rows with a primary key.
Keyed(rows) ==
    /\ IsFiniteSet(rows)
    /\ \A row \in rows : row.id \in Nat
    /\ \A a, b \in rows : a.id = b.id => a = b

\* The orders of the queries: by a column, by two, the newest first; and of places.
ByPairs(rows, c) == {p \in rows \X rows : p[1][c] < p[2][c] \/ (p[1][c] = p[2][c] /\ p[1].id < p[2].id)}
ByBothPairs(rows, c, d) ==
    {p \in rows \X rows :
        \/ p[1][c] < p[2][c]
        \/ p[1][c] = p[2][c] /\ (p[1][d] < p[2][d] \/ (p[1][d] = p[2][d] /\ p[1].id < p[2].id))}
NewestPairs(rows) == {p \in rows \X rows : p[1].id > p[2].id}
Upward(I) == {p \in I \X I : p[1] < p[2]}

\* The views count as the schema does.
LEMMA VCount ==
  \A S : V!Cardinality(S) = Cardinality(S)
BY DEF V!Cardinality, Cardinality

\* ORDER BY a column, then by creation.
LEMMA ByLists ==
  ASSUME NEW rows, NEW c, Keyed(rows), \A row \in rows : row[c] \in Nat
  PROVE  Lists(V!By(rows, c), rows, ByPairs(rows, c))
<1>1. V!By(rows, c) = Ranked(rows, ByPairs(rows, c))
  <2> DEFINE b(x) == {y \in rows : y[c] < x[c] \/ (y[c] = x[c] /\ y.id < x.id)}
             d(x) == {y \in rows : <<y, x>> \in ByPairs(rows, c)}
  <2>1. V!By(rows, c) = [n \in 1 .. V!Cardinality(rows) |-> CHOOSE x \in rows : V!Cardinality(b(x)) = n - 1]
    BY DEF V!By, V!InOrder
  <2>2. \A x \in rows : b(x) = d(x)
    BY DEF ByPairs
  <2>3. Ranked(rows, ByPairs(rows, c)) = [n \in 1 .. Cardinality(rows) |-> CHOOSE x \in rows : Cardinality(d(x)) = n - 1]
    BY DEF Ranked
  <2> HIDE DEF b, d
  <2>4. \A x \in rows : V!Cardinality(b(x)) = Cardinality(d(x))
    BY <2>2, VCount
  <2>5. \A n : (CHOOSE x \in rows : V!Cardinality(b(x)) = n - 1) = (CHOOSE x \in rows : Cardinality(d(x)) = n - 1)
    BY <2>4
  <2> QED
    BY <2>1, <2>3, <2>5, VCount
<1>2. Orders(ByPairs(rows, c), rows)
  BY DEF Orders, ByPairs, Keyed
<1> QED
  BY <1>1, <1>2, RankedLists DEF Keyed

\* ORDER BY two columns, then by creation.
LEMMA ByBothLists ==
  ASSUME NEW rows, NEW c, NEW d, Keyed(rows), \A row \in rows : row[c] \in Nat /\ row[d] \in Nat
  PROVE  Lists(V!ByBoth(rows, c, d), rows, ByBothPairs(rows, c, d))
<1>1. V!ByBoth(rows, c, d) = Ranked(rows, ByBothPairs(rows, c, d))
  <2> DEFINE b(x) == {y \in rows : y[c] < x[c] \/ (y[c] = x[c] /\ (y[d] < x[d] \/ (y[d] = x[d] /\ y.id < x.id)))}
             e(x) == {y \in rows : <<y, x>> \in ByBothPairs(rows, c, d)}
  <2>1. V!ByBoth(rows, c, d) = [n \in 1 .. V!Cardinality(rows) |-> CHOOSE x \in rows : V!Cardinality(b(x)) = n - 1]
    BY DEF V!ByBoth, V!InOrder
  <2>2. \A x \in rows : b(x) = e(x)
    BY DEF ByBothPairs
  <2>3. Ranked(rows, ByBothPairs(rows, c, d)) = [n \in 1 .. Cardinality(rows) |-> CHOOSE x \in rows : Cardinality(e(x)) = n - 1]
    BY DEF Ranked
  <2> HIDE DEF b, e
  <2>4. \A x \in rows : V!Cardinality(b(x)) = Cardinality(e(x))
    BY <2>2, VCount
  <2>5. \A n : (CHOOSE x \in rows : V!Cardinality(b(x)) = n - 1) = (CHOOSE x \in rows : Cardinality(e(x)) = n - 1)
    BY <2>4
  <2> QED
    BY <2>1, <2>3, <2>5, VCount
<1>2. Orders(ByBothPairs(rows, c, d), rows)
  BY DEF Orders, ByBothPairs, Keyed
<1> QED
  BY <1>1, <1>2, RankedLists DEF Keyed

\* The newest first.
LEMMA NewestLists ==
  ASSUME NEW rows, Keyed(rows)
  PROVE  Lists(V!Newest(rows), rows, NewestPairs(rows))
<1>1. V!Newest(rows) = Ranked(rows, NewestPairs(rows))
  <2> DEFINE b(x) == {y \in rows : y.id > x.id}
             d(x) == {y \in rows : <<y, x>> \in NewestPairs(rows)}
  <2>1. V!Newest(rows) = [n \in 1 .. V!Cardinality(rows) |-> CHOOSE x \in rows : V!Cardinality(b(x)) = n - 1]
    BY DEF V!Newest, V!InOrder
  <2>2. \A x \in rows : b(x) = d(x)
    BY DEF NewestPairs
  <2>3. Ranked(rows, NewestPairs(rows)) = [n \in 1 .. Cardinality(rows) |-> CHOOSE x \in rows : Cardinality(d(x)) = n - 1]
    BY DEF Ranked
  <2> HIDE DEF b, d
  <2>4. \A x \in rows : V!Cardinality(b(x)) = Cardinality(d(x))
    BY <2>2, VCount
  <2>5. \A n : (CHOOSE x \in rows : V!Cardinality(b(x)) = n - 1) = (CHOOSE x \in rows : Cardinality(d(x)) = n - 1)
    BY <2>4
  <2> QED
    BY <2>1, <2>3, <2>5, VCount
<1>2. Orders(NewestPairs(rows), rows)
  BY DEF Orders, NewestPairs, Keyed
<1> QED
  BY <1>1, <1>2, RankedLists DEF Keyed

\* Some places of a sequence, from the first on.
LEMMA UpwardLists ==
  ASSUME NEW I, I \subseteq Nat, IsFiniteSet(I)
  PROVE  Lists(V!InOrder(I, LAMBDA i, j : i < j), I, Upward(I))
<1>1. V!InOrder(I, LAMBDA i, j : i < j) = Ranked(I, Upward(I))
  <2> DEFINE b(x) == {y \in I : y < x}
             d(x) == {y \in I : <<y, x>> \in Upward(I)}
  <2>1. V!InOrder(I, LAMBDA i, j : i < j) = [n \in 1 .. V!Cardinality(I) |-> CHOOSE x \in I : V!Cardinality(b(x)) = n - 1]
    BY DEF V!InOrder
  <2>2. \A x \in I : b(x) = d(x)
    BY DEF Upward
  <2>3. Ranked(I, Upward(I)) = [n \in 1 .. Cardinality(I) |-> CHOOSE x \in I : Cardinality(d(x)) = n - 1]
    BY DEF Ranked
  <2> HIDE DEF b, d
  <2>4. \A x \in I : V!Cardinality(b(x)) = Cardinality(d(x))
    BY <2>2, VCount
  <2>5. \A n : (CHOOSE x \in I : V!Cardinality(b(x)) = n - 1) = (CHOOSE x \in I : Cardinality(d(x)) = n - 1)
    BY <2>4
  <2> QED
    BY <2>1, <2>3, <2>5, VCount
<1>2. Orders(Upward(I), I)
  BY DEF Orders, Upward
<1> QED
  BY <1>1, <1>2, RankedLists

-----------------------------------------------------------------------------
(* What a client is shown: uploads and versions, *)

\* The view's rows, its one row, and what it lists, are those of the schema.
LEMMA ViewsRead ==
  /\ \A db, t, where : V!Select(db, t, where) = {row \in db[t] : \A c \in DOMAIN where : row[c] = where[c]}
  /\ \A db, t, where : P!Select(db, t, where) = {row \in db[t] : \A c \in DOMAIN where : row[c] = where[c]}
  /\ \A rows : V!Single(rows) = Single(rows) /\ P!Single(rows) = Single(rows)
  /\ \A s : V!ToSet(s) = ToSet(s)
  BY DEF V!Select, V!Matches, P!Select, P!Matches, V!Single, P!Single, Single, V!ToSet, ToSet

\* The rows of a database are finitely many, and their ids differ.
LEMMA RowsAreKeyed ==
  ASSUME NEW db, IsDatabase(db), P!Lawful(db), NEW t \in DOMAIN Tables, NEW rows \in SUBSET db[t]
  PROVE  Keyed(rows)
<1>1. \A row \in rows : row.id \in Nat /\ row.id \in 0 .. MaxId
  <2>1. ASSUME NEW row \in rows
        PROVE  row.id \in Nat /\ row.id \in Ids
    BY IdsOfRows DEF IsDatabase
  <2> QED
    BY <2>1 DEF Ids
<1>2. ASSUME NEW a \in rows, NEW b \in rows, a.id = b.id
      PROVE  a = b
  <2>1. SameKey(a, b, {"id"})
    BY <1>2 DEF SameKey
  <2> QED
    BY <2>1, KeysAreUnique
<1>3. IsFiniteSet(rows)
  <2> DEFINE f == [row \in rows |-> row.id]
  <2>1. f \in [rows -> 0 .. MaxId] /\ \A a, b \in rows : f[a] = f[b] => a = b
    BY <1>1, <1>2
  <2>2. IsFiniteSet(0 .. MaxId)
    BY SchemaAssumption, FS_Interval
  <2> HIDE DEF f
  <2>3. f \in Injection(rows, 0 .. MaxId)
    BY <2>1 DEF Injection, IsInjective
  <2> QED
    BY <2>2, <2>3, FS_Injection
<1> QED
  BY <1>1, <1>2, <1>3 DEF Keyed

\* The columns of a row, and what each may hold.
LEMMA RowColumns ==
  ASSUME NEW db, IsDatabase(db), NEW t \in DOMAIN Tables, NEW row \in db[t]
  PROVE  DOMAIN row = DOMAIN Columns[t] /\ \A c \in DOMAIN Columns[t] : row[c] \in Columns[t][c]
<1>1. IsRow(row, t)
  BY DEF IsDatabase
<1> QED
  BY <1>1 DEF IsRow

\* What a client is shown of its uploads.
LEMMA UploadsShown ==
  ASSUME IsDatabase(pg), P!Lawful(pg)
  PROVE  ImportsShown
<1>t. {"imports", "documents"} \subseteq DOMAIN Tables
  BY TablesAre DEF TableNames
<1>1. ASSUME NEW user \in Owners
      PROVE  LET shown == V!ListImports(pg, user)
             IN /\ {view.id : view \in ToSet(shown)} = {row.id : row \in {i \in pg.imports : i.user = user}}
                /\ \A i, j \in DOMAIN shown : i < j => shown[i].id > shown[j].id
                /\ \A view \in ToSet(shown) : view.counts =
                     IF P!documents_get_by_import(pg, view.id) = None THEN None
                     ELSE P!documents_get_by_import(pg, view.id).data
  <2> DEFINE rows == {i \in pg.imports : i.user = user}
             records == V!imports_list_for_user(pg, user)
             written == V!documents_list_by_imports(pg, {row.id : row \in V!ToSet(records)})
             document(record) == V!Single({d \in V!ToSet(written) : d.import = record.id})
             counts(record) == IF document(record) = None THEN None ELSE document(record).data
             shown == V!ListImports(pg, user)
  <2>1. shown = [i \in DOMAIN records |-> V!Wider(records[i], [counts |-> counts(records[i])])]
    BY DEF V!ListImports, V!Each, V!to_view
  <2>2. V!Select(pg, "imports", [user |-> user]) = rows
    BY ViewsRead
  <2>3. records = V!Newest(rows)
    BY <2>2 DEF V!imports_list_for_user
  <2>4. Keyed(rows)
    BY <1>t, RowsAreKeyed
  <2>5. Lists(records, rows, NewestPairs(rows))
    BY <2>3, <2>4, NewestLists
  <2>6. V!ToSet(records) = rows
    BY <2>5, ViewsRead DEF Lists
  <2>7. \A row \in rows : "id" \in DOMAIN row /\ "counts" \notin DOMAIN row
    <3>1. \A row \in rows : DOMAIN row = DOMAIN Columns["imports"]
      BY <1>t, RowColumns
    <3> QED
      BY <3>1 DEF Columns, Import
  <2> DEFINE wanted == {row.id : row \in V!ToSet(records)}
             found == {row \in pg.documents : row.import \in wanted}
  <2>8. V!ToSet(written) = found
    <3>1. Keyed(found)
      BY <1>t, RowsAreKeyed
    <3>2. \A row \in found : row["id"] \in Nat
      BY <3>1 DEF Keyed
    <3> HIDE DEF found
    <3>3. Lists(V!By(found, "id"), found, ByPairs(found, "id"))
      BY <3>1, <3>2, ByLists
    <3>4. written = V!By(found, "id")
      BY DEF V!documents_list_by_imports, found
    <3> QED
      BY <3>3, <3>4, ViewsRead DEF Lists
  <2>9. ASSUME NEW record \in rows
        PROVE  document(record) = P!documents_get_by_import(pg, record.id)
    <3>1. {d \in V!ToSet(written) : d.import = record.id} = {d \in pg.documents : d.import = record.id}
      BY <2>6, <2>8
    <3>2. P!Select(pg, "documents", [import |-> record.id]) = {d \in pg.documents : d.import = record.id}
      BY ViewsRead
    <3> QED
      BY <3>1, <3>2, ViewsRead DEF P!documents_get_by_import
  <2> HIDE DEF document, shown, records, rows
  <2>a. ASSUME NEW i \in DOMAIN records
        PROVE  /\ records[i] \in rows
               /\ shown[i].id = records[i].id
               /\ shown[i].counts = counts(records[i])
    <3>1. records[i] \in rows
      BY <2>6, ViewsRead DEF ToSet
    <3>2. shown[i] = V!Wider(records[i], [counts |-> counts(records[i])])
      BY <2>1
    <3>3. "id" \in DOMAIN records[i] /\ "counts" \notin DOMAIN records[i]
      BY <2>7, <3>1
    <3> HIDE DEF counts
    <3> DEFINE more == [counts |-> counts(records[i])]
    <3>4. DOMAIN more = {"counts"} /\ more["counts"] = counts(records[i])
      OBVIOUS
    <3>5. shown[i] = V!Wider(records[i], more)
      BY <3>2
    <3> HIDE DEF more
    <3>6. /\ V!Wider(records[i], more)["id"] = records[i]["id"]
          /\ V!Wider(records[i], more)["counts"] = more["counts"]
      BY <3>3, <3>4 DEF V!Wider
    <3> QED
      BY <3>1, <3>4, <3>5, <3>6
  <2>b. DOMAIN shown = DOMAIN records
    BY <2>1
  <2>c. ToSet(shown) = {shown[i] : i \in DOMAIN records} /\ ToSet(records) = {records[i] : i \in DOMAIN records}
        /\ ToSet(records) = rows
    BY <2>b, <2>6, ViewsRead DEF ToSet
  <2>d. {view.id : view \in ToSet(shown)} = {row.id : row \in rows}
    BY <2>a, <2>c
  <2>e. ASSUME NEW i \in DOMAIN shown, NEW j \in DOMAIN shown, i < j
        PROVE  shown[i].id > shown[j].id
    <3>1. <<records[i], records[j]>> \in NewestPairs(rows)
      BY <2>5, <2>b, <2>e DEF Lists
    <3>2. records[i].id > records[j].id
      BY <3>1 DEF NewestPairs
    <3> QED
      BY <2>a, <2>b, <3>2
  <2>f. ASSUME NEW view \in ToSet(shown)
        PROVE  view.counts = IF P!documents_get_by_import(pg, view.id) = None THEN None
                             ELSE P!documents_get_by_import(pg, view.id).data
    <3>1. PICK i \in DOMAIN records : view = shown[i]
      BY <2>c
    <3>2. document(records[i]) = P!documents_get_by_import(pg, view.id)
      BY <2>9, <2>a, <3>1
    <3> QED
      BY <2>a, <3>1, <3>2
  <2> QED
    BY <2>d, <2>e, <2>f DEF shown, rows
<1> QED
  BY <1>1 DEF ImportsShown

\* NULL is not what a query finds.
LEMMA NullIsNoRow ==
  ASSUME NEW db, IsDatabase(db), NEW t \in DOMAIN Tables, NEW row \in db[t]
  PROVE  row # None
<1> DEFINE values == UNION {Columns[t][c] : c \in DOMAIN Columns[t]}
<1>1. IsRow(row, t) /\ t \in DOMAIN Columns
  BY TablesAre DEF IsDatabase
<1>2. row = [c \in DOMAIN Columns[t] |-> row[c]] /\ \A c \in DOMAIN Columns[t] : row[c] \in values
  BY <1>1 DEF IsRow
<1>3. row \in [DOMAIN Columns[t] -> values]
  <2> HIDE DEF values
  <2> QED
    BY <1>2
<1> QED
  BY <1>1, <1>3, NullAssumption

\* The one row with this id, and of no other owner.
LEMMA FoundById ==
  ASSUME NEW db, IsDatabase(db), P!Lawful(db), NEW t \in DOMAIN Tables, NEW row \in db[t]
  PROVE  /\ V!Single(V!Select(db, t, [id |-> row.id])) = row
         /\ \A user : V!Single(V!Select(db, t, [id |-> row.id, user |-> user])) =
                        IF user = row.user THEN row ELSE None
<1>1. \A other \in db[t] : other.id = row.id => other = row
  <2> DEFINE rows == db[t]
  <2>1. Keyed(rows)
    BY RowsAreKeyed
  <2> QED
    BY <2>1 DEF Keyed
<1>2. V!Select(db, t, [id |-> row.id]) = {row}
  <2>1. V!Select(db, t, [id |-> row.id]) = {other \in db[t] : other.id = row.id}
    BY ViewsRead
  <2> QED
    BY <1>1, <2>1
<1>3. ASSUME NEW user
      PROVE  V!Select(db, t, [id |-> row.id, user |-> user]) = IF user = row.user THEN {row} ELSE {}
  <2>1. V!Select(db, t, [id |-> row.id, user |-> user]) = {other \in db[t] : other.id = row.id /\ other.user = user}
    BY ViewsRead
  <2> QED
    BY <1>1, <2>1
<1>4. Single({}) = None /\ Single({row}) = row
  BY DEF Single
<1>5. V!Single(V!Select(db, t, [id |-> row.id])) = row
  BY <1>2, <1>4, ViewsRead
<1>6. ASSUME NEW user
      PROVE  V!Single(V!Select(db, t, [id |-> row.id, user |-> user])) = IF user = row.user THEN row ELSE None
  <2>1. V!Single(V!Select(db, t, [id |-> row.id, user |-> user])) = Single(IF user = row.user THEN {row} ELSE {})
    BY <1>3, ViewsRead
  <2> QED
    BY <1>4, <2>1
<1> QED
  BY <1>5, <1>6

\* As many stand before a version as its number says.
LEMMA VersionsCount ==
  ASSUME StoresInv, NEW user \in Ids,
         NEW rows, rows = {h \in pg.direction_hypotheses : h.user = user}, NEW x \in rows
  PROVE  Cardinality({y \in rows : <<y, x>> \in ByPairs(rows, "version")}) = x.version
<1>t. "direction_hypotheses" \in DOMAIN Tables /\ {"user", "version"} \in Tables["direction_hypotheses"].unique
  BY TablesAre DEF TableNames, Tables, direction_hypotheses
<1>p. IsDatabase(pg) /\ P!Lawful(pg)
  BY DEF StoresInv, TypeOK
<1>1. \A y \in rows : y.version \in Nat /\ y.id \in Nat
  <2>1. \A y \in pg["direction_hypotheses"] : y["version"] \in Columns["direction_hypotheses"]["version"]
    BY <1>p, <1>t, RowColumns DEF Columns, DirectionHypothesis
  <2>2. Keyed(rows)
    BY <1>p, <1>t, RowsAreKeyed
  <2> QED
    BY <2>1, <2>2 DEF Columns, DirectionHypothesis, Keyed
<1>2. ASSUME NEW a \in rows, NEW b \in rows, a.version = b.version
      PROVE  a = b
  <2>1. SameKey(a, b, {"user", "version"})
    BY <1>2 DEF SameKey
  <2> QED
    BY <1>p, <1>t, <2>1, KeysAreUnique
<1>3. PICK n \in 0 .. ops + 1 : VersionsOf(pg, user) = {k \in 0 .. ops : k < n}
  BY DEF StoresInv, Numbered
<1>4. ops \in Nat
  BY StoresAssumption DEF StoresInv, TypeOK
<1>5. {y.version : y \in rows} = {k \in 0 .. ops : k < n}
  BY <1>3 DEF VersionsOf
<1> DEFINE B == {y \in rows : <<y, x>> \in ByPairs(rows, "version")}
           f == [y \in B |-> y.version]
<1>6. B = {y \in rows : y.version < x.version}
  <2>1. ASSUME NEW y \in rows
        PROVE  <<y, x>> \in ByPairs(rows, "version") <=> y.version < x.version
    <3>1. y.version = x.version => y = x
      BY <1>2
    <3> QED
      BY <1>1, <3>1 DEF ByPairs
  <2> QED
    BY <2>1
<1>7. \A k \in 0 .. x.version - 1 : \E y \in B : y.version = k
  <2>1. x.version \in {k \in 0 .. ops : k < n}
    BY <1>5
  <2>2. ASSUME NEW k \in 0 .. x.version - 1
        PROVE  k \in {j \in 0 .. ops : j < n} /\ k < x.version
    BY <1>1, <1>4, <2>1
  <2> QED
    BY <1>5, <1>6, <2>2
<1>8. f \in [B -> 0 .. x.version - 1]
  BY <1>1, <1>6
<1>9. f \in Bijection(B, 0 .. x.version - 1)
  <2>1. \A a, b \in B : f[a] = f[b] => a = b
    BY <1>2, <1>6
  <2>2. \A k \in 0 .. x.version - 1 : \E y \in B : f[y] = k
    BY <1>7
  <2> HIDE DEF f, B
  <2>3. f \in Injection(B, 0 .. x.version - 1)
    BY <1>8, <2>1 DEF Injection, IsInjective
  <2>4. f \in Surjection(B, 0 .. x.version - 1)
    BY <1>8, <2>2 DEF Surjection
  <2> QED
    BY <2>3, <2>4 DEF Bijection
<1>a. IsFiniteSet(B)
  <2>1. Keyed(rows)
    BY <1>p, <1>t, RowsAreKeyed
  <2> QED
    BY <2>1, FS_Subset DEF Keyed
<1>b. Cardinality(0 .. x.version - 1) = Cardinality(B)
  <2> HIDE DEF f, B
  <2> QED
    BY <1>9, <1>a, FS_Bijection DEF ExistsBijection
<1>c. x.version \in Nat
  BY <1>1
<1>d. Cardinality(0 .. x.version - 1) = x.version
  <2>1. \A v \in Nat : Cardinality(0 .. v - 1) = v
    BY FS_Interval
  <2> QED
    BY <1>c, <2>1
<1> QED
  BY <1>b, <1>d

\* A version and the code of its shape, as a client is shown them.
LEMMA Hydrated ==
  ASSUME StoresInv, NEW row \in pg.direction_hypotheses
  PROVE  V!_hydrate(pg, row).version = row.version /\ V!_hydrate(pg, row).code # None
<1>t. /\ {"direction_hypotheses", "role_models"} \subseteq DOMAIN Tables
      /\ References("role_model", "role_models", "RESTRICT") \in Tables["direction_hypotheses"].refers
  BY TablesAre DEF TableNames, Tables, direction_hypotheses
<1>p. IsDatabase(pg) /\ P!Lawful(pg)
  BY DEF StoresInv, TypeOK
<1>1. DOMAIN row = {"id", "user", "version", "role_model", "fit_verdict", "data"} /\ row.role_model # None
  <2>1. DOMAIN row = DOMAIN Columns["direction_hypotheses"] /\ row["role_model"] \in Columns["direction_hypotheses"]["role_model"]
    BY <1>p, <1>t, RowColumns DEF Columns, DirectionHypothesis
  <2>2. row.role_model \in Ids
    BY <2>1 DEF Columns, DirectionHypothesis
  <2> QED
    BY <2>1, <2>2, SchemaAssumption DEF Columns, DirectionHypothesis, Ids
<1>2. PICK shape \in pg["role_models"] : shape.id = row.role_model
  <2>1. P!Referred(pg, row, References("role_model", "role_models", "RESTRICT"))
    BY <1>p, <1>t, SameTables DEF P!Lawful
  <2> QED
    BY <1>1, <2>1 DEF P!Referred, P!Knows, References
<1>3. V!role_models_get(pg, row.role_model) = shape
  BY <1>p, <1>t, <1>2, FoundById DEF V!role_models_get
<1>4. shape # None /\ shape.code # None
  <2>1. shape # None
    BY <1>p, <1>t, NullIsNoRow
  <2>2. shape["code"] \in Columns["role_models"]["code"]
    BY <1>p, <1>t, RowColumns DEF Columns, RoleModel
  <2>3. shape.code \in Numbers
    BY <2>2 DEF Columns, RoleModel
  <2> QED
    BY <2>1, <2>3, SchemaAssumption
<1> DEFINE plan == IF V!plans_get_by_hypothesis(pg, row.id) = None THEN None ELSE V!plans_get_by_hypothesis(pg, row.id).id
           more == [code |-> shape.code, plan |-> plan]
<1>5. V!_hydrate(pg, row) = V!Wider(row, more)
  BY <1>3, <1>4 DEF V!_hydrate
<1>6. DOMAIN more = {"code", "plan"} /\ more["code"] = shape.code
  OBVIOUS
<1> HIDE DEF more
<1> QED
  BY <1>1, <1>4, <1>5, <1>6 DEF V!Wider

\* What a client is shown of its versions.
LEMMA VersionsShown ==
  ASSUME StoresInv
  PROVE  HypothesesShown
<1>t. {"direction_hypotheses", "users"} \subseteq DOMAIN Tables
  BY TablesAre DEF TableNames
<1>p. IsDatabase(pg) /\ IsDatabase(mem) /\ P!Lawful(pg)
  BY DEF StoresInv, TypeOK
<1>1. ASSUME NEW user \in Owners
      PROVE  LET shown == V!ListHypotheses(pg, user)
             IN /\ \A i \in DOMAIN shown : shown[i].version = i - 1 /\ shown[i].code # None
                /\ ToSet(shown) = {V!GetHypothesis(pg, user, h) : h \in
                                     {row.id : row \in {r \in pg.direction_hypotheses : r.user = user}}}
  <2> DEFINE rows == {r \in pg.direction_hypotheses : r.user = user}
             records == V!hypotheses_list_for_user(pg, user)
             shown == V!ListHypotheses(pg, user)
  <2>1. shown = [i \in DOMAIN records |-> V!_hydrate(pg, records[i])]
    BY DEF V!ListHypotheses, V!Each
  <2>2. user \in Ids
    BY <1>p, <1>t, IdsOfRows DEF Owners, IdsOf, IsDatabase
  <2>3. Keyed(rows)
    BY <1>p, <1>t, RowsAreKeyed
  <2>4. \A row \in rows : row["version"] \in Nat
    <3>1. \A row \in pg["direction_hypotheses"] : row["version"] \in Columns["direction_hypotheses"]["version"]
      BY <1>p, <1>t, RowColumns DEF Columns, DirectionHypothesis
    <3> QED
      BY <3>1 DEF Columns, DirectionHypothesis
  <2>5. V!Select(pg, "direction_hypotheses", [user |-> user]) = rows
    BY ViewsRead
  <2>6. records = V!By(rows, "version")
    BY <2>5 DEF V!hypotheses_list_for_user
  <2>r. \A x \in rows : Cardinality({y \in rows : <<y, x>> \in ByPairs(rows, "version")}) = x.version
    BY <2>2, VersionsCount
  <2>g. \A row \in rows : V!GetHypothesis(pg, user, row.id) = V!_hydrate(pg, row)
    <3>1. ASSUME NEW row \in rows
          PROVE  V!hypotheses_get(pg, user, row.id) = row /\ row # None
      <4>1. row \in pg["direction_hypotheses"] /\ row.user = user
        OBVIOUS
      <4> HIDE DEF rows
      <4>2. V!Single(V!Select(pg, "direction_hypotheses", [id |-> row.id, user |-> user])) = row
        BY <1>p, <1>t, <4>1, FoundById
      <4>3. row # None
        BY <1>p, <1>t, <4>1, NullIsNoRow
      <4> QED
        BY <4>2, <4>3 DEF V!hypotheses_get
    <3> QED
      BY <3>1 DEF V!GetHypothesis
  <2>h. \A row \in rows : V!_hydrate(pg, row).version = row.version /\ V!_hydrate(pg, row).code # None
    BY Hydrated
  <2> HIDE DEF rows
  <2>7. Lists(records, rows, ByPairs(rows, "version"))
    BY <2>3, <2>4, <2>6, ByLists
  <2> HIDE DEF records, shown
  <2>8. /\ DOMAIN shown = DOMAIN records
        /\ \A i \in DOMAIN records : records[i] \in rows /\ shown[i] = V!_hydrate(pg, records[i])
        /\ rows = {records[i] : i \in DOMAIN records}
    BY <2>1, <2>7 DEF Lists, ToSet
  <2>9. ASSUME NEW i \in DOMAIN records
        PROVE  shown[i].version = i - 1 /\ shown[i].code # None
    <3>1. Cardinality({y \in rows : <<y, records[i]>> \in ByPairs(rows, "version")}) = i - 1
      BY <2>7 DEF Lists
    <3>2. records[i].version = i - 1
      BY <2>8, <2>r, <3>1
    <3> QED
      BY <2>8, <2>h, <3>2
  <2>a. ToSet(shown) = {V!_hydrate(pg, row) : row \in rows}
    BY <2>8 DEF ToSet
  <2>b. {V!GetHypothesis(pg, user, h) : h \in {row.id : row \in rows}} = {V!_hydrate(pg, row) : row \in rows}
    BY <2>g
  <2> QED
    BY <2>8, <2>9, <2>a, <2>b DEF shown, rows
<1> QED
  BY <1>1 DEF HypothesesShown

-----------------------------------------------------------------------------
(* plans, *)

\* To keep some of the rows is to have just those.
LEMMA KeptAre ==
  ASSUME NEW s, NEW S, NEW R, Lists(s, S, R), NEW I \in SUBSET DOMAIN s
  PROVE  LET o == V!InOrder(I, LAMBDA i, j : i < j)
         IN {s[o[n]] : n \in DOMAIN o} = {s[i] : i \in I}
<1> DEFINE o == V!InOrder(I, LAMBDA i, j : i < j)
<1>1. I \subseteq Nat /\ IsFiniteSet(I)
  <2>1. DOMAIN s = 1 .. Cardinality(S) /\ Cardinality(S) \in Nat
    BY DEF Lists
  <2>2. IsFiniteSet(1 .. Cardinality(S))
    BY <2>1, FS_Interval
  <2> QED
    BY <2>1, <2>2, FS_Subset
<1>2. Lists(o, I, Upward(I))
  BY <1>1, UpwardLists
<1> HIDE DEF o
<1>3. {o[n] : n \in DOMAIN o} = I
  BY <1>2 DEF Lists, ToSet
<1>4. {s[o[n]] : n \in DOMAIN o} = {s[i] : i \in I}
  BY <1>3
<1> QED
  BY <1>4 DEF o

\* What is of a plan: its goals, its tasks, and the rows of its schedule.
GoalsOf(plan) == {goal \in pg.milestones : goal.plan = plan}
TasksOf(plan) == {task \in pg.tasks : task.plan = plan}
Joined(plan) == {row \in V!Join(pg) : row.task.plan = plan}

\* The tree is drawn from the goals of the plan.
LEMMA GoalsAreDrawn ==
  ASSUME StoresInv, NEW plan
  PROVE  LET tree == V!_tree(V!tree_list_milestones(pg, plan))
             ids == {goal.id : goal \in GoalsOf(plan)}
         IN /\ ToSet(tree.roots) = {goal \in GoalsOf(plan) : goal.parent \notin ids}
            /\ \A above \in GoalsOf(plan) :
                 ToSet(tree.children[above.id]) = {goal \in GoalsOf(plan) : goal.parent = above.id}
<1> DEFINE goals == GoalsOf(plan)
           rows == V!tree_list_milestones(pg, plan)
           ids == {goal.id : goal \in goals}
           tree == V!_tree(rows)
           R == ByBothPairs(goals, "depth", "position")
           orphans == {i \in DOMAIN rows : rows[i].parent \notin ids}
           under(k) == {i \in DOMAIN rows : rows[i].parent = k}
<1>t. "milestones" \in DOMAIN Tables
  BY TablesAre DEF TableNames
<1>p. IsDatabase(pg) /\ P!Lawful(pg)
  BY DEF StoresInv, TypeOK
<1>1. Lists(rows, goals, R)
  <2>1. Keyed(goals)
    BY <1>p, <1>t, RowsAreKeyed DEF GoalsOf
  <2>2. \A row \in goals : row["depth"] \in Nat /\ row["position"] \in Nat
    <3>1. \A row \in pg["milestones"] : /\ row["depth"] \in Columns["milestones"]["depth"]
                                        /\ row["position"] \in Columns["milestones"]["position"]
      BY <1>p, <1>t, RowColumns DEF Columns, Milestone
    <3> QED
      BY <3>1, SchemaAssumption DEF GoalsOf, Columns, Milestone
  <2>3. V!Select(pg, "milestones", [plan |-> plan]) = goals
    BY ViewsRead DEF GoalsOf
  <2>4. rows = V!ByBoth(goals, "depth", "position")
    BY <2>3 DEF V!tree_list_milestones
  <2> HIDE DEF goals, rows
  <2> QED
    BY <2>1, <2>2, <2>4, ByBothLists
<1> HIDE DEF goals, R, rows
<1>2. ToSet(rows) = goals /\ V!ToSet(rows) = goals
  BY <1>1, ViewsRead DEF Lists
<1>3. /\ tree.roots = LET o == V!InOrder(orphans, LAMBDA i, j : i < j) IN [n \in DOMAIN o |-> rows[o[n]]]
      /\ \A k \in ids : tree.children[k] = LET o == V!InOrder(under(k), LAMBDA i, j : i < j) IN [n \in DOMAIN o |-> rows[o[n]]]
  BY <1>2 DEF V!_tree, V!Kept, V!Each
<1> HIDE DEF tree
<1>4. ToSet(tree.roots) = {goal \in goals : goal.parent \notin ids}
  <2> DEFINE o == V!InOrder(orphans, LAMBDA i, j : i < j)
  <2>1. {rows[o[n]] : n \in DOMAIN o} = {rows[i] : i \in orphans}
    BY <1>1, KeptAre
  <2>2. tree.roots = [n \in DOMAIN o |-> rows[o[n]]]
    BY <1>3
  <2> HIDE DEF o, orphans
  <2>3. ToSet(tree.roots) = {rows[i] : i \in orphans}
    <3> DEFINE list == tree.roots
    <3>1. ToSet(list) = {list[n] : n \in DOMAIN list}
      BY DEF ToSet
    <3>2. DOMAIN list = DOMAIN o /\ \A n \in DOMAIN o : list[n] = rows[o[n]]
      BY <2>2
    <3> HIDE DEF list
    <3>3. {list[n] : n \in DOMAIN list} = {rows[o[n]] : n \in DOMAIN o}
      BY <3>2
    <3> QED
      BY <2>1, <3>1, <3>3 DEF list
  <2> QED
    BY <1>2, <2>3 DEF ToSet, orphans
<1>5. ASSUME NEW above \in goals
      PROVE  ToSet(tree.children[above.id]) = {goal \in goals : goal.parent = above.id}
  <2> DEFINE k == above.id
             o == V!InOrder(under(k), LAMBDA i, j : i < j)
  <2>1. {rows[o[n]] : n \in DOMAIN o} = {rows[i] : i \in under(k)}
    BY <1>1, KeptAre
  <2>2. tree.children[k] = [n \in DOMAIN o |-> rows[o[n]]]
    <3>1. k \in ids
      OBVIOUS
    <3> HIDE DEF k, ids, under
    <3> QED
      BY <1>3, <3>1
  <2> HIDE DEF o
  <2>3. ToSet(tree.children[k]) = {rows[i] : i \in under(k)}
    BY <2>1, <2>2 DEF ToSet
  <2> QED
    BY <1>2, <2>3 DEF ToSet
<1> QED
  BY <1>4, <1>5 DEF tree, goals, rows

\* The rows of a plan's schedule are its tasks, each once.
LEMMA TasksAreJoined ==
  ASSUME StoresInv, NEW plan
  PROVE  /\ Keyed(Joined(plan))
         /\ \A row \in Joined(plan) : row["start_at"] \in Nat /\ row["sort_order"] \in Nat /\ row.task \in TasksOf(plan)
         /\ \A task \in TasksOf(plan) : \E row \in Joined(plan) : row.task = task
         /\ \A a, b \in Joined(plan) : a.task = b.task => a = b
<1>t. /\ {"tasks", "schedule_slots"} \subseteq DOMAIN Tables
      /\ {"task"} \in Tables["schedule_slots"].unique
  BY TablesAre DEF TableNames, Tables, schedule_slots
<1>p. IsDatabase(pg) /\ P!Lawful(pg)
  BY DEF StoresInv, TypeOK
<1>1. ASSUME NEW row \in Joined(plan)
      PROVE  \E slot \in pg["schedule_slots"] :
               /\ slot.task = row.task.id /\ row.task \in pg["tasks"] /\ row.task \in TasksOf(plan)
               /\ row.id = row.task.id
               /\ row["start_at"] = slot.start_at /\ row["sort_order"] = row.task.sort_order
               /\ row = V!Scheduled(row.task, slot)
  <2>1. PICK task \in pg["tasks"], slot \in pg["schedule_slots"] :
          slot.task = task.id /\ row = V!Scheduled(task, slot)
    BY DEF Joined, V!Join
  <2>2. row.task = task /\ row.id = task.id /\ row["start_at"] = slot.start_at /\ row["sort_order"] = task.sort_order
    BY <2>1 DEF V!Scheduled
  <2>3. row.task.plan = plan
    BY DEF Joined
  <2> QED
    BY <2>1, <2>2, <2>3 DEF TasksOf
<1>2. ASSUME NEW task \in TasksOf(plan)
      PROVE  \E row \in Joined(plan) : row.task = task
  <2>1. PICK slot \in pg["schedule_slots"] : slot.task = task.id
    BY DEF StoresInv, TreesHold, TasksOf
  <2>2. <<task, slot>> \in {p \in pg.tasks \X pg.schedule_slots : p[2].task = p[1].id}
    BY <2>1 DEF TasksOf
  <2>3. V!Scheduled(<<task, slot>>[1], <<task, slot>>[2]) \in V!Join(pg)
    BY <2>2 DEF V!Join
  <2>4. V!Scheduled(task, slot) \in V!Join(pg) /\ V!Scheduled(task, slot).task = task
    BY <2>3 DEF V!Scheduled
  <2> QED
    BY <2>4 DEF Joined, TasksOf
<1>3. ASSUME NEW a \in pg["schedule_slots"], NEW b \in pg["schedule_slots"], a.task = b.task
      PROVE  a = b
  <2>1. SameKey(a, b, {"task"})
    BY <1>3 DEF SameKey
  <2> QED
    BY <1>p, <1>t, <2>1, KeysAreUnique
<1>4. ASSUME NEW a \in Joined(plan), NEW b \in Joined(plan), a.task = b.task
      PROVE  a = b
  BY <1>1, <1>3, <1>4
<1>5. Keyed(TasksOf(plan))
  BY <1>p, <1>t, RowsAreKeyed DEF TasksOf
<1>6. ASSUME NEW row \in Joined(plan)
      PROVE  row["start_at"] \in Nat /\ row["sort_order"] \in Nat /\ row.task \in TasksOf(plan)
  <2>1. \A slot \in pg["schedule_slots"] : slot["start_at"] \in Columns["schedule_slots"]["start_at"]
    BY <1>p, <1>t, RowColumns DEF Columns, ScheduleSlot
  <2>2. \A task \in pg["tasks"] : task["sort_order"] \in Columns["tasks"]["sort_order"]
    BY <1>p, <1>t, RowColumns DEF Columns, Task
  <2>3. Numbers \subseteq Nat
    BY SchemaAssumption
  <2> QED
    BY <1>1, <2>1, <2>2, <2>3 DEF Columns, ScheduleSlot, Task
<1>7. Keyed(Joined(plan))
  <2>1. \A a, b \in Joined(plan) : a.id = b.id => a = b
    BY <1>1, <1>4, <1>5, <1>6 DEF Keyed
  <2>2. \A row \in Joined(plan) : row.id \in Nat
    BY <1>1, <1>5, <1>6 DEF Keyed
  <2>3. IsFiniteSet(Joined(plan))
    <3> DEFINE f == [row \in Joined(plan) |-> row.task]
    <3>1. f \in [Joined(plan) -> TasksOf(plan)] /\ \A a, b \in Joined(plan) : f[a] = f[b] => a = b
      BY <1>4, <1>6
    <3> HIDE DEF f
    <3>2. f \in Injection(Joined(plan), TasksOf(plan))
      BY <3>1 DEF Injection, IsInjective
    <3> QED
      BY <1>5, <3>2, FS_Injection DEF Keyed
  <2> QED
    BY <2>1, <2>2, <2>3 DEF Keyed
<1> QED
  BY <1>2, <1>4, <1>6, <1>7

\* A plan is shown to its owner, with its counts and its tree, and to nobody else.
LEMMA PlanView ==
  ASSUME StoresInv, NEW plan \in pg.plans
  PROVE  /\ V!GetPlan(pg, plan.user, plan.id).task_counts = V!tree_counts_by_status(pg, plan.id, Words)
         /\ V!GetPlan(pg, plan.user, plan.id).milestones = V!_tree(V!tree_list_milestones(pg, plan.id))
         /\ \A user : user # plan.user => V!GetPlan(pg, user, plan.id) = None
         /\ V!ListPlanTasks(pg, plan.user, plan.id, None, None)
              = LET rows == V!tree_list_scheduled(pg, plan.id, None, None)
                IN [i \in DOMAIN rows |-> V!_task_view(rows[i])]
<1>t. "plans" \in DOMAIN Tables /\ plan \in pg["plans"]
  BY TablesAre DEF TableNames
<1>p. IsDatabase(pg) /\ P!Lawful(pg)
  BY DEF StoresInv, TypeOK
<1>1. /\ \A user : V!Single(V!Select(pg, "plans", [id |-> plan.id, user |-> user])) = IF user = plan.user THEN plan ELSE None
      /\ plan # None
  BY <1>p, <1>t, FoundById, NullIsNoRow
<1>2. \A user : V!plans_get(pg, user, plan.id) = IF user = plan.user THEN plan ELSE None
  BY <1>1 DEF V!plans_get
<1>3. DOMAIN plan = {"id", "user", "hypothesis", "status", "data"}
  <2>1. DOMAIN plan = DOMAIN Columns["plans"]
    BY <1>p, <1>t, RowColumns
  <2> QED
    BY <2>1 DEF Columns, Plan
<1> DEFINE counts == V!tree_counts_by_status(pg, plan.id, Words)
           tree == V!_tree(V!tree_list_milestones(pg, plan.id))
           summary == V!Wider(plan, [task_counts |-> counts])
           view == V!Wider(summary, [milestones |-> tree])
<1>4. V!GetPlan(pg, plan.user, plan.id) = view
  BY <1>1, <1>2 DEF V!GetPlan, V!_summary
<1>5. summary.task_counts = counts /\ DOMAIN summary = {"id", "user", "hypothesis", "status", "data", "task_counts"}
  <2> HIDE DEF counts
  <2> QED
    BY <1>3 DEF V!Wider
<1>6. view.task_counts = counts /\ view.milestones = tree
  <2> HIDE DEF counts, tree, summary
  <2> QED
    BY <1>5 DEF V!Wider
<1>7. \A user : user # plan.user => V!GetPlan(pg, user, plan.id) = None
  BY <1>2 DEF V!GetPlan
<1>8. V!ListPlanTasks(pg, plan.user, plan.id, None, None)
        = LET rows == V!tree_list_scheduled(pg, plan.id, None, None)
          IN [i \in DOMAIN rows |-> V!_task_view(rows[i])]
  BY <1>1, <1>2 DEF V!ListPlanTasks, V!Each
<1> QED
  BY <1>4, <1>6, <1>7, <1>8

\* Every task of the plan is on its schedule, once, with its status.
LEMMA TasksAreShown ==
  ASSUME StoresInv, NEW plan \in pg.plans
  PROVE  LET scheduled == V!ListPlanTasks(pg, plan.user, plan.id, None, None)
         IN /\ \A i \in DOMAIN scheduled : \E task \in TasksOf(plan.id) : scheduled[i].milestone = task.milestone
            /\ \A status \in Words :
                 V!tree_counts_by_status(pg, plan.id, Words)[status]
                   = Cardinality({i \in DOMAIN scheduled : scheduled[i].status = status})
<1> DEFINE rows == V!tree_list_scheduled(pg, plan.id, None, None)
           J == Joined(plan.id)
           T == TasksOf(plan.id)
           scheduled == V!ListPlanTasks(pg, plan.user, plan.id, None, None)
<1>t. "tasks" \in DOMAIN Tables
  BY TablesAre DEF TableNames
<1>p. IsDatabase(pg) /\ P!Lawful(pg)
  BY DEF StoresInv, TypeOK
<1>1. scheduled = [i \in DOMAIN rows |-> V!_task_view(rows[i])]
  BY PlanView
<1>2. rows = V!ByBoth(J, "start_at", "sort_order")
  BY DEF V!tree_list_scheduled, V!InSchedule, Joined
<1>3. Keyed(J) /\ \A row \in J : row["start_at"] \in Nat /\ row["sort_order"] \in Nat
  BY TasksAreJoined
<1> HIDE DEF rows, scheduled
<1>4. Lists(rows, J, ByBothPairs(J, "start_at", "sort_order"))
  <2> HIDE DEF J
  <2> QED
    BY <1>2, <1>3, ByBothLists
<1>5. ASSUME NEW task \in T
      PROVE  DOMAIN task = {"id", "plan", "milestone", "key", "week", "occurrence", "sort_order", "status", "completed_at"}
  <2>1. DOMAIN task = DOMAIN Columns["tasks"]
    BY <1>p, <1>t, RowColumns DEF TasksOf
  <2> QED
    BY <2>1 DEF Columns, Task
<1>6. ASSUME NEW i \in DOMAIN rows
      PROVE  /\ rows[i] \in J /\ rows[i].task \in T
             /\ scheduled[i].status = rows[i].task.status
             /\ scheduled[i].milestone = rows[i].task.milestone
  <2>1. rows[i] \in J
    BY <1>4 DEF Lists, ToSet
  <2>2. rows[i].task \in T
    BY <2>1, TasksAreJoined
  <2>3. scheduled[i] = V!Wider(rows[i].task, [start_at |-> rows[i].slot.start_at])
    BY <1>1 DEF V!_task_view
  <2>4. {"status", "milestone"} \subseteq DOMAIN rows[i].task
    BY <1>5, <2>2
  <2> QED
    BY <2>1, <2>2, <2>3, <2>4 DEF V!Wider
<1>7. DOMAIN scheduled = DOMAIN rows
  BY <1>1
<1>8. \A i, j \in DOMAIN rows : rows[i].task = rows[j].task => i = j
  <2>1. ASSUME NEW i \in DOMAIN rows, NEW j \in DOMAIN rows, rows[i].task = rows[j].task
        PROVE  i = j
    <3>1. rows[i] = rows[j]
      BY <1>6, <2>1, TasksAreJoined
    <3>2. <<rows[i], rows[j]>> \notin ByBothPairs(J, "start_at", "sort_order") /\ <<rows[j], rows[i]>> \notin ByBothPairs(J, "start_at", "sort_order")
      BY <1>3, <1>6, <3>1 DEF ByBothPairs, Keyed
    <3>3. ~(i < j) /\ ~(j < i) /\ i \in Nat /\ j \in Nat
      BY <1>4, <3>2 DEF Lists
    <3> QED
      BY <3>3
  <2> QED
    BY <2>1
<1>9. \A task \in T : \E i \in DOMAIN rows : rows[i].task = task
  <2>1. \A row \in J : \E i \in DOMAIN rows : rows[i] = row
    BY <1>4 DEF Lists, ToSet
  <2> QED
    BY <2>1, TasksAreJoined
<1>a. ASSUME NEW status \in Words
      PROVE  V!tree_counts_by_status(pg, plan.id, Words)[status]
               = Cardinality({i \in DOMAIN scheduled : scheduled[i].status = status})
  <2> DEFINE I == {i \in DOMAIN scheduled : scheduled[i].status = status}
             D == {task \in T : task.status = status}
             f == [i \in I |-> rows[i].task]
  <2>1. V!Select(pg, "tasks", [plan |-> plan.id, status |-> status]) = D
    BY ViewsRead DEF TasksOf
  <2>2. V!tree_counts_by_status(pg, plan.id, Words)[status] = Cardinality(D)
    BY <2>1, VCount DEF V!tree_counts_by_status
  <2>3. f \in [I -> D] /\ (\A i, j \in I : f[i] = f[j] => i = j) /\ (\A task \in D : \E i \in I : f[i] = task)
    <3>1. \A i \in I : rows[i].task \in D
      BY <1>6, <1>7
    <3>2. \A i, j \in I : rows[i].task = rows[j].task => i = j
      BY <1>7, <1>8
    <3>3. \A task \in D : \E i \in I : rows[i].task = task
      BY <1>6, <1>7, <1>9
    <3> HIDE DEF I, D
    <3> QED
      BY <3>1, <3>2, <3>3
  <2>4. IsFiniteSet(I)
    <3>1. DOMAIN rows = 1 .. Cardinality(J) /\ Cardinality(J) \in Nat
      BY <1>4 DEF Lists
    <3>2. IsFiniteSet(DOMAIN rows) /\ I \subseteq DOMAIN rows
      BY <1>7, <3>1, FS_Interval
    <3> HIDE DEF I
    <3> QED
      BY <3>2, FS_Subset
  <2> HIDE DEF f, I, D
  <2>5. f \in Injection(I, D) /\ f \in Surjection(I, D)
    BY <2>3 DEF Injection, IsInjective, Surjection
  <2>6. Cardinality(D) = Cardinality(I)
    BY <2>4, <2>5, FS_Bijection DEF Bijection, ExistsBijection
  <2> QED
    BY <2>2, <2>6 DEF I
<1> QED
  BY <1>6, <1>7, <1>a DEF scheduled

\* What a client is shown of its plans.
LEMMA PlansShown ==
  ASSUME StoresInv
  PROVE  PlanShown
<1>t. "milestones" \in DOMAIN Tables
  BY TablesAre DEF TableNames
<1>p. IsDatabase(pg) /\ P!Lawful(pg)
  BY DEF StoresInv, TypeOK
<1>1. ASSUME NEW plan \in pg.plans
      PROVE  LET view == V!GetPlan(pg, plan.user, plan.id)
                 goals == {row \in pg.milestones : row.plan = plan.id}
                 scheduled == V!ListPlanTasks(pg, plan.user, plan.id, None, None)
             IN /\ ToSet(view.milestones.roots) = {goal \in goals : goal.depth = 0}
                /\ \A above \in goals : \A goal \in ToSet(view.milestones.children[above.id]) :
                     goal.depth = above.depth + 1
                /\ UNION {ToSet(view.milestones.children[goal.id]) : goal \in goals}
                     = {goal \in goals : goal.depth > 0}
                /\ \A status \in Words : view.task_counts[status] =
                     Cardinality({i \in DOMAIN scheduled : scheduled[i].status = status})
                /\ \A task \in ToSet(scheduled) : \E goal \in goals : goal.id = task.milestone
                /\ \A user \in Owners \ {plan.user} : V!GetPlan(pg, user, plan.id) = None
  <2> DEFINE view == V!GetPlan(pg, plan.user, plan.id)
             goals == GoalsOf(plan.id)
             ids == {goal.id : goal \in goals}
             scheduled == V!ListPlanTasks(pg, plan.user, plan.id, None, None)
             tree == V!_tree(V!tree_list_milestones(pg, plan.id))
  <2>1. view.milestones = tree /\ view.task_counts = V!tree_counts_by_status(pg, plan.id, Words)
    BY PlanView
  <2>2. ASSUME NEW goal \in goals
        PROVE  /\ goal.depth \in Nat /\ goal.id \in Nat
               /\ goal.parent = None => goal.parent \notin ids
               /\ \/ goal.parent = None /\ goal.depth = 0
                  \/ goal.parent \in ids /\ goal.depth > 0
               /\ \A above \in goals : above.id = goal.parent => goal.depth = above.depth + 1
    <3>1. Keyed(goals)
      BY <1>p, <1>t, RowsAreKeyed DEF GoalsOf
    <3>2. \A row \in goals : row.depth \in Nat
      <4>1. \A row \in pg["milestones"] : row["depth"] \in Columns["milestones"]["depth"]
        BY <1>p, <1>t, RowColumns DEF Columns, Milestone
      <4> QED
        BY <4>1, SchemaAssumption DEF Columns, Milestone, GoalsOf
    <3>3. None \notin ids
      BY <3>1, SchemaAssumption DEF Keyed
    <3>4. Hangs(goal, pg.milestones)
      BY DEF StoresInv, TreesHold, GoalsOf
    <3>5. \/ goal.parent = None /\ goal.depth = 0
          \/ goal.parent # None /\ \E above \in goals : above.id = goal.parent /\ goal.depth = above.depth + 1
      BY <3>4 DEF Hangs, GoalsOf
    <3> HIDE DEF goals
    <3>6. \A a, b \in goals : a.id = b.id => a = b
      BY <3>1 DEF Keyed
    <3>7. goal.id \in Nat
      BY <3>1 DEF Keyed
    <3>8. CASE goal.parent = None /\ goal.depth = 0
      <4>1. goal.parent \notin ids
        BY <3>3, <3>8
      <4>2. \A above \in goals : above.id # goal.parent
        BY <4>1
      <4>3. goal.depth \in Nat
        BY <3>2
      <4>4. \A above \in goals : above.id = goal.parent => goal.depth = above.depth + 1
        BY <4>2
      <4> HIDE DEF ids
      <4> QED
        BY <3>7, <3>8, <4>1, <4>3, <4>4
    <3>9. CASE goal.parent # None /\ \E above \in goals : above.id = goal.parent /\ goal.depth = above.depth + 1
      <4>1. PICK above \in goals : above.id = goal.parent /\ goal.depth = above.depth + 1
        BY <3>9
      <4>2. above.depth \in Nat /\ goal.depth \in Nat /\ goal.depth > 0
        BY <3>2, <4>1
      <4> QED
        BY <3>6, <3>7, <3>9, <4>1, <4>2
    <3> QED
      BY <3>5, <3>8, <3>9
  <2>3. /\ ToSet(tree.roots) = {goal \in goals : goal.parent \notin ids}
        /\ \A above \in goals : ToSet(tree.children[above.id]) = {goal \in goals : goal.parent = above.id}
    BY GoalsAreDrawn
  <2>4. \A goal \in goals : goal.parent \notin ids <=> goal.depth = 0
    BY <2>2
  <2>5. {goal \in goals : goal.parent \notin ids} = {goal \in goals : goal.depth = 0}
    BY <2>4
  <2> HIDE DEF tree, goals, scheduled, view
  <2>6. UNION {ToSet(tree.children[above.id]) : above \in goals} = {goal \in goals : goal.depth > 0}
    <3>1. ASSUME NEW goal \in goals
          PROVE  goal.depth > 0 <=> \E above \in goals : goal.parent = above.id
      BY <2>2
    <3>2. UNION {ToSet(tree.children[above.id]) : above \in goals}
            = {goal \in goals : \E above \in goals : goal.parent = above.id}
      <4> DEFINE kids(above) == ToSet(tree.children[above.id])
      <4>1. \A above \in goals : kids(above) = {goal \in goals : goal.parent = above.id}
        BY <2>3
      <4> HIDE DEF kids
      <4>2. \A goal : goal \in UNION {kids(above) : above \in goals} <=> \E above \in goals : goal \in kids(above)
        OBVIOUS
      <4>3. UNION {kids(above) : above \in goals} = {goal \in goals : \E above \in goals : goal.parent = above.id}
        BY <4>1, <4>2
      <4> QED
        BY <4>3 DEF kids
    <3> QED
      BY <3>1, <3>2
  <2>7. \A task \in ToSet(scheduled) : \E goal \in goals : goal.id = task.milestone
    <3>1. \A i \in DOMAIN scheduled : \E task \in TasksOf(plan.id) : scheduled[i].milestone = task.milestone
      BY TasksAreShown DEF scheduled
    <3>2. \A task \in TasksOf(plan.id) : \E goal \in goals : goal.id = task.milestone
      BY DEF StoresInv, TreesHold, TasksOf, GoalsOf, goals
    <3> QED
      BY <3>1, <3>2 DEF ToSet
  <2>8. \A status \in Words : view.task_counts[status] =
          Cardinality({i \in DOMAIN scheduled : scheduled[i].status = status})
    BY <2>1, TasksAreShown DEF scheduled
  <2>9. \A user \in Owners \ {plan.user} : V!GetPlan(pg, user, plan.id) = None
    BY PlanView
  <2>a. \A above \in goals : \A goal \in ToSet(tree.children[above.id]) : goal.depth = above.depth + 1
    BY <2>2, <2>3
  <2>b. goals = {row \in pg.milestones : row.plan = plan.id}
    BY DEF goals, GoalsOf
  <2>c. ToSet(view.milestones.roots) = {goal \in goals : goal.depth = 0}
    BY <2>1, <2>3, <2>5
  <2>d. /\ UNION {ToSet(view.milestones.children[goal.id]) : goal \in goals} = {goal \in goals : goal.depth > 0}
        /\ \A above \in goals : \A goal \in ToSet(view.milestones.children[above.id]) : goal.depth = above.depth + 1
    BY <2>1, <2>6, <2>a
  <2> QED
    BY <2>7, <2>8, <2>9, <2>b, <2>c, <2>d DEF view, scheduled
<1> QED
  BY <1>1 DEF PlanShown

-----------------------------------------------------------------------------
(* runs. *)

\* The shapes a user is shown, the code each gives a verdict, a run's verdicts,
\* and these by code.
Catalogue(user) == V!ListRoleModels(pg, user)
CodeOf(user, verdict) == V!_code(Catalogue(user), verdict)
VerdictsOf(run) == {verdict \in pg.fit_verdicts : verdict.run = run}
ByCodePairs(user, verdicts) ==
    {p \in verdicts \X verdicts : CodeOf(user, p[1]) < CodeOf(user, p[2])}
\* The places in a list of verdicts, by code, and by place among those of one code.
PlacePairs(user, list) ==
    {p \in (DOMAIN list) \X (DOMAIN list) :
        \/ V!ByCode(CodeOf(user, list[p[1]]), CodeOf(user, list[p[2]]))
        \/ ~V!ByCode(CodeOf(user, list[p[2]]), CodeOf(user, list[p[1]])) /\ p[1] < p[2]}

\* A code is a number, if the catalogue lists the shape, and names it.
LEMMA CodesAre ==
  ASSUME StoresInv, NEW user
  PROVE  /\ \A verdict : CodeOf(user, verdict) \in Nat \/ CodeOf(user, verdict) = None
         /\ \A a, b : CodeOf(user, a) # None /\ CodeOf(user, a) = CodeOf(user, b) => a.role_model = b.role_model
<1>t. "role_models" \in DOMAIN Tables /\ {"code"} \in Tables["role_models"].unique
  BY TablesAre DEF TableNames, Tables, role_models
<1>p. IsDatabase(pg) /\ P!Lawful(pg)
  BY DEF StoresInv, TypeOK
<1>1. V!ToSet(Catalogue(user)) \subseteq pg["role_models"]
  <2> DEFINE wanted == {row \in pg.role_models :
                          /\ TRUE => row.active
                          /\ row.author = System \/ (user # None /\ row.author_user = user)
                          /\ {} # {} => row.tags \cap {} # {}}
             list == V!By(wanted, "code")
  <2>1. Catalogue(user) = V!Limited(list, 50)
    BY DEF Catalogue, V!ListRoleModels, V!role_models_list
  <2>2. wanted \subseteq pg["role_models"] /\ Keyed(wanted)
    BY <1>p, <1>t, RowsAreKeyed
  <2>3. \A row \in wanted : row["code"] \in Nat
    <3>1. \A row \in pg["role_models"] : row["code"] \in Columns["role_models"]["code"]
      BY <1>p, <1>t, RowColumns DEF Columns, RoleModel
    <3> QED
      BY <2>2, <3>1, SchemaAssumption DEF Columns, RoleModel
  <2> HIDE DEF wanted
  <2>4. Lists(list, wanted, ByPairs(wanted, "code"))
    BY <2>2, <2>3, ByLists
  <2> HIDE DEF list
  <2>5. ToSet(V!Limited(list, 50)) \subseteq ToSet(list)
    BY DEF V!Limited, ToSet
  <2> QED
    BY <2>1, <2>2, <2>4, <2>5, ViewsRead DEF Lists
<1>2. ASSUME NEW verdict, CodeOf(user, verdict) # None
      PROVE  \E model \in pg["role_models"] : model.id = verdict.role_model /\ CodeOf(user, verdict) = model["code"]
  <2> DEFINE found == {model \in V!ToSet(Catalogue(user)) : model.id = verdict.role_model}
             model == V!Listed(Catalogue(user), verdict)
  <2>1. model = Single(found)
    BY ViewsRead DEF V!Listed
  <2>2. model # None /\ CodeOf(user, verdict) = model["code"]
    BY <1>2 DEF CodeOf, V!_code
  <2>3. model \in found
    BY <2>1, <2>2 DEF Single
  <2> QED
    BY <1>1, <2>2, <2>3
<1>3. \A model \in pg["role_models"] : model["code"] \in Nat
  <2>1. \A row \in pg["role_models"] : row["code"] \in Columns["role_models"]["code"]
    BY <1>p, <1>t, RowColumns DEF Columns, RoleModel
  <2> QED
    BY <2>1, SchemaAssumption DEF Columns, RoleModel
<1>4. ASSUME NEW a, NEW b, CodeOf(user, a) # None, CodeOf(user, a) = CodeOf(user, b)
      PROVE  a.role_model = b.role_model
  <2>1. PICK one \in pg["role_models"] : one.id = a.role_model /\ CodeOf(user, a) = one["code"]
    BY <1>2, <1>4
  <2>2. PICK other \in pg["role_models"] : other.id = b.role_model /\ CodeOf(user, b) = other["code"]
    BY <1>2, <1>4
  <2>3. SameKey(one, other, {"code"})
    BY <1>4, <2>1, <2>2 DEF SameKey
  <2>4. one = other
    BY <1>p, <1>t, <2>3, KeysAreUnique
  <2> QED
    BY <2>1, <2>2, <2>4
<1> QED
  BY <1>2, <1>3, <1>4

\* What sorted makes of a list of verdicts, from a list of their places.
SortedFrom(o, user, list) ==
    /\ Lists(o, DOMAIN list, PlacePairs(user, list))
    /\ V!sorted(Catalogue(user), list) = [k \in DOMAIN o |-> list[o[k]]]

\* sorted lists every place, those of the lesser codes first.
LEMMA PlacesAreListed ==
  ASSUME StoresInv, NEW user, NEW list, NEW n \in Nat, DOMAIN list = 1 .. n
  PROVE  \E o : SortedFrom(o, user, list)
<1> DEFINE I == DOMAIN list
           c(i) == CodeOf(user, list[i])
           b(x) == {y \in I : V!ByCode(c(y), c(x)) \/ (~V!ByCode(c(x), c(y)) /\ y < x)}
           d(x) == {y \in I : <<y, x>> \in PlacePairs(user, list)}
           o == [k \in 1 .. V!Cardinality(I) |-> CHOOSE x \in I : V!Cardinality(b(x)) = k - 1]
<1>1. V!sorted(Catalogue(user), list) = [k \in DOMAIN o |-> list[o[k]]]
  BY DEF V!sorted, V!InOrder, V!Each, CodeOf
<1>2. o = Ranked(I, PlacePairs(user, list))
  <2>1. \A x \in I : b(x) = d(x)
    BY DEF PlacePairs
  <2>2. Ranked(I, PlacePairs(user, list)) = [k \in 1 .. Cardinality(I) |-> CHOOSE x \in I : Cardinality(d(x)) = k - 1]
    BY DEF Ranked
  <2> HIDE DEF b, d
  <2>3. \A x \in I : V!Cardinality(b(x)) = Cardinality(d(x))
    BY <2>1, VCount
  <2>4. \A k : (CHOOSE x \in I : V!Cardinality(b(x)) = k - 1) = (CHOOSE x \in I : Cardinality(d(x)) = k - 1)
    BY <2>3
  <2> QED
    BY <2>2, <2>4, VCount
<1>3. IsFiniteSet(I) /\ I \subseteq Nat
  BY FS_Interval
<1>4. Orders(PlacePairs(user, list), I)
  <2>1. \A i : c(i) \in Nat \/ c(i) = None
    BY CodesAre
  <2>2. None \notin Nat
    BY SchemaAssumption
  <2>3. \A i, j \in I : <<i, j>> \in PlacePairs(user, list) <=>
           V!ByCode(c(i), c(j)) \/ (~V!ByCode(c(j), c(i)) /\ i < j)
    BY DEF PlacePairs
  <2> HIDE DEF c
  <2>4. \A i \in I : <<i, i>> \notin PlacePairs(user, list)
    BY <1>3, <2>1, <2>2, <2>3 DEF V!ByCode
  <2>5. \A i, j \in I : i = j \/ <<i, j>> \in PlacePairs(user, list) \/ <<j, i>> \in PlacePairs(user, list)
    <3>1. ASSUME NEW i \in I, NEW j \in I, i # j, ~V!ByCode(c(i), c(j)), ~V!ByCode(c(j), c(i))
          PROVE  <<i, j>> \in PlacePairs(user, list) \/ <<j, i>> \in PlacePairs(user, list)
      <4>1. i < j \/ j < i
        BY <1>3, <3>1
      <4> QED
        BY <2>3, <3>1, <4>1
    <3> QED
      BY <2>3, <3>1, <1>3, <2>1, <2>2 DEF V!ByCode
  <2>6. ASSUME NEW i \in I, NEW j \in I, NEW k \in I,
               <<i, j>> \in PlacePairs(user, list), <<j, k>> \in PlacePairs(user, list)
        PROVE  <<i, k>> \in PlacePairs(user, list)
    BY <1>3, <2>1, <2>2, <2>3, <2>6 DEF V!ByCode
  <2> QED
    BY <2>4, <2>5, <2>6 DEF Orders
<1> HIDE DEF o
<1>5. Lists(o, I, PlacePairs(user, list))
  BY <1>2, <1>3, <1>4, RankedLists
<1> QED
  BY <1>1, <1>5 DEF SortedFrom

\* There is one list in an order.
LEMMA OneOrder ==
  ASSUME NEW S, NEW R, IsFiniteSet(S), Orders(R, S), NEW s, Lists(s, S, R), s = [i \in DOMAIN s |-> s[i]]
  PROVE  s = Ranked(S, R)
<1> DEFINE before(x) == {y \in S : <<y, x>> \in R}
           r == Ranked(S, R)
<1>1. Lists(r, S, R)
  BY RankedLists
<1>2. \A x, y \in S : Cardinality(before(x)) = Cardinality(before(y)) => x = y
  BY StandsBehind
<1>3. DOMAIN r = DOMAIN s /\ r = [i \in DOMAIN r |-> r[i]]
  <2>1. r = [i \in DOMAIN r |-> r[i]]
    <3> DEFINE N == Cardinality(S)
               e(n) == CHOOSE x \in S : Cardinality(before(x)) = n - 1
    <3>1. r = [n \in 1 .. N |-> e(n)]
      BY DEF Ranked
    <3> HIDE DEF r, e, N
    <3> QED
      BY <3>1
  <2> HIDE DEF r
  <2> QED
    BY <1>1, <2>1 DEF Lists
<1> HIDE DEF r
<1>4. ASSUME NEW i \in DOMAIN s
      PROVE  s[i] = r[i]
  <2>1. s[i] \in S /\ r[i] \in S
    BY <1>1, <1>3 DEF Lists, ToSet
  <2>2. Cardinality(before(s[i])) = i - 1 /\ Cardinality(before(r[i])) = i - 1
    BY <1>1, <1>3 DEF Lists
  <2> QED
    BY <1>2, <2>1, <2>2
<1> QED
  BY <1>3, <1>4 DEF r

\* The verdicts of a run sorted: every one, by code, and in one order if all have a code.
LEMMA VerdictsSorted ==
  ASSUME StoresInv, NEW user, NEW run, NEW list \in SetToSeqs(VerdictsOf(run))
  PROVE  LET s == V!sorted(Catalogue(user), list)
             verdicts == VerdictsOf(run)
         IN /\ ToSet(s) = verdicts
            /\ \A i, j \in DOMAIN s : i < j => ~V!ByCode(CodeOf(user, s[j]), CodeOf(user, s[i]))
            /\ (\A v \in verdicts : CodeOf(user, v) # None) => s = Ranked(verdicts, ByCodePairs(user, verdicts))
<1> DEFINE s == V!sorted(Catalogue(user), list)
           verdicts == VerdictsOf(run)
           N == Cardinality(verdicts)
           CP == ByCodePairs(user, verdicts)
           PP == PlacePairs(user, list)
<1>t. "fit_verdicts" \in DOMAIN Tables /\ {"run", "role_model"} \in Tables["fit_verdicts"].unique
  BY TablesAre DEF TableNames, Tables, fit_verdicts
<1>p. IsDatabase(pg) /\ P!Lawful(pg)
  BY DEF StoresInv, TypeOK
<1>1. IsFiniteSet(verdicts) /\ N \in Nat
  <2>1. Keyed(verdicts)
    BY <1>p, <1>t, RowsAreKeyed DEF VerdictsOf
  <2> QED
    BY <2>1, FS_CardinalityType DEF Keyed
<1>2. /\ list \in [1 .. N -> verdicts]
      /\ \A i, j \in 1 .. N : list[i] = list[j] => i = j
  BY DEF SetToSeqs
<1>3. list \in Surjection(1 .. N, verdicts)
  <2>1. list \in Injection(1 .. N, verdicts)
    BY <1>2 DEF Injection, IsInjective
  <2>2. IsFiniteSet(1 .. N) /\ Cardinality(1 .. N) = N
    BY <1>1, FS_Interval
  <2> HIDE DEF verdicts
  <2> QED
    BY <1>1, <2>1, <2>2, FS_Injection
<1>4. DOMAIN list = 1 .. N
  BY <1>2
<1>5. PICK o : Lists(o, DOMAIN list, PP) /\ s = [k \in DOMAIN o |-> list[o[k]]]
  <2>1. N \in Nat /\ DOMAIN list = 1 .. N
    BY <1>1, <1>4
  <2> HIDE DEF N
  <2>2. \E o : SortedFrom(o, user, list)
    BY <2>1, PlacesAreListed
  <2> QED
    BY <2>2 DEF SortedFrom
<1> HIDE DEF s, PP
<1>6. /\ DOMAIN s = 1 .. N /\ s = [i \in DOMAIN s |-> s[i]]
      /\ \A i \in 1 .. N : o[i] \in 1 .. N /\ s[i] = list[o[i]]
      /\ {o[i] : i \in 1 .. N} = 1 .. N
  <2>1. Cardinality(1 .. N) = N
    BY <1>1, FS_Interval
  <2>2. DOMAIN o = 1 .. N /\ ToSet(o) = 1 .. N
    BY <1>4, <1>5, <2>1 DEF Lists
  <2> HIDE DEF N
  <2> QED
    BY <1>5, <2>2 DEF ToSet
<1>7. ToSet(s) = verdicts
  <2>1. {list[k] : k \in 1 .. N} = verdicts
    BY <1>2, <1>3 DEF Surjection
  <2>2. {list[o[i]] : i \in 1 .. N} = {list[k] : k \in 1 .. N}
    BY <1>6
  <2>3. ToSet(s) = {list[o[i]] : i \in 1 .. N}
    BY <1>6 DEF ToSet
  <2> QED
    BY <2>1, <2>2, <2>3
<1> HIDE DEF N, CP, verdicts
<1>c. (\A v : CodeOf(user, v) \in Nat \/ CodeOf(user, v) = None) /\ None \notin Nat
  BY CodesAre, SchemaAssumption
<1>8. \A i, j \in 1 .. N : i < j =>
        \/ V!ByCode(CodeOf(user, s[i]), CodeOf(user, s[j]))
        \/ ~V!ByCode(CodeOf(user, s[j]), CodeOf(user, s[i]))
  <2>1. ASSUME NEW i \in 1 .. N, NEW j \in 1 .. N, i < j
        PROVE  <<o[i], o[j]>> \in PP
    <3>1. DOMAIN o = 1 .. N
      <4>1. Cardinality(1 .. N) = N
        BY <1>1, FS_Interval
      <4> QED
        BY <1>4, <1>5, <4>1 DEF Lists
    <3> QED
      BY <1>5, <2>1, <3>1 DEF Lists
  <2>2. \A p \in PP : \/ V!ByCode(CodeOf(user, list[p[1]]), CodeOf(user, list[p[2]]))
                      \/ ~V!ByCode(CodeOf(user, list[p[2]]), CodeOf(user, list[p[1]]))
    BY DEF PP, PlacePairs
  <2>3. ASSUME NEW i \in 1 .. N, NEW j \in 1 .. N, i < j
        PROVE  \/ V!ByCode(CodeOf(user, s[i]), CodeOf(user, s[j]))
               \/ ~V!ByCode(CodeOf(user, s[j]), CodeOf(user, s[i]))
    <3>1. <<o[i], o[j]>>[1] = o[i] /\ <<o[i], o[j]>>[2] = o[j]
      OBVIOUS
    <3> QED
      BY <1>6, <2>1, <2>2, <2>3, <3>1
  <2> QED
    BY <2>3
<1>9. \A i, j \in DOMAIN s : i < j => ~V!ByCode(CodeOf(user, s[j]), CodeOf(user, s[i]))
  <2>1. \A a, b : V!ByCode(CodeOf(user, a), CodeOf(user, b)) => ~V!ByCode(CodeOf(user, b), CodeOf(user, a))
    BY <1>c DEF V!ByCode
  <2> QED
    BY <1>6, <1>8, <2>1
<1>a. ASSUME \A v \in verdicts : CodeOf(user, v) # None
      PROVE  s = Ranked(verdicts, CP)
  <2>1. \A a, b \in verdicts : CodeOf(user, a) = CodeOf(user, b) => a = b
    <3>1. ASSUME NEW a \in verdicts, NEW b \in verdicts, CodeOf(user, a) = CodeOf(user, b)
          PROVE  a = b
      <4>1. a.role_model = b.role_model
        BY <1>a, <3>1, CodesAre
      <4>2. SameKey(a, b, {"run", "role_model"})
        BY <4>1 DEF SameKey, verdicts, VerdictsOf
      <4> QED
        BY <1>p, <1>t, <4>2, KeysAreUnique DEF verdicts, VerdictsOf
    <3> QED
      BY <3>1
  <2>2. \A a, b \in verdicts : <<a, b>> \in CP <=> CodeOf(user, a) < CodeOf(user, b)
    BY DEF CP, ByCodePairs, verdicts
  <2>3. \A a \in verdicts : CodeOf(user, a) \in Nat
    BY <1>a, <1>c
  <2>4. Orders(CP, verdicts)
    BY <2>1, <2>2, <2>3 DEF Orders
  <2>5. \A i, j \in 1 .. N : <<i, j>> \in PP <=>
          CodeOf(user, list[i]) < CodeOf(user, list[j])
    <3>1. \A i \in 1 .. N : list[i] \in verdicts
      BY <1>2
    <3>2. \A i, j \in 1 .. N : CodeOf(user, list[i]) = CodeOf(user, list[j]) => i = j
      BY <1>2, <2>1, <3>1
    <3>3. \A i, j \in 1 .. N : <<i, j>> \in PP <=>
             \/ V!ByCode(CodeOf(user, list[i]), CodeOf(user, list[j]))
             \/ ~V!ByCode(CodeOf(user, list[j]), CodeOf(user, list[i])) /\ i < j
      BY <1>4 DEF PP, PlacePairs
    <3>4. \A a, b \in verdicts : V!ByCode(CodeOf(user, a), CodeOf(user, b)) <=> CodeOf(user, a) < CodeOf(user, b)
      BY <1>c, <2>3 DEF V!ByCode
    <3>5. ASSUME NEW i \in 1 .. N, NEW j \in 1 .. N
          PROVE  <<i, j>> \in PP <=> CodeOf(user, list[i]) < CodeOf(user, list[j])
      <4>1. list[i] \in verdicts /\ list[j] \in verdicts
        BY <3>1
      <4>2. CodeOf(user, list[i]) \in Nat /\ CodeOf(user, list[j]) \in Nat
        BY <2>3, <4>1
      <4>3. <<i, j>> \in PP <=>
               \/ CodeOf(user, list[i]) < CodeOf(user, list[j])
               \/ ~(CodeOf(user, list[j]) < CodeOf(user, list[i])) /\ i < j
        BY <3>3, <3>4, <4>1
      <4>4. CodeOf(user, list[i]) = CodeOf(user, list[j]) => ~(i < j)
        BY <1>1, <3>2
      <4> QED
        BY <4>2, <4>3, <4>4
    <3> QED
      BY <3>5
  <2>6. \A i, j \in 1 .. N : i < j <=> <<s[i], s[j]>> \in CP
    <3>1. \A i, j \in 1 .. N : i < j <=> <<o[i], o[j]>> \in PP
      <4>1. Cardinality(1 .. N) = N
        BY <1>1, FS_Interval
      <4> QED
        BY <1>4, <1>5, <4>1 DEF Lists
    <3>2. \A i \in 1 .. N : s[i] \in verdicts
      BY <1>6, <1>7 DEF ToSet
    <3> QED
      BY <1>6, <2>2, <2>5, <3>1, <3>2
  <2>7. ASSUME NEW i \in 1 .. N
        PROVE  Cardinality({y \in verdicts : <<y, s[i]>> \in CP}) = i - 1
    <3> DEFINE B == {y \in verdicts : <<y, s[i]>> \in CP}
               K == {k \in 1 .. N : <<k, o[i]>> \in PP}
               f == [k \in K |-> list[k]]
    <3>1. Cardinality(K) = i - 1 /\ o[i] \in 1 .. N
      <4>1. Cardinality(1 .. N) = N
        BY <1>1, FS_Interval
      <4> QED
        BY <1>4, <1>5, <1>6, <4>1 DEF Lists
    <3>2. s[i] \in verdicts /\ s[i] = list[o[i]]
      BY <1>2, <1>6
    <3>3. \A k \in 1 .. N : k \in K <=> list[k] \in B
      BY <1>2, <2>2, <2>5, <3>1, <3>2
    <3>4. \A y \in B : \E k \in K : list[k] = y
      <4>1. \A y \in verdicts : \E k \in 1 .. N : list[k] = y
        BY <1>3 DEF Surjection
      <4> QED
        BY <3>3, <4>1
    <3>5. f \in [K -> B] /\ (\A a, b \in K : f[a] = f[b] => a = b) /\ (\A y \in B : \E k \in K : f[k] = y)
      <4>1. \A k \in K : list[k] \in B /\ k \in 1 .. N
        BY <3>3
      <4> HIDE DEF K, B
      <4> QED
        BY <1>2, <3>4, <4>1
    <3>6. IsFiniteSet(K)
      <4>1. IsFiniteSet(1 .. N) /\ K \in SUBSET (1 .. N)
        BY <1>1, FS_Interval
      <4> HIDE DEF K
      <4> QED
        BY <4>1, FS_Subset
    <3> HIDE DEF f, K, B
    <3>7. f \in Injection(K, B) /\ f \in Surjection(K, B)
      BY <3>5 DEF Injection, IsInjective, Surjection
    <3>8. Cardinality(B) = Cardinality(K)
      BY <3>6, <3>7, FS_Bijection DEF Bijection, ExistsBijection
    <3> QED
      BY <3>1, <3>8 DEF B
  <2>8. Lists(s, verdicts, CP)
    BY <1>1, <1>6, <1>7, <2>6, <2>7 DEF Lists, N
  <2> QED
    BY <1>1, <1>6, <2>4, <2>8, OneOrder
<1> QED
  BY <1>7, <1>9, <1>a DEF s, verdicts, CP

\* A verdict as a client is shown it.
VerdictShown(user, row) == V!_verdict_view(Catalogue(user), row)

\* It is shown under its id, with its code.
LEMMA VerdictView ==
  ASSUME StoresInv, NEW user, NEW row \in pg.fit_verdicts
  PROVE  VerdictShown(user, row).id = row.id /\ VerdictShown(user, row).code = CodeOf(user, row)
<1>t. "fit_verdicts" \in DOMAIN Tables
  BY TablesAre DEF TableNames
<1>p. IsDatabase(pg)
  BY DEF StoresInv, TypeOK
<1>1. DOMAIN row = {"id", "user", "run", "role_model", "data"}
  <2>1. DOMAIN row = DOMAIN Columns["fit_verdicts"]
    BY <1>p, <1>t, RowColumns
  <2> QED
    BY <2>1 DEF Columns, FitVerdict
<1>2. VerdictShown(user, row) = V!Wider(row, [code |-> CodeOf(user, row)])
  BY DEF VerdictShown, V!_verdict_view, CodeOf
<1> QED
  BY <1>1, <1>2 DEF V!Wider

\* A run is shown with its Reports, and its verdicts as they are sorted.
LEMMA RunView ==
  ASSUME StoresInv, NEW run \in pg.direction_runs, NEW list
  PROVE  LET s == V!sorted(Catalogue(run.user), list)
             more == [reports |-> V!reports_list_for_run(pg, run.id),
                      verdicts |-> [i \in DOMAIN s |-> VerdictShown(run.user, s[i])]]
             view == V!GetDirectionRun(pg, run.user, run.id, list)
         IN view = V!Wider(run, more) /\ view.reports = more.reports /\ view.verdicts = more.verdicts
<1> DEFINE s == V!sorted(Catalogue(run.user), list)
           drawn == V!reports_list_for_run(pg, run.id)
           verdicts == [i \in DOMAIN s |-> VerdictShown(run.user, s[i])]
           more == [reports |-> drawn, verdicts |-> verdicts]
           view == V!GetDirectionRun(pg, run.user, run.id, list)
<1>t. "direction_runs" \in DOMAIN Tables /\ run \in pg["direction_runs"]
  BY TablesAre DEF TableNames
<1>p. IsDatabase(pg) /\ P!Lawful(pg)
  BY DEF StoresInv, TypeOK
<1>1. /\ \A user : V!Single(V!Select(pg, "direction_runs", [id |-> run.id, user |-> user])) = IF user = run.user THEN run ELSE None
      /\ run # None
  BY <1>p, <1>t, FoundById, NullIsNoRow
<1>2. V!runs_get(pg, run.user, run.id) = run
  BY <1>1 DEF V!runs_get
<1>3. run.id # None
  BY <1>p, <1>t, IdsOfRows, SchemaAssumption DEF IsDatabase
<1>4. DOMAIN run = {"id", "user", "status", "error", "period", "readouts"}
  <2>1. DOMAIN run = DOMAIN Columns["direction_runs"]
    BY <1>p, <1>t, RowColumns
  <2> QED
    BY <2>1 DEF Columns, DirectionRun
<1>5. view = V!Wider(run, more)
  BY <1>1, <1>2, <1>3 DEF V!GetDirectionRun, V!Each, VerdictShown, Catalogue
<1>6. V!Wider(run, more).reports = drawn /\ V!Wider(run, more).verdicts = verdicts
  <2> HIDE DEF drawn, verdicts
  <2> QED
    BY <1>4 DEF V!Wider
<1> QED
  BY <1>5, <1>6

\* What a client is shown of a run.
LEMMA RunsShown ==
  ASSUME StoresInv
  PROVE  RunShown
<1>t. "reports" \in DOMAIN Tables
  BY TablesAre DEF TableNames
<1>p. IsDatabase(pg) /\ P!Lawful(pg)
  BY DEF StoresInv, TypeOK
<1>1. ASSUME NEW run \in pg.direction_runs
      PROVE  LET verdicts == P!verdicts_list_for_run(pg, run.id)
                 views == {V!GetDirectionRun(pg, run.user, run.id, order) : order \in SetToSeqs(verdicts)}
             IN \A view \in views :
                 /\ ToSet(view.reports) = {row \in pg.reports : row.run = run.id}
                 /\ {v.id : v \in ToSet(view.verdicts)} = {v.id : v \in verdicts}
                 /\ \A i, j \in DOMAIN view.verdicts : i < j => ~V!ByCode(view.verdicts[j].code, view.verdicts[i].code)
                 /\ (\A v \in ToSet(view.verdicts) : v.code # None) => views = {view}
  <2> DEFINE verdicts == P!verdicts_list_for_run(pg, run.id)
             view(order) == V!GetDirectionRun(pg, run.user, run.id, order)
             views == {view(order) : order \in SetToSeqs(verdicts)}
             s(order) == V!sorted(Catalogue(run.user), order)
             code(v) == CodeOf(run.user, v)
             own == {row \in pg.reports : row.run = run.id}
  <2>1. verdicts = VerdictsOf(run.id)
    BY ViewsRead DEF P!verdicts_list_for_run, VerdictsOf
  <2>2. ToSet(V!reports_list_for_run(pg, run.id)) = own
    <3>1. V!Select(pg, "reports", [run |-> run.id]) = own
      BY ViewsRead
    <3>2. Keyed(own)
      BY <1>p, <1>t, RowsAreKeyed
    <3>3. \A row \in own : row["dimension"] \in Nat
      <4>1. \A row \in pg["reports"] : row["dimension"] \in Columns["reports"]["dimension"]
        BY <1>p, <1>t, RowColumns DEF Columns, Report
      <4> QED
        BY <4>1, SchemaAssumption DEF Columns, Report
    <3> HIDE DEF own
    <3>4. Lists(V!By(own, "dimension"), own, ByPairs(own, "dimension"))
      BY <3>2, <3>3, ByLists
    <3> QED
      BY <3>1, <3>4 DEF V!reports_list_for_run, Lists
  <2>3. ASSUME NEW order \in SetToSeqs(verdicts)
        PROVE  /\ ToSet(s(order)) = verdicts
               /\ \A i, j \in DOMAIN s(order) : i < j => ~V!ByCode(code(s(order)[j]), code(s(order)[i]))
               /\ (\A v \in verdicts : code(v) # None) => s(order) = Ranked(verdicts, ByCodePairs(run.user, verdicts))
    BY <2>1, VerdictsSorted
  <2>4. \A v \in verdicts : VerdictShown(run.user, v).id = v.id /\ VerdictShown(run.user, v).code = code(v)
    BY <2>1, VerdictView DEF VerdictsOf
  <2>5. ASSUME NEW order
        PROVE  /\ view(order).reports = V!reports_list_for_run(pg, run.id)
               /\ view(order).verdicts = [i \in DOMAIN s(order) |-> VerdictShown(run.user, s(order)[i])]
               /\ view(order) = V!Wider(run, [reports |-> V!reports_list_for_run(pg, run.id),
                                              verdicts |-> [i \in DOMAIN s(order) |-> VerdictShown(run.user, s(order)[i])]])
    BY RunView
  <2> HIDE DEF s, code, view, verdicts, own
  <2>6. ASSUME NEW order \in SetToSeqs(verdicts)
        PROVE  /\ ToSet(view(order).reports) = own
               /\ {v.id : v \in ToSet(view(order).verdicts)} = {v.id : v \in verdicts}
               /\ \A i, j \in DOMAIN view(order).verdicts :
                    i < j => ~V!ByCode(view(order).verdicts[j].code, view(order).verdicts[i].code)
               /\ (\A v \in ToSet(view(order).verdicts) : v.code # None) => \A v \in verdicts : code(v) # None
    <3> DEFINE list == s(order)
               shown == view(order).verdicts
    <3>1. /\ DOMAIN shown = DOMAIN list
          /\ \A i \in DOMAIN list : shown[i] = VerdictShown(run.user, list[i])
      BY <2>5
    <3>2. verdicts = {list[i] : i \in DOMAIN list} /\ \A i \in DOMAIN list : list[i] \in verdicts
      BY <2>3 DEF ToSet
    <3>3. \A i, j \in DOMAIN list : i < j => ~V!ByCode(code(list[j]), code(list[i]))
      BY <2>3
    <3> HIDE DEF list, shown
    <3>4. \A i \in DOMAIN list : shown[i].id = list[i].id /\ shown[i].code = code(list[i])
      BY <2>4, <3>1, <3>2
    <3>5. ToSet(shown) = {shown[i] : i \in DOMAIN list}
      BY <3>1 DEF ToSet
    <3>6. {v.id : v \in ToSet(shown)} = {v.id : v \in verdicts}
      BY <3>2, <3>4, <3>5
    <3>7. \A i, j \in DOMAIN shown : i < j => ~V!ByCode(shown[j].code, shown[i].code)
      BY <3>1, <3>3, <3>4
    <3>8. (\A v \in ToSet(shown) : v.code # None) => \A v \in verdicts : code(v) # None
      BY <3>2, <3>4, <3>5
    <3>9. ToSet(view(order).reports) = own
      BY <2>2, <2>5
    <3> QED
      BY <3>6, <3>7, <3>8, <3>9 DEF shown
  <2>7. ASSUME NEW order \in SetToSeqs(verdicts), \A v \in verdicts : code(v) # None
        PROVE  views = {view(order)}
    <3>1. ASSUME NEW other \in SetToSeqs(verdicts)
          PROVE  view(other) = view(order)
      <4>1. s(other) = s(order)
        BY <2>3, <2>7
      <4> QED
        BY <2>5, <4>1
    <3> QED
      BY <3>1
  <2>8. ASSUME NEW order \in SetToSeqs(verdicts)
        PROVE  (\A v \in ToSet(view(order).verdicts) : v.code # None) => views = {view(order)}
    BY <2>6, <2>7
  <2> HIDE DEF views
  <2>9. ASSUME NEW one \in views
        PROVE  \E order \in SetToSeqs(verdicts) : one = view(order)
    BY <2>9 DEF views
  <2>a. \A one \in views :
          /\ ToSet(one.reports) = own
          /\ {v.id : v \in ToSet(one.verdicts)} = {v.id : v \in verdicts}
          /\ \A i, j \in DOMAIN one.verdicts : i < j => ~V!ByCode(one.verdicts[j].code, one.verdicts[i].code)
          /\ (\A v \in ToSet(one.verdicts) : v.code # None) => views = {one}
    <3>1. ASSUME NEW one \in views
          PROVE  /\ ToSet(one.reports) = own
                 /\ {v.id : v \in ToSet(one.verdicts)} = {v.id : v \in verdicts}
                 /\ \A i, j \in DOMAIN one.verdicts : i < j => ~V!ByCode(one.verdicts[j].code, one.verdicts[i].code)
                 /\ (\A v \in ToSet(one.verdicts) : v.code # None) => views = {one}
      <4>1. PICK order \in SetToSeqs(verdicts) : one = view(order)
        BY <2>9
      <4> QED
        BY <2>6, <2>8, <4>1
    <3> QED
      BY <3>1
  <2> QED
    BY <2>a DEF views, view, verdicts, own
<1> QED
  BY <1>1 DEF RunShown

\* NothingIsHidden, of every part of the ports: a client is shown every upload,
\* verdict, version, goal and task of its own, each once and in order.
THEOREM NothingHidden == Spec => []NothingIsHidden
<1>1. StoresInv => NothingIsHidden
  <2> SUFFICES ASSUME StoresInv
               PROVE  NothingIsHidden
    OBVIOUS
  <2>1. ImportsShown /\ RunShown /\ HypothesesShown /\ PlanShown
    BY UploadsShown, RunsShown, VersionsShown, PlansShown DEF StoresInv, TypeOK
  <2> QED
    BY <2>1 DEF NothingIsHidden
<1> QED
  BY <1>1, StoresInvariant, PTL
=============================================================================
