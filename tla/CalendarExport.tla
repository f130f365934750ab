--------------------------- MODULE CalendarExport ---------------------------
(***************************************************************************)
(* One plan's Schedule on Google Calendar, and the statuses of its tasks   *)
(* that travel there.                                                      *)
(*                                                                         *)
(* API requests ask for the export (RequestExport), take it off again      *)
(* (UnexportPlan) and change tasks (UpdateTaskStatus, SubmitCheckin); the  *)
(* `export.push` job (PushExport) copies the tasks to the calendar.  Every *)
(* repository call is a transaction of its own and every calendar call a   *)
(* request to Google, so a push works on rows it read some time ago.       *)
(*                                                                         *)
(* A client makes one call; the push it enqueues, if any, has its name.    *)
(* An event is <<calendar, task, copy>>; a slot's external_ref is the      *)
(* calendar and the copy.  0 stands for None.  `pending` also stands for   *)
(* `skipped`, which an event shows in the same way.  The API's and the     *)
(* worker's clocks agree.  Left out: the text of an event, the last_synced *)
(* and error columns, and the check-in's own row.                          *)
(***************************************************************************)
EXTENDS JobQueue, FiniteSets

CONSTANTS
    MaxTasks,       \* tasks of the plan, numbered in the order of their slots
    Rest,           \* those of type `rest`
    Requests,       \* calls of RequestExport
    Unexports,      \* calls of UnexportPlan
    Changes,        \* calls of UpdateTaskStatus or SubmitCheckin
    Touched,        \* bound: tasks whose status the user changes
    Patient,        \* the user waits, as PatientCall says
    MaxCopies       \* bound: events of one task on one calendar

Tasks == 1..MaxTasks
Status == {"pending", "done", "missed"}
Jobs == Requests \cup Changes
Clients == Jobs \cup Unexports

ASSUME ExportConstants ==
    /\ MaxTasks \in Nat /\ MaxCopies \in Nat
    /\ Rest \subseteq Tasks /\ Touched \subseteq Tasks
    /\ Patient \in BOOLEAN
    /\ Requests \cap Changes = {} /\ Jobs \cap Unexports = {}

VARIABLES
    task,           \* task[t]: [status, completed_at]
    slot,           \* slot[t]: [ref, synced_at], the export columns of its slot
    export,         \* the plan_exports row: [status, calendar]
    created,        \* number of calendars ever made at Google
    calendars,      \* those not deleted since
    events,         \* events[e]: the status the live event e shows
    clock,          \* readings of the clock so far
    client,         \* client[k]: [at, todo, calendar]
    push,           \* push[j]: what the handler of job j holds
    overtaken       \* history: tasks changed while a push held an older row

plan == <<task, slot, export>>
google == <<created, calendars, events>>
vars == <<plan, google, clock, queue, at, client, push, overtaken>>

NoRef == <<0, 0>>
NoExport == [status |-> "none", calendar |-> 0]
Ready == [at |-> "ready", todo |-> {}, calendar |-> 0]
NoPush == [calendar |-> 0, rows |-> [t \in {} |-> 0], now |-> 0, ref |-> NoRef]

Init ==
    /\ task = [t \in Tasks |-> [status |-> "pending", completed_at |-> 0]]
    /\ slot = [t \in Tasks |-> [ref |-> NoRef, synced_at |-> 0]]
    /\ export = NoExport
    /\ created = 0
    /\ calendars = {}
    /\ events = [e \in {} |-> "pending"]
    /\ clock = 0
    /\ QueueInit(Jobs)
    /\ client = [k \in Clients |-> Ready]
    /\ push = [j \in Jobs |-> NoPush]
    /\ overtaken = {}

-----------------------------------------------------------------------------
\* Never synced, or completed after the last sync.
Dirty(t) == slot[t].synced_at = 0 \/ task[t].completed_at > slot[t].synced_at

Event(t) == <<slot[t].ref[1], t, slot[t].ref[2]>>

\* Rest markers stay out of the calendar.
should_export(t) == t \notin Rest

Under(k) == client[k].at \notin {"ready", "over", "gone"}
InQueue(j) == job[j] \in {"queued", "running"}
Pushing == \E j \in Jobs : InQueue(j)

\* A patient user asks for the export, or removes it, only when no push and no
\* other such call is under way, and changes nothing during a removal.
PatientCall(k) ==
    Patient =>
        /\ \A u \in Unexports : ~Under(u)
        /\ k \in Requests \cup Unexports => ~Pushing /\ \A r \in Requests : ~Under(r)
        /\ k \in Unexports => \A c \in Changes : ~Under(c)

Calls(k, step, todo, calendar) ==
    client' = [client EXCEPT ![k] = [at |-> step, todo |-> todo, calendar |-> calendar]]

Moves(k, step) == Calls(k, step, client[k].todo, client[k].calendar)

-----------------------------------------------------------------------------
(***************************************************************************)
(* RequestExport: read the record, write it back as queued, enqueue.  A    *)
(* request that is refused (the plan is not active, Google is not          *)
(* connected) changes nothing and is no step.                              *)
(***************************************************************************)
RequestReads(k) ==
    /\ k \in Requests /\ client[k].at = "ready" /\ PatientCall(k)
    /\ Calls(k, "upsert", {}, export.calendar)
    /\ UNCHANGED <<plan, google, clock, queue, at, push, overtaken>>

RequestUpserts(k) ==
    /\ k \in Requests /\ client[k].at = "upsert"
    /\ export' = [status |-> "queued", calendar |-> client[k].calendar]
    /\ Moves(k, "enqueue")
    /\ UNCHANGED <<task, slot, google, clock, queue, at, push, overtaken>>

RequestEnqueues(k) ==
    /\ k \in Requests /\ client[k].at = "enqueue"
    /\ Enqueue(k)
    /\ Moves(k, "over")
    /\ UNCHANGED <<plan, google, clock, push, overtaken>>

\* The mode of a push: only a request that found no calendar asks for `full`.
Full(j) == j \in Requests /\ client[j].calendar = 0

-----------------------------------------------------------------------------
(***************************************************************************)
(* UpdateTaskStatus and SubmitCheckin: write the statuses in one           *)
(* transaction, mark the slots dirty one by one, and enqueue a push if     *)
(* there is a calendar to push to.                                         *)
(***************************************************************************)
\* One task and any status, or a day's tasks done or missed.
TickResults == UNION {[{t} -> Status] : t \in Touched}
CheckinResults == UNION {[S -> {"done", "missed"}] : S \in SUBSET Touched \ {{}}}

SetStatuses(k) ==
    /\ k \in Changes /\ client[k].at = "ready" /\ PatientCall(k)
    /\ clock' = clock + 1
    /\ \E result \in TickResults \cup CheckinResults :
          /\ task' = [t \in Tasks |->
                IF t \in DOMAIN result
                THEN [status |-> result[t],
                      completed_at |-> IF result[t] = "done" THEN clock + 1 ELSE 0]
                ELSE task[t]]
          /\ Calls(k, "mark", DOMAIN result, 0)
          /\ overtaken' = overtaken \cup
                {t \in DOMAIN result : \E j \in Jobs : t \in DOMAIN push[j].rows}
    /\ UNCHANGED <<slot, export, google, queue, at, push>>

\* Mutant: "a bulk status write does not touch the export bookkeeping", and
\* nothing else does.
MarkNothing(k) ==
    /\ k \in Changes /\ client[k].at = "mark"
    /\ Calls(k, "enqueue", {}, 0)
    /\ UNCHANGED <<plan, google, clock, queue, at, push, overtaken>>

MarkDirty(k) ==
    /\ k \in Changes /\ client[k].at = "mark"
    /\ \E t \in client[k].todo :
          /\ slot' = [slot EXCEPT ![t] = [ref |-> slot[t].ref, synced_at |-> 0]]
          /\ Calls(k, IF client[k].todo = {t} THEN "enqueue" ELSE "mark",
                   client[k].todo \ {t}, 0)
    /\ UNCHANGED <<task, export, google, clock, queue, at, push, overtaken>>

enqueue_incremental_export(k) ==
    /\ k \in Changes /\ client[k].at = "enqueue"
    /\ \/ export.calendar # 0 /\ Enqueue(k)
       \/ export.calendar = 0 /\ UNCHANGED <<queue, at>>
    /\ Moves(k, "over")
    /\ UNCHANGED <<plan, google, clock, push, overtaken>>

-----------------------------------------------------------------------------
(***************************************************************************)
(* UnexportPlan: delete the calendar, forget every event, delete the row.  *)
(***************************************************************************)
UnexportReads(k) ==
    /\ k \in Unexports /\ client[k].at = "ready" /\ PatientCall(k)
    /\ export # NoExport
    /\ Calls(k, IF export.calendar = 0 THEN "forget" ELSE "delete", Tasks, export.calendar)
    /\ UNCHANGED <<plan, google, clock, queue, at, push, overtaken>>

\* A calendar that is gone already is as good as deleted.
DeleteCalendar(k) ==
    /\ k \in Unexports /\ client[k].at = "delete"
    /\ calendars' = calendars \ {client[k].calendar}
    /\ events' = [e \in {d \in DOMAIN events : d[1] # client[k].calendar} |-> events[e]]
    /\ Moves(k, "forget")
    /\ UNCHANGED <<plan, created, clock, queue, at, push, overtaken>>

\* Mutant: the event id is forgotten, the time of the sync is not.
ForgetRefOnly(k) ==
    /\ k \in Unexports /\ client[k].at = "forget"
    /\ \E t \in client[k].todo :
          /\ \A u \in client[k].todo : t <= u
          /\ slot' = [slot EXCEPT ![t] = [ref |-> NoRef, synced_at |-> slot[t].synced_at]]
          /\ Calls(k, "forget", client[k].todo \ {t}, client[k].calendar)
    /\ UNCHANGED <<task, export, google, clock, queue, at, push, overtaken>>

ForgetEvent(k) ==
    /\ k \in Unexports /\ client[k].at = "forget"
    /\ \E t \in client[k].todo :
          /\ \A u \in client[k].todo : t <= u
          /\ slot' = [slot EXCEPT ![t] = [ref |-> NoRef, synced_at |-> 0]]
          /\ Calls(k, "forget", client[k].todo \ {t}, client[k].calendar)
    /\ UNCHANGED <<task, export, google, clock, queue, at, push, overtaken>>

DeleteRecord(k) ==
    /\ k \in Unexports /\ client[k].at = "forget" /\ client[k].todo = {}
    /\ export' = NoExport
    /\ Moves(k, "over")
    /\ UNCHANGED <<task, slot, google, clock, queue, at, push, overtaken>>

\* The API process dies, or a call fails, between two steps of a client.
ClientDies(k) ==
    /\ "lost_enqueue" \in Faults
    /\ Under(k)
    /\ Moves(k, "gone")
    /\ UNCHANGED <<plan, google, clock, queue, at, push, overtaken>>

-----------------------------------------------------------------------------
(***************************************************************************)
(* PushExport: the handler of `export.push`.                               *)
(***************************************************************************)
Hold(j, calendar, rows, now, ref) ==
    push' = [push EXCEPT ![j] =
                [calendar |-> calendar, rows |-> rows, now |-> now, ref |-> ref]]

Releases(j) == push' = [push EXCEPT ![j] = NoPush]

LoadPlan(j) ==
    /\ at[j] = "load"
    /\ Goto(j, IF Full(j) THEN "create" ELSE "record")
    /\ UNCHANGED <<plan, google, clock, queue, client, push, overtaken>>

CreateCalendar(j) ==
    /\ at[j] = "create"
    /\ created' = created + 1
    /\ calendars' = calendars \cup {created + 1}
    /\ Hold(j, created + 1, NoPush.rows, 0, NoRef)
    /\ Goto(j, "list")
    /\ UNCHANGED <<plan, events, clock, queue, client, overtaken>>

\* An incremental push needs a calendar; without one it fails.
ReadRecord(j) ==
    /\ at[j] = "record"
    /\ Hold(j, export.calendar, NoPush.rows, 0, NoRef)
    /\ Goto(j, IF export.calendar = 0 THEN "failing" ELSE "list")
    /\ UNCHANGED <<plan, google, clock, queue, client, overtaken>>

\* All the rows, or the dirty ones.
ListRows(j) ==
    /\ at[j] = "list"
    /\ Hold(j, push[j].calendar,
            [t \in {u \in Tasks : Full(j) \/ Dirty(u)} |->
                [status |-> task[t].status, ref |-> slot[t].ref]], 0, NoRef)
    /\ Goto(j, "now")
    /\ UNCHANGED <<plan, google, clock, queue, client, overtaken>>

\* Mutant: the last row is left out.
AfterAllButOne(rows) == IF Cardinality(DOMAIN rows) <= 1 THEN "upsert" ELSE "sync"
After(rows) == IF DOMAIN rows = {} THEN "upsert" ELSE "sync"

ReadClock(j) ==
    /\ at[j] = "now"
    /\ clock' = clock + 1
    /\ Hold(j, push[j].calendar, push[j].rows, clock + 1, NoRef)
    /\ Goto(j, After(push[j].rows))
    /\ UNCHANGED <<plan, google, queue, client, overtaken>>

IsFirst(j, t) == t \in DOMAIN push[j].rows /\ \A u \in DOMAIN push[j].rows : t <= u

\* Mutant: every push creates its events.
NoKnownRef(j, t) == NoRef
\* `replace`: the old calendar is gone, so a stored event id is stale.
KnownRef(j, t) == IF Full(j) THEN NoRef ELSE push[j].rows[t].ref

KnownEvent(j, t) == <<push[j].calendar, t, KnownRef(j, t)[2]>>

\* The event is on the calendar the push works on.
Found(j, t) ==
    KnownRef(j, t)[1] = push[j].calendar /\ KnownEvent(j, t) \in DOMAIN events

Synced(j, ref) ==
    /\ Hold(j, push[j].calendar, push[j].rows, push[j].now, ref)
    /\ Goto(j, "mark")
    /\ UNCHANGED <<plan, created, calendars, clock, queue, client, overtaken>>

\* A slot that is not exported takes its event with it.
DropEvent(j, t) ==
    /\ ~should_export(t)
    /\ events' = [e \in DOMAIN events \ {KnownEvent(j, t)} |-> events[e]]
    /\ Synced(j, NoRef)

CreateEvent(j, t) ==
    /\ should_export(t) /\ KnownRef(j, t) = NoRef
    /\ push[j].calendar \in calendars
    /\ \E n \in 1..MaxCopies :
          LET e == <<push[j].calendar, t, n>> IN
          /\ e \notin DOMAIN events
          /\ \A m \in 1..(n - 1) : <<push[j].calendar, t, m>> \in DOMAIN events
          /\ events' = [d \in DOMAIN events \cup {e} |->
                           IF d = e THEN push[j].rows[t].status ELSE events[d]]
          /\ Synced(j, <<push[j].calendar, n>>)

UpdateEvent(j, t) ==
    /\ should_export(t) /\ KnownRef(j, t) # NoRef
    /\ Found(j, t)
    /\ events' = [events EXCEPT ![KnownEvent(j, t)] = push[j].rows[t].status]
    /\ Synced(j, KnownRef(j, t))

SyncEvent(j) ==
    /\ at[j] = "sync"
    /\ \E t \in Tasks : IsFirst(j, t) /\ (DropEvent(j, t) \/ CreateEvent(j, t) \/ UpdateEvent(j, t))

\* Google answers 404: the calendar, or the event on this calendar, is not there.
NotAtGoogle(j) ==
    /\ at[j] = "sync"
    /\ \E t \in Tasks :
          /\ IsFirst(j, t) /\ should_export(t)
          /\ IF KnownRef(j, t) = NoRef THEN push[j].calendar \notin calendars ELSE ~Found(j, t)
    /\ Releases(j)
    /\ Goto(j, "failing")
    /\ UNCHANGED <<plan, google, clock, queue, client, overtaken>>

mark_synced(j) ==
    /\ at[j] = "mark"
    /\ \E t \in Tasks :
          /\ IsFirst(j, t)
          /\ slot' = [slot EXCEPT ![t] = [ref |-> push[j].ref, synced_at |-> push[j].now]]
          /\ LET left == [u \in DOMAIN push[j].rows \ {t} |-> push[j].rows[u]] IN
             /\ Hold(j, push[j].calendar, left, push[j].now, NoRef)
             /\ Goto(j, After(left))
    /\ UNCHANGED <<task, export, google, clock, queue, client, overtaken>>

RecordSynced(j) ==
    /\ at[j] = "upsert"
    /\ export' = [status |-> "synced", calendar |-> push[j].calendar]
    /\ Releases(j)
    /\ Goto(j, "return")
    /\ UNCHANGED <<task, slot, google, clock, queue, client, overtaken>>

\* _fail: read the record, write it back as failed.
FailReads(j) ==
    /\ at[j] = "failing"
    /\ Hold(j, export.calendar, NoPush.rows, 0, NoRef)
    /\ Goto(j, "fail")
    /\ UNCHANGED <<plan, google, clock, queue, client, overtaken>>

\* Mutant: the failure is only logged.
FailSilently(j) ==
    /\ at[j] = "fail"
    /\ Releases(j)
    /\ Goto(j, "return")
    /\ UNCHANGED <<plan, google, clock, queue, client, overtaken>>

FailWrites(j) ==
    /\ at[j] = "fail"
    /\ export' = [status |-> "failed", calendar |-> push[j].calendar]
    /\ Releases(j)
    /\ Goto(j, "return")
    /\ UNCHANGED <<task, slot, google, clock, queue, client, overtaken>>

\* Google, the token or the database raises; _fail itself is outside the try.
PushRaises(j) ==
    /\ \/ /\ "raise" \in Faults
          /\ at[j] \notin {"idle", "failing", "fail", "return", "raise"}
          /\ Goto(j, "failing")
       \/ /\ "raise_unhandled" \in Faults
          /\ at[j] \in {"failing", "fail"}
          /\ Goto(j, "raise")
    /\ Releases(j)
    /\ UNCHANGED <<plan, google, clock, queue, client, overtaken>>

-----------------------------------------------------------------------------
Outside == <<plan, google, clock, client, overtaken>>

Deliver(j)        == Delivered(j) /\ UNCHANGED <<Outside, push>>
TriesExhausted(j) == GivenUp(j) /\ UNCHANGED <<Outside, push>>
JobReturns(j)     == Returned(j) /\ UNCHANGED <<Outside, push>>
JobRaises(j)      == Raised(j) /\ UNCHANGED <<Outside, push>>
JobTimesOut(j)    == TimedOut(j) /\ Releases(j) /\ UNCHANGED Outside
WorkerCrashes(j)  == Stopped(j) /\ Releases(j) /\ UNCHANGED Outside

RequestStep(k) == RequestReads(k) \/ RequestUpserts(k) \/ RequestEnqueues(k)

ChangeStep(k) ==
    SetStatuses(k) \/ MarkDirty(k) \/ enqueue_incremental_export(k)

UnexportStep(k) ==
    UnexportReads(k) \/ DeleteCalendar(k) \/ ForgetEvent(k) \/ DeleteRecord(k)

PushStep(j) ==
    \/ LoadPlan(j) \/ CreateCalendar(j) \/ ReadRecord(j) \/ ListRows(j) \/ ReadClock(j)
    \/ SyncEvent(j) \/ NotAtGoogle(j) \/ mark_synced(j) \/ RecordSynced(j)
    \/ FailReads(j) \/ FailWrites(j)

QueueStep(j) == Deliver(j) \/ TriesExhausted(j) \/ JobReturns(j) \/ JobRaises(j)

Fault(j) == JobTimesOut(j) \/ WorkerCrashes(j) \/ PushRaises(j)

Next ==
    \/ \E k \in Clients : RequestStep(k) \/ ChangeStep(k) \/ UnexportStep(k) \/ ClientDies(k)
    \/ \E j \in Jobs : PushStep(j) \/ QueueStep(j) \/ Fault(j)

Spec == Init /\ [][Next]_vars

(***************************************************************************)
(* Fairness: the worker goes on with a push, and takes the next one.       *)
(***************************************************************************)
FairSpec == Spec /\ \A j \in Jobs : WF_vars(PushStep(j)) /\ WF_vars(QueueStep(j))
-----------------------------------------------------------------------------
(***************************************************************************)
(* Properties.                                                             *)
(***************************************************************************)
PushSteps == {"idle", "load", "create", "record", "list", "now", "sync", "mark",
              "upsert", "failing", "fail", "return", "raise"}
ClientSteps == {"ready", "upsert", "mark", "delete", "forget", "enqueue", "over", "gone"}
Ref == (0..created) \X (0..MaxCopies)
ExportStatus == {"none", "queued", "synced", "failed"}
Row == [status : Status, ref : Ref]

\* Every variable has its type.
TypeOK ==
    /\ clock \in Nat /\ created \in Nat
    /\ task \in [Tasks -> [status : Status, completed_at : 0..clock]]
    /\ slot \in [Tasks -> [ref : Ref, synced_at : 0..clock]]
    /\ export \in [status : ExportStatus, calendar : 0..created]
    /\ calendars \subseteq 1..created
    /\ DOMAIN events \subseteq calendars \X Tasks \X (1..MaxCopies)
    /\ \A e \in DOMAIN events : events[e] \in Status
    /\ QueueTypeOK(Jobs, PushSteps)
    /\ client \in [Clients -> [at : ClientSteps, todo : SUBSET Tasks, calendar : 0..created]]
    /\ DOMAIN push = Jobs
    /\ \A j \in Jobs :
          /\ push[j].calendar \in 0..created /\ push[j].now \in 0..clock
          /\ push[j].ref \in Ref
          /\ DOMAIN push[j].rows \subseteq Tasks
          /\ \A t \in DOMAIN push[j].rows : push[j].rows[t] \in Row
    /\ overtaken \subseteq Tasks

\* Task t has an event that shows something other than its status.
Stale(t) == Event(t) \in DOMAIN events /\ events[Event(t)] # task[t].status

\* A call that changed t has not marked its slot yet.
Owed(t) == \E k \in Changes : t \in client[k].todo

\* The one way to lose a change: the task changed while a push held an older
\* copy of its row.  No failure, redelivery or second push loses one.
LostOnlyWhenOvertaken ==
    \A t \in Tasks : Stale(t) => Dirty(t) \/ Owed(t) \/ t \in overtaken

\* external_ref "is kept so a re-push updates rather than duplicates": no
\* calendar has two events of one task, nor one of a rest day.
OneEventEach ==
    \A d, e \in DOMAIN events :
        /\ should_export(d[2])
        /\ d[1] = e[1] /\ d[2] = e[2] => d = e


\* The recorded calendar is there and holds the event of every slot, as long as
\* no full push was delivered twice and no removal stopped halfway.
RecordedCalendarIsWhole ==
    /\ export.calendar # 0
    /\ \A j \in Jobs : Full(j) => tries[j] <= 1
    /\ \A k \in Unexports : client[k].at \in {"ready", "over"}
    => /\ export.calendar \in calendars
       /\ \A t \in Tasks \ Rest :
             slot[t].ref[1] = export.calendar /\ Event(t) \in DOMAIN events

\* Removing the export "forgets every event id": without a record and without
\* a call under way nothing is left of it, so the next export starts afresh.
RemovedIsForgotten ==
    export = NoExport /\ ~Pushing /\ (\A k \in Requests : ~Under(k))
    => \A t \in Tasks : slot[t] = [ref |-> NoRef, synced_at |-> 0]

\* "Whatever goes wrong ends up on the plan_exports row": a slot that is dirty
\* when a push is queued is pushed, unless it changes meanwhile, or the record
\* says that a push failed, or the queue gave the job up.
PushedOrReported ==
    \A j \in Jobs, t \in Tasks \ Rest :
        job[j] = "queued" /\ Dirty(t)
            ~> ~Dirty(t) \/ t \in overtaken \/ export.status = "failed" \/ job[j] = "failed"
-----------------------------------------------------------------------------
(***************************************************************************)
(* The inductive invariant.                                                *)
(***************************************************************************)
\* A job runs after its client's call; what its handler holds fits its step.
JobFits(j) ==
    /\ at[j] # "idle" <=> job[j] = "running"
    /\ job[j] # "none" => client[j].at = "over"
    /\ job[j] = "running" => tries[j] > 0
    /\ job[j] = "none" => tries[j] = 0
    /\ at[j] = "create" => Full(j)
    /\ at[j] = "record" => ~Full(j)
    /\ at[j] \notin {"list", "now", "sync", "mark", "upsert", "fail"} => push[j] = NoPush
    /\ at[j] \in {"list", "now", "sync", "mark", "upsert"} => push[j].calendar # 0
    /\ at[j] \in {"list", "upsert", "fail"} => DOMAIN push[j].rows = {}
    /\ at[j] = "now" /\ Full(j) => DOMAIN push[j].rows = Tasks

\* What a push holds of a task that was not changed meanwhile is its status, and so
\* is what the event shows that it has just written.
Written(j, t) == <<push[j].ref[1], t, push[j].ref[2]>>

HoldsCurrent(j) ==
    /\ \A t \in DOMAIN push[j].rows \ overtaken : push[j].rows[t].status = task[t].status
    /\ at[j] = "mark" => \A t \in Tasks \ overtaken :
          IsFirst(j, t) /\ Written(j, t) \in DOMAIN events => events[Written(j, t)] = task[t].status

\* A patient user's calls take turns: nothing is under way beside a removal, and one
\* request at a time has its push.
Turns ==
    /\ \A u \in Unexports : Under(u) => ~Pushing /\ \A k \in Clients : Under(k) => k = u
    /\ \A r, s \in Requests : Under(r) => ~InQueue(s) /\ (Under(s) => s = r)
    /\ \A r, s \in Requests : InQueue(r) /\ InQueue(s) => r = s

\* A removal works on the recorded calendar, and deletes it before it forgets.
Blank == [ref |-> NoRef, synced_at |-> 0]
Removes(u) ==
    Under(u) =>
        /\ client[u].calendar = export.calendar
        /\ client[u].at = "delete" => client[u].todo = Tasks
        /\ client[u].at = "forget" =>
              export.calendar \notin calendars /\ \A t \in Tasks \ client[u].todo : slot[t] = Blank

\* Without a record there is nothing to push and no event to remember.
Forgotten ==
    export = NoExport =>
        /\ ~Pushing /\ \A r \in Requests : client[r].at # "enqueue"
        /\ \A t \in Tasks : slot[t] = Blank

\* While a calendar that is recorded, or will be again, is there, every slot to be
\* exported names an event; the push of a new calendar sees to it row by row.
Named(S) == \A t \in S \ Rest : slot[t].ref # NoRef

SlotsAreNamed ==
    /\ export.calendar \in calendars => Named(Tasks)
    /\ \A r \in Requests :
          client[r].at = "upsert" /\ client[r].calendar \in calendars => Named(Tasks)

RowsAreNamed(j) ==
    /\ (~Full(j) \/ at[j] = "fail") /\ push[j].calendar \in calendars =>
          Named(Tasks) /\ \A t \in DOMAIN push[j].rows \ Rest : push[j].rows[t].ref # NoRef
    /\ Full(j) /\ at[j] \in {"sync", "mark", "upsert"} => Named(Tasks \ DOMAIN push[j].rows)
    /\ at[j] = "mark" => \A t \in Tasks \ Rest : IsFirst(j, t) => push[j].ref # NoRef

\* A new calendar has no event of a row that its push has still to write.
FreshCalendar(j) ==
    Full(j) => \A e \in DOMAIN events :
        e[1] = push[j].calendar =>
            /\ at[j] # "list"
            /\ at[j] \in {"now", "sync"} => e[2] \notin DOMAIN push[j].rows
            /\ at[j] = "mark" => e[2] \notin DOMAIN push[j].rows \/ IsFirst(j, e[2])

\* As long as no full push was delivered twice and no removal is under way or
\* stopped halfway: a request acts on the recorded calendar,
Unbroken ==
    /\ \A j \in Jobs : Full(j) => tries[j] <= 1
    /\ \A k \in Unexports : client[k].at \in {"ready", "over"}

AsRecorded(r) ==
    Under(r) => client[r].calendar = export.calendar /\ (export.calendar = 0 => ~Pushing)

\* the push of a new calendar has nobody beside it until it records it,
Alone(j) ==
    Full(j) /\ ((job[j] = "queued" /\ tries[j] = 0) \/ at[j] \notin {"idle", "return", "raise"}) =>
        export.calendar = 0 /\ \A k \in Jobs : InQueue(k) => k = j

\* and what a push has written, or knows of, is there.
IsThere(ref, t) == <<ref[1], t, ref[2]>> \in DOMAIN events

WritesWhole(j) ==
    /\ Full(j) /\ at[j] \in {"list", "now", "sync", "mark", "upsert"} => push[j].calendar \in calendars
    /\ Full(j) /\ at[j] \in {"sync", "mark", "upsert"} =>
          \A t \in (Tasks \ Rest) \ DOMAIN push[j].rows :
             slot[t].ref[1] = push[j].calendar /\ IsThere(slot[t].ref, t)
    /\ (~Full(j) /\ at[j] \in {"list", "now", "sync", "mark", "upsert"}) \/ at[j] = "fail" =>
          push[j].calendar = export.calendar
    /\ ~Full(j) => \A t \in DOMAIN push[j].rows \ Rest :
          push[j].rows[t].ref[1] = push[j].calendar /\ IsThere(push[j].rows[t].ref, t)
    /\ at[j] = "mark" => \A t \in Tasks \ Rest :
          IsFirst(j, t) => push[j].ref[1] = push[j].calendar /\ IsThere(push[j].ref, t)

\* What the theorems of CalendarExportProofs rest on.
CalendarInv ==
    /\ TypeOK
    /\ \A j \in Jobs : JobFits(j) /\ HoldsCurrent(j)
    /\ \A k \in Clients : client[k].at = "ready" => client[k].todo = {}
    /\ Patient =>
          /\ Turns /\ Forgotten /\ SlotsAreNamed
          /\ \A u \in Unexports : Removes(u)
          /\ \A j \in Jobs : RowsAreNamed(j) /\ FreshCalendar(j)
          /\ OneEventEach
    /\ Patient /\ Unbroken =>
          /\ \A r \in Requests : AsRecorded(r)
          /\ \A j \in Jobs : Alone(j) /\ WritesWhole(j)
=============================================================================
