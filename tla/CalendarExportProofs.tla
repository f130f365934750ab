------------------------ MODULE CalendarExportProofs ------------------------
(***************************************************************************)
(* Theorems about CalendarExport, for any number of tasks, calls and       *)
(* deliveries, and every set of faults.                                    *)
(***************************************************************************)
EXTENDS CalendarExport, TLAPS

\* The queue's steps keep its types (packages/queue).
LEMMA QueueActionTypeOK ==
  ASSUME NEW J, NEW Steps, {"idle", "load"} \subseteq Steps,
         NEW j \in J, QueueTypeOK(J, Steps), QueueAction(j)
  PROVE  QueueTypeOK(J, Steps)'
<1> USE QueueConstants DEF QueueTypeOK, JobStatus, Goto, Ends
<1>1. CASE Enqueue(j)
  BY <1>1 DEF Enqueue
<1>2. CASE Delivered(j)
  BY <1>2 DEF Delivered
<1>3. CASE GivenUp(j)
  BY <1>3 DEF GivenUp
<1>4. CASE Returned(j) \/ Raised(j) \/ TimedOut(j) \/ Stopped(j)
  BY <1>4 DEF Returned, Raised, TimedOut, Stopped
<1>5. QED
  BY <1>1, <1>2, <1>3, <1>4 DEF QueueAction

\* They leave every other job alone.
LEMMA QueueActionFrame ==
  ASSUME NEW J, NEW Steps, NEW j \in J, QueueTypeOK(J, Steps), QueueAction(j),
         NEW k \in J, k # j
  PROVE  job'[k] = job[k] /\ tries'[k] = tries[k] /\ at'[k] = at[k]
  BY DEF QueueTypeOK, QueueAction, Enqueue, Delivered, GivenUp, Returned, Raised,
         TimedOut, Stopped, Goto, Ends

\* A step of a client; one of a handler; one that only concerns a job.
ClientStep(k) == RequestStep(k) \/ ChangeStep(k) \/ UnexportStep(k) \/ ClientDies(k)
Handles(j) == PushStep(j) \/ PushRaises(j)
OnlyQueue(j) == QueueStep(j) \/ JobTimesOut(j) \/ WorkerCrashes(j)

LEMMA NextCases ==
  ASSUME [Next]_vars
  PROVE  \/ \E k \in Clients : ClientStep(k)
         \/ \E j \in Jobs : Handles(j)
         \/ \E j \in Jobs : OnlyQueue(j)
         \/ UNCHANGED vars
  BY DEF Next, Fault, ClientStep, Handles, OnlyQueue

\* The kinds of calls do not overlap; a task to be exported is none to rest on.
LEMMA Kinds ==
  /\ Requests \subseteq Jobs /\ Changes \subseteq Jobs /\ Jobs \subseteq Clients
  /\ Unexports \subseteq Clients
  /\ \A k \in Clients : \/ k \in Requests /\ k \notin Changes /\ k \notin Unexports
                        \/ k \notin Requests /\ k \in Changes /\ k \notin Unexports
                        \/ k \notin Requests /\ k \notin Changes /\ k \in Unexports
  BY ExportConstants DEF Jobs, Clients

\* A client's entry after its step, and the others'.
LEMMA CallsFrame ==
  ASSUME TypeOK, NEW k \in Clients, NEW step, NEW todo, NEW calendar,
         Calls(k, step, todo, calendar)
  PROVE  /\ client'[k].at = step /\ client'[k].todo = todo /\ client'[k].calendar = calendar
         /\ \A m \in Clients : m # k => client'[m] = client[m]
         /\ DOMAIN client' = Clients
  BY DEF TypeOK, Calls

\* What a push holds after its step, and the others.
LEMMA HoldFrame ==
  ASSUME TypeOK, NEW j \in Jobs, NEW calendar, NEW rows, NEW now, NEW ref,
         Hold(j, calendar, rows, now, ref)
  PROVE  /\ push'[j].calendar = calendar /\ push'[j].rows = rows /\ push'[j].now = now
         /\ push'[j].ref = ref
         /\ \A i \in Jobs : i # j => push'[i] = push[i]
         /\ DOMAIN push' = Jobs
  BY DEF TypeOK, Hold

LEMMA ReleasesFrame ==
  ASSUME TypeOK, NEW j \in Jobs, Releases(j)
  PROVE  /\ push'[j] = NoPush
         /\ \A i \in Jobs : i # j => push'[i] = push[i]
         /\ DOMAIN push' = Jobs
  BY DEF TypeOK, Releases

LEMMA GotoFrame ==
  ASSUME TypeOK, NEW j \in Jobs, NEW step, Goto(j, step)
  PROVE  /\ at'[j] = step
         /\ \A i \in Jobs : i # j => at'[i] = at[i]
         /\ step \in PushSteps => at' \in [Jobs -> PushSteps]
  BY DEF TypeOK, QueueTypeOK, Goto

\* The fields of the rows, the calls and the pushes.
LEMMA Fields ==
  ASSUME TypeOK
  PROVE  /\ \A t \in Tasks : /\ task[t].status \in Status /\ task[t].completed_at \in 0..clock
                             /\ slot[t].ref \in Ref /\ slot[t].synced_at \in 0..clock
                             /\ slot[t] = [ref |-> slot[t].ref, synced_at |-> slot[t].synced_at]
         /\ export.status \in ExportStatus /\ export.calendar \in 0..created
         /\ export = [status |-> export.status, calendar |-> export.calendar]
         /\ \A k \in Clients : /\ client[k].at \in ClientSteps /\ client[k].todo \subseteq Tasks
                               /\ client[k].calendar \in 0..created
         /\ \A j \in Jobs : \A t \in DOMAIN push[j].rows :
               t \in Tasks /\ push[j].rows[t].status \in Status /\ push[j].rows[t].ref \in Ref
  BY DEF TypeOK, Row

LEMMA NoPushFields ==
  /\ NoPush.calendar = 0 /\ NoPush.now = 0 /\ NoPush.ref = NoRef
  /\ DOMAIN NoPush.rows = {} /\ NoPush = [calendar |-> 0, rows |-> NoPush.rows, now |-> 0, ref |-> NoRef]
  BY DEF NoPush

\* A reference names a calendar ever made; Tasks and copies are numbers.
LEMMA Numbers ==
  ASSUME TypeOK
  PROVE  /\ MaxTasks \in Nat /\ MaxCopies \in Nat /\ clock \in Nat /\ created \in Nat
         /\ 0 \in 0..created /\ 0 \in 0..clock /\ 0 \notin calendars /\ created + 1 \notin calendars
         /\ NoRef \in Ref /\ NoRef[1] = 0 /\ NoRef[2] = 0
         /\ \A ref \in Ref : ref[1] \in 0..created /\ ref[2] \in 0..MaxCopies /\ ref = <<ref[1], ref[2]>>
         /\ \A c \in 0..created, n \in 0..MaxCopies : <<c, n>> \in Ref
  BY ExportConstants DEF TypeOK, Ref, NoRef

-----------------------------------------------------------------------------
\* What the steps of a client leave alone.
LEMMA ClientEffect ==
  ASSUME CalendarInv, NEW k \in Clients, ClientStep(k)
  PROVE  /\ UNCHANGED <<tries, at, push, created>>
         /\ client[k].at \notin {"over", "gone"}
         /\ \A m \in Clients : m # k => client'[m] = client[m]
         /\ \A j \in Jobs : j # k => job'[j] = job[j]
         /\ k \in Jobs => job[k] = "none"
         /\ k \in Jobs => \/ job'[k] = job[k]
                          \/ /\ job'[k] = "queued" /\ client[k].at = "enqueue"
                             /\ client'[k].at = "over" /\ client'[k].calendar = client[k].calendar
                             /\ k \in Changes => export.calendar # 0
<1>1. TypeOK /\ \A j \in Jobs : JobFits(j)
  BY DEF CalendarInv
<1>2. client[k].at \notin {"over", "gone"} /\ UNCHANGED <<push, created>>
  BY DEF ClientStep, RequestStep, RequestReads, RequestUpserts, RequestEnqueues, ChangeStep,
         SetStatuses, MarkDirty, enqueue_incremental_export, UnexportStep, UnexportReads,
         DeleteCalendar, ForgetEvent, DeleteRecord, ClientDies, Under, google
<1>3. \E step, todo, calendar : Calls(k, step, todo, calendar)
  BY DEF ClientStep, RequestStep, RequestReads, RequestUpserts, RequestEnqueues, ChangeStep,
         SetStatuses, MarkDirty, enqueue_incremental_export, UnexportStep, UnexportReads,
         DeleteCalendar, ForgetEvent, DeleteRecord, ClientDies, Moves
<1>4. \A m \in Clients : m # k => client'[m] = client[m]
  BY <1>1, <1>3, CallsFrame
<1>5. k \in Jobs => job[k] = "none"
  BY <1>1, <1>2 DEF JobFits
<1>i. CASE RequestEnqueues(k) \/ enqueue_incremental_export(k)
  <2>1. /\ Moves(k, "over") /\ client[k].at = "enqueue"
        /\ (Enqueue(k) /\ (k \in Changes => export.calendar # 0)) \/ UNCHANGED <<queue, at>>
    BY <1>i, Kinds DEF RequestEnqueues, enqueue_incremental_export
  <2>2. client'[k].at = "over" /\ client'[k].calendar = client[k].calendar
    BY <1>1, <2>1, CallsFrame DEF Moves
  <2>3. k \in Jobs
    BY <1>i, Kinds DEF RequestEnqueues, enqueue_incremental_export
  <2>4. CASE UNCHANGED <<queue, at>>
    BY <1>2, <1>4, <1>5, <2>4 DEF queue
  <2>5. CASE Enqueue(k) /\ (k \in Changes => export.calendar # 0)
    <3>1. UNCHANGED <<tries, at>> /\ job' = [job EXCEPT ![k] = "queued"]
      BY <2>5 DEF Enqueue
    <3>2. job'[k] = "queued" /\ \A j \in Jobs : j # k => job'[j] = job[j]
      BY <1>1, <2>3, <3>1 DEF TypeOK, QueueTypeOK
    <3>3. QED
      BY <1>2, <1>4, <1>5, <2>1, <2>2, <2>5, <3>1, <3>2
  <2>6. QED
    BY <2>1, <2>4, <2>5
<1>6. CASE ~RequestEnqueues(k) /\ ~enqueue_incremental_export(k)
  <2>1. UNCHANGED <<queue, at>>
    BY <1>6 DEF ClientStep, RequestStep, RequestReads, RequestUpserts, ChangeStep, SetStatuses,
           MarkDirty, UnexportStep, UnexportReads, DeleteCalendar, ForgetEvent, DeleteRecord,
           ClientDies
  <2>2. QED
    BY <1>2, <1>4, <1>5, <2>1 DEF queue
<1>7. QED
  BY <1>i, <1>6

\* What the steps of a handler leave alone.
LEMMA HandlerEffect ==
  ASSUME CalendarInv, NEW j \in Jobs, Handles(j)
  PROVE  /\ UNCHANGED <<task, client, queue, overtaken>>
         /\ job[j] = "running" /\ at[j] \notin {"idle", "return", "raise"}
         /\ at'[j] \in PushSteps \ {"idle"} /\ at' \in [Jobs -> PushSteps]
         /\ \A i \in Jobs : i # j => at'[i] = at[i] /\ push'[i] = push[i]
<1>1. TypeOK /\ JobFits(j)
  BY DEF CalendarInv
<1>2. /\ UNCHANGED <<task, client, queue, overtaken>>
      /\ at[j] \notin {"idle", "return", "raise"}
  BY DEF Handles, PushStep, LoadPlan, CreateCalendar, ReadRecord, ListRows, ReadClock, SyncEvent,
         DropEvent, CreateEvent, UpdateEvent, Synced, NotAtGoogle, mark_synced, RecordSynced,
         FailReads, FailWrites, PushRaises, plan
<1>3. \E step \in PushSteps \ {"idle"} : Goto(j, step)
  BY DEF Handles, PushStep, LoadPlan, CreateCalendar, ReadRecord, ListRows, ReadClock, SyncEvent,
         DropEvent, CreateEvent, UpdateEvent, Synced, NotAtGoogle, mark_synced, RecordSynced,
         FailReads, FailWrites, PushRaises, After, PushSteps
<1>4. UNCHANGED push \/ Releases(j) \/ \E c, rows, now, ref : Hold(j, c, rows, now, ref)
  BY DEF Handles, PushStep, LoadPlan, CreateCalendar, ReadRecord, ListRows, ReadClock, SyncEvent,
         DropEvent, CreateEvent, UpdateEvent, Synced, NotAtGoogle, mark_synced, RecordSynced,
         FailReads, FailWrites, PushRaises
<1>5. \A i \in Jobs : i # j => push'[i] = push[i]
  BY <1>1, <1>4, HoldFrame, ReleasesFrame
<1>6. QED
  BY <1>1, <1>2, <1>3, <1>5, GotoFrame DEF JobFits

\* What a job step does to the job it is about, and to the others.
LEMMA OnlyQueueEffect ==
  ASSUME CalendarInv, NEW j \in Jobs, OnlyQueue(j)
  PROVE  /\ UNCHANGED <<plan, google, clock, client, overtaken>> /\ QueueAction(j)
         /\ \A i \in Jobs : i # j => /\ job'[i] = job[i] /\ tries'[i] = tries[i] /\ at'[i] = at[i]
                                     /\ push'[i] = push[i]
         /\ push'[j] = NoPush /\ DOMAIN push' = Jobs
         /\ \/ /\ job[j] = "queued" /\ job'[j] = "running"
               /\ tries'[j] = tries[j] + 1 /\ at'[j] = "load" /\ at[j] = "idle"
            \/ /\ job[j] = "queued" /\ job'[j] = "failed"
               /\ tries'[j] = tries[j] /\ at'[j] = "idle" /\ at[j] = "idle"
            \/ /\ job[j] = "running" /\ job'[j] \in {"done", "failed", "queued"}
               /\ tries'[j] = tries[j] /\ at'[j] = "idle"
<1>1. TypeOK /\ JobFits(j)
  BY DEF CalendarInv
<1>2. UNCHANGED <<plan, google, clock, client, overtaken>> /\ QueueAction(j)
  BY DEF OnlyQueue, QueueStep, QueueAction, Deliver, TriesExhausted, JobReturns, JobRaises,
         JobTimesOut, WorkerCrashes, Outside
<1>3. \A i \in Jobs : i # j => job'[i] = job[i] /\ tries'[i] = tries[i] /\ at'[i] = at[i]
  BY <1>1, <1>2, QueueActionFrame DEF TypeOK
<1>4. /\ \A i \in Jobs : i # j => push'[i] = push[i]
      /\ push'[j] = NoPush /\ DOMAIN push' = Jobs
  <2>1. CASE Releases(j)
    BY <1>1, <2>1, ReleasesFrame
  <2>2. CASE UNCHANGED push /\ push[j] = NoPush
    BY <1>1, <2>2 DEF TypeOK
  <2>3. QED
    BY <1>1, <2>1, <2>2 DEF OnlyQueue, QueueStep, Deliver, TriesExhausted, JobReturns, JobRaises,
       JobTimesOut, WorkerCrashes, Delivered, GivenUp, Returned, Raised, JobFits
<1>5. QED
  BY <1>1, <1>2, <1>3, <1>4 DEF TypeOK, JobFits, QueueTypeOK, OnlyQueue, QueueStep, Deliver,
     TriesExhausted, JobReturns, JobRaises, JobTimesOut, WorkerCrashes, Delivered, GivenUp,
     Returned, Raised, TimedOut, Stopped, Ends, Goto

-----------------------------------------------------------------------------
\* Bounds that grow keep the types of what stays.
LEMMA TypesCarry ==
  ASSUME TypeOK, clock' \in Nat, created' \in Nat, clock <= clock', created <= created'
  PROVE  /\ task \in [Tasks -> [status : Status, completed_at : 0..clock']]
         /\ slot \in [Tasks -> [ref : Ref', synced_at : 0..clock']]
         /\ export \in [status : ExportStatus, calendar : 0..created']
         /\ client \in [Clients -> [at : ClientSteps, todo : SUBSET Tasks, calendar : 0..created']]
         /\ \A j \in Jobs : /\ push[j].calendar \in 0..created' /\ push[j].now \in 0..clock'
                            /\ push[j].ref \in Ref' /\ DOMAIN push[j].rows \subseteq Tasks
                            /\ \A t \in DOMAIN push[j].rows :
                                  push[j].rows[t] \in [status : Status, ref : Ref']
         /\ 0..created \subseteq 0..created' /\ 0..clock \subseteq 0..clock' /\ Ref \subseteq Ref'
<1>1. /\ 0..created \subseteq 0..created' /\ 0..clock \subseteq 0..clock'
      /\ MaxCopies' = MaxCopies
  BY DEF TypeOK
<1>2. Ref \subseteq Ref'
  BY <1>1 DEF Ref
<1>3. \A x \in [status : Status, completed_at : 0..clock] :
         x \in [status : Status, completed_at : 0..clock']
  BY <1>1
<1>4. \A x \in [ref : Ref, synced_at : 0..clock] : x \in [ref : Ref', synced_at : 0..clock']
  BY <1>1, <1>2
<1>5. \A x \in [status : ExportStatus, calendar : 0..created] :
         x \in [status : ExportStatus, calendar : 0..created']
  BY <1>1
<1>6. \A x \in [at : ClientSteps, todo : SUBSET Tasks, calendar : 0..created] :
         x \in [at : ClientSteps, todo : SUBSET Tasks, calendar : 0..created']
  BY <1>1
<1>7. \A x \in Row : x \in [status : Status, ref : Ref']
  BY <1>2 DEF Row
<1>8. task \in [Tasks -> [status : Status, completed_at : 0..clock']]
  BY <1>3 DEF TypeOK
<1>9. slot \in [Tasks -> [ref : Ref', synced_at : 0..clock']]
  BY <1>4 DEF TypeOK
<1>10. client \in [Clients -> [at : ClientSteps, todo : SUBSET Tasks, calendar : 0..created']]
  BY <1>6 DEF TypeOK
<1>11. QED
  BY <1>1, <1>2, <1>5, <1>7, <1>8, <1>9, <1>10 DEF TypeOK

\* A client's entry keeps its type.
LEMMA CallsTyped ==
  ASSUME TypeOK, NEW k \in Clients, NEW step \in ClientSteps, NEW todo \in SUBSET Tasks,
         NEW calendar \in 0..created, Calls(k, step, todo, calendar)
  PROVE  client' \in [Clients -> [at : ClientSteps, todo : SUBSET Tasks, calendar : 0..created]]
<1>1. [at |-> step, todo |-> todo, calendar |-> calendar]
         \in [at : ClientSteps, todo : SUBSET Tasks, calendar : 0..created]
  OBVIOUS
<1>2. QED
  BY <1>1 DEF TypeOK, Calls

\* So does a slot that is rewritten.
LEMMA SlotTyped ==
  ASSUME TypeOK, NEW t \in Tasks, NEW ref \in Ref, NEW synced \in 0..clock,
         slot' = [slot EXCEPT ![t] = [ref |-> ref, synced_at |-> synced]]
  PROVE  /\ slot' \in [Tasks -> [ref : Ref, synced_at : 0..clock]]
         /\ slot'[t] = [ref |-> ref, synced_at |-> synced]
         /\ slot'[t].ref = ref /\ slot'[t].synced_at = synced
         /\ \A u \in Tasks : u # t => slot'[u] = slot[u]
<1>1. [ref |-> ref, synced_at |-> synced] \in [ref : Ref, synced_at : 0..clock]
  OBVIOUS
<1>2. QED
  BY <1>1 DEF TypeOK

\* The results of a tick or of a check-in are statuses of tasks.
LEMMA ResultFits ==
  ASSUME NEW result \in TickResults \cup CheckinResults
  PROVE  DOMAIN result \subseteq Tasks /\ \A t \in DOMAIN result : result[t] \in Status
<1>1. Touched \subseteq Tasks
  BY ExportConstants
<1>2. CASE result \in TickResults
  <2>1. PICK t \in Touched : result \in [{t} -> Status]
    BY <1>2 DEF TickResults
  <2>2. QED
    BY <1>1, <2>1
<1>3. CASE result \in CheckinResults
  <2>1. PICK S \in SUBSET Touched : result \in [S -> {"done", "missed"}]
    BY <1>3 DEF CheckinResults
  <2>2. QED
    BY <1>1, <2>1 DEF Status
<1>4. QED
  BY <1>2, <1>3

\* The clients' steps keep the types.
LEMMA ClientsTypesKept ==
  ASSUME CalendarInv, NEW k \in Clients, ClientStep(k)
  PROVE  TypeOK'
<1>1. TypeOK /\ UNCHANGED <<tries, at, push, created>>
  BY ClientEffect DEF CalendarInv
<1>2. /\ clock \in Nat /\ created \in Nat /\ NoRef \in Ref /\ 0 \in 0..created /\ 0 \in 0..clock
      /\ Ref' = Ref /\ Row' = Row
  BY <1>1, Numbers DEF Ref, Row
<1>3. /\ client[k].at \in ClientSteps /\ client[k].todo \subseteq Tasks
      /\ client[k].calendar \in 0..created /\ export.calendar \in 0..created
  BY <1>1, Fields
<1>4. \A step \in ClientSteps : Moves(k, step) =>
         client' \in [Clients -> [at : ClientSteps, todo : SUBSET Tasks, calendar : 0..created]]
  BY <1>1, <1>3, CallsTyped DEF Moves
<1> DEFINE CT == [at : ClientSteps, todo : SUBSET Tasks, calendar : 0..created]
           ET == [status : ExportStatus, calendar : 0..created]
           ST == [ref : Ref, synced_at : 0..clock]
<1>q. CASE RequestEnqueues(k) \/ enqueue_incremental_export(k)
  <2>1. QueueTypeOK(Jobs, PushSteps)'
    <3>1. CASE Enqueue(k)
      <4>1. k \in Jobs
        BY <1>q, Kinds DEF RequestEnqueues, enqueue_incremental_export
      <4>2. QED
        BY <1>1, <3>1, <4>1, QueueActionTypeOK DEF TypeOK, PushSteps, QueueAction
    <3>2. CASE UNCHANGED <<queue, at>>
      BY <1>1, <3>2 DEF TypeOK, QueueTypeOK, queue
    <3>3. QED
      BY <1>q, <3>1, <3>2 DEF RequestEnqueues, enqueue_incremental_export
  <2>2. client' \in [Clients -> CT]
    BY <1>q, <1>4 DEF RequestEnqueues, enqueue_incremental_export, ClientSteps
  <2>3. UNCHANGED <<plan, google, clock, push, overtaken>>
    BY <1>q DEF RequestEnqueues, enqueue_incremental_export
  <2>4. QED
    BY <1>1, <1>2, <2>1, <2>2, <2>3 DEF TypeOK, plan, google, CT
<1>5. ASSUME UNCHANGED <<queue, at, task, calendars, events, clock, push, created, overtaken>>,
             client' \in [Clients -> CT], slot' \in [Tasks -> ST], export' \in ET
      PROVE  TypeOK'
  BY <1>1, <1>2, <1>5 DEF TypeOK, QueueTypeOK, queue
<1>s. slot \in [Tasks -> ST] /\ export \in ET /\ client \in [Clients -> CT]
  BY <1>1 DEF TypeOK
<1> HIDE DEF CT, ET, ST
<1>6. CASE RequestReads(k) \/ UnexportReads(k)
  <2>1. UNCHANGED <<plan, google, clock, queue, at, push, overtaken>>
    BY <1>6 DEF RequestReads, UnexportReads
  <2>2. \E step \in ClientSteps, todo \in SUBSET Tasks : Calls(k, step, todo, export.calendar)
    BY <1>6 DEF RequestReads, UnexportReads, ClientSteps
  <2>3. client' \in [Clients -> CT]
    BY <1>1, <1>3, <2>2, CallsTyped DEF CT
  <2>4. QED
    BY <1>5, <1>s, <2>1, <2>3 DEF plan, google
<1>7. CASE RequestUpserts(k)
  <2>1. [status |-> "queued", calendar |-> client[k].calendar] \in ET
    BY <1>3 DEF ET, ExportStatus
  <2>2. client' \in [Clients -> CT]
    BY <1>4, <1>7 DEF RequestUpserts, ClientSteps, CT
  <2>3. QED
    BY <1>5, <1>7, <1>s, <2>1, <2>2 DEF RequestUpserts, google
<1>8. CASE SetStatuses(k)
  <2>1. PICK result \in TickResults \cup CheckinResults :
          /\ task' = [t \in Tasks |->
                IF t \in DOMAIN result
                THEN [status |-> result[t],
                      completed_at |-> IF result[t] = "done" THEN clock + 1 ELSE 0]
                ELSE task[t]]
          /\ Calls(k, "mark", DOMAIN result, 0)
          /\ overtaken' = overtaken \cup
                {t \in DOMAIN result : \E j \in Jobs : t \in DOMAIN push[j].rows}
    BY <1>8 DEF SetStatuses
  <2>2. DOMAIN result \subseteq Tasks /\ \A t \in DOMAIN result : result[t] \in Status
    BY ResultFits
  <2>3. client' \in [Clients -> CT]
    BY <1>1, <1>2, <2>1, <2>2, CallsTyped DEF CT, ClientSteps
  <2>4. clock' = clock + 1 /\ UNCHANGED <<slot, export, google, queue, at, push>>
    BY <1>8 DEF SetStatuses
  <2>5. /\ slot \in [Tasks -> [ref : Ref', synced_at : 0..clock']]
        /\ task \in [Tasks -> [status : Status, completed_at : 0..clock']]
        /\ \A j \in Jobs : push[j].now \in 0..clock'
    BY <1>1, <1>2, <2>4, TypesCarry
  <2>6. task' \in [Tasks -> [status : Status, completed_at : 0..clock']]
    <3>1. \A n \in {0, clock + 1}, x \in Status :
             [status |-> x, completed_at |-> n] \in [status : Status, completed_at : 0..clock']
      BY <1>2, <2>4
    <3>2. QED
      BY <2>1, <2>2, <2>5, <3>1
  <2>7. overtaken' \subseteq Tasks
    BY <1>1, <2>1, <2>2 DEF TypeOK
  <2>8. QED
    BY <1>1, <1>2, <2>3, <2>4, <2>5, <2>6, <2>7 DEF TypeOK, QueueTypeOK, queue, google, CT
<1>9. CASE MarkDirty(k)
  <2>1. PICK t \in client[k].todo :
          /\ slot' = [slot EXCEPT ![t] = [ref |-> slot[t].ref, synced_at |-> 0]]
          /\ Calls(k, IF client[k].todo = {t} THEN "enqueue" ELSE "mark",
                   client[k].todo \ {t}, 0)
    BY <1>9 DEF MarkDirty
  <2>2. slot' \in [Tasks -> ST]
    BY <1>1, <1>2, <1>3, <2>1, SlotTyped, Fields DEF ST
  <2>3. client' \in [Clients -> CT]
    <3>1. (IF client[k].todo = {t} THEN "enqueue" ELSE "mark") \in ClientSteps
      BY DEF ClientSteps
    <3>2. client[k].todo \ {t} \in SUBSET Tasks
      BY <1>3
    <3>3. QED
      BY <1>1, <1>2, <2>1, <3>1, <3>2, CallsTyped DEF CT
  <2>4. QED
    BY <1>5, <1>9, <1>s, <2>2, <2>3 DEF MarkDirty, google
<1>10. CASE ForgetEvent(k)
  <2>1. PICK t \in client[k].todo :
          /\ slot' = [slot EXCEPT ![t] = [ref |-> NoRef, synced_at |-> 0]]
          /\ Calls(k, "forget", client[k].todo \ {t}, client[k].calendar)
    BY <1>10 DEF ForgetEvent
  <2>2. slot' \in [Tasks -> ST]
    BY <1>1, <1>2, <1>3, <2>1, SlotTyped DEF ST
  <2>3. client' \in [Clients -> CT]
    BY <1>1, <1>3, <2>1, CallsTyped DEF CT, ClientSteps
  <2>4. QED
    BY <1>5, <1>10, <1>s, <2>2, <2>3 DEF ForgetEvent, google
<1>11. CASE DeleteCalendar(k)
  <2>1. /\ calendars' = calendars \ {client[k].calendar}
        /\ events' = [e \in {d \in DOMAIN events : d[1] # client[k].calendar} |-> events[e]]
        /\ UNCHANGED <<plan, created, clock, queue, at, push, overtaken>>
    BY <1>11 DEF DeleteCalendar
  <2>2. client' \in [Clients -> CT]
    BY <1>4, <1>11 DEF DeleteCalendar, ClientSteps, CT
  <2>3. /\ calendars' \subseteq 1..created'
        /\ DOMAIN events' \subseteq calendars' \X Tasks \X (1..MaxCopies)
        /\ \A e \in DOMAIN events' : events'[e] \in Status
    BY <1>1, <2>1 DEF TypeOK
  <2>4. QED
    BY <1>1, <1>2, <2>1, <2>2, <2>3 DEF TypeOK, QueueTypeOK, queue, plan, CT
<1>12. CASE DeleteRecord(k)
  <2>1. NoExport \in ET
    BY <1>2 DEF NoExport, ET, ExportStatus
  <2>2. client' \in [Clients -> CT]
    BY <1>4, <1>12 DEF DeleteRecord, ClientSteps, CT
  <2>3. QED
    BY <1>5, <1>12, <1>s, <2>1, <2>2 DEF DeleteRecord, google
<1>13. CASE ClientDies(k)
  <2>1. client' \in [Clients -> CT]
    BY <1>4, <1>13 DEF ClientDies, ClientSteps, CT
  <2>2. QED
    BY <1>5, <1>13, <1>s, <2>1 DEF ClientDies, plan, google
<1>14. QED
  BY <1>q, <1>6, <1>7, <1>8, <1>9, <1>10, <1>11, <1>12, <1>13
     DEF ClientStep, RequestStep, ChangeStep, UnexportStep

\* What the pushes hold has its type.
Held ==
    /\ DOMAIN push = Jobs
    /\ \A j \in Jobs :
          /\ push[j].calendar \in 0..created /\ push[j].now \in 0..clock
          /\ push[j].ref \in Ref
          /\ DOMAIN push[j].rows \subseteq Tasks
          /\ \A t \in DOMAIN push[j].rows : push[j].rows[t] \in Row

LEMMA HeldCarries ==
  ASSUME TypeOK, clock' \in Nat, created' \in Nat, clock <= clock', created <= created'
  PROVE  /\ \A i \in Jobs :
               /\ push[i].calendar \in 0..created' /\ push[i].now \in 0..clock'
               /\ push[i].ref \in Ref' /\ DOMAIN push[i].rows \subseteq Tasks
               /\ \A t \in DOMAIN push[i].rows : push[i].rows[t] \in Row'
         /\ DOMAIN push = Jobs
  BY TypesCarry DEF TypeOK, Row

LEMMA HeldKept ==
  ASSUME TypeOK, NEW j \in Jobs, UNCHANGED push \/ Releases(j),
         clock' \in Nat, created' \in Nat, clock <= clock', created <= created'
  PROVE  Held'
<1>1. CASE UNCHANGED push
  BY <1>1, HeldCarries DEF Held
<1>2. CASE Releases(j)
  <2>1. NoRef \in Ref'
    BY Numbers, TypesCarry
  <2>2. 0 \in 0..created' /\ 0 \in 0..clock'
    OBVIOUS
  <2>3. QED
    BY <1>2, <2>1, <2>2, HeldCarries, ReleasesFrame, NoPushFields DEF Held
<1>3. QED
  BY <1>1, <1>2

LEMMA HeldTyped ==
  ASSUME TypeOK, NEW j \in Jobs,
         clock' \in Nat, created' \in Nat, clock <= clock', created <= created',
         NEW c \in 0..created', NEW rows, NEW now \in 0..clock', NEW ref \in Ref',
         DOMAIN rows \subseteq Tasks, \A t \in DOMAIN rows : rows[t] \in Row',
         Hold(j, c, rows, now, ref)
  PROVE  Held'
<1>1. /\ push'[j].calendar = c /\ push'[j].rows = rows /\ push'[j].now = now
      /\ push'[j].ref = ref /\ \A i \in Jobs : i # j => push'[i] = push[i]
      /\ DOMAIN push' = Jobs
  BY DEF TypeOK, Hold
<1>2. QED
  BY <1>1, HeldCarries DEF Held

\* The handlers' steps keep the types.
LEMMA HandlersTypesKept ==
  ASSUME CalendarInv, NEW j \in Jobs, Handles(j)
  PROVE  TypeOK'
<1>1. /\ TypeOK /\ UNCHANGED <<task, client, queue, overtaken>>
      /\ at' \in [Jobs -> PushSteps]
  BY HandlerEffect DEF CalendarInv
<1>2. /\ clock \in Nat /\ created \in Nat /\ NoRef \in Ref /\ 0 \in 0..created /\ 0 \in 0..clock
      /\ MaxCopies \in Nat
  BY <1>1, Numbers
<1>3. /\ push[j].calendar \in 0..created /\ push[j].now \in 0..clock /\ push[j].ref \in Ref
      /\ export.calendar \in 0..created /\ DOMAIN push[j].rows \subseteq Tasks
      /\ \A t \in DOMAIN push[j].rows : push[j].rows[t] \in Row
      /\ DOMAIN NoPush.rows = {}
  BY <1>1, Fields, NoPushFields DEF TypeOK
<1>4. ASSUME UNCHANGED <<created, clock>>, UNCHANGED calendars, Held',
             slot' \in [Tasks -> [ref : Ref, synced_at : 0..clock]],
             export' \in [status : ExportStatus, calendar : 0..created],
             DOMAIN events' \subseteq calendars \X Tasks \X (1..MaxCopies),
             \A e \in DOMAIN events' : events'[e] \in Status
      PROVE  TypeOK'
  <2>1. Ref' = Ref /\ Row' = Row
    BY <1>4 DEF Ref, Row
  <2>2. QED
    BY <1>1, <1>4, <2>1 DEF TypeOK, QueueTypeOK, queue, Held
<1>5. ASSUME UNCHANGED <<created, clock, calendars>>, slot' = slot, UNCHANGED events, Held',
             export' \in [status : ExportStatus, calendar : 0..created]
      PROVE  TypeOK'
  BY <1>1, <1>4, <1>5 DEF TypeOK
<1>6. ASSUME UNCHANGED <<plan, google, clock>>, Held' PROVE TypeOK'
  BY <1>1, <1>5, <1>6 DEF TypeOK, plan, google
<1>7. ASSUME UNCHANGED <<created, clock>> PROVE Ref' = Ref /\ Row' = Row
  BY <1>7 DEF Ref, Row
<1>8. CASE LoadPlan(j)
  <2>1. Held'
    BY <1>1, <1>2, <1>8, HeldKept DEF LoadPlan, google
  <2>2. QED
    BY <1>6, <1>8, <2>1 DEF LoadPlan
<1>9. CASE CreateCalendar(j)
  <2>1. created' = created + 1 /\ clock' = clock /\ calendars' = calendars \cup {created + 1}
        /\ UNCHANGED <<plan, events>>
    BY <1>9 DEF CreateCalendar
  <2>2. /\ clock' \in Nat /\ created' \in Nat /\ clock <= clock' /\ created <= created'
        /\ created + 1 \in 0..created' /\ 0 \in 0..clock'
    BY <1>2, <2>1
  <2>3. NoRef \in Ref'
    BY <1>1, <1>2, <2>2, TypesCarry
  <2>4. Held'
    BY <1>1, <1>2, <1>3, <1>9, <2>2, <2>3, HeldTyped DEF CreateCalendar
  <2>5. /\ slot \in [Tasks -> [ref : Ref', synced_at : 0..clock']]
        /\ export \in [status : ExportStatus, calendar : 0..created']
        /\ client \in [Clients -> [at : ClientSteps, todo : SUBSET Tasks, calendar : 0..created']]
    BY <1>1, <2>2, TypesCarry
  <2>6. calendars' \subseteq 1..created'
    <3>1. calendars \subseteq 1..created
      BY <1>1 DEF TypeOK
    <3>2. 1..created \subseteq 1..created' /\ created + 1 \in 1..created'
      BY <1>2, <2>1
    <3>3. QED
      BY <2>1, <3>1, <3>2
  <2>7. DOMAIN events' \subseteq calendars' \X Tasks \X (1..MaxCopies)
    BY <1>1, <2>1 DEF TypeOK
  <2>8. QED
    BY <1>1, <2>1, <2>2, <2>4, <2>5, <2>6, <2>7 DEF TypeOK, QueueTypeOK, queue, Held, plan
<1>10. CASE ReadRecord(j) \/ FailReads(j)
  <2>1. UNCHANGED <<plan, google, clock>>
        /\ Hold(j, export.calendar, NoPush.rows, 0, NoRef)
    BY <1>10 DEF ReadRecord, FailReads
  <2>2. Ref' = Ref /\ Row' = Row
    BY <1>7, <2>1 DEF google
  <2>3. Held'
    BY <1>1, <1>2, <1>3, <2>1, <2>2, HeldTyped DEF google
  <2>4. QED
    BY <1>6, <2>1, <2>3
<1>11. CASE ListRows(j)
  <2>0. UNCHANGED <<plan, google, clock>>
    BY <1>11 DEF ListRows
  <2>1. PICK S \in SUBSET Tasks :
           Hold(j, push[j].calendar,
                [t \in S |-> [status |-> task[t].status, ref |-> slot[t].ref]], 0, NoRef)
    BY <1>11 DEF ListRows
  <2> DEFINE rows == [t \in S |-> [status |-> task[t].status, ref |-> slot[t].ref]]
  <2>2. Ref' = Ref /\ Row' = Row
    BY <1>7, <2>0 DEF google
  <2>3. DOMAIN rows \subseteq Tasks /\ \A t \in DOMAIN rows : rows[t] \in Row
    BY <1>1, Fields DEF Row
  <2>4. Hold(j, push[j].calendar, rows, 0, NoRef)
    BY <2>1
  <2> HIDE DEF rows
  <2>5. Held'
    BY <1>1, <1>2, <1>3, <2>0, <2>2, <2>3, <2>4, HeldTyped DEF google
  <2>6. QED
    BY <1>6, <2>0, <2>5
<1>12. CASE ReadClock(j)
  <2>1. clock' = clock + 1 /\ UNCHANGED <<plan, google>>
        /\ Hold(j, push[j].calendar, push[j].rows, clock + 1, NoRef)
    BY <1>12 DEF ReadClock
  <2>2. /\ clock' \in Nat /\ created' \in Nat /\ clock <= clock' /\ created <= created'
        /\ clock + 1 \in 0..clock' /\ created' = created
    BY <1>2, <2>1 DEF google
  <2>3. Ref' = Ref /\ Row' = Row
    BY <2>2 DEF Ref, Row
  <2>4. Held'
    BY <1>1, <1>2, <1>3, <2>1, <2>2, <2>3, HeldTyped
  <2>5. /\ slot \in [Tasks -> [ref : Ref', synced_at : 0..clock']]
        /\ task \in [Tasks -> [status : Status, completed_at : 0..clock']]
    BY <1>1, <2>2, TypesCarry
  <2>6. QED
    BY <1>1, <2>1, <2>2, <2>4, <2>5 DEF TypeOK, QueueTypeOK, queue, Held, plan, google
<1>13. CASE SyncEvent(j)
  <2>1. PICK t \in Tasks : IsFirst(j, t) /\ (DropEvent(j, t) \/ CreateEvent(j, t) \/ UpdateEvent(j, t))
    BY <1>13 DEF SyncEvent
  <2>2. push[j].rows[t].status \in Status /\ push[j].rows[t].ref \in Ref /\ KnownRef(j, t) \in Ref
    BY <1>1, <1>2, <2>1, Fields DEF IsFirst, KnownRef
  <2>3. PICK ref : Synced(j, ref) /\ (ref \in Ref \/ \E n \in 1..MaxCopies : ref = <<push[j].calendar, n>>)
    BY <1>2, <2>1, <2>2 DEF DropEvent, CreateEvent, UpdateEvent
  <2>4. ref \in Ref
    BY <1>1, <1>2, <1>3, <2>3, Numbers
  <2>5. /\ UNCHANGED <<plan, created, calendars, clock>>
        /\ Hold(j, push[j].calendar, push[j].rows, push[j].now, ref)
    BY <2>3 DEF Synced
  <2>6. Ref' = Ref /\ Row' = Row
    BY <1>7, <2>5
  <2>7. Held'
    BY <1>1, <1>2, <1>3, <2>4, <2>5, <2>6, HeldTyped
  <2>8. /\ DOMAIN events' \subseteq calendars \X Tasks \X (1..MaxCopies)
        /\ \A e \in DOMAIN events' : events'[e] \in Status
    <3>1. CASE DropEvent(j, t)
      BY <1>1, <3>1 DEF DropEvent, TypeOK
    <3>2. CASE CreateEvent(j, t)
      <4>1. PICK n \in 1..MaxCopies :
              /\ events' = [d \in DOMAIN events \cup {<<push[j].calendar, t, n>>} |->
                              IF d = <<push[j].calendar, t, n>> THEN push[j].rows[t].status
                              ELSE events[d]]
              /\ push[j].calendar \in calendars
        BY <3>2 DEF CreateEvent
      <4>2. QED
        BY <1>1, <2>2, <4>1 DEF TypeOK
    <3>3. CASE UpdateEvent(j, t)
      BY <1>1, <2>2, <3>3 DEF UpdateEvent, TypeOK
    <3>4. QED
      BY <2>1, <3>1, <3>2, <3>3
  <2>9. QED
    BY <1>1, <1>4, <2>5, <2>7, <2>8 DEF plan, TypeOK
<1>14. CASE NotAtGoogle(j) \/ PushRaises(j)
  <2>1. UNCHANGED <<plan, google, clock>> /\ Releases(j)
    BY <1>14 DEF NotAtGoogle, PushRaises
  <2>2. Held'
    BY <1>1, <1>2, <2>1, HeldKept DEF google
  <2>3. QED
    BY <1>6, <2>1, <2>2
<1>15. CASE mark_synced(j)
  <2>1. PICK t \in Tasks :
          /\ slot' = [slot EXCEPT ![t] = [ref |-> push[j].ref, synced_at |-> push[j].now]]
          /\ Hold(j, push[j].calendar, [u \in DOMAIN push[j].rows \ {t} |-> push[j].rows[u]],
                  push[j].now, NoRef)
    BY <1>15 DEF mark_synced
  <2>2. UNCHANGED <<export, google, clock>>
    BY <1>15 DEF mark_synced
  <2>3. Ref' = Ref /\ Row' = Row
    BY <1>7, <2>2 DEF google
  <2> DEFINE rows == [u \in DOMAIN push[j].rows \ {t} |-> push[j].rows[u]]
  <2>4. DOMAIN rows \subseteq Tasks /\ \A u \in DOMAIN rows : rows[u] \in Row
    BY <1>3
  <2>5. Hold(j, push[j].calendar, rows, push[j].now, NoRef)
    BY <2>1
  <2> HIDE DEF rows
  <2>6. Held'
    BY <1>1, <1>2, <1>3, <2>2, <2>3, <2>4, <2>5, HeldTyped DEF google
  <2>7. slot' \in [Tasks -> [ref : Ref, synced_at : 0..clock]]
    BY <1>1, <1>3, <2>1, SlotTyped
  <2>8. QED
    BY <1>1, <1>4, <2>2, <2>6, <2>7 DEF google, TypeOK
<1>16. CASE RecordSynced(j) \/ FailWrites(j)
  <2>1. PICK s \in {"synced", "failed"} : export' = [status |-> s, calendar |-> push[j].calendar]
    BY <1>16 DEF RecordSynced, FailWrites
  <2>2. UNCHANGED <<slot, google, clock>> /\ Releases(j)
    BY <1>16 DEF RecordSynced, FailWrites
  <2>3. Held'
    BY <1>1, <1>2, <2>2, HeldKept DEF google
  <2>4. export' \in [status : ExportStatus, calendar : 0..created]
    BY <1>3, <2>1 DEF ExportStatus
  <2>5. QED
    BY <1>5, <2>2, <2>3, <2>4 DEF google
<1>17. QED
  BY <1>8, <1>9, <1>10, <1>11, <1>12, <1>13, <1>14, <1>15, <1>16 DEF Handles, PushStep

\* Every step keeps the types.
LEMMA TypesKept ==
  ASSUME CalendarInv, [Next]_vars
  PROVE  TypeOK'
<1>1. TypeOK
  BY DEF CalendarInv
<1>2. ASSUME NEW j \in Jobs, OnlyQueue(j) PROVE TypeOK'
  <2>1. /\ UNCHANGED <<plan, google, clock, client, overtaken>> /\ QueueAction(j)
        /\ DOMAIN push' = Jobs
        /\ \A i \in Jobs : push'[i] = push[i] \/ push'[i] = NoPush
    BY <1>2, OnlyQueueEffect
  <2>2. QueueTypeOK(Jobs, PushSteps)'
    BY <1>1, <2>1, QueueActionTypeOK DEF TypeOK, PushSteps
  <2>3. Ref' = Ref /\ Row' = Row
    BY <2>1 DEF Ref, Row, google
  <2>4. QED
    BY <1>1, <2>1, <2>2, <2>3, Numbers, NoPushFields DEF TypeOK, plan, google
<1>3. CASE UNCHANGED vars
  <2>1. Ref' = Ref /\ Row' = Row
    BY <1>3 DEF Ref, Row, google, vars
  <2>2. QED
    BY <1>1, <1>3, <2>1 DEF TypeOK, QueueTypeOK, vars, plan, google, queue
<1>4. QED
  BY <1>2, <1>3, NextCases, ClientsTypesKept, HandlersTypesKept

-----------------------------------------------------------------------------
\* What the upsert of one event does: the row it is about, what the push will note
\* for it, and the event that is gone, new or changed.
LEMMA SyncEffect ==
  ASSUME CalendarInv, NEW j \in Jobs, SyncEvent(j)
  PROVE  /\ UNCHANGED <<plan, created, calendars, clock>> /\ at[j] = "sync" /\ at'[j] = "mark"
         /\ push'[j].calendar = push[j].calendar /\ push'[j].rows = push[j].rows
         /\ push'[j].now = push[j].now
         /\ \E t \in Tasks : LET e == <<push'[j].ref[1], t, push'[j].ref[2]>> IN
               /\ IsFirst(j, t)
               /\ \/ /\ t \in Rest /\ push'[j].ref = NoRef
                     /\ DOMAIN events' = DOMAIN events \ {KnownEvent(j, t)}
                     /\ \A d \in DOMAIN events' : events'[d] = events[d]
                  \/ /\ t \notin Rest /\ KnownRef(j, t) = NoRef
                     /\ push[j].calendar \in calendars
                     /\ push'[j].ref[1] = push[j].calendar /\ push'[j].ref # NoRef
                     /\ e \notin DOMAIN events /\ DOMAIN events' = DOMAIN events \cup {e}
                     /\ events'[e] = push[j].rows[t].status
                     /\ \A d \in DOMAIN events : events'[d] = events[d]
                  \/ /\ t \notin Rest /\ KnownRef(j, t) # NoRef /\ push'[j].ref = KnownRef(j, t)
                     /\ push'[j].ref[1] = push[j].calendar
                     /\ e \in DOMAIN events /\ DOMAIN events' = DOMAIN events
                     /\ events'[e] = push[j].rows[t].status
                     /\ \A d \in DOMAIN events : d # e => events'[d] = events[d]
<1>1. TypeOK
  BY DEF CalendarInv
<1>2. PICK t \in Tasks : IsFirst(j, t) /\ (DropEvent(j, t) \/ CreateEvent(j, t) \/ UpdateEvent(j, t))
  BY DEF SyncEvent
<1>3. PICK ref : Synced(j, ref)
  BY <1>2 DEF DropEvent, CreateEvent, UpdateEvent
<1>4. /\ UNCHANGED <<plan, created, calendars, clock>> /\ at[j] = "sync" /\ at'[j] = "mark"
      /\ push'[j].calendar = push[j].calendar /\ push'[j].rows = push[j].rows
      /\ push'[j].now = push[j].now
  <2>1. Hold(j, push[j].calendar, push[j].rows, push[j].now, ref) /\ Goto(j, "mark")
    BY <1>3 DEF Synced
  <2>2. at'[j] = "mark"
    BY <1>1, <2>1, GotoFrame
  <2>3. /\ push'[j].calendar = push[j].calendar /\ push'[j].rows = push[j].rows
        /\ push'[j].now = push[j].now
    BY <1>1, <2>1, HoldFrame
  <2>4. QED
    BY <1>3, <2>2, <2>3 DEF Synced, SyncEvent
<1>5. \A r : Synced(j, r) => push'[j].ref = r
  BY <1>1, HoldFrame DEF Synced
<1>6. MaxCopies \in Nat /\ NoRef[2] = 0
  BY <1>1, Numbers
<1>7. CASE DropEvent(j, t)
  <2>1. /\ t \in Rest /\ push'[j].ref = NoRef
        /\ events' = [e \in DOMAIN events \ {KnownEvent(j, t)} |-> events[e]]
    BY <1>5, <1>7 DEF DropEvent, should_export
  <2>2. QED
    BY <1>2, <1>4, <2>1
<1>8. CASE CreateEvent(j, t)
  <2>1. PICK n \in 1..MaxCopies : LET e == <<push[j].calendar, t, n>> IN
          /\ e \notin DOMAIN events
          /\ events' = [d \in DOMAIN events \cup {e} |->
                           IF d = e THEN push[j].rows[t].status ELSE events[d]]
          /\ Synced(j, <<push[j].calendar, n>>)
    BY <1>8 DEF CreateEvent
  <2>2. push'[j].ref = <<push[j].calendar, n>>
    BY <1>5, <2>1
  <2>3. push'[j].ref[1] = push[j].calendar /\ push'[j].ref[2] = n /\ push'[j].ref # NoRef
    BY <1>6, <2>2 DEF NoRef
  <2>4. t \notin Rest /\ KnownRef(j, t) = NoRef /\ push[j].calendar \in calendars
    BY <1>8 DEF CreateEvent, should_export
  <2>5. QED
    BY <1>2, <1>4, <2>1, <2>3, <2>4
<1>9. CASE UpdateEvent(j, t)
  <2>1. /\ t \notin Rest /\ KnownRef(j, t) # NoRef /\ push'[j].ref = KnownRef(j, t)
        /\ KnownRef(j, t)[1] = push[j].calendar /\ KnownEvent(j, t) \in DOMAIN events
        /\ events' = [events EXCEPT ![KnownEvent(j, t)] = push[j].rows[t].status]
    BY <1>5, <1>9 DEF UpdateEvent, should_export, Found
  <2>2. KnownEvent(j, t) = <<push'[j].ref[1], t, push'[j].ref[2]>>
    BY <2>1 DEF KnownEvent
  <2>3. QED
    BY <1>2, <1>4, <2>1, <2>2
<1>10. QED
  BY <1>2, <1>7, <1>8, <1>9

\* What noting a sync does: the slot of the first row, and the rows that are left.
LEMMA MarkEffect ==
  ASSUME CalendarInv, NEW j \in Jobs, mark_synced(j)
  PROVE  /\ UNCHANGED <<task, export, google, clock>> /\ at[j] = "mark"
         /\ push'[j].calendar = push[j].calendar /\ push'[j].now = push[j].now
         /\ at'[j] = IF DOMAIN push'[j].rows = {} THEN "upsert" ELSE "sync"
         /\ \E t \in Tasks :
               /\ IsFirst(j, t)
               /\ DOMAIN push'[j].rows = DOMAIN push[j].rows \ {t}
               /\ \A u \in DOMAIN push'[j].rows : push'[j].rows[u] = push[j].rows[u]
               /\ slot'[t].ref = push[j].ref /\ slot'[t].synced_at = push[j].now
               /\ \A u \in Tasks : u # t => slot'[u] = slot[u]
<1>1. TypeOK
  BY DEF CalendarInv
<1>2. PICK t \in Tasks :
         LET left == [u \in DOMAIN push[j].rows \ {t} |-> push[j].rows[u]] IN
          /\ IsFirst(j, t)
          /\ slot' = [slot EXCEPT ![t] = [ref |-> push[j].ref, synced_at |-> push[j].now]]
          /\ Hold(j, push[j].calendar, left, push[j].now, NoRef)
          /\ Goto(j, After(left))
  BY DEF mark_synced
<1> DEFINE left == [u \in DOMAIN push[j].rows \ {t} |-> push[j].rows[u]]
<1>3. /\ DOMAIN left = DOMAIN push[j].rows \ {t}
      /\ \A u \in DOMAIN left : left[u] = push[j].rows[u]
  OBVIOUS
<1>4. Hold(j, push[j].calendar, left, push[j].now, NoRef) /\ Goto(j, After(left))
  BY <1>2
<1> HIDE DEF left
<1>5. push'[j].rows = left /\ push'[j].calendar = push[j].calendar /\ push'[j].now = push[j].now
  BY <1>1, <1>4, HoldFrame
<1>6. at'[j] = After(left)
  BY <1>1, <1>4, GotoFrame
<1>7. /\ slot'[t].ref = push[j].ref /\ slot'[t].synced_at = push[j].now
      /\ \A u \in Tasks : u # t => slot'[u] = slot[u]
  BY <1>1, <1>2 DEF TypeOK
<1>8. UNCHANGED <<task, export, google, clock>> /\ at[j] = "mark"
  BY DEF mark_synced
<1>9. QED
  BY <1>2, <1>3, <1>5, <1>6, <1>7, <1>8 DEF After

\* The other steps of a handler, each with what it holds afterwards.
LEMMA HandlerCases ==
  ASSUME CalendarInv, NEW j \in Jobs, Handles(j)
  PROVE  \/ /\ LoadPlan(j) /\ at[j] = "load" /\ UNCHANGED <<plan, google, clock>>
            /\ push'[j] = NoPush /\ at'[j] = IF Full(j) THEN "create" ELSE "record"
         \/ /\ CreateCalendar(j) /\ at[j] = "create" /\ UNCHANGED <<plan, events, clock>>
            /\ created' = created + 1 /\ calendars' = calendars \cup {created + 1}
            /\ push'[j].calendar = created + 1 /\ DOMAIN push'[j].rows = {} /\ at'[j] = "list"
         \/ /\ ReadRecord(j) /\ at[j] = "record" /\ UNCHANGED <<plan, google, clock>>
            /\ push'[j].calendar = export.calendar /\ DOMAIN push'[j].rows = {}
            /\ export.calendar = 0 => push'[j] = NoPush
            /\ at'[j] = IF export.calendar = 0 THEN "failing" ELSE "list"
         \/ /\ ListRows(j) /\ at[j] = "list" /\ UNCHANGED <<plan, google, clock>>
            /\ push'[j].calendar = push[j].calendar /\ at'[j] = "now"
            /\ DOMAIN push'[j].rows \subseteq Tasks /\ (Full(j) => DOMAIN push'[j].rows = Tasks)
            /\ \A t \in DOMAIN push'[j].rows :
                  push'[j].rows[t].status = task[t].status /\ push'[j].rows[t].ref = slot[t].ref
         \/ /\ ReadClock(j) /\ at[j] = "now" /\ UNCHANGED <<plan, google>>
            /\ push'[j].calendar = push[j].calendar /\ push'[j].rows = push[j].rows
            /\ at'[j] = IF DOMAIN push[j].rows = {} THEN "upsert" ELSE "sync"
         \/ SyncEvent(j)
         \/ mark_synced(j)
         \/ /\ RecordSynced(j) /\ at[j] = "upsert" /\ UNCHANGED <<task, slot, google, clock>>
            /\ export' = [status |-> "synced", calendar |-> push[j].calendar]
            /\ push'[j] = NoPush /\ at'[j] = "return"
         \/ /\ FailReads(j) /\ at[j] = "failing" /\ UNCHANGED <<plan, google, clock>>
            /\ push'[j].calendar = export.calendar /\ DOMAIN push'[j].rows = {} /\ at'[j] = "fail"
         \/ /\ FailWrites(j) /\ at[j] = "fail" /\ UNCHANGED <<task, slot, google, clock>>
            /\ export' = [status |-> "failed", calendar |-> push[j].calendar]
            /\ push'[j] = NoPush /\ at'[j] = "return"
         \/ /\ NotAtGoogle(j) \/ PushRaises(j)
            /\ UNCHANGED <<plan, google, clock>> /\ push'[j] = NoPush /\ at'[j] \in {"failing", "raise"}
<1>1. TypeOK /\ JobFits(j)
  BY DEF CalendarInv
<1>2. CASE LoadPlan(j)
  BY <1>1, <1>2, GotoFrame DEF LoadPlan, JobFits
<1>3. CASE CreateCalendar(j)
  <2>1. Hold(j, created + 1, NoPush.rows, 0, NoRef) /\ Goto(j, "list")
    BY <1>3 DEF CreateCalendar
  <2>2. push'[j].calendar = created + 1 /\ push'[j].rows = NoPush.rows
    BY <1>1, <2>1, HoldFrame
  <2>3. at'[j] = "list"
    BY <1>1, <2>1, GotoFrame
  <2>4. QED
    BY <1>3, <2>2, <2>3, NoPushFields DEF CreateCalendar
<1>4. CASE ReadRecord(j)
  <2>1. Hold(j, export.calendar, NoPush.rows, 0, NoRef)
    BY <1>4 DEF ReadRecord
  <2>2. push'[j] = [calendar |-> export.calendar, rows |-> NoPush.rows, now |-> 0, ref |-> NoRef]
        /\ push'[j].calendar = export.calendar /\ DOMAIN push'[j].rows = {}
    BY <1>1, <2>1, NoPushFields DEF Hold, TypeOK
  <2>3. export.calendar = 0 => push'[j] = NoPush
    BY <2>2, NoPushFields
  <2>4. QED
    BY <1>1, <1>4, <2>2, <2>3, GotoFrame DEF ReadRecord
<1>5. CASE ListRows(j)
  <2> DEFINE S == {u \in Tasks : Full(j) \/ Dirty(u)}
             rows == [t \in S |-> [status |-> task[t].status, ref |-> slot[t].ref]]
  <2>1. Hold(j, push[j].calendar, rows, 0, NoRef) /\ Goto(j, "now") /\ at[j] = "list"
        /\ UNCHANGED <<plan, google, clock>>
    BY <1>5 DEF ListRows
  <2>2. DOMAIN rows \subseteq Tasks /\ (Full(j) => DOMAIN rows = Tasks)
        /\ \A t \in DOMAIN rows : rows[t].status = task[t].status /\ rows[t].ref = slot[t].ref
    OBVIOUS
  <2> HIDE DEF rows
  <2>3. push'[j].rows = rows /\ push'[j].calendar = push[j].calendar
    BY <1>1, <2>1, HoldFrame
  <2>4. at'[j] = "now"
    BY <1>1, <2>1, GotoFrame
  <2>5. QED
    BY <1>5, <2>1, <2>2, <2>3, <2>4
<1>6. CASE ReadClock(j)
  <2>1. Hold(j, push[j].calendar, push[j].rows, clock + 1, NoRef) /\ Goto(j, After(push[j].rows))
    BY <1>6 DEF ReadClock
  <2>2. push'[j].calendar = push[j].calendar /\ push'[j].rows = push[j].rows
    BY <1>1, <2>1, HoldFrame
  <2>3. at'[j] = After(push[j].rows)
    BY <1>1, <2>1, GotoFrame
  <2>4. QED
    BY <1>6, <2>2, <2>3 DEF ReadClock, After
<1>7. CASE RecordSynced(j)
  BY <1>1, <1>7, GotoFrame, ReleasesFrame DEF RecordSynced
<1>8. CASE FailReads(j)
  <2>1. Hold(j, export.calendar, NoPush.rows, 0, NoRef) /\ Goto(j, "fail")
    BY <1>8 DEF FailReads
  <2>2. push'[j].calendar = export.calendar /\ push'[j].rows = NoPush.rows
    BY <1>1, <2>1, HoldFrame
  <2>3. at'[j] = "fail"
    BY <1>1, <2>1, GotoFrame
  <2>4. QED
    BY <1>8, <2>2, <2>3, NoPushFields DEF FailReads
<1>9. CASE FailWrites(j)
  BY <1>1, <1>9, GotoFrame, ReleasesFrame DEF FailWrites
<1>10. CASE NotAtGoogle(j) \/ PushRaises(j)
  BY <1>1, <1>10, GotoFrame, ReleasesFrame DEF NotAtGoogle, PushRaises
<1>11. QED
  BY <1>2, <1>3, <1>4, <1>5, <1>6, <1>7, <1>8, <1>9, <1>10 DEF Handles, PushStep

-----------------------------------------------------------------------------
\* What is under way for a job that another actor's step leaves alone.
LEMMA FullStays ==
  ASSUME CalendarInv, [Next]_vars, NEW j \in Jobs, job[j] # "none"
  PROVE  Full(j)' = Full(j) /\ client'[j] = client[j]
<1>1. client[j].at = "over" /\ j \in Clients
  BY Kinds DEF CalendarInv, JobFits
<1>2. client'[j] = client[j]
  <2>1. \A k \in Clients : ClientStep(k) => client'[j] = client[j]
    BY <1>1, ClientEffect
  <2>2. \A i \in Jobs : Handles(i) \/ OnlyQueue(i) => client'[j] = client[j]
    BY HandlerEffect, OnlyQueueEffect
  <2>3. UNCHANGED vars => client'[j] = client[j]
    BY DEF vars
  <2>4. QED
    BY <2>1, <2>2, <2>3, NextCases
<1>3. QED
  BY <1>2 DEF Full

\* The job behind a call, and what its handler holds, stay in step.
LEMMA JobsFitKept ==
  ASSUME CalendarInv, [Next]_vars, NEW j \in Jobs
  PROVE  JobFits(j)'
<1>1. TypeOK /\ JobFits(j)
  BY DEF CalendarInv
<1>2. tries[j] \in Nat
  BY <1>1, QueueConstants DEF TypeOK, QueueTypeOK
<1>3. job[j] # "none" => Full(j)' = Full(j) /\ client'[j] = client[j]
  BY FullStays
<1>4. ASSUME UNCHANGED <<job[j], tries[j], at[j], push[j]>>, job[j] # "none" \/ client'[j] = client[j]
      PROVE  JobFits(j)'
  BY <1>1, <1>3, <1>4 DEF JobFits, Full
<1>5. ASSUME NEW k \in Clients, ClientStep(k) PROVE JobFits(j)'
  <2>1. UNCHANGED <<tries, at, push>>
    BY <1>5, ClientEffect
  <2>2. CASE k # j
    BY <1>4, <1>5, <2>1, <2>2, ClientEffect, Kinds
  <2>3. CASE k = j
    <3>1. job[j] = "none" /\ at[j] = "idle"
      BY <1>1, <1>5, <2>3, ClientEffect DEF JobFits
    <3>2. job'[j] = "none" \/ (job'[j] = "queued" /\ client'[j].at = "over")
      BY <1>5, <2>3, <3>1, ClientEffect
    <3>3. QED
      BY <1>1, <2>1, <3>1, <3>2 DEF JobFits
  <2>4. QED
    BY <2>2, <2>3
<1>6. ASSUME NEW i \in Jobs, Handles(i) PROVE JobFits(j)'
  <2>1. UNCHANGED <<queue, client>>
    BY <1>6, HandlerEffect
  <2>2. CASE i # j
    BY <1>4, <1>6, <2>1, <2>2, HandlerEffect DEF queue
  <2>3. CASE i = j
    <3>1. /\ job[j] = "running" /\ at'[j] # "idle" /\ UNCHANGED <<job, tries, client>>
          /\ Full(j)' = Full(j)
      BY <1>3, <1>6, <2>1, <2>3, HandlerEffect DEF queue
    <3>2. ASSUME at'[j] \in {"list", "now", "sync", "mark", "upsert", "fail"} \/ push'[j] = NoPush,
                 at'[j] = "create" => Full(j),
                 at'[j] = "record" => ~Full(j),
                 at'[j] \in {"list", "now", "sync", "mark", "upsert"} => push'[j].calendar # 0,
                 at'[j] \in {"list", "upsert", "fail"} => DOMAIN push'[j].rows = {},
                 at'[j] = "now" /\ Full(j) => DOMAIN push'[j].rows = Tasks
          PROVE  JobFits(j)'
      BY <1>1, <3>1, <3>2 DEF JobFits
    <3>3. CASE SyncEvent(j)
      <4>1. /\ at[j] = "sync" /\ at'[j] = "mark" /\ push'[j].calendar = push[j].calendar
        BY <3>3, SyncEffect
      <4>2. push'[j].calendar # 0
        BY <1>1, <4>1 DEF JobFits
      <4>3. QED
        BY <3>2, <4>1, <4>2
    <3>4. CASE mark_synced(j)
      <4>1. /\ at[j] = "mark" /\ push'[j].calendar = push[j].calendar
            /\ at'[j] = IF DOMAIN push'[j].rows = {} THEN "upsert" ELSE "sync"
        BY <3>4, MarkEffect
      <4>2. push'[j].calendar # 0
        BY <1>1, <4>1 DEF JobFits
      <4>3. QED
        BY <3>2, <4>1, <4>2
    <3>5. CASE ~SyncEvent(j) /\ ~mark_synced(j)
      <4>1. created + 1 # 0
        BY <1>1, Numbers
      <4>2. at[j] \in {"list", "now"} => push[j].calendar # 0
        BY <1>1 DEF JobFits
      <4>3. at'[j] \in {"list", "now", "sync", "mark", "upsert"} => push'[j].calendar # 0
        BY <1>6, <2>3, <3>5, <4>1, <4>2, HandlerCases
      <4>4. /\ at'[j] \in {"list", "now", "sync", "mark", "upsert", "fail"} \/ push'[j] = NoPush
            /\ at'[j] = "create" => Full(j)
            /\ at'[j] = "record" => ~Full(j)
            /\ at'[j] \in {"list", "upsert", "fail"} => DOMAIN push'[j].rows = {}
            /\ at'[j] = "now" /\ Full(j) => DOMAIN push'[j].rows = Tasks
        BY <1>6, <2>3, <3>5, HandlerCases
      <4>5. QED
        BY <3>2, <4>3, <4>4
    <3>6. QED
      BY <3>3, <3>4, <3>5
  <2>4. QED
    BY <2>2, <2>3
<1>7. ASSUME NEW i \in Jobs, OnlyQueue(i) PROVE JobFits(j)'
  <2>1. client' = client
    BY <1>7, OnlyQueueEffect
  <2>2. CASE i # j
    BY <1>4, <1>7, <2>1, <2>2, OnlyQueueEffect
  <2>3. CASE i = j
    <3>1. push'[j] = NoPush /\ client[j].at = "over" /\ at'[j] \in {"idle", "load"}
      BY <1>1, <1>7, <2>3, OnlyQueueEffect DEF JobFits
    <3>2. /\ at'[j] # "idle" <=> job'[j] = "running"
          /\ job'[j] = "running" => tries'[j] > 0
          /\ job'[j] # "none"
      BY <1>2, <1>7, <2>3, OnlyQueueEffect
    <3>3. QED
      BY <2>1, <3>1, <3>2 DEF JobFits
  <2>4. QED
    BY <2>2, <2>3
<1>8. CASE UNCHANGED vars
  BY <1>4, <1>8 DEF vars, queue
<1>9. QED
  BY <1>5, <1>6, <1>7, <1>8, NextCases

\* Nobody but SetStatuses makes what a push holds out of date, and it says so.
LEMMA StatusStep ==
  ASSUME CalendarInv, NEW k \in Clients, SetStatuses(k)
  PROVE  /\ UNCHANGED <<slot, export, google, queue, at, push>>
         /\ overtaken \subseteq overtaken' /\ clock' = clock + 1
         /\ k \in Changes /\ client[k].at = "ready" /\ PatientCall(k) /\ client'[k].at = "mark"
         /\ client'[k].todo \subseteq Tasks
         /\ \A t \in Tasks \ client'[k].todo : task'[t] = task[t]
         /\ \A t \in client'[k].todo, j \in Jobs : t \in DOMAIN push[j].rows => t \in overtaken'
<1>1. TypeOK
  BY DEF CalendarInv
<1>2. PICK result \in TickResults \cup CheckinResults :
          /\ task' = [t \in Tasks |->
                IF t \in DOMAIN result
                THEN [status |-> result[t],
                      completed_at |-> IF result[t] = "done" THEN clock + 1 ELSE 0]
                ELSE task[t]]
          /\ Calls(k, "mark", DOMAIN result, 0)
          /\ overtaken' = overtaken \cup
                {t \in DOMAIN result : \E j \in Jobs : t \in DOMAIN push[j].rows}
  BY DEF SetStatuses
<1>3. client'[k].todo = DOMAIN result /\ client'[k].at = "mark"
  BY <1>1, <1>2, CallsFrame
<1>4. DOMAIN result \subseteq Tasks
  BY ResultFits
<1>5. UNCHANGED <<slot, export, google, queue, at, push>> /\ clock' = clock + 1
      /\ k \in Changes /\ client[k].at = "ready" /\ PatientCall(k)
  BY DEF SetStatuses
<1>6. QED
  BY <1>2, <1>3, <1>4, <1>5

\* What the other steps of the clients leave alone.
LEMMA QuietClients ==
  ASSUME CalendarInv, NEW k \in Clients, ClientStep(k), ~SetStatuses(k)
  PROVE  /\ UNCHANGED <<task, clock, overtaken, push, at>>
         /\ DOMAIN events' \subseteq DOMAIN events /\ calendars' \subseteq calendars
         /\ \A e \in DOMAIN events' : events'[e] = events[e]
<1>1. UNCHANGED <<task, clock, overtaken, push, at>>
  BY ClientEffect DEF ClientStep, RequestStep, RequestReads, RequestUpserts, RequestEnqueues,
     ChangeStep, MarkDirty, enqueue_incremental_export, UnexportStep, UnexportReads,
     DeleteCalendar, ForgetEvent, DeleteRecord, ClientDies, plan
<1>2. CASE DeleteCalendar(k)
  BY <1>1, <1>2 DEF DeleteCalendar
<1>3. CASE ~DeleteCalendar(k)
  <2>1. UNCHANGED google
    BY <1>3 DEF ClientStep, RequestStep, RequestReads, RequestUpserts, RequestEnqueues,
       ChangeStep, MarkDirty, enqueue_incremental_export, UnexportStep, UnexportReads,
       ForgetEvent, DeleteRecord, ClientDies
  <2>2. QED
    BY <1>1, <2>1 DEF google
<1>4. QED
  BY <1>2, <1>3

\* A push that was not overtaken holds the status of the task, and shows it.
LEMMA HoldsCurrentKept ==
  ASSUME CalendarInv, [Next]_vars, NEW j \in Jobs
  PROVE  HoldsCurrent(j)'
<1>1. TypeOK /\ JobFits(j) /\ HoldsCurrent(j) /\ \A i \in Jobs : HoldsCurrent(i)
  BY DEF CalendarInv
<1>2. \A t : IsFirst(j, t) => t \in DOMAIN push[j].rows
  BY DEF IsFirst
<1>3. ASSUME overtaken \subseteq overtaken', push'[j] = push[j], at'[j] = at[j],
             \A t \in Tasks \ overtaken' : t \in DOMAIN push[j].rows => task'[t] = task[t],
             \A t \in Tasks \ overtaken' : IsFirst(j, t) /\ Written(j, t) \in DOMAIN events' =>
                /\ Written(j, t) \in DOMAIN events
                /\ events'[Written(j, t)] \in {events[Written(j, t)], task[t].status}
      PROVE  HoldsCurrent(j)'
  <2>1. \A t : IsFirst(j, t)' = IsFirst(j, t) /\ Written(j, t)' = Written(j, t)
    BY <1>3 DEF IsFirst, Written
  <2>2. DOMAIN push[j].rows \subseteq Tasks
    BY <1>1 DEF TypeOK
  <2>3. \A t \in DOMAIN push'[j].rows \ overtaken' : push'[j].rows[t].status = task'[t].status
    BY <1>1, <1>3, <2>2 DEF HoldsCurrent
  <2>4. ASSUME at'[j] = "mark", NEW t \in Tasks \ overtaken', IsFirst(j, t),
               Written(j, t) \in DOMAIN events'
        PROVE  events'[Written(j, t)] = task'[t].status
    BY <1>1, <1>2, <1>3, <2>4 DEF HoldsCurrent
  <2>5. QED
    BY <2>1, <2>3, <2>4 DEF HoldsCurrent
<1>4. ASSUME NEW k \in Clients, ClientStep(k) PROVE HoldsCurrent(j)'
  <2>1. CASE SetStatuses(k)
    <3>1. /\ UNCHANGED <<google, at, push>> /\ overtaken \subseteq overtaken'
          /\ \A t \in Tasks \ client'[k].todo : task'[t] = task[t]
          /\ \A t \in client'[k].todo : t \in DOMAIN push[j].rows => t \in overtaken'
      BY <1>4, <2>1, StatusStep
    <3>2. QED
      BY <1>3, <3>1 DEF google
  <2>2. CASE ~SetStatuses(k)
    BY <1>3, <1>4, <2>2, QuietClients
  <2>3. QED
    BY <2>1, <2>2
<1>5. ASSUME NEW i \in Jobs, Handles(i), i # j PROVE HoldsCurrent(j)'
  <2>1. UNCHANGED <<task, overtaken>> /\ push'[j] = push[j] /\ at'[j] = at[j]
    BY <1>5, HandlerEffect
  <2>2. CASE ~SyncEvent(i)
    <3>1. events' = events
      BY <1>5, <2>2, HandlerCases, MarkEffect DEF google
    <3>2. QED
      BY <1>3, <2>1, <3>1
  <2>3. CASE SyncEvent(i)
    <3>1. PICK u \in Tasks :
            /\ IsFirst(i, u)
            /\ \/ /\ DOMAIN events' \subseteq DOMAIN events
                  /\ \A d \in DOMAIN events' : events'[d] = events[d]
               \/ \E e : /\ e[2] = u
                         /\ e \notin DOMAIN events /\ DOMAIN events' = DOMAIN events \cup {e}
                         /\ events'[e] = push[i].rows[u].status
                         /\ \A d \in DOMAIN events : events'[d] = events[d]
               \/ \E e : /\ e[2] = u
                         /\ DOMAIN events' = DOMAIN events
                         /\ events'[e] = push[i].rows[u].status
                         /\ \A d \in DOMAIN events : d # e => events'[d] = events[d]
      <4>1. PICK u \in Tasks : LET e == <<push'[i].ref[1], u, push'[i].ref[2]>> IN
               /\ IsFirst(i, u)
               /\ \/ /\ DOMAIN events' = DOMAIN events \ {KnownEvent(i, u)}
                     /\ \A d \in DOMAIN events' : events'[d] = events[d]
                  \/ /\ e \notin DOMAIN events /\ DOMAIN events' = DOMAIN events \cup {e}
                     /\ events'[e] = push[i].rows[u].status
                     /\ \A d \in DOMAIN events : events'[d] = events[d]
                  \/ /\ DOMAIN events' = DOMAIN events
                     /\ events'[e] = push[i].rows[u].status
                     /\ \A d \in DOMAIN events : d # e => events'[d] = events[d]
        BY <2>3, SyncEffect
      <4>2. <<push'[i].ref[1], u, push'[i].ref[2]>>[2] = u
        OBVIOUS
      <4>3. QED
        BY <4>1, <4>2
    <3>2. u \in DOMAIN push[i].rows \ overtaken => push[i].rows[u].status = task[u].status
      BY <1>1 DEF HoldsCurrent
    <3>3. u \in DOMAIN push[i].rows
      BY <3>1 DEF IsFirst
    <3>4. \A t \in Tasks \ overtaken' :
             Written(j, t) \in DOMAIN events' =>
                \/ Written(j, t) \in DOMAIN events
                   /\ events'[Written(j, t)] \in {events[Written(j, t)], task[t].status}
                \/ events'[Written(j, t)] = task[t].status
      <4>1. \A t : Written(j, t)[2] = t
        BY DEF Written
      <4>2. ASSUME NEW t \in Tasks \ overtaken', Written(j, t) \in DOMAIN events'
            PROVE  \/ Written(j, t) \in DOMAIN events
                      /\ events'[Written(j, t)] \in {events[Written(j, t)], task[t].status}
                   \/ events'[Written(j, t)] = task[t].status
        <5>1. t = u => push[i].rows[u].status = task[t].status
          BY <2>1, <3>2, <3>3, <4>2
        <5>2. \A e : e = Written(j, t) /\ e[2] = u => t = u
          BY <4>1
        <5>3. CASE /\ DOMAIN events' \subseteq DOMAIN events
                   /\ \A d \in DOMAIN events' : events'[d] = events[d]
          BY <4>2, <5>3
        <5>4. ASSUME NEW e, e[2] = u, DOMAIN events' \subseteq DOMAIN events \cup {e},
                     events'[e] = push[i].rows[u].status,
                     \A d \in DOMAIN events : d # e => events'[d] = events[d]
              PROVE  \/ Written(j, t) \in DOMAIN events
                        /\ events'[Written(j, t)] = events[Written(j, t)]
                     \/ events'[Written(j, t)] = task[t].status
          <6>1. CASE e = Written(j, t)
            BY <5>1, <5>2, <5>4, <6>1
          <6>2. CASE e # Written(j, t)
            BY <4>2, <5>4, <6>2
          <6>3. QED
            BY <6>1, <6>2
        <5>5. QED
          BY <3>1, <5>3, <5>4
      <4>3. QED
        BY <4>2
    <3>5. \A t : IsFirst(j, t)' = IsFirst(j, t) /\ Written(j, t)' = Written(j, t)
      BY <2>1 DEF IsFirst, Written
    <3>6. QED
      BY <1>1, <2>1, <3>4, <3>5 DEF HoldsCurrent
  <2>4. QED
    BY <2>2, <2>3
<1>6. ASSUME Handles(j) PROVE HoldsCurrent(j)'
  <2>1. UNCHANGED <<task, overtaken>>
    BY <1>6, HandlerEffect
  <2>2. CASE SyncEvent(j)
    <3>1. PICK t \in Tasks : LET e == <<push'[j].ref[1], t, push'[j].ref[2]>> IN
             /\ IsFirst(j, t)
             /\ \/ push'[j].ref = NoRef /\ DOMAIN events' \subseteq DOMAIN events
                \/ events'[e] = push[j].rows[t].status
      BY <2>2, SyncEffect
    <3>2. push'[j].rows = push[j].rows
      BY <2>2, SyncEffect
    <3>3. \A u : IsFirst(j, u)' => u = t
      BY <1>1, <3>1, <3>2, Numbers DEF IsFirst, TypeOK, Tasks
    <3>4. t \notin overtaken /\ <<push'[j].ref[1], t, push'[j].ref[2]>> \in DOMAIN events' =>
             events'[<<push'[j].ref[1], t, push'[j].ref[2]>>] = task[t].status
      <4>1. push'[j].ref = NoRef /\ DOMAIN events' \subseteq DOMAIN events =>
               <<push'[j].ref[1], t, push'[j].ref[2]>> \notin DOMAIN events'
        BY <1>1, Numbers DEF TypeOK
      <4>2. t \notin overtaken => push[j].rows[t].status = task[t].status
        BY <1>1, <3>1 DEF HoldsCurrent, IsFirst
      <4>3. QED
        BY <3>1, <4>1, <4>2
    <3>5. QED
      BY <1>1, <2>1, <3>2, <3>3, <3>4 DEF HoldsCurrent, Written
  <2>3. CASE mark_synced(j)
    <3>1. /\ DOMAIN push'[j].rows \subseteq DOMAIN push[j].rows /\ at'[j] # "mark"
          /\ \A u \in DOMAIN push'[j].rows : push'[j].rows[u] = push[j].rows[u]
      BY <2>3, MarkEffect
    <3>2. QED
      BY <1>1, <2>1, <3>1 DEF HoldsCurrent
  <2>4. CASE ~SyncEvent(j) /\ ~mark_synced(j)
    <3>1. /\ at'[j] # "mark"
          /\ \/ DOMAIN push'[j].rows = {}
             \/ \A t \in DOMAIN push'[j].rows : push'[j].rows[t].status = task[t].status
             \/ push'[j].rows = push[j].rows
      BY <1>6, <2>4, HandlerCases, NoPushFields
    <3>2. QED
      BY <1>1, <2>1, <3>1 DEF HoldsCurrent
  <2>5. QED
    BY <2>2, <2>3, <2>4
<1>7. ASSUME NEW i \in Jobs, OnlyQueue(i) PROVE HoldsCurrent(j)'
  <2>1. UNCHANGED <<task, overtaken, events>>
    BY <1>7, OnlyQueueEffect DEF plan, google
  <2>2. CASE i # j
    BY <1>3, <1>7, <2>1, <2>2, OnlyQueueEffect
  <2>3. CASE i = j
    BY <1>7, <2>3, OnlyQueueEffect, NoPushFields DEF HoldsCurrent, IsFirst
  <2>4. QED
    BY <2>2, <2>3
<1>8. CASE UNCHANGED vars
  BY <1>3, <1>8 DEF vars, plan, google
<1>9. QED
  BY <1>4, <1>5, <1>6, <1>7, <1>8, NextCases

-----------------------------------------------------------------------------
\* A call that was not made yet owes nothing.
LEMMA ReadyKept ==
  ASSUME CalendarInv, [Next]_vars, NEW k \in Clients, client'[k].at = "ready"
  PROVE  client'[k].todo = {}
<1>1. TypeOK
  BY DEF CalendarInv
<1>2. ASSUME NEW m \in Clients, ClientStep(m) PROVE client'[k] = client[k]
  <2>1. \E step \in ClientSteps \ {"ready"}, todo \in SUBSET Tasks, c \in 0..created :
           Calls(m, step, todo, c)
    <3>1. /\ client[m].todo \subseteq Tasks /\ client[m].calendar \in 0..created
          /\ export.calendar \in 0..created /\ 0 \in 0..created
      BY <1>1, Fields, Numbers
    <3>2. CASE SetStatuses(m)
      BY <3>1, <3>2, ResultFits DEF SetStatuses, ClientSteps
    <3>3. CASE MarkDirty(m)
      <4>1. PICK t \in client[m].todo :
               Calls(m, IF client[m].todo = {t} THEN "enqueue" ELSE "mark", client[m].todo \ {t}, 0)
        BY <3>3 DEF MarkDirty
      <4>2. client[m].todo \ {t} \in SUBSET Tasks
        BY <3>1
      <4>3. (IF client[m].todo = {t} THEN "enqueue" ELSE "mark") \in ClientSteps \ {"ready"}
        BY DEF ClientSteps
      <4>4. QED
        BY <3>1, <4>1, <4>2, <4>3
    <3>4. CASE ForgetEvent(m)
      <4>1. PICK t \in client[m].todo :
               Calls(m, "forget", client[m].todo \ {t}, client[m].calendar)
        BY <3>4 DEF ForgetEvent
      <4>2. client[m].todo \ {t} \in SUBSET Tasks
        BY <3>1
      <4>3. QED
        BY <3>1, <4>1, <4>2 DEF ClientSteps
    <3>5. CASE UnexportReads(m)
      BY <3>1, <3>5 DEF UnexportReads, ClientSteps
    <3>6. CASE RequestReads(m)
      BY <3>1, <3>6 DEF RequestReads, ClientSteps
    <3>7. CASE \E step \in ClientSteps \ {"ready"} : Moves(m, step)
      BY <3>1, <3>7 DEF Moves
    <3>8. QED
      BY <1>2, <3>2, <3>3, <3>4, <3>5, <3>6, <3>7 DEF ClientStep, RequestStep, RequestUpserts,
         RequestEnqueues, ChangeStep, enqueue_incremental_export, UnexportStep, DeleteCalendar,
         DeleteRecord, ClientDies, ClientSteps
  <2>2. client'[m].at # "ready"
    BY <1>1, <2>1, CallsFrame
  <2>3. QED
    BY <1>2, <2>2, ClientEffect
<1>3. ASSUME NEW j \in Jobs, Handles(j) \/ OnlyQueue(j) PROVE client'[k] = client[k]
  BY <1>3, HandlerEffect, OnlyQueueEffect
<1>4. client'[k] = client[k]
  BY <1>2, <1>3, NextCases DEF vars
<1>5. QED
  BY <1>4 DEF CalendarInv

\* A change is lost only in the one race: LostOnlyWhenOvertaken stays true.
LEMMA LostKept ==
  ASSUME CalendarInv, LostOnlyWhenOvertaken, [Next]_vars
  PROVE  LostOnlyWhenOvertaken'
<1>1. TypeOK /\ \A j \in Jobs : HoldsCurrent(j)
  BY DEF CalendarInv
<1> SUFFICES ASSUME NEW t \in Tasks, Stale(t)'
             PROVE  Dirty(t)' \/ Owed(t)' \/ t \in overtaken'
  BY DEF LostOnlyWhenOvertaken
<1>2. Stale(t) => Dirty(t) \/ Owed(t) \/ t \in overtaken
  BY DEF LostOnlyWhenOvertaken
<1> DEFINE Goal == Dirty(t)' \/ Owed(t)' \/ t \in overtaken'
<1>3. ASSUME task'[t] = task[t], slot'[t] = slot[t], overtaken \subseteq overtaken',
             Owed(t) => Owed(t)',
             Event(t) \in DOMAIN events' =>
                \/ events'[Event(t)] = task[t].status
                \/ Event(t) \in DOMAIN events /\ events'[Event(t)] = events[Event(t)]
      PROVE  Goal
  <2>1. Event(t)' = Event(t) /\ Dirty(t)' = Dirty(t)
    BY <1>3 DEF Event, Dirty
  <2>2. QED
    BY <1>2, <1>3, <2>1 DEF Stale
<1>4. ASSUME NEW k \in Clients, ClientStep(k) PROVE Goal
  <2>1. CASE SetStatuses(k)
    <3>1. /\ UNCHANGED <<slot, google>> /\ overtaken \subseteq overtaken'
          /\ k \in Changes /\ client[k].todo = {}
          /\ \A u \in Tasks \ client'[k].todo : task'[u] = task[u]
      BY <1>4, <2>1, StatusStep DEF CalendarInv
    <3>2. CASE t \in client'[k].todo
      BY <3>1, <3>2 DEF Owed
    <3>3. CASE t \notin client'[k].todo
      <4>1. Owed(t) => Owed(t)'
        BY <1>4, <3>1, ClientEffect, Kinds DEF Owed
      <4>2. QED
        BY <1>3, <3>1, <3>3, <4>1 DEF google
    <3>4. QED
      BY <3>2, <3>3
  <2>2. CASE MarkDirty(k)
    <3>1. PICK u \in client[k].todo :
             /\ slot' = [slot EXCEPT ![u] = [ref |-> slot[u].ref, synced_at |-> 0]]
             /\ Calls(k, IF client[k].todo = {u} THEN "enqueue" ELSE "mark",
                      client[k].todo \ {u}, 0)
      BY <2>2 DEF MarkDirty
    <3>2. u \in Tasks /\ slot[u].ref \in Ref /\ 0 \in 0..clock
      BY <1>1, <1>4, Fields, Numbers
    <3>3. slot'[u].synced_at = 0 /\ \A v \in Tasks : v # u => slot'[v] = slot[v]
      BY <1>1, <3>1, <3>2, SlotTyped
    <3>4. client'[k].todo = client[k].todo \ {u}
      BY <1>1, <3>1, CallsFrame
    <3>5. CASE t = u
      BY <3>3, <3>5 DEF Dirty
    <3>6. CASE t # u
      <4>1. Owed(t) => Owed(t)'
        BY <1>4, <3>4, <3>6, ClientEffect, Kinds DEF Owed
      <4>2. QED
        BY <1>3, <2>2, <3>3, <3>6, <4>1 DEF MarkDirty, google
    <3>7. QED
      BY <3>5, <3>6
  <2>3. CASE ForgetEvent(k)
    <3>1. PICK u \in client[k].todo :
             slot' = [slot EXCEPT ![u] = [ref |-> NoRef, synced_at |-> 0]]
      BY <2>3 DEF ForgetEvent
    <3>2. u \in Tasks /\ NoRef \in Ref /\ 0 \in 0..clock
      BY <1>1, <1>4, Fields, Numbers
    <3>3. slot'[u].synced_at = 0 /\ \A v \in Tasks : v # u => slot'[v] = slot[v]
      BY <1>1, <3>1, <3>2, SlotTyped
    <3>4. CASE t = u
      BY <3>3, <3>4 DEF Dirty
    <3>5. CASE t # u
      <4>1. Owed(t) => Owed(t)'
        BY <1>4, <2>3, ClientEffect, Kinds DEF Owed, ForgetEvent
      <4>2. QED
        BY <1>3, <2>3, <3>3, <3>5, <4>1 DEF ForgetEvent, google
    <3>6. QED
      BY <3>4, <3>5
  <2>4. CASE ~SetStatuses(k) /\ ~MarkDirty(k) /\ ~ForgetEvent(k)
    <3>1. slot' = slot
      BY <1>4, <2>4 DEF ClientStep, RequestStep, RequestReads, RequestUpserts, RequestEnqueues,
         ChangeStep, enqueue_incremental_export, UnexportStep, UnexportReads, DeleteCalendar,
         DeleteRecord, ClientDies, plan
    <3>2. k \in Changes => client'[k].todo = client[k].todo
      <4>1. k \in Changes => \E step : Moves(k, step)
        BY <1>4, <2>4, Kinds DEF ClientStep, RequestStep, RequestReads, RequestUpserts,
           RequestEnqueues, ChangeStep, enqueue_incremental_export, UnexportStep, UnexportReads,
           DeleteCalendar, DeleteRecord, ClientDies
      <4>2. QED
        BY <1>1, <4>1, CallsFrame DEF Moves
    <3>3. Owed(t) => Owed(t)'
      BY <1>4, <3>2, ClientEffect, Kinds DEF Owed
    <3>4. QED
      BY <1>3, <1>4, <2>4, <3>1, <3>3, QuietClients
  <2>5. QED
    BY <2>1, <2>2, <2>3, <2>4
<1>5. ASSUME NEW j \in Jobs, Handles(j) PROVE Goal
  <2>1. UNCHANGED <<task, client, overtaken>> /\ Owed(t)' = Owed(t)
    BY <1>5, HandlerEffect DEF Owed
  <2>2. CASE SyncEvent(j)
    <3>1. slot' = slot
      BY <2>2, SyncEffect DEF plan
    <3>2. PICK u \in Tasks : LET e == <<push'[j].ref[1], u, push'[j].ref[2]>> IN
             /\ IsFirst(j, u)
             /\ \/ /\ DOMAIN events' \subseteq DOMAIN events
                   /\ \A d \in DOMAIN events' : events'[d] = events[d]
                \/ /\ DOMAIN events' \subseteq DOMAIN events \cup {e}
                   /\ events'[e] = push[j].rows[u].status
                   /\ \A d \in DOMAIN events : d # e => events'[d] = events[d]
      <4>1. PICK u \in Tasks : LET e == <<push'[j].ref[1], u, push'[j].ref[2]>> IN
               /\ IsFirst(j, u)
               /\ \/ /\ DOMAIN events' = DOMAIN events \ {KnownEvent(j, u)}
                     /\ \A d \in DOMAIN events' : events'[d] = events[d]
                  \/ /\ e \notin DOMAIN events /\ DOMAIN events' = DOMAIN events \cup {e}
                     /\ events'[e] = push[j].rows[u].status
                     /\ \A d \in DOMAIN events : events'[d] = events[d]
                  \/ /\ DOMAIN events' = DOMAIN events
                     /\ events'[e] = push[j].rows[u].status
                     /\ \A d \in DOMAIN events : d # e => events'[d] = events[d]
        BY <2>2, SyncEffect
      <4>2. QED
        BY <4>1
    <3>3. u \in overtaken \/ push[j].rows[u].status = task[u].status
      BY <1>1, <3>2 DEF HoldsCurrent, IsFirst
    <3>4. CASE t \in overtaken
      BY <2>1, <3>4
    <3>5. CASE t \notin overtaken
      <4>1. <<push'[j].ref[1], u, push'[j].ref[2]>> = Event(t) => t = u
        BY DEF Event
      <4>2. ASSUME Event(t) \in DOMAIN events'
            PROVE  \/ events'[Event(t)] = task[t].status
                   \/ Event(t) \in DOMAIN events /\ events'[Event(t)] = events[Event(t)]
        <5>1. CASE <<push'[j].ref[1], u, push'[j].ref[2]>> = Event(t)
          BY <3>2, <3>3, <3>5, <4>1, <4>2, <5>1
        <5>2. CASE <<push'[j].ref[1], u, push'[j].ref[2]>> # Event(t)
          BY <3>2, <4>2, <5>2
        <5>3. QED
          BY <5>1, <5>2
      <4>3. QED
        BY <1>3, <2>1, <3>1, <4>2
    <3>6. QED
      BY <3>4, <3>5
  <2>3. CASE mark_synced(j)
    <3>1. PICK u \in Tasks :
             /\ IsFirst(j, u)
             /\ slot'[u].ref = push[j].ref
             /\ \A v \in Tasks : v # u => slot'[v] = slot[v]
      BY <2>3, MarkEffect
    <3>2. UNCHANGED google /\ at[j] = "mark"
      BY <2>3, MarkEffect
    <3>3. CASE t = u
      <4>1. Event(t)' = Written(j, t)
        BY <3>1, <3>3 DEF Event, Written
      <4>2. t \notin overtaken => ~Stale(t)'
        BY <1>1, <2>1, <3>1, <3>2, <3>3, <4>1 DEF HoldsCurrent, Stale, google
      <4>3. QED
        BY <2>1, <4>2
    <3>4. CASE t # u
      BY <1>3, <2>1, <3>1, <3>2, <3>4 DEF google
    <3>5. QED
      BY <3>3, <3>4
  <2>4. CASE ~SyncEvent(j) /\ ~mark_synced(j)
    <3>1. UNCHANGED <<slot, events>>
      BY <1>5, <2>4, HandlerCases DEF plan, google
    <3>2. QED
      BY <1>3, <2>1, <3>1
  <2>5. QED
    BY <2>2, <2>3, <2>4
<1>6. ASSUME NEW j \in Jobs, OnlyQueue(j) PROVE Goal
  BY <1>3, <1>6, OnlyQueueEffect DEF plan, google, Owed
<1>7. CASE UNCHANGED vars
  BY <1>3, <1>7 DEF vars, plan, google, Owed
<1>8. QED
  BY <1>4, <1>5, <1>6, <1>7, NextCases

-----------------------------------------------------------------------------
\* The steps of the clients, each with what it changes of the call and of the slots.
LEMMA ClientCases ==
  ASSUME CalendarInv, NEW k \in Clients, ClientStep(k)
  PROVE  \/ /\ k \in Requests /\ client[k].at = "ready" /\ PatientCall(k)
            /\ client'[k].at = "upsert" /\ client'[k].calendar = export.calendar
            /\ UNCHANGED <<plan, google, queue>>
         \/ /\ k \in Requests /\ client[k].at = "upsert"
            /\ client'[k].at = "enqueue" /\ client'[k].calendar = client[k].calendar
            /\ export' = [status |-> "queued", calendar |-> client[k].calendar]
            /\ UNCHANGED <<task, slot, google, queue>>
         \/ /\ k \in Requests /\ client[k].at = "enqueue" /\ Enqueue(k)
            /\ client'[k].at = "over" /\ client'[k].calendar = client[k].calendar
            /\ UNCHANGED <<plan, google>>
         \/ /\ k \in Changes /\ client[k].at = "ready" /\ PatientCall(k) /\ client'[k].at = "mark"
            /\ UNCHANGED <<slot, export, google, queue>>
         \/ /\ MarkDirty(k) /\ k \in Changes /\ client[k].at = "mark"
            /\ client'[k].at \in {"mark", "enqueue"}
            /\ \A t \in Tasks : /\ slot'[t].ref = slot[t].ref
                                /\ slot'[t] # slot[t] => slot'[t] = [ref |-> slot[t].ref, synced_at |-> 0]
            /\ UNCHANGED <<task, export, google, queue>>
         \/ /\ k \in Changes /\ client[k].at = "enqueue" /\ client'[k].at = "over"
            /\ \/ export.calendar # 0 /\ Enqueue(k)
               \/ UNCHANGED queue
            /\ UNCHANGED <<plan, google>>
         \/ /\ k \in Unexports /\ client[k].at = "ready" /\ PatientCall(k)
            /\ export # NoExport /\ client'[k].at \in {"delete", "forget"}
            /\ client'[k].at = "forget" => export.calendar = 0
            /\ client'[k].todo = Tasks /\ client'[k].calendar = export.calendar
            /\ UNCHANGED <<plan, google, queue>>
         \/ /\ k \in Unexports /\ client[k].at = "delete" /\ client'[k].at = "forget"
            /\ client'[k].todo = client[k].todo /\ client'[k].calendar = client[k].calendar
            /\ calendars' = calendars \ {client[k].calendar}
            /\ UNCHANGED <<plan, created, queue>>
         \/ /\ ForgetEvent(k) /\ k \in Unexports /\ client[k].at = "forget"
            /\ client'[k].at = "forget" /\ client'[k].calendar = client[k].calendar
            /\ \E t \in client[k].todo : /\ client'[k].todo = client[k].todo \ {t}
                                         /\ slot'[t] = Blank
                                         /\ \A u \in Tasks : u # t => slot'[u] = slot[u]
            /\ UNCHANGED <<task, export, google, queue>>
         \/ /\ DeleteRecord(k) /\ k \in Unexports /\ client[k].at = "forget" /\ client[k].todo = {}
            /\ client'[k].at = "over" /\ export' = NoExport
            /\ UNCHANGED <<task, slot, google, queue>>
         \/ /\ Under(k) /\ client'[k].at = "gone" /\ UNCHANGED <<plan, google, queue>>
<1>1. TypeOK
  BY DEF CalendarInv
<1>2. \A step : Moves(k, step) =>
         /\ client'[k].at = step /\ client'[k].todo = client[k].todo
         /\ client'[k].calendar = client[k].calendar
  BY <1>1, CallsFrame DEF Moves
<1>3. CASE RequestReads(k)
  BY <1>1, <1>3, CallsFrame DEF RequestReads
<1>4. CASE RequestUpserts(k)
  BY <1>2, <1>4 DEF RequestUpserts
<1>5. CASE RequestEnqueues(k)
  BY <1>2, <1>5 DEF RequestEnqueues
<1>6. CASE SetStatuses(k)
  BY <1>6, StatusStep
<1>7. CASE MarkDirty(k)
  <2>1. PICK t \in client[k].todo :
           /\ slot' = [slot EXCEPT ![t] = [ref |-> slot[t].ref, synced_at |-> 0]]
           /\ Calls(k, IF client[k].todo = {t} THEN "enqueue" ELSE "mark",
                    client[k].todo \ {t}, 0)
    BY <1>7 DEF MarkDirty
  <2>2. t \in Tasks /\ slot[t].ref \in Ref /\ 0 \in 0..clock
    BY <1>1, Fields, Numbers
  <2>3. /\ slot'[t] = [ref |-> slot[t].ref, synced_at |-> 0] /\ slot'[t].ref = slot[t].ref
        /\ \A u \in Tasks : u # t => slot'[u] = slot[u]
    BY <1>1, <2>1, <2>2, SlotTyped
  <2>4. client'[k].at = IF client[k].todo = {t} THEN "enqueue" ELSE "mark"
    BY <1>1, <2>1, CallsFrame
  <2>5. \A u \in Tasks : /\ slot'[u].ref = slot[u].ref
                         /\ slot'[u] # slot[u] => slot'[u] = [ref |-> slot[u].ref, synced_at |-> 0]
    <3>1. ASSUME NEW u \in Tasks
          PROVE  /\ slot'[u].ref = slot[u].ref
                 /\ slot'[u] # slot[u] => slot'[u] = [ref |-> slot[u].ref, synced_at |-> 0]
      <4>1. CASE u = t
        BY <2>3, <4>1
      <4>2. CASE u # t
        BY <2>3, <4>2
      <4>3. QED
        BY <4>1, <4>2
    <3>2. QED
      BY <3>1
  <2>6. QED
    BY <1>7, <2>4, <2>5 DEF MarkDirty, queue
<1>8. CASE enqueue_incremental_export(k)
  BY <1>2, <1>8 DEF enqueue_incremental_export
<1>9. CASE UnexportReads(k)
  BY <1>1, <1>9, CallsFrame DEF UnexportReads
<1>10. CASE DeleteCalendar(k)
  BY <1>2, <1>10 DEF DeleteCalendar
<1>11. CASE ForgetEvent(k)
  <2>1. PICK t \in client[k].todo :
           /\ slot' = [slot EXCEPT ![t] = [ref |-> NoRef, synced_at |-> 0]]
           /\ Calls(k, "forget", client[k].todo \ {t}, client[k].calendar)
    BY <1>11 DEF ForgetEvent
  <2>2. t \in Tasks /\ NoRef \in Ref /\ 0 \in 0..clock
    BY <1>1, Fields, Numbers
  <2>3. slot'[t] = Blank /\ \A u \in Tasks : u # t => slot'[u] = slot[u]
    BY <1>1, <2>1, <2>2, SlotTyped DEF Blank
  <2>4. /\ client'[k].at = "forget" /\ client'[k].calendar = client[k].calendar
        /\ client'[k].todo = client[k].todo \ {t}
    BY <1>1, <2>1, CallsFrame
  <2>5. QED
    BY <1>11, <2>3, <2>4 DEF ForgetEvent
<1>12. CASE DeleteRecord(k)
  BY <1>2, <1>12 DEF DeleteRecord
<1>13. CASE ClientDies(k)
  BY <1>2, <1>13 DEF ClientDies
<1>14. QED
  BY <1>3, <1>4, <1>5, <1>6, <1>7, <1>8, <1>9, <1>10, <1>11, <1>12, <1>13
     DEF ClientStep, RequestStep, ChangeStep, UnexportStep

-----------------------------------------------------------------------------
\* A job gets into the queue by the last step of its call, and in no other way.
LEMMA QueueStarts ==
  ASSUME CalendarInv, [Next]_vars, NEW j \in Jobs, InQueue(j)'
  PROVE  \/ InQueue(j)
         \/ /\ ClientStep(j) /\ client[j].at = "enqueue" /\ client'[j].at = "over"
            /\ client'[j].calendar = client[j].calendar
            /\ job[j] = "none" /\ job'[j] = "queued"
            /\ j \in Changes => export.calendar # 0
<1>1. job'[j] \in {"queued", "running"} /\ (job'[j] = job[j] => InQueue(j))
  BY DEF InQueue
<1>2. ASSUME NEW k \in Clients, ClientStep(k), ~InQueue(j)
      PROVE  k = j /\ client[j].at = "enqueue" /\ job'[j] # job[j]
  BY <1>1, <1>2, ClientEffect
<1>3. ASSUME NEW i \in Jobs, Handles(i) PROVE InQueue(j)
  BY <1>1, <1>3, HandlerEffect DEF queue
<1>4. ASSUME NEW i \in Jobs, OnlyQueue(i) PROVE InQueue(j)
  <2>1. CASE i = j
    BY <1>1, <1>4, <2>1, OnlyQueueEffect DEF InQueue
  <2>2. CASE i # j
    BY <1>1, <1>4, <2>2, OnlyQueueEffect
  <2>3. QED
    BY <2>1, <2>2
<1>5. CASE UNCHANGED vars
  BY <1>1, <1>5 DEF vars, queue
<1>6. ASSUME ClientStep(j), job'[j] # job[j]
      PROVE  /\ client[j].at = "enqueue" /\ client'[j].at = "over"
             /\ client'[j].calendar = client[j].calendar
             /\ job[j] = "none" /\ job'[j] = "queued"
             /\ j \in Changes => export.calendar # 0
  BY <1>6, ClientEffect, Kinds
<1>7. QED
  BY <1>2, <1>3, <1>4, <1>5, <1>6, NextCases

\* A call that is under way was, or has just been made by a user who waits.
LEMMA CallStarts ==
  ASSUME CalendarInv, [Next]_vars, NEW k \in Clients, Under(k)'
  PROVE  \/ Under(k)
         \/ /\ ClientStep(k) /\ client[k].at = "ready" /\ PatientCall(k) /\ UNCHANGED queue
<1>1. client'[k].at \notin {"ready", "over", "gone"} /\ (client'[k] = client[k] => Under(k))
  BY DEF Under
<1>2. ASSUME NEW m \in Clients, ClientStep(m), ~Under(k)
      PROVE  /\ m = k /\ client[k].at = "ready"
  BY <1>1, <1>2, ClientEffect DEF Under
<1>3. ASSUME ClientStep(k), client[k].at = "ready"
      PROVE  PatientCall(k) /\ UNCHANGED queue
  <2>1. ~Under(k)
    BY <1>3 DEF Under
  <2>2. QED
    BY <1>3, <2>1, ClientCases
<1>4. ASSUME NEW j \in Jobs, Handles(j) \/ OnlyQueue(j) PROVE Under(k)
  BY <1>1, <1>4, HandlerEffect, OnlyQueueEffect
<1>5. CASE UNCHANGED vars
  BY <1>1, <1>5 DEF vars
<1>6. QED
  BY <1>2, <1>3, <1>4, <1>5, NextCases

\* The calls of a patient user take turns.
LEMMA TurnsKept ==
  ASSUME CalendarInv, Patient, [Next]_vars
  PROVE  Turns'
<1>1. Turns
  BY DEF CalendarInv
<1>2. ASSUME NEW k \in Clients, Under(k)', ~Under(k)
      PROVE  /\ \A u \in Unexports : ~Under(u)
             /\ k \in Requests \cup Unexports => ~Pushing /\ \A r \in Requests : ~Under(r)
             /\ k \in Unexports => \A c \in Changes : ~Under(c)
             /\ \A m \in Clients : m # k => client'[m] = client[m]
             /\ UNCHANGED queue
  BY <1>2, CallStarts, ClientEffect DEF PatientCall
<1>3. ASSUME NEW j \in Jobs, InQueue(j)', ~InQueue(j)
      PROVE  /\ Under(j) /\ ~Under(j)' /\ \A m \in Clients : m # j => client'[m] = client[m]
             /\ \A i \in Jobs : i # j => job'[i] = job[i]
  BY <1>3, QueueStarts, ClientEffect, Kinds DEF Under
<1>4. \A i \in Jobs : job'[i] = job[i] => InQueue(i)' = InQueue(i)
  BY DEF InQueue
<1>5. \A k \in Clients : client'[k] = client[k] => Under(k)' = Under(k)
  BY DEF Under
<1>6. ASSUME NEW u \in Unexports, Under(u)'
      PROVE  ~Pushing' /\ \A k \in Clients : Under(k)' => k = u
  <2>1. u \in Clients /\ u \notin Jobs
    BY Kinds DEF Jobs
  <2>2. CASE Under(u)
    <3>1. ~Pushing /\ \A k \in Clients : Under(k) => k = u
      BY <1>1, <2>2 DEF Turns
    <3>2. ASSUME NEW k \in Clients, Under(k)', k # u PROVE FALSE
      BY <1>2, <2>2, <3>1, <3>2
    <3>3. ASSUME NEW j \in Jobs, InQueue(j)' PROVE FALSE
      BY <1>3, <2>1, <3>1, <3>3, Kinds DEF Pushing
    <3>4. QED
      BY <3>2, <3>3 DEF Pushing
  <2>3. CASE ~Under(u)
    <3>1. /\ \A k \in Clients : ~Under(k)
          /\ ~Pushing /\ UNCHANGED queue /\ \A m \in Clients : m # u => client'[m] = client[m]
      BY <1>2, <1>6, <2>1, <2>3, Kinds
    <3>2. ~Pushing'
      BY <1>4, <3>1 DEF Pushing, queue
    <3>3. QED
      BY <1>5, <3>1, <3>2
  <2>4. QED
    BY <2>2, <2>3
<1>7. ASSUME NEW r \in Requests, NEW s \in Requests, Under(r)'
      PROVE  ~InQueue(s)' /\ (Under(s)' => s = r)
  <2>1. r \in Clients /\ s \in Clients /\ r \in Jobs /\ s \in Jobs
    BY Kinds
  <2>2. CASE Under(r)
    <3>1. ~InQueue(s) /\ (Under(s) => s = r)
      BY <1>1, <2>2 DEF Turns
    <3>2. ASSUME InQueue(s)' PROVE FALSE
      BY <1>3, <1>7, <2>1, <3>1, <3>2
    <3>3. ASSUME Under(s)', s # r PROVE FALSE
      BY <1>2, <2>1, <2>2, <3>1, <3>3
    <3>4. QED
      BY <3>2, <3>3
  <2>3. CASE ~Under(r)
    <3>1. /\ ~Pushing /\ UNCHANGED queue /\ ~Under(s)
          /\ \A m \in Clients : m # r => client'[m] = client[m]
      BY <1>2, <1>7, <2>1, <2>3
    <3>2. QED
      BY <1>4, <1>5, <2>1, <3>1 DEF Pushing, queue
  <2>4. QED
    BY <2>2, <2>3
<1>8. ASSUME NEW r \in Requests, NEW s \in Requests, InQueue(r)', InQueue(s)'
      PROVE  r = s
  <2>1. r \in Jobs /\ s \in Jobs
    BY Kinds
  <2>2. CASE InQueue(r) /\ InQueue(s)
    BY <1>1, <2>2 DEF Turns
  <2>3. CASE ~InQueue(r)
    <3>1. ~InQueue(s) /\ (s # r => job'[s] = job[s])
      BY <1>1, <1>3, <1>8, <2>1, <2>3 DEF Turns
    <3>2. QED
      BY <1>4, <1>8, <2>1, <3>1
  <2>4. CASE ~InQueue(s)
    <3>1. ~InQueue(r) /\ (s # r => job'[r] = job[r])
      BY <1>1, <1>3, <1>8, <2>1, <2>4 DEF Turns
    <3>2. QED
      BY <1>4, <1>8, <2>1, <3>1
  <2>5. QED
    BY <2>2, <2>3, <2>4
<1>9. QED
  BY <1>6, <1>7, <1>8 DEF Turns

\* Beside a removal nothing happens.
LEMMA RemovalAlone ==
  ASSUME CalendarInv, Patient, [Next]_vars, NEW u \in Unexports, Under(u)
  PROVE  /\ ClientStep(u) \/ UNCHANGED vars
         /\ \A j \in Jobs : ~InQueue(j) /\ at[j] = "idle" /\ push[j] = NoPush
         /\ \A k \in Clients : Under(k) => k = u
<1>1. ~Pushing /\ \A k \in Clients : Under(k) => k = u
  BY DEF CalendarInv, Turns
<1>2. ASSUME NEW j \in Jobs PROVE ~InQueue(j) /\ at[j] = "idle" /\ push[j] = NoPush
  BY <1>1 DEF CalendarInv, JobFits, Pushing, InQueue
<1>3. ASSUME NEW k \in Clients, ClientStep(k) PROVE k = u
  <2>1. CASE client[k].at = "ready"
    <3>1. ~Under(k)
      BY <2>1 DEF Under
    <3>2. PatientCall(k)
      BY <1>3, <2>1, <3>1, ClientCases
    <3>3. QED
      BY <3>2 DEF PatientCall
  <2>2. CASE client[k].at # "ready"
    BY <1>1, <1>3, <2>2, ClientEffect DEF Under
  <2>3. QED
    BY <2>1, <2>2
<1>4. ASSUME NEW j \in Jobs, Handles(j) \/ OnlyQueue(j) PROVE FALSE
  BY <1>2, <1>4, HandlerEffect, OnlyQueueEffect DEF InQueue
<1>5. QED
  BY <1>1, <1>2, <1>3, <1>4, NextCases

\* A removal goes on with the recorded calendar.
LEMMA RemovesKept ==
  ASSUME CalendarInv, Patient, [Next]_vars, NEW u \in Unexports
  PROVE  Removes(u)'
<1> SUFFICES ASSUME Under(u)' PROVE Removes(u)'
  BY DEF Removes
<1>1. u \in Clients /\ TypeOK /\ Removes(u) /\ 0 \notin calendars
      /\ u \notin Requests /\ u \notin Changes
  BY Kinds, Numbers DEF CalendarInv
<1>2. client'[u].at \notin {"over", "gone", "ready"}
  BY DEF Under
<1>3. CASE ~Under(u)
  <2>1. ClientStep(u) /\ client[u].at = "ready"
    BY <1>1, <1>3, CallStarts
  <2>2. /\ client'[u].at = "forget" => export.calendar = 0
        /\ client'[u].todo = Tasks /\ client'[u].calendar = export.calendar
        /\ UNCHANGED <<export, calendars>>
    BY <1>1, <1>3, <2>1, ClientCases DEF plan, google
  <2>3. QED
    BY <1>1, <2>2 DEF Removes
<1>4. CASE Under(u) /\ ClientStep(u)
  <2>1. client[u].at # "ready"
    BY <1>4 DEF Under
  <2>2. /\ client[u].calendar = export.calendar
        /\ client[u].at = "delete" => client[u].todo = Tasks
        /\ client[u].at = "forget" =>
              export.calendar \notin calendars /\ \A t \in Tasks \ client[u].todo : slot[t] = Blank
    BY <1>1, <1>4 DEF Removes
  <2>3. \/ /\ client'[u].calendar = client[u].calendar /\ export' = export
           /\ calendars' = calendars \ {client[u].calendar}
           /\ client'[u].todo = client[u].todo /\ UNCHANGED slot /\ client[u].at = "delete"
           /\ client'[u].at = "forget"
        \/ /\ client[u].at = "forget" /\ client'[u].at = "forget"
           /\ client'[u].calendar = client[u].calendar /\ UNCHANGED <<export, calendars>>
           /\ \E t \in client[u].todo : /\ client'[u].todo = client[u].todo \ {t}
                                        /\ slot'[t] = Blank
                                        /\ \A v \in Tasks : v # t => slot'[v] = slot[v]
    BY <1>1, <1>2, <1>4, <2>1, ClientCases DEF plan, google
  <2>4. CASE client[u].at = "forget"
    BY <2>2, <2>3, <2>4 DEF Removes, Blank
  <2>5. CASE client[u].at = "delete"
    BY <2>2, <2>3, <2>5 DEF Removes, Blank
  <2>6. QED
    BY <2>3, <2>4, <2>5
<1>5. CASE Under(u) /\ UNCHANGED vars
  BY <1>1, <1>5 DEF Removes, Under, Blank, vars, plan, google
<1>6. QED
  BY <1>3, <1>4, <1>5, RemovalAlone

\* Without a record there is nothing left to push, and no event to remember.
LEMMA ForgottenKept ==
  ASSUME CalendarInv, Patient, [Next]_vars
  PROVE  Forgotten'
<1> SUFFICES ASSUME export' = NoExport
             PROVE  /\ ~Pushing' /\ \A r \in Requests : client'[r].at # "enqueue"
                    /\ \A t \in Tasks : slot'[t] = Blank
  BY DEF Forgotten, Blank
<1>1. TypeOK /\ Forgotten
  BY DEF CalendarInv
<1>2. NoExport.status = "none" /\ NoExport.calendar = 0
  BY DEF NoExport
<1>3. CASE export # NoExport
  <2>1. \E u \in Unexports : DeleteRecord(u) /\ ClientStep(u)
    <3>1. ASSUME NEW k \in Clients, ClientStep(k) PROVE DeleteRecord(k) /\ k \in Unexports
      <4>1. \A c : export' # [status |-> "queued", calendar |-> c]
        BY <1>2
      <4>2. QED
        BY <1>3, <3>1, <4>1, ClientCases DEF plan
    <3>2. ASSUME NEW j \in Jobs, Handles(j) PROVE FALSE
      <4>1. \A c : /\ export' # [status |-> "synced", calendar |-> c]
                   /\ export' # [status |-> "failed", calendar |-> c]
        BY <1>2
      <4>2. UNCHANGED export
        BY <3>2, <4>1, HandlerCases, SyncEffect, MarkEffect DEF plan
      <4>3. QED
        BY <1>3, <4>2
    <3>3. QED
      BY <1>3, <3>1, <3>2, NextCases, OnlyQueueEffect DEF vars, plan
  <2>2. PICK u \in Unexports : DeleteRecord(u) /\ ClientStep(u)
    BY <2>1
  <2>3. client[u].at = "forget" /\ client[u].todo = {} /\ UNCHANGED <<slot, queue>>
    BY <2>2 DEF DeleteRecord
  <2>4. Under(u) /\ u \in Clients /\ u \notin Requests
    BY <2>3, Kinds DEF Under
  <2>5. \A t \in Tasks : slot[t] = Blank
    BY <2>3, <2>4 DEF CalendarInv, Removes
  <2>6. (\A j \in Jobs : ~InQueue(j)) /\ \A k \in Clients : Under(k) => k = u
    BY <2>4, RemovalAlone
  <2>7. ~Pushing'
    BY <2>3, <2>6 DEF Pushing, InQueue, queue
  <2>8. ASSUME NEW r \in Requests, client'[r].at = "enqueue" PROVE FALSE
    BY <2>2, <2>4, <2>6, <2>8, ClientEffect, Kinds DEF Under
  <2>9. QED
    BY <2>3, <2>5, <2>7, <2>8
<1>4. CASE export = NoExport
  <2>1. /\ ~Pushing /\ \A r \in Requests : client[r].at # "enqueue"
        /\ \A t \in Tasks : slot[t] = Blank
    BY <1>1, <1>4 DEF Forgotten
  <2>2. \A j \in Jobs : ~InQueue(j)
    BY <2>1 DEF Pushing
  <2>3. ASSUME NEW j \in Jobs, InQueue(j)' PROVE FALSE
    BY <1>2, <1>4, <2>1, <2>2, <2>3, QueueStarts DEF Jobs
  <2>4. ASSUME NEW j \in Jobs, Handles(j) \/ OnlyQueue(j) PROVE FALSE
    BY <2>2, <2>4, HandlerEffect, OnlyQueueEffect DEF InQueue
  <2>5. ASSUME NEW k \in Clients, ClientStep(k)
        PROVE  /\ k \in Requests => client'[k].at # "enqueue"
               /\ \A t \in Tasks : slot'[t] = Blank
    <3>1. \A c : export' # [status |-> "queued", calendar |-> c]
      BY <1>2
    <3>2. k \in Requests => client'[k].at # "enqueue"
      BY <2>1, <2>5, <3>1, ClientCases, Kinds
    <3>3. UNCHANGED slot \/ \A t \in Tasks : slot'[t] \in {slot[t], Blank, [ref |-> slot[t].ref, synced_at |-> 0]}
      BY <2>5, ClientCases DEF plan
    <3>4. Blank.ref = NoRef
      BY DEF Blank
    <3>5. \A t \in Tasks : slot'[t] = Blank
      BY <2>1, <3>3, <3>4 DEF Blank
    <3>6. QED
      BY <3>2, <3>5
  <2>6. ASSUME NEW r \in Requests, client'[r].at = "enqueue" PROVE FALSE
    <3>1. r \in Clients /\ client[r].at # "enqueue"
      BY <2>1, Kinds
    <3>2. \A k \in Clients : ClientStep(k) => k = r
      BY <2>6, <3>1, ClientEffect
    <3>3. QED
      BY <2>4, <2>5, <2>6, <3>1, <3>2, NextCases DEF vars
  <2>7. \A t \in Tasks : slot'[t] = Blank
    <3>1. UNCHANGED vars => slot' = slot
      BY DEF vars, plan
    <3>2. QED
      BY <2>1, <2>4, <2>5, <3>1, NextCases
  <2>8. QED
    BY <2>3, <2>6, <2>7 DEF Pushing
<1>5. QED
  BY <1>3, <1>4

-----------------------------------------------------------------------------
\* Only a removal, beside which there is no push, makes a slot forget its event.
LEMMA NamesStay ==
  ASSUME CalendarInv, Patient, [Next]_vars
  PROVE  \/ \A t \in Tasks \ Rest : slot[t].ref # NoRef => slot'[t].ref # NoRef
         \/ \E u \in Unexports : /\ Under(u) /\ client[u].at = "forget"
                                 /\ client'[u].at = "forget" /\ client'[u].calendar = client[u].calendar
                                 /\ UNCHANGED <<export, google, at, push>>
<1>1. ASSUME NEW k \in Clients, ClientStep(k)
      PROVE  \/ \A t \in Tasks \ Rest : slot[t].ref # NoRef => slot'[t].ref # NoRef
             \/ \E u \in Unexports : /\ Under(u) /\ client[u].at = "forget"
                                     /\ client'[u].at = "forget" /\ client'[u].calendar = client[u].calendar
                                     /\ UNCHANGED <<export, google, at, push>>
  <2>1. CASE ForgetEvent(k)
    <3>1. PICK t \in client[k].todo : Calls(k, "forget", client[k].todo \ {t}, client[k].calendar)
      BY <2>1 DEF ForgetEvent
    <3>2. client'[k].at = "forget" /\ client'[k].calendar = client[k].calendar
      BY <3>1, CallsFrame DEF CalendarInv
    <3>3. QED
      BY <1>1, <2>1, <3>2 DEF ForgetEvent, Under
  <2>2. CASE ~ForgetEvent(k)
    <3>1. UNCHANGED slot \/ \A t \in Tasks : slot'[t].ref = slot[t].ref
      BY <1>1, <2>2, ClientCases DEF plan
    <3>2. QED
      BY <3>1
  <2>3. QED
    BY <2>1, <2>2
<1>2. ASSUME NEW j \in Jobs, Handles(j), NEW t \in Tasks \ Rest, slot[t].ref # NoRef
      PROVE  slot'[t].ref # NoRef
  <2>1. CASE mark_synced(j)
    <3>1. PICK v \in Tasks : /\ IsFirst(j, v) /\ slot'[v].ref = push[j].ref /\ at[j] = "mark"
                             /\ \A w \in Tasks : w # v => slot'[w] = slot[w]
      BY <2>1, MarkEffect
    <3>2. v \notin Rest => push[j].ref # NoRef
      BY <3>1 DEF CalendarInv, RowsAreNamed
    <3>3. QED
      BY <1>2, <3>1, <3>2
  <2>2. CASE ~mark_synced(j)
    BY <1>2, <2>2, HandlerCases, SyncEffect DEF plan
  <2>3. QED
    BY <2>1, <2>2
<1>3. QED
  BY <1>1, <1>2, NextCases, OnlyQueueEffect DEF vars, plan

\* The calendar of a record, or of a push, is not the one that is made next, and
\* only CreateCalendar adds one.
LEMMA CalendarsGrow ==
  ASSUME CalendarInv, [Next]_vars
  PROVE  /\ \A c \in 0..created : c \in calendars' => c \in calendars
         /\ export.calendar \in 0..created /\ \A j \in Jobs : push[j].calendar \in 0..created
         /\ \A k \in Clients : client[k].calendar \in 0..created
<1>1. TypeOK
  BY DEF CalendarInv
<1>2. created \in Nat /\ created + 1 \notin 0..created
  BY <1>1, Numbers
<1>3. ASSUME NEW k \in Clients, ClientStep(k) PROVE calendars' \subseteq calendars
  <2>1. CASE SetStatuses(k)
    BY <2>1, StatusStep DEF google
  <2>2. CASE ~SetStatuses(k)
    BY <1>3, <2>2, QuietClients
  <2>3. QED
    BY <2>1, <2>2
<1>4. ASSUME NEW j \in Jobs, Handles(j) PROVE calendars' \subseteq calendars \cup {created + 1}
  BY <1>4, HandlerCases, SyncEffect, MarkEffect DEF google
<1>5. calendars' \subseteq calendars \cup {created + 1}
  BY <1>3, <1>4, NextCases, OnlyQueueEffect DEF vars, google
<1>6. export.calendar \in 0..created /\ \A k \in Clients : client[k].calendar \in 0..created
  BY <1>1, Fields
<1>7. \A j \in Jobs : push[j].calendar \in 0..created
  BY <1>1 DEF TypeOK
<1>8. QED
  BY <1>2, <1>5, <1>6, <1>7

\* While the recorded calendar is there, every slot to be exported names an event.
LEMMA SlotsAreNamedKept ==
  ASSUME CalendarInv, Patient, [Next]_vars
  PROVE  SlotsAreNamed'
<1>1. TypeOK /\ SlotsAreNamed
  BY DEF CalendarInv
<1>2. CASE \E u \in Unexports : /\ Under(u) /\ client[u].at = "forget"
                                /\ client'[u].at = "forget" /\ client'[u].calendar = client[u].calendar
                                /\ UNCHANGED <<export, google, at, push>>
  <2>1. PICK u \in Unexports : /\ Under(u) /\ client[u].at = "forget" /\ client'[u].at = "forget"
                               /\ UNCHANGED <<export, google>>
    BY <1>2
  <2>2. export.calendar \notin calendars
    BY <2>1 DEF CalendarInv, Removes
  <2>3. ASSUME NEW r \in Requests, client'[r].at = "upsert" PROVE FALSE
    <3>1. r \in Clients /\ u \in Clients /\ r # u
      BY Kinds
    <3>2. ~Under(r) /\ (ClientStep(u) \/ UNCHANGED vars)
      BY <2>1, <3>1, RemovalAlone
    <3>3. client'[r] = client[r]
      BY <3>1, <3>2, ClientEffect DEF vars
    <3>4. QED
      BY <2>3, <3>2, <3>3 DEF Under
  <2>4. QED
    BY <2>1, <2>2, <2>3 DEF SlotsAreNamed, google
<1>3. CASE \A t \in Tasks \ Rest : slot[t].ref # NoRef => slot'[t].ref # NoRef
  <2>1. Named(Tasks) => Named(Tasks)'
    BY <1>3 DEF Named
  <2>2. export.calendar \in calendars => Named(Tasks)
    BY <1>1 DEF SlotsAreNamed
  <2>3. ASSUME export'.calendar = export.calendar, export.calendar \in calendars'
        PROVE  Named(Tasks)
    BY <2>2, <2>3, CalendarsGrow
  <2>4. ASSUME export'.calendar \in calendars' PROVE Named(Tasks)'
    <3>1. ASSUME NEW k \in Clients, ClientStep(k) PROVE Named(Tasks)
      <4>1. CASE client[k].at = "upsert" /\ k \in Requests
                 /\ export' = [status |-> "queued", calendar |-> client[k].calendar]
        <5>1. client[k].calendar \in calendars
          BY <2>4, <4>1, CalendarsGrow
        <5>2. QED
          BY <1>1, <4>1, <5>1 DEF SlotsAreNamed
      <4>2. CASE export' = NoExport
        <5>1. export'.calendar = 0 /\ 0 \in 0..created /\ 0 \notin calendars
          BY <1>1, <4>2, Numbers DEF NoExport
        <5>2. QED
          BY <2>4, <5>1, CalendarsGrow
      <4>3. CASE export' = export
        BY <2>3, <2>4, <4>3
      <4>4. QED
        BY <3>1, <4>1, <4>2, <4>3, ClientCases DEF plan
    <3>2. ASSUME NEW j \in Jobs, Handles(j) PROVE Named(Tasks)
      <4>1. CASE (at[j] = "upsert" /\ export' = [status |-> "synced", calendar |-> push[j].calendar])
                 \/ (at[j] = "fail" /\ export' = [status |-> "failed", calendar |-> push[j].calendar])
        <5>1. push[j].calendar \in calendars
          BY <2>4, <4>1, CalendarsGrow
        <5>2. DOMAIN push[j].rows = {}
          BY <4>1 DEF CalendarInv, JobFits
        <5>3. /\ (~Full(j) \/ at[j] = "fail") => Named(Tasks)
              /\ Full(j) /\ at[j] = "upsert" => Named(Tasks \ DOMAIN push[j].rows)
          BY <5>1 DEF CalendarInv, RowsAreNamed
        <5>4. Tasks \ DOMAIN push[j].rows = Tasks
          BY <5>2
        <5>5. QED
          BY <4>1, <5>3, <5>4
      <4>2. CASE export' = export
        BY <2>3, <2>4, <4>2
      <4>3. QED
        BY <3>2, <4>1, <4>2, HandlerCases, SyncEffect, MarkEffect DEF plan
    <3>3. CASE export' = export
      BY <2>1, <2>3, <2>4, <3>3
    <3>4. QED
      BY <2>1, <3>1, <3>2, <3>3, NextCases, OnlyQueueEffect DEF vars, plan
  <2>5. ASSUME NEW r \in Requests, client'[r].at = "upsert", client'[r].calendar \in calendars'
        PROVE  Named(Tasks)'
    <3>1. r \in Clients /\ (client[r].at = "upsert" /\ client[r].calendar \in calendars => Named(Tasks))
      BY <1>1, Kinds DEF SlotsAreNamed
    <3>2. CASE client'[r] = client[r]
      BY <2>1, <2>5, <3>1, <3>2, CalendarsGrow
    <3>3. CASE ClientStep(r)
      <4>1. client'[r].calendar = export.calendar
        BY <2>5, <3>1, <3>3, ClientCases, Kinds
      <4>2. QED
        BY <2>1, <2>2, <2>5, <4>1, CalendarsGrow
    <3>4. QED
      BY <3>1, <3>2, <3>3, NextCases, ClientEffect, HandlerEffect, OnlyQueueEffect DEF vars
  <2>6. QED
    BY <2>4, <2>5 DEF SlotsAreNamed
<1>4. QED
  BY <1>2, <1>3, NamesStay

\* A job that no step of its own moves is as it was.
LEMMA OthersStay ==
  ASSUME CalendarInv, [Next]_vars, NEW j \in Jobs, InQueue(j),
         ~Handles(j), ~OnlyQueue(j)
  PROVE  UNCHANGED <<at[j], push[j], job[j], tries[j]>> /\ Full(j)' = Full(j)
<1>1. job[j] # "none" /\ j \in Clients
  BY Kinds DEF InQueue
<1>2. ASSUME NEW k \in Clients, ClientStep(k) PROVE UNCHANGED <<at[j], push[j], job[j], tries[j]>>
  BY <1>1, <1>2, ClientEffect
<1>3. ASSUME NEW i \in Jobs, Handles(i) PROVE UNCHANGED <<at[j], push[j], job[j], tries[j]>>
  BY <1>3, HandlerEffect DEF queue
<1>4. ASSUME NEW i \in Jobs, OnlyQueue(i) PROVE UNCHANGED <<at[j], push[j], job[j], tries[j]>>
  BY <1>4, OnlyQueueEffect
<1>5. CASE UNCHANGED vars
  BY <1>5 DEF vars, queue, Full
<1>6. QED
  BY <1>1, <1>2, <1>3, <1>4, <1>5, NextCases, FullStays

\* A job that is not in the queue, or got there just now, has no handler that holds
\* anything.
LEMMA NoneHeld ==
  ASSUME CalendarInv, [Next]_vars, NEW j \in Jobs, ~InQueue(j) \/ OnlyQueue(j)
  PROVE  push'[j] = NoPush /\ at'[j] \in {"idle", "load"}
<1>1. CASE OnlyQueue(j)
  BY <1>1, OnlyQueueEffect
<1>2. CASE ~InQueue(j) /\ ~OnlyQueue(j)
  <2>1. at[j] = "idle" /\ push[j] = NoPush
    BY <1>2 DEF CalendarInv, JobFits, InQueue
  <2>2. ASSUME NEW i \in Jobs, Handles(i) \/ OnlyQueue(i) PROVE i # j \/ OnlyQueue(j)
    BY <1>2, <2>2, HandlerEffect DEF InQueue
  <2>3. UNCHANGED <<at[j], push[j]>>
    BY <1>2, <2>2, NextCases, ClientEffect, HandlerEffect, OnlyQueueEffect DEF vars
  <2>4. QED
    BY <2>1, <2>3
<1>3. QED
  BY <1>1, <1>2

\* What a push copied from named slots is named, and what it leaves is.
LEMMA RowsAreNamedKept ==
  ASSUME CalendarInv, Patient, [Next]_vars, NEW j \in Jobs
  PROVE  RowsAreNamed(j)'
<1>1. TypeOK /\ JobFits(j) /\ RowsAreNamed(j) /\ SlotsAreNamed
  BY DEF CalendarInv
<1>2. 0 \notin calendars' /\ 0 \in 0..created /\ created \in Nat
  BY <1>1, Numbers, CalendarsGrow
<1>3. ASSUME push'[j] = NoPush, at'[j] \notin {"sync", "mark", "upsert"} PROVE RowsAreNamed(j)'
  BY <1>2, <1>3, NoPushFields DEF RowsAreNamed
<1>4. CASE ~InQueue(j) \/ OnlyQueue(j)
  BY <1>3, <1>4, NoneHeld
<1>5. ASSUME InQueue(j) PROVE \A S \in SUBSET Tasks : Named(S) => Named(S)'
  <2>1. \A t \in Tasks \ Rest : slot[t].ref # NoRef => slot'[t].ref # NoRef
    BY <1>5, NamesStay, RemovalAlone
  <2>2. QED
    BY <2>1 DEF Named
<1>6. CASE InQueue(j) /\ ~Handles(j) /\ ~OnlyQueue(j)
  <2>1. UNCHANGED <<at[j], push[j]>> /\ Full(j)' = Full(j)
    BY <1>6, OthersStay
  <2>2. push[j].calendar \in calendars' => push[j].calendar \in calendars
    BY CalendarsGrow
  <2>3. \A S \in SUBSET Tasks : Named(S) => Named(S)'
    BY <1>5, <1>6
  <2>4. \A t \in Tasks : IsFirst(j, t)' = IsFirst(j, t)
    BY <2>1 DEF IsFirst
  <2>5. /\ (~Full(j)' \/ at'[j] = "fail") /\ push'[j].calendar \in calendars' =>
             Named(Tasks) /\ \A t \in DOMAIN push'[j].rows \ Rest : push'[j].rows[t].ref # NoRef
        /\ Full(j)' /\ at'[j] \in {"sync", "mark", "upsert"} => Named(Tasks \ DOMAIN push'[j].rows)
        /\ at'[j] = "mark" => \A t \in Tasks \ Rest : IsFirst(j, t) => push'[j].ref # NoRef
    BY <1>1, <2>1, <2>2 DEF RowsAreNamed
  <2>6. /\ Named(Tasks) => Named(Tasks)'
        /\ Named(Tasks \ DOMAIN push'[j].rows) => Named(Tasks \ DOMAIN push[j].rows)'
    BY <2>1, <2>3
  <2>7. QED
    BY <2>1, <2>4, <2>5, <2>6 DEF RowsAreNamed
<1>7. CASE Handles(j) /\ InQueue(j)
  <2>1. /\ Full(j)' = Full(j) /\ \A S \in SUBSET Tasks : Named(S) => Named(S)'
    BY <1>5, <1>7, FullStays DEF InQueue
  <2>2. Named(Tasks) => Named(Tasks)'
    BY <2>1
  <2>3. \A c \in 0..created : c \in calendars' => c \in calendars
    BY CalendarsGrow
  <2>4. export.calendar \in 0..created /\ push[j].calendar \in 0..created
    BY CalendarsGrow
  <2>5. CASE CreateCalendar(j) /\ at[j] = "create" /\ at'[j] = "list" /\ DOMAIN push'[j].rows = {}
    BY <1>1, <2>1, <2>5 DEF RowsAreNamed, JobFits
  <2>6. CASE push'[j].calendar = export.calendar /\ DOMAIN push'[j].rows = {}
             /\ at'[j] \in {"list", "fail", "failing"}
    <3>1. push'[j].calendar \in calendars' => Named(Tasks)'
      BY <1>1, <2>2, <2>3, <2>4, <2>6 DEF SlotsAreNamed
    <3>2. QED
      BY <2>6, <3>1 DEF RowsAreNamed
  <2>7. CASE /\ at[j] = "list" /\ push'[j].calendar = push[j].calendar /\ at'[j] = "now"
             /\ DOMAIN push'[j].rows \subseteq Tasks /\ UNCHANGED <<slot, calendars>>
             /\ \A t \in DOMAIN push'[j].rows : push'[j].rows[t].ref = slot[t].ref
    <3>1. ~Full(j) /\ push[j].calendar \in calendars => Named(Tasks)
      BY <1>1 DEF RowsAreNamed
    <3>2. QED
      BY <2>1, <2>2, <2>7, <3>1 DEF RowsAreNamed, Named
  <2>8. CASE /\ at[j] = "now" /\ push'[j].calendar = push[j].calendar /\ push'[j].rows = push[j].rows
             /\ at'[j] = IF DOMAIN push[j].rows = {} THEN "upsert" ELSE "sync"
    <3>1. Full(j) => DOMAIN push[j].rows = Tasks
      BY <1>1, <2>8 DEF JobFits
    <3>2. (~Full(j) /\ push[j].calendar \in calendars =>
              Named(Tasks) /\ \A t \in DOMAIN push[j].rows \ Rest : push[j].rows[t].ref # NoRef)
      BY <1>1 DEF RowsAreNamed
    <3>3. Full(j) => \A t \in (Tasks \ DOMAIN push'[j].rows) \ Rest : slot'[t].ref # NoRef
      BY <2>8, <3>1
    <3>4. at'[j] # "fail" /\ at'[j] # "mark"
      BY <2>8
    <3>5. ~Full(j) /\ push'[j].calendar \in calendars' =>
             Named(Tasks)' /\ \A t \in DOMAIN push'[j].rows \ Rest : push'[j].rows[t].ref # NoRef
      BY <2>2, <2>3, <2>4, <2>8, <3>2
    <3>6. QED
      BY <2>1, <3>3, <3>4, <3>5 DEF RowsAreNamed, Named
  <2>9. CASE SyncEvent(j)
    <3>1. /\ at'[j] = "mark" /\ push'[j].rows = push[j].rows /\ push'[j].calendar = push[j].calendar
          /\ UNCHANGED <<slot, calendars>> /\ at[j] = "sync"
      BY <2>9, SyncEffect DEF plan
    <3>2. PICK t \in Tasks : IsFirst(j, t) /\ (t \in Rest \/ push'[j].ref # NoRef)
      BY <2>9, SyncEffect
    <3>3. \A u \in Tasks : IsFirst(j, u)' => u = t
      BY <1>1, <3>1, <3>2, Numbers DEF IsFirst, TypeOK, Tasks
    <3>4. QED
      BY <1>1, <2>1, <3>1, <3>2, <3>3 DEF RowsAreNamed, Named
  <2>10. CASE mark_synced(j)
    <3>1. /\ UNCHANGED calendars /\ at[j] = "mark" /\ push'[j].calendar = push[j].calendar
          /\ at'[j] \in {"upsert", "sync"}
      BY <2>10, MarkEffect DEF google
    <3>2. PICK t \in Tasks : /\ IsFirst(j, t) /\ DOMAIN push'[j].rows = DOMAIN push[j].rows \ {t}
                             /\ \A u \in DOMAIN push'[j].rows : push'[j].rows[u] = push[j].rows[u]
                             /\ slot'[t].ref = push[j].ref
                             /\ \A u \in Tasks : u # t => slot'[u] = slot[u]
      BY <2>10, MarkEffect
    <3>3. Full(j) => \A u \in (Tasks \ DOMAIN push'[j].rows) \ Rest : slot'[u].ref # NoRef
      <4>1. Full(j) => Named(Tasks \ DOMAIN push[j].rows)
        BY <1>1, <3>1 DEF RowsAreNamed
      <4>2. t \notin Rest => push[j].ref # NoRef
        BY <1>1, <3>1, <3>2 DEF RowsAreNamed
      <4>3. QED
        BY <3>2, <4>1, <4>2 DEF Named
    <3>4. ~Full(j) /\ push'[j].calendar \in calendars' =>
             Named(Tasks)' /\ \A u \in DOMAIN push'[j].rows \ Rest : push'[j].rows[u].ref # NoRef
      BY <1>1, <2>2, <3>1, <3>2 DEF RowsAreNamed
    <3>5. QED
      BY <2>1, <3>1, <3>3, <3>4 DEF RowsAreNamed, Named
  <2>11. CASE push'[j] = NoPush /\ at'[j] \notin {"sync", "mark", "upsert"}
    BY <1>3, <2>11
  <2>12. QED
    BY <1>7, <2>5, <2>6, <2>7, <2>8, <2>9, <2>10, <2>11, HandlerCases DEF plan, google
<1>8. QED
  BY <1>4, <1>6, <1>7

-----------------------------------------------------------------------------
\* Of a patient user's pushes only that of a new calendar adds events, the one of
\* its first row.
LEMMA EventIsNew ==
  ASSUME CalendarInv, Patient, NEW j \in Jobs, SyncEvent(j)
  PROVE  \E t \in Tasks :
            /\ IsFirst(j, t)
            /\ \/ DOMAIN events' \subseteq DOMAIN events
               \/ /\ Full(j) /\ t \notin Rest
                  /\ \E e : /\ e[1] = push[j].calendar /\ e[2] = t
                            /\ DOMAIN events' = DOMAIN events \cup {e}
<1>1. PICK t \in Tasks :
         LET e == <<push'[j].ref[1], t, push'[j].ref[2]>> IN
         /\ IsFirst(j, t)
         /\ \/ DOMAIN events' \subseteq DOMAIN events
            \/ /\ t \notin Rest /\ KnownRef(j, t) = NoRef
               /\ push[j].calendar \in calendars
               /\ push'[j].ref[1] = push[j].calendar
               /\ DOMAIN events' = DOMAIN events \cup {e}
  <2>1. PICK t \in Tasks : LET e == <<push'[j].ref[1], t, push'[j].ref[2]>> IN
           /\ IsFirst(j, t)
           /\ \/ DOMAIN events' = DOMAIN events \ {KnownEvent(j, t)}
              \/ /\ t \notin Rest /\ KnownRef(j, t) = NoRef
                 /\ push[j].calendar \in calendars
                 /\ push'[j].ref[1] = push[j].calendar
                 /\ DOMAIN events' = DOMAIN events \cup {e}
              \/ DOMAIN events' = DOMAIN events
    BY SyncEffect
  <2>2. QED
    BY <2>1
<1>2. CASE DOMAIN events' \subseteq DOMAIN events
  BY <1>1, <1>2
<1>3. CASE /\ t \notin Rest /\ KnownRef(j, t) = NoRef
           /\ push[j].calendar \in calendars /\ push'[j].ref[1] = push[j].calendar
           /\ DOMAIN events' = DOMAIN events \cup {<<push'[j].ref[1], t, push'[j].ref[2]>>}
  <2>1. Full(j)
    <3>1. ~Full(j) => push[j].rows[t].ref # NoRef
      BY <1>1, <1>3 DEF CalendarInv, RowsAreNamed, IsFirst
    <3>2. QED
      BY <1>3, <3>1 DEF KnownRef
  <2>2. QED
    BY <1>1, <1>3, <2>1
<1>4. QED
  BY <1>1, <1>2, <1>3

\* The other steps add none.
LEMMA EventsStay ==
  ASSUME CalendarInv, [Next]_vars, \A j \in Jobs : ~SyncEvent(j)
  PROVE  DOMAIN events' \subseteq DOMAIN events
<1>1. ASSUME NEW k \in Clients, ClientStep(k) PROVE DOMAIN events' \subseteq DOMAIN events
  <2>1. CASE SetStatuses(k)
    BY <2>1, StatusStep DEF google
  <2>2. CASE ~SetStatuses(k)
    BY <1>1, <2>2, QuietClients
  <2>3. QED
    BY <2>1, <2>2
<1>2. ASSUME NEW j \in Jobs, Handles(j) PROVE UNCHANGED events
  BY <1>2, HandlerCases, MarkEffect DEF google
<1>3. QED
  BY <1>1, <1>2, NextCases, OnlyQueueEffect DEF vars, google

\* The events of a new calendar are those its push has written.
LEMMA FreshCalendarKept ==
  ASSUME CalendarInv, Patient, [Next]_vars, NEW j \in Jobs
  PROVE  FreshCalendar(j)'
<1>1. /\ TypeOK /\ TypeOK' /\ JobFits(j) /\ FreshCalendar(j) /\ Turns
      /\ created \in Nat /\ 0 \notin calendars'
  <2>1. 0 \in 0..created /\ 0 \notin calendars
    BY Numbers DEF CalendarInv
  <2>2. QED
    BY <2>1, TypesKept, Numbers, CalendarsGrow DEF CalendarInv
<1>2. \A e \in DOMAIN events : e[1] \in calendars /\ e[1] # created + 1
  BY <1>1 DEF TypeOK
<1>3. \A e \in DOMAIN events' : e[1] # 0
  BY <1>1 DEF TypeOK
<1>4. CASE push'[j] = NoPush
  BY <1>3, <1>4, NoPushFields DEF FreshCalendar
<1>5. CASE ~InQueue(j) \/ OnlyQueue(j)
  BY <1>4, <1>5, NoneHeld
<1>6. CASE InQueue(j) /\ ~Handles(j) /\ ~OnlyQueue(j)
  <2>1. UNCHANGED <<at[j], push[j]>> /\ Full(j)' = Full(j)
    BY <1>6, OthersStay
  <2>2. Full(j) => DOMAIN events' \subseteq DOMAIN events
    <3>1. ASSUME NEW i \in Jobs, SyncEvent(i), Full(j) PROVE DOMAIN events' \subseteq DOMAIN events
      <4>1. i # j /\ InQueue(i)
        BY <1>6, <3>1, HandlerEffect DEF Handles, PushStep, InQueue
      <4>2. ~Full(i)
        BY <1>1, <1>6, <3>1, <4>1 DEF Turns, Full
      <4>3. QED
        BY <3>1, <4>2, EventIsNew
    <3>2. QED
      BY <3>1, EventsStay
  <2>3. \A t : IsFirst(j, t)' = IsFirst(j, t)
    BY <2>1 DEF IsFirst
  <2>4. QED
    BY <1>1, <2>1, <2>2, <2>3 DEF FreshCalendar
<1>7. CASE Handles(j)
  <2>1. Full(j)' = Full(j)
    BY <1>7, FullStays, HandlerEffect
  <2>2. CASE SyncEvent(j)
    <3>1. /\ at'[j] = "mark" /\ push'[j].rows = push[j].rows /\ push'[j].calendar = push[j].calendar
          /\ at[j] = "sync"
      BY <2>2, SyncEffect
    <3>2. PICK t \in Tasks :
            /\ IsFirst(j, t)
            /\ \/ DOMAIN events' \subseteq DOMAIN events
               \/ \E e : /\ e[1] = push[j].calendar /\ e[2] = t
                         /\ DOMAIN events' = DOMAIN events \cup {e}
      BY <2>2, EventIsNew
    <3>3. IsFirst(j, t)'
      BY <3>1, <3>2 DEF IsFirst
    <3>4. Full(j) => \A e \in DOMAIN events : e[1] = push[j].calendar => e[2] \notin DOMAIN push[j].rows
      BY <1>1, <3>1 DEF FreshCalendar
    <3>5. \A e \in DOMAIN events' : e \in DOMAIN events \/ e[2] = t
      BY <3>2
    <3>6. QED
      BY <2>1, <3>1, <3>3, <3>4, <3>5 DEF FreshCalendar
  <2>3. CASE mark_synced(j)
    <3>1. /\ at[j] = "mark" /\ push'[j].calendar = push[j].calendar /\ UNCHANGED events
          /\ at'[j] \in {"sync", "upsert"}
      BY <2>3, MarkEffect DEF google
    <3>2. PICK t \in Tasks : IsFirst(j, t) /\ DOMAIN push'[j].rows = DOMAIN push[j].rows \ {t}
      BY <2>3, MarkEffect
    <3>3. \A u : IsFirst(j, u) => u = t
      BY <1>1, <3>2, Numbers DEF IsFirst, TypeOK, Tasks
    <3>4. Full(j) => \A e \in DOMAIN events : e[1] = push[j].calendar =>
             e[2] \notin DOMAIN push[j].rows \/ IsFirst(j, e[2])
      BY <1>1, <3>1 DEF FreshCalendar
    <3>5. QED
      BY <2>1, <3>1, <3>2, <3>3, <3>4 DEF FreshCalendar
  <2>4. CASE push'[j].calendar = created + 1 /\ UNCHANGED events
    BY <1>2, <2>4 DEF FreshCalendar
  <2>5. CASE at'[j] \in {"fail", "upsert"}
    BY <2>5 DEF FreshCalendar
  <2>6. CASE ~Full(j)
    BY <2>1, <2>6 DEF FreshCalendar
  <2>7. CASE /\ at[j] = "list" /\ push'[j].calendar = push[j].calendar /\ UNCHANGED events
    BY <1>1, <2>1, <2>7 DEF FreshCalendar
  <2>8. CASE /\ at[j] = "now" /\ push'[j].calendar = push[j].calendar /\ push'[j].rows = push[j].rows
             /\ UNCHANGED events /\ at'[j] \in {"upsert", "sync"}
    BY <1>1, <2>1, <2>8 DEF FreshCalendar
  <2>9. at[j] = "record" => ~Full(j)
    BY <1>1 DEF JobFits
  <2>10. QED
    BY <1>4, <1>7, <2>2, <2>3, <2>4, <2>5, <2>6, <2>7, <2>8, <2>9, HandlerCases DEF plan, google
<1>8. QED
  BY <1>5, <1>6, <1>7

\* No task has two events on one calendar, and a rest day none.
LEMMA OneEventEachKept ==
  ASSUME CalendarInv, Patient, [Next]_vars
  PROVE  OneEventEach'
<1>1. TypeOK /\ OneEventEach
  BY DEF CalendarInv
<1>2. ASSUME DOMAIN events' \subseteq DOMAIN events PROVE OneEventEach'
  BY <1>1, <1>2 DEF OneEventEach, should_export
<1>3. ASSUME NEW j \in Jobs, SyncEvent(j) PROVE OneEventEach'
  <2>1. PICK t \in Tasks :
            /\ IsFirst(j, t)
            /\ \/ DOMAIN events' \subseteq DOMAIN events
               \/ /\ Full(j) /\ t \notin Rest
                  /\ \E e : /\ e[1] = push[j].calendar /\ e[2] = t
                            /\ DOMAIN events' = DOMAIN events \cup {e}
    BY <1>3, EventIsNew
  <2>2. CASE Full(j) /\ t \notin Rest /\ ~(DOMAIN events' \subseteq DOMAIN events)
    <3>1. PICK e : e[1] = push[j].calendar /\ e[2] = t /\ DOMAIN events' = DOMAIN events \cup {e}
      BY <2>1, <2>2
    <3>2. at[j] = "sync"
      BY <1>3 DEF SyncEvent
    <3>3. \A d \in DOMAIN events : d[1] = push[j].calendar => d[2] # t
      BY <2>1, <2>2, <3>2 DEF CalendarInv, FreshCalendar, IsFirst
    <3>4. QED
      BY <1>1, <2>2, <3>1, <3>3 DEF OneEventEach, should_export
  <2>3. QED
    BY <1>2, <2>1, <2>2
<1>4. QED
  BY <1>2, <1>3, EventsStay

-----------------------------------------------------------------------------
\* An unbroken history was unbroken before, unless a removal has just ended.
LEMMA UnbrokenBefore ==
  ASSUME CalendarInv, Patient, [Next]_vars, Unbroken'
  PROVE  \/ Unbroken
         \/ /\ export' = NoExport /\ \A r \in Requests : ~Under(r)'
            /\ \A j \in Jobs : ~InQueue(j)' /\ at'[j] = "idle" /\ push'[j] = NoPush
<1>1. TypeOK /\ \A j \in Jobs : JobFits(j) /\ tries[j] \in Nat
  BY QueueConstants DEF CalendarInv, TypeOK, QueueTypeOK
<1>2. ASSUME NEW j \in Jobs, Full(j) PROVE tries[j] <= 1
  <2>1. CASE job[j] = "none"
    BY <1>1, <2>1 DEF JobFits
  <2>2. CASE job[j] # "none"
    <3>1. tries'[j] <= 1
      BY <1>2, <2>2, FullStays DEF Unbroken
    <3>2. tries'[j] = tries[j] \/ tries'[j] = tries[j] + 1
      BY NextCases, ClientEffect, HandlerEffect, OnlyQueueEffect DEF vars, queue
    <3>3. QED
      BY <1>1, <3>1, <3>2
  <2>3. QED
    BY <2>1, <2>2
<1>3. CASE \A k \in Unexports : client[k].at \in {"ready", "over"}
  BY <1>2, <1>3 DEF Unbroken
<1>4. ASSUME NEW u \in Unexports, client[u].at \notin {"ready", "over"}
      PROVE  /\ export' = NoExport /\ \A r \in Requests : ~Under(r)'
             /\ \A j \in Jobs : ~InQueue(j)' /\ at'[j] = "idle" /\ push'[j] = NoPush
  <2>1. u \in Clients /\ u \notin Requests /\ u \notin Changes
    BY Kinds
  <2>2. client'[u] # client[u] /\ client'[u].at \in {"ready", "over"}
    BY <1>4 DEF Unbroken
  <2>3. ClientStep(u)
    BY <2>1, <2>2, NextCases, ClientEffect, HandlerEffect, OnlyQueueEffect DEF vars
  <2>4. export' = NoExport /\ UNCHANGED queue /\ Under(u)
    BY <1>4, <2>1, <2>2, <2>3, ClientCases, ClientEffect DEF Under
  <2>5. /\ \A j \in Jobs : ~InQueue(j) /\ at[j] = "idle" /\ push[j] = NoPush
        /\ \A k \in Clients : Under(k) => k = u
    BY <2>4, RemovalAlone
  <2>6. UNCHANGED <<at, push>> /\ \A m \in Clients : m # u => client'[m] = client[m]
    BY <2>1, <2>3, ClientEffect
  <2>7. \A r \in Requests : ~Under(r)'
    BY <2>1, <2>5, <2>6, Kinds DEF Under
  <2>8. QED
    BY <2>4, <2>5, <2>6, <2>7 DEF queue, InQueue
<1>5. QED
  BY <1>3, <1>4

\* In an unbroken history a request writes back the calendar that is recorded, and
\* nobody takes a calendar or an event to be exported away.
LEMMA UnbrokenClients ==
  ASSUME CalendarInv, Patient, Unbroken, Unbroken', NEW k \in Clients, ClientStep(k)
  PROVE  /\ export'.calendar = export.calendar
         /\ UNCHANGED <<calendars, events>> /\ \A t \in Tasks : slot'[t].ref = slot[t].ref
<1>1. k \in Unexports => client[k].at \in {"ready", "over"} /\ client'[k].at \in {"ready", "over"}
  BY DEF Unbroken
<1>2. ~(k \in Unexports)
  BY <1>1, ClientCases, Kinds DEF Under
<1>3. client[k].at = "upsert" /\ k \in Requests => client[k].calendar = export.calendar
  BY DEF CalendarInv, AsRecorded, Under
<1>4. \/ UNCHANGED export
      \/ k \in Requests /\ client[k].at = "upsert"
         /\ export' = [status |-> "queued", calendar |-> client[k].calendar]
  BY <1>2, ClientCases DEF plan
<1>5. export'.calendar = export.calendar
  <2>1. CASE UNCHANGED export
    BY <2>1
  <2>2. CASE export' = [status |-> "queued", calendar |-> client[k].calendar]
    BY <1>3, <1>4, <2>2
  <2>3. QED
    BY <1>4, <2>1, <2>2
<1>6. UNCHANGED <<calendars, events>>
  BY <1>2, ClientCases DEF google
<1>7. \A t \in Tasks : slot'[t].ref = slot[t].ref
  BY <1>2, ClientCases DEF plan
<1>8. QED
  BY <1>5, <1>6, <1>7

LEMMA UnbrokenHandlers ==
  ASSUME CalendarInv, Patient, Unbroken, NEW j \in Jobs, Handles(j)
  PROVE  /\ \/ export'.calendar = export.calendar
            \/ Full(j) /\ RecordSynced(j) /\ export'.calendar = push[j].calendar
         /\ calendars \subseteq calendars'
         /\ \A ref, t : t \notin Rest /\ IsThere(ref, t) => IsThere(ref, t)'
<1>1. JobFits(j) /\ WritesWhole(j)
  BY DEF CalendarInv
<1>2. CASE SyncEvent(j)
  <2>1. UNCHANGED <<export, calendars>>
    BY <1>2, SyncEffect DEF plan
  <2>2. PICK t \in Tasks : \/ t \in Rest /\ DOMAIN events' = DOMAIN events \ {KnownEvent(j, t)}
                           \/ DOMAIN events \subseteq DOMAIN events'
    <3>1. PICK t \in Tasks : LET e == <<push'[j].ref[1], t, push'[j].ref[2]>> IN
             \/ t \in Rest /\ DOMAIN events' = DOMAIN events \ {KnownEvent(j, t)}
             \/ DOMAIN events' = DOMAIN events \cup {e}
             \/ DOMAIN events' = DOMAIN events
      BY <1>2, SyncEffect
    <3>2. QED
      BY <3>1
  <2>3. \A ref, u : u \notin Rest /\ IsThere(ref, u) => IsThere(ref, u)'
    BY <2>2 DEF IsThere, KnownEvent
  <2>4. QED
    BY <2>1, <2>3
<1>3. CASE ~SyncEvent(j)
  <2>1. UNCHANGED events /\ calendars \subseteq calendars'
    BY <1>3, HandlerCases, MarkEffect DEF google
  <2>2. \/ UNCHANGED export
        \/ RecordSynced(j) /\ at[j] = "upsert" /\ export'.calendar = push[j].calendar
        \/ at[j] = "fail" /\ export'.calendar = push[j].calendar
    <3>1. \A s, c : [status |-> s, calendar |-> c].calendar = c
      OBVIOUS
    <3>2. \/ UNCHANGED export
          \/ /\ RecordSynced(j) /\ at[j] = "upsert"
             /\ export' = [status |-> "synced", calendar |-> push[j].calendar]
          \/ /\ at[j] = "fail"
             /\ export' = [status |-> "failed", calendar |-> push[j].calendar]
      BY <1>3, HandlerCases, MarkEffect DEF plan
    <3>3. QED
      BY <3>1, <3>2
  <2>3. (~Full(j) /\ at[j] = "upsert") \/ at[j] = "fail" => push[j].calendar = export.calendar
    BY <1>1 DEF WritesWhole
  <2>4. QED
    BY <2>1, <2>2, <2>3 DEF IsThere
<1>4. QED
  BY <1>2, <1>3

\* A request acts on the recorded calendar; without one there is no other push.
LEMMA AsRecordedKept ==
  ASSUME CalendarInv, Patient, [Next]_vars, Unbroken', NEW r \in Requests
  PROVE  AsRecorded(r)'
<1> SUFFICES ASSUME Under(r)'
             PROVE  /\ client'[r].calendar = export'.calendar
                    /\ export'.calendar = 0 => ~Pushing'
  BY DEF AsRecorded
<1>1. Unbroken /\ r \in Clients /\ r \in Jobs /\ r \notin Unexports /\ r \notin Changes
  BY UnbrokenBefore, Kinds
<1>2. AsRecorded(r) /\ Turns /\ \A j \in Jobs : InQueue(j) => job[j] # "none"
  BY <1>1 DEF CalendarInv, InQueue
<1>3. CASE ~Under(r)
  <2>1. ClientStep(r) /\ client[r].at = "ready" /\ PatientCall(r) /\ UNCHANGED queue
    BY <1>1, <1>3, CallStarts
  <2>2. ~Pushing
    BY <2>1 DEF PatientCall
  <2>3. client'[r].calendar = export.calendar /\ UNCHANGED export
    BY <1>1, <1>3, <2>1, ClientCases DEF plan
  <2>4. ~Pushing'
    BY <2>1, <2>2 DEF Pushing, InQueue, queue
  <2>5. QED
    BY <2>3, <2>4
<1>4. CASE Under(r)
  <2>1. client[r].calendar = export.calendar /\ (export.calendar = 0 => ~Pushing)
    BY <1>2, <1>4 DEF AsRecorded
  <2>2. \A s \in Requests : ~InQueue(s) /\ (Under(s) => s = r)
    BY <1>2, <1>4 DEF Turns
  <2>3. export'.calendar = export.calendar
    <3>1. ASSUME NEW j \in Jobs, Handles(j) PROVE ~Full(j)
      BY <2>2, <3>1, HandlerEffect DEF InQueue, Full
    <3>2. UNCHANGED export => export'.calendar = export.calendar
      OBVIOUS
    <3>3. QED
      BY <1>1, <3>1, <3>2, NextCases, UnbrokenClients, UnbrokenHandlers, OnlyQueueEffect DEF vars, plan
  <2>4. client'[r].calendar = client[r].calendar
    <3>1. client[r].at # "ready" /\ client'[r].at \notin {"ready", "over", "gone"}
      BY <1>4 DEF Under
    <3>2. ClientStep(r) => client'[r].calendar = client[r].calendar
      BY <1>1, <3>1, ClientCases
    <3>3. QED
      BY <1>1, <3>2, NextCases, ClientEffect, HandlerEffect, OnlyQueueEffect DEF vars
  <2>5. ASSUME export.calendar = 0, NEW j \in Jobs, InQueue(j)' PROVE FALSE
    <3>1. ~InQueue(j)
      BY <2>1, <2>5 DEF Pushing
    <3>2. ClientStep(j) /\ client[j].at = "enqueue" /\ client'[j].at = "over" /\ j \notin Changes
      BY <2>5, <3>1, QueueStarts
    <3>3. j \in Requests /\ Under(j)
      BY <3>2 DEF Jobs, Under
    <3>4. j = r
      BY <2>2, <3>3
    <3>5. QED
      BY <3>2, <3>4 DEF Under
  <2>6. QED
    BY <2>1, <2>3, <2>4, <2>5 DEF Pushing
<1>5. QED
  BY <1>3, <1>4

\* The first delivery of the push of a new calendar finds and keeps the queue to itself.
LEMMA AloneKept ==
  ASSUME CalendarInv, Patient, [Next]_vars, Unbroken', NEW j \in Jobs
  PROVE  Alone(j)'
<1> DEFINE Begun == (job[j] = "queued" /\ tries[j] = 0) \/ at[j] \notin {"idle", "return", "raise"}
<1> SUFFICES ASSUME Full(j)', Begun'
             PROVE  export'.calendar = 0 /\ \A k \in Jobs : InQueue(k)' => k = j
  BY DEF Alone
<1>1. CASE ~Unbroken
  <2>1. export'.calendar = 0 /\ \A k \in Jobs : ~InQueue(k)'
    BY <1>1, UnbrokenBefore DEF NoExport
  <2>2. QED
    BY <2>1
<1>2. CASE Unbroken /\ ~InQueue(j)
  <2>1. JobFits(j) /\ JobFits(j)' /\ j \in Clients
    BY JobsFitKept, Kinds DEF CalendarInv
  <2>2. InQueue(j)'
    BY <2>1 DEF InQueue, JobFits
  <2>3. /\ ClientStep(j) /\ client[j].at = "enqueue" /\ client'[j].calendar = client[j].calendar
        /\ job'[j] = "queued"
    BY <1>2, <2>2, QueueStarts
  <2>4. j \in Requests /\ Under(j) /\ client[j].calendar = 0
    BY <2>3 DEF Full, Under
  <2>5. export.calendar = 0 /\ ~Pushing
    BY <1>2, <2>4 DEF CalendarInv, AsRecorded
  <2>6. \A k \in Jobs : k # j => job'[k] = job[k]
    BY <2>1, <2>3, ClientEffect
  <2>7. export'.calendar = export.calendar
    BY <1>2, <2>1, <2>3, UnbrokenClients
  <2>8. QED
    BY <2>5, <2>6, <2>7 DEF Pushing, InQueue
<1>3. CASE Unbroken /\ InQueue(j)
  <2>1. job[j] # "none" /\ j \in Requests /\ j \in Clients
    BY <1>3, Kinds DEF InQueue, Full
  <2>2. Full(j) /\ JobFits(j) /\ tries[j] \in Nat
    BY <2>1, FullStays, QueueConstants DEF CalendarInv, TypeOK, QueueTypeOK
  <2>3. Begun
    <3>1. CASE Handles(j)
      BY <3>1, HandlerEffect
    <3>2. CASE OnlyQueue(j)
      <4>1. job[j] = "queued" /\ job'[j] = "running" /\ tries'[j] = tries[j] + 1
        BY <2>2, <3>2, OnlyQueueEffect DEF JobFits
      <4>2. tries'[j] <= 1
        BY DEF Unbroken
      <4>3. QED
        BY <2>2, <4>1, <4>2
    <3>3. CASE ~Handles(j) /\ ~OnlyQueue(j)
      BY <1>3, <3>3, OthersStay
    <3>4. QED
      BY <3>1, <3>2, <3>3
  <2>4. export.calendar = 0 /\ \A k \in Jobs : InQueue(k) => k = j
    BY <1>3, <2>2, <2>3 DEF CalendarInv, Alone
  <2>5. \A s \in Requests : ~Under(s)
    BY <1>3, <2>1 DEF CalendarInv, Turns
  <2>6. ASSUME NEW k \in Jobs, InQueue(k)' PROVE k = j
    <3>1. CASE InQueue(k)
      BY <2>4, <3>1
    <3>2. CASE ~InQueue(k)
      <4>1. client[k].at = "enqueue" /\ k \notin Changes
        BY <2>4, <2>6, <3>2, QueueStarts
      <4>2. QED
        BY <2>5, <4>1 DEF Jobs, Under
    <3>3. QED
      BY <3>1, <3>2
  <2>7. export'.calendar = 0
    <3>1. ASSUME NEW i \in Jobs, Handles(i) PROVE export'.calendar = export.calendar
      <4>1. i = j
        BY <2>4, <3>1, HandlerEffect DEF InQueue
      <4>2. RecordSynced(i) => at'[j] = "return" /\ job[j] = "running"
        BY <3>1, <4>1, HandlerEffect, GotoFrame DEF RecordSynced, CalendarInv
      <4>3. QED
        BY <1>3, <3>1, <4>2, UnbrokenHandlers, HandlerEffect DEF queue
    <3>2. UNCHANGED export => export'.calendar = export.calendar
      OBVIOUS
    <3>3. QED
      BY <1>3, <2>4, <3>1, <3>2, NextCases, UnbrokenClients, OnlyQueueEffect DEF vars, plan
  <2>8. QED
    BY <2>6, <2>7
<1>4. QED
  BY <1>1, <1>2, <1>3

\* What a push has written to the recorded calendar, or to the one it will record, is
\* there.
LEMMA WritesWholeKept ==
  ASSUME CalendarInv, Patient, RecordedCalendarIsWhole, [Next]_vars, Unbroken', NEW j \in Jobs
  PROVE  WritesWhole(j)'
<1>1. TypeOK /\ JobFits(j)
  BY DEF CalendarInv
<1>2. ASSUME push'[j] = NoPush, at'[j] \notin {"list", "now", "sync", "mark", "upsert", "fail"}
      PROVE  WritesWhole(j)'
  BY <1>2, NoPushFields DEF WritesWhole
<1>3. CASE ~Unbroken
  BY <1>2, <1>3, UnbrokenBefore
<1>4. CASE ~InQueue(j) \/ OnlyQueue(j)
  BY <1>2, <1>4, NoneHeld
<1>5. CASE Unbroken /\ InQueue(j) /\ ~Handles(j) /\ ~OnlyQueue(j)
  <2>1. UNCHANGED <<at[j], push[j]>> /\ Full(j)' = Full(j)
    BY <1>5, OthersStay
  <2>2. \A t : IsFirst(j, t)' = IsFirst(j, t)
    BY <2>1 DEF IsFirst
  <2>3. WritesWhole(j) /\ Alone(j)
    BY <1>5 DEF CalendarInv
  <2>4. ASSUME export'.calendar = export.calendar, calendars \subseteq calendars',
               \A ref, t : t \notin Rest /\ IsThere(ref, t) => IsThere(ref, t)',
               Full(j) => \A t \in Tasks : slot'[t].ref = slot[t].ref
        PROVE  WritesWhole(j)'
    <3>1. /\ Full(j) /\ at[j] \in {"list", "now", "sync", "mark", "upsert"} =>
                push[j].calendar \in calendars'
          /\ (~Full(j) /\ at[j] \in {"list", "now", "sync", "mark", "upsert"}) \/ at[j] = "fail" =>
                push[j].calendar = export'.calendar
      BY <2>3, <2>4 DEF WritesWhole
    <3>2. Full(j) /\ at[j] \in {"sync", "mark", "upsert"} =>
             \A t \in (Tasks \ Rest) \ DOMAIN push[j].rows :
                slot'[t].ref[1] = push[j].calendar /\ <<slot'[t].ref[1], t, slot'[t].ref[2]>> \in DOMAIN events'
      BY <2>3, <2>4 DEF WritesWhole, IsThere
    <3>3. ~Full(j) => \A t \in DOMAIN push[j].rows \ Rest :
             push[j].rows[t].ref[1] = push[j].calendar
             /\ <<push[j].rows[t].ref[1], t, push[j].rows[t].ref[2]>> \in DOMAIN events'
      BY <2>3, <2>4 DEF WritesWhole, IsThere
    <3>4. at[j] = "mark" => \A t \in Tasks \ Rest :
             IsFirst(j, t) => push[j].ref[1] = push[j].calendar
                              /\ <<push[j].ref[1], t, push[j].ref[2]>> \in DOMAIN events'
      BY <2>3, <2>4 DEF WritesWhole, IsThere
    <3>5. QED
      BY <2>1, <2>2, <3>1, <3>2, <3>3, <3>4 DEF WritesWhole, IsThere
  <2>5. ASSUME NEW k \in Clients, ClientStep(k) PROVE WritesWhole(j)'
    <3>1. /\ export'.calendar = export.calendar
          /\ UNCHANGED <<calendars, events>> /\ \A t \in Tasks : slot'[t].ref = slot[t].ref
      BY <1>5, <2>5, UnbrokenClients
    <3>2. QED
      BY <2>4, <3>1 DEF IsThere
  <2>6. ASSUME NEW i \in Jobs, Handles(i) PROVE WritesWhole(j)'
    <3>1. i # j /\ InQueue(i)
      BY <1>5, <2>6, HandlerEffect DEF InQueue
    <3>2. at[j] \in {"list", "now", "sync", "mark", "upsert", "fail"} => ~Full(j)
      BY <2>3, <3>1 DEF Alone
    <3>3. CASE at[j] \notin {"list", "now", "sync", "mark", "upsert", "fail"}
      <4>1. push[j] = NoPush
        BY <1>1, <3>3 DEF JobFits
      <4>2. QED
        BY <1>2, <2>1, <3>3, <4>1
    <3>4. CASE ~Full(j)
      <4>1. RecordSynced(i) /\ Full(i) => FALSE
        BY <1>5, <3>1 DEF CalendarInv, Alone, RecordSynced
      <4>2. export'.calendar = export.calendar /\ calendars \subseteq calendars'
            /\ \A ref, t : t \notin Rest /\ IsThere(ref, t) => IsThere(ref, t)'
        BY <1>5, <2>6, <4>1, UnbrokenHandlers
      <4>3. QED
        BY <2>4, <3>4, <4>2
    <3>5. QED
      BY <3>2, <3>3, <3>4
  <2>7. ASSUME UNCHANGED <<plan, google>> PROVE WritesWhole(j)'
    BY <2>4, <2>7 DEF IsThere, plan, google
  <2>8. QED
    BY <2>5, <2>6, <2>7, NextCases, OnlyQueueEffect DEF vars
<1>6. CASE Unbroken /\ Handles(j)
  <2>1. Full(j)' = Full(j) /\ job[j] = "running"
    BY <1>6, FullStays, HandlerEffect
  <2>2. WritesWhole(j)
    BY <1>6 DEF CalendarInv
  <2>3. \A ref, t : t \notin Rest /\ IsThere(ref, t) => IsThere(ref, t)'
    BY <1>6, UnbrokenHandlers
  <2>4. CASE Full(j) /\ at'[j] = "list" /\ push'[j].calendar = created + 1
             /\ calendars' = calendars \cup {created + 1} /\ DOMAIN push'[j].rows = {}
    BY <2>1, <2>4 DEF WritesWhole
  <2>5. CASE push'[j].calendar = export.calendar /\ UNCHANGED export /\ DOMAIN push'[j].rows = {}
             /\ (at'[j] = "fail" \/ (~Full(j) /\ at'[j] \in {"list", "failing"}))
    BY <2>1, <2>5 DEF WritesWhole
  <2>6. CASE /\ at[j] = "list" /\ push'[j].calendar = push[j].calendar /\ at'[j] = "now"
             /\ DOMAIN push'[j].rows \subseteq Tasks /\ UNCHANGED <<export, calendars, events>>
             /\ \A t \in DOMAIN push'[j].rows : push'[j].rows[t].ref = slot[t].ref
    <3>1. /\ Full(j) => push[j].calendar \in calendars
          /\ ~Full(j) => push[j].calendar = export.calendar /\ push[j].calendar # 0
      BY <1>1, <2>2, <2>6 DEF WritesWhole, JobFits
    <3>2. ~Full(j) => \A t \in Tasks \ Rest :
             slot[t].ref[1] = push[j].calendar /\ <<slot[t].ref[1], t, slot[t].ref[2]>> \in DOMAIN events
      BY <1>6, <3>1 DEF RecordedCalendarIsWhole, Unbroken, Event
    <3>3. ~Full(j) => \A t \in DOMAIN push'[j].rows \ Rest :
             push'[j].rows[t].ref[1] = push'[j].calendar
             /\ <<push'[j].rows[t].ref[1], t, push'[j].rows[t].ref[2]>> \in DOMAIN events'
      BY <2>6, <3>2
    <3>4. QED
      BY <2>1, <2>6, <3>1, <3>3 DEF WritesWhole, IsThere
  <2>7. CASE /\ at[j] = "now" /\ push'[j].calendar = push[j].calendar /\ push'[j].rows = push[j].rows
             /\ at'[j] \in {"upsert", "sync"} /\ UNCHANGED <<export, calendars, events>>
    <3>1. Full(j) => DOMAIN push[j].rows = Tasks
      BY <1>1, <2>7 DEF JobFits
    <3>2. QED
      BY <2>1, <2>2, <2>7, <3>1 DEF WritesWhole, IsThere
  <2>8. CASE SyncEvent(j)
    <3>1. /\ at'[j] = "mark" /\ push'[j].rows = push[j].rows /\ push'[j].calendar = push[j].calendar
          /\ UNCHANGED <<slot, export, calendars>> /\ at[j] = "sync"
      BY <2>8, SyncEffect DEF plan
    <3>2. PICK t \in Tasks :
             /\ IsFirst(j, t)
             /\ t \notin Rest => /\ push'[j].ref[1] = push[j].calendar
                                /\ <<push'[j].ref[1], t, push'[j].ref[2]>> \in DOMAIN events'
      <4>1. PICK t \in Tasks : LET e == <<push'[j].ref[1], t, push'[j].ref[2]>> IN
               /\ IsFirst(j, t)
               /\ \/ t \in Rest
                  \/ push'[j].ref[1] = push[j].calendar /\ DOMAIN events' = DOMAIN events \cup {e}
                  \/ /\ push'[j].ref[1] = push[j].calendar
                     /\ e \in DOMAIN events /\ DOMAIN events' = DOMAIN events
        BY <2>8, SyncEffect
      <4>2. QED
        BY <4>1
    <3>3. \A u \in Tasks : IsFirst(j, u)' => u = t
      <4>1. IsFirst(j, t)
        BY <3>2
      <4>2. push'[j].rows = push[j].rows /\ MaxTasks \in Nat
        BY <1>1, <3>1, Numbers
      <4>3. QED
        BY <4>1, <4>2 DEF IsFirst, Tasks
    <3>4. /\ Full(j) => push[j].calendar \in calendars
          /\ ~Full(j) => push[j].calendar = export.calendar
      BY <2>2, <3>1 DEF WritesWhole
    <3>5. Full(j) => \A u \in (Tasks \ Rest) \ DOMAIN push[j].rows :
             slot[u].ref[1] = push[j].calendar /\ <<slot[u].ref[1], u, slot[u].ref[2]>> \in DOMAIN events'
      BY <2>2, <2>3, <3>1 DEF WritesWhole, IsThere
    <3>6. ~Full(j) => \A u \in DOMAIN push[j].rows \ Rest :
             push[j].rows[u].ref[1] = push[j].calendar
             /\ <<push[j].rows[u].ref[1], u, push[j].rows[u].ref[2]>> \in DOMAIN events'
      BY <2>2, <2>3 DEF WritesWhole, IsThere
    <3>7. QED
      BY <2>1, <3>1, <3>2, <3>3, <3>4, <3>5, <3>6 DEF WritesWhole, IsThere
  <2>9. CASE mark_synced(j)
    <3>1. /\ UNCHANGED <<export, calendars, events>> /\ at[j] = "mark"
          /\ push'[j].calendar = push[j].calendar /\ at'[j] \in {"upsert", "sync"}
      BY <2>9, MarkEffect DEF google
    <3>2. PICK t \in Tasks : /\ IsFirst(j, t) /\ DOMAIN push'[j].rows = DOMAIN push[j].rows \ {t}
                             /\ \A u \in DOMAIN push'[j].rows : push'[j].rows[u] = push[j].rows[u]
                             /\ slot'[t].ref = push[j].ref
                             /\ \A u \in Tasks : u # t => slot'[u] = slot[u]
      BY <2>9, MarkEffect
    <3>3. t \notin Rest => push[j].ref[1] = push[j].calendar
                           /\ <<push[j].ref[1], t, push[j].ref[2]>> \in DOMAIN events'
      BY <2>2, <3>1, <3>2 DEF WritesWhole, IsThere
    <3>4. Full(j) => \A u \in (Tasks \ Rest) \ DOMAIN push[j].rows :
             slot[u].ref[1] = push[j].calendar /\ <<slot[u].ref[1], u, slot[u].ref[2]>> \in DOMAIN events'
      BY <2>2, <3>1 DEF WritesWhole, IsThere
    <3>5. Full(j) => \A u \in (Tasks \ Rest) \ DOMAIN push'[j].rows :
             slot'[u].ref[1] = push[j].calendar /\ <<slot'[u].ref[1], u, slot'[u].ref[2]>> \in DOMAIN events'
      BY <3>2, <3>3, <3>4
    <3>6. ~Full(j) => \A u \in DOMAIN push'[j].rows \ Rest :
             push'[j].rows[u].ref[1] = push[j].calendar
             /\ <<push'[j].rows[u].ref[1], u, push'[j].rows[u].ref[2]>> \in DOMAIN events'
      BY <2>2, <3>1, <3>2 DEF WritesWhole, IsThere
    <3>7. /\ Full(j) => push[j].calendar \in calendars
          /\ ~Full(j) => push[j].calendar = export.calendar
      BY <2>2, <3>1 DEF WritesWhole
    <3>8. QED
      BY <2>1, <3>1, <3>5, <3>6, <3>7 DEF WritesWhole, IsThere
  <2>10. CASE push'[j] = NoPush /\ at'[j] \notin {"list", "now", "sync", "mark", "upsert", "fail"}
    BY <1>2, <2>10
  <2>11. /\ at[j] = "create" => Full(j)
         /\ at[j] = "record" => ~Full(j)
    BY <1>1 DEF JobFits
  <2>12. QED
    BY <1>6, <2>4, <2>5, <2>6, <2>7, <2>8, <2>9, <2>10, <2>11, HandlerCases DEF plan, google
<1>7. QED
  BY <1>3, <1>4, <1>5, <1>6

\* The recorded calendar stays whole.
LEMMA WholeKept ==
  ASSUME CalendarInv, Patient, RecordedCalendarIsWhole, [Next]_vars
  PROVE  RecordedCalendarIsWhole'
<1> SUFFICES ASSUME export'.calendar # 0, Unbroken'
             PROVE  /\ export'.calendar \in calendars'
                    /\ \A t \in Tasks \ Rest :
                          /\ slot'[t].ref[1] = export'.calendar
                          /\ <<slot'[t].ref[1], t, slot'[t].ref[2]>> \in DOMAIN events'
  BY DEF RecordedCalendarIsWhole, Unbroken, Event
<1>1. Unbroken
  BY UnbrokenBefore DEF NoExport
<1>2. TypeOK /\ \A j \in Jobs : JobFits(j) /\ WritesWhole(j) /\ Alone(j)
  BY <1>1 DEF CalendarInv
<1>3. export.calendar # 0 =>
         /\ export.calendar \in calendars
         /\ \A t \in Tasks \ Rest : slot[t].ref[1] = export.calendar /\ IsThere(slot[t].ref, t)
  BY <1>1 DEF RecordedCalendarIsWhole, Unbroken, Event, IsThere
<1>4. ASSUME export'.calendar = export.calendar, calendars \subseteq calendars',
             \A ref, t : t \notin Rest /\ IsThere(ref, t) => IsThere(ref, t)',
             NEW t \in Tasks \ Rest, slot'[t].ref = slot[t].ref
      PROVE  /\ export'.calendar \in calendars' /\ slot'[t].ref[1] = export'.calendar
             /\ <<slot'[t].ref[1], t, slot'[t].ref[2]>> \in DOMAIN events'
  <2>1. export.calendar \in calendars /\ slot[t].ref[1] = export.calendar
    BY <1>3, <1>4
  <2>2. <<slot[t].ref[1], t, slot[t].ref[2]>> \in DOMAIN events'
    BY <1>3, <1>4 DEF IsThere
  <2>3. QED
    BY <1>4, <2>1, <2>2
<1> DEFINE Goal == /\ export'.calendar \in calendars'
                   /\ \A t \in Tasks \ Rest :
                         /\ slot'[t].ref[1] = export'.calendar
                         /\ <<slot'[t].ref[1], t, slot'[t].ref[2]>> \in DOMAIN events'
<1>5. ASSUME export'.calendar = export.calendar, calendars \subseteq calendars',
             \A ref, t : t \notin Rest /\ IsThere(ref, t) => IsThere(ref, t)',
             \A t \in Tasks \ Rest : slot'[t].ref = slot[t].ref
      PROVE  Goal
  BY <1>3, <1>4, <1>5
<1>6. ASSUME NEW k \in Clients, ClientStep(k) PROVE Goal
  <2>1. /\ export'.calendar = export.calendar
        /\ UNCHANGED <<calendars, events>> /\ \A t \in Tasks : slot'[t].ref = slot[t].ref
    BY <1>1, <1>6, UnbrokenClients
  <2>2. QED
    BY <1>5, <2>1 DEF IsThere
<1>7. ASSUME NEW j \in Jobs, Handles(j) PROVE Goal
  <2>1. /\ calendars \subseteq calendars'
        /\ \A ref, t : t \notin Rest /\ IsThere(ref, t) => IsThere(ref, t)'
    BY <1>1, <1>7, UnbrokenHandlers
  <2>2. CASE Full(j) /\ RecordSynced(j)
    <3>1. /\ at[j] = "upsert" /\ UNCHANGED <<slot, calendars, events>>
          /\ export' = [status |-> "synced", calendar |-> push[j].calendar]
      BY <2>2 DEF RecordSynced, google
    <3>2. DOMAIN push[j].rows = {} /\ push[j].calendar \in calendars
          /\ \A t \in Tasks \ Rest : slot[t].ref[1] = push[j].calendar /\ IsThere(slot[t].ref, t)
      BY <1>2, <2>2, <3>1 DEF JobFits, WritesWhole
    <3>3. QED
      BY <3>1, <3>2 DEF IsThere
  <2>3. CASE mark_synced(j)
    <3>1. UNCHANGED <<export, google>> /\ at[j] = "mark"
      BY <2>3, MarkEffect
    <3>2. ~Full(j)
      BY <1>2, <3>1 DEF Alone
    <3>3. push[j].calendar = export.calendar
      BY <1>2, <3>1, <3>2 DEF WritesWhole
    <3>4. PICK v \in Tasks : /\ IsFirst(j, v) /\ slot'[v].ref = push[j].ref
                             /\ \A u \in Tasks : u # v => slot'[u] = slot[u]
      BY <2>3, MarkEffect
    <3>5. v \notin Rest => /\ push[j].ref[1] = export.calendar
                           /\ <<push[j].ref[1], v, push[j].ref[2]>> \in DOMAIN events
      BY <1>2, <3>1, <3>3, <3>4 DEF WritesWhole, IsThere
    <3>6. QED
      BY <1>3, <3>1, <3>4, <3>5 DEF IsThere, google
  <2>4. CASE ~mark_synced(j) /\ ~(Full(j) /\ RecordSynced(j))
    <3>1. export'.calendar = export.calendar
      BY <1>1, <1>7, <2>4, UnbrokenHandlers
    <3>2. UNCHANGED slot
      BY <1>7, <2>4, HandlerCases, SyncEffect DEF plan
    <3>3. QED
      BY <1>5, <2>1, <3>1, <3>2
  <2>5. QED
    BY <2>2, <2>3, <2>4
<1>8. ASSUME UNCHANGED <<plan, google>> PROVE Goal
  BY <1>5, <1>8 DEF plan, google, IsThere
<1>9. QED
  BY <1>6, <1>7, <1>8, NextCases, OnlyQueueEffect DEF vars

-----------------------------------------------------------------------------
\* What CalendarExport promises, as an invariant that each step keeps.
ExportInv ==
    /\ CalendarInv /\ LostOnlyWhenOvertaken
    /\ Patient => RecordedCalendarIsWhole

LEMMA ExportStarts == Init => ExportInv
<1> SUFFICES ASSUME Init PROVE ExportInv
  OBVIOUS
<1> USE ExportConstants
<1>1. /\ task = [t \in Tasks |-> [status |-> "pending", completed_at |-> 0]]
      /\ slot = [t \in Tasks |-> [ref |-> NoRef, synced_at |-> 0]]
      /\ export = NoExport /\ created = 0 /\ calendars = {} /\ events = [e \in {} |-> "pending"]
      /\ clock = 0 /\ QueueInit(Jobs) /\ client = [k \in Clients |-> Ready]
      /\ push = [j \in Jobs |-> NoPush] /\ overtaken = {}
  BY DEF Init
<1>2. NoRef \in Ref /\ 0 \in 0..clock /\ 0 \in 0..created /\ clock \in Nat /\ created \in Nat
  BY <1>1 DEF Ref, NoRef
<1>3. TypeOK
  <2>1. task \in [Tasks -> [status : Status, completed_at : 0..clock]]
    BY <1>1, <1>2 DEF Status
  <2>2. slot \in [Tasks -> [ref : Ref, synced_at : 0..clock]]
    BY <1>1, <1>2
  <2>3. export \in [status : ExportStatus, calendar : 0..created]
    BY <1>1, <1>2 DEF NoExport, ExportStatus
  <2>4. QueueTypeOK(Jobs, PushSteps)
    BY <1>1, QueueConstants DEF QueueInit, QueueTypeOK, JobStatus, PushSteps
  <2>5. Ready \in [at : ClientSteps, todo : SUBSET Tasks, calendar : 0..created]
    BY <1>2 DEF Ready, ClientSteps
  <2>6. client \in [Clients -> [at : ClientSteps, todo : SUBSET Tasks, calendar : 0..created]]
    BY <1>1, <2>5
  <2>7. \A j \in Jobs : push[j] = NoPush
    BY <1>1
  <2>8. QED
    BY <1>1, <1>2, <2>1, <2>2, <2>3, <2>4, <2>6, <2>7, NoPushFields DEF TypeOK
<1>4. /\ \A j \in Jobs : at[j] = "idle" /\ job[j] = "none" /\ tries[j] = 0 /\ push[j] = NoPush
      /\ \A k \in Clients : client[k] = Ready
      /\ Ready.at = "ready" /\ Ready.todo = {} /\ export.calendar = 0
      /\ DOMAIN events = {} /\ \A t \in Tasks : slot[t] = Blank
  BY <1>1 DEF QueueInit, Ready, NoExport, Blank
<1>5. \A j \in Jobs : JobFits(j) /\ HoldsCurrent(j)
  BY <1>4, NoPushFields DEF JobFits, HoldsCurrent
<1>6. (\A k \in Clients : ~Under(k)) /\ (\A j \in Jobs : ~InQueue(j)) /\ ~Pushing
  BY <1>4 DEF Under, InQueue, Pushing
<1>7. /\ Turns /\ Forgotten /\ SlotsAreNamed /\ OneEventEach
      /\ \A u \in Unexports : Removes(u)
      /\ \A r \in Requests : AsRecorded(r)
  BY <1>1, <1>4, <1>6, Kinds DEF Turns, Forgotten, SlotsAreNamed, OneEventEach, Removes, AsRecorded
<1>8. \A j \in Jobs : RowsAreNamed(j) /\ FreshCalendar(j) /\ Alone(j) /\ WritesWhole(j)
  BY <1>1, <1>4, <1>6, NoPushFields DEF RowsAreNamed, FreshCalendar, Alone, WritesWhole
<1>9. LostOnlyWhenOvertaken /\ RecordedCalendarIsWhole
  BY <1>4 DEF LostOnlyWhenOvertaken, Stale, RecordedCalendarIsWhole
<1>10. QED
  BY <1>3, <1>4, <1>5, <1>7, <1>8, <1>9 DEF ExportInv, CalendarInv

LEMMA ExportSteps == ExportInv /\ [Next]_vars => ExportInv'
<1> SUFFICES ASSUME ExportInv, [Next]_vars PROVE ExportInv'
  OBVIOUS
<1>1. CalendarInv /\ LostOnlyWhenOvertaken /\ (Patient => RecordedCalendarIsWhole)
  BY DEF ExportInv
<1>2. TypeOK'
  BY <1>1, TypesKept
<1>3. \A j \in Jobs : JobFits(j)' /\ HoldsCurrent(j)'
  BY <1>1, JobsFitKept, HoldsCurrentKept
<1>4. \A k \in Clients : client'[k].at = "ready" => client'[k].todo = {}
  BY <1>1, ReadyKept
<1>5. Patient => /\ Turns' /\ Forgotten' /\ SlotsAreNamed' /\ OneEventEach'
                 /\ \A u \in Unexports : Removes(u)'
                 /\ \A j \in Jobs : RowsAreNamed(j)' /\ FreshCalendar(j)'
  BY <1>1, TurnsKept, ForgottenKept, SlotsAreNamedKept, OneEventEachKept, RemovesKept,
     RowsAreNamedKept, FreshCalendarKept
<1>6. Patient /\ Unbroken' => /\ \A r \in Requests : AsRecorded(r)'
                              /\ \A j \in Jobs : Alone(j)' /\ WritesWhole(j)'
  BY <1>1, AsRecordedKept, AloneKept, WritesWholeKept
<1>7. CalendarInv'
  BY <1>2, <1>3, <1>4, <1>5, <1>6 DEF CalendarInv
<1>8. LostOnlyWhenOvertaken' /\ (Patient => RecordedCalendarIsWhole')
  BY <1>1, LostKept, WholeKept
<1>9. QED
  BY <1>7, <1>8 DEF ExportInv

LEMMA ExportHolds == Spec => []ExportInv
  BY ExportStarts, ExportSteps, PTL DEF Spec

-----------------------------------------------------------------------------
\* Every variable has its type; a push holds what its step says; and where the user
\* waits, calls take turns, no task has two events on one calendar, and a removal
\* leaves nothing behind.
THEOREM CalendarInvariant == Spec => []CalendarInv
<1>1. ExportInv => CalendarInv
  BY DEF ExportInv
<1>2. QED
  BY <1>1, ExportHolds, PTL

\* With or without a patient user: a change is lost only when it overtakes a push
\* that had read the old row.
THEOREM ChangesArrive == Spec => []LostOnlyWhenOvertaken
<1>1. ExportInv => LostOnlyWhenOvertaken
  BY DEF ExportInv
<1>2. QED
  BY <1>1, ExportHolds, PTL

\* A patient user's recorded calendar is there and holds the event of every slot.
THEOREM TheCalendarIsWhole ==
  ASSUME Patient
  PROVE  Spec => []RecordedCalendarIsWhole
<1>1. ExportInv => RecordedCalendarIsWhole
  BY DEF ExportInv
<1>2. QED
  BY <1>1, ExportHolds, PTL

\* Without a record nothing is left of a patient user's export.
THEOREM RemovalForgets ==
  ASSUME Patient
  PROVE  Spec => []RemovedIsForgotten
<1>1. ExportInv => RemovedIsForgotten
  BY DEF ExportInv, CalendarInv, Forgotten, Blank, RemovedIsForgotten
<1>2. QED
  BY <1>1, ExportHolds, PTL

\* A patient user's re-push updates, and never duplicates.
THEOREM NoDuplicates ==
  ASSUME Patient
  PROVE  Spec => []OneEventEach
<1>1. ExportInv => OneEventEach
  BY DEF ExportInv, CalendarInv
<1>2. QED
  BY <1>1, ExportHolds, PTL
=============================================================================
