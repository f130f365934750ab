---------------------------- MODULE IntakeProofs ----------------------------
(***************************************************************************)
(* Theorems about Intake, for any number of imports, calls, deliveries and *)
(* builds at a time, and every set of faults.                              *)
(***************************************************************************)
EXTENDS Intake, TLAPS

\* The queue's steps keep its types (packages/queue).
LEMMA QueueActionTypeOK ==
  ASSUME NEW J, NEW Steps, {"idle", "load"} \subseteq Steps,
         NEW j \in J, QueueTypeOK(J, Steps), QueueAction(j)
  PROVE  QueueTypeOK(J, Steps)'
<1> USE QueueConstants DEF QueueTypeOK, JobStatus, Goto, Ends
<1>1. CASE Enqueue(j)
  BY <1>1 DEF Enqueue
<1>2. CASE Delivered(j)
  BY <1>2 DEF Delivered
<1>3. CASE GivenUp(j)
  BY <1>3 DEF GivenUp
<1>4. CASE Returned(j) \/ Raised(j) \/ TimedOut(j) \/ Stopped(j)
  BY <1>4 DEF Returned, Raised, TimedOut, Stopped
<1>5. QED
  BY <1>1, <1>2, <1>3, <1>4 DEF QueueAction

\* They leave every other job alone.
LEMMA QueueActionFrame ==
  ASSUME NEW J, NEW Steps, NEW j \in J, QueueTypeOK(J, Steps), QueueAction(j),
         NEW k \in J, k # j
  PROVE  job'[k] = job[k] /\ tries'[k] = tries[k] /\ at'[k] = at[k]
  BY DEF QueueTypeOK, QueueAction, Enqueue, Delivered, GivenUp, Returned, Raised,
         TimedOut, Stopped, Goto, Ends

\* The steps of a handler, and those that only concern its job.
Handles(c) ==
    \/ ParseLoads(c) \/ ParseCreates(c) \/ ParseDone(c) \/ ParseEnqueues(c)
    \/ ParseFails(c) \/ ParseBreaks(c)
OnlyQueue(c) ==
    \/ Deliver(c) \/ TriesExhausted(c) \/ JobReturns(c) \/ JobRaises(c)
    \/ JobTimesOut(c) \/ WorkerCrashes(c)
BuilderStep(b) == BuildStep(b) \/ BuildCrashes(b)

\* What Next is made of, actor by actor.
LEMMA NextCases ==
  ASSUME [Next]_vars
  PROVE  \/ Presign \/ ClientDies
         \/ \E c \in Completes : CompleteStep(c)
         \/ \E c \in Completes : Handles(c)
         \/ \E c \in Completes : OnlyQueue(c)
         \/ \E p \in Pulls : PullStep(p)
         \/ \E a \in Answers : AnswerStep(a)
         \/ \E b \in Builders : BuilderStep(b)
         \/ UNCHANGED vars
  BY DEF Next, ParseStep, Handles, OnlyQueue, BuilderStep

\* The fields of the requests and of the builds.
LEMMA Fields ==
  ASSUME TypeOK
  PROVE  /\ \A c \in Completes :
               /\ complete[c].at \in CallSteps /\ complete[c].import \in 0..MaxImports
               /\ complete[c] = [at |-> complete[c].at, import |-> complete[c].import]
         /\ \A p \in Pulls :
               /\ pull[p].at \in CallSteps /\ pull[p].import \in 0..MaxImports
               /\ pull[p] = [at |-> pull[p].at, import |-> pull[p].import]
         /\ \A a \in Answers :
               /\ answering[a].at \in {"ready", "answer", "enqueue", "over", "gone"}
               /\ answering[a].text \in Areas \cup {None, "skipped"}
         /\ \A b \in Builders :
               /\ builder[b].at \in {"idle", "answers", "upsert"}
               /\ builder[b].read \in Reads /\ builder[b].stale \in BOOLEAN
<1>1. /\ \A c \in Completes : complete[c] \in Call
      /\ \A p \in Pulls : pull[p] \in Call
  BY DEF TypeOK
<1>2. \A a \in Answers : answering[a] \in Answering
  BY DEF TypeOK
<1>3. \A b \in Builders : builder[b] \in Building
  BY DEF TypeOK
<1>4. \A x \in Call : x.at \in CallSteps /\ x.import \in 0..MaxImports
                   /\ x = [at |-> x.at, import |-> x.import]
  BY DEF Call
<1>5. \A a \in Answers :
         /\ answering[a].at \in {"ready", "answer", "enqueue", "over", "gone"}
         /\ answering[a].text \in Areas \cup {None, "skipped"}
  BY <1>2 DEF Answering
<1>6. \A b \in Builders :
         /\ builder[b].at \in {"idle", "answers", "upsert"}
         /\ builder[b].read \in Reads /\ builder[b].stale \in BOOLEAN
  BY <1>3 DEF Building
<1>7. QED
  BY <1>1, <1>4, <1>5, <1>6

\* A record of the right parts is the state of a request or of a build.
LEMMA Shapes ==
  /\ \A step \in CallSteps, i \in 0..MaxImports : [at |-> step, import |-> i] \in Call
  /\ \A step \in {"ready", "answer", "enqueue", "over", "gone"},
        text \in Areas \cup {None, "skipped"} : [at |-> step, text |-> text] \in Answering
  /\ \A step \in {"idle", "answers", "upsert"}, seen \in Reads, stale \in BOOLEAN :
        [at |-> step, read |-> seen, stale |-> stale] \in Building
  /\ \A seen \in SUBSET Imports, said \in Areas \cup {None} :
        [imports |-> seen, answer |-> said] \in Reads
  /\ \A x \in Reads : x.imports \subseteq Imports
  BY DEF Call, Answering, Building, Reads

\* What the clients' steps leave alone.
LEMMA ClientsFrame ==
  ASSUME \/ Presign \/ ClientDies
         \/ \E c \in Completes : CompleteStep(c)
         \/ \E p \in Pulls : PullStep(p)
         \/ \E a \in Answers : AnswerStep(a)
  PROVE  /\ UNCHANGED <<read, tries, at>>
         /\ builds' = builds \/ builds' = builds + 1
  BY DEF Presign, ClientDies, CompleteStep, CompleteChecks, CompleteQueues, CompleteEnqueues,
         PullStep, PullCreates, PullWrites, PullParsed, PullEnqueues,
         AnswerStep, AnswerSetsQuota, AnswerSkips, AnswerRecorded, AnswerEnqueues,
         AskForBuild, Enqueue, queue

\* What the handler's steps do: they move along, and three of them leave something.
LEMMA HandlerEffect ==
  ASSUME TypeOK, NEW c \in Completes, CompleteFits(c), Handles(c)
  PROVE  /\ UNCHANGED <<imports, answers, read, queue, clients>> /\ job[c] = "running"
         /\ at' = [at EXCEPT ![c] = at'[c]] /\ at'[c] \in ParseSteps \ {"idle"}
         /\ \/ /\ UNCHANGED <<uploads, builds>>
               /\ at[c] \in {"load", "create", "parsed", "enqueue", "fail"}
               /\ at'[c] \in {"create", "fail", "raise"}
               /\ at[c] = "enqueue" => at'[c] = "raise"
            \/ /\ at[c] = "create" /\ ImportOf(c) \notin documents /\ UNCHANGED <<status, builds>>
               /\ documents' = documents \cup {ImportOf(c)} /\ at'[c] = "parsed"
            \/ /\ at[c] = "parsed" /\ UNCHANGED <<documents, builds>>
               /\ SetStatus(ImportOf(c), "parsed") /\ at'[c] = "enqueue"
            \/ /\ at[c] = "enqueue" /\ builds' = builds + 1 /\ UNCHANGED uploads
               /\ at'[c] = "return"
            \/ /\ at[c] = "fail" /\ UNCHANGED <<documents, builds>>
               /\ SetStatus(ImportOf(c), "failed") /\ at'[c] = "return"
<1> USE DEF TypeOK, QueueTypeOK, Goto, ParseSteps
<1>1. at' = [at EXCEPT ![c] = at'[c]] /\ at'[c] \in ParseSteps \ {"idle"}
  BY DEF Handles, ParseLoads, ParseCreates, ParseDone, ParseEnqueues, ParseFails, ParseBreaks
<1>2. job[c] = "running"
  BY DEF Handles, ParseLoads, ParseCreates, ParseDone, ParseEnqueues, ParseFails, ParseBreaks,
         CompleteFits
<1>3. CASE ParseLoads(c) \/ ParseBreaks(c)
  BY <1>1, <1>2, <1>3 DEF ParseLoads, ParseBreaks, uploads
<1>4. CASE ParseCreates(c)
  BY <1>1, <1>2, <1>4 DEF ParseCreates, uploads
<1>5. CASE ParseDone(c) \/ ParseEnqueues(c) \/ ParseFails(c)
  BY <1>1, <1>2, <1>5 DEF ParseDone, ParseEnqueues, ParseFails, AskForBuild, uploads
<1>6. QED
  BY <1>3, <1>4, <1>5 DEF Handles

\* What a job step does to the job it is about, and to the others.
LEMMA OnlyQueueEffect ==
  ASSUME TypeOK, NEW c \in Completes, CompleteFits(c), OnlyQueue(c)
  PROVE  /\ UNCHANGED <<uploads, answers, read, builds, clients>>
         /\ QueueAction(c)
         /\ \A d \in Completes :
               d # c => job'[d] = job[d] /\ tries'[d] = tries[d] /\ at'[d] = at[d]
         /\ \/ /\ job[c] = "queued" /\ job'[c] = "running"
               /\ tries'[c] = tries[c] + 1 /\ at'[c] = "load" /\ at[c] = "idle"
            \/ /\ job[c] = "queued" /\ job'[c] = "failed"
               /\ tries'[c] = tries[c] /\ at'[c] = at[c] /\ at[c] = "idle"
            \/ /\ job[c] = "running" /\ job'[c] \in {"failed", "queued"}
               /\ tries'[c] = tries[c] /\ at'[c] = "idle"
            \/ /\ job[c] = "running" /\ job'[c] = "done" /\ at[c] = "return"
               /\ tries'[c] = tries[c] /\ at'[c] = "idle"
<1>1. UNCHANGED <<uploads, answers, read, builds, clients>> /\ QueueAction(c)
  BY DEF OnlyQueue, QueueAction, Deliver, TriesExhausted, JobReturns, JobRaises, JobTimesOut,
         WorkerCrashes, Outside
<1>2. \A d \in Completes : d # c => job'[d] = job[d] /\ tries'[d] = tries[d] /\ at'[d] = at[d]
  BY <1>1, QueueActionFrame DEF TypeOK
<1>3. QED
  BY <1>1, <1>2 DEF TypeOK, CompleteFits, QueueTypeOK, OnlyQueue, Deliver, TriesExhausted,
         JobReturns, JobRaises, JobTimesOut, WorkerCrashes, Delivered, GivenUp, Returned,
         Raised, TimedOut, Stopped, Ends, Goto

\* What the steps of a build do.
LEMMA BuilderEffect ==
  ASSUME TypeOK, NEW b \in Builders, BuilderStep(b)
  PROVE  /\ UNCHANGED <<uploads, answers, queue, at, clients>>
         /\ \/ /\ builder[b].at = "idle" /\ builds > 0 /\ builds' = builds - 1
               /\ UNCHANGED <<profile, overtaken>>
               /\ Builds(b, "answers", [imports |-> load_uploads, answer |-> None], FALSE)
            \/ /\ builder[b].at = "answers" /\ UNCHANGED <<profile, overtaken, builds>>
               /\ \E said \in Areas \cup {None} :
                     /\ builder[b].read.imports = {} \/ answer \notin Areas \/ said = answer
                     /\ Builds(b, "upsert", [imports |-> builder[b].read.imports,
                                             answer |-> said], builder[b].stale)
            \/ BuildUpserts(b)
            \/ /\ builder[b].at # "idle" /\ builds' = builds + 1 /\ UNCHANGED <<profile, overtaken>>
               /\ builder' = [builder EXCEPT ![b] = BuilderIdle]
<1>1. CASE BuildLoads(b)
  BY <1>1 DEF BuildLoads
<1>2. CASE BuildReads(b)
  BY <1>2 DEF BuildReads
<1>3. CASE BuildUpserts(b)
  BY <1>3 DEF BuildUpserts
<1>4. CASE BuildCrashes(b)
  BY <1>4 DEF BuildCrashes
<1>5. QED
  BY <1>1, <1>2, <1>3, <1>4 DEF BuilderStep, BuildStep

-----------------------------------------------------------------------------
\* The initial state satisfies the invariant.
LEMMA InitInv == Init => IntakeInv
<1> SUFFICES ASSUME Init PROVE IntakeInv
  OBVIOUS
<1>c. MaxImports \in Nat /\ 0 \in 0..MaxImports /\ MaxTries \in Nat
  BY IntakeConstants, QueueConstants
<1>1. TypeOK
  <2>1. NoRead \in Reads
    BY Shapes DEF NoRead
  <2>2. BuilderIdle \in Building /\ CallReady \in Call
        /\ [at |-> "ready", text |-> None] \in Answering
    BY <1>c, <2>1, Shapes DEF BuilderIdle, CallReady, CallSteps
  <2>3. QueueTypeOK(Completes, ParseSteps)
    BY <1>c DEF Init, QueueInit, QueueTypeOK, JobStatus, ParseSteps
  <2>4. QED
    BY <1>c, <2>1, <2>2, <2>3 DEF Init, TypeOK
<1>2. RowsFit
  BY DEF Init, RowsFit
<1>3. \A c \in Completes : CompleteFits(c)
  BY DEF Init, QueueInit, CompleteFits, CallReady
<1>4. \A p \in Pulls : PullFits(p)
  BY DEF Init, PullFits, CallReady
<1>5. ImportsAreRead
  BY DEF Init, ImportsAreRead, Due, Parsed
<1>6. AnswerIsRead
  BY DEF Init, AnswerIsRead, AnswerDue, NoRead, NoFreshBuild, Running, BuilderIdle
<1>7. QED
  BY <1>1, <1>2, <1>3, <1>4, <1>5, <1>6 DEF IntakeInv

\* Every step keeps the types.
LEMMA TypesKept ==
  ASSUME IntakeInv, [Next]_vars
  PROVE  TypeOK'
<1>1. /\ TypeOK
      /\ \A c \in Completes : CompleteFits(c)
      /\ \A p \in Pulls : PullFits(p)
  BY DEF IntakeInv
<1>2. MaxImports \in Nat /\ imports \in Nat
  BY <1>1, IntakeConstants DEF TypeOK
<1>3. CASE Presign
  BY <1>1, <1>2, <1>3 DEF Presign, SetStatus, TypeOK, QueueTypeOK, Imports, answers, read, queue,
         clients
<1>4. ASSUME complete' \in [Completes -> Call], pull' \in [Pulls -> Call],
             answering' \in [Answers -> Answering], UNCHANGED <<uploads, answers, read, queue, at>>,
             builds' \in Nat
      PROVE  TypeOK'
  BY <1>1, <1>4 DEF TypeOK, QueueTypeOK, uploads, answers, read, queue
<1>5. /\ \A c \in Completes, step \in {"queue", "enqueue", "over", "gone"}, i \in 0..MaxImports :
            CompleteMoves(c, step, i) => complete' \in [Completes -> Call]
      /\ \A p \in Pulls, step \in CallSteps, i \in 0..MaxImports :
            PullMoves(p, step, i) => pull' \in [Pulls -> Call]
      /\ \A a \in Answers, step \in {"enqueue", "over", "gone"} :
            AnswerMoves(a, step) => answering' \in [Answers -> Answering]
  <2>1. \A c \in Completes, step \in {"queue", "enqueue", "over", "gone"}, i \in 0..MaxImports :
            CompleteMoves(c, step, i) => complete' \in [Completes -> Call]
    BY <1>1, Shapes DEF CompleteMoves, TypeOK, CallSteps
  <2>2. \A p \in Pulls, step \in CallSteps, i \in 0..MaxImports :
            PullMoves(p, step, i) => pull' \in [Pulls -> Call]
    BY <1>1, Shapes DEF PullMoves, TypeOK
  <2>3. \A a \in Answers, step \in {"enqueue", "over", "gone"} :
            AnswerMoves(a, step) => answering' \in [Answers -> Answering]
    BY <1>1, Shapes, Fields DEF AnswerMoves, TypeOK
  <2>4. QED
    BY <2>1, <2>2, <2>3
<1>6. CASE ClientDies
  <2>1. /\ complete' \in [Completes -> Call] /\ pull' \in [Pulls -> Call]
        /\ answering' \in [Answers -> Answering]
    BY <1>1, <1>5, <1>6, Fields DEF ClientDies, TypeOK, CallSteps
  <2>2. QED
    BY <1>1, <1>4, <1>6, <2>1 DEF ClientDies, TypeOK
<1>7. ASSUME NEW c \in Completes, CompleteStep(c) PROVE TypeOK'
  <2>1. complete' \in [Completes -> Call]
    BY <1>1, <1>2, <1>5, <1>7, Fields
       DEF CompleteStep, CompleteChecks, CompleteQueues, CompleteEnqueues, TypeOK
  <2>2. QueueTypeOK(Completes, ParseSteps)'
    <3>1. CASE CompleteEnqueues(c)
      BY <1>1, <3>1, QueueActionTypeOK DEF CompleteEnqueues, QueueAction, TypeOK, ParseSteps
    <3>2. CASE ~CompleteEnqueues(c)
      BY <1>1, <1>7, <3>2 DEF CompleteStep, CompleteChecks, CompleteQueues, queue, TypeOK,
             QueueTypeOK
    <3>3. QED
      BY <3>1, <3>2
  <2>3. QED
    BY <1>1, <1>7, <2>1, <2>2 DEF CompleteStep, CompleteChecks, CompleteQueues, CompleteEnqueues,
           SetStatus, TypeOK, uploads, answers, read
<1>8. ASSUME NEW p \in Pulls, PullStep(p) PROVE TypeOK'
  <2>1. pull' \in [Pulls -> Call]
    BY <1>1, <1>2, <1>5, <1>8, Fields
       DEF PullStep, PullCreates, PullWrites, PullParsed, PullEnqueues, CallSteps, TypeOK
  <2>2. pull[p].at # "ready" => pull[p].import \in Imports
    BY <1>1, <1>2 DEF PullFits, Imports, TypeOK
  <2> USE DEF TypeOK, QueueTypeOK, Imports, uploads, answers, read, queue
  <2>3. CASE PullCreates(p)
    BY <1>1, <1>2, <2>1, <2>3 DEF PullCreates, SetStatus
  <2>4. CASE PullWrites(p)
    BY <1>1, <1>2, <2>1, <2>2, <2>4 DEF PullWrites
  <2>5. CASE PullParsed(p)
    BY <1>1, <1>2, <2>1, <2>2, <2>5 DEF PullParsed, SetStatus
  <2>6. CASE PullEnqueues(p)
    BY <1>1, <2>1, <2>6 DEF PullEnqueues, AskForBuild
  <2>7. QED
    BY <1>8, <2>3, <2>4, <2>5, <2>6 DEF PullStep
<1>9. ASSUME NEW a \in Answers, AnswerStep(a) PROVE TypeOK'
  <2>1. CASE AnswerSetsQuota(a)
    <3>1. PICK area \in Areas :
             answering' = [answering EXCEPT ![a] = [at |-> "answer", text |-> area]]
      BY <2>1 DEF AnswerSetsQuota
    <3>2. [at |-> "answer", text |-> area] \in Answering
      BY Shapes
    <3>3. QED
      BY <1>1, <2>1, <3>1, <3>2 DEF AnswerSetsQuota, TypeOK, QueueTypeOK, uploads, read, queue
  <2>2. CASE AnswerSkips(a)
    <3>1. [at |-> "over", text |-> "skipped"] \in Answering
      BY Shapes
    <3>2. QED
      BY <1>1, <2>2, <3>1 DEF AnswerSkips, TypeOK, QueueTypeOK, uploads, read, queue
  <2>3. CASE AnswerRecorded(a)
    BY <1>1, <1>5, <2>3, Fields DEF AnswerRecorded, TypeOK, QueueTypeOK, uploads, read, queue
  <2>4. CASE AnswerEnqueues(a)
    BY <1>1, <1>4, <1>5, <2>4 DEF AnswerEnqueues, AskForBuild, TypeOK
  <2>5. QED
    BY <1>9, <2>1, <2>2, <2>3, <2>4 DEF AnswerStep
<1>10. ASSUME NEW c \in Completes, Handles(c) PROVE TypeOK'
  <2>1. ImportOf(c) \in Imports
    BY <1>1, <1>2, <1>10, HandlerEffect DEF CompleteFits, Imports, TypeOK
  <2>2. UNCHANGED <<imports, answers, read, queue, clients>> /\ builds' \in Nat
    BY <1>1, <1>10, HandlerEffect DEF TypeOK
  <2>3. at' \in [Completes -> ParseSteps]
    BY <1>1, <1>10, HandlerEffect DEF TypeOK, QueueTypeOK
  <2>4. status' \in [Imports -> {"absent", "pending", "queued", "parsed", "failed"}]
        /\ documents' \subseteq Imports
    BY <1>1, <1>10, <2>1, HandlerEffect DEF SetStatus, uploads, TypeOK
  <2>5. QED
    BY <1>1, <2>2, <2>3, <2>4 DEF TypeOK, QueueTypeOK, answers, read, queue, clients
<1>11. ASSUME NEW c \in Completes, OnlyQueue(c) PROVE TypeOK'
  <2>1. QueueTypeOK(Completes, ParseSteps)'
    BY <1>1, <1>11, OnlyQueueEffect, QueueActionTypeOK DEF TypeOK, ParseSteps
  <2>2. UNCHANGED <<uploads, answers, read, builds, clients>>
    BY <1>1, <1>11, OnlyQueueEffect
  <2>3. QED
    BY <1>1, <2>1, <2>2 DEF TypeOK, uploads, answers, read, clients
<1>12. ASSUME NEW b \in Builders, BuilderStep(b) PROVE TypeOK'
  <2>0. NoRead \in Reads
    BY Shapes DEF NoRead
  <2>i. BuilderIdle \in Building
    BY <2>0, Shapes DEF BuilderIdle
  <2>1. builder' \in [Builders -> Building]
    <3>1. CASE BuildUpserts(b)
      <4>1. \A o \in Builders : builder'[o] \in Building
        <5>1. \A o \in Builders : (builder[o].at # "idle") \in BOOLEAN
          OBVIOUS
        <5>2. \A o \in Builders :
                 [at |-> builder[o].at, read |-> builder[o].read, stale |-> builder[o].at # "idle"]
                    \in Building
          BY <1>1, <5>1, Shapes, Fields
        <5>3. QED
          BY <2>i, <3>1, <5>2 DEF BuildUpserts
      <4>2. QED
        BY <3>1, <4>1 DEF BuildUpserts
    <3>2. CASE Builds(b, "answers", [imports |-> load_uploads, answer |-> None], FALSE)
      <4>1. [imports |-> load_uploads, answer |-> None] \in Reads
        <5>1. load_uploads \in SUBSET Imports
          BY <1>1, <1>2 DEF load_uploads, Imports, TypeOK
        <5>2. QED
          BY <5>1, Shapes
      <4>2. QED
        BY <1>1, <3>2, <4>1, Shapes DEF Builds, TypeOK
    <3>3. CASE \E said \in Areas \cup {None} :
                  Builds(b, "upsert", [imports |-> builder[b].read.imports, answer |-> said],
                         builder[b].stale)
      <4>1. PICK said \in Areas \cup {None} :
               Builds(b, "upsert", [imports |-> builder[b].read.imports, answer |-> said],
                      builder[b].stale)
        BY <3>3
      <4>2. [imports |-> builder[b].read.imports, answer |-> said] \in Reads
        BY <1>1, Fields, Shapes
      <4>3. QED
        BY <1>1, <4>1, <4>2, Shapes, Fields DEF Builds, TypeOK
    <3>4. CASE builder' = [builder EXCEPT ![b] = BuilderIdle]
      BY <1>1, <2>i, <3>4 DEF TypeOK
    <3>5. QED
      BY <1>1, <1>12, <3>1, <3>2, <3>3, <3>4, BuilderEffect
  <2>2. profile' \in Reads /\ overtaken' \in BOOLEAN /\ builds' \in Nat
    <3>1. CASE BuildUpserts(b)
      <4>1. profile' = builder[b].read /\ overtaken' = builder[b].stale /\ builds' = builds
        BY <3>1 DEF BuildUpserts
      <4>2. QED
        BY <1>1, <4>1, Fields DEF TypeOK
    <3>2. CASE ~BuildUpserts(b)
      <4>1. UNCHANGED <<profile, overtaken>>
        BY <1>1, <1>12, <3>2, BuilderEffect
      <4>2. builds' \in Nat
        <5>1. builds \in Nat
          BY <1>1 DEF TypeOK
        <5>2. (builds > 0 /\ builds' = builds - 1) \/ builds' = builds \/ builds' = builds + 1
          BY <1>1, <1>12, <3>2, BuilderEffect
        <5>3. QED
          BY <5>1, <5>2
      <4>3. QED
        BY <1>1, <4>1, <4>2 DEF TypeOK
    <3>3. QED
      BY <3>1, <3>2
  <2>3. QED
    BY <1>1, <1>12, <2>1, <2>2, BuilderEffect DEF TypeOK, QueueTypeOK, uploads, answers, queue,
           clients
<1>13. CASE UNCHANGED vars
  BY <1>1, <1>13 DEF TypeOK, QueueTypeOK, vars, uploads, answers, read, queue, clients
<1>14. QED
  BY <1>3, <1>6, <1>7, <1>8, <1>9, <1>10, <1>11, <1>12, <1>13, NextCases

\* Rows appear in order, and what is parsed was parsed by somebody.
LEMMA RowsKept ==
  ASSUME IntakeInv, [Next]_vars
  PROVE  RowsFit'
<1>1. /\ TypeOK /\ RowsFit
      /\ \A c \in Completes : CompleteFits(c)
      /\ \A p \in Pulls : PullFits(p)
  BY DEF IntakeInv
<1>2. MaxImports \in Nat /\ imports \in Nat /\ \A c \in Completes : tries[c] \in Nat
  BY <1>1, IntakeConstants, QueueConstants DEF TypeOK, QueueTypeOK
<1> USE DEF Imports
<1>3. ASSUME imports <= imports', imports' \in Nat,
             documents \subseteq documents',
             \A i \in Imports : /\ status'[i] # "absent" \/ i \in documents' =>
                                      status[i] # "absent" \/ i \in documents \/ i <= imports'
                                /\ status'[i] = "parsed" => status[i] = "parsed",
             \A i \in Imports : Pulled(i) => Pulled(i)',
             \A c \in Completes : ImportOf(c) \in Imports /\ Finished(c) =>
                                     ImportOf(c)' = ImportOf(c) /\ Finished(c)'
      PROVE  RowsFit'
  BY <1>1, <1>2, <1>3 DEF RowsFit
<1>4. CASE Presign
  BY <1>1, <1>2, <1>3, <1>4 DEF Presign, SetStatus, TypeOK, Pulled, Finished, queue, clients, ImportOf
<1>5. CASE ClientDies
  <2>1. UNCHANGED <<uploads, queue, at>>
    BY <1>5 DEF ClientDies
  <2>2. \A i \in Imports : Pulled(i)' = Pulled(i)
    BY <1>1, <1>5 DEF ClientDies, PullMoves, TypeOK, Pulled
  <2>3. \A c \in Completes : ImportOf(c)' = ImportOf(c)
    BY <1>1, <1>5 DEF ClientDies, CompleteMoves, TypeOK, ImportOf
  <2>4. QED
    BY <1>2, <1>3, <2>1, <2>2, <2>3 DEF uploads, queue, Finished
<1>6. ASSUME NEW c \in Completes, CompleteStep(c) PROVE RowsFit'
  <2>1. UNCHANGED <<imports, documents, tries, at, pull>> /\ \A i \in Imports : Pulled(i)' = Pulled(i)
    BY <1>6 DEF CompleteStep, CompleteChecks, CompleteQueues, CompleteEnqueues, Enqueue, uploads,
           queue, Pulled
  <2>2. \A i \in Imports : /\ status'[i] # "absent" => status[i] # "absent" \/ i <= imports
                           /\ status'[i] = "parsed" => status[i] = "parsed"
    BY <1>1, <1>2, <1>6 DEF CompleteStep, CompleteChecks, CompleteQueues, CompleteEnqueues,
           SetStatus, uploads, TypeOK, CompleteFits, ImportOf
  <2>3. \A d \in Completes : Finished(d) => ImportOf(d)' = ImportOf(d)
    <3>1. \A d \in Completes : d # c => ImportOf(d)' = ImportOf(d)
      BY <1>1, <1>6 DEF CompleteStep, CompleteChecks, CompleteQueues, CompleteEnqueues,
             CompleteMoves, TypeOK, ImportOf
    <3>2. Finished(c) => complete[c].at # "ready"
      BY <1>1, <1>2 DEF CompleteFits, Finished
    <3>3. complete[c].at # "ready" => ImportOf(c)' = ImportOf(c)
      BY <1>1, <1>6 DEF CompleteStep, CompleteChecks, CompleteQueues, CompleteEnqueues,
             CompleteMoves, TypeOK, ImportOf
    <3>4. QED
      BY <3>1, <3>2, <3>3
  <2>4. \A d \in Completes : Finished(d)' = Finished(d)
    BY <2>1 DEF Finished
  <2>5. QED
    BY <1>2, <1>3, <2>1, <2>2, <2>3, <2>4
<1>7. ASSUME NEW p \in Pulls, PullStep(p) PROVE RowsFit'
  <2>1. UNCHANGED <<tries, at, complete>>
    BY <1>7 DEF PullStep, PullCreates, PullWrites, PullParsed, PullEnqueues, queue
  <2>2. \A c \in Completes : ImportOf(c)' = ImportOf(c) /\ Finished(c)' = Finished(c)
    BY <2>1 DEF ImportOf, Finished
  <2>3. \A i \in Imports : Pulled(i) => Pulled(i)'
    BY <1>1, <1>7 DEF PullStep, PullCreates, PullWrites, PullParsed, PullEnqueues, PullMoves,
           Pulled, PullFits, TypeOK
  <2>4. CASE PullCreates(p)
    BY <1>1, <1>2, <1>3, <2>2, <2>3, <2>4 DEF PullCreates, SetStatus, TypeOK
  <2>5. CASE PullWrites(p)
    BY <1>1, <1>2, <1>3, <2>2, <2>3, <2>5 DEF PullWrites, PullFits
  <2>6. CASE PullParsed(p)
    <3>1. pull[p].import \in documents /\ pull[p].import \in 1..imports
      BY <1>1, <2>6 DEF PullParsed, PullFits
    <3>2. \E q \in Pulls : pull'[q].import = pull[p].import
      BY <1>1, <2>6 DEF PullParsed, PullMoves, TypeOK
    <3>3. \A i \in Imports : i # pull[p].import => status'[i] = status[i]
      BY <1>1, <2>6 DEF PullParsed, SetStatus, TypeOK
    <3>4. UNCHANGED <<imports, documents>>
      BY <2>6 DEF PullParsed
    <3>5. \A i \in Imports : status'[i] # "absent" \/ i \in documents' => i <= imports'
      BY <1>1, <1>2, <3>1, <3>3, <3>4 DEF RowsFit
    <3>6. ASSUME NEW i \in Imports, status'[i] = "parsed"
          PROVE  i \in documents' /\ (Pulled(i)' \/ \E c \in Completes : ImportOf(c)' = i /\ Finished(c)')
      <4>1. CASE i = pull[p].import
        BY <3>1, <3>2, <3>4, <4>1 DEF Pulled
      <4>2. CASE i # pull[p].import
        BY <1>1, <2>2, <2>3, <3>3, <3>4, <3>6, <4>2 DEF RowsFit
      <4>3. QED
        BY <4>1, <4>2
    <3>7. QED
      BY <3>5, <3>6 DEF RowsFit
  <2>7. CASE PullEnqueues(p)
    BY <1>2, <1>3, <2>2, <2>3, <2>7 DEF PullEnqueues, uploads
  <2>8. QED
    BY <1>7, <2>4, <2>5, <2>6, <2>7 DEF PullStep
<1>8. ASSUME NEW c \in Completes, Handles(c) PROVE RowsFit'
  <2>1. /\ UNCHANGED <<imports, queue, complete, pull>> /\ ImportOf(c) \in 1..imports
        /\ tries[c] > 0
    BY <1>1, <1>8, HandlerEffect DEF clients, CompleteFits
  <2>2. \A i \in Imports : Pulled(i)' = Pulled(i)
    BY <2>1 DEF Pulled
  <2>3. \A d \in Completes : ImportOf(d)' = ImportOf(d)
    BY <2>1 DEF ImportOf
  <2>4. \A d \in Completes : Finished(d) => Finished(d)'
    <3>1. \A d \in Completes : tries'[d] = tries[d] /\ (d # c => at'[d] = at[d])
      BY <1>1, <1>8, <2>1, HandlerEffect DEF queue, TypeOK, QueueTypeOK
    <3>2. at[c] # "idle" /\ (at[c] = "enqueue" => at'[c] \in {"return", "raise"})
          /\ at[c] \notin {"return", "raise"}
      BY <1>1, <1>8, HandlerEffect
    <3>3. QED
      BY <3>1, <3>2 DEF Finished
  <2>5. CASE at[c] = "parsed" /\ SetStatus(ImportOf(c), "parsed") /\ at'[c] = "enqueue"
             /\ UNCHANGED documents
    <3>1. ImportOf(c) \in documents /\ Finished(c)'
      BY <1>1, <1>2, <2>1, <2>5 DEF CompleteFits, Finished, queue
    <3>2. QED
      BY <1>1, <1>2, <2>1, <2>2, <2>3, <2>4, <2>5, <3>1 DEF SetStatus, TypeOK, RowsFit
  <2>6. /\ documents \subseteq documents'
        /\ \A i \in documents' : i \in documents \/ i = ImportOf(c)
    BY <1>1, <1>8, HandlerEffect DEF uploads
  <2>7. CASE UNCHANGED status \/ SetStatus(ImportOf(c), "failed")
    <3>1. \A i \in Imports : /\ status'[i] # "absent" => status[i] # "absent" \/ i <= imports
                             /\ status'[i] = "parsed" => status[i] = "parsed"
      BY <1>1, <1>2, <2>1, <2>7 DEF SetStatus, TypeOK
    <3>2. QED
      BY <1>2, <1>3, <2>1, <2>2, <2>3, <2>4, <2>6, <3>1
  <2>8. QED
    BY <1>1, <1>8, <2>5, <2>7, HandlerEffect DEF uploads
<1>9. ASSUME NEW c \in Completes, OnlyQueue(c) PROVE RowsFit'
  <2>1. \A d \in Completes : Finished(d) => Finished(d)'
    BY <1>1, <1>2, <1>9, OnlyQueueEffect DEF Finished, CompleteFits
  <2>2. QED
    BY <1>1, <1>2, <1>3, <1>9, <2>1, OnlyQueueEffect DEF uploads, clients, Pulled, ImportOf
<1>10. CASE (\E a \in Answers : AnswerStep(a)) \/ (\E b \in Builders : BuilderStep(b)) \/ UNCHANGED vars
  <2>1. UNCHANGED <<uploads, tries, at, complete, pull>>
    BY <1>1, <1>10, BuilderEffect DEF AnswerStep, AnswerSetsQuota, AnswerSkips, AnswerRecorded,
           AnswerEnqueues, vars, queue, clients
  <2>2. QED
    BY <1>2, <1>3, <2>1 DEF uploads, Pulled, Finished, ImportOf
<1>11. QED
  BY <1>4, <1>5, <1>6, <1>7, <1>8, <1>9, <1>10, NextCases

\* Rows stay, documents stay, and the import of an upload is never one of a pull.
LEMMA UploadsStay ==
  ASSUME IntakeInv, [Next]_vars
  PROVE  /\ imports <= imports' /\ imports' \in Nat /\ documents \subseteq documents'
         /\ \A i \in 1..imports : Pulled(i)' = Pulled(i)
<1>1. /\ TypeOK
      /\ \A c \in Completes : CompleteFits(c)
      /\ \A p \in Pulls : PullFits(p)
  BY DEF IntakeInv
<1>2. MaxImports \in Nat /\ imports \in Nat
  BY <1>1, IntakeConstants DEF TypeOK
<1>3. CASE Presign
  BY <1>2, <1>3 DEF Presign, clients, Pulled
<1>4. CASE ClientDies
  BY <1>1, <1>2, <1>4 DEF ClientDies, uploads, PullMoves, Pulled, TypeOK
<1>5. ASSUME NEW c \in Completes, CompleteStep(c)
      PROVE  UNCHANGED <<imports, documents, pull>>
  BY <1>5 DEF CompleteStep, CompleteChecks, CompleteQueues, CompleteEnqueues, uploads
<1>6. ASSUME NEW c \in Completes, OnlyQueue(c)
      PROVE  UNCHANGED <<imports, documents, pull>>
  BY <1>1, <1>6, OnlyQueueEffect DEF uploads, clients
<1>7. ASSUME NEW c \in Completes, Handles(c)
      PROVE  UNCHANGED <<imports, pull>> /\ documents \subseteq documents'
  BY <1>1, <1>7, HandlerEffect DEF uploads, clients
<1>8. CASE (\E a \in Answers : AnswerStep(a)) \/ (\E b \in Builders : BuilderStep(b)) \/ UNCHANGED vars
  <2>1. UNCHANGED <<imports, documents, pull>>
    BY <1>1, <1>8, BuilderEffect DEF AnswerStep, AnswerSetsQuota, AnswerSkips, AnswerRecorded,
           AnswerEnqueues, vars, uploads, clients
  <2>2. QED
    BY <1>2, <2>1 DEF Pulled
<1>9. ASSUME NEW p \in Pulls, PullStep(p)
      PROVE  /\ imports <= imports' /\ imports' \in Nat /\ documents \subseteq documents'
             /\ \A i \in 1..imports : Pulled(i)' = Pulled(i)
  <2>1. imports <= imports' /\ imports' \in Nat /\ documents \subseteq documents'
    BY <1>2, <1>9 DEF PullStep, PullCreates, PullWrites, PullParsed, PullEnqueues, uploads
  <2>2. \A q \in Pulls : \/ pull'[q].import = pull[q].import
                         \/ pull[q].import = 0 /\ pull'[q].import = imports + 1
    BY <1>1, <1>9 DEF PullStep, PullCreates, PullWrites, PullParsed, PullEnqueues, PullMoves,
           TypeOK, PullFits
  <2>3. QED
    BY <1>2, <2>1, <2>2 DEF Pulled
<1>10. QED
  BY <1>2, <1>3, <1>4, <1>5, <1>6, <1>7, <1>8, <1>9, NextCases DEF Pulled

\* A complete call stays about an upload, and its job behind it.
LEMMA CompletesKept ==
  ASSUME IntakeInv, [Next]_vars, NEW c \in Completes
  PROVE  CompleteFits(c)'
<1>1. /\ TypeOK /\ CompleteFits(c)
      /\ \A d \in Completes : CompleteFits(d)
  BY DEF IntakeInv
<1>2. MaxImports \in Nat /\ imports \in Nat /\ \A d \in Completes : tries[d] \in Nat
  BY <1>1, IntakeConstants, QueueConstants DEF TypeOK, QueueTypeOK
<1>3. /\ imports <= imports' /\ imports' \in Nat /\ documents \subseteq documents'
      /\ \A i \in 1..imports : Pulled(i)' = Pulled(i)
  BY UploadsStay
<1>4. ASSUME UNCHANGED <<complete[c], job[c], tries[c], at[c]>> PROVE CompleteFits(c)'
  BY <1>1, <1>2, <1>3, <1>4 DEF CompleteFits, ImportOf
<1>5. CASE Presign
  BY <1>4, <1>5 DEF Presign, queue, clients
<1>6. CASE ClientDies
  <2>1. UNCHANGED <<job, tries, at>>
    BY <1>6 DEF ClientDies, queue
  <2>2. \/ UNCHANGED complete[c]
        \/ /\ complete[c].at \in {"queue", "enqueue"} /\ complete'[c].at = "gone"
           /\ complete'[c].import = complete[c].import
    BY <1>1, <1>6 DEF ClientDies, CompleteMoves, TypeOK
  <2>3. QED
    BY <1>1, <1>2, <1>3, <1>4, <2>1, <2>2 DEF CompleteFits, ImportOf
<1>7. ASSUME NEW d \in Completes, CompleteStep(d) PROVE CompleteFits(c)'
  <2>1. CASE d # c
    BY <1>1, <1>4, <1>7, <2>1 DEF CompleteStep, CompleteChecks, CompleteQueues, CompleteEnqueues,
           CompleteMoves, Enqueue, queue, TypeOK, QueueTypeOK
  <2>2. CASE CompleteChecks(c)
    <3>1. PICK i \in 1..imports : ~Pulled(i) /\ CompleteMoves(c, "queue", i)
      BY <2>2 DEF CompleteChecks
    <3>2. complete'[c].at = "queue" /\ complete'[c].import = i
      BY <1>1, <3>1 DEF CompleteMoves, TypeOK
    <3>3. UNCHANGED <<job, tries, at>>
      BY <2>2 DEF CompleteChecks, queue
    <3>4. job[c] = "none" /\ at[c] = "idle"
      BY <1>1, <2>2 DEF CompleteChecks, CompleteFits
    <3>5. QED
      BY <1>1, <1>2, <1>3, <3>1, <3>2, <3>3, <3>4 DEF CompleteFits, ImportOf
  <2>3. CASE CompleteQueues(c)
    BY <1>1, <1>2, <1>3, <2>3 DEF CompleteQueues, CompleteMoves, CompleteFits, ImportOf, TypeOK,
           queue
  <2>4. CASE CompleteEnqueues(c)
    BY <1>1, <1>2, <1>3, <2>4 DEF CompleteEnqueues, CompleteMoves, CompleteFits, ImportOf, TypeOK,
           Enqueue, QueueTypeOK
  <2>5. QED
    BY <1>7, <2>1, <2>2, <2>3, <2>4 DEF CompleteStep
<1>8. ASSUME NEW p \in Pulls, PullStep(p) PROVE CompleteFits(c)'
  BY <1>4, <1>8 DEF PullStep, PullCreates, PullWrites, PullParsed, PullEnqueues, queue
<1>9. ASSUME NEW d \in Completes, Handles(d) PROVE CompleteFits(c)'
  <2>1. UNCHANGED <<job, tries, complete>>
    BY <1>1, <1>9, HandlerEffect DEF queue, clients
  <2>2. CASE d # c
    <3>1. at'[c] = at[c]
      BY <1>1, <1>9, <2>2, HandlerEffect DEF TypeOK, QueueTypeOK
    <3>2. QED
      BY <1>4, <2>1, <3>1
  <2>3. CASE d = c
    <3>1. job[c] = "running" /\ at'[c] # "idle"
      BY <1>1, <1>9, <2>3, HandlerEffect
    <3>2. at'[c] = "parsed" => ImportOf(c) \in documents'
      BY <1>1, <1>9, <2>3, HandlerEffect
    <3>3. QED
      BY <1>1, <1>2, <1>3, <2>1, <3>1, <3>2 DEF CompleteFits, ImportOf
  <2>4. QED
    BY <2>2, <2>3
<1>10. ASSUME NEW d \in Completes, OnlyQueue(d) PROVE CompleteFits(c)'
  <2>1. UNCHANGED <<complete, documents>>
    BY <1>1, <1>10, OnlyQueueEffect DEF clients, uploads
  <2>2. CASE d # c
    BY <1>1, <1>4, <1>10, <2>1, <2>2, OnlyQueueEffect
  <2>3. CASE d = c
    BY <1>1, <1>2, <1>3, <1>10, <2>1, <2>3, OnlyQueueEffect DEF CompleteFits, ImportOf
  <2>4. QED
    BY <2>2, <2>3
<1>11. CASE (\E a \in Answers : AnswerStep(a)) \/ (\E b \in Builders : BuilderStep(b)) \/ UNCHANGED vars
  <2>1. UNCHANGED <<complete, job, tries, at>>
    BY <1>1, <1>11, BuilderEffect DEF AnswerStep, AnswerSetsQuota, AnswerSkips, AnswerRecorded,
           AnswerEnqueues, vars, queue, clients
  <2>2. QED
    BY <1>4, <2>1
<1>12. QED
  BY <1>5, <1>6, <1>7, <1>8, <1>9, <1>10, <1>11, NextCases

\* A pull keeps its import, and has written the document before it says so.
LEMMA PullsKept ==
  ASSUME IntakeInv, [Next]_vars, NEW p \in Pulls
  PROVE  PullFits(p)'
<1>1. TypeOK /\ PullFits(p) /\ \A c \in Completes : CompleteFits(c)
  BY DEF IntakeInv
<1>2. MaxImports \in Nat /\ imports \in Nat /\ imports <= imports' /\ imports' \in Nat
      /\ documents \subseteq documents'
  BY <1>1, IntakeConstants, UploadsStay DEF TypeOK
<1>3. ASSUME UNCHANGED pull[p] PROVE PullFits(p)'
  BY <1>1, <1>2, <1>3 DEF PullFits
<1>4. CASE Presign
  BY <1>3, <1>4 DEF Presign, clients
<1>5. CASE ClientDies
  <2>1. \/ UNCHANGED pull[p]
        \/ /\ pull[p].at # "ready" /\ pull'[p].at = "gone" /\ pull'[p].import = pull[p].import
    BY <1>1, <1>5 DEF ClientDies, PullMoves, TypeOK
  <2>2. QED
    BY <1>1, <1>2, <1>3, <2>1 DEF PullFits
<1>6. ASSUME NEW q \in Pulls, PullStep(q) PROVE PullFits(p)'
  <2>1. CASE q # p
    BY <1>1, <1>3, <1>6, <2>1 DEF PullStep, PullCreates, PullWrites, PullParsed, PullEnqueues,
           PullMoves, TypeOK
  <2>2. CASE PullCreates(p)
    BY <1>1, <1>2, <2>2 DEF PullCreates, PullMoves, PullFits, TypeOK
  <2>3. CASE PullWrites(p)
    BY <1>1, <1>2, <2>3 DEF PullWrites, PullMoves, PullFits, TypeOK
  <2>4. CASE PullParsed(p) \/ PullEnqueues(p)
    BY <1>1, <1>2, <2>4 DEF PullParsed, PullEnqueues, PullMoves, PullFits, TypeOK
  <2>5. QED
    BY <1>6, <2>1, <2>2, <2>3, <2>4 DEF PullStep
<1>7. CASE \/ \E c \in Completes : CompleteStep(c) \/ Handles(c) \/ OnlyQueue(c)
           \/ \E a \in Answers : AnswerStep(a)
           \/ \E b \in Builders : BuilderStep(b)
           \/ UNCHANGED vars
  <2>1. UNCHANGED pull
    BY <1>1, <1>7, BuilderEffect, HandlerEffect, OnlyQueueEffect
       DEF CompleteStep, CompleteChecks, CompleteQueues, CompleteEnqueues, AnswerStep,
           AnswerSetsQuota, AnswerSkips, AnswerRecorded, AnswerEnqueues, vars, clients
  <2>2. QED
    BY <1>3, <2>1
<1>8. QED
  BY <1>4, <1>5, <1>6, <1>7, NextCases

-----------------------------------------------------------------------------
\* An import becomes due for reading, or an answer does, by no step but a build's.
LEMMA DueKept ==
  ASSUME IntakeInv, [Next]_vars, ~\E b \in Builders : BuilderStep(b)
  PROVE  /\ UNCHANGED read
         /\ \A i \in Imports : Due(i)' => Due(i)
         /\ AnswerDue' => AnswerDue /\ answer' = answer
<1>1. /\ TypeOK /\ RowsFit
      /\ \A c \in Completes : CompleteFits(c)
      /\ \A p \in Pulls : PullFits(p)
  BY DEF IntakeInv
<1>2. MaxImports \in Nat /\ imports \in Nat /\ builds \in Nat /\ "skipped" \notin Areas
  BY <1>1, IntakeConstants DEF TypeOK
<1>3. ASSUME builds' = builds + 1
      PROVE  /\ \A i \in Imports : ~Due(i)'
             /\ ~AnswerDue'
  BY <1>2, <1>3 DEF Due, AnswerDue
<1>4. ASSUME UNCHANGED answering, UNCHANGED answer, builds' = builds
      PROVE  AnswerDue' => AnswerDue /\ answer' = answer
  BY <1>4 DEF AnswerDue
<1>5. ASSUME builds' = builds,
             NEW i \in Imports,
             Parsed(i)' => Parsed(i) \/ Asking(i)',
             Unasked(i) => Unasked(i)',
             Asking(i) => Asking(i)' \/ Unasked(i)' \/ ~Parsed(i)'
      PROVE  Due(i)' => Due(i)
  BY <1>5 DEF Due
<1>6. CASE Presign
  <2>1. \A i \in Imports : Parsed(i)' => Parsed(i)
    BY <1>1, <1>6 DEF Presign, SetStatus, Parsed, TypeOK
  <2>2. \A i \in Imports : Unasked(i)' = Unasked(i) /\ Asking(i)' = Asking(i)
    BY <1>6 DEF Presign, Unasked, Asking, clients, queue, ImportOf
  <2>3. QED
    BY <1>4, <1>5, <1>6, <2>1, <2>2 DEF Presign, answers, clients
<1>7. CASE ClientDies
  <2>1. \A i \in Imports : Parsed(i)' = Parsed(i)
    BY <1>7 DEF ClientDies, uploads, Parsed
  <2>2. \A c \in Completes : ImportOf(c)' = ImportOf(c)
    BY <1>1, <1>7 DEF ClientDies, CompleteMoves, ImportOf, TypeOK
  <2>3. \A p \in Pulls : \/ pull'[p] = pull[p]
                         \/ /\ pull[p].at # "gone"
                            /\ pull'[p] = [at |-> "gone", import |-> pull[p].import]
    BY <1>1, <1>7 DEF ClientDies, PullMoves, TypeOK
  <2>4. \A i \in Imports : /\ Unasked(i) => Unasked(i)'
                           /\ Asking(i) => Asking(i)' \/ Unasked(i)'
    <3>1. UNCHANGED <<job, at>>
      BY <1>7 DEF ClientDies, queue
    <3>2. \A p \in Pulls : pull[p].at = "gone" => pull'[p] = pull[p]
      BY <2>3
    <3>3. QED
      BY <2>2, <2>3, <3>1, <3>2 DEF Unasked, Asking
  <2>5. AnswerDue' => AnswerDue /\ answer' = answer
    <3>1. \A a \in Answers : answering'[a].at = answering[a].at \/ answering'[a].at = "gone"
      BY <1>1, <1>7 DEF ClientDies, AnswerMoves, TypeOK
    <3>2. QED
      BY <1>7, <3>1 DEF ClientDies, answers, AnswerDue
  <2>6. QED
    BY <1>5, <1>7, <2>1, <2>4, <2>5 DEF ClientDies
<1>8. ASSUME NEW c \in Completes, CompleteStep(c)
      PROVE  /\ \A i \in Imports : Due(i)' => Due(i)
             /\ AnswerDue' => AnswerDue /\ answer' = answer
  <2>1. UNCHANGED <<documents, answers, builds, at, pull, answering>>
    BY <1>8 DEF CompleteStep, CompleteChecks, CompleteQueues, CompleteEnqueues, uploads, Enqueue
  <2>2. \A i \in Imports : Parsed(i)' => Parsed(i)
    BY <1>1, <1>8, <2>1 DEF CompleteStep, CompleteChecks, CompleteQueues, CompleteEnqueues,
           SetStatus, uploads, Parsed, TypeOK
  <2>3. \A d \in Completes : job[d] # "none" =>
           job'[d] = job[d] /\ ImportOf(d)' = ImportOf(d)
    <3>1. job[c] = "none"
      BY <1>1, <1>8 DEF CompleteStep, CompleteChecks, CompleteQueues, CompleteEnqueues,
             CompleteFits
    <3>2. \A d \in Completes : d # c => job'[d] = job[d] /\ ImportOf(d)' = ImportOf(d)
      BY <1>1, <1>8 DEF CompleteStep, CompleteChecks, CompleteQueues, CompleteEnqueues,
             CompleteMoves, Enqueue, queue, ImportOf, TypeOK, QueueTypeOK
    <3>3. QED
      BY <3>1, <3>2
  <2>4. \A i \in Imports : /\ Unasked(i) => Unasked(i)'
                           /\ Asking(i) => Asking(i)'
    BY <2>1, <2>3 DEF Unasked, Asking
  <2>5. QED
    BY <1>4, <1>5, <2>1, <2>2, <2>4 DEF answers
<1>9. ASSUME NEW c \in Completes, Handles(c)
      PROVE  /\ \A i \in Imports : Due(i)' => Due(i)
             /\ AnswerDue' => AnswerDue /\ answer' = answer
  <2>1. UNCHANGED <<answers, job, complete, pull, answering>> /\ job[c] = "running"
    BY <1>1, <1>9, HandlerEffect DEF queue, clients
  <2>2. CASE builds' = builds + 1
    BY <1>3, <2>2
  <2>3. CASE builds' = builds
    <3>1. \A d \in Completes : ImportOf(d)' = ImportOf(d) /\ (d # c => at'[d] = at[d])
      BY <1>1, <1>9, <2>1, HandlerEffect DEF ImportOf, TypeOK, QueueTypeOK
    <3>2. \A i \in Imports : Unasked(i)' = Unasked(i)
      BY <2>1, <3>1 DEF Unasked
    <3>3. \A i \in Imports : Asking(i) => Asking(i)' \/ (ImportOf(c) = i /\ at'[c] = "return")
      BY <2>1, <3>1 DEF Asking
    <3>4. at'[c] = "return" => ~Parsed(ImportOf(c))'
      <4>1. ImportOf(c) \in Imports
        BY <1>1, <1>2, <1>9, HandlerEffect DEF CompleteFits, Imports, TypeOK
      <4>2. at'[c] = "return" => SetStatus(ImportOf(c), "failed")
        BY <1>1, <1>2, <1>9, <2>3, HandlerEffect
      <4>3. QED
        BY <1>1, <2>1, <4>1, <4>2 DEF SetStatus, Parsed, TypeOK, ImportOf
    <3>5. \A i \in Imports : Parsed(i)' => Parsed(i) \/ Asking(i)'
      <4>1. CASE UNCHANGED status
        BY <1>1, <4>1 DEF Parsed, RowsFit
      <4>2. CASE SetStatus(ImportOf(c), "failed") /\ UNCHANGED documents
        BY <1>1, <4>2 DEF SetStatus, Parsed, TypeOK
      <4>3. CASE SetStatus(ImportOf(c), "parsed") /\ at'[c] = "enqueue" /\ UNCHANGED documents
        <5>1. Asking(ImportOf(c))'
          BY <2>1, <3>1, <4>3 DEF Asking
        <5>2. \A i \in Imports : i # ImportOf(c) => status'[i] = status[i]
          BY <1>1, <4>3 DEF SetStatus, TypeOK
        <5>3. \A i \in Imports : i = ImportOf(c) => Asking(i)'
          BY <2>1, <3>1, <4>3 DEF Asking
        <5>4. QED
          BY <4>3, <5>2, <5>3 DEF Parsed
      <4>4. QED
        BY <1>1, <1>9, <4>1, <4>2, <4>3, HandlerEffect DEF uploads
    <3>6. \A i \in Imports : ImportOf(c) = i /\ at'[c] = "return" => ~Parsed(i)'
      BY <2>1, <3>1, <3>4
    <3>7. QED
      BY <1>4, <1>5, <2>1, <2>3, <3>2, <3>3, <3>5, <3>6 DEF answers
  <2>4. QED
    BY <1>1, <1>9, <2>2, <2>3, HandlerEffect
<1>10. ASSUME NEW c \in Completes, OnlyQueue(c)
       PROVE  /\ \A i \in Imports : Due(i)' => Due(i)
              /\ AnswerDue' => AnswerDue /\ answer' = answer
  <2>1. UNCHANGED <<uploads, answers, builds, complete, pull, answering>>
    BY <1>1, <1>10, OnlyQueueEffect DEF clients
  <2>2. \A i \in Imports : /\ Parsed(i)' = Parsed(i)
                           /\ \A d \in Completes : ImportOf(d)' = ImportOf(d)
    BY <2>1 DEF uploads, Parsed, ImportOf
  <2>3. \A d \in Completes : job[d] = "failed" => job'[d] = "failed"
    BY <1>1, <1>10, OnlyQueueEffect
  <2>4. \A d \in Completes :
           job[d] \in {"queued", "running"} /\ at[d] # "return" =>
              \/ job'[d] \in {"queued", "running"} /\ at'[d] # "return"
              \/ job'[d] = "failed"
    BY <1>1, <1>10, OnlyQueueEffect DEF CompleteFits
  <2>5. \A i \in Imports : /\ Unasked(i) => Unasked(i)'
                           /\ Asking(i) => Asking(i)' \/ Unasked(i)'
    BY <2>1, <2>2, <2>3, <2>4 DEF Unasked, Asking
  <2>6. QED
    BY <1>4, <1>5, <2>1, <2>2, <2>5 DEF answers
<1>11. ASSUME NEW p \in Pulls, PullStep(p)
       PROVE  /\ \A i \in Imports : Due(i)' => Due(i)
              /\ AnswerDue' => AnswerDue /\ answer' = answer
  <2>1. UNCHANGED <<answers, job, at, complete, answering>>
    BY <1>11 DEF PullStep, PullCreates, PullWrites, PullParsed, PullEnqueues, queue
  <2>2. \A c \in Completes : ImportOf(c)' = ImportOf(c)
    BY <2>1 DEF ImportOf
  <2>3. CASE PullEnqueues(p)
    BY <1>3, <2>3 DEF PullEnqueues, AskForBuild
  <2>4. CASE ~PullEnqueues(p)
    <3>1. builds' = builds /\ pull[p].at \in {"ready", "document", "parsed"}
      BY <1>11, <2>4 DEF PullStep, PullCreates, PullWrites, PullParsed
    <3>2. \A q \in Pulls : q # p => pull'[q] = pull[q]
      BY <1>1, <1>11 DEF PullStep, PullCreates, PullWrites, PullParsed, PullEnqueues, PullMoves,
             TypeOK
    <3>3. \A i \in Imports : /\ Unasked(i) => Unasked(i)'
                             /\ Asking(i) => Asking(i)'
      BY <2>1, <2>2, <3>1, <3>2 DEF Unasked, Asking
    <3>4. \A i \in Imports : Parsed(i)' => Parsed(i) \/ Asking(i)'
      <4>1. CASE PullCreates(p)
        BY <1>1, <4>1 DEF PullCreates, SetStatus, Parsed, TypeOK
      <4>2. CASE PullWrites(p)
        BY <1>1, <4>2 DEF PullWrites, Parsed, RowsFit
      <4>3. CASE PullParsed(p)
        <5>1. \A i \in Imports : i # pull[p].import => status'[i] = status[i]
          BY <1>1, <4>3 DEF PullParsed, SetStatus, TypeOK
        <5>2. pull'[p].at = "enqueue" /\ pull'[p].import = pull[p].import
          BY <1>1, <4>3 DEF PullParsed, PullMoves, TypeOK
        <5>3. QED
          BY <4>3, <5>1, <5>2 DEF PullParsed, Parsed, Asking
      <4>4. QED
        BY <1>11, <2>4, <4>1, <4>2, <4>3 DEF PullStep
    <3>5. QED
      BY <1>4, <1>5, <2>1, <3>1, <3>3, <3>4 DEF answers
  <2>5. QED
    BY <2>3, <2>4
<1>12. ASSUME NEW a \in Answers, AnswerStep(a)
       PROVE  /\ \A i \in Imports : Due(i)' => Due(i)
              /\ AnswerDue' => AnswerDue /\ answer' = answer
  <2>1. UNCHANGED <<uploads, queue, at, complete, pull>>
    BY <1>12 DEF AnswerStep, AnswerSetsQuota, AnswerSkips, AnswerRecorded, AnswerEnqueues
  <2>2. \A i \in Imports : Parsed(i)' = Parsed(i) /\ Unasked(i)' = Unasked(i)
                           /\ Asking(i)' = Asking(i)
    BY <2>1 DEF uploads, queue, Parsed, Unasked, Asking, ImportOf
  <2>3. CASE AnswerSetsQuota(a)
    <3>1. builds' = builds /\ answer' = answer
      BY <2>3 DEF AnswerSetsQuota
    <3>2. \A o \in Answers : answering[o].at \in {"enqueue", "gone"} => answering'[o] = answering[o]
      BY <1>1, <2>3 DEF AnswerSetsQuota, TypeOK
    <3>3. AnswerDue' => AnswerDue
      BY <3>1, <3>2 DEF AnswerDue
    <3>4. QED
      BY <1>5, <2>2, <3>1, <3>3
  <2>4. CASE AnswerSkips(a)
    <3>1. builds' = builds /\ answer' = "skipped"
      BY <2>4 DEF AnswerSkips
    <3>2. ~AnswerDue'
      BY <1>2, <3>1 DEF AnswerDue
    <3>3. QED
      BY <1>5, <2>2, <3>1, <3>2
  <2>5. CASE AnswerRecorded(a)
    <3>1. builds' = builds /\ answering'[a].at = "enqueue"
      BY <1>1, <2>5 DEF AnswerRecorded, AnswerMoves, TypeOK
    <3>2. ~AnswerDue'
      BY <3>1 DEF AnswerDue
    <3>3. QED
      BY <1>5, <2>2, <3>1, <3>2
  <2>6. CASE AnswerEnqueues(a)
    BY <1>3, <2>6 DEF AnswerEnqueues, AskForBuild
  <2>7. QED
    BY <1>12, <2>3, <2>4, <2>5, <2>6 DEF AnswerStep
<1>13. CASE UNCHANGED vars
  BY <1>13 DEF vars, uploads, answers, queue, clients, Due, AnswerDue, Parsed, Unasked, Asking,
         ImportOf
<1>14. UNCHANGED read
  <2>1. \A c \in Completes : Handles(c) \/ OnlyQueue(c) => UNCHANGED read
    BY <1>1, HandlerEffect, OnlyQueueEffect
  <2>2. UNCHANGED vars => UNCHANGED read
    BY DEF vars
  <2>3. QED
    BY <2>1, <2>2, ClientsFrame, NextCases
<1>15. QED
  BY <1>6, <1>7, <1>8, <1>9, <1>10, <1>11, <1>12, <1>13, <1>14, NextCases

\* What is due was due before the step of a build, unless it asks for another.
LEMMA BuildersDue ==
  ASSUME TypeOK, NEW b \in Builders, BuilderStep(b), builds' <= builds
  PROVE  /\ \A i \in Imports : Parsed(i)' = Parsed(i) /\ Unasked(i)' = Unasked(i)
                               /\ Asking(i)' = Asking(i)
         /\ answer' = answer /\ answering' = answering
         /\ builds' = builds => /\ \A i \in Imports : Due(i)' = Due(i)
                                /\ AnswerDue' = AnswerDue
<1>1. UNCHANGED <<uploads, answers, queue, at, clients>>
  BY BuilderEffect
<1>2. \A i \in Imports : Parsed(i)' = Parsed(i) /\ Unasked(i)' = Unasked(i)
                         /\ Asking(i)' = Asking(i)
  BY <1>1 DEF uploads, queue, clients, Parsed, Unasked, Asking, ImportOf
<1>3. answer' = answer /\ answering' = answering
  BY <1>1 DEF answers, clients
<1>4. QED
  BY <1>2, <1>3 DEF Due, AnswerDue

\* What each step of a build leaves in the handlers.
LEMMA LoadedBuild ==
  ASSUME TypeOK, NEW b \in Builders, NEW seen,
         Builds(b, "answers", [imports |-> seen, answer |-> None], FALSE)
  PROVE  builder'[b].at = "answers" /\ builder'[b].read.imports = seen
  BY DEF TypeOK, Builds

LEMMA ReadBuild ==
  ASSUME TypeOK, NEW b \in Builders, NEW said, builder[b].at = "answers",
         Builds(b, "upsert", [imports |-> builder[b].read.imports, answer |-> said],
                builder[b].stale)
  PROVE  /\ builder'[b].at = "upsert" /\ builder'[b].read.answer = said
         /\ \A o \in Builders : /\ Running(o)' = Running(o)
                                /\ builder'[o].stale = builder[o].stale
                                /\ builder'[o].read.imports = builder[o].read.imports
                                /\ o # b => builder'[o] = builder[o]
  BY DEF TypeOK, Builds, Running

LEMMA WrittenBuild ==
  ASSUME TypeOK, NEW b \in Builders, BuildUpserts(b)
  PROVE  /\ NoFreshBuild'
         /\ profile' = builder[b].read /\ overtaken' = builder[b].stale
         /\ \A o \in Builders : o # b => /\ builder'[o].at = builder[o].at
                                         /\ builder'[o].read = builder[o].read
  BY DEF BuildUpserts, NoFreshBuild, Running, BuilderIdle

\* Every build that is asked for reads what is due, and a build that is overtaken
\* leaves its mark.
LEMMA ImportsKept ==
  ASSUME IntakeInv, [Next]_vars
  PROVE  ImportsAreRead'
<1>1. TypeOK /\ RowsFit /\ ImportsAreRead
  BY DEF IntakeInv
<1>2. MaxImports \in Nat /\ imports \in Nat /\ builds \in Nat
  BY <1>1, IntakeConstants DEF TypeOK
<1>3. CASE ~\E b \in Builders : BuilderStep(b)
  <2>1. UNCHANGED read /\ \A i \in Imports : Due(i)' => Due(i)
    BY <1>3, DueKept
  <2>2. UNCHANGED <<profile, overtaken>> /\ NoFreshBuild' = NoFreshBuild
        /\ \A b \in Builders, i \in Imports : Knows(b, i)' = Knows(b, i)
    BY <2>1 DEF read, NoFreshBuild, Knows, Running
  <2>3. QED
    BY <1>1, <2>1, <2>2 DEF ImportsAreRead
<1>4. ASSUME NEW b \in Builders, BuilderStep(b) PROVE ImportsAreRead'
  <2> SUFFICES ASSUME NEW i \in Imports, Due(i)'
               PROVE  \/ \E o \in Builders : Knows(o, i)'
                      \/ NoFreshBuild' /\ (overtaken' \/ i \in profile'.imports)
    BY DEF ImportsAreRead
  <2>1. builds' = 0 /\ builds' <= builds
    BY <1>2 DEF Due
  <2>2. Parsed(i) /\ (builds' = builds => Due(i))
    BY <1>1, <1>4, <2>1, BuildersDue DEF Due
  <2>3. CASE Builds(b, "answers", [imports |-> load_uploads, answer |-> None], FALSE)
    <3>1. i \in load_uploads
      BY <1>1, <1>2, <2>2 DEF load_uploads, RowsFit, Imports, Parsed
    <3>2. Knows(b, i)'
      BY <1>1, <2>3, <3>1, LoadedBuild DEF Knows, Running
    <3>3. QED
      BY <3>2
  <2>4. ASSUME NEW said, builder[b].at = "answers", UNCHANGED <<profile, overtaken, builds>>,
               Builds(b, "upsert", [imports |-> builder[b].read.imports, answer |-> said],
                      builder[b].stale)
        PROVE  \/ \E o \in Builders : Knows(o, i)'
               \/ NoFreshBuild' /\ (overtaken' \/ i \in profile'.imports)
    <3>1. \A o \in Builders : /\ Running(o)' = Running(o)
                              /\ builder'[o].stale = builder[o].stale
                              /\ builder'[o].read.imports = builder[o].read.imports
      BY <1>1, <2>4, ReadBuild
    <3>2. NoFreshBuild' = NoFreshBuild /\ \A o \in Builders : Knows(o, i)' = Knows(o, i)
      BY <3>1 DEF NoFreshBuild, Knows
    <3>3. QED
      BY <1>1, <2>2, <2>4, <3>2 DEF ImportsAreRead
  <2>5. CASE BuildUpserts(b)
    <3>1. Due(i) /\ builder[b].at = "upsert"
      BY <2>2, <2>5 DEF BuildUpserts
    <3>2. CASE \E o \in Builders : o # b /\ Knows(o, i)
      BY <1>1, <2>5, <3>2, WrittenBuild DEF Knows, Running
    <3>3. CASE Knows(b, i)
      BY <1>1, <2>5, <3>3, WrittenBuild DEF Knows
    <3>4. CASE NoFreshBuild
      BY <1>1, <2>5, <3>1, <3>4, WrittenBuild DEF NoFreshBuild, Running
    <3>5. QED
      BY <1>1, <3>1, <3>2, <3>3, <3>4 DEF ImportsAreRead
  <2>6. CASE builds' = builds + 1
    BY <1>2, <2>1, <2>6
  <2>7. QED
    BY <1>1, <1>4, <2>3, <2>4, <2>5, <2>6, BuilderEffect
<1>5. QED
  BY <1>3, <1>4

LEMMA AnswerKept ==
  ASSUME IntakeInv, [Next]_vars
  PROVE  AnswerIsRead'
<1>1. TypeOK /\ AnswerIsRead
  BY DEF IntakeInv
<1>2. builds \in Nat
  BY <1>1 DEF TypeOK
<1>3. CASE ~\E b \in Builders : BuilderStep(b)
  <2>1. UNCHANGED read /\ (AnswerDue' => AnswerDue /\ answer' = answer)
    BY <1>3, DueKept
  <2>2. UNCHANGED <<profile, overtaken>> /\ NoFreshBuild' = NoFreshBuild
        /\ (answer' = answer => \A b \in Builders : KnowsAnswer(b)' = KnowsAnswer(b))
    BY <2>1 DEF read, NoFreshBuild, KnowsAnswer, Running
  <2>3. QED
    BY <1>1, <2>1, <2>2 DEF AnswerIsRead
<1>4. ASSUME NEW b \in Builders, BuilderStep(b) PROVE AnswerIsRead'
  <2> SUFFICES ASSUME AnswerDue'
               PROVE  \/ \E o \in Builders : KnowsAnswer(o)'
                      \/ NoFreshBuild' /\ (\/ overtaken' \/ profile'.imports = {}
                                           \/ profile'.answer = answer')
    BY DEF AnswerIsRead
  <2>1. builds' = 0 /\ builds' <= builds
    BY <1>2 DEF AnswerDue
  <2>2. answer' = answer /\ answer \in Areas /\ (builds' = builds => AnswerDue)
    BY <1>1, <1>4, <2>1, BuildersDue DEF AnswerDue
  <2>3. CASE Builds(b, "answers", [imports |-> load_uploads, answer |-> None], FALSE)
    <3>1. KnowsAnswer(b)'
      BY <1>1, <2>3, LoadedBuild DEF KnowsAnswer
    <3>2. QED
      BY <3>1
  <2>4. ASSUME NEW said, builder[b].at = "answers", UNCHANGED <<profile, overtaken, builds>>,
               builder[b].read.imports = {} \/ answer \notin Areas \/ said = answer,
               Builds(b, "upsert", [imports |-> builder[b].read.imports, answer |-> said],
                      builder[b].stale)
        PROVE  \E o \in Builders : KnowsAnswer(o)'
    <3>1. KnowsAnswer(b)'
      BY <1>1, <2>2, <2>4, ReadBuild DEF KnowsAnswer
    <3>2. QED
      BY <3>1
  <2>5. CASE BuildUpserts(b)
    <3>1. AnswerDue /\ builder[b].at = "upsert"
      BY <2>2, <2>5 DEF BuildUpserts
    <3>2. CASE \E o \in Builders : o # b /\ KnowsAnswer(o)
      BY <1>1, <2>2, <2>5, <3>2, WrittenBuild DEF KnowsAnswer
    <3>3. CASE KnowsAnswer(b)
      BY <1>1, <2>2, <2>5, <3>1, <3>3, WrittenBuild DEF KnowsAnswer
    <3>4. CASE NoFreshBuild
      BY <1>1, <2>5, <3>1, <3>4, WrittenBuild DEF NoFreshBuild, Running
    <3>5. QED
      BY <1>1, <3>1, <3>2, <3>3, <3>4 DEF AnswerIsRead
  <2>6. CASE builds' = builds + 1
    BY <1>2, <2>1, <2>6
  <2>7. QED
    BY <1>1, <1>4, <2>3, <2>4, <2>5, <2>6, BuilderEffect
<1>5. QED
  BY <1>3, <1>4

-----------------------------------------------------------------------------
\* Rows, requests and jobs fit each other, and whatever came in was read by a build,
\* or one will read it (IntakeInv: CompleteImport, ImportGoogleCalendar,
\* AnswerQuestion, ParseImport and BuildProfile together).
THEOREM IntakeInvariant == Spec => []IntakeInv
<1>1. Init => IntakeInv
  BY InitInv
<1>2. IntakeInv /\ [Next]_vars => IntakeInv'
  <2> SUFFICES ASSUME IntakeInv, [Next]_vars PROVE IntakeInv'
    OBVIOUS
  <2>1. \A c \in Completes : CompleteFits(c)'
    BY CompletesKept
  <2>2. \A p \in Pulls : PullFits(p)'
    BY PullsKept
  <2>3. QED
    BY TypesKept, RowsKept, <2>1, <2>2, ImportsKept, AnswerKept DEF IntakeInv
<1>3. QED
  BY <1>1, <1>2, PTL DEF Spec

\* When nothing is under way, the Profile has read every parsed import and the
\* answer in force, unless a call or a job died before it asked for the build, or a
\* build was overtaken by a later one (BuildProfile).
THEOREM TheProfileIsCurrent == Spec => []ProfileIsCurrent
<1>1. IntakeInv => ProfileIsCurrent
  <2> SUFFICES ASSUME IntakeInv, Quiet, ~overtaken
               PROVE  /\ \A i \in 1..imports : Parsed(i) /\ ~Unasked(i) => i \in profile.imports
                      /\ profile.imports # {} /\ answer \in Areas
                         /\ (\A a \in Answers : answering[a].at # "gone") =>
                         profile.answer = answer
    BY DEF ProfileIsCurrent
  <2>1. MaxImports \in Nat /\ imports \in Nat /\ imports <= MaxImports
    BY IntakeConstants DEF IntakeInv, TypeOK
  <2>2. /\ builds = 0 /\ \A b \in Builders : ~Running(b)
        /\ \A i \in Imports : ~Asking(i)
    BY DEF Quiet, Running, Asking
  <2>3. \A b \in Builders : ~KnowsAnswer(b) /\ \A i \in Imports : ~Knows(b, i)
    BY <2>2 DEF Running, Knows, KnowsAnswer
  <2>4. \A i \in Imports : Parsed(i) /\ ~Unasked(i) => i \in profile.imports
    BY <2>2, <2>3 DEF IntakeInv, ImportsAreRead, Due
  <2>5. answer \in Areas /\ (\A a \in Answers : answering[a].at # "gone") => AnswerDue
    BY <2>2 DEF Quiet, AnswerDue
  <2>6. AnswerDue => profile.imports = {} \/ profile.answer = answer
    BY <2>3 DEF IntakeInv, AnswerIsRead
  <2>7. QED
    BY <2>1, <2>4, <2>5, <2>6 DEF Imports
<1>2. QED
  BY <1>1, IntakeInvariant, PTL

\* An upload that was parsed is marked otherwise only after a second complete call
\* for it or a second delivery of its job (CompleteImport; ParseImport's except).
THEOREM LostByParsingAgain == Spec => LostOnlyByParsingAgain
<1> DEFINE Lost ==
      \A i \in Imports : status[i] = "parsed" /\ status'[i] # "parsed" =>
         \/ \E c \in Completes : ImportOf(c) = i /\ tries[c] > 1
         \/ \E c, d \in Completes : c # d /\ ImportOf(c) = i /\ ImportOf(d) = i
<1>1. IntakeInv /\ [Next]_vars => Lost
  <2> SUFFICES ASSUME IntakeInv, [Next]_vars,
                      NEW i \in Imports, status[i] = "parsed", status'[i] # "parsed"
               PROVE  \/ \E c \in Completes : ImportOf(c) = i /\ tries[c] > 1
                      \/ \E c, d \in Completes : c # d /\ ImportOf(c) = i /\ ImportOf(d) = i
    OBVIOUS
  <2>1. /\ TypeOK /\ RowsFit
        /\ \A c \in Completes : CompleteFits(c)
        /\ \A p \in Pulls : PullFits(p)
    BY DEF IntakeInv
  <2>2. MaxImports \in Nat /\ imports \in Nat /\ i <= imports
        /\ \A c \in Completes : tries[c] \in Nat
    BY <2>1, IntakeConstants, QueueConstants DEF TypeOK, QueueTypeOK, RowsFit
  <2>3. ASSUME NEW c \in Completes, ImportOf(c) = i, ~Finished(c), complete[c].at # "ready"
        PROVE  \E d \in Completes : c # d /\ ImportOf(d) = i
    BY <2>1, <2>3 DEF RowsFit, CompleteFits
  <2>4. ASSUME NEW c \in Completes, CompleteStep(c)
        PROVE  /\ ImportOf(c) = i /\ ~Finished(c) /\ complete[c].at # "ready"
    BY <2>1, <2>2, <2>4 DEF CompleteStep, CompleteChecks, CompleteQueues, CompleteEnqueues,
           SetStatus, uploads, TypeOK, CompleteFits, Finished, ImportOf
  <2>5. ASSUME NEW c \in Completes, Handles(c)
        PROVE  /\ ImportOf(c) = i /\ complete[c].at # "ready"
               /\ Finished(c) => tries[c] > 1
    <3>1. SetStatus(ImportOf(c), "failed") /\ at[c] = "fail"
      BY <2>1, <2>5, HandlerEffect DEF SetStatus, TypeOK, uploads
    <3>2. ImportOf(c) = i
      BY <2>1, <3>1 DEF SetStatus, TypeOK
    <3>3. complete[c].at # "ready"
      BY <2>1, <3>1 DEF CompleteFits
    <3>4. Finished(c) => tries[c] > 1
      BY <3>1 DEF Finished
    <3>5. QED
      BY <3>2, <3>3, <3>4
  <2>6. ASSUME NEW p \in Pulls, PullStep(p) PROVE FALSE
    BY <2>1, <2>2, <2>6 DEF PullStep, PullCreates, PullWrites, PullParsed, PullEnqueues, SetStatus,
           uploads, TypeOK
  <2>7. CASE Presign
    BY <2>1, <2>2, <2>7 DEF Presign, SetStatus, TypeOK
  <2>8. CASE \/ ClientDies
             \/ \E c \in Completes : OnlyQueue(c)
             \/ \E a \in Answers : AnswerStep(a)
             \/ \E b \in Builders : BuilderStep(b)
             \/ UNCHANGED vars
    BY <2>1, <2>8, BuilderEffect, OnlyQueueEffect
       DEF ClientDies, AnswerStep, AnswerSetsQuota, AnswerSkips, AnswerRecorded, AnswerEnqueues,
           vars, uploads
  <2>9. QED
    BY <2>3, <2>4, <2>5, <2>6, <2>7, <2>8, NextCases
<1>2. QED
  BY <1>1, IntakeInvariant, PTL DEF Spec, LostOnlyByParsingAgain
=============================================================================
