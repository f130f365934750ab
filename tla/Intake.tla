------------------------------- MODULE Intake -------------------------------
(***************************************************************************)
(* What one user brings in, and the one Profile that is read from it.      *)
(*                                                                         *)
(* An upload is presigned, put into the storage and completed by the       *)
(* client; the `import.parse` job (ParseImport) turns it into a document.  *)
(* A pull from Google Calendar writes its document at once.  An answer to  *)
(* one of the three questions is personal data too.  Each of them asks for *)
(* a `profile.build` job (BuildProfile), which reads everything again and  *)
(* revises the Profile in place.  Every repository call is a transaction   *)
(* of its own, and the worker runs several jobs at a time.                 *)
(*                                                                         *)
(* Imports are numbered in the order of their rows, oldest first: a list of *)
(* them is a set.  A complete call and the parse job it enqueues have one  *)
(* name.  Build jobs carry nothing but  *)
(* the user: they are counted, and a build whose worker stops is queued    *)
(* again.  Of the questions only q3 is here, the one with a quota to set.  *)
(* Left out: what documents and signals say (Measuring has the arithmetic), *)
(* refused requests, which change nothing (an upload that is not there yet *)
(* among them), and expired upload URLs.                                   *)
(***************************************************************************)
EXTENDS JobQueue

CONSTANTS
    MaxImports,     \* bound: imports ever created
    Completes,      \* POST /v1/imports/{import_id}/complete calls
    Pulls,          \* POST /v1/imports/google-calendar calls
    Answers,        \* PUT /v1/questions/q3 calls
    Areas,          \* what may be let go first
    Builders        \* profile.build jobs the worker runs at a time

Imports == 1..MaxImports

ASSUME IntakeConstants == MaxImports \in Nat /\ Areas \cap {"none", "skipped"} = {}

VARIABLES
    imports,        \* number of imports rows
    status,         \* status[i]: imports.status
    documents,      \* imports that have a documents row
    answer,         \* the question_answers row for q3: an area, or skipped
    quota,          \* quotas.drop_first
    profile,        \* the profiles row: what its build had read
    builds,         \* profile.build jobs in the queue
    complete,       \* [at, import] of each complete call
    pull,           \* [at, import] of each pull
    answering,      \* [at, text] of each answering call
    builder,        \* [at, read, stale] of each running build
    overtaken       \* history: the profile was written by a build another overtook

uploads == <<imports, status, documents>>
answers == <<answer, quota>>
clients == <<complete, pull, answering>>
read    == <<profile, builder, overtaken>>
vars    == <<uploads, answers, read, builds, queue, at, clients>>

None == "none"
CallReady == [at |-> "ready", import |-> 0]
NoRead == [imports |-> {}, answer |-> None]
BuilderIdle == [at |-> "idle", read |-> NoRead, stale |-> FALSE]

Init ==
    /\ imports = 0
    /\ status = [i \in Imports |-> "absent"]
    /\ documents = {}
    /\ answer = None
    /\ quota = None
    /\ profile = NoRead
    /\ builds = 0
    /\ QueueInit(Completes)
    /\ complete = [c \in Completes |-> CallReady]
    /\ pull = [p \in Pulls |-> CallReady]
    /\ answering = [a \in Answers |-> [at |-> "ready", text |-> None]]
    /\ builder = [b \in Builders |-> BuilderIdle]
    /\ overtaken = FALSE

SetStatus(i, s) == status' = [status EXCEPT ![i] = s]
AskForBuild == builds' = builds + 1

-----------------------------------------------------------------------------
(***************************************************************************)
(* PresignImport, and the client's PUT to the presigned URL.               *)
(***************************************************************************)
Presign ==
    /\ imports < MaxImports
    /\ imports' = imports + 1
    /\ SetStatus(imports + 1, "pending")
    /\ UNCHANGED <<documents, answers, read, builds, queue, at, clients>>

-----------------------------------------------------------------------------
(***************************************************************************)
(* CompleteImport: the object is there, whatever the row's status; mark    *)
(* the row as queued, enqueue the parse.                                   *)
(***************************************************************************)
Pulled(i) == \E p \in Pulls : pull[p].import = i

CompleteMoves(c, step, i) == complete' = [complete EXCEPT ![c] = [at |-> step, import |-> i]]

CompleteChecks(c) ==
    /\ complete[c].at = "ready"
    /\ \E i \in 1..imports : ~Pulled(i) /\ CompleteMoves(c, "queue", i)
    /\ UNCHANGED <<uploads, answers, read, builds, queue, at, pull, answering>>

CompleteQueues(c) ==
    /\ complete[c].at = "queue"
    /\ SetStatus(complete[c].import, "queued")
    /\ CompleteMoves(c, "enqueue", complete[c].import)
    /\ UNCHANGED <<imports, documents, answers, read, builds, queue, at, pull,
                   answering>>

CompleteEnqueues(c) ==
    /\ complete[c].at = "enqueue"
    /\ Enqueue(c)
    /\ CompleteMoves(c, "over", complete[c].import)
    /\ UNCHANGED <<uploads, answers, read, builds, pull, answering>>

-----------------------------------------------------------------------------
(***************************************************************************)
(* ImportGoogleCalendar: once the events are there, the row, its document, *)
(* its status and the build, one after the other.                          *)
(***************************************************************************)
PullMoves(p, step, i) == pull' = [pull EXCEPT ![p] = [at |-> step, import |-> i]]

PullCreates(p) ==
    /\ pull[p].at = "ready"
    /\ imports < MaxImports
    /\ imports' = imports + 1
    /\ SetStatus(imports + 1, "pending")
    /\ PullMoves(p, "document", imports + 1)
    /\ UNCHANGED <<documents, answers, read, builds, queue, at, complete, answering>>

PullWrites(p) ==
    /\ pull[p].at = "document"
    /\ documents' = documents \cup {pull[p].import}
    /\ PullMoves(p, "parsed", pull[p].import)
    /\ UNCHANGED <<imports, status, answers, read, builds, queue, at, complete,
                   answering>>

PullParsed(p) ==
    /\ pull[p].at = "parsed"
    /\ SetStatus(pull[p].import, "parsed")
    /\ PullMoves(p, "enqueue", pull[p].import)
    /\ UNCHANGED <<imports, documents, answers, read, builds, queue, at, complete,
                   answering>>

PullEnqueues(p) ==
    /\ pull[p].at = "enqueue"
    /\ AskForBuild
    /\ PullMoves(p, "over", pull[p].import)
    /\ UNCHANGED <<uploads, answers, read, queue, at, complete, answering>>

-----------------------------------------------------------------------------
(***************************************************************************)
(* AnswerQuestion: q3 sets the quota, then the answer is recorded, and an  *)
(* answer that is not a skip asks for a build.                             *)
(***************************************************************************)
AnswerMoves(a, step) ==
    answering' = [answering EXCEPT ![a] = [at |-> step, text |-> answering[a].text]]

AnswerSetsQuota(a) ==
    /\ answering[a].at = "ready"
    /\ \E area \in Areas :
          /\ quota' = area
          /\ answering' = [answering EXCEPT ![a] = [at |-> "answer", text |-> area]]
    /\ UNCHANGED <<uploads, answer, read, builds, queue, at, complete, pull>>

AnswerSkips(a) ==
    /\ answering[a].at = "ready"
    /\ answering' = [answering EXCEPT ![a] = [at |-> "over", text |-> "skipped"]]
    /\ answer' = "skipped"
    /\ UNCHANGED <<uploads, quota, read, builds, queue, at, complete, pull>>

AnswerRecorded(a) ==
    /\ answering[a].at = "answer"
    /\ answer' = answering[a].text
    /\ AnswerMoves(a, "enqueue")
    /\ UNCHANGED <<uploads, quota, read, builds, queue, at, complete, pull>>

AnswerEnqueues(a) ==
    /\ answering[a].at = "enqueue"
    /\ AskForBuild
    /\ AnswerMoves(a, "over")
    /\ UNCHANGED <<uploads, answers, read, queue, at, complete, pull>>

\* The API process stops, or a call fails, between two steps of a request.
ClientDies ==
    /\ "lost_enqueue" \in Faults
    /\ \/ \E c \in Completes :
             /\ complete[c].at \in {"queue", "enqueue"}
             /\ CompleteMoves(c, "gone", complete[c].import)
             /\ UNCHANGED <<pull, answering>>
       \/ \E p \in Pulls :
             /\ pull[p].at \in {"document", "parsed", "enqueue"}
             /\ PullMoves(p, "gone", pull[p].import)
             /\ UNCHANGED <<complete, answering>>
       \/ \E a \in Answers :
             /\ answering[a].at \in {"answer", "enqueue"}
             /\ AnswerMoves(a, "gone")
             /\ UNCHANGED <<complete, pull>>
    /\ UNCHANGED <<uploads, answers, read, builds, queue, at>>

-----------------------------------------------------------------------------
(***************************************************************************)
(* ParseImport: the handler of `import.parse`.  Whatever goes wrong before *)
(* the document is there marks the import as failed.                       *)
(***************************************************************************)
ImportOf(c) == complete[c].import

ParseLoads(c) ==
    /\ at[c] = "load"
    /\ Goto(c, "create")
    /\ UNCHANGED <<uploads, answers, read, builds, queue, clients>>

\* documents.import_id is unique.
ParseCreates(c) ==
    /\ at[c] = "create"
    /\ IF ImportOf(c) \in documents
       THEN Goto(c, "fail") /\ UNCHANGED documents
       ELSE Goto(c, "parsed") /\ documents' = documents \cup {ImportOf(c)}
    /\ UNCHANGED <<imports, status, answers, read, builds, queue, clients>>

ParseDone(c) ==
    /\ at[c] = "parsed"
    /\ SetStatus(ImportOf(c), "parsed")
    /\ Goto(c, "enqueue")
    /\ UNCHANGED <<imports, documents, answers, read, builds, queue, clients>>

\* Mutant: a parsed upload asks for no build.
ParseEndsQuietly(c) ==
    /\ at[c] = "enqueue"
    /\ Goto(c, "return")
    /\ UNCHANGED <<uploads, answers, read, builds, queue, clients>>

ParseEnqueues(c) ==
    /\ at[c] = "enqueue"
    /\ AskForBuild
    /\ Goto(c, "return")
    /\ UNCHANGED <<uploads, answers, read, queue, clients>>

ParseFails(c) ==
    /\ at[c] = "fail"
    /\ SetStatus(ImportOf(c), "failed")
    /\ Goto(c, "return")
    /\ UNCHANGED <<imports, documents, answers, read, builds, queue, clients>>

\* Mutant: the try block goes on to the enqueue.
TriesItAll(c) ==
    /\ at[c] \in {"load", "create", "parsed", "enqueue"}
    /\ Goto(c, "fail")
    /\ UNCHANGED <<uploads, answers, read, builds, queue, clients>>

\* Inside the try block the file cannot be read or a call raises; or one of the
\* three calls outside it does.
ParseBreaks(c) ==
    /\ \/ /\ "raise" \in Faults
          /\ at[c] \in {"load", "create"}
          /\ Goto(c, "fail")
       \/ /\ "raise_unhandled" \in Faults
          /\ at[c] \in {"parsed", "enqueue", "fail"}
          /\ Goto(c, "raise")
    /\ UNCHANGED <<uploads, answers, read, builds, queue, clients>>

-----------------------------------------------------------------------------
(***************************************************************************)
(* BuildProfile: the handler of `profile.build`.                           *)
(***************************************************************************)
\* load_uploads: the parsed imports that have a document, oldest first.
Parsed(i) == status[i] = "parsed" /\ i \in documents
load_uploads == {i \in 1..imports : Parsed(i)}

Builds(b, step, seen, stale) ==
    builder' = [builder EXCEPT ![b] = [at |-> step, read |-> seen, stale |-> stale]]

BuildLoads(b) ==
    /\ builder[b].at = "idle"
    /\ builds > 0
    /\ builds' = builds - 1
    /\ Builds(b, "answers", [imports |-> load_uploads, answer |-> None], FALSE)
    /\ UNCHANGED <<uploads, answers, profile, overtaken, queue, at, clients>>

\* With nothing to read, nobody reads the answers.
BuildReads(b) ==
    /\ builder[b].at = "answers"
    /\ LET seen == builder[b].read.imports IN
       Builds(b, "upsert",
              [imports |-> seen,
               answer |-> IF seen # {} /\ answer \in Areas THEN answer ELSE None],
              builder[b].stale)
    /\ UNCHANGED <<uploads, answers, profile, overtaken, builds, queue, at, clients>>

BuildUpserts(b) ==
    /\ builder[b].at = "upsert"
    /\ profile' = builder[b].read
    /\ overtaken' = builder[b].stale
    /\ builder' = [o \in Builders |->
            IF o = b THEN BuilderIdle
            ELSE [at |-> builder[o].at, read |-> builder[o].read,
                  stale |-> builder[o].at # "idle"]]
    /\ UNCHANGED <<uploads, answers, builds, queue, at, clients>>

BuildCrashes(b) ==
    /\ "crash" \in Faults
    /\ builder[b].at # "idle"
    /\ builds' = builds + 1
    /\ builder' = [builder EXCEPT ![b] = BuilderIdle]
    /\ UNCHANGED <<uploads, answers, profile, overtaken, queue, at, clients>>

-----------------------------------------------------------------------------
Outside == <<uploads, answers, read, builds, clients>>

Deliver(c)        == Delivered(c) /\ UNCHANGED Outside
TriesExhausted(c) == GivenUp(c) /\ UNCHANGED Outside
JobReturns(c)     == Returned(c) /\ UNCHANGED Outside
JobRaises(c)      == Raised(c) /\ UNCHANGED Outside
JobTimesOut(c)    == TimedOut(c) /\ UNCHANGED Outside
WorkerCrashes(c)  == Stopped(c) /\ UNCHANGED Outside

CompleteStep(c) == CompleteChecks(c) \/ CompleteQueues(c) \/ CompleteEnqueues(c)
PullStep(p) == PullCreates(p) \/ PullWrites(p) \/ PullParsed(p) \/ PullEnqueues(p)
AnswerStep(a) == AnswerSetsQuota(a) \/ AnswerSkips(a) \/ AnswerRecorded(a) \/ AnswerEnqueues(a)
BuildStep(b) == BuildLoads(b) \/ BuildReads(b) \/ BuildUpserts(b)
ParseStep(c) ==
    \/ ParseLoads(c) \/ ParseCreates(c) \/ ParseDone(c) \/ ParseEnqueues(c) \/ ParseFails(c)
    \/ Deliver(c) \/ TriesExhausted(c) \/ JobReturns(c) \/ JobRaises(c)

Next ==
    \/ Presign \/ ClientDies
    \/ \E c \in Completes :
          CompleteStep(c) \/ ParseStep(c) \/ ParseBreaks(c) \/ JobTimesOut(c) \/ WorkerCrashes(c)
    \/ \E p \in Pulls : PullStep(p)
    \/ \E a \in Answers : AnswerStep(a)
    \/ \E b \in Builders : BuildStep(b) \/ BuildCrashes(b)

Spec == Init /\ [][Next]_vars

-----------------------------------------------------------------------------
(***************************************************************************)
(* Properties.                                                             *)
(***************************************************************************)
ParseSteps == {"idle", "load", "create", "parsed", "enqueue", "fail", "return", "raise"}
Reads == [imports : SUBSET Imports, answer : Areas \cup {None}]
CallSteps == {"ready", "queue", "document", "parsed", "enqueue", "over", "gone"}
Call == [at : CallSteps, import : 0..MaxImports]
Answering ==
    [at : {"ready", "answer", "enqueue", "over", "gone"}, text : Areas \cup {None, "skipped"}]
Building == [at : {"idle", "answers", "upsert"}, read : Reads, stale : BOOLEAN]

\* The rows, the requests and the handlers are of these shapes.
TypeOK ==
    /\ imports \in 0..MaxImports
    /\ status \in [Imports -> {"absent", "pending", "queued", "parsed", "failed"}]
    /\ documents \subseteq Imports
    /\ answer \in Areas \cup {None, "skipped"} /\ quota \in Areas \cup {None}
    /\ profile \in Reads
    /\ builds \in Nat
    /\ QueueTypeOK(Completes, ParseSteps)
    /\ complete \in [Completes -> Call]
    /\ pull \in [Pulls -> Call]
    /\ answering \in [Answers -> Answering]
    /\ builder \in [Builders -> Building]
    /\ overtaken \in BOOLEAN

\* An upload that was parsed stops being so only if its client called complete
\* again, or if its job was delivered again: the row is queued once more, but the
\* document is there already and writing it a second time fails (CompleteImport;
\* ParseImport's except; the unique documents.import_id).
LostOnlyByParsingAgain ==
    [][\A i \in Imports :
          status[i] = "parsed" /\ status'[i] # "parsed" =>
              \/ \E c \in Completes : ImportOf(c) = i /\ tries[c] > 1
              \/ \E c, d \in Completes : c # d /\ ImportOf(c) = i /\ ImportOf(d) = i]_vars

\* When no request, parse or build is under way, the Profile has read every parsed
\* import and the answer in force -- unless a call or a job died before it asked
\* for the build, or two builds ran at once and the older read was written last
\* (BuildProfile: read, ask the model, upsert).
Quiet ==
    /\ builds = 0 /\ \A b \in Builders : builder[b].at = "idle"
    /\ \A c \in Completes : job[c] \notin {"queued", "running"}
    /\ \A p \in Pulls : pull[p].at \in {"ready", "over", "gone"}
    /\ \A a \in Answers : answering[a].at \in {"ready", "over", "gone"}

Unasked(i) ==
    \/ \E p \in Pulls : pull[p] = [at |-> "gone", import |-> i]
    \/ \E c \in Completes : job[c] = "failed" /\ ImportOf(c) = i

ProfileIsCurrent ==
    Quiet /\ ~overtaken =>
        /\ \A i \in 1..imports : Parsed(i) /\ ~Unasked(i) => i \in profile.imports
        /\ profile.imports # {} /\ answer \in Areas
           /\ (\A a \in Answers : answering[a].at # "gone") => profile.answer = answer

-----------------------------------------------------------------------------
(***************************************************************************)
(* The inductive invariant.                                                *)
(***************************************************************************)
\* Rows appear in order; a parsed import has its document, and a pull or a
\* delivery of a parse job that made it so.
Finished(c) ==
    tries[c] > 1 \/ (tries[c] = 1 /\ at[c] \in {"idle", "enqueue", "return", "raise"})

RowsFit ==
    \A i \in Imports :
        /\ status[i] # "absent" \/ i \in documents => i <= imports
        /\ status[i] = "parsed" =>
              /\ i \in documents
              /\ Pulled(i) \/ \E c \in Completes : ImportOf(c) = i /\ Finished(c)

\* A complete call is about an upload, and its job has been delivered only after it.
CompleteFits(c) ==
    /\ complete[c].at # "ready" => ImportOf(c) \in 1..imports /\ ~Pulled(ImportOf(c))
    /\ job[c] # "none" => complete[c].at = "over"
    /\ job[c] = "none" => tries[c] = 0
    /\ job[c] = "running" => tries[c] > 0
    /\ at[c] # "idle" <=> job[c] = "running"
    /\ at[c] = "parsed" => ImportOf(c) \in documents

PullFits(p) ==
    /\ pull[p].at = "ready" => pull[p].import = 0
    /\ pull[p].at # "ready" => pull[p].import \in 1..imports
    /\ pull[p].at \in {"parsed", "enqueue"} => pull[p].import \in documents

\* Somebody is on the way to asking for a build after import i was parsed, or after
\* an answer was recorded.
Asking(i) ==
    \/ \E p \in Pulls : pull[p].at = "enqueue" /\ pull[p].import = i
    \/ \E c \in Completes :
          ImportOf(c) = i /\ job[c] \in {"queued", "running"} /\ at[c] # "return"

Due(i) == Parsed(i) /\ ~Unasked(i) /\ ~Asking(i) /\ builds = 0
AnswerDue ==
    answer \in Areas /\ builds = 0 /\ \A a \in Answers : answering[a].at \notin {"enqueue", "gone"}

Running(b) == builder[b].at # "idle"
Knows(b, i) == Running(b) /\ i \in builder[b].read.imports
KnowsAnswer(b) ==
    \/ builder[b].at = "answers"
    \/ builder[b].at = "upsert" /\ (builder[b].read.imports = {} \/ builder[b].read.answer = answer)
NoFreshBuild == \A b \in Builders : Running(b) => builder[b].stale

\* What nobody will ask a build for is known to one that runs; or no build that runs
\* will be written as the newest, and the Profile knows it or was overtaken.
ImportsAreRead ==
    \A i \in Imports : Due(i) =>
        \/ \E b \in Builders : Knows(b, i)
        \/ NoFreshBuild /\ (overtaken \/ i \in profile.imports)

AnswerIsRead ==
    AnswerDue =>
        \/ \E b \in Builders : KnowsAnswer(b)
        \/ NoFreshBuild /\ (overtaken \/ profile.imports = {} \/ profile.answer = answer)

\* What the theorems of IntakeProofs rest on: rows, requests and jobs fit each
\* other, and whatever came in has been read or will be.
IntakeInv ==
    /\ TypeOK
    /\ RowsFit
    /\ \A c \in Completes : CompleteFits(c)
    /\ \A p \in Pulls : PullFits(p)
    /\ ImportsAreRead
    /\ AnswerIsRead
=============================================================================
