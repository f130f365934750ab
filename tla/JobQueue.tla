------------------------------ MODULE JobQueue ------------------------------
(***************************************************************************)
(* The job queue (ARQ on Redis) as its users see it: every job of the      *)
(* system goes through these steps, whatever its handler does in between.  *)
(*                                                                         *)
(* Delivery is at least once.  A job whose handler returned or raised is   *)
(* over; a job whose worker stopped is delivered again, up to MaxTries     *)
(* times; a job that reached job_timeout is over too, and its handler is   *)
(* cancelled wherever it was.  At most one worker holds a job at a time.   *)
(*                                                                         *)
(* A module that EXTENDS this one gives each job a handler: the steps      *)
(* between at[j] = "load" and at[j] \in {"return", "raise"}.               *)
(***************************************************************************)
EXTENDS Naturals

CONSTANTS
    MaxTries,       \* deliveries of one job before ARQ gives up (its default: 5)
    Faults          \* which of AllFaults the environment may inject

\* The worker stops; job_timeout is reached; a request ends before its enqueue;
\* a call inside a handler's try block raises; a call outside it raises.
AllFaults == {"crash", "timeout", "lost_enqueue", "raise", "raise_unhandled"}

ASSUME QueueConstants == MaxTries \in Nat /\ Faults \subseteq AllFaults

VARIABLES
    job,            \* job[j]: its state in Redis
    tries,          \* tries[j]: deliveries so far
    at              \* at[j]: next step of the handler working on it

queue == <<job, tries>>

JobStatus == {"none", "queued", "running", "done", "failed"}
Over(j) == job[j] \in {"done", "failed"}

QueueInit(J) ==
    /\ job = [j \in J |-> "none"]
    /\ tries = [j \in J |-> 0]
    /\ at = [j \in J |-> "idle"]

QueueTypeOK(J, Steps) ==
    /\ job \in [J -> JobStatus]
    /\ tries \in [J -> 0..MaxTries]
    /\ at \in [J -> Steps]

-----------------------------------------------------------------------------
Goto(j, step) == at' = [at EXCEPT ![j] = step]

Ends(j, outcome) ==
    /\ job' = [job EXCEPT ![j] = outcome]
    /\ Goto(j, "idle")
    /\ UNCHANGED tries

Enqueue(j) ==
    /\ job' = [job EXCEPT ![j] = "queued"]
    /\ UNCHANGED <<tries, at>>

\* Mutant: the retry limit is off by one.
DeliveredOnceMore(j) ==
    /\ job[j] = "queued"
    /\ tries[j] <= MaxTries
    /\ job' = [job EXCEPT ![j] = "running"]
    /\ tries' = [tries EXCEPT ![j] = @ + 1]
    /\ Goto(j, "load")

Delivered(j) ==
    /\ job[j] = "queued"
    /\ tries[j] < MaxTries
    /\ job' = [job EXCEPT ![j] = "running"]
    /\ tries' = [tries EXCEPT ![j] = @ + 1]
    /\ Goto(j, "load")

\* The retry limit is counted before the handler is called.
GivenUp(j) ==
    /\ job[j] = "queued"
    /\ tries[j] = MaxTries
    /\ job' = [job EXCEPT ![j] = "failed"]
    /\ UNCHANGED <<tries, at>>

\* An exception that leaves the handler fails the job; ARQ does not retry it.
Returned(j) == at[j] = "return" /\ Ends(j, "done")
Raised(j)   == at[j] = "raise" /\ Ends(j, "failed")

\* job_timeout cancels the handler.  CancelledError is not an Exception, so no
\* `except Exception` of the handler runs.
TimedOut(j) ==
    /\ "timeout" \in Faults
    /\ job[j] = "running"
    /\ Ends(j, "failed")

\* The worker process stops or is killed between two steps of the handler.
Stopped(j) ==
    /\ "crash" \in Faults
    /\ job[j] = "running"
    /\ Ends(j, "queued")

\* A step of job j on its way through the queue.
QueueAction(j) ==
    \/ Enqueue(j) \/ Delivered(j) \/ GivenUp(j) \/ Returned(j)
    \/ Raised(j) \/ TimedOut(j) \/ Stopped(j)
=============================================================================
