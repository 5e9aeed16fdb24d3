----------------------------- MODULE AnalysisJobs -----------------------------
(***************************************************************************)
(* One row of analysis_jobs, the queue of the first Brand3 API: polling    *)
(* workers claim it, callers of execute_analysis_job run it by its id, API *)
(* requests cancel and retry it.  Each of them has a SQLite connection of  *)
(* its own.  The claim is one conditional UPDATE; every other write is an  *)
(* UPDATE by id alone, based at best on a status read before it, so each   *)
(* read and each write is an action of its own.                            *)
(*                                                                         *)
(* ClaimAgain, ClaimUncounted, CheckFlagged and FlagQueued are mutated     *)
(* forms of the operators that follow them: no action uses them, they are  *)
(* there to show that the properties notice the mistake.                   *)
(***************************************************************************)
EXTENDS Naturals

CONSTANTS
  Workers,      \* processes of src.workers.job_runner
  Executors,    \* callers of execute_analysis_job
  Controllers,  \* API requests
  Requests,     \* the requests they make: "cancel", "retry"
  Crashes,      \* TRUE: a worker may be killed
  Calm,         \* what to assume of the rest: {FALSE}, {TRUE} or both
  MaxAttempts   \* bound: claims of the job

ASSUME JobsAssumption ==
  /\ Workers \cap Executors = {}
  /\ Requests \subseteq {"cancel", "retry"}
  /\ Crashes \in BOOLEAN /\ Calm \subseteq BOOLEAN
  /\ MaxAttempts \in Nat \ {0}

Over == {"done", "failed", "cancelled"}
JobStatuses == {"queued", "running"} \cup Over
Runners == Workers \cup Executors
Steps == {"idle", "claim", "flagged", "run", "finalize", "complete", "stop", "fail", "over"}
Asks == {"idle", "asked", "cancel_queued", "cancel_running", "requeue"}

VARIABLES
  status, cancel, attempt,  \* the row: status, cancel_requested, attempt_count
  result,   \* the attempt whose result the row holds: a set of one, or empty
  pc,       \* where each runner is
  run,      \* the attempt each runner took the job for
  ask,      \* what each request is in the middle of
  late,     \* history: runners that were past their last check when a cancel was written
  overtaken, \* history: attempts that were still under way when the job was requeued
  calm      \* in this run nobody executes the job by its id, retries it or is killed

row == <<status, cancel, attempt, result>>
vars == <<row, pc, run, ask, late, overtaken, calm>>

Init ==
  /\ status = "queued" /\ cancel = FALSE /\ attempt = 0 /\ result = {}
  /\ pc = [r \in Runners |-> "idle"]
  /\ run = [r \in Runners |-> 0]
  /\ ask = [c \in Controllers |-> "idle"]
  /\ late = {} /\ overtaken = {}
  /\ calm \in Calm

Go(r, step) == pc' = [pc EXCEPT ![r] = step]
Finalizing == {r \in Runners : pc[r] \in {"finalize", "complete"}}
UnderWay == {r \in Runners : pc[r] \notin {"idle", "claim", "over"}}

-----------------------------------------------------------------------------
(* Claiming and running *)

ClaimAgain == status \in {"queued", "running"} /\ ~cancel /\ attempt < MaxAttempts
Claimable == status = "queued" /\ ~cancel /\ attempt < MaxAttempts

ClaimUncounted(r) ==
  /\ Claimable
  /\ status' = "running" /\ result' = {}
  /\ Go(r, "run")
  /\ run' = [run EXCEPT ![r] = attempt]
  /\ UNCHANGED <<attempt, cancel, ask, late, overtaken, calm>>

\* claim_pending_job; the row is read back for the run after the commit.
Claim(r) ==
  /\ Claimable
  /\ status' = "running" /\ attempt' = attempt + 1 /\ result' = {}
  /\ Go(r, "run")
  /\ run' = [run EXCEPT ![r] = attempt + 1]
  /\ UNCHANGED <<cancel, ask, late, overtaken, calm>>

WorkerClaims(w) == pc[w] = "idle" /\ Claim(w)

\* execute_analysis_job reads the row.  It returns a row that is not queued
\* to its own last lines, which run it like a claimed one.
Execute(x) ==
  /\ pc[x] = "idle" /\ ~calm
  /\ Go(x, IF status # "queued" THEN "run" ELSE IF cancel THEN "flagged" ELSE "claim")
  /\ run' = [run EXCEPT ![x] = attempt]
  /\ UNCHANGED <<row, ask, late, overtaken, calm>>

ExecutorClaims(x) == pc[x] = "claim" /\ Claim(x)

ExecutorLoses(x) ==
  /\ pc[x] = "claim" /\ (status # "queued" \/ cancel)
  /\ Go(x, "run")
  /\ run' = [run EXCEPT ![x] = attempt]
  /\ UNCHANGED <<row, ask, late, overtaken, calm>>

WriteCancelled ==
  /\ status' = "cancelled" /\ cancel' = TRUE
  /\ late' = Finalizing
  /\ UNCHANGED <<attempt, result, overtaken, calm>>

\* A queued row that carries a cancel is cancelled, and then run as well.
ExecutorCancels(x) ==
  /\ pc[x] = "flagged"
  /\ WriteCancelled
  /\ Go(x, "run")
  /\ UNCHANGED <<run, ask>>

CheckFlagged == cancel /\ status = "running"
MustStop == cancel \/ status = "cancelled"

\* cancel_check, the last time run_workflow calls it; the calls before it can
\* only stop the run sooner.
Check(r) ==
  /\ pc[r] = "run"
  /\ Go(r, IF MustStop THEN "stop" ELSE "finalize")
  /\ UNCHANGED <<row, run, ask, late, overtaken, calm>>

\* The pipeline may raise anywhere.
Work(r) ==
  /\ \/ pc[r] = "run" /\ Go(r, "fail")
     \/ pc[r] = "finalize" /\ (Go(r, "complete") \/ Go(r, "fail"))
  /\ UNCHANGED <<row, run, ask, late, overtaken, calm>>

\* A worker polls again, a caller of execute_analysis_job has its answer.
Ended(r) == Go(r, IF r \in Workers THEN "idle" ELSE "over")

Complete(r) ==
  /\ pc[r] = "complete"
  /\ status' = "done" /\ cancel' = FALSE /\ result' = {run[r]}
  /\ Ended(r)
  /\ UNCHANGED <<attempt, run, ask, late, overtaken, calm>>

Fail(r) ==
  /\ pc[r] = "fail"
  /\ status' = "failed"
  /\ Ended(r)
  /\ UNCHANGED <<cancel, attempt, result, run, ask, late, overtaken, calm>>

Stop(r) ==
  /\ pc[r] = "stop"
  /\ WriteCancelled
  /\ Ended(r)
  /\ UNCHANGED <<run, ask>>

\* A worker is killed and started again; nothing takes its job from running.
Crash(w) ==
  /\ Crashes /\ ~calm /\ pc[w] # "idle"
  /\ Go(w, "idle")
  /\ UNCHANGED <<row, run, ask, late, overtaken, calm>>

-----------------------------------------------------------------------------
(* Requests *)

Turn(c, step) == ask' = [ask EXCEPT ![c] = step]
Reading == UNCHANGED <<row, pc, run, late, overtaken, calm>>

\* cancel_analysis_job (orchestration) answers a row that is over as it is;
AskCancel(c) ==
  /\ "cancel" \in Requests /\ ask[c] = "idle" /\ status \notin Over
  /\ Turn(c, "asked") /\ Reading

\* otherwise request_analysis_job_cancel reads the status again and writes
\* what that status called for.
ReadCancel(c) ==
  /\ ask[c] = "asked"
  /\ Turn(c, CASE status = "queued" -> "cancel_queued"
               [] status = "running" -> "cancel_running"
               [] OTHER -> "idle")
  /\ Reading

FlagQueued(c) ==
  /\ ask[c] = "cancel_queued"
  /\ cancel' = TRUE
  /\ Turn(c, "idle")
  /\ UNCHANGED <<status, attempt, result, pc, run, late, overtaken, calm>>

CancelQueued(c) ==
  /\ ask[c] = "cancel_queued"
  /\ WriteCancelled
  /\ Turn(c, "idle")
  /\ UNCHANGED <<pc, run>>

CancelRunning(c) ==
  /\ ask[c] = "cancel_running"
  /\ cancel' = TRUE
  /\ late' = Finalizing
  /\ Turn(c, "idle")
  /\ UNCHANGED <<status, attempt, result, pc, run, overtaken, calm>>

Retryable == status \in {"failed", "cancelled"}

AskRetry(c) ==
  /\ "retry" \in Requests /\ ~calm /\ ask[c] = "idle" /\ Retryable
  /\ Turn(c, "requeue") /\ Reading

Requeue(c) ==
  /\ ask[c] = "requeue"
  /\ status' = "queued" /\ cancel' = FALSE /\ result' = {}
  /\ overtaken' = overtaken \cup {run[r] : r \in UnderWay}
  /\ Turn(c, "idle")
  /\ UNCHANGED <<attempt, pc, run, late, calm>>

-----------------------------------------------------------------------------

Running(r) == Check(r) \/ Work(r) \/ Complete(r) \/ Fail(r) \/ Stop(r)
Executing(x) == Execute(x) \/ ExecutorClaims(x) \/ ExecutorLoses(x) \/ ExecutorCancels(x)
Asking(c) ==
  AskCancel(c) \/ ReadCancel(c) \/ CancelQueued(c) \/ CancelRunning(c) \/ AskRetry(c) \/ Requeue(c)

Step ==
  \/ \E w \in Workers : WorkerClaims(w) \/ Crash(w)
  \/ \E x \in Executors : Executing(x)
  \/ \E r \in Runners : Running(r)
  \/ \E c \in Controllers : Asking(c)

Spec == Init /\ [][Step]_vars

\* Workers poll until they are shut down, a run ends or raises, and a request
\* that has read the row writes it.
Fairness ==
  /\ \A w \in Workers : WF_vars(WorkerClaims(w))
  /\ \A r \in Runners : WF_vars(Running(r))
  /\ \A c \in Controllers : WF_vars(ReadCancel(c) \/ CancelQueued(c) \/ CancelRunning(c))

FairSpec == Spec /\ Fairness

-----------------------------------------------------------------------------
(* Properties *)

\* Every variable of the queue has its type.
TypeOK ==
  /\ status \in JobStatuses /\ cancel \in BOOLEAN
  /\ attempt \in 0..MaxAttempts /\ result \subseteq 0..MaxAttempts
  /\ pc \in [Runners -> Steps] /\ run \in [Runners -> 0..MaxAttempts]
  /\ ask \in [Controllers -> Asks] /\ late \subseteq Runners
  /\ overtaken \subseteq 0..MaxAttempts
  /\ calm \in Calm

Busy(r) == pc[r] \in {"run", "finalize", "complete", "stop", "fail"}

\* At most one runner is in the middle of the job, so that no capture is paid
\* for twice and no result overwrites another.
OneRunner == \A r, s \in Runners : Busy(r) /\ Busy(s) => r = s

\* That holds of workers by themselves, whatever is cancelled.
OneWorker == calm => OneRunner

\* Whatever is retried, executed by its id or killed: when two workers are at
\* work on the job at once, they are at different attempts, and the older one
\* was under way when the job was put back into the queue.
OnlyOvertaken ==
  \A v, w \in Workers : Busy(v) /\ Busy(w) /\ v # w =>
    /\ run[v] # run[w]
    /\ run[v] < run[w] => run[v] \in overtaken

\* With workers and cancellations by themselves a job is never stranded: if it
\* is queued a worker can claim it, and if it is running somebody runs it.
NeverStranded ==
  calm => /\ status = "queued" => Claimable
          /\ status = "running" => \E r \in Runners : Busy(r)

\* A job that is done holds the result of its newest attempt, however it was
\* cancelled, retried and claimed again: an older one lands on it only from a
\* run that was under way when the job was put back into the queue, and a job
\* that is waiting or running again holds none.
ResultIsNewest ==
  /\ status = "done" => result # {} /\ result \subseteq {attempt} \cup overtaken
  /\ status \in {"queued", "running"} => result = {}

\* A cancelled job gets a result only from a run that was past its last
\* cancel_check when the cancel was written.
CancelStops ==
  [][(status = "cancelled" /\ result' # result /\ result' # {})
       => \E r \in late : pc[r] = "complete" /\ pc'[r] # "complete"]_vars

\* Then the job is over some day, too: a cancel written at any moment neither
\* hides it from the workers for ever nor leaves it running.
EventuallyOver == calm ~> [](status \in Over)
=============================================================================
