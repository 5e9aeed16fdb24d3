-------------------------- MODULE AnalysisJobs_proofs --------------------------
(***************************************************************************)
(* What holds of the analysis job queue for any number of workers,         *)
(* executors, requests and attempts.                                       *)
(***************************************************************************)
EXTENDS AnalysisJobs, TLAPS

ChecksSeen == status = "cancelled" => Finalizing \subseteq late

\* The value of pc after Go, which every action of a runner is written with.
LEMMA GoesTo ==
  ASSUME TypeOK, NEW r \in Runners, NEW step \in Steps, Go(r, step)
  PROVE  /\ pc' \in [Runners -> Steps]
         /\ pc'[r] = step
         /\ \A s \in Runners : s # r => pc'[s] = pc[s]
  BY DEF Go, TypeOK

\* Writing a cancellation keeps the row in its domain.
LEMMA CancelWritten ==
  ASSUME TypeOK, WriteCancelled
  PROVE  /\ status' \in JobStatuses /\ cancel' \in BOOLEAN
         /\ attempt' \in 0..MaxAttempts /\ result' \subseteq 0..MaxAttempts
         /\ late' = Finalizing /\ late' \subseteq Runners
         /\ overtaken' \subseteq 0..MaxAttempts /\ calm' \in Calm
  BY DEF WriteCancelled, TypeOK, JobStatuses, Over, Finalizing

\* Every variable of the queue keeps its type, whoever takes the next step.
THEOREM TypeCorrect == Spec => []TypeOK
<1>0. 0 \in 0..MaxAttempts
  BY JobsAssumption
<1>1. Init => TypeOK
  BY <1>0 DEF Init, Over, TypeOK, JobStatuses, Steps, Asks
<1>2. TypeOK /\ [Step]_vars => TypeOK'
  <2> SUFFICES ASSUME TypeOK, [Step]_vars PROVE TypeOK'
    OBVIOUS
  <2>c. ASSUME NEW r \in Runners, Claim(r) PROVE TypeOK'
    <3>1. attempt + 1 \in 0..MaxAttempts
      BY <2>c, JobsAssumption DEF Claim, Claimable, TypeOK
    <3> QED
      BY <1>0, <2>c, <3>1 DEF Claim, TypeOK, JobStatuses, Steps, Go
  <2>1. ASSUME NEW w \in Workers, WorkerClaims(w) PROVE TypeOK'
    BY <2>1, <2>c DEF WorkerClaims, Runners
  <2>2. ASSUME NEW w \in Workers, Crash(w) PROVE TypeOK'
    BY <2>2 DEF Crash, TypeOK, Steps, Go, row
  <2>3. ASSUME NEW x \in Executors, Execute(x) PROVE TypeOK'
    BY <2>3 DEF Execute, TypeOK, Steps, Go, row
  <2>4. ASSUME NEW x \in Executors, ExecutorClaims(x) PROVE TypeOK'
    BY <2>4, <2>c DEF ExecutorClaims, Runners
  <2>5. ASSUME NEW x \in Executors, ExecutorLoses(x) PROVE TypeOK'
    BY <2>5 DEF ExecutorLoses, TypeOK, Steps, Go, row
  <2>6. ASSUME NEW x \in Executors, ExecutorCancels(x) PROVE TypeOK'
    BY <2>6, CancelWritten DEF ExecutorCancels, TypeOK, Steps, Go
  <2>7. ASSUME NEW r \in Runners, Running(r) PROVE TypeOK'
    <3>1. CASE Check(r)
      BY <3>1 DEF Check, TypeOK, Steps, Go, row
    <3>2. CASE Work(r)
      BY <3>2 DEF Work, TypeOK, Steps, Go, row
    <3>3. CASE Complete(r)
      BY <3>3 DEF Complete, Ended, TypeOK, JobStatuses, Over, Steps, Go
    <3>4. CASE Fail(r)
      BY <3>4 DEF Fail, Ended, TypeOK, JobStatuses, Over, Steps, Go
    <3>5. CASE Stop(r)
      BY <3>5, CancelWritten DEF Stop, Ended, TypeOK, Steps, Go
    <3> QED
      BY <2>7, <3>1, <3>2, <3>3, <3>4, <3>5 DEF Running
  <2>8. ASSUME NEW c \in Controllers, Asking(c) PROVE TypeOK'
    <3>1. CASE AskCancel(c) \/ ReadCancel(c) \/ AskRetry(c)
      BY <3>1 DEF AskCancel, ReadCancel, AskRetry, Turn, Reading, TypeOK, Asks, row
    <3>2. CASE CancelQueued(c)
      BY <3>2, CancelWritten DEF CancelQueued, Turn, TypeOK, Asks
    <3>3. CASE CancelRunning(c)
      BY <3>3 DEF CancelRunning, Finalizing, Turn, TypeOK, Asks
    <3>4. CASE Requeue(c)
      BY <3>4 DEF Requeue, UnderWay, Turn, TypeOK, Asks, JobStatuses
    <3> QED
      BY <2>8, <3>1, <3>2, <3>3, <3>4 DEF Asking
  <2>9. CASE UNCHANGED vars
    BY <2>9 DEF vars, row, TypeOK
  <2> QED
    BY <2>1, <2>2, <2>3, <2>4, <2>5, <2>6, <2>7, <2>8, <2>9 DEF Step, Executing
<1> QED
  BY <1>1, <1>2, PTL DEF Spec

-----------------------------------------------------------------------------

\* While the row says cancelled, every runner past its last check was already
\* past it when the cancellation was written.
LEMMA LateSeen == Spec => []ChecksSeen
<1>1. Init => ChecksSeen
  BY DEF Init, ChecksSeen
<1>2. TypeOK /\ ChecksSeen /\ [Step]_vars => ChecksSeen'
  <2> SUFFICES ASSUME TypeOK, ChecksSeen, [Step]_vars PROVE ChecksSeen'
    OBVIOUS
  <2>f. ASSUME NEW r \in Runners, NEW step \in Steps \ {"finalize", "complete"}, Go(r, step)
        PROVE  Finalizing' \subseteq Finalizing
    BY <2>f, GoesTo DEF Finalizing
  <2>1. ASSUME NEW r \in Runners, Claim(r) PROVE ChecksSeen'
    BY <2>1 DEF Claim, ChecksSeen
  <2>2. ASSUME NEW w \in Workers, Crash(w) PROVE ChecksSeen'
    BY <2>2, <2>f DEF Crash, ChecksSeen, Steps, Runners, row
  <2>3. ASSUME NEW x \in Executors, Execute(x) PROVE ChecksSeen'
    <3>1. PICK step \in Steps \ {"finalize", "complete"} : Go(x, step)
      BY <2>3 DEF Execute, Steps
    <3> QED
      BY <2>3, <3>1, <2>f DEF Execute, ChecksSeen, Runners, row
  <2>4. ASSUME NEW x \in Executors, ExecutorLoses(x) PROVE ChecksSeen'
    BY <2>4, <2>f DEF ExecutorLoses, ChecksSeen, Steps, Runners, row
  <2>5. ASSUME NEW x \in Executors, ExecutorCancels(x) PROVE ChecksSeen'
    BY <2>5, <2>f DEF ExecutorCancels, WriteCancelled, ChecksSeen, Steps, Runners
  <2>6. ASSUME NEW r \in Runners, Check(r) PROVE ChecksSeen'
    <3>1. CASE MustStop
      BY <3>1, <2>6, <2>f DEF Check, ChecksSeen, Steps, row
    <3>2. CASE ~MustStop
      BY <3>2, <2>6 DEF Check, MustStop, ChecksSeen, row
    <3> QED
      BY <3>1, <3>2
  <2>7. ASSUME NEW r \in Runners, Work(r) PROVE ChecksSeen'
    <3>1. Finalizing' \subseteq Finalizing
      BY <2>7, GoesTo DEF Work, Finalizing, Steps
    <3> QED
      BY <3>1, <2>7 DEF Work, ChecksSeen, row
  <2>8. ASSUME NEW r \in Runners, Complete(r) \/ Fail(r) PROVE ChecksSeen'
    BY <2>8 DEF Complete, Fail, ChecksSeen
  <2>9. ASSUME NEW r \in Runners, Stop(r) PROVE ChecksSeen'
    <3>1. Go(r, "idle") \/ Go(r, "over")
      BY <2>9 DEF Stop, Ended
    <3> QED
      BY <3>1, <2>9, <2>f DEF Stop, WriteCancelled, ChecksSeen, Steps
  <2>10. ASSUME NEW c \in Controllers, Asking(c) PROVE ChecksSeen'
    BY <2>10 DEF Asking, AskCancel, ReadCancel, AskRetry, CancelQueued, CancelRunning,
                 Requeue, WriteCancelled, Reading, ChecksSeen, Finalizing, row
  <2>11. CASE UNCHANGED vars
    BY <2>11 DEF vars, row, ChecksSeen, Finalizing
  <2> QED
    BY <2>1, <2>2, <2>3, <2>4, <2>5, <2>6, <2>7, <2>8, <2>9, <2>10, <2>11
       DEF Step, Executing, Running, WorkerClaims, ExecutorClaims, Runners
<1> QED
  BY <1>1, <1>2, TypeCorrect, PTL DEF Spec

\* A cancelled job gets a result only from a run that was past its last
\* cancel_check when the cancel was written, however many processes there are.
THEOREM CancelHolds == Spec => CancelStops
<1> DEFINE Stopped ==
      (status = "cancelled" /\ result' # result /\ result' # {})
        => \E r \in late : pc[r] = "complete" /\ pc'[r] # "complete"
<1>1. TypeOK /\ ChecksSeen /\ [Step]_vars => Stopped
  <2> SUFFICES ASSUME TypeOK, ChecksSeen, [Step]_vars,
                      status = "cancelled", result' # result, result' # {}
               PROVE  \E r \in late : pc[r] = "complete" /\ pc'[r] # "complete"
    OBVIOUS
  <2>1. PICK r \in Runners : Complete(r)
    BY DEF Step, Executing, Running, Asking, WorkerClaims, Crash, Execute, ExecutorClaims,
           ExecutorLoses, ExecutorCancels, Claim, WriteCancelled, Check, Work, Fail, Stop,
           AskCancel, ReadCancel, CancelQueued, CancelRunning, AskRetry, Requeue, Reading,
           Runners, row, vars
  <2>2. r \in late
    BY <2>1 DEF Complete, ChecksSeen, Finalizing
  <2>3. pc'[r] # "complete"
    BY <2>1 DEF Complete, Ended, Go, TypeOK
  <2> QED
    BY <2>1, <2>2, <2>3 DEF Complete
<1> QED
  BY <1>1, TypeCorrect, LateSeen, PTL DEF Spec, CancelStops

-----------------------------------------------------------------------------
(* Workers by themselves *)

\* Nothing leads back to the queue: a job is claimed once, by a worker, and
\* from then on there is one run and its attempt is the newest.
CalmInv ==
  /\ \A c \in Controllers : ask[c] # "requeue"
  /\ \A r, s \in Runners : Busy(r) /\ Busy(s) => r = s
  /\ \A r \in Runners : pc[r] \notin {"claim", "flagged"}
  /\ \A r \in Runners : Busy(r) => status # "queued" /\ run[r] = attempt
  /\ status = "queued" => ~cancel /\ attempt = 0
  /\ status = "queued" => \A c \in Controllers : ask[c] # "cancel_running"
  /\ status = "running" => \E r \in Runners : Busy(r)

\* The inductive invariant of the workers' runs.
LEMMA StepCalm == TypeOK /\ calm /\ CalmInv /\ [Step]_vars => CalmInv'
<1> SUFFICES ASSUME TypeOK, calm, CalmInv, [Step]_vars PROVE CalmInv'
  OBVIOUS
<1> USE DEF CalmInv, Busy
<1>1. ASSUME NEW w \in Workers, WorkerClaims(w) PROVE CalmInv'
  <2>1. \A r \in Runners : ~Busy(r)
    BY <1>1 DEF WorkerClaims, Claim, Claimable
  <2>2. /\ \A r \in Runners : pc'[r] = IF r = w THEN "run" ELSE pc[r]
        /\ run'[w] = attempt'
    BY <1>1 DEF WorkerClaims, Claim, Go, TypeOK, Runners
  <2> QED
    BY <1>1, <2>1, <2>2 DEF WorkerClaims, Claim, Runners
<1>2. ASSUME NEW r \in Runners, Running(r) PROVE CalmInv'
  <2>1. Busy(r) /\ UNCHANGED <<attempt, run, ask>>
    BY <1>2 DEF Running, Check, Work, Complete, Fail, Stop, WriteCancelled, row
  <2>2. PICK step \in {"idle", "finalize", "complete", "stop", "fail", "over"} : Go(r, step)
    BY <1>2 DEF Running, Check, Work, Complete, Fail, Stop, Ended
  <2>3. pc' \in [Runners -> Steps] /\ \A s \in Runners : pc'[s] = IF s = r THEN step ELSE pc[s]
    BY <2>2, GoesTo DEF Steps
  <2>4. \/ UNCHANGED <<status, cancel>> /\ Busy(r)'
        \/ status' \in {"done", "failed", "cancelled"}
    BY <1>2, <2>1 DEF Running, Check, Work, Complete, Fail, Stop, WriteCancelled, Go, TypeOK, row
  <2>5. \A s \in Runners : Busy(s)' => Busy(s)
    BY <2>1, <2>3
  <2>6. status' \notin {"queued"} /\ (status' = "running" => Busy(r)')
    BY <2>1, <2>4
  <2> QED
    BY <2>1, <2>3, <2>4, <2>5, <2>6
<1>3. ASSUME NEW c \in Controllers, Asking(c) PROVE CalmInv'
  <2>1. UNCHANGED <<attempt, pc, run>> /\ (UNCHANGED status \/ status' = "cancelled")
    BY <1>3 DEF Asking, AskCancel, ReadCancel, CancelQueued, CancelRunning, AskRetry, Requeue,
                WriteCancelled, Reading, row
  <2>2. \A d \in Controllers : ask'[d] # "requeue"
    BY <1>3 DEF Asking, AskCancel, ReadCancel, CancelQueued, CancelRunning, AskRetry, Requeue,
                Turn, TypeOK
  <2>3. status' = "queued" =>
          ~cancel' /\ \A d \in Controllers : ask'[d] # "cancel_running"
    BY <1>3 DEF Asking, AskCancel, ReadCancel, CancelQueued, CancelRunning, AskRetry, Requeue,
                WriteCancelled, Reading, Turn, TypeOK, row
  <2> QED
    BY <2>1, <2>2, <2>3
<1>4. CASE UNCHANGED vars
  BY <1>4 DEF vars, row
<1>5. ASSUME NEW x \in Executors, Executing(x) PROVE FALSE
  BY <1>5 DEF Executing, Execute, ExecutorClaims, ExecutorLoses, ExecutorCancels, Runners
<1>6. ASSUME NEW w \in Workers, Crash(w) PROVE FALSE
  BY <1>6 DEF Crash
<1> QED
  BY <1>1, <1>2, <1>3, <1>4, <1>5, <1>6 DEF Step

\* Whatever is cancelled, and however many workers and requests there are, it holds.
LEMMA Calmly == Spec => [](calm => CalmInv)
<1>1. Init => CalmInv
  BY DEF Init, CalmInv, Busy
<1>2. TypeOK /\ [Step]_vars => calm' = calm
  BY DEF Step, Executing, Running, Asking, WorkerClaims, Crash, Execute, ExecutorClaims,
         ExecutorLoses, ExecutorCancels, Claim, WriteCancelled, Check, Work, Complete, Fail, Stop,
         AskCancel, ReadCancel, CancelQueued, CancelRunning, AskRetry, Requeue, Reading, vars
<1>3. TypeOK /\ (calm => CalmInv) /\ [Step]_vars => (calm => CalmInv)'
  BY <1>2, StepCalm
<1> QED
  BY <1>1, <1>3, TypeCorrect, PTL DEF Spec

\* Workers by themselves run a job one at a time.
THEOREM WorkersAlone == Spec => []OneWorker
<1>1. (calm => CalmInv) => OneWorker
  BY DEF CalmInv, OneWorker, OneRunner
<1> QED
  BY <1>1, Calmly, PTL

\* Cancellations, whatever they have read, hide no job from the workers and
\* leave none running that nobody runs.
THEOREM JobsNeverStranded == Spec => []NeverStranded
<1>1. (calm => CalmInv) => NeverStranded
  BY JobsAssumption DEF CalmInv, NeverStranded, Claimable
<1> QED
  BY <1>1, Calmly, PTL

-----------------------------------------------------------------------------
(* The number of an attempt names one run of a worker *)

\* No worker is ahead of the row, which is what makes the next number new.
Numbered ==
  \A w \in Workers : Busy(w) =>
    /\ run[w] <= attempt
    /\ \A v \in Workers : Busy(v) /\ run[v] = run[w] => v = w

\* Every step keeps the attempts of the workers apart.
LEMMA StepNumbered == TypeOK /\ Numbered /\ [Step]_vars => Numbered'
<1> SUFFICES ASSUME TypeOK, Numbered, [Step]_vars PROVE Numbered'
  OBVIOUS
<1>0. attempt \in Nat /\ run \in [Runners -> Nat] /\ Workers \subseteq Runners
  BY JobsAssumption DEF TypeOK, Runners
\* Nobody starts a run in the step, and nobody changes the number of one.
<1>a. ASSUME attempt' = attempt, \A w \in Workers : Busy(w)' => Busy(w) /\ run'[w] = run[w]
      PROVE  Numbered'
  BY <1>a DEF Numbered
<1>1. ASSUME NEW r \in Runners, pc[r] \in {"idle", "claim"}, Claim(r) PROVE Numbered'
  <2>1. /\ attempt' = attempt + 1 /\ run'[r] = attempt + 1
        /\ \A s \in Runners : s # r => run'[s] = run[s] /\ pc'[s] = pc[s]
    BY <1>0, <1>1 DEF Claim, Go, TypeOK
  <2>2. \A w \in Workers : w # r => /\ Busy(w)' => Busy(w)
                                     /\ run'[w] = run[w]
    BY <1>0, <2>1 DEF Busy
  <2>3. \A w \in Workers : Busy(w) => run[w] \in Nat /\ run[w] <= attempt
    BY <1>0 DEF Numbered
  <2>4. ASSUME NEW w \in Workers, Busy(w)' PROVE run'[w] <= attempt'
    BY <1>0, <2>1, <2>2, <2>3, <2>4
  <2>5. ASSUME NEW w \in Workers, NEW v \in Workers, Busy(w)', Busy(v)', run'[v] = run'[w]
        PROVE  v = w
    <3>1. CASE v # r /\ w # r
      BY <2>2, <2>5, <3>1 DEF Numbered
    <3>2. CASE v = r /\ w # r
      BY <1>0, <2>1, <2>2, <2>3, <2>5, <3>2
    <3>3. CASE v # r /\ w = r
      BY <1>0, <2>1, <2>2, <2>3, <2>5, <3>3
    <3> QED
      BY <3>1, <3>2, <3>3
  <2> QED
    BY <2>4, <2>5 DEF Numbered
<1>2. ASSUME NEW x \in Executors, Execute(x) \/ ExecutorLoses(x) \/ ExecutorCancels(x)
      PROVE  Numbered'
  <2>1. \A w \in Workers : pc'[w] = pc[w] /\ run'[w] = run[w]
    BY <1>0, <1>2, JobsAssumption DEF Execute, ExecutorLoses, ExecutorCancels, Go, TypeOK
  <2> QED
    BY <1>2, <2>1, <1>a DEF Execute, ExecutorLoses, ExecutorCancels, WriteCancelled, Busy, row
<1>3. ASSUME NEW r \in Runners, Running(r) PROVE Numbered'
  <2>1. Busy(r) /\ UNCHANGED <<attempt, run>>
    BY <1>3 DEF Running, Check, Work, Complete, Fail, Stop, WriteCancelled, row, Busy
  <2>2. \A s \in Runners : s # r => pc'[s] = pc[s]
    BY <1>3 DEF Running, Check, Work, Complete, Fail, Stop, Ended, Go, TypeOK
  <2> QED
    BY <1>0, <2>1, <2>2, <1>a DEF Busy
<1>4. ASSUME NEW w \in Workers, Crash(w) PROVE Numbered'
  <2>1. \A s \in Workers : Busy(s)' => Busy(s)
    BY <1>0, <1>4 DEF Crash, Go, TypeOK, Busy
  <2> QED
    BY <1>4, <2>1, <1>a DEF Crash, row
<1>5. ASSUME NEW c \in Controllers, Asking(c) PROVE Numbered'
  <2>1. UNCHANGED <<attempt, pc, run>>
    BY <1>5 DEF Asking, AskCancel, ReadCancel, CancelQueued, CancelRunning, AskRetry, Requeue,
                WriteCancelled, Reading, row
  <2> QED
    BY <2>1, <1>a DEF Busy
<1>6. CASE UNCHANGED vars
  BY <1>6, <1>a DEF vars, row, Busy
<1> QED
  BY <1>1, <1>2, <1>3, <1>4, <1>5, <1>6
     DEF Step, Executing, WorkerClaims, ExecutorClaims, Runners

-----------------------------------------------------------------------------
(* What a retry overtakes *)

\* A run that is behind the row, or under way while its job can be claimed
\* again, was there when the job was put back into the queue.
Behind ==
  \A r \in UnderWay :
    /\ run[r] <= attempt
    /\ run[r] < attempt \/ (status = "queued" /\ ~cancel) => run[r] \in overtaken

\* A step in which no run begins, no job becomes claimable and nothing is
\* counted keeps every run where it was.
LEMMA BehindStays ==
  ASSUME Behind, attempt' = attempt, overtaken' = overtaken,
         status' = "queued" /\ ~cancel' => status = "queued" /\ ~cancel,
         \A r \in UnderWay' : r \in UnderWay /\ run'[r] = run[r]
  PROVE  Behind'
  BY DEF Behind

\* Every step keeps it: only a claim moves the row on, and it takes a job that
\* can be claimed; only a requeue makes it so.
LEMMA StepBehind == TypeOK /\ Behind /\ [Step]_vars => Behind'
<1> SUFFICES ASSUME TypeOK, Behind, [Step]_vars PROVE Behind'
  OBVIOUS
<1>0. attempt \in Nat /\ run \in [Runners -> Nat] /\ UnderWay \subseteq Runners
  BY JobsAssumption DEF TypeOK, UnderWay
<1>1. ASSUME NEW r \in Runners, Claim(r) PROVE Behind'
  <2>1. /\ status = "queued" /\ ~cancel /\ status' = "running"
        /\ attempt' = attempt + 1 /\ run'[r] = attempt + 1 /\ overtaken' = overtaken
        /\ \A s \in Runners : s # r => run'[s] = run[s] /\ pc'[s] = pc[s]
    BY <1>0, <1>1 DEF Claim, Claimable, Go, TypeOK
  <2>2. \A s \in UnderWay' : s \in Runners /\ (s # r => s \in UnderWay)
    BY <2>1 DEF UnderWay
  <2>3. ASSUME NEW s \in UnderWay', s # r PROVE run'[s] <= attempt' /\ run'[s] \in overtaken'
    <3>1. run[s] <= attempt /\ run[s] \in overtaken /\ run[s] \in Nat /\ run'[s] = run[s]
      BY <1>0, <2>1, <2>2, <2>3 DEF Behind
    <3> QED
      BY <1>0, <2>1, <3>1
  <2> QED
    BY <1>0, <2>1, <2>3 DEF Behind
<1>2. ASSUME NEW x \in Executors, Execute(x) \/ ExecutorLoses(x) PROVE Behind'
  <2>1. /\ UNCHANGED <<status, cancel, attempt, overtaken>>
        /\ run'[x] = attempt
        /\ \A s \in Runners : s # x => run'[s] = run[s] /\ pc'[s] = pc[s]
        /\ x \in UnderWay' => status # "queued" \/ cancel
    BY <1>0, <1>2 DEF Execute, ExecutorLoses, Go, TypeOK, UnderWay, Runners, row
  <2>2. \A s \in UnderWay' : s \in Runners /\ (s # x => s \in UnderWay)
    BY <2>1 DEF UnderWay
  <2> QED
    BY <1>0, <2>1, <2>2 DEF Behind
<1>3. ASSUME NEW x \in Executors, ExecutorCancels(x) PROVE Behind'
  <2>1. \A s \in UnderWay' : s \in UnderWay
    BY <1>3 DEF ExecutorCancels, Go, TypeOK, UnderWay, Runners
  <2> QED
    BY <1>3, <2>1, BehindStays DEF ExecutorCancels, WriteCancelled
<1>4. ASSUME NEW r \in Runners, Running(r) PROVE Behind'
  <2>1. /\ UNCHANGED <<attempt, run, overtaken>>
        /\ UNCHANGED <<status, cancel>> \/ status' \in Over
    BY <1>4 DEF Running, Check, Work, Complete, Fail, Stop, WriteCancelled, Over, row
  <2>2. \A s \in UnderWay' : s \in UnderWay
    BY <1>4 DEF Running, Check, Work, Complete, Fail, Stop, Ended, Go, TypeOK, UnderWay
  <2> QED
    BY <2>1, <2>2, BehindStays DEF Over
<1>5. ASSUME NEW w \in Workers, Crash(w) PROVE Behind'
  <2>1. \A s \in UnderWay' : s \in UnderWay
    BY <1>5 DEF Crash, Go, TypeOK, UnderWay, Runners
  <2> QED
    BY <1>5, <2>1, BehindStays DEF Crash, row
<1>6. ASSUME NEW c \in Controllers, Asking(c) PROVE Behind'
  <2>1. CASE Requeue(c)
    <3>1. UnderWay' = UnderWay /\ UNCHANGED <<attempt, run>>
      BY <2>1 DEF Requeue, UnderWay
    <3>2. \A s \in UnderWay : run[s] \in overtaken'
      BY <2>1 DEF Requeue
    <3> QED
      BY <3>1, <3>2 DEF Behind
  <2>2. CASE ~Requeue(c)
    <3>1. UNCHANGED <<attempt, pc, run, overtaken>>
      BY <1>6, <2>2 DEF Asking, AskCancel, ReadCancel, CancelQueued, CancelRunning, AskRetry,
                        WriteCancelled, Reading, row
    <3>2. status' = "queued" /\ ~cancel' => status = "queued" /\ ~cancel
      BY <1>6, <2>2 DEF Asking, AskCancel, ReadCancel, CancelQueued, CancelRunning, AskRetry,
                        WriteCancelled, Reading, row
    <3> QED
      BY <3>1, <3>2, BehindStays DEF UnderWay
  <2> QED
    BY <2>1, <2>2
<1>7. CASE UNCHANGED vars
  BY <1>7, BehindStays DEF vars, row, UnderWay
<1> QED
  BY <1>1, <1>2, <1>3, <1>4, <1>5, <1>6, <1>7
     DEF Step, Executing, WorkerClaims, ExecutorClaims, Runners

\* Whatever is retried, executed by its id or killed, it holds.
LEMMA AlwaysBehind == Spec => []Behind
<1>1. Init => Behind
  BY DEF Init, Behind, UnderWay
<1> QED
  BY <1>1, StepBehind, TypeCorrect, PTL DEF Spec

\* Two workers at work at once are at different attempts, and the older one was
\* under way when the job was put back into the queue.
THEOREM OvertakenAlone == Spec => []OnlyOvertaken
<1>1. Init => Numbered
  BY DEF Init, Numbered, Busy, Runners
<1>2. TypeOK /\ Numbered /\ Behind => OnlyOvertaken
  <2> SUFFICES ASSUME TypeOK, Numbered, Behind,
                      NEW v \in Workers, NEW w \in Workers, Busy(v), Busy(w), v # w
               PROVE  run[v] # run[w] /\ (run[v] < run[w] => run[v] \in overtaken)
    BY DEF OnlyOvertaken
  <2>1. v \in UnderWay /\ run[v] \in Nat /\ run[w] \in Nat /\ attempt \in Nat
    BY JobsAssumption DEF TypeOK, Runners, UnderWay, Busy
  <2>2. run[w] <= attempt /\ run[v] # run[w]
    BY DEF Numbered
  <2>3. run[v] < run[w] => run[v] < attempt
    BY <2>1, <2>2
  <2> QED
    BY <2>1, <2>2, <2>3 DEF Behind
<1> QED
  BY <1>1, <1>2, StepNumbered, AlwaysBehind, TypeCorrect, PTL DEF Spec

\* A result lands on the row from the run of its newest attempt, or from one
\* that a retry has overtaken, in whatever order their writes come.
THEOREM ResultStaysNewest == Spec => []ResultIsNewest
<1>1. Init => ResultIsNewest
  BY DEF Init, ResultIsNewest
<1>2. TypeOK /\ Behind /\ ResultIsNewest /\ [Step]_vars => ResultIsNewest'
  <2> SUFFICES ASSUME TypeOK, Behind, ResultIsNewest, [Step]_vars PROVE ResultIsNewest'
    OBVIOUS
  <2>1. ASSUME NEW r \in Runners, Complete(r) PROVE ResultIsNewest'
    <3>1. r \in UnderWay /\ run[r] \in Nat /\ attempt \in Nat
      BY <2>1, JobsAssumption DEF Complete, UnderWay, TypeOK
    <3>2. run[r] = attempt \/ run[r] \in overtaken
      BY <3>1 DEF Behind
    <3> QED
      BY <2>1, <3>2 DEF Complete, ResultIsNewest
  <2>2. ASSUME NEW r \in Runners, Claim(r) PROVE ResultIsNewest'
    BY <2>2 DEF Claim, ResultIsNewest
  <2>3. ASSUME NEW r \in Runners, Check(r) \/ Work(r) \/ Fail(r) \/ Stop(r)
        PROVE  ResultIsNewest'
    BY <2>3 DEF Check, Work, Fail, Stop, WriteCancelled, ResultIsNewest, row
  <2>4. ASSUME NEW x \in Executors, Execute(x) \/ ExecutorLoses(x) \/ ExecutorCancels(x)
        PROVE  ResultIsNewest'
    BY <2>4 DEF Execute, ExecutorLoses, ExecutorCancels, WriteCancelled, ResultIsNewest, row
  <2>5. ASSUME NEW w \in Workers, Crash(w) PROVE ResultIsNewest'
    BY <2>5 DEF Crash, ResultIsNewest, row
  <2>6. ASSUME NEW c \in Controllers, Asking(c) PROVE ResultIsNewest'
    BY <2>6 DEF Asking, AskCancel, ReadCancel, CancelQueued, CancelRunning, AskRetry, Requeue,
                WriteCancelled, Reading, ResultIsNewest, row
  <2>7. CASE UNCHANGED vars
    BY <2>7 DEF vars, row, ResultIsNewest
  <2> QED
    BY <2>1, <2>2, <2>3, <2>4, <2>5, <2>6, <2>7
       DEF Step, Executing, Running, WorkerClaims, ExecutorClaims, Runners
<1> QED
  BY <1>1, <1>2, AlwaysBehind, TypeCorrect, PTL DEF Spec
=============================================================================
