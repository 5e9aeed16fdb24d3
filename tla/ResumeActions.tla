----------------------------- MODULE ResumeActions -----------------------------
(***************************************************************************)
(* The exact resumes of one scan: requests reserve an action under their   *)
(* Idempotency-Key, start it and hand it to a thread, which takes the      *)
(* ownership of the scan, runs the frozen operation, publishes a report    *)
(* and only then writes how the action ended.  The ordinary run of the     *)
(* scan owns it until its thread leaves.                                   *)
(*                                                                         *)
(* A replay of a key and a conflict with an active action change nothing   *)
(* and are not actions.  The action's row is in SQLite and the reports are *)
(* in the report store: both outlive the process.  Threads and owners do   *)
(* not.                                                                    *)
(*                                                                         *)
(* ReserveAnyway, AcquireAnyway, PublishInPlace, PublishThenCheck,         *)
(* ReleaseCompleted and RecoverRunning are mutated forms of the operators  *)
(* that follow them: no action uses them, they are there to show that the  *)
(* properties notice the mistake.                                          *)
(***************************************************************************)

CONSTANTS
  Keys,     \* idempotency keys, one action each
  Faults,   \* what to assume of the stores and the threads: {FALSE}, {TRUE} or both
  Crashes   \* TRUE: the process may be restarted

ASSUME ResumeAssumption ==
  /\ Faults \subseteq BOOLEAN /\ Crashes \in BOOLEAN
  /\ "none" \notin Keys /\ "ordinary" \notin Keys

Active == {"accepted", "running"}
Final == {"completed", "failed", "interrupted"}
Reports == {"none", "unscored", "scored"}
Steps == {"idle", "launch", "thread", "unstarted", "acquire", "prepare", "authority",
          "publish", "no_score", "release", "finish", "refinish", "over"}

VARIABLES
  state,      \* b3s_scanner_resume_actions.state, "none" without a row
  pc,         \* where the request of each key, then its thread, is
  seen,       \* the scan's report as the thread found it
  outcome,    \* how the thread is going to say it ended
  named,      \* the report that says so: the scan's, a successor or another scan's
  owner,      \* _SCAN_OWNERS: "none", "ordinary" or the key of an action
  ordinary,   \* the ordinary run: "running", "leaving" or "over"
  current,    \* the report stored under the scan's own id
  successors, \* the actions with a report under an id of their own
  up,         \* the process is serving
  faults      \* in this run the stores may raise and a thread fail to start

thread == <<pc, seen, outcome, named>>
reports == <<current, successors>>
vars == <<state, thread, owner, ordinary, reports, up, faults>>

Init ==
  /\ state = [k \in Keys |-> "none"] /\ pc = [k \in Keys |-> "idle"]
  /\ seen = [k \in Keys |-> "none"]
  /\ outcome = [k \in Keys |-> "failed"] /\ named = [k \in Keys |-> "none"]
  /\ owner = "ordinary" /\ ordinary = "running"
  /\ current = "none" /\ successors = {}
  /\ up = TRUE
  /\ faults \in Faults

-----------------------------------------------------------------------------
(* The rows *)

\* reserve_scanner_resume_action, under BEGIN IMMEDIATE.
Free == \A k \in Keys : state[k] \notin Active
ReserveAnyway(k) == state[k] = "none" /\ state' = [state EXCEPT ![k] = "accepted"]
Reserve(k) == Free /\ state[k] = "none" /\ state' = [state EXCEPT ![k] = "accepted"]

\* _transition: a row only moves on from the state before.
Move(k, from, to) == state' = IF state[k] = from THEN [state EXCEPT ![k] = to] ELSE state

-----------------------------------------------------------------------------
(* The request *)

At(k, step) == pc[k] = step /\ up /\ UNCHANGED <<ordinary, up, faults>>
Go(k, step) == pc' = [pc EXCEPT ![k] = step]
Told == UNCHANGED <<seen, outcome, named>>

Request(k) ==
  /\ At(k, "idle") /\ Reserve(k)
  /\ Go(k, "launch") /\ Told
  /\ UNCHANGED <<owner, reports>>

Launch(k) ==
  /\ At(k, "launch") /\ Told
  /\ \/ Move(k, "accepted", "running") /\ Go(k, "thread")
     \/ faults /\ Go(k, "over") /\ UNCHANGED state
  /\ UNCHANGED <<owner, reports>>

StartThread(k) ==
  /\ At(k, "thread") /\ Told
  /\ Go(k, "acquire") \/ (faults /\ Go(k, "unstarted"))
  /\ UNCHANGED <<state, owner, reports>>

Unstarted(k) ==
  /\ At(k, "unstarted") /\ Told
  /\ Go(k, "over")
  /\ Move(k, "running", "failed") \/ (faults /\ UNCHANGED state)
  /\ UNCHANGED <<owner, reports>>

-----------------------------------------------------------------------------
(* The thread: _run_vault_exact_resume *)

Say(k, how, report) ==
  /\ outcome' = [outcome EXCEPT ![k] = how] /\ named' = [named EXCEPT ![k] = report]
  /\ UNCHANGED seen

Fails(k, step) == Say(k, "failed", "none") /\ Go(k, step)
Completes(k, report) == Say(k, "completed", report) /\ Go(k, "release")

AcquireAnyway(k) ==
  /\ At(k, "acquire")
  /\ owner' = k /\ Go(k, "prepare") /\ Told
  /\ UNCHANGED <<state, reports>>

\* Reading the action may raise; a scan with an owner is busy.
Acquire(k) ==
  /\ At(k, "acquire")
  /\ \/ owner = "none" /\ owner' = k /\ Go(k, "prepare") /\ Told
     \/ (owner # "none" \/ faults) /\ Fails(k, "finish") /\ UNCHANGED owner
  /\ UNCHANGED <<state, reports>>

\* The frozen operation may be found invalid.  A scan that has a score keeps
\* it; any other report is remembered for the publication to compare.
Prepare(k) ==
  /\ At(k, "prepare")
  /\ \/ Fails(k, "release")
     \/ current = "scored" /\ Completes(k, "current")
     \/ /\ current # "scored"
        /\ seen' = [seen EXCEPT ![k] = current] /\ Go(k, "authority")
        /\ UNCHANGED <<outcome, named>>
  /\ UNCHANGED <<state, owner, reports>>

\* The preparation and the authority application run to a publication or raise.
Authority(k) ==
  /\ At(k, "authority")
  /\ \/ Fails(k, "release")
     \/ Completes(k, "source")
     \/ (Go(k, "publish") \/ Go(k, "no_score")) /\ Told
  /\ UNCHANGED <<state, owner, reports>>

Mine(k) == owner = k /\ current = seen[k]

PublishInPlace(k) ==
  /\ At(k, "publish")
  /\ current' = "scored" /\ Completes(k, "current")
  /\ UNCHANGED <<state, owner, successors>>

PublishThenCheck(k) ==
  /\ At(k, "publish")
  /\ successors' = successors \cup {k}
  /\ Completes(k, "successor") \/ Fails(k, "release")
  /\ UNCHANGED <<state, owner, current>>

\* _publish_exact_report; reading the report back may raise after the save.
Publish(k) ==
  /\ At(k, "publish")
  /\ \/ /\ Mine(k)
        /\ successors' = successors \cup {k}
        /\ Completes(k, "successor") \/ (faults /\ Fails(k, "release"))
     \/ (~Mine(k) \/ faults) /\ Fails(k, "release") /\ UNCHANGED successors
  /\ UNCHANGED <<state, owner, current>>

\* A resume without a score stores one only where the scan has none.
NoScore(k) ==
  /\ At(k, "no_score")
  /\ \/ /\ Mine(k)
        /\ current' = IF current = "none" THEN "unscored" ELSE current
        /\ Completes(k, "current") \/ (faults /\ Fails(k, "release"))
     \/ (~Mine(k) \/ faults) /\ Fails(k, "release") /\ UNCHANGED current
  /\ UNCHANGED <<state, owner, successors>>

ReleaseCompleted(k) ==
  /\ At(k, "release")
  /\ owner' = IF owner = k /\ outcome[k] = "completed" THEN "none" ELSE owner
  /\ Go(k, "finish") /\ Told
  /\ UNCHANGED <<state, reports>>

Release(k) ==
  /\ At(k, "release")
  /\ owner' = IF owner = k THEN "none" ELSE owner
  /\ Go(k, "finish") /\ Told
  /\ UNCHANGED <<state, reports>>

\* _finish: what cannot be written is written as a failure, if that can be.
Finish(k) ==
  /\ At(k, "finish") /\ Told
  /\ \/ Move(k, "running", outcome[k]) /\ Go(k, "over")
     \/ faults /\ Go(k, "refinish") /\ UNCHANGED state
  /\ UNCHANGED <<owner, reports>>

Refinish(k) ==
  /\ At(k, "refinish") /\ Told
  /\ Move(k, "running", "failed") \/ UNCHANGED state
  /\ Go(k, "over")
  /\ UNCHANGED <<owner, reports>>

-----------------------------------------------------------------------------
(* The ordinary run, and the process *)

\* It may end without a report, too.
OrdinaryPublishes ==
  /\ up /\ ordinary = "running"
  /\ current' \in Reports /\ ordinary' = "leaving"
  /\ UNCHANGED <<state, thread, owner, successors, up, faults>>

OrdinaryLeaves ==
  /\ up /\ ordinary = "leaving"
  /\ ordinary' = "over" /\ owner' = "none"
  /\ UNCHANGED <<state, thread, reports, up, faults>>

Crash ==
  /\ Crashes /\ up
  /\ up' = FALSE
  /\ owner' = "none" /\ ordinary' = "over"
  /\ pc' = [k \in Keys |-> IF pc[k] = "idle" THEN "idle" ELSE "over"]
  /\ UNCHANGED <<state, seen, outcome, named, reports, faults>>

Interrupted(states) ==
  state' = [k \in Keys |-> IF state[k] \in states THEN "interrupted" ELSE state[k]]

RecoverRunning ==
  /\ ~up /\ up' = TRUE
  /\ Interrupted({"running"})
  /\ UNCHANGED <<thread, owner, ordinary, reports, faults>>

\* recover_interrupted_vault_exact_resume_actions, before anything is served.
Recover ==
  /\ ~up /\ up' = TRUE
  /\ Interrupted(Active)
  /\ UNCHANGED <<thread, owner, ordinary, reports, faults>>

Work(k) ==
  \/ Launch(k) \/ StartThread(k) \/ Unstarted(k) \/ Acquire(k) \/ Prepare(k)
  \/ Authority(k) \/ Publish(k) \/ NoScore(k) \/ Release(k) \/ Finish(k) \/ Refinish(k)

Next ==
  \/ \E k \in Keys : Request(k) \/ Work(k)
  \/ OrdinaryPublishes \/ OrdinaryLeaves \/ Crash \/ Recover

Spec == Init /\ [][Next]_vars

\* Threads run, what they call returns or raises, and a process that went
\* away is started again.
FairSpec == Spec /\ (\A k \in Keys : WF_vars(Work(k))) /\ WF_vars(Recover)

-----------------------------------------------------------------------------
(* Properties *)

\* Every variable has its type.
TypeOK ==
  /\ state \in [Keys -> {"none"} \cup Active \cup Final]
  /\ pc \in [Keys -> Steps] /\ seen \in [Keys -> Reports]
  /\ outcome \in [Keys -> {"completed", "failed"}]
  /\ named \in [Keys -> {"none", "current", "successor", "source"}]
  /\ owner \in Keys \cup {"none", "ordinary"}
  /\ ordinary \in {"running", "leaving", "over"}
  /\ current \in Reports /\ successors \subseteq Keys
  /\ up \in BOOLEAN /\ faults \in Faults

\* Two actions of the scan are never accepted or running at a time.
OneActive == \A j, k \in Keys : (state[j] \in Active /\ state[k] \in Active) => j = k

Owning(k) == pc[k] \in {"prepare", "authority", "publish", "no_score", "release"}

\* The ordinary run and the resumes work on the scan one at a time, through
\* crashes and failures to start, and whoever works is its owner.
OneWriter ==
  /\ \A k \in Keys : Owning(k) => owner = k
  /\ ordinary # "over" => owner = "ordinary"

\* An action that says it completed names a report that is in the store.
CompletedStands ==
  \A k \in Keys : state[k] = "completed" =>
    CASE named[k] = "current" -> current # "none"
      [] named[k] = "successor" -> k \in successors
      [] OTHER -> named[k] = "source"

\* A resume never changes the report the scan already has, whatever it finds.
SourceKept == [][current # "none" => current' = current]_vars

\* While the stores answer, an action that says it failed published nothing:
\* a client that retries under another key does not make a second report.
FailedPublishedNothing ==
  \A k \in Keys : ~faults /\ state[k] = "failed" => k \notin successors

\* Whatever raises and whenever the process stops, the scan is never left with
\* an owner that is gone: a later resume would find it busy for ever.
OwnerAttended ==
  /\ owner \in Keys => Owning(owner)
  /\ owner = "ordinary" => ordinary # "over"

\* So the table of owners says exactly who works on the scan, at any time.
OwnerWorks == OneWriter /\ OwnerAttended

\* While the stores answer, an action that is accepted or running has its
\* request or its thread, except between a crash and the recovery: what the
\* next request is refused for is always being worked on.
ActionAttended ==
  \A k \in Keys : ~faults /\ up /\ state[k] \in Active => pc[k] \notin {"idle", "over"}

\* While the stores answer, an action that was accepted ends, even if the
\* process is restarted under it.  Where they fail it may be left accepted or
\* running, and a restart ends it: no later one is refused beyond that.
EventuallyFinal ==
  \A k \in Keys : (state[k] \in Active /\ (faults => ~up)) ~> (state[k] \in Final)
=============================================================================
