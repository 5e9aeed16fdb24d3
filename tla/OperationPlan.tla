--------------------------- MODULE OperationPlan ---------------------------
(***************************************************************************)
(* The leased execution of one Vault capture operation plan: the row of    *)
(* b3s_history.evidence_vault_operation_plans, the repository methods that *)
(* change it (each one a Postgres transaction that holds the row FOR       *)
(* UPDATE, hence one action here) and the executors that drive it, call by *)
(* call, with their heartbeat thread.                                      *)
(*                                                                         *)
(* Every attempt on a scan uses the same worker id ("vault-scan-<scan>"),  *)
(* so the lease owner never tells two executors apart: only the token and  *)
(* the generation of a claim do.  A fresh token is drawn with every        *)
(* generation, so the generation stands for both, and 0 for NULL.          *)
(*                                                                         *)
(* Canonical memory versions are counted: the brand's memory moves when an *)
(* adoption of any other scan is appended.  Time is what remains of the    *)
(* lease, in ticks.                                                        *)
(*                                                                         *)
(* ClaimableThoughStored, ClaimReusesGeneration, ClaimIgnoresLease,        *)
(* ClaimNeverReclaims, RunOnAnyParent, MayPersistOnStaleClock,             *)
(* PersistRepliesStored, FailUnfenced, FinalizeRepliesCompleted and        *)
(* FinalizeForgetsScan are mutated forms of operators of this module: no   *)
(* action uses them, they are there to show that the properties notice the *)
(* mistake.                                                                *)
(***************************************************************************)
EXTENDS Integers, FiniteSets

CONSTANTS
  Executors,      \* attempts that may execute the plan concurrently
  Plans,          \* the frozen plans to consider
  Contents,       \* candidate packets the analyzer may build
  NoResult,       \* the NULL of result_payload
  LeaseTicks,     \* lease_seconds
  MaxWait,        \* how long a sampled clock_timestamp() may age in a lock wait
  MaxVersion,     \* bound: last canonical memory version
  MaxGeneration,  \* bound: claims of the plan
  MaxFaults,      \* bound: crashes, analyzer and database errors, lost replies
  Timings         \* may the heartbeat of a live keeper be taken to beat expiry?

ASSUME PlanAssumption ==
  /\ LeaseTicks \in Nat \ {0}
  /\ MaxWait \in Nat
  /\ MaxVersion \in Nat
  /\ MaxGeneration \in Nat
  /\ MaxFaults \in Nat
  /\ Timings \subseteq BOOLEAN
  /\ Plans \subseteq [mode : {"baseline", "incremental_refresh", "diagnostic_full"},
                      kind : {"candidate_overlay", "no_delta"},
                      parent : 0 .. MaxVersion]

Versions == 0 .. MaxVersion

\* What the analyzer hands over: a payload, and the memory it was really built on.
Results == [content : Contents \cup {"delta", "unbuilt"}, parent : Versions]

ASSUME NoResultAssumption == NoResult \notin Results

Leased   == {"claimed", "running"}
Settled  == {"completed", "superseded"}
Statuses == {"pending", "not_required", "result_persisted", "failed_retryable"}
              \cup Leased \cup Settled

Row == [status : Statuses, lease_generation : 0 .. MaxGeneration,
        lease_token : 0 .. MaxGeneration, ttl : (0 - MaxWait) .. LeaseTicks,
        result : Results \cup {NoResult}]

Steps == {"idle", "mark", "run", "build", "stop", "beat", "persist", "fail",
          "source", "check", "packet", "conflict", "finalize"}

VARIABLES
  timely,      \* may a lease be taken to run out on the dead only? (fixed at the start)
  plan,        \* the immutable plan: mode, expected output kind, parent version
  row,         \* the operation plan row
  registered,  \* packets of the result in the packet store
  analysis,    \* scan_runs.metadata.analysis_status
  memory,      \* version of the brand's current operational memory
  pc,          \* where each executor is in execute_vault_operation_plan
  lease,       \* the lease token and generation each executor holds
  out,         \* the result each executor has built or was given
  keeper,      \* its _LeaseKeeper thread
  reply,       \* what its last attempt told the caller
  faults       \* faults so far

rowVars == <<timely, plan, row, registered, analysis, memory>>
vars == <<timely, plan, row, registered, analysis, memory, pc, lease, out, keeper, reply, faults>>

Init ==
  /\ timely \in Timings
  /\ plan \in Plans
  /\ memory \in {v \in Versions : v >= plan.parent}
  /\ analysis = IF plan.kind = "candidate_overlay" \/ plan.mode = "diagnostic_full"
                THEN "pending" ELSE "not_required"
  /\ row = [status |-> analysis, lease_generation |-> 0, lease_token |-> 0,
            ttl |-> 0, result |-> NoResult]
  /\ registered = {}
  /\ pc = [e \in Executors |-> "idle"]
  /\ lease = [e \in Executors |-> 0]
  /\ out = [e \in Executors |-> NoResult]
  /\ keeper = [e \in Executors |-> "off"]
  /\ reply = [e \in Executors |-> "none"]
  /\ faults = 0

-----------------------------------------------------------------------------
(* The repository's view of the row *)

ParentStale == plan.mode # "diagnostic_full" /\ memory # plan.parent

\* _lease_matches: owner, token and generation are those of the caller.
LeaseMatches(e) == lease[e] # 0 /\ row.lease_token = lease[e]
                   /\ row.lease_generation = lease[e]

\* db_now is sampled when the row is selected, up to MaxWait ticks before the
\* transaction gets its locks: an expired lease may still look active.
SeenActive == {row.ttl + d > 0 : d \in 0 .. MaxWait}

\* Holding the lease as _advance_capture_operation_lease and fail require it.
MayAdvance(e, allowed) == row.status \in allowed /\ LeaseMatches(e) /\ TRUE \in SeenActive
MayRefuse(e, allowed) == ~(row.status \in allowed /\ LeaseMatches(e)) \/ FALSE \in SeenActive

Release(status) == [row EXCEPT !.status = status, !.lease_token = 0, !.ttl = 0]

Goto(e, step) == pc' = [pc EXCEPT ![e] = step]

\* The attempt ends and its locals are gone.
Return(e, answer) ==
  /\ Goto(e, "idle")
  /\ lease' = [lease EXCEPT ![e] = 0]
  /\ out' = [out EXCEPT ![e] = NoResult]
  /\ keeper' = [keeper EXCEPT ![e] = "off"]
  /\ reply' = [reply EXCEPT ![e] = answer]

Continue(e, step) == Goto(e, step) /\ UNCHANGED <<lease, out, keeper, reply>>

Fault == faults < MaxFaults /\ faults' = faults + 1

-----------------------------------------------------------------------------
(* claim_capture_operation_plan and the branching on what it returns *)

ClaimSettled(e) ==
  /\ pc[e] = "idle"
  /\ row.status \in Settled
  /\ Return(e, row.status)
  /\ UNCHANGED <<rowVars, faults>>

\* A stored result needs no lease: any executor may materialize it.
ClaimStored(e) ==
  /\ pc[e] = "idle"
  /\ row.status = "result_persisted"
  /\ out' = [out EXCEPT ![e] = row.result]
  /\ Goto(e, IF plan.kind = "candidate_overlay" THEN "source" ELSE "finalize")
  /\ UNCHANGED <<rowVars, lease, keeper, reply, faults>>

ClaimableThoughStored == row.status \notin Settled

Claimable == row.status \notin Settled \cup {"result_persisted"}

\* Even a live lease loses a plan whose parent memory has moved.
ClaimSupersedes(e) ==
  /\ pc[e] = "idle"
  /\ Claimable
  /\ ParentStale
  /\ row' = Release("superseded")
  /\ Return(e, "superseded")
  /\ UNCHANGED <<timely, plan, registered, analysis, memory, faults>>

ClaimRefused(e) ==
  /\ pc[e] = "idle"
  /\ Claimable
  /\ ~ParentStale
  /\ row.status \in Leased /\ TRUE \in SeenActive
  /\ Return(e, "busy")
  /\ UNCHANGED <<rowVars, faults>>

Acquire(e, generation) ==
  /\ pc[e] = "idle"
  /\ Claimable
  /\ ~ParentStale
  /\ row' = [row EXCEPT !.status = "claimed", !.lease_generation = generation,
                        !.lease_token = generation, !.ttl = LeaseTicks]
  /\ lease' = [lease EXCEPT ![e] = generation]
  /\ Goto(e, "mark")
  /\ UNCHANGED <<timely, plan, registered, analysis, memory, out, keeper, reply, faults>>

ClaimReusesGeneration(e) ==
  /\ row.status \in Leased => FALSE \in SeenActive
  /\ Acquire(e, IF row.lease_generation = 0 THEN 1 ELSE row.lease_generation)
ClaimIgnoresLease(e) ==
  row.lease_generation < MaxGeneration /\ Acquire(e, row.lease_generation + 1)
ClaimNeverReclaims(e) ==
  /\ row.status \notin Leased
  /\ row.lease_generation < MaxGeneration
  /\ Acquire(e, row.lease_generation + 1)

\* A new claim, or one whose lease has run out, under the next generation.
ClaimAcquires(e) ==
  /\ row.status \in Leased => FALSE \in SeenActive
  /\ row.lease_generation < MaxGeneration
  /\ Acquire(e, row.lease_generation + 1)

Claim(e) ==
  \/ ClaimSettled(e)
  \/ ClaimStored(e)
  \/ ClaimSupersedes(e)
  \/ ClaimRefused(e)
  \/ ClaimAcquires(e)

-----------------------------------------------------------------------------
(* mark_capture_operation_running, the heartbeat and the build *)

\* A refusal is raised before the try block: the claim is left to expire.
MarkRunning(e) ==
  /\ pc[e] = "mark"
  /\ \/ /\ MayAdvance(e, {"claimed"})
        /\ row' = [row EXCEPT !.status = "running", !.ttl = LeaseTicks]
        /\ keeper' = [keeper EXCEPT ![e] = "on"]
        /\ Goto(e, "run")
        /\ UNCHANGED <<lease, out, reply>>
     \/ /\ MayRefuse(e, {"claimed"})
        /\ Return(e, "raised")
        /\ UNCHANGED row
  /\ UNCHANGED <<timely, plan, registered, analysis, memory, faults>>

KeeperBeat(e) ==
  /\ keeper[e] = "on"
  /\ \/ /\ MayAdvance(e, Leased)
        /\ row' = [row EXCEPT !.ttl = LeaseTicks]
        /\ UNCHANGED keeper
        /\ UNCHANGED faults
     \/ /\ (MayRefuse(e, Leased) /\ UNCHANGED faults) \/ Fault
        /\ keeper' = [keeper EXCEPT ![e] = "failed"]
        /\ UNCHANGED row
  /\ UNCHANGED <<timely, plan, registered, analysis, memory, pc, lease, out, reply>>

RunOnAnyParent(e) ==
  /\ pc[e] = "run"
  /\ plan.mode # "diagnostic_full"
  /\ IF plan.kind = "no_delta"
     THEN /\ Goto(e, "stop")
          /\ out' = [out EXCEPT ![e] = [content |-> "delta", parent |-> plan.parent]]
     ELSE /\ Goto(e, "build")
          /\ out' = [out EXCEPT ![e] = [content |-> "unbuilt", parent |-> memory]]
  /\ UNCHANGED <<rowVars, lease, keeper, reply, faults>>

\* The head of the try block: the mode, the no-delta result, or the memory the
\* candidate is going to be built on.  The analyzer the plan names may be gone.
Run(e) ==
  /\ pc[e] = "run"
  /\ \/ plan.mode = "diagnostic_full" /\ Goto(e, "fail") /\ UNCHANGED <<out, faults>>
     \/ Fault /\ Goto(e, "fail") /\ UNCHANGED out
     \/ /\ plan.mode # "diagnostic_full" /\ plan.kind = "no_delta"
        /\ Goto(e, "stop")
        /\ out' = [out EXCEPT ![e] = [content |-> "delta", parent |-> plan.parent]]
        /\ UNCHANGED faults
     \/ /\ plan.mode # "diagnostic_full" /\ plan.kind # "no_delta"
        /\ IF ParentStale THEN Goto(e, "fail") ELSE Goto(e, "build")
        /\ out' = [out EXCEPT ![e] = [content |-> "unbuilt", parent |-> memory]]
        /\ UNCHANGED faults
  /\ UNCHANGED <<rowVars, lease, keeper, reply>>

Build(e) ==
  /\ pc[e] = "build"
  /\ \/ /\ \E content \in Contents :
             out' = [out EXCEPT ![e] = [content |-> content, parent |-> out[e].parent]]
        /\ Goto(e, "stop")
        /\ UNCHANGED faults
     \/ Fault /\ Goto(e, "fail") /\ UNCHANGED out
  /\ UNCHANGED <<rowVars, lease, keeper, reply>>

StopKeeper(e) ==
  /\ pc[e] = "stop"
  /\ keeper' = [keeper EXCEPT ![e] = "off"]
  /\ Goto(e, IF keeper[e] = "failed" THEN "fail" ELSE "beat")
  /\ UNCHANGED <<rowVars, lease, out, reply, faults>>

FinalBeat(e) ==
  /\ pc[e] = "beat"
  /\ \/ /\ MayAdvance(e, Leased)
        /\ row' = [row EXCEPT !.ttl = LeaseTicks]
        /\ Goto(e, "persist") /\ UNCHANGED faults
     \/ /\ (MayRefuse(e, Leased) /\ UNCHANGED faults) \/ Fault
        /\ Goto(e, "fail") /\ UNCHANGED row
  /\ UNCHANGED <<timely, plan, registered, analysis, memory, lease, out, keeper, reply>>

-----------------------------------------------------------------------------
(* persist_capture_operation_result and fail_capture_operation_plan *)

MayPersistOnStaleClock(e) == MayAdvance(e, {"running"})

\* The result declares the plan's own version, which the validation compares to
\* the plan: it cannot tell on which memory the result was really built.  The
\* clock is read again after the last lock: no stale sample here.
MayPersist(e) == row.status = "running" /\ LeaseMatches(e) /\ row.ttl > 0

\* The commit may succeed and its reply be lost: the executor takes the
\* exception path all the same.
PersistStores(e) ==
  /\ pc[e] = "persist"
  /\ row.result = NoResult
  /\ MayPersist(e)
  /\ row' = [Release(IF ParentStale THEN "superseded" ELSE "result_persisted")
               EXCEPT !.result = out[e]]
  /\ \/ Fault /\ Continue(e, "fail")
     \/ /\ UNCHANGED faults
        /\ IF ParentStale THEN Return(e, "superseded")
           ELSE Continue(e, IF plan.kind = "candidate_overlay" THEN "source" ELSE "finalize")
  /\ UNCHANGED <<timely, plan, registered, analysis, memory>>

PersistRepliesStored(e) ==
  /\ pc[e] = "persist"
  /\ row.result # NoResult
  /\ IF row.status = "superseded" THEN Return(e, "superseded")
     ELSE Continue(e, IF plan.kind = "candidate_overlay" THEN "source" ELSE "finalize")
  /\ UNCHANGED <<rowVars, faults>>

\* The very same payload is answered from the row, whoever asks.
PersistReplays(e) ==
  /\ pc[e] = "persist"
  /\ row.result = out[e]
  /\ IF row.status = "superseded" THEN Return(e, "superseded")
     ELSE Continue(e, IF plan.kind = "candidate_overlay" THEN "source" ELSE "finalize")
  /\ UNCHANGED <<rowVars, faults>>

PersistRefused(e) ==
  /\ pc[e] = "persist"
  /\ \/ /\ row.result # out[e]
        /\ row.result # NoResult \/ ~MayPersist(e)
        /\ UNCHANGED faults
     \/ Fault
  /\ Continue(e, "fail")
  /\ UNCHANGED rowVars

Persist(e) == PersistStores(e) \/ PersistReplays(e) \/ PersistRefused(e)

FailUnfenced(e) ==
  /\ pc[e] = "fail"
  /\ row' = IF row.status \in Leased THEN Release("failed_retryable") ELSE row
  /\ Return(e, "raised")
  /\ UNCHANGED <<timely, plan, registered, analysis, memory, faults>>

\* The exception handler: an error while failing the plan is swallowed.
FailPlan(e) ==
  /\ pc[e] = "fail"
  /\ \/ MayAdvance(e, Leased) /\ row' = Release("failed_retryable")
     \/ MayRefuse(e, Leased) /\ UNCHANGED row
  /\ Return(e, "raised")
  /\ UNCHANGED <<timely, plan, registered, analysis, memory, faults>>

-----------------------------------------------------------------------------
(* _materialize_and_finalize_result *)

RegisterSource(e) ==
  /\ pc[e] = "source"
  /\ \/ /\ row.status = "result_persisted" /\ memory = plan.parent
        /\ registered' = registered \cup {"source"}
        /\ Continue(e, "check")
     \/ /\ row.status = "result_persisted" /\ memory # plan.parent
        /\ Continue(e, "conflict") /\ UNCHANGED registered
     \/ /\ row.status = "completed"
        /\ IF "source" \in registered THEN Continue(e, "check") ELSE Return(e, "raised")
        /\ UNCHANGED registered
     \/ /\ row.status \notin {"result_persisted", "completed"}
        /\ Return(e, "raised") /\ UNCHANGED registered
  /\ UNCHANGED <<timely, plan, row, analysis, memory, faults>>

CheckCompleted(e) ==
  /\ pc[e] = "check"
  /\ IF row.status = "completed" THEN Return(e, "completed") ELSE Continue(e, "packet")
  /\ UNCHANGED <<rowVars, faults>>

RegisterPacket(e) ==
  /\ pc[e] = "packet"
  /\ \/ /\ row.status \in {"result_persisted", "completed"} /\ "source" \in registered
        /\ memory = plan.parent
        /\ registered' = registered \cup {"operational"}
        /\ Continue(e, "finalize")
     \/ /\ row.status \in {"result_persisted", "completed"} /\ "source" \in registered
        /\ memory # plan.parent
        /\ Continue(e, "conflict") /\ UNCHANGED registered
     \/ /\ row.status \notin {"result_persisted", "completed"} \/ "source" \notin registered
        /\ Return(e, "raised") /\ UNCHANGED registered
  /\ UNCHANGED <<timely, plan, row, analysis, memory, faults>>

Packets == IF plan.kind = "candidate_overlay" THEN {"source", "operational"} ELSE {}

FinalizeRepliesCompleted(e) ==
  /\ pc[e] \in {"conflict", "finalize"}
  /\ row.status \in Settled /\ row.result = out[e]
  /\ Return(e, "completed")
  /\ UNCHANGED <<rowVars, faults>>

\* finalize_capture_operation_plan.  After a stale parent ("conflict") only a
\* superseded plan is an answer: anything else re-raises the conflict.
FinalizeReplays(e) ==
  /\ pc[e] \in {"conflict", "finalize"}
  /\ row.status \in Settled /\ row.result = out[e]
  /\ Return(e, IF pc[e] = "conflict" /\ row.status # "superseded" THEN "raised" ELSE row.status)
  /\ UNCHANGED <<rowVars, faults>>

FinalizeSupersedes(e) ==
  /\ pc[e] \in {"conflict", "finalize"}
  /\ row.status = "result_persisted" /\ row.result = out[e]
  /\ ParentStale
  /\ row' = [row EXCEPT !.status = "superseded"]
  /\ Return(e, "superseded")
  /\ UNCHANGED <<timely, plan, registered, analysis, memory, faults>>

FinalizeForgetsScan(e) ==
  /\ pc[e] \in {"conflict", "finalize"}
  /\ row.status = "result_persisted" /\ row.result = out[e]
  /\ ~ParentStale
  /\ Packets \subseteq registered
  /\ row' = [row EXCEPT !.status = "completed"]
  /\ Return(e, "completed")
  /\ UNCHANGED <<timely, plan, registered, analysis, memory, faults>>

\* The plan row and the scan's metadata change in one transaction.
FinalizeCompletes(e) ==
  /\ pc[e] \in {"conflict", "finalize"}
  /\ row.status = "result_persisted" /\ row.result = out[e]
  /\ ~ParentStale
  /\ Packets \subseteq registered
  /\ row' = [row EXCEPT !.status = "completed"]
  /\ analysis' = "completed"
  /\ Return(e, IF pc[e] = "conflict" THEN "raised" ELSE "completed")
  /\ UNCHANGED <<timely, plan, registered, memory, faults>>

Finalize(e) == FinalizeReplays(e) \/ FinalizeSupersedes(e) \/ FinalizeCompletes(e)

-----------------------------------------------------------------------------
(* The environment *)

\* The process of an executor dies: its thread and its keeper with it.  A call
\* outside the try block that raises leaves the row behind in the same way.
Crash(e) ==
  /\ pc[e] # "idle"
  /\ Fault
  /\ Return(e, "none")
  /\ UNCHANGED rowVars

\* append_evidence_vault_operational_adoption for the same brand.
Adopt ==
  /\ memory < MaxVersion
  /\ memory' = memory + 1
  /\ UNCHANGED <<timely, plan, row, registered, analysis, pc, lease, out, keeper, reply, faults>>

\* The keeper beats three times per lease and the calls around its life are
\* short: when timely, a lease only runs out on an executor that is gone.
Kept == \E e \in Executors : keeper[e] # "failed" /\ LeaseMatches(e)

Tick ==
  /\ row.status \in Leased
  /\ row.ttl > 0 - MaxWait
  /\ timely /\ row.ttl = 1 => ~Kept
  /\ row' = [row EXCEPT !.ttl = @ - 1]
  /\ UNCHANGED <<timely, plan, registered, analysis, memory, pc, lease, out, keeper, reply, faults>>

Execute(e) ==
  \/ MarkRunning(e) \/ Run(e) \/ Build(e) \/ StopKeeper(e) \/ FinalBeat(e)
  \/ Persist(e) \/ FailPlan(e)
  \/ RegisterSource(e) \/ CheckCompleted(e) \/ RegisterPacket(e) \/ Finalize(e)

Next ==
  \/ \E e \in Executors : Claim(e) \/ KeeperBeat(e) \/ Execute(e) \/ Crash(e)
  \/ Adopt
  \/ Tick

Spec == Init /\ [][Next]_vars

\* Fairness: the executor threads and their keepers run, time passes, and the
\* plan is retried (a resume of the scan) for as long as it is not settled.
Fairness ==
  /\ \A e \in Executors : /\ WF_vars(Claim(e))
                          /\ WF_vars(Execute(e))
                          /\ WF_vars(KeeperBeat(e))
  /\ WF_vars(Tick)

FairSpec == Spec /\ Fairness

-----------------------------------------------------------------------------
(* Properties *)

\* Every variable stays in its domain.
TypeOK ==
  /\ timely \in Timings
  /\ plan \in Plans
  /\ row \in Row
  /\ registered \subseteq {"source", "operational"}
  /\ analysis \in {"pending", "not_required", "completed"}
  /\ memory \in Versions
  /\ pc \in [Executors -> Steps]
  /\ lease \in [Executors -> 0 .. MaxGeneration]
  /\ out \in [Executors -> Results \cup {NoResult}]
  /\ keeper \in [Executors -> {"off", "on", "failed"}]
  /\ reply \in [Executors -> {"none", "raised", "busy", "completed", "superseded"}]
  /\ faults \in 0 .. MaxFaults

\* The CHECK constraints of the table never reject what the methods write: the
\* lease columns are set exactly while leased, a result is stored exactly from
\* result_persisted on (a superseded plan may hold one or not).
RowChecks ==
  /\ row.status \in Leased <=> row.lease_token # 0
  /\ row.status \in {"result_persisted", "completed"} => row.result # NoResult
  /\ row.result # NoResult => row.status \in {"result_persisted"} \cup Settled

\* However attempts overlap, expire and crash, at most one of them holds the
\* lease the row names: the token and the generation fence the others.
OneHolder ==
  \A e, f \in Executors : LeaseMatches(e) /\ LeaseMatches(f) => e = f

\* An attempt that is preparing or building the result, with its keeper well.
AtWork(e) ==
  /\ pc[e] \in {"mark", "run", "build", "stop", "beat", "persist"}
  /\ keeper[e] # "failed"

\* While heartbeats beat expiry the result is not built twice at a time: unless
\* the memory moves, nobody takes the plan from an executor that is at work.
OneBuilder ==
  timely /\ ~ParentStale => \A e, f \in Executors : AtWork(e) /\ AtWork(f) => e = f

\* Whoever materializes a result, with a lease or without, has the very result
\* that is stored, and finalizes it with its packets in the store or with the
\* parent memory gone: no finalization is refused.
MaterializesStored ==
  \A e \in Executors :
    pc[e] \in {"source", "check", "packet", "conflict", "finalize"} =>
      /\ row.result = out[e]
      /\ pc[e] \in {"check", "packet"} => "source" \in registered
      /\ pc[e] = "finalize" => Packets \subseteq registered
      /\ pc[e] = "conflict" => ParentStale

\* A stored result was built on the memory the plan was frozen against.
ResultOnParent == row.result # NoResult => row.result.parent = plan.parent

\* A completed plan has every packet of its result in the store, and its scan
\* says so: no crash or second executor completes a plan half materialized.
CompletedMaterialized ==
  row.status = "completed" => Packets \subseteq registered /\ analysis = "completed"

\* Work is only thrown away because the canonical memory moved.
SupersededJustified == row.status = "superseded" => memory # plan.parent

\* What an attempt told its caller about the plan stays true for ever.
ReplyTruthful ==
  \A e \in Executors : reply[e] \in Settled => row.status = reply[e]

\* A result is only stored by the executor of the newest claim, in time.
WriteByHolder ==
  row'.result # row.result =>
    \E e \in Executors : /\ pc[e] = "persist" /\ row'.result = out[e]
                        /\ lease[e] = row.lease_generation /\ row.ttl > 0
                        /\ \A f \in Executors \ {e} : lease[f] < lease[e]

\* The result is written by the executor of the newest claim, while its lease
\* has not run out: a late worker never writes.
FencedWrite == [][WriteByHolder]_vars

EndedByHolder ==
  row.status \in Leased /\ row.ttl > 0 /\ row'.lease_token # row.lease_token =>
    \/ row'.status = "superseded" /\ ParentStale
    \/ \E e \in Executors : lease[e] = row.lease_token /\ pc[e] \in {"persist", "fail"}

\* A live lease ends by its holder's own hand or because the parent moved: no
\* other attempt takes or fails it.
LiveLeaseKept == [][EndedByHolder]_vars

\* While heartbeats beat expiry and the plan is retried for as long as it takes,
\* an incremental plan settles, whatever crashed on the way.
EventuallySettled ==
  timely /\ plan.mode # "diagnostic_full" => <>[](row.status \in Settled)

-----------------------------------------------------------------------------
(* Refinement: seen from outside, the plan is a write-once outcome. *)

Outcome == INSTANCE PlanOutcome WITH
  Values <- Results,
  NoValue <- NoResult,
  phase <- CASE row.status = "result_persisted" -> "stored"
             [] row.status \in Settled -> row.status
             [] OTHER -> "open",
  value <- row.result

ImplementsOutcome == Outcome!Spec
=============================================================================
