------------------------ MODULE OperationPlan_proofs ------------------------
(***************************************************************************)
(* Theorems of OperationPlan, for any number of executors, any plans and   *)
(* any value of the bounds: type correctness, then an inductive invariant  *)
(* from which the fencing and outcome properties follow.                   *)
(***************************************************************************)
EXTENDS OperationPlan, TLAPS

\* The shape of the constants that the steps below use again and again.
LEMMA PlanShape ==
  ASSUME plan \in Plans
  PROVE  /\ plan.mode \in {"baseline", "incremental_refresh", "diagnostic_full"}
         /\ plan.kind \in {"candidate_overlay", "no_delta"}
         /\ plan.parent \in Versions
BY PlanAssumption DEF Versions

\* The bounds of the model are natural numbers.
LEMMA BoundsAreNat ==
  /\ LeaseTicks \in Nat \ {0} /\ MaxWait \in Nat /\ MaxVersion \in Nat
  /\ MaxGeneration \in Nat /\ MaxFaults \in Nat
BY PlanAssumption

\* Updates of one field stay in Row, and so do their compositions.
LEMMA RowField ==
  ASSUME NEW r \in Row, NEW s \in Statuses, NEW t \in 0 .. MaxGeneration,
         NEW d \in (0 - MaxWait) .. LeaseTicks, NEW v \in Results \cup {NoResult}
  PROVE  /\ [r EXCEPT !.status = s] \in Row
         /\ [r EXCEPT !.lease_generation = t] \in Row
         /\ [r EXCEPT !.lease_token = t] \in Row
         /\ [r EXCEPT !.ttl = d] \in Row
         /\ [r EXCEPT !.result = v] \in Row
BY DEF Row

\* What releasing or moving the lease leaves of the row.
LEMMA RowLease ==
  ASSUME NEW r \in Row, NEW s \in Statuses, NEW g \in 0 .. MaxGeneration,
         NEW t \in 0 .. MaxGeneration, NEW d \in (0 - MaxWait) .. LeaseTicks
  PROVE  /\ [r EXCEPT !.status = s, !.ttl = d] \in Row
         /\ [r EXCEPT !.status = s, !.lease_token = t, !.ttl = d] \in Row
         /\ [r EXCEPT !.status = s, !.lease_generation = g, !.lease_token = t, !.ttl = d] \in Row
<1> DEFINE a == [r EXCEPT !.status = s]
           b == [a EXCEPT !.lease_token = t]
           c == [a EXCEPT !.lease_generation = g]
           f == [c EXCEPT !.lease_token = t]
<1>1. a \in Row
  BY RowField
<1> HIDE DEF a
<1>2. b \in Row /\ c \in Row /\ [a EXCEPT !.ttl = d] \in Row
  BY <1>1, RowField
<1> HIDE DEF b, c
<1>3. [b EXCEPT !.ttl = d] \in Row /\ f \in Row
  BY <1>2, RowField
<1> HIDE DEF f
<1>4. [f EXCEPT !.ttl = d] \in Row
  BY <1>3, RowField
<1> QED
  BY <1>2, <1>3, <1>4 DEF a, b, c, f

\* A plan starts well typed.
LEMMA InitTypeOK == Init => TypeOK
<1> SUFFICES ASSUME Init PROVE TypeOK
    OBVIOUS
<1>1. plan \in Plans /\ memory \in Versions
  BY DEF Init
<1>2. analysis \in {"pending", "not_required", "completed"} /\ analysis \in Statuses
  BY DEF Init, Statuses
<1>3. row \in Row
  BY <1>2, BoundsAreNat DEF Init, Row
<1> QED
  BY <1>1, <1>2, <1>3, BoundsAreNat DEF Init, TypeOK, Steps

\* Ending an attempt keeps the locals of every executor in their domain.
LEMMA ReturnTyped ==
  ASSUME TypeOK, NEW e \in Executors,
         NEW answer \in {"none", "raised", "busy", "completed", "superseded"},
         Return(e, answer)
  PROVE  /\ pc' \in [Executors -> Steps]
         /\ lease' \in [Executors -> 0 .. MaxGeneration]
         /\ out' \in [Executors -> Results \cup {NoResult}]
         /\ keeper' \in [Executors -> {"off", "on", "failed"}]
         /\ reply' \in [Executors -> {"none", "raised", "busy", "completed", "superseded"}]
BY BoundsAreNat DEF TypeOK, Return, Goto, Steps

\* Release, the end of every refusal and failure, keeps the row well typed.
LEMMA ReleaseTyped ==
  ASSUME TypeOK, NEW status \in Statuses
  PROVE  Release(status) \in Row
<1>1. row \in Row /\ 0 \in 0 .. MaxGeneration /\ 0 \in (0 - MaxWait) .. LeaseTicks
  BY BoundsAreNat DEF TypeOK
<1> QED
  BY <1>1, RowLease, Zenon DEF Release

\* Past the build, an executor holds a result, and it was built on the memory
\* the plan was frozen against.
Built ==
  \A e \in Executors :
    pc[e] \in {"build", "stop", "beat", "persist", "source", "check", "packet",
              "conflict", "finalize"} =>
      out[e] \in Results /\ out[e].parent = plan.parent

\* Every action keeps every variable in its domain.
LEMMA NextTypeOK == TypeOK /\ Built /\ [Next]_vars => TypeOK'
<1> SUFFICES ASSUME TypeOK, Built, [Next]_vars PROVE TypeOK'
    OBVIOUS
<1> USE DEF TypeOK, rowVars
<1>1. ASSUME NEW e \in Executors, ClaimSettled(e) PROVE TypeOK'
  <2>1. Return(e, row.status) /\ row.status \in {"completed", "superseded"}
    BY <1>1 DEF ClaimSettled, Settled
  <2> QED
    BY <1>1, <2>1, ReturnTyped DEF ClaimSettled
<1>2. ASSUME NEW e \in Executors, ClaimStored(e) PROVE TypeOK'
  BY <1>2 DEF ClaimStored, Goto, Steps, Row
<1>3. ASSUME NEW e \in Executors, ClaimSupersedes(e) PROVE TypeOK'
  BY <1>3, ReturnTyped, ReleaseTyped DEF ClaimSupersedes, Statuses, Settled
<1>4. ASSUME NEW e \in Executors, ClaimRefused(e) PROVE TypeOK'
  BY <1>4, ReturnTyped DEF ClaimRefused
<1>5. ASSUME NEW e \in Executors, ClaimAcquires(e) PROVE TypeOK'
  <2>1. row.lease_generation + 1 \in 0 .. MaxGeneration
    BY <1>5, BoundsAreNat DEF ClaimAcquires, Row
  <2>2. row' \in Row
    <3>1. row \in Row /\ "claimed" \in Statuses /\ LeaseTicks \in (0 - MaxWait) .. LeaseTicks
      BY BoundsAreNat DEF Statuses, Leased
    <3> QED
      BY <1>5, <2>1, <3>1, RowLease, Zenon DEF ClaimAcquires, Acquire
  <2> QED
    BY <1>5, <2>1, <2>2 DEF ClaimAcquires, Acquire, Goto, Steps
<1>6. ASSUME NEW e \in Executors, MarkRunning(e) PROVE TypeOK'
  <2>1. CASE MayAdvance(e, {"claimed"}) /\ row' = [row EXCEPT !.status = "running", !.ttl = LeaseTicks]
             /\ keeper' = [keeper EXCEPT ![e] = "on"] /\ Goto(e, "run") /\ UNCHANGED <<lease, out, reply>>
    <3>1. row' \in Row
      <4>1. row \in Row /\ "running" \in Statuses /\ LeaseTicks \in (0 - MaxWait) .. LeaseTicks
        BY BoundsAreNat DEF Statuses, Leased
      <4> QED
        BY <2>1, <4>1, RowLease, Zenon
    <3> QED
      BY <1>6, <2>1, <3>1 DEF MarkRunning, Goto, Steps
  <2>2. CASE Return(e, "raised") /\ UNCHANGED row
    BY <1>6, <2>2, ReturnTyped DEF MarkRunning
  <2> QED
    BY <1>6, <2>1, <2>2 DEF MarkRunning
<1>7. ASSUME NEW e \in Executors, KeeperBeat(e) PROVE TypeOK'
  <2>1. row' \in Row
    BY <1>7, BoundsAreNat DEF KeeperBeat, Row
  <2>2. faults' \in 0 .. MaxFaults
    BY <1>7, BoundsAreNat DEF KeeperBeat, Fault
  <2> QED
    BY <1>7, <2>1, <2>2 DEF KeeperBeat
<1>8. ASSUME NEW e \in Executors, Run(e) PROVE TypeOK'
  <2>1. [content |-> "delta", parent |-> plan.parent] \in Results
    BY PlanShape DEF Results
  <2>2. [content |-> "unbuilt", parent |-> memory] \in Results
    BY DEF Results
  <2>3. out' \in [Executors -> Results \cup {NoResult}]
    BY <1>8, <2>1, <2>2 DEF Run
  <2>4. pc' \in [Executors -> Steps]
    BY <1>8 DEF Run, Goto, Steps
  <2>5. faults' \in 0 .. MaxFaults
    BY <1>8, BoundsAreNat DEF Run, Fault
  <2> QED
    BY <1>8, <2>3, <2>4, <2>5 DEF Run
<1>9. ASSUME NEW e \in Executors, Build(e) PROVE TypeOK'
  <2>1. ASSUME NEW content \in Contents
        PROVE  [content |-> content, parent |-> out[e].parent] \in Results
    BY <1>9 DEF Build, Built, Results
  <2>2. out' \in [Executors -> Results \cup {NoResult}]
    BY <1>9, <2>1 DEF Build
  <2>3. pc' \in [Executors -> Steps] /\ faults' \in 0 .. MaxFaults
    BY <1>9, BoundsAreNat DEF Build, Fault, Goto, Steps
  <2> QED
    BY <1>9, <2>2, <2>3 DEF Build
<1>10. ASSUME NEW e \in Executors, StopKeeper(e) PROVE TypeOK'
  BY <1>10 DEF StopKeeper, Goto, Steps
<1>11. ASSUME NEW e \in Executors, FinalBeat(e) PROVE TypeOK'
  <2>1. row' \in Row
    BY <1>11, BoundsAreNat DEF FinalBeat, Row
  <2>2. pc' \in [Executors -> Steps]
    BY <1>11 DEF FinalBeat, Goto, Steps
  <2>3. faults' \in 0 .. MaxFaults
    BY <1>11, BoundsAreNat DEF FinalBeat, Fault
  <2> QED
    BY <1>11, <2>1, <2>2, <2>3 DEF FinalBeat
<1>12. ASSUME NEW e \in Executors, PersistStores(e) PROVE TypeOK'
  <2>1. row' \in Row
    <3> DEFINE s == IF ParentStale THEN "superseded" ELSE "result_persisted"
    <3>1. Release(s) \in Row
      BY ReleaseTyped DEF Statuses, Settled
    <3> HIDE DEF s
    <3>2. out[e] \in Results \cup {NoResult}
      OBVIOUS
    <3>3. row' = [Release(s) EXCEPT !.result = out[e]]
      BY <1>12 DEF PersistStores, s
    <3> DEFINE r == Release(s)
    <3>4. r \in Row /\ row' = [r EXCEPT !.result = out[e]]
      BY <3>1, <3>3
    <3> HIDE DEF r
    <3> QED
      BY <3>2, <3>4 DEF Row
  <2>2. faults' \in 0 .. MaxFaults
    BY <1>12, BoundsAreNat DEF PersistStores, Fault
  <2>3. CASE Return(e, "superseded")
    BY <1>12, <2>1, <2>2, <2>3, ReturnTyped DEF PersistStores
  <2>4. ASSUME NEW step \in {"fail", "source", "finalize"}, Continue(e, step) PROVE TypeOK'
    <3>1. pc' \in [Executors -> Steps]
      BY <2>4 DEF Continue, Goto, Steps
    <3> QED
      BY <1>12, <2>1, <2>2, <2>4, <3>1 DEF PersistStores, Continue
  <2> QED
    BY <1>12, <2>3, <2>4 DEF PersistStores
<1>13. ASSUME NEW e \in Executors, PersistReplays(e) PROVE TypeOK'
  <2>1. CASE Return(e, "superseded")
    BY <1>13, <2>1, ReturnTyped DEF PersistReplays
  <2>2. ASSUME NEW step \in {"source", "finalize"}, Continue(e, step) PROVE TypeOK'
    BY <1>13, <2>2 DEF PersistReplays, Continue, Goto, Steps
  <2> QED
    BY <1>13, <2>1, <2>2 DEF PersistReplays
<1>14. ASSUME NEW e \in Executors, PersistRefused(e) PROVE TypeOK'
  <2>1. faults' \in 0 .. MaxFaults
    BY <1>14, BoundsAreNat DEF PersistRefused, Fault
  <2> QED
    BY <1>14, <2>1 DEF PersistRefused, Continue, Goto, Steps
<1>15. ASSUME NEW e \in Executors, FailPlan(e) PROVE TypeOK'
  <2>1. row' \in Row
    BY <1>15, ReleaseTyped DEF FailPlan, Statuses
  <2> QED
    BY <1>15, <2>1, ReturnTyped DEF FailPlan
<1>16. ASSUME NEW e \in Executors, RegisterSource(e) PROVE TypeOK'
  <2>1. registered' \subseteq {"source", "operational"}
    BY <1>16 DEF RegisterSource
  <2>2. CASE Return(e, "raised")
    BY <1>16, <2>1, <2>2, ReturnTyped DEF RegisterSource
  <2>3. ASSUME NEW step \in {"check", "conflict"}, Continue(e, step) PROVE TypeOK'
    BY <1>16, <2>1, <2>3 DEF RegisterSource, Continue, Goto, Steps
  <2> QED
    BY <1>16, <2>2, <2>3 DEF RegisterSource
<1>17. ASSUME NEW e \in Executors, CheckCompleted(e) PROVE TypeOK'
  <2>1. CASE Return(e, "completed")
    BY <1>17, <2>1, ReturnTyped DEF CheckCompleted
  <2>2. CASE Continue(e, "packet")
    BY <1>17, <2>2 DEF CheckCompleted, Continue, Goto, Steps
  <2> QED
    BY <1>17, <2>1, <2>2 DEF CheckCompleted
<1>18. ASSUME NEW e \in Executors, RegisterPacket(e) PROVE TypeOK'
  <2>1. registered' \subseteq {"source", "operational"}
    BY <1>18 DEF RegisterPacket
  <2>2. CASE Return(e, "raised")
    BY <1>18, <2>1, <2>2, ReturnTyped DEF RegisterPacket
  <2>3. ASSUME NEW step \in {"finalize", "conflict"}, Continue(e, step) PROVE TypeOK'
    BY <1>18, <2>1, <2>3 DEF RegisterPacket, Continue, Goto, Steps
  <2> QED
    BY <1>18, <2>2, <2>3 DEF RegisterPacket
<1>19. ASSUME NEW e \in Executors, FinalizeReplays(e) PROVE TypeOK'
  <2> DEFINE answer == IF pc[e] = "conflict" /\ row.status # "superseded"
                       THEN "raised" ELSE row.status
  <2>1. answer \in {"raised", "completed", "superseded"} /\ Return(e, answer)
    BY <1>19 DEF FinalizeReplays, Settled
  <2> HIDE DEF answer
  <2> QED
    BY <1>19, <2>1, ReturnTyped DEF FinalizeReplays
<1>20. ASSUME NEW e \in Executors, FinalizeSupersedes(e) PROVE TypeOK'
  <2>1. row' \in Row
    <3>1. row \in Row /\ "superseded" \in Statuses
      BY DEF Statuses, Settled
    <3>2. row' = [row EXCEPT !.status = "superseded"]
      BY <1>20 DEF FinalizeSupersedes
    <3> QED
      BY <3>1, <3>2 DEF Row
  <2> QED
    BY <1>20, <2>1, ReturnTyped DEF FinalizeSupersedes
<1>21. ASSUME NEW e \in Executors, FinalizeCompletes(e) PROVE TypeOK'
  <2>1. row' \in Row
    <3>1. row \in Row /\ "completed" \in Statuses
      BY DEF Statuses, Settled
    <3>2. row' = [row EXCEPT !.status = "completed"]
      BY <1>21 DEF FinalizeCompletes
    <3> QED
      BY <3>1, <3>2 DEF Row
  <2> QED
    BY <1>21, <2>1, ReturnTyped DEF FinalizeCompletes
<1>22. ASSUME NEW e \in Executors, Crash(e) PROVE TypeOK'
  BY <1>22, BoundsAreNat, ReturnTyped DEF Crash, Fault
<1>23. CASE Adopt
  BY <1>23, BoundsAreNat DEF Adopt, Versions
<1>24. CASE Tick
  <2>1. row' \in Row
    BY <1>24, BoundsAreNat DEF Tick, Row
  <2> QED
    BY <1>24, <2>1 DEF Tick
<1>25. CASE UNCHANGED vars
  BY <1>25 DEF vars
<1> QED
  BY <1>1, <1>2, <1>3, <1>4, <1>5, <1>6, <1>7, <1>8, <1>9, <1>10, <1>11, <1>12, <1>13, <1>14,
     <1>15, <1>16, <1>17, <1>18, <1>19, <1>20, <1>21, <1>22, <1>23, <1>24, <1>25
  DEF Next, Claim, Execute, Persist, Finalize

-----------------------------------------------------------------------------
(***************************************************************************)
(* What one step can do to the row.  The invariants below are proved from  *)
(* this classification, not from the actions.                              *)
(***************************************************************************)
SameLease == row'.lease_generation = row.lease_generation /\ row'.lease_token = row.lease_token

\* Nothing, the clock, or the start of a claimed plan.
Kept1 == /\ SameLease /\ row'.result = row.result
         /\ row'.status = row.status \/ (row.status = "claimed" /\ row'.status = "running")

Acquired1 == /\ Claimable /\ row'.status = "claimed" /\ row'.result = row.result
             /\ row.status \in Leased => row.ttl <= 0
             /\ row'.lease_generation = row.lease_generation + 1
             /\ row'.lease_token = row'.lease_generation

Released1 == /\ Claimable /\ row'.result = row.result
             /\ row'.lease_generation = row.lease_generation /\ row'.lease_token = 0
             /\ \/ /\ row'.status = "failed_retryable"
                   /\ \E e \in Executors : pc[e] = "fail" /\ LeaseMatches(e)
                \/ row'.status = "superseded" /\ ParentStale

Stored1 == /\ row.result = NoResult /\ row.status = "running" /\ row.ttl > 0
           /\ \E e \in Executors : pc[e] = "persist" /\ row'.result = out[e] /\ LeaseMatches(e)
           /\ row'.lease_generation = row.lease_generation /\ row'.lease_token = 0
           /\ row'.status = "result_persisted" \/ (row'.status = "superseded" /\ ParentStale)

Finalized1 == /\ row.status = "result_persisted" /\ SameLease /\ row'.result = row.result
              /\ \/ row'.status = "superseded" /\ ParentStale
                 \/ row'.status = "completed" /\ Packets \subseteq registered
                    /\ analysis' = "completed"

RowStep == Kept1 \/ Acquired1 \/ Released1 \/ Stored1 \/ Finalized1

\* What it can do to the rest of the durable state.
StoreStep == /\ plan' = plan
             /\ registered \subseteq registered'
             /\ analysis' = analysis \/ (analysis' = "completed" /\ row'.status = "completed")
             /\ memory' = memory \/ (memory' = memory + 1 /\ row' = row)

\* What it can do to the leases executors hold and to what they answered.
LeaseStep == \/ /\ \A f \in Executors : lease'[f] \in {0, lease[f]}
                /\ row'.lease_generation = row.lease_generation
             \/ \E e \in Executors : /\ lease' = [lease EXCEPT ![e] = row'.lease_generation]
                                     /\ row'.lease_generation = row.lease_generation + 1

ReplyStep == \A f \in Executors :
  reply'[f] = reply[f] \/ reply'[f] \notin Settled \/ reply'[f] = row'.status

\* A returning executor changes nothing but its own place.
LEMMA ReturnStep ==
  ASSUME TypeOK, NEW e \in Executors, NEW answer, Return(e, answer)
  PROVE  /\ \A f \in Executors : lease'[f] \in {0, lease[f]}
         /\ \A f \in Executors : reply'[f] = reply[f] \/ reply'[f] = answer
BY DEF Return, TypeOK

\* A step leaves the row alone, or is one of the repository's transactions.
LEMMA StepClassified ==
  ASSUME TypeOK, [Next]_vars
  PROVE  RowStep /\ StoreStep /\ LeaseStep /\ ReplyStep
<1> USE DEF rowVars
<1> DEFINE Goal == RowStep /\ StoreStep /\ LeaseStep /\ ReplyStep
<1>0. \A s \in Statuses : /\ Release(s).status = s /\ Release(s).lease_token = 0
                          /\ Release(s).result = row.result
                          /\ Release(s).lease_generation = row.lease_generation
  BY DEF Release, TypeOK, Row
<1>a. ASSUME UNCHANGED row PROVE RowStep
  BY <1>a DEF RowStep, Kept1, SameLease
<1>b. ASSUME UNCHANGED <<lease, reply>>, row'.lease_generation = row.lease_generation
      PROVE  LeaseStep /\ ReplyStep
  BY <1>b DEF LeaseStep, ReplyStep
<1>c. ASSUME NEW e \in Executors, NEW answer, Return(e, answer),
             row'.lease_generation = row.lease_generation,
             answer \notin Settled \/ answer = row'.status
      PROVE  LeaseStep /\ ReplyStep
  BY <1>c, ReturnStep DEF LeaseStep, ReplyStep
<1>1. ASSUME NEW e \in Executors, ClaimSettled(e) PROVE Goal
  BY <1>1, <1>a, <1>c DEF ClaimSettled, StoreStep
<1>2. ASSUME NEW e \in Executors, ClaimStored(e) PROVE Goal
  BY <1>2, <1>a, <1>b DEF ClaimStored, StoreStep
<1>3. ASSUME NEW e \in Executors, ClaimSupersedes(e) PROVE Goal
  <2>1. row'.status = "superseded" /\ row'.lease_token = 0 /\ row'.result = row.result
        /\ row'.lease_generation = row.lease_generation
    BY <1>3, <1>0 DEF ClaimSupersedes, Statuses, Settled
  <2> QED
    BY <1>3, <2>1, <1>c DEF ClaimSupersedes, StoreStep, RowStep, Released1
<1>4. ASSUME NEW e \in Executors, ClaimRefused(e) PROVE Goal
  BY <1>4, <1>a, <1>c DEF ClaimRefused, StoreStep, Settled
<1>5. ASSUME NEW e \in Executors, ClaimAcquires(e) PROVE Goal
  <2>1. /\ row'.status = "claimed" /\ row'.lease_generation = row.lease_generation + 1
        /\ row'.lease_token = row'.lease_generation /\ row'.result = row.result
    BY <1>5 DEF ClaimAcquires, Acquire, TypeOK, Row
  <2>2. lease' = [lease EXCEPT ![e] = row'.lease_generation]
    BY <1>5, <2>1 DEF ClaimAcquires, Acquire
  <2>3. ASSUME row.status \in Leased PROVE row.ttl <= 0
    <3>1. PICK d \in 0 .. MaxWait : ~(row.ttl + d > 0)
      BY <1>5, <2>3 DEF ClaimAcquires, SeenActive
    <3> QED
      BY <3>1, BoundsAreNat DEF TypeOK, Row
  <2> QED
    BY <1>5, <2>1, <2>2, <2>3 DEF ClaimAcquires, Acquire, StoreStep, RowStep, Acquired1, LeaseStep, ReplyStep
<1>6. ASSUME NEW e \in Executors, MarkRunning(e) PROVE Goal
  <2>1. CASE MayAdvance(e, {"claimed"}) /\ row' = [row EXCEPT !.status = "running", !.ttl = LeaseTicks]
             /\ UNCHANGED <<lease, reply>>
    <3>1. /\ row.status = "claimed" /\ row'.status = "running" /\ SameLease /\ row'.result = row.result
      BY <2>1 DEF MayAdvance, SameLease, TypeOK, Row
    <3> QED
      BY <1>6, <2>1, <3>1, <1>b DEF MarkRunning, StoreStep, RowStep, Kept1, SameLease
  <2>2. CASE Return(e, "raised") /\ UNCHANGED row
    BY <1>6, <2>2, <1>a, <1>c DEF MarkRunning, StoreStep, Settled
  <2> QED
    BY <1>6, <2>1, <2>2 DEF MarkRunning
<1>7. ASSUME NEW e \in Executors, KeeperBeat(e) \/ FinalBeat(e) PROVE Goal
  <2>1. SameLease /\ row'.status = row.status /\ row'.result = row.result
    BY <1>7 DEF KeeperBeat, FinalBeat, SameLease, TypeOK, Row
  <2> QED
    BY <1>7, <2>1, <1>b DEF KeeperBeat, FinalBeat, StoreStep, RowStep, Kept1, SameLease
<1>8. ASSUME NEW e \in Executors, Run(e) \/ Build(e) \/ StopKeeper(e) PROVE Goal
  BY <1>8, <1>a, <1>b DEF Run, Build, StopKeeper, StoreStep
<1>9. ASSUME NEW e \in Executors, PersistStores(e) PROVE Goal
  <2> DEFINE s == IF ParentStale THEN "superseded" ELSE "result_persisted"
  <2>1. /\ row'.status = s /\ row'.lease_token = 0 /\ row'.result = out[e]
        /\ row'.lease_generation = row.lease_generation
    <3>1. s \in Statuses
      BY DEF Statuses, Settled
    <3>2. row' = [Release(s) EXCEPT !.result = out[e]]
      BY <1>9 DEF PersistStores
    <3> HIDE DEF s
    <3>3. Release(s) \in Row
      BY <3>1, ReleaseTyped
    <3> DEFINE r == Release(s)
    <3>4. r \in Row /\ r.status = s /\ r.lease_token = 0 /\ r.lease_generation = row.lease_generation
          /\ row' = [r EXCEPT !.result = out[e]]
      BY <3>1, <3>2, <3>3, <1>0
    <3> HIDE DEF r
    <3> QED
      BY <3>4 DEF Row
  <2>2. RowStep
    BY <1>9, <2>1 DEF PersistStores, MayPersist, RowStep, Stored1
  <2>3. LeaseStep /\ ReplyStep
    <3>1. CASE ParentStale /\ Return(e, "superseded")
      BY <2>1, <3>1, <1>c
    <3>2. CASE UNCHANGED <<lease, reply>>
      BY <2>1, <3>2, <1>b
    <3> QED
      BY <1>9, <3>1, <3>2 DEF PersistStores, Continue
  <2> QED
    BY <1>9, <2>2, <2>3 DEF PersistStores, StoreStep
<1>10. ASSUME NEW e \in Executors, PersistReplays(e) PROVE Goal
  BY <1>10, <1>a, <1>b, <1>c DEF PersistReplays, StoreStep, Continue
<1>11. ASSUME NEW e \in Executors, PersistRefused(e) PROVE Goal
  BY <1>11, <1>a, <1>b DEF PersistRefused, StoreStep, Continue
<1>12. ASSUME NEW e \in Executors, FailPlan(e) PROVE Goal
  <2>1. CASE MayAdvance(e, Leased) /\ row' = Release("failed_retryable")
    <3>1. /\ row'.status = "failed_retryable" /\ row'.lease_token = 0 /\ row'.result = row.result
          /\ row'.lease_generation = row.lease_generation
      BY <2>1, <1>0 DEF Statuses
    <3>2. Claimable /\ pc[e] = "fail" /\ LeaseMatches(e)
      BY <1>12, <2>1 DEF FailPlan, MayAdvance, Claimable, Leased, Settled
    <3> QED
      BY <1>12, <3>1, <3>2, <1>c DEF FailPlan, StoreStep, RowStep, Released1, Settled
  <2>2. CASE UNCHANGED row
    BY <1>12, <2>2, <1>a, <1>c DEF FailPlan, StoreStep, Settled
  <2> QED
    BY <1>12, <2>1, <2>2 DEF FailPlan
<1>13. ASSUME NEW e \in Executors, RegisterSource(e) \/ RegisterPacket(e) PROVE Goal
  <2>1. UNCHANGED <<plan, row, analysis, memory>> /\ registered \subseteq registered'
    BY <1>13 DEF RegisterSource, RegisterPacket
  <2>2. Return(e, "raised") \/ UNCHANGED <<lease, reply>>
    BY <1>13 DEF RegisterSource, RegisterPacket, Continue
  <2> QED
    BY <2>1, <2>2, <1>a, <1>b, <1>c DEF StoreStep, Settled
<1>14. ASSUME NEW e \in Executors, CheckCompleted(e) PROVE Goal
  BY <1>14, <1>a, <1>b, <1>c DEF CheckCompleted, StoreStep, Continue
<1>15. ASSUME NEW e \in Executors, FinalizeReplays(e) PROVE Goal
  <2> DEFINE answer == IF pc[e] = "conflict" /\ row.status # "superseded"
                       THEN "raised" ELSE row.status
  <2>1. UNCHANGED rowVars /\ Return(e, answer) /\ (answer \notin Settled \/ answer = row'.status)
    BY <1>15 DEF FinalizeReplays, Settled
  <2> HIDE DEF answer
  <2> QED
    BY <2>1, <1>a, <1>c DEF StoreStep
<1>16. ASSUME NEW e \in Executors, FinalizeSupersedes(e) PROVE Goal
  <2>1. row'.status = "superseded" /\ SameLease /\ row'.result = row.result
    BY <1>16 DEF FinalizeSupersedes, SameLease, TypeOK, Row
  <2> QED
    BY <1>16, <2>1, <1>c DEF FinalizeSupersedes, StoreStep, RowStep, Finalized1, SameLease
<1>17. ASSUME NEW e \in Executors, FinalizeCompletes(e) PROVE Goal
  <2>1. row'.status = "completed" /\ SameLease /\ row'.result = row.result
    BY <1>17 DEF FinalizeCompletes, SameLease, TypeOK, Row
  <2>2. LeaseStep /\ ReplyStep
    BY <1>17, <2>1, <1>c DEF FinalizeCompletes, SameLease, Settled
  <2> QED
    BY <1>17, <2>1, <2>2 DEF FinalizeCompletes, StoreStep, RowStep, Finalized1
<1>18. ASSUME NEW e \in Executors, Crash(e) PROVE Goal
  BY <1>18, <1>a, <1>c DEF Crash, StoreStep, Settled
<1>19. CASE Adopt
  BY <1>19, <1>a, <1>b DEF Adopt, StoreStep
<1>20. CASE Tick
  <2>1. SameLease /\ row'.status = row.status /\ row'.result = row.result
    BY <1>20 DEF Tick, SameLease, TypeOK, Row
  <2> QED
    BY <1>20, <2>1, <1>b DEF Tick, StoreStep, RowStep, Kept1, SameLease
<1>21. CASE UNCHANGED vars
  BY <1>21, <1>a, <1>b DEF vars, StoreStep
<1> QED
  BY <1>1, <1>2, <1>3, <1>4, <1>5, <1>6, <1>7, <1>8, <1>9, <1>10, <1>11, <1>12, <1>13, <1>14,
     <1>15, <1>16, <1>17, <1>18, <1>19, <1>20, <1>21
  DEF Next, Claim, Execute, Persist, Finalize

-----------------------------------------------------------------------------
(***************************************************************************)
(* The inductive invariant.  OneHolder alone is not inductive: it needs    *)
(* that generations only grow, that no executor is ahead of the row and    *)
(* that no two share a generation (Fence).  The outcome properties need    *)
(* that the memory never goes back behind the plan's parent (Forward).     *)
(***************************************************************************)
Fence == /\ row.lease_token \in {0, row.lease_generation}
         /\ \A e \in Executors : lease[e] <= row.lease_generation
         /\ \A e, f \in Executors : e # f /\ lease[e] = lease[f] => lease[e] = 0

Forward == memory >= plan.parent

IInv == /\ TypeOK /\ Built /\ Fence /\ Forward
        /\ RowChecks /\ ResultOnParent /\ CompletedMaterialized
        /\ SupersededJustified /\ ReplyTruthful

\* The inductive invariant holds at the start.
LEMMA InitIInv == Init => IInv
<1> SUFFICES ASSUME Init PROVE IInv
    OBVIOUS
<1>1. TypeOK
  BY InitTypeOK
<1>2. /\ row.status \in {"pending", "not_required"} /\ row.lease_token = 0
      /\ row.lease_generation = 0 /\ row.result = NoResult
  BY DEF Init
<1>3. Fence
  BY <1>2 DEF Init, Fence
<1>4. Forward /\ Built /\ ReplyTruthful
  BY DEF Init, Forward, Built, ReplyTruthful, Settled
<1>5. RowChecks /\ ResultOnParent /\ CompletedMaterialized /\ SupersededJustified
  BY <1>2 DEF RowChecks, ResultOnParent, CompletedMaterialized, SupersededJustified, Leased
<1> QED
  BY <1>1, <1>3, <1>4, <1>5 DEF IInv

\* Every step keeps the newest generation with at most one executor.
LEMMA FenceStep == IInv /\ [Next]_vars => Fence'
<1> SUFFICES ASSUME IInv, [Next]_vars PROVE Fence'
    OBVIOUS
<1>1. TypeOK /\ Fence /\ RowStep /\ LeaseStep
  BY StepClassified DEF IInv
<1>2. /\ row.lease_generation \in Nat /\ lease \in [Executors -> Nat]
  BY <1>1, BoundsAreNat DEF TypeOK, Row
<1>3. row'.lease_token \in {0, row'.lease_generation}
  BY <1>1 DEF Fence, RowStep, SameLease, Kept1, Acquired1, Released1, Stored1, Finalized1
<1>4. CASE /\ \A f \in Executors : lease'[f] \in {0, lease[f]}
           /\ row'.lease_generation = row.lease_generation
  BY <1>1, <1>2, <1>3, <1>4 DEF Fence
<1>5. ASSUME NEW e \in Executors,
             lease' = [lease EXCEPT ![e] = row'.lease_generation],
             row'.lease_generation = row.lease_generation + 1
      PROVE  Fence'
  <2>1. \A f \in Executors : lease'[f] = IF f = e THEN row.lease_generation + 1 ELSE lease[f]
    BY <1>2, <1>5
  <2> QED
    BY <1>1, <1>2, <1>3, <1>5, <2>1 DEF Fence
<1> QED
  BY <1>1, <1>4, <1>5 DEF LeaseStep

\* Every step keeps the CHECK constraints of the table.
LEMMA RowChecksStep == IInv /\ [Next]_vars => RowChecks'
<1> SUFFICES ASSUME IInv, [Next]_vars PROVE RowChecks'
    OBVIOUS
<1>1. TypeOK /\ Built /\ RowChecks /\ RowStep
  BY StepClassified DEF IInv
<1>2. row.lease_generation \in Nat /\ row.lease_generation + 1 # 0
  BY <1>1, BoundsAreNat DEF TypeOK, Row
<1>3. CASE Kept1
  BY <1>1, <1>3 DEF RowChecks, Kept1, SameLease, Leased, Settled
<1>4. CASE Acquired1
  BY <1>1, <1>2, <1>4 DEF RowChecks, Acquired1, Claimable, Leased, Settled
<1>5. CASE Released1
  BY <1>1, <1>5 DEF RowChecks, Released1, Claimable, Leased, Settled
<1>6. CASE Stored1
  <2>1. row'.result # NoResult
    BY <1>1, <1>6, NoResultAssumption DEF Stored1, Built
  <2> QED
    BY <1>6, <2>1 DEF RowChecks, Stored1, Leased, Settled
<1>7. CASE Finalized1
  BY <1>1, <1>7 DEF RowChecks, Finalized1, SameLease, Leased, Settled
<1> QED
  BY <1>1, <1>3, <1>4, <1>5, <1>6, <1>7 DEF RowStep

\* Every step keeps the outcomes justified by the memory and the packets.
LEMMA OutcomeStep ==
  IInv /\ [Next]_vars =>
    Forward' /\ ResultOnParent' /\ CompletedMaterialized' /\ SupersededJustified' /\ ReplyTruthful'
<1> SUFFICES ASSUME IInv, [Next]_vars
             PROVE  /\ Forward' /\ ResultOnParent' /\ CompletedMaterialized'
                    /\ SupersededJustified' /\ ReplyTruthful'
    OBVIOUS
<1>1. /\ TypeOK /\ Built /\ Forward /\ RowChecks /\ ResultOnParent
      /\ CompletedMaterialized /\ SupersededJustified /\ ReplyTruthful
      /\ RowStep /\ StoreStep /\ ReplyStep
  BY StepClassified DEF IInv
<1>2. memory \in Int /\ plan.parent \in Int
  BY <1>1, PlanShape, BoundsAreNat DEF TypeOK, Versions
<1>3. Forward'
  BY <1>1, <1>2 DEF Forward, StoreStep
<1>4. ResultOnParent'
  <2>1. row'.result = row.result
        \/ \E e \in Executors : pc[e] = "persist" /\ row'.result = out[e]
    BY <1>1 DEF RowStep, Kept1, Acquired1, Released1, Stored1, Finalized1
  <2> QED
    BY <1>1, <2>1 DEF ResultOnParent, Built, StoreStep
<1>5. row.status \in Settled => row'.status = row.status
  BY <1>1 DEF RowStep, Kept1, Acquired1, Released1, Stored1, Finalized1, Claimable, Settled
<1>6. CompletedMaterialized'
  <2> SUFFICES ASSUME row'.status = "completed"
               PROVE  Packets' \subseteq registered' /\ analysis' = "completed"
    BY DEF CompletedMaterialized
  <2>1. Packets' = Packets
    BY <1>1 DEF Packets, StoreStep
  <2>2. row.status = "completed" \/ Finalized1
    BY <1>1 DEF RowStep, Kept1, Acquired1, Released1, Stored1
  <2> QED
    BY <1>1, <2>1, <2>2 DEF CompletedMaterialized, StoreStep, Finalized1, SameLease
<1>7. SupersededJustified'
  <2> SUFFICES ASSUME row'.status = "superseded" PROVE memory' # plan'.parent
    BY DEF SupersededJustified
  <2>1. row.status = "superseded" \/ ParentStale
    BY <1>1 DEF RowStep, Kept1, Acquired1, Released1, Stored1, Finalized1
  <2>2. memory # plan.parent
    BY <1>1, <2>1 DEF SupersededJustified, ParentStale
  <2> QED
    BY <1>1, <1>2, <2>2 DEF Forward, StoreStep
<1>8. ReplyTruthful'
  BY <1>1, <1>5 DEF ReplyTruthful, ReplyStep, Settled
<1> QED
  BY <1>3, <1>4, <1>6, <1>7, <1>8

\* Every step keeps the results executors carry built on the plan's parent.
LEMMA BuiltStep == IInv /\ [Next]_vars => Built'
<1> SUFFICES ASSUME IInv, [Next]_vars PROVE Built'
    OBVIOUS
<1>1. TypeOK /\ Built /\ RowChecks /\ ResultOnParent /\ plan' = plan
  BY StepClassified DEF IInv, StoreStep
<1> DEFINE Holding == {"build", "stop", "beat", "persist", "source", "check", "packet",
                       "conflict", "finalize"}
           Good(e) == pc'[e] \in Holding => out'[e] \in Results /\ out'[e].parent = plan.parent
<1>2. SUFFICES \A f \in Executors : Good(f)
  BY <1>1 DEF Built
<1>3. \A f \in Executors : pc[f] \in Holding => out[f] \in Results /\ out[f].parent = plan.parent
  BY <1>1 DEF Built
<1> HIDE DEF Good
<1>a. ASSUME NEW e \in Executors, Good(e), \A f \in Executors \ {e} : pc'[f] = pc[f] /\ out'[f] = out[f]
      PROVE  \A f \in Executors : Good(f)
  BY <1>3, <1>a DEF Good
<1>b. ASSUME UNCHANGED <<pc, out>> PROVE \A f \in Executors : Good(f)
  BY <1>3, <1>b DEF Good
<1>c. ASSUME NEW e \in Executors, NEW answer, Return(e, answer) PROVE \A f \in Executors : Good(f)
  <2>1. pc'[e] = "idle" /\ \A f \in Executors \ {e} : pc'[f] = pc[f] /\ out'[f] = out[f]
    BY <1>1, <1>c DEF Return, Goto, TypeOK
  <2> QED
    BY <2>1, <1>a DEF Good
<1>d. ASSUME NEW e \in Executors, NEW step, Goto(e, step), UNCHANGED out,
             step \in Holding => pc[e] \in Holding
      PROVE  \A f \in Executors : Good(f)
  <2>1. pc'[e] = step /\ \A f \in Executors \ {e} : pc'[f] = pc[f]
    BY <1>1, <1>d DEF Goto, TypeOK
  <2> QED
    BY <1>3, <1>d, <2>1, <1>a DEF Good
<1>4. ASSUME NEW e \in Executors, ClaimSettled(e) \/ ClaimSupersedes(e) \/ ClaimRefused(e) \/ FailPlan(e)
             \/ Finalize(e) \/ Crash(e)
      PROVE  \A f \in Executors : Good(f)
  <2>1. \E answer : Return(e, answer)
    BY <1>4 DEF ClaimSettled, ClaimSupersedes, ClaimRefused, FailPlan, Crash,
                Finalize, FinalizeReplays, FinalizeSupersedes, FinalizeCompletes
  <2> QED
    BY <2>1, <1>c
<1>5. ASSUME NEW e \in Executors, ClaimStored(e) PROVE \A f \in Executors : Good(f)
  <2>1. row.result \in Results /\ row.result.parent = plan.parent
    BY <1>1, <1>5 DEF ClaimStored, RowChecks, ResultOnParent, TypeOK, Row
  <2>2. out'[e] = row.result /\ \A f \in Executors \ {e} : pc'[f] = pc[f] /\ out'[f] = out[f]
    BY <1>1, <1>5 DEF ClaimStored, Goto, TypeOK
  <2> QED
    BY <2>1, <2>2, <1>a DEF Good
<1>6. ASSUME NEW e \in Executors, ClaimAcquires(e) PROVE \A f \in Executors : Good(f)
  BY <1>6, <1>d DEF ClaimAcquires, Acquire
<1>7. ASSUME NEW e \in Executors, MarkRunning(e) PROVE \A f \in Executors : Good(f)
  BY <1>7, <1>c, <1>d DEF MarkRunning
<1>8. ASSUME NEW e \in Executors, KeeperBeat(e) PROVE \A f \in Executors : Good(f)
  BY <1>8, <1>b DEF KeeperBeat
<1>9. ASSUME NEW e \in Executors, Run(e) PROVE \A f \in Executors : Good(f)
  <2>0. \A f \in Executors \ {e} : pc'[f] = pc[f] /\ out'[f] = out[f]
    BY <1>1, <1>9 DEF Run, Goto, TypeOK
  <2>1. CASE Goto(e, "fail")
    <3>1. pc'[e] = "fail"
      BY <1>1, <2>1 DEF Goto, TypeOK
    <3> QED
      BY <3>1, <2>0, <1>a DEF Good
  <2>2. CASE out' = [out EXCEPT ![e] = [content |-> "delta", parent |-> plan.parent]]
    <3>1. out'[e] = [content |-> "delta", parent |-> plan.parent]
      BY <1>1, <2>2 DEF TypeOK
    <3>2. out'[e] \in Results /\ out'[e].parent = plan.parent
      BY <1>1, <3>1, PlanShape DEF Results, TypeOK
    <3> QED
      BY <3>2, <2>0, <1>a DEF Good
  <2>3. CASE /\ ~ParentStale /\ plan.mode # "diagnostic_full"
             /\ out' = [out EXCEPT ![e] = [content |-> "unbuilt", parent |-> memory]]
    <3>1. out'[e] = [content |-> "unbuilt", parent |-> memory] /\ memory = plan.parent
      BY <1>1, <2>3 DEF TypeOK, ParentStale
    <3>2. out'[e] \in Results /\ out'[e].parent = plan.parent
      BY <1>1, <3>1 DEF Results, TypeOK
    <3> QED
      BY <3>2, <2>0, <1>a DEF Good
  <2> QED
    BY <1>9, <2>1, <2>2, <2>3 DEF Run
<1>10. ASSUME NEW e \in Executors, Build(e) PROVE \A f \in Executors : Good(f)
  <2>1. CASE Goto(e, "fail") /\ UNCHANGED out
    BY <2>1, <1>d
  <2>2. ASSUME NEW content \in Contents,
               out' = [out EXCEPT ![e] = [content |-> content, parent |-> out[e].parent]],
               Goto(e, "stop")
        PROVE  \A f \in Executors : Good(f)
    <3>1. out'[e] = [content |-> content, parent |-> out[e].parent]
          /\ \A f \in Executors \ {e} : pc'[f] = pc[f] /\ out'[f] = out[f]
      BY <1>1, <2>2 DEF Goto, TypeOK
    <3>2. out[e] \in Results /\ out[e].parent = plan.parent
      BY <1>10, <1>3 DEF Build
    <3>3. out'[e] \in Results /\ out'[e].parent = plan.parent
      BY <3>1, <3>2 DEF Results
    <3> QED
      BY <3>1, <3>3, <1>a DEF Good
  <2> QED
    BY <1>10, <2>1, <2>2 DEF Build
<1>11. ASSUME NEW e \in Executors, StopKeeper(e) \/ FinalBeat(e) PROVE \A f \in Executors : Good(f)
  BY <1>11, <1>d DEF StopKeeper, FinalBeat
<1>12. ASSUME NEW e \in Executors, Persist(e) PROVE \A f \in Executors : Good(f)
  BY <1>12, <1>c, <1>d DEF Persist, PersistStores, PersistReplays, PersistRefused, Continue
<1>13. ASSUME NEW e \in Executors, RegisterSource(e) \/ CheckCompleted(e) \/ RegisterPacket(e)
       PROVE  \A f \in Executors : Good(f)
  BY <1>13, <1>c, <1>d DEF RegisterSource, CheckCompleted, RegisterPacket, Continue
<1>14. CASE Adopt \/ Tick \/ UNCHANGED vars
  BY <1>14, <1>b DEF Adopt, Tick, vars
<1> QED
  BY <1>4, <1>5, <1>6, <1>7, <1>8, <1>9, <1>10, <1>11, <1>12, <1>13, <1>14
  DEF Next, Claim, Execute

\* The inductive invariant is inductive.
LEMMA NextIInv == IInv /\ [Next]_vars => IInv'
BY NextTypeOK, FenceStep, RowChecksStep, OutcomeStep, BuiltStep DEF IInv

\* The inductive invariant holds of every behaviour.
LEMMA Invariance == Spec => []IInv
BY InitIInv, NextIInv, PTL DEF Spec

-----------------------------------------------------------------------------
(***************************************************************************)
(* Who is at work has the lease.  OneBuilder is not inductive alone: it    *)
(* needs that the lease of whoever is at work is the one the row names and *)
(* has time left, so that no other claim is granted.                       *)
(***************************************************************************)
OnLease == row.status \in Leased /\ row.ttl > 0

WorkLeased ==
  timely /\ ~ParentStale =>
    \A e \in Executors : AtWork(e) => LeaseMatches(e) /\ OnLease

\* Whoever is at work after a step holds the lease, if it did before.
LEMMA WorkLeasedStep == IInv /\ WorkLeased /\ [Next]_vars => WorkLeased'
<1> SUFFICES ASSUME IInv, WorkLeased, [Next]_vars, timely', ~ParentStale',
                    NEW f \in Executors, AtWork(f)'
             PROVE  LeaseMatches(f)' /\ OnLease'
    BY DEF WorkLeased
<1> USE DEF rowVars
<1>1. TypeOK /\ Fence /\ OneHolder /\ StoreStep /\ row \in Row
  BY StepClassified DEF IInv, TypeOK, Fence, OneHolder, LeaseMatches
<1>2. timely /\ ~ParentStale
  <2>1. timely' = timely
    BY DEF Next, Claim, Execute, Persist, Finalize, ClaimSettled, ClaimStored,
       ClaimSupersedes, ClaimRefused, ClaimAcquires, Acquire, MarkRunning, KeeperBeat,
       Run, Build, StopKeeper, FinalBeat, PersistStores, PersistReplays,
       PersistRefused, FailPlan, RegisterSource, CheckCompleted, RegisterPacket,
       FinalizeReplays, FinalizeSupersedes, FinalizeCompletes, Crash, Adopt, Tick, vars
  <2>2. memory \in Int /\ plan.parent \in Int
    BY <1>1, PlanShape, BoundsAreNat DEF TypeOK, Versions
  <2> QED
    BY <1>1, <2>1, <2>2 DEF IInv, Forward, StoreStep, ParentStale
<1>3. \A e \in Executors : AtWork(e) => LeaseMatches(e) /\ OnLease
  BY <1>2 DEF WorkLeased
<1>4. row.ttl \in Int /\ LeaseTicks \in Nat \ {0}
  BY <1>1, BoundsAreNat DEF Row
\* The step leaves the row alone, and f where it was or still at work.
<1>a. ASSUME UNCHANGED row, AtWork(f), lease'[f] = lease[f]
      PROVE  LeaseMatches(f)' /\ OnLease'
  BY <1>3, <1>a DEF LeaseMatches, OnLease
<1>b. ASSUME NEW e \in Executors, NEW answer, Return(e, answer)
      PROVE  f # e /\ AtWork(f) /\ lease'[f] = lease[f]
  BY <1>1, <1>b DEF Return, Goto, AtWork, TypeOK
<1>c. ASSUME NEW e \in Executors, NEW step, Continue(e, step),
             pc[e] \in {"persist", "source", "check", "packet"},
             step \in {"fail", "source", "finalize", "check", "packet", "conflict"}
      PROVE  f # e /\ AtWork(f) /\ lease'[f] = lease[f]
  BY <1>1, <1>c DEF Continue, Goto, AtWork, TypeOK
\* A beat of whoever has the lease renews it.
<1>d. ASSUME row'.lease_token = row.lease_token, row'.lease_generation = row.lease_generation,
             row'.ttl = LeaseTicks, row'.status \in Leased, lease'[f] = lease[f],
             LeaseMatches(f)
      PROVE  LeaseMatches(f)' /\ OnLease'
  BY <1>4, <1>d DEF LeaseMatches, OnLease
<1>5. ASSUME NEW e \in Executors, Claim(e) PROVE LeaseMatches(f)' /\ OnLease'
  <2>1. CASE ClaimSettled(e) \/ ClaimRefused(e)
    BY <2>1, <1>a, <1>b DEF ClaimSettled, ClaimRefused
  <2>2. CASE ClaimStored(e)
    <3>1. AtWork(f)
      BY <1>1, <2>2 DEF ClaimStored, Goto, AtWork, TypeOK
    <3> QED
      BY <2>2, <3>1, <1>a DEF ClaimStored
  <2>3. CASE ClaimSupersedes(e)
    BY <1>2, <2>3 DEF ClaimSupersedes
  <2>4. CASE ClaimAcquires(e)
    <3>1. ~OnLease
      <4>1. ASSUME row.status \in Leased PROVE row.ttl <= 0
        <5>1. PICK d \in 0 .. MaxWait : ~(row.ttl + d > 0)
          BY <2>4, <4>1 DEF ClaimAcquires, SeenActive
        <5> QED
          BY <1>4, <5>1, BoundsAreNat
      <4> QED
        BY <1>4, <4>1 DEF OnLease
    <3>2. f = e
      <4>1. ~AtWork(f)
        BY <1>3, <3>1
      <4> QED
        BY <1>1, <2>4, <4>1 DEF ClaimAcquires, Acquire, Goto, AtWork, TypeOK
    <3>3. /\ row'.lease_generation = row.lease_generation + 1 /\ row'.ttl = LeaseTicks
          /\ row'.lease_token = row.lease_generation + 1 /\ row'.status = "claimed"
          /\ lease'[e] = row.lease_generation + 1
      BY <1>1, <2>4 DEF ClaimAcquires, Acquire, Row, TypeOK
    <3> QED
      BY <1>1, <1>4, <3>2, <3>3, BoundsAreNat DEF LeaseMatches, OnLease, Leased, Row
  <2> QED
    BY <1>5, <2>1, <2>2, <2>3, <2>4 DEF Claim
<1>6. ASSUME NEW e \in Executors, MarkRunning(e) PROVE LeaseMatches(f)' /\ OnLease'
  <2>1. CASE MayAdvance(e, {"claimed"}) /\ row' = [row EXCEPT !.status = "running", !.ttl = LeaseTicks]
             /\ keeper' = [keeper EXCEPT ![e] = "on"] /\ Goto(e, "run") /\ UNCHANGED lease
    <3>1. LeaseMatches(f)
      BY <1>1, <1>3, <2>1 DEF MayAdvance, Goto, AtWork, TypeOK
    <3>2. /\ row'.lease_token = row.lease_token /\ row'.lease_generation = row.lease_generation
          /\ row'.ttl = LeaseTicks /\ row'.status = "running"
      BY <1>1, <2>1 DEF Row
    <3> QED
      BY <2>1, <3>1, <3>2, <1>d DEF Leased
  <2>2. CASE Return(e, "raised") /\ UNCHANGED row
    BY <2>2, <1>a, <1>b
  <2> QED
    BY <1>6, <2>1, <2>2 DEF MarkRunning
<1>7. ASSUME NEW e \in Executors, KeeperBeat(e) \/ FinalBeat(e) PROVE LeaseMatches(f)' /\ OnLease'
  <2>1. AtWork(f) /\ lease'[f] = lease[f]
    BY <1>1, <1>7 DEF KeeperBeat, FinalBeat, Goto, AtWork, TypeOK
  <2>2. UNCHANGED row \/ (row.status \in Leased /\ row' = [row EXCEPT !.ttl = LeaseTicks])
    BY <1>7 DEF KeeperBeat, FinalBeat, MayAdvance
  <2>3. CASE row.status \in Leased /\ row' = [row EXCEPT !.ttl = LeaseTicks]
    <3>1. /\ row'.lease_token = row.lease_token /\ row'.lease_generation = row.lease_generation
          /\ row'.ttl = LeaseTicks /\ row'.status = row.status
      BY <1>1, <2>3 DEF Row
    <3> QED
      BY <1>3, <2>1, <2>3, <3>1, <1>d
  <2> QED
    BY <2>1, <2>2, <2>3, <1>a
<1>8. ASSUME NEW e \in Executors, Run(e) \/ Build(e) \/ StopKeeper(e)
      PROVE  LeaseMatches(f)' /\ OnLease'
  <2>1. AtWork(f)
    BY <1>1, <1>8 DEF Run, Build, StopKeeper, Goto, AtWork, TypeOK
  <2> QED
    BY <1>8, <2>1, <1>a DEF Run, Build, StopKeeper
\* Who stores or fails the plan has the lease, and is no longer at work.
<1>9. ASSUME NEW e \in Executors, Persist(e) \/ FailPlan(e) PROVE LeaseMatches(f)' /\ OnLease'
  <2>1. f # e /\ AtWork(f) /\ lease'[f] = lease[f]
    BY <1>9, <1>b, <1>c DEF Persist, PersistStores, PersistReplays, PersistRefused, FailPlan
  <2>2. UNCHANGED row \/ LeaseMatches(e)
    BY <1>9 DEF Persist, PersistStores, PersistReplays, PersistRefused, FailPlan,
       MayPersist, MayAdvance
  <2>3. ~LeaseMatches(e)
    BY <1>1, <1>3, <2>1 DEF OneHolder
  <2> QED
    BY <2>1, <2>2, <2>3, <1>a
<1>10. ASSUME NEW e \in Executors, RegisterSource(e) \/ CheckCompleted(e) \/ RegisterPacket(e)
       PROVE  LeaseMatches(f)' /\ OnLease'
  <2>1. f # e /\ AtWork(f) /\ lease'[f] = lease[f]
    BY <1>10, <1>b, <1>c DEF RegisterSource, CheckCompleted, RegisterPacket
  <2> QED
    BY <1>10, <2>1, <1>a DEF RegisterSource, CheckCompleted, RegisterPacket
<1>11. ASSUME NEW e \in Executors, Finalize(e) \/ Crash(e) PROVE LeaseMatches(f)' /\ OnLease'
  <2>1. f # e /\ AtWork(f) /\ lease'[f] = lease[f]
    BY <1>11, <1>b DEF Finalize, FinalizeReplays, FinalizeSupersedes, FinalizeCompletes, Crash
  <2>2. UNCHANGED row
    BY <1>3, <1>11, <2>1 DEF Finalize, FinalizeReplays, FinalizeSupersedes,
       FinalizeCompletes, Crash, OnLease, Leased
  <2> QED
    BY <2>1, <2>2, <1>a
<1>12. CASE Adopt \/ UNCHANGED vars
  BY <1>12, <1>a DEF Adopt, vars, AtWork
<1>13. CASE Tick
  <2>1. AtWork(f) /\ LeaseMatches(f) /\ OnLease /\ lease' = lease
    BY <1>3, <1>13 DEF Tick, AtWork
  <2>2. row.ttl # 1
    BY <1>2, <1>13, <2>1 DEF Tick, Kept, AtWork
  <2>3. /\ row'.lease_token = row.lease_token /\ row'.lease_generation = row.lease_generation
        /\ row'.ttl = row.ttl - 1 /\ row'.status = row.status
    BY <1>1, <1>13 DEF Tick, Row
  <2> QED
    BY <1>4, <2>1, <2>2, <2>3 DEF LeaseMatches, OnLease
<1> QED
  BY <1>5, <1>6, <1>7, <1>8, <1>9, <1>10, <1>11, <1>12, <1>13 DEF Next, Execute

-----------------------------------------------------------------------------
(***************************************************************************)
(* What is materialized.  A stored result and registered packets stay, and *)
(* a parent that is gone stays gone: what holds of an executor holds on    *)
(* while others act, and each of its own steps establishes the next part.  *)
(***************************************************************************)
Materialization == {"source", "check", "packet", "conflict", "finalize"}

\* What MaterializesStored says of one executor.
HoldsStored(e) ==
  pc[e] \in Materialization =>
    /\ row.result = out[e]
    /\ pc[e] \in {"check", "packet"} => "source" \in registered
    /\ pc[e] = "finalize" => Packets \subseteq registered
    /\ pc[e] = "conflict" => ParentStale

\* A diagnostic plan is failed before anything is built, so it has no result.
Undiagnosed ==
  plan.mode = "diagnostic_full" =>
    /\ row.result = NoResult
    /\ \A e \in Executors : pc[e] \notin {"build", "stop", "beat", "persist"} \cup Materialization

\* Every step keeps a diagnostic plan without a result.
LEMMA UndiagnosedStep == IInv /\ Undiagnosed /\ [Next]_vars => Undiagnosed'
<1> SUFFICES ASSUME IInv, Undiagnosed, [Next]_vars, plan'.mode = "diagnostic_full"
             PROVE  /\ row'.result = NoResult
                    /\ \A f \in Executors :
                         pc'[f] \notin {"build", "stop", "beat", "persist"} \cup Materialization
    BY DEF Undiagnosed
<1> USE DEF rowVars
<1> DEFINE Building == {"build", "stop", "beat", "persist"} \cup Materialization
<1>1. TypeOK /\ RowChecks /\ RowStep /\ plan' = plan
  BY StepClassified DEF IInv, StoreStep
<1>2. row.result = NoResult /\ \A e \in Executors : pc[e] \notin Building
  BY <1>1 DEF Undiagnosed
<1>3. row'.result = NoResult
  BY <1>1, <1>2 DEF RowStep, Kept1, Acquired1, Released1, Stored1, Finalized1
<1>a. ASSUME NEW e \in Executors, NEW step, Goto(e, step), step \notin Building
      PROVE  \A f \in Executors : pc'[f] \notin Building
  BY <1>1, <1>2, <1>a DEF Goto, TypeOK
<1>4. ASSUME NEW e \in Executors, Claim(e) PROVE \A f \in Executors : pc'[f] \notin Building
  <2>1. ~ClaimStored(e)
    BY <1>1, <1>2 DEF ClaimStored, RowChecks
  <2>2. Goto(e, "idle") \/ Goto(e, "mark")
    BY <1>4, <2>1 DEF Claim, ClaimSettled, ClaimSupersedes, ClaimRefused, ClaimAcquires, Acquire, Return
  <2> QED
    BY <2>2, <1>a DEF Materialization
<1>5. ASSUME NEW e \in Executors, MarkRunning(e) \/ Run(e) \/ FailPlan(e) \/ Crash(e)
      PROVE  \A f \in Executors : pc'[f] \notin Building
  <2>1. \E step \in {"idle", "run", "fail"} : Goto(e, step)
    BY <1>1, <1>5 DEF MarkRunning, Run, FailPlan, Crash, Return
  <2> QED
    BY <2>1, <1>a DEF Materialization
<1>6. ASSUME NEW e \in Executors, Build(e) \/ StopKeeper(e) \/ FinalBeat(e) \/ Persist(e)
             \/ RegisterSource(e) \/ CheckCompleted(e) \/ RegisterPacket(e) \/ Finalize(e)
      PROVE  FALSE
  BY <1>2, <1>6 DEF Build, StopKeeper, FinalBeat, Persist, PersistStores, PersistReplays,
     PersistRefused, RegisterSource, CheckCompleted, RegisterPacket, Finalize, FinalizeReplays,
     FinalizeSupersedes, FinalizeCompletes, Materialization
<1>7. ASSUME NEW e \in Executors, KeeperBeat(e) PROVE \A f \in Executors : pc'[f] \notin Building
  BY <1>2, <1>7 DEF KeeperBeat
<1>8. CASE Adopt \/ Tick \/ UNCHANGED vars
  BY <1>2, <1>3, <1>8 DEF Adopt, Tick, vars
<1> QED
  BY <1>3, <1>4, <1>5, <1>6, <1>7, <1>8 DEF Next, Execute

\* No step takes back a stored result, a packet, or a move of the memory.
LEMMA StoredStays ==
  ASSUME IInv, [Next]_vars
  PROVE  /\ row.result # NoResult => row'.result = row.result
         /\ registered \subseteq registered' /\ Packets' = Packets
         /\ ParentStale => ParentStale'
<1>1. TypeOK /\ Forward /\ RowStep /\ StoreStep
  BY StepClassified DEF IInv
<1>2. memory \in Int /\ plan.parent \in Int
  BY <1>1, PlanShape, BoundsAreNat DEF TypeOK, Versions
<1>3. row.result # NoResult => row'.result = row.result
  BY <1>1 DEF RowStep, Kept1, Acquired1, Released1, Stored1, Finalized1
<1>4. ParentStale => ParentStale'
  BY <1>1, <1>2 DEF StoreStep, Forward, ParentStale
<1> QED
  BY <1>1, <1>3, <1>4 DEF StoreStep, Packets

\* Every step keeps what executors materialize the result that is stored.
LEMMA MaterializesStep ==
  IInv /\ Undiagnosed /\ MaterializesStored /\ [Next]_vars => MaterializesStored'
<1> SUFFICES ASSUME IInv, Undiagnosed, MaterializesStored, [Next]_vars, NEW f \in Executors
             PROVE  HoldsStored(f)'
    BY DEF MaterializesStored, HoldsStored, Materialization
<1> USE DEF rowVars
<1>1. TypeOK /\ Built /\ \A e \in Executors : HoldsStored(e)
  BY DEF IInv, MaterializesStored, HoldsStored, Materialization
<1>2. /\ row.result # NoResult => row'.result = row.result
      /\ registered \subseteq registered' /\ Packets' = Packets
      /\ ParentStale => ParentStale'
  BY StoredStays
<1>3. pc[f] \in Materialization => out[f] # NoResult
  BY <1>1, NoResultAssumption DEF Built, Materialization
\* f stays where it is, whatever the others do.
<1>a. ASSUME pc'[f] = pc[f], out'[f] = out[f] PROVE HoldsStored(f)'
  BY <1>1, <1>2, <1>3, <1>a DEF HoldsStored
\* f goes where nothing is materialized.
<1>b. ASSUME pc'[f] \notin Materialization PROVE HoldsStored(f)'
  BY <1>b DEF HoldsStored
<1>c. ASSUME NEW e \in Executors, NEW answer, Return(e, answer) PROVE HoldsStored(f)'
  <2>1. pc'[f] = "idle" \/ (pc'[f] = pc[f] /\ out'[f] = out[f])
    BY <1>1, <1>c DEF Return, Goto, TypeOK
  <2> QED
    BY <2>1, <1>a, <1>b DEF Materialization
\* An executor goes to a step: only f itself matters.
<1>d. ASSUME NEW e \in Executors, NEW step, Goto(e, step), \A g \in Executors \ {e} : out'[g] = out[g],
             step \in Materialization => e # f \/ HoldsStored(f)'
      PROVE  HoldsStored(f)'
  <2>1. pc'[f] = IF e = f THEN step ELSE pc[f]
    BY <1>1, <1>d DEF Goto, TypeOK
  <2> QED
    BY <2>1, <1>a, <1>b, <1>d
<1>4. ASSUME NEW e \in Executors, ClaimSettled(e) \/ ClaimSupersedes(e) \/ ClaimRefused(e) \/ FailPlan(e)
             \/ Finalize(e) \/ Crash(e)
      PROVE  HoldsStored(f)'
  <2>1. \E answer : Return(e, answer)
    BY <1>4 DEF ClaimSettled, ClaimSupersedes, ClaimRefused, FailPlan, Crash,
                Finalize, FinalizeReplays, FinalizeSupersedes, FinalizeCompletes
  <2> QED
    BY <2>1, <1>c
\* What is handed out to be materialized is what is stored, and a plan without
\* a candidate has no packets to wait for.
<1>5. ASSUME NEW e \in Executors, NEW step, Goto(e, step), row'.result = out'[e],
             step = IF plan.kind = "candidate_overlay" THEN "source" ELSE "finalize",
             \A g \in Executors \ {e} : out'[g] = out[g]
      PROVE  HoldsStored(f)'
  <2>1. CASE e = f
    <3>1. pc'[f] = step
      BY <1>1, <1>5, <2>1 DEF Goto, TypeOK
    <3>2. step = "finalize" => Packets = {}
      BY <1>5 DEF Packets
    <3> QED
      BY <1>2, <1>5, <2>1, <3>1, <3>2 DEF HoldsStored
  <2>2. CASE e # f
    BY <1>5, <2>2, <1>d
  <2> QED
    BY <2>1, <2>2
<1>6. ASSUME NEW e \in Executors, ClaimStored(e) PROVE HoldsStored(f)'
  <2>1. row'.result = out'[e] /\ \A g \in Executors \ {e} : out'[g] = out[g]
    BY <1>1, <1>6 DEF ClaimStored, TypeOK
  <2> QED
    BY <1>6, <2>1, <1>5 DEF ClaimStored
<1>7. ASSUME NEW e \in Executors, ClaimAcquires(e) PROVE HoldsStored(f)'
  BY <1>7, <1>d DEF ClaimAcquires, Acquire, Materialization
<1>8. ASSUME NEW e \in Executors, MarkRunning(e) PROVE HoldsStored(f)'
  BY <1>8, <1>c, <1>d DEF MarkRunning, Materialization
<1>9. ASSUME NEW e \in Executors, KeeperBeat(e) PROVE HoldsStored(f)'
  BY <1>9, <1>a DEF KeeperBeat
<1>10. ASSUME NEW e \in Executors, Run(e) \/ Build(e) \/ StopKeeper(e) \/ FinalBeat(e)
       PROVE  HoldsStored(f)'
  <2>1. \E step \in {"fail", "stop", "build", "beat", "persist"} : Goto(e, step)
    BY <1>10 DEF Run, Build, StopKeeper, FinalBeat
  <2>2. \A g \in Executors \ {e} : out'[g] = out[g]
    BY <1>1, <1>10 DEF Run, Build, StopKeeper, FinalBeat, TypeOK
  <2> QED
    BY <2>1, <2>2, <1>d DEF Materialization
<1>11. ASSUME NEW e \in Executors, PersistStores(e) PROVE HoldsStored(f)'
  <2>1. Continue(e, "fail") \/ Return(e, "superseded")
        \/ Continue(e, IF plan.kind = "candidate_overlay" THEN "source" ELSE "finalize")
    BY <1>11 DEF PersistStores
  <2>2. row'.result = out[e]
    <3>1. Release(IF ParentStale THEN "superseded" ELSE "result_persisted") \in Row
      BY <1>1, ReleaseTyped DEF Statuses, Settled
    <3> QED
      BY <1>11, <3>1 DEF PersistStores, Row
  <2> QED
    BY <2>1, <2>2, <1>c, <1>d, <1>5 DEF Continue, Materialization
<1>12. ASSUME NEW e \in Executors, PersistReplays(e) PROVE HoldsStored(f)'
  BY <1>12, <1>c, <1>5 DEF PersistReplays, Continue
<1>13. ASSUME NEW e \in Executors, PersistRefused(e) PROVE HoldsStored(f)'
  BY <1>13, <1>d DEF PersistRefused, Continue, Materialization
<1>14. ASSUME NEW e \in Executors, RegisterSource(e) \/ CheckCompleted(e) \/ RegisterPacket(e)
       PROVE  HoldsStored(f)'
  <2>1. CASE \E answer : Return(e, answer)
    BY <2>1, <1>c
  <2>2. ASSUME NEW step, Continue(e, step), step \in {"check", "packet", "conflict", "finalize"},
               step \in {"check", "packet"} => "source" \in registered',
               step = "finalize" => Packets \subseteq registered',
               step = "conflict" => ParentStale
        PROVE  HoldsStored(f)'
    <3>1. CASE e = f
      <4>1. pc'[f] = step /\ out'[f] = out[f] /\ pc[f] \in Materialization
        BY <1>1, <1>14, <2>2, <3>1
        DEF Continue, Goto, RegisterSource, CheckCompleted, RegisterPacket, Materialization, TypeOK
      <4>2. row'.result = out'[f]
        BY <1>1, <1>2, <1>3, <4>1 DEF HoldsStored
      <4> QED
        BY <1>2, <2>2, <3>1, <4>1, <4>2 DEF HoldsStored
    <3>2. CASE e # f
      BY <2>2, <3>2, <1>d DEF Continue
    <3> QED
      BY <3>1, <3>2
  <2>3. CASE RegisterSource(e)
    <3>1. memory # plan.parent => ParentStale
      BY <2>3 DEF RegisterSource, Undiagnosed, Materialization, ParentStale
    <3> QED
      BY <2>1, <2>2, <2>3, <3>1 DEF RegisterSource
  <2>4. CASE CheckCompleted(e)
    BY <1>1, <2>1, <2>2, <2>4 DEF CheckCompleted, HoldsStored, Materialization
  <2>5. CASE RegisterPacket(e)
    <3>1. memory # plan.parent => ParentStale
      BY <2>5 DEF RegisterPacket, Undiagnosed, Materialization, ParentStale
    <3> QED
      BY <2>1, <2>2, <2>5, <3>1 DEF RegisterPacket, Packets
  <2> QED
    BY <1>14, <2>3, <2>4, <2>5
<1>15. CASE Adopt \/ Tick \/ UNCHANGED vars
  BY <1>15, <1>a DEF Adopt, Tick, vars
<1> QED
  BY <1>4, <1>6, <1>7, <1>8, <1>9, <1>10, <1>11, <1>12, <1>13, <1>14, <1>15
  DEF Next, Claim, Execute, Persist

-----------------------------------------------------------------------------
(* The theorems *)

\* Whoever materializes a result materializes the stored one, whatever lease it
\* lost and whoever stored it, and its finalization is never refused.
THEOREM MaterializesWhatIsStored == Spec => []MaterializesStored
<1>1. Init => Undiagnosed /\ MaterializesStored
  BY DEF Init, Undiagnosed, Materialization, MaterializesStored
<1> QED
  BY <1>1, UndiagnosedStep, MaterializesStep, Invariance, PTL DEF Spec

\* While heartbeats beat expiry and the memory stays, two executors are never at
\* work on the plan at a time.
THEOREM BuiltByOne == Spec => []OneBuilder
<1>1. Init => WorkLeased
  BY DEF Init, WorkLeased, AtWork
<1>2. IInv /\ WorkLeased => OneBuilder
  BY DEF IInv, Fence, WorkLeased, OneBuilder, LeaseMatches
<1> QED
  BY <1>1, <1>2, WorkLeasedStep, Invariance, PTL DEF Spec

\* Every variable stays in its domain, whatever the instance.
THEOREM TypeCorrect == Spec => []TypeOK
<1>1. IInv => TypeOK
  BY DEF IInv
<1> QED
  BY <1>1, Invariance, PTL

\* However many executors overlap, crash or are late, at most one of them holds
\* the lease the row names.
THEOREM Fenced == Spec => []OneHolder
<1>1. IInv => OneHolder
  BY DEF IInv, Fence, OneHolder, LeaseMatches
<1> QED
  BY <1>1, Invariance, PTL

\* No write of the repository's methods trips a CHECK constraint of the table.
THEOREM ChecksHold == Spec => []RowChecks
<1>1. IInv => RowChecks
  BY DEF IInv
<1> QED
  BY <1>1, Invariance, PTL

\* A result was built on the plan's parent, which the code only declares.
THEOREM BuiltOnParent == Spec => []ResultOnParent
<1>1. IInv => ResultOnParent
  BY DEF IInv
<1> QED
  BY <1>1, Invariance, PTL

\* A completed plan has every packet of its result and its scan completed.
THEOREM CompletedInFull == Spec => []CompletedMaterialized
<1>1. IInv => CompletedMaterialized
  BY DEF IInv
<1> QED
  BY <1>1, Invariance, PTL

\* A plan is superseded because the memory has left its parent.
THEOREM SupersededRightly == Spec => []SupersededJustified
<1>1. IInv => SupersededJustified
  BY DEF IInv
<1> QED
  BY <1>1, Invariance, PTL

\* What an executor answered stays true of the row.
THEOREM RepliesAreTruthful == Spec => []ReplyTruthful
<1>1. IInv => ReplyTruthful
  BY DEF IInv
<1> QED
  BY <1>1, Invariance, PTL

\* While a lease is live, only its holder gives it up, or the memory has moved:
\* no other attempt takes it or fails it.
THEOREM LiveLeaseStays == Spec => LiveLeaseKept
<1>1. IInv /\ [Next]_vars => EndedByHolder
  <2> SUFFICES ASSUME IInv, [Next]_vars, row.status \in Leased, row.ttl > 0,
                      row'.lease_token # row.lease_token
               PROVE  \/ row'.status = "superseded" /\ ParentStale
                      \/ \E e \in Executors : /\ lease[e] = row.lease_token
                                              /\ pc[e] \in {"persist", "fail"}
      BY DEF EndedByHolder
  <2>1. RowStep /\ row.ttl \in Int
    BY StepClassified, BoundsAreNat DEF IInv, TypeOK, Row
  <2>2. Released1 \/ Stored1
    BY <2>1 DEF RowStep, Kept1, Acquired1, Finalized1, SameLease
  <2> QED
    BY <2>2 DEF Released1, Stored1, LeaseMatches
<1> QED
  BY <1>1, Invariance, PTL DEF Spec, LiveLeaseKept

\* Only the executor of the newest claim, under a lease that has not run out,
\* ever writes a result.
THEOREM LateWriterFenced == Spec => FencedWrite
<1>1. IInv /\ [Next]_vars => WriteByHolder
  <2> SUFFICES ASSUME IInv, [Next]_vars, row'.result # row.result
               PROVE  \E e \in Executors : /\ pc[e] = "persist" /\ row'.result = out[e]
                                         /\ lease[e] = row.lease_generation /\ row.ttl > 0
                                         /\ \A f \in Executors \ {e} : lease[f] < lease[e]
      BY DEF WriteByHolder
  <2>1. TypeOK /\ Fence /\ Stored1
    BY StepClassified DEF IInv, RowStep, Kept1, Acquired1, Released1, Finalized1
  <2>2. PICK e \in Executors : pc[e] = "persist" /\ row'.result = out[e] /\ LeaseMatches(e)
    BY <2>1 DEF Stored1
  <2>3. row.lease_generation \in Nat /\ lease \in [Executors -> Nat]
    BY <2>1, BoundsAreNat DEF TypeOK, Row
  <2>4. \A f \in Executors \ {e} : lease[f] < lease[e]
    BY <2>1, <2>2, <2>3 DEF Fence, LeaseMatches
  <2> QED
    BY <2>1, <2>2, <2>4 DEF Stored1, LeaseMatches
<1> QED
  BY <1>1, Invariance, PTL DEF Spec, FencedWrite

\* The plan implements the write-once outcome of PlanOutcome.
THEOREM Implements == Spec => ImplementsOutcome
<1>1. Init => Outcome!Init
  BY DEF Init, Outcome!Init, Leased, Settled
<1>2. IInv /\ [Next]_vars => [Outcome!Next]_(Outcome!vars)
  <2> SUFFICES ASSUME IInv, [Next]_vars PROVE [Outcome!Next]_(Outcome!vars)
      OBVIOUS
  <2>1. TypeOK /\ RowChecks /\ Built /\ RowStep
    BY StepClassified DEF IInv
  <2>2. CASE Kept1
    BY <2>2 DEF Kept1, Settled, Outcome!vars
  <2>3. CASE Acquired1
    BY <2>3 DEF Acquired1, Claimable, Settled, Outcome!vars
  <2>4. CASE Released1
    BY <2>4 DEF Released1, Claimable, Settled, Outcome!vars, Outcome!Next, Outcome!Supersede
  <2>5. CASE Stored1
    <3>1. row'.result \in Results
      BY <2>1, <2>5 DEF Stored1, Built
    <3> QED
      BY <2>5, <3>1 DEF Stored1, Settled, Outcome!Next, Outcome!Store
  <2>6. CASE Finalized1
    BY <2>6 DEF Finalized1, Settled, Outcome!Next, Outcome!Complete, Outcome!Supersede
  <2> QED
    BY <2>1, <2>2, <2>3, <2>4, <2>5, <2>6 DEF RowStep
<1> QED
  BY <1>1, <1>2, Invariance, PTL DEF Spec, ImplementsOutcome, Outcome!Spec
=============================================================================
