------------------------- MODULE VaultLocks_proofs -------------------------
(***************************************************************************)
(* Theorems of VaultLocks, for any number of connections, scans and        *)
(* brands, whatever kinds run together.  Without a pair that writes the    *)
(* captures of one brand in both ways, the transactions of a group take    *)
(* their locks in the order of a rank, in which the row of a brand comes   *)
(* after its advisory lock if the group has a raw append of that brand and *)
(* before it if not.  Who is waited for then waits for a lock of a higher  *)
(* rank; ranks are bounded, so the group is no circle.                     *)
(***************************************************************************)
EXTENDS VaultLocks, TLAPS

\* The order of the locks: an upsert of the brand comes before its advisory
\* lock in the repository and after it, late, in the raw append.
Rank(late, class) ==
  CASE class = "workspace" -> 0
    [] class = "ingest" -> 1
    [] class = "brandRow" -> IF late THEN 7 ELSE 2
    [] class = "brand" -> 3
    [] class = "head" -> 4
    [] class \in {"plan", "idempotency"} -> 5
    [] class = "promotion" -> 6
    [] class \in {"packet", "source", "candidate", "authority", "scanRow", "subject"} -> 7
    [] OTHER -> 8

\* The kinds that keep to the rank with a late row, or with an early one.
Keeps(late, k) == IF late THEN k \notin {"capture", "report"} ELSE k # "raw"

\* Every program is as long as it looks, and goes up in its rank.
LEMMA Ascending ==
  ASSUME NEW late \in BOOLEAN, NEW k \in Kinds, Keeps(late, k)
  PROVE  /\ Len(Program[k]) \in Nat
         /\ \A i \in 1 .. Len(Program[k]) : Rank(late, Program[k][i]) \in 0 .. 8
         /\ \A i, j \in 1 .. Len(Program[k]) :
              i < j => Rank(late, Program[k][i]) < Rank(late, Program[k][j])
<1> USE DEF Rank, Keeps, Program
<1>1. CASE k = "capture"
  BY <1>1 DEF PersistCapture
<1>2. CASE k = "report"
  BY <1>2 DEF ImportReport
<1>3. CASE k = "reimport"
  BY <1>3 DEF ReimportReport
<1>4. CASE k = "raw"
  BY <1>4 DEF AppendRaw
<1>5. CASE k = "lineage"
  BY <1>5 DEF BindLineage
<1>6. CASE k = "step"
  BY <1>6 DEF ClaimOrPersist
<1>7. CASE k = "finalize"
  BY <1>7 DEF FinalizePlan
<1>8. CASE k = "packet"
  BY <1>8 DEF RegisterPacket
<1>9. CASE k = "reopen"
  BY <1>9 DEF ReopenGroup
<1>10. CASE k = "source"
  BY <1>10 DEF ReviewSource
<1>11. CASE k = "candidate"
  BY <1>11 DEF AppendCandidate
<1>12. CASE k = "authority"
  BY <1>12 DEF AdvanceAuthority
<1>13. CASE k = "checkpoint"
  BY <1>13 DEF AppendCheckpoint
<1>14. CASE k = "review"
  BY <1>14 DEF AppendReview
<1>15. CASE k = "migrate"
  BY <1>15 DEF Migrate
<1> QED
  BY <1>1, <1>2, <1>3, <1>4, <1>5, <1>6, <1>7, <1>8, <1>9, <1>10, <1>11,
     <1>12, <1>13, <1>14, <1>15 DEF Kinds

\* Every step keeps every variable in its type.
LEMMA StepTyped == TypeOK /\ [Next]_vars => TypeOK'
<1> SUFFICES ASSUME TypeOK, [Next]_vars PROVE TypeOK'
    OBVIOUS
<1>1. kinds \subseteq Kinds
  BY LocksAssumption DEF TypeOK
<1>2. \A k \in kinds : Len(Program[k]) \in Nat /\ k # "none"
  BY <1>1 DEF Kinds, Program, PersistCapture, ImportReport, ReimportReport,
     AppendRaw, BindLineage, ClaimOrPersist, FinalizePlan, RegisterPacket,
     ReopenGroup, ReviewSource, AppendCandidate, AdvanceAuthority,
     AppendCheckpoint, AppendReview, Migrate
<1>3. ASSUME NEW t \in Transactions, Begin(t) PROVE TypeOK'
  BY <1>2, <1>3 DEF TypeOK, Begin
<1>4. ASSUME NEW t \in Transactions, Ask(t) PROVE TypeOK'
  BY <1>2, <1>4 DEF TypeOK, Ask
<1>5. ASSUME NEW t \in Transactions, Grant(t) PROVE TypeOK'
  BY <1>2, <1>5 DEF TypeOK, Grant
<1>6. ASSUME NEW t \in Transactions, End(t) PROVE TypeOK'
  BY <1>2, <1>6 DEF TypeOK, End
<1>7. ASSUME NEW t \in Transactions, Abort(t) PROVE TypeOK'
  BY <1>2, <1>7 DEF TypeOK, Abort
<1>8. CASE UNCHANGED vars
  BY <1>8 DEF TypeOK, vars
<1> QED
  BY <1>3, <1>4, <1>5, <1>6, <1>7, <1>8 DEF Next

\* Every variable of the lock model keeps its type.
THEOREM TypeCorrect == Spec => []TypeOK
<1>1. Init => TypeOK
  BY DEF Init, TypeOK
<1> QED
  BY <1>1, StepTyped, PTL DEF Spec

\* Does the group have a raw append of the brand of t?
Late(group, t) ==
  \E r \in group : kind[r] = "raw" /\ BrandOf[scan[r]] = BrandOf[scan[t]]

\* How far t is in the order of its locks.
Level(group, t) == Rank(Late(group, t), Wanted(t))

\* Who is waited for in a group without a clash waits, if at all, for a lock
\* of a higher rank.
LEMMA WaitsUp ==
  ASSUME TypeOK, NEW group \in SUBSET Transactions,
         \A r, v \in group : ~Clash(r, v),
         NEW t \in group, NEW u \in group, Waits(t, u), asking[u]
  PROVE  /\ Level(group, t) \in 0 .. 8
         /\ Level(group, t) < Level(group, u)
<1>1. /\ kinds \in SUBSET Kinds
      /\ kind[t] \in Kinds /\ kind[u] \in Kinds
      /\ taken[t] \in Nat /\ taken[t] < Len(Program[kind[t]])
      /\ taken[u] \in Nat /\ taken[u] < Len(Program[kind[u]])
  BY LocksAssumption DEF TypeOK, Waits
<1>2. \A v \in group : Late(group, v) \in BOOLEAN /\ Keeps(Late(group, v), kind[v])
  BY DEF Late, Keeps, Clash
<1>3. /\ Len(Program[kind[t]]) \in Nat /\ Len(Program[kind[u]]) \in Nat
      /\ taken[t] + 1 \in 1 .. Len(Program[kind[t]])
      /\ taken[u] + 1 \in 1 .. Len(Program[kind[u]])
  BY <1>1, <1>2, Ascending
<1>4. PICK i \in 1 .. taken[u] : /\ Program[kind[u]][i] = Wanted(t)
                                 /\ Key(Wanted(t), scan[u]) = Key(Wanted(t), scan[t])
  BY DEF Waits, Holds
<1>5. i \in 1 .. Len(Program[kind[u]]) /\ i < taken[u] + 1
  BY <1>1, <1>3, <1>4
<1>6. Rank(Late(group, t), Wanted(t)) = Rank(Late(group, u), Wanted(t))
  <2>1. CASE Wanted(t) = "brandRow"
    <3>1. BrandOf[scan[u]] = BrandOf[scan[t]]
      BY <1>4, <2>1 DEF Key
    <3> QED
      BY <3>1 DEF Late
  <2>2. CASE Wanted(t) # "brandRow"
    BY <2>2 DEF Rank
  <2> QED
    BY <2>1, <2>2
<1>7. Rank(Late(group, u), Program[kind[u]][i])
        < Rank(Late(group, u), Program[kind[u]][taken[u] + 1])
  BY <1>1, <1>2, <1>3, <1>5, Ascending
<1>8. Rank(Late(group, u), Program[kind[u]][i]) \in 0 .. 8
  BY <1>1, <1>2, <1>5, Ascending
<1> QED
  BY <1>4, <1>6, <1>7, <1>8 DEF Wanted, Level

\* Whatever runs together, a set of transactions that waits in a circle has in
\* it the two that write the captures of one brand in opposite orders.
THEOREM OneCause == Spec => []OnlyCapturesCircle
<1>1. ASSUME TypeOK PROVE OnlyCapturesCircle
  <2> SUFFICES ASSUME NEW group \in SUBSET Transactions, Circle(group),
                      \A r, v \in group : ~Clash(r, v)
               PROVE  FALSE
      BY DEF OnlyCapturesCircle
  <2> DEFINE L(t) == Level(group, t)
  <2>1. \A t \in group : asking[t] /\ \E u \in group : Waits(t, u)
    BY DEF Circle, Waits
  <2>2. \A t \in group : L(t) \in 0 .. 8 /\ \E u \in group : L(t) < L(u)
    BY <1>1, <2>1, WaitsUp
  <2>3. group # {}
    BY DEF Circle
  <2> HIDE DEF L
  <2>4. \A t \in group : L(t) \in 0 .. 7
    BY <2>2
  <2>5. \A t \in group : L(t) \in 0 .. 6
    BY <2>2, <2>4
  <2>6. \A t \in group : L(t) \in 0 .. 5
    BY <2>2, <2>5
  <2>7. \A t \in group : L(t) \in 0 .. 4
    BY <2>2, <2>6
  <2>8. \A t \in group : L(t) \in 0 .. 3
    BY <2>2, <2>7
  <2>9. \A t \in group : L(t) \in 0 .. 2
    BY <2>2, <2>8
  <2>10. \A t \in group : L(t) \in 0 .. 1
    BY <2>2, <2>9
  <2>11. \A t \in group : L(t) = 0
    BY <2>2, <2>10
  <2> QED
    BY <2>2, <2>3, <2>11
<1> QED
  BY <1>1, TypeCorrect, PTL

\* The captures of a deployment are written in one way.
OnePath(d) == "raw" \notin d \/ d \cap {"capture", "report"} = {}

\* Where the captures are written in one way nobody ever waits in a circle:
\* nothing is left to the deadlock detector.
THEOREM OneOrder ==
  ASSUME \A d \in Deployments : OnePath(d)
  PROVE  Spec => []NoWaitCycle /\ [][\A t \in Transactions : ~Abort(t)]_vars
<1>1. ASSUME TypeOK, OnlyCapturesCircle PROVE NoWaitCycle
  <2> SUFFICES ASSUME NEW t \in Transactions, NEW u \in Transactions, Clash(t, u)
               PROVE  FALSE
      BY <1>1 DEF NoWaitCycle, OnlyCapturesCircle
  <2>1. kind[t] \in kinds /\ kind[u] \in kinds /\ OnePath(kinds)
    BY <1>1 DEF TypeOK, Clash
  <2> QED
    BY <2>1 DEF Clash, OnePath
<1>2. NoWaitCycle => \A t \in Transactions : ~Abort(t)
  BY DEF NoWaitCycle, Abort
<1> QED
  BY <1>1, <1>2, TypeCorrect, OneCause, PTL
=============================================================================
