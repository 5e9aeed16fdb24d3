----------------------------- MODULE VaultLocks -----------------------------
(***************************************************************************)
(* The transactions of the history database and the locks they wait for:   *)
(* transaction-level advisory locks on the idempotency key of an ingest,   *)
(* on a brand and on the parts of its authority, and the rows that are     *)
(* selected FOR UPDATE or upserted.  A lock is kept until the transaction  *)
(* ends, which it may do early, by a return or an exception, but not while *)
(* it waits, unless the database finds it in a circle of waiters.          *)
(*                                                                         *)
(* A kind of transaction is the sequence of the classes of locks it takes. *)
(* Taking a lock again is no step of it, and kinds that take the same      *)
(* locks are one.  What the transactions read and write is in the other    *)
(* modules, which take a transaction for an atomic step.                   *)
(*                                                                         *)
(* RegisterPacketFirst is a mutated form of RegisterPacket.                *)
(***************************************************************************)
EXTENDS Naturals, Sequences

CONSTANTS
  Transactions,  \* the connections that run transactions
  Scans,         \* source scans; an ingest, its plan and its row belong to one
  BrandOf,       \* the brand of each scan
  Deployments    \* the sets of kinds of transactions that may run together

-----------------------------------------------------------------------------
(* The locks of each kind of transaction, in the order it takes them *)

\* Captures and reports written by the repository.  The upserts of the
\* workspace and of the brand lock their rows.
PersistCapture == <<"workspace", "ingest", "brandRow", "brand">>
ImportReport == <<"workspace", "ingest", "brandRow", "brand", "scanRow">>
ReimportReport == <<"workspace", "ingest", "brand">>

\* A verified raw acquisition: the planning context, then the append.
AppendRaw == <<"ingest", "brand", "promotion", "brandRow">>

\* Capture lineage, review packets and the rebuilds of a brand's ledgers.
BindLineage == <<"brand">>

\* The operation plan, whose row is selected FOR UPDATE first.
ClaimOrPersist == <<"plan", "promotion">>
FinalizePlan == <<"plan", "promotion", "scanRow">>
RegisterPacketFirst == <<"promotion", "plan", "packet">>
RegisterPacket == <<"plan", "promotion", "packet">>
ReopenGroup == <<"plan", "promotion", "source", "review">>

\* Supplements and adoptions by a human, which lock their source packet; an
\* adoption by policy and a score stop at the first lock.
ReviewSource == <<"promotion", "source">>

\* SV9: the schema head is shared with all but a migration.
AppendCandidate == <<"head", "plan", "promotion", "candidate">>
AdvanceAuthority == <<"head", "plan", "promotion", "authority", "tail">>
AppendCheckpoint == <<"head", "plan", "promotion", "authority", "checkpoint">>

\* The reviews of claims, tiles, recoveries and adjudications.
AppendReview == <<"idempotency", "subject">>

Migrate == <<"head">>

Program ==
  [capture |-> PersistCapture, report |-> ImportReport, reimport |-> ReimportReport,
   raw |-> AppendRaw, lineage |-> BindLineage, step |-> ClaimOrPersist,
   finalize |-> FinalizePlan, packet |-> RegisterPacket, reopen |-> ReopenGroup,
   source |-> ReviewSource, candidate |-> AppendCandidate,
   authority |-> AdvanceAuthority, checkpoint |-> AppendCheckpoint,
   review |-> AppendReview, migrate |-> Migrate]

Kinds == DOMAIN Program

\* What a lock of a class is about.
Key(class, s) ==
  CASE class \in {"workspace", "head"} -> "b3s"
    [] class \in {"ingest", "plan", "scanRow", "idempotency"} -> s
    [] OTHER -> BrandOf[s]

ASSUME LocksAssumption == Deployments \subseteq SUBSET Kinds

VARIABLES
  kinds,   \* the kinds of this deployment (fixed at the start)
  kind,    \* what each transaction is, or "none"
  scan,    \* the scan it is about
  taken,   \* how many of its locks it holds
  asking   \* does it wait for the next one?

vars == <<kinds, kind, scan, taken, asking>>

Init ==
  /\ kinds \in Deployments
  /\ kind = [t \in Transactions |-> "none"]
  /\ scan \in [Transactions -> Scans]
  /\ taken = [t \in Transactions |-> 0]
  /\ asking = [t \in Transactions |-> FALSE]

Wanted(t) == Program[kind[t]][taken[t] + 1]

Shared(t, class) == class = "head" /\ kind[t] # "migrate"

Holds(t, class, key) ==
  /\ kind[t] # "none"
  /\ \E i \in 1 .. taken[t] : Program[kind[t]][i] = class /\ Key(class, scan[t]) = key

Waits(t, u) ==
  /\ asking[t] /\ t # u
  /\ Holds(u, Wanted(t), Key(Wanted(t), scan[t]))
  /\ ~(Shared(t, Wanted(t)) /\ Shared(u, Wanted(t)))

Begin(t) ==
  /\ kind[t] = "none"
  /\ \E k \in kinds, s \in Scans : kind' = [kind EXCEPT ![t] = k]
                                  /\ scan' = [scan EXCEPT ![t] = s]
  /\ UNCHANGED <<kinds, taken, asking>>

Ask(t) ==
  /\ kind[t] # "none" /\ ~asking[t]
  /\ taken[t] < Len(Program[kind[t]])
  /\ asking' = [asking EXCEPT ![t] = TRUE]
  /\ UNCHANGED <<kinds, kind, scan, taken>>

Grant(t) ==
  /\ asking[t]
  /\ \A u \in Transactions : ~Waits(t, u)
  /\ taken' = [taken EXCEPT ![t] = @ + 1]
  /\ asking' = [asking EXCEPT ![t] = FALSE]
  /\ UNCHANGED <<kinds, kind, scan>>

\* The commit, an early return or a rollback.
End(t) ==
  /\ kind[t] # "none" /\ ~asking[t]
  /\ kind' = [kind EXCEPT ![t] = "none"]
  /\ taken' = [taken EXCEPT ![t] = 0]
  /\ UNCHANGED <<kinds, scan, asking>>

\* In a circle everybody waits for somebody of the circle.
Circle(group) == group # {} /\ \A t \in group : \E u \in group : Waits(t, u)

\* The database ends a transaction it finds in a circle.
Abort(t) ==
  /\ \E group \in SUBSET Transactions : t \in group /\ Circle(group)
  /\ kind' = [kind EXCEPT ![t] = "none"]
  /\ taken' = [taken EXCEPT ![t] = 0]
  /\ asking' = [asking EXCEPT ![t] = FALSE]
  /\ UNCHANGED <<kinds, scan>>

Next ==
  \E t \in Transactions : Begin(t) \/ Ask(t) \/ Grant(t) \/ End(t) \/ Abort(t)

Spec == Init /\ [][Next]_vars

-----------------------------------------------------------------------------
(* Properties *)

\* Every variable has its type, and who waits has a lock left to take.
TypeOK ==
  /\ kinds \in Deployments
  /\ kind \in [Transactions -> kinds \cup {"none"}]
  /\ scan \in [Transactions -> Scans]
  /\ taken \in [Transactions -> Nat] /\ asking \in [Transactions -> BOOLEAN]
  /\ \A t \in Transactions :
       IF kind[t] = "none" THEN taken[t] = 0 /\ ~asking[t]
       ELSE /\ taken[t] <= Len(Program[kind[t]])
            /\ asking[t] => taken[t] < Len(Program[kind[t]])

\* The transactions take their locks in one global order, so that no set of
\* them ever waits in a circle: somebody can always go on.
NoWaitCycle == \A group \in SUBSET Transactions : ~Circle(group)

\* The two that take the row and the advisory lock of one brand in opposite
\* orders: a raw append, and a capture or a report of the repository.
Clash(t, u) ==
  /\ kind[t] = "raw" /\ kind[u] \in {"capture", "report"}
  /\ BrandOf[scan[t]] = BrandOf[scan[u]]

\* The two ways of writing the captures of one brand are the only cause of a
\* circle: whatever runs together, every circle has such a pair in it.
OnlyCapturesCircle ==
  \A group \in SUBSET Transactions :
    Circle(group) => \E t, u \in group : Clash(t, u)
=============================================================================
