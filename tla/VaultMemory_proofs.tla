-------------------------- MODULE VaultMemory_proofs --------------------------
(***************************************************************************)
(* What holds of the memory of a brand for any number of sessions, scans,  *)
(* sources and tiles.                                                      *)
(*                                                                         *)
(* The argument is about history: a source is built on the version it was  *)
(* registered on, and only the newest version can be extended, so a        *)
(* review or a reopening makes the version right after its source's parent *)
(* and the policy makes one that settles its source for good.  History     *)
(* says so of the versions, Held of what the sessions carry from one       *)
(* transaction to the next; Grown says what any step may do to the stores, *)
(* and both survive it.                                                    *)
(***************************************************************************)
EXTENDS VaultMemory, TLAPS

ScanSteps == {"attest", "reopen", "look", "reread", "build", "adopt", "confirm", "score",
              "created", "superseded", "unchanged"}
ReviewSteps == {"register", "take", "reviewed", "adopted"}
PastReopening == {"reread", "build", "adopt", "confirm", "score",
                  "created", "superseded", "unchanged"}

\* A row of version v comes from a source planned on an earlier version, and one
\* lit by a human from a review that accepts it.
RowSound(t, row, v) ==
  \/ row = NoRow
  \/ row = Dark /\ t \in Tiles
  \/ row.by = "policy" /\ t \in Tiles /\ row.source \in Scans /\ parent[row.source] \in 0..(v - 1)
  \/ /\ row.by = "human" /\ row.source \in reviewed /\ t \in accepted[row.source]
     /\ parent[row.source] \in 0..(v - 1)
     /\ t = C7 => row.source \in Exacts

RowsSound == \A v \in 0..Version : \A t \in AllTiles : RowSound(t, Memory(v).rows[t], v)

\* An ordinary tile once accepted stays accepted, and once lit stays lit.
TilesStay ==
  \A v \in 0..Version : \A w \in v..Version : \A t \in Tiles :
    /\ Lit(Memory(v).rows[t]) => Lit(Memory(w).rows[t])
    /\ Memory(v).rows[t] # NoRow => Memory(w).rows[t] # NoRow

\* A memory with a C7 group bars no evidence.
NothingBarred == \A v \in 0..Version : Lit(Memory(v).rows[C7]) => Memory(v).pending = {}

\* The policy has nothing left to change in what it adopted from s.
Settled(s, t, row) ==
  \/ Shape(s, t) = "contradicted" \/ Lit(row)
  \/ row = Dark /\ Candidate(s, t) = Dark

\* The adoption that made version v came after its source was planned, right
\* after it unless the policy made it.
Origin(v) ==
  LET x == chain[v].source
      g == Memory(v - 1).rows[C7].source IN
    /\ x \in Sources
    /\ IF chain[v].by = "policy" THEN parent[x] \in 0..(v - 1) ELSE parent[x] = v - 1
    /\ chain[v].by = "policy" => x \in Scans /\ \A t \in Tiles : Settled(x, t, chain[v].rows[t])
    /\ chain[v].by = "human" => x \in reviewed
    /\ chain[v].by \in {"delta", "contradiction"} =>
         x \in Scans /\ g \in Exacts /\ chain[v].pending \cap Members[g] # {}
    /\ chain[v].by = "contradiction" => x \in reviewed /\ C7 \in accepted[x]
    /\ chain[v].by # "none"

Origins == \A v \in 1..Version : Origin(v)

\* Every version accepts an ordinary tile.
Inhabited == \A v \in 1..Version : \E t \in Tiles : chain[v].rows[t] # NoRow

\* A group that was reopened is not the brand's again.
GoneForGood ==
  \A v \in 1..Version : chain[v].by \in {"delta", "contradiction"} =>
    \A w \in v..Version : chain[w].rows[C7].source # Memory(v - 1).rows[C7].source

Parents ==
  /\ \A x \in Sources : parent[x] \in -1..Version
  /\ \A g \in Exacts : parent[g] # 0
  /\ \A x \in reviewed : parent[x] # -1

History ==
  /\ Parents /\ RowsSound /\ TilesStay /\ NothingBarred /\ Origins /\ Inhabited /\ GoneForGood
  /\ scored <= Version

\* What session p holds is still true of the stores.
HeldReview(p) ==
  /\ on[p] \in reviewed /\ parent[on[p]] = seen[p]
  /\ pc[p] \in {"register", "take"} /\ on[p] \in Exacts /\ C7 \in accepted[on[p]] =>
       ~Lit(Memory(seen[p]).rows[C7])
  /\ pc[p] = "take" =>
       /\ Decided(on[p]) # {}
       /\ C7 \in Decided(on[p]) => Members[on[p]] \cap Memory(seen[p]).pending = {}

HeldScan(p) ==
  /\ on[p] \in Scans /\ parent[on[p]] # -1
  /\ pc[p] = "attest" => group[p] = NoSource
  /\ pc[p] \in {"reopen", "look"} => Breaks(on[p], group[p])
  /\ pc[p] \in PastReopening /\ group[p] # NoSource => ActiveGroup # group[p]
  /\ pc[p] = "adopt" => HasChange(ScanPacket(p))

HeldEvent(p) ==
  /\ event[p] # 0 =>
       /\ pc[p] \in {"confirm", "score", "created", "superseded", "adopted"}
       /\ chain[event[p]].source = on[p]
       /\ chain[event[p]].by = IF pc[p] = "adopted" THEN "human" ELSE "policy"
  /\ pc[p] \in {"confirm", "created", "superseded", "adopted"} => event[p] # 0
  /\ pc[p] = "score" => event[p] <= seen[p]
  /\ pc[p] = "created" => event[p] <= scored /\ seen[p] = event[p]
  /\ pc[p] = "superseded" => event[p] < Version

Held(p) ==
  /\ seen[p] \in 0..Version /\ event[p] \in 0..Version
  /\ group[p] # NoSource => group[p] \in Exacts /\ parent[group[p]] \in 0..(Version - 1)
  /\ pc[p] = "idle" => group[p] = NoSource
  /\ pc[p] \in ScanSteps => HeldScan(p)
  /\ pc[p] \in ReviewSteps => HeldReview(p)
  /\ HeldEvent(p)

IInv == TypeOK /\ History /\ \A p \in Sessions : Held(p)

USE MemoryAssumption DEF Sources, AllTiles, Shapes

-----------------------------------------------------------------------------
(* Versions *)

\* Every version is a memory, the empty one included.
LEMMA MemoryTyped ==
  ASSUME TypeOK
  PROVE  Version \in Nat /\ \A v \in 0..Version : Memory(v) \in Memories
  <1>1. Version \in Nat /\ \A v \in 1..Version : chain[v] \in Memories
    BY DEF TypeOK, Version
  <1>2. Empty \in Memories
    BY DEF Empty, Memories, NoRow, Rows
  <1> QED
    BY <1>1, <1>2 DEF Memory

\* An adoption adds the newest version and leaves the others as they were.
LEMMA Appended ==
  ASSUME TypeOK, NEW m \in Memories, chain' = Append(chain, m)
  PROVE  /\ Version' = Version + 1 /\ chain' \in Seq(Memories)
         /\ chain'[Version + 1] = m /\ Current' = m
         /\ \A v \in 1..Version : chain'[v] = chain[v]
         /\ \A v \in 0..Version : Memory(v)' = Memory(v)
         /\ \A v \in Nat : v = Version + 1 => Memory(v)' = m
  <1>1. chain \in Seq(Memories) /\ Version \in Nat
    BY DEF TypeOK, Version
  <1>2. /\ Version' = Version + 1 /\ chain' \in Seq(Memories) /\ chain'[Version + 1] = m
        /\ \A v \in 1..Version : chain'[v] = chain[v]
    BY <1>1 DEF Version
  <1>3. Current' = m
    BY <1>1, <1>2 DEF Current, Memory
  <1>4. ASSUME NEW v \in 0..Version PROVE Memory(v)' = Memory(v)
    <2>1. CASE v = 0
      BY <2>1 DEF Memory
    <2>2. CASE v # 0
      <3>1. v \in 1..Version
        BY <1>1, <2>2
      <3>2. chain'[v] = chain[v]
        BY <1>2, <3>1
      <3> QED
        BY <2>2, <3>2 DEF Memory
    <2> QED
      BY <2>1, <2>2
  <1>5. ASSUME NEW v \in Nat, v = Version + 1 PROVE Memory(v)' = m
    <2>1. v # 0
      BY <1>1, <1>5
    <2>2. chain'[v] = chain'[Version + 1]
      BY <1>5
    <2> QED
      BY <1>2, <2>1, <2>2 DEF Memory
  <1> QED
    BY <1>2, <1>3, <1>4, <1>5

\* Without an adoption every version is as it was.
LEMMA NotAppended ==
  ASSUME UNCHANGED chain
  PROVE  Version' = Version /\ Current' = Current /\ ActiveGroup' = ActiveGroup
         /\ \A v \in 0..Version : Memory(v)' = Memory(v)
  BY DEF Version, Current, Memory, ActiveGroup

\* The policy's memory of a source is a memory.
LEMMA ScannedTyped ==
  ASSUME TypeOK, Parents, NEW s \in Scans, parent[s] # -1, NEW memory \in Memories
  PROVE  Scanned(s, memory) \in Memories
  <1>1. Memory(parent[s]) \in Memories
    BY MemoryTyped DEF Parents
  <1>2. \A t \in AllTiles : Candidate(s, t) \in Rows
    BY <1>1 DEF Candidate, Kept, Dark, Rows, Memories
  <1>3. \A t \in AllTiles : Proposed(s, t, memory.rows[t]) \in Rows
    BY <1>2 DEF Proposed, Memories
  <1> QED
    BY <1>3 DEF Scanned, Memories

\* A reviewed memory is a memory.
LEMMA JudgedTyped ==
  ASSUME NEW x \in Sources, NEW memory \in Memories
  PROVE  Judged(x, memory) \in Memories
  BY DEF Judged, Memories, Rows

\* A reopened memory is a memory.
LEMMA ReopenedTyped ==
  ASSUME NEW memory \in Memories, NEW s \in Scans, NEW by \in {"delta", "contradiction"},
         NEW evidence \in SUBSET Evidence, memory.rows[C7].source \in Exacts
  PROVE  Reopened(memory, by, s, evidence) \in Memories
  <1>1. Members[memory.rows[C7].source] \in SUBSET Evidence
    OBVIOUS
  <1>2. [memory.rows EXCEPT ![C7] = NoRow] \in [AllTiles -> Rows]
    BY DEF Memories, Rows, NoRow
  <1> QED
    BY <1>1, <1>2 DEF Reopened, Memories

\* The group behind C7 is an exact source, and it was planned on an older version.
LEMMA GroupExact ==
  ASSUME TypeOK, RowsSound, NEW v \in 0..Version, Memory(v).rows[C7].source # NoSource
  PROVE  Memory(v).rows[C7].source \in Exacts /\ parent[Memory(v).rows[C7].source] \in 0..(v - 1)
  BY DEF RowsSound, RowSound, NoRow, Dark, C7

-----------------------------------------------------------------------------
(* What a step may do to the stores *)

Grown ==
  /\ \A x \in Sources : /\ parent[x] # -1 => parent'[x] = parent[x]
                        /\ parent'[x] \in {parent[x], Version}
  /\ \A g \in Exacts : parent'[g] # 0
  /\ \A x \in reviewed' : parent'[x] # -1
  /\ \A x \in reviewed : x \in reviewed' /\ accepted'[x] = accepted[x]
  /\ scored' \in scored..Version

ByPolicy(m, s) ==
  /\ m.by = "policy" /\ m.source = s /\ parent[s] # -1
  /\ m.pending = Current.pending /\ m.rows[C7] = Current.rows[C7]
  /\ \A t \in Tiles : m.rows[t] = Proposed(s, t, Current.rows[t])
  /\ \E t \in Tiles : m.rows[t] # Current.rows[t]

ByHuman(m, x) ==
  /\ m.by = "human" /\ m.source = x /\ x \in reviewed /\ parent[x] = Version
  /\ Decided(x) # {}
  /\ \A t \in AllTiles : m.rows[t] = IF t \in Decided(x) THEN [by |-> "human", source |-> x]
                                                         ELSE Current.rows[t]
  /\ m.pending = IF C7 \in Decided(x) THEN {} ELSE Current.pending
  /\ C7 \in Decided(x) => /\ x \in Exacts /\ ActiveGroup = NoSource
                          /\ Members[x] \cap Current.pending = {}

ByReopening(m, s) ==
  /\ m.by \in {"delta", "contradiction"} /\ m.source = s /\ parent[s] = Version
  /\ ActiveGroup \in Exacts
  /\ m.rows = [Current.rows EXCEPT ![C7] = NoRow]
  /\ \E evidence \in (SUBSET Members[ActiveGroup]) \ {{}} : m.pending = Current.pending \cup evidence
  /\ m.by = "contradiction" => s \in reviewed /\ C7 \in accepted[s]

Extends(m) ==
  \/ \E s \in Scans : ByPolicy(m, s) \/ ByReopening(m, s)
  \/ \E x \in Sources : ByHuman(m, x)

Adopting == \E m \in Memories : chain' = Append(chain, m) /\ Extends(m)

\* A version that the policy makes has the ordinary rows it had, or lights them.
LEMMA PolicyRows ==
  ASSUME TypeOK, RowsSound, TilesStay, Parents, NEW s \in Scans, parent[s] # -1, NEW t \in Tiles
  PROVE  LET old == Current.rows[t]
             new == Proposed(s, t, Current.rows[t]) IN
           /\ Lit(old) => new = old
           /\ old # NoRow => new # NoRow
           /\ new # old => new # NoRow
           /\ Settled(s, t, new)
           /\ new = old \/ new = Dark \/ new = [by |-> "policy", source |-> s]
  <1> DEFINE old == Current.rows[t]
  <1> DEFINE kept == Memory(parent[s]).rows[t]
  <1>1. Version \in Nat /\ parent[s] \in 0..Version
    BY MemoryTyped DEF Parents
  <1>2. Lit(kept) => Lit(old)
    BY <1>1 DEF TilesStay, Current
  <1>3. /\ ~Lit(NoRow) /\ ~Lit(Dark) /\ Dark # NoRow
        /\ Lit([by |-> "policy", source |-> s])
    BY DEF Lit, NoRow, Dark
  <1>4. Candidate(s, t) = IF Shape(s, t) = "lit" THEN [by |-> "policy", source |-> s]
                          ELSE IF Lit(kept) THEN kept ELSE Dark
    BY DEF Candidate, Kept
  <1>5. Proposed(s, t, old) = IF Shape(s, t) = "contradicted" \/ Lit(old) THEN old
                              ELSE Candidate(s, t)
    BY DEF Proposed
  <1> HIDE DEF old, kept
  <1>6. /\ Lit(old) => Proposed(s, t, old) = old
        /\ old # NoRow => Proposed(s, t, old) # NoRow
        /\ Proposed(s, t, old) # old => Proposed(s, t, old) # NoRow
        /\ \/ Proposed(s, t, old) = old \/ Proposed(s, t, old) = Dark
           \/ Proposed(s, t, old) = [by |-> "policy", source |-> s]
    BY <1>2, <1>3, <1>4, <1>5
  <1>7. Settled(s, t, Proposed(s, t, old))
    BY <1>2, <1>3, <1>4, <1>5 DEF Settled
  <1> QED
    BY <1>6, <1>7 DEF old

\* Whatever extends the memory keeps the ordinary tiles accepted and lit.
LEMMA ExtendKeeps ==
  ASSUME TypeOK, RowsSound, TilesStay, Parents, NEW m \in Memories, Extends(m), NEW t \in Tiles
  PROVE  /\ Lit(Current.rows[t]) => Lit(m.rows[t])
         /\ Current.rows[t] # NoRow => m.rows[t] # NoRow
  <1>0. Version \in Nat /\ Current \in Memories /\ t # C7
    BY MemoryTyped DEF Current
  <1>1. ASSUME NEW s \in Scans, ByPolicy(m, s)
        PROVE  /\ Lit(Current.rows[t]) => Lit(m.rows[t])
               /\ Current.rows[t] # NoRow => m.rows[t] # NoRow
    <2>1. parent[s] # -1 /\ m.rows[t] = Proposed(s, t, Current.rows[t])
      BY <1>1 DEF ByPolicy
    <2> QED
      BY <2>1, PolicyRows DEF Lit
  <1>2. CASE \E s \in Scans : ByReopening(m, s)
    BY <1>0, <1>2 DEF ByReopening, Memories
  <1>3. ASSUME NEW x \in Sources, ByHuman(m, x)
        PROVE  /\ Lit(Current.rows[t]) => Lit(m.rows[t])
               /\ Current.rows[t] # NoRow => m.rows[t] # NoRow
    <2>1. x # NoSource
      OBVIOUS
    <2>2. m.rows[t] = [by |-> "human", source |-> x] \/ m.rows[t] = Current.rows[t]
      BY <1>3 DEF ByHuman
    <2> QED
      BY <2>1, <2>2 DEF Lit, NoRow
  <1> QED
    BY <1>1, <1>2, <1>3 DEF Extends

-----------------------------------------------------------------------------
(* The history survives every step *)

\* What the stores said of a row they still say.
LEMMA RowStaysSound ==
  ASSUME TypeOK, Parents, Grown,
         NEW t \in AllTiles, NEW row \in Rows, NEW v \in Nat, RowSound(t, row, v)
  PROVE  RowSound(t, row, v)'
  <1>1. CASE row = NoRow \/ (row = Dark /\ t \in Tiles)
    BY <1>1 DEF RowSound
  <1>2. CASE /\ row.by = "policy" /\ t \in Tiles /\ row.source \in Scans
             /\ parent[row.source] \in 0..(v - 1)
    <2>1. parent[row.source] # -1 /\ row.source \in Sources
      BY <1>2
    <2>2. parent'[row.source] = parent[row.source]
      BY <2>1 DEF Grown
    <2> QED
      BY <1>2, <2>2 DEF RowSound
  <1>3. CASE /\ row.by = "human" /\ row.source \in reviewed /\ t \in accepted[row.source]
             /\ parent[row.source] \in 0..(v - 1)
             /\ t = C7 => row.source \in Exacts
    <2>1. row.source \in Sources
      BY <1>3 DEF TypeOK
    <2>2. parent[row.source] # -1
      BY <1>3
    <2>3. parent'[row.source] = parent[row.source]
      BY <2>1, <2>2 DEF Grown
    <2>4. row.source \in reviewed' /\ accepted'[row.source] = accepted[row.source]
      BY <1>3 DEF Grown
    <2> QED
      BY <1>3, <2>3, <2>4 DEF RowSound
  <1> QED
    BY <1>1, <1>2, <1>3 DEF RowSound

\* The rows of the versions there were are still sound.
LEMMA PastRowsSound ==
  ASSUME TypeOK, Parents, RowsSound, Grown,
         \A v \in 0..Version : Memory(v)' = Memory(v)
  PROVE  \A v \in 0..Version : \A t \in AllTiles : RowSound(t, Memory(v).rows[t], v)'
  <1> SUFFICES ASSUME NEW v \in 0..Version, NEW t \in AllTiles
               PROVE  RowSound(t, Memory(v).rows[t], v)'
    OBVIOUS
  <1>1. Version \in Nat /\ Memory(v).rows[t] \in Rows
    BY MemoryTyped DEF Memories
  <1>2. PICK row \in Rows : row = Memory(v).rows[t]
    BY <1>1
  <1>3. RowSound(t, row, v)
    BY <1>2 DEF RowsSound
  <1>4. RowSound(t, row, v)'
    BY <1>1, <1>3, RowStaysSound
  <1>5. Memory(v)'.rows[t] = row
    BY <1>2
  <1> QED
    BY <1>4, <1>5 DEF RowSound

\* A row of a new version comes from its source or from the version before.
LEMMA NewRowSound ==
  ASSUME TypeOK, Parents, RowsSound, TilesStay, Grown, NEW m \in Memories, Extends(m),
         NEW t \in AllTiles
  PROVE  RowSound(t, m.rows[t], Version + 1)
  <1> DEFINE old == Current.rows[t]
  <1>1. Version \in Nat /\ old \in Rows
    BY MemoryTyped DEF Current, Memories
  <1>2. RowSound(t, old, Version)
    BY <1>1 DEF RowsSound, Current
  <1>3. RowSound(t, old, Version + 1)
    BY <1>1, <1>2 DEF RowSound
  <1> HIDE DEF old
  <1>4. ASSUME NEW s \in Scans, ByPolicy(m, s) PROVE RowSound(t, m.rows[t], Version + 1)
    <2>1. CASE t = C7
      BY <1>3, <1>4, <2>1 DEF ByPolicy, old
    <2>2. CASE t # C7
      <3>1. t \in Tiles /\ parent[s] # -1 /\ m.rows[t] = Proposed(s, t, old)
        BY <1>4, <2>2 DEF ByPolicy, old
      <3>2. \/ m.rows[t] = old \/ m.rows[t] = Dark
            \/ m.rows[t] = [by |-> "policy", source |-> s]
        BY <3>1, PolicyRows DEF old
      <3>3. parent[s] \in 0..Version
        BY <1>1, <3>1 DEF Parents
      <3> QED
        BY <1>1, <1>3, <3>1, <3>2, <3>3 DEF RowSound
    <2> QED
      BY <2>1, <2>2
  <1>5. ASSUME NEW s \in Scans, ByReopening(m, s) PROVE RowSound(t, m.rows[t], Version + 1)
    <2>1. m.rows[t] = NoRow \/ m.rows[t] = old
      BY <1>5, MemoryTyped DEF ByReopening, old, Current, Memories
    <2> QED
      BY <1>3, <2>1 DEF RowSound
  <1>6. ASSUME NEW x \in Sources, ByHuman(m, x) PROVE RowSound(t, m.rows[t], Version + 1)
    <2>1. CASE t \in Decided(x)
      BY <1>1, <1>6, <2>1 DEF ByHuman, RowSound, Decided
    <2>2. CASE t \notin Decided(x)
      BY <1>3, <1>6, <2>2 DEF ByHuman, old
    <2> QED
      BY <2>1, <2>2
  <1> QED
    BY <1>4, <1>5, <1>6 DEF Extends

LEMMA RowsStaySound ==
  ASSUME TypeOK, Parents, RowsSound, TilesStay, Grown, Adopting \/ UNCHANGED chain
  PROVE  RowsSound'
  <1>1. CASE UNCHANGED chain
    BY <1>1, NotAppended, PastRowsSound DEF RowsSound
  <1>2. CASE Adopting
    <2>1. PICK m \in Memories : chain' = Append(chain, m) /\ Extends(m)
      BY <1>2 DEF Adopting
    <2>2. /\ Version' = Version + 1 /\ Current' = m /\ Version \in Nat
          /\ \A v \in 0..Version : Memory(v)' = Memory(v)
      BY <2>1, Appended, MemoryTyped
    <2>3. \A v \in 0..Version : \A t \in AllTiles : RowSound(t, Memory(v).rows[t], v)'
      BY <2>2, PastRowsSound
    <2>4. ASSUME NEW t \in AllTiles, NEW v \in Nat, v = Version + 1
          PROVE  RowSound(t, Memory(v).rows[t], v)'
      <3>1. Memory(v)' = m /\ m.rows[t] \in Rows
        BY <2>1, <2>4, Appended DEF Memories
      <3>2. PICK row \in Rows : row = m.rows[t]
        BY <3>1
      <3>3. RowSound(t, row, v)
        BY <2>1, <2>4, <3>2, NewRowSound
      <3>4. RowSound(t, row, v)'
        BY <2>2, <2>4, <3>3, RowStaysSound
      <3> QED
        BY <3>1, <3>2, <3>4 DEF RowSound
    <2> QED
      BY <2>2, <2>3, <2>4 DEF RowsSound
  <1> QED
    BY <1>1, <1>2

LEMMA TilesStayOn ==
  ASSUME TypeOK, Parents, RowsSound, TilesStay, Adopting \/ UNCHANGED chain
  PROVE  TilesStay'
  <1>1. CASE UNCHANGED chain
    BY <1>1 DEF TilesStay, Version, Memory
  <1>2. CASE Adopting
    <2>1. PICK m \in Memories : chain' = Append(chain, m) /\ Extends(m)
      BY <1>2 DEF Adopting
    <2>2. /\ Version' = Version + 1 /\ Version \in Nat
          /\ \A v \in 0..Version : Memory(v)' = Memory(v)
      BY <2>1, Appended, MemoryTyped
    <2> SUFFICES ASSUME NEW v \in 0..Version', NEW w \in v..Version', NEW t \in Tiles
                 PROVE  /\ Lit(Memory(v)'.rows[t]) => Lit(Memory(w)'.rows[t])
                        /\ Memory(v)'.rows[t] # NoRow => Memory(w)'.rows[t] # NoRow
      BY DEF TilesStay, Lit
    <2>3. CASE w <= Version
      BY <2>2, <2>3 DEF TilesStay, Lit
    <2>4. CASE v = w
      BY <2>4
    <2>5. CASE w = Version + 1 /\ v <= Version
      <3>1. Memory(w)' = m
        BY <2>1, <2>2, <2>5, Appended
      <3>2. Memory(v)' = Memory(v)
        BY <2>2, <2>5
      <3>3. /\ Lit(Memory(v).rows[t]) => Lit(Current.rows[t])
            /\ Memory(v).rows[t] # NoRow => Current.rows[t] # NoRow
        BY <2>2, <2>5 DEF TilesStay, Current
      <3>4. /\ Lit(Current.rows[t]) => Lit(m.rows[t])
            /\ Current.rows[t] # NoRow => m.rows[t] # NoRow
        BY <2>1, ExtendKeeps
      <3> QED
        BY <3>1, <3>2, <3>3, <3>4 DEF Lit
    <2> QED
      BY <2>2, <2>3, <2>4, <2>5
  <1> QED
    BY <1>1, <1>2

LEMMA NothingBarredStays ==
  ASSUME TypeOK, Parents, RowsSound, NothingBarred, Adopting \/ UNCHANGED chain
  PROVE  NothingBarred'
  <1>1. CASE UNCHANGED chain
    BY <1>1 DEF NothingBarred, Version, Memory
  <1>2. CASE Adopting
    <2>1. PICK m \in Memories : chain' = Append(chain, m) /\ Extends(m)
      BY <1>2 DEF Adopting
    <2>2. /\ Version' = Version + 1 /\ Version \in Nat /\ Current \in Memories
          /\ \A v \in 0..Version : Memory(v)' = Memory(v)
      BY <2>1, Appended, MemoryTyped DEF Current
    <2>3. Lit(Current.rows[C7]) => Current.pending = {}
      BY <2>2 DEF NothingBarred, Current
    <2>4. ASSUME NEW s \in Scans, ByPolicy(m, s) PROVE Lit(m.rows[C7]) => m.pending = {}
      BY <2>3, <2>4 DEF ByPolicy, Lit
    <2>5. ASSUME NEW s \in Scans, ByReopening(m, s) PROVE Lit(m.rows[C7]) => m.pending = {}
      BY <2>2, <2>5 DEF ByReopening, Lit, NoRow, Memories
    <2>6. ASSUME NEW x \in Sources, ByHuman(m, x) PROVE Lit(m.rows[C7]) => m.pending = {}
      BY <2>3, <2>6 DEF ByHuman, Lit
    <2>7. Lit(m.rows[C7]) => m.pending = {}
      BY <2>1, <2>4, <2>5, <2>6 DEF Extends
    <2>8. ASSUME NEW v \in 0..Version', Lit(Memory(v)'.rows[C7]) PROVE Memory(v)'.pending = {}
      <3>1. CASE v \in 0..Version
        BY <2>2, <2>8, <3>1 DEF NothingBarred, Lit
      <3>2. CASE v = Version + 1
        BY <2>1, <2>2, <2>7, <2>8, <3>2, Appended DEF Lit
      <3> QED
        BY <2>2, <3>1, <3>2
    <2> QED
      BY <2>8 DEF NothingBarred, Lit
  <1> QED
    BY <1>1, <1>2

\* The scanner's candidate for a tile is built on a version that stands.
LEMMA CandidateStands ==
  ASSUME Parents, Grown, \A v \in 0..Version : Memory(v)' = Memory(v),
         NEW s \in Scans, parent[s] # -1, NEW t \in AllTiles
  PROVE  Candidate(s, t)' = Candidate(s, t)
  <1>1. parent'[s] = parent[s] /\ parent[s] \in 0..Version
    BY DEF Parents, Grown
  <1>2. Memory(parent[s])' = Memory(parent[s])
    BY <1>1 DEF Memory
  <1> QED
    BY <1>1, <1>2 DEF Candidate, Kept, Lit, Shape

\* The parts of Origin for a source x, a row function, and the group g before it.
LEMMA PastOrigins ==
  ASSUME TypeOK, Parents, Origins, Grown,
         \A v \in 0..Version : Memory(v)' = Memory(v),
         \A v \in 1..Version : chain'[v] = chain[v],
         NEW v \in 1..Version
  PROVE  Origin(v)'
  <1> DEFINE x == chain[v].source
  <1> DEFINE g == Memory(v - 1).rows[C7].source
  <1>1. Version \in Nat /\ v - 1 \in 0..Version
    BY MemoryTyped
  <1>2. Origin(v) /\ x \in Sources /\ parent[x] # -1
    BY <1>1 DEF Origins, Origin
  <1>3. chain'[v] = chain[v] /\ parent'[x] = parent[x]
    BY <1>2 DEF Grown
  <1>4. Memory(v - 1)' = Memory(v - 1)
    BY <1>1
  <1>5. x \in reviewed => x \in reviewed' /\ accepted'[x] = accepted[x]
    BY DEF Grown
  <1>6. ASSUME x \in Scans, NEW t \in Tiles, Settled(x, t, chain[v].rows[t])
        PROVE  Settled(x, t, chain[v].rows[t])'
    <2>1. PICK s \in Scans : s = x
      BY <1>6
    <2>2. Candidate(s, t)' = Candidate(s, t)
      BY <1>2, <2>1, CandidateStands
    <2>3. PICK row : row = chain[v].rows[t]
      OBVIOUS
    <2>4. Settled(s, t, row)
      BY <1>6, <2>1, <2>3
    <2>5. chain'[v].source = s /\ chain'[v].rows[t] = row
      BY <1>3, <2>1, <2>3
    <2> QED
      BY <2>2, <2>4, <2>5 DEF Settled, Shape, Candidate, Kept, Lit
  <1> QED
    BY <1>2, <1>3, <1>4, <1>5, <1>6 DEF Origin

LEMMA NewOrigin ==
  ASSUME TypeOK, Parents, RowsSound, TilesStay, NothingBarred, NEW m \in Memories, Extends(m)
  PROVE  LET x == m.source
             g == ActiveGroup IN
           /\ x \in Sources
           /\ IF m.by = "policy" THEN parent[x] \in 0..Version ELSE parent[x] = Version
           /\ m.by = "policy" => x \in Scans /\ \A t \in Tiles : Settled(x, t, m.rows[t])
           /\ m.by = "human" => x \in reviewed
           /\ m.by \in {"delta", "contradiction"} =>
                x \in Scans /\ g \in Exacts /\ m.pending \cap Members[g] # {}
           /\ m.by = "contradiction" => x \in reviewed /\ C7 \in accepted[x]
           /\ m.by # "none"
  <1>1. ASSUME NEW s \in Scans, ByPolicy(m, s)
        PROVE  parent[s] \in 0..Version /\ \A t \in Tiles : Settled(s, t, m.rows[t])
    <2>1. parent[s] \in 0..Version
      BY <1>1 DEF ByPolicy, Parents
    <2>2. ASSUME NEW t \in Tiles PROVE Settled(s, t, m.rows[t])
      <3>1. m.rows[t] = Proposed(s, t, Current.rows[t]) /\ parent[s] # -1
        BY <1>1 DEF ByPolicy
      <3> QED
        BY <3>1, PolicyRows DEF Settled, Lit
    <2> QED
      BY <2>1, <2>2
  <1>2. ASSUME NEW s \in Scans, ByReopening(m, s)
        PROVE  m.pending \cap Members[ActiveGroup] # {}
    BY <1>2 DEF ByReopening
  <1> QED
    BY <1>1, <1>2 DEF Extends, ByPolicy, ByReopening, ByHuman

LEMMA OriginsStay ==
  ASSUME TypeOK, Parents, RowsSound, TilesStay, NothingBarred, Origins, Grown,
         Adopting \/ UNCHANGED chain
  PROVE  Origins'
  <1>1. CASE UNCHANGED chain
    BY <1>1, NotAppended, PastOrigins DEF Origins
  <1>2. CASE Adopting
    <2>1. PICK m \in Memories : chain' = Append(chain, m) /\ Extends(m)
      BY <1>2 DEF Adopting
    <2>2. /\ Version' = Version + 1 /\ Version \in Nat /\ chain'[Version + 1] = m
          /\ \A v \in 0..Version : Memory(v)' = Memory(v)
          /\ \A v \in 1..Version : chain'[v] = chain[v]
      BY <2>1, Appended, MemoryTyped
    <2>3. \A v \in 1..Version : Origin(v)'
      BY <2>2, PastOrigins
    <2>4. ASSUME NEW v \in Nat, v = Version + 1 PROVE Origin(v)'
      <3>1. chain'[v] = chain'[Version + 1]
        BY <2>4
      <3>2. chain'[v] = m /\ v - 1 = Version
        BY <2>2, <2>4, <3>1
      <3>3. Memory(v - 1)' = Current
        BY <2>2, <3>2 DEF Current
      <3>4. PICK x \in Sources : x = m.source
        BY <2>1, NewOrigin
      <3>5. parent'[x] = parent[x]
        BY <2>1, <2>2, <3>4, NewOrigin DEF Grown
      <3>6. x \in reviewed => x \in reviewed' /\ accepted'[x] = accepted[x]
        BY DEF Grown
      <3>7. ASSUME x \in Scans, parent[x] # -1, NEW t \in Tiles, Settled(x, t, m.rows[t])
            PROVE  Settled(x, t, m.rows[t])'
        BY <2>2, <3>7, CandidateStands DEF Settled, Lit, Shape
      <3>8. /\ m.by = "policy" => /\ x \in Scans /\ parent[x] # -1
                                   /\ \A t \in Tiles : Settled(x, t, m.rows[t])'
            /\ IF m.by = "policy" THEN parent[x] \in 0..Version ELSE parent[x] = Version
        BY <2>1, <2>2, <3>4, <3>7, NewOrigin
      <3>9. /\ m.by = "human" => x \in reviewed
            /\ m.by \in {"delta", "contradiction"} =>
                 x \in Scans /\ ActiveGroup \in Exacts /\ m.pending \cap Members[ActiveGroup] # {}
            /\ m.by = "contradiction" => x \in reviewed /\ C7 \in accepted[x]
            /\ m.by # "none"
        BY <2>1, <3>4, NewOrigin
      <3> QED
        BY <3>2, <3>3, <3>4, <3>5, <3>6, <3>8, <3>9 DEF Origin, Settled, ActiveGroup
    <2> QED
      BY <2>2, <2>3, <2>4 DEF Origins
  <1> QED
    BY <1>1, <1>2

LEMMA InhabitedStays ==
  ASSUME TypeOK, Parents, RowsSound, TilesStay, Inhabited, Adopting \/ UNCHANGED chain
  PROVE  Inhabited'
  <1>1. CASE UNCHANGED chain
    BY <1>1 DEF Inhabited, Version
  <1>2. CASE Adopting
    <2>1. PICK m \in Memories : chain' = Append(chain, m) /\ Extends(m)
      BY <1>2 DEF Adopting
    <2>2. /\ Version' = Version + 1 /\ Version \in Nat /\ chain'[Version + 1] = m
          /\ \A v \in 1..Version : chain'[v] = chain[v]
      BY <2>1, Appended, MemoryTyped
    <2>3. Version # 0 => \E t \in Tiles : m.rows[t] # NoRow
      <3>1. SUFFICES ASSUME Version # 0 PROVE \E t \in Tiles : m.rows[t] # NoRow
        OBVIOUS
      <3>2. PICK t \in Tiles : Current.rows[t] # NoRow
        BY <2>2, <3>1 DEF Inhabited, Current, Memory
      <3> QED
        BY <2>1, <3>2, ExtendKeeps
    <2>4. ASSUME NEW s \in Scans, ByPolicy(m, s) PROVE \E t \in Tiles : m.rows[t] # NoRow
      <3>1. PICK t \in Tiles : m.rows[t] # Current.rows[t]
        BY <2>4 DEF ByPolicy
      <3>2. m.rows[t] = Proposed(s, t, Current.rows[t]) /\ parent[s] # -1
        BY <2>4 DEF ByPolicy
      <3> QED
        BY <3>1, <3>2, PolicyRows
    <2>5. ASSUME NEW s \in Scans, ByReopening(m, s) PROVE Version # 0
      <3>1. ActiveGroup # NoSource
        BY <2>5 DEF ByReopening
      <3>2. parent[ActiveGroup] \in 0..(Version - 1)
        BY <2>2, <3>1, GroupExact DEF ActiveGroup, Current
      <3> QED
        BY <2>2, <3>2
    <2>6. ASSUME NEW x \in Sources, ByHuman(m, x) PROVE \E t \in Tiles : m.rows[t] # NoRow
      <3>1. PICK t \in AllTiles : t \in Decided(x)
        BY <2>6 DEF ByHuman, Decided, TypeOK
      <3>2. CASE t = C7
        BY <2>3, <2>6, <3>1, <3>2 DEF ByHuman, Parents
      <3>3. CASE t # C7
        BY <2>6, <3>1, <3>3 DEF ByHuman, NoRow
      <3> QED
        BY <3>2, <3>3
    <2>7. \E t \in Tiles : m.rows[t] # NoRow
      BY <2>1, <2>3, <2>4, <2>5, <2>6 DEF Extends
    <2> QED
      BY <2>2, <2>7 DEF Inhabited
  <1> QED
    BY <1>1, <1>2

\* The C7 group of a new version is the one before, none, or one planned right before.
LEMMA NewGroup ==
  ASSUME TypeOK, NEW m \in Memories, Extends(m)
  PROVE  \/ m.rows[C7].source \in {ActiveGroup, NoSource}
         \/ m.rows[C7].source \in Exacts /\ parent[m.rows[C7].source] = Version
  <1>1. Current.rows \in [AllTiles -> Rows] /\ C7 \in AllTiles
    BY MemoryTyped DEF Current, Memories
  <1>2. ASSUME NEW x \in Sources, ByHuman(m, x)
        PROVE  \/ m.rows[C7].source = ActiveGroup
               \/ m.rows[C7].source \in Exacts /\ parent[m.rows[C7].source] = Version
    BY <1>2 DEF ByHuman, ActiveGroup
  <1> QED
    BY <1>1, <1>2 DEF Extends, ByPolicy, ByReopening, ActiveGroup, NoRow

LEMMA GoneForGoodStays ==
  ASSUME TypeOK, Parents, RowsSound, Origins, GoneForGood, Adopting \/ UNCHANGED chain
  PROVE  GoneForGood'
  <1>1. CASE UNCHANGED chain
    BY <1>1 DEF GoneForGood, Version, Memory
  <1>2. CASE Adopting
    <2>1. PICK m \in Memories : chain' = Append(chain, m) /\ Extends(m)
      BY <1>2 DEF Adopting
    <2>2. /\ Version' = Version + 1 /\ Version \in Nat /\ chain'[Version + 1] = m
          /\ \A v \in 0..Version : Memory(v)' = Memory(v)
          /\ \A v \in 1..Version : chain'[v] = chain[v]
      BY <2>1, Appended, MemoryTyped
    <2>0. Current.rows \in [AllTiles -> Rows]
      BY MemoryTyped DEF Current, Memories
    <2> SUFFICES ASSUME NEW v \in 1..Version', chain'[v].by \in {"delta", "contradiction"},
                        NEW w \in v..Version'
                 PROVE  chain'[w].rows[C7].source # Memory(v - 1)'.rows[C7].source
      BY DEF GoneForGood
    <2> DEFINE g == Memory(v - 1).rows[C7].source
    <2>3. Memory(v - 1)' = Memory(v - 1) /\ v - 1 \in 0..Version
      BY <2>2
    <2>4. CASE v = Version + 1
      <3>1. w = v /\ chain'[w] = m /\ g = ActiveGroup
        BY <2>2, <2>4 DEF ActiveGroup, Current
      <3>2. m.rows[C7] = NoRow /\ ActiveGroup # NoSource
        BY <2>0, <2>1, <2>2, <3>1 DEF Extends, ByPolicy, ByHuman, ByReopening
      <3> QED
        BY <2>3, <3>1, <3>2 DEF NoRow
    <2>5. CASE v \in 1..Version
      <3>1. chain'[v] = chain[v] /\ Origin(v)
        BY <2>2, <2>5 DEF Origins
      <3>2. g \in Exacts
        BY <3>1 DEF Origin
      <3>3. parent[g] \in 0..(v - 2)
        BY <2>3, <3>2, GroupExact
      <3>4. CASE w \in v..Version
        BY <2>2, <2>3, <2>5, <3>1, <3>4 DEF GoneForGood
      <3>5. CASE w = Version + 1
        <4>1. ActiveGroup # g
          BY <2>2, <2>5, <3>1 DEF GoneForGood, ActiveGroup, Current, Memory
        <4>2. m.rows[C7].source # g
          BY <2>1, <2>2, <2>5, <3>2, <3>3, <4>1, NewGroup
        <4>3. chain'[w] = chain'[Version + 1]
          BY <3>5
        <4> QED
          BY <2>2, <2>3, <4>2, <4>3
      <3> QED
        BY <2>2, <3>4, <3>5
    <2> QED
      BY <2>2, <2>4, <2>5
  <1> QED
    BY <1>1, <1>2

\* The history survives any step that keeps what the stores said.
LEMMA HistoryStays ==
  ASSUME TypeOK, History, Grown, Adopting \/ UNCHANGED chain
  PROVE  History'
  <1>1. Version \in Nat /\ Version' \in {Version, Version + 1}
    BY MemoryTyped, NotAppended, Appended DEF Adopting
  <1>2. ASSUME NEW x \in Sources PROVE parent'[x] \in -1..Version'
    BY <1>1 DEF History, Parents, Grown
  <1>3. Parents' /\ scored' <= Version'
    BY <1>1, <1>2 DEF History, Parents, Grown, TypeOK
  <1> QED
    BY <1>3, RowsStaySound, TilesStayOn, NothingBarredStays, OriginsStay, InhabitedStays,
       GoneForGoodStays DEF History

-----------------------------------------------------------------------------
(* What a session holds survives the steps of the others *)

LEMMA Onward ==
  ASSUME TypeOK, Adopting \/ UNCHANGED chain
  PROVE  /\ Version \in Nat /\ Version' \in Nat /\ Version <= Version'
         /\ \A v \in 0..Version : Memory(v)' = Memory(v)
         /\ \A v \in 1..Version : chain'[v] = chain[v]
         /\ chain' \in Seq(Memories)
  BY MemoryTyped, NotAppended, Appended DEF Adopting, TypeOK

\* A group the brand has lost does not come back.
LEMMA LostStaysLost ==
  ASSUME TypeOK, Adopting \/ UNCHANGED chain,
         NEW g \in Exacts, parent[g] \in 0..(Version - 1), ActiveGroup # g
  PROVE  ActiveGroup' # g
  <1>1. CASE UNCHANGED chain
    BY <1>1, NotAppended
  <1>2. CASE Adopting
    <2>1. PICK m \in Memories : chain' = Append(chain, m) /\ Extends(m)
      BY <1>2 DEF Adopting
    <2>2. ActiveGroup' = m.rows[C7].source
      BY <2>1, Appended DEF ActiveGroup
    <2>3. Version \in Nat
      BY MemoryTyped
    <2> QED
      BY <2>1, <2>2, <2>3, NewGroup
  <1> QED
    BY <1>1, <1>2

\* What the policy would change it still would.
LEMMA ChangeStands ==
  ASSUME TypeOK, Parents, Grown, \A v \in 0..Version : Memory(v)' = Memory(v),
         NEW s \in Scans, parent[s] # -1, NEW v \in 0..Version
  PROVE  HasChange([by |-> "policy", source |-> s, parent |-> v])' =
         HasChange([by |-> "policy", source |-> s, parent |-> v])
  <1>1. Memory(v)' = Memory(v)
    OBVIOUS
  <1>2. \A t \in AllTiles : Candidate(s, t)' = Candidate(s, t)
    BY CandidateStands
  <1>3. ASSUME NEW t \in AllTiles
        PROVE  Proposed(s, t, Memory(v).rows[t])' = Proposed(s, t, Memory(v).rows[t])
    BY <1>1, <1>2, <1>3 DEF Proposed, Shape, Lit
  <1>4. Scanned(s, Memory(v))' = Scanned(s, Memory(v))
    BY <1>1, <1>3 DEF Scanned
  <1> QED
    BY <1>1, <1>4 DEF HasChange, Built

LEMMA HeldScanStays ==
  ASSUME TypeOK, History, Grown, Adopting \/ UNCHANGED chain, NEW q \in Sessions,
         Held(q), pc[q] \in ScanSteps,
         pc'[q] = pc[q], on'[q] = on[q], seen'[q] = seen[q], group'[q] = group[q]
  PROVE  HeldScan(q)'
  <1>1. /\ \A v \in 0..Version : Memory(v)' = Memory(v)
        /\ HeldScan(q) /\ Parents
    BY Onward DEF Held, History
  <1>2. on[q] \in Scans /\ parent[on[q]] # -1 /\ parent'[on[q]] = parent[on[q]]
    BY <1>1 DEF HeldScan, Grown
  <1>3. group[q] # NoSource /\ ActiveGroup # group[q] => ActiveGroup' # group[q]
    BY LostStaysLost DEF Held
  <1>4. HasChange(ScanPacket(q)) => HasChange(ScanPacket(q))'
    <2>1. PICK s \in Scans : s = on[q]
      BY <1>2
    <2>2. PICK v \in 0..Version : v = seen[q]
      BY DEF Held
    <2>3. /\ ScanPacket(q) = [by |-> "policy", source |-> s, parent |-> v]
          /\ ScanPacket(q)' = [by |-> "policy", source |-> s, parent |-> v]
      BY <2>1, <2>2 DEF ScanPacket
    <2>4. HasChange([by |-> "policy", source |-> s, parent |-> v])' =
          HasChange([by |-> "policy", source |-> s, parent |-> v])
      BY <1>1, <1>2, <2>1, ChangeStands
    <2> QED
      BY <2>3, <2>4
  <1> QED
    BY <1>1, <1>2, <1>3, <1>4 DEF HeldScan, Breaks

LEMMA HeldReviewStays ==
  ASSUME TypeOK, History, Grown, Adopting \/ UNCHANGED chain, NEW q \in Sessions,
         Held(q), pc[q] \in ReviewSteps,
         pc'[q] = pc[q], on'[q] = on[q], seen'[q] = seen[q]
  PROVE  HeldReview(q)'
  <1>1. /\ HeldReview(q) /\ Parents /\ seen[q] \in 0..Version
        /\ Memory(seen[q])' = Memory(seen[q])
    <2>1. PICK v \in 0..Version : v = seen[q]
      BY DEF Held
    <2>2. Memory(v)' = Memory(v)
      BY Onward
    <2> QED
      BY <2>1, <2>2 DEF Held, History, Memory
  <1>2. /\ on[q] \in reviewed /\ on[q] \in Sources /\ parent[on[q]] # -1
    BY <1>1 DEF HeldReview, Parents, TypeOK
  <1>3. /\ on[q] \in reviewed' /\ accepted'[on[q]] = accepted[on[q]]
        /\ parent'[on[q]] = parent[on[q]]
    BY <1>2 DEF Grown
  <1>4. Decided(on[q])' = Decided(on[q])
    BY <1>3 DEF Decided, Shape
  <1> QED
    BY <1>1, <1>3, <1>4 DEF HeldReview, Lit

LEMMA HeldEventStays ==
  ASSUME TypeOK, History, Grown, Adopting \/ UNCHANGED chain, NEW q \in Sessions, Held(q),
         pc'[q] = pc[q], on'[q] = on[q], seen'[q] = seen[q], event'[q] = event[q]
  PROVE  HeldEvent(q)'
  <1>1. HeldEvent(q) /\ event[q] \in 0..Version
    BY DEF Held
  <1>2. Version \in Nat /\ Version' \in Nat /\ Version <= Version' /\ scored <= scored'
        /\ scored \in Nat /\ scored' \in Nat
    BY Onward DEF Grown, TypeOK
  <1>3. event[q] # 0 => chain'[event[q]] = chain[event[q]]
    BY <1>1, <1>2, Onward
  <1> QED
    BY <1>1, <1>2, <1>3 DEF HeldEvent

LEMMA HeldStays ==
  ASSUME TypeOK, History, Grown, Adopting \/ UNCHANGED chain, NEW q \in Sessions, Held(q),
         pc'[q] = pc[q], on'[q] = on[q], seen'[q] = seen[q], group'[q] = group[q],
         event'[q] = event[q]
  PROVE  Held(q)'
  <1>1. Version \in Nat /\ Version' \in Nat /\ Version <= Version'
    BY Onward
  <1>2. group[q] # NoSource => group[q] \in Exacts /\ parent'[group[q]] \in 0..(Version' - 1)
    BY <1>1 DEF Held, Grown
  <1>3. seen[q] \in 0..Version' /\ event[q] \in 0..Version'
    BY <1>1 DEF Held
  <1> QED
    BY <1>2, <1>3, HeldScanStays, HeldReviewStays, HeldEventStays DEF Held

-----------------------------------------------------------------------------
(* The adoptions *)

\* A step that leaves the sources alone and scores at most the newest version.
LEMMA Quiet ==
  ASSUME TypeOK, History, UNCHANGED stores, scored' \in scored..Version
  PROVE  Grown
  BY DEF TypeOK, History, Parents, Grown, stores

LEMMA PolicyExtends ==
  ASSUME IInv, NEW p \in Sessions, pc[p] = "adopt", seen[p] = Version
  PROVE  LET m == Adopted(ScanPacket(p), Built(ScanPacket(p))) IN
           m \in Memories /\ ByPolicy(m, on[p]) /\ on[p] \in Scans
  <1> DEFINE m == Adopted(ScanPacket(p), Built(ScanPacket(p)))
  <1>1. HeldScan(p) /\ Parents /\ TypeOK
    BY DEF IInv, Held, ScanSteps, History
  <1>2. on[p] \in Scans /\ parent[on[p]] # -1 /\ HasChange(ScanPacket(p))
    BY <1>1 DEF HeldScan
  <1>3. Current \in Memories
    BY <1>1, MemoryTyped DEF Current
  <1>4. Built(ScanPacket(p)) = Scanned(on[p], Current)
    BY DEF Built, ScanPacket, Current
  <1>5. Scanned(on[p], Current) \in Memories
    BY <1>1, <1>2, <1>3, ScannedTyped
  <1>6. m = [Scanned(on[p], Current) EXCEPT !.by = "policy", !.source = on[p]]
    BY <1>4 DEF Adopted, ScanPacket
  <1>7. m \in Memories
    BY <1>2, <1>5, <1>6 DEF Memories
  <1>8. /\ m.by = "policy" /\ m.source = on[p] /\ m.pending = Current.pending
        /\ m.rows = [t \in AllTiles |-> IF t = C7 THEN Current.rows[C7]
                                        ELSE Proposed(on[p], t, Current.rows[t])]
    BY <1>3, <1>5, <1>6 DEF Scanned, Memories
  <1>9. m.rows[C7] = Current.rows[C7] /\ \A t \in Tiles : m.rows[t] = Proposed(on[p], t, Current.rows[t])
    BY <1>8
  <1>10. \E t \in Tiles : m.rows[t] # Current.rows[t]
    <2>1. Built(ScanPacket(p)).rows # Current.rows
      BY <1>2 DEF HasChange, ScanPacket, Current
    <2>2. m.rows # Current.rows
      BY <1>3, <1>4, <1>5, <1>6, <2>1 DEF Memories
    <2>3. Current.rows \in [AllTiles -> Rows] /\ m.rows \in [AllTiles -> Rows]
      BY <1>3, <1>7 DEF Memories
    <2>4. \E t \in AllTiles : m.rows[t] # Current.rows[t]
      BY <2>2, <2>3
    <2> QED
      BY <1>9, <2>4
  <1> QED
    BY <1>2, <1>7, <1>8, <1>9, <1>10 DEF ByPolicy

LEMMA ScansLeaveC7 == \A s \in Scans : Shape(s, C7) # "lit"
  <1> TAKE s \in Scans
  <1>1. Shape(s, C7) = Proposal[s].shape[C7]
    BY DEF Shape
  <1>2. Proposal[s].shape[C7] # "lit"
    OBVIOUS
  <1> QED
    BY <1>1, <1>2

LEMMA HumanExtends ==
  ASSUME IInv, NEW p \in Sessions, pc[p] = "take", seen[p] = Version
  PROVE  LET m == Adopted(ReviewPacket(p), Built(ReviewPacket(p))) IN
           m \in Memories /\ ByHuman(m, on[p]) /\ on[p] \in Sources
  <1> DEFINE m == Adopted(ReviewPacket(p), Built(ReviewPacket(p)))
  <1> DEFINE x == on[p]
  <1>1. HeldReview(p) /\ RowsSound /\ TypeOK
    BY DEF IInv, Held, ReviewSteps, History
  <1>2. x \in Sources /\ x \in reviewed /\ parent[x] = Version /\ Decided(x) # {}
    BY <1>1 DEF HeldReview, TypeOK
  <1>3. Current \in Memories
    BY <1>1, MemoryTyped DEF Current
  <1>4. Built(ReviewPacket(p)) = Judged(x, Current)
    BY DEF Built, ReviewPacket, Current
  <1>5. Judged(x, Current) \in Memories
    BY <1>2, <1>3, JudgedTyped
  <1>6. m = [Judged(x, Current) EXCEPT !.by = "human", !.source = x]
    BY <1>4 DEF Adopted, ReviewPacket
  <1>7. m \in Memories
    BY <1>2, <1>5, <1>6 DEF Memories
  <1>8. /\ m.by = "human" /\ m.source = x
        /\ m.pending = IF C7 \in Decided(x) THEN {} ELSE Current.pending
        /\ m.rows = [t \in AllTiles |-> IF t \in Decided(x) THEN [by |-> "human", source |-> x]
                                                            ELSE Current.rows[t]]
    BY <1>3, <1>5, <1>6 DEF Judged, Memories
  <1>9. ASSUME C7 \in Decided(x)
        PROVE  x \in Exacts /\ ActiveGroup = NoSource /\ Members[x] \cap Current.pending = {}
    <2>1. x \in Exacts /\ C7 \in accepted[x]
      <3>1. C7 \in accepted[x] /\ Shape(x, C7) = "lit"
        BY <1>9 DEF Decided
      <3>2. x \in Scans => Shape(x, C7) # "lit"
        BY ScansLeaveC7
      <3> QED
        BY <1>2, <3>1, <3>2
    <2>2. ~Lit(Current.rows[C7]) /\ Members[x] \cap Current.pending = {}
      BY <1>1, <1>9, <2>1 DEF HeldReview, Current
    <2> QED
      BY <2>1, <2>2 DEF Lit, ActiveGroup
  <1> QED
    BY <1>2, <1>7, <1>8, <1>9 DEF ByHuman

LEMMA ReopeningExtends ==
  ASSUME TypeOK, NEW s \in Scans, NEW by \in {"delta", "contradiction"},
         NEW evidence \in SUBSET Evidence, parent[s] = Version,
         ActiveGroup \in Exacts, Members[ActiveGroup] \cap evidence # {},
         by = "contradiction" => s \in reviewed /\ C7 \in accepted[s]
  PROVE  LET m == Reopened(Current, by, s, evidence) IN m \in Memories /\ ByReopening(m, s)
  <1> DEFINE m == Reopened(Current, by, s, evidence)
  <1>1. Current \in Memories
    BY MemoryTyped DEF Current
  <1>2. m \in Memories
    BY <1>1, ReopenedTyped DEF ActiveGroup
  <1>3. /\ m.by = by /\ m.source = s
        /\ m.rows = [Current.rows EXCEPT ![C7] = NoRow]
        /\ m.pending = Current.pending \cup (Members[ActiveGroup] \cap evidence)
    BY <1>1 DEF Reopened, ActiveGroup, Memories
  <1> QED
    BY <1>2, <1>3 DEF ByReopening

-----------------------------------------------------------------------------
(* The steps *)

Moves(p) ==
  /\ pc' \in [Sessions -> Steps] /\ on' \in [Sessions -> Sources \cup {NoSource}]
  /\ seen' \in [Sessions -> Nat] /\ group' \in [Sessions -> Exacts \cup {NoSource}]
  /\ event' \in [Sessions -> Nat]
  /\ \A q \in Sessions \ {p} :
       /\ pc'[q] = pc[q] /\ on'[q] = on[q] /\ seen'[q] = seen[q]
       /\ group'[q] = group[q] /\ event'[q] = event[q]

StoresTyped ==
  /\ parent' \in [Sources -> Nat \cup {-1}]
  /\ reviewed' \in SUBSET Sources /\ accepted' \in [Sources -> SUBSET AllTiles]

\* A step keeps the invariant, and at most extends the memory.
Sound == IInv' /\ (Adopting \/ UNCHANGED chain)

\* It is enough that the stores only grow and the session that moved holds the truth.
LEMMA OneMoves ==
  ASSUME IInv, Grown, StoresTyped, Adopting \/ UNCHANGED chain,
         NEW p \in Sessions, Moves(p), Held(p)'
  PROVE  Sound
  <1>1. TypeOK'
    BY Onward DEF IInv, TypeOK, Moves, StoresTyped, Grown
  <1>2. History'
    BY HistoryStays DEF IInv
  <1>3. \A q \in Sessions \ {p} : Held(q)'
    BY HeldStays DEF IInv, Moves
  <1> QED
    BY <1>1, <1>2, <1>3 DEF IInv, Sound

\* The same of a step that is not a session's.
LEMMA NoneMoves ==
  ASSUME IInv, Grown, StoresTyped, Adopting \/ UNCHANGED chain, UNCHANGED locals
  PROVE  Sound
  <1>1. TypeOK'
    BY Onward DEF IInv, TypeOK, StoresTyped, Grown, locals, held
  <1>2. History'
    BY HistoryStays DEF IInv
  <1>3. \A q \in Sessions : Held(q)'
    BY HeldStays DEF IInv, locals, held
  <1> QED
    BY <1>1, <1>2, <1>3 DEF IInv, Sound

\* The same of a step that only moves a session, or scores.
LEMMA OnlyMoves ==
  ASSUME IInv, UNCHANGED stores, UNCHANGED chain, scored' \in scored..Version,
         NEW p \in Sessions, Moves(p), Held(p)'
  PROVE  Sound
  <1>1. Grown
    BY Quiet DEF IInv
  <1>2. StoresTyped
    BY DEF IInv, TypeOK, StoresTyped, stores
  <1> QED
    BY <1>1, <1>2, OneMoves

LEMMA ScoredStays ==
  ASSUME IInv, UNCHANGED scored
  PROVE  scored' \in scored..Version
  BY MemoryTyped DEF IInv, TypeOK, History

LEMMA LeaveHolds ==
  ASSUME IInv, NEW p \in Sessions, Leave(p)
  PROVE  Sound
  <1>1. Moves(p)
    BY DEF IInv, TypeOK, Leave, Go, Moves, Steps
  <1>2. Version' = Version /\ Version \in Nat
    BY NotAppended, MemoryTyped DEF Leave, IInv
  <1>3. Held(p)'
    BY <1>2 DEF IInv, TypeOK, Leave, Go, Held, HeldEvent, ScanSteps, ReviewSteps
  <1> QED
    BY <1>1, <1>3, OnlyMoves, ScoredStays DEF Leave

LEMMA RegisterHolds ==
  ASSUME IInv, RegisterScan \/ RegisterExact
  PROVE  Sound
  <1>1. PICK x \in Sources : Register(x) /\ (x \in Exacts => Version > 0)
    BY DEF RegisterScan, RegisterExact
  <1>2. Version \in Nat
    BY MemoryTyped DEF IInv
  <1>3. Grown
    BY <1>1, <1>2 DEF IInv, History, Parents, TypeOK, Grown, Register, RegisterScan, RegisterExact
  <1>4. StoresTyped /\ UNCHANGED locals /\ UNCHANGED chain
    BY <1>1, <1>2 DEF IInv, TypeOK, StoresTyped, Register, RegisterScan, RegisterExact, locals
  <1> QED
    BY <1>3, <1>4, NoneMoves

LEMMA ReopenContradictedHolds ==
  ASSUME IInv, NEW s \in Scans, ReopenContradicted(s)
  PROVE  Sound
  <1>1. Contradicts(s) /\ parent[s] = Version /\ UNCHANGED <<stores, scored, locals>>
        /\ chain' = Append(chain, Reopened(Current, "contradiction", s, Proposal[s].against))
    BY DEF ReopenContradicted
  <1>2. TypeOK /\ RowsSound /\ Version \in Nat
    BY MemoryTyped DEF IInv, History
  <1>3. ActiveGroup \in Exacts
    BY <1>1, <1>2, GroupExact DEF Contradicts, ActiveGroup, Current
  <1>4. Proposal[s].against \in SUBSET Evidence
    BY DEF Proposals
  <1>5. Adopting
    BY <1>1, <1>2, <1>3, <1>4, ReopeningExtends DEF Contradicts, Adopting, Extends
  <1>6. Grown /\ StoresTyped
    BY <1>1, Quiet, ScoredStays DEF IInv, TypeOK, StoresTyped, stores
  <1> QED
    BY <1>1, <1>5, <1>6, NoneMoves

\* Facts every step starts from.
LEMMA Ready ==
  ASSUME IInv, NEW p \in Sessions
  PROVE  /\ TypeOK /\ History /\ Parents /\ RowsSound /\ Held(p) /\ HeldEvent(p)
         /\ Version \in Nat /\ Current \in Memories
         /\ pc[p] \in Steps /\ on[p] \in Sources \cup {NoSource}
         /\ scored \in 0..Version
  BY MemoryTyped DEF IInv, TypeOK, History, Held, Current

LEMMA ActivateHolds ==
  ASSUME IInv, NEW p \in Sessions, NEW s \in Scans, Activate(p, s)
  PROVE  Sound
  <1>1. Moves(p)
    BY Ready DEF TypeOK, Activate, Go, Sees, Moves, Steps
  <1>2. UNCHANGED <<stores, chain, scored>> /\ Version' = Version
    BY NotAppended DEF Activate
  <1>3. /\ pc'[p] \in {"build", "attest"} /\ on'[p] = s /\ seen'[p] = Version
        /\ group'[p] = NoSource /\ event'[p] = 0 /\ parent'[s] # -1
    BY Ready DEF TypeOK, Activate, Go, Sees, Held, HeldEvent, stores
  <1>4. Held(p)'
    BY <1>2, <1>3, Ready DEF Held, HeldScan, HeldEvent, ReviewSteps
  <1> QED
    BY <1>1, <1>2, <1>4, OnlyMoves, ScoredStays

LEMMA AttestHolds ==
  ASSUME IInv, NEW p \in Sessions, Attest(p)
  PROVE  Sound
  <1>1. HeldScan(p) /\ group[p] = NoSource /\ event[p] = 0
    BY Ready DEF Attest, Held, HeldScan, HeldEvent, ScanSteps
  <1>2. UNCHANGED <<stores, chain, scored, on, seen, event>> /\ Version' = Version
    BY NotAppended DEF Attest
  <1>3. CASE Breaks(on[p], ActiveGroup)
    <2>1. ActiveGroup \in Exacts /\ parent[ActiveGroup] \in 0..(Version - 1)
      BY <1>3, Ready, GroupExact DEF Breaks, ActiveGroup, Current
    <2>2. Moves(p) /\ pc'[p] = "reopen" /\ group'[p] = ActiveGroup
      BY <1>2, <1>3, <2>1, Ready DEF TypeOK, Attest, Go, Moves, Steps
    <2>3. Held(p)'
      BY <1>1, <1>2, <1>3, <2>1, <2>2, Ready
      DEF Held, HeldScan, HeldEvent, ReviewSteps, PastReopening, Breaks, stores
    <2> QED
      BY <1>2, <2>2, <2>3, OnlyMoves, ScoredStays
  <1>4. CASE ~Breaks(on[p], ActiveGroup)
    <2>1. Moves(p) /\ pc'[p] = "build" /\ group'[p] = group[p]
      BY <1>2, <1>4, Ready DEF TypeOK, Attest, Go, Moves, Steps
    <2>2. Held(p)'
      BY <1>1, <1>2, <2>1, Ready DEF Held, HeldScan, HeldEvent, ReviewSteps, stores
    <2> QED
      BY <1>2, <2>1, <2>2, OnlyMoves, ScoredStays
  <1> QED
    BY <1>3, <1>4

\* A step of a scan's call that only moves on, its group not the brand's.
LEMMA MovesOn ==
  ASSUME IInv, NEW p \in Sessions, pc[p] \in {"reopen", "look", "reread", "build", "confirm"},
         HeldScan(p), event[p] # 0 => pc[p] = "confirm", pc[p] = "confirm" => event[p] # 0,
         NEW to \in {"look", "reread", "build", "score"},
         to = "look" => pc[p] = "reopen",
         to # "look" => group[p] = NoSource \/ ActiveGroup # group[p],
         pc[p] = "confirm" => to = "score" /\ seen'[p] = Version,
         seen'[p] \in {seen[p], Version}, seen' \in [Sessions -> Nat],
         \A q \in Sessions \ {p} : seen'[q] = seen[q],
         Go(p, to), UNCHANGED <<stores, chain, scored, on, group, event>>
  PROVE  Sound
  <1>1. Moves(p) /\ pc'[p] = to
    BY Ready DEF TypeOK, Go, Moves, Steps
  <1>2. Version' = Version /\ ActiveGroup' = ActiveGroup
    BY NotAppended
  <1>3. HeldScan(p)'
    BY <1>1, <1>2 DEF HeldScan, Breaks, PastReopening, stores
  <1>4. HeldEvent(p)'
    BY <1>1, <1>2, Ready DEF Held, HeldEvent
  <1>5. Held(p)'
    BY <1>1, <1>2, <1>3, <1>4, Ready DEF Held, ReviewSteps, stores
  <1> QED
    BY <1>1, <1>5, OnlyMoves, ScoredStays

\* A reopening that is in the history took the group away for good.
LEMMA ReopenedIsLost ==
  ASSUME IInv, NEW g \in Exacts, NEW s \in Scans, ReopenedBefore(g, s)
  PROVE  ActiveGroup # g
  <1>1. PICK v \in 2..Version : chain[v].by = "delta" /\ chain[v - 1].rows[C7].source = g
    BY DEF ReopenedBefore
  <1>2. Version \in Nat /\ GoneForGood
    BY MemoryTyped DEF IInv, History
  <1>3. v \in 1..Version /\ Version \in v..Version /\ v - 1 # 0 /\ Version # 0
    BY <1>1, <1>2
  <1>4. chain[Version].rows[C7].source # Memory(v - 1).rows[C7].source
    BY <1>1, <1>2, <1>3 DEF GoneForGood
  <1> QED
    BY <1>1, <1>3, <1>4 DEF Memory, ActiveGroup, Current

LEMMA ReopenHolds ==
  ASSUME IInv, NEW p \in Sessions, Reopen(p)
  PROVE  Sound
  <1>1. /\ pc[p] = "reopen" /\ HeldScan(p) /\ event[p] = 0 /\ Breaks(on[p], group[p])
        /\ on[p] \in Scans /\ group[p] \in Exacts /\ parent[group[p]] \in 0..(Version - 1)
    BY Ready DEF Reopen, Held, HeldScan, HeldEvent, ScanSteps, Breaks
  <1>2. seen \in [Sessions -> Nat]
    BY Ready DEF TypeOK
  <1>3. CASE ReopenedBefore(group[p], on[p])
    <2>1. Go(p, "reread") /\ UNCHANGED <<stores, chain, scored, held>>
      BY <1>3 DEF Reopen
    <2>2. ActiveGroup # group[p]
      BY <1>1, <1>3, ReopenedIsLost
    <2> QED
      BY <1>1, <1>2, <2>1, <2>2, MovesOn DEF held
  <1>4. CASE ~ReopenedBefore(group[p], on[p]) /\ parent[on[p]] # Version
    <2>1. Go(p, "look") /\ UNCHANGED <<stores, chain, scored, held>>
      BY <1>4 DEF Reopen
    <2> QED
      BY <1>1, <1>2, <2>1, MovesOn DEF held
  <1>5. CASE /\ ~ReopenedBefore(group[p], on[p]) /\ parent[on[p]] = Version
             /\ ActiveGroup # group[p]
    BY <1>5, LeaveHolds DEF Reopen
  <1>6. CASE /\ ~ReopenedBefore(group[p], on[p]) /\ parent[on[p]] = Version
             /\ ActiveGroup = group[p]
    <2> DEFINE m == Reopened(Current, "delta", on[p], Proposal[on[p]].supersedes)
    <2>1. /\ chain' = Append(chain, m) /\ Go(p, "reread")
          /\ UNCHANGED <<stores, scored, held>>
      BY <1>6 DEF Reopen
    <2>2. Members[ActiveGroup] \cap Proposal[on[p]].supersedes # {}
          /\ Proposal[on[p]].supersedes \in SUBSET Evidence
      BY <1>1, <1>6 DEF Breaks, Proposals
    <2>3. m \in Memories /\ ByReopening(m, on[p])
      BY <1>1, <1>6, <2>2, Ready, ReopeningExtends
    <2> HIDE DEF m
    <2>4. Adopting /\ Version' = Version + 1 /\ ActiveGroup' = m.rows[C7].source
      BY <1>1, <2>1, <2>3, Ready, Appended DEF Adopting, Extends, ActiveGroup
    <2>5. m.rows[C7].source = NoSource
      BY <2>3, Ready DEF ByReopening, NoRow, Memories
    <2>6. Grown /\ StoresTyped
      BY <2>1, Quiet, ScoredStays, Ready DEF TypeOK, StoresTyped, stores
    <2>7. Moves(p) /\ pc'[p] = "reread"
      BY <2>1, Ready DEF TypeOK, Go, Moves, Steps, held
    <2>8. Held(p)'
      <3>1. HeldScan(p)'
        BY <1>1, <2>1, <2>4, <2>5, <2>7 DEF HeldScan, stores, held
      <3>2. HeldEvent(p)'
        BY <1>1, <2>1, <2>7 DEF HeldEvent, held
      <3>3. seen'[p] \in 0..Version' /\ event'[p] \in 0..Version'
            /\ group'[p] \in Exacts /\ parent'[group'[p]] \in 0..(Version' - 1)
        BY <1>1, <2>1, <2>4, Ready DEF Held, held, stores
      <3> QED
        BY <2>7, <3>1, <3>2, <3>3 DEF Held, ReviewSteps
    <2> QED
      BY <2>4, <2>6, <2>7, <2>8, OneMoves
  <1> QED
    BY <1>3, <1>4, <1>5, <1>6

LEMMA LookHolds ==
  ASSUME IInv, NEW p \in Sessions, Look(p)
  PROVE  Sound
  <1>1. pc[p] = "look" /\ HeldScan(p) /\ event[p] = 0
    BY Ready DEF Look, Held, HeldScan, HeldEvent, ScanSteps
  <1>2. CASE ActiveGroup = group[p]
    BY <1>2, LeaveHolds DEF Look
  <1>3. CASE ActiveGroup # group[p]
    <2>1. Go(p, "reread") /\ UNCHANGED <<stores, chain, scored, held>>
      BY <1>3 DEF Look
    <2>2. seen \in [Sessions -> Nat]
      BY Ready DEF TypeOK
    <2> QED
      BY <1>1, <1>3, <2>1, <2>2, MovesOn DEF held
  <1> QED
    BY <1>2, <1>3

LEMMA RereadHolds ==
  ASSUME IInv, NEW p \in Sessions, Reread(p)
  PROVE  Sound
  <1>1. /\ pc[p] = "reread" /\ HeldScan(p) /\ event[p] = 0
        /\ group[p] = NoSource \/ ActiveGroup # group[p]
    BY Ready DEF Reread, Held, HeldScan, HeldEvent, ScanSteps, PastReopening
  <1>2. /\ Go(p, "build") /\ UNCHANGED <<stores, chain, scored, on, group, event>>
        /\ seen' \in [Sessions -> Nat] /\ seen'[p] = Version
        /\ \A q \in Sessions \ {p} : seen'[q] = seen[q]
    BY Ready DEF Reread, Sees, TypeOK
  <1> QED
    BY <1>1, <1>2, MovesOn

LEMMA ConfirmHolds ==
  ASSUME IInv, NEW p \in Sessions, Confirm(p)
  PROVE  Sound
  <1>1. /\ pc[p] = "confirm" /\ HeldScan(p) /\ event[p] # 0
        /\ group[p] = NoSource \/ ActiveGroup # group[p]
    BY Ready DEF Confirm, Held, HeldScan, HeldEvent, ScanSteps, PastReopening
  <1>2. /\ Go(p, "score") /\ UNCHANGED <<stores, chain, scored, on, group, event>>
        /\ seen' \in [Sessions -> Nat] /\ seen'[p] = Version
        /\ \A q \in Sessions \ {p} : seen'[q] = seen[q]
    BY Ready DEF Confirm, Sees, TypeOK
  <1> QED
    BY <1>1, <1>2, MovesOn

LEMMA ScoreHolds ==
  ASSUME IInv, NEW p \in Sessions, Score(p)
  PROVE  Sound
  <1> DEFINE to == IF event[p] = 0 THEN "unchanged"
                   ELSE IF seen[p] = event[p] /\ Version = event[p] THEN "created"
                   ELSE "superseded"
  <1>1. pc[p] = "score" /\ HeldScan(p) /\ HeldEvent(p) /\ event[p] <= seen[p]
    BY Ready DEF Score, Held, HeldEvent, ScanSteps
  <1>2. Go(p, to) /\ scored' = Version /\ UNCHANGED <<stores, chain, held>>
    BY DEF Score
  <1>3. Moves(p) /\ pc'[p] = to
    BY <1>2, Ready DEF TypeOK, Go, Moves, Steps, Replies, held
  <1>4. Version' = Version /\ ActiveGroup' = ActiveGroup
    BY <1>2, NotAppended
  <1>5. scored' \in scored..Version
    BY <1>2, Ready
  <1>6. HeldScan(p)'
    BY <1>1, <1>2, <1>3, <1>4 DEF HeldScan, PastReopening, stores, held
  <1>7. HeldEvent(p)'
    BY <1>1, <1>2, <1>3, <1>4, Ready DEF Held, HeldEvent, held
  <1>8. Held(p)'
    BY <1>2, <1>3, <1>4, <1>6, <1>7, Ready DEF Held, ReviewSteps, stores, held
  <1> QED
    BY <1>2, <1>3, <1>5, <1>8, OnlyMoves

\* What the policy would change, while nothing moves.
LEMMA ChangeSame ==
  ASSUME IInv, NEW p \in Sessions, HeldScan(p), UNCHANGED <<stores, chain, scored, on, seen>>
  PROVE  HasChange(ScanPacket(p))' = HasChange(ScanPacket(p))
  <1>1. PICK s \in Scans : s = on[p]
    BY DEF HeldScan
  <1>2. PICK v \in 0..Version : v = seen[p]
    BY Ready DEF Held
  <1>3. /\ ScanPacket(p) = [by |-> "policy", source |-> s, parent |-> v]
        /\ ScanPacket(p)' = [by |-> "policy", source |-> s, parent |-> v]
    BY <1>1, <1>2 DEF ScanPacket
  <1>4. Grown /\ parent[s] # -1 /\ \A w \in 0..Version : Memory(w)' = Memory(w)
    BY <1>1, Quiet, ScoredStays, NotAppended, Ready DEF HeldScan
  <1>5. HasChange([by |-> "policy", source |-> s, parent |-> v])' =
        HasChange([by |-> "policy", source |-> s, parent |-> v])
    BY <1>4, Ready, ChangeStands
  <1> QED
    BY <1>3, <1>5

LEMMA BuildHolds ==
  ASSUME IInv, NEW p \in Sessions, Build(p)
  PROVE  Sound
  <1>1. /\ pc[p] = "build" /\ HeldScan(p) /\ event[p] = 0
        /\ group[p] = NoSource \/ ActiveGroup # group[p]
    BY Ready DEF Build, Held, HeldScan, HeldEvent, ScanSteps, PastReopening
  <1>2. seen \in [Sessions -> Nat]
    BY Ready DEF TypeOK
  <1>3. CASE Go(p, "score") /\ UNCHANGED <<stores, chain, scored, held>>
    BY <1>1, <1>2, <1>3, MovesOn DEF held
  <1>4. CASE /\ HasChange(ScanPacket(p)) /\ Go(p, "adopt")
             /\ UNCHANGED <<stores, chain, scored, held>>
    <2>1. Moves(p) /\ pc'[p] = "adopt"
      BY <1>4, Ready DEF TypeOK, Go, Moves, Steps, held
    <2>2. Version' = Version /\ ActiveGroup' = ActiveGroup
      BY <1>4, NotAppended
    <2>3. HasChange(ScanPacket(p))'
      BY <1>1, <1>4, ChangeSame DEF held
    <2>4. HeldScan(p)'
      BY <1>1, <1>4, <2>1, <2>2, <2>3 DEF HeldScan, stores, held
    <2>5. HeldEvent(p)'
      BY <1>1, <1>4, <2>1 DEF HeldEvent, held
    <2>6. Held(p)'
      BY <1>4, <2>1, <2>2, <2>4, <2>5, Ready DEF Held, ReviewSteps, stores, held
    <2> QED
      BY <1>4, <2>1, <2>6, OnlyMoves, ScoredStays
  <1> QED
    BY <1>3, <1>4, LeaveHolds DEF Build, Keep

LEMMA AdoptHolds ==
  ASSUME IInv, NEW p \in Sessions, Adopt(p)
  PROVE  Sound
  <1> DEFINE m == Adopted(ScanPacket(p), Built(ScanPacket(p)))
  <1>1. /\ pc[p] = "adopt" /\ HeldScan(p) /\ event[p] = 0 /\ on[p] \in Scans
        /\ group[p] = NoSource \/ ActiveGroup # group[p]
    BY Ready DEF Adopt, Held, HeldScan, HeldEvent, ScanSteps, PastReopening
  <1>2. /\ ScanPacket(p).by = "policy" /\ ScanPacket(p).source = on[p]
        /\ ScanPacket(p).parent = seen[p] /\ seen[p] \in 0..Version
    BY Ready DEF ScanPacket, Held
  <1>3. CASE /\ seen[p] < Version
             /\ chain[seen[p] + 1].by = "policy" /\ chain[seen[p] + 1].source = on[p]
             /\ Holds(p, seen[p] + 1) /\ Go(p, "confirm")
             /\ UNCHANGED <<stores, chain, scored, on, seen, group>>
    <2>1. Moves(p) /\ pc'[p] = "confirm" /\ event'[p] = seen[p] + 1
      BY <1>2, <1>3, Ready DEF TypeOK, Go, Holds, Moves, Steps
    <2>2. Version' = Version /\ ActiveGroup' = ActiveGroup
      BY <1>3, NotAppended
    <2>3. HeldScan(p)'
      BY <1>1, <1>3, <2>1, <2>2 DEF HeldScan, stores
    <2>4. HeldEvent(p)'
      BY <1>2, <1>3, <2>1, Ready DEF HeldEvent
    <2>5. Held(p)'
      BY <1>2, <1>3, <2>1, <2>2, <2>3, <2>4, Ready DEF Held, ReviewSteps, stores
    <2> QED
      BY <1>3, <2>1, <2>5, OnlyMoves, ScoredStays
  <1>4. CASE /\ seen[p] = Version /\ chain' = Append(chain, m)
             /\ Holds(p, Version + 1) /\ Go(p, "confirm")
             /\ UNCHANGED <<stores, scored, on, seen, group>>
    <2>1. m \in Memories /\ ByPolicy(m, on[p])
      BY <1>1, <1>4, PolicyExtends
    <2> HIDE DEF m
    <2>2. /\ Adopting /\ Version' = Version + 1 /\ chain'[Version + 1] = m
          /\ m.source = on[p] /\ m.by = "policy"
      <3>1. Version' = Version + 1 /\ chain'[Version + 1] = m
        BY <1>4, <2>1, Ready, Appended
      <3>2. Adopting
        BY <1>1, <1>4, <2>1 DEF Adopting, Extends
      <3> QED
        BY <2>1, <3>1, <3>2 DEF ByPolicy
    <2>3. Moves(p) /\ pc'[p] = "confirm" /\ event'[p] = Version + 1
      BY <1>4, Ready DEF TypeOK, Go, Holds, Moves, Steps
    <2>4. Grown /\ StoresTyped
      BY <1>4, Quiet, ScoredStays, Ready DEF TypeOK, StoresTyped, stores
    <2>5. group[p] = NoSource \/ ActiveGroup' # group[p]
      BY <1>1, <2>2, Ready, LostStaysLost DEF Held
    <2>6. HeldScan(p)'
      BY <1>1, <1>4, <2>3, <2>5 DEF HeldScan, stores
    <2>7. HeldEvent(p)'
      <3>1. chain'[event'[p]] = chain'[Version + 1] /\ event'[p] # 0
        BY <2>3, Ready
      <3> QED
        BY <1>4, <2>2, <2>3, <3>1 DEF HeldEvent
    <2>8. Held(p)'
      BY <1>4, <2>2, <2>3, <2>6, <2>7, Ready DEF Held, ReviewSteps, stores
    <2> QED
      BY <2>2, <2>3, <2>4, <2>8, OneMoves
  <1> QED
    BY <1>2, <1>3, <1>4, LeaveHolds DEF Adopt, AppendAdoption

LEMMA TakeHolds ==
  ASSUME IInv, NEW p \in Sessions, Take(p)
  PROVE  Sound
  <1> DEFINE m == Adopted(ReviewPacket(p), Built(ReviewPacket(p)))
  <1>1. pc[p] = "take" /\ HeldReview(p) /\ event[p] = 0
    BY Ready DEF Take, Held, HeldEvent, ReviewSteps
  <1>2. /\ ReviewPacket(p).by = "human" /\ ReviewPacket(p).source = on[p]
        /\ ReviewPacket(p).parent = seen[p] /\ seen[p] \in 0..Version
    BY Ready DEF ReviewPacket, Held
  <1>3. CASE /\ seen[p] < Version
             /\ chain[seen[p] + 1].by = "human" /\ chain[seen[p] + 1].source = on[p]
             /\ Holds(p, seen[p] + 1) /\ Go(p, "adopted")
             /\ UNCHANGED <<stores, chain, scored, on, seen, group>>
    <2>1. Moves(p) /\ pc'[p] = "adopted" /\ event'[p] = seen[p] + 1
      BY <1>2, <1>3, Ready DEF TypeOK, Go, Holds, Moves, Steps, Replies
    <2>2. Version' = Version
      BY <1>3, NotAppended
    <2>3. HeldReview(p)'
      BY <1>1, <1>3, <2>1 DEF HeldReview, stores
    <2>4. HeldEvent(p)'
      BY <1>2, <1>3, <2>1, Ready DEF HeldEvent
    <2>5. Held(p)'
      BY <1>2, <1>3, <2>1, <2>2, <2>3, <2>4, Ready DEF Held, ScanSteps, stores
    <2> QED
      BY <1>3, <2>1, <2>5, OnlyMoves, ScoredStays
  <1>4. CASE /\ seen[p] = Version /\ chain' = Append(chain, m)
             /\ Holds(p, Version + 1) /\ Go(p, "adopted")
             /\ UNCHANGED <<stores, scored, on, seen, group>>
    <2>1. m \in Memories /\ ByHuman(m, on[p]) /\ on[p] \in Sources
      BY <1>1, <1>4, HumanExtends
    <2> HIDE DEF m
    <2>2. /\ Adopting /\ Version' = Version + 1 /\ chain'[Version + 1] = m
          /\ m.source = on[p] /\ m.by = "human"
      BY <1>4, <2>1, Ready, Appended DEF Adopting, Extends, ByHuman
    <2>3. Moves(p) /\ pc'[p] = "adopted" /\ event'[p] = Version + 1
      BY <1>4, Ready DEF TypeOK, Go, Holds, Moves, Steps, Replies
    <2>4. Grown /\ StoresTyped
      BY <1>4, Quiet, ScoredStays, Ready DEF TypeOK, StoresTyped, stores
    <2>5. HeldReview(p)'
      BY <1>1, <1>4, <2>3 DEF HeldReview, stores
    <2>6. HeldEvent(p)'
      <3>1. chain'[event'[p]] = chain'[Version + 1] /\ event'[p] # 0
        BY <2>3, Ready
      <3> QED
        BY <1>4, <2>2, <2>3, <3>1 DEF HeldEvent
    <2>7. Held(p)'
      BY <1>4, <2>2, <2>3, <2>5, <2>6, Ready DEF Held, ScanSteps, stores
    <2> QED
      BY <2>2, <2>3, <2>4, <2>7, OneMoves
  <1> QED
    BY <1>2, <1>3, <1>4, LeaveHolds DEF Take, AppendAdoption

LEMMA RecordHolds ==
  ASSUME IInv, NEW p \in Sessions, NEW x \in Sources, NEW decision \in Decisions(x),
         Record(p, x, decision)
  PROVE  Sound
  <1>1. /\ pc[p] = "idle" /\ group[p] = NoSource /\ event[p] = 0
        /\ parent[x] = Version /\ Version \in Nat
        /\ x \in reviewed => decision = accepted[x]
        /\ x \in Exacts /\ C7 \in decision => ~Lit(Current.rows[C7])
    BY Ready DEF Record, Unbuildable, Held, HeldEvent
  <1>2. /\ reviewed' = reviewed \cup {x} /\ accepted' = [accepted EXCEPT ![x] = decision]
        /\ on' = [on EXCEPT ![p] = x] /\ Sees(p) /\ Go(p, "register")
        /\ UNCHANGED <<parent, chain, scored, group, event>>
    BY DEF Record, Review
  <1>3. decision \in SUBSET AllTiles
    BY DEF Decisions, Unreviewed
  <1>4. Moves(p) /\ pc'[p] = "register" /\ on'[p] = x /\ seen'[p] = Version
    BY <1>2, Ready DEF TypeOK, Go, Sees, Moves, Steps
  <1>5. Grown
    BY <1>1, <1>2, Ready DEF TypeOK, History, Parents, Grown
  <1>6. StoresTyped /\ x \in reviewed' /\ accepted'[x] = decision
    BY <1>2, <1>3, Ready DEF TypeOK, StoresTyped
  <1>7. Version' = Version /\ Memory(Version)' = Current
    BY <1>2, NotAppended DEF Current
  <1>8. HeldReview(p)'
    BY <1>1, <1>2, <1>4, <1>6, <1>7 DEF HeldReview, Lit, Memory, Current
  <1>9. Held(p)'
    BY <1>1, <1>2, <1>4, <1>7, <1>8 DEF Held, HeldEvent, ScanSteps
  <1> QED
    BY <1>2, <1>4, <1>5, <1>6, <1>9, OneMoves

LEMMA RegisterReviewedHolds ==
  ASSUME IInv, NEW p \in Sessions, RegisterReviewed(p)
  PROVE  Sound
  <1>1. pc[p] = "register" /\ HeldReview(p) /\ event[p] = 0 /\ on[p] \in Sources
    BY Ready DEF RegisterReviewed, Held, HeldReview, HeldEvent, ReviewSteps, TypeOK
  <1>2. /\ ReviewPacket(p).by = "human" /\ ReviewPacket(p).source = on[p]
        /\ ReviewPacket(p).parent = seen[p]
    BY DEF ReviewPacket
  <1>3. ASSUME UNCHANGED <<stores, chain, scored, held>>, seen[p] = Version, ~Refuses(on[p]),
               NEW to \in {"take", "reviewed"}, Go(p, to),
               to = "take" => HasChange(ReviewPacket(p))
        PROVE  Sound
    <2>1. Moves(p) /\ pc'[p] = to
      BY <1>3, Ready DEF TypeOK, Go, Moves, Steps, Replies, held
    <2>2. Version' = Version /\ Decided(on[p])' = Decided(on[p])
          /\ Memory(seen[p])' = Memory(seen[p])
      BY <1>3, NotAppended DEF Decided, Shape, Memory, stores, held
    <2>3. ASSUME to = "take" PROVE Decided(on[p]) # {}
      <3>1. SUFFICES ASSUME Decided(on[p]) = {} PROVE FALSE
        OBVIOUS
      <3>2. Built(ReviewPacket(p)) = Judged(on[p], Current)
        BY <1>2, <1>3 DEF Built, Current
      <3>3. Judged(on[p], Current).rows = [t \in AllTiles |-> Current.rows[t]]
        BY <3>1, Ready DEF Judged, Memories
      <3>4. Current.rows = [t \in AllTiles |-> Current.rows[t]]
        BY Ready DEF Memories
      <3>5. HasChange(ReviewPacket(p))
        BY <1>3, <2>3
      <3> QED
        BY <1>2, <1>3, <3>2, <3>3, <3>4, <3>5 DEF HasChange, Current
    <2>4. ASSUME C7 \in Decided(on[p]) PROVE Members[on[p]] \cap Memory(seen[p]).pending = {}
      <3>1. C7 \in accepted[on[p]] /\ on[p] \in Exacts
        BY <1>1, <2>4, ScansLeaveC7 DEF Decided
      <3> QED
        BY <1>3, <3>1 DEF Refuses, Current
    <2>5. HeldReview(p)'
      BY <1>1, <1>3, <2>1, <2>2, <2>3, <2>4 DEF HeldReview, stores, held, Lit
    <2>6. Held(p)'
      BY <1>1, <1>3, <2>1, <2>2, <2>5, Ready DEF Held, HeldEvent, ScanSteps, stores, held
    <2> QED
      BY <1>3, <2>1, <2>6, OnlyMoves, ScoredStays
  <1> QED
    BY <1>2, <1>3, LeaveHolds DEF RegisterReviewed, Keep

LEMMA StepHolds == IInv /\ [Next]_vars => Sound
<1> SUFFICES ASSUME IInv, [Next]_vars PROVE Sound
  OBVIOUS
<1>1. CASE UNCHANGED vars
  <2>1. Grown /\ StoresTyped
    BY <1>1, Quiet, ScoredStays DEF IInv, TypeOK, StoresTyped, vars, stores
  <2> QED
    BY <1>1, <2>1, NoneMoves DEF vars
<1>2. CASE RegisterScan \/ RegisterExact
  BY <1>2, RegisterHolds
<1>3. ASSUME NEW s \in Scans, ReopenContradicted(s) PROVE Sound
  BY <1>3, ReopenContradictedHolds
<1>4. ASSUME NEW p \in Sessions, NEW s \in Scans, Activate(p, s) PROVE Sound
  BY <1>4, ActivateHolds
<1>5. ASSUME NEW p \in Sessions, NEW x \in Sources, NEW decision \in Decisions(x),
             Record(p, x, decision)
      PROVE  Sound
  BY <1>5, RecordHolds
<1>6. ASSUME NEW p \in Sessions, Crash(p) PROVE Sound
  BY <1>6, LeaveHolds DEF Crash
<1>7. ASSUME NEW p \in Sessions, Step(p) PROVE Sound
  <2>1. Return(p) => Leave(p)
    BY DEF Return
  <2> QED
    BY <1>7, <2>1, LeaveHolds, AttestHolds, ReopenHolds, LookHolds, RereadHolds, BuildHolds,
       AdoptHolds, ConfirmHolds, ScoreHolds, RegisterReviewedHolds, TakeHolds DEF Step
<1> QED
  BY <1>1, <1>2, <1>3, <1>4, <1>5, <1>6, <1>7 DEF Next

LEMMA InitHolds == Init => IInv
<1> SUFFICES ASSUME Init PROVE IInv
  OBVIOUS
<1>1. chain = <<>> /\ Version = 0
  BY DEF Init, Version
<1>2. TypeOK
  BY DEF Init, TypeOK, Steps
<1>3. Empty.rows = [t \in AllTiles |-> NoRow] /\ Memory(0) = Empty
  BY DEF Empty, Memory
<1>4. Parents /\ scored <= Version
  BY <1>1 DEF Init, Parents
<1>5. RowsSound
  BY <1>1, <1>3 DEF RowsSound, RowSound
<1>6. TilesStay
  BY <1>1 DEF TilesStay
<1>7. NothingBarred
  BY <1>1, <1>3 DEF NothingBarred, Lit, NoRow, Empty, Memory
<1>8. Origins /\ Inhabited /\ GoneForGood
  BY <1>1 DEF Origins, Inhabited, GoneForGood
<1>9. \A p \in Sessions : Held(p)
  <2> TAKE p \in Sessions
  <2>1. pc[p] = "idle" /\ seen[p] = 0 /\ event[p] = 0 /\ group[p] = NoSource
    BY DEF Init
  <2> QED
    BY <1>1, <2>1 DEF Held, HeldEvent, ScanSteps, ReviewSteps
<1> QED
  BY <1>2, <1>4, <1>5, <1>6, <1>7, <1>8, <1>9 DEF IInv, History

LEMMA StepInvariant == IInv /\ [Next]_vars => IInv'
  BY StepHolds DEF Sound

LEMMA Invariant == Spec => []IInv
  BY InitHolds, StepInvariant, PTL DEF Spec

-----------------------------------------------------------------------------
(* The theorems *)

\* Every variable keeps its type: the conversations of sessions with the store
\* never read a version that is not there.
THEOREM TypeCorrect == Spec => []TypeOK
  <1>1. IInv => TypeOK
    BY DEF IInv
  <1> QED
    BY <1>1, Invariant, PTL

\* No row is lit by a human who did not accept it in a review of its source, and
\* no review is adopted but on the version its source was planned on.
THEOREM AuthorityIsBacked == Spec => []AuthorityBacked
  <1>1. IInv => AuthorityBacked
    <2> SUFFICES ASSUME IInv, NEW v \in 1..Version
                 PROVE  /\ chain[v].by = "human" =>
                             chain[v].source \in reviewed /\ parent[chain[v].source] = v - 1
                        /\ \A t \in AllTiles : chain[v].rows[t].by = "human" =>
                             LET x == chain[v].rows[t].source IN
                               x \in reviewed /\ t \in accepted[x] /\ parent[x] < v
      BY DEF AuthorityBacked
    <2>1. Origin(v) /\ RowsSound /\ Version \in Nat
      BY MemoryTyped DEF IInv, History, Origins
    <2>2. ASSUME NEW t \in AllTiles, chain[v].rows[t].by = "human"
          PROVE  LET x == chain[v].rows[t].source IN
                   x \in reviewed /\ t \in accepted[x] /\ parent[x] < v
      <3>1. RowSound(t, chain[v].rows[t], v)
        BY <2>1 DEF RowsSound, Memory
      <3> QED
        BY <2>1, <2>2, <3>1 DEF RowSound, NoRow, Dark
    <2> QED
      BY <2>1, <2>2 DEF Origin
  <1> QED
    BY <1>1, Invariant, PTL

\* No trigger takes a group away but from the version it was planned on, while
\* the group was active and for evidence the group is made of.
THEOREM ReopeningsAreJustified == Spec => []ReopenJustified
  <1>1. IInv => ReopenJustified
    <2> SUFFICES ASSUME IInv, NEW v \in 1..Version,
                        chain[v].by \in {"delta", "contradiction"}
                 PROVE  LET s == chain[v].source
                            g == Memory(v - 1).rows[C7].source IN
                          /\ parent[s] = v - 1
                          /\ g \in Exacts
                          /\ chain[v].pending \cap Members[g] # {}
                          /\ chain[v].by = "contradiction" => s \in reviewed /\ C7 \in accepted[s]
      BY DEF ReopenJustified
    <2>1. Origin(v)
      BY DEF IInv, History, Origins
    <2> QED
      BY <2>1 DEF Origin
  <1> QED
    BY <1>1, Invariant, PTL

\* Every version accepts a tile, so that the next can be built on it.
THEOREM NeverEmptied == Spec => []NeverEmpty
  <1>1. IInv => NeverEmpty
    BY DEF IInv, History, Inhabited, NeverEmpty
  <1> QED
    BY <1>1, Invariant, PTL

\* What a call answers is what the chain says, whatever the others did since.
THEOREM RepliesAreTruthful == Spec => []ReplyTruthful
  <1>1. IInv => ReplyTruthful
    <2> SUFFICES ASSUME IInv, NEW p \in Sessions
                 PROVE
                   /\ pc[p] \in {"created", "superseded", "adopted"} =>
                        /\ event[p] \in 1..Version
                        /\ chain[event[p]].source = on[p]
                        /\ chain[event[p]].by = IF pc[p] = "adopted" THEN "human" ELSE "policy"
                   /\ pc[p] = "created" => event[p] \in 1..scored /\ seen[p] = event[p]
                   /\ pc[p] = "superseded" => event[p] < Version
                   /\ pc[p] = "reviewed" => \A t \in AllTiles : Memory(seen[p]).rows[t].source # on[p]
                   /\ pc[p] \in {"created", "superseded", "unchanged"} /\ group[p] # NoSource =>
                        ActiveGroup # group[p]
      BY DEF ReplyTruthful
    <2>1. HeldEvent(p) /\ event[p] \in 0..Version /\ seen[p] \in 0..Version /\ scored \in 0..Version
          /\ Version \in Nat /\ RowsSound
      BY Ready DEF Held
    <2>2. ASSUME pc[p] = "reviewed", NEW t \in AllTiles
          PROVE  Memory(seen[p]).rows[t].source # on[p]
      <3>1. on[p] \in reviewed /\ parent[on[p]] = seen[p] /\ on[p] \in Sources
        BY <2>2, Ready DEF Held, HeldReview, ReviewSteps, TypeOK
      <3>2. RowSound(t, Memory(seen[p]).rows[t], seen[p])
        BY <2>1 DEF RowsSound
      <3> QED
        BY <2>1, <3>1, <3>2 DEF RowSound, NoRow, Dark
    <2>3. pc[p] \in {"created", "superseded", "unchanged"} /\ group[p] # NoSource =>
            ActiveGroup # group[p]
      BY Ready DEF Held, HeldScan, ScanSteps, PastReopening
    <2> QED
      BY <2>1, <2>2, <2>3 DEF HeldEvent
  <1> QED
    BY <1>1, Invariant, PTL

\* The policy has nothing to change in a memory it has settled the source of.
LEMMA SettledForGood ==
  ASSUME IInv, NEW v \in 1..Version, chain[v].by = "policy", NEW t \in Tiles
  PROVE  Proposed(chain[v].source, t, Current.rows[t]) = Current.rows[t]
  <1> DEFINE s == chain[v].source
  <1>1. TypeOK /\ RowsSound /\ TilesStay /\ Version \in Nat /\ Origin(v)
    BY MemoryTyped DEF IInv, History, Origins
  <1>2. Settled(s, t, chain[v].rows[t])
    BY <1>1 DEF Origin
  <1>3. Memory(v) = chain[v] /\ v \in 0..Version /\ Version \in v..Version
    BY <1>1 DEF Memory
  <1>4. Lit(chain[v].rows[t]) => Lit(Current.rows[t])
    BY <1>1, <1>3 DEF TilesStay, Current
  <1>5. chain[v].rows[t] = Dark => Lit(Current.rows[t]) \/ Current.rows[t] = Dark
    <2>1. Dark # NoRow
      BY DEF Dark, NoRow
    <2>2. chain[v].rows[t] = Dark => Current.rows[t] # NoRow
      BY <1>1, <1>3, <2>1 DEF TilesStay, Current
    <2>3. RowSound(t, Current.rows[t], Version)
      BY <1>1 DEF RowsSound, Current
    <2> QED
      BY <1>1, <2>2, <2>3 DEF RowSound, Lit, TypeOK
  <1> QED
    BY <1>2, <1>4, <1>5 DEF Settled, Proposed

LEMMA StepOnce == IInv /\ AppliedOnce /\ [Next]_vars => AppliedOnce'
<1> SUFFICES ASSUME IInv, AppliedOnce, [Next]_vars PROVE AppliedOnce'
  OBVIOUS
<1>1. Adopting \/ UNCHANGED chain
  BY StepHolds DEF Sound
<1>2. CASE UNCHANGED chain
  BY <1>2 DEF AppliedOnce, Version
<1>3. CASE Adopting
  <2>1. PICK m \in Memories : chain' = Append(chain, m) /\ Extends(m)
    BY <1>3 DEF Adopting
  <2>2. /\ Version' = Version + 1 /\ Version \in Nat /\ chain'[Version + 1] = m
        /\ \A v \in 1..Version : chain'[v] = chain[v]
    BY <2>1, Appended, MemoryTyped DEF IInv
  <2>3. ASSUME NEW v \in 1..Version, chain[v].by = m.by, chain[v].source = m.source
        PROVE  FALSE
    <3>1. Origin(v)
      BY DEF IInv, History, Origins
    <3>2. ASSUME NEW s \in Scans, ByPolicy(m, s) PROVE FALSE
      <4>1. chain[v].by = "policy" /\ chain[v].source = s
        BY <2>3, <3>2 DEF ByPolicy
      <4>2. PICK t \in Tiles : Proposed(s, t, Current.rows[t]) # Current.rows[t]
        BY <3>2 DEF ByPolicy
      <4> QED
        BY <4>1, <4>2, SettledForGood
    <3>3. ASSUME NEW s \in Scans, ByReopening(m, s) PROVE FALSE
      BY <2>2, <2>3, <3>1, <3>3 DEF ByReopening, Origin
    <3>4. ASSUME NEW x \in Sources, ByHuman(m, x) PROVE FALSE
      BY <2>2, <2>3, <3>1, <3>4 DEF ByHuman, Origin
    <3> QED
      BY <2>1, <3>2, <3>3, <3>4 DEF Extends
  <2>4. ASSUME NEW v \in 1..Version', NEW w \in 1..Version',
               chain'[v].by = chain'[w].by, chain'[v].source = chain'[w].source
        PROVE  v = w
    <3>1. CASE v \in 1..Version /\ w \in 1..Version
      BY <2>2, <2>4, <3>1 DEF AppliedOnce
    <3>2. CASE v \in 1..Version /\ w = Version + 1
      <4>1. chain'[w] = m
        BY <2>2, <3>2
      <4> QED
        BY <2>2, <2>3, <2>4, <3>2, <4>1
    <3>3. CASE w \in 1..Version /\ v = Version + 1
      <4>1. chain'[v] = m
        BY <2>2, <3>3
      <4> QED
        BY <2>2, <2>3, <2>4, <3>3, <4>1
    <3> QED
      BY <2>2, <3>1, <3>2, <3>3
  <2> QED
    BY <2>4 DEF AppliedOnce
<1> QED
  BY <1>1, <1>2, <1>3

\* However often calls are repeated, raced or cut off, the policy adopts a source
\* once, a human once, and a trigger reopens once.
THEOREM EachAppliedOnce == Spec => []AppliedOnce
  <1>1. Init => AppliedOnce
    BY DEF Init, AppliedOnce, Version
  <1> QED
    BY <1>1, StepOnce, Invariant, PTL DEF Spec

-----------------------------------------------------------------------------
(* The promise of BrandMemory *)

Authority(row) == IF Lit(row) THEN row.by ELSE "unlit"

LEMMA Mapped ==
  ASSUME TypeOK, NEW m \in Memories, chain' = Append(chain, m)
  PROVE  /\ Lights = Authorities(Current) /\ Lights' = Authorities(m)
         /\ Version' = Version + 1
         /\ ActiveGroup' = m.rows[C7].source /\ Current.pending' = m.pending
  <1>1. Version' = Version + 1 /\ Current' = m
    BY Appended
  <1> QED
    BY <1>1 DEF Lights, Authorities, Lit, ActiveGroup

LEMMA PolicyFills ==
  ASSUME IInv, NEW m \in Memories, chain' = Append(chain, m), NEW s \in Scans, ByPolicy(m, s)
  PROVE  Contract!Fill
  <1> DEFINE lit == {t \in Tiles : ~Lit(Current.rows[t]) /\ Lit(m.rows[t])}
  <1>1. TypeOK /\ RowsSound /\ TilesStay /\ Parents
    BY DEF IInv, History
  <1>2. ASSUME NEW t \in Tiles
        PROVE  Authority(m.rows[t]) = IF t \in lit THEN "policy" ELSE Authority(Current.rows[t])
    <2>1. m.rows[t] = Proposed(s, t, Current.rows[t]) /\ parent[s] # -1
      BY <1>2 DEF ByPolicy
    <2>2. /\ Lit(Current.rows[t]) => m.rows[t] = Current.rows[t]
          /\ \/ m.rows[t] = Current.rows[t] \/ m.rows[t] = Dark
             \/ m.rows[t] = [by |-> "policy", source |-> s]
      BY <1>1, <2>1, PolicyRows
    <2> QED
      BY <2>2 DEF Authority, Lit, Dark
  <1>3. lit \in SUBSET {t \in Tiles : Authorities(Current)[t] = "unlit"}
    BY DEF Authorities, Authority
  <1>4. Authorities(m) = [t \in Tiles |-> IF t \in lit THEN "policy" ELSE Authorities(Current)[t]]
    BY <1>2 DEF Authorities, Authority
  <1>5. ActiveGroup = m.rows[C7].source /\ Current.pending = m.pending
    BY DEF ByPolicy, ActiveGroup
  <1>6. /\ Lights = Authorities(Current) /\ Lights' = Authorities(m)
        /\ Version' = Version + 1 /\ UNCHANGED <<ActiveGroup, Current.pending>>
    BY <1>1, <1>5, Mapped
  <1>7. /\ lit \in SUBSET {t \in Tiles : Lights[t] = "unlit"}
        /\ Lights' = [t \in Tiles |-> IF t \in lit THEN "policy" ELSE Lights[t]]
    BY <1>3, <1>4, <1>6
  <1> HIDE DEF lit
  <1> QED
    BY <1>6, <1>7, Zenon DEF Contract!Fill

LEMMA HumanDecides ==
  ASSUME IInv, NEW m \in Memories, chain' = Append(chain, m), NEW x \in Sources, ByHuman(m, x)
  PROVE  Contract!Decide
  <1> DEFINE decided == Tiles \cap Decided(x)
  <1>1. TypeOK /\ Current \in Memories
    BY MemoryTyped DEF IInv, Current
  <1>2. ASSUME NEW t \in Tiles
        PROVE  Authority(m.rows[t]) = IF t \in decided THEN "human" ELSE Authority(Current.rows[t])
    BY <1>2 DEF ByHuman, Authority, Lit
  <1>3. Authorities(m) = [t \in Tiles |-> IF t \in decided THEN "human" ELSE Authorities(Current)[t]]
    BY <1>2 DEF Authorities, Authority
  <1>4. /\ decided \in SUBSET Tiles /\ Version' = Version + 1
        /\ Lights' = [t \in Tiles |-> IF t \in decided THEN "human" ELSE Lights[t]]
    BY <1>1, <1>3, Mapped
  <1> HIDE DEF decided
  <1>5. CASE C7 \in Decided(x)
    <2>1. /\ ActiveGroup = NoSource /\ m.pending = {} /\ m.rows[C7].source = x
          /\ x \in {g \in Exacts : Members[g] \cap Current.pending = {}}
      BY <1>5 DEF ByHuman
    <2>2. Contract!Accept
      BY <1>1, <2>1, Mapped DEF Contract!Accept
    <2> QED
      BY <1>4, <2>2, Zenon DEF Contract!Decide
  <1>6. CASE C7 \notin Decided(x)
    <2>1. m.rows[C7].source = ActiveGroup /\ m.pending = Current.pending
      BY <1>6 DEF ByHuman, ActiveGroup
    <2>2. UNCHANGED <<ActiveGroup, Current.pending>>
      BY <1>1, <2>1, Mapped
    <2> QED
      BY <1>4, <2>2, Zenon DEF Contract!Decide
  <1> QED
    BY <1>5, <1>6

LEMMA TriggerReopens ==
  ASSUME IInv, NEW m \in Memories, chain' = Append(chain, m), NEW s \in Scans, ByReopening(m, s)
  PROVE  Contract!Reopen
  <1>1. TypeOK /\ Current \in Memories
    BY MemoryTyped DEF IInv, Current
  <1>2. m.rows = [Current.rows EXCEPT ![C7] = NoRow] /\ ActiveGroup \in Exacts
    BY DEF ByReopening
  <1>3. Authorities(m) = Authorities(Current)
    BY <1>1, <1>2 DEF Authorities, Memories
  <1>4. m.rows[C7].source = NoSource
    BY <1>1, <1>2 DEF NoRow, Memories
  <1>5. Current.pending = {}
    <2>1. Lit(Current.rows[C7])
      BY <1>2 DEF Lit, ActiveGroup
    <2> QED
      BY <2>1, MemoryTyped DEF IInv, History, NothingBarred, Current
  <1>6. m.pending \in (SUBSET Members[ActiveGroup]) \ {{}}
    BY <1>5 DEF ByReopening
  <1> QED
    BY <1>1, <1>2, <1>3, <1>4, <1>6, Mapped DEF Contract!Reopen

\* Every step is one of BrandMemory or leaves the versions alone.
LEMMA StepMaps == IInv /\ [Next]_vars => [Contract!Next]_(Contract!vars)
  <1> SUFFICES ASSUME IInv, [Next]_vars PROVE [Contract!Next]_(Contract!vars)
    OBVIOUS
  <1>1. Adopting \/ UNCHANGED chain
    BY StepHolds DEF Sound
  <1>2. CASE UNCHANGED chain
    BY <1>2 DEF Contract!vars, Version, Current, Memory, ActiveGroup, Lit, Lights, Authorities
  <1>3. CASE Adopting
    BY <1>3, PolicyFills, HumanDecides, TriggerReopens DEF Adopting, Extends, Contract!Next
  <1> QED
    BY <1>1, <1>2, <1>3

\* Every execution of the calls, on the versions they leave, is an execution of
\* BrandMemory: the policy only lights unlit tiles, a human decides, and C7 is
\* taken and given up by the book.
THEOREM Implements == Spec => ImplementsMemory
  <1>1. Init => Contract!Init
    <2> SUFFICES ASSUME Init PROVE Contract!Init
      OBVIOUS
    <2>1. Version = 0 /\ Current = Empty
      BY DEF Init, Version, Current, Memory
    <2>2. Empty.rows = [t \in AllTiles |-> NoRow] /\ Empty.pending = {} /\ ~Lit(NoRow)
          /\ NoRow.source = NoSource
      BY DEF Empty, NoRow, Lit
    <2> QED
      BY <2>1, <2>2 DEF Contract!Init, ActiveGroup, Lights, Authorities
  <1> QED
    BY <1>1, StepMaps, Invariant, PTL DEF Spec, ImplementsMemory, Contract!Spec

\* By the promise, a lit tile changes its authority only for a human's, for any
\* number of sessions, scans and tiles.
THEOREM LitStaysLit == Spec => AuthorityGrows
  <1>1. Contract!Next =>
          \A t \in Tiles : Lights'[t] # Lights[t] => Lights[t] = "unlit" \/ Lights'[t] = "human"
    BY DEF Contract!Next, Contract!Fill, Contract!Decide, Contract!Reopen
  <1>2. IInv /\ [Next]_vars =>
          \A t \in Tiles : Lights'[t] # Lights[t] => Lights[t] = "unlit" \/ Lights'[t] = "human"
    BY <1>1, StepMaps DEF Contract!vars
  <1> QED
    BY <1>2, Invariant, PTL DEF Spec, AuthorityGrows

\* A step moves the memory on by at most one version, never back: whoever finds
\* the version it read (OperationPlan, the parent of a packet) finds its memory.
THEOREM VersionsCount == Spec => [][Version' = Version + 1]_Version
  <1>1. Contract!Next => Version' = Version + 1
    BY DEF Contract!Next, Contract!Fill, Contract!Decide, Contract!Reopen
  <1>2. IInv /\ [Next]_vars => Version' = Version + 1 \/ UNCHANGED Version
    BY <1>1, StepMaps DEF Contract!vars
  <1> QED
    BY <1>2, Invariant, PTL DEF Spec
=============================================================================
