----------------------------- MODULE VaultMemory -----------------------------
(***************************************************************************)
(* The operational memory of one brand: sources are registered on the      *)
(* version they were planned on, scans are activated by policy, sources    *)
(* are reviewed by a human, C7 groups are accepted and reopened, and each  *)
(* change is one adoption appended to the chain of versions.               *)
(*                                                                         *)
(* Every transaction that writes takes the brand's                         *)
(* evidence-vault-canonical-promotion lock before it reads the memory, so  *)
(* a transaction is one action; a service call is a sequence of them, and  *)
(* the calls of the sessions interleave.  A session may stop anywhere and  *)
(* call again.  A call that raises or replays in its first transaction     *)
(* changes nothing and is not an action.                                   *)
(*                                                                         *)
(* A scan's source packet is registered by the execution of its plan       *)
(* (OperationPlan), an exact source by the operator of the assessment.     *)
(* A tile stands for its effective basis: a source keeps it, lights it     *)
(* with new relations or contradicts it.                                   *)
(*                                                                         *)
(* ProposedOver, RegisterExactEarly, AppendAnyway, LookPast,               *)
(* RecordUnchecked, RefusesNothing and ReopenUnchecked are mutated forms   *)
(* of the operators that follow them: no action uses them.                 *)
(***************************************************************************)
EXTENDS Integers, Sequences

CONSTANTS
  Sessions,   \* processes and scripts that call the repository
  Scans, Exacts, NoSource,
  Tiles,      \* the ordinary tiles; C7 is apart
  Evidence,
  Members,    \* the evidence of an exact source's C7 group
  Proposal    \* what each scan found

C7 == "C7"
AllTiles == Tiles \cup {C7}
Sources == Scans \cup Exacts
Shapes == {"kept", "lit", "contradicted"}
Proposals == [shape : [AllTiles -> Shapes],
              supersedes : SUBSET Evidence,   \* superseded_evidence_fingerprints of the delta
              against : SUBSET Evidence,      \* what its C7 contradiction speaks against
              overlay : BOOLEAN]              \* output_kind is candidate_overlay

ASSUME MemoryAssumption ==
  /\ NoSource \notin Sources /\ Scans \cap Exacts = {} /\ C7 \notin Tiles
  /\ Members \in [Exacts -> SUBSET Evidence]
  /\ Proposal \in [Scans -> Proposals]
  /\ \A s \in Scans : /\ Proposal[s].shape[C7] # "lit"
                      \* without an overlay there is no source packet to review
                      /\ ~Proposal[s].overlay => \A t \in AllTiles : Proposal[s].shape[t] = "kept"

VARIABLES
  parent,     \* canonical parent of each registered source packet, -1 without one
  reviewed,   \* sources with relation reviews
  accepted,   \* the tiles whose relations the reviews accept
  chain,      \* the adopted versions
  scored,     \* the newest version with an operational score evaluation
  pc, on, seen, group, event   \* each session's call and what it holds

stores == <<parent, reviewed, accepted>>
held == <<on, seen, group, event>>
locals == <<pc, held>>
vars == <<stores, chain, scored, locals>>

\* A tile of the memory: without a row, accepted without basis, or lit by a source.
Rows == [by : {"none", "policy", "human"}, source : Sources \cup {NoSource}]
NoRow == [by |-> "none", source |-> NoSource]
Dark == [by |-> "policy", source |-> NoSource]
Lit(row) == row.source # NoSource

Memories == [rows : [AllTiles -> Rows], pending : SUBSET Evidence,
             by : {"none", "policy", "human", "delta", "contradiction"},
             source : Sources \cup {NoSource}]
Empty == [rows |-> [t \in AllTiles |-> NoRow], pending |-> {}, by |-> "none", source |-> NoSource]

Version == Len(chain)
Memory(v) == IF v = 0 THEN Empty ELSE chain[v]
Current == Memory(Version)
\* get_evidence_vault_active_c7_group_attestation: the exact source behind C7.
ActiveGroup == Current.rows[C7].source

Shape(x, t) ==
  IF x \in Scans THEN Proposal[x].shape[t] ELSE IF t = C7 THEN "lit" ELSE "kept"
Unreviewed(x) == {t \in AllTiles : Shape(x, t) # "kept"}
Breaks(s, g) == g # NoSource /\ Members[g] \cap Proposal[s].supersedes # {}

Init ==
  /\ parent = [x \in Sources |-> -1]
  /\ reviewed = {} /\ accepted = [x \in Sources |-> {}]
  /\ chain = <<>> /\ scored = 0
  /\ pc = [p \in Sessions |-> "idle"] /\ on = [p \in Sessions |-> NoSource]
  /\ seen = [p \in Sessions |-> 0] /\ group = [p \in Sessions |-> NoSource]
  /\ event = [p \in Sessions |-> 0]

-----------------------------------------------------------------------------
(* What a packet would make of the memory *)

\* The scanner's candidate for tile t, built on the source's parent.
Kept(s, t) == IF Lit(Memory(parent[s]).rows[t]) THEN Memory(parent[s]).rows[t] ELSE Dark
Candidate(s, t) == IF Shape(s, t) = "lit" THEN [by |-> "policy", source |-> s] ELSE Kept(s, t)

ProposedOver(s, t, row) == IF Shape(s, t) = "contradicted" THEN row ELSE Candidate(s, t)
\* Neither a contradiction nor a change of a lit tile is the policy's to accept.
Proposed(s, t, row) ==
  IF Shape(s, t) = "contradicted" \/ Lit(row) THEN row ELSE Candidate(s, t)

Scanned(s, memory) ==
  [memory EXCEPT !.rows = [t \in AllTiles |-> IF t = C7 THEN memory.rows[C7]
                                              ELSE Proposed(s, t, memory.rows[t])]]

\* A contradiction stays pending when it is accepted.
Decided(x) == {t \in accepted[x] : Shape(x, t) = "lit"}
Judged(x, memory) ==
  [memory EXCEPT !.rows = [t \in AllTiles |-> IF t \in Decided(x)
                                              THEN [by |-> "human", source |-> x]
                                              ELSE memory.rows[t]],
                 !.pending = IF C7 \in Decided(x) THEN {} ELSE memory.pending]

Built(packet) ==
  IF packet.by = "policy" THEN Scanned(packet.source, Memory(packet.parent))
                          ELSE Judged(packet.source, Memory(packet.parent))

HasChange(packet) == Built(packet).rows # Memory(packet.parent).rows

-----------------------------------------------------------------------------
(* Sources *)

Register(x) == parent[x] = -1 /\ parent' = [parent EXCEPT ![x] = Version]

RegisterScan ==
  /\ \E s \in Scans : Register(s)
  /\ UNCHANGED <<reviewed, accepted, chain, scored, locals>>

RegisterExactEarly ==
  /\ \E g \in Exacts : Register(g)
  /\ UNCHANGED <<reviewed, accepted, chain, scored, locals>>

\* An exact supplement extends an accepted memory.
RegisterExact ==
  /\ Version > 0
  /\ \E g \in Exacts : Register(g)
  /\ UNCHANGED <<reviewed, accepted, chain, scored, locals>>

-----------------------------------------------------------------------------
(* Steps of a call *)

Go(p, step) == pc' = [pc EXCEPT ![p] = step]
Holds(p, e) == event' = [event EXCEPT ![p] = e]
Sees(p) == seen' = [seen EXCEPT ![p] = Version]

Adopted(packet, memory) == [memory EXCEPT !.by = packet.by, !.source = packet.source]

\* The call is over, has raised, or its session stopped.
Leave(p) ==
  /\ Go(p, "idle")
  /\ on' = [on EXCEPT ![p] = NoSource] /\ seen' = [seen EXCEPT ![p] = 0]
  /\ group' = [group EXCEPT ![p] = NoSource] /\ event' = [event EXCEPT ![p] = 0]
  /\ UNCHANGED <<stores, chain, scored>>

AppendAnyway(p, packet, step) ==
  /\ chain' = Append(chain, Adopted(packet, Built(packet)))
  /\ Holds(p, Version + 1) /\ Go(p, step)
  /\ UNCHANGED <<stores, scored, on, seen, group>>

\* append_evidence_vault_operational_adoption: the key of an adoption made
\* before returns its event, else the packet's parent must be the newest version.
AppendAdoption(p, packet, step) ==
  IF /\ packet.parent < Version
     /\ chain[packet.parent + 1].by = packet.by /\ chain[packet.parent + 1].source = packet.source
  THEN /\ Holds(p, packet.parent + 1) /\ Go(p, step)
       /\ UNCHANGED <<stores, chain, scored, on, seen, group>>
  ELSE IF packet.parent # Version
  THEN Leave(p)
  ELSE /\ chain' = Append(chain, Adopted(packet, Built(packet)))
       /\ Holds(p, Version + 1) /\ Go(p, step)
       /\ UNCHANGED <<stores, scored, on, seen, group>>

\* register_evidence_vault_operational_memory_packet, then the adoption if it
\* changes anything.  The packets are named by what they were built from.
Keep(p, packet, refused, change, nochange) ==
  IF packet.parent # Version \/ refused
  THEN Leave(p)
  ELSE /\ Go(p, IF HasChange(packet) THEN change ELSE nochange)
       /\ UNCHANGED <<stores, chain, scored, held>>

-----------------------------------------------------------------------------
(* activate_evidence_vault_operational_scanner_result *)

Activate(p, s) ==
  /\ pc[p] = "idle" /\ parent[s] # -1
  /\ on' = [on EXCEPT ![p] = s] /\ Sees(p)
  /\ Go(p, IF Proposal[s].supersedes = {} THEN "build" ELSE "attest")
  /\ UNCHANGED <<stores, chain, scored, group, event>>

Attest(p) ==
  /\ pc[p] = "attest"
  /\ IF Breaks(on[p], ActiveGroup)
     THEN group' = [group EXCEPT ![p] = ActiveGroup] /\ Go(p, "reopen")
     ELSE Go(p, "build") /\ UNCHANGED group
  /\ UNCHANGED <<stores, chain, scored, on, seen, event>>

\* reopen_evidence_vault_composite_group, as one adoption.
Reopened(memory, by, s, evidence) ==
  [memory EXCEPT !.rows = [memory.rows EXCEPT ![C7] = NoRow], !.by = by, !.source = s,
                 !.pending = memory.pending \cup (Members[memory.rows[C7].source] \cap evidence)]

\* A reopening of this group by this scan that is in the chain is replayed.
ReopenedBefore(g, s) ==
  \E v \in 2..Version : /\ chain[v].by = "delta" /\ chain[v].source = s
                        /\ chain[v - 1].rows[C7].source = g

Reopen(p) ==
  /\ pc[p] = "reopen"
  /\ IF ReopenedBefore(group[p], on[p])
     THEN Go(p, "reread") /\ UNCHANGED <<stores, chain, scored, held>>
     ELSE IF parent[on[p]] # Version
     THEN Go(p, "look") /\ UNCHANGED <<stores, chain, scored, held>>
     ELSE IF ActiveGroup # group[p]
     THEN Leave(p)
     ELSE /\ chain' = Append(chain, Reopened(Current, "delta", on[p], Proposal[on[p]].supersedes))
          /\ Go(p, "reread")
          /\ UNCHANGED <<stores, scored, held>>

LookPast(p) ==
  /\ pc[p] = "look"
  /\ Go(p, "reread")
  /\ UNCHANGED <<stores, chain, scored, held>>

\* The reopening lost a race; it goes on only when the group is gone.
Look(p) ==
  /\ pc[p] = "look"
  /\ IF ActiveGroup = group[p]
     THEN Leave(p)
     ELSE Go(p, "reread") /\ UNCHANGED <<stores, chain, scored, held>>

Reread(p) ==
  /\ pc[p] = "reread"
  /\ Sees(p) /\ Go(p, "build")
  /\ UNCHANGED <<stores, chain, scored, on, group, event>>

ScanPacket(p) == [by |-> "policy", source |-> on[p], parent |-> seen[p]]

Build(p) ==
  /\ pc[p] = "build"
  /\ IF Proposal[on[p]].overlay
     THEN Keep(p, ScanPacket(p), FALSE, "adopt", "score")
     ELSE Go(p, "score") /\ UNCHANGED <<stores, chain, scored, held>>

Adopt(p) == pc[p] = "adopt" /\ AppendAdoption(p, ScanPacket(p), "confirm")

\* The memory as it is once the adoption has committed.
Confirm(p) ==
  /\ pc[p] = "confirm"
  /\ Sees(p) /\ Go(p, "score")
  /\ UNCHANGED <<stores, chain, scored, on, group, event>>

\* get_or_create_evidence_vault_operational_score_evaluation scores the newest
\* version; only an adoption that memory and score both show is created.
Score(p) ==
  /\ pc[p] = "score"
  /\ scored' = Version
  /\ Go(p, IF event[p] = 0 THEN "unchanged"
           ELSE IF seen[p] = event[p] /\ Version = event[p] THEN "created"
           ELSE "superseded")
  /\ UNCHANGED <<stores, chain, held>>

-----------------------------------------------------------------------------
(* review_and_adopt_evidence_vault_operational_source *)

Decisions(x) == IF x \in Exacts THEN {{}, {C7}} ELSE SUBSET Unreviewed(x)

\* A packet built from these decisions would be raised in the same transaction.
Unbuildable(x, decision) ==
  \/ parent[x] # Version
  \/ x \in Exacts /\ C7 \in decision /\ Lit(Current.rows[C7])

Review(p, x, decision) ==
  /\ reviewed' = reviewed \cup {x} /\ accepted' = [accepted EXCEPT ![x] = decision]
  /\ on' = [on EXCEPT ![p] = x] /\ Sees(p)
  /\ Go(p, "register")
  /\ UNCHANGED <<parent, chain, scored, group, event>>

RecordUnchecked(p, x, decision) ==
  /\ pc[p] = "idle" /\ parent[x] # -1 /\ Unreviewed(x) # {}
  /\ x \in reviewed => decision = accepted[x]
  /\ Review(p, x, decision)

\* The reviews and the reviewed packet are kept together or not at all.
Record(p, x, decision) ==
  /\ pc[p] = "idle" /\ parent[x] # -1 /\ Unreviewed(x) # {}
  /\ x \in reviewed => decision = accepted[x]
  /\ ~Unbuildable(x, decision)
  /\ Review(p, x, decision)

ReviewPacket(p) == [by |-> "human", source |-> on[p], parent |-> seen[p]]

RefusesNothing(x) == FALSE
\* C7 is accepted only as an exact group, without evidence a reopening superseded.
Refuses(x) ==
  /\ C7 \in accepted[x]
  /\ \/ x \in Scans /\ ~Lit(Current.rows[C7])
     \/ x \in Exacts /\ Members[x] \cap Current.pending # {}

RegisterReviewed(p) ==
  pc[p] = "register" /\ Keep(p, ReviewPacket(p), Refuses(on[p]), "take", "reviewed")

Take(p) == pc[p] = "take" /\ AppendAdoption(p, ReviewPacket(p), "adopted")

-----------------------------------------------------------------------------
(* An accepted contradiction of C7 reopens the group it speaks against *)

Contradicts(s) ==
  /\ s \in reviewed /\ C7 \in accepted[s]
  /\ ActiveGroup # NoSource /\ Members[ActiveGroup] \cap Proposal[s].against # {}

ReopenUnchecked(s) ==
  /\ Contradicts(s)
  /\ chain' = Append(chain, Reopened(Current, "contradiction", s, Proposal[s].against))
  /\ UNCHANGED <<stores, scored, locals>>

ReopenContradicted(s) ==
  /\ Contradicts(s) /\ parent[s] = Version
  /\ chain' = Append(chain, Reopened(Current, "contradiction", s, Proposal[s].against))
  /\ UNCHANGED <<stores, scored, locals>>

-----------------------------------------------------------------------------

Replies == {"created", "superseded", "unchanged", "reviewed", "adopted"}

Return(p) == pc[p] \in Replies /\ Leave(p)
Crash(p) == pc[p] \notin Replies \cup {"idle"} /\ Leave(p)

Step(p) ==
  \/ Attest(p) \/ Reopen(p) \/ Look(p) \/ Reread(p) \/ Build(p)
  \/ Adopt(p) \/ Confirm(p) \/ Score(p)
  \/ RegisterReviewed(p) \/ Take(p) \/ Return(p)

Next ==
  \/ RegisterScan \/ RegisterExact
  \/ \E p \in Sessions :
       \/ \E s \in Scans : Activate(p, s)
       \/ \E x \in Sources : \E decision \in Decisions(x) : Record(p, x, decision)
       \/ Step(p) \/ Crash(p)
  \/ \E s \in Scans : ReopenContradicted(s)

Spec == Init /\ [][Next]_vars

-----------------------------------------------------------------------------
(* Properties *)

Steps == {"idle", "attest", "reopen", "look", "reread", "build", "adopt", "confirm", "score",
          "register", "take"} \cup Replies

\* Every variable keeps its type.
TypeOK ==
  /\ parent \in [Sources -> Nat \cup {-1}]
  /\ reviewed \in SUBSET Sources /\ accepted \in [Sources -> SUBSET AllTiles]
  /\ chain \in Seq(Memories) /\ scored \in Nat
  /\ pc \in [Sessions -> Steps] /\ on \in [Sessions -> Sources \cup {NoSource}]
  /\ seen \in [Sessions -> Nat] /\ group \in [Sessions -> Exacts \cup {NoSource}]
  /\ event \in [Sessions -> Nat]

\* A human adoption applies reviews of its source on the version the source was
\* planned on, and every row a human is said to have lit, C7's included, was
\* accepted in a recorded review of the source it names: no interleaving of
\* reviews, activations and stops lets authority through that nobody gave.
AuthorityBacked ==
  \A v \in 1..Version :
    /\ chain[v].by = "human" => chain[v].source \in reviewed /\ parent[chain[v].source] = v - 1
    /\ \A t \in AllTiles : chain[v].rows[t].by = "human" =>
         LET x == chain[v].rows[t].source IN
           x \in reviewed /\ t \in accepted[x] /\ parent[x] < v

\* A source is adopted at most once by the policy and once by a human, and a
\* trigger reopens at most one group once, however often its calls are repeated,
\* raced or cut off.
AppliedOnce ==
  \A v, w \in 1..Version :
    chain[v].by = chain[w].by /\ chain[v].source = chain[w].source => v = w

\* A group is reopened only from the version its trigger was planned on, while
\* it was active, and for evidence it is made of: a late trigger never takes
\* away a group accepted after it.
ReopenJustified ==
  \A v \in 1..Version : chain[v].by \in {"delta", "contradiction"} =>
    LET s == chain[v].source
        g == Memory(v - 1).rows[C7].source IN
      /\ parent[s] = v - 1
      /\ g \in Exacts
      /\ chain[v].pending \cap Members[g] # {}
      /\ chain[v].by = "contradiction" => s \in reviewed /\ C7 \in accepted[s]

\* Every version accepts some tile: the builder raises for a memory with a
\* version and no tile, so that a brand that got there could never be written again.
NeverEmpty == \A v \in 1..Version : \E t \in AllTiles : chain[v].rows[t] # NoRow

\* What a call says it did is in the chain: a created activation is the version
\* it names, scored, a superseded one is durable under a newer version, a review
\* says adopted only for its own adoption, and one that says reviewed has changed
\* no row; the group a scan saw it had broken is not the brand's any more.
ReplyTruthful ==
  \A p \in Sessions :
    /\ pc[p] \in {"created", "superseded", "adopted"} =>
         /\ event[p] \in 1..Version
         /\ chain[event[p]].source = on[p]
         /\ chain[event[p]].by = IF pc[p] = "adopted" THEN "human" ELSE "policy"
    /\ pc[p] = "created" => event[p] \in 1..scored /\ seen[p] = event[p]
    /\ pc[p] = "superseded" => event[p] < Version
    /\ pc[p] = "reviewed" => \A t \in AllTiles : Memory(seen[p]).rows[t].source # on[p]
    /\ pc[p] \in {"created", "superseded", "unchanged"} /\ group[p] # NoSource =>
         ActiveGroup # group[p]

\* The authority each ordinary tile of a memory is lit by.
Authorities(memory) ==
  [t \in Tiles |-> IF Lit(memory.rows[t]) THEN memory.rows[t].by ELSE "unlit"]
Lights == Authorities(Current)

\* The versions implement the promise of BrandMemory.
Contract == INSTANCE BrandMemory WITH
  Groups <- Exacts, NoGroup <- NoSource,
  version <- Version,
  rows <- Lights,
  group <- ActiveGroup,
  barred <- Current.pending

ImplementsMemory == Contract!Spec

\* The authority of an ordinary tile only grows: no scan, review, reopening or
\* late call darkens a tile that was lit or gives one a human decided back to
\* the policy.
AuthorityGrows ==
  [][\A t \in Tiles : Lights'[t] # Lights[t] => Lights[t] = "unlit" \/ Lights'[t] = "human"]_vars

=============================================================================
