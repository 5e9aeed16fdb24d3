-------------------------- MODULE JudgmentAuthority --------------------------
(***************************************************************************)
(* The ledger of a brand's SV9 judgment authority and the application that *)
(* advances it:                                                            *)
(*   src/services/evidence_vault_sv9_authority_application.py              *)
(*   src/services/evidence_vault_sv9_authority_evaluation.py (its control) *)
(*   src/services/evidence_vault_tile_rescan_path.py         (its control) *)
(*   src/history/repository.py, the candidates and the authority events    *)
(*                                                                         *)
(* The application of a scan reads the authority, judges the scan against  *)
(* the accepted judgment, which takes minutes of model calls, stores the   *)
(* judgment as a candidate and then, in another transaction, has it        *)
(* adopted; or it reopens the accepted judgment for review. Several runs,  *)
(* of several scans or of one, do this at once. Whatever a write raises is *)
(* swallowed: the run reads the authority once more and answers what it    *)
(* finds.                                                                  *)
(*                                                                         *)
(* A transaction of the repository holds the brand's advisory locks from   *)
(* start to end, so each is one step. What a judgment says is a score;     *)
(* what it was made of is the accepted judgment it was made against.       *)
(*                                                                         *)
(* AnyScan, AdoptOnAnyHead and ReadBackAny are mutated forms of the        *)
(* operators that follow them: no action uses them.                        *)
(***************************************************************************)
EXTENDS Naturals, Sequences, FiniteSets

CONSTANTS
    Scans,      \* the brand's scans, numbered in the order they were requested
    Runs,       \* runs of the application
    Scores,     \* what a judgment can come to
    MaxEvents,  \* bound: the events of the ledger
    MaxStored   \* bound: the judgments stored

ASSUME ScansAssumption == Scans \subseteq Nat \ {0}
ASSUME ScoresAssumption == Scores \subseteq Nat
ASSUME BoundsAssumption == MaxEvents \in Nat /\ MaxStored \in Nat

VARIABLES
    candidates, \* the judgments stored
    events,     \* the ledger of authority events, in the order of their sequence
    run         \* the run of the application

vars == <<candidates, events, run>>

Answers == {"none", "authority_established", "authority_advanced", "authority_retained",
            "review_required", "first_run_unresolved", "authority_conflict", "error"}

Steps == {"idle", "snapshot", "evaluate", "store", "apply", "adopt", "readback",
          "review", "reopen", "review_readback", "retain"}

Candidates == [scan : Scans, on : 0 .. MaxEvents, rescan : BOOLEAN, score : Scores]

(* on is the event of the accepted judgment that a candidate, or a reopening, *)
(* was made against; parent the one that was accepted when it was appended.   *)
Events == [kind : {"adopt", "supersede", "reopen"}, scan : Scans, on : 0 .. MaxEvents,
           rescan : BOOLEAN, score : Scores \cup {0}, parent : 0 .. MaxEvents]

-----------------------------------------------------------------------------
(* The authority, as a transaction replays it from the ledger *)

Last == Len(events)

(* The event whose judgment was accepted once the first i events were there. *)
ActiveAt(i) ==
    IF i = 0 THEN 0 ELSE IF events[i].kind = "reopen" THEN events[i].parent ELSE i

Active == ActiveAt(Last)

ReviewScan == IF Last # 0 /\ events[Last].kind = "reopen" THEN events[Last].scan ELSE 0

Accepts(e, c) ==
    /\ e.kind \in {"adopt", "supersede"}
    /\ e.scan = c.scan /\ e.on = c.on /\ e.rescan = c.rescan /\ e.score = c.score

IsAccepted(c) == Active # 0 /\ Accepts(events[Active], c)

Reopens(e, s, n) == e.kind = "reopen" /\ e.scan = s /\ e.on = n

(* The judgment of a run: of its scan, against what its snapshot had accepted. *)
Judgment(r) == [scan |-> run[r].scan, on |-> ActiveAt(run[r].seen),
                rescan |-> run[r].rescan, score |-> run[r].score]

(* The stored judgments with the plan of run r: a table holds one of them. *)
SamePlan(r) == {c \in candidates : /\ c.scan = run[r].scan
                                   /\ c.on = ActiveAt(run[r].seen)
                                   /\ c.rescan = run[r].rescan}

Go(r, step) == run' = [run EXCEPT ![r].pc = step]

(* What a run worked on is gone with it; of a success the judgment remains. *)
Ended(a) == [pc |-> "idle", scan |-> 0, seen |-> 0, rescan |-> FALSE, score |-> 0, answer |-> a]

Answer(r, a) == run' = [run EXCEPT ![r] = Ended(a)]

(* What is not a success ends a tile-by-tile re-scan with an exception. *)
Fail(r, a) == Answer(r, IF run[r].rescan THEN "error" ELSE a)

-----------------------------------------------------------------------------
(* Reading and judging *)

Init ==
    /\ candidates = {}
    /\ events = <<>>
    /\ run = [r \in Runs |-> Ended("none")]

(* The tile-by-tile path leaves the accepted scan, the scan under review and *)
(* a brand without authority to the ordinary one; also a brand that is not   *)
(* listed for it, a new series and an authority that cannot be read, so that *)
(* the ordinary path may always be the one.                                  *)
Tiled(s) == Last # 0 /\ events[Active].scan # s /\ ReviewScan # s

Begin(r, s) ==
    /\ run[r].pc = "idle"
    /\ \E rescan \in {FALSE, Tiled(s)} :
           run' = [run EXCEPT ![r] =
                      [pc |-> IF rescan THEN "evaluate" ELSE "snapshot", scan |-> s,
                       seen |-> IF rescan THEN Last ELSE 0, rescan |-> rescan,
                       score |-> 0, answer |-> "none"]]
    /\ UNCHANGED <<candidates, events>>

Snapshot(r) ==
    /\ run[r].pc = "snapshot"
    /\ run' = [run EXCEPT ![r] = [@ EXCEPT !.pc = "evaluate", !.seen = Last]]
    /\ UNCHANGED <<candidates, events>>

(* A pending review of the scan itself keeps its evaluation incomplete. *)
OwnReview(r) ==
    /\ run[r].seen # 0
    /\ events[run[r].seen].kind = "reopen"
    /\ events[run[r].seen].scan = run[r].scan

(* The plan was judged before: its candidate is used again. *)
Reuse(r) ==
    /\ run[r].pc = "evaluate" /\ ~run[r].rescan /\ ~OwnReview(r)
    /\ \E c \in SamePlan(r) : run' = [run EXCEPT ![r] = [@ EXCEPT !.pc = "apply", !.score = c.score]]
    /\ UNCHANGED <<candidates, events>>

Judge(r) ==
    /\ run[r].pc = "evaluate" /\ ~OwnReview(r)
    /\ run[r].rescan \/ SamePlan(r) = {}
    /\ \E v \in Scores : run' = [run EXCEPT ![r] = [@ EXCEPT !.pc = "store", !.score = v]]
    /\ UNCHANGED <<candidates, events>>

(* Evidence that the accepted judgment cannot place, or no longer covers. *)
Incomplete(r) ==
    /\ run[r].pc = "evaluate" /\ ~run[r].rescan
    /\ Go(r, "review")
    /\ UNCHANGED <<candidates, events>>

(* No score: the input is the accepted one, or something failed on the way. *)
NoScore(r) ==
    /\ run[r].pc = "evaluate"
    /\ IF run[r].rescan THEN Answer(r, "error") ELSE Go(r, "retain")
    /\ UNCHANGED <<candidates, events>>

(* A candidate that was made against another judgment than the accepted one *)
(* is refused on the tile-by-tile path; on the ordinary one its witness may *)
(* still be what the accepted judgment yields, and it is stored.            *)
Store(r) ==
    /\ run[r].pc = "store"
    /\ run[r].rescan => ActiveAt(run[r].seen) = Active
    /\ SamePlan(r) \subseteq {Judgment(r)}
    /\ candidates' = candidates \cup {Judgment(r)}
    /\ Cardinality(candidates') <= MaxStored
    /\ Go(r, "apply")
    /\ UNCHANGED events

(* Another run has stored another judgment of the same plan, or the write fails. *)
StoreFails(r) ==
    /\ run[r].pc = "store"
    /\ IF run[r].rescan THEN Answer(r, "error") ELSE Go(r, "retain")
    /\ UNCHANGED <<candidates, events>>

(* The input is not available, or the witness does not hold against it or   *)
(* the authority any more: the evaluation asks for a review but names no     *)
(* delta, which the application refuses.                                     *)
Unsigned(r) ==
    /\ run[r].pc \in {"evaluate", "store"} /\ ~run[r].rescan
    /\ Answer(r, IF Last = 0 THEN "first_run_unresolved" ELSE "authority_conflict")
    /\ UNCHANGED <<candidates, events>>

-----------------------------------------------------------------------------
(* A candidate is applied *)

Succeed(r) ==
    run' = [run EXCEPT ![r] =
               [@ EXCEPT !.pc = "idle",
                         !.answer = IF events[Active].kind = "adopt"
                                    THEN "authority_established" ELSE "authority_advanced"]]

(* A review of the run's own scan waits for a person; to adopt the accepted  *)
(* judgment again cannot end any review.                                     *)
Waits(r) == ReviewScan # 0 /\ (ReviewScan = run[r].scan \/ IsAccepted(Judgment(r)))

ApplyCandidate(r) ==
    /\ run[r].pc = "apply"
    /\ \/ Waits(r) /\ Fail(r, "authority_conflict")
       \/ ~Waits(r) /\ IsAccepted(Judgment(r)) /\ Succeed(r)
       \/ ~Waits(r) /\ ~IsAccepted(Judgment(r)) /\ Last # run[r].seen /\ Fail(r, "authority_conflict")
       \/ ~Waits(r) /\ ~IsAccepted(Judgment(r)) /\ Last = run[r].seen /\ Go(r, "adopt")
    /\ UNCHANGED <<candidates, events>>

AnyScan(s) == s \in Scans

(* Only a scan newer than the one under review may end the review. *)
NewerThanReview(s) == ReviewScan = 0 \/ s > ReviewScan

(* The transaction appends one event. *)
Record(e) == events' = Append(events, e)

AdoptOnAnyHead(r) ==
    /\ run[r].pc = "adopt"
    /\ NewerThanReview(run[r].scan)
    /\ Last < MaxEvents
    /\ Record([kind |-> IF Last = 0 THEN "adopt" ELSE "supersede", scan |-> run[r].scan,
                on |-> Judgment(r).on, rescan |-> run[r].rescan, score |-> run[r].score,
                parent |-> Active])
    /\ Go(r, "readback")
    /\ UNCHANGED candidates

Adopt(r) ==
    /\ run[r].pc = "adopt"
    /\ Last = run[r].seen
    /\ NewerThanReview(run[r].scan)
    /\ \A i \in 1 .. Last : ~Accepts(events[i], Judgment(r))
    /\ Last < MaxEvents
    /\ Record([kind |-> IF Last = 0 THEN "adopt" ELSE "supersede", scan |-> run[r].scan,
                on |-> Judgment(r).on, rescan |-> run[r].rescan, score |-> run[r].score,
                parent |-> Active])
    /\ Go(r, "readback")
    /\ UNCHANGED candidates

(* The adoption is refused, found done, or fails; the run does not tell them apart. *)
AdoptEnds(r) ==
    /\ run[r].pc = "adopt"
    /\ Go(r, "readback")
    /\ UNCHANGED <<candidates, events>>

(* The witness is stale by now, against the brand's memory: nothing is       *)
(* appended, yet a review is what the run answers.                           *)
AdoptStale(r) ==
    /\ run[r].pc = "adopt" /\ Last = run[r].seen
    /\ Fail(r, "review_required")
    /\ UNCHANGED <<candidates, events>>

ReadBackAny(r) ==
    /\ run[r].pc = "readback"
    /\ IF ReviewScan = 0 /\ Last # 0 THEN Succeed(r) ELSE Fail(r, "authority_conflict")
    /\ UNCHANGED <<candidates, events>>

ReadBack(r) ==
    /\ run[r].pc = "readback"
    /\ IF ReviewScan = 0 /\ IsAccepted(Judgment(r)) THEN Succeed(r) ELSE Fail(r, "authority_conflict")
    /\ UNCHANGED <<candidates, events>>

-----------------------------------------------------------------------------
(* The accepted judgment is reopened for review, or retained *)

(* The review that run r asks for is the pending one. *)
OwnPending(r) == Last # 0 /\ Reopens(events[Last], run[r].scan, ActiveAt(run[r].seen))

ApplyReview(r) ==
    /\ run[r].pc = "review"
    /\ \/ /\ Last = 0
          /\ Answer(r, IF run[r].seen = 0 THEN "first_run_unresolved" ELSE "authority_conflict")
       \/ OwnPending(r) /\ Answer(r, "review_required")
       \/ Last # 0 /\ ~OwnPending(r) /\ Last # run[r].seen /\ Answer(r, "authority_conflict")
       \/ Last # 0 /\ ~OwnPending(r) /\ Last = run[r].seen /\ Go(r, "reopen")
    /\ UNCHANGED <<candidates, events>>

(* A reopening may follow another: nothing here asks whose scan is the newer. *)
Reopen(r) ==
    /\ run[r].pc = "reopen"
    /\ Last # 0 /\ Last = run[r].seen
    /\ Last < MaxEvents
    /\ Record([kind |-> "reopen", scan |-> run[r].scan, on |-> Active, rescan |-> FALSE,
                score |-> 0, parent |-> Active])
    /\ Go(r, "review_readback")
    /\ UNCHANGED candidates

(* The reopening is refused, found done, or fails. *)
ReopenEnds(r) ==
    /\ run[r].pc = "reopen"
    /\ Go(r, "review_readback")
    /\ UNCHANGED <<candidates, events>>

ReviewReadBack(r) ==
    /\ run[r].pc = "review_readback"
    /\ Answer(r, IF OwnPending(r) THEN "review_required" ELSE "authority_conflict")
    /\ UNCHANGED <<candidates, events>>

Retain(r) ==
    /\ run[r].pc = "retain"
    /\ Answer(r, IF Last = 0 THEN "first_run_unresolved"
                 ELSE IF ReviewScan # run[r].scan THEN "authority_retained"
                 ELSE "authority_conflict")
    /\ UNCHANGED <<candidates, events>>

(* Any read of the application may fail. *)
ReadFails(r) ==
    /\ run[r].pc \in {"apply", "readback", "review", "review_readback", "retain"}
    /\ Fail(r, "authority_conflict")
    /\ UNCHANGED <<candidates, events>>

(* The process of the run ends; another may run the same scan again. *)
Crash(r) ==
    /\ run[r].pc # "idle"
    /\ Answer(r, "none")
    /\ UNCHANGED <<candidates, events>>

Act(r) ==
    \/ \E s \in Scans : Begin(r, s)
    \/ Snapshot(r) \/ Reuse(r) \/ Judge(r) \/ Incomplete(r) \/ NoScore(r)
    \/ Store(r) \/ StoreFails(r) \/ Unsigned(r)
    \/ ApplyCandidate(r) \/ Adopt(r) \/ AdoptEnds(r) \/ AdoptStale(r) \/ ReadBack(r)
    \/ ApplyReview(r) \/ Reopen(r) \/ ReopenEnds(r) \/ ReviewReadBack(r)
    \/ Retain(r) \/ ReadFails(r) \/ Crash(r)

Next == \E r \in Runs : Act(r)

Spec == Init /\ [][Next]_vars

-----------------------------------------------------------------------------
(* Properties *)

TypeOK ==
    /\ candidates \subseteq Candidates
    /\ events \in Seq(Events) /\ Last <= MaxEvents
    /\ run \in [Runs -> [pc : Steps, scan : Scans \cup {0}, seen : 0 .. MaxEvents,
                         rescan : BOOLEAN, score : Scores \cup {0}, answer : Answers]]

Accepted(r, kind) == \E i \in 1 .. Last : events[i].kind = kind /\ Accepts(events[i], Judgment(r))

(* A run that answers that it established or advanced the authority did so, *)
(* or found that another run had, with the very judgment it stands for:      *)
(* although what its adoption raised is swallowed                            *)
(* (evidence_vault_sv9_authority_application.py:85-96), the read after it    *)
(* tells a judgment of its own from that of a run that got there first.      *)
AnswerTrue ==
    \A r \in Runs :
        /\ run[r].answer = "authority_established" => Accepted(r, "adopt")
        /\ run[r].answer = "authority_advanced" => Accepted(r, "supersede")

IsAdoption(i) == events[i].kind \in {"adopt", "supersede"}

(* The accepted judgments form one line: no two of them, of whichever runs   *)
(* and scans, and whatever was reopened between them, were ever made against *)
(* the same judgment. Two runs that judged at once never both advance it.    *)
NeverForks ==
    \A i, j \in 1 .. Last :
        IsAdoption(i) /\ IsAdoption(j) /\ events[i].on = events[j].on => i = j

(* The ledger keeps the promise of JudgmentPromise: what is accepted was     *)
(* judged against what was accepted until then, though minutes and other     *)
(* runs lie between the two, and no scan ends the review of a newer one.     *)
P == INSTANCE JudgmentPromise WITH
         accepted <- Active,
         basis <- IF Active = 0 THEN 0 ELSE events[Active].on,
         review <- ReviewScan

ImplementsPromise == P!Spec
==============================================================================
