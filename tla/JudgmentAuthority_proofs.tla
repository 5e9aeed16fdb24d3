---------------------- MODULE JudgmentAuthority_proofs ----------------------
(***************************************************************************)
(* Theorems about JudgmentAuthority for any scans, runs, scores and bounds. *)
(*                                                                         *)
(* The ledger only grows, so what a run read of it stays as it was, and an *)
(* event names an earlier one as the accepted judgment. A run that is not  *)
(* over has answered nothing yet. With this, the comparison of the head    *)
(* with the one the run read makes the judgment it was made against the    *)
(* accepted one.                                                           *)
(***************************************************************************)
EXTENDS JudgmentAuthority, TLAPS

RunType == [pc : Steps, scan : Scans \cup {0}, seen : 0 .. MaxEvents, rescan : BOOLEAN,
            score : Scores \cup {0}, answer : Answers]

(* What an event says of the ones before it. *)
Backward ==
    \A i \in 1 .. Last : /\ events[i].parent < i
                         /\ events[i].kind = "reopen" => events[i].parent # 0

Judged == {"store", "apply", "adopt", "readback"}

(* A run has read a part of the ledger; under way, it has a scan and no answer. *)
RunOK(r) ==
    /\ run[r].seen <= Last
    /\ run[r].pc # "idle" => run[r].scan \in Scans /\ run[r].answer = "none"
    /\ run[r].pc \in Judged => run[r].score \in Scores

Inv == TypeOK /\ Backward /\ \A r \in Runs : RunOK(r)

IInv == Inv /\ AnswerTrue

-----------------------------------------------------------------------------
(* The ledger *)

(* The accepted event is one of the ledger. *)
LEMMA ActiveInLedger ==
    ASSUME Inv, NEW i \in 0 .. Last
    PROVE  ActiveAt(i) \in 0 .. i /\ (i # 0 => ActiveAt(i) # 0)
<1>1. CASE i = 0
  BY <1>1 DEF ActiveAt
<1>2. CASE i # 0
  <2>1. i \in 1 .. Last /\ Last \in Nat
    BY <1>2, BoundsAssumption DEF Inv, TypeOK, Last
  <2>2. events[i] \in Events
    BY <2>1 DEF Inv, TypeOK, Last
  <2>3. events[i].parent \in Nat
    BY <2>2, BoundsAssumption DEF Events
  <2>4. QED
    BY <1>2, <2>1, <2>3 DEF ActiveAt, Inv, Backward
<1>3. QED
  BY <1>1, <1>2

(* A new event follows the others and changes none of them. *)
LEMMA Grown ==
    ASSUME events \in Seq(Events), NEW e \in Events, Record(e)
    PROVE  /\ Last' = Last + 1 /\ Last \in Nat
           /\ events' \in Seq(Events)
           /\ events'[Last + 1] = e
           /\ \A i \in 1 .. Last : events'[i] = events[i]
BY DEF Record, Last

(* A step of run r that leaves the ledger and the answers of the runs alone. *)
LEMMA Working ==
    ASSUME Inv, NEW r \in Runs, UNCHANGED events,
           candidates' \subseteq Candidates,
           run' \in [Runs -> RunType],
           \A q \in Runs \ {r} : run'[q] = run[q],
           run'[r].seen <= Last,
           run'[r].pc # "idle" => run'[r].scan \in Scans /\ run'[r].answer = "none",
           run'[r].pc \in Judged => run'[r].score \in Scores
    PROVE  Inv'
BY DEF Inv, TypeOK, Backward, RunOK, Last, RunType

(* The run ends with an answer that says nothing of its judgment. *)
LEMMA Ending ==
    ASSUME Inv, NEW r \in Runs, NEW a \in Answers, Answer(r, a),
           UNCHANGED <<candidates, events>>
    PROVE  Inv'
<1>1. /\ run \in [Runs -> RunType] /\ Last \in Nat /\ Last <= MaxEvents
      /\ candidates' \subseteq Candidates /\ UNCHANGED events
  BY BoundsAssumption DEF Inv, TypeOK, RunType, Last
<1>2. Ended(a) \in RunType
  BY BoundsAssumption DEF Ended, RunType, Steps
<1>3. run'[r] = Ended(a) /\ run' \in [Runs -> RunType]
  BY <1>1, <1>2 DEF Answer
<1>4. run'[r].pc = "idle" /\ run'[r].seen = 0
  BY <1>3 DEF Ended
<1>5. \A q \in Runs \ {r} : run'[q] = run[q]
  BY <1>1 DEF Answer
<1>6. QED
  BY <1>1, <1>3, <1>4, <1>5, Working DEF Judged

LEMMA Failing ==
    ASSUME Inv, NEW r \in Runs, NEW a \in Answers, Fail(r, a),
           UNCHANGED <<candidates, events>>
    PROVE  Inv'
BY Ending DEF Fail, Answers

(* The run goes on to its next step. *)
LEMMA Going ==
    ASSUME Inv, NEW r \in Runs, NEW step \in Steps, Go(r, step), run[r].pc # "idle",
           step \in Judged => run[r].score \in Scores,
           candidates' \subseteq Candidates, UNCHANGED events
    PROVE  Inv'
<1>1. run \in [Runs -> RunType] /\ RunOK(r)
  BY DEF Inv, TypeOK, RunType
<1>2. run' \in [Runs -> RunType]
  BY <1>1 DEF Go, RunType
<1>3. /\ run'[r].pc = step /\ run'[r].seen = run[r].seen /\ run'[r].scan = run[r].scan
      /\ run'[r].answer = run[r].answer /\ run'[r].score = run[r].score
  BY <1>1 DEF Go, RunType
<1>4. \A q \in Runs \ {r} : run'[q] = run[q]
  BY <1>1 DEF Go
<1>5. QED
  BY <1>1, <1>2, <1>3, <1>4, Working DEF RunOK

(* An event is appended and the run goes on to read the ledger again. *)
LEMMA Recording ==
    ASSUME Inv, NEW r \in Runs, NEW step \in Steps, Go(r, step), run[r].pc # "idle",
           step \in Judged => run[r].score \in Scores,
           NEW e \in Events, Record(e), e.parent <= Last, Last < MaxEvents,
           e.kind = "reopen" => e.parent # 0,
           UNCHANGED candidates
    PROVE  Inv'
<1>1. /\ run \in [Runs -> RunType] /\ \A q \in Runs : RunOK(q)
      /\ events \in Seq(Events) /\ Backward /\ candidates \subseteq Candidates
  BY DEF Inv, TypeOK, RunType
<1>2. /\ Last' = Last + 1 /\ Last \in Nat /\ events' \in Seq(Events)
      /\ events'[Last + 1] = e /\ \A i \in 1 .. Last : events'[i] = events[i]
  BY <1>1, Grown
<1>3. run' \in [Runs -> RunType]
  BY <1>1 DEF Go, RunType
<1>4. TypeOK'
  BY <1>1, <1>2, <1>3, BoundsAssumption DEF TypeOK, RunType
<1>5. Backward'
  <2>1. SUFFICES ASSUME NEW i \in 1 .. Last + 1
                 PROVE  /\ events'[i].parent < i
                        /\ events'[i].kind = "reopen" => events'[i].parent # 0
    BY <1>2 DEF Backward
  <2>2. CASE i = Last + 1
    BY <1>2, <2>2, BoundsAssumption DEF Events
  <2>3. CASE i \in 1 .. Last
    BY <1>1, <1>2, <2>3 DEF Backward
  <2>4. QED
    BY <1>2, <2>2, <2>3
<1>6. ASSUME NEW q \in Runs PROVE RunOK(q)'
  <2>1. /\ run'[q].seen = run[q].seen /\ run'[q].scan = run[q].scan
        /\ run'[q].answer = run[q].answer /\ run'[q].score = run[q].score
        /\ run'[q].pc = IF q = r THEN step ELSE run[q].pc
        /\ run[q].seen \in Nat
    BY <1>1, BoundsAssumption DEF Go, RunType
  <2>2. QED
    BY <1>1, <1>2, <2>1 DEF RunOK
<1>7. QED
  BY <1>4, <1>5, <1>6 DEF Inv

-----------------------------------------------------------------------------
(* Types *)

LEMMA JudgmentOK ==
    ASSUME Inv, NEW r \in Runs, run[r].pc \in Judged
    PROVE  Judgment(r) \in Candidates
<1>1. /\ run[r] \in RunType /\ RunOK(r)
      /\ Last \in Nat /\ Last <= MaxEvents
  BY DEF Inv, TypeOK, RunType, Last
<1>2. run[r].seen \in 0 .. Last
  BY <1>1, BoundsAssumption DEF RunOK, RunType
<1>3. ActiveAt(run[r].seen) \in 0 .. MaxEvents
  BY <1>1, <1>2, ActiveInLedger, BoundsAssumption
<1>4. run[r].pc # "idle"
  BY DEF Judged
<1>5. QED
  BY <1>1, <1>3, <1>4 DEF RunOK, RunType, Judgment, Candidates

LEMMA Initial == Init => Inv
<1>1. ASSUME Init PROVE Inv
  <2>1. Ended("none") \in RunType
    BY BoundsAssumption DEF Ended, RunType, Steps, Answers
  <2>2. events = <<>> /\ Last = 0 /\ candidates = {}
    BY <1>1 DEF Init, Last
  <2>3. run = [r \in Runs |-> Ended("none")]
    BY <1>1 DEF Init
  <2>4. TypeOK
    BY <2>1, <2>2, <2>3, BoundsAssumption DEF TypeOK, RunType
  <2>5. Backward
    BY <2>2 DEF Backward
  <2>6. \A r \in Runs : RunOK(r)
    BY <2>2, <2>3 DEF RunOK, Ended, Judged
  <2>7. QED
    BY <2>4, <2>5, <2>6 DEF Inv
<1>2. QED
  BY <1>1

LEMMA Stepping ==
    ASSUME Inv, NEW r \in Runs, Act(r)
    PROVE  Inv'
<1>1. /\ run \in [Runs -> RunType] /\ RunOK(r) /\ candidates \subseteq Candidates
      /\ Last \in Nat /\ Last <= MaxEvents /\ Last \in 0 .. Last
      /\ events \in Seq(Events)
  BY DEF Inv, TypeOK, RunType, Last
<1>2. ASSUME NEW s \in Scans, Begin(r, s) PROVE Inv'
  <2>1. PICK rescan \in {FALSE, Tiled(s)} :
            run' = [run EXCEPT ![r] =
                      [pc |-> IF rescan THEN "evaluate" ELSE "snapshot", scan |-> s,
                       seen |-> IF rescan THEN Last ELSE 0, rescan |-> rescan,
                       score |-> 0, answer |-> "none"]]
    BY <1>2 DEF Begin
  <2>2. rescan \in BOOLEAN
    BY <2>1 DEF Tiled
  <2>3. run'[r] = [pc |-> IF rescan THEN "evaluate" ELSE "snapshot", scan |-> s,
                   seen |-> IF rescan THEN Last ELSE 0, rescan |-> rescan,
                   score |-> 0, answer |-> "none"]
    BY <1>1, <2>1
  <2>4. run'[r] \in RunType
    BY <1>1, <2>2, <2>3, BoundsAssumption DEF RunType, Steps, Answers
  <2>5. run' \in [Runs -> RunType] /\ \A q \in Runs \ {r} : run'[q] = run[q]
    BY <1>1, <2>1, <2>4
  <2>6. run'[r].pc \notin Judged /\ run'[r].seen <= Last
    BY <1>1, <2>3 DEF Judged
  <2>7. candidates' \subseteq Candidates /\ UNCHANGED events
    BY <1>1, <1>2 DEF Begin
  <2>8. QED
    BY <2>3, <2>5, <2>6, <2>7, Working
<1>3. CASE Snapshot(r)
  <2>1. run' \in [Runs -> RunType] /\ \A q \in Runs \ {r} : run'[q] = run[q]
    <3>1. run[r] \in RunType /\ "evaluate" \in Steps /\ Last \in 0 .. MaxEvents
      BY <1>1, BoundsAssumption DEF Steps
    <3>2. [run[r] EXCEPT !.pc = "evaluate", !.seen = Last] \in RunType
      BY <3>1 DEF RunType
    <3>3. QED
      BY <1>1, <1>3, <3>2 DEF Snapshot
  <2>2. /\ run'[r].pc = "evaluate" /\ run'[r].seen = Last
        /\ run'[r].scan = run[r].scan /\ run'[r].answer = run[r].answer
    BY <1>1, <1>3 DEF Snapshot, RunType
  <2>3. candidates' \subseteq Candidates /\ UNCHANGED events
    BY <1>1, <1>3 DEF Snapshot
  <2>4. QED
    BY <1>1, <1>3, <2>1, <2>2, <2>3, Working DEF Snapshot, RunOK, Judged
<1>4. ASSUME NEW v \in Scores, NEW step \in {"apply", "store"}, run[r].pc = "evaluate",
             run' = [run EXCEPT ![r] = [@ EXCEPT !.pc = step, !.score = v]],
             UNCHANGED <<candidates, events>>
      PROVE  Inv'
  <2>1. run' \in [Runs -> RunType] /\ \A q \in Runs \ {r} : run'[q] = run[q]
    BY <1>1, <1>4 DEF RunType, Steps
  <2>2. /\ run'[r].pc = step /\ run'[r].seen = run[r].seen /\ run'[r].score = v
        /\ run'[r].scan = run[r].scan /\ run'[r].answer = run[r].answer
    BY <1>1, <1>4 DEF RunType
  <2>3. candidates' \subseteq Candidates /\ UNCHANGED events
    BY <1>1, <1>4
  <2>4. QED
    BY <1>1, <1>4, <2>1, <2>2, <2>3, Working DEF RunOK
<1>5. CASE Reuse(r)
  <2>1. PICK c \in SamePlan(r) : run' = [run EXCEPT ![r] = [@ EXCEPT !.pc = "apply", !.score = c.score]]
    BY <1>5 DEF Reuse
  <2>2. c.score \in Scores
    BY <1>1, <2>1 DEF SamePlan, Candidates
  <2>3. QED
    BY <1>4, <1>5, <2>1, <2>2 DEF Reuse
<1>6. CASE Judge(r)
  BY <1>4, <1>6 DEF Judge
<1>7. CASE Incomplete(r)
  BY <1>1, <1>7, Going DEF Incomplete, Steps, Judged
<1>8. CASE NoScore(r)
  BY <1>1, <1>8, Going, Ending DEF NoScore, Steps, Judged, Answers
<1>9. CASE Store(r)
  <2>1. Judgment(r) \in Candidates /\ run[r].score \in Scores
    BY <1>1, <1>9, JudgmentOK DEF Store, Judged, RunOK
  <2>2. candidates' \subseteq Candidates /\ UNCHANGED events
    BY <1>1, <1>9, <2>1 DEF Store
  <2>3. QED
    BY <1>9, <2>1, <2>2, Going DEF Store, Steps
<1>10. CASE StoreFails(r)
  BY <1>1, <1>10, Going, Ending DEF StoreFails, Steps, Judged, Answers
<1>11. CASE Unsigned(r)
  BY <1>1, <1>11, Ending DEF Unsigned, Answers
<1>12. ASSUME Succeed(r), run[r].pc \in Judged, UNCHANGED <<candidates, events>> PROVE Inv'
  <2>1. run' \in [Runs -> RunType] /\ \A q \in Runs \ {r} : run'[q] = run[q]
    <3>1. PICK a \in Answers :
              run' = [run EXCEPT ![r] = [@ EXCEPT !.pc = "idle", !.answer = a]]
      BY <1>12 DEF Succeed, Answers
    <3>2. run[r] \in RunType /\ "idle" \in Steps
      BY <1>1 DEF Steps
    <3>3. [run[r] EXCEPT !.pc = "idle", !.answer = a] \in RunType
      BY <3>2 DEF RunType
    <3>4. QED
      BY <1>1, <3>1, <3>3
  <2>2. /\ run'[r].pc = "idle" /\ run'[r].seen = run[r].seen
    BY <1>1, <1>12 DEF Succeed, RunType
  <2>3. candidates' \subseteq Candidates /\ UNCHANGED events
    BY <1>1, <1>12
  <2>4. QED
    BY <1>1, <2>1, <2>2, <2>3, Working DEF RunOK, Judged
<1>13. CASE ApplyCandidate(r)
  BY <1>1, <1>12, <1>13, Going, Failing
     DEF ApplyCandidate, Answers, Steps, Judged, RunOK
<1>14. CASE Adopt(r)
  <2>1. Judgment(r) \in Candidates /\ run[r].score \in Scores /\ run[r].pc # "idle"
    BY <1>1, <1>14, JudgmentOK DEF Adopt, Judged, RunOK
  <2>2. Active \in 0 .. Last
    BY <1>1, ActiveInLedger DEF Active
  <2>3. PICK e : /\ e = [kind |-> IF Last = 0 THEN "adopt" ELSE "supersede", scan |-> run[r].scan,
                         on |-> Judgment(r).on, rescan |-> run[r].rescan, score |-> run[r].score,
                         parent |-> Active]
                 /\ Record(e)
    BY <1>14 DEF Adopt
  <2>4. /\ Judgment(r).on \in 0 .. MaxEvents /\ run[r].scan \in Scans
        /\ run[r].rescan \in BOOLEAN
    BY <2>1 DEF Judgment, Candidates
  <2>5. e \in Events
    BY <1>1, <2>1, <2>2, <2>3, <2>4, BoundsAssumption DEF Events
  <2>6. e.parent <= Last /\ e.kind # "reopen"
    BY <1>1, <2>2, <2>3
  <2>7. QED
    BY <1>14, <2>1, <2>3, <2>5, <2>6, Recording DEF Adopt, Steps
<1>15. CASE AdoptEnds(r)
  BY <1>1, <1>15, Going DEF AdoptEnds, Steps, Judged, RunOK
<1>16. CASE AdoptStale(r)
  BY <1>16, Failing DEF AdoptStale, Answers
<1>17. CASE ReadBack(r)
  BY <1>12, <1>17, Failing DEF ReadBack, Answers, Judged
<1>18. CASE ApplyReview(r)
  BY <1>1, <1>18, Going, Ending DEF ApplyReview, Answers, Steps, Judged
<1>19. CASE Reopen(r)
  <2>1. run[r].pc # "idle" /\ run[r].scan \in Scans
    BY <1>1, <1>19 DEF Reopen, RunOK
  <2>2. Active \in 0 .. Last /\ Active # 0
    BY <1>1, <1>19, ActiveInLedger DEF Active, Reopen
  <2>3. PICK e : /\ e = [kind |-> "reopen", scan |-> run[r].scan, on |-> Active, rescan |-> FALSE,
                         score |-> 0, parent |-> Active]
                 /\ Record(e)
    BY <1>19 DEF Reopen
  <2>4. e \in Events
    BY <1>1, <2>1, <2>2, <2>3, BoundsAssumption DEF Events
  <2>5. e.parent <= Last /\ e.parent # 0
    BY <1>1, <2>2, <2>3
  <2>6. QED
    BY <1>19, <2>1, <2>3, <2>4, <2>5, Recording DEF Reopen, Steps, Judged
<1>20. CASE ReopenEnds(r)
  BY <1>1, <1>20, Going DEF ReopenEnds, Steps, Judged
<1>21. CASE ReviewReadBack(r)
  BY <1>21, Ending DEF ReviewReadBack, Answers
<1>22. CASE Retain(r)
  BY <1>22, Ending DEF Retain, Answers
<1>23. CASE ReadFails(r)
  BY <1>23, Failing DEF ReadFails, Answers
<1>24. CASE Crash(r)
  BY <1>24, Ending DEF Crash, Answers
<1>25. QED
  BY <1>2, <1>3, <1>5, <1>6, <1>7, <1>8, <1>9, <1>10, <1>11, <1>13, <1>14, <1>15, <1>16,
     <1>17, <1>18, <1>19, <1>20, <1>21, <1>22, <1>23, <1>24 DEF Act

LEMMA Stuttering == Inv /\ UNCHANGED vars => Inv'
BY DEF vars, Inv, TypeOK, Backward, RunOK, Last

(* Every variable keeps its type, for any brand, runs and bounds. *)
THEOREM TypeCorrect == Spec => []TypeOK
<1>1. Inv /\ [Next]_vars => Inv'
  BY Stepping, Stuttering DEF Next
<1>2. Inv => TypeOK
  BY DEF Inv
<1>3. QED
  BY Initial, <1>1, <1>2, PTL DEF Spec

-----------------------------------------------------------------------------
(* The answers *)

Successes == {"authority_established", "authority_advanced"}

(* A step that gives no success as an answer leaves the answers true. *)
LEMMA OthersTold ==
    ASSUME Inv, AnswerTrue, NEW r \in Runs,
           Last' \in Nat, Last <= Last', \A i \in 1 .. Last : events'[i] = events[i],
           \A q \in Runs \ {r} : run'[q] = run[q],
           run'[r].answer \notin Successes
    PROVE  AnswerTrue'
<1>1. SUFFICES ASSUME NEW q \in Runs, NEW kind \in {"adopt", "supersede"},
                      run[q].answer \in Successes, q # r, Accepted(q, kind)
               PROVE  Accepted(q, kind)'
  BY DEF AnswerTrue, Successes
<1>2. run[q].seen \in 0 .. Last /\ Last \in Nat
  BY BoundsAssumption DEF Inv, TypeOK, RunOK, Last
<1>3. run'[q] = run[q]
  BY <1>1
<1>4. Judgment(q)' = Judgment(q)
  BY <1>2, <1>3 DEF Judgment, ActiveAt
<1>5. PICK i \in 1 .. Last : events[i].kind = kind /\ Accepts(events[i], Judgment(q))
  BY <1>1 DEF Accepted
<1>6. i \in 1 .. Last' /\ events'[i] = events[i]
  BY <1>2, <1>5
<1>7. QED
  BY <1>4, <1>5, <1>6 DEF Accepted, Accepts

(* A success is the judgment that the run finds accepted. *)
LEMMA OwnTold ==
    ASSUME Inv, AnswerTrue, NEW r \in Runs, Succeed(r), IsAccepted(Judgment(r)),
           UNCHANGED events
    PROVE  AnswerTrue'
<1>1. run \in [Runs -> RunType] /\ Last \in Nat /\ Last' = Last
  BY DEF Inv, TypeOK, RunType, Last
<1>2. Active \in 1 .. Last
  BY <1>1, ActiveInLedger DEF IsAccepted, Active
<1>3. /\ \A q \in Runs \ {r} : run'[q] = run[q]
      /\ run'[r].scan = run[r].scan /\ run'[r].seen = run[r].seen
      /\ run'[r].rescan = run[r].rescan /\ run'[r].score = run[r].score
  BY <1>1 DEF Succeed, RunType
<1>4. ASSUME NEW q \in Runs PROVE Judgment(q)' = Judgment(q)
  <2>1. CASE q = r
    BY <1>3, <2>1 DEF Judgment, ActiveAt
  <2>2. CASE q # r
    <3>1. run'[q] = run[q]
      BY <1>3, <2>2
    <3>2. QED
      BY <3>1 DEF Judgment, ActiveAt
  <2>3. QED
    BY <2>1, <2>2
<1>5. run'[r].answer = IF events[Active].kind = "adopt"
                       THEN "authority_established" ELSE "authority_advanced"
  BY <1>1 DEF Succeed, RunType
<1>6. Accepts(events[Active], Judgment(r))
  BY DEF IsAccepted
<1>7. ASSUME NEW q \in Runs, NEW kind \in {"adopt", "supersede"},
             IF q = r THEN events[Active].kind = kind ELSE Accepted(q, kind)
      PROVE  Accepted(q, kind)'
  <2>1. PICK i \in 1 .. Last : events[i].kind = kind /\ Accepts(events[i], Judgment(q))
    BY <1>2, <1>6, <1>7 DEF Accepted
  <2>2. QED
    BY <1>1, <1>4, <2>1 DEF Accepted, Accepts
<1>8. events[Active].kind \in {"adopt", "supersede"}
  BY <1>6 DEF Accepts
<1>9. ASSUME NEW q \in Runs, q # r
      PROVE  /\ run'[q].answer = "authority_established" => Accepted(q, "adopt")'
             /\ run'[q].answer = "authority_advanced" => Accepted(q, "supersede")'
  <2>1. run'[q] = run[q]
    BY <1>3, <1>9
  <2>2. QED
    BY <1>7, <1>9, <2>1 DEF AnswerTrue
<1>10. /\ run'[r].answer = "authority_established" => Accepted(r, "adopt")'
       /\ run'[r].answer = "authority_advanced" => Accepted(r, "supersede")'
  BY <1>5, <1>7, <1>8
<1>11. QED
  BY <1>9, <1>10 DEF AnswerTrue

LEMMA Telling ==
    ASSUME Inv, AnswerTrue, NEW r \in Runs, Act(r)
    PROVE  AnswerTrue'
<1>1. run \in [Runs -> RunType] /\ RunOK(r) /\ Last \in Nat /\ events \in Seq(Events)
  BY DEF Inv, TypeOK, RunType, Last
<1>2. ASSUME NEW m, run' = [run EXCEPT ![r] = m], m.answer \notin Successes, UNCHANGED events
      PROVE  AnswerTrue'
  <2>1. Last' = Last /\ run'[r] = m /\ \A q \in Runs \ {r} : run'[q] = run[q]
    BY <1>1, <1>2 DEF Last
  <2>2. QED
    BY <1>1, <1>2, <2>1, OthersTold
<1>3. ASSUME NEW a \in Answers \ Successes, Answer(r, a), UNCHANGED events
      PROVE  AnswerTrue'
  <2>1. Ended(a).answer \notin Successes
    BY <1>3 DEF Ended
  <2>2. QED
    BY <1>2, <1>3, <2>1 DEF Answer
<1>4. ASSUME NEW a \in Answers \ Successes, Fail(r, a), UNCHANGED events
      PROVE  AnswerTrue'
  BY <1>3, <1>4 DEF Fail, Answers, Successes
<1>5. ASSUME run[r].pc # "idle" PROVE run[r].answer \notin Successes
  BY <1>1, <1>5 DEF RunOK, Successes
<1>6. ASSUME NEW step, Go(r, step), run[r].pc # "idle", UNCHANGED events
      PROVE  AnswerTrue'
  <2>1. run'[r].answer = run[r].answer /\ \A q \in Runs \ {r} : run'[q] = run[q]
    BY <1>1, <1>6 DEF Go, RunType
  <2>2. Last' = Last
    BY <1>6 DEF Last
  <2>3. QED
    BY <1>1, <1>5, <1>6, <2>1, <2>2, OthersTold
<1>7. ASSUME NEW step, Go(r, step), run[r].pc # "idle", NEW e, Record(e)
      PROVE  AnswerTrue'
  <2>1. run'[r].answer = run[r].answer /\ \A q \in Runs \ {r} : run'[q] = run[q]
    BY <1>1, <1>7 DEF Go, RunType
  <2>2. Last' = Last + 1 /\ \A i \in 1 .. Last : events'[i] = events[i]
    BY <1>1, <1>7 DEF Record, Last
  <2>3. QED
    BY <1>1, <1>5, <1>7, <2>1, <2>2, OthersTold
<1>8. CASE \E s \in Scans : Begin(r, s)
  <2>1. PICK s \in Scans : Begin(r, s)
    BY <1>8
  <2>2. PICK rescan \in {FALSE, Tiled(s)} :
            run' = [run EXCEPT ![r] =
                      [pc |-> IF rescan THEN "evaluate" ELSE "snapshot", scan |-> s,
                       seen |-> IF rescan THEN Last ELSE 0, rescan |-> rescan,
                       score |-> 0, answer |-> "none"]]
    BY <2>1 DEF Begin
  <2>3. QED
    BY <1>2, <2>1, <2>2 DEF Begin, Successes
<1>9. CASE Snapshot(r)
  <2>1. [run[r] EXCEPT !.pc = "evaluate", !.seen = Last].answer = run[r].answer
    BY <1>1 DEF RunType
  <2>2. QED
    BY <1>2, <1>5, <1>9, <2>1 DEF Snapshot
<1>10. CASE Reuse(r)
  <2>1. PICK c \in SamePlan(r) :
            run' = [run EXCEPT ![r] = [@ EXCEPT !.pc = "apply", !.score = c.score]]
    BY <1>10 DEF Reuse
  <2>2. [run[r] EXCEPT !.pc = "apply", !.score = c.score].answer = run[r].answer
    BY <1>1 DEF RunType
  <2>3. QED
    BY <1>2, <1>5, <1>10, <2>1, <2>2 DEF Reuse
<1>11. CASE Judge(r)
  <2>1. PICK v \in Scores :
            run' = [run EXCEPT ![r] = [@ EXCEPT !.pc = "store", !.score = v]]
    BY <1>11 DEF Judge
  <2>2. [run[r] EXCEPT !.pc = "store", !.score = v].answer = run[r].answer
    BY <1>1 DEF RunType
  <2>3. QED
    BY <1>2, <1>5, <1>11, <2>1, <2>2 DEF Judge
<1>12. CASE Incomplete(r) \/ Store(r) \/ AdoptEnds(r) \/ ReopenEnds(r)
  BY <1>6, <1>12 DEF Incomplete, Store, AdoptEnds, ReopenEnds
<1>13. CASE NoScore(r) \/ StoreFails(r)
  BY <1>3, <1>6, <1>13 DEF NoScore, StoreFails, Answers, Successes
<1>14. CASE Unsigned(r) \/ ReviewReadBack(r) \/ Retain(r) \/ Crash(r)
  BY <1>3, <1>14 DEF Unsigned, ReviewReadBack, Retain, Crash, Answers, Successes
<1>15. CASE AdoptStale(r) \/ ReadFails(r)
  BY <1>4, <1>15 DEF AdoptStale, ReadFails, Answers, Successes
<1>16. CASE ApplyCandidate(r) \/ ReadBack(r)
  BY <1>4, <1>6, <1>16, OwnTold DEF ApplyCandidate, ReadBack, Answers, Successes
<1>17. CASE ApplyReview(r)
  BY <1>3, <1>6, <1>17 DEF ApplyReview, Answers, Successes
<1>18. CASE Adopt(r) \/ Reopen(r)
  BY <1>7, <1>18 DEF Adopt, Reopen
<1>19. QED
  BY <1>8, <1>9, <1>10, <1>11, <1>12, <1>13, <1>14, <1>15, <1>16, <1>17, <1>18 DEF Act

(* A run that answers that it established or advanced the authority has its *)
(* own judgment accepted, whatever its adoption raised.                     *)
THEOREM AnswersAreTrue == Spec => []AnswerTrue
<1>1. Init => AnswerTrue
  BY DEF Init, AnswerTrue, Ended
<1>2. IInv /\ [Next]_vars => IInv'
  <2>1. ASSUME IInv, UNCHANGED vars PROVE AnswerTrue'
    BY <2>1 DEF IInv, vars, AnswerTrue, Accepted, Judgment, ActiveAt, Accepts, Last
  <2>2. QED
    BY <2>1, Stepping, Stuttering, Telling DEF IInv, Next
<1>3. IInv => AnswerTrue
  BY DEF IInv
<1>4. QED
  BY Initial, <1>1, <1>2, <1>3, PTL DEF Spec, IInv

-----------------------------------------------------------------------------
(* The refinement *)

basisBar == IF Active = 0 THEN 0 ELSE events[Active].on

(* The ledger of a step that appends nothing is the abstract one unchanged. *)
LEMMA Unmoved == UNCHANGED events => UNCHANGED <<Active, basisBar, ReviewScan>>
BY DEF Active, ActiveAt, basisBar, ReviewScan, Last

LEMMA Refining ==
    ASSUME Inv, NEW r \in Runs, Act(r)
    PROVE  P!Next \/ UNCHANGED <<Active, basisBar, ReviewScan>>
<1>1. /\ run \in [Runs -> RunType] /\ RunOK(r) /\ Last \in Nat
      /\ events \in Seq(Events)
  BY DEF Inv, TypeOK, RunType, Last
<1>2. Active \in 0 .. Last /\ (Last # 0 => Active # 0)
  BY <1>1, ActiveInLedger DEF Active
<1>3. CASE Adopt(r)
  <2>1. PICK e : /\ e = [kind |-> IF Last = 0 THEN "adopt" ELSE "supersede", scan |-> run[r].scan,
                         on |-> Judgment(r).on, rescan |-> run[r].rescan, score |-> run[r].score,
                         parent |-> Active]
                 /\ Record(e)
    BY <1>3 DEF Adopt
  <2>2. Last' = Last + 1 /\ events'[Last + 1] = e
    BY <1>1, <2>1 DEF Record, Last
  <2>3. e.kind # "reopen" /\ e.on = Active
    BY <1>3, <2>1 DEF Adopt, Judgment, Active
  <2>4. Active' = Last + 1 /\ ReviewScan' = 0 /\ basisBar' = Active
    BY <1>1, <2>2, <2>3 DEF Active, ActiveAt, ReviewScan, basisBar
  <2>5. run[r].scan \in Scans /\ (ReviewScan = 0 \/ run[r].scan > ReviewScan)
    BY <1>1, <1>3 DEF Adopt, RunOK, NewerThanReview
  <2>6. P!Accept(run[r].scan)
    BY <1>1, <1>2, <2>4, <2>5 DEF P!Accept, basisBar
  <2>7. QED
    BY <2>5, <2>6 DEF P!Next
<1>4. CASE Reopen(r)
  <2>1. PICK e : /\ e = [kind |-> "reopen", scan |-> run[r].scan, on |-> Active, rescan |-> FALSE,
                         score |-> 0, parent |-> Active]
                 /\ Record(e)
    BY <1>4 DEF Reopen
  <2>2. /\ Last' = Last + 1 /\ events'[Last + 1] = e
        /\ \A i \in 1 .. Last : events'[i] = events[i]
    BY <1>1, <2>1 DEF Record, Last
  <2>3. Active # 0
    BY <1>2, <1>4 DEF Reopen
  <2>4. Active' = Active /\ ReviewScan' = run[r].scan
    BY <1>1, <2>1, <2>2 DEF Active, ActiveAt, ReviewScan
  <2>5. basisBar' = basisBar
    BY <1>1, <1>2, <2>2, <2>3, <2>4 DEF basisBar
  <2>6. run[r].scan \in Scans
    BY <1>1, <1>4 DEF Reopen, RunOK
  <2>7. P!Review(run[r].scan)
    BY <2>3, <2>4, <2>5 DEF P!Review, basisBar
  <2>8. QED
    BY <2>6, <2>7 DEF P!Next
<1>5. CASE UNCHANGED events
  BY <1>5, Unmoved
<1>6. QED
  BY <1>3, <1>4, <1>5
     DEF Act, Begin, Snapshot, Reuse, Judge, Incomplete, NoScore, Store, StoreFails, Unsigned,
         ApplyCandidate, AdoptEnds, AdoptStale, ReadBack, ApplyReview, ReopenEnds,
         ReviewReadBack, Retain, ReadFails, Crash

(* The ledger keeps the promise: what is accepted was judged against what    *)
(* was accepted until then, and no scan ends the review of a newer one.      *)
THEOREM Implements == Spec => ImplementsPromise
<1>1. Init => P!Init
  BY DEF Init, P!Init, Active, ActiveAt, ReviewScan, Last
<1>2. Inv /\ [Next]_vars => [P!Next]_(P!vars)
  <2>1. ASSUME UNCHANGED vars PROVE UNCHANGED <<Active, basisBar, ReviewScan>>
    BY <2>1, Unmoved DEF vars
  <2>2. QED
    BY <2>1, Refining DEF Next, P!vars, basisBar
<1>3. Inv /\ [Next]_vars => Inv'
  BY Stepping, Stuttering DEF Next
<1>4. QED
  BY Initial, <1>1, <1>2, <1>3, PTL DEF Spec, ImplementsPromise, P!Spec

-----------------------------------------------------------------------------
(* The line of the accepted judgments *)

(* An adoption is of a judgment made against the one accepted before it, and *)
(* what is accepted later is never older than the adoption.                  *)
Line ==
    \A i \in 1 .. Last : IsAdoption(i) =>
        /\ events[i].on < i
        /\ \A j \in i .. Last : ActiveAt(j) >= i
        /\ \A j \in i + 1 .. Last : IsAdoption(j) => events[j].on >= i

(* An event that keeps the line is made against what is accepted, and leaves *)
(* it accepted when it only reopens it.                                      *)
LEMMA LineGrows ==
    ASSUME Inv, Line, NEW e \in Events, Record(e),
           e.kind \in {"adopt", "supersede"} => e.on = Active,
           e.kind = "reopen" => e.parent = Active
    PROVE  Line'
<1> PICK n : n = Last + 1
  OBVIOUS
<1>1. /\ events \in Seq(Events) /\ Last \in Nat /\ n \in Nat \ {0} /\ Last' = n
      /\ events'[n] = e /\ \A i \in 1 .. Last : events'[i] = events[i]
  BY Grown DEF Inv, TypeOK
<1>2. \A i \in 1 .. Last : events[i] \in Events /\ (IsAdoption(i)' <=> IsAdoption(i))
  BY <1>1 DEF IsAdoption, Last
<1>3. \A j \in 0 .. Last : ActiveAt(j)' = ActiveAt(j)
  BY <1>1 DEF ActiveAt
<1>4. Active \in 0 .. Last /\ Active = ActiveAt(Last)
  BY <1>1, ActiveInLedger DEF Active
<1>5. ActiveAt(n)' = IF e.kind = "reopen" THEN Active ELSE n
  BY <1>1 DEF ActiveAt
<1>6. IsAdoption(n)' => e.on = Active
  BY <1>1 DEF IsAdoption
<1>7. SUFFICES ASSUME NEW i \in 1 .. n, IsAdoption(i)'
               PROVE  /\ events'[i].on < i
                      /\ \A j \in i .. n : ActiveAt(j)' >= i
                      /\ \A j \in i + 1 .. n : IsAdoption(j)' => events'[j].on >= i
  BY <1>1 DEF Line
<1>8. CASE i = n
  <2>1. e.kind # "reopen"
    BY <1>1, <1>7, <1>8 DEF IsAdoption
  <2>2. ActiveAt(n)' = n
    BY <1>5, <2>1
  <2>3. events'[n].on = Active
    BY <1>1, <1>6, <1>7, <1>8
  <2>4. QED
    BY <1>1, <1>4, <1>8, <2>2, <2>3
<1>9. CASE i \in 1 .. Last
  <2>1. /\ events[i].on < i /\ \A j \in i .. Last : ActiveAt(j) >= i
        /\ \A j \in i + 1 .. Last : IsAdoption(j) => events[j].on >= i
    BY <1>2, <1>7, <1>9 DEF Line
  <2>2. Active >= i
    BY <1>1, <1>4, <1>9, <2>1
  <2>3. ASSUME NEW j \in i .. n PROVE ActiveAt(j)' >= i
    <3>1. CASE j = n
      BY <1>1, <1>4, <1>5, <1>9, <2>2, <3>1
    <3>2. CASE j \in i .. Last
      BY <1>1, <1>3, <1>9, <2>1, <3>2
    <3>3. QED
      BY <1>1, <3>1, <3>2
  <2>4. ASSUME NEW j \in i + 1 .. n, IsAdoption(j)' PROVE events'[j].on >= i
    <3>1. CASE j = n
      BY <1>1, <1>6, <2>2, <2>4, <3>1
    <3>2. CASE j \in i + 1 .. Last
      BY <1>1, <1>2, <1>9, <2>1, <2>4, <3>2
    <3>3. QED
      BY <1>1, <3>1, <3>2
  <2>5. QED
    BY <1>1, <1>9, <2>1, <2>3, <2>4
<1>10. QED
  BY <1>1, <1>8, <1>9

(* Every step of a run keeps the line. *)
LEMMA Lining ==
    ASSUME Inv, Line, NEW r \in Runs, Act(r)
    PROVE  Line'
<1>1. run \in [Runs -> RunType] /\ RunOK(r) /\ Last \in Nat /\ Last <= MaxEvents
  BY DEF Inv, TypeOK, RunType, Last
<1>2. Active \in 0 .. Last
  BY <1>1, ActiveInLedger DEF Active
<1>3. CASE Adopt(r)
  <2>1. PICK e : /\ e = [kind |-> IF Last = 0 THEN "adopt" ELSE "supersede", scan |-> run[r].scan,
                         on |-> Judgment(r).on, rescan |-> run[r].rescan, score |-> run[r].score,
                         parent |-> Active]
                 /\ Record(e)
    BY <1>3 DEF Adopt
  <2>2. e.kind \in {"adopt", "supersede"} /\ e.on = Active
    BY <1>3, <2>1 DEF Adopt, Judgment, Active
  <2>3. Judgment(r) \in Candidates
    BY <1>3, JudgmentOK DEF Adopt, Judged
  <2>4. e \in Events
    BY <1>1, <1>2, <2>1, <2>3, BoundsAssumption DEF Judgment, Candidates, Events
  <2>5. QED
    BY <2>1, <2>2, <2>4, LineGrows
<1>4. CASE Reopen(r)
  <2>1. PICK e : /\ e = [kind |-> "reopen", scan |-> run[r].scan, on |-> Active, rescan |-> FALSE,
                         score |-> 0, parent |-> Active]
                 /\ Record(e)
    BY <1>4 DEF Reopen
  <2>2. run[r].scan \in Scans
    BY <1>1, <1>4 DEF Reopen, RunOK
  <2>3. e \in Events
    BY <1>1, <1>2, <2>1, <2>2, BoundsAssumption DEF Events
  <2>4. QED
    BY <2>1, <2>3, LineGrows
<1>5. CASE UNCHANGED events
  BY <1>5 DEF Line, Last, IsAdoption, ActiveAt
<1>6. QED
  BY <1>3, <1>4, <1>5
     DEF Act, Begin, Snapshot, Reuse, Judge, Incomplete, NoScore, Store, StoreFails, Unsigned,
         ApplyCandidate, AdoptEnds, AdoptStale, ReadBack, ApplyReview, ReopenEnds,
         ReviewReadBack, Retain, ReadFails, Crash

(* However many runs judge at once, no two accepted judgments were made       *)
(* against the same one.                                                     *)
THEOREM OneLine == Spec => []NeverForks
<1>1. Init => Line
  BY DEF Init, Line, Last
<1>2. Inv /\ Line /\ [Next]_vars => Inv' /\ Line'
  <2>1. ASSUME Line, UNCHANGED vars PROVE Line'
    BY <2>1 DEF vars, Line, Last, IsAdoption, ActiveAt
  <2>2. QED
    BY <2>1, Stepping, Stuttering, Lining DEF Next
<1>3. Inv /\ Line => NeverForks
  <2>1. ASSUME Inv, Line, NEW i \in 1 .. Last, NEW j \in 1 .. Last,
               IsAdoption(i), IsAdoption(j), i < j
        PROVE  events[i].on # events[j].on
    <3>1. Last \in Nat /\ events[i] \in Events
      BY <2>1 DEF Inv, TypeOK, Last
    <3>2. events[i].on \in Nat
      BY <3>1, BoundsAssumption DEF Events
    <3>3. j \in i + 1 .. Last
      BY <2>1, <3>1
    <3>4. events[i].on < i /\ events[j].on >= i
      BY <2>1, <3>3 DEF Line
    <3>5. QED
      BY <2>1, <3>2, <3>4
  <2>2. ASSUME Inv, Line, NEW i \in 1 .. Last, NEW j \in 1 .. Last,
               IsAdoption(i), IsAdoption(j), events[i].on = events[j].on
        PROVE  i = j
    <3>1. ~(i < j) /\ ~(j < i)
      BY <2>1, <2>2
    <3>2. QED
      BY <2>2, <3>1 DEF Inv, TypeOK, Last
  <2>3. QED
    BY <2>2 DEF NeverForks
<1>4. QED
  BY Initial, <1>1, <1>2, <1>3, PTL DEF Spec

(* Two runs that are told of a success against the same accepted judgment,   *)
(* or against none, stand for one and the same judgment: nobody is told of   *)
(* an advance in place of which another was accepted.                        *)
THEOREM OneSuccess ==
    Spec => [](\A q, r \in Runs :
                   /\ run[q].answer \in Successes /\ run[r].answer \in Successes
                   /\ Judgment(q).on = Judgment(r).on
                   => Judgment(q) = Judgment(r))
<1>1. ASSUME AnswerTrue, NeverForks, NEW q \in Runs, NEW r \in Runs,
             run[q].answer \in Successes, run[r].answer \in Successes,
             Judgment(q).on = Judgment(r).on
      PROVE  Judgment(q) = Judgment(r)
  <2>1. PICK i \in 1 .. Last : IsAdoption(i) /\ Accepts(events[i], Judgment(q))
    BY <1>1 DEF AnswerTrue, Accepted, Successes, IsAdoption
  <2>2. PICK j \in 1 .. Last : IsAdoption(j) /\ Accepts(events[j], Judgment(r))
    BY <1>1 DEF AnswerTrue, Accepted, Successes, IsAdoption
  <2>3. i = j
    BY <1>1, <2>1, <2>2 DEF NeverForks, Accepts
  <2>4. QED
    BY <2>1, <2>2, <2>3 DEF Accepts, Judgment
<1>2. AnswerTrue /\ NeverForks =>
        \A q, r \in Runs :
            /\ run[q].answer \in Successes /\ run[r].answer \in Successes
            /\ Judgment(q).on = Judgment(r).on
            => Judgment(q) = Judgment(r)
  BY <1>1
<1>3. QED
  BY <1>2, AnswersAreTrue, OneLine, PTL
=============================================================================
