------------------------- MODULE ResumeActions_proofs -------------------------
(***************************************************************************)
(* What holds of the exact resumes of a scan for any number of keys,       *)
(* whatever fails and however often the process is restarted.              *)
(***************************************************************************)
EXTENDS ResumeActions, TLAPS

States == {"none"} \cup Active \cup Final
Names == {"none", "current", "successor", "source"}
Outcomes == {"completed", "failed"}

\* What the thread is about to report is in the store.
Stands(k) ==
  \/ named[k] = "current" /\ current # "none"
  \/ named[k] = "successor" /\ k \in successors
  \/ named[k] = "source"

Reported == \A k \in Keys : outcome[k] = "completed" => Stands(k)

\* Until the ordinary run has published, no resume has had its turn.
Fresh == ordinary = "running" => current = "none" /\ \A k \in Keys : outcome[k] = "failed"

\* A completed action has nothing left to do.
Closed == \A k \in Keys : state[k] = "completed" => pc[k] = "over" /\ outcome[k] = "completed"

IInv == TypeOK /\ OneWriter /\ Reported /\ Fresh /\ Closed

USE DEF Go, Told, Say, Fails, Completes, At, Move, thread, reports

-----------------------------------------------------------------------------
(* The rows *)

\* A transition of a row keeps the rows well typed.
LEMMA MoveTyped ==
  ASSUME TypeOK, NEW k \in Keys, NEW from, NEW to \in States, Move(k, from, to)
  PROVE  state' \in [Keys -> States]
  BY DEF TypeOK, States

\* A transition out of an active state makes no second row active.
LEMMA MoveActive ==
  ASSUME TypeOK, OneActive, NEW k \in Keys, NEW from \in Active, NEW to \in States,
         Move(k, from, to)
  PROVE  OneActive'
  BY DEF TypeOK, OneActive, Active, Final, States

\* Two actions of the scan are never active together.
LEMMA StepActive == TypeOK /\ OneActive /\ [Next]_vars => OneActive'
<1> SUFFICES ASSUME TypeOK, OneActive, [Next]_vars PROVE OneActive'
  OBVIOUS
<1>1. ASSUME NEW k \in Keys, Request(k) PROVE OneActive'
  BY <1>1 DEF Request, Reserve, Free, TypeOK, OneActive, Active, Final
<1>2. ASSUME NEW k \in Keys, Work(k) PROVE OneActive'
  <2>1. CASE Launch(k)
    BY <2>1, MoveActive DEF Launch, Active, States, OneActive
  <2>2. CASE Unstarted(k)
    BY <2>2, MoveActive DEF Unstarted, Active, Final, States, OneActive
  <2>3. CASE Finish(k)
    <3>1. outcome[k] \in States
      BY DEF TypeOK, States, Final
    <3> QED
      BY <2>3, <3>1, MoveActive DEF Finish, Active, OneActive
  <2>4. CASE Refinish(k)
    BY <2>4, MoveActive DEF Refinish, Active, Final, States, OneActive
  <2>5. CASE \/ StartThread(k) \/ Acquire(k) \/ Prepare(k) \/ Authority(k) \/ Publish(k)
             \/ NoScore(k) \/ Release(k)
    BY <2>5 DEF StartThread, Acquire, Prepare, Authority, Publish, NoScore, Release, OneActive
  <2> QED
    BY <1>2, <2>1, <2>2, <2>3, <2>4, <2>5 DEF Work
<1>3. CASE OrdinaryPublishes \/ OrdinaryLeaves \/ Crash \/ UNCHANGED vars
  BY <1>3 DEF OrdinaryPublishes, OrdinaryLeaves, Crash, OneActive, vars
<1>4. CASE Recover
  BY <1>4 DEF Recover, Interrupted, TypeOK, OneActive, Active, Final
<1> QED
  BY <1>1, <1>2, <1>3, <1>4 DEF Next

-----------------------------------------------------------------------------
(* The inductive invariant *)

\* The inductive invariant holds at the start.
LEMMA InitInv == Init => IInv
  BY ResumeAssumption
     DEF Init, IInv, TypeOK, OneWriter, Owning, Reported, Fresh, Closed, Reports, Steps

\* Every step keeps every variable in its domain.
LEMMA StepTyped == IInv /\ [Next]_vars => TypeOK'
<1> SUFFICES ASSUME TypeOK, [Next]_vars PROVE TypeOK'
  BY DEF IInv
<1>1. ASSUME NEW k \in Keys, Request(k) PROVE TypeOK'
  BY <1>1 DEF Request, Reserve, TypeOK, Steps, Active
<1>2. ASSUME NEW k \in Keys, Work(k) PROVE TypeOK'
  <2>1. CASE Launch(k)
    BY <2>1 DEF Launch, TypeOK, Steps, Active
  <2>2. CASE StartThread(k) \/ Unstarted(k)
    BY <2>2 DEF StartThread, Unstarted, TypeOK, Steps, Active, Final
  <2>3. CASE Acquire(k) \/ Prepare(k) \/ Authority(k)
    BY <2>3 DEF Acquire, Prepare, Authority, TypeOK, Steps
  <2>4. CASE Publish(k) \/ NoScore(k)
    BY <2>4 DEF Publish, NoScore, TypeOK, Steps, Reports
  <2>5. CASE Release(k)
    BY <2>5 DEF Release, TypeOK, Steps
  <2>6. CASE Finish(k) \/ Refinish(k)
    BY <2>6 DEF Finish, Refinish, TypeOK, Steps, Active, Final
  <2> QED
    BY <1>2, <2>1, <2>2, <2>3, <2>4, <2>5, <2>6 DEF Work
<1>3. CASE OrdinaryPublishes \/ OrdinaryLeaves \/ Crash \/ UNCHANGED vars
  BY <1>3 DEF OrdinaryPublishes, OrdinaryLeaves, Crash, TypeOK, Steps, vars
<1>4. CASE Recover
  BY <1>4 DEF Recover, Interrupted, TypeOK, Active, Final
<1> QED
  BY <1>1, <1>2, <1>3, <1>4 DEF Next

\* Only the owner's own Release and the end of the process give a scan away.
LEMMA StepWriter == IInv /\ [Next]_vars => OneWriter'
<1> SUFFICES ASSUME TypeOK, OneWriter, [Next]_vars PROVE OneWriter'
  BY DEF IInv
<1>0. \A k \in Keys : k # "none" /\ k # "ordinary"
  BY ResumeAssumption
<1>1. ASSUME NEW k \in Keys, Request(k) PROVE OneWriter'
  BY <1>1 DEF Request, TypeOK, OneWriter, Owning
<1>2. ASSUME NEW k \in Keys, Work(k) PROVE OneWriter'
  <2>1. CASE \/ Launch(k) \/ StartThread(k) \/ Unstarted(k) \/ Finish(k) \/ Refinish(k)
    BY <2>1 DEF Launch, StartThread, Unstarted, Finish, Refinish, TypeOK, OneWriter, Owning
  <2>2. CASE Acquire(k)
    BY <1>0, <2>2 DEF Acquire, TypeOK, OneWriter, Owning
  <2>3. CASE Prepare(k) \/ Authority(k) \/ Publish(k) \/ NoScore(k)
    BY <2>3 DEF Prepare, Authority, Publish, NoScore, TypeOK, OneWriter, Owning
  <2>4. CASE Release(k)
    BY <1>0, <2>4 DEF Release, TypeOK, OneWriter, Owning
  <2> QED
    BY <1>2, <2>1, <2>2, <2>3, <2>4 DEF Work
<1>3. CASE OrdinaryPublishes
  BY <1>3 DEF OrdinaryPublishes, OneWriter, Owning
<1>4. CASE OrdinaryLeaves
  BY <1>0, <1>4 DEF OrdinaryLeaves, OneWriter, Owning
<1>5. CASE Crash
  BY <1>5 DEF Crash, TypeOK, OneWriter, Owning
<1>6. CASE Recover \/ UNCHANGED vars
  BY <1>6 DEF Recover, OneWriter, Owning, vars
<1> QED
  BY <1>1, <1>2, <1>3, <1>4, <1>5, <1>6 DEF Next

\* The scan's report never changes once it is there.
LEMMA StepKept == IInv /\ [Next]_vars => (current # "none" => current' = current)
  BY DEF IInv, Fresh, Next, Work, Request, Launch, StartThread, Unstarted, Acquire, Prepare,
         Authority, Publish, NoScore, Release, Finish, Refinish, OrdinaryPublishes,
         OrdinaryLeaves, Crash, Recover, vars

\* Every step keeps what threads are about to report in the store.
LEMMA StepReported == IInv /\ [Next]_vars => Reported'
<1> SUFFICES ASSUME IInv, [Next]_vars PROVE Reported'
  OBVIOUS
<1> USE DEF IInv
<1>0. (current # "none" => current' # "none") /\ successors \subseteq successors'
  BY StepKept DEF Next, Work, Request, Launch, StartThread, Unstarted, Acquire, Prepare,
         Authority, Publish, NoScore, Release, Finish, Refinish, OrdinaryPublishes,
         OrdinaryLeaves, Crash, Recover, vars
<1>1. CASE UNCHANGED <<outcome, named>>
  BY <1>0, <1>1 DEF Reported, Stands
<1>2. ASSUME NEW k \in Keys, Say(k, "failed", "none") PROVE Reported'
  BY <1>0, <1>2 DEF TypeOK, Reported, Stands
<1>3. ASSUME NEW k \in Keys, NEW r \in Names, Say(k, "completed", r),
             \/ r = "current" /\ current' # "none"
             \/ r = "successor" /\ k \in successors'
             \/ r = "source"
      PROVE  Reported'
  BY <1>0, <1>3 DEF TypeOK, Reported, Stands, Names
<1>4. ASSUME NEW k \in Keys, Work(k) PROVE Reported'
  <2>1. CASE \/ Launch(k) \/ StartThread(k) \/ Unstarted(k) \/ Release(k) \/ Finish(k)
             \/ Refinish(k)
    BY <2>1, <1>1 DEF Launch, StartThread, Unstarted, Release, Finish, Refinish
  <2>2. CASE Acquire(k)
    BY <2>2, <1>1, <1>2 DEF Acquire
  <2>3. CASE Prepare(k)
    BY <2>3, <1>1, <1>2, <1>3 DEF Prepare, Names
  <2>4. CASE Authority(k)
    BY <2>4, <1>1, <1>2, <1>3 DEF Authority, Names
  <2>5. CASE Publish(k)
    BY <2>5, <1>2, <1>3 DEF Publish, Names
  <2>6. CASE NoScore(k)
    BY <2>6, <1>2, <1>3 DEF NoScore, Names
  <2> QED
    BY <1>4, <2>1, <2>2, <2>3, <2>4, <2>5, <2>6 DEF Work
<1> QED
  BY <1>1, <1>4 DEF Next, Request, OrdinaryPublishes, OrdinaryLeaves, Crash, Recover, vars

\* While the ordinary run works, no resume reports anything.
LEMMA StepFresh == IInv /\ [Next]_vars => Fresh'
<1> SUFFICES ASSUME IInv, [Next]_vars, ordinary' = "running"
             PROVE  current' = "none" /\ \A k \in Keys : outcome'[k] = "failed"
  BY DEF Fresh
<1> USE DEF IInv
<1>1. ordinary = "running" /\ owner = "ordinary"
  BY DEF OneWriter, Next, Work, Request, Launch, StartThread, Unstarted, Acquire, Prepare,
         Authority, Publish, NoScore, Release, Finish, Refinish, OrdinaryPublishes,
         OrdinaryLeaves, Crash, Recover, vars
<1>2. \A k \in Keys : ~Owning(k)
  BY <1>1, ResumeAssumption DEF OneWriter
<1>3. ASSUME NEW k \in Keys, Work(k) PROVE current' = "none" /\ \A j \in Keys : outcome'[j] = "failed"
  <2>1. CASE \/ Launch(k) \/ StartThread(k) \/ Unstarted(k) \/ Finish(k) \/ Refinish(k)
    BY <2>1, <1>1 DEF Launch, StartThread, Unstarted, Finish, Refinish, Fresh
  <2>2. CASE Acquire(k)
    BY <2>2, <1>1 DEF Acquire, Fresh, TypeOK
  <2>3. CASE Prepare(k) \/ Authority(k) \/ Publish(k) \/ NoScore(k) \/ Release(k)
    BY <2>3, <1>2 DEF Prepare, Authority, Publish, NoScore, Release, Owning
  <2> QED
    BY <1>3, <2>1, <2>2, <2>3 DEF Work
<1> QED
  BY <1>1, <1>3 DEF Next, Request, OrdinaryPublishes, OrdinaryLeaves, Crash, Recover, vars, Fresh

\* A row becomes completed with the last step of its thread.
LEMMA StepClosed == IInv /\ [Next]_vars => Closed'
<1> SUFFICES ASSUME IInv, [Next]_vars PROVE Closed'
  OBVIOUS
<1> USE DEF IInv
<1>1. ASSUME NEW k \in Keys, Request(k) PROVE Closed'
  BY <1>1 DEF Request, Reserve, TypeOK, Closed
<1>2. ASSUME NEW k \in Keys, Work(k) PROVE Closed'
  <2>1. CASE Launch(k) \/ Unstarted(k) \/ Refinish(k)
    BY <2>1 DEF Launch, Unstarted, Refinish, TypeOK, Closed
  <2>2. CASE Finish(k)
    BY <2>2 DEF Finish, TypeOK, Closed
  <2>3. CASE \/ StartThread(k) \/ Acquire(k) \/ Prepare(k) \/ Authority(k) \/ Publish(k)
             \/ NoScore(k) \/ Release(k)
    BY <2>3 DEF StartThread, Acquire, Prepare, Authority, Publish, NoScore, Release, TypeOK, Closed
  <2> QED
    BY <1>2, <2>1, <2>2, <2>3 DEF Work
<1>3. CASE OrdinaryPublishes \/ OrdinaryLeaves \/ UNCHANGED vars
  BY <1>3 DEF OrdinaryPublishes, OrdinaryLeaves, Closed, vars
<1>4. CASE Crash
  BY <1>4 DEF Crash, TypeOK, Closed
<1>5. CASE Recover
  BY <1>5 DEF Recover, Interrupted, TypeOK, Closed
<1> QED
  BY <1>1, <1>2, <1>3, <1>4, <1>5 DEF Next

\* The inductive invariant is inductive.
LEMMA StepInv == IInv /\ [Next]_vars => IInv'
  BY StepTyped, StepWriter, StepReported, StepFresh, StepClosed DEF IInv

\* It holds of every behaviour.
LEMMA Invariant == Spec => []IInv
  BY InitInv, StepInv, PTL DEF Spec

-----------------------------------------------------------------------------
(* What fails while the stores answer *)

\* While the stores answer, an action with a successor is past its publication
\* and is going to say that it completed.
Published ==
  ~faults => \A k \in successors :
    outcome[k] = "completed" /\ state[k] # "failed" /\ pc[k] \in {"release", "finish", "over"}

\* The row of a thread that is still at work says so, and the process is up.
Live ==
  \A k \in Keys :
    /\ pc[k] \notin {"idle", "over"} => up
    /\ pc[k] = "launch" => state[k] = "accepted"
    /\ pc[k] \notin {"idle", "launch", "over"} => state[k] = "running"

\* Only the thread itself moves its row on from running.
LEMMA StepLive == TypeOK /\ Live /\ [Next]_vars => Live'
<1> SUFFICES ASSUME TypeOK, Live, [Next]_vars PROVE Live'
  OBVIOUS
<1>1. ASSUME NEW k \in Keys, Request(k) PROVE Live'
  BY <1>1 DEF Request, Reserve, TypeOK, Live
<1>2. ASSUME NEW k \in Keys, Work(k) PROVE Live'
  <2>1. CASE Launch(k)
    BY <2>1 DEF Launch, TypeOK, Live
  <2>2. CASE Unstarted(k) \/ Finish(k) \/ Refinish(k)
    BY <2>2 DEF Unstarted, Finish, Refinish, TypeOK, Live
  <2>3. CASE \/ StartThread(k) \/ Acquire(k) \/ Prepare(k) \/ Authority(k) \/ Publish(k)
             \/ NoScore(k) \/ Release(k)
    BY <2>3 DEF StartThread, Acquire, Prepare, Authority, Publish, NoScore, Release, TypeOK, Live
  <2> QED
    BY <1>2, <2>1, <2>2, <2>3 DEF Work
<1>3. CASE OrdinaryPublishes \/ OrdinaryLeaves \/ Crash \/ UNCHANGED vars
  BY <1>3 DEF OrdinaryPublishes, OrdinaryLeaves, Crash, TypeOK, Live, vars
<1>4. CASE Recover
  <2>1. \A k \in Keys : pc'[k] = pc[k] /\ pc[k] \in {"idle", "over"}
    BY <1>4 DEF Recover, Live
  <2> QED
    BY <2>1 DEF Live
<1> QED
  BY <1>1, <1>2, <1>3, <1>4 DEF Next

\* Nothing takes a published action back to a step that could fail it.
LEMMA StepPublished == TypeOK /\ Live /\ Published /\ [Next]_vars => Published'
<1> SUFFICES ASSUME TypeOK, Live, Published, [Next]_vars PROVE Published'
  OBVIOUS
<1>0. successors \subseteq Keys
  BY DEF TypeOK
<1>1. ASSUME NEW k \in Keys, Request(k) PROVE Published'
  BY <1>0, <1>1 DEF Request, Reserve, TypeOK, Published
<1>2. ASSUME NEW k \in Keys, Work(k) PROVE Published'
  <2>1. CASE Launch(k) \/ StartThread(k) \/ Unstarted(k) \/ Refinish(k)
    BY <1>0, <2>1 DEF Launch, StartThread, Unstarted, Refinish, TypeOK, Published
  <2>2. CASE Acquire(k) \/ Prepare(k) \/ Authority(k) \/ NoScore(k)
    BY <1>0, <2>2 DEF Acquire, Prepare, Authority, NoScore, TypeOK, Published
  <2>3. CASE Publish(k)
    BY <1>0, <2>3 DEF Publish, TypeOK, Live, Published
  <2>4. CASE Release(k) \/ Finish(k)
    BY <1>0, <2>4 DEF Release, Finish, TypeOK, Published
  <2> QED
    BY <1>2, <2>1, <2>2, <2>3, <2>4 DEF Work
<1>3. CASE OrdinaryPublishes \/ OrdinaryLeaves \/ Crash \/ UNCHANGED vars
  BY <1>0, <1>3 DEF OrdinaryPublishes, OrdinaryLeaves, Crash, TypeOK, Published, vars
<1>4. CASE Recover
  BY <1>0, <1>4 DEF Recover, Interrupted, TypeOK, Published
<1> QED
  BY <1>1, <1>2, <1>3, <1>4 DEF Next

-----------------------------------------------------------------------------
(* Nothing left behind *)

\* Every way out of the thread, the ordinary run and the process gives the
\* scan back.
LEMMA StepOwner == TypeOK /\ OwnerAttended /\ [Next]_vars => OwnerAttended'
<1> SUFFICES ASSUME TypeOK, OwnerAttended, [Next]_vars PROVE OwnerAttended'
  OBVIOUS
<1>0. "none" \notin Keys /\ "ordinary" \notin Keys
  BY ResumeAssumption
<1>1. ASSUME NEW k \in Keys, Request(k) PROVE OwnerAttended'
  BY <1>1 DEF Request, TypeOK, OwnerAttended, Owning
<1>2. ASSUME NEW k \in Keys, Work(k) PROVE OwnerAttended'
  <2>1. CASE \/ Launch(k) \/ StartThread(k) \/ Unstarted(k) \/ Finish(k) \/ Refinish(k)
    BY <2>1 DEF Launch, StartThread, Unstarted, Finish, Refinish, TypeOK, OwnerAttended, Owning
  <2>2. CASE Acquire(k)
    BY <1>0, <2>2 DEF Acquire, TypeOK, OwnerAttended, Owning
  <2>3. CASE Prepare(k) \/ Authority(k) \/ Publish(k) \/ NoScore(k)
    BY <2>3 DEF Prepare, Authority, Publish, NoScore, TypeOK, OwnerAttended, Owning
  <2>4. CASE Release(k)
    BY <1>0, <2>4 DEF Release, TypeOK, OwnerAttended, Owning
  <2> QED
    BY <1>2, <2>1, <2>2, <2>3, <2>4 DEF Work
<1>3. CASE OrdinaryPublishes
  BY <1>3 DEF OrdinaryPublishes, OwnerAttended, Owning
<1>4. CASE OrdinaryLeaves \/ Crash
  BY <1>0, <1>4 DEF OrdinaryLeaves, Crash, OwnerAttended
<1>5. CASE Recover \/ UNCHANGED vars
  BY <1>5 DEF Recover, OwnerAttended, Owning, vars
<1> QED
  BY <1>1, <1>2, <1>3, <1>4, <1>5 DEF Next

\* While the stores answer, no request or thread takes a way out that leaves
\* its row as it is.
Answered == \A k \in Keys : ~faults => pc[k] \notin {"unstarted", "refinish"}

LEMMA StepAnswered == TypeOK /\ Answered /\ [Next]_vars => Answered'
<1> SUFFICES ASSUME TypeOK, Answered, [Next]_vars PROVE Answered'
  OBVIOUS
<1>1. ASSUME NEW k \in Keys, Request(k) PROVE Answered'
  BY <1>1 DEF Request, TypeOK, Answered
<1>2. ASSUME NEW k \in Keys, Work(k) PROVE Answered'
  <2>1. CASE Launch(k) \/ StartThread(k) \/ Unstarted(k) \/ Acquire(k) \/ Prepare(k)
    BY <2>1 DEF Launch, StartThread, Unstarted, Acquire, Prepare, TypeOK, Answered
  <2>2. CASE Authority(k) \/ Publish(k) \/ NoScore(k) \/ Release(k)
    BY <2>2 DEF Authority, Publish, NoScore, Release, TypeOK, Answered
  <2>3. CASE Finish(k) \/ Refinish(k)
    BY <2>3 DEF Finish, Refinish, TypeOK, Answered
  <2> QED
    BY <1>2, <2>1, <2>2, <2>3 DEF Work
<1>3. CASE OrdinaryPublishes \/ OrdinaryLeaves \/ Crash \/ Recover \/ UNCHANGED vars
  BY <1>3 DEF OrdinaryPublishes, OrdinaryLeaves, Crash, Recover, TypeOK, Answered, vars
<1> QED
  BY <1>1, <1>2, <1>3 DEF Next

\* A row is left active only by a crash, and the recovery ends it.
LEMMA StepAttended ==
  TypeOK /\ Live /\ Answered /\ ActionAttended /\ [Next]_vars => ActionAttended'
<1> SUFFICES ASSUME TypeOK, Live, Answered, ActionAttended, [Next]_vars,
                    NEW j \in Keys, ~faults', up', state'[j] \in Active
             PROVE  pc'[j] \notin {"idle", "over"}
  BY DEF ActionAttended
<1>0. ~faults
  BY DEF Next, Work, Request, Launch, StartThread, Unstarted, Acquire, Prepare, Authority,
         Publish, NoScore, Release, Finish, Refinish, OrdinaryPublishes, OrdinaryLeaves,
         Crash, Recover, vars
<1>1. up /\ state[j] \in Active => pc[j] \notin {"idle", "over"}
  BY <1>0 DEF ActionAttended
<1>2. CASE \E k \in Keys : Request(k)
  BY <1>1, <1>2 DEF Request, Reserve, TypeOK
<1>3. ASSUME NEW k \in Keys, Work(k) PROVE pc'[j] \notin {"idle", "over"}
  <2>1. CASE Launch(k) \/ StartThread(k) \/ Acquire(k)
    BY <1>0, <1>1, <2>1 DEF Launch, StartThread, Acquire, TypeOK, Live, Active
  <2>2. CASE Prepare(k) \/ Authority(k) \/ Publish(k) \/ NoScore(k) \/ Release(k)
    BY <1>1, <2>2 DEF Prepare, Authority, Publish, NoScore, Release, TypeOK
  <2>3. CASE Finish(k)
    BY <1>0, <1>1, <2>3 DEF Finish, TypeOK, Live, Active
  <2>4. CASE Unstarted(k) \/ Refinish(k)
    BY <1>0, <2>4 DEF Unstarted, Refinish, Answered
  <2> QED
    BY <1>3, <2>1, <2>2, <2>3, <2>4 DEF Work
<1>4. CASE OrdinaryPublishes \/ OrdinaryLeaves \/ Crash \/ UNCHANGED vars
  BY <1>1, <1>4 DEF OrdinaryPublishes, OrdinaryLeaves, Crash, vars
<1>5. CASE Recover
  BY <1>5 DEF Recover, Interrupted, TypeOK, Active
<1> QED
  BY <1>2, <1>3, <1>4, <1>5 DEF Next

-----------------------------------------------------------------------------
(* The theorems *)

\* Every variable keeps its type, for any number of keys.
THEOREM TypeCorrect == Spec => []TypeOK
<1>1. IInv => TypeOK
  BY DEF IInv
<1> QED
  BY <1>1, Invariant, PTL

\* The unique index and BEGIN IMMEDIATE leave at most one action active.
THEOREM ActiveAlone == Spec => []OneActive
<1>1. Init => OneActive
  BY DEF Init, OneActive, Active
<1> QED
  BY <1>1, StepActive, TypeCorrect, PTL DEF Spec

\* A completed action names a report that is in the store.
THEOREM CompletedHolds == Spec => []CompletedStands
<1>1. IInv => CompletedStands
  BY DEF IInv, Closed, Reported, Stands, CompletedStands
<1> QED
  BY <1>1, Invariant, PTL

\* No resume changes the report the scan already has.
THEOREM SourceStays == Spec => SourceKept
  BY Invariant, StepKept, PTL DEF Spec, SourceKept

\* While the stores answer, an action that says it failed published nothing.
THEOREM FailedUnpublished == Spec => []FailedPublishedNothing
<1>1. Init => Live /\ Published
  BY DEF Init, Live, Published
<1>2. Published => FailedPublishedNothing
  BY DEF Published, FailedPublishedNothing
<1> QED
  BY <1>1, <1>2, StepLive, StepPublished, TypeCorrect, PTL DEF Spec

\* The ordinary run and the resumes own the scan one at a time, and nothing
\* leaves it with an owner that is gone, whatever raises.
THEOREM OwnersAtWork == Spec => []OwnerWorks
<1>1. Init => OwnerAttended
  BY ResumeAssumption DEF Init, OwnerAttended
<1>2. IInv => OneWriter
  BY DEF IInv
<1>3. OneWriter /\ OwnerAttended => OwnerWorks
  BY DEF OwnerWorks
<1> QED
  BY <1>1, <1>2, <1>3, StepOwner, TypeCorrect, Invariant, PTL DEF Spec

\* While the stores answer, an active action is being worked on or the process
\* is down, and then the recovery ends it.
THEOREM ActionWorkedOn == Spec => []ActionAttended
<1>1. Init => Live /\ Answered /\ ActionAttended
  BY DEF Init, Live, Answered, ActionAttended, Active
<1> QED
  BY <1>1, StepLive, StepAnswered, StepAttended, TypeCorrect, PTL DEF Spec
=============================================================================
