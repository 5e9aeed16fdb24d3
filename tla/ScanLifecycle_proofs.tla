------------------------- MODULE ScanLifecycle_proofs -------------------------
(***************************************************************************)
(* What holds of a scan for any number of requests, in every mode, however *)
(* the persists, failures and restarts fall.                               *)
(***************************************************************************)
EXTENDS ScanLifecycle, TLAPS

Persisting == {"save", "recheck", "write", "note"}

\* The thread is at one of the steps, or will be once a persist is over.
Near(steps) == pc \in steps \/ (pc \in Persisting /\ then \in steps)

Ending == {"raised", "leave", "over"}

Flags == guard \in BOOLEAN /\ event \in BOOLEAN /\ activated \in BOOLEAN

\* Before the scan is registered nobody can have heard of it.
Unheard ==
  pc \in {"new", "reserved"} =>
    /\ status = "none" /\ snap = "none"
    /\ IF pc = "new" THEN job = "none" ELSE job = "accepted" /\ up
    /\ told = {} /\ report = "none" /\ ~activated
    /\ \A c \in Callers : call[c].op \in {"idle", "poll"}

\* What a persist goes on to, by the kind of persist.
Continues ==
  /\ pc \in {"created", "spawn", "undo"} => then \in {"refuse", "over"}
  /\ pc \in {"save", "recheck"} =>
       then \in {"capture", "gate", "check5", "evaluate", "scored", "check_sidecar",
                 "check4", "reporting", "publish"}
  /\ pc = "write" =>
       then \in {"capture", "gate", "check5", "evaluate", "scored", "check_sidecar",
                 "check4", "reporting", "publish", "check1", "wait", "check2", "leave"}
  /\ pc = "note" => then \in {"interpret", "check4", "leave"}

\* A scan that is over, or not there, has neither event nor guard.
Quiet == status \in Terminal \cup {"none"} => ~event /\ ~guard

\* Nor has one whose thread is leaving.
Leaving == pc # "raised" /\ Near({"leave", "over"}) => ~event /\ ~guard

\* A scan is done, failed or gone only at the end of its thread.
Finished ==
  /\ status \in {"done", "error"} => Near(Ending)
  /\ status = "none" => pc \in {"new", "reserved", "refuse", "over"}
  /\ pc = "refuse" => status = "none"

\* Where the guard is held, mode by mode.
Guarded ==
  /\ guard =>
       \/ mode = "authority"
          /\ Near({"activate", "activating", "apply", "interpreted", "scored",
                   "reporting", "publish", "raised"})
       \/ mode = "vault"
          /\ Near({"activate", "activating", "sidecar_failed", "record", "check4",
                   "reporting", "publish", "raised"})
  /\ pc = "activating" => guard

\* The steps that only one mode takes.
Modal ==
  /\ Near({"check_sidecar", "sidecar", "check_activate", "sidecar_failed", "record"})
       => mode = "vault"
  /\ Near({"check5", "execute", "check6", "enter", "apply"}) => mode = "authority"
  /\ Near({"activate", "activating"}) => mode # "legacy"

IInv ==
  TypeOK /\ Unheard /\ Continues /\ Quiet /\ Leaving /\ Finished /\ Guarded /\ Modal

-----------------------------------------------------------------------------
(* The steps of the thread, by what they do *)

PhaseStep ==
  \/ SetPhase("begin", "capture") \/ SetPhase("captured", "gate")
  \/ SetPhase("interpret", IF mode = "authority" THEN "check5" ELSE "evaluate")
  \/ SetPhase("interpreted", "scored") \/ SetPhase("reporting", "publish")
  \/ SetPhase("scored", CASE mode = "vault" -> "check_sidecar"
                          [] mode = "legacy" -> "check4"
                          [] OTHER -> "reporting")

CheckStep ==
  \/ Check("check1", "captured") \/ Wake
  \/ Check("check2", IF mode = "legacy" THEN "interpret" ELSE "prepare")
  \/ Check("check3", "interpreted") \/ Check("check4", "reporting")
  \/ Check("check5", "execute") \/ Check("check6", "enter")
  \/ Check("check_sidecar", "sidecar") \/ Check("check_activate", "activate")

WorkStep == Work("evaluate", "check3") \/ Work("execute", "check6") \/ Work("apply", "interpreted")

EnterStep == Enter("enter", "activate") \/ Enter("activate", "activating")

SidecarStep == Sidecar \/ SidecarFailed \/ Record

\* Every step of the thread is one of these kinds.
LEMMA RunSteps ==
  Run => \/ PhaseStep \/ CheckStep \/ WorkStep \/ EnterStep \/ SidecarStep
         \/ Capture \/ SetGate \/ Wait \/ Prepare \/ Activate \/ Publish
         \/ Persist \/ Recheck \/ Raised \/ Leave
  BY DEF Run, PhaseStep, CheckStep, WorkStep, EnterStep, SidecarStep

USE DEF At, Copy, Go, Raise, memory, thread, stores

\* Starting a scan keeps every variable in its domain.
LEMMA StartTypeOK == IInv /\ Start => TypeOK'
<1> SUFFICES ASSUME IInv, Start PROVE TypeOK'
  OBVIOUS
<1> USE DEF IInv, TypeOK, Steps, Terminal, Interruptible, States, JobStates, Upsert
<1>1. CASE Reserve
  BY <1>1 DEF Reserve
<1>2. CASE Register
  BY <1>2 DEF Register
<1>3. CASE FirstPersist
  BY <1>3 DEF FirstPersist
<1>4. CASE Spawn
  BY <1>4 DEF Spawn
<1>5. CASE Undo
  <2>1. Flags'
    BY <1>5, Zenon DEF Flags, Undo
  <2> QED
    BY <1>5, <2>1 DEF Flags, Undo
<1>6. CASE Refuse
  BY <1>6 DEF Refuse
<1> QED
  BY <1>1, <1>2, <1>3, <1>4, <1>5, <1>6 DEF Start

\* So does every step of its thread.
LEMMA RunTypeOK == IInv /\ Run => TypeOK'
<1> SUFFICES ASSUME IInv, Run PROVE TypeOK'
  OBVIOUS
<1> USE DEF IInv, TypeOK, Steps, Terminal, Interruptible, States, JobStates, Upsert
<1>1. CASE PhaseStep
  BY <1>1 DEF PhaseStep, SetPhase
<1>2. CASE CheckStep
  <2>1. pc' \in Steps
    BY <1>2 DEF CheckStep, Check, Wake
  <2>2. UNCHANGED <<mode, faults, status, gate, event, woken, guard, call, told, up, dropped, then,
                    snap, stores>>
    BY <1>2 DEF CheckStep, Check, Wake
  <2> QED
    BY <2>1, <2>2
<1>3. CASE WorkStep
  <2>1. pc' \in Steps
    BY <1>3 DEF WorkStep, Work
  <2>2. UNCHANGED <<mode, faults, status, gate, event, woken, guard, call, told, up, dropped, then,
                    snap, stores>>
    BY <1>3 DEF WorkStep, Work
  <2> QED
    BY <2>1, <2>2
<1>4. CASE EnterStep
  <2>1. guard' \in BOOLEAN
    BY <1>4, Zenon DEF EnterStep, Enter
  <2>2. pc' \in Steps
    BY <1>4 DEF EnterStep, Enter
  <2>3. UNCHANGED <<mode, faults, status, gate, event, woken, call, told, up, dropped, then, snap,
                    stores>>
    BY <1>4 DEF EnterStep, Enter
  <2> QED
    BY <2>1, <2>2, <2>3
<1>5. CASE SidecarStep
  <2>1. guard' \in BOOLEAN
    BY <1>5, Zenon DEF SidecarStep, Sidecar, SidecarFailed, Record
  <2>2. pc' \in Steps /\ then' \in Steps /\ snap' \in States
    BY <1>5 DEF SidecarStep, Sidecar, SidecarFailed, Record
  <2>3. UNCHANGED <<mode, faults, status, gate, event, woken, call, told, up, dropped, stores>>
    BY <1>5 DEF SidecarStep, Sidecar, SidecarFailed, Record
  <2> QED
    BY <2>1, <2>2, <2>3
<1>6. CASE Capture
  BY <1>6 DEF Capture
<1>7. CASE SetGate
  BY <1>7 DEF SetGate
<1>8. CASE Wait
  BY <1>8 DEF Wait
<1>9. CASE Prepare
  BY <1>9 DEF Prepare
<1>10. CASE Activate
  <2>1. Flags'
    BY <1>10, Zenon DEF Flags, Activate
  <2> QED
    BY <1>10, <2>1 DEF Flags, Activate
<1>11. CASE Publish
  <2>1. Flags'
    BY <1>11, Zenon DEF Flags, Publish, Complete
  <2> QED
    BY <1>11, <2>1 DEF Flags, Publish, Complete
<1>12. CASE Persist
  BY <1>12 DEF Persist
<1>13. CASE Recheck
  BY <1>13 DEF Recheck
<1>14. CASE Raised
  <2>1. Flags'
    BY <1>14, Zenon DEF Flags, Raised
  <2> QED
    BY <1>14, <2>1 DEF Flags, Raised
<1>15. CASE Leave
  BY <1>15 DEF Leave
<1> QED
  BY <1>1, <1>2, <1>3, <1>4, <1>5, <1>6, <1>7, <1>8, <1>9, <1>10, <1>11, <1>12, <1>13,
     <1>14, <1>15, RunSteps

\* Nobody hears of a scan while it is being reserved.
LEMMA StartUnheard == IInv /\ Start => Unheard'
<1> SUFFICES ASSUME IInv, Start PROVE Unheard'
  OBVIOUS
<1> USE DEF IInv, Unheard, TypeOK, Continues, Upsert, Terminal
<1>1. CASE Reserve
  BY <1>1 DEF Reserve
<1>2. CASE Register
  BY <1>2 DEF Register
<1>3. CASE FirstPersist
  BY <1>3 DEF FirstPersist
<1>4. CASE Spawn
  BY <1>4 DEF Spawn
<1>5. CASE Undo
  BY <1>5 DEF Undo
<1>6. CASE Refuse
  BY <1>6 DEF Refuse
<1> QED
  BY <1>1, <1>2, <1>3, <1>4, <1>5, <1>6 DEF Start

\* A running thread never goes back to the reservation.
LEMMA RunUnheard == IInv /\ Run => Unheard'
<1> SUFFICES ASSUME IInv, Run PROVE Unheard'
  OBVIOUS
<1> USE DEF IInv, Unheard, TypeOK, Continues, Upsert, Terminal
<1>1. CASE PhaseStep
  BY <1>1 DEF PhaseStep, SetPhase
<1>2. CASE CheckStep
  BY <1>2 DEF CheckStep, Check, Wake
<1>3. CASE WorkStep
  BY <1>3 DEF WorkStep, Work
<1>4. CASE EnterStep
  BY <1>4 DEF EnterStep, Enter
<1>5. CASE SidecarStep
  BY <1>5 DEF SidecarStep, Sidecar, SidecarFailed, Record
<1>6. CASE Capture
  BY <1>6 DEF Capture
<1>7. CASE SetGate
  BY <1>7 DEF SetGate
<1>8. CASE Wait
  BY <1>8 DEF Wait
<1>9. CASE Prepare
  BY <1>9 DEF Prepare
<1>10. CASE Activate
  BY <1>10 DEF Activate
<1>11. CASE Publish
  BY <1>11 DEF Publish, Complete
<1>12. CASE Persist
  BY <1>12 DEF Persist
<1>13. CASE Recheck
  BY <1>13 DEF Recheck
<1>14. CASE Raised
  BY <1>14 DEF Raised
<1>15. CASE Leave
  BY <1>15 DEF Leave
<1> QED
  BY <1>1, <1>2, <1>3, <1>4, <1>5, <1>6, <1>7, <1>8, <1>9, <1>10, <1>11, <1>12, <1>13,
     <1>14, <1>15, RunSteps

\* Starting a scan continues as its caller asked.
LEMMA StartContinues == IInv /\ Start => Continues'
<1> SUFFICES ASSUME IInv, Start PROVE Continues'
  OBVIOUS
<1> USE DEF IInv, Continues
<1>1. CASE Reserve
  BY <1>1 DEF Reserve
<1>2. CASE Register
  BY <1>2 DEF Register
<1>3. CASE FirstPersist
  BY <1>3 DEF FirstPersist
<1>4. CASE Spawn
  BY <1>4 DEF Spawn
<1>5. CASE Undo
  BY <1>5 DEF Undo
<1>6. CASE Refuse
  BY <1>6 DEF Refuse
<1> QED
  BY <1>1, <1>2, <1>3, <1>4, <1>5, <1>6 DEF Start

\* Every persist of the thread continues at a step of its kind.
LEMMA RunContinues == IInv /\ Run => Continues'
<1> SUFFICES ASSUME IInv, Run PROVE Continues'
  OBVIOUS
<1> USE DEF IInv, Continues
<1>1. CASE PhaseStep
  BY <1>1 DEF PhaseStep, SetPhase
<1>2. CASE CheckStep
  BY <1>2 DEF CheckStep, Check, Wake
<1>3. CASE WorkStep
  BY <1>3 DEF WorkStep, Work
<1>4. CASE EnterStep
  BY <1>4 DEF EnterStep, Enter
<1>5. CASE SidecarStep
  BY <1>5 DEF SidecarStep, Sidecar, SidecarFailed, Record
<1>6. CASE Capture
  BY <1>6 DEF Capture
<1>7. CASE SetGate
  BY <1>7 DEF SetGate
<1>8. CASE Wait
  BY <1>8 DEF Wait
<1>9. CASE Prepare
  BY <1>9 DEF Prepare
<1>10. CASE Activate
  BY <1>10 DEF Activate
<1>11. CASE Publish
  BY <1>11 DEF Publish, Complete
<1>12. CASE Persist
  BY <1>12 DEF Persist
<1>13. CASE Recheck
  BY <1>13 DEF Recheck
<1>14. CASE Raised
  BY <1>14 DEF Raised
<1>15. CASE Leave
  BY <1>15 DEF Leave
<1> QED
  BY <1>1, <1>2, <1>3, <1>4, <1>5, <1>6, <1>7, <1>8, <1>9, <1>10, <1>11, <1>12, <1>13,
     <1>14, <1>15, RunSteps

\* Starting a scan leaves no event or guard without a scan.
LEMMA StartQuiet == IInv /\ Start => Quiet'
<1> SUFFICES ASSUME IInv, Start PROVE Quiet'
  OBVIOUS
<1> USE DEF IInv, Quiet, Terminal, Finished, Guarded, Near, Persisting
<1>1. CASE Reserve
  BY <1>1 DEF Reserve
<1>2. CASE Register
  BY <1>2 DEF Register
<1>3. CASE FirstPersist
  BY <1>3 DEF FirstPersist
<1>4. CASE Spawn
  BY <1>4 DEF Spawn
<1>5. CASE Undo
  BY <1>5 DEF Undo
<1>6. CASE Refuse
  BY <1>6 DEF Refuse
<1> QED
  BY <1>1, <1>2, <1>3, <1>4, <1>5, <1>6 DEF Start

\* No step of the thread ends the scan and keeps its event or guard.
LEMMA RunQuiet == IInv /\ Run => Quiet'
<1> SUFFICES ASSUME IInv, Run PROVE Quiet'
  OBVIOUS
<1> USE DEF IInv, Quiet, Terminal, Finished, Guarded, Near, Persisting
<1>1. CASE PhaseStep
  BY <1>1 DEF PhaseStep, SetPhase
<1>2. CASE CheckStep
  BY <1>2 DEF CheckStep, Check, Wake
<1>3. CASE WorkStep
  BY <1>3 DEF WorkStep, Work
<1>4. CASE EnterStep
  BY <1>4 DEF EnterStep, Enter
<1>5. CASE SidecarStep
  BY <1>5 DEF SidecarStep, Sidecar, SidecarFailed, Record
<1>6. CASE Capture
  BY <1>6 DEF Capture
<1>7. CASE SetGate
  BY <1>7 DEF SetGate
<1>8. CASE Wait
  BY <1>8 DEF Wait
<1>9. CASE Prepare
  BY <1>9 DEF Prepare
<1>10. CASE Activate
  BY <1>10 DEF Activate
<1>11. CASE Publish
  BY <1>11 DEF Publish, Complete
<1>12. CASE Persist
  BY <1>12 DEF Persist
<1>13. CASE Recheck
  BY <1>13 DEF Recheck
<1>14. CASE Raised
  BY <1>14 DEF Raised
<1>15. CASE Leave
  BY <1>15 DEF Leave
<1> QED
  BY <1>1, <1>2, <1>3, <1>4, <1>5, <1>6, <1>7, <1>8, <1>9, <1>10, <1>11, <1>12, <1>13,
     <1>14, <1>15, RunSteps

\* A start that is undone has dropped its event.
LEMMA StartLeaving == IInv /\ Start => Leaving'
<1> SUFFICES ASSUME IInv, Start PROVE Leaving'
  OBVIOUS
<1> USE DEF IInv, Leaving, Quiet, Finished, Guarded, Continues, Near, Persisting, Terminal
<1>1. CASE Reserve
  BY <1>1 DEF Reserve
<1>2. CASE Register
  BY <1>2 DEF Register
<1>3. CASE FirstPersist
  BY <1>3 DEF FirstPersist
<1>4. CASE Spawn
  BY <1>4 DEF Spawn
<1>5. CASE Undo
  BY <1>5 DEF Undo
<1>6. CASE Refuse
  BY <1>6 DEF Refuse
<1> QED
  BY <1>1, <1>2, <1>3, <1>4, <1>5, <1>6 DEF Start

\* The thread leaves only without event and guard.
LEMMA RunLeaving == IInv /\ Run => Leaving'
<1> SUFFICES ASSUME IInv, Run PROVE Leaving'
  OBVIOUS
<1> USE DEF IInv, Leaving, Quiet, Finished, Guarded, Continues, Near, Persisting, Terminal
<1>1. CASE PhaseStep
  BY <1>1 DEF PhaseStep, SetPhase
<1>2. CASE CheckStep
  BY <1>2 DEF CheckStep, Check, Wake
<1>3. CASE WorkStep
  BY <1>3 DEF WorkStep, Work
<1>4. CASE EnterStep
  BY <1>4 DEF EnterStep, Enter
<1>5. CASE SidecarStep
  BY <1>5 DEF SidecarStep, Sidecar, SidecarFailed, Record
<1>6. CASE Capture
  BY <1>6 DEF Capture
<1>7. CASE SetGate
  BY <1>7 DEF SetGate
<1>8. CASE Wait
  BY <1>8 DEF Wait
<1>9. CASE Prepare
  BY <1>9 DEF Prepare
<1>10. CASE Activate
  BY <1>10 DEF Activate
<1>11. CASE Publish
  BY <1>11 DEF Publish, Complete
<1>12. CASE Persist
  BY <1>12 DEF Persist
<1>13. CASE Recheck
  BY <1>13 DEF Recheck
<1>14. CASE Raised
  BY <1>14 DEF Raised
<1>15. CASE Leave
  BY <1>15 DEF Leave
<1> QED
  BY <1>1, <1>2, <1>3, <1>4, <1>5, <1>6, <1>7, <1>8, <1>9, <1>10, <1>11, <1>12, <1>13,
     <1>14, <1>15, RunSteps

\* A start that is undone has taken its scan away.
LEMMA StartFinished == IInv /\ Start => Finished'
<1> SUFFICES ASSUME IInv, Start PROVE Finished'
  OBVIOUS
<1> USE DEF IInv, Finished, Quiet, Continues, Near, Persisting, Ending, Terminal
<1>1. CASE Reserve
  BY <1>1 DEF Reserve
<1>2. CASE Register
  BY <1>2 DEF Register
<1>3. CASE FirstPersist
  BY <1>3 DEF FirstPersist
<1>4. CASE Spawn
  BY <1>4 DEF Spawn
<1>5. CASE Undo
  BY <1>5 DEF Undo
<1>6. CASE Refuse
  BY <1>6 DEF Refuse
<1> QED
  BY <1>1, <1>2, <1>3, <1>4, <1>5, <1>6 DEF Start

\* Only the last steps of the thread make a scan done or failed.
LEMMA RunFinished == IInv /\ Run => Finished'
<1> SUFFICES ASSUME IInv, Run PROVE Finished'
  OBVIOUS
<1> USE DEF IInv, Finished, Quiet, Continues, Near, Persisting, Ending, Terminal
<1>1. CASE PhaseStep
  BY <1>1 DEF PhaseStep, SetPhase
<1>2. CASE CheckStep
  BY <1>2 DEF CheckStep, Check, Wake
<1>3. CASE WorkStep
  BY <1>3 DEF WorkStep, Work
<1>4. CASE EnterStep
  BY <1>4 DEF EnterStep, Enter
<1>5. CASE SidecarStep
  BY <1>5 DEF SidecarStep, Sidecar, SidecarFailed, Record
<1>6. CASE Capture
  BY <1>6 DEF Capture
<1>7. CASE SetGate
  BY <1>7 DEF SetGate
<1>8. CASE Wait
  BY <1>8 DEF Wait
<1>9. CASE Prepare
  BY <1>9 DEF Prepare
<1>10. CASE Activate
  BY <1>10 DEF Activate
<1>11. CASE Publish
  BY <1>11 DEF Publish, Complete
<1>12. CASE Persist
  BY <1>12 DEF Persist
<1>13. CASE Recheck
  BY <1>13 DEF Recheck
<1>14. CASE Raised
  BY <1>14 DEF Raised
<1>15. CASE Leave
  BY <1>15 DEF Leave
<1> QED
  BY <1>1, <1>2, <1>3, <1>4, <1>5, <1>6, <1>7, <1>8, <1>9, <1>10, <1>11, <1>12, <1>13,
     <1>14, <1>15, RunSteps

\* Starting a scan takes no guard.
LEMMA StartGuarded == IInv /\ Start => Guarded'
<1> SUFFICES ASSUME IInv, Start PROVE Guarded'
  OBVIOUS
<1> USE DEF IInv, Guarded, Modal, Quiet, Continues, Near, Persisting, Terminal, TypeOK
<1>1. CASE Reserve
  BY <1>1 DEF Reserve
<1>2. CASE Register
  BY <1>2 DEF Register
<1>3. CASE FirstPersist
  BY <1>3 DEF FirstPersist
<1>4. CASE Spawn
  BY <1>4 DEF Spawn
<1>5. CASE Undo
  BY <1>5 DEF Undo
<1>6. CASE Refuse
  BY <1>6 DEF Refuse
<1> QED
  BY <1>1, <1>2, <1>3, <1>4, <1>5, <1>6 DEF Start

\* The guard is taken, kept and dropped at these steps only.
LEMMA RunGuarded == IInv /\ Run => Guarded'
<1> SUFFICES ASSUME IInv, Run PROVE Guarded'
  OBVIOUS
<1> USE DEF IInv, Guarded, Modal, Quiet, Continues, Near, Persisting, Terminal, TypeOK
<1>1. CASE PhaseStep
  BY <1>1 DEF PhaseStep, SetPhase
<1>2. CASE CheckStep
  BY <1>2 DEF CheckStep, Check, Wake
<1>3. CASE WorkStep
  BY <1>3 DEF WorkStep, Work
<1>4. CASE EnterStep
  BY <1>4 DEF EnterStep, Enter
<1>5. CASE SidecarStep
  BY <1>5 DEF SidecarStep, Sidecar, SidecarFailed, Record
<1>6. CASE Capture
  BY <1>6 DEF Capture
<1>7. CASE SetGate
  BY <1>7 DEF SetGate
<1>8. CASE Wait
  BY <1>8 DEF Wait
<1>9. CASE Prepare
  BY <1>9 DEF Prepare
<1>10. CASE Activate
  BY <1>10 DEF Activate
<1>11. CASE Publish
  BY <1>11 DEF Publish, Complete
<1>12. CASE Persist
  BY <1>12 DEF Persist
<1>13. CASE Recheck
  BY <1>13 DEF Recheck
<1>14. CASE Raised
  BY <1>14 DEF Raised
<1>15. CASE Leave
  BY <1>15 DEF Leave
<1> QED
  BY <1>1, <1>2, <1>3, <1>4, <1>5, <1>6, <1>7, <1>8, <1>9, <1>10, <1>11, <1>12, <1>13,
     <1>14, <1>15, RunSteps

\* Starting a scan takes no step of one mode.
LEMMA StartModal == IInv /\ Start => Modal'
<1> SUFFICES ASSUME IInv, Start PROVE Modal'
  OBVIOUS
<1> USE DEF IInv, Modal, Continues, Guarded, Near, Persisting, TypeOK
<1>1. CASE Reserve
  BY <1>1 DEF Reserve
<1>2. CASE Register
  BY <1>2 DEF Register
<1>3. CASE FirstPersist
  BY <1>3 DEF FirstPersist
<1>4. CASE Spawn
  BY <1>4 DEF Spawn
<1>5. CASE Undo
  BY <1>5 DEF Undo
<1>6. CASE Refuse
  BY <1>6 DEF Refuse
<1> QED
  BY <1>1, <1>2, <1>3, <1>4, <1>5, <1>6 DEF Start

\* The thread takes the steps of its own mode only.
LEMMA RunModal == IInv /\ Run => Modal'
<1> SUFFICES ASSUME IInv, Run PROVE Modal'
  OBVIOUS
<1> USE DEF IInv, Modal, Continues, Guarded, Near, Persisting, TypeOK
<1>1. CASE PhaseStep
  BY <1>1 DEF PhaseStep, SetPhase
<1>2. CASE CheckStep
  BY <1>2 DEF CheckStep, Check, Wake
<1>3. CASE WorkStep
  BY <1>3 DEF WorkStep, Work
<1>4. CASE EnterStep
  BY <1>4 DEF EnterStep, Enter
<1>5. CASE SidecarStep
  BY <1>5 DEF SidecarStep, Sidecar, SidecarFailed, Record
<1>6. CASE Capture
  BY <1>6 DEF Capture
<1>7. CASE SetGate
  BY <1>7 DEF SetGate
<1>8. CASE Wait
  BY <1>8 DEF Wait
<1>9. CASE Prepare
  BY <1>9 DEF Prepare
<1>10. CASE Activate
  BY <1>10 DEF Activate
<1>11. CASE Publish
  BY <1>11 DEF Publish, Complete
<1>12. CASE Persist
  BY <1>12 DEF Persist
<1>13. CASE Recheck
  BY <1>13 DEF Recheck
<1>14. CASE Raised
  BY <1>14 DEF Raised
<1>15. CASE Leave
  BY <1>15 DEF Leave
<1> QED
  BY <1>1, <1>2, <1>3, <1>4, <1>5, <1>6, <1>7, <1>8, <1>9, <1>10, <1>11, <1>12, <1>13,
     <1>14, <1>15, RunSteps

-----------------------------------------------------------------------------
(* The requests and the process *)

\* Moving a request on keeps the requests well typed.
LEMMA CallTyped ==
  ASSUME TypeOK, NEW c \in Callers, NEW o \in {"poll", "cancel_signal", "approve_signal"},
         call' = [call EXCEPT ![c].op = o]
  PROVE  call' \in [Callers -> Calls]
<1>1. call[c] \in Calls
  BY DEF TypeOK
<1>2. [call[c] EXCEPT !.op = o] \in Calls
  BY <1>1 DEF Calls
<1> QED
  BY <1>2 DEF TypeOK

\* Requests keep every variable in its domain.
LEMMA RequestTyped ==
  ASSUME IInv, NEW c \in Callers, Cancel(c) \/ Approve(c) \/ PollReport(c) \/ Proceed(c)
  PROVE  TypeOK'
<1> USE DEF IInv, Requests, Keeps, Answer, Terminal, States
<1>0. /\ Idle \in Calls
      /\ \A o \in {"cancel", "approve"}, e \in BOOLEAN : [op |-> o, event |-> e] \in Calls
  BY DEF Idle, Calls
<1>1. CASE Cancel(c)
  <2>1. event' \in BOOLEAN
    BY <1>1, Zenon DEF Cancel, TypeOK
  <2>2. call' \in [Callers -> Calls]
    BY <1>0, <1>1 DEF Cancel, TypeOK
  <2>3. status' \in States /\ told' \subseteq Terminal
    BY <1>1 DEF Cancel, TypeOK
  <2>4. gate' \in {gate, "cancelled"}
    BY <1>1 DEF Cancel
  <2>5. UNCHANGED <<woken, guard, mode, faults, thread, activated, report, up, dropped,
                  job>>
    BY <1>1 DEF Cancel
  <2> QED
    BY <2>1, <2>2, <2>3, <2>4, <2>5 DEF TypeOK
<1>2. CASE Approve(c)
  BY <1>0, <1>2 DEF Approve, TypeOK
<1>3. CASE PollReport(c)
  <2>1. call' \in [Callers -> Calls]
    BY <1>0, <1>3, CallTyped DEF PollReport, TypeOK
  <2> QED
    BY <1>3, <2>1 DEF PollReport, TypeOK
<1>4. CASE PersistCall(c)
  <2>1. call' \in [Callers -> Calls]
    BY <1>0, <1>4, CallTyped DEF PersistCall, TypeOK
  <2>2. job' \in JobStates
    BY <1>4 DEF PersistCall, Upsert, TypeOK, JobStates, Interruptible
  <2>3. dropped' \in BOOLEAN
    <3>1. dropped \in BOOLEAN
      BY DEF TypeOK
    <3> QED
      BY <1>4, <3>1, Zenon DEF PersistCall
  <2>4. UNCHANGED <<memory, told, mode, faults, thread, activated, report, up>>
    BY <1>4 DEF PersistCall
  <2> QED
    BY <2>1, <2>2, <2>3, <2>4 DEF TypeOK
<1>5. CASE Signal(c)
  <2>1. woken' \in BOOLEAN
    BY <1>5, Zenon DEF Signal
  <2>2. call' \in [Callers -> Calls] /\ told' \subseteq Terminal
    BY <1>0, <1>5 DEF Signal, TypeOK
  <2>3. UNCHANGED <<status, gate, event, guard, mode, faults, thread, activated, report, up, dropped,
                  job>>
    BY <1>5 DEF Signal
  <2> QED
    BY <2>1, <2>2, <2>3 DEF TypeOK
<1>6. CASE PollStatus(c)
  BY <1>0, <1>6 DEF PollStatus, TypeOK
<1> QED
  BY <1>1, <1>2, <1>3, <1>4, <1>5, <1>6 DEF Proceed

\* Requests keep the inductive invariant: they cancel nothing that is guarded.
LEMMA RequestInv ==
  ASSUME IInv, NEW c \in Callers, Cancel(c) \/ Approve(c) \/ PollReport(c) \/ Proceed(c)
  PROVE  IInv'
<1> USE DEF IInv, Requests, Keeps, Near, Persisting
<1>1. UNCHANGED thread /\ UNCHANGED <<mode, activated, report>>
  BY DEF Proceed, Cancel, Approve, PersistCall, Signal, PollReport, PollStatus
<1>2. Unheard'
  <2> SUFFICES ASSUME pc \in {"new", "reserved"} PROVE Unheard'
    BY <1>1 DEF Unheard
  <2>1. CASE Cancel(c) \/ Approve(c) \/ PersistCall(c) \/ Signal(c)
    BY <2>1 DEF Cancel, Approve, PersistCall, Signal, Unheard, TypeOK, Calls
  <2>2. CASE PollReport(c)
    BY <2>2, <1>1 DEF PollReport, Unheard, TypeOK, Calls
  <2>3. CASE PollStatus(c)
    BY <2>3, <1>1 DEF PollStatus, Answer, Idle, Terminal, Unheard, TypeOK, Calls
  <2> QED
    BY <2>1, <2>2, <2>3 DEF Proceed
<1>3. Continues' /\ Modal'
  BY <1>1 DEF Continues, Modal
<1>4. UNCHANGED guard /\ (event' => event)
  BY DEF Proceed, Cancel, Approve, PersistCall, Signal, PollReport, PollStatus
<1>5. \/ UNCHANGED <<status, event>>
      \/ status' = "cancelled" /\ ~event' /\ ~guard /\ status \notin Terminal \cup {"none"}
      \/ status = "blocked" /\ status' = "running"
  BY DEF Proceed, Cancel, Approve, PersistCall, Signal, PollReport, PollStatus
<1>6. Quiet'
  BY <1>4, <1>5 DEF Quiet, Terminal
<1>7. Leaving' /\ Finished' /\ Guarded'
  BY <1>1, <1>4, <1>5 DEF Leaving, Finished, Guarded, Terminal, Ending
<1> QED
  BY <1>2, <1>3, <1>6, <1>7, RequestTyped

\* So do the end and the start of the process.
LEMMA ProcessInv == IInv /\ (Crash \/ Recover \/ UNCHANGED vars) => IInv'
<1> SUFFICES ASSUME IInv, Crash \/ Recover \/ UNCHANGED vars PROVE IInv'
  OBVIOUS
<1> USE DEF IInv, Unheard, Continues, Quiet, Leaving, Finished, Guarded, Modal, Near,
            Persisting, Ending, Terminal
<1>1. CASE Crash
  <2>1. /\ up' = FALSE /\ status' = "none" /\ gate' = "pending" /\ ~event' /\ ~guard'
        /\ event' \in BOOLEAN /\ woken' \in BOOLEAN /\ guard' \in BOOLEAN
        /\ pc' \in {"new", "over"} /\ (pc' = "new" <=> pc = "new")
        /\ then' = "over" /\ snap' = "none"
        /\ told' \subseteq told
        /\ UNCHANGED <<mode, faults, stores, dropped>>
    BY <1>1 DEF Crash
  <2>2. call' \in [Callers -> Calls] /\ \A c \in Callers : call'[c] = Idle
    BY <1>1 DEF Crash, Calls, Idle
  <2>3. TypeOK'
    BY <2>1, <2>2 DEF TypeOK, Steps, States, stores
  <2>4. Unheard'
    BY <2>1, <2>2 DEF stores, Idle
  <2>5. Continues' /\ Quiet' /\ Leaving' /\ Finished'
    BY <2>1
  <2>6. Guarded' /\ Modal'
    BY <2>1
  <2> QED
    BY <2>3, <2>4, <2>5, <2>6
<1>2. CASE Recover
  <2>1. TypeOK'
    <3>1. up' \in BOOLEAN
      BY <1>2, Zenon DEF Recover
    <3>2. job' \in JobStates
      BY <1>2 DEF Recover, TypeOK, JobStates
    <3> QED
      BY <1>2, <3>1, <3>2 DEF Recover, TypeOK
  <2>2. Unheard'
    BY <1>2 DEF Recover, Interruptible
  <2> QED
    BY <1>2, <2>1, <2>2 DEF Recover
<1>3. CASE UNCHANGED vars
  BY <1>3 DEF vars, TypeOK
<1> QED
  BY <1>1, <1>2, <1>3

\* The inductive invariant is inductive.
LEMMA StepInv == IInv /\ [Next]_vars => IInv'
<1>1. IInv /\ Start => IInv'
  BY StartTypeOK, StartUnheard, StartContinues, StartQuiet, StartLeaving, StartFinished,
     StartGuarded, StartModal DEF IInv
<1>2. IInv /\ Run => IInv'
  BY RunTypeOK, RunUnheard, RunContinues, RunQuiet, RunLeaving, RunFinished, RunGuarded,
     RunModal DEF IInv
<1> QED
  BY <1>1, <1>2, RequestInv, ProcessInv DEF Next

\* It holds at the start.
LEMMA InitInv == Init => IInv
<1> SUFFICES ASSUME Init PROVE IInv
  OBVIOUS
<1>1. TypeOK
  BY ScanAssumption DEF Init, TypeOK, Steps, States, JobStates, Interruptible, Terminal, Calls, Idle
<1>2. Unheard
  BY DEF Init, Unheard, Idle
<1> QED
  BY <1>1, <1>2
     DEF Init, IInv, Continues, Quiet, Leaving, Finished, Guarded, Modal, Near, Persisting, Ending

\* It holds of every behaviour.
LEMMA Invariant == Spec => []IInv
  BY InitInv, StepInv, PTL DEF Spec

-----------------------------------------------------------------------------
(* A cancelled scan gets no report *)

\* Someone heard, or is about to hear or to write, that it is cancelled.
Heard == Decided \/ snap = "cancelled"

\* Then its event is gone, and a thread that undid the status cannot get past
\* the wait for that event.
Gone ==
  Heard =>
    /\ ~event /\ report # "whole"
    /\ \/ status = "cancelled"
       \/ pc = "refuse" \/ Near({"wait", "raised", "leave", "over"})

Reported == report = "whole" => status \in {"done", "error", "none"}

CInv == Gone /\ Reported

USE DEF Terminal

\* Starting a scan decides nothing.
LEMMA StartGone == IInv /\ CInv /\ Start => CInv'
<1> SUFFICES ASSUME IInv, CInv, Start PROVE CInv'
  OBVIOUS
<1> USE DEF IInv, CInv, Gone, Reported, Heard, Decided, Near, Persisting, Unheard, Continues,
            Finished, Upsert
<1>1. CASE Reserve \/ Register
  BY <1>1 DEF Reserve, Register
<1>2. CASE FirstPersist \/ Spawn
  BY <1>2 DEF FirstPersist, Spawn
<1>3. CASE Undo
  BY <1>3 DEF Undo
<1>4. CASE Refuse
  BY <1>4 DEF Refuse
<1> QED
  BY <1>1, <1>2, <1>3, <1>4 DEF Start

\* No step of the thread publishes a scan that is decided.
LEMMA RunGone == IInv /\ CInv /\ Run => CInv'
<1> SUFFICES ASSUME IInv, CInv, Run PROVE CInv'
  OBVIOUS
<1> USE DEF IInv, CInv, Gone, Reported, Heard, Decided, Near, Persisting, Upsert
<1>1. CASE PhaseStep
  BY <1>1 DEF PhaseStep, SetPhase
<1>2. CASE CheckStep
  BY <1>2 DEF CheckStep, Check, Wake
<1>3. CASE WorkStep
  BY <1>3 DEF WorkStep, Work
<1>4. CASE EnterStep
  BY <1>4 DEF EnterStep, Enter
<1>5. CASE SidecarStep
  BY <1>5 DEF SidecarStep, Sidecar, SidecarFailed, Record
<1>6. CASE Capture
  BY <1>6 DEF Capture
<1>7. CASE SetGate
  BY <1>7 DEF SetGate, Finished, Ending
<1>8. CASE Wait
  BY <1>8 DEF Wait
<1>9. CASE Prepare
  BY <1>9 DEF Prepare
<1>10. CASE Activate
  BY <1>10 DEF Activate
<1>11. CASE Publish
  <2>1. CASE status \in {"none", "cancelled"}
    <3>1. report # "whole" => report' # "whole"
      BY <1>11, <2>1 DEF Publish
    <3> QED
      BY <1>11, <2>1, <3>1 DEF Publish
  <2>2. CASE status \notin {"none", "cancelled"}
    <3>1. ~Heard
      BY <1>11, <2>2 DEF Publish
    <3>2. CASE Complete
      BY <1>11, <2>2, <3>1, <3>2 DEF Publish, Complete
    <3>3. CASE ~Complete
      <4>1. report # "whole" => report' # "whole"
        BY <1>11, <2>2, <3>3 DEF Publish
      <4> QED
        BY <1>11, <2>2, <3>1, <3>3, <4>1 DEF Publish
    <3> QED
      BY <3>2, <3>3
  <2> QED
    BY <2>1, <2>2
<1>12. CASE Persist
  BY <1>12 DEF Persist
<1>13. CASE Recheck
  BY <1>13 DEF Recheck
<1>14. CASE Raised
  BY <1>14 DEF Raised
<1>15. CASE Leave
  BY <1>15 DEF Leave
<1> QED
  BY <1>1, <1>2, <1>3, <1>4, <1>5, <1>6, <1>7, <1>8, <1>9, <1>10, <1>11, <1>12, <1>13,
     <1>14, <1>15, RunSteps

\* A request decides only a scan without a report.
LEMMA RequestGone ==
  ASSUME IInv, CInv, NEW c \in Callers,
         Cancel(c) \/ Approve(c) \/ PollReport(c) \/ Proceed(c)
  PROVE  CInv'
<1> USE DEF IInv, CInv, Gone, Reported, Heard, Decided, Near, Persisting, Requests, Keeps, Answer, TypeOK
<1>1. CASE Cancel(c)
  BY <1>1 DEF Cancel, Idle
<1>2. CASE Approve(c)
  BY <1>2 DEF Approve
<1>3. CASE PersistCall(c)
  <2>1. call[c] \in Calls
    OBVIOUS
  <2>2. call'[c].op \in {"cancel", "cancel_signal"} => call[c].op \in {"cancel", "cancel_signal"}
    BY <1>3, <2>1 DEF PersistCall, Calls, Idle
  <2>3. \A d \in Callers : d # c => call'[d] = call[d]
    BY <1>3 DEF PersistCall
  <2>4. job' = "cancelled" => job = "cancelled" \/ call[c].op = "cancel"
    BY <1>3 DEF PersistCall, Upsert
  <2> QED
    BY <1>3, <2>2, <2>3, <2>4 DEF PersistCall
<1>4. CASE Signal(c)
  BY <1>4 DEF Signal, Idle
<1>5. CASE PollReport(c)
  BY <1>5 DEF PollReport, Idle
<1>6. CASE PollStatus(c)
  BY <1>6 DEF PollStatus, Idle
<1> QED
  BY <1>1, <1>2, <1>3, <1>4, <1>5, <1>6 DEF Proceed

\* A restart takes the thread of a decided scan away.
LEMMA ProcessGone == IInv /\ CInv /\ (Crash \/ Recover \/ UNCHANGED vars) => CInv'
<1> SUFFICES ASSUME IInv, CInv, Crash \/ Recover \/ UNCHANGED vars PROVE CInv'
  OBVIOUS
<1> USE DEF IInv, CInv, Gone, Reported, Heard, Decided, Near, Persisting
<1>1. CASE Crash
  BY <1>1 DEF Crash, Unheard, Idle
<1>2. CASE Recover
  BY <1>2 DEF Recover
<1>3. CASE UNCHANGED vars
  BY <1>3 DEF vars
<1> QED
  BY <1>1, <1>2, <1>3

-----------------------------------------------------------------------------
(* The theorems *)

\* Every variable keeps its type in every mode, with any number of requests.
THEOREM TypeCorrect == Spec => []TypeOK
<1>1. IInv => TypeOK
  BY DEF IInv
<1> QED
  BY <1>1, Invariant, PTL

\* Event and guard never outlive the thread they belong to.
THEOREM AlwaysAttended == Spec => []Attended
<1>1. IInv => Attended
  BY DEF IInv, Attended, Leaving, Near
<1> QED
  BY <1>1, Invariant, PTL

\* No copy that reaches the database late undoes a terminal row.
THEOREM RowStaysFinal == Spec => RowFinal
<1>1. [Next]_vars => ((job \in Terminal) => job' = job)
  <2> SUFFICES ASSUME [Next]_vars, job \in Terminal PROVE job' = job
    OBVIOUS
  <2> USE DEF Upsert, Interruptible
  <2>1. CASE Start
    BY <2>1 DEF Start, Reserve, Register, FirstPersist, Spawn, Undo, Refuse
  <2>2. CASE Run
    BY <2>2, RunSteps
       DEF PhaseStep, SetPhase, CheckStep, Check, Wake, WorkStep, Work, EnterStep, Enter,
           SidecarStep, Sidecar, SidecarFailed, Record, Capture, SetGate, Wait, Prepare,
           Activate, Publish, Complete, Persist, Recheck, Raised, Leave
  <2>3. ASSUME NEW c \in Callers, Cancel(c) \/ Approve(c) \/ PollReport(c) \/ Proceed(c)
        PROVE  job' = job
    BY <2>3 DEF Proceed, Cancel, Approve, PersistCall, Signal, PollReport, PollStatus
  <2>4. CASE Crash \/ Recover \/ UNCHANGED vars
    BY <2>4 DEF Crash, Recover, vars
  <2> QED
    BY <2>1, <2>2, <2>3, <2>4 DEF Next
<1> QED
  BY <1>1, PTL DEF Spec, RowFinal

\* What is decided of a scan holds of every behaviour.
LEMMA Cancelled == Spec => []CInv
<1>1. Init => CInv
  BY DEF Init, CInv, Gone, Reported, Heard, Decided, Idle
<1>2. IInv /\ CInv /\ [Next]_vars => CInv'
  BY StartGone, RunGone, RequestGone, ProcessGone DEF Next
<1> QED
  BY <1>1, <1>2, Invariant, PTL DEF Spec

\* The report of a scan that a caller was told is cancelled is never saved.
THEOREM CancelStaysFinal == Spec => []CancelFinal
<1>1. CInv => CancelFinal
  BY DEF CInv, Gone, Heard, Decided, CancelFinal
<1> QED
  BY <1>1, Cancelled, PTL

\* The guard keeps a cancellation out from the last check to the activation,
\* and a cancelled scan that the gate has revived does not get that far.
THEOREM ActivationInTime == Spec => NoLateActivation
<1>1. IInv /\ CInv /\ [Next]_vars => (activated' # activated => ~Decided)
  <2> SUFFICES ASSUME IInv, CInv, [Next]_vars, activated' # activated PROVE ~Decided
    OBVIOUS
  <2>1. Activate
    BY RunSteps
       DEF Next, Start, Reserve, Register, FirstPersist, Spawn, Undo, Refuse,
           PhaseStep, SetPhase, CheckStep, Check, Wake, WorkStep, Work, EnterStep, Enter,
           SidecarStep, Sidecar, SidecarFailed, Record, Capture, SetGate, Wait, Prepare,
           Publish, Complete, Persist, Recheck, Raised, Leave, Requests, Keeps,
           Proceed, Cancel, Approve, PersistCall, Signal, PollReport, PollStatus,
           Crash, Recover, vars
  <2>2. pc = "activating" /\ status # "cancelled"
    BY <2>1 DEF Activate, IInv, Guarded, Quiet
  <2> QED
    BY <2>2 DEF CInv, Gone, Heard, Near, Persisting
<1> QED
  BY <1>1, Invariant, Cancelled, PTL DEF Spec, NoLateActivation

\* Nothing but the gate and the rollback of a start takes a cancellation back.
THEOREM LostTwoWays == Spec => CancelLost
<1>1. ASSUME IInv, [Next]_vars, status = "cancelled", up', status' # status
      PROVE  \/ pc = "gate" /\ status' = "blocked"
             \/ pc = "undo" /\ status' = "none"
  <2>1. CASE Start
    BY <1>1, <2>1 DEF Start, Reserve, Register, FirstPersist, Spawn, Undo, Refuse, IInv, Unheard
  <2>2. CASE Run
    BY <1>1, <2>2, RunSteps
       DEF PhaseStep, SetPhase, CheckStep, Check, Wake, WorkStep, Work, EnterStep, Enter,
           SidecarStep, Sidecar, SidecarFailed, Record, Capture, SetGate, Wait, Prepare,
           Activate, Publish, Complete, Persist, Recheck, Raised, Leave
  <2>3. ASSUME NEW c \in Callers, Cancel(c) \/ Approve(c) \/ PollReport(c) \/ Proceed(c)
        PROVE  FALSE
    BY <1>1, <2>3 DEF Proceed, Cancel, Approve, PersistCall, Signal, PollReport, PollStatus
  <2>4. CASE Crash \/ Recover \/ UNCHANGED vars
    BY <1>1, <2>4 DEF Crash, Recover, vars
  <2> QED
    BY <1>1, <2>1, <2>2, <2>3, <2>4 DEF Next
<1>2. IInv /\ [Next]_vars =>
        (status = "cancelled" /\ up' /\ status' # status =>
           \/ pc = "gate" /\ status' = "blocked"
           \/ pc = "undo" /\ status' = "none")
  BY <1>1
<1> QED
  BY <1>2, Invariant, PTL DEF Spec, CancelLost

\* Where the authority decides, an activated scan stays guarded until its
\* status is one that a cancellation leaves alone.
Standing ==
  mode = "authority" /\ activated => guard \/ status \in {"done", "error", "none"}

\* Under the authority every step keeps an activated scan standing.
LEMMA StandingStep == IInv /\ Standing /\ [Next]_vars => Standing'
<1> SUFFICES ASSUME IInv, Standing, [Next]_vars PROVE Standing'
  OBVIOUS
<1> USE DEF IInv, Standing
<1>1. CASE Start
  BY <1>1 DEF Start, Reserve, Register, FirstPersist, Spawn, Undo, Refuse, Unheard
<1>2. CASE Run
  <2>1. CASE PhaseStep \/ CheckStep \/ WorkStep \/ EnterStep
    BY <2>1 DEF PhaseStep, SetPhase, CheckStep, Check, Wake, WorkStep, Work, EnterStep, Enter
  <2>2. CASE SidecarStep
    BY <2>2 DEF SidecarStep, Sidecar, SidecarFailed, Record, Modal, Near
  <2>3. CASE SetGate
    BY <2>3 DEF SetGate, Finished, Guarded, Near, Persisting, Ending
  <2>4. CASE Activate
    BY <2>4 DEF Activate, Guarded
  <2>5. CASE Publish
    BY <2>5 DEF Publish, Complete
  <2>6. CASE Raised
    BY <2>6 DEF Raised, Quiet
  <2>7. CASE Leave
    BY <2>7 DEF Leave, Leaving, Near
  <2>8. CASE Capture \/ Wait \/ Prepare \/ Persist \/ Recheck
    BY <2>8 DEF Capture, Wait, Prepare, Persist, Recheck
  <2> QED
    BY <1>2, <2>1, <2>2, <2>3, <2>4, <2>5, <2>6, <2>7, <2>8, RunSteps
<1>3. ASSUME NEW c \in Callers, Cancel(c) \/ Approve(c) \/ PollReport(c) \/ Proceed(c)
      PROVE  Standing'
  BY <1>3 DEF Proceed, Cancel, Approve, PersistCall, Signal, PollReport, PollStatus, Requests, Keeps
<1>4. CASE Crash \/ Recover \/ UNCHANGED vars
  BY <1>4 DEF Crash, Recover, vars
<1> QED
  BY <1>1, <1>2, <1>3, <1>4 DEF Next

\* What the authority activated is never reported as cancelled.
THEOREM ActivationStands == Spec => []AuthorityStands
<1>1. Init => Standing
  BY DEF Init, Standing
<1>2. IInv /\ Standing => AuthorityStands
  BY DEF IInv, Standing, Quiet, AuthorityStands, ActivatedStands
<1> QED
  BY <1>1, <1>2, StandingStep, Invariant, PTL DEF Spec

-----------------------------------------------------------------------------
(***************************************************************************)
(* While the stores answer, one terminal status is ever said of a scan: in *)
(* memory, in the row, in a copy on its way there, to callers.  Only a     *)
(* cancelled scan may read differently in memory, once the gate has        *)
(* overwritten it, and its thread then gets no further than the wait.      *)
(***************************************************************************)
Allowed(state) ==
  \/ state = status
  \/ state = "cancelled" /\ status \notin {"done", "error"} /\ Near({"wait", "leave", "over"})

\* Nothing fails to start, and nothing raises once the scan has ended.
Orderly ==
  /\ pc \notin {"undo", "refuse"}
  /\ pc = "raised" => status \notin {"done", "error"}
  /\ ~up => status = "none"
  /\ report # "half"

\* Without the scan in memory callers have the report's word, or the row's.
Absent ==
  status = "none" =>
    /\ snap = "none"
    /\ told \subseteq {IF report = "whole" THEN "done" ELSE job}
    /\ \A c \in Callers : call[c].op = "idle" \/ (call[c].op = "poll" /\ report = "none")

\* With it, whatever was said is what memory says or what the gate overwrote.
Spoken ==
  status # "none" =>
    /\ \A state \in told : Allowed(state)
    /\ job \in Terminal => Allowed(job)
    /\ snap \in Terminal => Allowed(snap)
    /\ \A c \in Callers : call[c].op \in {"cancel", "cancel_signal"} => Allowed("cancelled")
    /\ report = "whole" => status = "done"

\* How a scan ended is in the row, or somebody is about to write it.
Written ==
  /\ ~event /\ status \notin {"none", "done", "error"} =>
       job = "cancelled" \/ \E c \in Callers : call[c].op = "cancel"
  /\ status \in {"done", "error"} =>
       job = status \/ (pc \in {"write", "note"} /\ snap = status /\ then = "leave")

SInv == Orderly /\ Absent /\ Spoken /\ Written

\* Starting a scan says nothing terminal.
LEMMA StartAnswers ==
  ASSUME ~faults, IInv, SInv, Start
  PROVE  SInv'
<1> USE DEF IInv, SInv, Orderly, Absent, Spoken, Written, Allowed, Near, Persisting, Unheard,
            Continues, Finished, Upsert
<1>1. CASE Reserve \/ Register
  BY <1>1 DEF Reserve, Register
<1>2. CASE FirstPersist \/ Spawn
  BY <1>2 DEF FirstPersist, Spawn
<1>3. CASE Undo \/ Refuse
  BY <1>3 DEF Undo, Refuse
<1> QED
  BY <1>1, <1>2, <1>3 DEF Start

\* No step of the thread contradicts what has been said.
LEMMA RunAnswers ==
  ASSUME ~faults, IInv, CInv, SInv, Run
  PROVE  SInv'
<1> USE DEF IInv, SInv, Orderly, Absent, Spoken, Written, Allowed, Near, Persisting, Continues,
            Quiet, Finished, Ending, CInv, Gone, Heard, Decided, Reported, Upsert
<1>1. CASE PhaseStep
  BY <1>1 DEF PhaseStep, SetPhase
<1>2. CASE CheckStep
  BY <1>2 DEF CheckStep, Check, Wake
<1>3. CASE WorkStep
  BY <1>3 DEF WorkStep, Work
<1>4. CASE EnterStep
  BY <1>4 DEF EnterStep, Enter
<1>5. CASE SidecarStep
  BY <1>5 DEF SidecarStep, Sidecar, SidecarFailed, Record
<1>6. CASE Capture
  BY <1>6 DEF Capture
<1>7. CASE SetGate
  <2>1. /\ pc = "gate" /\ status \notin {"none", "done", "error"}
        /\ UNCHANGED <<event, call, told, job, report, up>>
    BY <1>7 DEF SetGate
  <2>2. CASE Raise /\ UNCHANGED status
    BY <1>7, <2>1, <2>2
  <2>3. CASE status' = "blocked" /\ Copy("write", status', "wait")
    <3>1. /\ \A state \in told : state = "cancelled"
          /\ job \in Terminal => job = "cancelled"
          /\ report # "whole"
      BY <2>1 DEF TypeOK
    <3>2. pc' = "write" /\ then' = "wait" /\ snap' = "blocked"
      BY <2>3
    <3> QED
      BY <2>1, <2>3, <3>1, <3>2
  <2>4. CASE UNCHANGED status /\ Copy("write", status', "check2")
    BY <1>7, <2>1, <2>4 DEF SetGate
  <2> QED
    BY <1>7, <2>2, <2>3, <2>4 DEF SetGate
<1>8. CASE Wait
  BY <1>8 DEF Wait
<1>9. CASE Prepare
  BY <1>9 DEF Prepare
<1>10. CASE Activate
  BY <1>10 DEF Activate
<1>11. CASE Publish
  <2>1. pc = "publish" /\ status \notin {"none", "done", "error"} /\ UNCHANGED <<call, told, up>>
    BY <1>11 DEF Publish
  <2>2. CASE Go("leave") /\ UNCHANGED <<memory, stores>>
    BY <2>1, <2>2
  <2>3. CASE status # "cancelled" /\ Complete /\ report' \in {report, "whole"}
    <3>1. told = {} /\ job \notin Terminal /\ \A c \in Callers : call[c].op \notin {"cancel", "cancel_signal"}
      BY <2>1, <2>3 DEF TypeOK
    <3> QED
      BY <2>1, <2>3, <3>1 DEF Complete
  <2>4. CASE Raise /\ UNCHANGED <<memory, activated, job>>
    <3>1. UNCHANGED report
      BY <1>11, <2>1, <2>4 DEF Publish, Complete
    <3> QED
      BY <2>1, <2>4, <3>1
  <2> QED
    BY <1>11, <2>2, <2>3, <2>4 DEF Publish
<1>12. CASE Persist
  BY <1>12 DEF Persist
<1>13. CASE Recheck
  BY <1>13 DEF Recheck
<1>14. CASE Raised
  <2>1. pc = "raised" /\ status \notin {"none", "done", "error"} /\ UNCHANGED <<call, told, up, job, report>>
    BY <1>14 DEF Raised
  <2>2. CASE status = "cancelled"
    BY <1>14, <2>1, <2>2 DEF Raised
  <2>3. CASE status # "cancelled"
    <3>1. told = {} /\ job \notin Terminal /\ \A c \in Callers : call[c].op \notin {"cancel", "cancel_signal"}
      BY <2>1, <2>3 DEF TypeOK
    <3> QED
      BY <1>14, <2>1, <2>3, <3>1 DEF Raised
  <2> QED
    BY <2>2, <2>3
<1>15. CASE Leave
  BY <1>15 DEF Leave
<1> QED
  BY <1>1, <1>2, <1>3, <1>4, <1>5, <1>6, <1>7, <1>8, <1>9, <1>10, <1>11, <1>12, <1>13,
     <1>14, <1>15, RunSteps

\* A request says what memory and row say, and a cancellation is written.
LEMMA RequestAnswers ==
  ASSUME ~faults, IInv, CInv, SInv, NEW c \in Callers,
         Cancel(c) \/ Approve(c) \/ PollReport(c) \/ Proceed(c)
  PROVE  SInv'
<1> USE DEF IInv, SInv, Orderly, Absent, Spoken, Written, Allowed, Near, Persisting, Quiet,
            Finished, Ending, Requests, Keeps, Answer, TypeOK, Upsert
<1>0. call[c] \in Calls
  OBVIOUS
<1>1. CASE Cancel(c)
  <2>1. /\ status # "none" /\ call[c].op = "idle" /\ call'[c].op \in {"idle", "cancel"}
        /\ \A d \in Callers : d # c => call'[d] = call[d]
        /\ UNCHANGED <<job, pc, then, snap, report, up>>
    BY <1>1 DEF Cancel, Idle
  <2>2. CASE status \in Terminal
    <3>1. /\ UNCHANGED <<status, event>> /\ call'[c].op = "idle"
          /\ \A state \in told' : state \in told \/ state = status
      BY <1>1, <2>2 DEF Cancel, Idle
    <3> QED
      BY <2>1, <3>1
  <2>3. CASE status \notin Terminal
    <3>1. /\ status' = "cancelled" /\ ~event' /\ call'[c].op = "cancel" /\ told' = told
      BY <1>1, <2>3 DEF Cancel
    <3>2. /\ \A state \in told : state = "cancelled"
          /\ job \in Terminal => job = "cancelled"
          /\ snap \in Terminal => snap = "cancelled"
          /\ report # "whole"
      BY <2>1, <2>3
    <3> QED
      BY <2>1, <3>1, <3>2
  <2> QED
    BY <2>2, <2>3
<1>2. CASE Approve(c)
  BY <1>2 DEF Approve, Idle
<1>3. CASE PersistCall(c)
  BY <1>0, <1>3 DEF PersistCall, Calls, Idle
<1>4. CASE Signal(c)
  BY <1>0, <1>4 DEF Signal, Calls, Idle
<1>5. CASE PollReport(c)
  BY <1>0, <1>5 DEF PollReport, Calls, Idle
<1>6. CASE PollStatus(c)
  BY <1>0, <1>6 DEF PollStatus, Calls, Idle
<1> QED
  BY <1>1, <1>2, <1>3, <1>4, <1>5, <1>6 DEF Proceed

\* A restart forgets what the row does not bear out, and closes the row.
LEMMA ProcessAnswers ==
  ASSUME ~faults, IInv, SInv, Crash \/ Recover \/ UNCHANGED vars
  PROVE  SInv'
<1> USE DEF IInv, SInv, Orderly, Absent, Spoken, Written, Allowed, Near, Persisting, TypeOK
<1>1. CASE Crash
  BY <1>1 DEF Crash, Idle
<1>2. CASE Recover
  BY <1>2 DEF Recover, Interruptible
<1>3. CASE UNCHANGED vars
  BY <1>3 DEF vars
<1> QED
  BY <1>1, <1>2, <1>3

\* While the stores answer, all of this is inductive.
LEMMA StepAnswers ==
  IInv /\ CInv /\ (~faults => SInv) /\ [Next]_vars => (~faults => SInv)'
<1> SUFFICES ASSUME IInv, CInv, ~faults => SInv, [Next]_vars, ~faults'
             PROVE  SInv'
  OBVIOUS
<1>1. faults' = faults
  BY RunSteps
     DEF Next, Start, Reserve, Register, FirstPersist, Spawn, Undo, Refuse, PhaseStep, SetPhase,
         CheckStep, Check, Wake, WorkStep, Work, EnterStep, Enter, SidecarStep, Sidecar,
         SidecarFailed, Record, Capture, SetGate, Wait, Prepare, Activate, Publish, Complete,
         Persist, Recheck, Raised, Leave, Proceed, Cancel, Approve, PersistCall, Signal,
         PollReport, PollStatus, Requests, Keeps, Crash, Recover, vars
<1> QED
  BY <1>1, StartAnswers, RunAnswers, RequestAnswers, ProcessAnswers DEF Next

\* It holds of every behaviour.
LEMMA Answers == Spec => [](IInv /\ CInv /\ (~faults => SInv))
<1>1. Init => (~faults => SInv)
  BY DEF Init, Idle, SInv, Orderly, Absent, Spoken, Written
<1> QED
  BY <1>1, StepAnswers, Invariant, Cancelled, PTL DEF Spec

\* While the stores answer, callers never hear two terminal statuses.
THEOREM OneAnswerGiven == Spec => []OneAnswer
<1>1. IInv /\ (~faults => SInv) => OneAnswer
  <2> SUFFICES ASSUME IInv, SInv, NEW a \in told, NEW b \in told PROVE a = b
    BY DEF OneAnswer
  <2>1. CASE status = "none"
    BY <2>1 DEF SInv, Absent
  <2>2. CASE status # "none"
    BY <2>2 DEF SInv, Spoken, Allowed, IInv, TypeOK
  <2> QED
    BY <2>1, <2>2
<1> QED
  BY <1>1, Answers, PTL

\* When thread and requests are at rest, the row is terminal and says what
\* memory says, while the stores answer.
THEOREM RowComesToRest == Spec => []RowSettles
<1>1. IInv /\ (~faults => SInv) => RowSettles
  BY DEF RowSettles, IInv, TypeOK, Leaving, Near, Persisting, SInv, Spoken, Written, Allowed
<1> QED
  BY <1>1, Answers, PTL
=============================================================================
