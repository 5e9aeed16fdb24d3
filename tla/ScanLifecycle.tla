---------------------------- MODULE ScanLifecycle ----------------------------
(***************************************************************************)
(* One scan of the scanner API: its status in the memory of the web        *)
(* process, its row in b3s_scanner_jobs, its report, the thread that runs  *)
(* it and the requests that control it.                                    *)
(*                                                                         *)
(* Every status change happens under _LOCK and copies the status; the copy *)
(* is persisted after the lock is released.  A locked block is one action  *)
(* here and its persist another, so that any request may come in between,  *)
(* persist first, or find the process gone.                                *)
(*                                                                         *)
(* Three configurations run the scanner: "legacy" (no Vault), "vault" (the *)
(* operational memory is a sidecar of the Flow/SV9 result) and "authority" *)
(* (the result comes from it).                                             *)
(*                                                                         *)
(* UpsertUnguarded, EnterUnchecked, ActivateReleasing, PublishUnchecked,   *)
(* RaisedAnyway, RaisedKeepingGuard, RaisedSilently and SignalNobody are   *)
(* mutated forms of operators of this module: no action uses them, they    *)
(* are there to show that the properties notice the mistake.               *)
(***************************************************************************)

CONSTANTS
  Callers,     \* concurrent API requests
  Modes,       \* configurations to consider
  Faults,      \* what to assume of the stores and the threads: {FALSE}, {TRUE} or both
  Crashes      \* TRUE: the process may be restarted

ASSUME ScanAssumption ==
  /\ Modes \subseteq {"legacy", "vault", "authority"}
  /\ Faults \subseteq BOOLEAN
  /\ Crashes \in BOOLEAN

Terminal == {"done", "error", "cancelled"}
Interruptible == {"accepted", "running", "blocked"}
JobStates == Interruptible \cup Terminal \cup {"none"}
States == {"none", "running", "blocked"} \cup Terminal

Steps == {"new", "reserved", "created", "spawn", "undo", "refuse",
          "save", "recheck", "write", "note", "begin", "capture", "check1", "captured",
          "gate", "wait", "waiting", "check2", "prepare", "interpret",
          "evaluate", "check3", "interpreted", "scored", "check_sidecar",
          "sidecar", "check_activate", "activate", "activating",
          "sidecar_failed", "record", "check4", "check5", "execute", "check6",
          "enter", "apply", "reporting", "publish", "raised", "leave", "over"}

VARIABLES
  mode,       \* the configuration the scan runs under
  faults,     \* in this run a store may raise, a thread fail to start
  status,     \* state in _SCANS, "none" without an entry
  gate,       \* its acquisition gate
  event,      \* its threading.Event is registered in _SCAN_EVENTS
  woken,      \* that event has been set
  guard,      \* the scan is in _VAULT_ACTIVATIONS
  pc, then,   \* where its thread is, and goes once a persist is over
  snap,       \* the state in the copy it is persisting
  call,       \* what each request is in the middle of
  activated,  \* its result was adopted into the operational memory
  job,        \* b3s_scanner_jobs.state, "none" without a row
  report,     \* how much of its report is in the report store
  dropped,    \* history: a request that held the event raised before it set it
  told,       \* terminal statuses the API has answered and may not take back
  up          \* the process is serving

memory == <<status, gate, event, woken, guard>>
thread == <<pc, then, snap>>
stores == <<activated, job, report>>
vars == <<mode, faults, memory, thread, call, stores, told, up, dropped>>

Idle == [op |-> "idle", event |-> FALSE]
Calls == [op : {"idle", "poll", "cancel", "cancel_signal", "approve", "approve_signal"},
          event : BOOLEAN]

Init ==
  /\ mode \in Modes /\ faults \in Faults
  /\ status = "none" /\ gate = "pending"
  /\ event = FALSE /\ woken = FALSE /\ guard = FALSE
  /\ pc = "new" /\ then = "over" /\ snap = "none"
  /\ call = [c \in Callers |-> Idle]
  /\ activated = FALSE /\ job = "none" /\ report = "none"
  /\ told = {} /\ dropped = FALSE
  /\ up = TRUE

-----------------------------------------------------------------------------
(* save_scanner_job_status *)

UpsertUnguarded(state) == state

\* The WHERE clause of the upsert: a terminal row only takes its own state.
Upsert(state) == IF job \in Terminal /\ job # state THEN job ELSE state

At(step) == pc = step /\ UNCHANGED <<mode, faults, call, told, up, dropped>>

\* A copy of the status is about to be persisted; an error in that persist
\* is raised ("write", "save") or swallowed ("note").
Copy(how, state, next) == pc' = how /\ snap' = state /\ then' = next

Go(next) == pc' = next /\ UNCHANGED <<then, snap>>

-----------------------------------------------------------------------------
(* create_scan_job and start_scan *)

\* Idempotency-Key or not, the API reserves the id; the web form does not.
Reserve ==
  /\ At("new") /\ up
  /\ job' = Upsert("accepted")
  /\ Go("reserved")
  /\ UNCHANGED <<memory, activated, report>>

Register ==
  /\ pc \in {"new", "reserved"} /\ up
  /\ status' = "running" /\ event' = TRUE
  /\ Copy("created", "running", IF pc = "reserved" THEN "refuse" ELSE "over")
  /\ UNCHANGED <<mode, faults, call, told, up, dropped, gate, woken, guard, stores>>

FirstPersist ==
  /\ At("created")
  /\ \/ job' = Upsert(snap) /\ Go("spawn")
     \/ faults /\ Go("undo") /\ UNCHANGED job
  /\ UNCHANGED <<memory, activated, report>>

Spawn ==
  /\ At("spawn")
  /\ Go("begin") \/ (faults /\ Go("undo"))
  /\ UNCHANGED <<memory, stores>>

\* rollback
Undo ==
  /\ At("undo")
  /\ status' = "none" /\ event' = FALSE
  /\ Go(then)
  /\ UNCHANGED <<gate, woken, guard, stores>>

Refuse ==
  /\ At("refuse")
  /\ job' = Upsert("error") \/ (faults /\ UNCHANGED job)
  /\ Go("over")
  /\ UNCHANGED <<memory, activated, report>>

-----------------------------------------------------------------------------
(* The building blocks of _run *)

Raise == Go("raised")

\* _scan_cancelled, and the return it guards.
Check(step, next) ==
  /\ At(step)
  /\ IF status \in {"none", "cancelled"} THEN Go("leave") ELSE Go(next)
  /\ UNCHANGED <<memory, stores>>

\* _set_phase: nothing on a terminal scan; otherwise persist the copy, then
\* look again whether the scan became terminal meanwhile.
SetPhase(step, next) ==
  /\ At(step)
  /\ IF status \in Terminal \cup {"none"} THEN Go(next) ELSE Copy("save", status, next)
  /\ UNCHANGED <<memory, stores>>

Persist ==
  /\ pc \in {"save", "write", "note"}
  /\ \/ job' = Upsert(snap) /\ Go(IF pc = "save" THEN "recheck" ELSE then)
     \/ faults /\ UNCHANGED job /\ IF pc = "note" THEN Go(then) ELSE Raise
  /\ UNCHANGED <<mode, faults, call, told, up, dropped, memory, activated, report>>

Recheck ==
  /\ At("recheck")
  /\ IF status \in Terminal THEN Copy("write", status, then) ELSE Go(then)
  /\ UNCHANGED <<memory, stores>>

\* Work that ends or raises, and changes nothing the model tells apart.
Work(step, next) ==
  /\ At(step)
  /\ Go(next) \/ Raise
  /\ UNCHANGED <<memory, stores>>

-----------------------------------------------------------------------------
(* The steps of _run: capture and its gate *)

Capture ==
  /\ At("capture")
  /\ Copy("write", status, "check1") \/ Raise
  /\ UNCHANGED <<memory, stores>>

\* _build_acquisition_gate and _set_acquisition_gate: "dead" is blocked without
\* a usable fallback, "approved" blocked and preapproved.  A blocked gate is
\* set on the scan whatever state it is in.
SetGate ==
  /\ At("gate")
  /\ \/ \E g \in {"ready", "blocked", "dead", "approved"} :
          /\ gate' = g
          /\ status' = IF g \in {"blocked", "dead"} THEN "blocked" ELSE status
          /\ Copy("write", status', IF g \in {"blocked", "dead"} THEN "wait" ELSE "check2")
     \/ Raise /\ UNCHANGED <<status, gate>>
  /\ UNCHANGED <<event, woken, guard, stores>>

\* _wait_for_acquisition_decision: without a registered event it returns False.
Wait ==
  /\ At("wait")
  /\ IF event THEN Go("waiting") ELSE Go("leave")
  /\ UNCHANGED <<memory, stores>>

Wake == woken /\ Check("waiting", "check2")

-----------------------------------------------------------------------------
(* The Vault: preparation, sidecar and authority *)

\* A sidecar that cannot be prepared is given up; the scan goes on without.
Prepare ==
  /\ pc = "prepare"
  /\ \/ Go("interpret") /\ UNCHANGED mode
     \/ mode = "vault" /\ mode' = "legacy" /\ Copy("note", status, "interpret")
     \/ Raise /\ UNCHANGED mode
  /\ UNCHANGED <<faults, call, told, up, dropped, memory, stores>>

\* execute_vault_operation_plan, when the preparation left something to do.
Sidecar ==
  /\ At("sidecar")
  /\ Go("check_activate") \/ Go("record") \/ Go("sidecar_failed")
  /\ UNCHANGED <<memory, stores>>

EnterUnchecked(step, next) ==
  /\ At(step)
  /\ guard' = TRUE /\ Go(next)
  /\ UNCHANGED <<status, gate, event, woken, stores>>

\* _enter_vault_authority_boundary, and the head of
\* _activate_vault_result_unless_cancelled.
Enter(step, next) ==
  /\ At(step)
  /\ IF status \in Terminal \cup {"none"}
     THEN Go("leave") /\ UNCHANGED guard
     ELSE guard' = TRUE /\ Go(next)
  /\ UNCHANGED <<status, gate, event, woken, stores>>

ActivateReleasing ==
  /\ At("activating")
  /\ activated' \in {activated, TRUE}
  /\ \/ activated' /\ Go(IF mode = "authority" THEN "apply" ELSE "record") /\ UNCHANGED guard
     \/ Go(IF mode = "authority" THEN "raised" ELSE "sidecar_failed") /\ guard' = FALSE
  /\ UNCHANGED <<status, gate, event, woken, job, report>>

\* activate_evidence_vault_operational_scanner_result may commit, then raise.
Activate ==
  /\ At("activating")
  /\ activated' \in {activated, TRUE}
  /\ \/ activated' /\ Go(IF mode = "authority" THEN "apply" ELSE "record")
     \/ Go(IF mode = "authority" THEN "raised" ELSE "sidecar_failed")
  /\ UNCHANGED <<memory, job, report>>

SidecarFailed ==
  /\ At("sidecar_failed")
  /\ guard' = FALSE
  /\ Go("record")
  /\ UNCHANGED <<status, gate, event, woken, stores>>

\* _record_vault_sidecar_status
Record ==
  /\ At("record")
  /\ Copy("note", status, "check4")
  /\ UNCHANGED <<memory, stores>>

-----------------------------------------------------------------------------
(* The end of _run *)

\* Under the lock: done, the event and the guard are dropped.
Complete ==
  /\ status' = "done" /\ event' = FALSE /\ guard' = FALSE
  /\ Copy("write", "done", "leave")
  /\ UNCHANGED <<gate, woken, activated, job>>

PublishUnchecked == At("publish") /\ Complete /\ report' = "whole"

\* _publish_completed_report saves the report under the lock, unless the scan is
\* cancelled; _finish_scan_without_new_score keeps the report of an earlier one.
\* The report store writes to two backends and may raise between the two, which
\* leaves half a report.
Publish ==
  /\ At("publish")
  /\ \/ status \in {"none", "cancelled"} /\ Go("leave") /\ UNCHANGED <<memory, stores>>
     \/ /\ status \notin {"none", "cancelled"}
        /\ Complete
        /\ report' = "whole" \/ (mode = "authority" /\ UNCHANGED report)
     \/ Raise /\ UNCHANGED <<memory, activated, job>>
        /\ \/ UNCHANGED report
           \/ /\ faults /\ status \notin {"none", "cancelled"}
              /\ report = "none" /\ report' = "half"

RaisedAnyway ==
  /\ At("raised")
  /\ status' = "error" /\ event' = FALSE /\ guard' = FALSE
  /\ Copy("note", "error", "leave")
  /\ UNCHANGED <<gate, woken, stores>>

RaisedKeepingGuard ==
  /\ At("raised")
  /\ event' = FALSE
  /\ IF status \in {"none", "cancelled"}
     THEN Go("leave") /\ UNCHANGED status
     ELSE status' = "error" /\ Copy("note", "error", "leave")
  /\ UNCHANGED <<gate, woken, guard, stores>>

RaisedSilently ==
  /\ At("raised")
  /\ status' = IF status \in {"none", "cancelled"} THEN status ELSE "error"
  /\ event' = FALSE /\ guard' = FALSE
  /\ Go("leave")
  /\ UNCHANGED <<gate, woken, stores>>

\* The exception handler of _run.
Raised ==
  /\ At("raised")
  /\ event' = FALSE /\ guard' = FALSE
  /\ IF status \in {"none", "cancelled"}
     THEN Go("leave") /\ UNCHANGED status
     ELSE status' = "error" /\ Copy("note", "error", "leave")
  /\ UNCHANGED <<gate, woken, stores>>

\* The finally blocks: only the authority's releases its guard.
Leave ==
  /\ At("leave")
  /\ guard' = (guard /\ mode # "authority")
  /\ Go("over")
  /\ UNCHANGED <<status, gate, event, woken, stores>>

Run ==
  \/ SetPhase("begin", "capture") \/ Capture \/ Check("check1", "captured")
  \/ SetPhase("captured", "gate") \/ SetGate \/ Wait \/ Wake
  \/ Check("check2", IF mode = "legacy" THEN "interpret" ELSE "prepare")
  \/ Prepare
  \/ SetPhase("interpret", IF mode = "authority" THEN "check5" ELSE "evaluate")
  \/ Work("evaluate", "check3") \/ Check("check3", "interpreted")
  \/ Check("check5", "execute") \/ Work("execute", "check6") \/ Check("check6", "enter")
  \/ Enter("enter", "activate") \/ Enter("activate", "activating") \/ Activate
  \/ Work("apply", "interpreted")
  \/ SetPhase("interpreted", "scored")
  \/ SetPhase("scored", CASE mode = "vault" -> "check_sidecar"
                          [] mode = "legacy" -> "check4"
                          [] OTHER -> "reporting")
  \/ Check("check_sidecar", "sidecar") \/ Sidecar \/ Check("check_activate", "activate")
  \/ SidecarFailed \/ Record \/ Check("check4", "reporting")
  \/ SetPhase("reporting", "publish") \/ Publish
  \/ Persist \/ Recheck \/ Raised \/ Leave

-----------------------------------------------------------------------------
(* The requests *)

Requests(c) == UNCHANGED <<mode, faults, thread, activated, report, up>>
Keeps(c) == Requests(c) /\ UNCHANGED dropped

Answer(c, statuses) == told' = told \cup statuses /\ call' = [call EXCEPT ![c] = Idle]

\* cancel_scan.  A guarded scan, or one that is over, is left as it is.
Cancel(c) ==
  /\ call[c] = Idle
  /\ status # "none" /\ ~guard
  /\ \/ /\ status \in Terminal
        /\ Answer(c, {status} \cap {"cancelled"})
        /\ UNCHANGED memory
     \/ /\ status \notin Terminal
        /\ status' = "cancelled" /\ gate' = "cancelled" /\ event' = FALSE
        /\ call' = [call EXCEPT ![c] = [op |-> "cancel", event |-> event]]
        /\ UNCHANGED <<woken, guard, told>>
  /\ UNCHANGED job /\ Keeps(c)

\* approve_degraded_scan
Approve(c) ==
  /\ call[c] = Idle
  /\ status = "blocked" /\ gate = "blocked"
  /\ status' = "running" /\ gate' = "approved"
  /\ call' = [call EXCEPT ![c] = [op |-> "approve", event |-> event]]
  /\ UNCHANGED <<event, woken, guard, told, job>> /\ Keeps(c)

\* Either persists its copy; if that raises, the event is never set.
PersistCall(c) ==
  /\ \/ call[c].op = "cancel" /\ job' = Upsert("cancelled")
        /\ call' = [call EXCEPT ![c].op = "cancel_signal"]
        /\ UNCHANGED dropped
     \/ call[c].op = "approve" /\ job' = Upsert("running")
        /\ call' = [call EXCEPT ![c].op = "approve_signal"]
        /\ UNCHANGED dropped
     \/ /\ call[c].op \in {"cancel", "approve"} /\ faults
        /\ call' = [call EXCEPT ![c] = Idle]
        /\ dropped' = (dropped \/ call[c].event)
        /\ UNCHANGED job
  /\ UNCHANGED <<memory, told>> /\ Requests(c)

SignalNobody(c) ==
  /\ call[c].op \in {"cancel_signal", "approve_signal"}
  /\ Answer(c, IF call[c].op = "cancel_signal" THEN {"cancelled"} ELSE {})
  /\ UNCHANGED <<memory, job>> /\ Keeps(c)

Signal(c) ==
  /\ call[c].op \in {"cancel_signal", "approve_signal"}
  /\ woken' = (woken \/ call[c].event)
  /\ Answer(c, IF call[c].op = "cancel_signal" THEN {"cancelled"} ELSE {})
  /\ UNCHANGED <<status, gate, event, guard, job>> /\ Keeps(c)

\* get_scan answers from the report if there is one, else from memory, or from
\* the row when the lock is taken or memory has no entry: two reads.  Half a
\* report is found or not.
PollReport(c) ==
  /\ call[c] = Idle /\ up
  /\ \/ report # "none" /\ Answer(c, {"done"})
     \/ report # "whole" /\ call' = [call EXCEPT ![c].op = "poll"] /\ UNCHANGED told
  /\ UNCHANGED <<memory, job>> /\ Keeps(c)

PollStatus(c) ==
  /\ call[c].op = "poll"
  /\ \E state \in {job} \cup ({status} \ {"none"}) : Answer(c, {state} \cap Terminal)
  /\ UNCHANGED <<memory, job>> /\ Keeps(c)

Proceed(c) == PersistCall(c) \/ Signal(c) \/ PollStatus(c)

-----------------------------------------------------------------------------
(* A restart, and recover_interrupted_scans before the process serves again *)

\* Answers that the row does not bear out yet are lost with the process.
Crash ==
  /\ Crashes /\ up
  /\ up' = FALSE
  /\ status' = "none" /\ gate' = "pending"
  /\ event' = FALSE /\ woken' = FALSE /\ guard' = FALSE
  /\ pc' = IF pc = "new" THEN "new" ELSE "over"
  /\ then' = "over" /\ snap' = "none"
  /\ call' = [c \in Callers |-> Idle]
  /\ told' = told \cap {job}
  /\ UNCHANGED <<mode, faults, stores, dropped>>

Recover ==
  /\ ~up
  /\ up' = TRUE
  /\ job' = IF job \in Interruptible THEN "error" ELSE job
  /\ UNCHANGED <<mode, faults, memory, thread, call, activated, report, told, dropped>>

Start == Reserve \/ Register \/ FirstPersist \/ Spawn \/ Undo \/ Refuse

Next ==
  \/ Start
  \/ Run
  \/ \E c \in Callers : Cancel(c) \/ Approve(c) \/ PollReport(c) \/ Proceed(c)
  \/ Crash
  \/ Recover

Spec == Init /\ [][Next]_vars

\* Fairness: threads and requests that have begun go on, external work ends or
\* raises, and a stopped process is started again.  Nobody has to decide.
Fairness ==
  /\ WF_vars(pc # "new" /\ Start)
  /\ WF_vars(Run)
  /\ \A c \in Callers : WF_vars(Proceed(c))
  /\ WF_vars(Recover)

FairSpec == Spec /\ Fairness

-----------------------------------------------------------------------------
(* Properties *)

\* Every variable stays in its domain.
TypeOK ==
  /\ mode \in {"legacy", "vault", "authority"} /\ faults \in Faults
  /\ status \in States
  /\ gate \in {"pending", "ready", "blocked", "dead", "approved", "cancelled"}
  /\ event \in BOOLEAN /\ woken \in BOOLEAN /\ guard \in BOOLEAN
  /\ pc \in Steps /\ then \in Steps
  /\ snap \in States
  /\ call \in [Callers -> Calls]
  /\ activated \in BOOLEAN /\ job \in JobStates
  /\ report \in {"none", "half", "whole"}
  /\ told \subseteq Terminal /\ dropped \in BOOLEAN
  /\ up \in BOOLEAN

\* A terminal row is final, in whatever order the copies taken under the lock
\* reach the database.
RowFinal == [][(job \in Terminal) => job' = job]_vars

\* Once a caller was told the scan is cancelled, its report is not saved and
\* never will be, whatever its thread was doing; a save that raised may have
\* left half of one before.
CancelFinal == "cancelled" \in told => report # "whole"

\* Someone heard, or is about to hear, that the scan is cancelled, or reads it.
Decided ==
  \/ "cancelled" \in told \/ "cancelled" \in {job, status}
  \/ \E c \in Callers : call[c].op \in {"cancel", "cancel_signal"}

\* A result is never activated on a scan that has been cancelled, wherever the
\* cancellation has got to: even if the gate has overwritten it in memory.
NoLateActivation == [][activated' # activated => ~Decided]_vars

\* A cancellation is lost in the memory of a living process in two places only:
\* the gate that blocks a scan whatever its state, and the rollback of a start.
CancelLost ==
  [][status = "cancelled" /\ up' /\ status' # status =>
       \/ pc = "gate" /\ status' = "blocked"
       \/ pc = "undo" /\ status' = "none"]_vars

\* Activation is not cancelled afterwards: the guard covers it to the end.
ActivatedStands == activated => status # "cancelled"

\* The same where the result comes from the operational memory: the authority's
\* guard is released in its finally block only, after the status is final.
AuthorityStands == mode = "authority" => ActivatedStands

\* An event to wait for and a guard that refuses to cancel never outlive the
\* thread they belong to.
Attended == event \/ guard => pc # "over"

\* When every thread and request has come to rest, the row is terminal and
\* tells the same as memory, while the stores answer.
RowSettles ==
  /\ ~faults /\ up /\ status # "none" /\ pc = "over"
  /\ \A c \in Callers : call[c].op \in {"idle", "poll"}
  => job \in Terminal /\ (status \in Terminal => job = status)

\* While the stores answer, callers never hear two different terminal statuses,
\* except across a restart that came before the first of them was persisted.
OneAnswer == ~faults => \A a, b \in told : a = b

\* Cancelled is terminal: while the process lives, nothing else follows.
CancelledTerminal ==
  [][status = "cancelled" /\ up' => status' = "cancelled"]_vars

\* The thread ends, whatever raises, and while the stores answer leaves a
\* terminal row (or none, if it was lost before the first persist).  It waits
\* for ever only where nobody decides, or where the one who did could not
\* persist the decision and so never set the event.
EventuallyClosed ==
  []<>(\/ pc = "new"
       \/ pc = "over" /\ (faults \/ job \in Terminal \cup {"none"})
       \/ pc = "waiting" /\ (status = "blocked" \/ dropped))
=============================================================================
