# A verification project for B3S

B3S scans a brand's public web presence, scores it (SV9) and publishes a report. The modules in
this directory model the parts of it where several actors share state: the leased execution of
Vault operation plans, the memory of a brand that those plans feed, the locks its transactions
take, the ledger of SV9 judgments, the life of a scan, the exact resume of a scan, the archive
of reports, and the job queue of the first Brand3 API. TLC checks small instances of each, and
TLAPS proves every safety property the passing runs check for every value of the constants.
Paths below are relative to the repository.

Contents: [the system](#the-system), [the models](#the-models), [the runs](#the-runs), [what the
runs found](#what-the-runs-found), [what is proved](#what-is-proved), [what is only
model-checked](#what-is-only-model-checked), [what is not modelled](#what-is-not-modelled), [the
plan](#the-plan), [working with the project](#working-with-the-project).

## The system

One web process (`web/`) serves the scanner API and the site. A scan is a thread of that
process. It captures the brand's pages, may wait for a decision about a degraded capture, hands
the capture to the flow and to SV9, and publishes a report. With the Vault enabled, the capture
is also stored in Postgres (`src/history/`), a frozen *operation plan* says which work the
capture calls for, and a leased *executor* does that work. What it finds becomes a source packet
planned on one version of the brand's *memory*; policy and people adopt packets into new
versions. Under the authority configuration the judgment a report shows is the one a ledger of
SV9 authority events accepts.

| Component | State it keeps | Operations | Who it talks to |
|---|---|---|---|
| Vault operation plan execution (`src/history/repository.py`, `src/services/evidence_vault_incremental_executor.py`) | the row of `evidence_vault_operation_plans`: status, lease owner, token, generation and expiry, immutable result; the packets of the result; the scan's `analysis_status` | claim, mark running, heartbeat, persist result, fail, register source packet, register memory packet, finalize | called by the scan thread (sidecar, authority, exact resume); reads the brand's memory, which adoptions of other scans move |
| Scan lifecycle (`web/scan_runner.py`, `src/storage/scanner_api_jobs.py`) | in memory: `_SCANS`, `_SCAN_EVENTS`, `_VAULT_ACTIVATIONS`, `_SCAN_OWNERS`; in SQLite: the row of `b3s_scanner_jobs`; the report | create, start, run, approve, cancel, poll, recover | API requests and the scan's thread share the memory under `_LOCK`; copies of it are persisted after the lock is released |
| Exact-resume actions (`web/exact_resume_controller.py`, `web/scan_runner.py`) | the row of `b3s_scanner_resume_actions`, the owner of the scan, the reports | request, launch, run, publish a successor, finish, recover | excludes the ordinary run of the scan through `_SCAN_OWNERS` and other actions through a partial unique index |
| Analysis job queue (`src/storage/analysis_jobs.py`, `src/services/job_orchestration.py`, `src/workers/job_runner.py`) | the row of `analysis_jobs` | create, claim, execute by id, check for cancellation, complete, fail, cancel, retry | workers and the API are different processes on one SQLite file |
| Vault memory, adoption and review (`src/history/repository.py`, `src/services/evidence_vault_operational_memory.py`, `..._operational_candidate.py`, `..._operational_review.py`, `..._composite_group_lifecycle.py`) | append-only packets, relation reviews, adoption events and operational scores of a brand; the memory version they project to | register, activate, review, adopt, score, reopen a C7 group | the executor, scan threads and people; all of it under the brand's promotion lock |
| SV9 judgment authority (`src/services/evidence_vault_sv9_authority_application.py`, `..._authority_evaluation.py`, `evidence_vault_tile_rescan_path.py`, `src/history/repository.py`) | candidates (judgments that were made) and the ledger of authority events | read the authority, judge, store, adopt, reopen, read back | scan threads and exact resumes, several of one brand at once |
| Transactions of the history database (`src/history/repository.py`, `src/history/evidence_vault_raw_repository.py`, `src/history/migrations/`) | advisory locks and row locks | every method that writes | one another, through Postgres |
| Report store and brand catalog (`web/report_store.py`, `web/brand_catalog.py`, `scripts/import_b3s_reports_postgres.py`, `scripts/repair_brand_catalog.py`) | one JSON file per report, its row in Postgres, an SQLite index beside the files | save, import, repair, list | the end of a scan; operators; the index page |
| Acquisition worker, supervisor and IPC | a child process, its request in flight, deadlines | start, request, reply, time out, restart | the capture step of a scan |
| Scan orchestration and planning | the frozen plan of a capture | prepare a scan, choose mode and operations | capture repository, memory |
| SV9 evaluation checkpoint, review resolution | checkpoints of an evaluation; resolutions of reviews | resume an evaluation; resolve | the SV9 authority |
| Scanner API idempotency | key digests and request digests next to the rows | reserve, replay, conflict, limit of active scans | the API |
| Raw evidence and capture repository | append-only rows under content fingerprints | append, read | capture, orchestration |
| API key pool | keys, their order and their exhaustion | next, mark exhausted | collectors, LLM calls |
| Claim, tile and review ledgers; evidence ledger shadow | nothing: projections of stored rows | project, compare | SV9, reports |
| Collectors, SV9 scoring, reports, visual signature, web pages, calibration, scripts | local data of one run | sequential work | the scan |

The behaviours that are hard to test, and what correctness means for each modelled component:

* **Plan execution.** Two executors can be at work on the same plan: a lease runs out while its
  holder is still building, a request is retried, a process dies and the scan is resumed. All of
  them use the same worker id, so only the claim's token and generation separate them. A lock
  wait makes the clock sample of a transaction stale. A commit may succeed and its reply be
  lost. The brand's memory may move at any point. Correct means: one lease holder, only the
  newest holder writes a result, and it does so in time; the result is not built twice at a time
  while heartbeats beat expiry; a stored result never changes and is the one everybody
  materializes; a completed plan is materialized in full; a plan is superseded only because its
  parent memory moved; what a caller was told stays true; a plan that is retried settles.
* **Scan lifecycle.** A request may take the lock between any two steps of the thread. Status
  copies are persisted outside the lock, hence in any order. An activation takes long, runs
  without the lock and must not be cancelled halfway. The process may be restarted. Correct
  means: a terminal row is final, a cancelled scan gets no whole report and no activation, the
  event and the guard never outlive the thread, memory and row agree in the end, callers hear
  one terminal answer, every scan closes.
* **Exact resume.** The publication and the record that it happened are two steps in two stores.
  Correct means: one active action and one writer per scan, the source report is never touched,
  a completed action names a report that exists, the owner of the scan is somebody who is at
  work, an accepted action is worked on and ends.
* **Vault memory.** A call is several transactions, other calls come between them, and each may
  stop in the middle and be repeated. What was planned on a version may be adopted on a later
  one. Correct means: only a person replaces what is lit or accepts a C7 group; a row that says
  *human* was accepted in a review; nothing is applied twice; a group is reopened on the version
  that was looked at and for evidence it is made of; the next version can always be built; what
  a call answers is what the chain of versions says.
* **Transactions.** Every method takes two to five locks, spread over helpers and triggers.
  Correct means: all of them agree on one order. They do not, and correct then means that it is
  known which two disagree.
* **SV9 authority.** Judging takes minutes, in which other runs of the same scan and of other
  scans advance the ledger; what a write raises is swallowed and the answer is read back.
  Correct means: a judgment is accepted only in the place of the one it was made against, an
  open review is not ended by an older scan, accepted judgments form one line, and a run that
  reports success stands for its own judgment.
* **Report store.** Two stores and an index, three writers in different processes, no
  transaction across them; a database failure is swallowed. Correct means: an answer of the
  catalog is exactly what is stored, what it listed stays, and the stores of a reconciled
  archive do not differ.
* **Job queue.** All writes but the claim are by id alone, based on an earlier read. Correct
  means: one runner at a time, or at least none besides a run that a retry overtook; the newest
  attempt's result, or again that of an overtaken run; no job that is running and nobody runs,
  no result on a cancelled job except from a run that was past its last check, every job is over
  some day.

`PROJECT.json` lists each hazard with its line and the properties that cover it.

## The models

| Module | What it is |
|---|---|
| `OperationPlan` | the plan row, the executors, their keepers, adoptions, time |
| `PlanOutcome` | the abstract promise of a plan: a write-once outcome |
| `VaultMemory` | the packets, reviews and adopted versions of one brand, and the calls that make them |
| `BrandMemory` | the abstract promise of a brand's memory: who may change what |
| `VaultLocks` | the kinds of transactions and the locks each takes, in order |
| `JudgmentAuthority` | the candidates and the ledger of SV9 judgments, and the runs that advance it |
| `JudgmentPromise` | the abstract promise of the ledger: replace what you judged against |
| `ScanLifecycle` | one scan: memory, row, report, thread, requests, restarts |
| `ResumeActions` | the exact resumes of one scan and its ordinary run |
| `ReportCatalog` | the two stores of reports, the index, and who writes them |
| `AnalysisJobs` | one row of `analysis_jobs` and everyone who writes it |
| `*_proofs` | the theorems about the module of that name |
| `MC*` | the instances TLC checks |

The components do not import one another. Each takes its neighbour as a nondeterministic
outcome: the scan sees a plan execution that ends or raises (`Sidecar`, `Work("execute", ...)`),
a resume sees an authority application that publishes, leaves without a score, finds a report of
its source or raises. `OperationPlan` sees the rest of the Vault as a memory version that
adoptions of other scans move; `VaultMemory` sees a plan's execution as the registration of the
scan's source packet (`RegisterScan`). Composed, each pair would exceed what TLC can explore,
and the theorems would say the same: no property of one part speaks of the inside of another.
What all of them do with a transaction, to take it for one step, rests on its locks, which
`VaultLocks` looks into.

Three modules are shown to implement an abstract one: `OperationPlan` implements `PlanOutcome`,
`VaultMemory` implements `BrandMemory`, `JudgmentAuthority` implements `JudgmentPromise`. The
abstract modules know nothing of packets, leases, candidates or events; they are what another
component, or a reader, may rely on.

Some conditions hold for a whole behaviour and are variables that `Init` chooses and nothing
changes: `timely` (`OperationPlan`: a live keeper beats its lease in time), `faults`
(`ScanLifecycle`, `ResumeActions`: stores and threads may fail), `calm` (`AnalysisJobs`: no
retries, no execution by id, no killed workers), `required` (`ReportCatalog`: the database is
part of the archive), `kinds` (`VaultLocks`: which transactions a deployment runs). So one run
checks safety in every setting, and the properties that need the favourable one say so:
`EventuallySettled` speaks of `timely` behaviours, `OneAnswer`, `RowSettles` and
`FailedPublishedNothing` of those without faults, `EventuallyOver` of calm ones.
`EventuallyClosed` and `EventuallyFinal` say one thing of behaviours without faults and a weaker
one of those with them.

Every detailed module also holds *mutated forms* of some of its operators (`UpsertUnguarded` of
`Upsert`, for one). No action uses them. Each is the operator with a plausible mistake in it;
with the mistake put in the operator's place the property it is meant for is violated, which
shows that the property depends on that piece of code. `mutants` in `PROJECT.json` pairs them.

### OperationPlan

Each repository method is one Postgres transaction that holds the plan row `FOR UPDATE`, so each
is one action; the executor's calls are separate actions, with `pc[e]` as its place in
`execute_vault_operation_plan`. The correspondence:

| Code | Model |
|---|---|
| `claim_capture_operation_plan` | `ClaimSettled`, `ClaimStored`, `ClaimSupersedes`, `ClaimRefused`, `ClaimAcquires` |
| `mark_capture_operation_running`, before the `try` | `MarkRunning` |
| `_LeaseKeeper` | `keeper[e]`, `KeeperBeat`, `StopKeeper`; the heartbeat after it, `FinalBeat` |
| the head of the `try` block | `Run`; the memory is read here |
| `_build_candidate_result` | `Build` |
| `persist_capture_operation_result` | `PersistStores`, `PersistReplays`, `PersistRefused` |
| the exception handler, `fail_capture_operation_plan` | `FailPlan` |
| `_materialize_and_finalize_result` | `RegisterSource`, `CheckCompleted`, `RegisterPacket`, `Finalize*` |
| `append_evidence_vault_operational_adoption` of another scan | `Adopt` |

*Abstractions.* A fresh token is drawn with each claim, so the generation stands for the token
too. What is left of the lease, `ttl`, is counted in ticks and may go below zero; a transaction
that sampled the clock before waiting for its locks may see a lease as still live up to
`MaxWait` ticks after it ran out, so `SeenActive` is a set of possible views, `MayAdvance` and
`MayRefuse` both may hold. `persist` reads the clock a second time after its last lock, so its
check is exact. A result is a payload and the memory version it was really built on. The code
cannot see the latter: the validation compares the *declared* version, which is the plan's.
`ResultOnParent` says that the two agree nonetheless. A late heartbeat of a keeper that outlives
its `stop()` by the join timeout is left out: it carries its own token and generation, so it
either prolongs a lease its executor still holds or is refused.

*Faults* (`MaxFaults` in total): a crash of an executor, an analyzer that raises or is gone, a
database error in a heartbeat or in the persist, a persist whose commit succeeds and whose reply
is lost.

### VaultMemory

One brand. Every transaction that writes the memory takes the brand's
`evidence-vault-canonical-promotion` lock before it reads, so a transaction is one action. A
service call is a sequence of transactions, `pc[p]` its place, and calls of the sessions
interleave; a session may stop anywhere (`Crash`) and call again.

| Code | Model |
|---|---|
| `activate_evidence_vault_operational_scanner_result` | `Activate`, `Attest`, `Reopen`, `Look`, `Reread`, `Build`, `Adopt`, `Confirm`, `Score`, `Return` |
| `reopen_evidence_vault_composite_group` | `Reopen` by the delta of a scan, `ReopenContradicted` after a review |
| `review_and_adopt_evidence_vault_operational_source` | `Record`, `RegisterReviewed`, `Take`, `Return` |
| `append_evidence_vault_operational_adoption` | `AppendAdoption` |
| registration of the source of a scan, or of an exact assessment | `RegisterScan`, `RegisterExact` |
| `get_or_create_evidence_vault_operational_score_evaluation` | `Score` |
| the projection of the chain of adoptions | `Memory(v)`, `Version` |

*Abstractions.* A tile's row is reduced to who lit it and from which source; the relations that
light it are a shape per tile in what the scan found (`kept`, `lit`, `contradicted`). C7 is a
tile apart because only an accepted group lights it. Packets are immutable and named by their
content, so they are not stored: what matters is the version a source was planned on (`parent`)
and the version a memory packet is built on (`seen`), which may be newer. Of the scores only the
newest scored version is kept. A call that raises or replays in its first transaction changes
nothing and is no action. The activation of a baseline from reviewed rows, coverage supplements
and the promotion of legacy memories are left out, which is why the component is *partly*
modelled.

An observation without a property of its own: after a reopening by one scan the call goes on
(`repository.py:3385`), and the group that is active by then may be another one which the same
scan would break too. No document says that it must be reopened as well, and `ReopenJustified`
and `BrandMemory` hold all the same.

### VaultLocks

A kind of transaction is the sequence of classes of locks it takes, each line of `Program` read
off the method from its first statement to its last, helpers and triggers included. Taking a
lock again is no step; kinds with the same locks are one. `Key` says what a lock of a class is
about: the whole database, a scan, or a brand. The schema head is shared by all but a migration.
A transaction may end early between two locks, never while it waits, unless it is in a circle:
then Postgres aborts one of it (`Abort`) and the others go on. `Deployments` are the sets of
kinds that may run together; the runs put both ways of writing captures together. `Clash` is the
pair of them on one brand.

### JudgmentAuthority

`run[r]` is one call of `run_evidence_vault_sv9_authority_application`: it reads the authority
(`Begin`, `Snapshot`), judges for minutes against what it read (`Reuse`, `Judge`, `Incomplete`,
`NoScore`, and `Unsigned` for a witness that is not confirmed), stores the judgment as a
candidate (`Store`), applies it (`ApplyCandidate`, `Adopt`, `ReadBack`) or asks for a review of
the accepted one (`ApplyReview`, `Reopen`, `ReviewReadBack`), or keeps what there is (`Retain`).
`rescan` marks the tile rescan path, which runs the same steps with an answer of its own when
something fails. `Adopt` and `Reopen` are `_advance_sv9_judgment_authority`, a compare-and-set
on the end of the ledger.

*Abstractions.* What a model answers is a choice: a judgment is a score and the accepted
judgment it was made against. The operational memory's part in the witness appears as stale
outcomes only (`Unsigned`, `AdoptStale`). Different deltas of one scan against one judgment are
one review. Checkpoints, legacy v1 authorities and the resolution of a review by a person are
left out; see [what is not modelled](#what-is-not-modelled).

Two things the model shows that look surprising and that the promise therefore does not exclude:
an older scan that is retried may supersede a newer scan's judgment when no review is open, and
an older scan's reopening may take the place of a newer scan's review (the hazard at
`repository.py:6674`).

### ScanLifecycle

`pc` is the place of the scan's thread in `start_scan` and `_run`; a block under `_LOCK` is one
action and the persist of the copy it took is the next, in which any request, persist or restart
may come first. `snap` is the state in that copy, `then` where the thread continues, and the
kind of persist says what an error does: `"write"` and `"save"` raise into the handler (`"save"`
looks at the state again afterwards, as `_set_phase` does), `"note"` swallows it. A request is
two or three steps as well: the change under the lock, the persist, the event's `set()`.

`mode` is the configuration: `legacy` (no Vault), `vault` (the sidecar), `authority` (the result
comes from the operational memory). `guard` is membership in `_VAULT_ACTIVATIONS`. `told`
collects the terminal statuses the API has answered and may not take back: a restart forgets
those the row does not bear out, because the code makes no promise about them (an answer read
from memory right before a restart may change to `error`; the hazard list says so).

`report` is `"none"`, `"half"` or `"whole"`. `save_report` writes to two backends and may raise
between the two, which leaves a report that one of them shows. The thread then goes to its
handler and the scan is still cancellable, so a cancelled scan may have half a report; nothing
in the code or the docs promises otherwise, and nothing rests on it: `CancelFinal` says that no
save of a scan that was told cancelled ever ends.

`dropped` is a history variable: a cancellation or an approval whose persist raised had an event
to set and never set it. A thread that waits on that event has nobody left to wake it
(`web/scan_runner.py:1202`), which `EventuallyClosed` counts among the only ways to wait for
ever.

A cancellation lives in several places on its way: memory, the copy of a request, the row, an
answer. `Decided` is that it is in any of them, and `NoLateActivation` that nothing is activated
from then on. `CancelLost`, a theorem, names the only two statements that may overwrite it in
the memory of a living process, the acquisition gate and the rollback of a start that could not
be persisted.

### ResumeActions

One action per idempotency key. Request, launch and thread are the three lives of `pc[k]`.
`owner` is `_SCAN_OWNERS`, `current` the report under the scan's own id, `successors` the
actions that have published a report of their own, `seen`, `outcome` and `named` the locals of
the thread and of the status payload. The ordinary run owns the scan from the start, publishes
any kind of report or none, and leaves. A replayed key and a conflict change nothing and are not
actions. The branch of the publication that finds the action's successor already in the store
(`_load_exact_successor_publication`) is out of reach, since an action is started once.

### ReportCatalog

Three writers, all under a lock on a file: `save_report` of the web process (`StartSave`,
`Check`, `Intent`, `Mirror`, `Write`, `Ready`), the import script (`StartImport`, `Invalidate`,
`TakeNext`, the steps of a report, `Merge`) and the repair script (`StartRepair`, `Merge`). Each
step is one store: the intent in the index, the database, the file, the mark in the index.
`Stop` is the death of the process, at which the operating system frees the lock. The database
may fail in any step that uses it, with or without having committed; by the time its client
knows, that is decided. `List` is an answer of the catalog of brands, `told` what was ever in
one. `Damage` makes a file unreadable. `Init` covers an archive without an index, one whose
index was just built, and one whose index was built before the database was required.

*Abstractions.* The catalog is enabled; a report is its identity and its content; the domain the
catalog lists is part of the content; `B3S_POSTGRES_REQUIRED` is set exactly where the database
is used. A crash is that of a process: the machine does not lose what it has written.

An observation: before the first reconciliation of an archive that has reports in the database
only, a save of other content under the same identity during an outage of the database makes the
two stores differ. The catalog then refuses to answer (`CatalogExact` holds) until a person
repairs the archive.

### AnalysisJobs

Workers and callers of `execute_analysis_job` run the job; requests cancel and retry it. A read
and the write it leads to are two actions, because nothing but the claim is conditional in SQL.
`late` is a history variable: the runners that were past their last `cancel_check` at the time a
cancellation was written. So is `overtaken`: the attempts that were still under way when the job
was put back into the queue. A retry needs a job that is failed or cancelled, but a run may go
on after its job was cancelled, and a retry that read *failed* writes by id alone. Such a run
ends with `complete_analysis_job` or `fail_analysis_job` like any other, whatever became of the
row since. `result` is the attempt whose result the row holds.

## The runs

Twelve runs, eight that pass and four that show a disagreement. Distinct states are TLC's. What
follows from a property of a run, and the types, are not checked a second time: they are theorems
only, listed [below](#what-is-proved).

| Run | Question | Instance | States |
|---|---|---|---|
| `plan_execution` | May a late, duplicated or crashed executor spoil a plan, and does a plan that is retried settle? Is the result ever built twice at a time, and is what is materialized what is stored? The refinement of `PlanOutcome`, `EventuallySettled` | 2 executors, 2 contents, 3 plans (incremental with a candidate, incremental without a delta, diagnostic), leases of 2 ticks, lock waits of 1, 1 adoption, 4 claims, 2 faults, timely and not, `FairSpec` | 1,045,188 |
| `vault_memory` | Do interleaved, repeated and interrupted calls leave a memory that is as promised? Is a lit tile ever replaced but by a person? Five invariants, the refinement of `BrandMemory` | 2 sessions, 2 scans, 2 exact sources, 1 tile and C7, 3 pieces of evidence, overlapping groups {e1, e2} and {e2, e3} | 3,154,084 |
| `judgment_authority` | Is a judgment accepted only in the place of the one it was made against, do two judgments ever follow the same one, and does a run answer for its own? | 2 runs at a time, 2 scans, 2 scores, 4 events, 2 stored judgments | 662,782 |
| `locks_order` | Which transactions may wait in a circle? Only sets with both ways of writing the captures of one brand (`OnlyCapturesCircle`) | 3 transactions of any kinds, both ways of writing captures among them, on 2 scans of a brand and 1 of another; the deadlock detector aborts one of a circle | 2,299,126 |
| `scan_control` | May a late copy, a request, a fault or a restart undo a terminal row, publish or activate a cancelled scan, leave guard or event behind; does every scan close, and what may keep its thread for ever? | 2 requests, 3 modes, with and without faults, restarts, `FairSpec` | 54,058 |
| `resume_actions` | One action, one writer, nobody owning the scan who is gone, the source kept, failed actions without a report, and an end, by itself or by a restart? | 3 keys, with and without faults, restarts, `FairSpec` | 116,075 |
| `report_catalog` | Is an answer of the catalog exact, and does what it listed stay; do the two stores of a reconciled archive agree? | 2 processes, 2 identities with 2 contents each, with and without a database | 403,376 |
| `jobs_queue` | Does a cancellation stop the job, whoever runs it; which result may a job that is done hold, and which two workers may be at it at once; does a calm job end? | 2 workers, 1 caller that executes by id, 2 requests that cancel or retry, 2 attempts, calm and not, `FairSpec` | 1,351,326 |
| `scan_cancelled`, `scan_sidecar`, `jobs_execute`, `locks_capture` | the violations below | 2 requests and one mode; 2 workers and 1 caller; 2 transactions | |

*Why the bounds are enough.* Every hazard of the plan takes two actors: the holder of an old
claim and the holder of the new one, or two that materialize one result. Two executors show
both, since an executor that returned can start again; four claims give an expired holder, its
successor and two more retries; one adoption is enough to make a parent stale, and `Adopt` may
fall between any two steps; a fault can be placed anywhere, and the second may hit the recovery
of the first (a third would need a fifth claim). Lease length 2 separates a fresh lease from one
about to end, and `MaxWait` 1 separates the sampled clock from the true one.

The memory of `vault_memory` is not cut off: sources are finite, each is registered once and
applied at most once, so the chain ends by itself. Its two scans are chosen to clash: one lights
the tile and supersedes evidence of one group, the other supersedes evidence of both groups and
contradicts C7 with it; so a group can be reopened by a delta and by a review, and the group
that might replace it is barred by one of them. In `judgment_authority` four events are an
adoption, a reopening, a supersession and one more, two scans are an older and a newer one, and
two runs may be of the same scan. Three transactions are the smallest circle that two cannot
form, the third scan keeps two brands apart, and the order that the proof finds excludes longer
circles. In `report_catalog` two contents of one identity are the conflict, and a second
identity shows that one row's trouble silences the catalog as a whole.

Two requests are needed for a cancel against an approval and for a poll against a cancel. Three
keys allow an action, its successor after a restart and one more. Two workers, one executor and
two requests cover each pair of writers of a job: one request cancels and the other retries, or
both retry. Two attempts are an old result and a new one: a run is cancelled past its last
check, the job retried, claimed again, and the first run completes before or after the second.
The proofs remove these bounds for all safety properties of the passing runs.

*Deadlock* of the model is checked in `judgment_authority`, `locks_order`, `locks_capture` and
`report_catalog`. (A circle of locks is none: Postgres aborts one of its transactions, which is
the action `Abort`; the invariants speak of the circle itself.) It is not where the system may
really stop: a plan with its bounds used up, a memory that has taken every source, a scan whose
thread has left, a job that is over, an action that ended.

*Symmetry* is used in runs without liveness properties only: over sessions, runs, transactions
and scans, processes and the contents of one identity, requests.

### Fairness, and why the code justifies it

* `OperationPlan!Fairness`: executor threads and keepers run, the clock goes on, and the plan is
  retried as long as it is not settled. The last is an assumption about callers (a scan, a
  sidecar or a resume that comes back), so `EventuallySettled` reads "for as long as it is
  retried". No fairness on `Adopt`, no fairness for faults. `timely` says that a live keeper
  beats the lease: it beats three times per lease (`_LeaseKeeper`), and the database calls are
  short. Safety is checked with and without it.
* `ScanLifecycle!Fairness`: a thread that was started goes on, external work ends or raises (the
  network calls below have timeouts), a request that has begun ends, a stopped process is
  started again and recovers before it serves. Nobody has to approve, cancel or poll:
  `EventuallyClosed` therefore excepts a thread that waits for a decision on a blocked scan.
  Where stores fail it says that the thread ends, not how, and excepts one more wait, whose
  decision was made by a request that could not persist it and so never set the event
  (`dropped`, a history variable).
* `ResumeActions!FairSpec`: threads run, calls return or raise, a process that went away is
  started again. Where stores fail an action may stay active while the process lives;
  `EventuallyFinal` then speaks of it from a restart on. No fairness makes a restart come.
* `AnalysisJobs!Fairness`: workers poll, a run ends or raises, a request that has read writes.
  `EventuallyOver` speaks of calm behaviours, without retries and without killed workers: a
  worker that is killed leaves its job in `running`, and nothing in the code takes it from
  there.
* `VaultMemory`, `VaultLocks`, `JudgmentAuthority` and `ReportCatalog` state none. Their calls
  are repeated at will by people, scripts and scans, and nothing in the code promises that
  anybody comes back.

## What the runs found

Each of these runs checks one property, worded after a line of the repository, that the code
does not keep.

* `scan_cancelled` / `CancelledTerminal`: `_set_acquisition_gate` (`web/scan_runner.py:3041`)
  sets a scan to `blocked` whatever state it is in. A cancellation that lands between the
  thread's last check and the gate is overwritten in memory; the row stays `cancelled`.
  `docs/scanner_api_v1.md` calls `cancelled` a terminal state. What still holds, and is checked:
  the row (`RowFinal`), and no report for a scan a caller was told is cancelled (`CancelFinal`).
* `scan_sidecar` / `ActivatedStands`: the sidecar's exception handler
  (`web/scan_runner.py:1973`) gives up the activation guard, although an activation may commit
  before it raises and the comment at `web/scan_runner.py:1302` asks to keep it. A scan whose
  result is in the operational memory can then be cancelled. Under the authority configuration
  it cannot: `AuthorityStands` is checked and proved.
* `jobs_execute` / `OneRunner`: `execute_analysis_job` runs a job it did not claim, since a row
  that is not queued and a lost claim return through the same path as a claimed one
  (`src/services/job_orchestration.py:80`, `:93`).
* `locks_capture` / `NoWaitCycle`: `src/history/repository.py:628` upserts the brand's row
  before it takes the brand's advisory lock at 630. `append_evidence_vault_raw_acquisition`
  (`src/history/migrations/019_evidence_vault_verified_raw_provenance.sql:1726`, `:1896`) takes
  the advisory lock and upserts the row afterwards. Two transactions then wait for each other
  until Postgres aborts one. `docs/evidence_vault_verified_raw_provenance_v1.md:159` says that
  all write paths keep one global order. Every circle has this pair in it, whatever else runs
  (`OnlyCapturesCircle`, in `locks_order`, and a theorem); a deployment that writes captures in
  one of the two ways has no circle at all (the theorem `OneOrder`).

Consequently `OneRunner` is proved of calm behaviours only, in which workers alone run jobs
(`WorkersAlone`).

Seen while modelling and not the subject of a run: `retry_analysis_job` reads the status and
requeues by id alone (`src/services/job_orchestration.py:179`, `:181`), so the second of two
retries can move a job that a worker has claimed back to the queue. And a run that was cancelled
past its last check may complete after a retry: its result is then on a job whose newer attempt
failed, or that is still being run. `jobs_queue` explores both. No document excludes them;
`OnlyOvertaken` and `ResultIsNewest` say that they are the only ways in which two workers are at
one job, and in which a job holds an older result.

## What is proved

The theorems are stated for any number of executors, sessions, runs, transactions, requests,
keys, processes and workers, for any plans, sources, contents and values of the bounds. Their
only assumptions are the `ASSUME`s of the modules (types of the constants), which TLC evaluates
in the runs, and for `OneOrder` alone that every deployment writes captures in one way
(`OnePath`).

Every safety property of every passing run is a theorem: the invariants, the action properties
and the three refinements. Some theorems state more than a run asks. They are the `TypeCorrect`
of every module; in `OperationPlan` `ChecksHold` and `SupersededRightly`; in `VaultMemory`
`LitStaysLit` and `VersionsCount`; `OneSuccess`, `OneOrder` and `LostTwoWays`; in
`ResumeActions` `CompletedHolds` and `ActionWorkedOn`; in `AnalysisJobs` `WorkersAlone` and
`JobsNeverStranded`.

Two of them join components. `OperationPlan` knows the rest of the Vault as a memory version
that `Adopt` counts up; `VersionsCount` proves of `VaultMemory` that its versions do just that,
one at a time and never back, so that whoever finds the version it read finds the memory it
read. `ActionWorkedOn` and `JobsNeverStranded` are the safety half of `EventuallyFinal` and
`EventuallyOver`: something is always there to move; that it does move is left to TLC.

**`OperationPlan_proofs`.** `TypeCorrect`, `Fenced` (`OneHolder`), `BuiltOnParent`
(`ResultOnParent`), `CompletedInFull` (`CompletedMaterialized`), `SupersededRightly`
(`SupersededJustified`), `RepliesAreTruthful` (`ReplyTruthful`), `LiveLeaseStays`
(`LiveLeaseKept`), `LateWriterFenced` (`FencedWrite`), `Implements` (`ImplementsOutcome`),
`BuiltByOne` (`OneBuilder`), `MaterializesWhatIsStored` (`MaterializesStored`) and `ChecksHold`
(`RowChecks`, the table's CHECK constraints). None of these is inductive alone. `IInv` adds what
the argument needs:

* `Built`: past the build an executor holds a result, and it was built on the plan's parent.
  `Run` compares the memory it read, and what `claim` hands out to be materialized is the stored
  result.
* `Fence`: the row's token is 0 or the newest generation, and the generations executors hold are
  at most that one and pairwise different. Only `ClaimAcquires` hands out a generation, and it
  hands out a new one.
* `Forward`: the memory never falls behind the plan's parent, so a stale parent stays stale;
  hence what was superseded was rightly so.

Because many actions touch the row, each step is first classified once (`StepClassified`): the
row is kept, acquired, released, stored or finalized. The inductive steps of `Fence`,
`RowChecks` and the outcome properties are then by cases on five classes instead of all actions.
The refinement uses the same classes: `Stored1` is `Store` or `Supersede` of `PlanOutcome`,
`Finalized1` is `Complete` or `Supersede`, the rest stutters. `LiveLeaseStays` needs to know in
addition that what is acquired was free or had run out, and that only its holder releases a
lease.

`BuiltByOne` is of behaviours in which heartbeats beat expiry (`timely`), while the parent
memory stands: `WorkLeased` says that whoever is at work has the lease the row names and time
left, so that no claim is granted; a beat renews it, a tick may not end it, and by `Fence` it is
nobody else's. For `MaterializesWhatIsStored` the lease plays no part. A stored result,
registered packets and a move of the memory are never taken back (`StoredStays`), so what an
executor knew at one step of the materialization holds at the next; and a diagnostic plan, whose
parent nobody compares, never has a result (`Undiagnosed`). It follows that no finalization is
refused, which is why the model has no action for the errors `finalize_capture_operation_plan`
raises.

**`VaultMemory_proofs`.** `TypeCorrect`, `AuthorityIsBacked`, `EachAppliedOnce`,
`ReopeningsAreJustified`, `NeverEmptied`, `RepliesAreTruthful`, `Implements`
(`ImplementsMemory`), `LitStaysLit` (`AuthorityGrows`) and `VersionsCount`. The invariant is a
history of the versions (`History`): each row comes from a source planned on an earlier version,
and one lit by a human from a review that accepts it (`RowsSound`); a tile once lit stays lit
(`TilesStay`); a memory with a group bars no evidence (`NothingBarred`); a review or a reopening
makes the version right after its source's parent, and the policy one that settles its source
for good (`Origins`); each version accepts a tile (`Inhabited`); a group that was reopened is
not the brand's again (`GoneForGood`). `Held` says that what a session carries from one
transaction to the next is still true of the stores. Each step is classified first by what it
may do to the stores (`Grown`: sources registered, reviews recorded, at most one version
appended), so that `History` and what other sessions hold are shown to survive growth once, and
not action by action. The refinement follows from the same facts: a policy's version differs
from its parent's only in tiles that were not lit. The last two theorems are read off the
refinement: what the promise allows no step to do, no step of `VaultMemory` does (`StepMaps`).

**`JudgmentAuthority_proofs`.** `TypeCorrect`, `AnswersAreTrue` (`AnswerTrue`), `Implements`
(`ImplementsPromise`), `OneLine` (`NeverForks`) and `OneSuccess`. The ledger only refers
backward (`Backward`), a run has read a part of it and, under way, has a scan and no answer
(`RunOK`). From the two, a compare-and-set on the end of the ledger is one on the accepted
judgment, which is what the promise is about.

`NeverForks` is not inductive, as it says nothing of what is accepted now. `Line` adds it: an
adoption is of a judgment made against something older than itself, and nothing older is
accepted or adopted against from there on; reopening leaves the accepted judgment in place,
which is why it cannot bring an older one back. `OneSuccess` is what two callers may take from
it: two runs that were told of success against the same accepted judgment stand for the same
judgment.

**`VaultLocks_proofs`.** `TypeCorrect`, `OneCause` (`OnlyCapturesCircle`), of any transactions
on any scans and brands, and `OneOrder`: where every deployment writes captures in one way
nobody waits in a circle (`NoWaitCycle`) and the deadlock detector never aborts. The proof
exhibits the order, a `Rank` of the classes of locks. One class has no fixed place: the brand's
row comes after the brand's advisory lock where a raw append of that brand is in the set
(`Late`), before it where not. In a set without a `Clash` every program ascends in that order
(`Ascending`), and both sides of a wait agree on the place of the lock they wait for, since the
row and the append are of one brand. So who is waited for waits for something higher
(`WaitsUp`), which in a circle would go on for ever, and there are nine ranks.

**`ScanLifecycle_proofs`.** `TypeCorrect`, `AlwaysAttended` (`Attended`), `RowStaysFinal`
(`RowFinal`), `ActivationInTime` (`NoLateActivation`), `LostTwoWays` (`CancelLost`),
`ActivationStands` (`AuthorityStands`), `CancelStaysFinal` (`CancelFinal`), `OneAnswerGiven`
(`OneAnswer`) and `RowComesToRest` (`RowSettles`). The inductive invariant says where the thread
can be when memory looks a certain way: before it is registered nobody has heard of the scan
(`Unheard`), a persist only continues to its own successors (`Continues`), a scan that is over
has neither event nor guard (`Quiet`), nor has one whose thread leaves (`Leaving`), terminal
states other than `cancelled` only occur at the end (`Finished`), the guard is held exactly
between the boundary and the publication, mode by mode (`Guarded`, `Modal`). For `CancelFinal`
two parts are added: once the cancellation is decided, the event is gone and the thread is
cancelled, waits for that event or is leaving (`Gone`), and a whole report implies a scan that
is done, failed or gone (`Reported`). `Gone` is the delicate one: the gate may turn a cancelled
scan into a blocked one (see above), and the proof shows why no report follows even then. The
cancellation took the event away, so the wait ends at once without a decision.
`NoLateActivation` follows from `Gone` too: an activation takes a thread that is neither waiting
nor leaving, and a guard that no cancelled scan has. The last two theorems are about behaviours
without faults and use `SInv`: whatever terminal status was said is what memory says, or it is a
cancellation that the gate has overwritten, whose thread stops at the wait (`Spoken`); how the
scan ended is in the row, or somebody is about to write it (`Written`).

**`ResumeActions_proofs`.** `TypeCorrect`, `ActiveAlone` (`OneActive`), `OwnersAtWork`
(`OwnerWorks`: at most one thread writes reports, and who owns the scan is at work),
`CompletedHolds` (`CompletedStands`), `SourceStays` (`SourceKept`), `FailedUnpublished`
(`FailedPublishedNothing`) and `ActionWorkedOn` (`ActionAttended`). The invariant adds: what a
thread is about to report is in the store (`Reported`); before the ordinary run has published no
resume has had its turn (`Fresh`); a completed action has nothing left to do (`Closed`); without
faults, an action with a successor has not failed and is going to say that it completed
(`Published`); without faults nobody gives up on recording an end (`Answered`), so an active
action still has its thread.

**`AnalysisJobs_proofs`.** `TypeCorrect`, `CancelHolds` (`CancelStops`), `OvertakenAlone`
(`OnlyOvertaken`) and `ResultStaysNewest` (`ResultIsNewest`), with all requests, retries,
crashes and the double runs of `execute_analysis_job` included. While the row is cancelled,
every runner past its last check was there when the cancellation was written (`ChecksSeen`). No
worker is ahead of the attempt in the row (`Numbered`), so the next number is new. The delicate
part is `Behind`: no run under way is ahead of the attempt in the row, one that is behind it was
overtaken, and while the job can be claimed all of them were. So a claim, the only step that
counts up, leaves no run behind that is not noted. For calm behaviours `WorkersAlone` (`OneWorker`) and
`JobsNeverStranded` (`NeverStranded`), by `CalmInv`: at most one runner is at work. That workers
and callers of `execute_analysis_job` are different actors is an assumption of the module.

**`ReportCatalog_proofs`.** `TypeCorrect`, `Exact` (`CatalogExact`), `Stands` (`ToldStands`) and
`NeverApart` (`StoresAgree`). The lock makes the row of the report in work the worker's own:
from its intent to its mark it is pending with that content (`OwnRow`). Once an index is
settled, or the archive was reconciled (`Known`), it knows each stored report and no other
content of it (`Truthful`), so that an intent for other content is refused before a store is
touched; and what was listed is in the index (`Kept`), whose rows are never taken out.

## What is only model-checked

`EventuallySettled`, `EventuallyClosed`, `EventuallyFinal` and `EventuallyOver`. Liveness under
fairness is beyond the prover. So is, by its nature, what the four runs show that find a
violation.

## What is not modelled

* Payloads: evidence, packets, scores, diagnostics, phases, job events. The models keep what
  decides control flow.
* Inside modelled components: the reservation of an Idempotency-Key in `POST /scans`
  (`ScanLifecycle` keeps only the row it inserts); in the Vault the activation of a baseline
  from reviewed rows, coverage supplements and the promotion of legacy memories; in the SV9
  authority checkpoints and legacy v1 authorities; in the report store saves with the catalog
  disabled and the caches of the index page. These components are marked *partly*.
* The resolution of an SV9 review by a person. A resolution demands that the witness of the
  candidate name the active event of the SV9 authority
  (`src/services/evidence_vault_sv9_review_resolution.py:310-322`), where the witness of every
  v2 candidate the code builds names the adoption of the operational memory. No candidate
  passes, so a faithful action would never be enabled.
* The acquisition worker: one connection carries one request to one child process, so what other
  actors can see of it is a capture that ends or raises, which `ScanLifecycle` has. What remains
  are frames and wall-clock deadlines.
* Orchestration and planning of a scan: a pure decision over a capture and the memory. Its
  outcome is where `OperationPlan` starts and the kind of activation `VaultMemory` takes.
* The raw evidence repository: inserts under content fingerprints, each in one transaction. Its
  locks are in `VaultLocks`.
* The API key pool: a round-robin index under one lock. Each call is one step.
* Ledgers, collectors, scoring, prompts, reports, image analysis, web pages, calibration,
  deployment and scripts: projections, sequential computation, or input and output of one run,
  without a protocol between actors. They are most of the repository's lines.
* Power loss, the loss of committed writes, and clocks that disagree by more than `MaxWait`.

## The plan

On disk, modelled, checked and proved: `OperationPlan` with `PlanOutcome` (the write path of the
Vault), `ScanLifecycle` (what a user observes of a scan), `ResumeActions` (the second writer of
reports), `AnalysisJobs` (the other queue), `VaultMemory` with `BrandMemory` (what the plans
feed), `VaultLocks` (deadlock), `JudgmentAuthority` with `JudgmentPromise` (what a report
shows), `ReportCatalog` (where it is kept).

What is left, in the order of its worth:

1. The left-out operations of `VaultMemory`: the activation of a baseline and coverage
   supplements, which add two more ways to make a version and no new kind of promise.
2. The reservation of Idempotency-Keys in front of `ScanLifecycle` and `ResumeActions`: replay,
   conflict, the limit of active scans. Theorem: one scan per key and request.
3. The resolution of SV9 reviews, when the code builds candidates it accepts.
4. The ledgers as functions, compared with reference definitions over bounded inputs.
5. Safety halves of the other two liveness properties, as `ActionAttended` is one of
   `EventuallyFinal`: that an unsettled plan is always claimable, leased to somebody who is at
   work, or about to run out, and that no thread of a scan is left with nothing to wait for.

The project keeps its runs few, one per question; a further one would take the place of, or be
merged with, one whose question it includes, as the settings that `Init` chooses have already
merged safety and liveness of one component.

## Working with the project

`tlc -config ScanLifecycle_all.cfg MCScanLifecycle.tla` checks a run. The longest,
`VaultMemory_all.cfg` and `OperationPlan_all.cfg`, take two to three minutes. `tlapm
OperationPlan_proofs.tla` checks a proof. A `.cfg` belongs to the `MC` module whose name it
begins with. When code named in `map` (`PROJECT.json`) changes, the definition it is mapped to
is the one to look at.
