---------------------------- MODULE ReportCatalog ----------------------------
(***************************************************************************)
(* The archive of reports, two stores written one after the other: the     *)
(* history database, whose failures save_report swallows, and one file per *)
(* report, created by a link and never replaced.  Beside the files lies an *)
(* index that the catalog of brands is answered from.                      *)
(*                                                                         *)
(* A save notes its intent in the index, writes both stores and marks the  *)
(* row ready; the import script writes the database only and rebuilds the  *)
(* index at its end; the repair script rebuilds it from what is stored.    *)
(* All three run under a lock on a file, which the operating system frees  *)
(* when its holder dies.  A process can die between any two steps, and the *)
(* database can fail before or after it has committed.                     *)
(*                                                                         *)
(* Each transaction on the index is one step.  The names ending in         *)
(* Unlocked, Over and Partial are mutated forms.                           *)
(***************************************************************************)
EXTENDS FiniteSets

CONSTANTS
  Processes,   \* threads of the server, and the scripts
  Ids,         \* identities of reports
  Reports,     \* contents of reports
  IdOf,        \* the identity each content carries
  Deployments, \* subset of BOOLEAN: is the database required?
  None,        \* no content, no row, no holder
  Unreadable   \* a file that is there and cannot be read as its report

Rows == [report : Reports, state : {"pending", "ready", "conflict"}]

ASSUME CatalogAssumption ==
  /\ IdOf \in [Reports -> Ids]
  /\ Deployments \subseteq BOOLEAN
  /\ None \notin Reports \cup Processes \cup Rows \cup {Unreadable}
  /\ Unreadable \notin Reports

VARIABLES
  required,    \* B3S_POSTGRES_REQUIRED (fixed at the start)
  postgres,    \* the report each identity has in the database
  file,        \* the file of each identity
  rows,        \* the row of each identity in the index
  complete,    \* catalog_state.complete
  reconciled,  \* catalog_state.postgres_reconciled
  lock,        \* who holds the lock of the catalog
  job,         \* what each process is doing
  told         \* history: the reports that were ever in an answer

index == <<rows, complete, reconciled>>
stores == <<postgres, file>>
vars == <<required, stores, index, lock, job, told>>

NoJob == [kind |-> "none", at |-> "idle", report |-> None, todo |-> {}, failed |-> FALSE]

\* The contents that can be read of an identity, and whether it is in a store.
Contents(i) == {postgres[i], file[i]} \cap Reports
Stored(i) == postgres[i] # None \/ file[i] # None

\* _repair_locked: the rows of two stores that agree, each identity once.
Mergeable(pg, files) ==
  \A i \in Ids : /\ files[i] # Unreadable
                 /\ pg[i] # None /\ files[i] # None => pg[i] = files[i]
Merged(pg, files) ==
  [i \in Ids |-> IF pg[i] = None /\ files[i] = None THEN None
                 ELSE [report |-> IF pg[i] # None THEN pg[i] ELSE files[i],
                       state |-> "ready"]]

Empty == [i \in Ids |-> None]
Archives == {a \in [Ids -> Reports \cup {None}] :
               \A i \in Ids : a[i] # None => IdOf[a[i]] = i}

\* An archive whose stores agree and, beside it, no index yet, one that has
\* just been built, or one built before the database was required.
Init ==
  /\ required \in Deployments
  /\ postgres \in IF required THEN Archives ELSE {Empty}
  /\ file \in Archives
  /\ Mergeable(postgres, file)
  /\ complete \in BOOLEAN /\ reconciled \in BOOLEAN
  /\ reconciled => complete /\ required
  /\ rows = IF ~complete THEN Empty
            ELSE Merged(IF reconciled THEN postgres ELSE Empty, file)
  /\ lock = None
  /\ job = [p \in Processes |-> NoJob]
  /\ told = {}

-----------------------------------------------------------------------------
(* The course of a job *)

Starts(p, j) ==
  /\ job[p] = NoJob /\ lock = None
  /\ lock' = p /\ job' = [job EXCEPT ![p] = j]

Moves(p, s) == job' = [job EXCEPT ![p].at = s] /\ UNCHANGED lock

Ends(p) == lock' = None /\ job' = [job EXCEPT ![p] = NoJob]

\* An exception: the import script counts it and goes on.
Raises(p) ==
  IF job[p].kind = "import"
    THEN job' = [job EXCEPT ![p].at = "next", ![p].failed = TRUE] /\ UNCHANGED lock
    ELSE Ends(p)

At(p, s) == job[p].at = s
Row(p) == rows[IdOf[job[p].report]]

StartSave(p, r) ==
  /\ Starts(p, [NoJob EXCEPT !.kind = "save", !.at = "check", !.report = r])
  /\ UNCHANGED <<required, stores, index, told>>

StartImport(p, batch) ==
  /\ required
  /\ Starts(p, [NoJob EXCEPT !.kind = "import", !.at = "invalidate", !.todo = batch])
  /\ UNCHANGED <<required, stores, index, told>>

StartRepairUnlocked(p) ==
  /\ job[p] = NoJob
  /\ job' = [job EXCEPT ![p] = [NoJob EXCEPT !.kind = "repair", !.at = "invalidate"]]
  /\ UNCHANGED <<required, stores, index, lock, told>>
StartRepair(p) ==
  /\ Starts(p, [NoJob EXCEPT !.kind = "repair", !.at = "invalidate"])
  /\ UNCHANGED <<required, stores, index, told>>

\* The death of the process or an error nobody catches; one that concerns a
\* report of an import is counted.
Stop(p) ==
  /\ job[p] # NoJob
  /\ \/ Ends(p)
     \/ job[p].at \in {"intent", "ready"} /\ Raises(p)
  /\ UNCHANGED <<required, stores, index, told>>

-----------------------------------------------------------------------------
(* One report *)

\* save_report looks at the file first.
Check(p) ==
  /\ At(p, "check")
  /\ LET found == file[IdOf[job[p].report]] IN
       /\ IF found \in {None, job[p].report} THEN Moves(p, "intent") ELSE Ends(p)
       /\ complete' = (complete /\ found # Unreadable)
  /\ UNCHANGED <<required, stores, rows, reconciled, told>>

IntentOver(p) ==
  /\ At(p, "intent")
  /\ LET r == job[p].report IN
       /\ rows' = [rows EXCEPT ![IdOf[r]] = [report |-> r, state |-> "pending"]]
       /\ Moves(p, "mirror")
  /\ UNCHANGED <<required, stores, complete, reconciled, told>>
\* begin_intent: a row of another content becomes a conflict.
Intent(p) ==
  /\ At(p, "intent")
  /\ LET r == job[p].report IN
       IF Row(p) # None /\ Row(p).report # r
         THEN /\ rows' = [rows EXCEPT ![IdOf[r]].state = "conflict"]
              /\ Raises(p)
         ELSE /\ rows' = [rows EXCEPT ![IdOf[r]] = [report |-> r, state |-> "pending"]]
              /\ Moves(p, "mirror")
  /\ UNCHANGED <<required, stores, complete, reconciled, told>>

\* import_report, one transaction.  A conflict is raised; of any other
\* failure, before or after the commit, save_report only writes a log entry.
Mirror(p) ==
  /\ At(p, "mirror")
  /\ LET r == job[p].report
         held == postgres[IdOf[r]]
         written == [postgres EXCEPT ![IdOf[r]] = r]
     IN \/ /\ required /\ held \in {None, r}
           /\ postgres' = written
           /\ Moves(p, IF job[p].kind = "import" THEN "ready" ELSE "write")
        \/ /\ required /\ held \notin {None, r}
           /\ Raises(p)
           /\ UNCHANGED postgres
        \/ /\ postgres' \in {postgres} \cup
                            (IF required /\ held \in {None, r} THEN {written} ELSE {})
           /\ IF job[p].kind = "import" THEN Raises(p) ELSE Moves(p, "write")
  /\ UNCHANGED <<required, file, index, told>>

\* _write_immutable_report_file
Write(p) ==
  /\ At(p, "write")
  /\ LET r == job[p].report IN
       IF file[IdOf[r]] \in {None, r}
         THEN file' = [file EXCEPT ![IdOf[r]] = r] /\ Moves(p, "ready")
         ELSE Ends(p) /\ UNCHANGED file
  /\ UNCHANGED <<required, postgres, index, told>>

\* mark_ready finds the row its begin_intent left, or raises.
Ready(p) ==
  /\ At(p, "ready")
  /\ LET r == job[p].report IN
       IF Row(p) = [report |-> r, state |-> "pending"]
         THEN /\ rows' = [rows EXCEPT ![IdOf[r]].state = "ready"]
              /\ IF job[p].kind = "import" THEN Moves(p, "next") ELSE Ends(p)
         ELSE Raises(p) /\ UNCHANGED rows
  /\ UNCHANGED <<required, stores, complete, reconciled, told>>

-----------------------------------------------------------------------------
(* The scripts *)

\* mark_incomplete, a transaction of its own
Invalidate(p) ==
  /\ At(p, "invalidate")
  /\ complete' = FALSE
  /\ Moves(p, IF job[p].kind = "import" THEN "next" ELSE "merge")
  /\ UNCHANGED <<required, stores, rows, reconciled, told>>

\* The next report of an import, or its end: with no failure, a repair.
TakeNext(p) ==
  /\ At(p, "next")
  /\ \/ \E r \in job[p].todo :
          /\ job' = [job EXCEPT ![p].at = "intent", ![p].report = r, ![p].todo = @ \ {r}]
          /\ UNCHANGED lock
     \/ /\ job[p].todo = {} /\ ~job[p].failed
        /\ job' = [job EXCEPT ![p] = [NoJob EXCEPT !.kind = "repair", !.at = "invalidate"]]
        /\ UNCHANGED lock
     \/ /\ job[p].todo = {} /\ job[p].failed
        /\ Ends(p)
  /\ UNCHANGED <<required, stores, index, told>>

\* a mutated form that indexes the files although the database is away
MergePartial(p) ==
  /\ At(p, "merge")
  /\ \E pg \in {postgres, Empty} :
       /\ Mergeable(pg, file)
       /\ rows' = Merged(pg, file)
  /\ complete' = TRUE /\ reconciled' = required
  /\ Ends(p)
  /\ UNCHANGED <<required, stores, told>>
\* and one that lets the database prevail over a file of another content
MergeOver(p) ==
  /\ At(p, "merge")
  /\ \A i \in Ids : file[i] # Unreadable
  /\ rows' = Merged(postgres, file)
  /\ complete' = TRUE /\ reconciled' = required
  /\ Ends(p)
  /\ UNCHANGED <<required, stores, told>>
\* _repair_locked: one transaction over both stores, or nothing.
Merge(p) ==
  /\ At(p, "merge")
  /\ \/ /\ Mergeable(postgres, file)
        /\ rows' = Merged(postgres, file)
        /\ complete' = TRUE /\ reconciled' = required
     \/ UNCHANGED index
  /\ Ends(p)
  /\ UNCHANGED <<required, stores, told>>

-----------------------------------------------------------------------------
(* Readers and the disk *)

Settled == complete /\ (required => reconciled)

Answers == Settled /\ \A i \in Ids : rows[i] # None => rows[i].state = "ready"

Listed == {rows[i].report : i \in {j \in Ids : rows[j] # None}}

\* list_domains, read in one transaction
List ==
  /\ Answers
  /\ told' = told \cup Listed
  /\ UNCHANGED <<required, stores, index, lock, job>>

\* A file is damaged from outside.
Damage(i) ==
  /\ file[i] # None
  /\ file' = [file EXCEPT ![i] = Unreadable]
  /\ UNCHANGED <<required, postgres, index, lock, job, told>>

Step(p) ==
  \/ Check(p) \/ Intent(p) \/ Mirror(p) \/ Write(p) \/ Ready(p)
  \/ Invalidate(p) \/ TakeNext(p) \/ Merge(p)

Next ==
  \/ \E p \in Processes :
       \/ \E r \in Reports : StartSave(p, r)
       \/ \E batch \in SUBSET Reports : StartImport(p, batch)
       \/ StartRepair(p) \/ Stop(p) \/ Step(p)
  \/ List
  \/ \E i \in Ids : Damage(i)

Spec == Init /\ [][Next]_vars

-----------------------------------------------------------------------------
(* Properties *)

\* Every variable has its type, identities agree with contents, and whoever
\* works on the archive holds the lock.
TypeOK ==
  /\ required \in Deployments
  /\ postgres \in Archives
  /\ file \in [Ids -> Reports \cup {None, Unreadable}]
  /\ \A i \in Ids : file[i] \in Reports => IdOf[file[i]] = i
  /\ rows \in [Ids -> Rows \cup {None}]
  /\ \A i \in Ids : rows[i] # None => IdOf[rows[i].report] = i
  /\ complete \in BOOLEAN /\ reconciled \in BOOLEAN
  /\ lock \in Processes \cup {None}
  /\ job \in [Processes -> [kind : {"none", "save", "import", "repair"},
                            at : {"idle", "check", "intent", "mirror", "write", "ready",
                                  "invalidate", "next", "merge"},
                            report : Reports \cup {None}, todo : SUBSET Reports,
                            failed : BOOLEAN]]
  /\ \A p \in Processes :
       /\ lock = p <=> job[p] # NoJob
       /\ job[p] # NoJob => job[p].kind # "none" /\ job[p].at # "idle"
       /\ job[p].at \in {"check", "intent", "mirror", "write", "ready"} =>
            job[p].report # None
  /\ told \subseteq Reports

\* Whenever the catalog answers, it lists exactly the reports that are stored,
\* each with the only content any store has of it.
CatalogExact ==
  Answers => \A i \in Ids : /\ rows[i] # None <=> Stored(i)
                            /\ rows[i] # None => Contents(i) \subseteq {rows[i].report}

\* What was ever listed stays in the archive under that content: no failure
\* of a store, crash, import or repair lets another content take its place.
ToldStands ==
  \A r \in told : Stored(IdOf[r]) /\ Contents(IdOf[r]) \subseteq {r}

\* Once the index was built over the files and the database, the two never hold
\* different contents of a report, not even while the index is out of use: a
\* content that neither refuses is the one the other has.  Without that, no
\* repair could settle the archive again.
StoresAgree == reconciled => \A i \in Ids : \A r, s \in Contents(i) : r = s
=============================================================================
