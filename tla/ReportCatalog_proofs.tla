------------------------ MODULE ReportCatalog_proofs ------------------------
(* Theorems about ReportCatalog for any processes, identities and contents. *)
(*                                                                          *)
(* The lock makes the row of the report in work the worker's own: from its  *)
(* intent to mark_ready it is pending with that content.  Once an index is  *)
(* settled it knows every stored report, so begin_intent refuses any other  *)
(* content before a store is touched, whatever fails afterwards.            *)
EXTENDS ReportCatalog, TLAPS

\* Every stored identity has a row, and its row the only content stored.
Truthful(i) ==
  /\ Stored(i) => rows[i] # None
  /\ rows[i] # None => Contents(i) \subseteq {rows[i].report}

\* The row of the report in work.
OwnRow(p) ==
  /\ job[p].at \in {"mirror", "write", "ready"} =>
       Row(p) = [report |-> job[p].report, state |-> "pending"]
  /\ job[p].at = "ready" => Stored(IdOf[job[p].report])

Kept(r) ==
  /\ rows[IdOf[r]] # None /\ rows[IdOf[r]].report = r
  /\ Stored(IdOf[r]) /\ Contents(IdOf[r]) \subseteq {r}

\* The index is settled, or was once built over both stores: neither mark_incomplete
\* nor a failed repair takes a row away.
Known == Settled \/ reconciled

Backed ==
  /\ \A i \in Ids : rows[i] # None /\ rows[i].state = "ready" => Stored(i)
  /\ Known => \A i \in Ids : Truthful(i)
  /\ \A r \in told : Kept(r)

IInv == Backed /\ \A p \in Processes : OwnRow(p)

-----------------------------------------------------------------------------
(* Types *)

Jobs == [kind : {"none", "save", "import", "repair"},
         at : {"idle", "check", "intent", "mirror", "write", "ready",
               "invalidate", "next", "merge"},
         report : Reports \cup {None}, todo : SUBSET Reports, failed : BOOLEAN]

\* A job under way, and what TypeOK says of the lock and the jobs.
Live(j) ==
  /\ j \in Jobs /\ j.kind # "none" /\ j.at # "idle"
  /\ j.at \in {"check", "intent", "mirror", "write", "ready"} => j.report # None

JobsOK ==
  /\ lock \in Processes \cup {None}
  /\ job \in [Processes -> Jobs]
  /\ \A p \in Processes : /\ lock = p <=> job[p] # NoJob
                          /\ job[p] # NoJob => Live(job[p])

StoresOK ==
  /\ required \in Deployments
  /\ postgres \in Archives
  /\ file \in [Ids -> Reports \cup {None, Unreadable}]
  /\ \A i \in Ids : file[i] \in Reports => IdOf[file[i]] = i

IndexOK ==
  /\ rows \in [Ids -> Rows \cup {None}]
  /\ \A i \in Ids : rows[i] # None => IdOf[rows[i].report] = i
  /\ complete \in BOOLEAN /\ reconciled \in BOOLEAN

LEMMA TypeParts == TypeOK <=> JobsOK /\ StoresOK /\ IndexOK /\ told \subseteq Reports
<1>1. NoJob.kind = "none" /\ NoJob.at = "idle" /\ NoJob \in Jobs
  BY DEF NoJob, Jobs
<1>2. TypeOK => JobsOK
  BY DEF TypeOK, JobsOK, Live, Jobs
<1>3. JobsOK /\ StoresOK /\ IndexOK /\ told \subseteq Reports => TypeOK
  <2> SUFFICES ASSUME JobsOK, StoresOK, IndexOK, told \subseteq Reports PROVE TypeOK
      OBVIOUS
  <2>1. \A p \in Processes :
          job[p].at \in {"check", "intent", "mirror", "write", "ready"} =>
            job[p].report # None
    BY <1>1 DEF JobsOK, Live
  <2> QED
    BY <2>1 DEF TypeOK, JobsOK, StoresOK, IndexOK, Live, Jobs
<1> QED
  BY <1>2, <1>3 DEF TypeOK, StoresOK, IndexOK

LEMMA TypesAfter ==
  JobsOK' /\ StoresOK' /\ IndexOK' /\ (told \subseteq Reports)' => TypeOK'
BY TypeParts, PTL

LEMMA NothingLive == NoJob \in Jobs /\ ~Live(NoJob)
BY DEF NoJob, Live, Jobs

\* Who starts finds every job done; who works is the only one that does.
LEMMA Alone ==
  ASSUME JobsOK, NEW p \in Processes, job[p] # NoJob \/ lock = None
  PROVE  \A q \in Processes \ {p} : job[q] = NoJob
BY CatalogAssumption DEF JobsOK

LEMMA StartTyped ==
  ASSUME JobsOK, NEW p \in Processes, NEW j, Live(j), Starts(p, j)
  PROVE  JobsOK' /\ job'[p] = j /\ \A q \in Processes \ {p} : job'[q] = NoJob
<1>1. \A q \in Processes \ {p} : job[q] = NoJob
  BY Alone DEF Starts
<1>2. job'[p] = j /\ j \in Jobs /\ j # NoJob
  BY NothingLive DEF Starts, Live, JobsOK
<1> QED
  BY <1>1, <1>2, CatalogAssumption DEF Starts, JobsOK

LEMMA GoesTyped ==
  ASSUME JobsOK, NEW p \in Processes, job[p] # NoJob, NEW j, Live(j),
         job' = [job EXCEPT ![p] = j], lock' = lock
  PROVE  JobsOK' /\ job'[p] = j /\ \A q \in Processes \ {p} : job'[q] = NoJob
<1>1. \A q \in Processes \ {p} : job[q] = NoJob
  BY Alone
<1>2. job'[p] = j /\ j \in Jobs /\ j # NoJob
  BY NothingLive DEF Live, JobsOK
<1> QED
  BY <1>1, <1>2 DEF JobsOK

LEMMA EndTyped ==
  ASSUME JobsOK, NEW p \in Processes, job[p] # NoJob, Ends(p)
  PROVE  JobsOK' /\ \A q \in Processes : job'[q] = NoJob
<1>1. \A q \in Processes \ {p} : job[q] = NoJob
  BY Alone
<1>2. \A q \in Processes : job'[q] = NoJob
  BY <1>1 DEF Ends, JobsOK
<1> QED
  BY <1>2, NothingLive, CatalogAssumption DEF Ends, JobsOK

LEMMA MoveTyped ==
  ASSUME JobsOK, NEW p \in Processes, job[p] # NoJob,
         NEW s \in {"check", "intent", "mirror", "write", "ready",
                    "invalidate", "next", "merge"},
         s \in {"check", "intent", "mirror", "write", "ready"} => job[p].report # None,
         Moves(p, s)
  PROVE  /\ JobsOK' /\ job'[p] = [job[p] EXCEPT !.at = s]
         /\ job'[p].at = s /\ job'[p].report = job[p].report
         /\ \A q \in Processes \ {p} : job'[q] = NoJob
<1> DEFINE j == [job[p] EXCEPT !.at = s]
<1>1. Live(job[p]) /\ job[p] \in Jobs
  BY DEF JobsOK
<1>2. Live(j) /\ j.at = s /\ j.report = job[p].report
  BY <1>1 DEF Live, Jobs
<1>3. job' = [job EXCEPT ![p] = j] /\ lock' = lock
  BY DEF Moves, JobsOK
<1> QED
  BY <1>2, <1>3, GoesTyped

LEMMA RaiseTyped ==
  ASSUME JobsOK, NEW p \in Processes, job[p] # NoJob, Raises(p)
  PROVE  /\ JobsOK' /\ job'[p].at \in {"idle", "next"}
         /\ \A q \in Processes \ {p} : job'[q] = NoJob
<1>1. CASE job[p].kind = "import"
  <2> DEFINE j == [job[p] EXCEPT !.at = "next", !.failed = TRUE]
  <2>1. Live(job[p]) /\ job[p] \in Jobs
    BY DEF JobsOK
  <2>2. Live(j) /\ j.at = "next"
    BY <2>1 DEF Live, Jobs
  <2>3. job' = [job EXCEPT ![p] = j] /\ lock' = lock
    BY <1>1 DEF Raises, JobsOK
  <2> QED
    BY <2>2, <2>3, GoesTyped
<1>2. CASE job[p].kind # "import"
  <2>1. Ends(p)
    BY <1>2 DEF Raises
  <2>2. JobsOK' /\ \A q \in Processes : job'[q] = NoJob
    BY <2>1, EndTyped
  <2>3. NoJob.at = "idle"
    BY DEF NoJob
  <2>4. job'[p].at = "idle"
    BY <2>2, <2>3
  <2> QED
    BY <2>2, <2>4
<1> QED
  BY <1>1, <1>2

-----------------------------------------------------------------------------
(* The invariant *)

\* When all but one process are done, only that one may have a row.
LEMMA OnlyRow ==
  ASSUME NEW p \in Processes, \A q \in Processes \ {p} : job'[q] = NoJob, OwnRow(p)'
  PROVE  (\A q \in Processes : OwnRow(q))'
<1>1. NoJob.at = "idle"
  BY DEF NoJob
<1>2. \A q \in Processes \ {p} : job'[q].at \notin {"mirror", "write", "ready"}
  BY <1>1
<1> QED
  BY <1>2 DEF OwnRow

LEMMA BackedFrame ==
  ASSUME Backed, UNCHANGED <<required, postgres, file, rows, reconciled, told>>,
         complete' => complete
  PROVE  Backed'
BY DEF Backed, Known, Settled, Truthful, Stored, Contents, Kept

LEMMA StartsSafe ==
  ASSUME TypeOK, IInv, NEW p \in Processes, NEW j, Live(j), Starts(p, j),
         j.at \notin {"mirror", "write", "ready"},
         UNCHANGED <<required, stores, index, told>>
  PROVE  TypeOK' /\ IInv'
<1>1. JobsOK /\ StoresOK /\ IndexOK /\ told \subseteq Reports
  BY TypeParts
<1>2. JobsOK' /\ job'[p] = j /\ \A q \in Processes \ {p} : job'[q] = NoJob
  BY <1>1, StartTyped
<1>3. StoresOK' /\ IndexOK' /\ (told \subseteq Reports)'
  BY <1>1 DEF StoresOK, IndexOK, stores, index
<1>4. TypeOK'
  BY <1>2, <1>3, TypesAfter
<1>5. OwnRow(p)'
  BY <1>2 DEF OwnRow
<1>6. (\A q \in Processes : OwnRow(q))'
  BY <1>2, <1>5, OnlyRow
<1>7. UNCHANGED <<required, postgres, file, rows, reconciled, told>> /\ complete' = complete
  BY DEF stores, index
<1>8. Backed'
  BY <1>7, BackedFrame DEF IInv
<1> QED
  BY <1>4, <1>6, <1>8 DEF IInv

\* The end of a job, or of one report of an import.
LEMMA LetsGo ==
  ASSUME TypeOK, NEW p \in Processes, job[p] # NoJob, Ends(p) \/ Raises(p)
  PROVE  JobsOK' /\ (\A q \in Processes : OwnRow(q))'
<1>1. JobsOK
  BY TypeParts
<1>2. NoJob.at = "idle"
  BY DEF NoJob
<1>3. /\ JobsOK' /\ job'[p].at \in {"idle", "next"}
      /\ \A q \in Processes \ {p} : job'[q] = NoJob
  BY <1>1, <1>2, EndTyped, RaiseTyped
<1>4. OwnRow(p)'
  BY <1>3 DEF OwnRow
<1> QED
  BY <1>3, <1>4, OnlyRow

\* Who is at a step of its job has one.
LEMMA AtWork ==
  ASSUME NEW p \in Processes, job[p].at # "idle"
  PROVE  job[p] # NoJob
BY DEF NoJob

LEMMA StartSaveSafe ==
  ASSUME TypeOK, IInv, NEW p \in Processes, NEW r \in Reports, StartSave(p, r)
  PROVE  TypeOK' /\ IInv'
<1> DEFINE j == [NoJob EXCEPT !.kind = "save", !.at = "check", !.report = r]
<1>1. Live(j) /\ j.at = "check"
  BY CatalogAssumption DEF Live, Jobs, NoJob
<1> QED
  BY <1>1, StartsSafe DEF StartSave

LEMMA StartImportSafe ==
  ASSUME TypeOK, IInv, NEW p \in Processes, NEW batch \in SUBSET Reports,
         StartImport(p, batch)
  PROVE  TypeOK' /\ IInv'
<1> DEFINE j == [NoJob EXCEPT !.kind = "import", !.at = "invalidate", !.todo = batch]
<1>1. Live(j) /\ j.at = "invalidate"
  BY DEF Live, Jobs, NoJob
<1> QED
  BY <1>1, StartsSafe DEF StartImport

LEMMA RepairJob ==
  LET j == [NoJob EXCEPT !.kind = "repair", !.at = "invalidate"]
  IN  Live(j) /\ j.at = "invalidate"
BY DEF Live, Jobs, NoJob

LEMMA StartRepairSafe ==
  ASSUME TypeOK, IInv, NEW p \in Processes, StartRepair(p)
  PROVE  TypeOK' /\ IInv'
BY RepairJob, StartsSafe DEF StartRepair

LEMMA StopSafe ==
  ASSUME TypeOK, IInv, NEW p \in Processes, Stop(p)
  PROVE  TypeOK' /\ IInv'
<1>1. JobsOK' /\ (\A q \in Processes : OwnRow(q))'
  BY LetsGo DEF Stop
<1>2. UNCHANGED <<required, postgres, file, rows, complete, reconciled, told>>
  BY DEF Stop, stores, index
<1>3. StoresOK' /\ IndexOK' /\ (told \subseteq Reports)'
  BY <1>2, TypeParts DEF StoresOK, IndexOK
<1>4. Backed'
  BY <1>2, BackedFrame DEF IInv
<1> QED
  BY <1>1, <1>3, <1>4, TypesAfter DEF IInv

LEMMA CheckSafe ==
  ASSUME TypeOK, IInv, NEW p \in Processes, Check(p)
  PROVE  TypeOK' /\ IInv'
<1>1. JobsOK /\ StoresOK /\ IndexOK /\ told \subseteq Reports
  BY TypeParts
<1>2. job[p] # NoJob /\ job[p].report # None
  BY <1>1, AtWork DEF Check, At, JobsOK, Live
<1>3. /\ UNCHANGED <<required, postgres, file, rows, reconciled, told>>
      /\ complete' \in BOOLEAN /\ (complete' => complete)
  BY <1>1 DEF Check, stores, IndexOK
<1>4. StoresOK' /\ IndexOK' /\ (told \subseteq Reports)'
  BY <1>1, <1>3 DEF StoresOK, IndexOK
<1>5. Backed'
  BY <1>3, BackedFrame DEF IInv
<1>6. CASE Moves(p, "intent")
  <2>1. /\ JobsOK' /\ job'[p].at = "intent"
        /\ \A q \in Processes \ {p} : job'[q] = NoJob
    BY <1>1, <1>2, <1>6, MoveTyped
  <2>2. OwnRow(p)'
    BY <2>1 DEF OwnRow
  <2>3. (\A q \in Processes : OwnRow(q))'
    BY <2>1, <2>2, OnlyRow
  <2> QED
    BY <1>4, <1>5, <2>1, <2>3, TypesAfter DEF IInv
<1>7. CASE Ends(p)
  <2>1. JobsOK' /\ (\A q \in Processes : OwnRow(q))'
    BY <1>2, <1>7, LetsGo
  <2> QED
    BY <1>4, <1>5, <2>1, TypesAfter DEF IInv
<1> QED
  BY <1>6, <1>7 DEF Check

LEMMA IntentSafe ==
  ASSUME TypeOK, IInv, NEW p \in Processes, Intent(p)
  PROVE  TypeOK' /\ IInv'
<1> DEFINE r == job[p].report
           i == IdOf[r]
<1>1. JobsOK /\ StoresOK /\ IndexOK /\ told \subseteq Reports
  BY TypeParts
<1>2. job[p] # NoJob /\ r \in Reports /\ i \in Ids
  BY <1>1, AtWork, CatalogAssumption DEF Intent, At, JobsOK, Live, Jobs
<1>3. UNCHANGED <<required, postgres, file, complete, reconciled, told>>
  BY DEF Intent, stores
<1>4. StoresOK' /\ (told \subseteq Reports)'
  BY <1>1, <1>3 DEF StoresOK
<1>5. CASE rows[i] # None /\ rows[i].report # r
  <2>1. rows' = [rows EXCEPT ![i].state = "conflict"] /\ Raises(p)
    BY <1>5 DEF Intent, Row
  <2>2. JobsOK' /\ (\A q \in Processes : OwnRow(q))'
    BY <1>2, <2>1, LetsGo
  <2>3. rows[i] \in Rows
    BY <1>1, <1>2, <1>5 DEF IndexOK
  <2>4. /\ rows'[i] \in Rows /\ rows'[i].report = rows[i].report
        /\ rows'[i].state = "conflict"
        /\ \A k \in Ids \ {i} : rows'[k] = rows[k]
        /\ rows' \in [Ids -> Rows \cup {None}]
    BY <1>1, <1>2, <2>1, <2>3 DEF IndexOK, Rows
  <2>5. None \notin Rows
    BY CatalogAssumption
  <2>6. \A k \in Ids : /\ rows'[k] # None <=> rows[k] # None
                       /\ rows[k] # None => rows'[k].report = rows[k].report
                       /\ k # i => rows'[k] = rows[k]
    BY <1>5, <2>4, <2>5
  <2>7. IndexOK'
    BY <1>1, <1>3, <2>4, <2>6 DEF IndexOK
  <2>8. Backed'
    BY <1>1, <1>3, <2>4, <2>6, CatalogAssumption
       DEF IInv, Backed, Known, Settled, Truthful, Stored, Contents, Kept
  <2> QED
    BY <1>4, <2>2, <2>7, <2>8, TypesAfter DEF IInv
<1>6. CASE ~(rows[i] # None /\ rows[i].report # r)
  <2> DEFINE w == [report |-> r, state |-> "pending"]
  <2>1. rows' = [rows EXCEPT ![i] = w] /\ Moves(p, "mirror")
    BY <1>6 DEF Intent, Row
  <2>2. /\ JobsOK' /\ job'[p].at = "mirror" /\ job'[p].report = r
        /\ \A q \in Processes \ {p} : job'[q] = NoJob
    BY <1>1, <1>2, <2>1, CatalogAssumption, MoveTyped
  <2>3. w \in Rows /\ w # None
    BY <1>2, CatalogAssumption DEF Rows
  <2>4. /\ rows'[i] = w /\ \A k \in Ids \ {i} : rows'[k] = rows[k]
        /\ rows' \in [Ids -> Rows \cup {None}]
    BY <1>1, <1>2, <2>1, <2>3 DEF IndexOK
  <2>5. IndexOK'
    BY <1>1, <1>2, <1>3, <2>3, <2>4 DEF IndexOK
  <2>6. OwnRow(p)'
    BY <2>2, <2>4 DEF OwnRow, Row
  <2>7. (\A q \in Processes : OwnRow(q))'
    BY <2>2, <2>6, OnlyRow
  <2>8. rows[i] # None => rows[i].report = r
    BY <1>6
  <2>9. \A k \in Ids : rows'[k] # None /\ rows'[k].state = "ready" => Stored(k)'
    BY <1>3, <2>3, <2>4 DEF IInv, Backed, Stored
  <2>10. Known' => \A k \in Ids : Truthful(k)'
    BY <1>3, <2>3, <2>4, <2>8, CatalogAssumption
       DEF IInv, Backed, Known, Settled, Truthful, Stored, Contents
  <2>11. \A t \in told' : Kept(t)'
    BY <1>1, <1>3, <2>3, <2>4, <2>8, CatalogAssumption
       DEF IInv, Backed, Kept, Stored, Contents
  <2> QED
    BY <1>4, <2>2, <2>5, <2>7, <2>9, <2>10, <2>11, TypesAfter DEF IInv, Backed
<1> QED
  BY <1>5, <1>6

\* The worker's row is known to all that was listed and to a settled index, so
\* writing that content into a store keeps what they say of it.
LEMMA WriteBacked ==
  ASSUME TypeOK, IInv, NEW p \in Processes, job[p].at \in {"mirror", "write"},
         UNCHANGED <<required, rows, complete, reconciled, told>>,
         \/ postgres' \in {postgres, [postgres EXCEPT ![IdOf[job[p].report]] = job[p].report]}
            /\ file' = file
         \/ file' = [file EXCEPT ![IdOf[job[p].report]] = job[p].report]
            /\ file[IdOf[job[p].report]] \in {None, job[p].report}
            /\ postgres' = postgres
  PROVE  /\ Backed' /\ StoresOK' /\ IndexOK' /\ (told \subseteq Reports)'
         /\ job[p] # NoJob /\ job[p].report \in Reports
         /\ \A k \in Ids : Stored(k) => Stored(k)'
<1> PICK r : r = job[p].report
    OBVIOUS
<1> DEFINE i == IdOf[r]
<1>1. JobsOK /\ StoresOK /\ IndexOK /\ told \subseteq Reports
  BY TypeParts
<1>2. job[p] # NoJob /\ r \in Reports /\ i \in Ids /\ r # None /\ r # Unreadable
  BY <1>1, AtWork, CatalogAssumption DEF JobsOK, Live, Jobs
<1>3. rows[i] = [report |-> r, state |-> "pending"] /\ rows[i] \in Rows
  BY <1>2 DEF IInv, OwnRow, Row, Rows
<1>4. rows[i] # None /\ rows[i].report = r
  BY <1>3, CatalogAssumption
<1>5. /\ \A k \in Ids \ {i} : postgres'[k] = postgres[k] /\ file'[k] = file[k]
      /\ postgres'[i] \in {postgres[i], r} /\ file'[i] \in {file[i], r}
      /\ postgres' \in [Ids -> Reports \cup {None}]
      /\ file' \in [Ids -> Reports \cup {None, Unreadable}]
  BY <1>1, <1>2 DEF StoresOK, Archives
<1>6. /\ \A k \in Ids : Stored(k) => Stored(k)'
      /\ \A k \in Ids \ {i} : (Stored(k)' => Stored(k)) /\ Contents(k)' = Contents(k)
  <2>1. \A k \in Ids : Stored(k) => Stored(k)'
    BY <1>2, <1>5 DEF Stored
  <2>2. \A k \in Ids \ {i} : Stored(k)' => Stored(k)
    BY <1>5 DEF Stored
  <2>3. \A k \in Ids \ {i} : Contents(k)' = Contents(k)
    BY <1>5 DEF Contents
  <2> QED
    BY <2>1, <2>2, <2>3
<1>7. Contents(i)' \subseteq Contents(i) \cup {r}
  BY <1>2, <1>5 DEF Contents
<1>8. StoresOK'
  <2>1. \A k \in Ids : postgres'[k] # None => IdOf[postgres'[k]] = k
    BY <1>1, <1>5 DEF StoresOK, Archives
  <2>2. \A k \in Ids : file'[k] \in Reports => IdOf[file'[k]] = k
    BY <1>1, <1>5 DEF StoresOK
  <2> QED
    BY <1>1, <1>5, <2>1, <2>2 DEF StoresOK, Archives
<1>9. IndexOK' /\ (told \subseteq Reports)'
  BY <1>1 DEF IndexOK
<1>10. \A k \in Ids : rows'[k] # None /\ rows'[k].state = "ready" => Stored(k)'
  BY <1>6 DEF IInv, Backed
<1>11. ASSUME Known', NEW k \in Ids PROVE Truthful(k)'
  <2>1. Truthful(k)
    BY <1>11 DEF IInv, Backed, Known, Settled
  <2>2. CASE k = i
    BY <1>4, <1>7, <2>1, <2>2 DEF Truthful
  <2>3. CASE k # i
    BY <1>6, <2>1, <2>3 DEF Truthful
  <2> QED
    BY <2>2, <2>3
<1>12. ASSUME NEW t \in told' PROVE Kept(t)'
  <2>1. Kept(t) /\ IdOf[t] \in Ids
    BY <1>1, CatalogAssumption DEF IInv, Backed
  <2>2. CASE IdOf[t] = i
    BY <1>4, <1>6, <1>7, <2>1, <2>2 DEF Kept
  <2>3. CASE IdOf[t] # i
    BY <1>6, <2>1, <2>3 DEF Kept
  <2> QED
    BY <2>2, <2>3
<1> QED
  BY <1>2, <1>6, <1>8, <1>9, <1>10, <1>11, <1>12 DEF Backed

LEMMA MirrorSafe ==
  ASSUME TypeOK, IInv, NEW p \in Processes, Mirror(p)
  PROVE  TypeOK' /\ IInv'
<1> DEFINE r == job[p].report
           i == IdOf[r]
<1>1. /\ job[p].at = "mirror"
      /\ UNCHANGED <<required, file, rows, complete, reconciled, told>>
      /\ postgres' \in {postgres, [postgres EXCEPT ![i] = r]}
  BY DEF Mirror, At, index
<1>2. /\ Backed' /\ StoresOK' /\ IndexOK' /\ (told \subseteq Reports)'
      /\ job[p] # NoJob /\ r \in Reports
  BY <1>1, WriteBacked
<1>3. CASE Raises(p)
  <2>1. JobsOK' /\ (\A q \in Processes : OwnRow(q))'
    BY <1>2, <1>3, LetsGo
  <2> QED
    BY <1>2, <2>1, TypesAfter DEF IInv
<1>4. CASE Moves(p, "write")
  <2>1. /\ JobsOK' /\ job'[p].at = "write" /\ job'[p].report = r
        /\ \A q \in Processes \ {p} : job'[q] = NoJob
    BY <1>2, <1>4, TypeParts, MoveTyped, CatalogAssumption
  <2>2. OwnRow(p)'
    BY <1>1, <2>1 DEF IInv, OwnRow, Row
  <2>3. (\A q \in Processes : OwnRow(q))'
    BY <2>1, <2>2, OnlyRow
  <2> QED
    BY <1>2, <2>1, <2>3, TypesAfter DEF IInv
<1>5. CASE Moves(p, "ready") /\ postgres' = [postgres EXCEPT ![i] = r]
  <2>1. /\ JobsOK' /\ job'[p].at = "ready" /\ job'[p].report = r
        /\ \A q \in Processes \ {p} : job'[q] = NoJob
    BY <1>2, <1>5, TypeParts, MoveTyped, CatalogAssumption
  <2>2. postgres'[i] = r /\ r # None
    BY <1>2, <1>5, TypeParts, CatalogAssumption DEF StoresOK, Archives
  <2>3. OwnRow(p)'
    BY <1>1, <2>1, <2>2 DEF IInv, OwnRow, Row, Stored
  <2>4. (\A q \in Processes : OwnRow(q))'
    BY <2>1, <2>3, OnlyRow
  <2> QED
    BY <1>2, <2>1, <2>4, TypesAfter DEF IInv
<1> QED
  BY <1>3, <1>4, <1>5 DEF Mirror

LEMMA WriteSafe ==
  ASSUME TypeOK, IInv, NEW p \in Processes, Write(p)
  PROVE  TypeOK' /\ IInv'
<1> DEFINE r == job[p].report
           i == IdOf[r]
<1>1. /\ job[p].at = "write"
      /\ UNCHANGED <<required, postgres, rows, complete, reconciled, told>>
  BY DEF Write, At, index
<1>2. CASE file[i] \in {None, r}
  <2>1. file' = [file EXCEPT ![i] = r] /\ Moves(p, "ready")
    BY <1>2 DEF Write
  <2>2. /\ Backed' /\ StoresOK' /\ IndexOK' /\ (told \subseteq Reports)'
        /\ job[p] # NoJob /\ r \in Reports
    BY <1>1, <1>2, <2>1, WriteBacked
  <2>3. /\ JobsOK' /\ job'[p].at = "ready" /\ job'[p].report = r
        /\ \A q \in Processes \ {p} : job'[q] = NoJob
    BY <2>1, <2>2, TypeParts, MoveTyped, CatalogAssumption
  <2>4. file'[i] = r /\ r # None
    BY <2>1, <2>2, TypeParts, CatalogAssumption DEF StoresOK
  <2>5. OwnRow(p)'
    BY <1>1, <2>3, <2>4 DEF IInv, OwnRow, Row, Stored
  <2>6. (\A q \in Processes : OwnRow(q))'
    BY <2>3, <2>5, OnlyRow
  <2> QED
    BY <2>2, <2>3, <2>6, TypesAfter DEF IInv
<1>3. CASE file[i] \notin {None, r}
  <2>1. Ends(p) /\ file' = file
    BY <1>3 DEF Write
  <2>2. /\ Backed' /\ StoresOK' /\ IndexOK' /\ (told \subseteq Reports)'
        /\ job[p] # NoJob
    BY <1>1, <2>1, WriteBacked
  <2>3. JobsOK' /\ (\A q \in Processes : OwnRow(q))'
    BY <2>1, <2>2, LetsGo
  <2> QED
    BY <2>2, <2>3, TypesAfter DEF IInv
<1> QED
  BY <1>2, <1>3

LEMMA ReadySafe ==
  ASSUME TypeOK, IInv, NEW p \in Processes, Ready(p)
  PROVE  TypeOK' /\ IInv'
<1> DEFINE r == job[p].report
           i == IdOf[r]
<1>1. JobsOK /\ StoresOK /\ IndexOK /\ told \subseteq Reports
  BY TypeParts
<1>2. job[p].at = "ready" /\ UNCHANGED <<required, postgres, file, complete, reconciled, told>>
  BY DEF Ready, At, stores
<1>3. job[p] # NoJob /\ r \in Reports /\ i \in Ids
  BY <1>1, <1>2, AtWork, CatalogAssumption DEF JobsOK, Live, Jobs
<1>4. rows[i] = [report |-> r, state |-> "pending"] /\ Stored(i)
  BY <1>2 DEF IInv, OwnRow, Row
<1>5. rows' = [rows EXCEPT ![i].state = "ready"] /\ (Moves(p, "next") \/ Ends(p))
  BY <1>4 DEF Ready, Row
<1>6. JobsOK' /\ (\A q \in Processes : OwnRow(q))'
  <2>1. CASE Moves(p, "next")
    <3>1. /\ JobsOK' /\ job'[p].at = "next"
          /\ \A q \in Processes \ {p} : job'[q] = NoJob
      BY <1>1, <1>3, <2>1, MoveTyped
    <3>2. OwnRow(p)'
      BY <3>1 DEF OwnRow
    <3> QED
      BY <3>1, <3>2, OnlyRow
  <2>2. CASE Ends(p)
    BY <1>3, <2>2, LetsGo
  <2> QED
    BY <1>5, <2>1, <2>2
<1>7. rows[i] \in Rows /\ rows[i] # None
  BY <1>3, <1>4, CatalogAssumption DEF Rows
<1>8. /\ rows'[i] \in Rows /\ rows'[i].report = r
      /\ \A k \in Ids \ {i} : rows'[k] = rows[k]
      /\ rows' \in [Ids -> Rows \cup {None}]
  BY <1>1, <1>3, <1>4, <1>5, <1>7 DEF IndexOK, Rows
<1>9. rows'[i] # None /\ rows[i].report = r
  BY <1>4, <1>8, CatalogAssumption
<1>10. IndexOK' /\ StoresOK' /\ (told \subseteq Reports)'
  BY <1>1, <1>2, <1>8, <1>9 DEF IndexOK, StoresOK
<1>11. Backed'
  BY <1>1, <1>2, <1>4, <1>7, <1>8, <1>9, CatalogAssumption
     DEF IInv, Backed, Known, Settled, Truthful, Stored, Contents, Kept
<1> QED
  BY <1>6, <1>10, <1>11, TypesAfter DEF IInv

LEMMA InvalidateSafe ==
  ASSUME TypeOK, IInv, NEW p \in Processes, Invalidate(p)
  PROVE  TypeOK' /\ IInv'
<1>1. JobsOK /\ StoresOK /\ IndexOK /\ told \subseteq Reports
  BY TypeParts
<1>2. job[p] # NoJob
  BY AtWork DEF Invalidate, At
<1>3. /\ UNCHANGED <<required, postgres, file, rows, reconciled, told>>
      /\ complete' = FALSE
  BY DEF Invalidate, stores
<1>4. PICK s \in {"next", "merge"} : Moves(p, s)
  BY DEF Invalidate
<1>5. /\ JobsOK' /\ job'[p].at = s
      /\ \A q \in Processes \ {p} : job'[q] = NoJob
  BY <1>1, <1>2, <1>4, MoveTyped
<1>6. OwnRow(p)'
  BY <1>5 DEF OwnRow
<1>7. (\A q \in Processes : OwnRow(q))'
  BY <1>5, <1>6, OnlyRow
<1>8. StoresOK' /\ IndexOK' /\ (told \subseteq Reports)'
  BY <1>1, <1>3 DEF StoresOK, IndexOK
<1>9. Backed'
  BY <1>3, BackedFrame DEF IInv
<1> QED
  BY <1>5, <1>7, <1>8, <1>9, TypesAfter DEF IInv

LEMMA TakeNextSafe ==
  ASSUME TypeOK, IInv, NEW p \in Processes, TakeNext(p)
  PROVE  TypeOK' /\ IInv'
<1>1. JobsOK /\ StoresOK /\ IndexOK /\ told \subseteq Reports
  BY TypeParts
<1>2. job[p] # NoJob /\ Live(job[p]) /\ job[p] \in Jobs
  BY <1>1, AtWork DEF TakeNext, At, JobsOK
<1>3. UNCHANGED <<required, postgres, file, rows, complete, reconciled, told>>
  BY DEF TakeNext, stores, index
<1>4. StoresOK' /\ IndexOK' /\ (told \subseteq Reports)' /\ Backed'
  BY <1>1, <1>3, BackedFrame DEF StoresOK, IndexOK, IInv
<1>5. ASSUME NEW j, Live(j), j.at \notin {"mirror", "write", "ready"},
             job' = [job EXCEPT ![p] = j], lock' = lock
      PROVE  JobsOK' /\ (\A q \in Processes : OwnRow(q))'
  <2>1. JobsOK' /\ job'[p] = j /\ \A q \in Processes \ {p} : job'[q] = NoJob
    BY <1>1, <1>2, <1>5, GoesTyped
  <2>2. OwnRow(p)'
    BY <1>5, <2>1 DEF OwnRow
  <2> QED
    BY <2>1, <2>2, OnlyRow
<1>6. ASSUME NEW r \in job[p].todo, lock' = lock,
             job' = [job EXCEPT ![p].at = "intent", ![p].report = r, ![p].todo = @ \ {r}]
      PROVE  JobsOK' /\ (\A q \in Processes : OwnRow(q))'
  <2> DEFINE j == [job[p] EXCEPT !.at = "intent", !.report = r, !.todo = @ \ {r}]
  <2>1. r \in Reports /\ r # None
    BY <1>2, CatalogAssumption DEF Jobs
  <2>2. Live(j) /\ j.at = "intent"
    BY <1>2, <2>1 DEF Live, Jobs
  <2>3. job' = [job EXCEPT ![p] = j]
    BY <1>1, <1>6 DEF JobsOK
  <2> QED
    BY <1>5, <1>6, <2>2, <2>3
<1>7. ASSUME lock' = lock,
             job' = [job EXCEPT ![p] = [NoJob EXCEPT !.kind = "repair", !.at = "invalidate"]]
      PROVE  JobsOK' /\ (\A q \in Processes : OwnRow(q))'
  BY <1>5, <1>7, RepairJob
<1>8. ASSUME Ends(p) PROVE JobsOK' /\ (\A q \in Processes : OwnRow(q))'
  BY <1>2, <1>8, LetsGo
<1>9. JobsOK' /\ (\A q \in Processes : OwnRow(q))'
  BY <1>6, <1>7, <1>8 DEF TakeNext
<1> QED
  BY <1>4, <1>9, TypesAfter DEF IInv

\* Two stores that agree, read in full, give an index that is exact.
LEMMA MergedExact ==
  ASSUME StoresOK, Mergeable(postgres, file), rows' = Merged(postgres, file),
         UNCHANGED <<postgres, file>>
  PROVE  /\ rows' \in [Ids -> Rows \cup {None}]
         /\ \A i \in Ids : rows'[i] # None => IdOf[rows'[i].report] = i
         /\ \A i \in Ids : Truthful(i)' /\ (rows'[i] # None => Stored(i)')
<1> SUFFICES ASSUME NEW i \in Ids
             PROVE  /\ rows'[i] \in Rows \cup {None}
                    /\ rows'[i] # None => IdOf[rows'[i].report] = i
                    /\ Truthful(i)' /\ (rows'[i] # None => Stored(i)')
    BY DEF Merged
<1>1. /\ postgres[i] \in Reports \cup {None}
      /\ postgres[i] # None => IdOf[postgres[i]] = i
      /\ file[i] \in Reports \cup {None}
      /\ file[i] # None => IdOf[file[i]] = i
      /\ postgres[i] # None /\ file[i] # None => postgres[i] = file[i]
  BY DEF StoresOK, Archives, Mergeable
<1>2. CASE postgres[i] = None /\ file[i] = None
  <2>1. rows'[i] = None
    BY <1>2 DEF Merged
  <2> QED
    BY <1>2, <2>1 DEF Truthful, Stored
<1>3. CASE ~(postgres[i] = None /\ file[i] = None)
  <2>1. PICK r \in Reports : /\ rows'[i] = [report |-> r, state |-> "ready"]
                             /\ postgres[i] \in {None, r} /\ file[i] \in {None, r}
                             /\ IdOf[r] = i
    BY <1>1, <1>3 DEF Merged
  <2>2. rows'[i] \in Rows /\ rows'[i].report = r
    BY <2>1 DEF Rows
  <2>3. rows'[i] # None
    BY <2>2, CatalogAssumption
  <2>4. Contents(i)' \subseteq {r} /\ Stored(i)'
    BY <1>3, <2>1, CatalogAssumption DEF Contents, Stored
  <2> QED
    BY <2>1, <2>2, <2>3, <2>4 DEF Truthful
<1> QED
  BY <1>2, <1>3

LEMMA MergeSafe ==
  ASSUME TypeOK, IInv, NEW p \in Processes, Merge(p)
  PROVE  TypeOK' /\ IInv'
<1>1. JobsOK /\ StoresOK /\ IndexOK /\ told \subseteq Reports
  BY TypeParts
<1>2. job[p] # NoJob
  BY AtWork DEF Merge, At
<1>3. UNCHANGED <<required, postgres, file, told>>
  BY DEF Merge, stores
<1>4. JobsOK' /\ (\A q \in Processes : OwnRow(q))'
  BY <1>2, LetsGo DEF Merge
<1>5. StoresOK' /\ (told \subseteq Reports)'
  BY <1>1, <1>3 DEF StoresOK
<1>6. CASE UNCHANGED index
  <2>1. UNCHANGED <<rows, complete, reconciled>>
    BY <1>6 DEF index
  <2>2. IndexOK' /\ Backed'
    BY <1>1, <1>3, <2>1, BackedFrame DEF IndexOK, IInv
  <2> QED
    BY <1>4, <1>5, <2>2, TypesAfter DEF IInv
<1>7. CASE /\ Mergeable(postgres, file)
           /\ rows' = Merged(postgres, file)
           /\ complete' = TRUE /\ reconciled' = required
  <2>1. /\ rows' \in [Ids -> Rows \cup {None}]
        /\ \A i \in Ids : rows'[i] # None => IdOf[rows'[i].report] = i
        /\ \A i \in Ids : Truthful(i)' /\ (rows'[i] # None => Stored(i)')
    BY <1>1, <1>3, <1>7, MergedExact
  <2>2. required \in BOOLEAN
    BY <1>1, CatalogAssumption DEF StoresOK
  <2>3. IndexOK'
    BY <1>7, <2>1, <2>2 DEF IndexOK
  <2>4. ASSUME NEW t \in told' PROVE Kept(t)'
    <3> DEFINE i == IdOf[t]
    <3>1. Kept(t) /\ t \in Reports /\ i \in Ids
      BY <1>1, <1>3, CatalogAssumption DEF IInv, Backed
    <3>2. Stored(i)' /\ Contents(i)' \subseteq {t}
      BY <1>3, <3>1 DEF Kept, Stored, Contents
    <3>3. rows'[i] # None
      BY <2>1, <3>1, <3>2 DEF Truthful
    <3>4. rows'[i].report \in {postgres[i], file[i]} /\ rows'[i].report \in Reports
      <4>1. /\ postgres[i] \in Reports \cup {None}
            /\ file[i] \in Reports \cup {None}
            /\ ~(postgres[i] = None /\ file[i] = None)
        BY <1>1, <1>7, <3>1 DEF StoresOK, Archives, Mergeable, Kept, Stored
      <4> QED
        BY <1>7, <3>1, <4>1 DEF Merged
    <3>5. rows'[i].report = t
      BY <3>1, <3>4 DEF Kept, Contents
    <3> QED
      BY <3>2, <3>3, <3>5 DEF Kept
  <2>5. Backed'
    BY <2>1, <2>4 DEF Backed
  <2> QED
    BY <1>4, <1>5, <2>3, <2>5, TypesAfter DEF IInv
<1> QED
  BY <1>6, <1>7 DEF Merge

LEMMA ListSafe ==
  ASSUME TypeOK, IInv, List
  PROVE  TypeOK' /\ IInv'
<1>1. JobsOK /\ StoresOK /\ IndexOK /\ told \subseteq Reports
  BY TypeParts
<1>2. /\ UNCHANGED <<required, postgres, file, rows, complete, reconciled, lock, job>>
      /\ Settled
  BY DEF List, Answers, stores, index
<1>3. \A i \in Ids : rows[i] # None =>
        /\ rows[i] \in Rows /\ rows[i].report \in Reports /\ IdOf[rows[i].report] = i
        /\ Stored(i) /\ Contents(i) \subseteq {rows[i].report}
  BY <1>1, <1>2 DEF List, Answers, IInv, Backed, Known, Truthful, IndexOK, Rows
<1>4. ASSUME NEW t \in told' PROVE Kept(t) /\ t \in Reports
  <2>1. t \in told \/ \E i \in Ids : rows[i] # None /\ t = rows[i].report
    BY <1>4 DEF List, Listed
  <2>2. CASE t \in told
    BY <1>1, <2>2 DEF IInv, Backed
  <2>3. CASE \E i \in Ids : rows[i] # None /\ t = rows[i].report
    BY <1>3, <2>3 DEF Kept
  <2> QED
    BY <2>1, <2>2, <2>3
<1>5. Backed'
  BY <1>2, <1>4 DEF IInv, Backed, Known, Settled, Truthful, Stored, Contents, Kept
<1>6. (\A p \in Processes : OwnRow(p))'
  BY <1>2 DEF IInv, OwnRow, Row, Stored
<1>7. JobsOK' /\ StoresOK' /\ IndexOK' /\ (told \subseteq Reports)'
  BY <1>1, <1>2, <1>4 DEF JobsOK, StoresOK, IndexOK
<1> QED
  BY <1>5, <1>6, <1>7, TypesAfter DEF IInv

LEMMA DamageSafe ==
  ASSUME TypeOK, IInv, NEW d \in Ids, Damage(d)
  PROVE  TypeOK' /\ IInv'
<1>1. JobsOK /\ StoresOK /\ IndexOK /\ told \subseteq Reports
  BY TypeParts
<1>2. UNCHANGED <<required, postgres, rows, complete, reconciled, lock, job, told>>
  BY DEF Damage, index
<1>3. /\ file[d] # None /\ file'[d] = Unreadable
      /\ \A k \in Ids \ {d} : file'[k] = file[k]
      /\ file' \in [Ids -> Reports \cup {None, Unreadable}]
  BY <1>1 DEF Damage, StoresOK
<1>4. \A k \in Ids : (Stored(k)' <=> Stored(k)) /\ Contents(k)' \subseteq Contents(k)
  BY <1>2, <1>3, CatalogAssumption DEF Stored, Contents
<1>5. Backed'
  <2>1. \A k \in Ids : Truthful(k) => Truthful(k)'
    BY <1>2, <1>4 DEF Truthful
  <2>2. \A t \in told : Kept(t) => Kept(t)'
    BY <1>1, <1>2, <1>4, CatalogAssumption DEF Kept
  <2> QED
    BY <1>2, <1>4, <2>1, <2>2 DEF IInv, Backed, Known, Settled
<1>6. (\A p \in Processes : OwnRow(p))'
  <2> SUFFICES ASSUME NEW p \in Processes PROVE OwnRow(p)'
      OBVIOUS
  <2>1. OwnRow(p)
    BY DEF IInv
  <2>2. job[p].at = "ready" => IdOf[job[p].report] \in Ids
    BY <1>1, AtWork, CatalogAssumption DEF JobsOK, Live, Jobs
  <2> QED
    BY <1>2, <1>3, <2>1, <2>2, CatalogAssumption DEF OwnRow, Row, Stored
<1>7. JobsOK' /\ StoresOK' /\ IndexOK' /\ (told \subseteq Reports)'
  BY <1>1, <1>2, <1>3, CatalogAssumption DEF JobsOK, StoresOK, IndexOK
<1> QED
  BY <1>5, <1>6, <1>7, TypesAfter DEF IInv

LEMMA InitSafe == Init => TypeOK /\ IInv
<1> SUFFICES ASSUME Init PROVE TypeOK /\ IInv
    OBVIOUS
<1>1. Empty \in Archives
  BY DEF Empty, Archives
<1>2. /\ postgres \in Archives /\ file \in Archives /\ required \in BOOLEAN
      /\ lock = None /\ job = [p \in Processes |-> NoJob] /\ told = {}
  BY <1>1, CatalogAssumption DEF Init
<1>3. StoresOK
  BY <1>2, CatalogAssumption DEF Init, StoresOK, Archives
<1>4. JobsOK /\ \A p \in Processes : OwnRow(p)
  <2>1. JobsOK
    BY <1>2, NothingLive, CatalogAssumption DEF JobsOK
  <2>2. \A p \in Processes : job[p].at = "idle"
    BY <1>2 DEF NoJob
  <2> QED
    BY <2>1, <2>2 DEF OwnRow
<1> DEFINE pg == IF reconciled THEN postgres ELSE Empty
<1>5. pg \in Archives /\ \A i \in Ids : pg[i] # None => postgres[i] = pg[i]
  BY <1>1, <1>2 DEF Empty
<1>6. CASE ~complete
  <2>1. \A i \in Ids : rows[i] = None
    BY <1>6 DEF Init, Empty
  <2>2. IndexOK
    BY <1>6, <2>1 DEF Init, IndexOK, Empty
  <2>3. Backed
    BY <1>2, <1>6, <2>1 DEF Init, Backed, Known, Settled
  <2> QED
    BY <1>2, <1>3, <1>4, <2>2, <2>3, TypeParts DEF IInv
<1>7. CASE complete
  <2>1. rows = Merged(pg, file)
    BY <1>7 DEF Init
  <2>2. \A i \in Ids : \/ rows[i] = None /\ pg[i] = None /\ file[i] = None
                       \/ \E r \in Reports :
                            /\ rows[i] = [report |-> r, state |-> "ready"]
                            /\ IdOf[r] = i /\ r \in {pg[i], file[i]}
    BY <1>2, <1>5, <2>1 DEF Merged, Archives
  <2> HIDE DEF pg
  <2>3. ASSUME NEW i \in Ids, rows[i] # None
        PROVE  \E r \in Reports : /\ rows[i] = [report |-> r, state |-> "ready"]
                                  /\ rows[i] \in Rows /\ rows[i].report = r /\ IdOf[r] = i
                                  /\ r \in {postgres[i], file[i]} /\ r # None
                                  /\ r \in {pg[i], file[i]}
    <3>1. PICK r \in Reports : /\ rows[i] = [report |-> r, state |-> "ready"]
                               /\ IdOf[r] = i /\ r \in {pg[i], file[i]}
      BY <2>2, <2>3
    <3>2. r # None
      BY CatalogAssumption
    <3>3. rows[i] \in Rows /\ rows[i].report = r
      BY <3>1 DEF Rows
    <3>4. r \in {postgres[i], file[i]}
      BY <1>5, <3>1, <3>2
    <3> QED
      BY <3>1, <3>2, <3>3, <3>4
  <2>6. \A i \in Ids : rows[i] # None => Stored(i)
    BY <2>3 DEF Stored
  <2>4. IndexOK
    <3>1. \A i \in Ids : /\ rows[i] \in Rows \cup {None}
                         /\ rows[i] # None => IdOf[rows[i].report] = i
      BY <2>3
    <3>2. DOMAIN rows = Ids /\ rows = [i \in Ids |-> rows[i]]
      BY <2>1 DEF Merged
    <3> QED
      BY <3>1, <3>2 DEF Init, IndexOK
  <2>5. ASSUME Known, NEW i \in Ids PROVE Truthful(i)
    <3>1. pg = postgres
      <4>1. CASE required
        BY <2>5, <4>1 DEF Known, Settled, pg
      <4>2. CASE ~required
        BY <4>2 DEF Init, pg
      <4> QED
        BY <4>1, <4>2
    <3>2. postgres[i] # None /\ file[i] # None => postgres[i] = file[i]
      BY DEF Init, Mergeable
    <3>3. CASE rows[i] = None
      <4>1. \A r \in Reports : [report |-> r, state |-> "ready"] # None
        BY CatalogAssumption DEF Rows
      <4>2. postgres[i] = None /\ file[i] = None
        BY <2>2, <3>1, <3>3, <4>1
      <4> QED
        BY <3>3, <4>2 DEF Truthful, Stored
    <3>4. CASE rows[i] # None
      <4>1. PICK r \in Reports : rows[i].report = r /\ r \in {postgres[i], file[i]}
        BY <2>3, <3>4
      <4>2. Contents(i) \subseteq {r}
        BY <3>2, <4>1, CatalogAssumption DEF Contents
      <4> QED
        BY <3>4, <4>1, <4>2 DEF Truthful
    <3> QED
      BY <3>3, <3>4
  <2> QED
    BY <1>2, <1>3, <1>4, <2>6, <2>4, <2>5, TypeParts DEF IInv, Backed
<1> QED
  BY <1>6, <1>7

LEMMA StepSafe == TypeOK /\ IInv /\ [Next]_vars => TypeOK' /\ IInv'
<1> SUFFICES ASSUME TypeOK, IInv, [Next]_vars PROVE TypeOK' /\ IInv'
    OBVIOUS
<1>1. ASSUME NEW p \in Processes, Step(p) PROVE TypeOK' /\ IInv'
  BY <1>1, CheckSafe, IntentSafe, MirrorSafe, WriteSafe, ReadySafe, InvalidateSafe,
     TakeNextSafe, MergeSafe DEF Step
<1>2. ASSUME NEW p \in Processes,
             \/ \E r \in Reports : StartSave(p, r)
             \/ \E batch \in SUBSET Reports : StartImport(p, batch)
             \/ StartRepair(p) \/ Stop(p)
      PROVE  TypeOK' /\ IInv'
  BY <1>2, StartSaveSafe, StartImportSafe, StartRepairSafe, StopSafe
<1>3. CASE List
  BY <1>3, ListSafe
<1>4. CASE \E i \in Ids : Damage(i)
  BY <1>4, DamageSafe
<1>5. CASE UNCHANGED vars
  <2>1. UNCHANGED <<required, postgres, file, rows, complete, reconciled, lock, job, told>>
    BY <1>5 DEF vars, stores, index
  <2>2. TypeOK'
    BY <2>1 DEF TypeOK
  <2>3. IInv'
    BY <2>1 DEF IInv, Backed, Known, Settled, Truthful, Stored, Contents, Kept, OwnRow, Row
  <2> QED
    BY <2>2, <2>3
<1> QED
  BY <1>1, <1>2, <1>3, <1>4, <1>5 DEF Next

-----------------------------------------------------------------------------
(* Theorems *)

LEMMA Invariant == Spec => [](TypeOK /\ IInv)
<1> QED
  BY InitSafe, StepSafe, PTL DEF Spec

\* Every variable keeps its type, and whoever works on the archive holds the
\* lock of the catalog.
THEOREM TypeCorrect == Spec => []TypeOK
<1> QED
  BY Invariant, PTL

\* For any archive and any number of processes, an answer of the catalog is
\* exactly what the two stores hold.
THEOREM Exact == Spec => []CatalogExact
<1>1. TypeOK /\ IInv => CatalogExact
  <2> SUFFICES ASSUME IInv, Answers, NEW i \in Ids
               PROVE  /\ rows[i] # None <=> Stored(i)
                      /\ rows[i] # None => Contents(i) \subseteq {rows[i].report}
      BY DEF CatalogExact
  <2>1. Truthful(i) /\ (rows[i] # None => rows[i].state = "ready")
    BY DEF IInv, Backed, Known, Answers
  <2> QED
    BY <2>1 DEF IInv, Backed, Truthful
<1> QED
  BY <1>1, Invariant, PTL

\* What was ever listed keeps its content in the stores, whatever fails.
THEOREM Stands == Spec => []ToldStands
<1>1. TypeOK /\ IInv => ToldStands
  BY DEF IInv, Backed, Kept, ToldStands
<1> QED
  BY <1>1, Invariant, PTL

\* Once the index was built over both stores, they never hold different contents
\* of a report, for any processes, identities and contents.
THEOREM NeverApart == Spec => []StoresAgree
<1>1. TypeOK /\ IInv => StoresAgree
  <2> SUFFICES ASSUME TypeOK, IInv, reconciled, NEW i \in Ids, NEW r \in Contents(i),
                      NEW s \in Contents(i)
               PROVE  r = s
    BY DEF StoresAgree
  <2>1. Truthful(i)
    BY DEF IInv, Backed, Known
  <2>2. Stored(i)
    BY CatalogAssumption DEF Contents, Stored
  <2> QED
    BY <2>1, <2>2 DEF Truthful
<1> QED
  BY <1>1, Invariant, PTL
=============================================================================
