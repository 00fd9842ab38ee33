---------------------------- MODULE UpgradeProofs ----------------------------
(***************************************************************************)
(* TLAPS proofs about Upgrade, and Backups under it, for every number of   *)
(* workers, requests, backups, retries and ports.                          *)
(*                                                                         *)
(* A backup that a worker is about to call complete has its archive, or    *)
(* lost it to a deleter (ArchiveInv).  An attempt of an upgrade owns the   *)
(* containers it built: nobody else builds or removes them, and once the   *)
(* deployment points at the pair no attempt owns any (ServeInv).  Above    *)
(* every victim of a sweep, as many complete backups as the retention      *)
(* says are not victims themselves (SweepInv).                             *)
(***************************************************************************)
EXTENDS Upgrade, FiniteSetTheorems, WellFoundedInduction, TLAPS

DepRecs == [status : {"running", "deleted"}, ha : BOOLEAN, schedule : {"none", "daily"},
            retention : Retentions]
BackupRecs == [status : Open \cup {"none", "complete", "failed", "gone"}, age : 0 .. 2,
               taken : BOOLEAN]
JobRecs == [status : {"none", "pending", "claimed", "done", "failed"},
            attempts : 0 .. MaxAttempts, of : 0 .. MaxBackups]
WorkerRecs ==
    [pc : {"idle", "start", "export", "stat", "complete", "failrow", "failjob", "done",
           "import", "ports", "provision", "migrate", "swap", "retry", "cleanup", "stop"},
     job : Jobs \cup {NoJob}, ha : BOOLEAN, late : BOOLEAN, built : SUBSET {0, 1},
     ports : SUBSET Ports, tries : Nat]
RequestRecs == [pc : {"idle", "insert", "restore", "file", "row", "teardown", "deleted"},
                b : 0 .. MaxBackups, ha : BOOLEAN]
SweepRecs == [pc : {"idle", "schedule", "enqueue", "prune", "file", "row"},
              todo : SUBSET BackupIds, v : 0 .. MaxBackups, calm : BOOLEAN]

----------------------------------------------------------------------------
TableInv ==
    /\ dep \in DepRecs /\ cont \subseteq Conts /\ files \subseteq BackupIds
    /\ bk \in [BackupIds -> BackupRecs]
    /\ imported \in BOOLEAN /\ torn \in BOOLEAN

(* The attempts of a job that can be claimed leave room for one more, and  *)
(* a job of a backup or a restore knows its backup.                        *)
JobOK(j, q) ==
    /\ q.status = "none" => q.attempts = 0
    /\ q.status = "pending" => q.attempts < MaxAttempts
    /\ q.status # "none" /\ j \notin UpgradeJobs => q.of \in BackupIds
    /\ j \in BackupJobs => q.of \in {0, j[2]}

JobInv == jobs \in [Jobs -> JobRecs] /\ \A j \in Jobs : JobOK(j, jobs[j])

ReqInv ==
    /\ req \in [Requests -> RequestRecs]
    /\ \A r \in Requests : req[r].pc \in {"restore", "file", "row"} => req[r].b \in BackupIds

(* What an attempt has built at each label.                                *)
Shape(q) ==
    /\ q.pc # "idle" => q.job \in Jobs
    /\ q.pc = "provision" => q.built \in {{}, {0}}
    /\ q.pc \in {"migrate", "swap", "stop"} => q.built = {0, 1}
    /\ q.pc \notin {"provision", "migrate", "swap", "stop", "cleanup", "retry"} => q.built = {}

WorkInv ==
    /\ wk \in [Workers -> WorkerRecs] /\ \A w \in Workers : Shape(wk[w])
    /\ \A w \in Workers : wk[w].pc # "idle" /\ wk[w].job \notin UpgradeJobs
                             => jobs[wk[w].job].of \in BackupIds

(* The archive is there, or was taken, with the row or before it.          *)
Kept(b) == b \in files \/ bk[b].taken \/ bk[b].status = "gone"

ArchiveInv ==
    /\ \A b \in BackupIds : bk[b].status = "complete" => b \in files \/ bk[b].taken
    /\ \A w \in Workers : wk[w].pc = "complete" =>
          jobs[wk[w].job].of \in BackupIds /\ Kept(jobs[wk[w].job].of)

(* The victims that are left, and those a sweep must not take.             *)
Doomed == sw.todo \cup (IF sw.pc = "row" THEN {sw.v} ELSE {})
Promise ==
    \A v \in Doomed : Cardinality(Newer(v) \ Doomed) >= dep.retention

SweepInv ==
    /\ sw \in SweepRecs
    /\ sw.pc = "row" => sw.v \in BackupIds
    /\ sw.pc \in {"file", "row"} /\ sw.calm => Promise

ServeInv ==
    /\ dep.ha => imported
    /\ \A w \in Workers : /\ wk[w].pc = "swap" => imported
                          /\ wk[w].pc = "stop" => dep.ha
    /\ ~torn => /\ EndpointURL(dep.ha) \subseteq cont
                /\ \A w \in Workers : wk[w].built \subseteq cont
                /\ \A w, u \in Workers : w # u => wk[w].built \cap wk[u].built = {}
                /\ dep.ha => \A w \in Workers : wk[w].pc # "stop" => wk[w].built = {}

IInv == TableInv /\ JobInv /\ ReqInv /\ WorkInv /\ ArchiveInv /\ SweepInv /\ ServeInv

----------------------------------------------------------------------------
(* What a step does to a table, as far as the others care: the jobs keep   *)
(* their backups, no archive goes unless it is taken, no backup stops      *)
(* being complete.                                                         *)
JobsKeep ==
    JobInv' /\ \A j \in Jobs : jobs[j].of # 0 => jobs'[j].of = jobs[j].of

ArchivesKeep ==
    /\ bk' \in [BackupIds -> BackupRecs] /\ files' \subseteq BackupIds
    /\ \A b \in BackupIds : bk'[b].status = "complete" => b \in files' \/ bk'[b].taken
    /\ \A b \in BackupIds : Kept(b) => Kept(b)'

CompleteKeep == \A b \in BackupIds : bk[b].status = "complete" => bk'[b].status = "complete"

LEMMA Bounds ==
    /\ MaxBackups \in Nat /\ MaxAttempts \in Nat /\ MaxAttempts > 0
    /\ BackupIds \subseteq Nat /\ 0 \notin BackupIds /\ BackupIds \subseteq 0 .. MaxBackups
    /\ IsFiniteSet(BackupIds) /\ Retentions \subseteq Nat
    /\ 0 \in 0 .. MaxAttempts /\ 0 \in 0 .. MaxBackups
<1>1. MaxBackups \in Nat /\ MaxAttempts \in Nat /\ MaxAttempts > 0 /\ Retentions \subseteq Nat
  BY BackupsAssumption
<1>2. IsFiniteSet(BackupIds)
  BY <1>1, FS_Interval DEF BackupIds
<1> QED
  BY <1>1, <1>2 DEF BackupIds

(* Kinds of jobs, told apart by their first half.                          *)
LEMMA JobKinds ==
    ASSUME NEW j \in Jobs
    PROVE  /\ j[1] \in {"backup", "restore", "upgrade"}
           /\ j[1] = "upgrade" <=> j \in UpgradeJobs
           /\ j \in BackupJobs => j[2] \in BackupIds
           /\ j \in RestoreJobs => j \notin BackupJobs /\ j \notin UpgradeJobs
  BY DEF Jobs, BackupJobs, RestoreJobs, UpgradeJobs

LEMMA JobOfBackup ==
    ASSUME NEW b \in BackupIds
    PROVE  /\ <<"backup", b>> \in Jobs /\ <<"backup", b>> \notin UpgradeJobs
           /\ <<"backup", b>>[2] = b
  BY DEF Jobs, BackupJobs, UpgradeJobs

LEMMA Least ==
    ASSUME NEW T, T \subseteq Nat, T # {}
    PROVE  \E x \in T : \A y \in T : x <= y
<1> DEFINE R == OpToRel(<, Nat)
<1>1. IsWellFoundedOn(R, Nat)
  BY NatLessThanWellFounded
<1>2. \A x, y \in Nat : y < x => <<y, x>> \in R
  BY DEF OpToRel
<1> HIDE DEF R
<1>3. PICK x \in T : \A y \in T : ~(<<y, x>> \in R)
  BY <1>1, WFMin
<1>4. ASSUME NEW y \in T PROVE x <= y
  <2>1. x \in Nat /\ y \in Nat /\ ~(y < x)
    BY <1>2, <1>3
  <2> QED
    BY <2>1
<1> QED
  BY <1>4

(* The newest of a set of backups.                                         *)
LEMMA Newest ==
    ASSUME NEW T \in SUBSET BackupIds, T # {}
    PROVE  \E m \in T : \A y \in T : y <= m
<1> DEFINE U == {MaxBackups - x : x \in T}
<1>1. U \subseteq Nat /\ U # {}
  <2>1. \A x \in T : MaxBackups - x \in Nat
    BY Bounds DEF BackupIds
  <2> QED
    BY <2>1
<1>2. PICK u \in U : \A y \in U : u <= y
  BY <1>1, Least
<1>3. PICK m \in T : u = MaxBackups - m
  BY <1>2
<1>4. ASSUME NEW y \in T PROVE y <= m
  <2>1. MaxBackups - m <= MaxBackups - y
    BY <1>2, <1>3
  <2> QED
    BY <2>1, Bounds
<1> QED
  BY <1>4

----------------------------------------------------------------------------
(* Frames: what each part of the invariant needs of a step.                *)
LEMMA WorkersStay ==
    ASSUME IInv, JobsKeep, ArchivesKeep, UNCHANGED wk
    PROVE  WorkInv' /\ ArchiveInv'
<1>1. WorkInv'
  <2>1. \A w \in Workers : Shape(wk'[w])
    BY DEF IInv, WorkInv
  <2>2. ASSUME NEW w \in Workers, wk[w].pc # "idle", wk[w].job \notin UpgradeJobs
        PROVE  jobs'[wk[w].job].of \in BackupIds
    <3>1. wk[w].job \in Jobs /\ jobs[wk[w].job].of \in BackupIds
      BY <2>2 DEF IInv, WorkInv, Shape
    <3> QED
      BY <3>1, Bounds DEF JobsKeep
  <2> QED
    BY <2>1, <2>2 DEF IInv, WorkInv, Shape
<1>2. ASSUME NEW w \in Workers, wk[w].pc = "complete"
      PROVE  jobs'[wk[w].job].of \in BackupIds /\ Kept(jobs[wk[w].job].of)'
  <2>1. /\ wk[w].job \in Jobs /\ jobs[wk[w].job].of \in BackupIds
        /\ Kept(jobs[wk[w].job].of)
    BY <1>2 DEF IInv, WorkInv, ArchiveInv, Shape
  <2>2. jobs'[wk[w].job].of = jobs[wk[w].job].of
    BY <2>1, Bounds DEF JobsKeep
  <2> QED
    BY <2>1, <2>2 DEF ArchivesKeep, Kept
<1>3. ArchiveInv'
  BY <1>2 DEF ArchiveInv, ArchivesKeep
<1> QED
  BY <1>1, <1>3

LEMMA WorkerMoves ==
    ASSUME IInv, JobsKeep, ArchivesKeep, NEW w \in Workers, NEW q \in WorkerRecs, Shape(q),
           wk' = [wk EXCEPT ![w] = q],
           q.pc # "idle" /\ q.job \notin UpgradeJobs => jobs[q.job].of \in BackupIds,
           q.pc = "complete" => q.job \in Jobs /\ jobs[q.job].of \in BackupIds
                                /\ Kept(jobs[q.job].of)
    PROVE  WorkInv' /\ ArchiveInv'
<1>1. /\ wk' \in [Workers -> WorkerRecs] /\ wk'[w] = q
      /\ \A u \in Workers \ {w} : wk'[u] = wk[u]
  BY DEF IInv, WorkInv
<1>2. \A u \in Workers : Shape(wk'[u])
  BY <1>1 DEF IInv, WorkInv
<1>3. ASSUME NEW u \in Workers, wk'[u].pc # "idle", wk'[u].job \notin UpgradeJobs
      PROVE  jobs'[wk'[u].job].of \in BackupIds
  <2>1. wk'[u].job \in Jobs /\ jobs[wk'[u].job].of \in BackupIds
    BY <1>1, <1>2, <1>3 DEF IInv, WorkInv, Shape
  <2> QED
    BY <2>1, Bounds DEF JobsKeep
<1>4. WorkInv'
  BY <1>1, <1>2, <1>3 DEF WorkInv, Shape
<1>5. ASSUME NEW u \in Workers, wk'[u].pc = "complete"
      PROVE  jobs'[wk'[u].job].of \in BackupIds /\ Kept(jobs[wk[u].job].of)'
  <2>1. PICK b \in BackupIds : wk'[u].job \in Jobs /\ jobs[wk'[u].job].of = b /\ Kept(b)
    BY <1>1, <1>5 DEF IInv, WorkInv, ArchiveInv, Shape
  <2>2. jobs'[wk'[u].job].of = b
    BY <2>1, Bounds DEF JobsKeep
  <2> QED
    BY <2>1, <2>2 DEF ArchivesKeep, Kept
<1>6. ArchiveInv'
  BY <1>5 DEF ArchiveInv, ArchivesKeep
<1> QED
  BY <1>4, <1>6

(* More complete backups, the same victims or fewer.                       *)
LEMMA PromiseKept ==
    ASSUME IInv, bk' \in [BackupIds -> BackupRecs], Promise,
           \A b \in BackupIds \ Doomed : bk[b].status = "complete" => bk'[b].status = "complete",
           Doomed' \subseteq Doomed, dep'.retention = dep.retention
    PROVE  Promise'
<1>1. SUFFICES ASSUME NEW v \in Doomed'
               PROVE  Cardinality(Newer(v)' \ Doomed') >= dep.retention
  BY DEF Promise
<1>2. Cardinality(Newer(v) \ Doomed) >= dep.retention
  BY <1>1 DEF Promise
<1>3. Newer(v) \ Doomed \subseteq Newer(v)' \ Doomed' /\ Newer(v)' \ Doomed' \subseteq BackupIds
  BY DEF Newer, Complete
<1>4. IsFiniteSet(Newer(v)' \ Doomed')
  BY <1>3, Bounds, FS_Subset
<1>5. /\ Cardinality(Newer(v) \ Doomed) <= Cardinality(Newer(v)' \ Doomed')
      /\ IsFiniteSet(Newer(v) \ Doomed)
  BY <1>3, <1>4, FS_Subset
<1>6. /\ Cardinality(Newer(v) \ Doomed) \in Nat /\ Cardinality(Newer(v)' \ Doomed') \in Nat
      /\ dep.retention \in Nat
  BY <1>4, <1>5, FS_CardinalityType, Bounds DEF IInv, TableInv, DepRecs
<1> QED
  BY <1>2, <1>5, <1>6

LEMMA SweepStays ==
    ASSUME IInv, CompleteKeep, bk' \in [BackupIds -> BackupRecs], UNCHANGED sw,
           dep'.retention = dep.retention
    PROVE  SweepInv'
<1>1. Doomed' = Doomed
  BY DEF Doomed
<1>2. ASSUME Promise PROVE Promise'
  BY <1>1, <1>2, PromiseKept DEF CompleteKeep
<1> QED
  BY <1>2 DEF IInv, SweepInv

(* Disturb makes no promise.                                               *)
LEMMA SweepDisturbed == ASSUME IInv, Disturb PROVE SweepInv'
<1>1. PICK c \in BOOLEAN : c <=> sw.pc \notin {"file", "row"}
  OBVIOUS
<1>2. sw \in SweepRecs /\ sw' = [sw EXCEPT !.calm = c]
  BY <1>1 DEF Disturb, IInv, SweepInv
<1>3. sw' \in SweepRecs /\ sw'.pc = sw.pc /\ sw'.v = sw.v /\ (sw'.calm <=> c)
  BY <1>2 DEF SweepRecs
<1> QED
  BY <1>1, <1>3 DEF IInv, SweepInv

(* The containers are left alone, or more of them run.                     *)
LEMMA ServesStill ==
    ASSUME IInv, UNCHANGED <<wk, imported, torn>>, cont \subseteq cont', dep'.ha = dep.ha
    PROVE  ServeInv'
<1>1. dep'.ha => imported'
  BY DEF IInv, ServeInv
<1>2. \A w \in Workers : /\ wk'[w].pc = "swap" => imported'
                         /\ wk'[w].pc = "stop" => dep'.ha
  BY DEF IInv, ServeInv
<1>3. ASSUME ~torn
      PROVE  /\ EndpointURL(dep'.ha) \subseteq cont'
             /\ \A w \in Workers : wk'[w].built \subseteq cont'
             /\ \A w, u \in Workers : w # u => wk'[w].built \cap wk'[u].built = {}
             /\ dep'.ha => \A w \in Workers : wk'[w].pc # "stop" => wk'[w].built = {}
  BY <1>3 DEF IInv, ServeInv
<1> QED
  BY <1>1, <1>2, <1>3 DEF ServeInv, EndpointURL

(* A worker moves on with what it built, or lets go of it.                 *)
LEMMA WorkerServes ==
    ASSUME IInv, NEW w \in Workers, NEW q \in WorkerRecs, wk' = [wk EXCEPT ![w] = q],
           q.pc \notin {"swap", "stop"}, q.built \subseteq wk[w].built,
           wk[w].pc = "stop" => q.built = {},
           UNCHANGED <<imported, torn>>, cont \subseteq cont', dep'.ha = dep.ha
    PROVE  ServeInv'
<1>1. wk'[w] = q /\ \A u \in Workers \ {w} : wk'[u] = wk[u]
  BY DEF IInv, WorkInv
<1>2. \A u \in Workers : /\ wk'[u].built \subseteq wk[u].built
                         /\ wk'[u].pc \in {"swap", "stop"} => wk'[u] = wk[u]
                         /\ wk[u].pc = "stop" => wk'[u].built = {} \/ wk'[u] = wk[u]
  BY <1>1
<1>3. dep'.ha => imported'
  BY DEF IInv, ServeInv
<1>4. \A u \in Workers : /\ wk'[u].pc = "swap" => imported'
                         /\ wk'[u].pc = "stop" => dep'.ha
  BY <1>2 DEF IInv, ServeInv
<1>5. ASSUME ~torn
      PROVE  /\ EndpointURL(dep'.ha) \subseteq cont'
             /\ \A u \in Workers : wk'[u].built \subseteq cont'
             /\ \A u, x \in Workers : u # x => wk'[u].built \cap wk'[x].built = {}
             /\ dep'.ha => \A u \in Workers : wk'[u].pc # "stop" => wk'[u].built = {}
  <2>1. /\ EndpointURL(dep.ha) \subseteq cont
        /\ \A u \in Workers : wk[u].built \subseteq cont
        /\ \A u, x \in Workers : u # x => wk[u].built \cap wk[x].built = {}
        /\ dep.ha => \A u \in Workers : wk[u].pc # "stop" => wk[u].built = {}
    BY <1>5 DEF IInv, ServeInv
  <2> QED
    BY <1>2, <2>1
<1> QED
  BY <1>3, <1>4, <1>5 DEF ServeInv, EndpointURL

LEMMA RequestMoves ==
    ASSUME IInv, NEW r \in Requests, NEW q \in RequestRecs,
           q.pc \in {"restore", "file", "row"} => q.b \in BackupIds,
           req' = [req EXCEPT ![r] = q]
    PROVE  ReqInv'
<1>1. /\ req' \in [Requests -> RequestRecs] /\ req'[r] = q
      /\ \A x \in Requests \ {r} : req'[x] = req[x]
  BY DEF IInv, ReqInv
<1> QED
  BY <1>1 DEF IInv, ReqInv

----------------------------------------------------------------------------
(* The tables.                                                             *)
LEMMA JobsStay == ASSUME IInv, UNCHANGED jobs PROVE JobsKeep
  BY DEF IInv, JobInv, JobOK, JobsKeep

LEMMA ArchivesStay ==
    ASSUME IInv, UNCHANGED bk, files \subseteq files', files' \subseteq BackupIds
    PROVE  ArchivesKeep /\ CompleteKeep
<1>1. bk' \in [BackupIds -> BackupRecs]
  BY DEF IInv, TableInv
<1>2. \A b \in BackupIds : bk'[b].status = "complete" => b \in files' \/ bk'[b].taken
  BY DEF IInv, ArchiveInv
<1>3. \A b \in BackupIds : Kept(b) => Kept(b)'
  BY DEF Kept
<1> QED
  BY <1>1, <1>2, <1>3 DEF ArchivesKeep, CompleteKeep

LEMMA OneJob ==
    ASSUME IInv, NEW j \in Jobs, NEW q \in JobRecs, JobOK(j, q),
           jobs[j].of # 0 => q.of = jobs[j].of, jobs' = [jobs EXCEPT ![j] = q]
    PROVE  JobsKeep
<1>1. /\ jobs' \in [Jobs -> JobRecs] /\ jobs'[j] = q
      /\ \A i \in Jobs \ {j} : jobs'[i] = jobs[i]
  BY DEF IInv, JobInv
<1>2. \A i \in Jobs : JobOK(i, jobs'[i])
  BY <1>1 DEF IInv, JobInv
<1> QED
  BY <1>1, <1>2 DEF JobsKeep, JobInv, JobOK

LEMMA OneBackup ==
    ASSUME IInv, NEW b \in BackupIds, NEW q \in BackupRecs, bk' = [bk EXCEPT ![b] = q],
           files' \subseteq BackupIds, files \ {b} \subseteq files',
           q.status = "complete" => b \in files' \/ q.taken,
           Kept(b) => b \in files' \/ q.taken \/ q.status = "gone"
    PROVE  ArchivesKeep
<1>1. /\ bk' \in [BackupIds -> BackupRecs] /\ bk'[b] = q
      /\ \A x \in BackupIds \ {b} : bk'[x] = bk[x]
  BY DEF IInv, TableInv
<1>2. \A x \in BackupIds : bk'[x].status = "complete" => x \in files' \/ bk'[x].taken
  BY <1>1 DEF IInv, ArchiveInv
<1>3. \A x \in BackupIds : Kept(x) => Kept(x)'
  BY <1>1 DEF Kept
<1> QED
  BY <1>1, <1>2, <1>3 DEF ArchivesKeep

LEMMA OneStaysComplete ==
    ASSUME IInv, NEW b \in BackupIds, NEW q, bk' = [bk EXCEPT ![b] = q],
           bk[b].status = "complete" => q.status = "complete"
    PROVE  CompleteKeep
<1>1. bk'[b] = q /\ \A x \in BackupIds \ {b} : bk'[x] = bk[x]
  BY DEF IInv, TableInv
<1> QED
  BY <1>1 DEF CompleteKeep

(* InsertBackup: the row is new, and so is its job.                        *)
LEMMA InsertKeeps ==
    ASSUME IInv, NEW b \in BackupIds, InsertBackup(b), UNCHANGED files
    PROVE  JobsKeep /\ ArchivesKeep /\ CompleteKeep
<1>0. /\ bk[b] \in BackupRecs /\ bk[b].status = "none" /\ files \subseteq BackupIds
      /\ bk \in [BackupIds -> BackupRecs] /\ jobs \in [Jobs -> JobRecs]
  BY DEF IInv, TableInv, JobInv, InsertBackup, Created
<1>1. PICK q \in BackupRecs : q = [bk[b] EXCEPT !.status = "pending"]
  BY <1>0 DEF BackupRecs, Open
<1>2. q.status = "pending" /\ q.taken = bk[b].taken
  BY <1>0, <1>1 DEF BackupRecs
<1>3. bk' = [bk EXCEPT ![b] = q]
  BY <1>0, <1>1 DEF InsertBackup
<1>4. ArchivesKeep
  BY <1>0, <1>2, <1>3, OneBackup DEF Kept
<1>5. CompleteKeep
  BY <1>0, <1>3, OneStaysComplete
<1>6. PICK p \in JobRecs : p = [status |-> "pending", attempts |-> 0, of |-> b]
  BY Bounds DEF JobRecs
<1>7. JobOK(<<"backup", b>>, p)
  BY <1>6, JobOfBackup, Bounds DEF JobOK
<1>8. jobs[<<"backup", b>>].of # 0 => p.of = jobs[<<"backup", b>>].of
  <2>1. <<"backup", b>> \in BackupJobs
    BY DEF BackupJobs
  <2> QED
    BY <1>6, <2>1, JobOfBackup DEF IInv, JobInv, JobOK
<1>9. JobsKeep
  BY <1>6, <1>7, <1>8, JobOfBackup, OneJob DEF InsertBackup
<1> QED
  BY <1>4, <1>5, <1>9

(* RemoveArchive takes the archive and says so.                            *)
LEMMA RemoveKeeps ==
    ASSUME IInv, NEW b \in BackupIds, RemoveArchive(b)
    PROVE  ArchivesKeep /\ CompleteKeep
<1>0. bk[b] \in BackupRecs /\ files \subseteq BackupIds /\ bk \in [BackupIds -> BackupRecs]
  BY DEF IInv, TableInv
<1>1. PICK q \in BackupRecs : q = [bk[b] EXCEPT !.taken = TRUE]
  BY <1>0 DEF BackupRecs
<1>2. q.status = bk[b].status /\ q.taken
  BY <1>0, <1>1 DEF BackupRecs
<1>3. bk' = [bk EXCEPT ![b] = q] /\ files' = files \ {b}
  BY <1>0, <1>1 DEF RemoveArchive
<1> QED
  BY <1>0, <1>2, <1>3, OneBackup, OneStaysComplete

(* DropRow: the row is gone for good, its jobs wait for nothing.           *)
LEMMA DropKeeps ==
    ASSUME IInv, NEW b \in BackupIds, DropRow(b), UNCHANGED files
    PROVE  JobsKeep /\ ArchivesKeep
<1>0. bk[b] \in BackupRecs /\ files \subseteq BackupIds /\ jobs \in [Jobs -> JobRecs]
  BY DEF IInv, TableInv, JobInv
<1>1. Gone \in BackupRecs /\ Gone.status = "gone"
  BY DEF Gone, BackupRecs
<1>2. bk' = [bk EXCEPT ![b] = Gone]
  BY DEF DropRow
<1>3. ArchivesKeep
  BY <1>0, <1>1, <1>2, OneBackup
<1>4. ASSUME NEW j \in Jobs
      PROVE  /\ jobs'[j] \in JobRecs /\ JobOK(j, jobs'[j])
             /\ jobs'[j].of = jobs[j].of
  <2>1. jobs[j] \in JobRecs /\ JobOK(j, jobs[j])
    BY DEF IInv, JobInv
  <2>2. CASE jobs[j].of = b
    <3>1. jobs'[j] = [jobs[j] EXCEPT !.status = "none", !.attempts = 0]
      BY <2>2 DEF DropRow
    <3>2. /\ jobs'[j] \in JobRecs /\ jobs'[j].status = "none" /\ jobs'[j].attempts = 0
          /\ jobs'[j].of = jobs[j].of
      BY <2>1, <3>1, Bounds DEF JobRecs
    <3> QED
      BY <2>1, <3>2 DEF JobOK
  <2>3. CASE jobs[j].of # b
    BY <2>1, <2>3 DEF DropRow
  <2> QED
    BY <2>2, <2>3
<1>5. jobs' \in [Jobs -> JobRecs]
  <2>1. jobs' = [j \in Jobs |-> jobs'[j]]
    BY DEF DropRow
  <2> QED
    BY <1>4, <2>1
<1>6. JobsKeep
  BY <1>4, <1>5 DEF JobsKeep, JobInv, JobOK
<1> QED
  BY <1>3, <1>6

(* SetStatus leaves a row that is gone alone.                              *)
LEMMA SetStatusKeeps ==
    ASSUME IInv, NEW b \in BackupIds, NEW s \in {"complete", "failed"}, SetStatus(b, s),
           s = "complete" => Kept(b), UNCHANGED files
    PROVE  ArchivesKeep /\ (s = "complete" \/ bk[b].status # "complete" => CompleteKeep)
<1>0. bk[b] \in BackupRecs /\ files \subseteq BackupIds /\ bk \in [BackupIds -> BackupRecs]
  BY DEF IInv, TableInv
<1>1. PICK t \in {"complete", "failed", "gone"} : t = IF bk[b].status = "gone" THEN "gone" ELSE s
  OBVIOUS
<1>2. PICK q \in BackupRecs : q = [bk[b] EXCEPT !.status = t]
  BY <1>0 DEF BackupRecs
<1>3. q.status = t /\ q.taken = bk[b].taken
  BY <1>0, <1>2 DEF BackupRecs
<1>4. bk' = [bk EXCEPT ![b] = q]
  BY <1>0, <1>1, <1>2 DEF SetStatus
<1>5. q.status = "complete" => b \in files' \/ q.taken
  BY <1>1, <1>3 DEF Kept
<1>6. Kept(b) => b \in files' \/ q.taken \/ q.status = "gone"
  BY <1>1, <1>3 DEF Kept
<1>7. ArchivesKeep
  BY <1>0, <1>4, <1>5, <1>6, OneBackup
<1>8. ASSUME s = "complete" \/ bk[b].status # "complete" PROVE CompleteKeep
  BY <1>1, <1>3, <1>4, <1>8, OneStaysComplete
<1> QED
  BY <1>7, <1>8

(* Settle: by id, whoever holds the claim.                                 *)
LEMMA SettleKeeps ==
    ASSUME IInv, NEW j \in Jobs, NEW s \in {"done", "failed"}, Settle(j, s)
    PROVE  JobsKeep
<1>0. jobs[j] \in JobRecs /\ JobOK(j, jobs[j]) /\ jobs \in [Jobs -> JobRecs]
  BY DEF IInv, JobInv
<1>1. CASE jobs[j].status = "none"
  <2>1. jobs' = [jobs EXCEPT ![j] = jobs[j]]
    BY <1>1 DEF Settle
  <2> QED
    BY <1>0, <2>1, OneJob
<1>2. CASE jobs[j].status # "none"
  <2>1. PICK q \in JobRecs : q = [jobs[j] EXCEPT !.status = s, !.attempts = 0]
    BY <1>0, Bounds DEF JobRecs
  <2>2. q.status = s /\ q.attempts = 0 /\ q.of = jobs[j].of
    BY <1>0, <2>1 DEF JobRecs
  <2>3. jobs' = [jobs EXCEPT ![j] = q]
    BY <1>2, <2>1 DEF Settle
  <2>4. JobOK(j, q)
    BY <1>0, <1>2, <2>2 DEF JobOK
  <2> QED
    BY <2>2, <2>3, <2>4, OneJob
<1> QED
  BY <1>1, <1>2

LEMMA Assemble ==
    ASSUME IInv, JobsKeep, ArchivesKeep, ReqInv', SweepInv', WorkInv', ArchiveInv', ServeInv',
           dep' \in DepRecs, cont' \subseteq Conts, imported' \in BOOLEAN, torn' \in BOOLEAN
    PROVE  IInv'
  BY DEF IInv, TableInv, JobsKeep, ArchivesKeep

(* A step that no worker takes.                                            *)
LEMMA RowsStep ==
    ASSUME IInv, JobsKeep, ArchivesKeep, ReqInv', SweepInv', dep' \in DepRecs,
           dep'.ha = dep.ha, UNCHANGED <<wk, cont, imported, torn>>
    PROVE  IInv'
<1>1. WorkInv' /\ ArchiveInv'
  BY WorkersStay
<1>2. ServeInv'
  BY ServesStill
<1>3. cont' \subseteq Conts /\ imported' \in BOOLEAN /\ torn' \in BOOLEAN
  BY DEF IInv, TableInv
<1> QED
  BY <1>1, <1>2, <1>3, Assemble

----------------------------------------------------------------------------
(* Requests.                                                               *)
LEMMA IdleIsFine ==
    /\ IdleRequest \in RequestRecs /\ IdleRequest.pc = "idle"
    /\ IdleWorker \in WorkerRecs /\ IdleWorker.pc = "idle" /\ IdleWorker.built = {}
    /\ Shape(IdleWorker)
    /\ IdleSweep \in SweepRecs /\ IdleSweep.pc = "idle"
<1>1. IdleRequest \in RequestRecs /\ IdleRequest.pc = "idle"
  BY Bounds DEF IdleRequest, RequestRecs
<1>2. IdleWorker \in WorkerRecs /\ IdleWorker.pc = "idle" /\ IdleWorker.built = {}
  BY DEF IdleWorker, WorkerRecs
<1>3. Shape(IdleWorker)
  BY <1>2 DEF Shape
<1>4. IdleSweep \in SweepRecs /\ IdleSweep.pc = "idle"
  BY Bounds DEF IdleSweep, SweepRecs
<1> QED
  BY <1>1, <1>2, <1>3, <1>4

LEMMA EndRequest == ASSUME IInv, NEW r \in Requests, End(r) PROVE ReqInv'
  BY IdleIsFine, RequestMoves DEF End

LEMMA GotoRequest ==
    ASSUME IInv, NEW r \in Requests, NEW l \in {"row", "deleted"}, Goto(r, l),
           l = "row" => req[r].pc = "file"
    PROVE  ReqInv'
<1>0. /\ req[r] \in RequestRecs /\ (req[r].pc = "file" => req[r].b \in BackupIds)
      /\ req \in [Requests -> RequestRecs]
  BY DEF IInv, ReqInv
<1>1. PICK q \in RequestRecs : q = [req[r] EXCEPT !.pc = l]
  BY <1>0 DEF RequestRecs
<1>2. q.pc = l /\ q.b = req[r].b
  BY <1>0, <1>1 DEF RequestRecs
<1>3. req' = [req EXCEPT ![r] = q]
  BY <1>0, <1>1 DEF Goto
<1> QED
  BY <1>0, <1>2, <1>3, RequestMoves

(* The reads of the handlers, and their failure paths.                     *)
LEMMA QuietRequests ==
    ASSUME IInv, NEW r \in Requests, UNCHANGED <<imported, torn>>,
           \/ RequestAborts(r) \/ CheckInFlight(r) \/ BeginDelete(r)
           \/ \E b \in BackupIds : CheckComplete(r, b) \/ CheckSettled(r, b)
    PROVE  IInv'
<1>1. UNCHANGED <<dep, bk, jobs, cont, files, wk, sw>>
  BY DEF RequestAborts, CheckInFlight, BeginDelete, CheckComplete, CheckSettled, rows
<1>2. ReqInv'
  <2>1. CASE RequestAborts(r)
    BY <2>1, EndRequest DEF RequestAborts
  <2>2. CASE CheckInFlight(r)
    <3>1. PICK q \in RequestRecs : q = [IdleRequest EXCEPT !.pc = "insert"]
      BY IdleIsFine, Bounds DEF RequestRecs
    <3>2. q.pc = "insert"
      BY <3>1, IdleIsFine DEF RequestRecs
    <3> QED
      BY <2>2, <3>1, <3>2, RequestMoves DEF CheckInFlight, Start
  <2>3. CASE BeginDelete(r)
    <3>1. PICK h \in BOOLEAN : h = dep.ha
      BY DEF IInv, TableInv, DepRecs
    <3>2. PICK q \in RequestRecs : q = [IdleRequest EXCEPT !.pc = "teardown", !.ha = h]
      BY IdleIsFine, Bounds DEF RequestRecs
    <3>3. q.pc = "teardown"
      BY <3>2, IdleIsFine DEF RequestRecs
    <3> QED
      BY <2>3, <3>1, <3>2, <3>3, RequestMoves DEF BeginDelete, Start
  <2>4. ASSUME NEW b \in BackupIds, CheckComplete(r, b) PROVE ReqInv'
    <3>1. PICK q \in RequestRecs : q = [IdleRequest EXCEPT !.pc = "restore", !.b = b]
      BY IdleIsFine, Bounds DEF RequestRecs
    <3>2. q.pc = "restore" /\ q.b = b
      BY <3>1, IdleIsFine DEF RequestRecs
    <3> QED
      BY <2>4, <3>1, <3>2, RequestMoves DEF CheckComplete, Start
  <2>5. ASSUME NEW b \in BackupIds, CheckSettled(r, b) PROVE ReqInv'
    <3>1. PICK q \in RequestRecs : q = [IdleRequest EXCEPT !.pc = "file", !.b = b]
      BY IdleIsFine, Bounds DEF RequestRecs
    <3>2. q.pc = "file" /\ q.b = b
      BY <3>1, IdleIsFine DEF RequestRecs
    <3> QED
      BY <2>5, <3>1, <3>2, RequestMoves, ZenonT(40) DEF CheckSettled, Start
  <2> QED
    BY <2>1, <2>2, <2>3, <2>4, <2>5
<1>3. dep' \in DepRecs /\ dep'.ha = dep.ha /\ dep'.retention = dep.retention
  BY <1>1 DEF IInv, TableInv
<1>4. files \subseteq files' /\ files' \subseteq BackupIds /\ bk' \in [BackupIds -> BackupRecs]
  BY <1>1 DEF IInv, TableInv
<1>5. JobsKeep /\ ArchivesKeep /\ CompleteKeep
  BY <1>1, <1>4, JobsStay, ArchivesStay
<1>6. SweepInv'
  BY <1>1, <1>3, <1>4, <1>5, SweepStays
<1> QED
  BY <1>1, <1>2, <1>3, <1>5, <1>6, RowsStep

(* createBackup inserts ...                                                *)
LEMMA CreateBackupStep ==
    ASSUME IInv, NEW r \in Requests, NEW b \in BackupIds, CreateBackup(r, b),
           UNCHANGED <<imported, torn>>
    PROVE  IInv'
<1>1. /\ End(r) /\ InsertBackup(b) /\ UNCHANGED <<dep, cont, files, wk, sw>>
  BY DEF CreateBackup
<1>2. JobsKeep /\ ArchivesKeep /\ CompleteKeep
  BY <1>1, InsertKeeps
<1>3. dep' \in DepRecs /\ dep'.ha = dep.ha /\ dep'.retention = dep.retention
  BY <1>1 DEF IInv, TableInv
<1>4. SweepInv'
  BY <1>1, <1>2, <1>3, SweepStays DEF ArchivesKeep
<1> QED
  BY <1>1, <1>2, <1>3, <1>4, EndRequest, RowsStep

(* ... restoreBackup refers to a row that exists ...                       *)
LEMMA RestoreBackupStep ==
    ASSUME IInv, NEW r \in Requests, NEW j \in RestoreJobs, RestoreBackup(r, j),
           UNCHANGED <<imported, torn>>
    PROVE  IInv'
<1>1. /\ End(r) /\ UNCHANGED <<dep, bk, cont, files, wk, sw>> /\ jobs[j].of = 0
      /\ req[r].pc = "restore"
  BY DEF RestoreBackup, At
<1>2. PICK b \in BackupIds : b = req[r].b
  BY <1>1 DEF IInv, ReqInv
<1>3. j \in Jobs /\ j \notin UpgradeJobs /\ j \notin BackupJobs
  BY JobKinds DEF Jobs
<1>4. jobs[j] \in JobRecs /\ JobOK(j, jobs[j]) /\ jobs \in [Jobs -> JobRecs]
  BY <1>3 DEF IInv, JobInv
<1>5. PICK q \in JobRecs : q = [jobs[j] EXCEPT !.status = "pending", !.of = b]
  BY <1>4, Bounds DEF JobRecs
<1>6. q.status = "pending" /\ q.of = b /\ q.attempts = jobs[j].attempts
  BY <1>4, <1>5 DEF JobRecs
<1>7. jobs' = [jobs EXCEPT ![j] = q]
  BY <1>2, <1>4, <1>5 DEF RestoreBackup
<1>8. jobs[j].status = "none"
  BY <1>1, <1>3, <1>4, Bounds DEF JobOK
<1>9. JobOK(j, q)
  BY <1>3, <1>4, <1>6, <1>8, Bounds DEF JobOK
<1>10. JobsKeep
  BY <1>1, <1>3, <1>7, <1>9, OneJob
<1>11. dep' \in DepRecs /\ dep'.ha = dep.ha /\ dep'.retention = dep.retention
  BY <1>1 DEF IInv, TableInv
<1>12. ArchivesKeep /\ CompleteKeep
  <2>1. files \subseteq files' /\ files' \subseteq BackupIds
    BY <1>1 DEF IInv, TableInv
  <2> QED
    BY <1>1, <2>1, ArchivesStay
<1>13. SweepInv'
  BY <1>1, <1>11, <1>12, SweepStays DEF ArchivesKeep
<1> QED
  BY <1>1, <1>10, <1>11, <1>12, <1>13, EndRequest, RowsStep

(* ... and deleteBackup takes the archive, then the row.                   *)
LEMMA DeleteBackupSteps ==
    ASSUME IInv, NEW r \in Requests, DeleteArchive(r) \/ DeleteBackup(r),
           UNCHANGED <<imported, torn>>
    PROVE  IInv'
<1>1. CASE DeleteArchive(r)
  <2>1. /\ Goto(r, "row") /\ req[r].pc = "file" /\ RemoveArchive(req[r].b)
        /\ UNCHANGED <<dep, jobs, cont, wk, sw>>
    BY <1>1 DEF DeleteArchive, At
  <2>2. req[r].b \in BackupIds
    BY <2>1 DEF IInv, ReqInv
  <2>3. ArchivesKeep /\ CompleteKeep /\ JobsKeep
    BY <2>1, <2>2, RemoveKeeps, JobsStay
  <2>4. dep' \in DepRecs /\ dep'.ha = dep.ha /\ dep'.retention = dep.retention
    BY <2>1 DEF IInv, TableInv
  <2>5. SweepInv'
    BY <2>1, <2>3, <2>4, SweepStays DEF ArchivesKeep
  <2>6. ReqInv'
    BY <2>1, GotoRequest
  <2> QED
    BY <2>1, <2>3, <2>4, <2>5, <2>6, RowsStep
<1>2. CASE DeleteBackup(r)
  <2>1. /\ End(r) /\ req[r].pc = "row" /\ DropRow(req[r].b) /\ Disturb
        /\ UNCHANGED <<dep, cont, files, wk>>
    BY <1>2 DEF DeleteBackup, At
  <2>2. req[r].b \in BackupIds
    BY <2>1 DEF IInv, ReqInv
  <2>3. ArchivesKeep /\ JobsKeep
    BY <2>1, <2>2, DropKeeps
  <2>4. dep' \in DepRecs /\ dep'.ha = dep.ha
    BY <2>1 DEF IInv, TableInv
  <2>5. SweepInv' /\ ReqInv'
    BY <2>1, SweepDisturbed, EndRequest
  <2> QED
    BY <2>1, <2>3, <2>4, <2>5, RowsStep
<1> QED
  BY <1>1, <1>2

(* updateBackupSettings.                                                   *)
LEMMA UpdateSettingsStep ==
    ASSUME IInv, NEW r \in Requests, NEW s \in {"none", "daily"}, NEW n \in Retentions,
           UpdateBackupSettings(r, s, n), UNCHANGED <<imported, torn>>
    PROVE  IInv'
<1>1. /\ dep' = [dep EXCEPT !.schedule = s, !.retention = n] /\ Disturb
      /\ UNCHANGED <<cont, bk, files, jobs, wk, req>>
  BY DEF UpdateBackupSettings
<1>2. dep' \in DepRecs /\ dep'.ha = dep.ha
  BY <1>1 DEF IInv, TableInv, DepRecs
<1>3. ArchivesKeep /\ JobsKeep
  <2>1. files \subseteq files' /\ files' \subseteq BackupIds
    BY <1>1 DEF IInv, TableInv
  <2> QED
    BY <1>1, <2>1, ArchivesStay, JobsStay
<1>4. SweepInv' /\ ReqInv'
  BY <1>1, SweepDisturbed DEF IInv, ReqInv
<1> QED
  BY <1>1, <1>2, <1>3, <1>4, RowsStep

(* upgradeToHA: a job of its own, which knows no backup.                   *)
LEMMA UpgradeToHAStep ==
    ASSUME IInv, NEW r \in Requests, NEW j \in UpgradeJobs, UpgradeToHA(r, j)
    PROVE  IInv'
<1>1. /\ UNCHANGED <<dep, bk, cont, files, wk, sw, req, imported, torn>>
      /\ jobs[j].status = "none" /\ jobs' = [jobs EXCEPT ![j].status = "pending"]
  BY DEF UpgradeToHA
<1>2. j \in Jobs /\ j \notin BackupJobs
  BY DEF Jobs, BackupJobs, UpgradeJobs
<1>3. jobs[j] \in JobRecs /\ JobOK(j, jobs[j]) /\ jobs \in [Jobs -> JobRecs]
  BY <1>2 DEF IInv, JobInv
<1>4. PICK q \in JobRecs : q = [jobs[j] EXCEPT !.status = "pending"]
  BY <1>3 DEF JobRecs
<1>5. q.status = "pending" /\ q.attempts = 0 /\ q.of = jobs[j].of
  BY <1>1, <1>3, <1>4 DEF JobRecs, JobOK
<1>6. jobs' = [jobs EXCEPT ![j] = q] /\ JobOK(j, q)
  BY <1>1, <1>2, <1>3, <1>4, <1>5, Bounds DEF JobOK
<1>7. JobsKeep
  BY <1>2, <1>5, <1>6, OneJob
<1>8. ArchivesKeep /\ CompleteKeep
  <2>1. files \subseteq files' /\ files' \subseteq BackupIds
    BY <1>1 DEF IInv, TableInv
  <2> QED
    BY <1>1, <2>1, ArchivesStay
<1>9. dep' \in DepRecs /\ dep'.ha = dep.ha /\ dep'.retention = dep.retention /\ ReqInv'
  BY <1>1 DEF IInv, TableInv, ReqInv
<1>10. SweepInv'
  BY <1>1, <1>8, <1>9, SweepStays DEF ArchivesKeep
<1> QED
  BY <1>1, <1>7, <1>8, <1>9, <1>10, RowsStep

(* deleteDeployment: what it tears down is nobody's promise any more.      *)
LEMMA DeleteDeploymentSteps ==
    ASSUME IInv, NEW r \in Requests, Teardown(r) \/ DeleteDeployment(r)
    PROVE  IInv'
<1>1. CASE DeleteDeployment(r)
  <2>1. /\ End(r) /\ dep' = [dep EXCEPT !.status = "deleted"]
        /\ UNCHANGED <<bk, jobs, cont, files, wk, sw, imported, torn>>
    BY <1>1 DEF DeleteDeployment
  <2>2. dep' \in DepRecs /\ dep'.ha = dep.ha /\ dep'.retention = dep.retention
    BY <2>1 DEF IInv, TableInv, DepRecs
  <2>3. ArchivesKeep /\ CompleteKeep /\ JobsKeep
    <3>1. files \subseteq files' /\ files' \subseteq BackupIds
      BY <2>1 DEF IInv, TableInv
    <3> QED
      BY <2>1, <3>1, ArchivesStay, JobsStay
  <2>4. SweepInv'
    BY <2>1, <2>2, <2>3, SweepStays DEF ArchivesKeep
  <2> QED
    BY <2>1, <2>2, <2>3, <2>4, EndRequest, RowsStep
<1>2. CASE Teardown(r)
  <2>1. /\ Goto(r, "deleted") /\ cont' \subseteq cont /\ torn' = TRUE
        /\ UNCHANGED <<dep, bk, jobs, files, wk, sw, imported>>
    BY <1>2 DEF Teardown, rows
  <2>2. dep' \in DepRecs /\ dep'.retention = dep.retention /\ cont' \subseteq Conts
        /\ imported' \in BOOLEAN /\ torn' \in BOOLEAN
    BY <2>1 DEF IInv, TableInv
  <2>3. ArchivesKeep /\ CompleteKeep /\ JobsKeep
    <3>1. files \subseteq files' /\ files' \subseteq BackupIds
      BY <2>1 DEF IInv, TableInv
    <3> QED
      BY <2>1, <3>1, ArchivesStay, JobsStay
  <2>4. SweepInv'
    BY <2>1, <2>2, <2>3, SweepStays DEF ArchivesKeep
  <2>5. ReqInv'
    BY <2>1, GotoRequest
  <2>6. ServeInv'
    BY <2>1 DEF IInv, ServeInv
  <2> QED
    BY <2>1, <2>2, <2>3, <2>4, <2>5, <2>6, WorkersStay, Assemble
<1> QED
  BY <1>1, <1>2

----------------------------------------------------------------------------
(* The sweeper.                                                            *)
LEMMA SweepElsewhere ==
    ASSUME sw' \in SweepRecs, sw'.pc \notin {"file", "row"}
    PROVE  SweepInv'
  BY DEF SweepInv

LEMMA SweepGoes ==
    ASSUME IInv, NEW l \in {"schedule", "enqueue", "prune"}, sw' = [sw EXCEPT !.pc = l]
    PROVE  SweepInv'
<1>1. sw' \in SweepRecs /\ sw'.pc = l
  BY DEF IInv, SweepInv, SweepRecs
<1> QED
  BY <1>1, SweepElsewhere

(* The next victim, or the end of the sweep: fewer are doomed.             *)
LEMMA NextVictimStep ==
    ASSUME IInv, NEW todo \in SUBSET sw.todo, sw.pc \in {"file", "row"}, NextVictim(todo),
           bk' \in [BackupIds -> BackupRecs], dep'.retention = dep.retention,
           \A b \in BackupIds \ Doomed : bk[b].status = "complete" => bk'[b].status = "complete"
    PROVE  SweepInv'
<1>0. sw \in SweepRecs /\ (sw.calm => Promise)
  BY DEF IInv, SweepInv
<1>1. CASE todo = {}
  BY <1>1, IdleIsFine, SweepElsewhere DEF NextVictim
<1>2. CASE todo # {}
  <2>1. sw' = [sw EXCEPT !.pc = "file", !.todo = todo, !.v = 0]
    BY <1>2 DEF NextVictim
  <2>2. /\ sw' \in SweepRecs /\ sw'.pc = "file" /\ sw'.todo = todo
        /\ (sw'.calm <=> sw.calm)
    BY <1>0, <2>1, Bounds DEF SweepRecs
  <2>3. Doomed' \subseteq Doomed
    BY <2>2 DEF Doomed
  <2>4. ASSUME sw.calm PROVE Promise'
    BY <1>0, <2>3, <2>4, PromiseKept
  <2> QED
    BY <2>2, <2>4 DEF SweepInv
<1> QED
  BY <1>1, <1>2

(* failStale.                                                              *)
LEMMA FailStaleStep ==
    ASSUME IInv, FailStale, UNCHANGED <<imported, torn>> PROVE IInv'
<1>1. /\ sw' = [sw EXCEPT !.pc = "schedule"]
      /\ UNCHANGED <<dep, cont, files, jobs, wk, req>>
  BY DEF FailStale, Sweep
<1>2. ASSUME NEW b \in BackupIds
      PROVE  /\ bk'[b] \in BackupRecs
             /\ bk'[b].status = "complete" => bk[b].status = "complete" /\ bk'[b] = bk[b]
             /\ Kept(b) => Kept(b)'
  <2>0. bk[b] \in BackupRecs
    BY DEF IInv, TableInv
  <2>1. CASE Stale(b)
    <3>1. bk'[b] = [bk[b] EXCEPT !.status = "failed"] /\ bk[b].status # "gone"
      BY <2>1 DEF FailStale, Stale, Open
    <3>2. bk'[b] \in BackupRecs /\ bk'[b].status = "failed" /\ bk'[b].taken = bk[b].taken
      BY <2>0, <3>1 DEF BackupRecs
    <3> QED
      BY <1>1, <3>1, <3>2 DEF Kept
  <2>2. CASE ~Stale(b)
    <3>1. bk'[b] = bk[b]
      BY <2>2 DEF FailStale
    <3> QED
      BY <1>1, <2>0, <3>1 DEF Kept
  <2> QED
    BY <2>1, <2>2
<1>3. bk' \in [BackupIds -> BackupRecs]
  <2>1. bk' = [b \in BackupIds |-> bk'[b]]
    BY DEF FailStale
  <2> QED
    BY <1>2, <2>1
<1>4. files' \subseteq BackupIds /\ dep' \in DepRecs /\ dep'.ha = dep.ha /\ ReqInv'
  BY <1>1 DEF IInv, TableInv, ReqInv
<1>5. \A b \in BackupIds : bk'[b].status = "complete" => b \in files' \/ bk'[b].taken
  BY <1>1, <1>2 DEF IInv, ArchiveInv
<1>6. ArchivesKeep
  BY <1>2, <1>3, <1>4, <1>5 DEF ArchivesKeep
<1>7. SweepInv' /\ JobsKeep
  BY <1>1, SweepGoes, JobsStay
<1> QED
  BY <1>1, <1>4, <1>6, <1>7, RowsStep

(* enqueueScheduled and enqueueOne.                                        *)
LEMMA EnqueueSteps ==
    ASSUME IInv, EnqueueScheduled \/ EnqueueOne, UNCHANGED <<imported, torn>> PROVE IInv'
<1>1. UNCHANGED <<dep, cont, files, wk, req>>
  BY DEF EnqueueScheduled, EnqueueOne, Sweep, rows
<1>2. \E l \in {"enqueue", "prune"} : sw' = [sw EXCEPT !.pc = l]
  BY DEF EnqueueScheduled, EnqueueOne, Sweep
<1>3. dep' \in DepRecs /\ dep'.ha = dep.ha /\ ReqInv'
  BY <1>1 DEF IInv, TableInv, ReqInv
<1>4. JobsKeep /\ ArchivesKeep
  <2>1. CASE UNCHANGED <<bk, jobs>>
    <3>1. files \subseteq files' /\ files' \subseteq BackupIds
      BY <1>1 DEF IInv, TableInv
    <3> QED
      BY <2>1, <3>1, ArchivesStay, JobsStay
  <2>2. ASSUME NEW b \in BackupIds, InsertBackup(b) PROVE JobsKeep /\ ArchivesKeep
    BY <1>1, <2>2, InsertKeeps
  <2> QED
    BY <2>1, <2>2 DEF EnqueueScheduled, EnqueueOne, rows
<1>5. SweepInv'
  BY <1>2, SweepGoes
<1> QED
  BY <1>1, <1>3, <1>4, <1>5, RowsStep

(* The newest that can be pruned has retention many above it, and they     *)
(* cannot be: they are above every other one too.                          *)
LEMMA PrunableKeeps ==
    ASSUME IInv, NEW v \in Prunable
    PROVE  Cardinality(Newer(v) \ Prunable) >= dep.retention
<1>1. Prunable \in SUBSET BackupIds /\ Prunable # {}
  BY DEF Prunable, Complete
<1>2. PICK m \in Prunable : \A y \in Prunable : y <= m
  BY <1>1, Newest
<1>3. Cardinality(Newer(m)) >= dep.retention
  BY <1>2 DEF Prunable
<1>4. /\ Newer(m) \subseteq Newer(v) \ Prunable /\ Newer(v) \ Prunable \subseteq BackupIds
  <2>1. m \in Nat /\ v \in Nat /\ v <= m
    BY <1>1, <1>2, Bounds
  <2>2. ASSUME NEW c \in Newer(m) PROVE c \in Newer(v) \ Prunable
    <3>1. c \in Complete /\ c > m /\ c \in Nat
      BY <2>2, Bounds DEF Newer, Complete
    <3>2. c > v /\ ~(c <= m)
      BY <2>1, <3>1
    <3> QED
      BY <1>2, <3>1, <3>2 DEF Newer
  <2> QED
    BY <2>2 DEF Newer, Complete
<1>5. IsFiniteSet(Newer(v) \ Prunable)
  BY <1>4, Bounds, FS_Subset
<1>6. /\ Cardinality(Newer(m)) <= Cardinality(Newer(v) \ Prunable)
      /\ IsFiniteSet(Newer(m))
  BY <1>4, <1>5, FS_Subset
<1>7. /\ Cardinality(Newer(m)) \in Nat /\ Cardinality(Newer(v) \ Prunable) \in Nat
      /\ dep.retention \in Nat
  BY <1>5, <1>6, FS_CardinalityType, Bounds DEF IInv, TableInv, DepRecs
<1> QED
  BY <1>3, <1>6, <1>7

(* pruneRetention's list ...                                               *)
LEMMA PruneRetentionStep ==
    ASSUME IInv, PruneRetention, UNCHANGED <<imported, torn>> PROVE IInv'
<1>1. UNCHANGED <<dep, bk, jobs, cont, files, wk, req>>
  BY DEF PruneRetention, rows
<1>2. Prunable \in SUBSET BackupIds
  BY DEF Prunable, Complete
<1>3. PICK l \in {"idle", "file"} : l = IF Prunable = {} THEN "idle" ELSE "file"
  OBVIOUS
<1>4. sw' = [IdleSweep EXCEPT !.pc = l, !.todo = Prunable]
  BY <1>3 DEF PruneRetention
<1>5. sw' \in SweepRecs /\ sw'.pc = l /\ sw'.todo = Prunable
  BY <1>2, <1>4, IdleIsFine DEF SweepRecs
<1>6. Promise'
  <2>1. Doomed' = Prunable
    BY <1>5 DEF Doomed
  <2>2. \A v \in Prunable : Newer(v)' = Newer(v)
    BY <1>1 DEF Newer, Complete
  <2>3. \A v \in Prunable : Cardinality(Newer(v) \ Prunable) >= dep.retention
    BY PrunableKeeps
  <2> QED
    BY <1>1, <2>1, <2>2, <2>3 DEF Promise
<1>7. SweepInv'
  BY <1>5, <1>6 DEF SweepInv
<1>8. dep' \in DepRecs /\ dep'.ha = dep.ha /\ ReqInv'
  BY <1>1 DEF IInv, TableInv, ReqInv
<1>9. JobsKeep /\ ArchivesKeep
  <2>1. files \subseteq files' /\ files' \subseteq BackupIds
    BY <1>1 DEF IInv, TableInv
  <2> QED
    BY <1>1, <2>1, ArchivesStay, JobsStay
<1> QED
  BY <1>1, <1>7, <1>8, <1>9, RowsStep

(* ... and each victim's archive and row.                                  *)
LEMMA PruneArchiveStep ==
    ASSUME IInv, NEW v \in BackupIds, PruneArchive(v), UNCHANGED <<imported, torn>>
    PROVE  IInv'
<1>1. /\ sw.pc = "file" /\ v \in sw.todo /\ RemoveArchive(v)
      /\ sw' = [sw EXCEPT !.pc = "row", !.todo = sw.todo \ {v}, !.v = v]
      /\ UNCHANGED <<dep, jobs, cont, wk, req>>
  BY DEF PruneArchive
<1>2. ArchivesKeep /\ CompleteKeep /\ JobsKeep
  BY <1>1, RemoveKeeps, JobsStay
<1>3. dep' \in DepRecs /\ dep'.ha = dep.ha /\ dep'.retention = dep.retention /\ ReqInv'
  BY <1>1 DEF IInv, TableInv, ReqInv
<1>4. SweepInv'
  <2>0. sw \in SweepRecs /\ (sw.calm => Promise)
    BY <1>1 DEF IInv, SweepInv
  <2>1. /\ sw' \in SweepRecs /\ sw'.pc = "row" /\ sw'.todo = sw.todo \ {v} /\ sw'.v = v
        /\ (sw'.calm <=> sw.calm)
    BY <1>1, <2>0, Bounds DEF SweepRecs
  <2>2. Doomed' \subseteq Doomed
    BY <1>1, <2>1 DEF Doomed
  <2>3. ASSUME sw.calm PROVE Promise'
    BY <1>2, <1>3, <2>0, <2>2, <2>3, PromiseKept DEF CompleteKeep, ArchivesKeep
  <2> QED
    BY <2>1, <2>3 DEF SweepInv
<1> QED
  BY <1>1, <1>2, <1>3, <1>4, RowsStep

LEMMA PruneRowStep ==
    ASSUME IInv, PruneRow, UNCHANGED <<imported, torn>> PROVE IInv'
<1>1. /\ sw.pc = "row" /\ NextVictim(sw.todo) /\ DropRow(sw.v)
      /\ UNCHANGED <<dep, cont, files, wk, req>>
  BY DEF PruneRow
<1>2. sw.v \in BackupIds
  BY <1>1 DEF IInv, SweepInv
<1>3. JobsKeep /\ ArchivesKeep
  BY <1>1, <1>2, DropKeeps
<1>4. dep' \in DepRecs /\ dep'.ha = dep.ha /\ dep'.retention = dep.retention /\ ReqInv'
  BY <1>1 DEF IInv, TableInv, ReqInv
<1>5. \A b \in BackupIds \ Doomed : bk'[b] = bk[b]
  BY <1>1 DEF Doomed, DropRow, IInv, TableInv
<1>6. SweepInv'
  BY <1>1, <1>3, <1>4, <1>5, NextVictimStep DEF ArchivesKeep
<1> QED
  BY <1>1, <1>3, <1>4, <1>6, RowsStep

LEMMA SweepFailsStep ==
    ASSUME IInv, SweepFails, UNCHANGED <<imported, torn>> PROVE IInv'
<1>1. UNCHANGED <<dep, bk, jobs, cont, files, wk, req>>
  BY DEF SweepFails, rows
<1>2. /\ dep' \in DepRecs /\ dep'.ha = dep.ha /\ dep'.retention = dep.retention /\ ReqInv'
      /\ bk' \in [BackupIds -> BackupRecs]
  BY <1>1 DEF IInv, TableInv, ReqInv
<1>3. JobsKeep /\ ArchivesKeep
  <2>1. files \subseteq files' /\ files' \subseteq BackupIds
    BY <1>1 DEF IInv, TableInv
  <2> QED
    BY <1>1, <2>1, ArchivesStay, JobsStay
<1>4. SweepInv'
  <2>1. CASE sw' = [sw EXCEPT !.pc = "prune"]
    BY <2>1, SweepGoes
  <2>2. ASSUME NEW v \in sw.todo, sw.pc = "file", NextVictim(sw.todo \ {v}) PROVE SweepInv'
    BY <1>1, <1>2, <2>2, NextVictimStep
  <2>3. ASSUME sw.pc = "row", NextVictim(sw.todo) PROVE SweepInv'
    BY <1>1, <1>2, <2>3, NextVictimStep
  <2>4. CASE sw' = IdleSweep
    BY <2>4, IdleIsFine, SweepElsewhere
  <2> QED
    BY <2>1, <2>2, <2>3, <2>4 DEF SweepFails
<1> QED
  BY <1>1, <1>2, <1>3, <1>4, RowsStep

(* Time only changes ages.                                                 *)
LEMMA TimePassesStep ==
    ASSUME IInv, NEW age \in {1, 2}, TimePasses(age), UNCHANGED <<imported, torn>>
    PROVE  IInv'
<1>1. UNCHANGED <<dep, cont, files, jobs, wk, sw, req>>
  BY DEF TimePasses
<1>2. ASSUME NEW b \in BackupIds
      PROVE  /\ bk'[b] \in BackupRecs /\ bk'[b].status = bk[b].status
             /\ bk'[b].taken = bk[b].taken
  <2>0. bk[b] \in BackupRecs
    BY DEF IInv, TableInv
  <2>1. bk'[b] = bk[b] \/ bk'[b] = [bk[b] EXCEPT !.age = age]
    BY DEF TimePasses
  <2>2. CASE bk'[b] = [bk[b] EXCEPT !.age = age]
    BY <2>0, <2>2 DEF BackupRecs
  <2> QED
    BY <2>0, <2>1, <2>2
<1>3. bk' \in [BackupIds -> BackupRecs]
  <2>1. bk' = [b \in BackupIds |-> bk'[b]]
    BY DEF TimePasses
  <2> QED
    BY <1>2, <2>1
<1>4. files' \subseteq BackupIds /\ dep' \in DepRecs /\ dep'.ha = dep.ha /\ ReqInv'
      /\ dep'.retention = dep.retention
  BY <1>1 DEF IInv, TableInv, ReqInv
<1>5. \A b \in BackupIds : bk'[b].status = "complete" => b \in files' \/ bk'[b].taken
  BY <1>1, <1>2 DEF IInv, ArchiveInv
<1>6. \A b \in BackupIds : Kept(b) => Kept(b)'
  BY <1>1, <1>2 DEF Kept
<1>7. ArchivesKeep /\ CompleteKeep
  BY <1>2, <1>3, <1>4, <1>5, <1>6 DEF ArchivesKeep, CompleteKeep
<1>8. SweepInv' /\ JobsKeep
  BY <1>1, <1>3, <1>4, <1>7, SweepStays, JobsStay
<1> QED
  BY <1>1, <1>4, <1>7, <1>8, RowsStep

----------------------------------------------------------------------------
(* Workers.                                                                *)
LEMMA LabelMoves ==
    ASSUME IInv, JobsKeep, ArchivesKeep, NEW w \in Workers,
           NEW l \in {"export", "stat", "complete", "failrow", "failjob", "done", "import",
                      "ports", "retry", "cleanup"},
           wk' = [wk EXCEPT ![w].pc = l], wk[w].pc \notin {"idle", "stop"},
           wk[w].built = {} \/ l \in {"retry", "cleanup"},
           l = "complete" => wk[w].job \notin UpgradeJobs /\ Kept(Backup(w)),
           UNCHANGED <<imported, torn>>, cont \subseteq cont', dep'.ha = dep.ha
    PROVE  WorkInv' /\ ArchiveInv' /\ ServeInv'
<1>0. /\ wk \in [Workers -> WorkerRecs] /\ wk[w] \in WorkerRecs /\ Shape(wk[w])
      /\ wk[w].job \in Jobs
      /\ wk[w].job \notin UpgradeJobs => jobs[wk[w].job].of \in BackupIds
  BY DEF IInv, WorkInv, Shape
<1>1. PICK q \in WorkerRecs : q = [wk[w] EXCEPT !.pc = l]
  BY <1>0 DEF WorkerRecs
<1>2. q.pc = l /\ q.job = wk[w].job /\ q.built = wk[w].built
  BY <1>0, <1>1 DEF WorkerRecs
<1>3. wk' = [wk EXCEPT ![w] = q]
  BY <1>0, <1>1
<1>4. Shape(q)
  BY <1>0, <1>2 DEF Shape
<1>5. WorkInv' /\ ArchiveInv'
  BY <1>0, <1>2, <1>3, <1>4, WorkerMoves DEF Backup
<1>6. ServeInv'
  BY <1>2, <1>3, WorkerServes
<1> QED
  BY <1>5, <1>6

LEMMA RestMoves ==
    ASSUME IInv, JobsKeep, ArchivesKeep, NEW w \in Workers,
           wk' = [wk EXCEPT ![w] = IdleWorker],
           UNCHANGED <<imported, torn>>, cont \subseteq cont', dep'.ha = dep.ha
    PROVE  WorkInv' /\ ArchiveInv' /\ ServeInv'
<1>1. WorkInv' /\ ArchiveInv'
  BY IdleIsFine, WorkerMoves
<1>2. ServeInv'
  BY IdleIsFine, WorkerServes
<1> QED
  BY <1>1, <1>2

(* The rest of a worker's step: it leaves the deployment, the requests and *)
(* the sweep alone.                                                        *)
LEMMA WorkerStep ==
    ASSUME IInv, JobsKeep, ArchivesKeep, CompleteKeep, WorkInv', ArchiveInv', ServeInv',
           UNCHANGED <<dep, torn, sw, req>>, imported' \in BOOLEAN, cont' \subseteq Conts
    PROVE  IInv'
<1>1. dep' \in DepRecs /\ dep'.retention = dep.retention /\ torn' \in BOOLEAN /\ ReqInv'
  BY DEF IInv, TableInv, ReqInv
<1>2. SweepInv'
  BY <1>1, SweepStays DEF ArchivesKeep
<1> QED
  BY <1>1, <1>2, Assemble

(* ... or every table, and no container goes.                              *)
LEMMA PlainMove ==
    ASSUME IInv, NEW w \in Workers,
           NEW l \in {"export", "stat", "complete", "failrow", "failjob", "done", "import",
                      "ports", "retry", "cleanup"},
           wk' = [wk EXCEPT ![w].pc = l], wk[w].pc \notin {"idle", "stop"},
           wk[w].built = {} \/ l \in {"retry", "cleanup"},
           l = "complete" => wk[w].job \notin UpgradeJobs /\ Kept(Backup(w)),
           UNCHANGED <<dep, bk, jobs, imported, torn, sw, req>>,
           cont \subseteq cont', cont' \subseteq Conts,
           files \subseteq files', files' \subseteq BackupIds
    PROVE  IInv'
<1>1. JobsKeep /\ ArchivesKeep /\ CompleteKeep
  BY JobsStay, ArchivesStay
<1>2. WorkInv' /\ ArchiveInv' /\ ServeInv'
  BY <1>1, LabelMoves
<1>3. imported' \in BOOLEAN
  BY DEF IInv, TableInv
<1> QED
  BY <1>1, <1>2, <1>3, WorkerStep

(* claimNext.                                                              *)
LEMMA ClaimNextStep ==
    ASSUME IInv, NEW w \in Workers, NEW j \in Jobs, ClaimNext(w, j),
           UNCHANGED <<imported, torn>>
    PROVE  IInv'
<1>1. /\ wk[w].pc = "idle" /\ jobs[j].status = "pending"
      /\ UNCHANGED <<dep, bk, cont, files, sw, req>>
  BY DEF ClaimNext, Idle
<1>2. /\ jobs[j] \in JobRecs /\ JobOK(j, jobs[j]) /\ jobs \in [Jobs -> JobRecs]
  BY DEF IInv, JobInv
<1>3. jobs[j].attempts \in Nat /\ jobs[j].attempts + 1 \in 0 .. MaxAttempts
  <2>1. jobs[j].attempts \in 0 .. MaxAttempts /\ jobs[j].attempts < MaxAttempts
    BY <1>1, <1>2 DEF JobRecs, JobOK
  <2> QED
    BY <2>1, Bounds
<1>4. PICK p \in JobRecs :
         p = [jobs[j] EXCEPT !.status = "claimed", !.attempts = jobs[j].attempts + 1]
  BY <1>2, <1>3 DEF JobRecs
<1>5. p.status = "claimed" /\ p.of = jobs[j].of
  BY <1>2, <1>4 DEF JobRecs
<1>6. jobs' = [jobs EXCEPT ![j] = p]
  BY <1>2, <1>4 DEF ClaimNext
<1>7. JobOK(j, p)
  BY <1>1, <1>2, <1>5 DEF JobOK
<1>8. JobsKeep
  BY <1>5, <1>6, <1>7, OneJob
<1>9. ArchivesKeep /\ CompleteKeep
  <2>1. files \subseteq files' /\ files' \subseteq BackupIds
    BY <1>1 DEF IInv, TableInv
  <2> QED
    BY <1>1, <2>1, ArchivesStay
<1>10. PICK h \in BOOLEAN : h = dep.ha
  BY DEF IInv, TableInv, DepRecs
<1>11. PICK q \in WorkerRecs : q = [IdleWorker EXCEPT !.pc = "start", !.job = j, !.ha = h]
  BY IdleIsFine DEF WorkerRecs
<1>12. q.pc = "start" /\ q.job = j /\ q.built = {}
  BY <1>11, IdleIsFine DEF WorkerRecs
<1>13. wk' = [wk EXCEPT ![w] = q]
  BY <1>10, <1>11 DEF ClaimNext
<1>14. Shape(q)
  BY <1>12 DEF Shape
<1>15. j \notin UpgradeJobs => jobs[j].of \in BackupIds
  BY <1>1, <1>2 DEF JobOK
<1>16. WorkInv' /\ ArchiveInv'
  BY <1>8, <1>9, <1>12, <1>13, <1>14, <1>15, WorkerMoves
<1>17. ServeInv'
  BY <1>1, <1>12, <1>13, WorkerServes
<1>18. imported' \in BOOLEAN /\ cont' \subseteq Conts
  BY <1>1 DEF IInv, TableInv
<1> QED
  BY <1>1, <1>8, <1>9, <1>16, <1>17, <1>18, WorkerStep

(* requeueStale.                                                           *)
LEMMA RequeueStaleStep ==
    ASSUME IInv, NEW j \in Jobs, RequeueStale(j) \/ RequeueEarly(j),
           UNCHANGED <<imported, torn>>
    PROVE  IInv'
<1>0. Requeue(j)
  BY DEF RequeueStale, RequeueEarly
<1>1. jobs[j].status = "claimed" /\ UNCHANGED <<dep, bk, cont, files, wk, sw, req>>
  BY <1>0 DEF Requeue
<1>2. /\ jobs[j] \in JobRecs /\ JobOK(j, jobs[j]) /\ jobs \in [Jobs -> JobRecs]
  BY DEF IInv, JobInv
<1>3. JobsKeep
  <2>1. CASE jobs[j].attempts >= MaxAttempts
    BY <1>0, <2>1, SettleKeeps DEF Requeue
  <2>2. CASE ~(jobs[j].attempts >= MaxAttempts)
    <3>1. PICK q \in JobRecs : q = [jobs[j] EXCEPT !.status = "pending"]
      BY <1>2 DEF JobRecs
    <3>2. q.status = "pending" /\ q.attempts = jobs[j].attempts /\ q.of = jobs[j].of
      BY <1>2, <3>1 DEF JobRecs
    <3>3. q.attempts < MaxAttempts
      <4>1. jobs[j].attempts \in 0 .. MaxAttempts
        BY <1>2 DEF JobRecs
      <4> QED
        BY <2>2, <3>2, <4>1, Bounds
    <3>4. jobs' = [jobs EXCEPT ![j] = q]
      BY <1>0, <1>2, <2>2, <3>1 DEF Requeue
    <3>5. JobOK(j, q)
      BY <1>1, <1>2, <3>2, <3>3 DEF JobOK
    <3> QED
      BY <3>2, <3>4, <3>5, OneJob
  <2> QED
    BY <2>1, <2>2
<1>4. ArchivesKeep /\ CompleteKeep
  <2>1. files \subseteq files' /\ files' \subseteq BackupIds
    BY <1>1 DEF IInv, TableInv
  <2> QED
    BY <1>1, <2>1, ArchivesStay
<1>5. WorkInv' /\ ArchiveInv' /\ ServeInv'
  BY <1>1, <1>3, <1>4, WorkersStay, ServesStill
<1>6. imported' \in BOOLEAN /\ cont' \subseteq Conts
  BY <1>1 DEF IInv, TableInv
<1> QED
  BY <1>1, <1>3, <1>4, <1>5, <1>6, WorkerStep

(* markDone, markJobFailed and a crash: the worker is free again.          *)
LEMMA WorkerEnds ==
    ASSUME IInv, NEW w \in Workers, MarkDone(w) \/ MarkJobFailed(w) \/ Crash(w),
           UNCHANGED <<imported, torn>>
    PROVE  IInv'
<1>1. /\ UNCHANGED <<dep, bk, cont, files, sw, req>>
      /\ wk' = [wk EXCEPT ![w] = IdleWorker]
  BY DEF MarkDone, MarkJobFailed, Crash, Rest, rows
<1>2. JobsKeep
  <2>1. wk[w].pc # "idle" => wk[w].job \in Jobs
    BY DEF IInv, WorkInv, Shape
  <2>2. CASE MarkDone(w)
    BY <2>1, <2>2, SettleKeeps DEF MarkDone
  <2>3. CASE MarkJobFailed(w)
    BY <2>1, <2>3, SettleKeeps DEF MarkJobFailed
  <2>4. CASE Crash(w)
    BY <2>4, JobsStay DEF Crash, rows
  <2> QED
    BY <2>2, <2>3, <2>4
<1>3. ArchivesKeep /\ CompleteKeep
  <2>1. files \subseteq files' /\ files' \subseteq BackupIds
    BY <1>1 DEF IInv, TableInv
  <2> QED
    BY <1>1, <2>1, ArchivesStay
<1>4. WorkInv' /\ ArchiveInv' /\ ServeInv'
  BY <1>1, <1>2, <1>3, RestMoves
<1>5. imported' \in BOOLEAN /\ cont' \subseteq Conts
  BY <1>1 DEF IInv, TableInv
<1> QED
  BY <1>1, <1>2, <1>3, <1>4, <1>5, WorkerStep

(* The job's time is over: nothing but a flag.                             *)
LEMMA DeadlineStep ==
    ASSUME IInv, NEW w \in Workers, Deadline(w), UNCHANGED <<imported, torn>> PROVE IInv'
<1>1. /\ UNCHANGED <<dep, bk, jobs, cont, files, sw, req>>
      /\ wk' = [wk EXCEPT ![w].late = TRUE]
  BY DEF Deadline, rows
<1>2. /\ wk \in [Workers -> WorkerRecs] /\ wk[w] \in WorkerRecs /\ Shape(wk[w])
      /\ wk[w].pc # "idle" /\ wk[w].job \notin UpgradeJobs => jobs[wk[w].job].of \in BackupIds
  BY DEF IInv, WorkInv
<1>3. PICK q \in WorkerRecs : q = [wk[w] EXCEPT !.late = TRUE]
  BY <1>2 DEF WorkerRecs
<1>4. q.pc = wk[w].pc /\ q.job = wk[w].job /\ q.built = wk[w].built
  BY <1>2, <1>3 DEF WorkerRecs
<1>5. wk' = [wk EXCEPT ![w] = q] /\ Shape(q)
  BY <1>1, <1>2, <1>3, <1>4 DEF Shape
<1>6. JobsKeep /\ ArchivesKeep /\ CompleteKeep
  <2>1. files \subseteq files' /\ files' \subseteq BackupIds
    BY <1>1 DEF IInv, TableInv
  <2> QED
    BY <1>1, <2>1, ArchivesStay, JobsStay
<1>7. q.pc = "complete" => q.job \in Jobs /\ jobs[q.job].of \in BackupIds
                           /\ Kept(jobs[q.job].of)
  BY <1>2, <1>4 DEF IInv, ArchiveInv, Shape
<1>8. WorkInv' /\ ArchiveInv'
  BY <1>2, <1>4, <1>5, <1>6, <1>7, WorkerMoves
<1>9. ServeInv'
  <2>1. wk'[w] = q /\ \A u \in Workers \ {w} : wk'[u] = wk[u]
    BY <1>2, <1>5
  <2>2. \A u \in Workers : wk'[u].pc = wk[u].pc /\ wk'[u].built = wk[u].built
    BY <1>4, <2>1
  <2> QED
    BY <1>1, <2>2 DEF IInv, ServeInv
<1>10. imported' \in BOOLEAN /\ cont' \subseteq Conts
  BY <1>1 DEF IInv, TableInv
<1> QED
  BY <1>1, <1>6, <1>8, <1>9, <1>10, WorkerStep

(* Where an error sends a worker: to the clean-up if there is something to *)
(* clean up.                                                               *)
LEMMA ErrorLabels ==
    ASSUME IInv, NEW w \in Workers, NextOnError(w) # "none"
    PROVE  /\ NextOnError(w) \in {"failrow", "failjob", "cleanup"}
           /\ wk[w].pc \notin {"idle", "stop"}
           /\ wk[w].built = {} \/ NextOnError(w) = "cleanup"
<1>1. PICK k, l : k = wk[w].job[1] /\ l = wk[w].pc
  OBVIOUS
<1>2. NextOnError(w) = OnError(k, l)
  BY <1>1 DEF NextOnError
<1>3. l \notin {"provision", "migrate", "swap", "stop", "cleanup", "retry"} => wk[w].built = {}
  BY <1>1 DEF IInv, WorkInv, Shape
<1>4. CASE k = "backup" /\ l \in {"start", "export"}
  <2>1. OnError(k, l) = "failrow"
    BY <1>4 DEF OnError
  <2> QED
    BY <1>1, <1>2, <1>3, <1>4, <2>1
<1>5. CASE k = "backup" /\ l \in {"complete", "failrow"}
  <2>1. OnError(k, l) = "failjob"
    BY <1>5 DEF OnError
  <2> QED
    BY <1>1, <1>2, <1>3, <1>5, <2>1
<1>6. CASE k = "restore" /\ l \in {"start", "import"}
  <2>1. OnError(k, l) = "failjob"
    BY <1>6 DEF OnError
  <2> QED
    BY <1>1, <1>2, <1>3, <1>6, <2>1
<1>7. CASE k = "upgrade" /\ l = "start"
  <2>1. OnError(k, l) = "failjob"
    BY <1>7 DEF OnError
  <2> QED
    BY <1>1, <1>2, <1>3, <1>7, <2>1
<1>8. CASE k = "upgrade" /\ l \in {"ports", "provision", "migrate", "swap"}
  <2>1. OnError(k, l) = "cleanup"
    BY <1>8 DEF OnError
  <2> QED
    BY <1>1, <1>2, <1>8, <2>1
<1>9. CASE /\ ~(k = "backup" /\ l \in {"start", "export"})
           /\ ~(k = "backup" /\ l \in {"complete", "failrow"})
           /\ ~(k = "restore" /\ l \in {"start", "import"})
           /\ ~(k = "upgrade" /\ l = "start")
           /\ ~(k = "upgrade" /\ l \in {"ports", "provision", "migrate", "swap"})
  <2>1. OnError(k, l) = "none"
    BY <1>9 DEF OnError
  <2> QED
    BY <1>2, <2>1
<1> QED
  BY <1>4, <1>5, <1>6, <1>7, <1>8, <1>9

(* How many containers an attempt at "provision" has built.                *)
LEMMA BuiltSoFar ==
    ASSUME IInv, NEW w \in Workers, wk[w].pc = "provision"
    PROVE  \/ wk[w].built = {} /\ Cardinality(wk[w].built) = 0
           \/ wk[w].built = {0} /\ Cardinality(wk[w].built) = 1
<1>1. wk[w].built \in {{}, {0}}
  BY DEF IInv, WorkInv, Shape
<1> QED
  BY <1>1, FS_EmptySet, FS_Singleton

(* A call fails, in time or late.                                          *)
LEMMA FailingCalls ==
    ASSUME IInv, NEW w \in Workers, CallFails(w) \/ LateFails(w), UNCHANGED <<imported, torn>>
    PROVE  IInv'
<1>1. /\ NextOnError(w) # "none" /\ UNCHANGED <<dep, bk, jobs, sw, req>>
      /\ wk' = [wk EXCEPT ![w].pc = NextOnError(w)]
  BY DEF CallFails, LateFails, Step, Go, rows
<1>2. PICK l \in {"failrow", "failjob", "cleanup"} : l = NextOnError(w)
  BY <1>1, ErrorLabels
<1>3. wk[w].pc \notin {"idle", "stop"} /\ (wk[w].built = {} \/ l = "cleanup")
  BY <1>1, <1>2, ErrorLabels
<1>4. files \subseteq files' /\ files' \subseteq BackupIds
  <2>0. files \subseteq BackupIds
    BY DEF IInv, TableInv
  <2>1. CASE CallFails(w)
    BY <2>0, <2>1 DEF CallFails
  <2>2. CASE LateFails(w)
    <3>1. files' = files \/ \E b \in BackupIds : files' = files \cup {b}
      BY <2>2 DEF LateFails
    <3> QED
      BY <2>0, <3>1
  <2> QED
    BY <2>1, <2>2
<1>5. cont \subseteq cont' /\ cont' \subseteq Conts
  <2>0. cont \subseteq Conts
    BY DEF IInv, TableInv
  <2>1. CASE CallFails(w)
    BY <2>0, <2>1 DEF CallFails
  <2>2. CASE LateFails(w)
    <3>1. \/ cont' = cont
          \/ wk[w].pc = "provision" /\ cont' = cont \cup {Cardinality(wk[w].built)}
      BY <2>2 DEF LateFails
    <3>2. wk[w].pc = "provision" => Cardinality(wk[w].built) \in Conts
      BY BuiltSoFar DEF Conts
    <3> QED
      BY <2>0, <3>1, <3>2
  <2> QED
    BY <2>1, <2>2
<1> QED
  BY <1>1, <1>2, <1>3, <1>4, <1>5, PlainMove

LEMMA BackupOf ==
    ASSUME IInv, NEW w \in Workers, NEW k \in {"backup", "restore"}, NEW l, Doing(w, k, l),
           l # "idle"
    PROVE  wk[w].job \in Jobs /\ wk[w].job \notin UpgradeJobs /\ Backup(w) \in BackupIds
<1>1. wk[w].pc = l /\ wk[w].job \in Jobs /\ wk[w].job[1] = k
  BY DEF Doing, IInv, WorkInv, Shape
<1>2. wk[w].job \notin UpgradeJobs
  BY <1>1, JobKinds
<1> QED
  BY <1>1, <1>2 DEF Backup, IInv, WorkInv

(* runBackup takes a row that exists ...                                   *)
LEMMA StartBackupStep ==
    ASSUME IInv, NEW w \in Workers, StartBackup(w), UNCHANGED <<imported, torn>> PROVE IInv'
<1>0. /\ Doing(w, "backup", "start") /\ UNCHANGED <<dep, jobs, cont, files, req>>
      /\ wk[w].pc = "start" /\ wk[w].built = {}
  BY DEF StartBackup, Step, Go, Doing, IInv, WorkInv, Shape
<1>1. PICK b \in BackupIds : b = Backup(w)
  BY <1>0, BackupOf
<1>2. CASE ~Exists(b)
  <2>1. UNCHANGED <<bk, sw>> /\ wk' = [wk EXCEPT ![w].pc = "failrow"]
    BY <1>1, <1>2 DEF StartBackup, Step, Go
  <2>2. cont' \subseteq Conts /\ files' \subseteq BackupIds /\ cont \subseteq cont'
        /\ files \subseteq files'
    BY <1>0 DEF IInv, TableInv
  <2> QED
    BY <1>0, <2>1, <2>2, PlainMove
<1>3. CASE Exists(b)
  <2>0. bk[b] \in BackupRecs /\ bk \in [BackupIds -> BackupRecs] /\ files \subseteq BackupIds
    BY DEF IInv, TableInv
  <2>1. PICK q \in BackupRecs : q = [bk[b] EXCEPT !.status = "running"]
    BY <2>0 DEF BackupRecs, Open
  <2>2. q.status = "running" /\ q.taken = bk[b].taken
    BY <2>0, <2>1 DEF BackupRecs
  <2>3. bk' = [bk EXCEPT ![b] = q] /\ wk' = [wk EXCEPT ![w].pc = "export"]
    BY <1>1, <1>3, <2>0, <2>1 DEF StartBackup, Go
  <2>4. ArchivesKeep
    BY <1>0, <1>3, <2>0, <2>2, <2>3, OneBackup DEF Kept, Exists
  <2>5. JobsKeep
    BY <1>0, JobsStay
  <2>6. WorkInv' /\ ArchiveInv' /\ ServeInv'
    BY <1>0, <2>3, <2>4, <2>5, LabelMoves
  <2>7. dep' \in DepRecs /\ cont' \subseteq Conts /\ imported' \in BOOLEAN /\ torn' \in BOOLEAN
        /\ ReqInv' /\ dep'.retention = dep.retention
    BY <1>0 DEF IInv, TableInv, ReqInv
  <2>8. SweepInv'
    <3>1. CASE bk[b].status = "complete"
      <4>1. Disturb
        BY <1>1, <1>3, <3>1 DEF StartBackup
      <4> QED
        BY <4>1, SweepDisturbed
    <3>2. CASE bk[b].status # "complete"
      <4>1. UNCHANGED sw
        BY <1>1, <1>3, <3>2 DEF StartBackup
      <4>2. CompleteKeep
        BY <2>3, <3>2, OneStaysComplete
      <4> QED
        BY <2>4, <2>7, <4>1, <4>2, SweepStays DEF ArchivesKeep
    <3> QED
      BY <3>1, <3>2
  <2> QED
    BY <2>4, <2>5, <2>6, <2>7, <2>8, Assemble
<1> QED
  BY <1>2, <1>3

(* ... exports it and looks whether the archive is there ...               *)
LEMMA ExportSteps ==
    ASSUME IInv, NEW w \in Workers, ExportBackup(w) \/ StatArchive(w),
           UNCHANGED <<imported, torn>>
    PROVE  IInv'
<1>0. cont' = cont /\ UNCHANGED <<dep, bk, jobs, sw, req>> /\ wk[w].pc \in {"export", "stat"}
  BY DEF ExportBackup, StatArchive, Step, Go, Doing, rows
<1>1. wk[w].built = {} /\ cont' \subseteq Conts /\ cont \subseteq cont' /\ files \subseteq BackupIds
  BY <1>0 DEF IInv, WorkInv, Shape, TableInv
<1>2. CASE ExportBackup(w)
  <2>1. PICK b \in BackupIds : b = Backup(w)
    BY <1>2, BackupOf DEF ExportBackup
  <2>2. files' = files \cup {b} \/ files' = files
    BY <1>2, <2>1 DEF ExportBackup
  <2>3. PICK l \in {"stat", "failrow"} : wk' = [wk EXCEPT ![w].pc = l]
    BY <1>2 DEF ExportBackup, Step, Go
  <2>4. files \subseteq files' /\ files' \subseteq BackupIds
    BY <1>1, <2>2
  <2> QED
    BY <1>0, <1>1, <2>3, <2>4, PlainMove
<1>3. CASE StatArchive(w)
  <2>1. wk[w].job \notin UpgradeJobs /\ UNCHANGED files
    BY <1>3, BackupOf DEF StatArchive
  <2>2. PICK l \in {"complete", "failrow"} :
           wk' = [wk EXCEPT ![w].pc = l] /\ (l = "complete" => Backup(w) \in files)
    BY <1>3 DEF StatArchive, Step, Go
  <2>3. files \subseteq files' /\ files' \subseteq BackupIds
    BY <1>1, <2>1
  <2>4. l = "complete" => Kept(Backup(w))
    BY <2>2 DEF Kept
  <2> QED
    BY <1>0, <1>1, <2>1, <2>2, <2>3, <2>4, PlainMove
<1> QED
  BY <1>2, <1>3

(* ... and calls it complete, or failBackup calls it failed.               *)
LEMMA CompleteSteps ==
    ASSUME IInv, NEW w \in Workers, CompleteBackup(w) \/ FailBackup(w),
           UNCHANGED <<imported, torn>>
    PROVE  IInv'
<1>0. UNCHANGED <<dep, jobs, cont, files, req>> /\ wk[w].pc \in {"complete", "failrow"}
  BY DEF CompleteBackup, FailBackup, Step, Go, Doing
<1>1. /\ wk[w].built = {} /\ JobsKeep
  BY <1>0, JobsStay DEF IInv, WorkInv, Shape
<1>2. dep' \in DepRecs /\ cont' \subseteq Conts /\ imported' \in BOOLEAN /\ torn' \in BOOLEAN
      /\ ReqInv' /\ dep'.retention = dep.retention
  BY <1>0 DEF IInv, TableInv, ReqInv
<1>3. CASE CompleteBackup(w)
  <2>1. PICK b \in BackupIds : b = Backup(w)
    BY <1>3, BackupOf DEF CompleteBackup
  <2>2. Kept(b) /\ SetStatus(b, "complete") /\ UNCHANGED sw /\ wk' = [wk EXCEPT ![w].pc = "done"]
    BY <1>3, <2>1 DEF CompleteBackup, Step, Go, Doing, IInv, ArchiveInv, Backup
  <2>3. ArchivesKeep /\ CompleteKeep
    BY <1>0, <2>2, SetStatusKeeps
  <2>4. WorkInv' /\ ArchiveInv' /\ ServeInv'
    BY <1>0, <1>1, <2>2, <2>3, LabelMoves
  <2>5. SweepInv'
    BY <1>2, <2>2, <2>3, SweepStays DEF ArchivesKeep
  <2> QED
    BY <1>1, <1>2, <2>3, <2>4, <2>5, Assemble
<1>4. CASE FailBackup(w)
  <2>1. PICK b \in BackupIds : b = Backup(w)
    BY <1>4, BackupOf DEF FailBackup
  <2>2. SetStatus(b, "failed") /\ wk' = [wk EXCEPT ![w].pc = "failjob"]
    BY <1>4, <2>1 DEF FailBackup, Go
  <2>3. ArchivesKeep /\ (bk[b].status # "complete" => CompleteKeep)
    BY <1>0, <2>2, SetStatusKeeps
  <2>4. WorkInv' /\ ArchiveInv' /\ ServeInv'
    BY <1>0, <1>1, <2>2, <2>3, LabelMoves
  <2>5. SweepInv'
    <3>1. CASE bk[b].status = "complete"
      BY <1>4, <2>1, <3>1, SweepDisturbed DEF FailBackup
    <3>2. CASE bk[b].status # "complete"
      <4>1. UNCHANGED sw
        BY <1>4, <2>1, <3>2 DEF FailBackup
      <4> QED
        BY <1>2, <2>3, <3>2, <4>1, SweepStays DEF ArchivesKeep
    <3> QED
      BY <3>1, <3>2
  <2> QED
    BY <1>1, <1>2, <2>3, <2>4, <2>5, Assemble
<1> QED
  BY <1>3, <1>4

(* runRestore.                                                             *)
LEMMA RestoreSteps ==
    ASSUME IInv, NEW w \in Workers, StartRestore(w) \/ ImportBackup(w),
           UNCHANGED <<imported, torn>>
    PROVE  IInv'
<1>0. /\ UNCHANGED <<dep, bk, jobs, cont, files, sw, req>> /\ wk[w].pc \in {"start", "import"}
      /\ \E l \in {"import", "failjob", "done"} : wk' = [wk EXCEPT ![w].pc = l]
  BY DEF StartRestore, ImportBackup, Step, Go, Doing, rows
<1>1. /\ wk[w].built = {} /\ cont' \subseteq Conts /\ cont \subseteq cont'
      /\ files \subseteq files' /\ files' \subseteq BackupIds
  BY <1>0 DEF IInv, WorkInv, Shape, TableInv
<1> QED
  BY <1>0, <1>1, PlainMove

----------------------------------------------------------------------------
(* runUpgradeToHA.                                                         *)
LEMMA UpgradeFrame ==
    ASSUME IInv, NEW w \in Workers, NEW q \in WorkerRecs, Shape(q), Move(w, q),
           q.job = wk[w].job, q.pc \notin {"idle", "complete"}, wk[w].pc # "idle",
           UNCHANGED <<bk, files, jobs, dep, torn, sw, req>>, ServeInv',
           imported' \in BOOLEAN, cont' \subseteq Conts
    PROVE  IInv'
<1>1. JobsKeep /\ ArchivesKeep /\ CompleteKeep
  <2>1. files \subseteq files' /\ files' \subseteq BackupIds
    BY DEF IInv, TableInv
  <2> QED
    BY <2>1, ArchivesStay, JobsStay
<1>2. q.job \notin UpgradeJobs => jobs[q.job].of \in BackupIds
  BY DEF IInv, WorkInv
<1>3. WorkInv' /\ ArchiveInv'
  BY <1>1, <1>2, WorkerMoves DEF Move
<1> QED
  BY <1>1, <1>3, WorkerStep

LEMMA EnsureUpgradeableStep ==
    ASSUME IInv, NEW w \in Workers, EnsureUpgradeable(w) PROVE IInv'
<1>0. /\ UNCHANGED <<bk, files, torn, sw, req, dep, jobs, cont, imported>>
      /\ wk[w].pc = "start"
  BY DEF EnsureUpgradeable, Keep, Working, Doing
<1>1. /\ wk[w].built = {} /\ cont' \subseteq Conts /\ cont \subseteq cont'
      /\ files \subseteq files' /\ files' \subseteq BackupIds
      /\ wk \in [Workers -> WorkerRecs]
  BY <1>0 DEF IInv, WorkInv, Shape, TableInv
<1>2. PICK l \in {"ports", "failjob"} : wk' = [wk EXCEPT ![w] = [wk[w] EXCEPT !.pc = l]]
  <2>1. PICK l \in {"ports", "failjob"} :
           l = IF ~dep.ha /\ dep.status = "running" THEN "ports" ELSE "failjob"
    OBVIOUS
  <2> QED
    BY <2>1 DEF EnsureUpgradeable, Move
<1>3. wk' = [wk EXCEPT ![w].pc = l]
  BY <1>1, <1>2
<1> QED
  BY <1>0, <1>1, <1>3, PlainMove

LEMMA AllocatePortsStep ==
    ASSUME IInv, NEW w \in Workers, AllocatePorts(w) PROVE IInv'
<1>0. /\ UNCHANGED <<bk, files, torn, sw, req, dep, jobs, cont, imported>>
      /\ wk[w].pc = "ports"
  BY DEF AllocatePorts, Keep, Working, Doing
<1>1. /\ wk[w].built = {} /\ cont' \subseteq Conts /\ cont \subseteq cont'
      /\ files \subseteq files' /\ files' \subseteq BackupIds /\ imported' \in BOOLEAN
      /\ wk \in [Workers -> WorkerRecs] /\ wk[w] \in WorkerRecs /\ wk[w].job \in Jobs
  BY <1>0 DEF IInv, WorkInv, Shape, TableInv
<1>2. CASE wk' = [wk EXCEPT ![w] = [wk[w] EXCEPT !.pc = "cleanup"]]
  <2>1. wk' = [wk EXCEPT ![w].pc = "cleanup"]
    BY <1>1, <1>2
  <2> QED
    BY <1>0, <1>1, <2>1, PlainMove
<1>3. ASSUME NEW P \in SUBSET Ports,
             Move(w, [wk[w] EXCEPT !.pc = "provision", !.ports = P])
      PROVE  IInv'
  <2>1. PICK q \in WorkerRecs : q = [wk[w] EXCEPT !.pc = "provision", !.ports = P]
    BY <1>1 DEF WorkerRecs
  <2>2. q.pc = "provision" /\ q.built = {} /\ q.job = wk[w].job
    BY <1>1, <2>1 DEF WorkerRecs
  <2>3. Shape(q)
    BY <1>1, <2>2 DEF Shape
  <2>4. ServeInv'
    BY <1>0, <1>1, <1>3, <2>1, <2>2, WorkerServes DEF Move
  <2> QED
    BY <1>0, <1>1, <1>3, <2>1, <2>2, <2>3, <2>4, UpgradeFrame
<1>4. Lowest(Ports \ used, 2) \in SUBSET Ports
  BY DEF Lowest
<1> QED
  BY <1>2, <1>3, <1>4 DEF AllocatePorts, Move

(* A container is built only if nobody has one of that name.               *)
LEMMA ProvisionReplicaStep ==
    ASSUME IInv, NEW w \in Workers, ProvisionReplica(w) PROVE IInv'
<1>0. /\ UNCHANGED <<bk, files, torn, sw, req, dep, jobs, imported>>
      /\ wk[w].pc = "provision"
  BY DEF ProvisionReplica, Keep, Working, Doing
<1>1. /\ files \subseteq files' /\ files' \subseteq BackupIds /\ imported' \in BOOLEAN
      /\ wk \in [Workers -> WorkerRecs] /\ wk[w] \in WorkerRecs /\ wk[w].job \in Jobs
      /\ cont \subseteq Conts
  BY <1>0 DEF IInv, WorkInv, Shape, TableInv
<1>2. PICK i \in {0, 1} : /\ i = Cardinality(wk[w].built)
                          /\ i = 0 => wk[w].built = {}
                          /\ i = 1 => wk[w].built = {0}
  BY <1>0, BuiltSoFar
<1>3. CASE i \in cont
  <2>1. wk' = [wk EXCEPT ![w] = [wk[w] EXCEPT !.pc = "cleanup"]] /\ UNCHANGED cont
    BY <1>2, <1>3 DEF ProvisionReplica, Move
  <2>2. wk' = [wk EXCEPT ![w].pc = "cleanup"]
    BY <1>1, <2>1
  <2> QED
    BY <1>0, <1>1, <2>1, <2>2, PlainMove
<1>4. CASE i \notin cont
  <2>1. PICK l \in {"provision", "migrate"} :
           l = IF i = 1 THEN "migrate" ELSE "provision"
    OBVIOUS
  <2>2. /\ cont' = cont \cup {i}
        /\ Move(w, [wk[w] EXCEPT !.built = wk[w].built \cup {i}, !.pc = l])
    BY <1>0, <1>2, <1>4, <2>1 DEF ProvisionReplica
  <2>3. PICK q \in WorkerRecs : q = [wk[w] EXCEPT !.built = wk[w].built \cup {i}, !.pc = l]
    BY <1>1, <1>2 DEF WorkerRecs
  <2>4. q.pc = l /\ q.built = wk[w].built \cup {i} /\ q.job = wk[w].job
    BY <1>1, <2>3 DEF WorkerRecs
  <2>5. Shape(q)
    BY <1>1, <1>2, <2>1, <2>4 DEF Shape
  <2>6. wk'[w] = q /\ \A u \in Workers \ {w} : wk'[u] = wk[u]
    BY <1>1, <2>2, <2>3 DEF Move
  <2>7. ServeInv'
    <3>1. dep'.ha => imported'
      BY <1>0 DEF IInv, ServeInv
    <3>2. \A u \in Workers : /\ wk'[u].pc = "swap" => imported'
                             /\ wk'[u].pc = "stop" => dep'.ha
      BY <1>0, <2>1, <2>4, <2>6 DEF IInv, ServeInv
    <3>3. ASSUME ~torn
          PROVE  /\ ~dep'.ha /\ EndpointURL(dep'.ha) \subseteq cont'
                 /\ \A u \in Workers : wk'[u].built \subseteq cont'
                 /\ \A u, x \in Workers : u # x => wk'[u].built \cap wk'[x].built = {}
      <4>1. /\ EndpointURL(dep.ha) \subseteq cont
            /\ \A u \in Workers : wk[u].built \subseteq cont
            /\ \A u, x \in Workers : u # x => wk[u].built \cap wk[x].built = {}
        BY <3>3 DEF IInv, ServeInv
      <4>2. ~dep.ha
        BY <1>4, <4>1 DEF EndpointURL
      <4>3. \A u \in Workers : wk'[u].built \subseteq cont'
        BY <2>2, <2>4, <2>6, <4>1
      <4>4. \A x \in Workers : x # w => wk'[w].built \cap wk'[x].built = {}
        BY <1>4, <2>4, <2>6, <4>1
      <4>5. \A u, x \in Workers : u # x => wk'[u].built \cap wk'[x].built = {}
        BY <2>6, <4>1, <4>4
      <4> QED
        BY <1>0, <2>2, <4>1, <4>2, <4>3, <4>5
    <3> QED
      BY <1>0, <3>1, <3>2, <3>3 DEF ServeInv, EndpointURL
  <2>8. cont' \subseteq Conts
    BY <1>1, <2>2 DEF Conts
  <2> QED
    BY <1>0, <1>1, <2>1, <2>2, <2>3, <2>4, <2>5, <2>7, <2>8, UpgradeFrame
<1> QED
  BY <1>3, <1>4

(* The data of the old container is in the pair.                           *)
LEMMA MigrateSnapshotStep ==
    ASSUME IInv, NEW w \in Workers, MigrateSnapshot(w) PROVE IInv'
<1>0. /\ UNCHANGED <<bk, files, torn, sw, req, dep, jobs, cont>>
      /\ wk[w].pc = "migrate"
  BY DEF MigrateSnapshot, Keep, Working, Doing
<1>1. /\ files \subseteq files' /\ files' \subseteq BackupIds /\ cont' \subseteq Conts
      /\ wk \in [Workers -> WorkerRecs] /\ wk[w] \in WorkerRecs /\ wk[w].job \in Jobs
      /\ wk[w].built = {0, 1} /\ cont \subseteq cont'
  BY <1>0 DEF IInv, WorkInv, Shape, TableInv
<1>2. CASE UNCHANGED imported /\ Move(w, [wk[w] EXCEPT !.pc = "cleanup"])
  <2>1. wk' = [wk EXCEPT ![w].pc = "cleanup"]
    BY <1>1, <1>2 DEF Move
  <2> QED
    BY <1>0, <1>1, <1>2, <2>1, PlainMove
<1>3. CASE imported' = TRUE /\ Move(w, [wk[w] EXCEPT !.pc = "swap"])
  <2>1. PICK q \in WorkerRecs : q = [wk[w] EXCEPT !.pc = "swap"]
    BY <1>1 DEF WorkerRecs
  <2>2. q.pc = "swap" /\ q.built = {0, 1} /\ q.job = wk[w].job
    BY <1>1, <2>1 DEF WorkerRecs
  <2>3. Shape(q)
    BY <1>1, <2>2 DEF Shape
  <2>4. wk'[w] = q /\ \A u \in Workers \ {w} : wk'[u] = wk[u]
    BY <1>1, <1>3, <2>1 DEF Move
  <2>5. \A u \in Workers : /\ wk'[u].built = wk[u].built
                           /\ wk'[u].pc = "stop" <=> wk[u].pc = "stop"
    BY <1>0, <1>1, <2>2, <2>4
  <2>6. ServeInv'
    BY <1>0, <1>3, <2>5 DEF IInv, ServeInv
  <2> QED
    BY <1>0, <1>1, <1>3, <2>1, <2>2, <2>3, <2>6, UpgradeFrame
<1> QED
  BY <1>2, <1>3 DEF MigrateSnapshot

(* The swap: the attempt that makes it owns both containers, so nobody     *)
(* else owns any.                                                          *)
LEMMA FinishUpgradeSwapStep ==
    ASSUME IInv, NEW w \in Workers, FinishUpgradeSwap(w) PROVE IInv'
<1>0. /\ UNCHANGED <<bk, files, torn, sw, req, cont, imported>> /\ wk[w].pc = "swap"
  BY DEF FinishUpgradeSwap, Keep, Working, Doing
<1>1. /\ files \subseteq files' /\ files' \subseteq BackupIds /\ cont' \subseteq Conts
      /\ wk \in [Workers -> WorkerRecs] /\ wk[w] \in WorkerRecs /\ wk[w].job \in Jobs
      /\ wk[w].built = {0, 1} /\ cont \subseteq cont' /\ imported' \in BOOLEAN
      /\ torn' \in BOOLEAN
  BY <1>0 DEF IInv, WorkInv, Shape, TableInv
<1>2. CASE ~Swappable /\ Move(w, [wk[w] EXCEPT !.pc = "cleanup"]) /\ UNCHANGED <<dep, jobs>>
  <2>1. wk' = [wk EXCEPT ![w].pc = "cleanup"]
    BY <1>1, <1>2 DEF Move
  <2> QED
    BY <1>0, <1>1, <1>2, <2>1, PlainMove
<1>3. ASSUME NEW l \in {"retry", "cleanup"}, UNCHANGED <<dep, jobs>>,
             Move(w, [wk[w] EXCEPT !.pc = l, !.tries = wk[w].tries + 1])
      PROVE  IInv'
  <2>1. wk[w].tries + 1 \in Nat
    BY <1>1 DEF WorkerRecs
  <2>2. PICK q \in WorkerRecs : q = [wk[w] EXCEPT !.pc = l, !.tries = wk[w].tries + 1]
    BY <1>1, <2>1 DEF WorkerRecs
  <2>3. q.pc = l /\ q.built = {0, 1} /\ q.job = wk[w].job
    BY <1>1, <2>2 DEF WorkerRecs
  <2>4. Shape(q)
    BY <1>1, <2>3 DEF Shape
  <2>5. ServeInv'
    BY <1>0, <1>1, <1>3, <2>2, <2>3, WorkerServes DEF Move
  <2> QED
    BY <1>0, <1>1, <1>3, <2>2, <2>3, <2>4, <2>5, UpgradeFrame
<1>4. CASE /\ dep' = [dep EXCEPT !.ha = TRUE, !.status = "running"]
           /\ Settle(wk[w].job, "done") /\ Move(w, [wk[w] EXCEPT !.pc = "stop"])
  <2>1. PICK q \in WorkerRecs : q = [wk[w] EXCEPT !.pc = "stop"]
    BY <1>1 DEF WorkerRecs
  <2>2. q.pc = "stop" /\ q.built = {0, 1} /\ q.job = wk[w].job
    BY <1>1, <2>1 DEF WorkerRecs
  <2>3. Shape(q)
    BY <1>1, <2>2 DEF Shape
  <2>4. wk'[w] = q /\ \A u \in Workers \ {w} : wk'[u] = wk[u]
    BY <1>1, <1>4, <2>1 DEF Move
  <2>5. dep' \in DepRecs /\ dep'.ha = TRUE /\ dep'.retention = dep.retention
    BY <1>4 DEF IInv, TableInv, DepRecs
  <2>6. ServeInv'
    <3>1. imported' /\ \A u \in Workers : /\ wk'[u].pc = "swap" => imported'
                                          /\ wk'[u].pc = "stop" => dep'.ha
      BY <1>0, <2>5 DEF IInv, ServeInv
    <3>2. ASSUME ~torn
          PROVE  /\ {0, 1} \subseteq cont'
                 /\ \A u \in Workers : wk'[u].built \subseteq cont'
                 /\ \A u, x \in Workers : u # x => wk'[u].built \cap wk'[x].built = {}
                 /\ \A u \in Workers : wk'[u].pc # "stop" => wk'[u].built = {}
      <4>1. /\ \A u \in Workers : wk[u].built \subseteq cont
            /\ \A u, x \in Workers : u # x => wk[u].built \cap wk[x].built = {}
        BY <3>2 DEF IInv, ServeInv
      <4>2. \A u \in Workers : wk[u].built \subseteq {0, 1}
        BY <1>1 DEF WorkerRecs
      <4>3. \A u \in Workers : wk'[u].built = wk[u].built
        BY <1>1, <2>2, <2>4
      <4>4. \A u \in Workers \ {w} : wk[u].built = {}
        BY <1>1, <4>1, <4>2
      <4> QED
        BY <1>0, <1>1, <2>2, <2>4, <4>1, <4>3, <4>4
    <3> QED
      BY <1>0, <2>5, <3>1, <3>2 DEF ServeInv, EndpointURL
  <2>7. JobsKeep
    BY <1>1, <1>4, SettleKeeps
  <2>8. ArchivesKeep /\ CompleteKeep
    BY <1>0, <1>1, ArchivesStay
  <2>9. wk[w].job \notin UpgradeJobs => jobs[wk[w].job].of \in BackupIds
    BY <1>0 DEF IInv, WorkInv
  <2>10. WorkInv' /\ ArchiveInv'
    BY <1>4, <2>1, <2>2, <2>3, <2>7, <2>8, <2>9, WorkerMoves DEF Move
  <2>11. SweepInv' /\ ReqInv'
    BY <1>0, <2>5, <2>8, SweepStays DEF ArchivesKeep, IInv, ReqInv
  <2> QED
    BY <1>1, <2>5, <2>6, <2>7, <2>8, <2>10, <2>11, Assemble
<1> QED
  BY <1>2, <1>3, <1>4 DEF FinishUpgradeSwap

(* cleanupUpgradeReplicas removes what its own attempt built.              *)
LEMMA CleanupStep ==
    ASSUME IInv, NEW w \in Workers, CleanupUpgradeReplicas(w) PROVE IInv'
<1>0. /\ UNCHANGED <<bk, files, torn, sw, req, dep, jobs, imported>>
      /\ wk[w].pc \in {"cleanup", "retry"}
  BY DEF CleanupUpgradeReplicas, Keep
<1>1. /\ files \subseteq files' /\ files' \subseteq BackupIds /\ cont \subseteq Conts
      /\ wk \in [Workers -> WorkerRecs] /\ wk[w] \in WorkerRecs /\ wk[w].job \in Jobs
      /\ imported' \in BOOLEAN /\ wk[w].built \subseteq {0, 1}
  BY <1>0 DEF IInv, WorkInv, Shape, TableInv, WorkerRecs
<1>2. CASE wk[w].built = {}
  <2>1. PICK l \in {"ports", "failjob"} : l = IF wk[w].pc = "retry" THEN "ports" ELSE "failjob"
    OBVIOUS
  <2>2. wk' = [wk EXCEPT ![w] = [wk[w] EXCEPT !.pc = l]] /\ UNCHANGED cont
    BY <1>2, <2>1 DEF CleanupUpgradeReplicas, Move
  <2>3. wk' = [wk EXCEPT ![w].pc = l]
    BY <1>1, <2>2
  <2> QED
    BY <1>0, <1>1, <1>2, <2>2, <2>3, PlainMove
<1>3. CASE wk[w].built # {}
  <2>1. PICK i : i = CHOOSE k \in wk[w].built : \A l \in wk[w].built : k <= l
    OBVIOUS
  <2>2. i \in wk[w].built
    <3>1. \E k \in wk[w].built : \A l \in wk[w].built : k <= l
      BY <1>1, <1>3
    <3> QED
      BY <2>1, <3>1
  <2>3. /\ Move(w, [wk[w] EXCEPT !.built = wk[w].built \ {i}])
        /\ cont' = cont \ {i} \/ cont' = cont
    BY <1>3, <2>1 DEF CleanupUpgradeReplicas
  <2>4. PICK q \in WorkerRecs : q = [wk[w] EXCEPT !.built = wk[w].built \ {i}]
    BY <1>1 DEF WorkerRecs
  <2>5. q.pc = wk[w].pc /\ q.built = wk[w].built \ {i} /\ q.job = wk[w].job
    BY <1>1, <2>4 DEF WorkerRecs
  <2>6. Shape(q)
    BY <1>0, <1>1, <2>5 DEF Shape
  <2>7. wk'[w] = q /\ \A u \in Workers \ {w} : wk'[u] = wk[u]
    BY <1>1, <2>3, <2>4 DEF Move
  <2>8. ServeInv'
    <3>1. dep'.ha => imported'
      BY <1>0 DEF IInv, ServeInv
    <3>2. \A u \in Workers : /\ wk'[u].pc = "swap" => imported'
                             /\ wk'[u].pc = "stop" => dep'.ha
      BY <1>0, <2>5, <2>7 DEF IInv, ServeInv
    <3>3. ASSUME ~torn
          PROVE  /\ ~dep'.ha /\ EndpointURL(dep'.ha) \subseteq cont'
                 /\ \A u \in Workers : wk'[u].built \subseteq cont'
                 /\ \A u, x \in Workers : u # x => wk'[u].built \cap wk'[x].built = {}
      <4>1. /\ EndpointURL(dep.ha) \subseteq cont
            /\ \A u \in Workers : wk[u].built \subseteq cont
            /\ \A u, x \in Workers : u # x => wk[u].built \cap wk[x].built = {}
            /\ dep.ha => \A u \in Workers : wk[u].pc # "stop" => wk[u].built = {}
        BY <3>3 DEF IInv, ServeInv
      <4>2. ~dep.ha
        BY <1>0, <1>3, <4>1
      <4>3. -1 \in cont' /\ cont \ {i} \subseteq cont'
        BY <1>1, <2>2, <2>3, <4>1, <4>2 DEF EndpointURL
      <4>4. \A u \in Workers : wk'[u].built \subseteq wk[u].built /\ i \notin wk'[u].built
        BY <2>2, <2>5, <2>7, <4>1
      <4>5. EndpointURL(dep'.ha) \subseteq cont'
        BY <1>0, <4>2, <4>3 DEF EndpointURL
      <4>6. \A u \in Workers : wk'[u].built \subseteq cont'
        BY <4>1, <4>3, <4>4
      <4>7. \A u, x \in Workers : u # x => wk'[u].built \cap wk'[x].built = {}
        BY <4>1, <4>4
      <4> QED
        BY <1>0, <4>2, <4>5, <4>6, <4>7
    <3> QED
      BY <1>0, <3>1, <3>2, <3>3 DEF ServeInv, EndpointURL
  <2>9. cont' \subseteq Conts
    BY <1>1, <2>3
  <2> QED
    BY <1>0, <1>1, <2>3, <2>4, <2>5, <2>6, <2>8, <2>9, UpgradeFrame
<1> QED
  BY <1>2, <1>3

(* The old container goes when the row points at the pair.                 *)
LEMMA StopOldStep ==
    ASSUME IInv, NEW w \in Workers, StopOld(w) PROVE IInv'
<1>0. /\ UNCHANGED <<bk, files, torn, sw, req, dep, jobs, imported>> /\ wk[w].pc = "stop"
      /\ wk' = [wk EXCEPT ![w] = IdleWorker] /\ (cont' = cont \ {-1} \/ cont' = cont)
  BY DEF StopOld, Keep, Working, Doing, Move
<1>1. /\ files \subseteq files' /\ files' \subseteq BackupIds /\ cont' \subseteq Conts
      /\ wk \in [Workers -> WorkerRecs] /\ imported' \in BOOLEAN /\ dep.ha
  BY <1>0 DEF IInv, WorkInv, TableInv, ServeInv
<1>2. JobsKeep /\ ArchivesKeep /\ CompleteKeep
  BY <1>0, <1>1, ArchivesStay, JobsStay
<1>3. WorkInv' /\ ArchiveInv'
  BY <1>0, <1>2, IdleIsFine, WorkerMoves
<1>4. ServeInv'
  <2>1. /\ wk'[w].built = {} /\ wk'[w].pc = "idle"
        /\ \A u \in Workers \ {w} : wk'[u] = wk[u]
    BY <1>0, <1>1, IdleIsFine
  <2>2. dep'.ha /\ imported' /\ \A u \in Workers : wk'[u].pc = "stop" => dep'.ha
    BY <1>0, <1>1 DEF IInv, ServeInv
  <2>3. ASSUME ~torn
        PROVE  /\ {0, 1} \subseteq cont'
               /\ \A u \in Workers : wk'[u].built \subseteq cont'
               /\ \A u, x \in Workers : u # x => wk'[u].built \cap wk'[x].built = {}
               /\ \A u \in Workers : wk'[u].pc # "stop" => wk'[u].built = {}
    <3>1. /\ {0, 1} \subseteq cont
          /\ \A u, x \in Workers : u # x => wk[u].built \cap wk[x].built = {}
          /\ \A u \in Workers : wk[u].pc # "stop" => wk[u].built = {}
      BY <1>1, <2>3 DEF IInv, ServeInv, EndpointURL
    <3>2. {0, 1} \subseteq cont'
      BY <1>0, <3>1
    <3>3. \A u \in Workers : wk'[u].built \subseteq {0, 1}
      BY <1>1, <2>1 DEF WorkerRecs
    <3>4. \A u, x \in Workers : u # x => wk'[u].built \cap wk'[x].built = {}
      BY <2>1, <3>1
    <3> QED
      BY <2>1, <3>1, <3>2, <3>3, <3>4
  <2> QED
    BY <1>0, <2>2, <2>3 DEF ServeInv, EndpointURL
<1> QED
  BY <1>0, <1>1, <1>2, <1>3, <1>4, WorkerStep

----------------------------------------------------------------------------
(* The invariant.                                                          *)
LEMMA InitIInv == ASSUME UpInit PROVE IInv
<1>0. /\ cont = {-1} /\ files = {} /\ imported = FALSE /\ torn = FALSE /\ sw = IdleSweep
      /\ bk = [b \in BackupIds |-> [status |-> "none", age |-> 0, taken |-> FALSE]]
      /\ jobs = [j \in Jobs |-> [status |-> "none", attempts |-> 0, of |-> 0]]
      /\ wk = [w \in Workers |-> IdleWorker] /\ req = [r \in Requests |-> IdleRequest]
  BY DEF UpInit, Init
<1>1. dep \in DepRecs /\ dep.ha = FALSE
  <2>1. PICK n \in Retentions :
           dep = [status |-> "running", ha |-> FALSE, schedule |-> "none", retention |-> n]
    BY DEF UpInit, Init
  <2> QED
    BY <2>1 DEF DepRecs
<1>2. [status |-> "none", age |-> 0, taken |-> FALSE] \in BackupRecs
  BY DEF BackupRecs
<1>3. TableInv
  BY <1>0, <1>1, <1>2 DEF TableInv, Conts
<1>4. JobInv
  <2>1. [status |-> "none", attempts |-> 0, of |-> 0] \in JobRecs
    BY Bounds DEF JobRecs
  <2>2. \A j \in Jobs : JobOK(j, [status |-> "none", attempts |-> 0, of |-> 0])
    BY DEF JobOK
  <2> QED
    BY <1>0, <2>1, <2>2 DEF JobInv
<1>5. ReqInv
  BY <1>0, IdleIsFine DEF ReqInv
<1>6. WorkInv
  BY <1>0, IdleIsFine DEF WorkInv
<1>7. ArchiveInv
  BY <1>0, IdleIsFine DEF ArchiveInv
<1>8. SweepInv
  BY <1>0, IdleIsFine DEF SweepInv
<1>9. ServeInv
  <2>1. \A w \in Workers : wk[w].pc = "idle" /\ wk[w].built = {}
    BY <1>0, IdleIsFine
  <2>2. EndpointURL(dep.ha) = {-1}
    BY <1>1 DEF EndpointURL
  <2> QED
    BY <1>0, <1>1, <2>1, <2>2 DEF ServeInv
<1> QED
  BY <1>3, <1>4, <1>5, <1>6, <1>7, <1>8, <1>9 DEF IInv

(* Nothing moves but another deployment's port.                            *)
LEMMA Untouched == ASSUME IInv, UNCHANGED <<vars, imported, torn>> PROVE IInv'
<1>1. UNCHANGED <<dep, cont, bk, files, jobs, wk, sw, req, imported, torn>>
  BY DEF vars
<1>2. /\ dep' \in DepRecs /\ dep'.ha = dep.ha /\ dep'.retention = dep.retention /\ ReqInv'
      /\ bk' \in [BackupIds -> BackupRecs] /\ files' \subseteq BackupIds
  BY <1>1 DEF IInv, TableInv, ReqInv
<1>3. JobsKeep /\ ArchivesKeep /\ CompleteKeep
  BY <1>1, <1>2, JobsStay, ArchivesStay
<1>4. SweepInv'
  BY <1>1, <1>2, <1>3, SweepStays
<1> QED
  BY <1>1, <1>2, <1>3, <1>4, RowsStep

LEMMA FaultsStep == ASSUME IInv, Faults, UNCHANGED <<imported, torn>> PROVE IInv'
<1>1. CASE SweepFails
  BY <1>1, SweepFailsStep
<1>2. ASSUME NEW w \in Workers, Deadline(w) \/ Crash(w) \/ CallFails(w) PROVE IInv'
  BY <1>2, DeadlineStep, WorkerEnds, FailingCalls
<1>3. ASSUME NEW r \in Requests, RequestAborts(r) PROVE IInv'
  BY <1>3, QuietRequests
<1>4. ASSUME NEW j \in Jobs, RequeueEarly(j) PROVE IInv'
  BY <1>4, RequeueStaleStep
<1> QED
  BY <1>1, <1>2, <1>3, <1>4 DEF Faults

LEMMA BackupWorkStep ==
    ASSUME IInv, NEW w \in Workers, BackupWork(w), UNCHANGED <<imported, torn>> PROVE IInv'
<1>1. ASSUME NEW j \in Jobs, ClaimNext(w, j) PROVE IInv'
  BY <1>1, ClaimNextStep
<1>2. CASE MarkDone(w) \/ MarkJobFailed(w)
  BY <1>2, WorkerEnds
<1>3. CASE LateFails(w)
  BY <1>3, FailingCalls
<1>4. CASE StartBackup(w)
  BY <1>4, StartBackupStep
<1>5. CASE ExportBackup(w) \/ StatArchive(w)
  BY <1>5, ExportSteps
<1>6. CASE CompleteBackup(w) \/ FailBackup(w)
  BY <1>6, CompleteSteps
<1>7. CASE StartRestore(w) \/ ImportBackup(w)
  BY <1>7, RestoreSteps
<1> QED
  BY <1>1, <1>2, <1>3, <1>4, <1>5, <1>6, <1>7 DEF BackupWork

LEMMA SweeperStep == ASSUME IInv, SweepStep, UNCHANGED <<imported, torn>> PROVE IInv'
<1>1. CASE FailStale
  BY <1>1, FailStaleStep
<1>2. CASE EnqueueScheduled \/ EnqueueOne
  BY <1>2, EnqueueSteps
<1>3. CASE PruneRetention
  BY <1>3, PruneRetentionStep
<1>4. CASE PruneRow
  BY <1>4, PruneRowStep
<1>5. ASSUME NEW v \in BackupIds, PruneArchive(v) PROVE IInv'
  BY <1>5, PruneArchiveStep
<1> QED
  BY <1>1, <1>2, <1>3, <1>4, <1>5 DEF SweepStep

LEMMA StepsStep == ASSUME IInv, Steps, UNCHANGED <<imported, torn>> PROVE IInv'
<1>1. ASSUME NEW w \in Workers, BackupWork(w) PROVE IInv'
  BY <1>1, BackupWorkStep
<1>2. ASSUME NEW j \in Jobs, RequeueStale(j) PROVE IInv'
  BY <1>2, RequeueStaleStep
<1>3. CASE SweepStep
  BY <1>3, SweeperStep
<1>4. ASSUME NEW age \in {1, 2}, TimePasses(age) PROVE IInv'
  BY <1>4, TimePassesStep
<1>5. ASSUME NEW r \in Requests, CheckInFlight(r) PROVE IInv'
  BY <1>5, QuietRequests
<1>6. ASSUME NEW r \in Requests, DeleteArchive(r) \/ DeleteBackup(r) PROVE IInv'
  BY <1>6, DeleteBackupSteps
<1>7. ASSUME NEW r \in Requests, NEW b \in BackupIds, CreateBackup(r, b) PROVE IInv'
  BY <1>7, CreateBackupStep
<1>8. ASSUME NEW r \in Requests, NEW b \in BackupIds, CheckComplete(r, b) \/ CheckSettled(r, b)
      PROVE  IInv'
  BY <1>8, QuietRequests
<1>9. ASSUME NEW r \in Requests, NEW j \in RestoreJobs, RestoreBackup(r, j) PROVE IInv'
  BY <1>9, RestoreBackupStep
<1>10. ASSUME NEW r \in Requests, NEW s \in {"none", "daily"}, NEW n \in Retentions,
              UpdateBackupSettings(r, s, n)
       PROVE  IInv'
  BY <1>10, UpdateSettingsStep
<1> QED
  BY <1>1, <1>2, <1>3, <1>4, <1>5, <1>6, <1>7, <1>8, <1>9, <1>10 DEF Steps

LEMMA UpgradeWorkStep == ASSUME IInv, NEW w \in Workers, UpgradeWork(w) PROVE IInv'
<1>1. CASE EnsureUpgradeable(w)
  BY <1>1, EnsureUpgradeableStep
<1>2. CASE AllocatePorts(w)
  BY <1>2, AllocatePortsStep
<1>3. CASE ProvisionReplica(w)
  BY <1>3, ProvisionReplicaStep
<1>4. CASE MigrateSnapshot(w)
  BY <1>4, MigrateSnapshotStep
<1>5. CASE FinishUpgradeSwap(w)
  BY <1>5, FinishUpgradeSwapStep
<1>6. CASE CleanupUpgradeReplicas(w)
  BY <1>6, CleanupStep
<1>7. CASE StopOld(w)
  BY <1>7, StopOldStep
<1> QED
  BY <1>1, <1>2, <1>3, <1>4, <1>5, <1>6, <1>7 DEF UpgradeWork

LEMMA NextIInv == ASSUME IInv, [UpNext]_upVars PROVE IInv'
<1>1. CASE BackupNext /\ UNCHANGED <<used, imported, torn>>
  BY <1>1, FaultsStep, StepsStep DEF BackupNext
<1>2. ASSUME NEW w \in Workers, UpgradeWork(w) PROVE IInv'
  BY <1>2, UpgradeWorkStep
<1>3. ASSUME NEW r \in Requests, NEW j \in UpgradeJobs, UpgradeToHA(r, j) PROVE IInv'
  BY <1>3, UpgradeToHAStep
<1>4. ASSUME NEW r \in Requests, BeginDelete(r) PROVE IInv'
  <2>1. UNCHANGED <<imported, torn>>
    BY <1>4 DEF BeginDelete
  <2> QED
    BY <1>4, <2>1, QuietRequests
<1>5. ASSUME NEW r \in Requests, Teardown(r) \/ DeleteDeployment(r) PROVE IInv'
  BY <1>5, DeleteDeploymentSteps
<1>6. CASE OtherTakesPort
  BY <1>6, Untouched DEF OtherTakesPort
<1>7. CASE UNCHANGED upVars
  BY <1>7, Untouched DEF upVars
<1> QED
  BY <1>1, <1>2, <1>3, <1>4, <1>5, <1>6, <1>7 DEF UpNext

(* The invariant of backups and upgrades holds whatever jobs, requests,    *)
(* faults and sweeps interleave.                                           *)
THEOREM IInvHolds == UpSpec => []IInv
<1>1. UpInit => IInv
  BY InitIInv
<1>2. IInv /\ [UpNext]_upVars => IInv'
  BY NextIInv
<1> QED
  BY <1>1, <1>2, PTL DEF UpSpec

(* runBackup calls a row complete only over an archive that os.Stat saw,   *)
(* and only deleteBackup and the pruning of the sweeper take one away: a   *)
(* complete backup has its archive unless one of them took it, for any     *)
(* number of overlapping, late and retried attempts.                       *)
THEOREM CompleteBackupsHaveArchives == UpSpec => []CompleteHasArchive
<1>1. ASSUME IInv PROVE CompleteHasArchive
  <2>1. TypeOK
    <3>1. /\ dep.status \in {"running", "deleted"} /\ dep.ha \in BOOLEAN
          /\ dep.schedule \in {"none", "daily"} /\ dep.retention \in Retentions
          /\ cont \subseteq Conts /\ files \subseteq BackupIds
      BY <1>1 DEF IInv, TableInv, DepRecs
    <3>2. \A b \in BackupIds :
             bk[b].status \in Open \cup {"none", "complete", "failed", "gone"}
      BY <1>1 DEF IInv, TableInv, BackupRecs
    <3>3. \A j \in Jobs :
             /\ jobs[j].status \in {"none", "pending", "claimed", "done", "failed"}
             /\ jobs[j].attempts \in 0 .. MaxAttempts
      BY <1>1 DEF IInv, JobInv, JobRecs
    <3>4. \A w \in Workers : wk[w].pc # "idle" => wk[w].job \in Jobs
      BY <1>1 DEF IInv, WorkInv, Shape
    <3> QED
      BY <3>1, <3>2, <3>3, <3>4 DEF TypeOK
  <2> QED
    BY <1>1, <2>1 DEF CompleteHasArchive, Complete, IInv, ArchiveInv
<1> QED
  BY <1>1, IInvHolds, PTL

(* runUpgradeToHA keeps the old container in service until the pair has    *)
(* its data, for any number of overlapping attempts, deadlines, retries on *)
(* a taken port and clean-ups that fail.                                   *)
THEOREM ServesWhileUpgrading == UpSpec => []ServesThroughout
<1>1. IInv => ServesThroughout
  BY DEF IInv, ServeInv, ServesThroughout
<1> QED
  BY <1>1, IInvHolds, PTL

(* pruneRetention removes a row only while retention newer backups are     *)
(* complete, in whatever order the victims come, unless an operator or a   *)
(* retried export disturbed its list.                                      *)
THEOREM PruningKeepsRetention == UpSpec => PruneKeepsRetention
<1>1. ASSUME IInv, NEW b \in BackupIds, PruneRow, bk'[b].status = "gone",
             bk[b].status # "gone", sw.calm
      PROVE  Cardinality(Newer(b)) >= dep.retention
  <2>1. sw.pc = "row" /\ bk' = [bk EXCEPT ![sw.v] = Gone]
    BY <1>1 DEF PruneRow, DropRow
  <2>2. b = sw.v
    BY <1>1, <2>1 DEF IInv, TableInv
  <2>3. Cardinality(Newer(b) \ Doomed) >= dep.retention
    BY <1>1, <2>1, <2>2 DEF IInv, SweepInv, Promise, Doomed
  <2>4. Newer(b) \ Doomed \subseteq Newer(b) /\ Newer(b) \subseteq BackupIds
    BY DEF Newer, Complete
  <2>5. IsFiniteSet(Newer(b))
    BY <2>4, Bounds, FS_Subset
  <2>6. IsFiniteSet(Newer(b) \ Doomed) /\ Cardinality(Newer(b) \ Doomed) <= Cardinality(Newer(b))
    BY <2>4, <2>5, FS_Subset
  <2>7. /\ Cardinality(Newer(b)) \in Nat /\ Cardinality(Newer(b) \ Doomed) \in Nat
        /\ dep.retention \in Nat
    BY <1>1, <2>5, <2>6, FS_CardinalityType, Bounds DEF IInv, TableInv, DepRecs
  <2> QED
    BY <2>3, <2>6, <2>7
<1>2. IInv => [\A b \in BackupIds :
                 PruneRow /\ bk'[b].status = "gone" /\ bk[b].status # "gone" /\ sw.calm
                    => Cardinality(Newer(b)) >= dep.retention]_vars
  BY <1>1
<1> QED
  BY <1>2, IInvHolds, PTL DEF PruneKeepsRetention
=============================================================================
