------------------------------- MODULE Backups -------------------------------
(***************************************************************************)
(* Snapshot backups of one deployment: the requests that create, restore   *)
(* and delete them (api/backups.go), the jobs that export and import       *)
(* (provisioner/backup.go) and the sweeper that times out, schedules and   *)
(* prunes (backups/sweeper.go).                                            *)
(*                                                                         *)
(* A backup is a number, in the order of created_at; its age tells apart   *)
(* the last hour (0), the last day (1) and before (2).  The archive is     *)
(* there or not.  A job is named by what it works on: the backup it fills, *)
(* or one of the restores.  Upgrade adds the jobs that turn the deployment *)
(* into an HA pair, so the queue and its workers are declared here.        *)
(***************************************************************************)
EXTENDS Integers, FiniteSets

CONSTANTS
    Workers,        \* provisioner goroutines, over all nodes
    Requests,       \* concurrent API requests
    MaxBackups,     \* bound: rows of deployment_backups ever created
    MaxRestores,    \* bound: restore jobs
    MaxUpgrades,    \* bound: upgrade_to_ha jobs
    MaxAttempts,    \* Config.MaxAttempts
    MaxStarts,      \* bound: requests started
    MaxFaults,      \* bound: deadlines, crashes, failed calls, aborts
    Retentions,     \* values of backup_retention
    NoJob

ASSUME BackupsAssumption ==
    /\ MaxBackups \in Nat /\ MaxRestores \in Nat /\ MaxUpgrades \in Nat
    /\ MaxAttempts \in Nat \ {0} /\ MaxStarts \in Nat /\ MaxFaults \in Nat
    /\ Retentions \subseteq 1 .. 90 /\ Retentions # {}

BackupIds == 1 .. MaxBackups
BackupJobs == {"backup"} \X BackupIds
RestoreJobs == {"restore"} \X (1 .. MaxRestores)
UpgradeJobs == {"upgrade"} \X (1 .. MaxUpgrades)
Jobs == BackupJobs \cup RestoreJobs \cup UpgradeJobs
Conts == {-1, 0, 1}   \* convex-<name> is -1, convex-<name>-<i> is i

VARIABLES
    dep,      \* deployments: status, ha, schedule, retention
    cont,     \* containers that are up
    bk,       \* deployment_backups: status, age; taken is history: a deleter
              \* removed the archive
    files,    \* archives on the backups volume
    jobs,     \* provisioning_jobs: status, attempts, of (backup_id)
    wk,       \* workers: pc, job, ha as claimed, late, and the upgrade's locals
    sw,       \* the sweeper that holds the advisory lock; calm is history: nobody
              \* deleted, failed, retook or resettled since it listed victims
    req,      \* requests under way
    starts, faults

rows == <<dep, bk, jobs>>
vars == <<dep, cont, bk, files, jobs, wk, sw, req, starts, faults>>

IdleWorker == [pc |-> "idle", job |-> NoJob, ha |-> FALSE, late |-> FALSE,
               built |-> {}, ports |-> {}, tries |-> 0]
IdleRequest == [pc |-> "idle", b |-> 0, ha |-> FALSE]
IdleSweep == [pc |-> "idle", todo |-> {}, v |-> 0, calm |-> TRUE]
Open == {"pending", "running"}
Created == {b \in BackupIds : bk[b].status # "none"}
Exists(b) == bk[b].status \notin {"none", "gone"}

TypeOK ==
    /\ dep.status \in {"running", "deleted"} /\ dep.ha \in BOOLEAN
    /\ dep.schedule \in {"none", "daily"} /\ dep.retention \in Retentions
    /\ cont \subseteq Conts /\ files \subseteq BackupIds
    /\ \A b \in BackupIds :
          bk[b].status \in Open \cup {"none", "complete", "failed", "gone"}
    /\ \A j \in Jobs :
          /\ jobs[j].status \in {"none", "pending", "claimed", "done", "failed"}
          /\ jobs[j].attempts \in 0 .. MaxAttempts
    /\ \A w \in Workers : wk[w].pc # "idle" => wk[w].job \in Jobs

Init ==
    /\ \E n \in Retentions :
          dep = [status |-> "running", ha |-> FALSE, schedule |-> "none", retention |-> n]
    /\ cont = {-1} /\ files = {}
    /\ bk = [b \in BackupIds |-> [status |-> "none", age |-> 0, taken |-> FALSE]]
    /\ jobs = [j \in Jobs |-> [status |-> "none", attempts |-> 0, of |-> 0]]
    /\ wk = [w \in Workers |-> IdleWorker]
    /\ req = [r \in Requests |-> IdleRequest]
    /\ sw = IdleSweep /\ starts = 0 /\ faults = 0

----------------------------------------------------------------------------
Fault == faults < MaxFaults /\ faults' = faults + 1

Disturb == sw' = [sw EXCEPT !.calm = sw.pc \notin {"file", "row"}]

At(r, label) == req[r].pc = label
Start(r, q) ==
    /\ At(r, "idle") /\ starts < MaxStarts
    /\ starts' = starts + 1
    /\ req' = [req EXCEPT ![r] = q]
Goto(r, label) == req' = [req EXCEPT ![r].pc = label] /\ UNCHANGED starts
End(r) == req' = [req EXCEPT ![r] = IdleRequest] /\ UNCHANGED starts

(* The handler's failure paths and a client that goes away.                *)
RequestAborts(r) ==
    /\ Fault /\ ~At(r, "idle") /\ End(r)
    /\ UNCHANGED <<rows, cont, files, wk, sw>>

(* INSERT of a backup row and of its job, in one transaction.              *)
InsertBackup(b) ==
    /\ b \in BackupIds \ Created /\ b - 1 \in Created \cup {0}
    /\ bk' = [bk EXCEPT ![b].status = "pending"]
    /\ jobs' = [jobs EXCEPT ![<<"backup", b>>] =
                  [status |-> "pending", attempts |-> 0, of |-> b]]

InFlight == \E b \in BackupIds : bk[b].status \in Open

(* backupEligibility: a running deployment of our own; adopted and remote  *)
(* ones, which never change, are left out.                                 *)
BackupEligibility == dep.status = "running"

(* createBackup looks for a backup in flight ...                           *)
CheckInFlight(r) ==
    /\ BackupEligibility /\ ~InFlight
    /\ Start(r, [IdleRequest EXCEPT !.pc = "insert"])
    /\ UNCHANGED <<rows, cont, files, wk, sw>>

(* ... and inserts; the transaction holds no lock in between.              *)
CreateBackup(r, b) ==
    /\ At(r, "insert") /\ InsertBackup(b) /\ End(r)
    /\ UNCHANGED <<dep, cont, files, wk, sw>>

(* restoreBackup: the row is complete when it is read ...                  *)
CheckComplete(r, b) ==
    /\ BackupEligibility /\ bk[b].status = "complete"
    /\ Start(r, [IdleRequest EXCEPT !.pc = "restore", !.b = b])
    /\ UNCHANGED <<rows, cont, files, wk, sw>>

(* ... and the job refers to it, if it still exists (a foreign key).       *)
RestoreBackup(r, j) ==
    /\ At(r, "restore") /\ End(r)
    /\ Exists(req[r].b)
    /\ jobs[j].of = 0
    /\ jobs' = [jobs EXCEPT ![j].status = "pending", ![j].of = req[r].b]
    /\ UNCHANGED <<dep, bk, cont, files, wk, sw>>

(* deleteBackup: neither pending nor running when it is read ...           *)
CheckSettled(r, b) ==
    /\ Exists(b) /\ bk[b].status \notin Open
    /\ Start(r, [IdleRequest EXCEPT !.pc = "file", !.b = b])
    /\ UNCHANGED <<rows, cont, files, wk, sw>>

RemoveArchive(b) ==
    /\ files' = files \ {b}
    /\ bk' = [bk EXCEPT ![b].taken = TRUE]

(* ... archive first ...                                                   *)
DeleteArchive(r) ==
    /\ At(r, "file") /\ Goto(r, "row")
    /\ RemoveArchive(req[r].b)
    /\ UNCHANGED <<dep, jobs, cont, wk, sw>>

(* The row goes, and every job that refers to it (ON DELETE CASCADE).      *)
Gone == [status |-> "gone", age |-> 0, taken |-> FALSE]
DropRow(b) ==
    /\ bk' = [bk EXCEPT ![b] = Gone]
    /\ jobs' = [j \in Jobs |->
                 IF jobs[j].of = b THEN [jobs[j] EXCEPT !.status = "none", !.attempts = 0]
                 ELSE jobs[j]]

(* ... row second, whatever its status has become.                         *)
DeleteBackup(r) ==
    /\ At(r, "row") /\ End(r)
    /\ DropRow(req[r].b) /\ Disturb
    /\ UNCHANGED <<dep, cont, files, wk>>

(* updateBackupSettings: daily only for an eligible deployment.            *)
UpdateBackupSettings(r, schedule, retention) ==
    /\ schedule = "daily" => BackupEligibility
    /\ dep' = [dep EXCEPT !.schedule = schedule, !.retention = retention]
    /\ dep' # dep /\ Disturb
    /\ At(r, "idle") /\ starts < MaxStarts
    /\ starts' = starts + 1
    /\ UNCHANGED <<cont, bk, files, jobs, wk, req>>

----------------------------------------------------------------------------
(* The sweeper: one tick is failStale, enqueueScheduled, pruneRetention,   *)
(* statement by statement.                                                 *)
Sweep(label) == sw' = [sw EXCEPT !.pc = label] /\ UNCHANGED <<starts, req, wk>>

Complete == {b \in BackupIds : bk[b].status = "complete"}
Newer(b) == {c \in Complete : c > b}
Stale(b) == bk[b].status \in Open /\ bk[b].age >= 1

(* A deployment is due when it is on schedule and quiet ...                *)
Due == /\ dep.schedule = "daily" /\ dep.status = "running"
       /\ \A b \in BackupIds :
             /\ bk[b].status \notin Open
             /\ ~(bk[b].status = "complete" /\ bk[b].age < 2)
             /\ ~(bk[b].status = "failed" /\ bk[b].age < 1)

(* Mutant: rn >= backup_retention.                                         *)
PrunableTooMany == {b \in Complete : Cardinality(Newer(b)) + 1 >= dep.retention}

(* ... and complete rows, ranked newest first, are prunable beyond the     *)
(* retention.                                                              *)
Prunable == {b \in Complete : Cardinality(Newer(b)) >= dep.retention}

(* A tick that finds nothing to do changes nothing and is left out.        *)
Tick == sw.pc = "idle" /\ (Due \/ Prunable # {} \/ \E b \in BackupIds : Stale(b))

(* failStale: rows in flight for more than an hour.                        *)
FailStale ==
    /\ Tick /\ Sweep("schedule")
    /\ bk' = [b \in BackupIds |->
                IF Stale(b) THEN [bk[b] EXCEPT !.status = "failed"] ELSE bk[b]]
    /\ UNCHANGED <<dep, cont, files, jobs>>

(* enqueueScheduled lists the deployment if it is due ...                  *)
EnqueueScheduled ==
    /\ sw.pc = "schedule"
    /\ Sweep(IF Due THEN "enqueue" ELSE "prune")
    /\ UNCHANGED <<rows, cont, files>>

(* ... then enqueueOne inserts.  (The bound on rows may be reached.)       *)
EnqueueOne ==
    /\ sw.pc = "enqueue" /\ Sweep("prune")
    /\ IF Created = BackupIds THEN UNCHANGED <<bk, jobs>>
       ELSE \E b \in BackupIds : InsertBackup(b)
    /\ UNCHANGED <<dep, cont, files>>

PruneRetention ==
    /\ sw.pc = "prune"
    /\ sw' = [IdleSweep EXCEPT !.pc = IF Prunable = {} THEN "idle" ELSE "file",
                               !.todo = Prunable]
    /\ UNCHANGED <<rows, cont, files, wk, req, starts>>

(* The victims come in no particular order: the query has none.            *)
NextVictim(todo) ==
    sw' = IF todo = {} THEN IdleSweep
          ELSE [sw EXCEPT !.pc = "file", !.todo = todo, !.v = 0]

(* A victim's archive goes before its row.                                 *)
PruneArchive(v) ==
    /\ sw.pc = "file" /\ v \in sw.todo /\ RemoveArchive(v)
    /\ sw' = [sw EXCEPT !.pc = "row", !.todo = @ \ {v}, !.v = v]
    /\ UNCHANGED <<dep, jobs, cont, wk, req, starts>>

PruneRow ==
    /\ sw.pc = "row" /\ NextVictim(sw.todo) /\ DropRow(sw.v)
    /\ UNCHANGED <<dep, cont, files, wk, req, starts>>

(* A statement or a removal fails: logged, and the sweep goes on, with the *)
(* next victim if it was at one.  Or the node dies, and its session's      *)
(* advisory lock goes with it.                                             *)
SweepFails ==
    /\ Fault
    /\ \/ sw.pc \in {"schedule", "enqueue"} /\ sw' = [sw EXCEPT !.pc = "prune"]
       \/ sw.pc = "file" /\ \E v \in sw.todo : NextVictim(sw.todo \ {v})
       \/ sw.pc = "row" /\ NextVictim(sw.todo)
       \/ sw.pc # "idle" /\ sw' = IdleSweep
    /\ UNCHANGED <<rows, cont, files, wk, req, starts>>

(* An hour, or a day, goes by for every row there is.                      *)
TimePasses(age) ==
    /\ \E b \in BackupIds : Exists(b) /\ bk[b].age < age
    /\ bk' = [b \in BackupIds |->
                IF Exists(b) /\ bk[b].age < age THEN [bk[b] EXCEPT !.age = age] ELSE bk[b]]
    /\ UNCHANGED <<dep, cont, files, jobs, wk, sw, req, starts>>

----------------------------------------------------------------------------
(* The queue.                                                              *)
Idle(w) == wk[w].pc = "idle"
Doing(w, kind, label) == wk[w].pc = label /\ wk[w].job[1] = kind
Go(w, label) == wk' = [wk EXCEPT ![w].pc = label] /\ UNCHANGED <<req, starts>>
Step(w, label) == Go(w, label) /\ UNCHANGED sw
Rest(w) == wk' = [wk EXCEPT ![w] = IdleWorker] /\ UNCHANGED <<sw, req, starts>>
InTime(w) == ~wk[w].late
Backup(w) == jobs[wk[w].job].of

(* claimNext: a pending job, with deployments.ha_enabled as it is now.     *)
ClaimNext(w, j) ==
    /\ Idle(w) /\ jobs[j].status = "pending"
    /\ jobs' = [jobs EXCEPT ![j].status = "claimed", ![j].attempts = @ + 1]
    /\ wk' = [wk EXCEPT ![w] = [IdleWorker EXCEPT !.pc = "start", !.job = j,
                                                  !.ha = dep.ha]]
    /\ UNCHANGED <<dep, bk, cont, files, sw, req, starts>>

(* JobTimeout: the job's context is done, and its claim is old.            *)
Deadline(w) ==
    /\ Fault /\ ~Idle(w) /\ InTime(w)
    /\ wk' = [wk EXCEPT ![w].late = TRUE]
    /\ UNCHANGED <<rows, cont, files, sw, req, starts>>

Crash(w) ==
    /\ Fault /\ ~Idle(w) /\ Rest(w)
    /\ UNCHANGED <<rows, cont, files>>

(* markDone and markJobFailed: by id, whoever holds the claim; a row that  *)
(* was deleted with its backup stays deleted.  Nobody counts the attempts  *)
(* of a settled job.                                                       *)
Settle(j, status) ==
    jobs' = [jobs EXCEPT ![j] = IF @.status = "none" THEN @
                                ELSE [@ EXCEPT !.status = status, !.attempts = 0]]

(* requeueStale: pending again, or failed once the attempts are used up.   *)
Requeue(j) ==
    /\ jobs[j].status = "claimed"
    /\ IF jobs[j].attempts >= MaxAttempts THEN Settle(j, "failed")
       ELSE jobs' = [jobs EXCEPT ![j].status = "pending"]
    /\ UNCHANGED <<dep, bk, cont, files, wk, sw, req, starts>>

RequeueStale(j) == Requeue(j) /\ \A w \in Workers : wk[w].job = j => wk[w].late

(* The claim is old by the database's clock while its worker, whose own    *)
(* clock started later, still has time.                                    *)
RequeueEarly(j) == Fault /\ Requeue(j)

MarkDone(w) ==
    /\ wk[w].pc = "done" /\ Settle(wk[w].job, "done") /\ Rest(w)
    /\ UNCHANGED <<dep, bk, cont, files>>

MarkJobFailed(w) ==
    /\ wk[w].pc = "failjob" /\ Settle(wk[w].job, "failed") /\ Rest(w)
    /\ UNCHANGED <<dep, bk, cont, files>>

(* The containers a claim made under ha may talk to.                       *)
EndpointURL(ha) == IF ha THEN {0, 1} ELSE {-1}

(* Where a failed call sends the worker: failBackup, markJobFailed, or the *)
(* clean-up of an upgrade.                                                 *)
OnError(kind, label) ==
    CASE kind = "backup" /\ label \in {"start", "export"} -> "failrow"
      [] kind = "backup" /\ label \in {"complete", "failrow"} -> "failjob"
      [] kind = "restore" /\ label \in {"start", "import"} -> "failjob"
      [] kind = "upgrade" /\ label = "start" -> "failjob"
      [] kind = "upgrade" /\ label \in {"ports", "provision", "migrate", "swap"} -> "cleanup"
      [] OTHER -> "none"

NextOnError(w) == OnError(wk[w].job[1], wk[w].pc)

(* A statement or a Docker call fails ...                                  *)
CallFails(w) ==
    /\ Fault /\ ~Idle(w) /\ NextOnError(w) # "none"
    /\ Step(w, NextOnError(w))
    /\ UNCHANGED <<rows, cont, files>>

(* ... or every call on the job's context does, because its time is over:  *)
(* by then the archive may have been moved into place, or the container    *)
(* started.  failBackup has a context of its own.                          *)
LateFails(w) ==
    /\ wk[w].late /\ NextOnError(w) # "none" /\ wk[w].pc # "failrow"
    /\ Step(w, NextOnError(w))
    /\ files' \in {files} \cup {files \cup {b} : b \in {Backup(w)} \cap
                     IF wk[w].pc = "export" THEN BackupIds ELSE {}}
    /\ cont' \in {cont} \cup {cont \cup {i} : i \in
                     IF wk[w].pc = "provision" THEN {Cardinality(wk[w].built)} ELSE {}}
    /\ UNCHANGED rows

----------------------------------------------------------------------------
(* runBackup marks the row running, whatever it was; without a row it      *)
(* fails.                                                                  *)
StartBackup(w) ==
    /\ Doing(w, "backup", "start") /\ InTime(w)
    /\ IF Exists(Backup(w))
       THEN /\ bk' = [bk EXCEPT ![Backup(w)].status = "running"]
            /\ IF bk[Backup(w)].status = "complete" THEN Disturb ELSE UNCHANGED sw
            /\ Go(w, "export")
       ELSE UNCHANGED bk /\ Step(w, "failrow")
    /\ UNCHANGED <<dep, jobs, cont, files>>

(* ExportBackup: the CLI container writes to a scratch directory and moves *)
(* the archive into place.                                                 *)
ExportBackup(w) ==
    /\ Doing(w, "backup", "export") /\ InTime(w)
    /\ IF cont \cap EndpointURL(wk[w].ha) # {}
       THEN files' = files \cup {Backup(w)} /\ Step(w, "stat")
       ELSE UNCHANGED files /\ Step(w, "failrow")
    /\ UNCHANGED <<rows, cont>>

(* os.Stat: no archive, no backup.                                         *)
StatArchive(w) ==
    /\ Doing(w, "backup", "stat")
    /\ Step(w, IF Backup(w) \in files THEN "complete" ELSE "failrow")
    /\ UNCHANGED <<rows, cont, files>>

SetStatus(b, status) ==
    bk' = [bk EXCEPT ![b].status = IF @ = "gone" THEN @ ELSE status]

(* The row is complete, if it is still there.                              *)
CompleteBackup(w) ==
    /\ Doing(w, "backup", "complete") /\ InTime(w) /\ Step(w, "done")
    /\ SetStatus(Backup(w), "complete")
    /\ UNCHANGED <<dep, jobs, cont, files>>

(* Mutant: failBackup leaves the archive's row to be taken for complete.   *)
FailBackupComplete(w) ==
    /\ Doing(w, "backup", "failrow") /\ Go(w, "failjob")
    /\ SetStatus(Backup(w), "complete") /\ UNCHANGED sw
    /\ UNCHANGED <<dep, jobs, cont, files>>

(* failBackup: the row by id, whatever its status, then the job.           *)
FailBackup(w) ==
    /\ Doing(w, "backup", "failrow") /\ Go(w, "failjob")
    /\ SetStatus(Backup(w), "failed")
    /\ IF bk[Backup(w)].status = "complete" THEN Disturb ELSE UNCHANGED sw
    /\ UNCHANGED <<dep, jobs, cont, files>>

(* runRestore reads the row again: it must exist and be complete.          *)
StartRestore(w) ==
    /\ Doing(w, "restore", "start") /\ InTime(w)
    /\ Step(w, IF bk[Backup(w)].status = "complete" THEN "import" ELSE "failjob")
    /\ UNCHANGED <<rows, cont, files>>

(* ImportBackup: the archive has to be there, and a target that accepts.   *)
ImportBackup(w) ==
    /\ Doing(w, "restore", "import") /\ InTime(w)
    /\ Step(w, IF Backup(w) \in files /\ cont \cap EndpointURL(wk[w].ha) # {}
               THEN "done" ELSE "failjob")
    /\ UNCHANGED <<rows, cont, files>>

BackupWork(w) ==
    \/ \E j \in Jobs : ClaimNext(w, j)
    \/ MarkDone(w) \/ MarkJobFailed(w) \/ LateFails(w)
    \/ StartBackup(w) \/ ExportBackup(w) \/ StatArchive(w)
    \/ CompleteBackup(w) \/ FailBackup(w)
    \/ StartRestore(w) \/ ImportBackup(w)

SweepStep == \/ FailStale \/ EnqueueScheduled \/ EnqueueOne \/ PruneRetention
             \/ PruneRow \/ \E v \in BackupIds : PruneArchive(v)

Faults == \/ SweepFails
          \/ \E j \in Jobs : RequeueEarly(j)
          \/ \E w \in Workers : Deadline(w) \/ Crash(w) \/ CallFails(w)
          \/ \E r \in Requests : RequestAborts(r)

Steps ==
    \/ \E w \in Workers : BackupWork(w)
    \/ \E j \in Jobs : RequeueStale(j)
    \/ SweepStep
    \/ \E age \in {1, 2} : TimePasses(age)
    \/ \E r \in Requests :
         \/ CheckInFlight(r) \/ DeleteArchive(r) \/ DeleteBackup(r)
         \/ \E b \in BackupIds : CreateBackup(r, b) \/ CheckComplete(r, b) \/ CheckSettled(r, b)
         \/ \E j \in RestoreJobs : RestoreBackup(r, j)
         \/ \E s \in {"none", "daily"}, n \in Retentions : UpdateBackupSettings(r, s, n)

BackupNext == Faults \/ (Steps /\ UNCHANGED faults)

----------------------------------------------------------------------------
(* A complete backup can be restored: its archive is on the volume, unless *)
(* somebody who is deleting it, or failed to finish doing so, removed it.  *)
(* Rows, jobs and workers are well formed.                                 *)
CompleteHasArchive ==
    TypeOK /\ \A b \in Complete : b \in files \/ bk[b].taken

(* The retention is a promise: a sweep prunes a backup only while at least *)
(* dep.retention newer ones are complete, whatever the workers, the clock  *)
(* and a dead sweep before it did, unless an operator deleted backups or   *)
(* changed the settings, or a retried export took one back, since it made  *)
(* its list.                                                               *)
PruneKeepsRetention ==
    [][\A b \in BackupIds :
         PruneRow /\ bk'[b].status = "gone" /\ bk[b].status # "gone" /\ sw.calm
            => Cardinality(Newer(b)) >= dep.retention]_vars
=============================================================================
