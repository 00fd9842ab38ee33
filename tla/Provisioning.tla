---------------------------- MODULE Provisioning ----------------------------
(***************************************************************************)
(* The asynchronous provisioning path of Synapse: the handlers that        *)
(* create, delete and restart a deployment (internal/api/deployments.go),  *)
(* the provisioning_jobs queue, the workers that drain it and the reaper   *)
(* (internal/provisioner/worker.go), and the Docker daemon they all call   *)
(* (internal/docker/provisioner.go).                                       *)
(*                                                                         *)
(* Every SQL statement or transaction is one step, every Docker call is    *)
(* one step, and all processes interleave between steps.  A worker is a    *)
(* Synapse process with one consumer loop; a request is one API call in    *)
(* flight.  Rows are never removed: a delete is a soft delete, and the     *)
(* name of a deployment (UNIQUE over deleted rows too) is its identity.    *)
(***************************************************************************)
EXTENDS Topology, Sequences, FiniteSets

CONSTANTS
    Unloadable,      \* HA deployments whose storage row does not decrypt
    Workers,         \* provisioner processes
    Requests,        \* concurrent delete / restart requests
    MaxAttempts,     \* Config.MaxAttempts
    None             \* SQL NULL in claimed_by; no deployment, no job

ASSUME StorageAssumption == Unloadable \subseteq HADeployments
ASSUME AttemptAssumption == MaxAttempts \in Nat \ {0}
ASSUME NoneAssumption    == None \notin Workers \cup Deployments

JobStatus == {"absent", "pending", "claimed", "done", "failed"}
WorkerPc  == {"idle", "precheck", "provision", "mark", "destroy", "done",
              "fail", "failrow"}
RequestPc == {"idle", "flip", "destroy", "mark", "free",
              "restart", "repup", "depup"}

VARIABLES
    dep,        \* deployments.status
    rep,        \* deployment_replicas.status
    lastDeploy, \* deployments whose last_deploy_at is not NULL
    born,       \* deployments in created_at order
    jobStatus, claimedBy, attempts,    \* provisioning_jobs
    pc, cur,    \* workers: next step, job
    late,       \* workers whose job context is done
    ripe,       \* workers whose claim is old by the database's clock
    req,        \* API requests: next step, deployment, replica, force flag
    cont,       \* the Docker daemon's containers, by name
    reaper      \* the reaper's position in its sweep

rowVars    == <<dep, rep, lastDeploy, born>>
jobVars    == <<jobStatus, claimedBy, attempts>>
workerVars == <<pc, cur, late, ripe>>
vars == <<rowVars, jobVars, workerVars, req, cont, reaper>>

IdleRequest == [pc |-> "idle", dep |-> None, idx |-> 0, force |-> FALSE]

TypeOK ==
    /\ dep \in [Deployments -> DepStatus]
    /\ rep \in [ReplicaIds -> RepStatus]
    /\ lastDeploy \subseteq Deployments
    /\ born \in Seq(Deployments)
    /\ jobStatus \in [ReplicaIds -> JobStatus]
    /\ claimedBy \in [ReplicaIds -> Workers \cup {None}]
    /\ attempts \in [ReplicaIds -> 0 .. MaxAttempts]
    /\ pc \in [Workers -> WorkerPc]
    /\ cur \in [Workers -> ReplicaIds \cup {None}]
    /\ late \in [Workers -> BOOLEAN]
    /\ ripe \in [Workers -> BOOLEAN]
    /\ \A w \in Workers : pc[w] # "idle" => cur[w] \in ReplicaIds
    /\ req \in [Requests -> [pc : RequestPc, dep : Deployments \cup {None},
                             idx : {0, 1}, force : BOOLEAN]]
    /\ \A q \in Requests : req[q].pc # "idle" => req[q].dep \in Deployments
    /\ cont \in [ContainerNames -> ContStatus]
    /\ reaper \in {"idle", "requeued"}

Init ==
    /\ dep = [d \in Deployments |-> "absent"]
    /\ rep = [r \in ReplicaIds |-> "absent"]
    /\ lastDeploy = {}
    /\ born = << >>
    /\ jobStatus = [r \in ReplicaIds |-> "absent"]
    /\ claimedBy = [r \in ReplicaIds |-> None]
    /\ attempts = [r \in ReplicaIds |-> 0]
    /\ pc = [w \in Workers |-> "idle"]
    /\ cur = [w \in Workers |-> None]
    /\ late = [w \in Workers |-> FALSE]
    /\ ripe = [w \in Workers |-> FALSE]
    /\ req = [q \in Requests |-> IdleRequest]
    /\ cont = [n \in ContainerNames |-> "none"]
    /\ reaper = "idle"

----------------------------------------------------------------------------
(* The create handler: one transaction inserts the deployment row, its     *)
(* replica rows and one job per replica.  last_deploy_at stays NULL.       *)
CreateDeployment(d) ==
    /\ dep[d] = "absent"
    /\ dep' = [dep EXCEPT ![d] = "provisioning"]
    /\ rep' = [r \in ReplicaIds |->
                 IF r[1] = d THEN "provisioning" ELSE rep[r]]
    /\ jobStatus' = [r \in ReplicaIds |->
                       IF r[1] = d THEN "pending" ELSE jobStatus[r]]
    /\ born' = Append(born, d)
    /\ UNCHANGED <<lastDeploy, claimedBy, attempts, workerVars, req, cont, reaper>>

----------------------------------------------------------------------------
(* Delete.  The handler reads the row once and acts on that read.          *)
At(q, step, i) ==
    [pc |-> step, dep |-> req[q].dep, idx |-> i, force |-> req[q].force]
SetRequest(q, step) == req' = [req EXCEPT ![q] = At(q, step, 0)]
EndRequest(q) == req' = [req EXCEPT ![q] = IdleRequest]

DeleteBegin(q, d, force) ==
    /\ req[q].pc = "idle"
    /\ dep[d] \notin {"absent", "deleted"}
    /\ req' = [req EXCEPT ![q] =
                 [pc |-> IF dep[d] = "provisioning" THEN "flip" ELSE "destroy",
                  dep |-> d, idx |-> 0, force |-> force]]
    /\ UNCHANGED <<rowVars, jobVars, workerVars, cont, reaper>>

(* Row read as 'provisioning': no Docker call, the row alone is flipped.   *)
DeleteFlip(q) ==
    /\ req[q].pc = "flip"
    /\ dep' = [dep EXCEPT ![req[q].dep] = "deleted"]
    /\ SetRequest(q, "free")
    /\ UNCHANGED <<rep, lastDeploy, born, jobVars, workerVars, cont, reaper>>

(* After the container of replica idx: the next replica, or the row.       *)
NextReplicaOr(q, step) ==
    req' = [req EXCEPT ![q] =
              IF req[q].idx + 1 < NumReplicas(req[q].dep)
              THEN At(q, req[q].pc, req[q].idx + 1)
              ELSE At(q, step, 0)]

(* Destroy / DestroyReplica of one container; missing counts as success.   *)
DeleteDestroy(q) ==
    /\ req[q].pc = "destroy"
    /\ cont' = [cont EXCEPT ![ContainerName(req[q].dep, req[q].idx)] = "none"]
    /\ NextReplicaOr(q, "mark")
    /\ UNCHANGED <<rowVars, jobVars, workerVars, reaper>>

(* A failing destroy may have stopped or even removed the container.       *)
(* Without force the row is left for a retry; with force it goes anyway.   *)
DeleteDestroyFails(q) ==
    LET n == ContainerName(req[q].dep, req[q].idx) IN
    /\ req[q].pc = "destroy"
    /\ \E left \in IF cont[n] = "none" THEN {"none"}
                   ELSE {cont[n], "exited", "none"} :
           cont' = [cont EXCEPT ![n] = left]
    /\ IF req[q].force THEN NextReplicaOr(q, "mark") ELSE EndRequest(q)
    /\ UNCHANGED <<rowVars, jobVars, workerVars, reaper>>

DeleteMark(q) ==
    /\ req[q].pc = "mark"
    /\ dep' = [dep EXCEPT ![req[q].dep] = "deleted"]
    /\ SetRequest(q, "free")
    /\ UNCHANGED <<rep, lastDeploy, born, jobVars, workerVars, cont, reaper>>

(* Frees the replica ports: every replica row becomes 'stopped'.           *)
DeleteFree(q) ==
    /\ req[q].pc = "free"
    /\ rep' = [r \in ReplicaIds |->
                 IF r[1] = req[q].dep THEN "stopped" ELSE rep[r]]
    /\ EndRequest(q)
    /\ UNCHANGED <<dep, lastDeploy, born, jobVars, workerVars, cont, reaper>>

----------------------------------------------------------------------------
(* Restart: every container of the deployment, then the replica rows, then *)
(* the deployment row.                                                     *)
RestartBegin(q, d) ==
    /\ req[q].pc = "idle"
    /\ dep[d] \notin {"absent", "deleted", "provisioning"}
    /\ req' = [req EXCEPT ![q] = [pc |-> "restart", dep |-> d, idx |-> 0,
                                  force |-> FALSE]]
    /\ UNCHANGED <<rowVars, jobVars, workerVars, cont, reaper>>

RestartContainer(q) ==
    LET n == ContainerName(req[q].dep, req[q].idx) IN
    /\ req[q].pc = "restart"
    /\ cont[n] \in {"running", "exited"}
    /\ cont' = [cont EXCEPT ![n] = "running"]
    /\ NextReplicaOr(q, "repup")
    /\ UNCHANGED <<rowVars, jobVars, workerVars, reaper>>

RestartReplicaRows(q) ==
    /\ req[q].pc = "repup"
    /\ rep' = [r \in ReplicaIds |->
                 IF r[1] = req[q].dep THEN "running" ELSE rep[r]]
    /\ SetRequest(q, "depup")
    /\ UNCHANGED <<dep, lastDeploy, born, jobVars, workerVars, cont, reaper>>

(* The statement fails: logged, and the deployment row is written next.    *)
RestartReplicaRowsFail(q) ==
    /\ req[q].pc = "repup"
    /\ SetRequest(q, "depup")
    /\ UNCHANGED <<rowVars, jobVars, workerVars, cont, reaper>>

(* Mutant: without the guard against a concurrent delete.                  *)
RestartRowUnguarded(q) ==
    /\ req[q].pc = "depup"
    /\ dep' = [dep EXCEPT ![req[q].dep] = "running"]
    /\ EndRequest(q)
    /\ UNCHANGED <<rep, lastDeploy, born, jobVars, workerVars, cont, reaper>>

RestartRow(q) ==
    /\ req[q].pc = "depup"
    /\ dep' = IF dep[req[q].dep] = "deleted" THEN dep
              ELSE [dep EXCEPT ![req[q].dep] = "running"]
    /\ EndRequest(q)
    /\ UNCHANGED <<rep, lastDeploy, born, jobVars, workerVars, cont, reaper>>

(* The request ends early: the client goes away and its context with it, a *)
(* Docker call or statement fails, or the API process dies.                *)
RequestAbort(q) ==
    /\ req[q].pc # "idle"
    /\ EndRequest(q)
    /\ UNCHANGED <<rowVars, jobVars, workerVars, cont, reaper>>

----------------------------------------------------------------------------
(* The queue.  claimNext takes the oldest pending row, skipping the rows   *)
(* that other claim transactions hold locked.  A row whose storage cannot  *)
(* be loaded is left pending and the claim returns empty-handed, so it can *)
(* only be passed over while another idle worker happens to hold its lock. *)
Older(d, e) == \E i, k \in 1 .. Len(born) : i < k /\ born[i] = d /\ born[k] = e

AtHead(w, r) ==
    LET ahead == {s \in ReplicaIds : /\ jobStatus[s] = "pending"
                                     /\ Older(s[1], r[1])}
    IN  /\ \A s \in ahead : s[1] \in Unloadable
        /\ Cardinality(ahead) <= Cardinality({v \in Workers \ {w} : pc[v] = "idle"})

ClaimNext(w, r) ==
    /\ pc[w] = "idle"
    /\ jobStatus[r] = "pending"
    /\ AtHead(w, r)
    /\ r[1] \notin Unloadable
    /\ jobStatus' = [jobStatus EXCEPT ![r] = "claimed"]
    /\ claimedBy' = [claimedBy EXCEPT ![r] = w]
    /\ attempts' = [attempts EXCEPT ![r] = @ + 1]
    /\ pc' = [pc EXCEPT ![w] = "precheck"]
    /\ cur' = [cur EXCEPT ![w] = r]
    /\ late' = [late EXCEPT ![w] = FALSE]
    /\ ripe' = [ripe EXCEPT ![w] = FALSE]
    /\ UNCHANGED <<rowVars, req, cont, reaper>>

Goto(w, step) ==
    /\ pc' = [pc EXCEPT ![w] = step]
    /\ UNCHANGED <<cur, late, ripe>>

(* JobTimeout runs on two clocks that nothing ties together: the job's     *)
(* context starts when the process has the claim in hand ...               *)
Deadline(w) ==
    /\ pc[w] # "idle"
    /\ ~late[w]
    /\ late' = [late EXCEPT ![w] = TRUE]
    /\ UNCHANGED <<rowVars, jobVars, pc, cur, ripe, req, cont, reaper>>

(* ... and claimed_at is the start of the claim transaction, compared with *)
(* the database's now() in whole seconds.  A claim can be old while its    *)
(* worker still has time, or young while it has none.                      *)
ClaimAges(w) ==
    /\ pc[w] # "idle"
    /\ jobStatus[cur[w]] = "claimed" /\ claimedBy[cur[w]] = w
    /\ ~ripe[w]
    /\ ripe' = [ripe EXCEPT ![w] = TRUE]
    /\ UNCHANGED <<rowVars, jobVars, pc, cur, late, req, cont, reaper>>

(* runJob's pre-check of the replica row; a failed query falls through.    *)
PreCheck(w) ==
    /\ pc[w] = "precheck"
    /\ \E answered \in BOOLEAN :
         /\ answered => ~late[w]
         /\ Goto(w, IF answered /\ rep[cur[w]] # "provisioning"
                    THEN "done" ELSE "provision")
    /\ UNCHANGED <<rowVars, jobVars, req, cont, reaper>>

Built(w) == ContainerName(cur[w][1], cur[w][2])

(* Docker refuses a second container of the same name, and the refused     *)
(* create leaves the first one alone.                                      *)
Provision(w) ==
    /\ pc[w] = "provision"
    /\ ~late[w]
    /\ cont[Built(w)] = "none"
    /\ cont' = [cont EXCEPT ![Built(w)] = "running"]
    /\ Goto(w, "mark")
    /\ UNCHANGED <<rowVars, jobVars, req, reaper>>

(* Mutant: the failed create removes whatever container has the name.      *)
ProvisionFailsByName(w) ==
    /\ pc[w] = "provision"
    /\ cont' = [cont EXCEPT ![Built(w)] = "none"]
    /\ Goto(w, "fail")
    /\ UNCHANGED <<rowVars, jobVars, req, reaper>>

(* A create or start error removes what was built, unless the context is   *)
(* already done: then the daemon may have got as far as it liked and the   *)
(* best-effort removal fails too.                                          *)
ProvisionFails(w) ==
    /\ pc[w] = "provision"
    /\ \E left \in IF late[w] /\ cont[Built(w)] = "none"
                   THEN {"none", "exited", "running"} ELSE {cont[Built(w)]} :
           cont' = [cont EXCEPT ![Built(w)] = left]
    /\ Goto(w, "fail")
    /\ UNCHANGED <<rowVars, jobVars, req, reaper>>

(* markProvisionRunning: one transaction over the replica and deployment   *)
(* rows; it rolls back, and the worker cleans up, when the deployment is   *)
(* neither 'provisioning' nor 'running' with this replica running.         *)
MarkProvisionRunning(w) ==
    LET r == cur[w]
        d == cur[w][1]
        repUp == [rep EXCEPT ![r] = IF @ = "provisioning" THEN "running" ELSE @]
    IN
    /\ pc[w] = "mark"
    /\ ~late[w]
    /\ \/ /\ dep[d] = "provisioning"
          /\ dep' = [dep EXCEPT ![d] = "running"]
          /\ lastDeploy' = lastDeploy \cup {d}
          /\ rep' = repUp
          /\ Goto(w, "done")
       \/ /\ dep[d] = "running" /\ repUp[r] = "running"
          /\ rep' = repUp
          /\ Goto(w, "done")
          /\ UNCHANGED <<dep, lastDeploy>>
       \/ /\ dep[d] # "provisioning"
          /\ ~(dep[d] = "running" /\ repUp[r] = "running")
          /\ Goto(w, "destroy")
          /\ UNCHANGED <<dep, lastDeploy, rep>>
    /\ UNCHANGED <<born, jobVars, req, cont, reaper>>

(* Mutant: a failed transaction still ends in markDone.                    *)
MarkProvisionRunningIgnored(w) ==
    /\ pc[w] = "mark"
    /\ Goto(w, "done")
    /\ UNCHANGED <<rowVars, jobVars, req, cont, reaper>>

MarkProvisionRunningFails(w) ==
    /\ pc[w] = "mark"
    /\ Goto(w, "fail")
    /\ UNCHANGED <<rowVars, jobVars, req, cont, reaper>>

(* Destroy(j.Name): the single-replica container name, in both modes.      *)
CleanupDestroy(w) ==
    /\ pc[w] = "destroy"
    /\ ~late[w]
    /\ cont' = [cont EXCEPT ![<<cur[w][1]>>] = "none"]
    /\ Goto(w, "done")
    /\ UNCHANGED <<rowVars, jobVars, req, reaper>>

(* The error is logged and the job is done all the same.                   *)
CleanupDestroyFails(w) ==
    /\ pc[w] = "destroy"
    /\ Goto(w, "done")
    /\ UNCHANGED <<rowVars, jobVars, req, cont, reaper>>

StopWorking(w) ==
    /\ pc' = [pc EXCEPT ![w] = "idle"]
    /\ cur' = [cur EXCEPT ![w] = None]
    /\ late' = [late EXCEPT ![w] = FALSE]
    /\ ripe' = [ripe EXCEPT ![w] = FALSE]

(* markDone and markJobFailed run on a fresh context and do not look at    *)
(* who holds the claim: a late worker settles the row too.                 *)
MarkDone(w) ==
    /\ pc[w] = "done"
    /\ jobStatus' = [jobStatus EXCEPT ![cur[w]] = "done"]
    /\ StopWorking(w)
    /\ UNCHANGED <<rowVars, claimedBy, attempts, req, cont, reaper>>

MarkJobFailed(w) ==
    /\ pc[w] = "fail"
    /\ jobStatus' = [jobStatus EXCEPT ![cur[w]] = "failed"]
    /\ Goto(w, "failrow")
    /\ UNCHANGED <<rowVars, claimedBy, attempts, req, cont, reaper>>

(* The job's UPDATE is lost: logged, and the deployment row comes next.    *)
MarkJobFailedLost(w) ==
    /\ pc[w] = "fail"
    /\ Goto(w, "failrow")
    /\ UNCHANGED <<rowVars, jobVars, req, cont, reaper>>

FailProvisioning(ds) ==
    /\ dep' = [d \in Deployments |-> IF d \in ds THEN "failed" ELSE dep[d]]
    /\ lastDeploy' = lastDeploy \cup ds

MarkDeploymentFailed(w) ==
    /\ pc[w] = "failrow"
    /\ FailProvisioning({d \in {cur[w][1]} : dep[d] = "provisioning"})
    /\ StopWorking(w)
    /\ UNCHANGED <<rep, born, jobVars, req, cont, reaper>>

(* The process dies; whatever it claimed stays claimed.  Losing the UPDATE *)
(* of markDone, or markFailed's last one, leaves the same state.           *)
Crash(w) ==
    /\ pc[w] # "idle"
    /\ StopWorking(w)
    /\ UNCHANGED <<rowVars, jobVars, req, cont, reaper>>

----------------------------------------------------------------------------
(* A claim is stale once it is old by the database's clock; the claim of a *)
(* worker that is gone gets there with nobody to notice.                   *)
Stale(r) ==
    /\ jobStatus[r] = "claimed"
    /\ \A w \in Workers : claimedBy[r] = w => cur[w] # r \/ ripe[w]

(* Mutant: no give-up statement; stale jobs are always re-pended.          *)
RequeueStaleUncapped ==
    /\ jobStatus' = [r \in ReplicaIds |->
                       IF Stale(r) THEN "pending" ELSE jobStatus[r]]
    /\ claimedBy' = [r \in ReplicaIds |->
                       IF Stale(r) THEN None ELSE claimedBy[r]]
    /\ UNCHANGED attempts

(* Mutant: jobs over the cap are neither re-pended nor failed.             *)
RequeueStaleNoGiveUp ==
    /\ jobStatus' = [r \in ReplicaIds |->
                       IF Stale(r) /\ attempts[r] < MaxAttempts
                       THEN "pending" ELSE jobStatus[r]]
    /\ claimedBy' = [r \in ReplicaIds |->
                       IF Stale(r) /\ attempts[r] < MaxAttempts THEN None
                       ELSE claimedBy[r]]
    /\ UNCHANGED attempts

RequeueStale ==
    /\ jobStatus' = [r \in ReplicaIds |->
                       IF ~Stale(r) THEN jobStatus[r]
                       ELSE IF attempts[r] >= MaxAttempts THEN "failed"
                       ELSE "pending"]
    /\ claimedBy' = [r \in ReplicaIds |->
                       IF Stale(r) /\ attempts[r] < MaxAttempts THEN None
                       ELSE claimedBy[r]]
    /\ UNCHANGED attempts

(* reapStuck, one node at a time: requeueStale ...                         *)
ReapRequeue ==
    /\ reaper = "idle"
    /\ RequeueStale
    /\ reaper' = "requeued"
    /\ UNCHANGED <<rowVars, workerVars, req, cont>>

(* ... then the deployments left in 'provisioning' with no live job whose  *)
(* last_deploy_at is old; a NULL last_deploy_at compares to nothing.       *)
ReapStuckProvisioning ==
    /\ reaper = "requeued"
    /\ FailProvisioning({d \in Deployments :
           /\ dep[d] = "provisioning"
           /\ d \in lastDeploy
           /\ \A r \in ReplicaIds :
                r[1] = d => jobStatus[r] \notin {"pending", "claimed"}})
    /\ reaper' = "idle"
    /\ UNCHANGED <<rep, born, jobVars, workerVars, req, cont>>

(* A process boots: sweepOrphanedProvisioning fails the rows older than    *)
(* ten minutes (aged), then the worker's own requeueStale runs.            *)
Boot(aged) ==
    /\ FailProvisioning({d \in aged : dep[d] = "provisioning"})
    /\ RequeueStale
    /\ UNCHANGED <<rep, born, workerVars, req, cont, reaper>>

----------------------------------------------------------------------------
RequestStep(q) ==
    \/ DeleteFlip(q) \/ DeleteDestroy(q) \/ DeleteDestroyFails(q)
    \/ DeleteMark(q) \/ DeleteFree(q)
    \/ RestartContainer(q) \/ RestartReplicaRows(q)
    \/ RestartReplicaRowsFail(q) \/ RestartRow(q) \/ RequestAbort(q)

WorkerStep(w) ==
    \/ PreCheck(w) \/ Provision(w) \/ ProvisionFails(w)
    \/ MarkProvisionRunning(w) \/ MarkProvisionRunningFails(w)
    \/ CleanupDestroy(w) \/ CleanupDestroyFails(w)
    \/ MarkDone(w) \/ MarkJobFailed(w) \/ MarkJobFailedLost(w)
    \/ MarkDeploymentFailed(w)

Next ==
    \/ \E d \in Deployments : CreateDeployment(d)
    \/ \E q \in Requests, d \in Deployments, f \in BOOLEAN : DeleteBegin(q, d, f)
    \/ \E q \in Requests, d \in Deployments : RestartBegin(q, d)
    \/ \E q \in Requests : RequestStep(q)
    \/ \E w \in Workers, r \in ReplicaIds : ClaimNext(w, r)
    \/ \E w \in Workers : WorkerStep(w) \/ Deadline(w) \/ ClaimAges(w) \/ Crash(w)
    \/ ReapRequeue
    \/ ReapStuckProvisioning
    \/ \E aged \in SUBSET Deployments : Boot(aged)

Spec == Init /\ [][Next]_vars

(* Worker loops poll for ever and a job's context bounds every call it     *)
(* makes; the reaper runs off a ticker.  Nothing obliges a process to      *)
(* boot, to crash or to be late, or a user to send a request.              *)
Fairness ==
    /\ \A w \in Workers : WF_vars(WorkerStep(w))
    /\ \A w \in Workers : WF_vars(\E r \in ReplicaIds : ClaimNext(w, r))
    /\ WF_vars(ReapRequeue)
    /\ WF_vars(ReapStuckProvisioning)

FairSpec == Spec /\ Fairness

----------------------------------------------------------------------------
(* Claims do not exclude two live workers from one replica: the reaper     *)
(* hands a job on by the database's clock while its first worker still has *)
(* time.  What keeps them apart is the container's name: as long as the    *)
(* deployment is provisioning, at most one worker is about to mark a       *)
(* replica running, and the container it built is up, whatever its rivals, *)
(* the reaper and the requests did meanwhile.                              *)
OneBuilder ==
    \A w \in Workers : pc[w] = "mark" /\ dep[cur[w][1]] = "provisioning" =>
        /\ cont[Built(w)] = "running"
        /\ \A v \in Workers \ {w} : pc[v] = "mark" => cur[v] # cur[w]

(* A pending job has an attempt left, so no job is claimed more than       *)
(* MaxAttempts times however its workers crash (requeueStale's cap).       *)
AttemptsLeft ==
    \A r \in ReplicaIds : jobStatus[r] = "pending" => attempts[r] < MaxAttempts

(* A job marked 'done' never leaves its replica behind in 'provisioning'   *)
(* under a deployment that still is: nobody would ever finish it.          *)
DoneMeansDecided ==
    \A r \in ReplicaIds : jobStatus[r] = "done" =>
        ~(dep[r[1]] = "provisioning" /\ rep[r] = "provisioning")

(* 'deleted' is final for a deployment row, whoever writes after it.       *)
DeletedIsFinal ==
    [][\A d \in Deployments : dep[d] = "deleted" => dep'[d] = "deleted"]_vars

(* claimNext can get at the job: no storage row that it would try before   *)
(* this job's fails to decrypt.                                            *)
Claimable(r) ==
    \A s \in ReplicaIds : Older(s[1], r[1]) => s[1] \notin Unloadable

(* Every job handed to the queue is settled: crashes, timeouts and         *)
(* requeues included, it ends 'done' or 'failed', unless claimNext never   *)
(* gets at it.                                                             *)
JobsSettle ==
    \A r \in {s \in ReplicaIds : s[1] \notin Unloadable} :
        jobStatus[r] = "pending" /\ Claimable(r)
            ~> jobStatus[r] \in {"done", "failed"}

(* The queue keeps the promise of JobLease: no job is claimed more than    *)
(* MaxAttempts times, or again after it was marked done or failed.         *)
Lease == INSTANCE JobLease WITH
    Jobs  <- ReplicaIds,
    state <- [r \in ReplicaIds |->
                IF jobStatus[r] \in {"done", "failed"} THEN "settled"
                ELSE jobStatus[r]],
    takes <- attempts
LeaseSpec == Lease!Spec
=============================================================================
