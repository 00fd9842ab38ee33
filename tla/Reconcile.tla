----------------------------- MODULE Reconcile -----------------------------
(***************************************************************************)
(* Reconcile apply: the handler that turns drift into an operation run     *)
(* with one step and one queued job per deployment                         *)
(* (internal/api/reconcile_apply.go), the workers that execute the jobs    *)
(* and keep the ledger (internal/provisioner/reconcile.go), and the reaper *)
(* that finishes what dead workers left (internal/provisioner/worker.go).  *)
(*                                                                         *)
(* Deployments here are managed, single-replica and desired running; the   *)
(* agent's last report may be as old as the host's heartbeat allows.  Each *)
(* statement and each Docker call is one step.                             *)
(***************************************************************************)
EXTENDS Naturals

CONSTANTS
    Deployments,   \* the deployments in the scope of an apply
    Workers,       \* provisioner processes
    Reaper,        \* the node holding the reaper's advisory lock
    MaxRuns,       \* bound: apply requests
    MaxAttempts,   \* Config.MaxAttempts
    MaxEvents,     \* bound: crashes, deadlines, lost writes and other events
    None           \* SQL NULL; no job

ASSUME RunsAssumption     == MaxRuns \in Nat /\ MaxAttempts \in Nat \ {0}
ASSUME ReaperAssumption   == Reaper \notin Workers
ASSUME NobodyAssumption   == None \notin Workers
ASSUME EventsAssumption   == MaxEvents \in Nat

Runs == 1 .. MaxRuns
Jobs == Runs \X Deployments     \* operation_steps, and the job of each
Procs == Workers \cup {Reaper}
Containers == {"none", "running", "exited"}
Outcomes == {"succeeded", "failed", "skipped", "no_op"}

VARIABLES
    dep, rep,        \* deployments.status and its replica row's status
    cont,            \* the Docker daemon's containers
    obs,             \* observed_states: the agent's last scan
    applyOn,         \* apply_settings.apply_enabled
    run, step,       \* operation_runs, operation_steps
    aged,            \* runs not updated for JobTimeout
    job, action, holder, attempts,   \* provisioning_jobs, kind reconcile
    pc, cur, late, outcome,          \* processes
    del,             \* delete requests, by deployment
    events           \* events so far

worldVars  == <<cont, obs, applyOn>>
ledgerVars == <<run, step, aged>>
jobVars    == <<job, action, holder, attempts>>
procVars   == <<pc, cur, late, outcome>>
envVars    == <<del, events>>
vars == <<dep, rep, worldVars, ledgerVars, jobVars, procVars, envVars>>

Live(j) == job[j] \in {"pending", "claimed"}

TypeOK ==
    /\ dep \in [Deployments ->
                 {"provisioning", "running", "stopped", "failed", "deleted"}]
    /\ rep \in [Deployments -> {"running", "stopped"}]
    /\ cont \in [Deployments -> Containers]
    /\ obs \in [Deployments -> Containers]
    /\ applyOn \in BOOLEAN
    /\ run \in [Runs -> {"none", "running", "succeeded", "failed"}]
    /\ step \in [Jobs -> {"none", "planned"} \cup Outcomes]
    /\ aged \subseteq Runs
    /\ job \in [Jobs -> {"none", "pending", "claimed", "done", "failed"}]
    /\ action \in [Jobs -> {"none", "create", "restart"}]
    /\ holder \in [Jobs -> Workers \cup {None}]
    /\ attempts \in [Jobs -> 0 .. MaxAttempts]
    /\ pc \in [Procs -> {"idle", "gate", "create", "provision", "mark",
                         "restart", "reflect", "job", "row", "step", "close",
                         "inflight", "count", "finalize"}]
    /\ cur \in [Procs -> Jobs \cup {None}]
    /\ late \in [Procs -> BOOLEAN]
    /\ outcome \in [Procs -> Outcomes \cup {"none"}]
    /\ del \in [Deployments -> {"no", "flip", "destroy", "mark"}]
    /\ events \in 0 .. MaxEvents

(* Some deployments run, some went down; the agent may be behind.          *)
Init ==
    /\ dep \in [Deployments -> {"running", "stopped"}]
    /\ rep = dep
    /\ cont \in [Deployments -> Containers]
    /\ obs \in [Deployments -> Containers]
    /\ applyOn = TRUE
    /\ run = [k \in Runs |-> "none"]
    /\ step = [j \in Jobs |-> "none"]
    /\ aged = {}
    /\ job = [j \in Jobs |-> "none"]
    /\ action = [j \in Jobs |-> "none"]
    /\ holder = [j \in Jobs |-> None]
    /\ attempts = [j \in Jobs |-> 0]
    /\ pc = [p \in Procs |-> "idle"]
    /\ cur = [p \in Procs |-> None]
    /\ late = [p \in Procs |-> FALSE]
    /\ outcome = [p \in Procs |-> "none"]
    /\ del = [d \in Deployments |-> "no"]
    /\ events = 0

(* What the environment does is counted.                                   *)
Event == events < MaxEvents /\ events' = events + 1

----------------------------------------------------------------------------
(* computeDrift and buildPlanSteps for one deployment on a trusted host.   *)
PlannedAction(d) ==
    CASE dep[d] = "deleted"  -> "investigate"
      [] dep[d] # "deleted" /\ obs[d] = "none"    -> "create"
      [] dep[d] # "deleted" /\ obs[d] = "exited"  -> "restart"
      [] dep[d] # "deleted" /\ obs[d] = "running" -> "no_op"

(* decideApplyStep's busy check, and the partial unique index behind it.   *)
Free(d) == \A j \in Jobs : j[2] = d => ~Live(j)

(* doApply: one transaction inserts the run, its steps and their jobs.     *)
(* `only` is the request's allow-list; a deployment left out of it stands  *)
(* for one that is busy with another kind of job too.  The gate and the    *)
(* drift are read shortly before; whatever changes in between is as if it  *)
(* changed right after, since the worker reads the gate and the row again. *)
Apply(k, only, trusted) ==
    LET queued == {d \in only : /\ trusted
                                /\ PlannedAction(d) \in {"create", "restart"}
                                /\ Free(d)}
        decide(d) == IF d \in queued THEN "planned"
                     ELSE IF trusted /\ PlannedAction(d) = "no_op" THEN "no_op"
                     ELSE "skipped"
    IN
    /\ run[k] = "none"
    /\ \A i \in Runs : i < k => run[i] # "none"
    /\ applyOn
    /\ run' = [run EXCEPT ![k] = IF queued = {} THEN "succeeded" ELSE "running"]
    /\ step' = [j \in Jobs |-> IF j[1] = k THEN decide(j[2]) ELSE step[j]]
    /\ job' = [j \in Jobs |-> IF j[1] = k /\ j[2] \in queued
                              THEN "pending" ELSE job[j]]
    /\ action' = [j \in Jobs |-> IF j[1] = k /\ j[2] \in queued
                                 THEN PlannedAction(j[2]) ELSE action[j]]
    /\ UNCHANGED <<dep, rep, worldVars, aged, holder, attempts, procVars, envVars>>

----------------------------------------------------------------------------
Goto(p, label) == pc' = [pc EXCEPT ![p] = label] /\ UNCHANGED <<cur, late, outcome>>

Finish(w, o) ==
    /\ pc' = [pc EXCEPT ![w] = "job"]
    /\ outcome' = [outcome EXCEPT ![w] = o]
    /\ UNCHANGED <<cur, late>>

Rest(p) ==
    /\ pc' = [pc EXCEPT ![p] = "idle"]
    /\ cur' = [cur EXCEPT ![p] = None]
    /\ late' = [late EXCEPT ![p] = FALSE]
    /\ outcome' = [outcome EXCEPT ![p] = "none"]

(* claimNext: the oldest pending job; the deployment's status is read in   *)
(* the claim, and a deleted one is skipped before anything else.           *)
ClaimNext(w, j) ==
    /\ pc[w] = "idle"
    /\ job[j] = "pending"
    /\ \A i \in Jobs : i[1] < j[1] => job[i] # "pending"
    /\ job' = [job EXCEPT ![j] = "claimed"]
    /\ holder' = [holder EXCEPT ![j] = w]
    /\ attempts' = [attempts EXCEPT ![j] = @ + 1]
    /\ cur' = [cur EXCEPT ![w] = j]
    /\ pc' = [pc EXCEPT ![w] = IF dep[j[2]] = "deleted" THEN "job" ELSE "gate"]
    /\ outcome' = [outcome EXCEPT ![w] =
                     IF dep[j[2]] = "deleted" THEN "skipped" ELSE "none"]
    /\ late' = [late EXCEPT ![w] = FALSE]
    /\ UNCHANGED <<dep, rep, worldVars, ledgerVars, action, envVars>>

(* applyEnabledNow: unreadable settings count as off.                      *)
Gate(w) ==
    /\ pc[w] = "gate"
    /\ \/ applyOn /\ ~late[w] /\ Goto(w, action[cur[w]])
       \/ Finish(w, "skipped")
    /\ UNCHANGED <<dep, rep, worldVars, ledgerVars, jobVars, envVars>>

(* Mutant: a deleted deployment is claimed for create like any other.      *)
ClaimCreateDeleted(w) ==
    LET d == cur[w][2] IN
    /\ pc[w] = "create" /\ ~late[w]
    /\ IF dep[d] # "provisioning"
       THEN dep' = [dep EXCEPT ![d] = "provisioning"] /\ Goto(w, "provision")
       ELSE Finish(w, "no_op") /\ UNCHANGED dep
    /\ UNCHANGED <<rep, worldVars, ledgerVars, jobVars, envVars>>

(* reconcileCreate: claim the row into 'provisioning' ...                  *)
ClaimCreate(w) ==
    LET d == cur[w][2] IN
    /\ pc[w] = "create" /\ ~late[w]
    /\ IF dep[d] \notin {"provisioning", "deleted"}
       THEN dep' = [dep EXCEPT ![d] = "provisioning"] /\ Goto(w, "provision")
       ELSE Finish(w, "no_op") /\ UNCHANGED dep
    /\ UNCHANGED <<rep, worldVars, ledgerVars, jobVars, envVars>>

(* ... build the container; Docker refuses a name that is taken ...        *)
Provision(w) ==
    LET d == cur[w][2] IN
    /\ pc[w] = "provision" /\ ~late[w]
    /\ cont[d] = "none"
    /\ cont' = [cont EXCEPT ![d] = "running"]
    /\ Goto(w, "mark")
    /\ UNCHANGED <<dep, rep, obs, applyOn, ledgerVars, jobVars, envVars>>

(* ... a failure cleans up unless the job's context is over ...            *)
ProvisionFails(w) ==
    LET d == cur[w][2] IN
    /\ pc[w] = "provision"
    /\ \E left \in IF late[w] /\ cont[d] = "none" THEN Containers ELSE {cont[d]} :
           cont' = [cont EXCEPT ![d] = left]
    /\ Finish(w, "failed")
    /\ UNCHANGED <<dep, rep, obs, applyOn, ledgerVars, jobVars, envVars>>

(* ... and markProvisionRunning, whose answer nobody looks at: a row that  *)
(* left 'provisioning' meanwhile is reported as a success all the same.    *)
(* The job has no replica_id, so the replica row is not written.           *)
MarkRunning(w) ==
    LET d == cur[w][2] IN
    /\ pc[w] = "mark" /\ ~late[w]
    /\ dep' = [dep EXCEPT ![d] = IF @ = "provisioning" THEN "running" ELSE @]
    /\ Finish(w, "succeeded")
    /\ UNCHANGED <<rep, worldVars, ledgerVars, jobVars, envVars>>

(* reconcileRestart: bounce the container, then the deployment row only.   *)
Restart(w) ==
    LET d == cur[w][2] IN
    /\ pc[w] = "restart" /\ ~late[w]
    /\ cont[d] # "none"
    /\ cont' = [cont EXCEPT ![d] = "running"]
    /\ Goto(w, "reflect")
    /\ UNCHANGED <<dep, rep, obs, applyOn, ledgerVars, jobVars, envVars>>

Reflect(w) ==
    LET d == cur[w][2] IN
    /\ pc[w] = "reflect" /\ ~late[w]
    /\ dep' = [dep EXCEPT ![d] = IF @ = "deleted" THEN @ ELSE "running"]
    /\ Finish(w, "succeeded")
    /\ UNCHANGED <<rep, worldVars, ledgerVars, jobVars, envVars>>

(* The claim, the row update or the restart fails, or time is up.          *)
ActionFails(w) ==
    /\ pc[w] \in {"create", "mark", "restart", "reflect"}
    /\ Finish(w, "failed")
    /\ UNCHANGED <<dep, rep, worldVars, ledgerVars, jobVars, envVars>>

----------------------------------------------------------------------------
(* The ledger, on contexts of their own: the job ...                       *)
MarkJob(w) ==
    /\ pc[w] = "job"
    /\ job' = [job EXCEPT ![cur[w]] =
                 IF outcome[w] = "failed" THEN "failed" ELSE "done"]
    /\ Goto(w, IF outcome[w] = "failed" THEN "row" ELSE "step")
    /\ UNCHANGED <<dep, rep, worldVars, ledgerVars, action, holder, attempts, envVars>>

(* ... of a failed job the deployment row ...                              *)
MarkRow(w) ==
    LET d == cur[w][2] IN
    /\ pc[w] = "row"
    /\ dep' = [dep EXCEPT ![d] = IF @ = "provisioning" THEN "failed" ELSE @]
    /\ Goto(w, "step")
    /\ UNCHANGED <<rep, worldVars, ledgerVars, jobVars, envVars>>

(* ... the step ...                                                        *)
WriteStep(w) ==
    /\ pc[w] = "step"
    /\ step' = [step EXCEPT ![cur[w]] = outcome[w]]
    /\ Goto(w, "inflight")
    /\ UNCHANGED <<dep, rep, worldVars, run, aged, jobVars, envVars>>

(* ... and the rollup: count the jobs in flight, count the failed steps,   *)
(* finalize a run that is still open.                                      *)
RunJobs(p) == {j \in Jobs : j[1] = cur[p][1]}

(* Mutant: the jobs still in flight are not waited for.                    *)
InflightIgnored(p) ==
    /\ pc[p] = "inflight"
    /\ Goto(p, "count")
    /\ UNCHANGED <<dep, rep, worldVars, ledgerVars, jobVars, envVars>>

Inflight(p) ==
    /\ pc[p] = "inflight"
    /\ IF \E j \in RunJobs(p) : Live(j) THEN Rest(p) ELSE Goto(p, "count")
    /\ UNCHANGED <<dep, rep, worldVars, ledgerVars, jobVars, envVars>>

Count(p) ==
    /\ pc[p] = "count"
    /\ pc' = [pc EXCEPT ![p] = "finalize"]
    /\ outcome' = [outcome EXCEPT ![p] =
                     IF \E j \in RunJobs(p) : step[j] = "failed"
                     THEN "failed" ELSE "succeeded"]
    /\ UNCHANGED <<dep, rep, worldVars, ledgerVars, jobVars, cur, late, envVars>>

Finalize(p) ==
    /\ pc[p] = "finalize"
    /\ run' = [run EXCEPT ![cur[p][1]] = IF @ = "running" THEN outcome[p] ELSE @]
    /\ Rest(p)
    /\ UNCHANGED <<dep, rep, worldVars, step, aged, jobVars, envVars>>

(* A ledger statement fails: logged, and the next one is tried; the reads  *)
(* and the last write end the rollup, which a crash does as well.          *)
LedgerWriteLost(w) ==
    /\ Event
    /\ \/ pc[w] = "job" /\ Goto(w, IF outcome[w] = "failed" THEN "row" ELSE "step")
       \/ pc[w] = "row" /\ Goto(w, "step")
       \/ pc[w] = "step" /\ Goto(w, "inflight")
    /\ UNCHANGED <<dep, rep, worldVars, ledgerVars, jobVars, del>>

Deadline(w) ==
    /\ Event
    /\ pc[w] # "idle" /\ ~late[w]
    /\ late' = [late EXCEPT ![w] = TRUE]
    /\ UNCHANGED <<dep, rep, worldVars, ledgerVars, jobVars, pc, cur, outcome, del>>

Crash(p) ==
    /\ Event
    /\ pc[p] # "idle"
    /\ Rest(p)
    /\ UNCHANGED <<dep, rep, worldVars, ledgerVars, jobVars, del>>

----------------------------------------------------------------------------
Stale(j) ==
    /\ job[j] = "claimed"
    /\ \A w \in Workers : holder[j] = w => cur[w] # j \/ late[w]

(* Mutant: jobs out of attempts are left claimed.                          *)
RequeueStaleNoGiveUp ==
    /\ \E j \in Jobs : Stale(j)
    /\ job' = [j \in Jobs |-> IF Stale(j) /\ attempts[j] < MaxAttempts
                              THEN "pending" ELSE job[j]]
    /\ holder' = [j \in Jobs |-> IF Stale(j) /\ attempts[j] < MaxAttempts
                                 THEN None ELSE holder[j]]
    /\ UNCHANGED <<dep, rep, worldVars, ledgerVars, action, attempts, procVars, envVars>>

(* requeueStale, from a boot or from the reaper's first pass.              *)
RequeueStale ==
    /\ \E j \in Jobs : Stale(j)
    /\ job' = [j \in Jobs |-> IF ~Stale(j) THEN job[j]
                              ELSE IF attempts[j] >= MaxAttempts THEN "failed"
                              ELSE "pending"]
    /\ holder' = [j \in Jobs |-> IF Stale(j) /\ attempts[j] < MaxAttempts
                                 THEN None ELSE holder[j]]
    /\ UNCHANGED <<dep, rep, worldVars, ledgerVars, action, attempts, procVars, envVars>>

(* The claim is old by the database's clock while its worker, whose own    *)
(* clock started later, still has time.                                    *)
RequeueEarly(j) ==
    /\ Event
    /\ job[j] = "claimed"
    /\ job' = [job EXCEPT ![j] = IF attempts[j] >= MaxAttempts THEN "failed" ELSE "pending"]
    /\ holder' = [holder EXCEPT ![j] = IF attempts[j] < MaxAttempts THEN None ELSE @]
    /\ UNCHANGED <<dep, rep, worldVars, ledgerVars, action, attempts, procVars, del>>

(* Mutant: only the rows whose last job failed.                            *)
StuckAfterFailure(d) ==
    /\ dep[d] = "provisioning"
    /\ Free(d)
    /\ \E j \in Jobs : j[2] = d /\ job[j] = "failed"

(* The second pass: rows in 'provisioning' without a live job whose        *)
(* last_deploy_at, stamped by ClaimCreate, is older than JobTimeout: a     *)
(* worker still building it is past its own deadline then.                 *)
Stuck(d) ==
    /\ dep[d] = "provisioning"
    /\ Free(d)
    /\ \A w \in Workers :
          pc[w] \in {"provision", "mark"} /\ cur[w][2] = d => late[w]

ReapStuckProvisioning ==
    /\ \E d \in Deployments : Stuck(d)
    /\ dep' = [d \in Deployments |-> IF Stuck(d) THEN "failed" ELSE dep[d]]
    /\ UNCHANGED <<rep, worldVars, ledgerVars, jobVars, procVars, envVars>>

(* The run has not been touched for JobTimeout.                            *)
Age(k) ==
    /\ run[k] = "running" /\ k \notin aged
    /\ aged' = aged \cup {k}
    /\ UNCHANGED <<dep, rep, worldVars, run, step, jobVars, procVars, envVars>>

Orphaned(k) ==
    /\ run[k] = "running" /\ k \in aged
    /\ \A j \in Jobs : j[1] = k => ~Live(j)

(* The third pass takes the orphaned runs one after the other: close the   *)
(* steps still planned, then roll up like a worker.                        *)
ReapOrphan(k) ==
    /\ pc[Reaper] = "idle"
    /\ Orphaned(k)
    /\ \E d \in Deployments : cur' = [cur EXCEPT ![Reaper] = <<k, d>>]
    /\ pc' = [pc EXCEPT ![Reaper] = "close"]
    /\ UNCHANGED <<dep, rep, worldVars, ledgerVars, jobVars, late, outcome, envVars>>

CloseSteps ==
    /\ pc[Reaper] = "close"
    /\ step' = [j \in Jobs |-> IF j \in RunJobs(Reaper) /\ step[j] = "planned"
                               THEN "failed" ELSE step[j]]
    /\ Goto(Reaper, "inflight")
    /\ UNCHANGED <<dep, rep, worldVars, run, aged, jobVars, envVars>>

----------------------------------------------------------------------------
(* Deletes (deployments.go), statement by statement.                       *)
DeleteBegin(d) ==
    /\ Event
    /\ del[d] = "no" /\ dep[d] # "deleted"
    /\ del' = [del EXCEPT ![d] = IF dep[d] = "provisioning" THEN "flip" ELSE "destroy"]
    /\ UNCHANGED <<dep, rep, worldVars, ledgerVars, jobVars, procVars>>

DeleteDestroy(d) ==
    /\ del[d] = "destroy"
    /\ cont' = [cont EXCEPT ![d] = "none"]
    /\ del' = [del EXCEPT ![d] = "mark"]
    /\ UNCHANGED <<dep, rep, obs, applyOn, ledgerVars, jobVars, procVars, events>>

DeleteMark(d) ==
    /\ del[d] \in {"flip", "mark"}
    /\ dep' = [dep EXCEPT ![d] = "deleted"]
    /\ del' = [del EXCEPT ![d] = "no"]
    /\ UNCHANGED <<rep, worldVars, ledgerVars, jobVars, procVars, events>>

(* A whole health sweep that finds the container down (HealthSweep).       *)
SweepDown(d) ==
    /\ Event
    /\ rep[d] = "running" /\ dep[d] # "deleted" /\ cont[d] # "running"
    /\ rep' = [rep EXCEPT ![d] = "stopped"]
    /\ dep' = [dep EXCEPT ![d] = IF @ = "failed" THEN @ ELSE "stopped"]
    /\ UNCHANGED <<worldVars, ledgerVars, jobVars, procVars, del>>

ContainerChanges(d) ==
    /\ Event
    /\ \E s \in Containers :
          /\ <<cont[d], s>> \in {<<"running", "exited">>, <<"running", "none">>,
                                 <<"exited", "running">>}
          /\ cont' = [cont EXCEPT ![d] = s]
    /\ UNCHANGED <<dep, rep, obs, applyOn, ledgerVars, jobVars, procVars, del>>

(* The agent's next scan replaces the observation of its host.             *)
AgentReports ==
    /\ obs # cont
    /\ obs' = cont
    /\ UNCHANGED <<dep, rep, cont, applyOn, ledgerVars, jobVars, procVars, envVars>>

(* The dashboard's kill switch.                                            *)
Toggle ==
    /\ Event
    /\ applyOn' = ~applyOn
    /\ UNCHANGED <<dep, rep, cont, obs, ledgerVars, jobVars, procVars, del>>

----------------------------------------------------------------------------
Rollup(p) == Inflight(p) \/ Count(p) \/ Finalize(p)

WorkerStep(w) ==
    \/ Gate(w)
    \/ ClaimCreate(w) \/ Provision(w) \/ ProvisionFails(w) \/ MarkRunning(w)
    \/ Restart(w) \/ Reflect(w) \/ ActionFails(w)
    \/ MarkJob(w) \/ MarkRow(w) \/ WriteStep(w)
    \/ Rollup(w)

ReaperStep == (\E k \in Runs : ReapOrphan(k)) \/ CloseSteps \/ Rollup(Reaper)

Environment ==
    \/ \E d \in Deployments :
          \/ DeleteBegin(d) \/ DeleteDestroy(d) \/ DeleteMark(d)
          \/ SweepDown(d) \/ ContainerChanges(d)
    \/ AgentReports
    \/ Toggle

Next ==
    \/ \E k \in Runs, only \in SUBSET Deployments, t \in BOOLEAN : Apply(k, only, t)
    \/ \E w \in Workers, j \in Jobs : ClaimNext(w, j)
    \/ \E w \in Workers : WorkerStep(w) \/ LedgerWriteLost(w) \/ Deadline(w)
    \/ \E p \in Procs : Crash(p)
    \/ RequeueStale
    \/ \E j \in Jobs : RequeueEarly(j)
    \/ ReapStuckProvisioning
    \/ \E k \in Runs : Age(k)
    \/ ReaperStep
    \/ Environment

Spec == Init /\ [][Next]_vars

(* Workers poll, jobs are bounded by their contexts, the reaper runs off a *)
(* ticker and time passes.  A crashed process comes back, and in the end   *)
(* one of its sweeps is not cut short.                                     *)
Fairness ==
    /\ \A w \in Workers :
          /\ WF_vars(WorkerStep(w))
          /\ WF_vars(\E j \in Jobs : ClaimNext(w, j))
    /\ WF_vars(RequeueStale) /\ WF_vars(ReapStuckProvisioning)
    /\ \A k \in Runs : WF_vars(Age(k))
    /\ WF_vars(ReaperStep)

FairSpec == Spec /\ Fairness

----------------------------------------------------------------------------
(* A run is closed only when none of its jobs can be claimed or is being   *)
(* worked on under a valid claim: jobs are never reopened behind a final   *)
(* status, whatever late workers, requeues and the reaper do.  Tables and  *)
(* processes are well formed: no job is claimed more often than allowed.   *)
FinalMeansSettled ==
    /\ TypeOK
    /\ \A k \in Runs : run[k] \in {"succeeded", "failed"} =>
          \A d \in Deployments : ~Live(<<k, d>>)

(* 'deleted' is final: no reconcile step revives a deleted deployment.     *)
DeletedIsFinal ==
    [][\A d \in Deployments : dep[d] = "deleted" => dep'[d] = "deleted"]_vars

(* Every run is closed in the end, by a worker or by the reaper, however   *)
(* its workers crash and whatever ledger statements are lost.              *)
RunsFinish ==
    \A k \in Runs : run[k] = "running" ~> run[k] \in {"succeeded", "failed"}

(* A deployment that reconcileCreate claimed leaves 'provisioning' again,  *)
(* whenever its worker dies: the retry finds it claimed, calls that a      *)
(* no_op and is done, and the reaper's second pass is what is left.        *)
CreatesFinish ==
    \A d \in Deployments : dep[d] = "provisioning" ~> dep[d] # "provisioning"
=============================================================================
