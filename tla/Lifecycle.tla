----------------------------- MODULE Lifecycle -----------------------------
(***************************************************************************)
(* A deployment from its creation to its deletion: the provisioning path   *)
(* (Provisioning) and the health sweep (HealthSweep) over the same rows    *)
(* and the same Docker daemon, whose containers die and come back by       *)
(* themselves.                                                             *)
(***************************************************************************)
EXTENDS Provisioning

CONSTANTS
    RemoteDeployments,   \* single-replica deployments on a remote host
    AutoRestart,         \* health worker's Config.AutoRestart
    SweepFaults          \* whether sweeps may die or lose a statement

ASSUME RemoteAssumption == RemoteDeployments \subseteq Deployments \ HADeployments
ASSUME FlagAssumption   == AutoRestart \in BOOLEAN /\ SweepFaults \in BOOLEAN

VARIABLES sweep, todo, item, target, touched,
          steady   \* replicas up since the sweep listed them (history)

Health == INSTANCE HealthSweep WITH NoTarget <- None

sweepVars == <<sweep, todo, item, target, touched>>
lifeVars == <<vars, sweepVars, steady>>

LifeInit == Init /\ Health!SweepInit /\ steady = {}

(* What the provisioning path keeps to itself.                             *)
notShared == <<lastDeploy, born, jobVars, workerVars, req, reaper>>

Up(r) == cont[ContainerName(r[1], r[2])] = "running"

Steady(list) ==
    steady' = {r \in IF list THEN todo' ELSE steady : Up(r) /\ Up(r)'}

(* A step of the provisioning path leaves the sweep where it is.           *)
BesideSweep == UNCHANGED sweepVars /\ Steady(FALSE)

ProvisioningStep == Next /\ BesideSweep

Listing == Health!List /\ UNCHANGED notShared /\ Steady(TRUE)

Sweeping ==
    /\ \/ \E r \in ReplicaIds : Health!Look(r) \/ Health!LookFails(r)
       \/ Health!UpdateReplica
       \/ Health!RestartReplica
       \/ Health!FollowRestart
       \/ \E d \in Deployments : Health!Aggregate(d)
       \/ Health!WriteStatus
       \/ Health!EndSweep
    /\ UNCHANGED notShared
    /\ Steady(FALSE)

SweepFault ==
    /\ SweepFaults
    /\ Health!StatementFails \/ Health!SweepDies
    /\ UNCHANGED notShared
    /\ Steady(FALSE)

(* Outside Synapse a container crashes, is killed or removed by hand, or   *)
(* an exited one is started again by its restart policy.                   *)
ContainerChanges(n) ==
    /\ \/ /\ cont[n] = "running"
          /\ \E s \in {"none", "exited", "dead"} : cont' = [cont EXCEPT ![n] = s]
       \/ /\ cont[n] = "exited"
          /\ cont' = [cont EXCEPT ![n] = "running"]
    /\ UNCHANGED <<dep, rep, notShared, sweepVars>>
    /\ Steady(FALSE)

LifeNext ==
    \/ ProvisioningStep
    \/ Listing
    \/ Sweeping
    \/ SweepFault
    \/ \E n \in ContainerNames : ContainerChanges(n)

LifeSpec == LifeInit /\ [][LifeNext]_lifeVars

(* The sweep runs off a ticker, and a daemon, or a row, that it asks for   *)
(* again and again answers now and then; requests finish, and the queue's  *)
(* own fairness is that of Provisioning.                                   *)
LifeFairness ==
    /\ WF_lifeVars(Listing)
    /\ WF_lifeVars(Sweeping)
    /\ \A r \in ReplicaIds :
          /\ SF_lifeVars(Health!Look(r) /\ UNCHANGED notShared /\ Steady(FALSE))
          /\ SF_lifeVars(item = r /\ Health!UpdateReplica /\ UNCHANGED notShared
                         /\ Steady(FALSE))
    /\ \A q \in Requests : WF_lifeVars(RequestStep(q) /\ BesideSweep)
    /\ \A w \in Workers :
          /\ WF_lifeVars(WorkerStep(w) /\ BesideSweep)
          /\ WF_lifeVars((\E r \in ReplicaIds : ClaimNext(w, r)) /\ BesideSweep)
    /\ WF_lifeVars(ReapRequeue /\ BesideSweep)
    /\ WF_lifeVars(ReapStuckProvisioning /\ BesideSweep)

LifeFairSpec == LifeSpec /\ LifeFairness

----------------------------------------------------------------------------
(* A sweep takes a deployment down, and pages its owners, only when none   *)
(* of its replicas that were listed as running has been up all along: a    *)
(* healthy replica keeps its deployment 'running' whatever its sibling,    *)
(* the API and the provisioner do during the sweep.                        *)
DownIsReal ==
    [][\A d \in Deployments :
          Health!Pages(d) /\ dep'[d] # dep[d] =>
              \A r \in steady : r[1] # d]_lifeVars

(* A 'failed' deployment leaves that status by an operator's request only. *)
FailedUntilOperator ==
    [][\A d \in Deployments :
          dep[d] = "failed" /\ dep'[d] # "failed" =>
              \E q \in Requests : req[q].dep = d /\ req'[q] # req[q]]_lifeVars

(* A replica shown as 'running' whose container is down does not stay so:  *)
(* whatever sweeps fail or die half way, one of them reaches its row,      *)
(* unless the container comes back or the deployment is deleted first.     *)
DownReplicaIsSeen ==
    \A r \in ReplicaIds :
        rep[r] = "running" /\ ~Up(r) ~>
            rep[r] # "running" \/ Up(r) \/ dep[r[1]] = "deleted"
=============================================================================
