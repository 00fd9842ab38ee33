---------------------------- MODULE MCLifecycle ----------------------------
(* Lifecycle with the members of its sets as model values.                 *)
EXTENDS Lifecycle, TLC

CONSTANTS d1, d2, w1, q1, q2

(* The state every deployment is in once a worker provisioned it, and      *)
(* LifeSpec from there on: the runs about running deployments start here.  *)
Serving ==
    /\ dep = [d \in Deployments |-> "running"]
    /\ rep = [r \in ReplicaIds |-> "running"]
    /\ lastDeploy = Deployments
    /\ \E s \in [1 .. Cardinality(Deployments) -> Deployments] :
          /\ born = s
          /\ \A d \in Deployments : \E i \in DOMAIN s : s[i] = d
    /\ jobStatus = [r \in ReplicaIds |-> "done"]
    /\ claimedBy = [r \in ReplicaIds |-> w1]
    /\ attempts = [r \in ReplicaIds |-> 1]
    /\ pc = [w \in Workers |-> "idle"]
    /\ cur = [w \in Workers |-> None]
    /\ late = [w \in Workers |-> FALSE]
    /\ ripe = [w \in Workers |-> FALSE]
    /\ req = [q \in Requests |-> IdleRequest]
    /\ cont = [n \in ContainerNames |->
                 IF \E r \in ReplicaIds : n = ContainerName(r[1], r[2])
                 THEN "running" ELSE "none"]
    /\ reaper = "idle"
    /\ Health!SweepInit
    /\ steady = {}
ServingSpec == Serving /\ [][LifeNext]_lifeVars
ServingFairSpec == ServingSpec /\ LifeFairness
=============================================================================
