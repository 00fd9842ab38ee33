------------------------------ MODULE Topology ------------------------------
(***************************************************************************)
(* What the parts of Synapse that touch a deployment share: its replica    *)
(* rows, the names of its Docker containers and the vocabulary of the      *)
(* status columns (migrations 000001 and 000004).                          *)
(***************************************************************************)
EXTENDS Naturals

CONSTANTS
    Deployments,     \* deployments that may be created
    HADeployments    \* those created with ha = true (two replicas)

ASSUME HAAssumption == HADeployments \subseteq Deployments

NumReplicas(d) == IF d \in HADeployments THEN 2 ELSE 1

(* deployment_replicas rows, named <<deployment, replica_index>>.  The     *)
(* create handler enqueues exactly one provision job per replica row, and  *)
(* nothing else enqueues one, so a replica id also names its job.          *)
ReplicaIds == {r \in Deployments \X {0, 1} : r[2] < NumReplicas(r[1])}

(* convex-<name>, or convex-<name>-<idx> for a replica of an HA deployment *)
ContainerName(d, i) == IF d \in HADeployments THEN <<d, i>> ELSE <<d>>
ContainerNames == {<<d>> : d \in Deployments} \cup (Deployments \X {0, 1})

DepStatus == {"absent", "provisioning", "running", "stopped", "failed",
              "deleted"}
RepStatus == {"absent", "provisioning", "running", "stopped", "failed"}

(* Docker's container states; "none" is no container of that name.         *)
ContStatus == {"none", "running", "exited", "dead"}
=============================================================================
