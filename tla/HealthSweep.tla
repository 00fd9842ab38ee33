---------------------------- MODULE HealthSweep ----------------------------
(***************************************************************************)
(* The health worker (internal/health/worker.go): a timer-driven sweep,    *)
(* one node at a time under a Postgres advisory lock, that compares the    *)
(* replica rows with Docker and rolls them up into deployments.status.     *)
(* Every statement and every Docker call is one step; the API handlers and *)
(* the provisioner run between them.  The rows and the containers belong   *)
(* to the module that instantiates this one.                               *)
(***************************************************************************)
EXTENDS Topology

CONSTANTS
    RemoteDeployments,   \* deployments whose host is a remote VPS
    AutoRestart,         \* Config.AutoRestart
    NoTarget             \* no replica, no deployment

VARIABLES
    dep, rep, cont,   \* the shared rows and containers
    sweep,            \* where the sweep is
    todo,             \* replicas listed and not yet looked at
    item,             \* the replica or the deployment being handled
    target,           \* status about to be written
    touched           \* deploymentsTouched

SweepInit ==
    /\ sweep = "idle"
    /\ todo = {}
    /\ item = NoTarget
    /\ target = ""
    /\ touched = {}

(* Mutant: a container that is gone is taken for one about to start.       *)
ClassifyPatient(s) ==
    CASE s = "exited" -> "stopped"
      [] s = "dead"   -> "failed"
      [] OTHER        -> ""

(* classify: Docker's word for a container to ours; "" leaves the row.     *)
Classify(s) ==
    CASE s \in {"none", "exited"} -> "stopped"
      [] s = "dead"               -> "failed"
      [] OTHER                    -> ""

(* The list of the sweep: running replicas of deployments not deleted.     *)
List ==
    /\ sweep = "idle"
    /\ todo' = {r \in ReplicaIds : rep[r] = "running" /\ dep[r[1]] # "deleted"}
    /\ sweep' = "items"
    /\ touched' = {}
    /\ UNCHANGED <<dep, rep, cont, item, target>>

(* Back to the list: the row in hand is put down.                          *)
Resume == sweep' = "items" /\ item' = NoTarget /\ target' = ""

(* Mutant: every replica is judged by this node's Docker daemon, which has *)
(* no container of a remote deployment.                                    *)
DockerStatusLocal(r) ==
    IF r[1] \in RemoteDeployments THEN "none" ELSE cont[ContainerName(r[1], r[2])]

(* Status over the daemon that owns the container: the local one, or the   *)
(* remote host's over SSH.                                                 *)
DockerStatus(r) == cont[ContainerName(r[1], r[2])]

Look(r) ==
    /\ sweep = "items"
    /\ r \in todo
    /\ todo' = todo \ {r}
    /\ \/ /\ Classify(DockerStatus(r)) # ""
          /\ item' = r
          /\ target' = Classify(DockerStatus(r))
          /\ sweep' = "update"
       \/ /\ Classify(DockerStatus(r)) = ""
          /\ Resume
    /\ UNCHANGED <<dep, rep, cont, touched>>

(* The status call fails, or remote hosts are disabled in this process.    *)
LookFails(r) ==
    /\ sweep = "items"
    /\ r \in todo
    /\ todo' = todo \ {r}
    /\ UNCHANGED <<dep, rep, cont, sweep, item, target, touched>>

UpdateReplica ==
    /\ sweep = "update"
    /\ \/ /\ rep[item] = "running"
          /\ rep' = [rep EXCEPT ![item] = target]
          /\ touched' = touched \cup {item[1]}
          /\ IF AutoRestart /\ target = "stopped"
             THEN sweep' = "restart" /\ target' = "" /\ UNCHANGED item
             ELSE Resume
       \/ /\ rep[item] # "running"
          /\ Resume
          /\ UNCHANGED <<rep, touched>>
    /\ UNCHANGED <<dep, cont, todo>>

(* tryRestartReplica: one shot.                                            *)
RestartReplica ==
    LET n == ContainerName(item[1], item[2]) IN
    /\ sweep = "restart"
    /\ \/ /\ cont[n] \in {"running", "exited"}
          /\ cont' = [cont EXCEPT ![n] = "running"]
          /\ sweep' = "up"
          /\ UNCHANGED <<item, target>>
       \/ /\ cont[n] = "none"
          /\ sweep' = "gone"
          /\ UNCHANGED <<cont, item, target>>
       \/ /\ Resume               \* any other error: logged
          /\ UNCHANGED cont
    /\ UNCHANGED <<dep, rep, todo, touched>>

(* The row follows the restart, unless somebody moved it meanwhile.        *)
FollowRestart ==
    /\ sweep \in {"up", "gone"}
    /\ rep' = [rep EXCEPT ![item] =
                 IF @ # "stopped" THEN @
                 ELSE IF sweep = "up" THEN "running" ELSE "failed"]
    /\ Resume
    /\ UNCHANGED <<dep, cont, todo, touched>>

Rows(d) == {r \in ReplicaIds : r[1] = d}

(* Mutant: one failed replica is enough to call the deployment failed.     *)
RollUpWorstFirst(d) ==
    IF \E r \in Rows(d) : rep[r] = "failed" THEN "failed"
    ELSE IF \E r \in Rows(d) : rep[r] = "running" THEN "running"
    ELSE "stopped"

(* recomputeDeploymentStatus' rules.                                       *)
RollUp(d) ==
    IF \E r \in Rows(d) : rep[r] = "running" THEN "running"
    ELSE IF \E r \in Rows(d) : rep[r] = "failed" THEN "failed"
    ELSE "stopped"

(* The aggregate is one SELECT ...                                         *)
Aggregate(d) ==
    /\ sweep = "items"
    /\ todo = {}
    /\ d \in touched
    /\ touched' = touched \ {d}
    /\ item' = d
    /\ target' = RollUp(d)
    /\ sweep' = "write"
    /\ UNCHANGED <<dep, rep, cont, todo>>

(* Mutant: only the deleted rows are protected.                            *)
WriteStatusOverFailed ==
    /\ sweep = "write"
    /\ dep' = [dep EXCEPT ![item] = IF @ = "deleted" THEN @ ELSE target]
    /\ Resume
    /\ UNCHANGED <<rep, cont, todo, touched>>

(* ... and its verdict a later UPDATE.                                     *)
WriteStatus ==
    /\ sweep = "write"
    /\ dep' = [dep EXCEPT ![item] =
                 IF @ \in {"deleted", "failed"} THEN @ ELSE target]
    /\ Resume
    /\ UNCHANGED <<rep, cont, todo, touched>>

(* A statement fails: logged, on to the next row.                          *)
StatementFails ==
    /\ sweep \in {"update", "up", "gone", "write"}
    /\ Resume
    /\ UNCHANGED <<dep, rep, cont, todo, touched>>

EndSweep ==
    /\ sweep = "items"
    /\ todo = {}
    /\ touched = {}
    /\ sweep' = "idle"
    /\ UNCHANGED <<dep, rep, cont, todo, item, target, touched>>

(* The node that sweeps dies; its advisory lock goes with its session.     *)
SweepDies ==
    /\ sweep # "idle"
    /\ sweep' = "idle"
    /\ todo' = {}
    /\ touched' = {}
    /\ item' = NoTarget
    /\ target' = ""
    /\ UNCHANGED <<dep, rep, cont>>

(* The deployment-down page goes out with the write that takes the row     *)
(* down, and only then.                                                    *)
Pages(d) ==
    /\ sweep = "write" /\ item = d
    /\ dep[d] \notin {"deleted", "failed"}
    /\ target \in {"stopped", "failed"} /\ target # dep[d]
=============================================================================
