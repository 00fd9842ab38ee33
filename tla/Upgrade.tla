------------------------------- MODULE Upgrade -------------------------------
(***************************************************************************)
(* upgrade_to_ha: a single-replica deployment becomes a pair while it      *)
(* serves (api upgradeToHA, provisioner runUpgradeToHA), on the same queue *)
(* and against the same rows and containers as the backups, with deletes   *)
(* of the deployment in between.                                           *)
(*                                                                         *)
(* Ports are numbers.  The rows of other deployments hold some of them:    *)
(* LivePorts through a live row, HeldPorts through the row of a stopped    *)
(* second replica, which the worker's query does not look at but whose     *)
(* UNIQUE index does.                                                      *)
(***************************************************************************)
EXTENDS Backups

CONSTANTS
    Ports,       \* PortRangeMin .. PortRangeMax
    LivePorts,   \* in use by other deployments at first
    HeldPorts,   \* of stopped or failed second replicas of others
    MaxRetries   \* WithRetryOnUniqueViolation's attempts

ASSUME UpgradeAssumption ==
    /\ Ports \subseteq Nat /\ LivePorts \subseteq Ports /\ HeldPorts \subseteq Ports
    /\ MaxRetries \in Nat \ {0}

VARIABLES
    used,        \* ports of live rows of other deployments
    imported,    \* the pair's storage holds the old container's data
    torn         \* a delete has begun to tear down (history)

upVars == <<vars, used, imported, torn>>

UpInit == Init /\ used = LivePorts /\ imported = FALSE /\ torn = FALSE

(* upgradeToHA: the checks are made again under the row lock, and the lock *)
(* makes the look for an active job and the INSERT one step.               *)
UpgradeToHA(r, j) ==
    /\ At(r, "idle") /\ starts < MaxStarts
    /\ ~dep.ha /\ dep.status = "running"
    /\ \A i \in UpgradeJobs : jobs[i].status \notin {"pending", "claimed"}
    /\ jobs[j].status = "none"
    /\ jobs' = [jobs EXCEPT ![j].status = "pending"]
    /\ starts' = starts + 1
    /\ UNCHANGED <<dep, bk, cont, files, wk, sw, req, used, imported, torn>>

(* deleteDeployment loads the row, tears down the containers of the mode   *)
(* it saw, and marks the row deleted.                                      *)
BeginDelete(r) ==
    /\ dep.status = "running"
    /\ Start(r, [IdleRequest EXCEPT !.pc = "teardown", !.ha = dep.ha])
    /\ UNCHANGED <<rows, cont, files, wk, sw, used, imported, torn>>

Teardown(r) ==
    /\ At(r, "teardown") /\ Goto(r, "deleted")
    /\ cont' = cont \ EndpointURL(req[r].ha) /\ torn' = TRUE
    /\ UNCHANGED <<rows, files, wk, sw, used, imported>>

DeleteDeployment(r) ==
    /\ At(r, "deleted") /\ End(r)
    /\ dep' = [dep EXCEPT !.status = "deleted"]
    /\ UNCHANGED <<bk, jobs, cont, files, wk, sw, used, imported, torn>>

(* Another deployment takes a port, as api.allocatePorts would pick it,    *)
(* while an upgrade holds its own pick.                                    *)
OtherTakesPort ==
    LET free == Ports \ (used \cup HeldPorts)
    IN  /\ Cardinality(free) > 2 /\ \E w \in Workers : wk[w].ports # {}
        /\ used' = used \cup {CHOOSE p \in free : \A q \in free : p <= q}
    /\ UNCHANGED <<vars, imported, torn>>

----------------------------------------------------------------------------
(* runUpgradeToHA.                                                         *)
Working(w, label) == Doing(w, "upgrade", label)
Keep == UNCHANGED <<bk, files, used, torn, sw, req, starts>>
Move(w, q) == wk' = [wk EXCEPT ![w] = q]

(* ensureUpgradeable, at the start of every attempt of the job.            *)
EnsureUpgradeable(w) ==
    /\ Working(w, "start") /\ InTime(w)
    /\ Move(w, [wk[w] EXCEPT !.pc = IF ~dep.ha /\ dep.status = "running"
                                    THEN "ports" ELSE "failjob"])
    /\ Keep /\ UNCHANGED <<dep, jobs, cont, imported>>

Lowest(S, n) == {p \in S : Cardinality({q \in S : q < p}) < n}

(* allocatePorts: the two lowest that no live row has.                     *)
AllocatePorts(w) ==
    /\ Working(w, "ports") /\ InTime(w)
    /\ LET free == Ports \ used
       IN  IF Cardinality(free) >= 2
           THEN Move(w, [wk[w] EXCEPT !.pc = "provision", !.ports = Lowest(free, 2)])
           ELSE Move(w, [wk[w] EXCEPT !.pc = "cleanup"])
    /\ Keep /\ UNCHANGED <<dep, jobs, cont, imported>>

(* Mutant: a container of that name is taken for our own.                  *)
ProvisionReplicaReuse(w) ==
    /\ Working(w, "provision") /\ InTime(w)
    /\ LET i == Cardinality(wk[w].built)
       IN  /\ cont' = cont \cup {i}
           /\ Move(w, [wk[w] EXCEPT !.built = @ \cup {i},
                                    !.pc = IF i = 1 THEN "migrate" ELSE @])
    /\ Keep /\ UNCHANGED <<dep, jobs, imported>>

(* Provision: replica 0, then 1; Docker refuses a name that is taken.      *)
ProvisionReplica(w) ==
    /\ Working(w, "provision") /\ InTime(w)
    /\ LET i == Cardinality(wk[w].built)
       IN  IF i \in cont THEN Move(w, [wk[w] EXCEPT !.pc = "cleanup"]) /\ UNCHANGED cont
           ELSE /\ cont' = cont \cup {i}
                /\ Move(w, [wk[w] EXCEPT !.built = @ \cup {i},
                                         !.pc = IF i = 1 THEN "migrate" ELSE @])
    /\ Keep /\ UNCHANGED <<dep, jobs, imported>>

(* MigrateSnapshot: export from the old container, import into the pair.   *)
MigrateSnapshot(w) ==
    /\ Working(w, "migrate") /\ InTime(w)
    /\ IF -1 \in cont /\ cont \cap {0, 1} # {}
       THEN imported' = TRUE /\ Move(w, [wk[w] EXCEPT !.pc = "swap"])
       ELSE UNCHANGED imported /\ Move(w, [wk[w] EXCEPT !.pc = "cleanup"])
    /\ Keep /\ UNCHANGED <<dep, jobs, cont>>

(* What finishUpgradeSwap checks once it holds the row lock.               *)
Swappable == ~dep.ha /\ dep.status = "running"

(* The rows it inserts meet a port somebody has.                           *)
PortTaken(w) == wk[w].ports \cap (used \cup HeldPorts) # {}

(* finishUpgradeSwap: replica rows, deployment row and job in one          *)
(* transaction; a unique violation sends the whole attempt round again.    *)
FinishUpgradeSwap(w) ==
    /\ Working(w, "swap") /\ InTime(w)
    /\ \/ /\ Swappable /\ ~PortTaken(w)
          /\ dep' = [dep EXCEPT !.ha = TRUE, !.status = "running"]
          /\ Settle(wk[w].job, "done")
          /\ Move(w, [wk[w] EXCEPT !.pc = "stop"])
       \/ /\ Swappable /\ PortTaken(w)
          /\ Move(w, [wk[w] EXCEPT !.pc = IF wk[w].tries + 1 < MaxRetries THEN "retry" ELSE "cleanup",
                                   !.tries = @ + 1])
          /\ UNCHANGED <<dep, jobs>>
       \/ /\ ~Swappable /\ Move(w, [wk[w] EXCEPT !.pc = "cleanup"])
          /\ UNCHANGED <<dep, jobs>>
    /\ Keep /\ UNCHANGED <<cont, imported>>

(* cleanupUpgradeReplicas: this attempt's containers, on a context of its  *)
(* own; an error is only logged.  Then another try, or the job fails.      *)
CleanupUpgradeReplicas(w) ==
    /\ wk[w].pc \in {"cleanup", "retry"} /\ Working(w, wk[w].pc)
    /\ IF wk[w].built = {}
       THEN /\ Move(w, [wk[w] EXCEPT !.pc = IF @ = "retry" THEN "ports" ELSE "failjob"])
            /\ UNCHANGED <<cont, faults>>
       ELSE LET i == CHOOSE k \in wk[w].built : \A l \in wk[w].built : k <= l
            IN  /\ Move(w, [wk[w] EXCEPT !.built = @ \ {i}])
                /\ (cont' = cont \ {i} /\ UNCHANGED faults) \/ (cont' = cont /\ Fault)
    /\ Keep /\ UNCHANGED <<dep, jobs, imported>>

(* The old container stops, best-effort; it is not removed.                *)
StopOld(w) ==
    /\ Working(w, "stop")
    /\ Move(w, IdleWorker)
    /\ (cont' = cont \ {-1} /\ UNCHANGED faults) \/ (cont' = cont /\ Fault)
    /\ Keep /\ UNCHANGED <<dep, jobs, imported>>

UpgradeWork(w) ==
    \/ /\ \/ EnsureUpgradeable(w) \/ AllocatePorts(w) \/ ProvisionReplica(w)
          \/ MigrateSnapshot(w) \/ FinishUpgradeSwap(w)
       /\ UNCHANGED faults
    \/ CleanupUpgradeReplicas(w) \/ StopOld(w)

UpNext ==
    \/ BackupNext /\ UNCHANGED <<used, imported, torn>>
    \/ \E w \in Workers : UpgradeWork(w)
    \/ /\ \E r \in Requests : \/ \E j \in UpgradeJobs : UpgradeToHA(r, j)
                              \/ BeginDelete(r) \/ Teardown(r) \/ DeleteDeployment(r)
       /\ UNCHANGED faults
    \/ OtherTakesPort

UpSpec == UpInit /\ [][UpNext]_upVars

----------------------------------------------------------------------------
(* The old container keeps serving until the pair has its data: whatever   *)
(* attempts overlap, time out, clean up or retry, a running deployment     *)
(* that nobody tears down has what its row points the proxy at, and a     *)
(* pair is never put in service over empty storage.                        *)
ServesThroughout ==
    /\ dep.ha => imported
    /\ ~torn => EndpointURL(dep.ha) \subseteq cont
=============================================================================
