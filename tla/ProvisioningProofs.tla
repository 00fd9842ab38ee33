------------------------ MODULE ProvisioningProofs ------------------------
(***************************************************************************)
(* TLAPS proofs of the safety properties of Provisioning, and of           *)
(* Lifecycle, which composes it with the health sweep, for every set of    *)
(* deployments, workers and requests and every attempt cap.                *)
(*                                                                         *)
(* The invariants of the runs are not inductive; IInv conjoins what they   *)
(* need: JobInv (attempts are counted from the row's creation) and RowInv  *)
(* (what the position of a request or a worker says about the rows it will *)
(* write).  LifeInv is IInv without OneBuilder, since an operator may      *)
(* remove a container by hand there, and with what a sweep knows of the    *)
(* replicas it listed (SweepInv, SteadyInv).                               *)
(***************************************************************************)
EXTENDS Lifecycle, TLAPS

Busy(w) == pc[w] # "idle"

JobInv ==
    /\ AttemptsLeft
    /\ \A r \in ReplicaIds :
          jobStatus[r] # "absent" \/ attempts[r] > 0 => dep[r[1]] # "absent"
    /\ \A w \in Workers : Busy(w) => dep[cur[w][1]] # "absent"
    /\ \A w \in Workers : Busy(w) => attempts[cur[w]] > 0

RowInv ==
    /\ \A r \in ReplicaIds :
          /\ dep[r[1]] = "provisioning" => rep[r] = "provisioning"
          /\ dep[r[1]] = "absent" => rep[r] = "absent"
    /\ \A q \in Requests :
          /\ req[q].pc \notin {"idle", "flip"} =>
                dep[req[q].dep] \notin {"absent", "provisioning"}
          /\ req[q].pc = "flip" => dep[req[q].dep] # "absent"
          /\ req[q].pc = "free" => dep[req[q].dep] = "deleted"
    /\ \A w \in Workers : pc[w] \in {"destroy", "done"} =>
          dep[cur[w][1]] # "provisioning"

IInv ==
    /\ TypeOK
    /\ JobInv
    /\ RowInv
    /\ OneBuilder
    /\ DoneMeansDecided

(* The replica rows of a deployment, and the shape of their names.         *)
LEMMA ReplicaIdShape ==
    /\ \A r \in ReplicaIds : r[1] \in Deployments /\ r = <<r[1], r[2]>>
    /\ \A d \in Deployments : <<d, 0>> \in ReplicaIds
    /\ \A r \in ReplicaIds : ContainerName(r[1], r[2]) \in ContainerNames
  BY DEF ReplicaIds, NumReplicas, ContainerName, ContainerNames

(* A request that moves on to its next replica stays well formed.          *)
LEMMA NextReplicaType ==
    ASSUME TypeOK, NEW q \in Requests, NEW step \in RequestPc,
           req[q].pc # "idle", NextReplicaOr(q, step)
    PROVE  /\ req' \in [Requests -> [pc : RequestPc, dep : Deployments \cup {None},
                                     idx : {0, 1}, force : BOOLEAN]]
           /\ \A p \in Requests : req'[p].pc # "idle" => req'[p].dep \in Deployments
<1>1. /\ req[q] \in [pc : RequestPc, dep : Deployments \cup {None},
                     idx : {0, 1}, force : BOOLEAN]
      /\ req[q].dep \in Deployments
  BY DEF TypeOK
<1>2. At(q, step, 0) \in [pc : RequestPc, dep : Deployments \cup {None},
                         idx : {0, 1}, force : BOOLEAN]
  BY <1>1 DEF At
<1>3. ASSUME req[q].idx + 1 < NumReplicas(req[q].dep)
      PROVE  At(q, req[q].pc, req[q].idx + 1) \in
                [pc : RequestPc, dep : Deployments \cup {None},
                 idx : {0, 1}, force : BOOLEAN]
  BY <1>1, <1>3 DEF At, NumReplicas
<1>4. At(q, step, 0).dep \in Deployments
      /\ At(q, req[q].pc, req[q].idx + 1).dep \in Deployments
  BY <1>1 DEF At
<1>. QED
  BY <1>2, <1>3, <1>4 DEF NextReplicaOr, TypeOK

(* requeueStale gives back exactly the stale claims.                       *)
LEMMA RequeueLease ==
    ASSUME TypeOK, RequeueStale
    PROVE  [Lease!Next]_Lease!leaseVars
<1>. PICK js \in SUBSET ReplicaIds : js = {r \in ReplicaIds : Stale(r)}
  OBVIOUS
<1>1. Lease!GiveBack(js)
  BY AttemptAssumption DEF RequeueStale, Stale, Lease!GiveBack, TypeOK
<1>. QED
  BY <1>1 DEF Lease!Next

LEMMA ContainerNameType ==
    ASSUME NEW d \in Deployments, NEW i \in {0, 1}
    PROVE  /\ ContainerName(d, i) \in ContainerNames
           /\ <<d>> \in ContainerNames
  BY DEF ContainerName, ContainerNames

(* Every step keeps the variables in their types.                          *)
LEMMA NextType == ASSUME TypeOK, JobInv, [Next]_vars PROVE TypeOK'
<1>. USE AttemptAssumption, NoneAssumption, ReplicaIdShape
<1>1. ASSUME NEW d \in Deployments, CreateDeployment(d)
      PROVE  TypeOK'
  BY <1>1 DEF CreateDeployment, TypeOK, rowVars, jobVars, workerVars, DepStatus, RepStatus, ContStatus, JobStatus, WorkerPc,
     RequestPc, IdleRequest, Goto, At, SetRequest, EndRequest
<1>2. ASSUME NEW q \in Requests, NEW d \in Deployments, NEW f \in BOOLEAN, DeleteBegin(q, d, f)
      PROVE  TypeOK'
  BY <1>2 DEF DeleteBegin, TypeOK, rowVars, jobVars, workerVars,
     DepStatus, RepStatus, ContStatus, JobStatus, WorkerPc, RequestPc,
     IdleRequest, Goto, At, SetRequest, EndRequest
<1>3. ASSUME NEW q \in Requests, NEW d \in Deployments, RestartBegin(q, d)
      PROVE  TypeOK'
  BY <1>3 DEF RestartBegin, TypeOK, rowVars, jobVars, workerVars,
     DepStatus, RepStatus, ContStatus, JobStatus, WorkerPc, RequestPc,
     IdleRequest, Goto, At, SetRequest, EndRequest
<1>4. ASSUME NEW q \in Requests, DeleteFlip(q)
      PROVE  TypeOK'
  BY <1>4 DEF DeleteFlip, TypeOK, rowVars, jobVars, workerVars,
     DepStatus, RepStatus, ContStatus, JobStatus, WorkerPc, RequestPc,
     IdleRequest, Goto, At, SetRequest, EndRequest
<1>5. ASSUME NEW q \in Requests, DeleteDestroy(q)
      PROVE  TypeOK'
  BY <1>5, ContainerNameType, NextReplicaType DEF DeleteDestroy, TypeOK,
     rowVars, jobVars, workerVars, DepStatus, RepStatus,
     ContStatus, JobStatus, WorkerPc, RequestPc, IdleRequest, Goto, At,
     SetRequest, EndRequest
<1>6. ASSUME NEW q \in Requests, DeleteDestroyFails(q)
      PROVE  TypeOK'
  <2>. DEFINE n == ContainerName(req[q].dep, req[q].idx)
  <2>1. req[q].dep \in Deployments /\ req[q].idx \in {0, 1} /\ n \in ContainerNames
    BY <1>6, ContainerNameType DEF DeleteDestroyFails, TypeOK
  <2>2. cont' \in [ContainerNames -> ContStatus]
    BY <1>6, <2>1 DEF DeleteDestroyFails, TypeOK, ContStatus
  <2>3. CASE req[q].force
    BY <1>6, <2>1, <2>2, <2>3, NextReplicaType
    DEF DeleteDestroyFails, TypeOK, RequestPc, rowVars, jobVars, workerVars
  <2>4. CASE ~req[q].force
    <3>1. /\ req' = [req EXCEPT ![q] = IdleRequest]
          /\ UNCHANGED <<rowVars, jobVars, workerVars, reaper>>
      BY <1>6, <2>4 DEF DeleteDestroyFails, EndRequest
    <3>. QED
      BY <2>2, <3>1 DEF TypeOK, RequestPc, IdleRequest, rowVars, jobVars,
         workerVars
  <2>. QED
    BY <2>3, <2>4
<1>7. ASSUME NEW q \in Requests, DeleteMark(q)
      PROVE  TypeOK'
  BY <1>7 DEF DeleteMark, TypeOK, rowVars, jobVars, workerVars,
     DepStatus, RepStatus, ContStatus, JobStatus, WorkerPc, RequestPc,
     IdleRequest, Goto, At, SetRequest, EndRequest
<1>8. ASSUME NEW q \in Requests, DeleteFree(q)
      PROVE  TypeOK'
  BY <1>8 DEF DeleteFree, TypeOK, rowVars, jobVars, workerVars,
     DepStatus, RepStatus, ContStatus, JobStatus, WorkerPc, RequestPc,
     IdleRequest, Goto, At, SetRequest, EndRequest
<1>9. ASSUME NEW q \in Requests, RestartContainer(q)
      PROVE  TypeOK'
  BY <1>9, ContainerNameType, NextReplicaType DEF RestartContainer, TypeOK,
     rowVars, jobVars, workerVars, DepStatus, RepStatus,
     ContStatus, JobStatus, WorkerPc, RequestPc, IdleRequest, Goto, At,
     SetRequest, EndRequest
<1>10. ASSUME NEW q \in Requests, RestartReplicaRows(q)
      PROVE  TypeOK'
  BY <1>10 DEF RestartReplicaRows, TypeOK, rowVars, jobVars, workerVars, DepStatus, RepStatus, ContStatus, JobStatus, WorkerPc,
     RequestPc, IdleRequest, Goto, At, SetRequest, EndRequest
<1>11. ASSUME NEW q \in Requests, RestartReplicaRowsFail(q)
      PROVE  TypeOK'
  BY <1>11 DEF RestartReplicaRowsFail, TypeOK, rowVars, jobVars, workerVars, DepStatus, RepStatus, ContStatus, JobStatus, WorkerPc,
     RequestPc, IdleRequest, Goto, At, SetRequest, EndRequest
<1>12. ASSUME NEW q \in Requests, RestartRow(q)
      PROVE  TypeOK'
  BY <1>12 DEF RestartRow, TypeOK, rowVars, jobVars, workerVars,
     DepStatus, RepStatus, ContStatus, JobStatus, WorkerPc, RequestPc,
     IdleRequest, Goto, At, SetRequest, EndRequest
<1>13. ASSUME NEW q \in Requests, RequestAbort(q)
      PROVE  TypeOK'
  BY <1>13 DEF RequestAbort, TypeOK, rowVars, jobVars, workerVars,
     DepStatus, RepStatus, ContStatus, JobStatus, WorkerPc, RequestPc,
     IdleRequest, Goto, At, SetRequest, EndRequest
<1>14. ASSUME NEW w \in Workers, NEW r \in ReplicaIds, ClaimNext(w, r)
      PROVE  TypeOK'
  BY <1>14 DEF ClaimNext, TypeOK, rowVars, jobVars, workerVars,
     DepStatus, RepStatus, ContStatus, JobStatus, WorkerPc, RequestPc,
     IdleRequest, Goto, At, SetRequest, EndRequest, JobInv, AttemptsLeft
<1>15. ASSUME NEW w \in Workers, PreCheck(w)
      PROVE  TypeOK'
  BY <1>15 DEF PreCheck, TypeOK, rowVars, jobVars, workerVars,
     DepStatus, RepStatus, ContStatus, JobStatus, WorkerPc, RequestPc,
     IdleRequest, Goto, At, SetRequest, EndRequest
<1>16. ASSUME NEW w \in Workers, Provision(w)
      PROVE  TypeOK'
  BY <1>16 DEF Provision, TypeOK, rowVars, jobVars, workerVars,
     DepStatus, RepStatus, ContStatus, JobStatus, WorkerPc, RequestPc,
     IdleRequest, Goto, At, SetRequest, EndRequest, Built
<1>17. ASSUME NEW w \in Workers, ProvisionFails(w)
      PROVE  TypeOK'
  BY <1>17 DEF ProvisionFails, TypeOK, rowVars, jobVars, workerVars, DepStatus, RepStatus, ContStatus, JobStatus, WorkerPc,
     RequestPc, IdleRequest, Goto, At, SetRequest, EndRequest, Built
<1>18. ASSUME NEW w \in Workers, MarkProvisionRunning(w)
      PROVE  TypeOK'
  <2>. DEFINE r == cur[w]
              repUp == [rep EXCEPT ![r] = IF @ = "provisioning" THEN "running" ELSE @]
  <2>1. r \in ReplicaIds /\ r[1] \in Deployments
    BY <1>18 DEF MarkProvisionRunning, TypeOK
  <2>2. repUp \in [ReplicaIds -> RepStatus]
    BY <2>1 DEF TypeOK, RepStatus
  <2>3. /\ dep' \in [Deployments -> DepStatus]
        /\ rep' \in [ReplicaIds -> RepStatus]
        /\ lastDeploy' \subseteq Deployments
    BY <1>18, <2>1, <2>2 DEF MarkProvisionRunning, TypeOK, DepStatus
  <2>4. /\ pc' \in [Workers -> WorkerPc]
        /\ \A v \in Workers : pc'[v] # "idle" => cur[v] \in ReplicaIds
        /\ UNCHANGED <<cur, late, ripe, born, jobVars, req, cont, reaper>>
    BY <1>18 DEF MarkProvisionRunning, TypeOK, WorkerPc, Goto
  <2>. QED
    BY <2>3, <2>4 DEF TypeOK, jobVars
<1>19. ASSUME NEW w \in Workers, MarkProvisionRunningFails(w)
      PROVE  TypeOK'
  BY <1>19 DEF MarkProvisionRunningFails, TypeOK, rowVars, jobVars,
     workerVars, DepStatus, RepStatus, ContStatus, JobStatus,
     WorkerPc, RequestPc, IdleRequest, Goto, At, SetRequest, EndRequest
<1>20. ASSUME NEW w \in Workers, CleanupDestroy(w)
      PROVE  TypeOK'
  BY <1>20, ContainerNameType DEF CleanupDestroy, TypeOK, rowVars, jobVars,
     workerVars, DepStatus, RepStatus, ContStatus, JobStatus,
     WorkerPc, RequestPc, IdleRequest, Goto, At, SetRequest, EndRequest
<1>21. ASSUME NEW w \in Workers, CleanupDestroyFails(w)
      PROVE  TypeOK'
  BY <1>21 DEF CleanupDestroyFails, TypeOK, rowVars, jobVars, workerVars, DepStatus, RepStatus, ContStatus, JobStatus, WorkerPc,
     RequestPc, IdleRequest, Goto, At, SetRequest, EndRequest
<1>22. ASSUME NEW w \in Workers, MarkDone(w)
      PROVE  TypeOK'
  BY <1>22 DEF MarkDone, TypeOK, rowVars, jobVars, workerVars,
     DepStatus, RepStatus, ContStatus, JobStatus, WorkerPc, RequestPc,
     IdleRequest, Goto, At, SetRequest, EndRequest, StopWorking
<1>23. ASSUME NEW w \in Workers, MarkJobFailed(w)
      PROVE  TypeOK'
  BY <1>23 DEF MarkJobFailed, TypeOK, rowVars, jobVars, workerVars,
     DepStatus, RepStatus, ContStatus, JobStatus, WorkerPc, RequestPc,
     IdleRequest, Goto, At, SetRequest, EndRequest
<1>24. ASSUME NEW w \in Workers, MarkJobFailedLost(w)
      PROVE  TypeOK'
  BY <1>24 DEF MarkJobFailedLost, TypeOK, rowVars, jobVars, workerVars, DepStatus, RepStatus, ContStatus, JobStatus, WorkerPc,
     RequestPc, IdleRequest, Goto, At, SetRequest, EndRequest
<1>25. ASSUME NEW w \in Workers, MarkDeploymentFailed(w)
      PROVE  TypeOK'
  BY <1>25 DEF MarkDeploymentFailed, TypeOK, rowVars, jobVars, workerVars, DepStatus, RepStatus, ContStatus, JobStatus, WorkerPc,
     RequestPc, IdleRequest, Goto, At, SetRequest, EndRequest, StopWorking,
     FailProvisioning
<1>26. ASSUME NEW w \in Workers, Deadline(w) \/ ClaimAges(w)
      PROVE  TypeOK'
  <2>1. /\ late' \in [Workers -> BOOLEAN] /\ ripe' \in [Workers -> BOOLEAN]
        /\ UNCHANGED <<rowVars, jobVars, pc, cur, req, cont, reaper>>
    BY <1>26 DEF Deadline, ClaimAges, TypeOK
  <2>. QED
    BY <2>1 DEF TypeOK, rowVars, jobVars
<1>27. ASSUME NEW w \in Workers, Crash(w)
      PROVE  TypeOK'
  BY <1>27 DEF Crash, TypeOK, rowVars, jobVars, workerVars,
     DepStatus, RepStatus, ContStatus, JobStatus, WorkerPc, RequestPc,
     IdleRequest, Goto, At, SetRequest, EndRequest, StopWorking
<1>28. ASSUME ReapRequeue
      PROVE  TypeOK'
  BY <1>28 DEF ReapRequeue, TypeOK, rowVars, jobVars, workerVars,
     DepStatus, RepStatus, ContStatus, JobStatus, WorkerPc, RequestPc,
     IdleRequest, Goto, At, SetRequest, EndRequest, RequeueStale
<1>29. ASSUME ReapStuckProvisioning
      PROVE  TypeOK'
  BY <1>29 DEF ReapStuckProvisioning, TypeOK, rowVars, jobVars, workerVars, DepStatus, RepStatus, ContStatus, JobStatus, WorkerPc,
     RequestPc, IdleRequest, Goto, At, SetRequest, EndRequest,
     FailProvisioning
<1>30. ASSUME NEW aged \in SUBSET Deployments, Boot(aged)
      PROVE  TypeOK'
  BY <1>30 DEF Boot, TypeOK, rowVars, jobVars, workerVars,
     DepStatus, RepStatus, ContStatus, JobStatus, WorkerPc, RequestPc,
     IdleRequest, Goto, At, SetRequest, EndRequest, FailProvisioning,
     RequeueStale
<1>31. ASSUME UNCHANGED vars
      PROVE  TypeOK'
  BY <1>31 DEF vars, rowVars, jobVars, workerVars, TypeOK,
     DepStatus, RepStatus, ContStatus, JobStatus, WorkerPc, RequestPc,
     IdleRequest, Goto, At, SetRequest, EndRequest
<1>. QED
  BY <1>1, <1>2, <1>3, <1>4, <1>5, <1>6, <1>7, <1>8, <1>9, <1>10, <1>11,
     <1>12, <1>13, <1>14, <1>15, <1>16, <1>17, <1>18, <1>19, <1>20, <1>21,
     <1>22, <1>23, <1>24, <1>25, <1>26, <1>27, <1>28, <1>29, <1>30, <1>31
     DEF Next, RequestStep, WorkerStep

(* A row is created before its job is counted, claimed or worked on.       *)
LEMMA NextJob == ASSUME TypeOK, JobInv, [Next]_vars PROVE JobInv'
<1>. USE AttemptAssumption, ReplicaIdShape
<1>1. ASSUME NEW d \in Deployments, CreateDeployment(d)
      PROVE  JobInv'
  BY <1>1 DEF CreateDeployment, TypeOK, JobInv, AttemptsLeft, Busy, rowVars,
     jobVars, workerVars, Goto
<1>2. ASSUME NEW q \in Requests, NEW d \in Deployments, NEW f \in BOOLEAN, DeleteBegin(q, d, f)
      PROVE  JobInv'
  BY <1>2 DEF DeleteBegin, TypeOK, JobInv, AttemptsLeft, Busy, rowVars,
     jobVars, workerVars, Goto
<1>3. ASSUME NEW q \in Requests, NEW d \in Deployments, RestartBegin(q, d)
      PROVE  JobInv'
  BY <1>3 DEF RestartBegin, TypeOK, JobInv, AttemptsLeft, Busy, rowVars,
     jobVars, workerVars, Goto
<1>4. ASSUME NEW q \in Requests, DeleteFlip(q)
      PROVE  JobInv'
  BY <1>4 DEF DeleteFlip, TypeOK, JobInv, AttemptsLeft, Busy, rowVars,
     jobVars, workerVars, Goto
<1>5. ASSUME NEW q \in Requests, DeleteDestroy(q)
      PROVE  JobInv'
  BY <1>5 DEF DeleteDestroy, TypeOK, JobInv, AttemptsLeft, Busy, rowVars,
     jobVars, workerVars, Goto, NextReplicaOr
<1>6. ASSUME NEW q \in Requests, DeleteDestroyFails(q)
      PROVE  JobInv'
  BY <1>6 DEF DeleteDestroyFails, TypeOK, JobInv, AttemptsLeft, Busy,
     rowVars, jobVars, workerVars, Goto, NextReplicaOr
<1>7. ASSUME NEW q \in Requests, DeleteMark(q)
      PROVE  JobInv'
  BY <1>7 DEF DeleteMark, TypeOK, JobInv, AttemptsLeft, Busy, rowVars,
     jobVars, workerVars, Goto
<1>8. ASSUME NEW q \in Requests, DeleteFree(q)
      PROVE  JobInv'
  BY <1>8 DEF DeleteFree, TypeOK, JobInv, AttemptsLeft, Busy, rowVars,
     jobVars, workerVars, Goto
<1>9. ASSUME NEW q \in Requests, RestartContainer(q)
      PROVE  JobInv'
  BY <1>9 DEF RestartContainer, TypeOK, JobInv, AttemptsLeft, Busy, rowVars,
     jobVars, workerVars, Goto, NextReplicaOr
<1>10. ASSUME NEW q \in Requests, RestartReplicaRows(q)
      PROVE  JobInv'
  BY <1>10 DEF RestartReplicaRows, TypeOK, JobInv, AttemptsLeft, Busy,
     rowVars, jobVars, workerVars, Goto
<1>11. ASSUME NEW q \in Requests, RestartReplicaRowsFail(q)
      PROVE  JobInv'
  BY <1>11 DEF RestartReplicaRowsFail, TypeOK, JobInv, AttemptsLeft, Busy,
     rowVars, jobVars, workerVars, Goto
<1>12. ASSUME NEW q \in Requests, RestartRow(q)
      PROVE  JobInv'
  BY <1>12 DEF RestartRow, TypeOK, JobInv, AttemptsLeft, Busy, rowVars,
     jobVars, workerVars, Goto
<1>13. ASSUME NEW q \in Requests, RequestAbort(q)
      PROVE  JobInv'
  BY <1>13 DEF RequestAbort, TypeOK, JobInv, AttemptsLeft, Busy, rowVars,
     jobVars, workerVars, Goto
<1>14. ASSUME NEW w \in Workers, NEW r \in ReplicaIds, ClaimNext(w, r)
      PROVE  JobInv'
  BY <1>14 DEF ClaimNext, TypeOK, JobInv, AttemptsLeft, Busy, rowVars,
     jobVars, workerVars, Goto
<1>15. ASSUME NEW w \in Workers, PreCheck(w)
      PROVE  JobInv'
  BY <1>15 DEF PreCheck, TypeOK, JobInv, AttemptsLeft, Busy, rowVars,
     jobVars, workerVars, Goto
<1>16. ASSUME NEW w \in Workers, Provision(w)
      PROVE  JobInv'
  BY <1>16 DEF Provision, TypeOK, JobInv, AttemptsLeft, Busy, rowVars,
     jobVars, workerVars, Goto, Built
<1>17. ASSUME NEW w \in Workers, ProvisionFails(w)
      PROVE  JobInv'
  BY <1>17 DEF ProvisionFails, TypeOK, JobInv, AttemptsLeft, Busy, rowVars,
     jobVars, workerVars, Goto, Built
<1>18. ASSUME NEW w \in Workers, MarkProvisionRunning(w)
      PROVE  JobInv'
  BY <1>18 DEF MarkProvisionRunning, TypeOK, JobInv, AttemptsLeft, Busy,
     rowVars, jobVars, workerVars, Goto
<1>19. ASSUME NEW w \in Workers, MarkProvisionRunningFails(w)
      PROVE  JobInv'
  BY <1>19 DEF MarkProvisionRunningFails, TypeOK, JobInv, AttemptsLeft,
     Busy, rowVars, jobVars, workerVars, Goto
<1>20. ASSUME NEW w \in Workers, CleanupDestroy(w)
      PROVE  JobInv'
  BY <1>20 DEF CleanupDestroy, TypeOK, JobInv, AttemptsLeft, Busy, rowVars,
     jobVars, workerVars, Goto
<1>21. ASSUME NEW w \in Workers, CleanupDestroyFails(w)
      PROVE  JobInv'
  BY <1>21 DEF CleanupDestroyFails, TypeOK, JobInv, AttemptsLeft, Busy,
     rowVars, jobVars, workerVars, Goto
<1>22. ASSUME NEW w \in Workers, MarkDone(w)
      PROVE  JobInv'
  BY <1>22 DEF MarkDone, TypeOK, JobInv, AttemptsLeft, Busy, rowVars,
     jobVars, workerVars, Goto, StopWorking
<1>23. ASSUME NEW w \in Workers, MarkJobFailed(w)
      PROVE  JobInv'
  BY <1>23 DEF MarkJobFailed, TypeOK, JobInv, AttemptsLeft, Busy, rowVars,
     jobVars, workerVars, Goto
<1>24. ASSUME NEW w \in Workers, MarkJobFailedLost(w)
      PROVE  JobInv'
  BY <1>24 DEF MarkJobFailedLost, TypeOK, JobInv, AttemptsLeft, Busy,
     rowVars, jobVars, workerVars, Goto
<1>25. ASSUME NEW w \in Workers, MarkDeploymentFailed(w)
      PROVE  JobInv'
  BY <1>25 DEF MarkDeploymentFailed, TypeOK, JobInv, AttemptsLeft, Busy,
     rowVars, jobVars, workerVars, Goto, StopWorking,
     FailProvisioning
<1>26. ASSUME NEW w \in Workers, Deadline(w) \/ ClaimAges(w)
      PROVE  JobInv'
  BY <1>26 DEF Deadline, ClaimAges, TypeOK, JobInv, AttemptsLeft, Busy, rowVars,
     jobVars, workerVars, Goto
<1>27. ASSUME NEW w \in Workers, Crash(w)
      PROVE  JobInv'
  BY <1>27 DEF Crash, TypeOK, JobInv, AttemptsLeft, Busy, rowVars, jobVars,
     workerVars, Goto, StopWorking
<1>28. ASSUME ReapRequeue
      PROVE  JobInv'
  BY <1>28 DEF ReapRequeue, TypeOK, JobInv, AttemptsLeft, Busy, rowVars,
     jobVars, workerVars, Goto, RequeueStale, Stale
<1>29. ASSUME ReapStuckProvisioning
      PROVE  JobInv'
  BY <1>29 DEF ReapStuckProvisioning, TypeOK, JobInv, AttemptsLeft, Busy,
     rowVars, jobVars, workerVars, Goto, FailProvisioning
<1>30. ASSUME NEW aged \in SUBSET Deployments, Boot(aged)
      PROVE  JobInv'
  BY <1>30 DEF Boot, TypeOK, JobInv, AttemptsLeft, Busy, rowVars, jobVars,
     workerVars, Goto, RequeueStale, Stale, FailProvisioning
<1>31. ASSUME UNCHANGED vars
      PROVE  JobInv'
  BY <1>31 DEF vars, rowVars, jobVars, workerVars, TypeOK, JobInv,
     AttemptsLeft, Busy, Goto
<1>. QED
  BY <1>1, <1>2, <1>3, <1>4, <1>5, <1>6, <1>7, <1>8, <1>9, <1>10, <1>11,
     <1>12, <1>13, <1>14, <1>15, <1>16, <1>17, <1>18, <1>19, <1>20, <1>21,
     <1>22, <1>23, <1>24, <1>25, <1>26, <1>27, <1>28, <1>29, <1>30, <1>31
     DEF Next, RequestStep, WorkerStep

(* What a request or a worker has read about the rows stays true.          *)
LEMMA NextRow == ASSUME TypeOK, JobInv, RowInv, [Next]_vars PROVE RowInv'
<1>. USE ReplicaIdShape
<1>1. ASSUME NEW d \in Deployments, CreateDeployment(d)
      PROVE  RowInv'
  BY <1>1 DEF CreateDeployment, TypeOK, JobInv, RowInv, Busy, rowVars,
     jobVars, workerVars, Goto, At, SetRequest, EndRequest,
     IdleRequest
<1>2. ASSUME NEW q \in Requests, NEW d \in Deployments, NEW f \in BOOLEAN, DeleteBegin(q, d, f)
      PROVE  RowInv'
  BY <1>2 DEF DeleteBegin, TypeOK, JobInv, RowInv, Busy, rowVars, jobVars,
     workerVars, Goto, At, SetRequest, EndRequest, IdleRequest
<1>3. ASSUME NEW q \in Requests, NEW d \in Deployments, RestartBegin(q, d)
      PROVE  RowInv'
  BY <1>3 DEF RestartBegin, TypeOK, JobInv, RowInv, Busy, rowVars, jobVars,
     workerVars, Goto, At, SetRequest, EndRequest, IdleRequest
<1>4. ASSUME NEW q \in Requests, DeleteFlip(q)
      PROVE  RowInv'
  BY <1>4 DEF DeleteFlip, TypeOK, JobInv, RowInv, Busy, rowVars, jobVars,
     workerVars, Goto, At, SetRequest, EndRequest, IdleRequest
<1>5. ASSUME NEW q \in Requests, DeleteDestroy(q)
      PROVE  RowInv'
  BY <1>5 DEF DeleteDestroy, TypeOK, JobInv, RowInv, Busy, rowVars, jobVars,
     workerVars, Goto, At, SetRequest, EndRequest, IdleRequest,
     NextReplicaOr
<1>6. ASSUME NEW q \in Requests, DeleteDestroyFails(q)
      PROVE  RowInv'
  <2>1. UNCHANGED <<rowVars, workerVars>> /\ req[q].pc = "destroy"
    BY <1>6 DEF DeleteDestroyFails
  <2>2. \/ NextReplicaOr(q, "mark")
        \/ req' = [req EXCEPT ![q] = IdleRequest]
    BY <1>6 DEF DeleteDestroyFails, EndRequest
  <2>3. CASE NextReplicaOr(q, "mark")
    BY <2>1, <2>3 DEF TypeOK, RowInv, NextReplicaOr, At, rowVars, workerVars
  <2>4. CASE req' = [req EXCEPT ![q] = IdleRequest]
    BY <2>1, <2>4 DEF TypeOK, RowInv, IdleRequest, rowVars, workerVars
  <2>. QED
    BY <2>2, <2>3, <2>4
<1>7. ASSUME NEW q \in Requests, DeleteMark(q)
      PROVE  RowInv'
  BY <1>7 DEF DeleteMark, TypeOK, JobInv, RowInv, Busy, rowVars, jobVars,
     workerVars, Goto, At, SetRequest, EndRequest, IdleRequest
<1>8. ASSUME NEW q \in Requests, DeleteFree(q)
      PROVE  RowInv'
  BY <1>8 DEF DeleteFree, TypeOK, JobInv, RowInv, Busy, rowVars, jobVars,
     workerVars, Goto, At, SetRequest, EndRequest, IdleRequest
<1>9. ASSUME NEW q \in Requests, RestartContainer(q)
      PROVE  RowInv'
  BY <1>9 DEF RestartContainer, TypeOK, JobInv, RowInv, Busy, rowVars,
     jobVars, workerVars, Goto, At, SetRequest, EndRequest,
     IdleRequest, NextReplicaOr
<1>10. ASSUME NEW q \in Requests, RestartReplicaRows(q)
      PROVE  RowInv'
  BY <1>10 DEF RestartReplicaRows, TypeOK, JobInv, RowInv, Busy, rowVars,
     jobVars, workerVars, Goto, At, SetRequest, EndRequest,
     IdleRequest
<1>11. ASSUME NEW q \in Requests, RestartReplicaRowsFail(q)
      PROVE  RowInv'
  BY <1>11 DEF RestartReplicaRowsFail, TypeOK, JobInv, RowInv, Busy,
     rowVars, jobVars, workerVars, Goto, At, SetRequest,
     EndRequest, IdleRequest
<1>12. ASSUME NEW q \in Requests, RestartRow(q)
      PROVE  RowInv'
  BY <1>12 DEF RestartRow, TypeOK, JobInv, RowInv, Busy, rowVars, jobVars,
     workerVars, Goto, At, SetRequest, EndRequest, IdleRequest
<1>13. ASSUME NEW q \in Requests, RequestAbort(q)
      PROVE  RowInv'
  BY <1>13 DEF RequestAbort, TypeOK, JobInv, RowInv, Busy, rowVars, jobVars,
     workerVars, Goto, At, SetRequest, EndRequest, IdleRequest
<1>14. ASSUME NEW w \in Workers, NEW r \in ReplicaIds, ClaimNext(w, r)
      PROVE  RowInv'
  BY <1>14 DEF ClaimNext, TypeOK, JobInv, RowInv, Busy, rowVars, jobVars,
     workerVars, Goto, At, SetRequest, EndRequest, IdleRequest
<1>15. ASSUME NEW w \in Workers, PreCheck(w)
      PROVE  RowInv'
  BY <1>15 DEF PreCheck, TypeOK, JobInv, RowInv, Busy, rowVars, jobVars,
     workerVars, Goto, At, SetRequest, EndRequest, IdleRequest
<1>16. ASSUME NEW w \in Workers, Provision(w)
      PROVE  RowInv'
  BY <1>16 DEF Provision, TypeOK, JobInv, RowInv, Busy, rowVars, jobVars,
     workerVars, Goto, At, SetRequest, EndRequest, IdleRequest,
     Built
<1>17. ASSUME NEW w \in Workers, ProvisionFails(w)
      PROVE  RowInv'
  BY <1>17 DEF ProvisionFails, TypeOK, JobInv, RowInv, Busy, rowVars,
     jobVars, workerVars, Goto, At, SetRequest, EndRequest,
     IdleRequest, Built
<1>18. ASSUME NEW w \in Workers, MarkProvisionRunning(w)
      PROVE  RowInv'
  <2>. DEFINE r == cur[w]
              d == cur[w][1]
  <2>1. r \in ReplicaIds /\ d \in Deployments
    BY <1>18 DEF MarkProvisionRunning, TypeOK
  <2>2. /\ UNCHANGED <<req, cur>>
        /\ pc' \in {[pc EXCEPT ![w] = "done"], [pc EXCEPT ![w] = "destroy"]}
    BY <1>18 DEF MarkProvisionRunning, Goto
  <2>3. CASE dep[d] = "provisioning"
    <3>1. /\ dep' = [dep EXCEPT ![d] = "running"]
          /\ \A s \in ReplicaIds : s # r => rep'[s] = rep[s]
      BY <1>18, <2>1, <2>3 DEF MarkProvisionRunning, TypeOK
    <3>. QED
      BY <2>1, <2>2, <2>3, <3>1 DEF RowInv, TypeOK
  <2>4. CASE dep[d] # "provisioning"
    <3>1. /\ dep' = dep
          /\ \A s \in ReplicaIds : s # r => rep'[s] = rep[s]
          /\ rep[r] = "absent" => rep'[r] = "absent"
      BY <1>18, <2>1, <2>4 DEF MarkProvisionRunning, TypeOK
    <3>. QED
      BY <2>1, <2>2, <2>4, <3>1 DEF RowInv, TypeOK
  <2>. QED
    BY <2>3, <2>4
<1>19. ASSUME NEW w \in Workers, MarkProvisionRunningFails(w)
      PROVE  RowInv'
  BY <1>19 DEF MarkProvisionRunningFails, TypeOK, JobInv, RowInv, Busy,
     rowVars, jobVars, workerVars, Goto, At, SetRequest,
     EndRequest, IdleRequest
<1>20. ASSUME NEW w \in Workers, CleanupDestroy(w)
      PROVE  RowInv'
  BY <1>20 DEF CleanupDestroy, TypeOK, JobInv, RowInv, Busy, rowVars,
     jobVars, workerVars, Goto, At, SetRequest, EndRequest,
     IdleRequest
<1>21. ASSUME NEW w \in Workers, CleanupDestroyFails(w)
      PROVE  RowInv'
  BY <1>21 DEF CleanupDestroyFails, TypeOK, JobInv, RowInv, Busy, rowVars,
     jobVars, workerVars, Goto, At, SetRequest, EndRequest,
     IdleRequest
<1>22. ASSUME NEW w \in Workers, MarkDone(w)
      PROVE  RowInv'
  BY <1>22 DEF MarkDone, TypeOK, JobInv, RowInv, Busy, rowVars, jobVars,
     workerVars, Goto, At, SetRequest, EndRequest, IdleRequest,
     StopWorking
<1>23. ASSUME NEW w \in Workers, MarkJobFailed(w)
      PROVE  RowInv'
  BY <1>23 DEF MarkJobFailed, TypeOK, JobInv, RowInv, Busy, rowVars,
     jobVars, workerVars, Goto, At, SetRequest, EndRequest,
     IdleRequest
<1>24. ASSUME NEW w \in Workers, MarkJobFailedLost(w)
      PROVE  RowInv'
  BY <1>24 DEF MarkJobFailedLost, TypeOK, JobInv, RowInv, Busy, rowVars,
     jobVars, workerVars, Goto, At, SetRequest, EndRequest,
     IdleRequest
<1>25. ASSUME NEW w \in Workers, MarkDeploymentFailed(w)
      PROVE  RowInv'
  BY <1>25 DEF MarkDeploymentFailed, TypeOK, JobInv, RowInv, Busy, rowVars,
     jobVars, workerVars, Goto, At, SetRequest, EndRequest,
     IdleRequest, StopWorking, FailProvisioning
<1>26. ASSUME NEW w \in Workers, Deadline(w) \/ ClaimAges(w)
      PROVE  RowInv'
  BY <1>26 DEF Deadline, ClaimAges, TypeOK, JobInv, RowInv, Busy, rowVars, jobVars,
     workerVars, Goto, At, SetRequest, EndRequest, IdleRequest
<1>27. ASSUME NEW w \in Workers, Crash(w)
      PROVE  RowInv'
  BY <1>27 DEF Crash, TypeOK, JobInv, RowInv, Busy, rowVars, jobVars,
     workerVars, Goto, At, SetRequest, EndRequest, IdleRequest,
     StopWorking
<1>28. ASSUME ReapRequeue
      PROVE  RowInv'
  BY <1>28 DEF ReapRequeue, TypeOK, JobInv, RowInv, Busy, rowVars, jobVars,
     workerVars, Goto, At, SetRequest, EndRequest, IdleRequest,
     RequeueStale, Stale
<1>29. ASSUME ReapStuckProvisioning
      PROVE  RowInv'
  BY <1>29 DEF ReapStuckProvisioning, TypeOK, JobInv, RowInv, Busy, rowVars,
     jobVars, workerVars, Goto, At, SetRequest, EndRequest,
     IdleRequest, FailProvisioning
<1>30. ASSUME NEW aged \in SUBSET Deployments, Boot(aged)
      PROVE  RowInv'
  BY <1>30 DEF Boot, TypeOK, JobInv, RowInv, Busy, rowVars, jobVars,
     workerVars, Goto, At, SetRequest, EndRequest, IdleRequest,
     RequeueStale, Stale, FailProvisioning
<1>31. ASSUME UNCHANGED vars
      PROVE  RowInv'
  BY <1>31 DEF vars, rowVars, jobVars, workerVars, TypeOK, JobInv,
     RowInv, Busy, Goto, At, SetRequest, EndRequest, IdleRequest
<1>. QED
  BY <1>1, <1>2, <1>3, <1>4, <1>5, <1>6, <1>7, <1>8, <1>9, <1>10, <1>11,
     <1>12, <1>13, <1>14, <1>15, <1>16, <1>17, <1>18, <1>19, <1>20, <1>21,
     <1>22, <1>23, <1>24, <1>25, <1>26, <1>27, <1>28, <1>29, <1>30, <1>31
     DEF Next, RequestStep, WorkerStep

(* No step takes a deployment out of 'deleted'.                            *)
LEMMA NextDeleted ==
    ASSUME TypeOK, [Next]_vars
    PROVE  \A d \in Deployments : dep[d] = "deleted" => dep'[d] = "deleted"
<1>. DEFINE Final == \A e \in Deployments : dep[e] = "deleted" => dep'[e] = "deleted"
<1>1. ASSUME NEW d \in Deployments, CreateDeployment(d)
      PROVE  Final
  BY <1>1 DEF CreateDeployment, TypeOK, rowVars, jobVars, workerVars
<1>2. ASSUME NEW q \in Requests, NEW d \in Deployments, NEW f \in BOOLEAN, DeleteBegin(q, d, f)
      PROVE  Final
  BY <1>2 DEF DeleteBegin, TypeOK, rowVars, jobVars, workerVars
<1>3. ASSUME NEW q \in Requests, NEW d \in Deployments, RestartBegin(q, d)
      PROVE  Final
  BY <1>3 DEF RestartBegin, TypeOK, rowVars, jobVars, workerVars
<1>4. ASSUME NEW q \in Requests, DeleteFlip(q)
      PROVE  Final
  BY <1>4 DEF DeleteFlip, TypeOK, rowVars, jobVars, workerVars
<1>5. ASSUME NEW q \in Requests, DeleteDestroy(q)
      PROVE  Final
  BY <1>5 DEF DeleteDestroy, TypeOK, rowVars, jobVars, workerVars
<1>6. ASSUME NEW q \in Requests, DeleteDestroyFails(q)
      PROVE  Final
  BY <1>6 DEF DeleteDestroyFails, TypeOK, rowVars, jobVars, workerVars
<1>7. ASSUME NEW q \in Requests, DeleteMark(q)
      PROVE  Final
  BY <1>7 DEF DeleteMark, TypeOK, rowVars, jobVars, workerVars
<1>8. ASSUME NEW q \in Requests, DeleteFree(q)
      PROVE  Final
  BY <1>8 DEF DeleteFree, TypeOK, rowVars, jobVars, workerVars
<1>9. ASSUME NEW q \in Requests, RestartContainer(q)
      PROVE  Final
  BY <1>9 DEF RestartContainer, TypeOK, rowVars, jobVars, workerVars
<1>10. ASSUME NEW q \in Requests, RestartReplicaRows(q)
      PROVE  Final
  BY <1>10 DEF RestartReplicaRows, TypeOK, rowVars, jobVars, workerVars
<1>11. ASSUME NEW q \in Requests, RestartReplicaRowsFail(q)
      PROVE  Final
  BY <1>11 DEF RestartReplicaRowsFail, TypeOK, rowVars, jobVars, workerVars
<1>12. ASSUME NEW q \in Requests, RestartRow(q)
      PROVE  Final
  BY <1>12 DEF RestartRow, TypeOK, rowVars, jobVars, workerVars
<1>13. ASSUME NEW q \in Requests, RequestAbort(q)
      PROVE  Final
  BY <1>13 DEF RequestAbort, TypeOK, rowVars, jobVars, workerVars
<1>14. ASSUME NEW w \in Workers, NEW r \in ReplicaIds, ClaimNext(w, r)
      PROVE  Final
  BY <1>14 DEF ClaimNext, TypeOK, rowVars, jobVars, workerVars
<1>15. ASSUME NEW w \in Workers, PreCheck(w)
      PROVE  Final
  BY <1>15 DEF PreCheck, TypeOK, rowVars, jobVars, workerVars
<1>16. ASSUME NEW w \in Workers, Provision(w)
      PROVE  Final
  BY <1>16 DEF Provision, TypeOK, rowVars, jobVars, workerVars
<1>17. ASSUME NEW w \in Workers, ProvisionFails(w)
      PROVE  Final
  BY <1>17 DEF ProvisionFails, TypeOK, rowVars, jobVars, workerVars
<1>18. ASSUME NEW w \in Workers, MarkProvisionRunning(w)
      PROVE  Final
  BY <1>18 DEF MarkProvisionRunning, TypeOK, rowVars, jobVars, workerVars
<1>19. ASSUME NEW w \in Workers, MarkProvisionRunningFails(w)
      PROVE  Final
  BY <1>19 DEF MarkProvisionRunningFails, TypeOK, rowVars, jobVars,
     workerVars
<1>20. ASSUME NEW w \in Workers, CleanupDestroy(w)
      PROVE  Final
  BY <1>20 DEF CleanupDestroy, TypeOK, rowVars, jobVars, workerVars
<1>21. ASSUME NEW w \in Workers, CleanupDestroyFails(w)
      PROVE  Final
  BY <1>21 DEF CleanupDestroyFails, TypeOK, rowVars, jobVars, workerVars
<1>22. ASSUME NEW w \in Workers, MarkDone(w)
      PROVE  Final
  BY <1>22 DEF MarkDone, TypeOK, rowVars, jobVars, workerVars
<1>23. ASSUME NEW w \in Workers, MarkJobFailed(w)
      PROVE  Final
  BY <1>23 DEF MarkJobFailed, TypeOK, rowVars, jobVars, workerVars
<1>24. ASSUME NEW w \in Workers, MarkJobFailedLost(w)
      PROVE  Final
  BY <1>24 DEF MarkJobFailedLost, TypeOK, rowVars, jobVars, workerVars
<1>25. ASSUME NEW w \in Workers, MarkDeploymentFailed(w)
      PROVE  Final
  BY <1>25 DEF MarkDeploymentFailed, TypeOK, rowVars, jobVars, workerVars, FailProvisioning
<1>26. ASSUME NEW w \in Workers, Deadline(w) \/ ClaimAges(w)
      PROVE  Final
  BY <1>26 DEF Deadline, ClaimAges, TypeOK, rowVars, jobVars, workerVars
<1>27. ASSUME NEW w \in Workers, Crash(w)
      PROVE  Final
  BY <1>27 DEF Crash, TypeOK, rowVars, jobVars, workerVars
<1>28. ASSUME ReapRequeue
      PROVE  Final
  BY <1>28 DEF ReapRequeue, TypeOK, rowVars, jobVars, workerVars
<1>29. ASSUME ReapStuckProvisioning
      PROVE  Final
  BY <1>29 DEF ReapStuckProvisioning, TypeOK, rowVars, jobVars, workerVars, FailProvisioning
<1>30. ASSUME NEW aged \in SUBSET Deployments, Boot(aged)
      PROVE  Final
  BY <1>30 DEF Boot, TypeOK, rowVars, jobVars, workerVars,
     FailProvisioning
<1>31. ASSUME UNCHANGED vars
      PROVE  Final
  BY <1>31 DEF vars, rowVars, jobVars, workerVars, TypeOK
<1>. QED
  BY <1>1, <1>2, <1>3, <1>4, <1>5, <1>6, <1>7, <1>8, <1>9, <1>10, <1>11,
     <1>12, <1>13, <1>14, <1>15, <1>16, <1>17, <1>18, <1>19, <1>20, <1>21,
     <1>22, <1>23, <1>24, <1>25, <1>26, <1>27, <1>28, <1>29, <1>30, <1>31
     DEF Next, RequestStep, WorkerStep

(* Who writes the deployment row.                                          *)
LEMMA DepWriters ==
    ASSUME [Next]_vars
    PROVE  \/ UNCHANGED dep
           \/ \E e \in Deployments : CreateDeployment(e)
           \/ \E q \in Requests : DeleteFlip(q) \/ DeleteMark(q) \/ RestartRow(q)
           \/ \E w \in Workers : MarkProvisionRunning(w) \/ MarkDeploymentFailed(w)
           \/ ReapStuckProvisioning \/ \E aged \in SUBSET Deployments : Boot(aged)
  BY DEF Next, RequestStep, WorkerStep, vars, rowVars, DeleteBegin, RestartBegin,
     DeleteDestroy, DeleteDestroyFails, DeleteFree, RestartContainer, RestartReplicaRows,
     RestartReplicaRowsFail, RequestAbort, ClaimNext, PreCheck, Provision, ProvisionFails,
     MarkProvisionRunningFails, CleanupDestroy, CleanupDestroyFails, MarkDone, MarkJobFailed,
     MarkJobFailedLost, Deadline, ClaimAges, Crash, ReapRequeue

(* No step takes a deployment back to 'provisioning'.                      *)
LEMMA NextBack ==
    ASSUME TypeOK, [Next]_vars, NEW d \in Deployments, dep[d] # "absent",
           dep'[d] = "provisioning"
    PROVE  dep[d] = "provisioning"
<1>1. \/ UNCHANGED dep
      \/ \E e \in Deployments : CreateDeployment(e)
      \/ \E q \in Requests : DeleteFlip(q) \/ DeleteMark(q) \/ RestartRow(q)
      \/ \E w \in Workers : MarkProvisionRunning(w) \/ MarkDeploymentFailed(w)
      \/ ReapStuckProvisioning \/ \E aged \in SUBSET Deployments : Boot(aged)
  BY DepWriters
<1>2. ASSUME NEW e \in Deployments, CreateDeployment(e) PROVE dep[d] = "provisioning"
  BY <1>2 DEF CreateDeployment, TypeOK
<1>3. ASSUME NEW q \in Requests, DeleteFlip(q) \/ DeleteMark(q) \/ RestartRow(q)
      PROVE  dep[d] = "provisioning"
  BY <1>3 DEF DeleteFlip, DeleteMark, RestartRow, TypeOK
<1>4. ASSUME NEW w \in Workers, MarkProvisionRunning(w) PROVE dep[d] = "provisioning"
  BY <1>4 DEF MarkProvisionRunning, TypeOK
<1>5. ASSUME NEW w \in Workers, MarkDeploymentFailed(w) PROVE dep[d] = "provisioning"
  BY <1>5 DEF MarkDeploymentFailed, FailProvisioning
<1>6. ASSUME ReapStuckProvisioning PROVE dep[d] = "provisioning"
  BY <1>6 DEF ReapStuckProvisioning, FailProvisioning
<1>7. ASSUME NEW aged \in SUBSET Deployments, Boot(aged) PROVE dep[d] = "provisioning"
  BY <1>7 DEF Boot, FailProvisioning
<1>. QED
  BY <1>1, <1>2, <1>3, <1>4, <1>5, <1>6, <1>7

(* Who writes the replica rows.                                            *)
LEMMA RowWriters ==
    ASSUME [Next]_vars
    PROVE  \/ UNCHANGED rep
           \/ \E d \in Deployments : CreateDeployment(d)
           \/ \E q \in Requests : DeleteFree(q) \/ RestartReplicaRows(q)
           \/ \E w \in Workers : MarkProvisionRunning(w)
  BY DEF Next, RequestStep, WorkerStep, vars, rowVars, DeleteBegin, RestartBegin,
     DeleteFlip, DeleteDestroy, DeleteDestroyFails, DeleteMark, RestartContainer,
     RestartReplicaRowsFail, RestartRow, RequestAbort, ClaimNext, PreCheck, Provision,
     ProvisionFails, MarkProvisionRunningFails, CleanupDestroy, CleanupDestroyFails,
     MarkDone, MarkJobFailed, MarkJobFailedLost, MarkDeploymentFailed, Deadline, ClaimAges, Crash,
     ReapRequeue, ReapStuckProvisioning, Boot

(* A replica row stays running unless its deployment is deleted.           *)
LEMMA RowsStayUp ==
    ASSUME TypeOK, RowInv, [Next]_vars, NEW r \in ReplicaIds, rep[r] = "running"
    PROVE  rep'[r] = "running" \/ (dep[r[1]] = "deleted" /\ UNCHANGED dep)
<1>1. CASE UNCHANGED rep
  BY <1>1
<1>2. ASSUME NEW d \in Deployments, CreateDeployment(d) PROVE rep'[r] = "running"
  BY <1>2 DEF CreateDeployment, RowInv
<1>3. ASSUME NEW q \in Requests, DeleteFree(q)
      PROVE  rep'[r] = "running" \/ (dep[r[1]] = "deleted" /\ UNCHANGED dep)
  BY <1>3 DEF DeleteFree, RowInv
<1>4. ASSUME NEW q \in Requests, RestartReplicaRows(q) PROVE rep'[r] = "running"
  BY <1>4 DEF RestartReplicaRows
<1>5. ASSUME NEW w \in Workers, MarkProvisionRunning(w) PROVE rep'[r] = "running"
  BY <1>5 DEF MarkProvisionRunning, TypeOK
<1>. QED
  BY <1>1, <1>2, <1>3, <1>4, <1>5, RowWriters

(* What a step does to the containers and to the row of a deployment that  *)
(* is provisioning: only a worker on it builds, where nothing was.         *)
LEMMA ContainerWriters ==
    ASSUME TypeOK, JobInv, RowInv, [Next]_vars, NEW r \in ReplicaIds,
           dep'[r[1]] = "provisioning", dep[r[1]] # "absent",
           cont[ContainerName(r[1], r[2])] = "running"
    PROVE  dep[r[1]] = "provisioning" /\ cont'[ContainerName(r[1], r[2])] = "running"
<1>. DEFINE n == ContainerName(r[1], r[2])
<1>. USE ReplicaIdShape
<1>1. dep[r[1]] = "provisioning"
  BY NextBack
<1>2. CASE UNCHANGED cont
  BY <1>1, <1>2
<1>3. ASSUME NEW q \in Requests,
             DeleteDestroy(q) \/ DeleteDestroyFails(q) \/ RestartContainer(q)
      PROVE  cont'[n] = "running"
  <2>1. req[q].dep \in Deployments /\ dep[req[q].dep] # "provisioning"
    BY <1>3 DEF DeleteDestroy, DeleteDestroyFails, RestartContainer, TypeOK, RowInv
  <2>2. n # ContainerName(req[q].dep, req[q].idx)
    BY <1>1, <2>1 DEF ContainerName
  <2>. QED
    BY <1>3, <2>2 DEF DeleteDestroy, DeleteDestroyFails, RestartContainer, TypeOK
<1>4. ASSUME NEW w \in Workers, Provision(w) \/ ProvisionFails(w)
      PROVE  cont'[n] = "running"
  BY <1>4 DEF Provision, ProvisionFails, TypeOK
<1>5. ASSUME NEW w \in Workers, CleanupDestroy(w)
      PROVE  cont'[n] = "running"
  <2>1. dep[cur[w][1]] # "provisioning"
    BY <1>5 DEF CleanupDestroy, RowInv
  <2>2. n # <<cur[w][1]>>
    BY <1>1, <2>1 DEF ContainerName
  <2>. QED
    BY <1>5, <2>2 DEF CleanupDestroy, TypeOK
<1>6. \/ UNCHANGED cont
      \/ \E q \in Requests : DeleteDestroy(q) \/ DeleteDestroyFails(q) \/ RestartContainer(q)
      \/ \E w \in Workers : Provision(w) \/ ProvisionFails(w) \/ CleanupDestroy(w)
  BY DEF Next, RequestStep, WorkerStep, vars, CreateDeployment, DeleteBegin, RestartBegin,
     DeleteFlip, DeleteMark, DeleteFree, RestartReplicaRows, RestartReplicaRowsFail,
     RestartRow, RequestAbort, ClaimNext, PreCheck, MarkProvisionRunning,
     MarkProvisionRunningFails, CleanupDestroyFails, MarkDone, MarkJobFailed,
     MarkJobFailedLost, MarkDeploymentFailed, Deadline, ClaimAges, Crash, ReapRequeue,
     ReapStuckProvisioning, Boot
<1>. QED
  BY <1>1, <1>2, <1>3, <1>4, <1>5, <1>6

(* A worker comes to "mark" by building, and only then.                    *)
LEMMA MarkMover ==
    ASSUME TypeOK, [Next]_vars, NEW w \in Workers, pc'[w] = "mark"
    PROVE  \/ pc[w] = "mark" /\ cur'[w] = cur[w]
           \/ Provision(w) /\ cur'[w] = cur[w]
<1>1. CASE UNCHANGED <<pc, cur>>
  BY <1>1
<1>2. ASSUME NEW v \in Workers, WorkerStep(v)
      PROVE  \/ pc[w] = "mark" /\ cur'[w] = cur[w]
             \/ Provision(w) /\ cur'[w] = cur[w]
  <2>1. CASE Provision(v)
    BY <2>1 DEF Provision, Goto, TypeOK
  <2>2. CASE ~Provision(v)
    BY <1>2, <2>2 DEF WorkerStep, PreCheck, ProvisionFails, MarkProvisionRunning,
       MarkProvisionRunningFails, CleanupDestroy, CleanupDestroyFails, MarkDone, MarkJobFailed,
       MarkJobFailedLost, MarkDeploymentFailed, StopWorking, Goto, TypeOK
  <2>. QED
    BY <2>1, <2>2
<1>3. ASSUME NEW v \in Workers, Crash(v)
      PROVE  pc[w] = "mark" /\ cur'[w] = cur[w]
  BY <1>3 DEF Crash, StopWorking, TypeOK
<1>4. ASSUME NEW v \in Workers, NEW r \in ReplicaIds, ClaimNext(v, r)
      PROVE  pc[w] = "mark" /\ cur'[w] = cur[w]
  BY <1>4 DEF ClaimNext, TypeOK
<1>5. \/ UNCHANGED <<pc, cur>>
      \/ \E v \in Workers : WorkerStep(v) \/ Crash(v)
      \/ \E v \in Workers, r \in ReplicaIds : ClaimNext(v, r)
  BY DEF Next, RequestStep, vars, workerVars, CreateDeployment, DeleteBegin, RestartBegin,
     DeleteFlip, DeleteDestroy, DeleteDestroyFails, DeleteMark, DeleteFree, RestartContainer,
     RestartReplicaRows, RestartReplicaRowsFail, RestartRow, RequestAbort, Deadline, ClaimAges,
     ReapRequeue, ReapStuckProvisioning, Boot
<1>. QED
  BY <1>1, <1>2, <1>3, <1>4, <1>5

(* Docker's names keep the workers of one replica apart.                   *)
LEMMA NextBuilder ==
    ASSUME TypeOK, JobInv, RowInv, OneBuilder, [Next]_vars PROVE OneBuilder'
<1>. USE ReplicaIdShape
<1>1. SUFFICES ASSUME NEW w \in Workers, pc'[w] = "mark", dep'[cur'[w][1]] = "provisioning"
               PROVE  /\ cont'[Built(w)'] = "running"
                      /\ \A v \in Workers \ {w} : pc'[v] = "mark" => cur'[v] # cur'[w]
  BY DEF OneBuilder
<1>2. /\ cur'[w] = cur[w] /\ cur[w] \in ReplicaIds /\ pc[w] # "idle"
      /\ dep[cur[w][1]] # "absent" /\ Built(w) \in ContainerNames
      /\ Built(w)' = Built(w) /\ dep[cur[w][1]] = "provisioning"
  <2>1. cur'[w] = cur[w] /\ cur[w] \in ReplicaIds /\ pc[w] # "idle"
    BY <1>1, MarkMover DEF Provision, TypeOK
  <2>2. dep[cur[w][1]] # "absent"
    BY <2>1 DEF JobInv, Busy
  <2>. QED
    BY <1>1, <2>1, <2>2, NextBack DEF Built
<1>3. CASE pc[w] = "mark"
  <2>1. cont[Built(w)] = "running"
    BY <1>2, <1>3 DEF OneBuilder
  <2>2. cont'[Built(w)] = "running"
    BY <1>1, <1>2, <2>1, ContainerWriters DEF Built
  <2>3. ASSUME NEW v \in Workers \ {w}, pc'[v] = "mark", cur'[v] = cur'[w] PROVE FALSE
    <3>1. CASE pc[v] = "mark" /\ cur'[v] = cur[v]
      BY <1>2, <1>3, <2>3, <3>1 DEF OneBuilder
    <3>2. CASE Provision(v) /\ cur'[v] = cur[v]
      BY <1>2, <2>1, <2>3, <3>2 DEF Provision, Built
    <3>. QED
      BY <2>3, <3>1, <3>2, MarkMover
  <2>. QED
    BY <1>2, <2>2, <2>3
<1>4. CASE Provision(w)
  <2>1. cont[Built(w)] = "none" /\ cont'[Built(w)] = "running"
    BY <1>2, <1>4 DEF Provision, TypeOK
  <2>2. ASSUME NEW v \in Workers \ {w}, pc'[v] = "mark", cur'[v] = cur'[w] PROVE FALSE
    <3>1. pc[v] = "mark" /\ cur'[v] = cur[v]
      BY <1>4, <2>2 DEF Provision, Goto, TypeOK
    <3>2. cont[Built(v)] = "running"
      BY <1>2, <2>2, <3>1 DEF OneBuilder
    <3>. QED
      BY <1>2, <2>1, <2>2, <3>1, <3>2 DEF Built
  <2>. QED
    BY <1>2, <2>1, <2>2
<1>. QED
  BY <1>1, <1>3, <1>4, MarkMover

(* No step marks a job done while its rows still wait for it.              *)
LEMMA NextDone ==
    ASSUME TypeOK, JobInv, RowInv, DoneMeansDecided, [Next]_vars
    PROVE  DoneMeansDecided'
<1>. USE ReplicaIdShape
<1>1. ASSUME NEW d \in Deployments, CreateDeployment(d)
      PROVE  DoneMeansDecided'
  BY <1>1 DEF CreateDeployment, TypeOK, JobInv, RowInv, DoneMeansDecided,
     Busy, rowVars, jobVars, workerVars
<1>2. ASSUME NEW q \in Requests, NEW d \in Deployments, NEW f \in BOOLEAN, DeleteBegin(q, d, f)
      PROVE  DoneMeansDecided'
  BY <1>2 DEF DeleteBegin, TypeOK, JobInv, RowInv, DoneMeansDecided, Busy,
     rowVars, jobVars, workerVars
<1>3. ASSUME NEW q \in Requests, NEW d \in Deployments, RestartBegin(q, d)
      PROVE  DoneMeansDecided'
  BY <1>3 DEF RestartBegin, TypeOK, JobInv, RowInv, DoneMeansDecided, Busy,
     rowVars, jobVars, workerVars
<1>4. ASSUME NEW q \in Requests, DeleteFlip(q)
      PROVE  DoneMeansDecided'
  BY <1>4 DEF DeleteFlip, TypeOK, JobInv, RowInv, DoneMeansDecided, Busy,
     rowVars, jobVars, workerVars
<1>5. ASSUME NEW q \in Requests, DeleteDestroy(q)
      PROVE  DoneMeansDecided'
  BY <1>5 DEF DeleteDestroy, TypeOK, JobInv, RowInv, DoneMeansDecided, Busy,
     rowVars, jobVars, workerVars, NextReplicaOr
<1>6. ASSUME NEW q \in Requests, DeleteDestroyFails(q)
      PROVE  DoneMeansDecided'
  BY <1>6 DEF DeleteDestroyFails, TypeOK, JobInv, RowInv, DoneMeansDecided,
     Busy, rowVars, jobVars, workerVars, NextReplicaOr
<1>7. ASSUME NEW q \in Requests, DeleteMark(q)
      PROVE  DoneMeansDecided'
  BY <1>7 DEF DeleteMark, TypeOK, JobInv, RowInv, DoneMeansDecided, Busy,
     rowVars, jobVars, workerVars
<1>8. ASSUME NEW q \in Requests, DeleteFree(q)
      PROVE  DoneMeansDecided'
  BY <1>8 DEF DeleteFree, TypeOK, JobInv, RowInv, DoneMeansDecided, Busy,
     rowVars, jobVars, workerVars
<1>9. ASSUME NEW q \in Requests, RestartContainer(q)
      PROVE  DoneMeansDecided'
  BY <1>9 DEF RestartContainer, TypeOK, JobInv, RowInv, DoneMeansDecided,
     Busy, rowVars, jobVars, workerVars, NextReplicaOr
<1>10. ASSUME NEW q \in Requests, RestartReplicaRows(q)
      PROVE  DoneMeansDecided'
  BY <1>10 DEF RestartReplicaRows, TypeOK, JobInv, RowInv, DoneMeansDecided,
     Busy, rowVars, jobVars, workerVars
<1>11. ASSUME NEW q \in Requests, RestartReplicaRowsFail(q)
      PROVE  DoneMeansDecided'
  BY <1>11 DEF RestartReplicaRowsFail, TypeOK, JobInv, RowInv,
     DoneMeansDecided, Busy, rowVars, jobVars, workerVars
<1>12. ASSUME NEW q \in Requests, RestartRow(q)
      PROVE  DoneMeansDecided'
  BY <1>12 DEF RestartRow, TypeOK, JobInv, RowInv, DoneMeansDecided, Busy,
     rowVars, jobVars, workerVars
<1>13. ASSUME NEW q \in Requests, RequestAbort(q)
      PROVE  DoneMeansDecided'
  BY <1>13 DEF RequestAbort, TypeOK, JobInv, RowInv, DoneMeansDecided, Busy,
     rowVars, jobVars, workerVars
<1>14. ASSUME NEW w \in Workers, NEW r \in ReplicaIds, ClaimNext(w, r)
      PROVE  DoneMeansDecided'
  BY <1>14 DEF ClaimNext, TypeOK, JobInv, RowInv, DoneMeansDecided, Busy,
     rowVars, jobVars, workerVars
<1>15. ASSUME NEW w \in Workers, PreCheck(w)
      PROVE  DoneMeansDecided'
  BY <1>15 DEF PreCheck, TypeOK, JobInv, RowInv, DoneMeansDecided, Busy,
     rowVars, jobVars, workerVars
<1>16. ASSUME NEW w \in Workers, Provision(w)
      PROVE  DoneMeansDecided'
  BY <1>16 DEF Provision, TypeOK, JobInv, RowInv, DoneMeansDecided, Busy,
     rowVars, jobVars, workerVars, Built
<1>17. ASSUME NEW w \in Workers, ProvisionFails(w)
      PROVE  DoneMeansDecided'
  BY <1>17 DEF ProvisionFails, TypeOK, JobInv, RowInv, DoneMeansDecided,
     Busy, rowVars, jobVars, workerVars, Built
<1>18. ASSUME NEW w \in Workers, MarkProvisionRunning(w)
      PROVE  DoneMeansDecided'
  BY <1>18 DEF MarkProvisionRunning, TypeOK, JobInv, RowInv,
     DoneMeansDecided, Busy, rowVars, jobVars, workerVars
<1>19. ASSUME NEW w \in Workers, MarkProvisionRunningFails(w)
      PROVE  DoneMeansDecided'
  BY <1>19 DEF MarkProvisionRunningFails, TypeOK, JobInv, RowInv,
     DoneMeansDecided, Busy, rowVars, jobVars, workerVars
<1>20. ASSUME NEW w \in Workers, CleanupDestroy(w)
      PROVE  DoneMeansDecided'
  BY <1>20 DEF CleanupDestroy, TypeOK, JobInv, RowInv, DoneMeansDecided,
     Busy, rowVars, jobVars, workerVars
<1>21. ASSUME NEW w \in Workers, CleanupDestroyFails(w)
      PROVE  DoneMeansDecided'
  BY <1>21 DEF CleanupDestroyFails, TypeOK, JobInv, RowInv,
     DoneMeansDecided, Busy, rowVars, jobVars, workerVars
<1>22. ASSUME NEW w \in Workers, MarkDone(w)
      PROVE  DoneMeansDecided'
  BY <1>22 DEF MarkDone, TypeOK, JobInv, RowInv, DoneMeansDecided, Busy,
     rowVars, jobVars, workerVars, StopWorking
<1>23. ASSUME NEW w \in Workers, MarkJobFailed(w)
      PROVE  DoneMeansDecided'
  BY <1>23 DEF MarkJobFailed, TypeOK, JobInv, RowInv, DoneMeansDecided,
     Busy, rowVars, jobVars, workerVars
<1>24. ASSUME NEW w \in Workers, MarkJobFailedLost(w)
      PROVE  DoneMeansDecided'
  BY <1>24 DEF MarkJobFailedLost, TypeOK, JobInv, RowInv, DoneMeansDecided,
     Busy, rowVars, jobVars, workerVars
<1>25. ASSUME NEW w \in Workers, MarkDeploymentFailed(w)
      PROVE  DoneMeansDecided'
  BY <1>25 DEF MarkDeploymentFailed, TypeOK, JobInv, RowInv,
     DoneMeansDecided, Busy, rowVars, jobVars, workerVars,
     StopWorking, FailProvisioning
<1>26. ASSUME NEW w \in Workers, Deadline(w) \/ ClaimAges(w)
      PROVE  DoneMeansDecided'
  BY <1>26 DEF Deadline, ClaimAges, TypeOK, JobInv, RowInv, DoneMeansDecided, Busy,
     rowVars, jobVars, workerVars
<1>27. ASSUME NEW w \in Workers, Crash(w)
      PROVE  DoneMeansDecided'
  BY <1>27 DEF Crash, TypeOK, JobInv, RowInv, DoneMeansDecided, Busy,
     rowVars, jobVars, workerVars, StopWorking
<1>28. ASSUME ReapRequeue
      PROVE  DoneMeansDecided'
  BY <1>28 DEF ReapRequeue, TypeOK, JobInv, RowInv, DoneMeansDecided, Busy,
     rowVars, jobVars, workerVars, RequeueStale, Stale
<1>29. ASSUME ReapStuckProvisioning
      PROVE  DoneMeansDecided'
  BY <1>29 DEF ReapStuckProvisioning, TypeOK, JobInv, RowInv,
     DoneMeansDecided, Busy, rowVars, jobVars, workerVars,
     FailProvisioning
<1>30. ASSUME NEW aged \in SUBSET Deployments, Boot(aged)
      PROVE  DoneMeansDecided'
  BY <1>30 DEF Boot, TypeOK, JobInv, RowInv, DoneMeansDecided, Busy,
     rowVars, jobVars, workerVars, RequeueStale, Stale,
     FailProvisioning
<1>31. ASSUME UNCHANGED vars
      PROVE  DoneMeansDecided'
  BY <1>31 DEF vars, rowVars, jobVars, workerVars, TypeOK, JobInv,
     RowInv, DoneMeansDecided, Busy
<1>. QED
  BY <1>1, <1>2, <1>3, <1>4, <1>5, <1>6, <1>7, <1>8, <1>9, <1>10, <1>11,
     <1>12, <1>13, <1>14, <1>15, <1>16, <1>17, <1>18, <1>19, <1>20, <1>21,
     <1>22, <1>23, <1>24, <1>25, <1>26, <1>27, <1>28, <1>29, <1>30, <1>31
     DEF Next, RequestStep, WorkerStep

(* Every step is a step of JobLease, or leaves its variables alone.        *)
LEMMA NextLease ==
    ASSUME TypeOK, JobInv, [Next]_vars
    PROVE  [Lease!Next]_Lease!leaseVars
<1>. USE ReplicaIdShape
<1>1. ASSUME NEW d \in Deployments, CreateDeployment(d)
      PROVE  [Lease!Next]_Lease!leaseVars
  <2>. DEFINE js == {r \in ReplicaIds : r[1] = d}
  <2>1. Lease!Post(js)
    BY <1>1 DEF CreateDeployment, Lease!Post, TypeOK, JobInv
  <2>. QED
    BY <2>1 DEF Lease!Next
<1>2. ASSUME NEW q \in Requests, NEW d \in Deployments, NEW f \in BOOLEAN, DeleteBegin(q, d, f)
      PROVE  [Lease!Next]_Lease!leaseVars
  BY <1>2 DEF DeleteBegin, Lease!leaseVars, rowVars, jobVars, workerVars
<1>3. ASSUME NEW q \in Requests, NEW d \in Deployments, RestartBegin(q, d)
      PROVE  [Lease!Next]_Lease!leaseVars
  BY <1>3 DEF RestartBegin, Lease!leaseVars, rowVars, jobVars, workerVars
<1>4. ASSUME NEW q \in Requests, DeleteFlip(q)
      PROVE  [Lease!Next]_Lease!leaseVars
  BY <1>4 DEF DeleteFlip, Lease!leaseVars, rowVars, jobVars, workerVars
<1>5. ASSUME NEW q \in Requests, DeleteDestroy(q)
      PROVE  [Lease!Next]_Lease!leaseVars
  BY <1>5 DEF DeleteDestroy, Lease!leaseVars, rowVars, jobVars, workerVars
<1>6. ASSUME NEW q \in Requests, DeleteDestroyFails(q)
      PROVE  [Lease!Next]_Lease!leaseVars
  BY <1>6 DEF DeleteDestroyFails, Lease!leaseVars, rowVars, jobVars,
     workerVars
<1>7. ASSUME NEW q \in Requests, DeleteMark(q)
      PROVE  [Lease!Next]_Lease!leaseVars
  BY <1>7 DEF DeleteMark, Lease!leaseVars, rowVars, jobVars, workerVars
<1>8. ASSUME NEW q \in Requests, DeleteFree(q)
      PROVE  [Lease!Next]_Lease!leaseVars
  BY <1>8 DEF DeleteFree, Lease!leaseVars, rowVars, jobVars, workerVars
<1>9. ASSUME NEW q \in Requests, RestartContainer(q)
      PROVE  [Lease!Next]_Lease!leaseVars
  BY <1>9 DEF RestartContainer, Lease!leaseVars, rowVars, jobVars,
     workerVars
<1>10. ASSUME NEW q \in Requests, RestartReplicaRows(q)
      PROVE  [Lease!Next]_Lease!leaseVars
  BY <1>10 DEF RestartReplicaRows, Lease!leaseVars, rowVars, jobVars,
     workerVars
<1>11. ASSUME NEW q \in Requests, RestartReplicaRowsFail(q)
      PROVE  [Lease!Next]_Lease!leaseVars
  BY <1>11 DEF RestartReplicaRowsFail, Lease!leaseVars, rowVars, jobVars,
     workerVars
<1>12. ASSUME NEW q \in Requests, RestartRow(q)
      PROVE  [Lease!Next]_Lease!leaseVars
  BY <1>12 DEF RestartRow, Lease!leaseVars, rowVars, jobVars, workerVars
<1>13. ASSUME NEW q \in Requests, RequestAbort(q)
      PROVE  [Lease!Next]_Lease!leaseVars
  BY <1>13 DEF RequestAbort, Lease!leaseVars, rowVars, jobVars, workerVars
<1>14. ASSUME NEW w \in Workers, NEW r \in ReplicaIds, ClaimNext(w, r)
      PROVE  [Lease!Next]_Lease!leaseVars
  <2>1. Lease!Take(r)
    BY <1>14 DEF ClaimNext, Lease!Take, TypeOK, JobInv, AttemptsLeft
  <2>. QED
    BY <2>1 DEF Lease!Next
<1>15. ASSUME NEW w \in Workers, PreCheck(w)
      PROVE  [Lease!Next]_Lease!leaseVars
  BY <1>15 DEF PreCheck, Lease!leaseVars, rowVars, jobVars, workerVars
<1>16. ASSUME NEW w \in Workers, Provision(w)
      PROVE  [Lease!Next]_Lease!leaseVars
  BY <1>16 DEF Provision, Lease!leaseVars, rowVars, jobVars, workerVars
<1>17. ASSUME NEW w \in Workers, ProvisionFails(w)
      PROVE  [Lease!Next]_Lease!leaseVars
  BY <1>17 DEF ProvisionFails, Lease!leaseVars, rowVars, jobVars,
     workerVars
<1>18. ASSUME NEW w \in Workers, MarkProvisionRunning(w)
      PROVE  [Lease!Next]_Lease!leaseVars
  BY <1>18 DEF MarkProvisionRunning, Lease!leaseVars, rowVars, jobVars,
     workerVars
<1>19. ASSUME NEW w \in Workers, MarkProvisionRunningFails(w)
      PROVE  [Lease!Next]_Lease!leaseVars
  BY <1>19 DEF MarkProvisionRunningFails, Lease!leaseVars, rowVars, jobVars,
     workerVars
<1>20. ASSUME NEW w \in Workers, CleanupDestroy(w)
      PROVE  [Lease!Next]_Lease!leaseVars
  BY <1>20 DEF CleanupDestroy, Lease!leaseVars, rowVars, jobVars,
     workerVars
<1>21. ASSUME NEW w \in Workers, CleanupDestroyFails(w)
      PROVE  [Lease!Next]_Lease!leaseVars
  BY <1>21 DEF CleanupDestroyFails, Lease!leaseVars, rowVars, jobVars,
     workerVars
<1>22. ASSUME NEW w \in Workers, MarkDone(w)
      PROVE  [Lease!Next]_Lease!leaseVars
  <2>. PICK r \in ReplicaIds : r = cur[w]
    BY <1>22 DEF MarkDone, TypeOK
  <2>1. /\ attempts[r] > 0
        /\ jobStatus' = [jobStatus EXCEPT ![r] = jobStatus'[r]]
        /\ jobStatus'[r] \in {"done", "failed"}
        /\ UNCHANGED attempts
    BY <1>22 DEF MarkDone, TypeOK, JobInv, Busy
  <2>2. Lease!Settle(r)
    BY <2>1 DEF Lease!Settle, TypeOK
  <2>. QED
    BY <2>1, <2>2 DEF Lease!Next
<1>23. ASSUME NEW w \in Workers, MarkJobFailed(w)
      PROVE  [Lease!Next]_Lease!leaseVars
  <2>. PICK r \in ReplicaIds : r = cur[w]
    BY <1>23 DEF MarkJobFailed, TypeOK
  <2>1. /\ attempts[r] > 0
        /\ jobStatus' = [jobStatus EXCEPT ![r] = jobStatus'[r]]
        /\ jobStatus'[r] \in {"done", "failed"}
        /\ UNCHANGED attempts
    BY <1>23 DEF MarkJobFailed, TypeOK, JobInv, Busy
  <2>2. Lease!Settle(r)
    BY <2>1 DEF Lease!Settle, TypeOK
  <2>. QED
    BY <2>1, <2>2 DEF Lease!Next
<1>24. ASSUME NEW w \in Workers, MarkJobFailedLost(w)
      PROVE  [Lease!Next]_Lease!leaseVars
  BY <1>24 DEF MarkJobFailedLost, Lease!leaseVars, rowVars, jobVars,
     workerVars
<1>25. ASSUME NEW w \in Workers, MarkDeploymentFailed(w)
      PROVE  [Lease!Next]_Lease!leaseVars
  BY <1>25 DEF MarkDeploymentFailed, Lease!leaseVars, rowVars, jobVars,
     workerVars
<1>26. ASSUME NEW w \in Workers, Deadline(w) \/ ClaimAges(w)
      PROVE  [Lease!Next]_Lease!leaseVars
  BY <1>26 DEF Deadline, ClaimAges, Lease!leaseVars, rowVars, jobVars, workerVars
<1>27. ASSUME NEW w \in Workers, Crash(w)
      PROVE  [Lease!Next]_Lease!leaseVars
  BY <1>27 DEF Crash, Lease!leaseVars, rowVars, jobVars, workerVars
<1>28. ASSUME ReapRequeue
      PROVE  [Lease!Next]_Lease!leaseVars
  BY <1>28, RequeueLease DEF ReapRequeue, Lease!leaseVars, rowVars, jobVars,
     workerVars
<1>29. ASSUME ReapStuckProvisioning
      PROVE  [Lease!Next]_Lease!leaseVars
  BY <1>29 DEF ReapStuckProvisioning, Lease!leaseVars, rowVars, jobVars,
     workerVars
<1>30. ASSUME NEW aged \in SUBSET Deployments, Boot(aged)
      PROVE  [Lease!Next]_Lease!leaseVars
  BY <1>30, RequeueLease DEF Boot
<1>31. ASSUME UNCHANGED vars
      PROVE  [Lease!Next]_Lease!leaseVars
  BY <1>31 DEF vars, rowVars, jobVars, workerVars, Lease!leaseVars
<1>. QED
  BY <1>1, <1>2, <1>3, <1>4, <1>5, <1>6, <1>7, <1>8, <1>9, <1>10, <1>11,
     <1>12, <1>13, <1>14, <1>15, <1>16, <1>17, <1>18, <1>19, <1>20, <1>21,
     <1>22, <1>23, <1>24, <1>25, <1>26, <1>27, <1>28, <1>29, <1>30, <1>31
     DEF Next, RequestStep, WorkerStep

LEMMA InitInv == Init => IInv
<1>. SUFFICES ASSUME Init PROVE IInv
  OBVIOUS
<1>1. TypeOK
  BY AttemptAssumption DEF Init, TypeOK, IdleRequest, DepStatus, RepStatus, ContStatus,
     JobStatus, WorkerPc, RequestPc
<1>2. JobInv
  BY ReplicaIdShape DEF Init, JobInv, AttemptsLeft, Busy
<1>3. RowInv
  BY ReplicaIdShape DEF Init, RowInv, IdleRequest
<1>4. OneBuilder /\ DoneMeansDecided
  BY DEF Init, OneBuilder, DoneMeansDecided
<1>. QED
  BY <1>1, <1>2, <1>3, <1>4 DEF IInv

(* The strengthened invariant holds in every reachable state.              *)
THEOREM Invariance == Spec => []IInv
<1>1. IInv /\ [Next]_vars => IInv'
  BY NextType, NextJob, NextRow, NextBuilder, NextDone DEF IInv
<1>. QED
  BY <1>1, InitInv, PTL DEF Spec

(* Type correctness; attempts never exceed MaxAttempts.                    *)
THEOREM TypeCorrect == Spec => []TypeOK
<1>1. IInv => TypeOK
  BY DEF IInv
<1>. QED
  BY <1>1, Invariance, PTL

(* While a deployment is provisioning, one worker at most is about to mark *)
(* a replica of it running, and its container is up: for any number of     *)
(* processes that are handed one job, crashes, requeues and requests.      *)
THEOREM OneBuilderAtATime == Spec => []OneBuilder
<1>1. IInv => OneBuilder
  BY DEF IInv
<1>. QED
  BY <1>1, Invariance, PTL

(* A pending job always has an attempt left.                               *)
THEOREM AttemptsBounded == Spec => []AttemptsLeft
<1>1. IInv => AttemptsLeft
  BY DEF IInv, JobInv
<1>. QED
  BY <1>1, Invariance, PTL

(* A job marked done leaves no row waiting for it.                         *)
THEOREM DoneDecided == Spec => []DoneMeansDecided
<1>1. IInv => DoneMeansDecided
  BY DEF IInv
<1>. QED
  BY <1>1, Invariance, PTL

(* 'deleted' is final, whatever the other processes are doing.             *)
THEOREM DeletedFinal == Spec => DeletedIsFinal
<1>1. TypeOK /\ [Next]_vars =>
        [\A d \in Deployments : dep[d] = "deleted" => dep'[d] = "deleted"]_vars
  BY NextDeleted
<1>. QED
  BY <1>1, TypeCorrect, PTL DEF Spec, DeletedIsFinal

(* The queue implements the lease its callers rely on.                     *)
THEOREM LeaseImplemented == Spec => LeaseSpec
<1>1. Init => Lease!Init
  BY DEF Init, Lease!Init
<1>2. IInv /\ [Next]_vars => [Lease!Next]_Lease!leaseVars
  BY NextLease DEF IInv
<1>. QED
  BY <1>1, <1>2, Invariance, PTL DEF Spec, LeaseSpec, Lease!Spec

----------------------------------------------------------------------------
(* The same with a health sweep beside it (Lifecycle): LifeInv survives.    *)
SweepInv ==
    /\ sweep \in {"idle", "items", "update", "restart", "up", "gone", "write"}
    /\ todo \subseteq ReplicaIds /\ touched \subseteq Deployments
    /\ sweep \in {"update", "restart", "up", "gone"} => item \in ReplicaIds
    /\ sweep = "update" => target \in {"stopped", "failed"}
    /\ sweep = "write" => item \in Deployments /\ target \in {"running", "stopped", "failed"}

(* The row of a replica that has been up since it was listed still says    *)
(* so, and a sweep that is about to write otherwise has lost to a delete.  *)
SteadyInv ==
    /\ steady \subseteq ReplicaIds
    /\ \A r \in steady : rep[r] = "running" \/ dep[r[1]] = "deleted"
    /\ sweep = "update" => item \notin steady
    /\ sweep = "write" /\ target # "running" =>
          \A r \in steady : r[1] = item => dep[item] = "deleted"

LifeInv ==
    /\ TypeOK
    /\ JobInv
    /\ RowInv
    /\ DoneMeansDecided
    /\ SweepInv
    /\ SteadyInv

(* The sweep's replicas and names are the handlers'.                       *)
LEMMA SameTopology ==
    /\ Health!ReplicaIds = ReplicaIds
    /\ \A d, i : Health!ContainerName(d, i) = ContainerName(d, i)
  BY DEF Health!ReplicaIds, Health!NumReplicas, Health!ContainerName, ReplicaIds, NumReplicas,
     ContainerName

(* What a step of the sweep does to the rows.                              *)
SweepWrites ==
    /\ dep' \in [Deployments -> DepStatus] /\ rep' \in [ReplicaIds -> RepStatus]
    /\ cont' \in [ContainerNames -> ContStatus]
    /\ \A d \in Deployments :
          dep'[d] = dep[d] \/ (/\ dep[d] \notin {"deleted", "failed"}
                               /\ dep'[d] \in {"running", "stopped", "failed"})
    /\ \A r \in ReplicaIds :
          rep'[r] = rep[r] \/ (/\ rep[r] \in {"running", "stopped"}
                               /\ rep'[r] \in {"running", "stopped", "failed"})

(* Queue, workers and requests do not notice.                              *)
LEMMA WritesKeep ==
    ASSUME LifeInv, SweepWrites, UNCHANGED notShared
    PROVE  TypeOK' /\ JobInv' /\ RowInv' /\ DoneMeansDecided'
<1>. USE ReplicaIdShape
<1>0. UNCHANGED <<lastDeploy, born, jobStatus, claimedBy, attempts, pc, cur, late, ripe,
                  req, reaper>>
  BY DEF notShared, jobVars, workerVars
<1>1. TypeOK'
  BY <1>0 DEF LifeInv, TypeOK, SweepWrites
<1>2. JobInv'
  <2>1. \A r \in ReplicaIds : jobStatus[r] # "absent" \/ attempts[r] > 0 => dep'[r[1]] # "absent"
    BY DEF LifeInv, JobInv, SweepWrites
  <2>2. ASSUME NEW w \in Workers, Busy(w)
        PROVE  dep'[cur[w][1]] # "absent" /\ attempts[cur[w]] > 0
    <3>1. cur[w] \in ReplicaIds /\ cur[w][1] \in Deployments
      BY <2>2 DEF LifeInv, TypeOK, Busy
    <3>2. dep[cur[w][1]] # "absent" /\ attempts[cur[w]] > 0
      BY <2>2 DEF LifeInv, JobInv
    <3>. QED
      BY <3>1, <3>2 DEF SweepWrites
  <2>. QED
    BY <1>0, <2>1, <2>2 DEF LifeInv, JobInv, AttemptsLeft, Busy
<1>4. RowInv'
  <2>1. ASSUME NEW r \in ReplicaIds
        PROVE  /\ dep'[r[1]] = "provisioning" => rep'[r] = "provisioning"
               /\ dep'[r[1]] = "absent" => rep'[r] = "absent"
    BY DEF LifeInv, RowInv, SweepWrites
  <2>2. ASSUME NEW q \in Requests
        PROVE  /\ req[q].pc \notin {"idle", "flip"} =>
                     dep'[req[q].dep] \notin {"absent", "provisioning"}
               /\ req[q].pc = "flip" => dep'[req[q].dep] # "absent"
               /\ req[q].pc = "free" => dep'[req[q].dep] = "deleted"
    BY ZenonT(40) DEF LifeInv, TypeOK, RowInv, SweepWrites
  <2>3. ASSUME NEW w \in Workers, pc[w] \in {"destroy", "done"}
        PROVE  dep'[cur[w][1]] # "provisioning"
    BY <2>3, ZenonT(40) DEF LifeInv, TypeOK, RowInv, SweepWrites
  <2>. QED
    BY <1>0, <2>1, <2>2, <2>3 DEF RowInv
<1>5. DoneMeansDecided'
  BY <1>0 DEF LifeInv, DoneMeansDecided, SweepWrites
<1>. QED
  BY <1>1, <1>2, <1>4, <1>5

(* Nobody but Docker and the clock.                                        *)
LEMMA NothingWritten ==
    ASSUME LifeInv, UNCHANGED <<dep, rep>>, cont' \in [ContainerNames -> ContStatus]
    PROVE  SweepWrites
  BY DEF LifeInv, TypeOK, SweepWrites

(* The list: what is on it runs by its row.                                *)
LEMMA ListingStep == ASSUME LifeInv, Listing PROVE LifeInv'
<1>1. /\ sweep' = "items" /\ touched' = {} /\ UNCHANGED <<dep, rep, cont, notShared>>
      /\ todo' = {r \in ReplicaIds : rep[r] = "running" /\ dep[r[1]] # "deleted"}
      /\ steady' \subseteq todo'
  BY SameTopology DEF Listing, Health!List, Steady
<1>2. SweepWrites
  BY <1>1, NothingWritten DEF LifeInv, TypeOK
<1>3. SweepInv' /\ SteadyInv'
  BY <1>1 DEF SweepInv, SteadyInv
<1>. QED
  BY <1>1, <1>2, <1>3, WritesKeep DEF LifeInv

LEMMA Thinner ==
    ASSUME Steady(FALSE)
    PROVE  steady' \subseteq steady /\ \A r \in steady' : Up(r)
  BY DEF Steady

(* The sweep puts the row in hand down, having written nothing.            *)
LEMMA ResumeStep ==
    ASSUME LifeInv, Health!Resume \/ UNCHANGED <<item, target>>, sweep' \in {"idle", "items"},
           todo' \subseteq todo, touched' \subseteq touched, UNCHANGED <<dep, rep, notShared>>,
           cont' \in [ContainerNames -> ContStatus], steady' \subseteq steady
    PROVE  LifeInv'
<1>1. SweepWrites
  BY NothingWritten
<1>2. SweepInv'
  BY DEF LifeInv, SweepInv
<1>3. SteadyInv'
  BY DEF LifeInv, SteadyInv
<1>. QED
  BY <1>1, <1>2, <1>3, WritesKeep DEF LifeInv

(* A replica that is judged down was down when it was looked at.           *)
LEMMA LookStep ==
    ASSUME LifeInv, NEW r \in ReplicaIds, Health!Look(r) \/ Health!LookFails(r),
           UNCHANGED notShared, Steady(FALSE)
    PROVE  LifeInv'
<1>0. /\ steady' \subseteq steady /\ \A s \in steady' : Up(s)
      /\ cont' \in [ContainerNames -> ContStatus] /\ UNCHANGED <<dep, rep, touched>>
      /\ todo' \subseteq todo
  BY Thinner DEF LifeInv, TypeOK, Health!Look, Health!LookFails
<1>1. CASE Health!LookFails(r)
  BY <1>0, <1>1, ResumeStep DEF Health!LookFails
<1>2. CASE Health!Look(r) /\ Health!Classify(Health!DockerStatus(r)) = ""
  BY <1>0, <1>2, ResumeStep DEF Health!Look, Health!Resume
<1>3. CASE Health!Look(r) /\ Health!Classify(Health!DockerStatus(r)) # ""
  <2>1. /\ item' = r /\ target' = Health!Classify(Health!DockerStatus(r))
        /\ sweep' = "update"
    BY <1>3 DEF Health!Look
  <2>2. target' \in {"stopped", "failed"} /\ ~Up(r)
    BY <1>3, <2>1, SameTopology DEF Health!Classify, Health!DockerStatus, Up
  <2>3. SweepInv'
    BY <1>0, <2>1, <2>2 DEF LifeInv, SweepInv
  <2>4. SteadyInv'
    BY <1>0, <2>1, <2>2 DEF LifeInv, SteadyInv
  <2>5. SweepWrites
    BY <1>0, NothingWritten
  <2>. QED
    BY <2>3, <2>4, <2>5, WritesKeep DEF LifeInv
<1>. QED
  BY <1>1, <1>2, <1>3

LEMMA UpdateReplicaStep ==
    ASSUME LifeInv, Health!UpdateReplica, UNCHANGED notShared, Steady(FALSE)
    PROVE  LifeInv'
<1>0. /\ steady' \subseteq steady /\ sweep = "update" /\ UNCHANGED <<dep, cont, todo>>
      /\ item \in ReplicaIds /\ target \in {"stopped", "failed"} /\ item[1] \in Deployments
      /\ dep \in [Deployments -> DepStatus] /\ rep \in [ReplicaIds -> RepStatus]
      /\ cont' \in [ContainerNames -> ContStatus]
  BY Thinner, ReplicaIdShape DEF Health!UpdateReplica, LifeInv, SweepInv, TypeOK
<1>1. CASE rep[item] # "running"
  <2>1. Health!Resume /\ UNCHANGED <<rep, touched>>
    BY <1>1 DEF Health!UpdateReplica
  <2>. QED
    BY <1>0, <2>1, ResumeStep DEF Health!Resume
<1>2. CASE rep[item] = "running"
  <2>1. /\ rep' = [rep EXCEPT ![item] = target] /\ touched' = touched \cup {item[1]}
        /\ sweep' \in {"restart", "items"} /\ (sweep' = "restart" => item' = item)
    BY <1>2 DEF Health!UpdateReplica, Health!Resume
  <2>2. /\ rep' \in [ReplicaIds -> RepStatus] /\ rep'[item] = target
        /\ \A s \in ReplicaIds \ {item} : rep'[s] = rep[s]
    BY <1>0, <2>1 DEF RepStatus
  <2>3. SweepWrites
    BY <1>0, <1>2, <2>2 DEF SweepWrites
  <2>4. SweepInv'
    BY <1>0, <2>1 DEF LifeInv, SweepInv
  <2>5. SteadyInv'
    BY <1>0, <2>1, <2>2 DEF LifeInv, SteadyInv
  <2>. QED
    BY <2>3, <2>4, <2>5, WritesKeep DEF LifeInv
<1>. QED
  BY <1>1, <1>2

LEMMA RestartReplicaStep ==
    ASSUME LifeInv, Health!RestartReplica, UNCHANGED notShared, Steady(FALSE)
    PROVE  LifeInv'
<1>0. /\ steady' \subseteq steady /\ sweep = "restart" /\ UNCHANGED <<dep, rep, todo, touched>>
      /\ item \in ReplicaIds
  BY Thinner DEF Health!RestartReplica, LifeInv, SweepInv
<1>1. cont' \in [ContainerNames -> ContStatus]
  BY DEF Health!RestartReplica, LifeInv, TypeOK, ContStatus
<1>2. \/ Health!Resume
      \/ sweep' \in {"up", "gone"} /\ UNCHANGED <<item, target>>
  BY DEF Health!RestartReplica
<1>3. CASE Health!Resume
  BY <1>0, <1>1, <1>3, ResumeStep DEF Health!Resume
<1>4. CASE sweep' \in {"up", "gone"} /\ UNCHANGED <<item, target>>
  <2>1. SweepInv'
    BY <1>0, <1>4 DEF LifeInv, SweepInv
  <2>2. SteadyInv'
    BY <1>0, <1>4 DEF LifeInv, SteadyInv
  <2>3. SweepWrites
    BY <1>0, <1>1, NothingWritten
  <2>. QED
    BY <2>1, <2>2, <2>3, WritesKeep DEF LifeInv
<1>. QED
  BY <1>2, <1>3, <1>4

LEMMA FollowRestartStep ==
    ASSUME LifeInv, Health!FollowRestart, UNCHANGED notShared, Steady(FALSE)
    PROVE  LifeInv'
<1>0. /\ steady' \subseteq steady /\ UNCHANGED <<dep, cont, todo, touched>>
      /\ sweep' = "items" /\ item \in ReplicaIds
      /\ dep \in [Deployments -> DepStatus] /\ rep \in [ReplicaIds -> RepStatus]
      /\ cont' \in [ContainerNames -> ContStatus]
  BY Thinner DEF Health!FollowRestart, Health!Resume, LifeInv, SweepInv, TypeOK
<1>1. /\ rep' \in [ReplicaIds -> RepStatus]
      /\ \A s \in ReplicaIds : rep'[s] = rep[s] \/ (/\ rep[s] = "stopped"
                                                    /\ rep'[s] \in {"running", "failed"})
  BY <1>0 DEF Health!FollowRestart, RepStatus
<1>2. SweepWrites
  BY <1>0, <1>1 DEF SweepWrites
<1>3. SweepInv'
  BY <1>0 DEF LifeInv, SweepInv
<1>4. SteadyInv'
  BY <1>0, <1>1 DEF LifeInv, SteadyInv
<1>. QED
  BY <1>2, <1>3, <1>4, WritesKeep DEF LifeInv

(* A deployment whose replicas are all down by their rows has no replica   *)
(* that was up all along, unless it was deleted.                           *)
LEMMA AggregateStep ==
    ASSUME LifeInv, NEW d \in Deployments, Health!Aggregate(d), UNCHANGED notShared,
           Steady(FALSE)
    PROVE  LifeInv'
<1>0. /\ steady' \subseteq steady /\ UNCHANGED <<dep, rep, cont, todo>>
      /\ touched' \subseteq touched /\ item' = d /\ target' = Health!RollUp(d)
      /\ sweep' = "write" /\ cont' \in [ContainerNames -> ContStatus]
  BY Thinner DEF Health!Aggregate, LifeInv, TypeOK
<1>1. /\ target' \in {"running", "stopped", "failed"}
      /\ target' # "running" => \A r \in ReplicaIds : r[1] = d => rep[r] # "running"
  BY <1>0, SameTopology DEF Health!RollUp, Health!Rows
<1>2. SweepInv'
  BY <1>0, <1>1 DEF LifeInv, SweepInv
<1>3. SteadyInv'
  BY <1>0, <1>1 DEF LifeInv, SteadyInv
<1>4. SweepWrites
  BY <1>0, NothingWritten
<1>. QED
  BY <1>2, <1>3, <1>4, WritesKeep DEF LifeInv

LEMMA WriteStatusStep ==
    ASSUME LifeInv, Health!WriteStatus, UNCHANGED notShared, Steady(FALSE)
    PROVE  LifeInv'
<1>0. /\ steady' \subseteq steady /\ UNCHANGED <<rep, cont, todo, touched>>
      /\ sweep' = "items" /\ item \in Deployments
      /\ target \in {"running", "stopped", "failed"}
      /\ dep \in [Deployments -> DepStatus] /\ rep \in [ReplicaIds -> RepStatus]
      /\ cont' \in [ContainerNames -> ContStatus]
  BY Thinner DEF Health!WriteStatus, Health!Resume, LifeInv, SweepInv, TypeOK
<1>1. /\ dep' \in [Deployments -> DepStatus]
      /\ \A d \in Deployments :
            dep'[d] = dep[d] \/ (/\ dep[d] \notin {"deleted", "failed"}
                                 /\ dep'[d] \in {"running", "stopped", "failed"})
  BY <1>0 DEF Health!WriteStatus, DepStatus
<1>2. SweepWrites
  BY <1>0, <1>1 DEF SweepWrites
<1>3. SweepInv'
  BY <1>0 DEF LifeInv, SweepInv
<1>4. SteadyInv'
  BY <1>0, <1>1, ReplicaIdShape DEF LifeInv, SteadyInv
<1>. QED
  BY <1>2, <1>3, <1>4, WritesKeep DEF LifeInv

LEMMA SweepEnds ==
    ASSUME LifeInv, Health!EndSweep \/ Health!StatementFails \/ Health!SweepDies,
           UNCHANGED notShared, Steady(FALSE)
    PROVE  LifeInv'
<1>1. /\ steady' \subseteq steady /\ UNCHANGED <<dep, rep>> /\ sweep' \in {"idle", "items"}
      /\ todo' \subseteq todo /\ touched' \subseteq touched
      /\ cont' \in [ContainerNames -> ContStatus]
  BY Thinner DEF Health!EndSweep, Health!StatementFails, Health!SweepDies, Health!Resume,
     LifeInv, TypeOK
<1>2. SweepInv' /\ SteadyInv'
  BY <1>1 DEF LifeInv, SweepInv, SteadyInv
<1>. QED
  BY <1>1, <1>2, NothingWritten, WritesKeep DEF LifeInv

LEMMA ContainerChangesStep ==
    ASSUME LifeInv, NEW n \in ContainerNames, ContainerChanges(n) PROVE LifeInv'
<1>1. /\ UNCHANGED <<dep, rep, notShared, sweep, todo, item, target, touched>>
      /\ steady' \subseteq steady /\ cont' \in [ContainerNames -> ContStatus]
  BY Thinner DEF ContainerChanges, sweepVars, LifeInv, TypeOK, ContStatus
<1>2. SweepInv' /\ SteadyInv'
  BY <1>1 DEF LifeInv, SweepInv, SteadyInv
<1>. QED
  BY <1>1, <1>2, NothingWritten, WritesKeep DEF LifeInv

(* A step of the provisioning path, or none.                               *)
LEMMA BesideStep ==
    ASSUME LifeInv, [Next]_vars, UNCHANGED sweepVars, steady' \subseteq steady PROVE LifeInv'
<1>0. UNCHANGED <<sweep, todo, item, target, touched>>
  BY DEF sweepVars
<1>1. TypeOK' /\ JobInv' /\ RowInv' /\ DoneMeansDecided'
  BY NextType, NextJob, NextRow, NextDone DEF LifeInv
<1>2. SweepInv'
  BY <1>0 DEF LifeInv, SweepInv
<1>3. ASSUME NEW d \in Deployments, dep[d] = "deleted" PROVE dep'[d] = "deleted"
  BY <1>3, NextDeleted DEF LifeInv
<1>4. ASSUME NEW r \in steady' PROVE rep'[r] = "running" \/ dep'[r[1]] = "deleted"
  <2>1. r \in ReplicaIds /\ r[1] \in Deployments
    BY <1>4, ReplicaIdShape DEF LifeInv, SteadyInv
  <2>2. CASE dep[r[1]] = "deleted"
    BY <1>3, <2>1, <2>2
  <2>3. CASE rep[r] = "running"
    BY <2>1, <2>3, RowsStayUp DEF LifeInv
  <2>. QED
    BY <1>4, <2>2, <2>3 DEF LifeInv, SteadyInv
<1>5. SteadyInv'
  BY <1>0, <1>3, <1>4, <1>2 DEF LifeInv, SteadyInv, SweepInv
<1>. QED
  BY <1>1, <1>2, <1>5 DEF LifeInv

LEMMA InitLifeInv == ASSUME LifeInit PROVE LifeInv
<1>1. TypeOK /\ JobInv /\ RowInv /\ DoneMeansDecided
  BY InitInv DEF LifeInit, IInv
<1>2. SweepInv /\ SteadyInv
  BY DEF LifeInit, Health!SweepInit, SweepInv, SteadyInv
<1>. QED
  BY <1>1, <1>2 DEF LifeInv

LEMMA NextLifeInv == ASSUME LifeInv, [LifeNext]_lifeVars PROVE LifeInv'
<1>1. CASE ProvisioningStep
  <2>1. steady' \subseteq steady
    BY <1>1, Thinner DEF ProvisioningStep, BesideSweep
  <2>. QED
    BY <1>1, <2>1, BesideStep DEF ProvisioningStep, BesideSweep
<1>2. CASE Sweeping
  BY <1>2, LookStep, UpdateReplicaStep, RestartReplicaStep, FollowRestartStep, AggregateStep,
     WriteStatusStep, SweepEnds DEF Sweeping
<1>3. CASE SweepFault
  BY <1>3, SweepEnds DEF SweepFault
<1>4. CASE UNCHANGED lifeVars
  BY <1>4, BesideStep DEF lifeVars
<1>. QED
  BY <1>1, <1>2, <1>3, <1>4, ListingStep, ContainerChangesStep DEF LifeNext

(* What a step of Lifecycle is to the provisioning path: a step of its     *)
(* own, or writes of the sweep.                                            *)
LEMMA LifeSteps ==
    ASSUME LifeInv, [LifeNext]_lifeVars
    PROVE  \/ [Next]_vars
           \/ UNCHANGED notShared /\ SweepWrites
<1>1. ASSUME \/ \E r \in ReplicaIds : Health!Look(r) \/ Health!LookFails(r)
             \/ \E d \in Deployments : Health!Aggregate(d)
             \/ \E n \in ContainerNames : ContainerChanges(n)
             \/ Health!List \/ Health!RestartReplica \/ Health!EndSweep
             \/ Health!StatementFails \/ Health!SweepDies
      PROVE  SweepWrites
  <2>1. UNCHANGED <<dep, rep>> /\ cont' \in [ContainerNames -> ContStatus]
    BY <1>1 DEF Health!Look, Health!LookFails, Health!Aggregate, ContainerChanges, Health!List,
       Health!RestartReplica, Health!EndSweep, Health!StatementFails, Health!SweepDies,
       LifeInv, TypeOK, ContStatus
  <2>. QED
    BY <2>1, NothingWritten
<1>2. ASSUME Health!UpdateReplica PROVE SweepWrites
  BY <1>2 DEF Health!UpdateReplica, SweepWrites, LifeInv, SweepInv, TypeOK, RepStatus
<1>3. ASSUME Health!FollowRestart PROVE SweepWrites
  BY <1>3 DEF Health!FollowRestart, SweepWrites, LifeInv, SweepInv, TypeOK, RepStatus
<1>4. ASSUME Health!WriteStatus PROVE SweepWrites
  BY <1>4 DEF Health!WriteStatus, SweepWrites, LifeInv, SweepInv, TypeOK, DepStatus
<1>5. CASE Sweeping
  BY <1>1, <1>2, <1>3, <1>4, <1>5 DEF Sweeping
<1>6. CASE SweepFault
  BY <1>1, <1>6 DEF SweepFault
<1>7. CASE Listing
  BY <1>1, <1>7 DEF Listing
<1>8. ASSUME NEW n \in ContainerNames, ContainerChanges(n)
      PROVE  UNCHANGED notShared /\ SweepWrites
  BY <1>1, <1>8 DEF ContainerChanges
<1>. QED
  BY <1>5, <1>6, <1>7, <1>8 DEF LifeNext, ProvisioningStep, lifeVars

(* No step of the provisioning path takes a deployment out of 'failed' but *)
(* a request that names it.                                                *)
LEMMA FailedNext ==
    ASSUME TypeOK, [Next]_vars, NEW d \in Deployments, dep[d] = "failed", dep'[d] # "failed"
    PROVE  \E q \in Requests : req[q].dep = d /\ req'[q] # req[q]
<1>1. \/ UNCHANGED dep
      \/ \E e \in Deployments : CreateDeployment(e)
      \/ \E q \in Requests : DeleteFlip(q) \/ DeleteMark(q) \/ RestartRow(q)
      \/ \E w \in Workers : MarkProvisionRunning(w) \/ MarkDeploymentFailed(w)
      \/ ReapStuckProvisioning \/ \E aged \in SUBSET Deployments : Boot(aged)
  BY DepWriters
<1>2. ASSUME NEW e \in Deployments, CreateDeployment(e) PROVE FALSE
  BY <1>2 DEF CreateDeployment, TypeOK
<1>3. ASSUME NEW q \in Requests, DeleteFlip(q) \/ DeleteMark(q) \/ RestartRow(q)
      PROVE  req[q].dep = d /\ req'[q] # req[q]
  <2>1. /\ req[q].pc \in {"flip", "mark", "depup"} /\ req'[q].pc \in {"free", "idle"}
        /\ \A e \in Deployments \ {req[q].dep} : dep'[e] = dep[e]
    BY <1>3 DEF DeleteFlip, DeleteMark, RestartRow, SetRequest, EndRequest, At, IdleRequest,
       TypeOK
  <2>. QED
    BY <2>1
<1>4. ASSUME NEW w \in Workers, MarkProvisionRunning(w) PROVE FALSE
  BY <1>4 DEF MarkProvisionRunning, TypeOK
<1>5. ASSUME NEW w \in Workers, MarkDeploymentFailed(w) PROVE FALSE
  BY <1>5 DEF MarkDeploymentFailed, FailProvisioning
<1>6. ASSUME ReapStuckProvisioning PROVE FALSE
  BY <1>6 DEF ReapStuckProvisioning, FailProvisioning
<1>7. ASSUME NEW aged \in SUBSET Deployments, Boot(aged) PROVE FALSE
  BY <1>7 DEF Boot, FailProvisioning
<1>. QED
  BY <1>1, <1>2, <1>3, <1>4, <1>5, <1>6, <1>7

(* With a health sweep, its faults and containers that die by themselves   *)
(* beside it, the provisioning path keeps its types, its claims and its    *)
(* rows, and the sweep knows what it is about to write.                    *)
THEOREM LifeInvariance == LifeSpec => []LifeInv
<1>1. LifeInit => LifeInv
  BY InitLifeInv
<1>2. LifeInv /\ [LifeNext]_lifeVars => LifeInv'
  BY NextLifeInv
<1>. QED
  BY <1>1, <1>2, PTL DEF LifeSpec

(* The health worker takes a deployment down, and pages, only when none of *)
(* the replicas it listed has been up all along: for any fleet, with and   *)
(* without auto-restart, and whatever of the sweep fails.                  *)
THEOREM SweepsAreTruthful == LifeSpec => DownIsReal
<1>1. ASSUME LifeInv, NEW d \in Deployments, Health!Pages(d)
      PROVE  \A r \in steady : r[1] # d
  BY <1>1 DEF Health!Pages, LifeInv, SteadyInv
<1>2. LifeInv => [\A d \in Deployments :
                    Health!Pages(d) /\ dep'[d] # dep[d] =>
                        \A r \in steady : r[1] # d]_lifeVars
  BY <1>1
<1>. QED
  BY <1>2, LifeInvariance, PTL DEF DownIsReal

(* A failed deployment is left to the operator: no worker, reaper, boot or *)
(* sweep moves it.                                                         *)
THEOREM FailedStaysFailed == LifeSpec => FailedUntilOperator
<1>1. ASSUME LifeInv, [LifeNext]_lifeVars, NEW d \in Deployments, dep[d] = "failed",
             dep'[d] # "failed"
      PROVE  \E q \in Requests : req[q].dep = d /\ req'[q] # req[q]
  <2>1. CASE [Next]_vars
    BY <1>1, <2>1, FailedNext DEF LifeInv
  <2>2. CASE UNCHANGED notShared /\ SweepWrites
    BY <1>1, <2>2 DEF SweepWrites
  <2>. QED
    BY <1>1, <2>1, <2>2, LifeSteps
<1>2. LifeInv /\ [LifeNext]_lifeVars =>
        [\A d \in Deployments :
            dep[d] = "failed" /\ dep'[d] # "failed" =>
                \E q \in Requests : req[q].dep = d /\ req'[q] # req[q]]_lifeVars
  BY <1>1
<1>. QED
  BY <1>2, LifeInvariance, PTL DEF LifeSpec, FailedUntilOperator

(* 'deleted' is final for the health worker too, which writes a status it  *)
(* computed earlier.                                                       *)
THEOREM DeletedFinalUnderSweeps == LifeSpec => DeletedIsFinal
<1>1. ASSUME LifeInv, [LifeNext]_lifeVars, NEW d \in Deployments, dep[d] = "deleted"
      PROVE  dep'[d] = "deleted"
  <2>1. CASE [Next]_vars
    BY <1>1, <2>1, NextDeleted DEF LifeInv
  <2>2. CASE UNCHANGED notShared /\ SweepWrites
    BY <1>1, <2>2 DEF SweepWrites
  <2>. QED
    BY <1>1, <2>1, <2>2, LifeSteps
<1>2. LifeInv /\ [LifeNext]_lifeVars =>
        [\A d \in Deployments : dep[d] = "deleted" => dep'[d] = "deleted"]_vars
  BY <1>1
<1>. QED
  BY <1>2, LifeInvariance, PTL DEF LifeSpec, DeletedIsFinal

(* The queue keeps its lease while the sweep runs beside it.               *)
THEOREM LeaseKeptUnderSweeps == LifeSpec => LeaseSpec
<1>1. LifeInit => Lease!Init
  BY DEF LifeInit, Init, Lease!Init
<1>2. ASSUME LifeInv, [LifeNext]_lifeVars PROVE [Lease!Next]_Lease!leaseVars
  <2>1. CASE [Next]_vars
    BY <1>2, <2>1, NextLease DEF LifeInv
  <2>2. CASE UNCHANGED notShared
    BY <2>2 DEF notShared, jobVars, Lease!leaseVars
  <2>. QED
    BY <1>2, <2>1, <2>2, LifeSteps
<1>3. LifeInv /\ [LifeNext]_lifeVars => [Lease!Next]_Lease!leaseVars
  BY <1>2
<1>. QED
  BY <1>1, <1>3, LifeInvariance, PTL DEF LifeSpec, LeaseSpec, Lease!Spec

=============================================================================
