-------------------------- MODULE ReconcileProofs --------------------------
(***************************************************************************)
(* TLAPS proofs about Reconcile, for every set of deployments and workers, *)
(* every number of runs, attempts and events.                              *)
(*                                                                         *)
(* A worker marks its job and rolls its run up by id, whoever holds the    *)
(* claim by then.  What makes that safe is that no statement but Apply's   *)
(* makes a job live again that was not: a process that counted no live     *)
(* job may take its time to finalize the run.                              *)
(***************************************************************************)
EXTENDS Reconcile, TLAPS

Labels == {"idle", "gate", "create", "provision", "mark", "restart", "reflect", "job",
           "row", "step", "close", "inflight", "count", "finalize"}

Settled(k) == \A j \in Jobs : j[1] = k => ~Live(j)

JobInv ==
    \A j \in Jobs :
       /\ run[j[1]] = "none" => job[j] = "none"
       /\ job[j] = "none" => attempts[j] = 0
       /\ job[j] = "pending" => attempts[j] < MaxAttempts
       /\ job[j] # "none" => action[j] # "none"

(* What a process carries; Settled outlives its count.                     *)
ProcOK(p) ==
    /\ pc[p] # "idle" => /\ cur[p] \in Jobs /\ run[cur[p][1]] # "none"
                         /\ p \in Workers => job[cur[p]] # "none"
    /\ pc[p] \in {"count", "finalize"} => Settled(cur[p][1])
    /\ pc[p] = "finalize" => outcome[p] \in {"succeeded", "failed"}

ProcInv == \A p \in Procs : ProcOK(p)

FinalInv == \A k \in Runs : run[k] \in {"succeeded", "failed"} => Settled(k)

IInv == TypeOK /\ JobInv /\ ProcInv /\ FinalInv

LEMMA RunOfJob == \A j \in Jobs : j[1] \in Runs /\ j[2] \in Deployments
  BY DEF Jobs

(* A job that is not live becomes live in a run that is just beginning.    *)
Reopens(j) == ~Live(j) /\ Live(j)'

LEMMA SettledStays ==
    ASSUME NEW k \in Runs, Settled(k), \A j \in Jobs : j[1] = k => ~Reopens(j)
    PROVE  Settled(k)'
  BY DEF Settled, Reopens

(* What is left to show of a step of one process ...                       *)
LEMMA ProcStays ==
    ASSUME IInv, NEW x \in Procs,
           pc'[x] = pc[x] /\ cur'[x] = cur[x] /\ outcome'[x] = outcome[x],
           \A k \in Runs : run[k] # "none" => run'[k] # "none",
           \A j \in Jobs : job[j] # "none" => job'[j] # "none",
           \A j \in Jobs : run[j[1]] # "none" => ~Reopens(j)
    PROVE  ProcOK(x)'
<1>1. ProcOK(x) /\ pc'[x] = pc[x] /\ cur'[x] = cur[x] /\ outcome'[x] = outcome[x]
  BY DEF IInv, ProcInv
<1>2. pc[x] # "idle" => cur[x][1] \in Runs
  BY <1>1, RunOfJob DEF ProcOK
<1>3. pc[x] \in {"count", "finalize"} => Settled(cur[x][1])'
  BY <1>1, <1>2, SettledStays DEF ProcOK
<1> QED
  BY <1>1, <1>2, <1>3 DEF ProcOK

LEMMA ProcStep ==
    ASSUME IInv, NEW p \in Procs, TypeOK', JobInv', FinalInv', ProcOK(p)',
           \A x \in Procs \ {p} : pc'[x] = pc[x] /\ cur'[x] = cur[x] /\ outcome'[x] = outcome[x],
           \A k \in Runs : run[k] # "none" => run'[k] # "none",
           \A j \in Jobs : job[j] # "none" => job'[j] # "none",
           \A j \in Jobs : run[j[1]] # "none" => ~Reopens(j)
    PROVE  IInv'
<1>1. ProcInv'
  BY ProcStays DEF ProcInv
<1> QED
  BY <1>1 DEF IInv

(* ... and of one that moves no process.                                   *)
LEMMA StillStep ==
    ASSUME IInv, TypeOK', JobInv', FinalInv', UNCHANGED <<pc, cur, outcome>>,
           \A k \in Runs : run[k] # "none" => run'[k] # "none",
           \A j \in Jobs : job[j] # "none" => job'[j] # "none",
           \A j \in Jobs : run[j[1]] # "none" => ~Reopens(j)
    PROVE  IInv'
<1>1. ProcInv'
  BY ProcStays DEF ProcInv
<1> QED
  BY <1>1 DEF IInv

(* A step that leaves the runs and the jobs alone.                         *)
LEMMA QuietStep ==
    ASSUME IInv, NEW p \in Procs, TypeOK', ProcOK(p)', UNCHANGED <<run, job, action, attempts>>,
           \A x \in Procs \ {p} : pc'[x] = pc[x] /\ cur'[x] = cur[x] /\ outcome'[x] = outcome[x]
    PROVE  IInv'
<1>1. JobInv' /\ FinalInv'
  BY DEF IInv, JobInv, FinalInv, Settled, Live
<1>2. \A j \in Jobs : ~Reopens(j)
  BY DEF Reopens, Live
<1> QED
  BY <1>1, <1>2, ProcStep

(* The ways in which a process moves on.                                   *)
LEMMA GotoMoves ==
    ASSUME IInv, NEW p \in Procs, pc[p] # "idle", NEW label \in Labels \ {"count", "finalize"},
           Goto(p, label), UNCHANGED <<run, job, action, attempts>>, TypeOK'
    PROVE  IInv'
<1>1. /\ pc' = [pc EXCEPT ![p] = label] /\ cur' = cur /\ outcome' = outcome
      /\ pc \in [Procs -> Labels]
  BY DEF Goto, IInv, TypeOK, Labels
<1>2. ProcOK(p)'
  BY <1>1 DEF IInv, ProcInv, ProcOK
<1>3. \A x \in Procs \ {p} : pc'[x] = pc[x]
  BY <1>1
<1> QED
  BY <1>1, <1>2, <1>3, QuietStep

LEMMA FinishMoves ==
    ASSUME IInv, NEW p \in Procs, pc[p] # "idle", NEW o \in Outcomes,
           Finish(p, o), UNCHANGED <<run, job, action, attempts>>, TypeOK'
    PROVE  IInv'
<1>1. /\ pc' = [pc EXCEPT ![p] = "job"] /\ cur' = cur
      /\ outcome' = [outcome EXCEPT ![p] = o]
      /\ pc \in [Procs -> Labels] /\ outcome \in [Procs -> Outcomes \cup {"none"}]
  BY DEF Finish, IInv, TypeOK, Labels
<1>2. ProcOK(p)'
  BY <1>1 DEF IInv, ProcInv, ProcOK
<1>3. \A x \in Procs \ {p} : pc'[x] = pc[x] /\ outcome'[x] = outcome[x]
  BY <1>1
<1> QED
  BY <1>1, <1>2, <1>3, QuietStep

LEMMA RestMoves ==
    ASSUME IInv, NEW p \in Procs, Rest(p), UNCHANGED <<run, job, action, attempts>>, TypeOK'
    PROVE  IInv'
<1>1. /\ pc' = [pc EXCEPT ![p] = "idle"] /\ cur' = [cur EXCEPT ![p] = None]
      /\ outcome' = [outcome EXCEPT ![p] = "none"]
      /\ pc \in [Procs -> Labels] /\ cur \in [Procs -> Jobs \cup {None}]
      /\ outcome \in [Procs -> Outcomes \cup {"none"}]
  BY DEF Rest, IInv, TypeOK, Labels
<1>2. ProcOK(p)'
  BY <1>1 DEF ProcOK
<1>3. \A x \in Procs \ {p} : pc'[x] = pc[x] /\ cur'[x] = cur[x] /\ outcome'[x] = outcome[x]
  BY <1>1
<1> QED
  BY <1>1, <1>2, <1>3, QuietStep

(* The types of the process variables along those ways.                    *)
ProcTypes ==
    /\ pc \in [Procs -> Labels] /\ cur \in [Procs -> Jobs \cup {None}]
    /\ late \in [Procs -> BOOLEAN] /\ outcome \in [Procs -> Outcomes \cup {"none"}]

LEMMA MoveTypes ==
    ASSUME IInv, NEW p \in Procs,
           \/ \E label \in Labels : Goto(p, label)
           \/ \E o \in Outcomes : Finish(p, o)
           \/ Rest(p)
    PROVE  ProcTypes'
<1>1. ProcTypes
  BY DEF IInv, TypeOK, ProcTypes, Labels
<1>2. ASSUME NEW label \in Labels, Goto(p, label) PROVE ProcTypes'
  BY <1>1, <1>2 DEF Goto, ProcTypes
<1>3. ASSUME NEW o \in Outcomes, Finish(p, o) PROVE ProcTypes'
  BY <1>1, <1>3 DEF Finish, ProcTypes, Labels
<1>4. CASE Rest(p)
  BY <1>1, <1>4 DEF Rest, ProcTypes, Labels
<1> QED
  BY <1>2, <1>3, <1>4

DepTypes ==
    /\ dep \in [Deployments -> {"provisioning", "running", "stopped", "failed", "deleted"}]
    /\ rep \in [Deployments -> {"running", "stopped"}]
    /\ cont \in [Deployments -> Containers] /\ obs \in [Deployments -> Containers]
    /\ applyOn \in BOOLEAN
    /\ del \in [Deployments -> {"no", "flip", "destroy", "mark"}]
    /\ events \in 0 .. MaxEvents

LedgerTypes ==
    /\ run \in [Runs -> {"none", "running", "succeeded", "failed"}]
    /\ step \in [Jobs -> {"none", "planned"} \cup Outcomes]
    /\ aged \subseteq Runs

JobTypes ==
    /\ job \in [Jobs -> {"none", "pending", "claimed", "done", "failed"}]
    /\ action \in [Jobs -> {"none", "create", "restart"}]
    /\ holder \in [Jobs -> Workers \cup {None}]
    /\ attempts \in [Jobs -> 0 .. MaxAttempts]

LEMMA Types == /\ TypeOK <=> DepTypes /\ LedgerTypes /\ JobTypes /\ ProcTypes
               /\ TypeOK' <=> DepTypes' /\ LedgerTypes' /\ JobTypes' /\ ProcTypes'
  BY DEF TypeOK, DepTypes, LedgerTypes, JobTypes, ProcTypes, Labels

(* The Docker calls of a worker, and its writes of the deployment row.     *)
LEMMA DepTypesStep ==
    ASSUME IInv, NEW w \in Workers, pc[w] # "idle",
           \/ Gate(w) \/ ClaimCreate(w) \/ Provision(w) \/ ProvisionFails(w) \/ MarkRunning(w)
           \/ Restart(w) \/ Reflect(w) \/ ActionFails(w) \/ MarkRow(w)
    PROVE  DepTypes'
<1>0. DepTypes /\ cur[w][2] \in Deployments
  BY Types, RunOfJob DEF IInv, ProcInv, ProcOK, Procs
<1> USE <1>0 DEF DepTypes, envVars, worldVars
<1>1. CASE Gate(w) \/ ActionFails(w)
  BY <1>1 DEF Gate, ActionFails
<1>2. CASE ClaimCreate(w)
  BY <1>2 DEF ClaimCreate
<1>3. CASE Provision(w) \/ Restart(w)
  BY <1>3 DEF Provision, Restart, Containers
<1>4. CASE ProvisionFails(w)
  BY <1>4 DEF ProvisionFails, Containers
<1>5. CASE MarkRunning(w)
  BY <1>5 DEF MarkRunning
<1>6. CASE Reflect(w)
  BY <1>6 DEF Reflect
<1>7. CASE MarkRow(w)
  BY <1>7 DEF MarkRow
<1> QED
  BY <1>1, <1>2, <1>3, <1>4, <1>5, <1>6, <1>7

LEMMA ActionSteps ==
    ASSUME IInv, NEW w \in Workers,
           \/ Gate(w) \/ ClaimCreate(w) \/ Provision(w) \/ ProvisionFails(w) \/ MarkRunning(w)
           \/ Restart(w) \/ Reflect(w) \/ ActionFails(w) \/ MarkRow(w)
    PROVE  IInv'
<1>0. w \in Procs
  BY DEF Procs
<1>1. pc[w] # "idle" /\ UNCHANGED <<ledgerVars, jobVars>>
  BY DEF Gate, ClaimCreate, Provision, ProvisionFails, MarkRunning, Restart, Reflect,
     ActionFails, MarkRow
<1>2. LedgerTypes' /\ JobTypes' /\ UNCHANGED <<run, job, action, attempts>>
  BY <1>1, Types DEF IInv, LedgerTypes, JobTypes, ledgerVars, jobVars
<1>3. DepTypes'
  BY <1>1, DepTypesStep
<1>4. pc[w] = "gate" => action[cur[w]] \in {"create", "restart"}
  <2>1. pc[w] = "gate" => cur[w] \in Jobs /\ job[cur[w]] # "none"
    BY <1>0 DEF IInv, ProcInv, ProcOK
  <2> QED
    BY <2>1, Types DEF IInv, JobInv, JobTypes
<1>5. \/ \E label \in Labels \ {"count", "finalize"} : Goto(w, label)
      \/ \E o \in Outcomes : Finish(w, o)
  BY <1>4 DEF Gate, ClaimCreate, Provision, ProvisionFails, MarkRunning, Restart, Reflect,
     ActionFails, MarkRow, Labels, Outcomes
<1>6. TypeOK'
  BY <1>0, <1>2, <1>3, <1>5, MoveTypes, Types
<1> QED
  BY <1>0, <1>1, <1>2, <1>5, <1>6, GotoMoves, FinishMoves

(* Claiming takes a pending job, one more attempt of which is allowed.     *)
LEMMA ClaimStep ==
    ASSUME IInv, NEW w \in Workers, NEW j \in Jobs, ClaimNext(w, j)
    PROVE  IInv'
<1>0. w \in Procs /\ j[1] \in Runs
  BY RunOfJob DEF Procs
<1>t. DepTypes /\ LedgerTypes /\ JobTypes /\ ProcTypes
  BY Types DEF IInv
<1>1. /\ job[j] = "pending" /\ job' = [job EXCEPT ![j] = "claimed"]
      /\ holder' = [holder EXCEPT ![j] = w] /\ attempts' = [attempts EXCEPT ![j] = @ + 1]
      /\ UNCHANGED <<dep, rep, worldVars, ledgerVars, action, envVars>>
  BY DEF ClaimNext
<1>2. /\ cur' = [cur EXCEPT ![w] = j] /\ late' = [late EXCEPT ![w] = FALSE]
      /\ \E l \in {"job", "gate"} : pc' = [pc EXCEPT ![w] = l]
      /\ \E o \in {"skipped", "none"} : outcome' = [outcome EXCEPT ![w] = o]
  BY DEF ClaimNext
<1>3. attempts[j] < MaxAttempts /\ attempts[j] \in Nat /\ run[j[1]] # "none" /\ action[j] # "none"
  BY <1>1, <1>t, RunsAssumption DEF IInv, JobInv, JobTypes
<1>4. DepTypes' /\ LedgerTypes'
  BY <1>t, <1>1 DEF DepTypes, LedgerTypes, worldVars, ledgerVars, envVars
<1>5. JobTypes'
  <2>1. attempts' \in [Jobs -> 0 .. MaxAttempts]
    BY <1>1, <1>3, <1>t, RunsAssumption DEF JobTypes
  <2> QED
    BY <1>1, <1>t, <2>1 DEF JobTypes
<1>6. ProcTypes'
  BY <1>0, <1>2, <1>t DEF ProcTypes, Labels, Outcomes
<1>7. JobInv'
  BY <1>1, <1>3, <1>t DEF IInv, JobInv, JobTypes, ledgerVars
<1>8. \A i \in Jobs : ~Reopens(i) /\ (job[i] # "none" => job'[i] # "none")
  BY <1>1, <1>t DEF Reopens, Live, JobTypes
<1>9. FinalInv'
  BY <1>1, <1>8, SettledStays DEF IInv, FinalInv, ledgerVars
<1>10. ProcOK(w)'
  BY <1>0, <1>1, <1>2, <1>3, <1>t DEF ProcOK, ProcTypes, JobTypes, ledgerVars
<1>11. \A x \in Procs \ {w} : pc'[x] = pc[x] /\ cur'[x] = cur[x] /\ outcome'[x] = outcome[x]
  BY <1>0, <1>2, <1>t DEF ProcTypes
<1>12. UNCHANGED run
  BY <1>1 DEF ledgerVars
<1> QED
  BY <1>0, <1>4, <1>5, <1>6, <1>7, <1>8, <1>9, <1>10, <1>11, <1>12, ProcStep, Types

(* A worker closes its job, which may be somebody else's by now.           *)
LEMMA MarkJobStep == ASSUME IInv, NEW w \in Workers, MarkJob(w) PROVE IInv'
<1>0. w \in Procs
  BY DEF Procs
<1>t. DepTypes /\ LedgerTypes /\ JobTypes /\ ProcTypes
  BY Types DEF IInv
<1>1. /\ pc[w] = "job" /\ cur[w] \in Jobs /\ run[cur[w][1]] # "none" /\ job[cur[w]] # "none"
      /\ cur[w][1] \in Runs
  BY <1>0, RunOfJob DEF MarkJob, IInv, ProcInv, ProcOK
<1>2. /\ \E e \in {"done", "failed"} : job' = [job EXCEPT ![cur[w]] = e]
      /\ UNCHANGED <<dep, rep, worldVars, ledgerVars, action, holder, attempts, envVars>>
      /\ \E l \in {"row", "step"} : Goto(w, l)
  BY DEF MarkJob
<1>3. PICK e \in {"done", "failed"} : job' = [job EXCEPT ![cur[w]] = e]
  BY <1>2
<1>4. PICK l \in {"row", "step"} : Goto(w, l)
  BY <1>2
<1>5. DepTypes' /\ LedgerTypes' /\ JobTypes'
  BY <1>1, <1>2, <1>3, <1>t DEF DepTypes, LedgerTypes, JobTypes, worldVars, ledgerVars, envVars
<1>6. ProcTypes'
  BY <1>0, <1>4, MoveTypes DEF Labels
<1>7. JobInv'
  BY <1>1, <1>2, <1>3, <1>t DEF IInv, JobInv, JobTypes, ledgerVars
<1>8. \A i \in Jobs : ~Reopens(i) /\ (job[i] # "none" => job'[i] # "none")
  BY <1>1, <1>3, <1>t DEF Reopens, Live, JobTypes
<1>9. FinalInv'
  BY <1>2, <1>8, SettledStays DEF IInv, FinalInv, ledgerVars
<1>10. /\ pc' = [pc EXCEPT ![w] = l] /\ cur' = cur /\ outcome' = outcome /\ run' = run
  BY <1>2, <1>4 DEF Goto, ledgerVars
<1>11. ProcOK(w)'
  BY <1>0, <1>1, <1>8, <1>10, <1>t DEF ProcOK, ProcTypes
<1>12. \A x \in Procs \ {w} : pc'[x] = pc[x]
  BY <1>10, <1>t DEF ProcTypes
<1> QED
  BY <1>0, <1>5, <1>6, <1>7, <1>8, <1>9, <1>10, <1>11, <1>12, ProcStep, Types

(* The writes of the ledger, and those that are lost.                      *)
LEMMA LedgerSteps ==
    ASSUME IInv, NEW w \in Workers, WriteStep(w) \/ LedgerWriteLost(w)
    PROVE  IInv'
<1>0. w \in Procs
  BY DEF Procs
<1>t. DepTypes /\ LedgerTypes /\ JobTypes /\ ProcTypes
  BY Types DEF IInv
<1>1. /\ pc[w] # "idle" /\ UNCHANGED <<run, aged, jobVars, dep, rep, worldVars, del>>
      /\ \E l \in {"row", "step", "inflight"} : Goto(w, l)
  BY DEF WriteStep, LedgerWriteLost, ledgerVars, envVars
<1>2. events' \in 0 .. MaxEvents
  BY <1>t, EventsAssumption DEF WriteStep, LedgerWriteLost, Event, DepTypes, envVars
<1>3. step' \in [Jobs -> {"none", "planned"} \cup Outcomes]
  <2>1. CASE WriteStep(w)
    BY <1>0, <1>t, <2>1 DEF WriteStep, LedgerTypes, ProcTypes
  <2>2. CASE LedgerWriteLost(w)
    BY <1>t, <2>2 DEF LedgerWriteLost, LedgerTypes, ledgerVars
  <2> QED
    BY <2>1, <2>2
<1>4. DepTypes' /\ LedgerTypes' /\ JobTypes'
  BY <1>t, <1>1, <1>2, <1>3 DEF DepTypes, LedgerTypes, JobTypes, worldVars, jobVars
<1>5. TypeOK'
  BY <1>0, <1>1, <1>4, MoveTypes, Types DEF Labels
<1> QED
  BY <1>0, <1>1, <1>5, GotoMoves DEF Labels, jobVars

(* The rollup: what was counted settled is settled when it is finalized.   *)
LEMMA RollupSteps == ASSUME IInv, NEW p \in Procs, Rollup(p) PROVE IInv'
<1>t. DepTypes /\ LedgerTypes /\ JobTypes /\ ProcTypes
  BY Types DEF IInv
<1>1. CASE Inflight(p)
  <2>1. pc[p] = "inflight" /\ UNCHANGED <<dep, rep, worldVars, ledgerVars, jobVars, envVars>>
    BY <1>1 DEF Inflight
  <2>2. DepTypes' /\ LedgerTypes' /\ JobTypes'
    BY <1>t, <2>1 DEF DepTypes, LedgerTypes, JobTypes, worldVars, ledgerVars, jobVars, envVars
  <2>3. UNCHANGED <<run, job, action, attempts>>
    BY <2>1 DEF ledgerVars, jobVars
  <2>4. CASE Rest(p)
    BY <2>2, <2>3, <2>4, MoveTypes, RestMoves, Types
  <2>5. CASE Goto(p, "count") /\ ~(\E j \in RunJobs(p) : Live(j))
    <3>1. TypeOK'
      BY <2>2, <2>5, MoveTypes, Types DEF Labels
    <3>2. Settled(cur[p][1])
      BY <2>5 DEF Settled, RunJobs
    <3>3. pc' = [pc EXCEPT ![p] = "count"] /\ cur' = cur /\ outcome' = outcome
      BY <2>5 DEF Goto
    <3>4. \A x \in Procs : pc'[x] = IF x = p THEN "count" ELSE pc[x]
      BY <1>t, <3>3 DEF ProcTypes
    <3>5. ProcOK(p)
      BY DEF IInv, ProcInv
    <3>6. ProcOK(p)'
      BY <2>1, <2>3, <3>2, <3>3, <3>4, <3>5 DEF ProcOK, Settled, Live
    <3> QED
      BY <2>3, <3>1, <3>3, <3>4, <3>6, QuietStep
  <2> QED
    BY <1>1, <2>4, <2>5 DEF Inflight
<1>2. CASE Count(p)
  <2>1. pc[p] = "count" /\ UNCHANGED <<dep, rep, worldVars, ledgerVars, jobVars, cur, late, envVars>>
    BY <1>2 DEF Count
  <2>2. DepTypes' /\ LedgerTypes' /\ JobTypes'
    BY <1>t, <2>1 DEF DepTypes, LedgerTypes, JobTypes, worldVars, ledgerVars, jobVars, envVars
  <2>3. UNCHANGED <<run, job, action, attempts>>
    BY <2>1 DEF ledgerVars, jobVars
  <2>4. PICK o \in {"succeeded", "failed"} : outcome' = [outcome EXCEPT ![p] = o]
    BY <1>2 DEF Count
  <2>5. pc' = [pc EXCEPT ![p] = "finalize"] /\ cur' = cur /\ late' = late
    BY <1>2, <2>1 DEF Count
  <2>6. ProcTypes'
    BY <1>t, <2>4, <2>5 DEF ProcTypes, Labels, Outcomes
  <2>7. pc'[p] = "finalize" /\ outcome'[p] = o
        /\ \A x \in Procs \ {p} : pc'[x] = pc[x] /\ outcome'[x] = outcome[x]
    BY <1>t, <2>4, <2>5 DEF ProcTypes
  <2>8. ProcOK(p)
    BY DEF IInv, ProcInv
  <2>9. ProcOK(p)'
    BY <2>1, <2>3, <2>5, <2>7, <2>8 DEF ProcOK, Settled, Live
  <2> QED
    BY <2>2, <2>3, <2>5, <2>6, <2>7, <2>9, QuietStep, Types
<1>3. CASE Finalize(p)
  <2>1. pc[p] = "finalize" /\ UNCHANGED <<dep, rep, worldVars, step, aged, jobVars, envVars>>
        /\ Rest(p)
    BY <1>3 DEF Finalize
  <2>2. DepTypes' /\ JobTypes' /\ ProcTypes' /\ job' = job
    BY <1>t, <2>1, MoveTypes DEF DepTypes, JobTypes, worldVars, jobVars, envVars
  <2>3. /\ cur[p] \in Jobs /\ cur[p][1] \in Runs /\ Settled(cur[p][1])
        /\ outcome[p] \in {"succeeded", "failed"} /\ run[cur[p][1]] # "none"
    BY <2>1, RunOfJob DEF IInv, ProcInv, ProcOK
  <2>4. PICK o \in {"succeeded", "failed", run[cur[p][1]]} :
           run' = [run EXCEPT ![cur[p][1]] = o]
    BY <1>3, <2>3 DEF Finalize
  <2>5. LedgerTypes'
    BY <1>t, <2>1, <2>3, <2>4 DEF LedgerTypes
  <2>6. \A k \in Runs : /\ k # cur[p][1] => run'[k] = run[k]
                        /\ run[k] = "none" <=> run'[k] = "none"
    BY <1>t, <2>3, <2>4 DEF LedgerTypes
  <2>7. \A j \in Jobs : ~Reopens(j)
    BY <2>2 DEF Reopens, Live
  <2>8. FinalInv'
    BY <2>3, <2>6, <2>7, SettledStays DEF IInv, FinalInv
  <2>9. JobInv'
    <3>1. UNCHANGED <<job, action, attempts>>
      BY <2>1 DEF jobVars
    <3> QED
      BY <2>6, <3>1, RunOfJob DEF IInv, JobInv
  <2>10. /\ pc' = [pc EXCEPT ![p] = "idle"] /\ cur' = [cur EXCEPT ![p] = None]
         /\ outcome' = [outcome EXCEPT ![p] = "none"]
    BY <2>1 DEF Rest
  <2>11. /\ pc'[p] = "idle"
         /\ \A x \in Procs \ {p} : pc'[x] = pc[x] /\ cur'[x] = cur[x] /\ outcome'[x] = outcome[x]
    BY <1>t, <2>10 DEF ProcTypes
  <2>12. ProcOK(p)'
    BY <2>11 DEF ProcOK
  <2> QED
    BY <2>2, <2>5, <2>6, <2>7, <2>8, <2>9, <2>11, <2>12, ProcStep, Types
<1> QED
  BY <1>1, <1>2, <1>3 DEF Rollup

LEMMA CrashSteps == ASSUME IInv, NEW p \in Procs, Crash(p) PROVE IInv'
<1>t. DepTypes /\ LedgerTypes /\ JobTypes /\ ProcTypes
  BY Types DEF IInv
<1>1. Rest(p) /\ UNCHANGED <<dep, rep, worldVars, ledgerVars, jobVars, del>>
      /\ events' = events + 1 /\ events < MaxEvents
  BY DEF Crash, Event
<1>2. DepTypes' /\ LedgerTypes' /\ JobTypes'
  BY <1>t, <1>1, EventsAssumption DEF DepTypes, LedgerTypes, JobTypes, worldVars, ledgerVars, jobVars
<1> QED
  BY <1>1, <1>2, MoveTypes, RestMoves, Types DEF ledgerVars, jobVars

LEMMA DeadlineStep == ASSUME IInv, NEW w \in Workers, Deadline(w) PROVE IInv'
<1>t. DepTypes /\ LedgerTypes /\ JobTypes /\ ProcTypes
  BY Types DEF IInv
<1>1. /\ late' = [late EXCEPT ![w] = TRUE]
      /\ UNCHANGED <<dep, rep, worldVars, ledgerVars, jobVars, pc, cur, outcome, del>>
      /\ events' = events + 1 /\ events < MaxEvents
  BY DEF Deadline, Event
<1>2. DepTypes' /\ LedgerTypes' /\ JobTypes'
  BY <1>t, <1>1, EventsAssumption DEF DepTypes, LedgerTypes, JobTypes, worldVars, ledgerVars, jobVars
<1>3. ProcTypes'
  BY <1>t, <1>1 DEF ProcTypes
<1>4. UNCHANGED <<run, job, action, attempts>>
  BY <1>1 DEF ledgerVars, jobVars
<1>5. JobInv' /\ FinalInv' /\ \A j \in Jobs : ~Reopens(j)
  BY <1>4 DEF IInv, JobInv, FinalInv, Settled, Live, Reopens
<1> QED
  BY <1>1, <1>2, <1>3, <1>4, <1>5, StillStep, Types

(* The reaper's passes.                                                    *)
LEMMA RequeueStep ==
    ASSUME IInv, RequeueStale \/ \E j \in Jobs : RequeueEarly(j) PROVE IInv'
<1>t. DepTypes /\ LedgerTypes /\ JobTypes /\ ProcTypes
  BY Types DEF IInv
<1>1. /\ UNCHANGED <<dep, rep, worldVars, ledgerVars, action, attempts, procVars, del>>
      /\ events' \in 0 .. MaxEvents
      /\ job' \in [Jobs -> {"none", "pending", "claimed", "done", "failed"}]
      /\ holder' \in [Jobs -> Workers \cup {None}]
  BY <1>t, EventsAssumption DEF RequeueStale, RequeueEarly, Event, envVars, LedgerTypes, DepTypes, JobTypes
<1>2. ASSUME NEW j \in Jobs
      PROVE  \/ job'[j] = job[j]
             \/ job[j] = "claimed"
                /\ job'[j] = IF attempts[j] >= MaxAttempts THEN "failed" ELSE "pending"
  BY <1>t DEF RequeueStale, RequeueEarly, Stale, JobTypes
<1>4. JobTypes'
  BY <1>1, <1>t DEF JobTypes
<1>5. DepTypes' /\ LedgerTypes' /\ ProcTypes'
  BY <1>1, <1>t DEF DepTypes, LedgerTypes, ProcTypes, worldVars, ledgerVars, procVars
<1>6. \A j \in Jobs : ~Reopens(j) /\ (job[j] # "none" <=> job'[j] # "none")
  BY <1>2 DEF Reopens, Live
<1>7. UNCHANGED <<run, action, attempts, pc, cur, outcome>>
  BY <1>1 DEF ledgerVars, procVars
<1>8. JobInv'
  <2>1. ASSUME NEW j \in Jobs, job'[j] = "pending" PROVE attempts[j] < MaxAttempts
    BY <1>2, <1>t, <2>1, RunsAssumption DEF IInv, JobInv, JobTypes
  <2> QED
    BY <1>6, <1>7, <2>1 DEF IInv, JobInv
<1>9. FinalInv'
  BY <1>6, <1>7, SettledStays DEF IInv, FinalInv
<1> QED
  BY <1>4, <1>5, <1>6, <1>7, <1>8, <1>9, StillStep, Types

(* A step that moves neither runs, jobs nor processes.                     *)
LEMMA OutsideStep ==
    ASSUME IInv, DepTypes', LedgerTypes', UNCHANGED <<run, jobVars, procVars>>
    PROVE  IInv'
<1>1. JobTypes' /\ ProcTypes'
  BY Types DEF IInv, JobTypes, ProcTypes, jobVars, procVars
<1>2. UNCHANGED <<run, job, action, attempts, pc, cur, outcome>>
  BY DEF jobVars, procVars
<1>3. JobInv' /\ FinalInv' /\ \A j \in Jobs : ~Reopens(j)
  BY <1>2 DEF IInv, JobInv, FinalInv, Settled, Live, Reopens
<1> QED
  BY <1>1, <1>2, <1>3, StillStep, Types

LEMMA ReapSteps ==
    ASSUME IInv, ReapStuckProvisioning \/ (\E k \in Runs : Age(k)) PROVE IInv'
<1>t. DepTypes /\ LedgerTypes
  BY Types DEF IInv
<1>1. CASE ReapStuckProvisioning
  <2>1. dep' \in [Deployments -> {"provisioning", "running", "stopped", "failed", "deleted"}]
    BY <1>1, <1>t DEF ReapStuckProvisioning, DepTypes
  <2>2. UNCHANGED <<rep, worldVars, ledgerVars, jobVars, procVars, envVars>>
    BY <1>1 DEF ReapStuckProvisioning
  <2> QED
    BY <1>t, <2>1, <2>2, OutsideStep DEF DepTypes, LedgerTypes, worldVars, ledgerVars, envVars
<1>2. ASSUME NEW k \in Runs, Age(k) PROVE IInv'
  <2>1. /\ aged' = aged \cup {k}
        /\ UNCHANGED <<dep, rep, worldVars, run, step, jobVars, procVars, envVars>>
    BY <1>2 DEF Age
  <2> QED
    BY <1>t, <2>1, OutsideStep DEF DepTypes, LedgerTypes, worldVars, envVars
<1> QED
  BY <1>1, <1>2

LEMMA ReaperSteps == ASSUME IInv, ReaperStep PROVE IInv'
<1>0. Reaper \in Procs /\ Reaper \notin Workers
  BY ReaperAssumption DEF Procs
<1>t. DepTypes /\ LedgerTypes /\ JobTypes /\ ProcTypes
  BY Types DEF IInv
<1>1. ASSUME NEW k \in Runs, ReapOrphan(k) PROVE IInv'
  <2>1. PICK d \in Deployments : cur' = [cur EXCEPT ![Reaper] = <<k, d>>]
    BY <1>1 DEF ReapOrphan
  <2>2. /\ pc' = [pc EXCEPT ![Reaper] = "close"] /\ run[k] = "running"
        /\ UNCHANGED <<dep, rep, worldVars, ledgerVars, jobVars, late, outcome, envVars>>
    BY <1>1 DEF ReapOrphan, Orphaned
  <2>3. DepTypes' /\ LedgerTypes' /\ JobTypes'
    BY <1>t, <2>2 DEF DepTypes, LedgerTypes, JobTypes, worldVars, ledgerVars, jobVars, envVars
  <2>4. <<k, d>> \in Jobs
    BY DEF Jobs
  <2>5. ProcTypes'
    BY <1>t, <2>1, <2>2, <2>4 DEF ProcTypes, Labels
  <2>6. pc'[Reaper] = "close" /\ cur'[Reaper] = <<k, d>>
        /\ \A x \in Procs \ {Reaper} : pc'[x] = pc[x] /\ cur'[x] = cur[x]
    BY <1>0, <1>t, <2>1, <2>2 DEF ProcTypes
  <2>7. UNCHANGED <<run, job, action, attempts, outcome>>
    BY <2>2 DEF ledgerVars, jobVars
  <2>8. ProcOK(Reaper)'
    BY <1>0, <2>2, <2>4, <2>6, <2>7 DEF ProcOK
  <2> QED
    BY <1>0, <2>3, <2>5, <2>6, <2>7, <2>8, QuietStep, Types
<1>2. CASE CloseSteps
  <2>1. /\ pc[Reaper] = "close" /\ Goto(Reaper, "inflight")
        /\ UNCHANGED <<dep, rep, worldVars, run, aged, jobVars, envVars>>
    BY <1>2 DEF CloseSteps
  <2>2. step' \in [Jobs -> {"none", "planned"} \cup Outcomes]
    BY <1>2, <1>t DEF CloseSteps, LedgerTypes, Outcomes
  <2>3. DepTypes' /\ LedgerTypes' /\ JobTypes'
    BY <1>t, <2>1, <2>2 DEF DepTypes, LedgerTypes, JobTypes, worldVars, jobVars, envVars
  <2>4. TypeOK'
    BY <1>0, <2>1, <2>3, MoveTypes, Types DEF Labels
  <2> QED
    BY <1>0, <2>1, <2>4, GotoMoves DEF Labels, jobVars
<1>3. CASE Rollup(Reaper)
  BY <1>0, <1>3, RollupSteps
<1> QED
  BY <1>1, <1>2, <1>3 DEF ReaperStep

(* Apply: one transaction opens a run and queues its jobs, or none.        *)
LEMMA ApplyStep ==
    ASSUME IInv, NEW k \in Runs, NEW only \in SUBSET Deployments, NEW trusted \in BOOLEAN,
           Apply(k, only, trusted)
    PROVE  IInv'
<1> DEFINE queued == {d \in only : /\ trusted
                                   /\ PlannedAction(d) \in {"create", "restart"}
                                   /\ Free(d)}
<1>t. DepTypes /\ LedgerTypes /\ JobTypes /\ ProcTypes
  BY Types DEF IInv
<1>1. /\ run[k] = "none"
      /\ run' = [run EXCEPT ![k] = IF queued = {} THEN "succeeded" ELSE "running"]
      /\ job' = [j \in Jobs |-> IF j[1] = k /\ j[2] \in queued THEN "pending" ELSE job[j]]
      /\ action' = [j \in Jobs |-> IF j[1] = k /\ j[2] \in queued
                                   THEN PlannedAction(j[2]) ELSE action[j]]
      /\ UNCHANGED <<dep, rep, worldVars, aged, holder, attempts, procVars, envVars>>
  BY DEF Apply
<1>2. \A d \in queued : PlannedAction(d) \in {"create", "restart"}
  OBVIOUS
<1>3. step' \in [Jobs -> {"none", "planned"} \cup Outcomes]
  BY <1>t DEF Apply, LedgerTypes, Outcomes
<1> HIDE DEF queued
<1>4. \A j \in Jobs : j[1] = k => job[j] = "none" /\ attempts[j] = 0
  BY <1>1 DEF IInv, JobInv
<1>5. DepTypes' /\ ProcTypes'
  BY <1>1, <1>t DEF DepTypes, ProcTypes, worldVars, procVars, envVars
<1>6. LedgerTypes'
  BY <1>1, <1>3, <1>t DEF LedgerTypes
<1>7. JobTypes'
  <2>1. job' \in [Jobs -> {"none", "pending", "claimed", "done", "failed"}]
    BY <1>1, <1>t DEF JobTypes
  <2>2. action' \in [Jobs -> {"none", "create", "restart"}]
    BY <1>1, <1>2, <1>t DEF JobTypes
  <2> QED
    BY <1>1, <1>t, <2>1, <2>2 DEF JobTypes
<1>8. \A i \in Runs : /\ i # k => run'[i] = run[i]
                      /\ run'[k] = IF queued = {} THEN "succeeded" ELSE "running"
  BY <1>1, <1>t DEF LedgerTypes
<1>9. JobInv'
  <2>1. ASSUME NEW j \in Jobs, j[1] = k, j[2] \in queued
        PROVE  /\ job'[j] = "pending" /\ attempts'[j] = 0 /\ action'[j] # "none"
    BY <1>1, <1>2, <1>4, <2>1
  <2>2. ASSUME NEW j \in Jobs, j[1] # k \/ j[2] \notin queued
        PROVE  /\ job'[j] = job[j] /\ attempts'[j] = attempts[j] /\ action'[j] = action[j]
    BY <1>1, <2>2
  <2>3. ASSUME NEW j \in Jobs PROVE run'[j[1]] = "none" => run[j[1]] = "none" /\ j[1] # k
    BY <1>8, RunOfJob
  <2> QED
    BY <2>1, <2>2, <2>3, RunsAssumption DEF IInv, JobInv
<1>10. \A j \in Jobs : /\ j[1] # k => ~Reopens(j)
                       /\ job[j] # "none" => job'[j] # "none"
  BY <1>1 DEF Reopens, Live
<1>11. FinalInv'
  <2>1. ASSUME NEW i \in Runs \ {k}, run'[i] \in {"succeeded", "failed"} PROVE Settled(i)'
    BY <1>8, <1>10, <2>1, SettledStays DEF IInv, FinalInv
  <2>2. ASSUME queued = {} PROVE Settled(k)'
    BY <1>1, <1>4, <2>2 DEF Settled, Live
  <2> QED
    BY <1>8, <2>1, <2>2 DEF FinalInv
<1>12. UNCHANGED <<pc, cur, outcome>>
  BY <1>1 DEF procVars
<1> QED
  BY <1>1, <1>5, <1>6, <1>7, <1>8, <1>9, <1>10, <1>11, <1>12, StillStep, Types

(* What the rest of the system does to the deployments.                    *)
LEMMA EnvironmentSteps == ASSUME IInv, Environment PROVE IInv'
<1>t. DepTypes /\ LedgerTypes
  BY Types DEF IInv
<1>0. UNCHANGED <<run, jobVars, procVars>> /\ LedgerTypes'
  BY <1>t DEF Environment, DeleteBegin, DeleteDestroy, DeleteMark, SweepDown,
     ContainerChanges, AgentReports, Toggle, ledgerVars, LedgerTypes
<1>1. events' \in 0 .. MaxEvents
  BY <1>t, EventsAssumption DEF Environment, DeleteBegin, DeleteDestroy, DeleteMark,
     SweepDown, ContainerChanges, AgentReports, Toggle, Event, envVars, DepTypes
<1>2. ASSUME NEW d \in Deployments, DeleteBegin(d) PROVE DepTypes'
  BY <1>1, <1>2, <1>t DEF DeleteBegin, DepTypes, worldVars
<1>3. ASSUME NEW d \in Deployments, DeleteDestroy(d) PROVE DepTypes'
  BY <1>1, <1>3, <1>t DEF DeleteDestroy, DepTypes, worldVars, Containers
<1>4. ASSUME NEW d \in Deployments, DeleteMark(d) PROVE DepTypes'
  BY <1>1, <1>4, <1>t DEF DeleteMark, DepTypes, worldVars
<1>5. ASSUME NEW d \in Deployments, SweepDown(d) PROVE DepTypes'
  BY <1>1, <1>5, <1>t DEF SweepDown, DepTypes, worldVars
<1>6. ASSUME NEW d \in Deployments, ContainerChanges(d) PROVE DepTypes'
  BY <1>1, <1>6, <1>t DEF ContainerChanges, DepTypes, worldVars
<1>7. ASSUME AgentReports PROVE DepTypes'
  BY <1>1, <1>7, <1>t DEF AgentReports, DepTypes, worldVars, envVars
<1>8. ASSUME Toggle PROVE DepTypes'
  BY <1>1, <1>8, <1>t DEF Toggle, DepTypes, worldVars
<1>9. DepTypes'
  BY <1>2, <1>3, <1>4, <1>5, <1>6, <1>7, <1>8 DEF Environment
<1> QED
  BY <1>0, <1>9, OutsideStep

----------------------------------------------------------------------------
LEMMA InitIInv == ASSUME Init PROVE IInv
<1>1. TypeOK
  BY RunsAssumption, EventsAssumption DEF Init, TypeOK, Containers
<1>2. JobInv /\ ProcInv /\ FinalInv
  BY RunsAssumption, RunOfJob DEF Init, JobInv, ProcInv, ProcOK, FinalInv
<1> QED
  BY <1>1, <1>2 DEF IInv

LEMMA NextIInv == ASSUME IInv, [Next]_vars PROVE IInv'
<1>1. CASE UNCHANGED vars
  <2>1. DepTypes' /\ LedgerTypes'
    BY <1>1, Types DEF IInv, vars, worldVars, ledgerVars, envVars, DepTypes, LedgerTypes
  <2> QED
    BY <1>1, <2>1, OutsideStep DEF vars, ledgerVars
<1>2. ASSUME NEW w \in Workers, WorkerStep(w) PROVE IInv'
  <2>1. w \in Procs
    BY DEF Procs
  <2> QED
    BY <1>2, <2>1, ActionSteps, MarkJobStep, LedgerSteps, RollupSteps DEF WorkerStep
<1> QED
  BY <1>1, <1>2, ApplyStep, ClaimStep, LedgerSteps, DeadlineStep, CrashSteps, RequeueStep,
     ReapSteps, ReaperSteps, EnvironmentSteps DEF Next

(* The inductive invariant holds of every behaviour.                       *)
THEOREM IInvHolds == Spec => []IInv
  BY InitIInv, NextIInv, PTL DEF Spec

(* finalizeRunIfDone: a run is closed only when none of its jobs is        *)
(* pending or claimed, and none becomes so again; every row and process is *)
(* well formed.                                                            *)
THEOREM ClosedRunsStaySettled == Spec => []FinalMeansSettled
<1>1. IInv => FinalMeansSettled
  BY DEF IInv, FinalInv, FinalMeansSettled, Settled, Jobs
<1> QED
  BY <1>1, IInvHolds, PTL

(* reconcileCreate, markProvisionRunning and the rest: no statement takes  *)
(* a deployment out of 'deleted'.                                          *)
THEOREM DeletedStaysDeleted == Spec => DeletedIsFinal
<1> DEFINE P == \A d \in Deployments : dep[d] = "deleted" => dep'[d] = "deleted"
<1>1. ASSUME IInv, Next PROVE P
  <2>0. DepTypes
    BY <1>1, Types DEF IInv
  <2>1. CASE UNCHANGED dep
    BY <2>1
  <2>2. ASSUME NEW w \in Workers, WorkerStep(w), ~UNCHANGED dep PROVE P
    <3>1. \/ ClaimCreate(w) \/ MarkRunning(w) \/ Reflect(w) \/ MarkRow(w)
      BY <2>2 DEF WorkerStep, Gate, Provision, ProvisionFails, Restart, ActionFails,
         MarkJob, WriteStep, Rollup, Inflight, Count, Finalize
    <3>2. CASE ClaimCreate(w)
      BY <2>0, <3>2 DEF ClaimCreate, DepTypes
    <3>3. CASE MarkRunning(w)
      BY <2>0, <3>3 DEF MarkRunning, DepTypes
    <3>4. CASE Reflect(w)
      BY <2>0, <3>4 DEF Reflect, DepTypes
    <3>5. CASE MarkRow(w)
      BY <2>0, <3>5 DEF MarkRow, DepTypes
    <3> QED
      BY <3>1, <3>2, <3>3, <3>4, <3>5
  <2>3. CASE ReapStuckProvisioning
    BY <2>0, <2>3 DEF ReapStuckProvisioning, Stuck, DepTypes
  <2>4. ASSUME Environment, ~UNCHANGED dep PROVE P
    <3>1. PICK d \in Deployments : DeleteMark(d) \/ SweepDown(d)
      BY <2>4 DEF Environment, DeleteBegin, DeleteDestroy, ContainerChanges, AgentReports,
         Toggle
    <3> QED
      BY <2>0, <3>1 DEF DeleteMark, SweepDown, DepTypes
  <2>5. ASSUME ~UNCHANGED dep
        PROVE  \/ \E w \in Workers : WorkerStep(w)
               \/ ReapStuckProvisioning \/ Environment
    <3>1. ASSUME ReaperStep PROVE UNCHANGED dep
      BY <3>1 DEF ReaperStep, ReapOrphan, CloseSteps, Rollup, Inflight, Count, Finalize
    <3> QED
      BY <1>1, <2>5, <3>1 DEF Next, Apply, ClaimNext, LedgerWriteLost, Deadline, Crash,
         RequeueStale, RequeueEarly, Age
  <2> QED
    BY <2>1, <2>2, <2>3, <2>4, <2>5
<1>2. IInv /\ [Next]_vars => [P]_vars
  BY <1>1
<1>3. Spec => [][P]_vars
  BY <1>2, IInvHolds, PTL DEF Spec
<1> QED
  BY <1>3, PTL DEF DeletedIsFinal
=============================================================================
