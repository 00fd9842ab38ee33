------------------------------- MODULE Rebake -------------------------------
(***************************************************************************)
(* What a running container was created from, against what the tables say: *)
(* instance secret, resource limits, active domains, project env vars, and *)
(* the admin and deploy keys minted from the secret                        *)
(* (internal/api/deployments.go, projects.go, docker/provisioner.go).      *)
(*                                                                         *)
(* A container is replaced by requests that read the tables first and call *)
(* Docker later, with nothing to keep two of them apart.  One deployment;  *)
(* a secret, a limit or a value of the env vars is a number, and a key is  *)
(* the secret that signs it.  Container ids, ports and the replica rows a  *)
(* rebuild touches up are left out.                                        *)
(***************************************************************************)
EXTENDS Naturals, FiniteSets

CONSTANTS
    Domains,     \* custom domains
    Keys,        \* deploy_keys ids
    Limits,      \* resource limits; 0 is unlimited
    Requests,    \* concurrent requests and detached rebakes
    MaxSecret,   \* bound: secrets generated
    MaxEnv,      \* bound: changes of the env vars
    MaxStarts    \* bound: requests started

ASSUME RebakeAssumption ==
    /\ 0 \in Limits /\ Limits \subseteq Nat
    /\ MaxSecret \in Nat \ {0} /\ MaxEnv \in Nat /\ MaxStarts \in Nat

VARIABLES
    ha,        \* deployments.ha_enabled
    row,       \* deployments: status, secret, limits, adminKey
    doms,      \* active rows of deployment_domains
    env,       \* project_env_vars
    cont,      \* what each replica's container was created from
    store,     \* the backend's function env
    keys,      \* deploy_keys: signing secret and state; rotations is history
    req,       \* requests under way
    secrets,   \* secrets generated so far
    starts

tables == <<ha, row, doms, env, keys>>
vars == <<tables, cont, store, req, secrets, starts>>

Replicas == IF ha THEN {0, 1} ELSE {0}
Spec0 == [up |-> TRUE, secret |-> 1, limits |-> 0, doms |-> {}, env |-> 0]
Gone == [Spec0 EXCEPT !.up = FALSE]
NoKey == [state |-> "none", secret |-> 0, raced |-> FALSE,
          rotations |-> 0]
Idle == [op |-> "none", pc |-> "idle", secret |-> 0, limits |-> 0, doms |-> {},
         env |-> 0, todo |-> {}, key |-> 0, alone |-> FALSE]

TypeOK ==
    /\ row.status \in {"running", "deleted"}
    /\ row.secret \in 1 .. secrets /\ row.adminKey \in 1 .. secrets
    /\ row.limits \in Limits
    /\ doms \subseteq Domains /\ env \in 0 .. MaxEnv /\ store \in 0 .. MaxEnv
    /\ \A i \in Replicas : cont[i].secret \in 1 .. secrets
                           /\ cont[i].limits \in Limits
    /\ \A k \in Keys : keys[k].state \in {"none", "active", "revoked"}
    /\ secrets \in 1 .. MaxSecret /\ starts \in 0 .. MaxStarts

Init ==
    /\ ha \in BOOLEAN
    /\ row = [status |-> "running", secret |-> 1, limits |-> 0, adminKey |-> 1]
    /\ doms = {} /\ env = 0 /\ store = 0
    /\ cont = [i \in {0, 1} |-> Spec0]
    /\ keys = [k \in Keys |-> NoKey]
    /\ req = [r \in Requests |-> Idle]
    /\ secrets = 1 /\ starts = 0

----------------------------------------------------------------------------
At(r, label) == req[r].pc = label
InFlight == {r \in Requests : req[r] # Idle}

(* Requests that overlap another are marked: alone is history.             *)
Start(r, q) ==
    /\ req[r] = Idle /\ starts < MaxStarts
    /\ starts' = starts + 1
    /\ req' = [x \in Requests |->
                 CASE x = r -> [q EXCEPT !.alone = InFlight = {}]
                   [] x # r /\ req[x] # Idle -> [req[x] EXCEPT !.alone = FALSE]
                   [] x # r /\ req[x] = Idle -> Idle]

End(r) == req' = [req EXCEPT ![r] = Idle]
Locked(r) == \E x \in Requests \ {r} : req[x].op = "rotate" /\ req[x].pc # "begin"

----------------------------------------------------------------------------
(* A domain becomes active (verifier or manual verify), or is deleted, and *)
(* a rebake of the container follows, detached or in the request.          *)
ChangeDomain(r, d) ==
    /\ row.status = "running"
    /\ doms' = IF d \in doms THEN doms \ {d} ELSE doms \cup {d}
    /\ Start(r, [Idle EXCEPT !.op = "rebuild", !.pc = "row"])
    /\ UNCHANGED <<ha, row, env, keys, cont, store, secrets>>

(* updateResources persists the limits and rebuilds; never for HA.         *)
UpdateResources(r, l) ==
    /\ row.status = "running" /\ ~ha /\ l # row.limits /\ ~Locked(r)
    /\ row' = [row EXCEPT !.limits = l]
    /\ Start(r, [Idle EXCEPT !.op = "rebuild", !.pc = "row"])
    /\ UNCHANGED <<ha, doms, env, keys, cont, store, secrets>>

(* rebuildCORSAndRestart reads the row; only a running one is rebuilt ...  *)
LoadRow(r) ==
    /\ req[r].op = "rebuild" /\ At(r, "row")
    /\ IF row.status # "running" THEN End(r)
       ELSE req' = [req EXCEPT ![r].pc = "domains", ![r].secret = row.secret,
                               ![r].limits = row.limits]
    /\ UNCHANGED <<tables, cont, store, secrets, starts>>

(* ... its active domains ...                                              *)
LoadActiveDomainOrigins(r) ==
    /\ At(r, "domains")
    /\ req' = [req EXCEPT ![r].pc = "env", ![r].doms = doms]
    /\ UNCHANGED <<tables, cont, store, secrets, starts>>

(* ... the project's env vars, for HA also the limits again ...            *)
LoadProjectEnvVars(r) ==
    /\ req[r].op = "rebuild" /\ At(r, "env")
    /\ req' = [req EXCEPT ![r].pc = "remove", ![r].env = env,
                          ![r].limits = IF ha THEN row.limits ELSE @,
                          ![r].todo = Replicas]
    /\ UNCHANGED <<tables, cont, store, secrets, starts>>

(* Mutant: the limits do not ride along.                                   *)
RebuildSpecUncapped(q) ==
    [up |-> TRUE, secret |-> q.secret, limits |-> 0, doms |-> q.doms, env |-> q.env]

(* The spec a rebuild hands to Docker ...                                  *)
RebuildSpec(q) ==
    [up |-> TRUE, secret |-> q.secret, limits |-> q.limits, doms |-> q.doms,
     env |-> q.env]

(* ... and the one of a rotation, which leaves the limits out.             *)
RotationSpec(q) ==
    [up |-> TRUE, secret |-> q.secret, limits |-> 0, doms |-> q.doms, env |-> q.env]

SpecOf(q) == IF q.op = "rotate" THEN RotationSpec(q) ELSE RebuildSpec(q)

First(todo) == CHOOSE i \in todo : \A j \in todo : i <= j

(* Recreate and RecreateReplica: stop and remove, or fail ...              *)
RemoveContainer(r) ==
    /\ At(r, "remove")
    /\ \/ /\ cont' = [cont EXCEPT ![First(req[r].todo)] = [@ EXCEPT !.up = FALSE]]
          /\ req' = [req EXCEPT ![r].pc = "create"]
       \/ UNCHANGED cont /\ End(r)
    /\ UNCHANGED <<tables, store, secrets, starts>>

(* ... then Provision, which fails if somebody else's container has the    *)
(* name.  A rebuild goes on to its next replica, a rotation commits.       *)
CreateContainer(r) ==
    LET i == First(req[r].todo) rest == req[r].todo \ {i} IN
    /\ At(r, "create")
    /\ \/ /\ ~cont[i].up
          /\ cont' = [cont EXCEPT ![i] = SpecOf(req[r])]
          /\ CASE req[r].op = "rotate" -> req' = [req EXCEPT ![r].pc = "commit"]
               [] req[r].op = "rebuild" /\ rest = {} -> End(r)
               [] req[r].op = "rebuild" /\ rest # {} ->
                     req' = [req EXCEPT ![r].pc = "remove", ![r].todo = rest]
       \/ UNCHANGED cont /\ End(r)
    /\ UNCHANGED <<tables, store, secrets, starts>>

----------------------------------------------------------------------------
(* ensureDeployKeysSupported.                                              *)
EnsureDeployKeysSupported == row.status = "running" /\ ~ha

(* createDeployKey reads the secret with the deployment ...                *)
BeginCreateDeployKey(r, k) ==
    /\ EnsureDeployKeysSupported /\ keys[k] = NoKey
    /\ \A x \in Requests : req[x].key # k
    /\ Start(r, [Idle EXCEPT !.op = "key", !.pc = "insert", !.secret = row.secret,
                             !.key = k])
    /\ UNCHANGED <<tables, cont, store, secrets>>

(* ... and inserts the key it mints from it.                               *)
CreateDeployKey(r) ==
    /\ At(r, "insert")
    /\ keys' = [keys EXCEPT ![req[r].key] =
                  [state |-> "active", secret |-> req[r].secret,
                   raced |-> ~req[r].alone, rotations |-> 0]]
    /\ End(r)
    /\ UNCHANGED <<ha, row, doms, env, cont, store, secrets, starts>>

(* reissueAdminKey: the same, into the deployment's own row.               *)
BeginReissue(r) ==
    /\ row.status = "running"
    /\ Start(r, [Idle EXCEPT !.op = "reissue", !.pc = "update", !.secret = row.secret])
    /\ UNCHANGED <<tables, cont, store, secrets>>

ReissueAdminKey(r) ==
    /\ At(r, "update") /\ ~Locked(r)
    /\ row' = [row EXCEPT !.adminKey = req[r].secret]
    /\ End(r)
    /\ UNCHANGED <<ha, doms, env, keys, cont, store, secrets, starts>>

(* revokeDeployKey: its gate, then the deployment and the key FOR UPDATE.  *)
BeginRevokeDeployKey(r, k) ==
    /\ EnsureDeployKeysSupported /\ keys[k].state # "none"
    /\ Start(r, [Idle EXCEPT !.op = "rotate", !.pc = "begin", !.key = k])
    /\ UNCHANGED <<tables, cont, store, secrets>>

LockDeployment(r) ==
    /\ req[r].op = "rotate" /\ At(r, "begin") /\ ~Locked(r)
    /\ IF ~EnsureDeployKeysSupported \/ keys[req[r].key].state # "active" THEN End(r)
       ELSE req' = [req EXCEPT ![r].pc = "read"]
    /\ UNCHANGED <<tables, cont, store, secrets, starts>>

(* runtimeEnvVarsForRecreate, and a new secret.                            *)
RuntimeEnvVarsForRecreate(r) ==
    /\ At(r, "read") /\ secrets < MaxSecret
    /\ secrets' = secrets + 1
    /\ req' = [req EXCEPT ![r].pc = "remove", ![r].secret = secrets + 1,
                          ![r].env = env, ![r].doms = doms, ![r].todo = {0}]
    /\ UNCHANGED <<tables, cont, store, starts>>

(* Mutant: only the key that was named is revoked.                         *)
CommitRotationOneKey(r) ==
    /\ At(r, "commit")
    /\ \/ /\ row' = [row EXCEPT !.secret = req[r].secret, !.adminKey = req[r].secret,
                                !.status = "running"]
          /\ keys' = [keys EXCEPT ![req[r].key].state = "revoked"]
       \/ UNCHANGED <<row, keys>>
    /\ End(r)
    /\ UNCHANGED <<ha, doms, env, cont, store, secrets, starts>>

(* Row, replica row and every active key in one commit, or not at all.     *)
CommitRotation(r) ==
    /\ At(r, "commit")
    /\ \/ /\ row' = [row EXCEPT !.secret = req[r].secret, !.adminKey = req[r].secret,
                                !.status = "running"]
          /\ keys' = [k \in Keys |->
                        [keys[k] EXCEPT !.state = IF @ = "active" THEN "revoked" ELSE @,
                                        !.rotations = IF k = req[r].key THEN @ + 1 ELSE @]]
       \/ UNCHANGED <<row, keys>>
    /\ End(r)
    /\ UNCHANGED <<ha, doms, env, cont, store, secrets, starts>>

----------------------------------------------------------------------------
(* updateEnvVars commits the change and pushes it; syncEnvToDeployments    *)
(* only pushes.                                                            *)
UpdateEnvVars(r) ==
    /\ env < MaxEnv
    /\ env' = env + 1
    /\ Start(r, [Idle EXCEPT !.op = "push", !.pc = "load"])
    /\ UNCHANGED <<ha, row, doms, keys, cont, store, secrets>>

SyncEnvToDeployments(r) ==
    /\ Start(r, [Idle EXCEPT !.op = "push", !.pc = "load"])
    /\ UNCHANGED <<tables, cont, store, secrets>>

(* syncFunctionEnvForProject and pushFunctionEnvForDeployment: the values  *)
(* are read ...                                                            *)
LoadForPush(r) ==
    /\ At(r, "load")
    /\ IF row.status # "running" THEN End(r)
       ELSE req' = [req EXCEPT ![r].pc = "push", ![r].env = env]
    /\ UNCHANGED <<tables, cont, store, secrets, starts>>

(* ... and sent to the backend, which may not answer.                      *)
PushFunctionEnv(r) ==
    /\ At(r, "push")
    /\ store' = IF cont[0].up THEN req[r].env ELSE store
    /\ End(r)
    /\ UNCHANGED <<tables, cont, secrets, starts>>

PushFails(r) ==
    /\ At(r, "push") /\ End(r)
    /\ UNCHANGED <<tables, cont, store, secrets, starts>>

(* deleteDeployment, once its teardown has succeeded.                      *)
DeleteDeployment ==
    /\ row.status = "running" /\ \A r \in Requests : ~Locked(r)
    /\ row' = [row EXCEPT !.status = "deleted"]
    /\ cont' = [i \in {0, 1} |-> [cont[i] EXCEPT !.up = FALSE]]
    /\ UNCHANGED <<ha, doms, env, keys, store, req, secrets, starts>>

----------------------------------------------------------------------------
Request(r) ==
    \/ \E d \in Domains : ChangeDomain(r, d)
    \/ \E l \in Limits : UpdateResources(r, l)
    \/ \E k \in Keys : BeginCreateDeployKey(r, k) \/ BeginRevokeDeployKey(r, k)
    \/ BeginReissue(r) \/ UpdateEnvVars(r) \/ SyncEnvToDeployments(r)

Step(r) ==
    \/ LoadRow(r) \/ LoadActiveDomainOrigins(r) \/ LoadProjectEnvVars(r)
    \/ RemoveContainer(r) \/ CreateContainer(r)
    \/ CreateDeployKey(r) \/ ReissueAdminKey(r)
    \/ LockDeployment(r) \/ RuntimeEnvVarsForRecreate(r) \/ CommitRotation(r)
    \/ LoadForPush(r) \/ PushFunctionEnv(r) \/ PushFails(r)

Next == DeleteDeployment \/ \E r \in Requests : Request(r) \/ Step(r)

Spec == Init /\ [][Next]_vars

----------------------------------------------------------------------------
(* rebuildCORSAndRestart: a rebuild nothing overlapped leaves its last     *)
(* replica with the secret, the domains, the env vars and the limits the   *)
(* tables hold, whatever failed before it.                                 *)
RebakeHeals ==
    [][\A r \in Requests :
          /\ req[r].op = "rebuild" /\ req[r].alone /\ req'[r] = Idle
          /\ row.status = "running"
          /\ \E i \in Replicas : ~cont[i].up /\ cont'[i].up
          => \A i \in Replicas :
                cont'[i] = [up |-> TRUE, secret |-> row.secret,
                            limits |-> row.limits, doms |-> doms, env |-> env]]_vars

(* Deploy keys: one that is listed active was signed by the secret of the  *)
(* row, unless its creation overlapped another request; and under the row  *)
(* locks of revokeDeployKey a key is rotated away once, however many       *)
(* requests name it.  Rows and containers are well formed.                 *)
ActiveKeysSigned ==
    /\ TypeOK
    /\ \A k \in Keys :
          /\ keys[k].state = "active" => keys[k].secret = row.secret \/ keys[k].raced
          /\ keys[k].rotations <= 1
=============================================================================
