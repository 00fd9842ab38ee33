------------------------------- MODULE Fleet -------------------------------
(***************************************************************************)
(* Hosts, their agents, and what the agents report of the containers       *)
(* (internal/api/hosts.go, agents.go, observed_state.go), with the part of *)
(* creating and deleting a deployment that looks at its host.              *)
(*                                                                         *)
(* A request is a record in a slot: it loads rows, decides on them and     *)
(* writes later, one statement or committed transaction per step.  A       *)
(* heartbeat is six steps, because only its first transaction is one: the  *)
(* facts, each container row and the prune are statements of their own.    *)
(* The SSH teardown of a removed host is external; a machine runs at most  *)
(* one agent process (cmd/synapse-agent), whose requests end when it is    *)
(* replaced.                                                               *)
(***************************************************************************)
EXTENDS Naturals, FiniteSets

CONSTANTS
    Hosts, Self,     \* host ids; the host the control plane runs on
    Agents, Tokens,  \* ids of host_agents and host_adoption_tokens
    Deployments,     \* deployment ids
    Cells,           \* cell ids
    Requests,        \* concurrent request slots
    MaxOps,          \* bound: requests started
    MaxEvents,       \* bound: containers changed, calls failed, clocks run out
    MaxWork,         \* bound: requests and events together
    None             \* SQL NULL

ASSUME FleetAssumption ==
    /\ Self \in Hosts /\ Hosts # {Self} /\ Agents # {} /\ Deployments # {}
    /\ \E c, e \in Cells : c # e
    /\ MaxOps \in Nat /\ MaxEvents \in Nat /\ MaxWork \in Nat
    /\ None \notin Hosts \cup Agents \cup Tokens \cup Deployments \cup Cells

VARIABLES
    host,   \* hosts.status; "none" before the row, "gone" after it
    beat,   \* hosts.last_heartbeat_at: never, fresh or old
    lock,   \* host rows a removal holds FOR UPDATE
    agent,  \* host_agents: host, status
    token,  \* host_adoption_tokens: host and state
    runs,   \* agent whose current bearer the machine of a host holds
    hb,     \* the heartbeat in flight from a host
    facts,  \* observed_states host_facts: the container scan's outcome
    rows,   \* observed_states docker_container rows
    dep,    \* deployments: status, host_id, adopted
    cont,   \* the deployment's container on its host
    req,    \* requests in flight
    told,   \* history: what is recorded of a container and still true
    tripped, \* history: a removal ended in a foreign-key error
    ops, events

fleetVars == <<host, beat, lock, agent, token, runs, hb, facts, rows, dep,
               cont, req, told, tripped, ops, events>>

Statuses == {"unknown", "online", "draining", "offline"}
Exists(h) == host[h] \in Statuses
Free(h) == h \notin lock
Live(d) == dep[d].st = "live"
HasRow(a) == agent[a].host # None

NoAgent == [host |-> None, st |-> "none"]
NoToken == [host |-> None, st |-> "none"]
NoDep == [st |-> "none", host |-> None, ext |-> FALSE]
Nothing == [d \in Deployments |-> "none"]
Quiet == [at |-> "idle", a |-> None, list |-> Nothing, ok |-> FALSE, todo |-> {},
          same |-> {}]
Idle == [op |-> "none", at |-> "idle", h |-> None, c |-> None, d |-> None,
         saw |-> {}, base |-> {}, sure |-> [d \in Deployments |-> "no"]]

FleetTypeOK ==
    /\ host \in [Hosts -> Statuses \cup {"none", "gone"}]
    /\ beat \in [Hosts -> {"never", "fresh", "old"}]
    /\ lock \subseteq Hosts
    /\ agent \in [Agents -> [host : Hosts \cup {None},
                             st : {"none", "online", "revoked"}]]
    /\ token \in [Tokens -> [host : Hosts \cup {None},
                             st : {"none", "open", "lost", "used",
                                   "expired"}]]
    /\ runs \in [Hosts -> Agents \cup {None}]
    /\ \A h \in Hosts : hb[h].at \in {"idle", "auth", "tx", "facts", "rows",
                                      "prune"}
    /\ facts \in [Hosts -> {"none", "ok", "bad"}]
    /\ rows \in [Hosts -> [Deployments -> {"none", "running", "exited"}]]
    /\ dep \in [Deployments -> [st : {"none", "live", "deleted"},
                                host : Hosts \cup {None}, ext : BOOLEAN]]
    /\ cont \in [Deployments -> {"none", "running", "exited"}]
    /\ told \in [Deployments -> {"no", "up", "gone"}]
    /\ tripped \in BOOLEAN
    /\ ops \in 0 .. MaxOps /\ events \in 0 .. MaxEvents

----------------------------------------------------------------------------
(* Requests: a slot is taken, moved to its next step, or given back.       *)

Busy == ops < MaxOps /\ ops + events < MaxWork /\ ops' = ops + 1

(* Slots are alike: a request takes the first one that is free.            *)
FreeSlots == {r \in Requests : req[r] = Idle}

FirstFree(r) == FreeSlots # {} /\ r = (CHOOSE q \in FreeSlots : TRUE)

Take(r, op, at, h, c, d, saw) ==
    /\ FirstFree(r) /\ Busy
    /\ req' = [req EXCEPT ![r] = [Idle EXCEPT !.op = op, !.at = at, !.h = h,
                                              !.c = c, !.d = d, !.saw = saw]]

(* A request of a single statement takes no slot.                          *)
Call == Busy /\ req' = req

At(r, op, at) == req[r].op = op /\ req[r].at = at
GoOn(r, at) == req' = [req EXCEPT ![r].at = at] /\ ops' = ops
Done(r) == req' = [req EXCEPT ![r] = Idle] /\ ops' = ops

Fault == /\ events < MaxEvents /\ ops + events < MaxWork
         /\ events' = events + 1

agentVars == <<agent, token, runs>>
seenVars == <<hb, facts, rows, cont, told>>

----------------------------------------------------------------------------
(* Hosts.                                                                  *)

CreateHost(h) ==
    /\ Call /\ host[h] = "none"
    /\ host' = [host EXCEPT ![h] = "unknown"]
    /\ UNCHANGED <<beat, lock, agentVars, seenVars, dep, tripped, events>>

(* PATCH writes the whole row back: a status not asked for is the one that *)
(* was loaded.                                                             *)
LoadHostForUpdate(r, h) ==
    /\ Exists(h)
    /\ \E s \in {host[h], "draining"} :
          Take(r, "update", "write", h, None, None, {s})
    /\ UNCHANGED <<host, beat, lock, agentVars, seenVars, dep, tripped, events>>

WriteHost(r) ==
    /\ At(r, "update", "write") /\ Free(req[r].h)
    /\ LET h == req[r].h IN
       host' = IF Exists(h)
               THEN [host EXCEPT ![h] = CHOOSE s \in req[r].saw : TRUE]
               ELSE host
    /\ Done(r)
    /\ UNCHANGED <<beat, lock, agentVars, seenVars, dep, tripped, events>>

DrainHost(h) ==
    /\ Call /\ Exists(h) /\ Free(h)
    /\ host' = [host EXCEPT ![h] = "draining"]
    /\ UNCHANGED <<beat, lock, agentVars, seenVars, dep, tripped, events>>

(* Deployments that keep a host, and the two ways the counts can go.       *)
LiveOn(h) == {d \in Deployments : Live(d) /\ dep[d].host = h}

(* Guards 1 to 3.  The jobs of guard 3 are those of the live deployments.  *)
CheckRemoval(r, h) ==
    /\ Exists(h) /\ h # Self /\ LiveOn(h) = {}
    /\ Take(r, "remove", "teardown", h, None, None, {})
    /\ UNCHANGED <<host, beat, lock, agentVars, seenVars, dep, tripped, events>>

(* Best effort, over SSH: the agent is wiped off the machine or it is not. *)
Teardown(r) ==
    /\ At(r, "remove", "teardown")
    /\ \/ runs' = [runs EXCEPT ![req[r].h] = None] /\ events' = events
       \/ runs' = runs /\ Fault
    /\ GoOn(r, "lock")
    /\ UNCHANGED <<host, beat, lock, agent, token, seenVars, dep, tripped>>

(* The transaction: lock the row, count again, and go on only at zero.     *)
HeldNothing(r) == {}
Held(r) == {req[r].h}

LockHost(r) ==
    /\ At(r, "remove", "lock") /\ Free(req[r].h)
    /\ IF LiveOn(req[r].h) = {}
       THEN GoOn(r, "erase") /\ lock' = lock \cup Held(r)
       ELSE Done(r) /\ lock' = lock
    /\ UNCHANGED <<host, beat, agentVars, seenVars, dep, tripped, events>>

(* History moves to the self-host; RESTRICT refuses a row still there; the *)
(* agents, tokens and observations of the host go with it.                 *)
EraseHost(r) ==
    /\ At(r, "remove", "erase")
    /\ LET h == req[r].h IN
       IF LiveOn(h) # {}
       THEN tripped' = TRUE
            /\ UNCHANGED <<host, beat, agent, token, facts, rows, dep>>
       ELSE /\ host' = [host EXCEPT ![h] = "gone"]
            /\ beat' = [beat EXCEPT ![h] = "never"]
            /\ dep' = [d \in Deployments |-> IF dep[d].host = h
                         THEN [dep[d] EXCEPT !.host = Self] ELSE dep[d]]
            /\ agent' = [a \in Agents |-> IF agent[a].host = h
                           THEN [NoAgent EXCEPT !.st = agent[a].st]
                           ELSE agent[a]]
            /\ token' = [t \in Tokens |-> IF token[t].host = h
                           THEN [token[t] EXCEPT !.host = None] ELSE token[t]]
            /\ facts' = [facts EXCEPT ![h] = "none"]
            /\ rows' = [rows EXCEPT ![h] = Nothing]
            /\ tripped' = tripped
    /\ lock' = lock \ {req[r].h}
    /\ Done(r)
    /\ UNCHANGED <<runs, hb, cont, told, events>>

----------------------------------------------------------------------------
(* Adoption.                                                               *)

CreateAdoptionToken(t, h) ==
    /\ Call /\ token[t].st = "none" /\ Exists(h) /\ Free(h)
    /\ token' = [token EXCEPT ![t] = [host |-> h, st |-> "open"]]
    /\ UNCHANGED <<host, beat, lock, agent, runs, seenVars, dep, tripped, events>>

(* The Remote Hosts bundle: the token is stored first, and is nobody's if  *)
(* Headscale then refuses its key.                                         *)
CreateRemoteSetup(t, h) ==
    /\ Call /\ token[t].st = "none" /\ Exists(h) /\ Free(h)
    /\ \/ events' = events
          /\ token' = [token EXCEPT ![t] = [host |-> h, st |-> "open"]]
       \/ Fault /\ token' = [token EXCEPT ![t] = [host |-> h, st |-> "lost"]]
    /\ UNCHANGED <<host, beat, lock, agent, runs, seenVars, dep, tripped>>

TokenExpires(t) ==
    /\ Fault /\ token[t].st = "open"
    /\ token' = [token EXCEPT ![t].st = "expired"]
    /\ UNCHANGED <<host, beat, lock, agent, runs, seenVars, dep, req, tripped, ops>>

Claimable(t) == token[t].st = "open"

(* runJoin: the bearer is saved and the machine's process replaced, or the *)
(* answer is lost and the token spent for nothing.                         *)
Join(h, a) ==
    \/ /\ runs' = [runs EXCEPT ![h] = a]
       /\ hb' = [hb EXCEPT ![h] = Quiet]
       /\ events' = events
    \/ Fault /\ UNCHANGED <<runs, hb>>

(* The claim is one UPDATE; the host comes from the token, whose row goes  *)
(* with its host.  Any failure after the claim rolls it back, which leaves *)
(* the token open: nothing changes.                                        *)
Register(t, a) ==
    /\ Claimable(t) /\ token[t].host # None /\ agent[a] = NoAgent
    /\ LET h == token[t].host IN
       /\ Free(h)
       /\ agent' = [agent EXCEPT ![a] = [host |-> h, st |-> "online"]]
       /\ host' = [host EXCEPT ![h] = "online"]
       /\ beat' = [beat EXCEPT ![h] = "fresh"]
       /\ Join(h, a)
    /\ token' = [token EXCEPT ![t].st = "used"]
    /\ UNCHANGED <<lock, facts, rows, cont, told, dep, req, tripped, ops>>

RevokeAgent(a) ==
    /\ Call /\ HasRow(a) /\ agent[a].st = "online"
    /\ agent' = [agent EXCEPT ![a].st = "revoked"]
    /\ UNCHANGED <<host, beat, lock, token, runs, seenVars, dep, tripped, events>>

(* Rotation un-revokes; the machine's bearer stops working.                *)
RotateAgentToken(a) ==
    /\ Call /\ HasRow(a)
    /\ agent' = [agent EXCEPT ![a].st = "online"]
    /\ runs' = [runs EXCEPT ![agent[a].host] = None]
    /\ UNCHANGED <<host, beat, lock, token, seenVars, dep, tripped, events>>

(* The operator puts the new bearer on the machine.                        *)
Reinstall(a) ==
    /\ Fault /\ HasRow(a) /\ runs[agent[a].host] = None
    /\ runs' = [runs EXCEPT ![agent[a].host] = a]
    /\ UNCHANGED <<host, beat, lock, agent, token, seenVars, dep, req, tripped,
                   ops>>

----------------------------------------------------------------------------
(* A heartbeat.  "same" are the deployments whose container has neither    *)
(* appeared nor vanished since the scan.                                   *)

Up(d) == cont[d] # "none"
Beat(h, at) == hb' = [hb EXCEPT ![h].at = at]
heartless == <<lock, token, runs, dep, cont, req, tripped, ops>>

(* docker ps -a on the machine.  A scan that fails says so.                *)
Listed(h) == [d \in Deployments |-> IF d \in LiveOn(h) THEN cont[d] ELSE "none"]

Sent(h, list, ok) ==
    hb' = [hb EXCEPT ![h] =
             [at |-> "auth", a |-> runs[h], list |-> list, ok |-> ok,
              todo |-> {d \in Deployments : list[d] # "none"},
              same |-> Deployments]]

(* One beat after the other, whatever became of the one before.            *)
Scan(h) ==
    /\ hb[h].at = "idle" /\ runs[h] # None
    /\ \/ Sent(h, Listed(h), TRUE) /\ events' = events
       \/ Fault /\ Sent(h, Nothing, FALSE)
    /\ UNCHANGED <<host, beat, agent, facts, rows, told, heartless>>

(* The bearer finds a row that is not revoked, or the answer is 401.       *)
AuthenticateAgent(h) ==
    /\ hb[h].at = "auth"
    /\ LET a == hb[h].a IN
       IF runs[h] = a /\ HasRow(a) /\ agent[a].st # "revoked"
       THEN Beat(h, "tx") ELSE hb' = [hb EXCEPT ![h] = Quiet]
    /\ UNCHANGED <<host, beat, agent, facts, rows, told, heartless, events>>

(* The transaction: the agent is online, and applyHostFacts.               *)
HeartbeatTx(h) ==
    /\ hb[h].at = "tx" /\ Free(h)
    /\ LET a == hb[h].a IN
       agent' = IF HasRow(a) THEN [agent EXCEPT ![a].st = "online"] ELSE agent
    /\ host' = IF Exists(h) THEN [host EXCEPT ![h] = "online"] ELSE host
    /\ beat' = IF Exists(h) THEN [beat EXCEPT ![h] = "fresh"] ELSE beat
    /\ Beat(h, "facts")
    /\ UNCHANGED <<facts, rows, told, heartless, events>>

(* The outcome of the scan; a removed host is a foreign-key error, and the *)
(* rest of the recording is skipped.                                       *)
RecordFacts(h) ==
    /\ hb[h].at = "facts" /\ Free(h)
    /\ IF Exists(h)
       THEN /\ facts' = [facts EXCEPT ![h] = IF hb[h].ok THEN "ok" ELSE "bad"]
            /\ Beat(h, "rows")
       ELSE facts' = facts /\ hb' = [hb EXCEPT ![h] = Quiet]
    /\ UNCHANGED <<host, beat, agent, rows, told, heartless, events>>

(* The next container of the list, or on to the prune.                     *)
AfterRowsUnlessEmpty(h) == IF hb[h].list = Nothing THEN "idle" ELSE "prune"
AfterRows(h) == "prune"

UpsertObserved(h) ==
    /\ hb[h].at = "rows" /\ Free(h)
    /\ \/ /\ hb[h].todo = {} /\ Beat(h, AfterRows(h))
          /\ UNCHANGED <<rows, told>>
       \/ \E d \in hb[h].todo :
             IF Exists(h)
             THEN /\ rows' = [rows EXCEPT ![h][d] = hb[h].list[d]]
                  /\ hb' = [hb EXCEPT ![h].todo = @ \ {d}]
                  /\ told' = IF d \in hb[h].same
                             THEN [told EXCEPT ![d] = "up"] ELSE told
             ELSE hb' = [hb EXCEPT ![h] = Quiet] /\ UNCHANGED <<rows, told>>
    /\ UNCHANGED <<host, beat, agent, facts, heartless, events>>

(* Only a scan that succeeded and was complete may remove rows.            *)
Unseen(h) == {d \in Deployments : hb[h].list[d] = "none"}
PrunedOnAnyScan(h) == Unseen(h)
Pruned(h) == IF hb[h].ok THEN Unseen(h) ELSE {}

PruneObserved(h) ==
    /\ hb[h].at = "prune"
    /\ rows' = [rows EXCEPT ![h] = [d \in Deployments |->
                   IF d \in Pruned(h) THEN "none" ELSE rows[h][d]]]
    /\ told' = [d \in Deployments |->
                   IF hb[h].ok /\ d \in Unseen(h) \cap LiveOn(h) \cap hb[h].same
                   THEN "gone" ELSE told[d]]
    /\ hb' = [hb EXCEPT ![h] = Quiet]
    /\ UNCHANGED <<host, beat, agent, facts, heartless, events>>

(* The connection drops, or a statement fails.                             *)
CutHeartbeat(h) ==
    /\ hb[h].at \notin {"idle", "auth"} /\ Fault
    /\ hb' = [hb EXCEPT ![h] = Quiet]
    /\ UNCHANGED <<host, beat, agent, facts, rows, told, heartless>>

HeartbeatStep(h) ==
    \/ Scan(h) \/ AuthenticateAgent(h) \/ HeartbeatTx(h) \/ RecordFacts(h)
    \/ UpsertObserved(h) \/ PruneObserved(h)

(* No heartbeat for longer than staleAfter.                                *)
BeatAges(h) ==
    /\ beat[h] = "fresh" /\ Fault
    /\ beat' = [beat EXCEPT ![h] = "old"]
    /\ UNCHANGED <<host, agent, facts, rows, told, hb, heartless>>

----------------------------------------------------------------------------
(* Deployments, as far as their host is concerned.                         *)

(* A host that exists and is not draining, checked outside the insert.     *)
ValidateHost(r, d, h) ==
    /\ dep[d] = NoDep /\ Exists(h) /\ host[h] # "draining"
    /\ Take(r, "create", "insert", h, None, d, {})
    /\ UNCHANGED <<host, beat, lock, agentVars, seenVars, dep, tripped, events>>

InsertDeployment(r) ==
    /\ At(r, "create", "insert") /\ Free(req[r].h)
    /\ LET h == req[r].h  d == req[r].d IN
       dep' = IF Exists(h) /\ dep[d] = NoDep
              THEN [dep EXCEPT ![d] = [st |-> "live", host |-> h,
                                       ext |-> FALSE]]
              ELSE dep
    /\ Done(r)
    /\ UNCHANGED <<host, beat, lock, agentVars, seenVars, tripped, events>>

(* An external deployment is recorded on the self-host and runs elsewhere. *)
AdoptDeployment(d) ==
    /\ Call /\ dep[d] = NoDep
    /\ dep' = [dep EXCEPT ![d] = [st |-> "live", host |-> Self, ext |-> TRUE]]
    /\ UNCHANGED <<host, beat, lock, agentVars, seenVars, tripped, events>>

(* The container appears or vanishes: what was told of it no longer holds. *)
Turned(d, slots) ==
    /\ told' = [told EXCEPT ![d] = "no"]
    /\ hb' = [h \in Hosts |-> [hb[h] EXCEPT !.same = @ \ {d}]]
    /\ req' = [r \in Requests |-> [slots[r] EXCEPT !.sure[d] = "no"]]

(* The teardown, then status = 'deleted'; the row keeps its host.  The     *)
(* request goes on to what the cells know of the deployment (Cells).       *)
Deleting(d) == [Idle EXCEPT !.op = "delete", !.at = "desired", !.d = d]

DeleteDeployment(r, d) ==
    /\ FirstFree(r) /\ Busy /\ Live(d)
    /\ dep' = [dep EXCEPT ![d].st = "deleted"]
    /\ cont' = [cont EXCEPT ![d] = "none"]
    /\ Turned(d, [req EXCEPT ![r] = Deleting(d)])
    /\ UNCHANGED <<host, beat, lock, agentVars, facts, rows, tripped, events>>

(* The provisioner, Docker or a person changes a container.                *)
ContainerChanges(d) ==
    /\ Fault /\ Live(d) /\ ~dep[d].ext
    /\ \E s \in {"none", "running", "exited"} \ {cont[d]} :
          /\ cont' = [cont EXCEPT ![d] = s]
          /\ IF s = "none" \/ cont[d] = "none" THEN Turned(d, req)
             ELSE UNCHANGED <<told, hb, req>>
    /\ UNCHANGED <<host, beat, lock, agentVars, facts, rows, dep, tripped, ops>>

----------------------------------------------------------------------------
(* Every step but the erasure of a host, which reaches into the cells.     *)
FleetStep ==
    \/ \E h \in Hosts :
          \/ CreateHost(h) \/ DrainHost(h)
          \/ HeartbeatStep(h) \/ CutHeartbeat(h) \/ BeatAges(h)
    \/ \E r \in Requests :
          \/ \E h \in Hosts : LoadHostForUpdate(r, h) \/ CheckRemoval(r, h)
          \/ \E h \in Hosts, d \in Deployments : ValidateHost(r, d, h)
          \/ WriteHost(r) \/ Teardown(r) \/ LockHost(r) \/ InsertDeployment(r)
          \/ \E d \in Deployments : DeleteDeployment(r, d)
    \/ \E t \in Tokens :
          \/ \E h \in Hosts : CreateAdoptionToken(t, h) \/ CreateRemoteSetup(t, h)
          \/ \E a \in Agents : Register(t, a)
          \/ TokenExpires(t)
    \/ \E a \in Agents : RevokeAgent(a) \/ RotateAgentToken(a) \/ Reinstall(a)
    \/ \E d \in Deployments : AdoptDeployment(d) \/ ContainerChanges(d)

----------------------------------------------------------------------------
(* Properties.                                                             *)

(* Removing a host never ends in the foreign-key error its transaction     *)
(* re-checks for: no deployment lands on the host between the last count   *)
(* and the DELETE (deleteHost).                                            *)
RemovalIsClean == ~tripped

(* A container row whose container is gone goes away, as long as the       *)
(* machine's agent is served: the reports converge on what runs, whatever  *)
(* scans failed and heartbeats were cut (recordObservedStates).            *)
Served(h) == runs[h] # None /\ HasRow(runs[h]) /\ agent[runs[h]].st = "online"
GoneIsSeen ==
    \A h \in Hosts, d \in Deployments :
        (rows[h][d] # "none" /\ d \in LiveOn(h) /\ ~Up(d) /\ Served(h)) ~>
            (rows[h][d] = "none" \/ Up(d) \/ ~Served(h) \/ d \notin LiveOn(h))

=============================================================================
