------------------------------- MODULE Proxy -------------------------------
(***************************************************************************)
(* The reverse proxy (internal/proxy, the dispatch in cmd/server/main.go). *)
(*                                                                         *)
(* A request is mapped from its host to a deployment and from there to the *)
(* addresses of its replicas through two caches that are filled after the  *)
(* rows were read, dropped by handlers, and expire.  The network-DNS mode  *)
(* of the compose installation, one process.  The tables are changed from  *)
(* outside (Domains, HealthSweep, Upgrade model who does it); an address   *)
(* is the container it names, and time moves in parts of CacheTTL.         *)
(***************************************************************************)
EXTENDS Naturals, Sequences, FiniteSets, Routing

CONSTANTS
    Kinds,       \* how deployments run: functions on Deps
    Requests,
    TTL,         \* CacheTTL in time units
    MaxChanges,  \* bound: changes of tables and containers
    MaxReqs      \* bound: requests

ASSUME ProxyAssumption ==
    /\ Kinds \subseteq [Deps -> {"local", "remote", "adopted"}]
    /\ TTL \in Nat \ {0} /\ MaxChanges \in Nat /\ MaxReqs \in Nat
    /\ None \notin Deps \cup Names
    /\ "site" \in Deps => \A k \in Kinds : k["site"] = "adopted"   \* docker/names.go

VARIABLES
    kind,         \* how each deployment runs; never changes
    binding,      \* active rows of deployment_domains
    dep,          \* deployments: status, ha_enabled; hosts: tailnet_addr
    live,         \* indexes of the running deployment_replicas rows
    recent,       \* the replica with the latest last_seen_active_at; 2: none
    up,           \* containers that accept connections
    domainCache, cache,
    dropping,     \* a name whose row changed, before its InvalidateDomain
    straddled,    \* history: names read before an invalidation, filled after
    hushed,       \* history: names that lost active with no invalidation
    steady,       \* history: a request's replicas that were up all along
    req, changes, count

tables == <<kind, binding, dep, live, up, dropping, changes>>
history == <<straddled, hushed>>
vars == <<tables, recent, domainCache, cache, history, steady, req, count>>

Addr(d, ha, i) == [dep |-> d, ha |-> ha, i |-> IF ha THEN i ELSE 0]
Containers == {Addr(d, ha, i) : d \in Deps, ha \in BOOLEAN, i \in {0, 1}}
Unbound == [dep |-> None, role |-> None]
NoEntry == [dep |-> None, role |-> None, left |-> 0, stale |-> 0]
NoAddrs == [addrs |-> <<>>, left |-> 0, stale |-> 0]
NoReq == [pc |-> "idle", host |-> None, name |-> None, role |-> None, site |-> FALSE,
          ha |-> FALSE, addrs |-> <<>>, i |-> 1, big |-> FALSE, answer |-> None]
Roles == {"api", "dashboard", "site"}
Answers == {"served", "dashboard", "api", "not_found", "no_replicas",
            "unsupported", "bad_gateway", "empty"}

TypeOK ==
    /\ \A n \in Names : binding[n] = Unbound
                        \/ binding[n] \in [dep : Deps, role : Roles]
    /\ \A d \in Deps : dep[d].status \in {"running", "stopped", "deleted"}
    /\ live \in [Deps -> SUBSET {0, 1}] /\ recent \in [Deps -> 0 .. 2]
    /\ up \subseteq Containers
    /\ \A n \in Names : domainCache[n].left \in 0 .. TTL
    /\ \A d \in Deps : cache[d].left \in 0 .. TTL /\ Len(cache[d].addrs) <= 2
    /\ \A r \in Requests :
         /\ req[r].answer \in Answers \cup {None}
         /\ req[r].pc = "try" => req[r].i \in 1 .. Len(req[r].addrs)
    /\ dropping \in Names \cup {None}
    /\ straddled \subseteq Names /\ hushed \subseteq Names
    /\ steady \in [Requests -> SUBSET Containers]

Init ==
    /\ kind \in Kinds
    /\ binding = [n \in Names |-> Unbound]
    /\ dep = [d \in Deps |-> [status |-> "running", ha |-> FALSE,
                              tailnet |-> FALSE]]
    /\ live = [d \in Deps |-> IF kind[d] = "adopted" THEN {} ELSE {0}]
    /\ recent = [d \in Deps |-> 2]
    /\ up = {Addr(d, FALSE, 0) : d \in {e \in Deps : kind[e] # "adopted"}}
    /\ domainCache = [n \in Names |-> NoEntry] /\ cache = [d \in Deps |-> NoAddrs]
    /\ dropping = None /\ straddled = {} /\ hushed = {}
    /\ steady = [r \in Requests |-> {}]
    /\ req = [r \in Requests |-> NoReq] /\ changes = 0 /\ count = 0

----------------------------------------------------------------------------
At(r, label) == req[r].pc = label
Step(r, q) == req' = [req EXCEPT ![r] = q]
Answer(r, a) == Step(r, [NoReq EXCEPT !.pc = "done", !.answer = a])
OnlyReq == UNCHANGED <<tables, recent, domainCache, cache, history, steady, count>>

(* A request arrives at a custom domain, or names its deployment by the    *)
(* wildcard host, the site host or the path.                               *)
Begin(r, host, d, site, big) ==
    /\ req[r].pc \in {"idle", "done"} /\ count < MaxReqs /\ count' = count + 1
    /\ Step(r, [NoReq EXCEPT !.pc = IF host # None THEN "shim" ELSE "resolve",
                             !.host = host, !.name = d, !.site = site, !.big = big])
    /\ steady' = [steady EXCEPT ![r] = {}]
    /\ UNCHANGED <<tables, recent, domainCache, cache, history>>

(* ResolveDomain: a live cache entry, or the row of an active domain ...   *)
RowOf(n) == IF binding[n].dep # None /\ dep[binding[n].dep].status # "deleted"
            THEN binding[n] ELSE Unbound

(* ... asked by the dispatcher, which serves the dashboard itself, and     *)
(* again by the handler.                                                   *)
Resolved(r, e) ==
    LET q == [req[r] EXCEPT !.name = e.dep, !.role = e.role,
                            !.site = e.role = "site"]
        first == req[r].pc \in {"shim", "shimFill"}
    IN CASE e.role = "dashboard" -> Answer(r, "dashboard")
         [] e.role # "dashboard" /\ first -> Step(r, [q EXCEPT !.pc = "domain"])
         [] e.role # "dashboard" /\ ~first -> Step(r, [q EXCEPT !.pc = "resolve"])

(* Mutant: a hit extends the entry's life.                                 *)
DomainHitSliding(r) ==
    /\ req[r].pc \in {"shim", "domain"} /\ domainCache[req[r].host].left > 0
    /\ Resolved(r, domainCache[req[r].host])
    /\ domainCache' = [domainCache EXCEPT ![req[r].host].left = TTL]
    /\ UNCHANGED <<tables, recent, cache, history, steady, count>>

DomainHit(r) ==
    /\ req[r].pc \in {"shim", "domain"} /\ domainCache[req[r].host].left > 0
    /\ Resolved(r, domainCache[req[r].host])
    /\ OnlyReq

DomainRead(r) ==
    /\ req[r].pc \in {"shim", "domain"} /\ domainCache[req[r].host].left = 0
    /\ LET e == RowOf(req[r].host) IN
         IF e = Unbound
         THEN Answer(r, IF At(r, "shim") THEN "api" ELSE "not_found")
         ELSE Step(r, [req[r] EXCEPT !.name = e.dep, !.role = e.role,
                         !.pc = IF @ = "shim" THEN "shimFill" ELSE "domainFill"])
    /\ OnlyReq

DomainFill(r) ==
    /\ req[r].pc \in {"shimFill", "domainFill"}
    /\ LET e == [dep |-> req[r].name, role |-> req[r].role, left |-> TTL, stale |-> 0]
       IN domainCache' = [domainCache EXCEPT ![req[r].host] = e] /\ Resolved(r, e)
    /\ UNCHANGED <<tables, recent, cache, history, steady, count>>

----------------------------------------------------------------------------
(* ResolveAll: a live entry, or the deployment row ...                     *)
GoTry(r, addrs) ==
    IF req[r].site /\ kind[req[r].name] = "remote"
    THEN Answer(r, "unsupported") /\ UNCHANGED steady
    ELSE /\ Step(r, [req[r] EXCEPT !.pc = "try", !.addrs = addrs, !.ha = FALSE])
         /\ steady' = [steady EXCEPT ![r] = {addrs[k] : k \in 1 .. Len(addrs)} \cap up]

AddressHit(r) ==
    /\ At(r, "resolve") /\ cache[req[r].name].left > 0
    /\ GoTry(r, cache[req[r].name].addrs)
    /\ UNCHANGED <<tables, recent, domainCache, cache, history, count>>

ReadDeployment(r) ==
    /\ At(r, "resolve") /\ cache[req[r].name].left = 0
    /\ LET d == req[r].name IN
         IF dep[d].status # "running" \/ (kind[d] = "remote" /\ ~dep[d].tailnet)
         THEN Answer(r, "not_found")
         ELSE Step(r, [req[r] EXCEPT !.pc = "replicas", !.ha = dep[d].ha])
    /\ OnlyReq

(* ... then its running replicas, the most recently alive first; without   *)
(* any row at all the address follows from the deployment's name.          *)
Ordered(d) == LET s == live[d] IN
    CASE s = {0, 1} -> IF recent[d] = 1 THEN <<1, 0>> ELSE <<0, 1>>
      [] s = {0} -> <<0>> [] s = {1} -> <<1>> [] s = {} -> <<>>

ReadReplicas(r) ==
    /\ At(r, "replicas")
    /\ LET d == req[r].name
           addrs == [k \in 1 .. Len(Ordered(d)) |-> Addr(d, req[r].ha, Ordered(d)[k])]
       IN IF live[d] # {}
          THEN Step(r, [req[r] EXCEPT !.pc = "fill", !.addrs = addrs])
          ELSE IF kind[d] = "adopted" /\ dep[d].status = "running"
               THEN Step(r, [req[r] EXCEPT !.pc = "fill", !.addrs = <<Addr(d, FALSE, 0)>>])
               ELSE Answer(r, "no_replicas")
    /\ OnlyReq

(* The mixed reads: ha_enabled of one moment, replicas of another.         *)
Current(d, addrs) == dep[d].status = "running"
    /\ \A k \in 1 .. Len(addrs) : addrs[k].ha = dep[d].ha

Fill(r) ==
    /\ At(r, "fill")
    /\ cache' = [cache EXCEPT ![req[r].name] =
                   [addrs |-> req[r].addrs, left |-> TTL, stale |-> 0]]
    /\ GoTry(r, req[r].addrs)
    /\ UNCHANGED <<tables, recent, domainCache, history, count>>

----------------------------------------------------------------------------
(* proxyOnce for a single address or a body too big to keep; otherwise     *)
(* proxyWithFailover, which goes on to the next replica on a connection    *)
(* error and flushes what the last attempt captured, nothing if it failed. *)
Single(r) == Len(req[r].addrs) = 1 \/ req[r].big
Reaches(r) == req[r].addrs[req[r].i] \in up

Serve(r) ==
    /\ At(r, "try") /\ Reaches(r)
    /\ Answer(r, "served") /\ OnlyReq

FailOver(r) ==
    /\ At(r, "try") /\ ~Reaches(r) /\ ~Single(r)
    /\ req[r].i < Len(req[r].addrs)
    /\ Step(r, [req[r] EXCEPT !.i = @ + 1]) /\ OnlyReq

(* Mutant: the loop takes the last but one replica for the last.           *)
GiveUpEarly(r) ==
    /\ At(r, "try") /\ ~Reaches(r)
    /\ Single(r) \/ req[r].i + 1 >= Len(req[r].addrs)
    /\ Answer(r, IF Single(r) THEN "bad_gateway" ELSE "empty") /\ OnlyReq

GiveUp(r) ==
    /\ At(r, "try") /\ ~Reaches(r)
    /\ Single(r) \/ req[r].i = Len(req[r].addrs)
    /\ Answer(r, IF Single(r) THEN "bad_gateway" ELSE "empty") /\ OnlyReq

Handle(r) == DomainHit(r) \/ DomainRead(r) \/ DomainFill(r) \/ AddressHit(r)
             \/ ReadDeployment(r) \/ ReadReplicas(r) \/ Fill(r)
             \/ Serve(r) \/ FailOver(r) \/ GiveUp(r)

----------------------------------------------------------------------------
Change == changes < MaxChanges /\ changes' = changes + 1
OnlyTables == UNCHANGED <<recent, domainCache, cache, history, steady, req, count>>

(* A change of the containers leaves steady those that stayed up.          *)
Containers1 ==
    /\ steady' = [r \in Requests |-> steady[r] \cap up']
    /\ UNCHANGED <<recent, domainCache, cache, history, req, count>>

(* A domain row becomes active, by the verifier or by verifyDomain, which  *)
(* goes on to drop the name's entry.                                       *)
Activate(n, d, role) ==
    /\ Change /\ binding[n] = Unbound /\ dropping # n
    /\ dep[d].status # "deleted" /\ kind[d] # "adopted"
    /\ binding' = [binding EXCEPT ![n] = [dep |-> d, role |-> role]]
    /\ dropping' = dropping \/ (dropping = None /\ dropping' = n)
    /\ hushed' = hushed \ {n}
    /\ UNCHANGED <<kind, dep, live, up, recent, domainCache, cache, straddled, steady, req,
                   count>>

(* Mutant: the handler drops no entry after the row.                       *)
DeactivateLate(n) ==
    /\ Change /\ dropping = None /\ binding[n] # Unbound
    /\ binding' = [binding EXCEPT ![n] = Unbound]
    /\ UNCHANGED <<kind, dep, live, up, dropping>> /\ OnlyTables

(* deleteDomain, a verify that fails, a create: the row, active or not,    *)
(* then the cache entry.                                                   *)
Deactivate(n) ==
    /\ Change /\ dropping = None
    /\ binding' = [binding EXCEPT ![n] = Unbound] /\ dropping' = n
    /\ UNCHANGED <<kind, dep, live, up>> /\ OnlyTables

(* auto_configure takes an active row back to pending, and no entry goes.  *)
Rearm(n) ==
    /\ Change /\ RowOf(n) # Unbound
    /\ binding' = [binding EXCEPT ![n] = Unbound]
    /\ hushed' = hushed \cup {n}
    /\ UNCHANGED <<kind, dep, live, up, dropping, recent, domainCache, cache, straddled,
                   steady, req, count>>

Reading(n) == \E r \in Requests : req[r].host = n
                                  /\ req[r].pc \in {"shimFill", "domainFill"}

InvalidateDomain ==
    /\ dropping # None
    /\ domainCache' = [domainCache EXCEPT ![dropping] = NoEntry]
    /\ straddled' = IF Reading(dropping) THEN straddled \cup {dropping}
                    ELSE straddled \ {dropping}
    /\ hushed' = hushed \ {dropping} /\ dropping' = None
    /\ UNCHANGED <<kind, binding, dep, live, up, changes, recent, cache, steady, req,
                   count>>

(* The health worker's verdicts, a delete, the swap to HA, a container     *)
(* that dies or returns, an agent that reports its tailnet address.        *)
SetStatus(d, s) ==
    /\ Change /\ dep[d].status \notin {s, "deleted"}
    /\ dep' = [dep EXCEPT ![d].status = s]
    /\ live' = IF s = "deleted" THEN [live EXCEPT ![d] = {}] ELSE live
    /\ up' = IF s = "deleted" THEN {a \in up : a.dep # d} ELSE up
    /\ UNCHANGED <<kind, binding, dropping>> /\ Containers1

SwapToHA(d) ==
    /\ Change /\ kind[d] = "local" /\ dep[d].status = "running" /\ ~dep[d].ha
    /\ dep' = [dep EXCEPT ![d].ha = TRUE]
    /\ live' = [live EXCEPT ![d] = {0, 1}]
    /\ up' = up \cup {Addr(d, TRUE, 0), Addr(d, TRUE, 1)}
    /\ UNCHANGED <<kind, binding, dropping>> /\ Containers1

Flip(a) ==
    /\ Change /\ dep[a.dep].status # "deleted" /\ kind[a.dep] # "adopted"
    /\ a \in up \/ a.ha = dep[a.dep].ha
    /\ up' = IF a \in up THEN up \ {a} ELSE up \cup {a}
    /\ UNCHANGED <<kind, binding, dep, live, dropping>> /\ Containers1

MarkReplica(d, i) ==
    /\ Change /\ dep[d].status # "deleted" /\ kind[d] # "adopted"
    /\ i = 0 \/ dep[d].ha
    /\ live' = [live EXCEPT ![d] = IF i \in @ THEN @ \ {i} ELSE @ \cup {i}]
    /\ UNCHANGED <<kind, binding, dep, up, dropping>> /\ OnlyTables

Register(d) ==
    /\ Change /\ kind[d] = "remote" /\ ~dep[d].tailnet
    /\ dep' = [dep EXCEPT ![d].tailnet = TRUE]
    /\ UNCHANGED <<kind, binding, live, up, dropping>> /\ OnlyTables

(* HealthProbe.Sweep, per replica: an HA replica that answers is the       *)
(* latest one seen.                                                        *)
Probe(d, i) ==
    /\ dep[d].status = "running" /\ dep[d].ha /\ i \in live[d]
    /\ Addr(d, TRUE, i) \in up /\ recent[d] # i
    /\ recent' = [recent EXCEPT ![d] = i]
    /\ UNCHANGED <<tables, domainCache, cache, history, steady, req, count>>

(* A part of the TTL passes; a query takes none.                           *)
Expire(e, current) == IF e.left = 0 THEN e
    ELSE [e EXCEPT !.left = @ - 1, !.stale = IF current THEN 0 ELSE @ + 1]

TimePasses ==
    /\ \A r \in Requests : req[r].pc \in {"idle", "done"}
    /\ dropping = None
    /\ \/ \E n \in Names : domainCache[n].left > 0
       \/ \E d \in Deps : cache[d].left > 0
    /\ domainCache' = [n \in Names |-> LET e == domainCache[n] IN
                         IF e.left = 1 THEN NoEntry
                         ELSE Expire(e, RowOf(n).dep = e.dep)]
    /\ cache' = [d \in Deps |-> LET e == cache[d] IN
                   IF e.left = 1 THEN NoAddrs ELSE Expire(e, Current(d, e.addrs))]
    /\ UNCHANGED <<tables, recent, history, steady, req, count>>

----------------------------------------------------------------------------
World ==
    \/ \E n \in Names : \/ Deactivate(n) \/ Rearm(n)
                        \/ \E d \in Deps, role \in Roles : Activate(n, d, role)
    \/ InvalidateDomain
    \/ \E d \in Deps : \/ \E s \in {"running", "stopped", "deleted"} : SetStatus(d, s)
                       \/ SwapToHA(d) \/ Register(d)
                       \/ \E i \in {0, 1} : MarkReplica(d, i) \/ Probe(d, i)
    \/ \E a \in Containers : Flip(a)
    \/ TimePasses

Next ==
    \/ \E r \in Requests :
         \/ Handle(r)
         \/ \E n \in Names, big \in BOOLEAN : Begin(r, n, None, FALSE, big)
         \/ \E d \in Deps, site \in BOOLEAN, big \in BOOLEAN :
              Begin(r, None, d, site, big)
    \/ World

Spec == Init /\ [][Next]_vars

----------------------------------------------------------------------------
(* What a cache says may be wrong, but never for longer than its TTL after *)
(* the row stopped saying it, however often it is hit (proxy.go:275, 448). *)
(* Entries and requests are well formed.                                   *)
StaleAtMostTTL ==
    /\ TypeOK
    /\ \A n \in Names : domainCache[n].stale < TTL
    /\ \A d \in Deps : cache[d].stale < TTL

(* Once the entry of a name that is no longer active was invalidated, the  *)
(* proxy does not know the name any more (domains.go:720), unless a lookup *)
(* had read the row before and cached it after.  A name that lost active   *)
(* with no invalidation is the other case, until the next one.             *)
InvalidationHolds ==
    \A n \in Names :
        (domainCache[n].left > 0 /\ binding[n] = Unbound) =>
            n = dropping \/ n \in straddled \/ n \in hushed

(* proxyWithFailover passes over no replica that accepts connections: a    *)
(* request that ends without a response had none that was up all along,    *)
(* while containers die, return, are deleted and swapped (proxy.go:737).   *)
NoReplicaPassedOver ==
    \A r \in Requests : req[r].answer = "empty" => steady[r] = {}
=============================================================================
