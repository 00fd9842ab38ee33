--------------------------- MODULE RoutingProofs ---------------------------
(***************************************************************************)
(* TLAPS proofs about the two sides of routing, for every set of           *)
(* deployments, domains, credentials and requests and every TTL: first the *)
(* proxy, which reads the deployment_domains table, then the handlers and  *)
(* the sweep that write it.                                                *)
(*                                                                         *)
(* Proxy.  An entry's age and what is left of its life add up to the TTL   *)
(* at most, however often it is hit (CacheInv).  A lookup that read a row  *)
(* before it went is where a dropped name can come back from: it is either *)
(* before the handler's invalidation, or the name is marked (HoldInv).     *)
(*                                                                         *)
(* A replica that was up all along is among the addresses a failover has   *)
(* still to try (SteadyInv).                                               *)
(*                                                                         *)
(* Domains.  A verdict carries the id of the row it was reached for, and a *)
(* match of that id is on record, in a request (OpOK) as in the sweep      *)
(* (VerInv): DomainsInv.  A rise to active has somebody who owes the name  *)
(* its container, a rebuild that has not read yet or has read the name, or *)
(* a create on its way to one (RiseInv): once all is quiet nobody owes.    *)
(***************************************************************************)
EXTENDS Proxy, Domains, TLAPS

DepRecs == [status : {"running", "stopped", "deleted"}, ha : BOOLEAN, tailnet : BOOLEAN]
Bindings == [dep : Deps, role : Roles]
Entries == [dep : Deps, role : Roles, left : 1 .. TTL, stale : Nat]
Lists == [addrs : Seq(Containers), left : 1 .. TTL, stale : Nat]
ReqRecs ==
    [pc : {"idle", "shim", "shimFill", "domain", "domainFill", "resolve", "replicas",
           "fill", "try", "done"},
     host : Names \cup {None}, name : Deps \cup {None}, role : Roles \cup {None},
     site : BOOLEAN, ha : BOOLEAN, addrs : Seq(Containers), i : Nat, big : BOOLEAN,
     answer : Answers \cup {None}]

TableInv ==
    /\ kind \in Kinds /\ kind \in [Deps -> {"local", "remote", "adopted"}]
    /\ binding \in [Names -> Bindings \cup {Unbound}]
    /\ \A n \in Names : binding[n] # Unbound => kind[binding[n].dep] # "adopted"
    /\ dep \in [Deps -> DepRecs]
    /\ live \in [Deps -> SUBSET {0, 1}] /\ recent \in [Deps -> 0 .. 2]
    /\ up \subseteq Containers
    /\ dropping \in Names \cup {None} /\ straddled \subseteq Names /\ hushed \subseteq Names

EntryOK(e) == e = NoEntry \/ (e \in Entries /\ e.stale + e.left <= TTL)
ListOK(e) == \/ e = NoAddrs
             \/ e \in Lists /\ e.stale + e.left <= TTL /\ Len(e.addrs) \in 1 .. 2

CacheInv ==
    /\ domainCache = [n \in Names |-> domainCache[n]] /\ cache = [d \in Deps |-> cache[d]]
    /\ \A n \in Names : EntryOK(domainCache[n])
    /\ \A d \in Deps : ListOK(cache[d])

(* What a request carries at each label.                                   *)
Shape(q) ==
    /\ q.pc \in {"shim", "domain", "shimFill", "domainFill"} => q.host \in Names
    /\ q.pc \in {"shimFill", "domainFill"} => q.name \in Deps /\ q.role \in Roles
    /\ q.pc \in {"resolve", "replicas", "fill", "try"} => q.name \in Deps
    /\ q.pc \in {"fill", "try"} => Len(q.addrs) \in 1 .. 2
    /\ q.pc = "try" => q.i \in 1 .. Len(q.addrs)
    /\ q.pc # "try" => q.i = 1

ReqInv == req \in [Requests -> ReqRecs] /\ \A r \in Requests : Shape(req[r])

(* A name that is gone and may still be known.                             *)
Excused(n) == n = dropping \/ n \in straddled \/ n \in hushed

FillOK(q) ==
    q.pc \in {"shimFill", "domainFill"} /\ binding[q.host] = Unbound => Excused(q.host)

HoldInv == InvalidationHolds /\ \A r \in Requests : FillOK(req[r])

IInv == TableInv /\ CacheInv /\ ReqInv /\ HoldInv

LEMMA Constants ==
    /\ NoEntry.left = 0 /\ NoEntry.stale = 0 /\ NoEntry.dep = None
    /\ NoAddrs.left = 0 /\ NoAddrs.stale = 0 /\ Len(NoAddrs.addrs) = 0
    /\ NoReq \in ReqRecs /\ NoReq.pc = "idle" /\ NoReq.i = 1
    /\ None \notin Deps /\ None \notin Names
  BY ProxyAssumption DEF NoEntry, NoAddrs, NoReq, ReqRecs, None, Roles, Answers

LEMMA TTLPositive == TTL \in Nat /\ TTL > 0 /\ TTL \in 1 .. TTL
  BY ProxyAssumption

LEMMA OneAddress ==
    ASSUME NEW S, NEW x \in S
    PROVE  <<x>> \in Seq(S) /\ Len(<<x>>) = 1
  OBVIOUS

LEMMA FirstOfMany == \A n \in 1 .. 2 : 1 \in 1 .. n
  OBVIOUS

LEMMA TwoAddresses ==
    ASSUME NEW S, NEW x \in S, NEW y \in S
    PROVE  <<x, y>> \in Seq(S) /\ Len(<<x, y>>) = 2
  OBVIOUS

LEMMA AddrIsContainer ==
    ASSUME NEW d \in Deps, NEW ha \in BOOLEAN, NEW i \in {0, 1}
    PROVE  Addr(d, ha, i) \in Containers
  BY DEF Containers

(* The running replicas of a deployment, in some order.                    *)
LEMMA OrderedReplicas ==
    ASSUME NEW d \in Deps, live[d] \subseteq {0, 1}, live[d] # {}
    PROVE  Ordered(d) \in Seq({0, 1}) /\ Len(Ordered(d)) \in 1 .. 2
<1>1. CASE live[d] = {0, 1}
  <2>1. {0, 1} # {0} /\ {0, 1} # {1} /\ {0, 1} # {}
    OBVIOUS
  <2>2. Ordered(d) = IF recent[d] = 1 THEN <<1, 0>> ELSE <<0, 1>>
    BY <1>1, <2>1 DEF Ordered
  <2>3. CASE recent[d] = 1
    BY <2>2, <2>3, TwoAddresses
  <2>4. CASE recent[d] # 1
    BY <2>2, <2>4, TwoAddresses
  <2> QED
    BY <2>3, <2>4
<1>2. CASE live[d] = {0}
  <2>1. {0} # {0, 1} /\ {0} # {1} /\ {0} # {}
    OBVIOUS
  <2>2. Ordered(d) = <<0>>
    BY <1>2, <2>1 DEF Ordered
  <2> QED
    BY <2>2, OneAddress
<1>3. CASE live[d] = {1}
  <2>1. {1} # {0, 1} /\ {1} # {0} /\ {1} # {}
    OBVIOUS
  <2>2. Ordered(d) = <<1>>
    BY <1>3, <2>1 DEF Ordered
  <2> QED
    BY <2>2, OneAddress
<1> QED
  BY <1>1, <1>2, <1>3

(* A step of one request that leaves the tables alone, and may fill the    *)
(* cache of addresses.                                                     *)
LEMMA RequestFills ==
    ASSUME IInv, NEW r \in Requests, NEW q \in ReqRecs, Shape(q), FillOK(q), Step(r, q),
           UNCHANGED <<tables, recent, domainCache, history>>,
           cache' = [d \in Deps |-> cache'[d]], \A d \in Deps : ListOK(cache'[d])
    PROVE  IInv'
<1>1. UNCHANGED <<kind, binding, dep, live, up, dropping, recent, domainCache, straddled,
                  hushed>>
  BY DEF tables, history
<1>2. req' \in [Requests -> ReqRecs] /\ req'[r] = q
      /\ \A x \in Requests \ {r} : req'[x] = req[x]
  BY DEF IInv, ReqInv, Step
<1>3. ReqInv'
  <2>1. \A x \in Requests : Shape(req'[x])
    BY <1>2 DEF IInv, ReqInv
  <2> QED
    BY <1>2, <2>1 DEF ReqInv, Shape
<1>4. TableInv'
  BY <1>1 DEF IInv, TableInv
<1>5. CacheInv'
  <2>1. /\ domainCache' = [n \in Names |-> domainCache'[n]]
        /\ \A n \in Names : EntryOK(domainCache'[n])
    BY <1>1 DEF IInv, CacheInv
  <2> QED
    BY <2>1 DEF CacheInv, EntryOK, ListOK
<1>6. HoldInv'
  <2>1. InvalidationHolds'
    BY <1>1 DEF IInv, HoldInv, InvalidationHolds
  <2>2. \A x \in Requests : FillOK(req'[x])
    BY <1>2 DEF IInv, HoldInv
  <2> QED
    BY <1>1, <2>1, <2>2 DEF HoldInv, FillOK, Excused
<1> QED
  BY <1>3, <1>4, <1>5, <1>6 DEF IInv

LEMMA RequestMoves ==
    ASSUME IInv, NEW r \in Requests, NEW q \in ReqRecs, Shape(q), FillOK(q), Step(r, q),
           UNCHANGED <<tables, recent, domainCache, cache, history>>
    PROVE  IInv'
<1>1. cache' = [d \in Deps |-> cache'[d]] /\ \A d \in Deps : ListOK(cache'[d])
  BY DEF IInv, CacheInv
<1> QED
  BY <1>1, RequestFills

(* The request that has been answered.                                     *)
LEMMA AnswerRequest ==
    ASSUME NEW r \in Requests, NEW a \in Answers, Answer(r, a)
    PROVE  \E q \in ReqRecs : /\ Shape(q) /\ FillOK(q) /\ Step(r, q)
                             /\ q.pc = "done" /\ q.answer = a
<1> DEFINE q == [NoReq EXCEPT !.pc = "done", !.answer = a]
<1>1. q \in ReqRecs /\ q.pc = "done" /\ q.i = 1 /\ q.answer = a
  BY Constants DEF ReqRecs
<1>2. Step(r, q)
  BY DEF Answer
<1> HIDE DEF q
<1>3. Shape(q) /\ FillOK(q)
  BY <1>1 DEF Shape, FillOK
<1> QED
  BY <1>1, <1>2, <1>3

LEMMA AnswerMoves ==
    ASSUME IInv, NEW r \in Requests, NEW a \in Answers, Answer(r, a),
           UNCHANGED <<tables, recent, domainCache, cache, history>>
    PROVE  IInv'
  BY AnswerRequest, RequestMoves

(* A request arrives.                                                      *)
LEMMA BeginStep ==
    ASSUME IInv, NEW r \in Requests, NEW host \in Names \cup {None}, NEW d \in Deps \cup {None},
           NEW site \in BOOLEAN, NEW big \in BOOLEAN, host = None => d \in Deps,
           Begin(r, host, d, site, big)
    PROVE  IInv'
<1> DEFINE l == IF host # None THEN "shim" ELSE "resolve"
           q == [NoReq EXCEPT !.pc = l, !.host = host, !.name = d, !.site = site, !.big = big]
<1>1. l \in {"shim", "resolve"} /\ (l = "shim" <=> host # None)
  OBVIOUS
<1>2. Step(r, q) /\ UNCHANGED <<tables, recent, domainCache, cache, history>>
  BY DEF Begin
<1> HIDE DEF l
<1>3. q \in ReqRecs /\ q.pc = l /\ q.i = 1 /\ q.host = host /\ q.name = d
  <2>1. PICK n \in ReqRecs : n = NoReq
    BY Constants
  <2>2. q = [n EXCEPT !.pc = l, !.host = host, !.name = d, !.site = site, !.big = big]
    BY <2>1
  <2>3. q.pc = l /\ q.i = n.i /\ q.host = host /\ q.name = d
    BY <2>2 DEF ReqRecs
  <2>4. q \in ReqRecs
    BY <1>1, <2>2 DEF ReqRecs
  <2> QED
    BY <2>1, <2>3, <2>4, Constants
<1> HIDE DEF q
<1>4. Shape(q) /\ FillOK(q)
  BY <1>1, <1>3 DEF Shape, FillOK
<1> QED
  BY <1>2, <1>3, <1>4, RequestMoves

(* A name that was resolved: the dashboard's answer, or one label further. *)
LEMMA ResolvedRequest ==
    ASSUME NEW r \in Requests, req[r] \in ReqRecs, req[r].i = 1, req[r].host \in Names,
           NEW e, e.dep \in Deps, e.role \in Roles, Resolved(r, e)
    PROVE  \E q \in ReqRecs : /\ Shape(q) /\ FillOK(q) /\ Step(r, q) /\ q.pc # "try"
                             /\ q.answer \in {req[r].answer, "dashboard"}
<1>1. CASE e.role = "dashboard"
  <2>1. Answer(r, "dashboard")
    BY <1>1 DEF Resolved
  <2> QED
    BY <2>1, AnswerRequest DEF Answers
<1>2. CASE e.role # "dashboard"
  <2>1. PICK b \in BOOLEAN : b = (e.role = "site")
    OBVIOUS
  <2>2. PICK l \in {"domain", "resolve"} :
           Step(r, [req[r] EXCEPT !.name = e.dep, !.role = e.role, !.site = b, !.pc = l])
    <3>1. CASE req[r].pc \in {"shim", "shimFill"}
      <4>1. Step(r, [[req[r] EXCEPT !.name = e.dep, !.role = e.role, !.site = b]
                       EXCEPT !.pc = "domain"])
        BY <1>2, <2>1, <3>1 DEF Resolved
      <4> QED
        BY <4>1 DEF ReqRecs
    <3>2. CASE req[r].pc \notin {"shim", "shimFill"}
      <4>1. Step(r, [[req[r] EXCEPT !.name = e.dep, !.role = e.role, !.site = b]
                       EXCEPT !.pc = "resolve"])
        BY <1>2, <2>1, <3>2 DEF Resolved
      <4> QED
        BY <4>1 DEF ReqRecs
    <3> QED
      BY <3>1, <3>2
  <2> DEFINE q == [req[r] EXCEPT !.name = e.dep, !.role = e.role, !.site = b, !.pc = l]
  <2>3. /\ q \in ReqRecs /\ q.pc = l /\ q.name \in Deps /\ q.host = req[r].host
        /\ q.i = req[r].i /\ q.answer = req[r].answer
    BY DEF ReqRecs
  <2> HIDE DEF q
  <2>4. Shape(q) /\ FillOK(q)
    BY <2>3 DEF Shape, FillOK
  <2>5. Step(r, q)
    BY <2>2 DEF q
  <2> QED
    BY <2>3, <2>4, <2>5
<1> QED
  BY <1>1, <1>2

(* The name is known already ...                                           *)
LEMMA DomainHitStep == ASSUME IInv, NEW r \in Requests, DomainHit(r) PROVE IInv'
<1>0. req[r] \in ReqRecs /\ req[r].i = 1 /\ req[r].host \in Names
  BY DEF IInv, ReqInv, DomainHit, Shape
<1>1. PICK e \in Entries : e = domainCache[req[r].host]
  BY <1>0, Constants DEF IInv, CacheInv, EntryOK, DomainHit
<1>2. /\ Resolved(r, e) /\ e.dep \in Deps /\ e.role \in Roles
      /\ UNCHANGED <<tables, recent, domainCache, cache, history>>
  BY <1>1 DEF DomainHit, OnlyReq, Entries
<1> QED
  BY <1>0, <1>2, ResolvedRequest, RequestMoves

(* ... or its row is read: the row is there when it is.                    *)
LEMMA DomainReadStep == ASSUME IInv, NEW r \in Requests, DomainRead(r) PROVE IInv'
<1>0. /\ req[r] \in ReqRecs /\ Shape(req[r]) /\ req[r].pc \in {"shim", "domain"}
      /\ req[r].host \in Names
      /\ UNCHANGED <<tables, recent, domainCache, cache, history>>
  BY DEF IInv, ReqInv, DomainRead, Shape, OnlyReq
<1> DEFINE e == RowOf(req[r].host)
<1>1. CASE e = Unbound
  <2>1. \E a \in {"api", "not_found"} : Answer(r, a)
    BY <1>1 DEF DomainRead
  <2> QED
    BY <1>0, <2>1, AnswerMoves DEF Answers
<1>2. CASE e # Unbound
  <2>1. e = binding[req[r].host] /\ e \in Bindings
    BY <1>0, <1>2 DEF RowOf, IInv, TableInv
  <2>2. PICK l \in {"shimFill", "domainFill"} :
           Step(r, [req[r] EXCEPT !.name = e.dep, !.role = e.role, !.pc = l])
    <3>1. Step(r, [req[r] EXCEPT !.name = e.dep, !.role = e.role,
                         !.pc = IF req[r].pc = "shim" THEN "shimFill" ELSE "domainFill"])
      BY <1>0, <1>2 DEF DomainRead
    <3> QED
      BY <3>1
  <2> DEFINE q == [req[r] EXCEPT !.name = e.dep, !.role = e.role, !.pc = l]
  <2> HIDE DEF e
  <2>3. /\ q \in ReqRecs /\ q.pc = l /\ q.name \in Deps /\ q.role \in Roles
        /\ q.host = req[r].host /\ q.i = req[r].i
    BY <1>0, <2>1 DEF ReqRecs, Bindings
  <2> HIDE DEF q
  <2>4. Shape(q) /\ FillOK(q)
    BY <1>0, <1>2, <2>1, <2>3 DEF Shape, FillOK
  <2>5. Step(r, q)
    BY <2>2 DEF q
  <2> QED
    BY <1>0, <2>3, <2>4, <2>5, RequestMoves
<1> QED
  BY <1>1, <1>2

(* The answer of the row is cached: the name is bound, or excused.         *)
LEMMA DomainFillStep == ASSUME IInv, NEW r \in Requests, DomainFill(r) PROVE IInv'
<1>0. /\ req[r] \in ReqRecs /\ Shape(req[r]) /\ req[r].pc \in {"shimFill", "domainFill"}
      /\ req[r].host \in Names /\ req[r].name \in Deps /\ req[r].role \in Roles
      /\ req[r].i = 1 /\ req \in [Requests -> ReqRecs]
      /\ UNCHANGED <<tables, recent, cache, history>>
  BY DEF IInv, ReqInv, DomainFill, Shape
<1>1. UNCHANGED <<kind, binding, dep, live, up, dropping, recent, cache, straddled, hushed>>
  BY <1>0 DEF tables, history
<1>2. PICK e \in Entries : e = [dep |-> req[r].name, role |-> req[r].role, left |-> TTL,
                                stale |-> 0]
  BY <1>0, TTLPositive DEF Entries
<1>3. domainCache' = [domainCache EXCEPT ![req[r].host] = e]
  BY <1>2 DEF DomainFill
<1>4. EntryOK(e)
  BY <1>2, TTLPositive DEF EntryOK
<1>5. Resolved(r, e) /\ e.dep \in Deps /\ e.role \in Roles
  BY <1>2 DEF DomainFill, Entries
<1>6. PICK q \in ReqRecs : Shape(q) /\ FillOK(q) /\ Step(r, q)
  BY <1>0, <1>5, ResolvedRequest
<1>8. /\ req' \in [Requests -> ReqRecs] /\ req'[r] = q
      /\ \A x \in Requests \ {r} : req'[x] = req[x]
  BY <1>0, <1>6 DEF Step
<1>9. ReqInv'
  <2>2. \A x \in Requests : Shape(req'[x])
    BY <1>6, <1>8 DEF IInv, ReqInv
  <2> QED
    BY <1>8, <2>2 DEF ReqInv, Shape
<1>10. TableInv'
  BY <1>1 DEF IInv, TableInv
<1>11. /\ domainCache'[req[r].host] = e
       /\ \A n \in Names \ {req[r].host} : domainCache'[n] = domainCache[n]
       /\ domainCache' = [n \in Names |-> domainCache'[n]]
  BY <1>0, <1>3 DEF IInv, CacheInv
<1>12. CacheInv'
  <2>1. \A n \in Names : EntryOK(domainCache'[n])
    BY <1>4, <1>11 DEF IInv, CacheInv
  <2>2. \A d \in Deps : ListOK(cache'[d])
    BY <1>1 DEF IInv, CacheInv
  <2>3. cache' = [d \in Deps |-> cache'[d]]
    BY <1>1 DEF IInv, CacheInv
  <2> QED
    BY <1>11, <2>1, <2>2, <2>3 DEF CacheInv, EntryOK, ListOK
<1>13. HoldInv'
  <2>1. FillOK(req[r])
    BY DEF IInv, HoldInv
  <2>2. \A n \in Names : domainCache'[n].left > 0 /\ binding[n] = Unbound => Excused(n)
    BY <1>0, <1>11, <2>1 DEF IInv, HoldInv, FillOK, InvalidationHolds, Excused
  <2>3. \A x \in Requests : FillOK(req'[x])
    BY <1>6, <1>8 DEF IInv, HoldInv
  <2> QED
    BY <1>1, <2>2, <2>3 DEF HoldInv, InvalidationHolds, FillOK, Excused
<1> QED
  BY <1>9, <1>10, <1>12, <1>13 DEF IInv

(* The addresses are known, or read and cached.                            *)
LEMMA GoTryRequest ==
    ASSUME NEW r \in Requests, IInv, req[r].pc \in {"resolve", "fill"},
           NEW addrs \in Seq(Containers), Len(addrs) \in 1 .. 2, GoTry(r, addrs)
    PROVE  \/ Answer(r, "unsupported")
           \/ \E q \in ReqRecs : Shape(q) /\ q.pc = "try" /\ Step(r, q)
<1>0. req[r] \in ReqRecs /\ Shape(req[r])
  BY DEF IInv, ReqInv
<1>1. CASE Answer(r, "unsupported")
  BY <1>1
<1>2. CASE ~Answer(r, "unsupported")
  <2>1. PICK q \in ReqRecs : q = [req[r] EXCEPT !.pc = "try", !.addrs = addrs, !.ha = FALSE]
    BY <1>0 DEF ReqRecs
  <2>2. q.pc = "try" /\ q.addrs = addrs /\ q.name = req[r].name /\ q.i = req[r].i
    BY <1>0, <2>1 DEF ReqRecs
  <2>3. Step(r, q)
    BY <1>2, <2>1 DEF GoTry
  <2>4. req[r].name \in Deps /\ req[r].i = 1 /\ 1 \in 1 .. Len(addrs)
    <3>1. req[r].name \in Deps /\ req[r].i = 1
      BY <1>0 DEF Shape
    <3>2. 1 \in 1 .. Len(addrs)
      BY FirstOfMany
    <3> QED
      BY <3>1, <3>2
  <2>5. Shape(q)
    BY <2>2, <2>4 DEF Shape
  <2> QED
    BY <2>2, <2>3, <2>5
<1> QED
  BY <1>1, <1>2

LEMMA AddressHitStep == ASSUME IInv, NEW r \in Requests, AddressHit(r) PROVE IInv'
<1>0. /\ req[r].pc = "resolve" /\ req[r].name \in Deps
      /\ UNCHANGED <<tables, recent, domainCache, cache, history>>
  BY DEF IInv, ReqInv, AddressHit, Shape, At
<1>1. PICK e \in Lists : e = cache[req[r].name] /\ Len(e.addrs) \in 1 .. 2
  <2>1. ListOK(cache[req[r].name]) /\ cache[req[r].name].left > 0
    BY <1>0 DEF IInv, CacheInv, AddressHit
  <2>2. cache[req[r].name] # NoAddrs
    BY <2>1, Constants
  <2> QED
    BY <2>1, <2>2 DEF ListOK
<1>2. e.addrs \in Seq(Containers) /\ GoTry(r, e.addrs)
  BY <1>1 DEF Lists, AddressHit
<1>3. CASE Answer(r, "unsupported")
  BY <1>0, <1>3, AnswerMoves DEF Answers
<1>4. ASSUME NEW q \in ReqRecs, Shape(q), q.pc = "try", Step(r, q) PROVE IInv'
  <2>1. FillOK(q)
    BY <1>4 DEF FillOK
  <2> QED
    BY <1>0, <1>4, <2>1, RequestMoves
<1> QED
  BY <1>0, <1>1, <1>2, <1>3, <1>4, GoTryRequest

LEMMA ReadDeploymentStep == ASSUME IInv, NEW r \in Requests, ReadDeployment(r) PROVE IInv'
<1>0. /\ req[r] \in ReqRecs /\ Shape(req[r]) /\ req[r].pc = "resolve" /\ req[r].name \in Deps
      /\ UNCHANGED <<tables, recent, domainCache, cache, history>>
      /\ dep[req[r].name].ha \in BOOLEAN
  BY DEF IInv, ReqInv, ReadDeployment, Shape, At, OnlyReq, TableInv, DepRecs
<1>1. CASE Answer(r, "not_found")
  BY <1>0, <1>1, AnswerMoves DEF Answers
<1>2. CASE Step(r, [req[r] EXCEPT !.pc = "replicas", !.ha = dep[req[r].name].ha])
  <2> DEFINE q == [req[r] EXCEPT !.pc = "replicas", !.ha = dep[req[r].name].ha]
  <2>1. q \in ReqRecs /\ q.pc = "replicas" /\ q.name = req[r].name /\ q.i = req[r].i
    BY <1>0 DEF ReqRecs
  <2>2. Step(r, q)
    BY <1>2
  <2> HIDE DEF q
  <2>3. Shape(q) /\ FillOK(q)
    BY <1>0, <2>1 DEF Shape, FillOK
  <2> QED
    BY <1>0, <2>1, <2>2, <2>3, RequestMoves
<1> QED
  BY <1>1, <1>2 DEF ReadDeployment

LEMMA ReadReplicasStep == ASSUME IInv, NEW r \in Requests, ReadReplicas(r) PROVE IInv'
<1>0. /\ req[r] \in ReqRecs /\ Shape(req[r]) /\ req[r].pc = "replicas" /\ req[r].name \in Deps
      /\ UNCHANGED <<tables, recent, domainCache, cache, history>>
      /\ req[r].ha \in BOOLEAN /\ live[req[r].name] \subseteq {0, 1}
  BY DEF IInv, ReqInv, ReadReplicas, Shape, At, OnlyReq, TableInv, ReqRecs
<1> DEFINE d == req[r].name
           addrs == [k \in 1 .. Len(Ordered(d)) |-> Addr(d, req[r].ha, Ordered(d)[k])]
<1>1. CASE Answer(r, "no_replicas")
  BY <1>0, <1>1, AnswerMoves DEF Answers
<1>2. ASSUME NEW as \in Seq(Containers), Len(as) \in 1 .. 2,
             Step(r, [req[r] EXCEPT !.pc = "fill", !.addrs = as])
      PROVE  IInv'
  <2> DEFINE q == [req[r] EXCEPT !.pc = "fill", !.addrs = as]
  <2>1. q \in ReqRecs /\ q.pc = "fill" /\ q.name = req[r].name /\ q.i = req[r].i /\ q.addrs = as
    BY <1>0 DEF ReqRecs
  <2>2. Step(r, q)
    BY <1>2
  <2> HIDE DEF q
  <2>3. Shape(q) /\ FillOK(q)
    BY <1>0, <1>2, <2>1 DEF Shape, FillOK
  <2> QED
    BY <1>0, <2>1, <2>2, <2>3, RequestMoves
<1>3. ASSUME NEW i \in {0, 1}, NEW ha \in BOOLEAN PROVE Addr(d, ha, i) \in Containers
  BY <1>0 DEF Containers
<1>4. CASE live[d] # {} /\ Step(r, [req[r] EXCEPT !.pc = "fill", !.addrs = addrs])
  <2>1. Ordered(d) \in Seq({0, 1}) /\ Len(Ordered(d)) \in 1 .. 2
    BY <1>0, <1>4, OrderedReplicas
  <2>2. \A k \in 1 .. Len(Ordered(d)) : Ordered(d)[k] \in {0, 1}
    BY <2>1
  <2>3. addrs \in Seq(Containers) /\ Len(addrs) = Len(Ordered(d))
    BY <1>0, <1>3, <2>1, <2>2
  <2> QED
    BY <1>2, <1>4, <2>1, <2>3
<1>5. CASE Step(r, [req[r] EXCEPT !.pc = "fill", !.addrs = <<Addr(d, FALSE, 0)>>])
  <2>1. Addr(d, FALSE, 0) \in Containers
    BY <1>3
  <2>2. PICK as : as = <<Addr(d, FALSE, 0)>>
    OBVIOUS
  <2>3. as \in Seq(Containers) /\ Len(as) = 1
    BY <2>1, <2>2, OneAddress
  <2>4. Step(r, [req[r] EXCEPT !.pc = "fill", !.addrs = as])
    BY <1>5, <2>2
  <2>5. Len(as) \in 1 .. 2
    BY <2>3
  <2> QED
    BY <1>2, <2>3, <2>4, <2>5
<1> QED
  BY <1>1, <1>4, <1>5 DEF ReadReplicas

LEMMA FillStep == ASSUME IInv, NEW r \in Requests, Fill(r) PROVE IInv'
<1>0. /\ req[r] \in ReqRecs /\ Shape(req[r]) /\ req[r].pc = "fill" /\ req[r].name \in Deps
      /\ UNCHANGED <<tables, recent, domainCache, history>>
      /\ req[r].addrs \in Seq(Containers) /\ Len(req[r].addrs) \in 1 .. 2
  BY DEF IInv, ReqInv, Fill, Shape, At, ReqRecs
<1>1. PICK e \in Lists : e = [addrs |-> req[r].addrs, left |-> TTL, stale |-> 0]
  BY <1>0, TTLPositive DEF Lists
<1>2. cache' = [cache EXCEPT ![req[r].name] = e] /\ GoTry(r, req[r].addrs)
  BY <1>1 DEF Fill
<1>3. ListOK(e)
  <2>1. e.addrs = req[r].addrs /\ e.left = TTL /\ e.stale = 0
    BY <1>1
  <2> QED
    BY <1>0, <2>1, TTLPositive DEF ListOK
<1>4. cache' = [d \in Deps |-> cache'[d]] /\ \A d \in Deps : ListOK(cache'[d])
  BY <1>0, <1>2, <1>3 DEF IInv, CacheInv
<1>5. \E q \in ReqRecs : Shape(q) /\ FillOK(q) /\ Step(r, q)
  <2>1. CASE Answer(r, "unsupported")
    BY <2>1, AnswerRequest DEF Answers
  <2>2. ASSUME NEW q \in ReqRecs, Shape(q), q.pc = "try", Step(r, q)
        PROVE  Shape(q) /\ FillOK(q) /\ Step(r, q)
    BY <2>2 DEF FillOK
  <2> QED
    BY <1>0, <1>2, <2>1, <2>2, GoTryRequest
<1> QED
  BY <1>0, <1>4, <1>5, RequestFills

(* One attempt after the other.                                            *)
LEMMA TrySteps ==
    ASSUME IInv, NEW r \in Requests, Serve(r) \/ FailOver(r) \/ GiveUp(r)
    PROVE  IInv'
<1>0. /\ req[r] \in ReqRecs /\ Shape(req[r])
      /\ UNCHANGED <<tables, recent, domainCache, cache, history>>
  BY DEF IInv, ReqInv, Serve, FailOver, GiveUp, OnlyReq
<1>1. CASE Serve(r)
  BY <1>0, <1>1, AnswerMoves DEF Serve, Answers
<1>2. CASE GiveUp(r)
  <2>1. \E a \in {"bad_gateway", "empty"} : Answer(r, a)
    BY <1>2 DEF GiveUp
  <2> QED
    BY <1>0, <2>1, AnswerMoves DEF Answers
<1>3. CASE FailOver(r)
  <2>1. /\ req[r].pc = "try" /\ req[r].name \in Deps /\ req[r].i < Len(req[r].addrs)
        /\ Len(req[r].addrs) \in 1 .. 2 /\ req[r].i \in 1 .. Len(req[r].addrs)
    BY <1>0, <1>3 DEF FailOver, At, Shape
  <2>2. req[r].i + 1 \in Nat /\ req[r].i + 1 \in 1 .. Len(req[r].addrs)
    BY <2>1
  <2> DEFINE q == [req[r] EXCEPT !.i = req[r].i + 1]
  <2>3. Step(r, q)
    BY <1>0, <1>3 DEF FailOver
  <2>4. q \in ReqRecs /\ q.pc = "try" /\ q.name = req[r].name /\ q.addrs = req[r].addrs
        /\ q.i = req[r].i + 1
    BY <1>0, <2>1, <2>2 DEF ReqRecs
  <2> HIDE DEF q
  <2>5. Shape(q) /\ FillOK(q)
    BY <2>1, <2>2, <2>4 DEF Shape, FillOK
  <2> QED
    BY <1>0, <2>3, <2>4, <2>5, RequestMoves
<1> QED
  BY <1>1, <1>2, <1>3

----------------------------------------------------------------------------
(* A change of the tables: a row that goes is being dropped, or nobody     *)
(* tells the proxy.                                                        *)
LEMMA TableStep ==
    ASSUME IInv, TableInv', UNCHANGED <<domainCache, cache, straddled, req>>,
           \A n \in Names : binding'[n] = Unbound =>
               \/ n = dropping' \/ n \in hushed'
               \/ binding[n] = Unbound /\ n \notin hushed,
           dropping' = dropping \/ dropping = None
    PROVE  IInv'
<1>1. CacheInv' /\ ReqInv'
  BY DEF IInv, CacheInv, ReqInv, EntryOK, ListOK, Shape
<1>2. \A n \in Names : (binding[n] = Unbound => Excused(n))
                         => (binding'[n] = Unbound => Excused(n)')
  BY Constants DEF Excused
<1>3. InvalidationHolds'
  BY <1>2 DEF IInv, HoldInv, InvalidationHolds, Excused
<1>4. ASSUME NEW r \in Requests PROVE FillOK(req[r])'
  <2>1. FillOK(req[r]) /\ (req[r].pc \in {"shimFill", "domainFill"} => req[r].host \in Names)
    BY DEF IInv, HoldInv, ReqInv, Shape
  <2> QED
    BY <1>2, <2>1 DEF FillOK, Excused
<1> QED
  BY <1>1, <1>3, <1>4 DEF IInv, HoldInv

LEMMA ActivateStep ==
    ASSUME IInv, NEW n \in Names, NEW d \in Deps, NEW role \in Roles, Activate(n, d, role)
    PROVE  IInv'
<1>1. /\ binding' = [binding EXCEPT ![n] = [dep |-> d, role |-> role]]
      /\ kind[d] # "adopted"
      /\ dropping' = dropping \/ (dropping = None /\ dropping' = n)
      /\ hushed' = hushed \ {n}
      /\ UNCHANGED <<kind, dep, live, up, recent, domainCache, cache, straddled, req>>
  BY DEF Activate
<1>2. PICK b \in Bindings : b = [dep |-> d, role |-> role]
  BY DEF Bindings
<1>3. b.dep = d /\ b # Unbound
  BY <1>2, Constants DEF Unbound
<1>4. /\ binding' \in [Names -> Bindings \cup {Unbound}] /\ binding'[n] = b
      /\ \A m \in Names \ {n} : binding'[m] = binding[m]
  BY <1>1, <1>2 DEF IInv, TableInv
<1>5. TableInv'
  BY <1>1, <1>3, <1>4 DEF IInv, TableInv
<1> QED
  BY <1>1, <1>3, <1>4, <1>5, TableStep

LEMMA DeactivateStep == ASSUME IInv, NEW n \in Names, Deactivate(n) PROVE IInv'
<1>1. /\ binding' = [binding EXCEPT ![n] = Unbound] /\ dropping = None /\ dropping' = n
      /\ UNCHANGED <<kind, dep, live, up, recent, domainCache, cache, straddled, hushed, req>>
  BY DEF Deactivate, OnlyTables, history
<1>2. /\ binding' \in [Names -> Bindings \cup {Unbound}] /\ binding'[n] = Unbound
      /\ \A m \in Names \ {n} : binding'[m] = binding[m]
  BY <1>1 DEF IInv, TableInv
<1>3. TableInv'
  BY <1>1, <1>2 DEF IInv, TableInv
<1> QED
  BY <1>1, <1>2, <1>3, TableStep

LEMMA RearmStep == ASSUME IInv, NEW n \in Names, Rearm(n) PROVE IInv'
<1>1. /\ binding' = [binding EXCEPT ![n] = Unbound] /\ hushed' = hushed \cup {n}
      /\ UNCHANGED <<kind, dep, live, up, dropping, recent, domainCache, cache, straddled, req>>
  BY DEF Rearm
<1>2. /\ binding' \in [Names -> Bindings \cup {Unbound}] /\ binding'[n] = Unbound
      /\ \A m \in Names \ {n} : binding'[m] = binding[m]
  BY <1>1 DEF IInv, TableInv
<1>3. TableInv'
  BY <1>1, <1>2 DEF IInv, TableInv
<1> QED
  BY <1>1, <1>2, <1>3, TableStep

(* The entry is dropped; a lookup under way leaves the name marked.        *)
LEMMA InvalidateStep == ASSUME IInv, InvalidateDomain PROVE IInv'
<1>0. dropping \in Names /\ dropping' = None
      /\ UNCHANGED <<kind, binding, dep, live, up, recent, cache, req>>
  BY DEF InvalidateDomain, IInv, TableInv
<1>1. /\ domainCache'[dropping] = NoEntry
      /\ \A n \in Names \ {dropping} : domainCache'[n] = domainCache[n]
      /\ domainCache' = [n \in Names |-> domainCache'[n]]
  BY <1>0 DEF InvalidateDomain, IInv, CacheInv
<1>2. /\ straddled' \subseteq Names
      /\ \A n \in Names \ {dropping} : n \in straddled' <=> n \in straddled
      /\ dropping \in straddled' <=> Reading(dropping)
      /\ hushed' = hushed \ {dropping} /\ hushed' \subseteq Names
  BY <1>0 DEF InvalidateDomain, IInv, TableInv
<1>3. TableInv'
  BY <1>0, <1>2 DEF IInv, TableInv
<1>4. CacheInv' /\ ReqInv'
  <2>1. \A n \in Names : EntryOK(domainCache'[n])
    BY <1>1 DEF IInv, CacheInv, EntryOK
  <2>2. CacheInv'
    BY <1>0, <1>1, <2>1 DEF IInv, CacheInv, EntryOK, ListOK
  <2>3. ReqInv'
    BY <1>0 DEF IInv, ReqInv, Shape
  <2> QED
    BY <2>2, <2>3
<1>5. InvalidationHolds'
  <2>1. ASSUME NEW n \in Names, domainCache'[n].left > 0, binding[n] = Unbound
        PROVE  n \in straddled' \/ n \in hushed'
    <3>1. n # dropping
      BY <1>1, <2>1, Constants
    <3> QED
      BY <1>1, <1>2, <2>1, <3>1 DEF IInv, HoldInv, InvalidationHolds
  <2> QED
    BY <1>0, <2>1 DEF InvalidationHolds
<1>6. ASSUME NEW r \in Requests PROVE FillOK(req[r])'
  <2>1. FillOK(req[r]) /\ (req[r].pc \in {"shimFill", "domainFill"} => req[r].host \in Names)
    BY DEF IInv, HoldInv, ReqInv, Shape
  <2>2. req[r].pc \in {"shimFill", "domainFill"} /\ req[r].host = dropping => Reading(dropping)
    BY DEF Reading
  <2> QED
    BY <1>0, <1>2, <2>1, <2>2 DEF FillOK, Excused
<1> QED
  BY <1>3, <1>4, <1>5, <1>6 DEF IInv, HoldInv

(* The other changes do not touch the names.                               *)
LEMMA OtherChanges ==
    ASSUME IInv,
           \/ \E d \in Deps : \/ \E s \in {"running", "stopped", "deleted"} : SetStatus(d, s)
                              \/ SwapToHA(d) \/ Register(d)
                              \/ \E i \in {0, 1} : MarkReplica(d, i) \/ Probe(d, i)
           \/ \E a \in Containers : Flip(a)
    PROVE  IInv'
<1>0. UNCHANGED <<kind, binding, dropping, domainCache, cache, straddled, hushed, req>>
  BY DEF SetStatus, SwapToHA, Register, MarkReplica, Probe, Flip, OnlyTables, Containers1,
         tables, history
<1>t. TableInv
  BY DEF IInv
<1>1. dep' \in [Deps -> DepRecs]
  <2>1. ASSUME NEW d \in Deps, NEW s \in {"running", "stopped", "deleted"}, SetStatus(d, s)
        PROVE  dep' \in [Deps -> DepRecs]
    <3>1. dep[d] \in DepRecs /\ dep' = [dep EXCEPT ![d] = [dep[d] EXCEPT !.status = s]]
      BY <1>t, <2>1 DEF SetStatus, TableInv
    <3>2. [dep[d] EXCEPT !.status = s] \in DepRecs
      BY <3>1 DEF DepRecs
    <3> QED
      BY <1>t, <3>1, <3>2 DEF TableInv
  <2>2. ASSUME NEW d \in Deps, SwapToHA(d) PROVE dep' \in [Deps -> DepRecs]
    <3>1. dep[d] \in DepRecs /\ dep' = [dep EXCEPT ![d] = [dep[d] EXCEPT !.ha = TRUE]]
      BY <1>t, <2>2 DEF SwapToHA, TableInv
    <3>2. [dep[d] EXCEPT !.ha = TRUE] \in DepRecs
      BY <3>1 DEF DepRecs
    <3> QED
      BY <1>t, <3>1, <3>2 DEF TableInv
  <2>3. ASSUME NEW d \in Deps, Register(d) PROVE dep' \in [Deps -> DepRecs]
    <3>1. dep[d] \in DepRecs /\ dep' = [dep EXCEPT ![d] = [dep[d] EXCEPT !.tailnet = TRUE]]
      BY <1>t, <2>3 DEF Register, TableInv
    <3>2. [dep[d] EXCEPT !.tailnet = TRUE] \in DepRecs
      BY <3>1 DEF DepRecs
    <3> QED
      BY <1>t, <3>1, <3>2 DEF TableInv
  <2>4. ASSUME UNCHANGED dep PROVE dep' \in [Deps -> DepRecs]
    BY <1>t, <2>4 DEF TableInv
  <2> QED
    BY <2>1, <2>2, <2>3, <2>4 DEF MarkReplica, Probe, Flip, tables
<1>2. live' \in [Deps -> SUBSET {0, 1}]
  <2>1. ASSUME NEW d \in Deps, NEW s \in {"running", "stopped", "deleted"}, SetStatus(d, s)
        PROVE  live' \in [Deps -> SUBSET {0, 1}]
    BY <1>t, <2>1 DEF SetStatus, TableInv
  <2>2. ASSUME NEW d \in Deps, SwapToHA(d) PROVE live' \in [Deps -> SUBSET {0, 1}]
    BY <1>t, <2>2 DEF SwapToHA, TableInv
  <2>3. ASSUME NEW d \in Deps, NEW i \in {0, 1}, MarkReplica(d, i)
        PROVE  live' \in [Deps -> SUBSET {0, 1}]
    BY <1>t, <2>3 DEF MarkReplica, TableInv
  <2>4. ASSUME UNCHANGED live PROVE live' \in [Deps -> SUBSET {0, 1}]
    BY <1>t, <2>4 DEF TableInv
  <2> QED
    BY <2>1, <2>2, <2>3, <2>4 DEF Register, Probe, Flip, tables
<1>3. recent' \in [Deps -> 0 .. 2]
  <2>1. ASSUME NEW d \in Deps, NEW i \in {0, 1}, Probe(d, i) PROVE recent' \in [Deps -> 0 .. 2]
    BY <1>t, <2>1 DEF Probe, TableInv
  <2>2. ASSUME UNCHANGED recent PROVE recent' \in [Deps -> 0 .. 2]
    BY <1>t, <2>2 DEF TableInv
  <2> QED
    BY <2>1, <2>2 DEF SetStatus, SwapToHA, Register, MarkReplica, Flip, OnlyTables, Containers1
<1>4. up' \subseteq Containers
  <2>1. ASSUME NEW d \in Deps, NEW i \in {0, 1} PROVE Addr(d, TRUE, i) \in Containers
    BY AddrIsContainer
  <2>2. ASSUME NEW d \in Deps, NEW s \in {"running", "stopped", "deleted"}, SetStatus(d, s)
        PROVE  up' \subseteq Containers
    BY <1>t, <2>2 DEF SetStatus, TableInv
  <2>3. ASSUME NEW d \in Deps, SwapToHA(d) PROVE up' \subseteq Containers
    <3>1. up' = up \cup {Addr(d, TRUE, 0), Addr(d, TRUE, 1)}
      BY <2>3 DEF SwapToHA
    <3>2. Addr(d, TRUE, 0) \in Containers /\ Addr(d, TRUE, 1) \in Containers
      BY <2>1
    <3> QED
      BY <1>t, <3>1, <3>2 DEF TableInv
  <2>4. ASSUME NEW c \in Containers, Flip(c) PROVE up' \subseteq Containers
    BY <1>t, <2>4 DEF Flip, TableInv
  <2>5. ASSUME UNCHANGED up PROVE up' \subseteq Containers
    BY <1>t, <2>5 DEF TableInv
  <2> QED
    BY <2>2, <2>3, <2>4, <2>5 DEF Register, MarkReplica, Probe, tables
<1>5. TableInv'
  BY <1>0, <1>1, <1>2, <1>3, <1>4, <1>t DEF TableInv
<1> QED
  BY <1>0, <1>5, TableStep

(* Time passes: what is left shrinks by what the age may grow.             *)
LEMMA TimeStep == ASSUME IInv, TimePasses PROVE IInv'
<1>0. UNCHANGED <<kind, binding, dep, live, up, dropping, recent, straddled, hushed, req>>
  BY DEF TimePasses, tables, history
<1>1. ASSUME NEW n \in Names
      PROVE  EntryOK(domainCache'[n]) /\ (domainCache'[n].left > 0 => domainCache[n].left > 0)
  <2> DEFINE e == domainCache[n]
             c == (RowOf(n).dep = e.dep)
  <2>1. EntryOK(e) /\ domainCache'[n] = IF e.left = 1 THEN NoEntry ELSE Expire(e, c)
    BY DEF TimePasses, IInv, CacheInv
  <2> HIDE DEF c, e
  <2>2. CASE e = NoEntry
    BY <2>1, <2>2, Constants DEF Expire, EntryOK, e
  <2>3. CASE e # NoEntry /\ e.left = 1
    BY <2>1, <2>3, Constants DEF EntryOK, e
  <2>4. CASE e # NoEntry /\ e.left # 1
    <3>1. /\ e \in Entries /\ e.left \in Nat /\ e.left > 1 /\ e.left <= TTL /\ e.stale \in Nat
          /\ e.stale + e.left <= TTL
      BY <2>1, <2>4, TTLPositive DEF EntryOK, Entries
    <3>2. PICK s \in Nat : s \in {0, e.stale + 1}
                           /\ domainCache'[n] = [e EXCEPT !.left = e.left - 1, !.stale = s]
      <4>1. domainCache'[n] = Expire(e, c) /\ e.left # 0
        BY <2>1, <2>4, <3>1
      <4>2. CASE c
        <5>1. domainCache'[n] = [e EXCEPT !.left = e.left - 1, !.stale = 0]
          BY <4>1, <4>2 DEF Expire
        <5> QED
          BY <5>1
      <4>3. CASE ~c
        <5>1. domainCache'[n] = [e EXCEPT !.left = e.left - 1, !.stale = e.stale + 1]
          BY <4>1, <4>3 DEF Expire
        <5>2. e.stale + 1 \in Nat
          BY <3>1
        <5> QED
          BY <5>1, <5>2
      <4> QED
        BY <4>2, <4>3
    <3>3. e.left - 1 \in 1 .. TTL /\ s + (e.left - 1) <= TTL
      BY <3>1, <3>2, TTLPositive
    <3>4. [e EXCEPT !.left = e.left - 1, !.stale = s] \in Entries
          /\ [e EXCEPT !.left = e.left - 1, !.stale = s].left = e.left - 1
          /\ [e EXCEPT !.left = e.left - 1, !.stale = s].stale = s
      BY <3>1, <3>3 DEF Entries
    <3> QED
      BY <3>1, <3>2, <3>3, <3>4 DEF EntryOK, e
  <2> QED
    BY <2>2, <2>3, <2>4
<1>2. ASSUME NEW d \in Deps PROVE ListOK(cache'[d])
  <2> DEFINE e == cache[d]
             c == Current(d, e.addrs)
  <2>1. ListOK(e) /\ cache'[d] = IF e.left = 1 THEN NoAddrs ELSE Expire(e, c)
    BY DEF TimePasses, IInv, CacheInv
  <2> HIDE DEF c, e
  <2>2. CASE e = NoAddrs
    BY <2>1, <2>2, Constants DEF Expire, ListOK
  <2>3. CASE e # NoAddrs /\ e.left = 1
    BY <2>1, <2>3 DEF ListOK
  <2>4. CASE e # NoAddrs /\ e.left # 1
    <3>1. /\ e \in Lists /\ e.left \in Nat /\ e.left > 1 /\ e.left <= TTL /\ e.stale \in Nat
          /\ e.stale + e.left <= TTL /\ Len(e.addrs) \in 1 .. 2
      BY <2>1, <2>4, TTLPositive DEF ListOK, Lists
    <3>2. PICK s \in Nat : s \in {0, e.stale + 1}
                           /\ cache'[d] = [e EXCEPT !.left = e.left - 1, !.stale = s]
      <4>1. cache'[d] = Expire(e, c) /\ e.left # 0
        BY <2>1, <2>4, <3>1
      <4>2. CASE c
        <5>1. cache'[d] = [e EXCEPT !.left = e.left - 1, !.stale = 0]
          BY <4>1, <4>2 DEF Expire
        <5> QED
          BY <5>1
      <4>3. CASE ~c
        <5>1. cache'[d] = [e EXCEPT !.left = e.left - 1, !.stale = e.stale + 1]
          BY <4>1, <4>3 DEF Expire
        <5>2. e.stale + 1 \in Nat
          BY <3>1
        <5> QED
          BY <5>1, <5>2
      <4> QED
        BY <4>2, <4>3
    <3>3. e.left - 1 \in 1 .. TTL /\ s + (e.left - 1) <= TTL
      BY <3>1, <3>2, TTLPositive
    <3>4. [e EXCEPT !.left = e.left - 1, !.stale = s] \in Lists
          /\ [e EXCEPT !.left = e.left - 1, !.stale = s].left = e.left - 1
          /\ [e EXCEPT !.left = e.left - 1, !.stale = s].stale = s
          /\ [e EXCEPT !.left = e.left - 1, !.stale = s].addrs = e.addrs
      BY <3>1, <3>3 DEF Lists
    <3> QED
      BY <3>1, <3>2, <3>3, <3>4 DEF ListOK
  <2> QED
    BY <2>2, <2>3, <2>4
<1>3. /\ domainCache' = [n \in Names |-> domainCache'[n]]
      /\ cache' = [d \in Deps |-> cache'[d]]
  BY DEF TimePasses
<1>4. CacheInv'
  BY <1>1, <1>2, <1>3 DEF CacheInv, EntryOK, ListOK
<1>5. TableInv' /\ ReqInv'
  BY <1>0 DEF IInv, TableInv, ReqInv, Shape
<1>6. HoldInv'
  BY <1>0, <1>1 DEF IInv, HoldInv, InvalidationHolds, FillOK, Excused
<1> QED
  BY <1>4, <1>5, <1>6 DEF IInv

----------------------------------------------------------------------------
LEMMA InitIInv == ASSUME Init PROVE IInv
<1>1. TableInv
  <2>1. kind \in [Deps -> {"local", "remote", "adopted"}]
    BY ProxyAssumption DEF Init
  <2>2. ASSUME NEW d \in Deps PROVE Addr(d, FALSE, 0) \in Containers
    BY AddrIsContainer
  <2>3. up \subseteq Containers
    BY <2>2 DEF Init
  <2>4. [status |-> "running", ha |-> FALSE, tailnet |-> FALSE] \in DepRecs
    BY DEF DepRecs
  <2>5. dep \in [Deps -> DepRecs]
    BY <2>4 DEF Init
  <2>6. live \in [Deps -> SUBSET {0, 1}] /\ recent \in [Deps -> 0 .. 2]
    BY DEF Init
  <2> QED
    BY <2>1, <2>3, <2>5, <2>6 DEF Init, TableInv
<1>2. CacheInv
  BY DEF Init, CacheInv, EntryOK, ListOK
<1>3. ReqInv
  <2>1. Shape(NoReq)
    BY Constants DEF Shape
  <2> QED
    BY <2>1, Constants DEF Init, ReqInv
<1>4. HoldInv
  BY Constants DEF Init, HoldInv, InvalidationHolds, FillOK
<1> QED
  BY <1>1, <1>2, <1>3, <1>4 DEF IInv

LEMMA NextIInv == ASSUME IInv, [Next]_vars PROVE IInv'
<1>1. ASSUME NEW r \in Requests, Handle(r) PROVE IInv'
  BY <1>1, DomainHitStep, DomainReadStep, DomainFillStep, AddressHitStep,
     ReadDeploymentStep, ReadReplicasStep, FillStep, TrySteps DEF Handle
<1>2. ASSUME NEW r \in Requests, NEW n \in Names, NEW big \in BOOLEAN,
             Begin(r, n, None, FALSE, big)
      PROVE  IInv'
  BY <1>2, BeginStep, Constants
<1>3. ASSUME NEW r \in Requests, NEW d \in Deps, NEW site \in BOOLEAN, NEW big \in BOOLEAN,
             Begin(r, None, d, site, big)
      PROVE  IInv'
  BY <1>3, BeginStep
<1>4. CASE World
  BY <1>4, DeactivateStep, RearmStep, ActivateStep, InvalidateStep, OtherChanges, TimeStep DEF World
<1>5. CASE UNCHANGED vars
  <2>1. UNCHANGED <<kind, binding, dep, live, up, dropping, recent, domainCache, cache,
                    straddled, hushed, req>>
    BY <1>5 DEF vars, tables, history
  <2>2. TableInv'
    BY <2>1 DEF IInv, TableInv
  <2> QED
    BY <2>1, <2>2, TableStep
<1> QED
  BY <1>1, <1>2, <1>3, <1>4, <1>5 DEF Next

(* The inductive invariant holds of every behaviour.                       *)
THEOREM IInvHolds == Spec => []IInv
  BY InitIInv, NextIInv, PTL DEF Spec

----------------------------------------------------------------------------
(* The replicas that were up all along are among those still to be tried.  *)
SteadyOK(q, s) ==
    /\ q.pc # "done" => q.answer # "empty"
    /\ q.pc = "try" => s \subseteq up
                       /\ \A a \in s : \E k \in q.i .. Len(q.addrs) : q.addrs[k] = a
    /\ q.answer = "empty" => s = {}

SteadyInv ==
    /\ steady \in [Requests -> SUBSET Containers]
    /\ \A r \in Requests : SteadyOK(req[r], steady[r])

LEMMA SteadyMoves ==
    ASSUME IInv, SteadyInv, NEW r \in Requests, NEW q, Step(r, q), up' = up,
           NEW s \in SUBSET Containers, steady' = [steady EXCEPT ![r] = s], SteadyOK(q, s)
    PROVE  SteadyInv'
<1>1. /\ req'[r] = q /\ \A x \in Requests \ {r} : req'[x] = req[x]
      /\ steady'[r] = s /\ \A x \in Requests \ {r} : steady'[x] = steady[x]
      /\ steady' \in [Requests -> SUBSET Containers]
  BY DEF IInv, ReqInv, SteadyInv, Step
<1>2. \A x \in Requests : SteadyOK(req'[x], steady'[x])
  BY <1>1 DEF SteadyInv
<1> QED
  BY <1>1, <1>2 DEF SteadyInv, SteadyOK

(* A request that stays before its first attempt, and one that ends.       *)
LEMMA SteadyKept ==
    ASSUME IInv, SteadyInv, NEW r \in Requests, NEW q, Step(r, q),
           UNCHANGED <<up, steady>>, SteadyOK(q, steady[r])
    PROVE  SteadyInv'
<1>1. steady' = [steady EXCEPT ![r] = steady[r]] /\ steady[r] \in SUBSET Containers
  BY DEF SteadyInv
<1> QED
  BY <1>1, SteadyMoves

LEMMA SteadyAnswer ==
    ASSUME IInv, SteadyInv, NEW r \in Requests, NEW a \in Answers, Answer(r, a),
           UNCHANGED <<up, steady>>, a = "empty" => steady[r] = {}
    PROVE  SteadyInv'
<1>1. PICK q \in ReqRecs : q = [NoReq EXCEPT !.pc = "done", !.answer = a]
  BY Constants DEF ReqRecs
<1>2. q.pc = "done" /\ q.answer = a
  BY <1>1, Constants DEF ReqRecs
<1>3. Step(r, q)
  BY <1>1 DEF Answer
<1>4. SteadyOK(q, steady[r])
  BY <1>2 DEF SteadyOK
<1> QED
  BY <1>3, <1>4, SteadyKept

LEMMA SteadyOn ==
    ASSUME IInv, SteadyInv, NEW r \in Requests, NEW q, Step(r, q), UNCHANGED <<up, steady>>,
           q.pc \notin {"try", "done"}, q.answer = req[r].answer, req[r].pc # "done"
    PROVE  SteadyInv'
<1>1. SteadyOK(q, steady[r])
  BY DEF SteadyInv, SteadyOK
<1> QED
  BY <1>1, SteadyKept

LEMMA SteadyResolved ==
    ASSUME IInv, SteadyInv, NEW r \in Requests, NEW e, e.dep \in Deps, e.role \in Roles,
           Resolved(r, e), req[r].pc \in {"shim", "domain", "shimFill", "domainFill"},
           UNCHANGED <<up, steady>>
    PROVE  SteadyInv'
<1>1. req[r] \in ReqRecs /\ req[r].i = 1 /\ req[r].host \in Names
  BY DEF IInv, ReqInv, Shape
<1>2. PICK q \in ReqRecs : /\ Step(r, q) /\ q.pc # "try"
                           /\ q.answer \in {req[r].answer, "dashboard"}
  BY <1>1, ResolvedRequest
<1>3. SteadyOK(q, steady[r])
  BY <1>2 DEF SteadyInv, SteadyOK
<1> QED
  BY <1>2, <1>3, SteadyKept

(* The first attempt: every replica of the list that is up is ahead.       *)
LEMMA SteadyTry ==
    ASSUME IInv, SteadyInv, NEW r \in Requests, req[r].pc \in {"resolve", "fill"},
           NEW addrs \in Seq(Containers), GoTry(r, addrs), up' = up
    PROVE  SteadyInv'
<1>0. req[r] \in ReqRecs /\ req[r].i = 1 /\ SteadyOK(req[r], steady[r])
  BY DEF IInv, ReqInv, Shape, SteadyInv
<1>1. CASE Answer(r, "unsupported") /\ UNCHANGED steady
  BY <1>1, SteadyAnswer DEF Answers
<1>2. CASE ~(Answer(r, "unsupported") /\ UNCHANGED steady)
  <2>1. PICK q \in ReqRecs : q = [req[r] EXCEPT !.pc = "try", !.addrs = addrs, !.ha = FALSE]
    BY <1>0 DEF ReqRecs
  <2>2. q.pc = "try" /\ q.addrs = addrs /\ q.i = 1 /\ q.answer = req[r].answer
    BY <1>0, <2>1 DEF ReqRecs
  <2> DEFINE s == {addrs[k] : k \in 1 .. Len(addrs)} \cap up
  <2>3. Step(r, q) /\ steady' = [steady EXCEPT ![r] = s]
    BY <1>2, <2>1 DEF GoTry
  <2>4. s \in SUBSET Containers
    BY DEF IInv, TableInv
  <2>5. \A a \in s : \E k \in 1 .. Len(addrs) : addrs[k] = a
    OBVIOUS
  <2>6. s \subseteq up
    OBVIOUS
  <2> HIDE DEF s
  <2>7. SteadyOK(q, s)
    BY <1>0, <2>2, <2>5, <2>6 DEF SteadyOK
  <2> QED
    BY <2>3, <2>4, <2>7, SteadyMoves
<1> QED
  BY <1>1, <1>2

(* The next attempt, and the last: the one that failed was not up.         *)
LEMMA SteadyAttempts ==
    ASSUME IInv, SteadyInv, NEW r \in Requests, Serve(r) \/ FailOver(r) \/ GiveUp(r)
    PROVE  SteadyInv'
<1>0. /\ req[r] \in ReqRecs /\ req[r].pc = "try" /\ req[r].i \in 1 .. Len(req[r].addrs)
      /\ Len(req[r].addrs) \in Nat /\ req[r].i \in Nat
      /\ SteadyOK(req[r], steady[r]) /\ UNCHANGED <<up, steady>>
  BY DEF IInv, ReqInv, Shape, SteadyInv, Serve, FailOver, GiveUp, At, OnlyReq, tables, ReqRecs
<1>1. CASE Serve(r)
  BY <1>0, <1>1, SteadyAnswer DEF Serve, Answers
<1>2. CASE FailOver(r)
  <2>0. PICK j \in Nat : j = req[r].i + 1
    BY <1>0
  <2>1. PICK q \in ReqRecs : q = [req[r] EXCEPT !.i = j]
    BY <1>0 DEF ReqRecs
  <2>2. q.pc = "try" /\ q.addrs = req[r].addrs /\ q.i = j /\ q.answer = req[r].answer
    BY <1>0, <2>1 DEF ReqRecs
  <2>3. Step(r, q) /\ req[r].addrs[req[r].i] \notin up
    BY <1>0, <1>2, <2>0, <2>1 DEF FailOver, Reaches
  <2>4. ASSUME NEW a \in steady[r]
        PROVE  \E k \in j .. Len(req[r].addrs) : req[r].addrs[k] = a
    <3>1. PICK k \in req[r].i .. Len(req[r].addrs) : req[r].addrs[k] = a /\ a \in up
      BY <1>0 DEF SteadyOK
    <3>2. k # req[r].i
      BY <2>3, <3>1
    <3>3. k \in j .. Len(req[r].addrs)
      BY <1>0, <2>0, <3>2
    <3> QED
      BY <3>1, <3>3
  <2>5. SteadyOK(q, steady[r])
    BY <1>0, <2>2, <2>4 DEF SteadyOK
  <2> QED
    BY <1>0, <2>3, <2>5, SteadyKept
<1>3. CASE GiveUp(r) /\ ~Single(r)
  <2>1. req[r].i = Len(req[r].addrs) /\ req[r].addrs[req[r].i] \notin up /\ Answer(r, "empty")
    BY <1>3 DEF GiveUp, Reaches
  <2>2. ASSUME NEW a \in steady[r] PROVE FALSE
    <3>1. PICK k \in req[r].i .. Len(req[r].addrs) : req[r].addrs[k] = a /\ a \in up
      BY <1>0 DEF SteadyOK
    <3>2. k = req[r].i
      BY <1>0, <2>1
    <3> QED
      BY <2>1, <3>1, <3>2
  <2>3. steady[r] = {}
    BY <2>2
  <2> QED
    BY <1>0, <2>1, <2>3, SteadyAnswer DEF Answers
<1>4. CASE GiveUp(r) /\ Single(r)
  BY <1>0, <1>4, SteadyAnswer DEF GiveUp, Answers
<1> QED
  BY <1>1, <1>2, <1>3, <1>4

LEMMA SteadyHandle == ASSUME IInv, SteadyInv, NEW r \in Requests, Handle(r) PROVE SteadyInv'
<1>0. req[r] \in ReqRecs /\ Shape(req[r])
  BY DEF IInv, ReqInv
<1>1. CASE DomainHit(r)
  <2>1. req[r].pc \in {"shim", "domain"} /\ req[r].host \in Names /\ UNCHANGED <<up, steady>>
    BY <1>0, <1>1 DEF DomainHit, OnlyReq, tables, Shape
  <2>2. PICK e \in Entries : e = domainCache[req[r].host]
    BY <1>1, <2>1, Constants DEF IInv, CacheInv, EntryOK, DomainHit
  <2>3. Resolved(r, e) /\ e.dep \in Deps /\ e.role \in Roles
    BY <1>1, <2>2 DEF DomainHit, Entries
  <2> QED
    BY <2>1, <2>3, SteadyResolved
<1>2. CASE DomainRead(r)
  <2>1. req[r].pc \in {"shim", "domain"} /\ UNCHANGED <<up, steady>>
    BY <1>2 DEF DomainRead, OnlyReq, tables
  <2>2. PICK e : e = RowOf(req[r].host)
    OBVIOUS
  <2>3. CASE e = Unbound
    <3>1. \E a \in {"api", "not_found"} : Answer(r, a)
      BY <1>2, <2>2, <2>3 DEF DomainRead
    <3> QED
      BY <2>1, <3>1, SteadyAnswer DEF Answers
  <2>4. CASE e # Unbound
    <3>1. PICK l \in {"shimFill", "domainFill"} :
            Step(r, [req[r] EXCEPT !.name = e.dep, !.role = e.role, !.pc = l])
      <4>1. Step(r, [req[r] EXCEPT !.name = e.dep, !.role = e.role,
                       !.pc = IF req[r].pc = "shim" THEN "shimFill" ELSE "domainFill"])
        BY <1>0, <1>2, <2>2, <2>4 DEF DomainRead
      <4> QED
        BY <4>1
    <3> DEFINE q == [req[r] EXCEPT !.name = e.dep, !.role = e.role, !.pc = l]
    <3>2. q.pc = l /\ q.answer = req[r].answer
      BY <1>0 DEF ReqRecs
    <3>3. Step(r, q)
      BY <3>1
    <3> HIDE DEF q
    <3> QED
      BY <2>1, <3>2, <3>3, SteadyOn
  <2> QED
    BY <2>3, <2>4
<1>3. CASE DomainFill(r)
  <2>1. /\ req[r].pc \in {"shimFill", "domainFill"} /\ UNCHANGED <<up, steady>>
        /\ req[r].name \in Deps /\ req[r].role \in Roles
    BY <1>0, <1>3 DEF DomainFill, tables, Shape
  <2>2. \E e : Resolved(r, e) /\ e.dep \in Deps /\ e.role \in Roles
    BY <1>3, <2>1 DEF DomainFill
  <2> QED
    BY <2>1, <2>2, SteadyResolved
<1>4. CASE AddressHit(r)
  <2>1. req[r].pc = "resolve" /\ req[r].name \in Deps /\ up' = up
    BY <1>0, <1>4 DEF AddressHit, At, Shape, tables
  <2>2. ListOK(cache[req[r].name]) /\ cache[req[r].name].left > 0
    BY <1>4, <2>1 DEF IInv, CacheInv, AddressHit
  <2>3. cache[req[r].name].addrs \in Seq(Containers)
    BY <2>2, Constants DEF ListOK, Lists
  <2> QED
    BY <1>4, <2>1, <2>3, SteadyTry DEF AddressHit
<1>5. CASE ReadDeployment(r)
  <2>1. req[r].pc = "resolve" /\ UNCHANGED <<up, steady>>
    BY <1>5 DEF ReadDeployment, At, OnlyReq, tables
  <2>2. CASE Answer(r, "not_found")
    BY <2>1, <2>2, SteadyAnswer DEF Answers
  <2>3. CASE Step(r, [req[r] EXCEPT !.pc = "replicas", !.ha = dep[req[r].name].ha])
    <3> DEFINE q == [req[r] EXCEPT !.pc = "replicas", !.ha = dep[req[r].name].ha]
    <3>1. q.pc = "replicas" /\ q.answer = req[r].answer
      BY <1>0 DEF ReqRecs
    <3>2. Step(r, q)
      BY <2>3
    <3> HIDE DEF q
    <3> QED
      BY <2>1, <3>1, <3>2, SteadyOn
  <2> QED
    BY <1>5, <2>2, <2>3 DEF ReadDeployment
<1>6. CASE ReadReplicas(r)
  <2>1. req[r].pc = "replicas" /\ UNCHANGED <<up, steady>>
    BY <1>6 DEF ReadReplicas, At, OnlyReq, tables
  <2>2. CASE Answer(r, "no_replicas")
    BY <2>1, <2>2, SteadyAnswer DEF Answers
  <2>3. ASSUME NEW as, Step(r, [req[r] EXCEPT !.pc = "fill", !.addrs = as])
        PROVE  SteadyInv'
    <3> DEFINE q == [req[r] EXCEPT !.pc = "fill", !.addrs = as]
    <3>1. q.pc = "fill" /\ q.answer = req[r].answer
      BY <1>0 DEF ReqRecs
    <3>2. Step(r, q)
      BY <2>3
    <3> HIDE DEF q
    <3> QED
      BY <2>1, <3>1, <3>2, SteadyOn
  <2> QED
    BY <1>6, <2>2, <2>3 DEF ReadReplicas
<1>7. CASE Fill(r)
  <2>1. req[r].pc = "fill" /\ up' = up /\ req[r].addrs \in Seq(Containers)
    BY <1>0, <1>7 DEF Fill, At, tables, ReqRecs
  <2> QED
    BY <1>7, <2>1, SteadyTry DEF Fill
<1>8. CASE Serve(r) \/ FailOver(r) \/ GiveUp(r)
  BY <1>8, SteadyAttempts
<1> QED
  BY <1>1, <1>2, <1>3, <1>4, <1>5, <1>6, <1>7, <1>8 DEF Handle

LEMMA SteadyBegin ==
    ASSUME IInv, SteadyInv, NEW r \in Requests, NEW host, NEW d, NEW site, NEW big,
           Begin(r, host, d, site, big)
    PROVE  SteadyInv'
<1> DEFINE l == IF host # None THEN "shim" ELSE "resolve"
           q == [NoReq EXCEPT !.pc = l, !.host = host, !.name = d, !.site = site, !.big = big]
<1>1. l \in {"shim", "resolve"}
  OBVIOUS
<1>2. Step(r, q) /\ steady' = [steady EXCEPT ![r] = {}] /\ up' = up
  BY DEF Begin, tables
<1> HIDE DEF l
<1>3. q.pc = l /\ q.answer = None
  BY DEF NoReq
<1> HIDE DEF q
<1>4. SteadyOK(q, {})
  BY <1>1, <1>3 DEF SteadyOK, None
<1> QED
  BY <1>2, <1>4, SteadyMoves

(* The world: what stays up stays steady.                                  *)
LEMMA SteadyWorld == ASSUME IInv, SteadyInv, World \/ UNCHANGED vars PROVE SteadyInv'
<1>1. CASE UNCHANGED <<req, steady, up>>
  BY <1>1 DEF SteadyInv, SteadyOK
<1>2. CASE req' = req /\ steady' = [r \in Requests |-> steady[r] \cap up']
  <2>1. steady' \in [Requests -> SUBSET Containers]
    BY <1>2 DEF SteadyInv
  <2>2. ASSUME NEW r \in Requests PROVE SteadyOK(req[r], steady[r])'
    <3>1. SteadyOK(req[r], steady[r]) /\ req'[r] = req[r] /\ steady'[r] = steady[r] \cap up'
      BY <1>2 DEF SteadyInv
    <3> QED
      BY <3>1 DEF SteadyOK
  <2> QED
    BY <2>1, <2>2 DEF SteadyInv
<1>3. CASE \/ \E n \in Names : \/ Deactivate(n) \/ Rearm(n)
                               \/ \E d \in Deps, role \in Roles : Activate(n, d, role)
           \/ InvalidateDomain \/ TimePasses \/ UNCHANGED vars
           \/ \E d \in Deps : Register(d) \/ \E i \in {0, 1} : MarkReplica(d, i) \/ Probe(d, i)
  <2>1. UNCHANGED <<req, steady, up>>
    BY <1>3 DEF Deactivate, Rearm, Activate, InvalidateDomain, TimePasses, vars, tables,
                Register, MarkReplica, Probe, OnlyTables
  <2> QED
    BY <1>1, <2>1
<1>4. CASE \/ \E d \in Deps : \/ SwapToHA(d)
                              \/ \E s \in {"running", "stopped", "deleted"} : SetStatus(d, s)
           \/ \E a \in Containers : Flip(a)
  <2>1. req' = req /\ steady' = [r \in Requests |-> steady[r] \cap up']
    BY <1>4 DEF SwapToHA, SetStatus, Flip, Containers1
  <2> QED
    BY <1>2, <2>1
<1> QED
  BY <1>3, <1>4 DEF World

LEMMA NextSteady == ASSUME IInv, SteadyInv, [Next]_vars PROVE SteadyInv'
  BY SteadyHandle, SteadyBegin, SteadyWorld DEF Next

THEOREM SteadyHolds == Spec => []SteadyInv
<1>1. Init => SteadyInv
  <2> SUFFICES ASSUME Init PROVE SteadyInv
    OBVIOUS
  <2>1. \A r \in Requests : req[r] = NoReq /\ steady[r] = {}
    BY DEF Init
  <2>2. SteadyOK(NoReq, {})
    BY DEF NoReq, SteadyOK, None
  <2> QED
    BY <2>1, <2>2 DEF Init, SteadyInv
<1> QED
  BY <1>1, NextSteady, IInvHolds, PTL DEF Spec

(* proxy.go's caches: an entry that is no longer true lives for less than  *)
(* the TTL from then on, however often it is hit; the failover index stays *)
(* inside the list of addresses.                                           *)
THEOREM StaleEntriesExpire == Spec => []StaleAtMostTTL
<1>1. ASSUME IInv, SteadyInv PROVE StaleAtMostTTL
  <2>0. TableInv /\ CacheInv /\ ReqInv
    BY <1>1 DEF IInv
  <2>1. \A n \in Names : domainCache[n].left \in 0 .. TTL /\ domainCache[n].stale < TTL
    BY <2>0, Constants, TTLPositive DEF CacheInv, EntryOK, Entries
  <2>2. ASSUME NEW d \in Deps
        PROVE  /\ cache[d].left \in 0 .. TTL /\ cache[d].stale < TTL
               /\ Len(cache[d].addrs) <= 2
    <3>1. CASE cache[d] = NoAddrs
      BY <3>1, Constants, TTLPositive
    <3>2. CASE cache[d] # NoAddrs
      <4>1. /\ cache[d] \in Lists /\ cache[d].stale + cache[d].left <= TTL
            /\ Len(cache[d].addrs) \in 1 .. 2
        BY <2>0, <3>2 DEF CacheInv, ListOK
      <4>2. cache[d].left \in 1 .. TTL /\ cache[d].stale \in Nat
        BY <4>1 DEF Lists
      <4>3. PICK l \in 1 .. TTL, s \in Nat, k \in 1 .. 2 :
               l = cache[d].left /\ s = cache[d].stale /\ k = Len(cache[d].addrs)
        BY <4>1, <4>2
      <4>4. s + l <= TTL
        BY <4>1, <4>3
      <4>5. l \in 0 .. TTL /\ s < TTL /\ k <= 2
        BY <4>4, TTLPositive
      <4> QED
        BY <4>3, <4>5
    <3> QED
      BY <3>1, <3>2
  <2>3. /\ \A n \in Names : binding[n] = Unbound \/ binding[n] \in [dep : Deps, role : Roles]
        /\ \A d \in Deps : dep[d].status \in {"running", "stopped", "deleted"}
        /\ live \in [Deps -> SUBSET {0, 1}] /\ recent \in [Deps -> 0 .. 2]
        /\ up \subseteq Containers
        /\ dropping \in Names \cup {None}
        /\ straddled \subseteq Names /\ hushed \subseteq Names
        /\ steady \in [Requests -> SUBSET Containers]
    BY <1>1, <2>0 DEF TableInv, Bindings, DepRecs, SteadyInv
  <2>4. \A r \in Requests : /\ req[r].answer \in Answers \cup {None}
                            /\ req[r].pc = "try" => req[r].i \in 1 .. Len(req[r].addrs)
    BY <2>0 DEF ReqInv, ReqRecs, Shape
  <2> QED
    BY <2>1, <2>2, <2>3, <2>4 DEF StaleAtMostTTL, TypeOK
<1> QED
  BY <1>1, IInvHolds, SteadyHolds, PTL

(* deleteDomain and InvalidateDomain: a name whose row is gone and whose   *)
(* entry was dropped is not known, unless a lookup straddled the drop or   *)
(* the row was re-armed since, which drops nothing.                        *)
THEOREM DroppedNamesAreUnknown == Spec => []InvalidationHolds
<1>1. IInv => InvalidationHolds
  BY DEF IInv, HoldInv
<1> QED
  BY <1>1, IInvHolds, PTL

(* proxyWithFailover: a request that ends with no response was given no    *)
(* replica that stayed up from its first attempt on, for every list, every *)
(* number of requests and every order of deaths, returns and swaps.        *)
THEOREM FailoverPassesNoneOver == Spec => []NoReplicaPassedOver
<1>1. SteadyInv => NoReplicaPassedOver
  BY DEF SteadyInv, SteadyOK, NoReplicaPassedOver
<1> QED
  BY <1>1, SteadyHolds, PTL

----------------------------------------------------------------------------
(* Custom domains: what is stored ...                                      *)
DomRows == [id : 1 .. MaxOps, dep : Deps, status : Statuses, verified : BOOLEAN,
            auto : BOOLEAN, cred : Creds \cup {None}, age : 0 .. MaxAge + 1]
OpRecs ==
    [pc : Labels, kind : {None, "create", "verify", "auto", "delete"},
     name : Names \cup {None}, id : 0 .. MaxOps, dep : Deps \cup {None},
     prior : Statuses \cup {None}, status : Statuses \cup {None},
     cred : Creds \cup {None}, got : SUBSET Names]
Entry == [name : Names, id : 1 .. MaxOps, aged : BOOLEAN]
Sweeps == [todo : SUBSET Entry, cur : Names \cup {None}, id : 0 .. MaxOps, found : BOOLEAN]

RowsInv ==
    /\ row \in [Names -> DomRows \cup {NoRow}]
    /\ \A n \in Names : /\ row[n].cred \in creds \cup {None}
                        /\ row[n].verified <=> row[n].status = "active"
                        /\ row[n].status = "active" => row[n].id \in matched
                        /\ row[n].id <= ops

ZoneInv ==
    /\ record \in [Names -> Hosts] /\ seen \in [Names -> Hosts]
    /\ edits \in 0 .. MaxEdits

RestInv ==
    /\ vault \in [Creds -> {"new", "live", "gone"}] /\ removing \in Creds \cup {None}
    /\ rebakes \in [Rebakers -> Tasks]
    /\ alive \subseteq Deps /\ baked \in [Deps -> SUBSET Names]
    /\ matched \subseteq 1 .. MaxOps /\ owed \subseteq Names
    /\ ops \in 0 .. MaxOps /\ faults \in 0 .. MaxFaults

(* ... what the sweep believes of the entry it looks at: a list has one    *)
(* for each name, and a match is the match of that entry's row ...         *)
VerInv ==
    /\ ver \in Sweeps
    /\ \A t, u \in ver.todo : t.name = u.name => t = u
    /\ \A t \in ver.todo : t.name = ver.cur => t.id = ver.id
    /\ ver.found => ver.id \in matched

(* ... and what a request carries: the id of a row that may be gone, the   *)
(* deployment of that row, and a verdict that is the row's own.            *)
OpOK(q, rows, hits, k) ==
    /\ q.id <= k
    /\ q.pc \in {"lookup", "apply", "pick", "upsert", "persist", "reread"} =>
         /\ q.name \in Names /\ q.id \in 1 .. MaxOps
         /\ rows[q.name].id = q.id => rows[q.name].dep = q.dep
    /\ q.pc \in {"lookup", "apply"} => q.kind \in {"create", "verify"}
    /\ q.pc \in {"upsert", "persist"} => q.cred \in Creds
    /\ q.pc = "apply" => q.status \in Statuses /\ (q.status = "active" => q.id \in hits)

OpsInv == op \in [Callers -> OpRecs] /\ \A x \in Callers : OpOK(op[x], row, matched, ops)

DomainsInv == RowsInv /\ ZoneInv /\ RestInv /\ VerInv /\ OpsInv

(* Who owes a name its container: a rebuild that has not read yet, or has  *)
(* read the name, and a create on its way to one.                          *)
Redoes(q, n, rows) ==
    q.dep = rows[n].dep /\ (q.pc = "rebuild" \/ (q.pc = "recreate" /\ n \in q.got))
Owes(q, n, rows) ==
    \/ Redoes(q, n, rows)
    \/ /\ q.kind = "create" /\ q.pc \in {"pick", "upsert", "persist"}
       /\ q.name = n /\ q.id = rows[n].id /\ q.status = "active"

RiseInv ==
    /\ \A n \in owed : row[n].status = "active"
    /\ faults = 0 => \A n \in owed : row[n].dep \in alive =>
          \/ \E x \in Callers : Owes(op[x], n, row)
          \/ \E g \in Rebakers : Redoes(rebakes[g], n, row)

FormRows == [id : 0 .. MaxOps, dep : Deps \cup {None}, status : Statuses \cup {None},
             verified : BOOLEAN, auto : BOOLEAN, cred : Creds \cup {None},
             age : 0 .. MaxAge + 1]

LEMMA NoRowFields ==
    /\ NoRow \in FormRows /\ NoRow.id = 0 /\ NoRow.dep = None /\ NoRow.status = None
    /\ NoRow.verified = FALSE /\ NoRow.auto = FALSE /\ NoRow.cred = None /\ NoRow.age = 0
    /\ None \notin Statuses /\ "active" \in Statuses /\ "pending" \in Statuses
    /\ "failed" \in Statuses /\ None # "active"
  BY DomainsAssumption DEF NoRow, FormRows, Statuses, None

LEMMA NoOpFields ==
    /\ NoOp \in OpRecs /\ NoOp.pc = "idle" /\ NoOp.kind = None /\ NoOp.name = None
    /\ NoOp.id = 0 /\ NoOp.dep = None /\ NoOp.prior = None /\ NoOp.status = None
    /\ NoOp.cred = None /\ NoOp.got = {}
  BY DomainsAssumption DEF NoOp, OpRecs, Statuses, Labels, None

LEMMA NoTaskFields == NoTask \in Tasks /\ NoTask.pc = "idle"
  BY DEF NoTask, Tasks

LEMMA NoSweepFields ==
    NoSweep \in Sweeps /\ NoSweep.todo = {} /\ NoSweep.cur = None /\ NoSweep.found = FALSE
  BY DomainsAssumption DEF NoSweep, Sweeps

LEMMA CredsStored == creds \subseteq Creds /\ None \notin creds
  BY DomainsAssumption DEF creds

(* A row that is there.                                                    *)
LEMMA RowThere ==
    ASSUME RowsInv, NEW n \in Names, row[n].id # 0 \/ row[n].status # None
    PROVE  /\ row[n] \in DomRows /\ row[n].id \in 1 .. MaxOps /\ row[n].dep \in Deps
           /\ row[n].status \in Statuses /\ row[n].cred \in Creds \cup {None}
           /\ row[n].auto \in BOOLEAN
  BY NoRowFields DEF RowsInv, DomRows

LEMMA LiveThere ==
    ASSUME RowsInv, NEW n \in Names, Live(n)
    PROVE  row[n] \in DomRows /\ row[n].id # 0
  BY DEF RowsInv, DomRows, Live

LEMMA NoOpOK == ASSUME NEW rows, NEW hits, NEW k \in Nat PROVE OpOK(NoOp, rows, hits, k)
  BY NoOpFields DEF OpOK

(* One call or lookup more that failed, or none.                           *)
LEMMA FaultCounts ==
    ASSUME RestInv
    PROVE  /\ Fault => faults' \in 0 .. MaxFaults /\ faults' # 0
           /\ Fine => faults' \in 0 .. MaxFaults /\ (faults' = 0 => faults = 0)
  BY DomainsAssumption DEF RestInv, Fault, Fine

(* A row keeps its id and its deployment, or is a new one.                 *)
Keeps == \A m \in Names : row'[m].id \in 1 .. ops =>
                             row'[m].id = row[m].id /\ row'[m].dep = row[m].dep

LEMMA OpKept ==
    ASSUME DomainsInv, Keeps, matched \subseteq matched', ops' \in Nat, ops <= ops',
           NEW x \in Callers
    PROVE  OpOK(op[x], row', matched', ops')
<1>1. OpOK(op[x], row, matched, ops) /\ op[x] \in OpRecs /\ ops \in Nat /\ op[x].id \in Nat
  BY DomainsAssumption DEF DomainsInv, OpsInv, RestInv, OpRecs
<1>2. op[x].id <= ops'
  BY <1>1 DEF OpOK
<1>3. op[x].id \in 1 .. MaxOps => op[x].id \in 1 .. ops
  BY <1>1, DomainsAssumption DEF OpOK
<1> QED
  BY <1>1, <1>2, <1>3 DEF OpOK, Keeps

(* A step of one request ...                                               *)
LEMMA OpMoves ==
    ASSUME DomainsInv, Keeps, matched \subseteq matched', ops' \in Nat, ops <= ops',
           NEW x \in Callers, NEW q \in OpRecs, op' = [op EXCEPT ![x] = q],
           OpOK(q, row', matched', ops')
    PROVE  OpsInv'
<1>1. /\ op' \in [Callers -> OpRecs] /\ op'[x] = q
      /\ \A y \in Callers \ {x} : op'[y] = op[y]
  BY DEF DomainsInv, OpsInv
<1>2. \A y \in Callers : OpOK(op'[y], row', matched', ops')
  BY <1>1, OpKept
<1> QED
  BY <1>1, <1>2 DEF OpsInv

(* ... and one of somebody else.                                           *)
LEMMA OpsStay ==
    ASSUME DomainsInv, Keeps, matched \subseteq matched', UNCHANGED <<op, ops>>
    PROVE  OpsInv'
<1>1. ops' \in Nat /\ ops <= ops'
  BY DomainsAssumption DEF DomainsInv, RestInv
<1>2. \A y \in Callers : OpOK(op'[y], row', matched', ops')
  BY <1>1, OpKept
<1> QED
  BY <1>2 DEF DomainsInv, OpsInv

LEMMA RowsStay ==
    ASSUME DomainsInv, UNCHANGED <<row, vault>>, matched \subseteq matched', ops <= ops',
           ops' \in Nat
    PROVE  RowsInv' /\ Keeps
<1>1. creds' = creds
  BY DEF creds
<1>2. \A n \in Names : row[n].id \in Nat
  BY NoRowFields, DomainsAssumption DEF DomainsInv, RowsInv, DomRows
<1>3. \A n \in Names : row'[n].id <= ops'
  BY <1>2, DomainsAssumption DEF DomainsInv, RowsInv, RestInv
<1>4. RowsInv'
  BY <1>1, <1>3 DEF DomainsInv, RowsInv
<1> QED
  BY <1>4 DEF Keeps

(* One row is written in place.                                            *)
LEMMA RowMoves ==
    ASSUME DomainsInv, NEW n \in Names, NEW r \in DomRows, row' = [row EXCEPT ![n] = r],
           r.id = row[n].id, r.dep = row[n].dep, r.cred \in creds \cup {None},
           r.verified <=> r.status = "active", r.status = "active" => r.id \in matched',
           UNCHANGED <<vault, ops>>, matched \subseteq matched'
    PROVE  RowsInv' /\ Keeps
<1>1. creds' = creds
  BY DEF creds
<1>2. row'[n] = r /\ \A m \in Names \ {n} : row'[m] = row[m]
  BY DEF DomainsInv, RowsInv
<1>3. RowsInv'
  BY <1>1, <1>2 DEF DomainsInv, RowsInv
<1>4. Keeps
  BY <1>2 DEF Keeps
<1> QED
  BY <1>3, <1>4

LEMMA VerStays == ASSUME DomainsInv, ver' = ver, matched \subseteq matched' PROVE VerInv'
  BY DEF DomainsInv, VerInv

(* The sweep is done with an entry.                                        *)
LEMMA VerNext ==
    ASSUME DomainsInv, NEW t \in ver.todo, ver' = Next1(t), matched \subseteq matched'
    PROVE  VerInv'
<1>1. ver \in Sweeps
  BY DEF DomainsInv, VerInv
<1>2. PICK s \in SUBSET Entry : s = ver.todo \ {t}
  BY <1>1 DEF Sweeps
<1>3. PICK v \in Sweeps : v = [ver EXCEPT !.todo = s, !.cur = None, !.id = 0, !.found = FALSE]
  <2>1. 0 \in 0 .. MaxOps
    BY DomainsAssumption
  <2> QED
    BY <1>1, <2>1 DEF Sweeps
<1>4. v.todo = s /\ v.cur = None /\ v.id = 0 /\ v.found = FALSE
  BY <1>1, <1>3 DEF Sweeps
<1>5. ver' = v
  BY <1>1, <1>2, <1>3 DEF Next1, Sweeps
<1>6. \A u \in s : u.name # None
  BY DomainsAssumption DEF Entry
<1> QED
  BY <1>2, <1>4, <1>5, <1>6 DEF DomainsInv, VerInv

----------------------------------------------------------------------------
(* A new request.                                                          *)
LEMMA OpStarts ==
    ASSUME DomainsInv, NEW x \in Callers, NEW q, NewOp(x, q)
    PROVE  /\ op' = [op EXCEPT ![x] = q] /\ op[x].pc = "idle"
           /\ ops' = ops + 1 /\ ops' \in 0 .. MaxOps /\ ops' \in Nat /\ ops <= ops'
           /\ ops + 1 \in 1 .. MaxOps /\ ops \in Nat
  BY DomainsAssumption DEF NewOp, DomainsInv, RestInv

LEMMA CreateStep ==
    ASSUME DomainsInv, NEW x \in Callers, NEW n \in Names, NEW d \in Deps, CreateDomain(x, n, d)
    PROVE  DomainsInv'
<1>0. PICK k \in 1 .. MaxOps : k = ops + 1 /\ k \in 0 .. MaxOps /\ ops' = k /\ k \in Nat
                               /\ ops \in Nat
  BY OpStarts, DomainsAssumption DEF CreateDomain
<1>1. PICK q \in OpRecs : q = [NoOp EXCEPT !.pc = "lookup", !.kind = "create", !.name = n,
                                           !.id = k, !.dep = d]
  BY NoOpFields, <1>0 DEF OpRecs, Labels
<1>2. q.pc = "lookup" /\ q.kind = "create" /\ q.name = n /\ q.id = k /\ q.dep = d
  BY <1>1, NoOpFields DEF OpRecs
<1>3. /\ op' = [op EXCEPT ![x] = q] /\ row[n] = NoRow
      /\ UNCHANGED <<zone, vault, removing, ver, rebakes, baked, alive, marks, faults>>
  BY <1>0, <1>1, OpStarts DEF CreateDomain
<1>4. PICK r \in FormRows : r = [NoRow EXCEPT !.id = k, !.dep = d, !.status = "pending"]
  <2>1. NoRow \in FormRows /\ k \in 0 .. MaxOps /\ "pending" \in Statuses
    BY <1>0, NoRowFields DEF Statuses
  <2> QED
    BY <2>1 DEF FormRows
<1>5. /\ r.id = k /\ r.dep = d /\ r.status = "pending" /\ r.verified = FALSE /\ r.cred = None
  BY <1>4, NoRowFields DEF FormRows
<1>6. r \in DomRows
  BY <1>5, NoRowFields DEF FormRows, DomRows
<1>7. /\ row'[n] = r /\ (\A m \in Names \ {n} : row'[m] = row[m])
      /\ row' \in [Names -> DomRows \cup {NoRow}]
  BY <1>0, <1>4, <1>6 DEF CreateDomain, DomainsInv, RowsInv
<1>8. creds' = creds /\ matched' = matched /\ UNCHANGED <<removing, rebakes, baked, alive, owed>>
  BY <1>3 DEF creds, marks
<1>9. \A m \in Names \ {n} : row[m].id \in Nat /\ row[m].id <= ops
  BY NoRowFields, DomainsAssumption DEF DomainsInv, RowsInv, DomRows
<1>10. RowsInv'
  <2>1. \A m \in Names : row'[m].id <= ops'
    BY <1>0, <1>5, <1>7, <1>9
  <2>2. "pending" # "active"
    OBVIOUS
  <2> QED
    BY <1>5, <1>7, <1>8, <2>1, <2>2 DEF DomainsInv, RowsInv
<1>11. Keeps
  <2>1. k \notin 1 .. ops
    BY <1>0
  <2> QED
    BY <1>5, <1>7, <2>1 DEF Keeps
<1>12. OpOK(q, row', matched', ops')
  BY <1>0, <1>2, <1>5, <1>7 DEF OpOK
<1>13. ops <= ops' /\ ops' \in Nat
  BY <1>0
<1>14. OpsInv'
  BY <1>3, <1>8, <1>11, <1>12, <1>13, OpMoves
<1>15. ZoneInv' /\ RestInv'
  BY <1>0, <1>3, <1>8 DEF DomainsInv, ZoneInv, RestInv, zone
<1> QED
  BY <1>3, <1>8, <1>10, <1>14, <1>15, VerStays DEF DomainsInv

(* A request that starts from a row, or moves, and writes nothing else.    *)
LEMMA OpOnly ==
    ASSUME DomainsInv, NEW x \in Callers, NEW q \in OpRecs, op' = [op EXCEPT ![x] = q],
           UNCHANGED <<row, zone, vault, removing, ver, rebakes, baked, alive, owed>>,
           matched \subseteq matched', matched' \subseteq 1 .. MaxOps,
           ops' \in 0 .. MaxOps, ops <= ops', faults' \in 0 .. MaxFaults,
           OpOK(q, row, matched', ops')
    PROVE  DomainsInv'
<1>0. ops' \in Nat
  BY DomainsAssumption
<1>1. RowsInv' /\ Keeps
  BY <1>0, RowsStay
<1>2. OpOK(q, row', matched', ops')
  OBVIOUS
<1>3. OpsInv'
  BY <1>0, <1>1, <1>2, OpMoves
<1>4. ZoneInv' /\ RestInv'
  BY DEF DomainsInv, ZoneInv, RestInv, zone
<1> QED
  BY <1>1, <1>3, <1>4, VerStays DEF DomainsInv

LEMMA VerifyStep ==
    ASSUME DomainsInv, NEW x \in Callers, NEW n \in Names, VerifyDomain(x, n)
    PROVE  DomainsInv'
<1>0. RowsInv /\ RestInv
  BY DEF DomainsInv
<1>1. /\ row[n].id \in 1 .. MaxOps /\ row[n].dep \in Deps /\ row[n].status \in Statuses
      /\ row[n].id <= ops
  BY <1>0, RowThere, LiveThere DEF VerifyDomain, RowsInv
<1>2. PICK q \in OpRecs : q = [NoOp EXCEPT !.pc = "lookup", !.kind = "verify", !.name = n,
                                 !.id = row[n].id, !.dep = row[n].dep, !.prior = row[n].status]
  <2>1. row[n].id \in 0 .. MaxOps
    BY <1>1, DomainsAssumption
  <2> QED
    BY <1>1, <2>1, NoOpFields DEF OpRecs, Labels
<1>3. /\ q.pc = "lookup" /\ q.kind = "verify" /\ q.name = n /\ q.id = row[n].id
      /\ q.dep = row[n].dep
  BY <1>2, NoOpFields DEF OpRecs
<1>4. NewOp(x, q) /\ UNCHANGED <<row, zone, vault, removing, ver, rebakes, baked, alive,
                                 matched, owed, faults>>
  BY <1>2 DEF VerifyDomain, marks
<1>5. /\ op' = [op EXCEPT ![x] = q] /\ ops' \in 0 .. MaxOps /\ ops <= ops' /\ ops' = ops + 1
      /\ ops \in Nat
  BY <1>4, OpStarts
<1>6. q.id <= ops'
  BY <1>1, <1>3, <1>5
<1>7. OpOK(q, row, matched', ops')
  BY <1>1, <1>3, <1>6 DEF OpOK
<1>8. matched' = matched /\ faults' \in 0 .. MaxFaults /\ matched \subseteq 1 .. MaxOps
  BY <1>0, <1>4 DEF RestInv
<1> QED
  BY <1>4, <1>5, <1>7, <1>8, OpOnly

LEMMA AutoStep ==
    ASSUME DomainsInv, NEW x \in Callers, NEW n \in Names, NEW c \in Creds,
           AutoConfigureDomain(x, n, c)
    PROVE  DomainsInv'
<1>0. RowsInv /\ RestInv
  BY DEF DomainsInv
<1>1. row[n].id \in 1 .. MaxOps /\ row[n].dep \in Deps /\ row[n].id <= ops
  BY <1>0, RowThere, LiveThere DEF AutoConfigureDomain, RowsInv
<1>2. PICK q \in OpRecs : q = [NoOp EXCEPT !.pc = "upsert", !.kind = "auto", !.name = n,
                                 !.id = row[n].id, !.dep = row[n].dep, !.cred = c]
  <2>1. row[n].id \in 0 .. MaxOps
    BY <1>1, DomainsAssumption
  <2> QED
    BY <1>1, <2>1, NoOpFields DEF OpRecs, Labels
<1>3. /\ q.pc = "upsert" /\ q.kind = "auto" /\ q.name = n /\ q.id = row[n].id
      /\ q.dep = row[n].dep /\ q.cred = c
  BY <1>2, NoOpFields DEF OpRecs
<1>4. NewOp(x, q) /\ UNCHANGED <<row, zone, vault, removing, ver, rebakes, baked, alive,
                                 matched, owed, faults>>
  BY <1>2 DEF AutoConfigureDomain, marks
<1>5. /\ op' = [op EXCEPT ![x] = q] /\ ops' \in 0 .. MaxOps /\ ops <= ops' /\ ops' = ops + 1
      /\ ops \in Nat
  BY <1>4, OpStarts
<1>6. q.id <= ops'
  BY <1>1, <1>3, <1>5
<1>7. OpOK(q, row, matched', ops')
  BY <1>1, <1>3, <1>6 DEF OpOK
<1>8. matched' = matched /\ faults' \in 0 .. MaxFaults /\ matched \subseteq 1 .. MaxOps
  BY <1>0, <1>4 DEF RestInv
<1> QED
  BY <1>4, <1>5, <1>7, <1>8, OpOnly

(* The lookup of a request: a match is a match of its row.                 *)
LEMMA LookupStep == ASSUME DomainsInv, NEW x \in Callers, VerifyDomainDNS(x) PROVE DomainsInv'
<1>0. /\ op[x] \in OpRecs /\ OpOK(op[x], row, matched, ops) /\ op[x].pc = "lookup" /\ RestInv
      /\ ops \in 0 .. MaxOps /\ ops <= ops /\ ops' = ops /\ matched \subseteq 1 .. MaxOps
      /\ UNCHANGED <<row, zone, vault, removing, ver, rebakes, baked, alive, owed>>
  BY DomainsAssumption DEF DomainsInv, OpsInv, RestInv, VerifyDomainDNS
<1>1. PICK v \in Statuses : /\ Lookup(op[x].name, v) /\ Matched(op[x].id, v)
                            /\ op' = [op EXCEPT ![x] = [op[x] EXCEPT !.pc = "apply", !.status = v]]
  BY DEF VerifyDomainDNS, OpTo
<1>2. PICK q \in OpRecs : q = [op[x] EXCEPT !.pc = "apply", !.status = v]
  BY <1>0 DEF OpRecs, Labels
<1>3. /\ q.pc = "apply" /\ q.status = v /\ q.kind = op[x].kind /\ q.name = op[x].name
      /\ q.id = op[x].id /\ q.dep = op[x].dep
  BY <1>0, <1>2 DEF OpRecs
<1>4. /\ matched \subseteq matched' /\ (v = "active" => op[x].id \in matched')
      /\ matched' \subseteq matched \cup {op[x].id}
  BY <1>1 DEF Matched
<1>5. op[x].id \in 1 .. MaxOps
  BY <1>0 DEF OpOK
<1>6. OpOK(q, row, matched', ops')
  BY <1>0, <1>3, <1>4 DEF OpOK
<1>7. faults' \in 0 .. MaxFaults
  BY <1>0, <1>1, FaultCounts DEF Lookup
<1>8. matched' \subseteq 1 .. MaxOps /\ op' = [op EXCEPT ![x] = q]
  BY <1>0, <1>1, <1>2, <1>4, <1>5
<1> QED
  BY <1>0, <1>4, <1>6, <1>7, <1>8, OpOnly

(* What is left to check of a request that is past its row.                *)
LEMMA LaterOK ==
    ASSUME NEW q0, NEW q, NEW rows, NEW hits, NEW k \in Nat, OpOK(q0, rows, hits, k),
           q.id \in {0, q0.id}, q.pc \in {"idle", "rebuild", "recreate", "cleanup"}
    PROVE  OpOK(q, rows, hits, k)
  BY DEF OpOK

LEMMA EndOpShape ==
    ASSUME NEW x \in Callers, EndOp(x)
    PROVE  \E q \in OpRecs : /\ op' = [op EXCEPT ![x] = q] /\ q.pc = "idle" /\ q.id = 0
                             /\ q = NoOp
  BY NoOpFields DEF EndOp

LEMMA GotoShape ==
    ASSUME OpsInv, NEW x \in Callers, NEW l \in Labels, Goto(x, l)
    PROVE  \E q \in OpRecs :
             /\ op' = [op EXCEPT ![x] = q] /\ q.pc = l /\ q.kind = op[x].kind
             /\ q.name = op[x].name /\ q.id = op[x].id /\ q.dep = op[x].dep
             /\ q.status = op[x].status /\ q.cred = op[x].cred
<1>1. op[x] \in OpRecs
  BY DEF OpsInv
<1>2. PICK q : q = [op[x] EXCEPT !.pc = l]
  OBVIOUS
<1>3. op' = [op EXCEPT ![x] = q]
  BY <1>2 DEF Goto
<1>4. /\ q \in OpRecs /\ q.pc = l /\ q.kind = op[x].kind /\ q.name = op[x].name
      /\ q.id = op[x].id /\ q.dep = op[x].dep /\ q.status = op[x].status
      /\ q.cred = op[x].cred
  BY <1>1, <1>2 DEF OpRecs
<1> QED
  BY <1>3, <1>4

LEMMA AfterAutoShape ==
    ASSUME OpsInv, NEW x \in Callers, NEW status, AfterAuto(x, status)
    PROVE  \E q \in OpRecs :
             /\ op' = [op EXCEPT ![x] = q] /\ q.pc \in {"idle", "rebuild"}
             /\ q.id \in {0, op[x].id}
             /\ status = "active" => q.pc = "rebuild" /\ q.dep = op[x].dep
<1>1. CASE status = "active"
  BY <1>1, GotoShape DEF AfterAuto, Labels
<1>2. CASE status # "active"
  BY <1>2, EndOpShape DEF AfterAuto
<1> QED
  BY <1>1, <1>2

(* Where a handler goes from its verdict.                                  *)
Picks(q, q0, status) ==
    /\ q.pc = "pick" /\ q.kind = "create" /\ q0.kind = "create" /\ q.name = q0.name
    /\ q.id = q0.id /\ q.dep = q0.dep /\ q.status = status
Ends(q, q0) == q.pc \in {"idle", "rebuild"} /\ q.id \in {0, q0.id}

LEMMA AfterVerdictShape ==
    ASSUME OpsInv, NEW x \in Callers, NEW status \in Statuses, AfterVerdict(x, status),
           op[x].kind \in {"create", "verify"}
    PROVE  \E q \in OpRecs :
             /\ op' = [op EXCEPT ![x] = q]
             /\ \/ Picks(q, op[x], status)
                \/ /\ Ends(q, op[x]) /\ op[x].kind = "verify"
                   /\ op[x].prior # "active" /\ status = "active" =>
                        q.pc = "rebuild" /\ q.dep = op[x].dep
<1>1. CASE op[x].kind = "create"
  <2>1. PICK q \in OpRecs : q = [op[x] EXCEPT !.pc = "pick", !.status = status]
    BY DEF OpsInv, OpRecs, Labels
  <2>2. /\ q.pc = "pick" /\ q.kind = op[x].kind /\ q.name = op[x].name /\ q.id = op[x].id
        /\ q.dep = op[x].dep /\ q.status = status
    BY <2>1 DEF OpsInv, OpRecs
  <2>3. op' = [op EXCEPT ![x] = q]
    BY <1>1, <2>1 DEF AfterVerdict, OpTo
  <2> QED
    BY <1>1, <2>2, <2>3 DEF Picks
<1>2. CASE op[x].kind = "verify"
  <2>1. CASE op[x].prior # "active" /\ status = "active"
    <3>1. Goto(x, "rebuild")
      BY <1>2, <2>1 DEF AfterVerdict
    <3> QED
      BY <1>2, <3>1, GotoShape DEF Ends, Labels
  <2>2. CASE ~(op[x].prior # "active" /\ status = "active")
    <3>1. EndOp(x)
      BY <1>2, <2>2 DEF AfterVerdict
    <3> QED
      BY <1>2, <2>2, <3>1, EndOpShape DEF Ends
  <2> QED
    BY <2>1, <2>2
<1> QED
  BY <1>1, <1>2

(* A verdict is written, or its row is gone, or the UPDATE fails.          *)
LEMMA ApplyShape ==
    ASSUME DomainsInv, NEW x \in Callers, ApplyVerification(x)
    PROVE  /\ op[x].name \in Names /\ op[x].status \in Statuses
           /\ \/ \E r \in DomRows, q \in OpRecs :
                   LET n == op[x].name IN
                   /\ row' = [row EXCEPT ![n] = r] /\ op' = [op EXCEPT ![x] = q] /\ Fine
                   /\ row[n].id = op[x].id /\ r.id = row[n].id /\ r.dep = row[n].dep
                   /\ r.cred = row[n].cred
                   /\ r.status = op[x].status /\ (r.verified <=> r.status = "active")
                   /\ Owe(n, op[x].status, op[x].prior # "active")
                   /\ \/ Picks(q, op[x], op[x].status)
                      \/ /\ Ends(q, op[x])
                         /\ op[x].prior # "active" /\ op[x].status = "active" =>
                              q.pc = "rebuild" /\ q.dep = op[x].dep
              \/ \E q \in OpRecs :
                   /\ UNCHANGED <<row, owed>> /\ op' = [op EXCEPT ![x] = q]
                   /\ Fault \/ Fine
                   /\ Picks(q, op[x], "pending") \/ Ends(q, op[x])
<1>0. /\ op[x] \in OpRecs /\ OpOK(op[x], row, matched, ops) /\ op[x].pc = "apply" /\ OpsInv
      /\ RowsInv
  BY DEF DomainsInv, OpsInv, ApplyVerification
<1>1. /\ op[x].name \in Names /\ op[x].status \in Statuses /\ op[x].id \in 1 .. MaxOps
      /\ op[x].kind \in {"create", "verify"} /\ op[x].id # 0
  BY <1>0, DomainsAssumption DEF OpOK
<1> DEFINE n == op[x].name
<1>2. CASE /\ row[n].id = op[x].id /\ Fine
           /\ row' = [row EXCEPT ![n].status = op[x].status, ![n].age = 0,
                                 ![n].verified = op[x].status = "active"]
           /\ Owe(n, op[x].status, op[x].prior # "active")
           /\ AfterVerdict(x, op[x].status)
  <2>1. row[n] \in DomRows /\ row \in [Names -> DomRows \cup {NoRow}]
    BY <1>0, <1>1, <1>2, RowThere DEF RowsInv
  <2>2. PICK b \in BOOLEAN : b <=> op[x].status = "active"
    OBVIOUS
  <2>3. PICK z \in 0 .. MaxAge + 1 : z = 0
    BY DomainsAssumption
  <2>4. PICK r \in DomRows : r = [row[n] EXCEPT !.status = op[x].status, !.age = z,
                                               !.verified = b]
    BY <1>1, <2>1 DEF DomRows
  <2>5. /\ r.id = row[n].id /\ r.dep = row[n].dep /\ r.cred = row[n].cred
        /\ r.status = op[x].status /\ r.verified = b
    BY <2>1, <2>4 DEF DomRows
  <2>6. row' = [row EXCEPT ![n] = r]
    <3>1. row' = [row EXCEPT ![n] = [row[n] EXCEPT !.status = op[x].status, !.age = 0,
                                      !.verified = (op[x].status = "active")]]
      BY <1>1, <1>2, <2>1
    <3>2. b = (op[x].status = "active")
      BY <2>2
    <3> QED
      BY <2>3, <2>4, <3>1, <3>2
  <2>7. PICK q \in OpRecs :
             /\ op' = [op EXCEPT ![x] = q]
             /\ \/ Picks(q, op[x], op[x].status)
                \/ /\ Ends(q, op[x])
                   /\ op[x].prior # "active" /\ op[x].status = "active" =>
                        q.pc = "rebuild" /\ q.dep = op[x].dep
    BY <1>0, <1>1, <1>2, AfterVerdictShape
  <2>8. /\ row' = [row EXCEPT ![op[x].name] = r] /\ Fine
        /\ row[op[x].name].id = op[x].id /\ r.id = row[op[x].name].id
        /\ r.dep = row[op[x].name].dep /\ r.cred = row[op[x].name].cred
        /\ r.status = op[x].status /\ (r.verified <=> r.status = "active")
        /\ Owe(op[x].name, op[x].status, op[x].prior # "active")
    BY <1>2, <2>2, <2>5, <2>6
  <2> QED
    BY ONLY <1>1, <2>7, <2>8, r \in DomRows, q \in OpRecs
<1>3. CASE /\ IF row[n].id = op[x].id THEN Fault ELSE Fine
           /\ UNCHANGED <<row, owed>>
           /\ IF op[x].kind = "create" THEN AfterVerdict(x, "pending") ELSE EndOp(x)
  <2>1. CASE op[x].kind = "create"
    <3>1. AfterVerdict(x, "pending") /\ "pending" \in Statuses
      BY <1>3, <2>1 DEF Statuses
    <3>2. \E q \in OpRecs : op' = [op EXCEPT ![x] = q] /\ Picks(q, op[x], "pending")
      BY <1>0, <1>1, <2>1, <3>1, AfterVerdictShape
    <3> QED
      BY <1>1, <1>3, <3>2
  <2>2. CASE op[x].kind # "create"
    <3>1. \E q \in OpRecs : op' = [op EXCEPT ![x] = q] /\ Ends(q, op[x])
      BY <1>3, <2>2, EndOpShape DEF Ends
    <3> QED
      BY <1>1, <1>3, <3>1
  <2> QED
    BY <2>1, <2>2
<1> QED
  BY <1>2, <1>3 DEF ApplyVerification

LEMMA PicksOK ==
    ASSUME NEW q0, NEW q, NEW rows, NEW hits, NEW k \in Nat, NEW status,
           OpOK(q0, rows, hits, k), q0.pc = "apply", Picks(q, q0, status) \/ Ends(q, q0)
    PROVE  OpOK(q, rows, hits, k)
<1>1. CASE Picks(q, q0, status)
  BY <1>1 DEF Picks, OpOK
<1>2. CASE Ends(q, q0)
  BY <1>2, LaterOK DEF Ends
<1> QED
  BY <1>1, <1>2

LEMMA ApplyStep ==
    ASSUME DomainsInv, NEW x \in Callers, ApplyVerification(x) PROVE DomainsInv'
<1>0. /\ UNCHANGED <<zone, vault, removing, ver, rebakes, baked, alive, matched, ops>>
      /\ op[x].pc = "apply" /\ OpOK(op[x], row, matched, ops) /\ ops \in Nat /\ ops <= ops
      /\ RestInv /\ RowsInv
  BY DomainsAssumption DEF ApplyVerification, DomainsInv, OpsInv, RestInv
<1>1. op[x].name \in Names /\ op[x].status \in Statuses
  BY ApplyShape
<1>2. owed' \subseteq Names
  BY <1>0, <1>1, ApplyShape DEF RestInv, Owe, Statuses
<1>3. faults' \in 0 .. MaxFaults
  BY <1>0, ApplyShape, FaultCounts
<1>4. ZoneInv' /\ RestInv' /\ VerInv'
  BY <1>0, <1>2, <1>3, VerStays DEF DomainsInv, ZoneInv, RestInv, zone
<1>5. RowsInv' /\ Keeps
  <2>1. ASSUME NEW r \in DomRows, row' = [row EXCEPT ![op[x].name] = r],
               row[op[x].name].id = op[x].id,
               r.id = row[op[x].name].id, r.dep = row[op[x].name].dep,
               r.cred = row[op[x].name].cred,
               r.status = op[x].status, r.verified <=> r.status = "active"
        PROVE  RowsInv' /\ Keeps
    <3>1. r.cred \in creds \cup {None}
      BY <1>0, <1>1, <2>1 DEF RowsInv
    <3>2. r.status = "active" => r.id \in matched'
      BY <1>0, <2>1 DEF OpOK
    <3> QED
      BY <1>0, <1>1, <2>1, <3>1, <3>2, RowMoves
  <2>2. ASSUME row' = row PROVE RowsInv' /\ Keeps
    BY <1>0, <2>2, RowsStay
  <2> QED
    BY <2>1, <2>2, ApplyShape
<1>6. OpsInv'
  <2>1. OpOK(op[x], row', matched', ops')
    BY <1>0, <1>5, OpKept
  <2>2. PICK q \in OpRecs, status \in Statuses :
           op' = [op EXCEPT ![x] = q] /\ (Picks(q, op[x], status) \/ Ends(q, op[x]))
    BY <1>1, ApplyShape DEF Statuses
  <2>3. OpOK(q, row', matched', ops')
    BY <1>0, <2>1, <2>2, PicksOK
  <2> QED
    BY <1>0, <1>5, <2>2, <2>3, OpMoves
<1> QED
  BY <1>4, <1>5, <1>6 DEF DomainsInv

(* A create or an auto_configure that goes on, or a create that does not   *)
(* and still rebuilds for a name that is active.                           *)
Proceeds(q, q0) ==
    \/ /\ q.pc \in {"upsert", "persist"} /\ q.kind = q0.kind /\ q.name = q0.name
       /\ q.id = q0.id /\ q.dep = q0.dep /\ q.status = q0.status /\ q.cred \in Creds
    \/ /\ q.pc \in {"idle", "rebuild"} /\ q.id \in {0, q0.id}
       /\ q0.kind = "create" /\ q0.status = "active" => q.pc = "rebuild" /\ q.dep = q0.dep

LEMMA ProceedsOK ==
    ASSUME NEW q0, NEW q, NEW rows, NEW hits, NEW k \in Nat, OpOK(q0, rows, hits, k),
           q0.pc \in {"pick", "upsert", "persist"}, Proceeds(q, q0)
    PROVE  OpOK(q, rows, hits, k)
  BY DEF OpOK, Proceeds

LEMMA PickShape ==
    ASSUME DomainsInv, NEW x \in Callers, PickOnCreate(x)
    PROVE  \E q \in OpRecs : op' = [op EXCEPT ![x] = q] /\ Proceeds(q, op[x])
<1>0. op[x] \in OpRecs /\ OpsInv
  BY DEF DomainsInv, OpsInv
<1>1. ASSUME NEW c \in creds, OpTo(x, [op[x] EXCEPT !.pc = "upsert", !.cred = c])
      PROVE  \E q \in OpRecs : op' = [op EXCEPT ![x] = q] /\ Proceeds(q, op[x])
  <2>1. PICK q \in OpRecs : q = [op[x] EXCEPT !.pc = "upsert", !.cred = c]
    BY <1>0, CredsStored DEF OpRecs, Labels
  <2>2. /\ q.pc = "upsert" /\ q.kind = op[x].kind /\ q.name = op[x].name /\ q.id = op[x].id
        /\ q.dep = op[x].dep /\ q.status = op[x].status /\ q.cred = c
    BY <1>0, <2>1 DEF OpRecs
  <2>3. op' = [op EXCEPT ![x] = q]
    BY <1>1, <2>1 DEF OpTo
  <2> QED
    BY <2>2, <2>3, CredsStored DEF Proceeds
<1>2. ASSUME AfterAuto(x, op[x].status)
      PROVE  \E q \in OpRecs : op' = [op EXCEPT ![x] = q] /\ Proceeds(q, op[x])
  BY <1>0, <1>2, AfterAutoShape DEF Proceeds
<1> QED
  BY <1>1, <1>2 DEF PickOnCreate

LEMMA UpsertShape ==
    ASSUME DomainsInv, NEW x \in Callers, UpsertARecord(x)
    PROVE  /\ \E q \in OpRecs : op' = [op EXCEPT ![x] = q] /\ Proceeds(q, op[x])
           /\ Fault \/ Fine
<1>0. /\ op[x] \in OpRecs /\ OpsInv /\ op[x].cred \in Creds
  BY DEF DomainsInv, OpsInv, UpsertARecord, OpOK
<1>1. ASSUME Goto(x, "persist")
      PROVE  \E q \in OpRecs : op' = [op EXCEPT ![x] = q] /\ Proceeds(q, op[x])
  <2>1. "persist" \in Labels
    BY DEF Labels
  <2>2. PICK q \in OpRecs :
             /\ op' = [op EXCEPT ![x] = q] /\ q.pc = "persist" /\ q.kind = op[x].kind
             /\ q.name = op[x].name /\ q.id = op[x].id /\ q.dep = op[x].dep
             /\ q.status = op[x].status /\ q.cred = op[x].cred
    BY <1>0, <1>1, <2>1, GotoShape
  <2> QED
    BY <1>0, <2>2 DEF Proceeds
<1>2. ASSUME IF op[x].kind = "create" THEN AfterAuto(x, op[x].status) ELSE EndOp(x)
      PROVE  \E q \in OpRecs : op' = [op EXCEPT ![x] = q] /\ Proceeds(q, op[x])
  BY <1>0, <1>2, AfterAutoShape, EndOpShape DEF Proceeds
<1> QED
  BY <1>1, <1>2 DEF UpsertARecord

LEMMA PersistShape ==
    ASSUME DomainsInv, NEW x \in Callers, PersistAuto(x)
    PROVE  /\ op[x].name \in Names
           /\ \/ \E r \in DomRows, q \in OpRecs :
                   LET n == op[x].name IN
                   /\ row' = [row EXCEPT ![n] = r] /\ op' = [op EXCEPT ![x] = q] /\ Fine
                   /\ row[n].id = op[x].id /\ r.id = row[n].id /\ r.dep = row[n].dep
                   /\ r.cred \in creds /\ r.status = "pending" /\ r.verified = FALSE
                   /\ owed' = owed \ {n}
                   /\ q.pc \in {"reread", "idle"} /\ q.id \in {0, op[x].id}
                   /\ q.pc = "reread" => /\ q.kind = op[x].kind /\ q.name = op[x].name
                                         /\ q.id = op[x].id /\ q.dep = op[x].dep
              \/ \E q \in OpRecs :
                   /\ UNCHANGED <<row, owed>> /\ op' = [op EXCEPT ![x] = q] /\ Fine
                   /\ row[op[x].name].id # op[x].id
                   /\ q.pc \in {"reread", "idle"} /\ q.id \in {0, op[x].id}
                   /\ q.pc = "reread" => /\ q.kind = op[x].kind /\ q.name = op[x].name
                                         /\ q.id = op[x].id /\ q.dep = op[x].dep
              \/ \E q \in OpRecs :
                   /\ UNCHANGED <<row, owed>> /\ op' = [op EXCEPT ![x] = q]
                   /\ Fault \/ Fine
                   /\ Proceeds(q, op[x])
<1>0. /\ op[x] \in OpRecs /\ OpsInv /\ RowsInv /\ op[x].cred \in Creds /\ op[x].name \in Names
      /\ op[x].id \in 1 .. MaxOps /\ op[x].id # 0
  BY DomainsAssumption DEF DomainsInv, OpsInv, PersistAuto, OpOK
<1> DEFINE n == op[x].name
<1>1. ASSUME IF op[x].kind = "create" THEN Goto(x, "reread") ELSE EndOp(x)
      PROVE  \E q \in OpRecs :
               /\ op' = [op EXCEPT ![x] = q]
               /\ q.pc \in {"reread", "idle"} /\ q.id \in {0, op[x].id}
               /\ q.pc = "reread" => /\ q.kind = op[x].kind /\ q.name = op[x].name
                                     /\ q.id = op[x].id /\ q.dep = op[x].dep
  <2>1. CASE op[x].kind = "create"
    <3>1. Goto(x, "reread") /\ "reread" \in Labels
      BY <1>1, <2>1 DEF Labels
    <3> QED
      BY <1>0, <3>1, GotoShape
  <2>2. CASE op[x].kind # "create"
    BY <1>1, <2>2, EndOpShape
  <2> QED
    BY <2>1, <2>2
<1>2. CASE /\ op[x].cred \in creds /\ Fine /\ row[n].id = op[x].id
           /\ row' = [row EXCEPT ![n].auto = TRUE, ![n].cred = op[x].cred,
                                 ![n].status = "pending", ![n].verified = FALSE, ![n].age = 0]
           /\ Owe(n, "pending", FALSE)
           /\ IF op[x].kind = "create" THEN Goto(x, "reread") ELSE EndOp(x)
  <2>1. row[n] \in DomRows /\ row \in [Names -> DomRows \cup {NoRow}]
    BY <1>0, <1>2, RowThere DEF RowsInv
  <2>2. PICK z \in 0 .. MaxAge + 1 : z = 0
    BY DomainsAssumption
  <2>3. PICK r \in DomRows : r = [row[n] EXCEPT !.auto = TRUE, !.cred = op[x].cred,
                                    !.status = "pending", !.verified = FALSE, !.age = z]
    BY <1>0, <2>1 DEF DomRows, Statuses
  <2>4. /\ r.id = row[n].id /\ r.dep = row[n].dep /\ r.cred = op[x].cred
        /\ r.status = "pending" /\ r.verified = FALSE
    BY <2>1, <2>3 DEF DomRows
  <2>5. row' = [row EXCEPT ![n] = r]
    <3>1. row' = [row EXCEPT ![n] = [row[n] EXCEPT !.auto = TRUE, !.cred = op[x].cred,
                                    !.status = "pending", !.verified = FALSE, !.age = 0]]
      BY <1>0, <1>2, <2>1
    <3> QED
      BY <2>2, <2>3, <3>1
  <2>6. owed' = owed \ {n}
    BY <1>2 DEF Owe
  <2>7. PICK q \in OpRecs :
               /\ op' = [op EXCEPT ![x] = q]
               /\ q.pc \in {"reread", "idle"} /\ q.id \in {0, op[x].id}
               /\ q.pc = "reread" => /\ q.kind = op[x].kind /\ q.name = op[x].name
                                     /\ q.id = op[x].id /\ q.dep = op[x].dep
    BY <1>1, <1>2
  <2>8. /\ row' = [row EXCEPT ![op[x].name] = r] /\ Fine
        /\ row[op[x].name].id = op[x].id /\ r.id = row[op[x].name].id
        /\ r.dep = row[op[x].name].dep /\ r.cred \in creds
        /\ r.status = "pending" /\ r.verified = FALSE /\ owed' = owed \ {op[x].name}
    BY <1>2, <2>4, <2>5, <2>6
  <2> QED
    BY ONLY <1>0, <2>7, <2>8, r \in DomRows, q \in OpRecs
<1>3. CASE /\ op[x].cred \in creds /\ Fine /\ row[n].id # op[x].id /\ UNCHANGED <<row, owed>>
           /\ IF op[x].kind = "create" THEN Goto(x, "reread") ELSE EndOp(x)
  BY <1>0, <1>1, <1>3
<1>4. CASE /\ IF op[x].cred \in creds THEN Fault ELSE Fine
           /\ UNCHANGED <<row, owed>>
           /\ IF op[x].kind = "create" THEN AfterAuto(x, op[x].status) ELSE EndOp(x)
  <2>1. \E q \in OpRecs : op' = [op EXCEPT ![x] = q] /\ Proceeds(q, op[x])
    BY <1>0, <1>4, AfterAutoShape, EndOpShape DEF Proceeds
  <2>2. (Fault \/ Fine) /\ UNCHANGED <<row, owed>>
    BY <1>4
  <2> QED
    BY <1>0, <2>1, <2>2
<1> QED
  BY <1>2, <1>3, <1>4 DEF PersistAuto

LEMMA PickStep == ASSUME DomainsInv, NEW x \in Callers, PickOnCreate(x) PROVE DomainsInv'
<1>0. /\ UNCHANGED <<row, zone, vault, removing, ver, rebakes, baked, alive, matched, owed,
                     ops, faults>>
      /\ op[x].pc = "pick"
  BY DEF PickOnCreate, marks
<1>r. /\ OpOK(op[x], row, matched, ops) /\ ops \in Nat /\ ops <= ops
      /\ ops \in 0 .. MaxOps /\ faults \in 0 .. MaxFaults /\ matched \subseteq 1 .. MaxOps
  BY DomainsAssumption DEF DomainsInv, OpsInv, RestInv
<1>1. PICK q \in OpRecs : op' = [op EXCEPT ![x] = q] /\ Proceeds(q, op[x])
  BY PickShape
<1>2. OpOK(q, row, matched', ops')
  BY <1>0, <1>r, <1>1, ProceedsOK
<1> QED
  BY <1>0, <1>r, <1>1, <1>2, OpOnly

(* A step that also writes the zone.                                       *)
LEMMA OpAndZone ==
    ASSUME DomainsInv, NEW x \in Callers, NEW q \in OpRecs, op' = [op EXCEPT ![x] = q],
           UNCHANGED <<row, vault, removing, ver, rebakes, baked, alive, matched, owed, ops>>,
           ZoneInv', faults' \in 0 .. MaxFaults, OpOK(q, row, matched, ops)
    PROVE  DomainsInv'
<1>0. ops' \in Nat /\ ops <= ops'
  BY DomainsAssumption DEF DomainsInv, RestInv
<1>1. RowsInv' /\ Keeps
  BY <1>0, RowsStay
<1>2. OpOK(q, row', matched', ops')
  OBVIOUS
<1>3. OpsInv'
  BY <1>0, <1>1, <1>2, OpMoves
<1>4. RestInv'
  BY DEF DomainsInv, RestInv
<1> QED
  BY <1>1, <1>3, <1>4, VerStays DEF DomainsInv

LEMMA UpsertStep == ASSUME DomainsInv, NEW x \in Callers, UpsertARecord(x) PROVE DomainsInv'
<1>0. /\ UNCHANGED <<row, seen, edits, vault, removing, ver, rebakes, baked, alive, matched,
                     owed, ops>>
      /\ op[x].pc = "upsert" /\ OpOK(op[x], row, matched, ops) /\ ops \in Nat /\ RestInv
      /\ op[x].cred \in Creds
  BY DomainsAssumption DEF UpsertARecord, DomainsInv, OpsInv, RestInv, marks, OpOK
<1>1. PICK q \in OpRecs : op' = [op EXCEPT ![x] = q] /\ Proceeds(q, op[x])
  BY UpsertShape
<1>2. OpOK(q, row, matched, ops)
  BY <1>0, <1>1, ProceedsOK
<1>3. ZoneInv'
  <2>1. CASE UNCHANGED record
    BY <1>0, <2>1 DEF DomainsInv, ZoneInv
  <2>2. CASE record' = [record EXCEPT ![op[x].name] = "ours"]
    BY <1>0, <2>2 DEF DomainsInv, ZoneInv, Hosts
  <2> QED
    BY <2>1, <2>2 DEF UpsertARecord
<1>4. faults' \in 0 .. MaxFaults
  BY <1>0, UpsertShape, FaultCounts
<1> QED
  BY <1>0, <1>1, <1>2, <1>3, <1>4, OpAndZone

LEMMA PersistStep == ASSUME DomainsInv, NEW x \in Callers, PersistAuto(x) PROVE DomainsInv'
<1>0. /\ UNCHANGED <<zone, vault, removing, ver, rebakes, baked, alive, matched, ops>>
      /\ op[x].pc = "persist" /\ OpOK(op[x], row, matched, ops) /\ ops \in Nat /\ ops <= ops
      /\ RestInv /\ op[x].name \in Names
  BY DomainsAssumption DEF PersistAuto, DomainsInv, OpsInv, RestInv, OpOK
<1>2. owed' \subseteq Names
  BY <1>0, PersistShape DEF RestInv
<1>3. faults' \in 0 .. MaxFaults
  BY <1>0, PersistShape, FaultCounts
<1>4. ZoneInv' /\ RestInv' /\ VerInv'
  BY <1>0, <1>2, <1>3, VerStays DEF DomainsInv, ZoneInv, RestInv, zone
<1>5. RowsInv' /\ Keeps
  <2>1. ASSUME NEW r \in DomRows, row' = [row EXCEPT ![op[x].name] = r],
               r.id = row[op[x].name].id, r.dep = row[op[x].name].dep,
               r.cred \in creds, r.status = "pending", r.verified = FALSE
        PROVE  RowsInv' /\ Keeps
    <3>1. r.status # "active" /\ ~r.verified
      BY <2>1
    <3> QED
      BY <1>0, <2>1, <3>1, RowMoves
  <2>2. ASSUME row' = row PROVE RowsInv' /\ Keeps
    BY <1>0, <2>2, RowsStay
  <2> QED
    BY <2>1, <2>2, PersistShape
<1>6. OpsInv'
  <2>1. OpOK(op[x], row', matched', ops')
    BY <1>0, <1>5, OpKept
  <2>2. PICK q \in OpRecs :
          /\ op' = [op EXCEPT ![x] = q]
          /\ \/ /\ q.pc \in {"reread", "idle"} /\ q.id \in {0, op[x].id}
                /\ q.pc = "reread" => /\ q.kind = op[x].kind /\ q.name = op[x].name
                                      /\ q.id = op[x].id /\ q.dep = op[x].dep
             \/ Proceeds(q, op[x])
    BY PersistShape
  <2>3. OpOK(q, row', matched', ops')
    <3>1. CASE Proceeds(q, op[x])
      BY <1>0, <2>1, <3>1, ProceedsOK
    <3>2. CASE ~Proceeds(q, op[x])
      BY <1>0, <2>1, <2>2, <3>2 DEF OpOK
    <3> QED
      BY <3>1, <3>2
  <2> QED
    BY <1>0, <1>5, <2>2, <2>3, OpMoves
<1> QED
  BY <1>4, <1>5, <1>6 DEF DomainsInv

LEMMA RereadStep == ASSUME DomainsInv, NEW x \in Callers, Reread(x) PROVE DomainsInv'
<1>0. UNCHANGED <<row, zone, vault, removing, ver, rebakes, baked, alive, matched, owed, ops,
                  faults>>
  BY DEF Reread, marks
<1>1. /\ OpsInv /\ OpOK(op[x], row, matched, ops) /\ ops \in Nat /\ ops <= ops
      /\ ops \in 0 .. MaxOps /\ faults \in 0 .. MaxFaults /\ matched \subseteq 1 .. MaxOps
  BY DomainsAssumption DEF DomainsInv, OpsInv, RestInv
<1>2. PICK q \in OpRecs : /\ op' = [op EXCEPT ![x] = q] /\ q.pc \in {"idle", "rebuild"}
                          /\ q.id \in {0, op[x].id}
  BY <1>1, AfterAutoShape DEF Reread
<1>3. OpOK(q, row, matched', ops')
  BY <1>0, <1>1, <1>2, LaterOK
<1> QED
  BY <1>0, <1>1, <1>2, <1>3, OpOnly

(* A row goes; what its delete still has to do goes with the request.      *)
LEMMA DeleteShape ==
    ASSUME DomainsInv, NEW x \in Callers, NEW n \in Names, DeleteDomain(x, n)
    PROVE  /\ NewOp(x, op'[x]) /\ op' = [op EXCEPT ![x] = op'[x]] /\ op'[x] \in OpRecs
           /\ op'[x].pc \in {"idle", "cleanup", "rebuild"} /\ op'[x].id = 0
           /\ op'[x].kind \in {None, "delete"}
<1>0. RowsInv /\ op \in [Callers -> OpRecs]
  BY DEF DomainsInv, OpsInv
<1>1. /\ row[n] \in DomRows /\ row[n].dep \in Deps /\ row[n].status \in Statuses
      /\ row[n].cred \in Creds \cup {None}
  BY <1>0, RowThere, LiveThere DEF DeleteDomain
<1>2. PICK l \in {"idle", "cleanup", "rebuild"} :
        NewOp(x, IF l = "idle" THEN NoOp
                 ELSE [NoOp EXCEPT !.pc = l, !.kind = "delete", !.name = n,
                       !.dep = row[n].dep, !.status = row[n].status, !.cred = row[n].cred])
  BY DEF DeleteDomain, AfterDelete
<1>3. PICK q \in OpRecs : /\ NewOp(x, q) /\ q.pc \in {"idle", "cleanup", "rebuild"} /\ q.id = 0
                          /\ q.kind \in {None, "delete"}
  <2>1. CASE l = "idle"
    BY <1>2, <2>1, NoOpFields
  <2>2. CASE l # "idle"
    <3>1. PICK q \in OpRecs : q = [NoOp EXCEPT !.pc = l, !.kind = "delete", !.name = n,
                       !.dep = row[n].dep, !.status = row[n].status, !.cred = row[n].cred]
      BY <1>1, NoOpFields DEF OpRecs, Labels
    <3>2. q.pc = l /\ q.id = 0 /\ q.kind = "delete"
      BY <3>1, NoOpFields DEF OpRecs
    <3>3. NewOp(x, q)
      BY <1>2, <2>2, <3>1
    <3> QED
      BY <3>2, <3>3
  <2> QED
    BY <2>1, <2>2
<1>4. op' = [op EXCEPT ![x] = q] /\ op'[x] = q
  BY <1>0, <1>3 DEF NewOp
<1> QED
  BY <1>3, <1>4

LEMMA DeleteStep ==
    ASSUME DomainsInv, NEW x \in Callers, NEW n \in Names, DeleteDomain(x, n)
    PROVE  DomainsInv'
<1>0. /\ UNCHANGED <<zone, vault, removing, ver, rebakes, baked, alive, matched, faults>>
      /\ row' = [row EXCEPT ![n] = NoRow] /\ owed' = owed \ {n}
  BY DEF DeleteDomain
<1>1. PICK q \in OpRecs : /\ NewOp(x, q) /\ op' = [op EXCEPT ![x] = q]
                          /\ q.pc \in {"idle", "cleanup", "rebuild"} /\ q.id = 0
  BY DeleteShape
<1>2. ops' \in 0 .. MaxOps /\ ops' \in Nat /\ ops <= ops'
  BY <1>1, OpStarts
<1>3. /\ row'[n] = NoRow /\ \A m \in Names \ {n} : row'[m] = row[m]
      /\ row' \in [Names -> DomRows \cup {NoRow}]
  BY <1>0 DEF DomainsInv, RowsInv
<1>4. RowsInv' /\ Keeps
  <2>1. creds' = creds
    BY <1>0 DEF creds
  <2>2. \A m \in Names : row'[m].id \in Nat /\ row'[m].id <= ops'
    <3>1. \A m \in Names : row[m].id \in Nat /\ row[m].id <= ops /\ ops \in Nat
      BY NoRowFields, DomainsAssumption DEF DomainsInv, RowsInv, DomRows, RestInv
    <3> QED
      BY <1>2, <1>3, <3>1, NoRowFields
  <2>3. RowsInv'
    BY <1>0, <1>3, <2>1, <2>2, NoRowFields DEF DomainsInv, RowsInv
  <2>4. Keeps
    BY <1>3, NoRowFields, DomainsAssumption DEF Keeps
  <2> QED
    BY <2>3, <2>4
<1>5. OpOK(q, row', matched', ops')
  BY <1>1, <1>2 DEF OpOK
<1>6. OpsInv'
  BY <1>0, <1>1, <1>2, <1>4, <1>5, OpMoves
<1>7. ZoneInv' /\ RestInv' /\ VerInv'
  BY <1>0, <1>2, VerStays DEF DomainsInv, ZoneInv, RestInv, zone
<1> QED
  BY <1>4, <1>6, <1>7 DEF DomainsInv

LEMMA CleanupShape ==
    ASSUME DomainsInv, NEW x \in Callers, CleanupAutoConfiguredRecord(x)
    PROVE  /\ \E q \in OpRecs : /\ op' = [op EXCEPT ![x] = q] /\ q.pc \in {"idle", "rebuild"}
                                /\ q.id \in {0, op[x].id}
           /\ Fault \/ Fine
<1>1. IF AfterDelete(op[x].status) = "idle" THEN EndOp(x) ELSE Goto(x, "rebuild")
  BY DEF CleanupAutoConfiguredRecord
<1>2. OpsInv /\ "rebuild" \in Labels
  BY DEF DomainsInv, Labels
<1>3. Fault \/ Fine
  BY DEF CleanupAutoConfiguredRecord
<1> QED
  BY <1>1, <1>2, <1>3, EndOpShape, GotoShape

LEMMA CleanupStep ==
    ASSUME DomainsInv, NEW x \in Callers, CleanupAutoConfiguredRecord(x) PROVE DomainsInv'
<1>0. UNCHANGED <<row, seen, edits, vault, removing, ver, rebakes, baked, alive, matched,
                  owed, ops>>
  BY DEF CleanupAutoConfiguredRecord, marks
<1>1. OpOK(op[x], row, matched, ops) /\ ops \in Nat /\ RestInv
  BY DomainsAssumption DEF DomainsInv, OpsInv, RestInv
<1>2. PICK q \in OpRecs : /\ op' = [op EXCEPT ![x] = q] /\ q.pc \in {"idle", "rebuild"}
                          /\ q.id \in {0, op[x].id}
  BY CleanupShape
<1>3. OpOK(q, row, matched, ops)
  BY <1>1, <1>2, LaterOK
<1>4. ZoneInv'
  <2>1. CASE UNCHANGED record
    BY <1>0, <2>1 DEF DomainsInv, ZoneInv
  <2>2. CASE record' = [record EXCEPT ![op[x].name] = None]
    BY <1>0, <2>2 DEF DomainsInv, ZoneInv, Hosts
  <2> QED
    BY <2>1, <2>2 DEF CleanupAutoConfiguredRecord
<1>5. faults' \in 0 .. MaxFaults
  BY <1>1, CleanupShape, FaultCounts
<1> QED
  BY <1>0, <1>2, <1>3, <1>4, <1>5, OpAndZone

(* The read of a rebuild, and the container it creates.                    *)
LEMMA OriginsShape ==
    ASSUME DomainsInv, NEW x \in Callers, ReadOrigins(x)
    PROVE  \E q \in OpRecs :
             /\ op' = [op EXCEPT ![x] = q] /\ q.id \in {0, op[x].id}
             /\ q.pc \in {"idle", "recreate"}
             /\ op[x].dep \in alive => q.pc = "recreate" /\ q.dep = op[x].dep
                                       /\ q.got = ActiveOf(op[x].dep)
<1>0. op[x] \in OpRecs
  BY DEF DomainsInv, OpsInv
<1>1. CASE op[x].dep \in alive
  <2>1. PICK s \in SUBSET Names : s = ActiveOf(op[x].dep)
    BY DEF ActiveOf
  <2>2. PICK q \in OpRecs : q = [op[x] EXCEPT !.pc = "recreate", !.got = s]
    BY <1>0 DEF OpRecs, Labels
  <2>3. q.pc = "recreate" /\ q.dep = op[x].dep /\ q.got = s /\ q.id = op[x].id
    BY <1>0, <2>2 DEF OpRecs
  <2>4. op' = [op EXCEPT ![x] = q]
    BY <1>1, <2>1, <2>2 DEF ReadOrigins, OpTo
  <2> QED
    BY <2>1, <2>3, <2>4
<1>2. CASE op[x].dep \notin alive
  BY <1>2, EndOpShape DEF ReadOrigins
<1> QED
  BY <1>1, <1>2

LEMMA OriginsStep == ASSUME DomainsInv, NEW x \in Callers, ReadOrigins(x) PROVE DomainsInv'
<1>0. UNCHANGED <<row, zone, vault, removing, ver, rebakes, baked, alive, matched, owed, ops,
                  faults>>
  BY DEF ReadOrigins, marks
<1>1. /\ OpOK(op[x], row, matched, ops) /\ ops \in Nat /\ ops <= ops
      /\ ops \in 0 .. MaxOps /\ faults \in 0 .. MaxFaults /\ matched \subseteq 1 .. MaxOps
  BY DomainsAssumption DEF DomainsInv, OpsInv, RestInv
<1>2. PICK q \in OpRecs : /\ op' = [op EXCEPT ![x] = q] /\ q.pc \in {"idle", "recreate"}
                          /\ q.id \in {0, op[x].id}
  BY OriginsShape
<1>3. OpOK(q, row, matched', ops')
  BY <1>0, <1>1, <1>2, LaterOK
<1> QED
  BY <1>0, <1>1, <1>2, <1>3, OpOnly

LEMMA BakeKeeps ==
    ASSUME RestInv, NEW d, NEW got \in SUBSET Names, Bake(d, got)
    PROVE  /\ baked' \in [Deps -> SUBSET Names] /\ owed' \subseteq owed
           /\ owed' \subseteq Names /\ faults' \in 0 .. MaxFaults
<1>1. faults' \in 0 .. MaxFaults
  BY FaultCounts DEF Bake
<1>2. owed' \subseteq owed
  BY DEF Bake
<1>3. baked' \in [Deps -> SUBSET Names]
  BY DEF Bake, RestInv
<1> QED
  BY <1>1, <1>2, <1>3 DEF RestInv

LEMMA RebuildStep == ASSUME DomainsInv, NEW x \in Callers, Rebuild(x) PROVE DomainsInv'
<1>0. /\ UNCHANGED <<row, zone, vault, removing, ver, rebakes, alive, matched, ops>>
      /\ Bake(op[x].dep, op[x].got) /\ EndOp(x)
  BY DEF Rebuild
<1>1. /\ op[x] \in OpRecs /\ OpOK(op[x], row, matched, ops) /\ ops \in Nat /\ ops <= ops
      /\ RestInv /\ op[x].got \in SUBSET Names
  BY DomainsAssumption DEF DomainsInv, OpsInv, RestInv, OpRecs
<1>2. RowsInv' /\ Keeps
  BY <1>0, <1>1, RowsStay
<1>3. RestInv' /\ ZoneInv' /\ VerInv'
  BY <1>0, <1>1, BakeKeeps, VerStays DEF RestInv, ZoneInv, DomainsInv, zone
<1>4. PICK q \in OpRecs : op' = [op EXCEPT ![x] = q] /\ q = NoOp
  BY <1>0, EndOpShape
<1>5. OpOK(q, row', matched', ops')
  BY <1>0, <1>1, <1>4, NoOpOK
<1>6. OpsInv'
  BY <1>0, <1>1, <1>2, <1>4, <1>5, OpMoves
<1> QED
  BY <1>2, <1>3, <1>6 DEF DomainsInv

----------------------------------------------------------------------------
(* The sweep: its list has one entry for each name ...                     *)
LEMMA LoadStep == ASSUME DomainsInv, LoadPending PROVE DomainsInv'
<1>0. /\ UNCHANGED <<row, zone, vault, removing, op, rebakes, baked, alive, matched, owed, ops,
                     faults>>
      /\ ver = NoSweep
  BY DEF LoadPending, marks
<1>1. RowsInv /\ RestInv
  BY DEF DomainsInv
<1> DEFINE s == {[name |-> n, id |-> row[n].id, aged |-> row[n].age > MaxAge] :
                   n \in {m \in Names : PendingAuto(m)}}
<1>2. s \in SUBSET Entry
  <2>1. ASSUME NEW n \in Names, PendingAuto(n) PROVE row[n].id \in 1 .. MaxOps
    BY <1>1, <2>1, RowThere, NoRowFields DEF PendingAuto
  <2>2. ASSUME NEW n \in Names, PendingAuto(n)
        PROVE  [name |-> n, id |-> row[n].id, aged |-> row[n].age > MaxAge] \in Entry
    <3>1. row[n].age \in Nat
      BY <1>1, NoRowFields, DomainsAssumption DEF RowsInv, DomRows
    <3>2. (row[n].age > MaxAge) \in BOOLEAN
      BY <3>1, DomainsAssumption
    <3>3. ASSUME NEW b \in BOOLEAN
          PROVE  [name |-> n, id |-> row[n].id, aged |-> b] \in Entry
      BY <2>1, <2>2 DEF Entry
    <3> QED
      BY <3>2, <3>3
  <2> QED
    BY <2>2
<1>3. \A t, u \in s : t.name = u.name => t = u
  OBVIOUS
<1>4. \A t \in s : t.name # None
  BY DomainsAssumption
<1>5. ver' = [NoSweep EXCEPT !.todo = s]
  BY <1>0 DEF LoadPending
<1> HIDE DEF s
<1>6. PICK v \in Sweeps : v = [NoSweep EXCEPT !.todo = s]
  BY <1>2, NoSweepFields DEF Sweeps
<1>7. v.todo = s /\ v.cur = None /\ v.found = FALSE
  BY <1>6, NoSweepFields DEF Sweeps
<1>8. VerInv'
  BY <1>3, <1>4, <1>5, <1>6, <1>7 DEF VerInv
<1>9. RowsInv' /\ Keeps
  <2>1. ops' \in Nat /\ ops <= ops' /\ matched \subseteq matched'
    BY <1>0, <1>1, DomainsAssumption DEF RestInv
  <2> QED
    BY <1>0, <2>1, RowsStay
<1>10. OpsInv' /\ ZoneInv' /\ RestInv'
  BY <1>0, <1>9, OpsStay DEF DomainsInv, ZoneInv, RestInv, zone
<1> QED
  BY <1>8, <1>9, <1>10 DEF DomainsInv

(* ... a lookup that matches is a match of the entry's row ...             *)
LEMMA CheckStep == ASSUME DomainsInv, NEW t \in ver.todo, CheckLookup(t) PROVE DomainsInv'
<1>0. UNCHANGED <<row, zone, vault, removing, op, rebakes, baked, alive, owed, ops>>
  BY DEF CheckLookup
<1>1. /\ RowsInv /\ RestInv /\ VerInv /\ ver \in Sweeps /\ t \in Entry
      /\ t.id \in 1 .. MaxOps /\ t.id \in 0 .. MaxOps /\ t.name \in Names
  BY DomainsAssumption DEF DomainsInv, VerInv, Sweeps, Entry
<1>2. PICK v \in Statuses :
        /\ Lookup(t.name, v) /\ Matched(t.id, v)
        /\ ver' = [ver EXCEPT !.cur = t.name, !.id = t.id, !.found = (v = "active")]
  BY DEF CheckLookup
<1>3. PICK b \in BOOLEAN : b = (v = "active")
  OBVIOUS
<1>4. PICK w \in Sweeps : w = [ver EXCEPT !.cur = t.name, !.id = t.id, !.found = b]
  BY <1>1 DEF Sweeps
<1>5. w.todo = ver.todo /\ w.cur = t.name /\ w.id = t.id /\ w.found = b /\ ver' = w
  BY <1>1, <1>2, <1>3, <1>4 DEF Sweeps
<1>6. /\ matched \subseteq matched' /\ (b => t.id \in matched')
      /\ matched' \subseteq matched \cup {t.id}
  BY <1>2, <1>3 DEF Matched
<1>7. VerInv'
  <2>1. \A u \in ver.todo : u.name = t.name => u = t
    BY <1>1 DEF VerInv
  <2> QED
    BY <1>1, <1>4, <1>5, <1>6, <2>1 DEF VerInv
<1>8. RowsInv' /\ Keeps
  <2>1. ops' \in Nat /\ ops <= ops'
    BY <1>0, <1>1, DomainsAssumption DEF RestInv
  <2> QED
    BY <1>0, <1>6, <2>1, RowsStay
<1>9. faults' \in 0 .. MaxFaults
  BY <1>1, <1>2, FaultCounts DEF Lookup
<1>10. OpsInv'
  BY <1>0, <1>6, <1>8, OpsStay
<1>11. ZoneInv' /\ RestInv'
  <2>1. matched' \subseteq 1 .. MaxOps
    BY <1>1, <1>6 DEF RestInv
  <2> QED
    BY <1>0, <1>9, <2>1 DEF DomainsInv, ZoneInv, RestInv, zone
<1> QED
  BY <1>7, <1>8, <1>10, <1>11 DEF DomainsInv

(* ... and what it writes goes to that row, found by its id.               *)
LEMMA SweepWrites ==
    ASSUME DomainsInv, NEW t \in ver.todo, ver' = Next1(t),
           UNCHANGED <<zone, vault, removing, op, baked, alive, matched, ops, faults>>,
           rebakes' \in [Rebakers -> Tasks], owed' \subseteq Names,
           \/ row' = row
           \/ /\ row[t.name].id = t.id /\ row[t.name].status = "pending"
              /\ \E r \in DomRows :
                   /\ row' = [row EXCEPT ![t.name] = r]
                   /\ r.id = row[t.name].id /\ r.dep = row[t.name].dep
                   /\ r.cred = row[t.name].cred
                   /\ r.verified <=> r.status = "active"
                   /\ r.status = "active" => r.id \in matched
    PROVE  DomainsInv'
<1>0. /\ t.name \in Names /\ RowsInv /\ RestInv /\ ops' \in Nat /\ ops <= ops'
      /\ matched \subseteq matched'
  BY DomainsAssumption DEF DomainsInv, VerInv, Sweeps, Entry, RestInv
<1>1. RowsInv' /\ Keeps
  <2>1. CASE row' = row
    BY <1>0, <2>1, RowsStay
  <2>2. CASE row' # row
    <3>1. PICK r \in DomRows :
                   /\ row' = [row EXCEPT ![t.name] = r]
                   /\ r.id = row[t.name].id /\ r.dep = row[t.name].dep
                   /\ r.cred = row[t.name].cred
                   /\ r.verified <=> r.status = "active"
                   /\ r.status = "active" => r.id \in matched
      BY <2>2
    <3>2. r.cred \in creds \cup {None}
      BY <1>0, <3>1 DEF RowsInv
    <3> QED
      BY <1>0, <3>1, <3>2, RowMoves
  <2> QED
    BY <2>1, <2>2
<1>2. OpsInv' /\ VerInv'
  BY <1>0, <1>1, OpsStay, VerNext
<1>3. ZoneInv' /\ RestInv'
  BY DEF DomainsInv, ZoneInv, RestInv, zone
<1> QED
  BY <1>1, <1>2, <1>3 DEF DomainsInv

LEMMA MarkFailedStep == ASSUME DomainsInv, NEW t \in ver.todo, MarkFailed(t) PROVE DomainsInv'
<1>0. /\ UNCHANGED <<zone, vault, removing, op, rebakes, baked, alive, matched, owed, ops,
                     faults>>
      /\ ver' = Next1(t)
  BY DEF MarkFailed, marks
<1>1. /\ t.name \in Names /\ RowsInv /\ rebakes' \in [Rebakers -> Tasks] /\ owed' \subseteq Names
  BY <1>0 DEF DomainsInv, VerInv, Sweeps, Entry, RestInv
<1>2. CASE row' = row
  BY <1>0, <1>1, <1>2, SweepWrites
<1>3. CASE row' # row
  <2>1. /\ row[t.name].id = t.id /\ row[t.name].status = "pending"
        /\ row' = [row EXCEPT ![t.name].status = "failed", ![t.name].age = 0]
    BY <1>3 DEF MarkFailed
  <2>2. row[t.name] \in DomRows
    BY <1>1, <2>1, NoRowFields, RowThere
  <2>3. PICK z \in 0 .. MaxAge + 1 : z = 0
    BY DomainsAssumption
  <2>4. PICK r \in DomRows : r = [row[t.name] EXCEPT !.status = "failed", !.age = z]
    BY <2>2 DEF DomRows, Statuses
  <2>5. /\ r.id = row[t.name].id /\ r.dep = row[t.name].dep /\ r.cred = row[t.name].cred
        /\ r.status = "failed" /\ r.verified = row[t.name].verified
    BY <2>2, <2>4 DEF DomRows
  <2>6. row' = [row EXCEPT ![t.name] = r]
    BY <1>1, <2>1, <2>3, <2>4 DEF RowsInv
  <2>7. r.verified <=> r.status = "active"
    BY <1>1, <2>1, <2>5 DEF RowsInv
  <2>8. r.status # "active"
    BY <2>5
  <2> QED
    BY <1>0, <1>1, <2>1, <2>5, <2>6, <2>7, <2>8, SweepWrites
<1> QED
  BY <1>2, <1>3

LEMMA RecordErrorStep ==
    ASSUME DomainsInv, NEW t \in ver.todo, RecordPendingError(t) PROVE DomainsInv'
<1>0. /\ UNCHANGED <<zone, vault, removing, op, rebakes, baked, alive, matched, owed, ops,
                     faults>>
      /\ ver' = Next1(t)
  BY DEF RecordPendingError, marks
<1>1. /\ t.name \in Names /\ RowsInv /\ rebakes' \in [Rebakers -> Tasks] /\ owed' \subseteq Names
  BY <1>0 DEF DomainsInv, VerInv, Sweeps, Entry, RestInv
<1>2. CASE row' = row
  BY <1>0, <1>1, <1>2, SweepWrites
<1>3. CASE row' # row
  <2>1. /\ row[t.name].id = t.id /\ row[t.name].status = "pending"
        /\ row' = [row EXCEPT ![t.name].age = 0]
    BY <1>3 DEF RecordPendingError, StillPending
  <2>2. row[t.name] \in DomRows
    BY <1>1, <2>1, NoRowFields, RowThere
  <2>3. PICK z \in 0 .. MaxAge + 1 : z = 0
    BY DomainsAssumption
  <2>4. PICK r \in DomRows : r = [row[t.name] EXCEPT !.age = z]
    BY <2>2 DEF DomRows
  <2>5. /\ r.id = row[t.name].id /\ r.dep = row[t.name].dep /\ r.cred = row[t.name].cred
        /\ r.status = row[t.name].status /\ r.verified = row[t.name].verified
    BY <2>2, <2>4 DEF DomRows
  <2>6. row' = [row EXCEPT ![t.name] = r]
    BY <1>1, <2>1, <2>3, <2>4 DEF RowsInv
  <2>7. r.verified <=> r.status = "active"
    BY <1>1, <2>5 DEF RowsInv
  <2>8. r.status # "active"
    BY <2>1, <2>5
  <2> QED
    BY <1>0, <1>1, <2>1, <2>5, <2>6, <2>7, <2>8, SweepWrites
<1> QED
  BY <1>2, <1>3

LEMMA FlipShape ==
    ASSUME DomainsInv, NEW t \in ver.todo, FlipToActive(t)
    PROVE  /\ t.name \in Names
           /\ \/ UNCHANGED <<row, rebakes, owed>>
              \/ \E r \in DomRows, g \in Rebakers, k \in Tasks :
                   /\ row[t.name].id = t.id /\ row[t.name].status = "pending"
                   /\ row' = [row EXCEPT ![t.name] = r]
                   /\ r.id = row[t.name].id /\ r.dep = row[t.name].dep
                   /\ r.cred = row[t.name].cred
                   /\ r.status = "active" /\ r.verified = TRUE /\ r.id \in matched
                   /\ rebakes[g] = NoTask /\ rebakes' = [rebakes EXCEPT ![g] = k]
                   /\ k.pc = "rebuild" /\ k.dep = r.dep
                   /\ owed' = owed \cup {t.name}
<1>0. t \in Entry /\ t.name \in Names /\ RowsInv /\ VerInv
  BY DEF DomainsInv, VerInv, Sweeps, Entry
<1>1. CASE StillPending(t)
  <2>1. row[t.name].id = t.id /\ row[t.name].status = "pending"
    BY <1>1 DEF StillPending
  <2>2. row[t.name] \in DomRows /\ row[t.name].dep \in Deps
    BY <1>0, <2>1, NoRowFields, RowThere
  <2>3. PICK g \in Rebakers :
          /\ rebakes[g] = NoTask
          /\ row' = [row EXCEPT ![t.name].status = "active", ![t.name].verified = TRUE,
                                ![t.name].age = 0]
          /\ rebakes' = [rebakes EXCEPT ![g] = [pc |-> "rebuild", dep |-> row[t.name].dep,
                                                got |-> {}]]
          /\ owed' = owed \cup {t.name}
    BY <1>1 DEF FlipToActive
  <2>4. PICK z \in 0 .. MaxAge + 1 : z = 0
    BY DomainsAssumption
  <2>5. PICK r \in DomRows : r = [row[t.name] EXCEPT !.status = "active", !.verified = TRUE,
                                                    !.age = z]
    BY <2>2 DEF DomRows, Statuses
  <2>6. /\ r.id = row[t.name].id /\ r.dep = row[t.name].dep /\ r.cred = row[t.name].cred
        /\ r.status = "active" /\ r.verified = TRUE
    BY <2>2, <2>5 DEF DomRows
  <2>7. row' = [row EXCEPT ![t.name] = r]
    BY <1>0, <2>3, <2>4, <2>5 DEF RowsInv
  <2>8. PICK k \in Tasks : k = [pc |-> "rebuild", dep |-> row[t.name].dep, got |-> {}]
    BY <2>2 DEF Tasks
  <2>9. k.pc = "rebuild" /\ k.dep = r.dep /\ rebakes' = [rebakes EXCEPT ![g] = k]
    BY <2>3, <2>6, <2>8
  <2>10. r.id \in matched
    BY <1>0, <2>1, <2>6 DEF VerInv, FlipToActive
  <2> QED
    BY <1>0, <2>1, <2>3, <2>6, <2>7, <2>9, <2>10
<1>2. CASE ~StillPending(t)
  BY <1>0, <1>2 DEF FlipToActive
<1> QED
  BY <1>1, <1>2

LEMMA FlipStep == ASSUME DomainsInv, NEW t \in ver.todo, FlipToActive(t) PROVE DomainsInv'
<1>0. /\ UNCHANGED <<zone, vault, removing, op, baked, alive, matched, ops, faults>>
      /\ ver' = Next1(t)
  BY DEF FlipToActive
<1>1. RestInv
  BY DEF DomainsInv
<1>2. CASE UNCHANGED <<row, rebakes, owed>>
  BY <1>0, <1>1, <1>2, SweepWrites DEF RestInv
<1>3. CASE ~UNCHANGED <<row, rebakes, owed>>
  <2>1. PICK r \in DomRows, g \in Rebakers, k \in Tasks :
                   /\ row[t.name].id = t.id /\ row[t.name].status = "pending"
                   /\ row' = [row EXCEPT ![t.name] = r]
                   /\ r.id = row[t.name].id /\ r.dep = row[t.name].dep
                   /\ r.cred = row[t.name].cred
                   /\ r.status = "active" /\ r.verified = TRUE /\ r.id \in matched
                   /\ rebakes[g] = NoTask /\ rebakes' = [rebakes EXCEPT ![g] = k]
                   /\ k.pc = "rebuild" /\ k.dep = r.dep
                   /\ owed' = owed \cup {t.name}
    BY <1>3, FlipShape, Zenon
  <2>n. t.name \in Names
    BY FlipShape
  <2>2. rebakes' \in [Rebakers -> Tasks] /\ owed' \subseteq Names
    BY <1>1, <2>1, <2>n DEF RestInv
  <2>3. r.verified <=> r.status = "active"
    BY <2>1
  <2> QED
    BY <1>0, <2>1, <2>2, <2>3, SweepWrites
<1> QED
  BY <1>2, <1>3

(* The detached rebuilds.                                                  *)
LEMMA TaskReadShape ==
    ASSUME DomainsInv, NEW g \in Rebakers, RebakeReads(g)
    PROVE  \E k \in Tasks :
             /\ rebakes' = [rebakes EXCEPT ![g] = k]
             /\ rebakes[g].dep \in alive => k.pc = "recreate" /\ k.dep = rebakes[g].dep
                                            /\ k.got = ActiveOf(rebakes[g].dep)
<1>1. CASE rebakes[g].dep \in alive
  <2>1. PICK s \in SUBSET Names : s = ActiveOf(rebakes[g].dep)
    BY DEF ActiveOf
  <2>2. PICK k \in Tasks : k = [pc |-> "recreate", dep |-> rebakes[g].dep, got |-> s]
    BY <1>1 DEF Tasks, DomainsInv, RestInv
  <2>3. k.pc = "recreate" /\ k.dep = rebakes[g].dep /\ k.got = s
    BY <2>2
  <2>4. rebakes' = [rebakes EXCEPT ![g] = k]
    BY <1>1, <2>1, <2>2 DEF RebakeReads
  <2> QED
    BY <2>1, <2>3, <2>4
<1>2. CASE rebakes[g].dep \notin alive
  BY <1>2, NoTaskFields DEF RebakeReads
<1> QED
  BY <1>1, <1>2

(* What is left to show of a step that writes no row.                      *)
LEMMA RestOnly ==
    ASSUME DomainsInv, UNCHANGED <<row, vault, op, ver, matched, ops>>, ZoneInv', RestInv'
    PROVE  DomainsInv'
<1>1. ops' \in Nat /\ ops <= ops' /\ matched \subseteq matched'
  BY DomainsAssumption DEF DomainsInv, RestInv
<1> QED
  BY <1>1, RowsStay, OpsStay, VerStays DEF DomainsInv

LEMMA TaskSteps ==
    ASSUME DomainsInv, NEW g \in Rebakers, RebakeReads(g) \/ RebakeAfterDomainActivation(g)
    PROVE  DomainsInv'
<1>0. RestInv /\ ZoneInv
  BY DEF DomainsInv
<1>1. CASE RebakeReads(g)
  <2>1. UNCHANGED <<row, zone, vault, removing, op, ver, baked, alive, matched, owed, ops,
                    faults>>
    BY <1>1 DEF RebakeReads, marks
  <2>2. rebakes' \in [Rebakers -> Tasks]
    BY <1>0, <1>1, TaskReadShape DEF RestInv
  <2>3. ZoneInv' /\ RestInv'
    BY <1>0, <2>1, <2>2 DEF ZoneInv, RestInv, zone
  <2> QED
    BY <2>1, <2>3, RestOnly
<1>2. CASE RebakeAfterDomainActivation(g)
  <2>1. /\ UNCHANGED <<row, zone, vault, removing, op, ver, alive, matched, ops>>
        /\ Bake(rebakes[g].dep, rebakes[g].got) /\ rebakes' = [rebakes EXCEPT ![g] = NoTask]
    BY <1>2 DEF RebakeAfterDomainActivation
  <2>2. rebakes[g].got \in SUBSET Names /\ rebakes' \in [Rebakers -> Tasks]
    BY <1>0, <2>1, NoTaskFields DEF RestInv, Tasks
  <2>3. /\ baked' \in [Deps -> SUBSET Names] /\ owed' \subseteq Names
        /\ faults' \in 0 .. MaxFaults
    BY <1>0, <2>1, <2>2, BakeKeeps
  <2>4. ZoneInv' /\ RestInv'
    BY <1>0, <2>1, <2>2, <2>3 DEF ZoneInv, RestInv, zone
  <2> QED
    BY <2>1, <2>4, RestOnly
<1> QED
  BY <1>1, <1>2

----------------------------------------------------------------------------
(* Credentials, deployments, time and the zone.                            *)
LEMMA CredentialSteps ==
    ASSUME DomainsInv,
           (\E c \in Creds : CreateCredential(c) \/ CheckInUse(c)) \/ DeleteCredential
    PROVE  DomainsInv'
<1>0. RowsInv /\ ZoneInv /\ RestInv
  BY DEF DomainsInv
<1>1. ASSUME NEW c \in Creds, CheckInUse(c) PROVE DomainsInv'
  <2>1. UNCHANGED <<row, zone, vault, op, ver, rebakes, baked, alive, matched, owed, ops, faults>>
        /\ removing' = c
    BY <1>1 DEF CheckInUse, marks
  <2>2. ZoneInv' /\ RestInv'
    BY <1>0, <2>1 DEF ZoneInv, RestInv, zone
  <2> QED
    BY <2>1, <2>2, RestOnly
<1>2. ASSUME NEW c \in Creds, CreateCredential(c) PROVE DomainsInv'
  <2>1. /\ UNCHANGED <<row, zone, removing, op, ver, rebakes, baked, alive, matched, owed, ops,
                       faults>>
        /\ vault' = [vault EXCEPT ![c] = "live"]
    BY <1>2 DEF CreateCredential, marks
  <2>2. creds \subseteq creds'
    BY <1>0, <2>1 DEF creds, RestInv
  <2>3. RowsInv' /\ Keeps
    BY <1>0, <2>1, <2>2 DEF RowsInv, Keeps
  <2>4. ZoneInv' /\ RestInv'
    BY <1>0, <2>1 DEF ZoneInv, RestInv, zone
  <2> QED
    BY <2>1, <2>3, <2>4, OpsStay, VerStays DEF DomainsInv
<1>3. ASSUME DeleteCredential PROVE DomainsInv'
  <2>1. /\ UNCHANGED <<zone, op, ver, rebakes, baked, alive, matched, owed, ops, faults>>
        /\ vault' = [vault EXCEPT ![removing] = "gone"] /\ removing' = None
        /\ removing \in Creds
        /\ row' = [n \in Names |-> IF row[n].cred = removing
                                   THEN [row[n] EXCEPT !.cred = None] ELSE row[n]]
    BY <1>0, <1>3 DEF DeleteCredential, marks, RestInv
  <2>2. creds' = creds \ {removing}
    BY <1>0, <2>1 DEF creds, RestInv
  <2>3. ASSUME NEW n \in Names
        PROVE  /\ row'[n] \in DomRows \cup {NoRow} /\ row'[n].id = row[n].id
               /\ row'[n].dep = row[n].dep /\ row'[n].status = row[n].status
               /\ row'[n].verified = row[n].verified /\ row'[n].cred \in creds' \cup {None}
    <3>1. CASE row[n].cred = removing
      <4>1. row[n] \in DomRows
        BY <1>0, <2>1, <3>1, NoRowFields, DomainsAssumption DEF RowsInv
      <4>2. PICK r \in DomRows : r = [row[n] EXCEPT !.cred = None]
        BY <4>1 DEF DomRows
      <4>3. /\ r.id = row[n].id /\ r.dep = row[n].dep /\ r.status = row[n].status
            /\ r.verified = row[n].verified /\ r.cred = None
        BY <4>1, <4>2 DEF DomRows
      <4> QED
        BY <2>1, <3>1, <4>2, <4>3
    <3>2. CASE row[n].cred # removing
      <4>1. row'[n] = row[n] /\ row[n].cred \in creds \cup {None}
        BY <1>0, <2>1, <3>2 DEF RowsInv
      <4> QED
        BY <1>0, <2>2, <3>2, <4>1 DEF RowsInv
    <3> QED
      BY <3>1, <3>2
  <2>4. row' \in [Names -> DomRows \cup {NoRow}]
    BY <2>1, <2>3
  <2>5. RowsInv'
    <3>1. matched' = matched /\ ops' = ops
      BY <2>1
    <3> QED
      BY <1>0, <2>3, <2>4, <3>1 DEF RowsInv
  <2>6. Keeps
    BY <2>3 DEF Keeps
  <2>7. ZoneInv' /\ RestInv'
    BY <1>0, <2>1 DEF ZoneInv, RestInv, zone
  <2> QED
    BY <2>1, <2>5, <2>6, <2>7, OpsStay, VerStays DEF DomainsInv
<1> QED
  BY <1>1, <1>2, <1>3

LEMMA AgeShape ==
    ASSUME DomainsInv, RowsAge, NEW n \in Names
    PROVE  /\ row'[n] \in DomRows \cup {NoRow} /\ row'[n].id = row[n].id
           /\ row'[n].dep = row[n].dep /\ row'[n].status = row[n].status
           /\ row'[n].verified = row[n].verified /\ row'[n].cred = row[n].cred
<1>0. RowsInv
  BY DEF DomainsInv
<1>1. CASE PendingAuto(n) /\ row[n].age <= MaxAge
  <2>1. row[n] \in DomRows
    BY <1>0, <1>1, RowThere, NoRowFields DEF PendingAuto
  <2>2. PICK a \in 0 .. MaxAge + 1 : a = row[n].age + 1
    BY <1>1, <2>1, DomainsAssumption DEF DomRows
  <2>3. PICK r \in DomRows : r = [row[n] EXCEPT !.age = a]
    BY <2>1 DEF DomRows
  <2>4. /\ r.id = row[n].id /\ r.dep = row[n].dep /\ r.status = row[n].status
        /\ r.verified = row[n].verified /\ r.cred = row[n].cred
    BY <2>1, <2>3 DEF DomRows
  <2>5. row'[n] = r
    BY <1>1, <2>1, <2>2, <2>3 DEF RowsAge, DomRows
  <2> QED
    BY <2>4, <2>5
<1>2. CASE ~(PendingAuto(n) /\ row[n].age <= MaxAge)
  BY <1>0, <1>2 DEF RowsAge, RowsInv
<1> QED
  BY <1>1, <1>2

LEMMA AgeStep == ASSUME DomainsInv, RowsAge PROVE DomainsInv'
<1>0. /\ UNCHANGED <<zone, vault, removing, op, ver, rebakes, baked, alive, matched, owed, ops,
                     faults>>
      /\ row' = [n \in Names |-> row'[n]] /\ RowsInv /\ RestInv /\ ZoneInv
  BY DEF RowsAge, marks, DomainsInv
<1>1. row' \in [Names -> DomRows \cup {NoRow}]
  BY <1>0, AgeShape
<1>2. creds' = creds
  BY <1>0 DEF creds
<1>3. RowsInv'
  BY <1>0, <1>1, <1>2, AgeShape DEF RowsInv
<1>4. Keeps
  BY AgeShape DEF Keeps
<1>5. ZoneInv' /\ RestInv'
  BY <1>0 DEF ZoneInv, RestInv, zone
<1> QED
  BY <1>0, <1>3, <1>4, <1>5, OpsStay, VerStays DEF DomainsInv

LEMMA WorldSteps ==
    ASSUME DomainsInv,
           \/ \E n \in Names : Propagate(n) \/ \E h \in Hosts : EditRecord(n, h)
           \/ \E d \in Deps : DeleteDeployment(d)
           \/ UNCHANGED domainsVars
    PROVE  DomainsInv'
<1>0. RestInv /\ ZoneInv
  BY DEF DomainsInv
<1>1. UNCHANGED <<row, vault, removing, op, ver, rebakes, baked, matched, owed, ops, faults>>
  BY DEF Propagate, EditRecord, DeleteDeployment, domainsVars, marks
<1>2. alive' \subseteq alive
  BY DEF Propagate, EditRecord, DeleteDeployment, domainsVars
<1>3. RestInv'
  BY <1>0, <1>1, <1>2 DEF RestInv
<1>4. ZoneInv'
  <2>1. ASSUME NEW n \in Names, Propagate(n) PROVE ZoneInv'
    BY <1>0, <2>1 DEF Propagate, ZoneInv
  <2>2. ASSUME NEW n \in Names, NEW h \in Hosts, EditRecord(n, h) PROVE ZoneInv'
    BY <1>0, <2>2, DomainsAssumption DEF EditRecord, ZoneInv
  <2>3. ASSUME UNCHANGED zone PROVE ZoneInv'
    BY <1>0, <2>3 DEF ZoneInv, zone
  <2> QED
    BY <2>1, <2>2, <2>3 DEF DeleteDeployment, domainsVars
<1> QED
  BY <1>1, <1>3, <1>4, RestOnly

LEMMA DiesStep == ASSUME DomainsInv, NodeDies PROVE DomainsInv'
<1>0. /\ UNCHANGED <<row, zone, vault, removing, baked, alive, matched, owed, ops>>
      /\ Fault /\ ver' = NoSweep /\ op' = [x \in Callers |-> NoOp]
      /\ rebakes' = [g \in Rebakers |-> NoTask]
      /\ RestInv /\ ZoneInv
  BY DEF NodeDies, marks, DomainsInv
<1>1. ops' \in Nat /\ ops <= ops' /\ matched \subseteq matched'
  BY <1>0, DomainsAssumption DEF RestInv
<1>2. RowsInv'
  BY <1>0, <1>1, RowsStay
<1>3. OpsInv'
  <2>1. OpOK(NoOp, row', matched', ops')
    BY <1>1, NoOpOK
  <2> QED
    BY <1>0, <2>1, NoOpFields DEF OpsInv
<1>4. VerInv'
  BY <1>0, NoSweepFields DEF VerInv
<1>5. faults' \in 0 .. MaxFaults
  BY <1>0, FaultCounts
<1>6. RestInv' /\ ZoneInv'
  BY <1>0, <1>5, NoTaskFields DEF RestInv, ZoneInv, zone
<1> QED
  BY <1>2, <1>3, <1>4, <1>6 DEF DomainsInv

LEMMA DomainsInitInv == ASSUME DomainsInit PROVE DomainsInv
<1>1. /\ row = [n \in Names |-> NoRow] /\ ver = NoSweep /\ matched = {} /\ ops = 0
      /\ op = [x \in Callers |-> NoOp]
  BY DEF DomainsInit
<1>2. RowsInv
  BY <1>1, NoRowFields DEF RowsInv
<1>3. ZoneInv /\ RestInv
  BY NoTaskFields, DomainsAssumption DEF DomainsInit, ZoneInv, RestInv, Hosts
<1>4. VerInv
  BY <1>1, NoSweepFields DEF VerInv
<1>5. OpsInv
  <2>1. 0 \in Nat
    OBVIOUS
  <2>2. OpOK(NoOp, row, matched, ops)
    BY <1>1, <2>1, NoOpOK
  <2> QED
    BY <1>1, <2>2, NoOpFields DEF OpsInv
<1> QED
  BY <1>2, <1>3, <1>4, <1>5 DEF DomainsInv

LEMMA DomainsNextInv == ASSUME DomainsInv, [DomainsNext]_domainsVars PROVE DomainsInv'
<1>1. ASSUME NEW x \in Callers, Called(x) PROVE DomainsInv'
  BY <1>1, VerifyStep, DeleteStep, CreateStep, AutoStep DEF Called
<1>2. ASSUME NEW x \in Callers, Handler(x) PROVE DomainsInv'
  BY <1>2, LookupStep, ApplyStep, PickStep, UpsertStep, PersistStep, RereadStep, CleanupStep,
     OriginsStep, RebuildStep DEF Handler
<1>3. ASSUME Sweep PROVE DomainsInv'
  BY <1>3, LoadStep, MarkFailedStep, CheckStep, FlipStep, RecordErrorStep DEF Sweep
<1>4. ASSUME Rebakes PROVE DomainsInv'
  BY <1>4, TaskSteps DEF Rebakes
<1> QED
  BY <1>1, <1>2, <1>3, <1>4, CredentialSteps, AgeStep, WorldSteps, DiesStep DEF DomainsNext

(* The inductive invariant of the domain rows, the requests and the sweep. *)
THEOREM DomainsInvariant == DomainsSpec => []DomainsInv
  BY DomainsInitInv, DomainsNextInv, PTL DEF DomainsSpec

(* Requests, the sweep and rebuilds of any number, for any names: an       *)
(* active row is a verified one, and was itself matched by a lookup.       *)
THEOREM VerdictsAlwaysFit == DomainsSpec => []VerdictsFitTheRow
<1>1. ASSUME DomainsInv PROVE VerdictsFitTheRow
  <2>1. RowsInv /\ ZoneInv /\ RestInv /\ OpsInv
    BY <1>1 DEF DomainsInv
  <2>2. ASSUME NEW n \in Names
        PROVE  \/ row[n] = NoRow
               \/ /\ row[n].id \in 1 .. MaxOps /\ row[n].dep \in Deps
                  /\ row[n].status \in Statuses /\ row[n].cred \in creds \cup {None}
                  /\ row[n].age \in 0 .. MaxAge + 1
    BY <2>1 DEF RowsInv, DomRows
  <2>3. \A x \in Callers : op[x].pc \in Labels /\ op[x].got \subseteq Names
    BY <2>1 DEF OpsInv, OpRecs
  <2>4. DomainsTypeOK
    BY <2>1, <2>2, <2>3 DEF DomainsTypeOK, ZoneInv, RestInv
  <2> QED
    BY <2>1, <2>4 DEF VerdictsFitTheRow, RowsInv
<1> QED
  BY <1>1, DomainsInvariant, PTL

----------------------------------------------------------------------------
(* What is owed is kept: by whoever owes it, while the row stays as it is. *)
Same(m) == /\ row'[m].id = row[m].id /\ row'[m].dep = row[m].dep
           /\ row'[m].status = row[m].status

LEMMA OwesSame ==
    ASSUME NEW q, NEW m, Same(m)
    PROVE  /\ Owes(q, m, row) <=> Owes(q, m, row')
           /\ Redoes(q, m, row) <=> Redoes(q, m, row')
  BY DEF Same, Owes, Redoes

LEMMA RiseMoves ==
    ASSUME RiseInv, OpsInv, NEW x \in Callers, NEW q, op' = [op EXCEPT ![x] = q],
           rebakes' = rebakes, alive' \subseteq alive, faults' = 0 => faults = 0,
           \A m \in owed' :
              \/ row'[m].status = "active" /\ Owes(q, m, row')
              \/ /\ m \in owed /\ Same(m)
                 /\ faults' = 0 /\ row[m].dep \in alive' /\ Owes(op[x], m, row)
                       => Owes(q, m, row)
    PROVE  RiseInv'
<1>1. op'[x] = q /\ \A y \in Callers \ {x} : op'[y] = op[y]
  BY DEF OpsInv
<1>2. \A m \in owed' : row'[m].status = "active"
  BY DEF RiseInv, Same
<1>3. ASSUME faults' = 0, NEW m \in owed', row'[m].dep \in alive'
      PROVE  \/ \E y \in Callers : Owes(op'[y], m, row')
             \/ \E g \in Rebakers : Redoes(rebakes'[g], m, row')
  <2>1. CASE Owes(q, m, row')
    BY <1>1, <2>1
  <2>2. CASE /\ m \in owed /\ Same(m)
             /\ faults' = 0 /\ row[m].dep \in alive' /\ Owes(op[x], m, row) => Owes(q, m, row)
    <3>1. faults = 0 /\ row[m].dep \in alive /\ row[m].dep \in alive'
      BY <1>3, <2>2 DEF Same
    <3>2. CASE \E y \in Callers : Owes(op[y], m, row)
      <4>1. PICK y \in Callers : Owes(op[y], m, row)
        BY <3>2
      <4>2. CASE y = x
        BY <1>1, <1>3, <2>2, <3>1, <4>1, <4>2, OwesSame
      <4>3. CASE y # x
        BY <1>1, <2>2, <4>1, <4>3, OwesSame
      <4> QED
        BY <4>2, <4>3
    <3>3. CASE \E g \in Rebakers : Redoes(rebakes[g], m, row)
      BY <2>2, <3>3, OwesSame
    <3> QED
      BY <2>2, <3>1, <3>2, <3>3 DEF RiseInv
  <2> QED
    BY <2>1, <2>2
<1> QED
  BY <1>2, <1>3 DEF RiseInv, Owes, Redoes

LEMMA RiseTasks ==
    ASSUME RiseInv, RestInv, NEW g \in Rebakers, NEW k, rebakes' = [rebakes EXCEPT ![g] = k],
           op' = op, alive' \subseteq alive, faults' = 0 => faults = 0,
           \A m \in owed' :
              \/ row'[m].status = "active" /\ Redoes(k, m, row')
              \/ /\ m \in owed /\ Same(m)
                 /\ faults' = 0 /\ row[m].dep \in alive' /\ Redoes(rebakes[g], m, row)
                       => Redoes(k, m, row)
    PROVE  RiseInv'
<1>1. rebakes'[g] = k /\ \A y \in Rebakers \ {g} : rebakes'[y] = rebakes[y]
  BY DEF RestInv
<1>2. \A m \in owed' : row'[m].status = "active"
  BY DEF RiseInv, Same
<1>3. ASSUME faults' = 0, NEW m \in owed', row'[m].dep \in alive'
      PROVE  \/ \E y \in Callers : Owes(op'[y], m, row')
             \/ \E y \in Rebakers : Redoes(rebakes'[y], m, row')
  <2>1. CASE Redoes(k, m, row')
    BY <1>1, <2>1
  <2>2. CASE /\ m \in owed /\ Same(m)
             /\ faults' = 0 /\ row[m].dep \in alive' /\ Redoes(rebakes[g], m, row)
                   => Redoes(k, m, row)
    <3>1. faults = 0 /\ row[m].dep \in alive /\ row[m].dep \in alive'
      BY <1>3, <2>2 DEF Same
    <3>2. CASE \E y \in Rebakers : Redoes(rebakes[y], m, row)
      <4>1. PICK y \in Rebakers : Redoes(rebakes[y], m, row)
        BY <3>2
      <4>2. CASE y = g
        BY <1>1, <1>3, <2>2, <3>1, <4>1, <4>2, OwesSame
      <4>3. CASE y # g
        BY <1>1, <2>2, <4>1, <4>3, OwesSame
      <4> QED
        BY <4>2, <4>3
    <3>3. CASE \E y \in Callers : Owes(op[y], m, row)
      BY <2>2, <3>3, OwesSame
    <3> QED
      BY <2>2, <3>1, <3>2, <3>3 DEF RiseInv
  <2> QED
    BY <2>1, <2>2
<1> QED
  BY <1>2, <1>3 DEF RiseInv, Owes, Redoes

LEMMA RiseStays ==
    ASSUME RiseInv, UNCHANGED <<op, rebakes, owed>>, alive' \subseteq alive,
           faults' = 0 => faults = 0, \A m \in owed : Same(m)
    PROVE  RiseInv'
<1>1. \A m \in owed' : row'[m].status = "active"
  BY DEF RiseInv, Same
<1>2. ASSUME faults' = 0, NEW m \in owed', row'[m].dep \in alive'
      PROVE  \/ \E y \in Callers : Owes(op'[y], m, row')
             \/ \E g \in Rebakers : Redoes(rebakes'[g], m, row')
  <2>1. m \in owed /\ Same(m) /\ faults = 0 /\ row[m].dep \in alive
    BY <1>2 DEF Same
  <2>2. \/ \E y \in Callers : Owes(op[y], m, row)
        \/ \E g \in Rebakers : Redoes(rebakes[g], m, row)
    BY <2>1 DEF RiseInv
  <2> QED
    BY <2>1, <2>2, OwesSame
<1> QED
  BY <1>1, <1>2 DEF RiseInv, Owes, Redoes

(* A request at a label that owes nothing.                                 *)
LEMMA OwesNothing ==
    ASSUME NEW q, NEW m, NEW rows,
           q.pc \in {"idle", "lookup", "apply", "reread", "cleanup"}
    PROVE  ~Owes(q, m, rows)
  BY DEF Owes, Redoes

LEMMA RiseCalled ==
    ASSUME DomainsInv, RiseInv, NEW x \in Callers, Called(x)
    PROVE  RiseInv'
<1>0. OpsInv /\ RowsInv
  BY DEF DomainsInv
<1>1. ASSUME NEW q, NewOp(x, q), UNCHANGED <<rebakes, alive, faults>>, owed' \subseteq owed,
             \A m \in owed' : Same(m)
      PROVE  RiseInv'
  <2>1. op[x].pc = "idle" /\ op' = [op EXCEPT ![x] = q]
    BY <1>1 DEF NewOp
  <2>2. \A m \in owed' : ~Owes(op[x], m, row)
    BY <2>1, OwesNothing
  <2> QED
    BY <1>0, <1>1, <2>1, <2>2, RiseMoves
<1>2. ASSUME NEW n \in Names, VerifyDomain(x, n) PROVE RiseInv'
  <2>1. UNCHANGED <<row, rebakes, alive, owed, faults>>
    BY <1>2 DEF VerifyDomain, marks
  <2>2. \A m \in owed' : Same(m)
    BY <2>1 DEF Same
  <2>3. \E q : NewOp(x, q)
    BY <1>2 DEF VerifyDomain
  <2> QED
    BY <1>1, <2>1, <2>2, <2>3
<1>3. ASSUME NEW n \in Names, NEW c \in Creds, AutoConfigureDomain(x, n, c) PROVE RiseInv'
  <2>1. UNCHANGED <<row, rebakes, alive, owed, faults>>
    BY <1>3 DEF AutoConfigureDomain, marks
  <2>2. \A m \in owed' : Same(m)
    BY <2>1 DEF Same
  <2>3. \E q : NewOp(x, q)
    BY <1>3 DEF AutoConfigureDomain
  <2> QED
    BY <1>1, <2>1, <2>2, <2>3
<1>4. ASSUME NEW n \in Names, DeleteDomain(x, n) PROVE RiseInv'
  <2>1. /\ UNCHANGED <<rebakes, alive, faults>> /\ owed' = owed \ {n}
        /\ row' = [row EXCEPT ![n] = NoRow]
    BY <1>4 DEF DeleteDomain
  <2>2. \A m \in owed' : Same(m)
    BY <1>0, <2>1 DEF Same, RowsInv
  <2>3. \E q : NewOp(x, q)
    BY <1>4 DEF DeleteDomain
  <2> QED
    BY <1>1, <2>1, <2>2, <2>3
<1>5. ASSUME NEW n \in Names, NEW d \in Deps, CreateDomain(x, n, d) PROVE RiseInv'
  <2>1. /\ UNCHANGED <<rebakes, alive, owed, faults>> /\ row[n] = NoRow
        /\ \E r : row' = [row EXCEPT ![n] = r]
    BY <1>5 DEF CreateDomain, marks
  <2>2. n \notin owed
    BY <2>1, NoRowFields DEF RiseInv
  <2>3. \A m \in owed' : Same(m)
    BY <1>0, <2>1, <2>2 DEF Same, RowsInv
  <2>4. \E q : NewOp(x, q)
    BY <1>5 DEF CreateDomain
  <2> QED
    BY <1>1, <2>1, <2>3, <2>4
<1> QED
  BY <1>2, <1>3, <1>4, <1>5 DEF Called

(* A verdict that its writer takes for a rise leaves a rebuild owed by it. *)
LEMMA RiseApply ==
    ASSUME DomainsInv, RiseInv, NEW x \in Callers, ApplyVerification(x)
    PROVE  RiseInv'
<1>0. /\ OpsInv /\ RowsInv /\ RestInv /\ op[x].pc = "apply" /\ UNCHANGED <<rebakes, alive>>
      /\ OpOK(op[x], row, matched, ops)
  BY DEF DomainsInv, OpsInv, ApplyVerification
<1>1. \A m : ~Owes(op[x], m, row)
  BY <1>0, OwesNothing
<1>2. ASSUME NEW r \in DomRows, NEW q \in OpRecs, NEW n \in Names, n = op[x].name,
             row' = [row EXCEPT ![n] = r], op' = [op EXCEPT ![x] = q], Fine,
             row[n].id = op[x].id, r.id = row[n].id, r.dep = row[n].dep,
             r.status = op[x].status,
             Owe(n, op[x].status, op[x].prior # "active"),
             \/ Picks(q, op[x], op[x].status)
             \/ /\ Ends(q, op[x])
                /\ op[x].prior # "active" /\ op[x].status = "active" =>
                     q.pc = "rebuild" /\ q.dep = op[x].dep
      PROVE  RiseInv'
  <2>1. row'[n] = r /\ \A m \in Names \ {n} : row'[m] = row[m]
    BY <1>0, <1>2 DEF RowsInv
  <2>2. op[x].dep = row[n].dep
    BY <1>0, <1>2 DEF OpOK
  <2>3. op[x].prior # "active" /\ op[x].status = "active" => Owes(q, n, row')
    BY <1>2, <2>1, <2>2 DEF Owes, Redoes, Picks
  <2>4. ASSUME NEW m \in owed'
        PROVE  \/ row'[m].status = "active" /\ Owes(q, m, row')
               \/ m \in owed /\ Same(m)
    <3>1. CASE m # n
      <4>1. m \in owed
        BY <1>2, <2>4, <3>1 DEF Owe, Statuses
      <4> QED
        BY <1>0, <2>1, <3>1, <4>1 DEF Same, RestInv
    <3>2. CASE m = n
      <4>1. op[x].status = "active" /\ row'[n].status = "active"
        BY <1>2, <2>1, <2>4, <3>2 DEF Owe
      <4>2. CASE op[x].prior # "active"
        BY <2>3, <3>2, <4>1, <4>2
      <4>3. CASE op[x].prior = "active"
        <5>1. n \in owed
          BY <1>2, <2>4, <3>2, <4>1, <4>3 DEF Owe
        <5>2. row[n].status = "active"
          BY <5>1 DEF RiseInv
        <5> QED
          BY <1>2, <2>1, <3>2, <4>1, <5>1, <5>2 DEF Same
      <4> QED
        BY <4>2, <4>3
    <3> QED
      BY <3>1, <3>2
  <2>5. faults' = 0 => faults = 0
    BY <1>2 DEF Fine
  <2>6. alive' \subseteq alive
    BY <1>0
  <2> QED
    BY <1>0, <1>1, <1>2, <2>4, <2>5, <2>6, RiseMoves
<1>3. ASSUME NEW q \in OpRecs, UNCHANGED <<row, owed>>, op' = [op EXCEPT ![x] = q],
             Fault \/ Fine
      PROVE  RiseInv'
  <2>1. \A m \in owed' : m \in owed /\ Same(m)
    BY <1>3 DEF Same
  <2>2. faults' = 0 => faults = 0
    BY <1>0, <1>3, FaultCounts
  <2>3. alive' \subseteq alive
    BY <1>0
  <2> QED
    BY <1>0, <1>1, <1>3, <2>1, <2>2, <2>3, RiseMoves
<1> QED
  BY <1>2, <1>3, ApplyShape

LEMMA ProceedsOwes ==
    ASSUME NEW q0, NEW q, NEW m, NEW hits, NEW k, OpOK(q0, row, hits, k),
           q0.pc \in {"pick", "upsert", "persist"}, Proceeds(q, q0), Owes(q0, m, row)
    PROVE  Owes(q, m, row)
<1>1. /\ q0.kind = "create" /\ q0.name = m /\ q0.id = row[m].id /\ q0.status = "active"
      /\ q0.dep = row[m].dep
  BY DEF Owes, Redoes, OpOK
<1> QED
  BY <1>1 DEF Proceeds, Owes, Redoes

(* A request that goes on while rows, deployments and debts stay.          *)
LEMMA RiseGoesOn ==
    ASSUME RiseInv, OpsInv, NEW x \in Callers, NEW q, op' = [op EXCEPT ![x] = q],
           UNCHANGED <<row, owed, rebakes, alive>>, faults' = 0 => faults = 0,
           \A m \in owed : row[m].dep \in alive /\ Owes(op[x], m, row) => Owes(q, m, row)
    PROVE  RiseInv'
<1>1. \A m \in owed' : m \in owed /\ Same(m)
  BY DEF Same
<1>2. alive' \subseteq alive /\ alive' = alive
  OBVIOUS
<1> QED
  BY <1>1, <1>2, RiseMoves

LEMMA RiseMinting ==
    ASSUME DomainsInv, RiseInv, NEW x \in Callers,
           \/ VerifyDomainDNS(x) \/ PickOnCreate(x) \/ UpsertARecord(x) \/ Reread(x)
           \/ CleanupAutoConfiguredRecord(x)
    PROVE  RiseInv'
<1>0. /\ OpsInv /\ RestInv /\ OpOK(op[x], row, matched, ops)
      /\ UNCHANGED <<row, rebakes, alive, owed>>
  BY DEF DomainsInv, OpsInv, VerifyDomainDNS, PickOnCreate, UpsertARecord, Reread,
         CleanupAutoConfiguredRecord, marks
<1>1. Fault \/ Fine => (faults' = 0 => faults = 0)
  BY <1>0, FaultCounts
<1>2. ASSUME op[x].pc \in {"lookup", "reread", "cleanup"}, Fault \/ Fine,
             \E q : op' = [op EXCEPT ![x] = q]
      PROVE  RiseInv'
  <2>1. \A m \in owed : ~Owes(op[x], m, row)
    BY <1>2, OwesNothing
  <2> QED
    BY <1>0, <1>1, <1>2, <2>1, RiseGoesOn
<1>3. ASSUME op[x].pc \in {"pick", "upsert"}, Fault \/ Fine,
             NEW q \in OpRecs, op' = [op EXCEPT ![x] = q], Proceeds(q, op[x])
      PROVE  RiseInv'
  <2>1. \A m \in owed : Owes(op[x], m, row) => Owes(q, m, row)
    BY <1>0, <1>3, ProceedsOwes
  <2> QED
    BY <1>0, <1>1, <1>3, <2>1, RiseGoesOn
<1>4. CASE VerifyDomainDNS(x)
  <2>1. op[x].pc = "lookup" /\ (Fault \/ Fine) /\ \E q : op' = [op EXCEPT ![x] = q]
    BY <1>4 DEF VerifyDomainDNS, Lookup, OpTo
  <2> QED
    BY <1>2, <2>1
<1>5. CASE PickOnCreate(x)
  <2>1. op[x].pc = "pick" /\ Fine
    BY <1>5 DEF PickOnCreate, Fine
  <2> QED
    BY <1>3, <1>5, <2>1, PickShape
<1>6. CASE UpsertARecord(x)
  <2>1. op[x].pc = "upsert"
    BY <1>6 DEF UpsertARecord
  <2> QED
    BY <1>3, <1>6, <2>1, UpsertShape
<1>7. CASE Reread(x)
  <2>1. op[x].pc = "reread" /\ Fine
    BY <1>7 DEF Reread, Fine
  <2>2. \E q : op' = [op EXCEPT ![x] = q]
    BY <1>0, <1>7, AfterAutoShape DEF Reread
  <2> QED
    BY <1>2, <2>1, <2>2
<1>8. CASE CleanupAutoConfiguredRecord(x)
  <2>1. op[x].pc = "cleanup"
    BY <1>8 DEF CleanupAutoConfiguredRecord
  <2> QED
    BY <1>2, <1>8, <2>1, CleanupShape
<1> QED
  BY <1>4, <1>5, <1>6, <1>7, <1>8

(* A row that goes back to pending is owed nothing any more.               *)
LEMMA RisePersist ==
    ASSUME DomainsInv, RiseInv, NEW x \in Callers, PersistAuto(x)
    PROVE  RiseInv'
<1>0. /\ OpsInv /\ RestInv /\ RowsInv /\ OpOK(op[x], row, matched, ops)
      /\ UNCHANGED <<rebakes, alive>> /\ op[x].pc = "persist" /\ op[x].name \in Names
  BY PersistShape DEF DomainsInv, OpsInv, PersistAuto
<1>1. Fault \/ Fine => (faults' = 0 => faults = 0)
  BY <1>0, FaultCounts
<1>2. \A m : Owes(op[x], m, row) => op[x].name = m /\ op[x].id = row[m].id
  BY <1>0 DEF Owes, Redoes
<1>3. ASSUME NEW r \in DomRows, NEW q \in OpRecs, row' = [row EXCEPT ![op[x].name] = r],
             op' = [op EXCEPT ![x] = q], Fine, owed' = owed \ {op[x].name}
      PROVE  RiseInv'
  <2>1. \A m \in owed' : m \in owed /\ m \in Names /\ m # op[x].name
    BY <1>0, <1>3 DEF RestInv
  <2>2. \A m \in owed' : Same(m) /\ ~Owes(op[x], m, row)
    BY <1>0, <1>2, <1>3, <2>1 DEF Same, RowsInv
  <2>3. alive' \subseteq alive
    BY <1>0
  <2> QED
    BY <1>0, <1>1, <1>3, <2>1, <2>2, <2>3, RiseMoves
<1>4. ASSUME NEW q \in OpRecs, UNCHANGED <<row, owed>>, op' = [op EXCEPT ![x] = q], Fine,
             row[op[x].name].id # op[x].id
      PROVE  RiseInv'
  <2>1. \A m \in owed : ~Owes(op[x], m, row)
    BY <1>2, <1>4
  <2> QED
    BY <1>0, <1>1, <1>4, <2>1, RiseGoesOn
<1>5. ASSUME NEW q \in OpRecs, UNCHANGED <<row, owed>>, op' = [op EXCEPT ![x] = q],
             Fault \/ Fine, Proceeds(q, op[x])
      PROVE  RiseInv'
  <2>1. \A m \in owed : Owes(op[x], m, row) => Owes(q, m, row)
    BY <1>0, <1>5, ProceedsOwes
  <2> QED
    BY <1>0, <1>1, <1>5, <2>1, RiseGoesOn
<1> QED
  BY <1>3, <1>4, <1>5, PersistShape

(* A rebuild reads every active name of its deployment, and what it has    *)
(* read it bakes.                                                          *)
LEMMA ActiveIsRead ==
    ASSUME RestInv, RiseInv, NEW m \in owed
    PROVE  m \in ActiveOf(row[m].dep)
  BY DEF RestInv, RiseInv, ActiveOf

LEMMA RiseRebuild ==
    ASSUME DomainsInv, RiseInv, NEW x \in Callers, ReadOrigins(x) \/ Rebuild(x)
    PROVE  RiseInv'
<1>0. OpsInv /\ RestInv
  BY DEF DomainsInv
<1>1. CASE ReadOrigins(x)
  <2>1. /\ UNCHANGED <<row, rebakes, alive, owed, faults>> /\ op[x].pc = "rebuild"
    BY <1>1 DEF ReadOrigins, marks
  <2>2. PICK q \in OpRecs :
             /\ op' = [op EXCEPT ![x] = q]
             /\ op[x].dep \in alive => q.pc = "recreate" /\ q.dep = op[x].dep
                                       /\ q.got = ActiveOf(op[x].dep)
    BY <1>1, OriginsShape
  <2>3. ASSUME NEW m \in owed, row[m].dep \in alive, Owes(op[x], m, row)
        PROVE  Owes(q, m, row)
    <3>1. op[x].dep = row[m].dep
      BY <2>1, <2>3 DEF Owes, Redoes
    <3> QED
      BY <1>0, <2>2, <2>3, <3>1, ActiveIsRead DEF Owes, Redoes
  <2> QED
    BY <1>0, <2>1, <2>2, <2>3, RiseGoesOn
<1>2. CASE Rebuild(x)
  <2>1. /\ UNCHANGED <<row, rebakes, alive>> /\ op[x].pc = "recreate"
        /\ Bake(op[x].dep, op[x].got) /\ op' = [op EXCEPT ![x] = NoOp]
    BY <1>2 DEF Rebuild, EndOp
  <2>2. faults' = 0 => faults = 0 /\ owed' = {n \in owed : n \notin op[x].got
                                                           \/ row[n].dep # op[x].dep}
    BY <1>0, <2>1, FaultCounts DEF Bake
  <2>3. owed' \subseteq owed
    BY <2>1 DEF Bake
  <2>4. ASSUME NEW m \in owed'
        PROVE  m \in owed /\ Same(m) /\ (faults' = 0 => ~Owes(op[x], m, row))
    BY <2>1, <2>2, <2>3, <2>4 DEF Same, Owes, Redoes
  <2>5. alive' \subseteq alive
    BY <2>1
  <2> QED
    BY <1>0, <2>1, <2>2, <2>4, <2>5, RiseMoves
<1> QED
  BY <1>1, <1>2

LEMMA RiseRebakes ==
    ASSUME DomainsInv, RiseInv, NEW g \in Rebakers,
           RebakeReads(g) \/ RebakeAfterDomainActivation(g)
    PROVE  RiseInv'
<1>0. RestInv
  BY DEF DomainsInv
<1>1. CASE RebakeReads(g)
  <2>1. /\ UNCHANGED <<row, op, alive, owed, faults>> /\ rebakes[g].pc = "rebuild"
        /\ alive' \subseteq alive
    BY <1>1 DEF RebakeReads, marks
  <2>2. PICK k \in Tasks :
             /\ rebakes' = [rebakes EXCEPT ![g] = k]
             /\ rebakes[g].dep \in alive => k.pc = "recreate" /\ k.dep = rebakes[g].dep
                                            /\ k.got = ActiveOf(rebakes[g].dep)
    BY <1>1, TaskReadShape
  <2>3. ASSUME NEW m \in owed', row[m].dep \in alive', Redoes(rebakes[g], m, row)
        PROVE  Redoes(k, m, row)
    BY <1>0, <2>1, <2>2, <2>3, ActiveIsRead DEF Redoes
  <2>4. \A m \in owed' : m \in owed /\ Same(m)
    BY <2>1 DEF Same
  <2> QED
    BY <1>0, <2>1, <2>2, <2>3, <2>4, RiseTasks
<1>2. CASE RebakeAfterDomainActivation(g)
  <2>1. /\ UNCHANGED <<row, op, alive>> /\ rebakes[g].pc = "recreate"
        /\ Bake(rebakes[g].dep, rebakes[g].got) /\ rebakes' = [rebakes EXCEPT ![g] = NoTask]
        /\ alive' \subseteq alive
    BY <1>2 DEF RebakeAfterDomainActivation
  <2>2. faults' = 0 => faults = 0 /\ owed' = {n \in owed : n \notin rebakes[g].got
                                                           \/ row[n].dep # rebakes[g].dep}
    BY <1>0, <2>1, FaultCounts DEF Bake
  <2>3. owed' \subseteq owed
    BY <2>1 DEF Bake
  <2>4. ASSUME NEW m \in owed'
        PROVE  m \in owed /\ Same(m) /\ (faults' = 0 => ~Redoes(rebakes[g], m, row))
    BY <2>1, <2>2, <2>3, <2>4 DEF Same, Redoes
  <2> QED
    BY <1>0, <2>1, <2>2, <2>4, RiseTasks
<1> QED
  BY <1>1, <1>2

(* The sweep writes only pending rows, and a flip comes with its rebuild.  *)
LEMMA RiseSweep == ASSUME DomainsInv, RiseInv, Sweep PROVE RiseInv'
<1>0. RestInv /\ RowsInv /\ \A t \in ver.todo : t.name \in Names
  BY DEF DomainsInv, VerInv, Sweeps, Entry
<1>1. CASE LoadPending
  <2>1. UNCHANGED <<row, op, rebakes, owed, alive, faults>> /\ alive' \subseteq alive
    BY <1>1 DEF LoadPending, marks
  <2>2. \A m \in owed : Same(m)
    BY <2>1 DEF Same
  <2> QED
    BY <2>1, <2>2, RiseStays
<1>2. ASSUME NEW t \in ver.todo, CheckLookup(t) PROVE RiseInv'
  <2>1. /\ UNCHANGED <<row, op, rebakes, owed, alive>> /\ alive' \subseteq alive
        /\ Fault \/ Fine
    BY <1>2 DEF CheckLookup, Lookup
  <2>2. \A m \in owed : Same(m)
    BY <2>1 DEF Same
  <2>3. faults' = 0 => faults = 0
    BY <1>0, <2>1, FaultCounts
  <2> QED
    BY <2>1, <2>2, <2>3, RiseStays
<1>3. ASSUME NEW t \in ver.todo, MarkFailed(t) \/ RecordPendingError(t) PROVE RiseInv'
  <2>1. /\ UNCHANGED <<op, rebakes, owed, alive, faults>> /\ alive' \subseteq alive
        /\ t.name \in Names
        /\ \/ row' = row
           \/ row[t.name].status = "pending" /\ \E r : row' = [row EXCEPT ![t.name] = r]
    <3>1. UNCHANGED <<op, rebakes, owed, alive, faults>> /\ alive' \subseteq alive
      BY <1>3 DEF MarkFailed, RecordPendingError, marks
    <3>2. CASE MarkFailed(t)
      BY <1>0, <3>1, <3>2 DEF MarkFailed
    <3>3. CASE RecordPendingError(t)
      BY <1>0, <3>1, <3>3 DEF RecordPendingError, StillPending
    <3> QED
      BY <1>3, <3>2, <3>3
  <2>2. ASSUME NEW m \in owed PROVE Same(m)
    <3>1. m \in Names /\ row[m].status = "active"
      BY <1>0 DEF RestInv, RiseInv
    <3>2. row'[m] = row[m]
      BY <1>0, <2>1, <3>1 DEF RowsInv
    <3> QED
      BY <3>2 DEF Same
  <2> QED
    BY <2>1, <2>2, RiseStays
<1>4. ASSUME NEW t \in ver.todo, FlipToActive(t) PROVE RiseInv'
  <2>1. UNCHANGED <<op, alive, faults>> /\ alive' \subseteq alive
    BY <1>4 DEF FlipToActive
  <2>2. CASE UNCHANGED <<row, rebakes, owed>>
    <3>1. \A m \in owed : Same(m)
      BY <2>2 DEF Same
    <3> QED
      BY <2>1, <2>2, <3>1, RiseStays
  <2>3. CASE ~UNCHANGED <<row, rebakes, owed>>
    <3>1. PICK r \in DomRows, g \in Rebakers, k \in Tasks :
                   /\ row[t.name].id = t.id /\ row[t.name].status = "pending"
                   /\ row' = [row EXCEPT ![t.name] = r]
                   /\ r.id = row[t.name].id /\ r.dep = row[t.name].dep
                   /\ r.cred = row[t.name].cred
                   /\ r.status = "active" /\ r.verified = TRUE /\ r.id \in matched
                   /\ rebakes[g] = NoTask /\ rebakes' = [rebakes EXCEPT ![g] = k]
                   /\ k.pc = "rebuild" /\ k.dep = r.dep
                   /\ owed' = owed \cup {t.name}
      BY <1>4, <2>3, FlipShape, Zenon
    <3>2. \A m : ~Redoes(rebakes[g], m, row)
      BY <3>1, NoTaskFields DEF Redoes
    <3>3. row'[t.name] = r /\ \A m \in Names \ {t.name} : row'[m] = row[m]
      BY <1>0, <1>4, <3>1 DEF RowsInv
    <3>4. ASSUME NEW m \in owed'
          PROVE  \/ row'[m].status = "active" /\ Redoes(k, m, row')
                 \/ m \in owed /\ Same(m)
      <4>1. CASE m = t.name
        BY <3>1, <3>3, <4>1 DEF Redoes
      <4>2. CASE m # t.name
        BY <1>0, <3>1, <3>3, <4>2 DEF Same, RestInv
      <4> QED
        BY <4>1, <4>2
    <3> QED
      BY <1>0, <2>1, <3>1, <3>2, <3>4, RiseTasks
  <2> QED
    BY <2>2, <2>3
<1> QED
  BY <1>1, <1>2, <1>3, <1>4 DEF Sweep

(* Credentials, deployments, time, the zone and a dying process.           *)
LEMMA RiseWorld ==
    ASSUME DomainsInv, RiseInv,
           \/ \E n \in Names : Propagate(n) \/ \E h \in Hosts : EditRecord(n, h)
           \/ \E c \in Creds : CreateCredential(c) \/ CheckInUse(c)
           \/ DeleteCredential \/ \E d \in Deps : DeleteDeployment(d)
           \/ RowsAge \/ UNCHANGED domainsVars
    PROVE  RiseInv'
<1>0. RestInv /\ RowsInv
  BY DEF DomainsInv
<1>1. UNCHANGED <<op, rebakes, owed, faults>> /\ alive' \subseteq alive
  BY DEF Propagate, EditRecord, CreateCredential, CheckInUse, DeleteCredential,
         DeleteDeployment, RowsAge, domainsVars, marks
<1>2. ASSUME NEW m \in owed PROVE Same(m)
  <2>1. m \in Names
    BY <1>0 DEF RestInv
  <2>2. CASE row' = row
    BY <2>2 DEF Same
  <2>3. CASE RowsAge
    BY <2>1, <2>3, AgeShape DEF Same
  <2>4. CASE DeleteCredential
    <3>1. /\ removing \in Creds
          /\ row'[m] = IF row[m].cred = removing THEN [row[m] EXCEPT !.cred = None]
                       ELSE row[m]
      BY <1>0, <2>1, <2>4 DEF DeleteCredential, RestInv
    <3>2. row[m].cred = removing => row[m] \in DomRows
      BY <1>0, <2>1, <3>1, NoRowFields, DomainsAssumption DEF RowsInv
    <3> QED
      BY <3>1, <3>2 DEF Same, DomRows
  <2>5. row' = row \/ RowsAge \/ DeleteCredential
    BY DEF Propagate, EditRecord, CreateCredential, CheckInUse, DeleteDeployment, domainsVars
  <2> QED
    BY <2>2, <2>3, <2>4, <2>5
<1> QED
  BY <1>1, <1>2, RiseStays

LEMMA RiseDies == ASSUME DomainsInv, RiseInv, NodeDies PROVE RiseInv'
<1>1. UNCHANGED <<row, owed>> /\ faults' # 0
  BY FaultCounts DEF NodeDies, marks, DomainsInv
<1> QED
  BY <1>1 DEF RiseInv

LEMMA RiseNext == ASSUME DomainsInv, RiseInv, [DomainsNext]_domainsVars PROVE RiseInv'
<1>1. ASSUME NEW x \in Callers, Handler(x) PROVE RiseInv'
  BY <1>1, RiseApply, RiseMinting, RisePersist, RiseRebuild DEF Handler
<1>2. ASSUME Rebakes PROVE RiseInv'
  BY <1>2, RiseRebakes DEF Rebakes
<1> QED
  BY <1>1, <1>2, RiseCalled, RiseSweep, RiseWorld, RiseDies DEF DomainsNext

(* Whoever owes a name its container is under way, so once all is quiet    *)
(* and nothing failed, every rise that was seen has been baked.            *)
THEOREM RisesAreBaked == DomainsSpec => []RiseIsBaked
<1>1. DomainsInit => RiseInv
  BY DEF DomainsInit, RiseInv
<1>2. DomainsSpec => []RiseInv
  BY <1>1, RiseNext, DomainsInvariant, PTL DEF DomainsSpec
<1>3. ASSUME RiseInv PROVE RiseIsBaked
  <2>1. \A m : ~Owes(NoOp, m, row) /\ ~Redoes(NoTask, m, row)
    BY NoOpFields, NoTaskFields DEF Owes, Redoes
  <2> QED
    BY <1>3, <2>1 DEF RiseInv, RiseIsBaked, Quiet
<1> QED
  BY <1>2, <1>3, PTL
=============================================================================
