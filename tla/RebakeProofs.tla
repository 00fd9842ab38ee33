---------------------------- MODULE RebakeProofs ----------------------------
(***************************************************************************)
(* TLAPS proofs about Rebake, for every set of domains, keys, limits and   *)
(* requests.                                                               *)
(*                                                                         *)
(* A container is replaced without a lock, so the properties hold of       *)
(* requests nothing overlapped.  AloneInv says what that history is worth: *)
(* nobody else is under way.  Facts says what such a request carries, and  *)
(* LockInv what the row locks of a rotation keep, overlapped or not.       *)
(***************************************************************************)
EXTENDS Rebake, TLAPS

Rows == [status : {"running", "deleted"}, secret : Nat, limits : Limits, adminKey : Nat]
Containers == [up : BOOLEAN, secret : Nat, limits : Limits, doms : SUBSET Domains,
               env : 0 .. MaxEnv]
KeyRows == [state : {"none", "active", "revoked"}, secret : Nat, raced : BOOLEAN,
            rotations : Nat]
ReqRecs ==
    [op : {"none", "rebuild", "key", "reissue", "rotate", "push"},
     pc : {"idle", "row", "domains", "env", "remove", "create", "insert", "update",
           "begin", "read", "commit", "load", "push"},
     secret : Nat, limits : Limits, doms : SUBSET Domains, env : 0 .. MaxEnv,
     todo : SUBSET {0, 1}, key : Keys \cup {0}, alone : BOOLEAN]

TableInv ==
    /\ ha \in BOOLEAN
    /\ row \in Rows /\ row.secret \in 1 .. secrets /\ row.adminKey \in 1 .. secrets
    /\ doms \subseteq Domains /\ env \in 0 .. MaxEnv /\ store \in 0 .. MaxEnv
    /\ cont \in [{0, 1} -> Containers]
    /\ \A i \in {0, 1} : cont[i].secret \in 1 .. secrets
    /\ keys \in [Keys -> KeyRows]
    /\ secrets \in 1 .. MaxSecret /\ starts \in 0 .. MaxStarts

KeyInv ==
    \A k \in Keys :
       /\ keys[k].state # "revoked" => keys[k].rotations = 0
       /\ keys[k].rotations <= 1
       /\ keys[k].state = "active" => keys[k].secret = row.secret \/ keys[k].raced

(* What a request carries at each label.                                   *)
Shape(q) ==
    /\ q.pc = "idle" \/ q.op = "none" => q = Idle
    /\ q.pc \in {"row", "domains", "env"} => q.op = "rebuild"
    /\ q.pc \in {"remove", "create"} => q.op \in {"rebuild", "rotate"} /\ q.todo # {}
    /\ q.pc = "insert" => q.op = "key"
    /\ q.pc = "update" => q.op = "reissue"
    /\ q.pc \in {"begin", "read", "commit"} => q.op = "rotate"
    /\ q.pc \in {"load", "push"} => q.op = "push"
    /\ q.pc \in {"domains", "env", "remove", "create", "insert", "update", "commit"} =>
          q.secret \in 1 .. secrets
    /\ q.op \in {"key", "rotate"} => q.key \in Keys

(* A rotation past its row locks.                                          *)
Held(q) == q.op = "rotate" /\ q.pc # "begin"

LockInv ==
    /\ \A r \in Requests : Held(req[r]) => keys[req[r].key].state = "active"
    /\ \A r, x \in Requests : Held(req[r]) /\ Held(req[x]) => r = x

AloneInv ==
    \A r \in Requests : req[r].alone => \A x \in Requests \ {r} : req[x] = Idle

(* What the tables say a container is made from.                           *)
Expected == [up |-> TRUE, secret |-> row.secret, limits |-> row.limits,
             doms |-> doms, env |-> env]

Facts(q) ==
    q.alone =>
       /\ q.op = "key" => q.secret = row.secret
       /\ q.op = "rebuild" =>
            /\ q.pc \in {"domains", "env", "remove", "create"} =>
                  q.secret = row.secret /\ q.limits = row.limits
            /\ q.pc \in {"env", "remove", "create"} => q.doms = doms
            /\ q.pc \in {"remove", "create"} =>
                  /\ q.env = env
                  /\ row.status = "running" =>
                        \A i \in Replicas \ q.todo : cont[i] = Expected

ReqInv ==
    /\ req \in [Requests -> ReqRecs]
    /\ \A r \in Requests : Shape(req[r]) /\ Facts(req[r])

IInv == TableInv /\ KeyInv /\ LockInv /\ AloneInv /\ ReqInv

LEMMA IdleInv == Idle \in ReqRecs /\ Idle.op = "none" /\ Idle.pc = "idle" /\ ~Idle.alone
                 /\ Shape(Idle) /\ Facts(Idle) /\ Shape(Idle)' /\ Facts(Idle)'
  BY RebakeAssumption DEF Idle, ReqRecs, Shape, Facts

(* First takes a replica of a list that has one.                           *)
LEMMA FirstInTodo ==
    ASSUME NEW todo \in SUBSET {0, 1}, todo # {}
    PROVE  First(todo) \in todo
<1>1. \E i \in todo : \A j \in todo : i <= j
  <2>1. CASE 0 \in todo
    BY <2>1
  <2>2. CASE todo = {1}
    BY <2>2
  <2> QED
    BY <2>1, <2>2
<1> QED
  BY <1>1 DEF First

(* While one request runs alone no other one is under way to do anything.  *)
LEMMA OnlyOneAlone ==
    ASSUME IInv, NEW r \in Requests, req[r].pc # "idle"
    PROVE  \A x \in Requests \ {r} : ~req[x].alone
  BY IdleInv DEF IInv, AloneInv

(* What is left to show of a step of a request that is under way.          *)
LEMMA StepKeeps ==
    ASSUME IInv, NEW r \in Requests, NEW q \in ReqRecs, req[r].pc # "idle",
           req' = [req EXCEPT ![r] = q], q.alone => req[r].alone,
           TableInv', KeyInv', Shape(q)', Facts(q)', secrets <= secrets',
           Held(q) => keys'[q.key].state = "active",
           Held(q) => \A x \in Requests \ {r} : ~Held(req[x]),
           \A x \in Requests \ {r} : Held(req[x]) => keys'[req[x].key].state = "active"
    PROVE  IInv'
<1>1. /\ req' \in [Requests -> ReqRecs] /\ req'[r] = q
      /\ \A x \in Requests \ {r} : req'[x] = req[x]
  BY DEF IInv, ReqInv
<1>2. LockInv'
  BY <1>1 DEF IInv, LockInv
<1>3. AloneInv'
  BY <1>1, OnlyOneAlone DEF IInv, AloneInv
<1>4. ASSUME NEW x \in Requests PROVE Shape(req[x])' /\ Facts(req[x])'
  <2>1. CASE x = r
    BY <1>1, <2>1 DEF Shape, Facts
  <2>2. CASE x # r
    <3>1. req'[x] = req[x] /\ ~req[x].alone /\ Shape(req[x]) /\ req[x].secret \in Nat
      BY <1>1, <2>2, OnlyOneAlone DEF IInv, ReqInv, ReqRecs
    <3>2. secrets \in Nat /\ secrets' \in Nat
      BY DEF IInv, TableInv
    <3>3. Shape(req[x])'
      BY <3>1, <3>2 DEF Shape
    <3>4. Facts(req[x])'
      BY <3>1 DEF Facts
    <3> QED
      BY <3>3, <3>4
  <2> QED
    BY <2>1, <2>2
<1> QED
  BY <1>1, <1>2, <1>3, <1>4 DEF IInv, ReqInv

(* A request starts, and those it overlaps are alone no more.              *)
LEMMA StartKeeps ==
    ASSUME IInv, NEW r \in Requests, NEW q \in ReqRecs, Start(r, q),
           Shape(q), q # Idle, q.op # "rebuild" \/ q.pc = "row",
           q.op = "key" => q.secret = row.secret, ~Held(q),
           UNCHANGED <<ha, keys, cont, store, secrets>>,
           row' \in {row} \cup {[row EXCEPT !.limits = l] : l \in Limits},
           doms' \subseteq Domains, env' \in 0 .. MaxEnv
    PROVE  IInv'
<1>a. starts' \in 0 .. MaxStarts
  BY RebakeAssumption DEF Start, IInv, TableInv
<1>b. row' \in Rows /\ row'.secret = row.secret /\ row'.adminKey = row.adminKey
  BY DEF IInv, TableInv, Rows
<1>c. TableInv'
  BY <1>a, <1>b DEF IInv, TableInv
<1>d. KeyInv'
  BY <1>b DEF IInv, KeyInv
<1>0. req[r] = Idle /\ req \in [Requests -> ReqRecs]
  BY DEF Start, IInv, ReqInv
<1>1. /\ req'[r] \in ReqRecs
      /\ req'[r].alone <=> InFlight = {}
      /\ req'[r].op = q.op /\ req'[r].pc = q.pc /\ req'[r].secret = q.secret
      /\ req'[r].todo = q.todo /\ req'[r].key = q.key
  <2>1. req'[r] = [q EXCEPT !.alone = InFlight = {}]
    BY DEF Start
  <2>2. (InFlight = {}) \in BOOLEAN
    OBVIOUS
  <2> QED
    BY <2>1, <2>2 DEF ReqRecs
<1>2. ASSUME NEW x \in Requests \ {r}
      PROVE  /\ req'[x] \in ReqRecs /\ ~req'[x].alone /\ (req'[x] = Idle <=> req[x] = Idle)
             /\ req'[x].op = req[x].op /\ req'[x].pc = req[x].pc
             /\ req'[x].secret = req[x].secret /\ req'[x].todo = req[x].todo
             /\ req'[x].key = req[x].key
  <2>1. req[x] \in ReqRecs /\ Shape(req[x])
    BY <1>0 DEF IInv, ReqInv
  <2>2. CASE req[x] = Idle
    <3>1. req'[x] = Idle
      BY <2>2 DEF Start
    <3> QED
      BY <2>2, <3>1, IdleInv
  <2>3. CASE req[x] # Idle
    <3>1. req'[x] = [req[x] EXCEPT !.alone = FALSE]
      BY <2>3 DEF Start
    <3>2. req[x].op # "none"
      BY <2>1, <2>3 DEF Shape
    <3>3. req'[x] # Idle
      BY <2>1, <3>1, <3>2, IdleInv DEF ReqRecs
    <3> QED
      BY <2>1, <2>3, <3>1, <3>3 DEF ReqRecs
  <2> QED
    BY <2>2, <2>3
<1>3. req' \in [Requests -> ReqRecs]
  BY <1>1, <1>2 DEF Start
<1>4. LockInv'
  BY <1>1, <1>2 DEF IInv, LockInv, Held
<1>5. AloneInv'
  BY <1>1, <1>2 DEF AloneInv, InFlight
<1>6. ASSUME NEW x \in Requests PROVE Shape(req[x])' /\ Facts(req[x])'
  <2>1. CASE x = r
    <3>1. req'[r].op # "none" /\ req'[r].pc # "idle"
      BY <1>1 DEF Shape
    <3>2. Shape(req[r])'
      BY <1>1, <3>1 DEF Shape
    <3>3. Facts(req[r])'
      BY <1>1, <1>b DEF Facts
    <3> QED
      BY <2>1, <3>2, <3>3
  <2>2. CASE x # r
    <3>1. Shape(req[x])
      BY DEF IInv, ReqInv
    <3>2. Shape(req[x])'
      BY <1>2, <2>2, <3>1 DEF Shape
    <3>3. Facts(req[x])'
      BY <1>2, <2>2 DEF Facts
    <3> QED
      BY <3>2, <3>3
  <2> QED
    BY <2>1, <2>2
<1> QED
  BY <1>3, <1>4, <1>5, <1>6, <1>c, <1>d DEF IInv, ReqInv

(* The gates, and the writes that come before a request's first read.      *)
LEMMA RequestSteps == ASSUME IInv, NEW r \in Requests, Request(r) PROVE IInv'
<1>0. row.secret \in 1 .. secrets /\ row.secret \in Nat /\ starts \in Nat
      /\ row \in Rows /\ env \in 0 .. MaxEnv /\ doms \subseteq Domains
  BY DEF IInv, TableInv
<1>1. ASSUME NEW d \in Domains, ChangeDomain(r, d) PROVE IInv'
  <2> DEFINE q == [Idle EXCEPT !.op = "rebuild", !.pc = "row"]
  <2>1. /\ q \in ReqRecs
        /\ q.op = "rebuild" /\ q.pc = "row"
    BY <1>0, IdleInv, RebakeAssumption DEF ReqRecs
  <2>2. Start(r, q) /\ UNCHANGED <<ha, keys, cont, store, secrets>>
    BY <1>1 DEF ChangeDomain, tables
  <2>3. /\ row' \in {row} \cup {[row EXCEPT !.limits = l] : l \in Limits}
        /\ doms' \subseteq Domains /\ env' \in 0 .. MaxEnv
    BY <1>0, <1>1, RebakeAssumption DEF ChangeDomain, tables
  <2> HIDE DEF q
  <2>4. Shape(q) /\ q # Idle /\ ~Held(q)
    BY <1>0, <2>1, IdleInv DEF Shape, Held
  <2> QED
    BY <2>1, <2>2, <2>3, <2>4, StartKeeps
<1>2. ASSUME NEW n \in Limits, UpdateResources(r, n) PROVE IInv'
  <2> DEFINE q == [Idle EXCEPT !.op = "rebuild", !.pc = "row"]
  <2>1. /\ q \in ReqRecs
        /\ q.op = "rebuild" /\ q.pc = "row"
    BY <1>0, IdleInv, RebakeAssumption DEF ReqRecs
  <2>2. Start(r, q) /\ UNCHANGED <<ha, keys, cont, store, secrets>>
    BY <1>2 DEF UpdateResources, tables
  <2>3. /\ row' \in {row} \cup {[row EXCEPT !.limits = l] : l \in Limits}
        /\ doms' \subseteq Domains /\ env' \in 0 .. MaxEnv
    BY <1>0, <1>2, RebakeAssumption DEF UpdateResources, tables
  <2> HIDE DEF q
  <2>4. Shape(q) /\ q # Idle /\ ~Held(q)
    BY <1>0, <2>1, IdleInv DEF Shape, Held
  <2> QED
    BY <2>1, <2>2, <2>3, <2>4, StartKeeps
<1>3. ASSUME NEW k \in Keys, BeginCreateDeployKey(r, k) PROVE IInv'
  <2> DEFINE q == [Idle EXCEPT !.op = "key", !.pc = "insert", !.secret = row.secret,
                             !.key = k]
  <2>1. /\ q \in ReqRecs
        /\ q.op = "key" /\ q.pc = "insert" /\ q.secret = row.secret /\ q.key = k
    BY <1>0, IdleInv, RebakeAssumption DEF ReqRecs
  <2>2. Start(r, q) /\ UNCHANGED <<ha, keys, cont, store, secrets>>
    BY <1>3 DEF BeginCreateDeployKey, tables
  <2>3. /\ row' \in {row} \cup {[row EXCEPT !.limits = l] : l \in Limits}
        /\ doms' \subseteq Domains /\ env' \in 0 .. MaxEnv
    BY <1>0, <1>3, RebakeAssumption DEF BeginCreateDeployKey, tables
  <2> HIDE DEF q
  <2>4. Shape(q) /\ q # Idle /\ ~Held(q)
    BY <1>0, <2>1, IdleInv DEF Shape, Held
  <2> QED
    BY <2>1, <2>2, <2>3, <2>4, StartKeeps
<1>4. ASSUME NEW k \in Keys, BeginRevokeDeployKey(r, k) PROVE IInv'
  <2> DEFINE q == [Idle EXCEPT !.op = "rotate", !.pc = "begin", !.key = k]
  <2>1. /\ q \in ReqRecs
        /\ q.op = "rotate" /\ q.pc = "begin" /\ q.key = k
    BY <1>0, IdleInv, RebakeAssumption DEF ReqRecs
  <2>2. Start(r, q) /\ UNCHANGED <<ha, keys, cont, store, secrets>>
    BY <1>4 DEF BeginRevokeDeployKey, tables
  <2>3. /\ row' \in {row} \cup {[row EXCEPT !.limits = l] : l \in Limits}
        /\ doms' \subseteq Domains /\ env' \in 0 .. MaxEnv
    BY <1>0, <1>4, RebakeAssumption DEF BeginRevokeDeployKey, tables
  <2> HIDE DEF q
  <2>4. Shape(q) /\ q # Idle /\ ~Held(q)
    BY <1>0, <2>1, IdleInv DEF Shape, Held
  <2> QED
    BY <2>1, <2>2, <2>3, <2>4, StartKeeps
<1>5. ASSUME BeginReissue(r) PROVE IInv'
  <2> DEFINE q == [Idle EXCEPT !.op = "reissue", !.pc = "update", !.secret = row.secret]
  <2>1. /\ q \in ReqRecs
        /\ q.op = "reissue" /\ q.pc = "update" /\ q.secret = row.secret
    BY <1>0, IdleInv, RebakeAssumption DEF ReqRecs
  <2>2. Start(r, q) /\ UNCHANGED <<ha, keys, cont, store, secrets>>
    BY <1>5 DEF BeginReissue, tables
  <2>3. /\ row' \in {row} \cup {[row EXCEPT !.limits = l] : l \in Limits}
        /\ doms' \subseteq Domains /\ env' \in 0 .. MaxEnv
    BY <1>0, <1>5, RebakeAssumption DEF BeginReissue, tables
  <2> HIDE DEF q
  <2>4. Shape(q) /\ q # Idle /\ ~Held(q)
    BY <1>0, <2>1, IdleInv DEF Shape, Held
  <2> QED
    BY <2>1, <2>2, <2>3, <2>4, StartKeeps
<1>6. ASSUME UpdateEnvVars(r) PROVE IInv'
  <2> DEFINE q == [Idle EXCEPT !.op = "push", !.pc = "load"]
  <2>1. /\ q \in ReqRecs
        /\ q.op = "push" /\ q.pc = "load"
    BY <1>0, IdleInv, RebakeAssumption DEF ReqRecs
  <2>2. Start(r, q) /\ UNCHANGED <<ha, keys, cont, store, secrets>>
    BY <1>6 DEF UpdateEnvVars, tables
  <2>3. /\ row' \in {row} \cup {[row EXCEPT !.limits = l] : l \in Limits}
        /\ doms' \subseteq Domains /\ env' \in 0 .. MaxEnv
    BY <1>0, <1>6, RebakeAssumption DEF UpdateEnvVars, tables
  <2> HIDE DEF q
  <2>4. Shape(q) /\ q # Idle /\ ~Held(q)
    BY <1>0, <2>1, IdleInv DEF Shape, Held
  <2> QED
    BY <2>1, <2>2, <2>3, <2>4, StartKeeps
<1>7. ASSUME SyncEnvToDeployments(r) PROVE IInv'
  <2> DEFINE q == [Idle EXCEPT !.op = "push", !.pc = "load"]
  <2>1. /\ q \in ReqRecs
        /\ q.op = "push" /\ q.pc = "load"
    BY <1>0, IdleInv, RebakeAssumption DEF ReqRecs
  <2>2. Start(r, q) /\ UNCHANGED <<ha, keys, cont, store, secrets>>
    BY <1>7 DEF SyncEnvToDeployments, tables
  <2>3. /\ row' \in {row} \cup {[row EXCEPT !.limits = l] : l \in Limits}
        /\ doms' \subseteq Domains /\ env' \in 0 .. MaxEnv
    BY <1>0, <1>7, RebakeAssumption DEF SyncEnvToDeployments, tables
  <2> HIDE DEF q
  <2>4. Shape(q) /\ q # Idle /\ ~Held(q)
    BY <1>0, <2>1, IdleInv DEF Shape, Held
  <2> QED
    BY <2>1, <2>2, <2>3, <2>4, StartKeeps
<1> QED
  BY <1>1, <1>2, <1>3, <1>4, <1>5, <1>6, <1>7 DEF Request

(* A step that only moves its request, or ends it.                         *)
LEMMA RequestMoves ==
    ASSUME IInv, NEW r \in Requests, NEW q \in ReqRecs, req[r].pc # "idle",
           req' = [req EXCEPT ![r] = q], q.alone => req[r].alone,
           UNCHANGED <<tables, cont, store, secrets, starts>>,
           Shape(q), Facts(q), Held(q) => Held(req[r]) /\ q.key = req[r].key
    PROVE  IInv'
<1>1. TableInv' /\ KeyInv' /\ secrets <= secrets'
  BY DEF IInv, TableInv, KeyInv, tables
<1>2. Shape(q)'
  BY DEF Shape
<1>3. Facts(q)'
  BY DEF Facts, tables, Replicas, Expected
<1>4. UNCHANGED keys
  BY DEF tables
<1>5. Held(q) => keys[q.key].state = "active" /\ \A x \in Requests \ {r} : ~Held(req[x])
  BY DEF IInv, LockInv
<1>6. \A x \in Requests \ {r} : Held(req[x]) => keys[req[x].key].state = "active"
  BY DEF IInv, LockInv
<1> QED
  BY <1>1, <1>2, <1>3, <1>4, <1>5, <1>6, StepKeeps

LEMMA EndMoves ==
    ASSUME IInv, NEW r \in Requests, req[r].pc # "idle", End(r),
           UNCHANGED <<tables, cont, store, secrets, starts>>
    PROVE  IInv'
<1>1. req' = [req EXCEPT ![r] = Idle] /\ ~Held(Idle)
  BY IdleInv DEF End, Held
<1> QED
  BY <1>1, IdleInv, RequestMoves

(* The reads of a rebuild and of a push.                                   *)
LEMMA LoadSteps ==
    ASSUME IInv, NEW r \in Requests,
           \/ LoadRow(r) \/ LoadActiveDomainOrigins(r) \/ LoadProjectEnvVars(r)
           \/ LoadForPush(r) \/ PushFails(r)
    PROVE  IInv'
<1>0. /\ req[r] \in ReqRecs /\ Shape(req[r]) /\ Facts(req[r])
      /\ req \in [Requests -> ReqRecs] /\ row \in Rows
      /\ row.secret \in 1 .. secrets /\ row.secret \in Nat /\ row.limits \in Limits
      /\ doms \subseteq Domains /\ env \in 0 .. MaxEnv
  BY DEF IInv, ReqInv, TableInv, Rows
<1>1. req[r].pc # "idle" /\ UNCHANGED <<tables, cont, store, secrets, starts>>
  BY DEF LoadRow, LoadActiveDomainOrigins, LoadProjectEnvVars, LoadForPush, PushFails, At
<1>2. CASE End(r)
  BY <1>1, <1>2, EndMoves
<1>3. CASE LoadRow(r) /\ row.status = "running"
  <2> DEFINE q == [req[r] EXCEPT !.pc = "domains", !.secret = row.secret,
                                 !.limits = row.limits]
  <2>1. req' = [req EXCEPT ![r] = q]
    BY <1>0, <1>3 DEF LoadRow
  <2>2. /\ q \in ReqRecs /\ q.op = "rebuild" /\ q.pc = "domains" /\ q.secret = row.secret
        /\ q.limits = row.limits /\ q.alone = req[r].alone
    BY <1>0, <1>3 DEF LoadRow, ReqRecs
  <2> HIDE DEF q
  <2>3. Shape(q) /\ Facts(q) /\ ~Held(q)
    BY <1>0, <2>2 DEF Shape, Facts, Held
  <2> QED
    BY <1>1, <2>1, <2>2, <2>3, RequestMoves
<1>4. CASE LoadActiveDomainOrigins(r)
  <2> DEFINE q == [req[r] EXCEPT !.pc = "env", !.doms = doms]
  <2>1. req' = [req EXCEPT ![r] = q]
    BY <1>0, <1>4 DEF LoadActiveDomainOrigins
  <2>2. /\ q \in ReqRecs /\ q.op = req[r].op /\ q.pc = "env" /\ q.secret = req[r].secret
        /\ q.limits = req[r].limits /\ q.doms = doms /\ q.alone = req[r].alone
        /\ req[r].pc = "domains"
    BY <1>0, <1>4 DEF LoadActiveDomainOrigins, ReqRecs, At
  <2> HIDE DEF q
  <2>3. Shape(q) /\ Facts(q) /\ ~Held(q)
    BY <1>0, <2>2 DEF Shape, Facts, Held
  <2> QED
    BY <1>1, <2>1, <2>2, <2>3, RequestMoves
<1>5. CASE LoadProjectEnvVars(r)
  <2> DEFINE q == [req[r] EXCEPT !.pc = "remove", !.env = env,
                                 !.limits = IF ha THEN row.limits ELSE req[r].limits,
                                 !.todo = Replicas]
  <2>1. req' = [req EXCEPT ![r] = q]
    BY <1>0, <1>5 DEF LoadProjectEnvVars
  <2>2. Replicas \in SUBSET {0, 1} /\ Replicas # {}
    BY DEF Replicas
  <2>3. /\ q \in ReqRecs /\ q.op = "rebuild" /\ q.pc = "remove" /\ q.secret = req[r].secret
        /\ q.limits \in {row.limits, req[r].limits} /\ q.doms = req[r].doms
        /\ q.env = env /\ q.todo = Replicas /\ q.alone = req[r].alone
        /\ req[r].pc = "env"
    BY <1>0, <1>5, <2>2 DEF LoadProjectEnvVars, ReqRecs, At
  <2> HIDE DEF q
  <2>4. Shape(q) /\ ~Held(q)
    BY <1>0, <2>2, <2>3 DEF Shape, Held
  <2>5. Facts(q)
    BY <1>0, <1>5, <2>3 DEF Facts, LoadProjectEnvVars
  <2> QED
    BY <1>1, <2>1, <2>3, <2>4, <2>5, RequestMoves
<1>6. CASE LoadForPush(r) /\ row.status = "running"
  <2> DEFINE q == [req[r] EXCEPT !.pc = "push", !.env = env]
  <2>1. req' = [req EXCEPT ![r] = q]
    BY <1>0, <1>6 DEF LoadForPush
  <2>2. /\ q \in ReqRecs /\ q.op = req[r].op /\ q.pc = "push" /\ q.alone = req[r].alone
        /\ req[r].pc = "load"
    BY <1>0, <1>6 DEF LoadForPush, ReqRecs, At
  <2> HIDE DEF q
  <2>3. Shape(q) /\ Facts(q) /\ ~Held(q)
    BY <1>0, <2>2 DEF Shape, Facts, Held
  <2> QED
    BY <1>1, <2>1, <2>2, <2>3, RequestMoves
<1> QED
  BY <1>2, <1>3, <1>4, <1>5, <1>6 DEF LoadRow, LoadForPush, PushFails

(* A rotation takes its locks: no other one holds them, its key is active. *)
LEMMA LockStep == ASSUME IInv, NEW r \in Requests, LockDeployment(r) PROVE IInv'
<1>0. req[r] \in ReqRecs /\ Shape(req[r]) /\ req \in [Requests -> ReqRecs]
  BY DEF IInv, ReqInv
<1>1. /\ req[r].op = "rotate" /\ req[r].pc = "begin" /\ ~Locked(r)
      /\ UNCHANGED <<tables, cont, store, secrets, starts>>
  BY DEF LockDeployment, At
<1>2. CASE End(r)
  BY <1>1, <1>2, EndMoves
<1>3. CASE keys[req[r].key].state = "active" /\ req' = [req EXCEPT ![r].pc = "read"]
  <2>1. PICK q \in ReqRecs : q = [req[r] EXCEPT !.pc = "read"]
    BY <1>0 DEF ReqRecs
  <2>2. /\ req' = [req EXCEPT ![r] = q]
        /\ q.op = "rotate" /\ q.pc = "read" /\ q.alone = req[r].alone
        /\ q.key = req[r].key
    BY <1>0, <1>1, <1>3, <2>1 DEF ReqRecs
  <2>3. TableInv' /\ KeyInv' /\ secrets <= secrets' /\ keys' = keys
    BY <1>1 DEF IInv, TableInv, KeyInv, tables
  <2>4. Shape(q)' /\ Facts(q)'
    <3>1. q.key \in Keys
      BY <1>0, <1>1, <2>2 DEF Shape
    <3> QED
      BY <2>2, <3>1 DEF Shape, Facts
  <2>5. \A x \in Requests \ {r} : ~Held(req[x])
    BY <1>1 DEF Locked, Held
  <2> QED
    BY <1>1, <1>3, <2>2, <2>3, <2>4, <2>5, StepKeeps
<1> QED
  BY <1>2, <1>3 DEF LockDeployment

(* A rotation reads what it hands to Docker and makes a new secret.        *)
LEMMA ReadStep == ASSUME IInv, NEW r \in Requests, RuntimeEnvVarsForRecreate(r) PROVE IInv'
<1>0. /\ req[r] \in ReqRecs /\ Shape(req[r]) /\ req \in [Requests -> ReqRecs]
      /\ doms \subseteq Domains /\ env \in 0 .. MaxEnv /\ secrets \in 1 .. MaxSecret
  BY DEF IInv, ReqInv, TableInv
<1>1. /\ req[r].op = "rotate" /\ req[r].pc = "read"
      /\ secrets' = secrets + 1 /\ secrets' \in 1 .. MaxSecret
      /\ UNCHANGED <<tables, cont, store, starts>>
  BY <1>0, RebakeAssumption DEF RuntimeEnvVarsForRecreate, At, Shape
<1>2. PICK q \in ReqRecs : q = [req[r] EXCEPT !.pc = "remove", !.secret = secrets + 1,
                                              !.env = env, !.doms = doms, !.todo = {0}]
  <2>1. secrets + 1 \in Nat /\ {0} \in SUBSET {0, 1}
    BY <1>0, RebakeAssumption
  <2> QED
    BY <1>0, <1>1, <2>1 DEF ReqRecs
<1>3. /\ req' = [req EXCEPT ![r] = q]
      /\ q.op = "rotate" /\ q.pc = "remove" /\ q.alone = req[r].alone
      /\ q.key = req[r].key /\ q.secret = secrets' /\ q.todo = {0}
  <2>1. req' = [req EXCEPT ![r] = [req[r] EXCEPT !.pc = "remove", !.secret = secrets + 1,
                                      !.env = env, !.doms = doms, !.todo = {0}]]
    BY <1>0 DEF RuntimeEnvVarsForRecreate, ReqRecs
  <2>2. /\ q.op = "rotate" /\ q.pc = "remove" /\ q.alone = req[r].alone
        /\ q.key = req[r].key /\ q.secret = secrets' /\ q.todo = {0}
    BY <1>0, <1>1, <1>2 DEF ReqRecs
  <2> QED
    BY <1>2, <2>1, <2>2
<1>4. TableInv'
  <2>1. UNCHANGED <<ha, row, doms, env, keys, cont, store, starts>>
    BY <1>1 DEF tables
  <2> QED
    BY <1>0, <1>1, <2>1 DEF IInv, TableInv
<1>5. KeyInv' /\ secrets <= secrets' /\ keys' = keys
  BY <1>0, <1>1 DEF IInv, KeyInv, tables
<1>6. Shape(q)' /\ Facts(q)'
  <2>1. q.key \in Keys /\ secrets' \in 1 .. secrets'
    BY <1>0, <1>1, <1>3, RebakeAssumption DEF Shape
  <2> QED
    BY <1>3, <2>1 DEF Shape, Facts
<1>7. keys[q.key].state = "active" /\ \A x \in Requests \ {r} : ~Held(req[x])
  BY <1>1, <1>3 DEF IInv, LockInv, Held
<1> QED
  BY <1>1, <1>3, <1>4, <1>5, <1>6, <1>7, StepKeeps

(* What is left to show of a step that ends its request.                   *)
LEMMA EndKeeps ==
    ASSUME IInv, NEW r \in Requests, req[r].pc # "idle", End(r), TableInv', KeyInv',
           secrets <= secrets',
           \A x \in Requests \ {r} : Held(req[x]) => keys'[req[x].key].state = "active"
    PROVE  IInv'
<1>1. req' = [req EXCEPT ![r] = Idle] /\ ~Held(Idle)
  BY IdleInv DEF End, Held
<1> QED
  BY <1>1, IdleInv, StepKeeps

(* A container goes: one that is still on the request's list.              *)
LEMMA RemoveStep == ASSUME IInv, NEW r \in Requests, RemoveContainer(r) PROVE IInv'
<1>0. /\ req[r] \in ReqRecs /\ Shape(req[r]) /\ Facts(req[r])
      /\ req \in [Requests -> ReqRecs] /\ cont \in [{0, 1} -> Containers]
  BY DEF IInv, ReqInv, TableInv
<1>1. /\ req[r].pc = "remove" /\ req[r].todo # {} /\ req[r].todo \subseteq {0, 1}
      /\ UNCHANGED <<tables, store, secrets, starts>>
  BY <1>0 DEF RemoveContainer, At, Shape, ReqRecs
<1>2. CASE UNCHANGED cont /\ End(r)
  BY <1>1, <1>2, EndMoves
<1>3. CASE /\ cont' = [cont EXCEPT ![First(req[r].todo)] = [@ EXCEPT !.up = FALSE]]
           /\ req' = [req EXCEPT ![r].pc = "create"]
  <2>1. PICK q \in ReqRecs : q = [req[r] EXCEPT !.pc = "create"]
    BY <1>0 DEF ReqRecs
  <2>2. /\ req' = [req EXCEPT ![r] = q]
        /\ q.op = req[r].op /\ q.pc = "create" /\ (q.alone <=> req[r].alone)
        /\ q.key = req[r].key /\ q.secret = req[r].secret /\ q.limits = req[r].limits
        /\ q.doms = req[r].doms /\ q.env = req[r].env /\ q.todo = req[r].todo
    BY <1>0, <1>3, <2>1 DEF ReqRecs
  <2>3. First(q.todo) \in q.todo
    BY <1>1, <2>2, FirstInTodo
  <2>4. /\ cont' \in [{0, 1} -> Containers]
        /\ \A i \in {0, 1} : cont'[i].secret = cont[i].secret
        /\ \A i \in {0, 1} \ q.todo : cont'[i] = cont[i]
    <3>1. PICK j \in q.todo : j = First(req[r].todo)
      BY <2>2, <2>3
    <3>2. j \in {0, 1} /\ cont' = [cont EXCEPT ![j] = [cont[j] EXCEPT !.up = FALSE]]
      BY <1>1, <1>3, <2>2, <3>1
    <3>3. cont[j] \in Containers
      BY <1>0, <3>2
    <3>4. /\ [cont[j] EXCEPT !.up = FALSE] \in Containers
          /\ [cont[j] EXCEPT !.up = FALSE].secret = cont[j].secret
      BY <3>3 DEF Containers
    <3> QED
      BY <1>0, <3>1, <3>2, <3>4
  <2>5. UNCHANGED <<ha, row, doms, env, keys, store, secrets, starts>>
    BY <1>1 DEF tables
  <2>6. TableInv' /\ KeyInv' /\ secrets <= secrets'
    BY <2>4, <2>5 DEF IInv, TableInv, KeyInv
  <2>7. Shape(q)'
    <3>1. Shape(req[r])
      BY <1>0
    <3>2. q.op \in {"rebuild", "rotate"} /\ q.todo # {} /\ q.secret \in 1 .. secrets
          /\ (q.op \in {"key", "rotate"} => q.key \in Keys)
      BY <1>1, <2>2, <3>1 DEF Shape
    <3> QED
      BY <2>2, <2>5, <3>2 DEF Shape
  <2>8. Facts(q)'
    <3>1. \A i \in Replicas \ q.todo : cont'[i] = cont[i]
      BY <2>4 DEF Replicas
    <3>2. Expected' = Expected /\ Replicas' = Replicas
      BY <2>5 DEF Expected, Replicas
    <3>3. q.alone => Facts(req[r]) /\ req[r].alone
      BY <1>0, <2>2
    <3>4. CASE q.op = "rebuild" /\ q.alone
      <4>1. /\ req[r].secret = row.secret /\ req[r].limits = row.limits
            /\ req[r].doms = doms /\ req[r].env = env
            /\ row.status = "running" =>
                  \A i \in Replicas \ req[r].todo : cont[i] = Expected
        BY <1>1, <2>2, <3>3, <3>4 DEF Facts
      <4> QED
        BY <2>2, <2>5, <3>1, <3>2, <3>4, <4>1 DEF Facts
    <3>5. CASE ~q.alone \/ q.op # "rebuild"
      <4>1. q.op # "key"
        BY <1>0, <1>1, <2>2 DEF Shape
      <4> QED
        BY <3>5, <4>1 DEF Facts
    <3> QED
      BY <3>4, <3>5
  <2>9. /\ Held(q) => keys[q.key].state = "active"
        /\ Held(q) => \A x \in Requests \ {r} : ~Held(req[x])
        /\ \A x \in Requests : Held(req[x]) => keys[req[x].key].state = "active"
    BY <1>1, <2>2 DEF IInv, LockInv, Held
  <2> QED
    BY <1>1, <2>2, <2>5, <2>6, <2>7, <2>8, <2>9, StepKeeps
<1> QED
  BY <1>2, <1>3 DEF RemoveContainer

(* What a rebuild nothing overlapped hands to Docker is what the tables    *)
(* say; what any request hands over is well formed.                        *)
LEMMA SpecOfRequest ==
    ASSUME IInv, NEW r \in Requests, req[r].pc = "create"
    PROVE  /\ SpecOf(req[r]) \in Containers /\ SpecOf(req[r]).secret \in 1 .. secrets
           /\ req[r].op = "rebuild" /\ req[r].alone => SpecOf(req[r]) = Expected
<1>0. /\ req[r] \in ReqRecs /\ req[r].secret \in 1 .. secrets /\ Facts(req[r])
  BY DEF IInv, ReqInv, Shape
<1>1. SpecOf(req[r]) \in Containers /\ SpecOf(req[r]).secret \in 1 .. secrets
  BY <1>0, RebakeAssumption DEF SpecOf, RotationSpec, RebuildSpec, Containers, ReqRecs
<1>2. req[r].op = "rebuild" /\ req[r].alone => SpecOf(req[r]) = Expected
  BY <1>0 DEF SpecOf, RebuildSpec, Expected, Facts
<1> QED
  BY <1>1, <1>2

(* The three ways in which a container that is created leaves its request. *)
CreatedReq(q, o) ==
    LET rest == q.todo \ {First(q.todo)} IN
    \/ q.op = "rotate" /\ o = [q EXCEPT !.pc = "commit"]
    \/ q.op = "rebuild" /\ rest = {} /\ o = Idle
    \/ q.op = "rebuild" /\ rest # {} /\ o = [q EXCEPT !.pc = "remove", !.todo = rest]

LEMMA Created ==
    ASSUME IInv, NEW r \in Requests, CreateContainer(r)
    PROVE  /\ req[r].pc = "create" /\ UNCHANGED <<tables, store, secrets, starts>>
           /\ First(req[r].todo) \in req[r].todo /\ req[r].todo \subseteq {0, 1}
           /\ \/ UNCHANGED cont /\ End(r)
              \/ /\ cont' = [cont EXCEPT ![First(req[r].todo)] = SpecOf(req[r])]
                 /\ \E o \in ReqRecs : CreatedReq(req[r], o) /\ req' = [req EXCEPT ![r] = o]
<1>0. /\ req[r] \in ReqRecs /\ Shape(req[r]) /\ req \in [Requests -> ReqRecs]
  BY DEF IInv, ReqInv
<1>1. /\ req[r].pc = "create" /\ req[r].op \in {"rebuild", "rotate"}
      /\ req[r].todo \in SUBSET {0, 1} /\ req[r].todo # {}
  BY <1>0 DEF CreateContainer, At, Shape, ReqRecs
<1>2. First(req[r].todo) \in req[r].todo
  BY <1>1, FirstInTodo
<1>3. UNCHANGED <<tables, store, secrets, starts>>
  BY DEF CreateContainer
<1>4. CASE UNCHANGED cont /\ End(r)
  BY <1>1, <1>2, <1>3, <1>4
<1>5. CASE ~(UNCHANGED cont /\ End(r))
  <2> DEFINE rest == req[r].todo \ {First(req[r].todo)}
  <2>1. cont' = [cont EXCEPT ![First(req[r].todo)] = SpecOf(req[r])]
    BY <1>5 DEF CreateContainer
  <2>2. CASE req[r].op = "rotate"
    <3>1. req' = [req EXCEPT ![r].pc = "commit"]
      BY <1>5, <2>2 DEF CreateContainer
    <3>2. [req[r] EXCEPT !.pc = "commit"] \in ReqRecs
          /\ req' = [req EXCEPT ![r] = [req[r] EXCEPT !.pc = "commit"]]
      BY <1>0, <3>1 DEF ReqRecs
    <3> QED
      BY <1>1, <1>2, <1>3, <2>1, <2>2, <3>2 DEF CreatedReq
  <2>3. CASE req[r].op = "rebuild" /\ rest = {}
    <3>1. End(r)
      BY <1>5, <2>3 DEF CreateContainer
    <3> QED
      BY <1>1, <1>2, <1>3, <2>1, <2>3, <3>1, IdleInv DEF CreatedReq, End
  <2>4. CASE req[r].op = "rebuild" /\ rest # {}
    <3>1. req' = [req EXCEPT ![r].pc = "remove", ![r].todo = rest]
      BY <1>5, <2>4 DEF CreateContainer
    <3>2. [req[r] EXCEPT !.pc = "remove", !.todo = rest] \in ReqRecs
          /\ req' = [req EXCEPT ![r] = [req[r] EXCEPT !.pc = "remove", !.todo = rest]]
      BY <1>0, <1>1, <3>1 DEF ReqRecs
    <3> QED
      BY <1>1, <1>2, <1>3, <2>1, <2>4, <3>2 DEF CreatedReq
  <2> QED
    BY <1>1, <2>2, <2>3, <2>4
<1> QED
  BY <1>4, <1>5

(* A container comes: its replica leaves the list and is as the tables say *)
(* when nothing overlapped the rebuild.                                    *)
LEMMA CreateStep == ASSUME IInv, NEW r \in Requests, CreateContainer(r) PROVE IInv'
<1>0. /\ req[r] \in ReqRecs /\ Shape(req[r]) /\ Facts(req[r])
      /\ req \in [Requests -> ReqRecs] /\ cont \in [{0, 1} -> Containers]
  BY DEF IInv, ReqInv, TableInv
<1>1. /\ req[r].pc = "create" /\ UNCHANGED <<tables, store, secrets, starts>>
      /\ First(req[r].todo) \in req[r].todo /\ req[r].todo \subseteq {0, 1}
  BY Created
<1>2. CASE UNCHANGED cont /\ End(r)
  BY <1>1, <1>2, EndMoves
<1>3. ASSUME cont' = [cont EXCEPT ![First(req[r].todo)] = SpecOf(req[r])],
             NEW q \in ReqRecs, CreatedReq(req[r], q), req' = [req EXCEPT ![r] = q]
      PROVE  IInv'
  <2>1. UNCHANGED <<ha, row, doms, env, keys, store, secrets, starts>>
    BY <1>1 DEF tables
  <2>2. PICK j \in {0, 1} : j = First(req[r].todo)
    BY <1>1
  <2>3. SpecOf(req[r]) \in Containers /\ SpecOf(req[r]).secret \in 1 .. secrets
    BY <1>1, SpecOfRequest
  <2>4. cont' = [cont EXCEPT ![j] = SpecOf(req[r])]
    BY <1>3, <2>2
  <2>5. /\ cont' \in [{0, 1} -> Containers]
        /\ cont'[j] = SpecOf(req[r]) /\ \A i \in {0, 1} \ {j} : cont'[i] = cont[i]
    BY <1>0, <2>3, <2>4
  <2>6. \A i \in {0, 1} : cont'[i].secret \in 1 .. secrets
    BY <2>3, <2>5 DEF IInv, TableInv
  <2>7. TableInv' /\ KeyInv' /\ secrets <= secrets'
    BY <2>1, <2>5, <2>6 DEF IInv, TableInv, KeyInv
  <2>8. \A x \in Requests : Held(req[x]) => keys'[req[x].key].state = "active"
    BY <2>1 DEF IInv, LockInv
  <2>9. CASE q = Idle
    BY <1>1, <1>3, <2>7, <2>8, <2>9, EndKeeps DEF End
  <2>10. CASE req[r].op = "rotate" /\ q = [req[r] EXCEPT !.pc = "commit"]
    <3>1. /\ q.op = "rotate" /\ q.pc = "commit" /\ (q.alone <=> req[r].alone)
          /\ q.key = req[r].key /\ q.secret = req[r].secret
      BY <1>0, <2>10 DEF ReqRecs
    <3>2. req[r].key \in Keys /\ req[r].secret \in 1 .. secrets
      BY <1>0, <1>1, <2>10 DEF Shape
    <3>3. Shape(q)' /\ Facts(q)'
      BY <2>1, <3>1, <3>2 DEF Shape, Facts
    <3>4. /\ keys'[q.key].state = "active" /\ \A x \in Requests \ {r} : ~Held(req[x])
      BY <1>1, <2>1, <2>10, <3>1 DEF IInv, LockInv, Held
    <3> QED
      BY <1>1, <1>3, <2>7, <2>8, <3>1, <3>3, <3>4, StepKeeps
  <2>11. CASE /\ req[r].op = "rebuild" /\ req[r].todo \ {First(req[r].todo)} # {}
              /\ q = [req[r] EXCEPT !.pc = "remove", !.todo = req[r].todo \ {First(req[r].todo)}]
    <3>1. /\ q.op = "rebuild" /\ q.pc = "remove" /\ (q.alone <=> req[r].alone)
          /\ q.todo = req[r].todo \ {j} /\ q.secret = req[r].secret
          /\ q.limits = req[r].limits /\ q.doms = req[r].doms /\ q.env = req[r].env
      BY <1>0, <2>2, <2>11 DEF ReqRecs
    <3>2. q.todo # {} /\ q.secret \in 1 .. secrets
      BY <1>0, <1>1, <2>11, <3>1 DEF Shape
    <3>3. Shape(q)'
      BY <2>1, <3>1, <3>2 DEF Shape
    <3>4. Facts(q)'
      <4>1. ASSUME q.alone, row.status = "running", NEW i \in Replicas \ q.todo
            PROVE  cont'[i] = Expected
        <5>1. CASE i = j
          BY <1>1, <2>5, <2>11, <3>1, <4>1, <5>1, SpecOfRequest
        <5>2. CASE i # j
          <6>1. i \in Replicas \ req[r].todo /\ i \in {0, 1}
            BY <3>1, <4>1, <5>2 DEF Replicas
          <6>2. cont[i] = Expected
            BY <1>0, <1>1, <2>11, <3>1, <4>1, <6>1 DEF Facts
          <6> QED
            BY <2>5, <5>2, <6>1, <6>2
        <5> QED
          BY <5>1, <5>2
      <4>2. q.alone => /\ q.secret = row.secret /\ q.limits = row.limits
                       /\ q.doms = doms /\ q.env = env
        BY <1>0, <1>1, <2>11, <3>1 DEF Facts
      <4>3. Replicas' = Replicas /\ Expected' = Expected /\ row' = row /\ doms' = doms
            /\ env' = env
        BY <2>1 DEF Replicas, Expected
      <4> QED
        BY <3>1, <4>1, <4>2, <4>3 DEF Facts
    <3>5. ~Held(q)
      BY <3>1 DEF Held
    <3> QED
      BY <1>1, <1>3, <2>7, <2>8, <3>1, <3>3, <3>4, <3>5, StepKeeps
  <2> QED
    BY <1>3, <2>9, <2>10, <2>11 DEF CreatedReq
<1> QED
  BY <1>2, <1>3, Created

(* The steps that write a table and end their request.                     *)
LEMMA KeyStep == ASSUME IInv, NEW r \in Requests, CreateDeployKey(r) PROVE IInv'
<1>0. /\ req[r] \in ReqRecs /\ Shape(req[r]) /\ Facts(req[r]) /\ keys \in [Keys -> KeyRows]
  BY DEF IInv, ReqInv, TableInv
<1>1. /\ req[r].pc = "insert" /\ req[r].op = "key" /\ req[r].key \in Keys /\ End(r)
      /\ req[r].secret \in Nat /\ req[r].alone \in BOOLEAN
      /\ UNCHANGED <<ha, row, doms, env, cont, store, secrets, starts>>
      /\ req[r].alone => req[r].secret = row.secret
  BY <1>0 DEF CreateDeployKey, At, Shape, Facts, ReqRecs
<1>2. PICK n \in KeyRows : n = [state |-> "active", secret |-> req[r].secret,
                                raced |-> ~req[r].alone, rotations |-> 0]
  <2>1. PICK b \in BOOLEAN : b = ~req[r].alone
    OBVIOUS
  <2>2. [state |-> "active", secret |-> req[r].secret, raced |-> b, rotations |-> 0]
          \in KeyRows
    BY <1>1 DEF KeyRows
  <2> QED
    BY <2>1, <2>2
<1>3. /\ n.state = "active" /\ n.rotations = 0 /\ n.secret = req[r].secret
      /\ (n.raced <=> ~req[r].alone)
  BY <1>2
<1>4. keys' = [keys EXCEPT ![req[r].key] = n]
  BY <1>2 DEF CreateDeployKey
<1>5. keys' \in [Keys -> KeyRows] /\ keys'[req[r].key] = n
      /\ \A k \in Keys \ {req[r].key} : keys'[k] = keys[k]
  BY <1>0, <1>1, <1>4
<1>6. TableInv'
  BY <1>1, <1>5 DEF IInv, TableInv
<1>7. KeyInv'
  BY <1>1, <1>3, <1>5 DEF IInv, KeyInv
<1>8. ASSUME NEW x \in Requests \ {r}, Held(req[x]) PROVE keys'[req[x].key].state = "active"
  <2>1. req[x].key \in Keys /\ keys[req[x].key].state = "active"
    BY <1>8 DEF IInv, LockInv, ReqInv, Shape, Held
  <2> QED
    BY <1>3, <1>5, <2>1
<1> QED
  BY <1>1, <1>6, <1>7, <1>8, EndKeeps DEF IInv, TableInv

LEMMA ReissueStep == ASSUME IInv, NEW r \in Requests, ReissueAdminKey(r) PROVE IInv'
<1>0. /\ req[r] \in ReqRecs /\ Shape(req[r]) /\ row \in Rows
  BY DEF IInv, ReqInv, TableInv
<1>1. /\ req[r].pc = "update" /\ End(r) /\ req[r].secret \in 1 .. secrets
      /\ req[r].secret \in Nat
      /\ UNCHANGED <<ha, doms, env, keys, cont, store, secrets, starts>>
  BY <1>0 DEF ReissueAdminKey, At, Shape, ReqRecs
<1>2. row' \in Rows /\ row'.secret = row.secret /\ row'.adminKey = req[r].secret
  BY <1>0, <1>1 DEF ReissueAdminKey, Rows
<1>3. TableInv' /\ KeyInv'
  BY <1>1, <1>2 DEF IInv, TableInv, KeyInv
<1> QED
  BY <1>1, <1>3, EndKeeps DEF IInv, TableInv, LockInv

LEMMA PushStep == ASSUME IInv, NEW r \in Requests, PushFunctionEnv(r) PROVE IInv'
<1>1. /\ req[r].pc = "push" /\ End(r) /\ UNCHANGED <<tables, cont, secrets, starts>>
      /\ store' \in 0 .. MaxEnv
  BY DEF PushFunctionEnv, At, IInv, TableInv, ReqInv, ReqRecs
<1>2. UNCHANGED <<ha, row, doms, env, keys, cont, secrets, starts>>
  BY <1>1 DEF tables
<1>3. TableInv' /\ KeyInv'
  BY <1>1, <1>2 DEF IInv, TableInv, KeyInv
<1> QED
  BY <1>1, <1>2, <1>3, EndKeeps DEF IInv, TableInv, LockInv

(* A rotation commits: it held the locks, so its key was active and never  *)
(* rotated, and no other rotation is under way.                            *)
LEMMA CommitStep == ASSUME IInv, NEW r \in Requests, CommitRotation(r) PROVE IInv'
<1>0. /\ req[r] \in ReqRecs /\ Shape(req[r]) /\ row \in Rows /\ keys \in [Keys -> KeyRows]
  BY DEF IInv, ReqInv, TableInv
<1>1. /\ req[r].pc = "commit" /\ req[r].op = "rotate" /\ End(r)
      /\ req[r].secret \in 1 .. secrets /\ req[r].secret \in Nat /\ req[r].key \in Keys
      /\ UNCHANGED <<ha, doms, env, cont, store, secrets, starts>>
  BY <1>0 DEF CommitRotation, At, Shape, ReqRecs
<1>2. CASE UNCHANGED <<row, keys>>
  BY <1>1, <1>2, EndMoves DEF tables
<1>3. CASE ~UNCHANGED <<row, keys>>
  <2>1. /\ row' = [row EXCEPT !.secret = req[r].secret, !.adminKey = req[r].secret,
                              !.status = "running"]
        /\ keys' = [k \in Keys |->
                      [keys[k] EXCEPT !.state = IF @ = "active" THEN "revoked" ELSE @,
                                      !.rotations = IF k = req[r].key THEN @ + 1 ELSE @]]
    BY <1>3 DEF CommitRotation
  <2>2. row' \in Rows /\ row'.secret = req[r].secret /\ row'.adminKey = req[r].secret
    BY <1>0, <1>1, <2>1 DEF Rows
  <2>3. ASSUME NEW k \in Keys
        PROVE  /\ keys'[k] \in KeyRows
               /\ keys'[k].state = IF keys[k].state = "active" THEN "revoked" ELSE keys[k].state
               /\ keys'[k].rotations = IF k = req[r].key THEN keys[k].rotations + 1
                                       ELSE keys[k].rotations
    <3>1. keys[k] \in KeyRows
      BY <1>0
    <3>2. keys'[k] = [keys[k] EXCEPT !.state = IF @ = "active" THEN "revoked" ELSE @,
                                     !.rotations = IF k = req[r].key THEN @ + 1 ELSE @]
      BY <2>1
    <3>3. PICK t \in {"none", "active", "revoked"}, n \in Nat :
             /\ t = IF keys[k].state = "active" THEN "revoked" ELSE keys[k].state
             /\ n = IF k = req[r].key THEN keys[k].rotations + 1 ELSE keys[k].rotations
      BY <3>1 DEF KeyRows
    <3>4. keys'[k] = [keys[k] EXCEPT !.state = t, !.rotations = n]
      BY <3>1, <3>2, <3>3 DEF KeyRows
    <3>5. [keys[k] EXCEPT !.state = t, !.rotations = n] \in KeyRows
          /\ [keys[k] EXCEPT !.state = t, !.rotations = n].state = t
          /\ [keys[k] EXCEPT !.state = t, !.rotations = n].rotations = n
      BY <3>1 DEF KeyRows
    <3> QED
      BY <3>3, <3>4, <3>5
  <2>4. keys' \in [Keys -> KeyRows]
    BY <2>1, <2>3
  <2>5. /\ keys[req[r].key].state = "active" /\ keys[req[r].key].rotations = 0
        /\ \A x \in Requests \ {r} : ~Held(req[x])
    BY <1>1 DEF IInv, LockInv, KeyInv, Held
  <2>6. TableInv'
    BY <1>1, <2>2, <2>4 DEF IInv, TableInv
  <2>7. KeyInv'
    BY <2>3, <2>5 DEF IInv, KeyInv
  <2> QED
    BY <1>1, <2>5, <2>6, <2>7, EndKeeps DEF IInv, TableInv
<1> QED
  BY <1>2, <1>3

(* The deployment is deleted: nothing is said of its containers any more.  *)
LEMMA DeleteStep == ASSUME IInv, DeleteDeployment PROVE IInv'
<1>0. row \in Rows /\ cont \in [{0, 1} -> Containers]
  BY DEF IInv, TableInv
<1>1. UNCHANGED <<ha, doms, env, keys, store, req, secrets, starts>>
  BY DEF DeleteDeployment
<1>2. /\ row' \in Rows /\ row'.status = "deleted" /\ row'.secret = row.secret
      /\ row'.limits = row.limits /\ row'.adminKey = row.adminKey
  BY <1>0 DEF DeleteDeployment, Rows
<1>3. ASSUME NEW i \in {0, 1} PROVE cont'[i] \in Containers /\ cont'[i].secret = cont[i].secret
  <2>1. cont[i] \in Containers /\ cont'[i] = [cont[i] EXCEPT !.up = FALSE]
    BY <1>0 DEF DeleteDeployment
  <2> QED
    BY <2>1 DEF Containers
<1>4. cont' \in [{0, 1} -> Containers]
  BY <1>3 DEF DeleteDeployment
<1>5. TableInv'
  BY <1>1, <1>2, <1>3, <1>4 DEF IInv, TableInv
<1>6. KeyInv' /\ LockInv' /\ AloneInv'
  BY <1>1, <1>2 DEF IInv, KeyInv, LockInv, AloneInv, Held
<1>7. ReqInv'
  BY <1>1, <1>2 DEF IInv, ReqInv, Shape, Facts
<1> QED
  BY <1>5, <1>6, <1>7 DEF IInv

----------------------------------------------------------------------------
LEMMA InitIInv == ASSUME Init PROVE IInv
<1>0. /\ \A i \in {0, 1} : cont[i] = Spec0
      /\ \A k \in Keys : keys[k] = NoKey
      /\ \A r \in Requests : req[r] = Idle
      /\ secrets = 1 /\ starts = 0
      /\ row = [status |-> "running", secret |-> 1, limits |-> 0, adminKey |-> 1]
  BY DEF Init
<1>1. Spec0 \in Containers /\ Spec0.secret = 1
  BY RebakeAssumption DEF Spec0, Containers
<1>2. /\ NoKey \in KeyRows /\ NoKey.state = "none" /\ NoKey.rotations = 0
  BY DEF NoKey, KeyRows
<1>3. row \in Rows /\ row.secret = 1 /\ row.adminKey = 1
  BY <1>0, RebakeAssumption DEF Rows
<1>4. cont \in [{0, 1} -> Containers] /\ keys \in [Keys -> KeyRows]
      /\ req \in [Requests -> ReqRecs]
  BY <1>1, <1>2, IdleInv DEF Init
<1>5. TableInv
  BY <1>0, <1>1, <1>3, <1>4, RebakeAssumption DEF TableInv, Init
<1>6. KeyInv
  BY <1>0, <1>2 DEF KeyInv
<1>7. LockInv /\ AloneInv
  BY <1>0, IdleInv DEF LockInv, AloneInv, Held
<1>8. ReqInv
  BY <1>0, <1>4, IdleInv DEF ReqInv
<1> QED
  BY <1>5, <1>6, <1>7, <1>8 DEF IInv

LEMMA NextIInv == ASSUME IInv, [Next]_vars PROVE IInv'
<1>1. CASE DeleteDeployment
  BY <1>1, DeleteStep
<1>2. ASSUME NEW r \in Requests, Request(r) PROVE IInv'
  BY <1>2, RequestSteps
<1>3. ASSUME NEW r \in Requests, Step(r) PROVE IInv'
  BY <1>3, LoadSteps, RemoveStep, CreateStep, KeyStep, ReissueStep, LockStep, ReadStep,
     CommitStep, PushStep DEF Step
<1>4. CASE UNCHANGED vars
  <2>1. UNCHANGED <<ha, row, doms, env, keys, cont, store, req, secrets, starts>>
    BY <1>4 DEF vars, tables
  <2>2. TableInv' /\ KeyInv'
    BY <2>1 DEF IInv, TableInv, KeyInv
  <2>3. LockInv' /\ AloneInv'
    BY <2>1 DEF IInv, LockInv, AloneInv, Held
  <2>4. ReqInv'
    <3>1. ASSUME NEW x \in Requests PROVE Shape(req[x])' /\ Facts(req[x])'
      <4>1. Shape(req[x]) /\ Facts(req[x])
        BY DEF IInv, ReqInv
      <4>2. Shape(req[x])'
        BY <2>1, <4>1 DEF Shape
      <4>3. Expected' = Expected /\ Replicas' = Replicas
        BY <2>1 DEF Expected, Replicas
      <4>4. Facts(req[x])'
        BY <2>1, <4>1, <4>3 DEF Facts
      <4> QED
        BY <4>2, <4>4
    <3> QED
      BY <2>1, <3>1 DEF IInv, ReqInv
  <2> QED
    BY <2>2, <2>3, <2>4 DEF IInv
<1> QED
  BY <1>1, <1>2, <1>3, <1>4 DEF Next

(* The inductive invariant holds of every behaviour.                       *)
THEOREM IInvHolds == Spec => []IInv
  BY InitIInv, NextIInv, PTL DEF Spec

(* createDeployKey, revokeDeployKey: an active deploy key is signed by the *)
(* secret of the row unless its creation was overlapped, and a key is      *)
(* rotated away at most once however many requests name it.                *)
THEOREM KeysFollowTheSecret == Spec => []ActiveKeysSigned
<1>1. IInv => ActiveKeysSigned
  BY DEF IInv, TableInv, KeyInv, ActiveKeysSigned, TypeOK, Rows, Containers, KeyRows,
     Replicas
<1> QED
  BY <1>1, IInvHolds, PTL

(* Only a rebuild's own CreateContainer brings a container up; whoever     *)
(* else writes cont, nothing comes up that was not.                        *)
LEMMA BringsUp ==
    ASSUME IInv, Next, NEW i \in {0, 1}, ~cont[i].up, cont'[i].up
    PROVE  \E r \in Requests : CreateContainer(r)
<1>0. cont \in [{0, 1} -> Containers] /\ cont' # cont
  BY DEF IInv, TableInv
<1>1. CASE DeleteDeployment
  BY <1>0, <1>1, SMTT(30) DEF DeleteDeployment, Containers
<1>2. ASSUME NEW r \in Requests, Request(r) PROVE FALSE
  BY <1>0, <1>2 DEF Request, ChangeDomain, UpdateResources, BeginCreateDeployKey,
     BeginRevokeDeployKey, BeginReissue, UpdateEnvVars, SyncEnvToDeployments
<1>3. ASSUME NEW r \in Requests, Step(r) PROVE CreateContainer(r)
  <2>1. CASE RemoveContainer(r)
    <3>1. PICK j : cont' = [cont EXCEPT ![j] = [cont[j] EXCEPT !.up = FALSE]]
      BY <1>0, <2>1 DEF RemoveContainer
    <3>2. cont'[i] = cont[i] \/ cont'[i] = [cont[i] EXCEPT !.up = FALSE]
      BY <1>0, <3>1
    <3> QED
      BY <1>0, <3>2 DEF Containers
  <2>2. CASE ~RemoveContainer(r) /\ ~CreateContainer(r)
    BY <1>0, <1>3, <2>2 DEF Step, LoadRow, LoadActiveDomainOrigins, LoadProjectEnvVars,
       CreateDeployKey, ReissueAdminKey, LockDeployment, RuntimeEnvVarsForRecreate,
       CommitRotation, LoadForPush, PushFunctionEnv, PushFails
  <2> QED
    BY <2>1, <2>2
<1> QED
  BY <1>1, <1>2, <1>3 DEF Next

(* rebuildCORSAndRestart: a rebuild nothing overlapped that ends by        *)
(* bringing a container up leaves every replica as the tables say.         *)
THEOREM RebuildsHeal == Spec => RebakeHeals
<1> DEFINE
      Ends(r) == /\ req[r].op = "rebuild" /\ req[r].alone /\ req'[r] = Idle
                 /\ row.status = "running"
                 /\ \E i \in Replicas : ~cont[i].up /\ cont'[i].up
      P == \A r \in Requests : Ends(r) => \A i \in Replicas : cont'[i] = Expected
<1>1. ASSUME IInv, [Next]_vars, NEW r \in Requests, Ends(r), NEW i \in Replicas
      PROVE  cont'[i] = Expected
  <2>1. PICK u \in {0, 1} : ~cont[u].up /\ cont'[u].up
    BY <1>1 DEF Replicas
  <2>2. Next
    BY <1>1, <2>1 DEF vars
  <2>3. PICK x \in Requests : CreateContainer(x)
    BY <1>1, <2>1, <2>2, BringsUp
  <2>4. x = r
    BY <1>1, <2>3, IdleInv DEF IInv, AloneInv, CreateContainer, At
  <2>5. /\ req[r].pc = "create" /\ First(req[r].todo) \in req[r].todo
        /\ req[r].todo \subseteq {0, 1}
        /\ \/ UNCHANGED cont
           \/ /\ cont' = [cont EXCEPT ![First(req[r].todo)] = SpecOf(req[r])]
              /\ \E o \in ReqRecs : CreatedReq(req[r], o) /\ req' = [req EXCEPT ![r] = o]
    BY <1>1, <2>3, <2>4, Created
  <2>6. cont' = [cont EXCEPT ![First(req[r].todo)] = SpecOf(req[r])]
        /\ CreatedReq(req[r], Idle)
    <3>1. cont' # cont
      BY <2>1
    <3>2. req \in [Requests -> ReqRecs]
      BY <1>1 DEF IInv, ReqInv
    <3> QED
      BY <1>1, <2>5, <3>1, <3>2
  <2>7. req[r].todo \ {First(req[r].todo)} = {}
    <3>1. req[r] \in ReqRecs
      BY <1>1 DEF IInv, ReqInv
    <3>2. [req[r] EXCEPT !.pc = "remove", !.todo = req[r].todo \ {First(req[r].todo)}].pc
            = "remove"
      BY <3>1 DEF ReqRecs
    <3> QED
      BY <1>1, <2>6, <3>2, IdleInv DEF CreatedReq
  <2>8. SpecOf(req[r]) = Expected /\ cont \in [{0, 1} -> Containers] /\ i \in {0, 1}
    BY <1>1, <2>5, SpecOfRequest DEF IInv, TableInv, Replicas
  <2>9. CASE i = First(req[r].todo)
    BY <2>6, <2>8, <2>9
  <2>10. CASE i # First(req[r].todo)
    <3>1. i \in Replicas \ req[r].todo
      BY <1>1, <2>7, <2>10
    <3>2. cont[i] = Expected
      BY <1>1, <2>5, <3>1 DEF IInv, ReqInv, Facts
    <3> QED
      BY <2>6, <2>8, <2>10, <3>2
  <2> QED
    BY <2>9, <2>10
<1>2. IInv /\ [Next]_vars => [P]_vars
  BY <1>1
<1>3. Spec => [][P]_vars
  BY <1>2, IInvHolds, PTL DEF Spec
<1> QED
  BY <1>3, PTL DEF RebakeHeals, Expected
=============================================================================
