---------------------------- MODULE FleetProofs ----------------------------
(***************************************************************************)
(* Proofs about hosts, agents, heartbeats, cells and the drift engine, for *)
(* any sets of hosts, agents, deployments and cells, any number of         *)
(* requests in flight and any bounds.                                      *)
(*                                                                         *)
(* The inductive invariant FleetInv has four parts.  HostInv types the     *)
(* hosts and their agents.  SeenInv says what a heartbeat in flight knows  *)
(* and what has been told of each container, and that both are right as    *)
(* long as the container has not turned.  ReqInv gives each request the    *)
(* shape its operation needs, carries what was told through the three      *)
(* reads of a drift computation, and says that a removal about to erase    *)
(* its host holds the row's lock, alone, with nothing alive there.         *)
(* CellInv types the cells and ties desired state to hosts that exist.     *)
(* AgreeInv, kept relative to FleetInv, ties attachments to placements     *)
(* until a deployment is deleted.                                          *)
(***************************************************************************)
EXTENDS Drift, TLAPS

Wanted == [h : Hosts, d : Deployments, c : Cells, want : {"running", "stopped"}]
Observed == [h : Hosts, d : Deployments, st : {"running", "exited"}]
Verdicts == {"orphaned", "host_unreachable", "missing", "drifted", "in_sync", "unmanaged"}
Items == [h : Hosts, d : Deployments, want : {"none", "running", "stopped"},
          is : Verdicts]
States == {"none", "running", "exited"}
Tellings == {"no", "up", "gone"}
Beats == [at : {"idle", "auth", "tx", "facts", "rows", "prune"}, a : Agents \cup {None},
          list : [Deployments -> States], ok : BOOLEAN, todo : SUBSET Deployments,
          same : SUBSET Deployments]
AgentRows == [host : Hosts \cup {None}, st : {"none", "online", "revoked"}]
TokenRows == [host : Hosts \cup {None},
              st : {"none", "open", "lost", "used", "expired"}]
DepRows == [st : {"none", "live", "deleted"}, host : Hosts \cup {None}, ext : BOOLEAN]
CellRows == [st : {"none", "active", "draining", "gone"}, host : Hosts \cup {None},
             main : Deployments \cup {None}]
Places == [c : Cells \cup {None}, h : Hosts \cup {None},
           want : {"none", "running", "stopped"}]
Links == [st : {"none", "active", "disabled"}, src : Cells \cup {None},
          dst : Cells \cup {None}]

(* What the requests read, each in its own form (Shape).                   *)
Notes == Statuses \cup BOOLEAN \cup {"running", "stopped"} \cup Wanted \cup Items
Saws == (SUBSET Notes) \cup (Cells \X Cells)
Bases == SUBSET (Wanted \cup Observed)
Ops == {"none", "update", "remove", "create", "drop", "attach", "seat", "backfill",
        "link", "sync", "drift", "delete"}
Labels == {"idle", "write", "teardown", "lock", "erase", "insert", "delete", "check",
           "decide", "commit", "rows", "judge", "persist", "desired", "placement",
           "resource", "primary"}
Cleanups == {"desired", "placement", "resource", "primary"}
ReqRecs == [op : Ops, at : Labels, h : Hosts \cup {None}, c : Cells \cup {None},
            d : Deployments \cup {None}, saw : Saws, base : Bases,
            sure : [Deployments -> Tellings]]

HostInv ==
    /\ host \in [Hosts -> Statuses \cup {"none", "gone"}]
    /\ beat \in [Hosts -> {"never", "fresh", "old"}]
    /\ lock \subseteq Hosts
    /\ agent \in [Agents -> AgentRows] /\ token \in [Tokens -> TokenRows]
    /\ runs \in [Hosts -> Agents \cup {None}]
    /\ facts \in [Hosts -> {"none", "ok", "bad"}]
    /\ ops \in 0 .. MaxOps /\ events \in 0 .. MaxEvents

(* What is recorded and still true: up, with a row, or gone, without.      *)
ToldOK(d) ==
    /\ Live(d) => dep[d].host \in Hosts
    /\ Up(d) => Live(d)
    /\ told[d] = "up" => Live(d) /\ Up(d) /\ rows[dep[d].host][d] # "none"
    /\ told[d] = "gone" => Live(d) /\ ~Up(d) /\ rows[dep[d].host][d] = "none"

(* A heartbeat is right about the containers that have not turned since    *)
(* its scan; of the others nothing is told.                                *)
BeatOK(h, b) ==
    /\ b.todo \subseteq {d \in Deployments : b.list[d] # "none"}
    /\ ~b.ok => b.list = Nothing
    /\ \A d \in b.same : b.list[d] # "none" => d \in LiveOn(h) /\ Up(d)
    /\ b.ok => \A d \in b.same : b.list[d] = "none" /\ d \in LiveOn(h) => ~Up(d)
    /\ b.at # "idle" => \A d \in Deployments \ b.same : dep[d].host = h => told[d] = "no"

SeenInv ==
    /\ rows \in [Hosts -> [Deployments -> States]]
    /\ dep \in [Deployments -> DepRows] /\ cont \in [Deployments -> States]
    /\ told \in [Deployments -> Tellings]
    /\ \A d \in Deployments : ToldOK(d)
    /\ hb \in [Hosts -> Beats] /\ \A h \in Hosts : BeatOK(h, hb[h])

(* What a request carries, by what it does.                                *)
Shape(q) ==
    /\ q.op # "drift" => \A d \in Deployments : q.sure[d] = "no"
    /\ q.op = "update" => q.h \in Hosts /\ \E s \in Statuses : q.saw = {s}
    /\ q.op = "remove" => q.h \in Hosts \ {Self}
    /\ q.op = "create" => q.h \in Hosts /\ q.d \in Deployments
    /\ q.op = "drop" => q.c \in Cells
    /\ q.op = "attach" => q.c \in Cells /\ q.d \in Deployments
    /\ q.op = "seat" => q.h \in Hosts /\ q.c \in Cells
    /\ q.op = "backfill" => q.d \in Deployments /\ q.saw \subseteq {"running", "stopped"}
    /\ q.op = "link" => q.saw \in Cells \X Cells
    /\ q.op = "sync" => q.saw \subseteq Wanted
    /\ q.op = "delete" => q.d \in Deployments /\ q.at \in Cleanups
    /\ q.op = "drift" => /\ q.at \in {"rows", "judge"} =>
                               q.saw \subseteq {x \in Wanted : q.h = None \/ x.h = q.h}
                         /\ q.at = "judge" => q.base \subseteq Observed
                         /\ q.at = "persist" => q.saw \subseteq Items

(* What a computation of drift was told is still so; the rows it read and  *)
(* the items it wrote agree with it, those of a cell's report only as far  *)
(* as a row it found goes.                                                 *)
RowOf(q, d) == \E o \in q.base : o.h = dep[d].host /\ o.d = d
Reads(q, d) == q.c = None /\ (q.h = None \/ q.h = dep[d].host)
DriftOK(q) ==
    \A d \in Deployments : q.sure[d] # "no" =>
      /\ told[d] = q.sure[d]
      /\ q.at = "judge" => /\ q.sure[d] = "up" /\ Reads(q, d) => RowOf(q, d)
                           /\ q.sure[d] = "gone" => ~RowOf(q, d)
      /\ q.at = "persist" => \A i \in q.saw : i.d = d /\ i.h = dep[d].host =>
            /\ i.is = "missing" /\ q.c = None => q.sure[d] # "up"
            /\ i.want = "running" /\ q.sure[d] = "gone" => i.is # "in_sync"

(* A removal about to erase its host holds the row, alone, and nothing     *)
(* lives there.                                                            *)
Erases(q) == q.op = "remove" /\ q.at = "erase"
RemoveInv ==
    /\ \A r \in Requests : Erases(req[r]) => LiveOn(req[r].h) = {} /\ req[r].h \in lock
    /\ \A r, s \in Requests : Erases(req[r]) /\ Erases(req[s]) /\ req[r].h = req[s].h
                                 => r = s
    /\ tripped = FALSE

ReqInv ==
    /\ req \in [Requests -> ReqRecs]
    /\ \A r \in Requests : Shape(req[r]) /\ DriftOK(req[r])
    /\ RemoveInv

(* A placement names a cell and a wish, or nothing at all.                 *)
PlaceOK(p) == p = NoPlace \/ (p.c \in Cells /\ p.want # "none")

CellInv ==
    /\ cell \in [Cells -> CellRows] /\ res \in [Deployments -> Cells \cup {None}]
    /\ place \in [Deployments -> Places] /\ link \in Links
    /\ svc \in {"none", "active", "revoked"}
    /\ \A x \in desired : x \in Wanted /\ Exists(x.h)
    /\ \A d \in Deployments : PlaceOK(place[d])

FleetInv == HostInv /\ SeenInv /\ ReqInv /\ CellInv

----------------------------------------------------------------------------
(* Frames: what leaves each part as it is.                                 *)

LEMMA HostKept ==
    ASSUME HostInv, UNCHANGED <<host, beat, lock, agentVars, facts, events>>,
           ops' \in 0 .. MaxOps
    PROVE  HostInv'
  BY DEF HostInv, agentVars

LEMMA SeenKept == ASSUME SeenInv, UNCHANGED <<hb, rows, cont, told, dep>> PROVE SeenInv'
<1>1. \A d \in Deployments : ToldOK(d)'
  BY DEF SeenInv, ToldOK, Live, Up
<1>2. \A h \in Hosts : BeatOK(h, hb[h])'
  BY DEF SeenInv, BeatOK, LiveOn, Live, Up
<1> QED
  BY <1>1, <1>2 DEF SeenInv

LEMMA CellKept ==
    ASSUME CellInv, UNCHANGED cellVars, \A h \in Hosts : Exists(h) => Exists(h)'
    PROVE  CellInv'
<1>1. \A x \in desired : x.h \in Hosts
  BY DEF CellInv, Wanted
<1> QED
  BY <1>1 DEF CellInv, cellVars

LEMMA ReqKept ==
    ASSUME ReqInv, UNCHANGED <<req, lock, dep, told, tripped>> PROVE ReqInv'
<1>1. \A r \in Requests : Shape(req[r])' /\ DriftOK(req[r])'
  BY DEF ReqInv, Shape, DriftOK, RowOf, Reads
<1>2. RemoveInv'
  BY DEF ReqInv, RemoveInv, Erases, LiveOn, Live
<1> QED
  BY <1>1, <1>2 DEF ReqInv

(* What a computation was told keeps holding where it is still told.       *)
LEMMA DriftFrame ==
    ASSUME \A r \in Requests : DriftOK(req'[r]),
           \A d \in Deployments : told[d] # "no" => dep'[d].host = dep[d].host,
           \A r \in Requests, d \in Deployments :
              req'[r].sure[d] # "no" => told'[d] = told[d]
    PROVE  \A r \in Requests : DriftOK(req[r])'
<1> SUFFICES ASSUME NEW r \in Requests, NEW d \in Deployments, req'[r].sure[d] # "no"
             PROVE  /\ told'[d] = req'[r].sure[d]
                    /\ req'[r].at = "judge" =>
                          /\ req'[r].sure[d] = "up" /\ Reads(req[r], d)' => RowOf(req[r], d)'
                          /\ req'[r].sure[d] = "gone" => ~RowOf(req[r], d)'
                    /\ req'[r].at = "persist" =>
                          \A i \in req'[r].saw : i.d = d /\ i.h = dep'[d].host =>
                             /\ i.is = "missing" /\ req'[r].c = None
                                   => req'[r].sure[d] # "up"
                             /\ i.want = "running" /\ req'[r].sure[d] = "gone"
                                   => i.is # "in_sync"
  BY DEF DriftOK
<1>1. told[d] = req'[r].sure[d] /\ told'[d] = told[d]
  BY DEF DriftOK
<1>2. dep'[d].host = dep[d].host
  BY <1>1
<1>3. (RowOf(req[r], d)' <=> RowOf(req'[r], d)) /\ (Reads(req[r], d)' <=> Reads(req'[r], d))
  BY <1>2 DEF RowOf, Reads
<1>4. req'[r].at = "judge" => /\ req'[r].sure[d] = "up" /\ Reads(req'[r], d)
                                    => RowOf(req'[r], d)
                              /\ req'[r].sure[d] = "gone" => ~RowOf(req'[r], d)
  BY DEF DriftOK
<1>5. req'[r].at = "persist" =>
         \A i \in req'[r].saw : i.d = d /\ i.h = dep[d].host =>
            /\ i.is = "missing" /\ req'[r].c = None => req'[r].sure[d] # "up"
            /\ i.want = "running" /\ req'[r].sure[d] = "gone" => i.is # "in_sync"
  BY DEF DriftOK
<1> QED
  BY <1>1, <1>2, <1>3, <1>4, <1>5

(* One request moves, and not to the erasure of a host.                    *)
LEMMA ReqMoves ==
    ASSUME ReqInv, UNCHANGED <<lock, dep, told, tripped>>, NEW r \in Requests,
           NEW q \in ReqRecs, req' = [req EXCEPT ![r] = q], Shape(q), DriftOK(q),
           ~Erases(q)
    PROVE  ReqInv'
<1>1. /\ req' \in [Requests -> ReqRecs] /\ req'[r] = q
      /\ \A s \in Requests \ {r} : req'[s] = req[s]
  BY DEF ReqInv
<1>2. \A s \in Requests : Shape(req'[s])
  BY <1>1 DEF ReqInv
<1>3. \A s \in Requests : DriftOK(req'[s])
  BY <1>1 DEF ReqInv
<1>4. \A s \in Requests : DriftOK(req[s])'
  BY <1>3 DEF DriftOK, RowOf, Reads
<1>5. \A s \in Requests : Erases(req'[s]) => s # r /\ Erases(req[s]) /\ req'[s] = req[s]
  BY <1>1
<1>6. RemoveInv'
  BY <1>5 DEF ReqInv, RemoveInv, Erases, LiveOn, Live
<1>7. \A s \in Requests : Shape(req[s])'
  BY <1>2 DEF Shape
<1> QED
  BY <1>1, <1>4, <1>6, <1>7 DEF ReqInv

----------------------------------------------------------------------------
(* Requests.                                                               *)

LEMMA SawForms ==
    ASSUME NEW x,
           \/ x = {} \/ x \subseteq Statuses \/ x \subseteq BOOLEAN
           \/ x \subseteq {"running", "stopped"} \/ x \subseteq Wanted
           \/ x \subseteq Items \/ x \in Cells \X Cells
    PROVE  x \in Saws
  BY DEF Saws, Notes

LEMMA IdleForm ==
    /\ Idle \in ReqRecs /\ Idle.op = "none" /\ Idle.at = "idle" /\ Idle.base = {}
    /\ \A d \in Deployments : Idle.sure[d] = "no"
    /\ Idle.sure \in [Deployments -> Tellings]
<1>1. {} \in Saws /\ {} \in Bases
  BY SawForms DEF Bases
<1> QED
  BY <1>1 DEF Idle, ReqRecs, Ops, Labels, Tellings

LEMMA IdleOK == Shape(Idle) /\ DriftOK(Idle) /\ ~Erases(Idle)
  BY IdleForm DEF Shape, DriftOK, Erases

LEMMA BusyCounts ==
    ASSUME HostInv PROVE Busy => ops' \in 0 .. MaxOps
  BY FleetAssumption DEF HostInv, Busy

LEMMA FaultCounts ==
    ASSUME HostInv PROVE Fault => events' \in 0 .. MaxEvents
  BY FleetAssumption DEF HostInv, Fault

LEMMA TakeForm ==
    ASSUME NEW r \in Requests, NEW op \in Ops, NEW at \in Labels,
           NEW h \in Hosts \cup {None}, NEW c \in Cells \cup {None},
           NEW d \in Deployments \cup {None}, NEW saw \in Saws,
           Take(r, op, at, h, c, d, saw)
    PROVE  Busy /\ \E q \in ReqRecs :
              /\ req' = [req EXCEPT ![r] = q]
              /\ q.op = op /\ q.at = at /\ q.h = h /\ q.c = c /\ q.d = d /\ q.saw = saw
              /\ \A e \in Deployments : q.sure[e] = "no"
<1>1. PICK q \in ReqRecs : q = [Idle EXCEPT !.op = op, !.at = at, !.h = h, !.c = c,
                                            !.d = d, !.saw = saw]
  BY IdleForm DEF ReqRecs
<1>2. /\ q.op = op /\ q.at = at /\ q.h = h /\ q.c = c /\ q.d = d /\ q.saw = saw
      /\ q.sure = Idle.sure
  BY <1>1, IdleForm DEF ReqRecs
<1> QED
  BY <1>1, <1>2, IdleForm DEF Take

LEMMA TakeMoves ==
    ASSUME ReqInv, UNCHANGED <<lock, dep, told, tripped>>, NEW r \in Requests,
           NEW q \in ReqRecs, req' = [req EXCEPT ![r] = q], Shape(q), ~Erases(q),
           \A e \in Deployments : q.sure[e] = "no"
    PROVE  ReqInv'
  BY ReqMoves DEF DriftOK

LEMMA DoneMoves ==
    ASSUME ReqInv, UNCHANGED <<lock, dep, told, tripped>>, NEW r \in Requests, Done(r)
    PROVE  ReqInv'
  BY IdleForm, IdleOK, ReqMoves DEF Done

(* A request goes on to another step than the erasure.                     *)
LEMMA GoOnMoves ==
    ASSUME ReqInv, UNCHANGED <<lock, dep, told, tripped>>, NEW r \in Requests,
           NEW at \in Labels \ {"erase"}, req[r].op # "drift", GoOn(r, at),
           req[r].op = "delete" => at \in Cleanups
    PROVE  ReqInv'
<1>1. req[r] \in ReqRecs /\ Shape(req[r]) /\ req \in [Requests -> ReqRecs]
  BY DEF ReqInv
<1>2. PICK q \in ReqRecs : q = [req[r] EXCEPT !.at = at]
  BY <1>1 DEF ReqRecs
<1>3. /\ q.op = req[r].op /\ q.at = at /\ q.h = req[r].h /\ q.c = req[r].c
      /\ q.d = req[r].d /\ q.saw = req[r].saw /\ q.sure = req[r].sure
  BY <1>1, <1>2 DEF ReqRecs
<1>4. req' = [req EXCEPT ![r] = q]
  BY <1>1, <1>2 DEF GoOn
<1>5. Shape(q) /\ ~Erases(q) /\ \A e \in Deployments : q.sure[e] = "no"
  BY <1>1, <1>3 DEF Shape, Erases
<1> QED
  BY <1>4, <1>5, TakeMoves

----------------------------------------------------------------------------
(* Hosts.                                                                  *)

LEMMA SameSeen == UNCHANGED seenVars <=> UNCHANGED <<hb, facts, rows, cont, told>>
  BY DEF seenVars

LEMMA CreateHostStep ==
    ASSUME FleetInv, NEW h \in Hosts, CreateHost(h), UNCHANGED cellVars
    PROVE  FleetInv'
<1>1. UNCHANGED <<beat, lock, agentVars, hb, facts, rows, cont, told, dep, tripped, events, req>>
      /\ ops' \in 0 .. MaxOps
  BY SameSeen, BusyCounts DEF CreateHost, Call, FleetInv
<1>2. host' \in [Hosts -> Statuses \cup {"none", "gone"}]
      /\ \A g \in Hosts : Exists(g) => Exists(g)'
  BY DEF CreateHost, FleetInv, HostInv, Exists, Statuses
<1>3. HostInv'
  BY <1>1, <1>2 DEF FleetInv, HostInv, agentVars
<1> QED
  BY <1>1, <1>2, <1>3, SeenKept, ReqKept, CellKept DEF FleetInv

LEMMA LoadHostStep ==
    ASSUME FleetInv, NEW r \in Requests, NEW h \in Hosts, LoadHostForUpdate(r, h),
           UNCHANGED cellVars
    PROVE  FleetInv'
<1>1. UNCHANGED <<host, beat, lock, agentVars, hb, facts, rows, cont, told, dep, tripped, events>>
  BY SameSeen DEF LoadHostForUpdate
<1>2. PICK s \in Statuses : Take(r, "update", "write", h, None, None, {s})
  BY DEF LoadHostForUpdate, Exists, Statuses
<1>3. {s} \in Saws /\ "update" \in Ops /\ "write" \in Labels
  BY SawForms DEF Ops, Labels
<1>4. PICK q \in ReqRecs :
        /\ req' = [req EXCEPT ![r] = q]
        /\ q.op = "update" /\ q.h = h /\ q.saw = {s}
        /\ \A e \in Deployments : q.sure[e] = "no"
  BY <1>2, <1>3, TakeForm
<1>5. Shape(q) /\ ~Erases(q)
  BY <1>4 DEF Shape, Erases
<1>6. ops' \in 0 .. MaxOps
  BY <1>2, BusyCounts DEF Take, FleetInv
<1>7. ReqInv'
  BY <1>1, <1>4, <1>5, TakeMoves DEF FleetInv
<1> QED
  BY <1>1, <1>6, <1>7, HostKept, SeenKept, CellKept DEF FleetInv, Exists

LEMMA WriteHostStep ==
    ASSUME FleetInv, NEW r \in Requests, WriteHost(r), UNCHANGED cellVars
    PROVE  FleetInv'
<1>1. /\ UNCHANGED <<beat, lock, agentVars, hb, facts, rows, cont, told, dep, tripped, events>>
      /\ Done(r) /\ ops' = ops
  BY SameSeen DEF WriteHost, Done
<1>2. PICK s \in Statuses : req[r].saw = {s} /\ req[r].h \in Hosts
  BY DEF WriteHost, At, FleetInv, ReqInv, Shape
<1>3. (CHOOSE x \in req[r].saw : TRUE) = s
  BY <1>2
<1>4. host' = host \/ host' = [host EXCEPT ![req[r].h] = s]
  BY <1>3 DEF WriteHost
<1>5. host' \in [Hosts -> Statuses \cup {"none", "gone"}]
      /\ \A g \in Hosts : Exists(g) => Exists(g)'
  BY <1>2, <1>4 DEF FleetInv, HostInv, Exists
<1>6. HostInv'
  BY <1>1, <1>5 DEF FleetInv, HostInv, agentVars
<1> QED
  BY <1>1, <1>5, <1>6, SeenKept, DoneMoves, CellKept DEF FleetInv

LEMMA DrainHostStep ==
    ASSUME FleetInv, NEW h \in Hosts, DrainHost(h), UNCHANGED cellVars
    PROVE  FleetInv'
<1>1. UNCHANGED <<beat, lock, agentVars, hb, facts, rows, cont, told, dep, tripped, events, req>>
      /\ ops' \in 0 .. MaxOps
  BY SameSeen, BusyCounts DEF DrainHost, Call, FleetInv
<1>2. host' \in [Hosts -> Statuses \cup {"none", "gone"}]
      /\ \A g \in Hosts : Exists(g) => Exists(g)'
  BY DEF DrainHost, FleetInv, HostInv, Exists, Statuses
<1>3. HostInv'
  BY <1>1, <1>2 DEF FleetInv, HostInv, agentVars
<1> QED
  BY <1>1, <1>2, <1>3, SeenKept, ReqKept, CellKept DEF FleetInv

LEMMA CheckRemovalStep ==
    ASSUME FleetInv, NEW r \in Requests, NEW h \in Hosts, CheckRemoval(r, h),
           UNCHANGED cellVars
    PROVE  FleetInv'
<1>1. /\ UNCHANGED <<host, beat, lock, agentVars, hb, facts, rows, cont, told, dep,
                   tripped, events>>
      /\ h # Self /\ Take(r, "remove", "teardown", h, None, None, {})
  BY SameSeen DEF CheckRemoval
<1>2. {} \in Saws /\ "remove" \in Ops /\ "teardown" \in Labels
  BY SawForms DEF Ops, Labels
<1>3. PICK q \in ReqRecs :
        /\ req' = [req EXCEPT ![r] = q]
        /\ q.op = "remove" /\ q.at = "teardown" /\ q.h = h
        /\ \A e \in Deployments : q.sure[e] = "no"
  BY <1>1, <1>2, TakeForm
<1>4. Shape(q) /\ ~Erases(q)
  BY <1>1, <1>3 DEF Shape, Erases
<1>5. ops' \in 0 .. MaxOps
  BY <1>1, BusyCounts DEF Take, FleetInv
<1>6. ReqInv'
  BY <1>1, <1>3, <1>4, TakeMoves DEF FleetInv
<1> QED
  BY <1>1, <1>5, <1>6, HostKept, SeenKept, CellKept DEF FleetInv, Exists

LEMMA TeardownStep ==
    ASSUME FleetInv, NEW r \in Requests, Teardown(r), UNCHANGED cellVars
    PROVE  FleetInv'
<1>1. /\ UNCHANGED <<host, beat, lock, agent, token, hb, facts, rows, cont, told, dep, tripped>>
      /\ GoOn(r, "lock") /\ ops' = ops /\ req[r].op = "remove"
  BY SameSeen DEF Teardown, GoOn, At
<1>2. req[r].h \in Hosts
  BY <1>1 DEF FleetInv, ReqInv, Shape
<1>3. runs' \in [Hosts -> Agents \cup {None}] /\ events' \in 0 .. MaxEvents
  BY <1>2, FaultCounts DEF Teardown, FleetInv, HostInv
<1>4. HostInv'
  BY <1>1, <1>3 DEF FleetInv, HostInv
<1>5. ReqInv'
  <2>1. "lock" \in Labels \ {"erase"}
    BY DEF Labels
  <2> QED
    BY <1>1, <2>1, GoOnMoves DEF FleetInv
<1> QED
  BY <1>1, <1>4, <1>5, SeenKept, CellKept DEF FleetInv, Exists

(* The lock is taken with nothing alive on the host, and by one removal.   *)
LEMMA LockHostStep ==
    ASSUME FleetInv, NEW r \in Requests, LockHost(r), UNCHANGED cellVars
    PROVE  FleetInv'
<1>1. /\ UNCHANGED <<host, beat, agentVars, hb, facts, rows, cont, told, dep, tripped, events>>
      /\ req[r].op = "remove" /\ req[r].at = "lock" /\ req[r].h \notin lock
  BY SameSeen DEF LockHost, At, Free
<1>2. req \in [Requests -> ReqRecs] /\ Shape(req[r]) /\ RemoveInv
  BY DEF FleetInv, ReqInv
<1>3. CASE LiveOn(req[r].h) = {}
  <2>1. GoOn(r, "erase") /\ lock' = lock \cup {req[r].h} /\ ops' = ops
    BY <1>3 DEF LockHost, Held, GoOn
  <2>2. req[r].h \in Hosts \ {Self}
    BY <1>1, <1>2 DEF Shape
  <2>3. PICK q \in ReqRecs : q = [req[r] EXCEPT !.at = "erase"]
    BY <1>2 DEF ReqRecs, Labels
  <2>4. /\ q.op = req[r].op /\ q.at = "erase" /\ q.h = req[r].h /\ q.sure = req[r].sure
    BY <1>2, <2>3 DEF ReqRecs
  <2>5. /\ req' \in [Requests -> ReqRecs] /\ req'[r] = q
        /\ \A s \in Requests \ {r} : req'[s] = req[s]
    BY <1>2, <2>1, <2>3 DEF GoOn
  <2>6. Shape(q) /\ DriftOK(q)
    BY <1>1, <1>2, <2>2, <2>4 DEF Shape, DriftOK
  <2>7. \A s \in Requests : Shape(req[s])' /\ DriftOK(req[s])'
    <3>1. \A s \in Requests : Shape(req'[s]) /\ DriftOK(req'[s])
      BY <2>5, <2>6 DEF FleetInv, ReqInv
    <3> QED
      BY <1>1, <3>1 DEF Shape, DriftOK, RowOf, Reads
  <2>8. RemoveInv'
    <3>2. ASSUME NEW s \in Requests, Erases(req'[s])
          PROVE  LiveOn(req'[s].h) = {} /\ req'[s].h \in lock'
                 /\ req'[s].h \in Hosts /\ (s # r => req'[s].h # req[r].h)
      <4>1. CASE s = r
        BY <1>3, <2>1, <2>2, <2>4, <2>5, <4>1
      <4>2. CASE s # r
        <5>1. req'[s] = req[s] /\ Erases(req[s])
          BY <2>5, <3>2, <4>2
        <5>2. req[s].h \in Hosts
          BY <5>1 DEF FleetInv, ReqInv, Shape, Erases
        <5> QED
          BY <1>1, <1>2, <2>1, <5>1, <5>2 DEF RemoveInv
      <4> QED
        BY <4>1, <4>2
    <3>3. ASSUME NEW s \in Requests, NEW t \in Requests, Erases(req'[s]), Erases(req'[t]),
                 req'[s].h = req'[t].h
          PROVE  s = t
      <4>1. CASE s # r /\ t # r
        BY <1>2, <2>5, <3>3, <4>1 DEF RemoveInv
      <4>2. CASE s = r \/ t = r
        BY <2>4, <2>5, <3>2, <3>3, <4>2
      <4> QED
        BY <4>1, <4>2
    <3>4. \A s \in Requests : Erases(req'[s]) => LiveOn(req[s].h)' = {}
      BY <1>1, <3>2 DEF LiveOn, Live
    <3> QED
      BY <1>1, <1>2, <3>2, <3>3, <3>4 DEF RemoveInv, Erases, LiveOn, Live
  <2>9. ReqInv'
    BY <2>5, <2>7, <2>8 DEF ReqInv
  <2>10. HostInv'
    BY <1>1, <2>1, <2>2 DEF FleetInv, HostInv, agentVars
  <2> QED
    BY <1>1, <2>9, <2>10, SeenKept, CellKept DEF FleetInv, Exists
<1>4. CASE LiveOn(req[r].h) # {}
  <2>1. Done(r) /\ lock' = lock /\ ops' = ops
    BY <1>4 DEF LockHost, Done
  <2>2. ops' \in 0 .. MaxOps
    BY <2>1 DEF FleetInv, HostInv
  <2> QED
    BY <1>1, <2>1, <2>2, HostKept, SeenKept, DoneMoves, CellKept DEF FleetInv, Exists
<1> QED
  BY <1>3, <1>4

(* The tables of a host go, and nothing that lives moves.                  *)
LEMMA ErasedDeps ==
    ASSUME SeenInv, NEW h \in Hosts, LiveOn(h) = {},
           dep' = [d \in Deployments |-> IF dep[d].host = h
                     THEN [dep[d] EXCEPT !.host = Self] ELSE dep[d]]
    PROVE  /\ dep' \in [Deployments -> DepRows]
           /\ \A d \in Deployments : /\ dep'[d].st = dep[d].st
                                     /\ dep'[d] = dep[d] \/ ~Live(d)
           /\ \A d \in Deployments : Live(d)' = Live(d)
           /\ \A g : LiveOn(g)' = LiveOn(g)
<1>1. ASSUME NEW d \in Deployments
      PROVE  /\ dep'[d] \in DepRows /\ dep'[d].st = dep[d].st
             /\ dep'[d] = dep[d] \/ ~Live(d)
  <2>1. dep[d] \in DepRows
    BY DEF SeenInv
  <2>2. dep'[d] = IF dep[d].host = h THEN [dep[d] EXCEPT !.host = Self] ELSE dep[d]
    OBVIOUS
  <2>3. dep[d].host = h => ~Live(d)
    BY DEF LiveOn
  <2> QED
    BY <2>1, <2>2, <2>3, FleetAssumption DEF DepRows
<1>2. dep' = [d \in Deployments |-> dep'[d]]
  OBVIOUS
<1> QED
  BY <1>1, <1>2 DEF LiveOn, Live

LEMMA ErasedSeen ==
    ASSUME SeenInv, NEW h \in Hosts, LiveOn(h) = {},
           dep' = [d \in Deployments |-> IF dep[d].host = h
                     THEN [dep[d] EXCEPT !.host = Self] ELSE dep[d]],
           rows' = [rows EXCEPT ![h] = Nothing], UNCHANGED <<hb, cont, told>>
    PROVE  SeenInv'
<1>1. /\ rows' \in [Hosts -> [Deployments -> States]]
      /\ \A g \in Hosts \ {h} : rows'[g] = rows[g]
  BY DEF SeenInv, Nothing, States
<1>2. \A d \in Deployments : ToldOK(d)'
  <2> SUFFICES ASSUME NEW d \in Deployments PROVE ToldOK(d)'
    OBVIOUS
  <2>1. ToldOK(d) /\ Up(d)' = Up(d) /\ Live(d)' = Live(d) /\ (Live(d) => dep'[d] = dep[d])
    BY ErasedDeps DEF SeenInv, Up
  <2>2. Live(d) => dep[d].host \in Hosts \ {h}
    BY <2>1 DEF ToldOK, LiveOn
  <2> QED
    BY <1>1, <2>1, <2>2 DEF ToldOK
<1>3. \A g \in Hosts : BeatOK(g, hb[g])'
  <2> SUFFICES ASSUME NEW g \in Hosts PROVE BeatOK(g, hb[g])'
    OBVIOUS
  <2>1. LiveOn(g)' = LiveOn(g) /\ BeatOK(g, hb[g])
    BY ErasedDeps DEF SeenInv
  <2>2. \A d \in Deployments : told[d] # "no" => dep'[d] = dep[d]
    <3>1. \A d \in Deployments : told[d] # "no" => Live(d)
      BY DEF SeenInv, ToldOK, Tellings
    <3> QED
      BY <3>1, ErasedDeps
  <2> QED
    BY <2>1, <2>2 DEF BeatOK, Up
<1> QED
  BY <1>1, <1>2, <1>3, ErasedDeps DEF SeenInv

LEMMA ErasedReq ==
    ASSUME FleetInv, NEW r \in Requests, Erases(req[r]), NEW h, h = req[r].h,
           dep' = [d \in Deployments |-> IF dep[d].host = h
                     THEN [dep[d] EXCEPT !.host = Self] ELSE dep[d]],
           lock' = lock \ {h}, Done(r), UNCHANGED <<told, tripped>>
    PROVE  ReqInv'
<1>1. /\ req \in [Requests -> ReqRecs] /\ RemoveInv /\ h \in Hosts /\ LiveOn(h) = {}
  BY DEF FleetInv, ReqInv, RemoveInv, Shape, Erases
<1>2. /\ req' \in [Requests -> ReqRecs] /\ req'[r] = Idle
      /\ \A s \in Requests \ {r} : req'[s] = req[s]
  BY <1>1, IdleForm DEF Done
<1>3. \A s \in Requests : Shape(req[s])'
  <2>1. \A s \in Requests : Shape(req'[s])
    BY <1>2, IdleOK DEF FleetInv, ReqInv
  <2> QED
    BY <2>1 DEF Shape
<1>4. \A s \in Requests : DriftOK(req[s])'
  <2>1. \A s \in Requests : DriftOK(req'[s])
    BY <1>2, IdleOK DEF FleetInv, ReqInv
  <2>2. \A d \in Deployments : told[d] # "no" => dep'[d] = dep[d]
    <3>1. \A d \in Deployments : told[d] # "no" => Live(d)
      BY DEF FleetInv, SeenInv, ToldOK, Tellings
    <3> QED
      BY <1>1, <3>1, ErasedDeps DEF FleetInv
  <2> QED
    BY <1>2, <2>1, <2>2, DriftFrame
<1>5. RemoveInv'
  <2>1. \A s \in Requests : Erases(req'[s]) => s # r /\ req'[s] = req[s] /\ Erases(req[s])
    BY <1>2, IdleOK
  <2>2. \A s \in Requests : Erases(req'[s]) => req'[s].h # h
    BY <1>1, <2>1 DEF RemoveInv
  <2>3. \A s \in Requests : LiveOn(req'[s].h) = LiveOn(req[s].h)'
    BY <1>1, ErasedDeps DEF FleetInv, LiveOn, Live
  <2> QED
    BY <1>1, <2>1, <2>2, <2>3 DEF RemoveInv, Erases
<1> QED
  BY <1>2, <1>3, <1>4, <1>5 DEF ReqInv

(* A removal that reaches the erasure never meets the foreign key.         *)
LEMMA EraseHostStep ==
    ASSUME FleetInv, NEW r \in Requests, EraseHostEverywhere(r)
    PROVE  FleetInv'
<1>1. PICK h \in Hosts : h = req[r].h /\ LiveOn(h) = {} /\ Erases(req[r])
  <2>1. Erases(req[r])
    BY DEF EraseHostEverywhere, EraseHost, At, Erases
  <2> QED
    BY <2>1 DEF FleetInv, ReqInv, RemoveInv, Shape, Erases
<1>2. /\ host' = [host EXCEPT ![h] = "gone"]
      /\ beat' = [beat EXCEPT ![h] = "never"]
      /\ dep' = [d \in Deployments |-> IF dep[d].host = h
                   THEN [dep[d] EXCEPT !.host = Self] ELSE dep[d]]
      /\ agent' = [a \in Agents |-> IF agent[a].host = h
                     THEN [NoAgent EXCEPT !.st = agent[a].st] ELSE agent[a]]
      /\ token' = [t \in Tokens |-> IF token[t].host = h
                     THEN [token[t] EXCEPT !.host = None] ELSE token[t]]
      /\ facts' = [facts EXCEPT ![h] = "none"]
      /\ rows' = [rows EXCEPT ![h] = Nothing]
      /\ tripped' = tripped /\ lock' = lock \ {h} /\ Done(r)
      /\ UNCHANGED <<runs, hb, cont, told, events>>
  BY <1>1 DEF EraseHostEverywhere, EraseHost
<1>3. HostInv'
  <2>1. agent' \in [Agents -> AgentRows]
    <3>1. ASSUME NEW a \in Agents
          PROVE  (IF agent[a].host = h THEN [NoAgent EXCEPT !.st = agent[a].st] ELSE agent[a])
                   \in AgentRows
      <4>1. agent[a] \in AgentRows /\ NoAgent \in AgentRows
        BY DEF FleetInv, HostInv, NoAgent, AgentRows
      <4> QED
        BY <4>1 DEF AgentRows
    <3> QED
      BY <1>2, <3>1
  <2>2. token' \in [Tokens -> TokenRows]
    <3>1. ASSUME NEW t \in Tokens
          PROVE  (IF token[t].host = h THEN [token[t] EXCEPT !.host = None] ELSE token[t])
                   \in TokenRows
      <4>1. token[t] \in TokenRows
        BY DEF FleetInv, HostInv
      <4> QED
        BY <4>1 DEF TokenRows
    <3> QED
      BY <1>2, <3>1
  <2>3. ops' = ops
    BY <1>2 DEF Done
  <2> QED
    BY <1>2, <2>1, <2>2, <2>3 DEF FleetInv, HostInv
<1>4. SeenInv'
  BY <1>1, <1>2, ErasedSeen DEF FleetInv
<1>5. ReqInv'
  BY <1>1, <1>2, ErasedReq
<1>6. CellInv'
  <2>1. host'[h] = "gone" /\ \A g \in Hosts \ {h} : Exists(g) => Exists(g)'
    BY <1>2 DEF FleetInv, HostInv, Exists
  <2>2. /\ cell' = [c \in Cells |-> IF cell[c].host = h
                      THEN [cell[c] EXCEPT !.host = None] ELSE cell[c]]
        /\ place' = [d \in Deployments |-> IF place[d].h = h
                       THEN [place[d] EXCEPT !.h = None] ELSE place[d]]
        /\ desired' = {x \in desired : x.h # h}
        /\ UNCHANGED <<res, link, svc>>
    BY <1>1, <2>1 DEF EraseHostEverywhere, WantedElsewhere
  <2>3. cell' \in [Cells -> CellRows]
    <3>1. ASSUME NEW c \in Cells
          PROVE  (IF cell[c].host = h THEN [cell[c] EXCEPT !.host = None] ELSE cell[c])
                   \in CellRows
      <4>1. cell[c] \in CellRows
        BY DEF FleetInv, CellInv
      <4> QED
        BY <4>1 DEF CellRows
    <3> QED
      BY <2>2, <3>1
  <2>4. ASSUME NEW d \in Deployments
        PROVE  place'[d] \in Places /\ place'[d].c = place[d].c /\ PlaceOK(place'[d])
    <3>1. place[d] \in Places /\ PlaceOK(place[d])
      BY DEF FleetInv, CellInv
    <3>2. CASE place[d].h = h
      <4>1. place'[d] = [place[d] EXCEPT !.h = None]
        BY <2>2, <3>2
      <4>2. place[d] # NoPlace
        BY <3>2, FleetAssumption DEF NoPlace
      <4> QED
        BY <3>1, <4>1, <4>2 DEF Places, PlaceOK
    <3>3. CASE place[d].h # h
      BY <2>2, <3>1, <3>3
    <3> QED
      BY <3>2, <3>3
  <2>5. place' = [d \in Deployments |-> place'[d]]
    BY <2>2
  <2>6. \A x \in desired' : x \in Wanted /\ Exists(x.h)'
    BY <2>1, <2>2 DEF FleetInv, CellInv, Wanted
  <2>7. \A d \in Deployments : PlaceOK(place[d])'
    BY <2>4 DEF PlaceOK
  <2> QED
    BY <2>2, <2>3, <2>4, <2>5, <2>6, <2>7 DEF FleetInv, CellInv
<1> QED
  BY <1>3, <1>4, <1>5, <1>6 DEF FleetInv

----------------------------------------------------------------------------
(* Tokens and agents.                                                      *)

LEMMA AgentMoves ==
    ASSUME FleetInv,
           UNCHANGED <<host, beat, lock, hb, facts, rows, cont, told, dep, req, tripped>>,
           UNCHANGED cellVars, agent' \in [Agents -> AgentRows],
           token' \in [Tokens -> TokenRows], runs' \in [Hosts -> Agents \cup {None}],
           ops' \in 0 .. MaxOps, events' \in 0 .. MaxEvents
    PROVE  FleetInv'
<1>1. HostInv'
  BY DEF FleetInv, HostInv
<1> QED
  BY <1>1, SeenKept, ReqKept, CellKept DEF FleetInv, Exists

LEMMA HostForms ==
    ASSUME FleetInv
    PROVE  /\ agent \in [Agents -> AgentRows] /\ token \in [Tokens -> TokenRows]
           /\ runs \in [Hosts -> Agents \cup {None}]
           /\ ops \in 0 .. MaxOps /\ events \in 0 .. MaxEvents
           /\ Busy => ops' \in 0 .. MaxOps
           /\ Fault => events' \in 0 .. MaxEvents
  BY BusyCounts, FaultCounts DEF FleetInv, HostInv

LEMMA TokenSteps ==
    ASSUME FleetInv, NEW t \in Tokens, UNCHANGED cellVars,
           \/ \E h \in Hosts : CreateAdoptionToken(t, h) \/ CreateRemoteSetup(t, h)
           \/ TokenExpires(t)
    PROVE  FleetInv'
<1>1. /\ UNCHANGED <<host, beat, lock, agent, runs, hb, facts, rows, cont, told, dep, tripped>>
      /\ UNCHANGED req /\ events' \in 0 .. MaxEvents /\ ops' \in 0 .. MaxOps
  BY SameSeen, HostForms DEF CreateAdoptionToken, CreateRemoteSetup, TokenExpires, Call
<1>2. token' \in [Tokens -> TokenRows]
  <2>1. ASSUME NEW h \in Hosts, NEW s \in {"open", "lost"},
               token' = [token EXCEPT ![t] = [host |-> h, st |-> s]]
        PROVE  token' \in [Tokens -> TokenRows]
    BY <2>1, HostForms DEF TokenRows
  <2>2. CASE token' = [token EXCEPT ![t].st = "expired"]
    BY <2>2, HostForms DEF TokenRows
  <2> QED
    BY <2>1, <2>2 DEF CreateAdoptionToken, CreateRemoteSetup, TokenExpires
<1>3. agent' \in [Agents -> AgentRows] /\ runs' \in [Hosts -> Agents \cup {None}]
  BY <1>1, HostForms
<1> QED
  BY <1>1, <1>2, <1>3, AgentMoves

LEMMA AgentSteps ==
    ASSUME FleetInv, NEW a \in Agents, UNCHANGED cellVars,
           RevokeAgent(a) \/ RotateAgentToken(a) \/ Reinstall(a)
    PROVE  FleetInv'
<1>1. /\ UNCHANGED <<host, beat, lock, token, hb, facts, rows, cont, told, dep, tripped>>
      /\ UNCHANGED req /\ events' \in 0 .. MaxEvents /\ ops' \in 0 .. MaxOps
  BY SameSeen, HostForms DEF RevokeAgent, RotateAgentToken, Reinstall, Call
<1>2. /\ agent' = agent \/ agent' = [agent EXCEPT ![a].st = "revoked"]
         \/ agent' = [agent EXCEPT ![a].st = "online"]
      /\ agent[a].host \in Hosts
      /\ runs' = runs \/ runs' = [runs EXCEPT ![agent[a].host] = None]
         \/ runs' = [runs EXCEPT ![agent[a].host] = a]
  BY HostForms DEF RevokeAgent, RotateAgentToken, Reinstall, HasRow, AgentRows
<1>3. agent' \in [Agents -> AgentRows]
  BY <1>2, HostForms DEF AgentRows
<1>4. runs' \in [Hosts -> Agents \cup {None}]
  BY <1>2, HostForms
<1>5. token' \in [Tokens -> TokenRows]
  BY <1>1, HostForms
<1> QED
  BY <1>1, <1>3, <1>4, <1>5, AgentMoves

----------------------------------------------------------------------------
(* Heartbeats.                                                             *)

LEMMA NothingForm == Nothing \in [Deployments -> States]
                     /\ \A d \in Deployments : Nothing[d] = "none"
  BY DEF Nothing, States

LEMMA QuietForm == Quiet \in Beats /\ \A h \in Hosts : BeatOK(h, Quiet)
<1>1. /\ Quiet.at = "idle" /\ Quiet.list = Nothing /\ Quiet.ok = FALSE
      /\ Quiet.todo = {} /\ Quiet.same = {} /\ Quiet.a = None
  BY DEF Quiet
<1>2. Quiet \in Beats
  BY NothingForm DEF Quiet, Beats
<1> QED
  BY <1>1, <1>2 DEF BeatOK

LEMMA HbMoves ==
    ASSUME SeenInv, NEW h \in Hosts, NEW b \in Beats, hb' = [hb EXCEPT ![h] = b],
           BeatOK(h, b), UNCHANGED <<rows, cont, told, dep>>
    PROVE  SeenInv'
<1>1. hb' \in [Hosts -> Beats] /\ hb'[h] = b /\ \A g \in Hosts \ {h} : hb'[g] = hb[g]
  BY DEF SeenInv
<1>2. \A g \in Hosts : BeatOK(g, hb'[g])
  BY <1>1 DEF SeenInv
<1>3. \A g \in Hosts : BeatOK(g, hb[g])'
  BY <1>2 DEF BeatOK, LiveOn, Live, Up
<1>4. \A d \in Deployments : ToldOK(d)'
  BY DEF SeenInv, ToldOK, Live, Up
<1> QED
  BY <1>1, <1>3, <1>4 DEF SeenInv

LEMMA QuietMoves ==
    ASSUME SeenInv, NEW h \in Hosts, hb' = [hb EXCEPT ![h] = Quiet],
           UNCHANGED <<rows, cont, told, dep>>
    PROVE  SeenInv'
  BY QuietForm, HbMoves

LEMMA BeatMoves ==
    ASSUME SeenInv, NEW h \in Hosts, hb[h].at # "idle",
           NEW at \in {"tx", "facts", "rows", "prune"}, Beat(h, at),
           UNCHANGED <<rows, cont, told, dep>>
    PROVE  SeenInv'
<1>1. hb \in [Hosts -> Beats] /\ hb[h] \in Beats /\ BeatOK(h, hb[h])
  BY DEF SeenInv
<1>2. PICK b \in Beats : b = [hb[h] EXCEPT !.at = at]
  BY <1>1 DEF Beats
<1>3. /\ b.at = at /\ b.list = hb[h].list /\ b.ok = hb[h].ok /\ b.todo = hb[h].todo
      /\ b.same = hb[h].same
  BY <1>1, <1>2 DEF Beats
<1>4. hb' = [hb EXCEPT ![h] = b]
  BY <1>1, <1>2 DEF Beat
<1>5. BeatOK(h, b)
  BY <1>1, <1>3 DEF BeatOK
<1> QED
  BY <1>4, <1>5, HbMoves

(* A step of a heartbeat that records nothing of the containers.           *)
LEMMA BeatFrame ==
    ASSUME FleetInv, SeenInv', UNCHANGED heartless, UNCHANGED told, UNCHANGED cellVars,
           host' \in [Hosts -> Statuses \cup {"none", "gone"}],
           \A h \in Hosts : Exists(h) => Exists(h)',
           beat' \in [Hosts -> {"never", "fresh", "old"}],
           agent' \in [Agents -> AgentRows],
           facts' \in [Hosts -> {"none", "ok", "bad"}], events' \in 0 .. MaxEvents
    PROVE  FleetInv'
<1>1. HostInv'
  BY DEF FleetInv, HostInv, heartless
<1> QED
  BY <1>1, ReqKept, CellKept DEF FleetInv, heartless

LEMMA ScanStep ==
    ASSUME FleetInv, NEW h \in Hosts, Scan(h), UNCHANGED cellVars PROVE FleetInv'
<1>1. /\ runs[h] \in Agents \cup {None} /\ UNCHANGED <<rows, cont, told, dep>>
      /\ events' \in 0 .. MaxEvents /\ UNCHANGED <<host, beat, agent, facts, heartless>>
  BY HostForms DEF Scan, heartless
<1>2. ASSUME NEW list \in [Deployments -> States], NEW ok \in BOOLEAN, Sent(h, list, ok),
             ~ok => list = Nothing,
             \A d \in Deployments : list[d] # "none" => d \in LiveOn(h) /\ Up(d),
             ok => \A d \in Deployments : list[d] = "none" /\ d \in LiveOn(h) => ~Up(d)
      PROVE  SeenInv'
  <2>1. PICK b \in Beats :
          b = [at |-> "auth", a |-> runs[h], list |-> list, ok |-> ok,
               todo |-> {d \in Deployments : list[d] # "none"}, same |-> Deployments]
    BY <1>1 DEF Beats
  <2>2. /\ b.at = "auth" /\ b.list = list /\ b.ok = ok /\ b.same = Deployments
        /\ b.todo = {d \in Deployments : list[d] # "none"}
    BY <2>1
  <2>3. BeatOK(h, b)
    BY <1>2, <2>2 DEF BeatOK
  <2>4. hb' = [hb EXCEPT ![h] = b]
    BY <1>2, <2>1 DEF Sent
  <2> QED
    BY <1>1, <2>3, <2>4, HbMoves DEF FleetInv
<1>3. SeenInv'
  <2>1. CASE Sent(h, Listed(h), TRUE)
    <3>1. Listed(h) \in [Deployments -> States]
      BY DEF Listed, FleetInv, SeenInv, States
    <3>2. \A d \in Deployments :
            /\ Listed(h)[d] # "none" => d \in LiveOn(h) /\ Up(d)
            /\ Listed(h)[d] = "none" /\ d \in LiveOn(h) => ~Up(d)
      BY DEF Listed, Up
    <3> QED
      BY <1>2, <2>1, <3>1, <3>2
  <2>2. CASE Sent(h, Nothing, FALSE)
    BY <1>2, <2>2, NothingForm
  <2> QED
    BY <2>1, <2>2 DEF Scan
<1> QED
  BY <1>1, <1>3, BeatFrame DEF FleetInv, HostInv, Exists

LEMMA AuthStep ==
    ASSUME FleetInv, NEW h \in Hosts, AuthenticateAgent(h), UNCHANGED cellVars
    PROVE  FleetInv'
<1>1. /\ UNCHANGED <<rows, cont, told, dep>> /\ hb[h].at # "idle"
      /\ UNCHANGED <<host, beat, agent, facts, heartless, events>>
      /\ Beat(h, "tx") \/ hb' = [hb EXCEPT ![h] = Quiet]
  BY DEF AuthenticateAgent, heartless
<1>2. SeenInv'
  BY <1>1, BeatMoves, QuietMoves DEF FleetInv
<1> QED
  BY <1>1, <1>2, BeatFrame DEF FleetInv, HostInv, Exists

LEMMA TxStep ==
    ASSUME FleetInv, NEW h \in Hosts, HeartbeatTx(h), UNCHANGED cellVars PROVE FleetInv'
<1>1. /\ UNCHANGED <<rows, cont, told, dep>> /\ hb[h].at # "idle"
      /\ UNCHANGED <<facts, heartless, events>> /\ Beat(h, "facts")
      /\ agent' = agent \/ agent' = [agent EXCEPT ![hb[h].a].st = "online"]
      /\ host' = host \/ host' = [host EXCEPT ![h] = "online"]
      /\ beat' = beat \/ beat' = [beat EXCEPT ![h] = "fresh"]
  BY DEF HeartbeatTx, heartless
<1>2. SeenInv'
  BY <1>1, BeatMoves DEF FleetInv
<1>3. agent' \in [Agents -> AgentRows]
  BY <1>1, HostForms DEF AgentRows
<1>4. host' \in [Hosts -> Statuses \cup {"none", "gone"}]
      /\ \A g \in Hosts : Exists(g) => Exists(g)'
  BY <1>1 DEF FleetInv, HostInv, Exists, Statuses
<1>5. beat' \in [Hosts -> {"never", "fresh", "old"}] /\ events' \in 0 .. MaxEvents
      /\ facts' \in [Hosts -> {"none", "ok", "bad"}]
  BY <1>1 DEF FleetInv, HostInv
<1> QED
  BY <1>1, <1>2, <1>3, <1>4, <1>5, BeatFrame

LEMMA FactsStep ==
    ASSUME FleetInv, NEW h \in Hosts, RecordFacts(h), UNCHANGED cellVars PROVE FleetInv'
<1>1. /\ UNCHANGED <<rows, cont, told, dep>> /\ hb[h].at # "idle"
      /\ UNCHANGED <<host, beat, agent, heartless, events>>
      /\ Beat(h, "rows") \/ hb' = [hb EXCEPT ![h] = Quiet]
      /\ facts' \in [Hosts -> {"none", "ok", "bad"}]
  BY DEF RecordFacts, heartless, FleetInv, HostInv
<1>2. SeenInv'
  BY <1>1, BeatMoves, QuietMoves DEF FleetInv
<1> QED
  BY <1>1, <1>2, BeatFrame DEF FleetInv, HostInv, Exists

LEMMA CutStep ==
    ASSUME FleetInv, NEW h \in Hosts, CutHeartbeat(h), UNCHANGED cellVars PROVE FleetInv'
<1>1. /\ UNCHANGED <<rows, cont, told, dep>> /\ events' \in 0 .. MaxEvents
      /\ UNCHANGED <<host, beat, agent, facts, heartless>>
      /\ hb' = [hb EXCEPT ![h] = Quiet]
  BY HostForms DEF CutHeartbeat, heartless
<1>2. SeenInv'
  BY <1>1, QuietMoves DEF FleetInv
<1> QED
  BY <1>1, <1>2, BeatFrame DEF FleetInv, HostInv, Exists

LEMMA AgesStep ==
    ASSUME FleetInv, NEW h \in Hosts, BeatAges(h), UNCHANGED cellVars PROVE FleetInv'
<1>1. /\ UNCHANGED <<hb, rows, cont, told, dep>> /\ events' \in 0 .. MaxEvents
      /\ UNCHANGED <<host, agent, facts, heartless>>
      /\ beat' \in [Hosts -> {"never", "fresh", "old"}]
  BY HostForms DEF BeatAges, heartless, FleetInv, HostInv
<1>2. SeenInv'
  BY <1>1, SeenKept DEF FleetInv
<1> QED
  BY <1>1, <1>2, BeatFrame DEF FleetInv, HostInv, Exists

LEMMA RegisterStep ==
    ASSUME FleetInv, NEW t \in Tokens, NEW a \in Agents, Register(t, a), UNCHANGED cellVars
    PROVE  FleetInv'
<1>1. PICK h \in Hosts : h = token[t].host
  BY HostForms DEF Register, TokenRows
<1>2. /\ UNCHANGED <<lock, facts, rows, cont, told, dep, req, tripped, ops>>
      /\ agent' = [agent EXCEPT ![a] = [host |-> h, st |-> "online"]]
      /\ host' = [host EXCEPT ![h] = "online"] /\ beat' = [beat EXCEPT ![h] = "fresh"]
      /\ token' = [token EXCEPT ![t].st = "used"] /\ Join(h, a)
  BY <1>1 DEF Register
<1>3. agent' \in [Agents -> AgentRows]
  BY <1>2, HostForms DEF AgentRows
<1>4. token' \in [Tokens -> TokenRows]
  BY <1>2, HostForms DEF TokenRows
<1>5. runs' \in [Hosts -> Agents \cup {None}] /\ events' \in 0 .. MaxEvents
  BY <1>2, HostForms DEF Join
<1>6. host' \in [Hosts -> Statuses \cup {"none", "gone"}]
      /\ \A g \in Hosts : Exists(g) => Exists(g)'
  BY <1>2 DEF FleetInv, HostInv, Exists, Statuses
<1>7. HostInv'
  BY <1>2, <1>3, <1>4, <1>5, <1>6 DEF FleetInv, HostInv
<1>8. SeenInv'
  BY <1>2, QuietMoves, SeenKept DEF FleetInv, Join
<1> QED
  BY <1>2, <1>6, <1>7, <1>8, ReqKept, CellKept DEF FleetInv

(* What is told may change where no computation relies on it.              *)
LEMMA ReqTold ==
    ASSUME ReqInv, UNCHANGED <<req, lock, dep, tripped>>,
           \A r \in Requests, d \in Deployments :
              req[r].sure[d] # "no" => told'[d] = told[d]
    PROVE  ReqInv'
<1>1. \A r \in Requests : DriftOK(req[r])'
  BY DriftFrame DEF ReqInv
<1>2. \A r \in Requests : Shape(req[r])'
  BY DEF ReqInv, Shape
<1>3. RemoveInv'
  BY DEF ReqInv, RemoveInv, Erases, LiveOn, Live
<1> QED
  BY <1>1, <1>2, <1>3 DEF ReqInv

(* A container row that is written: the container is up unless it turned.  *)
LEMMA RowWritten ==
    ASSUME FleetInv, NEW h \in Hosts, hb[h].at = "rows", NEW d \in hb[h].todo,
           rows' = [rows EXCEPT ![h][d] = hb[h].list[d]],
           hb' = [hb EXCEPT ![h].todo = @ \ {d}],
           told' = IF d \in hb[h].same THEN [told EXCEPT ![d] = "up"] ELSE told,
           UNCHANGED <<cont, dep>>
    PROVE  /\ SeenInv'
           /\ \A r \in Requests, e \in Deployments :
                 req[r].sure[e] # "no" => told'[e] = told[e]
<1>1. /\ hb \in [Hosts -> Beats] /\ hb[h] \in Beats /\ BeatOK(h, hb[h])
      /\ rows \in [Hosts -> [Deployments -> States]]
      /\ told \in [Deployments -> Tellings] /\ \A e \in Deployments : ToldOK(e)
  BY DEF FleetInv, SeenInv
<1>2. d \in Deployments /\ hb[h].list[d] \in States /\ hb[h].list[d] # "none"
  BY <1>1 DEF BeatOK, Beats
<1>3. d \in hb[h].same => d \in LiveOn(h) /\ Up(d)
  BY <1>1, <1>2 DEF BeatOK
<1>4. d \notin hb[h].same => (dep[d].host = h => told[d] = "no")
  BY <1>1, <1>2 DEF BeatOK
<1>5. /\ rows' \in [Hosts -> [Deployments -> States]] /\ rows'[h][d] = hb[h].list[d]
      /\ \A g \in Hosts, e \in Deployments : ~(g = h /\ e = d) => rows'[g][e] = rows[g][e]
  BY <1>1, <1>2
<1>6. /\ told' \in [Deployments -> Tellings]
      /\ told'[d] = IF d \in hb[h].same THEN "up" ELSE told[d]
      /\ \A e \in Deployments \ {d} : told'[e] = told[e]
  BY <1>1, <1>2 DEF Tellings
<1>7. PICK b \in Beats : b = [hb[h] EXCEPT !.todo = @ \ {d}]
  BY <1>1 DEF Beats
<1>8. /\ b.at = hb[h].at /\ b.list = hb[h].list /\ b.ok = hb[h].ok /\ b.same = hb[h].same
      /\ b.todo = hb[h].todo \ {d}
  BY <1>1, <1>7 DEF Beats
<1>9. /\ hb' \in [Hosts -> Beats] /\ hb'[h] = b
      /\ \A g \in Hosts \ {h} : hb'[g] = hb[g]
  BY <1>1, <1>7
<1>10. \A e \in Deployments : ToldOK(e)'
  <2> SUFFICES ASSUME NEW e \in Deployments PROVE ToldOK(e)'
    OBVIOUS
  <2>1. ToldOK(e) /\ Live(e)' = Live(e) /\ Up(e)' = Up(e) /\ dep' = dep
    BY <1>1 DEF Live, Up
  <2>2. CASE e # d
    BY <1>5, <1>6, <2>1, <2>2 DEF ToldOK
  <2>3. CASE e = d /\ d \in hb[h].same
    BY <1>2, <1>3, <1>5, <1>6, <2>1, <2>3 DEF ToldOK, LiveOn
  <2>4. CASE e = d /\ d \notin hb[h].same
    BY <1>4, <1>5, <1>6, <2>1, <2>4 DEF ToldOK
  <2> QED
    BY <2>2, <2>3, <2>4
<1>11. \A g \in Hosts : BeatOK(g, hb[g])'
  <2> SUFFICES ASSUME NEW g \in Hosts PROVE BeatOK(g, hb[g])'
    OBVIOUS
  <2>1. LiveOn(g)' = LiveOn(g) /\ (\A e \in Deployments : Up(e)' = Up(e)) /\ dep' = dep
    BY DEF LiveOn, Live, Up
  <2>2. CASE g = h
    BY <1>1, <1>6, <1>8, <1>9, <2>1, <2>2 DEF BeatOK, Beats
  <2>3. CASE g # h
    <3>1. hb[g] \in Beats /\ BeatOK(g, hb[g]) /\ hb'[g] = hb[g]
      BY <1>9, <2>3 DEF FleetInv, SeenInv
    <3>2. dep[d].host = g => told'[d] = told[d]
      BY <1>3, <1>6, <2>3 DEF LiveOn
    <3> QED
      BY <1>6, <2>1, <3>1, <3>2 DEF BeatOK, Beats
  <2> QED
    BY <2>2, <2>3
<1>12. SeenInv'
  BY <1>5, <1>6, <1>9, <1>10, <1>11 DEF FleetInv, SeenInv
<1>13. ASSUME NEW r \in Requests, NEW e \in Deployments, req[r].sure[e] # "no"
       PROVE  told'[e] = told[e]
  <2>1. told[e] = req[r].sure[e]
    BY <1>13 DEF FleetInv, ReqInv, DriftOK
  <2>2. told[e] \in {"up", "gone"}
    BY <1>1, <1>13, <2>1 DEF Tellings
  <2> QED
    BY <1>1, <1>3, <1>6, <2>2 DEF ToldOK
<1> QED
  BY <1>12, <1>13

(* A step of a heartbeat that records containers.                          *)
LEMMA TellFrame ==
    ASSUME FleetInv, SeenInv', UNCHANGED <<host, beat, agent, facts, events>>,
           UNCHANGED heartless, UNCHANGED cellVars,
           \A r \in Requests, e \in Deployments :
              req[r].sure[e] # "no" => told'[e] = told[e]
    PROVE  FleetInv'
<1>1. HostInv'
  BY DEF FleetInv, HostInv, heartless
<1> QED
  BY <1>1, ReqTold, CellKept DEF FleetInv, heartless, Exists

LEMMA UpsertObservedStep ==
    ASSUME FleetInv, NEW h \in Hosts, UpsertObserved(h), UNCHANGED cellVars
    PROVE  FleetInv'
<1>1. /\ UNCHANGED <<host, beat, agent, facts, events>> /\ UNCHANGED heartless
      /\ hb[h].at = "rows" /\ UNCHANGED <<cont, dep>>
  BY DEF UpsertObserved, heartless
<1>2. CASE hb[h].todo = {} /\ Beat(h, "prune") /\ UNCHANGED <<rows, told>>
  <2>1. SeenInv'
    BY <1>1, <1>2, BeatMoves DEF FleetInv
  <2> QED
    BY <1>1, <1>2, <2>1, TellFrame
<1>3. CASE hb' = [hb EXCEPT ![h] = Quiet] /\ UNCHANGED <<rows, told>>
  <2>1. SeenInv'
    BY <1>1, <1>3, QuietMoves DEF FleetInv
  <2> QED
    BY <1>1, <1>3, <2>1, TellFrame
<1>4. ASSUME NEW d \in hb[h].todo,
             rows' = [rows EXCEPT ![h][d] = hb[h].list[d]],
             hb' = [hb EXCEPT ![h].todo = @ \ {d}],
             told' = IF d \in hb[h].same THEN [told EXCEPT ![d] = "up"] ELSE told
      PROVE  FleetInv'
  BY <1>1, <1>4, RowWritten, TellFrame
<1> QED
  BY <1>2, <1>3, <1>4 DEF UpsertObserved, AfterRows

(* The prune takes the rows of containers that were not listed: those that *)
(* are told up were.                                                       *)
LEMMA PruneStep ==
    ASSUME FleetInv, NEW h \in Hosts, PruneObserved(h), UNCHANGED cellVars
    PROVE  FleetInv'
<1>1. /\ UNCHANGED <<host, beat, agent, facts, events>> /\ UNCHANGED heartless
      /\ UNCHANGED <<cont, dep>> /\ hb[h].at = "prune" /\ hb' = [hb EXCEPT ![h] = Quiet]
  BY DEF PruneObserved, heartless
<1>2. /\ hb \in [Hosts -> Beats] /\ hb[h] \in Beats /\ BeatOK(h, hb[h])
      /\ rows \in [Hosts -> [Deployments -> States]]
      /\ told \in [Deployments -> Tellings] /\ \A e \in Deployments : ToldOK(e)
  BY DEF FleetInv, SeenInv
<1>3. /\ rows' \in [Hosts -> [Deployments -> States]]
      /\ \A g \in Hosts \ {h} : rows'[g] = rows[g]
      /\ \A e \in Deployments : rows'[h][e] = IF e \in Pruned(h) THEN "none" ELSE rows[h][e]
  BY <1>2 DEF PruneObserved, States
<1>4. /\ told' \in [Deployments -> Tellings]
      /\ \A e \in Deployments : told'[e] =
            IF hb[h].ok /\ e \in Unseen(h) \cap LiveOn(h) \cap hb[h].same
            THEN "gone" ELSE told[e]
  BY <1>2 DEF PruneObserved, Tellings
<1>5. ASSUME NEW e \in Deployments, hb[h].ok, e \in Unseen(h), e \in LiveOn(h)
      PROVE  told[e] # "up" /\ (e \in hb[h].same => ~Up(e))
  <2>1. e \in hb[h].same => ~Up(e)
    BY <1>2, <1>5 DEF BeatOK, Unseen
  <2>2. e \notin hb[h].same => told[e] = "no"
    BY <1>1, <1>2, <1>5 DEF BeatOK, LiveOn
  <2> QED
    BY <1>2, <2>1, <2>2 DEF ToldOK
<1>6. \A e \in Deployments : ToldOK(e)'
  <2> SUFFICES ASSUME NEW e \in Deployments PROVE ToldOK(e)'
    OBVIOUS
  <2>1. ToldOK(e) /\ Live(e)' = Live(e) /\ Up(e)' = Up(e) /\ dep' = dep
    BY <1>1, <1>2 DEF Live, Up
  <2>2. CASE e \in LiveOn(h) /\ hb[h].ok /\ e \in Unseen(h)
    <3>1. rows'[h][e] = "none" /\ dep[e].host = h /\ Live(e)
      BY <1>3, <2>2 DEF Pruned, LiveOn
    <3>2. told'[e] = "gone" => ~Up(e)
      BY <1>4, <1>5, <2>1, <2>2 DEF ToldOK
    <3>3. told'[e] # "up"
      BY <1>4, <1>5, <2>2
    <3> QED
      BY <2>1, <3>1, <3>2, <3>3 DEF ToldOK
  <2>3. CASE e \in LiveOn(h) /\ ~(hb[h].ok /\ e \in Unseen(h))
    <3>1. rows'[h][e] = rows[h][e] /\ told'[e] = told[e] /\ dep[e].host = h
      BY <1>3, <1>4, <2>3 DEF Pruned, LiveOn
    <3> QED
      BY <2>1, <3>1 DEF ToldOK
  <2>4. CASE e \notin LiveOn(h)
    <3>1. told'[e] = told[e] /\ (Live(e) => dep[e].host \in Hosts \ {h})
      BY <1>4, <2>1, <2>4 DEF LiveOn, ToldOK
    <3> QED
      BY <1>3, <2>1, <3>1 DEF ToldOK
  <2> QED
    BY <2>2, <2>3, <2>4
<1>7. \A g \in Hosts : BeatOK(g, hb[g])'
  <2> SUFFICES ASSUME NEW g \in Hosts PROVE BeatOK(g, hb[g])'
    OBVIOUS
  <2>1. LiveOn(g)' = LiveOn(g) /\ (\A e \in Deployments : Up(e)' = Up(e)) /\ dep' = dep
    BY <1>1 DEF LiveOn, Live, Up
  <2>2. CASE g = h
    <3>1. hb'[h] = Quiet
      BY <1>1, <1>2
    <3>2. BeatOK(h, Quiet) /\ Quiet.at = "idle" /\ Quiet.same = {}
      BY QuietForm DEF Quiet
    <3> QED
      BY <2>1, <2>2, <3>1, <3>2 DEF BeatOK
  <2>3. CASE g # h
    <3>1. hb[g] \in Beats /\ BeatOK(g, hb[g]) /\ hb'[g] = hb[g]
      BY <1>1, <1>2, <2>3 DEF FleetInv, SeenInv
    <3>2. \A e \in Deployments : dep[e].host = g => told'[e] = told[e]
      BY <1>4, <2>3 DEF LiveOn
    <3> QED
      BY <2>1, <3>1, <3>2 DEF BeatOK, Beats
  <2> QED
    BY <2>2, <2>3
<1>8. SeenInv'
  <2>1. hb' \in [Hosts -> Beats]
    BY <1>1, <1>2, QuietForm
  <2> QED
    BY <1>1, <1>3, <1>4, <1>6, <1>7, <2>1 DEF FleetInv, SeenInv
<1>9. ASSUME NEW r \in Requests, NEW e \in Deployments, req[r].sure[e] # "no"
      PROVE  told'[e] = told[e]
  <2>1. told[e] = req[r].sure[e]
    BY <1>9 DEF FleetInv, ReqInv, DriftOK
  <2>2. told[e] \in {"up", "gone"}
    BY <1>2, <1>9, <2>1 DEF Tellings
  <2> QED
    BY <1>4, <1>5, <2>2
<1> QED
  BY <1>1, <1>8, <1>9, TellFrame

----------------------------------------------------------------------------
(* Deployments.                                                            *)

LEMMA ValidateStep ==
    ASSUME FleetInv, NEW r \in Requests, NEW h \in Hosts, NEW d \in Deployments,
           ValidateHost(r, d, h), UNCHANGED cellVars
    PROVE  FleetInv'
<1>1. /\ UNCHANGED <<host, beat, lock, agentVars, hb, facts, rows, cont, told, dep,
                   tripped, events>>
      /\ Take(r, "create", "insert", h, None, d, {})
  BY SameSeen DEF ValidateHost
<1>2. {} \in Saws /\ "create" \in Ops /\ "insert" \in Labels
  BY SawForms DEF Ops, Labels
<1>3. PICK q \in ReqRecs :
        /\ req' = [req EXCEPT ![r] = q]
        /\ q.op = "create" /\ q.h = h /\ q.d = d
        /\ \A e \in Deployments : q.sure[e] = "no"
  BY <1>1, <1>2, TakeForm
<1>4. Shape(q) /\ ~Erases(q)
  BY <1>3 DEF Shape, Erases
<1>5. ops' \in 0 .. MaxOps
  BY <1>1, BusyCounts DEF Take, FleetInv
<1>6. ReqInv'
  BY <1>1, <1>3, <1>4, TakeMoves DEF FleetInv
<1> QED
  BY <1>1, <1>5, <1>6, HostKept, SeenKept, CellKept DEF FleetInv, Exists

(* A deployment starts where nothing was: nothing is told of it yet.       *)
LEMMA DepStarts ==
    ASSUME SeenInv, NEW d \in Deployments, dep[d] = NoDep, NEW g \in Hosts,
           NEW x \in BOOLEAN,
           dep' = [dep EXCEPT ![d] = [st |-> "live", host |-> g, ext |-> x]],
           UNCHANGED <<hb, rows, cont, told>>
    PROVE  /\ SeenInv'
           /\ \A e \in Deployments : told[e] # "no" => dep'[e] = dep[e]
           /\ \A h \in Hosts \ {g} : LiveOn(h)' = LiveOn(h)
<1>1. /\ dep' \in [Deployments -> DepRows] /\ dep'[d].st = "live" /\ dep'[d].host = g
      /\ \A e \in Deployments \ {d} : dep'[e] = dep[e]
  BY DEF SeenInv, DepRows
<1>2. ~Live(d) /\ Live(d)' /\ \A e \in Deployments \ {d} : Live(e)' = Live(e)
  BY <1>1 DEF Live, NoDep
<1>3. ~Up(d) /\ told[d] = "no" /\ \A e \in Deployments : Up(e)' = Up(e)
  BY <1>2 DEF SeenInv, ToldOK, Up, Tellings
<1>4. \A e \in Deployments : ToldOK(e)'
  BY <1>1, <1>2, <1>3 DEF SeenInv, ToldOK
<1>5. \A h \in Hosts : LiveOn(h) \subseteq LiveOn(h)' /\ LiveOn(h)' \subseteq LiveOn(h) \cup {d}
  BY <1>1, <1>2 DEF LiveOn
<1>6. \A h \in Hosts \ {g} : LiveOn(h)' = LiveOn(h)
  BY <1>1, <1>2 DEF LiveOn
<1>7. \A h \in Hosts : BeatOK(h, hb[h])'
  <2> SUFFICES ASSUME NEW h \in Hosts PROVE BeatOK(h, hb[h])'
    OBVIOUS
  <2>1. BeatOK(h, hb[h]) /\ hb[h] \in Beats
    BY DEF SeenInv
  <2>2. \A e \in Deployments : e # d => (dep'[e].host = dep[e].host)
    BY <1>1
  <2> QED
    BY <1>3, <1>5, <2>1, <2>2 DEF BeatOK, Beats
<1> QED
  BY <1>1, <1>3, <1>4, <1>6, <1>7 DEF SeenInv

(* The requests after a deployment started on a host nobody erases.        *)
LEMMA ReqDep ==
    ASSUME ReqInv, UNCHANGED <<lock, told, tripped>>, NEW g \in Hosts,
           req' = req \/ \E r \in Requests : req' = [req EXCEPT ![r] = Idle],
           \A e \in Deployments : told[e] # "no" => dep'[e] = dep[e],
           \A h \in Hosts \ {g} : LiveOn(h)' = LiveOn(h),
           \A s \in Requests : Erases(req[s]) => req[s].h # g
    PROVE  ReqInv'
<1>1. /\ req' \in [Requests -> ReqRecs]
      /\ \A s \in Requests : req'[s] = req[s] \/ req'[s] = Idle
  BY IdleForm DEF ReqInv
<1>2. \A s \in Requests : Shape(req'[s]) /\ DriftOK(req'[s])
  BY <1>1, IdleOK DEF ReqInv
<1>3. \A s \in Requests : Shape(req[s])'
  BY <1>2 DEF Shape
<1>4. \A s \in Requests : DriftOK(req[s])'
  BY <1>2, DriftFrame
<1>5. \A s \in Requests : Erases(req'[s]) => req'[s] = req[s] /\ Erases(req[s])
                                            /\ req[s].h \in Hosts \ {g}
  BY <1>1, IdleOK DEF ReqInv, Shape, Erases
<1>6. \A s \in Requests : Erases(req'[s]) => LiveOn(req[s].h)' = {}
  <2> SUFFICES ASSUME NEW s \in Requests, Erases(req'[s]) PROVE LiveOn(req[s].h)' = {}
    OBVIOUS
  <2>1. PICK h \in Hosts \ {g} : h = req[s].h /\ req'[s].h = h /\ Erases(req[s])
    BY <1>5
  <2>2. LiveOn(h)' = {}
    BY <2>1 DEF ReqInv, RemoveInv
  <2> QED
    BY <2>1, <2>2 DEF LiveOn
<1>7. RemoveInv'
  BY <1>5, <1>6 DEF ReqInv, RemoveInv, Erases
<1> QED
  BY <1>1, <1>3, <1>4, <1>7 DEF ReqInv

(* The insert waits for a removal that holds the host's row.               *)
LEMMA InsertStep ==
    ASSUME FleetInv, NEW r \in Requests, InsertDeployment(r), UNCHANGED cellVars
    PROVE  FleetInv'
<1>1. /\ UNCHANGED <<host, beat, lock, agentVars, hb, facts, rows, cont, told, tripped, events>>
      /\ Done(r) /\ ops' = ops /\ req[r].h \notin lock
  BY SameSeen DEF InsertDeployment, Done, Free
<1>2. PICK g \in Hosts, d \in Deployments : g = req[r].h /\ d = req[r].d
  BY DEF InsertDeployment, At, FleetInv, ReqInv, Shape
<1>3. ops' \in 0 .. MaxOps /\ HostInv'
  BY <1>1, HostKept DEF FleetInv, HostInv
<1>4. CASE Exists(g) /\ dep[d] = NoDep
  <2>1. dep' = [dep EXCEPT ![d] = [st |-> "live", host |-> g, ext |-> FALSE]]
    BY <1>2, <1>4 DEF InsertDeployment
  <2>2. /\ SeenInv' /\ \A e \in Deployments : told[e] # "no" => dep'[e] = dep[e]
        /\ \A h \in Hosts \ {g} : LiveOn(h)' = LiveOn(h)
    BY <1>1, <1>4, <2>1, DepStarts DEF FleetInv
  <2>3. \A s \in Requests : Erases(req[s]) => req[s].h # g
    BY <1>1, <1>2 DEF FleetInv, ReqInv, RemoveInv
  <2>4. ReqInv'
    BY <1>1, <2>2, <2>3, ReqDep DEF FleetInv, Done
  <2> QED
    BY <1>1, <1>3, <2>2, <2>4, CellKept DEF FleetInv, Exists
<1>5. CASE ~(Exists(g) /\ dep[d] = NoDep)
  <2>1. dep' = dep
    BY <1>2, <1>5 DEF InsertDeployment
  <2> QED
    BY <1>1, <1>3, <2>1, SeenKept, DoneMoves, CellKept DEF FleetInv, Exists
<1> QED
  BY <1>4, <1>5

LEMMA AdoptStep ==
    ASSUME FleetInv, NEW d \in Deployments, AdoptDeployment(d), UNCHANGED cellVars
    PROVE  FleetInv'
<1>1. /\ UNCHANGED <<host, beat, lock, agentVars, hb, facts, rows, cont, told,
                   tripped, events, req>>
      /\ dep[d] = NoDep
      /\ dep' = [dep EXCEPT ![d] = [st |-> "live", host |-> Self, ext |-> TRUE]]
  BY SameSeen DEF AdoptDeployment, Call
<1>2. HostInv'
  BY <1>1, BusyCounts, HostKept DEF FleetInv, AdoptDeployment, Call
<1>3. Self \in Hosts
  BY FleetAssumption
<1>4. /\ SeenInv' /\ \A e \in Deployments : told[e] # "no" => dep'[e] = dep[e]
      /\ \A h \in Hosts \ {Self} : LiveOn(h)' = LiveOn(h)
  BY <1>1, <1>3, DepStarts DEF FleetInv
<1>5. \A s \in Requests : Erases(req[s]) => req[s].h # Self
  BY DEF FleetInv, ReqInv, Shape, Erases
<1>6. ReqInv'
  BY <1>1, <1>3, <1>4, <1>5, ReqDep DEF FleetInv
<1> QED
  BY <1>1, <1>2, <1>4, <1>6, CellKept DEF FleetInv, Exists

(* A container turns, or its deployment ends: all that was told of it is   *)
(* taken back at once.                                                     *)
LEMMA TurnedSeen ==
    ASSUME SeenInv, NEW d \in Deployments, NEW slots, Turned(d, slots), rows' = rows,
           dep' \in [Deployments -> DepRows], cont' \in [Deployments -> States],
           \A e \in Deployments \ {d} : dep'[e] = dep[e] /\ cont'[e] = cont[e],
           dep'[d].host = dep[d].host, Live(d)' => Live(d), Up(d)' => Live(d)'
    PROVE  SeenInv'
<1>1. /\ told' \in [Deployments -> Tellings] /\ told'[d] = "no"
      /\ \A e \in Deployments \ {d} : told'[e] = told[e]
  BY DEF SeenInv, Turned, Tellings
<1>2. ASSUME NEW h \in Hosts
      PROVE  /\ hb'[h] \in Beats /\ hb'[h].at = hb[h].at /\ hb'[h].list = hb[h].list
             /\ hb'[h].ok = hb[h].ok /\ hb'[h].todo = hb[h].todo
             /\ hb'[h].same = hb[h].same \ {d}
  <2>1. hb[h] \in Beats /\ hb'[h] = [hb[h] EXCEPT !.same = @ \ {d}]
    BY DEF SeenInv, Turned
  <2> QED
    BY <2>1 DEF Beats
<1>3. hb' \in [Hosts -> Beats]
  <2>1. hb' = [h \in Hosts |-> hb'[h]]
    BY DEF Turned
  <2> QED
    BY <1>2, <2>1
<1>4. \A e \in Deployments \ {d} : Live(e)' = Live(e) /\ Up(e)' = Up(e)
  BY DEF Live, Up
<1>5. \A e \in Deployments : ToldOK(e)'
  <2>1. ToldOK(d)'
    BY <1>1 DEF SeenInv, ToldOK
  <2>2. \A e \in Deployments \ {d} : ToldOK(e)'
    BY <1>1, <1>4 DEF SeenInv, ToldOK
  <2> QED
    BY <2>1, <2>2
<1>6. \A h \in Hosts : BeatOK(h, hb[h])'
  <2> SUFFICES ASSUME NEW h \in Hosts PROVE BeatOK(h, hb[h])'
    OBVIOUS
  <2>1. BeatOK(h, hb[h]) /\ hb[h] \in Beats
    BY DEF SeenInv
  <2>2. \A e \in Deployments \ {d} : e \in LiveOn(h)' <=> e \in LiveOn(h)
    BY <1>4 DEF LiveOn
  <2>3. hb'[h].at # "idle" =>
          \A e \in Deployments \ hb'[h].same : dep'[e].host = h => told'[e] = "no"
    BY <1>1, <1>2, <2>1 DEF BeatOK
  <2>4. /\ \A e \in hb'[h].same : hb'[h].list[e] # "none" => e \in LiveOn(h)' /\ Up(e)'
        /\ hb'[h].ok => \A e \in hb'[h].same :
              hb'[h].list[e] = "none" /\ e \in LiveOn(h)' => ~Up(e)'
    BY <1>2, <1>4, <2>1, <2>2 DEF BeatOK, Beats
  <2> QED
    BY <1>2, <2>1, <2>3, <2>4 DEF BeatOK
<1> QED
  BY <1>1, <1>3, <1>5, <1>6 DEF SeenInv

LEMMA TurnedForm ==
    ASSUME NEW d \in Deployments, NEW slots \in [Requests -> ReqRecs], Turned(d, slots),
           NEW r \in Requests
    PROVE  /\ req'[r] \in ReqRecs /\ req'[r].op = slots[r].op /\ req'[r].at = slots[r].at
           /\ req'[r].h = slots[r].h /\ req'[r].c = slots[r].c /\ req'[r].d = slots[r].d
           /\ req'[r].saw = slots[r].saw /\ req'[r].base = slots[r].base
           /\ req'[r].sure[d] = "no"
           /\ \A e \in Deployments \ {d} : req'[r].sure[e] = slots[r].sure[e]
<1>1. slots[r] \in ReqRecs /\ req'[r] = [slots[r] EXCEPT !.sure[d] = "no"]
  BY DEF Turned
<1>2. slots[r].sure \in [Deployments -> Tellings]
  BY <1>1 DEF ReqRecs
<1>3. PICK f \in [Deployments -> Tellings] : f = [slots[r].sure EXCEPT ![d] = "no"]
  BY <1>2 DEF Tellings
<1>4. f[d] = "no" /\ \A e \in Deployments \ {d} : f[e] = slots[r].sure[e]
  BY <1>2, <1>3
<1>5. req'[r] = [slots[r] EXCEPT !.sure = f]
  BY <1>1, <1>3
<1>6. /\ req'[r] \in ReqRecs /\ req'[r].op = slots[r].op /\ req'[r].at = slots[r].at
      /\ req'[r].h = slots[r].h /\ req'[r].c = slots[r].c /\ req'[r].d = slots[r].d
      /\ req'[r].saw = slots[r].saw /\ req'[r].base = slots[r].base /\ req'[r].sure = f
  BY <1>1, <1>5 DEF ReqRecs
<1> QED
  BY <1>4, <1>6

LEMMA TurnedReq ==
    ASSUME FleetInv, NEW d \in Deployments, NEW slots \in [Requests -> ReqRecs],
           Turned(d, slots), UNCHANGED <<lock, tripped>>,
           \A r \in Requests : /\ Shape(slots[r]) /\ DriftOK(slots[r])
                               /\ Erases(slots[r]) => slots[r] = req[r],
           \A e \in Deployments : dep'[e].host = dep[e].host,
           \A h \in Hosts : LiveOn(h)' \subseteq LiveOn(h)
    PROVE  ReqInv'
<1>1. told' = [told EXCEPT ![d] = "no"] /\ told \in [Deployments -> Tellings]
  BY DEF FleetInv, SeenInv, Turned
<1>2. ASSUME NEW r \in Requests
      PROVE  /\ req'[r] \in ReqRecs /\ req'[r].op = slots[r].op /\ req'[r].at = slots[r].at
             /\ req'[r].h = slots[r].h /\ req'[r].c = slots[r].c /\ req'[r].d = slots[r].d
             /\ req'[r].saw = slots[r].saw /\ req'[r].base = slots[r].base
             /\ req'[r].sure[d] = "no"
             /\ \A e \in Deployments \ {d} : req'[r].sure[e] = slots[r].sure[e]
  BY TurnedForm
<1>3. req' \in [Requests -> ReqRecs]
  <2>1. req' = [r \in Requests |-> req'[r]]
    BY DEF Turned
  <2> QED
    BY <1>2, <2>1
<1>4. \A r \in Requests : Shape(req[r])'
  BY <1>2 DEF Shape
<1>5. \A r \in Requests : DriftOK(req[r])'
  <2>1. ASSUME NEW r \in Requests PROVE DriftOK(req'[r])
    <3>1. DriftOK(slots[r])
      OBVIOUS
    <3>2. \A e \in Deployments : req'[r].sure[e] # "no" =>
            req'[r].sure[e] = slots[r].sure[e] /\ slots[r].sure[e] # "no"
      BY <1>2
    <3>3. \A e \in Deployments : /\ RowOf(req'[r], e) <=> RowOf(slots[r], e)
                                 /\ Reads(req'[r], e) <=> Reads(slots[r], e)
      BY <1>2 DEF RowOf, Reads
    <3> QED
      BY <1>2, <3>1, <3>2, <3>3 DEF DriftOK
  <2>2. \A r \in Requests, e \in Deployments : req'[r].sure[e] # "no" => told'[e] = told[e]
    BY <1>1, <1>2
  <2> QED
    BY <2>1, <2>2, DriftFrame
<1>6. RemoveInv'
  <2>1. \A s \in Requests : Erases(req'[s]) => Erases(req[s]) /\ req'[s].h = req[s].h
                                              /\ req[s].h \in Hosts
    BY <1>2 DEF FleetInv, ReqInv, Shape, Erases
  <2>2. ASSUME NEW s \in Requests, Erases(req'[s]) PROVE LiveOn(req[s].h)' = {}
    <3>1. PICK h \in Hosts : h = req[s].h /\ req'[s].h = h /\ Erases(req[s])
      BY <2>1, <2>2
    <3>2. LiveOn(h)' = {}
      BY <3>1 DEF FleetInv, ReqInv, RemoveInv
    <3> QED
      BY <3>1, <3>2 DEF LiveOn
  <2> QED
    BY <2>1, <2>2 DEF FleetInv, ReqInv, RemoveInv, Erases
<1> QED
  BY <1>3, <1>4, <1>5, <1>6 DEF ReqInv

LEMMA SlotTaken ==
    ASSUME req \in [Requests -> ReqRecs], NEW r \in Requests, NEW q \in ReqRecs
    PROVE  \E slots \in [Requests -> ReqRecs] :
              /\ slots = [req EXCEPT ![r] = q]
              /\ slots[r] = q /\ \A s \in Requests \ {r} : slots[s] = req[s]
<1>1. PICK slots : slots = [req EXCEPT ![r] = q]
  OBVIOUS
<1>2. slots \in [Requests -> ReqRecs] /\ slots[r] = q
      /\ \A s \in Requests \ {r} : slots[s] = req[s]
  BY <1>1
<1> QED
  BY <1>1, <1>2

LEMMA DeletingForm ==
    ASSUME NEW d \in Deployments
    PROVE  /\ Deleting(d) \in ReqRecs /\ Deleting(d).op = "delete" /\ Deleting(d).d = d
           /\ Shape(Deleting(d)) /\ DriftOK(Deleting(d)) /\ ~Erases(Deleting(d))
<1>1. PICK q \in ReqRecs : q = [Idle EXCEPT !.op = "delete", !.at = "desired", !.d = d]
  BY IdleForm DEF ReqRecs, Ops, Labels
<1>2. q.op = "delete" /\ q.at = "desired" /\ q.d = d /\ q.sure = Idle.sure
  BY <1>1, IdleForm DEF ReqRecs
<1>3. Shape(q) /\ DriftOK(q) /\ ~Erases(q)
  BY <1>2, IdleForm DEF Shape, DriftOK, Erases, Cleanups
<1> QED
  BY <1>1, <1>2, <1>3 DEF Deleting

LEMMA DeleteDeploymentStep ==
    ASSUME FleetInv, NEW r \in Requests, NEW d \in Deployments, DeleteDeployment(r, d),
           UNCHANGED cellVars
    PROVE  FleetInv'
<1>1. /\ UNCHANGED <<host, beat, lock, agentVars, facts, rows, tripped, events>>
      /\ Turned(d, [req EXCEPT ![r] = Deleting(d)]) /\ dep' = [dep EXCEPT ![d].st = "deleted"]
      /\ cont' = [cont EXCEPT ![d] = "none"]
  BY DEF DeleteDeployment
<1>2. dep \in [Deployments -> DepRows] /\ cont \in [Deployments -> States]
  BY DEF FleetInv, SeenInv
<1>3. /\ dep' \in [Deployments -> DepRows] /\ cont' \in [Deployments -> States]
      /\ dep'[d].host = dep[d].host /\ dep'[d].st = "deleted" /\ cont'[d] = "none"
      /\ \A e \in Deployments \ {d} : dep'[e] = dep[e] /\ cont'[e] = cont[e]
  BY <1>1, <1>2 DEF DepRows, States
<1>4. ~Live(d)' /\ ~Up(d)'
  BY <1>3 DEF Live, Up
<1>5. HostInv'
  BY <1>1, BusyCounts, HostKept DEF FleetInv, DeleteDeployment
<1>6. PICK slots \in [Requests -> ReqRecs] :
        /\ slots = [req EXCEPT ![r] = Deleting(d)]
        /\ slots[r] = Deleting(d) /\ \A s \in Requests \ {r} : slots[s] = req[s]
  <2>1. req \in [Requests -> ReqRecs] /\ Deleting(d) \in ReqRecs
    BY DeletingForm DEF FleetInv, ReqInv
  <2> QED
    BY <2>1, SlotTaken
<1>7. Turned(d, slots) /\ SeenInv'
  BY <1>1, <1>3, <1>4, <1>6, TurnedSeen DEF FleetInv
<1>8. \A h \in Hosts : LiveOn(h)' \subseteq LiveOn(h)
  BY <1>3, <1>4 DEF LiveOn, Live
<1>9. \A s \in Requests : /\ Shape(slots[s]) /\ DriftOK(slots[s])
                          /\ Erases(slots[s]) => slots[s] = req[s]
  BY <1>6, DeletingForm DEF FleetInv, ReqInv
<1>10. ReqInv'
  BY <1>1, <1>3, <1>7, <1>8, <1>9, TurnedReq
<1> QED
  BY <1>1, <1>5, <1>7, <1>10, CellKept DEF FleetInv, Exists

LEMMA ContainerStep ==
    ASSUME FleetInv, NEW d \in Deployments, ContainerChanges(d), UNCHANGED cellVars
    PROVE  FleetInv'
<1>1. /\ UNCHANGED <<host, beat, lock, agentVars, facts, rows, dep, tripped, ops>>
      /\ Live(d) /\ events' \in 0 .. MaxEvents
  BY HostForms DEF ContainerChanges
<1>2. PICK s \in States \ {cont[d]} :
        /\ cont' = [cont EXCEPT ![d] = s]
        /\ IF s = "none" \/ cont[d] = "none" THEN Turned(d, req)
           ELSE UNCHANGED <<told, hb, req>>
  BY DEF ContainerChanges, States
<1>3. dep \in [Deployments -> DepRows] /\ cont \in [Deployments -> States]
  BY DEF FleetInv, SeenInv
<1>4. /\ cont' \in [Deployments -> States] /\ cont'[d] = s
      /\ \A e \in Deployments \ {d} : cont'[e] = cont[e]
  BY <1>2, <1>3
<1>5. HostInv'
  BY <1>1 DEF FleetInv, HostInv, agentVars
<1>6. Live(d)' /\ \A h \in Hosts : LiveOn(h)' = LiveOn(h)
  BY <1>1 DEF LiveOn, Live
<1>7. CASE Turned(d, req)
  <2>1. SeenInv'
    BY <1>1, <1>3, <1>4, <1>6, <1>7, TurnedSeen DEF FleetInv
  <2>2. ReqInv'
    BY <1>1, <1>6, <1>7, TurnedReq DEF FleetInv, ReqInv
  <2> QED
    BY <1>1, <1>5, <2>1, <2>2, CellKept DEF FleetInv, Exists
<1>8. CASE UNCHANGED <<told, hb, req>> /\ s # "none" /\ cont[d] # "none"
  <2>1. \A e \in Deployments : Up(e)' = Up(e) /\ Live(e)' = Live(e)
    BY <1>1, <1>4, <1>8 DEF Up, Live
  <2>2. \A e \in Deployments : ToldOK(e)'
    BY <1>1, <1>8, <2>1 DEF FleetInv, SeenInv, ToldOK
  <2>3. \A h \in Hosts : BeatOK(h, hb[h])'
    <3> SUFFICES ASSUME NEW h \in Hosts PROVE BeatOK(h, hb[h])'
      OBVIOUS
    <3>1. BeatOK(h, hb[h]) /\ hb[h] \in Beats
      BY DEF FleetInv, SeenInv
    <3> QED
      BY <1>1, <1>6, <1>8, <2>1, <3>1 DEF BeatOK, Beats
  <2>4. SeenInv'
    BY <1>1, <1>4, <1>8, <2>2, <2>3 DEF FleetInv, SeenInv
  <2> QED
    BY <1>1, <1>5, <1>8, <2>4, ReqKept, CellKept DEF FleetInv, Exists
<1> QED
  BY <1>2, <1>7, <1>8

----------------------------------------------------------------------------
(* Cells.  Their steps leave hosts, agents and observations alone.         *)

LEMMA ApartFrame ==
    ASSUME FleetInv, Apart, ops' \in 0 .. MaxOps
    PROVE  /\ HostInv' /\ SeenInv' /\ UNCHANGED <<lock, dep, told, tripped>>
           /\ \A h \in Hosts : Exists(h) => Exists(h)'
<1>1. UNCHANGED <<host, beat, lock, agentVars, hb, facts, rows, cont, told, dep, tripped, events>>
  BY SameSeen DEF Apart
<1> QED
  BY <1>1, HostKept, SeenKept DEF FleetInv, Exists

(* A request of one statement.                                             *)
LEMMA CallApart ==
    ASSUME FleetInv, Call, Apart, CellInv' PROVE FleetInv'
<1>1. ops' \in 0 .. MaxOps /\ req' = req
  BY BusyCounts DEF Call, FleetInv
<1> QED
  BY <1>1, ApartFrame, ReqKept DEF FleetInv

(* The last step of a request.                                             *)
LEMMA DoneApart ==
    ASSUME FleetInv, NEW r \in Requests, Done(r), Apart, CellInv' PROVE FleetInv'
<1>1. ops' \in 0 .. MaxOps
  BY DEF Done, FleetInv, HostInv
<1> QED
  BY <1>1, ApartFrame, DoneMoves DEF FleetInv

(* The first step of a request, which only reads.                          *)
LEMMA TakeApart ==
    ASSUME FleetInv, NEW r \in Requests,
           NEW op \in Ops, op \notin {"none", "update", "remove", "create", "drift", "delete"},
           NEW at \in Labels, NEW h \in Hosts \cup {None}, NEW c \in Cells \cup {None},
           NEW d \in Deployments \cup {None}, NEW saw \in Saws,
           Take(r, op, at, h, c, d, saw), Apart, UNCHANGED cellVars,
           op = "drop" => c \in Cells,
           op = "attach" => c \in Cells /\ d \in Deployments,
           op = "seat" => h \in Hosts /\ c \in Cells,
           op = "backfill" => d \in Deployments /\ saw \subseteq {"running", "stopped"},
           op = "link" => saw \in Cells \X Cells,
           op = "sync" => saw \subseteq Wanted
    PROVE  FleetInv'
<1>1. Busy /\ \E q \in ReqRecs :
        /\ req' = [req EXCEPT ![r] = q]
        /\ q.op = op /\ q.at = at /\ q.h = h /\ q.c = c /\ q.d = d /\ q.saw = saw
        /\ \A e \in Deployments : q.sure[e] = "no"
  BY ONLY TakeForm, Take(r, op, at, h, c, d, saw), r \in Requests, op \in Ops, at \in Labels,
     h \in Hosts \cup {None}, c \in Cells \cup {None}, d \in Deployments \cup {None},
     saw \in Saws
<1>2. PICK q \in ReqRecs :
        /\ req' = [req EXCEPT ![r] = q]
        /\ q.op = op /\ q.at = at /\ q.h = h /\ q.c = c /\ q.d = d /\ q.saw = saw
        /\ \A e \in Deployments : q.sure[e] = "no"
  BY <1>1
<1>3. Shape(q) /\ ~Erases(q)
  BY <1>2 DEF Shape, Erases
<1>4. ops' \in 0 .. MaxOps
  BY <1>1, BusyCounts DEF FleetInv
<1>5. /\ HostInv' /\ SeenInv' /\ UNCHANGED <<lock, dep, told, tripped>>
      /\ \A g \in Hosts : Exists(g) => Exists(g)'
  BY <1>4, ApartFrame
<1>6. ReqInv'
  BY <1>2, <1>3, <1>5, TakeMoves DEF FleetInv
<1>7. CellInv'
  BY <1>5, CellKept DEF FleetInv
<1> QED
  BY <1>5, <1>6, <1>7 DEF FleetInv

(* Only the cells, only the attachments with the placements, and so on.    *)
LEMMA CellsOnly ==
    ASSUME CellInv, cell' \in [Cells -> CellRows],
           UNCHANGED <<res, place, desired, link, svc, host>>
    PROVE  CellInv'
  BY DEF CellInv, Exists

LEMMA PlacesOnly ==
    ASSUME CellInv, cell' \in [Cells -> CellRows],
           res' \in [Deployments -> Cells \cup {None}],
           place' \in [Deployments -> Places],
           \A d \in Deployments : PlaceOK(place'[d]),
           link' \in Links, svc' \in {"none", "active", "revoked"},
           UNCHANGED <<desired, host>>
    PROVE  CellInv'
  BY DEF CellInv, Exists, PlaceOK

LEMMA NoForms ==
    /\ NoCell \in CellRows /\ NoPlace \in Places /\ NoLink \in Links /\ PlaceOK(NoPlace)
    /\ NoPlace.c = None /\ [NoCell EXCEPT !.st = "gone"] \in CellRows
    /\ [NoCell EXCEPT !.st = "active"] \in CellRows
  BY DEF NoCell, NoPlace, NoLink, CellRows, Places, Links, PlaceOK

LEMMA CreateCellStep ==
    ASSUME FleetInv, NEW c \in Cells, CreateCell(c) PROVE FleetInv'
<1>1. cell \in [Cells -> CellRows]
  BY DEF FleetInv, CellInv
<1>2. cell' \in [Cells -> CellRows]
  BY <1>1 DEF CreateCell, CellRows
<1>3. CellInv'
  BY <1>2, CellsOnly DEF CreateCell, Apart, FleetInv
<1> QED
  BY <1>3, CallApart DEF CreateCell

LEMMA UpdateCellStep ==
    ASSUME FleetInv, NEW c \in Cells, UpdateCell(c) PROVE FleetInv'
<1>1. cell \in [Cells -> CellRows]
  BY DEF FleetInv, CellInv
<1>2. cell' \in [Cells -> CellRows]
  BY <1>1 DEF UpdateCell, CellRows
<1>3. CellInv'
  BY <1>2, CellsOnly DEF UpdateCell, Apart, FleetInv
<1> QED
  BY <1>3, CallApart DEF UpdateCell

LEMMA CountLinksStep ==
    ASSUME FleetInv, NEW r \in Requests, NEW c \in Cells, CountLinks(r, c)
    PROVE  FleetInv'
<1>1. /\ {} \in Saws /\ "delete" \in Labels
      /\ "drop" \in Ops
  BY SawForms DEF Ops, Labels
<1>2. Take(r, "drop", "delete", None, c, None, {}) /\ Apart /\ UNCHANGED cellVars
  BY DEF CountLinks
<1> QED
  BY <1>1, <1>2, TakeApart

LEMMA DeleteCellStep ==
    ASSUME FleetInv, NEW r \in Requests, DeleteCell(r) PROVE FleetInv'
<1>1. PICK c \in Cells : c = req[r].c
  BY DEF DeleteCell, At, FleetInv, ReqInv, Shape
<1>2. /\ cell \in [Cells -> CellRows] /\ res \in [Deployments -> Cells \cup {None}]
      /\ place \in [Deployments -> Places] /\ link \in Links
      /\ svc \in {"none", "active", "revoked"}
      /\ \A d \in Deployments : PlaceOK(place[d])
  BY DEF FleetInv, CellInv
<1>3. /\ cell' = [cell EXCEPT ![c] = [NoCell EXCEPT !.st = "gone"]]
      /\ res' = [d \in Deployments |-> IF res[d] = c THEN None ELSE res[d]]
      /\ place' = [d \in Deployments |-> IF place[d].c = c THEN NoPlace ELSE place[d]]
      /\ link' \in {NoLink, link} /\ svc' \in {"none", svc}
      /\ UNCHANGED <<desired, host>>
  BY <1>1 DEF DeleteCell, Cascaded, Apart
<1>4. /\ cell' \in [Cells -> CellRows] /\ place' \in [Deployments -> Places]
      /\ res' \in [Deployments -> Cells \cup {None}]
  BY <1>2, <1>3, NoForms
<1>5. \A d \in Deployments : PlaceOK(place'[d])
  BY <1>2, <1>3, NoForms
<1>6. link' \in Links /\ svc' \in {"none", "active", "revoked"}
  BY <1>2, <1>3, NoForms
<1>7. CellInv'
  BY <1>3, <1>4, <1>5, <1>6, PlacesOnly DEF FleetInv
<1> QED
  BY <1>7, DoneApart DEF DeleteCell

LEMMA LoadForAttachStep ==
    ASSUME FleetInv, NEW r \in Requests, NEW c \in Cells, NEW d \in Deployments,
           LoadForAttach(r, c, d)
    PROVE  FleetInv'
<1>1. cell[c].host \in Hosts \cup {None}
  BY DEF FleetInv, CellInv, CellRows
<1>2. PICK h \in Hosts \cup {None} : h = (IF dep[d].ext THEN None ELSE cell[c].host)
  BY <1>1
<1>3. PICK p \in BOOLEAN :
        Take(r, "attach", "insert", h, c, d, {p \/ cell[c].main = None})
  BY <1>2 DEF LoadForAttach
<1>4. PICK saw : saw = {p \/ cell[c].main = None}
  OBVIOUS
<1>5. /\ saw \in Saws /\ "insert" \in Labels
      /\ "attach" \in Ops
  BY <1>4, SawForms DEF Ops, Labels
<1>6. Take(r, "attach", "insert", h, c, d, saw) /\ Apart /\ UNCHANGED cellVars
  BY <1>3, <1>4 DEF LoadForAttach
<1> QED
  BY <1>5, <1>6, TakeApart

LEMMA AttachDeploymentStep ==
    ASSUME FleetInv, NEW r \in Requests, AttachDeployment(r) PROVE FleetInv'
<1>1. PICK c \in Cells, d \in Deployments, h \in Hosts \cup {None} :
        c = req[r].c /\ d = req[r].d /\ h = req[r].h
  <2>1. req[r] \in ReqRecs /\ Shape(req[r]) /\ req[r].op = "attach"
    BY DEF AttachDeployment, At, FleetInv, ReqInv
  <2> QED
    BY <2>1 DEF Shape, ReqRecs
<1>2. /\ cell \in [Cells -> CellRows] /\ res \in [Deployments -> Cells \cup {None}]
      /\ place \in [Deployments -> Places]
      /\ \A e \in Deployments : PlaceOK(place[e])
  BY DEF FleetInv, CellInv
<1>3. UNCHANGED <<desired, link, svc, host>> /\ Done(r) /\ Apart
  BY DEF AttachDeployment, Apart
<1>4. CASE CellExists(c) /\ res[d] = None /\ CanPlace(h)
  <2>1. PICK want \in {"running", "stopped"} :
          want = (IF place[d] = NoPlace THEN "running" ELSE place[d].want)
    BY <1>2 DEF PlaceOK, Places
  <2>2. PICK p \in Places : p = [c |-> c, h |-> h, want |-> want]
    BY DEF Places
  <2>3. p.c = c /\ PlaceOK(p)
    BY <2>2 DEF PlaceOK
  <2>4. /\ res' = [res EXCEPT ![d] = c] /\ place' = [place EXCEPT ![d] = p]
        /\ cell' = cell \/ cell' = [cell EXCEPT ![c].main = d]
    BY <1>1, <1>2, <1>4, <2>1, <2>2 DEF AttachDeployment
  <2>5. cell' \in [Cells -> CellRows]
    BY <1>2, <2>4 DEF CellRows
  <2>6. \A e \in Deployments : PlaceOK(place'[e])
    BY <1>2, <2>3, <2>4
  <2>7. res' \in [Deployments -> Cells \cup {None}] /\ place' \in [Deployments -> Places]
    BY <1>2, <2>4
  <2>8. CellInv'
    BY <1>3, <2>5, <2>6, <2>7, PlacesOnly DEF FleetInv, CellInv
  <2> QED
    BY <1>3, <2>8, DoneApart
<1>5. CASE ~(CellExists(c) /\ res[d] = None /\ CanPlace(h))
  <2>1. UNCHANGED <<res, place, cell>>
    BY <1>1, <1>5 DEF AttachDeployment
  <2>2. CellInv'
    BY <1>2, <1>3, <2>1, CellsOnly DEF FleetInv
  <2> QED
    BY <1>3, <2>2, DoneApart
<1> QED
  BY <1>4, <1>5

LEMMA ResolveHostStep ==
    ASSUME FleetInv, NEW r \in Requests, NEW c \in Cells, NEW h \in Hosts,
           ResolveHost(r, c, h)
    PROVE  FleetInv'
<1>1. /\ {} \in Saws /\ "write" \in Labels
      /\ "seat" \in Ops
  BY SawForms DEF Ops, Labels
<1>2. Take(r, "seat", "write", h, c, None, {}) /\ Apart /\ UNCHANGED cellVars
  BY DEF ResolveHost
<1> QED
  BY <1>1, <1>2, TakeApart

LEMMA AttachHostStep ==
    ASSUME FleetInv, NEW r \in Requests, AttachHost(r) PROVE FleetInv'
<1>1. PICK c \in Cells, h \in Hosts : c = req[r].c /\ h = req[r].h
  BY DEF AttachHost, At, FleetInv, ReqInv, Shape
<1>2. /\ cell \in [Cells -> CellRows] /\ res \in [Deployments -> Cells \cup {None}]
      /\ place \in [Deployments -> Places]
      /\ \A e \in Deployments : PlaceOK(place[e])
  BY DEF FleetInv, CellInv
<1>3. UNCHANGED <<res, desired, link, svc, host>> /\ Done(r) /\ Apart
  BY DEF AttachHost, Apart
<1>4. CASE Exists(h) /\ CellExists(c)
  <2>1. /\ cell' = [cell EXCEPT ![c].host = h]
        /\ place' = [d \in Deployments |-> IF place[d].c = c /\ place[d].h = None
                        THEN [place[d] EXCEPT !.h = h] ELSE place[d]]
    BY <1>1, <1>4 DEF AttachHost
  <2>2. cell' \in [Cells -> CellRows]
    BY <1>2, <2>1 DEF CellRows
  <2>3. ASSUME NEW e \in Deployments
        PROVE  place'[e] \in Places /\ place'[e].c = place[e].c /\ PlaceOK(place'[e])
    <3>1. place[e] \in Places /\ PlaceOK(place[e])
      BY <1>2
    <3>2. CASE place[e].c = c /\ place[e].h = None
      <4>1. place[e].want # "none"
        BY <3>1, <3>2, NoForms, FleetAssumption DEF PlaceOK
      <4>2. PICK p \in Places : p = [place[e] EXCEPT !.h = h]
        BY <3>1 DEF Places
      <4>3. p.c = c /\ p.want = place[e].want
        BY <3>1, <3>2, <4>2 DEF Places
      <4>4. place'[e] = p
        BY <2>1, <3>2, <4>2
      <4> QED
        BY <3>2, <4>1, <4>3, <4>4 DEF PlaceOK
    <3>3. CASE ~(place[e].c = c /\ place[e].h = None)
      BY <2>1, <3>1, <3>3
    <3> QED
      BY <3>2, <3>3
  <2>4. place' \in [Deployments -> Places]
    <3>1. place' = [d \in Deployments |-> place'[d]]
      BY <2>1
    <3> QED
      BY <2>3, <3>1
  <2>5. \A e \in Deployments : PlaceOK(place'[e])
    BY <1>2, <1>3, <2>3
  <2>6. CellInv'
    BY <1>3, <2>2, <2>4, <2>5, PlacesOnly DEF FleetInv, CellInv
  <2> QED
    BY <1>3, <2>6, DoneApart
<1>5. CASE ~(Exists(h) /\ CellExists(c))
  <2>1. UNCHANGED <<cell, place>>
    BY <1>1, <1>5 DEF AttachHost
  <2>2. CellInv'
    BY <1>2, <1>3, <2>1, CellsOnly DEF FleetInv
  <2> QED
    BY <1>3, <2>2, DoneApart
<1> QED
  BY <1>4, <1>5

LEMMA BackfillLoadStep ==
    ASSUME FleetInv, NEW r \in Requests, NEW d \in Deployments, BackfillLoad(r, d)
    PROVE  FleetInv'
<1>1. PICK h \in Hosts \cup {None} : h = (IF dep[d].ext THEN None ELSE Self)
  BY FleetAssumption
<1>2. PICK want \in {"running", "stopped"} :
        Take(r, "backfill", "check", h, None, d, {want})
  BY <1>1 DEF BackfillLoad
<1>3. PICK saw : saw = {want}
  OBVIOUS
<1>4. /\ saw \in Saws /\ saw \subseteq {"running", "stopped"} /\ "check" \in Labels
      /\ "backfill" \in Ops
  BY <1>3, SawForms DEF Ops, Labels
<1>5. Take(r, "backfill", "check", h, None, d, saw) /\ Apart /\ UNCHANGED cellVars
  BY <1>2, <1>3 DEF BackfillLoad
<1> QED
  BY <1>4, <1>5, TakeApart

LEMMA DeploymentHasCellStep ==
    ASSUME FleetInv, NEW r \in Requests, DeploymentHasCell(r) PROVE FleetInv'
<1>1. /\ Apart /\ UNCHANGED cellVars /\ (Done(r) \/ GoOn(r, "insert")) /\ ops' = ops
      /\ req[r].op = "backfill"
  BY DEF DeploymentHasCell, At, Done, GoOn
<1>2. /\ HostInv' /\ SeenInv' /\ UNCHANGED <<lock, dep, told, tripped>>
      /\ \A h \in Hosts : Exists(h) => Exists(h)'
  BY <1>1, ApartFrame DEF FleetInv, HostInv
<1>3. "insert" \in Labels \ {"erase"}
  BY DEF Labels
<1>4. ReqInv'
  BY <1>1, <1>2, <1>3, DoneMoves, GoOnMoves DEF FleetInv
<1>5. CellInv'
  BY <1>1, <1>2, CellKept DEF FleetInv
<1> QED
  BY <1>2, <1>4, <1>5 DEF FleetInv

LEMMA TryInsertCellStep ==
    ASSUME FleetInv, NEW r \in Requests, NEW c \in Cells, TryInsertCell(r, c)
    PROVE  FleetInv'
<1>1. /\ req[r].saw \subseteq {"running", "stopped"}
      /\ \E d \in Deployments, h \in Hosts \cup {None} : d = req[r].d /\ h = req[r].h
  <2>1. req[r] \in ReqRecs /\ Shape(req[r]) /\ req[r].op = "backfill"
    BY DEF TryInsertCell, At, FleetInv, ReqInv
  <2> QED
    BY <2>1 DEF Shape, ReqRecs
<1>2. PICK d \in Deployments, h \in Hosts \cup {None} : d = req[r].d /\ h = req[r].h
  BY <1>1
<1>3. /\ cell \in [Cells -> CellRows] /\ res \in [Deployments -> Cells \cup {None}]
      /\ place \in [Deployments -> Places]
      /\ \A e \in Deployments : PlaceOK(place[e])
  BY DEF FleetInv, CellInv
<1>4. UNCHANGED <<desired, link, svc, host>> /\ Done(r) /\ Apart
  BY DEF TryInsertCell, Apart
<1>5. CASE res[d] = None /\ place[d] = NoPlace
  <2>1. PICK want \in {"running", "stopped"} :
          place' = [place EXCEPT ![d] = [c |-> c, h |-> h, want |-> want]]
    BY <1>1, <1>2, <1>5 DEF TryInsertCell
  <2>2. PICK p \in Places : p = [c |-> c, h |-> h, want |-> want]
    BY DEF Places
  <2>3. p.c = c /\ PlaceOK(p)
    BY <2>2 DEF PlaceOK
  <2>4. PICK n \in CellRows : n = [st |-> "active", host |-> h, main |-> d]
    BY DEF CellRows
  <2>5. /\ res' = [res EXCEPT ![d] = c] /\ place' = [place EXCEPT ![d] = p]
        /\ cell' = [cell EXCEPT ![c] = n]
    BY <1>2, <1>5, <2>1, <2>2, <2>4 DEF TryInsertCell
  <2>6. /\ cell' \in [Cells -> CellRows] /\ res' \in [Deployments -> Cells \cup {None}]
        /\ place' \in [Deployments -> Places]
    BY <1>3, <2>5
  <2>7. \A e \in Deployments : PlaceOK(place'[e])
    BY <1>3, <2>3, <2>5
  <2>8. CellInv'
    BY <1>4, <2>6, <2>7, PlacesOnly DEF FleetInv, CellInv
  <2> QED
    BY <1>4, <2>8, DoneApart
<1>6. CASE ~(res[d] = None /\ place[d] = NoPlace)
  <2>1. UNCHANGED <<cell, res, place>>
    BY <1>2, <1>6 DEF TryInsertCell
  <2>2. CellInv'
    BY <1>3, <1>4, <2>1, CellsOnly DEF FleetInv
  <2> QED
    BY <1>4, <2>2, DoneApart
<1> QED
  BY <1>5, <1>6

LEMMA CheckCellsStep ==
    ASSUME FleetInv, NEW r \in Requests, NEW src \in Cells, NEW dst \in Cells,
           CheckCells(r, src, dst)
    PROVE  FleetInv'
<1>1. PICK saw \in Cells \X Cells : saw = <<src, dst>>
  OBVIOUS
<1>2. saw \in Saws /\ "insert" \in Labels /\ "link" \in Ops
  BY SawForms DEF Ops, Labels
<1>3. Take(r, "link", "insert", None, None, None, saw) /\ Apart /\ UNCHANGED cellVars
  BY <1>1 DEF CheckCells
<1> QED
  BY <1>2, <1>3, TakeApart

(* The links and their tokens.                                             *)
LEMMA LinksOnly ==
    ASSUME CellInv, link' \in Links, svc' \in {"none", "active", "revoked"},
           UNCHANGED <<cell, res, place, desired, host>>
    PROVE  CellInv'
  BY DEF CellInv, Exists

LEMMA CreateCellLinkStep ==
    ASSUME FleetInv, NEW r \in Requests, CreateCellLink(r) PROVE FleetInv'
<1>1. PICK src \in Cells, dst \in Cells : src = req[r].saw[1] /\ dst = req[r].saw[2]
  BY DEF CreateCellLink, At, FleetInv, ReqInv, Shape
<1>2. link' = link \/ link' = [st |-> "active", src |-> src, dst |-> dst]
  BY <1>1 DEF CreateCellLink
<1>3. link' \in Links
  BY <1>2 DEF FleetInv, CellInv, Links
<1>4. CellInv'
  BY <1>3, LinksOnly DEF CreateCellLink, Apart, FleetInv, CellInv
<1> QED
  BY <1>4, DoneApart DEF CreateCellLink

LEMMA LinkCalls ==
    ASSUME FleetInv, DisableCellLink \/ CreateServiceToken \/ RevokeServiceToken
    PROVE  FleetInv'
<1>1. Call /\ Apart /\ UNCHANGED <<cell, res, place, desired>>
  BY DEF DisableCellLink, CreateServiceToken, RevokeServiceToken
<1>2. link \in Links /\ svc \in {"none", "active", "revoked"}
  BY DEF FleetInv, CellInv
<1>3. link' = link \/ link' = [link EXCEPT !.st = "disabled"]
  BY DEF DisableCellLink, CreateServiceToken, RevokeServiceToken
<1>4. link' \in Links
  BY <1>2, <1>3 DEF Links
<1>5. svc' \in {"none", "active", "revoked"}
  BY <1>2 DEF DisableCellLink, CreateServiceToken, RevokeServiceToken
<1>6. CellInv'
  BY <1>1, <1>4, <1>5, LinksOnly DEF Apart, FleetInv
<1> QED
  BY <1>1, <1>6, CallApart

----------------------------------------------------------------------------
(* Desired state.                                                          *)

(* A placement on a host names a cell and a wish.                          *)
LEMMA WantsForm == ASSUME CellInv PROVE Wants \subseteq Wanted
<1> SUFFICES ASSUME NEW d \in Deployments, place[d].h # None
             PROVE  [h |-> place[d].h, d |-> d, c |-> place[d].c, want |-> place[d].want]
                       \in Wanted
  BY DEF Wants
<1>1. place[d] \in Places /\ PlaceOK(place[d])
  BY DEF CellInv
<1>2. place[d].c \in Cells /\ place[d].want \in {"running", "stopped"}
      /\ place[d].h \in Hosts
  BY <1>1 DEF PlaceOK, Places, NoPlace
<1> QED
  BY <1>2 DEF Wanted

LEMMA ReadWantsStep ==
    ASSUME FleetInv, NEW r \in Requests, ReadWants(r) PROVE FleetInv'
<1>1. PICK saw : saw = Wants /\ saw \subseteq Wanted
  BY WantsForm DEF FleetInv
<1>2. saw \in Saws /\ "decide" \in Labels /\ "sync" \in Ops
  BY <1>1, SawForms DEF Ops, Labels
<1>3. Take(r, "sync", "decide", None, None, None, saw) /\ Apart /\ UNCHANGED cellVars
  BY <1>1 DEF ReadWants
<1> QED
  BY <1>1, <1>2, <1>3, TakeApart

LEMMA ReadActiveStep ==
    ASSUME FleetInv, NEW r \in Requests, ReadActive(r) PROVE FleetInv'
<1>1. /\ Apart /\ UNCHANGED cellVars /\ ops' = ops /\ req[r].op = "sync"
      /\ req' = [req EXCEPT ![r].at = "commit", ![r].base = desired]
  BY DEF ReadActive, At
<1>2. /\ HostInv' /\ SeenInv' /\ UNCHANGED <<lock, dep, told, tripped>>
      /\ \A h \in Hosts : Exists(h) => Exists(h)'
  BY <1>1, ApartFrame DEF FleetInv, HostInv
<1>3. /\ req \in [Requests -> ReqRecs] /\ req[r] \in ReqRecs /\ Shape(req[r])
      /\ desired \in Bases
  BY DEF FleetInv, ReqInv, CellInv, Bases
<1>4. "commit" \in Labels
  BY DEF Labels
<1>5. PICK q \in ReqRecs : q = [req[r] EXCEPT !.at = "commit", !.base = desired]
  BY <1>3, <1>4 DEF ReqRecs
<1>6. /\ q.op = req[r].op /\ q.at = "commit" /\ q.saw = req[r].saw
      /\ q.sure = req[r].sure
  BY <1>3, <1>5 DEF ReqRecs
<1>7. req' = [req EXCEPT ![r] = q]
  BY <1>1, <1>3, <1>5
<1>8. Shape(q) /\ ~Erases(q) /\ \A e \in Deployments : q.sure[e] = "no"
  BY <1>1, <1>3, <1>6 DEF Shape, Erases
<1>9. ReqInv'
  BY <1>2, <1>7, <1>8, TakeMoves DEF FleetInv
<1>10. CellInv'
  BY <1>1, <1>2, CellKept DEF FleetInv
<1> QED
  BY <1>2, <1>9, <1>10 DEF FleetInv

(* What is inserted is on a host that still exists.                        *)
LEMMA SyncDesiredStep ==
    ASSUME FleetInv, NEW r \in Requests, SyncDesired(r) PROVE FleetInv'
<1>1. UNCHANGED <<cell, res, place, link, svc, host>> /\ Done(r) /\ Apart
  BY DEF SyncDesired, Apart
<1>2. req[r].saw \subseteq Wanted
  BY DEF SyncDesired, At, FleetInv, ReqInv, Shape
<1>3. \A x \in desired : x \in Wanted /\ Exists(x.h)
  BY DEF FleetInv, CellInv
<1>4. \A x \in desired' : x \in Wanted /\ Exists(x.h)
  <2>1. CASE Accepted(r)
    BY <1>2, <1>3, <2>1 DEF SyncDesired, Accepted, Inserted
  <2>2. CASE ~Accepted(r)
    BY <1>3, <2>2 DEF SyncDesired
  <2> QED
    BY <2>1, <2>2
<1>5. CellInv'
  BY <1>1, <1>4 DEF FleetInv, CellInv, Exists
<1> QED
  BY <1>1, <1>5, DoneApart

----------------------------------------------------------------------------
(* The drift engine.                                                       *)

(* A step of a computation, which only reads.                              *)
LEMMA DriftMoves ==
    ASSUME FleetInv, NEW r \in Requests, Apart, UNCHANGED cellVars, ops' \in 0 .. MaxOps,
           NEW q \in ReqRecs, req' = [req EXCEPT ![r] = q], q.op = "drift", Shape(q),
           DriftOK(q)
    PROVE  FleetInv'
<1>1. /\ HostInv' /\ SeenInv' /\ UNCHANGED <<lock, dep, told, tripped>>
      /\ \A h \in Hosts : Exists(h) => Exists(h)'
  BY ApartFrame
<1>2. ~Erases(q)
  BY DEF Erases
<1>3. ReqInv'
  BY <1>1, <1>2, ReqMoves DEF FleetInv
<1>4. CellInv'
  BY <1>1, CellKept DEF FleetInv
<1> QED
  BY <1>1, <1>3, <1>4 DEF FleetInv

LEMMA LoadDesiredStep ==
    ASSUME FleetInv, NEW r \in Requests, NEW h \in Hosts \cup {None},
           NEW c \in Cells \cup {None}, LoadDesired(r, h, c)
    PROVE  FleetInv'
<1>1. PICK saw : saw = {x \in desired : InScope(x, h, c)}
  OBVIOUS
<1>2. /\ Apart /\ UNCHANGED cellVars
      /\ req' = [req EXCEPT ![r] = [Idle EXCEPT !.op = "drift", !.at = "rows", !.h = h,
                                                !.c = c, !.saw = saw, !.sure = told]]
  BY <1>1 DEF LoadDesired
<1>3. ops' \in 0 .. MaxOps
  BY BusyCounts DEF LoadDesired, FleetInv
<1>4. saw \subseteq Wanted /\ told \in [Deployments -> Tellings]
      /\ \A x \in saw : h = None \/ x.h = h
  BY <1>1 DEF FleetInv, CellInv, SeenInv, InScope
<1>5. saw \in Saws /\ "drift" \in Ops /\ "rows" \in Labels
  BY <1>4, SawForms DEF Ops, Labels
<1>6. PICK q \in ReqRecs : q = [Idle EXCEPT !.op = "drift", !.at = "rows", !.h = h,
                                            !.c = c, !.saw = saw, !.sure = told]
  BY <1>4, <1>5, IdleForm DEF ReqRecs
<1>7. q.op = "drift" /\ q.at = "rows" /\ q.h = h /\ q.saw = saw /\ q.sure = told
  BY <1>6, IdleForm DEF ReqRecs
<1>8. Shape(q)
  BY <1>4, <1>7 DEF Shape
<1>9. DriftOK(q)
  BY <1>7 DEF DriftOK
<1> QED
  BY <1>2, <1>3, <1>6, <1>7, <1>8, <1>9, DriftMoves

(* The rows agree with what was told: up has one, gone has none.           *)
LEMMA LoadObservedStep ==
    ASSUME FleetInv, NEW r \in Requests, LoadObserved(r) PROVE FleetInv'
<1>1. PICK base : base = {o \in Observed : rows[o.h][o.d] = o.st
                                           /\ Labelled(o, req[r].h, req[r].c)}
  OBVIOUS
<1>2. /\ Apart /\ UNCHANGED cellVars /\ ops' \in 0 .. MaxOps
      /\ req[r].op = "drift" /\ req[r].at = "rows"
      /\ req' = [req EXCEPT ![r].at = "judge", ![r].base = base]
  BY <1>1 DEF LoadObserved, At, Observed, FleetInv, HostInv
<1>3. /\ req \in [Requests -> ReqRecs] /\ req[r] \in ReqRecs /\ Shape(req[r])
      /\ DriftOK(req[r])
  BY DEF FleetInv, ReqInv
<1>4. base \subseteq Observed /\ base \in Bases /\ "judge" \in Labels
  BY <1>1 DEF Bases, Labels
<1>5. PICK q \in ReqRecs : q = [req[r] EXCEPT !.at = "judge", !.base = base]
  BY <1>3, <1>4 DEF ReqRecs
<1>6. /\ q.op = "drift" /\ q.at = "judge" /\ q.base = base /\ q.saw = req[r].saw
      /\ q.sure = req[r].sure /\ q.h = req[r].h /\ q.c = req[r].c
  BY <1>2, <1>3, <1>5 DEF ReqRecs
<1>7. req' = [req EXCEPT ![r] = q]
  BY <1>2, <1>3, <1>5
<1>8. Shape(q)
  BY <1>2, <1>3, <1>4, <1>6 DEF Shape
<1>9. DriftOK(q)
  <2>1. SUFFICES ASSUME NEW d \in Deployments, q.sure[d] # "no"
                 PROVE  /\ told[d] = q.sure[d]
                        /\ q.sure[d] = "up" /\ Reads(q, d) => RowOf(q, d)
                        /\ q.sure[d] = "gone" => ~RowOf(q, d)
    BY <1>6 DEF DriftOK
  <2>2. told[d] = q.sure[d] /\ ToldOK(d)
    BY <1>3, <1>6, <2>1 DEF DriftOK, FleetInv, SeenInv
  <2>3. q.sure[d] = "up" /\ Reads(q, d) => RowOf(q, d)
    <3>1. SUFFICES ASSUME q.sure[d] = "up", Reads(q, d) PROVE RowOf(q, d)
      OBVIOUS
    <3>2. dep[d].host \in Hosts /\ rows[dep[d].host][d] # "none"
      BY <2>2, <3>1 DEF ToldOK
    <3>3. rows[dep[d].host][d] \in {"running", "exited"}
      BY <3>2 DEF FleetInv, SeenInv, States
    <3>4. PICK o \in Observed : o = [h |-> dep[d].host, d |-> d, st |-> rows[dep[d].host][d]]
      BY <3>2, <3>3 DEF Observed
    <3>5. o.h = dep[d].host /\ o.d = d /\ o.st = rows[dep[d].host][d]
      BY <3>4
    <3> QED
      BY <1>1, <1>6, <3>1, <3>5 DEF RowOf, Reads, Labelled
  <2>4. q.sure[d] = "gone" => ~RowOf(q, d)
    <3>1. SUFFICES ASSUME q.sure[d] = "gone", NEW o \in base, o.h = dep[d].host, o.d = d
                   PROVE  FALSE
      BY <1>6 DEF RowOf
    <3>2. rows[dep[d].host][d] = "none"
      BY <2>2, <3>1 DEF ToldOK
    <3>3. o \in Observed /\ rows[o.h][o.d] = o.st
      BY <1>1, <3>1
    <3> QED
      BY <3>1, <3>2, <3>3 DEF Observed
  <2> QED
    BY <2>2, <2>3, <2>4
<1> QED
  BY <1>2, <1>6, <1>7, <1>8, <1>9, DriftMoves

(* Missing takes a host without the row; in sync with a wish to run, one   *)
(* with it.                                                                *)
LEMMA VerdictForm ==
    ASSUME NEW x \in Wanted, NEW seen
    PROVE  /\ Verdict(x, seen) \in Verdicts
           /\ Verdict(x, seen) = "missing" => ~\E o \in seen : o.h = x.h /\ o.d = x.d
           /\ Verdict(x, seen) = "in_sync" /\ x.want = "running"
                 => \E o \in seen : o.h = x.h /\ o.d = x.d
<1>1. PICK match : match = {o \in seen : o.h = x.h /\ o.d = x.d}
  OBVIOUS
<1>2. PICK st : st = (CHOOSE o \in match : TRUE).st
  OBVIOUS
<1>3. CompareState(x.want, st) \in {"in_sync", "drifted"}
  BY DEF CompareState
<1>4. \/ Verdict(x, seen) = "orphaned" \/ Verdict(x, seen) = "host_unreachable"
      \/ match = {} /\ Verdict(x, seen) = WithoutContainer(x.want)
      \/ match # {} /\ Verdict(x, seen) = CompareState(x.want, st)
  <2>1. CASE ~Live(x.d)
    BY <2>1, <1>1 DEF Verdict
  <2>2. CASE Live(x.d) /\ ~HostTrust(x.h)
    BY <2>2, <1>1 DEF Verdict
  <2>3. CASE Live(x.d) /\ HostTrust(x.h) /\ match = {}
    BY <2>3, <1>1 DEF Verdict
  <2>4. CASE Live(x.d) /\ HostTrust(x.h) /\ match # {}
    BY <2>4, <1>1, <1>2 DEF Verdict
  <2> QED
    BY <2>1, <2>2, <2>3, <2>4
<1>5. WithoutContainer(x.want) \in {"missing", "in_sync"}
      /\ (x.want = "running" => WithoutContainer(x.want) = "missing")
  BY DEF WithoutContainer
<1> QED
  BY <1>1, <1>3, <1>4, <1>5 DEF Verdicts

LEMMA JudgeStep ==
    ASSUME FleetInv, NEW r \in Requests, Judge(r) PROVE FleetInv'
<1>1. PICK wanted, seen : wanted = req[r].saw /\ seen = req[r].base
  OBVIOUS
<1>2. PICK items : items =
        {[h |-> x.h, d |-> x.d, want |-> x.want, is |-> Verdict(x, seen)] : x \in wanted}
        \cup {[h |-> o.h, d |-> o.d, want |-> "none", is |-> "unmanaged"] :
                 o \in Unmanaged(wanted, seen)}
  OBVIOUS
<1>3. /\ Apart /\ UNCHANGED cellVars /\ ops' \in 0 .. MaxOps
      /\ req[r].op = "drift" /\ req[r].at = "judge"
      /\ req' = [req EXCEPT ![r].at = "persist", ![r].base = {}, ![r].saw = items]
  BY <1>1, <1>2 DEF Judge, At, FleetInv, HostInv
<1>4. /\ req \in [Requests -> ReqRecs] /\ req[r] \in ReqRecs /\ Shape(req[r])
      /\ DriftOK(req[r])
  BY DEF FleetInv, ReqInv
<1>5. /\ wanted \subseteq Wanted /\ seen \subseteq Observed
      /\ \A x \in wanted : req[r].h = None \/ x.h = req[r].h
  BY <1>1, <1>3, <1>4 DEF Shape
<1>6. ASSUME NEW i \in items
      PROVE  /\ i \in Items
             /\ i.is = "missing" => /\ ~\E o \in seen : o.h = i.h /\ o.d = i.d
                                    /\ req[r].h = None \/ i.h = req[r].h
             /\ i.is = "in_sync" /\ i.want = "running"
                   => \E o \in seen : o.h = i.h /\ o.d = i.d
  <2>1. CASE \E x \in wanted :
               i = [h |-> x.h, d |-> x.d, want |-> x.want, is |-> Verdict(x, seen)]
    <3>1. PICK x \in wanted :
            i = [h |-> x.h, d |-> x.d, want |-> x.want, is |-> Verdict(x, seen)]
      BY <2>1
    <3>2. x \in Wanted
      BY <1>5
    <3>3. PICK v \in Verdicts : v = Verdict(x, seen)
      BY <3>2, VerdictForm
    <3>4. /\ v = "missing" => ~\E o \in seen : o.h = x.h /\ o.d = x.d
          /\ v = "in_sync" /\ x.want = "running" => \E o \in seen : o.h = x.h /\ o.d = x.d
      BY <3>2, <3>3, VerdictForm
    <3>5. i = [h |-> x.h, d |-> x.d, want |-> x.want, is |-> v]
      BY <3>1, <3>3
    <3>6. i.h = x.h /\ i.d = x.d /\ i.want = x.want /\ i.is = v
      BY <3>5
    <3>7. i \in Items
      BY <3>2, <3>5 DEF Wanted, Items
    <3> QED
      BY <1>5, <3>4, <3>6, <3>7
  <2>2. CASE \E o \in Unmanaged(wanted, seen) :
               i = [h |-> o.h, d |-> o.d, want |-> "none", is |-> "unmanaged"]
    <3>1. PICK o \in Observed :
            i = [h |-> o.h, d |-> o.d, want |-> "none", is |-> "unmanaged"]
      BY <1>5, <2>2 DEF Unmanaged
    <3>2. i.is = "unmanaged"
      BY <3>1
    <3>3. i \in Items
      BY <3>1 DEF Observed, Items, Verdicts
    <3> QED
      BY <3>2, <3>3
  <2> QED
    BY <1>2, <2>1, <2>2
<1>7. items \in Saws /\ {} \in Bases /\ "persist" \in Labels
  BY <1>6, SawForms DEF Bases, Labels
<1>8. PICK q \in ReqRecs : q = [req[r] EXCEPT !.at = "persist", !.base = {}, !.saw = items]
  BY <1>4, <1>7 DEF ReqRecs
<1>9. /\ q.op = "drift" /\ q.at = "persist" /\ q.saw = items /\ q.sure = req[r].sure
      /\ q.h = req[r].h /\ q.c = req[r].c
  BY <1>3, <1>4, <1>8 DEF ReqRecs
<1>10. req' = [req EXCEPT ![r] = q]
  BY <1>3, <1>4, <1>8
<1>11. Shape(q)
  BY <1>6, <1>9 DEF Shape
<1>12. DriftOK(q)
  <2>1. SUFFICES ASSUME NEW d \in Deployments, q.sure[d] # "no"
                 PROVE  /\ told[d] = q.sure[d]
                        /\ \A i \in items : i.d = d /\ i.h = dep[d].host =>
                              /\ i.is = "missing" /\ q.c = None => q.sure[d] # "up"
                              /\ i.want = "running" /\ q.sure[d] = "gone"
                                    => i.is # "in_sync"
    BY <1>9 DEF DriftOK
  <2>2. /\ told[d] = q.sure[d]
        /\ q.sure[d] = "up" /\ Reads(req[r], d) => RowOf(req[r], d)
        /\ q.sure[d] = "gone" => ~RowOf(req[r], d)
    BY <1>3, <1>4, <1>9, <2>1 DEF DriftOK
  <2>3. RowOf(req[r], d) <=> \E o \in seen : o.h = dep[d].host /\ o.d = d
    BY <1>1 DEF RowOf
  <2> QED
    BY <1>6, <1>9, <2>2, <2>3 DEF Reads
<1> QED
  BY <1>3, <1>9, <1>10, <1>11, <1>12, DriftMoves

LEMMA PersistStep ==
    ASSUME FleetInv, NEW r \in Requests, Persist(r) PROVE FleetInv'
<1>1. Done(r) /\ Apart /\ UNCHANGED cellVars
  BY DEF Persist
<1>2. \A h \in Hosts : Exists(h) => Exists(h)'
  BY <1>1 DEF Apart, Exists
<1>3. CellInv'
  BY <1>1, <1>2, CellKept DEF FleetInv
<1> QED
  BY <1>1, <1>3, DoneApart

----------------------------------------------------------------------------
(* The cleanup of a delete.                                                *)

LEMMA CleanupLabels ==
    /\ Cleanups \subseteq Labels \ {"erase"}
    /\ "placement" \in Cleanups /\ "resource" \in Cleanups /\ "primary" \in Cleanups
    /\ \A at \in Cleanups \ {"primary"} : PassedOver(at) \in Cleanups
  BY DEF Labels, Cleanups, PassedOver

LEMMA GoOnApart ==
    ASSUME FleetInv, NEW r \in Requests, req[r].op = "delete",
           NEW at \in Cleanups, GoOn(r, at), Apart, CellInv'
    PROVE  FleetInv'
<1>1. ops' \in 0 .. MaxOps
  BY DEF GoOn, FleetInv, HostInv
<1> QED
  BY <1>1, ApartFrame, GoOnMoves, CleanupLabels DEF FleetInv

LEMMA CleanupDesiredStep ==
    ASSUME FleetInv, NEW r \in Requests, CleanupDesired(r) PROVE FleetInv'
<1>1. /\ req[r].op = "delete" /\ GoOn(r, "placement") /\ Apart
      /\ UNCHANGED <<cell, res, place, link, svc, host>>
      /\ desired' \subseteq desired
  BY DEF CleanupDesired, At, Apart
<1>2. CellInv'
  BY <1>1 DEF FleetInv, CellInv, Exists
<1> QED
  BY <1>1, <1>2, CleanupLabels, GoOnApart

LEMMA CleanupPlacementStep ==
    ASSUME FleetInv, NEW r \in Requests, CleanupPlacement(r) PROVE FleetInv'
<1>1. /\ req[r].op = "delete" /\ GoOn(r, "resource") /\ Apart
      /\ UNCHANGED <<cell, res, desired, link, svc, host>>
      /\ place' = [place EXCEPT ![req[r].d] = NoPlace]
  BY DEF CleanupPlacement, At, Apart
<1>2. /\ place' \in [Deployments -> Places] /\ \A d \in Deployments : PlaceOK(place'[d])
  BY <1>1, NoForms DEF FleetInv, CellInv
<1>3. CellInv'
  BY <1>1, <1>2, PlacesOnly DEF FleetInv, CellInv
<1> QED
  BY <1>1, <1>3, CleanupLabels, GoOnApart

LEMMA CleanupResourceStep ==
    ASSUME FleetInv, NEW r \in Requests, CleanupResource(r) PROVE FleetInv'
<1>1. /\ req[r].op = "delete" /\ GoOn(r, "primary") /\ Apart
      /\ UNCHANGED <<cell, place, desired, link, svc, host>>
      /\ res' = [res EXCEPT ![req[r].d] = None]
  BY DEF CleanupResource, At, Apart
<1>2. res' \in [Deployments -> Cells \cup {None}]
  BY <1>1 DEF FleetInv, CellInv
<1>3. CellInv'
  BY <1>1, <1>2, PlacesOnly DEF FleetInv, CellInv
<1> QED
  BY <1>1, <1>3, CleanupLabels, GoOnApart

LEMMA CleanupPrimaryStep ==
    ASSUME FleetInv, NEW r \in Requests, CleanupPrimary(r) PROVE FleetInv'
<1>1. /\ Done(r) /\ Apart /\ UNCHANGED <<res, place, desired, link, svc, host>>
      /\ cell' = [c \in Cells |-> IF cell[c].main = req[r].d
                    THEN [cell[c] EXCEPT !.main = None] ELSE cell[c]]
  BY DEF CleanupPrimary, Apart
<1>2. ASSUME NEW c \in Cells
      PROVE  (IF cell[c].main = req[r].d THEN [cell[c] EXCEPT !.main = None] ELSE cell[c])
               \in CellRows
  <2>1. cell[c] \in CellRows
    BY DEF FleetInv, CellInv
  <2> QED
    BY <2>1 DEF CellRows
<1>3. cell' \in [Cells -> CellRows]
  BY <1>1, <1>2
<1>4. CellInv'
  BY <1>1, <1>3, CellsOnly DEF FleetInv
<1> QED
  BY <1>1, <1>4, DoneApart

LEMMA CleanupFailsStep ==
    ASSUME FleetInv, NEW r \in Requests, CleanupFails(r) PROVE FleetInv'
<1>1. /\ UNCHANGED <<host, beat, lock, agentVars, hb, facts, rows, cont, told, dep, tripped>>
      /\ UNCHANGED cellVars /\ events' \in 0 .. MaxEvents /\ req[r].op = "delete"
  BY SameSeen, HostForms DEF CleanupFails
<1>2. ops' = ops
  BY DEF CleanupFails, Done, GoOn
<1>3. HostInv'
  BY <1>1, <1>2 DEF FleetInv, HostInv, agentVars
<1>4. ReqInv'
  <2>1. CASE Done(r)
    BY <1>1, <2>1, DoneMoves DEF FleetInv
  <2>2. CASE \E at \in Cleanups : GoOn(r, at)
    BY <1>1, <2>2, GoOnMoves, CleanupLabels DEF FleetInv
  <2>3. req[r].at \in Cleanups
    BY <1>1 DEF FleetInv, ReqInv, Shape
  <2> QED
    BY <2>1, <2>2, <2>3, CleanupLabels DEF CleanupFails
<1> QED
  BY <1>1, <1>3, <1>4, SeenKept, CellKept DEF FleetInv, Exists

----------------------------------------------------------------------------
(* The initial states, and every step.                                     *)

LEMMA SetUpForm ==
    ASSUME NEW other \in Hosts, other # Self, NEW here \in {Self, other},
           NEW adopted \in BOOLEAN, here = other => adopted, NEW scout \in Agents,
           NEW first \in Deployments, NEW room \in Cells, NEW annex \in Cells \cup {None},
           SetUp(here, adopted, other, scout, first, room, annex),
           lock = {}, token = [t \in Tokens |-> NoToken], hb = [h \in Hosts |-> Quiet],
           req = [r \in Requests |-> Idle], svc = "none",
           tripped = FALSE, ops = 0, events = 0
    PROVE  FleetInv
<1>1. HostInv
  <2>1. NoAgent \in AgentRows /\ NoToken \in TokenRows
        /\ [host |-> other, st |-> "online"] \in AgentRows
    BY DEF NoAgent, NoToken, AgentRows, TokenRows
  <2>2. agent \in [Agents -> AgentRows] /\ token \in [Tokens -> TokenRows]
    BY <2>1 DEF SetUp
  <2>3. /\ host \in [Hosts -> Statuses \cup {"none", "gone"}]
        /\ beat \in [Hosts -> {"never", "fresh", "old"}] /\ lock \subseteq Hosts
        /\ runs \in [Hosts -> Agents \cup {None}] /\ facts \in [Hosts -> {"none", "ok", "bad"}]
    BY DEF SetUp, Statuses
  <2>4. ops \in 0 .. MaxOps /\ events \in 0 .. MaxEvents
    BY FleetAssumption
  <2> QED
    BY <2>2, <2>3, <2>4 DEF HostInv
<1>2. SeenInv
  <2>1. PICK live \in DepRows : live = [st |-> "live", host |-> here, ext |-> FALSE]
    BY FleetAssumption DEF DepRows
  <2>2. live.st = "live" /\ live.host = here
    BY <2>1
  <2>3. NoDep \in DepRows /\ NoDep.st = "none"
    BY DEF NoDep, DepRows
  <2>4. dep = [d \in Deployments |-> IF d = first THEN live ELSE NoDep]
    BY <2>1 DEF SetUp
  <2>5. dep \in [Deployments -> DepRows]
    BY <2>3, <2>4
  <2>6. /\ rows \in [Hosts -> [Deployments -> States]] /\ cont \in [Deployments -> States]
        /\ told \in [Deployments -> Tellings]
    BY DEF SetUp, States, Tellings
  <2>7. /\ \A d \in Deployments \ {first} : told[d] = "no" /\ cont[d] = "none"
        /\ cont[first] = "running" /\ told[first] # "gone"
        /\ told[first] = "up" => here = other /\ rows[other][first] = "running"
    BY DEF SetUp
  <2>8. ASSUME NEW d \in Deployments PROVE ToldOK(d)
    <3>1. CASE d = first
      BY <2>2, <2>4, <2>7, <3>1, FleetAssumption DEF ToldOK, Live, Up
    <3>2. CASE d # first
      BY <2>3, <2>4, <2>7, <3>2 DEF ToldOK, Live, Up
    <3> QED
      BY <3>1, <3>2
  <2>9. hb \in [Hosts -> Beats] /\ \A h \in Hosts : BeatOK(h, hb[h])
    BY QuietForm
  <2> QED
    BY <2>5, <2>6, <2>8, <2>9 DEF SeenInv
<1>3. ReqInv
  <2>1. req \in [Requests -> ReqRecs] /\ \A r \in Requests : req[r] = Idle
    BY IdleForm
  <2>2. \A r \in Requests : Shape(req[r]) /\ DriftOK(req[r]) /\ ~Erases(req[r])
    BY <2>1, IdleOK
  <2> QED
    BY <2>1, <2>2 DEF ReqInv, RemoveInv
<1>4. CellInv
  <2>1. cell \in [Cells -> CellRows]
    BY NoForms DEF SetUp, CellRows
  <2>2. link \in Links
    <3>1. \/ link = NoLink
          \/ annex \in Cells /\ link = [st |-> "active", src |-> room, dst |-> annex]
      BY DEF SetUp
    <3> QED
      BY <3>1, NoForms DEF Links
  <2>3. PICK p \in Places : p = [c |-> room, h |-> other, want |-> "running"]
    BY DEF Places
  <2>4. p.c = room /\ PlaceOK(p)
    BY <2>3 DEF PlaceOK
  <2>5. /\ place = [d \in Deployments |-> IF d = first /\ here = other THEN p ELSE NoPlace]
        /\ res = [d \in Deployments |-> IF d = first /\ here = other THEN room ELSE None]
    BY <2>3 DEF SetUp
  <2>6. /\ res \in [Deployments -> Cells \cup {None}] /\ place \in [Deployments -> Places]
        /\ \A d \in Deployments : PlaceOK(place[d])
    BY <2>4, <2>5, NoForms
  <2>7. ASSUME NEW x \in desired PROVE x \in Wanted /\ Exists(x.h)
    <3>1. here = other /\ x = [h |-> other, d |-> first, c |-> room, want |-> "running"]
      BY DEF SetUp
    <3>2. x.h = other /\ x \in Wanted
      BY <3>1 DEF Wanted
    <3>3. host[other] = "online"
      BY <3>1 DEF SetUp
    <3> QED
      BY <3>2, <3>3 DEF Exists, Statuses
  <2> QED
    BY <2>1, <2>2, <2>6, <2>7 DEF CellInv
<1> QED
  BY <1>1, <1>2, <1>3, <1>4 DEF FleetInv

LEMMA InitFleetInv == Init => FleetInv
<1> SUFFICES ASSUME Init PROVE FleetInv
  OBVIOUS
<1>1. PICK other \in Hosts : other = (CHOOSE h \in Hosts : h # Self) /\ other # Self
  BY FleetAssumption
<1>2. PICK scout \in Agents : scout = (CHOOSE a \in Agents : TRUE)
  BY FleetAssumption
<1>3. PICK first \in Deployments : first = (CHOOSE d \in Deployments : TRUE)
  BY FleetAssumption
<1>4. PICK room \in Cells : room = (CHOOSE c \in Cells : TRUE)
  BY FleetAssumption
<1>5. PICK annex \in Cells : annex = (CHOOSE c \in Cells : c # room)
  BY FleetAssumption
<1>6. \/ SetUp(Self, FALSE, other, scout, first, room, None)
      \/ SetUp(Self, TRUE, other, scout, first, room, annex)
      \/ SetUp(other, TRUE, other, scout, first, room, None)
  BY <1>1, <1>2, <1>3, <1>4, <1>5 DEF Init
<1>7. /\ lock = {} /\ token = [t \in Tokens |-> NoToken]
      /\ hb = [h \in Hosts |-> Quiet] /\ req = [r \in Requests |-> Idle]
      /\ svc = "none" /\ tripped = FALSE /\ ops = 0 /\ events = 0
  BY DEF Init
<1>8. CASE SetUp(Self, FALSE, other, scout, first, room, None)
  BY <1>1, <1>7, <1>8, SetUpForm
<1>9. CASE SetUp(Self, TRUE, other, scout, first, room, annex)
  BY <1>1, <1>7, <1>9, SetUpForm
<1>10. CASE SetUp(other, TRUE, other, scout, first, room, None)
  BY <1>1, <1>7, <1>10, SetUpForm
<1> QED
  BY <1>6, <1>8, <1>9, <1>10

LEMMA HeartbeatSteps ==
    ASSUME FleetInv, NEW h \in Hosts, UNCHANGED cellVars,
           HeartbeatStep(h) \/ CutHeartbeat(h) \/ BeatAges(h)
    PROVE  FleetInv'
  BY ScanStep, AuthStep, TxStep, FactsStep, UpsertObservedStep, PruneStep, CutStep,
     AgesStep DEF HeartbeatStep

LEMMA FleetSteps == ASSUME FleetInv, FleetStep, UNCHANGED cellVars PROVE FleetInv'
<1>1. CASE \E h \in Hosts : \/ CreateHost(h) \/ DrainHost(h)
                            \/ HeartbeatStep(h) \/ CutHeartbeat(h) \/ BeatAges(h)
  BY <1>1, CreateHostStep, DrainHostStep, HeartbeatSteps
<1>2. CASE \E r \in Requests :
             \/ \E h \in Hosts : LoadHostForUpdate(r, h) \/ CheckRemoval(r, h)
             \/ \E h \in Hosts, d \in Deployments : ValidateHost(r, d, h)
             \/ WriteHost(r) \/ Teardown(r) \/ LockHost(r) \/ InsertDeployment(r)
             \/ \E d \in Deployments : DeleteDeployment(r, d)
  BY <1>2, LoadHostStep, CheckRemovalStep, ValidateStep, WriteHostStep, TeardownStep,
     LockHostStep, InsertStep, DeleteDeploymentStep
<1>3. CASE \E t \in Tokens :
             \/ \E h \in Hosts : CreateAdoptionToken(t, h) \/ CreateRemoteSetup(t, h)
             \/ \E a \in Agents : Register(t, a)
             \/ TokenExpires(t)
  BY <1>3, TokenSteps, RegisterStep
<1>4. CASE \E a \in Agents : RevokeAgent(a) \/ RotateAgentToken(a) \/ Reinstall(a)
  BY <1>4, AgentSteps
<1>5. CASE \E d \in Deployments :
             AdoptDeployment(d) \/ ContainerChanges(d)
  BY <1>5, AdoptStep, ContainerStep
<1> QED
  BY <1>1, <1>2, <1>3, <1>4, <1>5 DEF FleetStep

LEMMA CellSteps == ASSUME FleetInv, CellStep PROVE FleetInv'
<1>1. CASE \E c \in Cells : CreateCell(c) \/ UpdateCell(c)
  BY <1>1, CreateCellStep, UpdateCellStep
<1>2. CASE \E r \in Requests :
             \/ \E c \in Cells : CountLinks(r, c) \/ TryInsertCell(r, c)
             \/ \E c \in Cells, d \in Deployments : LoadForAttach(r, c, d)
             \/ \E c \in Cells, h \in Hosts : ResolveHost(r, c, h)
             \/ \E src, dst \in Cells : CheckCells(r, src, dst)
             \/ \E d \in Deployments : BackfillLoad(r, d)
  BY <1>2, CountLinksStep, TryInsertCellStep, LoadForAttachStep, ResolveHostStep,
     CheckCellsStep, BackfillLoadStep
<1>3. CASE \E r \in Requests :
             \/ DeleteCell(r) \/ AttachDeployment(r) \/ AttachHost(r)
             \/ DeploymentHasCell(r) \/ CreateCellLink(r)
             \/ ReadWants(r) \/ ReadActive(r) \/ SyncDesired(r)
             \/ EraseHostEverywhere(r)
  BY <1>3, DeleteCellStep, AttachDeploymentStep, AttachHostStep, DeploymentHasCellStep,
     CreateCellLinkStep, ReadWantsStep, ReadActiveStep, SyncDesiredStep, EraseHostStep
<1>4. CASE \E r \in Requests :
             \/ CleanupDesired(r) \/ CleanupPlacement(r) \/ CleanupResource(r)
             \/ CleanupPrimary(r) \/ CleanupFails(r)
  BY <1>4, CleanupDesiredStep, CleanupPlacementStep, CleanupResourceStep,
     CleanupPrimaryStep, CleanupFailsStep
<1>5. CASE DisableCellLink \/ CreateServiceToken \/ RevokeServiceToken
  BY <1>5, LinkCalls
<1> QED
  BY <1>1, <1>2, <1>3, <1>4, <1>5 DEF CellStep

LEMMA NextFleetInv == FleetInv /\ [Next]_vars => FleetInv'
<1> SUFFICES ASSUME FleetInv, [Next]_vars PROVE FleetInv'
  OBVIOUS
<1>1. CASE FleetStep /\ UNCHANGED cellVars
  BY <1>1, FleetSteps
<1>2. CASE CellStep
  BY <1>2, CellSteps
<1>3. CASE DriftStep
  BY <1>3, LoadDesiredStep, LoadObservedStep, JudgeStep, PersistStep
     DEF DriftStep, LoadForScope
<1>4. CASE UNCHANGED vars
  <2>1. UNCHANGED <<host, beat, lock, agentVars, facts, events, ops>>
    BY <1>4 DEF vars, fleetVars, agentVars
  <2>2. UNCHANGED <<hb, rows, cont, told, dep, req, lock, tripped>> /\ UNCHANGED cellVars
    BY <1>4 DEF vars, fleetVars
  <2>3. HostInv'
    BY <2>1, HostKept DEF FleetInv, HostInv
  <2> QED
    BY <2>1, <2>2, <2>3, SeenKept, ReqKept, CellKept DEF FleetInv, Exists
<1> QED
  BY <1>1, <1>2, <1>3, <1>4 DEF Next

----------------------------------------------------------------------------
(* Theorems.                                                               *)

(* The inductive invariant of hosts, heartbeats, requests and cells, kept  *)
(* by every step of every handler, for any number of hosts, deployments,   *)
(* cells and requests in flight.                                           *)
THEOREM FleetInvariant == Spec => []FleetInv
  BY InitFleetInv, NextFleetInv, PTL DEF Spec

(* Removing a host never ends in the foreign-key error (deleteHost): from  *)
(* the count under the row lock to the DELETE no deployment lands there,   *)
(* however many creations, adoptions and other removals race it.           *)
THEOREM RemovalIsAlwaysClean == Spec => []RemovalIsClean
<1>1. FleetInv => RemovalIsClean
  BY DEF FleetInv, ReqInv, RemoveInv, RemovalIsClean
<1> QED
  BY <1>1, FleetInvariant, PTL

----------------------------------------------------------------------------
(* Attachments and placements: a cleanup under way is of a deployment that *)
(* is deleted, and the others are placed where they are attached.          *)

AgreeInv ==
    /\ \A r \in Requests : req[r].op = "delete" => dep[req[r].d].st = "deleted"
    /\ \A d \in Deployments : dep[d].st # "deleted" => res[d] = place[d].c

(* A step that begins no cleanup.                                          *)
NoneBegun == \A s \in Requests : req'[s].op = "delete" =>
                req[s].op = "delete" /\ req'[s].d = req[s].d

(* Deleted is final.                                                       *)
DeletedStay == \A d \in Deployments : dep[d].st = "deleted" => dep'[d].st = "deleted"

LEMMA AgreeKept ==
    ASSUME FleetInv, AgreeInv, NoneBegun, DeletedStay,
           \A d \in Deployments : dep[d].st # "deleted" => res'[d] = place'[d].c
    PROVE  AgreeInv'
<1>1. \A r \in Requests : req[r].op = "delete" => req[r].d \in Deployments
  BY DEF FleetInv, ReqInv, Shape
<1>2. \A r \in Requests : req'[r].op = "delete" => dep'[req'[r].d].st = "deleted"
  BY <1>1 DEF AgreeInv, NoneBegun, DeletedStay
<1> QED
  BY <1>2 DEF AgreeInv, DeletedStay

(* The steps that leave attachments and placements alone.                  *)
LEMMA AgreeFrame ==
    ASSUME FleetInv, AgreeInv, NoneBegun, DeletedStay, UNCHANGED <<res, place>>
    PROVE  AgreeInv'
<1>1. \A d \in Deployments : dep[d].st # "deleted" => res'[d] = place'[d].c
  BY DEF AgreeInv
<1> QED
  BY <1>1, AgreeKept

LEMMA TakeBegins ==
    ASSUME FleetInv, NEW r \in Requests, NEW op, op # "delete", NEW at, NEW h, NEW c,
           NEW d, NEW saw, Take(r, op, at, h, c, d, saw)
    PROVE  NoneBegun
<1>1. req \in [Requests -> ReqRecs]
  BY DEF FleetInv, ReqInv
<1>2. [Idle EXCEPT !.op = op, !.at = at, !.h = h, !.c = c, !.d = d, !.saw = saw].op = op
  BY DEF Idle
<1>3. /\ req'[r].op = op /\ \A s \in Requests \ {r} : req'[s] = req[s]
  BY <1>1, <1>2 DEF Take
<1> QED
  BY <1>3 DEF NoneBegun

LEMMA DoneBegins ==
    ASSUME FleetInv, NEW r \in Requests, Done(r) PROVE NoneBegun
<1>1. req \in [Requests -> ReqRecs] /\ Idle.op = "none"
  BY DEF FleetInv, ReqInv, Idle
<1> QED
  BY <1>1 DEF NoneBegun, Done

LEMMA GoOnBegins ==
    ASSUME FleetInv, NEW r \in Requests, NEW at, GoOn(r, at) PROVE NoneBegun
<1>1. req \in [Requests -> ReqRecs] /\ req[r] \in ReqRecs
  BY DEF FleetInv, ReqInv
<1>2. req'[r] = [req[r] EXCEPT !.at = at] /\ \A s \in Requests \ {r} : req'[s] = req[s]
  BY <1>1 DEF GoOn
<1>3. req'[r].op = req[r].op /\ req'[r].d = req[r].d
  BY <1>1, <1>2 DEF ReqRecs
<1> QED
  BY <1>2, <1>3 DEF NoneBegun

LEMMA SameBegins == UNCHANGED req => NoneBegun
  BY DEF NoneBegun

LEMMA SameStay == UNCHANGED dep => DeletedStay
  BY DEF DeletedStay

LEMMA ApartStay == Apart => DeletedStay
  BY DEF Apart, DeletedStay

(* Hosts, agents and heartbeats.                                           *)
LEMMA AgreeFleet ==
    ASSUME FleetInv, AgreeInv, FleetStep, UNCHANGED cellVars PROVE AgreeInv'
<1>1. UNCHANGED <<res, place>>
  BY DEF cellVars
<1>2. ASSUME UNCHANGED <<req, dep>> PROVE AgreeInv'
  BY <1>1, <1>2, SameBegins, SameStay, AgreeFrame
<1>3. ASSUME NEW h \in Hosts,
             \/ CreateHost(h) \/ DrainHost(h) \/ CutHeartbeat(h) \/ BeatAges(h)
             \/ Scan(h) \/ AuthenticateAgent(h) \/ HeartbeatTx(h) \/ RecordFacts(h)
             \/ UpsertObserved(h) \/ PruneObserved(h)
      PROVE  AgreeInv'
  <2>1. UNCHANGED <<req, dep>>
    BY <1>3 DEF CreateHost, DrainHost, CutHeartbeat, BeatAges, Scan, AuthenticateAgent,
       HeartbeatTx, RecordFacts, UpsertObserved, PruneObserved, heartless, Call
  <2> QED
    BY <1>2, <2>1
<1>4. ASSUME NEW t \in Tokens,
             \/ \E h \in Hosts : CreateAdoptionToken(t, h) \/ CreateRemoteSetup(t, h)
             \/ \E a \in Agents : Register(t, a)
             \/ TokenExpires(t)
      PROVE  AgreeInv'
  <2>1. UNCHANGED <<req, dep>>
    BY <1>4 DEF CreateAdoptionToken, CreateRemoteSetup, Register, TokenExpires, Call
  <2> QED
    BY <1>2, <2>1
<1>5. ASSUME NEW a \in Agents, RevokeAgent(a) \/ RotateAgentToken(a) \/ Reinstall(a)
      PROVE  AgreeInv'
  <2>1. UNCHANGED <<req, dep>>
    BY <1>5 DEF RevokeAgent, RotateAgentToken, Reinstall, Call
  <2> QED
    BY <1>2, <2>1
<1>6. ASSUME NEW r \in Requests,
             \/ \E h \in Hosts : LoadHostForUpdate(r, h) \/ CheckRemoval(r, h)
             \/ \E h \in Hosts, d \in Deployments : ValidateHost(r, d, h)
      PROVE  AgreeInv'
  <2>1. UNCHANGED dep
    BY <1>6 DEF LoadHostForUpdate, CheckRemoval, ValidateHost
  <2>2. NoneBegun
    BY <1>6, TakeBegins DEF LoadHostForUpdate, CheckRemoval, ValidateHost
  <2> QED
    BY <1>1, <2>1, <2>2, SameStay, AgreeFrame
<1>7. ASSUME NEW r \in Requests, WriteHost(r) \/ Teardown(r) \/ LockHost(r)
      PROVE  AgreeInv'
  <2>1. UNCHANGED dep
    BY <1>7 DEF WriteHost, Teardown, LockHost
  <2>2. NoneBegun
    BY <1>7, DoneBegins, GoOnBegins DEF WriteHost, Teardown, LockHost
  <2> QED
    BY <1>1, <2>1, <2>2, SameStay, AgreeFrame
<1>8. ASSUME NEW d \in Deployments, NEW x, dep[d] = NoDep \/ dep' = dep,
             dep' = dep \/ dep' = [dep EXCEPT ![d] = x]
      PROVE  DeletedStay
  <2>1. dep \in [Deployments -> DepRows] /\ NoDep.st = "none"
    BY DEF FleetInv, SeenInv, NoDep
  <2> QED
    BY <1>8, <2>1 DEF DeletedStay
<1>9. ASSUME NEW r \in Requests, InsertDeployment(r) PROVE AgreeInv'
  <2>1. req[r].d \in Deployments
    BY <1>9 DEF InsertDeployment, At, FleetInv, ReqInv, Shape
  <2>2. DeletedStay
    BY <1>8, <1>9, <2>1 DEF InsertDeployment
  <2>3. NoneBegun
    BY <1>9, DoneBegins DEF InsertDeployment
  <2> QED
    BY <1>1, <2>2, <2>3, AgreeFrame
<1>10. ASSUME NEW d \in Deployments, AdoptDeployment(d) PROVE AgreeInv'
  <2>1. DeletedStay
    BY <1>8, <1>10 DEF AdoptDeployment
  <2>2. NoneBegun
    BY <1>10, SameBegins DEF AdoptDeployment, Call
  <2> QED
    BY <1>1, <2>1, <2>2, AgreeFrame
<1>11. ASSUME NEW d \in Deployments, ContainerChanges(d) PROVE AgreeInv'
  <2>1. UNCHANGED dep /\ (Turned(d, req) \/ UNCHANGED req)
    BY <1>11 DEF ContainerChanges
  <2>2. req \in [Requests -> ReqRecs]
    BY DEF FleetInv, ReqInv
  <2>3. Turned(d, req) => NoneBegun
    BY <2>2, TurnedForm DEF NoneBegun
  <2> QED
    BY <1>1, <2>1, <2>3, SameBegins, SameStay, AgreeFrame
<1>12. ASSUME NEW r \in Requests, NEW d \in Deployments, DeleteDeployment(r, d)
       PROVE  AgreeInv'
  <2>1. /\ dep' = [dep EXCEPT ![d].st = "deleted"] /\ dep \in [Deployments -> DepRows]
        /\ req \in [Requests -> ReqRecs] /\ Turned(d, [req EXCEPT ![r] = Deleting(d)])
    BY <1>12 DEF DeleteDeployment, FleetInv, SeenInv, ReqInv
  <2>2. PICK q \in ReqRecs : q = Deleting(d) /\ q.op = "delete" /\ q.d = d
    BY DeletingForm
  <2>3. PICK slots \in [Requests -> ReqRecs] :
          /\ slots = [req EXCEPT ![r] = q]
          /\ slots[r] = q /\ \A s \in Requests \ {r} : slots[s] = req[s]
    BY <2>1, SlotTaken
  <2>4. Turned(d, slots)
    BY <2>1, <2>2, <2>3
  <2>5. \A s \in Requests : req'[s].op = slots[s].op /\ req'[s].d = slots[s].d
    BY <2>4, TurnedForm
  <2>6. /\ dep'[d].st = "deleted" /\ \A e \in Deployments \ {d} : dep'[e] = dep[e]
    BY <2>1 DEF DepRows
  <2>7. \A s \in Requests : req[s].op = "delete" => req[s].d \in Deployments
    BY DEF FleetInv, ReqInv, Shape
  <2>8. ASSUME NEW s \in Requests, req'[s].op = "delete"
        PROVE  dep'[req'[s].d].st = "deleted"
    <3>1. CASE s = r
      BY <2>2, <2>3, <2>5, <2>6, <3>1
    <3>2. CASE s # r
      BY <2>3, <2>5, <2>6, <2>7, <2>8, <3>2 DEF AgreeInv
    <3> QED
      BY <3>1, <3>2
  <2>9. \A e \in Deployments : dep'[e].st # "deleted" => res'[e] = place'[e].c
    BY <1>1, <2>6 DEF AgreeInv
  <2> QED
    BY <2>8, <2>9 DEF AgreeInv
<1> QED
  BY <1>3, <1>4, <1>5, <1>6, <1>7, <1>9, <1>10, <1>11, <1>12 DEF FleetStep, HeartbeatStep

(* The cells: what writes an attachment writes the placement with it.      *)
LEMMA AgreeCells ==
    ASSUME FleetInv, AgreeInv, CellStep PROVE AgreeInv'
<1>1. /\ res \in [Deployments -> Cells \cup {None}] /\ place \in [Deployments -> Places]
      /\ req \in [Requests -> ReqRecs] /\ \A r \in Requests : Shape(req[r])
      /\ \A d \in Deployments : dep[d].st # "deleted" => res[d] = place[d].c
  BY DEF FleetInv, CellInv, ReqInv, AgreeInv
<1>2. ASSUME \/ \E c \in Cells : CreateCell(c) \/ UpdateCell(c)
             \/ DisableCellLink \/ CreateServiceToken \/ RevokeServiceToken
      PROVE  AgreeInv'
  <2>1. Apart /\ UNCHANGED <<res, place, req>>
    BY <1>2 DEF CreateCell, UpdateCell, DisableCellLink, CreateServiceToken,
       RevokeServiceToken, Call
  <2> QED
    BY <2>1, SameBegins, ApartStay, AgreeFrame
<1>3. ASSUME NEW r \in Requests,
             \/ \E c \in Cells : CountLinks(r, c)
             \/ \E c \in Cells, d \in Deployments : LoadForAttach(r, c, d)
             \/ \E c \in Cells, h \in Hosts : ResolveHost(r, c, h)
             \/ \E src, dst \in Cells : CheckCells(r, src, dst)
             \/ \E d \in Deployments : BackfillLoad(r, d)
             \/ ReadWants(r)
      PROVE  AgreeInv'
  <2>1. Apart /\ UNCHANGED <<res, place>>
    BY <1>3 DEF CountLinks, LoadForAttach, ResolveHost, CheckCells, BackfillLoad, ReadWants,
       cellVars
  <2>2. NoneBegun
    BY <1>3, TakeBegins
       DEF CountLinks, LoadForAttach, ResolveHost, CheckCells, BackfillLoad, ReadWants
  <2> QED
    BY <2>1, <2>2, ApartStay, AgreeFrame
<1>4. ASSUME NEW r \in Requests,
             \/ DeploymentHasCell(r) \/ CreateCellLink(r) \/ SyncDesired(r)
             \/ CleanupDesired(r) \/ CleanupPrimary(r)
      PROVE  AgreeInv'
  <2>1. Apart /\ UNCHANGED <<res, place>>
    BY <1>4 DEF DeploymentHasCell, CreateCellLink, SyncDesired, CleanupDesired,
       CleanupPrimary, cellVars
  <2>2. NoneBegun
    BY <1>4, DoneBegins, GoOnBegins DEF DeploymentHasCell, CreateCellLink, SyncDesired,
       CleanupDesired, CleanupPrimary
  <2> QED
    BY <2>1, <2>2, ApartStay, AgreeFrame
<1>5. ASSUME NEW r \in Requests, CleanupFails(r) PROVE AgreeInv'
  <2>1. UNCHANGED <<dep, res, place>>
    BY <1>5 DEF CleanupFails, cellVars
  <2>2. NoneBegun
    BY <1>5, DoneBegins, GoOnBegins DEF CleanupFails
  <2> QED
    BY <2>1, <2>2, SameStay, AgreeFrame
<1>6. ASSUME NEW r \in Requests, ReadActive(r) PROVE AgreeInv'
  <2>1. /\ Apart /\ UNCHANGED <<res, place>> /\ req[r] \in ReqRecs
        /\ req' = [req EXCEPT ![r].at = "commit", ![r].base = desired]
    BY <1>1, <1>6 DEF ReadActive, cellVars
  <2>2. /\ req'[r] = [req[r] EXCEPT !.at = "commit", !.base = desired]
        /\ \A s \in Requests \ {r} : req'[s] = req[s]
    BY <1>1, <2>1
  <2>3. desired \in Bases /\ "commit" \in Labels
    BY DEF FleetInv, CellInv, Bases, Labels
  <2>4. PICK q \in ReqRecs : q = [req[r] EXCEPT !.at = "commit", !.base = desired]
    BY <2>1, <2>3 DEF ReqRecs
  <2>5. q.op = req[r].op /\ q.d = req[r].d
    BY <2>1, <2>4 DEF ReqRecs
  <2>6. NoneBegun
    BY <2>2, <2>4, <2>5 DEF NoneBegun
  <2> QED
    BY <2>1, <2>6, ApartStay, AgreeFrame
<1>7. ASSUME NEW r \in Requests, DeleteCell(r) PROVE AgreeInv'
  <2>1. PICK c \in Cells : c = req[r].c
    BY <1>1, <1>7 DEF DeleteCell, At, Shape
  <2>2. /\ res' = [d \in Deployments |-> IF res[d] = c THEN None ELSE res[d]]
        /\ place' = [d \in Deployments |-> IF place[d].c = c THEN NoPlace ELSE place[d]]
        /\ Done(r) /\ Apart
    BY <1>7, <2>1 DEF DeleteCell, Cascaded
  <2>3. \A d \in Deployments : dep[d].st # "deleted" => res'[d] = place'[d].c
    BY <1>1, <2>2, NoForms
  <2> QED
    BY <2>2, <2>3, DoneBegins, ApartStay, AgreeKept
<1>8. ASSUME NEW r \in Requests, NEW d \in Deployments, NEW c \in Cells,
             NEW p, p.c = c, Done(r), Apart,
             res' = [res EXCEPT ![d] = c], place' = [place EXCEPT ![d] = p]
      PROVE  AgreeInv'
  <2>1. \A e \in Deployments : dep[e].st # "deleted" => res'[e] = place'[e].c
    BY <1>1, <1>8
  <2> QED
    BY <1>8, <2>1, DoneBegins, ApartStay, AgreeKept
<1>9. ASSUME NEW r \in Requests, Done(r), Apart, UNCHANGED <<res, place>> PROVE AgreeInv'
  BY <1>9, DoneBegins, ApartStay, AgreeFrame
<1>10. ASSUME NEW r \in Requests, AttachDeployment(r) PROVE AgreeInv'
  <2>1. PICK c \in Cells, d \in Deployments : c = req[r].c /\ d = req[r].d
    BY <1>1, <1>10 DEF AttachDeployment, At, Shape
  <2>2. Done(r) /\ Apart
    BY <1>10 DEF AttachDeployment
  <2>3. PICK p : p = [c |-> c, h |-> req[r].h,
                      want |-> IF place[d] = NoPlace THEN "running" ELSE place[d].want]
    OBVIOUS
  <2>4. p.c = c
    BY <2>3
  <2>5. \/ UNCHANGED <<res, place>>
        \/ res' = [res EXCEPT ![d] = c] /\ place' = [place EXCEPT ![d] = p]
    BY <1>1, <1>10, <2>1, <2>3 DEF AttachDeployment
  <2> QED
    BY <1>8, <1>9, <2>2, <2>4, <2>5
<1>11. ASSUME NEW r \in Requests, NEW c \in Cells, TryInsertCell(r, c) PROVE AgreeInv'
  <2>1. PICK d \in Deployments : d = req[r].d
    BY <1>1, <1>11 DEF TryInsertCell, At, Shape
  <2>2. Done(r) /\ Apart
    BY <1>11 DEF TryInsertCell
  <2>3. ASSUME NEW want, res' = [res EXCEPT ![d] = c],
               place' = [place EXCEPT ![d] = [c |-> c, h |-> req[r].h, want |-> want]]
        PROVE  AgreeInv'
    <3>1. PICK p : p = [c |-> c, h |-> req[r].h, want |-> want]
      OBVIOUS
    <3>2. p.c = c
      BY <3>1
    <3> QED
      BY <1>8, <2>2, <2>3, <3>1, <3>2
  <2>4. CASE UNCHANGED <<res, place>>
    BY <1>9, <2>2, <2>4
  <2> QED
    BY <1>11, <2>1, <2>3, <2>4 DEF TryInsertCell
<1>12. ASSUME NEW r \in Requests, AttachHost(r) PROVE AgreeInv'
  <2>1. Done(r) /\ Apart /\ res' = res
    BY <1>12 DEF AttachHost
  <2>2. ASSUME NEW d \in Deployments PROVE place'[d].c = place[d].c
    <3>1. \/ place'[d] = place[d]
          \/ place'[d] = [place[d] EXCEPT !.h = req[r].h]
      BY <1>1, <1>12 DEF AttachHost
    <3>2. place[d] \in Places
      BY <1>1
    <3> QED
      BY <3>1, <3>2 DEF Places
  <2>3. \A d \in Deployments : dep[d].st # "deleted" => res'[d] = place'[d].c
    BY <1>1, <2>1, <2>2
  <2> QED
    BY <2>1, <2>3, DoneBegins, ApartStay, AgreeKept
<1>13. ASSUME NEW r \in Requests, EraseHostEverywhere(r) PROVE AgreeInv'
  <2>1. Erases(req[r]) /\ Done(r)
    BY <1>13 DEF EraseHostEverywhere, EraseHost, At, Erases
  <2>2. PICK h \in Hosts : h = req[r].h /\ LiveOn(h) = {}
    BY <2>1 DEF FleetInv, ReqInv, RemoveInv, Shape, Erases
  <2>3. dep' = [d \in Deployments |-> IF dep[d].host = h
                  THEN [dep[d] EXCEPT !.host = Self] ELSE dep[d]]
    BY <1>13, <2>2 DEF EraseHostEverywhere, EraseHost
  <2>4. DeletedStay
    BY <2>2, <2>3, ErasedDeps DEF FleetInv, DeletedStay
  <2>5. res' = res
    BY <1>13 DEF EraseHostEverywhere, cellVars
  <2>6. ASSUME NEW d \in Deployments PROVE place'[d].c = place[d].c
    <3>1. \/ place'[d] = place[d]
          \/ place'[d] = [place[d] EXCEPT !.h = None]
      BY <1>1, <1>13 DEF EraseHostEverywhere, cellVars
    <3>2. place[d] \in Places
      BY <1>1
    <3> QED
      BY <3>1, <3>2 DEF Places
  <2>7. \A d \in Deployments : dep[d].st # "deleted" => res'[d] = place'[d].c
    BY <1>1, <2>5, <2>6
  <2> QED
    BY <2>1, <2>4, <2>7, DoneBegins, AgreeKept
<1>14. ASSUME NEW r \in Requests, CleanupPlacement(r) \/ CleanupResource(r) PROVE AgreeInv'
  <2>1. PICK d \in Deployments : d = req[r].d /\ dep[d].st = "deleted"
    BY <1>1, <1>14 DEF CleanupPlacement, CleanupResource, At, Shape, AgreeInv
  <2>2. /\ Apart /\ NoneBegun
    BY <1>14, GoOnBegins DEF CleanupPlacement, CleanupResource
  <2>3. \A e \in Deployments \ {d} : res'[e] = res[e] /\ place'[e] = place[e]
    BY <1>1, <1>14, <2>1 DEF CleanupPlacement, CleanupResource
  <2>4. \A e \in Deployments : dep[e].st # "deleted" => res'[e] = place'[e].c
    BY <1>1, <2>1, <2>3
  <2> QED
    BY <2>2, <2>4, ApartStay, AgreeKept
<1> QED
  BY <1>2, <1>3, <1>4, <1>5, <1>6, <1>7, <1>10, <1>11, <1>12, <1>13, <1>14 DEF CellStep

(* The drift engine writes neither.                                        *)
LEMMA AgreeDrift ==
    ASSUME FleetInv, AgreeInv, DriftStep PROVE AgreeInv'
<1>1. PICK r \in Requests : LoadForScope(r) \/ LoadObserved(r) \/ Judge(r) \/ Persist(r)
  BY DEF DriftStep
<1>2. Apart /\ UNCHANGED <<res, place>>
  BY <1>1 DEF LoadForScope, LoadDesired, LoadObserved, Judge, Persist, cellVars
<1>3. req \in [Requests -> ReqRecs]
  BY DEF FleetInv, ReqInv
<1>4. CASE LoadForScope(r)
  <2>1. PICK h, c : LoadDesired(r, h, c)
    BY <1>4 DEF LoadForScope
  <2>2. PICK saw : saw = {x \in desired : InScope(x, h, c)}
    OBVIOUS
  <2>3. PICK q : q = [Idle EXCEPT !.op = "drift", !.at = "rows", !.h = h, !.c = c,
                                  !.saw = saw, !.sure = told]
    OBVIOUS
  <2>4. q.op = "drift"
    BY <2>3 DEF Idle
  <2>5. req' = [req EXCEPT ![r] = q]
    BY <2>1, <2>2, <2>3 DEF LoadDesired
  <2>6. NoneBegun
    BY <1>3, <2>4, <2>5 DEF NoneBegun
  <2> QED
    BY <1>2, <2>6, ApartStay, AgreeFrame
<1>5. CASE LoadObserved(r) \/ Judge(r)
  <2>1. req[r].op = "drift" /\ req[r] \in ReqRecs
    BY <1>3, <1>5 DEF LoadObserved, Judge, At
  <2>2. req'[r].op = "drift" /\ \A s \in Requests \ {r} : req'[s] = req[s]
    <3>1. CASE LoadObserved(r)
      <4>1. PICK base : req' = [req EXCEPT ![r].at = "judge", ![r].base = base]
        BY <3>1 DEF LoadObserved
      <4>2. req'[r] = [[req[r] EXCEPT !.at = "judge"] EXCEPT !.base = base]
            /\ \A s \in Requests \ {r} : req'[s] = req[s]
        BY <1>3, <4>1
      <4> QED
        BY <2>1, <4>2 DEF ReqRecs
    <3>2. CASE Judge(r)
      <4>1. PICK saw : req' = [req EXCEPT ![r].at = "persist", ![r].base = {}, ![r].saw = saw]
        BY <3>2 DEF Judge
      <4>2. req'[r] = [[[req[r] EXCEPT !.at = "persist"] EXCEPT !.base = {}] EXCEPT !.saw = saw]
            /\ \A s \in Requests \ {r} : req'[s] = req[s]
        BY <1>3, <4>1
      <4> QED
        BY <2>1, <4>2 DEF ReqRecs
    <3> QED
      BY <1>5, <3>1, <3>2
  <2>3. NoneBegun
    BY <2>1, <2>2 DEF NoneBegun
  <2> QED
    BY <1>2, <2>3, ApartStay, AgreeFrame
<1>6. CASE Persist(r)
  BY <1>2, <1>6, DoneBegins, ApartStay, AgreeFrame DEF Persist
<1> QED
  BY <1>1, <1>4, <1>5, <1>6

LEMMA NextAgreeInv == FleetInv /\ AgreeInv /\ [Next]_vars => AgreeInv'
<1> SUFFICES ASSUME FleetInv, AgreeInv, [Next]_vars PROVE AgreeInv'
  OBVIOUS
<1>1. CASE UNCHANGED vars
  <2>1. UNCHANGED <<req, dep, res, place>>
    BY <1>1 DEF vars, fleetVars, cellVars
  <2> QED
    BY <2>1, SameBegins, SameStay, AgreeFrame
<1> QED
  BY <1>1, AgreeFleet, AgreeCells, AgreeDrift DEF Next

LEMMA InitAgreeInv == Init => AgreeInv
<1> SUFFICES ASSUME Init PROVE AgreeInv
  OBVIOUS
<1>1. \A r \in Requests : req[r].op = "none"
  BY IdleForm DEF Init
<1>2. ASSUME NEW here, NEW adopted, NEW other, NEW scout, NEW first, NEW room, NEW annex,
             SetUp(here, adopted, other, scout, first, room, annex), NEW d \in Deployments
      PROVE  res[d] = place[d].c
  <2>1. NoPlace.c = None /\ [c |-> room, h |-> other, want |-> "running"].c = room
    BY NoForms
  <2> QED
    BY <1>2, <2>1 DEF SetUp
<1>3. \A d \in Deployments : res[d] = place[d].c
  BY <1>2 DEF Init
<1> QED
  BY <1>1, <1>3 DEF AgreeInv

(* The tables stay well formed, nothing desired names a host that is gone, *)
(* and until a deployment is deleted it is placed in the cell it is        *)
(* attached to, whichever of an attach, a backfill, a removal and the      *)
(* deletion of a cell come first, and whatever cleanups of other           *)
(* deployments are half done or failed (attachDeployment, tryInsertCell,   *)
(* deleteCell, deleteHost, cleanupDeploymentCellState).                    *)
THEOREM AttachedAlwaysAgree == Spec => []AttachedAgree
<1>1. ASSUME FleetInv, AgreeInv PROVE AttachedAgree
  <2>1. \A h \in Hosts : hb[h].at \in {"idle", "auth", "tx", "facts", "rows", "prune"}
    BY <1>1 DEF FleetInv, SeenInv, Beats
  <2>2. FleetTypeOK
    BY <1>1, <2>1 DEF FleetTypeOK, FleetInv, HostInv, SeenInv, ReqInv, RemoveInv, AgentRows,
                TokenRows, DepRows, States, Tellings
  <2>3. link.st \in {"none", "active", "disabled"}
    BY <1>1 DEF FleetInv, CellInv, Links
  <2>4. \A x \in desired : Exists(x.h) /\ x.want \in {"running", "stopped"}
    BY <1>1 DEF FleetInv, CellInv, Wanted
  <2>5. TypeOK
    BY <1>1, <2>2, <2>3, <2>4 DEF TypeOK, FleetInv, CellInv, CellRows, Places
  <2> QED
    BY <1>1, <2>5 DEF AttachedAgree, AgreeInv
<1> QED
  BY <1>1, FleetInvariant, InitAgreeInv, NextAgreeInv, PTL DEF Spec

(* A container recorded as up before a computation began, and up since, is *)
(* not called missing in a report of its host or of the project; one that  *)
(* was recorded gone, and is wanted running, keeps a report of any scope   *)
(* from being clean (computeDrift, rollupReportStatus), whatever           *)
(* heartbeats failed, were cut or raced the computation.                   *)
THEOREM ReportsAreTrue == Spec => []ReportIsTrue
<1>1. ASSUME FleetInv PROVE ReportIsTrue
  <2>1. SUFFICES ASSUME NEW r \in Requests, At(r, "drift", "persist"),
                        NEW i \in req[r].saw, dep[i.d].host = i.h
                 PROVE  /\ req[r].c = None /\ i.is = "missing" => req[r].sure[i.d] # "up"
                        /\ Clean(req[r].saw) /\ i.want = "running"
                              => req[r].sure[i.d] # "gone"
    BY DEF ReportIsTrue, NotCalledMissing
  <2>2. req[r].op = "drift" /\ req[r].at = "persist" /\ DriftOK(req[r]) /\ Shape(req[r])
    BY <1>1, <2>1 DEF At, FleetInv, ReqInv
  <2>3. i.d \in Deployments
    BY <2>1, <2>2 DEF Shape, Items
  <2>4. Clean(req[r].saw) => i.is = "in_sync"
    BY <2>1 DEF Clean
  <2>5. req[r].sure[i.d] # "no" =>
          /\ i.is = "missing" /\ req[r].c = None => req[r].sure[i.d] # "up"
          /\ i.want = "running" /\ req[r].sure[i.d] = "gone" => i.is # "in_sync"
    BY <2>1, <2>2, <2>3 DEF DriftOK
  <2> QED
    BY <2>4, <2>5
<1> QED
  BY <1>1, FleetInvariant, PTL

=============================================================================
