------------------------------- MODULE Cells -------------------------------
(***************************************************************************)
(* Cells, what is attached to them and where it is placed, the links       *)
(* between cells with their service tokens, and the desired state derived  *)
(* from the placements (internal/api/cells.go, cell_links.go,              *)
(* desired_state.go, internal/cells/backfill.go), over the fleet.          *)
(*                                                                         *)
(* One project, and one link and one service token at a time.  Names,      *)
(* kinds, protocols and authorisation are left out, and so are the         *)
(* handlers that only change them.                                         *)
(***************************************************************************)
EXTENDS Fleet

VARIABLES
    cell,     \* cells: status, primary_host_id, primary_deployment_id
    res,      \* cell_resources: the cell a deployment is attached to
    place,    \* deployment_placements: cell, host, desired_status
    desired,  \* desired_states that are active, by host and deployment
    link,     \* cell_links: status and the two cells
    svc       \* service_tokens of the link

cellVars == <<cell, res, place, desired, link, svc>>
vars == <<fleetVars, cellVars>>

NoCell == [st |-> "none", host |-> None, main |-> None]
NoPlace == [c |-> None, h |-> None, want |-> "none"]
NoLink == [st |-> "none", src |-> None, dst |-> None]
CellExists(c) == cell[c].st \in {"active", "draining"}

TypeOK ==
    /\ FleetTypeOK
    /\ cell \in [Cells -> [st : {"none", "active", "draining", "gone"},
                           host : Hosts \cup {None},
                           main : Deployments \cup {None}]]
    /\ res \in [Deployments -> Cells \cup {None}]
    /\ place \in [Deployments -> [c : Cells \cup {None}, h : Hosts \cup {None},
                                  want : {"none", "running", "stopped"}]]
    /\ \A x \in desired : Exists(x.h) /\ x.want \in {"running", "stopped"}
    /\ link.st \in {"none", "active", "disabled"}
    /\ svc \in {"none", "active", "revoked"}

(* The control plane alone with a deployment, or beside it an adopted      *)
(* host that is empty or has the deployment on it; in the last case it is  *)
(* recorded, attached, placed and synced.  Beside the empty host a second  *)
(* cell is linked to the first.                                            *)
SetUp(here, adopted, other, scout, first, room, annex) ==
    /\ host = [h \in Hosts |-> IF h = Self \/ (h = other /\ adopted)
                             THEN "online" ELSE "none"]
    /\ beat = [h \in Hosts |-> IF h = other /\ adopted THEN "fresh" ELSE "never"]
    /\ agent = [a \in Agents |-> IF a = scout /\ adopted
                  THEN [host |-> other, st |-> "online"] ELSE NoAgent]
    /\ runs = [h \in Hosts |-> IF h = other /\ adopted THEN scout ELSE None]
    /\ facts = [h \in Hosts |-> IF h = other /\ adopted THEN "ok" ELSE "none"]
    /\ rows = [h \in Hosts |-> [d \in Deployments |->
                 IF h = other /\ d = first /\ here = other THEN "running" ELSE "none"]]
    /\ told = [d \in Deployments |-> IF d = first /\ here = other THEN "up" ELSE "no"]
    /\ dep = [d \in Deployments |-> IF d = first
                THEN [st |-> "live", host |-> here, ext |-> FALSE] ELSE NoDep]
    /\ cont = [d \in Deployments |-> IF d = first THEN "running" ELSE "none"]
    /\ cell = [c \in Cells |-> IF c = room
                 THEN [st |-> "active",
                       host |-> IF here = other THEN other ELSE None,
                       main |-> IF here = other THEN first ELSE None]
                 ELSE IF c = annex THEN [NoCell EXCEPT !.st = "active"] ELSE NoCell]
    /\ link = IF annex = None THEN NoLink
              ELSE [st |-> "active", src |-> room, dst |-> annex]
    /\ res = [d \in Deployments |-> IF d = first /\ here = other THEN room ELSE None]
    /\ place = [d \in Deployments |-> IF d = first /\ here = other
                  THEN [c |-> room, h |-> other, want |-> "running"] ELSE NoPlace]
    /\ desired = IF here = other
                 THEN {[h |-> other, d |-> first, c |-> room, want |-> "running"]} ELSE {}

Init ==
    /\ LET other == CHOOSE h \in Hosts : h # Self
           scout == CHOOSE a \in Agents : TRUE
           first == CHOOSE d \in Deployments : TRUE
           room == CHOOSE c \in Cells : TRUE
           annex == CHOOSE c \in Cells : c # room
       IN  \/ SetUp(Self, FALSE, other, scout, first, room, None)
           \/ SetUp(Self, TRUE, other, scout, first, room, annex)
           \/ SetUp(other, TRUE, other, scout, first, room, None)
    /\ lock = {} /\ token = [t \in Tokens |-> NoToken]
    /\ hb = [h \in Hosts |-> Quiet] /\ req = [r \in Requests |-> Idle]
    /\ svc = "none"
    /\ tripped = FALSE /\ ops = 0 /\ events = 0

Apart == UNCHANGED <<host, beat, lock, agentVars, seenVars, dep, tripped, events>>

----------------------------------------------------------------------------
(* Cells.                                                                  *)

(* The slug is retried until it is free: the insert succeeds.              *)
CreateCell(c) ==
    /\ Call /\ cell[c] = NoCell
    /\ cell' = [cell EXCEPT ![c].st = "active"]
    /\ Apart /\ UNCHANGED <<res, place, desired, link, svc>>

(* PATCH and drain: the status is all that matters of them.                *)
UpdateCell(c) ==
    /\ Call /\ CellExists(c)
    /\ cell' = [cell EXCEPT ![c].st =
                  IF @ = "active" THEN "draining" ELSE "active"]
    /\ Apart /\ UNCHANGED <<res, place, desired, link, svc>>

Linked(c) == link.st # "none" /\ c \in {link.src, link.dst}

CountLinks(r, c) ==
    /\ CellExists(c) /\ ~Linked(c)
    /\ Take(r, "drop", "delete", None, c, None, {})
    /\ Apart /\ UNCHANGED cellVars

(* The cascade takes attachments, placements, links and their tokens; the  *)
(* deployments run on and their desired state stays.                       *)
CascadedResources(c) ==
    /\ res' = [d \in Deployments |-> IF res[d] = c THEN None ELSE res[d]]
    /\ UNCHANGED place

Cascaded(c) ==
    /\ res' = [d \in Deployments |-> IF res[d] = c THEN None ELSE res[d]]
    /\ place' = [d \in Deployments |->
                   IF place[d].c = c THEN NoPlace ELSE place[d]]

DeleteCell(r) ==
    /\ At(r, "drop", "delete")
    /\ LET c == req[r].c IN
       /\ cell' = [cell EXCEPT ![c] = [NoCell EXCEPT !.st = "gone"]]
       /\ Cascaded(c)
       /\ link' = IF Linked(c) THEN NoLink ELSE link
       /\ svc' = IF Linked(c) THEN "none" ELSE svc
    /\ Done(r) /\ Apart /\ UNCHANGED desired

(* The cell and the deployment are loaded; the placement's host is the     *)
(* cell's, as loaded, unless the deployment is external.                   *)
LoadForAttach(r, c, d) ==
    /\ CellExists(c) /\ Live(d)
    /\ \E primary \in BOOLEAN :
          Take(r, "attach", "insert",
               IF dep[d].ext THEN None ELSE cell[c].host, c, d,
               {primary \/ cell[c].main = None})
    /\ Apart /\ UNCHANGED cellVars

CanPlace(h) == h = None \/ Exists(h)
Unlocked(h) == h = None \/ Free(h)

AttachDeployment(r) ==
    /\ At(r, "attach", "insert") /\ Unlocked(req[r].h)
    /\ LET c == req[r].c  d == req[r].d  h == req[r].h IN
       IF CellExists(c) /\ res[d] = None /\ CanPlace(h)
       THEN /\ res' = [res EXCEPT ![d] = c]
            /\ place' = [place EXCEPT ![d] =
                 [c |-> c, h |-> h,
                  want |-> IF @ = NoPlace THEN "running" ELSE @.want]]
            /\ cell' = IF TRUE \in req[r].saw
                       THEN [cell EXCEPT ![c].main = d] ELSE cell
       ELSE UNCHANGED <<res, place, cell>>
    /\ Done(r) /\ Apart /\ UNCHANGED <<desired, link, svc>>

ResolveHost(r, c, h) ==
    /\ CellExists(c) /\ Exists(h)
    /\ Take(r, "seat", "write", h, c, None, {})
    /\ Apart /\ UNCHANGED cellVars

(* The cell's placements that have no host get this one.                   *)
AttachHost(r) ==
    /\ At(r, "seat", "write") /\ Free(req[r].h)
    /\ LET c == req[r].c  h == req[r].h IN
       IF Exists(h) /\ CellExists(c)
       THEN /\ cell' = [cell EXCEPT ![c].host = h]
            /\ place' = [d \in Deployments |->
                           IF place[d].c = c /\ place[d].h = None
                           THEN [place[d] EXCEPT !.h = h] ELSE place[d]]
       ELSE UNCHANGED <<cell, place>>
    /\ Done(r) /\ Apart /\ UNCHANGED <<res, desired, link, svc>>

----------------------------------------------------------------------------
(* Backfill, at boot: one request per deployment of its loop.  The status  *)
(* that decides the desired one is not in the model.                       *)

BackfillLoad(r, d) ==
    /\ Live(d)
    /\ \E want \in {"running", "stopped"} :
          Take(r, "backfill", "check", IF dep[d].ext THEN None ELSE Self,
               None, d, {want})
    /\ Apart /\ UNCHANGED cellVars

DeploymentHasCell(r) ==
    /\ At(r, "backfill", "check")
    /\ IF res[req[r].d] # None THEN Done(r) ELSE GoOn(r, "insert")
    /\ Apart /\ UNCHANGED cellVars

(* The new cell stays only if the deployment is still unattached.          *)
TryInsertCell(r, c) ==
    /\ At(r, "backfill", "insert") /\ cell[c] = NoCell
    /\ LET d == req[r].d  h == req[r].h IN
       IF res[d] = None /\ place[d] = NoPlace
       THEN /\ cell' = [cell EXCEPT ![c] =
                          [st |-> "active", host |-> h, main |-> d]]
            /\ res' = [res EXCEPT ![d] = c]
            /\ \E want \in req[r].saw :
                  place' = [place EXCEPT ![d] =
                              [c |-> c, h |-> h, want |-> want]]
       ELSE UNCHANGED <<cell, res, place>>
    /\ Done(r) /\ Apart /\ UNCHANGED <<desired, link, svc>>

----------------------------------------------------------------------------
(* Links and service tokens.                                               *)

CheckCells(r, src, dst) ==
    /\ src # dst /\ CellExists(src) /\ CellExists(dst)
    /\ Take(r, "link", "insert", None, None, None, <<src, dst>>)
    /\ Apart /\ UNCHANGED cellVars

(* One active link per pair, and both cells must still be there.           *)
CreateCellLink(r) ==
    /\ At(r, "link", "insert")
    /\ LET src == req[r].saw[1]  dst == req[r].saw[2] IN
       link' = IF link.st = "none" /\ CellExists(src) /\ CellExists(dst)
               THEN [st |-> "active", src |-> src, dst |-> dst] ELSE link
    /\ Done(r) /\ Apart /\ UNCHANGED <<cell, res, place, desired, svc>>

DisableCellLink ==
    /\ Call /\ link.st = "active"
    /\ link' = [link EXCEPT !.st = "disabled"]
    /\ Apart /\ UNCHANGED <<cell, res, place, desired, svc>>

(* A link is loaded whatever its status.                                   *)
CreateServiceToken ==
    /\ Call /\ link.st # "none" /\ svc = "none"
    /\ svc' = "active"
    /\ Apart /\ UNCHANGED <<cell, res, place, desired, link>>

RevokeServiceToken ==
    /\ Call /\ svc = "active"
    /\ svc' = "revoked"
    /\ Apart /\ UNCHANGED <<cell, res, place, desired, link>>

----------------------------------------------------------------------------
(* Desired state from the placements, in one transaction whose statements  *)
(* each see what is committed when they run.                               *)

Wants == {[h |-> place[d].h, d |-> d, c |-> place[d].c, want |-> place[d].want]
            : d \in {e \in Deployments : place[e].h # None}}

ReadWants(r) ==
    /\ Take(r, "sync", "decide", None, None, None, Wants)
    /\ Apart /\ UNCHANGED cellVars

ReadActive(r) ==
    /\ At(r, "sync", "decide")
    /\ req' = [req EXCEPT ![r].at = "commit", ![r].base = desired]
    /\ ops' = ops
    /\ Apart /\ UNCHANGED cellVars

Superseded(r) == req[r].base \ req[r].saw
Inserted(r) == req[r].saw \ req[r].base

(* One active version per host and deployment, on rows that still exist.   *)
Accepted(r) ==
    /\ \A x \in Inserted(r) :
          /\ Exists(x.h) /\ CellExists(x.c)
          /\ ~\E y \in desired \ Superseded(r) : y.h = x.h /\ y.d = x.d

SyncDesired(r) ==
    /\ At(r, "sync", "commit") /\ \A x \in Inserted(r) : Free(x.h)
    /\ desired' = IF Accepted(r)
                  THEN (desired \ Superseded(r)) \cup Inserted(r) ELSE desired
    /\ Done(r) /\ Apart /\ UNCHANGED <<cell, res, place, link, svc>>

----------------------------------------------------------------------------
(* A removed host leaves the cells and placements without it.              *)
WantedElsewhere(h) == {x \in desired : x.h # h}

EraseHostEverywhere(r) ==
    /\ EraseHost(r)
    /\ LET h == req[r].h IN
       IF host'[h] # "gone" THEN UNCHANGED cellVars
       ELSE /\ cell' = [c \in Cells |-> IF cell[c].host = h
                          THEN [cell[c] EXCEPT !.host = None] ELSE cell[c]]
            /\ place' = [d \in Deployments |-> IF place[d].h = h
                           THEN [place[d] EXCEPT !.h = None] ELSE place[d]]
            /\ desired' = WantedElsewhere(h)
            /\ UNCHANGED <<res, link, svc>>

----------------------------------------------------------------------------
(* cleanupDeploymentCellState, once the deployment is deleted: four        *)
(* statements, of which each may fail and is passed over.                  *)

CleanupDesired(r) ==
    /\ At(r, "delete", "desired") /\ GoOn(r, "placement")
    /\ desired' = {x \in desired : x.d # req[r].d}
    /\ Apart /\ UNCHANGED <<cell, res, place, link, svc>>

CleanupPlacement(r) ==
    /\ At(r, "delete", "placement") /\ GoOn(r, "resource")
    /\ place' = [place EXCEPT ![req[r].d] = NoPlace]
    /\ Apart /\ UNCHANGED <<cell, res, desired, link, svc>>

CleanupResource(r) ==
    /\ At(r, "delete", "resource") /\ GoOn(r, "primary")
    /\ res' = [res EXCEPT ![req[r].d] = None]
    /\ Apart /\ UNCHANGED <<cell, place, desired, link, svc>>

CleanupPrimary(r) ==
    /\ At(r, "delete", "primary") /\ Done(r)
    /\ cell' = [c \in Cells |-> IF cell[c].main = req[r].d
                   THEN [cell[c] EXCEPT !.main = None] ELSE cell[c]]
    /\ Apart /\ UNCHANGED <<res, place, desired, link, svc>>

PassedOver(at) == CASE at = "desired" -> "placement" [] at = "placement" -> "resource"
                    [] at = "resource" -> "primary"

CleanupFails(r) ==
    /\ req[r].op = "delete" /\ Fault
    /\ IF req[r].at = "primary" THEN Done(r) ELSE GoOn(r, PassedOver(req[r].at))
    /\ UNCHANGED <<host, beat, lock, agentVars, seenVars, dep, tripped, cellVars>>

CellStep ==
    \/ \E c \in Cells : CreateCell(c) \/ UpdateCell(c)
    \/ \E r \in Requests :
          \/ \E c \in Cells : CountLinks(r, c) \/ TryInsertCell(r, c)
          \/ \E c \in Cells, d \in Deployments : LoadForAttach(r, c, d)
          \/ \E c \in Cells, h \in Hosts : ResolveHost(r, c, h)
          \/ \E src, dst \in Cells : CheckCells(r, src, dst)
          \/ \E d \in Deployments : BackfillLoad(r, d)
          \/ DeleteCell(r) \/ AttachDeployment(r) \/ AttachHost(r)
          \/ DeploymentHasCell(r) \/ CreateCellLink(r)
          \/ ReadWants(r) \/ ReadActive(r) \/ SyncDesired(r)
          \/ EraseHostEverywhere(r)
          \/ CleanupDesired(r) \/ CleanupPlacement(r) \/ CleanupResource(r)
          \/ CleanupPrimary(r) \/ CleanupFails(r)
    \/ DisableCellLink \/ CreateServiceToken \/ RevokeServiceToken

----------------------------------------------------------------------------
(* Properties.                                                             *)

(* What a deployment is attached to and where it is placed agree until it  *)
(* is deleted, whichever of an attach, a backfill and the deletion of a    *)
(* cell come first (attachDeployment, tryInsertCell, deleteCell), and      *)
(* whatever the cleanup of another deployment's delete is about to remove. *)
(* All tables are well formed: nothing desired names a host that is gone.  *)
AttachedAgree ==
    TypeOK /\ \A d \in Deployments : dep[d].st # "deleted" => res[d] = place[d].c
=============================================================================
