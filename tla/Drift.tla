------------------------------- MODULE Drift -------------------------------
(***************************************************************************)
(* The drift engine over the fleet and the cells (internal/api/drift.go):  *)
(* desired state and container rows are read one after the other, then the *)
(* hosts, the facts and the deployments they name, while heartbeats and    *)
(* operators go on.  The verdicts become a report (recompute) or a plan    *)
(* (dryRun); neither changes what is modelled here.                        *)
(*                                                                         *)
(* A report is of a host, a cell or the project (the model's only one).    *)
(* Containers carry the deployment and project labels that the provisioner *)
(* stamps; it stamps no cell label.  Older containers without labels, and  *)
(* the name they are then found by, are left out.                          *)
(***************************************************************************)
EXTENDS Cells

(* loadDesiredForScope.  "sure" keeps what had been told when it began.    *)
InScope(x, h, c) == (h = None \/ x.h = h) /\ (c = None \/ x.c = c)

LoadDesired(r, h, c) ==
    /\ req[r] = Idle /\ Busy
    /\ req' = [req EXCEPT ![r] =
          [Idle EXCEPT !.op = "drift", !.at = "rows", !.h = h, !.c = c,
                       !.saw = {x \in desired : InScope(x, h, c)}, !.sure = told]]
    /\ Apart /\ UNCHANGED cellVars

(* The scopes a report may have.                                           *)
LoadForScope(r) ==
    \/ LoadDesired(r, None, None)
    \/ \E h \in Hosts : Exists(h) /\ LoadDesired(r, h, None)
    \/ \E c \in Cells : CellExists(c) /\ LoadDesired(r, None, c)

(* loadObservedForScope: the rows of a host, or the ones with the label of *)
(* the project or of the cell.                                             *)
Labelled(o, h, c) == c = None /\ (h = None \/ o.h = h)

LoadObserved(r) ==
    /\ At(r, "drift", "rows")
    /\ req' = [req EXCEPT ![r].at = "judge",
          ![r].base = {o \in [h : Hosts, d : Deployments, st : {"running", "exited"}] :
                         rows[o.h][o.d] = o.st /\ Labelled(o, req[r].h, req[r].c)}]
    /\ ops' = ops
    /\ Apart /\ UNCHANGED cellVars

(* hostTrust: a fresh heartbeat, and no scan known to be bad.              *)
HostTrust(h) == Exists(h) /\ beat[h] = "fresh" /\ facts[h] # "bad"

CompareState(want, st) ==
    IF want = "running" THEN (IF st = "running" THEN "in_sync" ELSE "drifted")
    ELSE (IF st = "running" THEN "drifted" ELSE "in_sync")

WithoutContainer(want) == IF want = "running" THEN "missing" ELSE "in_sync"

Verdict(x, seen) ==
    LET match == {o \in seen : o.h = x.h /\ o.d = x.d} IN
    CASE ~Live(x.d) -> "orphaned"
      [] Live(x.d) /\ ~HostTrust(x.h) -> "host_unreachable"
      [] Live(x.d) /\ HostTrust(x.h) /\ match = {} -> WithoutContainer(x.want)
      [] OTHER -> CompareState(x.want, (CHOOSE o \in match : TRUE).st)

(* Rows that no desired state matched, on hosts that are trusted.  An      *)
(* orphaned one does not count as a match.                                 *)
Unmanaged(wanted, seen) ==
    {o \in seen : HostTrust(o.h)
                  /\ ~\E x \in wanted : x.h = o.h /\ x.d = o.d /\ Live(x.d)}

(* An item names the desired row it judged, and with it what was wanted.   *)
Judge(r) ==
    /\ At(r, "drift", "judge")
    /\ LET wanted == req[r].saw  seen == req[r].base IN
       req' = [req EXCEPT ![r].at = "persist", ![r].base = {},
          ![r].saw = {[h |-> x.h, d |-> x.d, want |-> x.want,
                       is |-> Verdict(x, seen)] : x \in wanted}
                     \cup {[h |-> o.h, d |-> o.d, want |-> "none", is |-> "unmanaged"] :
                             o \in Unmanaged(wanted, seen)}]
    /\ ops' = ops
    /\ Apart /\ UNCHANGED cellVars

(* rollupReportStatus.  Which of "warning" and "drifted" another report    *)
(* says depends on severities, which are left out.                         *)
Clean(items) == \A i \in items : i.is = "in_sync"

(* The report and its items, or the plan and its steps.                    *)
Persist(r) ==
    /\ At(r, "drift", "persist")
    /\ Done(r) /\ Apart /\ UNCHANGED cellVars

DriftStep ==
    \E r \in Requests : LoadForScope(r) \/ LoadObserved(r) \/ Judge(r) \/ Persist(r)

Next == (FleetStep /\ UNCHANGED cellVars) \/ CellStep \/ DriftStep

(* Agents report every fifteen seconds and handlers run to their end;      *)
(* what operators, Docker and clocks do is left to chance.                 *)
Fairness ==
    /\ \A h \in Hosts : WF_vars(HeartbeatStep(h) /\ UNCHANGED cellVars)
    /\ \A r \in Requests : WF_vars(LockHost(r) /\ UNCHANGED cellVars)
                           /\ WF_vars(EraseHostEverywhere(r))

Spec == Init /\ [][Next]_vars
FairSpec == Spec /\ Fairness

----------------------------------------------------------------------------
(* A report of a host or of the project never contradicts what a heartbeat *)
(* had recorded before its computation began and what is still so: a       *)
(* container that has been up since is not called missing on its host,     *)
(* whatever failed, partial or interrupted report came in between, so that *)
(* a plan never recreates what runs.  And a report of any scope that says  *)
(* clean does not cover one that its desired row wants running and that    *)
(* was recorded gone (computeDrift, rollupReportStatus,                    *)
(* recordObservedStates, pruneObservedContainers).                         *)
NotCalledMissing(r) ==
    \A i \in req[r].saw :
        dep[i.d].host = i.h /\ i.is = "missing" => req[r].sure[i.d] # "up"

ReportIsTrue ==
    \A r \in Requests : At(r, "drift", "persist") =>
        /\ req[r].c = None => NotCalledMissing(r)
        /\ Clean(req[r].saw) => \A i \in req[r].saw :
              dep[i.d].host = i.h /\ i.want = "running" => req[r].sure[i.d] # "gone"
=============================================================================
