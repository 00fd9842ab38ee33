------------------------------ MODULE Domains ------------------------------
(***************************************************************************)
(* Custom domains: the deployment_domains rows, the handlers that create,  *)
(* verify, auto-configure and delete one (internal/api/domains.go), the    *)
(* sweep that waits for DNS to propagate (internal/dns/verifier.go), and   *)
(* the stored Cloudflare credentials (internal/api/dns_credentials.go).    *)
(*                                                                         *)
(* The zone file, the public resolvers, the table and the origins baked    *)
(* into a container are four copies of one fact that move separately.  A   *)
(* name is opaque; its record is nothing, this host or another one.  The   *)
(* public IP and the storage key are configured and deployments run.       *)
(* Requests overlap, and so do rebuilds: each reads the active names, then *)
(* recreates the container (Rebake has the insides of that).               *)
(***************************************************************************)
EXTENDS Naturals, FiniteSets, Routing

CONSTANTS
    Creds,       \* dns_credentials ids; each covers the zone of every name
    ProjectCreds,\* the project-scoped ones
    Callers,     \* API requests at a time
    Rebakers,    \* detached rebuilds at a time
    MaxOps,      \* bound: handler calls
    MaxAge,      \* time units a row may stay untouched (MaxAge over Interval)
    MaxEdits,    \* bound: edits of a zone by hand
    MaxFaults,   \* bound: failing calls, lookups and dying nodes
    MaxWork      \* bound: calls and edits together

ASSUME DomainsAssumption ==
    /\ ProjectCreds \subseteq Creds /\ None \notin Creds \cup Names
    /\ MaxOps \in Nat /\ MaxAge \in Nat /\ MaxEdits \in Nat /\ MaxFaults \in Nat
    /\ MaxWork \in Nat

VARIABLES
    row,       \* deployment_domains by name
    record,    \* the A record in the zone
    seen,      \* what public resolvers answer
    vault,     \* dns_credentials: not yet there, live, or deleted
    removing,  \* a credential found unused and about to be deleted
    op,        \* the requests under way
    ver,       \* the verifier's sweep
    rebakes,   \* detached rebuilds started by the verifier
    baked,     \* domains among the origins of each container
    alive,     \* deployments whose status is not deleted
    matched,   \* history: ids of the rows a lookup matched
    owed,      \* history: names somebody saw rise to active, not baked since
    ops, edits, faults

zone == <<record, seen, edits>>
marks == <<matched, owed>>
domainsVars == <<row, zone, vault, removing, op, ver, rebakes, baked, alive, marks, ops,
                 faults>>

NoRow == [id |-> 0, dep |-> None, status |-> None, verified |-> FALSE,
          auto |-> FALSE, cred |-> None, age |-> 0]
NoOp == [pc |-> "idle", kind |-> None, name |-> None, id |-> 0, dep |-> None,
         prior |-> None, status |-> None, cred |-> None, got |-> {}]
NoTask == [pc |-> "idle", dep |-> None, got |-> {}]
NoSweep == [todo |-> {}, cur |-> None, id |-> 0, found |-> FALSE]

creds == {c \in Creds : vault[c] = "live"}
Statuses == {"pending", "active", "failed"}
Hosts == {None, "ours", "other"}
Labels == {"idle", "lookup", "apply", "pick", "upsert", "persist", "reread", "cleanup",
           "rebuild", "recreate"}
Tasks == [pc : {"idle", "rebuild", "recreate"}, dep : Deps \cup {None}, got : SUBSET Names]

DomainsTypeOK ==
    /\ \A n \in Names :
         \/ row[n] = NoRow
         \/ /\ row[n].id \in 1 .. MaxOps /\ row[n].dep \in Deps
            /\ row[n].status \in Statuses
            /\ row[n].cred \in creds \cup {None}
            /\ row[n].age \in 0 .. MaxAge + 1
    /\ record \in [Names -> Hosts] /\ seen \in [Names -> Hosts]
    /\ vault \in [Creds -> {"new", "live", "gone"}]
    /\ removing \in Creds \cup {None}
    /\ \A x \in Callers : op[x].pc \in Labels /\ op[x].got \subseteq Names
    /\ \A g \in Rebakers : rebakes[g] \in Tasks
    /\ alive \subseteq Deps /\ matched \subseteq 1 .. MaxOps /\ owed \subseteq Names
    /\ baked \in [Deps -> SUBSET Names]
    /\ ops \in 0 .. MaxOps /\ faults \in 0 .. MaxFaults /\ edits \in 0 .. MaxEdits

DomainsInit ==
    /\ row = [n \in Names |-> NoRow]
    /\ record = [n \in Names |-> None] /\ seen = record
    /\ vault = [c \in Creds |-> "new"] /\ removing = None
    /\ op = [x \in Callers |-> NoOp] /\ ver = NoSweep
    /\ rebakes = [g \in Rebakers |-> NoTask]
    /\ baked = [d \in Deps |-> {}] /\ alive = Deps /\ matched = {} /\ owed = {}
    /\ ops = 0 /\ edits = 0 /\ faults = 0

----------------------------------------------------------------------------
Fault == faults < MaxFaults /\ faults' = faults + 1
Fine == faults' = faults
NewOp(x, q) ==
    /\ op[x].pc = "idle" /\ ops < MaxOps /\ ops + edits < MaxWork
    /\ ops' = ops + 1 /\ op' = [op EXCEPT ![x] = q]
OpTo(x, q) == op' = [op EXCEPT ![x] = q]
Goto(x, label) == op' = [op EXCEPT ![x].pc = label]
EndOp(x) == op' = [op EXCEPT ![x] = NoOp]
Live(n) == row[n] # NoRow /\ row[n].dep \in alive

(* verifyDomainDNS: a match is active, another address failed, and a       *)
(* lookup that sees nothing, or breaks, still pending.                     *)
Verdict(n) == CASE seen[n] = "ours" -> "active" [] seen[n] = "other" -> "failed"
                [] seen[n] = None -> "pending"
Lookup(n, v) == \/ v = Verdict(n) /\ Fine
                \/ v = "pending" /\ v # Verdict(n) /\ Fault

----------------------------------------------------------------------------
(* createDomain inserts a pending row; the name is unique.                 *)
CreateDomain(x, n, d) ==
    /\ row[n] = NoRow /\ d \in alive
    /\ NewOp(x, [NoOp EXCEPT !.pc = "lookup", !.kind = "create", !.name = n,
                             !.id = ops + 1, !.dep = d])
    /\ row' = [row EXCEPT ![n] = [NoRow EXCEPT !.id = ops + 1, !.dep = d,
                                               !.status = "pending"]]
    /\ UNCHANGED <<zone, vault, removing, ver, rebakes, baked, alive, marks, faults>>

(* verifyDomain remembers the status it found.                             *)
VerifyDomain(x, n) ==
    /\ Live(n)
    /\ NewOp(x, [NoOp EXCEPT !.pc = "lookup", !.kind = "verify", !.name = n,
                             !.id = row[n].id, !.dep = row[n].dep,
                             !.prior = row[n].status])
    /\ UNCHANGED <<row, zone, vault, removing, ver, rebakes, baked, alive, marks, faults>>

Matched(id, v) == matched' = IF v = "active" THEN matched \cup {id} ELSE matched

VerifyDomainDNS(x) ==
    /\ op[x].pc = "lookup"
    /\ \E v \in Statuses :
         /\ Lookup(op[x].name, v) /\ Matched(op[x].id, v)
         /\ OpTo(x, [op[x] EXCEPT !.pc = "apply", !.status = v])
    /\ UNCHANGED <<row, zone, vault, removing, ver, rebakes, baked, alive, owed, ops>>

(* What a handler does once its row is written: create tries to mint the   *)
(* record, whatever the verdict; verify rebuilds on a rise to active.      *)
AfterVerdict(x, status) ==
    CASE op[x].kind = "create" -> OpTo(x, [op[x] EXCEPT !.pc = "pick", !.status = status])
      [] op[x].kind = "verify" -> IF op[x].prior # "active" /\ status = "active"
                                  THEN Goto(x, "rebuild") ELSE EndOp(x)

(* History: a write that its writer takes for a rise to active owes the    *)
(* name a container; one that is no longer active is owed nothing.         *)
Owe(n, status, rise) ==
    owed' = CASE status # "active" -> owed \ {n}
              [] status = "active" -> IF rise THEN owed \cup {n} ELSE owed

(* applyVerification writes the verdict, whatever the row says by now; a   *)
(* row that is gone is an error like any other.                            *)
ApplyVerification(x) ==
    /\ op[x].pc = "apply"
    /\ LET n == op[x].name status == op[x].status IN
         \/ /\ row[n].id = op[x].id /\ Fine
            /\ row' = [row EXCEPT ![n].status = status, ![n].age = 0,
                                  ![n].verified = status = "active"]
            /\ Owe(n, status, op[x].prior # "active")
            /\ AfterVerdict(x, status)
         \/ /\ IF row[n].id = op[x].id THEN Fault ELSE Fine
            /\ UNCHANGED <<row, owed>>
            /\ IF op[x].kind = "create" THEN AfterVerdict(x, "pending") ELSE EndOp(x)
    /\ UNCHANGED <<zone, vault, removing, ver, rebakes, baked, alive, matched, ops>>

(* resolveCredentialForDomain: project credentials before instance-wide    *)
(* ones, and only an unambiguous pick.                                     *)
Candidates == IF creds \cap ProjectCreds # {} THEN creds \cap ProjectCreds ELSE creds
Picked(c) == Candidates = {c}

(* tryAutoConfigureOnCreate goes on to the upsert or gives up ...          *)
AfterAuto(x, status) == IF status = "active" THEN Goto(x, "rebuild") ELSE EndOp(x)

PickOnCreate(x) ==
    /\ op[x].pc = "pick"
    /\ \/ \E c \in creds : Picked(c) /\ OpTo(x, [op[x] EXCEPT !.pc = "upsert", !.cred = c])
       \/ ~(\E c \in creds : Picked(c)) /\ AfterAuto(x, op[x].status)
    /\ UNCHANGED <<row, zone, vault, removing, ver, rebakes, baked, alive, marks, ops,
                   faults>>

(* ... and autoConfigureDomain takes the caller's credential or picks one. *)
AutoConfigureDomain(x, n, c) ==
    /\ Live(n) /\ c \in creds
    /\ NewOp(x, [NoOp EXCEPT !.pc = "upsert", !.kind = "auto", !.name = n,
                             !.id = row[n].id, !.dep = row[n].dep, !.cred = c])
    /\ UNCHANGED <<row, zone, vault, removing, ver, rebakes, baked, alive, marks, faults>>

UpsertARecord(x) ==
    /\ op[x].pc = "upsert"
    /\ \/ /\ record' = [record EXCEPT ![op[x].name] = "ours"]
          /\ Goto(x, "persist") /\ Fine
       \/ /\ Fault /\ UNCHANGED record
          /\ IF op[x].kind = "create" THEN AfterAuto(x, op[x].status) ELSE EndOp(x)
    /\ UNCHANGED <<row, seen, edits, vault, removing, ver, rebakes, baked, alive, marks,
                   ops>>

(* The row goes back to pending with the credential it was minted by; the  *)
(* foreign key refuses one that was deleted meanwhile.  A row that is gone *)
(* is an error to auto_configure, which answers its UPDATE's RETURNING,    *)
(* and nothing to create.                                                  *)
PersistAuto(x) ==
    /\ op[x].pc = "persist"
    /\ LET n == op[x].name IN
         \/ /\ op[x].cred \in creds /\ Fine
            /\ IF row[n].id = op[x].id
               THEN /\ row' = [row EXCEPT ![n].auto = TRUE, ![n].cred = op[x].cred,
                                          ![n].status = "pending", ![n].verified = FALSE,
                                          ![n].age = 0]
                    /\ Owe(n, "pending", FALSE)
               ELSE UNCHANGED <<row, owed>>
            /\ IF op[x].kind = "create" THEN Goto(x, "reread") ELSE EndOp(x)
         \/ /\ IF op[x].cred \in creds THEN Fault ELSE Fine
            /\ UNCHANGED <<row, owed>>
            /\ IF op[x].kind = "create" THEN AfterAuto(x, op[x].status) ELSE EndOp(x)
    /\ UNCHANGED <<zone, vault, removing, ver, rebakes, baked, alive, matched, ops>>

(* createDomain answers with the row as it is after the minting.           *)
Reread(x) ==
    /\ op[x].pc = "reread"
    /\ AfterAuto(x, IF row[op[x].name].id = op[x].id THEN row[op[x].name].status
                    ELSE op[x].status)
    /\ UNCHANGED <<row, zone, vault, removing, ver, rebakes, baked, alive, marks, ops,
                   faults>>

(* deleteDomain returns what it removed: a minted record is torn down, and *)
(* an active name leaves the container's origins.                          *)
AfterDelete(status) == IF status = "active" THEN "rebuild" ELSE "idle"

DeleteDomain(x, n) ==
    /\ Live(n)
    /\ row' = [row EXCEPT ![n] = NoRow] /\ owed' = owed \ {n}
    /\ LET r == row[n]
           next == IF r.auto /\ r.cred # None THEN "cleanup" ELSE AfterDelete(r.status)
       IN NewOp(x, IF next = "idle" THEN NoOp
                   ELSE [NoOp EXCEPT !.pc = next, !.kind = "delete", !.name = n,
                         !.dep = r.dep, !.status = r.status, !.cred = r.cred])
    /\ UNCHANGED <<zone, vault, removing, ver, rebakes, baked, alive, matched, faults>>

CleanupAutoConfiguredRecord(x) ==
    /\ op[x].pc = "cleanup"
    /\ \/ /\ op[x].cred \in creds /\ Fine
          /\ record' = [record EXCEPT ![op[x].name] = None]
       \/ /\ IF op[x].cred \in creds THEN Fault ELSE Fine
          /\ UNCHANGED record
    /\ IF AfterDelete(op[x].status) = "idle" THEN EndOp(x) ELSE Goto(x, "rebuild")
    /\ UNCHANGED <<row, seen, edits, vault, removing, ver, rebakes, baked, alive, marks,
                   ops>>

(* rebuildCORSAndRestart reads the names that are active now, unless the   *)
(* deployment is gone ...                                                  *)
ActiveOf(d) == {n \in Names : row[n].dep = d /\ row[n].status = "active"}

ReadOrigins(x) ==
    /\ op[x].pc = "rebuild"
    /\ IF op[x].dep \in alive
       THEN OpTo(x, [op[x] EXCEPT !.pc = "recreate", !.got = ActiveOf(op[x].dep)])
       ELSE EndOp(x)
    /\ UNCHANGED <<row, zone, vault, removing, ver, rebakes, baked, alive, marks, ops,
                   faults>>

(* ... and some time later bakes what it read into a new container.        *)
Bake(d, got) ==
    \/ /\ baked' = [baked EXCEPT ![d] = got] /\ Fine
       /\ owed' = {n \in owed : n \notin got \/ row[n].dep # d}
    \/ Fault /\ UNCHANGED <<baked, owed>>

Rebuild(x) ==
    /\ op[x].pc = "recreate" /\ Bake(op[x].dep, op[x].got) /\ EndOp(x)
    /\ UNCHANGED <<row, zone, vault, removing, ver, rebakes, alive, matched, ops>>

----------------------------------------------------------------------------
(* Verifier.Tick loads the auto-configured pending rows, aged or not ...   *)
PendingAuto(n) == row[n].auto /\ row[n].status = "pending" /\ ~row[n].verified

LoadPending ==
    /\ ver = NoSweep /\ \E n \in Names : PendingAuto(n)
    /\ ver' = [ver EXCEPT !.todo =
         {[name |-> n, id |-> row[n].id, aged |-> row[n].age > MaxAge] :
             n \in {m \in Names : PendingAuto(m)}}]
    /\ UNCHANGED <<row, zone, vault, removing, op, rebakes, baked, alive, marks, ops,
                   faults>>

Next1(t) == [ver EXCEPT !.todo = @ \ {t}, !.cur = None, !.id = 0, !.found = FALSE]

(* ... gives up on an aged row that is still pending ...                   *)
MarkFailed(t) ==
    /\ ver.cur = None /\ t.aged
    /\ row' = IF row[t.name].id = t.id /\ row[t.name].status = "pending"
              THEN [row EXCEPT ![t.name].status = "failed", ![t.name].age = 0]
              ELSE row
    /\ ver' = Next1(t)
    /\ UNCHANGED <<zone, vault, removing, op, rebakes, baked, alive, marks, ops,
                   faults>>

(* Mutant: the comparison with ExpectedIP is inverted.                     *)
CheckLookupInverted(t) ==
    /\ ver.cur = None /\ ~t.aged
    /\ \E v \in Statuses :
         /\ Lookup(t.name, v) /\ Matched(t.id, v)
         /\ ver' = [ver EXCEPT !.cur = t.name, !.id = t.id, !.found = v # "active"]
    /\ UNCHANGED <<row, zone, vault, removing, op, rebakes, baked, alive, owed, ops>>

(* ... and looks up the others.                                            *)
CheckLookup(t) ==
    /\ ver.cur = None /\ ~t.aged
    /\ \E v \in Statuses :
         /\ Lookup(t.name, v) /\ Matched(t.id, v)
         /\ ver' = [ver EXCEPT !.cur = t.name, !.id = t.id, !.found = v = "active"]
    /\ UNCHANGED <<row, zone, vault, removing, op, rebakes, baked, alive, owed, ops>>

(* Mutant: the row is found again by its name.                             *)
StillPendingByName(t) == row[t.name].status = "pending"

StillPending(t) == row[t.name].id = t.id /\ row[t.name].status = "pending"

(* Mutant: the restart-free verifier.                                      *)
FlipToActiveNoHook(t) ==
    /\ ver.cur = t.name /\ ver.found
    /\ IF StillPending(t)
       THEN /\ row' = [row EXCEPT ![t.name].status = "active",
                                  ![t.name].verified = TRUE, ![t.name].age = 0]
            /\ owed' = owed \cup {t.name}
       ELSE UNCHANGED <<row, owed>>
    /\ ver' = Next1(t)
    /\ UNCHANGED <<zone, vault, removing, op, rebakes, baked, alive, matched, ops, faults>>

(* flipToActive, and the OnActivated hook only when this sweep flipped it: *)
(* rebakeAfterDomainActivation starts a goroutine of its own.              *)
FlipToActive(t) ==
    /\ ver.cur = t.name /\ ver.found
    /\ IF StillPending(t)
       THEN \E g \in Rebakers :
              /\ rebakes[g] = NoTask
              /\ row' = [row EXCEPT ![t.name].status = "active",
                                    ![t.name].verified = TRUE, ![t.name].age = 0]
              /\ rebakes' = [rebakes EXCEPT ![g] = [pc |-> "rebuild",
                                                   dep |-> row[t.name].dep, got |-> {}]]
              /\ owed' = owed \cup {t.name}
       ELSE UNCHANGED <<row, rebakes, owed>>
    /\ ver' = Next1(t)
    /\ UNCHANGED <<zone, vault, removing, op, baked, alive, matched, ops, faults>>

(* recordPendingError touches updated_at too.                              *)
RecordPendingError(t) ==
    /\ ver.cur = t.name /\ ~ver.found
    /\ row' = IF StillPending(t) THEN [row EXCEPT ![t.name].age = 0] ELSE row
    /\ ver' = Next1(t)
    /\ UNCHANGED <<zone, vault, removing, op, rebakes, baked, alive, marks, ops,
                   faults>>

(* The goroutine's own rebuild, detached from sweep and requests.          *)
RebakeReads(g) ==
    /\ rebakes[g].pc = "rebuild"
    /\ LET d == rebakes[g].dep IN
         rebakes' = [rebakes EXCEPT ![g] =
           IF d \in alive THEN [pc |-> "recreate", dep |-> d, got |-> ActiveOf(d)]
           ELSE NoTask]
    /\ UNCHANGED <<row, zone, vault, removing, op, ver, baked, alive, marks, ops,
                   faults>>

RebakeAfterDomainActivation(g) ==
    /\ rebakes[g].pc = "recreate" /\ Bake(rebakes[g].dep, rebakes[g].got)
    /\ rebakes' = [rebakes EXCEPT ![g] = NoTask]
    /\ UNCHANGED <<row, zone, vault, removing, op, ver, alive, matched, ops>>

Sweep ==
    \/ LoadPending
    \/ \E t \in ver.todo : MarkFailed(t) \/ CheckLookup(t) \/ FlipToActive(t)
                           \/ RecordPendingError(t)

Rebakes == \E g \in Rebakers : RebakeReads(g) \/ RebakeAfterDomainActivation(g)

----------------------------------------------------------------------------
(* createCloudflareScoped, after the token was verified; deleteScoped       *)
(* first looks whether a domain still uses the credential.                  *)
CreateCredential(c) ==
    /\ vault[c] = "new"
    /\ vault' = [vault EXCEPT ![c] = "live"]
    /\ UNCHANGED <<row, zone, removing, op, ver, rebakes, baked, alive, marks, ops,
                   faults>>

CheckInUse(c) ==
    /\ c \in creds /\ removing = None
    /\ \A n \in Names : row[n].cred # c
    /\ removing' = c
    /\ UNCHANGED <<row, zone, vault, op, ver, rebakes, baked, alive, marks, ops,
                   faults>>

DeleteCredential ==
    /\ removing # None
    /\ vault' = [vault EXCEPT ![removing] = "gone"] /\ removing' = None
    /\ row' = [n \in Names |-> IF row[n].cred = removing
                               THEN [row[n] EXCEPT !.cred = None] ELSE row[n]]
    /\ UNCHANGED <<zone, op, ver, rebakes, baked, alive, marks, ops,
                   faults>>

(* A deployment is deleted softly: its domain rows and records stay.       *)
DeleteDeployment(d) ==
    /\ d \in alive /\ alive' = alive \ {d}
    /\ UNCHANGED <<row, zone, vault, removing, op, ver, rebakes, baked, marks, ops,
                   faults>>

(* The process dies with its requests, its sweep and its goroutines.       *)
NodeDies ==
    /\ (\E x \in Callers : op[x] # NoOp) \/ ver # NoSweep
       \/ \E g \in Rebakers : rebakes[g] # NoTask
    /\ Fault /\ op' = [x \in Callers |-> NoOp] /\ ver' = NoSweep
    /\ rebakes' = [g \in Rebakers |-> NoTask]
    /\ UNCHANGED <<row, zone, vault, removing, baked, alive, marks, ops>>

Propagate(n) ==
    /\ seen[n] # record[n]
    /\ seen' = [seen EXCEPT ![n] = record[n]]
    /\ UNCHANGED <<row, record, edits, vault, removing, op, ver, rebakes, baked,
                   alive, marks, ops, faults>>

EditRecord(n, h) ==
    /\ edits < MaxEdits /\ ops + edits < MaxWork /\ edits' = edits + 1
    /\ h # record[n]
    /\ record' = [record EXCEPT ![n] = h]
    /\ UNCHANGED <<row, seen, vault, removing, op, ver, rebakes, baked, alive, marks, ops,
                   faults>>

RowsAge ==
    /\ \E n \in Names : PendingAuto(n) /\ row[n].age <= MaxAge
    /\ row' = [n \in Names |-> IF PendingAuto(n) /\ row[n].age <= MaxAge
                               THEN [row[n] EXCEPT !.age = @ + 1] ELSE row[n]]
    /\ UNCHANGED <<zone, vault, removing, op, ver, rebakes, baked, alive, marks, ops,
                   faults>>

----------------------------------------------------------------------------
Handler(x) ==
    \/ VerifyDomainDNS(x) \/ ApplyVerification(x) \/ PickOnCreate(x) \/ UpsertARecord(x)
    \/ PersistAuto(x) \/ Reread(x) \/ CleanupAutoConfiguredRecord(x)
    \/ ReadOrigins(x) \/ Rebuild(x)

Called(x) ==
    \E n \in Names : \/ VerifyDomain(x, n) \/ DeleteDomain(x, n)
                     \/ \E d \in Deps : CreateDomain(x, n, d)
                     \/ \E c \in Creds : AutoConfigureDomain(x, n, c)

DomainsNext ==
    \/ \E x \in Callers : Called(x) \/ Handler(x)
    \/ Sweep \/ Rebakes
    \/ \E n \in Names : Propagate(n) \/ \E h \in Hosts : EditRecord(n, h)
    \/ \E c \in Creds : CreateCredential(c) \/ CheckInUse(c)
    \/ DeleteCredential \/ \E d \in Deps : DeleteDeployment(d)
    \/ NodeDies \/ RowsAge

DomainsSpec == DomainsInit /\ [][DomainsNext]_domainsVars

(* Handlers and goroutines run to their end, the verifier ticks for ever.  *)
DomainsFairSpec ==
    /\ DomainsSpec
    /\ \A x \in Callers : WF_domainsVars(Handler(x))
    /\ WF_domainsVars(Sweep) /\ WF_domainsVars(Rebakes) /\ WF_domainsVars(RowsAge)

----------------------------------------------------------------------------
(* A verdict lands on the row it was reached for (verifier.go:364, 418,    *)
(* domains.go:609): the active rows are the ones with a dns_verified_at,   *)
(* and each of them was itself matched by a lookup, however requests, the  *)
(* sweep and the re-registration of its name interleave.  Rows, requests   *)
(* and goroutines are well formed.                                         *)
VerdictsFitTheRow ==
    /\ DomainsTypeOK
    /\ \A n \in Names :
         /\ row[n].verified <=> row[n].status = "active"
         /\ row[n].status = "active" => row[n].id \in matched

Quiet == (\A x \in Callers : op[x] = NoOp) /\ \A g \in Rebakers : rebakes[g] = NoTask

(* A rise to active that its writer saw, by create, by verify or by the    *)
(* sweep, reaches the container (domains.go:459, 816, verifier.go:409):    *)
(* once nothing is under way and nothing failed, a container has been      *)
(* created with the name since, though an older rebuild may have replaced  *)
(* it again.                                                               *)
RiseIsBaked ==
    Quiet /\ faults = 0 => \A n \in owed : row[n].dep \notin alive

(* An auto-configured row does not wait for ever while the resolvers show  *)
(* this host's address (verifier.go:323).                                  *)
ActivatesWhenVisible ==
    \A n \in Names : ~<>[](PendingAuto(n) /\ seen[n] = "ours")
=============================================================================
