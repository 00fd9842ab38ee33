------------------------------ MODULE Tenancy ------------------------------
(***************************************************************************)
(* Teams, members, invites, projects and their overrides, and deleting     *)
(* accounts, teams and projects (internal/api/teams.go, invites.go,        *)
(* projects.go, me.go).  A request authorises itself against the tables    *)
(* first and writes later: each statement, or transaction whose effects    *)
(* show only at its commit, is one step.  Postgres runs READ COMMITTED;    *)
(* row locks are held by the requests whose transactions took them.        *)
(*                                                                         *)
(* One email address is invited per team.  Names, slugs and audit rows are *)
(* left out; a request that is refused simply ends.                        *)
(***************************************************************************)
EXTENDS Naturals, FiniteSets

CONSTANTS
    Users,        \* accounts
    Teams,        \* team ids
    Projects,     \* project ids
    Deployments,  \* deployment ids
    Requests,     \* concurrent request slots
    MaxStarts,    \* bound: requests started
    MaxTokens,    \* bound: invite tokens minted
    Founder, Home, App,  \* an account, its team, the team's project
    None          \* SQL NULL; no row

ASSUME TenancyAssumption ==
    /\ MaxStarts \in Nat /\ MaxTokens \in Nat /\ IsFiniteSet(Requests)
    /\ Founder \in Users /\ Home \in Teams /\ App \in Projects
    /\ None \notin Users \cup Teams \cup Projects

VARIABLES
    users,     \* rows of users
    team,      \* teams: its creator, or None
    member,    \* team_members.role
    invite,    \* team_invites
    project,   \* projects.team_id, or None
    override,  \* project_members.role
    dep,       \* deployments: project and status
    cont,      \* deployments with a container on their host
    req,       \* requests under way
    joined,    \* history: who joined with which invite token
    starts, minted

tables == <<users, team, member, invite, project, override, dep>>
vars == <<tables, cont, req, joined, starts, minted>>

Tokens == 1 .. MaxTokens
TeamRoles == {"none", "member", "admin"}
ProjectRoles == TeamRoles \cup {"viewer"}
NoInvite == [state |-> "none", role |-> "none", token |-> 0, by |-> None]
NoRow == [project |-> None, status |-> "none"]
Idle == [op |-> "none", pc |-> "idle", by |-> None, t |-> None, p |-> None,
         who |-> None, role |-> "none", seen |-> {}]

Ops == {"none", "role", "remove", "account", "team", "project", "create",
        "transfer", "grant", "revoke", "invite", "cancel", "accept", "deploy"}
Labels == {"idle", "lock", "count", "write", "orphan", "creator", "erase",
           "cascade", "dest", "exists", "list", "destroy", "join"}

TypeOK ==
    /\ users \subseteq Users
    /\ team \in [Teams -> Users \cup {None}]
    /\ member \in [Teams -> [Users -> TeamRoles]]
    /\ \A t \in Teams : invite[t].state \in {"none", "open", "accepted"}
    /\ project \in [Projects -> Teams \cup {None}]
    /\ override \in [Projects -> [Users -> ProjectRoles]]
    /\ \A d \in Deployments :
          dep[d].status \in {"none", "provisioning", "running", "gone"}
    /\ cont \subseteq Deployments
    /\ \A r \in Requests : req[r].op \in Ops /\ req[r].pc \in Labels
    /\ joined \in [Tokens -> SUBSET Users]
    /\ starts \in 0 .. MaxStarts /\ minted \in 0 .. MaxTokens

(* One team of one or more admins, a project of it, maybe a deployment.    *)
Init ==
    /\ users = Users
    /\ team = [t \in Teams |-> IF t = Home THEN Founder ELSE None]
    /\ \E role \in [Users -> {"none", "admin"}] :
          /\ role[Founder] = "admin"
          /\ member = [t \in Teams |-> IF t = Home THEN role
                                       ELSE [u \in Users |-> "none"]]
    /\ invite = [t \in Teams |-> NoInvite]
    /\ project = [p \in Projects |-> IF p = App THEN Home ELSE None]
    /\ override = [p \in Projects |-> [u \in Users |-> "none"]]
    /\ \E some \in SUBSET Deployments :
          /\ dep = [d \in Deployments |->
                      IF d \in some THEN [project |-> App, status |-> "running"]
                      ELSE NoRow]
          /\ cont = some
    /\ req = [r \in Requests |-> Idle]
    /\ joined = [k \in Tokens |-> {}]
    /\ starts = 0 /\ minted = 0

----------------------------------------------------------------------------
Admins(t) == {u \in Users : member[t][u] = "admin"}

(* loadTeamForRequest: the team exists and the caller is in it.            *)
TeamRole(t, u) == IF team[t] = None THEN "none" ELSE member[t][u]

(* effectiveProjectRole: an override wins over the team's role.            *)
ProjectRole(p, u) ==
    CASE project[p] = None -> "none"
      [] project[p] # None /\ override[p][u] # "none" -> override[p][u]
      [] project[p] # None /\ override[p][u] = "none" -> member[project[p]][u]

(* Row locks: team_members rows taken FOR UPDATE, the invite row an accept *)
(* holds, the team row a DELETE holds while it cascades.                   *)
HoldsMember(r, t, u) ==
    /\ req[r].op \in {"role", "remove"} /\ req[r].pc \in {"count", "write"}
    /\ req[r].t = t /\ req[r].who = u
HoldsInvite(r, t) == req[r].op = "accept" /\ req[r].pc = "join" /\ req[r].t = t
HoldsTeam(r, t)   == req[r].op = "team" /\ req[r].pc = "cascade" /\ req[r].t = t

MemberFree(r, t, u) == \A x \in Requests \ {r} : ~HoldsMember(x, t, u)
InviteFree(r, t) == \A x \in Requests \ {r} : ~HoldsInvite(x, t)
TeamFree(r, t)   == \A x \in Requests \ {r} : ~HoldsTeam(x, t)

----------------------------------------------------------------------------
Pending(op) == Cardinality({r \in Requests : req[r].op = op})

Begin(r, q) ==
    /\ req[r] = Idle /\ starts < MaxStarts
    /\ req' = [req EXCEPT ![r] = q]
    /\ starts' = starts + 1
    /\ UNCHANGED <<tables, cont, joined, minted>>

At(r, op, label) == req[r].op = op /\ req[r].pc = label
Goto(r, label) == req' = [req EXCEPT ![r].pc = label]
Saw(r, label, s) == req' = [req EXCEPT ![r].pc = label, ![r].seen = s]
End(r) == req' = [req EXCEPT ![r] = Idle]
Same == UNCHANGED <<starts, minted>>

(* normaliseRole: the Cloud says admin or developer.                       *)
NormaliseRole(role) == IF role = "developer" THEN "member" ELSE role

(* The gates of the handlers: what each reads before it goes on.           *)
BeginUpdateMemberRole(r, by, t, who, role) ==
    /\ TeamRole(t, by) = "admin"
    /\ Begin(r, [Idle EXCEPT !.op = "role", !.pc = "lock", !.by = by, !.t = t,
                             !.who = who, !.role = NormaliseRole(role)])

BeginRemoveMember(r, by, t, who) ==
    /\ TeamRole(t, by) # "none"
    /\ by = who \/ TeamRole(t, by) = "admin"
    /\ Begin(r, [Idle EXCEPT !.op = "remove", !.pc = "lock", !.by = by, !.t = t,
                             !.who = who])

(* The last_admin refusal of updateMemberRole and removeMember.            *)
LastAdmin(t) == Cardinality(Admins(t)) <= 1

(* SELECT role ... FOR UPDATE: the target's row only.                      *)
LockForRole(r) ==
    LET q == req[r] now == member[q.t][q.who] IN
    /\ At(r, "role", "lock") /\ MemberFree(r, q.t, q.who)
    /\ CASE now \in {"none", q.role} -> End(r)
         [] now = "admin" /\ q.role # "admin" -> Goto(r, "count")
         [] now = "member" /\ q.role # "member" -> Goto(r, "write")
    /\ UNCHANGED <<tables, cont, joined>> /\ Same

LockForRemove(r) ==
    LET q == req[r] now == member[q.t][q.who] IN
    /\ At(r, "remove", "lock") /\ MemberFree(r, q.t, q.who)
    /\ CASE now = "none"   -> End(r)
         [] now = "admin"  -> Goto(r, "count")
         [] now = "member" -> Goto(r, "write")
    /\ UNCHANGED <<tables, cont, joined>> /\ Same

(* Mutant: the early return leaves the transaction, and its lock, open.    *)
CountAdminsNoRollback(r) ==
    LET t == req[r].t IN
    /\ req[r].op \in {"role", "remove"} /\ req[r].pc = "count"
    /\ ~LastAdmin(t)
    /\ Goto(r, "write")
    /\ UNCHANGED <<tables, cont, joined>> /\ Same

CountAdmins(r) ==
    LET t == req[r].t IN
    /\ req[r].op \in {"role", "remove"} /\ req[r].pc = "count"
    /\ IF LastAdmin(t) THEN End(r) ELSE Goto(r, "write")
    /\ UNCHANGED <<tables, cont, joined>> /\ Same

WriteMember(r, role) ==
    /\ member' = [member EXCEPT ![req[r].t][req[r].who] = role]
    /\ End(r)
    /\ UNCHANGED <<users, team, invite, project, override, dep, cont, joined>>
    /\ Same

(* UPDATE or DELETE of the locked row, and COMMIT.                         *)
UpdateMemberRole(r) == At(r, "role", "write") /\ WriteMember(r, req[r].role)
RemoveMember(r) == At(r, "remove", "write") /\ WriteMember(r, "none")

----------------------------------------------------------------------------
(* createTeam: the team and its first admin, in one transaction.           *)
CreateTeam(u, t) ==
    /\ u \in users /\ team[t] = None /\ starts < MaxStarts
    /\ team' = [team EXCEPT ![t] = u]
    /\ member' = [member EXCEPT ![t][u] = "admin"]
    /\ starts' = starts + 1
    /\ UNCHANGED <<users, invite, project, override, dep, cont, req, joined,
                   minted>>

TeamOf(d) == IF dep[d].project = None THEN None ELSE project[dep[d].project]

BeginDeleteTeam(r, by, t) ==
    /\ TeamRole(t, by) = "admin"
    /\ Begin(r, [Idle EXCEPT !.op = "team", !.pc = "count", !.by = by, !.t = t])

(* The count of the team's deployments.                                   *)
CountDeployments(r) ==
    /\ At(r, "team", "count")
    /\ IF \E d \in Deployments : TeamOf(d) = req[r].t
       THEN End(r) ELSE Goto(r, "erase")
    /\ UNCHANGED <<tables, cont, joined>> /\ Same

(* DELETE FROM teams locks the row ...                                     *)
EraseTeam(r) ==
    /\ At(r, "team", "erase")
    /\ TeamFree(r, req[r].t)
    /\ IF team[req[r].t] = None THEN End(r) ELSE Goto(r, "cascade")
    /\ UNCHANGED <<tables, cont, joined>> /\ Same

Erased(ps) ==
    /\ project' = [p \in Projects |-> IF p \in ps THEN None ELSE project[p]]
    /\ override' = [p \in Projects |->
                      IF p \in ps THEN [u \in Users |-> "none"] ELSE override[p]]
    /\ dep' = [d \in Deployments |->
                 IF dep[d].project \in ps
                 THEN [project |-> None, status |-> "gone"] ELSE dep[d]]

(* ... and its foreign keys cascade, waiting for the rows others lock.     *)
CascadeTeam(r) ==
    LET t == req[r].t IN
    /\ At(r, "team", "cascade")
    /\ InviteFree(r, t) /\ \A u \in Users : MemberFree(r, t, u)
    /\ team' = [team EXCEPT ![t] = None]
    /\ member' = [member EXCEPT ![t] = [u \in Users |-> "none"]]
    /\ invite' = [invite EXCEPT ![t] = NoInvite]
    /\ Erased({p \in Projects : project[p] = t})
    /\ End(r)
    /\ UNCHANGED <<users, cont, joined>> /\ Same

----------------------------------------------------------------------------
BeginDeleteAccount(r, by) ==
    /\ by \in users
    /\ Begin(r, [Idle EXCEPT !.op = "account", !.pc = "orphan", !.by = by])

SoleAdminTeams(u) == {t \in Teams : Admins(t) = {u}}

(* deleteAccount counts the teams it would leave without an admin ...      *)
CheckOrphans(r) ==
    /\ At(r, "account", "orphan")
    /\ IF SoleAdminTeams(req[r].by) # {} THEN End(r)
       ELSE Goto(r, "creator")
    /\ UNCHANGED <<tables, cont, joined>> /\ Same

(* ... and the teams the account created ...                               *)
CheckCreator(r) ==
    /\ At(r, "account", "creator")
    /\ IF \E t \in Teams : team[t] = req[r].by THEN End(r) ELSE Goto(r, "erase")
    /\ UNCHANGED <<tables, cont, joined>> /\ Same

(* ... then deletes it: refused for a creator, cascading to its rows.      *)
EraseAccount(r) ==
    LET u == req[r].by IN
    /\ At(r, "account", "erase")
    /\ \A t \in Teams : MemberFree(r, t, u)
    /\ \A t \in Teams : invite[t].by = u => InviteFree(r, t)
    /\ End(r)
    /\ IF u \notin users \/ \E t \in Teams : team[t] = u
       THEN UNCHANGED <<users, member, invite, override>>
       ELSE /\ users' = users \ {u}
            /\ member' = [t \in Teams |-> [member[t] EXCEPT ![u] = "none"]]
            /\ override' = [p \in Projects |-> [override[p] EXCEPT ![u] = "none"]]
            /\ invite' = [t \in Teams |-> IF invite[t].by = u THEN NoInvite
                                          ELSE invite[t]]
    /\ UNCHANGED <<team, project, dep, cont, joined>> /\ Same

----------------------------------------------------------------------------
BeginInvite(r, by, t, role) ==
    /\ TeamRole(t, by) = "admin"
    /\ minted + Pending("invite") < MaxTokens
    /\ Begin(r, [Idle EXCEPT !.op = "invite", !.pc = "write", !.by = by, !.t = t,
                             !.role = role])

(* inviteMember upserts on (team, email): a new token replaces the old     *)
(* one, and an accepted invite is open again.                              *)
InviteMember(r) ==
    LET q == req[r] IN
    /\ At(r, "invite", "write")
    /\ TeamFree(r, q.t) /\ InviteFree(r, q.t)
    /\ IF team[q.t] = None \/ q.by \notin users
       THEN UNCHANGED <<invite, minted>>
       ELSE /\ minted' = minted + 1
            /\ invite' = [invite EXCEPT ![q.t] =
                 [state |-> "open", role |-> q.role, token |-> minted + 1,
                  by |-> q.by]]
    /\ End(r)
    /\ UNCHANGED <<users, team, member, project, override, dep, cont, joined,
                   starts>>

BeginCancel(r, by, t) ==
    /\ TeamRole(t, by) = "admin"
    /\ Begin(r, [Idle EXCEPT !.op = "cancel", !.pc = "write", !.by = by, !.t = t])

(* cancelInvite deletes an invite that is still open.                      *)
CancelInvite(r) ==
    LET t == req[r].t IN
    /\ At(r, "cancel", "write")
    /\ InviteFree(r, t)
    /\ invite' = IF invite[t].state = "open"
                 THEN [invite EXCEPT ![t] = NoInvite] ELSE invite
    /\ End(r)
    /\ UNCHANGED <<users, team, member, project, override, dep, cont, joined>>
    /\ Same

(* accept: any signed-in account with the token.                           *)
BeginAccept(r, by, t, tok) ==
    /\ by \in users /\ tok \in 1 .. minted
    /\ Begin(r, [Idle EXCEPT !.op = "accept", !.pc = "lock", !.by = by, !.t = t,
                             !.seen = {tok}])

(* Mutant: the open invite is read without FOR UPDATE.                     *)
LockInviteUnlocked(r) ==
    LET t == req[r].t IN
    /\ At(r, "accept", "lock")
    /\ IF invite[t].state = "open" /\ invite[t].token \in req[r].seen
       THEN Goto(r, "join") ELSE End(r)
    /\ UNCHANGED <<tables, cont, joined>> /\ Same

(* SELECT ... WHERE token AND accepted_at IS NULL FOR UPDATE.              *)
LockInvite(r) ==
    LET t == req[r].t IN
    /\ At(r, "accept", "lock")
    /\ InviteFree(r, t)
    /\ IF invite[t].state = "open" /\ invite[t].token \in req[r].seen
       THEN Goto(r, "join") ELSE End(r)
    /\ UNCHANGED <<tables, cont, joined>> /\ Same

(* Insert the member (unless there is one), consume the invite, commit;    *)
(* the insert's foreign keys wait for the team row, fail for a gone user.  *)
JoinTeam(r) ==
    LET q == req[r] t == q.t IN
    /\ At(r, "accept", "join")
    /\ TeamFree(r, t)
    /\ IF team[t] = None \/ q.by \notin users
       THEN UNCHANGED <<member, invite, joined>>
       ELSE /\ member' = IF member[t][q.by] # "none" THEN member
                         ELSE [member EXCEPT ![t][q.by] = invite[t].role]
            /\ invite' = [invite EXCEPT ![t].state = "accepted"]
            /\ joined' = [k \in Tokens |-> IF k \in q.seen
                                           THEN joined[k] \cup {q.by} ELSE joined[k]]
    /\ End(r)
    /\ UNCHANGED <<users, team, project, override, dep, cont>> /\ Same

----------------------------------------------------------------------------
BeginCreateProject(r, by, t, p) ==
    /\ TeamRole(t, by) # "none" /\ project[p] = None
    /\ Begin(r, [Idle EXCEPT !.op = "create", !.pc = "write", !.by = by, !.t = t,
                             !.p = p])

CreateProject(r) ==
    LET q == req[r] IN
    /\ At(r, "create", "write") /\ TeamFree(r, q.t)
    /\ project' = IF team[q.t] = None \/ project[q.p] # None THEN project
                  ELSE [project EXCEPT ![q.p] = q.t]
    /\ End(r)
    /\ UNCHANGED <<users, team, member, invite, override, dep, cont, joined>>
    /\ Same

BeginTransfer(r, by, p, t) ==
    /\ ProjectRole(p, by) = "admin" /\ project[p] # t
    /\ Begin(r, [Idle EXCEPT !.op = "transfer", !.pc = "dest", !.by = by, !.p = p,
                             !.t = t])

(* The caller must be an admin of the destination team too ...             *)
CheckDestination(r) ==
    LET q == req[r] IN
    /\ At(r, "transfer", "dest")
    /\ IF TeamRole(q.t, q.by) = "admin" THEN Goto(r, "write") ELSE End(r)
    /\ UNCHANGED <<tables, cont, joined>> /\ Same

(* ... and UPDATE projects SET team_id is all that moves the project.      *)
TransferProject(r) ==
    LET q == req[r] IN
    /\ At(r, "transfer", "write") /\ TeamFree(r, q.t)
    /\ project' = IF team[q.t] = None \/ project[q.p] = None THEN project
                  ELSE [project EXCEPT ![q.p] = q.t]
    /\ End(r)
    /\ UNCHANGED <<users, team, member, invite, override, dep, cont, joined>>
    /\ Same

BeginGrant(r, by, p, who, role) ==
    /\ ProjectRole(p, by) = "admin"
    /\ Begin(r, [Idle EXCEPT !.op = "grant", !.pc = "exists", !.by = by, !.p = p,
                             !.t = project[p], !.who = who, !.role = role])

(* addProjectMember: the target must be in the team the request read ...   *)
CheckTeamMember(r) ==
    LET q == req[r] IN
    /\ At(r, "grant", "exists")
    /\ IF member[q.t][q.who] # "none" THEN Goto(r, "write") ELSE End(r)
    /\ UNCHANGED <<tables, cont, joined>> /\ Same

(* ... then the override is upserted.                                      *)
AddProjectMember(r) ==
    LET q == req[r] IN
    /\ At(r, "grant", "write")
    /\ override' = IF project[q.p] = None \/ q.who \notin users THEN override
                   ELSE [override EXCEPT ![q.p][q.who] = q.role]
    /\ End(r)
    /\ UNCHANGED <<users, team, member, invite, project, dep, cont, joined>>
    /\ Same

(* updateProjectMemberRole is the same upsert, behind the same check.      *)
BeginUpdateProjectMemberRole(r, by, p, who, role) == BeginGrant(r, by, p, who, role)

BeginRevoke(r, by, p, who) ==
    /\ ProjectRole(p, by) # "none"
    /\ by = who \/ ProjectRole(p, by) = "admin"
    /\ Begin(r, [Idle EXCEPT !.op = "revoke", !.pc = "write", !.by = by, !.p = p,
                             !.who = who])

RemoveProjectMember(r) ==
    LET q == req[r] IN
    /\ At(r, "revoke", "write")
    /\ override' = [override EXCEPT ![q.p][q.who] = "none"]
    /\ End(r)
    /\ UNCHANGED <<users, team, member, invite, project, dep, cont, joined>>
    /\ Same

----------------------------------------------------------------------------
(* createDeployment's gate and insert; what provisions it is modelled in   *)
(* Provisioning, and is one step here.                                     *)
BeginCreateDeployment(r, by, p) ==
    /\ ProjectRole(p, by) \in {"member", "admin"}
    /\ Pending("deploy") < Cardinality({d \in Deployments : dep[d] = NoRow})
    /\ Begin(r, [Idle EXCEPT !.op = "deploy", !.pc = "write", !.by = by, !.p = p])

InsertDeployment(r, d) ==
    LET p == req[r].p IN
    /\ At(r, "deploy", "write") /\ dep[d] = NoRow
    /\ dep' = IF project[p] = None THEN dep
              ELSE [dep EXCEPT ![d] = [project |-> p, status |-> "provisioning"]]
    /\ End(r)
    /\ UNCHANGED <<users, team, member, invite, project, override, cont, joined>>
    /\ Same

Provisioned(d) ==
    /\ dep[d].status = "provisioning"
    /\ dep' = [dep EXCEPT ![d].status = "running"]
    /\ cont' = cont \cup {d}
    /\ UNCHANGED <<users, team, member, invite, project, override, req, joined,
                   starts, minted>>

BeginDeleteProject(r, by, p) ==
    /\ ProjectRole(p, by) = "admin"
    /\ Begin(r, [Idle EXCEPT !.op = "project", !.pc = "list", !.by = by, !.p = p])

(* deleteProject reads what there is to tear down; a deployment that is    *)
(* still provisioning is left to its worker ...                            *)
ListDeployments(r) ==
    /\ At(r, "project", "list")
    /\ Saw(r, "destroy", {d \in Deployments : dep[d].project = req[r].p
                                              /\ dep[d].status = "running"})
    /\ UNCHANGED <<tables, cont, joined>> /\ Same

(* Mutant: a teardown that fails is logged and the deletion goes on.       *)
DestroyOrGoOn(r) ==
    /\ At(r, "project", "destroy")
    /\ \/ \E d \in req[r].seen \cap cont : cont' = cont \ {d} /\ UNCHANGED req
       \/ UNCHANGED cont /\ Goto(r, "erase")
    /\ UNCHANGED <<tables, joined>> /\ Same

(* ... destroys one after the other and stops at the first failure ...     *)
DestroyContainers(r) ==
    /\ At(r, "project", "destroy")
    /\ \/ \E d \in req[r].seen \cap cont : cont' = cont \ {d} /\ UNCHANGED req
       \/ req[r].seen \cap cont # {} /\ UNCHANGED cont /\ End(r)
       \/ req[r].seen \cap cont = {} /\ UNCHANGED cont /\ Goto(r, "erase")
    /\ UNCHANGED <<tables, joined>> /\ Same

(* ... and erases the rows in one transaction.                             *)
EraseProject(r) ==
    /\ At(r, "project", "erase")
    /\ Erased({req[r].p})
    /\ End(r)
    /\ UNCHANGED <<users, team, member, invite, cont, joined>> /\ Same

(* Postgres aborts a transaction of a wait cycle: the deletion of a team   *)
(* that waits for an invite row whose accept waits for the team row.       *)
DeadlockVictim(r) ==
    /\ \E x \in Requests : \E t \in Teams :
          /\ HoldsTeam(x, t)
          /\ \E y \in Requests : HoldsInvite(y, t)
          /\ r = x \/ HoldsInvite(r, t)
    /\ End(r)
    /\ UNCHANGED <<tables, cont, joined>> /\ Same

----------------------------------------------------------------------------
BeginMember(r) ==
    \E by \in users, t \in Teams :
       \/ \E who \in Users, role \in {"admin", "developer"} :
             BeginUpdateMemberRole(r, by, t, who, role)
       \/ \E who \in Users : BeginRemoveMember(r, by, t, who)
       \/ \E role \in {"member", "admin"} : BeginInvite(r, by, t, role)
       \/ \E tok \in Tokens : BeginAccept(r, by, t, tok)
       \/ BeginCancel(r, by, t)
       \/ BeginDeleteTeam(r, by, t)
       \/ BeginDeleteAccount(r, by)

BeginProject(r) ==
    \E by \in users, p \in Projects :
       \/ \E t \in Teams : BeginCreateProject(r, by, t, p)
       \/ \E t \in Teams : BeginTransfer(r, by, p, t)
       \/ \E who \in Users, role \in {"viewer", "admin"} :
             BeginGrant(r, by, p, who, role)
       \/ \E who \in Users, role \in {"viewer", "admin"} :
             BeginUpdateProjectMemberRole(r, by, p, who, role)
       \/ \E who \in Users : BeginRevoke(r, by, p, who)
       \/ BeginCreateDeployment(r, by, p)
       \/ BeginDeleteProject(r, by, p)

Step(r) ==
    \/ LockForRole(r) \/ LockForRemove(r) \/ CountAdmins(r)
    \/ UpdateMemberRole(r) \/ RemoveMember(r)
    \/ CountDeployments(r) \/ EraseTeam(r) \/ CascadeTeam(r)
    \/ CheckOrphans(r) \/ CheckCreator(r) \/ EraseAccount(r)
    \/ InviteMember(r) \/ CancelInvite(r) \/ LockInvite(r) \/ JoinTeam(r)
    \/ CreateProject(r) \/ CheckDestination(r) \/ TransferProject(r)
    \/ CheckTeamMember(r) \/ AddProjectMember(r) \/ RemoveProjectMember(r)
    \/ \E d \in Deployments : InsertDeployment(r, d)
    \/ ListDeployments(r) \/ DestroyContainers(r) \/ EraseProject(r)
    \/ DeadlockVictim(r)

Next ==
    \/ \E r \in Requests : BeginMember(r) \/ BeginProject(r) \/ Step(r)
    \/ \E u \in Users, t \in Teams : CreateTeam(u, t)
    \/ \E d \in Deployments : Provisioned(d)

Spec == Init /\ [][Next]_vars

(* A request runs until it has answered; only a lock can hold it up, and   *)
(* Postgres breaks a cycle of waits.                                       *)
FairSpec == Spec /\ \A r \in Requests : WF_vars(Step(r))

----------------------------------------------------------------------------
(* Rows and requests are well formed, and an invite token lets in one      *)
(* account, however many present it at once ("double-accept races collapse *)
(* to a single row", accept).                                              *)
InviteOnce == TypeOK /\ \A k \in Tokens : Cardinality(joined[k]) <= 1

(* deleteProject and deleteTeam never erase the row of a deployment they   *)
(* saw running while its container is still on the host.                   *)
TornDownBeforeErased ==
    [][\A d \in Deployments :
          dep[d].status = "running" /\ dep'[d].status = "gone"
            => \A r \in Requests :
                  req[r] # req'[r] /\ d \in req[r].seen => d \notin cont]_vars

(* Every request gets an answer: no lock outlives its transaction, and no  *)
(* cycle of waits outlives the deadlock detector.                          *)
RequestsEnd == \A r \in Requests : req[r] # Idle ~> req[r] = Idle
=============================================================================
