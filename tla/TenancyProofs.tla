--------------------------- MODULE TenancyProofs ---------------------------
(***************************************************************************)
(* TLAPS proofs about Tenancy, for every set of accounts, teams, projects  *)
(* and deployments and every number of requests at a time, and about the   *)
(* paged lists that show these tables, for every set of rows, every page   *)
(* size and every bound.                                                   *)
(*                                                                         *)
(* Tenancy.  Shape says what a request carries from its gate to its last   *)
(* statement: the admins it counted, the token it was sent.  Facts says    *)
(* what of it still holds of the tables, because a lock or the order of a  *)
(* deployment's states keeps it so.  InviteInv is about the tokens alone.  *)
(*                                                                         *)
(* Listing.  EveryRowOnce says what a walk has shown at its end.  WalkInv  *)
(* says it of every page: the cursor divides the rows, those behind it     *)
(* were shown and those in front of it were not.  It is what survives a    *)
(* row that is inserted, hidden or shown again on either side.             *)
(***************************************************************************)
EXTENDS Tenancy, Listing, FiniteSetTheorems, TLAPS

InviteRows == [state : {"none", "open", "accepted"}, role : TeamRoles,
               token : 0 .. MaxTokens, by : Users \cup {None}]
DepRows == [project : Projects \cup {None},
            status : {"none", "provisioning", "running", "gone"}]
ReqRecs == [op : Ops, pc : Labels, by : Users \cup {None}, t : Teams \cup {None},
            p : Projects \cup {None}, who : Users \cup {None}, role : ProjectRoles,
            seen : SUBSET (Tokens \cup Deployments)]

TableInv ==
    /\ users \subseteq Users
    /\ team \in [Teams -> Users \cup {None}]
    /\ member \in [Teams -> [Users -> TeamRoles]]
    /\ invite \in [Teams -> InviteRows]
    /\ project \in [Projects -> Teams \cup {None}]
    /\ override \in [Projects -> [Users -> ProjectRoles]]
    /\ dep \in [Deployments -> DepRows]
    /\ cont \subseteq Deployments
    /\ joined \in [Tokens -> SUBSET Users]
    /\ starts \in 0 .. MaxStarts /\ minted \in 0 .. MaxTokens

(* A token is left for every invite that is on its way.                    *)
PendingInv == minted + Pending("invite") <= MaxTokens

(* Open invites have tokens of their own, and a token that let somebody in *)
(* opens nothing any more.                                                 *)
InviteInv ==
    /\ \A t \in Teams : invite[t].state = "open" => invite[t].token \in 1 .. minted
    /\ \A s, t \in Teams : /\ invite[s].state = "open" /\ invite[t].state = "open"
                           /\ invite[s].token = invite[t].token
                           => s = t
    /\ \A k \in Tokens : \A u, v \in joined[k] : u = v
    /\ \A k \in Tokens : joined[k] # {} =>
          /\ k \in 1 .. minted
          /\ \A t \in Teams : ~(invite[t].state = "open" /\ invite[t].token = k)

Shape(q) ==
    /\ q.op \in {"role", "remove"} =>
          q.t \in Teams /\ q.who \in Users /\ q.role \in TeamRoles
    /\ q.op = "account" => q.by \in Users
    /\ q.op \in {"invite", "accept"} => q.t \in Teams /\ q.by \in Users
    /\ q.op = "invite" => q.role \in TeamRoles
    /\ q.op = "accept" => \E tok \in Tokens : q.seen = {tok}
    /\ q.op \in {"team", "cancel"} => q.t \in Teams /\ q.seen = {}
    /\ q.op \in {"create", "transfer"} => q.t \in Teams /\ q.p \in Projects
    /\ q.op \in {"grant", "revoke"} => q.p \in Projects /\ q.who \in Users
    /\ q.op \in {"deploy", "project"} => q.p \in Projects
    /\ q.op = "project" => q.seen \subseteq Deployments

Joining(q, t) == q.op = "accept" /\ q.pc = "join" /\ q.t = t

Facts(q) ==
    /\ \A t \in Teams : Joining(q, t) =>
          invite[t].state = "open" /\ invite[t].token \in q.seen
    /\ q.op = "project" /\ q.pc \in {"destroy", "erase"} =>
          \A d \in q.seen : dep[d].status \in {"running", "gone"}
    /\ q.op = "project" /\ q.pc = "erase" => q.seen \cap cont = {}

ExclInv ==
    \A r, x \in Requests : r # x =>
       \A t \in Teams : ~(Joining(req[r], t) /\ Joining(req[x], t))

ReqInv ==
    /\ req \in [Requests -> ReqRecs]
    /\ \A r \in Requests : Shape(req[r])

IInv ==
    /\ TableInv
    /\ ReqInv
    /\ PendingInv
    /\ InviteInv
    /\ \A r \in Requests : Facts(req[r])
    /\ ExclInv

LEMMA IdleInv ==
    /\ Idle \in ReqRecs /\ Shape(Idle) /\ Idle.op = "none" /\ Idle.pc = "idle"
    /\ Idle.seen = {} /\ Idle.role = "none"
  BY DEF Idle, ReqRecs, Shape, Ops, Labels, ProjectRoles, TeamRoles

(* A request that is none of an invite takes no token.                     *)
LEMMA PendingKept ==
    ASSUME IInv, NEW r \in Requests, NEW q, req' = [req EXCEPT ![r] = q],
           q.op # "invite", minted' = minted
    PROVE  PendingInv'
<1> DEFINE I == {x \in Requests : req[x].op = "invite"}
           J == {x \in Requests : req'[x].op = "invite"}
<1>1. J \subseteq I
  BY DEF IInv, ReqInv
<1>2. IsFiniteSet(I)
  BY TenancyAssumption, FS_Subset
<1>3. Cardinality(J) <= Cardinality(I) /\ Cardinality(I) \in Nat /\ Cardinality(J) \in Nat
  BY <1>1, <1>2, FS_Subset, FS_CardinalityType
<1>4. Pending("invite") = Cardinality(I) /\ Pending("invite")' = Cardinality(J)
  BY DEF Pending
<1> HIDE DEF I, J
<1> QED
  BY <1>3, <1>4, TenancyAssumption DEF PendingInv, IInv, TableInv

(* A request of an invite holds a token back, its end gives it up.         *)
LEMMA PendingTaken ==
    ASSUME IInv, NEW r \in Requests, NEW q, req' = [req EXCEPT ![r] = q],
           q.op = "invite", minted + Pending("invite") < MaxTokens, minted' = minted
    PROVE  PendingInv'
<1> DEFINE I == {x \in Requests : req[x].op = "invite"}
           J == {x \in Requests : req'[x].op = "invite"}
<1>1. J = I \cup {r}
  BY DEF IInv, ReqInv
<1>2. IsFiniteSet(I)
  BY TenancyAssumption, FS_Subset
<1>3. Cardinality(J) <= Cardinality(I) + 1 /\ Cardinality(I) \in Nat /\ Cardinality(J) \in Nat
  <2> HIDE DEF I, J
  <2>1. IsFiniteSet(I \cup {r})
    BY <1>2, FS_AddElement
  <2>2. /\ Cardinality(I \cup {r}) = IF r \in I THEN Cardinality(I) ELSE Cardinality(I) + 1
        /\ Cardinality(I) \in Nat /\ Cardinality(I \cup {r}) \in Nat
    BY <1>2, <2>1, FS_AddElement, FS_CardinalityType
  <2> QED
    BY <1>1, <2>2
<1>4. Pending("invite") = Cardinality(I) /\ Pending("invite")' = Cardinality(J)
  BY DEF Pending
<1> HIDE DEF I, J
<1> QED
  BY <1>3, <1>4, TenancyAssumption DEF PendingInv, IInv, TableInv

LEMMA PendingUsed ==
    ASSUME IInv, NEW r \in Requests, NEW q, req' = [req EXCEPT ![r] = q],
           req[r].op = "invite", q.op # "invite", minted' = minted + 1
    PROVE  PendingInv' /\ minted' \in 1 .. MaxTokens
<1> DEFINE I == {x \in Requests : req[x].op = "invite"}
           J == {x \in Requests : req'[x].op = "invite"}
<1>1. J = I \ {r} /\ r \in I
  BY DEF IInv, ReqInv
<1>2. IsFiniteSet(I)
  BY TenancyAssumption, FS_Subset
<1>3. Cardinality(J) = Cardinality(I) - 1 /\ Cardinality(I) \in Nat /\ Cardinality(J) \in Nat
  BY <1>1, <1>2, FS_RemoveElement, FS_CardinalityType, FS_Subset
<1>4. Pending("invite") = Cardinality(I) /\ Pending("invite")' = Cardinality(J)
  BY DEF Pending
<1> HIDE DEF I, J
<1> QED
  BY <1>3, <1>4, TenancyAssumption DEF PendingInv, IInv, TableInv

(* What is left to show of a step that moves one request.                  *)
LEMMA StepKeeps ==
    ASSUME IInv, NEW r \in Requests, NEW q \in ReqRecs, Shape(q), Facts(q)',
           req' = [req EXCEPT ![r] = q], TableInv', PendingInv', InviteInv',
           \A x \in Requests \ {r} : \A o \in ReqRecs : o = req[x] => Facts(o)',
           \A x \in Requests \ {r}, t \in Teams : Joining(q, t) => ~Joining(req[x], t)
    PROVE  IInv'
<1>1. /\ req' \in [Requests -> ReqRecs] /\ req'[r] = q
      /\ \A x \in Requests \ {r} : req'[x] = req[x] /\ req[x] \in ReqRecs
  BY DEF IInv, ReqInv
<1>2. ReqInv'
  BY <1>1 DEF IInv, ReqInv
<1>3. ASSUME NEW x \in Requests PROVE Facts(req[x])'
  <2>1. CASE x = r
    BY <1>1, <2>1 DEF Facts
  <2>2. CASE x # r
    BY <1>1, <2>2 DEF Facts
  <2> QED
    BY <2>1, <2>2
<1>4. ExclInv'
  BY <1>1 DEF IInv, ExclInv
<1> QED
  BY <1>2, <1>3, <1>4 DEF IInv

(* A step that only moves a request.                                       *)
LEMMA RequestMoves ==
    ASSUME IInv, NEW r \in Requests, NEW q \in ReqRecs, Shape(q), Facts(q),
           req' = [req EXCEPT ![r] = q],
           UNCHANGED <<tables, cont, joined, minted>>, starts' \in 0 .. MaxStarts,
           q.op = "invite" => minted + Pending("invite") < MaxTokens,
           \A x \in Requests \ {r}, t \in Teams : Joining(q, t) => ~Joining(req[x], t)
    PROVE  IInv'
<1>1. TableInv' /\ InviteInv'
  BY DEF IInv, TableInv, InviteInv, tables
<1>2. PendingInv'
  BY PendingKept, PendingTaken
<1>3. \A o \in ReqRecs : Facts(o) => Facts(o)'
  BY DEF Facts, tables
<1> QED
  BY <1>1, <1>2, <1>3, StepKeeps DEF IInv

LEMMA BeginMoves ==
    ASSUME IInv, NEW r \in Requests, NEW q \in ReqRecs, Shape(q), Begin(r, q),
           q.pc \notin {"join", "destroy", "erase"},
           q.op = "invite" => minted + Pending("invite") < MaxTokens
    PROVE  IInv'
<1>1. starts' \in 0 .. MaxStarts /\ req' = [req EXCEPT ![r] = q]
      /\ UNCHANGED <<tables, cont, joined, minted>>
  BY TenancyAssumption DEF Begin, IInv, TableInv
<1>2. Facts(q) /\ \A t \in Teams : ~Joining(q, t)
  BY DEF Facts, Joining
<1> QED
  BY <1>1, <1>2, RequestMoves

LEMMA EndMoves ==
    ASSUME IInv, NEW r \in Requests, End(r), UNCHANGED <<tables, cont, joined>>, Same
    PROVE  IInv'
<1>1. starts' \in 0 .. MaxStarts /\ req' = [req EXCEPT ![r] = Idle]
      /\ UNCHANGED <<tables, cont, joined, minted>>
  BY DEF End, IInv, TableInv, Same
<1>2. /\ Idle \in ReqRecs /\ Shape(Idle) /\ Idle.op # "invite"
      /\ Facts(Idle) /\ \A t \in Teams : ~Joining(Idle, t)
  BY IdleInv DEF Facts, Joining
<1> QED
  BY <1>1, <1>2, RequestMoves

(* The gates of the handlers on teams, members, invites and accounts.      *)
LEMMA BeginMemberStep == ASSUME IInv, NEW r \in Requests, BeginMember(r) PROVE IInv'
<1>0. users \subseteq Users
  BY DEF IInv, TableInv
<1>1. ASSUME NEW by \in users, NEW t \in Teams,
             NEW who \in Users, NEW role \in {"admin", "developer"}, BeginUpdateMemberRole(r, by, t, who, role) PROVE IInv'
  <2> DEFINE q == [Idle EXCEPT !.op = "role", !.pc = "lock", !.by = by, !.t = t,
                             !.who = who, !.role = NormaliseRole(role)]
  <2>1. NormaliseRole(role) \in {"admin", "member"}
    BY DEF NormaliseRole
  <2>2. /\ q \in ReqRecs /\ q.seen = Idle.seen
        /\ q.op = "role" /\ q.pc = "lock" /\ q.t = t /\ q.who = who /\ q.role \in TeamRoles
    BY <2>1, <1>0, IdleInv DEF ReqRecs, Ops, Labels, ProjectRoles, TeamRoles
  <2>3. Begin(r, q)
    BY <1>1 DEF BeginUpdateMemberRole
  <2> HIDE DEF q
  <2>4. Shape(q)
    BY <2>1, <1>0, <2>2, IdleInv DEF Shape, TeamRoles
  <2> QED
    BY <2>2, <2>3, <2>4, BeginMoves
<1>2. ASSUME NEW by \in users, NEW t \in Teams, NEW who \in Users, BeginRemoveMember(r, by, t, who) PROVE IInv'
  <2> DEFINE q == [Idle EXCEPT !.op = "remove", !.pc = "lock", !.by = by, !.t = t,
                             !.who = who]
  <2>1. /\ q \in ReqRecs /\ q.seen = Idle.seen
        /\ q.op = "remove" /\ q.pc = "lock" /\ q.t = t /\ q.who = who /\ q.role = Idle.role
    BY <1>0, IdleInv DEF ReqRecs, Ops, Labels, ProjectRoles, TeamRoles
  <2>2. Begin(r, q)
    BY <1>2 DEF BeginRemoveMember
  <2> HIDE DEF q
  <2>3. Shape(q)
    BY <1>0, <2>1, IdleInv DEF Shape, TeamRoles
  <2> QED
    BY <2>1, <2>2, <2>3, BeginMoves
<1>3. ASSUME NEW by \in users, NEW t \in Teams, NEW role \in {"member", "admin"}, BeginInvite(r, by, t, role) PROVE IInv'
  <2> DEFINE q == [Idle EXCEPT !.op = "invite", !.pc = "write", !.by = by, !.t = t,
                             !.role = role]
  <2>1. /\ q \in ReqRecs /\ q.seen = Idle.seen
        /\ q.op = "invite" /\ q.pc = "write" /\ q.t = t /\ q.by = by /\ q.role = role
    BY <1>0, IdleInv DEF ReqRecs, Ops, Labels, ProjectRoles, TeamRoles
  <2>2. Begin(r, q) /\ minted + Pending("invite") < MaxTokens
    BY <1>3 DEF BeginInvite
  <2> HIDE DEF q
  <2>3. Shape(q)
    BY <1>0, <2>1, IdleInv DEF Shape, TeamRoles
  <2> QED
    BY <2>1, <2>2, <2>3, BeginMoves
<1>4. ASSUME NEW by \in users, NEW t \in Teams, NEW tok \in Tokens, BeginAccept(r, by, t, tok) PROVE IInv'
  <2> DEFINE q == [Idle EXCEPT !.op = "accept", !.pc = "lock", !.by = by, !.t = t,
                             !.seen = {tok}]
  <2>1. /\ q \in ReqRecs /\ q.seen = {tok}
        /\ q.op = "accept" /\ q.pc = "lock" /\ q.t = t /\ q.by = by
    BY <1>0, IdleInv DEF ReqRecs, Ops, Labels, ProjectRoles, TeamRoles
  <2>2. Begin(r, q)
    BY <1>4 DEF BeginAccept
  <2> HIDE DEF q
  <2>3. Shape(q)
    BY <1>0, <2>1, IdleInv DEF Shape, TeamRoles
  <2> QED
    BY <2>1, <2>2, <2>3, BeginMoves
<1>5. ASSUME NEW by \in users, NEW t \in Teams, BeginCancel(r, by, t) PROVE IInv'
  <2> DEFINE q == [Idle EXCEPT !.op = "cancel", !.pc = "write", !.by = by, !.t = t]
  <2>1. /\ q \in ReqRecs /\ q.seen = Idle.seen
        /\ q.op = "cancel" /\ q.pc = "write" /\ q.t = t
    BY <1>0, IdleInv DEF ReqRecs, Ops, Labels, ProjectRoles, TeamRoles
  <2>2. Begin(r, q)
    BY <1>5 DEF BeginCancel
  <2> HIDE DEF q
  <2>3. Shape(q)
    BY <1>0, <2>1, IdleInv DEF Shape, TeamRoles
  <2> QED
    BY <2>1, <2>2, <2>3, BeginMoves
<1>6. ASSUME NEW by \in users, NEW t \in Teams, BeginDeleteTeam(r, by, t) PROVE IInv'
  <2> DEFINE q == [Idle EXCEPT !.op = "team", !.pc = "count", !.by = by, !.t = t]
  <2>1. /\ q \in ReqRecs /\ q.seen = Idle.seen
        /\ q.op = "team" /\ q.pc = "count" /\ q.t = t
    BY <1>0, IdleInv DEF ReqRecs, Ops, Labels, ProjectRoles, TeamRoles
  <2>2. Begin(r, q)
    BY <1>6 DEF BeginDeleteTeam
  <2> HIDE DEF q
  <2>3. Shape(q)
    BY <1>0, <2>1, IdleInv DEF Shape, TeamRoles
  <2> QED
    BY <2>1, <2>2, <2>3, BeginMoves
<1>7. ASSUME NEW by \in users, BeginDeleteAccount(r, by) PROVE IInv'
  <2> DEFINE q == [Idle EXCEPT !.op = "account", !.pc = "orphan", !.by = by]
  <2>1. /\ q \in ReqRecs /\ q.seen = Idle.seen
        /\ q.op = "account" /\ q.pc = "orphan" /\ q.by = by
    BY <1>0, IdleInv DEF ReqRecs, Ops, Labels, ProjectRoles, TeamRoles
  <2>2. Begin(r, q)
    BY <1>7 DEF BeginDeleteAccount
  <2> HIDE DEF q
  <2>3. Shape(q)
    BY <1>0, <2>1, IdleInv DEF Shape, TeamRoles
  <2> QED
    BY <2>1, <2>2, <2>3, BeginMoves
<1> QED
  BY <1>1, <1>2, <1>3, <1>4, <1>5, <1>6, <1>7 DEF BeginMember

(* The gates of the handlers on projects and deployments.                  *)
LEMMA BeginProjectStep == ASSUME IInv, NEW r \in Requests, BeginProject(r) PROVE IInv'
<1>0. users \subseteq Users /\ project \in [Projects -> Teams \cup {None}]
  BY DEF IInv, TableInv
<1>1. ASSUME NEW by \in users, NEW p \in Projects, NEW t \in Teams, BeginCreateProject(r, by, t, p) PROVE IInv'
  <2> DEFINE q == [Idle EXCEPT !.op = "create", !.pc = "write", !.by = by, !.t = t,
                             !.p = p]
  <2>1. /\ q \in ReqRecs /\ q.seen = Idle.seen
        /\ q.op = "create" /\ q.pc = "write" /\ q.t = t /\ q.p = p
    BY <1>0, IdleInv DEF ReqRecs, Ops, Labels, ProjectRoles, TeamRoles
  <2>2. Begin(r, q)
    BY <1>1 DEF BeginCreateProject
  <2> HIDE DEF q
  <2>3. Shape(q)
    BY <1>0, <2>1, IdleInv DEF Shape, TeamRoles
  <2> QED
    BY <2>1, <2>2, <2>3, BeginMoves
<1>2. ASSUME NEW by \in users, NEW p \in Projects, NEW t \in Teams, BeginTransfer(r, by, p, t) PROVE IInv'
  <2> DEFINE q == [Idle EXCEPT !.op = "transfer", !.pc = "dest", !.by = by, !.p = p,
                             !.t = t]
  <2>1. /\ q \in ReqRecs /\ q.seen = Idle.seen
        /\ q.op = "transfer" /\ q.pc = "dest" /\ q.t = t /\ q.p = p
    BY <1>0, IdleInv DEF ReqRecs, Ops, Labels, ProjectRoles, TeamRoles
  <2>2. Begin(r, q)
    BY <1>2 DEF BeginTransfer
  <2> HIDE DEF q
  <2>3. Shape(q)
    BY <1>0, <2>1, IdleInv DEF Shape, TeamRoles
  <2> QED
    BY <2>1, <2>2, <2>3, BeginMoves
<1>3. ASSUME NEW by \in users, NEW p \in Projects,
             NEW who \in Users, NEW role \in {"viewer", "admin"}, BeginGrant(r, by, p, who, role) PROVE IInv'
  <2> DEFINE q == [Idle EXCEPT !.op = "grant", !.pc = "exists", !.by = by, !.p = p,
                             !.t = project[p], !.who = who, !.role = role]
  <2>1. /\ q \in ReqRecs /\ q.seen = Idle.seen
        /\ q.op = "grant" /\ q.pc = "exists" /\ q.p = p /\ q.who = who
    BY <1>0, IdleInv DEF ReqRecs, Ops, Labels, ProjectRoles, TeamRoles
  <2>2. Begin(r, q)
    BY <1>3 DEF BeginGrant
  <2> HIDE DEF q
  <2>3. Shape(q)
    BY <1>0, <2>1, IdleInv DEF Shape, TeamRoles
  <2> QED
    BY <2>1, <2>2, <2>3, BeginMoves
<1>4. ASSUME NEW by \in users, NEW p \in Projects, NEW who \in Users, BeginRevoke(r, by, p, who) PROVE IInv'
  <2> DEFINE q == [Idle EXCEPT !.op = "revoke", !.pc = "write", !.by = by, !.p = p,
                             !.who = who]
  <2>1. /\ q \in ReqRecs /\ q.seen = Idle.seen
        /\ q.op = "revoke" /\ q.pc = "write" /\ q.p = p /\ q.who = who
    BY <1>0, IdleInv DEF ReqRecs, Ops, Labels, ProjectRoles, TeamRoles
  <2>2. Begin(r, q)
    BY <1>4 DEF BeginRevoke
  <2> HIDE DEF q
  <2>3. Shape(q)
    BY <1>0, <2>1, IdleInv DEF Shape, TeamRoles
  <2> QED
    BY <2>1, <2>2, <2>3, BeginMoves
<1>5. ASSUME NEW by \in users, NEW p \in Projects, BeginCreateDeployment(r, by, p) PROVE IInv'
  <2> DEFINE q == [Idle EXCEPT !.op = "deploy", !.pc = "write", !.by = by, !.p = p]
  <2>1. /\ q \in ReqRecs /\ q.seen = Idle.seen
        /\ q.op = "deploy" /\ q.pc = "write" /\ q.p = p
    BY <1>0, IdleInv DEF ReqRecs, Ops, Labels, ProjectRoles, TeamRoles
  <2>2. Begin(r, q)
    BY <1>5 DEF BeginCreateDeployment
  <2> HIDE DEF q
  <2>3. Shape(q)
    BY <1>0, <2>1, IdleInv DEF Shape, TeamRoles
  <2> QED
    BY <2>1, <2>2, <2>3, BeginMoves
<1>6. ASSUME NEW by \in users, NEW p \in Projects, BeginDeleteProject(r, by, p) PROVE IInv'
  <2> DEFINE q == [Idle EXCEPT !.op = "project", !.pc = "list", !.by = by, !.p = p]
  <2>1. /\ q \in ReqRecs /\ q.seen = Idle.seen
        /\ q.op = "project" /\ q.pc = "list" /\ q.p = p
    BY <1>0, IdleInv DEF ReqRecs, Ops, Labels, ProjectRoles, TeamRoles
  <2>2. Begin(r, q)
    BY <1>6 DEF BeginDeleteProject
  <2> HIDE DEF q
  <2>3. Shape(q)
    BY <1>0, <2>1, IdleInv DEF Shape, TeamRoles
  <2> QED
    BY <2>1, <2>2, <2>3, BeginMoves
<1> QED
  BY <1>1, <1>2, <1>3, <1>4, <1>5, <1>6 DEF BeginProject, BeginUpdateProjectMemberRole

(* A request goes on to another statement, with what it has seen.          *)
LEMMA SawMoves ==
    ASSUME IInv, NEW r \in Requests, NEW label \in Labels,
           NEW s \in SUBSET (Tokens \cup Deployments),
           Saw(r, label, s) \/ (Goto(r, label) /\ s = req[r].seen),
           req[r].op # "invite", UNCHANGED <<tables, cont, joined>>, Same,
           \A q \in ReqRecs :
              /\ q.op = req[r].op /\ q.pc = label /\ q.t = req[r].t /\ q.who = req[r].who
              /\ q.role = req[r].role /\ q.by = req[r].by /\ q.p = req[r].p /\ q.seen = s
              => Shape(q) /\ Facts(q),
           label = "join" => InviteFree(r, req[r].t)
    PROVE  IInv'
<1> DEFINE q == [req[r] EXCEPT !.pc = label, !.seen = s]
<1>1. req[r] \in ReqRecs
  BY DEF IInv, ReqInv
<1>2. /\ q \in ReqRecs /\ q.op = req[r].op /\ q.pc = label /\ q.t = req[r].t
      /\ q.who = req[r].who /\ q.role = req[r].role /\ q.by = req[r].by
      /\ q.p = req[r].p /\ q.seen = s
  BY <1>1 DEF ReqRecs
<1>3. req' = [req EXCEPT ![r] = q]
  <2>1. CASE Saw(r, label, s)
    BY <2>1 DEF Saw, IInv, ReqInv
  <2>2. CASE Goto(r, label) /\ s = req[r].seen
    <3>1. q = [req[r] EXCEPT !.pc = label]
      BY <1>1, <2>2 DEF ReqRecs
    <3> QED
      BY <2>2, <3>1 DEF Goto, IInv, ReqInv
  <2> QED
    BY <2>1, <2>2
<1> HIDE DEF q
<1>4. Shape(q) /\ Facts(q)
  BY <1>2
<1>5. \A x \in Requests \ {r}, t \in Teams : Joining(q, t) => ~Joining(req[x], t)
  BY <1>2 DEF Joining, InviteFree, HoldsInvite
<1>6. UNCHANGED <<tables, cont, joined, minted>> /\ starts' \in 0 .. MaxStarts
  BY DEF Same, IInv, TableInv
<1> QED
  BY <1>2, <1>3, <1>4, <1>5, <1>6, RequestMoves

(* updateMemberRole and removeMember up to their write.                    *)
LEMMA MemberSteps ==
    ASSUME IInv, NEW r \in Requests,
           LockForRole(r) \/ LockForRemove(r) \/ CountAdmins(r)
    PROVE  IInv'
<1> DEFINE t == req[r].t
           who == req[r].who
<1>1. /\ req[r] \in ReqRecs /\ Shape(req[r]) /\ req[r].op \in {"role", "remove"}
      /\ t \in Teams /\ who \in Users /\ member[t][who] \in TeamRoles
      /\ req[r].role \in TeamRoles
      /\ UNCHANGED <<tables, cont, joined>> /\ Same
  <2>1. /\ req[r].op \in {"role", "remove"}
        /\ UNCHANGED <<tables, cont, joined>> /\ Same
    BY DEF LockForRole, LockForRemove, CountAdmins, At
  <2>2. req[r] \in ReqRecs /\ Shape(req[r]) /\ member \in [Teams -> [Users -> TeamRoles]]
    BY DEF IInv, ReqInv, TableInv
  <2> QED
    BY <2>1, <2>2 DEF Shape
<1>3. ASSUME NEW label \in {"count", "write"}, Goto(r, label) PROVE IInv'
  <2>1. \A q \in ReqRecs :
           /\ q.op = req[r].op /\ q.pc = label /\ q.t = req[r].t /\ q.who = req[r].who
           /\ q.role = req[r].role /\ q.by = req[r].by /\ q.p = req[r].p
           /\ q.seen = req[r].seen
           => Shape(q) /\ Facts(q)
    BY <1>1 DEF Shape, Facts, Joining
  <2>2. req[r].seen \in SUBSET (Tokens \cup Deployments)
        /\ label \in Labels
    BY <1>1 DEF ReqRecs, Labels
  <2> QED
    BY <1>1, <1>3, <2>1, <2>2, SawMoves
<1>5. CASE LockForRole(r)
  <2>1. CASE member[t][who] \in {"none", req[r].role}
    <3>1. End(r)
      BY <1>5, <2>1 DEF LockForRole
    <3> QED
      BY <1>1, <3>1, EndMoves
  <2>2. CASE member[t][who] = "admin" /\ req[r].role # "admin"
    BY <1>3, <1>5, <2>2 DEF LockForRole
  <2>3. CASE member[t][who] = "member" /\ req[r].role # "member"
    BY <1>3, <1>5, <2>3 DEF LockForRole
  <2> QED
    BY <1>1, <2>1, <2>2, <2>3 DEF TeamRoles
<1>6. CASE LockForRemove(r)
  <2>1. CASE member[t][who] = "none"
    <3>1. End(r)
      BY <1>6, <2>1 DEF LockForRemove
    <3> QED
      BY <1>1, <3>1, EndMoves
  <2>2. CASE member[t][who] = "admin"
    BY <1>3, <1>6, <2>2 DEF LockForRemove
  <2>3. CASE member[t][who] = "member"
    BY <1>3, <1>6, <2>3 DEF LockForRemove
  <2> QED
    BY <1>1, <2>1, <2>2, <2>3 DEF TeamRoles
<1>7. CASE CountAdmins(r)
  <2>1. CASE LastAdmin(t)
    <3>1. End(r)
      BY <1>7, <2>1 DEF CountAdmins
    <3> QED
      BY <1>1, <3>1, EndMoves
  <2>2. CASE ~LastAdmin(t)
    BY <1>3, <1>7, <2>2 DEF CountAdmins
  <2> QED
    BY <2>1, <2>2
<1> QED
  BY <1>5, <1>6, <1>7

(* The checks of deleteTeam, deleteAccount, transferProject and            *)
(* addProjectMember, an invite's lock, deleteProject's list, and the end   *)
(* of a transaction that Postgres aborts.                                  *)
LEMMA CheckSteps ==
    ASSUME IInv, NEW r \in Requests,
           \/ CountDeployments(r) \/ EraseTeam(r) \/ CheckOrphans(r) \/ CheckCreator(r)
           \/ CheckDestination(r) \/ CheckTeamMember(r) \/ LockInvite(r)
           \/ ListDeployments(r) \/ DeadlockVictim(r)
    PROVE  IInv'
<1> DEFINE S == SUBSET (Tokens \cup Deployments)
<1>1. /\ req[r] \in ReqRecs /\ Shape(req[r]) /\ Facts(req[r]) /\ req[r].seen \in S
      /\ UNCHANGED <<tables, cont, joined>> /\ Same
  BY DEF IInv, ReqInv, ReqRecs, CountDeployments, EraseTeam, CheckOrphans, CheckCreator,
         CheckDestination, CheckTeamMember, LockInvite, ListDeployments, DeadlockVictim
<1>2. CASE End(r)
  BY <1>1, <1>2, EndMoves
<1>3. ASSUME NEW label \in {"creator", "erase", "cascade", "write"}, Goto(r, label),
             req[r].op \in {"team", "account", "transfer", "grant"}
      PROVE  IInv'
  <2>1. \A q \in ReqRecs :
           /\ q.op = req[r].op /\ q.pc = label /\ q.t = req[r].t /\ q.who = req[r].who
           /\ q.role = req[r].role /\ q.by = req[r].by /\ q.p = req[r].p
           /\ q.seen = req[r].seen
           => Shape(q) /\ Facts(q)
    BY <1>1, <1>3 DEF Shape, Facts, Joining
  <2>2. label \in Labels
    BY DEF Labels
  <2> QED
    BY <1>1, <1>3, <2>1, <2>2, SawMoves
<1>4. CASE CountDeployments(r) \/ EraseTeam(r)
  <2>1. Goto(r, "erase") \/ Goto(r, "cascade") \/ End(r)
    BY <1>4 DEF CountDeployments, EraseTeam
  <2>2. req[r].op = "team"
    BY <1>4 DEF CountDeployments, EraseTeam, At
  <2> QED
    BY <1>2, <1>3, <2>1, <2>2
<1>5. CASE CheckOrphans(r)
  <2>1. Goto(r, "creator") \/ End(r)
    BY <1>5 DEF CheckOrphans
  <2>2. req[r].op = "account"
    BY <1>5 DEF CheckOrphans, At
  <2> QED
    BY <1>2, <1>3, <2>1, <2>2
<1>6. CASE CheckCreator(r)
  <2>1. Goto(r, "erase") \/ End(r)
    BY <1>6 DEF CheckCreator
  <2>2. req[r].op = "account"
    BY <1>6 DEF CheckCreator, At
  <2> QED
    BY <1>2, <1>3, <2>1, <2>2
<1>7. CASE CheckDestination(r) \/ CheckTeamMember(r)
  <2>1. Goto(r, "write") \/ End(r)
    BY <1>7 DEF CheckDestination, CheckTeamMember
  <2>2. req[r].op \in {"transfer", "grant"}
    BY <1>7 DEF CheckDestination, CheckTeamMember, At
  <2> QED
    BY <1>2, <1>3, <2>1, <2>2
<1>8. CASE LockInvite(r)
  <2> DEFINE t == req[r].t
  <2>1. CASE invite[t].state = "open" /\ invite[t].token \in req[r].seen
    <3>1. Goto(r, "join") /\ req[r].op = "accept" /\ InviteFree(r, t)
      BY <1>8, <2>1 DEF LockInvite, At
    <3>2. \A q \in ReqRecs :
             /\ q.op = req[r].op /\ q.pc = "join" /\ q.t = req[r].t
             /\ q.who = req[r].who /\ q.role = req[r].role /\ q.by = req[r].by
             /\ q.p = req[r].p /\ q.seen = req[r].seen
             => Shape(q) /\ Facts(q)
      BY <1>1, <2>1, <3>1 DEF Shape, Facts, Joining
    <3>3. "join" \in Labels
      BY DEF Labels
    <3> QED
      BY <1>1, <3>1, <3>2, <3>3, SawMoves
  <2>2. CASE ~(invite[t].state = "open" /\ invite[t].token \in req[r].seen)
    BY <1>2, <1>8, <2>2 DEF LockInvite
  <2> QED
    BY <2>1, <2>2
<1>9. CASE ListDeployments(r)
  <2> DEFINE L == {d \in Deployments : dep[d].project = req[r].p
                                       /\ dep[d].status = "running"}
  <2>1. Saw(r, "destroy", L) /\ req[r].op = "project"
    BY <1>9 DEF ListDeployments, At
  <2>2. L \in S /\ "destroy" \in Labels /\ L \subseteq Deployments
        /\ \A d \in L : dep[d].status = "running"
    BY DEF Labels
  <2> HIDE DEF L
  <2>3. \A q \in ReqRecs :
           /\ q.op = req[r].op /\ q.pc = "destroy" /\ q.t = req[r].t
           /\ q.who = req[r].who /\ q.role = req[r].role /\ q.by = req[r].by
           /\ q.p = req[r].p /\ q.seen = L
           => Shape(q) /\ Facts(q)
    BY <1>1, <2>1, <2>2 DEF Shape, Facts, Joining
  <2> QED
    BY <1>1, <2>1, <2>2, <2>3, SawMoves
<1>10. CASE DeadlockVictim(r)
  BY <1>2, <1>10 DEF DeadlockVictim
<1> QED
  BY <1>4, <1>5, <1>6, <1>7, <1>8, <1>9, <1>10

(* A statement that writes the tables and ends its request.                *)
LEMMA EndKeeps ==
    ASSUME IInv, NEW r \in Requests, End(r), TableInv', InviteInv', minted' = minted,
           \A x \in Requests \ {r} : \A o \in ReqRecs : o = req[x] => Facts(o)'
    PROVE  IInv'
<1>1. /\ Idle \in ReqRecs /\ Shape(Idle) /\ Idle.op # "invite"
      /\ \A t \in Teams : ~Joining(Idle, t)
  BY IdleInv DEF Joining
<1>2. Facts(Idle)'
  BY IdleInv DEF Facts, Joining
<1>3. req' = [req EXCEPT ![r] = Idle]
  BY DEF End
<1>4. PendingInv'
  BY <1>1, <1>3, PendingKept
<1> QED
  BY <1>1, <1>2, <1>3, <1>4, StepKeeps

(* Facts reads the invites, the deployments and the containers.            *)
LEMMA FactsKept ==
    ASSUME IInv, UNCHANGED <<invite, dep, cont>>
    PROVE  \A x \in Requests : \A o \in ReqRecs : o = req[x] => Facts(o)'
  BY DEF IInv, Facts

LEMMA InvitesKept ==
    ASSUME IInv, UNCHANGED <<invite, joined, minted>> PROVE InviteInv'
  BY DEF IInv, InviteInv

LEMMA TablesTyped ==
    ASSUME IInv
    PROVE  /\ users \subseteq Users
           /\ team \in [Teams -> Users \cup {None}]
           /\ member \in [Teams -> [Users -> TeamRoles]]
           /\ invite \in [Teams -> InviteRows]
           /\ project \in [Projects -> Teams \cup {None}]
           /\ override \in [Projects -> [Users -> ProjectRoles]]
           /\ dep \in [Deployments -> DepRows]
           /\ cont \subseteq Deployments
           /\ joined \in [Tokens -> SUBSET Users]
           /\ starts \in 0 .. MaxStarts /\ minted \in 0 .. MaxTokens
  BY DEF IInv, TableInv

(* The writes that touch neither invites nor deployments.                  *)
LEMMA PlainWrites ==
    ASSUME IInv, NEW r \in Requests,
           \/ UpdateMemberRole(r) \/ RemoveMember(r) \/ CreateProject(r)
           \/ TransferProject(r) \/ AddProjectMember(r) \/ RemoveProjectMember(r)
    PROVE  IInv'
<1> DEFINE q == req[r]
<1>0. Shape(q) /\ q \in ReqRecs
  BY DEF IInv, ReqInv
<1>1. ASSUME NEW role \in TeamRoles, q.op \in {"role", "remove"}, WriteMember(r, role)
      PROVE  TableInv'
  <2>1. q.t \in Teams /\ q.who \in Users
    BY <1>0, <1>1 DEF Shape
  <2>2. member' \in [Teams -> [Users -> TeamRoles]]
    BY <1>1, <2>1, TablesTyped DEF WriteMember
  <2> QED
    BY <1>1, <2>2 DEF WriteMember, Same, IInv, TableInv
<1>2. CASE UpdateMemberRole(r) \/ RemoveMember(r)
  <2>1. q.op \in {"role", "remove"} /\ \E role \in TeamRoles : WriteMember(r, role)
    BY <1>0, <1>2 DEF UpdateMemberRole, RemoveMember, At, Shape, TeamRoles
  <2>2. TableInv'
    BY <1>1, <2>1
  <2>3. End(r) /\ UNCHANGED <<invite, dep, cont, joined, minted>>
    BY <2>1 DEF WriteMember, Same
  <2> QED
    BY <2>2, <2>3, EndKeeps, FactsKept, InvitesKept
<1>3. CASE CreateProject(r) \/ TransferProject(r)
  <2>1. End(r) /\ UNCHANGED <<users, team, member, invite, override, dep, cont, joined,
                              starts, minted>>
    BY <1>3 DEF CreateProject, TransferProject, Same
  <2>2. q.t \in Teams /\ q.p \in Projects
    BY <1>0, <1>3 DEF Shape, CreateProject, TransferProject, At
  <2>3. project' \in {project, [project EXCEPT ![q.p] = q.t]}
    BY <1>3 DEF CreateProject, TransferProject
  <2>4. project' \in [Projects -> Teams \cup {None}]
    BY <2>2, <2>3, TablesTyped
  <2>5. TableInv'
    BY <2>1, <2>4 DEF IInv, TableInv
  <2> QED
    BY <2>1, <2>5, EndKeeps, FactsKept, InvitesKept
<1>4. CASE AddProjectMember(r) \/ RemoveProjectMember(r)
  <2>1. End(r) /\ UNCHANGED <<users, team, member, invite, project, dep, cont, joined,
                              starts, minted>>
    BY <1>4 DEF AddProjectMember, RemoveProjectMember, Same
  <2>2. q.p \in Projects /\ q.who \in Users /\ q.role \in ProjectRoles
    BY <1>0, <1>4 DEF Shape, AddProjectMember, RemoveProjectMember, At, ReqRecs
  <2>3. \E role \in ProjectRoles :
           override' \in {override, [override EXCEPT ![q.p][q.who] = role]}
    <3>1. CASE AddProjectMember(r)
      BY <2>2, <3>1 DEF AddProjectMember
    <3>2. CASE RemoveProjectMember(r)
      <4>1. "none" \in ProjectRoles
        BY DEF ProjectRoles, TeamRoles
      <4> QED
        BY <3>2, <4>1 DEF RemoveProjectMember
    <3> QED
      BY <1>4, <3>1, <3>2
  <2>4. override' \in [Projects -> [Users -> ProjectRoles]]
    <3>1. override \in [Projects -> [Users -> ProjectRoles]]
      BY TablesTyped
    <3>2. \A role \in ProjectRoles :
             [override EXCEPT ![q.p][q.who] = role] \in [Projects -> [Users -> ProjectRoles]]
      BY <2>2, <3>1
    <3> QED
      BY <2>3, <3>1, <3>2
  <2>5. TableInv'
    BY <2>1, <2>4 DEF IInv, TableInv
  <2> QED
    BY <2>1, <2>5, EndKeeps, FactsKept, InvitesKept
<1> QED
  BY <1>2, <1>3, <1>4

(* An invite no accept is about to consume may be changed.                 *)
LEMMA InviteFacts ==
    ASSUME IInv, NEW r \in Requests, UNCHANGED <<dep, cont>>,
           \A t \in Teams : InviteFree(r, t) \/ invite'[t] = invite[t]
    PROVE  \A x \in Requests \ {r} : \A o \in ReqRecs : o = req[x] => Facts(o)'
<1> SUFFICES ASSUME NEW x \in Requests \ {r}, NEW o \in ReqRecs, o = req[x]
             PROVE  Facts(o)'
  OBVIOUS
<1>1. Facts(o)
  BY DEF IInv
<1>2. \A t \in Teams : Joining(o, t) => invite'[t] = invite[t]
  BY DEF InviteFree, HoldsInvite, Joining
<1> QED
  BY <1>1, <1>2 DEF Facts

(* Closing invites keeps the tokens apart.                                 *)
LEMMA InvitesClose ==
    ASSUME IInv, UNCHANGED <<joined, minted>>,
           \A t \in Teams : invite'[t] = invite[t] \/ invite'[t].state # "open"
    PROVE  InviteInv'
<1>1. \A t \in Teams : invite'[t].state = "open" => invite'[t] = invite[t]
  OBVIOUS
<1> QED
  BY <1>1 DEF IInv, InviteInv

LEMMA NoInviteRow == NoInvite \in InviteRows /\ NoInvite.state = "none"
  BY TenancyAssumption DEF NoInvite, InviteRows, TeamRoles

(* cancelInvite, and the account and the team whose invites go with them.  *)
LEMMA CancelStep == ASSUME IInv, NEW r \in Requests, CancelInvite(r) PROVE IInv'
<1> DEFINE t == req[r].t
<1>1. /\ End(r) /\ InviteFree(r, t) /\ t \in Teams
      /\ UNCHANGED <<users, team, member, project, override, dep, cont, joined, starts,
                     minted>>
      /\ invite' \in {invite, [invite EXCEPT ![t] = NoInvite]}
  BY DEF CancelInvite, Same, At, IInv, ReqInv, Shape
<1>2. /\ invite' \in [Teams -> InviteRows]
      /\ \A s \in Teams : InviteFree(r, s) \/ invite'[s] = invite[s]
      /\ \A s \in Teams : invite'[s] = invite[s] \/ invite'[s].state # "open"
  BY <1>1, TablesTyped, NoInviteRow
<1>3. TableInv'
  BY <1>1, <1>2 DEF IInv, TableInv
<1> QED
  BY <1>1, <1>2, <1>3, EndKeeps, InviteFacts, InvitesClose

(* deleteAccount erases the account's row and what refers to it.           *)
LEMMA EraseAccountStep == ASSUME IInv, NEW r \in Requests, EraseAccount(r) PROVE IInv'
<1> DEFINE u == req[r].by
<1>1. /\ End(r) /\ UNCHANGED <<team, project, dep, cont, joined, starts, minted>>
      /\ \A t \in Teams : invite[t].by = u => InviteFree(r, t)
      /\ u \in Users
  BY DEF EraseAccount, Same, At, IInv, ReqInv, Shape
<1>2. CASE UNCHANGED <<users, member, invite, override>>
  <2>1. TableInv'
    BY <1>1, <1>2 DEF IInv, TableInv
  <2> QED
    BY <1>1, <1>2, <2>1, EndKeeps, FactsKept, InvitesKept
<1>3. CASE /\ users' = users \ {u}
           /\ member' = [t \in Teams |-> [member[t] EXCEPT ![u] = "none"]]
           /\ override' = [p \in Projects |-> [override[p] EXCEPT ![u] = "none"]]
           /\ invite' = [t \in Teams |-> IF invite[t].by = u THEN NoInvite
                                         ELSE invite[t]]
  <2>1. member' \in [Teams -> [Users -> TeamRoles]]
    BY <1>1, <1>3, TablesTyped DEF TeamRoles
  <2>2. override' \in [Projects -> [Users -> ProjectRoles]]
    BY <1>1, <1>3, TablesTyped DEF TeamRoles, ProjectRoles
  <2>3. /\ invite' \in [Teams -> InviteRows]
        /\ \A s \in Teams : InviteFree(r, s) \/ invite'[s] = invite[s]
        /\ \A s \in Teams : invite'[s] = invite[s] \/ invite'[s].state # "open"
    BY <1>1, <1>3, TablesTyped, NoInviteRow
  <2>4. TableInv'
    BY <1>1, <1>3, <2>1, <2>2, <2>3 DEF IInv, TableInv
  <2> QED
    BY <1>1, <2>3, <2>4, EndKeeps, InviteFacts, InvitesClose
<1> QED
  BY <1>2, <1>3 DEF EraseAccount

(* What Erased does to the rows of projects and deployments.               *)
LEMMA ErasedRows ==
    ASSUME IInv, NEW ps \in SUBSET Projects, Erased(ps)
    PROVE  /\ project' \in [Projects -> Teams \cup {None}]
           /\ override' \in [Projects -> [Users -> ProjectRoles]]
           /\ dep' \in [Deployments -> DepRows]
           /\ \A d \in Deployments : dep'[d] = dep[d] \/ dep'[d].status = "gone"
<1>1. [project |-> None, status |-> "gone"] \in DepRows
  BY DEF DepRows
<1>2. [u \in Users |-> "none"] \in [Users -> ProjectRoles]
  BY DEF ProjectRoles, TeamRoles
<1>3. project' \in [Projects -> Teams \cup {None}]
  BY TablesTyped DEF Erased
<1>4. override' \in [Projects -> [Users -> ProjectRoles]]
  BY <1>2, TablesTyped DEF Erased
<1>5. /\ dep' \in [Deployments -> DepRows]
      /\ \A d \in Deployments : dep'[d] = dep[d] \/ dep'[d].status = "gone"
  BY <1>1, TablesTyped DEF Erased
<1> QED
  BY <1>3, <1>4, <1>5

(* A deployment that is running or gone is not provisioning again.         *)
LEMMA DeploymentFacts ==
    ASSUME IInv, NEW r \in Requests,
           \A t \in Teams : InviteFree(r, t) \/ invite'[t] = invite[t],
           \A d \in Deployments : dep[d].status \in {"running", "gone"} =>
              /\ dep'[d].status \in {"running", "gone"}
              /\ d \notin cont => d \notin cont'
    PROVE  \A x \in Requests \ {r} : \A o \in ReqRecs : o = req[x] => Facts(o)'
<1> SUFFICES ASSUME NEW x \in Requests \ {r}, NEW o \in ReqRecs, o = req[x]
             PROVE  Facts(o)'
  OBVIOUS
<1>1. Facts(o) /\ Shape(o)
  BY DEF IInv, ReqInv
<1>2. \A t \in Teams : Joining(o, t) => invite'[t] = invite[t]
  BY DEF InviteFree, HoldsInvite, Joining
<1>3. o.op = "project" /\ o.pc \in {"destroy", "erase"} =>
        \A d \in o.seen : d \in Deployments /\ dep[d].status \in {"running", "gone"}
  BY <1>1 DEF Facts, Shape
<1> QED
  BY <1>1, <1>2, <1>3 DEF Facts

(* deleteTeam commits: the team and, by cascade, all it holds.             *)
LEMMA CascadeStep == ASSUME IInv, NEW r \in Requests, CascadeTeam(r) PROVE IInv'
<1> DEFINE t == req[r].t
<1>1. /\ End(r) /\ InviteFree(r, t) /\ t \in Teams
      /\ team' = [team EXCEPT ![t] = None]
      /\ member' = [member EXCEPT ![t] = [u \in Users |-> "none"]]
      /\ invite' = [invite EXCEPT ![t] = NoInvite]
      /\ UNCHANGED <<users, cont, joined, starts, minted>>
  BY DEF CascadeTeam, Same, At, IInv, ReqInv, Shape
<1>2. /\ project' \in [Projects -> Teams \cup {None}]
      /\ override' \in [Projects -> [Users -> ProjectRoles]]
      /\ dep' \in [Deployments -> DepRows]
      /\ \A d \in Deployments : dep'[d] = dep[d] \/ dep'[d].status = "gone"
  <2>1. Erased({p \in Projects : project[p] = t})
    BY DEF CascadeTeam
  <2> QED
    BY <2>1, ErasedRows
<1>3. team' \in [Teams -> Users \cup {None}] /\ member' \in [Teams -> [Users -> TeamRoles]]
  BY <1>1, TablesTyped DEF TeamRoles
<1>4. /\ invite' \in [Teams -> InviteRows]
      /\ \A s \in Teams : InviteFree(r, s) \/ invite'[s] = invite[s]
      /\ \A s \in Teams : invite'[s] = invite[s] \/ invite'[s].state # "open"
  BY <1>1, TablesTyped, NoInviteRow
<1>5. TableInv'
  BY <1>1, <1>2, <1>3, <1>4 DEF IInv, TableInv
<1>6. \A x \in Requests \ {r} : \A o \in ReqRecs : o = req[x] => Facts(o)'
  BY <1>1, <1>2, <1>4, DeploymentFacts
<1> QED
  BY <1>1, <1>4, <1>5, <1>6, EndKeeps, InvitesClose

(* deleteProject commits.                                                  *)
LEMMA EraseProjectStep == ASSUME IInv, NEW r \in Requests, EraseProject(r) PROVE IInv'
<1>1. /\ End(r) /\ req[r].p \in Projects /\ Erased({req[r].p})
      /\ UNCHANGED <<users, team, member, invite, cont, joined, starts, minted>>
  BY DEF EraseProject, Same, At, IInv, ReqInv, Shape
<1>2. /\ project' \in [Projects -> Teams \cup {None}]
      /\ override' \in [Projects -> [Users -> ProjectRoles]]
      /\ dep' \in [Deployments -> DepRows]
      /\ \A d \in Deployments : dep'[d] = dep[d] \/ dep'[d].status = "gone"
  BY <1>1, ErasedRows
<1>3. TableInv'
  BY <1>1, <1>2 DEF IInv, TableInv
<1>4. \A x \in Requests \ {r} : \A o \in ReqRecs : o = req[x] => Facts(o)'
  BY <1>1, <1>2, DeploymentFacts
<1> QED
  BY <1>1, <1>3, <1>4, EndKeeps, InvitesKept

(* createDeployment inserts a row no request has seen.                     *)
LEMMA InsertDeploymentStep ==
    ASSUME IInv, NEW r \in Requests, NEW d \in Deployments, InsertDeployment(r, d)
    PROVE  IInv'
<1> DEFINE p == req[r].p
<1>1. /\ End(r) /\ p \in Projects /\ dep[d] = NoRow
      /\ dep' \in {dep, [dep EXCEPT ![d] = [project |-> p, status |-> "provisioning"]]}
      /\ UNCHANGED <<users, team, member, invite, project, override, cont, joined,
                     starts, minted>>
  BY DEF InsertDeployment, Same, At, IInv, ReqInv, Shape
<1>2. [project |-> p, status |-> "provisioning"] \in DepRows /\ dep[d].status = "none"
  BY <1>1 DEF DepRows, NoRow
<1>3. /\ dep' \in [Deployments -> DepRows]
      /\ \A e \in Deployments : dep[e].status \in {"running", "gone"} => dep'[e] = dep[e]
  BY <1>1, <1>2, TablesTyped
<1>4. TableInv'
  BY <1>1, <1>3 DEF IInv, TableInv
<1>5. \A x \in Requests \ {r} : \A o \in ReqRecs : o = req[x] => Facts(o)'
  BY <1>1, <1>3, DeploymentFacts
<1> QED
  BY <1>1, <1>4, <1>5, EndKeeps, InvitesKept

(* A step of no request.                                                   *)
LEMMA OthersKeep ==
    ASSUME IInv, UNCHANGED <<req, minted>>, TableInv', InviteInv',
           \A x \in Requests : \A o \in ReqRecs : o = req[x] => Facts(o)'
    PROVE  IInv'
<1>1. ReqInv' /\ ExclInv' /\ PendingInv'
  BY DEF IInv, ReqInv, ExclInv, PendingInv, Pending
<1>2. \A x \in Requests : Facts(req[x])'
  BY DEF IInv, ReqInv, Facts
<1> QED
  BY <1>1, <1>2 DEF IInv

LEMMA CreateTeamStep ==
    ASSUME IInv, NEW u \in Users, NEW t \in Teams, CreateTeam(u, t) PROVE IInv'
<1>1. /\ team' = [team EXCEPT ![t] = u]
      /\ member' = [member EXCEPT ![t][u] = "admin"]
      /\ starts' \in 0 .. MaxStarts
      /\ UNCHANGED <<users, invite, project, override, dep, cont, req, joined, minted>>
  BY TenancyAssumption DEF CreateTeam, IInv, TableInv
<1>2. team' \in [Teams -> Users \cup {None}] /\ member' \in [Teams -> [Users -> TeamRoles]]
  BY <1>1, TablesTyped DEF TeamRoles
<1>3. TableInv'
  BY <1>1, <1>2 DEF IInv, TableInv
<1> QED
  BY <1>1, <1>3, OthersKeep, FactsKept, InvitesKept

(* The worker brings up a container of a deployment that no deletion of a  *)
(* project has on its list.                                                *)
LEMMA ProvisionedStep ==
    ASSUME IInv, NEW d \in Deployments, Provisioned(d) PROVE IInv'
<1>1. /\ dep[d].status = "provisioning"
      /\ dep' = [dep EXCEPT ![d].status = "running"]
      /\ cont' = cont \cup {d}
      /\ UNCHANGED <<users, team, member, invite, project, override, req, joined,
                     starts, minted>>
  BY DEF Provisioned
<1>2. /\ dep' \in [Deployments -> DepRows]
      /\ \A e \in Deployments \ {d} : dep'[e] = dep[e]
  BY <1>1, TablesTyped DEF DepRows
<1>3. TableInv'
  BY <1>1, <1>2 DEF IInv, TableInv
<1>4. ASSUME NEW x \in Requests, NEW o \in ReqRecs, o = req[x] PROVE Facts(o)'
  <2>1. Facts(o) /\ Shape(o)
    BY <1>4 DEF IInv, ReqInv
  <2>2. o.op = "project" /\ o.pc \in {"destroy", "erase"} =>
          d \notin o.seen /\ o.seen \subseteq Deployments
    BY <1>1, <2>1 DEF Facts, Shape
  <2> QED
    BY <1>1, <1>2, <2>1, <2>2 DEF Facts
<1> QED
  BY <1>1, <1>3, <1>4, OthersKeep, InvitesKept

(* deleteProject destroys a container, fails, or has none left.            *)
LEMMA DestroyStep == ASSUME IInv, NEW r \in Requests, DestroyContainers(r) PROVE IInv'
<1>1. req[r].op = "project" /\ req[r].pc = "destroy" /\ UNCHANGED <<tables, joined>> /\ Same
  BY DEF DestroyContainers, At
<1>2. ASSUME NEW d \in req[r].seen \cap cont, cont' = cont \ {d}, UNCHANGED req PROVE IInv'
  <2>1. TableInv'
    BY <1>1, <1>2 DEF IInv, TableInv, tables, Same
  <2>2. InviteInv' /\ minted' = minted
    BY <1>1, InvitesKept DEF tables, Same
  <2>3. ASSUME NEW x \in Requests, NEW o \in ReqRecs, o = req[x] PROVE Facts(o)'
    <3>1. Facts(o)
      BY <2>3 DEF IInv
    <3> QED
      BY <1>1, <1>2, <3>1 DEF Facts, tables
  <2> QED
    BY <1>2, <2>1, <2>2, <2>3, OthersKeep
<1>3. CASE UNCHANGED cont /\ End(r)
  BY <1>1, <1>3, EndMoves
<1>4. CASE req[r].seen \cap cont = {} /\ UNCHANGED cont /\ Goto(r, "erase")
  <2>1. req[r] \in ReqRecs /\ Shape(req[r]) /\ Facts(req[r])
    BY DEF IInv, ReqInv
  <2>2. \A q \in ReqRecs :
           /\ q.op = req[r].op /\ q.pc = "erase" /\ q.t = req[r].t
           /\ q.who = req[r].who /\ q.role = req[r].role /\ q.by = req[r].by
           /\ q.p = req[r].p /\ q.seen = req[r].seen
           => Shape(q) /\ Facts(q)
    BY <1>1, <1>4, <2>1 DEF Shape, Facts, Joining
  <2>3. req[r].seen \in SUBSET (Tokens \cup Deployments)
        /\ "erase" \in Labels
    BY <2>1 DEF ReqRecs, Labels
  <2> QED
    BY <1>1, <1>4, <2>1, <2>2, <2>3, SawMoves
<1> QED
  BY <1>2, <1>3, <1>4 DEF DestroyContainers

(* inviteMember mints a token nobody has and nobody joined with.           *)
LEMMA InviteMemberStep == ASSUME IInv, NEW r \in Requests, InviteMember(r) PROVE IInv'
<1> DEFINE q == req[r]
           row == [state |-> "open", role |-> q.role, token |-> minted + 1, by |-> q.by]
<1>1. /\ q.op = "invite" /\ InviteFree(r, q.t) /\ End(r)
      /\ UNCHANGED <<users, team, member, project, override, dep, cont, joined, starts>>
      /\ q.t \in Teams /\ q.by \in Users /\ q.role \in TeamRoles
  BY DEF InviteMember, At, IInv, ReqInv, Shape
<1>2. CASE UNCHANGED <<invite, minted>>
  <2>1. UNCHANGED <<tables, cont, joined>> /\ Same
    BY <1>1, <1>2 DEF tables, Same
  <2> QED
    BY <1>1, <2>1, EndMoves
<1>3. CASE minted' = minted + 1 /\ invite' = [invite EXCEPT ![q.t] = row]
  <2>1. PendingInv' /\ minted' \in 1 .. MaxTokens /\ minted \in Nat
    <3>1. req' = [req EXCEPT ![r] = Idle] /\ Idle.op # "invite" /\ minted' = minted + 1
      BY <1>1, <1>3, IdleInv DEF End
    <3>2. PendingInv' /\ minted' \in 1 .. MaxTokens
      BY <1>1, <3>1, PendingUsed
    <3>3. minted \in Nat
      BY DEF IInv, TableInv
    <3> QED
      BY <3>2, <3>3
  <2>2. row \in InviteRows /\ row.state = "open" /\ row.token = minted + 1
    BY <1>1, <1>3, <2>1, TenancyAssumption DEF InviteRows
  <2> HIDE DEF row
  <2>3. /\ invite' \in [Teams -> InviteRows] /\ invite'[q.t] = row
        /\ \A t \in Teams \ {q.t} : invite'[t] = invite[t]
        /\ \A t \in Teams : invite[t].token \in Nat
    BY <1>1, <1>3, <2>2, TablesTyped DEF InviteRows
  <2>4. TableInv'
    BY <1>1, <2>1, <2>3 DEF IInv, TableInv
  <2>5. InviteInv'
    <3>1. \A t \in Teams : invite'[t].state = "open" => invite'[t].token \in 1 .. minted'
      BY <1>3, <2>1, <2>2, <2>3 DEF IInv, InviteInv
    <3>2. \A s, t \in Teams : /\ invite'[s].state = "open" /\ invite'[t].state = "open"
                              /\ invite'[s].token = invite'[t].token
                              => s = t
      BY <2>1, <2>2, <2>3 DEF IInv, InviteInv
    <3>3. \A k \in Tokens : joined[k] # {} =>
             /\ k \in 1 .. minted'
             /\ \A t \in Teams : ~(invite'[t].state = "open" /\ invite'[t].token = k)
      BY <1>3, <2>1, <2>2, <2>3 DEF IInv, InviteInv
    <3> QED
      BY <1>1, <3>1, <3>2, <3>3 DEF IInv, InviteInv
  <2>6. \A x \in Requests \ {r} : \A o \in ReqRecs : o = req[x] => Facts(o)'
    BY <1>1, <2>3, InviteFacts
  <2>7. /\ Idle \in ReqRecs /\ Shape(Idle)
        /\ \A t \in Teams : ~Joining(Idle, t)
    BY IdleInv DEF Joining
  <2>8. Facts(Idle)'
    BY IdleInv DEF Facts, Joining
  <2> QED
    BY <1>1, <2>1, <2>4, <2>5, <2>6, <2>7, <2>8, StepKeeps DEF End
<1> QED
  BY <1>2, <1>3 DEF InviteMember

(* accept: the holder of the invite's row is the one that joins with it.   *)
LEMMA JoinStep == ASSUME IInv, NEW r \in Requests, JoinTeam(r) PROVE IInv'
<1> DEFINE q == req[r]
           t == q.t
<1>1. /\ Joining(q, t) /\ End(r) /\ t \in Teams /\ q.by \in Users
      /\ UNCHANGED <<users, team, project, override, dep, cont, starts, minted>>
      /\ invite[t].state = "open" /\ \E tok \in Tokens : q.seen = {tok}
      /\ invite[t].token \in q.seen
  <2>1. q.op = "accept" /\ q.pc = "join" /\ End(r)
        /\ UNCHANGED <<users, team, project, override, dep, cont, starts, minted>>
    BY DEF JoinTeam, At, Same
  <2>2. Shape(q) /\ Facts(q)
    BY DEF IInv, ReqInv
  <2> QED
    BY <2>1, <2>2 DEF Shape, Facts, Joining
<1>2. CASE UNCHANGED <<member, invite, joined>>
  <2>1. UNCHANGED <<tables, cont, joined>> /\ Same
    BY <1>1, <1>2 DEF tables, Same
  <2> QED
    BY <1>1, <2>1, EndMoves
<1>3. CASE /\ member' = IF member[t][q.by] # "none" THEN member
                        ELSE [member EXCEPT ![t][q.by] = invite[t].role]
           /\ invite' = [invite EXCEPT ![t].state = "accepted"]
           /\ joined' = [k \in Tokens |-> IF k \in q.seen
                                          THEN joined[k] \cup {q.by} ELSE joined[k]]
  <2>0. PICK tok \in Tokens : q.seen = {tok} /\ invite[t].token = tok
    BY <1>1
  <2>1. member' \in [Teams -> [Users -> TeamRoles]]
    <3>1. invite[t].role \in TeamRoles
      BY <1>1, TablesTyped DEF InviteRows
    <3> QED
      BY <1>1, <1>3, <3>1, TablesTyped
  <2>2. /\ invite' \in [Teams -> InviteRows] /\ invite'[t].state = "accepted"
        /\ \A s \in Teams \ {t} : invite'[s] = invite[s]
    <3> DEFINE row == [invite[t] EXCEPT !.state = "accepted"]
    <3>1. invite \in [Teams -> InviteRows] /\ t \in Teams
      BY <1>1, TablesTyped
    <3>2. invite[t] \in InviteRows
      BY <3>1
    <3>3. row \in InviteRows /\ row.state = "accepted"
      BY <3>2 DEF InviteRows
    <3>4. invite' = [invite EXCEPT ![t] = row]
      BY <1>3
    <3> HIDE DEF row
    <3> QED
      BY <3>1, <3>3, <3>4
  <2>3. /\ joined' \in [Tokens -> SUBSET Users] /\ joined'[tok] = joined[tok] \cup {q.by}
        /\ \A k \in Tokens \ {tok} : joined'[k] = joined[k]
    BY <1>1, <1>3, <2>0, TablesTyped
  <2>4. TableInv'
    BY <1>1, <2>1, <2>2, <2>3 DEF IInv, TableInv
  <2>5. InviteInv'
    <3>1. joined[tok] = {} /\ tok \in 1 .. minted
      BY <1>1, <2>0 DEF IInv, InviteInv
    <3>2. \A s \in Teams \ {t} : invite[s].state = "open" => invite[s].token # tok
      BY <1>1, <2>0 DEF IInv, InviteInv
    <3>3. \A k \in Tokens : \A u, v \in joined'[k] : u = v
      BY <2>3, <3>1 DEF IInv, InviteInv
    <3>4. \A k \in Tokens : joined'[k] # {} =>
             /\ k \in 1 .. minted
             /\ \A s \in Teams : ~(invite'[s].state = "open" /\ invite'[s].token = k)
      BY <2>2, <2>3, <3>1, <3>2 DEF IInv, InviteInv
    <3>5. \A s \in Teams : invite'[s].state = "open" => s # t /\ invite'[s] = invite[s]
      BY <2>2
    <3> QED
      BY <1>1, <3>3, <3>4, <3>5 DEF IInv, InviteInv
  <2>6. InviteFree(r, t)
    BY <1>1 DEF IInv, ExclInv, InviteFree, HoldsInvite, Joining
  <2>7. \A x \in Requests \ {r} : \A o \in ReqRecs : o = req[x] => Facts(o)'
    BY <1>1, <2>2, <2>6, InviteFacts
  <2> QED
    BY <1>1, <2>4, <2>5, <2>7, EndKeeps
<1> QED
  BY <1>2, <1>3 DEF JoinTeam

LEMMA StutterStep == ASSUME IInv, UNCHANGED vars PROVE IInv'
<1>1. TableInv' /\ InviteInv' /\ UNCHANGED <<req, minted, invite, dep, cont>>
  BY DEF IInv, TableInv, InviteInv, vars, tables
<1> QED
  BY <1>1, OthersKeep, FactsKept

LEMMA InitIInv == Init => IInv
<1> SUFFICES ASSUME Init PROVE IInv
  OBVIOUS
<1>1. PICK role \in [Users -> {"none", "admin"}] :
         member = [t \in Teams |-> IF t = Home THEN role ELSE [u \in Users |-> "none"]]
  BY DEF Init
<1>2. PICK some \in SUBSET Deployments :
         /\ dep = [d \in Deployments |->
                     IF d \in some THEN [project |-> App, status |-> "running"] ELSE NoRow]
         /\ cont = some
  BY DEF Init
<1>3. member \in [Teams -> [Users -> TeamRoles]]
  BY <1>1 DEF TeamRoles
<1>4. dep \in [Deployments -> DepRows] /\ cont \subseteq Deployments
  BY <1>2, TenancyAssumption DEF DepRows, NoRow
<1>5. invite \in [Teams -> InviteRows] /\ \A t \in Teams : invite[t].state = "none"
  BY NoInviteRow DEF Init
<1>6. /\ team \in [Teams -> Users \cup {None}]
      /\ project \in [Projects -> Teams \cup {None}]
      /\ override \in [Projects -> [Users -> ProjectRoles]]
      /\ joined \in [Tokens -> SUBSET Users] /\ users \subseteq Users
      /\ starts \in 0 .. MaxStarts /\ minted \in 0 .. MaxTokens
  BY TenancyAssumption DEF Init, ProjectRoles, TeamRoles
<1>7. TableInv
  BY <1>3, <1>4, <1>5, <1>6 DEF TableInv
<1>8. ReqInv /\ \A r \in Requests : Facts(req[r])
  BY IdleInv DEF Init, ReqInv, Facts, Joining
<1>9. ExclInv
  BY IdleInv DEF Init, ExclInv, Joining
<1>10. PendingInv
  <2>1. {r \in Requests : req[r].op = "invite"} = {}
    BY IdleInv DEF Init
  <2>2. Pending("invite") = 0
    BY <2>1, FS_EmptySet DEF Pending
  <2> QED
    BY <2>2, TenancyAssumption DEF PendingInv, Init
<1>11. InviteInv
  BY <1>5 DEF InviteInv, Init
<1> QED
  BY <1>7, <1>8, <1>9, <1>10, <1>11 DEF IInv

LEMMA NextIInv == IInv /\ [Next]_vars => IInv'
<1>1. ASSUME IInv, NEW r \in Requests, Step(r) PROVE IInv'
  BY <1>1, MemberSteps, CheckSteps, PlainWrites, CascadeStep, EraseAccountStep,
     InviteMemberStep, CancelStep, JoinStep, InsertDeploymentStep, DestroyStep,
     EraseProjectStep DEF Step
<1> QED
  BY <1>1, BeginMemberStep, BeginProjectStep, CreateTeamStep, ProvisionedStep, StutterStep
     DEF Next

LEMMA IInvHolds == Spec => []IInv
  BY InitIInv, NextIInv, PTL DEF Spec

(* An invite token lets in one account, however many requests present it   *)
(* at once and whatever is invited, cancelled and deleted meanwhile        *)
(* (accept, inviteMember).                                                 *)
THEOREM InviteTokensAreUsedOnce == Spec => []InviteOnce
<1>1. ASSUME IInv PROVE InviteOnce
  <2>1. TypeOK
    BY <1>1 DEF IInv, TableInv, ReqInv, InviteRows, DepRows, ReqRecs, TypeOK
  <2>2. ASSUME NEW k \in Tokens PROVE Cardinality(joined[k]) <= 1
    <3>1. CASE joined[k] = {}
      BY <3>1, FS_EmptySet
    <3>2. CASE joined[k] # {}
      <4>1. PICK u : u \in joined[k]
        BY <3>2
      <4>2. joined[k] = {u}
        BY <1>1, <4>1 DEF IInv, InviteInv
      <4> QED
        BY <4>2, FS_Singleton, SMTT(30)
    <3> QED
      BY <3>1, <3>2
  <2> QED
    BY <2>1, <2>2 DEF InviteOnce
<1> QED
  BY <1>1, IInvHolds, PTL

(* A gate only reads.                                                      *)
LEMMA GatesWriteNothing ==
    ASSUME NEW r \in Requests, BeginMember(r) \/ BeginProject(r)
    PROVE  UNCHANGED dep
<1>1. ASSUME NEW q, Begin(r, q) PROVE UNCHANGED dep
  BY <1>1 DEF Begin, tables
<1>2. CASE BeginMember(r)
  <2>1. PICK by \in users, t \in Teams :
           \/ \E who \in Users, role \in {"admin", "developer"} :
                 BeginUpdateMemberRole(r, by, t, who, role)
           \/ \E who \in Users : BeginRemoveMember(r, by, t, who)
           \/ \E role \in {"member", "admin"} : BeginInvite(r, by, t, role)
           \/ \E tok \in Tokens : BeginAccept(r, by, t, tok)
           \/ BeginCancel(r, by, t)
           \/ BeginDeleteTeam(r, by, t)
           \/ BeginDeleteAccount(r, by)
    BY <1>2, SMTT(30) DEF BeginMember
  <2> QED
    BY <1>1, <2>1 DEF BeginUpdateMemberRole, BeginRemoveMember, BeginInvite, BeginAccept,
       BeginCancel, BeginDeleteTeam, BeginDeleteAccount
<1>3. CASE BeginProject(r)
  <2>1. PICK by \in users, p \in Projects :
           \/ \E t \in Teams : BeginCreateProject(r, by, t, p) \/ BeginTransfer(r, by, p, t)
           \/ \E who \in Users, role \in {"viewer", "admin"} : BeginGrant(r, by, p, who, role)
           \/ \E who \in Users : BeginRevoke(r, by, p, who)
           \/ BeginCreateDeployment(r, by, p)
           \/ BeginDeleteProject(r, by, p)
    BY <1>3 DEF BeginProject, BeginUpdateProjectMemberRole
  <2> QED
    BY <1>1, <2>1 DEF BeginCreateProject, BeginTransfer, BeginGrant, BeginRevoke,
       BeginCreateDeployment, BeginDeleteProject
<1> QED
  BY <1>2, <1>3

(* The steps that can erase the row of a running deployment.               *)
LEMMA ErasingSteps ==
    ASSUME IInv, [Next]_vars, NEW d \in Deployments, dep[d].status = "running",
           dep'[d].status = "gone"
    PROVE  \E r \in Requests : CascadeTeam(r) \/ EraseProject(r)
<1>1. dep'[d] # dep[d]
  OBVIOUS
<1>2. ASSUME NEW r \in Requests, BeginMember(r) \/ BeginProject(r) PROVE FALSE
  BY <1>1, <1>2, GatesWriteNothing, SMTT(30)
<1>3. ASSUME NEW r \in Requests,
             \/ LockForRole(r) \/ LockForRemove(r) \/ CountAdmins(r)
             \/ UpdateMemberRole(r) \/ RemoveMember(r)
             \/ CountDeployments(r) \/ EraseTeam(r) \/ CheckOrphans(r) \/ CheckCreator(r)
             \/ EraseAccount(r) \/ JoinTeam(r)
             \/ InviteMember(r) \/ CancelInvite(r) \/ LockInvite(r)
             \/ CreateProject(r) \/ CheckDestination(r) \/ TransferProject(r)
             \/ CheckTeamMember(r) \/ AddProjectMember(r) \/ RemoveProjectMember(r)
             \/ ListDeployments(r) \/ DestroyContainers(r) \/ DeadlockVictim(r)
      PROVE  FALSE
  BY <1>1, <1>3 DEF LockForRole, LockForRemove, CountAdmins, CountDeployments, EraseTeam,
     UpdateMemberRole, RemoveMember, WriteMember, EraseAccount, JoinTeam,
     CheckOrphans, CheckCreator, InviteMember, CancelInvite, LockInvite, CreateProject,
     CheckDestination, TransferProject, CheckTeamMember, AddProjectMember,
     RemoveProjectMember, ListDeployments, DestroyContainers, DeadlockVictim, tables
<1>4. ASSUME NEW r \in Requests, NEW e \in Deployments, InsertDeployment(r, e) PROVE FALSE
  <2>1. /\ dep[e].status = "none"
        /\ dep' \in {dep, [dep EXCEPT ![e] = [project |-> req[r].p,
                                              status |-> "provisioning"]]}
    BY <1>4 DEF InsertDeployment, NoRow
  <2> QED
    BY <1>1, <2>1, TablesTyped
<1>5. ASSUME NEW e \in Deployments, Provisioned(e) PROVE FALSE
  <2>1. dep[e].status = "provisioning" /\ dep' = [dep EXCEPT ![e].status = "running"]
    BY <1>5 DEF Provisioned
  <2> QED
    BY <1>1, <2>1, TablesTyped
<1>6. ASSUME \/ \E u \in Users, t \in Teams : CreateTeam(u, t)
             \/ UNCHANGED vars
      PROVE  FALSE
  BY <1>1, <1>6 DEF CreateTeam, vars, tables
<1> QED
  BY <1>2, <1>3, <1>4, <1>5, <1>6 DEF Next, Step

(* deleteProject and deleteTeam never erase the row of a deployment they   *)
(* saw running while its container is still on the host, whatever is       *)
(* created, provisioned and torn down meanwhile.                           *)
THEOREM TornDownFirst == Spec => TornDownBeforeErased
<1>1. ASSUME IInv, [Next]_vars, NEW d \in Deployments, dep[d].status = "running",
             dep'[d].status = "gone", NEW r \in Requests, req[r] # req'[r],
             d \in req[r].seen
      PROVE  d \notin cont
  <2>1. PICK x \in Requests : CascadeTeam(x) \/ EraseProject(x)
    BY <1>1, ErasingSteps
  <2>2. End(x) /\ req \in [Requests -> ReqRecs]
    BY <1>1, <2>1 DEF CascadeTeam, EraseProject, IInv, ReqInv
  <2>3. r = x
    BY <1>1, <2>2 DEF End
  <2>4. Shape(req[r]) /\ Facts(req[r])
    BY <1>1 DEF IInv, ReqInv
  <2>5. CASE CascadeTeam(x)
    BY <1>1, <2>3, <2>4, <2>5 DEF CascadeTeam, At, Shape
  <2>6. CASE EraseProject(x)
    BY <1>1, <2>3, <2>4, <2>6 DEF EraseProject, At, Facts
  <2> QED
    BY <2>1, <2>5, <2>6
<1>2. IInv /\ [Next]_vars =>
        [\A d \in Deployments :
            dep[d].status = "running" /\ dep'[d].status = "gone"
              => \A r \in Requests :
                    req[r] # req'[r] /\ d \in req[r].seen => d \notin cont]_vars
  BY <1>1
<1> QED
  BY <1>2, IInvHolds, PTL DEF Spec, TornDownBeforeErased

----------------------------------------------------------------------------
(* The paged lists.                                                        *)

(* The rows a cursor has yet to show.                                      *)
Ahead(i) == pos[i] # Nil /\ After(i, walk.given, walk.cursor)

WalkInv ==
    /\ walk.base \subseteq vis
    /\ walk.at \in {"resolve", "query"} => walk.cursor \in Rows
    /\ walk.at = "idle" => walk.base = {} /\ ~walk.jumped
    /\ ~walk.jumped =>
         /\ \A i \in Rows : walk.got[i] <= 1
         /\ walk.at = "idle" => \A i \in Rows : walk.got[i] = 0
         /\ walk.at = "query" => walk.read = walk.given
         /\ walk.at \in {"resolve", "query"} =>
              /\ \A i \in Rows : Ahead(i) => walk.got[i] = 0
              /\ \A i \in walk.base : Ahead(i) \/ walk.got[i] = 1
         /\ walk.at = "done" => \A i \in walk.base : walk.got[i] = 1

ListInv == ListTypeOK /\ WalkInv

(* created_at of a row that exists.                                        *)
LEMMA RowTimes ==
    ASSUME ListTypeOK
    PROVE  /\ \A i \in Rows : pos[i] # Nil => pos[i] \in Nat
           /\ \A i \in vis : i \in Rows /\ pos[i] \in Nat
           /\ walk.given \in Nat /\ Rows \subseteq Nat
  BY ListingAssumption DEF ListTypeOK

(* The order of a list is total on the rows that exist, and a cursor takes *)
(* up where that order left off: what comes after a row c is what c        *)
(* precedes.                                                               *)
LEMMA CursorOrder ==
    ASSUME ListTypeOK, NEW i \in Rows, NEW c \in Rows, pos[i] # Nil, pos[c] # Nil
    PROVE  /\ After(i, pos[c], c) <=> Precedes(c, i)
           /\ ~(Precedes(i, c) /\ Precedes(c, i))
           /\ ~Precedes(c, c)
  BY RowTimes DEF After, Precedes

(* What comes after a row that comes after the cursor comes after the      *)
(* cursor.                                                                 *)
LEMMA CursorAdvances ==
    ASSUME ListTypeOK, NEW i \in Rows, NEW c \in Rows, pos[i] # Nil, pos[c] # Nil,
           NEW at \in Nat, NEW id \in Nat, After(c, at, id), After(i, pos[c], c)
    PROVE  After(i, at, id)
  BY RowTimes DEF After

Walks ==
    [at : {"idle", "resolve", "query", "done", "refused"},
     limit : Asked, cursor : Rows \cup {Nil}, given : 0 .. MaxTime,
     read : 0 .. MaxTime, got : [Rows -> Nat],
     base : SUBSET Rows, jumped : BOOLEAN]

(* What page adds to a walk w over rows: each row of it was shown once     *)
(* more, and either these were all the rows or the last of them is the new *)
(* cursor.                                                                 *)
Shows(page, rows, w) ==
    /\ \A i \in page, j \in rows \ page : Precedes(i, j)
    /\ \A i \in Rows : walk'.got[i] = IF i \in page THEN w.got[i] + 1 ELSE w.got[i]
    /\ \/ page = rows /\ walk'.at = "done"
       \/ /\ walk'.at = "resolve"
          /\ \E c \in page : /\ IsLast(c, page)
                             /\ walk'.cursor = c
                             /\ walk'.given = pos[c]

(* A walk after a page keeps its kind, and some page of rows was shown.    *)
LEMMA FetchPage ==
    ASSUME ListTypeOK, NEW rows \in SUBSET vis, NEW w \in Walks, Fetch(rows, w)
    PROVE  /\ walk' \in Walks
           /\ walk'.base = w.base /\ walk'.jumped = w.jumped
           /\ \E page \in SUBSET rows : Shows(page, rows, w)
<1> DEFINE G(page) == [i \in Rows |-> IF i \in page THEN w.got[i] + 1 ELSE w.got[i]]
<1>1. PICK page \in SUBSET rows :
        /\ IsPage(page, rows, PageSize(w.limit))
        /\ IF page = rows
           THEN walk' = [[w EXCEPT !.got = G(page)] EXCEPT !.at = "done"]
           ELSE \E c \in page : IsLast(c, page)
                  /\ walk' = [[w EXCEPT !.got = G(page)] EXCEPT
                                !.at = "resolve", !.cursor = c, !.given = pos[c]]
  BY DEF Fetch
<1>2. \A c \in page : c \in Rows /\ pos[c] \in 0 .. MaxTime
  BY DEF ListTypeOK
<1>3. G(page) \in [Rows -> Nat]
  BY DEF Walks
<1>4. \A i \in Rows : G(page)[i] = IF i \in page THEN w.got[i] + 1 ELSE w.got[i]
  OBVIOUS
<1>5. \A i \in page, j \in rows \ page : Precedes(i, j)
  BY <1>1 DEF IsPage
<1> HIDE DEF G
<1>6. CASE page = rows
  <2>1. walk' = [[w EXCEPT !.got = G(page)] EXCEPT !.at = "done"]
    BY <1>1, <1>6
  <2>2. /\ walk' \in Walks /\ walk'.base = w.base /\ walk'.jumped = w.jumped
        /\ walk'.got = G(page) /\ walk'.at = "done"
    BY <2>1, <1>3 DEF Walks
  <2> QED
    BY <2>2, <1>4, <1>5, <1>6 DEF Shows
<1>7. CASE page # rows
  <2>1. PICK c \in page :
          /\ IsLast(c, page)
          /\ walk' = [[w EXCEPT !.got = G(page)] EXCEPT
                        !.at = "resolve", !.cursor = c, !.given = pos[c]]
    BY <1>1, <1>7
  <2>2. /\ walk' \in Walks /\ walk'.base = w.base /\ walk'.jumped = w.jumped
        /\ walk'.got = G(page) /\ walk'.at = "resolve"
        /\ walk'.cursor = c /\ walk'.given = pos[c]
    BY <2>1, <1>2, <1>3 DEF Walks
  <2> QED
    BY <2>1, <2>2, <1>4, <1>5 DEF Shows
<1> QED
  BY <1>6, <1>7

(* The walk's first page.                                                  *)
LEMMA FirstPageStep == ASSUME ListInv, FirstPage PROVE ListInv'
<1> DEFINE w == [walk EXCEPT !.base = vis]
<1>1. w \in Walks /\ w.base = vis /\ w.jumped = walk.jumped /\ w.got = walk.got
  BY DEF ListInv, ListTypeOK, Walks
<1>2. Fetch(vis, w)
  BY DEF FirstPage
<1>3. /\ UNCHANGED <<kind, clock, pos, vis, open, changes>>
      /\ walk.at = "idle" /\ ~walk.jumped /\ \A i \in Rows : walk.got[i] = 0
  BY DEF FirstPage, Fetch, ListInv, WalkInv
<1> HIDE DEF w
<1>4. /\ walk' \in Walks
      /\ walk'.base = vis /\ ~walk'.jumped
  BY <1>1, <1>2, <1>3, FetchPage DEF ListInv
<1>5. PICK page \in SUBSET vis : Shows(page, vis, w)
  BY <1>1, <1>2, FetchPage DEF ListInv
<1>6. \A i \in Rows : walk'.got[i] = IF i \in page THEN 1 ELSE 0
  BY <1>1, <1>3, <1>5 DEF Shows
<1>7. ListTypeOK'
  BY <1>3, <1>4 DEF ListInv, ListTypeOK, Walks
<1>8. WalkInv'
  <2>1. CASE walk'.at = "done"
    <3>1. page = vis
      BY <1>5, <2>1 DEF Shows
    <3>2. vis \subseteq Rows
      BY DEF ListInv, ListTypeOK
    <3> QED
      BY <2>1, <3>1, <3>2, <1>3, <1>4, <1>6 DEF WalkInv
  <2>2. CASE walk'.at = "resolve"
    <3>1. PICK c \in page :
            IsLast(c, page) /\ walk'.cursor = c /\ walk'.given = pos[c]
      BY <1>5, <2>2 DEF Shows
    <3>2. c \in Rows /\ pos[c] # Nil /\ vis \subseteq Rows
          /\ \A i \in vis : pos[i] # Nil
      BY DEF ListInv, ListTypeOK
    <3>3. \A i \in Rows : Ahead(i)' <=> pos[i] # Nil /\ After(i, pos[c], c)
      BY <1>3, <3>1 DEF Ahead, After
    <3>4. \A i \in Rows : Ahead(i)' => i \notin page
      BY <3>1, <3>2, <3>3, CursorOrder DEF IsLast, ListInv
    <3>5. \A i \in vis \ page : Ahead(i)'
      BY <1>5, <3>2, <3>3, CursorOrder DEF ListInv, Shows
    <3> QED
      BY <2>2, <3>1, <3>2, <3>4, <3>5, <1>3, <1>4, <1>6 DEF WalkInv
  <2> QED
    BY <1>5, <2>1, <2>2 DEF Shows
<1> QED
  BY <1>7, <1>8 DEF ListInv

(* A later page, read from the cursor that was resolved.                   *)
LEMMA NextPageStep == ASSUME ListInv, NextPage PROVE ListInv'
<1> DEFINE rows == {i \in vis : After(i, walk.read, walk.cursor)}
<1>1. walk \in Walks /\ rows \in SUBSET vis /\ Fetch(rows, walk)
  BY DEF ListInv, ListTypeOK, Walks, NextPage
<1>2. UNCHANGED <<kind, clock, pos, vis, open, changes>> /\ walk.at = "query"
  BY DEF NextPage, Fetch
<1> HIDE DEF rows
<1>3. /\ walk' \in Walks
      /\ walk'.base = walk.base /\ walk'.jumped = walk.jumped
      /\ walk'.at \in {"done", "resolve"}
  BY <1>1, FetchPage DEF ListInv, Shows
<1>4. PICK page \in SUBSET rows : Shows(page, rows, walk)
  BY <1>1, FetchPage DEF ListInv
<1>5. /\ vis \subseteq Rows /\ walk.base \subseteq vis /\ rows \subseteq vis
      /\ \A i \in vis : pos[i] # Nil
  BY <1>1 DEF ListInv, ListTypeOK, WalkInv
<1>6. ListTypeOK'
  BY <1>2, <1>3 DEF ListInv, ListTypeOK, Walks
<1>7. walk'.at = "resolve" => walk'.cursor \in Rows
  BY <1>4, <1>5 DEF Shows
<1>8. CASE walk.jumped
  BY <1>2, <1>3, <1>5, <1>6, <1>7, <1>8 DEF ListInv, WalkInv
<1>9. CASE ~walk.jumped
  <2>1. /\ walk.read = walk.given /\ walk.cursor \in Rows
        /\ \A i \in Rows : Ahead(i) => walk.got[i] = 0
        /\ \A i \in walk.base : Ahead(i) \/ walk.got[i] = 1
        /\ \A i \in Rows : walk.got[i] <= 1 /\ walk.got[i] \in Nat
    BY <1>2, <1>9 DEF ListInv, WalkInv, ListTypeOK
  <2>2. \A i \in vis : i \in rows <=> Ahead(i)
    BY <1>5, <2>1 DEF Ahead, rows
  <2>3. \A i \in Rows : walk'.got[i] = IF i \in page THEN 1 ELSE walk.got[i]
    BY <1>4, <1>5, <2>1, <2>2 DEF Shows
  <2>4. \A i \in Rows : walk'.got[i] <= 1
    BY <2>1, <2>3
  <2>5. CASE walk'.at = "done"
    <3>1. \A i \in walk.base : walk'.got[i] = 1
      BY <1>4, <1>5, <2>1, <2>2, <2>3, <2>5 DEF Shows
    <3> QED
      BY <1>2, <1>3, <1>5, <1>6, <2>4, <2>5, <3>1 DEF ListInv, WalkInv
  <2>6. CASE walk'.at = "resolve"
    <3>1. PICK c \in page :
            IsLast(c, page) /\ walk'.cursor = c /\ walk'.given = pos[c]
      BY <1>4, <2>6 DEF Shows
    <3>2. c \in rows /\ c \in Rows /\ pos[c] # Nil
      BY <1>5
    <3>3. \A i \in Rows : Ahead(i)' <=> pos[i] # Nil /\ After(i, pos[c], c)
      BY <1>2, <3>1 DEF Ahead, After
    <3>4. \A i \in Rows : Ahead(i)' => i \notin page
      BY <1>5, <3>1, <3>2, <3>3, CursorOrder DEF IsLast, ListInv
    <3>5. \A i \in Rows : Ahead(i)' => Ahead(i)
      BY <1>5, <2>1, <2>2, <3>2, <3>3, RowTimes, CursorAdvances DEF Ahead, ListInv
    <3>6. \A i \in rows \ page : Ahead(i)'
      BY <1>4, <1>5, <3>2, <3>3, CursorOrder DEF ListInv, Shows
    <3>7. \A i \in Rows : Ahead(i)' => walk'.got[i] = 0
      BY <2>1, <2>3, <3>4, <3>5
    <3>8. \A i \in walk'.base : Ahead(i)' \/ walk'.got[i] = 1
      BY <1>3, <1>5, <2>1, <2>2, <2>3, <3>6
    <3> QED
      BY <1>2, <1>3, <1>5, <1>6, <1>7, <2>4, <2>6, <3>7, <3>8 DEF ListInv, WalkInv
  <2> QED
    BY <1>3, <2>5, <2>6
<1> QED
  BY <1>8, <1>9

(* A cursor is looked up again: it holds, it jumped, or it is refused.     *)
LEMMA ResolveStep == ASSUME ListInv, ResolveCursor PROVE ListInv'
<1> USE DEF ResolveCursor, ListInv
<1>1. walk \in Walks /\ UNCHANGED <<kind, clock, pos, vis, open, changes>>
      /\ walk.at = "resolve" /\ walk.cursor \in Rows
  BY DEF ListTypeOK, Walks, WalkInv
<1>2. CASE Finds(walk.cursor)
  <2>1. pos[walk.cursor] \in 0 .. MaxTime
    BY <1>1, <1>2 DEF Finds, ListTypeOK
  <2>2. /\ walk' \in Walks /\ walk'.at = "query" /\ walk'.read = pos[walk.cursor]
        /\ walk'.jumped = (walk.jumped \/ pos[walk.cursor] # walk.given)
        /\ walk'.cursor = walk.cursor /\ walk'.given = walk.given
        /\ walk'.got = walk.got /\ walk'.base = walk.base
    BY <1>1, <1>2, <2>1 DEF Walks
  <2>3. \A i \in Rows : Ahead(i)' = Ahead(i)
    BY <1>1, <2>2 DEF Ahead, After
  <2>4. ListTypeOK'
    BY <1>1, <2>2 DEF ListTypeOK, Walks
  <2>5. vis \subseteq Rows /\ walk.base \subseteq vis
    BY DEF ListTypeOK, WalkInv
  <2> QED
    BY <1>1, <2>2, <2>3, <2>4, <2>5 DEF WalkInv
<1>3. CASE ~Finds(walk.cursor)
  <2>1. /\ walk' \in Walks /\ walk'.at = "refused"
        /\ walk'.jumped = walk.jumped
        /\ walk'.got = walk.got /\ walk'.base = walk.base
    BY <1>1, <1>3 DEF Walks
  <2>2. ListTypeOK'
    BY <1>1, <2>1 DEF ListTypeOK, Walks
  <2> QED
    BY <1>1, <2>1, <2>2 DEF WalkInv
<1> QED
  BY <1>2, <1>3

(* An insert commits: the row takes the place its transaction began with,  *)
(* in front of the cursor or behind it, and no walk has seen it.           *)
LEMMA CommitStep ==
    ASSUME ListInv, NEW r \in Rows, CommitInsert(r) PROVE ListInv'
<1> USE DEF CommitInsert, ListInv
<1>1. CASE pos[r] # Nil
  <2>1. ListTypeOK'
    BY <1>1 DEF ListTypeOK
  <2>2. UNCHANGED <<kind, pos, vis, walk>>
    BY <1>1
  <2>3. \A i \in Rows : Ahead(i)' = Ahead(i)
    BY <2>2 DEF Ahead, After
  <2>4. walk.base \subseteq Rows
    BY DEF ListTypeOK
  <2> QED
    BY <2>1, <2>2, <2>3, <2>4 DEF WalkInv
<1>2. CASE pos[r] = Nil
  <2>1. walk \in Walks /\ r \notin vis /\ vis \subseteq Rows
    BY <1>2 DEF ListTypeOK, Walks
  <2>2. /\ walk' \in Walks
        /\ walk'.got = [walk.got EXCEPT ![r] = 0]
        /\ walk'.at = walk.at /\ walk'.base = walk.base /\ walk'.cursor = walk.cursor
        /\ walk'.given = walk.given /\ walk'.read = walk.read
        /\ walk'.jumped = walk.jumped
    <3>1. [walk.got EXCEPT ![r] = 0] \in [Rows -> Nat]
      BY <2>1 DEF Walks
    <3> QED
      BY <1>2, <2>1, <3>1 DEF Walks
  <2>3. /\ vis' = vis \cup {r} /\ UNCHANGED kind
        /\ \A i \in Rows \ {r} : pos'[i] = pos[i] /\ walk'.got[i] = walk.got[i]
        /\ walk'.got[r] = 0
    BY <1>2, <2>1, <2>2 DEF ListTypeOK, Walks
  <2>4. ListTypeOK'
    BY <1>2, <2>2, <2>3 DEF ListTypeOK, Walks
  <2>5. \A i \in Rows \ {r} : Ahead(i)' = Ahead(i)
    BY <2>2, <2>3 DEF Ahead, After
  <2>6. walk.base \subseteq vis /\ r \notin walk.base
    BY <2>1 DEF WalkInv
  <2> QED
    BY <2>1, <2>2, <2>3, <2>4, <2>5, <2>6 DEF WalkInv
<1> QED
  BY <1>1, <1>2

(* A row leaves the list, and what the walk owes it ends with that.        *)
LEMMA HideStep == ASSUME ListInv, NEW r \in Rows, Hide(r) PROVE ListInv'
<1> USE DEF Hide, Change, ListInv
<1>1. walk \in Walks /\ vis \subseteq Rows /\ walk.base \subseteq vis
  BY DEF ListTypeOK, Walks, WalkInv
<1>2. /\ walk' \in Walks
      /\ walk'.base = walk.base \ {r}
      /\ walk'.at = walk.at /\ walk'.got = walk.got /\ walk'.cursor = walk.cursor
      /\ walk'.given = walk.given /\ walk'.read = walk.read
      /\ walk'.jumped = walk.jumped
  BY <1>1 DEF Walks
<1>3. /\ vis' = vis \ {r} /\ UNCHANGED kind
      /\ \A i \in Rows \ {r} : pos'[i] = pos[i]
      /\ pos'[r] \in {Nil, pos[r]}
  BY DEF ListTypeOK
<1>4. ListTypeOK'
  BY <1>2, <1>3, ListingAssumption DEF ListTypeOK, Walks
<1>5. /\ \A i \in Rows \ {r} : Ahead(i)' = Ahead(i)
      /\ Ahead(r)' => Ahead(r)
  BY <1>2, <1>3 DEF Ahead, After
<1> QED
  BY <1>1, <1>2, <1>3, <1>4, <1>5 DEF WalkInv

(* The other steps leave the walk and the rows' places alone.              *)
LEMMA OtherSteps ==
    ASSUME ListInv,
           \/ \E i \in Rows : BeginInsert(i) \/ Return(i)
           \/ Tick
           \/ UNCHANGED listVars
    PROVE  ListInv'
<1> USE DEF ListInv
<1>1. UNCHANGED <<kind, pos, walk>> /\ vis \subseteq vis'
  BY DEF BeginInsert, Return, Tick, listVars
<1>2. ListTypeOK'
  <2>1. ASSUME NEW i \in Rows, BeginInsert(i) PROVE ListTypeOK'
    BY <2>1, ListingAssumption DEF ListTypeOK, BeginInsert, Change
  <2>2. ASSUME NEW i \in Rows, Return(i) PROVE ListTypeOK'
    BY <2>2, ListingAssumption DEF ListTypeOK, Return, Change
  <2>3. CASE Tick
    BY <2>3, ListingAssumption DEF ListTypeOK, Tick
  <2>4. CASE UNCHANGED listVars
    BY <2>4 DEF ListTypeOK, listVars
  <2> QED
    BY <2>1, <2>2, <2>3, <2>4
<1>3. \A i \in Rows : Ahead(i)' = Ahead(i)
  BY <1>1 DEF Ahead, After
<1>4. walk.base \subseteq Rows
  BY DEF ListTypeOK
<1> QED
  BY <1>1, <1>2, <1>3, <1>4 DEF WalkInv

(* A walk starts with nothing shown and nothing owed.                      *)
LEMMA InitListInv == ListInit => ListInv
<1> SUFFICES ASSUME ListInit PROVE ListInv
  OBVIOUS
<1>1. PICK n \in Asked : walk = NoWalk(n)
  BY DEF ListInit
<1>2. walk \in Walks
  BY <1>1, ListingAssumption DEF NoWalk, Walks
<1>3. ListTypeOK
  BY <1>2, ListingAssumption DEF ListInit, ListTypeOK, Walks
<1> QED
  BY <1>1, <1>3 DEF ListInv, WalkInv, NoWalk

LEMMA NextListInv == ListInv /\ [ListNext]_listVars => ListInv'
  BY FirstPageStep, NextPageStep, ResolveStep, CommitStep, HideStep, OtherSteps
     DEF ListNext, WalkStep

(* No walk over a paged list shows a row twice, and one that reaches the   *)
(* last page has shown every row that was there all along, unless the row  *)
(* its cursor names was replaced: for every list, number of rows, page     *)
(* size and history of inserts, removals and returns (listProjects,        *)
(* listMembers, listAuditEvents and the others).                           *)
THEOREM WalksShowEveryRowOnce == ListSpec => []EveryRowOnce
<1>1. ListInv => EveryRowOnce
  BY DEF ListInv, WalkInv, EveryRowOnce
<1> QED
  BY <1>1, InitListInv, NextListInv, PTL DEF ListSpec
=============================================================================
