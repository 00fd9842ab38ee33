------------------------------ MODULE Accounts ------------------------------
(***************************************************************************)
(* Accounts, sessions and password resets (internal/api/auth.go,           *)
(* internal/auth/jwt.go).  Requests read first and answer later; a reset   *)
(* is one transaction whose effects show at its commit, and Postgres'      *)
(* now() is the time that transaction began.  JWTs carry whole seconds.    *)
(*                                                                         *)
(* A password is its version.  Access JWTs expire by themselves and are    *)
(* left out; so are e-mail delivery and audit rows.                        *)
(***************************************************************************)
EXTENDS Naturals, FiniteSets

CONSTANTS
    Emails,      \* accounts, by their unique e-mail
    Links,       \* reset tokens
    Requests,    \* concurrent request slots
    MaxActive,   \* maxActiveResetTokens
    LinkTTL,     \* resetTokenTTL, in ticks
    Second,      \* ticks per second
    MaxTime,     \* bound: the clock
    MaxStarts,   \* bound: requests started
    None         \* no row

ASSUME AccountsAssumption ==
    /\ MaxActive \in Nat \ {0} /\ LinkTTL \in Nat \ {0} /\ Second \in Nat \ {0}
    /\ MaxTime \in Nat /\ MaxStarts \in Nat
    /\ None \notin Emails \cup Links

VARIABLES
    now,       \* the clock
    user,      \* users: there, instance admin, password, password_changed_at
    link,      \* password_reset_tokens
    sess,      \* refresh tokens in circulation
    req,       \* requests under way
    uses,      \* history: password changes made with a link
    dead,      \* history: links a committed reset should have ended
    starts

vars == <<now, user, link, sess, req, uses, dead, starts>>

NoUser == [there |-> FALSE, admin |-> FALSE, pw |-> 0, changed |-> None]
NoLink == [of |-> None, state |-> "none", exp |-> 0]
Idle == [op |-> "none", pc |-> "idle", u |-> None, k |-> None, first |-> FALSE,
         began |-> 0, pw |-> 0, raced |-> FALSE, others |-> {}, del |-> {}]

TypeOK ==
    /\ now \in 0 .. MaxTime
    /\ \A u \in Emails : /\ user[u].there \in BOOLEAN /\ user[u].pw \in Nat
                         /\ user[u].changed \in {None} \cup 0 .. MaxTime
    /\ \A k \in Links : /\ link[k].state \in {"none", "open", "used", "gone"}
                        /\ link[k].of \in Emails \cup {None}
                        /\ link[k].state = "open" => user[link[k].of].there
    /\ \A s \in sess : s.u \in Emails /\ s.iat \in Nat /\ s.pw \in Nat
    /\ uses \in [Links -> Nat] /\ dead \subseteq Links
    /\ starts \in 0 .. MaxStarts

Init ==
    /\ now = 0
    /\ user = [u \in Emails |-> NoUser]
    /\ link = [k \in Links |-> NoLink]
    /\ sess = {}
    /\ req = [r \in Requests |-> Idle]
    /\ uses = [k \in Links |-> 0]
    /\ dead = {}
    /\ starts = 0

----------------------------------------------------------------------------
At(r, op, label) == req[r].op = op /\ req[r].pc = label
Goto(r, label) == req' = [req EXCEPT ![r].pc = label]
End(r) == req' = [req EXCEPT ![r] = Idle]
Tables == <<user, link, sess, uses, dead>>

Begin(r, q) ==
    /\ req[r] = Idle /\ starts < MaxStarts
    /\ req' = [req EXCEPT ![r] = q]
    /\ starts' = starts + 1
    /\ UNCHANGED <<now, Tables>>

(* jwt.NewNumericDate and Truncate(time.Second).                           *)
Truncate(t) == t \div Second

(* respondTokenPair: iat is the second of the answer.                      *)
Issue(u, pw, raced) ==
    sess' = sess \cup {[u |-> u, iat |-> Truncate(now), pw |-> pw, raced |-> raced]}

----------------------------------------------------------------------------
(* register, under pg_advisory_xact_lock.                                  *)
BeginRegister(r, u) == Begin(r, [Idle EXCEPT !.op = "register", !.pc = "lock", !.u = u])

(* Mutant: first-user promotion is not serialised.                         *)
LockFirstAdminNot(r) ==
    /\ At(r, "register", "lock")
    /\ Goto(r, "insert")
    /\ UNCHANGED <<now, Tables, starts>>

LockFirstAdmin(r) ==
    /\ At(r, "register", "lock")
    /\ \A x \in Requests : ~At(x, "register", "insert") /\ ~At(x, "register", "commit")
    /\ Goto(r, "insert")
    /\ UNCHANGED <<now, Tables, starts>>

(* INSERT ... NOT EXISTS (SELECT 1 FROM users), over committed rows.       *)
InsertUser(r) ==
    /\ At(r, "register", "insert")
    /\ IF user[req[r].u].there THEN End(r)
       ELSE req' = [req EXCEPT ![r].pc = "commit",
                               ![r].first = \A u \in Emails : ~user[u].there]
    /\ UNCHANGED <<now, Tables, starts>>

CommitUser(r) ==
    LET u == req[r].u IN
    /\ At(r, "register", "commit")
    /\ IF user[u].there THEN UNCHANGED <<user, sess>>
       ELSE /\ user' = [user EXCEPT ![u] = [there |-> TRUE, admin |-> req[r].first,
                                            pw |-> user[u].pw + 1, changed |-> None]]
            /\ Issue(u, user[u].pw + 1, FALSE)
    /\ End(r)
    /\ UNCHANGED <<now, link, uses, dead, starts>>

----------------------------------------------------------------------------
(* login reads the row and verifies the password against it ...            *)
BeginLogin(r, u) ==
    /\ user[u].there
    /\ Begin(r, [Idle EXCEPT !.op = "login", !.pc = "answer", !.u = u,
                             !.pw = user[u].pw])

(* Mutant: the change timestamp is not truncated.                          *)
AcceptsUntruncated(s) ==
    /\ user[s.u].there
    /\ user[s.u].changed # None => s.iat * Second >= user[s.u].changed

(* refresh refuses tokens issued before the last password change.          *)
Accepts(s) ==
    /\ user[s.u].there
    /\ user[s.u].changed # None => s.iat >= Truncate(user[s.u].changed)

(* refresh reads the row and checks the token's iat ...                    *)
BeginRefresh(r, s) ==
    /\ Accepts(s)
    /\ Begin(r, [Idle EXCEPT !.op = "refresh", !.pc = "answer", !.u = s.u,
                             !.pw = s.pw, !.raced = s.raced])

(* ... and both answer with a pair issued then.                            *)
RespondTokenPair(r) ==
    /\ req[r].pc = "answer"
    /\ Issue(req[r].u, req[r].pw, req[r].raced)
    /\ End(r)
    /\ UNCHANGED <<now, user, link, uses, dead, starts>>

----------------------------------------------------------------------------
Live(k) == link[k].state = "open" /\ now < link[k].exp
Active(u) == {k \in Links : link[k].of = u /\ Live(k)}

AtCap(u) == Cardinality(Active(u)) >= MaxActive

(* forgotPassword counts the account's outstanding links ...               *)
BeginForgot(r, u) ==
    /\ user[u].there /\ ~AtCap(u)
    /\ Begin(r, [Idle EXCEPT !.op = "forgot", !.pc = "insert", !.u = u])

(* ... and inserts another; its foreign key wants the account's row.       *)
InsertLink(r, k) ==
    LET u == req[r].u IN
    /\ At(r, "forgot", "insert") /\ link[k] = NoLink
    /\ link' = IF user[u].there
               THEN [link EXCEPT ![k] = [of |-> u, state |-> "open",
                                         exp |-> now + LinkTTL]]
               ELSE link
    /\ End(r)
    /\ UNCHANGED <<now, user, sess, uses, dead, starts>>

----------------------------------------------------------------------------
(* resetPassword's transaction: the locks it holds at each label.          *)
HoldsLink(r, k) ==
    /\ req[r].op = "reset" /\ (req[r].k = k \/ k \in req[r].del)
    /\ req[r].pc \in {"update", "siblings", "commit"}
HoldsUser(r, u) ==
    /\ req[r].op = "reset" /\ req[r].u = u
    /\ req[r].pc \in {"siblings", "commit"}
LinkFree(r, k) == \A x \in Requests \ {r} : ~HoldsLink(x, k)
UserFree(r, u) == \A x \in Requests \ {r} : ~HoldsUser(x, u)

BeginReset(r, k) ==
    /\ link[k].state # "none"
    /\ Begin(r, [Idle EXCEPT !.op = "reset", !.pc = "lock", !.k = k, !.began = now])

(* SELECT ... used_at IS NULL AND expires_at > now() FOR UPDATE; others is *)
(* history: the account's other links at this point.                       *)
LockLink(r) ==
    LET k == req[r].k IN
    /\ At(r, "reset", "lock") /\ LinkFree(r, k)
    /\ IF ~(link[k].state = "open" /\ req[r].began < link[k].exp) THEN End(r)
       ELSE req' = [req EXCEPT ![r].pc = "update", ![r].u = link[k].of,
                               ![r].others = Active(link[k].of) \ {k}]
    /\ UNCHANGED <<now, Tables, starts>>

(* UPDATE users locks the account's row.                                   *)
UpdatePassword(r) ==
    /\ At(r, "reset", "update") /\ UserFree(r, req[r].u)
    /\ Goto(r, "siblings")
    /\ UNCHANGED <<now, Tables, starts>>

(* Mutant: the other links are left alone.                                 *)
DeleteSiblingsNot(r) ==
    /\ At(r, "reset", "siblings")
    /\ Goto(r, "commit")
    /\ UNCHANGED <<now, Tables, starts>>

(* DELETE ... used_at IS NULL waits for links other resets hold.  Rows     *)
(* that appear after it stay.                                              *)
DeleteSiblings(r) ==
    LET siblings == {k \in Links \ {req[r].k} :
                       link[k].of = req[r].u /\ link[k].state = "open"} IN
    /\ At(r, "reset", "siblings")
    /\ \A k \in siblings : LinkFree(r, k)
    /\ req' = [req EXCEPT ![r].pc = "commit", ![r].del = siblings]
    /\ UNCHANGED <<now, Tables, starts>>

(* The commit.  A request that overlaps the reset, and a session issued    *)
(* since it began, are marked: the code lets those through.                *)
CommitReset(r) ==
    LET q == req[r] IN
    /\ At(r, "reset", "commit")
    /\ user' = [user EXCEPT ![q.u].pw = @ + 1, ![q.u].changed = q.began]
    /\ link' = [k \in Links |->
                  CASE k = q.k -> [link[k] EXCEPT !.state = "used"]
                    [] k \in q.del -> [link[k] EXCEPT !.state = "gone"]
                    [] k \notin q.del \cup {q.k} -> link[k]]
    /\ uses' = [uses EXCEPT ![q.k] = @ + 1]
    /\ dead' = dead \cup q.others \cup {q.k}
    /\ sess' = {IF s.u = q.u THEN [s EXCEPT !.raced = s.iat >= Truncate(q.began)]
                ELSE s : s \in sess}
    /\ req' = [x \in Requests |->
                 CASE x = r -> Idle
                   [] x # r /\ req[x].u = q.u -> [req[x] EXCEPT !.raced = TRUE]
                   [] x # r /\ req[x].u # q.u -> req[x]]
    /\ UNCHANGED <<now, starts>>

(* Two resets with sibling links wait for each other; Postgres aborts one. *)
DeadlockVictim(r) ==
    /\ \E x, y \in Requests :
          /\ At(x, "reset", "siblings") /\ At(y, "reset", "update")
          /\ x # y /\ req[x].u = req[y].u
          /\ r \in {x, y}
    /\ End(r)
    /\ UNCHANGED <<now, Tables, starts>>

(* deleteAccount: the row and, by cascade, its links.                      *)
DeleteAccount(u) ==
    /\ user[u].there
    /\ \A r \in Requests : ~HoldsUser(r, u)
    /\ \A r \in Requests, k \in Links : link[k].of = u => ~HoldsLink(r, k)
    /\ user' = [user EXCEPT ![u] = [NoUser EXCEPT !.pw = user[u].pw]]
    /\ link' = [k \in Links |-> IF link[k].of = u
                                THEN [link[k] EXCEPT !.state = "gone"] ELSE link[k]]
    /\ UNCHANGED <<now, sess, req, uses, dead, starts>>

Tick ==
    /\ now < MaxTime
    /\ now' = now + 1
    /\ UNCHANGED <<Tables, req, starts>>

----------------------------------------------------------------------------
Next ==
    \/ \E r \in Requests :
          \/ \E u \in Emails : BeginRegister(r, u) \/ BeginLogin(r, u) \/ BeginForgot(r, u)
          \/ \E s \in sess : BeginRefresh(r, s)
          \/ \E k \in Links : BeginReset(r, k) \/ InsertLink(r, k)
          \/ LockFirstAdmin(r) \/ InsertUser(r) \/ CommitUser(r)
          \/ RespondTokenPair(r)
          \/ LockLink(r) \/ UpdatePassword(r) \/ DeleteSiblings(r) \/ CommitReset(r)
          \/ DeadlockVictim(r)
    \/ \E u \in Emails : DeleteAccount(u)
    \/ Tick

Spec == Init /\ [][Next]_vars

----------------------------------------------------------------------------
(* Rows and sessions are well formed, every link belongs to an account,    *)
(* and however many first registrations race, one account is the instance  *)
(* admin (register).                                                       *)
OneInstanceAdmin ==
    /\ TypeOK
    /\ Cardinality({u \in Emails : user[u].admin}) <= 1

(* refresh against resetPassword: a session of the current password is     *)
(* never locked out, not even one opened in the second of the reset, and   *)
(* one of an earlier password is over unless it overlapped the reset.      *)
SessionsFollowPassword ==
    \A s \in sess :
       user[s.u].there =>
          /\ s.pw = user[s.u].pw => Accepts(s)
          /\ Accepts(s) => s.pw = user[s.u].pw \/ s.raced \/ user[s.u].changed = None

(* "never a double consume" and "once one reset lands, older inbox emails  *)
(* must stop working" (resetPassword): neither the link a reset used nor a *)
(* link that was out when it took its token changes a password after it.   *)
LinksEnd ==
    [][\A k \in Links : uses'[k] > uses[k] => k \notin dead]_vars
=============================================================================
