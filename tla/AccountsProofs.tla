--------------------------- MODULE AccountsProofs ---------------------------
(***************************************************************************)
(* TLAPS proofs about Accounts, for every set of accounts, links and       *)
(* requests, every link lifetime and every length of a second.             *)
(*                                                                         *)
(* The properties speak of rows and sessions; what they rest on is what a  *)
(* request between two of its statements may still write.  ReqInv says it  *)
(* of one request and the rows it read, ExclInv of two requests and the    *)
(* locks they hold.                                                        *)
(***************************************************************************)
EXTENDS Accounts, FiniteSetTheorems, TLAPS

UserRows == [there : BOOLEAN, admin : BOOLEAN, pw : Nat,
             changed : {None} \cup 0 .. MaxTime]
LinkRows == [of : Emails \cup {None}, state : {"none", "open", "used", "gone"},
             exp : Nat]
Sessions == [u : Emails, iat : Nat, pw : Nat, raced : BOOLEAN]
ReqRecs ==
    [op : {"none", "register", "login", "refresh", "forgot", "reset"},
     pc : {"idle", "lock", "insert", "commit", "answer", "update", "siblings"},
     u : Emails \cup {None}, k : Links \cup {None}, first : BOOLEAN,
     began : 0 .. MaxTime, pw : Nat, raced : BOOLEAN,
     others : SUBSET Links, del : SUBSET Links]

TypeInv ==
    /\ now \in 0 .. MaxTime
    /\ user \in [Emails -> UserRows]
    /\ link \in [Links -> LinkRows]
    /\ sess \subseteq Sessions
    /\ req \in [Requests -> ReqRecs]
    /\ uses \in [Links -> Nat]
    /\ dead \subseteq Links
    /\ starts \in 0 .. MaxStarts

(* One instance admin, and no change of password after now.                *)
UserInv ==
    /\ \A u \in Emails : user[u].admin => user[u].there
    /\ \A u, v \in Emails : user[u].admin /\ user[v].admin => u = v
    /\ \A u \in Emails : user[u].changed # None => user[u].changed <= now

(* No session is of a password that is yet to come.                        *)
SessInv ==
    /\ \A s \in sess : s.pw <= user[s.u].pw
    /\ SessionsFollowPassword

(* An open link belongs to an account that is there; a dead one is over.   *)
LinkInv ==
    /\ \A k \in Links : link[k].state = "open" =>
          link[k].of \in Emails /\ user[link[k].of].there
    /\ \A k \in dead : link[k].state \in {"used", "gone"}

(* The first-admin lock, and the link rows a reset has locked.             *)
Registers(q) == q.op = "register" /\ q.pc \in {"insert", "commit"}
PastLock(q) == q.op = "reset" /\ q.pc \in {"update", "siblings", "commit"}
Locks(q, k) == PastLock(q) /\ (q.k = k \/ k \in q.del)

ReqInv(q) ==
    /\ q.op \in {"register", "forgot"} => q.u \in Emails
    /\ q.op = "reset" => q.k \in Links
    /\ q.op = "register" /\ q.pc = "commit" /\ q.first =>
          \A u \in Emails : ~user[u].there
    /\ q.pc = "answer" =>
          /\ q.u \in Emails /\ q.pw <= user[q.u].pw
          /\ user[q.u].changed = None \/ q.raced \/ q.pw = user[q.u].pw
    /\ q.began <= now
    /\ q.pc # "commit" => q.del = {}
    /\ q.k \notin q.del
    /\ PastLock(q) =>
          /\ q.u \in Emails /\ link[q.k].state = "open" /\ link[q.k].of = q.u
          /\ \A k \in q.others :
                link[k].of = q.u /\ link[k].state # "none" /\ k # q.k
          /\ q.pc = "commit" => \A k \in q.others : link[k].state # "open" \/ k \in q.del

ExclInv ==
    \A r, x \in Requests : r # x =>
       /\ ~(Registers(req[r]) /\ Registers(req[x]))
       /\ \A k \in Links : ~(Locks(req[r], k) /\ Locks(req[x], k))

IInv ==
    /\ TypeInv
    /\ UserInv
    /\ SessInv
    /\ LinkInv
    /\ \A r \in Requests : ReqInv(req[r])
    /\ ExclInv

(* A later time is in no earlier second.                                   *)
LEMMA TruncateMonotone ==
    ASSUME NEW s \in Nat, NEW t \in Nat, s <= t
    PROVE  Truncate(s) \in Nat /\ Truncate(s) <= Truncate(t)
  BY AccountsAssumption DEF Truncate

LEMMA IdleInv ==
    ASSUME TypeInv
    PROVE  /\ Idle \in ReqRecs /\ ReqInv(Idle)
           /\ ~Registers(Idle) /\ \A k \in Links : ~Locks(Idle, k)
  BY AccountsAssumption DEF TypeInv, Idle, ReqRecs, ReqInv, Registers, Locks, PastLock

(* A step that only moves one request keeps the invariant when the request *)
(* it leaves is well formed and takes no lock another one holds.           *)
LEMMA RequestMoves ==
    ASSUME IInv, NEW r \in Requests, NEW q \in ReqRecs, ReqInv(q),
           req' = [req EXCEPT ![r] = q],
           UNCHANGED <<now, Tables>>, starts' \in 0 .. MaxStarts,
           \A x \in Requests \ {r} :
              /\ Registers(q) => ~Registers(req[x])
              /\ \A k \in Links : Locks(q, k) => ~Locks(req[x], k)
    PROVE  IInv'
<1> USE DEF IInv, Tables
<1>1. /\ req' \in [Requests -> ReqRecs] /\ req'[r] = q
      /\ \A x \in Requests \ {r} : req'[x] = req[x]
  BY DEF TypeInv
<1>2. TypeInv'
  BY <1>1 DEF TypeInv
<1>3. UserInv' /\ LinkInv'
  BY DEF UserInv, LinkInv
<1>4. SessInv'
  BY DEF SessInv, SessionsFollowPassword, Accepts
<1>5. \A x \in Requests : ReqInv(req[x])'
  BY <1>1 DEF ReqInv
<1>6. ExclInv'
  BY <1>1 DEF ExclInv
<1> QED
  BY <1>2, <1>3, <1>4, <1>5, <1>6

(* A new request, and the end of one.                                      *)
LEMMA BeginMoves ==
    ASSUME IInv, NEW r \in Requests, NEW q \in ReqRecs, ReqInv(q), Begin(r, q),
           ~Registers(q), \A k \in Links : ~Locks(q, k)
    PROVE  IInv'
<1>1. starts' \in 0 .. MaxStarts /\ req' = [req EXCEPT ![r] = q]
      /\ UNCHANGED <<now, Tables>>
  BY AccountsAssumption DEF Begin, IInv, TypeInv
<1> QED
  BY <1>1, RequestMoves

LEMMA EndMoves ==
    ASSUME IInv, NEW r \in Requests, End(r), UNCHANGED <<now, Tables, starts>>
    PROVE  IInv'
<1>1. starts' \in 0 .. MaxStarts /\ req' = [req EXCEPT ![r] = Idle]
  BY DEF End, IInv, TypeInv
<1>2. Idle \in ReqRecs /\ ReqInv(Idle) /\ ~Registers(Idle)
      /\ \A k \in Links : ~Locks(Idle, k)
  BY IdleInv DEF IInv
<1> QED
  BY <1>1, <1>2, RequestMoves

LEMMA BeginSteps ==
    ASSUME IInv, NEW r \in Requests,
           \/ \E u \in Emails : BeginRegister(r, u) \/ BeginLogin(r, u) \/ BeginForgot(r, u)
           \/ \E s \in sess : BeginRefresh(r, s)
           \/ \E k \in Links : BeginReset(r, k)
    PROVE  IInv'
<1>0. now \in 0 .. MaxTime /\ user \in [Emails -> UserRows] /\ Idle \in ReqRecs
  BY IdleInv DEF IInv, TypeInv
<1>1. ASSUME NEW u \in Emails, BeginRegister(r, u) PROVE IInv'
  <2> DEFINE q == [Idle EXCEPT !.op = "register", !.pc = "lock", !.u = u]
  <2>1. /\ q \in ReqRecs /\ q.del = {}
        /\ q.op = "register" /\ q.pc = "lock" /\ q.u = u /\ q.began = 0
    BY <1>0 DEF Idle, ReqRecs
  <2>2. Begin(r, q)
    BY <1>1 DEF BeginRegister
  <2> HIDE DEF q
  <2>3. ReqInv(q)
    BY <1>0, <2>1 DEF ReqInv, PastLock
  <2>4. ~Registers(q) /\ \A k \in Links : ~Locks(q, k)
    BY <2>1 DEF Registers, Locks, PastLock
  <2> QED
    BY <2>1, <2>2, <2>3, <2>4, BeginMoves
<1>2. ASSUME NEW u \in Emails, BeginLogin(r, u) PROVE IInv'
  <2> DEFINE q == [Idle EXCEPT !.op = "login", !.pc = "answer", !.u = u,
                               !.pw = user[u].pw]
  <2>1. /\ q \in ReqRecs /\ q.del = {}
        /\ q.op = "login" /\ q.pc = "answer" /\ q.u = u /\ q.began = 0
        /\ q.pw = user[u].pw
    BY <1>0 DEF Idle, ReqRecs, UserRows
  <2>2. Begin(r, q)
    BY <1>2 DEF BeginLogin
  <2> HIDE DEF q
  <2>3. ReqInv(q)
    BY <1>0, <2>1 DEF ReqInv, PastLock, UserRows
  <2>4. ~Registers(q) /\ \A k \in Links : ~Locks(q, k)
    BY <2>1 DEF Registers, Locks, PastLock
  <2> QED
    BY <2>1, <2>2, <2>3, <2>4, BeginMoves
<1>3. ASSUME NEW u \in Emails, BeginForgot(r, u) PROVE IInv'
  <2> DEFINE q == [Idle EXCEPT !.op = "forgot", !.pc = "insert", !.u = u]
  <2>1. /\ q \in ReqRecs /\ q.del = {}
        /\ q.op = "forgot" /\ q.pc = "insert" /\ q.u = u /\ q.began = 0
    BY <1>0 DEF Idle, ReqRecs
  <2>2. Begin(r, q)
    BY <1>3 DEF BeginForgot
  <2> HIDE DEF q
  <2>3. ReqInv(q)
    BY <1>0, <2>1 DEF ReqInv, PastLock
  <2>4. ~Registers(q) /\ \A k \in Links : ~Locks(q, k)
    BY <2>1 DEF Registers, Locks, PastLock
  <2> QED
    BY <2>1, <2>2, <2>3, <2>4, BeginMoves
<1>4. ASSUME NEW s \in sess, BeginRefresh(r, s) PROVE IInv'
  <2> DEFINE q == [Idle EXCEPT !.op = "refresh", !.pc = "answer", !.u = s.u,
                               !.pw = s.pw, !.raced = s.raced]
  <2>1. /\ s \in Sessions /\ s.u \in Emails /\ s.pw <= user[s.u].pw
        /\ user[s.u].changed = None \/ s.raced \/ s.pw = user[s.u].pw
    BY <1>4 DEF IInv, TypeInv, Sessions, SessInv, SessionsFollowPassword, BeginRefresh,
                Accepts
  <2>2. /\ q \in ReqRecs /\ q.del = {}
        /\ q.op = "refresh" /\ q.pc = "answer" /\ q.u = s.u /\ q.began = 0
        /\ q.pw = s.pw /\ q.raced = s.raced
    BY <1>0, <2>1 DEF Idle, ReqRecs, Sessions
  <2>3. Begin(r, q)
    BY <1>4 DEF BeginRefresh
  <2> HIDE DEF q
  <2>4. ReqInv(q)
    BY <1>0, <2>1, <2>2 DEF ReqInv, PastLock, UserRows
  <2>5. ~Registers(q) /\ \A k \in Links : ~Locks(q, k)
    BY <2>2 DEF Registers, Locks, PastLock
  <2> QED
    BY <2>2, <2>3, <2>4, <2>5, BeginMoves, SMTT(30)
<1>5. ASSUME NEW k \in Links, BeginReset(r, k) PROVE IInv'
  <2> DEFINE q == [Idle EXCEPT !.op = "reset", !.pc = "lock", !.k = k, !.began = now]
  <2>1. /\ q \in ReqRecs /\ q.del = {}
        /\ q.op = "reset" /\ q.pc = "lock" /\ q.k = k /\ q.began = now
    BY <1>0 DEF Idle, ReqRecs
  <2>2. Begin(r, q)
    BY <1>5 DEF BeginReset
  <2> HIDE DEF q
  <2>3. ReqInv(q)
    BY <1>0, <2>1 DEF ReqInv, PastLock
  <2>4. ~Registers(q) /\ \A l \in Links : ~Locks(q, l)
    BY <2>1 DEF Registers, Locks, PastLock
  <2> QED
    BY <2>1, <2>2, <2>3, <2>4, BeginMoves
<1> QED
  BY <1>1, <1>2, <1>3, <1>4, <1>5

(* register: the lock, and the INSERT that reads whether anyone is there.  *)
LEMMA RegisterSteps ==
    ASSUME IInv, NEW r \in Requests, LockFirstAdmin(r) \/ InsertUser(r)
    PROVE  IInv'
<1>1. req[r] \in ReqRecs /\ ReqInv(req[r]) /\ starts \in 0 .. MaxStarts
  BY DEF IInv, TypeInv
<1>2. CASE LockFirstAdmin(r)
  <2> DEFINE q == [req[r] EXCEPT !.pc = "insert"]
  <2>1. req' = [req EXCEPT ![r] = q] /\ UNCHANGED <<now, Tables, starts>>
    BY <1>2 DEF LockFirstAdmin, Goto, IInv, TypeInv
  <2>2. q \in ReqRecs /\ ReqInv(q) /\ \A k \in Links : ~Locks(q, k)
    BY <1>1, <1>2 DEF LockFirstAdmin, At, ReqRecs, ReqInv, Locks, PastLock
  <2>3. \A x \in Requests : ~Registers(req[x])
    BY <1>2 DEF LockFirstAdmin, At, Registers
  <2> QED
    BY <1>1, <2>1, <2>2, <2>3, RequestMoves
<1>3. CASE InsertUser(r)
  <2>1. CASE user[req[r].u].there
    BY <1>3, <2>1, EndMoves DEF InsertUser
  <2>2. CASE ~user[req[r].u].there
    <3> DEFINE f == \A u \in Emails : ~user[u].there
               q == [req[r] EXCEPT !.pc = "commit", !.first = f]
    <3>1. req' = [req EXCEPT ![r] = q] /\ UNCHANGED <<now, Tables, starts>>
      BY <1>3, <2>2 DEF InsertUser, IInv, TypeInv
    <3>2. q \in ReqRecs /\ ReqInv(q) /\ \A k \in Links : ~Locks(q, k)
      <4>1. f \in BOOLEAN /\ (f => \A u \in Emails : ~user[u].there)
        OBVIOUS
      <4> HIDE DEF f
      <4> QED
        BY <1>1, <1>3, <4>1 DEF InsertUser, At, ReqRecs, ReqInv, Locks, PastLock
    <3>3. \A x \in Requests \ {r} : ~Registers(req[x])
      BY <1>3 DEF InsertUser, At, Registers, IInv, ExclInv
    <3> QED
      BY <1>1, <3>1, <3>2, <3>3, RequestMoves
  <2> QED
    BY <2>1, <2>2
<1> QED
  BY <1>2, <1>3

(* resetPassword up to its commit: it takes the link's row, the account's  *)
(* row and the other links' rows, and waits for each.                      *)
LEMMA ResetSteps ==
    ASSUME IInv, NEW r \in Requests,
           LockLink(r) \/ UpdatePassword(r) \/ DeleteSiblings(r) \/ DeadlockVictim(r)
    PROVE  IInv'
<1>1. req[r] \in ReqRecs /\ ReqInv(req[r]) /\ starts \in 0 .. MaxStarts
  BY DEF IInv, TypeInv
<1>2. \A x \in Requests, k \in Links : HoldsLink(x, k) <=> Locks(req[x], k)
  BY DEF HoldsLink, Locks, PastLock
<1>3. CASE LockLink(r)
  <2> DEFINE l == req[r].k
  <2>1. CASE ~(link[l].state = "open" /\ req[r].began < link[l].exp)
    BY <1>3, <2>1, EndMoves DEF LockLink
  <2>2. CASE link[l].state = "open" /\ req[r].began < link[l].exp
    <3> DEFINE q == [req[r] EXCEPT !.pc = "update", !.u = link[l].of,
                                   !.others = Active(link[l].of) \ {l}]
    <3>1. req' = [req EXCEPT ![r] = q] /\ UNCHANGED <<now, Tables, starts>>
      BY <1>3, <2>2 DEF LockLink, IInv, TypeInv
    <3>2. l \in Links /\ req[r].del = {} /\ link[l].of \in Emails /\ req[r].op = "reset"
      BY <1>1, <1>3, <2>2 DEF LockLink, At, ReqInv, IInv, LinkInv
    <3>3. /\ Active(link[l].of) \ {l} \in SUBSET Links
          /\ \A k \in Active(link[l].of) \ {l} :
                link[k].of = link[l].of /\ link[k].state # "none" /\ k # l
      BY DEF Active, Live
    <3>4. q \in ReqRecs /\ ReqInv(q) /\ ~Registers(q)
      <4>1. /\ q \in ReqRecs /\ q.op = "reset" /\ q.pc = "update" /\ q.k = l
            /\ q.u = link[l].of /\ q.others = Active(link[l].of) \ {l}
            /\ q.del = {} /\ q.began = req[r].began
        BY <1>1, <3>2, <3>3 DEF ReqRecs
      <4>2. req[r].began <= now
        BY <1>1 DEF ReqInv
      <4> HIDE DEF l, q
      <4> QED
        BY <2>2, <3>2, <3>3, <4>1, <4>2 DEF ReqInv, Registers, PastLock
    <3>5. \A k \in Links : Locks(q, k) => k = l
      BY <1>1, <3>2 DEF Locks, ReqRecs, PastLock
    <3>6. \A x \in Requests \ {r} : ~Locks(req[x], l)
      BY <1>2, <1>3, <3>2 DEF LockLink, LinkFree
    <3> HIDE DEF l, q
    <3> QED
      BY <1>1, <3>1, <3>4, <3>5, <3>6, RequestMoves
  <2> QED
    BY <2>1, <2>2
<1>4. CASE UpdatePassword(r)
  <2> DEFINE q == [req[r] EXCEPT !.pc = "siblings"]
  <2>1. req' = [req EXCEPT ![r] = q] /\ UNCHANGED <<now, Tables, starts>>
    BY <1>4 DEF UpdatePassword, Goto, IInv, TypeInv
  <2>2. q \in ReqRecs /\ ReqInv(q) /\ ~Registers(q)
    BY <1>1, <1>4 DEF UpdatePassword, At, ReqRecs, ReqInv, Registers, PastLock
  <2>3. \A k \in Links : Locks(q, k) => Locks(req[r], k)
    BY <1>1, <1>4 DEF UpdatePassword, At, ReqRecs, Locks, PastLock
  <2>4. \A x \in Requests \ {r}, k \in Links : Locks(q, k) => ~Locks(req[x], k)
    BY <2>3 DEF IInv, ExclInv
  <2> QED
    BY <1>1, <2>1, <2>2, <2>4, RequestMoves
<1>5. CASE DeleteSiblings(r)
  <2> DEFINE S == {k \in Links \ {req[r].k} :
                     link[k].of = req[r].u /\ link[k].state = "open"}
             q == [req[r] EXCEPT !.pc = "commit", !.del = S]
  <2>1. req' = [req EXCEPT ![r] = q] /\ UNCHANGED <<now, Tables, starts>>
        /\ \A k \in S : LinkFree(r, k)
    BY <1>5 DEF DeleteSiblings, IInv, TypeInv
  <2>2. /\ req[r].op = "reset" /\ req[r].pc = "siblings"
        /\ S \in SUBSET Links /\ req[r].k \notin S
        /\ \A k \in Links : link[k].of = req[r].u /\ link[k].state = "open"
                               /\ k # req[r].k => k \in S
    BY <1>5 DEF DeleteSiblings, At
  <2>3. \A k \in Links : PastLock(req[r]) /\ (k = req[r].k => Locks(req[r], k))
    BY <2>2 DEF PastLock, Locks
  <2> HIDE DEF S
  <2>4. /\ q \in ReqRecs /\ ~Registers(q)
        /\ q.op = "reset" /\ q.pc = "commit" /\ q.k = req[r].k /\ q.u = req[r].u
        /\ q.others = req[r].others /\ q.del = S /\ q.began = req[r].began
        /\ q.others \subseteq Links
    BY <1>1, <2>2 DEF ReqRecs, Registers
  <2>5. ReqInv(q)
    <3>1. /\ req[r].k \in Links /\ req[r].u \in Emails /\ req[r].began <= now
          /\ link[req[r].k].state = "open" /\ link[req[r].k].of = req[r].u
          /\ \A k \in req[r].others :
                link[k].of = req[r].u /\ link[k].state # "none" /\ k # req[r].k
      BY <1>1, <2>2, <2>3 DEF ReqInv
    <3> HIDE DEF q
    <3> QED
      BY <2>2, <2>4, <3>1 DEF ReqInv
  <2>6. \A k \in Links : Locks(q, k) => k = req[r].k \/ k \in S
    BY <1>1, <2>2 DEF Locks, ReqRecs
  <2>7. \A x \in Requests \ {r}, k \in Links : Locks(q, k) => ~Locks(req[x], k)
    BY <1>2, <2>1, <2>2, <2>3, <2>6 DEF IInv, ExclInv, LinkFree
  <2> QED
    BY <1>1, <2>1, <2>4, <2>5, <2>7, RequestMoves
<1>6. CASE DeadlockVictim(r)
  BY <1>6, EndMoves DEF DeadlockVictim
<1> QED
  BY <1>3, <1>4, <1>5, <1>6

(* A request ends: the others are as they were, and no lock was taken.     *)
LEMMA EndedRequest ==
    ASSUME IInv, NEW r \in Requests, End(r)
    PROVE  /\ req' \in [Requests -> ReqRecs] /\ req'[r] = Idle
           /\ \A x \in Requests \ {r} : req'[x] = req[x]
           /\ ExclInv'
<1>1. Idle \in ReqRecs /\ ~Registers(Idle) /\ \A k \in Links : ~Locks(Idle, k)
  BY IdleInv DEF IInv
<1>2. /\ req' \in [Requests -> ReqRecs] /\ req'[r] = Idle
      /\ \A x \in Requests \ {r} : req'[x] = req[x]
  BY <1>1 DEF End, IInv, TypeInv
<1> QED
  BY <1>1, <1>2 DEF IInv, ExclInv

(* forgotPassword mints a link no other request can know of.               *)
LEMMA InsertLinkStep ==
    ASSUME IInv, NEW r \in Requests, NEW l \in Links, InsertLink(r, l) PROVE IInv'
<1> DEFINE u == req[r].u
<1>1. CASE ~user[u].there
  <2>1. link' = link
    BY <1>1 DEF InsertLink
  <2> QED
    BY <2>1, EndMoves DEF InsertLink, Tables
<1>2. CASE user[u].there
  <2>1. /\ link' = [link EXCEPT ![l] = [of |-> u, state |-> "open", exp |-> now + LinkTTL]]
        /\ link[l] = NoLink /\ End(r) /\ UNCHANGED <<now, user, sess, uses, dead, starts>>
    BY <1>2 DEF InsertLink
  <2>2. u \in Emails
    BY DEF InsertLink, At, IInv, ReqInv
  <2>3. /\ link' \in [Links -> LinkRows]
        /\ link'[l].of = u /\ link'[l].state = "open" /\ link[l].state = "none"
        /\ \A k \in Links \ {l} : link'[k] = link[k]
    BY <2>1, <2>2, AccountsAssumption DEF IInv, TypeInv, LinkRows, NoLink
  <2>4. /\ req' \in [Requests -> ReqRecs] /\ req'[r] = Idle
        /\ \A x \in Requests \ {r} : req'[x] = req[x]
        /\ ExclInv'
    BY <2>1, EndedRequest
  <2>5. TypeInv'
    BY <2>1, <2>3, <2>4 DEF IInv, TypeInv
  <2>6. UserInv' /\ SessInv'
    BY <2>1 DEF IInv, UserInv, SessInv, SessionsFollowPassword, Accepts
  <2>7. LinkInv'
    BY <1>2, <2>1, <2>2, <2>3 DEF IInv, LinkInv
  <2>8. ASSUME NEW x \in Requests PROVE ReqInv(req[x])'
    <3>1. CASE x = r
      BY <2>4, <2>5, <3>1, AccountsAssumption DEF TypeInv, Idle, ReqInv, PastLock
    <3>2. CASE x # r
      <4>1. req'[x] = req[x] /\ ReqInv(req[x]) /\ req[x].others \subseteq Links
        BY <2>4, <3>2 DEF IInv, TypeInv, ReqRecs
      <4>2. PastLock(req[x]) => req[x].k # l /\ l \notin req[x].others /\ req[x].k \in Links
        BY <2>3, <4>1 DEF ReqInv, PastLock
      <4> QED
        BY <2>1, <2>3, <4>1, <4>2 DEF ReqInv
    <3> QED
      BY <3>1, <3>2
  <2> QED
    BY <2>4, <2>5, <2>6, <2>7, <2>8 DEF IInv
<1> QED
  BY <1>1, <1>2

(* register commits: the account's row, and its first session.             *)
LEMMA CommitUserStep ==
    ASSUME IInv, NEW r \in Requests, CommitUser(r) PROVE IInv'
<1> DEFINE v == req[r].u
<1>1. CASE user[v].there
  <2>1. UNCHANGED <<user, sess>> /\ End(r) /\ UNCHANGED <<now, link, uses, dead, starts>>
    BY <1>1 DEF CommitUser
  <2> QED
    BY <2>1, EndMoves DEF Tables
<1>2. CASE ~user[v].there
  <2> DEFINE s0 == [u |-> v, iat |-> Truncate(now), pw |-> user[v].pw + 1,
                    raced |-> FALSE]
  <2>1. /\ user' = [user EXCEPT ![v] = [there |-> TRUE, admin |-> req[r].first,
                                        pw |-> user[v].pw + 1, changed |-> None]]
        /\ sess' = sess \cup {s0} /\ End(r)
        /\ UNCHANGED <<now, link, uses, dead, starts>>
    BY <1>2 DEF CommitUser, Issue
  <2>2. /\ v \in Emails /\ Registers(req[r]) /\ req[r].first \in BOOLEAN
        /\ req[r].first => \A u \in Emails : ~user[u].there
    BY DEF CommitUser, At, IInv, ReqInv, TypeInv, ReqRecs, Registers
  <2>3. /\ user' \in [Emails -> UserRows]
        /\ user'[v].there /\ user'[v].admin = req[r].first
        /\ user'[v].pw = user[v].pw + 1 /\ user'[v].changed = None /\ user[v].pw \in Nat
        /\ \A u \in Emails \ {v} : user'[u] = user[u]
    BY <2>1, <2>2 DEF IInv, TypeInv, UserRows
  <2>4. s0 \in Sessions /\ s0.u = v /\ s0.pw = user'[v].pw
    BY <2>2, <2>3, TruncateMonotone DEF Sessions, IInv, TypeInv
  <2> HIDE DEF v, s0
  <2>5. /\ req' \in [Requests -> ReqRecs] /\ req'[r] = Idle
        /\ \A x \in Requests \ {r} : req'[x] = req[x]
        /\ ExclInv'
    BY <2>1, EndedRequest
  <2>6. TypeInv'
    BY <2>1, <2>3, <2>4, <2>5 DEF IInv, TypeInv
  <2>7. UserInv'
    <3>1. req[r].first => \A u \in Emails : ~user[u].admin
      BY <2>2 DEF IInv, UserInv
    <3> QED
      BY <1>2, <2>1, <2>2, <2>3, <3>1 DEF IInv, UserInv
  <2>8. SessInv'
    <3>1. ASSUME NEW s \in sess'
          PROVE  /\ s.pw <= user'[s.u].pw
                 /\ user'[s.u].there =>
                      /\ s.pw = user'[s.u].pw => Accepts(s)'
                      /\ Accepts(s)' => \/ s.pw = user'[s.u].pw \/ s.raced
                                        \/ user'[s.u].changed = None
      <4>1. CASE s.u = v
        <5>1. s = s0 \/ s.pw <= user[v].pw
          BY <2>1, <4>1 DEF IInv, SessInv
        <5>2. s.pw \in Nat
          BY <2>6 DEF TypeInv, Sessions
        <5> QED
          BY <2>3, <2>4, <4>1, <5>1, <5>2 DEF Accepts
      <4>2. CASE s.u # v
        <5>1. s \in sess /\ s.u \in Emails
          BY <2>1, <2>4, <2>6, <4>2 DEF TypeInv, Sessions
        <5>2. user'[s.u] = user[s.u]
          BY <2>3, <4>2, <5>1
        <5> QED
          BY <5>1, <5>2 DEF IInv, SessInv, SessionsFollowPassword, Accepts
      <4> QED
        BY <4>1, <4>2
    <3> QED
      BY <3>1 DEF SessInv, SessionsFollowPassword
  <2>9. LinkInv'
    BY <2>1, <2>3 DEF IInv, LinkInv
  <2>10. ASSUME NEW x \in Requests PROVE ReqInv(req[x])'
    <3>1. CASE x = r
      BY <2>5, <2>6, <3>1, AccountsAssumption DEF TypeInv, Idle, ReqInv, PastLock
    <3>2. CASE x # r
      <4>1. req'[x] = req[x] /\ ReqInv(req[x]) /\ ~Registers(req[x]) /\ req[x].pw \in Nat
        BY <2>2, <2>5, <3>2 DEF IInv, ExclInv, TypeInv, ReqRecs
      <4>2. req[x].pc = "answer" =>
              /\ req[x].pw <= user'[req[x].u].pw
              /\ user'[req[x].u].changed = None \/ req[x].raced
                   \/ req[x].pw = user'[req[x].u].pw
        BY <2>3, <4>1 DEF ReqInv
      <4> QED
        BY <2>1, <4>1, <4>2 DEF ReqInv, Registers
    <3> QED
      BY <3>1, <3>2
  <2> QED
    BY <2>5, <2>6, <2>7, <2>8, <2>9, <2>10 DEF IInv
<1> QED
  BY <1>1, <1>2

(* login and refresh answer with a pair of this second, for the password   *)
(* they read.                                                              *)
LEMMA RespondStep ==
    ASSUME IInv, NEW r \in Requests, RespondTokenPair(r) PROVE IInv'
<1> DEFINE s0 == [u |-> req[r].u, iat |-> Truncate(now), pw |-> req[r].pw,
                  raced |-> req[r].raced]
<1>1. sess' = sess \cup {s0} /\ End(r) /\ UNCHANGED <<now, user, link, uses, dead, starts>>
  BY DEF RespondTokenPair, Issue
<1>2. /\ req[r].u \in Emails /\ req[r].pw <= user[req[r].u].pw
      /\ \/ user[req[r].u].changed = None \/ req[r].raced
         \/ req[r].pw = user[req[r].u].pw
  BY DEF RespondTokenPair, IInv, ReqInv
<1>3. s0 \in Sessions
  BY <1>2, TruncateMonotone DEF Sessions, IInv, TypeInv, ReqRecs
<1>4. /\ req' \in [Requests -> ReqRecs] /\ req'[r] = Idle
      /\ \A x \in Requests \ {r} : req'[x] = req[x]
      /\ ExclInv'
  BY <1>1, EndedRequest
<1>5. TypeInv'
  <2> HIDE DEF s0
  <2> QED
    BY <1>1, <1>3, <1>4 DEF IInv, TypeInv
<1>6. UserInv' /\ LinkInv'
  BY <1>1 DEF IInv, UserInv, LinkInv
<1>7. SessInv'
  <2>1. s0.pw <= user[s0.u].pw
    BY <1>2
  <2>2. user[s0.u].there => Accepts(s0)
    <3>1. user[s0.u].changed # None => Truncate(user[s0.u].changed) <= Truncate(now)
      <4>1. SUFFICES ASSUME user[s0.u].changed # None
                     PROVE  Truncate(user[s0.u].changed) <= Truncate(now)
        OBVIOUS
      <4>2. user[s0.u].changed \in Nat /\ now \in Nat /\ user[s0.u].changed <= now
        BY <1>2, <4>1 DEF IInv, TypeInv, UserRows, UserInv
      <4> QED
        BY <4>2, TruncateMonotone
    <3>2. user[s0.u].changed # None => Truncate(user[s0.u].changed) \in Nat
      BY <1>2, TruncateMonotone DEF IInv, TypeInv, UserRows
    <3> QED
      BY <3>1, <3>2, <1>3 DEF Accepts, Sessions
  <2>3. s0.pw = user[s0.u].pw \/ s0.raced \/ user[s0.u].changed = None
    BY <1>2
  <2> HIDE DEF s0
  <2> QED
    BY <1>1, <2>1, <2>2, <2>3 DEF IInv, SessInv, SessionsFollowPassword, Accepts
<1>8. ASSUME NEW x \in Requests PROVE ReqInv(req[x])'
  <2>1. CASE x = r
    BY <1>4, <1>5, <2>1, AccountsAssumption DEF TypeInv, Idle, ReqInv, PastLock
  <2>2. CASE x # r
    BY <1>1, <1>4, <2>2 DEF IInv, ReqInv
  <2> QED
    BY <2>1, <2>2
<1> QED
  BY <1>4, <1>5, <1>6, <1>7, <1>8 DEF IInv

(* resetPassword commits.  Its own link was open until now, so no earlier  *)
(* reset had ended it; the links it ends were deleted or are over already. *)
LEMMA CommitResetStep ==
    ASSUME IInv, NEW r \in Requests, CommitReset(r) PROVE IInv'
<1> DEFINE q == req[r]
<1>1. /\ q \in ReqRecs /\ ReqInv(q) /\ PastLock(q) /\ q.pc = "commit"
      /\ q.k \in Links /\ q.u \in Emails /\ q.del \subseteq Links /\ q.others \subseteq Links
      /\ q.began \in 0 .. MaxTime /\ q.began <= now
  BY DEF CommitReset, At, IInv, TypeInv, ReqRecs, ReqInv, PastLock
<1>2. /\ user' = [user EXCEPT ![q.u].pw = @ + 1, ![q.u].changed = q.began]
      /\ link' = [k \in Links |->
                    CASE k = q.k -> [link[k] EXCEPT !.state = "used"]
                      [] k \in q.del -> [link[k] EXCEPT !.state = "gone"]
                      [] k \notin q.del \cup {q.k} -> link[k]]
      /\ uses' = [uses EXCEPT ![q.k] = @ + 1]
      /\ dead' = dead \cup q.others \cup {q.k}
      /\ sess' = {IF s.u = q.u THEN [s EXCEPT !.raced = s.iat >= Truncate(q.began)]
                  ELSE s : s \in sess}
      /\ req' = [x \in Requests |->
                   CASE x = r -> Idle
                     [] x # r /\ req[x].u = q.u -> [req[x] EXCEPT !.raced = TRUE]
                     [] x # r /\ req[x].u # q.u -> req[x]]
      /\ UNCHANGED <<now, starts>>
  BY DEF CommitReset
<1> HIDE DEF q
<1>3. /\ user' \in [Emails -> UserRows]
      /\ user'[q.u].pw = user[q.u].pw + 1 /\ user'[q.u].changed = q.began
      /\ user'[q.u].there = user[q.u].there /\ user'[q.u].admin = user[q.u].admin
      /\ user[q.u].pw \in Nat
      /\ \A u \in Emails \ {q.u} : user'[u] = user[u]
  BY <1>1, <1>2 DEF IInv, TypeInv, UserRows
<1>4. /\ link' \in [Links -> LinkRows]
      /\ \A k \in Links : link'[k].of = link[k].of
      /\ \A k \in Links : k = q.k => link'[k].state = "used"
      /\ \A k \in q.del \ {q.k} : link'[k].state = "gone"
      /\ \A k \in Links \ (q.del \cup {q.k}) : link'[k] = link[k]
  <2>1. ASSUME NEW k \in Links
        PROVE  /\ link'[k] \in LinkRows /\ link'[k].of = link[k].of
               /\ k = q.k => link'[k].state = "used"
               /\ k \in q.del \ {q.k} => link'[k].state = "gone"
               /\ k \notin q.del \cup {q.k} => link'[k] = link[k]
    <3>1. link[k] \in LinkRows
      BY DEF IInv, TypeInv
    <3>2. CASE k = q.k
      <4>1. k \notin q.del
        BY <1>1, <3>2 DEF ReqInv
      <4>2. link'[k] = [link[k] EXCEPT !.state = "used"]
        BY <1>2, <3>2, <4>1
      <4> QED
        BY <3>1, <3>2, <4>2 DEF LinkRows
    <3>3. CASE k \in q.del /\ k # q.k
      <4>1. link'[k] = [link[k] EXCEPT !.state = "gone"]
        BY <1>2, <3>3
      <4> QED
        BY <3>1, <3>3, <4>1 DEF LinkRows
    <3>4. CASE k \notin q.del \cup {q.k}
      <4>1. link'[k] = link[k]
        BY <1>2, <3>4
      <4> QED
        BY <3>1, <3>4, <4>1 DEF LinkRows
    <3> QED
      BY <3>2, <3>3, <3>4
  <2> QED
    BY <1>1, <1>2, <2>1
<1>5. sess' \subseteq Sessions /\
      \A s \in sess' : \E o \in sess :
         /\ s.u = o.u /\ s.pw = o.pw /\ s.iat = o.iat
         /\ IF o.u = q.u THEN s.raced <=> (o.iat >= Truncate(q.began)) ELSE s = o
  <2>1. SUFFICES ASSUME NEW s \in sess'
                 PROVE  /\ s \in Sessions
                        /\ \E o \in sess :
                             /\ s.u = o.u /\ s.pw = o.pw /\ s.iat = o.iat
                             /\ IF o.u = q.u THEN s.raced <=> (o.iat >= Truncate(q.began))
                                ELSE s = o
    OBVIOUS
  <2>2. PICK o \in sess : s = IF o.u = q.u
                              THEN [o EXCEPT !.raced = o.iat >= Truncate(q.began)] ELSE o
    BY <1>2
  <2>3. o \in Sessions
    BY DEF IInv, TypeInv
  <2>4. (o.iat >= Truncate(q.began)) \in BOOLEAN
    OBVIOUS
  <2>5. /\ s \in Sessions
        /\ s.u = o.u /\ s.pw = o.pw /\ s.iat = o.iat
        /\ IF o.u = q.u THEN s.raced <=> (o.iat >= Truncate(q.began)) ELSE s = o
    BY <2>2, <2>3, <2>4 DEF Sessions
  <2> QED
    BY <2>5
<1>6. /\ req' \in [Requests -> ReqRecs] /\ req'[r] = Idle
      /\ \A x \in Requests \ {r} :
            /\ req'[x].op = req[x].op /\ req'[x].pc = req[x].pc /\ req'[x].u = req[x].u
            /\ req'[x].k = req[x].k /\ req'[x].first = req[x].first
            /\ req'[x].began = req[x].began /\ req'[x].pw = req[x].pw
            /\ req'[x].others = req[x].others /\ req'[x].del = req[x].del
            /\ req'[x].raced <=> (req[x].raced \/ req[x].u = q.u)
  <2>1. Idle \in ReqRecs
    BY IdleInv DEF IInv
  <2>2. req \in [Requests -> ReqRecs]
    BY DEF IInv, TypeInv
  <2>3. req'[r] = Idle
    BY <1>2
  <2>4. ASSUME NEW x \in Requests \ {r}
        PROVE  /\ req'[x] \in ReqRecs
               /\ req'[x].op = req[x].op /\ req'[x].pc = req[x].pc /\ req'[x].u = req[x].u
               /\ req'[x].k = req[x].k /\ req'[x].first = req[x].first
               /\ req'[x].began = req[x].began /\ req'[x].pw = req[x].pw
               /\ req'[x].others = req[x].others /\ req'[x].del = req[x].del
               /\ req'[x].raced <=> (req[x].raced \/ req[x].u = q.u)
    <3>1. CASE req[x].u = q.u
      <4>1. req'[x] = [req[x] EXCEPT !.raced = TRUE]
        BY <1>2, <3>1
      <4> QED
        BY <2>2, <3>1, <4>1 DEF ReqRecs
    <3>2. CASE req[x].u # q.u
      <4>1. req'[x] = req[x]
        BY <1>2, <3>2
      <4> QED
        BY <2>2, <3>2, <4>1 DEF ReqRecs
    <3> QED
      BY <3>1, <3>2
  <2>5. \A x \in Requests : req'[x] \in ReqRecs
    BY <2>1, <2>3, <2>4
  <2> QED
    BY <1>2, <2>3, <2>4, <2>5
<1>7. TypeInv'
  <2>1. uses' \in [Links -> Nat] /\ dead' \subseteq Links
    BY <1>1, <1>2 DEF IInv, TypeInv
  <2>2. UNCHANGED <<now, starts>>
    BY <1>2, SMTT(30)
  <2> QED
    BY <1>3, <1>4, <1>5, <1>6, <2>1, <2>2 DEF IInv, TypeInv
<1>8. UserInv'
  BY <1>1, <1>2, <1>3 DEF IInv, UserInv
<1>9. SessInv'
  <2>1. ASSUME NEW s \in sess'
        PROVE  /\ s.pw <= user'[s.u].pw
               /\ user'[s.u].there =>
                    /\ s.pw = user'[s.u].pw => Accepts(s)'
                    /\ Accepts(s)' => \/ s.pw = user'[s.u].pw \/ s.raced
                                      \/ user'[s.u].changed = None
    <3>1. PICK o \in sess :
            /\ s.u = o.u /\ s.pw = o.pw /\ s.iat = o.iat
            /\ IF o.u = q.u THEN s.raced <=> (o.iat >= Truncate(q.began)) ELSE s = o
      BY <1>5
    <3>2. o \in Sessions /\ o.u \in Emails /\ o.pw \in Nat
      BY DEF IInv, TypeInv, Sessions
    <3>3. o.pw <= user[o.u].pw
      BY DEF IInv, SessInv
    <3>4. CASE o.u = q.u
      BY <1>3, <3>1, <3>2, <3>3, <3>4 DEF Accepts
    <3>5. CASE o.u # q.u
      <4>1. user'[s.u] = user[s.u] /\ s = o
        BY <1>3, <3>1, <3>2, <3>5
      <4> QED
        BY <4>1 DEF IInv, SessInv, SessionsFollowPassword, Accepts
    <3> QED
      BY <3>4, <3>5
  <2> QED
    BY <2>1 DEF SessInv, SessionsFollowPassword
<1>10. LinkInv'
  <2>1. \A k \in Links : link'[k].state = "open" => link'[k] = link[k]
    BY <1>1, <1>4
  <2>2. \A u \in Emails : user'[u].there = user[u].there
    BY <1>3
  <2>3. \A k \in q.others : link[k].state # "none" /\ (link[k].state # "open" \/ k \in q.del)
    BY <1>1 DEF ReqInv
  <2>4. \A k \in Links : link[k].state \in {"none", "open", "used", "gone"}
    BY DEF IInv, TypeInv, LinkRows
  <2>5. \A k \in q.others : link'[k].state \in {"used", "gone"}
    BY <1>1, <1>4, <2>3, <2>4
  <2>6. \A k \in dead : link'[k].state \in {"used", "gone"}
    BY <1>1, <1>4 DEF IInv, LinkInv, TypeInv
  <2> QED
    <3>1. \A k \in Links : link[k].state = "open" =>
             link[k].of \in Emails /\ user[link[k].of].there
      BY DEF IInv, LinkInv
    <3>2. \A k \in Links : link'[k].state = "open" =>
             link'[k].of \in Emails /\ user'[link'[k].of].there
      BY <2>1, <2>2, <3>1
    <3>3. \A k \in dead' : link'[k].state \in {"used", "gone"}
      <4>1. dead' = dead \cup q.others \cup {q.k} /\ link'[q.k].state = "used"
        BY <1>1, <1>2, <1>4
      <4> QED
        BY <2>5, <2>6, <4>1
    <3> QED
      BY <3>2, <3>3 DEF LinkInv
<1>11. ExclInv'
  <2>1. ~Registers(Idle) /\ \A k \in Links : ~Locks(Idle, k)
    BY IdleInv DEF IInv
  <2>2. \A x \in Requests \ {r} :
           /\ Registers(req'[x]) = Registers(req[x])
           /\ \A k \in Links : Locks(req'[x], k) = Locks(req[x], k)
    BY <1>6 DEF Registers, Locks, PastLock
  <2> QED
    BY <1>6, <2>1, <2>2 DEF IInv, ExclInv
<1>12. ASSUME NEW x \in Requests PROVE ReqInv(req[x])'
  <2>1. CASE x = r
    BY <1>6, <1>7, <2>1, AccountsAssumption DEF TypeInv, Idle, ReqInv, PastLock
  <2>2. CASE x # r
    <3>1. ReqInv(req[x]) /\ req[x] \in ReqRecs /\ req[x].pw \in Nat
          /\ req[x].others \subseteq Links
      BY DEF IInv, TypeInv, ReqRecs
    <3>2. \A u \in Emails : user'[u].there = user[u].there
      BY <1>3
    <3>3. req[x].pc = "answer" =>
            /\ req[x].pw <= user'[req[x].u].pw
            /\ user'[req[x].u].changed = None \/ req'[x].raced
                 \/ req[x].pw = user'[req[x].u].pw
      BY <1>3, <1>6, <2>2, <3>1 DEF ReqInv
    <3>4. PastLock(req[x]) => link'[req[x].k] = link[req[x].k] /\ req[x].k \in Links
      <4>1. ASSUME PastLock(req[x])
            PROVE  req[x].k \in Links /\ req[x].k \notin q.del \cup {q.k}
        <5>1. req[x].k \in Links
          BY <3>1, <4>1 DEF ReqInv, PastLock
        <5>2. Locks(req[x], req[x].k)
          BY <4>1 DEF Locks
        <5>3. ~Locks(q, req[x].k)
          BY <2>2, <5>1, <5>2 DEF IInv, ExclInv, q
        <5> QED
          BY <1>1, <5>1, <5>3 DEF Locks
      <4> QED
        BY <1>4, <4>1
    <3>5. \A k \in Links : /\ link'[k].of = link[k].of
                           /\ link[k].state # "none" => link'[k].state # "none"
                           /\ link[k].state # "open" => link'[k].state # "open"
      BY <1>1, <1>4
    <3>6. PastLock(req'[x]) = PastLock(req[x])
      BY <1>6, <2>2 DEF PastLock
    <3>7. PastLock(req[x]) =>
            /\ req[x].u \in Emails /\ link'[req[x].k].state = "open"
            /\ link'[req[x].k].of = req[x].u
            /\ \A k \in req[x].others :
                  link'[k].of = req[x].u /\ link'[k].state # "none" /\ k # req[x].k
            /\ req[x].pc = "commit" =>
                  \A k \in req[x].others : link'[k].state # "open" \/ k \in req[x].del
      BY <3>1, <3>4, <3>5 DEF ReqInv
    <3>8. /\ req[x].op = "register" /\ req[x].pc = "commit" /\ req[x].first =>
                \A u \in Emails : ~user'[u].there
          /\ req[x].began <= now'
      BY <1>2, <3>1, <3>2 DEF ReqInv
    <3>9. req[x].pc = "answer" => req[x].u \in Emails
      BY <3>1 DEF ReqInv
    <3>10. /\ req[x].op \in {"register", "forgot"} => req[x].u \in Emails
           /\ req[x].op = "reset" => req[x].k \in Links
           /\ req[x].pc # "commit" => req[x].del = {}
           /\ req[x].k \notin req[x].del
      BY <3>1 DEF ReqInv
    <3>11. /\ req'[x].op = req[x].op /\ req'[x].pc = req[x].pc /\ req'[x].u = req[x].u
           /\ req'[x].k = req[x].k /\ req'[x].first = req[x].first
           /\ req'[x].began = req[x].began /\ req'[x].pw = req[x].pw
           /\ req'[x].others = req[x].others /\ req'[x].del = req[x].del
      BY <1>6, <2>2
    <3> QED
      BY <3>3, <3>6, <3>7, <3>8, <3>9, <3>10, <3>11 DEF ReqInv
  <2> QED
    BY <2>1, <2>2
<1> QED
  BY <1>7, <1>8, <1>9, <1>10, <1>11, <1>12 DEF IInv

(* deleteAccount waits for every reset of the account.                     *)
LEMMA DeleteStep ==
    ASSUME IInv, NEW v \in Emails, DeleteAccount(v) PROVE IInv'
<1>1. /\ user' = [user EXCEPT ![v] = [NoUser EXCEPT !.pw = user[v].pw]]
      /\ link' = [k \in Links |-> IF link[k].of = v
                                  THEN [link[k] EXCEPT !.state = "gone"] ELSE link[k]]
      /\ UNCHANGED <<now, sess, req, uses, dead, starts>>
      /\ \A r \in Requests, k \in Links : link[k].of = v => ~HoldsLink(r, k)
  BY DEF DeleteAccount
<1>2. /\ user' \in [Emails -> UserRows]
      /\ ~user'[v].there /\ ~user'[v].admin /\ user'[v].pw = user[v].pw
      /\ user'[v].changed = None
      /\ \A u \in Emails \ {v} : user'[u] = user[u]
  BY <1>1 DEF IInv, TypeInv, UserRows, NoUser
<1>3. /\ link' \in [Links -> LinkRows]
      /\ \A k \in Links : link'[k].of = link[k].of
      /\ \A k \in Links : link[k].of = v => link'[k].state = "gone"
      /\ \A k \in Links : link[k].of # v => link'[k] = link[k]
  BY <1>1 DEF IInv, TypeInv, LinkRows
<1>4. TypeInv'
  BY <1>1, <1>2, <1>3 DEF IInv, TypeInv
<1>5. UserInv'
  BY <1>1, <1>2 DEF IInv, UserInv
<1>6. SessInv'
  <2>1. \A s \in sess : s.u \in Emails
    BY DEF IInv, TypeInv, Sessions
  <2> QED
    BY <1>1, <1>2, <2>1 DEF IInv, SessInv, SessionsFollowPassword, Accepts
<1>7. LinkInv'
  BY <1>1, <1>2, <1>3 DEF IInv, LinkInv, TypeInv
<1>8. ExclInv'
  BY <1>1 DEF IInv, ExclInv
<1>9. ASSUME NEW x \in Requests PROVE ReqInv(req[x])'
  <2>1. ReqInv(req[x]) /\ req'[x] = req[x] /\ req[x].others \subseteq Links
    BY <1>1 DEF IInv, TypeInv, ReqRecs
  <2>2. PastLock(req[x]) => req[x].k \in Links /\ link'[req[x].k] = link[req[x].k]
    <3>1. ASSUME PastLock(req[x]) PROVE req[x].k \in Links /\ HoldsLink(x, req[x].k)
      BY <2>1, <3>1 DEF PastLock, ReqInv, HoldsLink
    <3> QED
      BY <1>1, <1>3, <3>1
  <2>3. \A k \in Links : /\ link[k].state # "none" => link'[k].state # "none"
                         /\ link[k].state # "open" => link'[k].state # "open"
    BY <1>3
  <2>4. \A u \in Emails : /\ ~user[u].there => ~user'[u].there
                          /\ user'[u].pw = user[u].pw
                          /\ user'[u].changed \in {None, user[u].changed}
    BY <1>2
  <2> QED
    <3>1. req[x].pc = "answer" =>
            /\ req[x].u \in Emails /\ req[x].pw <= user'[req[x].u].pw
            /\ \/ user'[req[x].u].changed = None \/ req[x].raced
               \/ req[x].pw = user'[req[x].u].pw
      BY <2>1, <2>4 DEF ReqInv
    <3>2. PastLock(req[x]) =>
            /\ req[x].u \in Emails /\ link'[req[x].k].state = "open"
            /\ link'[req[x].k].of = req[x].u
            /\ \A k \in req[x].others :
                  link'[k].of = req[x].u /\ link'[k].state # "none" /\ k # req[x].k
            /\ req[x].pc = "commit" =>
                  \A k \in req[x].others : link'[k].state # "open" \/ k \in req[x].del
      BY <1>3, <2>1, <2>2, <2>3 DEF ReqInv
    <3>3. /\ req[x].op = "register" /\ req[x].pc = "commit" /\ req[x].first =>
                \A u \in Emails : ~user'[u].there
          /\ req[x].began <= now'
      BY <1>1, <2>1, <2>4 DEF ReqInv
    <3> QED
      BY <2>1, <3>1, <3>2, <3>3 DEF ReqInv
<1> QED
  BY <1>4, <1>5, <1>6, <1>7, <1>8, <1>9 DEF IInv

LEMMA TickStep == ASSUME IInv, Tick PROVE IInv'
<1>1. /\ now' = now + 1 /\ now' \in 0 .. MaxTime /\ now \in Nat
      /\ UNCHANGED <<user, link, sess, uses, dead, req, starts>>
  BY AccountsAssumption DEF Tick, Tables, IInv, TypeInv
<1>2. TypeInv'
  BY <1>1 DEF IInv, TypeInv
<1>3. UserInv'
  <2>1. \A u \in Emails : user[u].changed # None => user[u].changed \in Nat
    BY DEF IInv, TypeInv, UserRows
  <2> QED
    BY <1>1, <2>1 DEF IInv, UserInv
<1>4. SessInv' /\ LinkInv' /\ ExclInv'
  BY <1>1 DEF IInv, SessInv, SessionsFollowPassword, Accepts, LinkInv, ExclInv
<1>5. ASSUME NEW x \in Requests PROVE ReqInv(req[x])'
  <2>1. req[x].began \in Nat /\ ReqInv(req[x]) /\ req[x].began <= now
    BY DEF IInv, TypeInv, ReqRecs, ReqInv
  <2> QED
    BY <1>1, <2>1 DEF ReqInv
<1> QED
  BY <1>2, <1>3, <1>4, <1>5 DEF IInv

LEMMA StutterStep == ASSUME IInv, UNCHANGED vars PROVE IInv'
<1>1. TypeInv' /\ UserInv' /\ LinkInv' /\ ExclInv'
  BY DEF IInv, vars, TypeInv, UserInv, LinkInv, ExclInv
<1>2. SessInv' /\ \A x \in Requests : ReqInv(req[x])'
  BY DEF IInv, vars, SessInv, SessionsFollowPassword, Accepts, ReqInv
<1> QED
  BY <1>1, <1>2 DEF IInv

LEMMA InitIInv == Init => IInv
<1> SUFFICES ASSUME Init PROVE IInv
  OBVIOUS
<1>1. NoUser \in UserRows /\ NoLink \in LinkRows /\ 0 \in 0 .. MaxTime /\ 0 \in 0 .. MaxStarts
  BY AccountsAssumption DEF NoUser, UserRows, NoLink, LinkRows
<1>2. Idle \in ReqRecs
  BY AccountsAssumption DEF Idle, ReqRecs
<1>3. TypeInv
  BY <1>1, <1>2 DEF Init, TypeInv
<1>4. UserInv /\ SessInv
  BY DEF Init, UserInv, NoUser, SessInv, SessionsFollowPassword
<1>5. LinkInv
  BY DEF Init, LinkInv, NoLink
<1>6. \A r \in Requests : req[r] = Idle
  BY DEF Init
<1> QED
  BY <1>3, <1>4, <1>5, <1>6, IdleInv DEF IInv, ExclInv

LEMMA NextIInv == IInv /\ [Next]_vars => IInv'
  BY BeginSteps, RegisterSteps, ResetSteps, InsertLinkStep, CommitUserStep, RespondStep,
     CommitResetStep, DeleteStep, TickStep, StutterStep DEF Next

LEMMA IInvHolds == Spec => []IInv
  BY InitIInv, NextIInv, PTL DEF Spec

(* However many first registrations race, and whoever deletes their        *)
(* account, at most one account is the instance admin; and every open      *)
(* reset link belongs to an account that exists (register).                *)
THEOREM AtMostOneInstanceAdmin == Spec => []OneInstanceAdmin
<1>1. ASSUME IInv PROVE OneInstanceAdmin
  <2>1. TypeOK
    BY <1>1 DEF IInv, TypeInv, UserRows, LinkRows, Sessions, LinkInv, TypeOK
  <2> DEFINE A == {u \in Emails : user[u].admin}
  <2>2. A = {} \/ \E u \in Emails : A = {u}
    BY <1>1 DEF IInv, UserInv
  <2>3. Cardinality(A) <= 1
    BY <2>2, FS_EmptySet, FS_Singleton
  <2> QED
    BY <2>1, <2>3 DEF OneInstanceAdmin
<1> QED
  BY <1>1, IInvHolds, PTL

(* A session of the account's current password is never locked out by the  *)
(* whole-second comparison, and one of an earlier password is refused,     *)
(* unless it overlapped the reset: for every length of a second (refresh,  *)
(* resetPassword).                                                         *)
THEOREM SessionsFollowThePassword == Spec => []SessionsFollowPassword
<1>1. IInv => SessionsFollowPassword
  BY DEF IInv, SessInv
<1> QED
  BY <1>1, IInvHolds, PTL

(* A link changes a password once, and no link that was out when a reset   *)
(* took its token changes one after that reset (resetPassword).            *)
THEOREM LinksEndWithAReset == Spec => LinksEnd
<1>1. ASSUME IInv, [Next]_vars
      PROVE  [\A k \in Links : uses'[k] > uses[k] => k \notin dead]_vars
  <2>1. CASE UNCHANGED vars
    BY <2>1
  <2>2. CASE \E r \in Requests : CommitReset(r)
    <3>1. PICK r \in Requests : CommitReset(r)
      BY <2>2
    <3>2. /\ req[r].k \in Links /\ link[req[r].k].state = "open"
          /\ uses' = [uses EXCEPT ![req[r].k] = @ + 1]
      BY <1>1, <3>1 DEF CommitReset, At, IInv, ReqInv, PastLock
    <3>3. req[r].k \notin dead
      BY <1>1, <3>2 DEF IInv, LinkInv
    <3>4. \A k \in Links \ {req[r].k} : uses'[k] = uses[k] /\ uses[k] \in Nat
      BY <1>1, <3>2 DEF IInv, TypeInv
    <3> QED
      BY <3>3, <3>4
  <2>3. CASE UNCHANGED uses
    <3>1. \A k \in Links : uses[k] \in Nat
      BY <1>1, SMTT(30) DEF IInv, TypeInv
    <3> QED
      BY <2>3, <3>1
  <2>4. Next => (\E r \in Requests : CommitReset(r)) \/ UNCHANGED uses
    BY DEF Next, BeginRegister, BeginLogin, BeginForgot, BeginRefresh, BeginReset, Begin,
           InsertLink, LockFirstAdmin, InsertUser, CommitUser, RespondTokenPair, LockLink,
           UpdatePassword, DeleteSiblings, DeadlockVictim, DeleteAccount, Tick, Tables
  <2> QED
    BY <1>1, <2>1, <2>2, <2>3, <2>4
<1> QED
  BY <1>1, IInvHolds, PTL DEF Spec, LinksEnd
=============================================================================
