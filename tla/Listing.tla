------------------------------ MODULE Listing ------------------------------
(***************************************************************************)
(* Paged lists (internal/api/teams.go, projects.go, access_tokens.go,      *)
(* audit_log.go, activity.go, pagination.go): a client follows cursors     *)
(* from page to page while rows come, go and come back between two pages,  *)
(* and between the two statements of one.  Rows are ordered by created_at, *)
(* which is the start of the inserting transaction, then by id.            *)
(*                                                                         *)
(* What a row shows, who may ask and a malformed limit or cursor are left  *)
(* out.  A project that changes team in the middle of a walk over its      *)
(* activity starts another feed, which is left out too.                    *)
(***************************************************************************)
EXTENDS Naturals, FiniteSets

CONSTANTS
    Rows,          \* row ids, in the order of their ids
    Asked,         \* values of ?limit a client sends; 0 is none
    DefaultLimit,  \* defaultListLimit
    MaxLimit,      \* maxListLimit
    MaxTime,       \* bound: the clock
    MaxChanges,    \* bound: rows added, hidden and shown again
    Nil            \* no row, no cursor

ASSUME ListingAssumption ==
    /\ Rows \subseteq Nat /\ IsFiniteSet(Rows) /\ Asked \subseteq Nat
    /\ DefaultLimit \in Nat \ {0} /\ MaxLimit \in Nat \ {0}
    /\ MaxTime \in Nat \ {0} /\ MaxChanges \in Nat
    /\ Nil \notin Nat

VARIABLES
    kind,     \* which list
    clock,
    pos,      \* created_at of the rows, Nil for no row
    vis,      \* rows the list shows
    open,     \* inserts under way: when their transactions began
    walk,     \* the client's walk
    changes

listVars == <<kind, clock, pos, vis, open, walk, changes>>

----------------------------------------------------------------------------
(* The lists.  asc: oldest first.  hides: a row can leave the list.  back: *)
(* it can come back, as the row it was or as a new one.  holds: a cursor   *)
(* holds as long as its row exists, shown or not.                          *)

(* Teams are left and joined again; their own created_at orders them.      *)
ListMyTeams == [asc |-> TRUE, hides |-> TRUE, back |-> "same", holds |-> FALSE]

(* Projects are deleted, and transferred to another team and back.         *)
ListProjects == [asc |-> TRUE, hides |-> TRUE, back |-> "same", holds |-> FALSE]

(* The created_at is the membership's: who joins again is a new row.       *)
ListMembers == [asc |-> TRUE, hides |-> TRUE, back |-> "new", holds |-> FALSE]

(* A team's deployments follow their projects.                             *)
ListTeamDeployments ==
    [asc |-> TRUE, hides |-> TRUE, back |-> "same", holds |-> FALSE]

(* A deleted deployment stays deleted.                                     *)
ListProjectDeployments ==
    [asc |-> TRUE, hides |-> TRUE, back |-> "no", holds |-> FALSE]

ListTokens == [asc |-> FALSE, hides |-> TRUE, back |-> "no", holds |-> FALSE]

(* Audit events are only added.                                            *)
ListAuditEvents == [asc |-> FALSE, hides |-> FALSE, back |-> "no", holds |-> TRUE]

(* An event about a domain leaves the feed with the domain; the cursor is  *)
(* looked up among the team's events.                                      *)
ListActivity == [asc |-> FALSE, hides |-> TRUE, back |-> "no", holds |-> TRUE]

Kinds == {ListMyTeams, ListProjects, ListMembers, ListTeamDeployments,
          ListProjectDeployments, ListTokens, ListAuditEvents, ListActivity}

----------------------------------------------------------------------------
NoWalk(n) == [at |-> "idle", limit |-> n, cursor |-> Nil, given |-> 0, read |-> 0,
              got |-> [i \in Rows |-> 0], base |-> {}, jumped |-> FALSE]

ListTypeOK ==
    /\ kind \in Kinds
    /\ clock \in 0 .. MaxTime
    /\ pos \in [Rows -> 0 .. MaxTime \cup {Nil}]
    /\ vis \subseteq Rows /\ \A i \in vis : pos[i] # Nil
    /\ open \in [Rows -> 0 .. MaxTime \cup {Nil}]
    /\ walk \in [at : {"idle", "resolve", "query", "done", "refused"},
                 limit : Asked, cursor : Rows \cup {Nil}, given : 0 .. MaxTime,
                 read : 0 .. MaxTime, got : [Rows -> Nat],
                 base : SUBSET Rows, jumped : BOOLEAN]
    /\ changes \in 0 .. MaxChanges

ListInit ==
    /\ kind \in Kinds
    /\ clock = 1
    /\ vis \in SUBSET Rows
    /\ pos \in [Rows -> {0, 1, Nil}]
    /\ \A i \in Rows : i \in vis <=> pos[i] # Nil
    /\ open = [i \in Rows |-> Nil]
    /\ \E n \in Asked : walk = NoWalk(n)
    /\ changes = 0

----------------------------------------------------------------------------
(* The table.                                                              *)

Change == changes < MaxChanges /\ changes' = changes + 1

(* created_at is now() of a transaction that commits later.  An id is not  *)
(* used again, but a member may join again.                                *)
BeginInsert(i) ==
    /\ Change /\ open[i] = Nil
    /\ pos[i] = Nil \/ kind.back = "new"
    /\ open' = [open EXCEPT ![i] = clock]
    /\ UNCHANGED <<kind, clock, pos, vis, walk>>

(* ON CONFLICT DO NOTHING for a member who is there.  got counts how often *)
(* the row was shown, and this one is new.                                 *)
CommitInsert(i) ==
    /\ open[i] # Nil
    /\ open' = [open EXCEPT ![i] = Nil]
    /\ IF pos[i] # Nil THEN UNCHANGED <<pos, vis, walk>>
       ELSE /\ pos' = [pos EXCEPT ![i] = open[i]]
            /\ vis' = vis \cup {i}
            /\ walk' = [walk EXCEPT !.got[i] = 0]
    /\ UNCHANGED <<kind, clock, changes>>

(* A row leaves the list: it has not been there all along.                 *)
Hide(i) ==
    /\ Change /\ kind.hides /\ i \in vis
    /\ vis' = vis \ {i}
    /\ pos' = IF kind.back = "new" THEN [pos EXCEPT ![i] = Nil] ELSE pos
    /\ walk' = [walk EXCEPT !.base = @ \ {i}]
    /\ UNCHANGED <<kind, clock, open>>

Return(i) ==
    /\ Change /\ kind.back = "same" /\ i \notin vis /\ pos[i] # Nil
    /\ vis' = vis \cup {i}
    /\ UNCHANGED <<kind, clock, pos, open, walk>>

Tick ==
    /\ clock < MaxTime
    /\ clock' = clock + 1
    /\ UNCHANGED <<kind, pos, vis, open, walk, changes>>

----------------------------------------------------------------------------
(* The pages.                                                              *)

(* Mutant: no default for a request without a limit.                       *)
PageSizeAsked(n) == IF n > MaxLimit THEN MaxLimit ELSE n

(* parseListLimit.                                                         *)
PageSize(n) ==
    CASE n = 0 -> DefaultLimit
      [] n > MaxLimit -> MaxLimit
      [] n \in 1 .. MaxLimit -> n

(* Mutant: rows of the cursor's own created_at are skipped.                *)
AfterTime(i, at, id) == IF kind.asc THEN pos[i] > at ELSE pos[i] < at

(* (created_at, id) > ($2, $3), or < for the lists that are newest first.  *)
After(i, at, id) ==
    IF kind.asc THEN pos[i] > at \/ (pos[i] = at /\ i > id)
    ELSE pos[i] < at \/ (pos[i] = at /\ i < id)

(* ORDER BY created_at, id.                                                *)
Precedes(i, j) ==
    IF kind.asc THEN pos[i] < pos[j] \/ (pos[i] = pos[j] /\ i < j)
    ELSE pos[j] < pos[i] \/ (pos[i] = pos[j] /\ j < i)

(* ... LIMIT: n of the rows, none of the others before them.               *)
IsPage(page, rows, n) ==
    /\ \A i \in page, j \in rows \ page : Precedes(i, j)
    /\ Cardinality(page) <= n
    /\ page # rows => Cardinality(page) = n

(* One row more than a page was fetched: it says whether there is another  *)
(* page, and the last row shown is where that one starts.                  *)
IsLast(c, page) == c \in page /\ \A i \in page \ {c} : Precedes(i, c)

Fetch(rows, w) ==
    /\ \E page \in SUBSET rows :
        /\ IsPage(page, rows, PageSize(w.limit))
        /\ LET shown == [w EXCEPT !.got = [i \in Rows |->
                           IF i \in page THEN w.got[i] + 1 ELSE w.got[i]]]
           IN IF page = rows
              THEN walk' = [shown EXCEPT !.at = "done"]
              ELSE \E c \in page : IsLast(c, page)
                      /\ walk' = [shown EXCEPT !.at = "resolve", !.cursor = c,
                                               !.given = pos[c]]
    /\ UNCHANGED <<kind, clock, pos, vis, open, changes>>

FirstPage ==
    /\ walk.at = "idle"
    /\ Fetch(vis, [walk EXCEPT !.base = vis])

(* The cursor's row is looked up again: its created_at, or a 400.  A       *)
(* cursor has jumped when its row is another one than the one it was given *)
(* for, which only a member who left and joined again brings about.        *)
Finds(c) == IF kind.holds THEN pos[c] # Nil ELSE c \in vis

ResolveCursor ==
    /\ walk.at = "resolve"
    /\ walk' = IF Finds(walk.cursor)
               THEN [walk EXCEPT !.at = "query", !.read = pos[walk.cursor],
                             !.jumped = @ \/ pos[walk.cursor] # walk.given]
               ELSE [walk EXCEPT !.at = "refused"]
    /\ UNCHANGED <<kind, clock, pos, vis, open, changes>>

NextPage ==
    /\ walk.at = "query"
    /\ Fetch({i \in vis : After(i, walk.read, walk.cursor)}, walk)

WalkStep == FirstPage \/ ResolveCursor \/ NextPage

ListNext ==
    \/ \E i \in Rows : BeginInsert(i) \/ CommitInsert(i) \/ Hide(i) \/ Return(i)
    \/ Tick
    \/ WalkStep

ListSpec == ListInit /\ [][ListNext]_listVars

(* The client of docs/API.md asks until it is given no cursor.             *)
ListFairSpec == ListSpec /\ WF_listVars(WalkStep)

----------------------------------------------------------------------------
(* No walk shows a row twice, and one that comes to its end has shown      *)
(* every row that was there all along, whatever came, went and came back   *)
(* meanwhile and however many rows share a created_at, unless its cursor   *)
(* jumped.  Rows and walk are well formed.                                 *)
EveryRowOnce ==
    /\ ListTypeOK
    /\ ~walk.jumped =>
          /\ \A i \in Rows : walk.got[i] <= 1
          /\ walk.at = "done" => \A i \in walk.base : walk.got[i] = 1

(* A client that follows the cursors comes to the last page, or is refused *)
(* because the row it stopped at is gone.                                  *)
WalkEnds == <>(walk.at \in {"done", "refused"})
=============================================================================
