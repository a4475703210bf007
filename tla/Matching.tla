------------------------------ MODULE Matching ------------------------------
(***************************************************************************)
(* The like button and the registration that claims a guest's likes        *)
(* (match_service.py, limit_guard.py, AuthService.register), as request    *)
(* handlers that run concurrently.                                         *)
(*                                                                         *)
(* Each request is one database transaction at READ COMMITTED: its writes  *)
(* (`put`, `gone`, `opened`) stay private until its commit, and each of    *)
(* its statements reads the rows committed by then.  A handler can die at  *)
(* any step, which rolls the transaction back; what it did to Redis stays. *)
(*                                                                         *)
(* Rows only ever appear, become visible or become mutual, so consecutive  *)
(* SELECTs of a handler amount to one evaluation at the moment the last    *)
(* that succeeds, or the first that fails, is run: TryMatch takes the      *)
(* lookups of try_create_mutual_match and _create_chat as one step.        *)
(***************************************************************************)
EXTENDS LikeLists

CONSTANTS Requests,            \* handlers that may run at the same time
          Taps,                \* <<person, card>>: the likes people attempt
          GuestLikeLimit, UserDailyLikeLimit, MaxActiveChats,   \* Settings
          NoOne

ASSUME SettingsAssumption == /\ IsFiniteSet(Requests) /\ Requests # {}
                             /\ Taps \subseteq Person \X Users
                             /\ GuestLikeLimit \in Nat
                             /\ UserDailyLikeLimit \in Nat
                             /\ MaxActiveChats \in Nat
                             /\ NoOne \notin Person

VARIABLES req,       \* the request each handler is working on
          counter,   \* Redis: likes:guest:<id>, and today's likes:daily:<id>
          spent,     \* history: likes that were admitted today and committed
          crossed    \* history: pairs whose two likes were in flight at once

vars == <<accounts, likes, chats, req, counter, spent, crossed>>

Ledger == INSTANCE LikeLedger WITH Users <- Users, InitialUsers <- InitialUsers,
                                   Guests <- Guests, accounts <- accounts,
                                   likes <- likes, chats <- chats

-----------------------------------------------------------------------------
(* A request: the actor (for a registration, the new account), its target  *)
(* (the liked user, or the guest to claim from), whether the limit was     *)
(* checked today, and the transaction: row versions written, keys of the   *)
(* committed rows they replace, receivers still to be tried for a match,   *)
(* chats inserted.                                                         *)
Step == {"idle", "admitted", "inserted", "counted", "claimed"}

Request == [step: Step, actor: Person \cup {NoOne}, target: Person \cup {NoOne},
            today: BOOLEAN, put: SUBSET LikeRow, gone: SUBSET (Person \X Users),
            todo: SUBSET Users, opened: SUBSET (SUBSET Users)]

Idle == [step |-> "idle", actor |-> NoOne, target |-> NoOne, today |-> FALSE,
         put |-> {}, gone |-> {}, todo |-> {}, opened |-> {}]

Limit(a) == IF a \in Guests THEN GuestLikeLimit ELSE UserDailyLikeLimit

\* The likes table as p's own transaction sees it.
View(p) == {l \in likes : Key(l) \notin req[p].gone} \cup req[p].put

\* Keys p has written, so that an insert of one of them waits for p to end.
Held(p) == {Key(l) : l \in req[p].put} \cup req[p].gone

HasRoom(p, u) ==
  Cardinality(ChatsOf(chats \cup req[p].opened, u)) < MaxActiveChats

\* The `m...' operators are faulty variants of the one that follows them.
\* The unique index: k has no row, and nobody is about to commit one.
mNoWait(p, k) == \A l \in likes : Key(l) # k

Insertable(p, k) == /\ \A l \in likes : Key(l) # k
                    /\ \A q \in Requests \ {p} : k \notin Held(q)

\* What enforce_like_limit reads.
mOffByOne(a) == counter[a] <= Limit(a)

WithinLimit(a) == counter[a] < Limit(a)

\* INCR by increment_like_counter.
mRefunded(a) == counter[a] - 1
mUsersOnly(a) == IF a \in Guests THEN counter[a] ELSE counter[a] + 1

Charged(a) == counter[a] + 1

\* 400 for oneself, 404 for an unknown receiver, 409 (or the IntegrityError of
\* an INSERT that lost the race) for a like that exists.
mNoConflict(a, x) == a = x \/ x \notin accounts

Refused(a, x) == \/ a = x
                 \/ x \notin accounts
                 \/ \E l \in likes : Key(l) = <<a, x>>

\* The rows try_create_mutual_match marks: the reverse like and p's own.
mForwardOnly(p, x) == {l \in View(p) : Key(l) = <<req[p].actor, x>>}

MatchedRows(p, x) ==
  {l \in View(p) : Key(l) \in {<<req[p].actor, x>>, <<x, req[p].actor>>}}

\* The rows of the guest that are committed when the UPDATE runs.
mRowsOfAll(g) == likes

RowsOf(g) == {l \in likes : l.sender = g}

\* The UPDATE waits for a rival claim of the same rows to end.
mNoRowLock(rows) == TRUE

Unlocked(rows) == \A q \in Requests : Held(q) \cap {Key(l) : l \in rows} = {}

\* uuid4: an id no account has, and no registration in flight.
mReused(u) == TRUE

Fresh(u) == u \notin accounts /\ \A q \in Requests : req[q].actor # u

Init == /\ TablesInit
        /\ req = [p \in Requests |-> Idle]
        /\ counter = [a \in Person |-> 0]
        /\ spent = [a \in Person |-> 0]
        /\ crossed = {}

-----------------------------------------------------------------------------
(* POST /interactions/like                                                 *)

\* enforce_like_limit: GET the counter.  A registered actor's account is
\* committed; a guest needs no row.
Admit(p, a, x) ==
  /\ req[p].step = "idle"
  /\ a \in accounts \cup Guests
  /\ WithinLimit(a)
  /\ req' = [req EXCEPT ![p] = [Idle EXCEPT !.step = "admitted", !.actor = a,
                                            !.target = x, !.today = TRUE]]
  /\ UNCHANGED <<tables, counter, spent, crossed>>

\* create_like up to the flush of the INSERT.  The unique index makes it wait
\* for any transaction that holds the key; crossed records who else is at it.
InsertLike(p) ==
  LET a == req[p].actor
      x == req[p].target
  IN /\ req[p].step = "admitted"
     /\ a # x
     /\ x \in accounts
     /\ Insertable(p, <<a, x>>)
     /\ req' = [req EXCEPT ![p].step = "inserted", ![p].todo = {x},
                           ![p].put = {NewLike(a, x)}]
     /\ crossed' = IF \E q \in Requests \ {p} : <<x, a>> \in Held(q)
                   THEN crossed \cup {{a, x}} ELSE crossed
     /\ UNCHANGED <<tables, counter, spent>>

Refuse(p) == /\ req[p].step = "admitted"
             /\ Refused(req[p].actor, req[p].target)
             /\ req' = [req EXCEPT ![p] = Idle]
             /\ UNCHANGED <<tables, counter, spent, crossed>>

\* try_create_mutual_match(actor, x), which a like runs once and a registration
\* for every row it claimed.  Both rows are marked before _create_chat counts
\* the chats of either side; no room means a match without a chat.
TryMatch(p, x) ==
  LET a == req[p].actor
      back == Reverse(View(p), a, x)
      both == MatchedRows(p, x)
  IN /\ req[p].step \in {"inserted", "claimed"}
     /\ x \in req[p].todo
     /\ IF back = {}
        THEN req' = [req EXCEPT ![p].todo = @ \ {x}]
        ELSE req' = [req EXCEPT
               ![p].todo = @ \ {x},
               ![p].put = (@ \ both) \cup MarkMutual(both),
               ![p].gone = @ \cup {Key(l) : l \in both},
               ![p].opened = IF HasRoom(p, a) /\ HasRoom(p, x)
                             THEN @ \cup ({{a, x}} \ chats) ELSE @]
     /\ UNCHANGED <<tables, counter, spent, crossed>>

\* increment_like_counter, before the commit.
Charge(p) ==
  /\ req[p].step = "inserted"
  /\ req[p].todo = {}
  /\ counter' = [counter EXCEPT ![req[p].actor] = Charged(req[p].actor)]
  /\ req' = [req EXCEPT ![p].step = "counted"]
  /\ UNCHANGED <<tables, spent, crossed>>

CommitLike(p) ==
  /\ req[p].step = "counted"
  /\ likes' = View(p)
  /\ chats' = chats \cup req[p].opened
  /\ spent' = [spent EXCEPT ![req[p].actor] = @ + (IF req[p].today THEN 1 ELSE 0)]
  /\ req' = [req EXCEPT ![p] = Idle]
  /\ UNCHANGED <<accounts, counter, crossed>>

-----------------------------------------------------------------------------
(* POST /auth/register                                                     *)

\* INSERT of the user under a fresh id, then the UPDATE that moves the guest's
\* rows to it.
ClaimLikes(p, u, g) ==
  LET rows == RowsOf(g)
  IN /\ req[p].step = "idle"
     /\ Fresh(u)
     /\ Unlocked(rows)
     /\ req' = [req EXCEPT ![p] =
          [Idle EXCEPT !.step = "claimed", !.actor = u, !.target = g,
                       !.put = {Claimed(l, u) : l \in rows},
                       !.gone = {Key(l) : l \in rows},
                       !.todo = {l.receiver : l \in rows}]]
     /\ UNCHANGED <<tables, counter, spent, crossed>>

CommitRegister(p) ==
  /\ req[p].step = "claimed"
  /\ req[p].todo = {}
  /\ accounts' = accounts \cup {req[p].actor}
  /\ likes' = View(p)
  /\ chats' = chats \cup req[p].opened
  /\ req' = [req EXCEPT ![p] = Idle]
  /\ UNCHANGED <<counter, spent, crossed>>

-----------------------------------------------------------------------------
\* The worker dies, the client's connection or the database's is lost.
Abort(p) == /\ req[p].step # "idle"
            /\ req' = [req EXCEPT ![p] = Idle]
            /\ UNCHANGED <<tables, counter, spent, crossed>>

\* Midnight UTC: users are counted under a new key, guests under the same.
NewDay ==
  /\ counter' = [a \in Person |-> IF a \in Guests THEN counter[a] ELSE 0]
  /\ spent' = [a \in Person |-> IF a \in Guests THEN spent[a] ELSE 0]
  /\ req' = [p \in Requests |->
               [req[p] EXCEPT !.today = @ /\ req[p].actor \in Guests]]
  /\ UNCHANGED <<tables, crossed>>

Serve(p) == \/ Refuse(p)
            \/ \E x \in Users : TryMatch(p, x)
            \/ Charge(p)
            \/ CommitLike(p)
            \/ CommitRegister(p)

Next == \/ \E p \in Requests :
             \/ \E tap \in Taps : Admit(p, tap[1], tap[2])
             \/ \E u \in Users, g \in Guests \cup {NoOne} : ClaimLikes(p, u, g)
             \/ InsertLike(p)
             \/ Serve(p)
             \/ Abort(p)
        \/ NewDay

Spec == Init /\ [][Next]_vars

\* The event loop runs every handler that can go on, and PostgreSQL queues
\* lock waiters first come, first served.
FairSpec == /\ Spec
            /\ \A p \in Requests : WF_vars(Serve(p)) /\ SF_vars(InsertLike(p))

-----------------------------------------------------------------------------
(* Properties.  Those of the tables are in LikeTables.                     *)

TypeOK == /\ TablesTypeOK
          /\ req \in [Requests -> Request]
          /\ counter \in [Person -> Nat]
          /\ spent \in [Person -> Nat]
          /\ crossed \subseteq SUBSET Person

\* A like that is on record was charged: the Redis counter, raised before the
\* commit, is never behind the likes committed since its key began, through
\* aborts, requests that straddle midnight and requests in flight.
CounterCoversLikes ==
  \A a \in Person :
    spent[a] + Cardinality({p \in Requests : /\ req[p].step = "counted"
                                            /\ req[p].actor = a
                                            /\ req[p].today}) <= counter[a]

\* Check-then-increment can overrun the limit that design/support.json:9 states,
\* but only by the handlers that run at once: a client that posts one like at a
\* time is held to it exactly.  The same holds of what a key is charged, with the
\* requests that were checked on the day before and with those that die later.
OverrunBounded ==
  \A a \in Person : /\ spent[a] <= Limit(a) + Cardinality(Requests) - 1
                    /\ counter[a] <= Limit(a) + Cardinality(Requests) - 1

\* The same for _create_chat and the cap of design/support.json:13: it counts
\* before it inserts, so concurrent matches of one person can overrun the cap by
\* the other handlers, no more.
ChatOverrunBounded ==
  \A u \in Users :
    Cardinality(ChatsOf(chats, u)) <= MaxActiveChats + Cardinality(Requests) - 1

\* Both limits are overrun by at most the handlers that run at once beside one.
LimitsOverrunBounded == OverrunBounded /\ ChatOverrunBounded

\* A visible pair of likes that never became mutual is one whose two requests
\* were in flight together; a like posted after the other's commit matches,
\* also when the other was a guest's and became visible by registration.
OnlyCrossedLikesMiss ==
  \A l, m \in likes :
    /\ Key(m) = Flip(Key(l))
    /\ l.visible /\ m.visible
    /\ ~l.mutual
    => {l.sender, l.receiver} \in crossed

\* Two transactions never hold the same row or open the same chat, so a
\* handler is never killed by uq_chat_users and UPDATEs never wait in TryMatch.
NoRivalWriters ==
  \A p, q \in Requests : p # q =>
    /\ Held(p) \cap Held(q) = {}
    /\ req[p].opened \cap (req[q].opened \cup chats) = {}

\* A registration matches nobody: it claims likes, but nobody can have liked an
\* account before it exists, so the loop over try_create_mutual_match is idle.
ClaimsNeverMatch ==
  \A p \in Requests : req[p].step = "claimed" =>
    /\ req[p].opened = {}
    /\ \A l \in req[p].put : ~l.mutual

\* A like outlives every race: from commit on, somebody has liked that
\* receiver - the sender, or the one account that claimed the guest's row -
\* and a mutual row stays as it is.
LikesAreKept ==
  [][\A l \in likes :
       \/ \E m \in likes' : /\ Key(m) = Key(l)
                            /\ l.visible => m.visible
                            /\ l.mutual => m.mutual
       \/ /\ l.sender \in Guests
          /\ \E u \in accounts' \ accounts : Claimed(l, u) \in likes']_vars

\* Every handler's steps amount to one step of the ledger, or to none.
RefinesLedger == Ledger!Spec

\* No handler waits for ever: waits on the unique index form no cycle.
EveryRequestEnds ==
  \A p \in Requests : req[p].step # "idle" ~> req[p].step = "idle"

-----------------------------------------------------------------------------
(* A claim of the repository's texts that the code does not keep.          *)

\* design/support.json:13, and the architecture rule "mutual likes open a
\* chat": two people who have liked each other are matched.
MutualLikesMatch ==
  \A l, m \in likes :
    Key(m) = Flip(Key(l)) /\ l.visible /\ m.visible => l.mutual
=============================================================================
