--------------------------- MODULE MatchingProofs ---------------------------
(***************************************************************************)
(* The handlers of Matching implement LikeLedger, for any people, taps,    *)
(* limits and number of concurrent requests; so the tables are always      *)
(* sound.                                                                  *)
(*                                                                         *)
(* The argument: what a request has written privately is, at every step,   *)
(* the difference one ledger step would make to the tables as they are now *)
(* (Shape), because no other transaction may hold the same keys (Locks).   *)
(* Shape is stated over a request and the tables' values, so that it can   *)
(* be moved from one state to the next.                                    *)
(***************************************************************************)
EXTENDS Matching, TLAPS

-----------------------------------------------------------------------------
(* The ledger.  It keeps the tables sound: TablesSound is inductive        *)
(* together with the types.  A claim moves hidden rows of a guest, which   *)
(* are never mutual, to an account that has no rows yet.                   *)

LedgerInv == TablesTypeOK /\ TablesSound

LEMMA LedgerInit == TablesInit => LedgerInv
  BY PeopleAssumption
  DEF TablesInit, LedgerInv, TablesTypeOK, TablesSound, OneLikePerPair,
      MutualIsSymmetric, ChatsComeFromMatches, HiddenUntilRegistered

\* The row a like adds.
LEMMA NewLikeRow ==
  ASSUME NEW a \in Person, NEW x \in Users
  PROVE  /\ NewLike(a, x) \in LikeRow
         /\ Key(NewLike(a, x)) = <<a, x>>
         /\ NewLike(a, x).sender = a
         /\ NewLike(a, x).receiver = x
         /\ NewLike(a, x).visible <=> a \in Users
         /\ ~NewLike(a, x).mutual
<1> DEFINE v == a \in Users
<1>1. NewLike(a, x) = [sender |-> a, receiver |-> x, visible |-> v, mutual |-> FALSE]
  BY DEF NewLike
<1>2. v \in BOOLEAN
  OBVIOUS
<1>3. v <=> a \in Users
  OBVIOUS
<1> HIDE DEF v
<1> QED BY <1>1, <1>2, <1>3 DEF LikeRow, Key

\* A plain like adds a row under a new key and touches nothing else.
LEMMA LikeStep ==
  ASSUME LedgerInv, NEW a \in Person, NEW x \in Users, Ledger!Like(a, x)
  PROVE  LedgerInv'
<1> DEFINE n == NewLike(a, x)
<1>1. /\ n \in LikeRow /\ Key(n) = <<a, x>> /\ n.sender = a /\ n.receiver = x
      /\ n.visible <=> a \in Users
      /\ ~n.mutual
  BY NewLikeRow
<1>2. /\ likes' = likes \cup {n} /\ accounts' = accounts /\ chats' = chats
      /\ a \in accounts \cup Guests /\ x \in accounts
      /\ \A l \in likes : Key(l) # <<a, x>>
  BY DEF Ledger!Like, Ledger!CanLike, Ledger!Key, Key, Ledger!NewLike, NewLike
<1> HIDE DEF n
<1>3. TablesTypeOK'
  BY <1>1, <1>2 DEF LedgerInv, TablesTypeOK
<1>4. OneLikePerPair'
  BY <1>1, <1>2 DEF LedgerInv, TablesSound, OneLikePerPair, Key
<1>5. MutualIsSymmetric'
  BY <1>1, <1>2 DEF LedgerInv, TablesSound, MutualIsSymmetric, Key, Flip
<1>6. ChatsComeFromMatches'
  BY <1>1, <1>2 DEF LedgerInv, TablesSound, ChatsComeFromMatches
<1>7. HiddenUntilRegistered'
  <2>1. n.sender \in IF n.visible THEN accounts ELSE Guests
    BY <1>1, <1>2, PeopleAssumption DEF Person, LedgerInv, TablesTypeOK
  <2> QED BY <2>1, <1>1, <1>2 DEF LedgerInv, TablesSound, HiddenUntilRegistered
<1> QED BY <1>3, <1>4, <1>5, <1>6, <1>7 DEF LedgerInv, TablesSound

\* A like that matches replaces the reverse row r by its marked version and
\* adds its own marked row.
LEMMA LikeBackStep ==
  ASSUME LedgerInv, NEW a \in Person, NEW x \in Users, Ledger!LikeBack(a, x)
  PROVE  LedgerInv'
<1> DEFINE n == [NewLike(a, x) EXCEPT !.mutual = TRUE]
<1>1. PICK r \in likes : Key(r) = <<x, a>> /\ r.visible
  BY DEF Ledger!LikeBack, Ledger!Reverse, Ledger!Key, Key
<1> DEFINE m == [r EXCEPT !.mutual = TRUE]
<1>2. Reverse(likes, a, x) = {r}
  BY <1>1 DEF Reverse, LedgerInv, TablesSound, OneLikePerPair
<1>3. /\ a \in accounts /\ x \in accounts /\ a # x
      /\ \A l \in likes : Key(l) # <<a, x>>
      /\ accounts' = accounts
      /\ chats' = chats \/ chats' = chats \cup {{a, x}}
  BY DEF Ledger!LikeBack, Ledger!CanLike, Ledger!Key, Key
<1>4. likes' = (likes \ {r}) \cup {m, n}
  BY <1>2 DEF Ledger!LikeBack, Ledger!Reverse, Reverse, Ledger!Key, Key,
              Ledger!MarkMutual, MarkMutual, Ledger!NewLike, NewLike
<1>5. a \in Users /\ r \in LikeRow
  BY <1>1, <1>3 DEF LedgerInv, TablesTypeOK
<1>6. /\ n \in LikeRow /\ Key(n) = <<a, x>> /\ n.sender = a /\ n.receiver = x
      /\ n.visible /\ n.mutual
  BY <1>5 DEF NewLike, LikeRow, Key, Person
<1>7. /\ m \in LikeRow /\ Key(m) = <<x, a>> /\ m.sender = x /\ m.receiver = a
      /\ m.visible /\ m.mutual
  BY <1>1, <1>5 DEF LikeRow, Key
<1> HIDE DEF m, n
<1>8. TablesTypeOK'
  BY <1>3, <1>4, <1>5, <1>6, <1>7 DEF LedgerInv, TablesTypeOK
<1>9. OneLikePerPair'
  <2>1. \A l \in likes : l # r => Key(l) # Key(m) /\ Key(l) # Key(n)
    BY <1>1, <1>3, <1>6, <1>7 DEF LedgerInv, TablesSound, OneLikePerPair
  <2>2. Key(m) # Key(n)
    BY <1>3, <1>6, <1>7
  <2> QED BY <2>1, <2>2, <1>4 DEF LedgerInv, TablesSound, OneLikePerPair
<1>10. MutualIsSymmetric'
  <2>1. Key(m) = Flip(Key(n)) /\ Key(n) = Flip(Key(m))
    BY <1>6, <1>7 DEF Flip
  <2>2. ASSUME NEW l \in likes, l # r, l.mutual
        PROVE  l.visible /\ \E k \in likes' : /\ Key(k) = Flip(Key(l))
                                              /\ k.visible /\ k.mutual
    <3>1. PICK k \in likes : Key(k) = Flip(Key(l)) /\ k.visible /\ k.mutual
      BY <2>2 DEF LedgerInv, TablesSound, MutualIsSymmetric
    <3>2. CASE k = r
      BY <3>1, <3>2, <2>2, <1>1, <1>4, <1>7
      DEF LedgerInv, TablesSound, MutualIsSymmetric
    <3>3. CASE k # r
      BY <3>1, <3>3, <2>2, <1>4 DEF LedgerInv, TablesSound, MutualIsSymmetric
    <3> QED BY <3>2, <3>3
  <2> QED BY <2>1, <2>2, <1>4, <1>6, <1>7 DEF MutualIsSymmetric
<1>11. ChatsComeFromMatches'
  <2>1. ASSUME NEW c \in chats
        PROVE  \E l \in likes' : l.mutual /\ c = {l.sender, l.receiver}
                                 /\ l.sender # l.receiver
    <3>1. PICK l \in likes : l.mutual /\ c = {l.sender, l.receiver}
                             /\ l.sender # l.receiver
      BY DEF LedgerInv, TablesSound, ChatsComeFromMatches
    <3>2. CASE l = r
      BY <3>1, <3>2, <1>1, <1>4, <1>7 DEF Key
    <3>3. CASE l # r
      BY <3>1, <3>3, <1>4
    <3> QED BY <3>2, <3>3
  <2>2. \E l \in likes' : l.mutual /\ {a, x} = {l.sender, l.receiver}
                          /\ l.sender # l.receiver
    BY <1>3, <1>4, <1>6
  <2> QED BY <2>1, <2>2, <1>3 DEF ChatsComeFromMatches
<1>12. HiddenUntilRegistered'
  BY <1>3, <1>4, <1>6, <1>7 DEF LedgerInv, TablesSound, HiddenUntilRegistered
<1> QED BY <1>8, <1>9, <1>10, <1>11, <1>12 DEF LedgerInv, TablesSound

\* A registration gives a guest's rows to an account that has none.
LEMMA JoinStep ==
  ASSUME LedgerInv, NEW u \in Users, NEW rows \in SUBSET likes, Ledger!Join(u, rows)
  PROVE  LedgerInv'
<1>1. /\ u \notin accounts /\ accounts' = accounts \cup {u} /\ chats' = chats
      /\ likes' = (likes \ rows) \cup {Claimed(l, u) : l \in rows}
  BY DEF Ledger!Join, Ledger!Claimed, Claimed
<1>2. \A l, m \in rows : l.sender \in Guests /\ l.sender = m.sender
  BY DEF Ledger!Join
<1>3. \A l \in rows : /\ l \in LikeRow
                      /\ ~l.visible /\ ~l.mutual
                      /\ l.receiver \in accounts
  BY <1>2, PeopleAssumption
  DEF LedgerInv, TablesTypeOK, TablesSound, HiddenUntilRegistered,
      MutualIsSymmetric
<1>4. \A l \in rows : /\ Claimed(l, u) \in LikeRow
                      /\ Key(Claimed(l, u)) = <<u, l.receiver>>
                      /\ Claimed(l, u).sender = u
                      /\ Claimed(l, u).receiver = l.receiver
                      /\ Claimed(l, u).visible /\ ~Claimed(l, u).mutual
  BY <1>3 DEF Claimed, LikeRow, Key, Person
<1>5. \A l \in likes : l.sender # u
  BY <1>1, PeopleAssumption DEF LedgerInv, TablesSound, HiddenUntilRegistered
<1>6. TablesTypeOK'
  BY <1>1, <1>4 DEF LedgerInv, TablesTypeOK
<1>7. OneLikePerPair'
  <2>1. \A l, k \in rows : l.receiver = k.receiver => l = k
    BY <1>2 DEF LedgerInv, TablesSound, OneLikePerPair, Key
  <2>2. \A l \in rows, k \in likes : Key(Claimed(l, u)) # Key(k)
    BY <1>4, <1>5 DEF Key
  <2>3. \A l, k \in rows : Key(Claimed(l, u)) = Key(Claimed(k, u)) => l = k
    BY <1>4, <2>1
  <2> QED BY <2>2, <2>3, <1>1 DEF LedgerInv, TablesSound, OneLikePerPair
<1>8. MutualIsSymmetric'
  BY <1>1, <1>3, <1>4 DEF LedgerInv, TablesSound, MutualIsSymmetric
<1>9. ChatsComeFromMatches'
  BY <1>1, <1>3 DEF LedgerInv, TablesSound, ChatsComeFromMatches
<1>10. HiddenUntilRegistered'
  BY <1>1, <1>3, <1>4 DEF LedgerInv, TablesSound, HiddenUntilRegistered
<1> QED BY <1>6, <1>7, <1>8, <1>9, <1>10 DEF LedgerInv, TablesSound

LEMMA LedgerStep == LedgerInv /\ [Ledger!Next]_tables => LedgerInv'
<1> SUFFICES ASSUME LedgerInv, [Ledger!Next]_tables
             PROVE  LedgerInv'
  OBVIOUS
<1>1. CASE Ledger!Next
  BY <1>1, LikeStep, LikeBackStep, JoinStep DEF Ledger!Next, Ledger!Person, Person
<1>2. CASE UNCHANGED tables
  BY <1>2
  DEF tables, LedgerInv, TablesTypeOK, TablesSound, OneLikePerPair,
      MutualIsSymmetric, ChatsComeFromMatches, HiddenUntilRegistered
<1> QED BY <1>1, <1>2

\* The promise of the ledger: after every like and every registration no pair
\* is liked twice, matches are two-sided, chats rest on matches, and a
\* receiver sees only senders with an account.
THEOREM LedgerSound == Ledger!Spec => []TablesSound
<1>1. LedgerInv => TablesSound
  BY DEF LedgerInv
<1>2. Ledger!TablesInit => TablesInit
  BY DEF Ledger!TablesInit, TablesInit
<1>3. [Ledger!Next]_<<accounts, likes, chats>> => [Ledger!Next]_tables
  BY DEF tables
<1> QED BY LedgerInit, LedgerStep, <1>1, <1>2, <1>3, PTL DEF Ledger!Spec, Ledger!tables

-----------------------------------------------------------------------------
(* What a request holds.                                                   *)

HeldBy(r) == {Key(l) : l \in r.put} \cup r.gone

Quiet(r) == r.put = {} /\ r.gone = {} /\ r.todo = {} /\ r.opened = {}

\* The request has inserted its like and found no match (yet).
Unmatched(r) == /\ r.put = {NewLike(r.actor, r.target)}
                /\ r.gone = {} /\ r.opened = {}
                /\ r.todo \subseteq {r.target}

\* It has marked its like and the committed reverse like.
Matched(r, rows, known) ==
  LET back == Reverse(rows, r.actor, r.target)
  IN /\ r.actor \in known
     /\ back # {}
     /\ r.put = MarkMutual(back \cup {NewLike(r.actor, r.target)})
     /\ r.gone = {<<r.actor, r.target>>, <<r.target, r.actor>>}
     /\ r.opened \subseteq {{r.actor, r.target}}
     /\ r.todo = {}

LikeInFlight(r, rows, known) ==
  /\ r.actor \in known \cup Guests
  /\ r.target \in known
  /\ r.actor # r.target
  /\ \A l \in rows : Key(l) # <<r.actor, r.target>>
  /\ Unmatched(r) \/ Matched(r, rows, known)

\* The rows a registration moves are still there, and are one guest's.
Moves(r, moved) ==
  /\ \A l, m \in moved : l.sender \in Guests /\ l.sender = m.sender
  /\ r.put = {Claimed(l, r.actor) : l \in moved}
  /\ r.gone = {Key(l) : l \in moved}

ClaimInFlight(r, rows, known) ==
  /\ r.actor \in Users \ known
  /\ r.opened = {}
  /\ \E moved \in SUBSET rows : Moves(r, moved)

Shape(r, rows, known) ==
  /\ r.step \in {"idle", "admitted"} => Quiet(r)
  /\ r.step = "admitted" => r.actor \in known \cup Guests /\ r.target \in Users
  /\ r.step \in {"inserted", "counted"} => LikeInFlight(r, rows, known)
  /\ r.step = "counted" => r.todo = {}
  /\ r.step = "claimed" => ClaimInFlight(r, rows, known)

Shapes == \A p \in Requests : Shape(req[p], likes, accounts)

\* Row locks and the unique index keep writers apart.
Locks == \A p, q \in Requests : p # q => HeldBy(req[p]) \cap HeldBy(req[q]) = {}

\* No two registrations in flight create the same id.
Newcomers == \A p, q \in Requests :
  p # q /\ req[p].step = "claimed" /\ req[q].step = "claimed"
    => req[p].actor # req[q].actor

MatchingInv == TypeOK /\ TablesSound /\ Shapes /\ Locks /\ Newcomers

-----------------------------------------------------------------------------
(* Types.                                                                  *)

LEMMA IdleType == Idle \in Request /\ Idle.step = "idle" /\ Quiet(Idle)
  BY DEF Idle, Request, Step, Quiet

LEMMA RowTypes ==
  /\ \A a \in Person, x \in Users : NewLike(a, x) \in LikeRow
  /\ \A l \in LikeRow : [l EXCEPT !.mutual = TRUE] \in LikeRow
  /\ \A l \in LikeRow, u \in Users : Claimed(l, u) \in LikeRow
<1>1. ASSUME NEW a \in Person, NEW x \in Users
      PROVE  NewLike(a, x) \in LikeRow
  BY NewLikeRow
<1>2. ASSUME NEW l \in LikeRow
      PROVE  [l EXCEPT !.mutual = TRUE] \in LikeRow
  BY DEF LikeRow
<1>3. ASSUME NEW l \in LikeRow, NEW u \in Users
      PROVE  Claimed(l, u) \in LikeRow
  <2>1. [l EXCEPT !.sender = u] \in LikeRow
    BY DEF LikeRow, Person
  <2> QED BY <2>1 DEF Claimed, LikeRow
<1> QED BY <1>1, <1>2, <1>3

-----------------------------------------------------------------------------
(* Moving Shape and Locks from one state to the next.                      *)

\* The facts about request q that MatchingInv provides.
LEMMA RequestFacts ==
  ASSUME MatchingInv, NEW q \in Requests
  PROVE  req[q] \in Request /\ Shape(req[q], likes, accounts)
  BY DEF MatchingInv, TypeOK, Shapes

\* A commit that leaves the keys r holds alone leaves r's shape alone.
LEMMA ShapeFrame ==
  ASSUME NEW r \in Request, NEW rows, NEW rows2, NEW known, NEW known2,
         Shape(r, rows, known),
         \A l : Key(l) \in HeldBy(r) => (l \in rows <=> l \in rows2),
         known \subseteq known2,
         r.step = "claimed" => r.actor \notin known2
  PROVE  Shape(r, rows2, known2)
<1>1. ASSUME r.step \in {"inserted", "counted"}
      PROVE  LikeInFlight(r, rows2, known2)
  <2> DEFINE a == r.actor
             x == r.target
  <2>1. LikeInFlight(r, rows, known)
    BY <1>1 DEF Shape
  <2>2. CASE Unmatched(r)
    <3>1. <<a, x>> \in HeldBy(r)
      BY <2>2 DEF Unmatched, HeldBy, Key, NewLike
    <3> QED BY <2>1, <2>2, <3>1 DEF LikeInFlight
  <2>3. CASE Matched(r, rows, known)
    <3>1. <<a, x>> \in HeldBy(r) /\ <<x, a>> \in HeldBy(r)
      BY <2>3 DEF Matched, HeldBy
    <3>2. Reverse(rows, a, x) = Reverse(rows2, a, x)
      BY <3>1 DEF Reverse
    <3>3. Matched(r, rows2, known2)
      BY <2>3, <3>2 DEF Matched
    <3> QED BY <2>1, <3>1, <3>3 DEF LikeInFlight
  <2> QED BY <2>1, <2>2, <2>3 DEF LikeInFlight
<1>2. ASSUME r.step = "claimed"
      PROVE  ClaimInFlight(r, rows2, known2)
  <2>1. ClaimInFlight(r, rows, known)
    BY <1>2 DEF Shape
  <2>2. PICK moved \in SUBSET rows : Moves(r, moved)
    BY <2>1 DEF ClaimInFlight
  <2>3. \A l \in moved : Key(l) \in HeldBy(r)
    BY <2>2 DEF Moves, HeldBy
  <2>4. moved \in SUBSET rows2
    BY <2>3
  <2> QED BY <1>2, <2>1, <2>2, <2>4 DEF ClaimInFlight
<1> QED BY <1>1, <1>2 DEF Shape

\* A step of p that commits nothing.
LEMMA LocalStep ==
  ASSUME MatchingInv, NEW p \in Requests, NEW n \in Request,
         req' = [req EXCEPT ![p] = n],
         UNCHANGED tables,
         Shape(n, likes, accounts),
         \A q \in Requests \ {p} : HeldBy(n) \cap HeldBy(req[q]) = {},
         n.step = "claimed" => \A q \in Requests \ {p} :
                                 req[q].step = "claimed" => n.actor # req[q].actor,
         counter' \in [Person -> Nat],
         spent' \in [Person -> Nat],
         crossed' \subseteq SUBSET Person
  PROVE  MatchingInv'
<1>1. req \in [Requests -> Request]
  BY DEF MatchingInv, TypeOK
<1>2. req'[p] = n /\ \A q \in Requests \ {p} : req'[q] = req[q]
  BY <1>1
<1>3. likes' = likes /\ accounts' = accounts /\ chats' = chats
  BY DEF tables
<1>4. TypeOK'
  BY <1>1, <1>3 DEF MatchingInv, TypeOK, TablesTypeOK
<1>5. TablesSound'
  BY <1>3 DEF MatchingInv, TablesSound, OneLikePerPair, MutualIsSymmetric,
              ChatsComeFromMatches, HiddenUntilRegistered
<1>6. Shapes'
  <2> SUFFICES ASSUME NEW q \in Requests
               PROVE  Shape(req'[q], likes', accounts')
    BY DEF Shapes
  <2> QED BY <1>2, <1>3, RequestFacts
<1>7. Locks'
  <2> SUFFICES ASSUME NEW q1 \in Requests, NEW q2 \in Requests, q1 # q2
               PROVE  HeldBy(req'[q1]) \cap HeldBy(req'[q2]) = {}
    BY DEF Locks
  <2>1. CASE q1 = p
    BY <2>1, <1>2
  <2>2. CASE q2 = p
    BY <2>2, <1>2
  <2>3. CASE q1 # p /\ q2 # p
    BY <2>3, <1>2 DEF MatchingInv, Locks
  <2> QED BY <2>1, <2>2, <2>3
<1>8. Newcomers'
  BY <1>2 DEF MatchingInv, Newcomers
<1> QED BY <1>4, <1>5, <1>6, <1>7, <1>8 DEF MatchingInv

\* A step that commits what p has written.
LEMMA CommitStep ==
  ASSUME MatchingInv, NEW p \in Requests,
         req' = [req EXCEPT ![p] = Idle],
         likes' = View(p),
         \/ accounts' = accounts
         \/ /\ req[p].step = "claimed"
            /\ accounts' = accounts \cup {req[p].actor},
         TablesTypeOK', TablesSound',
         counter' \in [Person -> Nat],
         spent' \in [Person -> Nat],
         crossed' \subseteq SUBSET Person
  PROVE  MatchingInv'
<1>1. req \in [Requests -> Request]
  BY DEF MatchingInv, TypeOK
<1>2. req'[p] = Idle /\ \A q \in Requests \ {p} : req'[q] = req[q]
  BY <1>1
<1>3. TypeOK'
  BY <1>1, IdleType DEF TypeOK
<1>4. Shapes'
  <2> SUFFICES ASSUME NEW q \in Requests
               PROVE  Shape(req'[q], likes', accounts')
    BY DEF Shapes
  <2>1. CASE q = p
    BY <2>1, <1>2, IdleType DEF Shape
  <2>2. CASE q # p
    <3>1. HeldBy(req[q]) \cap HeldBy(req[p]) = {}
      BY <2>2 DEF MatchingInv, Locks
    <3>2. \A l : Key(l) \in HeldBy(req[q]) => (l \in likes <=> l \in likes')
      BY <3>1 DEF View, HeldBy
    <3>3. req[q].step = "claimed" => req[q].actor \notin accounts'
      BY <2>2, RequestFacts
      DEF MatchingInv, Newcomers, Shape, ClaimInFlight
    <3>4. accounts \subseteq accounts'
      OBVIOUS
    <3>5. Shape(req[q], likes', accounts')
      BY <3>2, <3>3, <3>4, RequestFacts, ShapeFrame
    <3> QED BY <3>5, <2>2, <1>2
  <2> QED BY <2>1, <2>2
<1>5. Locks'
  <2> SUFFICES ASSUME NEW q1 \in Requests, NEW q2 \in Requests, q1 # q2
               PROVE  HeldBy(req'[q1]) \cap HeldBy(req'[q2]) = {}
    BY DEF Locks
  <2>1. HeldBy(Idle) = {}
    BY IdleType DEF HeldBy, Quiet
  <2>2. CASE q1 # p /\ q2 # p
    BY <2>2, <1>2 DEF MatchingInv, Locks
  <2> QED BY <2>1, <2>2, <1>2
<1>6. Newcomers'
  BY <1>2, IdleType DEF MatchingInv, Newcomers
<1> QED BY <1>3, <1>4, <1>5, <1>6 DEF MatchingInv

-----------------------------------------------------------------------------
(* One lemma per action.                                                   *)

LEMMA InitStep == Init => MatchingInv
<1> SUFFICES ASSUME Init
             PROVE  MatchingInv
  OBVIOUS
<1>1. req = [p \in Requests |-> Idle]
  BY DEF Init
<1>2. TypeOK
  BY <1>1, IdleType, PeopleAssumption DEF Init, TypeOK, TablesInit, TablesTypeOK
<1>3. TablesSound
  BY DEF Init, TablesInit, TablesSound, OneLikePerPair, MutualIsSymmetric,
         ChatsComeFromMatches, HiddenUntilRegistered
<1>4. Shapes
  BY <1>1, IdleType DEF Shapes, Shape
<1>5. HeldBy(Idle) = {}
  BY IdleType DEF HeldBy, Quiet
<1>6. Locks /\ Newcomers
  BY <1>1, <1>5, IdleType DEF Locks, Newcomers
<1> QED BY <1>2, <1>3, <1>4, <1>6 DEF MatchingInv

\* Whatever becomes idle holds nothing.
LEMMA EndStep ==
  ASSUME MatchingInv, NEW p \in Requests,
         req' = [req EXCEPT ![p] = Idle],
         UNCHANGED <<tables, counter, spent, crossed>>
  PROVE  MatchingInv'
<1>1. HeldBy(Idle) = {} /\ Shape(Idle, likes, accounts)
  BY IdleType DEF HeldBy, Quiet, Shape
<1>2. /\ counter' \in [Person -> Nat] /\ spent' \in [Person -> Nat]
      /\ crossed' \subseteq SUBSET Person
  BY DEF MatchingInv, TypeOK
<1> QED BY <1>1, <1>2, IdleType, LocalStep

LEMMA AdmitStep ==
  ASSUME MatchingInv, NEW p \in Requests, NEW a \in Person, NEW x \in Users,
         Admit(p, a, x)
  PROVE  MatchingInv'
<1> DEFINE n == [Idle EXCEPT !.step = "admitted", !.actor = a,
                             !.target = x, !.today = TRUE]
<1>1. /\ n \in Request /\ n.step = "admitted" /\ n.actor = a /\ n.target = x
      /\ Quiet(n)
  BY DEF Idle, Request, Step, Quiet, Person
<1>2. req' = [req EXCEPT ![p] = n]
  BY DEF Admit
<1> HIDE DEF n
<1>3. Shape(n, likes, accounts)
  BY <1>1 DEF Shape, Admit
<1>4. HeldBy(n) = {}
  BY <1>1 DEF HeldBy, Quiet
<1>5. /\ UNCHANGED tables
      /\ counter' \in [Person -> Nat] /\ spent' \in [Person -> Nat]
      /\ crossed' \subseteq SUBSET Person
  BY DEF Admit, MatchingInv, TypeOK
<1> QED BY <1>1, <1>2, <1>3, <1>4, <1>5, LocalStep

LEMMA InsertStep ==
  ASSUME MatchingInv, NEW p \in Requests, InsertLike(p)
  PROVE  MatchingInv'
<1> DEFINE r == req[p]
           a == r.actor
           x == r.target
           n == [r EXCEPT !.step = "inserted", !.todo = {x}, !.put = {NewLike(a, x)}]
<1>1. /\ r \in Request /\ r.step = "admitted" /\ Quiet(r)
      /\ a \in accounts \cup Guests /\ x \in accounts /\ a # x
      /\ Insertable(p, <<a, x>>)
  BY RequestFacts DEF InsertLike, Shape
<1>2. a \in Person /\ x \in Users
  BY <1>1 DEF MatchingInv, TypeOK, TablesTypeOK, Person
<1>3. NewLike(a, x) \in LikeRow /\ Key(NewLike(a, x)) = <<a, x>>
  BY <1>2, RowTypes DEF Key, NewLike
<1>4. n \in Request
  BY <1>1, <1>2, <1>3 DEF Request, Step
<1>5. /\ n.step = "inserted" /\ n.actor = a /\ n.target = x /\ n.todo = {x}
      /\ n.put = {NewLike(a, x)} /\ n.gone = {} /\ n.opened = {}
  BY <1>1 DEF Quiet, Request
<1>6. /\ req' = [req EXCEPT ![p] = n]
      /\ UNCHANGED <<tables, counter, spent>>
      /\ crossed' \subseteq crossed \cup {{a, x}}
  BY DEF InsertLike
<1> HIDE DEF n
<1>7. Shape(n, likes, accounts)
  BY <1>1, <1>5 DEF Shape, LikeInFlight, Unmatched, Insertable
<1>8. HeldBy(n) = {<<a, x>>}
  BY <1>3, <1>5 DEF HeldBy
<1>9. \A q \in Requests \ {p} : HeldBy(n) \cap HeldBy(req[q]) = {}
  BY <1>1, <1>8 DEF Insertable, Held, HeldBy
<1>10. /\ UNCHANGED tables
       /\ counter' \in [Person -> Nat] /\ spent' \in [Person -> Nat]
       /\ crossed' \subseteq SUBSET Person
  BY <1>2, <1>6 DEF MatchingInv, TypeOK, Person
<1>11. n.step # "claimed"
  BY <1>5
<1> QED BY <1>4, <1>6, <1>7, <1>9, <1>10, <1>11, LocalStep

\* increment_like_counter changes only the counter and the step.
LEMMA ChargeStep ==
  ASSUME MatchingInv, NEW p \in Requests, Charge(p)
  PROVE  MatchingInv'
<1> DEFINE r == req[p]
           n == [r EXCEPT !.step = "counted"]
<1>1. /\ r \in Request /\ r.step = "inserted" /\ r.todo = {}
      /\ LikeInFlight(r, likes, accounts)
  BY RequestFacts DEF Charge, Shape
<1>2. /\ n \in Request /\ n.step = "counted" /\ n.actor = r.actor
      /\ n.target = r.target /\ n.todo = {} /\ n.put = r.put
      /\ n.gone = r.gone /\ n.opened = r.opened
  BY <1>1 DEF Request, Step
<1>3. req' = [req EXCEPT ![p] = n] /\ UNCHANGED <<tables, spent, crossed>>
  BY DEF Charge
<1> HIDE DEF n
<1>4. Shape(n, likes, accounts)
  BY <1>1, <1>2 DEF Shape, LikeInFlight, Unmatched, Matched
<1>5. HeldBy(n) = HeldBy(r)
  BY <1>2 DEF HeldBy
<1>6. r.actor \in Person
  BY <1>1 DEF LikeInFlight, MatchingInv, TypeOK, TablesTypeOK, Person
<1>7. counter' \in [Person -> Nat]
  BY <1>6 DEF Charge, Charged, MatchingInv, TypeOK
<1>8. \A q \in Requests \ {p} : HeldBy(n) \cap HeldBy(req[q]) = {}
  BY <1>5 DEF MatchingInv, Locks
<1>9. UNCHANGED tables /\ spent' \in [Person -> Nat] /\ crossed' \subseteq SUBSET Person
  BY <1>3 DEF MatchingInv, TypeOK
<1>10. n.step # "claimed"
  BY <1>2
<1> QED BY <1>2, <1>3, <1>4, <1>7, <1>8, <1>9, <1>10, LocalStep

\* A registration in flight is liked by nobody: its id has no account.
LEMMA ClaimNeverMatches ==
  ASSUME MatchingInv, NEW p \in Requests, req[p].step = "claimed", NEW x \in Users
  PROVE  Reverse(View(p), req[p].actor, x) = {}
<1> DEFINE r == req[p]
           u == r.actor
<1>1. u \in Users \ accounts
  BY RequestFacts DEF Shape, ClaimInFlight
<1>2. PICK moved \in SUBSET likes : Moves(r, moved)
  BY RequestFacts DEF Shape, ClaimInFlight
<1>3. \A l \in likes : l \in LikeRow /\ l.receiver \in accounts
  BY DEF MatchingInv, TypeOK, TablesTypeOK, TablesSound, HiddenUntilRegistered
<1>4. \A l \in moved : Claimed(l, u).receiver = l.receiver
  BY <1>3 DEF Claimed, LikeRow
<1>5. \A l \in View(p) : l.receiver \in accounts
  BY <1>2, <1>3, <1>4 DEF View, Moves
<1> QED BY <1>1, <1>5 DEF Reverse, Key

\* A like in flight holds its own key, and at most the reverse one besides.
LEMMA LikeHolds ==
  ASSUME NEW r, NEW rows \in SUBSET LikeRow, NEW known,
         LikeInFlight(r, rows, known)
  PROVE  /\ HeldBy(r) \subseteq {<<r.actor, r.target>>, <<r.target, r.actor>>}
         /\ <<r.actor, r.target>> \in HeldBy(r)
<1> DEFINE n == NewLike(r.actor, r.target)
           back == Reverse(rows, r.actor, r.target)
<1>1. CASE Unmatched(r)
  BY <1>1 DEF Unmatched, HeldBy, Key, NewLike
<1>2. CASE Matched(r, rows, known)
  <2>1. \A l \in back : Key([l EXCEPT !.mutual = TRUE]) = <<r.target, r.actor>>
    BY DEF Reverse, Key, LikeRow
  <2>2. Key([n EXCEPT !.mutual = TRUE]) = <<r.actor, r.target>>
    BY DEF Key, NewLike
  <2>3. r.put = {[l EXCEPT !.mutual = TRUE] : l \in back \cup {n}}
    BY <1>2 DEF Matched, MarkMutual
  <2>4. r.gone = {<<r.actor, r.target>>, <<r.target, r.actor>>}
    BY <1>2 DEF Matched
  <2>5. \A l \in r.put : Key(l) \in {<<r.actor, r.target>>, <<r.target, r.actor>>}
    BY <2>1, <2>2, <2>3
  <2> QED BY <2>4, <2>5 DEF HeldBy
<1> QED BY <1>1, <1>2 DEF LikeInFlight

\* What a like that has just been inserted finds: the committed visible
\* reverse row, if any, which nobody else holds.
LEMMA LikeFinds ==
  ASSUME MatchingInv, NEW p \in Requests, req[p].step = "inserted",
         Unmatched(req[p])
  PROVE  LET a == req[p].actor
             x == req[p].target
             back == Reverse(likes, a, x)
         IN /\ Reverse(View(p), a, x) = back
            /\ back # {} =>
                 /\ a \in accounts
                 /\ MatchedRows(p, x) = back \cup {NewLike(a, x)}
                 /\ \A q \in Requests \ {p} : <<x, a>> \notin HeldBy(req[q])
<1> DEFINE r == req[p]
           a == r.actor
           x == r.target
           back == Reverse(likes, a, x)
<1>1. LikeInFlight(r, likes, accounts)
  BY RequestFacts DEF Shape
<1>2. Key(NewLike(a, x)) = <<a, x>> /\ a # x
  BY <1>1 DEF Key, NewLike, LikeInFlight
<1>3. View(p) = likes \cup {NewLike(a, x)}
  BY DEF View, Unmatched
<1>4. Reverse(View(p), a, x) = back
  BY <1>2, <1>3 DEF Reverse
<1>5. ASSUME back # {}
      PROVE  /\ a \in accounts
             /\ MatchedRows(p, x) = back \cup {NewLike(a, x)}
             /\ \A q \in Requests \ {p} : <<x, a>> \notin HeldBy(req[q])
  <2>1. PICK b \in likes : Key(b) = <<x, a>> /\ b.visible
    BY <1>5 DEF Reverse
  <2>2. b.sender = x /\ b.receiver = a /\ b.sender \in accounts /\ b.receiver \in accounts
    BY <2>1 DEF Key, MatchingInv, TablesSound, HiddenUntilRegistered
  <2>3. \A l \in likes : Key(l) = <<x, a>> => l = b
    BY <2>1 DEF MatchingInv, TablesSound, OneLikePerPair
  <2>4. \A l \in likes : Key(l) # <<a, x>>
    BY <1>1 DEF LikeInFlight
  <2>5. MatchedRows(p, x) = back \cup {NewLike(a, x)}
    BY <1>2, <1>3, <2>1, <2>3, <2>4 DEF MatchedRows, Reverse
  <2>6. ASSUME NEW q \in Requests \ {p}, <<x, a>> \in HeldBy(req[q])
        PROVE  FALSE
    <3> DEFINE s == req[q]
    <3>1. s \in Request /\ Shape(s, likes, accounts)
      BY RequestFacts
    <3>2. <<a, x>> \in HeldBy(r) /\ HeldBy(r) \cap HeldBy(s) = {}
      BY <1>2 DEF Unmatched, HeldBy, MatchingInv, Locks
    <3>3. CASE s.step \in {"idle", "admitted"}
      BY <2>6, <3>1, <3>3 DEF Shape, Quiet, HeldBy
    <3>4. CASE s.step \in {"inserted", "counted"}
      <4>1. LikeInFlight(s, likes, accounts)
        BY <3>1, <3>4 DEF Shape
      <4>2. /\ HeldBy(s) \subseteq {<<s.actor, s.target>>, <<s.target, s.actor>>}
            /\ <<s.actor, s.target>> \in HeldBy(s)
        BY <4>1, LikeHolds DEF MatchingInv, TypeOK, TablesTypeOK
      <4>3. <<s.actor, s.target>> # <<x, a>>
        BY <2>1, <4>1 DEF LikeInFlight
      <4>4. <<s.target, s.actor>> = <<x, a>>
        BY <2>6, <4>2, <4>3
      <4>5. <<s.actor, s.target>> = <<a, x>>
        BY <4>4
      <4> QED BY <3>2, <4>2, <4>5
    <3>5. CASE s.step = "claimed"
      <4>1. s.actor \in Users \ accounts
        BY <3>1, <3>5 DEF Shape, ClaimInFlight
      <4>2. PICK moved \in SUBSET likes : Moves(s, moved)
        BY <3>1, <3>5 DEF Shape, ClaimInFlight
      <4>3. \A l \in moved : Key(Claimed(l, s.actor)) # <<x, a>>
        <5>1. \A l \in moved : l \in LikeRow
          BY DEF MatchingInv, TypeOK, TablesTypeOK
        <5> QED BY <2>2, <4>1, <5>1 DEF Claimed, Key, LikeRow
      <4>4. \A l \in moved : Key(l) # <<x, a>>
        BY <2>2, <4>2, PeopleAssumption
        DEF Moves, Key, MatchingInv, TypeOK, TablesTypeOK
      <4> QED BY <2>6, <4>2, <4>3, <4>4 DEF Moves, HeldBy
    <3> QED BY <3>1, <3>3, <3>4, <3>5 DEF Request, Step
  <2> QED BY <2>2, <2>5, <2>6
<1> QED BY <1>4, <1>5

LEMMA MatchStep ==
  ASSUME MatchingInv, NEW p \in Requests, NEW x \in Users, TryMatch(p, x)
  PROVE  MatchingInv'
<1> DEFINE r == req[p]
           a == r.actor
           back == Reverse(View(p), a, x)
           both == MatchedRows(p, x)
<1>1. r \in Request /\ Shape(r, likes, accounts)
  BY RequestFacts
<1>2. /\ UNCHANGED tables
      /\ counter' \in [Person -> Nat] /\ spent' \in [Person -> Nat]
      /\ crossed' \subseteq SUBSET Person
  BY DEF TryMatch, MatchingInv, TypeOK
<1>3. r.step \in {"inserted", "claimed"} /\ x \in r.todo
  BY DEF TryMatch
<1>4. r.step = "inserted" => r.target = x /\ Unmatched(r)
  BY <1>1, <1>3 DEF Shape, LikeInFlight, Unmatched, Matched
<1>5. CASE back = {}
  <2> DEFINE n == [r EXCEPT !.todo = @ \ {x}]
  <2>1. req' = [req EXCEPT ![p] = n]
    BY <1>5 DEF TryMatch
  <2>2. /\ n \in Request /\ n.step = r.step /\ n.actor = a /\ n.target = r.target
        /\ n.put = r.put /\ n.gone = r.gone /\ n.opened = r.opened
        /\ n.todo = r.todo \ {x}
    BY <1>1 DEF Request
  <2> HIDE DEF n
  <2>3. Shape(n, likes, accounts)
    <3>1. CASE r.step = "inserted"
      BY <3>1, <1>1, <1>4, <2>2 DEF Shape, LikeInFlight, Unmatched
    <3>2. CASE r.step = "claimed"
      BY <3>2, <1>1, <2>2 DEF Shape, ClaimInFlight, Moves
    <3> QED BY <1>3, <3>1, <3>2
  <2>4. HeldBy(n) = HeldBy(r)
    BY <2>2 DEF HeldBy
  <2>5. \A q \in Requests \ {p} : HeldBy(n) \cap HeldBy(req[q]) = {}
    BY <2>4 DEF MatchingInv, Locks
  <2>6. n.step = "claimed" => \A q \in Requests \ {p} :
                                req[q].step = "claimed" => n.actor # req[q].actor
    BY <2>2 DEF MatchingInv, Newcomers
  <2> QED BY <1>2, <2>1, <2>2, <2>3, <2>5, <2>6, LocalStep
<1>6. CASE back # {}
  <2> DEFINE n == [r EXCEPT
               !.todo = @ \ {x},
               !.put = (@ \ both) \cup MarkMutual(both),
               !.gone = @ \cup {Key(l) : l \in both},
               !.opened = IF HasRoom(p, a) /\ HasRoom(p, x)
                          THEN @ \cup ({{a, x}} \ chats) ELSE @]
             new == NewLike(a, x)
  <2>1. req' = [req EXCEPT ![p] = n]
    BY <1>6 DEF TryMatch
  <2>2. /\ r.step = "inserted" /\ r.target = x /\ Unmatched(r)
        /\ LikeInFlight(r, likes, accounts)
    BY <1>1, <1>3, <1>4, <1>6, ClaimNeverMatches DEF Shape
  <2>3. /\ back = Reverse(likes, a, x)
        /\ a \in accounts
        /\ both = back \cup {new}
        /\ \A q \in Requests \ {p} : <<x, a>> \notin HeldBy(req[q])
    BY <2>2, <1>6, LikeFinds
  <2>4. a \in Users /\ a \in Person /\ new \in LikeRow /\ both \subseteq LikeRow
    <3>1. a \in Users /\ a \in Person
      BY <2>3 DEF MatchingInv, TypeOK, TablesTypeOK, Person
    <3>2. new \in LikeRow
      BY <3>1, RowTypes
    <3>3. back \subseteq LikeRow
      BY <2>3 DEF Reverse, MatchingInv, TypeOK, TablesTypeOK
    <3> QED BY <3>1, <3>2, <3>3, <2>3
  <2>5. {Key(l) : l \in both} = {<<a, x>>, <<x, a>>}
    <3>1. Key(new) = <<a, x>>
      BY DEF Key, NewLike
    <3>2. \A l \in back : Key(l) = <<x, a>>
      BY DEF Reverse
    <3> QED BY <3>1, <3>2, <2>3, <1>6
  <2>6. r.put \ both = {} /\ r.gone = {} /\ r.opened = {}
    BY <2>2, <2>3 DEF Unmatched
  <2>7. /\ n.step = "inserted" /\ n.actor = a /\ n.target = x
        /\ n.todo = {}
        /\ n.put = MarkMutual(both)
        /\ n.gone = {<<a, x>>, <<x, a>>}
        /\ n.opened \subseteq {{a, x}}
    BY <1>1, <2>2, <2>5, <2>6 DEF Request, Unmatched
  <2>8. MarkMutual(both) \subseteq LikeRow
    BY <2>4, RowTypes DEF MarkMutual
  <2>9. n \in Request
    <3>1. n.put \in SUBSET LikeRow /\ n.opened \in SUBSET (SUBSET Users)
      BY <2>4, <2>7, <2>8
    <3>2. n.gone \in SUBSET (Person \X Users)
      BY <2>4, <2>7 DEF Person
    <3>3. n.todo \in SUBSET Users
      BY <2>7
    <3>4. n = [r EXCEPT !.todo = n.todo, !.put = n.put, !.gone = n.gone,
                        !.opened = n.opened]
      BY <1>1 DEF Request
    <3> HIDE DEF n
    <3> QED BY <1>1, <3>1, <3>2, <3>3, <3>4 DEF Request
  <2> HIDE DEF n
  <2>10. Shape(n, likes, accounts)
    <3>1. Matched(n, likes, accounts)
      BY <2>3, <2>7, <1>6 DEF Matched
    <3> QED BY <2>2, <2>7, <3>1 DEF Shape, LikeInFlight
  <2>11. HeldBy(n) \subseteq {<<a, x>>, <<x, a>>}
    BY <2>7, <2>10, LikeHolds DEF Shape, MatchingInv, TypeOK, TablesTypeOK
  <2>12. \A q \in Requests \ {p} : HeldBy(n) \cap HeldBy(req[q]) = {}
    <3>1. <<a, x>> \in HeldBy(r)
      BY <2>2, LikeHolds DEF MatchingInv, TypeOK, TablesTypeOK
    <3>2. \A q \in Requests \ {p} : <<a, x>> \notin HeldBy(req[q])
      BY <3>1 DEF MatchingInv, Locks
    <3> QED BY <3>2, <2>3, <2>11
  <2>13. n.step # "claimed"
    BY <2>7
  <2> QED BY <1>2, <2>1, <2>9, <2>10, <2>12, <2>13, LocalStep
<1> QED BY <1>5, <1>6

LEMMA ClaimStep ==
  ASSUME MatchingInv, NEW p \in Requests, NEW u \in Users,
         NEW g \in Guests \cup {NoOne}, ClaimLikes(p, u, g)
  PROVE  MatchingInv'
<1> DEFINE rows == RowsOf(g)
           n == [Idle EXCEPT !.step = "claimed", !.actor = u, !.target = g,
                             !.put = {Claimed(l, u) : l \in rows},
                             !.gone = {Key(l) : l \in rows},
                             !.todo = {l.receiver : l \in rows}]
<1>1. /\ req' = [req EXCEPT ![p] = n]
      /\ Fresh(u) /\ Unlocked(rows)
      /\ UNCHANGED <<tables, counter, spent, crossed>>
  BY DEF ClaimLikes
<1>2. /\ rows \subseteq likes /\ rows \subseteq LikeRow
      /\ \A l \in rows : l.sender = g
  BY DEF RowsOf, MatchingInv, TypeOK, TablesTypeOK
<1>3. \A l \in rows : g \in Guests
  BY <1>2, SettingsAssumption DEF LikeRow
<1>4. /\ n.step = "claimed" /\ n.actor = u /\ n.opened = {}
      /\ n.put = {Claimed(l, u) : l \in rows}
      /\ n.gone = {Key(l) : l \in rows}
  BY DEF Idle
<1>5. \A l \in rows : Key(l) \in Person \X Users /\ l.receiver \in Users
  BY <1>2 DEF Key, LikeRow
<1>6. n \in Request
  <2>1. {Claimed(l, u) : l \in rows} \in SUBSET LikeRow
    BY <1>2, RowTypes
  <2>2. {Key(l) : l \in rows} \in SUBSET (Person \X Users)
    BY <1>5
  <2>3. {l.receiver : l \in rows} \in SUBSET Users
    BY <1>5
  <2> HIDE DEF rows
  <2> QED BY <2>1, <2>2, <2>3 DEF Idle, Request, Step, Person
<1> HIDE DEF n
<1>7. Shape(n, likes, accounts)
  <2>1. Moves(n, rows)
    BY <1>2, <1>3, <1>4 DEF Moves
  <2> QED BY <1>1, <1>2, <1>4, <2>1 DEF Shape, ClaimInFlight, Fresh
<1>8. ASSUME NEW q \in Requests \ {p}
      PROVE  HeldBy(n) \cap HeldBy(req[q]) = {}
  <2> DEFINE s == req[q]
  <2>1. HeldBy(s) \cap {Key(l) : l \in rows} = {}
    BY <1>1 DEF Unlocked, Held, HeldBy
  <2>2. \A l \in rows : Key(Claimed(l, u)) = <<u, l.receiver>>
    BY <1>2 DEF Claimed, Key, LikeRow
  <2>3. u \notin accounts /\ u \notin Guests /\ s.actor # u
    BY <1>1, PeopleAssumption DEF Fresh
  <2>4. \A k \in HeldBy(s) : k[1] # u
    <3>1. s \in Request /\ Shape(s, likes, accounts)
      BY RequestFacts
    <3>2. CASE s.step \in {"idle", "admitted"}
      BY <3>1, <3>2 DEF Shape, Quiet, HeldBy
    <3>3. CASE s.step \in {"inserted", "counted"}
      <4>1. LikeInFlight(s, likes, accounts)
        BY <3>1, <3>3 DEF Shape
      <4>2. HeldBy(s) \subseteq {<<s.actor, s.target>>, <<s.target, s.actor>>}
        BY <4>1, LikeHolds DEF MatchingInv, TypeOK, TablesTypeOK
      <4> QED BY <2>3, <4>1, <4>2 DEF LikeInFlight
    <3>4. CASE s.step = "claimed"
      <4>1. PICK moved \in SUBSET likes : Moves(s, moved)
        BY <3>1, <3>4 DEF Shape, ClaimInFlight
      <4>2. s.actor \in Users
        BY <3>1, <3>4 DEF Shape, ClaimInFlight
      <4>3. \A l \in moved : l \in LikeRow /\ l.sender \in Guests
        BY <4>1 DEF Moves, MatchingInv, TypeOK, TablesTypeOK
      <4>4. \A l \in moved : Key(Claimed(l, s.actor))[1] = s.actor
        BY <4>3 DEF Claimed, Key, LikeRow
      <4>5. \A l \in moved : Key(l)[1] # u
        BY <2>3, <4>3 DEF Key
      <4> QED BY <2>3, <4>1, <4>4, <4>5 DEF Moves, HeldBy
    <3> QED BY <3>1, <3>2, <3>3, <3>4 DEF Request, Step
  <2> QED BY <1>4, <2>1, <2>2, <2>4 DEF HeldBy
<1>9. \A q \in Requests \ {p} : n.actor # req[q].actor
  BY <1>1, <1>4 DEF Fresh
<1>10. /\ UNCHANGED tables
       /\ counter' \in [Person -> Nat] /\ spent' \in [Person -> Nat]
       /\ crossed' \subseteq SUBSET Person
  BY <1>1 DEF MatchingInv, TypeOK
<1> QED BY <1>1, <1>6, <1>7, <1>8, <1>9, <1>10, LocalStep

\* Shape does not look at the field `today'.
LEMMA SameShape ==
  ASSUME NEW r, NEW n, NEW rows, NEW known, Shape(r, rows, known),
         n.step = r.step, n.actor = r.actor, n.target = r.target, n.put = r.put,
         n.gone = r.gone, n.todo = r.todo, n.opened = r.opened
  PROVE  Shape(n, rows, known)
<1>1. Quiet(r) => Quiet(n)
  BY DEF Quiet
<1>2. Unmatched(r) => Unmatched(n)
  BY DEF Unmatched
<1>3. Matched(r, rows, known) => Matched(n, rows, known)
  BY DEF Matched
<1>4. LikeInFlight(r, rows, known) => LikeInFlight(n, rows, known)
  BY <1>2, <1>3 DEF LikeInFlight
<1>5. \A moved : Moves(r, moved) => Moves(n, moved)
  BY DEF Moves
<1>6. ClaimInFlight(r, rows, known) => ClaimInFlight(n, rows, known)
  BY <1>5 DEF ClaimInFlight
<1> QED BY <1>1, <1>4, <1>6 DEF Shape

\* Midnight touches only the counters and the flag.
LEMMA NewDayStep == MatchingInv /\ NewDay => MatchingInv'
<1> SUFFICES ASSUME MatchingInv, NewDay
             PROVE  MatchingInv'
  OBVIOUS
<1>1. UNCHANGED tables /\ crossed' = crossed
  BY DEF NewDay
<1>2. ASSUME NEW p \in Requests
      PROVE  /\ req'[p] \in Request
             /\ req'[p].step = req[p].step /\ req'[p].actor = req[p].actor
             /\ req'[p].target = req[p].target /\ req'[p].put = req[p].put
             /\ req'[p].gone = req[p].gone /\ req'[p].todo = req[p].todo
             /\ req'[p].opened = req[p].opened
  <2> DEFINE flag == req[p].today /\ req[p].actor \in Guests
  <2>1. req[p] \in Request
    BY RequestFacts
  <2>2. flag \in BOOLEAN
    BY <2>1 DEF Request
  <2>3. req'[p] = [req[p] EXCEPT !.today = flag]
    BY DEF NewDay
  <2> HIDE DEF flag
  <2> QED BY <2>1, <2>2, <2>3 DEF Request
<1>3. req' \in [Requests -> Request]
  <2>1. req' = [p \in Requests |-> req'[p]]
    BY DEF NewDay
  <2> QED BY <2>1, <1>2
<1>4. counter' \in [Person -> Nat] /\ spent' \in [Person -> Nat]
  BY DEF NewDay, MatchingInv, TypeOK
<1>5. TypeOK' /\ TablesSound'
  BY <1>1, <1>3, <1>4
  DEF tables, MatchingInv, TypeOK, TablesTypeOK, TablesSound, OneLikePerPair,
      MutualIsSymmetric, ChatsComeFromMatches, HiddenUntilRegistered
<1>6. \A p \in Requests : HeldBy(req'[p]) = HeldBy(req[p])
  BY <1>2 DEF HeldBy
<1>7. Shapes'
  <2> SUFFICES ASSUME NEW p \in Requests
               PROVE  Shape(req'[p], likes', accounts')
    BY DEF Shapes
  <2>1. Shape(req[p], likes, accounts)
    BY RequestFacts
  <2>2. Shape(req'[p], likes, accounts)
    BY <1>2, <2>1, SameShape
  <2> QED BY <1>1, <2>2 DEF tables
<1>8. Locks' /\ Newcomers'
  BY <1>2, <1>6 DEF MatchingInv, Locks, Newcomers
<1> QED BY <1>5, <1>7, <1>8 DEF MatchingInv

-----------------------------------------------------------------------------
(* The commits are ledger steps.                                           *)

LEMMA CommitLikeLedger ==
  ASSUME MatchingInv, NEW p \in Requests, CommitLike(p)
  PROVE  Ledger!Next
<1> DEFINE r == req[p]
           a == r.actor
           x == r.target
           back == Reverse(likes, a, x)
<1>1. LikeInFlight(r, likes, accounts) /\ r.todo = {}
  BY RequestFacts DEF CommitLike, Shape
<1>2. a \in Person /\ x \in Users
  BY <1>1 DEF LikeInFlight, MatchingInv, TypeOK, TablesTypeOK, Person
<1>3. Ledger!CanLike(a, x)
  BY <1>1 DEF LikeInFlight, Ledger!CanLike, Ledger!Key, Key
<1>4. /\ likes' = View(p) /\ chats' = chats \cup r.opened
      /\ accounts' = accounts
  BY DEF CommitLike
<1>5. CASE Unmatched(r)
  <2>1. likes' = likes \cup {NewLike(a, x)} /\ chats' = chats
    BY <1>4, <1>5 DEF Unmatched, View
  <2>2. Ledger!Like(a, x)
    BY <1>3, <1>4, <2>1 DEF Ledger!Like, Ledger!NewLike, NewLike
  <2> QED BY <1>2, <2>2 DEF Ledger!Next, Ledger!Person, Person
<1>6. CASE Matched(r, likes, accounts)
  <2>1. /\ a \in accounts /\ back # {}
        /\ r.put = MarkMutual(back \cup {NewLike(a, x)})
        /\ r.gone = {<<a, x>>, <<x, a>>}
        /\ r.opened \subseteq {{a, x}}
    BY <1>6 DEF Matched
  <2>2. \A l \in likes : Key(l) \in r.gone <=> l \in back
    <3>1. \A l \in likes : Key(l) # <<a, x>>
      BY <1>1 DEF LikeInFlight
    <3>2. \A l \in likes : Key(l) = <<x, a>> => l \in back
      BY <2>1 DEF Reverse, MatchingInv, TablesSound, OneLikePerPair
    <3> QED BY <2>1, <3>1, <3>2 DEF Reverse
  <2>3. likes' = (likes \ back) \cup MarkMutual(back \cup {NewLike(a, x)})
    BY <1>4, <2>1, <2>2 DEF View
  <2>4. chats' \in {chats, chats \cup {{a, x}}}
    <3>1. r.opened = {} \/ r.opened = {{a, x}}
      BY <2>1
    <3>2. CASE r.opened = {}
      BY <1>4, <3>2
    <3>3. CASE r.opened = {{a, x}}
      BY <1>4, <3>3
    <3> QED BY <3>1, <3>2, <3>3
  <2>5. Ledger!LikeBack(a, x)
    BY <1>3, <1>4, <2>1, <2>3, <2>4
    DEF Ledger!LikeBack, Ledger!Reverse, Reverse, Ledger!Key, Key, Ledger!MarkMutual, MarkMutual,
        Ledger!NewLike, NewLike
  <2> QED BY <1>2, <2>5 DEF Ledger!Next, Ledger!Person, Person
<1> QED BY <1>1, <1>5, <1>6 DEF LikeInFlight

LEMMA CommitRegisterLedger ==
  ASSUME MatchingInv, NEW p \in Requests, CommitRegister(p)
  PROVE  Ledger!Next
<1> DEFINE r == req[p]
           u == r.actor
<1>1. ClaimInFlight(r, likes, accounts)
  BY RequestFacts DEF CommitRegister, Shape
<1>2. PICK moved \in SUBSET likes : Moves(r, moved)
  BY <1>1 DEF ClaimInFlight
<1>3. u \in Users \ accounts /\ r.opened = {}
  BY <1>1 DEF ClaimInFlight
<1>4. /\ likes' = View(p) /\ chats' = chats /\ accounts' = accounts \cup {u}
  BY <1>3 DEF CommitRegister
<1>5. \A l \in likes : Key(l) \in r.gone <=> l \in moved
  BY <1>2 DEF Moves, MatchingInv, TablesSound, OneLikePerPair
<1>6. likes' = (likes \ moved) \cup {Claimed(l, u) : l \in moved}
  BY <1>2, <1>4, <1>5 DEF View, Moves
<1>7. Ledger!Join(u, moved)
  BY <1>2, <1>3, <1>4, <1>6 DEF Ledger!Join, Moves, Ledger!Claimed, Claimed
<1> QED BY <1>3, <1>7 DEF Ledger!Next

\* What a commit's ledger step gives: sound tables.
LEMMA SoundAfter ==
  ASSUME MatchingInv, Ledger!Next
  PROVE  TablesTypeOK' /\ TablesSound'
  BY LedgerStep DEF MatchingInv, TypeOK, LedgerInv

-----------------------------------------------------------------------------
(* The inductive step and what follows from it.                            *)

LEMMA NextStep == MatchingInv /\ [Next]_vars => MatchingInv'
<1> SUFFICES ASSUME MatchingInv, [Next]_vars
             PROVE  MatchingInv'
  OBVIOUS
<1>1. ASSUME NEW p \in Requests, NEW tap \in Taps, Admit(p, tap[1], tap[2])
      PROVE  MatchingInv'
  <2>1. tap[1] \in Person /\ tap[2] \in Users
    BY SettingsAssumption
  <2> QED BY <1>1, <2>1, AdmitStep
<1>2. ASSUME NEW p \in Requests, NEW u \in Users, NEW g \in Guests \cup {NoOne},
             ClaimLikes(p, u, g)
      PROVE  MatchingInv'
  BY <1>2, ClaimStep
<1>3. ASSUME NEW p \in Requests, InsertLike(p)
      PROVE  MatchingInv'
  BY <1>3, InsertStep
<1>4. ASSUME NEW p \in Requests, Refuse(p) \/ Abort(p)
      PROVE  MatchingInv'
  BY <1>4, EndStep DEF Refuse, Abort
<1>5. ASSUME NEW p \in Requests, NEW x \in Users, TryMatch(p, x)
      PROVE  MatchingInv'
  BY <1>5, MatchStep
<1>6. ASSUME NEW p \in Requests, Charge(p)
      PROVE  MatchingInv'
  BY <1>6, ChargeStep
<1>7. ASSUME NEW p \in Requests, CommitLike(p)
      PROVE  MatchingInv'
  <2>1. TablesTypeOK' /\ TablesSound'
    BY <1>7, CommitLikeLedger, SoundAfter
  <2>2. spent \in [Person -> Nat]
    BY DEF MatchingInv, TypeOK
  <2>3. spent' \in [Person -> Nat]
    <3> DEFINE one == IF req[p].today THEN 1 ELSE 0
    <3>1. one \in Nat
      OBVIOUS
    <3>2. spent' = [spent EXCEPT ![req[p].actor] = @ + one]
      BY <1>7 DEF CommitLike
    <3> HIDE DEF one
    <3>3. \A a \in Person : spent'[a] \in Nat
      BY <2>2, <3>1, <3>2
    <3>4. spent' = [a \in Person |-> spent'[a]]
      BY <2>2, <3>2
    <3> QED BY <3>3, <3>4
  <2>4. counter' \in [Person -> Nat] /\ crossed' \subseteq SUBSET Person
    BY <1>7 DEF CommitLike, MatchingInv, TypeOK
  <2> QED BY <1>7, <2>1, <2>3, <2>4, CommitStep DEF CommitLike
<1>8. ASSUME NEW p \in Requests, CommitRegister(p)
      PROVE  MatchingInv'
  <2>1. TablesTypeOK' /\ TablesSound'
    BY <1>8, CommitRegisterLedger, SoundAfter
  <2>2. /\ counter' \in [Person -> Nat] /\ spent' \in [Person -> Nat]
        /\ crossed' \subseteq SUBSET Person
    BY <1>8 DEF CommitRegister, MatchingInv, TypeOK
  <2> QED BY <1>8, <2>1, <2>2, CommitStep DEF CommitRegister
<1>9. CASE NewDay
  BY <1>9, NewDayStep
<1>10. CASE UNCHANGED vars
  BY <1>10
  DEF vars, MatchingInv, TypeOK, TablesTypeOK, TablesSound, OneLikePerPair,
      MutualIsSymmetric, ChatsComeFromMatches, HiddenUntilRegistered,
      Shapes, Locks, Newcomers
<1> QED BY <1>1, <1>2, <1>3, <1>4, <1>5, <1>6, <1>7, <1>8, <1>9, <1>10
        DEF Next, Serve

THEOREM Invariance == Spec => []MatchingInv
  BY InitStep, NextStep, PTL DEF Spec

\* Every variable keeps its type, in particular what requests have written.
THEOREM TypeCorrect == Spec => []TypeOK
<1>1. MatchingInv => TypeOK
  BY DEF MatchingInv
<1> QED BY Invariance, <1>1, PTL

\* No person likes another twice, whatever requests for the pair race and
\* whoever claims a guest's likes.
THEOREM LikesAreUnique == Spec => []OneLikePerPair
<1>1. MatchingInv => OneLikePerPair
  BY DEF MatchingInv, TablesSound
<1> QED BY Invariance, <1>1, PTL

\* The two rows of a match are marked together, and both are visible.
THEOREM MatchesAreTwoSided == Spec => []MutualIsSymmetric
<1>1. MatchingInv => MutualIsSymmetric
  BY DEF MatchingInv, TablesSound
<1> QED BY Invariance, <1>1, PTL

\* A chat always rests on a match that is still on record.
THEOREM ChatsRestOnMatches == Spec => []ChatsComeFromMatches
<1>1. MatchingInv => ChatsComeFromMatches
  BY DEF MatchingInv, TablesSound
<1> QED BY Invariance, <1>1, PTL

\* Receivers see a like exactly when its sender has an account.
THEOREM GuestsStayHidden == Spec => []HiddenUntilRegistered
<1>1. MatchingInv => HiddenUntilRegistered
  BY DEF MatchingInv, TablesSound
<1> QED BY Invariance, <1>1, PTL

\* A registration in flight has matched nobody and opened no chat.
THEOREM ClaimsMatchNobody == Spec => []ClaimsNeverMatch
<1>1. MatchingInv => ClaimsNeverMatch
  <2> SUFFICES ASSUME MatchingInv, NEW p \in Requests, req[p].step = "claimed"
               PROVE  req[p].opened = {} /\ \A l \in req[p].put : ~l.mutual
    BY DEF ClaimsNeverMatch
  <2>1. ClaimInFlight(req[p], likes, accounts)
    BY RequestFacts DEF Shape
  <2>2. PICK moved \in SUBSET likes : Moves(req[p], moved)
    BY <2>1 DEF ClaimInFlight
  <2>3. \A l \in moved : l \in LikeRow /\ ~l.mutual
    <3>1. \A l \in moved : l \in LikeRow /\ l.sender \notin accounts
      BY <2>2, PeopleAssumption DEF Moves, MatchingInv, TypeOK, TablesTypeOK
    <3> QED BY <3>1 DEF MatchingInv, TablesSound, MutualIsSymmetric,
                        HiddenUntilRegistered
  <2>4. \A l \in moved : ~Claimed(l, req[p].actor).mutual
    BY <2>3 DEF Claimed, LikeRow
  <2> QED BY <2>1, <2>2, <2>4 DEF ClaimInFlight, Moves
<1> QED BY Invariance, <1>1, PTL

\* A chat about to be committed belongs to a marked match that p holds.
LEMMA OpenedByMatch ==
  ASSUME MatchingInv, NEW p \in Requests, NEW c \in req[p].opened
  PROVE  LET a == req[p].actor
             x == req[p].target
         IN /\ c = {a, x}
            /\ {<<a, x>>, <<x, a>>} \subseteq HeldBy(req[p])
            /\ \A l \in likes : Key(l) # <<a, x>>
<1> DEFINE r == req[p]
<1>1. r \in Request /\ Shape(r, likes, accounts)
  BY RequestFacts
<1>2. r.step \in {"inserted", "counted"}
  BY <1>1 DEF Shape, Quiet, ClaimInFlight, Request, Step
<1>3. LikeInFlight(r, likes, accounts)
  BY <1>1, <1>2 DEF Shape
<1>4. Matched(r, likes, accounts)
  BY <1>3 DEF LikeInFlight, Unmatched
<1> QED BY <1>3, <1>4 DEF LikeInFlight, Matched, HeldBy

\* Transactions never contend for a row or a chat once they hold their like.
THEOREM WritersAreApart == Spec => []NoRivalWriters
<1>1. MatchingInv => NoRivalWriters
  <2> SUFFICES ASSUME MatchingInv, NEW p \in Requests, NEW q \in Requests, p # q
               PROVE  /\ Held(p) \cap Held(q) = {}
                      /\ req[p].opened \cap (req[q].opened \cup chats) = {}
    BY DEF NoRivalWriters
  <2>1. HeldBy(req[p]) \cap HeldBy(req[q]) = {}
    BY DEF MatchingInv, Locks
  <2>2. ASSUME NEW c \in req[p].opened
        PROVE  c \notin req[q].opened /\ c \notin chats
    <3> DEFINE a == req[p].actor
               x == req[p].target
    <3>1. /\ c = {a, x}
          /\ {<<a, x>>, <<x, a>>} \subseteq HeldBy(req[p])
          /\ \A l \in likes : Key(l) # <<a, x>>
      BY OpenedByMatch
    <3>2. ASSUME c \in req[q].opened
          PROVE  FALSE
      <4> DEFINE b == req[q].actor
                 y == req[q].target
      <4>1. c = {b, y} /\ <<b, y>> \in HeldBy(req[q])
        BY <3>2, OpenedByMatch
      <4>2. \/ b = a /\ y = x
            \/ b = x /\ y = a
            \/ b = y
        BY <3>1, <4>1
      <4>3. b # y
        <5>1. req[q] \in Request /\ Shape(req[q], likes, accounts)
          BY RequestFacts
        <5>2. req[q].step \in {"inserted", "counted"}
          BY <3>2, <5>1 DEF Shape, Quiet, ClaimInFlight, Request, Step
        <5> QED BY <5>1, <5>2 DEF Shape, LikeInFlight
      <4> QED BY <2>1, <3>1, <4>1, <4>2, <4>3
    <3>3. ASSUME c \in chats
          PROVE  FALSE
      <4>1. PICK l \in likes : /\ l.mutual /\ c = {l.sender, l.receiver}
                               /\ l.sender # l.receiver
        BY <3>3 DEF MatchingInv, TablesSound, ChatsComeFromMatches
      <4>2. PICK m \in likes : Key(m) = Flip(Key(l))
        BY <4>1 DEF MatchingInv, TablesSound, MutualIsSymmetric
      <4>3. Key(l) = <<a, x>> \/ Key(m) = <<a, x>>
        BY <3>1, <4>1, <4>2 DEF Key, Flip
      <4> QED BY <3>1, <4>3
    <3> QED BY <3>2, <3>3
  <2> QED BY <2>1, <2>2 DEF Held, HeldBy
<1> QED BY Invariance, <1>1, PTL

\* The next step of a request is not blocked: a like may be refused or its
\* key is free to insert, everything after that asks for no lock.
CanGoOn(p) ==
  \/ /\ req[p].step = "admitted"
     /\ \/ Refused(req[p].actor, req[p].target)
        \/ /\ req[p].actor # req[p].target
           /\ req[p].target \in accounts
           /\ Insertable(p, <<req[p].actor, req[p].target>>)
  \/ req[p].step \in {"inserted", "claimed"} /\ \E x \in Users : x \in req[p].todo
  \/ req[p].step \in {"inserted", "claimed"} /\ req[p].todo = {}
  \/ req[p].step = "counted"

\* The locks a registration would wait for, if it claimed g's rows now.
ClaimWaitsFor(g, q) == Held(q) \cap {Key(l) : l \in RowsOf(g)} # {}

\* A request that waits for a key waits for one that can go on.
NobodyWaitsInACircle ==
  /\ \A p \in Requests : req[p].step # "idle" =>
       \/ CanGoOn(p)
       \/ \E q \in Requests \ {p} : /\ <<req[p].actor, req[p].target>> \in Held(q)
                                    /\ CanGoOn(q)
  /\ \A g \in Guests, q \in Requests : ClaimWaitsFor(g, q) => CanGoOn(q)

\* Among any number of handlers nobody waits in a circle, neither for the key of
\* a like nor for the rows of a guest: whoever holds a lock can go on.  (What
\* EveryRequestEnds needs besides fairness.)
THEOREM LocksAreLetGo == Spec => []NobodyWaitsInACircle
<1>1. MatchingInv => NobodyWaitsInACircle
  <2> SUFFICES ASSUME MatchingInv PROVE NobodyWaitsInACircle
    OBVIOUS
  <2>1. \A q \in Requests : Shape(req[q], likes, accounts) /\ req[q] \in Request
    BY RequestFacts
  <2>2. ASSUME NEW q \in Requests, req[q].step \notin {"idle", "admitted"}
        PROVE  CanGoOn(q)
    <3>1. req[q].step \in {"inserted", "claimed", "counted"} /\ req[q].todo \in SUBSET Users
      BY <2>1, <2>2 DEF Request, Step
    <3> QED BY <3>1 DEF CanGoOn
  <2>3. ASSUME NEW q \in Requests, NEW k \in Held(q)
        PROVE  CanGoOn(q)
    <3>1. req[q].step \in {"idle", "admitted"} => Held(q) = {}
      BY <2>1 DEF Shape, Quiet, Held
    <3> QED BY <2>2, <2>3, <3>1
  <2>4. ASSUME NEW p \in Requests, req[p].step = "admitted", ~CanGoOn(p)
        PROVE  \E q \in Requests \ {p} : <<req[p].actor, req[p].target>> \in Held(q)
    <3>1. ~Refused(req[p].actor, req[p].target)
      BY <2>4 DEF CanGoOn
    <3>2. /\ req[p].actor # req[p].target /\ req[p].target \in accounts
          /\ \A l \in likes : Key(l) # <<req[p].actor, req[p].target>>
      BY <3>1 DEF Refused
    <3> QED BY <2>4, <3>2 DEF CanGoOn, Insertable
  <2>5. \A p \in Requests : req[p].step # "idle" =>
          \/ CanGoOn(p)
          \/ \E q \in Requests \ {p} : /\ <<req[p].actor, req[p].target>> \in Held(q)
                                       /\ CanGoOn(q)
    BY <2>2, <2>3, <2>4
  <2>6. \A g \in Guests, q \in Requests : ClaimWaitsFor(g, q) => CanGoOn(q)
    BY <2>3 DEF ClaimWaitsFor
  <2> QED BY <2>5, <2>6 DEF NobodyWaitsInACircle
<1> QED BY Invariance, <1>1, PTL

\* The handlers implement the ledger: commits are its steps, all else stutters.
THEOREM Refinement == Spec => RefinesLedger
<1>1. Init => Ledger!TablesInit
  BY DEF Init, TablesInit, Ledger!TablesInit
<1>2. MatchingInv /\ [Next]_vars => [Ledger!Next]_<<accounts, likes, chats>>
  <2> SUFFICES ASSUME MatchingInv, [Next]_vars
               PROVE  Ledger!Next \/ UNCHANGED tables
    BY DEF tables
  <2>1. ASSUME NEW p \in Requests, CommitLike(p) \/ CommitRegister(p)
        PROVE  Ledger!Next
    BY <2>1, CommitLikeLedger, CommitRegisterLedger
  <2>2. CASE UNCHANGED vars
    BY <2>2 DEF vars, tables
  <2> QED BY <2>1, <2>2 DEF Next, Serve, Admit, ClaimLikes, InsertLike, Refuse,
                            TryMatch, Charge, Abort, NewDay
<1> QED BY Invariance, <1>1, <1>2, PTL DEF Spec, RefinesLedger, Ledger!Spec, Ledger!tables
=============================================================================
