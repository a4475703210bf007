------------------------- MODULE MatchingRaceProofs -------------------------
(***************************************************************************)
(* What races between handlers of Matching can cost, for any people,       *)
(* limits and number of handlers: how far the limits are overrun, which    *)
(* matches are missed, and what the lists then show.                       *)
(*                                                                         *)
(* The limits are counting arguments: each handler on its way stands for   *)
(* at most one like or chat beyond what its check has seen.  A match is    *)
(* missed only by two requests that held their keys at one time (Noticed). *)
(***************************************************************************)
EXTENDS MatchingProofs, FiniteSetTheorems

-----------------------------------------------------------------------------
(* Likes beyond the limit.                                                 *)

\* The handlers that will commit a like of a that was admitted today, and those
\* of them that have raised its counter.
Racing(a) == {p \in Requests : req[p].today /\ req[p].actor = a}
Paying(a) == {p \in Requests : /\ req[p].step = "counted"
                               /\ req[p].actor = a
                               /\ req[p].today}

Paid == \A a \in Person : spent[a] + Cardinality(Paying(a)) <= counter[a]

Overrun == \A a \in Person :
  spent[a] + Cardinality(Racing(a)) <= Limit(a) + Cardinality(Requests) - 1

CountsInv == Paid /\ Overrun

LEMMA LimitType == /\ \A a \in Person : Limit(a) \in Nat
                   /\ Cardinality(Requests) \in Nat \ {0}
<1>1. Cardinality(Requests) \in Nat /\ Cardinality(Requests) # 0
  BY SettingsAssumption, FS_CardinalityType, FS_EmptySet
<1> QED BY <1>1, SettingsAssumption DEF Limit

LEMMA Subsets ==
  ASSUME NEW S \in SUBSET Requests, NEW T \in SUBSET S
  PROVE  /\ IsFiniteSet(S) /\ Cardinality(S) \in Nat
         /\ Cardinality(T) \in Nat /\ Cardinality(T) <= Cardinality(S)
         /\ Cardinality(S) <= Cardinality(Requests)
<1>1. IsFiniteSet(S) /\ Cardinality(S) <= Cardinality(Requests)
  BY SettingsAssumption, FS_Subset
<1>2. IsFiniteSet(T) /\ Cardinality(T) <= Cardinality(S)
  BY <1>1, FS_Subset
<1> QED BY <1>1, <1>2, FS_CardinalityType

LEMMA Less ==
  ASSUME NEW S \in SUBSET Requests, NEW p \in S
  PROVE  Cardinality(S \ {p}) = Cardinality(S) - 1 /\ Cardinality(S) \in Nat
BY Subsets, FS_RemoveElement

LEMMA More ==
  ASSUME NEW S \in SUBSET Requests, NEW p
  PROVE  /\ Cardinality(S \cup {p}) <= Cardinality(S) + 1
         /\ Cardinality(S) \in Nat /\ Cardinality(S \cup {p}) \in Nat
<1>1. IsFiniteSet(S) /\ Cardinality(S) \in Nat
  BY Subsets
<1>2. /\ IsFiniteSet(S \cup {p})
      /\ Cardinality(S \cup {p}) = IF p \in S THEN Cardinality(S) ELSE Cardinality(S) + 1
  BY <1>1, FS_AddElement
<1> QED BY <1>1, <1>2, FS_CardinalityType

LEMMA CountTypes ==
  ASSUME TypeOK, NEW a \in Person
  PROVE  /\ spent[a] \in Nat /\ counter[a] \in Nat /\ Limit(a) \in Nat
         /\ Racing(a) \in SUBSET Requests /\ Paying(a) \in SUBSET Racing(a)
         /\ Cardinality(Racing(a)) \in Nat /\ Cardinality(Paying(a)) \in Nat
         /\ Cardinality(Requests) \in Nat \ {0}
<1>1. Racing(a) \in SUBSET Requests /\ Paying(a) \in SUBSET Racing(a)
  BY DEF Racing, Paying
<1>2. Cardinality(Racing(a)) \in Nat /\ Cardinality(Paying(a)) \in Nat
  BY <1>1, Subsets
<1> QED BY <1>1, <1>2, LimitType DEF TypeOK

\* What one run of try_create_mutual_match does.
LEMMA MatchEffect ==
  ASSUME TypeOK, NEW p \in Requests, NEW x, TryMatch(p, x)
  PROVE  LET a == req[p].actor
             back == Reverse(View(p), a, x)
             both == MatchedRows(p, x)
         IN /\ UNCHANGED <<accounts, likes, chats, counter, spent, crossed>>
            /\ \A q \in Requests \ {p} : req'[q] = req[q]
            /\ req'[p].step = req[p].step /\ req'[p].today = req[p].today
            /\ req'[p].actor = req[p].actor /\ req'[p].target = req[p].target
            /\ req'[p].todo = req[p].todo \ {x}
            /\ IF back = {}
               THEN /\ req'[p].put = req[p].put /\ req'[p].gone = req[p].gone
                    /\ req'[p].opened = req[p].opened
               ELSE /\ req'[p].put = (req[p].put \ both) \cup MarkMutual(both)
                    /\ req'[p].gone = req[p].gone \cup {Key(l) : l \in both}
                    /\ req'[p].opened = IF HasRoom(p, a) /\ HasRoom(p, x)
                                        THEN req[p].opened \cup ({{a, x}} \ chats)
                                        ELSE req[p].opened
<1> DEFINE a == req[p].actor
           back == Reverse(View(p), a, x)
           both == MatchedRows(p, x)
           opens == IF HasRoom(p, a) /\ HasRoom(p, x)
                    THEN req[p].opened \cup ({{a, x}} \ chats) ELSE req[p].opened
           puts == (req[p].put \ both) \cup MarkMutual(both)
           goes == req[p].gone \cup {Key(l) : l \in both}
<1>1. UNCHANGED <<accounts, likes, chats, counter, spent, crossed>>
  BY DEF TryMatch, tables
<1>2. req \in [Requests -> Request]
  BY DEF TypeOK
<1>3. CASE back = {}
  <2>1. req' = [req EXCEPT ![p].todo = @ \ {x}]
    BY <1>3 DEF TryMatch
  <2> QED BY <1>1, <1>2, <1>3, <2>1 DEF Request
<1>4. CASE back # {}
  <2>1. req' = [req EXCEPT ![p].todo = @ \ {x}, ![p].put = puts,
                           ![p].gone = goes, ![p].opened = opens]
    BY <1>4 DEF TryMatch
  <2> HIDE DEF puts, goes, opens
  <2>2. /\ \A q \in Requests \ {p} : req'[q] = req[q]
        /\ req'[p].step = req[p].step /\ req'[p].today = req[p].today
        /\ req'[p].actor = req[p].actor /\ req'[p].target = req[p].target
        /\ req'[p].todo = req[p].todo \ {x} /\ req'[p].put = puts
        /\ req'[p].gone = goes /\ req'[p].opened = opens
    BY <1>2, <2>1 DEF Request
  <2> QED BY <1>1, <1>4, <2>2 DEF puts, goes, opens
<1> QED BY <1>3, <1>4

LEMMA CountsInit == Init => CountsInv
<1> SUFFICES ASSUME Init, NEW a \in Person
             PROVE  /\ spent[a] + Cardinality(Paying(a)) <= counter[a]
                    /\ spent[a] + Cardinality(Racing(a)) <= Limit(a) + Cardinality(Requests) - 1
  BY DEF CountsInv, Paid, Overrun
<1>1. Paying(a) = {} /\ Racing(a) = {}
  BY DEF Init, Idle, Paying, Racing
<1>2. spent[a] = 0 /\ counter[a] = 0
  BY DEF Init
<1> QED BY <1>1, <1>2, FS_EmptySet, LimitType

\* A step that pays nothing and commits no like, and after which no more handlers
\* are on their way.
LEMMA CountsQuiet ==
  ASSUME TypeOK, CountsInv, UNCHANGED <<counter, spent>>,
         \A p \in Requests : req'[p].today =>
           req[p].today /\ req'[p].actor = req[p].actor /\
           (req'[p].step = "counted" => req[p].step = "counted")
  PROVE  CountsInv'
<1> SUFFICES ASSUME NEW a \in Person
             PROVE  /\ spent'[a] + Cardinality(Paying(a)') <= counter'[a]
                    /\ spent'[a] + Cardinality(Racing(a)')
                         <= Limit(a) + Cardinality(Requests) - 1
  BY DEF CountsInv, Paid, Overrun
<1>1. Paying(a)' \in SUBSET Paying(a) /\ Racing(a)' \in SUBSET Racing(a)
  BY DEF Paying, Racing
<1>2. Paying(a) \in SUBSET Requests
  BY DEF Paying
<1>3. Cardinality(Paying(a)') <= Cardinality(Paying(a)) /\ Cardinality(Paying(a)') \in Nat
      /\ Cardinality(Racing(a)') <= Cardinality(Racing(a)) /\ Cardinality(Racing(a)') \in Nat
  BY <1>1, <1>2, Subsets, CountTypes
<1> QED BY <1>3, CountTypes DEF CountsInv, Paid, Overrun

LEMMA CountsAdmit ==
  ASSUME TypeOK, CountsInv, NEW p \in Requests, NEW a \in Person, NEW x, Admit(p, a, x)
  PROVE  CountsInv'
<1> SUFFICES ASSUME NEW b \in Person
             PROVE  /\ spent'[b] + Cardinality(Paying(b)') <= counter'[b]
                    /\ spent'[b] + Cardinality(Racing(b)')
                         <= Limit(b) + Cardinality(Requests) - 1
  BY DEF CountsInv, Paid, Overrun
<1>1. /\ UNCHANGED <<counter, spent>> /\ counter[a] < Limit(a)
      /\ \A q \in Requests \ {p} : req'[q] = req[q]
      /\ req'[p].step = "admitted" /\ req'[p].actor = a
  BY DEF Admit, WithinLimit, TypeOK, Idle
<1>2. Paying(b)' \in SUBSET Paying(b) /\ Paying(b) \in SUBSET Requests
  BY <1>1 DEF Paying
<1>3. Cardinality(Paying(b)') <= Cardinality(Paying(b)) /\ Cardinality(Paying(b)') \in Nat
  BY <1>2, Subsets
<1>4. CASE b = a
  <2>1. Racing(a)' \in SUBSET Requests
    BY DEF Racing
  <2>2. Cardinality(Racing(a)') \in Nat /\ Cardinality(Racing(a)') <= Cardinality(Requests)
    BY <2>1, Subsets
  <2> QED BY <1>1, <1>3, <1>4, <2>2, CountTypes DEF CountsInv, Paid
<1>5. CASE b # a
  <2>1. Racing(b)' \in SUBSET Racing(b) /\ Racing(b) \in SUBSET Requests
    BY <1>1, <1>5 DEF Racing
  <2>2. Cardinality(Racing(b)') \in Nat /\ Cardinality(Racing(b)') <= Cardinality(Racing(b))
    BY <2>1, Subsets
  <2> QED BY <1>1, <1>3, <2>2, CountTypes DEF CountsInv, Paid, Overrun
<1> QED BY <1>4, <1>5

LEMMA CountsCharge ==
  ASSUME TypeOK, CountsInv, NEW p \in Requests, req[p].actor \in Person, Charge(p)
  PROVE  CountsInv'
<1> DEFINE a == req[p].actor
<1> SUFFICES ASSUME NEW b \in Person
             PROVE  /\ spent'[b] + Cardinality(Paying(b)') <= counter'[b]
                    /\ spent'[b] + Cardinality(Racing(b)')
                         <= Limit(b) + Cardinality(Requests) - 1
  BY DEF CountsInv, Paid, Overrun
<1>1. /\ spent' = spent
      /\ counter'[b] = IF b = a THEN counter[b] + 1 ELSE counter[b]
      /\ \A q \in Requests \ {p} : req'[q] = req[q]
      /\ req'[p].step = "counted" /\ req'[p].actor = a /\ req'[p].today = req[p].today
  BY DEF Charge, Charged, TypeOK, Request
<1>2. Racing(b)' = Racing(b)
  BY <1>1 DEF Racing
<1>3. CASE b = a
  <2>1. Paying(b)' \in SUBSET (Paying(b) \cup {p}) /\ Paying(b) \in SUBSET Requests
    BY <1>1 DEF Paying
  <2>2. Cardinality(Paying(b)') <= Cardinality(Paying(b) \cup {p})
        /\ Cardinality(Paying(b)') \in Nat
    BY <2>1, Subsets
  <2>3. Cardinality(Paying(b) \cup {p}) <= Cardinality(Paying(b)) + 1
        /\ Cardinality(Paying(b) \cup {p}) \in Nat
    BY <2>1, More
  <2> QED BY <1>1, <1>2, <1>3, <2>2, <2>3, CountTypes DEF CountsInv, Paid, Overrun
<1>4. CASE b # a
  <2>1. Paying(b)' \in SUBSET Paying(b) /\ Paying(b) \in SUBSET Requests
    BY <1>1, <1>4 DEF Paying
  <2>2. Cardinality(Paying(b)') <= Cardinality(Paying(b)) /\ Cardinality(Paying(b)') \in Nat
    BY <2>1, Subsets
  <2> QED BY <1>1, <1>2, <1>4, <2>2, CountTypes DEF CountsInv, Paid, Overrun
<1> QED BY <1>3, <1>4

LEMMA CountsCommit ==
  ASSUME TypeOK, CountsInv, NEW p \in Requests, CommitLike(p)
  PROVE  CountsInv'
<1> DEFINE a == req[p].actor
<1> SUFFICES ASSUME NEW b \in Person
             PROVE  /\ spent'[b] + Cardinality(Paying(b)') <= counter'[b]
                    /\ spent'[b] + Cardinality(Racing(b)')
                         <= Limit(b) + Cardinality(Requests) - 1
  BY DEF CountsInv, Paid, Overrun
<1>1. /\ counter' = counter /\ req[p].step = "counted" /\ req[p].today \in BOOLEAN
      /\ \A q \in Requests \ {p} : req'[q] = req[q]
      /\ ~req'[p].today
  BY DEF CommitLike, Idle, TypeOK, Request
<1>2. spent'[b] = IF b = a /\ req[p].today THEN spent[b] + 1 ELSE spent[b]
  <2> DEFINE one == IF req[p].today THEN 1 ELSE 0
  <2>1. spent' = [spent EXCEPT ![a] = @ + one]
    BY DEF CommitLike
  <2> HIDE DEF one
  <2>2. spent'[b] = IF b = a THEN spent[b] + one ELSE spent[b]
    BY <2>1 DEF TypeOK
  <2> QED BY <2>2, CountTypes DEF one
<1>3. Paying(b)' \in SUBSET Paying(b) /\ Racing(b)' \in SUBSET Racing(b)
      /\ Paying(b) \in SUBSET Requests /\ Racing(b) \in SUBSET Requests
  BY <1>1 DEF Paying, Racing
<1>4. CASE b = a /\ req[p].today
  <2>1. p \in Paying(b) /\ p \in Racing(b)
    BY <1>1, <1>4 DEF Paying, Racing
  <2>2. Paying(b)' \in SUBSET (Paying(b) \ {p}) /\ Racing(b)' \in SUBSET (Racing(b) \ {p})
    BY <1>1, <1>3 DEF Paying, Racing
  <2>3. Cardinality(Paying(b)') <= Cardinality(Paying(b) \ {p})
        /\ Cardinality(Racing(b)') <= Cardinality(Racing(b) \ {p})
        /\ Cardinality(Paying(b)') \in Nat /\ Cardinality(Racing(b)') \in Nat
    BY <1>3, <2>2, Subsets
  <2>4. Cardinality(Paying(b) \ {p}) = Cardinality(Paying(b)) - 1
        /\ Cardinality(Racing(b) \ {p}) = Cardinality(Racing(b)) - 1
    BY <1>3, <2>1, Less
  <2> QED BY <1>1, <1>2, <1>4, <2>3, <2>4, CountTypes DEF CountsInv, Paid, Overrun
<1>5. CASE ~(b = a /\ req[p].today)
  <2>1. Cardinality(Paying(b)') <= Cardinality(Paying(b))
        /\ Cardinality(Racing(b)') <= Cardinality(Racing(b))
        /\ Cardinality(Paying(b)') \in Nat /\ Cardinality(Racing(b)') \in Nat
    BY <1>3, Subsets
  <2> QED BY <1>1, <1>2, <1>5, <2>1, CountTypes DEF CountsInv, Paid, Overrun
<1> QED BY <1>4, <1>5

LEMMA CountsNewDay ==
  ASSUME TypeOK, CountsInv, NewDay
  PROVE  CountsInv'
<1> SUFFICES ASSUME NEW b \in Person
             PROVE  /\ spent'[b] + Cardinality(Paying(b)') <= counter'[b]
                    /\ spent'[b] + Cardinality(Racing(b)')
                         <= Limit(b) + Cardinality(Requests) - 1
  BY DEF CountsInv, Paid, Overrun
<1>1. /\ counter'[b] = IF b \in Guests THEN counter[b] ELSE 0
      /\ spent'[b] = IF b \in Guests THEN spent[b] ELSE 0
  BY DEF NewDay
<1>2. \A p \in Requests : /\ req'[p].today = (req[p].today /\ req[p].actor \in Guests)
                          /\ req'[p].actor = req[p].actor /\ req'[p].step = req[p].step
  BY DEF NewDay, TypeOK, Request
<1>3. CASE b \in Guests
  <2>1. Paying(b)' = Paying(b) /\ Racing(b)' = Racing(b)
    BY <1>2, <1>3 DEF Paying, Racing
  <2> QED BY <1>1, <1>3, <2>1 DEF CountsInv, Paid, Overrun
<1>4. CASE b \notin Guests
  <2>1. Paying(b)' = {} /\ Racing(b)' = {}
    BY <1>2, <1>4 DEF Paying, Racing
  <2> QED BY <1>1, <1>4, <2>1, FS_EmptySet, LimitType
<1> QED BY <1>3, <1>4

LEMMA CountsStep == MatchingInv /\ CountsInv /\ [Next]_vars => CountsInv'
<1> SUFFICES ASSUME MatchingInv, CountsInv, [Next]_vars
             PROVE  CountsInv'
  OBVIOUS
<1> TypeOK
  BY DEF MatchingInv
<1>1. ASSUME NEW p \in Requests, NEW tap \in Taps, Admit(p, tap[1], tap[2])
      PROVE  CountsInv'
  <2>1. tap[1] \in Person
    BY SettingsAssumption
  <2> QED BY <1>1, <2>1, CountsAdmit
<1>2. ASSUME NEW p \in Requests, UNCHANGED <<counter, spent>>,
             \A q \in Requests \ {p} : req'[q] = req[q],
             \/ ~req'[p].today
             \/ /\ req'[p].actor = req[p].actor /\ req'[p].today = req[p].today
                /\ req'[p].step \in {"inserted", req[p].step}
      PROVE  CountsInv'
  BY <1>2, CountsQuiet
<1>3. ASSUME NEW p \in Requests, NEW u, NEW g, ClaimLikes(p, u, g)
      PROVE  CountsInv'
  <2>1. ~req'[p].today
    BY <1>3 DEF ClaimLikes, Idle, TypeOK
  <2>2. UNCHANGED <<counter, spent>> /\ \A q \in Requests \ {p} : req'[q] = req[q]
    BY <1>3 DEF ClaimLikes, TypeOK
  <2> QED BY <1>2, <2>1, <2>2
<1>4. ASSUME NEW p \in Requests, InsertLike(p)
      PROVE  CountsInv'
  <2>1. req'[p].actor = req[p].actor /\ req'[p].today = req[p].today
        /\ req'[p].step = "inserted"
    BY <1>4 DEF InsertLike, TypeOK, Request
  <2>2. UNCHANGED <<counter, spent>> /\ \A q \in Requests \ {p} : req'[q] = req[q]
    BY <1>4 DEF InsertLike, TypeOK
  <2> QED BY <1>2, <2>1, <2>2
<1>5. ASSUME NEW p \in Requests, Refuse(p) \/ Abort(p) \/ CommitRegister(p)
      PROVE  CountsInv'
  <2>1. ~req'[p].today
    BY <1>5 DEF Refuse, Abort, CommitRegister, Idle, TypeOK
  <2>2. UNCHANGED <<counter, spent>> /\ \A q \in Requests \ {p} : req'[q] = req[q]
    BY <1>5 DEF Refuse, Abort, CommitRegister, TypeOK
  <2> QED BY <1>2, <2>1, <2>2
<1>6. ASSUME NEW p \in Requests, NEW x \in Users, TryMatch(p, x)
      PROVE  CountsInv'
  BY <1>2, <1>6, MatchEffect
<1>7. ASSUME NEW p \in Requests, Charge(p)
      PROVE  CountsInv'
  <2>1. LikeInFlight(req[p], likes, accounts)
    BY <1>7, RequestFacts DEF Charge, Shape
  <2>2. req[p].actor \in Person
    BY <2>1 DEF LikeInFlight, TypeOK, TablesTypeOK, Person
  <2> QED BY <1>7, <2>2, CountsCharge
<1>8. CASE UNCHANGED vars
  BY <1>8 DEF vars, CountsInv, Paid, Overrun, Paying, Racing
<1>9. ASSUME NEW p \in Requests, CommitLike(p)
      PROVE  CountsInv'
  BY <1>9, CountsCommit
<1>10. CASE NewDay
  BY <1>10, CountsNewDay
<1>11. ASSUME NEW p \in Requests, Serve(p)
       PROVE  CountsInv'
  BY <1>5, <1>6, <1>7, <1>9, <1>11 DEF Serve
<1> QED BY <1>1, <1>3, <1>4, <1>5, <1>8, <1>10, <1>11 DEF Next

THEOREM CountsAreSound == Spec => []CountsInv
BY Invariance, CountsInit, CountsStep, PTL DEF Spec

\* The counter that increment_like_counter raises before the commit is never
\* behind the likes on record, however requests abort, race and straddle midnight.
THEOREM LikesArePaid == Spec => []CounterCoversLikes
<1>1. CountsInv => CounterCoversLikes
  BY DEF CountsInv, Paid, Paying, CounterCoversLikes
<1> QED BY <1>1, CountsAreSound, PTL

-----------------------------------------------------------------------------
(* What a key is charged beyond the limit.                                 *)

\* The handlers that have passed the check, on whatever day, and will charge.
Coming(a) == {p \in Requests : req[p].actor = a /\ req[p].step \in {"admitted", "inserted"}}

\* Whoever was let in was let in below a limit, hence one that is not zero: at
\* midnight those on their way are at most the handlers.
KeysInv == \A a \in Person :
  /\ counter[a] + Cardinality(Coming(a)) <= Limit(a) + Cardinality(Requests) - 1
  /\ Coming(a) # {} => Limit(a) > 0

LEMMA KeyTypes ==
  ASSUME TypeOK, NEW a \in Person
  PROVE  /\ counter[a] \in Nat /\ Limit(a) \in Nat
         /\ Coming(a) \in SUBSET Requests
         /\ Cardinality(Coming(a)) \in Nat /\ Cardinality(Coming(a)) <= Cardinality(Requests)
         /\ Cardinality(Requests) \in Nat \ {0}
<1>1. Coming(a) \in SUBSET Requests
  BY DEF Coming
<1>2. Cardinality(Coming(a)) \in Nat /\ Cardinality(Coming(a)) <= Cardinality(Requests)
  BY <1>1, Subsets
<1> QED BY <1>1, <1>2, LimitType DEF TypeOK

LEMMA KeysInit == Init => KeysInv
<1> SUFFICES ASSUME Init, NEW a \in Person
             PROVE  /\ counter[a] + Cardinality(Coming(a))
                         <= Limit(a) + Cardinality(Requests) - 1
                    /\ Coming(a) # {} => Limit(a) > 0
  BY DEF KeysInv
<1>1. Coming(a) = {} /\ counter[a] = 0
  BY DEF Init, Idle, Coming
<1> QED BY <1>1, FS_EmptySet, LimitType

\* Nothing is charged, and no more handlers are on their way.
LEMMA KeysQuiet ==
  ASSUME TypeOK, KeysInv, UNCHANGED counter,
         \A p \in Requests : req'[p].step \in {"admitted", "inserted"} =>
           req[p].step \in {"admitted", "inserted"} /\ req'[p].actor = req[p].actor
  PROVE  KeysInv'
<1> SUFFICES ASSUME NEW a \in Person
             PROVE  /\ counter[a] + Cardinality(Coming(a)')
                         <= Limit(a) + Cardinality(Requests) - 1
                    /\ Coming(a)' # {} => Limit(a) > 0
  BY DEF KeysInv
<1>1. Coming(a)' \in SUBSET Coming(a)
  BY DEF Coming
<1>2. Cardinality(Coming(a)') <= Cardinality(Coming(a)) /\ Cardinality(Coming(a)') \in Nat
  BY <1>1, KeyTypes, Subsets
<1> QED BY <1>1, <1>2, KeyTypes DEF KeysInv

LEMMA KeysAdmit ==
  ASSUME TypeOK, KeysInv, NEW p \in Requests, NEW a \in Person, NEW x, Admit(p, a, x)
  PROVE  KeysInv'
<1> SUFFICES ASSUME NEW b \in Person
             PROVE  /\ counter[b] + Cardinality(Coming(b)')
                         <= Limit(b) + Cardinality(Requests) - 1
                    /\ Coming(b)' # {} => Limit(b) > 0
  BY DEF KeysInv, Admit
<1>1. /\ counter[a] < Limit(a)
      /\ \A q \in Requests \ {p} : req'[q] = req[q]
      /\ req'[p].step = "admitted" /\ req'[p].actor = a
  BY DEF Admit, WithinLimit, TypeOK, Idle
<1>2. CASE b = a
  <2>1. Coming(a)' \in SUBSET Requests
    BY DEF Coming
  <2>2. Cardinality(Coming(a)') \in Nat /\ Cardinality(Coming(a)') <= Cardinality(Requests)
    BY <2>1, Subsets
  <2> QED BY <1>1, <1>2, <2>2, KeyTypes
<1>3. CASE b # a
  <2>1. Coming(b)' \in SUBSET Coming(b)
    BY <1>1, <1>3 DEF Coming
  <2>2. Cardinality(Coming(b)') \in Nat /\ Cardinality(Coming(b)') <= Cardinality(Coming(b))
    BY <2>1, KeyTypes, Subsets
  <2> QED BY <2>1, <2>2, KeyTypes DEF KeysInv
<1> QED BY <1>2, <1>3

LEMMA KeysCharge ==
  ASSUME TypeOK, KeysInv, NEW p \in Requests, req[p].actor \in Person, Charge(p)
  PROVE  KeysInv'
<1> DEFINE a == req[p].actor
<1> SUFFICES ASSUME NEW b \in Person
             PROVE  /\ counter'[b] + Cardinality(Coming(b)')
                         <= Limit(b) + Cardinality(Requests) - 1
                    /\ Coming(b)' # {} => Limit(b) > 0
  BY DEF KeysInv
<1>1. /\ counter'[b] = IF b = a THEN counter[b] + 1 ELSE counter[b]
      /\ \A q \in Requests \ {p} : req'[q] = req[q]
      /\ req[p].step = "inserted" /\ req'[p].step = "counted"
  BY DEF Charge, Charged, TypeOK, Request
<1>2. CASE b = a
  <2>1. p \in Coming(b) /\ Coming(b)' \in SUBSET (Coming(b) \ {p})
    BY <1>1, <1>2 DEF Coming
  <2>2. Cardinality(Coming(b) \ {p}) = Cardinality(Coming(b)) - 1
    BY <2>1, KeyTypes, Less
  <2>3. Cardinality(Coming(b)') <= Cardinality(Coming(b) \ {p})
        /\ Cardinality(Coming(b)') \in Nat
    <3>1. Coming(b) \ {p} \in SUBSET Requests
      BY KeyTypes
    <3> QED BY <2>1, <3>1, Subsets
  <2> QED BY <1>1, <1>2, <2>1, <2>2, <2>3, KeyTypes DEF KeysInv
<1>3. CASE b # a
  <2>1. Coming(b)' \in SUBSET Coming(b)
    BY <1>1, <1>3 DEF Coming
  <2>2. Cardinality(Coming(b)') <= Cardinality(Coming(b)) /\ Cardinality(Coming(b)') \in Nat
    BY <2>1, KeyTypes, Subsets
  <2> QED BY <1>1, <1>3, <2>1, <2>2, KeyTypes DEF KeysInv
<1> QED BY <1>2, <1>3

LEMMA KeysNewDay ==
  ASSUME TypeOK, KeysInv, NewDay
  PROVE  KeysInv'
<1> SUFFICES ASSUME NEW b \in Person
             PROVE  /\ counter'[b] + Cardinality(Coming(b)')
                         <= Limit(b) + Cardinality(Requests) - 1
                    /\ Coming(b)' # {} => Limit(b) > 0
  BY DEF KeysInv
<1>1. counter'[b] = IF b \in Guests THEN counter[b] ELSE 0
  BY DEF NewDay
<1>2. \A p \in Requests : req'[p].actor = req[p].actor /\ req'[p].step = req[p].step
  BY DEF NewDay, TypeOK, Request
<1>3. Coming(b)' = Coming(b)
  BY <1>2 DEF Coming
<1>4. CASE Coming(b) = {}
  BY <1>1, <1>3, <1>4, KeyTypes, FS_EmptySet DEF KeysInv
<1>5. CASE Coming(b) # {}
  BY <1>1, <1>3, <1>5, KeyTypes DEF KeysInv
<1> QED BY <1>4, <1>5

LEMMA KeysStep == MatchingInv /\ KeysInv /\ [Next]_vars => KeysInv'
<1> SUFFICES ASSUME MatchingInv, KeysInv, [Next]_vars
             PROVE  KeysInv'
  OBVIOUS
<1> TypeOK
  BY DEF MatchingInv
<1>1. ASSUME NEW p \in Requests, NEW tap \in Taps, Admit(p, tap[1], tap[2])
      PROVE  KeysInv'
  <2>1. tap[1] \in Person
    BY SettingsAssumption
  <2> QED BY <1>1, <2>1, KeysAdmit
<1>2. ASSUME NEW p \in Requests, UNCHANGED counter, \A q \in Requests \ {p} : req'[q] = req[q],
             \/ req'[p].step \notin {"admitted", "inserted"}
             \/ /\ req'[p].actor = req[p].actor
                /\ req[p].step \in {"admitted", "inserted"}
      PROVE  KeysInv'
  BY <1>2, KeysQuiet
<1>3. ASSUME NEW p \in Requests,
             \/ \E u \in Users, g \in Guests \cup {NoOne} : ClaimLikes(p, u, g)
             \/ Refuse(p) \/ Abort(p) \/ CommitLike(p) \/ CommitRegister(p)
      PROVE  KeysInv'
  <2>0. p \in DOMAIN req
    BY DEF TypeOK
  <2>a. ASSUME NEW u \in Users, NEW g \in Guests \cup {NoOne}, ClaimLikes(p, u, g)
        PROVE  req'[p].step \notin {"admitted", "inserted"}
    BY <2>0, <2>a DEF ClaimLikes, Idle
  <2>b. ASSUME Refuse(p) \/ Abort(p) \/ CommitLike(p) \/ CommitRegister(p)
        PROVE  req'[p].step \notin {"admitted", "inserted"}
    <3>1. req' = [req EXCEPT ![p] = Idle]
      BY <2>b DEF Refuse, Abort, CommitLike, CommitRegister
    <3> QED BY <2>0, <3>1 DEF Idle
  <2>1. req'[p].step \notin {"admitted", "inserted"}
    BY <1>3, <2>a, <2>b
  <2>2. UNCHANGED counter /\ \A q \in Requests \ {p} : req'[q] = req[q]
    BY <1>3 DEF ClaimLikes, Refuse, Abort, CommitLike, CommitRegister, TypeOK
  <2> QED BY <1>2, <2>1, <2>2
<1>4. ASSUME NEW p \in Requests, InsertLike(p)
      PROVE  KeysInv'
  <2>1. req'[p].actor = req[p].actor /\ req[p].step = "admitted"
    BY <1>4 DEF InsertLike, TypeOK, Request
  <2>2. UNCHANGED counter /\ \A q \in Requests \ {p} : req'[q] = req[q]
    BY <1>4 DEF InsertLike, TypeOK
  <2> QED BY <1>2, <2>1, <2>2
<1>5. ASSUME NEW p \in Requests, NEW x \in Users, TryMatch(p, x)
      PROVE  KeysInv'
  <2>1. /\ UNCHANGED counter /\ \A q \in Requests \ {p} : req'[q] = req[q]
        /\ req'[p].step = req[p].step /\ req'[p].actor = req[p].actor
    BY <1>5, MatchEffect
  <2> QED BY <1>2, <2>1
<1>6. ASSUME NEW p \in Requests, Charge(p)
      PROVE  KeysInv'
  <2>1. LikeInFlight(req[p], likes, accounts)
    BY <1>6, RequestFacts DEF Charge, Shape
  <2>2. req[p].actor \in Person
    BY <2>1 DEF LikeInFlight, TypeOK, TablesTypeOK, Person
  <2> QED BY <1>6, <2>2, KeysCharge
<1>7. CASE UNCHANGED vars
  BY <1>7 DEF vars, KeysInv, Coming
<1>8. CASE NewDay
  BY <1>8, KeysNewDay
<1> QED BY <1>1, <1>3, <1>4, <1>5, <1>6, <1>7, <1>8 DEF Next, Serve

THEOREM KeysAreSound == Spec => []KeysInv
BY Invariance, KeysInit, KeysStep, PTL DEF Spec

-----------------------------------------------------------------------------
(* Chats beyond the cap.                                                   *)

Openers(u) == {p \in Requests : ChatsOf(req[p].opened, u) # {}}

CapInv ==
  /\ IsFiniteSet(chats)
  /\ \A u \in Users : Cardinality(ChatsOf(chats, u)) + Cardinality(Openers(u))
                        <= MaxActiveChats + Cardinality(Requests) - 1

LEMMA CapTypes ==
  ASSUME CapInv, NEW u
  PROVE  /\ IsFiniteSet(ChatsOf(chats, u)) /\ Cardinality(ChatsOf(chats, u)) \in Nat
         /\ Openers(u) \in SUBSET Requests /\ Cardinality(Openers(u)) \in Nat
         /\ MaxActiveChats \in Nat /\ Cardinality(Requests) \in Nat \ {0}
<1>1. ChatsOf(chats, u) \in SUBSET chats /\ Openers(u) \in SUBSET Requests
  BY DEF ChatsOf, Openers
<1>2. IsFiniteSet(ChatsOf(chats, u))
  BY <1>1, FS_Subset DEF CapInv
<1>3. Cardinality(ChatsOf(chats, u)) \in Nat
  BY <1>2, FS_CardinalityType
<1>4. Cardinality(Openers(u)) \in Nat
  BY <1>1, Subsets
<1> QED BY <1>1, <1>2, <1>3, <1>4, LimitType, SettingsAssumption

\* No chat is committed, and no more handlers are about to open one.
LEMMA CapQuiet ==
  ASSUME CapInv, chats' = chats,
         \A p \in Requests : req'[p].opened \subseteq req[p].opened
  PROVE  CapInv'
<1> SUFFICES ASSUME NEW u \in Users
             PROVE  Cardinality(ChatsOf(chats, u)) + Cardinality(Openers(u)')
                      <= MaxActiveChats + Cardinality(Requests) - 1
  BY DEF CapInv, ChatsOf
<1>1. Openers(u)' \in SUBSET Openers(u) /\ Openers(u) \in SUBSET Requests
  BY DEF Openers, ChatsOf
<1>2. Cardinality(Openers(u)') <= Cardinality(Openers(u)) /\ Cardinality(Openers(u)') \in Nat
  BY <1>1, Subsets
<1> QED BY <1>2, CapTypes DEF CapInv

\* What a handler opens is the chat of its two people, or nothing.
LEMMA OpensOne ==
  ASSUME MatchingInv, NEW p \in Requests
  PROVE  /\ req[p].opened \subseteq {{req[p].actor, req[p].target}}
         /\ req[p].step \notin {"inserted", "counted"} => req[p].opened = {}
         /\ req[p].todo # {} => req[p].opened = {}
<1>1. req[p] \in Request /\ Shape(req[p], likes, accounts)
  BY RequestFacts
<1>2. CASE req[p].step \in {"inserted", "counted"}
  BY <1>1, <1>2 DEF Shape, LikeInFlight, Unmatched, Matched
<1>3. CASE req[p].step \notin {"inserted", "counted"}
  BY <1>1, <1>3 DEF Shape, Quiet, ClaimInFlight, Request, Step
<1> QED BY <1>2, <1>3

LEMMA CapMatch ==
  ASSUME MatchingInv, CapInv, NEW p \in Requests, NEW x \in Users, TryMatch(p, x)
  PROVE  CapInv'
<1> DEFINE a == req[p].actor
           c == {{a, x}} \ chats
<1>1. /\ chats' = chats /\ req[p].opened = {}
      /\ \A q \in Requests \ {p} : req'[q] = req[q]
      /\ \/ req'[p].opened = {}
         \/ req'[p].opened = c /\ HasRoom(p, a) /\ HasRoom(p, x)
  <2>1. req[p].opened = {}
    BY OpensOne DEF TryMatch
  <2>2. TypeOK
    BY DEF MatchingInv
  <2>3. /\ chats' = chats /\ \A q \in Requests \ {p} : req'[q] = req[q]
        /\ \/ req'[p].opened = req[p].opened
           \/ /\ HasRoom(p, a) /\ HasRoom(p, x)
              /\ req'[p].opened = req[p].opened \cup c
    BY <2>2, MatchEffect
  <2> HIDE DEF c
  <2>4. {} \cup c = c
    OBVIOUS
  <2> QED BY <2>1, <2>3, <2>4
<1>2. CASE req'[p].opened = {}
  <2>1. \A q \in Requests : req'[q].opened \subseteq req[q].opened
    BY <1>1, <1>2
  <2> QED BY <1>1, <2>1, CapQuiet
<1>3. CASE req'[p].opened = c /\ HasRoom(p, a) /\ HasRoom(p, x)
  <2> SUFFICES ASSUME NEW u \in Users
               PROVE  Cardinality(ChatsOf(chats, u)) + Cardinality(Openers(u)')
                        <= MaxActiveChats + Cardinality(Requests) - 1
    BY <1>1 DEF CapInv, ChatsOf
  <2>1. CASE u \in {a, x}
    <3>1. Cardinality(ChatsOf(chats, u)) < MaxActiveChats
      <4>1. HasRoom(p, u)
        BY <1>3, <2>1
      <4>2. chats \cup req[p].opened = chats
        BY <1>1
      <4> QED BY <4>1, <4>2 DEF HasRoom
    <3>2. Openers(u)' \in SUBSET Requests
      BY DEF Openers
    <3>3. Cardinality(Openers(u)') <= Cardinality(Requests) /\ Cardinality(Openers(u)') \in Nat
      BY <3>2, Subsets
    <3> QED BY <3>1, <3>3, CapTypes
  <2>2. CASE u \notin {a, x}
    <3>1. Openers(u)' \in SUBSET Openers(u) /\ Openers(u) \in SUBSET Requests
      BY <1>1, <1>3, <2>2 DEF Openers, ChatsOf
    <3>2. Cardinality(Openers(u)') <= Cardinality(Openers(u)) /\ Cardinality(Openers(u)') \in Nat
      BY <3>1, Subsets
    <3> QED BY <3>2, CapTypes DEF CapInv
  <2> QED BY <2>1, <2>2
<1> QED BY <1>1, <1>2, <1>3

LEMMA CapCommit ==
  ASSUME MatchingInv, CapInv, NEW p \in Requests, CommitLike(p)
  PROVE  CapInv'
<1> DEFINE c == {req[p].actor, req[p].target}
<1>1. /\ chats' = chats \cup req[p].opened
      /\ \A q \in Requests \ {p} : req'[q] = req[q]
      /\ req'[p].opened = {}
  BY DEF CommitLike, Idle, MatchingInv, TypeOK
<1>2. CASE req[p].opened = {}
  <2>1. \A q \in Requests : req'[q].opened \subseteq req[q].opened
    BY <1>1, <1>2
  <2> QED BY <1>1, <1>2, <2>1, CapQuiet
<1>3. CASE req[p].opened = {c}
  <2>1. IsFiniteSet(chats')
    BY <1>1, <1>3, FS_AddElement DEF CapInv
  <2> SUFFICES ASSUME NEW u \in Users
               PROVE  Cardinality(ChatsOf(chats', u)) + Cardinality(Openers(u)')
                        <= MaxActiveChats + Cardinality(Requests) - 1
    BY <2>1 DEF CapInv, ChatsOf
  <2>2. Openers(u)' \in SUBSET (Openers(u) \ {p}) /\ Openers(u) \in SUBSET Requests
    BY <1>1 DEF Openers, ChatsOf
  <2>3. CASE u \in c
    <3>1. ChatsOf(chats', u) = ChatsOf(chats, u) \cup {c} /\ p \in Openers(u)
      BY <1>1, <1>3, <2>3 DEF ChatsOf, Openers
    <3>2. Cardinality(ChatsOf(chats', u)) <= Cardinality(ChatsOf(chats, u)) + 1
          /\ Cardinality(ChatsOf(chats', u)) \in Nat
      <4>1. /\ IsFiniteSet(ChatsOf(chats, u)) /\ Cardinality(ChatsOf(chats, u)) \in Nat
        BY CapTypes
      <4>2. Cardinality(ChatsOf(chats, u) \cup {c}) =
              IF c \in ChatsOf(chats, u) THEN Cardinality(ChatsOf(chats, u))
              ELSE Cardinality(ChatsOf(chats, u)) + 1
        BY <4>1, FS_AddElement
      <4> QED BY <3>1, <4>1, <4>2
    <3>3. Cardinality(Openers(u) \ {p}) = Cardinality(Openers(u)) - 1
      BY <2>2, <3>1, Less
    <3>4. Cardinality(Openers(u)') <= Cardinality(Openers(u) \ {p})
          /\ Cardinality(Openers(u)') \in Nat /\ Cardinality(Openers(u) \ {p}) \in Nat
      BY <2>2, Subsets
    <3> QED BY <3>2, <3>3, <3>4, CapTypes DEF CapInv
  <2>4. CASE u \notin c
    <3>1. ChatsOf(chats', u) = ChatsOf(chats, u)
      BY <1>1, <1>3, <2>4 DEF ChatsOf
    <3>2. Cardinality(Openers(u)') <= Cardinality(Openers(u)) /\ Cardinality(Openers(u)') \in Nat
      BY <2>2, Subsets
    <3> QED BY <3>1, <3>2, CapTypes DEF CapInv
  <2> QED BY <2>3, <2>4
<1>4. req[p].opened = {} \/ req[p].opened = {c}
  <2>1. req[p].opened \subseteq {c}
    BY OpensOne
  <2> HIDE DEF c
  <2> QED BY <2>1
<1> QED BY <1>2, <1>3, <1>4

LEMMA CapInit == Init => CapInv
<1> SUFFICES ASSUME Init PROVE CapInv
  OBVIOUS
<1>1. chats = {} /\ \A p \in Requests : req[p].opened = {}
  BY DEF Init, TablesInit, Idle
<1>2. \A u \in Users : ChatsOf(chats, u) = {} /\ Openers(u) = {}
  BY <1>1 DEF ChatsOf, Openers
<1>3. IsFiniteSet(chats) /\ Cardinality({}) = 0
  BY <1>1, FS_EmptySet
<1>4. MaxActiveChats \in Nat /\ Cardinality(Requests) \in Nat \ {0}
  BY LimitType, SettingsAssumption
<1> QED BY <1>2, <1>3, <1>4 DEF CapInv

LEMMA CapStep == MatchingInv /\ CapInv /\ [Next]_vars => CapInv'
<1> SUFFICES ASSUME MatchingInv, CapInv, [Next]_vars
             PROVE  CapInv'
  OBVIOUS
<1>1. ASSUME chats' = chats, NEW p \in Requests,
             \A q \in Requests \ {p} : req'[q] = req[q],
             req'[p].opened \in {{}, req[p].opened}
      PROVE  CapInv'
  <2>1. \A q \in Requests : req'[q].opened \subseteq req[q].opened
    BY <1>1
  <2> QED BY <1>1, <2>1, CapQuiet
<1>2. ASSUME NEW p \in Requests, Refuse(p) \/ Abort(p) \/ CommitRegister(p)
      PROVE  CapInv'
  <2>1. chats' = chats
    BY <1>2, OpensOne DEF Refuse, Abort, CommitRegister, tables
  <2>2. req'[p].opened = {} /\ \A q \in Requests \ {p} : req'[q] = req[q]
    BY <1>2 DEF Refuse, Abort, CommitRegister, Idle, MatchingInv, TypeOK
  <2> QED BY <1>1, <2>1, <2>2
<1>3. ASSUME NEW p \in Requests, NEW u, NEW g, ClaimLikes(p, u, g) \/ Admit(p, u, g)
      PROVE  CapInv'
  <2>1. chats' = chats
    BY <1>3 DEF ClaimLikes, Admit, tables
  <2>2. req'[p].opened = {} /\ \A q \in Requests \ {p} : req'[q] = req[q]
    BY <1>3 DEF ClaimLikes, Admit, Idle, MatchingInv, TypeOK
  <2> QED BY <1>1, <2>1, <2>2
<1>4. ASSUME NEW p \in Requests, InsertLike(p) \/ Charge(p)
      PROVE  CapInv'
  <2>1. chats' = chats
    BY <1>4 DEF InsertLike, Charge, tables
  <2>2. req'[p].opened = req[p].opened /\ \A q \in Requests \ {p} : req'[q] = req[q]
    BY <1>4 DEF InsertLike, Charge, MatchingInv, TypeOK, Request
  <2> QED BY <1>1, <2>1, <2>2
<1>5. CASE NewDay
  <2>1. chats' = chats /\ \A q \in Requests : req'[q].opened = req[q].opened
    BY <1>5 DEF NewDay, tables, MatchingInv, TypeOK, Request
  <2> QED BY <2>1, CapQuiet
<1>6. CASE UNCHANGED vars
  BY <1>6, CapQuiet DEF vars
<1>7. ASSUME NEW p \in Requests, Serve(p)
      PROVE  CapInv'
  BY <1>2, <1>4, <1>7, CapMatch, CapCommit DEF Serve
<1> QED BY <1>2, <1>3, <1>4, <1>5, <1>6, <1>7 DEF Next

THEOREM CapIsSound == Spec => []CapInv
BY Invariance, CapInit, CapStep, PTL DEF Spec

\* The like limit (enforce_like_limit) and the chat cap (_create_chat) are overrun
\* by fewer likes and chats than there are handlers: a client, or a
\* deployment, with one request at a time is held to both exactly.  Nor is a daily
\* key (increment_like_counter) charged more, though midnight may come between the
\* check of a request and its charge.
THEOREM LimitsHold == Spec => []LimitsOverrunBounded
<1>1. CapInv /\ CountsInv /\ KeysInv /\ MatchingInv => LimitsOverrunBounded
  <2> SUFFICES ASSUME CapInv, CountsInv, KeysInv, TypeOK
               PROVE  OverrunBounded /\ ChatOverrunBounded
    BY DEF MatchingInv, LimitsOverrunBounded
  <2>1. OverrunBounded
    BY CountTypes, KeyTypes DEF CountsInv, Overrun, KeysInv, OverrunBounded
  <2>2. ChatOverrunBounded
    BY CapTypes DEF CapInv, ChatOverrunBounded
  <2> QED BY <2>1, <2>2
<1> QED BY <1>1, CapIsSound, CountsAreSound, KeysAreSound, Invariance, PTL

-----------------------------------------------------------------------------
(* Matches that are missed.                                                *)

\* Two likes of a pair that are in flight together were noted as crossing when
\* the second was inserted.
Noticed == \A p, q \in Requests :
  /\ req[p].step \in {"inserted", "counted"} /\ req[q].step \in {"inserted", "counted"}
  /\ req[p].actor = req[q].target /\ req[p].target = req[q].actor
  => {req[p].actor, req[p].target} \in crossed

\* A like that has looked for its reverse and found none either has none to be
\* found by now, or crossed it.
Looked == \A p \in Requests :
  /\ req[p].step \in {"inserted", "counted"} /\ req[p].todo = {} /\ req[p].gone = {}
  => \A m \in likes : Key(m) = <<req[p].target, req[p].actor>> /\ m.visible
       => {req[p].actor, req[p].target} \in crossed

MissInv == Noticed /\ Looked /\ OnlyCrossedLikesMiss

LEMMA MissInit == Init => MissInv
BY DEF Init, TablesInit, Idle, MissInv, Noticed, Looked, OnlyCrossedLikesMiss

\* A step on the tables' outside, after which no more likes are in flight, and
\* none newly looks.
LEMMA MissQuiet ==
  ASSUME MissInv, likes' = likes, crossed \subseteq crossed',
         \A p \in Requests : req'[p].step \in {"inserted", "counted"} =>
           /\ req[p].step \in {"inserted", "counted"}
           /\ req'[p].actor = req[p].actor /\ req'[p].target = req[p].target
           /\ req'[p].todo = {} /\ req'[p].gone = {} =>
                req[p].todo = {} /\ req[p].gone = {}
  PROVE  MissInv'
<1>1. Noticed'
  BY DEF MissInv, Noticed
<1>2. Looked'
  BY DEF MissInv, Looked
<1>3. OnlyCrossedLikesMiss'
  BY DEF MissInv, OnlyCrossedLikesMiss
<1> QED BY <1>1, <1>2, <1>3 DEF MissInv

\* What handlers in flight hold.
LEMMA HoldsOwn ==
  ASSUME MatchingInv, NEW q \in Requests, req[q].step \in {"inserted", "counted"}
  PROVE  /\ LikeInFlight(req[q], likes, accounts)
         /\ <<req[q].actor, req[q].target>> \in Held(q)
<1>1. LikeInFlight(req[q], likes, accounts) /\ likes \in SUBSET LikeRow
  BY RequestFacts DEF Shape, MatchingInv, TypeOK, TablesTypeOK
<1>2. <<req[q].actor, req[q].target>> \in HeldBy(req[q])
  BY <1>1, LikeHolds
<1> QED BY <1>1, <1>2 DEF Held, HeldBy

LEMMA MissInsert ==
  ASSUME MatchingInv, MissInv, NEW p \in Requests, InsertLike(p)
  PROVE  MissInv'
<1> DEFINE a == req[p].actor
           x == req[p].target
<1>1. /\ likes' = likes /\ crossed \subseteq crossed' /\ a # x
      /\ (\E q \in Requests \ {p} : <<x, a>> \in Held(q)) => {a, x} \in crossed'
      /\ \A q \in Requests \ {p} : req'[q] = req[q]
      /\ req'[p].actor = a /\ req'[p].target = x /\ req'[p].todo = {x}
  BY DEF InsertLike, tables, MatchingInv, TypeOK, Request
<1>2. Noticed'
  <2> SUFFICES ASSUME NEW e \in Requests, NEW f \in Requests,
                      req'[e].step \in {"inserted", "counted"},
                      req'[f].step \in {"inserted", "counted"},
                      req'[e].actor = req'[f].target, req'[e].target = req'[f].actor
               PROVE  {req'[e].actor, req'[e].target} \in crossed'
    BY DEF Noticed
  <2>1. CASE e # p /\ f # p
    BY <1>1, <2>1 DEF MissInv, Noticed
  <2>2. CASE e = p /\ f = p
    BY <1>1, <2>2
  <2>3. CASE e = p /\ f # p
    <3>1. <<x, a>> \in Held(f)
      BY <1>1, <2>3, HoldsOwn
    <3> QED BY <1>1, <2>3, <3>1
  <2>4. CASE e # p /\ f = p
    <3>1. <<x, a>> \in Held(e)
      BY <1>1, <2>4, HoldsOwn
    <3>2. {req'[e].actor, req'[e].target} = {a, x}
      BY <1>1, <2>4
    <3> QED BY <1>1, <2>4, <3>1, <3>2
  <2> QED BY <2>1, <2>2, <2>3, <2>4
<1>3. Looked'
  BY <1>1 DEF MissInv, Looked
<1>4. OnlyCrossedLikesMiss'
  BY <1>1 DEF MissInv, OnlyCrossedLikesMiss
<1> QED BY <1>2, <1>3, <1>4 DEF MissInv

\* A look that finds nothing: no visible reverse row is committed.
LEMMA MissMatch ==
  ASSUME MatchingInv, MissInv, NEW p \in Requests, NEW x \in Users, TryMatch(p, x)
  PROVE  MissInv'
<1> DEFINE a == req[p].actor
<1>1. TypeOK
  BY DEF MatchingInv
<1>2. /\ likes' = likes /\ crossed' = crossed /\ \A q \in Requests \ {p} : req'[q] = req[q]
      /\ req'[p].step = req[p].step /\ req'[p].actor = a /\ req'[p].target = req[p].target
      /\ Reverse(View(p), a, x) = {} =>
           req'[p].put = req[p].put /\ req'[p].gone = req[p].gone
      /\ Reverse(View(p), a, x) # {} =>
           req'[p].gone = req[p].gone \cup {Key(l) : l \in MatchedRows(p, x)}
  BY <1>1, MatchEffect
<1>3. Noticed'
  BY <1>2 DEF MissInv, Noticed
<1>4. Looked'
  <2> SUFFICES ASSUME NEW q \in Requests, req'[q].step \in {"inserted", "counted"},
                      req'[q].todo = {}, req'[q].gone = {},
                      NEW m \in likes, Key(m) = <<req'[q].target, req'[q].actor>>, m.visible
               PROVE  {req'[q].actor, req'[q].target} \in crossed
    BY <1>2 DEF Looked
  <2>1. CASE q # p
    BY <1>2, <2>1 DEF MissInv, Looked
  <2>2. CASE q = p
    <3>1. req[p].step = "inserted" /\ x \in req[p].todo
      BY <1>2, <2>2 DEF TryMatch
    <3>2. LikeInFlight(req[p], likes, accounts)
      BY <3>1, HoldsOwn
    <3>3. Unmatched(req[p]) /\ x = req[p].target
      BY <3>1, <3>2 DEF LikeInFlight, Matched, Unmatched
    <3>4. m \in View(p)
      BY <3>3 DEF View, Unmatched
    <3>5. m \in Reverse(View(p), a, x)
      BY <1>2, <2>2, <3>3, <3>4 DEF Reverse
    <3>6. \A l \in MatchedRows(p, x) : Key(l) \in req'[p].gone
      BY <1>2, <3>5
    <3>7. m \in MatchedRows(p, x)
      BY <1>2, <2>2, <3>3, <3>4 DEF MatchedRows
    <3> QED BY <2>2, <3>6, <3>7
  <2> QED BY <2>1, <2>2
<1>5. OnlyCrossedLikesMiss'
  BY <1>2 DEF MissInv, OnlyCrossedLikesMiss
<1> QED BY <1>3, <1>4, <1>5 DEF MissInv

\* After a commit that adds, to the rows that were there, one like of a by the
\* handler p, or a match, or a registration.
LEMMA MissCommitLike ==
  ASSUME MatchingInv, MissInv, NEW p \in Requests, CommitLike(p)
  PROVE  MissInv'
<1> DEFINE r == req[p]
           a == r.actor
           x == r.target
<1>1. /\ likes' = View(p) /\ crossed' = crossed /\ r.step = "counted" /\ r.todo = {}
      /\ \A q \in Requests \ {p} : req'[q] = req[q]
      /\ req'[p].step = "idle"
  <2>1. r.todo = {}
    BY RequestFacts DEF CommitLike, Shape
  <2> QED BY <2>1 DEF CommitLike, Idle, MatchingInv, TypeOK
<1>2. LikeInFlight(r, likes, accounts)
  BY <1>1, HoldsOwn
<1>3. Noticed'
  BY <1>1 DEF MissInv, Noticed
<1>4. \A l \in r.put : Key(l) \in Held(p)
  BY DEF Held
<1>5. Looked'
  <2> SUFFICES ASSUME NEW q \in Requests, req'[q].step \in {"inserted", "counted"},
                      req'[q].todo = {}, req'[q].gone = {},
                      NEW m \in likes', Key(m) = <<req'[q].target, req'[q].actor>>, m.visible
               PROVE  {req'[q].actor, req'[q].target} \in crossed
    BY <1>1 DEF Looked
  <2>1. q # p /\ req'[q] = req[q]
    BY <1>1
  <2>2. CASE m \in likes
    BY <2>1, <2>2 DEF MissInv, Looked
  <2>3. CASE m \in r.put
    <3>1. <<req[q].actor, req[q].target>> \in Held(q)
      BY <2>1, HoldsOwn
    <3>2. Held(p) \cap Held(q) = {}
      BY <2>1 DEF MatchingInv, Locks, Held, HeldBy
    <3>3. Unmatched(r)
      <4>1. CASE Matched(r, likes, accounts)
        <5>1. Held(p) \subseteq {<<a, x>>, <<x, a>>}
          BY <1>2, LikeHolds DEF Held, HeldBy, MatchingInv, TypeOK, TablesTypeOK
        <5>2. {<<a, x>>, <<x, a>>} \subseteq Held(p)
          BY <4>1 DEF Matched, Held
        <5>3. Key(m) \in {<<a, x>>, <<x, a>>}
          BY <1>4, <2>3, <5>1
        <5>4. <<req[q].actor, req[q].target>> \in {<<a, x>>, <<x, a>>}
          BY <2>1, <5>3
        <5> QED BY <3>1, <3>2, <5>2, <5>4
      <4> QED BY <1>2, <4>1 DEF LikeInFlight
    <3>4. Key(m) = <<a, x>>
      BY <2>3, <3>3 DEF Unmatched, NewLike, Key
    <3>5. req[q].target = a /\ req[q].actor = x
      BY <2>1, <3>4
    <3> QED BY <1>1, <2>1, <3>5 DEF MissInv, Noticed
  <2> QED BY <1>1, <2>2, <2>3 DEF View
<1>6. OnlyCrossedLikesMiss'
  <2> SUFFICES ASSUME NEW l \in likes', NEW m \in likes', Key(m) = Flip(Key(l)),
                      l.visible, m.visible, ~l.mutual
               PROVE  {l.sender, l.receiver} \in crossed
    BY <1>1 DEF OnlyCrossedLikesMiss
  <2>1. CASE l \in likes /\ m \in likes
    BY <2>1 DEF MissInv, OnlyCrossedLikesMiss
  <2>2. CASE Matched(r, likes, accounts)
    <3>1. \A k \in r.put : k.mutual
      <4>1. likes \subseteq LikeRow
        BY DEF MatchingInv, TypeOK, TablesTypeOK
      <4> QED BY <2>2, <4>1 DEF Matched, MarkMutual, Reverse, NewLike, LikeRow
    <3>2. l \in likes /\ Key(l) \notin {<<a, x>>, <<x, a>>}
      BY <1>1, <2>2, <3>1 DEF View, Matched
    <3>3. Held(p) \subseteq {<<a, x>>, <<x, a>>}
      BY <1>2, LikeHolds DEF Held, HeldBy, MatchingInv, TypeOK, TablesTypeOK
    <3>4. m \notin r.put
      BY <1>4, <3>2, <3>3 DEF Key, Flip
    <3> QED BY <1>1, <2>1, <3>2, <3>4 DEF View
  <2>3. CASE Unmatched(r) /\ (l \notin likes \/ m \notin likes)
    <3>1. r.put = {NewLike(a, x)} /\ r.gone = {}
      BY <2>3 DEF Unmatched
    <3>2. Key(NewLike(a, x)) = <<a, x>> /\ a # x
      BY <1>2 DEF Key, NewLike, LikeInFlight
    <3>3. \A k \in likes : Key(k) = <<x, a>> /\ k.visible => {a, x} \in crossed
      BY <1>1, <3>1 DEF MissInv, Looked
    <3>4. \/ Key(l) = <<a, x>> /\ m \in likes /\ Key(m) = <<x, a>>
          \/ Key(m) = <<a, x>> /\ l \in likes /\ Key(l) = <<x, a>>
      BY <1>1, <2>3, <3>1, <3>2 DEF View, Key, Flip
    <3>5. {l.sender, l.receiver} = {a, x}
      BY <3>4 DEF Key
    <3> QED BY <3>3, <3>4, <3>5
  <2> QED BY <1>2, <2>1, <2>2, <2>3 DEF LikeInFlight
<1> QED BY <1>3, <1>5, <1>6 DEF MissInv

\* A claimed row has no reverse: nobody can have liked the account before.
LEMMA MissRegister ==
  ASSUME MatchingInv, MissInv, NEW p \in Requests, CommitRegister(p)
  PROVE  MissInv'
<1> DEFINE r == req[p]
           u == r.actor
<1>1. /\ likes' = View(p) /\ crossed' = crossed /\ r.step = "claimed"
      /\ \A q \in Requests \ {p} : req'[q] = req[q]
      /\ req'[p].step = "idle"
  BY DEF CommitRegister, Idle, MatchingInv, TypeOK
<1>2. u \in Users \ accounts /\ \E moved \in SUBSET likes : Moves(r, moved)
  BY <1>1, RequestFacts DEF Shape, ClaimInFlight
<1>3. \A l \in r.put : l.sender = u /\ l.receiver \in accounts
  <2>1. \A l \in likes : l \in LikeRow /\ l.receiver \in accounts
    BY DEF MatchingInv, TypeOK, TablesTypeOK, TablesSound, HiddenUntilRegistered
  <2>2. PICK moved \in SUBSET likes : Moves(r, moved)
    BY <1>2
  <2>3. \A l \in moved : Claimed(l, u).sender = u /\ Claimed(l, u).receiver = l.receiver
    BY <2>1 DEF Claimed, LikeRow
  <2> QED BY <2>1, <2>2, <2>3 DEF Moves
<1>4. Noticed'
  BY <1>1 DEF MissInv, Noticed
<1>5. Looked'
  <2> SUFFICES ASSUME NEW q \in Requests, req'[q].step \in {"inserted", "counted"},
                      req'[q].todo = {}, req'[q].gone = {},
                      NEW m \in likes', Key(m) = <<req'[q].target, req'[q].actor>>, m.visible
               PROVE  {req'[q].actor, req'[q].target} \in crossed
    BY <1>1 DEF Looked
  <2>1. q # p /\ req'[q] = req[q]
    BY <1>1
  <2>2. req[q].target \in accounts
    BY <2>1, HoldsOwn DEF LikeInFlight
  <2>3. m \in likes
    BY <1>1, <1>2, <1>3, <2>1, <2>2 DEF View, Key
  <2> QED BY <2>1, <2>3 DEF MissInv, Looked
<1>6. OnlyCrossedLikesMiss'
  <2> SUFFICES ASSUME NEW l \in likes', NEW m \in likes', Key(m) = Flip(Key(l)),
                      l.visible, m.visible, ~l.mutual
               PROVE  {l.sender, l.receiver} \in crossed
    BY <1>1 DEF OnlyCrossedLikesMiss
  <2>1. \A k \in likes' : k.receiver \in accounts
    BY <1>1, <1>3 DEF View, MatchingInv, TablesSound, HiddenUntilRegistered
  <2>2. l.sender = m.receiver /\ m.sender = l.receiver
    BY DEF Key, Flip
  <2>3. l \in likes /\ m \in likes
    BY <1>1, <1>2, <1>3, <2>1, <2>2 DEF View
  <2> QED BY <2>3 DEF MissInv, OnlyCrossedLikesMiss
<1> QED BY <1>4, <1>5, <1>6 DEF MissInv

LEMMA MissStep == MatchingInv /\ MissInv /\ [Next]_vars => MissInv'
<1> SUFFICES ASSUME MatchingInv, MissInv, [Next]_vars
             PROVE  MissInv'
  OBVIOUS
<1>1. ASSUME NEW p \in Requests, likes' = likes, crossed' = crossed,
             \A q \in Requests \ {p} : req'[q] = req[q],
             req'[p].step \notin {"inserted", "counted"}
      PROVE  MissInv'
  BY <1>1, MissQuiet
<1>2. ASSUME NEW p \in Requests, NEW u, NEW g,
             \/ ClaimLikes(p, u, g) \/ Admit(p, u, g)
             \/ Refuse(p) \/ Abort(p)
      PROVE  MissInv'
  <2>1. likes' = likes /\ crossed' = crossed
    BY <1>2 DEF ClaimLikes, Admit, Refuse, Abort, tables
  <2>2. req'[p].step \notin {"inserted", "counted"}
        /\ \A q \in Requests \ {p} : req'[q] = req[q]
    <3> req \in [Requests -> Request]
      BY DEF MatchingInv, TypeOK
    <3>1. CASE ClaimLikes(p, u, g)
      BY <3>1 DEF ClaimLikes, Idle
    <3>2. CASE Admit(p, u, g)
      BY <3>2 DEF Admit, Idle
    <3>3. CASE Refuse(p) \/ Abort(p)
      BY <3>3, IdleType DEF Refuse, Abort
    <3> QED BY <1>2, <3>1, <3>2, <3>3
  <2> QED BY <1>1, <2>1, <2>2
<1>3. ASSUME NEW p \in Requests, Charge(p)
      PROVE  MissInv'
  <2>1. likes' = likes /\ crossed' = crossed /\ req[p].step = "inserted"
    BY <1>3 DEF Charge, tables
  <2>2. /\ \A q \in Requests \ {p} : req'[q] = req[q]
        /\ req'[p].actor = req[p].actor /\ req'[p].target = req[p].target
        /\ req'[p].todo = req[p].todo /\ req'[p].gone = req[p].gone
    BY <1>3 DEF Charge, MatchingInv, TypeOK, Request
  <2> QED BY <2>1, <2>2, MissQuiet
<1>4. CASE NewDay
  <2>1. likes' = likes /\ crossed' = crossed
    BY <1>4 DEF NewDay, tables
  <2>2. \A q \in Requests : /\ req'[q].step = req[q].step /\ req'[q].actor = req[q].actor
                            /\ req'[q].target = req[q].target /\ req'[q].todo = req[q].todo
                            /\ req'[q].gone = req[q].gone
    BY <1>4 DEF NewDay, MatchingInv, TypeOK, Request
  <2> QED BY <2>1, <2>2, MissQuiet
<1>5. CASE UNCHANGED vars
  BY <1>5, MissQuiet DEF vars
<1>6. ASSUME NEW p \in Requests, Serve(p)
      PROVE  MissInv'
  BY <1>2, <1>3, <1>6, MissMatch, MissCommitLike, MissRegister DEF Serve
<1> QED BY <1>2, <1>4, <1>5, <1>6, MissInsert DEF Next

THEOREM MissesAreNoted == Spec => []MissInv
BY Invariance, MissInit, MissStep, PTL DEF Spec

\* try_create_mutual_match, run once per like, misses only a pair whose two
\* requests were in flight together: for any number of handlers, and whatever
\* guests' likes become visible by registrations.
THEOREM OnlyCrossingMisses == Spec => []OnlyCrossedLikesMiss
<1>1. MissInv => OnlyCrossedLikesMiss
  BY DEF MissInv
<1> QED BY <1>1, MissesAreNoted, PTL

-----------------------------------------------------------------------------
(* What becomes of likes, and what the lists show of them.                 *)

\* All four table invariants at once, after every commit.
THEOREM TablesAreSound == Spec => []TablesSound
<1>1. MatchingInv => TablesSound
  BY DEF MatchingInv
<1> QED BY <1>1, Invariance, PTL

LEMMA KeptByLike ==
  ASSUME MatchingInv, NEW p \in Requests, CommitLike(p), NEW l \in likes
  PROVE  \E m \in likes' : /\ Key(m) = Key(l)
                           /\ l.visible => m.visible
                           /\ l.mutual => m.mutual
<1> DEFINE r == req[p]
           a == r.actor
           x == r.target
<1>1. likes' = View(p) /\ LikeInFlight(r, likes, accounts)
  BY HoldsOwn DEF CommitLike
<1>2. CASE Key(l) \notin r.gone
  BY <1>1, <1>2 DEF View
<1>3. CASE Key(l) \in r.gone
  <2>1. Matched(r, likes, accounts) /\ Key(l) # <<a, x>>
    BY <1>1, <1>3 DEF LikeInFlight, Unmatched
  <2>2. Key(l) = <<x, a>>
    BY <1>3, <2>1 DEF Matched
  <2>3. PICK b \in likes : Key(b) = <<x, a>> /\ b \in Reverse(likes, a, x)
    BY <2>1 DEF Matched, Reverse
  <2>4. l \in Reverse(likes, a, x)
    BY <2>2, <2>3 DEF MatchingInv, TablesSound, OneLikePerPair
  <2> DEFINE m == [l EXCEPT !.mutual = TRUE]
  <2>5. m \in r.put
    <3>1. r.put = {[k EXCEPT !.mutual = TRUE] :
                     k \in Reverse(likes, a, x) \cup {NewLike(a, x)}}
      BY <2>1 DEF Matched, MarkMutual
    <3> QED BY <2>4, <3>1
  <2>6. l \in LikeRow
    BY DEF MatchingInv, TypeOK, TablesTypeOK
  <2>7. Key(m) = Key(l) /\ m.visible = l.visible /\ m.mutual
    BY <2>6 DEF LikeRow, Key
  <2> QED BY <1>1, <2>5, <2>7 DEF View
<1> QED BY <1>2, <1>3

LEMMA KeptByRegister ==
  ASSUME MatchingInv, NEW p \in Requests, CommitRegister(p), NEW l \in likes, l \notin likes'
  PROVE  l.sender \in Guests /\ \E u \in accounts' \ accounts : Claimed(l, u) \in likes'
<1> DEFINE r == req[p]
           u == r.actor
<1>1. /\ likes' = View(p) /\ accounts' = accounts \cup {u} /\ u \in Users \ accounts
      /\ \E moved \in SUBSET likes : Moves(r, moved)
  BY RequestFacts DEF CommitRegister, Shape, ClaimInFlight
<1>2. PICK moved \in SUBSET likes : Moves(r, moved)
  BY <1>1
<1>3. l \in moved
  <2>1. Key(l) \in r.gone
    BY <1>1 DEF View
  <2> QED BY <1>2, <2>1 DEF Moves, MatchingInv, TablesSound, OneLikePerPair
<1>4. Claimed(l, u) \in likes'
  BY <1>1, <1>2, <1>3 DEF Moves, View
<1> QED BY <1>1, <1>2, <1>3, <1>4 DEF Moves

\* A committed like is never lost: the sender's row stays, matched or not, or, if
\* it was a guest's, is the row of the one account that registered with it.
THEOREM LikesStay == Spec => LikesAreKept
<1> DEFINE Kept == \A l \in likes :
       \/ \E m \in likes' : /\ Key(m) = Key(l)
                            /\ l.visible => m.visible
                            /\ l.mutual => m.mutual
       \/ /\ l.sender \in Guests
          /\ \E u \in accounts' \ accounts : Claimed(l, u) \in likes'
<1>1. MatchingInv /\ [Next]_vars => [Kept]_vars
  <2> SUFFICES ASSUME MatchingInv, Next PROVE Kept
    OBVIOUS
  <2>1. CASE likes' = likes
    BY <2>1
  <2>2. ASSUME NEW p \in Requests, CommitLike(p)
        PROVE  Kept
    BY <2>2, KeptByLike
  <2>3. ASSUME NEW p \in Requests, CommitRegister(p)
        PROVE  Kept
    <3> SUFFICES ASSUME NEW l \in likes
                 PROVE  \/ \E m \in likes' : /\ Key(m) = Key(l)
                                             /\ l.visible => m.visible
                                             /\ l.mutual => m.mutual
                        \/ /\ l.sender \in Guests
                           /\ \E u \in accounts' \ accounts : Claimed(l, u) \in likes'
      OBVIOUS
    <3>1. CASE l \in likes'
      BY <3>1
    <3>2. CASE l \notin likes'
      BY <2>3, <3>2, KeptByRegister
    <3> QED BY <3>1, <3>2
  <2> HIDE DEF Kept
  <2> QED BY <2>1, <2>2, <2>3 DEF Next, Serve, Admit, ClaimLikes, InsertLike, Refuse, TryMatch,
                             Charge, Abort, NewDay, tables
<1> QED BY <1>1, Invariance, PTL DEF Spec, LikesAreKept

\* There are never infinitely many likes, so that they can be counted.
Countable == IsFiniteSet(likes) /\ \A p \in Requests : IsFiniteSet(req[p].put)

LEMMA FiniteImage ==
  ASSUME NEW S, IsFiniteSet(S), NEW f, DOMAIN f = S
  PROVE  IsFiniteSet({f[x] : x \in S})
<1> DEFINE T == {f[x] : x \in S}
           h == [x \in S |-> f[x]]
<1>1. h \in Surjection(S, T)
  BY DEF Surjection
<1> QED BY <1>1, FS_Surjection

LEMMA FiniteView ==
  ASSUME Countable, NEW p \in Requests
  PROVE  IsFiniteSet(View(p))
<1>1. IsFiniteSet({l \in likes : Key(l) \notin req[p].gone})
  BY FS_Subset DEF Countable
<1> QED BY <1>1, FS_Union DEF View, Countable

LEMMA CountableStep == MatchingInv /\ Countable /\ [Next]_vars => Countable'
<1> SUFFICES ASSUME MatchingInv, Countable, [Next]_vars
             PROVE  Countable'
  OBVIOUS
<1>1. ASSUME likes' = likes, NEW p \in Requests, IsFiniteSet(req'[p].put),
             \A q \in Requests \ {p} : req'[q] = req[q]
      PROVE  Countable'
  BY <1>1 DEF Countable
<1>2. ASSUME NEW p \in Requests, NEW u, NEW g,
             \/ Admit(p, u, g) \/ Refuse(p) \/ Abort(p)
      PROVE  Countable'
  <2>1. likes' = likes
    BY <1>2 DEF Admit, Refuse, Abort, tables
  <2>2. req'[p].put = {} /\ \A q \in Requests \ {p} : req'[q] = req[q]
    <3> req \in [Requests -> Request]
      BY DEF MatchingInv, TypeOK
    <3>1. CASE Admit(p, u, g)
      BY <3>1 DEF Admit, Idle
    <3>2. CASE Refuse(p) \/ Abort(p)
      BY <3>2, IdleType DEF Refuse, Abort, Quiet
    <3> QED BY <1>2, <3>1, <3>2
  <2> QED BY <1>1, <2>1, <2>2, FS_EmptySet
<1>3. ASSUME NEW p \in Requests, NEW u, NEW g, ClaimLikes(p, u, g)
      PROVE  Countable'
  <2> DEFINE rows == RowsOf(g)
             f == [l \in rows |-> Claimed(l, u)]
  <2>1. IsFiniteSet(rows)
    BY FS_Subset DEF Countable, RowsOf
  <2>2. IsFiniteSet({f[l] : l \in rows})
    BY <2>1, FiniteImage
  <2>3. {f[l] : l \in rows} = {Claimed(l, u) : l \in rows}
    OBVIOUS
  <2>4. likes' = likes
    BY <1>3 DEF ClaimLikes, tables
  <2>5. req'[p].put = {Claimed(l, u) : l \in rows} /\ \A q \in Requests \ {p} : req'[q] = req[q]
    BY <1>3 DEF ClaimLikes, Idle, MatchingInv, TypeOK
  <2> QED BY <1>1, <2>2, <2>3, <2>4, <2>5
<1>4. ASSUME NEW p \in Requests, InsertLike(p) \/ Charge(p)
      PROVE  Countable'
  <2>1. likes' = likes
    BY <1>4 DEF InsertLike, Charge, tables
  <2>2. req'[p].put \in {{NewLike(req[p].actor, req[p].target)}, req[p].put}
        /\ \A q \in Requests \ {p} : req'[q] = req[q]
    BY <1>4 DEF InsertLike, Charge, MatchingInv, TypeOK, Request
  <2>3. IsFiniteSet(req'[p].put)
    <3>1. IsFiniteSet({NewLike(req[p].actor, req[p].target)}) /\ IsFiniteSet(req[p].put)
      BY FS_Singleton DEF Countable
    <3> QED BY <2>2, <3>1
  <2> QED BY <1>1, <2>1, <2>2, <2>3
<1>5. ASSUME NEW p \in Requests, NEW x \in Users, TryMatch(p, x)
      PROVE  Countable'
  <2> DEFINE both == MatchedRows(p, x)
             f == [l \in both |-> [l EXCEPT !.mutual = TRUE]]
  <2>1. IsFiniteSet(both)
    BY FiniteView, FS_Subset DEF MatchedRows
  <2>2. IsFiniteSet({f[l] : l \in both})
    <3>1. DOMAIN f = both
      OBVIOUS
    <3> HIDE DEF f, both
    <3> QED BY <2>1, <3>1, FiniteImage
  <2>3. {f[l] : l \in both} = MarkMutual(both)
    BY DEF MarkMutual
  <2>4. IsFiniteSet(req[p].put \ both)
    BY FS_Subset DEF Countable
  <2>5. IsFiniteSet((req[p].put \ both) \cup MarkMutual(both))
    BY <2>2, <2>3, <2>4, FS_Union
  <2>6. TypeOK
    BY DEF MatchingInv
  <2>7. /\ likes' = likes /\ \A q \in Requests \ {p} : req'[q] = req[q]
        /\ \/ req'[p].put = req[p].put
           \/ req'[p].put = (req[p].put \ both) \cup MarkMutual(both)
    BY <1>5, <2>6, MatchEffect
  <2> HIDE DEF both
  <2> QED BY <1>1, <2>5, <2>7 DEF Countable
<1>6. ASSUME NEW p \in Requests, CommitLike(p) \/ CommitRegister(p)
      PROVE  Countable'
  <2>1. likes' = View(p)
    BY <1>6 DEF CommitLike, CommitRegister
  <2>2. req'[p].put = {} /\ \A q \in Requests \ {p} : req'[q] = req[q]
    BY <1>6 DEF CommitLike, CommitRegister, Idle, MatchingInv, TypeOK
  <2> QED BY <2>1, <2>2, FiniteView, FS_EmptySet DEF Countable
<1>7. CASE NewDay
  <2>1. likes' = likes /\ \A q \in Requests : req'[q].put = req[q].put
    BY <1>7 DEF NewDay, tables, MatchingInv, TypeOK, Request
  <2> QED BY <2>1 DEF Countable
<1>8. CASE UNCHANGED vars
  BY <1>8 DEF vars, Countable
<1>9. ASSUME NEW p \in Requests, Serve(p)
      PROVE  Countable'
  BY <1>2, <1>4, <1>5, <1>6, <1>9 DEF Serve
<1> QED BY <1>2, <1>3, <1>4, <1>5, <1>7, <1>8, <1>9 DEF Next

THEOREM LikesAreCountable == Spec => []Countable
<1>1. Init => Countable
  <2>1. Init => likes = {} /\ \A p \in Requests : req[p].put = {}
    BY DEF Init, TablesInit, Idle
  <2> QED BY <2>1, FS_EmptySet DEF Countable
<1> QED BY <1>1, CountableStep, Invariance, PTL DEF Spec

LEMMA RowFacts ==
  ASSUME MatchingInv, NEW l \in likes
  PROVE  /\ l \in LikeRow /\ l.receiver \in accounts
         /\ l.visible => l.sender \in accounts
         /\ l.mutual => l.visible
BY DEF MatchingInv, TypeOK, TablesTypeOK, TablesSound, HiddenUntilRegistered, MutualIsSymmetric

\* A match as its other side has it.
LEMMA Mirror ==
  ASSUME MatchingInv, NEW l \in likes, l.mutual
  PROVE  \E m \in likes : /\ m.sender = l.receiver /\ m.receiver = l.sender
                          /\ m.visible /\ m.mutual
BY DEF MatchingInv, TablesSound, MutualIsSymmetric, Key, Flip

LEMMA MatchesAre ==
  ASSUME MatchingInv, NEW u \in accounts
  PROVE  /\ Matches(BasketReceived(u)) = {l.sender : l \in {k \in Received(u) : k.mutual}}
         /\ Matches(BasketSent(u)) = {l.receiver : l \in {k \in likes : k.sender = u /\ k.mutual}}
<1>1. \A l \in likes : l.receiver \in accounts
  BY RowFacts
<1>2. ASSUME NEW v
      PROVE  v \in Matches(BasketReceived(u)) <=>
               \E l \in Received(u) : l.mutual /\ l.sender = v
  <2> DEFINE Item(l) == [user |-> l.sender, mutual |-> l.mutual, known |-> l.sender \in accounts]
  <2>1. \A l : Item(l).user = l.sender /\ Item(l).mutual = l.mutual
    OBVIOUS
  <2>2. BasketReceived(u) = {Item(l) : l \in Received(u)}
    BY DEF BasketReceived
  <2> HIDE DEF Item
  <2> QED BY <2>1, <2>2 DEF Matches
<1>3. ASSUME NEW v
      PROVE  v \in Matches(BasketSent(u)) <=>
               \E l \in likes : l.sender = u /\ l.mutual /\ l.receiver = v
  <2> DEFINE Item(l) == [user |-> l.receiver, mutual |-> l.mutual]
             sent == {k \in likes : k.sender = u /\ k.receiver \in accounts}
  <2>1. \A l : Item(l).user = l.receiver /\ Item(l).mutual = l.mutual
    OBVIOUS
  <2>2. BasketSent(u) = {Item(l) : l \in sent}
    BY DEF BasketSent
  <2>3. sent = {k \in likes : k.sender = u}
    BY <1>1
  <2> HIDE DEF Item, sent
  <2>4. v \in Matches(BasketSent(u)) <=> \E l \in sent : l.mutual /\ l.receiver = v
    BY <2>1, <2>2 DEF Matches
  <2> QED BY <2>3, <2>4
<1> QED BY <1>2, <1>3

LEMMA BothSidesAgree ==
  ASSUME MatchingInv, NEW u \in accounts
  PROVE  Matches(BasketSent(u)) = Matches(BasketReceived(u))
<1>1. ASSUME NEW l \in likes, l.sender = u, l.mutual
      PROVE  l.receiver \in Matches(BasketReceived(u))
  BY <1>1, Mirror, MatchesAre DEF Received
<1>2. ASSUME NEW l \in Received(u), l.mutual
      PROVE  l.sender \in Matches(BasketSent(u))
  BY <1>2, Mirror, MatchesAre DEF Received
<1> QED BY <1>1, <1>2, MatchesAre

LEMMA CountAgrees ==
  ASSUME MatchingInv, Countable, NEW u \in accounts
  PROVE  MutualCount(u) = Cardinality(Matches(BasketReceived(u)))
<1> DEFINE S == {l \in Received(u) : l.mutual}
           T == Matches(BasketReceived(u))
           f == [l \in S |-> l.sender]
<1>1. IsFiniteSet(S)
  BY FS_Subset DEF Countable, Received
<1>2. T = {l.sender : l \in S}
  BY MatchesAre
<1>3. \A l, m \in S : l.sender = m.sender => l = m
  BY DEF Received, MatchingInv, TablesSound, OneLikePerPair, Key
<1> HIDE DEF S, T
<1>4. f \in [S -> T] /\ \A t \in T : \E l \in S : f[l] = t
  BY <1>2
<1>5. \A l, m \in S : f[l] = f[m] => l = m
  BY <1>3
<1> HIDE DEF f
<1>6. f \in Bijection(S, T)
  BY <1>4, <1>5 DEF Bijection, Injection, Surjection, IsInjective
<1>7. Cardinality(T) = Cardinality(S)
  BY <1>1, <1>6, FS_Bijection DEF ExistsBijection
<1> QED BY <1>7 DEF MutualCount, S, T

LEMMA ChatsAgree ==
  ASSUME MatchingInv, NEW u \in accounts
  PROVE  ChatList(u) \subseteq Matches(BasketReceived(u))
<1> SUFFICES ASSUME NEW v, {u, v} \in chats
             PROVE  v \in Matches(BasketReceived(u))
  BY DEF ChatList, ChatsOf
<1>1. PICK l \in likes : l.mutual /\ {u, v} = {l.sender, l.receiver} /\ l.sender # l.receiver
  BY DEF MatchingInv, TablesSound, ChatsComeFromMatches
<1>2. PICK m \in likes : m.sender = l.receiver /\ m.receiver = l.sender /\ m.visible /\ m.mutual
  BY <1>1, Mirror
<1>3. \/ l.sender = v /\ l.receiver = u
      \/ m.sender = v /\ m.receiver = u
  BY <1>1, <1>2
<1>4. l.visible
  BY <1>1, RowFacts
<1> QED BY <1>1, <1>2, <1>3, <1>4, MatchesAre DEF Received

\* The four queries of the baskets, the match count and the chat list tell one
\* story after every commit, for any number of people.
THEOREM ListsTellOneStory == Spec => []ListsAgree
<1>1. MatchingInv /\ Countable => ListsAgree
  <2> SUFFICES ASSUME MatchingInv, Countable, NEW u \in accounts
               PROVE  /\ Matches(BasketSent(u)) = Matches(BasketReceived(u))
                      /\ MutualCount(u) = Cardinality(Matches(BasketReceived(u)))
                      /\ ChatList(u) \subseteq Matches(BasketReceived(u))
                      /\ \A i \in BasketReceived(u) :
                           /\ i.known
                           /\ \E j \in BasketSent(i.user) : j.user = u /\ j.mutual = i.mutual
    BY DEF ListsAgree
  <2>1. ASSUME NEW i \in BasketReceived(u)
        PROVE  i.known /\ \E j \in BasketSent(i.user) : j.user = u /\ j.mutual = i.mutual
    <3>1. PICK l \in Received(u) :
            i = [user |-> l.sender, mutual |-> l.mutual, known |-> l.sender \in accounts]
      BY DEF BasketReceived
    <3>2. l \in likes /\ l.receiver = u /\ l.visible /\ l.sender \in accounts
      BY RowFacts DEF Received
    <3>3. [user |-> u, mutual |-> l.mutual] \in BasketSent(l.sender)
      BY <3>2 DEF BasketSent
    <3> QED BY <3>1, <3>2, <3>3
  <2> QED BY <2>1, BothSidesAgree, CountAgrees, ChatsAgree
<1> QED BY <1>1, Invariance, LikesAreCountable, PTL
=============================================================================
