---------------------------- MODULE DecksProofs ----------------------------
(***************************************************************************)
(* Proofs about the feed queries and the card decks.                       *)
(*                                                                         *)
(* The age window is arithmetic, for a year of any length.  The decks need *)
(* one invariant: what a reply may contain (Memory), and, as long as the   *)
(* user waits, that one call at most is under way and a like is of the     *)
(* card that is up (Waiting).  That a card is left out only of a full page *)
(* is counting: the number of newer people is a rank, and a rank is a      *)
(* bijection, so a page of the first PageSize ranks is full as soon as     *)
(* somebody has a later one.                                               *)
(***************************************************************************)
EXTENDS Decks, FiniteSetTheorems, FunctionTheorems, TLAPS

-----------------------------------------------------------------------------
(* The window of birth dates.                                              *)

\* Whoever get_cards serves to somebody with an age is at most five years older
\* or younger, by the age that calc_age puts on the card - on any day, in a year of
\* any length.
THEOREM WindowIsSound ==
  ASSUME NEW today \in Date, NEW viewer, viewer.age \in Int,
         NEW row, row.birth \in Date, AgeFits(viewer, row, today)
  PROVE  CalcAge(row.birth, today) - viewer.age \in -5..5
<1>1. /\ today.year \in Int /\ today.day \in 1..DaysPerYear
      /\ row.birth.year \in Int /\ row.birth.day \in 1..DaysPerYear
  BY DEF Date
<1>2. /\ UpTo(MaxBirthDate(viewer.age + 5, today), row.birth)
      /\ UpTo(row.birth, MinBirthDate(viewer.age - 5, today))
  BY CalendarAssumption DEF AgeFits
<1>3. /\ today.year - (viewer.age + 5) <= row.birth.year
      /\ row.birth.year <= today.year - (viewer.age - 5)
      /\ today.year - (viewer.age + 5) = row.birth.year => row.birth.day = DaysPerYear
      /\ row.birth.year = today.year - (viewer.age - 5) => row.birth.day = 1
  BY <1>1, <1>2, CalendarAssumption DEF UpTo, MaxBirthDate, MinBirthDate
<1>4. CASE today.day < row.birth.day
  BY <1>1, <1>3, <1>4 DEF CalcAge
<1>5. CASE ~(today.day < row.birth.day)
  BY <1>1, <1>3, <1>5, CalendarAssumption DEF CalcAge
<1> QED BY <1>4, <1>5

\* Whoever is up to four years younger or up to three older, by the age on the
\* card, is never left out for the age.  The window has no room for more: the
\* bounds are 31 December and 1 January of the outermost years.
THEOREM WindowIsWideEnough ==
  ASSUME NEW today \in Date, NEW viewer, viewer.age \in Int,
         NEW row, row.birth \in Date,
         CalcAge(row.birth, today) - viewer.age \in -4..3
  PROVE  AgeFits(viewer, row, today)
<1>1. /\ today.year \in Int /\ today.day \in 1..DaysPerYear
      /\ row.birth.year \in Int /\ row.birth.day \in 1..DaysPerYear
  BY DEF Date
<1>2. /\ today.year - (viewer.age + 5) < row.birth.year
      /\ row.birth.year < today.year - (viewer.age - 5)
  <2>1. CASE today.day < row.birth.day
    BY <1>1, <2>1 DEF CalcAge
  <2>2. CASE ~(today.day < row.birth.day)
    BY <1>1, <2>2 DEF CalcAge
  <2> QED BY <2>1, <2>2
<1>3. row.birth # Nothing
  BY CalendarAssumption
<1> QED BY <1>1, <1>2, <1>3, CalendarAssumption
        DEF AgeFits, UpTo, MaxBirthDate, MinBirthDate

-----------------------------------------------------------------------------
(* The invariant of the decks.                                             *)

Loading == [kind: {"load"}, deck: Deck, exclude: SUBSET People, after: SUBSET People]
Liking == [kind: {"like"}, deck: Deck, card: People]
Answered == [kind: {"cards"}, deck: Deck, list: Seq(People), after: SUBSET People]

Places == {Idle} \cup Loading \cup Liking \cup Answered

Shapes ==
  /\ rows \in [People -> Profile]
  /\ screen \in Deck
  /\ cards \in [Deck -> Seq(People)]
  /\ index \in [Deck -> 0..MaxIndex]
  /\ call \in [Calls -> Places]
  /\ seen \subseteq People /\ decided \subseteq seen /\ base \subseteq decided
  /\ onReels \subseteq decided
  /\ hasty \in BOOLEAN /\ shifted \in BOOLEAN

\* What the user had decided when a load was asked for is kept out of its reply.
Memory ==
  /\ \A c \in Calls : call[c].kind = "load" =>
       /\ call[c].after \subseteq decided
       /\ call[c].after \subseteq call[c].exclude
       /\ call[c].deck = "feed" => call[c].after = {}
  /\ \A c \in Calls : call[c].kind = "cards" =>
       /\ call[c].after \subseteq decided
       /\ ToSet(call[c].list) \cap call[c].after = {}
  /\ ToSet(cards["reels"]) \cap base = {}

Distinct(list) == \A i, j \in DOMAIN list : i # j => list[i] # list[j]

\* As long as the user waits, one call is under way, a like is of the card that
\* is up, and the index is at most one past the last card.
Waiting ==
  ~hasty =>
    /\ \A c, e \in Calls : call[c] # Idle /\ call[e] # Idle => c = e
    /\ \A c \in Calls : call[c].kind = "like" => call[c].card \in Current(call[c].deck)
    /\ \A d \in Deck : index[d] <= Len(cards[d])

\* As long as the user waits, a load of reels knows of every card decided on in the
\* reels, and those still to come are others: a list has nobody twice.
Once ==
  /\ \A c \in Calls : call[c].kind = "cards" => Distinct(call[c].list)
  /\ Distinct(cards["reels"])
  /\ ~hasty =>
       /\ \A c \in Calls : call[c].kind \in {"load", "cards"} /\ call[c].deck = "reels" =>
            onReels \subseteq call[c].after
       /\ \A i \in DOMAIN cards["reels"] : i > index["reels"] => cards["reels"][i] \notin onReels

DecksInv == Shapes /\ Memory /\ Waiting /\ NobodyPassedOver /\ Once

LEMMA Kinds ==
  /\ Idle.kind = "idle"
  /\ \A x \in Loading : x.kind = "load"
  /\ \A x \in Liking : x.kind = "like"
  /\ \A x \in Answered : x.kind = "cards"
  /\ Deck = {"feed", "reels"}
BY DEF Idle, Loading, Liking, Answered, Deck

\* A call is what its kind says.
LEMMA CallTypes ==
  ASSUME Shapes, NEW c \in Calls
  PROVE  /\ call[c].kind = "idle" <=> call[c] = Idle
         /\ call[c].kind = "load" <=> call[c] \in Loading
         /\ call[c].kind = "like" <=> call[c] \in Liking
         /\ call[c].kind = "cards" <=> call[c] \in Answered
BY Kinds DEF Shapes, Places

LEMMA LoadType ==
  ASSUME Shapes, NEW d \in Deck
  PROVE  /\ Load(d) \in Loading /\ Load(d).deck = d /\ Load(d).kind = "load"
         /\ Load(d).after \subseteq decided /\ Load(d).after \subseteq Load(d).exclude
         /\ d = "feed" => Load(d).after = {}
<1>1. CASE d = "reels"
  <2>1. Load(d) = [kind |-> "load", deck |-> d, exclude |-> seen, after |-> decided]
    BY <1>1 DEF Load
  <2> QED BY <1>1, <2>1 DEF Loading, Shapes
<1>2. CASE d # "reels"
  <2>1. Load(d) = [kind |-> "load", deck |-> d, exclude |-> {}, after |-> {}]
    BY <1>2 DEF Load
  <2> QED BY <2>1 DEF Loading
<1> QED BY <1>1, <1>2

-----------------------------------------------------------------------------
(* The pages of the newest.                                                *)

\* How the parts of a finite set compare.
LEMMA Parts ==
  ASSUME NEW S, IsFiniteSet(S)
  PROVE  /\ Cardinality(S) \in Nat
         /\ \A A \in SUBSET S : IsFiniteSet(A) /\ Cardinality(A) \in Nat
         /\ \A A, B \in SUBSET S : A \subseteq B => Cardinality(A) <= Cardinality(B)
         /\ \A A, B \in SUBSET S : \A p \in B \ A :
              A \subseteq B => Cardinality(A) < Cardinality(B)
<1>1. \A A \in SUBSET S : IsFiniteSet(A) /\ Cardinality(A) \in Nat
  BY FS_Subset, FS_CardinalityType
<1>2. ASSUME NEW A \in SUBSET S, NEW B \in SUBSET S, A \subseteq B
      PROVE  Cardinality(A) <= Cardinality(B)
  BY <1>1, <1>2, FS_Subset
<1>3. ASSUME NEW A \in SUBSET S, NEW B \in SUBSET S, NEW p \in B \ A, A \subseteq B
      PROVE  Cardinality(A) < Cardinality(B)
  <2>1. Cardinality(A \cup {p}) = Cardinality(A) + 1
    BY <1>1, FS_AddElement
  <2>2. A \cup {p} \in SUBSET S /\ A \cup {p} \subseteq B
    BY <1>3
  <2>3. Cardinality(A \cup {p}) <= Cardinality(B)
    BY <1>2, <2>2
  <2> QED BY <1>1, <2>1, <2>3
<1> QED BY <1>1, <1>2, <1>3, FS_CardinalityType

\* Who is newer than p.
Above(S, p) == {q \in S : q > p}

LEMMA AboveIsLinear ==
  ASSUME NEW S \in SUBSET Int, NEW p \in S, NEW q \in S
  PROVE  /\ Above(S, p) \in SUBSET S /\ p \notin Above(S, p)
         /\ p >= q => Above(S, p) \subseteq Above(S, q)
         /\ p > q => p \in Above(S, q)
<1>1. p \in Int /\ q \in Int /\ \A o \in S : o \in Int
  OBVIOUS
<1>2. \A o \in S : o > p /\ p >= q => o > q
  BY <1>1
<1>3. ~(p > p)
  BY <1>1
<1> QED BY <1>2, <1>3 DEF Above

\* A rank counts who is newer; the ranks of n people are 0..n-1, each once.
LEMMA Ranks ==
  ASSUME NEW S \in SUBSET Int, IsFiniteSet(S)
  PROVE  [p \in S |-> Cardinality(Above(S, p))] \in Bijection(S, 0..Cardinality(S) - 1)
<1> DEFINE rank == [p \in S |-> Cardinality(Above(S, p))]
           n == Cardinality(S)
<1>1. n \in Nat
  BY FS_CardinalityType
<1>2. ASSUME NEW p \in S
      PROVE  Cardinality(Above(S, p)) \in 0..n - 1
  <2>1. Above(S, p) \in SUBSET S /\ p \in S \ Above(S, p)
    BY AboveIsLinear
  <2>2. Cardinality(Above(S, p)) < n /\ Cardinality(Above(S, p)) \in Nat
    BY <2>1, Parts
  <2> QED BY <1>1, <2>2
<1>3. ASSUME NEW p \in S, NEW q \in S, p > q
      PROVE  Cardinality(Above(S, p)) < Cardinality(Above(S, q))
  <2>1. /\ Above(S, p) \in SUBSET S /\ Above(S, q) \in SUBSET S
        /\ p \in Above(S, q) \ Above(S, p)
    BY <1>3, AboveIsLinear
  <2>2. Above(S, p) \subseteq Above(S, q)
    <3>1. p \in Int /\ q \in Int
      OBVIOUS
    <3> QED BY <1>3, <3>1, AboveIsLinear
  <2> QED BY <2>1, <2>2, Parts
<1>4. rank \in [S -> 0..n - 1]
  BY <1>2
<1>5. rank \in Injection(S, 0..n - 1)
  <2>1. ASSUME NEW p \in S, NEW q \in S, rank[p] = rank[q]
        PROVE  p = q
    <3>1. Cardinality(Above(S, p)) = Cardinality(Above(S, q))
      BY <2>1
    <3>2. Cardinality(Above(S, p)) \in Int
      BY <1>2
    <3>3. ~(p > q) /\ ~(q > p) /\ p \in Int /\ q \in Int
      BY <1>3, <3>1, <3>2
    <3> QED BY <3>3
  <2> QED BY <1>4, <2>1, Fun_IsInj
<1>6. IsFiniteSet(0..n - 1) /\ Cardinality(0..n - 1) = n
  BY <1>1, FS_Interval
<1>7. rank \in Surjection(S, 0..n - 1)
  BY <1>5, <1>6, FS_Injection
<1> QED BY <1>5, <1>7 DEF Bijection

\* Whoever is not among the newest is older than a full page of them.
LEMMA LeftOutOfAFullPage ==
  ASSUME NEW S \in SUBSET Int, IsFiniteSet(S), NEW p \in S \ Newest(S)
  PROVE  /\ Cardinality(Newest(S)) = PageSize
         /\ \A q \in Newest(S) : q > p
<1> DEFINE rank == [q \in S |-> Cardinality(Above(S, q))]
           n == Cardinality(S)
<1>1. rank \in Bijection(S, 0..n - 1)
  BY Ranks
<1>2. n \in Nat /\ PageSize \in Nat
  BY FS_CardinalityType, DecksAssumption
<1>3. /\ Newest(S) \subseteq S
      /\ \A q \in S : q \in Newest(S) <=> rank[q] < PageSize
  BY DEF Newest, Above
<1>4. ASSUME NEW q \in Newest(S)
      PROVE  q > p
  <2> SUFFICES ASSUME q <= p PROVE FALSE
    <3>1. p \in Int /\ q \in Int
      BY <1>3
    <3> QED BY <3>1
  <2>1. /\ Above(S, p) \in SUBSET S /\ Above(S, q) \in SUBSET S
        /\ Above(S, p) \subseteq Above(S, q)
    <3>1. p \in Int /\ q \in Int /\ q \in S /\ p \in S
      BY <1>3
    <3> QED BY <3>1, AboveIsLinear
  <2>2. Cardinality(Above(S, p)) <= Cardinality(Above(S, q))
    BY <2>1, Parts
  <2>3. rank[p] <= rank[q] /\ rank[q] < PageSize /\ ~(rank[p] < PageSize)
    BY <1>3, <2>2
  <2>4. rank[p] \in Int /\ rank[q] \in Int
    BY <1>3, <2>1, Parts
  <2> QED BY <1>2, <2>3, <2>4
<1> HIDE DEF rank
<1>5. rank \in [S -> 0..n - 1] /\ \A a, b \in S : rank[a] = rank[b] => a = b
  BY <1>1 DEF Bijection, Injection, IsInjective
<1>6. \A k \in 0..n - 1 : \E q \in S : rank[q] = k
  BY <1>1 DEF Bijection, Surjection
<1>7. PageSize <= n - 1
  BY <1>2, <1>3, <1>5
<1> DEFINE first == [q \in Newest(S) |-> rank[q]]
<1>8. first \in [Newest(S) -> 0..PageSize - 1]
  <2>1. ASSUME NEW q \in Newest(S)
        PROVE  rank[q] \in 0..PageSize - 1
    <3>1. rank[q] \in 0..n - 1 /\ rank[q] < PageSize
      BY <1>3, <1>5
    <3> QED BY <1>2, <3>1
  <2> QED BY <2>1
<1>9. \A a, b \in Newest(S) : first[a] = first[b] => a = b
  BY <1>3, <1>5
<1>10. \A k \in 0..PageSize - 1 : \E q \in Newest(S) : first[q] = k
  BY <1>2, <1>3, <1>6, <1>7
<1> HIDE DEF first
<1>11. first \in Bijection(Newest(S), 0..PageSize - 1)
  BY <1>8, <1>9, <1>10, Fun_IsBij
<1>12. IsFiniteSet(Newest(S))
  BY <1>3, FS_Subset
<1>13. Cardinality(0..PageSize - 1) = Cardinality(Newest(S))
  BY <1>11, <1>12, FS_Bijection DEF ExistsBijection
<1>14. Cardinality(0..PageSize - 1) = PageSize
  BY <1>2, FS_Interval
<1> QED BY <1>4, <1>13, <1>14

\* The lists made of a set of people.
LEMMA ListOf ==
  ASSUME NEW N \in SUBSET People, NEW list \in SetToSeqs(N)
  PROVE  /\ list \in Seq(People)
         /\ ToSet(list) = N
         /\ Len(list) = Cardinality(N)
         /\ \A i, j \in DOMAIN list : i # j => list[i] # list[j]
<1>1. IsFiniteSet(N) /\ Cardinality(N) \in Nat
  BY DecksAssumption, FS_Subset, FS_CardinalityType
<1>2. list \in [1..Cardinality(N) -> N]
  BY DEF SetToSeqs
<1>3. \A i, j \in 1..Cardinality(N) : i # j => list[i] # list[j]
  BY DEF SetToSeqs
<1>4. list \in Seq(People) /\ Len(list) = Cardinality(N) /\ DOMAIN list = 1..Cardinality(N)
  BY <1>1, <1>2
<1>5. PICK D : D = 1..Cardinality(N)
  OBVIOUS
<1>6. list \in Injection(D, N)
  BY <1>2, <1>3, <1>5, Fun_IsInj
<1>7. IsFiniteSet(D) /\ Cardinality(D) = Cardinality(N)
  BY <1>1, <1>5, FS_Interval
<1>8. list \in Surjection(D, N)
  BY <1>1, <1>6, <1>7, FS_Injection
<1>9. ToSet(list) = N
  BY <1>2, <1>5, <1>8 DEF Surjection, ToSet
<1> QED BY <1>3, <1>4, <1>9

\* What a load is answered with.
LEMMA ServedList ==
  ASSUME Shapes, NEW c \in Calls, ServeCards(c)
  PROVE  \E list \in Seq(People) :
           /\ call' = [call EXCEPT ![c] = [kind |-> "cards", deck |-> call[c].deck,
                                          list |-> list, after |-> call[c].after]]
           /\ \A i, j \in DOMAIN list : i # j => list[i] # list[j]
           /\ call[c].deck = "feed" =>
                /\ ToSet(list) = Newest(ForCards(rows, Viewer, Today))
                /\ Len(list) = Cardinality(Newest(ForCards(rows, Viewer, Today)))
           /\ call[c].deck # "feed" =>
                ToSet(list) \subseteq ForReels(rows, Viewer, call[c].exclude)
<1>1. CASE call[c].deck = "feed"
  <2> DEFINE N == Newest(ForCards(rows, Viewer, Today))
  <2>1. N \in SUBSET People
    BY DEF Newest, ForCards, Shapes
  <2>2. PICK list \in SetToSeqs(N) :
          call' = [call EXCEPT ![c] = [kind |-> "cards", deck |-> call[c].deck,
                                       list |-> list, after |-> call[c].after]]
    BY <1>1 DEF ServeCards, NewestPages
  <2> HIDE DEF N
  <2>3. /\ list \in Seq(People) /\ ToSet(list) = N /\ Len(list) = Cardinality(N)
        /\ \A i, j \in DOMAIN list : i # j => list[i] # list[j]
    BY <2>1, <2>2, ListOf
  <2> QED BY <1>1, <2>2, <2>3 DEF N
<1>2. CASE call[c].deck # "feed"
  <2> DEFINE R == ForReels(rows, Viewer, call[c].exclude)
  <2>1. R \subseteq People
    BY DEF ForReels, Shapes
  <2>2. PICK list \in RandomPages(R) :
          call' = [call EXCEPT ![c] = [kind |-> "cards", deck |-> call[c].deck,
                                       list |-> list, after |-> call[c].after]]
    BY <1>2 DEF ServeCards
  <2> HIDE DEF R
  <2>3. PICK t \in SUBSET R : list \in SetToSeqs(t)
    BY <2>2 DEF RandomPages
  <2>4. /\ list \in Seq(People) /\ ToSet(list) = t
        /\ \A i, j \in DOMAIN list : i # j => list[i] # list[j]
    BY <2>1, <2>3, ListOf
  <2> QED BY <1>2, <2>2, <2>3, <2>4 DEF R
<1> QED BY <1>1, <1>2

LEMMA DecksInit == Init => DecksInv
<1> SUFFICES ASSUME Init PROVE DecksInv
  OBVIOUS
<1>1. PICK b \in Calls : call = [c \in Calls |-> IF c = b THEN Load("feed") ELSE Idle]
  BY DEF Init
<1>2. /\ Load("feed") = [kind |-> "load", deck |-> "feed", exclude |-> {}, after |-> {}]
      /\ Load("feed") \in Loading
  BY Kinds DEF Load, Loading
<1>3. cards = [d \in Deck |-> <<>>] /\ index = [d \in Deck |-> 0]
  BY DEF Init
<1> DEFINE first == Load("feed")
<1>4. call = [c \in Calls |-> IF c = b THEN first ELSE Idle] /\ first \in Loading
  BY <1>1, <1>2
<1> HIDE DEF first
<1>5. /\ call \in [Calls -> Places]
      /\ \A c \in Calls : (call[c].kind = "idle" /\ call[c] = Idle) \/ (call[c] = first /\ c = b)
  <2>1. Idle.kind = "idle"
    BY Kinds
  <2> QED BY <1>4, <2>1 DEF Places
<1>6. Shapes
  <2>1. cards \in [Deck -> Seq(People)] /\ index \in [Deck -> 0..MaxIndex]
    BY <1>3, DecksAssumption
  <2> QED BY <1>5, <2>1, DecksAssumption, Kinds DEF Init, Shapes
<1>7. Memory
  <2>1. ToSet(cards["reels"]) \cap base = {}
    BY DEF Init
  <2> QED BY <1>2, <1>5, <2>1 DEF Memory, first
<1>8. Waiting
  BY <1>2, <1>3, <1>5 DEF Waiting, first
<1>9. NobodyPassedOver
  BY <1>3 DEF NobodyPassedOver
<1>10. Once
  <2>1. /\ \A c \in Calls : call[c].kind # "cards"
        /\ cards["reels"] = <<>> /\ onReels = {}
    BY <1>2, <1>3, <1>5, Kinds DEF Init, first
  <2> QED BY <2>1 DEF Once, Distinct
<1> QED BY <1>6, <1>7, <1>8, <1>9, <1>10 DEF DecksInv

-----------------------------------------------------------------------------
(* Every step keeps the shapes.                                            *)

LEMMA CurrentType ==
  ASSUME Shapes, NEW d \in Deck
  PROVE  /\ Current(d) \subseteq People
         /\ \A p \in Current(d) : index[d] + 1 \in DOMAIN cards[d] /\ cards[d][index[d] + 1] = p
BY DEF Shapes, Current

LEMMA CallsStep ==
  ASSUME Shapes, Next
  PROVE  call' \in [Calls -> Places]
<1>1. ASSUME NEW d \in Deck, Open(d)
      PROVE  call' \in [Calls -> Places]
  <2>1. call \in [Calls -> Places] /\ Load(d) \in Places
    BY LoadType DEF Shapes, Places
  <2> QED BY <1>1, <2>1 DEF Open
<1>2. ASSUME NEW d \in Deck, NEW c \in Calls, Refresh(d, c)
      PROVE  call' \in [Calls -> Places]
  BY <1>2, LoadType DEF Refresh, Shapes, Places
<1>3. ASSUME NEW d \in Deck, NEW c \in Calls, ClickLike(d, c)
      PROVE  call' \in [Calls -> Places]
  <2>1. PICK p \in Current(d) : call' = [call EXCEPT ![c] = Like(d, p)]
    BY <1>3 DEF ClickLike
  <2>2. Like(d, p) \in Liking
    BY <2>1, CurrentType DEF Like, Liking
  <2> QED BY <2>1, <2>2 DEF Shapes, Places
<1>4. ASSUME NEW c \in Calls, ServeCards(c)
      PROVE  call' \in [Calls -> Places]
  <2>1. PICK list \in Seq(People) :
          call' = [call EXCEPT ![c] = [kind |-> "cards", deck |-> call[c].deck,
                                       list |-> list, after |-> call[c].after]]
    BY <1>4, ServedList
  <2>2. call[c] \in Loading
    BY <1>4, CallTypes DEF ServeCards
  <2>3. [kind |-> "cards", deck |-> call[c].deck, list |-> list, after |-> call[c].after]
          \in Answered
    BY <2>1, <2>2 DEF Loading, Answered
  <2> QED BY <2>1, <2>3 DEF Shapes, Places
<1>5. ASSUME NEW c \in Calls,
             CardsArrive(c) \/ ReelsArrive(c) \/ LikeArrives(c) \/ Fail(c)
      PROVE  call' \in [Calls -> Places]
  BY <1>5 DEF CardsArrive, ReelsArrive, LikeArrives, Fail, Shapes, Places
<1>6. ASSUME NEW d \in Deck, Skip(d)
      PROVE  call' \in [Calls -> Places]
  BY <1>6 DEF Skip, Shapes
<1>7. CASE RowChanges
  BY <1>7 DEF RowChanges, Shapes
<1> QED BY <1>1, <1>2, <1>3, <1>4, <1>5, <1>6, <1>7 DEF Next

LEMMA ShapesStep ==
  ASSUME Shapes, Memory, Next
  PROVE  Shapes'
<1>1. call' \in [Calls -> Places]
  BY CallsStep
<1>2. ASSUME NEW d \in Deck, Open(d)
      PROVE  Shapes'
  BY <1>1, <1>2 DEF Open, Click, Shapes, Busy
<1>3. ASSUME NEW d \in Deck, NEW c \in Calls, Refresh(d, c)
      PROVE  Shapes'
  BY <1>1, <1>3, DecksAssumption DEF Refresh, Click, Shapes, Busy
<1>4. ASSUME NEW d \in Deck, NEW c \in Calls, ClickLike(d, c)
      PROVE  Shapes'
  BY <1>1, <1>4 DEF ClickLike, Click, Shapes, Busy
<1>5. ASSUME NEW d \in Deck, Skip(d)
      PROVE  Shapes'
  <2>1. index' \in [Deck -> 0..MaxIndex]
    BY <1>5, DecksAssumption DEF Skip, Shapes
  <2> QED BY <1>1, <1>5, <2>1, CurrentType DEF Skip, Decide, Shapes, Busy
<1>6. ASSUME NEW c \in Calls, ServeCards(c)
      PROVE  Shapes'
  BY <1>1, <1>6 DEF ServeCards, Shapes, history
<1>7. CASE RowChanges
  <2>1. PICK p \in Restless : rows' = [rows EXCEPT ![p].frozen = ~@]
    BY <1>7 DEF RowChanges
  <2>2. rows[p] \in Profile
    BY DecksAssumption DEF Shapes
  <2>3. [rows[p] EXCEPT !.frozen = ~@] \in Profile
    BY <2>2 DEF Profile
  <2>4. rows' \in [People -> Profile]
    BY <2>1, <2>3 DEF Shapes
  <2> QED BY <1>1, <1>7, <2>4 DEF RowChanges, Shapes, history
<1>8. ASSUME NEW c \in Calls, CardsArrive(c)
      PROVE  Shapes'
  <2>1. call[c].list \in Seq(People)
    BY <1>8, CallTypes DEF CardsArrive, Answered
  <2>2. "feed" \in Deck /\ 0 \in 0..MaxIndex
    BY Kinds, DecksAssumption
  <2>3. cards' \in [Deck -> Seq(People)] /\ index' \in [Deck -> 0..MaxIndex]
    BY <1>8, <2>1, <2>2 DEF CardsArrive, Shapes
  <2>4. shifted' \in BOOLEAN
    BY <1>8 DEF CardsArrive, Shapes
  <2> QED BY <1>1, <1>8, <2>3, <2>4 DEF CardsArrive, Shapes
<1>9. ASSUME NEW c \in Calls, ReelsArrive(c)
      PROVE  Shapes'
  <2>1. call[c].list \in Seq(People) /\ call[c].after \subseteq decided
    BY <1>9, CallTypes DEF ReelsArrive, Answered, Memory
  <2>2. "reels" \in Deck /\ 0 \in 0..MaxIndex
    BY Kinds, DecksAssumption
  <2>3. cards' \in [Deck -> Seq(People)] /\ index' \in [Deck -> 0..MaxIndex]
    BY <1>9, <2>1, <2>2 DEF ReelsArrive, Shapes
  <2> QED BY <1>1, <1>9, <2>1, <2>3 DEF ReelsArrive, Shapes
<1>10. ASSUME NEW c \in Calls, LikeArrives(c)
       PROVE  Shapes'
  <2>1. call[c].card \in People /\ call[c].deck \in Deck
    BY <1>10, CallTypes DEF LikeArrives, Liking
  <2>2. index' \in [Deck -> 0..MaxIndex]
    BY <1>10, <2>1, DecksAssumption DEF LikeArrives, Shapes
  <2> QED BY <1>1, <1>10, <2>1, <2>2 DEF LikeArrives, Decide, Noted, Shapes
<1>11. ASSUME NEW c \in Calls, Fail(c)
       PROVE  Shapes'
  BY <1>1, <1>11 DEF Fail, Shapes, history
<1> QED BY <1>2, <1>3, <1>4, <1>5, <1>6, <1>7, <1>8, <1>9, <1>10, <1>11 DEF Next

-----------------------------------------------------------------------------
(* Every step keeps the memory.                                            *)

\* No card comes into the reels, no call begins or gets a list.
LEMMA MemoryKept ==
  ASSUME DecksInv, base' = base, decided \subseteq decided', cards'["reels"] = cards["reels"],
         \A c \in Calls : call'[c] = call[c] \/ call'[c].kind \notin {"load", "cards"}
  PROVE  Memory'
BY DEF DecksInv, Memory

LEMMA MemoryStep ==
  ASSUME DecksInv, Next
  PROVE  Memory'
<1>1. ASSUME NEW d \in Deck, NEW c \in Calls,
             call' = [call EXCEPT ![c] = Load(d)], UNCHANGED <<decided, base>>,
             cards'["reels"] = cards["reels"] \/ cards'["reels"] = <<>>
      PROVE  Memory'
  <2>1. \A e \in Calls : call'[e] = IF e = c THEN Load(d) ELSE call[e]
    BY <1>1 DEF DecksInv, Shapes
  <2>2. ToSet(cards'["reels"]) \cap base' = {}
    BY <1>1 DEF DecksInv, Memory, ToSet
  <2>3. Load(d).after \subseteq decided /\ Load(d).after \subseteq Load(d).exclude
        /\ Load(d).kind = "load" /\ (Load(d).deck = "feed" => Load(d).after = {})
    BY LoadType DEF DecksInv
  <2> QED BY <1>1, <2>1, <2>2, <2>3 DEF DecksInv, Memory
<1>2. ASSUME NEW d \in Deck, Open(d)
      PROVE  Memory'
  <2>1. UNCHANGED <<decided, base, cards>>
    BY <1>2 DEF Open, Click
  <2> QED BY <1>1, <1>2, <2>1, MemoryKept DEF Open
<1>3. ASSUME NEW d \in Deck, NEW c \in Calls, Refresh(d, c)
      PROVE  Memory'
  <2>1. "reels" \in Deck
    BY Kinds
  <2>2. cards'["reels"] = cards["reels"] \/ cards'["reels"] = <<>>
    BY <1>3, <2>1 DEF Refresh, DecksInv, Shapes
  <2> QED BY <1>1, <1>3, <2>2 DEF Refresh, Click
<1>4. ASSUME NEW d \in Deck, NEW c \in Calls, ClickLike(d, c)
      PROVE  Memory'
  <2>1. \A e \in Calls : call'[e] = call[e] \/ call'[e].kind = "like"
    BY <1>4 DEF ClickLike, Like, DecksInv, Shapes
  <2> QED BY <1>4, <2>1, MemoryKept DEF ClickLike, Click
<1>5. ASSUME NEW d \in Deck, Skip(d)
      PROVE  Memory'
  BY <1>5, MemoryKept DEF Skip, Decide
<1>6. ASSUME NEW c \in Calls, ServeCards(c)
      PROVE  Memory'
  <2>1. PICK list \in Seq(People) :
          /\ call' = [call EXCEPT ![c] = [kind |-> "cards", deck |-> call[c].deck,
                                         list |-> list, after |-> call[c].after]]
          /\ call[c].deck # "feed" => ToSet(list) \subseteq ForReels(rows, Viewer, call[c].exclude)
    BY <1>6, ServedList DEF DecksInv
  <2> DEFINE answer == [kind |-> "cards", deck |-> call[c].deck,
                        list |-> list, after |-> call[c].after]
  <2>2. \A e \in Calls : call'[e] = IF e = c THEN answer ELSE call[e]
    BY <2>1 DEF DecksInv, Shapes
  <2>3. call[c].after \subseteq decided /\ call[c].after \subseteq call[c].exclude
        /\ (call[c].deck = "feed" => call[c].after = {})
    BY <1>6 DEF ServeCards, DecksInv, Memory
  <2>4. ToSet(list) \cap call[c].after = {}
    BY <2>1, <2>3 DEF ForReels
  <2>5. answer.kind = "cards" /\ answer.after = call[c].after /\ answer.list = list
    OBVIOUS
  <2>6. UNCHANGED <<decided, base, cards>>
    BY <1>6 DEF ServeCards, history
  <2> HIDE DEF answer
  <2> QED BY <2>2, <2>3, <2>4, <2>5, <2>6 DEF DecksInv, Memory
<1>7. CASE RowChanges
  BY <1>7, MemoryKept DEF RowChanges, history
<1>8. ASSUME NEW c \in Calls, CardsArrive(c) \/ LikeArrives(c) \/ Fail(c)
      PROVE  Memory'
  <2>1. \A e \in Calls : call'[e] = call[e] \/ call'[e].kind = "idle"
    BY <1>8, Kinds DEF CardsArrive, LikeArrives, Fail, DecksInv, Shapes
  <2>2. cards'["reels"] = cards["reels"]
    BY <1>8, Kinds DEF CardsArrive, LikeArrives, Fail, DecksInv, Shapes
  <2> QED BY <1>8, <2>1, <2>2, MemoryKept DEF CardsArrive, LikeArrives, Decide, Fail, history
<1>9. ASSUME NEW c \in Calls, ReelsArrive(c)
      PROVE  Memory'
  <2>1. \A e \in Calls : call'[e] = call[e] \/ call'[e].kind = "idle"
    BY <1>9, Kinds DEF ReelsArrive, DecksInv, Shapes
  <2>2. cards'["reels"] = call[c].list /\ base' = call[c].after /\ decided' = decided
    BY <1>9, Kinds DEF ReelsArrive, DecksInv, Shapes
  <2>3. ToSet(cards'["reels"]) \cap base' = {}
    BY <1>9, <2>2 DEF ReelsArrive, DecksInv, Memory
  <2> QED BY <2>1, <2>2, <2>3 DEF DecksInv, Memory
<1> QED BY <1>2, <1>3, <1>4, <1>5, <1>6, <1>7, <1>8, <1>9 DEF Next

-----------------------------------------------------------------------------
(* Every step keeps the order of the cards.                                *)

Ordered == Waiting /\ NobodyPassedOver

\* A click by somebody who waits begins at most one call, and moves no card.
LEMMA OrderedClick ==
  ASSUME DecksInv, NEW c \in Calls, NEW x, Click(FALSE),
         \A e \in Calls : call'[e] = IF e = c THEN x ELSE call[e],
         UNCHANGED <<cards, index>>,
         x.kind = "like" => x.card \in Current(x.deck)
  PROVE  Ordered'
<1>1. UNCHANGED <<decided, shifted>> /\ (~hasty' => ~hasty /\ ~Busy)
  BY DEF Click
<1>2. Waiting'
  <2> SUFFICES ASSUME ~hasty' PROVE Waiting'
    BY DEF Waiting
  <2>1. \A e \in Calls : call[e] = Idle
    BY <1>1 DEF Busy
  <2>2. Waiting
    BY DEF DecksInv
  <2>3. \A e \in Calls : call'[e].kind = "like" => call'[e].card \in Current(call[e].deck)'
    BY <2>1, Kinds DEF Current
  <2> QED BY <1>1, <2>1, <2>2, <2>3 DEF Waiting
<1>3. NobodyPassedOver'
  BY <1>1 DEF DecksInv, NobodyPassedOver
<1> QED BY <1>2, <1>3 DEF Ordered

\* Nothing that is counted moves, and no call begins.
LEMMA OrderedKept ==
  ASSUME DecksInv, UNCHANGED <<cards, index, decided, hasty, shifted>>,
         \A e \in Calls : \/ call'[e] = call[e]
                          \/ call'[e].kind # "like" /\ call[e] # Idle
  PROVE  Ordered'
<1>1. Waiting'
  <2> SUFFICES ASSUME ~hasty' PROVE Waiting'
    BY DEF Waiting
  <2>1. /\ \A c, e \in Calls : call[c] # Idle /\ call[e] # Idle => c = e
        /\ \A d \in Deck : index[d] <= Len(cards[d])
        /\ \A c \in Calls : call[c].kind = "like" => call[c].card \in Current(call[c].deck)
    BY DEF DecksInv, Waiting
  <2>2. \A e \in Calls : call'[e].kind = "like" => call'[e].card \in Current(call[e].deck)'
    BY <2>1 DEF Current
  <2> QED BY <2>1, <2>2 DEF Waiting
<1>2. NobodyPassedOver'
  BY DEF DecksInv, NobodyPassedOver
<1> QED BY <1>1, <1>2 DEF Ordered

LEMMA OrderedRefresh ==
  ASSUME DecksInv, NEW d \in Deck, NEW c \in Calls, Refresh(d, c)
  PROVE  Ordered'
<1>1. /\ cards' = [cards EXCEPT ![d] = <<>>] /\ index' = [index EXCEPT ![d] = 0]
      /\ call' = [call EXCEPT ![c] = Load(d)]
      /\ UNCHANGED <<decided, shifted>> /\ (~hasty' => ~hasty /\ ~Busy)
  BY DEF Refresh, Click
<1>2. /\ \A e \in Calls : call'[e] = IF e = c THEN Load(d) ELSE call[e]
      /\ \A b \in Deck : cards'[b] = IF b = d THEN <<>> ELSE cards[b]
      /\ \A b \in Deck : index'[b] = IF b = d THEN 0 ELSE index[b]
  BY <1>1 DEF DecksInv, Shapes
<1>3. Waiting'
  <2> SUFFICES ASSUME ~hasty' PROVE Waiting'
    BY DEF Waiting
  <2>1. \A e \in Calls : call[e] = Idle
    BY <1>1 DEF Busy
  <2>2. \A e \in Calls : call'[e].kind # "like"
    BY <1>2, <2>1, Kinds, LoadType DEF DecksInv
  <2>3. \A b \in Deck : index'[b] <= Len(cards'[b])
    BY <1>1, <1>2 DEF DecksInv, Waiting
  <2> QED BY <1>2, <2>1, <2>2, <2>3 DEF Waiting
<1>4. NobodyPassedOver'
  BY <1>1, <1>2 DEF DecksInv, NobodyPassedOver
<1> QED BY <1>3, <1>4 DEF Ordered

\* A card that is up is decided, and the index moves on: by a skip or by the
\* answer to a like.
LEMMA OrderedMove ==
  ASSUME DecksInv, NEW d \in Deck, NEW p, UNCHANGED <<cards, shifted>>, ~hasty' => ~hasty,
         index' = [index EXCEPT ![d] = @ + 1],
         ~hasty' => p \in Current(d),
         decided' = decided \cup {p},
         ~hasty' => \A e \in Calls : call'[e] = Idle
  PROVE  Ordered'
<1>1. /\ \A b \in Deck : index'[b] = IF b = d THEN index[d] + 1 ELSE index[b]
      /\ \A b \in Deck : index[b] \in Nat /\ cards[b] \in Seq(People)
  BY DecksAssumption DEF DecksInv, Shapes
<1>2. ~hasty' => index[d] < Len(cards[d]) /\ cards[d][index[d] + 1] = p
  BY DEF Current
<1>3. Waiting'
  <2> SUFFICES ASSUME ~hasty' PROVE Waiting'
    BY DEF Waiting
  <2>1. \A b \in Deck : index'[b] <= Len(cards'[b])
    BY <1>1, <1>2 DEF DecksInv, Waiting
  <2> QED BY <2>1, Kinds DEF Waiting
<1>4. NobodyPassedOver'
  <2> SUFFICES ASSUME ~hasty', ~shifted', NEW b \in Deck, NEW i \in 1..index'[b],
                      i \in DOMAIN cards'[b]
               PROVE  cards'[b][i] \in decided'
    BY DEF NobodyPassedOver
  <2>1. CASE b = d /\ i = index[d] + 1
    BY <1>2, <2>1
  <2>2. CASE ~(b = d /\ i = index[d] + 1)
    <3>1. i \in 1..index[b]
      BY <1>1, <2>2
    <3> QED BY <3>1 DEF DecksInv, NobodyPassedOver
  <2> QED BY <2>1, <2>2
<1> QED BY <1>3, <1>4 DEF Ordered

LEMMA OrderedSkip ==
  ASSUME DecksInv, NEW d \in Deck, Skip(d)
  PROVE  Ordered'
<1>1. /\ index' = [index EXCEPT ![d] = @ + 1] /\ UNCHANGED <<cards, shifted, call>>
      /\ decided' = decided \cup Current(d)
      /\ ~hasty' => ~hasty /\ ~Busy /\ Current(d) # {}
  BY DEF Skip, Decide
<1>2. CASE Current(d) = {}
  <2>1. hasty'
    BY <1>1, <1>2
  <2> QED BY <2>1 DEF Ordered, Waiting, NobodyPassedOver
<1>3. CASE Current(d) # {}
  <2>1. PICK p : Current(d) = {p}
    BY <1>3 DEF Current
  <2> QED BY <1>1, <2>1, OrderedMove DEF Busy
<1> QED BY <1>2, <1>3

LEMMA OrderedLike ==
  ASSUME DecksInv, NEW c \in Calls, LikeArrives(c)
  PROVE  Ordered'
<1>1. /\ index' = [index EXCEPT ![call[c].deck] = @ + 1]
      /\ decided' = decided \cup {call[c].card}
      /\ call[c].kind = "like" /\ call[c].deck \in Deck
      /\ UNCHANGED <<cards, hasty, shifted>>
  BY CallTypes DEF LikeArrives, Decide, Liking, DecksInv
<1>2. \A e \in Calls : call'[e] = IF e = c THEN Idle ELSE call[e]
  BY DEF LikeArrives, DecksInv, Shapes
<1>3. ~hasty' => /\ call[c].card \in Current(call[c].deck)
                 /\ \A e \in Calls : call'[e] = Idle
  BY <1>1, <1>2, Kinds DEF DecksInv, Waiting
<1> QED BY <1>1, <1>3, OrderedMove

\* A deck is replaced and the index stays, or starts again.
LEMMA OrderedCards ==
  ASSUME DecksInv, NEW c \in Calls, CardsArrive(c)
  PROVE  Ordered'
<1> DEFINE new == call[c].list
           at == IF index["feed"] >= Len(new) THEN 0 ELSE index["feed"]
<1>1. /\ cards' = [cards EXCEPT !["feed"] = new] /\ index' = [index EXCEPT !["feed"] = at]
      /\ shifted' = (shifted \/ \E i \in 1..at : /\ i \in DOMAIN cards["feed"]
                                                 /\ cards["feed"][i] # new[i])
      /\ call' = [call EXCEPT ![c] = Idle] /\ call[c].kind = "cards"
      /\ UNCHANGED <<decided, hasty>>
  BY DEF CardsArrive
<1>2. new \in Seq(People) /\ "feed" \in Deck
  BY <1>1, CallTypes, Kinds DEF Answered, DecksInv
<1>3. at \in Nat /\ at <= Len(new) /\ at <= index["feed"] /\ index["feed"] \in Nat
  BY <1>2, DecksAssumption DEF DecksInv, Shapes
<1> HIDE DEF new, at
<1>4. /\ \A e \in Calls : call'[e] = IF e = c THEN Idle ELSE call[e]
      /\ \A b \in Deck : cards'[b] = IF b = "feed" THEN new ELSE cards[b]
      /\ \A b \in Deck : index'[b] = IF b = "feed" THEN at ELSE index[b]
  BY <1>1, <1>2 DEF DecksInv, Shapes
<1>5. Waiting'
  <2> SUFFICES ASSUME ~hasty' PROVE Waiting'
    BY DEF Waiting
  <2>1. \A e \in Calls : call'[e] = Idle
    BY <1>1, <1>4, Kinds DEF DecksInv, Waiting
  <2>2. \A b \in Deck : index'[b] <= Len(cards'[b])
    BY <1>1, <1>3, <1>4 DEF DecksInv, Waiting
  <2> QED BY <2>1, <2>2, Kinds DEF Waiting
<1>6. NobodyPassedOver'
  <2> SUFFICES ASSUME ~hasty', ~shifted', NEW b \in Deck, NEW i \in 1..index'[b],
                      i \in DOMAIN cards'[b]
               PROVE  cards'[b][i] \in decided'
    BY DEF NobodyPassedOver
  <2>1. CASE b = "feed"
    <3>1. i \in 1..at /\ i \in 1..index["feed"]
      BY <1>3, <1>4, <2>1
    <3>2. i \in DOMAIN cards["feed"]
      <4>1. index["feed"] <= Len(cards["feed"]) /\ cards["feed"] \in Seq(People)
        BY <1>1, <1>2 DEF DecksInv, Shapes, Waiting
      <4> QED BY <1>3, <3>1, <4>1
    <3>3. new[i] = cards["feed"][i]
      BY <1>1, <3>1, <3>2
    <3>4. cards["feed"][i] \in decided
      BY <1>1, <1>2, <3>1, <3>2 DEF DecksInv, NobodyPassedOver
    <3> QED BY <1>1, <1>4, <2>1, <3>3, <3>4
  <2>2. CASE b # "feed"
    <3>1. cards'[b] = cards[b] /\ index'[b] = index[b]
      BY <1>4, <2>2
    <3>2. ~hasty /\ ~shifted /\ decided' = decided
      BY <1>1
    <3>3. i \in 1..index[b] /\ i \in DOMAIN cards[b]
      BY <3>1
    <3>4. cards[b][i] \in decided
      BY <3>2, <3>3 DEF DecksInv, NobodyPassedOver
    <3> QED BY <3>1, <3>2, <3>4
  <2> QED BY <2>1, <2>2
<1> QED BY <1>5, <1>6 DEF Ordered

LEMMA OrderedReels ==
  ASSUME DecksInv, NEW c \in Calls, ReelsArrive(c)
  PROVE  Ordered'
<1>1. /\ cards' = [cards EXCEPT !["reels"] = call[c].list]
      /\ index' = [index EXCEPT !["reels"] = 0]
      /\ call' = [call EXCEPT ![c] = Idle] /\ call[c].kind = "cards"
      /\ UNCHANGED <<decided, hasty, shifted>>
  BY DEF ReelsArrive
<1>2. call[c].list \in Seq(People) /\ "reels" \in Deck
  BY <1>1, CallTypes, Kinds DEF Answered, DecksInv
<1>3. /\ \A e \in Calls : call'[e] = IF e = c THEN Idle ELSE call[e]
      /\ \A b \in Deck : cards'[b] = IF b = "reels" THEN call[c].list ELSE cards[b]
      /\ \A b \in Deck : index'[b] = IF b = "reels" THEN 0 ELSE index[b]
  BY <1>1, <1>2 DEF DecksInv, Shapes
<1>4. Waiting'
  <2> SUFFICES ASSUME ~hasty' PROVE Waiting'
    BY DEF Waiting
  <2>1. \A e \in Calls : call'[e] = Idle
    BY <1>1, <1>3, Kinds DEF DecksInv, Waiting
  <2>2. \A b \in Deck : index'[b] <= Len(cards'[b])
    BY <1>1, <1>2, <1>3 DEF DecksInv, Waiting
  <2> QED BY <2>1, <2>2, Kinds DEF Waiting
<1>5. NobodyPassedOver'
  BY <1>1, <1>3 DEF DecksInv, NobodyPassedOver
<1> QED BY <1>4, <1>5 DEF Ordered

LEMMA OrderedStep ==
  ASSUME DecksInv, Next
  PROVE  Ordered'
<1>1. ASSUME NEW d \in Deck, Open(d)
      PROVE  Ordered'
  <2>1. CASE UNCHANGED call
    <3>1. UNCHANGED <<cards, index, decided, shifted>> /\ (~hasty' => ~hasty)
      BY <1>1 DEF Open, Click
    <3>2. Waiting'
      <4> SUFFICES ASSUME ~hasty' PROVE Waiting'
        BY DEF Waiting
      <4>1. \A e \in Calls : call[e].kind = "like" =>
              call[e].card \in Current(call[e].deck)'
        BY <2>1, <3>1 DEF DecksInv, Waiting, Current
      <4> QED BY <2>1, <3>1, <4>1 DEF DecksInv, Waiting
    <3>3. NobodyPassedOver'
      BY <3>1 DEF DecksInv, NobodyPassedOver
    <3> QED BY <3>2, <3>3 DEF Ordered
  <2>2. CASE \E c \in Calls : call[c] = Idle /\ call' = [call EXCEPT ![c] = Load(d)]
    <3>1. PICK c \in Calls : call' = [call EXCEPT ![c] = Load(d)]
      BY <2>2
    <3>2. \A e \in Calls : call'[e] = IF e = c THEN Load(d) ELSE call[e]
      BY <3>1 DEF DecksInv, Shapes
    <3>3. Load(d).kind # "like"
      BY LoadType DEF DecksInv
    <3> QED BY <1>1, <3>2, <3>3, OrderedClick DEF Open
  <2> QED BY <1>1, <2>1, <2>2 DEF Open
<1>2. ASSUME NEW d \in Deck, NEW c \in Calls, ClickLike(d, c)
      PROVE  Ordered'
  <2>1. PICK p \in Current(d) : call' = [call EXCEPT ![c] = Like(d, p)]
    BY <1>2 DEF ClickLike
  <2>2. \A e \in Calls : call'[e] = IF e = c THEN Like(d, p) ELSE call[e]
    BY <2>1 DEF DecksInv, Shapes
  <2>3. Like(d, p).card = p /\ Like(d, p).deck = d
    BY DEF Like
  <2> QED BY <1>2, <2>1, <2>2, <2>3, OrderedClick DEF ClickLike
<1>3. ASSUME NEW c \in Calls, ServeCards(c) \/ Fail(c)
      PROVE  Ordered'
  <2>1. UNCHANGED <<cards, index, decided, hasty, shifted>> /\ call[c] # Idle
    BY <1>3, Kinds DEF ServeCards, Fail, history
  <2>2. \A e \in Calls : call'[e] = call[e] \/ (e = c /\ call'[e].kind # "like")
    <3>1. CASE ServeCards(c)
      <4>1. PICK list : call' = [call EXCEPT ![c] = [kind |-> "cards", deck |-> call[c].deck,
                                                   list |-> list, after |-> call[c].after]]
        BY <3>1, ServedList DEF DecksInv
      <4> QED BY <4>1 DEF DecksInv, Shapes
    <3>2. CASE Fail(c)
      BY <3>2, Kinds DEF Fail, DecksInv, Shapes
    <3> QED BY <1>3, <3>1, <3>2
  <2> QED BY <2>1, <2>2, OrderedKept
<1>4. CASE RowChanges
  BY <1>4, OrderedKept DEF RowChanges, history
<1> QED BY <1>1, <1>2, <1>3, <1>4, OrderedRefresh, OrderedSkip, OrderedLike, OrderedCards,
           OrderedReels
        DEF Next

-----------------------------------------------------------------------------
(* Nobody who was decided on in the reels is still to come up in them.     *)

\* A call that ends, or one that is a load of what is known now.
OnceCall(c) ==
  call'[c].kind \in {"load", "cards"} =>
    \/ call'[c] = call[c]
    \/ call'[c].kind = "load" /\ (call'[c].deck = "reels" => onReels \subseteq call'[c].after)

\* No card is decided on or comes up, and no list is answered.
LEMMA OnceKept ==
  ASSUME DecksInv, ~hasty' => ~hasty, onReels' = onReels,
         \/ cards'["reels"] = cards["reels"] /\ index'["reels"] = index["reels"]
         \/ cards'["reels"] = <<>>,
         \A c \in Calls : OnceCall(c)
  PROVE  Once'
<1>1. Once
  BY DEF DecksInv
<1>2. \A c \in Calls : call'[c].kind = "cards" => Distinct(call'[c].list)
  BY <1>1 DEF Once, OnceCall
<1>3. Distinct(cards'["reels"])
  BY <1>1 DEF Once, Distinct
<1>4. ~hasty' => \A c \in Calls : call'[c].kind \in {"load", "cards"} /\ call'[c].deck = "reels"
                                => onReels' \subseteq call'[c].after
  BY <1>1 DEF Once, OnceCall
<1>5. ~hasty' => \A i \in DOMAIN cards'["reels"] :
                   i > index'["reels"] => cards'["reels"][i] \notin onReels'
  BY <1>1 DEF Once
<1> QED BY <1>2, <1>3, <1>4, <1>5 DEF Once, Distinct

\* The card that is up is decided on, and the index moves past it.
LEMMA OnceMove ==
  ASSUME DecksInv, NEW d \in Deck, NEW set, UNCHANGED cards, ~hasty' => ~hasty,
         index' = [index EXCEPT ![d] = @ + 1], Decide(d, set),
         ~hasty' => set \subseteq Current(d),
         \A e \in Calls : call'[e] = call[e] \/ call'[e] = Idle,
         ~hasty' => \A e \in Calls : call'[e] = Idle
  PROVE  Once'
<1>1. /\ \A b \in Deck : index'[b] = IF b = d THEN index[d] + 1 ELSE index[b]
      /\ \A b \in Deck : index[b] \in Nat /\ cards[b] \in Seq(People)
      /\ "reels" \in Deck
  BY DecksAssumption, Kinds DEF DecksInv, Shapes
<1>2. Once
  BY DEF DecksInv
<1>3. \A c \in Calls : call'[c].kind = "cards" => Distinct(call'[c].list)
  BY <1>2, Kinds DEF Once
<1>4. ~hasty' => \A i \in DOMAIN cards["reels"] :
                   i > index'["reels"] => cards["reels"][i] \notin onReels'
  <2> SUFFICES ASSUME ~hasty', NEW i \in DOMAIN cards["reels"], i > index'["reels"]
               PROVE  cards["reels"][i] \notin onReels'
    OBVIOUS
  <2>1. i \in Nat /\ i > index["reels"]
    BY <1>1
  <2>2. cards["reels"][i] \notin onReels
    BY <1>2, <2>1 DEF Once
  <2>3. CASE d = "reels"
    <3>1. i # index["reels"] + 1
      BY <1>1, <2>1, <2>3
    <3>2. \A p \in Current("reels") : /\ index["reels"] + 1 \in DOMAIN cards["reels"]
                                     /\ cards["reels"][index["reels"] + 1] = p
      BY <1>1, CurrentType DEF DecksInv
    <3>3. cards["reels"][i] \notin Current("reels")
      BY <1>2, <3>1, <3>2 DEF Once, Distinct
    <3> QED BY <2>2, <2>3, <3>3 DEF Decide
  <2>4. CASE d # "reels"
    BY <2>2, <2>4 DEF Decide
  <2> QED BY <2>3, <2>4
<1>5. ~hasty' => \A c \in Calls : call'[c].kind \notin {"load", "cards"}
  BY Kinds
<1> QED BY <1>2, <1>3, <1>4, <1>5 DEF Once, Distinct

LEMMA OnceReels ==
  ASSUME DecksInv, NEW c \in Calls, ReelsArrive(c)
  PROVE  Once'
<1>1. /\ cards' = [cards EXCEPT !["reels"] = call[c].list]
      /\ call' = [call EXCEPT ![c] = Idle]
      /\ call[c].kind = "cards" /\ call[c].deck = "reels"
      /\ UNCHANGED <<decided, onReels, hasty>>
  BY DEF ReelsArrive
<1>2. /\ \A e \in Calls : call'[e] = IF e = c THEN Idle ELSE call[e]
      /\ cards'["reels"] = call[c].list
  BY <1>1, Kinds DEF DecksInv, Shapes
<1>3. Once /\ ToSet(call[c].list) \cap call[c].after = {}
  BY <1>1 DEF DecksInv, Memory
<1>4. ~hasty => \A i \in DOMAIN call[c].list : call[c].list[i] \notin onReels
  <2>1. ~hasty => onReels \subseteq call[c].after
    BY <1>1, <1>3 DEF Once
  <2> QED BY <1>3, <2>1 DEF ToSet
<1>5. \A e \in Calls : call'[e].kind \in {"load", "cards"} => call'[e] = call[e]
  BY <1>2, Kinds
<1>6. Distinct(call[c].list)
  BY <1>1, <1>3 DEF Once
<1> QED BY <1>1, <1>2, <1>3, <1>4, <1>5, <1>6 DEF Once, Distinct

LEMMA OnceServe ==
  ASSUME DecksInv, NEW c \in Calls, ServeCards(c)
  PROVE  Once'
<1>1. PICK list \in Seq(People) :
        /\ call' = [call EXCEPT ![c] = [kind |-> "cards", deck |-> call[c].deck,
                                       list |-> list, after |-> call[c].after]]
        /\ Distinct(list)
  BY ServedList DEF DecksInv, Distinct
<1> DEFINE answer == [kind |-> "cards", deck |-> call[c].deck,
                      list |-> list, after |-> call[c].after]
<1>2. \A e \in Calls : call'[e] = IF e = c THEN answer ELSE call[e]
  BY <1>1 DEF DecksInv, Shapes
<1>3. answer.deck = call[c].deck /\ answer.after = call[c].after /\ answer.list = list
  OBVIOUS
<1>4. UNCHANGED <<cards, index, onReels, hasty>> /\ call[c].kind = "load"
  BY DEF ServeCards, history
<1>5. Once
  BY DEF DecksInv
<1> HIDE DEF answer
<1>6. \A e \in Calls : call'[e].kind = "cards" => Distinct(call'[e].list)
  BY <1>1, <1>2, <1>3, <1>5 DEF Once
<1>7. ~hasty => \A e \in Calls : call'[e].kind \in {"load", "cards"} /\ call'[e].deck = "reels"
                                => onReels \subseteq call'[e].after
  BY <1>2, <1>3, <1>4, <1>5 DEF Once
<1> QED BY <1>4, <1>5, <1>6, <1>7 DEF Once, Distinct

LEMMA OnceStep ==
  ASSUME DecksInv, Next
  PROVE  Once'
<1>1. ASSUME NEW d \in Deck, NEW c \in Calls, call' = [call EXCEPT ![c] = Load(d)]
      PROVE  \A e \in Calls : OnceCall(e)
  <2>1. \A e \in Calls : call'[e] = IF e = c THEN Load(d) ELSE call[e]
    BY <1>1 DEF DecksInv, Shapes
  <2>2. Load(d).kind = "load" /\ (Load(d).deck = "reels" => onReels \subseteq Load(d).after)
    BY Kinds DEF Load, DecksInv, Shapes
  <2> QED BY <2>1, <2>2 DEF OnceCall
<1>2. ASSUME NEW d \in Deck, Open(d)
      PROVE  Once'
  <2>1. UNCHANGED <<cards, index, onReels>> /\ (~hasty' => ~hasty)
    BY <1>2 DEF Open, Click
  <2>2. \A e \in Calls : OnceCall(e)
    BY <1>1, <1>2 DEF Open, OnceCall
  <2> QED BY <2>1, <2>2, OnceKept
<1>3. ASSUME NEW d \in Deck, NEW c \in Calls, Refresh(d, c)
      PROVE  Once'
  <2>1. onReels' = onReels /\ (~hasty' => ~hasty) /\ call' = [call EXCEPT ![c] = Load(d)]
    BY <1>3 DEF Refresh, Click
  <2>2. \A e \in Calls : OnceCall(e)
    BY <1>1, <2>1
  <2>3. \/ cards'["reels"] = cards["reels"] /\ index'["reels"] = index["reels"]
        \/ cards'["reels"] = <<>>
    BY <1>3, Kinds DEF Refresh, DecksInv, Shapes
  <2> QED BY <2>1, <2>2, <2>3, OnceKept
<1>4. ASSUME NEW d \in Deck, NEW c \in Calls, ClickLike(d, c)
      PROVE  Once'
  <2>1. UNCHANGED <<cards, index, onReels>> /\ (~hasty' => ~hasty)
    BY <1>4 DEF ClickLike, Click
  <2>2. \A e \in Calls : call'[e] = call[e] \/ call'[e].kind = "like"
    BY <1>4 DEF ClickLike, Like, DecksInv, Shapes
  <2>3. \A e \in Calls : OnceCall(e)
    BY <2>2 DEF OnceCall
  <2> QED BY <2>1, <2>3, OnceKept
<1>5. ASSUME NEW d \in Deck, Skip(d)
      PROVE  Once'
  <2>1. /\ index' = [index EXCEPT ![d] = @ + 1] /\ UNCHANGED <<cards, call>>
        /\ Decide(d, Current(d)) /\ (~hasty' => ~hasty /\ ~Busy)
    BY <1>5 DEF Skip
  <2> QED BY <2>1, OnceMove DEF Busy
<1>6. ASSUME NEW c \in Calls, LikeArrives(c)
      PROVE  Once'
  <2>1. /\ index' = [index EXCEPT ![call[c].deck] = @ + 1]
        /\ Decide(call[c].deck, {call[c].card})
        /\ call[c].kind = "like" /\ call[c].deck \in Deck
        /\ UNCHANGED <<cards, hasty>>
    BY <1>6, CallTypes DEF LikeArrives, Liking, DecksInv
  <2>2. \A e \in Calls : call'[e] = IF e = c THEN Idle ELSE call[e]
    BY <1>6 DEF LikeArrives, DecksInv, Shapes
  <2>3. ~hasty' => /\ {call[c].card} \subseteq Current(call[c].deck)
                   /\ \A e \in Calls : call'[e] = Idle
    BY <2>1, <2>2, Kinds DEF DecksInv, Waiting
  <2> QED BY <2>1, <2>2, <2>3, OnceMove
<1>7. CASE RowChanges
  BY <1>7, OnceKept DEF RowChanges, history, OnceCall
<1>8. ASSUME NEW c \in Calls, CardsArrive(c) \/ Fail(c)
      PROVE  Once'
  <2>1. \A e \in Calls : call'[e] = call[e] \/ call'[e].kind = "idle"
    BY <1>8, Kinds DEF CardsArrive, Fail, DecksInv, Shapes
  <2>2. UNCHANGED <<onReels, hasty>>
    BY <1>8 DEF CardsArrive, Fail, history
  <2>3. cards'["reels"] = cards["reels"] /\ index'["reels"] = index["reels"]
    BY <1>8, Kinds DEF CardsArrive, Fail, DecksInv, Shapes
  <2>4. \A e \in Calls : OnceCall(e)
    BY <2>1 DEF OnceCall
  <2> QED BY <2>2, <2>3, <2>4, OnceKept
<1> QED BY <1>2, <1>3, <1>4, <1>5, <1>6, <1>7, <1>8, OnceServe, OnceReels DEF Next

-----------------------------------------------------------------------------
(* The theorems.                                                           *)

\* In every reachable state of the decks: who is in a reply, and, for a user who
\* waits, what the index stands for.
THEOREM DecksAreSound == Spec => []DecksInv
<1>1. Init => DecksInv
  BY DecksInit
<1>2. DecksInv /\ [Next]_vars => DecksInv'
  <2> SUFFICES ASSUME DecksInv, [Next]_vars PROVE DecksInv'
    OBVIOUS
  <2>1. CASE Next
    <3>1. Shapes'
      BY <2>1, ShapesStep DEF DecksInv
    <3>2. Memory'
      BY <2>1, MemoryStep
    <3>3. Ordered'
      BY <2>1, OrderedStep
    <3>4. Once'
      BY <2>1, OnceStep
    <3> QED BY <3>1, <3>2, <3>3, <3>4 DEF DecksInv, Ordered
  <2>2. CASE UNCHANGED vars
    BY <2>2 DEF vars, history, DecksInv, Shapes, Memory, Waiting, NobodyPassedOver, Once, Current
  <2> QED BY <2>1, <2>2
<1> QED BY <1>1, <1>2, PTL DEF Spec

\* The variables of the page keep their types; whom the user decided on is in the
\* seen list that the reels are asked for with.
THEOREM DecksTypeCorrect == Spec => []TypeOK
<1>1. DecksInv => TypeOK
  <2> SUFFICES ASSUME DecksInv PROVE TypeOK
    OBVIOUS
  <2>1. \A d \in Deck : index[d] \in 0..MaxIndex /\ ToSet(cards[d]) \subseteq People
    BY DEF DecksInv, Shapes, ToSet
  <2>2. \A c \in Calls : call[c] = Idle \/ call[c].deck \in Deck
    BY DEF DecksInv, Shapes, Places, Loading, Liking, Answered
  <2>3. /\ screen \in Deck /\ seen \subseteq People /\ decided \subseteq seen
        /\ base \subseteq decided /\ onReels \subseteq decided
    BY DEF DecksInv, Shapes
  <2> QED BY <2>1, <2>2, <2>3 DEF TypeOK
<1> QED BY <1>1, DecksAreSound, PTL

\* loadReels never brings back a card on which the user had decided, in either
\* deck, when the reels were asked for - in whatever order answers arrive - and
\* to a user who waits none that was decided on in the reels.
THEOREM ReelsStayNew == Spec => []ReelsAreNew
<1>1. DecksInv => ReelsAreNew
  BY DEF DecksInv, Memory, Once, ReelsAreNew
<1> QED BY <1>1, DecksAreSound, PTL

\* handleLike and handleSkip pass nobody over, as long as the user waits for each
\* answer and no load changes the cards before the index - for any number of
\* people, of calls and of changes to the profiles.
THEOREM CardsKeepOrder == Spec => []NobodyPassedOver
<1>1. DecksInv => NobodyPassedOver
  BY DEF DecksInv
<1> QED BY <1>1, DecksAreSound, PTL
\* What the card query answers, at the moment it is served: the cards of the list
\* are those of people the viewer may see, within the window of ages; whoever the
\* window has to take in is missing only if a full page of newer people is there.
LEMMA ListFits ==
  ASSUME Shapes, NEW list \in Seq(People),
         ToSet(list) = Newest(ForCards(rows, Viewer, Today)),
         Len(list) = Cardinality(Newest(ForCards(rows, Viewer, Today)))
  PROVE  /\ \A p \in ToSet(list) : OnShow(p) /\ Suits(p, -5..5)
         /\ \A p \in People \ ToSet(list) : OnShow(p) /\ Suits(p, -4..3) =>
              Len(list) = PageSize /\ \A q \in ToSet(list) : q > p
<1> DEFINE shown == ForCards(rows, Viewer, Today)
<1>1. shown \in SUBSET Int /\ IsFiniteSet(shown)
  <2>1. shown \in SUBSET People
    BY DEF ForCards, Shapes
  <2> QED BY <2>1, DecksAssumption, FS_Subset
<1>2. ASSUME NEW p \in People
      PROVE  /\ rows[p] \in Profile
             /\ p \in shown <=> /\ Visible(rows[p]) /\ p # Viewer.id
                                /\ GenderFits(Viewer, rows[p])
                                /\ AgeFits(Viewer, rows[p], Today)
             /\ Visible(rows[p]) <=> OnShow(p)
  BY DEF ForCards, Shapes, Visible, OnShow
<1>3. ASSUME NEW p \in People
      PROVE  GenderFits(Viewer, rows[p]) <=> rows[p].gender \in OppositeTo(Viewer.gender)
  <2>1. rows[p].gender \in {"male", "female", Nothing}
    BY <1>2 DEF Profile
  <2> QED BY <2>1 DEF GenderFits, OppositeTo
<1>4. ASSUME NEW p \in People, Viewer.age # Nothing, rows[p].birth # Nothing
      PROVE  /\ AgeFits(Viewer, rows[p], Today) => Years(p) \in -5..5
             /\ Years(p) \in -4..3 => AgeFits(Viewer, rows[p], Today)
  <2>1. Viewer.age \in Int /\ rows[p].birth \in Date /\ Today \in Date
    BY <1>2, <1>4, DecksAssumption DEF Profile
  <2> QED BY <2>1, WindowIsSound, WindowIsWideEnough DEF Years
<1>5. ASSUME NEW p \in People
      PROVE  /\ AgeFits(Viewer, rows[p], Today) /\ Viewer.age # Nothing => rows[p].birth # Nothing
             /\ Viewer.age = Nothing => AgeFits(Viewer, rows[p], Today)
  BY DEF AgeFits
<1> HIDE DEF shown
<1>6. ASSUME NEW p \in ToSet(list)
      PROVE  OnShow(p) /\ Suits(p, -5..5)
  <2>1. p \in People /\ p \in shown
    <3>1. p \in shown
      BY DEF Newest, shown
    <3>2. shown \subseteq People
      BY DEF shown, ForCards, Shapes
    <3> QED BY <3>1, <3>2
  <2> QED BY <1>2, <1>3, <1>4, <1>5, <2>1 DEF Suits
<1>7. ASSUME NEW p \in People \ ToSet(list), OnShow(p), Suits(p, -4..3)
      PROVE  Len(list) = PageSize /\ \A q \in ToSet(list) : q > p
  <2>1. p \in shown
    BY <1>2, <1>3, <1>4, <1>5, <1>7 DEF Suits
  <2>2. p \in shown \ Newest(shown)
    BY <1>7, <2>1 DEF shown
  <2> QED BY <1>1, <2>2, LeftOutOfAFullPage DEF shown
<1> QED BY <1>6, <1>7

\* Only the server turns a load into cards.
LEMMA CardsAreServed ==
  ASSUME Shapes, Next, NEW c \in Calls, call[c].kind = "load", call'[c].kind = "cards"
  PROVE  ServeCards(c)
<1>1. ASSUME NEW e \in Calls, NEW x, x.kind # "cards", call' = [call EXCEPT ![e] = x]
      PROVE  FALSE
  BY <1>1 DEF Shapes
<1>2. ASSUME NEW d \in Deck, Open(d)
      PROVE  FALSE
  BY <1>1, <1>2, LoadType DEF Open
<1>3. ASSUME NEW d \in Deck, NEW e \in Calls, Refresh(d, e)
      PROVE  FALSE
  BY <1>1, <1>3, LoadType DEF Refresh
<1>4. ASSUME NEW d \in Deck, NEW e \in Calls, ClickLike(d, e)
      PROVE  FALSE
  <2>1. PICK p \in Current(d) : call' = [call EXCEPT ![e] = Like(d, p)]
    BY <1>4 DEF ClickLike
  <2>2. Like(d, p).kind # "cards"
    BY DEF Like
  <2> QED BY <1>1, <2>1, <2>2
<1>5. ASSUME NEW e \in Calls, ServeCards(e)
      PROVE  ServeCards(c)
  <2>1. \E x : call' = [call EXCEPT ![e] = x]
    <3>1. PICK list \in Seq(People) :
            call' = [call EXCEPT ![e] = [kind |-> "cards", deck |-> call[e].deck,
                                         list |-> list, after |-> call[e].after]]
      BY <1>5, ServedList
    <3> QED BY <3>1
  <2>2. e = c
    BY <2>1
  <2> QED BY <1>5, <2>2
<1>6. ASSUME NEW e \in Calls,
             CardsArrive(e) \/ ReelsArrive(e) \/ LikeArrives(e) \/ Fail(e)
      PROVE  FALSE
  BY <1>1, <1>6, Kinds DEF CardsArrive, ReelsArrive, LikeArrives, Fail
<1>7. ~UNCHANGED call
  OBVIOUS
<1> QED BY <1>2, <1>3, <1>4, <1>5, <1>6, <1>7 DEF Next, Skip, RowChanges

\* Every page of cards that get_cards and get_reels serve is right at that moment
\* - for any number of people, any profiles, any viewer and any page size.
THEOREM PagesFit == Spec => ServedCardsFit
<1> DEFINE Fits(c) ==
             LET list == call'[c].list
             IN /\ \A i, j \in DOMAIN list : i # j => list[i] # list[j]
                /\ \A p \in ToSet(list) : /\ OnShow(p)
                                          /\ call[c].deck = "feed" => Suits(p, -5..5)
                /\ call[c].deck = "feed" =>
                     \A p \in People \ ToSet(list) :
                       OnShow(p) /\ Suits(p, -4..3) =>
                         Len(list) = PageSize /\ \A q \in ToSet(list) : q > p
<1>1. ASSUME DecksInv, Next, NEW c \in Calls, call[c].kind = "load", call'[c].kind = "cards"
      PROVE  Fits(c)
  <2>1. Shapes
    BY <1>1 DEF DecksInv
  <2>2. ServeCards(c)
    BY <1>1, <2>1, CardsAreServed
  <2>3. PICK list \in Seq(People) :
          /\ call' = [call EXCEPT ![c] = [kind |-> "cards", deck |-> call[c].deck,
                                          list |-> list, after |-> call[c].after]]
          /\ \A i, j \in DOMAIN list : i # j => list[i] # list[j]
          /\ call[c].deck = "feed" =>
               /\ ToSet(list) = Newest(ForCards(rows, Viewer, Today))
               /\ Len(list) = Cardinality(Newest(ForCards(rows, Viewer, Today)))
          /\ call[c].deck # "feed" =>
               ToSet(list) \subseteq ForReels(rows, Viewer, call[c].exclude)
    BY <2>1, <2>2, ServedList
  <2>4. call'[c].list = list
    BY <2>1, <2>3 DEF Shapes
  <2>5. call[c].deck # "feed" => \A p \in ToSet(list) : OnShow(p)
    <3>1. \A p \in ForReels(rows, Viewer, call[c].exclude) : OnShow(p)
      BY DEF ForReels, Visible, OnShow
    <3> QED BY <2>3, <3>1
  <2>6. call[c].deck = "feed" =>
          /\ \A p \in ToSet(list) : OnShow(p) /\ Suits(p, -5..5)
          /\ \A p \in People \ ToSet(list) : OnShow(p) /\ Suits(p, -4..3) =>
               Len(list) = PageSize /\ \A q \in ToSet(list) : q > p
    BY <2>1, <2>3, ListFits
  <2> QED BY <2>3, <2>4, <2>5, <2>6
<1> DEFINE AllFit == \A c \in Calls : call[c].kind = "load" /\ call'[c].kind = "cards" => Fits(c)
<1>2. DecksInv /\ [Next]_vars => [AllFit]_vars
  BY <1>1
<1>3. [][Next]_vars /\ []DecksInv => [][AllFit]_vars
  BY <1>2, PTL
<1> QED BY <1>3, DecksAreSound DEF Spec, ServedCardsFit
=============================================================================
