----------------------------- MODULE GateProofs -----------------------------
(***************************************************************************)
(* Proofs about the way in.  Four invariants carry them: what the values   *)
(* are (Shapes), who is about to set the expiry of a counter (Openers),    *)
(* what a registration knows about the rows and its guest (Claims), and    *)
(* which of the admitted requests belong to the life of a counter that     *)
(* runs now, which to the one before (Windows).                            *)
(***************************************************************************)
EXTENDS Gate, FiniteSetTheorems, TLAPS

Inside == {"look", "insert", "commit"}

RegisterForm == [key: {"register"}, contacts: SUBSET Contacts \ {{}}, guest: Guests \cup {Nothing}]

Waiting == [at: {"expire"}, form: Form]

Registering == [at: Inside, form: RegisterForm, todo: SUBSET Contacts,
                gender: Genders \cup {Nothing}]

Shapes ==
  /\ hits \in [Keys -> 0..MaxHits]
  /\ ttl \in [Keys -> Nat] /\ \A k \in Keys : ttl[k] <= Window[k]
  /\ guests \in [Guests -> 0..GuestTtl]
  /\ stated \in [Guests -> Genders \cup {Nothing}]
  /\ accounts \subseteq Row /\ IsFiniteSet(accounts)
  /\ req \in [Requests -> {Idle} \cup Waiting \cup Registering]
  /\ marooned \subseteq Keys

about == [k \in Keys |-> {r \in Requests : At(r, {"expire"}) /\ req[r].form.key = k}]

\* A counter that lives has an expiry, or one request on the way to set it, or
\* lost that request.
Openers ==
  \A k \in Keys :
    /\ ttl[k] > 0 => hits[k] > 0
    /\ k \in marooned => hits[k] > 0 /\ ttl[k] = 0
    /\ IF hits[k] > 0 /\ ttl[k] = 0 /\ k \notin marooned
       THEN \E r \in Requests : about[k] = {r}
       ELSE about[k] = {}

\* A guest's word, once given, is not given again.
GenderFits(form, gender) ==
  IF gender = Nothing THEN form.guest = Nothing \/ guests[form.guest] = 0
  ELSE form.guest # Nothing /\ gender = stated[form.guest]

Known(form) == form.guest # Nothing => stated[form.guest] # Nothing

Claims ==
  /\ \A a \in accounts : Known(a) /\ GenderFits(a, a.gender)
  /\ \A r \in Requests : req[r] # Idle /\ req[r].form.key = "register" => Known(req[r].form)
  /\ \A r \in Requests : At(r, {"insert", "commit"}) => GenderFits(req[r].form, req[r].gender)

\* No contact is held twice, committed or about to be.
Apart ==
  /\ \A a, b \in accounts : a # b => a.contacts \cap b.contacts = {}
  /\ \A r \in Requests : At(r, {"commit"}) =>
       /\ \A a \in accounts : a.contacts \cap req[r].form.contacts = {}
       /\ \A q \in Requests \ {r} : At(q, {"commit"}) =>
            req[q].form.contacts \cap req[r].form.contacts = {}

GateInv == Shapes /\ Openers /\ Claims /\ Apart

-----------------------------------------------------------------------------
(* Requests.                                                               *)

\* Where a request is tells what it is.
LEMMA Places ==
  ASSUME Shapes, NEW r \in Requests
  PROVE  /\ At(r, {"idle"}) <=> req[r] = Idle
         /\ At(r, {"expire"}) <=> req[r] \in Waiting
         /\ At(r, Inside) <=> req[r] \in Registering
         /\ At(r, {"look"}) => At(r, Inside)
         /\ At(r, {"insert"}) => At(r, Inside)
         /\ At(r, {"commit"}) => At(r, Inside)
<1>1. req[r] \in {Idle} \cup Waiting \cup Registering
  BY DEF Shapes
<1>2. /\ Idle.at = "idle"
      /\ \A x \in Waiting : x.at = "expire"
      /\ \A x \in Registering : x.at \in Inside
  BY DEF Idle, Waiting, Registering
<1> QED BY <1>1, <1>2 DEF At, Inside

LEMMA Forms ==
  /\ Form = {[key |-> "login"]} \cup RegisterForm
  /\ \A f \in Form : f.key \in Keys /\ (f.key = "register" <=> f \in RegisterForm)
<1>1. Form = {[key |-> "login"]} \cup RegisterForm
  BY DEF Form, RegisterForm
<1>2. \A f \in RegisterForm : f.key = "register"
  BY DEF RegisterForm
<1> QED BY <1>1, <1>2 DEF Keys

\* What is behind the limiter.
LEMMA BehindType ==
  ASSUME NEW form \in Form
  PROVE  /\ Behind(form) \in {Idle} \cup Registering
         /\ form.key = "register" =>
              Behind(form).at = "look" /\ Behind(form).form = form
         /\ form.key = "login" => Behind(form) = Idle
         /\ Behind(form).at \notin {"expire", "insert", "commit"}
<1>1. CASE form.key = "login"
  BY <1>1 DEF Behind, Idle
<1>2. CASE form \in RegisterForm
  <2>1. Behind(form) = [at |-> "look", form |-> form, todo |-> form.contacts, gender |-> Nothing]
    BY <1>2, Forms DEF Behind
  <2> QED BY <1>2, <2>1 DEF Registering, Inside, RegisterForm
<1> QED BY <1>1, <1>2, Forms

LEMMA GateInit == Init => GateInv
<1> SUFFICES ASSUME Init PROVE GateInv
  OBVIOUS
<1>1. \A r \in Requests : req[r] = Idle /\ req[r].at = "idle"
  BY DEF Init, Idle
<1>2. Shapes
  BY GateAssumption, FS_EmptySet DEF Init, Shapes
<1>3. Openers
  BY <1>1 DEF Init, Openers, about, At
<1>4. Claims /\ Apart
  BY <1>1 DEF Init, Claims, Apart, At
<1> QED BY <1>2, <1>3, <1>4 DEF GateInv

-----------------------------------------------------------------------------
(* Every step keeps the shapes.                                            *)

\* A request that looks up its contacts stays one that registers.
LEMMA LookUpType ==
  ASSUME Shapes, NEW r \in Requests, At(r, {"look"}), NEW c
  PROVE  [req[r] EXCEPT !.todo = @ \ {c}] \in Registering
  BY Places DEF Registering

LEMMA TakeGenderType ==
  ASSUME Shapes, NEW r \in Requests, At(r, {"look"})
  PROVE  /\ GuestGender(req[r].form.guest) \in Genders \cup {Nothing}
         /\ [req[r] EXCEPT !.at = "insert", !.gender = GuestGender(req[r].form.guest)]
              \in Registering
<1>1. req[r] \in Registering
  BY Places
<1>2. req[r].form.guest \in Guests \cup {Nothing}
  BY <1>1 DEF Registering, RegisterForm
<1>3. GuestGender(req[r].form.guest) \in Genders \cup {Nothing}
  BY <1>2 DEF GuestGender, Shapes
<1> QED BY <1>1, <1>3 DEF Registering, Inside

LEMMA InsertType ==
  ASSUME Shapes, NEW r \in Requests, At(r, {"insert"})
  PROVE  [req[r] EXCEPT !.at = "commit"] \in Registering
  BY Places DEF Registering, Inside

\* The row of a request that commits.
NewRow(r) == [id |-> Cardinality(accounts), contacts |-> req[r].form.contacts,
              guest |-> req[r].form.guest, gender |-> req[r].gender]

LEMMA CommitType ==
  ASSUME Shapes, NEW r \in Requests, At(r, {"commit"})
  PROVE  NewRow(r) \in Row
<1>1. req[r] \in Registering
  BY Places
<1>2. Cardinality(accounts) \in Nat
  BY FS_CardinalityType DEF Shapes
<1> QED BY <1>1, <1>2 DEF NewRow, Row, Registering, RegisterForm

\* What each action makes of the requests.
LEMMA RequestsStep ==
  ASSUME Shapes, Next
  PROVE  \/ UNCHANGED req
         \/ \E r \in Requests, x \in {Idle} \cup Waiting \cup Registering :
              req' = [req EXCEPT ![r] = x]
<1>1. ASSUME NEW r \in Requests, NEW form \in Form, Count(r, form)
      PROVE  \E x \in {Idle} \cup Waiting \cup Registering : req' = [req EXCEPT ![r] = x]
  <2>1. [at |-> "expire", form |-> form] \in Waiting
    BY DEF Waiting
  <2> QED BY <1>1, <2>1, BehindType DEF Count
<1>2. ASSUME NEW r \in Requests, Expire(r)
      PROVE  \E x \in {Idle} \cup Waiting \cup Registering : req' = [req EXCEPT ![r] = x]
  <2>1. req[r].form \in Form
    BY <1>2, Places DEF Expire, Waiting
  <2> QED BY <1>2, <2>1, BehindType DEF Expire
<1>3. ASSUME NEW r \in Requests, LookUp(r)
      PROVE  \E x \in {Idle} \cup Waiting \cup Registering : req' = [req EXCEPT ![r] = x]
  <2>1. PICK c \in req[r].todo : \/ Done(r)
                                 \/ req' = [req EXCEPT ![r].todo = @ \ {c}]
    BY <1>3 DEF LookUp
  <2>2. CASE Done(r)
    BY <2>2 DEF Done
  <2>3. CASE req' = [req EXCEPT ![r].todo = @ \ {c}]
    BY <1>3, <2>3, LookUpType DEF LookUp
  <2> QED BY <2>1, <2>2, <2>3
<1>4. ASSUME NEW r \in Requests, TakeGender(r)
      PROVE  \E x \in {Idle} \cup Waiting \cup Registering : req' = [req EXCEPT ![r] = x]
  BY <1>4, TakeGenderType DEF TakeGender
<1>5. ASSUME NEW r \in Requests, Insert(r)
      PROVE  \E x \in {Idle} \cup Waiting \cup Registering : req' = [req EXCEPT ![r] = x]
  BY <1>5, InsertType DEF Insert, Done, To
<1>6. ASSUME NEW r \in Requests, Commit(r) \/ Die(r)
      PROVE  req' = [req EXCEPT ![r] = Idle]
  BY <1>6 DEF Commit, Die, Done
<1>7. ASSUME NEW g \in Guests, NEW gender \in Genders, StoreGuest(g, gender)
      PROVE  UNCHANGED req
  BY <1>7 DEF StoreGuest
<1>8. CASE Tick
  BY <1>8 DEF Tick
<1> QED BY <1>1, <1>2, <1>3, <1>4, <1>5, <1>6, <1>7, <1>8 DEF Next

LEMMA ShapesStep ==
  ASSUME Shapes, Next
  PROVE  Shapes'
<1>1. req' \in [Requests -> {Idle} \cup Waiting \cup Registering]
  BY RequestsStep DEF Shapes
<1>2. ASSUME NEW r \in Requests, NEW form \in Form, Count(r, form)
      PROVE  Shapes'
  <2>1. form.key \in Keys /\ hits[form.key] + 1 \in 0..MaxHits
    BY <1>2, Forms, GateAssumption DEF Count, Shapes
  <2> QED BY <1>1, <1>2, <2>1 DEF Count, Shapes, guestKeys
<1>3. ASSUME NEW r \in Requests, Expire(r)
      PROVE  Shapes'
  <2>1. req[r].form.key \in Keys
    BY <1>3, Places, Forms DEF Expire, Waiting
  <2> QED BY <1>1, <1>3, <2>1, GateAssumption DEF Expire, Shapes, guestKeys
<1>4. ASSUME NEW r \in Requests, LookUp(r) \/ TakeGender(r) \/ Insert(r)
      PROVE  Shapes'
  BY <1>1, <1>4 DEF LookUp, TakeGender, Insert, Shapes, redis, guestKeys
<1>5. ASSUME NEW r \in Requests, Commit(r)
      PROVE  Shapes'
  <2>1. accounts' = accounts \cup {NewRow(r)}
    BY <1>5 DEF Commit, NewRow
  <2>2. NewRow(r) \in Row
    BY <1>5, CommitType DEF Commit
  <2>3. IsFiniteSet(accounts')
    BY <2>1, FS_AddElement DEF Shapes
  <2> QED BY <1>1, <1>5, <2>1, <2>2, <2>3 DEF Commit, Shapes, redis, guestKeys
<1>6. ASSUME NEW r \in Requests, Die(r)
      PROVE  Shapes'
  <2>1. At(r, {"expire"}) => req[r].form.key \in Keys
    BY Places, Forms DEF Waiting
  <2> QED BY <1>1, <1>6, <2>1 DEF Die, Shapes, redis, guestKeys
<1>7. ASSUME NEW g \in Guests, NEW gender \in Genders, StoreGuest(g, gender)
      PROVE  Shapes'
  BY <1>1, <1>7, GateAssumption DEF StoreGuest, Shapes, redis
<1>8. CASE Tick
  <2>1. /\ \A k \in Keys : Left(ttl[k]) \in Nat /\ Left(ttl[k]) <= Window[k]
        /\ \A g \in Guests : Left(guests[g]) \in 0..GuestTtl
    BY GateAssumption DEF Shapes, Left
  <2>2. hits' \in [Keys -> 0..MaxHits]
    BY <1>8, GateAssumption DEF Tick, Shapes
  <2> QED BY <1>1, <1>8, <2>1, <2>2 DEF Tick, Shapes
<1> QED BY <1>2, <1>3, <1>4, <1>5, <1>6, <1>7, <1>8 DEF Next

-----------------------------------------------------------------------------
(* Every step keeps the openers.                                           *)

\* A move that neither comes from EXPIRE nor leads to it.
LEMMA AboutKept ==
  ASSUME Shapes, NEW r \in Requests, NEW x \in {Idle} \cup Waiting \cup Registering,
         req' = [req EXCEPT ![r] = x],
         ~At(r, {"expire"}), x.at # "expire", NEW k \in Keys
  PROVE  about'[k] = about[k]
<1>1. \A q \in Requests : req'[q] = IF q = r THEN x ELSE req[q]
  BY DEF Shapes
<1> QED BY <1>1 DEF about, At

LEMMA OpenersCount ==
  ASSUME GateInv, NEW r \in Requests, NEW form \in Form, Count(r, form)
  PROVE  Openers'
<1> DEFINE k == form.key
<1>1. k \in Keys /\ Idle.at = "idle"
  BY Forms DEF Idle
<1>2. /\ hits' = [hits EXCEPT ![k] = hits[k] + 1] /\ ttl' = ttl /\ marooned' = marooned
      /\ hits[k] \in Nat /\ hits \in [Keys -> 0..MaxHits]
  BY <1>1 DEF Count, GateInv, Shapes
<1>3. ~At(r, {"expire"})
  BY DEF Count, At
<1>4. CASE hits[k] = 0
  <2>1. req' = [req EXCEPT ![r] = [at |-> "expire", form |-> form]]
    BY <1>4 DEF Count, Opens
  <2>2. \A j \in Keys : about'[j] = (about[j] \ {r}) \cup (IF k = j THEN {r} ELSE {})
    BY <2>1 DEF GateInv, Shapes, about, At
  <2>3. \A j \in Keys : r \notin about[j]
    BY <1>3 DEF about
  <2>4. ASSUME NEW j \in Keys, j # k
        PROVE  about'[j] = about[j] /\ hits'[j] = hits[j]
    <3>1. about'[j] = about[j] \ {r}
      BY <2>2, <2>4
    <3>2. hits'[j] = hits[j]
      BY <1>1, <1>2, <2>4
    <3> QED BY <2>3, <3>1, <3>2
  <2>5. ttl[k] = 0 /\ k \notin marooned /\ about[k] = {}
    BY <1>1, <1>4 DEF GateInv, Openers, Shapes
  <2>6. hits'[k] = 1 /\ about'[k] = {r}
    BY <1>1, <1>2, <1>4, <2>2, <2>5
  <2> HIDE DEF k
  <2> QED BY <1>2, <2>4, <2>5, <2>6 DEF GateInv, Openers
<1>5. CASE hits[k] # 0
  <2>1. PICK x \in {Idle} \cup {Behind(form)} : req' = [req EXCEPT ![r] = x]
    <3>1. ~Opens(k, hits[k] + 1)
      BY <1>2, <1>5 DEF Opens
    <3> QED BY <3>1 DEF Count
  <2>2. x.at # "expire"
    BY <1>1, BehindType
  <2>3. \A q \in Requests : req'[q] = IF q = r THEN x ELSE req[q]
    BY <2>1 DEF GateInv, Shapes
  <2>4. \A j \in Keys : about'[j] = about[j]
    BY <1>3, <2>2, <2>3 DEF about, At
  <2>5. \A j \in Keys : hits'[j] > 0 <=> hits[j] > 0
    BY <1>1, <1>2, <1>5
  <2> HIDE DEF k
  <2> QED BY <1>2, <2>4, <2>5 DEF GateInv, Openers
<1> QED BY <1>4, <1>5

\* The request that is about to set the expiry of its key, is the one.
LEMMA TheOpener ==
  ASSUME GateInv, NEW r \in Requests, At(r, {"expire"})
  PROVE  LET k == req[r].form.key
         IN /\ k \in Keys /\ hits[k] > 0 /\ ttl[k] = 0 /\ k \notin marooned
            /\ about[k] = {r}
<1>1. req[r].form.key \in Keys
  BY Places, Forms DEF GateInv, Waiting
<1>2. r \in about[req[r].form.key]
  BY <1>1 DEF about
<1> QED BY <1>1, <1>2 DEF GateInv, Openers

LEMMA OpenersExpire ==
  ASSUME GateInv, NEW r \in Requests, Expire(r)
  PROVE  Openers'
<1> DEFINE k == req[r].form.key
<1>1. /\ k \in Keys /\ hits[k] > 0 /\ ttl[k] = 0 /\ k \notin marooned
      /\ about[k] = {r}
  BY TheOpener DEF Expire
<1>2. /\ ttl' = [ttl EXCEPT ![k] = Window[k]] /\ hits' = hits /\ marooned' = marooned
      /\ ttl \in [Keys -> Nat] /\ Window[k] > 0
  BY <1>1, GateAssumption DEF Expire, GateInv, Shapes
<1>3. req' = [req EXCEPT ![r] = Behind(req[r].form)] /\ Behind(req[r].form).at # "expire"
  BY BehindType, Places DEF Expire, GateInv, Waiting
<1>4. \A j \in Keys : about'[j] = about[j] \ {r}
  BY <1>3 DEF GateInv, Shapes, about, At
<1>5. \A j \in Keys : j # k => r \notin about[j]
  BY DEF about
<1> HIDE DEF k
<1>6. \A j \in Keys : IF j = k THEN about'[j] = {} /\ ttl'[j] > 0
                                ELSE about'[j] = about[j] /\ ttl'[j] = ttl[j]
  BY <1>1, <1>2, <1>4, <1>5
<1> QED BY <1>1, <1>2, <1>6 DEF GateInv, Openers

LEMMA OpenersDie ==
  ASSUME GateInv, NEW r \in Requests, Die(r)
  PROVE  Openers'
<1>1. Idle.at = "idle" /\ req' = [req EXCEPT ![r] = Idle] /\ hits' = hits /\ ttl' = ttl
  BY DEF Die, Done, redis, Idle
<1>2. CASE ~At(r, {"expire"})
  <2>1. \A j \in Keys : about'[j] = about[j]
    BY <1>1, <1>2, AboutKept DEF GateInv
  <2> QED BY <1>1, <1>2, <2>1 DEF Die, GateInv, Openers
<1>3. CASE At(r, {"expire"})
  <2> DEFINE k == req[r].form.key
  <2>1. /\ k \in Keys /\ hits[k] > 0 /\ ttl[k] = 0 /\ k \notin marooned
        /\ about[k] = {r}
    BY <1>3, TheOpener
  <2>2. \A j \in Keys : about'[j] = about[j] \ {r}
    BY <1>1 DEF GateInv, Shapes, about, At
  <2>3. \A j \in Keys : j # k => r \notin about[j]
    BY DEF about
  <2>4. marooned' = marooned \cup {k}
    BY <1>3 DEF Die
  <2> HIDE DEF k
  <2>5. \A j \in Keys : IF j = k THEN about'[j] = {} ELSE about'[j] = about[j]
    BY <2>1, <2>2, <2>3
  <2> QED BY <1>1, <2>1, <2>4, <2>5 DEF GateInv, Openers
<1> QED BY <1>2, <1>3

LEMMA OpenersTick ==
  ASSUME GateInv, Tick
  PROVE  Openers'
<1>1. \A k \in Keys : about'[k] = about[k]
  BY DEF Tick, about, At
<1>2. ASSUME NEW k \in Keys
      PROVE  /\ ttl[k] \in Nat /\ hits[k] \in Nat
             /\ ttl'[k] = Left(ttl[k])
             /\ hits'[k] = IF ttl[k] = 1 THEN 0 ELSE hits[k]
  BY DEF Tick, GateInv, Shapes
<1>3. ASSUME NEW k \in Keys, ttl[k] = 0
      PROVE  ttl'[k] = 0 /\ hits'[k] = hits[k]
  BY <1>2, <1>3 DEF Left
<1>4. ASSUME NEW k \in Keys, ttl[k] # 0
      PROVE  /\ about[k] = {} /\ hits[k] > 0 /\ k \notin marooned
             /\ ttl'[k] = 0 => hits'[k] = 0
             /\ ttl'[k] > 0 => hits'[k] > 0
  BY <1>2, <1>4 DEF Left, GateInv, Openers
<1>5. marooned' = marooned
  BY DEF Tick
<1> QED BY <1>1, <1>2, <1>3, <1>4, <1>5 DEF GateInv, Openers

LEMMA OpenersStep ==
  ASSUME GateInv, Next
  PROVE  Openers'
<1>1. ASSUME NEW r \in Requests, LookUp(r) \/ TakeGender(r) \/ Insert(r) \/ Commit(r)
      PROVE  Openers'
  <2>1. UNCHANGED <<hits, ttl, marooned>>
    BY <1>1 DEF LookUp, TakeGender, Insert, Commit, redis
  <2>2. /\ ~At(r, {"expire"}) /\ Idle.at = "idle"
        /\ At(r, {"look"}) => req[r] \in Registering
        /\ At(r, {"insert"}) => req[r] \in Registering
    BY <1>1, Places DEF LookUp, TakeGender, Insert, Commit, At, Idle, GateInv
  <2>3. \A x \in Registering : x.at # "expire"
    BY DEF Registering, Inside
  <2>4. \E x \in {Idle} \cup Registering : req' = [req EXCEPT ![r] = x]
    <3>1. CASE LookUp(r)
      <4>1. PICK c \in req[r].todo : \/ Done(r)
                                     \/ req' = [req EXCEPT ![r].todo = @ \ {c}]
        BY <3>1 DEF LookUp
      <4> QED BY <3>1, <4>1, LookUpType DEF LookUp, Done, GateInv
    <3>2. CASE TakeGender(r)
      BY <3>2, TakeGenderType DEF TakeGender, GateInv
    <3>3. CASE Insert(r)
      BY <3>3, InsertType DEF Insert, Done, To, GateInv
    <3>4. CASE Commit(r)
      BY <3>4 DEF Commit, Done
    <3> QED BY <1>1, <3>1, <3>2, <3>3, <3>4
  <2>5. \A j \in Keys : about'[j] = about[j]
    BY <2>2, <2>3, <2>4, AboutKept DEF GateInv
  <2> QED BY <2>1, <2>5 DEF GateInv, Openers
<1>2. ASSUME NEW g \in Guests, NEW gender \in Genders, StoreGuest(g, gender)
      PROVE  Openers'
  BY <1>2 DEF StoreGuest, GateInv, Openers, about, At, redis
<1> QED BY <1>1, <1>2, OpenersCount, OpenersExpire, OpenersDie, OpenersTick DEF Next

-----------------------------------------------------------------------------
(* Every step keeps what registrations claim.                              *)

\* A request moves and keeps its form, or ends, or begins to look; the rows and
\* the guests are what they were.
LEMMA ClaimsMove ==
  ASSUME GateInv, UNCHANGED <<guests, stated, accounts>>,
         NEW r \in Requests, NEW x, \A q \in Requests : req'[q] = IF q = r THEN x ELSE req[q],
         x = Idle \/ (x.form.key = "register" => Known(x.form)),
         x.at \in {"insert", "commit"} => GenderFits(x.form, x.gender)
  PROVE  Claims'
<1>1. \A a \in accounts' : Known(a)' /\ GenderFits(a, a.gender)'
  BY DEF GateInv, Claims, Known, GenderFits
<1>2. ASSUME NEW q \in Requests, req'[q] # Idle, req'[q].form.key = "register"
      PROVE  Known(req[q].form)'
  BY <1>2 DEF GateInv, Claims, Known
<1>3. ASSUME NEW q \in Requests, At(q, {"insert", "commit"})'
      PROVE  GenderFits(req[q].form, req[q].gender)'
  BY <1>3 DEF GateInv, Claims, GenderFits, At
<1> QED BY <1>1, <1>2, <1>3 DEF Claims

LEMMA ClaimsCount ==
  ASSUME GateInv, NEW r \in Requests, NEW form \in Form, Count(r, form)
  PROVE  Claims'
<1>1. UNCHANGED <<guests, stated, accounts>>
  BY DEF Count, guestKeys
<1>2. PICK x \in {Idle, Behind(form), [at |-> "expire", form |-> form]} :
        req' = [req EXCEPT ![r] = x]
  BY DEF Count
<1>3. \A q \in Requests : req'[q] = IF q = r THEN x ELSE req[q]
  BY <1>2 DEF GateInv, Shapes
<1>4. form.key = "register" => Known(form)
  BY DEF Count, Known
<1>5. x = Idle \/ (x.form.key = "register" => Known(x.form))
  BY <1>2, <1>4, BehindType, Forms DEF Keys
<1>6. x.at \notin {"insert", "commit"}
  BY <1>2, BehindType DEF Idle
<1> QED BY <1>1, <1>3, <1>5, <1>6, ClaimsMove

LEMMA ClaimsExpire ==
  ASSUME GateInv, NEW r \in Requests, Expire(r)
  PROVE  Claims'
<1> DEFINE x == Behind(req[r].form)
<1>1. UNCHANGED <<guests, stated, accounts>> /\ req' = [req EXCEPT ![r] = x]
  BY DEF Expire, guestKeys
<1>2. req[r].form \in Form /\ req[r] # Idle
  BY Places DEF Expire, GateInv, Waiting, Idle, At
<1>3. \A q \in Requests : req'[q] = IF q = r THEN x ELSE req[q]
  BY <1>1 DEF GateInv, Shapes
<1>4. x = Idle \/ (x.form.key = "register" => Known(x.form))
  BY <1>2, BehindType, Forms DEF GateInv, Claims, Keys
<1>5. x.at \notin {"insert", "commit"}
  BY <1>2, BehindType
<1> QED BY <1>1, <1>3, <1>4, <1>5, ClaimsMove

\* The gender that a registration takes fits its guest.
LEMMA ClaimsTakeGender ==
  ASSUME GateInv, NEW r \in Requests, TakeGender(r)
  PROVE  Claims'
<1> DEFINE x == [req[r] EXCEPT !.at = "insert", !.gender = GuestGender(req[r].form.guest)]
<1>1. UNCHANGED <<guests, stated, accounts>> /\ req' = [req EXCEPT ![r] = x]
  BY DEF TakeGender, guestKeys
<1>2. req[r] \in Registering /\ req[r] # Idle
  BY Places DEF TakeGender, GateInv, Idle, At
<1>3. /\ x.form = req[r].form /\ x.gender = GuestGender(req[r].form.guest)
      /\ req[r].form.key = "register" /\ req[r].form.guest \in Guests \cup {Nothing}
  BY <1>2 DEF Registering, RegisterForm
<1> HIDE DEF x
<1>4. Known(x.form)
  BY <1>2, <1>3 DEF GateInv, Claims
<1>5. GenderFits(x.form, x.gender)
  BY <1>3, <1>4 DEF GuestGender, GenderFits, Known, GateInv, Shapes
<1>6. \A q \in Requests : req'[q] = IF q = r THEN x ELSE req[q]
  BY <1>1 DEF GateInv, Shapes
<1> QED BY <1>1, <1>4, <1>5, <1>6, ClaimsMove

LEMMA ClaimsLookUp ==
  ASSUME GateInv, NEW r \in Requests, LookUp(r) \/ Insert(r) \/ Die(r)
  PROVE  Claims'
<1>1. UNCHANGED <<guests, stated, accounts>>
  BY DEF LookUp, Insert, Die, guestKeys
<1>2. CASE Done(r)
  <2>1. \A q \in Requests : req'[q] = IF q = r THEN Idle ELSE req[q]
    BY <1>2 DEF Done, GateInv, Shapes
  <2>2. Idle.at = "idle"
    BY DEF Idle
  <2> QED BY <1>1, <2>1, <2>2, ClaimsMove
<1>3. CASE LookUp(r) /\ ~Done(r)
  <2>1. PICK c \in req[r].todo : req' = [req EXCEPT ![r].todo = @ \ {c}]
    BY <1>3 DEF LookUp
  <2> DEFINE x == [req[r] EXCEPT !.todo = @ \ {c}]
  <2>2. req[r] \in Registering /\ req[r] # Idle /\ req[r].at = "look"
    BY <1>3, Places DEF LookUp, GateInv, Idle, At
  <2>3. x.form = req[r].form /\ x.at = "look" /\ x.form.key = "register"
    BY <2>2 DEF Registering, RegisterForm
  <2>4. \A q \in Requests : req'[q] = IF q = r THEN x ELSE req[q]
    BY <2>1 DEF GateInv, Shapes
  <2> HIDE DEF x
  <2>5. Known(x.form)
    BY <2>2, <2>3 DEF GateInv, Claims
  <2> QED BY <1>1, <2>3, <2>4, <2>5, ClaimsMove
<1>4. CASE Insert(r) /\ ~Done(r)
  <2> DEFINE x == [req[r] EXCEPT !.at = "commit"]
  <2>1. req' = [req EXCEPT ![r] = x]
    BY <1>4 DEF Insert, To
  <2>2. req[r] \in Registering /\ req[r] # Idle /\ At(r, {"insert", "commit"})
    BY <1>4, Places DEF Insert, GateInv, Idle, At
  <2>3. x.form = req[r].form /\ x.gender = req[r].gender /\ x.form.key = "register"
    BY <2>2 DEF Registering, RegisterForm
  <2>4. \A q \in Requests : req'[q] = IF q = r THEN x ELSE req[q]
    BY <2>1 DEF GateInv, Shapes
  <2> HIDE DEF x
  <2>5. Known(x.form) /\ GenderFits(x.form, x.gender)
    BY <2>2, <2>3 DEF GateInv, Claims
  <2> QED BY <1>1, <2>4, <2>5, ClaimsMove
<1>5. Die(r) => Done(r)
  BY DEF Die
<1> QED BY <1>2, <1>3, <1>4, <1>5

LEMMA ClaimsCommit ==
  ASSUME GateInv, NEW r \in Requests, Commit(r)
  PROVE  Claims'
<1> DEFINE n == NewRow(r)
<1>1. UNCHANGED <<guests, stated>> /\ accounts' = accounts \cup {n}
  BY DEF Commit, guestKeys, NewRow
<1>2. \A q \in Requests : req'[q] = IF q = r THEN Idle ELSE req[q]
  BY DEF Commit, Done, GateInv, Shapes
<1>3. /\ req[r] # Idle /\ req[r].form.key = "register"
      /\ At(r, {"insert", "commit"})
  BY Places DEF Commit, GateInv, Idle, At, Registering, RegisterForm
<1>4. n.guest = req[r].form.guest /\ n.gender = req[r].gender
  BY DEF NewRow
<1> HIDE DEF n
<1>5. Known(n) /\ GenderFits(n, n.gender)
  BY <1>3, <1>4 DEF GateInv, Claims, Known, GenderFits
<1>6. \A a \in accounts' : Known(a)' /\ GenderFits(a, a.gender)'
  BY <1>1, <1>5 DEF GateInv, Claims, Known, GenderFits
<1>7. \A q \in Requests : req'[q] # Idle /\ req'[q].form.key = "register" => Known(req[q].form)'
  BY <1>1, <1>2 DEF GateInv, Claims, Known
<1>8. \A q \in Requests : At(q, {"insert", "commit"})' =>
                          GenderFits(req[q].form, req[q].gender)'
  BY <1>1, <1>2 DEF GateInv, Claims, GenderFits, At, Idle
<1> QED BY <1>6, <1>7, <1>8 DEF Claims

\* New guests and passing time: what was stated stays, what is over stays over.
LEMMA ClaimsGuests ==
  ASSUME GateInv, UNCHANGED <<req, accounts>>,
         \A g \in Guests : stated[g] # Nothing =>
           stated'[g] = stated[g] /\ (guests[g] = 0 => guests'[g] = 0)
  PROVE  Claims'
<1>1. /\ \A a \in accounts : a.guest \in Guests \cup {Nothing}
      /\ \A q \in Requests : req[q] # Idle /\ req[q].form.key = "register" =>
                              req[q].form.guest \in Guests \cup {Nothing}
  <2>1. \A a \in accounts : a.guest \in Guests \cup {Nothing}
    BY DEF GateInv, Shapes, Row
  <2>2. ASSUME NEW q \in Requests, req[q] # Idle, req[q].form.key = "register"
        PROVE  req[q].form.guest \in Guests \cup {Nothing}
    <3>1. req[q].form \in RegisterForm
      BY <2>2, Forms DEF GateInv, Shapes, Waiting, Registering
    <3> QED BY <3>1 DEF RegisterForm
  <2> QED BY <2>1, <2>2
<1>2. \A q \in Requests : At(q, {"insert", "commit"}) =>
        req[q] # Idle /\ req[q].form.key = "register"
  BY Places DEF GateInv, At, Idle, Registering, RegisterForm, Inside
<1>3. \A a \in accounts' : Known(a)' /\ GenderFits(a, a.gender)'
  BY <1>1, GateAssumption DEF GateInv, Claims, Known, GenderFits
<1>4. ASSUME NEW q \in Requests, req[q] # Idle, req[q].form.key = "register"
      PROVE  Known(req[q].form) /\ Known(req[q].form)'
  BY <1>1, <1>4 DEF GateInv, Claims, Known
<1>5. ASSUME NEW q \in Requests, At(q, {"insert", "commit"})
      PROVE  GenderFits(req[q].form, req[q].gender)'
  BY <1>1, <1>2, <1>4, <1>5 DEF GateInv, Claims, Known, GenderFits
<1> QED BY <1>3, <1>4, <1>5 DEF Claims, At

LEMMA ClaimsStep ==
  ASSUME GateInv, Next
  PROVE  Claims'
<1>1. ASSUME NEW g \in Guests, NEW gender \in Genders, StoreGuest(g, gender)
      PROVE  Claims'
  BY <1>1, ClaimsGuests DEF StoreGuest, GateInv, Shapes
<1>2. CASE Tick
  BY <1>2, ClaimsGuests DEF Tick, Left, GateInv, Shapes
<1> QED BY <1>1, <1>2, ClaimsCount, ClaimsExpire, ClaimsTakeGender, ClaimsLookUp, ClaimsCommit
        DEF Next

-----------------------------------------------------------------------------
(* Every step keeps contacts apart.                                        *)

\* Nobody comes to the commit, and no row is inserted.
LEMMA ApartKept ==
  ASSUME GateInv, accounts' = accounts,
         \A q \in Requests : At(q, {"commit"})' =>
           At(q, {"commit"}) /\ req'[q].form = req[q].form
  PROVE  Apart'
BY DEF GateInv, Apart

LEMMA ApartInsert ==
  ASSUME GateInv, NEW r \in Requests, Insert(r)
  PROVE  Apart'
<1>1. CASE Done(r)
  <2>1. \A q \in Requests : req'[q] = IF q = r THEN Idle ELSE req[q]
    BY <1>1 DEF Done, GateInv, Shapes
  <2> QED BY <2>1, ApartKept DEF Insert, At, Idle
<1>2. CASE ~Done(r)
  <2>1. /\ To(r, "commit") /\ accounts' = accounts
        /\ Holders(accounts, req[r].form.contacts) = {}
        /\ Settled(req[r].form.contacts)
    BY <1>2 DEF Insert
  <2>2. req[r] \in Registering /\ At(r, {"insert"})
    BY Places DEF Insert, GateInv
  <2>3. req'[r].form = req[r].form /\ \A q \in Requests \ {r} : req'[q] = req[q]
    BY <2>1, <2>2 DEF To, GateInv, Shapes, Registering
  <2>4. \A a \in accounts : a.contacts \cap req[r].form.contacts = {}
    BY <2>1 DEF Holders
  <2>5. \A q \in Requests : At(q, {"commit"}) =>
          req[q].form.contacts \cap req[r].form.contacts = {}
    BY <2>1 DEF Settled, Holders, Inserted
  <2>6. ASSUME NEW p \in Requests, At(p, {"commit"})'
        PROVE  /\ \A a \in accounts' : a.contacts \cap req'[p].form.contacts = {}
               /\ \A q \in Requests \ {p} : At(q, {"commit"})' =>
                    req'[q].form.contacts \cap req'[p].form.contacts = {}
    BY <2>1, <2>3, <2>4, <2>5, <2>6 DEF GateInv, Apart, At
  <2> QED BY <2>1, <2>6 DEF GateInv, Apart
<1> QED BY <1>1, <1>2

LEMMA ApartCommit ==
  ASSUME GateInv, NEW r \in Requests, Commit(r)
  PROVE  Apart'
<1> DEFINE n == NewRow(r)
<1>1. accounts' = accounts \cup {n}
  BY DEF Commit, NewRow
<1>2. \A q \in Requests : req'[q] = IF q = r THEN Idle ELSE req[q]
  BY DEF Commit, Done, GateInv, Shapes
<1>3. n.contacts = req[r].form.contacts /\ At(r, {"commit"})
  BY DEF Commit, NewRow
<1> HIDE DEF n
<1>4. \A q \in Requests : At(q, {"commit"})' => q # r /\ At(q, {"commit"}) /\ req'[q] = req[q]
  BY <1>2 DEF At, Idle
<1>5. \A a, b \in accounts' : a # b => a.contacts \cap b.contacts = {}
  BY <1>1, <1>3 DEF GateInv, Apart
<1>6. ASSUME NEW p \in Requests, At(p, {"commit"})'
      PROVE  /\ \A a \in accounts' : a.contacts \cap req'[p].form.contacts = {}
             /\ \A q \in Requests \ {p} : At(q, {"commit"})' =>
                  req'[q].form.contacts \cap req'[p].form.contacts = {}
  BY <1>1, <1>3, <1>4, <1>6 DEF GateInv, Apart
<1> QED BY <1>5, <1>6 DEF Apart

LEMMA ApartStep ==
  ASSUME GateInv, Next
  PROVE  Apart'
<1>1. ASSUME NEW r \in Requests, NEW form \in Form, Count(r, form)
      PROVE  Apart'
  <2>1. PICK x \in {Idle, Behind(form), [at |-> "expire", form |-> form]} :
          req' = [req EXCEPT ![r] = x]
    BY <1>1 DEF Count
  <2>2. \A q \in Requests : req'[q] = IF q = r THEN x ELSE req[q]
    BY <2>1 DEF GateInv, Shapes
  <2>3. x.at # "commit"
    BY <2>1, BehindType DEF Idle
  <2> QED BY <1>1, <2>2, <2>3, ApartKept DEF Count, At
<1>2. ASSUME NEW r \in Requests, Expire(r)
      PROVE  Apart'
  <2>1. \A q \in Requests : req'[q] = IF q = r THEN Behind(req[r].form) ELSE req[q]
    BY <1>2 DEF Expire, GateInv, Shapes
  <2>2. Behind(req[r].form).at # "commit"
    BY <1>2, BehindType, Places DEF Expire, GateInv, Waiting
  <2> QED BY <1>2, <2>1, <2>2, ApartKept DEF Expire, At
<1>3. ASSUME NEW r \in Requests, LookUp(r) \/ TakeGender(r) \/ Die(r)
      PROVE  Apart'
  <2>1. \A q \in Requests : At(q, {"commit"})' =>
          At(q, {"commit"}) /\ req'[q].form = req[q].form
    <3>1. PICK x : req' = [req EXCEPT ![r] = x] /\ x.at # "commit"
      <4>1. CASE Done(r)
        <5>1. Idle.at # "commit"
          BY DEF Idle
        <5> QED BY <4>1, <5>1 DEF Done
      <4>2. CASE LookUp(r) /\ ~Done(r)
        <5>1. PICK c \in req[r].todo : req' = [req EXCEPT ![r].todo = @ \ {c}]
          BY <4>2 DEF LookUp
        <5>2. [req[r] EXCEPT !.todo = @ \ {c}].at = "look"
          BY <4>2, Places DEF LookUp, GateInv, Registering, At
        <5> QED BY <5>1, <5>2
      <4>3. CASE TakeGender(r)
        <5>1. [req[r] EXCEPT !.at = "insert",
                             !.gender = GuestGender(req[r].form.guest)].at = "insert"
          BY <4>3, Places DEF TakeGender, GateInv, Registering, At
        <5> QED BY <4>3, <5>1 DEF TakeGender
      <4> QED BY <1>3, <4>1, <4>2, <4>3 DEF Die
    <3>2. \A q \in Requests : req'[q] = IF q = r THEN x ELSE req[q]
      BY <3>1 DEF GateInv, Shapes
    <3> QED BY <3>1, <3>2 DEF At
  <2> QED BY <1>3, <2>1, ApartKept DEF LookUp, TakeGender, Die
<1>4. ASSUME NEW g \in Guests, NEW gender \in Genders, StoreGuest(g, gender)
      PROVE  Apart'
  BY <1>4, ApartKept DEF StoreGuest, At
<1>5. CASE Tick
  BY <1>5, ApartKept DEF Tick, At
<1> QED BY <1>1, <1>2, <1>3, <1>4, <1>5, ApartInsert, ApartCommit DEF Next

-----------------------------------------------------------------------------
(***************************************************************************)
(* Sums.  SumFunction is a fold, in the order of a CHOOSE: it is as many   *)
(* as f[i] marks for each i, and those can be counted in any order.        *)
(***************************************************************************)

\* A smallest of a set of finite sets, and the least of a set of numbers: what
\* inductions below start from.
LEMMA SmallestSet ==
  ASSUME NEW S, IsFiniteSet(S), NEW T \in SUBSET SUBSET S, T # {}
  PROVE  \E s \in T : \A t \in SUBSET s : t # s => t \notin T
<1>1. IsWellFoundedOn(StrictSubsetOrdering(S), SUBSET S)
  BY FS_StrictSubsetOrderingWellFounded, FS_FiniteSubsetsOfFinite, Zenon
<1>2. PICK s \in T : \A t \in T : ~(<<t, s>> \in StrictSubsetOrdering(S))
  BY <1>1, WFMin, Zenon
<1> QED BY <1>2 DEF StrictSubsetOrdering

LEMMA LeastNumber ==
  ASSUME NEW T \in SUBSET Nat, T # {}
  PROVE  \E n \in T : \A m \in T : n <= m
<1>1. PICK top \in T : TRUE
  OBVIOUS
<1> DEFINE up == {0..n : n \in {m \in T : m <= top}}
<1>2. IsFiniteSet(0..top)
  BY <1>1, FS_Interval
<1>a. up # {} /\ up \in SUBSET SUBSET (0..top)
  <2>1. 0..top \in up
    BY <1>1
  <2>2. ASSUME NEW n \in T, n <= top PROVE 0..n \subseteq 0..top
    BY <2>2
  <2> QED BY <2>1, <2>2
<1>b. \A u \in up : \E n \in T : n <= top /\ u = 0..n
  OBVIOUS
<1>c. \A n \in T : n <= top => 0..n \in up
  OBVIOUS
<1> HIDE DEF up
<1>3. PICK s \in up : \A t \in SUBSET s : t # s => t \notin up
  BY <1>2, <1>a, SmallestSet, Zenon
<1>4. PICK n \in T : n <= top /\ s = 0..n
  BY <1>3, <1>b
<1>5. ASSUME NEW m \in T, m < n PROVE FALSE
  <2>1. 0..m \in up /\ 0..m \in SUBSET s /\ 0..m # s
    BY <1>1, <1>4, <1>5, <1>c
  <2> QED BY <1>3, <2>1
<1> QED BY <1>4, <1>5

\* f[i] marks for each i: as many as the sum of f.
Marks(f, s) == {x \in s \X Nat : x[2] \in 1..f[x[1]]}

LEMMA UpTo ==
  ASSUME NEW n \in Nat
  PROVE  IsFiniteSet(1..n) /\ Cardinality(1..n) = n
<1>1. 1 \in Int /\ n \in Int
  OBVIOUS
<1>2. IsFiniteSet(1..n) /\ Cardinality(1..n) = IF 1 > n THEN 0 ELSE n - 1 + 1
  BY <1>1, FS_Interval
<1> QED BY <1>2

LEMMA MarksOfOne ==
  ASSUME NEW D, IsFiniteSet(D), NEW f \in [D -> Nat], NEW s \in SUBSET D, NEW x \in s,
         IsFiniteSet(Marks(f, s \ {x}))
  PROVE  /\ IsFiniteSet(Marks(f, s))
         /\ Cardinality(Marks(f, s)) = f[x] + Cardinality(Marks(f, s \ {x}))
<1> DEFINE one == {x} \X (1..f[x])
<1>1. f[x] \in Nat
  OBVIOUS
<1>2. IsFiniteSet(one) /\ Cardinality(one) = f[x]
  <2>1. /\ IsFiniteSet({x}) /\ Cardinality({x}) = 1
        /\ IsFiniteSet(1..f[x]) /\ Cardinality(1..f[x]) = f[x]
    BY <1>1, FS_Singleton, UpTo, Zenon
  <2>2. IsFiniteSet(one) /\ Cardinality(one) = 1 * f[x]
    BY <2>1, FS_Product
  <2> QED BY <1>1, <2>2
<1>3. Marks(f, s) = one \cup Marks(f, s \ {x})
  BY <1>1 DEF Marks
<1>4. one \cap Marks(f, s \ {x}) = {}
  BY DEF Marks
<1> HIDE DEF one
<1>5. Cardinality(one \cup Marks(f, s \ {x})) =
        Cardinality(one) + Cardinality(Marks(f, s \ {x})) - Cardinality({})
  <2>1. Cardinality(one \cup Marks(f, s \ {x})) =
          Cardinality(one) + Cardinality(Marks(f, s \ {x}))
            - Cardinality(one \cap Marks(f, s \ {x}))
    BY <1>2, FS_Union, Zenon
  <2> QED BY <1>4, <2>1
<1>6. Cardinality(Marks(f, s \ {x})) \in Nat
  BY FS_CardinalityType
<1>7. IsFiniteSet(one \cup Marks(f, s \ {x}))
  BY <1>2, FS_Union
<1> QED BY <1>1, <1>2, <1>3, <1>5, <1>6, <1>7, FS_EmptySet

LEMMA MarksAreFinite ==
  ASSUME NEW D, IsFiniteSet(D), NEW f \in [D -> Nat]
  PROVE  \A s \in SUBSET D : IsFiniteSet(Marks(f, s))
<1> DEFINE bad == {s \in SUBSET D : ~IsFiniteSet(Marks(f, s))}
<1> SUFFICES ASSUME bad # {} PROVE FALSE
  OBVIOUS
<1>1. PICK s \in bad : \A t \in SUBSET s : t # s => t \notin bad
  <2>1. bad \in SUBSET SUBSET D
    OBVIOUS
  <2> HIDE DEF bad
  <2> QED BY <2>1, SmallestSet, Zenon
<1>2. CASE s = {}
  <2>1. Marks(f, s) = {}
    BY <1>2 DEF Marks
  <2> QED BY <2>1, FS_EmptySet
<1>3. CASE s # {}
  <2>1. PICK x \in s : TRUE
    BY <1>3
  <2>2. IsFiniteSet(Marks(f, s \ {x}))
    BY <1>1, <2>1
  <2> QED BY <2>1, <2>2, MarksOfOne
<1> QED BY <1>2, <1>3

LEMMA MarksAdd ==
  ASSUME NEW D, IsFiniteSet(D), NEW f \in [D -> Nat]
  PROVE  \A s \in SUBSET D : \A x \in s :
           Cardinality(Marks(f, s)) = f[x] + Cardinality(Marks(f, s \ {x}))
<1> TAKE s \in SUBSET D
<1> TAKE x \in s
<1>1. IsFiniteSet(Marks(f, s \ {x}))
  BY MarksAreFinite
<1> QED BY <1>1, MarksOfOne

LEMMA SumCountsMarks ==
  ASSUME NEW D, IsFiniteSet(D), NEW f \in [D -> Nat]
  PROVE  SumFunction(f) = Cardinality(Marks(f, D))
<1> DEFINE pick(s) == CHOOSE x \in s : TRUE
           Next1(g) == [s \in SUBSET D |-> IF s = {} THEN 0 ELSE f[pick(s)] + g[s \ {pick(s)}]]
           count == [s \in SUBSET D |-> Cardinality(Marks(f, s))]
           iter == CHOOSE g : g = Next1(g)
<1>1. SumFunction(f) = iter[D]
  BY DEF SumFunction, SumFunctionOnSet, FoldFunctionOnSet, MapThenFoldSet
<1>2. ASSUME NEW s \in SUBSET D
      PROVE  /\ s = {} => Cardinality(Marks(f, s)) = 0
             /\ s # {} => Cardinality(Marks(f, s)) =
                            f[pick(s)] + Cardinality(Marks(f, s \ {pick(s)}))
  <2>1. s = {} => Marks(f, s) = {}
    BY DEF Marks
  <2>2. s # {} => pick(s) \in s
    OBVIOUS
  <2>3. \A x \in s : Cardinality(Marks(f, s)) = f[x] + Cardinality(Marks(f, s \ {x}))
    BY MarksAdd
  <2> QED BY <2>1, <2>2, <2>3, FS_EmptySet
<1>3. count = Next1(count)
  BY <1>2
<1>4. iter = Next1(iter)
  BY <1>3
<1> HIDE DEF iter
<1>5. \A s \in SUBSET D : iter[s] = count[s]
  <2> DEFINE bad == {s \in SUBSET D : iter[s] # count[s]}
  <2> SUFFICES ASSUME bad # {} PROVE FALSE
    OBVIOUS
  <2>1. PICK s \in bad : \A t \in SUBSET s : t # s => t \notin bad
    <3>1. bad \in SUBSET SUBSET D
      OBVIOUS
    <3> HIDE DEF bad
    <3> QED BY <3>1, SmallestSet, Zenon
  <2>2. s # {}
    BY <1>3, <1>4
  <2>3. pick(s) \in s
    BY <2>2
  <2>4. iter[s \ {pick(s)}] = count[s \ {pick(s)}]
    BY <2>1, <2>3
  <2>5. /\ iter[s] = f[pick(s)] + iter[s \ {pick(s)}]
        /\ count[s] = f[pick(s)] + count[s \ {pick(s)}]
    BY <1>3, <1>4, <2>2
  <2> QED BY <2>4, <2>5
<1> QED BY <1>1, <1>5

\* The sum of f is the last of its partial sums.
PartialSums(f, n, p) == /\ p \in [0..n -> Nat]
                        /\ p[0] = 0
                        /\ \A i \in 1..n : p[i] = p[i - 1] + f[i]

LEMMA PartialSumCounts ==
  ASSUME NEW n \in Nat, NEW D, D = 1..n, IsFiniteSet(D), NEW f \in [D -> Nat],
         NEW p, PartialSums(f, n, p)
  PROVE  \A i \in 0..n : Cardinality(Marks(f, 1..i)) = p[i]
<1> DEFINE bad == {i \in 0..n : Cardinality(Marks(f, 1..i)) # p[i]}
<1> SUFFICES ASSUME bad # {} PROVE FALSE
  OBVIOUS
<1>1. PICK i \in bad : \A j \in bad : i <= j
  <2>1. bad \in SUBSET Nat
    OBVIOUS
  <2> HIDE DEF bad
  <2> QED BY <2>1, LeastNumber, Zenon
<1>2. CASE i = 0
  <2>1. Marks(f, 1..0) = {}
    BY DEF Marks
  <2> QED BY <1>2, <2>1, FS_EmptySet DEF PartialSums
<1>3. CASE i # 0
  <2>1. i \in 1..n /\ i - 1 \in 0..n /\ i - 1 \notin bad
    BY <1>1, <1>3
  <2>2. PICK s \in SUBSET D : s = 1..i
    BY <2>1
  <2>3. i \in s /\ s \ {i} = 1..(i - 1)
    BY <2>1, <2>2
  <2>4. Cardinality(Marks(f, s)) = f[i] + Cardinality(Marks(f, s \ {i}))
    BY <2>3, MarksAdd
  <2>5. Cardinality(Marks(f, 1..i)) # p[i] /\ Cardinality(Marks(f, 1..(i - 1))) = p[i - 1]
    BY <2>1
  <2>6. p[i] = p[i - 1] + f[i] /\ p[i - 1] \in Nat /\ f[i] \in Nat
    BY <2>1 DEF PartialSums
  <2>7. Cardinality(Marks(f, s)) # p[i] /\ Cardinality(Marks(f, s \ {i})) = p[i - 1]
    BY <2>2, <2>3, <2>5, Zenon
  <2> QED BY <2>4, <2>6, <2>7
<1> QED BY <1>2, <1>3

LEMMA LastPartialSum ==
  ASSUME NEW n \in Nat, NEW f \in [1..n -> Nat], NEW p, PartialSums(f, n, p)
  PROVE  SumFunction(f) = p[n]
<1> DEFINE D == 1..n
<1>1. IsFiniteSet(D) /\ D = 1..n /\ f \in [D -> Nat]
  BY UpTo
<1>2. n \in 0..n
  OBVIOUS
<1> HIDE DEF D
<1>3. Cardinality(Marks(f, D)) = p[n]
  <2>1. Cardinality(Marks(f, 1..n)) = p[n]
    BY <1>1, <1>2, PartialSumCounts
  <2> QED BY <1>1, <2>1
<1>4. SumFunction(f) = Cardinality(Marks(f, D))
  BY <1>1, SumCountsMarks
<1> QED BY <1>3, <1>4

-----------------------------------------------------------------------------
(* What a window of the limiter has seen.                                  *)

\* What the last n ticks (f, of which p are the partial sums) have admitted, for
\* a counter of h hits and an expiry t.  A request is counted in the tick it came
\* in.  Of a counter that lives, there is a last tick since which its requests
\* came (o, counted from now; n + 1 if that is too long ago): those are no more
\* than counted and let in, and fewer without the tick of the first; those before
\* belonged to the life before, the first of which is no longer seen.  An expiry
\* was set no earlier than the first request came.
Least(a, b) == IF a <= b THEN a ELSE b

Lives(h, t, limit, n, p, o) ==
  IF h = 0 THEN p[1] = 0 /\ p[n] < limit
  ELSE /\ o \in 1..n + 1
       /\ p[o - 1] < Least(h, limit)
       /\ o <= n => p[o] <= Least(h, limit) /\ p[n] - p[o] < limit
       /\ t > 0 => o + t > n

InWindow(h, t, limit, n, f) ==
  \E p, o : PartialSums(f, n, p) /\ Lives(h, t, limit, n, p, o)

Windows == \A k \in Keys : /\ admitted[k] \in [1..Window[k] -> Nat]
                           /\ InWindow(hits[k], ttl[k], Limit[k], Window[k], admitted[k])

\* A request more in this tick.
LEMMA SumsCount ==
  ASSUME NEW n \in Nat \ {0}, NEW f \in [1..n -> Nat], NEW p, PartialSums(f, n, p)
  PROVE  PartialSums([f EXCEPT ![1] = @ + 1], n, [i \in 0..n |-> IF i = 0 THEN 0 ELSE p[i] + 1])
<1> DEFINE g == [f EXCEPT ![1] = @ + 1]
           q == [i \in 0..n |-> IF i = 0 THEN 0 ELSE p[i] + 1]
<1>1. q \in [0..n -> Nat] /\ q[0] = 0
  BY DEF PartialSums
<1>2. ASSUME NEW i \in 1..n
      PROVE  q[i] = q[i - 1] + g[i]
  <2>1. /\ i \in 0..n /\ i - 1 \in 0..n
        /\ p[i] = p[i - 1] + f[i] /\ p[i - 1] \in Nat /\ p[0] = 0 /\ f[i] \in Nat
    BY DEF PartialSums
  <2>2. g[i] = IF i = 1 THEN f[i] + 1 ELSE f[i]
    OBVIOUS
  <2>3. q[i] = p[i] + 1 /\ q[i - 1] = IF i = 1 THEN 0 ELSE p[i - 1] + 1
    BY <2>1
  <2> HIDE DEF g, q
  <2> QED BY <2>1, <2>2, <2>3
<1> QED BY <1>1, <1>2 DEF PartialSums

\* The next tick.
LEMMA SumsTick ==
  ASSUME NEW n \in Nat \ {0}, NEW f \in [1..n -> Nat], NEW p, PartialSums(f, n, p)
  PROVE  PartialSums([i \in 1..n |-> IF i = 1 THEN 0 ELSE f[i - 1]], n,
                     [i \in 0..n |-> IF i = 0 THEN 0 ELSE p[i - 1]])
<1> DEFINE g == [i \in 1..n |-> IF i = 1 THEN 0 ELSE f[i - 1]]
           q == [i \in 0..n |-> IF i = 0 THEN 0 ELSE p[i - 1]]
<1>1. q \in [0..n -> Nat] /\ q[0] = 0
  BY DEF PartialSums
<1>2. ASSUME NEW i \in 1..n
      PROVE  q[i] = q[i - 1] + g[i]
  <2>1. CASE i = 1
    <3>1. q[1] = p[0] /\ q[0] = 0 /\ g[1] = 0 /\ p[0] = 0
      BY DEF PartialSums
    <3> QED BY <2>1, <3>1
  <2>2. CASE i # 1
    <3>1. i - 1 \in 1..n /\ i - 1 \in 0..n /\ i \in 0..n /\ i - 1 # 0
      BY <2>2
    <3>2. p[i - 1] = p[i - 1 - 1] + f[i - 1]
      BY <3>1 DEF PartialSums
    <3>3. q[i] = p[i - 1] /\ q[i - 1] = p[i - 1 - 1] /\ g[i] = f[i - 1]
      BY <2>2, <3>1
    <3> QED BY <3>2, <3>3
  <2> QED BY <2>1, <2>2
<1> QED BY <1>1, <1>2 DEF PartialSums

LEMMA SumsAre ==
  ASSUME NEW n \in Nat \ {0}, NEW f \in [1..n -> Nat], NEW p, PartialSums(f, n, p)
  PROVE  /\ p[0] = 0
         /\ \A i \in 0..n : p[i] \in Nat
         /\ \A i \in 1..n : p[i - 1] <= p[i]
<1>1. p[0] = 0 /\ \A i \in 0..n : p[i] \in Nat
  BY DEF PartialSums
<1>2. ASSUME NEW i \in 1..n PROVE p[i - 1] <= p[i]
  <2>1. i - 1 \in 0..n /\ f[i] \in Nat /\ p[i] = p[i - 1] + f[i]
    BY DEF PartialSums
  <2> QED BY <1>1, <2>1
<1> QED BY <1>1, <1>2

\* The first request of a life, and one more of it.
LEMMA WindowOpens ==
  ASSUME NEW n \in Nat \ {0}, NEW f \in [1..n -> Nat], NEW limit \in Nat \ {0},
         InWindow(0, 0, limit, n, f)
  PROVE  InWindow(1, 0, limit, n, [f EXCEPT ![1] = @ + 1])
<1>1. PICK p, o : PartialSums(f, n, p) /\ Lives(0, 0, limit, n, p, o)
  BY DEF InWindow
<1> DEFINE q == [i \in 0..n |-> IF i = 0 THEN 0 ELSE p[i] + 1]
<1>2. PartialSums([f EXCEPT ![1] = @ + 1], n, q)
  BY <1>1, SumsCount
<1>3. /\ q[1 - 1] = 0 /\ q[1] = p[1] + 1 /\ q[n] = p[n] + 1
      /\ n \in 0..n /\ p[1] = 0 /\ p[n] < limit /\ p[n] \in Nat
  BY <1>1, SumsAre DEF Lives
<1> HIDE DEF q
<1>4. Lives(1, 0, limit, n, q, 1)
  BY <1>3 DEF Lives, Least
<1> QED BY <1>2, <1>4 DEF InWindow

LEMMA WindowCounts ==
  ASSUME NEW n \in Nat \ {0}, NEW f \in [1..n -> Nat], NEW limit \in Nat \ {0},
         NEW h \in Nat \ {0}, NEW t \in Nat, InWindow(h, t, limit, n, f)
  PROVE  /\ h + 1 <= limit => InWindow(h + 1, t, limit, n, [f EXCEPT ![1] = @ + 1])
         /\ h + 1 > limit => InWindow(h + 1, t, limit, n, f)
<1>1. PICK p, o : PartialSums(f, n, p) /\ Lives(h, t, limit, n, p, o)
  BY DEF InWindow
<1>2. /\ o \in 1..n + 1 /\ p[o - 1] < Least(h, limit)
      /\ o <= n => p[o] <= Least(h, limit) /\ p[n] - p[o] < limit
      /\ t > 0 => o + t > n
      /\ p[o - 1] \in Nat /\ p[n] \in Nat /\ (o <= n => p[o] \in Nat)
  <2>1. Lives(h, t, limit, n, p, o) /\ \A i \in 0..n : p[i] \in Nat
    BY <1>1, SumsAre
  <2>2. o \in 1..n + 1
    BY <2>1 DEF Lives
  <2>3. o - 1 \in 0..n /\ n \in 0..n /\ (o <= n => o \in 0..n)
    BY <2>2
  <2> QED BY <2>1, <2>2, <2>3 DEF Lives
<1>3. CASE h + 1 <= limit
  <2> DEFINE q == [i \in 0..n |-> IF i = 0 THEN 0 ELSE p[i] + 1]
  <2>1. PartialSums([f EXCEPT ![1] = @ + 1], n, q)
    BY <1>1, SumsCount
  <2>2. /\ q[o - 1] <= p[o - 1] + 1 /\ q[o - 1] \in Nat
        /\ q[n] = p[n] + 1 /\ (o <= n => q[o] = p[o] + 1)
    BY <1>2
  <2> HIDE DEF q
  <2>3. Least(h, limit) = h /\ Least(h + 1, limit) = h + 1
    BY <1>3 DEF Least
  <2>4. q[o - 1] < h + 1
    BY <1>2, <2>2, <2>3
  <2>5. o <= n => q[o] <= h + 1 /\ q[n] - q[o] < limit
    BY <1>2, <2>2, <2>3
  <2>6. Lives(h + 1, t, limit, n, q, o)
    BY <1>2, <2>3, <2>4, <2>5 DEF Lives
  <2> QED BY <1>3, <2>1, <2>6 DEF InWindow
<1>4. CASE h + 1 > limit
  <2>1. Least(h, limit) <= Least(h + 1, limit) /\ Least(h, limit) \in Nat /\ Least(h + 1, limit) \in Nat
    BY <1>4 DEF Least
  <2>2. Lives(h + 1, t, limit, n, p, o)
    BY <1>2, <2>1 DEF Lives
  <2> QED BY <1>1, <1>4, <2>2 DEF InWindow
<1> QED BY <1>3, <1>4

\* EXPIRE, and the next tick.
LEMMA WindowExpires ==
  ASSUME NEW n \in Nat \ {0}, NEW f \in [1..n -> Nat], NEW limit \in Nat \ {0},
         NEW h \in Nat \ {0}, InWindow(h, 0, limit, n, f)
  PROVE  InWindow(h, n, limit, n, f)
<1>1. PICK p, o : PartialSums(f, n, p) /\ Lives(h, 0, limit, n, p, o)
  BY DEF InWindow
<1>2. o \in 1..n + 1
  BY <1>1 DEF Lives
<1>3. Lives(h, n, limit, n, p, o)
  BY <1>1, <1>2 DEF Lives
<1> QED BY <1>1, <1>3 DEF InWindow

LEMMA WindowMoves ==
  ASSUME NEW n \in Nat \ {0}, NEW f \in [1..n -> Nat], NEW limit \in Nat \ {0},
         NEW h \in Nat, NEW t \in Nat, t > 0 => h > 0, InWindow(h, t, limit, n, f)
  PROVE  InWindow(IF t = 1 THEN 0 ELSE h, Left(t), limit, n,
                  [i \in 1..n |-> IF i = 1 THEN 0 ELSE f[i - 1]])
<1>1. PICK p, o : PartialSums(f, n, p) /\ Lives(h, t, limit, n, p, o)
  BY DEF InWindow
<1> DEFINE q == [i \in 0..n |-> IF i = 0 THEN 0 ELSE p[i - 1]]
           g == [i \in 1..n |-> IF i = 1 THEN 0 ELSE f[i - 1]]
<1>2. PartialSums(g, n, q)
  BY <1>1, SumsTick
<1>3. /\ q[0] = 0 /\ q[1] = 0 /\ q[n] \in Nat /\ p[n] \in Nat /\ q[n] <= p[n]
      /\ q[n] = p[n - 1] /\ \A i \in 1..n : q[i] = p[i - 1]
      /\ \A i \in 0..n : p[i] \in Nat
  <2>1. p[0] = 0 /\ p[n - 1] <= p[n] /\ \A i \in 0..n : p[i] \in Nat
    BY <1>1, SumsAre
  <2> QED BY <2>1
<1>4. CASE h = 0
  <2>1. p[n] < limit /\ t = 0
    BY <1>1, <1>4 DEF Lives
  <2>2. Lives(0, 0, limit, n, q, 1)
    BY <1>3, <2>1 DEF Lives
  <2> QED BY <1>2, <1>4, <2>1, <2>2 DEF InWindow, Left
<1>5. CASE h # 0
  <2>1. /\ o \in 1..n + 1 /\ p[o - 1] < Least(h, limit)
        /\ o <= n => p[o] <= Least(h, limit) /\ p[n] - p[o] < limit
        /\ t > 0 => o + t > n
        /\ Least(h, limit) <= limit /\ Least(h, limit) \in Nat
    BY <1>1, <1>5 DEF Lives, Least
  <2>2. p[o - 1] \in Nat /\ (o <= n => p[o] \in Nat)
    BY <1>3, <2>1
  <2>3. CASE t = 1
    <3>1. o = n \/ o = n + 1
      BY <2>1, <2>3
    <3>2. p[n - 1] = p[o - 1] \/ p[n] = p[o - 1]
      <4>1. o = n + 1 => o - 1 = n
        OBVIOUS
      <4> QED BY <3>1, <4>1
    <3>3. p[o - 1] < limit
      BY <2>1, <2>2
    <3>4. q[n] < limit
      BY <1>3, <2>2, <3>2, <3>3
    <3>5. Lives(0, 0, limit, n, q, 1)
      BY <1>3, <3>4 DEF Lives
    <3>6. Left(t) = 0
      BY <2>3 DEF Left
    <3> QED BY <1>2, <2>3, <3>5, <3>6 DEF InWindow
  <2>4. CASE t # 1
    <3> DEFINE u == IF o <= n THEN o + 1 ELSE n + 1
    <3>1. u \in 1..n + 1 /\ (t > 0 => u + Left(t) > n)
      BY <2>1, <2>4 DEF Left
    <3>2. q[u - 1] < Least(h, limit)
      <4>1. CASE o <= n
        <5>1. u - 1 = o /\ q[o] = p[o - 1]
          BY <1>3, <2>1, <4>1
        <5> QED BY <2>1, <5>1
      <4>2. CASE o > n
        <5>1. u - 1 = n /\ o - 1 = n
          BY <2>1, <4>2
        <5> QED BY <1>3, <2>1, <2>2, <5>1
      <4> QED BY <2>1, <4>1, <4>2
    <3>3. u <= n => q[u] <= Least(h, limit) /\ q[n] - q[u] < limit
      <4> SUFFICES ASSUME u <= n PROVE q[u] <= Least(h, limit) /\ q[n] - q[u] < limit
        OBVIOUS
      <4>1. o < n /\ u = o + 1 /\ u \in 1..n /\ u - 1 = o
        BY <2>1
      <4>2. q[u] = p[o]
        BY <1>3, <4>1
      <4>3. p[o] <= Least(h, limit) /\ p[n] - p[o] < limit /\ p[o] \in Nat
        BY <2>1, <2>2, <4>1
      <4>4. q[n] \in Nat /\ p[n] \in Nat /\ q[n] <= p[n]
        BY <1>3
      <4> HIDE DEF q, u
      <4> QED BY <4>2, <4>3, <4>4
    <3> HIDE DEF u
    <3>4. Lives(h, Left(t), limit, n, q, u)
      BY <1>5, <3>1, <3>2, <3>3 DEF Lives, Left
    <3> QED BY <1>2, <2>4, <3>4 DEF InWindow
  <2> QED BY <2>3, <2>4
<1> QED BY <1>4, <1>5

LEMMA WindowHolds ==
  ASSUME NEW n \in Nat \ {0}, NEW f \in [1..n -> Nat], NEW limit \in Nat \ {0},
         NEW h \in Nat, NEW t \in Nat, InWindow(h, t, limit, n, f)
  PROVE  SumFunction(f) < 2 * limit
<1>1. PICK p, o : PartialSums(f, n, p) /\ Lives(h, t, limit, n, p, o)
  BY DEF InWindow
<1>2. SumFunction(f) = p[n] /\ \A i \in 0..n : p[i] \in Nat
  BY <1>1, LastPartialSum, SumsAre
<1>3. p[n] \in Nat
  BY <1>2
<1>4. CASE h = 0
  BY <1>1, <1>2, <1>3, <1>4 DEF Lives
<1>5. CASE h # 0
  <2>1. /\ o \in 1..n + 1 /\ p[o - 1] < limit
        /\ o <= n => p[o] <= limit /\ p[n] - p[o] < limit
    <3>1. o - 1 \in 0..n /\ (o <= n => o \in 0..n) /\ o \in 1..n + 1
      BY <1>1, <1>5 DEF Lives
    <3> QED BY <1>1, <1>2, <1>5, <3>1 DEF Lives, Least
  <2>2. CASE o <= n
    <3>1. p[o] \in Nat
      BY <1>2, <2>1, <2>2
    <3> QED BY <1>2, <1>3, <2>1, <2>2, <3>1
  <2>3. CASE o > n
    <3>1. o - 1 = n
      BY <2>1, <2>3
    <3> QED BY <1>2, <1>3, <2>1, <3>1
  <2> QED BY <2>1, <2>2, <2>3
<1> QED BY <1>4, <1>5

\* Every step keeps the windows.  Only a request and the expiry of a counter
\* change what is counted, and only time moves it.
LEMMA CountersAre ==
  ASSUME GateInv, NEW k \in Keys
  PROVE  /\ hits[k] \in Nat /\ ttl[k] \in Nat
         /\ Limit[k] \in Nat \ {0} /\ Window[k] \in Nat \ {0}
         /\ ttl[k] > 0 => hits[k] > 0
  BY GateAssumption DEF GateInv, Shapes, Openers

WindowsInv == /\ DOMAIN admitted = Keys
              /\ Windows

LEMMA WindowsInit == Init => WindowsInv
<1> SUFFICES ASSUME Init PROVE WindowsInv
  OBVIOUS
<1>1. ASSUME NEW k \in Keys
      PROVE  /\ admitted[k] \in [1..Window[k] -> Nat]
             /\ InWindow(hits[k], ttl[k], Limit[k], Window[k], admitted[k])
  <2> DEFINE n == Window[k]
             p == [i \in 0..n |-> 0]
  <2>1. /\ n \in Nat \ {0} /\ Limit[k] \in Nat \ {0}
        /\ hits[k] = 0 /\ ttl[k] = 0 /\ admitted[k] = [i \in 1..n |-> 0]
    BY GateAssumption DEF Init
  <2> HIDE DEF n
  <2>2. PartialSums([i \in 1..n |-> 0], n, p)
    BY <2>1 DEF PartialSums
  <2>3. Lives(0, 0, Limit[k], n, p, 1)
    BY <2>1 DEF Lives
  <2>4. InWindow(0, 0, Limit[k], n, [i \in 1..n |-> 0])
    BY <2>2, <2>3 DEF InWindow
  <2> QED BY <2>1, <2>4 DEF n
<1>2. DOMAIN admitted = Keys
  BY DEF Init
<1> QED BY <1>1, <1>2 DEF WindowsInv, Windows

LEMMA WindowsCount ==
  ASSUME GateInv, WindowsInv, NEW r \in Requests, NEW form \in Form, Count(r, form)
  PROVE  WindowsInv'
<1> DEFINE k == form.key
           more == [admitted[k] EXCEPT ![1] = @ + 1]
<1>1. k \in Keys
  BY Forms
<1>2. /\ hits' = [hits EXCEPT ![k] = hits[k] + 1] /\ ttl' = ttl
      /\ admitted' = IF hits[k] + 1 <= Limit[k] THEN [admitted EXCEPT ![k][1] = @ + 1]
                     ELSE admitted
  BY DEF Count, Passes
<1>3. /\ hits[k] \in Nat /\ ttl[k] \in Nat /\ (ttl[k] > 0 => hits[k] > 0)
      /\ Limit[k] \in Nat \ {0} /\ Window[k] \in Nat \ {0}
  BY <1>1, CountersAre
<1>4. /\ admitted[k] \in [1..Window[k] -> Nat]
      /\ InWindow(hits[k], ttl[k], Limit[k], Window[k], admitted[k])
  BY <1>1 DEF WindowsInv, Windows
<1>5. /\ DOMAIN admitted' = Keys
      /\ \A j \in Keys \ {k} : /\ hits'[j] = hits[j] /\ ttl'[j] = ttl[j]
                               /\ admitted'[j] = admitted[j]
      /\ hits'[k] = hits[k] + 1 /\ ttl'[k] = ttl[k]
      /\ admitted'[k] = IF hits[k] + 1 <= Limit[k] THEN more ELSE admitted[k]
  BY <1>1, <1>2 DEF GateInv, Shapes, WindowsInv
<1>6. more \in [1..Window[k] -> Nat]
  BY <1>3, <1>4
<1>7. CASE hits[k] = 0
  <2>1. ttl[k] = 0 /\ 1 <= Limit[k]
    BY <1>3, <1>7
  <2>2. InWindow(1, 0, Limit[k], Window[k], more)
    BY <1>3, <1>4, <1>7, <2>1, WindowOpens
  <2>3. InWindow(hits'[k], ttl'[k], Limit[k], Window[k], admitted'[k])
    BY <1>5, <1>7, <2>1, <2>2
  <2> HIDE DEF k, more
  <2> QED BY <1>5, <1>6, <1>7, <2>1, <2>3 DEF WindowsInv, Windows
<1>8. CASE hits[k] # 0
  <2>1. hits[k] \in Nat \ {0}
    BY <1>3, <1>8
  <2>2. /\ hits[k] + 1 <= Limit[k] => InWindow(hits[k] + 1, ttl[k], Limit[k], Window[k], more)
        /\ hits[k] + 1 > Limit[k] =>
             InWindow(hits[k] + 1, ttl[k], Limit[k], Window[k], admitted[k])
    BY <1>3, <1>4, <2>1, WindowCounts
  <2>3. hits[k] + 1 <= Limit[k] \/ hits[k] + 1 > Limit[k]
    BY <1>3
  <2> HIDE DEF k, more
  <2>4. InWindow(hits'[k], ttl'[k], Limit[k], Window[k], admitted'[k])
    BY <1>5, <2>2, <2>3
  <2> QED BY <1>4, <1>5, <1>6, <2>4 DEF WindowsInv, Windows
<1> QED BY <1>7, <1>8

LEMMA WindowsExpire ==
  ASSUME GateInv, WindowsInv, NEW r \in Requests, Expire(r)
  PROVE  WindowsInv'
<1> DEFINE k == req[r].form.key
<1>1. k \in Keys /\ hits[k] > 0 /\ ttl[k] = 0
  BY TheOpener DEF Expire
<1>2. /\ \A j \in Keys : ttl'[j] = IF j = k THEN Window[k] ELSE ttl[j]
      /\ hits' = hits /\ admitted' = admitted
  BY <1>1 DEF Expire, GateInv, Shapes
<1>3. /\ hits[k] \in Nat \ {0} /\ Limit[k] \in Nat \ {0} /\ Window[k] \in Nat \ {0}
      /\ admitted[k] \in [1..Window[k] -> Nat]
      /\ InWindow(hits[k], 0, Limit[k], Window[k], admitted[k])
  BY <1>1, CountersAre DEF WindowsInv, Windows
<1> HIDE DEF k
<1>4. InWindow(hits[k], Window[k], Limit[k], Window[k], admitted[k])
  BY <1>3, WindowExpires
<1> QED BY <1>2, <1>4 DEF WindowsInv, Windows

LEMMA WindowsTick ==
  ASSUME GateInv, WindowsInv, Tick
  PROVE  WindowsInv'
<1>1. ASSUME NEW k \in Keys
      PROVE  /\ admitted'[k] \in [1..Window[k] -> Nat]
             /\ InWindow(hits'[k], ttl'[k], Limit[k], Window[k], admitted'[k])
  <2> DEFINE f == [i \in 1..Window[k] |-> IF i = 1 THEN 0 ELSE admitted[k][i - 1]]
  <2>1. /\ hits[k] \in Nat /\ ttl[k] \in Nat /\ (ttl[k] > 0 => hits[k] > 0)
        /\ Limit[k] \in Nat \ {0} /\ Window[k] \in Nat \ {0}
    BY CountersAre
  <2>2. /\ admitted[k] \in [1..Window[k] -> Nat]
        /\ InWindow(hits[k], ttl[k], Limit[k], Window[k], admitted[k])
    BY DEF WindowsInv, Windows
  <2>3. /\ hits'[k] = (IF ttl[k] = 1 THEN 0 ELSE hits[k]) /\ ttl'[k] = Left(ttl[k])
        /\ admitted'[k] = f
    BY DEF Tick
  <2>4. InWindow(IF ttl[k] = 1 THEN 0 ELSE hits[k], Left(ttl[k]), Limit[k], Window[k], f)
    BY <2>1, <2>2, WindowMoves
  <2>5. f \in [1..Window[k] -> Nat]
    <3>1. ASSUME NEW i \in 1..Window[k], i # 1 PROVE admitted[k][i - 1] \in Nat
      <4>1. i - 1 \in 1..Window[k]
        BY <2>1, <3>1
      <4> QED BY <2>2, <4>1
    <3> QED BY <3>1
  <2> HIDE DEF f
  <2> QED BY <2>3, <2>4, <2>5
<1>2. DOMAIN admitted' = Keys
  BY DEF Tick
<1> QED BY <1>1, <1>2 DEF WindowsInv, Windows

LEMMA WindowsStep ==
  ASSUME GateInv, WindowsInv, [Next]_vars
  PROVE  WindowsInv'
<1>1. ASSUME UNCHANGED <<hits, ttl, admitted>> PROVE WindowsInv'
  BY <1>1 DEF WindowsInv, Windows
<1>2. ASSUME NEW r \in Requests, \/ LookUp(r) \/ TakeGender(r) \/ Insert(r)
                                 \/ Commit(r) \/ Die(r)
      PROVE  UNCHANGED <<hits, ttl, admitted>>
  BY <1>2 DEF LookUp, TakeGender, Insert, Commit, Die, redis
<1>3. ASSUME NEW g \in Guests, NEW gender \in Genders, StoreGuest(g, gender)
      PROVE  UNCHANGED <<hits, ttl, admitted>>
  BY <1>3 DEF StoreGuest, redis
<1>4. UNCHANGED vars => UNCHANGED <<hits, ttl, admitted>>
  BY DEF vars, redis
<1> QED BY <1>1, <1>2, <1>3, <1>4, WindowsCount, WindowsExpire, WindowsTick DEF Next

-----------------------------------------------------------------------------
(* The theorems.                                                           *)

\* What the proof's invariant says of the values, the openers, the claims and the
\* contacts holds in every reachable state of the way in.
THEOREM GateIsSound == Spec => []GateInv
<1>1. Init => GateInv
  BY GateInit
<1>2. ASSUME GateInv, [Next]_vars PROVE GateInv'
  <2>1. CASE Next
    BY <1>2, <2>1, ShapesStep, OpenersStep, ClaimsStep, ApartStep DEF GateInv
  <2>2. CASE UNCHANGED vars
    <3>1. UNCHANGED <<hits, ttl, guests, stated, accounts, req, admitted, marooned>>
      BY <2>2 DEF vars, redis, guestKeys
    <3>2. about' = about
      BY <3>1 DEF about, At
    <3>3. Shapes' /\ Openers'
      BY <1>2, <3>1, <3>2 DEF GateInv, Shapes, Openers
    <3>4. Claims' /\ Apart'
      BY <1>2, <3>1 DEF GateInv, Claims, Apart, Known, GenderFits, At
    <3> QED BY <3>3, <3>4 DEF GateInv
  <2> QED BY <1>2, <2>1, <2>2
<1> QED BY <1>1, <1>2, PTL DEF Spec

\* Every state of the limiter, the guest sessions, the handlers and the accounts
\* has the types of the model, within the limits and lifetimes of the settings.
THEOREM GateTypeCorrect == Spec => []TypeOK
<1>1. ASSUME GateInv PROVE TypeOK
  <2>1. \A k \in Keys : ttl[k] \in 0..Window[k]
    BY <1>1, GateAssumption DEF GateInv, Shapes
  <2>2. ASSUME NEW r \in Requests
        PROVE  \/ req[r] = Idle
               \/ At(r, {"expire"}) /\ req[r].form \in Form
               \/ /\ At(r, {"look", "insert", "commit"}) /\ req[r].form \in Form
                  /\ req[r].todo \subseteq Contacts
    BY <1>1, Forms DEF GateInv, Shapes, Waiting, Registering, At, Inside
  <2> QED BY <1>1, <2>1, <2>2 DEF GateInv, Shapes, TypeOK
<1> QED BY <1>1, GateIsSound, PTL

\* check_rate_limit never leaves a counter that cannot expire, except by a handler
\* that died between INCR and EXPIRE, and never sets an expiry twice: whatever the
\* limits, the windows and the number of handlers.
THEOREM LockoutsComeFromCrashes == Spec => []LockedOutOnlyByCrash
<1>1. ASSUME GateInv, NEW k \in Keys
      PROVE  IF hits[k] > 0 /\ ttl[k] = 0 /\ k \notin marooned
             THEN Cardinality(about[k]) = 1 ELSE about[k] = {}
  BY <1>1, FS_Singleton DEF GateInv, Openers
<1>2. \A k \in Keys : about[k] = {r \in Requests : At(r, {"expire"}) /\ req[r].form.key = k}
  BY DEF about
<1>3. GateInv => LockedOutOnlyByCrash
  BY <1>1, <1>2 DEF LockedOutOnlyByCrash
<1> QED BY <1>3, GateIsSound, PTL

\* However many registrations race, no e-mail or phone comes to two accounts, and
\* an account's gender is what its guest stated, or none if the guest had expired.
THEOREM RegistrationsAreRight == Spec => []AccountsAreRight
<1>1. GateInv => AccountsAreRight
  BY DEF GateInv, Apart, Claims, Known, GenderFits, AccountsAreRight
<1> QED BY <1>1, GateIsSound, PTL

\* What the windows have seen of the lives of their counters, in every state.
THEOREM WindowsAreSound == Spec => []WindowsInv
<1>1. Init => WindowsInv
  BY WindowsInit
<1>2. GateInv /\ WindowsInv /\ [Next]_vars => WindowsInv'
  BY WindowsStep
<1> QED BY <1>1, <1>2, GateIsSound, PTL DEF Spec

\* check_rate_limit lets fewer than twice its limit into any window, wherever the
\* window starts, for every limit, window and number of handlers, and however late
\* a handler sets the expiry or if it never does.
THEOREM TwiceTheLimitIsNotReached == Spec => []FewerThanTwiceTheLimit
<1>1. ASSUME GateInv, WindowsInv, NEW k \in Keys
      PROVE  SumFunction(admitted[k]) < 2 * Limit[k]
  <2>1. /\ hits[k] \in Nat /\ ttl[k] \in Nat
        /\ Limit[k] \in Nat \ {0} /\ Window[k] \in Nat \ {0}
        /\ admitted[k] \in [1..Window[k] -> Nat]
        /\ InWindow(hits[k], ttl[k], Limit[k], Window[k], admitted[k])
    BY <1>1, CountersAre DEF WindowsInv, Windows
  <2> QED BY <2>1, WindowHolds
<1>2. GateInv /\ WindowsInv => FewerThanTwiceTheLimit
  BY <1>1 DEF FewerThanTwiceTheLimit
<1> QED BY <1>2, GateIsSound, WindowsAreSound, PTL
=============================================================================
