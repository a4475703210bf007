-------------------------------- MODULE Gate --------------------------------
(***************************************************************************)
(* The way in: the counters of the rate limiter (rate_limit.py), a guest's *)
(* session in Redis (session.py) and the registration behind them, up to   *)
(* the account's row (auth_service.py).  What a registration does to the   *)
(* guest's likes is in Matching, a login's session in Sessions.            *)
(*                                                                         *)
(* INCR and EXPIRE are two calls of Redis, the SELECTs and the INSERT of a *)
(* registration statements of a READ COMMITTED transaction; between any two *)
(* of them other requests run, time passes, or the handler dies.  The keys *)
(* of different addresses do not meet: there is one address here.          *)
(***************************************************************************)
EXTENDS Integers, FiniteSets, Functions

CONSTANTS Requests,    \* handlers
          Contacts,    \* e-mail addresses and phone numbers
          Guests,      \* uuids of guest sessions
          Genders, Nothing,
          Limit,       \* of each key: rate_limit_login_per_minute, ..._register_per_hour
          Window,      \* window_seconds of each key, in ticks
          GuestTtl,    \* guest_session_ttl_days, in ticks
          MaxHits      \* bound

Keys == {"login", "register"}

ASSUME GateAssumption == /\ Limit \in [Keys -> Nat \ {0}]
                         /\ Window \in [Keys -> Nat \ {0}]
                         /\ GuestTtl \in Nat \ {0}
                         /\ MaxHits \in Nat
                         /\ Nothing \notin Genders /\ Nothing \notin Guests

VARIABLES hits, ttl,    \* Redis: a counter (0: no such key), its expiry (0: none)
          guests,       \* Redis: ticks a guest's session has left (0: no such key)
          stated,       \* the gender in it, remembered
          accounts,     \* committed rows of users
          req,          \* the handlers
          admitted,     \* history: requests let in, by key, in this tick (1), the last (2)...
          marooned      \* history: keys whose handler died before EXPIRE

redis == <<hits, ttl>>
guestKeys == <<guests, stated>>
vars == <<redis, guestKeys, accounts, req, admitted, marooned>>

-----------------------------------------------------------------------------
Form == [key: {"login"}] \cup
        [key: {"register"}, contacts: SUBSET Contacts \ {{}}, guest: Guests \cup {Nothing}]

Idle == [at |-> "idle"]

At(r, places) == req[r].at \in places

To(r, place) == req' = [req EXCEPT ![r].at = place]

Done(r) == req' = [req EXCEPT ![r] = Idle]

\* A request that passed the limiter: a login is over here.
Behind(form) == IF form.key = "login" THEN Idle
                ELSE [at |-> "look", form |-> form, todo |-> form.contacts, gender |-> Nothing]

\* The count for which a key gets its expiry, and those which are let in.
\* The `m...' operators are faulty variants of the one that follows them.
mAtLimit(k, count) == count = Limit[k]

Opens(k, count) == count = 1

mOneMore(k, count) == count <= Limit[k] + 1

Passes(k, count) == count <= Limit[k]

\* Rows of users inserted and not committed, and those which hold a contact.
Inserted == {req[r].form : r \in {q \in Requests : At(q, {"commit"})}}

Holders(rows, contacts) == {a \in rows : a.contacts \cap contacts # {}}

\* The unique indexes of users: an INSERT waits for those it may clash with.
mImpatient(contacts) == TRUE

Settled(contacts) == Holders(Inserted, contacts) = {}

Init == /\ hits = [k \in Keys |-> 0]
        /\ ttl = [k \in Keys |-> 0]
        /\ guests = [g \in Guests |-> 0]
        /\ stated = [g \in Guests |-> Nothing]
        /\ accounts = {}
        /\ req = [r \in Requests |-> Idle]
        /\ admitted = [k \in Keys |-> [i \in 1..Window[k] |-> 0]]
        /\ marooned = {}

-----------------------------------------------------------------------------
(* The limiter.                                                            *)

\* INCR and what follows from its reply.
Count(r, form) ==
  LET k == form.key
      count == hits[k] + 1
  IN /\ At(r, {"idle"})
     /\ count <= MaxHits
     /\ form.key = "register" =>
          form.guest \in {Nothing} \cup {g \in Guests : stated[g] # Nothing}
     /\ hits' = [hits EXCEPT ![k] = count]
     /\ req' = [req EXCEPT ![r] = IF Opens(k, count) THEN [at |-> "expire", form |-> form]
                                  ELSE IF Passes(k, count) THEN Behind(form) ELSE Idle]
     /\ admitted' = IF Passes(k, count) THEN [admitted EXCEPT ![k][1] = @ + 1] ELSE admitted
     /\ UNCHANGED <<ttl, guestKeys, accounts, marooned>>

\* EXPIRE, which does nothing to a key that is not there.
Expire(r) ==
  LET k == req[r].form.key
  IN /\ At(r, {"expire"})
     /\ ttl' = IF hits[k] > 0 THEN [ttl EXCEPT ![k] = Window[k]] ELSE ttl
     /\ req' = [req EXCEPT ![r] = Behind(req[r].form)]
     /\ UNCHANGED <<hits, guestKeys, accounts, admitted, marooned>>

\* Redis drops what has expired.
mBelow(n) == n - 1

Left(n) == IF n = 0 THEN 0 ELSE n - 1

Tick == /\ ttl' = [k \in Keys |-> Left(ttl[k])]
        /\ hits' = [k \in Keys |-> IF ttl[k] = 1 THEN 0 ELSE hits[k]]
        /\ guests' = [g \in Guests |-> Left(guests[g])]
        /\ admitted' = [k \in Keys |->
                          [i \in 1..Window[k] |-> IF i = 1 THEN 0 ELSE admitted[k][i - 1]]]
        /\ UNCHANGED <<stated, accounts, req, marooned>>

-----------------------------------------------------------------------------
(* Guests and registrations.                                               *)

\* A uuid is drawn once; nothing renews the session.
StoreGuest(g, gender) ==
  /\ stated[g] = Nothing
  /\ guests' = [guests EXCEPT ![g] = GuestTtl]
  /\ stated' = [stated EXCEPT ![g] = gender]
  /\ UNCHANGED <<redis, accounts, req, admitted, marooned>>

\* get_guest_session; the guard lets in whom it is not Nothing.
GuestGender(g) == IF g # Nothing /\ guests[g] > 0 THEN stated[g] ELSE Nothing

\* The SELECT for the e-mail, then the one for the phone: 409 if it is taken.
LookUp(r) ==
  /\ At(r, {"look"})
  /\ \E c \in req[r].todo :
        IF Holders(accounts, {c}) # {}
        THEN Done(r)
        ELSE req' = [req EXCEPT ![r].todo = @ \ {c}]
  /\ UNCHANGED <<redis, guestKeys, accounts, admitted, marooned>>

TakeGender(r) ==
  /\ At(r, {"look"})
  /\ req[r].todo = {}
  /\ req' = [req EXCEPT ![r].at = "insert", ![r].gender = GuestGender(req[r].form.guest)]
  /\ UNCHANGED <<redis, guestKeys, accounts, admitted, marooned>>

\* The flush: the unique indexes of users decide, a clash is a 500.
Insert(r) ==
  /\ At(r, {"insert"})
  /\ Settled(req[r].form.contacts)
  /\ IF Holders(accounts, req[r].form.contacts) # {}
     THEN Done(r)
     ELSE To(r, "commit")
  /\ UNCHANGED <<redis, guestKeys, accounts, admitted, marooned>>

Commit(r) ==
  /\ At(r, {"commit"})
  /\ accounts' = accounts \cup {[id |-> Cardinality(accounts), contacts |-> req[r].form.contacts,
                                 guest |-> req[r].form.guest, gender |-> req[r].gender]}
  /\ Done(r)
  /\ UNCHANGED <<redis, guestKeys, admitted, marooned>>

\* The connection or the process goes: the transaction is rolled back, what
\* Redis has been told stays.
Die(r) ==
  /\ ~At(r, {"idle"})
  /\ Done(r)
  /\ marooned' = IF At(r, {"expire"}) THEN marooned \cup {req[r].form.key} ELSE marooned
  /\ UNCHANGED <<redis, guestKeys, accounts, admitted>>

Next == \/ \E r \in Requests :
             \/ \E form \in Form : Count(r, form)
             \/ Expire(r) \/ LookUp(r) \/ TakeGender(r) \/ Insert(r) \/ Commit(r) \/ Die(r)
        \/ \E g \in Guests, gender \in Genders : StoreGuest(g, gender)
        \/ Tick

Spec == Init /\ [][Next]_vars

-----------------------------------------------------------------------------
(* Properties.                                                             *)

Row == [id: Nat, contacts: SUBSET Contacts \ {{}}, guest: Guests \cup {Nothing},
        gender: Genders \cup {Nothing}]

TypeOK == /\ hits \in [Keys -> 0..MaxHits]
          /\ \A k \in Keys : ttl[k] \in 0..Window[k]
          /\ guests \in [Guests -> 0..GuestTtl]
          /\ stated \in [Guests -> Genders \cup {Nothing}]
          /\ accounts \subseteq Row
          /\ \A r \in Requests :
               \/ req[r] = Idle
               \/ At(r, {"expire"}) /\ req[r].form \in Form
               \/ At(r, {"look", "insert", "commit"}) /\ req[r].form \in Form /\ req[r].todo \subseteq Contacts
          /\ marooned \subseteq Keys

\* A counter without an expiry never starts again, and its address stays locked
\* out once the limit is reached: that happens only to keys whose first request
\* died between INCR and EXPIRE.  At any other time exactly one request is about
\* to set the expiry, and with the expiry set nobody is: it is never renewed.
LockedOutOnlyByCrash ==
  \A k \in Keys :
    LET openers == {r \in Requests : At(r, {"expire"}) /\ req[r].form.key = k}
    IN IF hits[k] > 0 /\ ttl[k] = 0 /\ k \notin marooned
       THEN Cardinality(openers) = 1 ELSE openers = {}

\* `rate_limit_login_per_minute' is what one life of the key lets in, and a minute
\* may meet two lives: a window of that length, wherever it starts, sees fewer
\* than twice the limit (the request that opens a life is never in one window
\* with the next life), however slow the handlers are.
FewerThanTwiceTheLimit == \A k \in Keys : SumFunction(admitted[k]) < 2 * Limit[k]

\* However registrations race between SELECT and INSERT: no contact has two
\* accounts; and an account has the gender its guest stated, unless the guest's
\* session expired before it was read.
AccountsAreRight ==
  /\ \A a, b \in accounts : a # b => a.contacts \cap b.contacts = {}
  /\ \A a \in accounts :
       IF a.gender = Nothing THEN a.guest = Nothing \/ guests[a.guest] = 0
       ELSE a.guest # Nothing /\ a.gender = stated[a.guest]
=============================================================================
