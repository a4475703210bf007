------------------------------ MODULE Account ------------------------------
(***************************************************************************)
(* The row of `users' that belongs to one person, and the requests of that *)
(* person that change it: profile (profile_service.py), balance            *)
(* (balance_service.py), second factor (two_factor_service.py), and the    *)
(* seed that runs at every start (seed_service.py).                        *)
(*                                                                         *)
(* A request has a database session of its own.  Its guard loads the row,  *)
(* the handler gets the same object from the session's identity map, and   *)
(* the commit writes the attributes that differ from what was loaded.  So  *)
(* a request is two steps: its handler's action, which loads and checks,   *)
(* and Commit.  A request that is refused changes nothing and is left out. *)
(* The video columns are the business of VideoPipeline.                    *)
(***************************************************************************)
EXTENDS Integers, FiniteSets

CONSTANTS Requests,             \* requests that may be under way at once
          Secrets,              \* TOTP secrets, a bound of the model
          Texts,                \* what an edit may put into a field
          Amounts, MaxBalance,  \* top-ups, the range of an INTEGER column
          MaxPaid,              \* a bound of the model
          Debug,                \* settings.debug
          Demo, DemoText,       \* the row is one of seed_service's, its description
          Blank, Nothing

ASSUME AccountAssumption ==
  /\ Amounts \subseteq Nat \ {0} /\ MaxBalance \in Nat /\ MaxPaid \in Nat
  /\ Blank \in Texts /\ DemoText \in Texts
  /\ Debug \in BOOLEAN /\ Demo \in BOOLEAN
  /\ Nothing \notin Secrets

VARIABLES row,
          op,         \* per request: what it is to do
          loaded,     \* per request: the row as its guard loaded it
          issued,     \* secrets that setup has made
          proven,     \* history: secrets for which enable accepted a code
          paid,       \* history: the sum of the top-ups that were answered
          crossed,    \* history: columns a commit relied on that had changed
          revived     \* history: the seed registered a deleted account again

histories == <<proven, paid, crossed, revived>>
vars == <<row, op, loaded, issued, histories>>

-----------------------------------------------------------------------------
Row == [registered : BOOLEAN, deleted : BOOLEAN, frozen : BOOLEAN,
        balance : 0 .. MaxBalance, enabled : BOOLEAN,
        secret : Secrets \cup {Nothing}, text : Texts]

Op == [kind : {"idle", "freeze", "unfreeze", "delete", "edit", "topup",
               "setup", "enable", "disable"},
       amount : Amounts \cup {0},
       secret : Secrets \cup {Nothing},
       text : Texts]

Plain(kind) == [kind |-> kind, amount |-> 0, secret |-> Nothing, text |-> Blank]

\* Routes behind get_current_actor alone; the others want require_registered.
FactorRoutes == {"setup", "enable", "disable"}

\* The `m...' operators are faulty variants of the one that follows them.

\* require_registered.
mAnyone == TRUE

MayAct == row.registered

\* verify_totp(decrypt_secret(..), code), for a code of secret s.
mAnyCode(s) == row.secret # Nothing

CodeFits(s) == row.secret = s

\* soft_delete_profile.
mStillIn(had) == [had EXCEPT !.deleted = TRUE, !.frozen = TRUE]

Deleted(had) == [had EXCEPT !.deleted = TRUE, !.frozen = TRUE, !.registered = FALSE]

\* user.balance += amount.
mSetTo(had, a) == [had EXCEPT !.balance = a]

ToppedUp(had, a) == [had EXCEPT !.balance = @ + a]

\* What the handler makes of the object it has: `had' is its version of the row.
Edited(o, had) ==
  CASE o.kind = "freeze"   -> [had EXCEPT !.frozen = TRUE]
    [] o.kind = "unfreeze" -> [had EXCEPT !.frozen = FALSE]
    [] o.kind = "delete"   -> Deleted(had)
    [] o.kind = "edit"     -> [had EXCEPT !.text = o.text]
    [] o.kind = "topup"    -> ToppedUp(had, o.amount)
    [] o.kind = "setup"    -> [had EXCEPT !.secret = o.secret]
    [] o.kind = "enable"   -> [had EXCEPT !.enabled = TRUE]
    [] o.kind = "disable"  -> [had EXCEPT !.enabled = FALSE, !.secret = Nothing]

\* The UPDATE names the attributes that the handler has changed.  (disable names
\* its columns itself; both differ from what it has loaded.)
Updated(had, new) ==
  [registered |-> IF new.registered = had.registered THEN row.registered ELSE new.registered,
   deleted    |-> IF new.deleted = had.deleted THEN row.deleted ELSE new.deleted,
   frozen     |-> IF new.frozen = had.frozen THEN row.frozen ELSE new.frozen,
   balance    |-> IF new.balance = had.balance THEN row.balance ELSE new.balance,
   enabled    |-> IF new.enabled = had.enabled THEN row.enabled ELSE new.enabled,
   secret     |-> IF new.secret = had.secret THEN row.secret ELSE new.secret,
   text       |-> IF new.text = had.text THEN row.text ELSE new.text]

\* PostgreSQL refuses an integer that is out of range.
mWide(new) == TRUE

InRange(new) == new.balance <= MaxBalance

\* What a request relied on and somebody has changed since it loaded the row.
Crossings(kind, had) ==
  {c \in {"money"} : kind = "topup" /\ row.balance # had.balance}
  \cup {c \in {"factor"} : /\ kind \in FactorRoutes
                           /\ row.enabled # had.enabled \/ row.secret # had.secret}
  \cup {c \in {"standing"} : /\ kind \in {"freeze", "unfreeze", "delete"}
                             /\ \/ row.registered # had.registered
                                \/ row.frozen # had.frozen}

\* The row that register has inserted.
Registered == [registered |-> TRUE, deleted |-> FALSE, frozen |-> FALSE,
               balance |-> 0, enabled |-> FALSE, secret |-> Nothing,
               text |-> Blank]

Init == /\ row = Registered
        /\ op = [r \in Requests |-> Plain("idle")]
        /\ loaded = [r \in Requests |-> Registered]
        /\ issued = {} /\ proven = {} /\ paid = 0
        /\ crossed = {} /\ revived = FALSE

-----------------------------------------------------------------------------
(* The handlers, up to the commit.                                         *)

Loads(r, o) == /\ op[r].kind = "idle"
               /\ op' = [op EXCEPT ![r] = o]
               /\ loaded' = [loaded EXCEPT ![r] = row]
               /\ UNCHANGED <<row, histories>>

SetProfileFrozen(r, frozen) ==
  /\ MayAct
  /\ Loads(r, Plain(IF frozen THEN "freeze" ELSE "unfreeze"))
  /\ UNCHANGED issued

SoftDeleteProfile(r) == /\ MayAct
                        /\ Loads(r, Plain("delete"))
                        /\ UNCHANGED issued

UpdateProfile(r, t) == /\ MayAct
                       /\ Loads(r, [Plain("edit") EXCEPT !.text = t])
                       /\ UNCHANGED issued

TopUpPreview(r, a) == /\ MayAct
                      /\ Debug
                      /\ paid + a <= MaxPaid
                      /\ Loads(r, [Plain("topup") EXCEPT !.amount = a])
                      /\ UNCHANGED issued

SetupTwoFactor(r, s) == /\ ~row.enabled
                        /\ s \notin issued
                        /\ Loads(r, [Plain("setup") EXCEPT !.secret = s])
                        /\ issued' = issued \cup {s}

EnableTwoFactor(r, s) == /\ CodeFits(s)
                         /\ Loads(r, [Plain("enable") EXCEPT !.secret = s])
                         /\ UNCHANGED issued

DisableTwoFactor(r, s) == /\ row.enabled
                          /\ CodeFits(s)
                          /\ Loads(r, [Plain("disable") EXCEPT !.secret = s])
                          /\ UNCHANGED issued

-----------------------------------------------------------------------------
Ends(r) == /\ op' = [op EXCEPT ![r] = Plain("idle")]
           /\ loaded' = [loaded EXCEPT ![r] = Registered]

Commit(r) ==
  LET o == op[r]
      had == loaded[r]
      new == Updated(had, Edited(o, had))
  IN /\ o.kind # "idle"
     /\ InRange(new)
     /\ row' = new
     /\ crossed' = crossed \cup Crossings(o.kind, had)
     /\ proven' = IF o.kind = "enable" THEN proven \cup {o.secret} ELSE proven
     /\ paid' = IF o.kind = "topup" THEN paid + o.amount ELSE paid
     /\ Ends(r)
     /\ UNCHANGED <<issued, revived>>

\* The handler dies, or the database refuses the UPDATE: 500.
Fail(r) == /\ op[r].kind # "idle"
           /\ row' = row
           /\ Ends(r)
           /\ UNCHANGED <<issued, histories>>

\* lifespan: a start of an API process, among others that serve requests.
SeedDemoUsers == /\ Debug /\ Demo
                 /\ row' = [row EXCEPT !.registered = TRUE,
                                       !.text = IF @ = Blank THEN DemoText ELSE @]
                 /\ revived' = (revived \/ row.deleted)
                 /\ UNCHANGED <<op, loaded, issued, proven, paid, crossed>>

Next ==
  \/ \E r \in Requests :
       \/ \E frozen \in BOOLEAN : SetProfileFrozen(r, frozen)
       \/ SoftDeleteProfile(r)
       \/ \E t \in Texts : UpdateProfile(r, t)
       \/ \E a \in Amounts : TopUpPreview(r, a)
       \/ \E s \in Secrets : SetupTwoFactor(r, s) \/ EnableTwoFactor(r, s)
                             \/ DisableTwoFactor(r, s)
       \/ Commit(r) \/ Fail(r)
  \/ SeedDemoUsers

Spec == Init /\ [][Next]_vars

-----------------------------------------------------------------------------
(* Properties                                                              *)

TypeOK == /\ row \in Row
          /\ op \in [Requests -> Op]
          /\ loaded \in [Requests -> Row]
          /\ issued \subseteq Secrets /\ proven \subseteq issued
          /\ paid \in Nat
          /\ crossed \subseteq {"money", "factor", "standing"}
          /\ revived \in BOOLEAN

\* Money appears only by top-ups that were answered, and only top-ups that cross
\* each other lose any: freezing, editing or failing requests never do.
MoneyIsKept == /\ row.balance <= paid
               /\ "money" \notin crossed => row.balance = paid

\* Unless requests of its routes cross, the second factor that is demanded is one
\* for which the user has shown a code: nobody is locked out by turning it on.
SecondFactorWorks ==
  row.enabled /\ "factor" \notin crossed => row.secret \in proven

\* A deleted account is neither registered nor thawed, unless the seed has
\* registered it again or an unfreezing crossed the deletion.
DeletedIsOut ==
  row.deleted => /\ ~row.registered \/ revived
                 /\ row.frozen \/ revived \/ "standing" \in crossed

\* A deletion is final: no request that had loaded the row before undoes it, and
\* none that comes after is served, those of the second factor excepted.
DeletionIsFinal ==
  [][row.deleted =>
       /\ row'.deleted
       /\ \A r \in Requests : op[r].kind = "idle" /\ ~revived =>
            op'[r].kind \in FactorRoutes \cup {"idle"}]_vars
=============================================================================
