--------------------------- MODULE AccountProofs ---------------------------
(***************************************************************************)
(* Theorems about Account, for any number of requests, secrets and sums.   *)
(*                                                                         *)
(* The induction: a request under way has loaded a row that passed its     *)
(* guard, and what a commit writes beside the truth it either did not edit *)
(* or has to confess in `crossed'.                                         *)
(***************************************************************************)
EXTENDS Account, TLAPS

\* What the guards have made sure of the row that a request has loaded.
Guarded ==
  \A r \in Requests :
    /\ loaded[r].balance <= paid
    /\ op[r].kind \notin FactorRoutes \cup {"idle"} => loaded[r].registered
    /\ op[r].kind = "topup" => op[r].amount \in Amounts
    /\ op[r].kind = "setup" => ~loaded[r].enabled
    /\ op[r].kind = "enable" => loaded[r].secret = op[r].secret
    /\ op[r].kind \in {"setup", "enable"} => op[r].secret \in issued

\* Secrets in the row come from setup.
Issued == row.secret \in issued \cup {Nothing}

AccountInv == /\ TypeOK /\ Guarded /\ Issued
              /\ MoneyIsKept /\ SecondFactorWorks /\ DeletedIsOut

-----------------------------------------------------------------------------
LEMMA AmountsAreNat == Amounts \cup {0} \subseteq Nat
BY AccountAssumption

LEMMA InitStep == Init => AccountInv
<1> SUFFICES ASSUME Init PROVE AccountInv
  OBVIOUS
<1>1. Registered \in Row
  BY AccountAssumption DEF Registered, Row
<1>2. Plain("idle") \in Op
  BY AccountAssumption DEF Plain, Op
<1>3. TypeOK
  BY <1>1, <1>2 DEF Init, TypeOK
<1>4. Guarded /\ Issued
  BY <1>1 DEF Init, Guarded, Issued, Registered, Plain, FactorRoutes
<1> QED BY <1>3, <1>4 DEF Init, AccountInv, MoneyIsKept, SecondFactorWorks, DeletedIsOut, Registered

\* What the handler makes of the row it has, column by column.
LEMMA EditByColumn ==
  ASSUME NEW o \in Op, NEW had \in Row, o.kind # "idle", NEW e, e = Edited(o, had)
  PROVE  /\ e.registered = (o.kind # "delete" /\ had.registered)
         /\ e.deleted = (o.kind = "delete" \/ had.deleted)
         /\ e.frozen = (o.kind # "unfreeze" /\ (o.kind \in {"freeze", "delete"} \/ had.frozen))
         /\ e.balance = IF o.kind = "topup" THEN had.balance + o.amount ELSE had.balance
         /\ e.enabled = (o.kind # "disable" /\ (o.kind = "enable" \/ had.enabled))
         /\ e.secret = CASE o.kind = "setup" -> o.secret
                         [] o.kind = "disable" -> Nothing
                         [] OTHER -> had.secret
         /\ e.text = IF o.kind = "edit" THEN o.text ELSE had.text
<1> USE DEF Row
<1>1. CASE o.kind = "freeze"
  <2>1. e = [had EXCEPT !.frozen = TRUE]
    BY <1>1 DEF Edited
  <2> QED BY <1>1, <2>1
<1>2. CASE o.kind = "unfreeze"
  <2>1. e = [had EXCEPT !.frozen = FALSE]
    BY <1>2 DEF Edited
  <2> QED BY <1>2, <2>1
<1>3. CASE o.kind = "delete"
  <2>1. e = [had EXCEPT !.deleted = TRUE, !.frozen = TRUE, !.registered = FALSE]
    BY <1>3 DEF Edited, Deleted
  <2> QED BY <1>3, <2>1
<1>4. CASE o.kind = "edit"
  <2>1. e = [had EXCEPT !.text = o.text]
    BY <1>4 DEF Edited
  <2> QED BY <1>4, <2>1
<1>5. CASE o.kind = "topup"
  <2>1. e = [had EXCEPT !.balance = had.balance + o.amount]
    BY <1>5 DEF Edited, ToppedUp
  <2> QED BY <1>5, <2>1
<1>6. CASE o.kind = "setup"
  <2>1. e = [had EXCEPT !.secret = o.secret]
    BY <1>6 DEF Edited
  <2> QED BY <1>6, <2>1
<1>7. CASE o.kind = "enable"
  <2>1. e = [had EXCEPT !.enabled = TRUE]
    BY <1>7 DEF Edited
  <2> QED BY <1>7, <2>1
<1>8. CASE o.kind = "disable"
  <2>1. e = [had EXCEPT !.enabled = FALSE, !.secret = Nothing]
    BY <1>8 DEF Edited
  <2> QED BY <1>8, <2>1
<1> QED BY <1>1, <1>2, <1>3, <1>4, <1>5, <1>6, <1>7, <1>8 DEF Op

\* The UPDATE, column by column.
ByColumn(o, had, new) ==
  /\ new.registered = IF o.kind = "delete" /\ had.registered THEN FALSE ELSE row.registered
  /\ new.deleted = IF o.kind = "delete" /\ ~had.deleted THEN TRUE ELSE row.deleted
  /\ new.frozen = IF o.kind \in {"freeze", "delete"} /\ ~had.frozen THEN TRUE
                  ELSE IF o.kind = "unfreeze" /\ had.frozen THEN FALSE
                  ELSE row.frozen
  /\ new.balance = IF o.kind = "topup" /\ o.amount # 0 THEN had.balance + o.amount
                   ELSE row.balance
  /\ new.enabled = IF o.kind = "enable" /\ ~had.enabled THEN TRUE
                   ELSE IF o.kind = "disable" /\ had.enabled THEN FALSE
                   ELSE row.enabled
  /\ new.secret = IF o.kind = "setup" /\ o.secret # had.secret THEN o.secret
                  ELSE IF o.kind = "disable" /\ had.secret # Nothing THEN Nothing
                  ELSE row.secret
  /\ InRange(new) => new \in Row

LEMMA UpdateByColumn ==
  ASSUME row \in Row, NEW o \in Op, NEW had \in Row, o.kind # "idle",
         NEW new, new = Updated(had, Edited(o, had))
  PROVE  ByColumn(o, had, new)
<1> DEFINE e == Edited(o, had)
<1>1. /\ e.registered = (o.kind # "delete" /\ had.registered)
      /\ e.deleted = (o.kind = "delete" \/ had.deleted)
      /\ e.frozen = (o.kind # "unfreeze" /\ (o.kind \in {"freeze", "delete"} \/ had.frozen))
      /\ e.balance = IF o.kind = "topup" THEN had.balance + o.amount ELSE had.balance
      /\ e.enabled = (o.kind # "disable" /\ (o.kind = "enable" \/ had.enabled))
      /\ e.secret = CASE o.kind = "setup" -> o.secret
                      [] o.kind = "disable" -> Nothing
                      [] OTHER -> had.secret
      /\ e.text = IF o.kind = "edit" THEN o.text ELSE had.text
  BY EditByColumn
<1>2. /\ new.registered = IF e.registered = had.registered THEN row.registered ELSE e.registered
      /\ new.deleted = IF e.deleted = had.deleted THEN row.deleted ELSE e.deleted
      /\ new.frozen = IF e.frozen = had.frozen THEN row.frozen ELSE e.frozen
      /\ new.balance = IF e.balance = had.balance THEN row.balance ELSE e.balance
      /\ new.enabled = IF e.enabled = had.enabled THEN row.enabled ELSE e.enabled
      /\ new.secret = IF e.secret = had.secret THEN row.secret ELSE e.secret
      /\ new.text = IF e.text = had.text THEN row.text ELSE e.text
  BY DEF Updated
<1>r. new = [registered |-> new.registered, deleted |-> new.deleted, frozen |-> new.frozen,
             balance |-> new.balance, enabled |-> new.enabled, secret |-> new.secret,
             text |-> new.text]
  BY DEF Updated
<1> HIDE DEF e
<1>3. /\ row.registered \in BOOLEAN /\ row.deleted \in BOOLEAN /\ row.frozen \in BOOLEAN
      /\ row.enabled \in BOOLEAN /\ row.balance \in 0 .. MaxBalance
      /\ row.secret \in Secrets \cup {Nothing} /\ row.text \in Texts
  BY DEF Row
<1>4. /\ had.registered \in BOOLEAN /\ had.deleted \in BOOLEAN /\ had.frozen \in BOOLEAN
      /\ had.enabled \in BOOLEAN /\ had.balance \in 0 .. MaxBalance
      /\ had.secret \in Secrets \cup {Nothing} /\ had.text \in Texts
  BY DEF Row
<1>5. o.amount \in Nat /\ o.secret \in Secrets \cup {Nothing} /\ o.text \in Texts
  <2>1. o.amount \in Amounts \cup {0} /\ o.secret \in Secrets \cup {Nothing} /\ o.text \in Texts
    BY DEF Op
  <2> QED BY <2>1, AmountsAreNat
<1>6. new.registered = IF o.kind = "delete" /\ had.registered THEN FALSE ELSE row.registered
  <2>1. had.registered \in BOOLEAN /\ row.registered \in BOOLEAN
    BY <1>3, <1>4
  <2>2. CASE o.kind = "delete"
    <3>1. new.registered = IF had.registered = FALSE THEN row.registered ELSE FALSE
      BY <1>1, <1>2, <2>2
    <3> QED BY <2>1, <2>2, <3>1
  <2>3. CASE o.kind # "delete"
    <3>1. e.registered = had.registered
      BY <1>1, <2>1, <2>3
    <3>2. new.registered = row.registered
      BY <1>2, <3>1
    <3> QED BY <2>1, <2>3, <3>2
  <2> QED BY <2>2, <2>3
<1>d. new.deleted = IF o.kind = "delete" /\ ~had.deleted THEN TRUE ELSE row.deleted
  <2>1. had.deleted \in BOOLEAN /\ row.deleted \in BOOLEAN
    BY <1>3, <1>4
  <2>2. CASE o.kind = "delete"
    <3>1. new.deleted = IF had.deleted = TRUE THEN row.deleted ELSE TRUE
      BY <1>1, <1>2, <2>2
    <3> QED BY <2>1, <2>2, <3>1
  <2>3. CASE o.kind # "delete"
    <3>1. e.deleted = had.deleted
      BY <1>1, <2>1, <2>3
    <3>2. new.deleted = row.deleted
      BY <1>2, <3>1
    <3> QED BY <2>1, <2>3, <3>2
  <2> QED BY <2>2, <2>3
<1>7. new.frozen = IF o.kind \in {"freeze", "delete"} /\ ~had.frozen THEN TRUE
                   ELSE IF o.kind = "unfreeze" /\ had.frozen THEN FALSE
                   ELSE row.frozen
  <2>1. CASE o.kind \in {"freeze", "delete"}
    <3>1. e.frozen = TRUE
      BY <1>1, <2>1
    <3> QED BY <3>1, <1>2, <1>3, <1>4, <2>1
  <2>2. CASE o.kind = "unfreeze"
    <3>1. e.frozen = FALSE
      BY <1>1, <2>2
    <3> QED BY <3>1, <1>2, <1>3, <1>4, <2>2
  <2>3. CASE o.kind \notin {"freeze", "delete", "unfreeze"}
    <3>1. e.frozen = had.frozen
      BY <1>1, <1>4, <2>3
    <3> QED BY <3>1, <1>2, <2>3
  <2> QED BY <2>1, <2>2, <2>3
<1>8. new.balance = IF o.kind = "topup" /\ o.amount # 0 THEN had.balance + o.amount
                    ELSE row.balance
  BY <1>1, <1>2, <1>3, <1>4, <1>5, AccountAssumption
<1>9. new.enabled = IF o.kind = "enable" /\ ~had.enabled THEN TRUE
                    ELSE IF o.kind = "disable" /\ had.enabled THEN FALSE
                    ELSE row.enabled
  BY <1>1, <1>2, <1>3, <1>4
<1>10. new.secret = IF o.kind = "setup" /\ o.secret # had.secret THEN o.secret
                    ELSE IF o.kind = "disable" /\ had.secret # Nothing THEN Nothing
                    ELSE row.secret
  BY <1>1, <1>2, <1>3, <1>4
<1>11. new.text \in Texts
  BY <1>1, <1>2, <1>3, <1>4, <1>5
<1>12. InRange(new) => new.balance \in 0 .. MaxBalance
  BY <1>3, <1>4, <1>5, <1>8, AccountAssumption DEF InRange
<1>13. /\ new.registered \in BOOLEAN /\ new.deleted \in BOOLEAN /\ new.frozen \in BOOLEAN
       /\ new.enabled \in BOOLEAN /\ new.secret \in Secrets \cup {Nothing}
  BY <1>3, <1>5, <1>6, <1>d, <1>7, <1>9, <1>10
<1>14. InRange(new) => new \in Row
  BY <1>r, <1>11, <1>12, <1>13 DEF Row
<1> QED BY <1>6, <1>d, <1>7, <1>8, <1>9, <1>10, <1>14 DEF ByColumn

-----------------------------------------------------------------------------
LEMMA CommitStep ==
  ASSUME AccountInv, NEW r \in Requests, Commit(r)
  PROVE  AccountInv'
<1> DEFINE o == op[r]
           had == loaded[r]
           new == Updated(had, Edited(o, had))
<1> USE DEF AccountInv
<1>1. o \in Op /\ had \in Row /\ row \in Row /\ o.kind # "idle" /\ InRange(new)
  BY DEF TypeOK, Commit
<1>2. /\ row' = new
      /\ crossed' = crossed \cup Crossings(o.kind, had)
      /\ proven' = IF o.kind = "enable" THEN proven \cup {o.secret} ELSE proven
      /\ paid' = IF o.kind = "topup" THEN paid + o.amount ELSE paid
      /\ Ends(r) /\ issued' = issued /\ revived' = revived
  BY DEF Commit
<1>3. ByColumn(o, had, row') /\ row' \in Row
  <2>1. row \in Row /\ o \in Op /\ had \in Row /\ o.kind # "idle"
    BY <1>1
  <2>2. row' = Updated(had, Edited(o, had)) /\ InRange(row')
    BY <1>1, <1>2
  <2> HIDE DEF o, had, new
  <2>3. ByColumn(o, had, row')
    BY ONLY <2>1, <2>2, UpdateByColumn
  <2> QED BY <2>2, <2>3 DEF ByColumn
<1>4. /\ had.balance <= paid
      /\ o.kind \notin FactorRoutes => had.registered
      /\ o.kind = "topup" => o.amount \in Amounts
      /\ o.kind = "setup" => ~had.enabled
      /\ o.kind = "enable" => had.secret = o.secret
      /\ o.kind \in {"setup", "enable"} => o.secret \in issued
  BY <1>1 DEF Guarded
<1>5. had.balance \in Nat /\ row.balance \in Nat /\ paid \in Nat /\ paid' \in Nat /\ paid <= paid'
  <2>1. had.balance \in 0 .. MaxBalance /\ row.balance \in 0 .. MaxBalance /\ paid \in Nat
    BY <1>1 DEF TypeOK, Row
  <2>2. o.kind = "topup" => o.amount \in Nat
    BY <1>4, AccountAssumption
  <2> HIDE DEF o, had, new
  <2> QED BY <1>2, <2>1, <2>2, AccountAssumption
<1>6. Registered \in Row /\ Plain("idle") \in Op
  BY AccountAssumption DEF Registered, Row, Plain, Op
<1> HIDE DEF o, had, new
<1> USE DEF ByColumn
<1>7. TypeOK'
  <2>1. op' \in [Requests -> Op] /\ loaded' \in [Requests -> Row]
    BY <1>2, <1>6 DEF TypeOK, Ends
  <2>2. issued' \subseteq Secrets /\ proven' \subseteq issued'
    BY <1>2, <1>4 DEF TypeOK
  <2>3. crossed' \subseteq {"money", "factor", "standing"} /\ revived' \in BOOLEAN
    BY <1>2 DEF TypeOK, Crossings
  <2> QED BY <1>3, <1>5, <2>1, <2>2, <2>3 DEF TypeOK
<1>8. Guarded'
  <2> SUFFICES ASSUME NEW q \in Requests
               PROVE  /\ loaded'[q].balance <= paid'
                      /\ op'[q].kind \notin FactorRoutes \cup {"idle"} => loaded'[q].registered
                      /\ op'[q].kind = "topup" => op'[q].amount \in Amounts
                      /\ op'[q].kind = "setup" => ~loaded'[q].enabled
                      /\ op'[q].kind = "enable" => loaded'[q].secret = op'[q].secret
                      /\ op'[q].kind \in {"setup", "enable"} => op'[q].secret \in issued'
    BY DEF Guarded
  <2>1. CASE q = r
    <3>1. op'[q] = Plain("idle") /\ loaded'[q] = Registered
      BY <1>2, <2>1 DEF Ends, TypeOK
    <3> QED BY <1>5, <3>1 DEF Plain, Registered
  <2>2. CASE q # r
    <3>1. op'[q] = op[q] /\ loaded'[q] = loaded[q] /\ loaded[q].balance \in Nat
      BY <1>2, <2>2, AccountAssumption DEF Ends, TypeOK, Row
    <3> QED BY <1>2, <1>5, <3>1 DEF Guarded
  <2> QED BY <2>1, <2>2
<1>9. Issued'
  BY <1>2, <1>3, <1>4 DEF Issued
<1>10. MoneyIsKept'
  <2>1. CASE o.kind = "topup"
    <3>1. o.amount \in Nat \ {0}
      BY <1>4, <2>1, AccountAssumption
    <3>2. row'.balance = had.balance + o.amount /\ paid' = paid + o.amount
      BY <1>2, <1>3, <2>1, <3>1
    <3>3. "money" \notin crossed' => "money" \notin crossed /\ row.balance = had.balance
      BY <1>2, <2>1 DEF Crossings
    <3> QED BY <1>4, <1>5, <3>1, <3>2, <3>3 DEF MoneyIsKept
  <2>2. CASE o.kind # "topup"
    BY <1>2, <1>3, <2>2 DEF MoneyIsKept
  <2> QED BY <2>1, <2>2
<1>11. SecondFactorWorks'
  <2> SUFFICES ASSUME row'.enabled, "factor" \notin crossed'
               PROVE  row'.secret \in proven'
    BY DEF SecondFactorWorks
  <2>1. "factor" \notin crossed /\ proven \subseteq proven'
    BY <1>2
  <2>2. o.kind \in FactorRoutes => row.enabled = had.enabled /\ row.secret = had.secret
    BY <1>2 DEF Crossings
  <2>3. CASE o.kind = "setup"
    BY <1>3, <1>4, <2>2, <2>3 DEF FactorRoutes
  <2>4. CASE o.kind = "enable"
    BY <1>2, <1>3, <1>4, <2>2, <2>4 DEF FactorRoutes
  <2>5. CASE o.kind = "disable"
    BY <1>3, <2>2, <2>5 DEF FactorRoutes
  <2>6. CASE o.kind \notin FactorRoutes
    <3>1. row'.enabled = row.enabled /\ row'.secret = row.secret
      BY <1>3, <2>6 DEF FactorRoutes
    <3> QED BY <2>1, <3>1 DEF SecondFactorWorks
  <2> QED BY <2>3, <2>4, <2>5, <2>6 DEF FactorRoutes
<1>12. DeletedIsOut'
  <2>1. o.kind = "delete" => ~row'.registered
    BY <1>3, <1>4 DEF FactorRoutes
  <2>2. o.kind \in {"unfreeze", "delete"} /\ "standing" \notin crossed' =>
          row.registered = had.registered /\ row.frozen = had.frozen
    BY <1>2 DEF Crossings
  <2>3. CASE o.kind = "delete"
    BY <1>2, <1>3, <2>1, <2>2, <2>3 DEF DeletedIsOut
  <2>4. CASE o.kind = "unfreeze"
    BY <1>2, <1>3, <1>4, <2>2, <2>4 DEF DeletedIsOut, FactorRoutes
  <2>5. CASE o.kind \notin {"delete", "unfreeze"}
    BY <1>2, <1>3, <2>5 DEF DeletedIsOut
  <2> QED BY <2>3, <2>4, <2>5
<1> QED BY <1>7, <1>8, <1>9, <1>10, <1>11, <1>12

\* A handler that loads the row: what it goes by is what its guard has seen.
LEMMA LoadStep ==
  ASSUME AccountInv, NEW r \in Requests, NEW o \in Op, Loads(r, o),
         issued \subseteq issued', issued' \subseteq Secrets,
         o.kind \notin FactorRoutes => row.registered,
         o.kind = "topup" => o.amount \in Amounts,
         o.kind = "setup" => ~row.enabled,
         o.kind = "enable" => row.secret = o.secret,
         o.kind \in {"setup", "enable"} => o.secret \in issued'
  PROVE  AccountInv'
<1> USE DEF AccountInv
<1>1. /\ row' = row /\ proven' = proven /\ paid' = paid /\ crossed' = crossed
      /\ revived' = revived
      /\ op' = [op EXCEPT ![r] = o] /\ loaded' = [loaded EXCEPT ![r] = row]
  BY DEF Loads, histories
<1>2. TypeOK'
  BY <1>1 DEF TypeOK
<1>3. Guarded'
  <2> SUFFICES ASSUME NEW q \in Requests
               PROVE  /\ loaded'[q].balance <= paid'
                      /\ op'[q].kind \notin FactorRoutes \cup {"idle"} => loaded'[q].registered
                      /\ op'[q].kind = "topup" => op'[q].amount \in Amounts
                      /\ op'[q].kind = "setup" => ~loaded'[q].enabled
                      /\ op'[q].kind = "enable" => loaded'[q].secret = op'[q].secret
                      /\ op'[q].kind \in {"setup", "enable"} => op'[q].secret \in issued'
    BY DEF Guarded
  <2>1. CASE q = r
    <3>1. op'[q] = o /\ loaded'[q] = row
      BY <1>1, <2>1 DEF TypeOK
    <3> QED BY <1>1, <3>1 DEF MoneyIsKept
  <2>2. CASE q # r
    <3>1. op'[q] = op[q] /\ loaded'[q] = loaded[q]
      BY <1>1, <2>2 DEF TypeOK
    <3> QED BY <1>1, <3>1 DEF Guarded
  <2> QED BY <2>1, <2>2
<1>4. Issued' /\ MoneyIsKept' /\ SecondFactorWorks' /\ DeletedIsOut'
  BY <1>1 DEF Issued, MoneyIsKept, SecondFactorWorks, DeletedIsOut
<1> QED BY <1>2, <1>3, <1>4

\* A request that fails leaves the row as it is.
LEMMA FailStep ==
  ASSUME AccountInv, NEW r \in Requests, Fail(r)
  PROVE  AccountInv'
<1> USE DEF AccountInv
<1>1. /\ row' = row /\ issued' = issued /\ proven' = proven /\ paid' = paid
      /\ crossed' = crossed /\ revived' = revived
      /\ op' = [op EXCEPT ![r] = Plain("idle")] /\ loaded' = [loaded EXCEPT ![r] = Registered]
  BY DEF Fail, Ends, histories
<1>2. Registered \in Row /\ Plain("idle") \in Op
  BY AccountAssumption DEF Registered, Row, Plain, Op
<1>3. TypeOK'
  BY <1>1, <1>2 DEF TypeOK
<1>4. Guarded'
  <2>1. op'[r] = Plain("idle") /\ loaded'[r] = Registered
    BY <1>1 DEF TypeOK
  <2>2. \A q \in Requests : q # r => op'[q] = op[q] /\ loaded'[q] = loaded[q]
    BY <1>1 DEF TypeOK
  <2>3. paid \in Nat
    BY DEF TypeOK
  <2> QED BY <1>1, <2>1, <2>2, <2>3 DEF Guarded, Plain, Registered, FactorRoutes
<1>5. Issued' /\ MoneyIsKept' /\ SecondFactorWorks' /\ DeletedIsOut'
  BY <1>1 DEF Issued, MoneyIsKept, SecondFactorWorks, DeletedIsOut
<1> QED BY <1>3, <1>4, <1>5

\* The seed registers the account again and owns up to it.
LEMMA SeedStep ==
  ASSUME AccountInv, SeedDemoUsers
  PROVE  AccountInv'
<1> USE DEF AccountInv
<1> DEFINE text == IF row.text = Blank THEN DemoText ELSE row.text
<1>1. /\ row' = [row EXCEPT !.registered = TRUE, !.text = text]
      /\ revived' = (revived \/ row.deleted)
      /\ op' = op /\ loaded' = loaded /\ issued' = issued /\ proven' = proven
      /\ paid' = paid /\ crossed' = crossed
  BY DEF SeedDemoUsers
<1>2. row \in Row /\ revived \in BOOLEAN /\ text \in Texts
  BY AccountAssumption DEF TypeOK, Row
<1> HIDE DEF text
<1>3. row' \in Row
  BY <1>1, <1>2 DEF Row
<1>4. /\ row'.deleted = row.deleted /\ row'.frozen = row.frozen /\ row'.balance = row.balance
      /\ row'.enabled = row.enabled /\ row'.secret = row.secret
  BY <1>1, <1>2 DEF Row
<1>5. TypeOK' /\ Guarded'
  BY <1>1, <1>3 DEF TypeOK, Guarded
<1>6. Issued' /\ MoneyIsKept' /\ SecondFactorWorks'
  BY <1>1, <1>4 DEF Issued, MoneyIsKept, SecondFactorWorks
<1>7. DeletedIsOut'
  BY <1>1, <1>2, <1>4 DEF DeletedIsOut
<1> QED BY <1>5, <1>6, <1>7

LEMMA NextStep ==
  ASSUME AccountInv, [Next]_vars
  PROVE  AccountInv'
<1>t. /\ "idle" \notin FactorRoutes
      /\ \A k \in {"freeze", "unfreeze", "delete", "edit", "topup"} : k \notin FactorRoutes
  BY DEF FactorRoutes
<1>o. \A k \in {"freeze", "unfreeze", "delete", "edit", "topup", "setup", "enable", "disable"} :
        Plain(k) \in Op /\ Plain(k).kind = k
  BY AccountAssumption DEF Plain, Op
<1>i. issued \subseteq Secrets
  BY DEF AccountInv, TypeOK
<1>1. CASE UNCHANGED vars
  BY <1>1 DEF AccountInv, vars, histories, TypeOK, Guarded, Issued, MoneyIsKept,
              SecondFactorWorks, DeletedIsOut
<1>2. ASSUME NEW r \in Requests, NEW frozen \in BOOLEAN, SetProfileFrozen(r, frozen)
      PROVE  AccountInv'
  <2> DEFINE o == Plain(IF frozen THEN "freeze" ELSE "unfreeze")
  <2>1. o \in Op /\ o.kind \in {"freeze", "unfreeze"}
    BY <1>o
  <2>2. Loads(r, o) /\ row.registered /\ issued' = issued
    BY <1>2 DEF SetProfileFrozen, MayAct
  <2> HIDE DEF o
  <2> QED BY <1>t, <1>i, <2>1, <2>2, LoadStep
<1>3. ASSUME NEW r \in Requests, SoftDeleteProfile(r)
      PROVE  AccountInv'
  <2> DEFINE o == Plain("delete")
  <2>1. o \in Op /\ o.kind = "delete"
    BY <1>o
  <2>2. Loads(r, o) /\ row.registered /\ issued' = issued
    BY <1>3 DEF SoftDeleteProfile, MayAct
  <2> HIDE DEF o
  <2> QED BY <1>t, <1>i, <2>1, <2>2, LoadStep
<1>4. ASSUME NEW r \in Requests, NEW t \in Texts, UpdateProfile(r, t)
      PROVE  AccountInv'
  <2> DEFINE o == [Plain("edit") EXCEPT !.text = t]
  <2>1. o \in Op /\ o.kind = "edit"
    BY <1>o DEF Op
  <2>2. Loads(r, o) /\ row.registered /\ issued' = issued
    BY <1>4 DEF UpdateProfile, MayAct
  <2> HIDE DEF o
  <2> QED BY <1>t, <1>i, <2>1, <2>2, LoadStep
<1>5. ASSUME NEW r \in Requests, NEW a \in Amounts, TopUpPreview(r, a)
      PROVE  AccountInv'
  <2> DEFINE o == [Plain("topup") EXCEPT !.amount = a]
  <2>1. o \in Op /\ o.kind = "topup" /\ o.amount = a
    BY <1>o DEF Op
  <2>2. Loads(r, o) /\ row.registered /\ issued' = issued
    BY <1>5 DEF TopUpPreview, MayAct
  <2> HIDE DEF o
  <2> QED BY <1>t, <1>i, <2>1, <2>2, LoadStep
<1>6. ASSUME NEW r \in Requests, NEW s \in Secrets, SetupTwoFactor(r, s)
      PROVE  AccountInv'
  <2> DEFINE o == [Plain("setup") EXCEPT !.secret = s]
  <2>1. o \in Op /\ o.kind = "setup" /\ o.secret = s
    BY <1>o DEF Op
  <2>2. Loads(r, o) /\ ~row.enabled /\ issued' = issued \cup {s}
    BY <1>6 DEF SetupTwoFactor
  <2> HIDE DEF o
  <2> QED BY <1>i, <2>1, <2>2, LoadStep DEF FactorRoutes
<1>7. ASSUME NEW r \in Requests, NEW s \in Secrets, EnableTwoFactor(r, s)
      PROVE  AccountInv'
  <2> DEFINE o == [Plain("enable") EXCEPT !.secret = s]
  <2>1. o \in Op /\ o.kind = "enable" /\ o.secret = s
    BY <1>o DEF Op
  <2>2. Loads(r, o) /\ row.secret = s /\ issued' = issued
    BY <1>7 DEF EnableTwoFactor, CodeFits
  <2>3. s \in issued
    BY <2>2, AccountAssumption DEF AccountInv, Issued
  <2> HIDE DEF o
  <2> QED BY <1>i, <2>1, <2>2, <2>3, LoadStep DEF FactorRoutes
<1>8. ASSUME NEW r \in Requests, NEW s \in Secrets, DisableTwoFactor(r, s)
      PROVE  AccountInv'
  <2> DEFINE o == [Plain("disable") EXCEPT !.secret = s]
  <2>1. o \in Op /\ o.kind = "disable"
    BY <1>o DEF Op
  <2>2. Loads(r, o) /\ issued' = issued
    BY <1>8 DEF DisableTwoFactor
  <2> HIDE DEF o
  <2> QED BY <1>i, <2>1, <2>2, LoadStep DEF FactorRoutes
<1>9. CASE Next
  BY <1>2, <1>3, <1>4, <1>5, <1>6, <1>7, <1>8, <1>9, CommitStep, FailStep, SeedStep DEF Next
<1> QED BY <1>1, <1>9

\* What the handlers keep of an account, whatever is under way at once.
THEOREM Invariance == Spec => []AccountInv
<1>1. Init => AccountInv
  BY InitStep
<1>2. AccountInv /\ [Next]_vars => AccountInv'
  BY NextStep
<1> QED BY <1>1, <1>2, PTL DEF Spec

\* The row, the requests and the histories keep their types: a balance that does
\* not fit its column is never stored.
THEOREM TypeCorrect == Spec => []TypeOK
<1>1. AccountInv => TypeOK
  BY DEF AccountInv
<1> QED BY <1>1, Invariance, PTL

\* The balance is what was paid in, unless top-ups crossed, and never more.
THEOREM MoneyKept == Spec => []MoneyIsKept
<1>1. AccountInv => MoneyIsKept
  BY DEF AccountInv
<1> QED BY <1>1, Invariance, PTL

\* A second factor that is demanded is one the user has shown a code for, unless
\* requests to set it up crossed.
THEOREM FactorProven == Spec => []SecondFactorWorks
<1>1. AccountInv => SecondFactorWorks
  BY DEF AccountInv
<1> QED BY <1>1, Invariance, PTL

\* A deleted account is unregistered and frozen, but for the seed or a crossing.
THEOREM DeletedOut == Spec => []DeletedIsOut
<1>1. AccountInv => DeletedIsOut
  BY DEF AccountInv
<1> QED BY <1>1, Invariance, PTL

\* No request undoes a deletion or is admitted to the account after it.
THEOREM DeletedForGood == Spec => DeletionIsFinal
<1>1. ASSUME AccountInv, Next, row.deleted
      PROVE  /\ row'.deleted
             /\ \A r \in Requests : op[r].kind = "idle" /\ ~revived =>
                  op'[r].kind \in FactorRoutes \cup {"idle"}
  <2>1. row'.deleted
    <3>1. ASSUME NEW r \in Requests, Commit(r)
          PROVE  row'.deleted
      <4> DEFINE o == op[r]
                 had == loaded[r]
      <4>1. row \in Row /\ o \in Op /\ had \in Row /\ o.kind # "idle"
        BY <1>1, <3>1 DEF AccountInv, TypeOK, Commit
      <4>2. row' = Updated(had, Edited(o, had))
        BY <3>1 DEF Commit
      <4> HIDE DEF o, had
      <4>3. ByColumn(o, had, row')
        BY ONLY <4>1, <4>2, UpdateByColumn
      <4> QED BY <1>1, <4>3 DEF ByColumn
    <3>2. CASE SeedDemoUsers
      BY <1>1, <3>2 DEF SeedDemoUsers, AccountInv, TypeOK, Row
    <3>3. CASE row' = row
      BY <1>1, <3>3
    <3> QED BY <1>1, <3>1, <3>2, <3>3
            DEF Next, Fail, Loads, SetProfileFrozen, SoftDeleteProfile, UpdateProfile,
                TopUpPreview, SetupTwoFactor, EnableTwoFactor, DisableTwoFactor
  <2>2. ASSUME NEW r \in Requests, op[r].kind = "idle", ~revived
        PROVE  op'[r].kind \in FactorRoutes \cup {"idle"}
    <3>1. ~MayAct
      BY <1>1, <2>2 DEF AccountInv, DeletedIsOut, MayAct
    <3>2. op \in [Requests -> Op]
      BY <1>1 DEF AccountInv, TypeOK
    <3>3. ASSUME NEW q \in Requests, NEW o, op' = [op EXCEPT ![q] = o],
                 o.kind \in FactorRoutes \cup {"idle"}
          PROVE  op'[r].kind \in FactorRoutes \cup {"idle"}
      BY <2>2, <3>2, <3>3
    <3>4. /\ Plain("idle").kind = "idle"
          /\ \A s \in Secrets : /\ [Plain("setup") EXCEPT !.secret = s].kind = "setup"
                                /\ [Plain("enable") EXCEPT !.secret = s].kind = "enable"
                                /\ [Plain("disable") EXCEPT !.secret = s].kind = "disable"
      BY DEF Plain
    <3>5. ASSUME NEW q \in Requests, NEW s \in Secrets, SetupTwoFactor(q, s)
          PROVE  op'[r].kind \in FactorRoutes \cup {"idle"}
      BY <3>3, <3>4, <3>5 DEF SetupTwoFactor, Loads, FactorRoutes
    <3>6. ASSUME NEW q \in Requests, NEW s \in Secrets, EnableTwoFactor(q, s)
          PROVE  op'[r].kind \in FactorRoutes \cup {"idle"}
      BY <3>3, <3>4, <3>6 DEF EnableTwoFactor, Loads, FactorRoutes
    <3>7. ASSUME NEW q \in Requests, NEW s \in Secrets, DisableTwoFactor(q, s)
          PROVE  op'[r].kind \in FactorRoutes \cup {"idle"}
      BY <3>3, <3>4, <3>7 DEF DisableTwoFactor, Loads, FactorRoutes
    <3>8. ASSUME NEW q \in Requests, Commit(q) \/ Fail(q)
          PROVE  op'[r].kind \in FactorRoutes \cup {"idle"}
      BY <3>3, <3>4, <3>8 DEF Commit, Fail, Ends
    <3>9. CASE SeedDemoUsers
      BY <2>2, <3>9 DEF SeedDemoUsers
    <3> QED BY <1>1, <3>1, <3>5, <3>6, <3>7, <3>8, <3>9
            DEF Next, SetProfileFrozen, SoftDeleteProfile, UpdateProfile, TopUpPreview
  <2> QED BY <2>1, <2>2
<1>2. AccountInv /\ [Next]_vars =>
        [row.deleted =>
           /\ row'.deleted
           /\ \A r \in Requests : op[r].kind = "idle" /\ ~revived =>
                op'[r].kind \in FactorRoutes \cup {"idle"}]_vars
  BY <1>1
<1> QED BY <1>2, Invariance, PTL DEF Spec, DeletionIsFinal
=============================================================================
