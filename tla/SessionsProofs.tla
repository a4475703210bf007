--------------------------- MODULE SessionsProofs ---------------------------
(***************************************************************************)
(* Theorems about Sessions, for any number of rows, tabs and calls.        *)
(*                                                                         *)
(* The induction: unless two requests were at work on one row, a login has *)
(* one row that is not revoked - rotation makes a new one only as it       *)
(* revokes the old.  Expired rows count, since a handler may have selected *)
(* a row just before it expired.                                           *)
(***************************************************************************)
EXTENDS Sessions, TLAPS

Used == {s \in Ids : status[s] # "unused"}

\* Every row in use descends from a login, every other from nothing yet.
RowsOK == \A s \in Ids : login[s] \in IF s \in Used THEN Used ELSE {NoId}

\* What the tabs and the histories name has been issued.
Issued == /\ held \in [Tabs -> Used \cup {NoId}]
          /\ store \in Used \cup {NoId}
          /\ trusted \subseteq Used /\ raced \subseteq Used
          /\ ended \subseteq Used /\ vouched \subseteq Used

\* A call r, when `used' rows have the statuses st and logins lg: the rows it
\* names are in use, and what it has read still holds or somebody else was at
\* work on the same row.
Fits(r, used, st, lg, rc, vc) ==
  /\ r \in Call
  /\ r.token \in used \cup {NoId} /\ r.got \in used \cup {NoId}
  /\ r.step \in {"proving", "refreshing", "selected"} => r.token \in used
  /\ r.step \in {"granted", "refused", "entered"} => r.got \in used
  /\ r.step = "selected" /\ st[r.token] = "revoked" => lg[r.token] \in rc
  /\ r.step = "selected" /\ r.trust => lg[r.token] \in vc
  /\ r.step = "proving" => lg[r.token] \in vc

CallOK(r) == Fits(r, Used, status, login, raced, vouched)

CallsOK == calls \in [Calls -> Call] /\ \A c \in Calls : CallOK(calls[c])

NotRevoked(l) == {s \in Used : status[s] # "revoked" /\ login[s] = l}

OneRow == \A l \in Ids \ raced : \A s, n \in NotRevoked(l) : s = n
NoRow == \A l \in ended \ raced : NotRevoked(l) = {}

SessionsInv == /\ TypeOK
               /\ RowsOK /\ Issued /\ CallsOK
               /\ OneRow /\ NoRow /\ TrustIsEarned

-----------------------------------------------------------------------------
\* A call that nobody changes still fits after a step that only adds rows.
LEMMA StillFits ==
  ASSUME NEW r, NEW used, NEW st, NEW lg, NEW rc, NEW vc,
         NEW used2, NEW st2, NEW lg2, NEW rc2, NEW vc2,
         Fits(r, used, st, lg, rc, vc),
         used \subseteq used2, \A s \in used : lg2[s] = lg[s],
         rc \subseteq rc2, vc \subseteq vc2,
         r.step = "selected" /\ st2[r.token] = "revoked" /\ st[r.token] # "revoked"
           => lg[r.token] \in rc2
  PROVE  Fits(r, used2, st2, lg2, rc2, vc2)
BY DEF Fits

\* One call changes, to a record that fits.
LEMMA OneCall ==
  ASSUME SessionsInv, NEW c \in Calls, NEW r, CallOK(r),
         calls' = [calls EXCEPT ![c] = r]
  PROVE  calls' \in [Calls -> Call] /\ \A d \in Calls : CallOK(calls'[d])
BY DEF SessionsInv, CallsOK, CallOK, Fits

LEMMA IdleFits == CallOK(Idle) /\ Idle.step = "idle" /\ Idle.live
BY DEF CallOK, Fits, Idle, Carrying, Call

LEMMA ReturnFits ==
  ASSUME NEW used \in SUBSET Ids, NEW n \in used, NEW st, NEW lg, NEW rc, NEW vc,
         NEW step \in {"granted", "refused", "entered"}
  PROVE  /\ Fits(Returning(step, n), used, st, lg, rc, vc)
         /\ Fits(Idle, used, st, lg, rc, vc)
BY DEF Fits, Returning, Idle, Carrying, Call

\* Replies, spelled out: the record it leaves fits if its row is in use.
LEMMA ReplyFits ==
  ASSUME SessionsInv, NEW c \in Calls, NEW n \in Used \cup {NoId}, NEW step,
         step = "left" \/ (step \in {"granted", "refused", "entered"} /\ n \in Used),
         Replies(c, step, n)
  PROVE  calls' \in [Calls -> Call] /\ \A d \in Calls : CallOK(calls'[d])
<1> DEFINE r == IF calls[c].live THEN Returning(step, n) ELSE Idle
<1>1. CallOK(r)
  BY IdleFits DEF CallOK, Fits, Returning, Call, Used
<1>2. calls' = [calls EXCEPT ![c] = r]
  BY DEF Replies
<1> QED BY <1>1, <1>2, OneCall

\* Steps of the browser, and of handlers that write no row.
LEMMA BrowserStep ==
  ASSUME SessionsInv,
         \/ UNCHANGED server
         \/ /\ UNCHANGED <<status, login, trusted, raced, ended, vouched>>
            /\ stale' \subseteq stale,
         held' \in [Tabs -> Used \cup {NoId}], store' \in Used \cup {NoId},
         calls' \in [Calls -> Call], \A c \in Calls : CallOK(calls'[c])
  PROVE  SessionsInv'
<1>0. /\ UNCHANGED <<status, login, trusted, raced, ended, vouched>>
      /\ stale' \subseteq stale
  BY DEF server
<1>1. Used' = Used
  BY <1>0 DEF Used
<1>2. TypeOK'
  <2>1. held' \in [Tabs -> Ids \cup {NoId}] /\ store' \in Ids \cup {NoId}
    BY DEF Used
  <2>2. ASSUME NEW c \in Calls
        PROVE  /\ calls'[c].step \in {"proving", "refreshing", "selected"} => calls'[c].token # NoId
               /\ calls'[c].step \in {"granted", "refused", "entered"} => calls'[c].got # NoId
    BY <1>0, BrowserAssumption DEF CallOK, Fits, Used
  <2> QED BY <1>0, <2>1, <2>2 DEF SessionsInv, TypeOK
<1>3. RowsOK' /\ Issued'
  BY <1>0, <1>1 DEF SessionsInv, RowsOK, Issued
<1>4. CallsOK'
  BY <1>0, <1>1 DEF CallsOK, CallOK
<1>5. OneRow' /\ NoRow' /\ TrustIsEarned'
  BY <1>0, <1>1 DEF SessionsInv, OneRow, NoRow, NotRevoked, TrustIsEarned
<1> QED BY <1>2, <1>3, <1>4, <1>5 DEF SessionsInv
-----------------------------------------------------------------------------
LEMMA InitStep == Init => SessionsInv
<1> SUFFICES ASSUME Init PROVE SessionsInv
  OBVIOUS
<1>1. Used = {} /\ \A l \in Ids : NotRevoked(l) = {}
  BY DEF Init, Used, NotRevoked
<1>2. CallsOK /\ TypeOK
  BY IdleFits DEF Init, CallsOK, CallOK, TypeOK, Idle, Carrying, Call
<1> QED
  BY <1>1, <1>2 DEF Init, SessionsInv, RowsOK, Issued, OneRow, NoRow, TrustIsEarned

\* The steps of the browser and of the handlers that only read.
LEMMA ClientSteps ==
  ASSUME SessionsInv, NEW c \in Calls,
         \/ Send(c) \/ Answer(c) \/ Recover(c) \/ SelectRow(c) \/ SaveTokens(c)
         \/ Refused(c) \/ Break(c) \/ Enter(c) \/ Logout(c) \/ Leave(c)
  PROVE  SessionsInv'
<1> DEFINE t == TabOf[c]
           Now == calls' \in [Calls -> Call] /\ \A d \in Calls : CallOK(calls'[d])
           Page == /\ held' \in [Tabs -> Used \cup {NoId}]
                   /\ store' \in Used \cup {NoId}
<1>1. /\ t \in Tabs /\ held[t] \in Used \cup {NoId} /\ CallOK(calls[c])
      /\ calls[c] \in Call
      /\ UNCHANGED <<server, browser>> => UNCHANGED server /\ Page
  BY BrowserAssumption DEF SessionsInv, CallsOK, Issued, TypeOK, browser
<1>2. Ends(c) => Now
  BY IdleFits, OneCall DEF Ends
<1>3. /\ CallOK(Carrying("sent", held[t])) /\ CallOK(Carrying("leaving", held[t]))
      /\ \A n \in Used : CallOK(Carrying("sent", n))
  BY <1>1 DEF Carrying, CallOK, Fits, Call, Used
<1>4. DropTokens(c) => Now /\ Page
  BY <1>1, <1>2 DEF DropTokens, Issued, SessionsInv, TypeOK
<1>5. CASE Send(c)
  <2>1. Now /\ Page
    BY <1>1, <1>3, <1>5, OneCall DEF Send
  <2> QED BY <2>1, <1>5, BrowserStep DEF Send
<1>6. CASE Answer(c)
  BY <1>1, <1>2, <1>6, BrowserStep DEF Answer
<1>7. CASE Recover(c)
  <2>1. Now
    <3>1. CASE CanRefresh(c)
      <4> DEFINE r == [calls[c] EXCEPT !.step = "refreshing", !.token = held[t]]
      <4>1. CallOK(r)
        BY <1>1, <3>1 DEF CanRefresh, CallOK, Fits, Call, Used
      <4>2. calls' = [calls EXCEPT ![c] = r]
        BY <1>7, <3>1 DEF Recover, SessionsInv, CallsOK
      <4> QED BY <4>1, <4>2, OneCall
    <3> QED BY <3>1, <1>2, <1>7 DEF Recover
  <2> QED BY <2>1, <1>1, <1>7, BrowserStep DEF Recover
<1>8. CASE SelectRow(c)
  <2> DEFINE s == calls[c].token
  <2>1. s \in Used
    BY <1>1, <1>8 DEF SelectRow, At, CallOK, Fits
  <2>2. Now
    <3>1. CASE Refreshable(s)
      <4> DEFINE r == [calls[c] EXCEPT !.step = "selected", !.trust = s \in trusted]
      <4>1. CallOK(r)
        <5> DEFINE b == s \in trusted
        <5>1. b \in BOOLEAN /\ (b => login[s] \in vouched)
          BY DEF SessionsInv, TrustIsEarned
        <5>2. r = [calls[c] EXCEPT !.step = "selected", !.trust = b]
          OBVIOUS
        <5> HIDE DEF b
        <5>3. /\ r \in Call /\ r.step = "selected" /\ r.trust = b
              /\ r.token = s /\ r.got = calls[c].got
          BY <1>1, <5>1, <5>2 DEF Call, CallOK, Fits
        <5>4. status[s] # "revoked"
          BY <3>1 DEF Refreshable
        <5> HIDE DEF r
        <5> QED BY <1>1, <2>1, <5>1, <5>3, <5>4 DEF CallOK, Fits
      <4>2. calls' = [calls EXCEPT ![c] = r]
        BY <1>8, <3>1 DEF SelectRow, SessionsInv, CallsOK
      <4> QED BY <4>1, <4>2, OneCall
    <3> QED BY <3>1, <2>1, <1>8, ReplyFits DEF SelectRow
  <2> QED BY <2>2, <1>1, <1>8, BrowserStep DEF SelectRow
<1>9. CASE SaveTokens(c)
  <2> DEFINE n == calls[c].got
  <2>1. n \in Used
    BY <1>1, <1>9 DEF SaveTokens, At, CallOK, Fits
  <2>4. Now /\ Page
    BY <1>3, <1>9, <2>1, OneCall DEF SaveTokens, SessionsInv, Issued, TypeOK
  <2> QED BY <2>4, <1>9, BrowserStep DEF SaveTokens
<1>10. CASE Refused(c)
  BY <1>4, <1>10, BrowserStep DEF Refused, DropTokens
<1>11. CASE Break(c)
  BY <1>1, <1>2, <1>4, <1>11, BrowserStep DEF Break, DropTokens
<1>12. CASE Enter(c)
  <2>1. calls[c].got \in Used
    BY <1>1, <1>12 DEF Enter, At, CallOK, Fits
  <2>2. Page
    BY <1>1, <1>12, <2>1 DEF Enter, SessionsInv, Issued, TypeOK
  <2> QED BY <2>2, <1>2, <1>12, BrowserStep DEF Enter
<1>13. CASE Logout(c)
  <2>1. Now /\ Page
    BY <1>1, <1>3, <1>13, OneCall DEF Logout
  <2> QED BY <2>1, <1>13, BrowserStep DEF Logout
<1>14. CASE Leave(c)
  <2>1. Page
    BY <1>1, <1>14 DEF Leave, SessionsInv, Issued, TypeOK
  <2> QED BY <2>1, <1>2, <1>14, BrowserStep DEF Leave
<1> QED BY <1>5, <1>6, <1>7, <1>8, <1>9, <1>10, <1>11, <1>12, <1>13, <1>14

\* A page is loaded again.
LEMMA ReloadStep ==
  ASSUME SessionsInv, NEW t \in Tabs, Reload(t)
  PROVE  SessionsInv'
<1>1. calls' \in [Calls -> Call] /\ \A c \in Calls : CallOK(calls'[c])
  <2>1. ASSUME NEW c \in Calls
        PROVE  CallOK(calls'[c])
    <3>1. CallOK(calls[c]) /\ calls[c] \in Call
      BY DEF SessionsInv, CallsOK
    <3>2. CallOK([calls[c] EXCEPT !.live = FALSE])
      BY <3>1 DEF CallOK, Fits, Call
    <3> QED BY <3>1, <3>2, IdleFits DEF Reload
  <2> QED BY <2>1 DEF Reload, CallOK, Fits
<1>2. /\ held' \in [Tabs -> Used \cup {NoId}]
      /\ store' \in Used \cup {NoId}
  BY DEF Reload, SessionsInv, Issued, TypeOK
<1> QED BY <1>1, <1>2, BrowserStep DEF Reload

-----------------------------------------------------------------------------
\* Steps that insert a row n, as a login (l = n) or as the rotation of a row s
\* of login l, which is not revoked before unless somebody else was at it.
LEMMA InsertRow ==
  ASSUME SessionsInv, NEW n \in Ids \ Used, NEW l \in Used \cup {n}, NEW old \in SUBSET Used,
         \A s \in old : login[s] = l,
         status' = [x \in Ids |-> IF x \in old THEN "revoked"
                                  ELSE IF x = n THEN "active" ELSE status[x]],
         login' = [login EXCEPT ![n] = l],
         raced \subseteq raced', raced' \subseteq Used, ended' = ended,
         l \notin raced' => NotRevoked(l) \subseteq old /\ l \notin ended
  PROVE  Used' = Used \cup {n} /\ RowsOK' /\ OneRow' /\ NoRow'
<1> USE DEF SessionsInv
<1>1. Used' = Used \cup {n}
  BY DEF Used
<1>2. \A x \in Ids : login'[x] = IF x = n THEN l ELSE login[x]
  BY DEF TypeOK
<1>3. RowsOK'
  BY <1>1, <1>2 DEF RowsOK
<1>4. ASSUME NEW k \in Ids \ raced'
      PROVE  NotRevoked(k)' \subseteq IF k = l THEN {n} ELSE NotRevoked(k)
  <2>1. SUFFICES ASSUME NEW x \in NotRevoked(k)'
                 PROVE  x \in IF k = l THEN {n} ELSE NotRevoked(k)
    OBVIOUS
  <2>2. /\ x \in Used \cup {n} /\ x \notin old /\ x \in Ids
        /\ login'[x] = k /\ status'[x] # "revoked"
    BY <2>1, <1>1 DEF NotRevoked, Used
  <2>3. CASE x = n
    BY <2>2, <2>3, <1>2
  <2>4. CASE x # n
    <3>1. x \in NotRevoked(k)
      BY <2>2, <2>4, <1>2 DEF NotRevoked
    <3> QED BY <3>1, <2>2
  <2> QED BY <2>3, <2>4
<1>5. OneRow'
  BY <1>4 DEF OneRow
<1>6. NoRow'
  <2>1. ASSUME NEW k \in ended \ raced'
        PROVE  k \in Ids /\ k # l /\ NotRevoked(k) = {}
    BY DEF NoRow, Issued, Used
  <2> QED BY <1>4, <2>1 DEF NoRow
<1> QED BY <1>1, <1>3, <1>5, <1>6

LEMMA RotateStep ==
  ASSUME SessionsInv, NEW c \in Calls, Rotate(c)
  PROVE  SessionsInv'
<1> DEFINE s == calls[c].token
<1>1. PICK n \in Ids : /\ status[n] = "unused"
                       /\ status' = Rotated(s, n)
                       /\ login' = [login EXCEPT ![n] = login[s]]
                       /\ trusted' = IF Inherits(c) THEN trusted \cup {n} ELSE trusted
                       /\ Replies(c, "granted", n)
  BY DEF Rotate
<1>2. /\ s \in Used /\ s \in Ids /\ CallOK(calls[c]) /\ At(c, "selected")
      /\ login[s] \in Used /\ n \notin Used /\ s # n
  BY <1>1 DEF Rotate, At, SessionsInv, CallsOK, CallOK, Fits, RowsOK, Used
<1>3. /\ raced \subseteq raced' /\ raced' \subseteq Used
      /\ Rotating(s) = {c} \/ login[s] \in raced'
      /\ stale' = stale \ {s}
      /\ UNCHANGED <<ended, vouched, held, store>>
  BY <1>2 DEF Rotate, browser, SessionsInv, Issued
<1>4. ASSUME login[s] \notin raced'
      PROVE  NotRevoked(login[s]) \subseteq {s} /\ login[s] \notin ended
  <2>1. s \in NotRevoked(login[s])
    BY <1>2, <1>3, <1>4 DEF CallOK, Fits, At, NotRevoked
  <2> QED BY <1>2, <1>3, <1>4, <2>1 DEF SessionsInv, OneRow, NoRow, Used
<1>5. Used' = Used \cup {n} /\ RowsOK' /\ OneRow' /\ NoRow'
  <2>1. status' = [x \in Ids |-> IF x \in {s} THEN "revoked"
                                 ELSE IF x = n THEN "active" ELSE status[x]]
    BY <1>1, <1>2 DEF Rotated, Created, SessionsInv, TypeOK
  <2> HIDE DEF s
  <2> QED BY <1>1, <1>2, <1>3, <1>4, <2>1, InsertRow
<1>6. ASSUME NEW d \in Calls PROVE CallOK(calls[d])'
  <2>1. CASE d = c
    <3>1. calls'[c] = Returning("granted", n) \/ calls'[c] = Idle
      BY <1>1 DEF Replies, SessionsInv, CallsOK
    <3>2. n \in Used'
      BY <1>5
    <3>3. Fits(calls'[c], Used', status', login', raced', vouched')
      BY <3>1, <3>2, ReturnFits DEF Used
    <3> QED BY <2>1, <3>3 DEF CallOK
  <2>2. CASE d # c
    <3>1. calls'[d] = calls[d]
      BY <1>1, <2>2 DEF Replies, SessionsInv, CallsOK
    <3>2. ASSUME d \in Rotating(s)
          PROVE  login[s] \in raced'
      BY <1>3, <2>2, <3>2
    <3>3. Fits(calls[d], Used', status', login', raced', vouched')
      <4>1. /\ CallOK(calls[d])
            /\ calls[d].step = "selected" => /\ calls[d].token \in Used
                                             /\ d \in Rotating(calls[d].token)
        BY DEF SessionsInv, CallsOK, CallOK, Fits, Rotating, At
      <4>2. \A x \in Used : /\ login'[x] = login[x]
                            /\ x = s \/ status'[x] = status[x]
        BY <1>1, <1>2 DEF Rotated, Created, Used, SessionsInv, TypeOK
      <4> QED BY <1>3, <1>5, <3>2, <4>1, <4>2, StillFits DEF CallOK
    <3> QED BY <3>1, <3>3 DEF CallOK
  <2> QED BY <2>1, <2>2
<1>7. CallsOK' /\ Issued'
  <2>1. calls' \in [Calls -> Call]
    BY <1>6, <1>1 DEF CallOK, Fits, Replies, SessionsInv, CallsOK
  <2> QED BY <2>1, <1>1, <1>3, <1>5, <1>6 DEF CallsOK, SessionsInv, Issued
<1>8. TrustIsEarned'
  <2>1. Inherits(c) => login[s] \in vouched
    BY <1>2 DEF Inherits, CallOK, Fits, At
  <2> QED BY <2>1, <1>1, <1>2, <1>3 DEF SessionsInv, TrustIsEarned, Issued, TypeOK, Used
<1>9. TypeOK'
  BY <1>1, <1>2, <1>3, <1>5, <1>7, BrowserAssumption
     DEF SessionsInv, TypeOK, Rotated, Created, Issued, CallsOK, CallOK, Fits, Used
<1> QED BY <1>5, <1>7, <1>8, <1>9 DEF SessionsInv

LEMMA LoginStep ==
  ASSUME SessionsInv, NEW c \in Calls, Login(c)
  PROVE  SessionsInv'
<1>1. PICK n \in Ids : /\ status[n] = "unused"
                       /\ status' = [status EXCEPT ![n] = "active"]
                       /\ login' = [login EXCEPT ![n] = n]
                       /\ Replies(c, "entered", n)
  BY DEF Login, Created
<1>2. /\ n \notin Used /\ UNCHANGED <<stale, trusted, raced, ended, vouched, browser>>
      /\ n \notin ended /\ NotRevoked(n) = {}
  <2>1. n \notin Used /\ UNCHANGED <<stale, trusted, raced, ended, vouched, browser>>
    BY <1>1 DEF Login, Used
  <2>2. n \notin ended
    BY <2>1 DEF SessionsInv, Issued
  <2>3. \A s \in Used : login[s] \in Used
    BY DEF SessionsInv, RowsOK, Used
  <2> QED BY <2>1, <2>2, <2>3 DEF NotRevoked
<1>3. Used' = Used \cup {n} /\ RowsOK' /\ OneRow' /\ NoRow'
  <2>1. status' = [x \in Ids |-> IF x \in {} THEN "revoked"
                                 ELSE IF x = n THEN "active" ELSE status[x]]
    BY <1>1 DEF SessionsInv, TypeOK
  <2>2. raced \subseteq Used
    BY DEF SessionsInv, Issued
  <2>3. /\ n \in Ids \ Used /\ n \in Used \cup {n} /\ {} \in SUBSET Used
        /\ \A s \in {} : login[s] = n
        /\ raced \subseteq raced' /\ raced' \subseteq Used /\ ended' = ended
        /\ n \notin raced' => NotRevoked(n) \subseteq {} /\ n \notin ended
    BY <1>2, <2>2
  <2> QED BY <1>1, <2>1, <2>3, InsertRow
<1>4. ASSUME NEW d \in Calls PROVE CallOK(calls[d])'
  <2>1. CASE d = c
    <3>1. calls'[c] = Returning("entered", n) \/ calls'[c] = Idle
      BY <1>1 DEF Replies, SessionsInv, CallsOK
    <3>2. n \in Used'
      BY <1>3
    <3>3. Fits(calls'[c], Used', status', login', raced', vouched')
      BY <3>1, <3>2, ReturnFits DEF Used
    <3> QED BY <2>1, <3>3 DEF CallOK
  <2>2. CASE d # c
    <3>1. calls'[d] = calls[d] /\ CallOK(calls[d])
      BY <1>1, <2>2 DEF Replies, SessionsInv, CallsOK
    <3>2. \A x \in Used : login'[x] = login[x] /\ status'[x] = status[x]
      BY <1>1, <1>2 DEF Used, SessionsInv, TypeOK
    <3>3. Fits(calls[d], Used', status', login', raced', vouched')
      BY <1>2, <1>3, <3>1, <3>2, StillFits DEF CallOK, Fits
    <3> QED BY <3>1, <3>3 DEF CallOK
  <2> QED BY <2>1, <2>2
<1>5. CallsOK' /\ Issued'
  <2>1. calls' \in [Calls -> Call]
    BY <1>1, <1>4 DEF CallOK, Fits, Replies, SessionsInv, CallsOK
  <2> QED BY <2>1, <1>2, <1>3, <1>4 DEF CallsOK, SessionsInv, Issued, browser
<1>6. TrustIsEarned'
  BY <1>1, <1>2 DEF SessionsInv, TrustIsEarned, Issued, TypeOK, Used
<1>7. TypeOK'
  BY <1>1, <1>2, <1>3, <1>5, BrowserAssumption
     DEF SessionsInv, TypeOK, browser, Issued, CallsOK, CallOK, Fits, Used
<1> QED BY <1>3, <1>5, <1>6, <1>7 DEF SessionsInv

\* Steps that insert no row: a status changes, to "revoked" only for a row that
\* nobody is rotating or whose login is written down as raced; histories and
\* the trusted rows grow.
LEMMA UpdateStep ==
  ASSUME SessionsInv, UNCHANGED <<login, browser>>, Used' = Used,
         status' \in [Ids -> {"unused", "active", "revoked", "expired"}],
         \A s \in Used : status[s] = "revoked" => status'[s] = "revoked",
         \A s \in Used : /\ Rotating(s) # {} /\ status'[s] = "revoked"
                         /\ status[s] # "revoked"
                         => login[s] \in raced',
         stale' \subseteq Ids,
         raced \subseteq raced', raced' \subseteq Used,
         vouched \subseteq vouched', vouched' \subseteq Used,
         ended' \subseteq Used,
         \A l \in ended' \ raced' : l \in ended \/ NotRevoked(l)' = {},
         trusted' \subseteq Used, \A s \in trusted' : login[s] \in vouched',
         calls' \in [Calls -> Call],
         \A c \in Calls : calls'[c] = calls[c] \/ CallOK(calls[c])'
  PROVE  SessionsInv'
<1> USE DEF SessionsInv
<1>1. \A l : NotRevoked(l)' \subseteq NotRevoked(l)
  BY DEF NotRevoked
<1>2. RowsOK' /\ OneRow' /\ NoRow' /\ TrustIsEarned'
  <2>1. RowsOK' /\ TrustIsEarned'
    BY DEF RowsOK, TrustIsEarned
  <2>2. OneRow'
    BY <1>1 DEF OneRow
  <2>3. NoRow'
    BY <1>1 DEF NoRow
  <2> QED BY <2>1, <2>2, <2>3
<1>3. ASSUME NEW c \in Calls PROVE CallOK(calls[c])'
  <2>1. CASE calls'[c] = calls[c]
    <3>1. CallOK(calls[c])
      BY DEF CallsOK
    <3>2. calls[c].step = "selected" => /\ calls[c].token \in Used
                                        /\ Rotating(calls[c].token) # {}
      BY <3>1 DEF CallOK, Fits, Rotating, At
    <3>3. Fits(calls[c], Used', status', login', raced', vouched')
      BY <3>1, <3>2, StillFits DEF CallOK
    <3> QED BY <2>1, <3>3 DEF CallOK
  <2> QED BY <2>1
<1>4. CallsOK' /\ Issued'
  BY <1>3 DEF CallsOK, Issued, browser
<1>5. TypeOK'
  BY <1>4, BrowserAssumption
     DEF TypeOK, browser, Issued, CallsOK, CallOK, Fits, Used
<1> QED BY <1>2, <1>4, <1>5

\* The handlers that write rows or histories and insert nothing, and time.
LEMMA AcceptCodeStep ==
  ASSUME SessionsInv, NEW c \in Calls, AcceptCode(c)
  PROVE  SessionsInv'
<1> DEFINE s == calls[c].token
           r == [calls[c] EXCEPT !.step = "proving"]
<1>1. /\ CallOK(calls[c]) /\ calls[c] \in Call /\ s \in Used /\ login[s] \in Used
      /\ UNCHANGED <<status, login, stale, trusted, raced, ended, browser>>
      /\ vouched' = vouched \cup {login[s]}
  BY DEF AcceptCode, Valid, Active, SessionsInv, CallsOK, CallOK, Fits, RowsOK, Used
<1>2. calls' = [calls EXCEPT ![c] = r] /\ Used' = Used
  BY <1>1 DEF AcceptCode, SessionsInv, CallsOK, Used
<1>3. Fits(r, Used', status', login', raced', vouched')
  <2> DEFINE old == calls[c]
  <2>1. /\ old \in Call /\ r = [old EXCEPT !.step = "proving"]
        /\ CallOK(old) /\ s = old.token
    BY <1>1
  <2> HIDE DEF old, r
  <2>2. /\ r \in Call /\ r.step = "proving"
        /\ r.token = old.token /\ r.got = old.got
    BY <2>1 DEF Call
  <2> QED BY <1>1, <1>2, <2>1, <2>2 DEF CallOK, Fits
<1>4. /\ calls' \in [Calls -> Call]
      /\ \A d \in Calls : calls'[d] = calls[d] \/ CallOK(calls[d])'
  <2> HIDE DEF r
  <2>1. r \in Call
    BY <1>3 DEF Fits
  <2>2. calls'[c] = r /\ CallOK(calls[c])'
    BY <1>2, <1>3 DEF SessionsInv, CallsOK, CallOK
  <2> QED BY <1>2, <2>1, <2>2 DEF SessionsInv, CallsOK
<1> QED BY <1>1, <1>2, <1>4, UpdateStep
        DEF SessionsInv, TypeOK, Issued, NoRow, TrustIsEarned, NotRevoked

LEMMA MarkTrustedStep ==
  ASSUME SessionsInv, NEW c \in Calls, MarkTrusted(c)
  PROVE  SessionsInv'
<1> DEFINE s == calls[c].token
<1>1. /\ s \in Used /\ login[s] \in vouched
      /\ UNCHANGED <<status, login, stale, raced, ended, vouched, browser>>
      /\ trusted' = trusted \cup {s} /\ calls' = [calls EXCEPT ![c] = Idle]
  BY DEF MarkTrusted, At, Ends, SessionsInv, CallsOK, CallOK, Fits
<1>2. Used' = Used
  BY <1>1 DEF Used
<1>3. /\ calls' \in [Calls -> Call]
      /\ \A d \in Calls : calls'[d] = calls[d] \/ CallOK(calls[d])'
  BY <1>1, <1>2, IdleFits DEF SessionsInv, CallsOK, CallOK, Fits, Idle, Carrying
<1> QED BY <1>1, <1>2, <1>3, UpdateStep
        DEF SessionsInv, TypeOK, Issued, NoRow, TrustIsEarned, NotRevoked

LEMMA ServeLogoutStep ==
  ASSUME SessionsInv, NEW c \in Calls, ServeLogout(c)
  PROVE  SessionsInv'
<1> DEFINE s == calls[c].token
<1>1. /\ Replies(c, "left", NoId) /\ s \in Used
      /\ stale' = stale \ {s}
      /\ UNCHANGED <<login, trusted, vouched, browser>>
  BY DEF ServeLogout, SessionsInv, CallsOK, CallOK, Fits
<1>2. calls' \in [Calls -> Call] /\ \A d \in Calls : CallOK(calls'[d])
  BY <1>1, ReplyFits
<1>3. CASE UNCHANGED <<status, ended, raced>>
  <2>1. UNCHANGED <<status, login, trusted, raced, ended, vouched>> /\ stale' \subseteq stale
    BY <1>1, <1>3
  <2> QED BY <1>1, <1>2, <2>1, BrowserStep DEF SessionsInv, Issued, TypeOK, browser
<1>4. CASE ~ UNCHANGED <<status, ended, raced>>
  <2>1. /\ status[s] \in {"active", "expired"} /\ status' = Revoked(s)
        /\ ended' = IF status[s] = "active" THEN ended \cup {login[s]} ELSE ended
        /\ raced' = IF Rotating(s) = {} THEN raced ELSE raced \cup {login[s]}
        /\ s \in Ids /\ login[s] \in Used
    BY <1>1, <1>4 DEF ServeLogout, SessionsInv, RowsOK, Used
  <2>2. /\ status' \in [Ids -> {"unused", "active", "revoked", "expired"}]
        /\ status'[s] = "revoked" /\ \A x \in Ids : x = s \/ status'[x] = status[x]
    BY <2>1 DEF Revoked, SessionsInv, TypeOK
  <2>3. Used' = Used
    BY <2>1, <2>2 DEF Used
  <2>4. /\ raced \subseteq raced' /\ raced' \subseteq Used /\ ended' \subseteq Used
        /\ Rotating(s) # {} => login[s] \in raced'
    BY <2>1 DEF SessionsInv, Issued
  <2>5. \A l \in ended' \ raced' : l \in ended \/ NotRevoked(l)' = {}
    <3>1. SUFFICES ASSUME NEW l \in ended' \ raced', l \notin ended
                   PROVE  NotRevoked(l)' = {}
      OBVIOUS
    <3>2. l = login[s] /\ l \in Ids \ raced
      BY <2>1, <2>4, <3>1 DEF Used
    <3>3. NotRevoked(l) = {s}
      BY <1>1, <2>1, <3>2 DEF SessionsInv, OneRow, NotRevoked, Used
    <3>4. NotRevoked(l)' \subseteq NotRevoked(l) \ {s}
      BY <1>1, <2>2, <2>3 DEF NotRevoked, Used
    <3> QED BY <3>3, <3>4
  <2>6. ASSUME NEW d \in Calls
        PROVE  CallOK(calls[d])' \/ calls'[d] = calls[d]
    <3>1. CASE d = c
      <4>1. calls'[c].step \in {"idle", "left"}
        BY <1>1 DEF Replies, Returning, Idle, Carrying, SessionsInv, CallsOK
      <4>2. /\ calls'[c] \in Call /\ calls'[c].token \in Used' \cup {NoId}
            /\ calls'[c].got \in Used' \cup {NoId}
        BY <1>2, <2>3 DEF CallOK, Fits
      <4>3. Fits(calls'[c], Used', status', login', raced', vouched')
        BY <4>1, <4>2 DEF Fits
      <4> QED BY <3>1, <4>3 DEF CallOK
    <3>2. CASE d # c
      BY <1>1, <3>2 DEF Replies, SessionsInv, CallsOK
    <3> QED BY <3>1, <3>2
  <2>7. /\ \A x \in Used : status[x] = "revoked" => status'[x] = "revoked"
        /\ \A x \in Used : Rotating(x) # {} /\ status'[x] = "revoked" /\ status[x] # "revoked"
                           => login[x] \in raced'
    <3> HIDE DEF s
    <3> QED BY <2>2, <2>4 DEF Used
  <2>8. /\ stale' \subseteq Ids /\ trusted' \subseteq Used
        /\ vouched \subseteq vouched' /\ vouched' \subseteq Used
        /\ \A x \in trusted' : login[x] \in vouched'
    BY <1>1 DEF SessionsInv, TypeOK, Issued, TrustIsEarned
  <2> QED BY <1>1, <1>2, <2>2, <2>3, <2>4, <2>5, <2>6, <2>7, <2>8, UpdateStep
<1> QED BY <1>3, <1>4

LEMMA TimeStep ==
  ASSUME SessionsInv, NEW s \in Ids, AgeAccess(s) \/ Expire(s)
  PROVE  SessionsInv'
<1>1. /\ UNCHANGED <<login, trusted, raced, ended, vouched, browser, calls>>
      /\ stale' \subseteq Ids
      /\ status' \in [Ids -> {"unused", "active", "revoked", "expired"}]
      /\ \A x \in Ids : \/ status'[x] = status[x]
                        \/ status[x] = "active" /\ status'[x] = "expired"
  BY DEF AgeAccess, Expire, SessionsInv, TypeOK
<1>2. Used' = Used
  BY <1>1 DEF Used
<1> QED BY <1>1, <1>2, UpdateStep
        DEF SessionsInv, CallsOK, TypeOK, Issued, NoRow, TrustIsEarned, Used

-----------------------------------------------------------------------------
LEMMA NextStep == SessionsInv /\ [Next]_vars => SessionsInv'
<1> SUFFICES ASSUME SessionsInv, [Next]_vars PROVE SessionsInv'
  OBVIOUS
<1>1. CASE UNCHANGED vars
  <2>1. /\ UNCHANGED <<server, browser, calls>>
    BY <1>1 DEF vars
  <2> QED BY <2>1, BrowserStep DEF SessionsInv, CallsOK, Issued, TypeOK, browser
<1>2. CASE \E c \in Calls :
             \/ Send(c) \/ Answer(c) \/ AcceptCode(c) \/ MarkTrusted(c)
             \/ Recover(c) \/ SelectRow(c) \/ Rotate(c)
             \/ SaveTokens(c) \/ Refused(c) \/ Break(c)
             \/ Login(c) \/ Enter(c) \/ Logout(c) \/ ServeLogout(c) \/ Leave(c)
  BY <1>2, ClientSteps, AcceptCodeStep, MarkTrustedStep, RotateStep, LoginStep,
     ServeLogoutStep
<1>3. CASE \E t \in Tabs : Reload(t)
  BY <1>3, ReloadStep
<1>4. CASE \E s \in Ids : AgeAccess(s) \/ Expire(s)
  BY <1>4, TimeStep
<1> QED BY <1>1, <1>2, <1>3, <1>4 DEF Next

\* The invariant that carries the other results: every handler of the session
\* service and of the browser preserves it, in whatever order they run.
THEOREM Invariance == Spec => []SessionsInv
BY InitStep, NextStep, PTL DEF Spec

\* The rows, the tabs and the calls under way keep their types.
THEOREM TypeCorrect == Spec => []TypeOK
<1>1. SessionsInv => TypeOK
  BY DEF SessionsInv
<1> QED BY <1>1, Invariance, PTL

\* Refreshing never multiplies the sessions of a login, as long as no two
\* requests work on the same row (rotate_session's SELECT and UPDATE).
THEOREM RotationKeepsOne == Spec => []OneSessionPerLogin
<1>1. SessionsInv => OneSessionPerLogin
  BY DEF SessionsInv, OneRow, OneSessionPerLogin, ActiveRows, NotRevoked, Used
<1> QED BY <1>1, Invariance, PTL

\* Logging out by any token that is still good revokes the whole login: the
\* rotated rows are dead already, and no later handler revives one.
THEOREM LogoutIsFinal == Spec => []LogoutEndsLogin
<1>1. SessionsInv => LogoutEndsLogin
  BY DEF SessionsInv, NoRow, LogoutEndsLogin, ActiveRows, NotRevoked, Used
<1> QED BY <1>1, Invariance, PTL

\* trusted_until is never set in a login that has not passed 2FA, although
\* rotation copies a value it read before and mark_trusted checks nothing.
THEOREM TrustIsLocal == Spec => []TrustIsEarned
<1>1. SessionsInv => TrustIsEarned
  BY DEF SessionsInv
<1> QED BY <1>1, Invariance, PTL

-----------------------------------------------------------------------------
\* A refusal is about a row that is gone for good.
Gone == \A c \in Calls : At(c, "refused") => status[calls[c].got] \in {"revoked", "expired"}

LEMMA GoneStep ==
  ASSUME SessionsInv, Gone, [Next]_vars
  PROVE  Gone'
<1>1. ASSUME NEW s \in Ids, status[s] \in {"revoked", "expired"}
      PROVE  status'[s] \in {"revoked", "expired"}
  BY <1>1 DEF Next, vars, server, browser, SessionsInv, TypeOK, Send, Answer,
     AcceptCode, MarkTrusted, Recover, SelectRow, Rotate, Rotated, Created, SaveTokens,
     Refused, Break, DropTokens, Login, Enter, Logout, ServeLogout, Revoked,
     Leave, Reload, AgeAccess, Expire
<1>2. ASSUME NEW c \in Calls, At(c, "refused")'
      PROVE  /\ calls'[c].got \in Ids
             /\ status[calls'[c].got] \in {"revoked", "expired"}
  <2>1. CASE At(c, "refused") /\ calls'[c].got = calls[c].got
    BY <2>1 DEF Gone, At, SessionsInv, CallsOK, CallOK, Fits, Used
  <2>2. CASE SelectRow(c)
    <3> DEFINE s == calls[c].token
    <3>1. s \in Ids /\ status[s] \in {"active", "revoked", "expired"}
      BY <2>2 DEF SelectRow, At, SessionsInv, TypeOK, CallsOK, CallOK, Fits, Used
    <3>2. ~Refreshable(s)
      <4>1. Refreshable(s) => calls'[c].step = "selected"
        BY <2>2 DEF SelectRow, SessionsInv, CallsOK, Call
      <4> QED BY <4>1, <1>2 DEF At
    <3>3. calls'[c] = IF calls[c].live THEN Returning("refused", s) ELSE Idle
      BY <2>2, <3>2 DEF SelectRow, Replies, SessionsInv, CallsOK
    <3>4. calls'[c].got = s
      BY <1>2, <3>3 DEF Returning, Idle, Carrying, At
    <3> QED BY <3>1, <3>2, <3>4 DEF Refreshable
  <2> QED
    <3> DEFINE Now == At(c, "refused") /\ calls'[c].got = calls[c].got
    <3> USE DEF SessionsInv, CallsOK, At, Ends, Idle, Carrying, Replies, Returning
    <3>1. ASSUME NEW d \in Calls,
                 \/ Send(d) \/ Answer(d) \/ MarkTrusted(d)
                 \/ SaveTokens(d) \/ Refused(d) \/ Break(d)
          PROVE  Now
      BY <1>2, <3>1 DEF Send, Answer, MarkTrusted, SaveTokens, Refused, Break,
         DropTokens
    <3>7. ASSUME NEW d \in Calls, AcceptCode(d) \/ Recover(d)
          PROVE  Now
      <4>1. CASE AcceptCode(d)
        BY <1>2, <4>1 DEF AcceptCode, Call
      <4>2. CASE Recover(d) /\ ~CanRefresh(d)
        BY <1>2, <4>2 DEF Recover
      <4>3. CASE Recover(d) /\ CanRefresh(d)
        <5> DEFINE r == [calls[d] EXCEPT !.step = "refreshing", !.token = held[TabOf[d]]]
        <5>1. calls' = [calls EXCEPT ![d] = r]
          BY <4>3 DEF Recover
        <5>2. calls[d] \in Call
          OBVIOUS
        <5>3. r.step = "refreshing"
          BY <5>2 DEF Call
        <5> HIDE DEF r
        <5> QED BY <1>2, <5>1, <5>3
      <4> QED BY <3>7, <4>1, <4>2, <4>3
    <3>2. ASSUME NEW d \in Calls,
                 \/ Rotate(d) \/ Login(d) \/ Enter(d) \/ Logout(d)
                 \/ ServeLogout(d) \/ Leave(d)
          PROVE  Now
      BY <1>2, <3>2 DEF Rotate, Login, Enter, Logout, ServeLogout, Leave
    <3>3. ASSUME NEW d \in Calls, SelectRow(d)
          PROVE  Now \/ SelectRow(c)
      BY <1>2, <3>3 DEF SelectRow
    <3>4. ASSUME NEW t \in Tabs, Reload(t)
          PROVE  Now
      BY <1>2, <3>4 DEF Reload
    <3>5. ASSUME UNCHANGED calls
          PROVE  Now
      BY <1>2, <3>5
    <3>6. Now \/ SelectRow(c)
      BY <3>1, <3>2, <3>3, <3>4, <3>5, <3>7 DEF Next, vars, AgeAccess, Expire
    <3> QED BY <2>1, <2>2, <3>6
<1> QED BY <1>1, <1>2 DEF Gone, At

\* The server never refuses the newest token of a live login, for any number of
\* tabs and calls: what clearAuth throws away after a refusal of the stored
\* token was worthless.
THEOREM OnlyRivals == Spec => OnlyRivalsWipe
<1>1. Init => Gone
  BY DEF Init, Gone, At, Idle, Carrying
<1>2. Gone => [\A c \in Calls : At(c, "refused") /\ calls'[c].step = "idle" =>
                 \/ store' = store
                 \/ status[store] # "active"
                 \/ calls[c].got # store]_vars
  BY DEF Gone
<1>3. Spec => []Gone
  BY <1>1, GoneStep, Invariance, PTL DEF Spec
<1> QED BY <1>2, <1>3, PTL DEF OnlyRivalsWipe
=============================================================================
