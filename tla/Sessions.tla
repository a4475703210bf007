------------------------------ MODULE Sessions ------------------------------
(***************************************************************************)
(* Login sessions: the rows of user_sessions and the handlers that rotate, *)
(* check and revoke them (session.py, auth_guard.py, auth_service.py),     *)
(* together with the browser that holds their tokens (app.js).             *)
(*                                                                         *)
(* create_session makes one access and one refresh token per row, and the  *)
(* client stores and drops them together, so a session id stands for both. *)
(* A tab keeps them in `state' and in localStorage, which all tabs share   *)
(* but read only when a page loads.  A browser call (`calls') is a request *)
(* under way, from the click to the last reply that its handler awaits.    *)
(***************************************************************************)
EXTENDS Naturals, FiniteSets

CONSTANTS Ids,           \* rows that may be inserted, a bound of the model
          Tabs, Calls,   \* pages of one browser, requests under way at once
          TabOf,         \* the page a call belongs to
          TwoFactor,     \* the user has enabled 2FA and sends requests to a
                         \* route behind require_2fa (no route is, so far)
          NoId

ASSUME BrowserAssumption == /\ TabOf \in [Calls -> Tabs]
                            /\ TwoFactor \in BOOLEAN
                            /\ NoId \notin Ids

VARIABLES status,     \* per row: revoked_at and expires_at
          login,      \* history: the login that a row descends from
          stale,      \* active rows whose access token is past its `exp'
          trusted,    \* rows with trusted_until in the future
          held,       \* per tab: state.accessToken, state.refreshToken
          store,      \* the same in localStorage
          calls,
          raced,      \* history: logins with two writers of one row at once
          ended,      \* history: logins whose active row a logout revoked
          vouched     \* history: logins in which a 2FA code was accepted

server == <<status, login, stale, trusted, raced, ended, vouched>>
browser == <<held, store>>
vars == <<server, browser, calls>>

-----------------------------------------------------------------------------
Call == [step : {"idle", "sent", "proving", "refreshing", "selected", "granted",
                 "refused", "entered", "leaving", "left"},
         token : Ids \cup {NoId},      \* the one the request carries
         got : Ids \cup {NoId},        \* the one its reply is about
         trust : BOOLEAN,              \* old_session.trusted_until, as read
         live : BOOLEAN]               \* the page that awaits it still exists

Carrying(step, s) == [step |-> step, token |-> s, got |-> NoId,
                      trust |-> FALSE, live |-> TRUE]

Returning(step, s) == [step |-> step, token |-> NoId, got |-> s,
                       trust |-> FALSE, live |-> TRUE]

Idle == Carrying("idle", NoId)

\* The server may still act on the request.
OnServer == {"sent", "proving", "refreshing", "selected", "leaving"}

At(c, step) == calls[c].step = step
Ends(c) == calls' = [calls EXCEPT ![c] = Idle]

\* A reply about row n is on its way, if anybody waits for it.
Replies(c, step, n) == calls' = [calls EXCEPT
  ![c] = IF calls[c].live THEN Returning(step, n) ELSE Idle]

\* Calls that SELECTed row s for rotation and have not committed.
Rotating(s) == {c \in Calls : At(c, "selected") /\ calls[c].token = s}

\* The `m...' operators are faulty variants of the one that follows them.

\* get_active_session: the row of the token's `sid', if it is good.
Active(s) == s # NoId /\ status[s] = "active"

\* get_current_actor: the access token has not expired, its row is active.
Valid(s) == Active(s) /\ s \notin stale

\* api(): state.refreshToken is there when the 401 arrives.
mUnchecked(c) == calls[c].live

CanRefresh(c) == calls[c].live /\ held[TabOf[c]] # NoId

\* rotate_session's SELECT: by hash, not revoked, not expired.
mFreshOnly(s) == Valid(s)

Refreshable(s) == status[s] = "active"

\* create_session: the table with a row more.
Created(rows, n) == [rows EXCEPT ![n] = "active"]

\* revoked_at is set on the rotated row, the new row comes with it.
mKeepOld(s, n) == Created(status, n)

Rotated(s, n) == Created([status EXCEPT ![s] = "revoked"], n)

\* trust_device: trusted_until as it was when the row was selected.
mTrustAll(c) == TRUE

Inherits(c) == calls[c].trust

\* revoke_by_refresh_token: UPDATE .. WHERE revoked_at IS NULL.
mNotRevoked(s) == status

Revoked(s) == [status EXCEPT ![s] = "revoked"]

Init == /\ status = [s \in Ids |-> "unused"]
        /\ login = [s \in Ids |-> NoId]
        /\ stale = {} /\ trusted = {}
        /\ held = [t \in Tabs |-> NoId]
        /\ store = NoId
        /\ calls = [c \in Calls |-> Idle]
        /\ raced = {} /\ ended = {} /\ vouched = {}

-----------------------------------------------------------------------------
(* api(): a call with the tab's token, and what the guard makes of it.     *)

Send(c) == /\ At(c, "idle")
           /\ calls' = [calls EXCEPT ![c] = Carrying("sent", held[TabOf[c]])]
           /\ UNCHANGED <<server, browser>>

\* Without a token the request is a guest's.
Answer(c) == /\ At(c, "sent")
             /\ Valid(calls[c].token) \/ calls[c].token = NoId
             /\ Ends(c)
             /\ UNCHANGED <<server, browser>>

\* require_2fa accepts the code; mark_trusted updates the row by its id only.
AcceptCode(c) == /\ TwoFactor
                 /\ At(c, "sent")
                 /\ Valid(calls[c].token)
                 /\ calls' = [calls EXCEPT ![c].step = "proving"]
                 /\ vouched' = vouched \cup {login[calls[c].token]}
                 /\ UNCHANGED <<status, login, stale, trusted, raced, ended, browser>>

MarkTrusted(c) == /\ At(c, "proving")
                  /\ trusted' = trusted \cup {calls[c].token}
                  /\ Ends(c)
                  /\ UNCHANGED <<status, login, stale, raced, ended, vouched, browser>>

\* 401: tryRefresh sends the refresh token that the tab holds when the reply
\* arrives, not the one of the session that was denied.  (A token that is
\* invalid stays so: the guard's verdict can be taken at that moment too.  A
\* guest is denied when it has no guest session.)
Recover(c) ==
  /\ At(c, "sent")
  /\ ~Valid(calls[c].token)
  /\ IF CanRefresh(c)
     THEN calls' = [calls EXCEPT ![c].step = "refreshing",
                                 ![c].token = held[TabOf[c]]]
     ELSE Ends(c)
  /\ UNCHANGED <<server, browser>>

-----------------------------------------------------------------------------
(* POST /auth/refresh, and tryRefresh's handling of the reply.             *)

SelectRow(c) ==
  LET s == calls[c].token
  IN /\ At(c, "refreshing")
     /\ IF Refreshable(s)
        THEN calls' = [calls EXCEPT ![c].step = "selected",
                                    ![c].trust = s \in trusted]
        ELSE Replies(c, "refused", s)
     /\ UNCHANGED <<server, browser>>

\* The UPDATE of the row (by primary key, so it does not look at revoked_at
\* again), the INSERT and the commit.  A rival that selected the same row has
\* to wait, and then does the same.
Rotate(c) ==
  LET s == calls[c].token
  IN /\ At(c, "selected")
     /\ \E n \in Ids :
          /\ status[n] = "unused"
          /\ status' = Rotated(s, n)
          /\ login' = [login EXCEPT ![n] = login[s]]
          /\ trusted' = IF Inherits(c) THEN trusted \cup {n} ELSE trusted
          /\ Replies(c, "granted", n)
     /\ raced' = IF Rotating(s) = {c} THEN raced ELSE raced \cup {login[s]}
     /\ stale' = stale \ {s}
     /\ UNCHANGED <<ended, vouched, browser>>

\* saveAuthTokens, then api() calls itself.
SaveTokens(c) ==
  LET n == calls[c].got
  IN /\ At(c, "granted")
     /\ held' = [held EXCEPT ![TabOf[c]] = n]
     /\ store' = n
     /\ calls' = [calls EXCEPT ![c] = Carrying("sent", n)]
     /\ UNCHANGED server

\* catch: clearAuth, whatever the tab holds by now.
DropTokens(c) == /\ IF calls[c].live
                    THEN held' = [held EXCEPT ![TabOf[c]] = NoId] /\ store' = NoId
                    ELSE UNCHANGED <<held, store>>
                 /\ Ends(c)
                 /\ UNCHANGED server

Refused(c) == At(c, "refused") /\ DropTokens(c)

\* The request or its reply is lost, or the handler dies: the same catch.
Break(c) == \/ At(c, "sent") /\ Ends(c) /\ UNCHANGED <<server, browser>>
            \/ calls[c].step \in {"refreshing", "selected", "granted"} /\ DropTokens(c)

-----------------------------------------------------------------------------
(* Login (or registration), logout, a page that is loaded again.           *)

\* The click reads nothing of the state, so it happens with the commit.
Login(c) ==
  /\ At(c, "idle")
  /\ \E n \in Ids : /\ status[n] = "unused"
                    /\ status' = Created(status, n)
                    /\ login' = [login EXCEPT ![n] = n]
                    /\ Replies(c, "entered", n)
  /\ UNCHANGED <<stale, trusted, raced, ended, vouched, browser>>

\* The reply arrives, or is lost.
Enter(c) ==
  LET n == calls[c].got
      t == TabOf[c]
  IN /\ At(c, "entered")
     /\ Ends(c)
     /\ \/ /\ held' = [held EXCEPT ![t] = n] /\ store' = n
        \/ UNCHANGED browser
     /\ UNCHANGED server

Logout(c) == /\ At(c, "idle")
             /\ calls' = [calls EXCEPT ![c] = Carrying("leaving", held[TabOf[c]])]
             /\ UNCHANGED <<server, browser>>

\* The UPDATE waits for a rotation that has updated the row, and finds nothing
\* then; one that has only selected it goes on regardless.
ServeLogout(c) ==
  LET s == calls[c].token
  IN /\ At(c, "leaving") /\ s # NoId
     /\ Replies(c, "left", NoId)
     /\ IF status[s] \in {"active", "expired"}
        THEN /\ status' = Revoked(s)
             /\ ended' = IF status[s] = "active" THEN ended \cup {login[s]} ELSE ended
             /\ raced' = IF Rotating(s) = {} THEN raced ELSE raced \cup {login[s]}
        ELSE UNCHANGED <<status, ended, raced>>
     /\ stale' = stale \ {s}
     /\ UNCHANGED <<login, trusted, vouched, browser>>

\* handleLogout goes on after the reply, or an error it ignores: clearAuth.
Leave(c) ==
  LET t == TabOf[c]
  IN /\ calls[c].step \in {"leaving", "left"}
     /\ Ends(c)
     /\ IF calls[c].live
        THEN /\ held' = [held EXCEPT ![t] = NoId] /\ store' = NoId
        ELSE UNCHANGED browser
     /\ UNCHANGED server

\* A page is opened, or loaded again: nobody awaits the calls of the old one.
Reload(t) ==
  /\ held' = [held EXCEPT ![t] = store]
  /\ calls' = [c \in Calls |->
       IF TabOf[c] # t THEN calls[c]
       ELSE IF calls[c].step \in OnServer THEN [calls[c] EXCEPT !.live = FALSE]
       ELSE Idle]
  /\ UNCHANGED <<server, store>>

\* The age of a dead row's token makes no difference.
AgeAccess(s) == /\ status[s] = "active"
                /\ stale' = stale \cup {s}
                /\ UNCHANGED <<status, login, trusted, raced, ended, vouched, browser, calls>>

Expire(s) == /\ status[s] = "active"
             /\ status' = [status EXCEPT ![s] = "expired"]
             /\ stale' = stale \ {s}
             /\ UNCHANGED <<login, trusted, raced, ended, vouched, browser, calls>>

Next == \/ \E c \in Calls :
             \/ Send(c) \/ Answer(c) \/ AcceptCode(c) \/ MarkTrusted(c)
             \/ Recover(c) \/ SelectRow(c) \/ Rotate(c)
             \/ SaveTokens(c) \/ Refused(c) \/ Break(c)
             \/ Login(c) \/ Enter(c) \/ Logout(c) \/ ServeLogout(c) \/ Leave(c)
        \/ \E t \in Tabs : Reload(t)
        \/ \E s \in Ids : AgeAccess(s) \/ Expire(s)

Spec == Init /\ [][Next]_vars

-----------------------------------------------------------------------------
(* Properties                                                              *)

TypeOK ==
  /\ status \in [Ids -> {"unused", "active", "revoked", "expired"}]
  /\ login \in [Ids -> Ids \cup {NoId}]
  /\ stale \subseteq Ids /\ trusted \subseteq Ids
  /\ held \in [Tabs -> Ids \cup {NoId}] /\ store \in Ids \cup {NoId}
  /\ calls \in [Calls -> Call]
  /\ \A c \in Calls :
       /\ calls[c].step \in {"proving", "refreshing", "selected"} => calls[c].token # NoId
       /\ calls[c].step \in {"granted", "refused", "entered"} => calls[c].got # NoId
  /\ raced \subseteq Ids /\ ended \subseteq Ids /\ vouched \subseteq Ids

ActiveRows(l) == {s \in Ids : status[s] = "active" /\ login[s] = l}

\* However often a login is refreshed, by whichever tab and with whichever of
\* its tokens, it has one active row, unless two requests were at work on the
\* same row at once.
OneSessionPerLogin ==
  \A l \in Ids \ raced : \A s, n \in ActiveRows(l) : s = n

\* A logout that reaches the login's active row ends the whole login: no token
\* ever issued for it is good for anything, unless a rotation was under way.
LogoutEndsLogin == \A l \in ended \ raced : ActiveRows(l) = {}

\* A row is trusted only if a code was accepted in the same login: trust passes
\* along rotations and never from one login to another.
TrustIsEarned == \A s \in trusted : login[s] \in vouched

\* The server never turns down the newest token of a live login: a refusal that
\* wipes one was of another token than the stored one.
OnlyRivalsWipe ==
  [][\A c \in Calls : At(c, "refused") /\ calls'[c].step = "idle" =>
       \/ store' = store
       \/ status[store] # "active"
       \/ calls[c].got # store]_vars

-----------------------------------------------------------------------------
(* A claim of the repository's texts that the code does not keep.          *)

\* The architecture rules ask for stored sessions, so that the user stays
\* logged in: a refresh refused for an old token of a login does not throw away
\* the good token that the login has by now.
LoginIsKept ==
  [][\A c \in Calls : At(c, "refused") /\ calls'[c].step = "idle" =>
       \/ store' = store
       \/ status[store] # "active"
       \/ login[store] # login[calls[c].got]]_vars
=============================================================================
