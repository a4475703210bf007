# Video dating: a TLA+ development

A verification development kept beside the code of the video-dating service (a
FastAPI application over PostgreSQL, Redis and S3, an arq worker, and a
single-page web client). It models the parts of the program in which several
actors touch the same state, checks them with TLC on small instances, and
proves the most important facts with TLAPS for every instance.

## 1. The system

| Part | Code | State | Operations | Talks to |
|---|---|---|---|---|
| Likes, matches, chats | `app/services/match_service.py`, `app/routes/interaction.py` | tables `likes`, `chats` | post a like: insert, look for the reverse like, mark both, open a chat | limits (Redis), users |
| Like limits | `app/guards/limit_guard.py` | Redis counters `likes:guest:<id>`, `likes:daily:<id>:<day>` | read before the handler, increment near its end | every like |
| Registration | `app/services/auth_service.py` | tables `users`, `likes` | insert the account, move the guest's likes to it, look for matches, open a session | likes, sessions |
| Sessions | `app/infra/session.py`, `app/guards/auth_guard.py` | table `user_sessions` | login, refresh (rotation), logout, check on every request | web client |
| Guest sessions | `app/infra/session.py` | Redis `guest:<id>` with a TTL | create, read | likes |
| Web client, tokens | `web/static/js/app.js` | `state`, `localStorage` (shared by tabs) | `api`, `tryRefresh`, login, logout | sessions |
| Web client, decks | `web/static/js/app.js` | `state.cards`, `state.reelsCards`, `seenCardIds` | load, like, skip | feed, likes |
| Video pipeline | `app/services/profile_service.py`, `app/workers/video.py`, `app/infra/storage.py` | `users.video_profile_status/url`, S3 objects, the arq queue | upload URL, confirm, process, delete the raw file | the worker, the feed |
| Profile | `app/services/profile_service.py` | row of `users` | edit, freeze, unfreeze, delete | the feed |
| Balance | `app/services/balance_service.py` | `users.balance` | preview top-up | - |
| Two factors | `app/services/two_factor_service.py`, `require_2fa` | `users.totp_*`, `user_sessions.trusted_until` | set up, enable, disable, check | sessions |
| Rate limiter | `app/middleware/rate_limit.py` | Redis `ratelimit:*` | count, set the expiry, refuse | login, registration |
| Feed | `app/services/feed_service.py` | none | queries with a gender and an age window | users, decks |
| Baskets, chat list | `match_service.py`, `app/services/chat_service.py` | none | list what was sent, received, matched, opened | likes |
| Pricing | `app/services/pricing_service.py` | `pricing_plans` | quote a price | the migrations, which bring the plans |
| Schema | `alembic/versions/*.py`, `infra/database.py`, `scripts/docker-entrypoint.sh` | the schema, `alembic_version` | upgrade, downgrade, `create_all` | every start and reload of the API |
| Seed | `app/services/seed_service.py`, `app/main.py` | demo rows of `users` | at every start in debug mode | users |
| Support, audit, themes, legal, landing pages, scripts | see `PROJECT.json` | appended rows or static files | - | - |

The API runs any number of request handlers at once; each has its own
database session (`get_session`), one transaction at PostgreSQL's default READ
COMMITTED, and commits at most once or twice. Redis is not part of the
transaction. Nothing takes an explicit lock.

What is hard, in one list (each with its line under `hazards` in `PROJECT.json`):
transactions that do not see each other's uncommitted rows; limits that are
read before and raised after; writes outside the transaction (Redis, S3, the
queue); a row that is loaded at the start of a request and written, column by
column, at its end; tokens that several pages hold copies of; replies that
arrive after the world has changed; jobs that are run again; processes that are
stopped between two writes.

### What makes each part correct

* **Likes, matches, chats.** One like per ordered pair; a match is a fact about
  two visible rows; every chat rests on a match; a guest's likes stay hidden
  until the guest has an account, and go to exactly one account; a like is
  never lost; handlers do not wait for each other in a circle.
* **Limits.** Every committed like was counted; concurrency can overrun a limit
  only by the handlers that run at once.
* **Sessions.** A login has one good session however often it is rotated; a
  logout ends it; the trusted-device mark never crosses from one login to
  another; the server does not refuse the newest token.
* **Video.** PROCESSING is left again; the verdict shown is that on the video
  confirmed last; no job spoils another's raw file.
* **Account row.** Money is not made or lost; the second factor that is demanded
  is one the user has proven to hold; a deletion is final.
* **Lists.** Baskets, match count and chat list tell one story.
* **Rate limiter.** A counter always expires; no minute sees twice the limit.
* **Registration.** No contact comes to two accounts; what a guest has stated
  goes to the account or is lost, and is never something else.
* **Feed and decks.** What is served may be seen by that viewer, by the age on
  the card, and who suits is left out only of a full page; a user who waits for
  each answer is passed over nobody, unless profiles come or go, and sees nobody
  again in the reels who was decided on there. Cards decided on in the *other*
  tab do come back (`decks_v_duplicates`), and for a user who does not wait those
  decided on in the reels may, too.
* **Schema and pricing.** The schema is what its version says, whoever has
  migrated, failed, reloaded or been stopped; a quote never exceeds the base price.

## 2. Modules

| Module | What it is | State it shares with others |
|---|---|---|
| `LikeTables` | the three tables of likes, the row operations, the table invariants | - |
| `LikeLists` | the queries over them: baskets, match count, chat list | `LikeTables` |
| `LikeLedger` | abstract specification: every like and registration in one step | `LikeTables` |
| `Matching` | the handlers, concurrent, on uncommitted data | `LikeLists`, `LikeTables`; refines `LikeLedger` |
| `MatchingProofs`, `MatchingRaceProofs` | theorems about them | |
| `Gate`, `GateProofs` | rate limiter, guest sessions, registration up to the account's row | - |
| `Sessions`, `SessionsProofs` | `user_sessions`, the guards, the pages of one browser | - |
| `Feed` | the conditions of the two feed queries, ages and dates | - |
| `Decks`, `DecksProofs` | the two card decks of a page over the feed | `Feed` |
| `VideoPipeline`, `VideoPipelineProofs` | upload, confirm, transcoding job | - |
| `Account`, `AccountProofs` | one row of `users` and the requests that change it | - |
| `Pricing` | a quote, given the rows of `pricing_plans` | - |
| `Revisions` | what each Alembic revision does, and what the ORM models declare | - |
| `Schema`, `SchemaProofs` | containers that migrate, reload and stop over one database | `Revisions`, `Pricing` |
| `MCMatching`, `MCGate`, `MCSessions`, `MCDecks`, `MCVideo`, `MCAccount`, `MCSchema` | instances for TLC | |

Operators whose names begin with `m` are faulty variants (a dropped guard, an
off-by-one, a forgotten reset) of the operator that follows them. No
specification uses them: they are put in its place to see that the properties
notice.

### Matching

A request is a record in `req`: the step it has reached, its actor and target,
and its transaction - row versions written (`put`), keys of committed rows they
replace (`gone`), chats inserted (`opened`). The tables hold committed rows only.

| Action | Code |
|---|---|
| `Admit` | `enforce_like_limit`: GET, compare |
| `InsertLike`, `Refuse` | `create_like` up to the flush, or 400, 404, 409 |
| `TryMatch` | `try_create_mutual_match` and `_create_chat` |
| `Charge` | `increment_like_counter` |
| `CommitLike` | the route's commit |
| `ClaimLikes`, `CommitRegister` | `AuthService.register`: INSERT of the user, `_merge_guest_likes`, commit |
| `Abort` | the handler or a connection dies: rollback, while Redis keeps its counts |
| `NewDay` | `likes:daily:<id>:<day>` gets a new key |

Simplifications, and why nothing is lost. Rows only appear, become visible or
become mutual, so the consecutive SELECTs of one handler amount to one
evaluation, and `TryMatch` is one step. The unique index is the guard
`Insertable`: an INSERT of a key that another transaction holds waits for it.
Guest session ids are taken from the ids of guest sessions. `register` looks its
e-mail and phone up first (`Gate`), opens a session (`Sessions`) and writes an
audit row: these do not touch the likes and are left out here. So are the expiry
of a guest's counter, and deleted accounts: `enforce_like_limit` turns away a
sender who is no longer registered, so that a deletion only ends the sender's
likes, and nobody looks at the `deleted_at` of the receiver.
An UPDATE that waits for a rival claim would, at READ COMMITTED, work from the
snapshot of its start and could miss rows committed while it waits;
`ClaimLikes` takes its snapshot when it no longer has to wait. The rows so missed
would be left behind like those of a like that commits after the claim, which
the model has: `LikesAreKept` and `TablesSound` say what holds of them.

`LikeLists` is evaluated on committed rows: each list is one SELECT, and shown
as a set, since its order (by date) is no matter of these properties.

### Sessions

One user with several pages of one browser. `create_session` makes both tokens
of a row and the client stores and drops them together, so a row's id stands
for both. `calls` are requests under way; `live` says whether the page that
waits for the reply still exists (`Reload`). `Recover` is `api()`'s 401 path:
the token it sends is the one the page holds when the denial arrives.
`Active` is `get_active_session`, `Created` is `create_session`.
`SelectRow` and `Rotate` are the two halves of `rotate_session`: the UPDATE goes
by primary key and does not ask again whether the row is revoked. `ServeLogout`
and `Leave` are the two ends of a logout; `Break` is a lost request or reply.

A click on "log in" is merged with its commit, a denial with its arrival (an
invalid token stays invalid). `stale` is about active rows only, since the age
of a dead row's token makes no difference. `TwoFactor` = TRUE gives the user a
request behind `require_2fa`. At this commit no route depends on that guard, so
with FALSE the model is what the routes do, with TRUE it also exercises the
guard as it is written; the properties other than `TrustIsEarned` do not depend
on it.

### VideoPipeline

The videos of one user. Each upload has its own object key, confirm request and
job, and `stage` says where they are. `Check` and `Mark` are the two halves of
`confirm_upload`, `Enqueue` follows the commit. `Start`, `Approve` or `Reject`,
and `DeleteRaw` are the job; download, transcoding and upload are merged with
the commit, since only the commit is seen by anyone. `saw` is the status as the
handler or job has read it: SQLAlchemy writes a column only if it differs from
that (`Written`). The faults are chosen by `Faults`: "api" (a handler dies),
"worker" (arq stops or kills a job), "backend" (database or store fail).
`CancelledError` is no `Exception`: a job that is stopped runs its `finally` but
writes no verdict, and arq runs it again up to `MaxRuns` times.

### Account

The row of one person, and that person's concurrent requests. The guard loads
the row, the handler gets the same object from the identity map of its database
session, and the commit writes the attributes that differ from what was loaded
(`Updated`). A request is therefore two steps. `text` stands for every column
that PATCH or the avatar route may set; the video columns belong to
`VideoPipeline`. `SeedDemoUsers` runs at every start in debug mode, beside
requests that other processes serve. A TOTP code is represented by the secret it
was made from.

### Gate

One address and its two counters, the guests, the rows of `users` and the
handlers of login and registration. `Count` is INCR with what follows from its
reply, `Expire` the EXPIRE of the first request of a window; `LookUp` are the
SELECTs for e-mail and phone, `TakeGender` reads the guest's session, `Insert` is
the flush and `Commit` the commit; `Die` may come between any two. Time goes in
ticks (`Tick`), in which counters and guest sessions run out. A login ends
behind the limiter: what it does then is in `Sessions`.

### Feed and Decks

`ForCards` and `ForReels` are the WHERE clauses over rows with a gender, a date of
birth and three flags; a date is a year and a day of the year. `Decks` is one page:
`screen`, `cards`, `index`, `seen` are its state, `call` the requests it has under
way. `ServeCards` runs the query with the rows of that moment, `CardsArrive`,
`ReelsArrive` and `LikeArrives` are the code after the `await`, `Fail` a refused or
lost one. A like moves the index when its answer arrives, a skip at once; a load
replaces the deck and keeps the index of the cards, while `Open` shows reels that
are there without a load (`app.js:407`). `hasty` and `shifted` record
the two ways in which a card can be passed over, `base` what was decided when
the reels on show were asked for, `onReels` which cards were decided on there
(`Decide`). A profile that comes or goes is one that is frozen or thawed: to the
queries the same as deleted or approved. The offset, which no client
sends, and the sensitivity of the swipe are left out.

Two texts of the repository say otherwise than the code. The reels are not to
repeat the cards of the other tab (`.cursor/rules/videodating-architecture.mdc:26`),
but a deck of reels that is kept does, and what a load excludes is only what was
decided on. And the same file, at line 75, rules out a filter by age, which
`get_cards` applies to guests; `docs/generate_developer_spec_docx.py:84` asks for
one. `ReelsAreNew` and `ServedCardsFit` say what the code does keep.

### Revisions and Schema

A schema is its tables with their columns and named checks, its indexes, enum
types, price plans and version. `Revisions` lists what each `upgrade` and
`downgrade` adds and removes, in the order of the code, and what `database.py`
declares; `Applicable`, `Revocable` and `Creatable` are what PostgreSQL refuses
(an existing table, one that others refer to, an enum default that is no label
of its type). A container boots through the entrypoint (`Boot`, `Migrate` or
`MigrationFails`), or only reloads its application (`Reload`); either way its
lifespan runs `create_all` (`Inspect`, `CreateAll` or `StartFails`). Each is one
transaction. uvicorn's watcher outlives an application that fails to start, by
`create_all` or by the seed after it: the step is then "down", and the next change of
the source starts the application again without the entrypoint. Column types, NULL
and most defaults are left out; what the model keeps shows that the models and the migrations do drift apart: `ratings` has a
column that only a migration knows, and the labels of two enum types differ, so
that `create_all` fails on a database at revision 000 or 001, and at 002 creates
tables that revision 003 then cannot create.

`Pricing` computes quotes over the plans of the schema, in kopecks.

## 3. Model checking

| Run | Instance | What it shows |
|---|---|---|
| `matching_races` | one account, two newcomers who claim one guest's likes, two handlers, limits of one, fairness | `TablesSound` (the four table invariants), `ListsAgree`, `CounterCoversLikes`, `OnlyCrossedLikesMiss`, `NoRivalWriters`, `ClaimsNeverMatch`, `LikesAreKept`, and that every step is a step of `LikeLedger` (`RefinesLedger`); `EveryRequestEnds`: no handler waits for ever for a key that a like or a registration holds |
| `matching_star` | one person and three admirers, limits of one | `LimitsOverrunBounded`: two handlers overrun a limit or the chat cap by one, and so what one key of the counter is charged, across midnight too |
| `matching_v_crossed` | two people | two crossing likes are never matched, against `design/support.json:13` |
| `gate_races` | one login and two registrations a window, two handlers, two contacts, a guest who expires | `LockedOutOnlyByCrash`, `FewerThanTwiceTheLimit`, `AccountsAreRight` |
| `sessions_tabs` | two pages, a call each, three rows, 2FA | one session per login, logout ends it, trust stays in its login, the newest token is not refused |
| `sessions_v_kept` | one page, two calls | a refused second refresh throws away good tokens |
| `decks_races` | a guest of twenty, two calls, three casts of four people on both sides of every condition of the queries, one of them restless | `NobodyPassedOver`, `ReelsAreNew`, `ServedCardsFit` |
| `decks_v_duplicates` | the first cast, one call | reels that are kept show a card that was decided on in the other tab, against `videodating-architecture.mdc:26` and `app/routes/feed.py:29` |
| `video_faults` | three videos, one unreadable, two runs a job, all faults, fairness | no profile is stuck but by a fault, the latest video decides, verdicts are just, every video is judged |
| `video_v_restart` | one good video, worker faults, five runs a job | a worker that is stopped makes the next run reject a good video |
| `account_row` | two requests, two secrets, a demo row, debug mode | money, second factor, deletion |
| `schema_upgrades` | two containers, a database at any revision | `SchemaIsItsVersion`, `StuckForGood`, `BootedFits`, `QuotesAreFair` over the plans of every schema that is reached |

The `_v_` runs end in a counterexample, each against a sentence of the
repository that is quoted under `findings` in `PROJECT.json`.

**Bounds.** Two handlers (requests, calls) are enough for every race described
above: each is between two transactions. In the passing runs
limits, the chat cap and the balance's upper end are one, so that a limit is reached by the first like and overrun by
the second. Three admirers let a cap of one be overrun by more than the bound
claims, were the claim wrong. Three session rows are a login and two rotations,
or two logins and a rotation. Three uploads let a good video be overtaken by a
good and by a bad one. Two secrets let a setup replace the secret another
request is checking. In `gate_races` a window of one tick and one of two let windows touch
inside and at the edge of what is counted; `MaxHits` is one more than the greater
limit, so that requests are refused; one guest who lives two ticks runs out
before, during and after a registration. Keys of different addresses never
meet, hence one address. In `decks_races` `MaxIndex` of two lets the index run past the last card of a page
of two. The first cast has three people for the cards: whenever the newest is there,
the page is full and one who suits is left out. The others have people whom only the
reels show - too old, too young, a man, one without a gender or a birth date - and
somebody at the other edge of the window; one in each cast is not approved, deleted
or frozen and never shown. Today is the second of a year of three days, so that
birthdays lie before, on and after it and the window's first and last day are neither
(that it holds on every day of a year of any length is proved). In `matching_races`
eve can like bob herself or by claiming the guest's like, fay only by claiming it. A
registration that waits for a guest's rows has not begun in the model, so that
`EveryRequestEnds` is about those who wait for it, and the theorem `LocksAreLetGo`
about the registration itself.
`schema_upgrades` has the four revisions as they are: nothing in it is bounded
but the two containers, of which one can change what the other has read. The
minutes asked for are those around the minimum and the packages. `Ids`, `Uploads`, `Secrets`, `MaxPaid`, `MaxHits` and `MaxIndex` exist only to bound
the models: a model that has used its ids up goes on without further logins,
uploads or set-ups. `NewDay` is not bounded; counters are, by the limits.
`account_row` sets both `Debug` and `Demo`: without them there are no top-ups and
no seed, and only behaviours are lost.

`video_faults` does not look for deadlock: when every upload is done nothing is
left to do. All other runs do.

**Symmetry** is used in runs that check invariants and action properties only,
and the permuted values occur symmetrically in the instance's definitions.

**Fairness.** The event loop runs every handler that can go on, hence weak
fairness of `Serve` (Matching), `Mark` and `Enqueue` (VideoPipeline). PostgreSQL
queues those who wait for a lock first come, first served: an INSERT that waits
for the unique index gets its turn although the key may be taken again in
between, hence strong fairness of `InsertLike`. The workers poll the queue and
take every job, hence weak fairness of `Job`. Nothing is assumed of users,
faults or time.

## 4. Proofs

For all values of the constants, under the assumptions `PeopleAssumption` and
`SettingsAssumption` (guests and users are different ids; limits are naturals;
finitely many handlers, at least one), `GateAssumption`, `BrowserAssumption`,
`CalendarAssumption` and `DecksAssumption` (finitely many people, numbered; rows
have a birth date or none and one of the two genders, which is all that
`contracts/auth.py:8` lets in; today is a date and a card's age a number),
`VideoAssumption`, `AccountAssumption` and `MinutesAssumption` (minutes are
integers), `tlapm` proves:

| Module | Theorems | Inductive invariant |
|---|---|---|
| `MatchingProofs` | `LedgerSound` (of the ledger alone) | `LedgerInv`: the types and the four table invariants |
| | `TypeCorrect`, `LikesAreUnique`, `MatchesAreTwoSided`, `ChatsRestOnMatches`, `GuestsStayHidden`, `ClaimsMatchNobody`, `WritersAreApart`, `LocksAreLetGo`, `Refinement` | `MatchingInv` |
| `MatchingRaceProofs` | `LikesArePaid`, `LimitsHold`, `OnlyCrossingMisses`, `TablesAreSound`, `LikesStay`, `ListsTellOneStory` | `MatchingInv` with `CountsInv`, `KeysInv`, `CapInv`, `MissInv`, `Countable` |
| `GateProofs` | `GateTypeCorrect`, `LockoutsComeFromCrashes`, `RegistrationsAreRight`, `TwiceTheLimitIsNotReached` | `GateInv`, `Windows` |
| `SessionsProofs` | `TypeCorrect`, `RotationKeepsOne`, `LogoutIsFinal`, `TrustIsLocal`, `OnlyRivals` | `SessionsInv` |
| `DecksProofs` | `WindowIsSound`, `WindowIsWideEnough` (arithmetic of dates), `DecksTypeCorrect`, `ReelsStayNew`, `CardsKeepOrder`, `PagesFit` | `DecksInv` |
| `VideoPipelineProofs` | `TypeCorrect`, `StuckOnlyFaulty`, `VideosApart`, `LatestWins`, `VerdictsAreJust` | `VideoInv` |
| `AccountProofs` | `TypeCorrect`, `MoneyKept`, `FactorProven`, `DeletedOut`, `DeletedForGood` | `AccountInv` |
| `SchemaProofs` | `SchemaTypes`, `SchemaFollows`, `NoWayBack`, `BootedFindsItsTables`, `FairQuotes`, `DowngradeUndoes` (of any two revisions), `LongerCallsCostMore` (of any row of `pricing_plans`) | `SInv` |

*Matching.* The tables alone are not inductive: whether a commit keeps them
sound depends on what the handler wrote steps earlier, on tables that have
changed since. `Shapes` says that what a request has written is, in every state,
the difference that one ledger step would make to the tables as they are *now*;
it survives the steps of others because of `Locks` (no two requests hold one
key) and `Newcomers` (no two register one id). A commit then is a ledger step
(`CommitLikeLedger`, `CommitRegisterLedger`), soundness of the tables comes from
`LedgerStep`, and the refinement theorem from the same two lemmas. A request that
waits for a key has written nothing, so whoever it waits for does not wait
itself: `LocksAreLetGo` is what `EveryRequestEnds` rests on besides fairness.

*What races cost.* Each limit is a counting argument. `CountsInv`: the likes
committed today, with those of the handlers still on their way, are at most the
limit and one like for each handler but one, because a handler was admitted
with the counter below the limit and the counter covers what is committed.
`KeysInv` says the same of what one key of the counter is charged, with those who
are on their way to charge it (`Coming`), from whichever day: midnight empties the
key and adds nobody to them.
`CapInv` says the same of chats and of the handlers about to open one.
`MissInv` is why only crossing likes are missed: a handler that has looked for
the reverse like and found none (`Looked`) keeps its own key until its commit, so
that whoever inserts the reverse like meanwhile notes the crossing (`Noticed`); a
registration cannot be the one who brings it, since nobody has liked an account
that is not there. `Countable` (only finitely many likes) is needed to count.

*Gate.* `Openers`: a counter without an expiry has exactly one handler on its way
to set it, or lost that handler. `Claims` and `Apart`: what a registration has
read of its guest stays true of it, and no two rows, committed or inserted,
share a contact. `Windows`: of the requests admitted in the last window, the
older belong to a life of the counter that has ended and were fewer than the
limit, the younger to the one that runs and are what the counter says; a life
lasts at least a window from the request that set its expiry. The model adds the
ticks up with a fold; the proof goes by partial sums and shows that the fold is
the last of them (`LastPartialSum`), by counting marks in two ways.

*Decks.* `Memory`: what the user had decided when a load was asked for is kept out
of its reply. `Waiting`: as long as the user waits, one call at most is under way
and a like is of the card that is up. The second is what makes
`NobodyPassedOver` inductive. `Once`: as long as the user waits, nobody decided on in
the reels is ahead in the reels on show, and none is in a reply under way; it needs
that a page names nobody twice. That a profile is left out of a page only when
the page is full of newer ones counts along a list: the number of newer people is
a rank, and ranks are a bijection (`Ranks`, `LeftOutOfAFullPage`).

*Sessions.* A login that no race has touched has one row that is not revoked.
`NotRevoked` counts expired rows too: a handler may have selected a row just
before it expired, and still rotate it. `CallsOK` carries what a handler has read: a selected
row is still unrevoked, or its login is in `raced`.

*VideoPipeline.* PROCESSING is always accompanied by `Relief`: a handler that
will queue a job, a job that will start, or a running one that has read
PROCESSING, whose verdict dirty tracking cannot swallow. `OneFresh` keeps videos
apart as long as nothing was repeated, which gives `LatestOK`.

*Account.* `Guarded` carries what a request's guard has seen. A commit writes
columns that its handler changed; of what it relied on, either nothing has
changed since, or `crossed` says so.

*Schema.* `Fits` says what a revision expects of the schema it is applied to,
`Reverses` that its downgrade names exactly what it made; of any schema and any
such pair, `DowngradeUndoes` shows that going up and down again changes nothing.
The four revisions fit one after the other (`Laid`), so that alembic alone moves
between five schemas. `create_all` can only make the tables of 003, at 001 or 002
(`WhatIsCreated`), which gives two more; they are joined by 002 (`Patched2`), have
no migration up and no downgrade out (`PatchedIsStuck`). `SInv` says that the
database is one of the seven, and that who has found or reached the head still
has it.

**Only model-checked:** `EveryRequestEnds` and `EveryVideoIsJudged`, since
fairness and ENABLED are out of TLAPS' reach. The four sentences that the `_v_`
runs refute are false, so there is nothing to prove.

## 5. What is not modelled

* **Support, FAQ, reports, audit log.** Each message is one row inserted, and no
  code reads it again: there is nothing for a model to find.
* **Themes, legal texts, client configuration, landing pages, preview.** Static
  files that are read and returned, and pages of carousels without shared state.
* **`docs/miro_*.py`, `docs/generate_*.py`, deployment scripts.** They draw a
  planning board, write a Word file and publish pages: about 44 % of the
  repository's Python, and no part of the running program.
* **Of modelled parts:** the guest token of the web client and its boot
  (`Sessions` has accounts only); the video columns of the demo rows and their
  first insertion; response headers; column types and the tables that no code
  writes yet (dates, ratings, payments, moderation), but for their place in the
  schema; ordering and pagination of lists other than the feed's newest page.

Two boundaries are deliberate. Each module has its part of a row that several
share: `Account` and `VideoPipeline` write different columns of `users`, and
dirty tracking keeps them apart (`Updated`, `Written`), so that neither can
disturb the other's properties. And a deleted or frozen account is only what
`Account` says of its row and `Feed` of its card: `match_service.py` asks for
neither, so `Matching` does not either.

## 6. The order of the work, and what is left

`Matching` with its ledger came first (the purpose of the program), then
`Sessions` (most actors), `VideoPipeline` (most faults), `Account` (the row everyone
shares), then `LikeLists`, `Gate`, `Feed` and `Decks`, and `Pricing` with
`Revisions` and `Schema`; the counting arguments about `Matching` last. What
could be added:

1. the guest token and the boot of the client, composed with `Sessions` (which
   token a request carries when both exist);
2. `Account` composed with `Sessions`: the sessions of a deleted account.
