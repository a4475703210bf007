------------------------------- MODULE Schema -------------------------------
(***************************************************************************)
(* The database schema under everything that changes it: containers whose  *)
(* entrypoint runs `alembic upgrade head` before the API starts, the API   *)
(* itself, whose lifespan runs create_all at every start and every reload  *)
(* (uvicorn --reload on a mounted source tree, whose watcher outlives an   *)
(* application that fails to start), and `alembic downgrade'.              *)
(*                                                                         *)
(* Each is one transaction with transactional DDL: what it is going to do  *)
(* follows from what it read when it began (the version, the tables that   *)
(* were missing); at its end it is applied as a whole, or fails as a whole *)
(* because a table it creates exists by then.                              *)
(*                                                                         *)
(* The code is that of the head revision; the database may be older, as    *)
(* after a pull.                                                           *)
(***************************************************************************)
EXTENDS Revisions

CONSTANTS Containers,
          QuoteMinutes   \* minutes that people ask a price for

ASSUME MinutesAssumption == QuoteMinutes \subseteq Int

VARIABLES db,        \* the committed schema
          proc,      \* what each container is doing
          patched,   \* history: create_all has created a table
          lowered    \* history: a downgrade was run

vars == <<db, proc, patched, lowered>>

-----------------------------------------------------------------------------
(* One revision up or down.                                                *)

\* The `m...' operators are faulty variants of the one that follows them.

\* create_table and add_column refuse what exists; types are created with
\* checkfirst.
Applicable(s, r) ==
  /\ r.new \cap DOMAIN s.cols = {}
  /\ r.idx \cap s.idx = {}
  /\ \A t \in DOMAIN r.cols : /\ t \in DOMAIN s.cols \cup r.new
                              /\ r.cols[t] \cap Cols(s.cols, t) = {}

mTwoSteps(s, r) == [cols |-> Merge(s.cols, r.cols), idx |-> s.idx \cup r.idx,
                    types |-> s.types \cup r.types, plans |-> s.plans \cup r.plans,
                    version |-> s.version + 2]

Upgraded(s, r) == [cols |-> Merge(s.cols, r.cols), idx |-> s.idx \cup r.idx,
                   types |-> s.types \cup r.types, plans |-> s.plans \cup r.plans,
                   version |-> s.version + 1]

Empty == [cols |-> <<>>, idx |-> {}, types |-> {}, plans |-> {}, version |-> 0]

\* The schemas on the way from s to the head.
Path(s) ==
  LET path[v \in s.version..Newest] ==
        IF v = s.version THEN s ELSE Upgraded(path[v - 1], Upgrade[v])
  IN path

CanReachHead(s) ==
  \A v \in s.version + 1 .. Newest : Applicable(Path(s)[v - 1], Upgrade[v])

Canonical == Path(Empty)

\* DROP TABLE is refused while another table refers to it.
DropsInOrder(s, r) ==
  \A i \in DOMAIN r.tables : \A t \in DOMAIN s.cols :
    <<t, r.tables[i]>> \in ForeignKeys => \E j \in 1..i - 1 : r.tables[j] = t

Revocable(s, r) ==
  /\ \A i \in DOMAIN r.tables : r.tables[i] \in DOMAIN s.cols
  /\ DropsInOrder(s, r)
  /\ r.idx \subseteq s.idx
  /\ \A t \in DOMAIN r.cols : r.cols[t] \subseteq Cols(s.cols, t)

\* An index goes with its column, a column and a row with their table.
mForgetful(s, r) == [t \in DOMAIN s.cols |-> s.cols[t] \ Cols(r.cols, t)]

RemainingCols(s, r) ==
  [t \in DOMAIN s.cols \ {r.tables[i] : i \in DOMAIN r.tables} |->
     s.cols[t] \ Cols(r.cols, t)]

mWipe(s, r) == Canonical[s.version - 1]

Downgraded(s, r) ==
  LET cols == RemainingCols(s, r)
  IN [cols |-> cols,
      idx |-> {i \in s.idx \ r.idx : i[2] \in Cols(cols, i[1])},
      types |-> s.types \ r.types,
      plans |-> IF "pricing_plans" \in DOMAIN cols THEN s.plans ELSE {},
      version |-> s.version - 1]

-----------------------------------------------------------------------------
(* create_all: the missing tables of the models, and nothing in others.    *)

Missing(s) == DOMAIN ModelCols \ DOMAIN s.cols

DefaultFits(s, t) == t \in DOMAIN LabelDrift => LabelDrift[t] \in s.types

Creatable(s, todo) ==
  /\ todo \cap DOMAIN s.cols = {}
  /\ \A t \in todo : DefaultFits(s, t)
  /\ \A k \in ForeignKeys : k[1] \in todo => k[2] \in DOMAIN s.cols \cup todo

WithTables(s, todo) ==
  [s EXCEPT !.cols = Merge(@, [t \in todo |-> ModelCols[t]]),
            !.idx = @ \cup {i \in ModelIdx : i[1] \in todo},
            !.types = @ \cup UNION {Cols(ModelTypes, t) : t \in todo}]

-----------------------------------------------------------------------------
(* A container: the step it is at, whether its application was started by   *)
(* the entrypoint, and what its transaction has read.  "down" is a reloader *)
(* whose application did not start.                                         *)
Step == {"off", "migrating", "starting", "creating", "up", "down"}

Off == [step |-> "off", booted |-> FALSE, saw |-> 0, todo |-> {}]

Served == [Off EXCEPT !.step = "up"]

Init == /\ db \in {Canonical[v] : v \in 0..Newest}
        /\ proc \in [Containers -> {Off, Served}]
        /\ patched = FALSE
        /\ lowered = FALSE

\* docker-entrypoint.sh: `alembic upgrade head' reads alembic_version.
Boot(c) == /\ proc[c].step = "off"
           /\ proc' = [proc EXCEPT ![c] = [Off EXCEPT !.step = "migrating",
                                                      !.saw = db.version]]
           /\ UNCHANGED <<db, patched, lowered>>

\* All revisions in one transaction.  If another has moved the version since,
\* a table exists already or the UPDATE of alembic_version hits no row.
MayMigrate(c) == proc[c].saw = db.version /\ CanReachHead(db)

Migrate(c) ==
  /\ proc[c].step = "migrating"
  /\ proc[c].saw < Newest
  /\ MayMigrate(c)
  /\ db' = Path(db)[Newest]
  /\ proc' = [proc EXCEPT ![c].step = "starting", ![c].booted = TRUE]
  /\ UNCHANGED <<patched, lowered>>

NothingToMigrate(c) ==
  /\ proc[c].step = "migrating"
  /\ proc[c].saw = Newest
  /\ proc' = [proc EXCEPT ![c].step = "starting", ![c].booted = TRUE]
  /\ UNCHANGED <<db, patched, lowered>>

\* set -e: the container stops.
MigrationFails(c) ==
  /\ proc[c].step = "migrating"
  /\ proc[c].saw < Newest
  /\ ~MayMigrate(c)
  /\ proc' = [proc EXCEPT ![c] = Off]
  /\ UNCHANGED <<db, patched, lowered>>

\* The source has changed: uvicorn starts the application again, the one that
\* failed to start as well.
Reload(c) == /\ proc[c].step \in {"up", "down"}
             /\ proc' = [proc EXCEPT ![c] = [Off EXCEPT !.step = "starting"]]
             /\ UNCHANGED <<db, patched, lowered>>

\* init_db, first half: create_all looks which tables are there.
Inspect(c) ==
  /\ proc[c].step = "starting"
  /\ proc' = [proc EXCEPT ![c].step = "creating", ![c].todo = Missing(db)]
  /\ UNCHANGED <<db, patched, lowered>>

\* The seed of demo users, which follows in debug mode, may still fail.
CreateAll(c) ==
  /\ proc[c].step = "creating"
  /\ Creatable(db, proc[c].todo)
  /\ db' = WithTables(db, proc[c].todo)
  /\ patched' = (patched \/ proc[c].todo # {})
  /\ \E s \in {"up", "down"} :
       proc' = [proc EXCEPT ![c].step = s, ![c].todo = {}]
  /\ UNCHANGED lowered

StartFails(c) == /\ proc[c].step = "creating"
                 /\ ~Creatable(db, proc[c].todo)
                 /\ proc' = [proc EXCEPT ![c] = [Off EXCEPT !.step = "down"]]
                 /\ UNCHANGED <<db, patched, lowered>>

Stop(c) == /\ proc[c].step # "off"
           /\ proc' = [proc EXCEPT ![c] = Off]
           /\ UNCHANGED <<db, patched, lowered>>

\* `alembic downgrade -1' by hand, at any moment.
Lower == /\ db.version > 0
         /\ Revocable(db, Downgrade[db.version])
         /\ db' = Downgraded(db, Downgrade[db.version])
         /\ lowered' = TRUE
         /\ UNCHANGED <<proc, patched>>

Next == \/ \E c \in Containers : \/ Boot(c) \/ Migrate(c) \/ NothingToMigrate(c)
                                 \/ MigrationFails(c) \/ Reload(c) \/ Inspect(c)
                                 \/ CreateAll(c) \/ StartFails(c) \/ Stop(c)
        \/ Lower

Spec == Init /\ [][Next]_vars

-----------------------------------------------------------------------------
(* Properties.                                                             *)

TypeOK ==
  /\ DOMAIN db.cols \subseteq DOMAIN ModelCols
  /\ db.version \in 0..Newest
  /\ \A c \in Containers : /\ proc[c].step \in Step
                           /\ proc[c].saw \in 0..Newest
                           /\ proc[c].todo \subseteq DOMAIN ModelCols

\* However containers race, fail and are stopped, and however often revisions
\* are taken back and applied again, the schema is exactly what the version
\* says, unless create_all has had a hand in it.  That can only be between
\* 001 and 002: at 000 and 001 it fails (the labels do not fit), and from 003
\* on no table is missing.
SchemaIsItsVersion ==
  IF patched THEN db.version \in {1, 2} /\ "user_sessions" \in DOMAIN db.cols
             ELSE db = Canonical[db.version]

\* A reload on a database at 002 blocks the migrations (003 creates the tables
\* that create_all has made), and for good: no boot, no reload, no migration
\* and no downgrade brings back a schema that cannot reach the head.
StuckForGood == [][~CanReachHead(db) => ~CanReachHead(db')]_vars

\* An API that was started by the entrypoint finds every table, column and
\* index its handlers use just as the models declare them, unless someone
\* downgrades under its feet.  (The models of dates, ratings, moderation and
\* subscriptions do differ from the migrated tables; no handler uses them.)
HandlerTables == {"users", "likes", "chats", "user_sessions", "audit_log",
                  "pricing_plans"}

BootedFits ==
  \A c \in Containers :
    proc[c].step \in {"starting", "creating", "up"} /\ proc[c].booted /\ ~lowered
    => \A t \in HandlerTables :
         /\ Cols(db.cols, t) = ModelCols[t]
         /\ {i \in db.idx : i[1] = t} = {i \in ModelIdx : i[1] = t}
         /\ Cols(ModelTypes, t) \subseteq db.types

\* Whatever has happened to the schema, a quote is either refused or fair: the
\* plans are there with the migration that can still be reached, a package
\* costs no more than its minutes would, a longer one no more per minute than
\* a shorter one, and a call is charged at least the minimum and never less
\* for more minutes.
QuotesAreFair ==
  LET quote(slug, m) == QuoteBySlug(db.plans, slug, m)
      packages == {p \in db.plans : p.type = "package"}
  IN /\ "pricing_plans" \in DOMAIN db.cols => (db.plans # {} <=> CanReachHead(db))
     /\ db.plans # {} =>
          /\ \A p \in packages :
               /\ quote(p.slug, None).price <= quote("per_minute", p.minutes).price
               /\ \A q \in packages :
                    p.minutes < q.minutes => q.price * p.minutes <= p.price * q.minutes
          /\ \A m \in QuoteMinutes, n \in QuoteMinutes :
               /\ quote("per_minute", m).price >= quote("per_minute", None).price
               /\ m <= n => quote("per_minute", m).price <= quote("per_minute", n).price
     /\ db.plans = {} => \A m \in QuoteMinutes : quote("per_minute", m) = Unknown
=============================================================================
