---------------------------- MODULE SchemaProofs ----------------------------
(***************************************************************************)
(* Proofs about the schema, for any number of containers and any minutes   *)
(* people ask a price for.                                                 *)
(*                                                                         *)
(* The argument: each revision fits exactly the schema the ones before it  *)
(* leave (Fits), and its downgrade names exactly what it made (Reverses),  *)
(* so that a downgrade undoes an upgrade; alembic alone therefore only     *)
(* moves between five schemas.  create_all adds to two of them only, at    *)
(* 001 and 002, the tables of 003; the two that result are joined by 002   *)
(* and have no other way out.  Hence the invariant: the database is one of *)
(* these seven (Shape), and what a container has read or done still        *)
(* agrees with it (AtHead).                                                *)
(***************************************************************************)
EXTENDS Schema, TLAPS

-----------------------------------------------------------------------------
(* Operators of Revisions and Schema.                                      *)

\* The four revisions.
LEMMA Revised ==
  /\ Newest = 4
  /\ Upgrade[1] = Upgrade001 /\ Upgrade[2] = Upgrade002
  /\ Upgrade[3] = Upgrade003 /\ Upgrade[4] = Upgrade004
  /\ Downgrade[1] = Downgrade001 /\ Downgrade[2] = Downgrade002
  /\ Downgrade[3] = Downgrade003 /\ Downgrade[4] = Downgrade004
BY DEF Newest, Upgrade, Downgrade

\* Merge, read through Cols.
LEMMA MergedCols ==
  /\ \A f, g : DOMAIN Merge(f, g) = DOMAIN f \cup DOMAIN g
  /\ \A f, g, t : Cols(Merge(f, g), t) = Cols(f, t) \cup Cols(g, t)
<1>1. \A f, g : DOMAIN Merge(f, g) = DOMAIN f \cup DOMAIN g
  BY DEF Merge
<1>2. \A f, g, t : Cols(Merge(f, g), t) = Cols(f, t) \cup Cols(g, t)
  BY DEF Merge, Cols
<1> QED BY <1>1, <1>2

\* The schemas on the way up satisfy the equation that Path states.
LEMMA PathUnfolds ==
  ASSUME NEW s, s.version \in 0..4
  PROVE  Path(s) = [v \in s.version..4 |->
                      IF v = s.version THEN s ELSE Upgraded(Path(s)[v - 1], Upgrade[v])]
<1> DEFINE n == s.version
           A1 == Upgraded(s, Upgrade[n + 1])
           A2 == Upgraded(A1, Upgrade[n + 2])
           A3 == Upgraded(A2, Upgrade[n + 3])
           A4 == Upgraded(A3, Upgrade[n + 4])
           Next1(p) == [v \in n..4 |-> IF v = n THEN s ELSE Upgraded(p[v - 1], Upgrade[v])]
           g == [v \in n..4 |-> IF v = n THEN s
                                ELSE IF v = n + 1 THEN A1
                                ELSE IF v = n + 2 THEN A2
                                ELSE IF v = n + 3 THEN A3 ELSE A4]
<1>1. n \in 0..4
  OBVIOUS
<1> HIDE DEF n
<1>2. g = Next1(g)
  <2>1. ASSUME NEW v \in n..4
        PROVE  g[v] = Next1(g)[v]
    <3> HIDE DEF A1, A2, A3, A4
    <3>1. CASE v = n
      BY <3>1
    <3>2. CASE v = n + 1
      BY <1>1, <3>2 DEF A1
    <3>3. CASE v = n + 2
      BY <1>1, <3>3 DEF A2
    <3>4. CASE v = n + 3
      BY <1>1, <3>4 DEF A3
    <3>5. CASE v = n + 4
      BY <1>1, <3>5 DEF A4
    <3> QED BY <1>1, <3>1, <3>2, <3>3, <3>4, <3>5
  <2> QED BY <2>1
<1> DEFINE p == CHOOSE p : p = Next1(p)
<1>3. p = Next1(p)
  <2> HIDE DEF g
  <2> QED BY <1>2
<1>4. Path(s) = p
  BY Revised DEF Path, n
<1> QED BY <1>3, <1>4 DEF n

-----------------------------------------------------------------------------
(* One revision, up and down again.                                        *)

\* A revision finds nothing of what it makes, and everything it builds on.
Fits(s, u) ==
  /\ u.new \cap DOMAIN s.cols = {}
  /\ u.idx \cap s.idx = {}
  /\ u.types \cap s.types = {}
  /\ u.new \subseteq DOMAIN u.cols
  /\ DOMAIN u.cols \subseteq DOMAIN s.cols \cup u.new
  /\ \A t \in DOMAIN u.cols : u.cols[t] \cap Cols(s.cols, t) = {}
  /\ \A i \in u.idx : i[2] \in Cols(s.cols, i[1]) \cup Cols(u.cols, i[1])
  /\ u.plans # {} => "pricing_plans" \in u.new

\* A downgrade drops what the upgrade made, and nothing else.
Reverses(d, u) ==
  /\ {d.tables[i] : i \in DOMAIN d.tables} = u.new
  /\ DOMAIN d.cols = DOMAIN u.cols \ u.new
  /\ \A t \in DOMAIN d.cols : d.cols[t] = u.cols[t]
  /\ d.idx \subseteq u.idx
  /\ \A i \in u.idx \ d.idx : i[1] \in u.new
  /\ d.types = u.types

\* A schema has these five parts, its indexes are on its columns, and the
\* plans are in a table.
Solid(s) ==
  /\ s = [cols |-> s.cols, idx |-> s.idx, types |-> s.types, plans |-> s.plans,
          version |-> s.version]
  /\ s.cols = [t \in DOMAIN s.cols |-> s.cols[t]]
  /\ \A i \in s.idx : i[2] \in Cols(s.cols, i[1])
  /\ s.plans # {} => "pricing_plans" \in DOMAIN s.cols
  /\ s.version \in Int

\* A revision that finds the schema as it expects can be applied, and what it
\* leaves is solid again.
LEMMA UpgradeFits ==
  ASSUME NEW s, NEW u, Solid(s), Fits(s, u)
  PROVE  Applicable(s, u) /\ Solid(Upgraded(s, u))
<1> DEFINE z == Upgraded(s, u)
<1>1. Applicable(s, u)
  BY DEF Applicable, Fits
<1>2. /\ z = [cols |-> Merge(s.cols, u.cols), idx |-> s.idx \cup u.idx,
              types |-> s.types \cup u.types, plans |-> s.plans \cup u.plans,
              version |-> s.version + 1]
  BY DEF Upgraded
<1> HIDE DEF z
<1>m. z.cols = Merge(s.cols, u.cols)
  BY <1>2
<1>3. DOMAIN z.cols = DOMAIN s.cols \cup DOMAIN u.cols
  BY <1>m, MergedCols
<1>4. \A t : Cols(z.cols, t) = Cols(s.cols, t) \cup Cols(u.cols, t)
  BY <1>m, MergedCols
<1>5. z.cols = [t \in DOMAIN z.cols |-> z.cols[t]]
  <2>1. \A f, g : Merge(f, g) = [t \in DOMAIN Merge(f, g) |-> Merge(f, g)[t]]
    BY DEF Merge
  <2> QED BY <1>m, <2>1
<1>6. \A i \in z.idx : i[2] \in Cols(z.cols, i[1])
  <2>1. z.idx = s.idx \cup u.idx
    BY <1>2
  <2>2. \A i \in s.idx : i[2] \in Cols(s.cols, i[1])
    BY DEF Solid
  <2>3. \A i \in u.idx : i[2] \in Cols(s.cols, i[1]) \cup Cols(u.cols, i[1])
    BY DEF Fits
  <2> QED BY <1>4, <2>1, <2>2, <2>3
<1>7. z.plans # {} => "pricing_plans" \in DOMAIN z.cols
  <2>1. z.plans = s.plans \cup u.plans
    BY <1>2
  <2>2. s.plans # {} => "pricing_plans" \in DOMAIN s.cols
    BY DEF Solid
  <2>3. u.plans # {} => "pricing_plans" \in DOMAIN u.cols
    BY DEF Fits
  <2> QED BY <1>3, <2>1, <2>2, <2>3
<1>8. z.version \in Int
  BY <1>2 DEF Solid
<1>9. Solid(z)
  BY <1>2, <1>5, <1>6, <1>7, <1>8 DEF Solid
<1> QED BY <1>1, <1>9 DEF z

\* Its downgrade() gives back exactly the schema upgrade() was applied to:
\* columns, indexes, types and rows.
LEMMA DowngradeUndoes ==
  ASSUME NEW s, NEW u, NEW d, Solid(s), Fits(s, u), Reverses(d, u)
  PROVE  Downgraded(Upgraded(s, u), d) = s
<1> DEFINE z == Upgraded(s, u)
           c == RemainingCols(z, d)
<1>1. /\ z = [cols |-> Merge(s.cols, u.cols), idx |-> s.idx \cup u.idx,
              types |-> s.types \cup u.types, plans |-> s.plans \cup u.plans,
              version |-> s.version + 1]
  BY DEF Upgraded
<1> HIDE DEF z
<1>m. z.cols = Merge(s.cols, u.cols)
  BY <1>1
<1>2. DOMAIN z.cols = DOMAIN s.cols \cup DOMAIN u.cols
  BY <1>m, MergedCols
<1>3. \A t \in DOMAIN z.cols : z.cols[t] = Cols(s.cols, t) \cup Cols(u.cols, t)
  BY <1>m DEF Merge
<1>4. c = [t \in DOMAIN z.cols \ u.new |-> z.cols[t] \ Cols(d.cols, t)]
  BY DEF RemainingCols, Reverses
<1>5. DOMAIN z.cols \ u.new = DOMAIN s.cols
  BY <1>2 DEF Fits
<1>6. ASSUME NEW t \in DOMAIN s.cols
      PROVE  z.cols[t] \ Cols(d.cols, t) = s.cols[t]
  <2>1. z.cols[t] = s.cols[t] \cup Cols(u.cols, t)
    BY <1>2, <1>3 DEF Cols
  <2>2. Cols(d.cols, t) = Cols(u.cols, t)
    BY DEF Cols, Reverses, Fits
  <2>3. Cols(u.cols, t) \cap s.cols[t] = {}
    BY DEF Cols, Fits
  <2> QED BY <2>1, <2>2, <2>3
<1>7. c = s.cols
  BY <1>4, <1>5, <1>6 DEF Solid
<1> HIDE DEF c
<1>8. {i \in z.idx \ d.idx : i[2] \in Cols(c, i[1])} = s.idx
  <2>1. \A i \in s.idx : i \in z.idx \ d.idx /\ i[2] \in Cols(c, i[1])
    BY <1>1, <1>7 DEF Solid, Fits, Reverses
  <2>2. \A i \in u.idx \ d.idx : i[2] \notin Cols(c, i[1])
    BY <1>7 DEF Fits, Reverses, Cols
  <2> QED BY <1>1, <2>1, <2>2
<1>9. z.types \ d.types = s.types
  BY <1>1 DEF Fits, Reverses
<1>10. (IF "pricing_plans" \in DOMAIN c THEN z.plans ELSE {}) = s.plans
  BY <1>1, <1>7 DEF Solid, Fits
<1>11. z.version - 1 = s.version
  BY <1>1 DEF Solid
<1> QED BY <1>7, <1>8, <1>9, <1>10, <1>11 DEF Downgraded, Solid, z, c

-----------------------------------------------------------------------------
(* The tables of the four revisions.                                       *)

Core == {"users", "likes", "chats"}

Social == {"interests", "user_interests", "user_goals", "user_goal_links",
           "moderation_queue", "video_dates", "ratings", "subscriptions"}

Secure == {"user_sessions", "audit_log", "pricing_plans", "payment_transactions"}

\* The tables each revision creates, and those it touches.
LEMMA TablesOfRevisions ==
  /\ Upgrade001.new = Core /\ DOMAIN Upgrade001.cols = Core
  /\ Upgrade002.new = Social /\ DOMAIN Upgrade002.cols = Core \cup Social
  /\ Upgrade003.new = Secure /\ DOMAIN Upgrade003.cols = {"users", "video_dates"} \cup Secure
  /\ Upgrade004.new = {} /\ DOMAIN Upgrade004.cols = {"users"}
  /\ Core \cap Social = {} /\ Core \cap Secure = {} /\ Social \cap Secure = {}
<1>1. Upgrade001.new = Core /\ DOMAIN Upgrade001.cols = Core
  BY DEF Upgrade001, Core
<1>2. Upgrade002.new = Social /\ DOMAIN Upgrade002.cols = Core \cup Social
  BY DEF Upgrade002, Core, Social
<1>3. Upgrade003.new = Secure /\ DOMAIN Upgrade003.cols = {"users", "video_dates"} \cup Secure
  BY DEF Upgrade003, Secure
<1>4. Upgrade004.new = {} /\ DOMAIN Upgrade004.cols = {"users"}
  BY DEF Upgrade004
<1>5. Core \cap Social = {} /\ Core \cap Secure = {} /\ Social \cap Secure = {}
  BY DEF Core, Social, Secure
<1> QED BY <1>1, <1>2, <1>3, <1>4, <1>5

\* Each table of the models is created by one revision.
LEMMA TablesOfModels == DOMAIN ModelCols = Core \cup Social \cup Secure
<1>1. DOMAIN [users |-> ModelUser, likes |-> ModelLike, chats |-> ModelChat] = Core
  BY DEF Core
<1>2. DOMAIN ModelTags = {"interests", "user_interests", "user_goals", "user_goal_links"}
  BY DEF ModelTags
<1>3. DOMAIN ModelDates = {"moderation_queue", "video_dates", "ratings", "subscriptions"}
  BY DEF ModelDates
<1>4. DOMAIN ModelSecurity = Secure
  BY DEF ModelSecurity, Secure
<1> DEFINE own == [users |-> ModelUser, likes |-> ModelLike, chats |-> ModelChat]
<1> HIDE DEF own
<1>5. DOMAIN Merge(own, ModelTags) = DOMAIN own \cup DOMAIN ModelTags
  BY MergedCols
<1>6. DOMAIN Merge(ModelDates, ModelSecurity) = DOMAIN ModelDates \cup DOMAIN ModelSecurity
  BY MergedCols
<1>7. ModelCols = Merge(Merge(own, ModelTags), Merge(ModelDates, ModelSecurity))
  BY DEF ModelCols, own
<1>8. DOMAIN ModelCols = DOMAIN Merge(own, ModelTags) \cup DOMAIN Merge(ModelDates, ModelSecurity)
  BY <1>7, MergedCols
<1>9. DOMAIN own = Core
  BY <1>1 DEF own
<1>10. Social = DOMAIN ModelTags \cup DOMAIN ModelDates
  BY <1>2, <1>3 DEF Social
<1> QED BY <1>4, <1>5, <1>6, <1>8, <1>9, <1>10

\* downgrade() of each revision names what upgrade() has made.
LEMMA ReversesAll == \A v \in 1..4 : Reverses(Downgrade[v], Upgrade[v])
<1>1. Reverses(Downgrade001, Upgrade001)
  BY TablesOfRevisions DEF Reverses, Upgrade001, Downgrade001, Core
<1>2. Reverses(Downgrade002, Upgrade002)
  <2>1. {Downgrade002.tables[i] : i \in DOMAIN Downgrade002.tables} = Social
    BY DEF Downgrade002, Social
  <2>2. DOMAIN Downgrade002.cols = Core /\ Core = (Core \cup Social) \ Social
    BY DEF Downgrade002, Core, Social
  <2>3. \A t \in Core : Downgrade002.cols[t] = Upgrade002.cols[t]
    BY DEF Downgrade002, Upgrade002, Core, Circles
  <2>4. Downgrade002.idx \subseteq Upgrade002.idx
    BY DEF Downgrade002, Upgrade002
  <2>5. \A i \in Upgrade002.idx \ Downgrade002.idx : i[1] \in Social
    BY DEF Downgrade002, Upgrade002, Social
  <2>6. Downgrade002.types = Upgrade002.types
    BY DEF Downgrade002, Upgrade002
  <2> QED BY <2>1, <2>2, <2>3, <2>4, <2>5, <2>6, TablesOfRevisions DEF Reverses
<1>3. Reverses(Downgrade003, Upgrade003)
  BY TablesOfRevisions DEF Reverses, Upgrade003, Downgrade003, Secure
<1>4. Reverses(Downgrade004, Upgrade004)
  BY TablesOfRevisions DEF Reverses, Upgrade004, Downgrade004
<1> QED BY <1>1, <1>2, <1>3, <1>4, Revised

\* The parts of an upgraded schema.
LEMMA UpgradedFields ==
  ASSUME NEW s, NEW u
  PROVE  LET z == Upgraded(s, u)
         IN /\ DOMAIN z.cols = DOMAIN s.cols \cup DOMAIN u.cols
            /\ \A t : Cols(z.cols, t) = Cols(s.cols, t) \cup Cols(u.cols, t)
            /\ z.idx = s.idx \cup u.idx
            /\ z.types = s.types \cup u.types
            /\ z.plans = s.plans \cup u.plans
            /\ z.version = s.version + 1
<1> DEFINE z == Upgraded(s, u)
<1>1. /\ z.cols = Merge(s.cols, u.cols)
      /\ z.idx = s.idx \cup u.idx
      /\ z.types = s.types \cup u.types
      /\ z.plans = s.plans \cup u.plans
      /\ z.version = s.version + 1
  BY DEF Upgraded
<1> HIDE DEF z
<1>2. DOMAIN z.cols = DOMAIN s.cols \cup DOMAIN u.cols
  BY <1>1, MergedCols
<1>3. \A t : Cols(z.cols, t) = Cols(s.cols, t) \cup Cols(u.cols, t)
  BY <1>1, MergedCols
<1> QED BY <1>1, <1>2, <1>3 DEF z

\* The five schemas of alembic, one from the other.
LEMMA CanonicalIs ==
  /\ Canonical[0] = Empty
  /\ Canonical[1] = Upgraded(Canonical[0], Upgrade001)
  /\ Canonical[2] = Upgraded(Canonical[1], Upgrade002)
  /\ Canonical[3] = Upgraded(Canonical[2], Upgrade003)
  /\ Canonical[4] = Upgraded(Canonical[3], Upgrade004)
<1>1. Empty.version = 0
  BY DEF Empty
<1>2. Canonical = [v \in 0..4 |-> IF v = 0 THEN Empty ELSE Upgraded(Canonical[v - 1], Upgrade[v])]
  <2>1. Path(Empty) = [v \in Empty.version..4 |->
                         IF v = Empty.version THEN Empty
                         ELSE Upgraded(Path(Empty)[v - 1], Upgrade[v])]
    <3>1. Empty.version \in 0..4
      BY <1>1
    <3> QED BY <3>1, PathUnfolds, Zenon
  <2> QED BY <1>1, <2>1 DEF Canonical
<1>3. ASSUME NEW v \in 1..4
      PROVE  Canonical[v] = Upgraded(Canonical[v - 1], Upgrade[v])
  BY <1>2
<1>4. Canonical[0] = Empty
  BY <1>2
<1> QED BY <1>3, <1>4, Revised

\* A schema at 001, whatever other tables it has.
At001(s) ==
  /\ DOMAIN s.cols \cap Social = {} /\ Core \subseteq DOMAIN s.cols
  /\ \A t \in Core : Cols(s.cols, t) = Upgrade001.cols[t]
  /\ \A i \in s.idx : i[1] \in {"likes", "chats"} \cup Secure
  /\ s.types \cap Types002 = {}

\* 001 fits an empty database.
LEMMA Fits001 == Solid(Empty) /\ Fits(Empty, Upgrade001)
<1>1. Solid(Empty)
  BY DEF Solid, Empty
<1>2. /\ Empty.cols = <<>> /\ Empty.idx = {} /\ Empty.types = {}
      /\ DOMAIN Empty.cols = {}
  BY DEF Empty
<1>3. \A i \in Upgrade001.idx : i[2] \in Cols(Upgrade001.cols, i[1])
  BY DEF Upgrade001, Cols
<1>4. Upgrade001.plans = {}
  BY DEF Upgrade001
<1>5. \A t : Cols(Empty.cols, t) = {}
  BY <1>2 DEF Cols
<1> QED BY <1>1, <1>2, <1>3, <1>4, <1>5, TablesOfRevisions DEF Fits

\* 002 fits any schema at 001, with or without later tables.
LEMMA Fits002 ==
  ASSUME NEW s, At001(s)
  PROVE  Fits(s, Upgrade002)
<1>1. Upgrade002.idx \cap s.idx = {}
  <2>1. \A i \in Upgrade002.idx : i[1] \in {"users"} \cup Social
    BY DEF Upgrade002, Social
  <2>2. "users" \notin Secure /\ "likes" \notin Social /\ "chats" \notin Social
    BY DEF Secure, Social
  <2> QED BY <2>1, <2>2, TablesOfRevisions DEF At001
<1>2. Upgrade002.types \cap s.types = {}
  BY DEF Upgrade002, At001
<1>3. \A t \in Core : Upgrade002.cols[t] \cap Upgrade001.cols[t] = {}
  BY DEF Core, Upgrade001, Upgrade002, Users001, Users002, Circles
<1>4. \A t \in Social : Cols(s.cols, t) = {}
  BY DEF At001, Cols
<1>5. \A t \in Core \cup Social : Upgrade002.cols[t] \cap Cols(s.cols, t) = {}
  BY <1>3, <1>4 DEF At001
<1>6. \A i \in Upgrade002.idx : i[2] \in Cols(s.cols, i[1]) \cup Cols(Upgrade002.cols, i[1])
  <2>1. \A c \in UserIdx002 : c \in Upgrade001.cols["users"] \cup Upgrade002.cols["users"]
    BY DEF UserIdx002, Upgrade001, Upgrade002, Users001, Users002
  <2>2. /\ Cols(s.cols, "users") = Upgrade001.cols["users"]
        /\ Cols(Upgrade002.cols, "users") = Upgrade002.cols["users"]
    BY TablesOfRevisions DEF At001, Core, Cols
  <2>3. \A i \in Upgrade002.idx \ ({"users"} \X UserIdx002) : i[2] \in Cols(Upgrade002.cols, i[1])
    BY DEF Upgrade002, Cols
  <2>4. \A i \in {"users"} \X UserIdx002 : i[1] = "users" /\ i[2] \in UserIdx002
    OBVIOUS
  <2> QED BY <2>1, <2>2, <2>3, <2>4
<1>7. Upgrade002.plans = {}
  BY DEF Upgrade002
<1> QED BY <1>1, <1>2, <1>5, <1>6, <1>7, TablesOfRevisions DEF Fits, At001

\* The parts of the schemas at 001, 002, 003 and 004, in terms of what the
\* revisions add.
LEMMA Fields001 ==
  LET z == Canonical[1]
  IN /\ DOMAIN z.cols = Core
     /\ \A t : Cols(z.cols, t) = Cols(Upgrade001.cols, t)
     /\ z.idx = Upgrade001.idx /\ z.types = {"chat_status"} /\ z.plans = {} /\ z.version = 1
<1>1. /\ DOMAIN Empty.cols = {} /\ \A t : Cols(Empty.cols, t) = {}
      /\ Empty.idx = {} /\ Empty.types = {} /\ Empty.plans = {} /\ Empty.version = 0
  <2>1. /\ Empty.cols = <<>> /\ Empty.idx = {} /\ Empty.types = {}
        /\ Empty.plans = {} /\ Empty.version = 0 /\ DOMAIN Empty.cols = {}
    BY DEF Empty
  <2> QED BY <2>1 DEF Cols
<1>2. Canonical[1] = Upgraded(Empty, Upgrade001)
  BY CanonicalIs
<1>3. Upgrade001.types = {"chat_status"} /\ Upgrade001.plans = {}
  BY DEF Upgrade001
<1> DEFINE z == Canonical[1]
<1> HIDE DEF z
<1>4. /\ DOMAIN z.cols = DOMAIN Empty.cols \cup DOMAIN Upgrade001.cols
      /\ \A t : Cols(z.cols, t) = Cols(Empty.cols, t) \cup Cols(Upgrade001.cols, t)
      /\ z.idx = Empty.idx \cup Upgrade001.idx
      /\ z.types = Empty.types \cup Upgrade001.types
      /\ z.plans = Empty.plans \cup Upgrade001.plans
      /\ z.version = Empty.version + 1
  BY <1>2, UpgradedFields DEF z
<1>5. /\ DOMAIN z.cols = Core /\ \A t : Cols(z.cols, t) = Cols(Upgrade001.cols, t)
  BY <1>1, <1>4, TablesOfRevisions
<1>6. /\ z.idx = Upgrade001.idx /\ z.types = {"chat_status"} /\ z.plans = {} /\ z.version = 1
  BY <1>1, <1>3, <1>4
<1> QED BY <1>5, <1>6 DEF z

LEMMA Fields002 ==
  LET z == Canonical[2]
  IN /\ DOMAIN z.cols = Core \cup Social
     /\ \A t : Cols(z.cols, t) = Cols(Upgrade001.cols, t) \cup Cols(Upgrade002.cols, t)
     /\ z.idx = Upgrade001.idx \cup Upgrade002.idx
     /\ z.types = {"chat_status"} \cup Types002 /\ z.plans = {} /\ z.version = 2
<1>1. Canonical[2] = Upgraded(Canonical[1], Upgrade002)
  BY CanonicalIs
<1>2. Upgrade002.types = Types002 /\ Upgrade002.plans = {}
  BY DEF Upgrade002
<1> QED BY <1>1, <1>2, Fields001, UpgradedFields, TablesOfRevisions

LEMMA Fields003 ==
  LET z == Canonical[3]
  IN /\ DOMAIN z.cols = Core \cup Social \cup Secure
     /\ \A t : Cols(z.cols, t) = Cols(Upgrade001.cols, t) \cup Cols(Upgrade002.cols, t)
                                   \cup Cols(Upgrade003.cols, t)
     /\ z.idx = Upgrade001.idx \cup Upgrade002.idx \cup Upgrade003.idx
     /\ z.types = {"chat_status"} \cup Types002 \cup Types003
     /\ z.plans = Plans003 /\ z.version = 3
<1>1. Canonical[3] = Upgraded(Canonical[2], Upgrade003)
  BY CanonicalIs
<1>2. Upgrade003.types = Types003 /\ Upgrade003.plans = Plans003
  BY DEF Upgrade003
<1>3. {"users", "video_dates"} \subseteq Core \cup Social
  BY DEF Core, Social
<1> DEFINE z == Canonical[3]
           y == Canonical[2]
<1>4. /\ DOMAIN z.cols = DOMAIN y.cols \cup DOMAIN Upgrade003.cols
      /\ \A t : Cols(z.cols, t) = Cols(y.cols, t) \cup Cols(Upgrade003.cols, t)
      /\ z.idx = y.idx \cup Upgrade003.idx
      /\ z.types = y.types \cup Upgrade003.types
      /\ z.plans = y.plans \cup Upgrade003.plans
      /\ z.version = y.version + 1
  BY <1>1, UpgradedFields
<1> HIDE DEF z
<1>5. DOMAIN z.cols = Core \cup Social \cup Secure
  BY <1>3, <1>4, Fields002, TablesOfRevisions
<1>6. \A t : Cols(z.cols, t) = Cols(Upgrade001.cols, t) \cup Cols(Upgrade002.cols, t)
                                \cup Cols(Upgrade003.cols, t)
  BY <1>4, Fields002
<1>7. /\ z.idx = Upgrade001.idx \cup Upgrade002.idx \cup Upgrade003.idx
      /\ z.types = {"chat_status"} \cup Types002 \cup Types003
      /\ z.plans = Plans003 /\ z.version = 3
  BY <1>2, <1>4, Fields002
<1> QED BY <1>5, <1>6, <1>7 DEF z

LEMMA Fields004 ==
  LET z == Canonical[4]
  IN /\ DOMAIN z.cols = Core \cup Social \cup Secure
     /\ \A t : Cols(z.cols, t) = Cols(Upgrade001.cols, t) \cup Cols(Upgrade002.cols, t)
                                   \cup Cols(Upgrade003.cols, t) \cup Cols(Upgrade004.cols, t)
     /\ z.idx = Upgrade001.idx \cup Upgrade002.idx \cup Upgrade003.idx \cup Upgrade004.idx
     /\ z.types = {"chat_status"} \cup Types002 \cup Types003
     /\ z.plans = Plans003 /\ z.version = 4
<1>1. Canonical[4] = Upgraded(Canonical[3], Upgrade004)
  BY CanonicalIs
<1>2. Upgrade004.types = {} /\ Upgrade004.plans = {}
  BY DEF Upgrade004
<1>3. {"users"} \subseteq Core
  BY DEF Core
<1> DEFINE z == Canonical[4]
           y == Canonical[3]
<1>4. /\ DOMAIN z.cols = DOMAIN y.cols \cup DOMAIN Upgrade004.cols
      /\ \A t : Cols(z.cols, t) = Cols(y.cols, t) \cup Cols(Upgrade004.cols, t)
      /\ z.idx = y.idx \cup Upgrade004.idx
      /\ z.types = y.types \cup Upgrade004.types
      /\ z.plans = y.plans \cup Upgrade004.plans
      /\ z.version = y.version + 1
  BY <1>1, UpgradedFields
<1> HIDE DEF z
<1>5. DOMAIN z.cols = Core \cup Social \cup Secure
  BY <1>3, <1>4, Fields003, TablesOfRevisions
<1>6. \A t : Cols(z.cols, t) = Cols(Upgrade001.cols, t) \cup Cols(Upgrade002.cols, t)
                                \cup Cols(Upgrade003.cols, t) \cup Cols(Upgrade004.cols, t)
  BY <1>4, Fields003
<1>7. /\ z.idx = Upgrade001.idx \cup Upgrade002.idx \cup Upgrade003.idx \cup Upgrade004.idx
      /\ z.types = {"chat_status"} \cup Types002 \cup Types003
      /\ z.plans = Plans003 /\ z.version = 4
  BY <1>2, <1>4, Fields003
<1> QED BY <1>5, <1>6, <1>7 DEF z

\* What 001 leaves is a schema at 001.
LEMMA CanonicalAt001 == At001(Canonical[1])
<1>1. \A t \in Core : Cols(Upgrade001.cols, t) = Upgrade001.cols[t]
  BY TablesOfRevisions DEF Cols
<1>2. \A i \in Upgrade001.idx : i[1] \in {"likes", "chats"}
  BY DEF Upgrade001
<1>3. {"chat_status"} \cap Types002 = {}
  BY DEF Types002
<1> QED BY <1>1, <1>2, <1>3, Fields001, TablesOfRevisions DEF At001

\* 003 and 004 fit what the revisions before them leave.
LEMMA Fits003 == Fits(Canonical[2], Upgrade003)
<1>1. Upgrade003.idx \cap Canonical[2].idx = {}
  <2>1. \A i \in Upgrade003.idx : i[1] \in Secure
    BY DEF Upgrade003, Secure
  <2>2. \A i \in Upgrade001.idx \cup Upgrade002.idx : i[1] \in Core \cup Social
    BY DEF Upgrade001, Upgrade002, Core, Social
  <2> QED BY <2>1, <2>2, Fields002, TablesOfRevisions
<1>2. Upgrade003.types \cap Canonical[2].types = {}
  <2>1. Upgrade003.types = Types003 /\ Types003 \cap ({"chat_status"} \cup Types002) = {}
    BY DEF Upgrade003, Types002, Types003
  <2> QED BY <2>1, Fields002
<1>3. \A t \in Secure : Cols(Canonical[2].cols, t) = {}
  BY Fields002, TablesOfRevisions DEF Cols
<1>4. Upgrade003.cols["users"] \cap Cols(Canonical[2].cols, "users") = {}
  <2>1. /\ Cols(Upgrade001.cols, "users") = Users001 /\ Cols(Upgrade002.cols, "users") = Users002
        /\ Upgrade003.cols["users"] = Users003
    BY DEF Upgrade001, Upgrade002, Upgrade003, Cols
  <2>2. Users003 \cap (Users001 \cup Users002) = {}
    BY DEF Users001, Users002, Users003
  <2> QED BY <2>1, <2>2, Fields002
<1>5. Upgrade003.cols["video_dates"] \cap Cols(Canonical[2].cols, "video_dates") = {}
  <2>1. /\ Cols(Upgrade001.cols, "video_dates") = {}
        /\ Cols(Upgrade002.cols, "video_dates") = Upgrade002.cols["video_dates"]
    BY DEF Upgrade001, Upgrade002, Cols
  <2>2. Upgrade003.cols["video_dates"] \cap Upgrade002.cols["video_dates"] = {}
    BY DEF Upgrade002, Upgrade003, Dates003
  <2> QED BY <2>1, <2>2, Fields002
<1>6. \A i \in Upgrade003.idx : i[2] \in Cols(Upgrade003.cols, i[1])
  BY DEF Upgrade003, Cols
<1>7. "pricing_plans" \in Secure /\ {"users", "video_dates"} \subseteq Core \cup Social
  BY DEF Secure, Core, Social
<1> QED BY <1>1, <1>2, <1>3, <1>4, <1>5, <1>6, <1>7, Fields002, TablesOfRevisions DEF Fits

LEMMA Fits004 == Fits(Canonical[3], Upgrade004)
<1>1. /\ Cols(Upgrade001.cols, "users") = Users001 /\ Cols(Upgrade002.cols, "users") = Users002
      /\ Cols(Upgrade003.cols, "users") = Users003 /\ Upgrade004.cols["users"] = Users004
      /\ Cols(Upgrade004.cols, "users") = Users004
  BY DEF Upgrade001, Upgrade002, Upgrade003, Upgrade004, Cols
<1>2. Users004 \cap (Users001 \cup Users002 \cup Users003) = {}
  BY DEF Users001, Users002, Users003, Users004
<1>3. Upgrade004.idx = {"users"} \X Users004 /\ Upgrade004.types = {} /\ Upgrade004.plans = {}
  BY DEF Upgrade004
<1>4. Upgrade004.idx \cap Canonical[3].idx = {}
  <2>1. \A i \in Upgrade001.idx \cup Upgrade003.idx : i[1] # "users"
    BY DEF Upgrade001, Upgrade003
  <2>2. \A i \in Upgrade002.idx : i[2] \notin Users004
    BY DEF Upgrade002, UserIdx002, Users004
  <2>3. \A i \in Upgrade004.idx : i[1] = "users" /\ i[2] \in Users004
    BY <1>3
  <2> QED BY <2>1, <2>2, <2>3, Fields003
<1>5. \A i \in Upgrade004.idx : i[2] \in Cols(Upgrade004.cols, i[1])
  BY <1>1, <1>3
<1>6. "users" \in Core
  BY DEF Core
<1> QED BY <1>1, <1>2, <1>3, <1>4, <1>5, <1>6, Fields003, TablesOfRevisions DEF Fits

\* Every revision fits the schema that the ones before it leave, and its
\* downgrade takes exactly that revision back.
LEMMA Laid ==
  /\ \A v \in 0..4 : Solid(Canonical[v]) /\ Canonical[v].version = v
  /\ \A v \in 1..4 : /\ Fits(Canonical[v - 1], Upgrade[v])
                     /\ Canonical[v] = Upgraded(Canonical[v - 1], Upgrade[v])
                     /\ Applicable(Canonical[v - 1], Upgrade[v])
                     /\ Downgraded(Canonical[v], Downgrade[v]) = Canonical[v - 1]
<1>1. /\ Fits(Canonical[0], Upgrade[1]) /\ Fits(Canonical[1], Upgrade[2])
      /\ Fits(Canonical[2], Upgrade[3]) /\ Fits(Canonical[3], Upgrade[4])
  BY Fits001, Fits002, Fits003, Fits004, CanonicalAt001, CanonicalIs, Revised
<1>2. \A v \in 1..4 : /\ Fits(Canonical[v - 1], Upgrade[v])
                      /\ Canonical[v] = Upgraded(Canonical[v - 1], Upgrade[v])
  BY <1>1, CanonicalIs, Revised
<1>3. \A v \in 1..4 : Solid(Canonical[v - 1]) =>
        /\ Solid(Canonical[v])
        /\ Applicable(Canonical[v - 1], Upgrade[v])
        /\ Downgraded(Canonical[v], Downgrade[v]) = Canonical[v - 1]
  BY <1>2, UpgradeFits, DowngradeUndoes, ReversesAll
<1>4. Solid(Canonical[0])
  BY Fits001, CanonicalIs
<1>5. Solid(Canonical[1])
  BY <1>3, <1>4
<1>6. Solid(Canonical[2])
  BY <1>3, <1>5
<1>7. Solid(Canonical[3])
  BY <1>3, <1>6
<1>8. Solid(Canonical[4])
  BY <1>3, <1>7
<1>9. \A v \in 0..4 : Solid(Canonical[v])
  BY <1>4, <1>5, <1>6, <1>7, <1>8
<1>10. \A v \in 0..4 : Canonical[v].version = v
  <2>1. Canonical[0].version = 0
    BY CanonicalIs DEF Empty
  <2> QED BY <2>1, Fields001, Fields002, Fields003, Fields004
<1> QED BY <1>2, <1>3, <1>9, <1>10

\* From any of the five, `alembic upgrade head' goes through the rest.
LEMMA PathOfCanonical ==
  ASSUME NEW v \in 0..4
  PROVE  /\ \A w \in v..4 : Path(Canonical[v])[w] = Canonical[w]
         /\ CanReachHead(Canonical[v])
<1> DEFINE p == Path(Canonical[v])
<1>1. Canonical[v].version = v
  BY Laid
<1>2. p = [w \in v..4 |-> IF w = v THEN Canonical[v] ELSE Upgraded(p[w - 1], Upgrade[w])]
  <2>1. Canonical[v].version \in 0..4
    BY <1>1
  <2>2. p = [w \in Canonical[v].version..4 |->
               IF w = Canonical[v].version THEN Canonical[v]
               ELSE Upgraded(p[w - 1], Upgrade[w])]
    BY <2>1, PathUnfolds, Zenon
  <2> QED BY <1>1, <2>2
<1> HIDE DEF p
<1>3. p[v] = Canonical[v]
  BY <1>2
<1>4. \A w \in v + 1..4 : p[w - 1] = Canonical[w - 1] => p[w] = Canonical[w]
  <2>1. \A w \in v + 1..4 : p[w] = Upgraded(p[w - 1], Upgrade[w])
    BY <1>2
  <2> QED BY <2>1, Laid
<1>5. \A w \in v..4 : p[w] = Canonical[w]
  <2>1. v + 1 <= 4 => p[v + 1] = Canonical[v + 1]
    BY <1>3, <1>4
  <2>2. v + 2 <= 4 => p[v + 2] = Canonical[v + 2]
    BY <1>4, <2>1
  <2>3. v + 3 <= 4 => p[v + 3] = Canonical[v + 3]
    BY <1>4, <2>2
  <2>4. v + 4 <= 4 => p[v + 4] = Canonical[v + 4]
    BY <1>4, <2>3
  <2> QED BY <1>3, <2>1, <2>2, <2>3, <2>4
<1>6. \A w \in v + 1..4 : Applicable(p[w - 1], Upgrade[w])
  BY <1>5, Laid
<1> QED BY <1>1, <1>5, <1>6, Revised DEF CanReachHead, p

-----------------------------------------------------------------------------
(* What create_all makes of a schema at 001 or 002.                        *)

Patched(v) == WithTables(Canonical[v], Secure)

\* The parts of a schema after create_all.
LEMMA WithTablesFields ==
  ASSUME NEW s, Solid(s), NEW todo \in SUBSET DOMAIN ModelCols
  PROVE  LET z == WithTables(s, todo)
         IN /\ z.cols = Merge(s.cols, [t \in todo |-> ModelCols[t]])
            /\ DOMAIN z.cols = DOMAIN s.cols \cup todo
            /\ \A t : Cols(z.cols, t) = Cols(s.cols, t) \cup
                                          (IF t \in todo THEN ModelCols[t] ELSE {})
            /\ z.idx = s.idx \cup {i \in ModelIdx : i[1] \in todo}
            /\ z.types = s.types \cup UNION {Cols(ModelTypes, t) : t \in todo}
            /\ z.plans = s.plans
            /\ z.version = s.version
            /\ z = [cols |-> z.cols, idx |-> z.idx, types |-> z.types, plans |-> z.plans,
                    version |-> z.version]
<1> DEFINE z == WithTables(s, todo)
           m == [t \in todo |-> ModelCols[t]]
<1>1. s = [cols |-> s.cols, idx |-> s.idx, types |-> s.types, plans |-> s.plans,
           version |-> s.version]
  BY DEF Solid
<1>2. z = [cols |-> Merge(s.cols, m), idx |-> s.idx \cup {i \in ModelIdx : i[1] \in todo},
           types |-> s.types \cup UNION {Cols(ModelTypes, t) : t \in todo},
           plans |-> s.plans, version |-> s.version]
  <2>1. DOMAIN s = {"cols", "idx", "types", "plans", "version"}
    BY <1>1
  <2>2. z.cols = Merge(s.cols, m)
    BY <2>1 DEF WithTables
  <2>3. z.idx = s.idx \cup {i \in ModelIdx : i[1] \in todo}
    BY <2>1 DEF WithTables
  <2>4. z.types = s.types \cup UNION {Cols(ModelTypes, t) : t \in todo}
    BY <2>1 DEF WithTables
  <2>5. z.plans = s.plans /\ z.version = s.version
    BY <2>1 DEF WithTables
  <2>6. z = [x \in {"cols", "idx", "types", "plans", "version"} |-> z[x]]
    BY <2>1 DEF WithTables
  <2> HIDE DEF z, m
  <2> QED BY <2>2, <2>3, <2>4, <2>5, <2>6
<1> HIDE DEF z
<1>3. z.cols = Merge(s.cols, m)
  BY <1>2
<1>4. DOMAIN m = todo /\ \A t : Cols(m, t) = IF t \in todo THEN ModelCols[t] ELSE {}
  BY DEF Cols
<1>5. z.cols = Merge(s.cols, [t \in todo |-> ModelCols[t]])
  BY <1>3
<1> HIDE DEF m
<1>6. DOMAIN z.cols = DOMAIN s.cols \cup todo
  BY <1>3, <1>4, MergedCols
<1>7. \A t : Cols(z.cols, t) = Cols(s.cols, t) \cup (IF t \in todo THEN ModelCols[t] ELSE {})
  BY <1>3, <1>4, MergedCols
<1>8. /\ z.idx = s.idx \cup {i \in ModelIdx : i[1] \in todo}
      /\ z.types = s.types \cup UNION {Cols(ModelTypes, t) : t \in todo}
      /\ z.plans = s.plans
      /\ z.version = s.version
      /\ z = [cols |-> z.cols, idx |-> z.idx, types |-> z.types, plans |-> z.plans,
              version |-> z.version]
  BY <1>2
<1> QED BY <1>5, <1>6, <1>7, <1>8 DEF z

\* With nothing missing, create_all changes nothing.
LEMMA NoTables ==
  ASSUME NEW s, Solid(s), NEW none \in SUBSET DOMAIN ModelCols
  PROVE  none = {} => WithTables(s, none) = s
<1> DEFINE z == WithTables(s, none)
<1>1. /\ z.cols = Merge(s.cols, [t \in none |-> ModelCols[t]])
      /\ z.idx = s.idx \cup {i \in ModelIdx : i[1] \in none}
      /\ z.types = s.types \cup UNION {Cols(ModelTypes, t) : t \in none}
      /\ z.plans = s.plans
      /\ z.version = s.version
      /\ z = [cols |-> z.cols, idx |-> z.idx, types |-> z.types, plans |-> z.plans,
              version |-> z.version]
  BY WithTablesFields
<1> HIDE DEF z
<1> SUFFICES ASSUME none = {} PROVE z = s
  BY DEF z
<1>2. Merge(s.cols, [t \in none |-> ModelCols[t]]) = [t \in DOMAIN s.cols |-> s.cols[t]]
  <2> DEFINE m == [t \in none |-> ModelCols[t]]
  <2>1. DOMAIN m = {}
    OBVIOUS
  <2> HIDE DEF m
  <2>2. Merge(s.cols, m) = [t \in DOMAIN s.cols |-> s.cols[t]]
    BY <2>1 DEF Merge, Cols
  <2> QED BY <2>2 DEF m
<1>3. z.cols = s.cols
  BY <1>1, <1>2 DEF Solid
<1>4. z.idx = s.idx /\ z.types = s.types
  BY <1>1
<1> QED BY <1>1, <1>3, <1>4 DEF Solid

\* Tables of the models and a revision that does not touch them commute.
LEMMA TablesCommute ==
  ASSUME NEW s, NEW u, Solid(s), Solid(Upgraded(s, u)), NEW todo \in SUBSET DOMAIN ModelCols
  PROVE  WithTables(Upgraded(s, u), todo) = Upgraded(WithTables(s, todo), u)
<1> DEFINE m == [t \in todo |-> ModelCols[t]]
           I == {i \in ModelIdx : i[1] \in todo}
           T == UNION {Cols(ModelTypes, t) : t \in todo}
           a == WithTables(Upgraded(s, u), todo)
           b == WithTables(s, todo)
<1>1. /\ a.cols = Merge(Upgraded(s, u).cols, m) /\ a.idx = Upgraded(s, u).idx \cup I
      /\ a.types = Upgraded(s, u).types \cup T /\ a.plans = Upgraded(s, u).plans
      /\ a.version = Upgraded(s, u).version
      /\ a = [cols |-> a.cols, idx |-> a.idx, types |-> a.types, plans |-> a.plans,
              version |-> a.version]
  BY WithTablesFields
<1>2. /\ b.cols = Merge(s.cols, m) /\ b.idx = s.idx \cup I
      /\ b.types = s.types \cup T /\ b.plans = s.plans /\ b.version = s.version
  BY WithTablesFields
<1> HIDE DEF m, I, T, a, b
<1>3. Upgraded(b, u) = [cols |-> Merge(Merge(s.cols, m), u.cols), idx |-> (s.idx \cup I) \cup u.idx,
                        types |-> (s.types \cup T) \cup u.types, plans |-> s.plans \cup u.plans,
                        version |-> s.version + 1]
  BY <1>2 DEF Upgraded
<1>4. a = [cols |-> Merge(Merge(s.cols, u.cols), m), idx |-> (s.idx \cup u.idx) \cup I,
           types |-> (s.types \cup u.types) \cup T, plans |-> s.plans \cup u.plans,
           version |-> s.version + 1]
  BY <1>1 DEF Upgraded
<1>5. ASSUME NEW f, NEW g, NEW h
      PROVE  Merge(Merge(f, g), h) = Merge(Merge(f, h), g)
  <2> DEFINE fg == Merge(f, g)
             fh == Merge(f, h)
  <2>1. /\ DOMAIN fg = DOMAIN f \cup DOMAIN g /\ \A t : Cols(fg, t) = Cols(f, t) \cup Cols(g, t)
        /\ DOMAIN fh = DOMAIN f \cup DOMAIN h /\ \A t : Cols(fh, t) = Cols(f, t) \cup Cols(h, t)
    BY MergedCols
  <2> HIDE DEF fg, fh
  <2>2. DOMAIN fg \cup DOMAIN h = DOMAIN fh \cup DOMAIN g
    BY <2>1
  <2>3. \A t : Cols(fg, t) \cup Cols(h, t) = Cols(fh, t) \cup Cols(g, t)
    BY <2>1
  <2>4. Merge(fg, h) = Merge(fh, g)
    BY <2>2, <2>3 DEF Merge
  <2> QED BY <2>4 DEF fg, fh
<1>6. /\ (s.idx \cup I) \cup u.idx = (s.idx \cup u.idx) \cup I
      /\ (s.types \cup T) \cup u.types = (s.types \cup u.types) \cup T
  OBVIOUS
<1> QED BY <1>3, <1>4, <1>5, <1>6 DEF a, b

\* The columns of the models' tables.
LEMMA ColsOfModels ==
  /\ \A t \in Secure : ModelCols[t] = ModelSecurity[t]
  /\ ModelCols["users"] = ModelUser
  /\ ModelCols["likes"] = ModelLike
  /\ ModelCols["chats"] = ModelChat
<1> DEFINE own == [users |-> ModelUser, likes |-> ModelLike, chats |-> ModelChat]
<1>1. /\ DOMAIN own = Core /\ DOMAIN ModelSecurity = Secure
      /\ DOMAIN ModelTags \subseteq Social /\ DOMAIN ModelDates \subseteq Social
      /\ own["users"] = ModelUser /\ own["likes"] = ModelLike /\ own["chats"] = ModelChat
  BY DEF Core, Social, Secure, ModelSecurity, ModelTags, ModelDates
<1>2. ModelCols = Merge(Merge(own, ModelTags), Merge(ModelDates, ModelSecurity))
  BY DEF ModelCols
<1> HIDE DEF own
<1>3. \A t : Cols(ModelCols, t) = (Cols(own, t) \cup Cols(ModelTags, t))
                                    \cup (Cols(ModelDates, t) \cup Cols(ModelSecurity, t))
  BY <1>2, MergedCols
<1>4. \A t \in DOMAIN ModelCols : Cols(ModelCols, t) = ModelCols[t]
  BY DEF Cols
<1>5. ASSUME NEW t \in Secure
      PROVE  ModelCols[t] = ModelSecurity[t]
  <2>1. /\ Cols(own, t) = {} /\ Cols(ModelTags, t) = {} /\ Cols(ModelDates, t) = {}
        /\ Cols(ModelSecurity, t) = ModelSecurity[t]
    BY <1>1, TablesOfRevisions DEF Cols
  <2> QED BY <1>3, <1>4, <2>1, TablesOfModels
<1>6. ASSUME NEW t \in Core
      PROVE  ModelCols[t] = own[t]
  <2>1. /\ Cols(own, t) = own[t] /\ Cols(ModelTags, t) = {} /\ Cols(ModelDates, t) = {}
        /\ Cols(ModelSecurity, t) = {}
    BY <1>1, TablesOfRevisions DEF Cols
  <2> QED BY <1>3, <1>4, <2>1, TablesOfModels
<1> QED BY <1>1, <1>5, <1>6 DEF Core

\* Six sets, for the indexes of the models.
LEMMA UnionOfSix ==
  \A A, B, C, D, E, F, i :
    i \in UNION {A, B, C, D, E, F} <=>
      i \in A \/ i \in B \/ i \in C \/ i \in D \/ i \in E \/ i \in F
BY Zenon

\* The indexes of the models, table by table.
UsersIdx == {"users"} \X {"city", "gender", "video_profile_status", "has_children",
                          "attractiveness_score", "overall_rating",
                          "profile_frozen", "deleted_at"}

LikesIdx == {"likes"} \X {"sender_id", "receiver_id"}

ChatsIdx == {"chats"} \X {"user_one_id", "user_two_id"}

QueueIdx == {"moderation_queue"} \X {"user_id", "status"}

SessionsIdx == {"user_sessions"} \X {"user_id", "refresh_token_hash"}

AuditIdx == {"audit_log"} \X {"user_id", "action", "created_at"}

OtherIdx == {<<"interests", "slug">>, <<"user_interests", "interest_id">>,
             <<"user_goal_links", "goal_id">>, <<"subscriptions", "user_id">>,
             <<"payment_transactions", "user_id">>}

\* They are all.
LEMMA PartsOfModelIdx ==
  \A i : i \in ModelIdx <=>
    \/ i \in UsersIdx \/ i \in LikesIdx \/ i \in ChatsIdx \/ i \in QueueIdx
    \/ i \in SessionsIdx \/ i \in AuditIdx \/ i \in OtherIdx
<1>1. ModelIdx = (UNION {UsersIdx, LikesIdx, ChatsIdx, QueueIdx, SessionsIdx, AuditIdx})
                   \cup OtherIdx
  BY Zenon DEF ModelIdx, UsersIdx, LikesIdx, ChatsIdx, QueueIdx, SessionsIdx, AuditIdx,
               OtherIdx
<1> DEFINE U == UNION {UsersIdx, LikesIdx, ChatsIdx, QueueIdx, SessionsIdx, AuditIdx}
<1>2. \A i : i \in U <=>
        \/ i \in UsersIdx \/ i \in LikesIdx \/ i \in ChatsIdx \/ i \in QueueIdx
        \/ i \in SessionsIdx \/ i \in AuditIdx
  BY UnionOfSix, Zenon
<1> HIDE DEF U
<1>3. ModelIdx = U \cup OtherIdx
  BY <1>1 DEF U
<1> QED BY <1>2, <1>3

\* The models declare the indexes of 003 on its own tables, those of 002 and 004
\* on users, and those of 001.
LEMMA IdxOfModels ==
  /\ \A i \in ModelIdx : i[1] \in Secure => i \in Upgrade003.idx
  /\ Upgrade003.idx \subseteq ModelIdx
  /\ \A i \in ModelIdx : i[1] = "users" => i \in {"users"} \X (UserIdx002 \cup Users004)
  /\ {"users"} \X (UserIdx002 \cup Users004) \subseteq ModelIdx
  /\ \A i \in ModelIdx : i[1] \in {"likes", "chats"} => i \in Upgrade001.idx
  /\ Upgrade001.idx \subseteq ModelIdx
<1>1. \A i : i \in ModelIdx <=>
        \/ i \in UsersIdx \/ i \in LikesIdx \/ i \in ChatsIdx \/ i \in QueueIdx
        \/ i \in SessionsIdx \/ i \in AuditIdx \/ i \in OtherIdx
  BY PartsOfModelIdx
<1>2. UserIdx002 \cup Users004 = {"city", "gender", "video_profile_status", "has_children",
                                 "attractiveness_score", "overall_rating",
                                 "profile_frozen", "deleted_at"}
  BY DEF UserIdx002, Users004
<1>3. \A i \in ModelIdx : i[1] \in Secure => i \in Upgrade003.idx
  <2>1. \A i \in ModelIdx : i[1] \in Secure =>
          \/ i \in {"user_sessions"} \X {"user_id", "refresh_token_hash"}
          \/ i \in {"audit_log"} \X {"user_id", "action", "created_at"}
          \/ i = <<"payment_transactions", "user_id">>
    BY <1>1 DEF Secure, UsersIdx, LikesIdx, ChatsIdx, QueueIdx, SessionsIdx, AuditIdx, OtherIdx
  <2> QED BY <2>1 DEF Upgrade003
<1>4. Upgrade003.idx \subseteq ModelIdx
  BY <1>1 DEF Upgrade003, SessionsIdx, AuditIdx, OtherIdx
<1>5. \A i \in ModelIdx : i[1] = "users" => i \in {"users"} \X (UserIdx002 \cup Users004)
  BY <1>1, <1>2 DEF UsersIdx, LikesIdx, ChatsIdx, QueueIdx, SessionsIdx, AuditIdx, OtherIdx
<1>6. {"users"} \X (UserIdx002 \cup Users004) \subseteq ModelIdx
  BY <1>1, <1>2 DEF UsersIdx, LikesIdx, ChatsIdx, QueueIdx, SessionsIdx, AuditIdx, OtherIdx
<1>7. \A i \in ModelIdx : i[1] \in {"likes", "chats"} => i \in Upgrade001.idx
  BY <1>1 DEF Upgrade001, UsersIdx, LikesIdx, ChatsIdx, QueueIdx, SessionsIdx, AuditIdx, OtherIdx
<1>8. Upgrade001.idx \subseteq ModelIdx
  BY <1>1 DEF Upgrade001, UsersIdx, LikesIdx, ChatsIdx, QueueIdx, SessionsIdx, AuditIdx, OtherIdx
<1> QED BY <1>3, <1>4, <1>5, <1>6, <1>7, <1>8

\* 001 with the tables of 003 is still a schema at 001, so 002 applies.
LEMMA Patched1 ==
  LET z == Patched(1)
  IN /\ z.version = 1 /\ z.plans = {} /\ DOMAIN z.cols = Core \cup Secure
     /\ At001(z) /\ Solid(z)
<1> DEFINE z == Patched(1)
<1>1. Secure \in SUBSET DOMAIN ModelCols /\ Solid(Canonical[1])
  BY TablesOfModels, Laid
<1>2. /\ z.cols = Merge(Canonical[1].cols, [t \in Secure |-> ModelCols[t]])
      /\ DOMAIN z.cols = DOMAIN Canonical[1].cols \cup Secure
      /\ \A t : Cols(z.cols, t) = Cols(Canonical[1].cols, t) \cup
                                    (IF t \in Secure THEN ModelCols[t] ELSE {})
      /\ z.idx = Canonical[1].idx \cup {i \in ModelIdx : i[1] \in Secure}
      /\ z.types = Canonical[1].types \cup UNION {Cols(ModelTypes, t) : t \in Secure}
      /\ z.plans = Canonical[1].plans
      /\ z.version = Canonical[1].version
      /\ z = [cols |-> z.cols, idx |-> z.idx, types |-> z.types, plans |-> z.plans,
              version |-> z.version]
  BY <1>1, WithTablesFields DEF Patched
<1> HIDE DEF z
<1>3. z.version = 1 /\ z.plans = {} /\ DOMAIN z.cols = Core \cup Secure
  BY <1>2, Fields001
<1>4. At001(z)
  <2>1. \A t \in Core : Cols(z.cols, t) = Upgrade001.cols[t]
    <3>1. \A t \in Core : t \notin Secure
      BY TablesOfRevisions
    <3>2. \A t \in Core : Cols(Canonical[1].cols, t) = Upgrade001.cols[t]
      BY CanonicalAt001 DEF At001
    <3>3. \A t : t \notin Secure => Cols(z.cols, t) = Cols(Canonical[1].cols, t)
      BY <1>2
    <3> QED BY <3>1, <3>2, <3>3
  <2>2. \A i \in z.idx : i[1] \in {"likes", "chats"} \cup Secure
    BY <1>2, CanonicalAt001 DEF At001
  <2>3. \A t \in Secure : Cols(ModelTypes, t) \cap Types002 = {}
    BY DEF Secure, Cols, ModelTypes, Types002
  <2>4. z.types \cap Types002 = {}
    BY <1>2, <2>3, CanonicalAt001 DEF At001
  <2> QED BY <1>3, <2>1, <2>2, <2>4, TablesOfRevisions DEF At001
<1>5. Solid(z)
  <2>1. \A i \in ModelIdx : i[1] \in Secure => i[2] \in ModelSecurity[i[1]]
    <3>1. \A t \in Secure : ModelSecurity[t] = Upgrade003.cols[t]
      BY DEF Secure, ModelSecurity, Upgrade003
    <3>2. \A i \in Upgrade003.idx : i[1] \in Secure /\ i[2] \in Upgrade003.cols[i[1]]
      BY DEF Upgrade003, Secure
    <3> QED BY <3>1, <3>2, IdxOfModels
  <2>2. \A i \in Canonical[1].idx : i[2] \in Cols(Canonical[1].cols, i[1])
    BY <1>1 DEF Solid
  <2>3. \A i \in z.idx : i[2] \in Cols(z.cols, i[1])
    BY <1>2, <2>1, <2>2, ColsOfModels
  <2>4. \A f, g : Merge(f, g) = [t \in DOMAIN Merge(f, g) |-> Merge(f, g)[t]]
    BY DEF Merge
  <2>5. z.cols = [t \in DOMAIN z.cols |-> z.cols[t]]
    BY <1>2, <2>4
  <2> QED BY <1>2, <1>3, <2>3, <2>5 DEF Solid
<1> QED BY <1>3, <1>4, <1>5 DEF z

\* 002 with the tables of 003 comes from it by 002, and goes back to it.
LEMMA Patched2 ==
  LET z == Patched(2)
  IN /\ z.version = 2 /\ z.plans = {} /\ DOMAIN z.cols = Core \cup Social \cup Secure
     /\ z = Upgraded(Patched(1), Upgrade002)
     /\ Solid(z)
     /\ Downgraded(z, Downgrade[2]) = Patched(1)
<1>1. Canonical[2] = Upgraded(Canonical[1], Upgrade002)
  BY CanonicalIs
<1>2. Secure \in SUBSET DOMAIN ModelCols /\ Solid(Canonical[1]) /\ Solid(Canonical[2])
  BY TablesOfModels, Laid
<1>3. Patched(2) = Upgraded(Patched(1), Upgrade002)
  BY <1>1, <1>2, TablesCommute DEF Patched
<1>4. Fits(Patched(1), Upgrade002)
  BY Patched1, Fits002
<1>5. Solid(Patched(2))
  BY <1>3, <1>4, Patched1, UpgradeFits
<1>6. Reverses(Downgrade[2], Upgrade002)
  BY ReversesAll, Revised
<1>7. Downgraded(Patched(2), Downgrade[2]) = Patched(1)
  BY <1>3, <1>4, <1>6, Patched1, DowngradeUndoes
<1>8. Upgrade002.plans = {}
  BY DEF Upgrade002
<1>9. /\ DOMAIN Upgraded(Patched(1), Upgrade002).cols = Core \cup Social \cup Secure
      /\ Upgraded(Patched(1), Upgrade002).plans = {}
      /\ Upgraded(Patched(1), Upgrade002).version = 2
  BY <1>8, Patched1, UpgradedFields, TablesOfRevisions
<1> QED BY <1>3, <1>5, <1>7, <1>9

\* No way up from what create_all has made, and the way down ends at 001.
LEMMA PatchedIsStuck ==
  /\ ~CanReachHead(Patched(1)) /\ ~CanReachHead(Patched(2))
  /\ ~Revocable(Patched(1), Downgrade[1])
<1>1. ~Applicable(Patched(2), Upgrade[3])
  <2>1. "user_sessions" \in Upgrade003.new \cap DOMAIN Patched(2).cols
    BY Patched2, TablesOfRevisions DEF Secure
  <2> QED BY <2>1, Revised DEF Applicable
<1>2. ASSUME NEW n \in {1, 2}
      PROVE  Path(Patched(n))[2] = Patched(2)
  <2>1. Patched(n).version = n
    BY Patched1, Patched2
  <2> DEFINE p == Path(Patched(n))
  <2>2. p = [w \in Patched(n).version..4 |->
               IF w = Patched(n).version THEN Patched(n)
               ELSE Upgraded(p[w - 1], Upgrade[w])]
    <3>1. Patched(n).version \in 0..4
      BY <2>1
    <3> QED BY <3>1, PathUnfolds, Zenon
  <2>3. p = [w \in n..4 |-> IF w = n THEN Patched(n) ELSE Upgraded(p[w - 1], Upgrade[w])]
    BY <2>1, <2>2
  <2> HIDE DEF p
  <2>4. p[n] = Patched(n)
    BY <2>3
  <2>5. n = 1 => p[2] = Upgraded(Patched(1), Upgrade[2])
    BY <2>3
  <2> QED BY <2>4, <2>5, Patched2, Revised DEF p
<1>3. ASSUME NEW n \in {1, 2}
      PROVE  ~CanReachHead(Patched(n))
  <2>1. 3 \in Patched(n).version + 1 .. Newest
    BY Patched1, Patched2, Revised
  <2> QED BY <1>1, <1>2, <2>1 DEF CanReachHead
<1>4. ~DropsInOrder(Patched(1), Downgrade001)
  <2>1. "user_sessions" \in DOMAIN Patched(1).cols
    BY Patched1 DEF Secure
  <2>2. /\ 3 \in DOMAIN Downgrade001.tables /\ Downgrade001.tables[3] = "users"
        /\ \A j \in 1..2 : Downgrade001.tables[j] # "user_sessions"
    BY DEF Downgrade001
  <2>3. <<"user_sessions", "users">> \in ForeignKeys
    BY DEF ForeignKeys
  <2> QED BY <2>1, <2>2, <2>3 DEF DropsInOrder
<1> QED BY <1>3, <1>4, Revised DEF Revocable

-----------------------------------------------------------------------------
(* What create_all finds missing, and when it can make it.                 *)

\* The database is at a revision, or at 001 or 002 with the later tables.
Shape ==
  \/ ~patched /\ \E v \in 0..4 : db = Canonical[v]
  \/ patched /\ \E v \in {1, 2} : db = Patched(v)

\* What a container may have found missing: a table that cannot be made, or
\* those of 003, or nothing.
Todos == {todo \in SUBSET DOMAIN ModelCols :
            todo = {} \/ todo = Secure \/ "moderation_queue" \in todo}

\* What Shape says of the tables and types.
LEMMA ShapeIs ==
  ASSUME Shape
  PROVE  /\ Solid(db) /\ db.version \in 0..4
         /\ DOMAIN db.cols \subseteq Core \cup Social \cup Secure
         /\ patched => db.version \in {1, 2} /\ Secure \subseteq DOMAIN db.cols
         /\ ~patched => db = Canonical[db.version]
         /\ db.version \in {0, 1} => /\ DOMAIN db.cols \cap Social = {}
                                     /\ db.types \cap Types002 = {}
         /\ db.version \in 2..4 => Social \subseteq DOMAIN db.cols
         /\ db.version \in 3..4 => Secure \subseteq DOMAIN db.cols
         /\ db.version = 0 => DOMAIN db.cols = {}
         /\ ~patched /\ db.version < 3 => DOMAIN db.cols \cap Secure = {}
<1>1. /\ DOMAIN Canonical[0].cols = {} /\ Canonical[0].types = {}
  <2>1. Empty.cols = <<>> /\ Empty.types = {}
    BY DEF Empty
  <2> QED BY <2>1, CanonicalIs
<1>2. /\ \A v \in 0..4 : Solid(Canonical[v]) /\ Canonical[v].version = v
      /\ \A v \in {1, 2} : Solid(Patched(v)) /\ Patched(v).version = v
  BY Laid, Patched1, Patched2
<1>3. /\ DOMAIN Canonical[1].cols = Core /\ DOMAIN Canonical[2].cols = Core \cup Social
      /\ \A v \in {3, 4} : DOMAIN Canonical[v].cols = Core \cup Social \cup Secure
      /\ DOMAIN Patched(1).cols = Core \cup Secure
      /\ DOMAIN Patched(2).cols = Core \cup Social \cup Secure
  BY Fields001, Fields002, Fields003, Fields004, Patched1, Patched2
<1>4. Canonical[1].types \cap Types002 = {} /\ Patched(1).types \cap Types002 = {}
  BY CanonicalAt001, Patched1 DEF At001
<1>5. CASE ~patched
  <2>1. PICK v \in 0..4 : db = Canonical[v]
    BY <1>5 DEF Shape
  <2> QED BY <1>1, <1>2, <1>3, <1>4, <1>5, <2>1, TablesOfRevisions
<1>6. CASE patched
  <2>1. PICK v \in {1, 2} : db = Patched(v)
    BY <1>6 DEF Shape
  <2> QED BY <1>2, <1>3, <1>4, <1>6, <2>1, TablesOfRevisions
<1> QED BY <1>5, <1>6

\* What create_all reads is always one of Todos.
LEMMA WhatIsMissing ==
  ASSUME Shape
  PROVE  Missing(db) \in Todos
<1>1. Missing(db) \in SUBSET DOMAIN ModelCols
  BY DEF Missing
<1>2. "moderation_queue" \in Social
  BY DEF Social
<1>3. CASE db.version \in {0, 1}
  BY <1>1, <1>2, <1>3, ShapeIs, TablesOfModels DEF Missing, Todos
<1>4. CASE db.version \in 2..4
  <2>1. Core \subseteq DOMAIN db.cols
    <3>1. CASE ~patched
      BY <1>4, <3>1, ShapeIs, Fields002, Fields003, Fields004
    <3>2. CASE patched
      BY <1>4, <3>2, ShapeIs, Patched1, Patched2 DEF Shape
    <3> QED BY <3>1, <3>2
  <2>2. Missing(db) = Secure \ DOMAIN db.cols
    BY <1>4, <2>1, ShapeIs, TablesOfModels, TablesOfRevisions DEF Missing
  <2>3. Secure \subseteq DOMAIN db.cols \/ DOMAIN db.cols \cap Secure = {}
    <3>1. db.version \in 3..4 \/ patched \/ (~patched /\ db.version < 3)
      BY <1>4
    <3> QED BY <3>1, ShapeIs
  <2>4. Missing(db) = {} \/ Missing(db) = Secure
    BY <2>2, <2>3
  <2> QED BY <1>1, <2>4 DEF Todos
<1> QED BY <1>3, <1>4, ShapeIs

\* create_all makes nothing at all, or the tables of 003 at 001 or 002.
LEMMA WhatIsCreated ==
  ASSUME Shape, NEW todo \in Todos, Creatable(db, todo)
  PROVE  \/ todo = {} /\ WithTables(db, todo) = db
         \/ /\ todo # {} /\ ~patched /\ db.version \in {1, 2}
            /\ WithTables(db, todo) = Patched(db.version)
<1>1. /\ todo \cap DOMAIN db.cols = {}
      /\ \A t \in todo : DefaultFits(db, t)
      /\ \A k \in ForeignKeys : k[1] \in todo => k[2] \in DOMAIN db.cols \cup todo
  BY DEF Creatable
<1>2. "moderation_queue" \notin todo
  <2> SUFFICES ASSUME "moderation_queue" \in todo PROVE FALSE
    OBVIOUS
  <2>1. "moderation_queue" \in Social
    BY DEF Social
  <2>2. db.version \in {0, 1}
    BY <1>1, <2>1, ShapeIs
  <2>3. "moderation_status" \in db.types
    BY <1>1 DEF DefaultFits, LabelDrift
  <2>4. "moderation_status" \in Types002
    BY DEF Types002
  <2> QED BY <2>2, <2>3, <2>4, ShapeIs
<1>3. CASE todo = {}
  BY <1>3, ShapeIs, NoTables DEF Todos
<1>4. CASE todo = Secure
  <2>1. "user_sessions" \in Secure /\ "users" \notin Secure
        /\ <<"user_sessions", "users">> \in ForeignKeys
    BY DEF Secure, ForeignKeys
  <2>2. "users" \in DOMAIN db.cols
    BY <1>1, <1>4, <2>1
  <2>3. "user_sessions" \notin DOMAIN db.cols
    BY <1>1, <1>4, <2>1
  <2>4. db.version # 0
    BY <2>2, ShapeIs
  <2>5. ~patched /\ db.version \notin 3..4
    BY <2>1, <2>3, ShapeIs
  <2> QED BY <1>4, <2>1, <2>4, <2>5, ShapeIs DEF Patched
<1> QED BY <1>2, <1>3, <1>4 DEF Todos

\* `alembic downgrade -1' on either kind of schema.
LEMMA WhatIsLowered ==
  ASSUME Shape, db.version > 0, Revocable(db, Downgrade[db.version])
  PROVE  LET d == Downgraded(db, Downgrade[db.version])
         IN \/ ~patched /\ d = Canonical[db.version - 1]
            \/ patched /\ d = Patched(1)
<1>1. CASE ~patched
  <2>1. db.version \in 1..4 /\ db = Canonical[db.version]
    BY <1>1, ShapeIs
  <2> QED BY <1>1, <2>1, Laid
<1>2. CASE patched
  <2>1. PICK v \in {1, 2} : db = Patched(v)
    BY <1>2 DEF Shape
  <2> QED BY <1>2, <2>1, Patched1, Patched2, PatchedIsStuck
<1> QED BY <1>1, <1>2

\* A schema that create_all has not touched can reach the head, and no other.
LEMMA ReachesHead ==
  ASSUME Shape
  PROVE  CanReachHead(db) <=> ~patched
BY ShapeIs, PathOfCanonical, PatchedIsStuck DEF Shape

-----------------------------------------------------------------------------
(* The inductive invariant.                                                *)

Process == [step : Step, booted : BOOLEAN, saw : 0..4, todo : Todos]

\* Whoever found the head, or came from a migration to it, still has it.
AtHead(c) ==
  (proc[c].saw = 4 \/ proc[c].booted) /\ ~lowered => db = Canonical[4]

SInv == /\ Shape
        /\ patched \in BOOLEAN /\ lowered \in BOOLEAN
        /\ proc \in [Containers -> Process]
        /\ \A c \in Containers : AtHead(c)

\* The invariant holds at first,
LEMMA InitHolds == Init => SInv
<1> SUFFICES ASSUME Init PROVE SInv
  OBVIOUS
<1>1. Off \in Process /\ Served \in Process
  <2>1. {} \in Todos /\ "off" \in Step /\ "up" \in Step
    BY DEF Todos, Step
  <2>2. Off \in Process
    BY <2>1 DEF Off, Process
  <2> QED BY <2>1, <2>2 DEF Process, Served
<1>2. proc \in [Containers -> Process]
  BY <1>1 DEF Init
<1>3. \A c \in Containers : proc[c].saw = 0 /\ proc[c].booted = FALSE
  BY DEF Init, Off, Served
<1>4. Shape
  BY Revised DEF Init, Shape
<1>5. \A c \in Containers : AtHead(c)
  BY <1>3 DEF AtHead
<1>6. patched \in BOOLEAN /\ lowered \in BOOLEAN
  BY DEF Init
<1> QED BY <1>2, <1>4, <1>5, <1>6 DEF SInv

\* and every step keeps it.
LEMMA NextKeeps == SInv /\ [Next]_vars => SInv'
<1> SUFFICES ASSUME SInv, [Next]_vars PROVE SInv'
  OBVIOUS
<1>1. /\ Shape /\ patched \in BOOLEAN /\ lowered \in BOOLEAN
      /\ proc \in [Containers -> Process]
      /\ \A c \in Containers : AtHead(c)
  BY DEF SInv
<1>2. Newest = 4 /\ db.version \in 0..4
  BY <1>1, Revised, ShapeIs
<1>3. Off \in Process /\ Off.saw = 0 /\ Off.booted = FALSE
  <2>1. {} \in Todos /\ "off" \in Step
    BY DEF Todos, Step
  <2> QED BY <2>1 DEF Off, Process
<1> DEFINE Stays == /\ Shape' /\ proc' \in [Containers -> Process]
                    /\ patched' \in BOOLEAN /\ lowered' \in BOOLEAN
                    /\ \A c \in Containers : AtHead(c)'
<1> HIDE DEF Stays
\* A step of one container that leaves the database alone.
<1>4. ASSUME NEW c \in Containers, NEW p \in Process,
             proc' = [proc EXCEPT ![c] = p], UNCHANGED <<db, patched, lowered>>,
             (p.saw = 4 \/ p.booted) /\ ~lowered => db = Canonical[4]
      PROVE  Stays
  <2>1. Shape' /\ patched' \in BOOLEAN /\ lowered' \in BOOLEAN
    BY <1>1, <1>4 DEF Shape
  <2>2. proc' \in [Containers -> Process]
    BY <1>1, <1>4
  <2>3. \A e \in Containers : AtHead(e)'
    <3> SUFFICES ASSUME NEW e \in Containers PROVE AtHead(e)'
      OBVIOUS
    <3>1. proc'[e] = IF e = c THEN p ELSE proc[e]
      BY <1>1, <1>4
    <3> QED BY <1>1, <1>4, <3>1 DEF AtHead
  <2> QED BY <2>1, <2>2, <2>3 DEF Stays
<1>5. ASSUME NEW c \in Containers, Boot(c)
      PROVE  Stays
  <2> DEFINE p == [Off EXCEPT !.step = "migrating", !.saw = db.version]
  <2>1. proc' = [proc EXCEPT ![c] = p] /\ UNCHANGED <<db, patched, lowered>>
    BY <1>5 DEF Boot
  <2>2. p \in Process
    BY <1>2, <1>3 DEF Process, Step
  <2>3. p.saw = db.version /\ p.booted = FALSE
    BY <1>3 DEF Process
  <2>4. db.version = 4 => db = Canonical[4]
    BY <1>1, ShapeIs
  <2> HIDE DEF p
  <2> QED BY <1>4, <2>1, <2>2, <2>3, <2>4
<1>6. ASSUME NEW c \in Containers, Migrate(c)
      PROVE  Stays
  <2> DEFINE p == [proc[c] EXCEPT !.step = "starting", !.booted = TRUE]
  <2>1. p \in Process
    BY <1>1 DEF Process, Step
  <2>2. proc' = [proc EXCEPT ![c] = p]
    BY <1>1, <1>6 DEF Migrate, Process
  <2> HIDE DEF p
  <2>3. CanReachHead(db) /\ db' = Path(db)[4] /\ UNCHANGED <<patched, lowered>>
    BY <1>2, <1>6 DEF Migrate, MayMigrate
  <2>4. ~patched /\ db = Canonical[db.version]
    BY <1>1, <2>3, ReachesHead, ShapeIs
  <2>5. Path(Canonical[db.version])[4] = Canonical[4]
    BY <1>2, PathOfCanonical
  <2>6. db' = Canonical[4]
    BY <2>3, <2>4, <2>5
  <2>7. Shape'
    BY <2>3, <2>4, <2>6 DEF Shape
  <2>8. \A e \in Containers : AtHead(e)'
    BY <2>6 DEF AtHead
  <2> QED BY <1>1, <2>1, <2>2, <2>3, <2>7, <2>8 DEF Stays
<1>7. ASSUME NEW c \in Containers, NothingToMigrate(c)
      PROVE  Stays
  <2> DEFINE p == [proc[c] EXCEPT !.step = "starting", !.booted = TRUE]
  <2>1. p \in Process
    BY <1>1 DEF Process, Step
  <2>2. proc' = [proc EXCEPT ![c] = p]
    BY <1>1, <1>7 DEF NothingToMigrate, Process
  <2>3. ~lowered => db = Canonical[4]
    BY <1>1, <1>2, <1>7 DEF NothingToMigrate, AtHead
  <2> HIDE DEF p
  <2> QED BY <1>4, <1>7, <2>1, <2>2, <2>3 DEF NothingToMigrate
<1>8. ASSUME NEW c \in Containers, MigrationFails(c) \/ Stop(c)
      PROVE  Stays
  BY <1>3, <1>4, <1>8 DEF MigrationFails, Stop
<1>9. ASSUME NEW c \in Containers, Reload(c) \/ StartFails(c)
      PROVE  Stays
  <2>0. PICK s \in {"starting", "down"} :
          /\ proc' = [proc EXCEPT ![c] = [Off EXCEPT !.step = s]]
          /\ UNCHANGED <<db, patched, lowered>>
    BY <1>9 DEF Reload, StartFails
  <2> DEFINE p == [Off EXCEPT !.step = s]
  <2>1. p \in Process /\ p.saw = 0 /\ p.booted = FALSE
    BY <1>3 DEF Process, Step
  <2>2. proc' = [proc EXCEPT ![c] = p] /\ UNCHANGED <<db, patched, lowered>>
    BY <2>0
  <2> HIDE DEF p
  <2>3. ~(p.saw = 4 \/ p.booted)
    BY <2>1
  <2> QED BY <1>4, <2>1, <2>2, <2>3
<1>10. ASSUME NEW c \in Containers, Inspect(c)
       PROVE  Stays
  <2> DEFINE p == [proc[c] EXCEPT !.step = "creating", !.todo = Missing(db)]
  <2>1. p \in Process /\ p.saw = proc[c].saw /\ p.booted = proc[c].booted
    BY <1>1, WhatIsMissing DEF Process, Step
  <2>2. proc' = [proc EXCEPT ![c] = p]
    BY <1>1, <1>10 DEF Inspect, Process
  <2> HIDE DEF p
  <2>3. (p.saw = 4 \/ p.booted) /\ ~lowered => db = Canonical[4]
    BY <1>1, <2>1 DEF AtHead
  <2> QED BY <1>4, <1>10, <2>1, <2>2, <2>3 DEF Inspect
<1>11. ASSUME NEW c \in Containers, CreateAll(c)
       PROVE  Stays
  <2>0. PICK s \in {"up", "down"} :
          proc' = [proc EXCEPT ![c].step = s, ![c].todo = {}]
    BY <1>11 DEF CreateAll
  <2> DEFINE p == [proc[c] EXCEPT !.step = s, !.todo = {}]
             todo == proc[c].todo
  <2>1. p \in Process /\ p.saw = proc[c].saw /\ p.booted = proc[c].booted
    BY <1>1 DEF Process, Step, Todos
  <2>2. proc' = [proc EXCEPT ![c] = p]
    BY <1>1, <2>0 DEF Process
  <2>3. todo \in Todos
    BY <1>1 DEF Process
  <2>4. /\ Creatable(db, todo) /\ db' = WithTables(db, todo)
        /\ patched' = (patched \/ todo # {}) /\ lowered' = lowered
    BY <1>11 DEF CreateAll
  <2> HIDE DEF p, todo
  <2>5. (p.saw = 4 \/ p.booted) /\ ~lowered => db = Canonical[4]
    BY <1>1, <2>1 DEF AtHead
  <2>6. CASE todo = {} /\ WithTables(db, todo) = db
    BY <1>1, <1>4, <2>1, <2>2, <2>4, <2>5, <2>6
  <2>7. CASE /\ todo # {} /\ ~patched /\ db.version \in {1, 2}
             /\ WithTables(db, todo) = Patched(db.version)
    <3>1. Shape'
      BY <2>4, <2>7 DEF Shape
    <3>2. proc' \in [Containers -> Process]
      BY <1>1, <2>1, <2>2
    <3>3. db # Canonical[4]
      BY <2>7, Laid
    <3>4. \A e \in Containers : proc'[e].saw = proc[e].saw /\ proc'[e].booted = proc[e].booted
      BY <1>1, <2>1, <2>2
    <3>5. \A e \in Containers : AtHead(e)'
      BY <1>1, <2>4, <3>3, <3>4 DEF AtHead
    <3> QED BY <1>1, <2>4, <3>1, <3>2, <3>5 DEF Stays
  <2> QED BY <1>1, <2>3, <2>4, <2>6, <2>7, WhatIsCreated
<1>12. ASSUME Lower
       PROVE  Stays
  <2>1. /\ db.version > 0 /\ Revocable(db, Downgrade[db.version])
        /\ db' = Downgraded(db, Downgrade[db.version])
        /\ lowered' = TRUE /\ UNCHANGED <<proc, patched>>
    BY <1>12 DEF Lower
  <2>2. \/ ~patched /\ db' = Canonical[db.version - 1]
        \/ patched /\ db' = Patched(1)
    BY <1>1, <2>1, WhatIsLowered
  <2>3. Shape'
    BY <1>2, <2>1, <2>2 DEF Shape
  <2>4. \A e \in Containers : AtHead(e)'
    BY <2>1 DEF AtHead
  <2> QED BY <1>1, <2>1, <2>3, <2>4 DEF Stays
<1>13. CASE UNCHANGED vars
  BY <1>1, <1>13 DEF SInv, Shape, AtHead, vars
<1>14. CASE Next
  <2>1. Stays
    BY <1>5, <1>6, <1>7, <1>8, <1>9, <1>10, <1>11, <1>12, <1>14 DEF Next
  <2> QED BY <2>1 DEF Stays, SInv
<1> QED BY <1>13, <1>14

\* The inductive invariant of the schema holds throughout.
THEOREM SchemaInv == Spec => []SInv
BY InitHolds, NextKeeps, PTL DEF Spec

\* TypeOK of Schema: the tables are tables of the models, the version is one of
\* the revisions', each container is at one of its steps.
THEOREM SchemaTypes == Spec => []TypeOK
<1>1. SInv => TypeOK
  <2> SUFFICES ASSUME SInv PROVE TypeOK
    OBVIOUS
  <2>1. DOMAIN db.cols \subseteq DOMAIN ModelCols /\ db.version \in 0..Newest
    BY ShapeIs, TablesOfModels, Revised DEF SInv
  <2>2. \A c \in Containers : proc[c] \in Process
    BY DEF SInv
  <2>3. \A c \in Containers : /\ proc[c].step \in Step /\ proc[c].saw \in 0..Newest
                              /\ proc[c].todo \subseteq DOMAIN ModelCols
    BY <2>2, Revised DEF Process, Todos
  <2> QED BY <2>1, <2>3 DEF TypeOK
<1> QED BY <1>1, SchemaInv, PTL

\* SchemaIsItsVersion: for any number of containers, the schema is the one
\* alembic's version stands for, unless create_all made tables at 001 or 002.
THEOREM SchemaFollows == Spec => []SchemaIsItsVersion
<1>1. SInv => SchemaIsItsVersion
  <2>1. "user_sessions" \in Secure
    BY DEF Secure
  <2> QED BY <2>1, ShapeIs DEF SInv, SchemaIsItsVersion
<1> QED BY <1>1, SchemaInv, PTL

\* StuckForGood: no step makes a schema able to reach the head that is not.
THEOREM NoWayBack == Spec => StuckForGood
<1>1. SInv /\ SInv' /\ [Next]_vars => [~CanReachHead(db) => ~CanReachHead(db')]_vars
  <2> SUFFICES ASSUME SInv, SInv', [Next]_vars, ~CanReachHead(db)
               PROVE  ~CanReachHead(db')
    OBVIOUS
  <2>1. patched
    BY ReachesHead DEF SInv
  <2>2. patched'
    BY <2>1 DEF Next, vars, Boot, Migrate, NothingToMigrate, MigrationFails, Reload,
                Inspect, CreateAll, StartFails, Stop, Lower
  <2>3. \E v \in {1, 2} : db' = Patched(v)
    BY <2>2 DEF SInv, Shape
  <2> QED BY <2>3, PatchedIsStuck
<1>2. Spec => []SInv
  BY SchemaInv
<1> QED BY <1>1, <1>2, PTL DEF Spec, StuckForGood

-----------------------------------------------------------------------------
(* The tables that handlers use.                                           *)

\* At 004 the tables that handlers use are as the models declare them.
LEMMA HeadFits ==
  \A t \in HandlerTables :
    /\ Cols(Canonical[4].cols, t) = ModelCols[t]
    /\ {i \in Canonical[4].idx : i[1] = t} = {i \in ModelIdx : i[1] = t}
    /\ Cols(ModelTypes, t) \subseteq Canonical[4].types
<1>1. Cols(Canonical[4].cols, "users") = ModelCols["users"]
  <2>1. /\ Cols(Upgrade001.cols, "users") = Users001 /\ Cols(Upgrade002.cols, "users") = Users002
        /\ Cols(Upgrade003.cols, "users") = Users003 /\ Cols(Upgrade004.cols, "users") = Users004
    BY DEF Upgrade001, Upgrade002, Upgrade003, Upgrade004, Cols
  <2>2. Users001 \cup Users002 \cup Users003 \cup Users004 = ModelUser
    BY DEF Users001, Users002, Users003, Users004, ModelUser
  <2> QED BY <2>1, <2>2, Fields004, ColsOfModels
<1>2. Cols(Canonical[4].cols, "likes") = ModelCols["likes"]
  <2>1. /\ Cols(Upgrade001.cols, "likes") = Upgrade001.cols["likes"]
        /\ Cols(Upgrade002.cols, "likes") = Upgrade002.cols["likes"]
        /\ Cols(Upgrade003.cols, "likes") = {} /\ Cols(Upgrade004.cols, "likes") = {}
    BY DEF Upgrade001, Upgrade002, Upgrade003, Upgrade004, Cols
  <2>2. Upgrade001.cols["likes"] \cup Upgrade002.cols["likes"] = ModelLike
    BY DEF Upgrade001, Upgrade002, ModelLike
  <2> QED BY <2>1, <2>2, Fields004, ColsOfModels
<1>3. Cols(Canonical[4].cols, "chats") = ModelCols["chats"]
  <2>1. /\ Cols(Upgrade001.cols, "chats") = Upgrade001.cols["chats"]
        /\ Cols(Upgrade002.cols, "chats") = Upgrade002.cols["chats"]
        /\ Cols(Upgrade003.cols, "chats") = {} /\ Cols(Upgrade004.cols, "chats") = {}
    BY DEF Upgrade001, Upgrade002, Upgrade003, Upgrade004, Cols
  <2>2. Upgrade001.cols["chats"] \cup Upgrade002.cols["chats"] = ModelChat
    BY DEF Upgrade001, Upgrade002, ModelChat, Circles
  <2> QED BY <2>1, <2>2, Fields004, ColsOfModels
<1>4. ASSUME NEW t \in Secure
      PROVE  Cols(Canonical[4].cols, t) = ModelCols[t]
  <2>1. /\ Cols(Upgrade001.cols, t) = {} /\ Cols(Upgrade002.cols, t) = {}
        /\ Cols(Upgrade004.cols, t) = {}
    BY TablesOfRevisions DEF Cols, Core
  <2>2. Cols(Upgrade003.cols, t) = ModelSecurity[t]
    BY DEF Upgrade003, ModelSecurity, Secure, Cols
  <2> QED BY <2>1, <2>2, Fields004, ColsOfModels
<1>5. \A i : i[1] \in HandlerTables => (i \in Canonical[4].idx <=> i \in ModelIdx)
  <2> SUFFICES ASSUME NEW i, i[1] \in HandlerTables
               PROVE  i \in Canonical[4].idx <=> i \in ModelIdx
    OBVIOUS
  <2>1. i \in Canonical[4].idx <=> \/ i \in Upgrade001.idx \/ i \in Upgrade002.idx
                                  \/ i \in Upgrade003.idx \/ i \in Upgrade004.idx
    BY Fields004
  <2>2. i[1] = "users" \/ i[1] \in {"likes", "chats"} \/ i[1] \in Secure
    BY DEF HandlerTables, Secure
  <2>3. i \in Upgrade002.idx => i \in {"users"} \X UserIdx002
    BY DEF Upgrade002, HandlerTables
  <2>4. {"users"} \X UserIdx002 \subseteq Upgrade002.idx
    BY DEF Upgrade002
  <2>5. Upgrade004.idx = {"users"} \X Users004
    BY DEF Upgrade004
  <2>6. \A j : j \in {"users"} \X (UserIdx002 \cup Users004) <=>
               j \in {"users"} \X UserIdx002 \/ j \in {"users"} \X Users004
    OBVIOUS
  <2>7. i \in Canonical[4].idx => i \in ModelIdx
    BY <2>1, <2>3, <2>5, <2>6, IdxOfModels
  <2>8. i \in ModelIdx => i \in Canonical[4].idx
    BY <2>1, <2>2, <2>4, <2>5, <2>6, IdxOfModels
  <2> QED BY <2>7, <2>8
<1>6. \A t \in HandlerTables : Cols(ModelTypes, t) \subseteq Canonical[4].types
  <2>1. /\ Cols(ModelTypes, "users") = {"video_profile_status"} /\ Cols(ModelTypes, "likes") = {}
        /\ Cols(ModelTypes, "chats") = {"chat_status"} /\ Cols(ModelTypes, "user_sessions") = {}
        /\ Cols(ModelTypes, "audit_log") = {}
        /\ Cols(ModelTypes, "pricing_plans") = {"pricing_type"}
    BY DEF Cols, ModelTypes
  <2>2. "video_profile_status" \in Types002 /\ "pricing_type" \in Types003
    BY DEF Types002, Types003
  <2>3. Canonical[4].types = {"chat_status"} \cup Types002 \cup Types003
    BY Fields004
  <2> QED BY <2>1, <2>2, <2>3 DEF HandlerTables
<1>7. \A t \in HandlerTables : Cols(Canonical[4].cols, t) = ModelCols[t]
  <2>1. \A t \in HandlerTables : t \in {"users", "likes", "chats"} \/ t \in Secure
    BY DEF HandlerTables, Secure
  <2> QED BY <1>1, <1>2, <1>3, <1>4, <2>1
<1>8. \A t \in HandlerTables :
        {i \in Canonical[4].idx : i[1] = t} = {i \in ModelIdx : i[1] = t}
  BY <1>5
<1> QED BY <1>6, <1>7, <1>8

\* BootedFits: an API started by the entrypoint has the tables its handlers
\* use just as the models declare them, until someone downgrades.
THEOREM BootedFindsItsTables == Spec => []BootedFits
<1>1. SInv => BootedFits
  BY HeadFits DEF SInv, AtHead, BootedFits
<1> QED BY <1>1, SchemaInv, PTL

-----------------------------------------------------------------------------
(* Quotes.                                                                 *)

\* A row of pricing_plans, with NULL where its columns allow it, and no negative
\* amounts.
PerMinuteRow ==
  [slug : STRING, type : {"per_minute"}, minutes : Nat \cup {None}, price : Nat,
   rate : Nat \cup {None}, least : Nat \cup {None}]

\* Whatever per-minute plan is on offer, a longer call is never cheaper, and no
\* call is cheaper than the least minutes of the plan, if it has any.  (Nothing
\* keeps the minutes asked for from being negative; the least minutes do.)
THEOREM LongerCallsCostMore ==
  ASSUME NEW plan \in PerMinuteRow,
         NEW m \in Int \ {None}, NEW n \in Int \ {None}, m <= n
  PROVE  /\ Quote(plan, m).price <= Quote(plan, n).price
         /\ plan.least \notin {None, 0} => Or(plan.rate, 0) * plan.least <= Quote(plan, m).price
<1> DEFINE rate == Or(plan.rate, 0)
           a == Charged(plan, m)
           b == Charged(plan, n)
<1>1. None \notin Nat
  BY DEF None
<1>2. plan.type = "per_minute" /\ plan.rate \in Nat \cup {None} /\ plan.least \in Nat \cup {None}
  BY DEF PerMinuteRow
<1>3. rate \in Nat
  BY <1>2 DEF Or
<1>4. a \in Int /\ b \in Int /\ a <= b /\ (plan.least \notin {None, 0} => plan.least <= a)
  BY <1>1, <1>2 DEF Charged
<1>5. Quote(plan, m).price = rate * a /\ Quote(plan, n).price = rate * b
  BY <1>2 DEF Quote
<1> HIDE DEF rate, a, b
<1>6. \A x, y \in Int : x <= y => rate * x <= rate * y
  BY <1>3
<1>7. rate * a <= rate * b
  BY <1>4, <1>6
<1>8. plan.least \notin {None, 0} => rate * plan.least <= rate * a
  BY <1>2, <1>4, <1>6
<1> QED BY <1>5, <1>7, <1>8 DEF rate

PerMinutePlan == PerMinute("per_minute", 667, 15)

\* The minutes of a call that are paid.
Paid(m) == IF m < 15 THEN 15 ELSE m

\* pricing_plans has the rows of 003, or none.
LEMMA PlansAre ==
  ASSUME Shape
  PROVE  /\ db.plans = {} \/ db.plans = Plans003
         /\ db.plans = Plans003 => ~patched
         /\ ~patched /\ "pricing_plans" \in DOMAIN db.cols => db.plans = Plans003
<1>1. Plans003 # {}
  BY DEF Plans003
<1>2. Canonical[0].plans = {} /\ DOMAIN Canonical[0].cols = {}
  <2>1. Empty.plans = {} /\ Empty.cols = <<>>
    BY DEF Empty
  <2> QED BY <2>1, CanonicalIs
<1>3. "pricing_plans" \in Secure
  BY DEF Secure
<1>4. CASE patched
  BY <1>1, <1>4, Patched1, Patched2 DEF Shape
<1>5. CASE ~patched
  <2>1. PICK v \in 0..4 : db = Canonical[v]
    BY <1>5 DEF Shape
  <2>2. CASE v \in 0..2
    BY <1>2, <1>3, <1>5, <2>1, <2>2, Fields001, Fields002, TablesOfRevisions
  <2>3. CASE v \in 3..4
    BY <1>5, <2>1, <2>3, Fields003, Fields004
  <2> QED BY <2>2, <2>3
<1> QED BY <1>4, <1>5

\* A slug of Plans003 names one plan.
LEMMA PlanOfSlug ==
  ASSUME NEW p \in Plans003, NEW m
  PROVE  QuoteBySlug(Plans003, p.slug, m) = Quote(p, m)
<1>1. \A q \in Plans003 : q.slug = p.slug => q = p
  BY DEF Plans003, Package, PerMinute
<1>2. (CHOOSE q \in Plans003 : q.slug = p.slug) = p
  BY <1>1
<1> QED BY <1>2 DEF QuoteBySlug

\* Packages cost what they say, no more than their minutes and no more per
\* minute than shorter ones.
LEMMA PriceOfPackages ==
  /\ \A p \in Plans003 : p.type = "package" =>
       /\ \A m : Quote(p, m).price = p.price
       /\ p.minutes \in Int /\ p.price \in Int
       /\ p.minutes >= 15 /\ p.price <= 667 * p.minutes
  /\ \A p, q \in Plans003 :
       p.type = "package" /\ q.type = "package" /\ p.minutes < q.minutes =>
         q.price * p.minutes <= p.price * q.minutes
<1>1. \A p \in Plans003 : p.type = "package" => \A m : Quote(p, m).price = p.price
  BY DEF Quote
<1>2. \A p \in Plans003 : p.type = "package" =>
        \/ p.minutes = 60 /\ p.price = 40000
        \/ p.minutes = 120 /\ p.price = 76000
        \/ p.minutes = 180 /\ p.price = 108000
        \/ p.minutes = 240 /\ p.price = 140000
  BY DEF Plans003, Package, PerMinute
<1>3. \A p, q \in Plans003 :
       p.type = "package" /\ q.type = "package" /\ p.minutes < q.minutes =>
         q.price * p.minutes <= p.price * q.minutes
  BY <1>2
<1> QED BY <1>1, <1>2, <1>3

\* A minute costs 667 kopecks, and at least 15 are paid.
LEMMA PriceOfMinutes ==
  /\ PerMinutePlan \in Plans003 /\ PerMinutePlan.slug = "per_minute"
  /\ \A m \in Int : QuoteBySlug(Plans003, "per_minute", m).price = 667 * Paid(m)
<1>1. /\ PerMinutePlan \in Plans003 /\ PerMinutePlan.slug = "per_minute"
      /\ PerMinutePlan.type = "per_minute" /\ PerMinutePlan.rate = 667
      /\ PerMinutePlan.least = 15
  BY DEF PerMinutePlan, Plans003, PerMinute
<1>2. Or(PerMinutePlan.least, 15) = 15 /\ Or(PerMinutePlan.rate, 0) = 667
  BY <1>1 DEF Or, None
<1>3. \A m \in Int : Charged(PerMinutePlan, m) = Paid(m)
  BY <1>1, <1>2 DEF Charged, Paid, None
<1>4. \A m \in Int : Quote(PerMinutePlan, m).price = 667 * Paid(m)
  BY <1>1, <1>2, <1>3 DEF Quote
<1>5. \A m \in Int : QuoteBySlug(Plans003, "per_minute", m) = Quote(PerMinutePlan, m)
  BY <1>1, PlanOfSlug
<1> QED BY <1>1, <1>4, <1>5

\* QuotesAreFair: for any minutes asked for, and whatever happened to the
\* schema.
THEOREM FairQuotes == Spec => []QuotesAreFair
<1>1. SInv => QuotesAreFair
  <2> SUFFICES ASSUME SInv PROVE QuotesAreFair
    OBVIOUS
  <2> DEFINE packages == {p \in db.plans : p.type = "package"}
  <2>1. Plans003 # {}
    BY DEF Plans003
  <2>2. "pricing_plans" \in DOMAIN db.cols => (db.plans # {} <=> CanReachHead(db))
    BY <2>1, PlansAre, ReachesHead DEF SInv
  <2>3. ASSUME db.plans # {}
        PROVE  /\ \A p \in packages :
                    /\ QuoteBySlug(db.plans, p.slug, None).price
                         <= QuoteBySlug(db.plans, "per_minute", p.minutes).price
                    /\ \A q \in packages :
                         p.minutes < q.minutes => q.price * p.minutes <= p.price * q.minutes
               /\ \A m \in QuoteMinutes, n \in QuoteMinutes :
                    /\ QuoteBySlug(db.plans, "per_minute", m).price
                         >= QuoteBySlug(db.plans, "per_minute", None).price
                    /\ m <= n => QuoteBySlug(db.plans, "per_minute", m).price
                                   <= QuoteBySlug(db.plans, "per_minute", n).price
    <3>1. db.plans = Plans003
      BY <2>3, PlansAre DEF SInv
    <3>2. ASSUME NEW p \in packages
          PROVE  QuoteBySlug(db.plans, p.slug, None).price
                   <= QuoteBySlug(db.plans, "per_minute", p.minutes).price
      <4>1. QuoteBySlug(Plans003, p.slug, None) = Quote(p, None)
        BY <3>1, PlanOfSlug
      <4>2. p.minutes \in Int /\ p.minutes >= 15 /\ p.price <= 667 * p.minutes
            /\ Quote(p, None).price = p.price /\ p.price \in Int
        BY <3>1, PriceOfPackages
      <4>3. QuoteBySlug(Plans003, "per_minute", p.minutes).price = 667 * p.minutes
        BY <4>2, PriceOfMinutes DEF Paid
      <4> QED BY <3>1, <4>1, <4>2, <4>3
    <3>3. ASSUME NEW p \in packages, NEW q \in packages, p.minutes < q.minutes
          PROVE  q.price * p.minutes <= p.price * q.minutes
      BY <3>1, <3>3, PriceOfPackages
    <3>4. ASSUME NEW m \in QuoteMinutes, NEW n \in QuoteMinutes
          PROVE  /\ QuoteBySlug(db.plans, "per_minute", m).price
                      >= QuoteBySlug(db.plans, "per_minute", None).price
                 /\ m <= n => QuoteBySlug(db.plans, "per_minute", m).price
                                <= QuoteBySlug(db.plans, "per_minute", n).price
      <4>1. m \in Int /\ n \in Int /\ None \in Int /\ None < 15
        BY MinutesAssumption DEF None
      <4>2. /\ QuoteBySlug(Plans003, "per_minute", m).price = 667 * Paid(m)
            /\ QuoteBySlug(Plans003, "per_minute", n).price = 667 * Paid(n)
            /\ QuoteBySlug(Plans003, "per_minute", None).price = 667 * Paid(None)
        BY <4>1, PriceOfMinutes
      <4>3. Paid(None) = 15 /\ Paid(m) >= 15 /\ (m <= n => Paid(m) <= Paid(n))
        BY <4>1 DEF Paid
      <4> QED BY <3>1, <4>1, <4>2, <4>3 DEF Paid
    <3> QED BY <3>2, <3>3, <3>4
  <2>4. db.plans = {} => \A m \in QuoteMinutes : QuoteBySlug(db.plans, "per_minute", m) = Unknown
    BY DEF QuoteBySlug
  <2> QED BY <2>2, <2>3, <2>4 DEF QuotesAreFair
<1> QED BY <1>1, SchemaInv, PTL

=============================================================================
