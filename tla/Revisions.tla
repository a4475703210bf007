----------------------------- MODULE Revisions -----------------------------
(***************************************************************************)
(* What the four Alembic revisions do to the schema, and the schema that   *)
(* the ORM models of database.py describe.  A schema is                    *)
(*                                                                         *)
(*   cols     table -> its columns and named checks;                       *)
(*   idx      indexes, as <<table, column>>;                               *)
(*   types    enum types;                                                  *)
(*   plans    rows of pricing_plans;                                       *)
(*   version  how many revisions alembic_version says were applied.        *)
(*                                                                         *)
(* Column types, NULL and defaults are left out, but for the labels of     *)
(* enum types (LabelDrift).                                                *)
(***************************************************************************)
EXTENDS Pricing, Sequences

Cols(f, t) == IF t \in DOMAIN f THEN f[t] ELSE {}

Merge(f, g) == [t \in DOMAIN f \cup DOMAIN g |-> Cols(f, t) \cup Cols(g, t)]

-----------------------------------------------------------------------------
(* upgrade() of each revision: the tables it creates (`new'), the columns  *)
(* of those and the columns it adds to others, indexes, types, rows.       *)

Users001 == {"id", "phone", "email", "password_hash", "name", "birth_date",
             "birth_time", "birth_place", "city", "gender", "balance",
             "is_registered", "video_profile_url", "avatar_url", "created_at"}

Upgrade001 ==
  [new |-> {"users", "likes", "chats"},
   cols |-> [users |-> Users001,
             likes |-> {"id", "sender_id", "receiver_id", "is_mutual",
                        "created_at", "uq_like_sender_receiver"},
             chats |-> {"id", "user_one_id", "user_two_id", "status",
                        "updated_at", "uq_chat_users"}],
   idx |-> {<<"likes", "sender_id">>, <<"likes", "receiver_id">>,
            <<"chats", "user_one_id">>, <<"chats", "user_two_id">>},
   types |-> {"chat_status"}, plans |-> {}]

Users002 == {"video_profile_status", "description", "occupation",
             "has_children", "children_count", "attractiveness_score",
             "overall_rating", "compatibility_cache", "is_online",
             "last_active_at"}

UserIdx002 == {"city", "gender", "has_children", "attractiveness_score",
               "overall_rating", "video_profile_status"}

Types002 == {"video_profile_status", "moderation_status", "subscription_status"}

mNoCircles(cols) == {}

Circles(cols) == cols

Upgrade002 ==
  [new |-> {"interests", "user_interests", "user_goals", "user_goal_links",
            "moderation_queue", "video_dates", "ratings", "subscriptions"},
   cols |-> [users |-> Users002,
             likes |-> {"is_visible_to_receiver"},
             chats |-> Circles({"circle_count_user_one", "circle_count_user_two"}),
             interests |-> {"id", "slug", "label"},
             user_interests |-> {"user_id", "interest_id"},
             user_goals |-> {"id", "slug", "label"},
             user_goal_links |-> {"user_id", "goal_id"},
             moderation_queue |->
               {"id", "user_id", "video_s3_key", "status", "ai_score",
                "ai_flags", "admin_note", "created_at", "resolved_at"},
             video_dates |->
               {"id", "chat_id", "initiator_id", "scheduled_at", "started_at",
                "ended_at", "total_cost", "recording_consent", "webrtc_room_id"},
             ratings |->
               {"id", "video_date_id", "rater_id", "rated_id", "adequacy",
                "humor", "kindness", "empathy", "communicability", "review_text",
                "created_at", "ck_rating_adequacy", "ck_rating_humor",
                "ck_rating_kindness", "ck_rating_empathy",
                "ck_rating_communicability", "uq_rating_per_date"},
             subscriptions |-> {"id", "user_id", "plan_slug", "status",
                                "started_at", "expires_at"}],
   idx |-> ({"users"} \X UserIdx002) \cup
           {<<"interests", "slug">>, <<"user_interests", "interest_id">>,
            <<"user_goal_links", "goal_id">>, <<"moderation_queue", "status">>,
            <<"moderation_queue", "user_id">>, <<"subscriptions", "user_id">>},
   types |-> Types002, plans |-> {}]

Users003 == {"accepted_terms_at", "accepted_privacy_at", "pd_consent_version",
             "totp_secret_encrypted", "totp_enabled"}

Dates003 == {"pricing_plan_slug", "purchased_minutes", "price_kopecks"}

Types003 == {"pricing_type", "payment_status", "payment_kind"}

Plans003 == {Package("package_1h", 60, 40000), Package("package_2h", 120, 76000),
             Package("package_3h", 180, 108000), Package("package_4h", 240, 140000),
             PerMinute("per_minute", 667, 15)}

Upgrade003 ==
  [new |-> {"user_sessions", "audit_log", "pricing_plans", "payment_transactions"},
   cols |-> [users |-> Users003,
             video_dates |-> Dates003,
             user_sessions |->
               {"id", "user_id", "refresh_token_hash", "device_info",
                "ip_address", "trusted_until", "expires_at", "revoked_at",
                "created_at"},
             audit_log |-> {"id", "user_id", "action", "ip_address",
                            "user_agent", "metadata", "created_at"},
             pricing_plans |->
               {"id", "slug", "name", "pricing_type", "duration_minutes",
                "price_kopecks", "per_minute_rate_kopecks", "min_minutes",
                "is_active", "sort_order"},
             payment_transactions |->
               {"id", "user_id", "kind", "amount_kopecks", "status",
                "idempotency_key", "provider_ref", "pricing_plan_slug",
                "metadata", "created_at"}],
   idx |-> {<<"user_sessions", "user_id">>,
            <<"user_sessions", "refresh_token_hash">>,
            <<"audit_log", "user_id">>, <<"audit_log", "action">>,
            <<"audit_log", "created_at">>, <<"payment_transactions", "user_id">>},
   types |-> Types003, plans |-> Plans003]

Users004 == {"profile_frozen", "deleted_at"}

Upgrade004 ==
  [new |-> {}, cols |-> [users |-> Users004], idx |-> {"users"} \X Users004,
   types |-> {}, plans |-> {}]

Upgrade == <<Upgrade001, Upgrade002, Upgrade003, Upgrade004>>

Newest == Len(Upgrade)

-----------------------------------------------------------------------------
(* downgrade(): the tables it drops, in order, then columns, indexes and   *)
(* types.                                                                  *)

Downgrade001 == [tables |-> <<"chats", "likes", "users">>, cols |-> <<>>,
                 idx |-> {}, types |-> {"chat_status"}]

Downgrade002 ==
  [tables |-> <<"subscriptions", "ratings", "video_dates", "moderation_queue",
                "user_goal_links", "user_goals", "user_interests", "interests">>,
   cols |-> [chats |-> {"circle_count_user_one", "circle_count_user_two"},
             likes |-> {"is_visible_to_receiver"}, users |-> Users002],
   idx |-> {"users"} \X UserIdx002, types |-> Types002]

Downgrade003 ==
  [tables |-> <<"payment_transactions", "pricing_plans", "audit_log",
                "user_sessions">>,
   cols |-> [video_dates |-> Dates003, users |-> Users003],
   idx |-> {}, types |-> Types003]

Downgrade004 == [tables |-> <<>>, cols |-> [users |-> Users004],
                 idx |-> {"users"} \X Users004, types |-> {}]

Downgrade == <<Downgrade001, Downgrade002, Downgrade003, Downgrade004>>

\* Foreign keys, as <<referencing, referenced>>; the models declare the same.
ForeignKeys ==
  ({"likes", "chats", "user_interests", "user_goal_links", "moderation_queue",
    "video_dates", "ratings", "subscriptions", "user_sessions", "audit_log",
    "payment_transactions"} \X {"users"})
  \cup {<<"user_interests", "interests">>, <<"user_goal_links", "user_goals">>,
        <<"video_dates", "chats">>, <<"ratings", "video_dates">>}

-----------------------------------------------------------------------------
(* The classes of database.py.                                             *)

ModelUser ==
  {"id", "phone", "email", "password_hash", "name", "birth_date", "birth_time",
   "birth_place", "city", "gender", "balance", "is_registered",
   "video_profile_url", "avatar_url", "video_profile_status", "description",
   "occupation", "has_children", "children_count", "attractiveness_score",
   "overall_rating", "compatibility_cache", "is_online", "last_active_at",
   "accepted_terms_at", "accepted_privacy_at", "pd_consent_version",
   "totp_secret_encrypted", "totp_enabled", "profile_frozen", "deleted_at",
   "created_at"}

ModelLike == {"id", "sender_id", "receiver_id", "is_mutual",
              "is_visible_to_receiver", "created_at", "uq_like_sender_receiver"}

ModelChat == {"id", "user_one_id", "user_two_id", "status",
              "circle_count_user_one", "circle_count_user_two", "updated_at",
              "uq_chat_users"}

\* Interest, UserInterest, UserGoal, UserGoalLink.
ModelTags == [interests |-> {"id", "slug", "label"},
              user_interests |-> {"user_id", "interest_id"},
              user_goals |-> {"id", "slug", "label"},
              user_goal_links |-> {"user_id", "goal_id"}]

\* ModerationQueue, VideoDate, Rating, Subscription.
ModelDates ==
  [moderation_queue |-> {"id", "user_id", "video_s3_key", "status", "ai_score",
                         "ai_flags", "admin_note", "created_at", "resolved_at"},
   video_dates |-> {"id", "chat_id", "initiator_id", "scheduled_at",
                    "started_at", "ended_at", "total_cost", "pricing_plan_slug",
                    "purchased_minutes", "price_kopecks", "recording_consent",
                    "webrtc_room_id"},
   ratings |-> {"id", "video_date_id", "rater_id", "rated_id", "adequacy",
                "humor", "kindness", "empathy", "review_text", "created_at",
                "uq_rating_per_date", "ck_rating_adequacy", "ck_rating_humor",
                "ck_rating_kindness", "ck_rating_empathy"},
   subscriptions |-> {"id", "user_id", "plan_slug", "status", "started_at",
                      "expires_at"}]

\* UserSession, AuditLog, PricingPlan, PaymentTransaction.
ModelSecurity ==
  [user_sessions |-> {"id", "user_id", "refresh_token_hash", "device_info",
                      "ip_address", "trusted_until", "expires_at", "revoked_at",
                      "created_at"},
   audit_log |-> {"id", "user_id", "action", "ip_address", "user_agent",
                  "metadata", "created_at"},
   pricing_plans |-> {"id", "slug", "name", "pricing_type", "duration_minutes",
                      "price_kopecks", "per_minute_rate_kopecks", "min_minutes",
                      "is_active", "sort_order"},
   payment_transactions |->
     {"id", "user_id", "kind", "amount_kopecks", "status", "idempotency_key",
      "provider_ref", "pricing_plan_slug", "metadata", "created_at"}]

ModelCols == Merge(Merge([users |-> ModelUser, likes |-> ModelLike,
                          chats |-> ModelChat], ModelTags),
                   Merge(ModelDates, ModelSecurity))

\* Columns declared with index=True.
ModelIdx ==
  (UNION {{"users"} \X {"city", "gender", "video_profile_status", "has_children",
                        "attractiveness_score", "overall_rating",
                        "profile_frozen", "deleted_at"},
          {"likes"} \X {"sender_id", "receiver_id"},
          {"chats"} \X {"user_one_id", "user_two_id"},
          {"moderation_queue"} \X {"user_id", "status"},
          {"user_sessions"} \X {"user_id", "refresh_token_hash"},
          {"audit_log"} \X {"user_id", "action", "created_at"}})
  \cup {<<"interests", "slug">>, <<"user_interests", "interest_id">>,
        <<"user_goal_links", "goal_id">>, <<"subscriptions", "user_id">>,
        <<"payment_transactions", "user_id">>}

\* The enum types of a table's columns.
ModelTypes == [users |-> {"video_profile_status"}, chats |-> {"chat_status"},
               moderation_queue |-> {"moderation_status"},
               subscriptions |-> {"subscription_status"},
               pricing_plans |-> {"pricing_type"},
               payment_transactions |-> {"payment_kind", "payment_status"}]

\* Enum columns declared without values_callable: create_all would label their
\* type with the members' names, to which server_default (a value) does not
\* belong, so that PostgreSQL refuses the table.
LabelDrift == [moderation_queue |-> "moderation_status",
               subscriptions |-> "subscription_status"]
=============================================================================
