------------------------------ MODULE Pricing ------------------------------
(***************************************************************************)
(* What a video date costs (pricing_service.py), given the rows of         *)
(* pricing_plans.  A NULL column, and a quote without minutes, is None;    *)
(* every row is active.  Prices are in kopecks.                            *)
(***************************************************************************)
EXTENDS Integers

None == -1000

Package(slug, minutes, price) ==
  [slug |-> slug, type |-> "package", minutes |-> minutes, price |-> price,
   rate |-> None, least |-> None]

PerMinute(slug, rate, least) ==
  [slug |-> slug, type |-> "per_minute", minutes |-> None, price |-> 0,
   rate |-> rate, least |-> least]

\* Python's `x or default'.
Or(x, default) == IF x \in {None, 0} THEN default ELSE x

\* The minutes that are charged for.
mAsAsked(plan, minutes) == IF minutes = None THEN Or(plan.least, 15) ELSE minutes

Charged(plan, minutes) ==
  LET asked == IF minutes = None THEN Or(plan.least, 15) ELSE minutes
  IN IF plan.least \notin {None, 0} /\ asked < plan.least THEN plan.least ELSE asked

\* POST /pricing/quote; an unknown plan is a 404.
Quote(plan, minutes) ==
  IF plan.type = "package" THEN [minutes |-> plan.minutes, price |-> plan.price]
  ELSE [minutes |-> Charged(plan, minutes),
        price |-> Or(plan.rate, 0) * Charged(plan, minutes)]

Unknown == [minutes |-> None, price |-> None]

QuoteBySlug(plans, slug, minutes) ==
  IF \E p \in plans : p.slug = slug
  THEN Quote(CHOOSE p \in plans : p.slug = slug, minutes)
  ELSE Unknown
=============================================================================
