----------------------------- MODULE MCSessions -----------------------------
(* Instances of Sessions for TLC. *)
EXTENDS Sessions, TLC

CONSTANTS p, q, one, two

\* One page with two calls under way, and two pages with one call each.
OnePage == [c \in {one, two} |-> p]
TwoPages == (one :> p) @@ (two :> q)

AnyRowOrPage == Permutations(Ids) \cup {(p :> q) @@ (q :> p) @@ (one :> two) @@ (two :> one)}
=============================================================================
