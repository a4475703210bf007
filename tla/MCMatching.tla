----------------------------- MODULE MCMatching -----------------------------
(* Instances of Matching for TLC: ann and bob are accounts, eve and fay can *)
(* register, g is a guest session.                                          *)
EXTENDS Matching, TLC

CONSTANTS ann, bob, eve, fay, g

\* A guest likes bob; two registrations want the guest's likes, which then are
\* those of eve or fay; eve likes bob by herself too.  Bob likes both, and tries
\* himself: bob's limit, bob's chats and the likes that cross are all contended.
RaceUsers == {bob, eve, fay}
RaceInitial == {bob}
RaceTaps == {<<g, bob>>, <<eve, bob>>} \cup ({bob} \X RaceUsers)

\* Nothing but two people who like each other, and themselves.
DuelUsers == {ann, bob}
DuelTaps == {ann, bob} \X {ann, bob}

\* Everyone likes ann and is liked back, more people than ann may match.
StarUsers == {ann, bob, eve, fay}
StarTaps == ({ann} \X {bob, eve, fay}) \cup ({bob, eve, fay} \X {ann})

AnyFan == Permutations(Requests) \cup Permutations({bob, eve, fay})
=============================================================================
