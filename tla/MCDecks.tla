------------------------------ MODULE MCDecks ------------------------------
(* A guest of twenty, who looks for women, on the second day of a year of  *)
(* three.                                                                  *)
EXTENDS Decks

Date2(y, d) == [year |-> y, day |-> d]

Guest == [id |-> 0, gender |-> "male", age |-> 20]

MidYear == Date2(30, 2)

Row(g, b) ==
  [gender |-> g, birth |-> b, approved |-> TRUE, frozen |-> FALSE, deleted |-> FALSE]

Frozen(row) == [row EXCEPT !.frozen = TRUE]

\* Three people for the cards, of whom the newest, frozen at first, comes and goes
\* and leaves the first without a place on a page of two.
InTheCards == <<Row("female", Date2(14, 2)),          \* four years younger
                Row("female", Date2(5, 3)),           \* the oldest let in
                Frozen(Row("female", Date2(6, 3))),   \* three years older
                [Row("female", Date2(10, 1)) EXCEPT !.approved = FALSE]>>

\* Two people who are for the reels only, with one who comes and goes in both.
TooOldOrMale == <<Row("female", Date2(4, 2)),
                  Row("male", Date2(10, 1)),
                  Frozen(Row("female", Date2(15, 1))),   \* the youngest let in
                  [Row("female", Date2(10, 1)) EXCEPT !.deleted = TRUE]>>

TooYoungOrUnstated == <<Row("female", Date2(15, 3)),
                        Row(Nothing, Date2(10, 1)),
                        Frozen(Row("female", Nothing)),
                        Frozen(Row("female", Date2(10, 1)))>>

Casts == {InTheCards, TooOldOrMale, TooYoungOrUnstated}

OneCast == {InTheCards}

AnyCall == Permutations(Calls)
=============================================================================
