-------------------------------- MODULE Feed --------------------------------
(***************************************************************************)
(* Who is shown to whom (feed_service.py, calc_age): the conditions of the *)
(* two queries.  A date is a year and a day of the year, by month and day. *)
(* A viewer is a CurrentActor: a guest has the age and gender it stated, an *)
(* account has the gender of its row and no age.                           *)
(***************************************************************************)
EXTENDS Integers

CONSTANTS DaysPerYear, Nothing   \* NULL and None

Date == [year: Int, day: 1..DaysPerYear]

ASSUME CalendarAssumption == /\ DaysPerYear \in Nat \ {0}
                             /\ Nothing \notin Int \cup Date

\* d <= e
UpTo(d, e) == d.year < e.year \/ (d.year = e.year /\ d.day <= e.day)

\* The age written on the card.
CalcAge(birth, today) ==
  today.year - birth.year - (IF today.day < birth.day THEN 1 ELSE 0)

\* _max_birth_date and _min_birth_date: 31 December and 1 January.
MaxBirthDate(age, today) == [year |-> today.year - age, day |-> DaysPerYear]

\* The `m...' operator is a faulty variant of the one that follows it.
mYearsEnd(age, today) == [year |-> today.year - age, day |-> DaysPerYear]

MinBirthDate(age, today) == [year |-> today.year - age, day |-> 1]

AgeFits(viewer, row, today) ==
  viewer.age # Nothing =>
    /\ row.birth # Nothing
    /\ UpTo(MaxBirthDate(viewer.age + 5, today), row.birth)
    /\ UpTo(row.birth, MinBirthDate(viewer.age - 5, today))

GenderFits(viewer, row) ==
  /\ viewer.gender = "male" => row.gender = "female"
  /\ viewer.gender = "female" => row.gender = "male"

\* The WHERE of both queries.
Visible(row) == row.approved /\ ~row.frozen /\ ~row.deleted

\* Users of the card query and of the reels query.
ForCards(rows, viewer, today) ==
  {p \in DOMAIN rows : /\ Visible(rows[p])
                       /\ p # viewer.id
                       /\ GenderFits(viewer, rows[p])
                       /\ AgeFits(viewer, rows[p], today)}

ForReels(rows, viewer, exclude) ==
  {p \in DOMAIN rows : Visible(rows[p]) /\ p # viewer.id /\ p \notin exclude}
=============================================================================
