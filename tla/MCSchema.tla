------------------------------ MODULE MCSchema ------------------------------
(* Two containers of the API over one database. *)
EXTENDS Schema

SomeMinutes == {-60, 0, 1, 14, 15, 16, 60, 240}
=============================================================================
