------------------------------- MODULE MCGate -------------------------------
(* One login and two registrations a window; two handlers.               *)
EXTENDS Gate, TLC

Limits == [login |-> 1, register |-> 2]

Windows == [login |-> 1, register |-> 2]

Interchangeable ==
  Permutations(Requests) \cup Permutations(Contacts) \cup Permutations(Genders)
=============================================================================
