----------------------------- MODULE LikeLedger -----------------------------
(***************************************************************************)
(* What liking and registering promise, as if every request were one step: *)
(* a like adds one row and may discover a match, a registration takes rows *)
(* over from one guest and never matches.  Matching.tla shows that the     *)
(* handlers, which take many steps over uncommitted data, keep to this.    *)
(*                                                                         *)
(* Two freedoms are deliberate.  A like may miss the reverse like (they    *)
(* crossed), and a match may come without a chat (the cap).  A claim may   *)
(* leave rows of the guest behind (they were in flight).                   *)
(***************************************************************************)
EXTENDS LikeTables

CanLike(a, x) == /\ a \in accounts \cup Guests
                 /\ x \in accounts
                 /\ a # x
                 /\ \A l \in likes : Key(l) # <<a, x>>

\* A like that finds no match.
Like(a, x) ==
  /\ CanLike(a, x)
  /\ likes' = likes \cup {NewLike(a, x)}
  /\ UNCHANGED <<accounts, chats>>

\* A like that finds the reverse like: both rows become mutual at once, and
\* a chat is opened unless one of the two has too many.
LikeBack(a, x) ==
  /\ CanLike(a, x)
  /\ a \in accounts
  /\ Reverse(likes, a, x) # {}
  /\ likes' = (likes \ Reverse(likes, a, x))
                \cup MarkMutual(Reverse(likes, a, x) \cup {NewLike(a, x)})
  /\ chats' \in {chats, chats \cup {{a, x}}}
  /\ UNCHANGED accounts

\* A registration, with the guest's rows it takes over.
Join(u, rows) ==
  /\ u \in Users \ accounts
  /\ rows \subseteq likes
  /\ \A l, m \in rows : l.sender \in Guests /\ l.sender = m.sender
  /\ accounts' = accounts \cup {u}
  /\ likes' = (likes \ rows) \cup {Claimed(l, u) : l \in rows}
  /\ UNCHANGED chats

Next == \/ \E a \in Person, x \in Users : Like(a, x) \/ LikeBack(a, x)
        \/ \E u \in Users : \E rows \in SUBSET likes : Join(u, rows)

Spec == TablesInit /\ [][Next]_tables
=============================================================================
