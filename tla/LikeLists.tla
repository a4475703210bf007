----------------------------- MODULE LikeLists -----------------------------
(***************************************************************************)
(* What people are shown of the tables of LikeTables: the likes they sent, *)
(* the likes they received, the number of matches and the list of chats.   *)
(* Each list is one SELECT, shown as a set: the order is left out.  Guests *)
(* are shown nothing but what they sent (403, or a count of 0).            *)
(***************************************************************************)
EXTENDS LikeTables

\* The inner join with the receiver's row.
BasketSent(a) ==
  {[user |-> l.receiver, mutual |-> l.mutual] :
     l \in {k \in likes : k.sender = a /\ k.receiver \in accounts}}

\* The likes that a receiver may see.
mEveryLike(u) == {l \in likes : l.receiver = u}

Received(u) == {l \in likes : l.receiver = u /\ l.visible}

\* The outer join: a sender without a row would be listed, as "Unknown".
BasketReceived(u) ==
  {[user |-> l.sender, mutual |-> l.mutual, known |-> l.sender \in accounts] :
     l \in Received(u)}

MutualCount(u) == Cardinality({l \in Received(u) : l.mutual})

\* Both orientations of the pair are looked up.
ChatList(u) == {v \in accounts : \E c \in ChatsOf(chats, u) : c = {u, v}}

Matches(list) == {i.user : i \in {j \in list : j.mutual}}

-----------------------------------------------------------------------------
\* Four screens, four queries, one truth: a match is listed by both sides and
\* counted once, whoever is in the chat list is among the matches, and a like
\* that is shown was sent by somebody who can be shown (no "Unknown", which
\* get_basket_received provides for).
ListsAgree ==
  \A u \in accounts :
    /\ Matches(BasketSent(u)) = Matches(BasketReceived(u))
    /\ MutualCount(u) = Cardinality(Matches(BasketReceived(u)))
    /\ ChatList(u) \subseteq Matches(BasketReceived(u))
    /\ \A i \in BasketReceived(u) :
         /\ i.known
         /\ \E j \in BasketSent(i.user) : j.user = u /\ j.mutual = i.mutual
=============================================================================
