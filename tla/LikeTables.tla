----------------------------- MODULE LikeTables -----------------------------
(***************************************************************************)
(* The committed rows that the like button reads and writes, and what must *)
(* be true of them between transactions, whatever wrote them.              *)
(*                                                                         *)
(* users   `accounts`: ids of registered people (a row is never removed:   *)
(*         deletion only sets deleted_at);                                 *)
(* likes   a set of rows [sender, receiver, visible, mutual]; a guest is a *)
(*         sender without an account, the receiver always has one (FK);    *)
(* chats   a set of unordered pairs: the code stores the smaller id first  *)
(*         and looks both orientations up.  No code path leaves ACTIVE.    *)
(***************************************************************************)
EXTENDS Naturals, FiniteSets

CONSTANTS Users,          \* every id a registration may be given
          InitialUsers,   \* those registered before we start to look
          Guests          \* ids of guest sessions

ASSUME PeopleAssumption == /\ InitialUsers \subseteq Users
                           /\ Users \cap Guests = {}

VARIABLES accounts, likes, chats

tables == <<accounts, likes, chats>>

-----------------------------------------------------------------------------
Person == Users \cup Guests

LikeRow == [sender: Person, receiver: Users, visible: BOOLEAN, mutual: BOOLEAN]

\* The column pair of the unique constraint uq_like_sender_receiver.
Key(l) == <<l.sender, l.receiver>>

Flip(k) == <<k[2], k[1]>>

\* A guest's like is hidden from its receiver until the guest registers.
NewLike(a, x) ==
  [sender |-> a, receiver |-> x, visible |-> a \in Users, mutual |-> FALSE]

\* The `m...' operators are faulty variants of the one that follows them.

\* The reverse like that turns a -> x into a match, as a set of 0 or 1 rows.
mWrongFlag(rows, a, x) == {l \in rows : Key(l) = <<x, a>> /\ l.mutual}

Reverse(rows, a, x) == {l \in rows : Key(l) = <<x, a>> /\ l.visible}

MarkMutual(rows) == {[l EXCEPT !.mutual = TRUE] : l \in rows}

\* A row of a guest after u has claimed it.
Claimed(l, u) == [l EXCEPT !.sender = u, !.visible = TRUE]

ChatsOf(set, u) == {c \in set : u \in c}

TablesInit == accounts = InitialUsers /\ likes = {} /\ chats = {}

TablesTypeOK == /\ accounts \subseteq Users
                /\ likes \subseteq LikeRow
                /\ chats \subseteq SUBSET Users

-----------------------------------------------------------------------------
(* What holds of the tables after every commit.                            *)

\* However requests for the same pair race, and however often a guest's
\* likes are claimed, no person likes the same person twice.
OneLikePerPair == \A l, m \in likes : Key(l) = Key(m) => l = m

\* Being mutual is a fact about two rows: a row marked mutual by one side's
\* request has its reverse row, marked too, and both are visible.
MutualIsSymmetric ==
  \A l \in likes : l.mutual =>
     /\ l.visible
     /\ \E m \in likes : Key(m) = Flip(Key(l)) /\ m.visible /\ m.mutual

\* Every chat was opened by a match of two different accounts, and the match
\* is still on record: no claim or later like takes the ground from a chat.
ChatsComeFromMatches ==
  \A c \in chats : \E l \in likes : l.mutual /\ c = {l.sender, l.receiver}
                                    /\ l.sender # l.receiver

\* A receiver only sees likes whose sender has an account by now, and a like
\* that is hidden still belongs to a guest.
HiddenUntilRegistered ==
  \A l \in likes : /\ l.receiver \in accounts
                   /\ l.sender \in IF l.visible THEN accounts ELSE Guests

\* All of it at once: likes, matches and chats are what their readers take them
\* for after every commit, however handlers interleave, wait, die and retry.
TablesSound == /\ OneLikePerPair
               /\ MutualIsSymmetric
               /\ ChatsComeFromMatches
               /\ HiddenUntilRegistered
=============================================================================
