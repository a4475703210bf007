------------------------------- MODULE Decks -------------------------------
(***************************************************************************)
(* The two card decks of a page (app.js: loadFeed, loadReels, handleLike,  *)
(* handleSkip and their reels twins) over the feed queries, while        *)
(* profiles come and go.                                                   *)
(*                                                                         *)
(* Every click is handled at once; what it asks of the server is a call    *)
(* that is served some time later and answered some time after that, in    *)
(* any order, or lost.  A like moves the card index when its answer        *)
(* arrives, a skip at once, and a load replaces the deck under the index.  *)
(***************************************************************************)
EXTENDS Feed, SequencesExt

CONSTANTS People,      \* registered users, numbered by created_at
          Viewer,      \* whose page it is
          FirstRows,   \* what their rows may be at the start
          Restless,    \* those whose row changes
          Today,       \* the date
          PageSize,    \* limit=20 of both loads
          Calls,       \* calls under way at once
          MaxIndex     \* bounds clicks on an empty deck

\* What the feed queries read of a row.
Profile == [gender: {"male", "female", Nothing}, birth: Date \cup {Nothing},
            approved: BOOLEAN, frozen: BOOLEAN, deleted: BOOLEAN]

ASSUME DecksAssumption == /\ IsFiniteSet(People) /\ People \subseteq Int
                          /\ Restless \subseteq People
                          /\ FirstRows \subseteq [People -> Profile]
                          /\ Today \in Date
                          /\ Viewer.age \in Int \cup {Nothing}
                          /\ PageSize \in Nat /\ MaxIndex \in Nat

VARIABLES rows,                              \* server
          screen, cards, index, seen, call,  \* page
          decided,   \* history: cards skipped, or liked with an answer
          onReels,   \* history: those of them so decided in the reels
          base,      \* history: `decided' when the reels shown were asked for
          hasty,     \* history: a click before the last call's end, or on no card
          shifted    \* history: a load put other cards under the index

history == <<decided, onReels, base, hasty, shifted>>
vars == <<rows, screen, cards, index, seen, call, history>>

-----------------------------------------------------------------------------
Deck == {"feed", "reels"}

Idle == [kind |-> "idle"]

\* A load of a deck (of reels, with the seen list it sends), a like.
Load(d) == IF d = "reels"
           THEN [kind |-> "load", deck |-> d, exclude |-> seen, after |-> decided]
           ELSE [kind |-> "load", deck |-> d, exclude |-> {}, after |-> {}]
Like(d, p) == [kind |-> "like", deck |-> d, card |-> p]

Busy == \E c \in Calls : call[c] # Idle

\* The user has decided on these cards of a deck.
Decide(d, set) == /\ decided' = decided \cup set
                  /\ onReels' = IF d = "reels" THEN onReels \cup set ELSE onReels

Current(d) == IF index[d] < Len(cards[d]) THEN {cards[d][index[d] + 1]} ELSE {}

\* ORDER BY created_at DESC LIMIT: the one list of the newest, in order.
Newest(set) == {p \in set : Cardinality({q \in set : q > p}) < PageSize}

NewestPages(set) ==
  {s \in SetToSeqs(Newest(set)) : \A i, j \in DOMAIN s : i < j => s[i] > s[j]}

\* ORDER BY random() LIMIT
RandomPages(set) ==
  UNION {SetToSeqs(s) : s \in {t \in SUBSET set :
           \/ Cardinality(t) = PageSize
           \/ Cardinality(t) < PageSize /\ t = set}}

\* The `m...' operators are faulty variants of the one that follows them.
mLikesNotSeen(p) == seen

Noted(p) == seen \cup {p}

Init == /\ rows \in FirstRows
        /\ screen = "feed"
        /\ cards = [d \in Deck |-> <<>>]
        /\ index = [d \in Deck |-> 0]
        /\ seen = {}
        /\ decided = {}
        /\ onReels = {}
        /\ base = {}
        /\ hasty = FALSE
        /\ shifted = FALSE
        /\ call \in {[c \in Calls |-> IF c = b THEN Load("feed") ELSE Idle] : b \in Calls}

-----------------------------------------------------------------------------
(* Clicks.                                                                 *)

\* A click is hasty if it does not wait for calls, or hits an empty deck.
Click(blind) == /\ hasty' = (hasty \/ Busy \/ blind)
                /\ UNCHANGED <<rows, decided, onReels, base, shifted>>

\* switchScreen: the feed is loaded each time, reels only if there are none.
Open(d) ==
  /\ screen' = d
  /\ IF d = "reels" /\ cards[d] # <<>>
     THEN screen # d /\ UNCHANGED call
     ELSE \E c \in Calls : call[c] = Idle /\ call' = [call EXCEPT ![c] = Load(d)]
  /\ Click(FALSE)
  /\ UNCHANGED <<cards, index, seen>>

\* The button shown when the cards have run out: load with reset.
Refresh(d, c) ==
  /\ screen = d
  /\ Current(d) = {}
  /\ call[c] = Idle
  /\ cards' = [cards EXCEPT ![d] = <<>>]
  /\ index' = [index EXCEPT ![d] = 0]
  /\ call' = [call EXCEPT ![c] = Load(d)]
  /\ Click(FALSE)
  /\ UNCHANGED <<screen, seen>>

ClickLike(d, c) ==
  /\ screen = d
  /\ call[c] = Idle
  /\ \E p \in Current(d) : call' = [call EXCEPT ![c] = Like(d, p)]
  /\ Click(FALSE)
  /\ UNCHANGED <<screen, cards, index, seen>>

Skip(d) ==
  /\ screen = d
  /\ index[d] < MaxIndex
  /\ seen' = seen \cup Current(d)
  /\ index' = [index EXCEPT ![d] = @ + 1]
  /\ Decide(d, Current(d))
  /\ hasty' = (hasty \/ Busy \/ Current(d) = {})
  /\ UNCHANGED <<rows, screen, cards, call, base, shifted>>

-----------------------------------------------------------------------------
(* The server.                                                             *)

ServeCards(c) ==
  /\ call[c].kind = "load"
  /\ LET l == call[c]
     IN \E list \in IF l.deck = "feed" THEN NewestPages(ForCards(rows, Viewer, Today))
                    ELSE RandomPages(ForReels(rows, Viewer, l.exclude)) :
          call' = [call EXCEPT ![c] = [kind |-> "cards", deck |-> l.deck,
                                       list |-> list, after |-> l.after]]
  /\ UNCHANGED <<rows, screen, cards, index, seen, history>>

\* A profile goes or comes: it is frozen or unfrozen, to the queries the same as
\* deleted, approved or new.
RowChanges == /\ \E p \in Restless : rows' = [rows EXCEPT ![p].frozen = ~@]
              /\ UNCHANGED <<screen, cards, index, seen, call, history>>

-----------------------------------------------------------------------------
(* Answers.                                                                *)

\* The rest of loadFeed: the index stays unless it is past the end.
CardsArrive(c) ==
  /\ call[c].kind = "cards" /\ call[c].deck = "feed"
  /\ LET new == call[c].list
         at == IF index["feed"] >= Len(new) THEN 0 ELSE index["feed"]
     IN /\ cards' = [cards EXCEPT !["feed"] = new]
        /\ index' = [index EXCEPT !["feed"] = at]
        /\ shifted' = (shifted \/ \E i \in 1..at : /\ i \in DOMAIN cards["feed"]
                                                   /\ cards["feed"][i] # new[i])
  /\ call' = [call EXCEPT ![c] = Idle]
  /\ UNCHANGED <<rows, screen, seen, decided, onReels, base, hasty>>

ReelsArrive(c) ==
  /\ call[c].kind = "cards" /\ call[c].deck = "reels"
  /\ cards' = [cards EXCEPT !["reels"] = call[c].list]
  /\ index' = [index EXCEPT !["reels"] = 0]
  /\ base' = call[c].after
  /\ call' = [call EXCEPT ![c] = Idle]
  /\ UNCHANGED <<rows, screen, seen, decided, onReels, hasty, shifted>>

\* The rest of sendLike and handleLike, if the server accepted the like.
LikeArrives(c) ==
  /\ call[c].kind = "like"
  /\ index[call[c].deck] < MaxIndex
  /\ index' = [index EXCEPT ![call[c].deck] = @ + 1]
  /\ seen' = Noted(call[c].card)
  /\ Decide(call[c].deck, {call[c].card})
  /\ call' = [call EXCEPT ![c] = Idle]
  /\ UNCHANGED <<rows, screen, cards, base, hasty, shifted>>

\* Refused (the limit, a like that exists), or lost on the way: a toast.
mMovesOn(c) ==
  /\ call[c] # Idle
  /\ call' = [call EXCEPT ![c] = Idle]
  /\ index' = IF call[c].kind = "like" /\ index[call[c].deck] < MaxIndex
              THEN [index EXCEPT ![call[c].deck] = @ + 1] ELSE index
  /\ UNCHANGED <<rows, screen, cards, seen, history>>

Fail(c) == /\ call[c] # Idle
           /\ call' = [call EXCEPT ![c] = Idle]
           /\ UNCHANGED <<rows, screen, cards, index, seen, history>>

Next == \/ \E d \in Deck : \/ Open(d) \/ Skip(d)
                           \/ \E c \in Calls : Refresh(d, c) \/ ClickLike(d, c)
        \/ \E c \in Calls : \/ ServeCards(c) \/ CardsArrive(c) \/ ReelsArrive(c)
                            \/ LikeArrives(c) \/ Fail(c)
        \/ RowChanges

Spec == Init /\ [][Next]_vars

-----------------------------------------------------------------------------
(* Properties.                                                             *)

TypeOK ==
  /\ screen \in Deck
  /\ seen \subseteq People
  /\ decided \subseteq seen /\ base \subseteq decided /\ onReels \subseteq decided
  /\ \A d \in Deck : index[d] \in 0..MaxIndex /\ ToSet(cards[d]) \subseteq People
  /\ \A c \in Calls : call[c] = Idle \/ call[c].deck \in Deck

\* Nobody is passed over: whoever is before the index was skipped or liked - as
\* long as the user waits for each answer and no load changes the cards before
\* the index.  Both conditions are needed: a skip while a like is under way, or
\* on an empty deck, moves the index over a card that was never up, and so does
\* a profile that appears or disappears between two loads.
NobodyPassedOver ==
  ~hasty /\ ~shifted =>
    \A d \in Deck : \A i \in 1..index[d] : i \in DOMAIN cards[d] => cards[d][i] \in decided

\* The reels bring back nobody on whom the user had decided, in either deck, when
\* they were asked for, whenever the answers come; and, as long as the user waits
\* for each answer, nobody on whom the user has ever decided in the reels is still
\* to come up in them.  What is left to come up twice is a card decided on among
\* the cards since the reels were asked for: see ReelsDoNotRepeatCards.  A user who
\* does not wait can see one again in the reels too: a load that was asked for
\* earlier brings it back.
ReelsAreNew ==
  /\ ToSet(cards["reels"]) \cap base = {}
  /\ ~hasty => \A i \in DOMAIN cards["reels"] :
                 i > index["reels"] => cards["reels"][i] \notin onReels

\* What is served is what the viewer may see, at the moment it is served: nobody
\* frozen or deleted, for the cards of a guest nobody of the wrong gender or
\* more than five years apart by the age on the card; and whoever is up to four
\* years younger or three older is left out only because the page is full of
\* newer profiles.  That there is a window of ages is the code's decision: of the
\* texts, .cursor/rules/videodating-architecture.mdc:75 rules out a filter by age
\* and docs/generate_developer_spec_docx.py:84 asks for one.
OppositeTo(g) == IF g = "male" THEN {"female"}
                 ELSE IF g = "female" THEN {"male"} ELSE {"male", "female", Nothing}

Years(p) == CalcAge(rows[p].birth, Today) - Viewer.age

OnShow(p) == rows[p].approved /\ ~(rows[p].frozen \/ rows[p].deleted)

Suits(p, furthest) ==
  /\ p # Viewer.id
  /\ rows[p].gender \in OppositeTo(Viewer.gender)
  /\ Viewer.age = Nothing \/ (rows[p].birth # Nothing /\ Years(p) \in furthest)

ServedCardsFit ==
  [][\A c \in Calls : call[c].kind = "load" /\ call'[c].kind = "cards" =>
       LET list == call'[c].list
       IN /\ \A i, j \in DOMAIN list : i # j => list[i] # list[j]
          /\ \A p \in ToSet(list) : /\ OnShow(p)
                                    /\ call[c].deck = "feed" => Suits(p, -5..5)
          /\ call[c].deck = "feed" =>
               \A p \in People \ ToSet(list) :
                 OnShow(p) /\ Suits(p, -4..3) =>
                   Len(list) = PageSize /\ \A q \in ToSet(list) : q > p]_vars

-----------------------------------------------------------------------------
(* A claim of the repository's texts that the code does not keep.          *)

\* .cursor/rules/videodating-architecture.mdc:26: the reels do not repeat the
\* cards of the other tab.  Here in its weakest reading, for a user who waits for
\* each answer: a card that was decided on does not come up.  loadReels keeps the
\* reels it has (app.js:407), whatever was decided on in the other tab since; and
\* what it asks to exclude (app.js:412) is not what that tab shows, only what was
\* decided on.
ReelsDoNotRepeatCards ==
  ~hasty /\ screen = "reels" => Current("reels") \cap decided = {}
=============================================================================
