--------------------------------- MODULE Alerts ---------------------------------
(***************************************************************************)
(* The app's notices: the cards of AlertService (core/feedback), each with  *)
(* its key and clock, and the stack AlertSnack draws them in.               *)
(*                                                                         *)
(* A modal makes everything outside it inert, so the stack moves into the   *)
(* topmost modal and out of it again.  The browser tells of a modal that    *)
(* opens, closes or leaves the page later, and Angular draws the cards      *)
(* later than they change, so all of these are pending events here.         *)
(*                                                                         *)
(* Left out: wording, lifetimes, actions, the inset over the navigation,    *)
(* and browsers without popovers.  Clocks run or are stopped; a running     *)
(* one may end at any time.                                                 *)
(***************************************************************************)
EXTENDS Naturals, Sequences, SequencesExt

CONSTANTS
    MaxVisible,  \* cards at once
    MaxShows,    \* bound: cards shown
    MaxModals    \* bound: modals opened over the first

VARIABLES
    cards,   \* oldest first: [id, key, text, clock]
    holds,   \* id -> why its clock is stopped
    raised,  \* raisedId: the newest card the stack was raised for
    modals,  \* the open modals, bottom first: "dialog" or "cdk"
    stack,   \* [in, open]: where the stack is and whether its popover shows
    watched, \* removal: the stack's modal is watched
    pending, \* what the page has not been told yet
    shows, opened

vars == <<cards, holds, raised, modals, stack, watched, pending, shows, opened>>

Host == 0
Closed == 100    \* inside a dialog that has closed
Nowhere == 200   \* inside an element that has left the page

Keys == {"save"}
Reasons == {"pointer", "focus"}
Ids == {cards[i].id : i \in DOMAIN cards}
CardOf(id) == CHOOSE i \in DOMAIN cards : cards[i].id = id

TypeOK ==
    /\ Len(cards) <= MaxVisible
    /\ \A i \in DOMAIN cards :
          /\ cards[i].id \in 1 .. shows /\ cards[i].key \in Keys \union {"none"}
          /\ cards[i].clock \in {"none", "running", "stopped"}
    /\ holds \in [1 .. MaxShows -> SUBSET Reasons] /\ raised \in 0 .. shows
    /\ modals \in Seq({"dialog", "cdk"}) /\ opened \in 0 .. MaxModals
    /\ stack.in \in 0 .. MaxModals + 1 \union {Closed, Nowhere} /\ stack.open \in BOOLEAN
    /\ watched \in BOOLEAN
    /\ pending \subseteq {"draw", "dialog", "body", "removal"}
    /\ shows \in 0 .. MaxShows

\* A dialog is open and no card has shown yet.
Init ==
    /\ cards = <<>> /\ holds = [id \in 1 .. MaxShows |-> {}] /\ raised = 0
    /\ modals = <<"dialog">> /\ stack = [in |-> Host, open |-> FALSE] /\ watched = FALSE
    /\ pending = {} /\ shows = 0 /\ opened = 0

-----------------------------------------------------------------------------
\* show: a card replaces the ones with its key and the ones that say the same;
\* the oldest leaves when there are too many.  An error has no clock; here all
\* errors say the same, and so do all notices.
Replaced(card) ==
    SelectSeq(cards, LAMBDA c : ~(card.key # "none" /\ c.key = card.key) /\ c.text # card.text)

Show ==
    /\ shows < MaxShows /\ shows' = shows + 1
    /\ \E key \in Keys \union {"none"}, clock \in {"none", "running"} :
       LET card == [id |-> shows + 1, key |-> key, text |-> clock, clock |-> clock]
           next == Append(Replaced(card), card) IN
       cards' = IF Len(next) > MaxVisible THEN Tail(next) ELSE next
    /\ pending' = pending \union {"draw"}
    /\ UNCHANGED <<holds, raised, modals, stack, watched, opened>>

Without(P(_)) == SelectSeq(cards, LAMBDA c : ~P(c))

\* dismiss, by its button, its action or its clock; dismissKey; clear.
Dismiss ==
    /\ \/ \E id \in Ids : cards' = Without(LAMBDA c : c.id = id)
       \/ \E key \in Keys : cards' = Without(LAMBDA c : c.key = key) /\ cards' # cards
       \/ cards # <<>> /\ cards' = <<>>
    /\ pending' = pending \union {"draw"}
    /\ UNCHANGED <<holds, raised, modals, stack, watched, shows, opened>>

Expire ==
    /\ \E id \in Ids : cards[CardOf(id)].clock = "running" /\ cards' = Without(LAMBDA c : c.id = id)
    /\ pending' = pending \union {"draw"}
    /\ UNCHANGED <<holds, raised, modals, stack, watched, shows, opened>>

\* pause, resume: only a card with a clock has one to stop.
Turned(id, from, to) ==
    [i \in DOMAIN cards |-> IF cards[i].id = id /\ cards[i].clock = from
                            THEN [cards[i] EXCEPT !.clock = to] ELSE cards[i]]

\* hold, focusLeft: the first reason stops the clock, the last one starts it; the
\* pointer is on one card, and so is the focus.
Hold ==
    /\ \E id \in Ids, why \in Reasons :
       /\ \A other \in Ids \ {id} : why \notin holds[other]
       /\ LET now == IF why \in holds[id] THEN holds[id] \ {why} ELSE holds[id] \union {why} IN
          /\ holds' = [holds EXCEPT ![id] = now]
          /\ cards' = IF holds[id] = {} THEN Turned(id, "running", "stopped")
                      ELSE IF now = {} THEN Turned(id, "stopped", "running") ELSE cards
    /\ UNCHANGED <<raised, modals, stack, watched, pending, shows, opened>>

-----------------------------------------------------------------------------
TopModal == Len(modals)     \* Host when none is open

\* raise: into the topmost modal, and to the top of the top layer.
Raise ==
    /\ stack' = [in |-> TopModal, open |-> TRUE]
    /\ watched' = (TopModal # Host)

\* hide, park.
Hide == stack' = [stack EXCEPT !.open = FALSE] /\ UNCHANGED watched
Park == stack' = [stack EXCEPT !.in = Host] /\ watched' = FALSE

\* afterRenderEffect: the cards are drawn.
Draw ==
    /\ "draw" \in pending /\ pending' = pending \ {"draw"}
    /\ holds' = [id \in DOMAIN holds |-> IF id \in Ids THEN holds[id] ELSE {}]
    /\ LET newest == IF cards = <<>> THEN 0 ELSE Last(cards).id IN
       /\ raised' = IF newest > raised THEN newest ELSE raised
       /\ IF cards = <<>> THEN Hide
          ELSE IF newest > raised THEN Raise ELSE UNCHANGED <<stack, watched>>
    /\ UNCHANGED <<cards, modals, shows, opened>>

\* moved: a <dialog> was toggled or closed.
DialogMoved ==
    /\ "dialog" \in pending /\ pending' = pending \ {"dialog"}
    /\ IF cards # <<>> THEN Raise ELSE Park
    /\ UNCHANGED <<cards, holds, raised, modals, shows, opened>>

\* overlays: something was added to or removed from the page.
BodyChanged ==
    /\ "body" \in pending /\ pending' = pending \ {"body"}
    /\ IF cards # <<>> /\ stack.in # TopModal THEN Raise ELSE UNCHANGED <<stack, watched>>
    /\ UNCHANGED <<cards, holds, raised, modals, shows, opened>>

\* watchRemoval: the modal that held the stack is gone.
RemovalSeen ==
    /\ "removal" \in pending /\ pending' = pending \ {"removal"}
    /\ IF watched /\ stack.in = Nowhere
       THEN IF cards # <<>> THEN Raise ELSE Park
       ELSE UNCHANGED <<stack, watched>>
    /\ UNCHANGED <<cards, holds, raised, modals, shows, opened>>

-----------------------------------------------------------------------------
\* The page: a <dialog> reports that it opens or closes, an overlay container is
\* added to the page and removed from it.
OpenModal ==
    /\ opened < MaxModals /\ opened' = opened + 1
    /\ \/ modals' = Append(modals, "dialog") /\ pending' = pending \union {"dialog"}
       \/ modals' = Append(modals, "cdk") /\ pending' = pending \union {"body"}
    /\ UNCHANGED <<cards, holds, raised, stack, watched, shows>>

Inside == stack.in = TopModal /\ TopModal # Host

CloseModal ==
    /\ modals # <<>> /\ Last(modals) = "dialog"
    /\ modals' = Front(modals)
    /\ stack' = IF Inside THEN [stack EXCEPT !.in = Closed] ELSE stack
    /\ pending' = pending \union {"dialog"}
    /\ UNCHANGED <<cards, holds, raised, watched, shows, opened>>

\* With its page, or as an overlay.
RemoveModal ==
    /\ modals # <<>>
    /\ modals' = Front(modals)
    /\ stack' = IF Inside THEN [in |-> Nowhere, open |-> FALSE] ELSE stack
    /\ pending' = pending \union {"body", "removal"}
    /\ UNCHANGED <<cards, holds, raised, watched, shows, opened>>

\* A dialog that has closed leaves the page too, and may never be heard of.
ClosedLeaves ==
    /\ stack.in = Closed
    /\ stack' = [in |-> Nowhere, open |-> FALSE]
    /\ pending' = (pending \ {"dialog"}) \union {"body", "removal"}
    /\ UNCHANGED <<cards, holds, raised, modals, watched, shows, opened>>

Next ==
    \/ Show \/ Dismiss \/ Expire \/ Hold
    \/ Draw \/ DialogMoved \/ BodyChanged \/ RemovalSeen
    \/ OpenModal \/ CloseModal \/ RemoveModal \/ ClosedLeaves

Spec == Init /\ [][Next]_vars

-----------------------------------------------------------------------------
\* Once the page has caught up, the cards show inside the topmost modal, whatever opened, closed
\* or left meanwhile, and no stack is lost with a modal that left.
CardsAreReachable ==
    pending = {} => IF cards # <<>> THEN stack = [in |-> Len(modals), open |-> TRUE]
                    ELSE stack.in # Nowhere /\ ~stack.open

\* A card leaves in its time unless something is on it: its clock stands still exactly while it
\* is held; and no two cards share a key or say the same.
ClocksFollowHolds ==
    \A i, j \in DOMAIN cards :
        /\ cards[i].clock = "running" => holds[cards[i].id] = {}
        /\ cards[i].clock = "stopped" => holds[cards[i].id] # {}
        /\ i # j => cards[i].text # cards[j].text /\ (cards[i].key = cards[j].key => cards[i].key = "none")
=============================================================================
