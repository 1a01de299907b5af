-------------------------------- MODULE Dropdown --------------------------------
(***************************************************************************)
(* A section that folds away (shared/dropdown): its open state, which a tap *)
(* sets and a new address or a new subject resets, the animation of its     *)
(* height, and the scroll back to the heading that precedes a close from    *)
(* inside a long body.                                                      *)
(*                                                                         *)
(* Frames, the end of a scroll and the end of an animation come later than  *)
(* what asked for them, in any order.  Heights and times are left out.      *)
(***************************************************************************)
EXTENDS Naturals

CONSTANTS
    MaxTaps,     \* bound: taps on the heading
    MaxResets    \* bound: new addresses and subjects

VARIABLES
    animates,    \* motion is not reduced
    open,
    named,       \* the address names this section's anchor
    animating,
    animation,   \* the animation held, numbered, or 0
    unsettled,   \* the animations whose end has not been told
    pinned,      \* the heading is pinned above its place in the page
    stuck,       \* the same, as measured last
    measuring,   \* a measurement waits for the next frame
    closing,     \* the page scrolls back ahead of a close
    watch,       \* closeAfterScroll still looks at the page
    taps, resets

vars == <<animates, open, named, animating, animation, unsettled, pinned, stuck, measuring,
          closing, watch, taps, resets>>

TypeOK ==
    /\ animates \in BOOLEAN
    /\ open \in BOOLEAN /\ named \in BOOLEAN /\ animating \in BOOLEAN
    /\ animation \in 0 .. MaxTaps /\ unsettled \subseteq 1 .. MaxTaps
    /\ pinned \in BOOLEAN /\ stuck \in BOOLEAN /\ measuring \in BOOLEAN
    /\ closing \in BOOLEAN /\ watch \in BOOLEAN
    /\ taps \in 0 .. MaxTaps /\ resets \in 0 .. MaxResets

Init ==
    /\ animates \in BOOLEAN
    /\ named \in BOOLEAN /\ open = named
    /\ animating = FALSE /\ animation = 0 /\ unsettled = {}
    /\ pinned = FALSE /\ stuck = FALSE /\ measuring = FALSE
    /\ closing = FALSE /\ watch = FALSE
    /\ taps = 0 /\ resets = 0

\* bodyInert: while closed and at rest, and while it opens.
BodyInert == open = animating

-----------------------------------------------------------------------------
\* open is linked to the anchor, the address and the subject: an address that
\* names the section opens it, a new subject closes it.
Reset ==
    /\ resets < MaxResets /\ resets' = resets + 1
    /\ \/ /\ named' = ~named               \* another address
          /\ open' = (named' \/ open)
       \/ UNCHANGED named /\ open' = named \* another subject
    /\ UNCHANGED <<animates, animating, animation, unsettled, pinned, stuck, measuring, closing, watch, taps>>

\* animateBody: the animation before is cancelled, which it tells later.
AnimateBody(opening) ==
    /\ open' = opening
    /\ stuck' = (opening /\ stuck)
    /\ IF animates
       THEN /\ animation' = taps' /\ animating' = TRUE
            /\ unsettled' = unsettled \union {taps'}
       ELSE UNCHANGED <<animation, animating, unsettled>>

\* toggle: a close from inside a long body waits for the page to scroll back.
Toggle ==
    /\ taps < MaxTaps /\ taps' = taps + 1
    /\ ~closing
    /\ IF open /\ stuck /\ pinned
       THEN /\ closing' = TRUE /\ watch' = TRUE
            /\ UNCHANGED <<open, stuck, animating, animation, unsettled>>
       ELSE AnimateBody(~open) /\ UNCHANGED <<closing, watch>>
    /\ UNCHANGED <<animates, named, pinned, measuring, resets>>

\* finish: at the end of the scroll, or when the page stands still, or at the cap.
Finish ==
    /\ watch /\ watch' = FALSE
    /\ closing' = FALSE
    /\ IF open THEN taps' = taps /\ AnimateBody(FALSE)
       ELSE UNCHANGED <<taps, open, stuck, animating, animation, unsettled>>
    /\ UNCHANGED <<animates, named, pinned, measuring, resets>>

\* tick: a frame later; a section closed meanwhile has nothing to wait for.
Tick ==
    /\ watch /\ ~open
    /\ watch' = FALSE /\ closing' = FALSE
    /\ UNCHANGED <<animates, open, named, animating, animation, unsettled, pinned, stuck, measuring, taps, resets>>

\* settle: an animation has ended or was cancelled; only the one held counts.
Settle ==
    \E a \in unsettled :
    /\ unsettled' = unsettled \ {a}
    /\ IF a = animation THEN animating' = FALSE /\ stuck' = (open /\ pinned)
       ELSE UNCHANGED <<animating, stuck>>
    /\ UNCHANGED <<animates, open, named, animation, pinned, measuring, closing, watch, taps, resets>>

\* The page scrolls or is resized; the heading is measured once per frame.
Scroll ==
    /\ pinned' \in BOOLEAN
    /\ measuring' = (measuring \/ open)
    /\ UNCHANGED <<animates, open, named, animating, animation, unsettled, stuck, closing, watch, taps, resets>>

MeasureStuck ==
    /\ measuring /\ measuring' = FALSE
    /\ stuck' = (open /\ pinned)
    /\ UNCHANGED <<animates, open, named, animating, animation, unsettled, pinned, closing, watch, taps, resets>>

Next == Reset \/ Toggle \/ Finish \/ Tick \/ Settle \/ Scroll \/ MeasureStuck

Spec == Init /\ [][Next]_vars

-----------------------------------------------------------------------------
\* Once every animation has told its end, an open body can be used and a closed one cannot,
\* however taps, addresses and subjects crossed; and a section that ignores taps while the page
\* scrolls back is still being watched, so that it takes taps again.
BodyFollowsOpen ==
    /\ unsettled = {} => (BodyInert <=> ~open)
    /\ closing => watch
=============================================================================
