------------------------------- MODULE PushDevice -------------------------------
(***************************************************************************)
(* Push on this device (core/push and the push card): the browser's own     *)
(* subscription, what the API stores of it, what the card shows, and the    *)
(* kinds of message the current league has muted.                           *)
(*                                                                         *)
(* A subscription is known by its number: a new one has a new endpoint.     *)
(* Calls are applied by the API and answered in any order; one that stores  *)
(* an endpoint or forgets it may be applied although its answer is lost, and *)
(* one about the kinds that fails was not applied.  The browser may fail to  *)
(* end its subscription.  The API and the permission change by this device  *)
(* only.                                                                    *)
(***************************************************************************)
EXTENDS Naturals

CONSTANTS
    Leagues,
    Members,     \* the leagues the account is a member of
    Kinds,       \* PushCategory
    None,
    MaxSubs,     \* bound: subscriptions of this browser
    MaxTaps      \* bound: kinds switched and leagues changed

VARIABLES
    browser,     \* [permission, held, last]: held is 0 without a subscription
    api,         \* [stored, muted]: the endpoints stored and each league's muted kinds
    subscribed,  \* what the card shows: "unknown", "yes" or "no"
    preferences, \* None or [league, muted]
    league,      \* the current league
    turning,     \* the step of a turn on, a turn off or a sign-out under way, or "no"
    puts,        \* the endpoints refresh is storing again
    calls,       \* loads and saves of kinds on their way
    seen,        \* what the card's effect ran with last
    crossed,     \* (history) two calls about the kinds were on their way at once
    chosen,      \* (history) the account here asked to turn push on
    astray,      \* (history) of the subscription held: "kept" when the browser did not end it as
                 \* told, "stored" when the API may hold it without the card knowing
    taps

vars == <<browser, api, subscribed, preferences, league, turning, puts, calls, seen, crossed, chosen, astray, taps>>
device == <<browser, subscribed, turning, puts, chosen, astray>>
choices == <<preferences, calls, crossed, taps>>

Subs == 1 .. MaxSubs
Preferences == [league : Leagues, muted : SUBSET Kinds]
Calls == [op : {"load", "save"}, league : Leagues, muted : SUBSET Kinds, previous : Preferences \union {None},
          state : {"sent", "ok", "failed"}]

TypeOK ==
    /\ browser \in [permission : {"default", "granted", "denied"}, held : 0 .. MaxSubs, last : 0 .. MaxSubs]
    /\ api \in [stored : SUBSET Subs, muted : [Leagues -> SUBSET Kinds]]
    /\ subscribed \in {"unknown", "yes", "no"}
    /\ preferences \in Preferences \union {None} /\ league \in Leagues
    /\ turning \in {"no", "asking", "key", "storing", "deleting", "forgetting"}
    /\ puts \subseteq Subs /\ calls \subseteq Calls
    /\ crossed \in BOOLEAN /\ chosen \in BOOLEAN /\ astray \subseteq {"kept", "stored"}
    /\ taps \in 0 .. MaxTaps

\* PushService: canChooseKinds and muted.
CanChooseKinds == browser.permission # "denied" /\ subscribed = "yes" /\ league \in Members
MutedOf(p, l) == IF p # None /\ p.league = l THEN p.muted ELSE None
Muted == MutedOf(preferences, league)

Init ==
    /\ \E held \in {0, 1} :
       /\ browser = [permission |-> IF held = 1 THEN "granted" ELSE "default", held |-> held, last |-> held]
       /\ \E stored \in SUBSET {held} : api = [stored |-> stored \ {0}, muted |-> [l \in Leagues |-> {}]]
    /\ subscribed = "unknown" /\ preferences = None
    /\ league \in Leagues
    /\ turning = "no" /\ puts = {} /\ calls = {} /\ seen = <<FALSE, None>>
    /\ crossed = FALSE /\ chosen = TRUE /\ astray = {} /\ taps = 0

-----------------------------------------------------------------------------
\* refresh, when the card is opened: a subscription present is stored again.
Refresh ==
    /\ LET on == browser.held # 0 /\ browser.permission = "granted" IN
       /\ subscribed' = IF on THEN "yes" ELSE "no"
       /\ puts' = IF on THEN puts \union {browser.held} ELSE puts
    /\ UNCHANGED <<browser, api, turning, chosen, astray, league, seen, choices>>

\* store answers refresh, applied or not.
Stored ==
    \E e \in puts :
    /\ puts' = puts \ {e}
    /\ api' \in {api, [api EXCEPT !.stored = @ \union {e}]}
    /\ UNCHANGED <<browser, subscribed, turning, chosen, astray, league, seen, choices>>

\* turnOn: the browser asks; its answer is final for now.
TurnOn ==
    /\ turning = "no" /\ subscribed = "no" /\ browser.permission # "denied"
    /\ turning' = "asking" /\ chosen' = TRUE
    /\ UNCHANGED <<browser, subscribed, puts, astray, api, league, seen, choices>>

Permission ==
    /\ turning = "asking"
    /\ \E p \in IF browser.permission = "granted" THEN {"granted"} ELSE {"default", "granted", "denied"} :
       /\ browser' = [browser EXCEPT !.permission = p]
       /\ turning' = IF p = "granted" THEN "key" ELSE "no"
    /\ UNCHANGED <<subscribed, puts, chosen, astray, api, league, seen, choices>>

\* subscribe: the key has come; the subscription there is, or a new one, is stored.
Subscribe ==
    /\ turning = "key"
    /\ \/ turning' = "no" /\ UNCHANGED browser
       \/ /\ turning' = "storing"
          /\ IF browser.held # 0 THEN UNCHANGED browser
             ELSE /\ browser.last < MaxSubs
                  /\ browser' = [browser EXCEPT !.held = browser.last + 1, !.last = browser.last + 1]
    /\ UNCHANGED <<subscribed, puts, chosen, astray, api, league, seen, choices>>

Subscribed ==
    /\ turning = "storing" /\ turning' = "no"
    /\ \/ UNCHANGED <<api, subscribed, astray>>
       \/ /\ api' = [api EXCEPT !.stored = @ \union {browser.held}]
          /\ \/ subscribed' = "yes" /\ astray' = astray \ {"stored"}
             \* Stored, but the answer is lost: the card does not learn of it.
             \/ UNCHANGED subscribed /\ astray' = astray \union {"stored"}
    /\ UNCHANGED <<browser, puts, chosen, league, seen, choices>>

\* turnOff and signOut begin alike: the API is told first.
Unsubscribe(step) ==
    /\ turning = "no" /\ turning' = step
    /\ UNCHANGED <<browser, subscribed, puts, chosen, astray, api, league, seen, choices>>

TurnOff == subscribed = "yes" /\ Unsubscribe("deleting")
SignOut == Unsubscribe("forgetting")

\* The worker's subscription cannot be read: it is neither forgotten nor ended.
Unread(muted) ==
    /\ browser.held # 0
    /\ api' = [api EXCEPT !.muted = muted]
    /\ astray' = astray \union {"kept"}
    /\ UNCHANGED <<browser, subscribed>>

\* The API is told or out of reach, then the browser ends its subscription or fails to: the card
\* says off in each case.  A subscription that is left may be stored, or be stored yet by refresh.
Ended(muted) ==
    \E told, ended \in BOOLEAN :
    /\ browser.held = 0 => told /\ ended
    /\ api' = [stored |-> IF told THEN api.stored \ {browser.held} ELSE api.stored, muted |-> muted]
    /\ browser' = IF ended THEN [browser EXCEPT !.held = 0] ELSE browser
    /\ subscribed' = "no"
    /\ astray' = IF ended THEN {} ELSE IF told /\ browser.held \notin puts THEN {"kept"} ELSE {"kept", "stored"}

Unsubscribed ==
    /\ turning = "deleting" /\ turning' = "no"
    /\ Ended(api.muted) \/ Unread(api.muted)
    /\ UNCHANGED <<puts, chosen, league, seen, choices>>

\* forget, whose errors are dropped; another account, with choices of its own, uses the browser
\* from then on.
Forgotten ==
    /\ turning = "forgetting" /\ turning' = "no"
    /\ \E muted \in [Leagues -> SUBSET Kinds] : Ended(muted) \/ Unread(muted)
    /\ preferences' = None /\ chosen' = FALSE
    /\ crossed' = (crossed \/ calls # {})
    /\ UNCHANGED <<puts, calls, taps, league, seen>>

-----------------------------------------------------------------------------
Send(op, muted, previous) ==
    /\ calls' = calls \union {[op |-> op, league |-> league, muted |-> muted, previous |-> previous, state |-> "sent"]}
    /\ crossed' = (crossed \/ \E c \in calls : c.league = league)

\* The card's effect runs when what it read has changed.
Effect ==
    /\ seen # <<CanChooseKinds, Muted>> /\ seen' = <<CanChooseKinds, Muted>>
    /\ IF CanChooseKinds /\ Muted = None THEN Send("load", {}, None)
       ELSE UNCHANGED <<calls, crossed>>
    /\ UNCHANGED <<device, api, preferences, league, taps>>

SwitchLeague ==
    /\ taps < MaxTaps /\ taps' = taps + 1
    /\ league' \in Leagues \ {league}
    /\ UNCHANGED <<device, api, preferences, calls, seen, crossed>>

\* setKind and savePreferences: the change shows at once.
SetKind(k) ==
    /\ taps < MaxTaps /\ taps' = taps + 1
    /\ CanChooseKinds /\ Muted # None
    /\ LET muted == IF k \in Muted THEN Muted \ {k} ELSE Muted \union {k} IN
       /\ preferences' = [league |-> league, muted |-> muted]
       /\ Send("save", muted, preferences)
    /\ UNCHANGED <<device, api, league, seen>>

\* The API reads or writes the kinds of a league, or refuses.
Apply ==
    \E c \in calls : c.state = "sent" /\
    /\ \/ /\ calls' = (calls \ {c}) \union {[c EXCEPT !.state = "failed"]}
          /\ UNCHANGED api
       \/ IF c.op = "load"
          THEN /\ calls' = (calls \ {c}) \union {[c EXCEPT !.state = "ok", !.muted = api.muted[c.league]]}
               /\ UNCHANGED api
          ELSE /\ calls' = (calls \ {c}) \union {[c EXCEPT !.state = "ok"]}
               /\ api' = [api EXCEPT !.muted[c.league] = c.muted]
    /\ UNCHANGED <<device, preferences, crossed, taps, league, seen>>

\* A save that was refused restores what was there when it was sent.
Restored(c) == IF c.op = "save" THEN c.previous ELSE preferences

Answer ==
    \E c \in calls : c.state # "sent" /\
    /\ calls' = calls \ {c}
    /\ preferences' = IF c.state = "ok" THEN [league |-> c.league, muted |-> c.muted] ELSE Restored(c)
    /\ UNCHANGED <<device, api, crossed, taps, league, seen>>

Next ==
    \/ Refresh \/ Stored \/ TurnOn \/ Permission \/ Subscribe \/ Subscribed
    \/ TurnOff \/ SignOut \/ Unsubscribed \/ Forgotten
    \/ Effect \/ SwitchLeague \/ Apply \/ Answer
    \/ \E k \in Kinds : SetKind(k)

Spec == Init /\ [][Next]_vars

-----------------------------------------------------------------------------
\* With nothing under way, a card that says on has a subscription.  One that says off gets no
\* messages, unless the answer to its storing was lost, or the browser did not end it and the API
\* was not told or stores it afterwards; and an account that has not turned push on finds it on
\* only where the browser did not end the last account's (contrary to push-client.ts:89-90 and
\* 96-102).
DeviceIsAsShown ==
    /\ turning = "no" /\ subscribed = "yes" => browser.held # 0 /\ browser.permission = "granted"
    /\ turning = "no" /\ subscribed = "no" => browser.held \notin api.stored \/ "stored" \in astray
    /\ ~chosen /\ subscribed = "yes" => "kept" \in astray

\* Unless calls crossed, the kinds shown once all is answered are those the API has.
KindsAreAsShown ==
    calls = {} /\ ~crossed /\ preferences # None => preferences.muted = api.muted[preferences.league]
=============================================================================
