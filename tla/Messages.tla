------------------------------ MODULE Messages ------------------------------
(***************************************************************************)
(* ipCamLapseNotify of site.js: messages in a corner of the page.  Each    *)
(* has a button that takes it away and a timer that does the same later,   *)
(* and neither knows of the other: a timer is not cleared when the user    *)
(* has dismissed its message, and goes off beside messages that came       *)
(* after it.                                                               *)
(***************************************************************************)
EXTENDS Sequences

CONSTANT
    Toasts      \* messages that a page shows until it is loaded again (bound)

VARIABLES
    region,     \* the messages in #toast-region
    timers,     \* those whose timer has not gone off, in the order it was set
    fresh       \* those that were not created yet

messageVars == <<region, timers, fresh>>

MessagesInit ==
    /\ region = {}
    /\ timers = <<>>
    /\ fresh = Toasts

Shown(t) == t \in region

Ticking(t) == \E i \in DOMAIN timers: timers[i] = t

\* element.remove(), which does nothing when the element is gone.
Without(t) == region \ {t}

\* Mutant: a message waits for the user.
NotifyUntimed(t) ==
    /\ t \in fresh
    /\ fresh' = fresh \ {t}
    /\ region' = region \cup {t}
    /\ UNCHANGED timers

Notify(t) ==
    /\ t \in fresh
    /\ fresh' = fresh \ {t}
    /\ region' = region \cup {t}
    /\ timers' = Append(timers, t)

Dismiss(t) ==
    /\ Shown(t)
    /\ region' = Without(t)
    /\ UNCHANGED <<timers, fresh>>

\* Mutant: a timer empties the corner.
TimeUpClears ==
    /\ timers # <<>>
    /\ timers' = Tail(timers)
    /\ region' = {}
    /\ UNCHANGED fresh

\* The 6500 ms of the timer that was set first are over.
TimeUp ==
    /\ timers # <<>>
    /\ timers' = Tail(timers)
    /\ region' = Without(Head(timers))
    /\ UNCHANGED fresh

MessagesNext ==
    \/ \E t \in Toasts: Notify(t) \/ Dismiss(t)
    \/ TimeUp

\* A new page has no messages, and no timers of old ones.
NewPage ==
    /\ region' = {}
    /\ timers' = <<>>
    /\ fresh' = Toasts

-----------------------------------------------------------------------------
\* A message can be read for its whole time: it stays until its own button or its
\* own timer takes it away, also while timers of messages that were dismissed
\* before still run.
StaysItsTime ==
    [][\A t \in Toasts:
          Shown(t) => Shown(t)' \/ Dismiss(t) \/ (Ticking(t) /\ ~Ticking(t)')]_messageVars

=============================================================================
