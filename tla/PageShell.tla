----------------------------- MODULE PageShell ------------------------------
(***************************************************************************)
(* site.js, the script of every page, with _Layout.cshtml: the sidebar     *)
(* that slides over the page on narrow screens.  (Messages has the ones it *)
(* shows in a corner.)                                                     *)
(*                                                                         *)
(* The script and the style sheet decide separately what is narrow: the    *)
(* sidebar leaves the screen up to 991.98 pixels, its buttons disappear    *)
(* from 992 on, and a zoomed window can be in between.                     *)
(***************************************************************************)
EXTENDS Naturals

CONSTANT
    Nothing     \* no button has opened the sidebar

VARIABLES
    width,      \* of the window
    open,       \* sidebar, overlay and body have their class
    openTrigger,\* the button that opened the sidebar
    focus       \* the element that has the keyboard's focus

shellVars == <<width, open, openTrigger, focus>>

Widths == {"narrow", "between", "wide"}

\* [data-sidebar-toggle]: in the sidebar's header, the overlay, in the top bar.
Toggles == {"close", "overlay", "menu"}

ASSUME ShellAssumption == Nothing \notin Toggles

\* "brand" is the first link of the sidebar; "content" is everything else.
Elements == Toggles \cup {"brand", "content"}

ShellTypeOK ==
    /\ width \in Widths
    /\ open \in BOOLEAN
    /\ openTrigger \in Toggles \cup {Nothing}
    /\ focus \in Elements

\* What can be focused and pressed: d-lg-none hides the buttons on wide screens,
\* and the overlay is displayed only over a narrow one.
Displayed(e, w, o) ==
    /\ e \in {"menu", "close"} => w # "wide"
    /\ e = "overlay" => w = "narrow" /\ o

\* The sidebar of a narrow window is outside of the screen until it is opened,
\* although its links can be focused there.
OnScreen(e, w, o) ==
    /\ Displayed(e, w, o)
    /\ e \in {"close", "brand"} => w # "narrow" \/ o

ShellInit ==
    /\ width \in Widths
    /\ open = FALSE
    /\ openTrigger = Nothing
    /\ focus = "content"

-----------------------------------------------------------------------------
\* element.focus() on an element that is not displayed does nothing, and a
\* browser takes the focus away from an element that disappears.
Focused(e, else, w, o) ==
    IF Displayed(e, w, o) THEN e
    ELSE IF Displayed(else, w, o) THEN else ELSE "content"

\* Mutant: closing forgets the button before it has the focus.
SetSidebarForgets(o, trigger, held, w) ==
    /\ width' = w
    /\ open' = o
    /\ openTrigger' = IF o THEN trigger ELSE Nothing
    /\ focus' = Focused(IF o THEN "brand" ELSE held, held, w, o)

\* setSidebar(o, trigger), when `held` has the focus and the window is w wide.
SetSidebar(o, trigger, held, w) ==
    /\ width' = w
    /\ open' = o
    /\ openTrigger' = IF o THEN trigger ELSE Nothing
    /\ focus' = Focused(IF o THEN "brand"
                        ELSE IF openTrigger = Nothing THEN held ELSE openTrigger,
                        held, w, o)

\* A button is pressed: with the keyboard, or with a pointer, which does not
\* move the focus in every browser.
Toggle(b) ==
    /\ Displayed(b, width, open)
    /\ \E held \in {b, focus}: SetSidebar(~open, b, held, width)

\* A link of the sidebar that opens elsewhere; the page stays.
FollowExternalLink ==
    IF width = "narrow"
    THEN \E held \in {"brand", focus}: SetSidebar(FALSE, Nothing, held, width)
    ELSE focus' = "brand" /\ UNCHANGED <<width, open, openTrigger>>

Escape ==
    /\ open
    /\ SetSidebar(FALSE, Nothing, focus, width)

\* The user moves the focus, or presses something that is not modelled.
Tab ==
    /\ \E e \in Elements: Displayed(e, width, open) /\ focus' = e
    /\ UNCHANGED <<width, open, openTrigger>>

\* Mutant: nothing listens to the window's width.
ResizeUnheard ==
    /\ \E w \in Widths \ {width}:
          /\ width' = w
          /\ focus' = Focused(focus, focus, w, open)
    /\ UNCHANGED <<open, openTrigger>>

\* A window that becomes wide closes the sidebar; other changes do nothing.
Resize ==
    \E w \in Widths \ {width}:
       IF w = "wide"
       THEN SetSidebar(FALSE, Nothing, focus, w)
       ELSE /\ width' = w
            /\ focus' = Focused(focus, focus, w, open)
            /\ UNCHANGED <<open, openTrigger>>

SidebarNext ==
    \/ \E b \in Toggles: Toggle(b)
    \/ FollowExternalLink
    \/ Escape
    \/ Tab
    \/ Resize

-----------------------------------------------------------------------------
\* The sidebar is open only where a button that closes it is on the screen, and
\* the button that opened it is remembered exactly as long, however clicks, the
\* Escape key, links and changes of the window's width follow each other.
OpenWhereClosable ==
    /\ open <=> openTrigger # Nothing
    /\ open => \E b \in Toggles: OnScreen(b, width, open)

\* Closing the sidebar that the top bar's button opened never leaves the keyboard
\* on something outside of the screen, whichever way and at whatever width it
\* is closed.
FocusComesBack ==
    [][open /\ ~open' /\ openTrigger = "menu" => OnScreen(focus', width', open')]_shellVars

=============================================================================
