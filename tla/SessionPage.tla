---------------------------- MODULE SessionPage -----------------------------
(***************************************************************************)
(* Details.cshtml, the page of one session in a browser: what it shows was *)
(* true when the server rendered it, and it is rendered again when an      *)
(* action succeeds, when the hub says that the status has changed, or when *)
(* a poll finds that the session no longer runs.                           *)
(*                                                                         *)
(* The server is here only the lifecycle of the session's status, moved by *)
(* this page's requests and by everybody else (its loop, other pages).     *)
(* Requests, answers and messages take any time; a connection may break    *)
(* for good.                                                               *)
(***************************************************************************)
EXTENDS PageShell, Messages, FrameGallery, FiniteSets

CONSTANT
    Pressed     \* how many actions the user has under way at once (bound)

VARIABLES
    use,        \* what the user does on the page: a bound, see Uses
    visit,      \* "open", "reloading" (its script still runs), or "left"
    server,     \* the session's Status, or "gone"
    before,     \* the status a rendering goes back to
    rendered,   \* the Status the page was rendered for, or "gone"
    disabled,   \* the buttons that are disabled
    action,     \* how far the request of each action is
    hub,        \* "none", "joining", "joined", "deaf"
    message,    \* a status message is on its way to the page
    polling,    \* pollTimer is set
    poll        \* "none", "sent", or what the answer says: "running", "over"

serverVars == <<server, before>>
watchVars == <<hub, message, polling, poll>>
pageVars == <<visit, rendered, disabled, action>>
vars == <<use, serverVars, pageVars, watchVars, shellVars, messageVars, galleryVars>>

\* The sidebar, the messages, the timeline and the session share nothing but the
\* reload, so each visit is spent on one of them (a bound).
Uses == {"sidebar", "messages", "timeline", "session"}

Lifecycle == INSTANCE SessionLifecycle WITH status <- server

Active == {"Capturing", "Scheduled"}
Resting == {"Ready", "Paused", "Completed", "Failed", "Cancelled"}
Status == Active \cup Resting \cup {"Rendering"}

Actions == {"start", "pause", "cancel", "delete", "render"}

\* The actions that disable their button.
Buttons == {"start", "pause", "render"}

TypeOK ==
    /\ ShellTypeOK
    /\ GalleryTypeOK
    /\ use \in Uses
    /\ visit \in {"open", "reloading", "left"}
    /\ server \in Status \cup {"gone"}
    /\ before \in Resting \cup {"none"}
    /\ rendered \in Status \cup {"gone"}
    /\ disabled \subseteq Buttons
    /\ action \in [Actions -> {"none", "sent", "serving", "done", "refused"}]
    /\ hub \in {"none", "joining", "joined", "deaf"}
    /\ message \in BOOLEAN
    /\ polling \in BOOLEAN
    /\ poll \in {"none", "sent", "running", "over"}

-----------------------------------------------------------------------------
(* ipCamLapseFetch and ApiAntiforgeryMiddleware: every page has a token in    *)
(* its head.                                                                 *)

Method == [start |-> "POST", pause |-> "POST", cancel |-> "POST", render |-> "POST",
           delete |-> "DELETE"]

SendsToken(method) == method \notin {"GET", "HEAD", "OPTIONS"}
WantsToken(method) == method \notin {"GET", "HEAD", "OPTIONS"}

LetThrough(a) == WantsToken(Method[a]) => SendsToken(Method[a])

-----------------------------------------------------------------------------
\* The script's last lines: only a page rendered for a running session watches it.
Watching(s) ==
    /\ hub' = IF s \in Active THEN "joining" ELSE "none"
    /\ polling' = (s \in Active)
    /\ message' = FALSE
    /\ poll' = "none"

Init ==
    /\ use \in Uses
    /\ visit = "open"
    /\ server \in IF use = "session" THEN Status ELSE {"Capturing"}
    /\ before = "none"
    /\ rendered = server
    /\ disabled = {}
    /\ action = [a \in Actions |-> "none"]
    /\ hub = IF server \in Active THEN "joining" ELSE "none"
    /\ polling = (server \in Active)
    /\ message = FALSE
    /\ poll = "none"
    /\ ShellInit
    /\ use # "sidebar" => width = "wide"
    /\ MessagesInit
    /\ GalleryInit
    /\ use # "timeline" => frames = 0

Loaded == visit # "left"

\* location.reload(): the script goes on until the answer replaces the page.
Reloads == visit' = "reloading" /\ UNCHANGED rendered

\* The user reloads.
Reload ==
    /\ visit = "open"
    /\ Reloads
    /\ UNCHANGED <<use, serverVars, disabled, action, watchVars, shellVars, messageVars, galleryVars>>

\* OnGetAsync answers and a new page begins; what was under way is forgotten here.
Load ==
    /\ visit = "reloading"
    /\ visit' = "open"
    /\ rendered' = server
    /\ disabled' = {}
    /\ action' = [a \in Actions |-> "none"]
    /\ Watching(server)
    /\ open' = FALSE
    /\ openTrigger' = Nothing
    /\ focus' = "content"
    /\ NewPage
    /\ GalleryReloads
    /\ UNCHANGED <<use, serverVars, width>>

\* A link of the sidebar or of the page that opens here.
Leave ==
    /\ Loaded
    /\ visit' = "left"
    /\ UNCHANGED <<use, serverVars, rendered, disabled, action, watchVars, shellVars, messageVars, galleryVars>>

-----------------------------------------------------------------------------
(* Actions.                                                                  *)

\* The buttons the page was rendered with.
Offered(a) ==
    CASE a = "start"  -> rendered \in {"Ready", "Paused", "Failed"}
      [] a = "pause"  -> rendered \in {"Capturing", "Scheduled", "Rendering"}
      [] a = "cancel" -> rendered \in {"Capturing", "Paused", "Scheduled"}
      [] a = "delete" -> rendered # "gone"
      [] a = "render" -> rendered \in Resting

UnderWay == {a \in Actions: action[a] # "none"}

\* runSessionAction, cancelSession, deleteSession, renderVideo up to their await.
Press(a) ==
    /\ Loaded
    /\ Offered(a)
    /\ a \notin disabled
    /\ action[a] = "none"
    /\ Cardinality(UnderWay) < Pressed
    /\ action' = [action EXCEPT ![a] = "sent"]
    /\ disabled' = disabled \cup ({a} \cap Buttons)
    /\ UNCHANGED <<use, serverVars, visit, rendered, watchVars, shellVars, messageVars, galleryVars>>

Answered(a, result) ==
    /\ action' = [action EXCEPT ![a] = result]
    /\ UNCHANGED <<use, visit, rendered, disabled, shellVars, messageVars, galleryVars>>

\* SendStatusAsync and SendCompletedAsync reach the pages that are in the group.
Sends == message' = (message \/ hub = "joined") /\ UNCHANGED <<hub, polling, poll>>
Silent == UNCHANGED watchVars

\* The server does what it was asked; its answer may not arrive.  A start is not
\* announced.  A deletion cancels first, and a rendering takes its time.
Serve(a) ==
    /\ action[a] = "sent"
    /\ LetThrough(a)
    /\ server # "gone"
    /\ CASE a = "start" -> Lifecycle!Start
         [] a = "pause" -> Lifecycle!Pause
         [] a = "render" -> Lifecycle!Render \/ Lifecycle!RenderCancelled
         [] OTHER -> Lifecycle!Cancel
    /\ IF a = "start" THEN Silent ELSE Sends
    /\ \E result \in IF a \in {"delete", "render"} THEN {"serving"} ELSE {"done", "refused"}:
          Answered(a, result)

\* The server refuses, or does not get the request.
Refuse(a) ==
    /\ action[a] = "sent"
    /\ Answered(a, "refused")
    /\ UNCHANGED <<serverVars, watchVars>>

\* The deletion succeeds, or something stays on disk.
DeletionEnds ==
    /\ action["delete"] = "serving"
    /\ \/ server' = "gone" /\ before' = "none" /\ Answered("delete", "done")
       \/ UNCHANGED serverVars /\ Answered("delete", "refused")
    /\ Silent

\* A video, or an error, or somebody has cancelled the session.
RenderingEnds ==
    /\ action["render"] = "serving"
    /\ IF server = "Rendering"
       THEN /\ Lifecycle!Rendered
            /\ Sends
            /\ Answered("render", IF server' = "Completed" THEN "done" ELSE "refused")
       ELSE /\ Answered("render", "refused")
            /\ UNCHANGED <<serverVars, watchVars>>

\* A success reloads the page, or leaves it when there is nothing left to show.
Succeed(a) ==
    /\ Loaded
    /\ action[a] = "done"
    /\ IF a = "delete" THEN visit' = "left" /\ UNCHANGED rendered ELSE Reloads
    /\ action' = [action EXCEPT ![a] = "none"]
    /\ UNCHANGED <<use, serverVars, disabled, watchVars, shellVars, messageVars, galleryVars>>

\* Mutant: a failure leaves the button as it is.
FailDisabled(a) ==
    /\ Loaded
    /\ action[a] = "refused"
    /\ action' = [action EXCEPT ![a] = "none"]
    /\ UNCHANGED <<use, serverVars, visit, rendered, disabled, watchVars, shellVars, messageVars, galleryVars>>

\* A failure is told to the user, and the button works again.
Fail(a) ==
    /\ Loaded
    /\ action[a] = "refused"
    /\ action' = [action EXCEPT ![a] = "none"]
    /\ disabled' = disabled \ {a}
    /\ UNCHANGED <<use, serverVars, visit, rendered, watchVars, shellVars, messageVars, galleryVars>>

ActionStep(a) ==
    \/ Serve(a) \/ Refuse(a) \/ Succeed(a) \/ Fail(a)
    \/ a = "delete" /\ DeletionEnds
    \/ a = "render" /\ RenderingEnds

-----------------------------------------------------------------------------
(* What happens to the session without this page, and how the page hears.    *)

ServerMoves ==
    /\ server # "gone"
    /\ \/ Lifecycle!Start /\ Silent
       \/ /\ \/ Lifecycle!Window \/ Lifecycle!Complete
             \/ Lifecycle!Render \/ Lifecycle!RenderCancelled
             \/ Lifecycle!Rendered \/ Lifecycle!Fail \/ Lifecycle!Pause \/ Lifecycle!Cancel
          /\ Sends
    /\ UNCHANGED <<use, pageVars, shellVars, messageVars, galleryVars>>

\* Retention, or a deletion on another page.
ServerDeletes ==
    /\ server \in {"Completed", "Cancelled", "Failed"}
    /\ server' = "gone"
    /\ before' = "none"
    /\ UNCHANGED <<use, pageVars, watchVars, shellVars, messageVars, galleryVars>>

\* connect(): a connection, and then the session's group.  One that fails, or
\* breaks, or comes back under a new id is in no group, and nobody joins again.
HubStep ==
    /\ Loaded
    /\ \/ hub = "joining" /\ hub' \in {"joined", "deaf"} /\ UNCHANGED message
       \/ hub = "joined" /\ hub' = "deaf" /\ message' = FALSE
    /\ UNCHANGED <<use, serverVars, pageVars, polling, poll, shellVars, messageVars, galleryVars>>

\* updateStatus.
MessageArrives ==
    /\ Loaded
    /\ message
    /\ message' = FALSE
    /\ Reloads
    /\ UNCHANGED <<use, serverVars, disabled, action, hub, polling, poll, shellVars, messageVars, galleryVars>>

\* The timer of pollStatus (one request at a time: a bound).
PollSends ==
    /\ Loaded
    /\ polling
    /\ poll = "none"
    /\ poll' = "sent"
    /\ UNCHANGED <<use, serverVars, pageVars, hub, message, polling, shellVars, messageVars, galleryVars>>

\* GET status; a deleted session is not found, and like any failure ignored.
PollAnswered ==
    /\ poll = "sent"
    /\ server # "gone"
    /\ poll' = IF server \in Active THEN "running" ELSE "over"
    /\ UNCHANGED <<use, serverVars, pageVars, hub, message, polling, shellVars, messageVars, galleryVars>>

PollFails ==
    /\ poll = "sent"
    /\ poll' = "none"
    /\ UNCHANGED <<use, serverVars, pageVars, hub, message, polling, shellVars, messageVars, galleryVars>>

\* Mutant: the page is not loaded again, only the polls stop.
PollArrivesQuietly ==
    /\ Loaded
    /\ poll \in {"running", "over"}
    /\ poll' = "none"
    /\ polling' = (polling /\ poll = "running")
    /\ UNCHANGED <<use, serverVars, pageVars, hub, message, shellVars, messageVars, galleryVars>>

\* pollStatus after its await.
PollArrives ==
    /\ Loaded
    /\ poll \in {"running", "over"}
    /\ poll' = "none"
    /\ \/ poll = "running" /\ UNCHANGED <<polling, visit, rendered>>
       \/ poll = "over" /\ polling' = FALSE /\ Reloads
    /\ UNCHANGED <<use, serverVars, disabled, action, hub, message, shellVars, messageVars, galleryVars>>

-----------------------------------------------------------------------------
Watched == use = "session" /\ Loaded

SessionNext ==
    /\ Watched
    /\ \/ \E a \in Actions: Press(a) \/ ActionStep(a)
       \/ ServerMoves \/ ServerDeletes
       \/ HubStep \/ MessageArrives
       \/ PollSends \/ PollAnswered \/ PollFails \/ PollArrives

Next ==
    \/ SessionNext
    \/ /\ use = "sidebar" /\ visit = "open"
       /\ SidebarNext
       /\ UNCHANGED <<use, serverVars, pageVars, watchVars, messageVars, galleryVars>>
    \/ /\ use = "messages" /\ visit = "open"
       /\ MessagesNext
       /\ UNCHANGED <<use, serverVars, pageVars, watchVars, shellVars, galleryVars>>
    \/ /\ use = "timeline" /\ visit = "open"
       /\ GalleryNext
       /\ UNCHANGED <<use, serverVars, pageVars, watchVars, shellVars, messageVars>>
    \/ Reload \/ Load \/ Leave

\* The server answers what it gets, the browser runs its timers and callbacks, and
\* of polls that are repeated for ever some come through.  Nothing is assumed
\* of the user, of the session, or of the hub.
Fairness ==
    /\ WF_vars(Load)
    /\ \A b \in Buttons: WF_vars(Watched /\ ActionStep(b))
    /\ SF_vars(Watched /\ PollAnswered)
    /\ WF_vars(Watched /\ (PollSends \/ PollArrives))
    /\ WF_vars(/\ use = "messages" /\ visit = "open"
               /\ TimeUp
               /\ UNCHANGED <<use, serverVars, pageVars, watchVars, shellVars, galleryVars>>)

Spec == Init /\ [][Next]_vars /\ Fairness

-----------------------------------------------------------------------------
\* A page that was rendered for a running session does not go on showing it as
\* running, whatever became of the hub and of single polls (unless the session
\* is deleted, which nobody tells it).
NoticesTheEnd ==
    Watched /\ rendered \in Active /\ server \notin Active
        ~> ~Loaded \/ rendered \notin Active \/ server \in Active \cup {"gone"}

\* A button that was disabled for its action works again, or the page is replaced.
ButtonsComeBack == \A b \in Buttons: b \in disabled ~> ~Loaded \/ b \notin disabled

\* No message stays for ever, also when the user does nothing.
MessagesGo == \A t \in Toasts: Shown(t) ~> ~Loaded \/ ~Shown(t)

=============================================================================
