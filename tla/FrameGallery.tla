---------------------------- MODULE FrameGallery ----------------------------
(***************************************************************************)
(* The timeline of a session's page: the newest frames come with the page, *)
(* and "Load more" asks the server for the ones below, by their offset in  *)
(* a list that grows at its top while the session captures.                *)
(*                                                                         *)
(* The server's half is FrameCatalogService.GetFramesAsync over frames     *)
(* that one capture loop numbers 1, 2, 3 ...; the browser's half is the    *)
(* script of Details.cshtml.                                               *)
(***************************************************************************)
EXTENDS Naturals, Sequences

CONSTANTS
    PageSize,   \* frames in an answer: 24
    MaxFrames,  \* frames a session takes (bound)
    Sizes       \* of frames, in bytes

ASSUME GalleryAssumption ==
    /\ PageSize \in Nat \ {0}
    /\ MaxFrames \in Nat
    /\ Sizes \subseteq Nat

VARIABLES
    frames,     \* how many frames the session has on disk
    deleted,    \* the session is deleted: the server finds no frames any more
    gallery,    \* the numbers of the cards on the page, in their order
    galleryOffset,
    loadMore,   \* the button: "ready", "busy" (disabled), or "removed"
    request,    \* the request for more: "none", "sent", "answered", "lost"
    answer      \* what the server answered

galleryVars == <<frames, deleted, gallery, galleryOffset, loadMore, request, answer>>

GalleryTypeOK ==
    /\ frames \in 0..MaxFrames
    /\ deleted \in BOOLEAN
    /\ gallery \in Seq(1..MaxFrames)
    /\ galleryOffset \in Nat
    /\ loadMore \in {"ready", "busy", "removed"}
    /\ request \in {"none", "sent", "answered", "lost"}
    /\ answer \in [items: Seq(1..MaxFrames), total: 0..MaxFrames]

Least(a, b) == IF a < b THEN a ELSE b

\* Mutant: frames are numbered from zero.
GetFramesFromZero(offset, n) ==
    [items |-> SubSeq([i \in 1..n |-> n - i], offset + 1, Least(n, offset + PageSize)),
     total |-> n]

\* GetFramesAsync(offset, PageSize) when there are n frames: newest first.
GetFrames(offset, n) ==
    [items |-> SubSeq([i \in 1..n |-> n + 1 - i], offset + 1, Least(n, offset + PageSize)),
     total |-> n]

NoFrames == [items |-> <<>>, total |-> 0]

\* OnGetAsync, and the page it renders: a button only if there are more.
Button(first) == IF Len(first.items) < first.total THEN "ready" ELSE "removed"

GalleryInit ==
    /\ frames \in 0..MaxFrames
    /\ deleted = FALSE
    /\ gallery = GetFrames(0, frames).items
    /\ galleryOffset = Len(gallery)
    /\ loadMore = Button(GetFrames(0, frames))
    /\ request = "none"
    /\ answer = NoFrames

\* The page is loaded again.
GalleryReloads ==
    LET first == IF deleted THEN NoFrames ELSE GetFrames(0, frames)
    IN  /\ gallery' = first.items
        /\ galleryOffset' = Len(first.items)
        /\ loadMore' = Button(first)
        /\ request' = "none"
        /\ answer' = NoFrames
        /\ UNCHANGED <<frames, deleted>>

-----------------------------------------------------------------------------
\* SaveFrameAsync, while the page is open.
FrameArrives ==
    /\ ~deleted
    /\ frames < MaxFrames
    /\ frames' = frames + 1
    /\ UNCHANGED <<deleted, gallery, galleryOffset, loadMore, request, answer>>

\* The session is deleted, here or elsewhere.
FramesVanish ==
    /\ ~deleted
    /\ deleted' = TRUE
    /\ UNCHANGED <<frames, gallery, galleryOffset, loadMore, request, answer>>

\* Mutant: the offset moves on when the request is sent.
LoadMoreAdvances ==
    /\ loadMore = "ready"
    /\ loadMore' = "busy"
    /\ request' = "sent"
    /\ galleryOffset' = galleryOffset + PageSize
    /\ UNCHANGED <<frames, deleted, gallery, answer>>

\* loadMoreFrames up to its await.
LoadMore ==
    /\ loadMore = "ready"
    /\ loadMore' = "busy"
    /\ request' = "sent"
    /\ UNCHANGED <<frames, deleted, gallery, galleryOffset, answer>>

\* The server answers with its list as it is now, or the request gets lost.
AnswerMore ==
    /\ request = "sent"
    /\ \/ /\ request' = "answered"
          /\ answer' = IF deleted THEN NoFrames ELSE GetFrames(galleryOffset, frames)
       \/ request' = "lost" /\ UNCHANGED answer
    /\ UNCHANGED <<frames, deleted, gallery, galleryOffset, loadMore>>

\* Mutant: the offset is compared with the number of frames the page came with.
AddFramesOldTotal ==
    /\ request = "answered"
    /\ gallery' = gallery \o answer.items
    /\ galleryOffset' = galleryOffset + Len(answer.items)
    /\ loadMore' = IF galleryOffset' >= gallery[1] THEN "removed" ELSE "ready"
    /\ request' = "none"
    /\ answer' = NoFrames
    /\ UNCHANGED <<frames, deleted>>

\* The cards are added, whether or not the page has them already.
AddFrames ==
    /\ request = "answered"
    /\ gallery' = gallery \o answer.items
    /\ galleryOffset' = galleryOffset + Len(answer.items)
    /\ loadMore' = IF galleryOffset' >= answer.total THEN "removed" ELSE "ready"
    /\ request' = "none"
    /\ answer' = NoFrames
    /\ UNCHANGED <<frames, deleted>>

\* Any error: the button works again, and the page says so below it.
LoadMoreFails ==
    /\ request = "lost"
    /\ loadMore' = "ready"
    /\ request' = "none"
    /\ UNCHANGED <<frames, deleted, gallery, galleryOffset, answer>>

GalleryNext ==
    \/ FrameArrives \/ FramesVanish
    \/ LoadMore \/ AnswerMore \/ AddFrames \/ LoadMoreFails

GallerySpec == GalleryInit /\ [][GalleryNext \/ GalleryReloads]_galleryVars

-----------------------------------------------------------------------------
(* The label of a card's size, in tenths of a MiB or in KiB: of the frames    *)
(* that come with the page by FormatFrameSize (C#), of the loaded ones by     *)
(* formatFrameSize (JavaScript).                                             *)

KiB == 1024
MiB == 1024 * 1024

\* Mutant: the default of Math.Round, to the even neighbour.
RoundToEven(a, b) ==
    IF 2 * (a % b) > b \/ (2 * (a % b) = b /\ (a \div b) % 2 = 1)
    THEN a \div b + 1 ELSE a \div b

\* Math.Round(x, MidpointRounding.AwayFromZero) of x = a / b.
RoundAwayFromZero(a, b) == IF 2 * (a % b) >= b THEN a \div b + 1 ELSE a \div b

\* Math.floor(x + 0.5) of x = a / b.
FloorOfHalfMore(a, b) == (2 * a + b) \div (2 * b)

ServerLabel(bytes) ==
    IF bytes >= MiB THEN <<"MB", RoundAwayFromZero(10 * bytes, MiB)>>
                    ELSE <<"KB", RoundAwayFromZero(bytes, KiB)>>

PageLabel(bytes) ==
    IF bytes >= MiB THEN <<"MB", FloorOfHalfMore(10 * bytes, MiB)>>
                    ELSE <<"KB", FloorOfHalfMore(bytes, KiB)>>

-----------------------------------------------------------------------------
\* The cards that came with the page are at the top: as many as fitted of the
\* frames there were then.
FirstCards == IF gallery = <<>> THEN 0 ELSE Least(gallery[1], PageSize)

\* The label of the i-th card, if its frame has so many bytes.
Label(i, bytes) == IF i <= FirstCards THEN ServerLabel(bytes) ELSE PageLabel(bytes)

\* A frame has one label, whether it came with the page or was loaded into it, also
\* where C# and JavaScript round half-way values apart (a frame may have a card
\* of each kind, when the list has moved).
SameLabel ==
    \A i \in DOMAIN gallery: \A bytes \in Sizes: Label(i, bytes) = Label(1, bytes)

Cards == {gallery[i]: i \in DOMAIN gallery}

\* The timeline never skips a frame: below the card it starts with, every number
\* has a card down to the oldest one shown, whatever frames arrived between two
\* requests and whichever request failed and was repeated.  (Cards may repeat.)
NoGap ==
    \A shown \in Cards: \A n \in shown..gallery[1]: n \in Cards

\* The button goes away only when the timeline reaches down to the first frame.
RemovedAtTheEnd ==
    loadMore = "removed" /\ ~deleted /\ gallery # <<>> =>
        \A n \in 1..gallery[1]: n \in Cards

=============================================================================
