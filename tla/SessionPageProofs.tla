------------------------- MODULE SessionPageProofs -------------------------
(***************************************************************************)
(* What holds of a session's page for any size of its timeline's pages,    *)
(* any number of frames that arrive while it is open, any requests that    *)
(* fail and any number of actions under way.                               *)
(***************************************************************************)
EXTENDS SessionPage, SequenceTheorems, TLAPS

-----------------------------------------------------------------------------
(* Pages.                                                                    *)

\* What the server answers: the frames below the offset, downwards.
LEMMA PageOfFrames ==
    ASSUME NEW offset \in Nat, NEW n \in 0..MaxFrames, offset <= n
    PROVE  /\ GetFrames(offset, n).total = n
           /\ GetFrames(offset, n).items \in Seq(1..MaxFrames)
           /\ Len(GetFrames(offset, n).items) = Least(n, offset + PageSize) - offset
           /\ \A i \in 1..Len(GetFrames(offset, n).items):
                 GetFrames(offset, n).items[i] = n - offset + 1 - i
<1> DEFINE all == [i \in 1..n |-> n + 1 - i]
           last == Least(n, offset + PageSize)
<1>1. n \in Nat /\ MaxFrames \in Nat /\ PageSize \in Nat
  BY GalleryAssumption
<1>2. \A i \in 1..n: n + 1 - i \in 1..MaxFrames
  BY <1>1
<1>3. all \in Seq(1..MaxFrames) /\ Len(all) = n
  BY <1>1, <1>2
<1>4. last \in offset..n
  BY <1>1 DEF Least
<1>5. /\ SubSeq(all, offset + 1, last) \in Seq(1..MaxFrames)
      /\ Len(SubSeq(all, offset + 1, last)) = last - offset
      /\ \A i \in 1..(last - offset): SubSeq(all, offset + 1, last)[i] = all[offset + i]
  <2>1. offset + 1 \in 1..(Len(all) + 1) /\ last \in offset..Len(all)
    BY <1>1, <1>3, <1>4
  <2> HIDE DEF all, last
  <2>3. /\ SubSeq(all, offset + 1, last) \in Seq(1..MaxFrames)
        /\ Len(SubSeq(all, offset + 1, last)) = last - offset
    BY <1>1, <1>3, <1>4, <2>1, SubSeqProperties
  <2>4. ASSUME NEW i \in 1..(last - offset)
        PROVE  SubSeq(all, offset + 1, last)[i] = all[offset + i]
    <3>1. i \in 1..(last - (offset + 1) + 1) /\ offset + 1 + i - 1 = offset + i
      BY <1>1, <1>4
    <3>2. SubSeq(all, offset + 1, last)[i] = all[offset + 1 + i - 1]
      BY <1>3, <2>1, <3>1, SubSeqProperties
    <3>3. QED
      BY <3>1, <3>2
  <2>5. QED
    BY <2>3, <2>4
<1>6. GetFrames(offset, n).items = SubSeq(all, offset + 1, last)
  BY DEF GetFrames
<1>8. GetFrames(offset, n).total = n
  BY DEF GetFrames
<1>7. \A i \in 1..(last - offset): all[offset + i] = n - offset + 1 - i
  BY <1>1, <1>4
<1> HIDE DEF all, last
<1>9. Len(GetFrames(offset, n).items) = last - offset
  BY <1>5, <1>6
<1>10. QED
  BY <1>5, <1>6, <1>7, <1>8, <1>9 DEF last

\* Below its first card a sequence of cards leaves nothing out.
Covers(s) ==
    \A i \in DOMAIN s: \A n \in s[i]..s[1]: \E j \in DOMAIN s: s[j] = n

\* The last card stands where it stood in some list of at most n frames.
EndsWithin(s, n) == s # <<>> => s[Len(s)] + Len(s) <= n + 1

\* The page that comes with the page.
LEMMA FirstPage ==
    ASSUME NEW n \in 0..MaxFrames
    PROVE  /\ GetFrames(0, n).items \in Seq(1..MaxFrames)
           /\ GetFrames(0, n).total = n
           /\ Covers(GetFrames(0, n).items)
           /\ EndsWithin(GetFrames(0, n).items, n)
           /\ GetFrames(0, n).items = <<>> => n = 0
           /\ Len(GetFrames(0, n).items) >= n /\ n # 0 =>
                GetFrames(0, n).items[Len(GetFrames(0, n).items)] = 1
<1> DEFINE s == GetFrames(0, n).items
<1>1. n \in Nat /\ PageSize \in Nat \ {0} /\ 0 <= n /\ 0 \in Nat
  BY GalleryAssumption
<1>2. /\ s \in Seq(1..MaxFrames) /\ GetFrames(0, n).total = n
      /\ Len(s) = Least(n, PageSize)
      /\ \A i \in 1..Len(s): s[i] = n + 1 - i
  <2>1. /\ s \in Seq(1..MaxFrames) /\ GetFrames(0, n).total = n
        /\ Len(s) = Least(n, 0 + PageSize) - 0
        /\ \A i \in 1..Len(s): s[i] = n - 0 + 1 - i
    BY <1>1, PageOfFrames
  <2> HIDE DEF s
  <2>2. Least(n, 0 + PageSize) - 0 = Least(n, PageSize)
    BY <1>1 DEF Least
  <2>3. QED
    BY <1>1, <2>1, <2>2
<1>3. Len(s) \in 0..n /\ (Len(s) = 0 => n = 0)
  BY <1>1, <1>2 DEF Least
<1> HIDE DEF s
<1>0. DOMAIN s = 1..Len(s)
  BY <1>2
<1>4. Covers(s)
  <2> SUFFICES ASSUME NEW i \in 1..Len(s), NEW k \in s[i]..s[1]
               PROVE  \E j \in 1..Len(s): s[j] = k
    BY <1>0 DEF Covers
  <2>1. s[i] = n + 1 - i /\ s[1] = n
    BY <1>1, <1>2, <1>3
  <2>2. n + 1 - k \in 1..Len(s)
    BY <1>1, <1>3, <2>1
  <2>3. s[n + 1 - k] = k
    BY <1>1, <1>2, <2>1, <2>2
  <2>4. QED
    BY <2>2, <2>3
<1>5. s # <<>> => Len(s) \in 1..Len(s) /\ s[Len(s)] = n + 1 - Len(s)
  BY <1>1, <1>2, <1>3
<1>6. s = <<>> => n = 0
  BY <1>2, <1>3
<1>7. EndsWithin(s, n)
  BY <1>1, <1>3, <1>5 DEF EndsWithin
<1>8. Len(s) >= n /\ n # 0 => s[Len(s)] = 1
  BY <1>1, <1>3, <1>5, <1>6
<1>9. QED
  BY <1>2, <1>4, <1>6, <1>7, <1>8 DEF s

\* A page that is asked for by the number of cards there are and answered when
\* there are n frames, not fewer than before.
LEMMA NextPage ==
    ASSUME NEW s \in Seq(1..MaxFrames), s # <<>>, Covers(s),
           NEW n \in 0..MaxFrames, EndsWithin(s, n)
    PROVE  LET page == GetFrames(Len(s), n)
               t == s \o page.items
           IN  /\ page.total = n
               /\ t \in Seq(1..MaxFrames)
               /\ t # <<>>
               /\ Len(t) = Len(s) + Len(page.items)
               /\ Covers(t)
               /\ EndsWithin(t, n)
               /\ Len(t) >= n => t[Len(t)] = 1
<1> DEFINE k == Len(s)
           items == GetFrames(k, n).items
           m == Len(items)
           t == s \o items
<1>1. n \in Nat /\ PageSize \in Nat \ {0} /\ k \in Nat \ {0} /\ k \in 1..k
  BY GalleryAssumption
<1>2. s[k] \in 1..MaxFrames /\ s[k] \in Nat /\ s[k] >= 1
  BY <1>1, GalleryAssumption
<1>3. s[k] + k <= n + 1
  BY DEF EndsWithin
<1>4. k <= n
  BY <1>1, <1>2, <1>3
<1>5. /\ GetFrames(k, n).total = n
      /\ items \in Seq(1..MaxFrames)
      /\ m = Least(n, k + PageSize) - k
      /\ \A i \in 1..m: items[i] = n - k + 1 - i
  BY <1>1, <1>4, PageOfFrames
<1>6. m \in 0..(n - k)
  BY <1>1, <1>4, <1>5 DEF Least
<1> HIDE DEF items
<1>7. /\ t \in Seq(1..MaxFrames)
      /\ Len(t) = k + m
      /\ \A i \in 1..k: t[i] = s[i]
      /\ \A i \in 1..m: t[k + i] = items[i]
  <2>1. \A i \in 1..(k + m): t[i] = IF i <= k THEN s[i] ELSE items[i - k]
    BY <1>5, ConcatProperties
  <2>2. t \in Seq(1..MaxFrames) /\ Len(t) = k + m
    BY <1>5, ConcatProperties
  <2> HIDE DEF t
  <2>3. \A i \in 1..k: t[i] = s[i]
    BY <1>1, <1>6, <2>1
  <2>4. \A i \in 1..m: t[k + i] = items[i]
    BY <1>1, <1>6, <2>1
  <2>5. QED
    BY <2>2, <2>3, <2>4
<1> HIDE DEF t, m, k
<1>8. Covers(t)
  <2> SUFFICES ASSUME NEW i \in 1..Len(t), NEW x \in t[i]..t[1]
               PROVE  \E j \in 1..Len(t): t[j] = x
    BY <1>7 DEF Covers
  <2>1. t[1] = s[1] /\ s[1] \in Nat /\ x \in Int
    BY <1>1, <1>7, GalleryAssumption DEF k
  <2>2. ASSUME NEW j \in 1..k, x \in s[j]..s[1]
        PROVE  \E q \in 1..Len(t): t[q] = x
    <3>1. PICK q \in 1..k: s[q] = x
      BY <2>2 DEF Covers, k
    <3>2. QED
      BY <1>1, <1>6, <1>7, <3>1
  <2>3. CASE i \in 1..k
    BY <1>7, <2>1, <2>2, <2>3
  <2>4. CASE i \notin 1..k
    <3>1. i - k \in 1..m /\ t[i] = n - k + 1 - (i - k)
      <4>1. i - k \in 1..m /\ i = k + (i - k)
        BY <1>1, <1>6, <1>7, <2>4
      <4>2. QED
        BY <1>5, <1>7, <4>1
    <3>2. CASE x <= n - k
      <4>1. n - k + 1 - x \in 1..m
        BY <1>1, <1>6, <3>1, <3>2
      <4>2. t[k + (n - k + 1 - x)] = n - k + 1 - (n - k + 1 - x)
        BY <1>5, <1>7, <4>1
      <4>3. QED
        BY <1>1, <1>6, <1>7, <2>1, <4>1, <4>2
    <3>3. CASE x > n - k
      <4>1. x \in s[k]..s[1]
        BY <1>1, <1>2, <1>3, <2>1, <3>3 DEF k
      <4>2. QED
        BY <1>1, <2>2, <4>1
    <3>4. QED
      BY <1>1, <2>1, <3>2, <3>3
  <2>5. QED
    BY <2>3, <2>4
<1>9. t # <<>>
  BY <1>1, <1>6, <1>7
<1>10. t[Len(t)] + Len(t) = n + 1 \/ (m = 0 /\ t[Len(t)] = s[k])
  <2>1. CASE m = 0
    BY <1>1, <1>7, <2>1
  <2>2. CASE m # 0
    <3>1. m \in 1..m /\ t[k + m] = n - k + 1 - m
      BY <1>5, <1>6, <1>7, <2>2
    <3>2. QED
      BY <1>1, <1>6, <1>7, <3>1
  <2>3. QED
    BY <2>1, <2>2
<1>11. EndsWithin(t, n)
  BY <1>1, <1>3, <1>6, <1>7, <1>10 DEF EndsWithin, k
<1>12. ASSUME Len(t) >= n
       PROVE  t[Len(t)] = 1
  <2>1. Len(t) = n
    <3>1. Len(t) = k + m
      BY <1>7
    <3>2. QED
      BY <1>1, <1>4, <1>6, <1>12, <3>1
  <2>2. t[Len(t)] \in 1..MaxFrames
    <3>1. Len(t) \in 1..Len(t)
      BY <1>1, <1>6, <1>7
    <3>2. t \in Seq(1..MaxFrames)
      BY <1>7
    <3>3. QED
      BY <3>1, <3>2, ElementOfSeq
  <2>3. QED
    BY <1>1, <1>2, <1>3, <1>7, <1>10, <2>1, <2>2, GalleryAssumption DEF k
<1>13. QED
  BY <1>5, <1>7, <1>8, <1>9, <1>11, <1>12 DEF t, items, m, k

-----------------------------------------------------------------------------
(* The timeline.  The cards it has, the count it asks with, and the list they *)
(* come from belong together: the last card stood, when it was asked for, at  *)
(* the place that its position on the page says, in a list that can only have *)
(* grown since.  So the next page begins at the next frame, or above it.      *)

\* An answer under way is one that AddFrames can take.
Follows(page) ==
    \/ deleted /\ page = NoFrames
    \/ \E n \in 0..frames: EndsWithin(gallery, n) /\ page = GetFrames(Len(gallery), n)

Growing ==
    /\ frames \in 0..MaxFrames
    /\ deleted \in BOOLEAN
    /\ gallery \in Seq(1..MaxFrames)
    /\ galleryOffset = Len(gallery)
    /\ gallery = <<>> => loadMore = "removed"
    /\ request # "none" => loadMore = "busy"
    /\ request = "answered" => Follows(answer)
    /\ Covers(gallery)
    /\ EndsWithin(gallery, frames)
    /\ loadMore = "removed" /\ ~deleted /\ gallery # <<>> => gallery[Len(gallery)] = 1

LEMMA EmptyPage ==
    /\ <<>> \in Seq(1..MaxFrames) /\ Len(<<>>) = 0
    /\ Covers(<<>>)
    /\ \A n: EndsWithin(<<>>, n)
  BY DEF Covers, EndsWithin

LEMMA GrowingInit == GalleryInit => Growing
<1> SUFFICES ASSUME GalleryInit
             PROVE  Growing
  OBVIOUS
<1> USE DEF GalleryInit
<1>1. frames \in 0..MaxFrames /\ frames \in Nat
  BY GalleryAssumption
<1>2. /\ gallery \in Seq(1..MaxFrames) /\ Covers(gallery) /\ EndsWithin(gallery, frames)
      /\ gallery = <<>> => frames = 0
      /\ Len(gallery) >= frames /\ frames # 0 => gallery[Len(gallery)] = 1
  BY <1>1, FirstPage
<1>3. loadMore = IF Len(gallery) < frames THEN "ready" ELSE "removed"
  BY <1>1, FirstPage DEF Button
<1>4. Len(gallery) \in Nat /\ (gallery = <<>> => Len(gallery) = 0)
  BY <1>2
<1>5. gallery = <<>> => loadMore = "removed"
  BY <1>2, <1>3, <1>4
<1>6. ASSUME gallery # <<>>
      PROVE  frames # 0
  <2>1. Len(gallery) \in 1..Len(gallery)
    BY <1>2, <1>6
  <2>2. gallery[Len(gallery)] \in 1..MaxFrames
    BY <1>2, <2>1, ElementOfSeq
  <2>3. gallery[Len(gallery)] + Len(gallery) <= frames + 1
    BY <1>2, <1>6 DEF EndsWithin
  <2>4. QED
    BY <1>1, <1>4, <2>1, <2>2, <2>3, GalleryAssumption
<1>7. loadMore = "removed" /\ gallery # <<>> => gallery[Len(gallery)] = 1
  BY <1>1, <1>2, <1>3, <1>4, <1>6
<1>8. QED
  BY <1>1, <1>2, <1>5, <1>7 DEF Growing

LEMMA GrowingReload == Growing /\ GalleryReloads => Growing'
<1> SUFFICES ASSUME Growing, GalleryReloads
             PROVE  Growing'
  OBVIOUS
<1> USE DEF GalleryReloads
<1>1. frames \in 0..MaxFrames /\ frames \in Nat /\ deleted \in BOOLEAN
  BY GalleryAssumption DEF Growing
<1>2. frames' = frames /\ deleted' = deleted /\ request' = "none"
  OBVIOUS
<1>3. CASE deleted
  <2>1. gallery' = <<>> /\ galleryOffset' = 0 /\ loadMore' = "removed"
    BY <1>3, EmptyPage DEF NoFrames, Button
  <2>2. QED
    BY <1>1, <1>2, <2>1, EmptyPage DEF Growing, Covers, EndsWithin
<1>4. CASE ~deleted
  <2> DEFINE s == GetFrames(0, frames).items
  <2>1. /\ s \in Seq(1..MaxFrames) /\ Covers(s) /\ EndsWithin(s, frames)
        /\ s = <<>> => frames = 0
        /\ Len(s) >= frames /\ frames # 0 => s[Len(s)] = 1
        /\ GetFrames(0, frames).total = frames
    BY <1>1, FirstPage
  <2>2. gallery' = s /\ galleryOffset' = Len(s)
    BY <1>4
  <2>3. loadMore' = IF Len(s) < frames THEN "ready" ELSE "removed"
    BY <1>4, <2>1 DEF Button
  <2> HIDE DEF s
  <2>4. Len(s) \in Nat /\ (s = <<>> => Len(s) = 0)
    BY <2>1
  <2>5. s = <<>> => loadMore' = "removed"
    BY <2>1, <2>3, <2>4
  <2>6. loadMore' = "removed" /\ s # <<>> => s[Len(s)] = 1
    <3>1. ASSUME s # <<>>
          PROVE  frames # 0
      <4>1. Len(s) \in 1..Len(s)
        BY <2>1, <3>1
      <4>2. s[Len(s)] \in 1..MaxFrames
        BY <2>1, <4>1, ElementOfSeq
      <4>3. s[Len(s)] + Len(s) <= frames + 1
        BY <2>1, <3>1 DEF EndsWithin
      <4>4. QED
        BY <1>1, <2>4, <4>1, <4>2, <4>3, GalleryAssumption
    <3>2. QED
      BY <1>1, <2>1, <2>3, <2>4, <3>1
  <2>7. Covers(gallery)' /\ EndsWithin(gallery, frames)'
    BY <1>2, <2>1, <2>2 DEF Covers, EndsWithin
  <2>8. QED
    BY <1>1, <1>2, <2>1, <2>2, <2>5, <2>6, <2>7 DEF Growing
<1>5. QED
  BY <1>1, <1>3, <1>4

LEMMA GrowingStep == Growing /\ GalleryNext => Growing'
<1> SUFFICES ASSUME Growing, GalleryNext
             PROVE  Growing'
  OBVIOUS
<1>1. /\ frames \in 0..MaxFrames /\ frames \in Nat /\ deleted \in BOOLEAN
      /\ gallery \in Seq(1..MaxFrames) /\ galleryOffset = Len(gallery)
      /\ Len(gallery) \in Nat
  BY GalleryAssumption DEF Growing
<1>2. CASE FrameArrives
  <2>1. /\ frames' = frames + 1 /\ frames' \in 0..MaxFrames /\ ~deleted
        /\ UNCHANGED <<deleted, gallery, galleryOffset, loadMore, request, answer>>
    BY <1>1, <1>2, GalleryAssumption DEF FrameArrives
  <2>2. EndsWithin(gallery, frames)'
    <3>1. CASE gallery = <<>>
      BY <2>1, <3>1 DEF EndsWithin
    <3>2. CASE gallery # <<>>
      <4>1. Len(gallery) \in 1..Len(gallery)
        BY <1>1, <3>2
      <4>2. gallery[Len(gallery)] \in 1..MaxFrames
        BY <1>1, <4>1, ElementOfSeq
      <4>3. gallery[Len(gallery)] + Len(gallery) <= frames + 1
        BY <3>2 DEF Growing, EndsWithin
      <4>4. QED
        BY <1>1, <2>1, <4>2, <4>3, GalleryAssumption DEF EndsWithin
    <3>3. QED
      BY <3>1, <3>2
  <2>3. request' = "answered" => Follows(answer)'
    <3>1. 0..frames \subseteq 0..frames'
      BY <1>1, <2>1
    <3>2. QED
      BY <2>1, <3>1 DEF Growing, Follows, EndsWithin
  <2>4. QED
    BY <1>1, <2>1, <2>2, <2>3 DEF Growing, Covers
<1>3. CASE FramesVanish
  <2>1. ~deleted /\ deleted' = TRUE
        /\ UNCHANGED <<frames, gallery, galleryOffset, loadMore, request, answer>>
    BY <1>3 DEF FramesVanish
  <2>2. request' = "answered" => Follows(answer)'
    BY <2>1 DEF Growing, Follows, EndsWithin
  <2>3. QED
    BY <2>1, <2>2 DEF Growing, Covers, EndsWithin
<1>4. CASE LoadMore
  BY <1>4 DEF LoadMore, Growing, Covers, EndsWithin
<1>5. CASE AnswerMore
  <2>1. request = "sent" /\ request' \in {"answered", "lost"}
        /\ UNCHANGED <<frames, deleted, gallery, galleryOffset, loadMore>>
    BY <1>5 DEF AnswerMore
  <2>2. request' = "answered" => Follows(answer)'
    <3>1. SUFFICES ASSUME request' = "answered"
                   PROVE  Follows(answer)'
      OBVIOUS
    <3>2. answer' = IF deleted THEN NoFrames ELSE GetFrames(Len(gallery), frames)
      BY <1>1, <1>5, <3>1 DEF AnswerMore
    <3>3. frames \in 0..frames /\ EndsWithin(gallery, frames)
      BY <1>1 DEF Growing
    <3>4. QED
      BY <1>1, <2>1, <3>2, <3>3 DEF Follows, EndsWithin
  <2>3. QED
    BY <2>1, <2>2 DEF Growing, Covers, EndsWithin
<1>6. CASE AddFrames
  <2>1. /\ request = "answered" /\ request' = "none" /\ UNCHANGED <<frames, deleted>>
        /\ gallery' = gallery \o answer.items
        /\ galleryOffset' = Len(gallery) + Len(answer.items)
        /\ loadMore' = IF galleryOffset' >= answer.total THEN "removed" ELSE "ready"
    BY <1>1, <1>6 DEF AddFrames
  <2>2. loadMore = "busy" /\ gallery # <<>> /\ Follows(answer)
        /\ Covers(gallery) /\ EndsWithin(gallery, frames)
    BY <2>1 DEF Growing
  <2>3. CASE deleted /\ answer = NoFrames
    <3>1. gallery' = gallery /\ galleryOffset' = Len(gallery) /\ deleted'
      BY <1>1, <2>1, <2>3, ConcatEmptySeq DEF NoFrames
    <3>2. QED
      BY <1>1, <2>1, <2>2, <3>1 DEF Growing, Covers, EndsWithin
  <2>4. ASSUME NEW n \in 0..frames, EndsWithin(gallery, n),
               answer = GetFrames(Len(gallery), n)
        PROVE  Growing'
    <3>1. n \in 0..MaxFrames /\ n \in Nat /\ n <= frames
      BY <1>1, <2>4, GalleryAssumption
    <3>2. /\ answer.total = n
          /\ gallery' \in Seq(1..MaxFrames) /\ gallery' # <<>>
          /\ Len(gallery') = Len(gallery) + Len(answer.items)
          /\ Covers(gallery') /\ EndsWithin(gallery', n)
          /\ Len(gallery') >= n => gallery'[Len(gallery')] = 1
      BY <1>1, <2>1, <2>2, <2>4, <3>1, NextPage
    <3>3. galleryOffset' = Len(gallery')
      BY <2>1, <3>2
    <3>4. loadMore' = "removed" => Len(gallery') >= n
      BY <2>1, <3>2, <3>3
    <3>5. EndsWithin(gallery', frames)
      <4>1. Len(gallery') \in 1..Len(gallery')
        BY <3>2
      <4>2. gallery'[Len(gallery')] \in 1..MaxFrames
        BY <3>2, <4>1, ElementOfSeq
      <4>3. QED
        BY <1>1, <3>1, <3>2, <4>2, GalleryAssumption DEF EndsWithin
    <3>6. Covers(gallery)' /\ EndsWithin(gallery, frames)'
      BY <2>1, <3>2, <3>5 DEF Covers, EndsWithin
    <3>7. QED
      BY <1>1, <2>1, <3>2, <3>3, <3>4, <3>6 DEF Growing
  <2>5. QED
    BY <2>2, <2>3, <2>4 DEF Follows
<1>7. CASE LoadMoreFails
  BY <1>7 DEF LoadMoreFails, Growing, Covers, EndsWithin
<1>8. QED
  BY <1>2, <1>3, <1>4, <1>5, <1>6, <1>7 DEF GalleryNext

LEMMA GrowingStutters == Growing /\ UNCHANGED galleryVars => Growing'
  BY DEF Growing, galleryVars, Follows, Covers, EndsWithin

\* The timeline always is a contiguous piece of what the session had on disk.
LEMMA AlwaysGrowing == GallerySpec => []Growing
<1>1. Growing /\ [GalleryNext \/ GalleryReloads]_galleryVars => Growing'
  BY GrowingStep, GrowingReload, GrowingStutters
<1>2. QED
  BY <1>1, GrowingInit, PTL DEF GallerySpec

\* Whatever the size of a page and however frames arrive between requests that
\* may fail, the timeline skips no frame ...
THEOREM TimelineHasNoGap == GallerySpec => []NoGap
<1>1. Growing => NoGap
  BY DEF Growing, Covers, NoGap, Cards
<1>2. QED
  BY <1>1, AlwaysGrowing, PTL

\* ... and "Load more" goes away only when the first frame is shown.
THEOREM ButtonStaysToTheEnd == GallerySpec => []RemovedAtTheEnd
<1>1. Growing => RemovedAtTheEnd
  <2> SUFFICES ASSUME Growing, loadMore = "removed", ~deleted, gallery # <<>>
               PROVE  \A n \in 1..gallery[1]: n \in Cards
    BY DEF RemovedAtTheEnd
  <2>1. Len(gallery) \in DOMAIN gallery /\ gallery[Len(gallery)] = 1
    BY DEF Growing
  <2>2. QED
    BY <2>1 DEF Growing, Covers, Cards
<1>2. QED
  BY <1>1, AlwaysGrowing, PTL

-----------------------------------------------------------------------------
(* The labels.  The two ways of rounding differ in how they break a tie only  *)
(* for negative numbers, which no size is.                                   *)

LEMMA RoundingsAgree ==
    ASSUME NEW a \in Nat, NEW b \in {KiB, MiB}
    PROVE  RoundAwayFromZero(a, b) = FloorOfHalfMore(a, b)
<1>1. CASE b = KiB
  BY <1>1 DEF RoundAwayFromZero, FloorOfHalfMore, KiB
<1>2. CASE b = MiB
  BY <1>2 DEF RoundAwayFromZero, FloorOfHalfMore, MiB
<1>3. QED
  BY <1>1, <1>2

\* Whatever the size of a frame, the server and the script label it alike.
THEOREM OneLabelForASize == \A bytes \in Nat: ServerLabel(bytes) = PageLabel(bytes)
  BY RoundingsAgree DEF ServerLabel, PageLabel

\* So a frame has one label, wherever its cards are on the page.
THEOREM LabelsAlwaysAgree == GallerySpec => []SameLabel
<1>1. SameLabel
  BY OneLabelForASize, GalleryAssumption DEF SameLabel, Label
<1>2. QED
  BY <1>1, PTL

-----------------------------------------------------------------------------
(* The timeline inside the page.                                             *)

LEMMA ActionsLeaveTheRest ==
    \A a \in Actions: Press(a) \/ ActionStep(a) => UNCHANGED <<galleryVars, shellVars, messageVars>>
<1> SUFFICES ASSUME NEW a \in Actions, Press(a) \/ ActionStep(a)
             PROVE  UNCHANGED <<galleryVars, shellVars, messageVars>>
  OBVIOUS
<1>1. CASE Press(a)
  BY <1>1 DEF Press, serverVars, watchVars
<1>2. CASE Serve(a) \/ Refuse(a)
  BY <1>2 DEF Serve, Refuse, Answered
<1>3. CASE Succeed(a) \/ Fail(a)
  BY <1>3 DEF Succeed, Fail
<1>4. CASE DeletionEnds
  BY <1>4 DEF DeletionEnds, Answered
<1>5. CASE RenderingEnds
  BY <1>5 DEF RenderingEnds, Answered
<1>6. QED
  BY <1>1, <1>2, <1>3, <1>4, <1>5 DEF ActionStep

LEMMA SessionLeavesTheRest == SessionNext => UNCHANGED <<galleryVars, shellVars, messageVars>>
<1> SUFFICES ASSUME SessionNext
             PROVE  UNCHANGED <<galleryVars, shellVars, messageVars>>
  OBVIOUS
<1>1. ASSUME NEW a \in Actions, Press(a) \/ ActionStep(a)
      PROVE  UNCHANGED <<galleryVars, shellVars, messageVars>>
  BY <1>1, ActionsLeaveTheRest
<1>2. CASE ServerMoves \/ ServerDeletes
  BY <1>2 DEF ServerMoves, ServerDeletes
<1>3. CASE HubStep \/ MessageArrives
  BY <1>3 DEF HubStep, MessageArrives
<1>4. CASE PollSends \/ PollAnswered \/ PollFails \/ PollArrives
  BY <1>4 DEF PollSends, PollAnswered, PollFails, PollArrives
<1>5. QED
  BY <1>1, <1>2, <1>3, <1>4 DEF SessionNext

LEMMA PageStep ==
    [Next]_vars => [GalleryNext \/ GalleryReloads]_galleryVars
<1> SUFFICES ASSUME [Next]_vars
             PROVE  [GalleryNext \/ GalleryReloads]_galleryVars
  OBVIOUS
<1>1. CASE SessionNext
  BY <1>1, SessionLeavesTheRest
<1>2. CASE Load
  BY <1>2 DEF Load
<1>3. CASE Reload \/ Leave
  BY <1>3 DEF Reload, Leave
<1>4. CASE UNCHANGED vars
  BY <1>4 DEF vars
<1>5. QED
  BY <1>1, <1>2, <1>3, <1>4 DEF Next

\* The page implements the timeline's specification: whatever else happens on it
\* leaves the timeline alone, or loads it again.
THEOREM PageImplementsTimeline == Spec => GallerySpec
<1>1. Init => GalleryInit
  BY DEF Init
<1>2. QED
  BY <1>1, PageStep, PTL DEF Spec, GallerySpec

\* So the timeline of the page skips no frame ...
THEOREM PageHasNoGap == Spec => []NoGap
<1>1. QED
  BY PageImplementsTimeline, TimelineHasNoGap, PTL

\* ... and its button goes away only at the first frame.
THEOREM PageButtonStaysToTheEnd == Spec => []RemovedAtTheEnd
<1>1. QED
  BY PageImplementsTimeline, ButtonStaysToTheEnd, PTL

-----------------------------------------------------------------------------
(* The sidebar.  That a button can close it follows from the width: the only  *)
(* way to open it on a wide window would be a button that is not displayed    *)
(* there, and a window that becomes wide closes it.                          *)

Closable ==
    /\ openTrigger \in Toggles \cup {Nothing}
    /\ open \in BOOLEAN
    /\ open <=> openTrigger # Nothing
    /\ open => width # "wide"

LEMMA SidebarStep == Closable /\ SidebarNext => Closable'
<1> SUFFICES ASSUME Closable, SidebarNext
             PROVE  Closable'
  OBVIOUS
<1>1. ASSUME NEW b \in Toggles, Toggle(b)
      PROVE  Closable'
  <2>1. Displayed(b, width, open) /\ width' = width /\ open' = ~open
        /\ openTrigger' = IF ~open THEN b ELSE Nothing
    BY <1>1 DEF Toggle, SetSidebar
  <2>2. ~open => width # "wide"
    BY <2>1 DEF Displayed, Toggles
  <2>3. b # Nothing
    BY ShellAssumption
  <2>4. QED
    BY <2>1, <2>2, <2>3 DEF Closable
<1>2. ASSUME open' = FALSE, openTrigger' = Nothing
      PROVE  Closable'
  BY <1>2 DEF Closable
<1>3. CASE FollowExternalLink
  <2>1. (open' = FALSE /\ openTrigger' = Nothing) \/ UNCHANGED <<width, open, openTrigger>>
    BY <1>3 DEF FollowExternalLink, SetSidebar
  <2>2. QED
    BY <1>2, <2>1 DEF Closable
<1>4. CASE Escape
  BY <1>2, <1>4 DEF Escape, SetSidebar
<1>5. CASE Tab
  BY <1>5 DEF Tab, Closable
<1>6. CASE Resize
  <2>1. PICK w \in Widths:
          IF w = "wide"
          THEN SetSidebar(FALSE, Nothing, focus, w)
          ELSE width' = w /\ UNCHANGED <<open, openTrigger>>
    BY <1>6 DEF Resize
  <2>2. CASE w = "wide"
    BY <1>2, <2>1, <2>2 DEF SetSidebar
  <2>3. CASE w # "wide"
    BY <2>1, <2>3 DEF Closable
  <2>4. QED
    BY <2>2, <2>3
<1>7. QED
  BY <1>1, <1>3, <1>4, <1>5, <1>6 DEF SidebarNext

LEMMA ClosableStep == Closable /\ [Next]_vars => Closable'
<1> SUFFICES ASSUME Closable, [Next]_vars
             PROVE  Closable'
  OBVIOUS
<1>1. CASE UNCHANGED shellVars
  BY <1>1 DEF shellVars, Closable
<1>2. SessionNext \/ Reload \/ Leave \/ UNCHANGED vars => UNCHANGED shellVars
  BY SessionLeavesTheRest DEF Reload, Leave, vars
<1>3. CASE Load
  BY <1>3 DEF Load, Closable
<1>4. QED
  BY <1>1, <1>2, <1>3, SidebarStep DEF Next

\* However clicks, keys, links, reloads and changes of the width follow each other,
\* an open sidebar has a button on the screen that closes it.
THEOREM SidebarIsClosable == Spec => []OpenWhereClosable
<1>1. Init => Closable
  BY DEF Init, ShellInit, Closable
<1>2. Closable => OpenWhereClosable
  <2> SUFFICES ASSUME Closable, open
               PROVE  OnScreen("close", width, open)
    BY DEF Closable, OpenWhereClosable, Toggles
  <2>1. QED
    BY DEF Closable, OnScreen, Displayed
<1>3. QED
  BY <1>1, <1>2, ClosableStep, PTL DEF Spec

-----------------------------------------------------------------------------
(* The focus.  The top bar's button has disappeared exactly where nothing of  *)
(* the sidebar can be outside of the screen.                                  *)

LEMMA ClosingFocuses ==
    ASSUME NEW trigger, NEW held, NEW w, SetSidebar(FALSE, trigger, held, w), openTrigger = "menu"
    PROVE  OnScreen(focus', width', open')
<1>1. /\ width' = w /\ open' = FALSE
      /\ focus' = Focused("menu", held, w, FALSE)
  BY ShellAssumption DEF SetSidebar, Toggles
<1>2. CASE w # "wide"
  BY <1>1, <1>2 DEF Focused, Displayed, OnScreen
<1>3. CASE w = "wide"
  BY <1>1, <1>3 DEF Focused, Displayed, OnScreen
<1>4. QED
  BY <1>2, <1>3

LEMMA FocusStep ==
    Closable /\ [Next]_vars
        => [open /\ ~open' /\ openTrigger = "menu" => OnScreen(focus', width', open')]_shellVars
<1> SUFFICES ASSUME Closable, [Next]_vars, open, ~open', openTrigger = "menu"
             PROVE  OnScreen(focus', width', open')
  OBVIOUS
<1>1. ~UNCHANGED shellVars
  BY DEF shellVars
<1>2. CASE Load
  BY <1>2 DEF Load, OnScreen, Displayed
<1>3. CASE SidebarNext
  <2>1. ASSUME NEW b \in Toggles, Toggle(b)
        PROVE  OnScreen(focus', width', open')
    <3>1. PICK held: SetSidebar(FALSE, b, held, width)
      BY <2>1 DEF Toggle
    <3>2. QED
      BY <3>1, ClosingFocuses
  <2>2. CASE FollowExternalLink
    <3>1. PICK held: SetSidebar(FALSE, Nothing, held, width)
      BY <2>2 DEF FollowExternalLink
    <3>2. QED
      BY <3>1, ClosingFocuses
  <2>3. CASE Escape
    BY <2>3, ClosingFocuses DEF Escape
  <2>4. CASE Resize
    <3>1. PICK w \in Widths: SetSidebar(FALSE, Nothing, focus, w)
      BY <2>4 DEF Resize
    <3>2. QED
      BY <3>1, ClosingFocuses
  <2>5. Tab => UNCHANGED open
    BY DEF Tab
  <2>6. QED
    BY <1>3, <2>1, <2>2, <2>3, <2>4, <2>5 DEF SidebarNext
<1>4. SessionNext \/ Reload \/ Leave \/ UNCHANGED vars => UNCHANGED shellVars
  BY SessionLeavesTheRest DEF Reload, Leave, vars
<1>5. QED
  BY <1>1, <1>2, <1>3, <1>4 DEF Next

\* Closing the sidebar that the top bar's button opened leaves the focus on the
\* screen, at every width.
THEOREM FocusAlwaysComesBack == Spec => FocusComesBack
<1>1. Init => Closable
  BY DEF Init, ShellInit, Closable
<1>2. QED
  BY <1>1, ClosableStep, FocusStep, PTL DEF Spec, FocusComesBack

-----------------------------------------------------------------------------
(* The messages.  Every message that is shown has a timer of its own that     *)
(* still runs, and no message has two.                                       *)

Timed ==
    /\ region \subseteq Toasts
    /\ fresh \subseteq Toasts
    /\ timers \in Seq(Toasts)
    /\ \A i, j \in DOMAIN timers: timers[i] = timers[j] => i = j
    /\ \A i \in DOMAIN timers: timers[i] \notin fresh
    /\ \A t \in region: Ticking(t)

LEMMA TimedInit == MessagesInit => Timed
<1>1. ASSUME timers = <<>>
      PROVE  timers \in Seq(Toasts) /\ DOMAIN timers = {}
  BY <1>1
<1>2. QED
  BY <1>1 DEF MessagesInit, Timed

LEMMA NewPageIsTimed == NewPage => Timed'
<1>1. ASSUME timers' = <<>>
      PROVE  timers' \in Seq(Toasts) /\ DOMAIN timers' = {}
  BY <1>1
<1>2. QED
  BY <1>1 DEF NewPage, Timed

\* A new timer goes off last.
LEMMA NotifyTimed ==
    ASSUME Timed, NEW t \in Toasts, Notify(t)
    PROVE  Timed'
<1> DEFINE n == Len(timers)
<1>1. /\ t \in fresh /\ fresh' = fresh \ {t} /\ region' = region \cup {t}
      /\ timers' = Append(timers, t)
  BY DEF Notify
<1>2. timers \in Seq(Toasts) /\ n \in Nat /\ DOMAIN timers = 1..n
  BY DEF Timed
<1>3. /\ timers' \in Seq(Toasts) /\ DOMAIN timers' = 1..(n + 1)
      /\ \A i \in 1..n: timers'[i] = timers[i]
      /\ timers'[n + 1] = t
  BY <1>1, <1>2, AppendProperties
<1>4. \A i \in 1..n: timers[i] # t
  BY <1>1, <1>2 DEF Timed
<1>5. \A i \in 1..(n + 1): i \in 1..n \/ i = n + 1
  BY <1>2
<1>6. n + 1 \in 1..(n + 1) /\ 1..n \subseteq 1..(n + 1)
  BY <1>2
<1> HIDE DEF n
<1>7. \A i, j \in DOMAIN timers': timers'[i] = timers'[j] => i = j
  <2> SUFFICES ASSUME NEW i \in 1..(n + 1), NEW j \in 1..(n + 1), timers'[i] = timers'[j]
               PROVE  i = j
    BY <1>3
  <2>1. (i \in 1..n \/ i = n + 1) /\ (j \in 1..n \/ j = n + 1)
    BY <1>5
  <2>2. CASE i \in 1..n /\ j \in 1..n
    BY <1>2, <1>3, <2>2 DEF Timed
  <2>3. QED
    BY <1>3, <1>4, <2>1, <2>2
<1>8. \A i \in DOMAIN timers': timers'[i] \notin fresh'
  BY <1>1, <1>2, <1>3, <1>5 DEF Timed
<1>9. \A u \in region': Ticking(u)'
  BY <1>1, <1>2, <1>3, <1>6 DEF Timed, Ticking
<1>10. QED
  BY <1>1, <1>3, <1>7, <1>8, <1>9 DEF Timed

\* The timer that goes off is that of its message, and of no other.
LEMMA TimeUpTimed ==
    ASSUME Timed, TimeUp
    PROVE  /\ Timed'
           /\ \E t \in Toasts: region' = region \ {t} /\ Ticking(t) /\ ~Ticking(t)'
<1> DEFINE n == Len(timers)
           t == timers[1]
<1>1. timers # <<>> /\ timers' = Tail(timers) /\ fresh' = fresh
  BY DEF TimeUp
<1>2. timers \in Seq(Toasts) /\ n \in Nat \ {0} /\ DOMAIN timers = 1..n
  BY <1>1 DEF Timed
<1>3. /\ timers' \in Seq(Toasts) /\ DOMAIN timers' = 1..(n - 1)
      /\ \A i \in 1..(n - 1): timers'[i] = timers[i + 1]
  BY <1>1, <1>2, HeadTailProperties
<1>4. region' = region \ {t}
  BY <1>1, <1>2 DEF TimeUp, Without
<1>5. \A i \in 1..n: i = 1 \/ (i - 1 \in 1..(n - 1) /\ i - 1 + 1 = i)
  BY <1>2
<1>6. \A i \in 1..(n - 1): i + 1 \in 1..n /\ i + 1 # 1
  BY <1>2
<1>7. 1 \in 1..n /\ \A i, j \in 1..(n - 1): i + 1 = j + 1 => i = j
  BY <1>2
<1>8. t \in Toasts
  BY <1>2, <1>7
<1>9. \E i \in DOMAIN timers: timers[i] = t
  BY <1>2, <1>7
<1> HIDE DEF n, t
<1>10. \A i \in 1..(n - 1): timers'[i] # t
  <2>1. \A i \in 1..n: timers[i] = t => i = 1
    BY <1>2, <1>7, Zenon DEF Timed, t
  <2> SUFFICES ASSUME NEW i \in 1..(n - 1)
               PROVE  timers'[i] # t
    OBVIOUS
  <2>2. i + 1 \in 1..n /\ i + 1 # 1 /\ timers'[i] = timers[i + 1]
    BY <1>3, <1>6
  <2>3. QED
    BY <2>1, <2>2, Zenon
<1>11. Ticking(t) /\ ~(\E i \in DOMAIN timers': timers'[i] = t)
  BY <1>3, <1>9, <1>10 DEF Ticking
<1>12. \E u \in Toasts: region' = region \ {u} /\ Ticking(u) /\ ~Ticking(u)'
  <2>1. PICK u \in Toasts: u = t
    BY <1>8
  <2>2. QED
    BY <1>4, <1>11, <2>1 DEF Ticking
<1>13. \A i, j \in DOMAIN timers': timers'[i] = timers'[j] => i = j
  <2> SUFFICES ASSUME NEW i \in 1..(n - 1), NEW j \in 1..(n - 1), timers'[i] = timers'[j]
               PROVE  i = j
    BY <1>3
  <2>1. /\ i + 1 \in DOMAIN timers /\ timers'[i] = timers[i + 1]
        /\ j + 1 \in DOMAIN timers /\ timers'[j] = timers[j + 1]
    BY <1>2, <1>3, <1>6
  <2>2. i + 1 = j + 1
    BY <2>1, Zenon DEF Timed
  <2>3. QED
    BY <1>7, <2>2
<1>14. \A i \in DOMAIN timers': timers'[i] \notin fresh'
  BY <1>1, <1>2, <1>3, <1>6 DEF Timed
<1>15. \A u \in region': Ticking(u)'
  <2> SUFFICES ASSUME NEW u \in region \ {t}
               PROVE  \E i \in 1..(n - 1): timers'[i] = u
    BY <1>3, <1>4 DEF Ticking
  <2>1. PICK i \in 1..n: timers[i] = u
    BY <1>2 DEF Timed, Ticking
  <2>2. i - 1 \in 1..(n - 1) /\ i - 1 + 1 = i
    BY <1>5, <2>1 DEF t
  <2>3. QED
    BY <1>3, <2>1, <2>2
<1>16. QED
  BY <1>1, <1>3, <1>4, <1>12, <1>13, <1>14, <1>15 DEF Timed

LEMMA DismissTimed ==
    ASSUME Timed, NEW t \in Toasts, Dismiss(t)
    PROVE  Timed'
  BY DEF Timed, Dismiss, Without, Ticking

LEMMA TimedStep == Timed /\ [Next]_vars => Timed'
<1> SUFFICES ASSUME Timed, [Next]_vars
             PROVE  Timed'
  OBVIOUS
<1>1. CASE MessagesNext
  BY <1>1, NotifyTimed, DismissTimed, TimeUpTimed DEF MessagesNext
<1>2. CASE NewPage
  BY <1>2, NewPageIsTimed
<1>3. CASE UNCHANGED messageVars
  BY <1>3 DEF messageVars, Timed, Ticking
<1>4. SessionNext \/ Reload \/ Leave \/ UNCHANGED vars => UNCHANGED messageVars
  BY SessionLeavesTheRest DEF Reload, Leave, vars
<1>5. Load => NewPage
  BY DEF Load
<1>6. QED
  BY <1>1, <1>2, <1>3, <1>4, <1>5 DEF Next

\* A message leaves the page by its own button, by its own timer, or with the page.
LEMMA StaysStep ==
    Timed /\ [Next]_vars
        => [\A t \in Toasts:
              Shown(t) => Shown(t)' \/ Dismiss(t) \/ (Ticking(t) /\ ~Ticking(t)')]_messageVars
<1> SUFFICES ASSUME Timed, [Next]_vars, ~UNCHANGED messageVars, NEW t \in Toasts,
                    t \in region, t \notin region'
             PROVE  Dismiss(t) \/ (Ticking(t) /\ ~Ticking(t)')
  BY DEF Shown
<1>1. CASE MessagesNext
  <2>1. ASSUME NEW u \in Toasts, Notify(u)
        PROVE  FALSE
    BY <2>1 DEF Notify
  <2>2. ASSUME NEW u \in Toasts, Dismiss(u)
        PROVE  Dismiss(t)
    BY <2>2 DEF Dismiss, Without
  <2>3. CASE TimeUp
    BY <2>3, TimeUpTimed
  <2>4. QED
    BY <1>1, <2>1, <2>2, <2>3 DEF MessagesNext
<1>2. CASE Load
  <2>1. Ticking(t)
    BY DEF Timed
  <2>2. DOMAIN timers' = {}
    BY <1>2 DEF Load, NewPage
  <2>3. QED
    BY <2>1, <2>2 DEF Ticking
<1>3. SessionNext \/ Reload \/ Leave \/ UNCHANGED vars => UNCHANGED messageVars
  BY SessionLeavesTheRest DEF Reload, Leave, vars
<1>4. QED
  BY <1>1, <1>2, <1>3 DEF Next

\* Whatever messages come and are dismissed beside it, a message stays until its own
\* button or its own timer takes it away.
THEOREM MessagesStayTheirTime == Spec => StaysItsTime
<1>1. Init => Timed
  BY TimedInit DEF Init
<1>2. QED
  BY <1>1, TimedStep, StaysStep, PTL DEF Spec, StaysItsTime

-----------------------------------------------------------------------------
(* Types.  The timeline's follow from Growing: the request that is answered   *)
(* asks with an offset the server's list has.                                *)

LEMMA ShellTypeStep == ShellTypeOK /\ (SidebarNext \/ Load) => ShellTypeOK'
<1> SUFFICES ASSUME ShellTypeOK, SidebarNext \/ Load
             PROVE  ShellTypeOK'
  OBVIOUS
<1>1. ASSUME NEW o \in BOOLEAN, NEW trigger \in Toggles \cup {Nothing}, NEW held \in Elements,
             NEW w \in Widths, SetSidebar(o, trigger, held, w)
      PROVE  ShellTypeOK'
  BY <1>1 DEF SetSidebar, ShellTypeOK, Focused, Elements
<1>2. ASSUME NEW b \in Toggles, Toggle(b)
      PROVE  ShellTypeOK'
  BY <1>1, <1>2 DEF Toggle, ShellTypeOK, Elements
<1>3. CASE FollowExternalLink
  BY <1>1, <1>3 DEF FollowExternalLink, ShellTypeOK, Elements
<1>4. CASE Escape
  BY <1>1, <1>4 DEF Escape, ShellTypeOK
<1>5. CASE Tab
  BY <1>5 DEF Tab, ShellTypeOK
<1>6. CASE Resize
  BY <1>1, <1>6 DEF Resize, ShellTypeOK, Focused, Elements
<1>7. CASE Load
  BY <1>7 DEF Load, ShellTypeOK, Elements
<1>8. QED
  BY <1>2, <1>3, <1>4, <1>5, <1>6, <1>7 DEF SidebarNext

LEMMA NoFramesType == NoFrames \in [items: Seq(1..MaxFrames), total: 0..MaxFrames]
<1>1. <<>> \in Seq(1..MaxFrames) /\ 0 \in 0..MaxFrames
  BY GalleryAssumption
<1>2. QED
  BY <1>1 DEF NoFrames

LEMMA GetFramesType ==
    ASSUME NEW offset \in Nat, NEW n \in 0..MaxFrames, offset <= n
    PROVE  GetFrames(offset, n) \in [items: Seq(1..MaxFrames), total: 0..MaxFrames]
<1>1. /\ GetFrames(offset, n).total = n
      /\ GetFrames(offset, n).items \in Seq(1..MaxFrames)
  BY PageOfFrames
<1>2. GetFrames(offset, n) = [items |-> GetFrames(offset, n).items, total |-> n]
  BY <1>1 DEF GetFrames
<1>3. QED
  BY <1>1, <1>2

LEMMA GalleryTypeStep ==
    GalleryTypeOK /\ Growing /\ Growing' /\ (GalleryNext \/ GalleryReloads) => GalleryTypeOK'
<1> SUFFICES ASSUME GalleryTypeOK, Growing, Growing', GalleryNext \/ GalleryReloads
             PROVE  GalleryTypeOK'
  OBVIOUS
<1>1. /\ frames' \in 0..MaxFrames /\ deleted' \in BOOLEAN
      /\ gallery' \in Seq(1..MaxFrames) /\ galleryOffset' \in Nat
  BY DEF Growing
<1>2. loadMore' \in {"ready", "busy", "removed"} /\ request' \in {"none", "sent", "answered", "lost"}
  BY DEF GalleryTypeOK, GalleryNext, GalleryReloads, FrameArrives, FramesVanish, LoadMore,
         AnswerMore, AddFrames, LoadMoreFails, Button
<1>3. answer' \in [items: Seq(1..MaxFrames), total: 0..MaxFrames]
  <2>1. CASE AnswerMore
    <3>1. gallery # <<>>
      BY <2>1 DEF AnswerMore, Growing
    <3>2. Len(gallery) \in Nat /\ Len(gallery) <= frames
      <4>1. Len(gallery) \in 1..Len(gallery)
        BY <3>1 DEF Growing
      <4>2. gallery[Len(gallery)] \in 1..MaxFrames
        BY <4>1, ElementOfSeq DEF Growing
      <4>3. gallery[Len(gallery)] + Len(gallery) <= frames + 1
        BY <3>1 DEF Growing, EndsWithin
      <4>4. QED
        BY <4>1, <4>2, <4>3, GalleryAssumption DEF Growing
    <3>3. GetFrames(galleryOffset, frames) \in [items: Seq(1..MaxFrames), total: 0..MaxFrames]
      BY <3>2, GetFramesType DEF Growing
    <3>4. QED
      BY <2>1, <3>3, NoFramesType DEF AnswerMore, GalleryTypeOK
  <2>2. CASE ~AnswerMore
    BY <2>2, NoFramesType DEF GalleryTypeOK, GalleryNext, GalleryReloads, FrameArrives,
         FramesVanish, LoadMore, AddFrames, LoadMoreFails
  <2>3. QED
    BY <2>1, <2>2
<1>4. QED
  BY <1>1, <1>2, <1>3 DEF GalleryTypeOK

\* What the session's own steps may do to the page and the session.
SessionTypeOK ==
    /\ use \in Uses
    /\ visit \in {"open", "reloading", "left"}
    /\ server \in Status \cup {"gone"}
    /\ before \in Resting \cup {"none"}
    /\ rendered \in Status \cup {"gone"}
    /\ disabled \subseteq Buttons
    /\ action \in [Actions -> {"none", "sent", "serving", "done", "refused"}]
    /\ hub \in {"none", "joining", "joined", "deaf"}
    /\ message \in BOOLEAN
    /\ polling \in BOOLEAN
    /\ poll \in {"none", "sent", "running", "over"}

\* A step of the lifecycle ends in a status.
LEMMA LifecycleType ==
    ASSUME server \in Status \cup {"gone"}, before \in Resting \cup {"none"},
           Lifecycle!Next \/ Lifecycle!RenderCancelled
    PROVE  server' \in Status /\ before' \in Resting \cup {"none"}
  BY DEF Lifecycle!Next, Lifecycle!Start, Lifecycle!Window, Lifecycle!Complete, Lifecycle!Render,
         Lifecycle!RenderCancelled, Lifecycle!RenderFrom, Lifecycle!Rendered, Lifecycle!Fail, Lifecycle!Pause, Lifecycle!Cancel,
         Lifecycle!Active, Lifecycle!Resting, Status, Active, Resting

LEMMA ActionTypes ==
    ASSUME SessionTypeOK, NEW a \in Actions, Press(a) \/ ActionStep(a)
    PROVE  SessionTypeOK'
<1> USE DEF SessionTypeOK
<1>1. CASE Press(a)
  BY <1>1 DEF Press, serverVars, watchVars
<1>2. CASE Serve(a)
  <2>1. Lifecycle!Next \/ Lifecycle!RenderCancelled
    BY <1>2 DEF Serve, Lifecycle!Next
  <2>2. server' \in Status /\ before' \in Resting \cup {"none"}
    BY <2>1, LifecycleType
  <2>3. QED
    BY <1>2, <2>2 DEF Serve, Sends, Silent, Answered, watchVars
<1>3. CASE Refuse(a)
  BY <1>3 DEF Refuse, Answered, serverVars, watchVars
<1>4. CASE Succeed(a)
  BY <1>4 DEF Succeed, Reloads, serverVars, watchVars
<1>5. CASE Fail(a)
  BY <1>5 DEF Fail, serverVars, watchVars
<1>6. CASE DeletionEnds
  BY <1>6 DEF DeletionEnds, Answered, Silent, serverVars, watchVars
<1>7. CASE RenderingEnds
  <2>1. CASE server = "Rendering"
    <3>1. server' \in Status /\ before' \in Resting \cup {"none"}
      BY <1>7, <2>1, LifecycleType DEF RenderingEnds, Lifecycle!Next
    <3>2. QED
      BY <1>7, <2>1, <3>1 DEF RenderingEnds, Answered, Sends
  <2>2. CASE server # "Rendering"
    BY <1>7, <2>2 DEF RenderingEnds, Answered, serverVars, watchVars
  <2>3. QED
    BY <2>1, <2>2
<1>8. QED
  BY <1>1, <1>2, <1>3, <1>4, <1>5, <1>6, <1>7 DEF ActionStep

LEMMA SessionTypes == SessionTypeOK /\ [Next]_vars => SessionTypeOK'
<1> SUFFICES ASSUME SessionTypeOK, [Next]_vars
             PROVE  SessionTypeOK'
  OBVIOUS
<1> USE DEF SessionTypeOK
<1>1. ASSUME NEW a \in Actions, Press(a) \/ ActionStep(a)
      PROVE  SessionTypeOK'
  BY <1>1, ActionTypes
<1>2. CASE ServerMoves
  <2>1. server' \in Status /\ before' \in Resting \cup {"none"}
    BY <1>2, LifecycleType DEF ServerMoves, Lifecycle!Next
  <2>2. QED
    BY <1>2, <2>1 DEF ServerMoves, Sends, Silent, pageVars, watchVars
<1>3. CASE ServerDeletes
  BY <1>3 DEF ServerDeletes, pageVars, watchVars
<1>4. CASE HubStep \/ MessageArrives
  BY <1>4 DEF HubStep, MessageArrives, Reloads, serverVars, pageVars
<1>5. CASE PollSends \/ PollAnswered \/ PollFails \/ PollArrives
  BY <1>5 DEF PollSends, PollAnswered, PollFails, PollArrives, Reloads, serverVars, pageVars
<1>6. CASE UNCHANGED <<use, serverVars, pageVars, watchVars>>
  BY <1>6 DEF serverVars, pageVars, watchVars
<1>7. CASE Reload \/ Leave
  BY <1>7 DEF Reload, Leave, Reloads, serverVars, watchVars
<1>8. CASE Load
  <2>1. /\ visit' = "open" /\ rendered' = server /\ disabled' = {}
        /\ action' = [a \in Actions |-> "none"]
        /\ Watching(server)
        /\ UNCHANGED <<use, server, before>>
    BY <1>8 DEF Load, serverVars
  <2>2. polling' \in BOOLEAN
    <3>1. polling' = (server \in Active)
      BY <2>1 DEF Watching
    <3>2. (server \in Active) \in BOOLEAN
      OBVIOUS
    <3>3. QED
      BY <3>1, <3>2, Zenon
  <2>3. hub' \in {"none", "joining"} /\ message' = FALSE /\ poll' = "none"
    BY <2>1 DEF Watching
  <2>4. QED
    BY <2>1, <2>2, <2>3
<1>9. UNCHANGED vars => UNCHANGED <<use, serverVars, pageVars, watchVars>>
  BY DEF vars
<1>10. QED
  BY <1>1, <1>2, <1>3, <1>4, <1>5, <1>6, <1>7, <1>8, <1>9 DEF Next, SessionNext

LEMMA TypesInit == Init => TypeOK
<1> SUFFICES ASSUME Init
             PROVE  TypeOK
  OBVIOUS
<1>1. ShellTypeOK
  BY DEF Init, ShellInit, ShellTypeOK, Elements
<1>2. GalleryTypeOK
  <2>1. Growing
    BY GrowingInit DEF Init
  <2>2. loadMore \in {"ready", "removed"} /\ request = "none" /\ answer = NoFrames
    BY DEF Init, GalleryInit, Button
  <2>3. QED
    BY <2>1, <2>2, NoFramesType DEF Growing, GalleryTypeOK
<1>3. server \in Status
  BY DEF Init, Status, Active
<1>4. polling \in BOOLEAN
  <2>1. polling = (server \in Active)
    BY DEF Init
  <2>2. (server \in Active) \in BOOLEAN
    OBVIOUS
  <2>3. QED
    BY <2>1, <2>2, Zenon
<1>5. hub \in {"none", "joining"} /\ message = FALSE /\ poll = "none"
  BY DEF Init
<1>6. /\ use \in Uses /\ visit = "open" /\ before = "none" /\ rendered = server /\ disabled = {}
      /\ action = [a \in Actions |-> "none"]
  BY DEF Init
<1>7. QED
  BY <1>1, <1>2, <1>3, <1>4, <1>5, <1>6 DEF TypeOK

\* The page, its timeline, its sidebar and the session keep their types, with any
\* number of frames, messages and actions.
THEOREM PageTypeCorrect == Spec => []TypeOK
<1>1. TypeOK <=> ShellTypeOK /\ GalleryTypeOK /\ SessionTypeOK
  BY DEF TypeOK, SessionTypeOK
<1>2. TypeOK /\ Growing /\ Growing' /\ [Next]_vars => TypeOK'
  <2> SUFFICES ASSUME TypeOK, Growing, Growing', [Next]_vars
               PROVE  ShellTypeOK' /\ GalleryTypeOK'
    BY <1>1, SessionTypes DEF TypeOK, SessionTypeOK
  <2>1. UNCHANGED shellVars => ShellTypeOK'
    BY <1>1 DEF shellVars, ShellTypeOK
  <2>2. UNCHANGED galleryVars => GalleryTypeOK'
    BY <1>1 DEF galleryVars, GalleryTypeOK
  <2>3. SessionNext \/ Reload \/ Leave \/ UNCHANGED vars => UNCHANGED <<shellVars, galleryVars>>
    BY SessionLeavesTheRest DEF Reload, Leave, vars
  <2>4. Load => GalleryReloads
    BY DEF Load
  <2>5. QED
    BY <1>1, <2>1, <2>2, <2>3, <2>4, ShellTypeStep, GalleryTypeStep DEF Next
<1>3. Spec => []Growing
  BY PageImplementsTimeline, AlwaysGrowing, PTL
<1>4. QED
  BY <1>2, <1>3, TypesInit, PTL DEF Spec

=============================================================================
