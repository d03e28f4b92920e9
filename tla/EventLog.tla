------------------------------ MODULE EventLog ------------------------------
(***************************************************************************)
(* FrameCatalogService: one session's activity log (events.jsonl), written *)
(* by capture loops and requests, read from its end by anybody, and the    *)
(* line count that is kept so that a reader need not scan the file.        *)
(*                                                                         *)
(* Writers queue for the session's semaphore.  Readers take no lock: a     *)
(* reader sees the file as it was when it was opened, whatever is appended *)
(* meanwhile, and then stores the count it found over whatever count is    *)
(* there.  A line reaches the file in one write or in two.                 *)
(***************************************************************************)
EXTENDS Integers, Sequences, FiniteSets

CONSTANTS
    Events,     \* events to log, each once
    Writers,    \* appends that may be under way at once (bound)
    Readers,    \* reads that may be under way at once (bound)
    Limits,     \* how many events readers ask for
    NoEvent     \* what is on a malformed line

ASSUME LogAssumption == NoEvent \notin Events /\ Limits \subseteq Nat \ {0}

VARIABLES
    lines,      \* the file's non-blank lines: an event, or NoEvent
    ended,      \* the last line has its newline
    length,     \* the file's length, in writes
    index,      \* the cached EventLogIndex
    writer,     \* the append each writer is at
    reader,     \* the read each reader is at
    seen,       \* events that have been given to an append
    logged,     \* events whose append has returned
    given       \* what readers were told: events with their sequence numbers

file == <<lines, ended, length>>
vars == <<file, index, writer, reader, seen, logged, given>>

Idle == [at |-> "none"]
NoIndex == [length |-> -1, count |-> 0]
Indexes == [length: Nat \cup {-1}, count: Nat]
Lines == Seq(Events \cup {NoEvent})

TypeOK ==
    /\ lines \in Lines
    /\ ended \in BOOLEAN
    /\ length \in Nat
    /\ index \in Indexes
    /\ \A w \in Writers: writer[w] # Idle =>
          writer[w] \in [at: {"lock", "write", "rest", "look", "store"}, event: Events,
                         before: Nat, line: Nat, found: Indexes]
    /\ \A r \in Readers: reader[r] # Idle =>
          reader[r] \in [at: {"peek", "scan"}, limit: Limits, lines: Lines, length: Nat,
                         found: Indexes, logged: SUBSET Events]
    /\ logged \subseteq seen /\ seen \subseteq Events
    /\ given \subseteq Events \X Int

-----------------------------------------------------------------------------
(* AppendEventAsync.                                                         *)

\* Events are told apart: each is given to one append.
Call(w, e) ==
    /\ writer[w] = Idle
    /\ e \notin seen
    /\ seen' = seen \cup {e}
    /\ writer' = [writer EXCEPT ![w] = [at |-> "lock", event |-> e, before |-> 0,
                                        line |-> 0, found |-> NoIndex]]
    /\ UNCHANGED <<file, index, reader, logged, given>>

\* Mutant: without the session's semaphore.
EnterUnlocked(w) ==
    /\ writer[w].at = "lock"
    /\ writer' = [writer EXCEPT ![w].at = "write", ![w].before = length]
    /\ UNCHANGED <<file, index, reader, seen, logged, given>>

\* The semaphore is entered, and the file's length noted.
Enter(w) ==
    /\ writer[w].at = "lock"
    /\ \A v \in Writers: writer[v].at \in {"none", "lock"}
    /\ writer' = [writer EXCEPT ![w].at = "write", ![w].before = length]
    /\ UNCHANGED <<file, index, reader, seen, logged, given>>

\* A write goes on a line of its own, or spoils a last line that has no newline.
OwnLine == ended \/ lines = <<>>

AppendText(content, newline) ==
    /\ lines' = IF OwnLine THEN Append(lines, content)
                           ELSE [lines EXCEPT ![Len(lines)] = NoEvent]
    /\ ended' = newline
    /\ length' = length + 1

WriteLine(w) ==
    /\ writer[w].at = "write"
    /\ AppendText(writer[w].event, TRUE)
    /\ writer' = [writer EXCEPT ![w].at = "look"]
    /\ UNCHANGED <<index, reader, seen, logged, given>>

\* The first part of a long line may already be all of the event.
WritePart(w) ==
    /\ writer[w].at = "write"
    /\ \E content \in {writer[w].event, NoEvent}: AppendText(content, FALSE)
    /\ writer' = [writer EXCEPT ![w].at = "rest",
                                ![w].line = IF OwnLine THEN Len(lines) + 1 ELSE 0]
    /\ UNCHANGED <<index, reader, seen, logged, given>>

WriteRest(w) ==
    /\ writer[w].at = "rest"
    /\ IF ~ended /\ writer[w].line = Len(lines)
       THEN /\ lines' = [lines EXCEPT ![Len(lines)] = writer[w].event]
            /\ ended' = TRUE
            /\ length' = length + 1
       ELSE AppendText(NoEvent, TRUE)
    /\ writer' = [writer EXCEPT ![w].at = "look"]
    /\ UNCHANGED <<index, reader, seen, logged, given>>

\* The index that is cached, if there is one, is looked up ...
LookUp(w) ==
    /\ writer[w].at = "look"
    /\ writer' = [writer EXCEPT ![w].at = "store", ![w].found = index]
    /\ UNCHANGED <<file, index, reader, seen, logged, given>>

\* One line more, if the count was that of the file before the append.
NextIndex(found, before) ==
    IF found.length = before THEN [length |-> length, count |-> found.count + 1] ELSE index

\* ... and replaced by one that is a line longer; the semaphore is released.
Store(w) ==
    /\ writer[w].at = "store"
    /\ index' = NextIndex(writer[w].found, writer[w].before)
    /\ writer' = [writer EXCEPT ![w] = Idle]
    /\ logged' = logged \cup {writer[w].event}
    /\ UNCHANGED <<file, reader, seen, given>>

\* The append fails, or its token is cancelled, before anything is written.
GiveUp(w) ==
    /\ writer[w].at \in {"lock", "write"}
    /\ writer' = [writer EXCEPT ![w] = Idle]
    /\ UNCHANGED <<file, index, reader, seen, logged, given>>

\* It fails in the middle of the line: a full disk, or a cancelled token.
Tear(w) ==
    /\ writer[w].at = "rest"
    /\ writer' = [writer EXCEPT ![w] = Idle]
    /\ UNCHANGED <<file, index, reader, seen, logged, given>>

-----------------------------------------------------------------------------
(* GetEventRecordsAsync.                                                     *)

\* The file is opened, if it exists; its length decides what the reader sees.
Open(r, limit) ==
    /\ reader[r] = Idle
    /\ lines # <<>>
    /\ reader' = [reader EXCEPT ![r] = [at |-> "peek", limit |-> limit, lines |-> lines,
                        length |-> length, found |-> NoIndex, logged |-> logged]]
    /\ UNCHANGED <<file, index, writer, seen, logged, given>>

\* A cached index counts only at the length that was seen.
Peek(r) ==
    /\ reader[r].at = "peek"
    /\ reader' = [reader EXCEPT ![r].at = "scan",
                    ![r].found = IF index.length = reader[r].length THEN index ELSE NoIndex]
    /\ UNCHANGED <<file, index, writer, seen, logged, given>>

\* Mutant: malformed lines take part.
SelectedMalformed(text, limit) ==
    {i \in DOMAIN text: Cardinality({j \in DOMAIN text: j > i}) < limit}

\* The scan from the end: the last `limit` lines that hold an event.
Selected(text, limit) ==
    LET valid == {i \in DOMAIN text: text[i] # NoEvent}
    IN  {i \in valid: Cardinality({j \in valid: j > i}) < limit}

HasIndex(r) == reader[r].found # NoIndex

\* Mutant: the cached count is used whatever length it was taken at.
TotalUnchecked(r) == IF index # NoIndex THEN index.count ELSE Len(reader[r].lines)

TotalNonBlank(r) == IF HasIndex(r) THEN reader[r].found.count ELSE Len(reader[r].lines)

\* Numbered from the total backwards; the scan knows a line's distance from the end.
Sequence(r, i) ==
    LET fromEnd == Len(reader[r].lines) - i + 1
    IN  TotalNonBlank(r) - fromEnd + 1

Answer(r) ==
    /\ reader[r].at = "scan"
    /\ given' = given \cup {<<reader[r].lines[i], Sequence(r, i)>>:
                            i \in Selected(reader[r].lines, reader[r].limit)}
    /\ index' = IF HasIndex(r) THEN index
                ELSE [length |-> reader[r].length, count |-> Len(reader[r].lines)]
    /\ reader' = [reader EXCEPT ![r] = Idle]
    /\ UNCHANGED <<file, writer, seen, logged>>

-----------------------------------------------------------------------------
\* The process dies between appends' writes and starts again: the file is there.
Restart ==
    /\ \A w \in Writers: writer[w].at # "rest"
    /\ index' = NoIndex
    /\ writer' = [w \in Writers |-> Idle]
    /\ reader' = [r \in Readers |-> Idle]
    /\ UNCHANGED <<file, seen, logged, given>>

\* There may be a malformed line from before.
Init ==
    /\ lines \in {<<>>, <<NoEvent>>}
    /\ ended = TRUE
    /\ length = Len(lines)
    /\ index = NoIndex
    /\ writer = [w \in Writers |-> Idle]
    /\ reader = [r \in Readers |-> Idle]
    /\ seen = {}
    /\ logged = {}
    /\ given = {}

Next ==
    \/ \E w \in Writers:
          \/ \E e \in Events: Call(w, e)
          \/ Enter(w) \/ WriteLine(w) \/ WritePart(w) \/ WriteRest(w)
          \/ LookUp(w) \/ Store(w) \/ GiveUp(w)
    \/ \E r \in Readers:
          \/ \E limit \in Limits: Open(r, limit)
          \/ Peek(r) \/ Answer(r)
    \/ Restart

Spec == Init /\ [][Next]_vars

\* The same log when appends can fail in the middle of a line: the next event is
\* glued to the torn one, and StableSequence does not hold.
TornSpec == Init /\ [][Next \/ \E w \in Writers: Tear(w)]_vars

-----------------------------------------------------------------------------
\* "Physical nonblank line numbers form its stable sequence, so a malformed
\* historic line leaves a gap rather than changing all later event IDs"
\* (docs/ARCHITECTURE.md): readers are never told two numbers for an event, or two
\* events for a number, with or without the cached count, before or after a restart.
StableSequence ==
    \A p, q \in given: p[1] = q[1] <=> p[2] = q[2]

\* What an append has confirmed, every later read answers, unless it is full of
\* other events: no append spoils the line of another.
LoggedIsRead ==
    \A r \in Readers: reader[r] # Idle =>
        LET selected == Selected(reader[r].lines, reader[r].limit)
        IN  \/ Cardinality(selected) = reader[r].limit
            \/ reader[r].logged \subseteq {reader[r].lines[i]: i \in selected}
=============================================================================
