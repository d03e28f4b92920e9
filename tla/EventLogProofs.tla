--------------------------- MODULE EventLogProofs ---------------------------
(***************************************************************************)
(* The sequence numbers of EventLog are stable, and what an append has     *)
(* confirmed is read, for any number of events, writers and readers, as    *)
(* long as no append fails in the middle of a line.                        *)
(***************************************************************************)
EXTENDS EventLog, FiniteSetTheorems, FunctionTheorems, SequenceTheorems, TLAPS

-----------------------------------------------------------------------------
(* Types.                                                                    *)

WriterStates == [at: {"lock", "write", "rest", "look", "store"}, event: Events,
                 before: Nat, line: Nat, found: Indexes]

ReaderStates == [at: {"peek", "scan"}, limit: Limits, lines: Lines, length: Nat,
                 found: Indexes, logged: SUBSET Events]

Typed ==
    /\ lines \in Lines
    /\ ended \in BOOLEAN
    /\ length \in Nat
    /\ index \in Indexes
    /\ writer \in [Writers -> WriterStates \cup {Idle}]
    /\ reader \in [Readers -> ReaderStates \cup {Idle}]
    /\ logged \subseteq seen
    /\ seen \subseteq Events
    /\ given \subseteq Events \X Int

-----------------------------------------------------------------------------
(* The inductive invariant.                                                  *)

\* The semaphore: one append at a time is past "lock", and no two have one event.
Alone ==
    \A v, w \in Writers: v # w /\ writer[v].at # "none" /\ writer[w].at # "none" =>
        /\ writer[v].event # writer[w].event
        /\ writer[v].at = "lock" \/ writer[w].at = "lock"

\* The file: an event is on one line, and the last line ends unless it is being
\* written.
Written ==
    /\ \A i, j \in DOMAIN lines: lines[i] # NoEvent /\ lines[i] = lines[j] => i = j
    /\ \A i \in DOMAIN lines: lines[i] # NoEvent => lines[i] \in seen
    /\ ended \/ \E w \in Writers: writer[w].at = "rest"
    /\ \A e \in logged: \E i \in DOMAIN lines: lines[i] = e

\* How far an append is, and what of its event is in the file.
Placed ==
    \A w \in Writers:
        /\ writer[w].at # "none" => writer[w].event \in seen
        /\ writer[w].at \in {"lock", "write"} =>
              \A i \in DOMAIN lines: lines[i] # writer[w].event
        /\ writer[w].at = "rest" =>
              /\ ~ended
              /\ lines # <<>>
              /\ writer[w].line = Len(lines)
              /\ lines[Len(lines)] \in {writer[w].event, NoEvent}
              /\ \A i \in DOMAIN lines: lines[i] = writer[w].event => i = Len(lines)
        /\ writer[w].at \in {"look", "store"} =>
              \E i \in DOMAIN lines: lines[i] = writer[w].event

\* What a reader opened is the beginning of the file, but for a line that was being
\* written; and what it was told is where it still stands.
Prefix ==
    /\ \A r \in Readers: reader[r].at # "none" =>
          /\ Len(reader[r].lines) <= Len(lines)
          /\ \A i \in DOMAIN reader[r].lines:
                reader[r].lines[i] # NoEvent => lines[i] = reader[r].lines[i]
          /\ \A e \in reader[r].logged:
                \E i \in DOMAIN reader[r].lines: reader[r].lines[i] = e
    /\ \A p \in given: p[2] \in DOMAIN lines /\ lines[p[2]] = p[1]

\* How many lines a text has (an operator of its own, so that the provers do not
\* reason about sequences where only the number matters).
Size(text) == Len(text)

\* The counts: whoever has seen the file at some length knows how many lines it had
\* then.  f says how many, for every length.
SeenCounts(f) ==
    /\ f[-1] = 0
    /\ index.length <= length /\ f[index.length] = index.count
    /\ \A r \in Readers: reader[r].at # "none" =>
          /\ reader[r].length <= length
          /\ f[reader[r].length] = Size(reader[r].lines)
          /\ reader[r].found.length \in {-1, reader[r].length}
          /\ f[reader[r].found.length] = reader[r].found.count

\* The append under way remembers the file as it was before its line.
AppendCounts(f) ==
    \A w \in Writers:
        /\ writer[w].at = "write" => writer[w].before = length
        /\ writer[w].at \in {"rest", "look", "store"} =>
              writer[w].before < length /\ f[writer[w].before] + 1 = Size(lines)
        /\ writer[w].at = "store" =>
              writer[w].found.length <= length
              /\ f[writer[w].found.length] = writer[w].found.count

Counts(f) == f[length] = Size(lines) /\ SeenCounts(f) /\ AppendCounts(f)

Counted == \E f \in [Int -> Int]: Counts(f)

Recorded == Typed /\ Alone /\ Written /\ Placed /\ Prefix /\ Counted

\* A step of an append changes its own record only.
Becomes(w, s) ==
    /\ writer' = [writer EXCEPT ![w] = s]
    /\ s \in WriterStates \cup {Idle}

LEMMA BecomesTyped ==
    ASSUME Typed, NEW w \in Writers, NEW s, Becomes(w, s)
    PROVE  /\ writer' \in [Writers -> WriterStates \cup {Idle}]
           /\ writer'[w] = s
           /\ \A v \in Writers: v # w => writer'[v] = writer[v]
  BY DEF Typed, Becomes

LEMMA WriterTypes ==
    ASSUME Typed
    PROVE  /\ \A w \in Writers: writer[w].at # "none" <=> writer[w] \in WriterStates
           /\ \A r \in Readers: reader[r].at # "none" <=> reader[r] \in ReaderStates
           /\ \A r \in Readers: reader[r] # Idle => reader[r] \in ReaderStates
           /\ \A w \in Writers: writer[w].at \in {"none", "lock", "write", "rest", "look", "store"}
           /\ \A r \in Readers: reader[r].at \in {"none", "peek", "scan"}
  BY DEF Typed, WriterStates, ReaderStates, Idle

LEMMA NoIndexType == NoIndex \in Indexes
  BY DEF NoIndex, Indexes

-----------------------------------------------------------------------------
(* Appends.                                                                  *)

LEMMA CallRecorded ==
    ASSUME Recorded, NEW w \in Writers, NEW e \in Events, Call(w, e)
    PROVE  Recorded'
<1> DEFINE s == [at |-> "lock", event |-> e, before |-> 0, line |-> 0, found |-> NoIndex]
<1> USE DEF Recorded
<1>1. s \in WriterStates
  BY NoIndexType DEF WriterStates
<1>2. /\ writer[w] = Idle /\ e \notin seen /\ seen' = seen \cup {e}
      /\ UNCHANGED <<lines, ended, length, index, reader, logged, given>>
      /\ Becomes(w, s)
  BY <1>1 DEF Call, Becomes, file
<1>3. /\ writer' \in [Writers -> WriterStates \cup {Idle}]
      /\ writer'[w] = s
      /\ \A v \in Writers: v # w => writer'[v] = writer[v]
  BY <1>2, BecomesTyped
<1>4. writer'[w].at = "lock" /\ writer'[w].event = e
  BY <1>3
<1> HIDE DEF s
<1>5. writer[w].at = "none"
  BY <1>2 DEF Idle
<1>6. Typed'
  BY <1>2, <1>3 DEF Typed
<1>7. Alone'
  BY <1>2, <1>3, <1>4 DEF Alone, Placed
<1>8. Written'
  BY <1>2, <1>3, <1>5 DEF Written
<1>9. Placed'
  <2>1. \A i \in DOMAIN lines: lines[i] # e
    BY <1>2, LogAssumption DEF Written
  <2>2. QED
    BY <1>2, <1>3, <1>4, <2>1 DEF Placed
<1>10. Prefix'
  BY <1>2 DEF Prefix
<1>11. Counted'
  <2>1. PICK f \in [Int -> Int]: Counts(f)
    BY DEF Counted
  <2>2. Counts(f)'
    BY <1>2, <1>3, <1>4, <2>1 DEF Counts, SeenCounts, AppendCounts
  <2>3. QED
    BY <2>2 DEF Counted
<1>12. QED
  BY <1>6, <1>7, <1>8, <1>9, <1>10, <1>11

LEMMA EnterRecorded ==
    ASSUME Recorded, NEW w \in Writers, Enter(w)
    PROVE  Recorded'
<1> DEFINE s == [writer[w] EXCEPT !.at = "write", !.before = length]
<1> USE DEF Recorded
<1>1. writer[w] \in WriterStates /\ writer[w].at = "lock"
  BY WriterTypes DEF Enter
<1>2. s \in WriterStates
  BY <1>1 DEF WriterStates, Typed
<1>3. /\ UNCHANGED <<lines, ended, length, index, reader, seen, logged, given>>
      /\ Becomes(w, s)
      /\ \A v \in Writers: writer[v].at \in {"none", "lock"}
  BY <1>2 DEF Enter, Becomes, file
<1>4. /\ writer' \in [Writers -> WriterStates \cup {Idle}]
      /\ writer'[w] = s
      /\ \A v \in Writers: v # w => writer'[v] = writer[v]
  BY <1>3, BecomesTyped
<1>5. writer'[w].at = "write" /\ writer'[w].event = writer[w].event /\ writer'[w].before = length
  BY <1>1, <1>4 DEF WriterStates
<1> HIDE DEF s
<1>6. Typed'
  BY <1>3, <1>4 DEF Typed
<1>7. Alone'
  BY <1>1, <1>3, <1>4, <1>5 DEF Alone
<1>8. Written'
  BY <1>3, <1>4 DEF Written
<1>9. Placed'
  BY <1>1, <1>3, <1>4, <1>5 DEF Placed
<1>10. Prefix'
  BY <1>3 DEF Prefix
<1>11. Counted'
  <2>1. PICK f \in [Int -> Int]: Counts(f)
    BY DEF Counted
  <2>2. Counts(f)'
    BY <1>3, <1>4, <1>5, <2>1 DEF Counts, SeenCounts, AppendCounts
  <2>3. QED
    BY <2>2 DEF Counted
<1>12. QED
  BY <1>6, <1>7, <1>8, <1>9, <1>10, <1>11

\* A write makes the file longer than anybody has seen it, so what it does to the
\* number of lines contradicts nobody.
LEMMA WriteCounts ==
    ASSUME Typed, NEW f \in [Int -> Int], SeenCounts(f),
           length' = length + 1, NEW n \in Nat, UNCHANGED <<index, reader>>
    PROVE  \E g \in [Int -> Int]: /\ SeenCounts(g)'
                                  /\ g[length'] = n
                                  /\ \A k \in Int: k <= length => g[k] = f[k]
<1>1. length \in Nat
  BY DEF Typed
<1>2. PICK g \in [Int -> Int]: g[length + 1] = n /\ \A k \in Int: k <= length => g[k] = f[k]
  <2> DEFINE h == [f EXCEPT ![length + 1] = n]
  <2>1. h \in [Int -> Int] /\ h[length + 1] = n /\ \A k \in Int: k <= length => h[k] = f[k]
    BY <1>1
  <2>2. QED
    BY <2>1
<1>3. g[-1] = 0
  BY <1>1, <1>2 DEF SeenCounts
<1>4. index.length <= length' /\ g[index.length] = index.count
  <2>1. index.length \in Int /\ index.length <= length /\ f[index.length] = index.count
    BY DEF SeenCounts, Typed, Indexes
  <2>2. QED
    BY <1>1, <1>2, <2>1
<1>5. ASSUME NEW r \in Readers, reader[r].at # "none"
      PROVE  /\ reader[r].length <= length'
             /\ g[reader[r].length] = Size(reader[r].lines)
             /\ reader[r].found.length \in {-1, reader[r].length}
             /\ g[reader[r].found.length] = reader[r].found.count
  <2>1. reader[r] \in ReaderStates
    BY <1>5, WriterTypes
  <2>2. reader[r].length \in Int /\ reader[r].found.length \in Int
    BY <2>1 DEF ReaderStates, Indexes
  <2>3. /\ reader[r].length <= length
        /\ f[reader[r].length] = Size(reader[r].lines)
        /\ reader[r].found.length \in {-1, reader[r].length}
        /\ f[reader[r].found.length] = reader[r].found.count
    BY <1>5 DEF SeenCounts
  <2>4. reader[r].found.length <= length
    BY <1>1, <2>3
  <2>5. QED
    BY <1>1, <1>2, <2>2, <2>3, <2>4
<1>6. SeenCounts(g)'
  BY <1>3, <1>4, <1>5 DEF SeenCounts
<1>7. QED
  BY <1>2, <1>6

\* While an append writes, no other one is past "lock", and the last line is whole.
LEMMA WritesAlone ==
    ASSUME Recorded, NEW w \in Writers, writer[w].at \in {"write", "rest", "look", "store"}
    PROVE  /\ \A v \in Writers: v # w => writer[v].at \in {"none", "lock"}
           /\ writer[w].at # "rest" => ended
  BY WriterTypes DEF Recorded, Alone, Written

\* A write that begins a line, whatever of the event it already holds.
LEMMA BeginsLine ==
    ASSUME Recorded, NEW w \in Writers, writer[w].at = "write",
           NEW content \in {writer[w].event, NoEvent}, NEW newline \in BOOLEAN,
           AppendText(content, newline),
           NEW s \in WriterStates, Becomes(w, s), NEW n \in Nat, n = Size(lines),
           s.event = writer[w].event, s.before = length,
           \/ s.at = "look" /\ newline /\ content = writer[w].event
           \/ s.at = "rest" /\ ~newline /\ s.line = n + 1,
           UNCHANGED <<index, reader, seen, logged, given>>
    PROVE  Recorded'
<1> USE DEF Recorded
<1>1. writer[w] \in WriterStates /\ writer[w].event \in Events /\ writer[w].before = length
  <2>1. writer[w] \in WriterStates
    BY WriterTypes
  <2>2. writer[w].before = length
    BY DEF Counted, Counts, AppendCounts
  <2>3. QED
    BY <2>1, <2>2 DEF WriterStates
<1>2. /\ writer' \in [Writers -> WriterStates \cup {Idle}]
      /\ writer'[w] = s
      /\ \A v \in Writers: v # w => writer'[v] = writer[v]
  BY BecomesTyped
<1>3. ended /\ \A v \in Writers: v # w => writer[v].at \in {"none", "lock"}
  BY WritesAlone
<1>4. lines \in Seq(Events \cup {NoEvent}) /\ DOMAIN lines = 1..n /\ n = Len(lines)
  BY DEF Typed, Lines, Size
<1>5. lines' = Append(lines, content) /\ ended' = newline /\ length' = length + 1
  BY <1>3 DEF AppendText, OwnLine
<1>6. /\ lines' \in Lines /\ DOMAIN lines' = 1..(n + 1)
      /\ Len(lines') = n + 1 /\ Size(lines') = n + 1
      /\ \A i \in 1..n: lines'[i] = lines[i]
      /\ lines'[n + 1] = content
      /\ lines' # <<>>
  BY <1>1, <1>4, <1>5, AppendProperties DEF Lines, Size
<1>7. /\ \A i \in 1..(n + 1): i \in 1..n \/ i = n + 1
      /\ 1..n \subseteq 1..(n + 1) /\ n + 1 \in 1..(n + 1) /\ n + 1 \notin 1..n
  BY <1>4
<1>8. /\ \A i \in 1..n: lines[i] # writer[w].event
      /\ writer[w].event \in seen
  BY <1>4 DEF Placed
<1>9. Typed'
  BY <1>2, <1>5, <1>6 DEF Typed
<1>10. Alone'
  BY <1>2, <1>3, WriterTypes DEF Alone
<1>11. Written'
  <2>1. \A i, j \in DOMAIN lines': lines'[i] # NoEvent /\ lines'[i] = lines'[j] => i = j
    <3> SUFFICES ASSUME NEW i \in 1..(n + 1), NEW j \in 1..(n + 1),
                        lines'[i] # NoEvent, lines'[i] = lines'[j]
                 PROVE  i = j
      BY <1>6
    <3>1. CASE i \in 1..n /\ j \in 1..n
      BY <1>4, <1>6, <3>1 DEF Written
    <3>2. CASE i = n + 1 \/ j = n + 1
      <4>1. content = writer[w].event
        BY <1>6, <3>2
      <4>2. QED
        BY <1>6, <1>7, <1>8, <3>2, <4>1
    <3>3. QED
      BY <1>7, <3>1, <3>2
  <2>2. \A i \in DOMAIN lines': lines'[i] # NoEvent => lines'[i] \in seen'
    BY <1>4, <1>6, <1>7, <1>8 DEF Written
  <2>3. ended' \/ \E v \in Writers: writer'[v].at = "rest"
    BY <1>2, <1>5
  <2>4. \A e \in logged': \E i \in DOMAIN lines': lines'[i] = e
    BY <1>4, <1>6, <1>7 DEF Written
  <2>5. QED
    BY <2>1, <2>2, <2>3, <2>4 DEF Written
<1>12. Placed'
  <2> SUFFICES ASSUME NEW v \in Writers
               PROVE  /\ writer'[v].at # "none" => writer'[v].event \in seen
                      /\ writer'[v].at \in {"lock", "write"} =>
                            \A i \in DOMAIN lines': lines'[i] # writer'[v].event
                      /\ writer'[v].at = "rest" =>
                            /\ ~ended'
                            /\ lines' # <<>>
                            /\ writer'[v].line = Len(lines')
                            /\ lines'[Len(lines')] \in {writer'[v].event, NoEvent}
                            /\ \A i \in DOMAIN lines': lines'[i] = writer'[v].event => i = Len(lines')
                      /\ writer'[v].at \in {"look", "store"} =>
                            \E i \in DOMAIN lines': lines'[i] = writer'[v].event
    BY DEF Placed
  <2>1. CASE v = w
    BY <1>2, <1>5, <1>6, <1>7, <1>8, <2>1
  <2>2. CASE v # w
    <3>1. writer'[v] = writer[v] /\ writer[v].at \in {"none", "lock"}
      BY <1>2, <1>3, <2>2
    <3>2. CASE writer[v].at = "none"
      BY <3>1, <3>2
    <3>3. CASE writer[v].at = "lock"
      <4>1. /\ writer[v].event \in seen /\ writer[v].event # writer[w].event
            /\ \A i \in 1..n: lines[i] # writer[v].event
        BY <1>4, <2>2, <3>3 DEF Placed, Alone
      <4>2. writer[v].event # NoEvent
        BY <4>1, LogAssumption DEF Typed
      <4>3. QED
        BY <1>6, <1>7, <3>1, <3>3, <4>1, <4>2
    <3>4. QED
      BY <3>1, <3>2, <3>3
  <2>3. QED
    BY <2>1, <2>2
<1>13. Prefix'
  <2>1. ASSUME NEW r \in Readers, reader[r].at # "none"
        PROVE  /\ Len(reader[r].lines) <= Len(lines')
               /\ \A i \in DOMAIN reader[r].lines:
                     reader[r].lines[i] # NoEvent => lines'[i] = reader[r].lines[i]
    <3>1. reader[r].lines \in Lines
      BY <2>1, WriterTypes DEF ReaderStates
    <3>2. Len(reader[r].lines) \in Nat /\ DOMAIN reader[r].lines = 1..Len(reader[r].lines)
      BY <3>1 DEF Lines
    <3>3. Len(reader[r].lines) <= n
      BY <1>4, <2>1 DEF Prefix
    <3>4. 1..Len(reader[r].lines) \subseteq 1..n
      BY <1>4, <3>2, <3>3
    <3>5. QED
      BY <1>4, <1>6, <2>1, <3>2, <3>3, <3>4 DEF Prefix
  <2>2. \A p \in given: p[2] \in DOMAIN lines' /\ lines'[p[2]] = p[1]
    BY <1>4, <1>6, <1>7 DEF Prefix
  <2>3. QED
    BY <2>1, <2>2 DEF Prefix
<1>14. Counted'
  <2>1. PICK f \in [Int -> Int]: Counts(f)
    BY DEF Counted
  <2>2. PICK g \in [Int -> Int]: /\ SeenCounts(g)'
                                 /\ g[length'] = n + 1
                                 /\ \A k \in Int: k <= length => g[k] = f[k]
    <3>1. n + 1 \in Nat
      OBVIOUS
    <3>2. length' = length + 1
      BY <1>5
    <3>3. SeenCounts(f)
      BY <2>1 DEF Counts
    <3>4. QED
      BY <3>1, <3>2, <3>3, WriteCounts
  <2>3. length \in Int /\ length <= length /\ length < length'
    BY <1>5 DEF Typed
  <2>4. g[length] = n
    BY <1>4, <2>1, <2>2, <2>3 DEF Counts
  <2>5. AppendCounts(g)'
    BY <1>2, <1>3, <1>6, <2>3, <2>4 DEF AppendCounts
  <2>6. Counts(g)'
    BY <1>6, <2>2, <2>5 DEF Counts
  <2>7. QED
    BY <2>6 DEF Counted
<1>15. QED
  BY <1>9, <1>10, <1>11, <1>12, <1>13, <1>14

LEMMA WriteLineRecorded ==
    ASSUME Recorded, NEW w \in Writers, WriteLine(w)
    PROVE  Recorded'
<1> DEFINE s == [writer[w] EXCEPT !.at = "look"]
<1>1. writer[w] \in WriterStates /\ writer[w].at = "write"
  BY WriterTypes DEF Recorded, WriteLine
<1>2. s \in WriterStates /\ s.at = "look" /\ s.event = writer[w].event /\ s.before = writer[w].before
  BY <1>1 DEF WriterStates
<1>3. s.before = length
  BY <1>1, <1>2 DEF Recorded, Counted, Counts, AppendCounts
<1>4. Size(lines) \in Nat
  BY DEF Recorded, Typed, Lines, Size
<1>5. Becomes(w, s) /\ AppendText(writer[w].event, TRUE)
      /\ UNCHANGED <<index, reader, seen, logged, given>>
  BY <1>2 DEF WriteLine, Becomes
<1> HIDE DEF s
<1>6. QED
  BY <1>1, <1>2, <1>3, <1>4, <1>5, BeginsLine

LEMMA WritePartRecorded ==
    ASSUME Recorded, NEW w \in Writers, WritePart(w)
    PROVE  Recorded'
<1> DEFINE n == Size(lines)
           s == [writer[w] EXCEPT !.at = "rest", !.line = n + 1]
<1>1. writer[w] \in WriterStates /\ writer[w].at = "write"
  BY WriterTypes DEF Recorded, WritePart
<1>2. n \in Nat /\ n + 1 \in Nat
  BY DEF Recorded, Typed, Lines, Size
<1> HIDE DEF n
<1>3. /\ s \in WriterStates /\ s.at = "rest" /\ s.line = n + 1
      /\ s.event = writer[w].event /\ s.before = writer[w].before
  BY <1>1, <1>2 DEF WriterStates
<1>4. s.before = length
  BY <1>1, <1>3 DEF Recorded, Counted, Counts, AppendCounts
<1>5. ended
  BY <1>1, WritesAlone
<1>6. Becomes(w, s)
  BY <1>3, <1>5 DEF WritePart, Becomes, OwnLine, Size, n
<1>7. PICK content \in {writer[w].event, NoEvent}: AppendText(content, FALSE)
  BY DEF WritePart
<1>8. UNCHANGED <<index, reader, seen, logged, given>>
  BY DEF WritePart
<1> HIDE DEF s
<1>9. n = Size(lines)
  BY DEF n
<1>10. QED
  BY <1>1, <1>2, <1>3, <1>4, <1>6, <1>7, <1>8, <1>9, BeginsLine

\* The write that completes the line that was begun.
LEMMA WriteRestRecorded ==
    ASSUME Recorded, NEW w \in Writers, WriteRest(w)
    PROVE  Recorded'
<1> DEFINE s == [writer[w] EXCEPT !.at = "look"]
           n == Size(lines)
<1> USE DEF Recorded
<1>1. writer[w] \in WriterStates /\ writer[w].at = "rest" /\ writer[w].event \in Events
  <2>1. writer[w] \in WriterStates /\ writer[w].at = "rest"
    BY WriterTypes DEF WriteRest
  <2>2. QED
    BY <2>1 DEF WriterStates
<1>2. s \in WriterStates /\ s.at = "look" /\ s.event = writer[w].event /\ s.before = writer[w].before
  BY <1>1 DEF WriterStates
<1>3. ~ended /\ writer[w].line = Len(lines) /\ lines # <<>>
      /\ writer[w].event \in seen
      /\ lines[Len(lines)] \in {writer[w].event, NoEvent}
      /\ \A i \in DOMAIN lines: lines[i] = writer[w].event => i = Len(lines)
  BY <1>1 DEF Placed
<1>4. lines \in Seq(Events \cup {NoEvent}) /\ n = Len(lines) /\ n \in Nat \ {0} /\ DOMAIN lines = 1..n
  BY <1>3 DEF Typed, Lines, Size
<1>5. /\ lines' = [lines EXCEPT ![n] = writer[w].event]
      /\ ended' = TRUE /\ length' = length + 1
      /\ UNCHANGED <<index, reader, seen, logged, given>>
  BY <1>3, <1>4 DEF WriteRest
<1>6. /\ lines' \in Lines /\ Len(lines') = n /\ Size(lines') = n /\ DOMAIN lines' = 1..n
      /\ \A i \in 1..n: i # n => lines'[i] = lines[i]
      /\ lines'[n] = writer[w].event
      /\ n \in 1..n
  BY <1>1, <1>4, <1>5 DEF Lines, Size
<1>7. Becomes(w, s)
  BY <1>2 DEF WriteRest, Becomes
<1>8. /\ writer' \in [Writers -> WriterStates \cup {Idle}]
      /\ writer'[w] = s
      /\ \A v \in Writers: v # w => writer'[v] = writer[v]
  BY <1>7, BecomesTyped
<1>9. \A v \in Writers: v # w => writer[v].at \in {"none", "lock"}
  BY <1>1, WritesAlone
<1>10. /\ lines[n] \in {writer[w].event, NoEvent}
       /\ \A i \in 1..n: lines[i] = writer[w].event => i = n
  BY <1>3, <1>4
<1> HIDE DEF s, n
<1>11. Typed'
  <2>1. length' \in Nat
    BY <1>5 DEF Typed
  <2>2. QED
    BY <1>5, <1>6, <1>8, <2>1 DEF Typed
<1>12. Alone'
  BY <1>1, <1>2, <1>8, <1>9, WriterTypes DEF Alone
<1>13. Written'
  <2>1. \A i, j \in 1..n: lines'[i] # NoEvent /\ lines'[i] = lines'[j] => i = j
    BY <1>4, <1>6, <1>10 DEF Written
  <2>2. \A i \in 1..n: lines'[i] # NoEvent => lines'[i] \in seen
    BY <1>3, <1>4, <1>6 DEF Written
  <2>3. \A e \in logged: \E i \in 1..n: lines'[i] = e
    <3> SUFFICES ASSUME NEW e \in logged
                 PROVE  \E i \in 1..n: lines'[i] = e
      OBVIOUS
    <3>1. PICK i \in 1..n: lines[i] = e
      BY <1>4 DEF Written
    <3>2. e # NoEvent
      BY LogAssumption DEF Typed
    <3>3. QED
      BY <1>6, <1>10, <3>1, <3>2
  <2>4. QED
    BY <1>5, <1>6, <2>1, <2>2, <2>3 DEF Written
<1>14. Placed'
  <2>1. /\ writer'[w].at = "look" /\ writer'[w].event = writer[w].event
        /\ \E i \in DOMAIN lines': lines'[i] = writer[w].event
    BY <1>2, <1>6, <1>8
  <2>2. ASSUME NEW v \in Writers, v # w
        PROVE  /\ writer'[v].at \in {"none", "lock"}
               /\ writer'[v].at # "none" =>
                     /\ writer'[v].event \in seen
                     /\ \A i \in DOMAIN lines': lines'[i] # writer'[v].event
    <3>1. writer'[v] = writer[v] /\ writer[v].at \in {"none", "lock"}
      BY <1>8, <1>9, <2>2
    <3>2. ASSUME writer[v].at = "lock"
          PROVE  /\ writer[v].event \in seen /\ writer[v].event # writer[w].event
                 /\ \A i \in 1..n: lines[i] # writer[v].event
      BY <1>1, <1>4, <2>2, <3>2 DEF Placed, Alone
    <3>3. QED
      BY <1>6, <3>1, <3>2
  <2>3. \A v \in Writers: v = w \/ writer'[v].at = "none" \/ writer'[v].at = "lock"
    BY <2>2
  <2>4. QED
    BY <1>3, <1>5, <2>1, <2>2, <2>3 DEF Placed
<1>15. Prefix'
  <2>1. ASSUME NEW r \in Readers, reader[r].at # "none"
        PROVE  /\ Len(reader[r].lines) <= Len(lines')
               /\ \A i \in DOMAIN reader[r].lines:
                     reader[r].lines[i] # NoEvent => lines'[i] = reader[r].lines[i]
    <3>1. reader[r].lines \in Lines
      <4>1. reader[r] \in ReaderStates
        BY <2>1, WriterTypes
      <4>2. QED
        BY <4>1 DEF ReaderStates
    <3>2. Len(reader[r].lines) \in Nat /\ DOMAIN reader[r].lines = 1..Len(reader[r].lines)
      BY <3>1 DEF Lines
    <3>3. Len(reader[r].lines) <= n
      BY <1>4, <2>1 DEF Prefix
    <3>4. 1..Len(reader[r].lines) \subseteq 1..n
      BY <1>4, <3>2, <3>3
    <3>5. \A i \in DOMAIN reader[r].lines:
             reader[r].lines[i] # NoEvent => lines[i] = reader[r].lines[i]
      BY <2>1 DEF Prefix
    <3>6. \A i \in 1..n: lines[i] # NoEvent => lines'[i] = lines[i]
      BY <1>6, <1>10
    <3>7. QED
      BY <1>6, <3>2, <3>3, <3>4, <3>5, <3>6
  <2>2. \A p \in given: p[2] \in DOMAIN lines' /\ lines'[p[2]] = p[1]
    <3> SUFFICES ASSUME NEW p \in given
                 PROVE  p[2] \in 1..n /\ lines'[p[2]] = p[1]
      BY <1>6
    <3>1. p[2] \in 1..n /\ lines[p[2]] = p[1]
      BY <1>4 DEF Prefix
    <3>2. p[1] # NoEvent
      BY LogAssumption DEF Typed
    <3>3. QED
      BY <1>6, <1>10, <3>1, <3>2
  <2>3. QED
    BY <1>5, <2>1, <2>2 DEF Prefix
<1>16. Counted'
  <2>1. PICK f \in [Int -> Int]: Counts(f)
    BY DEF Counted
  <2>2. n \in Nat
    BY <1>4
  <2>3. length' = length + 1 /\ UNCHANGED <<index, reader>>
    BY <1>5
  <2>4. SeenCounts(f)
    BY <2>1 DEF Counts
  <2>5. PICK g \in [Int -> Int]: /\ SeenCounts(g)'
                                 /\ g[length'] = n
                                 /\ \A k \in Int: k <= length => g[k] = f[k]
    BY <2>2, <2>3, <2>4, WriteCounts
  <2>6. writer[w].before \in Int /\ writer[w].before < length /\ f[writer[w].before] + 1 = n
    <3>1. writer[w].before \in Int
      BY <1>1 DEF WriterStates
    <3>2. writer[w].before < length /\ f[writer[w].before] + 1 = Size(lines)
      BY <1>1, <2>1 DEF Counts, AppendCounts
    <3>3. QED
      BY <3>1, <3>2 DEF n
  <2>7. length \in Int
    BY DEF Typed
  <2>8. writer[w].before < length' /\ g[writer[w].before] + 1 = n
    BY <2>3, <2>5, <2>6, <2>7
  <2>9. n = Size(lines')
    BY <1>6
  <2>10. writer'[w].at = "look" /\ writer'[w].before = writer[w].before
    BY <1>2, <1>8
  <2>11. \A v \in Writers: v # w => writer'[v].at \in {"none", "lock"}
    BY <1>8, <1>9
  <2>12. AppendCounts(g)'
    BY <2>8, <2>9, <2>10, <2>11 DEF AppendCounts
  <2>13. Counts(g)'
    BY <2>5, <2>9, <2>12 DEF Counts
  <2>14. QED
    BY <2>13 DEF Counted
<1>17. QED
  BY <1>11, <1>12, <1>13, <1>14, <1>15, <1>16

LEMMA LookUpRecorded ==
    ASSUME Recorded, NEW w \in Writers, LookUp(w)
    PROVE  Recorded'
<1> DEFINE s == [writer[w] EXCEPT !.at = "store", !.found = index]
<1> USE DEF Recorded
<1>1. writer[w] \in WriterStates /\ writer[w].at = "look"
  BY WriterTypes DEF LookUp
<1>2. /\ s \in WriterStates /\ s.at = "store" /\ s.found = index
      /\ s.event = writer[w].event /\ s.before = writer[w].before
  BY <1>1 DEF WriterStates, Typed
<1>3. /\ UNCHANGED <<lines, ended, length, index, reader, seen, logged, given>>
      /\ Becomes(w, s)
  BY <1>2 DEF LookUp, Becomes, file
<1>4. /\ writer' \in [Writers -> WriterStates \cup {Idle}]
      /\ writer'[w] = s
      /\ \A v \in Writers: v # w => writer'[v] = writer[v]
  BY <1>3, BecomesTyped
<1> HIDE DEF s
<1>5. Typed'
  BY <1>3, <1>4 DEF Typed
<1>6. Alone'
  BY <1>1, <1>2, <1>4 DEF Alone
<1>7. Written'
  BY <1>1, <1>2, <1>3, <1>4 DEF Written
<1>8. Placed'
  BY <1>1, <1>2, <1>3, <1>4 DEF Placed
<1>9. Prefix'
  BY <1>3 DEF Prefix
<1>10. Counted'
  <2>1. PICK f \in [Int -> Int]: Counts(f)
    BY DEF Counted
  <2>2. SeenCounts(f)'
    BY <1>3, <2>1 DEF Counts, SeenCounts
  <2>3. index.length <= length /\ f[index.length] = index.count
    BY <2>1 DEF Counts, SeenCounts
  <2>4. writer[w].before < length /\ f[writer[w].before] + 1 = Size(lines)
    BY <1>1, <2>1 DEF Counts, AppendCounts
  <2>5. AppendCounts(f)'
    BY <1>2, <1>3, <1>4, <2>1, <2>3, <2>4 DEF Counts, AppendCounts
  <2>6. Counts(f)'
    BY <1>3, <2>1, <2>2, <2>5 DEF Counts
  <2>7. QED
    BY <2>6 DEF Counted
<1>11. QED
  BY <1>5, <1>6, <1>7, <1>8, <1>9, <1>10

\* An append is over, or given up before it has written anything.
LEMMA EndsRecorded ==
    ASSUME Recorded, NEW w \in Writers, Becomes(w, Idle), writer[w].at # "rest",
           UNCHANGED <<lines, ended, length, reader, seen, given>>,
           \/ UNCHANGED <<index, logged>>
           \/ Store(w)
    PROVE  Recorded'
<1> USE DEF Recorded
<1>1. /\ writer' \in [Writers -> WriterStates \cup {Idle}]
      /\ writer'[w].at = "none"
      /\ \A v \in Writers: v # w => writer'[v] = writer[v]
  BY BecomesTyped DEF Idle
<1>2. ASSUME Store(w)
      PROVE  /\ writer[w] \in WriterStates /\ writer[w].at = "store"
             /\ logged' = logged \cup {writer[w].event}
             /\ writer[w].event \in seen
             /\ \E i \in DOMAIN lines: lines[i] = writer[w].event
  <2>1. writer[w].at = "store" /\ logged' = logged \cup {writer[w].event}
    BY <1>2 DEF Store
  <2>2. QED
    BY <2>1, WriterTypes DEF Placed
<1>3. \/ index' = index
      \/ /\ Store(w)
         /\ writer[w].found.length = writer[w].before
         /\ index' = [length |-> length, count |-> writer[w].found.count + 1]
  BY DEF Store, NextIndex
<1>4. Typed'
  <2>1. index' \in Indexes
    <3>1. CASE index' = index
      BY <3>1 DEF Typed
    <3>2. CASE Store(w) /\ index' = [length |-> length, count |-> writer[w].found.count + 1]
      <4>1. writer[w].found.count \in Nat
        BY <1>2, <3>2 DEF WriterStates, Indexes
      <4>2. QED
        BY <3>2, <4>1 DEF Indexes, Typed
    <3>3. QED
      BY <1>3, <3>1, <3>2
  <2>2. logged' \subseteq seen
    BY <1>2 DEF Typed
  <2>3. QED
    BY <1>1, <2>1, <2>2 DEF Typed
<1>5. Alone'
  BY <1>1 DEF Alone
<1>6. Written'
  <2>1. \A e \in logged': \E i \in DOMAIN lines: lines[i] = e
    BY <1>2 DEF Written
  <2>2. ended \/ \E v \in Writers: writer'[v].at = "rest"
    BY <1>1 DEF Written
  <2>3. QED
    BY <2>1, <2>2 DEF Written
<1>7. Placed'
  BY <1>1 DEF Placed
<1>8. Prefix'
  BY DEF Prefix
<1>9. Counted'
  <2>1. PICK f \in [Int -> Int]: Counts(f)
    BY DEF Counted
  <2>2. index'.length <= length /\ f[index'.length] = index'.count
    <3>1. CASE index' = index
      BY <2>1, <3>1 DEF Counts, SeenCounts
    <3>2. CASE /\ Store(w)
               /\ writer[w].found.length = writer[w].before
               /\ index' = [length |-> length, count |-> writer[w].found.count + 1]
      <4>1. /\ f[writer[w].before] + 1 = Size(lines)
            /\ f[writer[w].found.length] = writer[w].found.count
            /\ f[length] = Size(lines)
        BY <1>2, <2>1, <3>2 DEF Counts, AppendCounts
      <4>2. length <= length
        BY DEF Typed
      <4>3. index'.length = length /\ index'.count = writer[w].found.count + 1
        BY <3>2
      <4>4. f[length] = writer[w].found.count + 1
        BY <3>2, <4>1
      <4>5. QED
        BY <4>2, <4>3, <4>4
    <3>3. QED
      BY <1>3, <3>1, <3>2
  <2>3. SeenCounts(f)'
    BY <2>1, <2>2 DEF Counts, SeenCounts
  <2>4. AppendCounts(f)'
    BY <1>1, <2>1 DEF Counts, AppendCounts
  <2>5. Counts(f)'
    BY <2>1, <2>3, <2>4 DEF Counts
  <2>6. QED
    BY <2>5 DEF Counted
<1>10. QED
  BY <1>4, <1>5, <1>6, <1>7, <1>8, <1>9

LEMMA AppendRecorded ==
    ASSUME Recorded, NEW w \in Writers,
           \/ \E e \in Events: Call(w, e)
           \/ Enter(w) \/ WriteLine(w) \/ WritePart(w) \/ WriteRest(w)
           \/ LookUp(w) \/ Store(w) \/ GiveUp(w)
    PROVE  Recorded'
<1>1. CASE Store(w)
  BY <1>1, EndsRecorded DEF Store, Becomes, file
<1>2. CASE GiveUp(w)
  BY <1>2, EndsRecorded DEF GiveUp, Becomes, file
<1>3. QED
  BY <1>1, <1>2, CallRecorded, EnterRecorded, WriteLineRecorded, WritePartRecorded,
     WriteRestRecorded, LookUpRecorded

-----------------------------------------------------------------------------
(* Reads.                                                                    *)

\* A step of a read changes its own record, the index, and what it tells.
LEMMA ReadRecorded ==
    ASSUME Recorded, NEW r \in Readers, NEW s \in ReaderStates \cup {Idle},
           reader' = [reader EXCEPT ![r] = s],
           UNCHANGED <<lines, ended, length, writer, seen, logged>>,
           s # Idle =>
              /\ Size(s.lines) <= Size(lines)
              /\ \A i \in DOMAIN s.lines: s.lines[i] # NoEvent => lines[i] = s.lines[i]
              /\ \A e \in s.logged: \E i \in DOMAIN s.lines: s.lines[i] = e,
           \A f \in [Int -> Int]: Counts(f) =>
              /\ s # Idle =>
                    /\ s.length <= length
                    /\ f[s.length] = Size(s.lines)
                    /\ s.found.length \in {-1, s.length}
                    /\ f[s.found.length] = s.found.count
              /\ index'.length <= length /\ f[index'.length] = index'.count,
           index' \in Indexes,
           given' \subseteq Events \X Int,
           \A p \in given': p[2] \in DOMAIN lines /\ lines[p[2]] = p[1]
    PROVE  Recorded'
<1> USE DEF Recorded
<1>1. /\ reader' \in [Readers -> ReaderStates \cup {Idle}]
      /\ reader'[r] = s
      /\ \A q \in Readers: q # r => reader'[q] = reader[q]
  BY DEF Typed
<1>2. Typed'
  BY <1>1 DEF Typed
<1>3. Alone' /\ Written' /\ Placed'
  BY DEF Alone, Written, Placed
<1>4. s.at # "none" => s # Idle
  BY DEF Idle
<1>5. Prefix'
  <2>1. ASSUME NEW q \in Readers, reader'[q].at # "none"
        PROVE  /\ Len(reader'[q].lines) <= Len(lines')
               /\ \A i \in DOMAIN reader'[q].lines:
                     reader'[q].lines[i] # NoEvent => lines'[i] = reader'[q].lines[i]
               /\ \A e \in reader'[q].logged:
                     \E i \in DOMAIN reader'[q].lines: reader'[q].lines[i] = e
    <3>1. CASE q = r
      BY <1>1, <1>4, <2>1, <3>1 DEF Size
    <3>2. CASE q # r
      BY <1>1, <2>1, <3>2 DEF Prefix
    <3>3. QED
      BY <3>1, <3>2
  <2>2. QED
    BY <2>1 DEF Prefix
<1>6. Counted'
  <2>1. PICK f \in [Int -> Int]: Counts(f)
    BY DEF Counted
  <2>2. AppendCounts(f)' /\ f[-1] = 0 /\ f[length'] = Size(lines')
    BY <2>1 DEF Counts, SeenCounts, AppendCounts
  <2>3. ASSUME NEW q \in Readers, reader'[q].at # "none"
        PROVE  /\ reader'[q].length <= length
               /\ f[reader'[q].length] = Size(reader'[q].lines)
               /\ reader'[q].found.length \in {-1, reader'[q].length}
               /\ f[reader'[q].found.length] = reader'[q].found.count
    <3>1. CASE q = r
      BY <1>1, <1>4, <2>1, <2>3, <3>1
    <3>2. CASE q # r
      BY <1>1, <2>1, <2>3, <3>2 DEF Counts, SeenCounts
    <3>3. QED
      BY <3>1, <3>2
  <2>4. index'.length <= length /\ f[index'.length] = index'.count
    BY <2>1
  <2>5. SeenCounts(f)'
    BY <2>2, <2>3, <2>4 DEF SeenCounts
  <2>6. Counts(f)'
    BY <2>2, <2>5 DEF Counts
  <2>7. QED
    BY <2>6 DEF Counted
<1>7. QED
  BY <1>2, <1>3, <1>5, <1>6

LEMMA OpenRecorded ==
    ASSUME Recorded, NEW r \in Readers, NEW limit \in Limits, Open(r, limit)
    PROVE  Recorded'
<1> DEFINE s == [at |-> "peek", limit |-> limit, lines |-> lines, length |-> length,
                 found |-> NoIndex, logged |-> logged]
<1>1. s \in ReaderStates
  BY NoIndexType DEF Recorded, Typed, ReaderStates
<1>2. /\ reader' = [reader EXCEPT ![r] = s]
      /\ UNCHANGED <<lines, ended, length, writer, seen, logged, index, given>>
  BY DEF Open, file
<1>3. /\ s.lines = lines /\ s.length = length /\ s.logged = logged
      /\ s.found.length = -1 /\ s.found.count = 0
  BY DEF NoIndex
<1> HIDE DEF s
<1>4. Size(lines) <= Size(lines)
  BY DEF Recorded, Typed, Lines, Size
<1>5. \A e \in s.logged: \E i \in DOMAIN s.lines: s.lines[i] = e
  BY <1>3 DEF Recorded, Written
<1>6. /\ index' \in Indexes /\ given' \subseteq Events \X Int
      /\ \A p \in given': p[2] \in DOMAIN lines /\ lines[p[2]] = p[1]
  BY <1>2 DEF Recorded, Typed, Prefix
<1>7. ASSUME NEW f \in [Int -> Int], Counts(f)
      PROVE  /\ s.length <= length
             /\ f[s.length] = Size(s.lines)
             /\ s.found.length \in {-1, s.length}
             /\ f[s.found.length] = s.found.count
             /\ index'.length <= length /\ f[index'.length] = index'.count
  <2>1. length <= length
    BY DEF Recorded, Typed
  <2>2. QED
    BY <1>2, <1>3, <1>7, <2>1 DEF Counts, SeenCounts
<1>8. QED
  BY <1>1, <1>2, <1>3, <1>4, <1>5, <1>6, <1>7, ReadRecorded

LEMMA PeekRecorded ==
    ASSUME Recorded, NEW r \in Readers, Peek(r)
    PROVE  Recorded'
<1> DEFINE found == IF index.length = reader[r].length THEN index ELSE NoIndex
           s == [reader[r] EXCEPT !.at = "scan", !.found = found]
<1>1. reader[r] \in ReaderStates /\ reader[r].at = "peek"
  BY WriterTypes DEF Recorded, Peek
<1>2. found \in Indexes
  BY NoIndexType DEF Recorded, Typed
<1>3. /\ reader' = [reader EXCEPT ![r] = s]
      /\ UNCHANGED <<lines, ended, length, writer, seen, logged, index, given>>
  BY DEF Peek, file
<1>4. \/ found = index /\ index.length = reader[r].length
      \/ found = NoIndex /\ NoIndex.length = -1 /\ NoIndex.count = 0
  BY DEF NoIndex
<1> HIDE DEF found
<1>5. /\ s \in ReaderStates /\ s.found = found
      /\ s.lines = reader[r].lines /\ s.length = reader[r].length
      /\ s.logged = reader[r].logged
  BY <1>1, <1>2 DEF ReaderStates
<1> HIDE DEF s
<1>6. /\ Size(s.lines) <= Size(lines)
      /\ \A i \in DOMAIN s.lines: s.lines[i] # NoEvent => lines[i] = s.lines[i]
      /\ \A e \in s.logged: \E i \in DOMAIN s.lines: s.lines[i] = e
  BY <1>1, <1>5 DEF Recorded, Prefix, Size
<1>7. /\ index' \in Indexes /\ given' \subseteq Events \X Int
      /\ \A p \in given': p[2] \in DOMAIN lines /\ lines[p[2]] = p[1]
  BY <1>3 DEF Recorded, Typed, Prefix
<1>8. ASSUME NEW f \in [Int -> Int], Counts(f)
      PROVE  /\ s.length <= length
             /\ f[s.length] = Size(s.lines)
             /\ s.found.length \in {-1, s.length}
             /\ f[s.found.length] = s.found.count
             /\ index'.length <= length /\ f[index'.length] = index'.count
  BY <1>1, <1>3, <1>4, <1>5, <1>8 DEF Counts, SeenCounts
<1>9. QED
  BY <1>3, <1>5, <1>6, <1>7, <1>8, ReadRecorded

LEMMA TextLines ==
    ASSUME NEW text \in Lines
    PROVE  Len(text) \in Nat /\ DOMAIN text = 1..Len(text)
  BY DEF Lines

\* The count that is used, cached or not, is that of the lines the reader has: so
\* the number of an event is that of its line.
LEMMA NumberIsLine ==
    ASSUME Recorded, NEW r \in Readers, reader[r].at = "scan",
           NEW i \in DOMAIN reader[r].lines
    PROVE  Sequence(r, i) = i
<1>1. reader[r] \in ReaderStates
  BY WriterTypes DEF Recorded
<1>2. reader[r].length \in Int /\ reader[r].found \in Indexes
  BY <1>1 DEF ReaderStates
<1>3. PICK f \in [Int -> Int]: Counts(f)
  BY DEF Recorded, Counted
<1>4. /\ f[-1] = 0
      /\ f[reader[r].length] = Size(reader[r].lines)
      /\ reader[r].found.length \in {-1, reader[r].length}
      /\ f[reader[r].found.length] = reader[r].found.count
  BY <1>3 DEF Counts, SeenCounts
<1>5. reader[r].found # NoIndex => reader[r].found.length # -1
  BY <1>2, <1>4 DEF NoIndex, Indexes
<1>6. TotalNonBlank(r) = Size(reader[r].lines)
  BY <1>4, <1>5 DEF TotalNonBlank, HasIndex, Size
<1>7. reader[r].lines \in Lines
  BY <1>1 DEF ReaderStates
<1>8. PICK n \in Nat: n = Len(reader[r].lines) /\ DOMAIN reader[r].lines = 1..n
  BY <1>7, TextLines
<1>9. TotalNonBlank(r) = n
  BY <1>6, <1>8 DEF Size
<1>10. Sequence(r, i) = n - (n - i + 1) + 1
  BY <1>8, <1>9, Zenon DEF Sequence
<1>11. n \in Nat /\ i \in Int
  BY <1>8
<1>12. n - (n - i + 1) + 1 = i
  BY <1>11
<1>13. QED
  BY <1>10, <1>12

LEMMA AnswerRecorded ==
    ASSUME Recorded, NEW r \in Readers, Answer(r)
    PROVE  Recorded'
<1>1. reader[r] \in ReaderStates /\ reader[r].at = "scan"
  BY WriterTypes DEF Recorded, Answer
<1>2. reader[r].lines \in Lines /\ reader[r].length \in Nat
  BY <1>1 DEF ReaderStates
<1>3. /\ reader' = [reader EXCEPT ![r] = Idle]
      /\ UNCHANGED <<lines, ended, length, writer, seen, logged>>
      /\ given' = given \cup {<<reader[r].lines[i], Sequence(r, i)>>:
                              i \in Selected(reader[r].lines, reader[r].limit)}
  BY DEF Answer, file
<1>4. index' = index \/ index' = [length |-> reader[r].length, count |-> Size(reader[r].lines)]
  BY DEF Answer, Size
<1>5. Size(reader[r].lines) \in Nat
  BY <1>2 DEF Lines, Size
<1>6. index' \in Indexes
  BY <1>2, <1>4, <1>5 DEF Recorded, Typed, Indexes
<1>7. ASSUME NEW f \in [Int -> Int], Counts(f)
      PROVE  index'.length <= length /\ f[index'.length] = index'.count
  BY <1>1, <1>4, <1>7 DEF Counts, SeenCounts
<1>8. ASSUME NEW p \in given'
      PROVE  /\ p \in Events \X Int
             /\ p[2] \in DOMAIN lines /\ lines[p[2]] = p[1]
  <2>1. CASE p \in given
    BY <2>1 DEF Recorded, Typed, Prefix
  <2>2. CASE p \notin given
    <3>1. PICK i \in Selected(reader[r].lines, reader[r].limit):
             p = <<reader[r].lines[i], Sequence(r, i)>>
      BY <1>3, <1>8, <2>2
    <3>2. i \in DOMAIN reader[r].lines /\ reader[r].lines[i] # NoEvent
      BY <3>1 DEF Selected
    <3>3. p = <<reader[r].lines[i], i>>
      BY <1>1, <3>1, <3>2, NumberIsLine
    <3>4. reader[r].lines[i] \in Events /\ i \in Int
      BY <1>2, <3>2 DEF Lines
    <3>5. lines[i] = reader[r].lines[i]
      BY <1>1, <3>2 DEF Recorded, Prefix
    <3>6. i \in DOMAIN lines
      <4>1. Len(reader[r].lines) <= Len(lines)
        BY <1>1 DEF Recorded, Prefix
      <4>2. /\ Len(lines) \in Nat /\ DOMAIN lines = 1..Len(lines)
            /\ Len(reader[r].lines) \in Nat /\ DOMAIN reader[r].lines = 1..Len(reader[r].lines)
        BY <1>2 DEF Recorded, Typed, Lines
      <4>3. QED
        BY <3>2, <4>1, <4>2
    <3>7. QED
      BY <3>3, <3>4, <3>5, <3>6
  <2>3. QED
    BY <2>1, <2>2
<1>9. QED
  BY <1>3, <1>6, <1>7, <1>8, ReadRecorded

-----------------------------------------------------------------------------
(* Restarts.                                                                 *)

LEMMA RestartRecorded ==
    ASSUME Recorded, Restart
    PROVE  Recorded'
<1> USE DEF Recorded
<1>1. /\ UNCHANGED <<lines, ended, length, seen, logged, given>>
      /\ index' = NoIndex
      /\ \A w \in Writers: writer'[w] = Idle
      /\ \A r \in Readers: reader'[r] = Idle
      /\ writer' \in [Writers -> WriterStates \cup {Idle}]
      /\ reader' \in [Readers -> ReaderStates \cup {Idle}]
      /\ \A w \in Writers: writer[w].at # "rest"
  BY DEF Restart, file
<1>2. Idle.at = "none" /\ NoIndex.length = -1 /\ NoIndex.count = 0
  BY DEF Idle, NoIndex
<1>3. Typed'
  BY <1>1, NoIndexType DEF Typed
<1>4. Alone' /\ Placed' /\ Prefix'
  BY <1>1, <1>2 DEF Alone, Placed, Prefix
<1>5. Written'
  BY <1>1 DEF Written
<1>6. Counted'
  <2>1. PICK f \in [Int -> Int]: Counts(f)
    BY DEF Counted
  <2>2. -1 <= length
    BY DEF Typed
  <2>3. Counts(f)'
    BY <1>1, <1>2, <2>1, <2>2 DEF Counts, SeenCounts, AppendCounts
  <2>4. QED
    BY <2>3 DEF Counted
<1>7. QED
  BY <1>3, <1>4, <1>5, <1>6

LEMMA StutterRecorded ==
    ASSUME Recorded, UNCHANGED vars
    PROVE  Recorded'
<1> USE DEF Recorded
<1>1. Typed' /\ Alone' /\ Written' /\ Placed' /\ Prefix'
  BY DEF vars, file, Typed, Alone, Written, Placed, Prefix
<1>2. Counted'
  <2>1. PICK f \in [Int -> Int]: Counts(f)
    BY DEF Counted
  <2>2. Counts(f)'
    BY <2>1 DEF vars, file, Counts, SeenCounts, AppendCounts
  <2>3. QED
    BY <2>2 DEF Counted
<1>3. QED
  BY <1>1, <1>2

LEMMA InitRecorded ==
    ASSUME Init
    PROVE  Recorded
<1>1. /\ lines \in Lines /\ DOMAIN lines = 1..Size(lines) /\ Size(lines) \in Nat
      /\ length = Size(lines) /\ Size(lines) <= 1
      /\ \A i \in DOMAIN lines: lines[i] = NoEvent
  <2>1. CASE lines = <<>>
    BY <2>1 DEF Init, Lines, Size
  <2>2. CASE lines = <<NoEvent>>
    BY <2>2 DEF Init, Lines, Size
  <2>3. QED
    BY <2>1, <2>2 DEF Init
<1>2. /\ Idle.at = "none" /\ NoIndex.length = -1 /\ NoIndex.count = 0
      /\ index = NoIndex /\ ended = TRUE
      /\ writer = [w \in Writers |-> Idle] /\ reader = [r \in Readers |-> Idle]
      /\ seen = {} /\ logged = {} /\ given = {}
  BY DEF Init, Idle, NoIndex
<1>3. Typed
  BY <1>1, <1>2, NoIndexType DEF Typed
<1>4. Alone /\ Placed /\ Prefix /\ Written
  BY <1>1, <1>2 DEF Alone, Placed, Prefix, Written
<1>5. Counted
  <2> DEFINE f == [n \in Int |-> IF n = length THEN length ELSE 0]
  <2>1. length \in Nat
    BY <1>1
  <2>2. f \in [Int -> Int] /\ f[-1] = 0 /\ f[length] = length /\ -1 <= length
    BY <2>1
  <2> HIDE DEF f
  <2>3. Counts(f)
    BY <1>1, <1>2, <2>2 DEF Counts, SeenCounts, AppendCounts
  <2>4. QED
    BY <2>2, <2>3 DEF Counted
<1>6. QED
  BY <1>3, <1>4, <1>5 DEF Recorded

LEMMA AlwaysRecorded == Spec => []Recorded
<1>1. ASSUME Recorded, [Next]_vars PROVE Recorded'
  <2>1. CASE \E w \in Writers:
                \/ \E e \in Events: Call(w, e)
                \/ Enter(w) \/ WriteLine(w) \/ WritePart(w) \/ WriteRest(w)
                \/ LookUp(w) \/ Store(w) \/ GiveUp(w)
    BY <1>1, <2>1, AppendRecorded
  <2>2. CASE \E r \in Readers: \/ \E limit \in Limits: Open(r, limit)
                               \/ Peek(r) \/ Answer(r)
    BY <1>1, <2>2, OpenRecorded, PeekRecorded, AnswerRecorded
  <2>3. CASE Restart
    BY <1>1, <2>3, RestartRecorded
  <2>4. CASE UNCHANGED vars
    BY <1>1, <2>4, StutterRecorded
  <2>5. QED
    BY <1>1, <2>1, <2>2, <2>3, <2>4 DEF Next
<1>2. QED
  BY <1>1, InitRecorded, PTL DEF Spec

-----------------------------------------------------------------------------
(* The theorems.                                                             *)

\* What the log keeps stays of its type, whatever appends and reads are under way.
THEOREM LogTypeCorrect == Spec => []TypeOK
<1>1. ASSUME Recorded PROVE TypeOK
  BY <1>1 DEF Recorded, Typed, TypeOK, WriterStates, ReaderStates
<1>2. QED
  BY <1>1, AlwaysRecorded, PTL

\* The line number of an event is its sequence for good, for any number of appends
\* and reads in any order, with the cached count or without it, and over restarts:
\* nobody is told two numbers for an event, or two events for a number.
THEOREM NumbersAreStable == Spec => []StableSequence
<1>1. ASSUME Recorded PROVE StableSequence
  <2> SUFFICES ASSUME NEW p \in given, NEW q \in given
               PROVE  p[1] = q[1] <=> p[2] = q[2]
    BY DEF StableSequence
  <2>1. /\ p[2] \in DOMAIN lines /\ lines[p[2]] = p[1]
        /\ q[2] \in DOMAIN lines /\ lines[q[2]] = q[1]
    BY <1>1 DEF Recorded, Prefix
  <2>2. p[1] # NoEvent
    BY <1>1, LogAssumption DEF Recorded, Typed
  <2>3. QED
    BY <1>1, <2>1, <2>2 DEF Recorded, Written
<1>2. QED
  BY <1>1, AlwaysRecorded, PTL

-----------------------------------------------------------------------------
(* What a reader is given.                                                   *)

After(V, i) == {j \in V: j > i}

\* Of finitely many numbers, those with fewer than k above them are k, or all.
LEMMA LastOnes ==
    ASSUME NEW V \in SUBSET Nat, IsFiniteSet(V), NEW k \in Nat \ {0},
           NEW S, S = {i \in V: Cardinality(After(V, i)) < k}
    PROVE  S = V \/ Cardinality(S) = k
<1> DEFINE rank == [i \in V |-> Cardinality(After(V, i))]
           n == Cardinality(V)
<1>1. n \in Nat
  BY FS_CardinalityType
<1>2. ASSUME NEW i \in V
      PROVE  /\ IsFiniteSet(After(V, i))
             /\ Cardinality(After(V, i)) \in Nat /\ Cardinality(After(V, i)) < n
  <2>1. After(V, i) \in SUBSET V /\ After(V, i) # V
    BY DEF After
  <2>2. /\ IsFiniteSet(After(V, i))
        /\ Cardinality(After(V, i)) <= n /\ Cardinality(After(V, i)) # n
    BY <2>1, FS_Subset
  <2>3. Cardinality(After(V, i)) \in Nat
    BY <2>2, FS_CardinalityType
  <2>4. QED
    BY <1>1, <2>2, <2>3
<1>3. ASSUME NEW i \in V, NEW j \in V, i < j
      PROVE  rank[j] < rank[i]
  <2>1. After(V, j) \in SUBSET After(V, i) /\ After(V, j) # After(V, i)
    <3>1. i \in Nat /\ j \in Nat /\ \A m \in V: m \in Nat
      OBVIOUS
    <3>2. \A m \in After(V, j): m \in After(V, i)
      BY <1>3, <3>1 DEF After
    <3>3. j \in After(V, i) /\ j \notin After(V, j)
      BY <1>3, <3>1 DEF After
    <3>4. QED
      BY <3>2, <3>3
  <2>2. /\ Cardinality(After(V, j)) <= Cardinality(After(V, i))
        /\ Cardinality(After(V, j)) # Cardinality(After(V, i))
    BY <1>2, <2>1, FS_Subset
  <2>3. QED
    BY <1>2, <2>2
<1>4. rank \in [V -> 0..(n - 1)]
  BY <1>1, <1>2
<1>5. S = {i \in V: rank[i] < k}
  OBVIOUS
<1> HIDE DEF rank
<1>6. \A i, j \in V: rank[i] = rank[j] => i = j
  <2> SUFFICES ASSUME NEW i \in V, NEW j \in V, rank[i] = rank[j], i # j
               PROVE  FALSE
    OBVIOUS
  <2>1. rank[i] \in Int /\ rank[j] \in Int
    BY <1>1, <1>4
  <2>2. i < j \/ j < i
    OBVIOUS
  <2>3. QED
    BY <1>3, <2>1, <2>2
<1>7. rank \in Injection(V, 0..(n - 1))
  BY <1>4, <1>6, Fun_IsInj
<1>8. IsFiniteSet(0..(n - 1)) /\ Cardinality(0..(n - 1)) = n
  <2>1. IsFiniteSet(0..(n - 1)) /\ Cardinality(0..(n - 1)) = IF 0 > n - 1 THEN 0 ELSE n - 1 - 0 + 1
    BY <1>1, FS_Interval
  <2>2. QED
    BY <1>1, <2>1
<1>9. \A t \in 0..(n - 1): \E i \in V: rank[i] = t
  <2>1. rank \in Surjection(V, 0..(n - 1))
    BY <1>7, <1>8, FS_Injection
  <2>2. QED
    BY <2>1 DEF Surjection
<1> HIDE DEF n
<1>10. CASE n <= k
  <2>1. \A i \in V: rank[i] < k
    BY <1>1, <1>4, <1>10
  <2>2. QED
    BY <1>5, <2>1
<1>11. CASE k < n
  <2> DEFINE last == [i \in S |-> rank[i]]
  <2>1. S \in SUBSET V /\ IsFiniteSet(S)
    BY <1>5, FS_Subset
  <2>2. \A i \in S: rank[i] \in 0..(k - 1)
    BY <1>1, <1>4, <1>5
  <2>3. last \in [S -> 0..(k - 1)]
    BY <2>2
  <2>4. \A i, j \in S: last[i] = last[j] => i = j
    BY <1>6, <2>1
  <2>5. ASSUME NEW t \in 0..(k - 1)
        PROVE  \E i \in S: last[i] = t
    <3>1. t \in 0..(n - 1)
      BY <1>1, <1>11
    <3>2. PICK i \in V: rank[i] = t
      BY <1>9, <3>1
    <3>3. i \in S
      BY <1>5, <3>2
    <3>4. QED
      BY <3>2, <3>3
  <2> HIDE DEF last
  <2>6. last \in Bijection(S, 0..(k - 1))
    BY <2>3, <2>4, <2>5, Fun_IsBij
  <2>7. Cardinality(0..(k - 1)) = Cardinality(S)
    BY <2>1, <2>6, FS_Bijection, Fun_ExistsBij
  <2>8. Cardinality(0..(k - 1)) = IF 0 > k - 1 THEN 0 ELSE k - 1 - 0 + 1
    BY FS_Interval
  <2>9. QED
    BY <2>7, <2>8
<1>12. QED
  BY <1>1, <1>10, <1>11

\* A read answers as many events as were asked for, or every event it can see, and
\* that is every event whose append had returned when the file was opened.
THEOREM ConfirmedIsRead == Spec => []LoggedIsRead
<1>1. ASSUME Recorded PROVE LoggedIsRead
  <2> SUFFICES ASSUME NEW r \in Readers, reader[r] # Idle,
                      NEW S, S = Selected(reader[r].lines, reader[r].limit),
                      Cardinality(S) # reader[r].limit
               PROVE  reader[r].logged \subseteq {reader[r].lines[i]: i \in S}
    BY DEF LoggedIsRead
  <2>1. reader[r] \in ReaderStates /\ reader[r].at # "none"
    BY <1>1, WriterTypes DEF Recorded
  <2>2. /\ reader[r].lines \in Lines /\ reader[r].limit \in Nat \ {0}
        /\ reader[r].logged \subseteq Events
    BY <2>1, LogAssumption DEF ReaderStates
  <2> DEFINE text == reader[r].lines
             V == {i \in DOMAIN text: text[i] # NoEvent}
  <2>3. S = {i \in V: Cardinality(After(V, i)) < reader[r].limit}
    BY DEF Selected, After
  <2>4. V \in SUBSET Nat /\ IsFiniteSet(V)
    <3>1. PICK n \in Nat: DOMAIN text = 1..n
      BY <2>2, TextLines
    <3>2. IsFiniteSet(1..n)
      BY FS_Interval
    <3>3. V \in SUBSET (1..n)
      BY <3>1
    <3>4. 1..n \subseteq Nat
      OBVIOUS
    <3>5. QED
      BY <3>2, <3>3, <3>4, FS_Subset
  <2>5. S = V
    <3> HIDE DEF V
    <3>1. QED
      BY <2>2, <2>3, <2>4, LastOnes
  <2>6. ASSUME NEW e \in reader[r].logged
        PROVE  e \in {reader[r].lines[i]: i \in S}
    <3>1. PICK i \in DOMAIN text: text[i] = e
      BY <1>1, <2>1 DEF Recorded, Prefix
    <3>2. e # NoEvent
      BY <2>2, LogAssumption
    <3>3. i \in V
      BY <3>1, <3>2
    <3>4. QED
      BY <2>5, <3>1, <3>3
  <2>7. QED
    BY <2>6
<1>2. QED
  BY <1>1, AlwaysRecorded, PTL

=============================================================================
