----------------------------- MODULE LineEditor -----------------------------
(***************************************************************************)
(* readline.c: the line, what the terminal shows of it, completion, and    *)
(* the history, whose texts are blocks of the heap.  Each key is one       *)
(* action; Enter includes what main does before the next call (the line    *)
(* is handed to parse_cmd and cleared).                                    *)
(*                                                                         *)
(* Positions of buffers are counted from 1.  A step out of a buffer, or    *)
(* through a null pointer, sets oops, and the model stops.                 *)
(***************************************************************************)
EXTENDS Heap, Sequences, SequencesExt

CONSTANTS
  Chars,       \* what can be typed; a line feed arrives as NUL
  NUL,
  Commands,    \* commands[], a sequence of texts
  Files,       \* files[]
  EditCommand, \* "edit "
  FilePos,     \* 4, what auto_complete takes for the place of the file name
  LineSize,    \* size of line_buf
  MaxHistory,  \* MAX_HISTORY
  HeapBlocks,  \* USER_HEAP_SIZE / BLK_SIZE
  LineBytes,   \* 128, the size of a text of the history
  OwnBytes,    \* what else the program asks malloc for
  StaleLines   \* what line_buf may hold when main begins

VARIABLES
  line,        \* line_buf
  n,           \* char_in_line
  screen,      \* what the terminal shows behind the prompt
  lines,       \* cmd_history.lines
  count,       \* cmd_history.count
  current,     \* cmd_history.current
  blk,         \* the headers of the heap
  text,        \* the texts in its blocks
  own,         \* memory that the program holds besides
  delivered,   \* what parse_cmd gets in this step
  oops         \* the program left a buffer

hist == <<lines, count, current, blk, text, own>>
vars == <<line, n, screen, hist, delivered, oops>>

Words == Range(Commands) \cup Range(Files)
Symbols == {NUL} \cup Chars \cup UNION {Range(w) : w \in Words}
Buffer == 1 .. LineSize
Blank == [i \in Buffer |-> NUL]

ASSUME LineEditorAssumption ==
  /\ {LineSize, HeapBlocks} \subseteq Nat \ {0} /\ {MaxHistory, LineBytes, OwnBytes, FilePos} \subseteq Nat
  /\ Commands \in Seq(Range(Commands)) /\ Files \in Seq(Range(Files))
  /\ \A w \in Words : w \in Seq(Range(w)) /\ NUL \notin Range(w)
  /\ StaleLines \subseteq [Buffer -> Symbols]

TypeOK ==
  /\ line \in [Buffer -> Symbols] /\ n \in 0 .. LineSize
  /\ lines \in [1 .. MaxHistory -> {NULL} \cup DOMAIN blk]
  /\ count \in 0 .. MaxHistory /\ current \in 0 .. count
  /\ DOMAIN text = DOMAIN blk /\ own \in {NULL} \cup DOMAIN blk /\ oops \in BOOLEAN

Init ==
  /\ line \in StaleLines /\ n = 0 /\ screen = << >>
  /\ lines = [i \in 1 .. MaxHistory |-> NULL] /\ count = 0 /\ current = 0
  /\ blk = RawHeap(HeapBlocks) /\ text = [i \in 1 .. HeapBlocks |-> << >>]
  /\ own = NULL /\ delivered = << >> /\ oops = FALSE
-----------------------------------------------------------------------------
(***************************************************************************)
(* Texts in buffers.                                                       *)
(***************************************************************************)

\* strlen and %s stop at the first NUL; without one they leave the buffer.
Terminated(b) == \E i \in DOMAIN b : b[i] = NUL
StringOf(b) == SubSeq(b, 1, SelectInSeq(b, LAMBDA c : c = NUL) - 1)

\* strcpy of s to b from position at on, which must leave room for the NUL.
Fits(at, s) == at + Len(s) <= LineSize
Copied(b, at, s) ==
  [i \in Buffer |-> IF i \in at .. at + Len(s) - 1 THEN s[i - at + 1]
                    ELSE IF i = at + Len(s) THEN NUL ELSE b[i]]

\* strncmp(s, t, k) == 0: a negative k is a huge size_t.
Same(s, t, k) ==
  s = t \/ (k \in 0 .. Len(s) /\ k <= Len(t) /\ SubSeq(s, 1, k) = SubSeq(t, 1, k))
Matches(s, table, k) == {i \in DOMAIN table : Same(s, table[i], k)}

\* auto_complete, first for the command and then for the file name; for every
\* line but those of edit, as the comparison with "edit " lacks its == 0.  The
\* results are the place and the text to be put there.
CommandPart(s, k) ==
  IF Matches(s, Commands, k) = {} THEN s ELSE Commands[Min(Matches(s, Commands, k))]
Space(s) == SelectInSeq(s, LAMBDA c : c = " ")
FilePart(s, k) ==
  LET name == SubSeq(s, Space(s) + 1, Len(s))
      found == Matches(name, Files, k - FilePos)
  IN  IF Space(s) = 0 \/ IsPrefix(EditCommand, s) \/ found = {} THEN s
      ELSE SubSeq(s, 1, Space(s)) \o Files[Min(found)]
AutoComplete(s, k) == FilePart(CommandPart(s, k), k)
-----------------------------------------------------------------------------
Oops == oops' = TRUE /\ delivered' = << >> /\ UNCHANGED <<line, n, screen, hist>>

\* The line becomes s, on the screen as well.
Redraw(s) ==
  /\ line' = Copied(line, 1, s) /\ n' = Len(s) /\ screen' = s
  /\ delivered' = << >> /\ UNCHANGED oops

Type(c) ==
  \/ /\ n < LineSize
     /\ line' = [line EXCEPT ![n + 1] = c] /\ n' = n + 1
     /\ screen' = IF c = NUL THEN screen ELSE Append(screen, c)
     /\ delivered' = << >> /\ UNCHANGED <<hist, oops>>
  \/ n = LineSize /\ Oops

Backspace ==
  /\ n > 0
  /\ n' = n - 1 /\ screen' = IF screen = << >> THEN screen ELSE Front(screen)
  /\ delivered' = << >> /\ UNCHANGED <<line, hist, oops>>

\* Nothing ends the line behind char_in_line: what was erased is back when no
\* entry of the tables fits.
Tab ==
  /\ n > 0
  /\ LET s == AutoComplete(StringOf(line), n) IN
     IF Terminated(line) /\ Fits(1, s) THEN Redraw(s) /\ UNCHANGED hist ELSE Oops

\* (Fault for a mutant: char_in_line stays.)
Show_OldLength(k) ==
  /\ line' = Copied(line, 1, text[lines[k + 1]]) /\ screen' = text[lines[k + 1]]
  /\ current' = k
  /\ delivered' = << >> /\ UNCHANGED <<n, lines, count, blk, text, own, oops>>
Show(k) ==
  /\ Redraw(text[lines[k + 1]])
  /\ current' = k
  /\ UNCHANGED <<lines, count, blk, text, own>>

Up == count > 0 /\ Show(IF current > 0 THEN current - 1 ELSE 0)

\* Behind the newest entry lines[count] is a null pointer.
Down ==
  /\ count > 0
  /\ LET k == IF current < count - 1 THEN current + 1 ELSE current IN
     IF k < count THEN Show(k) ELSE Oops

\* parse_cmd gets the line, and main clears it.
HandOver(b) ==
  /\ delivered' = StringOf(b)
  /\ line' = Blank /\ n' = 0 /\ screen' = << >>
  /\ UNCHANGED oops

\* An empty line is handed over as it is, with what was erased.
EnterEmpty ==
  /\ n = 0
  /\ IF Terminated(line) THEN HandOver(line) /\ UNCHANGED hist ELSE Oops

\* (Fault for a mutant: the position in the history is not reset.)
Recorded_SameCurrent(m, s) ==
  /\ text' = [text EXCEPT ![m.ptr] = s]
  /\ count' = count + 1 /\ UNCHANGED current
Recorded(m, s) ==
  /\ text' = [text EXCEPT ![m.ptr] = s]
  /\ count' = count + 1 /\ current' = count + 1

\* A full history is written behind its end, over count and current.
Enter ==
  /\ n > 0
  /\ IF n = LineSize \/ count = MaxHistory THEN Oops
     ELSE LET b == [line EXCEPT ![n + 1] = NUL]
              m == Malloc(blk, LineBytes)
          IN  /\ lines' = [lines EXCEPT ![count + 1] = m.ptr]
              /\ blk' = m.heap
              /\ IF m.ptr = NULL THEN UNCHANGED <<text, count, current>>
                 ELSE Recorded(m, StringOf(b))
              /\ HandOver(b) /\ UNCHANGED own

\* Between two lines the program takes and gives back memory of its own.
Own(ptr, heap) ==
  /\ n = 0
  /\ own' = ptr /\ blk' = heap
  /\ text' = IF ptr = NULL THEN text ELSE [text EXCEPT ![ptr] = << >>]
  /\ delivered' = << >> /\ UNCHANGED <<line, n, screen, lines, count, current, oops>>
TakeOwn == own = NULL /\ LET m == Malloc(blk, OwnBytes) IN Own(m.ptr, m.heap)
FreeOwn == own # NULL /\ Own(NULL, Free(blk, own))

Key == (\E c \in Chars : Type(c)) \/ Backspace \/ Tab \/ Up \/ Down \/ EnterEmpty \/ Enter

Next == ~oops /\ (Key \/ TakeOwn \/ FreeOwn)

Spec == Init /\ [][Next]_vars
-----------------------------------------------------------------------------
(***************************************************************************)
(* Properties.                                                             *)
(***************************************************************************)

\* What the terminal shows is the line, through every key, though completion,
\* recall and backspace each write both on their own.
Wysiwyg == screen = SubSeq(line, 1, n)

Held == {lines[i] : i \in 1 .. count} \cup ({own} \ {NULL})
Extent(p) == p .. p + Needed(blk[p].size) - 1

\* Each text of the history and the program's own memory have a run of blocks
\* that nobody else was given, in any order of malloc and free; and no block
\* is lost.
HeapExact ==
  /\ Cardinality(Held) = count + (IF own = NULL THEN 0 ELSE 1) /\ NULL \notin Held
  /\ \A p, q \in Held : p # q => Extent(p) \cap Extent(q) = {}
  /\ blk[1].magic => \A i \in DOMAIN blk \ UNION {Extent(p) : p \in Held} : IsFreeBlock(blk, i)

Promise == INSTANCE Editor WITH
             text <- SubSeq(line, 1, n), past <- [i \in 1 .. count |-> text[lines[i]]],
             cursor <- current, delivered <- delivered,
             Words <- Words,
             room <- FreeRuns(Formatted(blk), Needed(LineBytes)) # {}

\* readline implements an editor: the program gets the text that was on the
\* line, and each text can be recalled in its order.
ImplementsEditor == Promise!Spec
=============================================================================
