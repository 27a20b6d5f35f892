------------------------- MODULE UserProgramProofs -------------------------
(***************************************************************************)
(* What the program of main.c guarantees, in its two parts.                *)
(*                                                                         *)
(* readline, for every table of words, every length of the line and of the *)
(* history and every heap whose requests fit one block: the terminal shows *)
(* the line, the history's blocks are its own, and the program sees an     *)
(* editor.  The shell, for every number of processes and every size of the *)
(* tables: one process has the console, files are closed at the prompt,    *)
(* and edits go where they were meant.                                     *)
(***************************************************************************)
EXTENDS LineEditor, Shell, FiniteSetTheorems, WellFoundedInduction, SequenceTheorems,
        TLAPS

\* A bounded set of naturals that is not empty has a least element.
LEMMA LeastElement ==
  ASSUME NEW top \in Nat, NEW S \in SUBSET (0 .. top), S # {}
  PROVE  \E x \in S : \A y \in S : x <= y
<1>1. S \subseteq Nat
  OBVIOUS
<1>2. PICK x \in S : \A y \in S : ~ (<<y, x>> \in OpToRel(<, Nat))
  BY <1>1, NatLessThanWellFounded, WFMin, Zenon
<1>3. \A y \in S : ~ (y < x)
  BY <1>1, <1>2, Zenon DEF OpToRel
<1> QED BY <1>1, <1>3

Letters == Symbols \ {NUL}

-----------------------------------------------------------------------------
(***************************************************************************)
(* Texts in buffers.                                                       *)
(***************************************************************************)
\* Command and file names are texts.
LEMMA WordsAreTexts ==
  ASSUME NEW w \in Words
  PROVE  w \in Seq(Letters)
<1>1. w \in Seq(Range(w)) /\ NUL \notin Range(w)
  BY LineEditorAssumption
<1>2. Range(w) \subseteq Letters
  BY <1>1 DEF Letters, Symbols
<1> QED BY <1>1, <1>2, SeqMonotonic

\* The string in a buffer is what stands before its first NUL.
LEMMA StringInBuffer ==
  ASSUME NEW b \in [Buffer -> Symbols], Terminated(b)
  PROVE  \E j \in Buffer : /\ b[j] = NUL /\ \A i \in 1 .. j - 1 : b[i] # NUL
                           /\ StringOf(b) = SubSeq(b, 1, j - 1)
                           /\ StringOf(b) \in Seq(Letters) /\ Len(StringOf(b)) = j - 1
<1>1. PICK N \in Nat : N = LineSize /\ Buffer = 1 .. N
  BY LineEditorAssumption DEF Buffer
<1>2. DOMAIN b = 1 .. N /\ Len(b) = N
  BY <1>1
<1>3. PICK I \in SUBSET (1 .. N) : I = {i \in 1 .. N : b[i] = NUL} /\ I # {}
  BY <1>1, <1>2 DEF Terminated
<1>4. PICK j \in I : j = Min(I) /\ \A y \in I : j <= y
  <2>1. I \in SUBSET (0 .. N)
    OBVIOUS
  <2>2. PICK x \in I : \A y \in I : x <= y
    BY <1>3, <2>1, LeastElement
  <2>3. PICK m : m = Min(I)
    OBVIOUS
  <2>4. m \in I /\ \A y \in I : m <= y
    BY <2>2, <2>3 DEF Min
  <2> QED BY <2>3, <2>4
<1>5. j \in 1 .. N /\ b[j] = NUL /\ \A i \in 1 .. j - 1 : b[i] # NUL
  BY <1>3, <1>4
<1>6. SelectInSeq(b, LAMBDA c : c = NUL) = j
  BY <1>2, <1>3, <1>4 DEF SelectInSeq
<1>7. StringOf(b) = SubSeq(b, 1, j - 1)
  BY <1>6 DEF StringOf
<1>8. SubSeq(b, 1, j - 1) \in Seq(Letters) /\ Len(SubSeq(b, 1, j - 1)) = j - 1
  <2>1. 1 \in Int /\ j - 1 \in Int /\ \A i \in 1 .. j - 1 : b[i] \in Letters
    BY <1>1, <1>5 DEF Letters
  <2> QED BY <1>5, <2>1, SubSeqProperties
<1> QED BY <1>1, <1>5, <1>7, <1>8

\* A text that fits is what strcpy leaves at the front of the line.
LEMMA CopiedText ==
  ASSUME NEW b \in [Buffer -> Symbols], NEW s \in Seq(Letters), Fits(1, s)
  PROVE  /\ Copied(b, 1, s) \in [Buffer -> Symbols] /\ Len(s) \in 0 .. LineSize
         /\ SubSeq(Copied(b, 1, s), 1, Len(s)) = s
         /\ \A i \in 1 .. Len(s) : Copied(b, 1, s)[i] # NUL
<1>1. PICK N \in Nat : N = LineSize /\ Buffer = 1 .. N
  BY LineEditorAssumption DEF Buffer
<1>2. PICK k \in Nat : k = Len(s) /\ k + 1 <= N /\ \A i \in 1 .. k : s[i] \in Letters
  BY <1>1, LenProperties, ElementOfSeq DEF Fits
<1>3. PICK c : c = Copied(b, 1, s)
  OBVIOUS
<1>4. c = [i \in 1 .. N |-> IF i \in 1 .. k THEN s[i] ELSE IF i = 1 + k THEN NUL ELSE b[i]]
  <2>1. c = [i \in 1 .. N |-> IF i \in 1 .. 1 + k - 1 THEN s[i - 1 + 1] ELSE IF i = 1 + k THEN NUL ELSE b[i]]
    BY <1>1, <1>2, <1>3 DEF Copied
  <2>2. \A i \in 1 .. N : (i \in 1 .. 1 + k - 1 <=> i \in 1 .. k) /\ i - 1 + 1 = i
    BY <1>2
  <2> QED BY <2>1, <2>2
<1>5. c \in [1 .. N -> Symbols]
  <2>1. NUL \in Symbols /\ \A i \in 1 .. k : s[i] \in Symbols
    BY <1>2 DEF Symbols, Letters
  <2>2. \A i \in 1 .. N : b[i] \in Symbols
    BY <1>1
  <2> QED BY <1>4, <2>1, <2>2
<1>6. \A i \in 1 .. k : c[i] = s[i]
  BY <1>2, <1>4
<1>7. PICK t : t = SubSeq(c, 1, k)
  OBVIOUS
<1>8. t \in Seq(Letters) /\ Len(t) = k /\ \A i \in 1 .. k : t[i] = s[i]
  <2>1. 1 \in Int /\ k \in Int /\ \A i \in 1 .. k : c[i] \in Letters
    BY <1>2, <1>6
  <2>2. t \in Seq(Letters) /\ (Len(t) = IF 1 <= k THEN k - 1 + 1 ELSE 0)
        /\ \A i \in 1 .. k - 1 + 1 : t[i] = c[1 + i - 1]
    BY <1>7, <2>1, SubSeqProperties
  <2> QED BY <1>2, <1>6, <2>2
<1>9. t = s
  BY <1>2, <1>8, SeqEqual
<1> QED BY <1>1, <1>2, <1>3, <1>5, <1>6, <1>7, <1>9 DEF Letters

\* The end of a text that was put together.
LEMMA SuffixOfConcat ==
  ASSUME NEW S, NEW s \in Seq(S), NEW w \in Seq(S)
  PROVE  IsSuffix(w, s \o w)
<1>1. PICK k \in Nat, m \in Nat : k = Len(w) /\ m = Len(s)
  BY LenProperties
<1>2. PICK t : t = s \o w
  OBVIOUS
<1>3. t \in Seq(S) /\ Len(t) = m + k
      /\ \A i \in 1 .. m + k : t[i] = IF i <= m THEN s[i] ELSE w[i - m]
  BY <1>1, <1>2, ConcatProperties
<1>4. PICK a, b : a = Reverse(w) /\ b = Reverse(t)
  OBVIOUS
<1>5. a \in Seq(S) /\ Len(a) = k /\ \A i \in 1 .. k : a[i] = w[k - i + 1]
  <2>1. a = [i \in 1 .. k |-> w[(k - i) + 1]]
    BY <1>1, <1>4 DEF Reverse
  <2>2. \A i \in 1 .. k : (k - i) + 1 \in 1 .. k
    BY <1>1
  <2>3. \A i \in 1 .. k : w[(k - i) + 1] \in S
    BY <1>1, <2>2, ElementOfSeq
  <2>4. a \in [1 .. k -> S]
    BY <2>1, <2>3
  <2> QED BY <1>1, <2>1, <2>4
<1>6. b \in Seq(S) /\ Len(b) = m + k /\ \A i \in 1 .. m + k : b[i] = t[m + k - i + 1]
  <2>1. b = [i \in 1 .. m + k |-> t[(m + k - i) + 1]]
    BY <1>3, <1>4 DEF Reverse
  <2>2. \A i \in 1 .. m + k : (m + k - i) + 1 \in 1 .. m + k
    BY <1>1
  <2>3. \A i \in 1 .. m + k : t[(m + k - i) + 1] \in S
    BY <1>3, <2>2, ElementOfSeq
  <2>4. b \in [1 .. m + k -> S]
    BY <2>1, <2>3
  <2> QED BY <1>1, <2>1, <2>4
<1>7. \A i \in 1 .. k : b[i] = a[i] /\ b[i] \in S
  <2> SUFFICES ASSUME NEW i \in 1 .. k PROVE b[i] = a[i] /\ b[i] \in S
    OBVIOUS
  <2>1. b[i] = t[m + k - i + 1]
    BY <1>1, <1>6
  <2>2. PICK j \in 1 .. m + k : j = m + k - i + 1 /\ ~(j <= m) /\ j - m = k - i + 1
    <3>1. m + k - i + 1 \in 1 .. m + k /\ ~(m + k - i + 1 <= m) /\ m + k - i + 1 - m = k - i + 1
      BY <1>1
    <3> QED BY <3>1
  <2>3. t[j] = w[k - i + 1]
    BY <1>3, <2>2
  <2>4. a[i] \in S
    BY <1>5, ElementOfSeq
  <2> QED BY <1>5, <2>1, <2>2, <2>3, <2>4
<1>8. SubSeq(a, 1, k) = a
  BY <1>5, SubSeqFull
<1>9. PICK u : u = SubSeq(b, 1, k)
  OBVIOUS
<1>10. u \in Seq(S) /\ Len(u) = k /\ \A i \in 1 .. k : u[i] = b[i]
  <2>1. 1 \in Int /\ k \in Int
    OBVIOUS
  <2>2. u \in Seq(S) /\ (Len(u) = IF 1 <= k THEN k - 1 + 1 ELSE 0)
        /\ \A i \in 1 .. k - 1 + 1 : u[i] = b[1 + i - 1]
    BY <1>7, <1>9, <2>1, SubSeqProperties
  <2> QED BY <1>1, <2>2
<1>11. u = a
  BY <1>5, <1>7, <1>10, SeqEqual
<1> QED BY <1>1, <1>2, <1>4, <1>5, <1>6, <1>8, <1>9, <1>11 DEF IsSuffix, IsPrefix

\* Every text is a prefix and a suffix of itself.
LEMMA WholeText ==
  ASSUME NEW S, NEW s \in Seq(S)
  PROVE  IsPrefix(s, s) /\ IsSuffix(s, s)
<1>1. IsSuffix(s, << >> \o s)
  BY EmptySeq, SuffixOfConcat
<1>2. << >> \o s = s
  BY ConcatEmptySeq
<1>3. Len(s) \in Nat
  BY LenProperties
<1> QED BY <1>1, <1>2, <1>3 DEF IsPrefix

\* Completion leaves a text, the one that was there or one with a word at its end.
LEMMA CompletedText ==
  ASSUME NEW s \in Seq(Letters), NEW k \in Int
  PROVE  /\ AutoComplete(s, k) \in Seq(Letters)
         /\ AutoComplete(s, k) = s \/ \E w \in Words : IsSuffix(w, AutoComplete(s, k))
<1>1. ASSUME NEW table, table \in Seq(Range(table)), NEW M \in SUBSET DOMAIN table, M # {}
      PROVE  table[Min(M)] \in Range(table)
  <2>1. PICK l \in Nat : l = Len(table) /\ DOMAIN table = 1 .. l
    BY <1>1, LenProperties
  <2>2. M \in SUBSET (0 .. l)
    BY <2>1
  <2>3. PICK x \in M : \A y \in M : x <= y
    BY <1>1, <2>1, <2>2, LeastElement
  <2>4. Min(M) \in M
    BY <2>3 DEF Min
  <2> QED BY <2>4 DEF Range
<1>2. PICK c : c = CommandPart(s, k)
  OBVIOUS
<1>3. c = s \/ c \in Words
  <2>1. Matches(s, Commands, k) \in SUBSET DOMAIN Commands
    BY DEF Matches
  <2> QED BY <1>1, <1>2, <2>1, LineEditorAssumption DEF CommandPart, Words
<1>4. c \in Seq(Letters)
  BY <1>3, WordsAreTexts
<1>5. PICK r : r = FilePart(c, k)
  OBVIOUS
<1>6. CASE r = c
  <2>1. c \in Words => IsSuffix(c, c)
    BY <1>4, WholeText
  <2> QED BY <1>2, <1>3, <1>4, <1>5, <1>6, <2>1 DEF AutoComplete
<1>7. CASE r # c
  <2>1. PICK M \in SUBSET DOMAIN Files : M = Matches(SubSeq(c, Space(c) + 1, Len(c)), Files, k - FilePos)
    BY DEF Matches
  <2>2. Space(c) # 0 /\ M # {} /\ r = SubSeq(c, 1, Space(c)) \o Files[Min(M)]
    BY <1>5, <1>7, <2>1 DEF FilePart
  <2>3. Files[Min(M)] \in Words
    BY <1>1, <2>2, LineEditorAssumption DEF Words
  <2>4. SubSeq(c, 1, Space(c)) \in Seq(Letters)
    <3>1. PICK l \in Nat : l = Len(c)
      BY <1>4, LenProperties
    <3>2. PICK I \in SUBSET (1 .. l) : I = {i \in 1 .. l : c[i] = " "}
      OBVIOUS
    <3>3. Space(c) = IF I # {} THEN Min(I) ELSE 0
      BY <3>1, <3>2 DEF Space, SelectInSeq
    <3>4. I # {} /\ Space(c) = Min(I)
      BY <2>2, <3>3
    <3>5. PICK x \in I : \A y \in I : x <= y
      <4>1. I \in SUBSET (0 .. l)
        OBVIOUS
      <4> QED BY <3>4, <4>1, LeastElement
    <3>6. Space(c) \in 1 .. l
      BY <3>4, <3>5 DEF Min
    <3>7. PICK z \in 1 .. l : z = Space(c)
      BY <3>6
    <3>8. 1 \in Int /\ z \in Int /\ \A i \in 1 .. z : c[i] \in Letters
      BY <1>4, <3>1, ElementOfSeq
    <3> QED BY <3>7, <3>8, SubSeqProperties
  <2>5. Files[Min(M)] \in Seq(Letters)
    BY <2>3, WordsAreTexts
  <2>6. r \in Seq(Letters) /\ IsSuffix(Files[Min(M)], r)
    BY <2>2, <2>4, <2>5, ConcatProperties, SuffixOfConcat
  <2> QED BY <1>2, <1>5, <2>3, <2>6 DEF AutoComplete
<1> QED BY <1>6, <1>7
-----------------------------------------------------------------------------
(***************************************************************************)
(* The line and the screen.                                                *)
(***************************************************************************)
\* The line as the user sees it has no NUL, and what the history's blocks
\* hold are texts that fit it.
LineInv ==
  /\ line \in [Buffer -> Symbols] /\ n \in 0 .. LineSize /\ delivered \in Seq(Letters)
  /\ \A i \in 1 .. n : line[i] # NUL
  /\ screen = SubSeq(line, 1, n)
  /\ text = [b \in 1 .. HeapBlocks |-> text[b]]
  /\ \A b \in 1 .. HeapBlocks : text[b] \in Seq(Letters) /\ Len(text[b]) < LineSize

\* What is on the line is a text.
LEMMA LineIsText ==
  ASSUME LineInv
  PROVE  SubSeq(line, 1, n) \in Seq(Letters) /\ Len(SubSeq(line, 1, n)) = n
         /\ \A i \in 1 .. n : SubSeq(line, 1, n)[i] = line[i]
<1>1. n \in Nat /\ 1 \in Int /\ \A i \in 1 .. n : line[i] \in Letters
  BY LineEditorAssumption DEF LineInv, Buffer, Letters
<1>2. PICK s : s = SubSeq(line, 1, n)
  OBVIOUS
<1>3. s \in Seq(Letters) /\ (Len(s) = IF 1 <= n THEN n - 1 + 1 ELSE 0)
      /\ \A i \in 1 .. n - 1 + 1 : s[i] = line[1 + i - 1]
  BY <1>1, <1>2, SubSeqProperties
<1> QED BY <1>1, <1>2, <1>3

\* Two lines that agree up to a place have the same text there.
LEMMA SameText ==
  ASSUME NEW S, NEW a, NEW b, NEW k \in Nat, \A i \in 1 .. k : a[i] = b[i] /\ b[i] \in S
  PROVE  SubSeq(a, 1, k) = SubSeq(b, 1, k)
<1>1. PICK s, t : s = SubSeq(a, 1, k) /\ t = SubSeq(b, 1, k)
  OBVIOUS
<1>2. 1 \in Int /\ k \in Int /\ \A i \in 1 .. k : a[i] \in S /\ b[i] \in S
  OBVIOUS
<1>3. s \in Seq(S) /\ (Len(s) = IF 1 <= k THEN k - 1 + 1 ELSE 0)
      /\ \A i \in 1 .. k - 1 + 1 : s[i] = a[1 + i - 1]
  BY <1>1, <1>2, SubSeqProperties
<1>4. t \in Seq(S) /\ (Len(t) = IF 1 <= k THEN k - 1 + 1 ELSE 0)
      /\ \A i \in 1 .. k - 1 + 1 : t[i] = b[1 + i - 1]
  BY <1>1, <1>2, SubSeqProperties
<1>5. Len(s) = k /\ Len(t) = k /\ \A i \in 1 .. k : s[i] = t[i]
  BY <1>3, <1>4
<1> QED BY <1>1, <1>3, <1>4, <1>5, SeqEqual

LEMMA LineInvInit == Init => LineInv
<1> SUFFICES ASSUME Init PROVE LineInv
  OBVIOUS
<1>1. line \in [Buffer -> Symbols] /\ n = 0 /\ n \in 0 .. LineSize
  BY LineEditorAssumption DEF Init
<1>2. SubSeq(line, 1, 0) = << >>
  BY SubSeqEmpty
<1>3. << >> \in Seq(Letters) /\ Len(<< >>) = 0
  BY EmptySeq
<1>4. text = [b \in 1 .. HeapBlocks |-> << >>]
  BY DEF Init
<1>5. 0 < LineSize
  BY LineEditorAssumption
<1> QED BY <1>1, <1>2, <1>3, <1>4, <1>5 DEF Init, LineInv

\* Any text that fits may be drawn.
LEMMA RedrawKeeps ==
  ASSUME LineInv, NEW s \in Seq(Letters), Fits(1, s), Redraw(s), UNCHANGED text
  PROVE  LineInv' /\ SubSeq(line', 1, n') = s
<1>1. line' = Copied(line, 1, s) /\ n' = Len(s) /\ screen' = s /\ delivered' = << >>
  BY DEF Redraw
<1>2. /\ line' \in [Buffer -> Symbols] /\ n' \in 0 .. LineSize /\ SubSeq(line', 1, n') = s
      /\ \A i \in 1 .. n' : line'[i] # NUL
  BY <1>1, CopiedText DEF LineInv
<1>3. delivered' \in Seq(Letters)
  BY <1>1, EmptySeq
<1> QED BY <1>1, <1>2, <1>3 DEF LineInv

\* What the program gets when Enter ends the line is what is on it.
LEMMA HandedText ==
  ASSUME LineInv, NEW b, n < LineSize, b = [line EXCEPT ![n + 1] = NUL]
  PROVE  StringOf(b) = SubSeq(line, 1, n) /\ b \in [Buffer -> Symbols]
<1>1. PICK N \in Nat : N = LineSize /\ Buffer = 1 .. N /\ n \in 0 .. N - 1
  BY LineEditorAssumption DEF Buffer, LineInv
<1>2. NUL \in Symbols
  BY DEF Symbols
<1>3. /\ b \in [Buffer -> Symbols] /\ b[n + 1] = NUL /\ n + 1 \in Buffer
      /\ \A i \in 1 .. n : b[i] = line[i] /\ line[i] # NUL
  BY <1>1, <1>2 DEF LineInv
<1>4. Terminated(b)
  BY <1>3 DEF Terminated
<1>5. PICK j \in Buffer : /\ b[j] = NUL /\ \A i \in 1 .. j - 1 : b[i] # NUL
                          /\ StringOf(b) = SubSeq(b, 1, j - 1)
  BY <1>3, <1>4, StringInBuffer
<1>6. j = n + 1 /\ j - 1 = n
  BY <1>1, <1>3, <1>5
<1>7. \A i \in 1 .. n : line[i] \in Symbols
  BY <1>1 DEF LineInv
<1>8. n \in Nat
  BY <1>1
<1>9. SubSeq(b, 1, n) = SubSeq(line, 1, n)
  BY <1>3, <1>7, <1>8, SameText
<1> QED BY <1>3, <1>5, <1>6, <1>9

LEMMA BlankLine ==
  ASSUME LineInv, line' = Blank, n' = 0, screen' = << >>, delivered' \in Seq(Letters),
         text' = [b \in 1 .. HeapBlocks |-> text'[b]],
         \A b \in 1 .. HeapBlocks : text'[b] \in Seq(Letters) /\ Len(text'[b]) < LineSize
  PROVE  LineInv' /\ SubSeq(line', 1, n') = << >>
<1>1. line' \in [Buffer -> Symbols] /\ n' \in 0 .. LineSize
  BY LineEditorAssumption DEF Blank, Symbols
<1>2. SubSeq(line', 1, n') = << >>
  BY SubSeqEmpty
<1>3. \A i \in 1 .. n' : line'[i] # NUL
  OBVIOUS
<1> QED BY <1>1, <1>2, <1>3 DEF LineInv
-----------------------------------------------------------------------------
(***************************************************************************)
(* The history's list.                                                     *)
(***************************************************************************)
Blocks == 1 .. HeapBlocks

ListInv ==
  /\ count \in 0 .. MaxHistory /\ current \in 0 .. count
  /\ lines = [i \in 1 .. MaxHistory |-> lines[i]]
  /\ \A i \in 1 .. count : lines[i] \in Blocks
  /\ own \in {NULL} \cup Blocks
  /\ blk = [b \in Blocks |-> blk[b]]

\* malloc of any size keeps the number of blocks and returns one of them or NULL.
LEMMA MallocReturns ==
  ASSUME NEW h, h = [b \in Blocks |-> h[b]], NEW size
  PROVE  /\ Malloc(h, size).ptr \in {NULL} \cup Blocks
         /\ Malloc(h, size).heap = [b \in Blocks |-> Malloc(h, size).heap[b]]
<1>1. PICK N \in Nat : N = HeapBlocks /\ Blocks = 1 .. N
  BY LineEditorAssumption DEF Blocks
<1>2. PICK f : f = Formatted(h) /\ f = [b \in Blocks |-> f[b]]
  BY DEF Formatted
<1>3. PICK runs \in SUBSET Blocks : runs = FreeRuns(f, Needed(size))
  BY <1>2 DEF FreeRuns
<1>4. CASE runs = {}
  BY <1>2, <1>3, <1>4 DEF Malloc
<1>5. CASE runs # {}
  <2>1. PICK x \in runs : \A y \in runs : x <= y
    <3>1. runs \in SUBSET (0 .. N)
      BY <1>1
    <3> QED BY <1>5, <3>1, LeastElement
  <2>2. Min(runs) \in runs
    BY <2>1 DEF Min
  <2>3. Malloc(h, size) = [heap |-> Taken(f, Min(runs), size), ptr |-> Min(runs)]
    BY <1>2, <1>3, <1>5 DEF Malloc
  <2>4. Taken(f, Min(runs), size) = [b \in Blocks |-> Taken(f, Min(runs), size)[b]]
    BY <1>2 DEF Taken
  <2> QED BY <2>2, <2>3, <2>4
<1> QED BY <1>4, <1>5

LEMMA ListInvInit == Init => ListInv
BY LineEditorAssumption DEF Init, ListInv, RawHeap, Blocks

Inv == LineInv /\ ListInv

\* What Enter adds to the history fits a line and has a block.
LEMMA EnterKeeps ==
  ASSUME Inv, Enter PROVE Inv'
<1> USE DEF Inv
<1>1. PICK N \in Nat \ {0} : N = LineSize /\ n \in 1 .. N
  BY LineEditorAssumption DEF LineInv, Enter
<1>2. CASE Oops
  BY <1>2, EmptySeq DEF Oops, LineInv, ListInv, hist
<1>3. CASE ~Oops
  <2>1. /\ n # LineSize /\ count # MaxHistory
        /\ \E b, m : /\ b = [line EXCEPT ![n + 1] = NUL] /\ m = Malloc(blk, LineBytes)
                     /\ lines' = [lines EXCEPT ![count + 1] = m.ptr]
                     /\ blk' = m.heap
                     /\ IF m.ptr = NULL THEN UNCHANGED <<text, count, current>>
                        ELSE Recorded(m, StringOf(b))
                     /\ HandOver(b) /\ UNCHANGED own
    BY <1>3 DEF Enter
  <2>2. PICK b, m : /\ b = [line EXCEPT ![n + 1] = NUL] /\ m = Malloc(blk, LineBytes)
                    /\ lines' = [lines EXCEPT ![count + 1] = m.ptr]
                    /\ blk' = m.heap
                    /\ IF m.ptr = NULL THEN UNCHANGED <<text, count, current>>
                       ELSE Recorded(m, StringOf(b))
                    /\ HandOver(b) /\ UNCHANGED own
    BY <2>1
  <2>3. PICK s \in Seq(Letters) : s = StringOf(b) /\ Len(s) < LineSize /\ s = SubSeq(line, 1, n)
    <3>1. n < LineSize
      BY <1>1, <2>1
    <3>2. StringOf(b) = SubSeq(line, 1, n)
      BY <2>2, <3>1, HandedText
    <3> QED BY <3>1, <3>2, LineIsText
  <2>4. m.ptr \in {NULL} \cup Blocks /\ blk' = [x \in Blocks |-> blk'[x]]
    BY <2>2, MallocReturns DEF ListInv
  <2>5. /\ line' = Blank /\ n' = 0 /\ screen' = << >> /\ delivered' \in Seq(Letters)
    BY <2>2, <2>3 DEF HandOver
  <2>6. /\ text' = [x \in 1 .. HeapBlocks |-> text'[x]]
        /\ \A x \in 1 .. HeapBlocks : text'[x] \in Seq(Letters) /\ Len(text'[x]) < LineSize
    <3>1. /\ text = [x \in 1 .. HeapBlocks |-> text[x]]
          /\ \A x \in 1 .. HeapBlocks : text[x] \in Seq(Letters) /\ Len(text[x]) < LineSize
      BY DEF LineInv
    <3>2. CASE m.ptr = NULL
      BY <2>2, <3>1, <3>2
    <3>3. CASE m.ptr # NULL
      <4>1. text' = [text EXCEPT ![m.ptr] = s]
        BY <2>2, <2>3, <3>3 DEF Recorded
      <4>2. text' = [x \in 1 .. HeapBlocks |-> IF x = m.ptr THEN s ELSE text[x]]
        BY <3>1, <4>1
      <4> QED BY <2>3, <3>1, <4>2
    <3> QED BY <3>2, <3>3
  <2>7. LineInv'
    BY <2>5, <2>6, BlankLine
  <2>8. ListInv'
    <3>1. /\ count \in 0 .. MaxHistory - 1 /\ MaxHistory \in Nat /\ current \in 0 .. count
          /\ lines = [i \in 1 .. MaxHistory |-> lines[i]]
          /\ \A i \in 1 .. count : lines[i] \in Blocks
      <4>1. MaxHistory \in Nat
        BY LineEditorAssumption
      <4>2. count \in 0 .. MaxHistory /\ count # MaxHistory /\ current \in 0 .. count
        BY <2>1 DEF ListInv
      <4>3. lines = [i \in 1 .. MaxHistory |-> lines[i]] /\ \A i \in 1 .. count : lines[i] \in Blocks
        BY DEF ListInv
      <4>4. count \in 0 .. MaxHistory - 1
        BY <4>1, <4>2
      <4> QED BY <4>1, <4>2, <4>3, <4>4
    <3>2. lines' = [i \in 1 .. MaxHistory |-> IF i = count + 1 THEN m.ptr ELSE lines[i]]
      BY <2>2, <3>1
    <3>3. ASSUME NEW i \in 1 .. count PROVE lines'[i] \in Blocks
      <4>1. i \in 1 .. MaxHistory /\ i # count + 1
        BY <3>1
      <4>2. lines'[i] = lines[i]
        BY <3>2, <4>1
      <4> QED BY <3>1, <4>2
    <3>4. own' \in {NULL} \cup Blocks
      BY <2>2 DEF ListInv
    <3>5. CASE m.ptr = NULL
      <4>1. UNCHANGED <<count, current>>
        BY <2>2, <3>5
      <4> QED BY <2>4, <3>1, <3>2, <3>3, <3>4, <4>1 DEF ListInv
    <3>6. CASE m.ptr # NULL
      <4>1. count' = count + 1 /\ current' = count + 1
        BY <2>2, <3>6 DEF Recorded
      <4>2. count' \in 0 .. MaxHistory /\ current' \in 0 .. count'
        BY <3>1, <4>1
      <4>3. \A i \in 1 .. count' : lines'[i] \in Blocks
        <5>1. lines'[count + 1] = m.ptr /\ m.ptr \in Blocks
          BY <2>4, <3>1, <3>2, <3>6
        <5>2. \A i \in 1 .. count + 1 : i = count + 1 \/ i \in 1 .. count
          BY <3>1
        <5> QED BY <3>3, <4>1, <5>1, <5>2
      <4> QED BY <2>4, <3>2, <3>4, <4>2, <4>3 DEF ListInv
    <3> QED BY <3>5, <3>6
  <2> QED BY <2>7, <2>8
<1> QED BY <1>2, <1>3
\* Memory that the program takes or gives back is none of the history's business.
LEMMA OwnKeeps ==
  ASSUME Inv, NEW ptr \in {NULL} \cup Blocks, NEW h, h = [b \in Blocks |-> h[b]], Own(ptr, h)
  PROVE  Inv' /\ SubSeq(line', 1, n') = SubSeq(line, 1, n)
<1>1. /\ own' = ptr /\ blk' = h /\ delivered' = << >>
      /\ text' = IF ptr = NULL THEN text ELSE [text EXCEPT ![ptr] = << >>]
      /\ UNCHANGED <<line, n, screen, lines, count, current>>
  BY DEF Own
<1>2. << >> \in Seq(Letters) /\ Len(<< >>) = 0 /\ 0 < LineSize
  BY EmptySeq, LineEditorAssumption
<1>3. /\ text = [x \in 1 .. HeapBlocks |-> text[x]]
      /\ \A x \in 1 .. HeapBlocks : text[x] \in Seq(Letters) /\ Len(text[x]) < LineSize
  BY DEF Inv, LineInv
<1>4. text' = [x \in 1 .. HeapBlocks |-> IF x = ptr THEN << >> ELSE text[x]]
  <2>1. NULL \notin 1 .. HeapBlocks
    BY LineEditorAssumption DEF NULL
  <2>2. CASE ptr = NULL
    BY <1>1, <1>3, <2>1, <2>2
  <2>3. CASE ptr # NULL
    BY <1>1, <1>3, <2>3
  <2> QED BY <2>2, <2>3
<1>5. /\ text' = [x \in 1 .. HeapBlocks |-> text'[x]]
      /\ \A x \in 1 .. HeapBlocks : text'[x] \in Seq(Letters) /\ Len(text'[x]) < LineSize
  BY <1>2, <1>3, <1>4
<1>6. LineInv'
  BY <1>1, <1>2, <1>5 DEF Inv, LineInv
<1>7. ListInv'
  BY <1>1 DEF Inv, ListInv
<1> QED BY <1>1, <1>6, <1>7 DEF Inv

LEMMA FreeReturns ==
  ASSUME NEW h, h = [b \in Blocks |-> h[b]], NEW p
  PROVE  Free(h, p) = [b \in Blocks |-> Free(h, p)[b]]
<1>1. CASE p = NULL \/ ~h[p].magic
  BY <1>1 DEF Free
<1>2. CASE ~(p = NULL \/ ~h[p].magic)
  <2>1. Free(h, p) = [i \in DOMAIN h |-> IF i \in p .. p + Needed(h[p].size) - 1 THEN FreeBlock ELSE h[i]]
    BY <1>2 DEF Free
  <2>2. DOMAIN h = Blocks
    OBVIOUS
  <2> QED BY <2>1, <2>2
<1> QED BY <1>1, <1>2

\* The keys that change the line alone.
LEMMA TypeKeeps ==
  ASSUME Inv, NUL \notin Chars, NEW c \in Chars, Type(c)
  PROVE  /\ Inv'
         /\ Oops \/ /\ SubSeq(line', 1, n') = Append(SubSeq(line, 1, n), c)
                    /\ delivered' = << >> /\ UNCHANGED hist
<1>1. CASE Oops
  BY <1>1, EmptySeq DEF Oops, Inv, LineInv, ListInv, hist
<1>2. CASE ~Oops
  <2>1. /\ n < LineSize /\ line' = [line EXCEPT ![n + 1] = c] /\ n' = n + 1
        /\ screen' = Append(screen, c) /\ delivered' = << >> /\ UNCHANGED hist
    BY <1>2 DEF Type
  <2>2. PICK N \in Nat : N = LineSize /\ Buffer = 1 .. N /\ n \in 0 .. N - 1
    BY <2>1, LineEditorAssumption DEF Buffer, Inv, LineInv
  <2>3. c \in Letters /\ c \in Symbols
    BY DEF Letters, Symbols
  <2>4. line \in [1 .. N -> Symbols] /\ \A i \in 1 .. n : line[i] # NUL
    BY <2>2 DEF Inv, LineInv
  <2>5. /\ line' \in [1 .. N -> Symbols] /\ line'[n + 1] = c
        /\ \A i \in 1 .. n : line'[i] = line[i]
    BY <2>1, <2>2, <2>3, <2>4
  <2>6. \A i \in 1 .. n' : i = n + 1 \/ i \in 1 .. n
    BY <2>1, <2>2
  <2>7. \A i \in 1 .. n' : line'[i] # NUL
    BY <2>3, <2>4, <2>5, <2>6 DEF Letters
  <2>8. PICK k \in 1 .. N : k = n + 1 /\ n' = k /\ n = k - 1
    BY <2>1, <2>2
  <2>9. SubSeq(line', 1, k) = Append(SubSeq(line, 1, n), c)
    <3>1. SubSeq(line', 1, n) = SubSeq(line, 1, n)
      <4>1. n \in Nat /\ \A i \in 1 .. n : line'[i] = line[i] /\ line[i] \in Symbols
        BY <2>2, <2>4, <2>5
      <4> QED BY <4>1, SameText
    <3>2. line' \in Seq(Symbols) /\ Len(line') = N
      BY <2>5
    <3>3. 1 \in 1 .. Len(line') /\ k \in 1 .. Len(line')
      BY <2>8, <3>2
    <3>4. SubSeq(line', 1, k) = SubSeq(line', 1, k - 1) \o <<line'[k]>>
      BY <3>2, <3>3, SubSeqRecursiveSecond
    <3>5. Append(SubSeq(line, 1, n), c) = SubSeq(line, 1, n) \o <<c>>
      <4>1. SubSeq(line, 1, n) \in Seq(Letters)
        BY LineIsText DEF Inv
      <4> QED BY <2>3, <4>1, AppendIsConcat
    <3> QED BY <2>5, <2>8, <3>1, <3>4, <3>5
  <2>10. n' \in 0 .. LineSize
    BY <2>2, <2>8
  <2>11. LineInv'
    <3>1. screen = SubSeq(line, 1, n)
      BY DEF Inv, LineInv
    <3>2. text' = text
      BY <2>1 DEF hist
    <3>3. delivered' \in Seq(Letters)
      BY <2>1, EmptySeq
    <3>4. screen' = SubSeq(line', 1, n')
      BY <2>1, <2>8, <2>9, <3>1
    <3> QED BY <2>2, <2>5, <2>7, <2>10, <3>2, <3>3, <3>4 DEF Inv, LineInv
  <2>12. ListInv'
    BY <2>1 DEF Inv, ListInv, hist
  <2> QED BY <2>1, <2>8, <2>9, <2>11, <2>12 DEF Inv
<1> QED BY <1>1, <1>2

LEMMA BackspaceKeeps ==
  ASSUME Inv, Backspace
  PROVE  /\ Inv' /\ SubSeq(line, 1, n) # << >> /\ delivered' = << >> /\ UNCHANGED hist
         /\ SubSeq(line', 1, n') = Front(SubSeq(line, 1, n))
<1>1. /\ n > 0 /\ n' = n - 1 /\ screen' = (IF screen = << >> THEN screen ELSE Front(screen))
      /\ delivered' = << >> /\ UNCHANGED <<line, hist>>
  BY DEF Backspace
<1>2. PICK N \in Nat : N = LineSize /\ Buffer = 1 .. N /\ n \in 1 .. N
  BY <1>1, LineEditorAssumption DEF Buffer, Inv, LineInv
<1>3. PICK t \in Seq(Letters) : /\ t = SubSeq(line, 1, n) /\ Len(t) = n /\ t = screen
                                /\ \A i \in 1 .. n : t[i] = line[i]
  BY LineIsText DEF Inv, LineInv
<1>4. t # << >>
  <2>1. Len(<< >>) = 0 /\ Len(t) # 0
    BY <1>2, <1>3, EmptySeq
  <2> QED BY <2>1
<1>5. Front(t) = SubSeq(line, 1, n - 1)
  <2>1. PICK k \in Nat : k = n - 1
    BY <1>2
  <2>2. \A i \in 1 .. k : t[i] = line[i] /\ line[i] \in Letters
    <3>1. \A i \in 1 .. k : i \in 1 .. n
      BY <1>2, <2>1
    <3>2. \A i \in 1 .. n : t[i] \in Letters
      BY <1>3, ElementOfSeq
    <3> QED BY <1>3, <3>1, <3>2
  <2>3. SubSeq(t, 1, k) = SubSeq(line, 1, k)
    BY <2>2, SameText
  <2> QED BY <1>3, <2>1, <2>3 DEF Front
<1>6. n' \in 0 .. LineSize /\ \A i \in 1 .. n' : i \in 1 .. n
  BY <1>1, <1>2
<1>7. delivered' \in Seq(Letters)
  BY <1>1, EmptySeq
<1>8. LineInv'
  BY <1>1, <1>3, <1>4, <1>5, <1>6, <1>7 DEF Inv, LineInv, hist
<1>9. ListInv'
  BY <1>1 DEF Inv, ListInv, hist
<1> QED BY <1>1, <1>3, <1>4, <1>5, <1>8, <1>9 DEF Inv

LEMMA TabKeeps ==
  ASSUME Inv, Tab
  PROVE  /\ Inv'
         /\ Oops \/ /\ delivered' = << >> /\ UNCHANGED hist
                    /\ \/ IsPrefix(SubSeq(line, 1, n), SubSeq(line', 1, n'))
                       \/ \E w \in Words : IsSuffix(w, SubSeq(line', 1, n'))
<1>1. CASE Oops
  BY <1>1, EmptySeq DEF Oops, Inv, LineInv, ListInv, hist
<1>2. CASE ~Oops
  <2>1. PICK s : /\ s = AutoComplete(StringOf(line), n)
                 /\ Terminated(line) /\ Fits(1, s) /\ Redraw(s) /\ UNCHANGED hist
    BY <1>2 DEF Tab
  <2>2. PICK j \in Buffer : /\ line[j] = NUL /\ StringOf(line) = SubSeq(line, 1, j - 1)
                            /\ StringOf(line) \in Seq(Letters) /\ Len(StringOf(line)) = j - 1
    BY <2>1, StringInBuffer DEF Inv, LineInv
  <2>3. n \in Int /\ n \in Nat /\ n < j
    <3>1. n \in 0 .. LineSize /\ \A i \in 1 .. n : line[i] # NUL
      BY DEF Inv, LineInv
    <3> QED BY <2>2, <3>1, LineEditorAssumption DEF Buffer
  <2>4. /\ s \in Seq(Letters)
        /\ s = StringOf(line) \/ \E w \in Words : IsSuffix(w, s)
    BY <2>1, <2>2, <2>3, CompletedText
  <2>5. LineInv' /\ SubSeq(line', 1, n') = s
    BY <2>1, <2>4, RedrawKeeps DEF Inv, hist
  <2>6. ListInv'
    BY <2>1 DEF Inv, ListInv, hist
  <2>7. IsPrefix(SubSeq(line, 1, n), StringOf(line))
    <3>1. PICK t, u : t = SubSeq(line, 1, n) /\ u = SubSeq(line, 1, j - 1)
      OBVIOUS
    <3>2. j \in Nat /\ n <= j - 1 /\ 1 \in Int /\ j - 1 \in Int
          /\ \A i \in 1 .. j - 1 : line[i] \in Symbols
      BY <2>2, <2>3, LineEditorAssumption, SMTT(30) DEF Buffer, Inv, LineInv
    <3>3. t \in Seq(Letters) /\ Len(t) = n /\ \A i \in 1 .. n : t[i] = line[i]
      BY <3>1, LineIsText DEF Inv
    <3>4. \A i \in 1 .. j - 1 - 1 + 1 : u[i] = line[1 + i - 1]
      BY <3>1, <3>2, SubSeqProperties
    <3>5. \A i \in 1 .. n : u[i] = t[i] /\ t[i] \in Letters
      <4>1. \A i \in 1 .. n : i \in 1 .. j - 1 - 1 + 1 /\ 1 + i - 1 = i
        BY <2>3, <3>2
      <4> QED BY <3>3, <3>4, <4>1, ElementOfSeq
    <3>6. SubSeq(u, 1, n) = SubSeq(t, 1, n)
      BY <2>3, <3>5, SameText
    <3> QED BY <2>2, <3>1, <3>2, <3>3, <3>6 DEF IsPrefix
  <2>8. delivered' = << >>
    BY <2>1 DEF Redraw
  <2> QED BY <2>1, <2>4, <2>5, <2>6, <2>7, <2>8 DEF Inv
<1> QED BY <1>1, <1>2

LEMMA ShowKeeps ==
  ASSUME Inv, NEW k \in 0 .. count - 1, Show(k)
  PROVE  /\ Inv' /\ delivered' = << >> /\ current' = k
         /\ UNCHANGED <<lines, count, blk, text, own>>
         /\ SubSeq(line', 1, n') = text[lines[k + 1]]
<1>1. count \in Nat /\ k + 1 \in 1 .. count /\ k \in 0 .. count
  BY LineEditorAssumption DEF Inv, ListInv
<1>2. PICK s \in Seq(Letters) : s = text[lines[k + 1]] /\ Len(s) < LineSize
  BY <1>1 DEF Inv, LineInv, ListInv, Blocks
<1>3. Fits(1, s)
  <2>1. Len(s) \in Nat /\ LineSize \in Nat
    BY LenProperties, LineEditorAssumption
  <2> QED BY <1>2, <2>1 DEF Fits
<1>4. Redraw(s) /\ current' = k /\ UNCHANGED <<lines, count, blk, text, own>>
  BY <1>2 DEF Show
<1>5. LineInv' /\ SubSeq(line', 1, n') = s
  BY <1>3, <1>4, RedrawKeeps DEF Inv
<1>6. ListInv'
  BY <1>1, <1>4 DEF Inv, ListInv
<1> QED BY <1>2, <1>4, <1>5, <1>6 DEF Inv, Redraw

LEMMA EnterEmptyKeeps ==
  ASSUME Inv, EnterEmpty
  PROVE  Inv' /\ SubSeq(line, 1, n) = << >> /\ SubSeq(line', 1, n') = << >> /\ UNCHANGED hist
<1>1. n = 0 /\ SubSeq(line, 1, n) = << >>
  BY SubSeqEmpty DEF EnterEmpty
<1>2. CASE Oops
  BY <1>1, <1>2, EmptySeq DEF Oops, Inv, LineInv, ListInv, hist
<1>3. CASE ~Oops
  <2>1. Terminated(line) /\ HandOver(line) /\ UNCHANGED hist
    BY <1>3 DEF EnterEmpty
  <2>2. StringOf(line) \in Seq(Letters)
    BY <2>1, StringInBuffer DEF Inv, LineInv
  <2>3. /\ line' = Blank /\ n' = 0 /\ screen' = << >> /\ delivered' \in Seq(Letters)
    BY <2>1, <2>2 DEF HandOver
  <2>4. /\ text' = [b \in 1 .. HeapBlocks |-> text'[b]]
        /\ \A b \in 1 .. HeapBlocks : text'[b] \in Seq(Letters) /\ Len(text'[b]) < LineSize
    BY <2>1 DEF Inv, LineInv, hist
  <2>5. LineInv' /\ SubSeq(line', 1, n') = << >>
    BY <2>3, <2>4, BlankLine DEF Inv
  <2>6. ListInv'
    BY <2>1 DEF Inv, ListInv, hist
  <2> QED BY <1>1, <2>1, <2>5, <2>6 DEF Inv
<1> QED BY <1>2, <1>3
LEMMA InvStep ==
  ASSUME NUL \notin Chars
  PROVE  Inv /\ [Next]_vars => Inv'
<1> SUFFICES ASSUME Inv, [Next]_vars PROVE Inv'
  OBVIOUS
<1>1. ASSUME NEW c \in Chars, Type(c) PROVE Inv'
  BY <1>1, TypeKeeps
<1>2. CASE Backspace
  BY <1>2, BackspaceKeeps
<1>3. CASE Tab
  BY <1>3, TabKeeps
<1>4. CASE Up
  <2>1. PICK k \in 0 .. count - 1 : Show(k)
    <3>1. count \in Nat /\ current \in 0 .. count
      BY LineEditorAssumption DEF Inv, ListInv
    <3> QED BY <1>4, <3>1 DEF Up
  <2> QED BY <2>1, ShowKeeps
<1>5. CASE Down
  <2>1. CASE Oops
    BY <2>1, EmptySeq DEF Oops, Inv, LineInv, ListInv, hist
  <2>2. CASE ~Oops
    <3>1. PICK k \in 0 .. count - 1 : Show(k)
      <4>1. count \in Nat /\ current \in 0 .. count
        BY LineEditorAssumption DEF Inv, ListInv
      <4> QED BY <1>5, <2>2, <4>1 DEF Down
    <3> QED BY <3>1, ShowKeeps
  <2> QED BY <2>1, <2>2
<1>6. CASE EnterEmpty
  BY <1>6, EnterEmptyKeeps
<1>7. CASE Enter
  BY <1>7, EnterKeeps
<1>8. CASE TakeOwn
  <2>1. PICK m : m = Malloc(blk, OwnBytes) /\ Own(m.ptr, m.heap)
    BY <1>8 DEF TakeOwn
  <2>2. m.ptr \in {NULL} \cup Blocks /\ m.heap = [b \in Blocks |-> m.heap[b]]
    BY <2>1, MallocReturns DEF Inv, ListInv
  <2> QED BY <2>1, <2>2, OwnKeeps
<1>9. CASE FreeOwn
  <2>1. PICK h : h = Free(blk, own) /\ Own(NULL, h)
    BY <1>9 DEF FreeOwn
  <2>2. h = [b \in Blocks |-> h[b]]
    BY <2>1, FreeReturns DEF Inv, ListInv
  <2> QED BY <2>1, <2>2, OwnKeeps
<1>10. CASE UNCHANGED vars
  BY <1>10 DEF vars, hist, Inv, LineInv, ListInv
<1> QED BY <1>1, <1>2, <1>3, <1>4, <1>5, <1>6, <1>7, <1>8, <1>9, <1>10 DEF Next, Key

\* What the terminal shows is the line, for all tables, lengths and requests of
\* memory, as long as no line feed is typed.
THEOREM TerminalShowsTheLine ==
  ASSUME NUL \notin Chars
  PROVE  Spec => []Wysiwyg
<1>1. Inv => Wysiwyg
  BY DEF Inv, LineInv, Wysiwyg
<1>2. Init => Inv
  BY LineInvInit, ListInvInit DEF Inv
<1> QED BY <1>1, <1>2, InvStep, PTL DEF Spec

-----------------------------------------------------------------------------
(***************************************************************************)
(* The heap, when every request fits one block.                            *)
(***************************************************************************)
OneBlock == Needed(LineBytes) = 1 /\ Needed(OwnBytes) = 1

InUse(b) == b.magic /\ ~b.free /\ Needed(b.size) = 1

\* Blocks are marked exactly when somebody holds them, and each is held once.
HeapInv ==
  /\ \A i \in 1 .. count : lines[i] # own
  /\ \A i, j \in 1 .. count : lines[i] = lines[j] => i = j
  /\ IF blk[1].magic THEN \A b \in Blocks : IF b \in Held THEN InUse(blk[b]) ELSE blk[b] = FreeBlock
     ELSE Held = {}

LEMMA HeapInvInit == Init => HeapInv
<1> SUFFICES ASSUME Init PROVE HeapInv
  OBVIOUS
<1>1. 1 .. count = {}
  BY DEF Init
<1>2. Held = {}
  BY <1>1 DEF Init, Held
<1>3. ~blk[1].magic
  BY LineEditorAssumption DEF Init, RawHeap
<1> QED BY <1>1, <1>2, <1>3 DEF HeapInv

\* The heap as malloc sees it.
LEMMA FormattedHeap ==
  ASSUME Inv, HeapInv
  PROVE  LET h == Formatted(blk)
         IN  /\ h = [b \in Blocks |-> h[b]]
             /\ \A b \in Blocks : IF b \in Held THEN InUse(h[b]) ELSE h[b] = FreeBlock
<1>1. blk = [b \in Blocks |-> blk[b]]
  BY DEF Inv, ListInv
<1>2. CASE blk[1].magic
  BY <1>1, <1>2 DEF HeapInv, Formatted
<1>3. CASE ~blk[1].magic
  <2>1. Held = {} /\ Formatted(blk) = [b \in Blocks |-> FreeBlock]
    BY <1>1, <1>3 DEF HeapInv, Formatted
  <2> QED BY <2>1
<1> QED BY <1>2, <1>3

\* malloc returns a block that nobody holds and marks it, or there is none.
LEMMA MallocOne ==
  ASSUME Inv, HeapInv, NEW size \in Nat, Needed(size) = 1
  PROVE  LET m == Malloc(blk, size)
             h == Formatted(blk)
         IN  \/ m.ptr = NULL /\ m.heap = h /\ FreeRuns(h, Needed(size)) = {}
             \/ /\ m.ptr \in Blocks \ Held
                /\ m.heap = [b \in Blocks |-> m.heap[b]]
                /\ InUse(m.heap[m.ptr]) /\ \A b \in Blocks \ {m.ptr} : m.heap[b] = h[b]
<1>1. PICK h : /\ h = Formatted(blk) /\ h = [b \in Blocks |-> h[b]]
               /\ \A b \in Blocks : IF b \in Held THEN InUse(h[b]) ELSE h[b] = FreeBlock
  BY FormattedHeap
<1>2. PICK N \in Nat : N = HeapBlocks /\ Blocks = 1 .. N
  BY LineEditorAssumption DEF Blocks
<1>3. PICK runs \in SUBSET Blocks : runs = FreeRuns(h, Needed(size))
  BY <1>1 DEF FreeRuns
<1>4. CASE runs = {}
  BY <1>1, <1>3, <1>4 DEF Malloc
<1>5. CASE runs # {}
  <2>1. PICK x \in runs : \A y \in runs : x <= y
    <3>1. runs \in SUBSET (0 .. N)
      BY <1>2
    <3> QED BY <1>5, <3>1, LeastElement
  <2>2. PICK p \in runs : p = Min(runs)
    <3>1. PICK p : p = Min(runs)
      OBVIOUS
    <3>2. p \in runs
      BY <2>1, <3>1 DEF Min
    <3> QED BY <3>1, <3>2
  <2>3. Malloc(blk, size) = [heap |-> Taken(h, p, size), ptr |-> p]
    BY <1>1, <1>3, <1>5, <2>2 DEF Malloc
  <2>4. IsFreeBlock(h, p)
    <3>1. p \in p .. p + 1 - 1
      BY <1>2
    <3>2. \A j \in p .. p + 1 - 1 : IsFreeBlock(h, j)
      BY <1>3 DEF FreeRuns
    <3> QED BY <3>1, <3>2
  <2>5. p \in Blocks \ Held
    BY <1>1, <2>4 DEF IsFreeBlock, InUse
  <2>6. h[p] = FreeBlock
    BY <1>1, <2>5
  <2>7. PICK t : t = Taken(h, p, size)
    OBVIOUS
  <2>8. PICK u : /\ t = [b \in Blocks |-> IF b = p THEN u ELSE h[b]]
                 /\ u.magic /\ ~u.free /\ u.size = size
    <3>1. t = [[h EXCEPT ![p].free = FALSE] EXCEPT ![p].size = size]
      BY <2>7 DEF Taken
    <3>2. PICK f, r : f = [h EXCEPT ![p].free = FALSE] /\ r = [FreeBlock EXCEPT !.free = FALSE]
      OBVIOUS
    <3>3. f = [b \in Blocks |-> IF b = p THEN r ELSE h[b]]
      BY <1>1, <2>5, <2>6, <3>2
    <3>4. r = [magic |-> TRUE, size |-> 0, free |-> FALSE]
      BY <3>2 DEF FreeBlock
    <3>5. PICK u : u = [r EXCEPT !.size = size]
      OBVIOUS
    <3>6. t = [b \in Blocks |-> IF b = p THEN u ELSE h[b]]
      BY <2>5, <3>1, <3>2, <3>3, <3>5
    <3>7. u.magic /\ ~u.free /\ u.size = size
      BY <3>4, <3>5
    <3> QED BY <3>6, <3>7
  <2>9. InUse(t[p]) /\ (\A b \in Blocks \ {p} : t[b] = h[b]) /\ t = [b \in Blocks |-> t[b]]
    BY <2>5, <2>8 DEF InUse
  <2> QED BY <1>1, <2>3, <2>5, <2>7, <2>9
<1> QED BY <1>4, <1>5
\* What one more holder, or one less, means for the marks.
LEMMA HeldGrows ==
  ASSUME Inv, HeapInv, NEW p \in Blocks \ Held,
         blk' = [b \in Blocks |-> blk'[b]], InUse(blk'[p]),
         \A b \in Blocks \ {p} : blk'[b] = Formatted(blk)[b],
         Held' = Held \cup {p}
  PROVE  IF (blk[1].magic)' THEN \A b \in Blocks : IF b \in Held' THEN InUse(blk'[b]) ELSE blk'[b] = FreeBlock
         ELSE Held' = {}
<1>1. PICK h : /\ h = Formatted(blk) /\ h = [b \in Blocks |-> h[b]]
               /\ \A b \in Blocks : IF b \in Held THEN InUse(h[b]) ELSE h[b] = FreeBlock
  BY FormattedHeap
<1>2. ASSUME NEW b \in Blocks PROVE IF b \in Held' THEN InUse(blk'[b]) ELSE blk'[b] = FreeBlock
  <2>1. CASE b = p
    BY <2>1
  <2>2. CASE b # p
    <3>1. blk'[b] = h[b] /\ (b \in Held' <=> b \in Held)
      BY <1>1, <2>2
    <3> QED BY <1>1, <3>1
  <2> QED BY <2>1, <2>2
<1>3. 1 \in Blocks
  BY LineEditorAssumption DEF Blocks
<1>4. blk'[1].magic
  BY <1>2, <1>3 DEF InUse, FreeBlock
<1> QED BY <1>2, <1>4

LEMMA HeapInvStep ==
  ASSUME OneBlock
  PROVE  Inv /\ HeapInv /\ [Next]_vars => HeapInv'
<1> SUFFICES ASSUME Inv, HeapInv, [Next]_vars PROVE HeapInv'
  OBVIOUS
<1>1. ASSUME UNCHANGED <<lines, count, own, blk>> PROVE HeapInv'
  BY <1>1 DEF HeapInv, Held
<1>2. ASSUME NEW c, Type(c) PROVE HeapInv'
  BY <1>1, <1>2 DEF Type, Oops, hist
<1>3. CASE Backspace
  BY <1>1, <1>3 DEF Backspace, hist
<1>4. CASE Tab
  BY <1>1, <1>4 DEF Tab, Oops, hist
<1>5. CASE Up
  BY <1>1, <1>5 DEF Up, Show
<1>6. CASE Down
  BY <1>1, <1>6 DEF Down, Show, Oops, hist
<1>7. CASE EnterEmpty
  BY <1>1, <1>7 DEF EnterEmpty, Oops, hist
<1>8. CASE Enter
  <2>1. CASE Oops
    BY <1>1, <2>1 DEF Oops, hist
  <2>2. CASE ~Oops
    <3>1. PICK m, s : /\ m = Malloc(blk, LineBytes)
                      /\ n # LineSize /\ count # MaxHistory
                      /\ lines' = [lines EXCEPT ![count + 1] = m.ptr]
                      /\ blk' = m.heap
                      /\ IF m.ptr = NULL THEN UNCHANGED <<text, count, current>>
                         ELSE Recorded(m, s)
                      /\ UNCHANGED own
      BY <1>8, <2>2 DEF Enter
    <3>2. /\ count \in Nat /\ MaxHistory \in Nat /\ count + 1 \in 1 .. MaxHistory
          /\ lines = [i \in 1 .. MaxHistory |-> lines[i]]
      <4>1. MaxHistory \in Nat
        BY LineEditorAssumption
      <4>2. count \in 0 .. MaxHistory /\ count # MaxHistory
            /\ lines = [i \in 1 .. MaxHistory |-> lines[i]]
        BY <3>1 DEF Inv, ListInv
      <4> QED BY <4>1, <4>2
    <3>3. lines'[count + 1] = m.ptr /\ \A i \in 1 .. count : lines'[i] = lines[i]
      <4>1. lines' = [i \in 1 .. MaxHistory |-> IF i = count + 1 THEN m.ptr ELSE lines[i]]
        BY <3>1, <3>2
      <4>2. \A i \in 1 .. count : i \in 1 .. MaxHistory /\ i # count + 1
        BY <3>2
      <4> QED BY <3>2, <4>1, <4>2
    <3>4. CASE m.ptr = NULL
      <4>1. UNCHANGED <<count, own>>
        BY <3>1, <3>4
      <4>2. Held' = Held
        BY <3>3, <4>1 DEF Held
      <4>3. blk' = Formatted(blk)
        <5>1. Blocks \cap {NULL} = {}
          BY LineEditorAssumption DEF Blocks, NULL
        <5> QED BY <3>1, <3>4, <5>1, MallocOne, LineEditorAssumption DEF OneBlock
      <4>4. \A b \in Blocks : IF b \in Held' THEN InUse(blk'[b]) ELSE blk'[b] = FreeBlock
        BY <4>2, <4>3, FormattedHeap
      <4>5. 1 \in Blocks
        BY LineEditorAssumption DEF Blocks
      <4>6. blk'[1].magic
        BY <4>4, <4>5 DEF InUse, FreeBlock
      <4>7. \A i \in 1 .. count' : lines'[i] # own'
        BY <3>3, <4>1 DEF HeapInv
      <4>8. \A i, j \in 1 .. count' : lines'[i] = lines'[j] => i = j
        BY <3>3, <4>1 DEF HeapInv
      <4> QED BY <4>4, <4>6, <4>7, <4>8 DEF HeapInv
    <3>5. CASE m.ptr # NULL
      <4>1. count' = count + 1
        BY <3>1, <3>5 DEF Recorded
      <4>2. /\ m.ptr \in Blocks \ Held /\ blk' = [b \in Blocks |-> blk'[b]] /\ InUse(blk'[m.ptr])
            /\ \A b \in Blocks \ {m.ptr} : blk'[b] = Formatted(blk)[b]
        BY <3>1, <3>5, MallocOne, LineEditorAssumption DEF OneBlock
      <4>3. \A i \in 1 .. count' : i = count + 1 \/ i \in 1 .. count
        BY <3>2, <4>1
      <4>4. count + 1 \in 1 .. count' /\ \A i \in 1 .. count : i \in 1 .. count'
        BY <3>2, <4>1
      <4>5. Held' = Held \cup {m.ptr}
        <5>1. {lines'[i] : i \in 1 .. count'} = {lines[i] : i \in 1 .. count} \cup {m.ptr}
          BY <3>3, <4>3, <4>4
        <5> QED BY <3>1, <5>1 DEF Held
      <4>6. \A i \in 1 .. count : lines[i] # m.ptr
        BY <4>2 DEF Held
      <4>7. m.ptr # own
        BY <3>5, <4>2 DEF Held
      <4>8. \A i \in 1 .. count' : lines'[i] # own'
        BY <3>1, <3>3, <4>3, <4>7 DEF HeapInv
      <4>9. \A i, j \in 1 .. count' : lines'[i] = lines'[j] => i = j
        BY <3>3, <4>3, <4>6 DEF HeapInv
      <4> QED BY <4>2, <4>5, <4>8, <4>9, HeldGrows DEF HeapInv
    <3> QED BY <3>4, <3>5
  <2> QED BY <2>1, <2>2
<1>9. CASE TakeOwn
  <2>1. PICK m : m = Malloc(blk, OwnBytes) /\ own = NULL /\ Own(m.ptr, m.heap)
    BY <1>9 DEF TakeOwn
  <2>2. own' = m.ptr /\ blk' = m.heap /\ UNCHANGED <<lines, count>>
    BY <2>1 DEF Own
  <2>3. Blocks \cap {NULL} = {}
    BY LineEditorAssumption DEF Blocks, NULL
  <2>4. {lines[i] : i \in 1 .. count} \subseteq Blocks
    BY DEF Inv, ListInv
  <2>5. CASE m.ptr = NULL
    <3>1. blk' = Formatted(blk) /\ own' = own
      BY <2>1, <2>2, <2>3, <2>5, MallocOne, LineEditorAssumption DEF OneBlock
    <3>2. Held' = Held
      BY <2>2, <3>1 DEF Held
    <3>3. \A b \in Blocks : IF b \in Held' THEN InUse(blk'[b]) ELSE blk'[b] = FreeBlock
      BY <3>1, <3>2, FormattedHeap
    <3>4. 1 \in Blocks
      BY LineEditorAssumption DEF Blocks
    <3>5. blk'[1].magic
      BY <3>3, <3>4 DEF InUse, FreeBlock
    <3> QED BY <2>2, <3>1, <3>3, <3>5 DEF HeapInv
  <2>6. CASE m.ptr # NULL
    <3>1. /\ m.ptr \in Blocks \ Held /\ blk' = [b \in Blocks |-> blk'[b]] /\ InUse(blk'[m.ptr])
          /\ \A b \in Blocks \ {m.ptr} : blk'[b] = Formatted(blk)[b]
      BY <2>1, <2>2, <2>6, MallocOne, LineEditorAssumption DEF OneBlock
    <3>2. Held' = Held \cup {m.ptr}
      BY <2>1, <2>2, <2>6 DEF Held
    <3>3. \A i \in 1 .. count' : lines'[i] # own'
      BY <2>2, <3>1 DEF Held
    <3>4. \A i, j \in 1 .. count' : lines'[i] = lines'[j] => i = j
      BY <2>2 DEF HeapInv
    <3> QED BY <3>1, <3>2, <3>3, <3>4, HeldGrows DEF HeapInv
  <2> QED BY <2>5, <2>6
<1>10. CASE FreeOwn
  <2>1. own # NULL /\ own' = NULL /\ blk' = Free(blk, own) /\ UNCHANGED <<lines, count>>
    BY <1>10 DEF FreeOwn, Own
  <2>2. own \in Blocks /\ own \in Held /\ blk = [b \in Blocks |-> blk[b]]
    BY <2>1 DEF Inv, ListInv, Held
  <2>3. \A b \in Blocks : IF b \in Held THEN InUse(blk[b]) ELSE blk[b] = FreeBlock
    BY <2>2 DEF HeapInv
  <2>4. blk' = [b \in Blocks |-> IF b = own THEN FreeBlock ELSE blk[b]]
    <3>1. blk[own].magic /\ Needed(blk[own].size) = 1
      BY <2>2, <2>3 DEF InUse
    <3>2. Free(blk, own) = [i \in Blocks |-> IF i \in own .. own + 1 - 1 THEN FreeBlock ELSE blk[i]]
      BY <2>1, <2>2, <3>1 DEF Free
    <3>3. \A i \in Blocks : i \in own .. own + 1 - 1 <=> i = own
      BY <2>2, LineEditorAssumption DEF Blocks
    <3> QED BY <2>1, <3>2, <3>3
  <2>5. Held' = Held \ {own}
    <3>1. own \notin {lines[i] : i \in 1 .. count}
      BY DEF HeapInv
    <3>2. Held = {lines[i] : i \in 1 .. count} \cup {own} /\ Held' = {lines[i] : i \in 1 .. count}
      BY <2>1 DEF Held
    <3> QED BY <3>1, <3>2
  <2>6. \A b \in Blocks : IF b \in Held' THEN InUse(blk'[b]) ELSE blk'[b] = FreeBlock
    BY <2>3, <2>4, <2>5
  <2>7. 1 \in Blocks
    BY LineEditorAssumption DEF Blocks
  <2>8. blk'[1].magic
    BY <2>6, <2>7 DEF InUse, FreeBlock
  <2>9. \A i \in 1 .. count' : lines'[i] # own'
    <3>1. Blocks \cap {NULL} = {}
      BY LineEditorAssumption DEF Blocks, NULL
    <3> QED BY <2>1, <3>1 DEF Inv, ListInv
  <2>10. \A i, j \in 1 .. count' : lines'[i] = lines'[j] => i = j
    BY <2>1 DEF HeapInv
  <2> QED BY <2>6, <2>8, <2>9, <2>10 DEF HeapInv
<1>11. CASE UNCHANGED vars
  BY <1>1, <1>11 DEF vars, hist
<1> QED BY <1>2, <1>3, <1>4, <1>5, <1>6, <1>7, <1>8, <1>9, <1>10, <1>11 DEF Next, Key

\* A list without repetitions has as many elements as it is long.
LEMMA DistinctElements ==
  ASSUME NEW k \in Nat, NEW f, \A i, j \in 1 .. k : f[i] = f[j] => i = j
  PROVE  IsFiniteSet({f[i] : i \in 1 .. k}) /\ Cardinality({f[i] : i \in 1 .. k}) = k
<1> DEFINE S == {f[i] : i \in 1 .. k}
           g == [i \in 1 .. k |-> f[i]]
<1>1. g \in Bijection(1 .. k, S)
  BY DEF Bijection, Injection, Surjection, IsInjective
<1>2. IsFiniteSet(1 .. k) /\ Cardinality(1 .. k) = k
  BY FS_Interval
<1>3. ExistsBijection(1 .. k, S)
  BY <1>1 DEF ExistsBijection
<1> QED BY <1>2, <1>3, FS_Bijection

\* Each text of the history and the program's own memory have a block of
\* their own, and no block is lost, for every history and every heap, when
\* requests fit one block (as the history's 128 bytes do).
THEOREM HeapIsExact ==
  ASSUME OneBlock, NUL \notin Chars
  PROVE  Spec => []HeapExact
<1>1. Inv /\ HeapInv => HeapExact
  <2> SUFFICES ASSUME Inv, HeapInv PROVE HeapExact
    OBVIOUS
  <2>1. count \in Nat /\ Blocks \cap {NULL} = {} /\ Blocks \subseteq Int
        /\ \A i \in 1 .. count : lines[i] \in Blocks
    <3>1. count \in 0 .. MaxHistory /\ \A i \in 1 .. count : lines[i] \in Blocks
      BY DEF Inv, ListInv
    <3>2. count \in Nat
      BY <3>1, LineEditorAssumption
    <3>3. Blocks \cap {NULL} = {} /\ Blocks \subseteq Int
      BY LineEditorAssumption DEF Blocks, NULL
    <3> QED BY <3>1, <3>2, <3>3
  <2>2. PICK S : S = {lines[i] : i \in 1 .. count}
    OBVIOUS
  <2>3. IsFiniteSet(S) /\ Cardinality(S) = count
    <3>1. count \in Nat /\ \A i, j \in 1 .. count : lines[i] = lines[j] => i = j
      BY <2>1 DEF HeapInv
    <3> QED BY <2>2, <3>1, DistinctElements
  <2>4. own \notin S /\ NULL \notin S
    BY <2>1, <2>2 DEF HeapInv
  <2>5. Cardinality(Held) = count + (IF own = NULL THEN 0 ELSE 1) /\ NULL \notin Held
    <3>1. CASE own = NULL
      <4>1. Held = S
        BY <2>2, <3>1 DEF Held
      <4> QED BY <2>1, <2>3, <2>4, <3>1, <4>1
    <3>2. CASE own # NULL
      <4>1. Held = S \cup {own}
        BY <2>2, <3>2 DEF Held
      <4>2. Cardinality(S \cup {own}) = Cardinality(S) + 1
        BY <2>3, <2>4, FS_AddElement
      <4> QED BY <2>3, <2>4, <3>2, <4>1, <4>2
    <3> QED BY <3>1, <3>2
  <2>6. Held \subseteq Blocks
    BY <2>1 DEF Held, Inv, ListInv
  <2>7. ASSUME NEW p \in Held PROVE Extent(p) = {p}
    <3>1. InUse(blk[p])
      BY <2>6 DEF HeapInv
    <3>2. Extent(p) = p .. p + 1 - 1 /\ p \in Int
      BY <2>1, <2>6, <3>1 DEF Extent, InUse
    <3> QED BY <3>2
  <2>8. \A p, q \in Held : p # q => Extent(p) \cap Extent(q) = {}
    BY <2>7
  <2>9. ASSUME blk[1].magic, NEW i \in DOMAIN blk \ UNION {Extent(p) : p \in Held}
        PROVE  IsFreeBlock(blk, i)
    <3>1. i \in Blocks
      BY DEF Inv, ListInv
    <3>2. i \notin Held
      BY <2>7
    <3>3. blk[i] = FreeBlock
      BY <2>9, <3>1, <3>2 DEF HeapInv
    <3> QED BY <3>3 DEF IsFreeBlock, FreeBlock
  <2> QED BY <2>5, <2>8, <2>9 DEF HeapExact
<1>2. Init => Inv
  BY LineInvInit, ListInvInit DEF Inv
<1> QED BY <1>1, <1>2, HeapInvInit, InvStep, HeapInvStep, PTL DEF Spec
-----------------------------------------------------------------------------
(***************************************************************************)
(* The editor that the program sees.                                       *)
(***************************************************************************)
Shown == SubSeq(line, 1, n)
Past == [i \in 1 .. count |-> text[lines[i]]]

LEMMA PastIsList ==
  ASSUME Inv
  PROVE  count \in Nat /\ Past \in Seq(Seq(Letters)) /\ Len(Past) = count
<1>1. count \in Nat /\ \A i \in 1 .. count : text[lines[i]] \in Seq(Letters)
  <2>1. MaxHistory \in Nat
    BY LineEditorAssumption
  <2>2. count \in 0 .. MaxHistory /\ \A i \in 1 .. count : lines[i] \in Blocks
    BY DEF Inv, ListInv
  <2>3. \A b \in Blocks : text[b] \in Seq(Letters)
    BY DEF Inv, LineInv, Blocks
  <2> QED BY <2>1, <2>2, <2>3
<1>2. Past \in [1 .. count -> Seq(Letters)]
  BY <1>1 DEF Past
<1> QED BY <1>1, <1>2

\* Nothing of the history has changed that can be recalled.
LEMMA PastStays ==
  ASSUME UNCHANGED <<lines, count, text>>
  PROVE  UNCHANGED Past
BY DEF Past

\* A step out of a buffer shows nothing.
LEMMA OopsIsSilent ==
  ASSUME Oops PROVE Promise!Silent
<1>1. delivered' = << >> /\ UNCHANGED <<line, n, lines, count, current, text>>
  BY DEF Oops, hist
<1>2. UNCHANGED Shown /\ UNCHANGED Past
  BY <1>1 DEF Shown, Past
<1> QED BY <1>1, <1>2 DEF Promise!Silent, Shown, Past

\* The abstract editor's operators on sequences are those of the model.
LEMMA SameOperators ==
  ASSUME NEW s, NEW t
  PROVE  /\ Promise!IsPrefix(s, t) <=> IsPrefix(s, t)
         /\ Promise!IsSuffix(s, t) <=> IsSuffix(s, t)
         /\ Promise!Front(s) = Front(s)
BY DEF IsPrefix, IsSuffix, Front, Reverse,
       Promise!IsPrefix, Promise!IsSuffix, Promise!Front, Promise!Reverse

\* A key that changes the line alone edits.
LEMMA KeyEdits ==
  ASSUME Inv, delivered' = << >>, UNCHANGED hist,
         \/ Len(Shown') = Len(Shown) + 1 /\ IsPrefix(Shown, Shown')
         \/ Shown # << >> /\ Shown' = Front(Shown)
         \/ IsPrefix(Shown, Shown') \/ \E w \in Words : IsSuffix(w, Shown')
  PROVE  Promise!Next
<1>1. UNCHANGED Past /\ UNCHANGED current
  BY DEF hist, Past
<1>2. UNCHANGED <<Past, current>>
  BY <1>1
<1>3. Promise!Edited <=>
        /\ delivered' = << >> /\ UNCHANGED <<Past, current>>
        /\ \/ Len(Shown') = Len(Shown) + 1 /\ IsPrefix(Shown, Shown')
           \/ Shown # << >> /\ Shown' = Front(Shown)
           \/ IsPrefix(Shown, Shown') \/ \E w \in Words : IsSuffix(w, Shown')
  BY SameOperators DEF Promise!Edited, Shown, Past
<1>4. Promise!Edited
  BY <1>2, <1>3
<1> QED BY <1>4 DEF Promise!Next

\* Recall goes by one entry, and stops at both ends.
LEMMA ShowRecalls ==
  ASSUME Inv, NEW k \in 0 .. count - 1, Show(k), count > 0,
         \/ k = IF current > 0 THEN current - 1 ELSE 0
         \/ k = IF current < count - 1 THEN current + 1 ELSE current
  PROVE  Promise!Next
<1>1. /\ delivered' = << >> /\ current' = k /\ UNCHANGED <<lines, count, blk, text, own>>
      /\ Shown' = text[lines[k + 1]]
  BY ShowKeeps DEF Shown
<1>2. UNCHANGED Past
  BY <1>1 DEF Past
<1>3. count \in Nat /\ Past \in Seq(Seq(Letters)) /\ Len(Past) = count
  BY PastIsList
<1>4. k + 1 \in 1 .. count /\ k < count
  BY <1>3
<1>5. Shown' = Past[k + 1]
  BY <1>1, <1>4 DEF Past
<1>6. Past # << >>
  BY <1>3, EmptySeq
<1>7. Past'[current' + 1] = Past[k + 1]
  BY <1>1, <1>2
<1>8. current' \in {IF current > 0 THEN current - 1 ELSE 0,
                    IF current < Len(Past) - 1 THEN current + 1 ELSE current}
  BY <1>1, <1>3
<1>9. Promise!Recall
  BY <1>1, <1>2, <1>3, <1>4, <1>5, <1>6, <1>7, <1>8 DEF Promise!Recall, Shown, Past
<1> QED BY <1>9 DEF Promise!Next

\* Enter gives the program what is on the line and records it, if malloc can.
LEMMA EnterSubmits ==
  ASSUME Inv, HeapInv, OneBlock, Enter
  PROVE  Promise!Next
<1>1. CASE Oops
  BY <1>1, OopsIsSilent DEF Promise!Next
<1>2. CASE ~Oops
  <2>1. PICK b, m : /\ b = [line EXCEPT ![n + 1] = NUL] /\ m = Malloc(blk, LineBytes)
                    /\ n > 0 /\ n # LineSize /\ count # MaxHistory
                    /\ lines' = [lines EXCEPT ![count + 1] = m.ptr]
                    /\ IF m.ptr = NULL THEN UNCHANGED <<text, count, current>>
                       ELSE Recorded(m, StringOf(b))
                    /\ HandOver(b)
    BY <1>2 DEF Enter
  <2>2. n < LineSize /\ n \in Nat
    BY <2>1, LineEditorAssumption DEF Inv, LineInv
  <2>3. PICK s \in Seq(Letters) : s = StringOf(b) /\ s = Shown /\ Len(s) = n
    BY <2>1, <2>2, HandedText, LineIsText DEF Inv, Shown
  <2>4. Shown # << >>
    <3>1. Len(<< >>) = 0 /\ Len(s) # 0
      BY <2>1, <2>2, <2>3, EmptySeq
    <3> QED BY <2>3, <3>1
  <2>5. delivered' = Shown /\ Shown' = << >>
    <3>1. n' = 0 /\ delivered' = s
      BY <2>1, <2>3 DEF HandOver
    <3>2. SubSeq(line', 1, 0) = << >>
      BY SubSeqEmpty
    <3> QED BY <2>3, <3>1, <3>2 DEF Shown
  <2>6. count \in Nat /\ count + 1 \in 1 .. MaxHistory /\ MaxHistory \in Nat
        /\ lines = [i \in 1 .. MaxHistory |-> lines[i]]
    <3>1. MaxHistory \in Nat
      BY LineEditorAssumption
    <3>2. count \in 0 .. MaxHistory /\ lines = [i \in 1 .. MaxHistory |-> lines[i]]
      BY DEF Inv, ListInv
    <3> QED BY <2>1, <3>1, <3>2
  <2>7. lines'[count + 1] = m.ptr /\ \A i \in 1 .. count : lines'[i] = lines[i]
    <3>1. lines' = [i \in 1 .. MaxHistory |-> IF i = count + 1 THEN m.ptr ELSE lines[i]]
      BY <2>1, <2>6
    <3>2. \A i \in 1 .. count : i \in 1 .. MaxHistory /\ i # count + 1
      BY <2>6
    <3> QED BY <2>6, <3>1, <3>2
  <2>8. CASE m.ptr = NULL
    <3>1. UNCHANGED <<text, count, current>>
      BY <2>1, <2>8
    <3>2. UNCHANGED Past
      BY <2>7, <3>1 DEF Past
    <3>3. FreeRuns(Formatted(blk), Needed(LineBytes)) = {}
      <4>1. Blocks \cap {NULL} = {}
        BY LineEditorAssumption DEF Blocks, NULL
      <4> QED BY <2>1, <2>8, <4>1, MallocOne, LineEditorAssumption DEF OneBlock
    <3>4. Promise!Submit
      BY <2>4, <2>5, <3>1, <3>2, <3>3 DEF Promise!Submit, Shown, Past
    <3> QED BY <3>4 DEF Promise!Next
  <2>9. CASE m.ptr # NULL
    <3>1. text' = [text EXCEPT ![m.ptr] = s] /\ count' = count + 1 /\ current' = count + 1
      BY <2>1, <2>3, <2>9 DEF Recorded
    <3>2. m.ptr \in Blocks \ Held
      BY <2>1, <2>9, MallocOne, LineEditorAssumption DEF OneBlock
    <3>3. text' = [x \in Blocks |-> IF x = m.ptr THEN s ELSE text[x]]
      BY <3>1, <3>2 DEF Inv, LineInv, Blocks
    <3>4. ASSUME NEW i \in 1 .. count PROVE text'[lines'[i]] = Past[i]
      <4>1. lines[i] # m.ptr /\ lines[i] \in Blocks
        BY <3>2 DEF Held, Inv, ListInv
      <4> QED BY <2>7, <3>3, <4>1 DEF Past
    <3>5. text'[lines'[count + 1]] = s
      BY <2>7, <3>2, <3>3
    <3>6. PICK q : q = Append(Past, s)
      OBVIOUS
    <3>7. q \in Seq(Seq(Letters)) /\ Len(q) = count + 1 /\ q[count + 1] = s
          /\ \A i \in 1 .. count : q[i] = Past[i]
      BY <3>6, PastIsList, AppendProperties
    <3>8. q = [i \in 1 .. count + 1 |-> q[i]]
      BY <2>6, <3>7
    <3>9. \A i \in 1 .. count + 1 : i = count + 1 \/ i \in 1 .. count
      BY <2>6
    <3>10. \A i \in 1 .. count + 1 : text'[lines'[i]] = q[i]
      BY <3>4, <3>5, <3>7, <3>9
    <3>11. Past' = q
      BY <3>1, <3>8, <3>10 DEF Past
    <3>12. Past' = Append(Past, Shown) /\ current' = Len(Past')
      BY <2>3, <3>1, <3>6, <3>7, <3>11
    <3>13. Promise!Submit
      BY <2>4, <2>5, <3>12 DEF Promise!Submit, Shown, Past
    <3> QED BY <3>13 DEF Promise!Next
  <2> QED BY <2>8, <2>9
<1> QED BY <1>1, <1>2

\* What the program does with memory of its own shows nothing.
LEMMA OwnIsSilent ==
  ASSUME Inv, NEW ptr, ptr = NULL \/ ptr \notin Held, ptr \in {NULL} \cup Blocks, NEW h, Own(ptr, h)
  PROVE  Promise!Next
<1>1. /\ delivered' = << >> /\ UNCHANGED <<line, n, lines, count, current>>
      /\ text' = IF ptr = NULL THEN text ELSE [text EXCEPT ![ptr] = << >>]
  BY DEF Own
<1>2. ASSUME NEW i \in 1 .. count PROVE text'[lines'[i]] = text[lines[i]]
  <2>1. lines[i] \in Held /\ lines[i] \in Blocks
    BY DEF Held, Inv, ListInv
  <2>2. text = [x \in Blocks |-> text[x]]
    BY DEF Inv, LineInv, Blocks
  <2>3. CASE ptr = NULL
    BY <1>1, <2>3
  <2>4. CASE ptr # NULL
    BY <1>1, <2>1, <2>2, <2>4
  <2> QED BY <2>3, <2>4
<1>3. UNCHANGED Past
  BY <1>1, <1>2 DEF Past
<1>4. Promise!Silent
  BY <1>1, <1>3 DEF Promise!Silent, Past
<1> QED BY <1>4 DEF Promise!Next

LEMMA EditorStep ==
  ASSUME Inv, HeapInv, OneBlock, NUL \notin Chars, [Next]_vars
  PROVE  [Promise!Next]_(Promise!editorVars)
<1>1. ASSUME NEW c \in Chars, Type(c) PROVE Promise!Next
  <2>1. CASE Oops
    BY <2>1, OopsIsSilent DEF Promise!Next
  <2>2. CASE ~Oops
    <3>1. Shown' = Append(Shown, c) /\ delivered' = << >> /\ UNCHANGED hist
      BY <1>1, <2>2, TypeKeeps DEF Shown
    <3>2. Shown \in Seq(Letters) /\ c \in Letters
      BY LineIsText DEF Shown, Inv, Letters, Symbols
    <3>3. PICK k \in Nat : k = Len(Shown)
      BY <3>2, LenProperties
    <3>4. PICK t : t = Append(Shown, c)
      OBVIOUS
    <3>5. t \in Seq(Letters) /\ Len(t) = k + 1 /\ \A i \in 1 .. k : t[i] = Shown[i]
      BY <3>2, <3>3, <3>4, AppendProperties
    <3>6. SubSeq(t, 1, k) = SubSeq(Shown, 1, k)
      <4>1. PICK s : s = Shown
        OBVIOUS
      <4>2. \A i \in 1 .. k : t[i] = s[i] /\ s[i] \in Letters
        BY <3>2, <3>3, <3>5, <4>1, ElementOfSeq
      <4> QED BY <4>1, <4>2, SameText
    <3>7. Len(Shown') = Len(Shown) + 1 /\ IsPrefix(Shown, Shown')
      BY <3>1, <3>3, <3>4, <3>5, <3>6 DEF IsPrefix
    <3> QED BY <3>1, <3>7, KeyEdits
  <2> QED BY <2>1, <2>2
<1>2. CASE Backspace
  BY <1>2, BackspaceKeeps, KeyEdits DEF Shown
<1>3. CASE Tab
  <2>1. CASE Oops
    BY <2>1, OopsIsSilent DEF Promise!Next
  <2>2. CASE ~Oops
    BY <1>3, <2>2, TabKeeps, KeyEdits DEF Shown
  <2> QED BY <2>1, <2>2
<1>4. CASE Up
  <2>1. PICK k : k = (IF current > 0 THEN current - 1 ELSE 0) /\ Show(k) /\ count > 0
    BY <1>4 DEF Up
  <2>2. k \in 0 .. count - 1
    <3>1. count \in Nat /\ current \in 0 .. count
      BY LineEditorAssumption DEF Inv, ListInv
    <3> QED BY <2>1, <3>1
  <2> QED BY <2>1, <2>2, ShowRecalls
<1>5. CASE Down
  <2>1. CASE Oops
    BY <2>1, OopsIsSilent DEF Promise!Next
  <2>2. CASE ~Oops
    <3>1. PICK k : k = (IF current < count - 1 THEN current + 1 ELSE current)
                   /\ k < count /\ Show(k) /\ count > 0
      BY <1>5, <2>2 DEF Down
    <3>2. k \in 0 .. count - 1
      <4>1. count \in Nat /\ current \in 0 .. count
        BY LineEditorAssumption DEF Inv, ListInv
      <4> QED BY <3>1, <4>1
    <3> QED BY <3>1, <3>2, ShowRecalls
  <2> QED BY <2>1, <2>2
<1>6. CASE EnterEmpty
  <2>1. Shown = << >> /\ Shown' = << >> /\ UNCHANGED hist
    BY <1>6, EnterEmptyKeeps DEF Shown
  <2>2. UNCHANGED Past /\ UNCHANGED current
    BY <2>1 DEF hist, Past
  <2>3. Promise!SubmitNothing
    BY <2>1, <2>2 DEF Promise!SubmitNothing, Shown, Past
  <2> QED BY <2>3 DEF Promise!Next
<1>7. CASE Enter
  BY <1>7, EnterSubmits
<1>8. CASE TakeOwn
  <2>1. PICK m : m = Malloc(blk, OwnBytes) /\ Own(m.ptr, m.heap)
    BY <1>8 DEF TakeOwn
  <2>2. m.ptr = NULL \/ m.ptr \notin Held
    BY <2>1, MallocOne, LineEditorAssumption DEF OneBlock
  <2>3. m.ptr \in {NULL} \cup Blocks
    BY <2>1, MallocReturns DEF Inv, ListInv
  <2> QED BY <2>1, <2>2, <2>3, OwnIsSilent
<1>9. CASE FreeOwn
  <2>1. PICK h : Own(NULL, h)
    BY <1>9 DEF FreeOwn
  <2> QED BY <2>1, OwnIsSilent
<1>10. CASE UNCHANGED vars
  BY <1>10 DEF vars, hist, Promise!editorVars
<1> QED BY <1>1, <1>2, <1>3, <1>4, <1>5, <1>6, <1>7, <1>8, <1>9, <1>10 DEF Next, Key

\* readline implements an editor with a history: what the program gets is what
\* was on the line, and every text that was recorded can be recalled in its
\* order, whatever the program does with the heap besides.
THEOREM ReadlineImplementsEditor ==
  ASSUME OneBlock, NUL \notin Chars
  PROVE  Spec => ImplementsEditor
<1>1. Init => Promise!Init
  <2> SUFFICES ASSUME Init PROVE Promise!Init
    OBVIOUS
  <2>1. n = 0 /\ count = 0 /\ current = 0 /\ delivered = << >>
    BY DEF Init
  <2>2. SubSeq(line, 1, 0) = << >>
    BY SubSeqEmpty
  <2>3. [i \in 1 .. 0 |-> text[lines[i]]] = << >>
    OBVIOUS
  <2> QED BY <2>1, <2>2, <2>3 DEF Promise!Init
<1>2. Init => Inv
  BY LineInvInit, ListInvInit DEF Inv
<1>3. Inv /\ HeapInv /\ [Next]_vars => [Promise!Next]_(Promise!editorVars)
  BY EditorStep
<1>4. Spec => [](Inv /\ HeapInv)
  BY <1>2, HeapInvInit, InvStep, HeapInvStep, PTL DEF Spec
<1> QED BY <1>1, <1>3, <1>4, PTL DEF Spec, ImplementsEditor, Promise!Spec

-----------------------------------------------------------------------------
(***************************************************************************)
(* One process goes on: the others wait for their children, each of which  *)
(* is alive, or are not there.                                             *)
(***************************************************************************)
Reads == {<<"lseek", "read", "close">>, <<"read", "close">>}
Writes == {<<"lseek", "write", "close">>, <<"write", "close">>}
OpenCat == <<"open", "lseek", "read", "close">>
OpenEdit == <<"open", "lseek", "write", "close">>
Unopened == {<< >>, <<"print", "print">>, <<"print">>, <<"fork">>, OpenCat, OpenEdit}

Shapes ==
  /\ role = [p \in Procs |-> role[p]] /\ todo = [p \in Procs |-> todo[p]]
  /\ cmd = [p \in Procs |-> cmd[p]] /\ fd = [p \in Procs |-> fd[p]]
  /\ child = [p \in Procs |-> child[p]]
  /\ avail \in 3 .. MaxFd
  /\ files = [i \in Fds |-> files[i]]
  /\ \A i \in Fds : files[i] = [opened |-> files[i].opened, file |-> files[i].file,
                                perm |-> files[i].perm, cfo |-> files[i].cfo]

Waits(p) == role[p] = "shell" /\ todo[p] = <<"wait">> /\ child[p] \in Procs /\ role[child[p]] # "none"
Absent(p) == role[p] = "none" /\ todo[p] = << >>

Others(t) ==
  /\ \A p \in Procs \ {t} : Waits(p) \/ Absent(p)
  /\ \A p, q \in Procs \ {t} : Waits(p) /\ Waits(q) /\ child[p] = child[q] => p = q

\* Where the process that goes on is in its command.
Stage(t) ==
  \/ role[t] = "shell" /\ todo[t] \in Unopened \cup Reads \cup Writes \cup {<<"close">>}
  \/ role[t] = "loader" /\ todo[t] = <<"execve">>
  \/ role[t] \in {"program", "exited", "spin"} /\ todo[t] = << >>

\* The one file that may be open is that of the command.
OpenFiles(t) ==
  /\ \A i \in Fds : files[i].opened =>
       i < avail /\ i = fd[t] /\ role[t] = "shell" /\ todo[t] \in Reads \cup Writes \cup {<<"close">>}
  /\ todo[t] \in Reads \cup {OpenCat} => cmd[t].verb = "cat"
  /\ todo[t] \in Writes \cup {OpenEdit} => cmd[t].verb = "edit" /\ cmd[t].offset >= 0
  /\ todo[t] \in Writes /\ Usable(fd[t]) => files[fd[t]].file = cmd[t].file
  /\ todo[t] = <<"write", "close">> /\ Usable(fd[t]) /\ cmd[t].offset <= MaxNumber =>
       files[fd[t]].cfo = cmd[t].offset

Turn(t) == Others(t) /\ Stage(t) /\ OpenFiles(t)
ShellInv == Shapes /\ \E t \in Procs : Turn(t)
-----------------------------------------------------------------------------
\* The sequences of system calls, call by call.
LEMMA Plans ==
  /\ Head(<<"print", "print">>) = "print" /\ Tail(<<"print", "print">>) = <<"print">>
  /\ Head(<<"print">>) = "print" /\ Tail(<<"print">>) = << >>
  /\ Head(<<"fork">>) = "fork" /\ Head(<<"wait">>) = "wait" /\ Head(<<"execve">>) = "execve"
  /\ Head(OpenCat) = "open" /\ Tail(OpenCat) = <<"lseek", "read", "close">>
  /\ Head(OpenEdit) = "open" /\ Tail(OpenEdit) = <<"lseek", "write", "close">>
  /\ Head(<<"lseek", "read", "close">>) = "lseek" /\ Tail(<<"lseek", "read", "close">>) = <<"read", "close">>
  /\ Head(<<"lseek", "write", "close">>) = "lseek" /\ Tail(<<"lseek", "write", "close">>) = <<"write", "close">>
  /\ Head(<<"read", "close">>) = "read" /\ Tail(<<"read", "close">>) = <<"close">>
  /\ Head(<<"write", "close">>) = "write" /\ Tail(<<"write", "close">>) = <<"close">>
  /\ Head(<<"close">>) = "close" /\ Tail(<<"close">>) = << >>
BY DEF OpenCat, OpenEdit

\* No two of them are the same.
LEMMA PlansDiffer ==
  /\ << >> \notin {<<"print", "print">>, <<"print">>, <<"fork">>, <<"wait">>, <<"execve">>, <<"close">>, OpenCat, OpenEdit} \cup Reads \cup Writes
  /\ OpenCat # OpenEdit
  /\ <<"read", "close">> \in Reads /\ <<"read", "close">> \notin Writes \cup {OpenCat, OpenEdit, <<"write", "close">>}
  /\ <<"lseek", "read", "close">> \in Reads /\ <<"lseek", "write", "close">> \in Writes
  /\ <<"lseek", "read", "close">> \notin Writes \cup {OpenCat, OpenEdit, <<"write", "close">>}
  /\ <<"lseek", "write", "close">> \notin Reads \cup {OpenCat, OpenEdit, <<"write", "close">>}
BY DEF OpenCat, OpenEdit, Reads, Writes

\* What parse_cmd makes of a line.
LEMMA CallsOfLine ==
  ASSUME NEW c
  PROVE  /\ Calls(c) \in {<< >>, <<"print", "print">>, <<"fork">>, OpenCat, OpenEdit}
         /\ Calls(c) = OpenCat => c.verb = "cat"
         /\ Calls(c) = OpenEdit => c.verb = "edit" /\ c.offset >= 0
         /\ c.verb = "exit" => Calls(c) = << >>
BY PlansDiffer DEF Calls, OpenCat, OpenEdit

LEMMA InitShell == ShellInit => ShellInv
<1> SUFFICES ASSUME ShellInit PROVE ShellInv
  OBVIOUS
<1> USE DEF ShellInit
<1>1. Shapes
  <2>1. avail \in 3 .. MaxFd
    BY ShellAssumption
  <2>2. \A i \in Fds : files[i] = Closed
    OBVIOUS
  <2>3. \A i \in Fds : files[i] = [opened |-> files[i].opened, file |-> files[i].file,
                                   perm |-> files[i].perm, cfo |-> files[i].cfo]
    BY <2>2 DEF Closed
  <2> QED BY <2>1, <2>3 DEF Shapes
<1>2. 1 \in Procs
  BY ShellAssumption DEF Procs
<1>3. Turn(1)
  <2>1. Others(1)
    BY <1>2 DEF Others, Absent, Waits
  <2>2. Stage(1)
    BY <1>2 DEF Stage, Unopened
  <2>3. \A i \in Fds : ~files[i].opened
    BY DEF Closed
  <2>4. todo[1] = << >>
    BY <1>2
  <2>5. OpenFiles(1)
    BY <2>3, <2>4, PlansDiffer DEF OpenFiles, Reads, Writes
  <2> QED BY <2>1, <2>2, <2>5 DEF Turn
<1> QED BY <1>1, <1>2, <1>3 DEF ShellInv
\* Only the process whose turn it is acts, or one whose child has ended.
LEMMA OnlyTurn ==
  ASSUME NEW t \in Procs, Others(t), NEW p \in Procs, p # t
  PROVE  /\ ~Reading(p) /\ role[p] # "program" /\ role[p] # "exited"
         /\ \A call \in {"open", "lseek", "read", "write", "close", "print", "fork", "execve"} : ~Calling(p, call)
<1>1. CASE Absent(p)
  BY <1>1 DEF Absent, Reading, Calling
<1>2. CASE Waits(p)
  BY <1>2, Plans, PlansDiffer DEF Waits, Reading, Calling
<1> QED BY <1>1, <1>2 DEF Others

LEMMA OthersKept ==
  ASSUME NEW t \in Procs, Others(t), role'[t] # "none",
         \A q \in Procs \ {t} : role'[q] = role[q] /\ todo'[q] = todo[q] /\ child'[q] = child[q]
  PROVE  Others(t)'
<1>1. \A q \in Procs \ {t} : Absent(q) => Absent(q)'
  BY DEF Absent
<1>2. \A q \in Procs \ {t} : Waits(q) => Waits(q)'
  BY DEF Waits
<1>3. \A q \in Procs \ {t} : Waits(q)' => ~Absent(q)
  BY DEF Waits, Absent
<1> QED BY <1>1, <1>2, <1>3 DEF Others

\* A step of the process whose turn it is, at a prompt or in a command.
LEMMA TurnKept ==
  ASSUME Shapes, NEW t \in Procs, Turn(t), Shapes', Stage(t)', OpenFiles(t)',
         \A q \in Procs \ {t} : role'[q] = role[q] /\ todo'[q] = todo[q] /\ child'[q] = child[q]
  PROVE  ShellInv'
<1>1. role'[t] # "none"
  BY DEF Stage
<1> QED BY <1>1, OthersKept DEF Turn, ShellInv

\* What these parts leave alone does not matter.
LEMMA Unmoved ==
  ASSUME ShellInv, UNCHANGED <<role, todo, cmd, fd, child, files, avail>>
  PROVE  ShellInv'
<1>1. PICK t \in Procs : Turn(t)
  BY DEF ShellInv
<1>2. Shapes'
  BY DEF ShellInv, Shapes
<1>3. Others(t)' /\ Stage(t)'
  BY <1>1 DEF Turn, Others, Stage, Waits, Absent
<1>4. OpenFiles(t)'
  BY <1>1 DEF Turn, OpenFiles, Usable
<1> QED BY <1>2, <1>3, <1>4 DEF ShellInv, Turn

LEMMA ReadLineTurn ==
  ASSUME Shapes, NEW t \in Procs, Turn(t), ReadLine(t)
  PROVE  ShellInv'
<1>1. CASE Astray
  <2>1. UNCHANGED <<procs, kernel>>
    BY <1>1 DEF Astray
  <2> QED BY <2>1, Unmoved DEF procs, kernel, ShellInv
<1>2. CASE ~Astray
  <2>1. PICK c \in Lines :
          /\ cmd' = [cmd EXCEPT ![t] = c] /\ todo' = [todo EXCEPT ![t] = Calls(c)]
          /\ role' = [role EXCEPT ![t] = IF c.verb = "exit" THEN "spin" ELSE @]
          /\ UNCHANGED <<fd, child, kernel>>
    BY <1>2 DEF ReadLine
  <2>2. role[t] = "shell" /\ todo[t] = << >>
    BY DEF ReadLine, Reading
  <2>3. Shapes'
    BY <2>1 DEF Shapes, kernel
  <2>4. /\ todo'[t] = Calls(c) /\ cmd'[t] = c /\ role'[t] = (IF c.verb = "exit" THEN "spin" ELSE "shell")
        /\ \A q \in Procs \ {t} : role'[q] = role[q] /\ todo'[q] = todo[q] /\ child'[q] = child[q]
    BY <2>1, <2>2 DEF Shapes
  <2>5. Stage(t)'
    BY <2>4, CallsOfLine DEF Stage, Unopened
  <2>6. \A i \in Fds : ~files'[i].opened
    BY <2>1, <2>2, PlansDiffer DEF Turn, OpenFiles, kernel
  <2>7. todo'[t] \notin Reads \cup Writes
    BY <2>4, CallsOfLine DEF Reads, Writes, OpenCat, OpenEdit
  <2>8. OpenFiles(t)'
    BY <2>4, <2>6, <2>7, CallsOfLine DEF OpenFiles, Writes, Reads, Usable
  <2> QED BY <2>3, <2>4, <2>5, <2>8, TurnKept
<1> QED BY <1>1, <1>2
\* A step of the shell inside a command, for its place in the command and the
\* file that it may have open.
LEMMA InCommand ==
  ASSUME Shapes, NEW t \in Procs, Turn(t), role[t] = "shell", NEW rest,
         todo' = [todo EXCEPT ![t] = rest], rest \in Unopened \cup Reads \cup Writes \cup {<<"close">>},
         UNCHANGED <<role, cmd, child>>, Shapes', OpenFiles(t)'
  PROVE  ShellInv'
<1>1. todo'[t] = rest
  BY DEF Shapes
<1>2. Stage(t)'
  BY <1>1 DEF Stage
<1>3. \A q \in Procs \ {t} : role'[q] = role[q] /\ todo'[q] = todo[q] /\ child'[q] = child[q]
  BY DEF Shapes
<1> QED BY <1>2, <1>3, TurnKept

LEMMA OpenTurn == ASSUME Shapes, NEW t \in Procs, Turn(t), Open(t) PROVE ShellInv'
<1>1. CASE Astray
  <2>1. UNCHANGED <<procs, kernel>>
    BY <1>1 DEF Astray
  <2> QED BY <2>1, Unmoved DEF procs, kernel, ShellInv
<1>2. CASE ~Astray
  <2>1. role[t] = "shell" /\ todo[t] \in {OpenCat, OpenEdit}
    BY Plans DEF Open, Calling, Turn, Stage, Unopened, Reads, Writes
  <2>2. /\ todo[t] = OpenCat => cmd[t].verb = "cat" /\ Tail(todo[t]) = <<"lseek", "read", "close">>
        /\ todo[t] = OpenEdit => /\ cmd[t].verb = "edit" /\ cmd[t].offset >= 0
                                 /\ Tail(todo[t]) = <<"lseek", "write", "close">>
    BY Plans DEF Turn, OpenFiles
  <2>3. \A i \in Fds : ~files[i].opened
    BY <2>1, PlansDiffer, Plans DEF Turn, OpenFiles, Reads, Writes
  <2>4. avail \in Fds
    BY <1>2, ShellAssumption DEF Open, Shapes, Fds
  <2>5. CASE cmd[t].file \in FileNames
    <3>1. /\ fd' = [fd EXCEPT ![t] = avail] /\ todo' = [todo EXCEPT ![t] = Tail(todo[t])]
          /\ files' = [files EXCEPT ![avail] = [opened |-> TRUE, file |-> cmd[t].file,
                                               perm |-> Perm(cmd[t]), cfo |-> 0]]
          /\ avail' = avail + 1 /\ UNCHANGED <<role, cmd, child>>
      BY <1>2, <2>3, <2>4, <2>5 DEF Open, Continue
    <3>2. avail' \in 3 .. MaxFd
      BY <2>4, <3>1, ShellAssumption DEF Fds
    <3>3. \A i \in Fds : files'[i] = IF i = avail THEN [opened |-> TRUE, file |-> cmd[t].file,
                                                       perm |-> Perm(cmd[t]), cfo |-> 0]
                                     ELSE files[i]
      BY <3>1 DEF Shapes
    <3>4. Shapes'
      BY <3>1, <3>2, <3>3 DEF Shapes
    <3>5. \A i \in Fds : files'[i].opened => i = avail
      BY <2>3, <3>3
    <3>6. files'[avail].file = cmd[t].file
      BY <2>4, <3>3
    <3>7. fd'[t] = avail /\ todo'[t] = Tail(todo[t]) /\ avail < avail'
      BY <2>4, <3>1 DEF Shapes, Fds
    <3>8. Tail(todo[t]) \in {<<"lseek", "read", "close">>, <<"lseek", "write", "close">>}
      BY <2>1, <2>2
    <3>9. OpenFiles(t)'
      <4>1. CASE todo[t] = OpenCat
        BY <2>1, <2>2, <3>1, <3>5, <3>7, <4>1, PlansDiffer DEF OpenFiles
      <4>2. CASE todo[t] = OpenEdit
        BY <2>1, <2>2, <3>1, <3>5, <3>6, <3>7, <4>2, PlansDiffer DEF OpenFiles
      <4> QED BY <2>1, <4>1, <4>2
    <3> QED BY <2>1, <3>1, <3>4, <3>8, <3>9, InCommand DEF Reads, Writes
  <2>6. CASE cmd[t].file \notin FileNames
    <3>1. /\ fd' = [fd EXCEPT ![t] = -1] /\ todo' = [todo EXCEPT ![t] = Failed(t)]
          /\ UNCHANGED <<role, cmd, child, files, avail>>
      BY <1>2, <2>6 DEF Open, Continue
    <3>2. Failed(t) = IF todo[t] = OpenCat THEN << >> ELSE <<"lseek", "write", "close">>
      BY <2>1, <2>2 DEF Failed
    <3>3. fd'[t] = -1 /\ todo'[t] = Failed(t) /\ Shapes' /\ -1 \notin Fds
      <4>1. -1 \notin Fds
        BY ShellAssumption DEF Fds
      <4>2. fd'[t] = -1 /\ todo'[t] = Failed(t)
        BY <3>1 DEF Shapes
      <4>3. Shapes'
        BY <3>1 DEF Shapes
      <4> QED BY <4>1, <4>2, <4>3
    <3>4. OpenFiles(t)'
      BY <2>1, <2>2, <2>3, <3>1, <3>2, <3>3, PlansDiffer DEF OpenFiles, Reads, Writes, Usable, OpenCat, OpenEdit
    <3> QED BY <2>1, <3>1, <3>2, <3>3, <3>4, InCommand DEF Writes, Unopened
  <2> QED BY <2>5, <2>6
<1> QED BY <1>1, <1>2

\* The descriptors other than that of the command are closed.
LEMMA Repositioned ==
  ASSUME Shapes, NEW i \in Fds, NEW to, files' = [files EXCEPT ![i].cfo = to]
  PROVE  /\ files' = [j \in Fds |-> files'[j]]
         /\ \A j \in Fds : /\ files'[j].opened = files[j].opened /\ files'[j].file = files[j].file
                           /\ files'[j] = [opened |-> files'[j].opened, file |-> files'[j].file,
                                           perm |-> files'[j].perm, cfo |-> files'[j].cfo]
         /\ files'[i].cfo = to
<1>1. PICK r : r = files[i] /\ r = [opened |-> r.opened, file |-> r.file, perm |-> r.perm, cfo |-> r.cfo]
  BY DEF Shapes
<1>2. files'[i] = [r EXCEPT !.cfo = to]
  BY <1>1 DEF Shapes
<1>3. files'[i] = [opened |-> r.opened, file |-> r.file, perm |-> r.perm, cfo |-> to]
  BY <1>1, <1>2
<1>4. \A j \in Fds : j # i => files'[j] = files[j]
  BY DEF Shapes
<1>5. files' = [j \in Fds |-> files'[j]]
  BY DEF Shapes
<1>6. ASSUME NEW j \in Fds
      PROVE  /\ files'[j].opened = files[j].opened /\ files'[j].file = files[j].file
             /\ files'[j] = [opened |-> files'[j].opened, file |-> files'[j].file,
                             perm |-> files'[j].perm, cfo |-> files'[j].cfo]
  <2>1. CASE j = i
    BY <1>1, <1>3, <2>1
  <2>2. CASE j # i
    BY <1>4, <2>2 DEF Shapes
  <2> QED BY <2>1, <2>2
<1>7. files'[i].cfo = to
  BY <1>3
<1> QED BY <1>5, <1>6, <1>7

\* The position is the one that was typed, if there is a file and atoi can
\* compute the number; with any other result the write is still to come.
LEMMA LseekTurn == ASSUME Shapes, NEW t \in Procs, Turn(t), Lseek(t) PROVE ShellInv'
<1>1. role[t] = "shell" /\ todo[t] \in {<<"lseek", "read", "close">>, <<"lseek", "write", "close">>}
  BY Plans DEF Lseek, Calling, Turn, Stage, Unopened, Reads, Writes
<1>2. /\ todo[t] = <<"lseek", "read", "close">> => cmd[t].verb = "cat" /\ Tail(todo[t]) = <<"read", "close">>
      /\ todo[t] = <<"lseek", "write", "close">> => /\ cmd[t].verb = "edit" /\ cmd[t].offset >= 0
                                                   /\ Tail(todo[t]) = <<"write", "close">>
  BY <1>1, Plans DEF Turn, OpenFiles, Reads, Writes
<1>3. UNCHANGED <<role, cmd, fd, child, avail>> /\ todo' = [todo EXCEPT ![t] = Tail(todo[t])]
  BY DEF Lseek, Continue
<1>4. PICK to \in Passed(cmd[t]) :
        files' = IF Usable(fd[t]) /\ to >= 0 THEN [files EXCEPT ![fd[t]].cfo = to] ELSE files
  BY DEF Lseek, Sought
<1>5. \/ UNCHANGED files
      \/ fd[t] \in Fds /\ files' = [files EXCEPT ![fd[t]].cfo = to]
  BY <1>4 DEF Usable
<1>6. /\ Shapes' /\ todo'[t] = Tail(todo[t])
      /\ \A j \in Fds : files'[j].opened = files[j].opened /\ files'[j].file = files[j].file
  BY <1>3, <1>5, Repositioned DEF Shapes
<1>7. Usable(fd[t])' <=> Usable(fd[t])
  BY <1>3, <1>6 DEF Usable
<1>8. ASSUME cmd[t].verb = "edit", cmd[t].offset >= 0, cmd[t].offset <= MaxNumber, Usable(fd[t])
      PROVE  files'[fd[t]].cfo = cmd[t].offset
  <2>1. to = cmd[t].offset
    BY <1>4, <1>8 DEF Passed
  <2>2. files' = [files EXCEPT ![fd[t]].cfo = to] /\ fd[t] \in Fds
    BY <1>4, <1>8, <2>1 DEF Usable
  <2> QED BY <2>1, <2>2, Repositioned
<1>9. \A j \in Fds : files'[j].opened => j < avail /\ j = fd[t]
  BY <1>6 DEF Turn, OpenFiles
<1>10. OpenFiles(t)'
  <2>1. CASE todo[t] = <<"lseek", "read", "close">>
    <3>1. todo'[t] = <<"read", "close">> /\ cmd[t].verb = "cat"
      BY <1>2, <1>6, <2>1
    <3> QED BY <1>1, <1>3, <1>9, <3>1, PlansDiffer DEF OpenFiles
  <2>2. CASE todo[t] = <<"lseek", "write", "close">>
    <3>1. todo'[t] = <<"write", "close">> /\ cmd[t].verb = "edit" /\ cmd[t].offset >= 0
      BY <1>2, <1>6, <2>2
    <3>2. Usable(fd[t]) => files'[fd[t]].file = cmd[t].file
      BY <1>6, <2>2 DEF Turn, OpenFiles, Writes, Usable
    <3> QED BY <1>1, <1>3, <1>7, <1>8, <1>9, <3>1, <3>2 DEF OpenFiles, Reads, Writes, OpenCat
  <2> QED BY <1>1, <2>1, <2>2
<1> QED BY <1>1, <1>2, <1>3, <1>6, <1>10, InCommand DEF Reads, Writes

LEMMA ReadTurn == ASSUME Shapes, NEW t \in Procs, Turn(t), Read(t) PROVE ShellInv'
<1>1. role[t] = "shell" /\ todo[t] = <<"read", "close">> /\ Tail(todo[t]) = <<"close">>
  BY Plans DEF Read, Calling, Turn, Stage, Unopened, Reads, Writes
<1>2. todo' = [todo EXCEPT ![t] = <<"close">>] /\ UNCHANGED <<role, cmd, fd, child, avail>>
  BY <1>1 DEF Read, Continue
<1>3. \/ UNCHANGED files
      \/ fd[t] \in Fds /\ \E to : files' = [files EXCEPT ![fd[t]].cfo = to]
  BY DEF Read, Allowed, Usable
<1>4. Shapes' /\ todo'[t] = <<"close">> /\ \A j \in Fds : files'[j].opened = files[j].opened
  BY <1>2, <1>3, Repositioned DEF Shapes
<1>5. OpenFiles(t)'
  BY <1>1, <1>2, <1>4 DEF Turn, OpenFiles, Reads, Writes, OpenCat, OpenEdit
<1> QED BY <1>1, <1>2, <1>4, <1>5, InCommand

LEMMA WriteTurn == ASSUME Shapes, NEW t \in Procs, Turn(t), Write(t) PROVE ShellInv'
<1>1. role[t] = "shell" /\ todo[t] = <<"write", "close">> /\ Tail(todo[t]) = <<"close">>
  BY Plans DEF Write, Calling, Turn, Stage, Unopened, Reads, Writes
<1>2. todo' = [todo EXCEPT ![t] = <<"close">>] /\ UNCHANGED <<role, cmd, fd, child, avail>>
  BY <1>1 DEF Write, Continue
<1>3. \/ UNCHANGED files
      \/ fd[t] \in Fds /\ \E to : files' = [files EXCEPT ![fd[t]].cfo = to]
  BY DEF Write, Allowed, Usable
<1>4. Shapes' /\ todo'[t] = <<"close">> /\ \A j \in Fds : files'[j].opened = files[j].opened
  BY <1>2, <1>3, Repositioned DEF Shapes
<1>5. OpenFiles(t)'
  BY <1>1, <1>2, <1>4 DEF Turn, OpenFiles, Reads, Writes, OpenCat, OpenEdit
<1> QED BY <1>1, <1>2, <1>4, <1>5, InCommand

LEMMA CloseTurn == ASSUME Shapes, NEW t \in Procs, Turn(t), Close(t) PROVE ShellInv'
<1>1. role[t] = "shell" /\ todo[t] = <<"close">> /\ Tail(todo[t]) = << >>
  BY Plans DEF Close, Calling, Turn, Stage, Unopened, Reads, Writes
<1>2. todo' = [todo EXCEPT ![t] = << >>] /\ UNCHANGED <<role, cmd, fd, child, avail>>
  BY <1>1 DEF Close, Continue
<1>3. \A j \in Fds : files'[j] = IF Usable(fd[t]) /\ j = fd[t] THEN Closed ELSE files[j]
  BY DEF Close, Shapes
<1>4. Shapes' /\ todo'[t] = << >>
  <2>1. files' = [j \in Fds |-> files'[j]]
    BY DEF Close, Shapes
  <2>2. \A j \in Fds : files'[j] = [opened |-> files'[j].opened, file |-> files'[j].file,
                                    perm |-> files'[j].perm, cfo |-> files'[j].cfo]
    BY <1>3 DEF Closed, Shapes
  <2> QED BY <1>2, <2>1, <2>2 DEF Shapes
<1>5. \A j \in Fds : ~files'[j].opened
  <2>1. \A j \in Fds : files[j].opened => j = fd[t] /\ Usable(fd[t])
    BY DEF Turn, OpenFiles, Usable
  <2> QED BY <1>3, <2>1 DEF Closed
<1>6. OpenFiles(t)'
  BY <1>4, <1>5, PlansDiffer DEF OpenFiles, Reads, Writes
<1> QED BY <1>1, <1>2, <1>4, <1>6, InCommand DEF Unopened

LEMMA PrintTurn == ASSUME Shapes, NEW t \in Procs, Turn(t), PrintText(t) PROVE ShellInv'
<1>1. role[t] = "shell" /\ todo[t] \in {<<"print", "print">>, <<"print">>} /\ Tail(todo[t]) \in {<<"print">>, << >>}
  BY Plans DEF PrintText, Calling, Turn, Stage, Unopened, Reads, Writes
<1>2. todo' = [todo EXCEPT ![t] = Tail(todo[t])] /\ UNCHANGED <<role, cmd, fd, child, avail, files>>
  BY DEF PrintText, Continue, kernel
<1>3. Shapes' /\ todo'[t] = Tail(todo[t])
  BY <1>2 DEF Shapes
<1>4. \A j \in Fds : ~files[j].opened
  BY <1>1 DEF Turn, OpenFiles, Reads, Writes
<1>5. Tail(todo[t]) \notin Reads \cup Writes \cup {OpenCat, OpenEdit, <<"write", "close">>}
  BY <1>1, PlansDiffer DEF Reads, Writes, OpenCat, OpenEdit
<1>6. OpenFiles(t)'
  BY <1>2, <1>3, <1>4, <1>5 DEF OpenFiles
<1> QED BY <1>1, <1>2, <1>3, <1>6, InCommand DEF Unopened

LEMMA ForkTurn == ASSUME Shapes, NEW t \in Procs, Turn(t), Fork(t) PROVE ShellInv'
<1> DEFINE unused == {q \in Procs : role[q] = "none"}
<1>1. CASE unused = {}
  <2>1. UNCHANGED <<procs, kernel>>
    BY <1>1 DEF Fork, Astray
  <2> QED BY <2>1, Unmoved DEF procs, kernel, ShellInv
<1>2. CASE unused # {}
  <2>1. Min(unused) \in unused
    <3>1. unused \in SUBSET (0 .. MaxProcs) /\ MaxProcs \in Nat
      BY ShellAssumption DEF Procs
    <3> HIDE DEF unused
    <3>2. \E x \in unused : \A y \in unused : x <= y
      BY <1>2, <3>1, LeastElement
    <3> QED BY <3>2 DEF Min
  <2>2. PICK q \in Procs :
          /\ role[q] = "none"
          /\ role' = [role EXCEPT ![q] = "loader"]
          /\ todo' = [todo EXCEPT ![t] = AfterFork, ![q] = <<"execve">>]
          /\ child' = [child EXCEPT ![t] = q, ![q] = 0]
          /\ cmd' = [cmd EXCEPT ![q] = cmd[t]] /\ fd' = [fd EXCEPT ![q] = fd[t]]
          /\ UNCHANGED <<files, avail>>
    BY <1>2, <2>1 DEF Fork, kernel
  <2>4. role[t] = "shell" /\ todo[t] = <<"fork">>
    BY Plans DEF Fork, Calling, Turn, Stage, Unopened, Reads, Writes
  <2> HIDE DEF unused
  <2>5. q # t /\ Shapes'
    BY <2>2, <2>4 DEF Shapes
  <2>6. /\ role'[t] = "shell" /\ todo'[t] = <<"wait">> /\ child'[t] = q /\ role'[q] = "loader"
        /\ todo'[q] = <<"execve">>
        /\ \A p \in Procs \ {t, q} : role'[p] = role[p] /\ todo'[p] = todo[p] /\ child'[p] = child[p]
        /\ \A p \in Procs \ {q} : role'[p] = role[p]
    BY <2>2, <2>4, <2>5 DEF Shapes, AfterFork
  <2>7. Waits(t)'
    BY <2>6 DEF Waits
  <2>8. \A p \in Procs \ {t, q} : (Waits(p) => Waits(p)' /\ child[p] # q) /\ (Absent(p) => Absent(p)')
    BY <2>2, <2>6 DEF Waits, Absent
  <2>9. Others(q)'
    <3>1. \A p \in Procs \ {t, q} : Waits(p) \/ Absent(p)
      BY DEF Turn, Others
    <3>2. \A p \in Procs \ {q} : Waits(p)' \/ Absent(p)'
      BY <2>7, <2>8, <3>1
    <3>3. \A p \in Procs \ {t, q} : Waits(p)' => Waits(p) /\ child'[p] = child[p] /\ child'[p] # q
      <4>1. \A p \in Procs \ {t, q} : Waits(p)' => ~Absent(p)
        BY <2>6 DEF Waits, Absent
      <4> QED BY <2>6, <2>8, <3>1, <4>1
    <3>4. \A p, r \in Procs \ {t} : Waits(p) /\ Waits(r) /\ child[p] = child[r] => p = r
      BY DEF Turn, Others
    <3>5. ASSUME NEW p \in Procs \ {q}, NEW r \in Procs \ {q}, Waits(p)', Waits(r)', child'[p] = child'[r]
          PROVE  p = r
      BY <2>6, <3>3, <3>4, <3>5
    <3> QED BY <3>2, <3>5 DEF Others
  <2>10. Stage(q)'
    BY <2>6 DEF Stage
  <2>11. \A i \in Fds : ~files'[i].opened
    BY <2>2, <2>4 DEF Turn, OpenFiles, Reads, Writes
  <2>12. OpenFiles(q)'
    BY <2>6, <2>11 DEF OpenFiles, Reads, Writes, OpenCat, OpenEdit
  <2> QED BY <2>5, <2>9, <2>10, <2>12 DEF ShellInv, Turn
<1> QED BY <1>1, <1>2

LEMMA ExecveTurn == ASSUME Shapes, NEW t \in Procs, Turn(t), Execve(t) PROVE ShellInv'
<1>1. CASE Astray
  <2>1. UNCHANGED <<procs, kernel>>
    BY <1>1 DEF Astray
  <2> QED BY <2>1, Unmoved DEF procs, kernel, ShellInv
<1>2. CASE ~Astray
  <2>1. todo[t] = <<"execve">>
    BY Plans DEF Execve, Calling, Turn, Stage, Unopened, Reads, Writes
  <2>2. PICK r \in {"program", "shell"} :
          /\ role' = [role EXCEPT ![t] = r] /\ todo' = [todo EXCEPT ![t] = << >>]
          /\ UNCHANGED <<cmd, fd, child, files, avail>>
    BY <1>2 DEF Execve, Continue, kernel
  <2>3. /\ Shapes' /\ role'[t] = r /\ todo'[t] = << >>
        /\ \A q \in Procs \ {t} : role'[q] = role[q] /\ todo'[q] = todo[q] /\ child'[q] = child[q]
    BY <2>2 DEF Shapes
  <2>4. \A i \in Fds : ~files[i].opened
    BY <2>1 DEF Turn, OpenFiles, Reads, Writes
  <2>5. Stage(t)' /\ OpenFiles(t)'
    BY <2>2, <2>3, <2>4, PlansDiffer DEF Stage, OpenFiles, Unopened
  <2> QED BY <2>3, <2>5, TurnKept
<1> QED BY <1>1, <1>2

LEMMA ExitTurn == ASSUME Shapes, NEW t \in Procs, Turn(t), Exit(t) PROVE ShellInv'
<1>1. role[t] = "program" /\ todo[t] = << >>
  BY DEF Exit, Turn, Stage
<1>2. role' = [role EXCEPT ![t] = "exited"] /\ UNCHANGED <<todo, cmd, fd, child, files, avail>>
  BY DEF Exit, kernel
<1>3. /\ Shapes' /\ role'[t] = "exited" /\ todo'[t] = << >>
      /\ \A q \in Procs \ {t} : role'[q] = role[q] /\ todo'[q] = todo[q] /\ child'[q] = child[q]
  BY <1>1, <1>2 DEF Shapes
<1>4. Stage(t)' /\ OpenFiles(t)'
  BY <1>1, <1>2, <1>3, PlansDiffer DEF Turn, Stage, OpenFiles, Usable
<1> QED BY <1>3, <1>4, TurnKept

\* The turn goes back to the parent.
LEMMA WaitTurn ==
  ASSUME Shapes, NEW t \in Procs, Turn(t), NEW p \in Procs, Wait(p)
  PROVE  ShellInv'
<1>1. p # t
  BY Plans DEF Wait, Calling, Turn, Stage, Unopened, Reads, Writes
<1>2. Waits(p)
  BY <1>1 DEF Wait, Calling, Turn, Others, Absent
<1>3. child[p] = t /\ role[t] = "exited" /\ todo[t] = << >>
  <2>1. child[p] \in Procs /\ role[child[p]] = "exited"
    BY <1>2 DEF Wait, Ended, Waits
  <2>2. child[p] = t
    BY <2>1, OnlyTurn DEF Turn
  <2> QED BY <2>1, <2>2 DEF Turn, Stage
<1>4. /\ role' = [role EXCEPT ![t] = "none"] /\ todo' = [todo EXCEPT ![p] = << >>]
      /\ UNCHANGED <<cmd, fd, child, files, avail>>
  BY <1>3 DEF Wait, Continue, kernel
<1>5. /\ Shapes' /\ role'[t] = "none" /\ todo'[t] = << >> /\ role'[p] = "shell" /\ todo'[p] = << >>
      /\ \A q \in Procs \ {t, p} : role'[q] = role[q] /\ todo'[q] = todo[q] /\ child'[q] = child[q]
      /\ \A q \in Procs \ {t} : role'[q] = role[q]
  BY <1>1, <1>2, <1>3, <1>4 DEF Shapes, Waits
<1>6. Others(p)'
  <2>1. Absent(t)' /\ ~Waits(t)'
    BY <1>5 DEF Absent, Waits
  <2>2. \A q \in Procs \ {t, p} : Waits(q) => child[q] # t
    BY <1>1, <1>2, <1>3 DEF Turn, Others
  <2>3. \A q \in Procs \ {t, p} : /\ Waits(q) => Waits(q)'
                                  /\ Absent(q) => Absent(q)'
    BY <1>5, <2>2 DEF Waits, Absent
  <2>4. \A q \in Procs \ {t, p} : Waits(q)' => Waits(q)
    BY <1>5, <2>3 DEF Turn, Others, Waits, Absent
  <2> QED BY <1>5, <2>1, <2>3, <2>4 DEF Turn, Others
<1>7. Stage(p)'
  BY <1>5 DEF Stage, Unopened
<1>8. \A i \in Fds : ~files'[i].opened
  BY <1>3, <1>4 DEF Turn, OpenFiles
<1>9. OpenFiles(p)'
  BY <1>5, <1>8, PlansDiffer DEF OpenFiles
<1> QED BY <1>5, <1>6, <1>7, <1>9 DEF ShellInv, Turn

\* One step per system call: whoever acts, one process goes on, with at most
\* its own file open.
LEMMA ShellStep == ShellInv /\ [ShellNext]_shell_vars => ShellInv'
<1> SUFFICES ASSUME ShellInv, [ShellNext]_shell_vars PROVE ShellInv'
  OBVIOUS
<1>1. PICK t \in Procs : Turn(t)
  BY DEF ShellInv
<1>2. CASE UNCHANGED shell_vars
  BY <1>2, Unmoved DEF shell_vars, procs, kernel
<1>3. ASSUME NEW p \in Procs, ReadLine(p) \/ SystemCall(p) \/ Exit(p) PROVE ShellInv'
  <2>1. CASE Wait(p)
    BY <1>1, <2>1, WaitTurn DEF ShellInv
  <2>2. CASE ~Wait(p)
    <3>1. p = t
      BY <1>1, <1>3, <2>2, OnlyTurn
         DEF Turn, ReadLine, SystemCall, Exit, Open, Lseek, Read, Write, Close, PrintText, Fork, Execve
    <3> QED BY <1>1, <1>3, <2>2, <3>1, ReadLineTurn, OpenTurn, LseekTurn, ReadTurn, WriteTurn, CloseTurn,
               PrintTurn, ForkTurn, ExecveTurn, ExitTurn DEF SystemCall, ShellInv
  <2> QED BY <2>1, <2>2
<1> QED BY <1>2, <1>3 DEF ShellNext
-----------------------------------------------------------------------------
\* The processes in every reachable state: a chain of shells that wait for
\* their children, and one process at its end that goes on.
THEOREM ShellInvariant == ShellSpec => []ShellInv
BY InitShell, ShellStep, PTL DEF ShellSpec

\* A set without two different members has at most one.
LEMMA AtMostOne ==
  ASSUME NEW S, \A x, y \in S : x = y
  PROVE  Cardinality(S) <= 1
<1>1. CASE S = {}
  BY <1>1, FS_EmptySet
<1>2. CASE S # {}
  <2>1. PICK x \in S : S = {x}
    BY <1>2
  <2> QED BY <2>1, FS_Singleton
<1> QED BY <1>1, <1>2

\* The console has one owner, however many shells failed loads left behind: two
\* never read it together, and no shell goes on while its program runs.
THEOREM ConsoleHasOneOwner == ShellSpec => []OneActive
<1>1. ShellInv => OneActive
  <2> SUFFICES ASSUME ShellInv PROVE OneActive
    OBVIOUS
  <2>1. PICK t \in Procs : Turn(t)
    BY DEF ShellInv
  <2>2. ASSUME NEW p \in Procs \ {t}, Active(p) PROVE Waits(p) /\ child[p] = t /\ role[t] = "exited"
    <3>1. Waits(p)
      BY <2>1, <2>2 DEF Turn, Others, Absent, Active
    <3>2. role[child[p]] = "exited" /\ child[p] \in Procs
      BY <2>2, <3>1, Plans DEF Active, Waiting, Waits, Calling
    <3> QED BY <2>1, <3>1, <3>2, OnlyTurn DEF Turn
  <2>3. \A p, q \in {r \in Procs : Active(r)} : p = q
    BY <2>1, <2>2 DEF Turn, Others, Active
  <2> QED BY <2>3, AtMostOne DEF OneActive
<1> QED BY <1>1, ShellInvariant, PTL

\* When a prompt is shown the command before it has closed what it opened, at
\* whatever call it failed.
THEOREM PromptIsClosed == ShellSpec => []ClosedAtPrompt
<1>1. ShellInv => ClosedAtPrompt
  <2> SUFFICES ASSUME ShellInv, NEW p \in Procs, Reading(p) PROVE \A i \in Fds : ~files[i].opened
    BY DEF ClosedAtPrompt
  <2>1. PICK t \in Procs : Turn(t)
    BY DEF ShellInv
  <2>2. p = t
    BY <2>1, OnlyTurn DEF Turn
  <2> QED BY <2>1, <2>2, PlansDiffer DEF Turn, OpenFiles, Reading
<1> QED BY <1>1, ShellInvariant, PTL

\* What a command writes goes into the file that it names, and at the offset
\* that was typed if that is a number that atoi can compute, whatever the other
\* processes have open and whichever of its calls failed.
THEOREM EditsArriveInPlace == ShellSpec => EditsInPlace
<1> DEFINE InPlace == \A f \in FileNames : written'[f] # written[f] =>
                        \E p \in Procs :
                          /\ cmd[p].verb = "edit" /\ cmd[p].file = f
                          /\ cmd[p].offset <= MaxNumber => written'[f] = cmd[p].offset
<1>1. ShellInv /\ [ShellNext]_shell_vars => [InPlace]_shell_vars
  <2> SUFFICES ASSUME ShellInv, ShellNext PROVE InPlace
    OBVIOUS
  <2>1. PICK t \in Procs : Turn(t)
    BY DEF ShellInv
  <2>2. PICK p \in Procs : ReadLine(p) \/ SystemCall(p) \/ Exit(p)
    BY DEF ShellNext
  <2>3. CASE Write(p) /\ ~UNCHANGED written
    <3>1. p = t
      BY <2>1, <2>3, OnlyTurn DEF Turn, Write
    <3>2. todo[t] = <<"write", "close">>
      BY <2>1, <2>3, <3>1, Plans DEF Write, Calling, Turn, Stage, Unopened, Reads, Writes
    <3>3. Usable(fd[t]) /\ written' = [written EXCEPT ![files[fd[t]].file] = files[fd[t]].cfo]
      BY <2>3, <3>1 DEF Write, Allowed
    <3>4. /\ cmd[t].verb = "edit" /\ files[fd[t]].file = cmd[t].file
          /\ cmd[t].offset <= MaxNumber => files[fd[t]].cfo = cmd[t].offset
      BY <2>1, <3>2, <3>3 DEF Turn, OpenFiles, Writes
    <3>5. \A f \in FileNames : written'[f] # written[f] => f = cmd[t].file /\ written'[f] = files[fd[t]].cfo
      BY <3>3, <3>4
    <3> QED BY <3>4, <3>5
  <2>4. CASE ~Write(p)
    <3>1. UNCHANGED written
      BY <2>2, <2>4 DEF ReadLine, SystemCall, Exit, Astray, Open, Lseek, Read, Close, PrintText, Fork, Execve, Wait, kernel
    <3> QED BY <3>1
  <2> QED BY <2>3, <2>4
<1> QED BY <1>1, ShellInvariant, PTL DEF ShellSpec, EditsInPlace
=============================================================================
