---------------------------- MODULE ConsoleProofs ----------------------------
(***************************************************************************)
(* What goes over a console.  Of Descriptors, for every directory, every   *)
(* length of names and every size of the tables: paths find what they      *)
(* name, descriptors reach what they were opened for, and keys arrive      *)
(* once.  Of Printf, for all formats, arguments, widths of integers and    *)
(* sizes of buffers: the text is the one the C standard promises, the sink *)
(* holds it, and what the standard does not allow is refused.              *)
(***************************************************************************)
EXTENDS Descriptors, PrintfPromise, FiniteSetTheorems, WellFoundedInduction, SequenceTheorems, TLAPS

\* A bounded set of naturals that is not empty has a least element.
LEMMA LeastElement ==
  ASSUME NEW top \in Nat, NEW S \in SUBSET (0 .. top), S # {}
  PROVE  \E x \in S : \A y \in S : x <= y
<1>1. S \subseteq Nat
  OBVIOUS
<1>2. PICK x \in S : \A y \in S : ~ (<<y, x>> \in OpToRel(<, Nat))
  BY <1>1, NatLessThanWellFounded, WFMin, Zenon
<1>3. \A y \in S : ~ (y < x)
  BY <1>1, <1>2, Zenon DEF OpToRel
<1> QED BY <1>1, <1>3

\* The first place of an interval that is in S, or else its end.
LEMMA FirstExists ==
  ASSUME NEW a \in Int, NEW b \in Int, a <= b, NEW S \in SUBSET (a .. b)
  PROVE  \E i \in a .. b : (i \in S \/ i = b) /\ \A j \in a .. i - 1 : j \notin S
<1> DEFINE T == {i - a : i \in {k \in a .. b : k \in S \/ k = b}}
<1>1. b - a \in Nat /\ T \subseteq 0 .. b - a /\ b - a \in T
  OBVIOUS
<1>2. PICK t \in T : \A u \in T : t <= u
  <2> HIDE DEF T
  <2> QED BY <1>1, LeastElement
<1>3. PICK i \in a .. b : t = i - a /\ (i \in S \/ i = b)
  OBVIOUS
<1>4. ASSUME NEW j \in a .. i - 1, j \in S PROVE FALSE
  <2>1. j - a \in T /\ j - a < t
    BY <1>3, <1>4
  <2> QED BY <1>2, <2>1
<1> QED BY <1>3, <1>4

\* The text of a path in memory: what stands before its first NUL.
LEMMA TextOfPath ==
  ASSUME NEW path, path \in Seq(Range(path))
  PROVE  /\ Len(Text(path)) \in 0 .. Len(path) /\ Text(path) \in Seq(Range(path))
         /\ \A i \in 1 .. Len(Text(path)) : Text(path)[i] = path[i] /\ path[i] # NUL
         /\ Len(Text(path)) < Len(path) => path[Len(Text(path)) + 1] = NUL
<1> DEFINE S == {i \in 1 .. Len(path) : path[i] = NUL}
           P(i) == i <= Len(path) /\ path[i] = NUL
<1>1. PICK n \in Nat : n = Len(path)
  BY LenProperties
<1>2. \E i \in 1 .. n + 1 : (P(i) \/ i = n + 1) /\ \A j \in 1 .. i - 1 : ~P(j)
  <2>1. PICK b \in Int : b = n + 1 /\ 1 <= b
    OBVIOUS
  <2>2. PICK i \in 1 .. b : (i \in S \/ i = b) /\ \A j \in 1 .. i - 1 : j \notin S
    <3>1. S \in SUBSET (1 .. b) /\ 1 \in Int
      BY <1>1, <2>1
    <3> HIDE DEF S
    <3> QED BY <2>1, <3>1, FirstExists
  <2> QED BY <1>1, <2>1, <2>2
<1>3. PICK k \in 1 .. n + 1 :
        /\ Text(path) = SubSeq(path, 1, k - 1)
        /\ P(k) \/ (k = n + 1)
        /\ \A j \in 1 .. k - 1 : ~P(j)
  BY <1>1, <1>2 DEF FirstIn, Text
<1>5. /\ Len(Text(path)) = k - 1 /\ Text(path) \in Seq(Range(path))
      /\ \A i \in 1 .. k - 1 : Text(path)[i] = path[i]
  BY <1>1, <1>3, SubSeqProperties
<1>6. \A i \in 1 .. k - 1 : path[i] # NUL
  BY <1>1, <1>3
<1>7. k - 1 < n => path[k - 1 + 1] = NUL
  BY <1>1, <1>3
<1> QED BY <1>1, <1>5, <1>6, <1>7

\* Its dot: the first one, or the place behind a text without one.
LEMMA DotOfText ==
  ASSUME NEW text, text \in Seq(Range(text))
  PROVE  /\ Len(text) \in Nat /\ Dot(text) \in 1 .. Len(text) + 1
         /\ \A i \in 1 .. Dot(text) - 1 : text[i] # DOT
         /\ Dot(text) <= Len(text) => text[Dot(text)] = DOT
<1> DEFINE S == {i \in 1 .. Len(text) : text[i] = DOT}
           P(i) == i <= Len(text) /\ text[i] = DOT
<1>1. PICK n \in Nat : n = Len(text)
  BY LenProperties
<1>2. \E i \in 1 .. n + 1 : (P(i) \/ i = n + 1) /\ \A j \in 1 .. i - 1 : ~P(j)
  <2>1. PICK b \in Int : b = n + 1 /\ 1 <= b
    OBVIOUS
  <2>2. PICK i \in 1 .. b : (i \in S \/ i = b) /\ \A j \in 1 .. i - 1 : j \notin S
    <3>1. S \in SUBSET (1 .. b) /\ 1 \in Int
      BY <1>1, <2>1
    <3> HIDE DEF S
    <3> QED BY <2>1, <3>1, FirstExists
  <2> QED BY <1>1, <2>1, <2>2
<1>3. PICK k \in 1 .. n + 1 :
        k = Dot(text) /\ (P(k) \/ k = n + 1) /\ \A j \in 1 .. k - 1 : ~P(j)
  BY <1>1, <1>2 DEF FirstIn, Dot
<1>4. \A i \in 1 .. k - 1 : text[i] # DOT
  BY <1>1, <1>3
<1>5. k <= n => text[k] = DOT
  BY <1>3
<1> QED BY <1>1, <1>3, <1>4, <1>5

\* The capital of a character; no letter becomes a dot or a NUL.
Cap(c) == IF c \in DOMAIN Capital THEN Capital[c] ELSE c
Buffer(path) == Append(SubSeq(path, 1, NAME + EXT), NUL)

LEMMA CapKeeps ==
  ASSUME NEW c
  PROVE  /\ (Cap(c) = DOT <=> c = DOT) /\ (Cap(c) = NUL <=> c = NUL)
         /\ c # DELETED => Cap(c) # DELETED
BY CapitalAssumption DEF Cap, NUL, DOT, DELETED

\* open copies as much of the path as a name may have, and ends it.
LEMMA BufferOfPath ==
  ASSUME NEW path, path \in Seq(Range(path)), NEW N \in Nat, N = NAME + EXT, N <= Len(path)
  PROVE  /\ Len(Buffer(path)) = N + 1 /\ DOMAIN Buffer(path) = 1 .. N + 1
         /\ \A i \in 1 .. N : Buffer(path)[i] = path[i]
         /\ Buffer(path)[N + 1] = NUL
<1> DEFINE U == Range(path) \cup {NUL}
<1>1. Len(path) \in Nat /\ \A i \in 1 .. N : path[i] \in U
  BY LenProperties, ElementOfSeq
<1>2. PICK s : s = SubSeq(path, 1, N)
  OBVIOUS
<1> HIDE DEF U
<1>3. s \in Seq(U) /\ Len(s) = N /\ \A i \in 1 .. N : s[i] = path[i]
  <2>1. 1 \in Int /\ N \in Int
    OBVIOUS
  <2> QED BY <1>1, <1>2, <2>1, SubSeqProperties
<1>4. NUL \in U
  BY DEF U
<1>5. Append(s, NUL) \in Seq(U) /\ Len(Append(s, NUL)) = N + 1
      /\ (\A i \in 1 .. N : Append(s, NUL)[i] = s[i]) /\ Append(s, NUL)[N + 1] = NUL
  BY <1>3, <1>4, AppendProperties
<1>6. DOMAIN Append(s, NUL) = 1 .. N + 1
  BY <1>5, LenProperties
<1>7. Buffer(path) = Append(s, NUL)
  BY <1>2 DEF Buffer
<1> QED BY <1>3, <1>5, <1>6, <1>7

\* to_upper_case changes the text and nothing behind it.
LEMMA UpperOfBuffer ==
  ASSUME NEW path, path \in Seq(Range(path)), NEW N \in Nat, N = NAME + EXT, N <= Len(path),
         NEW n \in 0 .. N, n = Len(Text(path))
  PROVE  LET up == UpperCase(Buffer(path))
         IN  /\ Len(up) = N + 1 /\ up[n + 1] = NUL
             /\ \A i \in 1 .. n : up[i] = Cap(path[i])
             /\ \A i \in n + 1 .. N : up[i] = path[i]
             /\ up[N + 1] = NUL
<1>1. PICK s : s = Buffer(path)
  OBVIOUS
<1>2. /\ Len(s) = N + 1 /\ DOMAIN s = 1 .. N + 1 /\ s[N + 1] = NUL
      /\ \A i \in 1 .. N : s[i] = path[i]
  BY <1>1, BufferOfPath
<1>3. (\A i \in 1 .. n : path[i] # NUL) /\ s[n + 1] = NUL
  <2>1. Len(path) \in Nat
    BY LenProperties
  <2>2. (\A i \in 1 .. n : path[i] # NUL) /\ (n < N => path[n + 1] = NUL)
    BY <2>1, TextOfPath
  <2> QED BY <1>2, <2>2
<1>4. PICK e \in 1 .. N + 1 :
        /\ UpperCase(s) = [i \in DOMAIN s |-> IF i < e /\ s[i] \in DOMAIN Capital THEN Capital[s[i]] ELSE s[i]]
        /\ s[e] = NUL \/ (e = N + 1)
        /\ \A j \in 1 .. e - 1 : s[j] # NUL
  <2>1. \E e \in 1 .. N + 1 : (s[e] = NUL \/ e = N + 1) /\ \A j \in 1 .. e - 1 : s[j] # NUL
    <3>1. n + 1 \in 1 .. N + 1 /\ \A j \in 1 .. n : s[j] # NUL
      BY <1>2, <1>3
    <3> QED BY <1>3, <3>1, SMTT(30)
  <2>2. PICK e : e = FirstIn(1, Len(s), LAMBDA i : s[i] = NUL)
    OBVIOUS
  <2>3. /\ e \in 1 .. N + 1 /\ (s[e] = NUL \/ e = N + 1)
        /\ \A j \in 1 .. e - 1 : s[j] # NUL
    BY <1>2, <2>1, <2>2 DEF FirstIn
  <2>4. UpperCase(s) = [i \in DOMAIN s |-> IF i < e /\ s[i] \in DOMAIN Capital THEN Capital[s[i]] ELSE s[i]]
    BY <2>2 DEF UpperCase
  <2> QED BY <2>3, <2>4
<1>5. e = n + 1
  BY <1>2, <1>3, <1>4, SMTT(30)
<1>6. /\ \A i \in 1 .. N + 1 : UpperCase(s)[i] = IF i < n + 1 THEN Cap(s[i]) ELSE s[i]
      /\ DOMAIN UpperCase(s) = 1 .. N + 1 /\ Len(UpperCase(s)) = N + 1
  BY <1>2, <1>4, <1>5 DEF Cap
<1> QED BY <1>1, <1>2, <1>3, <1>6

\* Both ways to make a name of eleven bytes out of a path agree.
LEMMA NamesAgree ==
  ASSUME NEW path, path \in Seq(Range(path)), Len(path) >= NAME + EXT, Plain(path)
  PROVE  /\ Fat32Name(Buffer(path)) = ShortName(Text(path))
         /\ ShortName(Text(path))[1] \notin {NUL, DELETED}
<1>1. PICK N \in Nat : N = NAME + EXT /\ NAME \in Nat \ {0} /\ EXT \in Nat \ {0} /\ N <= Len(path)
  BY DescriptorsAssumption
<1>2. PICK text \in Seq(Range(path)) : text = Text(path)
  BY TextOfPath
<1>3. PICK n \in 0 .. N : n = Len(text)
  BY <1>1, <1>2, TextOfPath DEF Plain
<1>4. PICK d \in 1 .. n + 1 :
        /\ d = Dot(text) /\ \A i \in 1 .. d - 1 : text[i] # DOT
        /\ d <= n => text[d] = DOT
  <2>1. text \in Seq(Range(text))
    BY <1>2 DEF Range
  <2> QED BY <1>3, <2>1, DotOfText
<1>5. \A i \in 1 .. n : text[i] = path[i] /\ path[i] # NUL
  BY <1>2, <1>3, TextOfPath
<1>6. d <= NAME + 1 /\ n - d <= EXT /\ (d = n + 1 /\ n + 2 <= N => path[n + 2] = NUL) /\ path[1] # DELETED
  BY <1>1, <1>2, <1>3, <1>4 DEF Plain
<1>7. PICK up : /\ up = UpperCase(Buffer(path)) /\ Len(up) = N + 1 /\ up[n + 1] = NUL /\ up[N + 1] = NUL
                /\ \A i \in 1 .. n : up[i] = Cap(path[i])
                /\ \A i \in n + 1 .. N : up[i] = path[i]
  BY <1>1, <1>2, <1>3, UpperOfBuffer
<1>8. \A i \in 1 .. n : up[i] = Cap(text[i]) /\ up[i] # NUL /\ (up[i] = DOT <=> text[i] = DOT)
  BY <1>5, <1>7, CapKeeps
<1>9. NameEnd(up) = d
  <2>1. /\ d \in 1 .. NAME + 1 /\ (up[d] \in {DOT, NUL} \/ d = NAME + 1)
        /\ \A j \in 1 .. d - 1 : up[j] \notin {DOT, NUL}
    BY <1>1, <1>4, <1>6, <1>7, <1>8, SMTT(30)
  <2>2. PICK x : x = NameEnd(up)
    OBVIOUS
  <2>3. /\ x \in 1 .. NAME + 1 /\ (up[x] \in {DOT, NUL} \/ x = NAME + 1)
        /\ \A j \in 1 .. x - 1 : up[j] \notin {DOT, NUL}
    BY <2>1, <2>2 DEF NameEnd, FirstIn
  <2>4. x = d
    BY <1>1, <2>1, <2>3
  <2> QED BY <2>2, <2>4
<1>10. PICK E \in Nat : E = IF d <= n THEN n + 1 ELSE n + 2
  OBVIOUS
<1>11. ExtEnd(up, d) = E
  <2>1. /\ E \in d + 1 .. d + EXT + 1 /\ E <= N + 1 /\ up[E] = NUL
        /\ \A j \in d + 1 .. E - 1 : up[j] # NUL
    <3>1. CASE d <= n
      BY <1>1, <1>4, <1>6, <1>7, <1>8, <1>10, <3>1
    <3>2. CASE d = n + 1
      <4>1. E = n + 2 /\ n + 2 <= N + 1
        BY <1>1, <1>6, <1>10, <3>2
      <4>2. up[n + 2] = NUL
        <5>1. CASE n + 2 <= N
          BY <1>6, <1>7, <3>2, <5>1
        <5>2. CASE n + 2 = N + 1
          BY <1>7, <5>2
        <5> QED BY <1>1, <4>1, <5>1, <5>2
      <4> QED BY <1>1, <3>2, <4>1, <4>2
    <3> QED BY <1>3, <1>4, <3>1, <3>2
  <2>2. PICK x : x = ExtEnd(up, d)
    OBVIOUS
  <2>3. /\ x \in d + 1 .. d + EXT + 1 /\ ((x <= N + 1 /\ up[x] = NUL) \/ x = d + EXT + 1)
        /\ \A j \in d + 1 .. x - 1 : ~(j <= N + 1 /\ up[j] = NUL)
    BY <1>7, <2>1, <2>2 DEF ExtEnd, FirstIn
  <2>4. x = E
    BY <1>1, <2>1, <2>3
  <2> QED BY <2>2, <2>4
<1>12. Fat32Name(Buffer(path)) =
         [i \in 1 .. N |-> IF i <= NAME THEN (IF i < d THEN up[i] ELSE SPACE)
                           ELSE (IF d + i - NAME < E THEN up[d + i - NAME] ELSE SPACE)]
  BY <1>1, <1>7, <1>9, <1>11 DEF Fat32Name
<1>13. PICK a, b : a = Padded(SubSeq(text, 1, d - 1), NAME) /\ b = Padded(SubSeq(text, d + 1, n), EXT)
  OBVIOUS
<1>14. /\ a = [i \in 1 .. NAME |-> IF i < d THEN up[i] ELSE SPACE]
  <2>1. PICK t : t = SubSeq(text, 1, d - 1)
    OBVIOUS
  <2>2. Len(t) = d - 1 /\ \A i \in 1 .. d - 1 : t[i] = text[i]
    <3>1. 1 \in Int /\ d - 1 \in Int /\ \A i \in 1 .. d - 1 : text[i] \in Range(path)
      BY <1>2, <1>3, <1>4, ElementOfSeq
    <3> QED BY <1>4, <2>1, <3>1, SubSeqProperties
  <2>3. a = [i \in 1 .. NAME |-> IF i > Len(t) THEN SPACE ELSE Cap(t[i])]
    BY <1>13, <2>1 DEF Padded, Cap
  <2>4. ASSUME NEW i \in 1 .. NAME
        PROVE  (IF i > Len(t) THEN SPACE ELSE Cap(t[i])) = IF i < d THEN up[i] ELSE SPACE
    <3>1. CASE i < d
      BY <1>1, <1>3, <1>4, <1>8, <2>2, <3>1
    <3>2. CASE ~(i < d)
      BY <1>1, <1>3, <1>4, <2>2, <3>2
    <3> QED BY <3>1, <3>2
  <2> QED BY <2>3, <2>4
<1>15. b = [i \in 1 .. EXT |-> IF d + i < E THEN up[d + i] ELSE SPACE]
  <2>1. PICK t : t = SubSeq(text, d + 1, n)
    OBVIOUS
  <2>2. Len(t) = (IF d <= n THEN n - d ELSE 0) /\ \A i \in 1 .. n - d : t[i] = text[d + i]
    <3>1. d + 1 \in Int /\ n \in Int /\ \A i \in d + 1 .. n : text[i] \in Range(path)
      BY <1>2, <1>3, <1>4, ElementOfSeq
    <3>2. /\ Len(t) = IF d + 1 <= n THEN n - (d + 1) + 1 ELSE 0
          /\ \A i \in 1 .. n - (d + 1) + 1 : t[i] = text[d + 1 + i - 1]
      BY <2>1, <3>1, SubSeqProperties
    <3> QED BY <1>3, <1>4, <3>2, SMTT(30)
  <2>3. b = [i \in 1 .. EXT |-> IF i > Len(t) THEN SPACE ELSE Cap(t[i])]
    BY <1>13, <2>1 DEF Padded, Cap
  <2>4. ASSUME NEW i \in 1 .. EXT
        PROVE  (IF i > Len(t) THEN SPACE ELSE Cap(t[i])) = IF d + i < E THEN up[d + i] ELSE SPACE
    <3>1. CASE d <= n /\ i <= n - d
      <4>1. PICK k \in 1 .. n : k = d + i /\ k < n + 1
        <5>1. d + i \in 1 .. n /\ d + i < n + 1
          BY <1>3, <1>4, <3>1
        <5> QED BY <5>1
      <4>2. Len(t) = n - d /\ t[i] = text[k]
        BY <1>3, <1>4, <2>2, <3>1, <4>1
      <4>3. up[k] = Cap(text[k])
        BY <1>8
      <4>4. d + i < E /\ ~(i > Len(t))
        BY <1>3, <1>4, <1>10, <3>1, <4>2
      <4> QED BY <4>1, <4>2, <4>3, <4>4
    <3>2. CASE ~(d <= n /\ i <= n - d)
      BY <1>1, <1>3, <1>4, <1>10, <2>2, <3>2
    <3> QED BY <3>1, <3>2
  <2> QED BY <2>3, <2>4
<1>16. /\ Len(a \o b) = N
       /\ a \o b = [i \in 1 .. N |-> (a \o b)[i]]
       /\ \A i \in 1 .. N : (a \o b)[i] = IF i <= NAME THEN a[i] ELSE b[i - NAME]
  <2>1. PICK U : U = {a[i] : i \in 1 .. NAME} \cup {b[i] : i \in 1 .. EXT}
    OBVIOUS
  <2>2. a \in Seq(U) /\ Len(a) = NAME /\ b \in Seq(U) /\ Len(b) = EXT
    <3>1. a \in [1 .. NAME -> U] /\ b \in [1 .. EXT -> U]
      BY <1>14, <1>15, <2>1
    <3> QED BY <1>1, <3>1
  <2>3. a \o b \in Seq(U) /\ Len(a \o b) = N
        /\ \A i \in 1 .. N : (a \o b)[i] = IF i <= NAME THEN a[i] ELSE b[i - NAME]
    BY <1>1, <2>2, ConcatProperties
  <2> QED BY <2>3, LenProperties
<1>17. ShortName(Text(path)) = a \o b
  BY <1>2, <1>3, <1>4, <1>13 DEF ShortName
<1>18. ASSUME NEW i \in 1 .. N
       PROVE  (IF i <= NAME THEN (IF i < d THEN up[i] ELSE SPACE)
               ELSE (IF d + i - NAME < E THEN up[d + i - NAME] ELSE SPACE)) = (a \o b)[i]
  <2>1. CASE i <= NAME
    BY <1>1, <1>14, <1>16, <2>1
  <2>2. CASE i > NAME
    <3>1. PICK k \in 1 .. EXT : k = i - NAME
      BY <1>1, <2>2
    <3>2. d + i - NAME = d + k
      BY <1>1, <1>4, <3>1
    <3>3. (a \o b)[i] = b[k]
      <4>1. (a \o b)[i] = IF i <= NAME THEN a[i] ELSE b[i - NAME]
        BY <1>16
      <4>2. ~(i <= NAME) /\ i - NAME = k
        BY <1>1, <2>2, <3>1
      <4> QED BY <4>1, <4>2
    <3>4. b[k] = IF d + k < E THEN up[d + k] ELSE SPACE
      BY <1>15
    <3>5. ~(i <= NAME)
      BY <1>1, <2>2
    <3> QED BY <3>2, <3>3, <3>4, <3>5
  <2>3. i <= NAME \/ i > NAME
    BY <1>1
  <2> QED BY <2>1, <2>2, <2>3
<1>19. Fat32Name(Buffer(path)) = a \o b
  BY <1>12, <1>16, <1>18
<1>20. (a \o b)[1] \notin {NUL, DELETED}
  <2>1. (a \o b)[1] = IF 1 < d THEN up[1] ELSE SPACE
    BY <1>1, <1>14, <1>16
  <2>2. CASE 1 < d
    <3>1. up[1] = Cap(path[1]) /\ path[1] # NUL
      BY <1>3, <1>4, <1>5, <1>7, <2>2
    <3> QED BY <1>6, <2>1, <2>2, <3>1, CapKeeps
  <2>3. CASE ~(1 < d)
    BY <2>1, <2>3 DEF NUL, DELETED, SPACE
  <2> QED BY <2>2, <2>3
<1> QED BY <1>17, <1>19, <1>20

\* fat32_open_file finds the first entry that a plain path names.
LEMMA OpenIsNamed ==
  ASSUME NEW path, path \in Seq(Range(path)), Len(path) >= NAME + EXT, Plain(path),
         dir \in Seq(Range(dir))
  PROVE  OpenFile(path) = Named(path)
<1> DEFINE found(i, s) == ~Skipped(dir[i]) /\ dir[i].name = s
           isFile(i, s) == /\ \A j \in 1 .. i : dir[j].name[1] # NUL
                           /\ ~dir[i].label /\ dir[i].name = s
<1>1. PICK s : /\ s = ShortName(Text(path)) /\ s = Fat32Name(Buffer(path))
               /\ s[1] # NUL /\ s[1] # DELETED
  BY NamesAgree
<1>2. PICK n \in Nat : n = Len(dir) /\ DOMAIN dir = 1 .. n
  BY LenProperties
<1>3. path # Null
  BY DescriptorsAssumption DEF Null
<1>4. PICK stop \in SUBSET (1 .. n) : stop = {i \in 1 .. n : dir[i].name[1] = NUL \/ found(i, s)}
  OBVIOUS
<1>5. OpenFile(path) = IF stop = {} \/ ~found(Min(stop), s) THEN 0 ELSE Min(stop)
  BY <1>1, <1>2, <1>4 DEF OpenFile, Buffer
<1>6. Named(path) = IF ~\E i \in 1 .. n : isFile(i, s) THEN 0
                    ELSE CHOOSE i \in 1 .. n : isFile(i, s) /\ \A j \in 1 .. i - 1 : ~isFile(j, s)
  BY <1>1, <1>2, <1>3 DEF Named
<1>7. \A i \in 1 .. n : found(i, s) <=> (dir[i].name = s /\ ~dir[i].label)
  BY <1>1 DEF Skipped
<1>8. \A i \in 1 .. n : found(i, s) => dir[i].name[1] # NUL
  BY <1>1
<1>9. ASSUME stop # {}
      PROVE  \E m \in stop : m = Min(stop) /\ \A y \in stop : m <= y
  <2>1. PICK x \in stop : \A y \in stop : x <= y
    <3>1. stop \in SUBSET (0 .. n)
      OBVIOUS
    <3> QED BY <1>9, <3>1, LeastElement
  <2>2. PICK m : m = Min(stop)
    OBVIOUS
  <2>3. m \in stop /\ \A y \in stop : m <= y
    BY <2>1, <2>2 DEF Min
  <2> QED BY <2>2, <2>3
<1>10. CASE \E i \in 1 .. n : isFile(i, s)
  <2>1. PICK i \in 1 .. n : isFile(i, s)
    BY <1>10
  <2>2. i \in stop
    BY <1>4, <1>7, <2>1
  <2>3. PICK m \in stop : m = Min(stop) /\ \A y \in stop : m <= y
    BY <1>9, <2>2
  <2>4. m \in 1 .. n /\ m <= i /\ \A j \in 1 .. m - 1 : j \notin stop
    BY <2>2, <2>3
  <2>5. \A j \in 1 .. m - 1 : dir[j].name[1] # NUL /\ ~found(j, s)
    BY <1>4, <2>4
  <2>6. dir[m].name[1] # NUL
    BY <2>1, <2>4
  <2>7. found(m, s)
    BY <1>4, <2>3, <2>6
  <2>8. isFile(m, s) /\ \A j \in 1 .. m - 1 : ~isFile(j, s)
    <3>1. \A j \in 1 .. m : dir[j].name[1] # NUL
      BY <2>4, <2>5, <2>6
    <3>2. \A j \in 1 .. m - 1 : j \in 1 .. n
      BY <2>4
    <3> QED BY <1>7, <2>4, <2>5, <2>7, <3>1, <3>2
  <2>9. PICK k : k = CHOOSE h \in 1 .. n : isFile(h, s) /\ \A j \in 1 .. h - 1 : ~isFile(j, s)
    OBVIOUS
  <2>10. k \in 1 .. n /\ isFile(k, s) /\ \A j \in 1 .. k - 1 : ~isFile(j, s)
    BY <2>4, <2>8, <2>9
  <2>11. k = m
    <3> HIDE DEF isFile
    <3>1. ~(k < m) /\ ~(m < k)
      BY <2>4, <2>8, <2>10
    <3> QED BY <2>4, <2>10, <3>1
  <2>12. Named(path) = m
    BY <1>6, <1>10, <2>9, <2>11
  <2>13. OpenFile(path) = m
    BY <1>5, <2>2, <2>3, <2>7
  <2> QED BY <2>12, <2>13
<1>11. CASE ~\E i \in 1 .. n : isFile(i, s)
  <2>1. ASSUME stop # {}, found(Min(stop), s) PROVE FALSE
    <3>1. PICK m \in stop : m = Min(stop) /\ \A y \in stop : m <= y
      BY <1>9, <2>1
    <3>2. m \in 1 .. n /\ \A j \in 1 .. m - 1 : j \notin stop /\ j \in 1 .. n
      BY <3>1
    <3>3. \A j \in 1 .. m : dir[j].name[1] # NUL
      <4>1. dir[m].name[1] # NUL
        BY <1>8, <2>1, <3>1, <3>2
      <4>2. \A j \in 1 .. m - 1 : dir[j].name[1] # NUL
        BY <1>4, <3>2
      <4>3. \A j \in 1 .. m : j = m \/ j \in 1 .. m - 1
        BY <3>2
      <4> QED BY <4>1, <4>2, <4>3
    <3> QED BY <1>7, <1>11, <2>1, <3>1, <3>2, <3>3
  <2> QED BY <1>5, <1>6, <1>11, <2>1
<1> QED BY <1>10, <1>11

\* open finds the file that a path names, for all paths that the code takes
\* apart as they are meant.
THEOREM PlainPathsAreFound ==
  ASSUME \A path \in Paths : Plain(path)
  PROVE  Spec => []OpensTheNamed
<1> DEFINE Inv == dir \in Dirs
<1>1. Init => Inv
  BY DEF Init
<1>2. Inv /\ [Next]_vars => Inv'
  <2> SUFFICES ASSUME Inv, [Next]_vars PROVE dir' = dir
    OBVIOUS
  <2>1. CASE UNCHANGED vars
    BY <2>1 DEF vars
  <2>2. ASSUME NEW path, NEW flags, Open(path, flags) PROVE dir' = dir
    BY <2>2 DEF Open
  <2>3. ASSUME NEW p, NEW old, NEW new, Dup3(p, old, new) PROVE dir' = dir
    BY <2>3 DEF Dup3, Break
  <2>4. ASSUME NEW fd, Close(fd) PROVE dir' = dir
    BY <2>4 DEF Close
  <2>5. ASSUME NEW fd, NEW len, Read(fd, len) PROVE dir' = dir
    BY <2>5 DEF Read
  <2>6. ASSUME NEW c, Type(c) PROVE dir' = dir
    BY <2>6 DEF Type
  <2>7. ASSUME NEW r, Poll(r) PROVE dir' = dir
    BY <2>7 DEF Poll
  <2> QED BY <2>1, <2>2, <2>3, <2>4, <2>5, <2>6, <2>7 DEF Next
<1>3. Inv => OpensTheNamed
  <2> SUFFICES ASSUME Inv, NEW path \in Paths PROVE OpenFile(path) = Named(path)
    BY DEF OpensTheNamed
  <2>1. dir \in Seq(Range(dir)) /\ path \in Seq(Range(path)) /\ Len(path) >= NAME + EXT
    BY DescriptorsAssumption
  <2> QED BY <2>1, OpenIsNamed
<1> QED BY <1>1, <1>2, <1>3, PTL DEF Spec
-----------------------------------------------------------------------------
(***************************************************************************)
(* Descriptors.                                                            *)
(***************************************************************************)
\* No directory has an entry of the name that the bytes become.
Unnamed(path) == \A d \in Dirs : \A i \in DOMAIN d : d[i].name # Fat32Name(Buffer(path))

\* A place of the table and what it was opened for: nothing, a console that
\* is still as file_init_fds made it, or an entry with its flags.
Paired(fd, file, g) ==
  \/ ~file.opened /\ g = NoGrant
  \/ fd = 0 /\ file = Stdin /\ g = Grant(Console, 1)
  \/ fd \in 1 .. 2 /\ file = Stdout /\ g = Grant(Console, 2)
  \/ /\ fd >= 3 /\ file.entry \in Nat \ {0} /\ file.perms \in 1 .. 7
     /\ file = FileOpen(file.perms, file.entry) /\ g = Grant(file.entry, file.perms)

FdsInv ==
  /\ dir \in Dirs
  /\ fds = [fd \in Fds |-> fds[fd]] /\ granted = [fd \in Fds |-> granted[fd]]
  /\ avail \in 3 .. MAX_FILE_NUMBER
  /\ dups \in Seq([pid : Pids, old : DupArgs, new : DupArgs])
  /\ \A fd \in Fds : Paired(fd, fds[fd], granted[fd])

LEMMA GrantsOf ==
  /\ NoGrant.reach = Refused /\ ~NoGrant.read /\ ~NoGrant.write
  /\ Grant(Console, 1).reach = Console /\ Grant(Console, 1).read /\ ~Grant(Console, 1).write
  /\ Grant(Console, 2).reach = Console /\ ~Grant(Console, 2).read /\ Grant(Console, 2).write
  /\ F_READ(3) /\ F_WRITE(3)
<1>1. ~F_READ(0) /\ ~F_WRITE(0) /\ F_READ(1) /\ ~F_WRITE(1) /\ ~F_READ(2) /\ F_WRITE(2)
      /\ F_READ(3) /\ F_WRITE(3)
  BY DEF F_READ, F_WRITE
<1> QED BY <1>1 DEF NoGrant, Grant

\* A path leads to the entry that it names, or to nothing.
LEMMA EntryOfPath ==
  ASSUME NEW path \in Paths \cup {Code}, Plain(path) \/ Unnamed(path), dir \in Dirs,
         OpenFile(path) # 0
  PROVE  OpenFile(path) = Named(path) /\ OpenFile(path) \in Nat \ {0}
<1>1. dir \in Seq(Range(dir)) /\ path \in Seq(Range(path)) /\ Len(path) >= NAME + EXT
  BY DescriptorsAssumption
<1>2. PICK n \in Nat : n = Len(dir) /\ DOMAIN dir = 1 .. n
  BY <1>1, LenProperties
<1>3. PICK stop \in SUBSET (0 .. n) :
        /\ OpenFile(path) = Min(stop) /\ stop # {} /\ stop \subseteq 1 .. n
        /\ dir[Min(stop)].name = Fat32Name(Buffer(path))
  <2>1. PICK name : name = Fat32Name(Buffer(path))
    OBVIOUS
  <2>2. PICK S \in SUBSET (1 .. n) :
          S = {i \in 1 .. n : dir[i].name[1] = NUL \/ (~Skipped(dir[i]) /\ dir[i].name = name)}
    OBVIOUS
  <2>3. OpenFile(path) = IF S = {} \/ ~(~Skipped(dir[Min(S)]) /\ dir[Min(S)].name = name)
                         THEN 0 ELSE Min(S)
    BY <1>2, <2>1, <2>2 DEF OpenFile, Buffer
  <2>4. S \in SUBSET (0 .. n)
    OBVIOUS
  <2>5. S # {} /\ OpenFile(path) = Min(S) /\ dir[Min(S)].name = name
    BY <2>3
  <2> QED BY <2>1, <2>4, <2>5
<1>4. PICK m \in stop : m = Min(stop)
  <2>1. PICK x \in stop : \A y \in stop : x <= y
    BY <1>3, LeastElement
  <2> QED BY <2>1 DEF Min
<1>5. ~Unnamed(path)
  BY <1>2, <1>3, <1>4 DEF Unnamed
<1>6. OpenFile(path) = Named(path)
  BY <1>1, <1>5, OpenIsNamed
<1> QED BY <1>2, <1>3, <1>4, <1>6

LEMMA FdsInvInit == Init => FdsInv
<1> SUFFICES ASSUME Init PROVE FdsInv
  OBVIOUS
<1>1. ASSUME NEW fd \in Fds PROVE Paired(fd, fds[fd], granted[fd])
  <2>1. fds[fd] = IF fd = 0 THEN Stdin ELSE IF fd < 3 THEN Stdout ELSE Other
    BY DEF Init, FileInitFds
  <2>2. granted[fd] = IF fd = 0 THEN Grant(Console, 1)
                      ELSE IF fd < 3 THEN Grant(Console, 2) ELSE NoGrant
    BY DEF Init
  <2>3. fd \in Nat
    BY DescriptorsAssumption DEF Fds
  <2>4. CASE fd < 3
    BY <2>1, <2>2, <2>3, <2>4 DEF Paired
  <2>5. CASE ~(fd < 3)
    <3>1. ~Other.opened /\ fds[fd] = Other /\ granted[fd] = NoGrant
      BY <2>1, <2>2, <2>3, <2>5 DEF Other, Unused
    <3> QED BY <3>1 DEF Paired
  <2> QED BY <2>4, <2>5
<1>2. fds = [fd \in Fds |-> fds[fd]] /\ granted = [fd \in Fds |-> granted[fd]]
  BY DEF Init, FileInitFds
<1>3. avail \in 3 .. MAX_FILE_NUMBER /\ dups \in Seq([pid : Pids, old : DupArgs, new : DupArgs])
  BY DescriptorsAssumption DEF Init
<1> QED BY <1>1, <1>2, <1>3 DEF FdsInv, Init

\* What open does to the table, for itself and for dup3.
LEMMA OpenedPairs ==
  ASSUME FdsInv, NEW path \in Paths \cup {Code, Null}, NEW flags,
         path = Null \/ Plain(path) \/ Unnamed(path), Opened(path, flags)
  PROVE  /\ fds' = [fd \in Fds |-> fds'[fd]] /\ granted' = [fd \in Fds |-> granted'[fd]]
         /\ avail' \in 3 .. MAX_FILE_NUMBER
         /\ \A fd \in Fds : Paired(fd, fds'[fd], granted'[fd])
<1>1. CASE UNCHANGED <<fds, avail, granted>>
  BY <1>1 DEF FdsInv
<1>2. ASSUME ~UNCHANGED <<fds, avail, granted>>
      PROVE  \E entry :
               /\ avail # MAX_FILE_NUMBER /\ path # Null /\ flags \in 1 .. 7
               /\ entry = OpenFile(path) /\ entry # 0
               /\ fds' = [fds EXCEPT ![avail] = FileOpen(flags, entry)]
               /\ avail' = avail + 1
               /\ granted' = [granted EXCEPT ![avail] = Grant(Named(path), flags)]
  BY <1>2 DEF Opened
<1>3. CASE ~UNCHANGED <<fds, avail, granted>>
  <2>1. PICK entry :
          /\ avail # MAX_FILE_NUMBER /\ path # Null /\ flags \in 1 .. 7
          /\ entry = OpenFile(path) /\ entry # 0
          /\ fds' = [fds EXCEPT ![avail] = FileOpen(flags, entry)]
          /\ avail' = avail + 1
          /\ granted' = [granted EXCEPT ![avail] = Grant(Named(path), flags)]
    BY <1>2, <1>3
  <2>2. entry = Named(path) /\ entry \in Nat \ {0}
    BY <2>1, EntryOfPath DEF FdsInv
  <2>3. avail \in Fds /\ avail >= 3 /\ avail' \in 3 .. MAX_FILE_NUMBER
    BY <2>1, DescriptorsAssumption DEF FdsInv, Fds
  <2>4. PICK file : file = FileOpen(flags, entry)
    OBVIOUS
  <2>5. file.entry = entry /\ file.perms = flags
    BY <2>4 DEF FileOpen, Other, Unused
  <2>6. Paired(avail, file, Grant(entry, flags))
    BY <2>1, <2>2, <2>3, <2>4, <2>5 DEF Paired
  <2>7. /\ fds' = [fd \in Fds |-> IF fd = avail THEN file ELSE fds[fd]]
        /\ granted' = [fd \in Fds |-> IF fd = avail THEN Grant(entry, flags) ELSE granted[fd]]
    <3>1. fds = [fd \in Fds |-> fds[fd]] /\ granted = [fd \in Fds |-> granted[fd]]
      BY DEF FdsInv
    <3> QED BY <2>1, <2>2, <2>3, <2>4, <3>1
  <2>8. ASSUME NEW fd \in Fds PROVE Paired(fd, fds'[fd], granted'[fd])
    <3>1. CASE fd = avail
      BY <2>6, <2>7, <3>1
    <3>2. CASE fd # avail
      <4>1. fds'[fd] = fds[fd] /\ granted'[fd] = granted[fd]
        BY <2>7, <3>2
      <4> QED BY <4>1 DEF FdsInv
    <3> QED BY <3>1, <3>2
  <2> QED BY <2>3, <2>7, <2>8
<1> QED BY <1>1, <1>3

LEMMA FdsInvStep ==
  ASSUME \A path \in Paths \cup {Code} : Plain(path) \/ Unnamed(path)
  PROVE  FdsInv /\ [Next]_vars => FdsInv'
<1> SUFFICES ASSUME FdsInv, [Next]_vars PROVE FdsInv'
  OBVIOUS
<1>1. ASSUME UNCHANGED <<dir, files, granted>> PROVE FdsInv'
  BY <1>1 DEF FdsInv, files
<1>2. ASSUME NEW path \in Paths \cup {Null}, NEW flags \in FlagArgs, Open(path, flags)
      PROVE  FdsInv'
  <2>1. Opened(path, flags) /\ UNCHANGED <<dir, dups>>
    BY <1>2 DEF Open
  <2>2. path = Null \/ Plain(path) \/ Unnamed(path)
    OBVIOUS
  <2> QED BY <2>1, <2>2, OpenedPairs DEF FdsInv
<1>3. ASSUME NEW p \in Pids, NEW old \in DupArgs, NEW new \in DupArgs, Dup3(p, old, new)
      PROVE  FdsInv'
  <2>1. CASE Break
    BY <1>1, <2>1 DEF Break
  <2>2. CASE /\ dups' = Append(dups, [pid |-> p, old |-> old, new |-> new])
             /\ Opened(Code, old)
             /\ UNCHANGED <<dir, console>>
    <3>1. [pid |-> p, old |-> old, new |-> new] \in [pid : Pids, old : DupArgs, new : DupArgs]
      OBVIOUS
    <3>2. dups' \in Seq([pid : Pids, old : DupArgs, new : DupArgs])
      BY <2>2, <3>1, AppendProperties DEF FdsInv
    <3>3. Plain(Code) \/ Unnamed(Code)
      OBVIOUS
    <3> QED BY <2>2, <3>2, <3>3, OpenedPairs DEF FdsInv
  <2> QED BY <1>3, <2>1, <2>2 DEF Dup3
<1>4. ASSUME NEW fd \in Fds, Close(fd) PROVE FdsInv'
  <2>1. /\ fds' = [k \in Fds |-> IF k = fd THEN FileClose ELSE fds[k]]
        /\ granted' = [k \in Fds |-> IF k = fd THEN NoGrant ELSE granted[k]]
        /\ UNCHANGED <<dir, avail, dups>>
    <3>1. fds = [k \in Fds |-> fds[k]] /\ granted = [k \in Fds |-> granted[k]]
      BY DEF FdsInv
    <3> QED BY <1>4, <3>1 DEF Close
  <2>2. ASSUME NEW k \in Fds PROVE Paired(k, fds'[k], granted'[k])
    <3>1. CASE k = fd
      <4>1. ~FileClose.opened /\ fds'[k] = FileClose /\ granted'[k] = NoGrant
        BY <2>1, <3>1 DEF FileClose, Unused
      <4> QED BY <4>1 DEF Paired
    <3>2. CASE k # fd
      <4>1. fds'[k] = fds[k] /\ granted'[k] = granted[k]
        BY <2>1, <3>2
      <4> QED BY <4>1 DEF FdsInv
    <3> QED BY <3>1, <3>2
  <2> QED BY <2>1, <2>2 DEF FdsInv
<1>5. ASSUME NEW fd, NEW len, Read(fd, len) PROVE FdsInv'
  BY <1>1, <1>5 DEF Read
<1>6. ASSUME NEW c, Type(c) PROVE FdsInv'
  BY <1>1, <1>6 DEF Type
<1>7. ASSUME NEW r, Poll(r) PROVE FdsInv'
  BY <1>1, <1>7 DEF Poll
<1>8. CASE UNCHANGED vars
  BY <1>1, <1>8 DEF vars
<1> QED BY <1>2, <1>3, <1>4, <1>5, <1>6, <1>7, <1>8 DEF Next

\* The last dup3 that lseek may follow leads to a number, and perhaps to none.
LEMMA RedirectedIsInt ==
  ASSUME FdsInv, NEW p, NEW fd \in FdArgs
  PROVE  Redirected(p, fd) \in Int
<1>1. PICK n \in Nat : n = Len(dups) /\ DOMAIN dups = 1 .. n
                       /\ \A i \in 1 .. n : dups[i].new \in Int
  <2>1. dups \in Seq([pid : Pids, old : DupArgs, new : DupArgs])
    BY DEF FdsInv
  <2>2. Len(dups) \in Nat /\ DOMAIN dups = 1 .. Len(dups)
    BY <2>1, LenProperties
  <2>3. \A i \in 1 .. Len(dups) : dups[i] \in [pid : Pids, old : DupArgs, new : DupArgs]
    BY <2>1, ElementOfSeq
  <2> QED BY <2>2, <2>3, DescriptorsAssumption
<1>2. PICK mine \in SUBSET (1 .. n) : mine = {i \in DOMAIN dups : dups[i].pid = p /\ dups[i].old = fd}
  BY <1>1
<1>3. CASE mine = {}
  <2>1. fd \in Int
    BY DescriptorsAssumption DEF FdArgs
  <2> QED BY <1>2, <1>3, <2>1 DEF Redirected
<1>4. CASE mine # {}
  <2>1. PICK x \in mine : \A y \in mine : x <= y
    <3>1. mine \in SUBSET (0 .. n)
      OBVIOUS
    <3> QED BY <1>4, <3>1, LeastElement
  <2>2. Min(mine) \in mine
    BY <2>1 DEF Min
  <2>3. Redirected(p, fd) = dups[Min(mine)].new
    BY <1>2, <1>4 DEF Redirected
  <2> QED BY <1>1, <2>2, <2>3
<1> QED BY <1>3, <1>4

\* What each kind of place answers.
LEMMA PlacesAnswer ==
  ASSUME FdsInv, NEW fd \in Int
  PROVE  /\ ReadReaches(fd) = IF Granted(fd).read THEN Granted(fd).reach ELSE Refused
         /\ WriteReaches(fd) = IF Granted(fd).write THEN Granted(fd).reach ELSE Refused
         /\ (IF IsOpened(fd) /\ fds[fd].lseek # "null" THEN fds[fd].entry ELSE Refused)
              = IF Granted(fd).reach = Console THEN Refused ELSE Granted(fd).reach
<1>1. Refused # Console
  BY DEF Refused, Console
<1>2. CASE fd \notin Fds \/ ~fds[fd].opened
  <2>1. ~IsOpened(fd)
    BY <1>2, DescriptorsAssumption DEF IsOpened, Fds
  <2>2. Granted(fd) = NoGrant
    <3>1. CASE fd \notin Fds
      BY <3>1 DEF Granted
    <3>2. CASE fd \in Fds
      <4>1. Paired(fd, fds[fd], granted[fd]) /\ ~fds[fd].opened
        BY <1>2, <3>2 DEF FdsInv
      <4>2. Stdin.opened /\ Stdout.opened
            /\ \A flags, entry : FileOpen(flags, entry).opened
        BY DEF Stdin, Stdout, FileOpen, Other, Unused
      <4> QED BY <3>2, <4>1, <4>2 DEF Paired, Granted
    <3> QED BY <3>1, <3>2
  <2> QED BY <1>1, <2>1, <2>2, GrantsOf DEF ReadReaches, WriteReaches, MayRead, MayWrite
<1>3. CASE fd \in Fds /\ fds[fd].opened
  <2>1. IsOpened(fd) /\ Granted(fd) = granted[fd] /\ Paired(fd, fds[fd], granted[fd])
    BY <1>3, DescriptorsAssumption DEF IsOpened, Fds, Granted, FdsInv
  <2>2. CASE fd = 0 /\ fds[fd] = Stdin /\ granted[fd] = Grant(Console, 1)
    <3>1. Stdin.perms = 3 /\ Stdin.read = "console" /\ Stdin.lseek = "null"
      BY DEF Stdin, Unused
    <3>2. MayRead(fd) /\ ~MayWrite(fd)
      BY <2>1, <2>2, <3>1, GrantsOf DEF MayRead, MayWrite
    <3>3. ReadReaches(fd) = Console /\ WriteReaches(fd) = Refused
      BY <2>2, <3>1, <3>2 DEF ReadReaches, WriteReaches, Through
    <3> QED BY <1>1, <2>1, <2>2, <3>1, <3>3, GrantsOf
  <2>3. CASE fd \in 1 .. 2 /\ fds[fd] = Stdout /\ granted[fd] = Grant(Console, 2)
    <3>1. Stdout.perms = 3 /\ Stdout.write = "console" /\ Stdout.lseek = "null"
      BY DEF Stdout, Unused
    <3>2. ~MayRead(fd) /\ MayWrite(fd)
      BY <2>1, <2>3, <3>1, GrantsOf DEF MayRead, MayWrite
    <3>3. ReadReaches(fd) = Refused /\ WriteReaches(fd) = Console
      BY <2>3, <3>1, <3>2 DEF ReadReaches, WriteReaches, Through
    <3> QED BY <1>1, <2>1, <2>3, <3>1, <3>3, GrantsOf
  <2>4. CASE fd >= 3 /\ \E entry \in Nat \ {0}, flags \in 1 .. 7 :
               fds[fd] = FileOpen(flags, entry) /\ granted[fd] = Grant(entry, flags)
    <3>1. PICK entry \in Nat \ {0}, flags \in 1 .. 7 :
            fds[fd] = FileOpen(flags, entry) /\ granted[fd] = Grant(entry, flags)
      BY <2>4
    <3>2. PICK file : file = fds[fd]
      OBVIOUS
    <3>3. /\ file.opened /\ file.perms = flags /\ file.fat32 /\ file.entry = entry
          /\ file.lseek = "file" /\ file.write = "file" /\ file.read = "file"
      BY <3>1, <3>2 DEF FileOpen, Other, Unused
    <3>4. granted[fd].reach = entry
      BY <3>1 DEF Grant
    <3>5. ReadReaches(fd) = IF granted[fd].read THEN granted[fd].reach ELSE Refused
      <4>1. MayRead(fd) <=> F_READ(flags)
        BY <2>1, <2>4, <3>2, <3>3 DEF MayRead, F_READ
      <4>2. CASE F_READ(flags)
        <5>1. granted[fd].read
          BY <3>1, <4>2 DEF Grant
        <5> QED BY <3>2, <3>3, <3>4, <4>1, <4>2, <5>1 DEF ReadReaches, Through, FileRead
      <4>3. CASE ~F_READ(flags)
        <5>1. ~granted[fd].read
          BY <3>1, <4>3 DEF Grant
        <5> QED BY <4>1, <4>3, <5>1 DEF ReadReaches
      <4> QED BY <4>2, <4>3
    <3>6. WriteReaches(fd) = IF granted[fd].write THEN granted[fd].reach ELSE Refused
      <4>1. MayWrite(fd) <=> F_WRITE(flags)
        BY <2>1, <2>4, <3>2, <3>3 DEF MayWrite, F_WRITE
      <4>2. CASE F_WRITE(flags)
        <5>1. granted[fd].write
          BY <3>1, <4>2 DEF Grant
        <5> QED BY <3>2, <3>3, <3>4, <4>1, <4>2, <5>1 DEF WriteReaches, Through, FileWrite
      <4>3. CASE ~F_WRITE(flags)
        <5>1. ~granted[fd].write
          BY <3>1, <4>3 DEF Grant
        <5> QED BY <4>1, <4>3, <5>1 DEF WriteReaches
      <4> QED BY <4>2, <4>3
    <3>7. entry # Console
      BY DEF Console
    <3> QED BY <2>1, <3>2, <3>3, <3>4, <3>5, <3>6, <3>7
  <2> QED BY <2>1, <2>2, <2>3, <2>4, <1>3 DEF Paired
<1> QED BY <1>2, <1>3

\* Read, write and lseek act on what their descriptor was opened for and
\* refuse everything else.  The paths are ones that the code takes apart as
\* they are meant or name nothing; so do the bytes that dup3 opens.
THEOREM CallsReach ==
  ASSUME \A path \in Paths \cup {Code} : Plain(path) \/ Unnamed(path)
  PROVE  Spec => []CallsReachTheOpened
<1>1. FdsInv => CallsReachTheOpened
  <2> SUFFICES ASSUME FdsInv, NEW fd \in FdArgs
               PROVE  /\ ReadReaches(fd) = IF Granted(fd).read THEN Granted(fd).reach ELSE Refused
                      /\ WriteReaches(fd) = IF Granted(fd).write THEN Granted(fd).reach ELSE Refused
                      /\ \A p \in Pids :
                           LseekReaches(p, fd) = LET g == Granted(Redirected(p, fd))
                                                 IN  IF g.reach = Console THEN Refused ELSE g.reach
    BY DEF CallsReachTheOpened
  <2>1. fd \in Int
    BY DescriptorsAssumption DEF FdArgs
  <2>2. ASSUME NEW p \in Pids
        PROVE  LseekReaches(p, fd) = LET g == Granted(Redirected(p, fd))
                                     IN  IF g.reach = Console THEN Refused ELSE g.reach
    <3>1. PICK d \in Int : d = Redirected(p, fd)
      BY RedirectedIsInt
    <3> QED BY <3>1, PlacesAnswer DEF LseekReaches
  <2> QED BY <2>1, <2>2, PlacesAnswer
<1> QED BY <1>1, FdsInvInit, FdsInvStep, PTL DEF Spec
-----------------------------------------------------------------------------
(***************************************************************************)
(* The console.                                                            *)
(***************************************************************************)
Reads == [len : Nat \ {0}, got : Seq(Chars), over : {FALSE}]

\* At most one read goes on, and it still has room.
TypedInv ==
  /\ typed \in Seq(Chars) /\ heard \in Seq(Chars) /\ taken \in 0 .. Len(typed)
  /\ \/ reading = Nobody /\ heard = SubSeq(typed, 1, taken)
     \/ \E r \in Reads : /\ reading = {r} /\ Len(r.got) < r.len
                         /\ heard \o r.got = SubSeq(typed, 1, taken)

LEMMA TypedInvInit == Init => TypedInv
<1> SUFFICES ASSUME Init PROVE TypedInv
  OBVIOUS
<1>1. SubSeq(<< >>, 1, 0) = << >>
  BY SubSeqEmpty
<1>2. << >> \in Seq(Chars) /\ Len(<< >>) = 0
  BY EmptySeq
<1> QED BY <1>1, <1>2 DEF Init, TypedInv

LEMMA TypedInvPoll ==
  ASSUME TypedInv, NEW r \in reading, Poll(r)
  PROVE  TypedInv'
<1>1. /\ r \in Reads /\ reading = {r} /\ Len(r.got) < r.len
      /\ heard \o r.got = SubSeq(typed, 1, taken)
  BY DEF TypedInv, Nobody
<1>2. PICK t : t = taken + 1
  OBVIOUS
<1>3. /\ t \in 1 .. Len(typed) /\ taken' = t /\ typed' = typed
      /\ typed \in Seq(Chars) /\ heard \in Seq(Chars) /\ taken = t - 1 /\ Len(typed) \in Nat
  BY <1>2, LenProperties DEF Poll, TypedInv
<1>4. PICK c \in Chars : c = typed[t]
  BY <1>3, ElementOfSeq
<1>5. PICK got \in Seq(Chars), len \in Nat \ {0} :
        got = r.got /\ len = r.len /\ r = [len |-> len, got |-> got, over |-> FALSE]
  BY <1>1 DEF Reads
<1>6. /\ Append(got, c) \in Seq(Chars) /\ Len(Append(got, c)) = Len(got) + 1
      /\ Len(got) \in Nat /\ Append(got, c) = got \o <<c>>
  BY AppendProperties, AppendIsConcat, LenProperties
<1>7. heard \o Append(got, c) = SubSeq(typed, 1, t)
  <2>1. SubSeq(typed, 1, t) = SubSeq(typed, 1, t - 1) \o <<typed[t]>>
    <3>1. 1 \in 1 .. Len(typed) /\ t \in 1 .. Len(typed)
      BY <1>3
    <3> QED BY <1>3, <3>1, SubSeqRecursiveSecond
  <2>2. <<c>> \in Seq(Chars)
    OBVIOUS
  <2>3. (heard \o got) \o <<c>> = heard \o (got \o <<c>>)
    <3>1. heard \in Seq(Chars) /\ got \in Seq(Chars)
      BY <1>3
    <3> QED BY <2>2, <3>1, ConcatAssociative
  <2> QED BY <1>1, <1>3, <1>4, <1>5, <1>6, <2>1, <2>3
<1>8. PICK s : s = Turn(r, c)
  OBVIOUS
<1>9. /\ s.over => reading' = Nobody
                   /\ heard' = heard \o (IF Len(s.got) < s.len THEN Append(s.got, LF) ELSE s.got)
      /\ ~s.over => reading' = {s} /\ heard' = heard
  BY <1>2, <1>4, <1>8 DEF Poll
<1>10. CASE c = LF
  <2>1. s.over /\ s.got = got /\ s.len = len
    BY <1>5, <1>8, <1>10 DEF Turn
  <2>2. reading' = Nobody /\ heard' = heard \o Append(got, c)
    BY <1>1, <1>5, <1>9, <1>10, <2>1
  <2>3. heard' \in Seq(Chars)
    BY <1>3, <1>6, <2>2, ConcatProperties
  <2> QED BY <1>3, <1>7, <2>2, <2>3 DEF TypedInv
<1>11. CASE c # LF /\ Len(got) + 1 = len
  <2>1. s.over /\ s.got = Append(got, c) /\ s.len = len
    BY <1>5, <1>8, <1>11 DEF Turn
  <2>2. reading' = Nobody /\ heard' = heard \o Append(got, c)
    BY <1>6, <1>9, <1>11, <2>1
  <2>3. heard' \in Seq(Chars)
    BY <1>3, <1>6, <2>2, ConcatProperties
  <2> QED BY <1>3, <1>7, <2>2, <2>3 DEF TypedInv
<1>12. CASE c # LF /\ Len(got) + 1 # len
  <2>1. s = [len |-> len, got |-> Append(got, c), over |-> FALSE]
    BY <1>5, <1>8, <1>12 DEF Turn
  <2>2. s \in Reads /\ s.got = Append(got, c) /\ Len(s.got) < s.len /\ ~s.over
    BY <1>1, <1>5, <1>6, <1>12, <2>1 DEF Reads
  <2>3. reading' = {s} /\ heard' = heard
    BY <1>9, <2>2
  <2>4. /\ typed' \in Seq(Chars) /\ heard' \in Seq(Chars) /\ taken' \in 0 .. Len(typed')
        /\ heard' \o s.got = SubSeq(typed', 1, taken')
    BY <1>3, <1>7, <2>2, <2>3
  <2> QED BY <2>2, <2>3, <2>4 DEF TypedInv
<1> QED BY <1>10, <1>11, <1>12

LEMMA TypedInvStep == TypedInv /\ [Next]_vars => TypedInv'
<1> SUFFICES ASSUME TypedInv, [Next]_vars PROVE TypedInv'
  OBVIOUS
<1>1. ASSUME UNCHANGED console PROVE TypedInv'
  BY <1>1 DEF TypedInv, console
<1>2. ASSUME NEW path, NEW flags, Open(path, flags) PROVE TypedInv'
  BY <1>1, <1>2 DEF Open
<1>3. ASSUME NEW p, NEW old, NEW new, Dup3(p, old, new) PROVE TypedInv'
  BY <1>1, <1>3 DEF Dup3, Break
<1>4. ASSUME NEW fd, Close(fd) PROVE TypedInv'
  BY <1>1, <1>4 DEF Close
<1>5. ASSUME NEW fd, NEW len \in Lens, Read(fd, len) PROVE TypedInv'
  <2>1. PICK r : r = [len |-> len, got |-> << >>, over |-> FALSE]
    OBVIOUS
  <2>2. /\ reading = Nobody /\ reading' = {r} /\ UNCHANGED <<typed, taken, heard>>
    BY <1>5, <2>1 DEF Read, Ready
  <2>3. heard = SubSeq(typed, 1, taken) /\ heard \in Seq(Chars)
    BY <2>2 DEF TypedInv, Nobody
  <2>4. << >> \in Seq(Chars) /\ Len(<< >>) = 0 /\ heard \o << >> = heard
    BY <2>3, EmptySeq, ConcatEmptySeq
  <2>5. len \in Nat \ {0}
    BY DescriptorsAssumption
  <2>6. r \in Reads /\ r.got = << >> /\ Len(r.got) < r.len
    BY <2>1, <2>4, <2>5 DEF Reads
  <2>7. /\ typed' \in Seq(Chars) /\ heard' \in Seq(Chars) /\ taken' \in 0 .. Len(typed')
        /\ heard' \o r.got = SubSeq(typed', 1, taken')
    BY <2>2, <2>3, <2>4, <2>6 DEF TypedInv
  <2>8. r \in Reads /\ reading' = {r} /\ Len(r.got) < r.len
    BY <2>2, <2>6
  <2> QED BY <2>7, <2>8 DEF TypedInv
<1>6. ASSUME NEW c \in Chars, Type(c) PROVE TypedInv'
  <2>1. typed' = Append(typed, c) /\ UNCHANGED <<taken, reading, heard>>
    BY <1>6 DEF Type
  <2>2. PICK n \in Nat : n = Len(typed) /\ taken \in 0 .. n /\ typed \in Seq(Chars)
    BY LenProperties DEF TypedInv
  <2>3. typed' \in Seq(Chars) /\ Len(typed') = n + 1 /\ \A i \in 1 .. n : typed'[i] = typed[i]
    BY <2>1, <2>2, AppendProperties
  <2>4. SubSeq(typed', 1, taken) = SubSeq(typed, 1, taken)
    <3>1. PICK s : s = SubSeq(typed, 1, taken)
      OBVIOUS
    <3>2. PICK t : t = SubSeq(typed', 1, taken)
      OBVIOUS
    <3>3. 1 \in Int /\ taken \in Int
          /\ \A i \in 1 .. taken : typed[i] \in Chars /\ typed'[i] = typed[i]
      BY <2>2, <2>3, ElementOfSeq
    <3>4. /\ s \in Seq(Chars) /\ Len(s) = IF 1 <= taken THEN taken - 1 + 1 ELSE 0
          /\ \A i \in 1 .. taken - 1 + 1 : s[i] = typed[1 + i - 1]
      BY <3>1, <3>3, SubSeqProperties
    <3>5. /\ t \in Seq(Chars) /\ Len(t) = IF 1 <= taken THEN taken - 1 + 1 ELSE 0
          /\ \A i \in 1 .. taken - 1 + 1 : t[i] = typed'[1 + i - 1]
      BY <3>2, <3>3, SubSeqProperties
    <3>6. Len(s) = taken /\ Len(t) = taken
      BY <2>2, <3>4, <3>5
    <3>7. \A i \in 1 .. taken : s[i] = t[i]
      BY <2>2, <3>3, <3>4, <3>5
    <3> QED BY <3>1, <3>2, <3>4, <3>5, <3>6, <3>7, SeqEqual
  <2> QED BY <2>1, <2>2, <2>3, <2>4, SMTT(30) DEF TypedInv
<1>7. ASSUME NEW r \in reading, Poll(r) PROVE TypedInv'
  BY <1>7, TypedInvPoll
<1>8. CASE UNCHANGED vars
  BY <1>1, <1>8 DEF vars
<1> QED BY <1>2, <1>3, <1>4, <1>5, <1>6, <1>7, <1>8 DEF Next

\* What is typed arrives once and in order, for all lengths of the reads.
THEOREM TypedArrives == Spec => []TypedArrivesOnce
<1>1. TypedInv => TypedArrivesOnce
  <2> SUFFICES ASSUME TypedInv PROVE TypedArrivesOnce
    OBVIOUS
  <2>1. CASE reading = Nobody
    <3>1. heard = SubSeq(typed, 1, taken) /\ heard \in Seq(Chars)
      BY <2>1 DEF TypedInv, Nobody
    <3> QED BY <2>1, <3>1, ConcatEmptySeq DEF TypedArrivesOnce
  <2>2. CASE reading # Nobody
    <3>1. PICK r : reading = {r} /\ heard \o r.got = SubSeq(typed, 1, taken)
      BY <2>2 DEF TypedInv
    <3>2. (CHOOSE x \in reading : TRUE) = r
      BY <3>1
    <3> QED BY <2>2, <3>1, <3>2 DEF TypedArrivesOnce
  <2> QED BY <2>1, <2>2
<1> QED BY <1>1, TypedInvInit, TypedInvStep, PTL DEF Spec
-----------------------------------------------------------------------------
(* Printf: functions whose values follow from earlier ones *)
Steps(N, S, z, J, G) ==
  \E f \in [0 .. N -> S] : \A i \in 0 .. N : f[i] = IF i = 0 THEN z ELSE G[<<i, f[J[i]]>>]

\* A value for every index, from that of an index before it.
LEMMA FromBefore ==
  ASSUME NEW N \in Nat, NEW S, NEW z \in S,
         NEW J \in [1 .. N -> 0 .. N], \A i \in 1 .. N : J[i] < i,
         NEW G \in [(1 .. N) \X S -> S]
  PROVE  Steps(N, S, z, J, G)
<1> DEFINE Follows(f, n) == \A i \in 0 .. n : f[i] = IF i = 0 THEN z ELSE G[<<i, f[J[i]]>>]
           Bad == {n \in 0 .. N : ~ \E f \in [0 .. n -> S] : Follows(f, n)}
<1>1. SUFFICES ASSUME Bad # {} PROVE FALSE
  <2>1. N \notin Bad
    BY <1>1
  <2> QED BY <2>1 DEF Steps
<1>2. PICK n \in Bad : \A y \in Bad : n <= y
  <2>1. Bad \in SUBSET (0 .. N)
    OBVIOUS
  <2> HIDE DEF Bad
  <2> QED BY <1>1, <2>1, LeastElement
<1>3. CASE n = 0
  <2>1. [i \in 0 .. 0 |-> z] \in [0 .. 0 -> S] /\ Follows([i \in 0 .. 0 |-> z], 0)
    OBVIOUS
  <2> QED BY <1>2, <1>3, <2>1
<1>4. CASE n # 0
  <2>1. n - 1 \in 0 .. N /\ n - 1 \notin Bad /\ n \in 1 .. N
    <3>1. n \in 0 .. N
      BY <1>2
    <3> HIDE DEF Bad
    <3> QED BY <1>2, <1>4, <3>1
  <2>2. PICK f \in [0 .. n - 1 -> S] : Follows(f, n - 1)
    BY <2>1
  <2> DEFINE g == [i \in 0 .. n |-> IF i = n THEN G[<<n, f[J[n]]>>] ELSE f[i]]
  <2>3. J[n] \in 0 .. n - 1 /\ f[J[n]] \in S /\ <<n, f[J[n]]>> \in (1 .. N) \X S
    BY <2>1, <2>2
  <2>4. g \in [0 .. n -> S]
    <3>1. G[<<n, f[J[n]]>>] \in S
      BY <2>3
    <3>2. \A i \in 0 .. n : i # n => i \in 0 .. n - 1
      BY <2>1
    <3> QED BY <2>2, <3>1, <3>2
  <2>5. ASSUME NEW i \in 0 .. n PROVE g[i] = IF i = 0 THEN z ELSE G[<<i, g[J[i]]>>]
    <3>1. i # 0 => J[i] \in 0 .. n - 1 /\ g[J[i]] = f[J[i]]
      BY <2>1, <2>5
    <3>2. CASE i = n
      BY <2>1, <3>1, <3>2, <1>4
    <3>3. CASE i # n
      <4>1. i \in 0 .. n - 1 /\ g[i] = f[i]
        BY <2>1, <3>3
      <4> QED BY <2>2, <3>1, <4>1
    <3> QED BY <3>2, <3>3
  <2> QED BY <1>2, <2>4, <2>5
<1> QED BY <1>3, <1>4


-----------------------------------------------------------------------------
(* Arithmetic of widths *)
LEMMA BitsAre ==
  /\ \A w \in {"char", "short", "int", "long"} : Bits[w] \in 1 .. Bits["long"]
  /\ Bits["char"] <= Bits["short"] /\ Bits["short"] <= Bits["int"] /\ Bits["int"] <= Bits["long"]
  /\ Bits["long"] \in Nat \ {0}
<1>1. /\ Bits["char"] \in Nat \ {0} /\ Bits["short"] \in Nat \ {0} /\ Bits["int"] \in Nat \ {0} /\ Bits["long"] \in Nat \ {0}
      /\ Bits["char"] <= Bits["short"] /\ Bits["short"] <= Bits["int"] /\ Bits["int"] <= Bits["long"]
  BY PrintfAssumption
<1> QED BY <1>1

LEMMA Pow2Is ==
  /\ Pow2 \in [0 .. Bits["long"] -> Nat]
  /\ \A k \in 0 .. Bits["long"] : Pow2[k] = IF k = 0 THEN 1 ELSE 2 * Pow2[k - 1]
<1> DEFINE N == Bits["long"]
           Eq(f) == f = [k \in 0 .. Bits["long"] |-> IF k = 0 THEN 1 ELSE 2 * f[k - 1]]
           J == [i \in 1 .. N |-> i - 1]
           G == [t \in (1 .. N) \X Nat |-> 2 * t[2]]
<1>1. N \in Nat
  BY BitsAre
<1>2. PICK f \in [0 .. N -> Nat] : \A i \in 0 .. N : f[i] = IF i = 0 THEN 1 ELSE G[<<i, f[J[i]]>>]
  <2>1. J \in [1 .. N -> 0 .. N] /\ \A i \in 1 .. N : J[i] < i
    BY <1>1
  <2>2. G \in [(1 .. N) \X Nat -> Nat] /\ 1 \in Nat
    OBVIOUS
  <2> HIDE DEF J, G, N
  <2>3. Steps(N, Nat, 1, J, G)
    BY <1>1, <2>1, <2>2, FromBefore
  <2> QED BY <2>3, Zenon DEF Steps
<1>3. ASSUME NEW i \in 0 .. N PROVE f[i] = IF i = 0 THEN 1 ELSE 2 * f[i - 1]
  <2>1. i # 0 => i \in 1 .. N /\ i - 1 \in 0 .. N /\ J[i] = i - 1
    BY <1>1
  <2>2. i # 0 => <<i, f[i - 1]>> \in (1 .. N) \X Nat /\ G[<<i, f[i - 1]>>] = 2 * f[i - 1]
    BY <2>1, <1>2
  <2> HIDE DEF J, G
  <2> QED BY <1>2, <2>1, <2>2
<1>4. Eq(f)
  BY <1>2, <1>3
<1>5. Pow2 = CHOOSE h : Eq(h)
  BY Zenon DEF Pow2, Exponents
<1>6. Eq(Pow2)
  <2> HIDE DEF Eq
  <2> QED BY <1>4, <1>5, Zenon
<1>7. \A k \in 0 .. N : Pow2[k] = IF k = 0 THEN 1 ELSE 2 * Pow2[k - 1]
  BY <1>6
<1>8. DOMAIN Pow2 = 0 .. N /\ Pow2 = [k \in 0 .. N |-> Pow2[k]]
  BY <1>6
<1> DEFINE Bad == {k \in 0 .. N : Pow2[k] \notin Nat}
<1>9. Bad = {}
  <2>1. SUFFICES ASSUME Bad # {} PROVE FALSE
    OBVIOUS
  <2>2. PICK i \in Bad : \A y \in Bad : i <= y
    <3>1. Bad \in SUBSET (0 .. N)
      OBVIOUS
    <3> HIDE DEF Bad, N
    <3> QED BY <1>1, <2>1, <3>1, LeastElement
  <2>3. i # 0 => i - 1 \in 0 .. N /\ i - 1 \notin Bad
    BY <1>1, <2>2
  <2>4. Pow2[i] = IF i = 0 THEN 1 ELSE 2 * Pow2[i - 1]
    BY <1>7, <2>2
  <2> QED BY <2>2, <2>3, <2>4
<1> QED BY <1>7, <1>8, <1>9

\* A larger power is a multiple of a smaller one.
LEMMA Pow2Divides ==
  ASSUME NEW i \in 0 .. Bits["long"], NEW j \in i .. Bits["long"]
  PROVE  /\ Pow2[i] \in Nat \ {0} /\ Pow2[j] \in Nat \ {0}
         /\ \E m \in Nat \ {0} : Pow2[j] = m * Pow2[i]
<1> DEFINE N == Bits["long"]
           Holds(k) == Pow2[k] \in Nat \ {0} /\ (k >= i => \E m \in Nat \ {0} : Pow2[k] = m * Pow2[i])
           Bad == {k \in 0 .. N : ~ Holds(k)}
<1>1. N \in Nat
  BY BitsAre
<1>2. Bad = {}
  <2>1. SUFFICES ASSUME Bad # {} PROVE FALSE
    OBVIOUS
  <2>2. PICK k \in Bad : \A y \in Bad : k <= y
    <3>1. Bad \in SUBSET (0 .. N)
      OBVIOUS
    <3> HIDE DEF Bad, N
    <3> QED BY <1>1, <2>1, <3>1, LeastElement
  <2>3. k \in 0 .. N /\ ~ Holds(k)
    BY <2>2
  <2>4. k # 0 => k - 1 \in 0 .. N /\ Holds(k - 1)
    <3> HIDE DEF Holds
    <3> QED BY <1>1, <2>2
  <2>5. Pow2[k] \in Nat /\ Pow2[k] = IF k = 0 THEN 1 ELSE 2 * Pow2[k - 1]
    BY <2>3, Pow2Is
  <2>6. Pow2[k] \in Nat \ {0}
    BY <2>3, <2>4, <2>5
  <2>7. CASE k > i
    <3>1. PICK m \in Nat \ {0} : Pow2[k - 1] = m * Pow2[i]
      BY <2>3, <2>4, <2>7
    <3>2. 2 * m \in Nat \ {0} /\ Pow2[k] = (2 * m) * Pow2[i]
      <4>1. PICK p \in Nat : p = Pow2[i]
        BY Pow2Is
      <4>2. 2 * (m * p) = (2 * m) * p
        OBVIOUS
      <4> QED BY <2>3, <2>5, <2>7, <3>1, <4>1, <4>2
    <3> QED BY <2>3, <2>6, <3>2
  <2>8. CASE k = i
    <3>1. Pow2[i] = 1 * Pow2[i]
      BY <2>6, <2>8
    <3> QED BY <2>3, <2>6, <2>8, <3>1
  <2>9. CASE k < i
    BY <2>3, <2>6, <2>9
  <2> QED BY <2>3, <2>7, <2>8, <2>9
<1>3. Holds(i) /\ Holds(j)
  <2>1. i \in 0 .. N /\ j \in 0 .. N
    BY <1>1
  <2> HIDE DEF Holds
  <2> QED BY <1>2, <2>1
<1> QED BY <1>3

\* What is left of a division is the only such remainder.
LEMMA ModIs ==
  ASSUME NEW p \in Nat \ {0}, NEW q \in Int, NEW r \in 0 .. p - 1
  PROVE  (q * p + r) % p = r
OBVIOUS

LEMMA ModRange ==
  ASSUME NEW p \in Nat \ {0}, NEW x \in Int
  PROVE  x % p \in 0 .. p - 1 /\ \E q \in Int : x = q * p + (x % p)
<1>1. x % p \in 0 .. p - 1
  OBVIOUS
<1>2. x \div p \in Int /\ x = p * (x \div p) + (x % p)
  OBVIOUS
<1>3. p * (x \div p) = (x \div p) * p
  BY <1>2
<1> QED BY <1>1, <1>2, <1>3
-----------------------------------------------------------------------------
(* Arguments as numbers *)
Kinds == {"char", "short", "int", "long"}
Typed(t) == t \in [width : Kinds, signed : BOOLEAN]

\* The types that conversions end with.
LEMMA TypeOfIs ==
  ASSUME NEW d \in ConversionDirective, TypeOf(d) # NoType
  PROVE  /\ Typed(TypeOf(d))
         /\ d.conv \in {"d", "i", "o", "u", "x", "X", "c", "s", "p", "n"}
         /\ d.conv \in {"d", "i"} => TypeOf(d).signed
         /\ d.conv \in {"o", "u", "x", "X", "s", "p", "n"} => ~ TypeOf(d).signed
<1>1. d.mod \in DOMAIN WidthOf
  BY DEF ConversionDirective
<1>2. WidthOf[d.mod] \in Kinds
  BY <1>1 DEF WidthOf, Kinds
<1>3. "int" \in Kinds /\ "long" \in Kinds
  BY DEF Kinds
<1>4. CASE d.conv \in {"d", "i"}
  <2>1. TypeOf(d) = [width |-> WidthOf[d.mod], signed |-> TRUE]
    BY <1>4 DEF TypeOf
  <2> QED BY <1>2, <1>4, <2>1 DEF Typed
<1>5. CASE d.conv \in {"o", "u", "x", "X"}
  <2>1. TypeOf(d) = [width |-> WidthOf[d.mod], signed |-> FALSE]
    BY <1>5 DEF TypeOf
  <2> QED BY <1>2, <1>5, <2>1 DEF Typed
<1>6. CASE d.conv = "c"
  <2>1. TypeOf(d) = [width |-> "int", signed |-> d.mod = "bare"]
    BY <1>6 DEF TypeOf
  <2> QED BY <1>3, <1>6, <2>1 DEF Typed
<1>7. CASE d.conv \in {"s", "p", "n"}
  <2>1. TypeOf(d) = Pointer
    BY <1>7 DEF TypeOf
  <2> QED BY <1>3, <1>7, <2>1 DEF Typed, Pointer
<1>8. CASE d.conv \notin {"d", "i", "o", "u", "x", "X", "c", "s", "p", "n"}
  BY <1>8 DEF TypeOf
<1> QED BY <1>4, <1>5, <1>6, <1>7, <1>8

LEMMA CIntTyped == Typed(CInt) /\ CInt.width = "int" /\ CInt.signed
BY DEF Typed, CInt, Kinds

\* What the second pass takes for an argument is its number modulo 2^long.
LEMMA NumberIs ==
  ASSUME NEW t, Typed(t), NEW slot \in Value
  PROVE  /\ Popped(t, slot) \in Value /\ Number2(t, slot) \in Int /\ Uintmax \in Nat
         /\ Number2(t, slot) >= 0 => Popped(t, slot) = Number2(t, slot)
         /\ Number2(t, slot) < 0 => /\ t.signed /\ Popped(t, slot) >= Uintmax \div 2
                                    /\ Popped(t, slot) = Uintmax + Number2(t, slot)
         /\ t.signed /\ Number2(t, slot) >= 0 => Popped(t, slot) < Uintmax \div 2
<1> DEFINE b == Bits[t.width]
           N == Bits["long"]
<1>1. b \in 1 .. N /\ N \in Nat \ {0}
  BY BitsAre DEF Typed, Kinds
<1>2. PICK h \in Nat \ {0}, p \in Nat \ {0} : h = Pow2[b - 1] /\ p = Pow2[b] /\ p = 2 * h
  <2>1. b \in 0 .. N /\ b - 1 \in 0 .. N /\ b # 0
    BY <1>1
  <2> HIDE DEF b
  <2>2. Pow2[b] = 2 * Pow2[b - 1]
    BY <2>1, Pow2Is
  <2>3. N \in b - 1 .. N /\ N \in b .. N
    BY <1>1, <2>1
  <2>4. Pow2[b] \in Nat \ {0} /\ Pow2[b - 1] \in Nat \ {0}
    BY <2>1, <2>3, Pow2Divides
  <2> QED BY <2>2, <2>4
<1>3. PICK u \in Nat \ {0}, m \in Nat \ {0} : u = Uintmax /\ u = m * p
  <2>1. b \in 0 .. N /\ N \in b .. N
    BY <1>1
  <2> HIDE DEF b
  <2>2. Pow2[N] \in Nat \ {0} /\ \E m \in Nat \ {0} : Pow2[N] = m * Pow2[b]
    BY <2>1, Pow2Divides
  <2> QED BY <1>2, <2>2 DEF Uintmax
<1>4. PICK half \in Nat : half = Uintmax \div 2 /\ u = 2 * half
  <2>1. N \in 0 .. N /\ N - 1 \in 0 .. N /\ N # 0
    BY <1>1
  <2>2. PICK g \in Nat : Pow2[N] = 2 * g
    BY <2>1, Pow2Is
  <2>3. u = 2 * g
    BY <1>3, <2>2 DEF Uintmax
  <2>4. (2 * g) \div 2 = g
    OBVIOUS
  <2> QED BY <1>3, <2>3, <2>4
<1>5. PICK low \in 0 .. p - 1 : low = slot % p
  <2>1. slot \in Int
    BY <1>3 DEF Value
  <2> QED BY <2>1, ModRange
<1>6. u >= p /\ half >= h
  <2>1. m * p >= p
    BY <1>3
  <2> QED BY <1>2, <1>3, <1>4, <2>1
<1>7. /\ Popped(t, slot) = IF t.signed /\ low >= h THEN u - p + low ELSE low
      /\ Number2(t, slot) = IF t.signed /\ low >= h THEN low - p ELSE low
  BY <1>2, <1>3, <1>5 DEF Popped, Number2
<1>8. CASE t.signed /\ low >= h
  <2>1. Popped(t, slot) = u - p + low /\ Number2(t, slot) = low - p
    BY <1>7, <1>8
  <2>2. u - p + low \in 0 .. u - 1 /\ low - p < 0 /\ u - p + low >= half /\ u - p + low = u + (low - p)
    BY <1>2, <1>4, <1>5, <1>6, <1>8
  <2> QED BY <1>3, <1>4, <1>8, <2>1, <2>2 DEF Value
<1>9. CASE ~ (t.signed /\ low >= h)
  <2>1. Popped(t, slot) = low /\ Number2(t, slot) = low
    BY <1>7, <1>9
  <2>2. low \in 0 .. u - 1 /\ low >= 0
    BY <1>5, <1>6
  <2>3. t.signed => low < half
    BY <1>6, <1>9, <1>5
  <2> QED BY <1>3, <1>4, <2>1, <2>2, <2>3 DEF Value
<1> QED BY <1>8, <1>9

\* Adding 2^long changes nothing that fewer bits can tell.
LEMMA SameBelow ==
  ASSUME NEW k \in 0 .. Bits["long"], NEW n \in Int, NEW v, v = Uintmax + n
  PROVE  v % Pow2[k] = n % Pow2[k]
<1> DEFINE N == Bits["long"]
<1>1. PICK p \in Nat \ {0}, m \in Nat \ {0} : p = Pow2[k] /\ Uintmax = m * p
  <2>1. N \in k .. N
    BY BitsAre
  <2> QED BY <2>1, Pow2Divides DEF Uintmax
<1>2. PICK q \in Int : n % p \in 0 .. p - 1 /\ n = q * p + (n % p)
  BY ModRange
<1>3. v = (m + q) * p + (n % p) /\ m + q \in Int
  <2>1. (m + q) * p = m * p + q * p
    OBVIOUS
  <2> QED BY <1>1, <1>2, <2>1
<1>4. ((m + q) * p + (n % p)) % p = n % p
  BY <1>2, <1>3, ModIs
<1> QED BY <1>1, <1>3, <1>4

\* So neither %c nor the width of a field, which is taken as an int, can.
LEMMA SameChar ==
  ASSUME NEW t, Typed(t), NEW slot \in Value
  PROVE  Char(Popped(t, slot)) = Char(Number2(t, slot))
<1>1. Bits["char"] \in 0 .. Bits["long"]
  BY BitsAre
<1>2. CASE Number2(t, slot) >= 0
  BY <1>2, NumberIs
<1>3. CASE Number2(t, slot) < 0
  <2>1. Popped(t, slot) = Uintmax + Number2(t, slot) /\ Number2(t, slot) \in Int
    BY <1>3, NumberIs
  <2>2. Popped(t, slot) % Pow2[Bits["char"]] = Number2(t, slot) % Pow2[Bits["char"]]
    BY <1>1, <2>1, SameBelow
  <2> QED BY <2>2 DEF Char
<1> QED BY <1>2, <1>3, NumberIs

LEMMA IntMaxIs == IntMax \in Nat /\ Pow2[Bits["int"]] = 2 * (IntMax + 1)
<1> DEFINE b == Bits["int"]
<1>1. b \in 1 .. Bits["long"] /\ Bits["long"] \in Nat
  BY BitsAre
<1>2. b \in 0 .. Bits["long"] /\ b - 1 \in 0 .. Bits["long"] /\ b # 0 /\ Bits["long"] \in b - 1 .. Bits["long"]
  BY <1>1
<1> HIDE DEF b
<1>3. Pow2[b] = 2 * Pow2[b - 1] /\ Pow2[b - 1] \in Nat \ {0}
  BY <1>2, Pow2Is, Pow2Divides
<1> QED BY <1>3 DEF IntMax, b

LEMMA IntIs ==
  ASSUME NEW slot \in Value
  PROVE  /\ AsInt(slot) = Number2(CInt, slot) /\ AsInt(Popped(CInt, slot)) = Number2(CInt, slot)
         /\ Number2(CInt, slot) \in - IntMax - 1 .. IntMax
<1> DEFINE p == Pow2[Bits["int"]]
<1>1. Bits["int"] \in 0 .. Bits["long"] /\ IntMax \in Nat /\ p = 2 * (IntMax + 1) /\ p \in Nat \ {0}
  BY BitsAre, IntMaxIs
<1>2. /\ slot \in Int /\ Popped(CInt, slot) \in Int
      /\ Number2(CInt, slot) \in Int
      /\ Number2(CInt, slot) >= 0 => Popped(CInt, slot) = Number2(CInt, slot)
      /\ Number2(CInt, slot) < 0 => Popped(CInt, slot) = Uintmax + Number2(CInt, slot)
  <2>1. Uintmax \in Nat
    BY CIntTyped, NumberIs
  <2> QED BY <2>1, CIntTyped, NumberIs DEF Value
<1>3. PICK low \in 0 .. p - 1 : low = slot % p
  BY <1>1, <1>2, ModRange
<1>4. Number2(CInt, slot) = IF low >= IntMax + 1 THEN low - p ELSE low
  <2>1. IntMax + 1 = Pow2[Bits["int"] - 1]
    <3>1. Bits["int"] - 1 \in 0 .. Bits["long"]
      BY BitsAre
    <3>2. Pow2[Bits["int"] - 1] \in Nat
      BY <3>1, Pow2Is
    <3> QED BY <3>2 DEF IntMax
  <2> QED BY <1>3, <2>1, CIntTyped DEF Number2
<1>5. AsInt(slot) = Number2(CInt, slot)
  BY <1>1, <1>3, <1>4 DEF AsInt
<1>6. Popped(CInt, slot) % p = low
  <2>1. PICK n \in Int : n = Number2(CInt, slot)
    BY <1>2
  <2>2. n % p = low
    <3>1. CASE low >= IntMax + 1
      <4>1. n = (-1) * p + low
        BY <1>1, <1>3, <1>4, <2>1, <3>1
      <4>2. ((-1) * p + low) % p = low
        BY <1>1, ModIs
      <4> QED BY <4>1, <4>2
    <3>2. CASE ~ (low >= IntMax + 1)
      <4>1. n = 0 * p + low
        BY <1>1, <1>3, <1>4, <2>1, <3>2
      <4>2. (0 * p + low) % p = low
        BY <1>1, ModIs
      <4> QED BY <4>1, <4>2
    <3> QED BY <3>1, <3>2
  <2>3. CASE n >= 0
    BY <1>2, <2>1, <2>2, <2>3
  <2>4. CASE n < 0
    <3>1. Popped(CInt, slot) = Uintmax + n
      BY <1>2, <2>1, <2>4
    <3>2. Popped(CInt, slot) % p = n % p
      BY <1>1, <3>1, SameBelow
    <3> QED BY <2>2, <3>2
  <2> QED BY <2>1, <2>3, <2>4
<1>7. AsInt(Popped(CInt, slot)) = Number2(CInt, slot)
  BY <1>1, <1>4, <1>6 DEF AsInt
<1>8. Number2(CInt, slot) \in - IntMax - 1 .. IntMax
  BY <1>1, <1>3, <1>4
<1> QED BY <1>5, <1>7, <1>8
-----------------------------------------------------------------------------
(* Text *)
TextChars == Characters \cup {"NUL"}

LEMMA SymbolsAre ==
  /\ \A i \in 1 .. 16 : Lower[i] \in Characters /\ Upper[i] \in Characters
  /\ \A i \in 2 .. 16 : Lower[i] # "0" /\ Upper[i] # "0"
  /\ {"0", " ", "+", "-", "x", "X", "(", "n", "u", "l", ")"} \subseteq Characters
  /\ "NUL" \notin Characters
<1>1. \A i \in 1 .. 16 : Lower[i] \in Symbols /\ Upper[i] \in Symbols
  BY DEF Symbols
<1>2. \A i \in 2 .. 16 : Lower[i] # "0" /\ Upper[i] # "0"
  BY DEF Lower, Upper
<1>3. Symbols \subseteq Characters /\ "NUL" \notin Characters
  BY PrintfAssumption
<1>4. Lower[1] = "0"
  BY DEF Lower
<1>5. {" ", "+", "-", "x", "X", "(", "n", "u", "l", ")"} \subseteq Symbols
  BY DEF Symbols
<1>6. "0" \in Symbols
  BY <1>1, <1>4
<1> QED BY <1>1, <1>2, <1>3, <1>5, <1>6

LEMMA RunIs ==
  ASSUME NEW S, NEW c \in S, NEW n \in Int
  PROVE  /\ Run(c, n) \in Seq(S) /\ Len(Run(c, n)) = Larger(0, n) /\ \A i \in 1 .. n : Run(c, n)[i] = c
         /\ n <= 0 => Run(c, n) = <<>>
<1> DEFINE m == Larger(0, n)
<1>1. m \in Nat /\ 1 .. n = 1 .. m
  BY DEF Larger
<1>2. Run(c, n) = [i \in 1 .. m |-> c]
  BY <1>1 DEF Run
<1>3. [i \in 1 .. m |-> c] \in Seq(S) /\ Len([i \in 1 .. m |-> c]) = m
  BY <1>1
<1>4. n <= 0 => Run(c, n) = <<>>
  <2>1. n <= 0 => m = 0
    BY DEF Larger
  <2> QED BY <1>2, <1>3, <2>1, EmptySeq
<1> QED BY <1>1, <1>2, <1>3, <1>4

LEMMA DividedIs ==
  ASSUME NEW b \in {8, 10, 16}, NEW x \in Nat \ {0}
  PROVE  x \div b \in Nat /\ x \div b < x /\ x % b \in 0 .. b - 1 /\ (x \div b = 0 => x % b = x)
<1>1. CASE b = 8
  BY <1>1
<1>2. CASE b = 10
  BY <1>2
<1>3. CASE b = 16
  BY <1>3
<1> QED BY <1>1, <1>2, <1>3

\* The digits of a number are characters; of zero there are none, and of any
\* other the first one is not zero.
LEMMA DigitsAre ==
  ASSUME NEW conv, NEW x \in Value
  PROVE  /\ Digits(conv)[x] \in Seq(Characters)
         /\ x = 0 => Digits(conv)[x] = <<>>
         /\ x # 0 => Len(Digits(conv)[x]) >= 1 /\ Digits(conv)[x][1] # "0"
<1> DEFINE b == BaseOf(conv)
           S == Seq(Characters)
           glyph == IF conv = "X" THEN Upper ELSE Lower
           N == Uintmax - 1
           Eq(f) == f = [y \in Value |-> IF y = 0 THEN <<>> ELSE Append(f[y \div b], glyph[1 + (y % b)])]
           J == [y \in 1 .. N |-> y \div b]
           G == [t \in (1 .. N) \X S |-> Append(t[2], glyph[1 + (t[1] % b)])]
<1>1. N \in Nat /\ Value = 0 .. N
  <2>1. Bits["long"] \in 0 .. Bits["long"]
    BY BitsAre
  <2>2. Uintmax \in Nat \ {0}
    BY <2>1, Pow2Divides, BitsAre DEF Uintmax
  <2> QED BY <2>2 DEF Value
<1>2. b \in {8, 10, 16}
  BY DEF BaseOf
<1>3. \A i \in 1 .. 16 : glyph[i] \in Characters /\ (i # 1 => glyph[i] # "0")
  <2>1. \A i \in 1 .. 16 : i # 1 => i \in 2 .. 16
    OBVIOUS
  <2> QED BY <2>1, SymbolsAre
<1> HIDE DEF b, glyph, N
<1>4. \A y \in 1 .. N : y \div b \in 0 .. N /\ y \div b < y /\ 1 + (y % b) \in 1 .. 16 /\ (y \div b = 0 => y % b = y)
  <2> SUFFICES ASSUME NEW y \in 1 .. N
               PROVE  y \div b \in 0 .. N /\ y \div b < y /\ 1 + (y % b) \in 1 .. 16 /\ (y \div b = 0 => y % b = y)
    OBVIOUS
  <2>1. y \in Nat \ {0} /\ y <= N
    BY <1>1
  <2>2. y \div b \in Nat /\ y \div b < y /\ y % b \in 0 .. b - 1 /\ (y \div b = 0 => y % b = y)
    BY <1>2, <2>1, DividedIs
  <2>3. PICK q \in Nat, r \in 0 .. b - 1 : q = y \div b /\ r = y % b
    BY <2>2
  <2>4. q \in 0 .. N /\ 1 + r \in 1 .. 16
    BY <1>1, <1>2, <2>1, <2>2, <2>3
  <2> QED BY <2>2, <2>3, <2>4
<1>5. PICK f \in [0 .. N -> S] : \A i \in 0 .. N : f[i] = IF i = 0 THEN <<>> ELSE G[<<i, f[J[i]]>>]
  <2>1. J \in [1 .. N -> 0 .. N] /\ \A i \in 1 .. N : J[i] < i
    BY <1>4
  <2>2. G \in [(1 .. N) \X S -> S] /\ <<>> \in S
    <3>1. <<>> \in S
      BY EmptySeq
    <3>2. ASSUME NEW t \in (1 .. N) \X S PROVE Append(t[2], glyph[1 + (t[1] % b)]) \in S
      <4>1. t[1] \in 1 .. N /\ t[2] \in S
        OBVIOUS
      <4>2. 1 + (t[1] % b) \in 1 .. 16
        BY <1>4, <4>1
      <4>3. glyph[1 + (t[1] % b)] \in Characters
        BY <1>3, <4>2
      <4> QED BY <4>1, <4>3, AppendProperties
    <3> QED BY <3>1, <3>2
  <2> HIDE DEF J, G, S
  <2>3. Steps(N, S, <<>>, J, G)
    BY <1>1, <2>1, <2>2, FromBefore
  <2> QED BY <2>3, Zenon DEF Steps
<1>6. ASSUME NEW i \in 0 .. N PROVE f[i] = IF i = 0 THEN <<>> ELSE Append(f[i \div b], glyph[1 + (i % b)])
  <2>1. i # 0 => i \in 1 .. N /\ i \div b \in 0 .. N
    BY <1>1, <1>4
  <2>2. i # 0 => J[i] = i \div b /\ <<i, f[i \div b]>> \in (1 .. N) \X S
    BY <2>1, <1>5
  <2>3. i # 0 => G[<<i, f[i \div b]>>] = Append(f[i \div b], glyph[1 + (i % b)])
    BY <2>2
  <2> HIDE DEF J, G, S
  <2> QED BY <1>5, <2>2, <2>3
<1>7. Eq(f)
  BY <1>1, <1>5, <1>6
<1>8. Digits(conv) = CHOOSE h : Eq(h)
  BY Zenon DEF Digits, b, glyph
<1>9. Eq(Digits(conv))
  <2> HIDE DEF Eq
  <2> QED BY <1>7, <1>8, Zenon
<1> DEFINE D == Digits(conv)
<1>10. /\ D = [y \in 0 .. N |-> D[y]]
       /\ \A y \in 0 .. N : D[y] = IF y = 0 THEN <<>> ELSE Append(D[y \div b], glyph[1 + (y % b)])
  BY <1>1, <1>9
<1> HIDE DEF D
<1> DEFINE Fine(y) == D[y] \in S /\ (y # 0 => Len(D[y]) >= 1 /\ D[y][1] # "0")
           Bad == {y \in 0 .. N : ~ Fine(y)}
<1>11. Bad = {}
  <2>1. SUFFICES ASSUME Bad # {} PROVE FALSE
    OBVIOUS
  <2>2. PICK y \in Bad : \A z \in Bad : y <= z
    <3>1. Bad \in SUBSET (0 .. N)
      OBVIOUS
    <3> HIDE DEF Bad
    <3> QED BY <1>1, <2>1, <3>1, LeastElement
  <2>3. y \in 0 .. N /\ ~ Fine(y)
    BY <2>2
  <2>4. CASE y = 0
    BY <1>10, <2>3, <2>4, EmptySeq
  <2>5. CASE y # 0
    <3>1. PICK q \in 0 .. N, g \in Characters : q = y \div b /\ g = glyph[1 + (y % b)] /\ q < y /\ (q = 0 => g # "0")
      <4>1. y \in 1 .. N
        BY <1>1, <2>3, <2>5
      <4>2. y \div b \in 0 .. N /\ y \div b < y /\ 1 + (y % b) \in 1 .. 16 /\ (y \div b = 0 => y % b = y)
        BY <1>4, <4>1
      <4>3. y \div b = 0 => 1 + (y % b) # 1
        BY <4>1, <4>2
      <4> QED BY <1>3, <4>2, <4>3
    <3>2. Fine(q)
      <4> HIDE DEF Fine
      <4> QED BY <1>1, <2>2, <2>3, <3>1
    <3>3. D[y] = Append(D[q], g)
      BY <1>10, <2>3, <2>5, <3>1
    <3>4. PICK s \in Seq(Characters) : s = D[q] /\ (q # 0 => Len(s) >= 1 /\ s[1] # "0") /\ (q = 0 => s = <<>>)
      BY <1>10, <3>1, <3>2
    <3>5. /\ Append(s, g) \in Seq(Characters) /\ Len(Append(s, g)) = Len(s) + 1
          /\ \A i \in 1 .. Len(s) : Append(s, g)[i] = s[i] 
          /\ Append(s, g)[Len(s) + 1] = g /\ Len(s) \in Nat
      BY AppendProperties, LenProperties
    <3>6. Append(s, g)[1] # "0"
      <4>1. CASE q = 0
        <5>1. Len(s) = 0
          BY <3>4, <4>1, EmptySeq
        <5> QED BY <3>1, <3>5, <4>1, <5>1
      <4>2. CASE q # 0
        BY <3>4, <3>5, <4>2
      <4> QED BY <4>1, <4>2
    <3>7. Len(s) + 1 >= 1
      BY <3>5
    <3> QED BY <2>3, <3>3, <3>4, <3>5, <3>6, <3>7
  <2> QED BY <2>4, <2>5
<1>12. Fine(x) /\ (x = 0 => D[x] = <<>>)
  BY <1>1, <1>10, <1>11
<1> QED BY <1>12 DEF D
-----------------------------------------------------------------------------
(* The sinks *)
Writable(s) == s \in Seq(Characters) \/ s = <<"NUL">>

LEMMA WritableIs ==
  ASSUME NEW s, Writable(s)
  PROVE  s \in Seq(TextChars) /\ Len(s) \in Nat
<1>1. CASE s \in Seq(Characters)
  <2>1. s \in Seq(TextChars)
    BY <1>1, SeqMonotonic DEF TextChars
  <2> QED BY <2>1, LenProperties
<1>2. CASE s = <<"NUL">>
  <2>1. <<"NUL">> \in Seq(TextChars)
    BY DEF TextChars
  <2> QED BY <1>2, <2>1, LenProperties
<1> QED BY <1>1, <1>2 DEF Writable

LEMMA BeforeNulIs ==
  ASSUME NEW s, Writable(s)
  PROVE  BeforeNul(s) = IF s = <<"NUL">> THEN <<>> ELSE s
<1> DEFINE P(k) == (k > Len(s) \/ s[k] = "NUL") /\ \A i \in 1 .. k - 1 : s[i] # "NUL"
<1>1. CASE s = <<"NUL">>
  <2>1. Len(s) = 1 /\ s[1] = "NUL"
    BY <1>1
  <2>2. \A k \in 1 .. Len(s) + 1 : P(k) <=> k = 1
    <3>1. 1 .. Len(s) + 1 = {1, 2}
      BY <2>1
    <3>2. P(1)
      BY <2>1
    <3>3. ~ P(2)
      BY <2>1
    <3> QED BY <3>1, <3>2, <3>3
  <2>3. (CHOOSE k \in 1 .. Len(s) + 1 : P(k)) = 1
    BY <2>1, <2>2
  <2>4. BeforeNul(s) = SubSeq(s, 1, 1 - 1)
    BY <2>3 DEF BeforeNul
  <2>5. SubSeq(s, 1, 1 - 1) = <<>>
    BY SubSeqEmpty
  <2> QED BY <1>1, <2>4, <2>5
<1>2. CASE s # <<"NUL">>
  <2>1. s \in Seq(Characters) /\ Len(s) \in Nat
    BY <1>2, WritableIs DEF Writable
  <2>2. \A i \in 1 .. Len(s) : s[i] # "NUL"
    BY <2>1, ElementOfSeq, SymbolsAre
  <2>3. \A k \in 1 .. Len(s) + 1 : P(k) <=> k = Len(s) + 1
    BY <2>1, <2>2
  <2>4. PICK k : k = CHOOSE i \in 1 .. Len(s) + 1 : P(i)
    OBVIOUS
  <2>5. BeforeNul(s) = SubSeq(s, 1, Len(s) + 1 - 1)
    <3>1. BeforeNul(s) = SubSeq(s, 1, k - 1)
      BY <2>4 DEF BeforeNul
    <3>2. Len(s) + 1 \in 1 .. Len(s) + 1
      BY <2>1
    <3> HIDE DEF P
    <3>3. k = Len(s) + 1
      BY <2>3, <2>4, <3>2
    <3> QED BY <3>1, <3>3
  <2>6. Len(s) + 1 - 1 = Len(s)
    BY <2>1
  <2> QED BY <1>2, <2>1, <2>5, <2>6, SubSeqFull
<1> QED BY <1>1, <1>2

\* What the console shows of t, and what a sink is when it was given t.
Shows(t, m) ==
  /\ m \in Seq(TextChars) /\ Len(m) = Cardinality(Visible(t, Len(t)))
  /\ \A i \in Visible(t, Len(t)) : m[Cardinality(Visible(t, i))] = t[i]
Held(t, m) ==
  /\ t \in Seq(TextChars)
  /\ sink.kind = "string" =>
       /\ m = [k \in 0 .. sink.size |-> m[k]]
       /\ \A k \in 0 .. sink.size : m[k] = IF k < Smaller(Len(t), Larger(0, sink.size - 1)) THEN t[k + 1] ELSE "old"
  /\ sink.kind = "console" => Shows(t, m)
  /\ sink.kind = "stdout" => m = t

LEMMA VisibleIs ==
  ASSUME NEW t, NEW n \in Nat
  PROVE  IsFiniteSet(Visible(t, n)) /\ Cardinality(Visible(t, n)) \in 0 .. n
<1>1. IsFiniteSet(1 .. n) /\ Cardinality(1 .. n) = n
  BY FS_Interval
<1>2. Visible(t, n) \in SUBSET (1 .. n)
  BY DEF Visible
<1>3. IsFiniteSet(Visible(t, n)) /\ Cardinality(Visible(t, n)) <= n
  BY <1>1, <1>2, FS_Subset
<1> QED BY <1>3, FS_CardinalityType

\* The console after one more call: characters that are not NUL come behind.
LEMMA ConsoleHolds ==
  ASSUME NEW t \in Seq(TextChars), NEW m, Shows(t, m), NEW s, Writable(s)
  PROVE  Shows(t \o s, m \o BeforeNul(s))
<1>0. PICK u, r : u = t \o s /\ r = m \o BeforeNul(s)
  OBVIOUS
<1>1. PICK n \in Nat, l \in Nat : n = Len(t) /\ l = Len(s) /\ s \in Seq(TextChars)
  BY WritableIs, LenProperties
<1>2. u \in Seq(TextChars) /\ Len(u) = n + l /\ \A i \in 1 .. n + l : u[i] = IF i <= n THEN t[i] ELSE s[i - n]
  BY <1>0, <1>1, ConcatProperties
<1>3. \A i \in 0 .. n : Visible(u, i) = Visible(t, i)
  BY <1>2 DEF Visible
<1>4. PICK c \in 0 .. n : c = Cardinality(Visible(t, n)) /\ IsFiniteSet(Visible(t, n)) /\ Len(m) = c /\ m \in Seq(TextChars)
  BY <1>1, VisibleIs DEF Shows
<1>5. \A i \in Visible(t, n) : Cardinality(Visible(t, i)) \in 1 .. c
  <2> SUFFICES ASSUME NEW i \in Visible(t, n) PROVE Cardinality(Visible(t, i)) \in 1 .. c
    OBVIOUS
  <2>1. i \in 1 .. n /\ i \in Nat /\ i \in Visible(t, i) /\ Visible(t, i) \in SUBSET Visible(t, n)
    BY DEF Visible
  <2>2. Cardinality(Visible(t, i)) <= c
    BY <1>4, <2>1, FS_Subset
  <2>3. IsFiniteSet(Visible(t, i)) /\ Cardinality(Visible(t, i)) \in Nat
    BY <2>1, VisibleIs
  <2>4. Cardinality(Visible(t, i)) # 0
    BY <2>1, <2>3, FS_EmptySet
  <2> QED BY <1>4, <2>2, <2>3, <2>4
<1>6. CASE s = <<"NUL">>
  <2>1. l = 1 /\ s[1] = "NUL"
    BY <1>1, <1>6
  <2>2. u[n + 1] = "NUL"
    <3>1. n + 1 \in 1 .. n + l /\ ~ (n + 1 <= n) /\ n + 1 - n = 1
      BY <2>1
    <3>2. u[n + 1] = s[n + 1 - n]
      BY <1>2, <3>1
    <3> QED BY <2>1, <3>1, <3>2
  <2>3. Visible(u, n + 1) = Visible(u, n)
    <3>1. 1 .. n + 1 = (1 .. n) \cup {n + 1}
      OBVIOUS
    <3> QED BY <2>2, <3>1 DEF Visible
  <2>4. r = m
    BY <1>0, <1>4, <1>6, BeforeNulIs, ConcatEmptySeq
  <2>5. Visible(u, Len(u)) = Visible(t, n)
    BY <1>2, <1>3, <2>1, <2>3
  <2>6. ASSUME NEW i \in Visible(t, n) PROVE r[Cardinality(Visible(u, i))] = u[i]
    <3>1. i \in 1 .. n /\ i \in 0 .. n /\ i \in 1 .. n + l
      BY DEF Visible
    <3>2. Visible(u, i) = Visible(t, i) /\ u[i] = t[i]
      BY <1>2, <1>3, <3>1
    <3>3. m[Cardinality(Visible(t, i))] = t[i]
      BY <1>1 DEF Shows
    <3> QED BY <2>4, <3>2, <3>3
  <2> QED BY <1>0, <1>4, <2>4, <2>5, <2>6 DEF Shows
<1>7. CASE s # <<"NUL">>
  <2>1. s \in Seq(Characters) /\ \A j \in 1 .. l : s[j] # "NUL"
    BY <1>1, <1>7, ElementOfSeq, SymbolsAre DEF Writable
  <2>2. r = m \o s
    BY <1>0, <1>7, BeforeNulIs
  <2>3. r \in Seq(TextChars) /\ Len(r) = c + l /\ \A i \in 1 .. c + l : r[i] = IF i <= c THEN m[i] ELSE s[i - c]
    BY <1>1, <1>4, <2>2, ConcatProperties
  <2>4. ASSUME NEW j \in 0 .. l PROVE Cardinality(Visible(u, n + j)) = c + j
    <3>1. Visible(u, n + j) = Visible(t, n) \cup (n + 1 .. n + j)
      <4>1. \A i \in n + 1 .. n + j : u[i] # "NUL" /\ i \in 1 .. n + j
        <5> SUFFICES ASSUME NEW i \in n + 1 .. n + j PROVE u[i] # "NUL" /\ i \in 1 .. n + j
          OBVIOUS
        <5>1. i \in 1 .. n + l /\ ~ (i <= n) /\ i - n \in 1 .. l /\ i \in 1 .. n + j
          OBVIOUS
        <5> QED BY <1>2, <2>1, <5>1
      <4>2. \A i \in 1 .. n : u[i] = t[i] /\ i \in 1 .. n + j
        BY <1>2
      <4>3. \A i \in 1 .. n + j : i \in 1 .. n \/ i \in n + 1 .. n + j
        OBVIOUS
      <4>4. \A i : i \in Visible(u, n + j) <=> i \in Visible(t, n) \/ i \in n + 1 .. n + j
        BY <4>1, <4>2, <4>3 DEF Visible
      <4> QED BY <4>4
    <3>2. IsFiniteSet(n + 1 .. n + j) /\ Cardinality(n + 1 .. n + j) = j
      <4>1. PICK a \in Int, e \in Int : a = n + 1 /\ e = n + j
        OBVIOUS
      <4>2. IsFiniteSet(a .. e) /\ Cardinality(a .. e) = IF a > e THEN 0 ELSE e - a + 1
        BY FS_Interval
      <4>3. (IF a > e THEN 0 ELSE e - a + 1) = j
        BY <4>1
      <4> QED BY <4>1, <4>2, <4>3
    <3>3. Visible(t, n) \cap (n + 1 .. n + j) = {}
      BY DEF Visible
    <3>4. Cardinality(Visible(t, n) \cup (n + 1 .. n + j)) = c + j - 0
      <4>1. PICK A : A = n + 1 .. n + j
        OBVIOUS
      <4>2. IsFiniteSet(A) /\ Cardinality(A) = j /\ Visible(t, n) \cap A = {}
        BY <3>2, <3>3, <4>1
      <4>3. Cardinality(Visible(t, n) \cup A) = Cardinality(Visible(t, n)) + Cardinality(A) - Cardinality(Visible(t, n) \cap A)
        BY <1>4, <4>2, FS_Union
      <4> QED BY <1>4, <4>1, <4>2, <4>3, FS_EmptySet
    <3>5. c + j - 0 = c + j
      OBVIOUS
    <3> QED BY <3>1, <3>4, <3>5
  <2>5. Len(r) = Cardinality(Visible(u, Len(u)))
    <3>1. l \in 0 .. l
      OBVIOUS
    <3> QED BY <1>2, <2>3, <2>4, <3>1
  <2>6. ASSUME NEW i \in Visible(u, Len(u)) PROVE r[Cardinality(Visible(u, i))] = u[i]
    <3>1. i \in 1 .. n + l /\ u[i] # "NUL"
      BY <1>2 DEF Visible
    <3>2. CASE i <= n
      <4>1. i \in 0 .. n /\ u[i] = t[i] /\ i \in Visible(t, n)
        BY <1>2, <3>1, <3>2 DEF Visible
      <4>2. Cardinality(Visible(u, i)) \in 1 .. c /\ Cardinality(Visible(u, i)) = Cardinality(Visible(t, i))
        BY <1>3, <1>5, <4>1
      <4>3. PICK k \in 1 .. c : k = Cardinality(Visible(u, i)) /\ k \in 1 .. c + l /\ k <= c
        BY <4>2
      <4>4. r[k] = m[k]
        BY <2>3, <4>3
      <4>5. m[Cardinality(Visible(t, i))] = t[i]
        BY <1>1, <4>1 DEF Shows
      <4> QED BY <4>1, <4>2, <4>3, <4>4, <4>5
    <3>3. CASE ~ (i <= n)
      <4>1. PICK j \in 1 .. l : i = n + j
        <5>1. i - n \in 1 .. l /\ i = n + (i - n)
          BY <3>1, <3>3
        <5> QED BY <5>1
      <4>2. Cardinality(Visible(u, i)) = c + j
        BY <2>4, <4>1
      <4>3. r[c + j] = s[j]
        <5>1. c + j \in 1 .. c + l /\ ~ (c + j <= c) /\ c + j - c = j
          OBVIOUS
        <5> QED BY <2>3, <5>1
      <4>4. u[i] = s[j]
        <5>1. i - n = j
          BY <4>1
        <5> QED BY <1>2, <3>1, <3>3, <5>1
      <4> QED BY <4>2, <4>3, <4>4
    <3> QED BY <3>2, <3>3
  <2> QED BY <1>0, <2>3, <2>5, <2>6 DEF Shows
<1> QED BY <1>6, <1>7

\* One call of out.
LEMMA PutHolds ==
  ASSUME NEW acc, Held(acc.text, acc.cells), NEW s, Writable(s),
         sink \in [kind : {"string", "console", "stdout"}, size : Nat]
  PROVE  /\ Held(Put(acc, s).text, Put(acc, s).cells)
         /\ Put(acc, s).text = acc.text \o s
<1> DEFINE t == acc.text
           m == acc.cells
           u == t \o s
           r == Stored(m, Len(t), s)
<1>1. PICK n \in Nat, l \in Nat : n = Len(t) /\ l = Len(s) /\ s \in Seq(TextChars) /\ t \in Seq(TextChars)
  <2>1. t \in Seq(TextChars)
    BY DEF Held
  <2> QED BY <2>1, WritableIs, LenProperties
<1>2. u \in Seq(TextChars) /\ Len(u) = n + l /\ \A i \in 1 .. n + l : u[i] = IF i <= n THEN t[i] ELSE s[i - n]
  BY <1>1, ConcatProperties
<1>3. Put(acc, s).text = u /\ Put(acc, s).cells = r
  BY DEF Put
<1>4. CASE sink.kind = "console"
  <2>1. r = m \o BeforeNul(s)
    BY <1>4 DEF Stored, SbiWrite
  <2>2. Shows(t, m)
    BY <1>4 DEF Held
  <2> HIDE DEF t, m
  <2>3. Shows(t \o s, m \o BeforeNul(s))
    BY <1>1, <2>2, ConsoleHolds
  <2> HIDE DEF r
  <2>4. Shows(u, r)
    BY <2>1, <2>3
  <2> HIDE DEF u
  <2>5. Held(u, r)
    BY <1>2, <1>4, <2>4 DEF Held
  <2> QED BY <1>3, <2>5, Zenon DEF u, t
<1>5. CASE sink.kind = "stdout"
  <2>1. r = u
    BY <1>5 DEF Stored, SyscallWrite, Held
  <2> HIDE DEF u, r
  <2>2. Held(u, r)
    BY <1>2, <1>5, <2>1 DEF Held
  <2> QED BY <1>3, <2>2 DEF u
<1>6. CASE sink.kind = "string"
  <2>1. PICK z \in Nat : z = sink.size
    OBVIOUS
  <2>2. /\ m = [k \in 0 .. z |-> m[k]]
        /\ \A k \in 0 .. z : m[k] = IF k < Smaller(n, Larger(0, z - 1)) THEN t[k + 1] ELSE "old"
    BY <1>1, <1>6, <2>1 DEF Held
  <2>3. r = [k \in DOMAIN m |-> IF k >= n /\ k < n + Smaller(Room(n), l) THEN s[k - n + 1] ELSE m[k]]
    BY <1>1, <1>6 DEF Stored, StrWrite
  <2>4. DOMAIN m = 0 .. z
    BY <2>2
  <2>5. r = [k \in 0 .. z |-> r[k]]
    BY <2>3, <2>4
  <2>6. Room(n) = IF n < z THEN z - n - 1 ELSE 0
    BY <2>1 DEF Room
  <2>7. ASSUME NEW k \in 0 .. z PROVE r[k] = IF k < Smaller(n + l, Larger(0, z - 1)) THEN u[k + 1] ELSE "old"
    <3>1. r[k] = IF k >= n /\ k < n + Smaller(Room(n), l) THEN s[k - n + 1] ELSE m[k]
      BY <2>3, <2>4
    <3>2. CASE k >= n /\ k < n + Smaller(Room(n), l)
      <4>1. k < Smaller(n + l, Larger(0, z - 1)) /\ k + 1 \in 1 .. n + l /\ ~ (k + 1 <= n) /\ k + 1 - n = k - n + 1
        BY <2>6, <3>2 DEF Smaller, Larger
      <4>2. u[k + 1] = s[k + 1 - n]
        <5> HIDE DEF u
        <5> QED BY <1>2, <4>1
      <4> QED BY <3>1, <3>2, <4>1, <4>2
    <3>3. CASE ~ (k >= n /\ k < n + Smaller(Room(n), l))
      <4>1. r[k] = IF k < Smaller(n, Larger(0, z - 1)) THEN t[k + 1] ELSE "old"
        BY <2>2, <3>1, <3>3
      <4>2. CASE k < n
        <5>1. k + 1 \in 1 .. n + l /\ k + 1 <= n
          BY <4>2
        <5>2. u[k + 1] = t[k + 1]
          BY <1>2, <5>1
        <5>3. k < Smaller(n, Larger(0, z - 1)) <=> k < Smaller(n + l, Larger(0, z - 1))
          BY <4>2 DEF Smaller, Larger
        <5> QED BY <4>1, <5>2, <5>3
      <4>3. CASE ~ (k < n)
        <5>1. ~ (k < Smaller(n, Larger(0, z - 1))) /\ ~ (k < Smaller(n + l, Larger(0, z - 1)))
          BY <2>6, <3>3, <4>3 DEF Smaller, Larger
        <5> QED BY <4>1, <5>1
      <4> QED BY <4>2, <4>3
    <3> QED BY <3>2, <3>3
  <2> HIDE DEF t, m, u, r
  <2>8. Held(u, r)
    BY <1>2, <1>6, <2>1, <2>5, <2>7 DEF Held
  <2> QED BY <1>3, <2>8 DEF u, t
<1> QED BY <1>4, <1>5, <1>6
-----------------------------------------------------------------------------
(* Conversions *)
LEMMA UintmaxIs ==
  /\ Uintmax \in Nat \ {0} /\ Value = 0 .. Uintmax - 1
  /\ \E half \in Nat \ {0} : half = Uintmax \div 2 /\ Uintmax = 2 * half
<1> DEFINE N == Bits["long"]
<1>1. N \in 0 .. N /\ N - 1 \in 0 .. N /\ N # 0 /\ N \in N - 1 .. N
  BY BitsAre
<1>2. PICK g \in Nat \ {0} : Pow2[N - 1] = g
  BY <1>1, Pow2Divides
<1>3. Uintmax = 2 * g
  BY <1>1, <1>2, Pow2Is DEF Uintmax
<1>4. (2 * g) \div 2 = g /\ 2 * g \in Nat \ {0}
  OBVIOUS
<1> QED BY <1>3, <1>4 DEF Value

LEMMA CharIs ==
  ASSUME NEW v \in Int
  PROVE  Writable(<<Char(v)>>)
<1>1. PICK p \in Nat \ {0} : p = Pow2[Bits["char"]]
  <2>1. Bits["char"] \in 0 .. Bits["long"]
    BY BitsAre
  <2> QED BY <2>1, Pow2Divides
<1>2. v % p \in 0 .. p - 1
  BY ModRange
<1>3. CASE v % p = 0
  <2>1. Char(v) = "NUL"
    BY <1>1, <1>3 DEF Char
  <2> QED BY <2>1 DEF Writable
<1>4. CASE v % p # 0
  <2>1. v % p \in 1 .. p - 1
    BY <1>2, <1>4
  <2>2. Glyphs \in [1 .. p - 1 -> Characters]
    BY <1>1, PrintfAssumption
  <2>3. Char(v) = Glyphs[v % p]
    BY <1>1, <1>4 DEF Char
  <2>4. Char(v) \in Characters
    BY <2>1, <2>2, <2>3
  <2> QED BY <2>4 DEF Writable
<1> QED BY <1>3, <1>4

LEMMA StringIs ==
  ASSUME NEW v \in Value
  PROVE  StringAt(v) \in Seq(Characters) /\ Len(StringAt(v)) \in Nat
<1>1. CASE v = 0
  <2>1. {"(", "n", "u", "l", ")"} \subseteq Characters
    BY SymbolsAre
  <2>2. <<"(", "n", "u", "l", "l", ")">> \in Seq(Characters)
    BY <2>1
  <2> QED BY <1>1, <2>2, LenProperties DEF StringAt
<1>2. CASE v # 0
  <2>1. Texts \in [Value \ {0} -> Seq(Characters)]
    BY PrintfAssumption
  <2>2. Texts[v] \in Seq(Characters)
    BY <1>2, <2>1
  <2> QED BY <1>2, <2>2, LenProperties DEF StringAt
<1> QED BY <1>1, <1>2

\* The beginning of a string.
LEMMA BeginningIs ==
  ASSUME NEW S, NEW s \in Seq(S), NEW n \in 0 .. Len(s)
  PROVE  SubSeq(s, 1, n) \in Seq(S) /\ Len(SubSeq(s, 1, n)) = n
<1>1. Len(s) \in Nat /\ \A i \in 1 .. Len(s) : s[i] \in S
  BY LenProperties, ElementOfSeq
<1>2. n \in Int /\ 1 \in Int /\ \A i \in 1 .. n : s[i] \in S
  BY <1>1
<1>3. SubSeq(s, 1, n) \in Seq(S) /\ Len(SubSeq(s, 1, n)) = IF 1 <= n THEN n - 1 + 1 ELSE 0
  BY <1>2, SubSeqProperties
<1> QED BY <1>1, <1>3

\* A conversion's text, prefix and number of digits.
Fitting(b) == Writable(b.text) /\ b.prefix \in Seq(Characters) /\ b.p \in Int /\ b.p >= Len(b.text)

LEMMA NumberFits ==
  ASSUME NEW d, NEW v \in Value, NEW fl, NEW p \in Int, NEW xp
  PROVE  Fitting(Number(d, v, fl, p, xp))
<1> DEFINE x == IF d.conv \in {"d", "i"} /\ v >= Uintmax \div 2 THEN Uintmax - v ELSE v
           digits == Digits(d.conv)[x]
           p1 == Precision(d, p, fl, Len(digits))
           b == Number(d, v, fl, p, xp)
<1>1. x \in Value
  BY UintmaxIs
<1> HIDE DEF x
<1>2. digits \in Seq(Characters) /\ Len(digits) \in Nat
  BY <1>1, DigitsAre, LenProperties
<1> HIDE DEF digits
<1>3. p1 \in Int
  <2>1. PtrDigits \in Nat
    BY PrintfAssumption
  <2> QED BY <1>2, <2>1 DEF Precision, Larger
<1> HIDE DEF p1
<1>4. /\ b.text = digits
      /\ b.p = IF x = 0 /\ p1 = 0 THEN 0 ELSE Larger(p1, Len(digits) + (IF x = 0 THEN 1 ELSE 0))
      /\ b.prefix = CASE d.conv \in {"d", "i"} -> Sign(v, fl)
                      [] x # 0 /\ (d.conv = "p" \/ (d.conv \in {"x", "X"} /\ "#" \in fl)) -> <<"0", IF d.conv = "X" THEN "X" ELSE "x">>
                      [] OTHER -> <<>>
  BY DEF Number, x, digits, p1
<1> HIDE DEF b
<1>5. b.p \in Int /\ b.p >= Len(digits)
  <2>1. PICK l \in Nat, q \in Int : l = Len(digits) /\ q = p1
    BY <1>2, <1>3
  <2>2. x = 0 => l = 0
    BY <1>1, <2>1, DigitsAre, EmptySeq DEF digits
  <2> QED BY <1>4, <2>1, <2>2 DEF Larger
<1>6. \A c \in Characters : <<c>> \in Seq(Characters)
  OBVIOUS
<1>7. b.prefix \in Seq(Characters)
  <2>1. CASE d.conv \in {"d", "i"}
    <3>1. b.prefix = Sign(v, fl)
      BY <1>4, <2>1
    <3>2. Sign(v, fl) \in {<<"-">>, <<"+">>, <<" ">>, <<>>}
      BY DEF Sign
    <3>3. <<"-">> \in Seq(Characters) /\ <<"+">> \in Seq(Characters) /\ <<" ">> \in Seq(Characters) /\ <<>> \in Seq(Characters)
      BY <1>6, SymbolsAre, EmptySeq
    <3> QED BY <3>1, <3>2, <3>3
  <2>2. CASE d.conv \notin {"d", "i"}
    <3>1. b.prefix \in {<<"0", "X">>, <<"0", "x">>, <<>>}
      BY <1>4, <2>2
    <3>2. <<"0", "X">> \in Seq(Characters) /\ <<"0", "x">> \in Seq(Characters) /\ <<>> \in Seq(Characters)
      <4>1. {"0", "X", "x"} \subseteq Characters
        BY SymbolsAre
      <4> QED BY <4>1, EmptySeq
    <3> QED BY <3>1, <3>2
  <2> QED BY <2>1, <2>2
<1> QED BY <1>2, <1>4, <1>5, <1>7 DEF Fitting, Writable, b

LEMMA ConvertedFits ==
  ASSUME NEW d, NEW v \in Value, NEW fl, NEW p \in Int, NEW xp
  PROVE  Fitting(Converted(d, v, fl, p, xp))
<1>1. CASE d.conv = "c"
  <2>1. /\ Converted(d, v, fl, p, xp).text = <<Char(v)>> /\ Converted(d, v, fl, p, xp).prefix = <<>>
        /\ Converted(d, v, fl, p, xp).p = 1
    BY <1>1 DEF Converted, Character
  <2>2. v \in Int
    BY UintmaxIs
  <2>3. Len(<<Char(v)>>) = 1
    OBVIOUS
  <2> QED BY <2>1, <2>2, <2>3, CharIs, EmptySeq DEF Fitting
<1>2. CASE d.conv = "s"
  <2> DEFINE s == StringAt(v)
             n == Smaller(Len(s), IF p < 0 THEN IntMax ELSE p)
  <2>1. /\ Converted(d, v, fl, p, xp).text = SubSeq(s, 1, n) /\ Converted(d, v, fl, p, xp).prefix = <<>>
        /\ Converted(d, v, fl, p, xp).p = n
    BY <1>2 DEF Converted, String
  <2>2. s \in Seq(Characters) /\ Len(s) \in Nat
    BY StringIs
  <2>3. n \in 0 .. Len(s)
    BY <2>2, IntMaxIs DEF Smaller
  <2>4. SubSeq(s, 1, n) \in Seq(Characters) /\ Len(SubSeq(s, 1, n)) = n
    <3> HIDE DEF n, s
    <3> QED BY <2>2, <2>3, BeginningIs
  <2>5. n \in Int /\ n >= n
    BY <2>2, <2>3
  <2> HIDE DEF n, s
  <2> QED BY <2>1, <2>4, <2>5, EmptySeq DEF Fitting, Writable
<1>3. CASE d.conv \notin {"c", "s"}
  <2>1. Converted(d, v, fl, p, xp) = Number(d, v, fl, p, xp)
    BY <1>3 DEF Converted
  <2> QED BY <2>1, NumberFits
<1> QED BY <1>1, <1>2, <1>3

LEMMA PadIs ==
  ASSUME NEW c \in Characters, NEW w \in Int, NEW len \in Int, NEW fl
  PROVE  Writable(Pad(c, w, len, fl))
<1>1. CASE fl \cap {"-", "0"} # {} \/ len >= w
  <2>1. Pad(c, w, len, fl) = <<>>
    BY <1>1 DEF Pad
  <2> QED BY <2>1, EmptySeq DEF Writable
<1>2. CASE ~ (fl \cap {"-", "0"} # {} \/ len >= w)
  <2>1. Pad(c, w, len, fl) = Run(c, w - len) /\ w - len \in Int
    BY <1>2 DEF Pad
  <2> QED BY <2>1, RunIs DEF Writable
<1> QED BY <1>1, <1>2

\* The text of the six calls that print a field of width w.
Laid(b, w) ==
  LET len == Len(b.prefix) + b.p
  IN  ((((Pad(" ", w, len, b.fl) \o b.prefix) \o Pad("0", w, len, Toggled(b.fl, "0"))) \o Pad("0", b.p, Len(b.text), {})) \o b.text)
        \o Pad(" ", w, len, Toggled(b.fl, "-"))

OneBehind(S, t, s, p) == \E r \in Seq(S) : s \o p = r /\ (t \o s) \o p = t \o r
LEMMA OneMore ==
  ASSUME NEW S, NEW t \in Seq(S), NEW s \in Seq(S), NEW p \in Seq(S)
  PROVE  OneBehind(S, t, s, p)
<1>1. s \o p \in Seq(S)
  BY ConcatProperties
<1>2. (t \o s) \o p = t \o (s \o p)
  BY ConcatAssociative, SMTT(30)
<1> QED BY <1>1, <1>2, Zenon DEF OneBehind

AllBehind(S, t, p1, p2, p3, p4, p5, p6) ==
  \E r \in Seq(S) : /\ ((((p1 \o p2) \o p3) \o p4) \o p5) \o p6 = r
                    /\ (((((t \o p1) \o p2) \o p3) \o p4) \o p5) \o p6 = t \o r
LEMMA SixPieces ==
  ASSUME NEW S, NEW t \in Seq(S), NEW p1 \in Seq(S), NEW p2 \in Seq(S), NEW p3 \in Seq(S),
         NEW p4 \in Seq(S), NEW p5 \in Seq(S), NEW p6 \in Seq(S)
  PROVE  AllBehind(S, t, p1, p2, p3, p4, p5, p6)
<1>1. PICK s2 \in Seq(S) : p1 \o p2 = s2 /\ (t \o p1) \o p2 = t \o s2
  <2>1. OneBehind(S, t, p1, p2)
    BY OneMore
  <2> QED BY <2>1 DEF OneBehind
<1>2. PICK s3 \in Seq(S) : s2 \o p3 = s3 /\ (t \o s2) \o p3 = t \o s3
  <2>1. OneBehind(S, t, s2, p3)
    BY OneMore
  <2> QED BY <2>1 DEF OneBehind
<1>3. PICK s4 \in Seq(S) : s3 \o p4 = s4 /\ (t \o s3) \o p4 = t \o s4
  <2>1. OneBehind(S, t, s3, p4)
    BY OneMore
  <2> QED BY <2>1 DEF OneBehind
<1>4. PICK s5 \in Seq(S) : s4 \o p5 = s5 /\ (t \o s4) \o p5 = t \o s5
  <2>1. OneBehind(S, t, s4, p5)
    BY OneMore
  <2> QED BY <2>1 DEF OneBehind
<1>5. PICK s6 \in Seq(S) : s5 \o p6 = s6 /\ (t \o s5) \o p6 = t \o s6
  <2>1. OneBehind(S, t, s5, p6)
    BY OneMore
  <2> QED BY <2>1 DEF OneBehind
<1> QED BY <1>1, <1>2, <1>3, <1>4, <1>5, Zenon DEF AllBehind

LEMMA FieldHolds ==
  ASSUME NEW b, Fitting(b), NEW w \in Int, Held(out, mem), sink \in [kind : {"string", "console", "stdout"}, size : Nat]
  PROVE  /\ Held(PutField(b, w).text, PutField(b, w).cells)
         /\ Laid(b, w) \in Seq(TextChars) /\ PutField(b, w).text = out \o Laid(b, w)
<1> DEFINE len == Len(b.prefix) + b.p
           p1 == Pad(" ", w, len, b.fl)
           p2 == b.prefix
           p3 == Pad("0", w, len, Toggled(b.fl, "0"))
           p4 == Pad("0", b.p, Len(b.text), {})
           p5 == b.text
           p6 == Pad(" ", w, len, Toggled(b.fl, "-"))
           a1 == Put(Written, p1)
           a2 == Put(a1, p2)
           a3 == Put(a2, p3)
           a4 == Put(a3, p4)
           a5 == Put(a4, p5)
           a6 == Put(a5, p6)
<1>1. Writable(p1) /\ Writable(p2) /\ Writable(p3) /\ Writable(p4) /\ Writable(p5) /\ Writable(p6)
  <2>1. len \in Int /\ b.p \in Int /\ Len(b.text) \in Int
    BY WritableIs, LenProperties DEF Fitting
  <2>2. " " \in Characters /\ "0" \in Characters
    BY SymbolsAre
  <2> HIDE DEF len
  <2>3. Writable(p1) /\ Writable(p3) /\ Writable(p4) /\ Writable(p6)
    BY <2>1, <2>2, PadIs
  <2>4. Writable(p2) /\ Writable(p5)
    BY DEF Fitting, Writable
  <2> QED BY <2>3, <2>4
<1>2. Laid(b, w) = ((((p1 \o p2) \o p3) \o p4) \o p5) \o p6
  BY DEF Laid
<1>3. PutField(b, w) = a6
  BY DEF PutField
<1>4. Held(Written.text, Written.cells) /\ Written.text = out
  BY DEF Written
<1> HIDE DEF p1, p2, p3, p4, p5, p6
<1>5. Held(a1.text, a1.cells) /\ a1.text = out \o p1
  BY <1>1, <1>4, PutHolds
<1> HIDE DEF a1
<1>6. Held(a2.text, a2.cells) /\ a2.text = a1.text \o p2
  BY <1>1, <1>5, PutHolds
<1> HIDE DEF a2
<1>7. Held(a3.text, a3.cells) /\ a3.text = a2.text \o p3
  BY <1>1, <1>6, PutHolds
<1> HIDE DEF a3
<1>8. Held(a4.text, a4.cells) /\ a4.text = a3.text \o p4
  BY <1>1, <1>7, PutHolds
<1> HIDE DEF a4
<1>9. Held(a5.text, a5.cells) /\ a5.text = a4.text \o p5
  BY <1>1, <1>8, PutHolds
<1> HIDE DEF a5
<1>10. Held(a6.text, a6.cells) /\ a6.text = a5.text \o p6
  BY <1>1, <1>9, PutHolds
<1> HIDE DEF a6
<1>11. p1 \in Seq(TextChars) /\ p2 \in Seq(TextChars) /\ p3 \in Seq(TextChars) /\ p4 \in Seq(TextChars) /\ p5 \in Seq(TextChars) /\ p6 \in Seq(TextChars)
  BY <1>1, WritableIs
<1>12. out \in Seq(TextChars)
  BY DEF Held
<1>13. a6.text = (((((out \o p1) \o p2) \o p3) \o p4) \o p5) \o p6
  BY <1>5, <1>6, <1>7, <1>8, <1>9, <1>10
<1>14. PICK r \in Seq(TextChars) : Laid(b, w) = r /\ a6.text = out \o r
  <2>1. AllBehind(TextChars, out, p1, p2, p3, p4, p5, p6)
    BY <1>11, <1>12, SixPieces
  <2> QED BY <1>2, <1>13, <2>1, Zenon DEF AllBehind
<1> QED BY <1>3, <1>10, <1>14
-----------------------------------------------------------------------------
(* Shape *)
Types == [width : Kinds, signed : BOOLEAN]
Shape ==
  /\ fmt \in Formats /\ args \in Arguments /\ sink \in Sinks
  /\ pass \in {"collect", "print", "done", "undefined"} /\ l10n \in BOOLEAN
  /\ at \in 1 .. Len(fmt) + 1 /\ next \in 1 .. 3 * (at - 1) + 1 /\ cnt \in 0 .. IntMax
  /\ nl_type \in [0 .. NL_ARGMAX -> Types \cup {NoType}] /\ nl_arg \in [0 .. NL_ARGMAX -> Value]
\* What a caller passes is fixed, and long enough.
Passed ==
  /\ fmt \in Seq(TextDirective \cup ConversionDirective) /\ Len(fmt) \in Nat
  /\ args \in Seq(Value) /\ Len(args) \in Nat /\ Len(args) >= 3 * Len(fmt) /\ Len(args) >= NL_ARGMAX
  /\ sink \in [kind : {"string", "console", "stdout"}, size : Nat]
  /\ NL_ARGMAX \in Nat

LEMMA PassedIs ==
  ASSUME fmt \in Formats, args \in Arguments, sink \in Sinks
  PROVE  Passed
<1>1. /\ Formats \subseteq Seq(TextDirective \cup ConversionDirective) /\ NL_ARGMAX \in Nat
      /\ \A f \in Formats, a \in Arguments : a \in Seq(Value) /\ Len(a) >= 3 * Len(f) /\ Len(a) >= NL_ARGMAX
      /\ Sinks \subseteq [kind : {"string", "console", "stdout"}, size : Nat]
  BY PrintfAssumption
<1>2. fmt \in Seq(TextDirective \cup ConversionDirective)
  BY <1>1
<1>3. args \in Seq(Value) /\ Len(args) >= 3 * Len(fmt) /\ Len(args) >= NL_ARGMAX
  BY <1>1
<1>4. Len(fmt) \in Nat /\ Len(args) \in Nat
  BY <1>2, <1>3, LenProperties
<1> QED BY <1>1, <1>2, <1>3, <1>4 DEF Passed

\* A directive is text or a conversion.
LEMMA DirectiveIs ==
  ASSUME Passed, NEW i \in 1 .. Len(fmt)
  PROVE  /\ fmt[i].kind = "text" => fmt[i].text \in Seq(Characters) /\ Len(fmt[i].text) \in Nat
         /\ fmt[i].kind # "text" => /\ fmt[i] \in ConversionDirective /\ fmt[i].pos \in NoPos .. NL_ARGMAX
                                    /\ fmt[i].width \in Field /\ fmt[i].prec \in Field
<1>1. fmt[i] \in TextDirective \cup ConversionDirective
  BY ElementOfSeq DEF Passed
<1>2. CASE fmt[i] \in TextDirective
  <2>1. fmt[i].kind = "text" /\ fmt[i].text \in Seq(Characters)
    BY <1>2 DEF TextDirective
  <2> QED BY <2>1, LenProperties
<1>3. CASE fmt[i] \in ConversionDirective
  BY <1>3 DEF ConversionDirective
<1> QED BY <1>1, <1>2, <1>3

\* A field by position names one that nl_arg has.
LEMMA FieldIs ==
  ASSUME NEW g \in Field
  PROVE  /\ g.by \in {"num", "next", "none", "pos"} /\ g.n \in Nat
         /\ g.by = "pos" => g.n \in 0 .. NL_ARGMAX
         /\ Taken(g) \in 0 .. 1 /\ (g.by = "next" => Taken(g) = 1)
<1>1. g \in [by : {"num", "next", "none"}, n : Nat] \/ g \in [by : {"pos"}, n : 0 .. NL_ARGMAX]
  BY DEF Field
<1>2. NL_ARGMAX \in Nat
  BY PrintfAssumption
<1> QED BY <1>1, <1>2 DEF Taken

LEMMA AskedIs ==
  ASSUME Passed, nl_arg \in [0 .. NL_ARGMAX -> Value], NEW g \in Field, NEW n \in Nat, g.by = "next" => n \in 1 .. Len(args)
  PROVE  Asked(g, n) \in - IntMax - 1 .. IntMax
<1>0. IntMax \in Nat
  BY IntMaxIs
<1>1. CASE g.by = "num"
  BY <1>0, <1>1, FieldIs DEF Asked
<1>2. CASE g.by = "next"
  <2>1. args[n] \in Value
    BY <1>2, ElementOfSeq DEF Passed
  <2> QED BY <1>2, <2>1, IntIs DEF Asked
<1>3. CASE g.by = "pos"
  <2>1. nl_arg[g.n] \in Value
    BY <1>3, FieldIs
  <2> QED BY <1>3, <2>1, IntIs DEF Asked
<1>4. CASE g.by = "none"
  BY <1>0, <1>4 DEF Asked
<1> QED BY <1>1, <1>2, <1>3, <1>4, FieldIs

\* The arguments that a conversion takes in the second pass are there.
LEMMA TakenAreThere ==
  ASSUME Shape, at <= Len(fmt), ~ IsText, ~ Invalid(Directive)
  PROVE  /\ Directive \in ConversionDirective /\ TypeOf(Directive) # NoType
         /\ FirstOf(Directive) \in next .. next + 2 /\ FirstOf(Directive) \in 1 .. Len(args)
         /\ next \in 1 .. Len(args) /\ next + Taken(Directive.width) \in 1 .. Len(args)
         /\ Argument(Directive) \in Value
         /\ Asked(Directive.width, next) \in - IntMax - 1 .. IntMax
         /\ Asked(Directive.prec, next + Taken(Directive.width)) \in - IntMax - 1 .. IntMax
<1> DEFINE d == Directive
<1>1. Passed /\ nl_arg \in [0 .. NL_ARGMAX -> Value]
  BY PassedIs DEF Shape
<1>2. at \in 1 .. Len(fmt) /\ next \in 1 .. 3 * (at - 1) + 1 /\ Len(fmt) \in Nat /\ Len(args) \in Nat /\ Len(args) >= 3 * Len(fmt)
  BY <1>1 DEF Shape, Passed
<1>3. d \in ConversionDirective /\ d.pos \in NoPos .. NL_ARGMAX /\ d.width \in Field /\ d.prec \in Field
  BY <1>1, <1>2, DirectiveIs DEF IsText, Directive
<1>4. TypeOf(d) # NoType
  BY DEF Invalid
<1> HIDE DEF d
<1>5. PICK a \in 0 .. 1, b \in 0 .. 1 : a = Taken(d.width) /\ b = Taken(d.prec)
  BY <1>3, FieldIs
<1>6. /\ next + a + b \in next .. next + 2 /\ next + a + b \in 1 .. Len(args)
      /\ next \in 1 .. Len(args) /\ next + a \in 1 .. Len(args) /\ next \in Nat /\ next + a \in Nat
  BY <1>2, <1>5
<1>7. Argument(d) \in Value
  <2>1. CASE d.pos = NoPos
    <3>1. args[FirstOf(d)] \in Value
      BY <1>1, <1>5, <1>6, ElementOfSeq DEF FirstOf, Passed
    <3>2. Typed(TypeOf(d))
      BY <1>3, <1>4, TypeOfIs
    <3>3. Popped(TypeOf(d), args[FirstOf(d)]) \in Value
      BY <3>1, <3>2, NumberIs
    <3> QED BY <2>1, <3>3 DEF Argument
  <2>2. CASE d.pos # NoPos
    <3>1. d.pos \in 0 .. NL_ARGMAX
      BY <1>1, <1>3, <2>2 DEF NoPos, Passed
    <3> QED BY <1>1, <2>2, <3>1 DEF Argument
  <2> QED BY <2>1, <2>2
<1>8. Asked(d.width, next) \in - IntMax - 1 .. IntMax
  BY <1>1, <1>3, <1>6, AskedIs
<1>9. Asked(d.prec, next + a) \in - IntMax - 1 .. IntMax
  <2>1. PICK k \in Nat : k = next + a /\ k \in 1 .. Len(args)
    BY <1>6
  <2>2. Asked(d.prec, k) \in - IntMax - 1 .. IntMax
    BY <1>1, <1>3, <2>1, AskedIs
  <2> QED BY <2>1, <2>2
<1> QED BY <1>3, <1>4, <1>5, <1>6, <1>7, <1>8, <1>9 DEF FirstOf, d
\* What a sink is when vsnprintf has returned.
Ended(t, m) ==
  LET n == Smaller(Len(t), Larger(0, sink.size - 1))
      over == IF sink.size > 0 THEN n + 1 ELSE n
  IN  CASE sink.kind = "string" -> /\ \A k \in 0 .. n - 1 : m[k] = t[k + 1]
                                   /\ over > n => m[n] = "NUL"
                                   /\ \A k \in over .. sink.size : m[k] = "old"
        [] sink.kind = "console" -> /\ Len(m) = Cardinality(Visible(t, Len(t)))
                                    /\ \A i \in Visible(t, Len(t)) : m[Cardinality(Visible(t, i))] = t[i]
        [] sink.kind = "stdout" -> m = t

LEMMA TerminatedHolds ==
  ASSUME Held(out, mem), sink \in [kind : {"string", "console", "stdout"}, size : Nat]
  PROVE  Ended(out, Terminated)
<1>1. PICK l \in Nat, z \in Nat : l = Len(out) /\ z = sink.size
  <2>1. out \in Seq(TextChars)
    BY DEF Held
  <2> QED BY <2>1, LenProperties
<1>2. CASE sink.kind = "string"
  <2>1. PICK n \in 0 .. z : n = Smaller(l, Larger(0, z - 1)) /\ (z > 0 => n = Smaller(l, z - 1) /\ n < z) /\ (z = 0 => n = 0)
    BY DEF Smaller, Larger
  <2>2. /\ mem = [k \in 0 .. z |-> mem[k]]
        /\ \A k \in 0 .. z : mem[k] = IF k < n THEN out[k + 1] ELSE "old"
    BY <1>1, <1>2, <2>1 DEF Held
  <2>3. Terminated = IF z > 0 THEN [mem EXCEPT ![n] = "NUL"] ELSE mem
    BY <1>1, <1>2, <2>1 DEF Terminated
  <2>4. \A k \in 0 .. z : Terminated[k] = IF z > 0 /\ k = n THEN "NUL" ELSE IF k < n THEN out[k + 1] ELSE "old"
    BY <2>1, <2>2, <2>3
  <2>5. \A k \in 0 .. n - 1 : Terminated[k] = out[k + 1]
    BY <2>1, <2>4
  <2>6. z > 0 => Terminated[n] = "NUL"
    BY <2>4
  <2>7. \A k \in (IF z > 0 THEN n + 1 ELSE n) .. z : Terminated[k] = "old"
    BY <2>1, <2>4
  <2> HIDE DEF Terminated
  <2> QED BY <1>1, <1>2, <2>1, <2>5, <2>6, <2>7 DEF Ended
<1>3. CASE sink.kind # "string"
  <2>1. Terminated = mem
    BY <1>3 DEF Terminated
  <2> QED BY <1>3, <2>1 DEF Ended, Held, Shows
<1> QED BY <1>2, <1>3

LEMMA HeldIsText ==
  ASSUME Held(out, mem), sink \in [kind : {"string", "console", "stdout"}, size : Nat], pass # "done"
  PROVE  SinksHoldTheText
<1>1. PICK l \in Nat, z \in Nat : l = Len(out) /\ z = sink.size
  <2>1. out \in Seq(TextChars)
    BY DEF Held
  <2> QED BY <2>1, LenProperties
<1>2. CASE sink.kind = "string"
  <2>1. PICK n \in 0 .. z : n = Smaller(l, Larger(0, z - 1))
    BY DEF Smaller, Larger
  <2>2. \A k \in 0 .. z : mem[k] = IF k < n THEN out[k + 1] ELSE "old"
    BY <1>1, <1>2, <2>1 DEF Held
  <2>3. /\ \A k \in 0 .. n - 1 : mem[k] = out[k + 1]
        /\ \A k \in n .. z : mem[k] = "old"
    BY <2>1, <2>2
  <2> QED BY <1>1, <1>2, <2>1, <2>3 DEF SinksHoldTheText
<1>3. CASE sink.kind # "string"
  BY <1>3 DEF SinksHoldTheText, Held, Shows
<1> QED BY <1>2, <1>3

Sunk == (pass # "done" => Held(out, mem)) /\ (pass = "done" => SinksHoldTheText)

LEMMA NothingHeld ==
  ASSUME PrintfInit
  PROVE  Held(<<>>, mem)
<1>1. sink \in [kind : {"string", "console", "stdout"}, size : Nat]
  BY PassedIs DEF PrintfInit, Passed
<1>2. <<>> \in Seq(TextChars) /\ Len(<<>>) = 0
  BY EmptySeq
<1>3. Shows(<<>>, <<>>)
  <2>1. Visible(<<>>, 0) = {} /\ Cardinality({}) = 0
    BY FS_EmptySet DEF Visible
  <2> QED BY <1>2, <2>1 DEF Shows
<1>4. CASE sink.kind = "string"
  <2>1. PICK z \in Nat : z = sink.size /\ mem = [k \in 0 .. z |-> "old"]
    BY <1>1, <1>4 DEF PrintfInit
  <2>2. Smaller(0, Larger(0, z - 1)) = 0
    BY DEF Smaller, Larger
  <2>3. /\ mem = [k \in 0 .. z |-> mem[k]] /\ \A k \in 0 .. z : mem[k] = "old" /\ ~ (k < 0)
    BY <2>1
  <2> QED BY <1>2, <1>4, <2>1, <2>2, <2>3 DEF Held
<1>5. CASE sink.kind # "string"
  <2>1. mem = <<>>
    BY <1>5 DEF PrintfInit
  <2> QED BY <1>2, <1>3, <1>5, <2>1 DEF Held
<1> QED BY <1>4, <1>5

LEMMA ShapeInit ==
  ASSUME PrintfInit
  PROVE  Shape /\ Sunk
<1>1. Passed
  BY PassedIs DEF PrintfInit
<1>2. Held(out, mem)
  BY NothingHeld DEF PrintfInit
<1>3. nl_arg \in [0 .. NL_ARGMAX -> Value]
  <2>1. Garbage \subseteq Value
    BY PrintfAssumption
  <2> QED BY <2>1 DEF PrintfInit, Unset
<1>4. nl_type \in [0 .. NL_ARGMAX -> Types \cup {NoType}]
  BY DEF PrintfInit
<1>5. at \in 1 .. Len(fmt) + 1 /\ next \in 1 .. 3 * (at - 1) + 1 /\ cnt \in 0 .. IntMax
  BY <1>1, IntMaxIs DEF PrintfInit, Passed
<1> QED BY <1>2, <1>3, <1>4, <1>5 DEF PrintfInit, Shape, Sunk

\* A run ends with what the sink was given.
LEMMA FinishHolds ==
  ASSUME Shape, Sunk, pass # "done", NEW r, Finish(r)
  PROVE  Shape' /\ Sunk'
<1>1. sink \in [kind : {"string", "console", "stdout"}, size : Nat]
  BY PassedIs DEF Shape, Passed
<1>2. pass' = "done" /\ sink' = sink /\ out' = out /\ mem' = Terminated
  BY DEF Finish, caller
<1>3. Ended(out, mem')
  BY <1>1, <1>2, TerminatedHolds DEF Sunk
<1>4. SinksHoldTheText'
  BY <1>2, <1>3 DEF SinksHoldTheText, Ended, Visible, Smaller, Larger
<1>5. Shape'
  BY DEF Shape, Finish, caller
<1> QED BY <1>2, <1>4, <1>5 DEF Sunk

LEMMA StartHolds ==
  ASSUME Shape, Sunk, pass = "collect", NEW u \in [0 .. NL_ARGMAX -> Value], Start(u)
  PROVE  Shape' /\ Sunk'
<1>1. pass' = "print" /\ sink' = sink /\ out' = out /\ mem' = mem /\ fmt' = fmt /\ args' = args /\ nl_type' = nl_type /\ nl_arg' = u
  BY DEF Start, caller
<1>2. Held(out, mem)'
  BY <1>1 DEF Sunk, Held, Shows, Visible, Smaller, Larger
<1>3. at' = 1 /\ next' = 1 /\ cnt' = 0 /\ l10n' = FALSE
  BY DEF Start
<1>4. at' \in 1 .. Len(fmt) + 1 /\ next' \in 1 .. 3 * (at' - 1) + 1 /\ cnt' \in 0 .. IntMax
  BY <1>3, IntMaxIs, PassedIs DEF Shape, Passed
<1> QED BY <1>1, <1>2, <1>3, <1>4 DEF Shape, Sunk
LEMMA UnsetIs ==
  ASSUME NEW u \in Unset
  PROVE  u \in [0 .. NL_ARGMAX -> Value] /\ u = [i \in 0 .. NL_ARGMAX |-> u[i]]
<1>1. Garbage \subseteq Value
  BY PrintfAssumption
<1> QED BY <1>1 DEF Unset

LEMMA FilledIs ==
  ASSUME Shape, NEW u \in Unset
  PROVE  Filled(u) \in [0 .. NL_ARGMAX -> Value]
<1>1. ASSUME NEW i \in 0 .. NL_ARGMAX
      PROVE  (IF i \in Leading THEN Popped(nl_type[i], args[i]) ELSE u[i]) \in Value
  <2>1. CASE i \in Leading
    <3>1. i \in 1 .. NL_ARGMAX /\ nl_type[i] # NoType
      BY <2>1 DEF Leading
    <3>2. Typed(nl_type[i])
      BY <3>1 DEF Shape, Types, Typed
    <3>3. args[i] \in Value
      <4>1. Passed
        BY PassedIs DEF Shape
      <4>2. i \in 1 .. Len(args)
        BY <3>1, <4>1 DEF Passed
      <4> QED BY <4>1, <4>2, ElementOfSeq DEF Passed
    <3> QED BY <2>1, <3>2, <3>3, NumberIs
  <2>2. CASE i \notin Leading
    BY <2>2, UnsetIs
  <2> QED BY <2>1, <2>2
<1> QED BY <1>1 DEF Filled

LEMMA NotedIs ==
  ASSUME Shape, at <= Len(fmt), ~ IsText, ~ Invalid(Directive)
  PROVE  Noted(Directive) \in [0 .. NL_ARGMAX -> Types \cup {NoType}]
<1>1. Directive \in ConversionDirective /\ TypeOf(Directive) # NoType
  BY TakenAreThere
<1>2. TypeOf(Directive) \in Types /\ CInt \in Types
  BY <1>1, TypeOfIs, CIntTyped DEF Typed, Types
<1>3. \A i \in 0 .. NL_ARGMAX : nl_type[i] \in Types \cup {NoType}
  BY DEF Shape
<1> DEFINE T == TypeOf(Directive)
           P(i) == \E f \in {Directive.width, Directive.prec} : f.by = "pos" /\ f.n = i
<1>4. Noted(Directive) = [i \in 0 .. NL_ARGMAX |-> CASE i = Directive.pos -> T [] i # Directive.pos /\ P(i) -> CInt [] OTHER -> nl_type[i]]
  BY DEF Noted
<1> HIDE DEF T, P
<1>5. T \in Types
  BY <1>2 DEF T
<1> QED BY <1>2, <1>3, <1>4, <1>5

\* A step of the first pass leaves the sink alone.
LEMMA Untouched ==
  ASSUME Sunk, pass # "done", pass' # "done", sink' = sink, out' = out, mem' = mem
  PROVE  Sunk'
<1>1. Held(out, mem)'
  BY DEF Sunk, Held, Shows, Visible, Smaller, Larger
<1> QED BY <1>1 DEF Sunk

LEMMA ShapeCollect ==
  ASSUME Shape, Sunk, CollectText \/ CollectConversion \/ CollectEnd
  PROVE  Shape' /\ Sunk'
<1>1. Passed /\ pass = "collect"
  BY PassedIs DEF Shape, CollectText, CollectConversion, CollectEnd, More
<1>2. CASE CollectText
  <2>1. CASE TooLong(Len(Directive.text))
    <3>1. Finish(-1)
      BY <1>2, <2>1 DEF CollectText
    <3> QED BY <1>1, <3>1, FinishHolds
  <2>2. CASE ~ TooLong(Len(Directive.text))
    <3>1. at \in 1 .. Len(fmt) /\ Len(fmt) \in Nat /\ IsText
      BY <1>1, <1>2 DEF CollectText, More, Shape, Passed
    <3>2. PICK l \in Nat : l = Len(Directive.text)
      BY <1>1, <3>1, DirectiveIs DEF IsText, Directive
    <3>3. cnt' = cnt + l /\ at' = at + 1 /\ UNCHANGED <<caller, pass, l10n, nl_type, nl_arg, next, out, mem, stored, ret>>
      BY <1>2, <2>2, <3>2 DEF CollectText
    <3>4. cnt' \in 0 .. IntMax /\ at' \in 1 .. Len(fmt) + 1 /\ next' \in 1 .. 3 * (at' - 1) + 1
      <4>1. IntMax \in Nat /\ cnt \in 0 .. IntMax /\ next \in 1 .. 3 * (at - 1) + 1
        BY IntMaxIs DEF Shape
      <4>2. ~ (l > IntMax - cnt)
        BY <2>2, <3>2 DEF TooLong
      <4>3. next' = next
        BY <3>3
      <4> QED BY <3>1, <3>3, <4>1, <4>2, <4>3
    <3>5. Sunk'
      BY <1>1, <3>3, Untouched DEF caller
    <3> QED BY <3>3, <3>4, <3>5 DEF Shape, caller
  <2> QED BY <2>1, <2>2
<1>3. CASE CollectConversion
  <2>1. CASE Invalid(Directive)
    <3>1. Finish(-1)
      BY <1>3, <2>1 DEF CollectConversion
    <3> QED BY <1>1, <3>1, FinishHolds
  <2>2. CASE ~ Invalid(Directive) /\ Directive.pos = NoPos
    <3>1. PICK u \in Unset : Start(u)
      BY <1>3, <2>2 DEF CollectConversion
    <3> QED BY <1>1, <3>1, UnsetIs, StartHolds
  <2>3. CASE ~ Invalid(Directive) /\ Directive.pos # NoPos
    <3>1. /\ nl_type' = Noted(Directive) /\ l10n' = AnyLocalised(Directive) /\ at' = at + 1
          /\ UNCHANGED <<caller, pass, nl_arg, next, cnt, out, mem, stored, ret>>
      BY <1>3, <2>3 DEF CollectConversion
    <3>2. at \in 1 .. Len(fmt) /\ Len(fmt) \in Nat /\ ~ IsText
      BY <1>1, <1>3 DEF CollectConversion, More, Shape, Passed
    <3>3. nl_type' \in [0 .. NL_ARGMAX -> Types \cup {NoType}]
      BY <2>3, <3>1, <3>2, NotedIs
    <3>4. at' \in 1 .. Len(fmt) + 1 /\ next' \in 1 .. 3 * (at' - 1) + 1
      BY <3>1, <3>2 DEF Shape
    <3>5. Sunk'
      BY <1>1, <3>1, Untouched DEF caller
    <3>6. l10n' \in BOOLEAN
      BY <3>1 DEF AnyLocalised, Localised, Shape
    <3> QED BY <3>1, <3>3, <3>4, <3>5, <3>6 DEF Shape, caller
  <2> QED BY <2>1, <2>2, <2>3
<1>4. CASE CollectEnd
  <2>1. PICK u \in Unset : IF l10n /\ Gap THEN Finish(-1) ELSE Start(IF l10n THEN Filled(u) ELSE u)
    BY <1>4 DEF CollectEnd
  <2>2. CASE l10n /\ Gap
    BY <1>1, <2>1, <2>2, FinishHolds
  <2>3. CASE ~ (l10n /\ Gap)
    <3>1. PICK v : v = (IF l10n THEN Filled(u) ELSE u) /\ Start(v)
      BY <2>1, <2>3
    <3>2. v \in [0 .. NL_ARGMAX -> Value]
      BY <3>1, FilledIs, UnsetIs
    <3> QED BY <1>1, <3>1, <3>2, StartHolds
  <2> QED BY <2>2, <2>3
<1> QED BY <1>2, <1>3, <1>4

\* What is written to a sink leaves it held.
LEMMA WriteHolds ==
  ASSUME NEW acc, Held(acc.text, acc.cells), Write(acc), sink' = sink, pass' = "print"
  PROVE  Sunk'
<1>1. out' = acc.text /\ mem' = acc.cells
  BY DEF Write
<1>2. Held(out', mem')
  BY <1>1
<1>3. Held(out, mem)'
  BY <1>2 DEF Held, Shows, Visible, Smaller, Larger
<1> QED BY <1>3 DEF Sunk

LEMMA ShapePrintText ==
  ASSUME Shape, Sunk, PrintText
  PROVE  Shape' /\ Sunk'
<1>1. Passed /\ pass = "print"
  BY PassedIs DEF Shape, PrintText, More
<1>2. CASE TooLong(Len(Directive.text))
  <2>1. Finish(-1)
    BY <1>2 DEF PrintText
  <2> QED BY <1>1, <2>1, FinishHolds
<1>3. CASE ~ TooLong(Len(Directive.text))
  <2>1. at \in 1 .. Len(fmt) /\ Len(fmt) \in Nat /\ IsText
    BY <1>1 DEF PrintText, More, Shape, Passed
  <2>2. PICK l \in Nat : l = Len(Directive.text) /\ Directive.text \in Seq(Characters)
    BY <1>1, <2>1, DirectiveIs DEF IsText, Directive
  <2>3. /\ Write(Put(Written, Directive.text)) /\ cnt' = cnt + l /\ at' = at + 1
        /\ UNCHANGED <<caller, pass, l10n, nl_type, nl_arg, next, stored, ret>>
    BY <1>3, <2>2 DEF PrintText
  <2>4. cnt' \in 0 .. IntMax /\ at' \in 1 .. Len(fmt) + 1 /\ next' \in 1 .. 3 * (at' - 1) + 1
    <3>1. IntMax \in Nat /\ cnt \in 0 .. IntMax /\ next \in 1 .. 3 * (at - 1) + 1
      BY IntMaxIs DEF Shape
    <3>2. ~ (l > IntMax - cnt)
      BY <1>3, <2>2 DEF TooLong
    <3>3. next' = next
      BY <2>3
    <3> QED BY <2>1, <2>3, <3>1, <3>2, <3>3
  <2>5. Sunk'
    <3>1. Held(Written.text, Written.cells)
      BY <1>1 DEF Written, Sunk
    <3>2. Writable(Directive.text)
      BY <2>2 DEF Writable
    <3>3. Held(Put(Written, Directive.text).text, Put(Written, Directive.text).cells)
      BY <1>1, <3>1, <3>2, PutHolds DEF Passed
    <3>4. PICK acc : acc = Put(Written, Directive.text)
      OBVIOUS
    <3> QED BY <1>1, <2>3, <3>3, <3>4, WriteHolds DEF caller
  <2> QED BY <2>3, <2>4, <2>5 DEF Shape, caller
<1> QED BY <1>2, <1>3

\* The argument after those of a conversion is one that another may take.
LEMMA NextIs ==
  ASSUME Shape, at <= Len(fmt), ~ IsText, ~ Invalid(Directive), AfterArguments(Directive), at' = at + 1
  PROVE  at' \in 1 .. Len(fmt) + 1 /\ next' \in 1 .. 3 * (at' - 1) + 1
<1>1. PICK f \in Nat : f = FirstOf(Directive) /\ f \in next .. next + 2
  BY TakenAreThere DEF Shape
<1>2. next' = f \/ next' = f + 1
  BY <1>1 DEF AfterArguments
<1>3. at \in 1 .. Len(fmt) + 1 /\ next \in 1 .. 3 * (at - 1) + 1 /\ Len(fmt) \in Nat
  BY PassedIs DEF Shape, Passed
<1> QED BY <1>1, <1>2, <1>3

LEMMA ShapeStore ==
  ASSUME Shape, Sunk, StoreCount
  PROVE  Shape' /\ Sunk'
<1>1. /\ pass = "print" /\ at <= Len(fmt) /\ ~ IsText /\ ~ Invalid(Directive) /\ AfterArguments(Directive) /\ at' = at + 1
      /\ l10n' = AnyLocalised(Directive) /\ UNCHANGED <<caller, pass, nl_type, nl_arg, cnt, out, mem, ret>>
  BY DEF StoreCount, More
<1>2. at' \in 1 .. Len(fmt) + 1 /\ next' \in 1 .. 3 * (at' - 1) + 1
  BY <1>1, NextIs
<1>3. l10n' \in BOOLEAN
  BY <1>1 DEF AnyLocalised, Localised, Shape
<1>4. Sunk'
  BY <1>1, Untouched DEF caller
<1> QED BY <1>1, <1>2, <1>3, <1>4 DEF Shape, caller

\* A field is as wide as its text, or as it was asked to be.
LEMMA WidthIs ==
  ASSUME NEW w \in - IntMax - 1 .. IntMax, NEW b, Fitting(b)
  PROVE  /\ Magnitude(w) \in 0 .. IntMax + 1 /\ Len(b.prefix) + b.p \in Nat
         /\ Len(b.prefix) \in Nat /\ b.p \in Nat
         /\ Larger(Magnitude(w), Len(b.prefix) + b.p) \in Nat
<1>1. PICK m \in Nat : m = IntMax
  BY IntMaxIs
<1>2. Magnitude(w) \in 0 .. IntMax + 1
  BY <1>1 DEF Magnitude
<1>3. PICK l \in Nat, k \in Nat : l = Len(b.prefix) /\ k = b.p
  BY WritableIs, LenProperties DEF Fitting
<1> QED BY <1>1, <1>2, <1>3 DEF Larger

LEMMA ShapePrintField ==
  ASSUME Shape, Sunk, PrintField
  PROVE  Shape' /\ Sunk'
<1> DEFINE d == Directive
           w == Asked(d.width, next)
           p == Asked(d.prec, next + Taken(d.width))
           xp == d.prec.by = "num" \/ (d.prec.by # "none" /\ p >= 0)
           b == Converted(d, Argument(d), Flags(d, w), p, xp)
           field == Larger(Magnitude(w), Len(b.prefix) + b.p)
<1>1. pass = "print" /\ at <= Len(fmt) /\ ~ IsText /\ ~ Invalid(Directive)
  BY DEF PrintField, More
<1>2. Argument(d) \in Value /\ w \in - IntMax - 1 .. IntMax /\ p \in - IntMax - 1 .. IntMax
  BY <1>1, TakenAreThere
<1>3. /\ IF b.fails \/ b.p > IntMax - Len(b.prefix) \/ TooLong(field) THEN Finish(-1)
         ELSE /\ Write(PutField(b, field))
              /\ cnt' = cnt + field /\ at' = at + 1 /\ l10n' = AnyLocalised(d)
              /\ AfterArguments(d)
              /\ UNCHANGED <<caller, pass, nl_type, nl_arg, stored, ret>>
  BY DEF PrintField
<1>4. p \in Int
  BY <1>2, IntMaxIs
<1> HIDE DEF w, p, xp
<1>5. Fitting(b)
  BY <1>2, <1>4, ConvertedFits
<1>6. field \in Nat
  BY <1>2, <1>5, WidthIs
<1> HIDE DEF b, field
<1>7. CASE b.fails \/ b.p > IntMax - Len(b.prefix) \/ TooLong(field)
  BY <1>1, <1>3, <1>7, FinishHolds
<1>8. CASE ~ (b.fails \/ b.p > IntMax - Len(b.prefix) \/ TooLong(field))
  <2>1. /\ Write(PutField(b, field)) /\ cnt' = cnt + field /\ at' = at + 1 /\ l10n' = AnyLocalised(d)
        /\ AfterArguments(d) /\ UNCHANGED <<caller, pass, nl_type, nl_arg, stored, ret>>
    BY <1>3, <1>8
  <2>2. cnt' \in 0 .. IntMax
    <3>1. IntMax \in Nat /\ cnt \in 0 .. IntMax /\ ~ (field > IntMax - cnt)
      BY <1>8, IntMaxIs DEF Shape, TooLong
    <3> QED BY <1>6, <2>1, <3>1
  <2>3. at' \in 1 .. Len(fmt) + 1 /\ next' \in 1 .. 3 * (at' - 1) + 1
    BY <1>1, <2>1, NextIs
  <2>4. l10n' \in BOOLEAN
    BY <2>1 DEF AnyLocalised, Localised, Shape
  <2>5. Sunk'
    <3>1. sink \in [kind : {"string", "console", "stdout"}, size : Nat]
      BY PassedIs DEF Shape, Passed
    <3>2. Held(out, mem)
      BY <1>1 DEF Sunk
    <3>3. Held(PutField(b, field).text, PutField(b, field).cells)
      BY <1>5, <1>6, <3>1, <3>2, FieldHolds
    <3>4. sink' = sink /\ pass' = "print"
      BY <1>1, <2>1 DEF caller
    <3> QED BY <2>1, <3>3, <3>4, WriteHolds
  <2> QED BY <2>1, <2>2, <2>3, <2>4, <2>5 DEF Shape, caller
<1> QED BY <1>7, <1>8

LEMMA ShapeStep ==
  ASSUME Shape, Sunk, [PrintfNext]_printf_vars
  PROVE  Shape' /\ Sunk'
<1>1. CASE CollectText \/ CollectConversion \/ CollectEnd
  BY <1>1, ShapeCollect
<1>2. CASE PrintText
  BY <1>2, ShapePrintText
<1>3. CASE StoreCount
  BY <1>3, ShapeStore
<1>4. CASE PrintField
  BY <1>4, ShapePrintField
<1>5. CASE PrintRefused
  BY <1>5, FinishHolds DEF PrintRefused, More
<1>6. CASE PrintEnd
  BY <1>6, FinishHolds DEF PrintEnd
<1>7. CASE WidthOverflow
  <2>1. Sunk'
    BY <1>7 DEF WidthOverflow, More, caller, Sunk, Held, Shows, Visible, Smaller, Larger
  <2> QED BY <1>7, <2>1 DEF WidthOverflow, caller, Shape
<1>8. CASE UNCHANGED printf_vars
  BY <1>8 DEF printf_vars, caller, Shape, Sunk, Held, Shows, Visible, Smaller, Larger, SinksHoldTheText
<1> QED BY <1>1, <1>2, <1>3, <1>4, <1>5, <1>6, <1>7, <1>8 DEF PrintfNext

\* However the formatted text is cut into pieces, a string holds the beginning
\* that fits and ends in its buffer, and a console and standard output hold what
\* they were given, for all sizes of the buffer, formats and arguments.
THEOREM SinksAreTrue == PrintfSpec => []SinksHoldTheText
<1>1. PrintfInit => Shape /\ Sunk
  BY ShapeInit
<1>2. (Shape /\ Sunk) /\ [PrintfNext]_printf_vars => (Shape /\ Sunk)'
  BY ShapeStep
<1>3. Shape /\ Sunk => SinksHoldTheText
  <2>1. Shape /\ Sunk => sink \in [kind : {"string", "console", "stdout"}, size : Nat]
    BY PassedIs DEF Shape, Passed
  <2> QED BY <2>1, HeldIsText DEF Sunk
<1> QED BY <1>1, <1>2, <1>3, PTL DEF PrintfSpec
-----------------------------------------------------------------------------
(* What is refused *)
IsConversion(j) == fmt[j].kind # "text"
UsesOf(d) == {u \in {<<d.pos, TypeOf(d)>>} : ByPosition(d)} \cup {<<g.n, CInt>> : g \in {h \in Fields(d) : h.by = "pos"}}
UsesTo(n) == UNION {UsesOf(fmt[j]) : j \in {i \in 1 .. n : IsConversion(i)}}

LEMMA UsesAre ==
  /\ Uses(fmt) = UsesTo(Len(fmt))
  /\ Conversions(fmt) = {i \in 1 .. Len(fmt) : IsConversion(i)}
<1>1. Conversions(fmt) = {i \in 1 .. Len(fmt) : IsConversion(i)}
  BY DEF Conversions, IsConversion
<1> DEFINE C == Conversions(fmt)
<1>2. UsesTo(Len(fmt)) = UNION {UsesOf(fmt[j]) : j \in C}
  BY <1>1 DEF UsesTo
<1>3. Uses(fmt) = {<<fmt[i].pos, TypeOf(fmt[i])>> : i \in {j \in C : ByPosition(fmt[j])}}
                  \cup UNION {{<<g.n, CInt>> : g \in {h \in Fields(fmt[i]) : h.by = "pos"}} : i \in C}
  BY DEF Uses
<1> HIDE DEF C
<1>4. ASSUME NEW u PROVE u \in Uses(fmt) <=> u \in UNION {UsesOf(fmt[j]) : j \in C}
  <2>1. ASSUME u \in Uses(fmt) PROVE \E j \in C : u \in UsesOf(fmt[j])
    <3>1. CASE u \in {<<fmt[i].pos, TypeOf(fmt[i])>> : i \in {j \in C : ByPosition(fmt[j])}}
      BY <3>1 DEF UsesOf
    <3>2. CASE u \in UNION {{<<g.n, CInt>> : g \in {h \in Fields(fmt[i]) : h.by = "pos"}} : i \in C}
      BY <3>2 DEF UsesOf
    <3> QED BY <1>3, <2>1, <3>1, <3>2
  <2>2. ASSUME NEW j \in C, u \in UsesOf(fmt[j]) PROVE u \in Uses(fmt)
    <3>1. CASE u = <<fmt[j].pos, TypeOf(fmt[j])>> /\ ByPosition(fmt[j])
      BY <1>3, <3>1
    <3>2. CASE u \in {<<g.n, CInt>> : g \in {h \in Fields(fmt[j]) : h.by = "pos"}}
      BY <1>3, <3>2
    <3> QED BY <2>2, <3>1, <3>2 DEF UsesOf
  <2> QED BY <2>1, <2>2
<1> QED BY <1>1, <1>2, <1>4 DEF C

LEMMA UsesGrow ==
  ASSUME NEW n \in Nat
  PROVE  UsesTo(n + 1) = UsesTo(n) \cup (IF IsConversion(n + 1) THEN UsesOf(fmt[n + 1]) ELSE {})
<1>1. 1 .. n + 1 = (1 .. n) \cup {n + 1}
  OBVIOUS
<1>2. ASSUME NEW u PROVE u \in UsesTo(n + 1) <=> u \in UsesTo(n) \/ (IsConversion(n + 1) /\ u \in UsesOf(fmt[n + 1]))
  BY <1>1 DEF UsesTo
<1> QED BY <1>2

\* The types that the first pass has of n directives, all with a position.
Seen(n, types) ==
  /\ \A j \in 1 .. n : IsConversion(j) => ByPosition(fmt[j]) /\ TypeOf(fmt[j]) # NoType
  /\ \A k \in 0 .. NL_ARGMAX : types[k] # NoType => <<k, types[k]>> \in UsesTo(n)
  /\ \A u \in UsesTo(n) : u[1] \in 0 .. NL_ARGMAX /\ types[u[1]] # NoType
AllNamed == \A i \in Conversions(fmt) : ByPosition(fmt[i])
\* What the second pass has of them.
Taught(values) ==
  Conversions(fmt) = {} \/ (~ Gap /\ \A k \in Leading : values[k] = Popped(nl_type[k], args[k]))
Known(n) == \A j \in 1 .. n : IsConversion(j) => TypeOf(fmt[j]) # NoType
Met(n) == \E j \in 1 .. n : IsConversion(j)
Marked(n) == \E j \in 1 .. n : Marks(fmt[j])
Clean(n) == \A j \in 1 .. n : IsConversion(j) => ~ Clashes(fmt, j)
Noticed ==
  /\ pass = "collect" => (l10n <=> Met(at - 1)) /\ Seen(at - 1, nl_type)
  /\ pass = "print" => /\ Known(at - 1) /\ Clean(at - 1) /\ (l10n <=> Marked(at - 1))
                       /\ AllNamed => Seen(Len(fmt), nl_type) /\ Taught(nl_arg)
  /\ BadFormatsAreRefused

LEMMA SeenNext ==
  ASSUME NEW n \in Nat, NEW types, Seen(n, types), fmt' = fmt, at' = n + 1, nl_type' = types
  PROVE  Seen(at - 1, nl_type)'
<1>1. at' - 1 = n
  OBVIOUS
<1>2. Seen(at' - 1, types)
  BY <1>1
<1> QED BY <1>2 DEF Seen, UsesTo, IsConversion

LEMMA SeenWhole ==
  ASSUME NEW types, Seen(Len(fmt), types), fmt' = fmt, nl_type' = types
  PROVE  Seen(Len(fmt), nl_type)'
BY DEF Seen, UsesTo, IsConversion

LEMMA TaughtNext ==
  ASSUME NEW values, Taught(values), fmt' = fmt, args' = args, nl_type' = nl_type, nl_arg' = values
  PROVE  Taught(nl_arg)'
BY DEF Taught, Conversions, Gap, Leading

\* One more conversion with a position.
LEMMA SeenMore ==
  ASSUME Shape, NEW n \in Nat, n = at - 1, at <= Len(fmt), Seen(n, nl_type), ~ IsText, ~ Invalid(Directive), ByPosition(Directive)
  PROVE  Seen(n + 1, Noted(Directive))
<1> DEFINE d == Directive
           T == TypeOf(d)
           P(i) == \E f \in {d.width, d.prec} : f.by = "pos" /\ f.n = i
           new == Noted(d)
<1>1. Passed /\ d \in ConversionDirective /\ T # NoType
  BY TakenAreThere, PassedIs DEF Shape
<1>2. n + 1 = at /\ fmt[n + 1] = d /\ IsConversion(n + 1) /\ n + 1 \in 1 .. Len(fmt)
  <2>1. at \in 1 .. Len(fmt) + 1 /\ Len(fmt) \in Nat
    BY <1>1 DEF Shape, Passed
  <2>2. n + 1 = at /\ at \in 1 .. Len(fmt)
    BY <2>1
  <2>3. fmt[at] = d /\ IsConversion(at)
    BY DEF Directive, IsConversion, IsText
  <2> HIDE DEF d
  <2> QED BY <2>2, <2>3
<1>3. UsesTo(n + 1) = UsesTo(n) \cup UsesOf(d)
  BY <1>2, UsesGrow
<1>4. d.pos \in 0 .. NL_ARGMAX /\ d.width \in Field /\ d.prec \in Field
  <2>1. d.pos \in NoPos .. NL_ARGMAX /\ d.width \in Field /\ d.prec \in Field
    BY <1>1, <1>2, DirectiveIs DEF IsConversion
  <2> QED BY <2>1, <1>1 DEF ByPosition, NoPos, Passed
<1>5. /\ new = [i \in 0 .. NL_ARGMAX |-> CASE i = d.pos -> T [] i # d.pos /\ P(i) -> CInt [] OTHER -> nl_type[i]]
      /\ NL_ARGMAX \in Nat
  BY <1>1 DEF Noted, Passed
<1>6. CInt # NoType
  BY DEF CInt, NoType
<1>7. UsesOf(d) = {<<d.pos, T>>} \cup {<<g.n, CInt>> : g \in {h \in Fields(d) : h.by = "pos"}}
  BY DEF UsesOf
<1> HIDE DEF d, T, new
<1>8. \A i : P(i) <=> <<i, CInt>> \in {<<g.n, CInt>> : g \in {h \in Fields(d) : h.by = "pos"}}
  BY DEF Fields
<1>9. ASSUME NEW k \in 0 .. NL_ARGMAX, new[k] # NoType PROVE <<k, new[k]>> \in UsesTo(n + 1)
  <2>1. CASE k = d.pos
    <3>1. new[k] = T
      BY <1>5, <2>1
    <3> QED BY <1>3, <1>7, <2>1, <3>1
  <2>2. CASE k # d.pos /\ P(k)
    <3>1. new[k] = CInt
      BY <1>5, <2>2, Zenon
    <3> QED BY <1>3, <1>7, <1>8, <2>2, <3>1, Zenon
  <2>3. CASE k # d.pos /\ ~ P(k)
    <3>1. new[k] = nl_type[k]
      BY <1>5, <2>3, Zenon
    <3>2. <<k, nl_type[k]>> \in UsesTo(n)
      BY <1>9, <3>1 DEF Seen
    <3> QED BY <1>3, <3>1, <3>2
  <2> QED BY <2>1, <2>2, <2>3
<1>10. ASSUME NEW u \in UsesTo(n + 1) PROVE u[1] \in 0 .. NL_ARGMAX /\ new[u[1]] # NoType
  <2>1. u[1] \in 0 .. NL_ARGMAX
    <3>1. CASE u \in UsesTo(n)
      BY <3>1 DEF Seen
    <3>2. CASE u = <<d.pos, T>>
      BY <1>4, <3>2
    <3>3. CASE u \in {<<g.n, CInt>> : g \in {h \in Fields(d) : h.by = "pos"}}
      <4>1. PICK g \in {d.width, d.prec} : g.by = "pos" /\ u = <<g.n, CInt>>
        BY <3>3 DEF Fields
      <4>2. g.n \in 0 .. NL_ARGMAX
        BY <1>4, <4>1, FieldIs
      <4> QED BY <4>1, <4>2
    <3> QED BY <1>3, <1>7, <3>1, <3>2, <3>3
  <2>2. PICK k \in 0 .. NL_ARGMAX : k = u[1]
    BY <2>1
  <2>3. new[k] # NoType
    <3>1. CASE k = d.pos
      BY <1>1, <1>5, <3>1
    <3>2. CASE k # d.pos /\ P(k)
      <4>1. new[k] = CInt
        BY <1>5, <3>2, Zenon
      <4> QED BY <1>6, <4>1
    <3>3. CASE k # d.pos /\ ~ P(k)
      <4>1. new[k] = nl_type[k]
        BY <1>5, <3>3, Zenon
      <4>2. u \in UsesTo(n)
        <5>1. u # <<d.pos, T>>
          BY <2>2, <3>3
        <5>2. u \notin {<<g.n, CInt>> : g \in {h \in Fields(d) : h.by = "pos"}}
          BY <2>2, <3>3 DEF Fields
        <5> QED BY <1>3, <1>7, <5>1, <5>2
      <4>3. nl_type[k] # NoType
        BY <2>2, <4>2 DEF Seen
      <4> QED BY <4>1, <4>3
    <3> QED BY <3>1, <3>2, <3>3
  <2> QED BY <2>1, <2>2, <2>3
<1>11. ASSUME NEW j \in 1 .. n + 1, IsConversion(j) PROVE ByPosition(fmt[j]) /\ TypeOf(fmt[j]) # NoType
  <2>1. CASE j = n + 1
    BY <1>1, <1>2, <2>1 DEF d, T
  <2>2. CASE j # n + 1
    <3>1. j \in 1 .. n
      BY <2>2
    <3> QED BY <1>11, <3>1 DEF Seen
  <2> QED BY <2>1, <2>2
<1> QED BY <1>9, <1>10, <1>11 DEF Seen, new, d

\* The positions in front of the first that is not named are 1, 2, ...
LEMMA LeadingIs ==
  ASSUME NL_ARGMAX \in Nat
  PROVE  \E m \in 0 .. NL_ARGMAX : Leading = 1 .. m
<1> DEFINE S == {j \in 1 .. NL_ARGMAX : nl_type[j] = NoType}
<1>1. PICK i \in 1 .. NL_ARGMAX + 1 : (i \in S \/ i = NL_ARGMAX + 1) /\ \A j \in 1 .. i - 1 : j \notin S
  <2>1. S \in SUBSET (1 .. NL_ARGMAX + 1) /\ 1 \in Int /\ NL_ARGMAX + 1 \in Int /\ 1 <= NL_ARGMAX + 1
    OBVIOUS
  <2> HIDE DEF S
  <2> QED BY <2>1, FirstExists
<1>2. i - 1 \in 0 .. NL_ARGMAX
  OBVIOUS
<1>3. \A k \in 1 .. i - 1 : k \in Leading
  BY <1>1 DEF Leading
<1>4. \A k \in Leading : k \in 1 .. i - 1
  <2> SUFFICES ASSUME NEW k \in Leading, k >= i PROVE FALSE
    BY DEF Leading
  <2>1. k \in 1 .. NL_ARGMAX /\ i \in 1 .. k
    BY DEF Leading
  <2>2. nl_type[i] # NoType
    BY <2>1 DEF Leading
  <2> QED BY <1>1, <2>1, <2>2
<1> QED BY <1>2, <1>3, <1>4

\* Without a gap, the positions named are 1, 2, ... m.
LEMMA PositionsAre ==
  ASSUME NL_ARGMAX \in Nat, Seen(Len(fmt), nl_type), Taught(nl_arg), 0 \notin Positions(fmt)
  PROVE  /\ Positions(fmt) = 1 .. Cardinality(Positions(fmt))
         /\ Conversions(fmt) # {} => Positions(fmt) = Leading
<1>1. CASE Conversions(fmt) = {}
  <2>1. Uses(fmt) = {}
    BY <1>1 DEF Uses
  <2>2. Positions(fmt) = {}
    BY <2>1 DEF Positions
  <2>3. Cardinality({}) = 0 /\ 1 .. 0 = {}
    BY FS_EmptySet
  <2> QED BY <1>1, <2>2, <2>3
<1>2. CASE Conversions(fmt) # {}
  <2>1. ~ Gap
    BY <1>2 DEF Taught
  <2>2. ASSUME NEW k \in Leading PROVE k \in Positions(fmt)
    <3>1. k \in 0 .. NL_ARGMAX /\ nl_type[k] # NoType
      BY <2>2 DEF Leading
    <3>2. <<k, nl_type[k]>> \in Uses(fmt)
      BY <3>1, UsesAre DEF Seen
    <3> QED BY <3>2 DEF Positions
  <2>3. ASSUME NEW k \in Positions(fmt) PROVE k \in Leading
    <3>1. PICK u \in Uses(fmt) : k = u[1]
      BY DEF Positions
    <3>2. k \in 0 .. NL_ARGMAX /\ nl_type[k] # NoType
      BY <3>1, UsesAre DEF Seen
    <3>3. k \in 1 .. NL_ARGMAX
      BY <3>2
    <3> QED BY <2>1, <3>2, <3>3 DEF Gap
  <2>4. PICK m \in 0 .. NL_ARGMAX : Leading = 1 .. m
    BY LeadingIs
  <2>5. m \in Nat /\ Cardinality(1 .. m) = m
    BY <2>4, FS_Interval
  <2>6. Positions(fmt) = Leading
    BY <2>2, <2>3
  <2> QED BY <2>4, <2>5, <2>6
<1> QED BY <1>1, <1>2
\* The rest of the properties speaks of a run that has returned.
LEMMA NotYet == pass # "done" => BadFormatsAreRefused
BY DEF BadFormatsAreRefused

LEMMA NoticedInit ==
  ASSUME PrintfInit
  PROVE  Noticed
<1>1. pass = "collect" /\ at - 1 = 0 /\ l10n = FALSE /\ nl_type = [i \in 0 .. NL_ARGMAX |-> NoType]
  BY DEF PrintfInit
<1>2. ~ Met(0) /\ UsesTo(0) = {}
  BY DEF Met, UsesTo
<1>3. Seen(0, nl_type)
  BY <1>1, <1>2 DEF Seen
<1>4. (l10n <=> Met(at - 1)) /\ Seen(at - 1, nl_type)
  BY <1>1, <1>2, <1>3
<1>5. pass # "done" /\ pass # "print"
  BY <1>1
<1> QED BY <1>1, <1>4, <1>5, NotYet, Zenon DEF Noticed

LEMMA NoticedFinish == Finish(-1) => Noticed'
BY DEF Finish, Noticed, BadFormatsAreRefused

LEMMA NoticedStart ==
  ASSUME Shape, pass = "collect", NEW values, Start(values), AllNamed => Seen(Len(fmt), nl_type) /\ Taught(values)
  PROVE  Noticed'
<1>1. /\ pass' = "print" /\ at' = 1 /\ nl_arg' = values
      /\ fmt' = fmt /\ args' = args /\ nl_type' = nl_type
  BY DEF Start, caller
<1>2. AllNamed' => AllNamed
  BY <1>1 DEF AllNamed, Conversions
<1>3. AllNamed' => Seen(Len(fmt), nl_type)' /\ Taught(nl_arg)'
  BY <1>1, <1>2, SeenWhole, TaughtNext
<1>4. Known(at - 1)' /\ Clean(at - 1)' /\ (l10n <=> Marked(at - 1))'
  <2>1. at' - 1 = 0 /\ l10n' = FALSE
    BY <1>1 DEF Start
  <2> QED BY <2>1 DEF Known, Clean, Marked
<1>5. BadFormatsAreRefused'
  BY <1>1 DEF BadFormatsAreRefused
<1> QED BY <1>1, <1>3, <1>4, <1>5 DEF Noticed

LEMMA NoticedCollect ==
  ASSUME Shape, Noticed, CollectText \/ CollectConversion \/ CollectEnd
  PROVE  Noticed'
<1>1. Passed /\ pass = "collect"
  BY PassedIs DEF Shape, CollectText, CollectConversion, CollectEnd, More
<1>2. PICK n \in Nat : n = at - 1 /\ at = n + 1 /\ n <= Len(fmt) /\ Len(fmt) \in Nat
  <2>1. at \in 1 .. Len(fmt) + 1 /\ Len(fmt) \in Nat
    BY <1>1 DEF Shape, Passed
  <2>2. at - 1 \in Nat /\ at - 1 <= Len(fmt) /\ at = at - 1 + 1
    BY <2>1
  <2> QED BY <2>1, <2>2
<1>3. (l10n <=> Met(n)) /\ Seen(n, nl_type)
  BY <1>1, <1>2 DEF Noticed
<1>4. CASE CollectText
  <2>1. CASE TooLong(Len(Directive.text))
    <3>1. Finish(-1)
      BY <1>4, <2>1 DEF CollectText
    <3> QED BY <3>1, NoticedFinish
  <2>2. CASE ~ TooLong(Len(Directive.text))
    <3>1. at' = at + 1 /\ UNCHANGED <<caller, pass, l10n, nl_type>> /\ IsText
      BY <1>4, <2>2 DEF CollectText
    <3>2. ~ IsConversion(n + 1)
      BY <1>2, <3>1 DEF IsText, IsConversion, Directive
    <3>3. \A j \in 1 .. n + 1 : j \in 1 .. n \/ j = n + 1
      OBVIOUS
    <3>4. UsesTo(n + 1) = UsesTo(n)
      BY <3>2, UsesGrow
    <3>5. Met(n + 1) <=> Met(n)
      BY <3>2, <3>3 DEF Met
    <3>6. Seen(n + 1, nl_type)
      BY <1>3, <3>2, <3>3, <3>4 DEF Seen
    <3>7. PICK k \in Nat : k = n + 1 /\ at' = k + 1 /\ at' - 1 = k
      BY <1>2, <3>1
    <3>8. Seen(at - 1, nl_type)'
      BY <3>1, <3>6, <3>7, SeenNext DEF caller
    <3>9. (l10n' <=> Met(at - 1)')
      <4>1. (l10n' <=> Met(k))
        BY <1>3, <3>1, <3>5, <3>7
      <4> QED BY <3>1, <3>7, <4>1 DEF Met, IsConversion, caller
    <3>10. pass' = "collect"
      BY <1>1, <3>1
    <3>11. BadFormatsAreRefused'
      BY <3>10 DEF BadFormatsAreRefused
    <3> QED BY <3>8, <3>9, <3>10, <3>11 DEF Noticed
  <2> QED BY <2>1, <2>2
<1>5. CASE CollectConversion
  <2>1. CASE Invalid(Directive)
    <3>1. Finish(-1)
      BY <1>5, <2>1 DEF CollectConversion
    <3> QED BY <3>1, NoticedFinish
  <2>2. CASE ~ Invalid(Directive) /\ Directive.pos = NoPos
    <3>1. PICK u \in Unset : Start(u)
      BY <1>5, <2>2 DEF CollectConversion
    <3>2. at \in Conversions(fmt) /\ ~ ByPosition(fmt[at])
      BY <1>2, <1>5, <2>2 DEF CollectConversion, More, IsText, Directive, Conversions, ByPosition
    <3>3. ~ AllNamed
      BY <3>2 DEF AllNamed
    <3> QED BY <1>1, <3>1, <3>3, NoticedStart
  <2>3. CASE ~ Invalid(Directive) /\ Directive.pos # NoPos
    <3>1. nl_type' = Noted(Directive) /\ l10n' = AnyLocalised(Directive) /\ at' = at + 1 /\ UNCHANGED <<caller, pass>>
      BY <1>5, <2>3 DEF CollectConversion
    <3>2. at <= Len(fmt) /\ ~ IsText
      BY <1>5 DEF CollectConversion, More
    <3>3. Seen(n + 1, Noted(Directive))
      BY <1>2, <1>3, <2>3, <3>2, SeenMore DEF ByPosition
    <3>4. PICK k \in Nat : k = n + 1 /\ at' = k + 1 /\ at' - 1 = k
      BY <1>2, <3>1
    <3>5. Seen(at - 1, nl_type)'
      BY <3>1, <3>3, <3>4, SeenNext DEF caller
    <3>6. l10n'
      BY <2>3, <3>1 DEF AnyLocalised, Localised
    <3>7. Met(at - 1)'
      <4>1. at \in 1 .. k /\ IsConversion(at)
        BY <1>2, <3>2, <3>4 DEF IsText, IsConversion, Directive
      <4> QED BY <3>1, <3>4, <4>1 DEF Met, IsConversion, caller
    <3>8. pass' = "collect" /\ BadFormatsAreRefused'
      BY <1>1, <3>1 DEF BadFormatsAreRefused
    <3> QED BY <3>5, <3>6, <3>7, <3>8, Zenon DEF Noticed
  <2> QED BY <2>1, <2>2, <2>3
<1>6. CASE CollectEnd
  <2>1. PICK u \in Unset : IF l10n /\ Gap THEN Finish(-1) ELSE Start(IF l10n THEN Filled(u) ELSE u)
    BY <1>6 DEF CollectEnd
  <2>2. CASE l10n /\ Gap
    BY <2>1, <2>2, NoticedFinish
  <2>3. CASE ~ (l10n /\ Gap)
    <3>1. PICK v : v = (IF l10n THEN Filled(u) ELSE u) /\ Start(v)
      BY <2>1, <2>3
    <3>2. n = Len(fmt)
      BY <1>2, <1>6 DEF CollectEnd
    <3>3. Taught(v)
      <4>1. CASE ~ l10n
        <5>1. \A j \in 1 .. Len(fmt) : ~ IsConversion(j)
          BY <1>3, <3>2, <4>1 DEF Met
        <5> QED BY <5>1, UsesAre DEF Taught
      <4>2. CASE l10n
        <5>1. ~ Gap /\ v = Filled(u)
          BY <2>3, <3>1, <4>2
        <5>2. \A k \in Leading : k \in 0 .. NL_ARGMAX
          BY DEF Leading
        <5>3. \A k \in Leading : v[k] = Popped(nl_type[k], args[k])
          BY <5>1, <5>2 DEF Filled
        <5> QED BY <5>1, <5>3 DEF Taught
      <4> QED BY <4>1, <4>2
    <3> QED BY <1>1, <1>3, <3>1, <3>2, <3>3, NoticedStart
  <2> QED BY <2>2, <2>3
<1> QED BY <1>4, <1>5, <1>6

\* The second pass goes on with what the first one left.
LEMMA NoticedOn ==
  ASSUME Shape, Noticed, pass = "print", pass' = "print", at' = at + 1, at <= Len(fmt),
         IF IsConversion(at) THEN ~ Invalid(Directive) /\ l10n' = AnyLocalised(Directive) ELSE l10n' = l10n,
         UNCHANGED <<caller, nl_type, nl_arg>>
  PROVE  Noticed'
<1>1. PICK n \in Nat : n = at - 1 /\ at = n + 1
  <2>1. at \in 1 .. Len(fmt) + 1 /\ Len(fmt) \in Nat
    BY PassedIs DEF Shape, Passed
  <2>2. at - 1 \in Nat /\ at = at - 1 + 1
    BY <2>1
  <2> QED BY <2>2
<1>20. \A j : j \in 1 .. n + 1 <=> j \in 1 .. n \/ j = at
  BY <1>1
<1>21. Known(n) /\ Clean(n) /\ (l10n <=> Marked(n))
  BY <1>1 DEF Noticed
<1>22. Known(n + 1)
  BY <1>20, <1>21 DEF Known, Invalid, Directive
<1>23. Marked(n + 1) <=> Marked(n) \/ Marks(fmt[at])
  BY <1>20 DEF Marked
<1>24. l10n' <=> Marked(n + 1)
  <2>1. CASE IsConversion(at)
    BY <1>21, <1>23, <2>1 DEF AnyLocalised, Localised, Directive, Marks, ByPosition, IsConversion
  <2>2. CASE ~ IsConversion(at)
    BY <1>21, <1>23, <2>2 DEF Marks, IsConversion
  <2> QED BY <2>1, <2>2
<1>25. Clean(n + 1)
  <2>1. MarkedBefore(fmt, at) <=> l10n
    BY <1>1, <1>21 DEF MarkedBefore, Marked
  <2>2. IsConversion(at) => ~ Clashes(fmt, at)
    BY <2>1 DEF Clashes, Invalid, Localised, Directive, Marks, ByPosition
  <2> QED BY <1>20, <1>21, <2>2 DEF Clean
<1>3. Known(at - 1)' /\ Clean(at - 1)' /\ (l10n <=> Marked(at - 1))'
  <2>1. at' - 1 = n + 1 /\ fmt' = fmt
    BY <1>1 DEF caller
  <2> QED BY <1>22, <1>24, <1>25, <2>1 DEF Known, Clean, Marked, IsConversion, Clashes, MarkedBefore
<1>4. fmt' = fmt /\ args' = args /\ nl_type' = nl_type /\ nl_arg' = nl_arg
  BY DEF caller
<1>5. AllNamed' => AllNamed
  BY <1>4 DEF AllNamed, Conversions
<1>6. AllNamed' => Seen(Len(fmt), nl_type)' /\ Taught(nl_arg)'
  BY <1>4, <1>5, SeenWhole, TaughtNext DEF Noticed
<1>7. BadFormatsAreRefused'
  BY DEF BadFormatsAreRefused
<1> QED BY <1>3, <1>6, <1>7 DEF Noticed

LEMMA NoticedPrint ==
  ASSUME Shape, Noticed, PrintText \/ StoreCount \/ PrintField \/ PrintRefused \/ WidthOverflow
  PROVE  Noticed'
<1>1. CASE PrintText
  <2>1. CASE TooLong(Len(Directive.text))
    BY <1>1, <2>1, NoticedFinish DEF PrintText
  <2>2. CASE ~ TooLong(Len(Directive.text))
    <3>1. pass = "print" /\ at <= Len(fmt) /\ at' = at + 1 /\ UNCHANGED <<caller, pass, l10n, nl_type, nl_arg>> /\ ~ IsConversion(at)
      BY <1>1, <2>2 DEF PrintText, More, IsText, IsConversion, Directive
    <3> QED BY <3>1, NoticedOn
  <2> QED BY <2>1, <2>2
<1>2. CASE StoreCount
  <2>1. /\ pass = "print" /\ at <= Len(fmt) /\ at' = at + 1 /\ UNCHANGED <<caller, pass, nl_type, nl_arg>>
        /\ ~ Invalid(Directive) /\ l10n' = AnyLocalised(Directive) /\ IsConversion(at)
    BY <1>2 DEF StoreCount, More, IsText, IsConversion, Directive
  <2> QED BY <2>1, NoticedOn
<1>3. CASE PrintField
  <2>1. pass = "print" /\ at <= Len(fmt) /\ ~ Invalid(Directive) /\ IsConversion(at)
    BY <1>3 DEF PrintField, More, IsText, IsConversion, Directive
  <2>2. Finish(-1) \/ (at' = at + 1 /\ l10n' = AnyLocalised(Directive) /\ UNCHANGED <<caller, pass, nl_type, nl_arg>>)
    BY <1>3 DEF PrintField
  <2> QED BY <2>1, <2>2, NoticedOn, NoticedFinish
<1>4. CASE PrintRefused
  BY <1>4, NoticedFinish DEF PrintRefused
<1>5. CASE WidthOverflow
  BY <1>5 DEF WidthOverflow, Noticed, BadFormatsAreRefused
<1> QED BY <1>1, <1>2, <1>3, <1>4, <1>5

LEMMA NoticedEnd ==
  ASSUME Shape, Noticed, PrintEnd
  PROVE  Noticed'
<1>1. pass = "print" /\ at > Len(fmt) /\ pass' = "done" /\ fmt' = fmt /\ Passed
  BY PassedIs DEF PrintEnd, Finish, caller, Shape
<1>2. at - 1 = Len(fmt)
  BY <1>1 DEF Shape, Passed
<1>3. \A i \in Conversions(fmt) : TypeOf(fmt[i]) # NoType /\ ~ Clashes(fmt, i)
  BY <1>1, <1>2, UsesAre DEF Noticed, Known, Clean
<1>4. AllNamed /\ 0 \notin Positions(fmt) => Positions(fmt) = 1 .. Cardinality(Positions(fmt))
  BY <1>1, PositionsAre DEF Noticed, Passed
<1>5. BadFormatsAreRefused'
  BY <1>1, <1>3, <1>4 DEF BadFormatsAreRefused, Unknown, LeavesGap, AllNamed
<1> QED BY <1>1, <1>5 DEF Noticed

LEMMA NoticedStep ==
  ASSUME Shape, Noticed, [PrintfNext]_printf_vars
  PROVE  Noticed'
<1>1. CASE CollectText \/ CollectConversion \/ CollectEnd
  BY <1>1, NoticedCollect
<1>2. CASE PrintText \/ StoreCount \/ PrintField \/ PrintRefused \/ WidthOverflow
  BY <1>2, NoticedPrint
<1>3. CASE PrintEnd
  BY <1>3, NoticedEnd
<1>4. CASE UNCHANGED printf_vars
  <2>1. fmt' = fmt /\ args' = args /\ pass' = pass /\ at' = at /\ l10n' = l10n /\ nl_type' = nl_type /\ nl_arg' = nl_arg /\ ret' = ret
    BY <1>4 DEF printf_vars
  <2>2. /\ Met(at - 1)' = Met(at - 1) /\ Seen(at - 1, nl_type)' = Seen(at - 1, nl_type)
        /\ Seen(Len(fmt), nl_type)' = Seen(Len(fmt), nl_type) /\ AllNamed' = AllNamed
        /\ Known(at - 1)' = Known(at - 1) /\ Taught(nl_arg)' = Taught(nl_arg)
        /\ Clean(at - 1)' = Clean(at - 1) /\ Marked(at - 1)' = Marked(at - 1)
    BY <2>1, Zenon DEF Seen, Met, UsesTo, IsConversion, AllNamed, Known, Taught, Conversions, Gap, Leading, Clean, Marked
  <2>3. BadFormatsAreRefused' = BadFormatsAreRefused
    BY <2>1, Zenon DEF BadFormatsAreRefused, Unknown, LeavesGap, Conversions
  <2> QED BY <2>1, <2>2, <2>3, Zenon DEF Noticed
<1> QED BY <1>1, <1>2, <1>3, <1>4 DEF PrintfNext

\* A call of printf_core that ends returns -1 for a format with an unknown
\* conversion, with an ordinary asterisk behind a position, or all by position
\* with a gap, for all formats and arguments.  It says nothing of the mixes and of
\* the position 0 that the code lets through (BadFormatsAreRefused names them).
THEOREM BadFormatsFail == PrintfSpec => []BadFormatsAreRefused
<1> DEFINE Inv == Shape /\ Sunk /\ Noticed
<1>1. PrintfInit => Inv
  BY ShapeInit, NoticedInit
<1>2. Inv /\ [PrintfNext]_printf_vars => Inv'
  BY ShapeStep, NoticedStep
<1>3. Inv => BadFormatsAreRefused
  BY DEF Noticed
<1> QED BY <1>1, <1>2, <1>3, PTL DEF PrintfSpec
-----------------------------------------------------------------------------
(* Formats that the standard promises something of *)
Ordinary == Uses(fmt) = {} /\ \A i \in Conversions(fmt) : ~ ByPosition(fmt[i])
Positioned ==
  /\ \A i \in Conversions(fmt) : ByPosition(fmt[i]) /\ \A g \in Fields(fmt[i]) : g.by # "next"
  /\ Positions(fmt) = 1 .. Cardinality(Positions(fmt)) /\ Cardinality(Uses(fmt)) = Cardinality(Positions(fmt))
Sound == \A i \in Conversions(fmt) : TypeOf(fmt[i]) # NoType /\ \A g \in Fields(fmt[i]) : g.by = "num" => g.n <= IntMax

LEMMA WellFormedIs == WellFormed(fmt) <=> Sound /\ (Ordinary \/ Positioned)
BY DEF WellFormed, Sound, Ordinary, Positioned

LEMMA UsesFinite ==
  ASSUME Passed
  PROVE  IsFiniteSet(Uses(fmt))
<1> DEFINE S == (1 .. Len(fmt)) \X (1 .. 3)
           Use(i, k) == IF k = 1 THEN <<fmt[i].pos, TypeOf(fmt[i])>>
                        ELSE IF k = 2 THEN <<fmt[i].width.n, CInt>> ELSE <<fmt[i].prec.n, CInt>>
           f == [t \in S |-> Use(t[1], t[2])]
           T == {f[t] : t \in S}
<1>1. IsFiniteSet(S)
  <2>1. Len(fmt) \in Nat
    BY DEF Passed
  <2>2. IsFiniteSet(1 .. Len(fmt)) /\ IsFiniteSet(1 .. 3)
    <3>1. ASSUME NEW k \in Int PROVE IsFiniteSet(1 .. k)
      <4>1. PICK a \in Int : a = 1
        OBVIOUS
      <4>2. IsFiniteSet(a .. k)
        BY FS_Interval
      <4> QED BY <4>1, <4>2
    <3>2. PICK l \in Int, m \in Int : l = Len(fmt) /\ m = 3
      BY <2>1
    <3>3. IsFiniteSet(1 .. l) /\ IsFiniteSet(1 .. m)
      BY <3>1
    <3> QED BY <3>2, <3>3
  <2> QED BY <2>2, FS_Product
<1>2. f \in Surjection(S, T)
  <2>1. f \in [S -> T] /\ \A u \in T : \E t \in S : f[t] = u
    <3> HIDE DEF S, Use
    <3> QED OBVIOUS
  <2> HIDE DEF f, S, T
  <2> QED BY <2>1 DEF Surjection
<1>3. IsFiniteSet(T)
  <2> HIDE DEF f, S, T
  <2> QED BY <1>1, <1>2, FS_Surjection
<1>4. ASSUME NEW i \in 1 .. Len(fmt), NEW k \in 1 .. 3 PROVE Use(i, k) \in T
  <2>1. <<i, k>> \in S /\ f[<<i, k>>] = Use(i, k)
    <3> HIDE DEF Use
    <3> QED OBVIOUS
  <2> HIDE DEF f, S
  <2> QED BY <2>1
<1>5. ASSUME NEW u \in Uses(fmt) PROVE u \in T
  <2>1. PICK i \in 1 .. Len(fmt) : u \in UsesOf(fmt[i])
    BY UsesAre DEF UsesTo
  <2>2. u = Use(i, 1) \/ u = Use(i, 2) \/ u = Use(i, 3)
    BY <2>1 DEF UsesOf, Fields
  <2> HIDE DEF Use, T
  <2> QED BY <1>4, <2>2
<1>6. Uses(fmt) \in SUBSET T
  BY <1>5
<1> HIDE DEF T
<1> QED BY <1>3, <1>6, FS_Subset

\* In a well-formed format every position has one type.
LEMMA OneType ==
  ASSUME Passed, Positioned, NEW u \in Uses(fmt), NEW v \in Uses(fmt), u[1] = v[1]
  PROVE  u = v
<1> DEFINE f == [x \in Uses(fmt) |-> x[1]]
<1>1. f \in [Uses(fmt) -> Positions(fmt)] /\ \A p \in Positions(fmt) : \E x \in Uses(fmt) : f[x] = p
  BY DEF Positions
<1>2. f \in Surjection(Uses(fmt), Positions(fmt))
  <2> HIDE DEF f
  <2> QED BY <1>1 DEF Surjection
<1>3. f \in Injection(Uses(fmt), Positions(fmt))
  <2>1. IsFiniteSet(Uses(fmt)) /\ Cardinality(Uses(fmt)) = Cardinality(Positions(fmt))
    BY UsesFinite DEF Positioned
  <2> HIDE DEF f
  <2> QED BY <1>2, <2>1, FS_SurjSameCardinalityImpliesInj
<1>4. \A x, y \in Uses(fmt) : f[x] = f[y] => x = y
  BY <1>3 DEF Injection, IsInjective
<1> QED BY <1>4

\* ... and no gap is found.
LEMMA NoGap ==
  ASSUME NL_ARGMAX \in Nat, Positioned, Seen(Len(fmt), nl_type), \A u \in UsesTo(Len(fmt)) : u[1] # 0
  PROVE  ~ Gap
<1>1. SUFFICES ASSUME NEW i \in (1 .. NL_ARGMAX) \ Leading, nl_type[i] # NoType PROVE FALSE
  BY DEF Gap
<1>2. i \in Positions(fmt)
  <2>1. <<i, nl_type[i]>> \in Uses(fmt)
    BY <1>1, UsesAre DEF Seen
  <2> QED BY <2>1 DEF Positions
<1>3. ASSUME NEW j \in 1 .. i PROVE nl_type[j] # NoType
  <2>1. PICK m : Positions(fmt) = 1 .. m /\ (m \in Nat)
    <3>1. IsFiniteSet(Positions(fmt))
      <4>1. Positions(fmt) \in SUBSET (0 .. NL_ARGMAX)
        BY UsesAre DEF Positions, Seen
      <4>2. IsFiniteSet(0 .. NL_ARGMAX)
        BY FS_Interval
      <4> QED BY <4>1, <4>2, FS_Subset
    <3>2. Cardinality(Positions(fmt)) \in Nat
      BY <3>1, FS_CardinalityType
    <3> QED BY <3>2 DEF Positioned
  <2>2. j \in Positions(fmt)
    BY <1>2, <2>1
  <2>3. PICK u \in UsesTo(Len(fmt)) : j = u[1]
    BY <2>2, UsesAre DEF Positions
  <2> QED BY <2>3 DEF Seen
<1> QED BY <1>1, <1>3 DEF Leading
-----------------------------------------------------------------------------
(* The slots of the arguments, and the text before a directive *)
LEMMA SlotsAre ==
  ASSUME Passed
  PROVE  /\ Slots(fmt) \in [0 .. Len(fmt) -> Nat] /\ Slots(fmt)[0] = 0
         /\ \A i \in 1 .. Len(fmt) : /\ Slots(fmt)[i] = Slots(fmt)[i - 1] + SlotsOf(fmt[i])
                                     /\ SlotsOf(fmt[i]) \in 0 .. 3
<1> DEFINE N == Len(fmt)
           Eq(f) == f = [i \in 0 .. Len(fmt) |-> IF i = 0 THEN 0 ELSE f[i - 1] + SlotsOf(fmt[i])]
           J == [i \in 1 .. N |-> i - 1]
           G == [t \in (1 .. N) \X Nat |-> t[2] + SlotsOf(fmt[t[1]])]
<1>1. N \in Nat /\ \A i \in 1 .. N : SlotsOf(fmt[i]) \in 0 .. 3
  <2>1. \A g : Star(g) \in 0 .. 1
    BY DEF Star
  <2>2. ASSUME NEW i \in 1 .. N PROVE SlotsOf(fmt[i]) \in 0 .. 3
    <3>1. PICK a \in 0 .. 1, b \in 0 .. 1 : a = Star(fmt[i].width) /\ b = Star(fmt[i].prec)
      BY <2>1
    <3>2. SlotsOf(fmt[i]) = 0 \/ SlotsOf(fmt[i]) = a + b + 1
      BY <3>1 DEF SlotsOf
    <3> QED BY <3>2
  <2> QED BY <2>2 DEF Passed
<1>2. PICK f \in [0 .. N -> Nat] : \A i \in 0 .. N : f[i] = IF i = 0 THEN 0 ELSE G[<<i, f[J[i]]>>]
  <2>1. J \in [1 .. N -> 0 .. N] /\ \A i \in 1 .. N : J[i] < i
    BY <1>1
  <2>2. G \in [(1 .. N) \X Nat -> Nat] /\ 0 \in Nat
    <3>1. ASSUME NEW t \in (1 .. N) \X Nat PROVE t[2] + SlotsOf(fmt[t[1]]) \in Nat
      <4>1. t[1] \in 1 .. N /\ t[2] \in Nat
        OBVIOUS
      <4>2. SlotsOf(fmt[t[1]]) \in 0 .. 3
        BY <1>1, <4>1
      <4> QED BY <4>1, <4>2
    <3> QED BY <3>1
  <2> HIDE DEF J, G, N
  <2>3. Steps(N, Nat, 0, J, G)
    BY <1>1, <2>1, <2>2, FromBefore
  <2> QED BY <2>3, Zenon DEF Steps
<1>3. ASSUME NEW i \in 0 .. N PROVE f[i] = IF i = 0 THEN 0 ELSE f[i - 1] + SlotsOf(fmt[i])
  <2>1. i # 0 => i \in 1 .. N /\ i - 1 \in 0 .. N /\ J[i] = i - 1
    BY <1>1
  <2>2. i # 0 => <<i, f[i - 1]>> \in (1 .. N) \X Nat
    BY <2>1, <1>2
  <2>3. i # 0 => G[<<i, f[i - 1]>>] = f[i - 1] + SlotsOf(fmt[i])
    BY <2>2
  <2> HIDE DEF J, G
  <2> QED BY <1>2, <2>1, <2>3
<1>4. Eq(f)
  BY <1>2, <1>3
<1>5. Slots(fmt) = CHOOSE h : Eq(h)
  BY Zenon DEF Slots
<1>6. Eq(Slots(fmt))
  <2> HIDE DEF Eq
  <2> QED BY <1>4, <1>5, Zenon
<1> DEFINE s == Slots(fmt)
<1>7. s = [i \in 0 .. N |-> s[i]] /\ \A i \in 0 .. N : s[i] = IF i = 0 THEN 0 ELSE s[i - 1] + SlotsOf(fmt[i])
  BY <1>6
<1> HIDE DEF s
<1>8. f = s
  <2> DEFINE Bad == {i \in 0 .. N : f[i] # s[i]}
  <2>1. Bad = {}
    <3>1. SUFFICES ASSUME Bad # {} PROVE FALSE
      OBVIOUS
    <3>2. PICK i \in Bad : \A y \in Bad : i <= y
      <4>1. Bad \in SUBSET (0 .. N)
        OBVIOUS
      <4> HIDE DEF Bad, N
      <4> QED BY <1>1, <3>1, <4>1, LeastElement
    <3>3. i # 0 => i - 1 \in 0 .. N /\ i - 1 \notin Bad
      BY <1>1, <3>2
    <3>4. i # 0 => f[i - 1] = s[i - 1]
      BY <3>3
    <3>5. i \in 0 .. N /\ f[i] # s[i]
      BY <3>2
    <3> QED BY <1>3, <1>7, <3>4, <3>5
  <2>2. \A i \in 0 .. N : f[i] = s[i]
    BY <2>1
  <2>3. f = [i \in 0 .. N |-> f[i]]
    OBVIOUS
  <2> HIDE DEF N
  <2> QED BY <1>7, <2>2, <2>3
<1>9. \A i \in 1 .. N : i \in 0 .. N /\ i # 0
  OBVIOUS
<1> QED BY <1>1, <1>2, <1>3, <1>8, <1>9 DEF s

\* As long as every directive has a text.
LEMMA BeforeIs ==
  ASSUME Passed, \A i \in 1 .. Len(fmt) : TextOf(fmt, args, i) \in Seq(TextChars)
  PROVE  /\ Before(fmt, args) \in [0 .. Len(fmt) -> Seq(TextChars)] /\ Before(fmt, args)[0] = <<>>
         /\ \A i \in 1 .. Len(fmt) : Before(fmt, args)[i] = Before(fmt, args)[i - 1] \o TextOf(fmt, args, i)
<1> DEFINE N == Len(fmt)
           S == Seq(TextChars)
           Tx(i) == TextOf(fmt, args, i)
           Eq(f) == f = [i \in 0 .. Len(fmt) |-> IF i = 0 THEN <<>> ELSE f[i - 1] \o Tx(i)]
           J == [i \in 1 .. N |-> i - 1]
           G == [t \in (1 .. N) \X S |-> t[2] \o Tx(t[1])]
<1>1. N \in Nat /\ \A i \in 1 .. N : Tx(i) \in S
  BY DEF Passed
<1>2. Before(fmt, args) = CHOOSE h : Eq(h)
  BY Zenon DEF Before
<1> HIDE DEF Tx
<1>3. PICK f \in [0 .. N -> S] : \A i \in 0 .. N : f[i] = IF i = 0 THEN <<>> ELSE G[<<i, f[J[i]]>>]
  <2>1. J \in [1 .. N -> 0 .. N] /\ \A i \in 1 .. N : J[i] < i
    BY <1>1
  <2>2. G \in [(1 .. N) \X S -> S] /\ <<>> \in S
    <3>1. ASSUME NEW t \in (1 .. N) \X S PROVE t[2] \o Tx(t[1]) \in S
      <4>1. t[1] \in 1 .. N /\ t[2] \in S
        OBVIOUS
      <4>2. Tx(t[1]) \in S
        BY <1>1, <4>1
      <4> QED BY <4>1, <4>2, ConcatProperties
    <3> QED BY <3>1, EmptySeq
  <2> HIDE DEF J, G, N, S
  <2>3. Steps(N, S, <<>>, J, G)
    BY <1>1, <2>1, <2>2, FromBefore
  <2> QED BY <2>3, Zenon DEF Steps
<1>4. ASSUME NEW i \in 0 .. N PROVE f[i] = IF i = 0 THEN <<>> ELSE f[i - 1] \o Tx(i)
  <2>1. i # 0 => i \in 1 .. N /\ i - 1 \in 0 .. N /\ J[i] = i - 1
    BY <1>1
  <2>2. i # 0 => <<i, f[i - 1]>> \in (1 .. N) \X S
    BY <2>1, <1>3
  <2>3. i # 0 => G[<<i, f[i - 1]>>] = f[i - 1] \o Tx(i)
    BY <2>2
  <2> HIDE DEF J, G, S
  <2> QED BY <1>3, <2>1, <2>3
<1>5. Eq(f)
  BY <1>3, <1>4
<1>6. Eq(Before(fmt, args))
  <2> HIDE DEF Eq
  <2> QED BY <1>5, <1>2, Zenon
<1> DEFINE s == Before(fmt, args)
<1>7. s = [i \in 0 .. N |-> s[i]] /\ \A i \in 0 .. N : s[i] = IF i = 0 THEN <<>> ELSE s[i - 1] \o Tx(i)
  BY <1>6
<1> HIDE DEF s
<1>8. f = s
  <2> DEFINE Bad == {i \in 0 .. N : f[i] # s[i]}
  <2>1. Bad = {}
    <3>1. SUFFICES ASSUME Bad # {} PROVE FALSE
      OBVIOUS
    <3>2. PICK i \in Bad : \A y \in Bad : i <= y
      <4>1. Bad \in SUBSET (0 .. N)
        OBVIOUS
      <4> HIDE DEF Bad, N
      <4> QED BY <1>1, <3>1, <4>1, LeastElement
    <3>3. i # 0 => i - 1 \in 0 .. N /\ i - 1 \notin Bad
      BY <1>1, <3>2
    <3>4. i # 0 => f[i - 1] = s[i - 1]
      BY <3>3
    <3>5. i \in 0 .. N /\ f[i] # s[i]
      BY <3>2
    <3> QED BY <1>4, <1>7, <3>4, <3>5
  <2>2. \A i \in 0 .. N : f[i] = s[i]
    BY <2>1
  <2>3. f = [i \in 0 .. N |-> f[i]]
    OBVIOUS
  <2> HIDE DEF N
  <2> QED BY <1>7, <2>2, <2>3
<1>9. \A i \in 1 .. N : i \in 0 .. N /\ i # 0
  OBVIOUS
<1>10. 0 \in 0 .. N
  BY <1>1
<1>11. s \in [0 .. N -> S] /\ s[0] = <<>>
  BY <1>3, <1>4, <1>8, <1>10
<1>12. \A i \in 1 .. N : s[i] = s[i - 1] \o Tx(i)
  BY <1>4, <1>8, <1>9
<1> QED BY <1>11, <1>12 DEF s, Tx
-----------------------------------------------------------------------------
(* One conversion as the standard words it *)
\* Two runs of the same length are the same.
LEMMA RunsAgree ==
  ASSUME NEW c, NEW m \in Int, NEW n \in Int, Larger(0, m) = Larger(0, n)
  PROVE  Run(c, m) = Run(c, n)
<1>1. 1 .. m = 1 .. n
  BY DEF Larger
<1> QED BY <1>1 DEF Run

LEMMA AbsIs == \A n \in Int : Abs(n) \in Nat /\ (Abs(n) # 0 <=> n # 0)
BY DEF Abs

LEMMA LargerIs == \A n \in Nat : Larger(0, n) = n
BY DEF Larger

LEMMA NoRun == Run("0", 0) = <<>>
<1>1. "0" \in {"0"} /\ 0 \in Int /\ 0 <= 0
  OBVIOUS
<1> QED BY <1>1, RunIs

LEMMA RunOne == Run("0", 1) = <<"0">>
<1>1. 1 .. 1 = {1}
  OBVIOUS
<1>2. Run("0", 1) \in Seq({"0"}) /\ Len(Run("0", 1)) = 1 /\ Run("0", 1)[1] = "0"
  <2>1. "0" \in {"0"} /\ 1 \in Int /\ 1 \in 1 .. 1 /\ Larger(0, 1) = 1
    BY DEF Larger
  <2>2. Run("0", 1) \in Seq({"0"}) /\ Len(Run("0", 1)) = Larger(0, 1) /\ \A i \in 1 .. 1 : Run("0", 1)[i] = "0"
    BY <2>1, RunIs
  <2> QED BY <2>1, <2>2
<1>3. <<"0">> \in Seq({"0"}) /\ Len(<<"0">>) = 1 /\ <<"0">>[1] = "0"
  OBVIOUS
<1> QED BY <1>1 DEF Run

\* The value whose digits are printed.
LEMMA MagnitudeIs ==
  ASSUME NEW d \in ConversionDirective, TypeOf(d) # NoType, NEW slot \in Value
  PROVE  LET v == Popped(TypeOf(d), slot)
             n == Number2(TypeOf(d), slot)
             signed == d.conv \in {"d", "i"}
         IN  /\ d.conv # "c" => (IF signed /\ v >= Uintmax \div 2 THEN Uintmax - v ELSE v) = Abs(n)
             /\ signed => (v >= Uintmax \div 2 <=> n < 0)
             /\ Abs(n) \in Nat /\ n \in Int
             /\ d.conv # "c" => Abs(n) \in Value
<1> DEFINE t == TypeOf(d)
           v == Popped(t, slot)
           n == Number2(t, slot)
<1>1. Typed(t) /\ (d.conv \in {"d", "i"} => t.signed) /\ (d.conv \in {"o", "u", "x", "X", "s", "p", "n"} => ~ t.signed)
      /\ d.conv \in {"d", "i", "o", "u", "x", "X", "c", "s", "p", "n"}
  BY TypeOfIs
<1> HIDE DEF t
<1>2. /\ v \in Value /\ n \in Int /\ Uintmax \in Nat
      /\ n >= 0 => v = n
      /\ n < 0 => t.signed /\ v >= Uintmax \div 2 /\ v = Uintmax + n
      /\ t.signed /\ n >= 0 => v < Uintmax \div 2
  BY <1>1, NumberIs
<1> HIDE DEF v, n
<1>3. PICK u \in Nat \ {0}, half \in Nat \ {0} : u = Uintmax /\ half = Uintmax \div 2 /\ u = 2 * half /\ v \in 0 .. u - 1 /\ Value = 0 .. u - 1
  BY <1>2, UintmaxIs
<1>4. CASE n >= 0
  <2>1. v = n /\ Abs(n) = n /\ (t.signed => v < half)
    BY <1>2, <1>3, <1>4 DEF Abs
  <2>2. ~ (d.conv \in {"d", "i"} /\ v >= half)
    BY <1>1, <1>3, <2>1
  <2>3. n \in Value
    BY <1>2, <2>1
  <2> QED BY <1>1, <1>2, <1>3, <1>4, <2>1, <2>2, <2>3 DEF t, v, n
<1>5. CASE n < 0
  <2>1. t.signed /\ v >= half /\ v = u + n /\ Abs(n) = - n
    BY <1>2, <1>3, <1>5 DEF Abs
  <2>2. d.conv # "c" => d.conv \in {"d", "i"}
    BY <1>1, <2>1
  <2>3. u - v = - n /\ - n \in 0 .. u - 1
    BY <1>2, <1>3, <1>5, <2>1
  <2> QED BY <1>1, <1>2, <1>3, <1>5, <2>1, <2>2, <2>3 DEF t, v, n
<1> QED BY <1>2, <1>4, <1>5

\* The flags that say how a number looks.
SameMarks(fl, gl) == \A f \in {"#", "+", " "} : f \in fl <=> f \in gl

\* The sign or the base in front of a number.
LEMMA PrefixIs ==
  ASSUME NEW d \in ConversionDirective, TypeOf(d) # NoType, d.conv \notin {"c", "s", "n"}, NEW slot \in Value,
         NEW fl, SameMarks(fl, d.flags), NEW p, NEW xp
  PROVE  Number(d, Popped(TypeOf(d), slot), fl, p, xp).prefix = PrefixOf(d, Number2(TypeOf(d), slot))
<1> DEFINE v == Popped(TypeOf(d), slot)
           n == Number2(TypeOf(d), slot)
           x == IF d.conv \in {"d", "i"} /\ v >= Uintmax \div 2 THEN Uintmax - v ELSE v
           b == Number(d, v, fl, p, xp)
<1>1. x = Abs(n) /\ (d.conv \in {"d", "i"} => (v >= Uintmax \div 2 <=> n < 0)) /\ n \in Int
  BY MagnitudeIs
<1>2. b.prefix = CASE d.conv \in {"d", "i"} -> Sign(v, fl)
                   [] x # 0 /\ (d.conv = "p" \/ (d.conv \in {"x", "X"} /\ "#" \in fl)) -> <<"0", IF d.conv = "X" THEN "X" ELSE "x">>
                   [] OTHER -> <<>>
  BY DEF Number
<1>3. d.conv \in {"d", "i", "o", "u", "x", "X", "p"}
  BY TypeOfIs
<1>4. ("#" \in fl <=> "#" \in d.flags) /\ ("+" \in fl <=> "+" \in d.flags) /\ (" " \in fl <=> " " \in d.flags)
  BY DEF SameMarks
<1> HIDE DEF v, n, x, b
<1>5. x # 0 <=> n # 0
  <2>1. \A m \in Int : Abs(m) # 0 <=> m # 0
    BY AbsIs, Zenon
  <2>2. n \in Int /\ x = Abs(n)
    BY <1>1
  <2> QED BY <2>1, <2>2, Zenon
<1>6. CASE d.conv \in {"d", "i"}
  <2>1. b.prefix = Sign(v, fl)
    BY <1>2, <1>6
  <2>2. Sign(v, fl) = IF n < 0 THEN <<"-">> ELSE IF "+" \in fl THEN <<"+">> ELSE IF " " \in fl THEN <<" ">> ELSE <<>>
    <3>1. v >= Uintmax \div 2 <=> n < 0
      BY <1>1, <1>6
    <3> QED BY <3>1 DEF Sign
  <2>3. PrefixOf(d, n) = SignOf(n, d.flags)
    BY <1>6 DEF PrefixOf
  <2> QED BY <1>4, <2>1, <2>2, <2>3 DEF SignOf, b, v, n
<1>7. CASE d.conv = "X"
  <2>1. b.prefix = IF n # 0 /\ "#" \in d.flags THEN <<"0", "X">> ELSE <<>>
    BY <1>2, <1>4, <1>5, <1>7
  <2>2. PrefixOf(d, n) = IF n # 0 /\ "#" \in d.flags THEN <<"0", "X">> ELSE <<>>
    BY <1>7 DEF PrefixOf
  <2> QED BY <2>1, <2>2 DEF b, v, n
<1>8. CASE d.conv = "x"
  <2>1. b.prefix = IF n # 0 /\ "#" \in d.flags THEN <<"0", "x">> ELSE <<>>
    BY <1>2, <1>4, <1>5, <1>8
  <2>2. PrefixOf(d, n) = IF n # 0 /\ "#" \in d.flags THEN <<"0", "x">> ELSE <<>>
    BY <1>8 DEF PrefixOf
  <2> QED BY <2>1, <2>2 DEF b, v, n
<1>9. CASE d.conv = "p"
  <2>1. b.prefix = IF n # 0 THEN <<"0", "x">> ELSE <<>>
    BY <1>2, <1>5, <1>9
  <2>2. PrefixOf(d, n) = IF n # 0 THEN <<"0", "x">> ELSE <<>>
    BY <1>9 DEF PrefixOf
  <2> QED BY <2>1, <2>2 DEF b, v, n
<1>10. CASE d.conv \in {"o", "u"}
  <2>1. b.prefix = <<>>
    BY <1>2, <1>10
  <2>2. PrefixOf(d, n) = <<>>
    BY <1>10 DEF PrefixOf
  <2> QED BY <2>1, <2>2 DEF b, v, n
<1> QED BY <1>3, <1>6, <1>7, <1>8, <1>9, <1>10

\* The digits of a number with those that its precision asks for.
DigitsMeet(b, d, n, p, fl) ==
  /\ b.p - Len(b.text) \in Nat /\ Run("0", b.p - Len(b.text)) \o b.text = DigitsOf(d, n, p) /\ ~ b.fails
  /\ b.fl = IF p >= 0 THEN fl \ {"0"} ELSE fl
LEMMA DigitsPromised ==
  ASSUME NEW d, d.conv \notin {"c", "s"}, NEW n \in Int, Abs(n) \in Value, NEW p \in Int,
         NEW fl, "#" \in fl <=> "#" \in d.flags,
         NEW v, (IF d.conv \in {"d", "i"} /\ v >= Uintmax \div 2 THEN Uintmax - v ELSE v) = Abs(n),
         NEW xp, xp <=> p >= 0, NEW b, b = Number(d, v, fl, p, xp)
  PROVE  DigitsMeet(b, d, n, p, fl)
<1> DEFINE x == Abs(n)
           digits == Digits(d.conv)[x]
           p1 == Precision(d, p, fl, Len(digits))
           sharp == d.conv = "o" /\ "#" \in d.flags
           m == CASE d.conv = "p" /\ p >= 0 -> Larger(p, PtrDigits) [] p < 0 -> 1 [] OTHER -> p
           plain == Run("0", Larger(0, m - Len(digits))) \o digits
           want == IF sharp /\ (plain = <<>> \/ plain[1] # "0") THEN <<"0">> \o plain ELSE plain
<1>1. /\ b.text = digits
      /\ b.p = IF x = 0 /\ p1 = 0 THEN 0 ELSE Larger(p1, Len(digits) + (IF x = 0 THEN 1 ELSE 0))
      /\ b.fails <=> (xp /\ p1 < 0)
      /\ b.fl = IF p >= 0 THEN fl \ {"0"} ELSE fl
  BY DEF Number
<1>2. DigitsOf(d, n, p) = want
  <2>1. WithZeros(digits, m) = plain
    BY DEF WithZeros
  <2>2. DigitsOf(d, n, p) = IF sharp /\ (WithZeros(digits, m) = <<>> \/ WithZeros(digits, m)[1] # "0") THEN <<"0">> \o WithZeros(digits, m) ELSE WithZeros(digits, m)
    BY Zenon DEF DigitsOf
  <2> HIDE DEF plain, m, digits, sharp
  <2> QED BY <2>1, <2>2 DEF want
<1> HIDE DEF want
<1>3. x \in Nat
  BY DEF Abs
<1>4. /\ digits \in Seq(Characters) /\ (x = 0 => digits = <<>>)
      /\ x # 0 => Len(digits) >= 1 /\ digits[1] # "0"
  BY DigitsAre
<1>5. PICK ptr \in Nat : ptr = PtrDigits
  BY PrintfAssumption
<1> HIDE DEF digits
<1>6. PICK l \in Nat : l = Len(digits) /\ (x = 0 => l = 0) /\ (x # 0 => l >= 1)
  BY <1>4, LenProperties, EmptySeq
<1>7. p1 = IF d.conv = "p" /\ p >= 0 THEN Larger(p, ptr) ELSE IF sharp /\ p < l + 1 THEN l + 1 ELSE p
  <2>1. "#" \in fl <=> "#" \in d.flags
    OBVIOUS
  <2> QED BY <1>5, <1>6, <2>1 DEF Precision
<1>8. p1 \in Int /\ (p >= 0 => p1 >= 0)
  BY <1>5, <1>6, <1>7 DEF Larger
<1>9. m = (IF d.conv = "p" /\ p >= 0 THEN Larger(p, ptr) ELSE IF p < 0 THEN 1 ELSE p) /\ m \in Int
  BY <1>5 DEF Larger
<1> HIDE DEF p1, m, x
<1>10. PICK z \in Nat : b.p - l = z /\ b.p = (IF x = 0 /\ p1 = 0 THEN 0 ELSE Larger(p1, l + (IF x = 0 THEN 1 ELSE 0)))
  <2>1. b.p = (IF x = 0 /\ p1 = 0 THEN 0 ELSE Larger(p1, l + (IF x = 0 THEN 1 ELSE 0)))
    BY <1>1, <1>6
  <2>2. b.p \in Int /\ b.p >= l
    BY <1>6, <1>8, <2>1 DEF Larger
  <2>3. b.p - l \in Nat
    BY <2>2
  <2> QED BY <2>1, <2>3
<1>11. ~ b.fails
  <2>1. ~ (p >= 0 /\ p1 < 0)
    BY <1>8
  <2>2. b.fails <=> (p >= 0 /\ p1 < 0)
    BY <1>1
  <2> QED BY <2>1, <2>2
<1>12. Run("0", z) \o digits = want
  <2>1. CASE ~ sharp
    <3>1. Larger(0, Larger(0, m - l)) = Larger(0, z)
      <4>1. p1 = IF d.conv = "p" /\ p >= 0 THEN Larger(p, ptr) ELSE p
        BY <1>7, <2>1
      <4>2. IF p < 0 THEN m = 1 /\ p1 < 0 ELSE m = p1
        BY <1>9, <4>1
      <4>3. CASE p < 0
        BY <1>6, <1>8, <1>10, <4>2, <4>3 DEF Larger
      <4>4. CASE ~ (p < 0)
        BY <1>6, <1>8, <1>10, <4>2, <4>4 DEF Larger
      <4> QED BY <4>3, <4>4
    <3>2. Larger(0, m - l) \in Int
      BY <1>9 DEF Larger
    <3>3. Run("0", Larger(0, m - l)) = Run("0", z)
      BY <3>1, <3>2, RunsAgree
    <3>4. want = Run("0", Larger(0, m - l)) \o digits
      BY <1>6, <2>1 DEF want
    <3> QED BY <3>3, <3>4
  <2>2. CASE sharp /\ p < l + 1
    <3>1. p1 = l + 1 /\ z = 1
      <4>1. p1 = l + 1
        BY <1>7, <2>2
      <4> QED BY <1>6, <1>10, <4>1 DEF Larger
    <3>2. m = IF p < 0 THEN 1 ELSE p
      BY <1>9, <2>2
    <3>3. Run("0", z) \o digits = <<"0">> \o digits
      BY <3>1, RunOne
    <3>4. CASE x = 0 /\ p < 0
      <4>1. plain = Run("0", 1) \o digits
        <5>1. Larger(0, m - l) = 1
          BY <1>6, <3>2, <3>4 DEF Larger
        <5> QED BY <1>6, <5>1
      <4>2. plain = <<"0">>
        BY <1>4, <3>4, <4>1, RunOne, ConcatEmptySeq
      <4>3. plain # <<>> /\ plain[1] = "0"
        <5>1. <<"0">> # <<>> /\ <<"0">>[1] = "0"
          OBVIOUS
        <5> HIDE DEF plain
        <5> QED BY <4>2, <5>1
      <4> HIDE DEF plain
      <4> QED BY <3>1, <4>1, <4>3 DEF want
    <3>5. CASE ~ (x = 0 /\ p < 0)
      <4>1. Larger(0, m - l) = 0
        BY <1>6, <2>2, <3>2, <3>5 DEF Larger
      <4>2. Run("0", 0) = <<>>
        BY NoRun
      <4>3. plain = digits
        BY <1>4, <1>6, <4>1, <4>2, ConcatEmptySeq
      <4>4. digits = <<>> \/ digits[1] # "0"
        BY <1>4
      <4> HIDE DEF plain
      <4> QED BY <2>2, <3>3, <4>3, <4>4 DEF want
    <3> QED BY <3>4, <3>5
  <2>3. CASE sharp /\ ~ (p < l + 1)
    <3>1. p1 = p /\ z = p - l /\ z >= 1
      <4>1. p1 = p
        BY <1>7, <2>3
      <4> QED BY <1>6, <1>10, <2>3, <4>1 DEF Larger
    <3>2. Larger(0, m - l) = z
      <4>1. m = p
        BY <1>6, <1>9, <2>3
      <4> QED BY <3>1, <4>1 DEF Larger
    <3>3. plain = Run("0", z) \o digits
      BY <1>6, <3>2
    <3>4. PICK r : r = Run("0", z) /\ r \in Seq(Characters) /\ Len(r) = z /\ \A i \in 1 .. z : r[i] = "0"
      <4>1. Larger(0, z) = z /\ z \in Int /\ "0" \in Characters
        <5>1. "0" \in Characters
          BY SymbolsAre
        <5>2. z \in Int /\ Larger(0, z) = z
          BY LargerIs
        <5> QED BY <5>1, <5>2
      <4>2. Run("0", z) \in Seq(Characters) /\ Len(Run("0", z)) = Larger(0, z) /\ \A i \in 1 .. z : Run("0", z)[i] = "0"
        BY <4>1, RunIs
      <4> QED BY <4>1, <4>2
    <3>5. r \o digits \in Seq(Characters) /\ Len(r \o digits) = z + l /\ (r \o digits)[1] = r[1]
      <4>1. 1 \in 1 .. z + l /\ 1 <= z
        BY <3>1
      <4>2. /\ r \o digits \in Seq(Characters) /\ Len(r \o digits) = Len(r) + Len(digits)
            /\ \A i \in 1 .. Len(r) + Len(digits) : (r \o digits)[i] = IF i <= Len(r) THEN r[i] ELSE digits[i - Len(r)]
        BY <1>4, <3>4, ConcatProperties
      <4>3. Len(r) = z /\ Len(digits) = l
        BY <1>6, <3>4
      <4> QED BY <4>1, <4>2, <4>3
    <3>6. plain # <<>> /\ plain[1] = "0"
      <4>1. PICK q \in Seq(Characters) : q = plain /\ q = r \o digits
        BY <3>3, <3>4, <3>5
      <4>2. Len(q) = z + l /\ q[1] = "0" /\ z + l # 0
        <5>1. 1 \in 1 .. z /\ z + l # 0
          BY <3>1
        <5>2. q[1] = r[1] /\ Len(q) = z + l
          BY <3>5, <4>1
        <5>3. r[1] = "0"
          BY <3>4, <5>1
        <5> QED BY <5>1, <5>2, <5>3
      <4>3. q # <<>>
        BY <4>2, EmptySeq
      <4> HIDE DEF plain
      <4> QED BY <4>1, <4>2, <4>3
    <3> HIDE DEF plain
    <3> QED BY <3>3, <3>6 DEF want
  <2> QED BY <2>1, <2>2, <2>3
<1>13. b.p - Len(b.text) = z /\ b.text = digits
  BY <1>1, <1>6, <1>10
<1> QED BY <1>1, <1>2, <1>11, <1>12, <1>13 DEF DigitsMeet

\* The calls for a field, by where its blanks go.
PadOrNot(c, w, len, fl) ==
  Pad(c, w, len, fl) = IF "-" \in fl \/ "0" \in fl THEN <<>> ELSE Run(c, w - len)
LEMMA PadRun ==
  ASSUME NEW c, NEW w \in Int, NEW len \in Int, len <= w, NEW fl
  PROVE  PadOrNot(c, w, len, fl)
<1>1. ASSUME "-" \in fl \/ "0" \in fl PROVE Pad(c, w, len, fl) = <<>>
  <2>1. fl \cap {"-", "0"} # {}
    BY <1>1
  <2> QED BY <2>1 DEF Pad
<1>2. ASSUME "-" \notin fl, "0" \notin fl PROVE Pad(c, w, len, fl) = Run(c, w - len)
  <2>1. fl \cap {"-", "0"} = {}
    BY <1>2
  <2>2. CASE len = w
    <3>1. Pad(c, w, len, fl) = <<>>
      BY <2>2 DEF Pad
    <3>2. c \in {c} /\ w - len \in Int /\ w - len <= 0
      BY <2>2
    <3>3. Run(c, w - len) = <<>>
      BY <3>2, RunIs
    <3> QED BY <3>1, <3>3
  <2>3. CASE len # w
    <3>1. ~ (len >= w)
      BY <2>3
    <3> QED BY <2>1, <3>1 DEF Pad
  <2> QED BY <2>2, <2>3
<1> QED BY <1>1, <1>2, Zenon DEF PadOrNot

LEMMA ToggledIs ==
  ASSUME NEW fl, NEW f
  PROVE  /\ f \notin fl => f \in Toggled(fl, f)
         /\ f \in fl => f \notin Toggled(fl, f)
         /\ \A g : g # f => (g \in Toggled(fl, f) <=> g \in fl)
BY DEF Toggled

\* Six pieces of which only some are there.
Adds(S, a, b) == a \o b \in Seq(S) /\ Len(a \o b) = Len(a) + Len(b)
LEMMA AddsIs ==
  ASSUME NEW S, NEW a \in Seq(S), NEW b \in Seq(S)
  PROVE  Adds(S, a, b)
BY ConcatProperties DEF Adds

Grouped(S, a, b, c) == (a \o b) \o c = a \o (b \o c)
LEMMA GroupedIs ==
  ASSUME NEW S, NEW a \in Seq(S), NEW b \in Seq(S), NEW c \in Seq(S)
  PROVE  Grouped(S, a, b, c)
BY ConcatAssociative DEF Grouped

Pieces(S, q, pre, z, t) ==
  /\ ((((<<>> \o pre) \o <<>>) \o z) \o t) \o q = (pre \o (z \o t)) \o q
  /\ ((((<<>> \o pre) \o q) \o z) \o t) \o <<>> = (pre \o q) \o (z \o t)
  /\ ((((q \o pre) \o <<>>) \o z) \o t) \o <<>> = (q \o pre) \o (z \o t)
  /\ (pre \o (z \o t)) \o q \in Seq(S) /\ (pre \o q) \o (z \o t) \in Seq(S) /\ (q \o pre) \o (z \o t) \in Seq(S)
  /\ Len((pre \o (z \o t)) \o q) = Len(pre) + (Len(z) + Len(t)) + Len(q)
  /\ Len((pre \o q) \o (z \o t)) = Len(pre) + Len(q) + (Len(z) + Len(t))
  /\ Len((q \o pre) \o (z \o t)) = Len(q) + Len(pre) + (Len(z) + Len(t))
  /\ Len(pre \o (z \o t)) = Len(pre) + (Len(z) + Len(t))
LEMMA PiecesAre ==
  ASSUME NEW S, NEW q \in Seq(S), NEW pre \in Seq(S), NEW z \in Seq(S), NEW t \in Seq(S)
  PROVE  Pieces(S, q, pre, z, t)
<1>1. <<>> \o pre = pre /\ pre \o <<>> = pre
  BY ConcatEmptySeq
<1>2. Adds(S, z, t) /\ Adds(S, pre, q) /\ Adds(S, q, pre)
  BY AddsIs
<1>3. PICK zt, pq, qp : zt = z \o t /\ pq = pre \o q /\ qp = q \o pre
  OBVIOUS
<1>4. /\ zt \in Seq(S) /\ pq \in Seq(S) /\ qp \in Seq(S)
      /\ Len(zt) = Len(z) + Len(t) /\ Len(pq) = Len(pre) + Len(q) /\ Len(qp) = Len(q) + Len(pre)
  BY <1>2, <1>3, Zenon DEF Adds
<1>5. (pre \o z) \o t = pre \o (z \o t) /\ (pq \o z) \o t = pq \o (z \o t) /\ (qp \o z) \o t = qp \o (z \o t)
  <2>1. Grouped(S, pre, z, t) /\ Grouped(S, pq, z, t) /\ Grouped(S, qp, z, t)
    BY <1>4, GroupedIs
  <2> QED BY <2>1 DEF Grouped
<1>6. (pre \o z) \o t = pre \o zt /\ (pq \o z) \o t = pq \o zt /\ (qp \o z) \o t = qp \o zt
  BY <1>3, <1>5
<1>7. Adds(S, pre, zt) /\ Adds(S, pq, zt) /\ Adds(S, qp, zt)
  BY <1>4, AddsIs
<1>8. PICK a, b, c : a = pre \o zt /\ b = pq \o zt /\ c = qp \o zt
  OBVIOUS
<1>9. /\ a \in Seq(S) /\ b \in Seq(S) /\ c \in Seq(S)
      /\ Len(a) = Len(pre) + Len(zt) /\ Len(b) = Len(pq) + Len(zt) /\ Len(c) = Len(qp) + Len(zt)
  BY <1>7, <1>8, Zenon DEF Adds
<1>10. Adds(S, a, q)
  BY <1>9, AddsIs
<1>11. b \o <<>> = b /\ c \o <<>> = c /\ qp \o <<>> = qp
  BY <1>4, <1>9, ConcatEmptySeq
<1>12. ((((<<>> \o pre) \o <<>>) \o z) \o t) \o q = a \o q
  BY <1>1, <1>6, <1>8, Zenon
<1>13. ((((<<>> \o pre) \o q) \o z) \o t) \o <<>> = b
  BY <1>1, <1>3, <1>6, <1>8, <1>11, Zenon
<1>14. ((((q \o pre) \o <<>>) \o z) \o t) \o <<>> = c
  BY <1>3, <1>6, <1>8, <1>11, Zenon
<1>15. /\ (pre \o (z \o t)) \o q = a \o q /\ (pre \o q) \o (z \o t) = b /\ (q \o pre) \o (z \o t) = c
       /\ pre \o (z \o t) = a
  BY <1>3, <1>8, Zenon
<1>16. a \o q \in Seq(S) /\ Len(a \o q) = Len(a) + Len(q)
  BY <1>10 DEF Adds
<1>17. /\ Len(a) = Len(pre) + (Len(z) + Len(t)) /\ Len(b) = Len(pre) + Len(q) + (Len(z) + Len(t))
       /\ Len(c) = Len(q) + Len(pre) + (Len(z) + Len(t)) /\ Len(a \o q) = Len(pre) + (Len(z) + Len(t)) + Len(q)
  BY <1>4, <1>9, <1>16
<1> QED BY <1>9, <1>12, <1>13, <1>14, <1>15, <1>16, <1>17, Zenon DEF Pieces

RunFits(S, c, n) == Run(c, n) \in Seq(S) /\ Len(Run(c, n)) = n
LEMMA RunFitsIs ==
  ASSUME NEW S, NEW c \in S, NEW n \in Nat
  PROVE  RunFits(S, c, n)
<1>1. Larger(0, n) = n
  BY LargerIs
<1> QED BY <1>1, RunIs DEF RunFits

Spread(b, q) ==
  LET body == Run("0", b.p - Len(b.text)) \o b.text
  IN  IF "-" \in b.fl THEN (b.prefix \o body) \o Run(" ", q)
      ELSE IF "0" \in b.fl THEN (b.prefix \o Run("0", q)) \o body
      ELSE (Run(" ", q) \o b.prefix) \o body

LEMMA LaidSpread ==
  ASSUME NEW b, Fitting(b), NEW q \in Nat, ~ ("-" \in b.fl /\ "0" \in b.fl)
  PROVE  /\ Len(b.prefix) \in Nat /\ b.p \in Nat
         /\ Laid(b, Len(b.prefix) + b.p + q) = Spread(b, q) /\ Spread(b, q) \in Seq(TextChars)
         /\ Len(Spread(b, q)) = Len(b.prefix) + b.p + q
         /\ Len(b.prefix \o (Run("0", b.p - Len(b.text)) \o b.text)) = Len(b.prefix) + b.p
<1>1. PICK lp \in Nat, lt \in Nat, p \in Nat : lp = Len(b.prefix) /\ lt = Len(b.text) /\ p = b.p /\ p >= lt
  <2>1. Len(b.prefix) \in Nat /\ Len(b.text) \in Nat
    BY WritableIs, LenProperties DEF Fitting
  <2> QED BY <2>1 DEF Fitting
<1>2. PICK pre \in Seq(TextChars), t \in Seq(TextChars) : pre = b.prefix /\ t = b.text
  <2>1. b.prefix \in Seq(TextChars)
    BY SeqMonotonic DEF TextChars, Fitting
  <2> QED BY <2>1, WritableIs DEF Fitting
<1>3. PICK w \in Int, len \in Int : w = lp + p + q /\ len = lp + p /\ len <= w /\ w - len = q
  OBVIOUS
<1>4. "0" \in TextChars /\ " " \in TextChars
  BY SymbolsAre DEF TextChars
<1>5. PICK z : z = Run("0", p - lt) /\ z \in Seq(TextChars) /\ Len(z) = p - lt
  <2>1. p - lt \in Nat
    BY <1>1
  <2>2. RunFits(TextChars, "0", p - lt)
    BY <1>4, <2>1, RunFitsIs
  <2> QED BY <2>2 DEF RunFits
<1>6. PICK s, o : s = Run(" ", q) /\ o = Run("0", q) /\ s \in Seq(TextChars) /\ o \in Seq(TextChars) /\ Len(s) = q /\ Len(o) = q
  <2>1. RunFits(TextChars, " ", q) /\ RunFits(TextChars, "0", q)
    BY <1>4, RunFitsIs
  <2> QED BY <2>1 DEF RunFits
<1>7. Pad("0", p, lt, {}) = z
  <2>1. PadOrNot("0", p, lt, {})
    BY <1>1, PadRun
  <2> QED BY <1>5, <2>1 DEF PadOrNot
<1>8. Laid(b, w) = ((((Pad(" ", w, len, b.fl) \o pre) \o Pad("0", w, len, Toggled(b.fl, "0"))) \o z) \o t) \o Pad(" ", w, len, Toggled(b.fl, "-"))
  BY <1>1, <1>2, <1>3, <1>7 DEF Laid
<1>9. Pieces(TextChars, s, pre, z, t) /\ Pieces(TextChars, o, pre, z, t)
  BY <1>5, <1>6, PiecesAre
<1>10. /\ PadOrNot(" ", w, len, b.fl) /\ PadOrNot("0", w, len, Toggled(b.fl, "0")) /\ PadOrNot(" ", w, len, Toggled(b.fl, "-"))
  BY <1>3, PadRun
<1>11. /\ Pad(" ", w, len, b.fl) = IF "-" \in b.fl \/ "0" \in b.fl THEN <<>> ELSE s
       /\ Pad("0", w, len, Toggled(b.fl, "0")) = IF "-" \in Toggled(b.fl, "0") \/ "0" \in Toggled(b.fl, "0") THEN <<>> ELSE o
       /\ Pad(" ", w, len, Toggled(b.fl, "-")) = IF "-" \in Toggled(b.fl, "-") \/ "0" \in Toggled(b.fl, "-") THEN <<>> ELSE s
  BY <1>3, <1>6, <1>10, Zenon DEF PadOrNot
<1>12. Len(pre) = lp /\ Len(t) = lt
  BY <1>1, <1>2
<1>13. Laid(b, w) = Spread(b, q) /\ Spread(b, q) \in Seq(TextChars) /\ Len(Spread(b, q)) = w
  <2>1. CASE "-" \in b.fl
    <3>1. "0" \in Toggled(b.fl, "0") /\ "-" \notin Toggled(b.fl, "-") /\ "0" \notin Toggled(b.fl, "-")
      BY <2>1, ToggledIs
    <3>2. Pad(" ", w, len, b.fl) = <<>> /\ Pad("0", w, len, Toggled(b.fl, "0")) = <<>> /\ Pad(" ", w, len, Toggled(b.fl, "-")) = s
      BY <1>11, <2>1, <3>1, Zenon
    <3>3. Laid(b, w) = (pre \o (z \o t)) \o s
      BY <1>8, <1>9, <3>2, Zenon DEF Pieces
    <3>4. Spread(b, q) = (pre \o (z \o t)) \o s
      BY <1>1, <1>2, <1>5, <1>6, <2>1 DEF Spread
    <3>5. lp + (p - lt + lt) + q = w
      BY <1>3
    <3> QED BY <1>5, <1>6, <1>9, <1>12, <3>3, <3>4, <3>5 DEF Pieces
  <2>2. CASE "-" \notin b.fl /\ "0" \in b.fl
    <3>1. "0" \notin Toggled(b.fl, "0") /\ "-" \notin Toggled(b.fl, "0") /\ "-" \in Toggled(b.fl, "-")
      BY <2>2, ToggledIs
    <3>2. Pad(" ", w, len, b.fl) = <<>> /\ Pad("0", w, len, Toggled(b.fl, "0")) = o /\ Pad(" ", w, len, Toggled(b.fl, "-")) = <<>>
      BY <1>11, <2>2, <3>1, Zenon
    <3>3. Laid(b, w) = (pre \o o) \o (z \o t)
      BY <1>8, <1>9, <3>2, Zenon DEF Pieces
    <3>4. Spread(b, q) = (pre \o o) \o (z \o t)
      BY <1>1, <1>2, <1>5, <1>6, <2>2 DEF Spread
    <3>5. lp + q + (p - lt + lt) = w
      BY <1>3
    <3> QED BY <1>5, <1>6, <1>9, <1>12, <3>3, <3>4, <3>5 DEF Pieces
  <2>3. CASE "-" \notin b.fl /\ "0" \notin b.fl
    <3>1. "0" \in Toggled(b.fl, "0") /\ "-" \in Toggled(b.fl, "-")
      BY <2>3, ToggledIs
    <3>2. Pad(" ", w, len, b.fl) = s /\ Pad("0", w, len, Toggled(b.fl, "0")) = <<>> /\ Pad(" ", w, len, Toggled(b.fl, "-")) = <<>>
      BY <1>11, <2>3, <3>1, Zenon
    <3>3. Laid(b, w) = (s \o pre) \o (z \o t)
      BY <1>8, <1>9, <3>2, Zenon DEF Pieces
    <3>4. Spread(b, q) = (s \o pre) \o (z \o t)
      BY <1>1, <1>2, <1>5, <1>6, <2>3 DEF Spread
    <3>5. q + lp + (p - lt + lt) = w
      BY <1>3
    <3> QED BY <1>5, <1>6, <1>9, <1>12, <3>3, <3>4, <3>5 DEF Pieces
  <2> QED BY <2>1, <2>2, <2>3
<1>14. Len(pre \o (z \o t)) = lp + p
  <2>1. Len(pre \o (z \o t)) = Len(pre) + (Len(z) + Len(t))
    BY <1>9 DEF Pieces
  <2>2. lp + (p - lt + lt) = lp + p
    BY <1>3
  <2> QED BY <1>5, <1>12, <2>1, <2>2
<1> QED BY <1>1, <1>2, <1>3, <1>5, <1>13, <1>14

\* What is to be printed, but for the blanks.
Meets(b, d, n, prec) ==
  LET number == d.conv \notin {"c", "s"}
  IN  /\ b.prefix = IF number THEN PrefixOf(d, n) ELSE <<>>
      /\ Run("0", b.p - Len(b.text)) \o b.text = BodyOf(d, n, prec)

Turned(b, d, n, p, fl) ==
  /\ BodyOf(d, n, p) \in Seq(TextChars) /\ Fitting(b)
  /\ ~ b.fails => Meets(b, d, n, p)
  /\ b.fails => d.conv = "s" /\ Len(BodyOf(d, n, p)) > IntMax
  /\ b.fl = IF d.conv \notin {"c", "s"} /\ p < 0 THEN fl ELSE fl \ {"0"}
\* Number, character or string: the text is the one promised, or a string is
\* longer than an int counts.
LEMMA ConvertedMeets ==
  ASSUME NEW d \in ConversionDirective, TypeOf(d) # NoType, d.conv # "n", NEW slot \in Value, NEW p \in Int,
         NEW fl, SameMarks(fl, d.flags), NEW xp, xp <=> p >= 0
  PROVE  Turned(Converted(d, Popped(TypeOf(d), slot), fl, p, xp), d, Number2(TypeOf(d), slot), p, fl)
<1> DEFINE t == TypeOf(d)
           v == Popped(t, slot)
           n == Number2(t, slot)
           b == Converted(d, v, fl, p, xp)
<1>1. Typed(t) /\ v \in Value /\ d.conv \in {"d", "i", "o", "u", "x", "X", "c", "s", "p"}
  BY TypeOfIs, NumberIs
<1>2. Fitting(b)
  <2> HIDE DEF v
  <2> QED BY <1>1, ConvertedFits
<1>3. CASE d.conv = "c"
  <2>1. b = Character(v, fl) /\ BodyOf(d, n, p) = <<Char(n)>>
    BY <1>3 DEF Converted, BodyOf
  <2>2. Char(v) = Char(n)
    BY <1>1, SameChar
  <2> HIDE DEF v, n
  <2>3. b.text = <<Char(n)>> /\ b.prefix = <<>> /\ b.p = 1 /\ b.fl = fl \ {"0"} /\ ~ b.fails
    BY <2>1, <2>2 DEF Character
  <2>4. <<Char(n)>> \in Seq(TextChars)
    BY <1>2, <2>3, WritableIs DEF Fitting
  <2>5. Run("0", b.p - Len(b.text)) \o b.text = <<Char(n)>>
    <3> HIDE DEF b
    <3>1. b.p - Len(b.text) = 0
      <4>1. b.p = 1 /\ Len(b.text) = 1
        <5>1. Len(<<Char(n)>>) = 1
          OBVIOUS
        <5> QED BY <2>3, <5>1
      <4> QED BY <4>1
    <3>2. Run("0", b.p - Len(b.text)) \o b.text = <<>> \o <<Char(n)>>
      <4>1. PICK z, text : z = b.p - Len(b.text) /\ text = b.text
        OBVIOUS
      <4>2. z = 0 /\ text = <<Char(n)>>
        BY <2>3, <3>1, <4>1
      <4>3. Run("0", z) \o text = <<>> \o <<Char(n)>>
        BY <4>2, NoRun
      <4> QED BY <4>1, <4>3
    <3>3. <<>> \o <<Char(n)>> = <<Char(n)>>
      BY <2>4, ConcatEmptySeq
    <3> QED BY <3>2, <3>3
  <2> HIDE DEF b
  <2>6. Meets(b, d, n, p)
    BY <1>3, <2>1, <2>3, <2>5 DEF Meets
  <2> QED BY <1>2, <1>3, <2>1, <2>3, <2>4, <2>6 DEF Turned, b, v, n
<1>4. CASE d.conv = "s"
  <2> DEFINE s == StringAt(v)
             k == Smaller(Len(s), IF p < 0 THEN IntMax ELSE p)
  <2>1. v = n
    <3>1. ~ t.signed
      BY <1>4, TypeOfIs
    <3>2. n >= 0 => v = n
      BY <1>1, NumberIs
    <3>3. n < 0 => t.signed
      BY <1>1, NumberIs
    <3>4. n \in Int
      BY <1>1, NumberIs
    <3> QED BY <3>1, <3>2, <3>3, <3>4
  <2>2. b = String(v, fl, p)
    BY <1>4 DEF Converted
  <2>3. BodyOf(d, n, p) = IF p >= 0 /\ p < Len(s) THEN SubSeq(s, 1, p) ELSE s
    BY <1>4, <2>1 DEF BodyOf
  <2>4. PICK q \in Seq(Characters), l \in Nat, i \in Nat : q = s /\ l = Len(q) /\ i = IntMax
    BY <1>1, StringIs, IntMaxIs
  <2>5. b.text = SubSeq(q, 1, k) /\ b.prefix = <<>> /\ b.p = k /\ b.fl = fl \ {"0"} /\ (b.fails <=> (p < 0 /\ k < l))
    <3>1. b.text = SubSeq(s, 1, k) /\ b.prefix = <<>> /\ b.p = k /\ b.fl = fl \ {"0"} /\ (b.fails <=> (p < 0 /\ k < Len(s)))
      <4> HIDE DEF v, b
      <4> QED BY <2>2, Zenon DEF String
    <3> HIDE DEF s, b, k
    <3> QED BY <2>4, <3>1
  <2>6. k = Smaller(l, IF p < 0 THEN i ELSE p) /\ k \in 0 .. l
    BY <2>4 DEF Smaller
  <2>7. \A j \in 0 .. l : SubSeq(q, 1, j) \in Seq(Characters) /\ Len(SubSeq(q, 1, j)) = j
    BY <2>4, BeginningIs
  <2>8. SubSeq(q, 1, l) = q
    BY <2>4, SubSeqFull
  <2> HIDE DEF k, s, v, n, b
  <2>9. PICK body \in Seq(Characters) : body = BodyOf(d, n, p) /\ body = IF p >= 0 /\ p < l THEN SubSeq(q, 1, p) ELSE q
    <3>1. p >= 0 /\ p < l => p \in 0 .. l
      OBVIOUS
    <3> QED BY <2>3, <2>4, <2>7, <3>1
  <2>10. body \in Seq(TextChars)
    BY SeqMonotonic DEF TextChars
  <2>11. ASSUME ~ b.fails PROVE Meets(b, d, n, p)
    <3>1. ~ (p < 0 /\ k < l)
      BY <2>5, <2>11
    <3>2. k = IF p >= 0 /\ p < l THEN p ELSE l
      BY <2>6, <3>1 DEF Smaller
    <3>3. b.text = body
      BY <2>5, <2>8, <2>9, <3>2
    <3>4. b.p - Len(b.text) = 0
      BY <2>5, <2>6, <2>7
    <3>5. Run("0", b.p - Len(b.text)) \o b.text = <<>> \o body
      BY <3>3, <3>4, NoRun, Zenon
    <3>6. <<>> \o body = body
      BY ConcatEmptySeq
    <3> QED BY <1>4, <2>5, <2>9, <3>5, <3>6 DEF Meets
  <2>12. ASSUME b.fails PROVE Len(BodyOf(d, n, p)) > IntMax
    <3>1. p < 0 /\ k < l
      BY <2>5, <2>12
    <3>2. k = i
      BY <2>6, <3>1 DEF Smaller
    <3>3. body = q
      BY <2>9, <3>1
    <3> QED BY <2>4, <2>9, <3>1, <3>2, <3>3
  <2> QED BY <1>2, <1>4, <2>5, <2>9, <2>10, <2>11, <2>12 DEF Turned, b, v, n
<1>5. CASE d.conv \notin {"c", "s"}
  <2>1. b = Number(d, v, fl, p, xp)
    BY <1>5 DEF Converted
  <2>2. BodyOf(d, n, p) = DigitsOf(d, n, p)
    BY <1>5 DEF BodyOf
  <2>3. b.prefix = PrefixOf(d, n)
    BY <1>5, <2>1, PrefixIs
  <2>4. /\ (IF d.conv \in {"d", "i"} /\ v >= Uintmax \div 2 THEN Uintmax - v ELSE v) = Abs(n)
        /\ n \in Int /\ Abs(n) \in Value
    BY <1>5, MagnitudeIs
  <2>5. "#" \in fl <=> "#" \in d.flags
    BY DEF SameMarks
  <2> HIDE DEF Turned, b, v, n
  <2>7. b.p - Len(b.text) \in Nat /\ Run("0", b.p - Len(b.text)) \o b.text = DigitsOf(d, n, p) /\ ~ b.fails
        /\ b.fl = IF p >= 0 THEN fl \ {"0"} ELSE fl
    <3>1. DigitsMeet(b, d, n, p, fl)
      BY <1>5, <2>1, <2>4, <2>5, DigitsPromised
    <3> QED BY <3>1 DEF DigitsMeet
  <2>8. Meets(b, d, n, p)
    BY <1>5, <2>2, <2>3, <2>7 DEF Meets
  <2>9. BodyOf(d, n, p) \in Seq(TextChars)
    <3>1. RunFits(TextChars, "0", b.p - Len(b.text))
      <4>1. "0" \in TextChars
        BY SymbolsAre DEF TextChars
      <4> QED BY <2>7, <4>1, RunFitsIs
    <3>2. b.text \in Seq(TextChars)
      BY <1>2, WritableIs DEF Fitting, b
    <3>3. Adds(TextChars, Run("0", b.p - Len(b.text)), b.text)
      BY <3>1, <3>2, AddsIs DEF RunFits
    <3> QED BY <2>2, <2>7, <3>3 DEF Adds
  <2>10. p < 0 <=> ~ (p >= 0)
    OBVIOUS
  <2> QED BY <1>2, <1>5, <2>7, <2>8, <2>9, <2>10 DEF Turned, b, v, n
<1> QED BY <1>3, <1>4, <1>5

LEMMA FlagsAre ==
  ASSUME NEW d, NEW w \in Int
  PROVE  /\ SameMarks(Flags(d, w), d.flags)
         /\ w < 0 \/ "-" \in d.flags => "-" \in Flags(d, w) /\ "0" \notin Flags(d, w)
         /\ ~ (w < 0 \/ "-" \in d.flags) => Flags(d, w) = d.flags
BY DEF Flags, SameMarks

\* The field is the one promised, unless a string is too long.
Promised(d, n, w, p, b) ==
  LET text == FieldText(d, n, w, p)
      field == Larger(Magnitude(w), Len(b.prefix) + b.p)
  IN  /\ text \in Seq(TextChars) /\ Fitting(b)
      /\ ~ b.fails => Laid(b, field) = text /\ Len(text) = field
      /\ b.fails => Len(text) > IntMax

LEMMA FieldIsPromised ==
  ASSUME NEW d \in ConversionDirective, TypeOf(d) # NoType, d.conv # "n", NEW slot \in Value,
         NEW w \in - IntMax - 1 .. IntMax, NEW p \in Int, NEW xp, xp <=> p >= 0
  PROVE  Promised(d, Number2(TypeOf(d), slot), w, p, Converted(d, Popped(TypeOf(d), slot), Flags(d, w), p, xp))
<1> DEFINE n == Number2(TypeOf(d), slot)
           fl == Flags(d, w)
           b == Converted(d, Popped(TypeOf(d), slot), fl, p, xp)
           number == d.conv \notin {"c", "s"}
           prefix == IF number THEN PrefixOf(d, n) ELSE <<>>
           body == BodyOf(d, n, p)
           blank == Larger(0, Abs(w) - Len(prefix \o body))
           text == FieldText(d, n, w, p)
           len == Len(b.prefix) + b.p
           field == Larger(Magnitude(w), len)
<1>0. PICK i \in Nat : i = IntMax /\ w \in - i - 1 .. i
  BY IntMaxIs
<1>1. /\ SameMarks(fl, d.flags)
      /\ w < 0 \/ "-" \in d.flags => "-" \in fl /\ "0" \notin fl
      /\ ~ (w < 0 \/ "-" \in d.flags) => fl = d.flags
  BY <1>0, FlagsAre
<1> HIDE DEF fl
<1>2. Turned(b, d, n, p, fl)
  BY <1>1, ConvertedMeets
<1>3. text = CASE w < 0 \/ "-" \in d.flags -> prefix \o body \o Run(" ", blank)
               [] w >= 0 /\ "-" \notin d.flags /\ "0" \in d.flags /\ number /\ p < 0 -> prefix \o Run("0", blank) \o body
               [] OTHER -> Run(" ", blank) \o prefix \o body
  BY Zenon DEF FieldText
<1>31. PICK t1, t2, t3 : t1 = (prefix \o body) \o Run(" ", blank) /\ t2 = (prefix \o Run("0", blank)) \o body /\ t3 = (Run(" ", blank) \o prefix) \o body
  OBVIOUS
<1>32. text = CASE w < 0 \/ "-" \in d.flags -> t1
               [] w >= 0 /\ "-" \notin d.flags /\ "0" \in d.flags /\ number /\ p < 0 -> t2
               [] OTHER -> t3
  <2> HIDE DEF text, prefix, body, blank
  <2> QED BY <1>3, <1>31, Zenon
<1>4. Fitting(b) /\ body \in Seq(TextChars) /\ b.fl = IF number /\ p < 0 THEN fl ELSE fl \ {"0"}
  BY <1>2 DEF Turned
<1>5. ~ b.fails => b.prefix = prefix /\ Run("0", b.p - Len(b.text)) \o b.text = body
  BY <1>2 DEF Turned, Meets
<1>6. b.fails => d.conv = "s" /\ Len(body) > IntMax
  BY <1>2 DEF Turned
<1> DEFINE q == field - len
<1> HIDE DEF n, b, body, text, prefix, blank
<1>7. Len(b.prefix) \in Nat /\ b.p \in Nat /\ len \in Nat /\ Magnitude(w) \in Int
  <2>1. Len(b.prefix) \in Nat /\ b.p \in Nat /\ Magnitude(w) \in 0 .. IntMax + 1
    BY <1>4, WidthIs
  <2> QED BY <1>0, <2>1
<1>8. q \in Nat /\ field = Len(b.prefix) + b.p + q /\ field \in Nat
  <2> HIDE DEF len
  <2>1. q \in Nat /\ field = len + q /\ field \in Nat
    BY <1>7 DEF Larger
  <2> QED BY <1>7, <2>1 DEF len
<1>9. ~ ("-" \in b.fl /\ "0" \in b.fl) \/ (w >= 0 /\ "-" \in d.flags /\ "0" \in d.flags)
  BY <1>0, <1>1, <1>4
<1>10. "-" \in b.fl /\ "0" \in b.fl => FALSE
  BY <1>0, <1>1, <1>4
<1>11. ASSUME ~ b.fails PROVE Laid(b, field) = text /\ text \in Seq(TextChars) /\ Len(text) = field
  <2> HIDE DEF q, field
  <2>1. /\ Laid(b, Len(b.prefix) + b.p + q) = Spread(b, q) /\ Spread(b, q) \in Seq(TextChars)
        /\ Len(Spread(b, q)) = Len(b.prefix) + b.p + q
        /\ Len(b.prefix \o (Run("0", b.p - Len(b.text)) \o b.text)) = Len(b.prefix) + b.p
    BY <1>4, <1>8, <1>10, LaidSpread
  <2>2. Len(prefix \o body) = len
    BY <1>5, <1>11, <2>1
  <2>3. blank = Larger(0, Abs(w) - len)
    BY <2>2 DEF blank
  <2>4. blank = q
    <3> HIDE DEF len
    <3>1. Magnitude(w) = Abs(w) /\ Abs(w) \in Int
      BY <1>0 DEF Magnitude, Abs
    <3>2. q = Larger(0, Abs(w) - len)
      BY <1>7, <3>1 DEF field, q, Larger
    <3> QED BY <2>3, <3>2
  <2>5. Spread(b, q) = IF "-" \in b.fl THEN (prefix \o body) \o Run(" ", q)
                       ELSE IF "0" \in b.fl THEN (prefix \o Run("0", q)) \o body
                       ELSE (Run(" ", q) \o prefix) \o body
    BY <1>5, <1>11, Zenon DEF Spread
  <2>6. text = Spread(b, q)
    <3>1. CASE w < 0 \/ "-" \in d.flags
      <4>1. "-" \in b.fl
        BY <1>1, <1>4, <3>1
      <4>2. text = t1
        BY <1>32, <3>1
      <4> QED BY <1>31, <2>4, <2>5, <4>1, <4>2
    <3>2. CASE w >= 0 /\ "-" \notin d.flags /\ "0" \in d.flags /\ number /\ p < 0
      <4>1. "-" \notin b.fl /\ "0" \in b.fl
        BY <1>0, <1>1, <1>4, <3>2
      <4>2. text = t2
        BY <1>0, <1>32, <3>2
      <4> QED BY <1>31, <2>4, <2>5, <4>1, <4>2
    <3>3. CASE w >= 0 /\ "-" \notin d.flags /\ ~ ("0" \in d.flags /\ number /\ p < 0)
      <4>1. "-" \notin b.fl /\ "0" \notin b.fl
        BY <1>0, <1>1, <1>4, <3>3
      <4>2. text = t3
        BY <1>0, <1>32, <3>3
      <4> QED BY <1>31, <2>4, <2>5, <4>1, <4>2
    <3>4. w < 0 \/ w >= 0
      BY <1>0
    <3> QED BY <3>1, <3>2, <3>3, <3>4
  <2> QED BY <1>8, <2>1, <2>6
<1>12. ASSUME b.fails PROVE text \in Seq(TextChars) /\ Len(text) > IntMax
  <2>1. prefix = <<>> /\ ~ number /\ Len(body) > IntMax
    BY <1>6, <1>12 DEF prefix
  <2>2. Len(body) \in Nat
    BY <1>4, LenProperties
  <2>3. prefix \o body = body
    BY <1>4, <2>1, ConcatEmptySeq
  <2>4. PICK k \in Nat : k = blank
    <3>1. w \in Int /\ Abs(w) \in Nat
      BY <1>0, AbsIs
    <3>2. Larger(0, Abs(w) - Len(body)) \in Nat
      BY <2>2, <3>1 DEF Larger
    <3> QED BY <2>3, <3>2 DEF blank
  <2>5. PICK r : r = Run(" ", k) /\ r \in Seq(TextChars) /\ Len(r) = k
    <3>1. " " \in TextChars
      BY SymbolsAre DEF TextChars
    <3>2. RunFits(TextChars, " ", k)
      BY <3>1, RunFitsIs
    <3> QED BY <3>2 DEF RunFits
  <2>6. Adds(TextChars, body, r) /\ Adds(TextChars, r, body)
    BY <1>4, <2>5, AddsIs
  <2>7. r \o prefix = r
    BY <2>1, <2>5, ConcatEmptySeq
  <2>8. text = body \o r \/ text = r \o body
    <3>1. text = t1 \/ text = t3
      BY <1>0, <1>32, <2>1
    <3>2. t1 = body \o r /\ t3 = r \o body
      BY <1>31, <2>3, <2>4, <2>5, <2>7
    <3> QED BY <3>1, <3>2
  <2>9. PICK lb \in Nat : lb = Len(body) /\ lb > i
    BY <1>0, <2>1, <2>2
  <2>10. text \in Seq(TextChars) /\ Len(text) = lb + k
    <3>1. body \o r \in Seq(TextChars) /\ Len(body \o r) = lb + k
      BY <2>5, <2>6, <2>9 DEF Adds
    <3>2. r \o body \in Seq(TextChars) /\ Len(r \o body) = lb + k
      <4>1. Len(r \o body) = k + lb
        BY <2>5, <2>6, <2>9 DEF Adds
      <4> QED BY <2>6, <4>1 DEF Adds
    <3>3. CASE text = body \o r
      BY <3>1, <3>3, Zenon
    <3>4. CASE text = r \o body
      BY <3>2, <3>4, Zenon
    <3> QED BY <2>8, <3>3, <3>4, Zenon
  <2>11. lb + k > i
    BY <2>9
  <2> QED BY <1>0, <2>10, <2>11
<1> QED BY <1>4, <1>11, <1>12 DEF Promised, b, n, text, field, len, fl
-----------------------------------------------------------------------------
(* The directives of such formats *)
LEMMA SlotsGrow ==
  ASSUME Passed
  PROVE  \A i \in 0 .. Len(fmt) : Slots(fmt)[i] \in 0 .. 3 * i
<1> DEFINE s == Slots(fmt)
           N == Len(fmt)
           Bad == {i \in 0 .. N : s[i] \notin 0 .. 3 * i}
<1>1. /\ N \in Nat /\ s \in [0 .. N -> Nat] /\ s[0] = 0
      /\ \A i \in 1 .. N : s[i] = s[i - 1] + SlotsOf(fmt[i]) /\ SlotsOf(fmt[i]) \in 0 .. 3
  BY SlotsAre DEF Passed
<1> HIDE DEF s, N
<1>2. SUFFICES ASSUME Bad # {} PROVE FALSE
  BY DEF s, N
<1>3. PICK x \in Bad : \A y \in Bad : x <= y
  <2>1. Bad \in SUBSET (0 .. N)
    OBVIOUS
  <2> HIDE DEF Bad
  <2> QED BY <1>1, <1>2, <2>1, LeastElement
<1>4. x \in 1 .. N /\ x - 1 \in 0 .. N
  BY <1>1
<1>5. s[x - 1] \in 0 .. 3 * (x - 1)
  <2>1. x - 1 \notin Bad
    BY <1>3, <1>4
  <2> QED BY <1>4, <2>1
<1>6. PICK a \in Nat, b \in 0 .. 3 : s[x] = a + b /\ a = s[x - 1]
  BY <1>1, <1>4, <1>5
<1>7. s[x] \in 0 .. 3 * x
  BY <1>4, <1>5, <1>6
<1> QED BY <1>3, <1>7

\* Where a conversion finds its numbers.
PlaceOf(i) == IF ByPosition(fmt[i]) THEN fmt[i].pos ELSE Slots(fmt)[i]
Given(g) == (g.by = "num" => g.n <= IntMax) /\ (g.by = "pos" => g.n \in 1 .. Len(args))
Placed(i) ==
  LET d == fmt[i]
      before == Slots(fmt)[i - 1]
  IN  /\ d \in ConversionDirective /\ TypeOf(d) # NoType /\ d.width \in Field /\ d.prec \in Field
      /\ Given(d.width) /\ Given(d.prec) /\ PlaceOf(i) \in 1 .. Len(args)
      /\ before \in Nat /\ before + 1 \in 1 .. Len(args) /\ before + Star(d.width) + 1 \in 1 .. Len(args)
      /\ Slots(fmt)[i] = before + Star(d.width) + Star(d.prec) + 1
      /\ Star(d.width) \in 0 .. 1 /\ Star(d.prec) \in 0 .. 1

\* All conversions of a format are named, or none is.
LEMMA EitherWay ==
  ASSUME WellFormed(fmt), NEW i \in 1 .. Len(fmt), IsConversion(i)
  PROVE  (ByPosition(fmt[i]) /\ Positioned) \/ (~ ByPosition(fmt[i]) /\ Ordinary)
<1>1. i \in Conversions(fmt)
  BY UsesAre
<1> QED BY <1>1, WellFormedIs DEF Ordinary, Positioned

LEMMA UsedIs ==
  ASSUME NEW i \in 1 .. Len(fmt), IsConversion(i)
  PROVE  /\ ByPosition(fmt[i]) => <<fmt[i].pos, TypeOf(fmt[i])>> \in Uses(fmt)
         /\ \A g \in Fields(fmt[i]) : g.by = "pos" => <<g.n, CInt>> \in Uses(fmt)
<1>1. UsesOf(fmt[i]) \subseteq UsesTo(Len(fmt))
  BY DEF UsesTo
<1>2. UsesTo(Len(fmt)) = Uses(fmt)
  BY UsesAre
<1> QED BY <1>1, <1>2 DEF UsesOf

\* A position is one of 1, 2, ... and so the place of an argument.
LEMMA NamedPlaces ==
  ASSUME Positioned, NEW k, NEW t, <<k, t>> \in Uses(fmt)
  PROVE  k \in Nat \ {0}
<1>1. k \in Positions(fmt)
  BY DEF Positions
<1>2. PICK m : Positions(fmt) = 1 .. m
  BY DEF Positioned
<1> QED BY <1>1, <1>2

LEMMA PlacedIs ==
  ASSUME Passed, WellFormed(fmt), NEW i \in 1 .. Len(fmt), IsConversion(i)
  PROVE  Placed(i)
<1> DEFINE d == fmt[i]
           s == Slots(fmt)
<1>1. /\ d \in ConversionDirective /\ d.pos \in NoPos .. NL_ARGMAX /\ d.width \in Field /\ d.prec \in Field
      /\ Len(fmt) \in Nat /\ Len(args) \in Nat /\ Len(args) >= 3 * Len(fmt) /\ Len(args) >= NL_ARGMAX /\ NL_ARGMAX \in Nat
      /\ d.kind # "text"
  BY DirectiveIs DEF IsConversion, Passed
<1>2. TypeOf(d) # NoType /\ \A g \in Fields(d) : g.by = "num" => g.n <= IntMax
  <2>1. i \in Conversions(fmt)
    BY UsesAre
  <2> QED BY <2>1, WellFormedIs DEF Sound
<1>3. \A g \in Fields(d) : g.by = "pos" => g.n \in 1 .. Len(args)
  <2> SUFFICES ASSUME NEW g \in Fields(d), g.by = "pos" PROVE g.n \in 1 .. Len(args)
    OBVIOUS
  <2>1. <<g.n, CInt>> \in Uses(fmt)
    BY UsedIs
  <2>2. Positioned
    BY <2>1, WellFormedIs DEF Ordinary
  <2>3. g.n \in Nat \ {0} /\ g.n \in 0 .. NL_ARGMAX
    BY <1>1, <2>1, <2>2, NamedPlaces, FieldIs DEF Fields
  <2> QED BY <1>1, <2>3
<1>4. /\ s[i] = s[i - 1] + SlotsOf(d) /\ s[i] \in 0 .. 3 * i /\ s[i - 1] \in Nat
  <2>1. i \in 0 .. Len(fmt) /\ i - 1 \in 0 .. Len(fmt)
    BY <1>1
  <2> QED BY <2>1, SlotsAre, SlotsGrow
<1>5. Star(d.width) \in 0 .. 1 /\ Star(d.prec) \in 0 .. 1 /\ SlotsOf(d) = Star(d.width) + Star(d.prec) + 1
  BY <1>1 DEF Star, SlotsOf
<1>51. PICK c \in Nat, l \in Nat : c = s[i] /\ l = Len(args) /\ c <= l
  <2> HIDE DEF s
  <2>1. PICK k \in Nat, l \in Nat : k = 3 * i /\ l = Len(args) /\ k <= l
    BY <1>1, SMTT(30)
  <2>2. s[i] \in 0 .. k
    BY <1>4, <2>1
  <2>3. PICK c : c = s[i]
    OBVIOUS
  <2>4. c \in Nat /\ c <= k
    BY <2>1, <2>2, <2>3
  <2>5. c <= l
    BY <2>1, <2>4
  <2> QED BY <2>1, <2>3, <2>4, <2>5
<1>6. PlaceOf(i) \in 1 .. Len(args)
  <2>1. CASE ByPosition(d)
    <3>1. Positioned /\ <<d.pos, TypeOf(d)>> \in Uses(fmt)
      BY <2>1, EitherWay, UsedIs
    <3>2. d.pos \in Nat \ {0}
      BY <3>1, NamedPlaces
    <3>3. d.pos \in 1 .. Len(args)
      BY <1>1, <3>2
    <3> QED BY <2>1, <3>3 DEF PlaceOf
  <2>2. CASE ~ ByPosition(d)
    <3> HIDE DEF d, s
    <3>1. PICK a \in Nat, x \in 0 .. 1, y \in 0 .. 1 : a = s[i - 1] /\ x = Star(d.width) /\ y = Star(d.prec) /\ s[i] = a + (x + y + 1)
      BY <1>4, <1>5
    <3>2. c \in 1 .. l
      <4>1. c = a + (x + y + 1) /\ c <= l
        BY <1>51, <3>1
      <4>2. a + (x + y + 1) >= 1
        OBVIOUS
      <4> QED BY <4>1, <4>2
    <3> QED BY <1>51, <2>2, <3>2 DEF PlaceOf, d, s
  <2> QED BY <2>1, <2>2
<1> HIDE DEF d, s
<1>7. PICK a \in Nat, x \in 0 .. 1, y \in 0 .. 1 : a = s[i - 1] /\ x = Star(d.width) /\ y = Star(d.prec) /\ s[i] = a + (x + y + 1)
  BY <1>4, <1>5
<1>8. a + 1 \in 1 .. Len(args) /\ a + x + 1 \in 1 .. Len(args) /\ s[i] = a + x + y + 1
  <2>1. c = a + (x + y + 1) /\ c <= l
    BY <1>51, <1>7
  <2>2. a + 1 \in 1 .. l /\ a + x + 1 \in 1 .. l /\ c = a + x + y + 1
    BY <2>1
  <2> QED BY <1>51, <2>2, Zenon
<1>9. Given(d.width) /\ Given(d.prec)
  BY <1>2, <1>3 DEF Given, Fields
<1> QED BY <1>1, <1>2, <1>6, <1>7, <1>8, <1>9 DEF Placed, d, s

\* The number of a width or a precision, and what printf takes for it.
LEMMA NumberInIs ==
  ASSUME Passed, NEW g \in Field, Given(g), NEW n \in 1 .. Len(args)
  PROVE  /\ NumberIn(g, args, n) \in - IntMax - 1 .. IntMax
         /\ g.by = "num" => NumberIn(g, args, n) >= 0
         /\ g.by = "none" => NumberIn(g, args, n) < 0
         /\ (g.by = "pos" => nl_arg[g.n] = Popped(CInt, args[g.n])) => Asked(g, n) = NumberIn(g, args, n)
<1>0. IntMax \in Nat /\ g.by \in {"num", "next", "none", "pos"} /\ g.n \in Nat
  BY IntMaxIs, FieldIs
<1>1. CASE g.by = "num"
  <2>1. NumberIn(g, args, n) = g.n /\ g.n <= IntMax
    BY <1>1 DEF NumberIn, Given
  <2>2. Asked(g, n) = g.n
    BY <1>0, <1>1, <2>1 DEF Asked
  <2> QED BY <1>0, <1>1, <2>1, <2>2
<1>2. CASE g.by = "next"
  <2>1. args[n] \in Value
    BY ElementOfSeq DEF Passed
  <2>2. NumberIn(g, args, n) = Number2(CInt, args[n]) /\ Asked(g, n) = AsInt(args[n])
    BY <1>2 DEF NumberIn, Asked
  <2> QED BY <1>2, <2>1, <2>2, IntIs
<1>3. CASE g.by = "pos"
  <2>1. args[g.n] \in Value
    BY <1>3, ElementOfSeq DEF Passed, Given
  <2>2. NumberIn(g, args, n) = Number2(CInt, args[g.n]) /\ Asked(g, n) = AsInt(nl_arg[g.n])
    BY <1>3 DEF NumberIn, Asked
  <2>3. /\ AsInt(Popped(CInt, args[g.n])) = Number2(CInt, args[g.n])
        /\ Number2(CInt, args[g.n]) \in - IntMax - 1 .. IntMax
    BY <2>1, IntIs
  <2> QED BY <1>3, <2>2, <2>3
<1>4. CASE g.by = "none"
  <2>1. NumberIn(g, args, n) = -1 /\ Asked(g, n) = -1
    BY <1>4 DEF NumberIn, Asked
  <2> QED BY <1>0, <1>4, <2>1
<1> QED BY <1>0, <1>1, <1>2, <1>3, <1>4

\* The width, the precision and the argument of a conversion.
Numbered(i) ==
  /\ WidthAt(fmt, args, i) \in - IntMax - 1 .. IntMax /\ PrecAt(fmt, args, i) \in - IntMax - 1 .. IntMax
  /\ args[PlaceOf(i)] \in Value /\ ArgumentOf(fmt, args, i) = Number2(TypeOf(fmt[i]), args[PlaceOf(i)])
LEMMA NumberedIs ==
  ASSUME Passed, NEW i, Placed(i)
  PROVE  Numbered(i)
<1> DEFINE d == fmt[i]
<1>1. args[PlaceOf(i)] \in Value
  BY ElementOfSeq DEF Passed, Placed
<1>2. ArgumentOf(fmt, args, i) = Number2(TypeOf(fmt[i]), args[PlaceOf(i)])
  BY DEF ArgumentOf, PlaceOf
<1>3. WidthAt(fmt, args, i) \in - IntMax - 1 .. IntMax
  BY NumberInIs DEF WidthAt, Placed
<1>4. PrecAt(fmt, args, i) \in - IntMax - 1 .. IntMax
  BY NumberInIs DEF PrecAt, Placed
<1> QED BY <1>1, <1>2, <1>3, <1>4 DEF Numbered

\* Every directive has a text.
LEMMA TextsAre ==
  ASSUME Passed, WellFormed(fmt), NEW i \in 1 .. Len(fmt)
  PROVE  TextOf(fmt, args, i) \in Seq(TextChars)
<1>1. CASE ~ IsConversion(i)
  <2>1. fmt[i].text \in Seq(Characters) /\ TextOf(fmt, args, i) = fmt[i].text
    BY <1>1, DirectiveIs DEF IsConversion, TextOf
  <2> QED BY <2>1, SeqMonotonic DEF TextChars
<1>2. CASE IsConversion(i) /\ fmt[i].conv = "n"
  <2>1. TextOf(fmt, args, i) = <<>>
    BY <1>2 DEF IsConversion, TextOf
  <2> QED BY <2>1, EmptySeq
<1>3. CASE IsConversion(i) /\ fmt[i].conv # "n"
  <2> DEFINE d == fmt[i]
             w == WidthAt(fmt, args, i)
             p == PrecAt(fmt, args, i)
             slot == args[PlaceOf(i)]
             v == Number2(TypeOf(d), slot)
  <2>1. Placed(i) /\ Numbered(i)
    BY <1>3, PlacedIs, NumberedIs
  <2>2. d \in ConversionDirective /\ TypeOf(d) # NoType /\ d.conv # "n"
    BY <1>3, <2>1 DEF Placed
  <2>3. slot \in Value /\ w \in - IntMax - 1 .. IntMax /\ p \in Int
    BY <2>1, IntMaxIs DEF Numbered
  <2>4. TextOf(fmt, args, i) = FieldText(d, v, w, p)
    BY <1>3, <2>1, Zenon DEF TextOf, IsConversion, Numbered
  <2> HIDE DEF w, p, d
  <2>5. PICK xp : xp <=> p >= 0
    OBVIOUS
  <2>6. Promised(d, v, w, p, Converted(d, Popped(TypeOf(d), slot), Flags(d, w), p, xp))
    BY <2>2, <2>3, <2>5, FieldIsPromised
  <2> QED BY <2>4, <2>6 DEF Promised
<1> QED BY <1>1, <1>2, <1>3

\* The text before a directive, and that it only grows.
TextSoFar ==
  LET b == Before(fmt, args)
  IN  /\ b \in [0 .. Len(fmt) -> Seq(TextChars)] /\ b[0] = <<>>
      /\ \A i \in 1 .. Len(fmt) : /\ b[i] = b[i - 1] \o TextOf(fmt, args, i) /\ TextOf(fmt, args, i) \in Seq(TextChars)
                                  /\ Len(b[i]) = Len(b[i - 1]) + Len(TextOf(fmt, args, i))
      /\ \A i \in 0 .. Len(fmt) : Len(b[i]) \in Nat /\ Len(b[i]) <= Len(Everything(fmt, args))
LEMMA TextSoFarIs ==
  ASSUME Passed, WellFormed(fmt)
  PROVE  TextSoFar
<1> DEFINE b == Before(fmt, args)
           T(i) == TextOf(fmt, args, i)
           N == Len(fmt)
<1>1. /\ b \in [0 .. N -> Seq(TextChars)] /\ b[0] = <<>> /\ N \in Nat
      /\ \A i \in 1 .. N : b[i] = b[i - 1] \o T(i) /\ T(i) \in Seq(TextChars)
  BY TextsAre, BeforeIs DEF Passed
<1>2. Everything(fmt, args) = b[N]
  BY DEF Everything
<1> HIDE DEF b, T, N
<1>3. \A i \in 0 .. N : Len(b[i]) \in Nat
  BY <1>1, LenProperties
<1>4. \A i \in 1 .. N : Len(T(i)) \in Nat /\ Len(b[i]) = Len(b[i - 1]) + Len(T(i))
  <2> SUFFICES ASSUME NEW i \in 1 .. N PROVE Len(T(i)) \in Nat /\ Len(b[i]) = Len(b[i - 1]) + Len(T(i))
    OBVIOUS
  <2>1. i - 1 \in 0 .. N
    BY <1>1
  <2>2. b[i - 1] \in Seq(TextChars) /\ T(i) \in Seq(TextChars) /\ b[i] = b[i - 1] \o T(i)
    BY <1>1, <2>1
  <2>3. Adds(TextChars, b[i - 1], T(i))
    BY <2>2, AddsIs
  <2> QED BY <2>2, <2>3, LenProperties DEF Adds
<1>5. \A i \in 0 .. N : Len(b[i]) <= Len(b[N])
  <2> DEFINE Good == {i \in 0 .. N : Len(b[N - i]) > Len(b[N])}
  <2> SUFFICES ASSUME NEW j \in 0 .. N, Len(b[j]) > Len(b[N]) PROVE FALSE
    BY <1>1, <1>3
  <2>1. Good \in SUBSET (0 .. N) /\ Good # {}
    <3>1. N - j \in 0 .. N /\ N - (N - j) = j
      BY <1>1
    <3> QED BY <3>1
  <2>2. PICK x \in Good : \A y \in Good : x <= y
    <3> HIDE DEF Good
    <3> QED BY <1>1, <2>1, LeastElement
  <2>3. x # 0
    <3>1. N - 0 = N /\ N \in 0 .. N
      BY <1>1
    <3> QED BY <1>3, <3>1
  <2>4. x - 1 \in 0 .. N /\ N - (x - 1) = N - x + 1 /\ N - x + 1 \in 1 .. N /\ N - x + 1 - 1 = N - x /\ N - x \in 0 .. N /\ N \in 0 .. N
        /\ N - x + 1 \in 0 .. N
    BY <1>1, <2>3
  <2>5. ~ (Len(b[N - x + 1]) > Len(b[N]))
    <3>1. x - 1 \notin Good
      BY <2>2, <2>4
    <3> QED BY <2>4, <3>1
  <2>6. PICK k \in 1 .. N : k = N - x + 1 /\ k - 1 = N - x
    BY <2>4
  <2>7. PICK u \in Nat, v \in Nat, t \in Nat : u = Len(b[k - 1]) /\ v = Len(b[k]) /\ t = Len(T(k)) /\ v = u + t
    <3>1. Len(b[k - 1]) \in Nat /\ Len(b[k]) \in Nat
      BY <1>3, <2>4, <2>6
    <3> QED BY <1>4, <3>1
  <2>8. PICK e \in Nat : e = Len(b[N])
    BY <1>3, <2>4
  <2>9. u > e
    BY <2>2, <2>6, <2>7, <2>8
  <2>10. ~ (v > e)
    BY <2>5, <2>6, <2>7, <2>8
  <2> QED BY <2>7, <2>9, <2>10
<1> QED BY <1>1, <1>2, <1>3, <1>4, <1>5 DEF TextSoFar, b, T, N
-----------------------------------------------------------------------------
(* The promise, kept by every step *)
Printed(n, t, c, x, st) ==
  /\ t = Before(fmt, args)[n] /\ c = Len(t) /\ (Ordinary => x = Slots(fmt)[n] + 1)
  /\ st = [i \in 1 .. Len(fmt) |-> st[i]]
  /\ \A j \in 1 .. n : IsConversion(j) /\ fmt[j].conv = "n" =>
       st[j] = Len(Before(fmt, args)[j - 1]) % Pow2[Bits[WidthOf[fmt[j].mod]]]
Kept ==
  WellFormed(fmt) =>
    /\ pass # "done" => (Ordinary => ~ l10n)
    /\ pass = "collect" => /\ out = <<>> /\ cnt <= Len(Before(fmt, args)[at - 1])
                           /\ stored = [i \in 1 .. Len(fmt) |-> stored[i]]
    /\ pass = "print" => Printed(at - 1, out, cnt, next, stored)
    /\ PrintsThePromise

LEMMA PrintedNext ==
  ASSUME NEW n \in Nat, NEW t, NEW c, NEW x, NEW st, Printed(n, t, c, x, st),
         fmt' = fmt, args' = args, at' = n + 1, out' = t, cnt' = c, next' = x, stored' = st
  PROVE  Printed(at - 1, out, cnt, next, stored)'
<1>1. at' - 1 = n
  OBVIOUS
<1>2. Printed(at' - 1, t, c, x, st)
  BY <1>1
<1> QED BY <1>2 DEF Printed, Ordinary, IsConversion, Conversions

LEMMA NotYetPromised == pass # "done" => PrintsThePromise
BY DEF PrintsThePromise

\* A well-formed format is not refused for what it asks.
LEMMA NotRefused ==
  ASSUME Passed, WellFormed(fmt), Ordinary => ~ l10n, at \in 1 .. Len(fmt), IsConversion(at)
  PROVE  ~ Invalid(Directive)
<1> DEFINE d == fmt[at]
<1>1. Placed(at) /\ at \in Conversions(fmt) /\ Directive = d
  BY PlacedIs, UsesAre DEF Directive
<1>2. TypeOf(d) # NoType
  BY <1>1 DEF Placed
<1>3. d.width.by = "num" => ~ (d.width.n > IntMax)
  <2>1. d.width.by = "num" => d.width.n <= IntMax /\ d.width.n \in Nat
    BY <1>1, FieldIs DEF Placed, Given
  <2> QED BY <2>1, IntMaxIs
<1>4. CASE ByPosition(d) /\ Positioned
  <2>1. d.width.by # "next" /\ d.prec.by # "next"
    BY <1>1, <1>4 DEF Positioned, Fields
  <2> QED BY <1>1, <1>2, <1>3, <2>1 DEF Invalid
<1>5. CASE ~ ByPosition(d) /\ Ordinary
  <2>1. ~ Localised(d)
    BY <1>5 DEF Localised, ByPosition
  <2>2. d.width.by # "pos"
    <3>1. d.width \in Fields(d)
      BY DEF Fields
    <3> QED BY <1>5, <3>1, UsedIs DEF Ordinary
  <2> QED BY <1>1, <1>2, <1>3, <2>1, <2>2 DEF Invalid
<1> QED BY <1>4, <1>5, EitherWay

\* One that is refused is too long.
LEMMA KeptFinish ==
  ASSUME Finish(-1), WellFormed(fmt) => ~ (Len(Everything(fmt, args)) <= IntMax)
  PROVE  Kept'
<1>1. pass' = "done" /\ ret' = -1 /\ fmt' = fmt /\ args' = args
  BY DEF Finish, caller
<1>2. PrintsThePromise'
  <2>1. WellFormed(fmt)' => WellFormed(fmt)
    BY <1>1
  <2>2. (Len(Everything(fmt, args)) <= IntMax)' <=> Len(Everything(fmt, args)) <= IntMax
    BY <1>1
  <2> QED BY <1>1, <2>1, <2>2 DEF PrintsThePromise
<1> QED BY <1>1, <1>2 DEF Kept

LEMMA TooLongIs ==
  ASSUME TextSoFar, at \in 1 .. Len(fmt), cnt \in Nat, cnt <= Len(Before(fmt, args)[at - 1]),
         NEW n \in Nat, n <= Len(TextOf(fmt, args, at)), n > IntMax - cnt
  PROVE  ~ (Len(Everything(fmt, args)) <= IntMax)
<1> DEFINE b == Before(fmt, args)
<1>1. at - 1 \in 0 .. Len(fmt) /\ at \in 0 .. Len(fmt)
  OBVIOUS
<1>2. PICK t \in Nat, e \in Nat : t = Len(TextOf(fmt, args, at)) /\ e = Len(Everything(fmt, args))
  <2>1. TextOf(fmt, args, at) \in Seq(TextChars)
    BY DEF TextSoFar
  <2>2. Len(fmt) \in 0 .. Len(fmt)
    OBVIOUS
  <2>3. Len(Everything(fmt, args)) \in Nat
    BY <2>2 DEF TextSoFar, Everything
  <2> QED BY <2>1, <2>3, LenProperties
<1>3. PICK u \in Nat, v \in Nat : u = Len(b[at - 1]) /\ v = Len(b[at]) /\ v = u + t /\ v <= e
  BY <1>1, <1>2 DEF TextSoFar
<1>4. PICK i \in Nat : i = IntMax
  BY IntMaxIs
<1>5. cnt <= u /\ n <= t /\ n > i - cnt
  BY <1>2, <1>3, <1>4
<1> HIDE DEF b
<1>6. ~ (e <= i)
  BY <1>3, <1>5
<1> QED BY <1>2, <1>4, <1>6

LEMMA KeptInit ==
  ASSUME PrintfInit
  PROVE  Kept
<1> SUFFICES ASSUME WellFormed(fmt) PROVE Kept
  BY DEF Kept
<1>1. TextSoFar /\ Passed
  BY PassedIs, TextSoFarIs DEF PrintfInit
<1>2. pass = "collect" /\ at - 1 = 0 /\ ~ l10n /\ out = <<>> /\ cnt = 0
  BY DEF PrintfInit
<1>3. Before(fmt, args)[0] = <<>> /\ Len(<<>>) = 0
  BY <1>1 DEF TextSoFar
<1>4. cnt <= Len(Before(fmt, args)[at - 1])
  BY <1>2, <1>3
<1>5. stored = [i \in 1 .. Len(fmt) |-> stored[i]]
  BY DEF PrintfInit
<1> QED BY <1>2, <1>4, <1>5, NotYetPromised DEF Kept

LEMMA KeptStart ==
  ASSUME Shape, Kept, pass = "collect", NEW u, Start(u)
  PROVE  Kept'
<1>1. /\ pass' = "print" /\ at' = 1 /\ cnt' = 0 /\ l10n' = FALSE /\ next' = 1
      /\ fmt' = fmt /\ args' = args /\ out' = out /\ stored' = stored
  BY DEF Start, caller
<1> SUFFICES ASSUME WellFormed(fmt)' PROVE Kept'
  BY DEF Kept
<1>2. WellFormed(fmt)
  BY <1>1
<1>3. TextSoFar /\ Passed
  BY <1>2, PassedIs, TextSoFarIs DEF Shape
<1>4. Printed(0, <<>>, 0, 1, stored)
  <2>1. Before(fmt, args)[0] = <<>> /\ Len(<<>>) = 0 /\ Slots(fmt)[0] = 0
    BY <1>3, SlotsAre DEF TextSoFar
  <2>2. stored = [i \in 1 .. Len(fmt) |-> stored[i]]
    BY <1>2 DEF Kept
  <2> QED BY <2>1, <2>2 DEF Printed
<1>5. Printed(at - 1, out, cnt, next, stored)'
  <2>1. out = <<>>
    BY <1>2 DEF Kept
  <2>2. 0 \in Nat /\ at' = 0 + 1
    BY <1>1
  <2> QED BY <1>1, <1>4, <2>1, <2>2, PrintedNext
<1>6. PrintsThePromise'
  BY <1>1 DEF PrintsThePromise
<1> QED BY <1>1, <1>5, <1>6 DEF Kept

\* Directives of the first pass that are counted, if at all.
LEMMA KeptOn ==
  ASSUME Shape, Kept, pass = "collect", pass' = "collect", at <= Len(fmt), at' = at + 1, UNCHANGED <<caller, out, stored>>,
         WellFormed(fmt) => (Ordinary => ~ l10n') /\ cnt' <= Len(Before(fmt, args)[at])
  PROVE  Kept'
<1>1. fmt' = fmt /\ args' = args /\ out' = out /\ stored' = stored
  BY DEF caller
<1> SUFFICES ASSUME WellFormed(fmt)' PROVE Kept'
  BY DEF Kept
<1>2. WellFormed(fmt)
  BY <1>1
<1>3. at' - 1 = at
  BY DEF Shape
<1>4. Ordinary' => Ordinary
  BY <1>1 DEF Ordinary, Conversions
<1>5. PrintsThePromise'
  BY DEF PrintsThePromise
<1>6. (cnt <= Len(Before(fmt, args)[at - 1]))'
  BY <1>1, <1>2, <1>3
<1>7. out' = <<>> /\ stored' = [i \in 1 .. Len(fmt') |-> stored'[i]]
  BY <1>1, <1>2 DEF Kept
<1> QED BY <1>2, <1>4, <1>5, <1>6, <1>7 DEF Kept

LEMMA KeptCollect ==
  ASSUME Shape, Noticed, Kept, CollectText \/ CollectConversion \/ CollectEnd
  PROVE  Kept'
<1>1. Passed /\ pass = "collect" /\ cnt \in Nat /\ at \in 1 .. Len(fmt) + 1 /\ Len(fmt) \in Nat
  <2>1. Passed /\ pass = "collect"
    BY PassedIs DEF Shape, CollectText, CollectConversion, CollectEnd, More
  <2> QED BY <2>1, IntMaxIs DEF Shape, Passed
<1>2. WellFormed(fmt) => TextSoFar /\ cnt <= Len(Before(fmt, args)[at - 1]) /\ (Ordinary => ~ l10n)
  BY <1>1, TextSoFarIs DEF Kept
<1>3. CASE CollectText
  <2>1. at \in 1 .. Len(fmt) /\ ~ IsConversion(at)
    BY <1>1, <1>3 DEF CollectText, More, IsText, IsConversion, Directive
  <2>2. PICK n \in Nat : n = Len(Directive.text) /\ n = Len(TextOf(fmt, args, at))
    BY <1>1, <2>1, DirectiveIs DEF IsConversion, Directive, TextOf
  <2>3. CASE TooLong(n)
    <3>1. Finish(-1)
      BY <1>3, <2>2, <2>3 DEF CollectText
    <3>2. WellFormed(fmt) => ~ (Len(Everything(fmt, args)) <= IntMax)
      BY <1>1, <1>2, <2>1, <2>2, <2>3, TooLongIs DEF TooLong
    <3> QED BY <3>1, <3>2, KeptFinish
  <2>4. CASE ~ TooLong(n)
    <3>1. cnt' = cnt + n /\ at' = at + 1 /\ UNCHANGED <<caller, pass, l10n, out, stored>>
      BY <1>3, <2>2, <2>4 DEF CollectText
    <3>2. ASSUME WellFormed(fmt) PROVE cnt' <= Len(Before(fmt, args)[at])
      <4>1. at - 1 \in 0 .. Len(fmt) /\ at \in 0 .. Len(fmt)
        BY <1>1, <2>1
      <4>2. PICK u \in Nat, v \in Nat : u = Len(Before(fmt, args)[at - 1]) /\ v = Len(Before(fmt, args)[at]) /\ v = u + n
        BY <1>2, <2>1, <2>2, <3>2, <4>1 DEF TextSoFar
      <4>3. cnt <= u
        BY <1>2, <3>2, <4>2
      <4>4. cnt + n <= v
        BY <1>1, <4>2, <4>3
      <4> QED BY <3>1, <4>2, <4>4
    <3> QED BY <1>1, <1>2, <2>1, <3>1, <3>2, KeptOn
  <2> QED BY <2>3, <2>4
<1>4. CASE CollectConversion
  <2>1. at \in 1 .. Len(fmt) /\ IsConversion(at) /\ Directive = fmt[at]
    BY <1>1, <1>4 DEF CollectConversion, More, IsText, IsConversion, Directive
  <2>2. CASE Invalid(Directive)
    <3>1. Finish(-1)
      BY <1>4, <2>2 DEF CollectConversion
    <3>2. ~ WellFormed(fmt)
      BY <1>1, <1>2, <2>1, <2>2, NotRefused
    <3> QED BY <3>1, <3>2, KeptFinish
  <2>3. CASE ~ Invalid(Directive) /\ Directive.pos = NoPos
    <3>1. PICK u \in Unset : Start(u)
      BY <1>4, <2>3 DEF CollectConversion
    <3> QED BY <1>1, <3>1, KeptStart
  <2>4. CASE ~ Invalid(Directive) /\ Directive.pos # NoPos
    <3>1. /\ at' = at + 1 /\ UNCHANGED <<caller, pass, cnt, out, stored>>
      BY <1>4, <2>4 DEF CollectConversion
    <3>2. ~ Ordinary
      <4>1. at \in Conversions(fmt) /\ ByPosition(fmt[at])
        BY <2>1, <2>4, UsesAre DEF ByPosition
      <4> QED BY <4>1 DEF Ordinary
    <3>3. ASSUME WellFormed(fmt) PROVE cnt' <= Len(Before(fmt, args)[at])
      <4>1. at - 1 \in 0 .. Len(fmt) /\ at \in 0 .. Len(fmt)
        BY <1>1, <2>1
      <4>2. PICK u \in Nat, v \in Nat, t \in Nat : u = Len(Before(fmt, args)[at - 1]) /\ v = Len(Before(fmt, args)[at]) /\ v = u + t
        <5>1. Len(TextOf(fmt, args, at)) \in Nat
          BY <1>2, <2>1, <3>3, LenProperties DEF TextSoFar
        <5> QED BY <1>2, <2>1, <3>3, <4>1, <5>1 DEF TextSoFar
      <4>3. cnt <= u
        BY <1>2, <3>3, <4>2
      <4>4. cnt <= v
        BY <1>1, <4>2, <4>3
      <4> QED BY <3>1, <4>2, <4>4
    <3> QED BY <1>1, <2>1, <3>1, <3>2, <3>3, KeptOn
  <2> QED BY <2>2, <2>3, <2>4
<1>5. CASE CollectEnd
  <2>1. PICK u \in Unset : IF l10n /\ Gap THEN Finish(-1) ELSE Start(IF l10n THEN Filled(u) ELSE u)
    BY <1>5 DEF CollectEnd
  <2>2. CASE l10n /\ Gap
    <3>1. at - 1 = Len(fmt)
      BY <1>1, <1>5 DEF CollectEnd
    <3>2. Seen(Len(fmt), nl_type)
      BY <1>1, <3>1 DEF Noticed
    <3>3. ASSUME WellFormed(fmt) PROVE FALSE
      <4>1. Positioned
        BY <1>2, <2>2, <3>3, WellFormedIs
      <4>2. \A v \in UsesTo(Len(fmt)) : v[1] # 0
        <5> SUFFICES ASSUME NEW v \in UsesTo(Len(fmt)) PROVE v[1] # 0
          OBVIOUS
        <5>1. v[1] \in Positions(fmt)
          BY UsesAre DEF Positions
        <5>2. PICK m : Positions(fmt) = 1 .. m
          BY <4>1 DEF Positioned
        <5> QED BY <5>1, <5>2
      <4>3. ~ Gap
        BY <1>1, <3>2, <4>1, <4>2, NoGap DEF Passed
      <4> QED BY <2>2, <4>3
    <3> QED BY <2>1, <2>2, <3>3, KeptFinish
  <2>3. CASE ~ (l10n /\ Gap)
    <3>1. PICK v : Start(v)
      BY <2>1, <2>3
    <3> QED BY <1>1, <3>1, KeptStart
  <2> QED BY <2>2, <2>3
<1> QED BY <1>3, <1>4, <1>5

\* What the first pass took for the argument of a position.
LEMMA NamedValues ==
  ASSUME Passed, Positioned, Seen(Len(fmt), nl_type), Taught(nl_arg), NEW k, NEW t, <<k, t>> \in Uses(fmt)
  PROVE  nl_arg[k] = Popped(t, args[k])
<1>1. <<k, t>> \in UsesTo(Len(fmt)) /\ Conversions(fmt) # {}
  BY UsesAre DEF UsesTo
<1>2. k \in 0 .. NL_ARGMAX /\ nl_type[k] # NoType
  <2>1. <<k, t>>[1] \in 0 .. NL_ARGMAX /\ nl_type[<<k, t>>[1]] # NoType
    BY <1>1 DEF Seen
  <2> QED BY <2>1
<1>3. k \in 1 .. NL_ARGMAX
  <2>1. k \in Nat \ {0}
    BY NamedPlaces
  <2> QED BY <1>2, <2>1
<1>4. nl_type[k] = t
  <2>1. <<k, nl_type[k]>> \in Uses(fmt)
    BY <1>2, UsesAre DEF Seen
  <2>2. PICK u, v : u = <<k, nl_type[k]>> /\ v = <<k, t>>
    OBVIOUS
  <2>3. u \in Uses(fmt) /\ v \in Uses(fmt) /\ u[1] = v[1]
    BY <2>1, <2>2
  <2>4. u = v
    BY <2>3, OneType
  <2> QED BY <2>2, <2>4
<1>5. k \in Leading
  BY <1>1, <1>2, <1>3 DEF Taught, Gap
<1> QED BY <1>1, <1>4, <1>5 DEF Taught

\* Width, precision and argument are those of the standard.
Meant(d) ==
  /\ Asked(d.width, next) = WidthAt(fmt, args, at)
  /\ Asked(d.prec, next + Taken(d.width)) = PrecAt(fmt, args, at)
  /\ Argument(d) = Popped(TypeOf(d), args[PlaceOf(at)])
  /\ Ordinary => FirstOf(d) = Slots(fmt)[at] /\ d.pos = NoPos
  /\ (d.prec.by = "num" \/ (d.prec.by # "none" /\ PrecAt(fmt, args, at) >= 0)) <=> PrecAt(fmt, args, at) >= 0
LEMMA MeantIs ==
  ASSUME Shape, Noticed, Kept, WellFormed(fmt), pass = "print", at \in 1 .. Len(fmt), IsConversion(at)
  PROVE  Meant(fmt[at])
<1> DEFINE d == fmt[at]
           W == WidthAt(fmt, args, at)
           P == PrecAt(fmt, args, at)
<1>1. Passed /\ Placed(at) /\ Directive = d /\ ~ Invalid(Directive) /\ ~ IsText
  BY PassedIs, PlacedIs, NotRefused DEF Shape, Kept, Directive, IsText, IsConversion
<1>2. /\ d.width \in Field /\ d.prec \in Field /\ Given(d.width) /\ Given(d.prec)
      /\ d.width \in Fields(d) /\ d.prec \in Fields(d)
  BY <1>1 DEF Placed, Fields
<1>3. PICK s \in Nat : /\ s = Slots(fmt)[at - 1] /\ s + 1 \in 1 .. Len(args) /\ s + Star(d.width) + 1 \in 1 .. Len(args)
                       /\ Slots(fmt)[at] = s + Star(d.width) + Star(d.prec) + 1
  BY <1>1 DEF Placed
<1>4. W = NumberIn(d.width, args, s + 1) /\ P = NumberIn(d.prec, args, s + Star(d.width) + 1)
  BY <1>3 DEF WidthAt, PrecAt
<1>5. \A g : Star(g) = Taken(g)
  BY DEF Star, Taken
<1>6. \A g \in Fields(d) : g.by = "pos" => nl_arg[g.n] = Popped(CInt, args[g.n])
  <2> SUFFICES ASSUME NEW g \in Fields(d), g.by = "pos" PROVE nl_arg[g.n] = Popped(CInt, args[g.n])
    OBVIOUS
  <2>1. <<g.n, CInt>> \in Uses(fmt)
    BY UsedIs
  <2>2. Positioned
    BY <2>1, WellFormedIs DEF Ordinary
  <2>3. AllNamed
    BY <2>2 DEF Positioned, AllNamed
  <2> QED BY <1>1, <2>1, <2>2, <2>3, NamedValues DEF Noticed
<1>7. W = Asked(d.width, s + 1) /\ P = Asked(d.prec, s + Star(d.width) + 1)
  BY <1>1, <1>2, <1>3, <1>4, <1>6, NumberInIs
<1>8. (d.prec.by = "num" => P >= 0) /\ (d.prec.by = "none" => P < 0) /\ P \in Int
  <2>1. P \in - IntMax - 1 .. IntMax
    BY <1>1, <1>2, <1>3, <1>4, NumberInIs
  <2> QED BY <1>1, <1>2, <1>3, <1>4, <2>1, IntMaxIs, NumberInIs, SMTT(30)
<1>9. (d.prec.by = "num" \/ (d.prec.by # "none" /\ P >= 0)) <=> P >= 0
  <2> HIDE DEF P, d
  <2> QED BY <1>8
<1>10. CASE ByPosition(d) /\ Positioned
  <2>1. d.width.by # "next" /\ d.prec.by # "next"
    <3>1. at \in Conversions(fmt)
      BY UsesAre
    <3> QED BY <1>2, <1>10, <3>1 DEF Positioned
  <2>2. W = Asked(d.width, next) /\ P = Asked(d.prec, next + Taken(d.width))
    BY <1>7, <2>1 DEF Asked
  <2>3. Argument(d) = Popped(TypeOf(d), args[PlaceOf(at)])
    <3>1. <<d.pos, TypeOf(d)>> \in Uses(fmt)
      BY <1>10, UsedIs
    <3>2. AllNamed
      BY <1>10 DEF Positioned, AllNamed
    <3>3. nl_arg[d.pos] = Popped(TypeOf(d), args[d.pos])
      BY <1>1, <1>10, <3>1, <3>2, NamedValues DEF Noticed
    <3> QED BY <1>10, <3>3 DEF Argument, PlaceOf, ByPosition
  <2>4. ~ Ordinary
    BY <1>10, UsesAre DEF Ordinary
  <2> QED BY <1>9, <2>2, <2>3, <2>4 DEF Meant
<1>11. CASE ~ ByPosition(d) /\ Ordinary
  <2>1. next = s + 1
    BY <1>3, <1>11 DEF Kept, Printed
  <2>2. PICK x \in 0 .. 1, y \in 0 .. 1 : x = Taken(d.width) /\ y = Taken(d.prec)
    BY <1>2, FieldIs
  <2>3. next + x = s + x + 1 /\ next + x + y = s + x + y + 1
    BY <2>1
  <2>4. W = Asked(d.width, next) /\ P = Asked(d.prec, next + Taken(d.width))
    BY <1>5, <1>7, <2>1, <2>2, <2>3
  <2>5. FirstOf(d) = Slots(fmt)[at]
    BY <1>3, <1>5, <2>2, <2>3 DEF FirstOf
  <2>6. d.pos = NoPos /\ Argument(d) = Popped(TypeOf(d), args[PlaceOf(at)])
    BY <1>11, <2>5 DEF Argument, PlaceOf, ByPosition
  <2> QED BY <1>9, <2>4, <2>5, <2>6 DEF Meant
<1> QED BY <1>10, <1>11, EitherWay

\* One more directive printed.
LEMMA KeptPrinted ==
  ASSUME Shape, Kept, pass = "print", pass' = "print", at \in 1 .. Len(fmt), at' = at + 1, UNCHANGED caller,
         WellFormed(fmt) => (Ordinary => ~ l10n') /\ Printed(at, out', cnt', next', stored')
  PROVE  Kept'
<1>1. fmt' = fmt /\ args' = args
  BY DEF caller
<1> SUFFICES ASSUME WellFormed(fmt)' PROVE Kept'
  BY DEF Kept
<1>2. WellFormed(fmt)
  BY <1>1
<1>3. Ordinary' => Ordinary
  BY <1>1 DEF Ordinary, Conversions
<1>4. PrintsThePromise'
  BY DEF PrintsThePromise
<1>5. Printed(at - 1, out, cnt, next, stored)'
  <2>1. at \in Nat
    OBVIOUS
  <2>2. PICK t, c, x, st : t = out' /\ c = cnt' /\ x = next' /\ st = stored'
    OBVIOUS
  <2>3. Printed(at, t, c, x, st)
    BY <1>2, <2>2
  <2> QED BY <1>1, <2>1, <2>2, <2>3, PrintedNext
<1> QED BY <1>2, <1>3, <1>4, <1>5 DEF Kept

\* What is there when the text of the directive at comes behind.
LEMMA PrintedMore ==
  ASSUME TextSoFar, at \in 1 .. Len(fmt), Printed(at - 1, out, cnt, next, stored),
         ~ (IsConversion(at) /\ fmt[at].conv = "n"),
         NEW x, Ordinary => x = Slots(fmt)[at] + 1
  PROVE  Printed(at, out \o TextOf(fmt, args, at), cnt + Len(TextOf(fmt, args, at)), x, stored)
<1>1. /\ Before(fmt, args)[at] = out \o TextOf(fmt, args, at)
      /\ Len(Before(fmt, args)[at]) = cnt + Len(TextOf(fmt, args, at))
  BY DEF TextSoFar, Printed
<1>2. \A j \in 1 .. at : j \in 1 .. at - 1 \/ j = at
  OBVIOUS
<1> QED BY <1>1, <1>2 DEF Printed

LEMMA KeptPrintText ==
  ASSUME Shape, Kept, PrintText
  PROVE  Kept'
<1>1. Passed /\ pass = "print" /\ cnt \in Nat /\ at \in 1 .. Len(fmt) /\ ~ IsConversion(at)
  <2>1. Passed /\ pass = "print" /\ at <= Len(fmt) /\ ~ IsConversion(at)
    BY PassedIs DEF Shape, PrintText, More, IsText, Directive, IsConversion
  <2> QED BY <2>1, IntMaxIs DEF Shape, Passed
<1>2. WellFormed(fmt) => TextSoFar /\ Printed(at - 1, out, cnt, next, stored) /\ (Ordinary => ~ l10n)
  BY <1>1, TextSoFarIs DEF Kept
<1>3. PICK n \in Nat : n = Len(Directive.text) /\ n = Len(TextOf(fmt, args, at)) /\ Directive.text = TextOf(fmt, args, at)
  BY <1>1, DirectiveIs DEF IsConversion, Directive, TextOf
<1>4. CASE TooLong(n)
  <2>1. Finish(-1)
    BY <1>3, <1>4 DEF PrintText
  <2>2. ASSUME WellFormed(fmt) PROVE ~ (Len(Everything(fmt, args)) <= IntMax)
    <3>1. cnt <= Len(Before(fmt, args)[at - 1])
      BY <1>1, <1>2, <2>2 DEF Printed
    <3> QED BY <1>1, <1>2, <1>3, <1>4, <2>2, <3>1, TooLongIs DEF TooLong
  <2> QED BY <2>1, <2>2, KeptFinish
<1>5. CASE ~ TooLong(n)
  <2>1. Write(Put(Written, Directive.text)) /\ cnt' = cnt + n /\ at' = at + 1 /\ UNCHANGED <<caller, pass, l10n, next, stored>>
    BY <1>3, <1>5 DEF PrintText
  <2>2. out' = out \o TextOf(fmt, args, at)
    BY <1>3, <2>1 DEF Write, Put, Written
  <2>3. ASSUME WellFormed(fmt), Ordinary PROVE next = Slots(fmt)[at] + 1
    <3>1. Slots(fmt)[at] = Slots(fmt)[at - 1] + SlotsOf(fmt[at]) /\ SlotsOf(fmt[at]) = 0
      BY <1>1, SlotsAre DEF SlotsOf, IsConversion
    <3>2. Slots(fmt)[at - 1] \in Nat
      <4>1. at - 1 \in 0 .. Len(fmt)
        BY <1>1
      <4> QED BY <1>1, <4>1, SlotsAre
    <3>3. next = Slots(fmt)[at - 1] + 1
      BY <1>2, <2>3 DEF Printed
    <3>4. PICK k \in Nat : k = Slots(fmt)[at - 1] /\ k = k + 0
      BY <3>2
    <3> QED BY <3>1, <3>3, <3>4
  <2>4. WellFormed(fmt) => Printed(at, out', cnt', next', stored')
    BY <1>1, <1>2, <1>3, <2>1, <2>2, <2>3, PrintedMore
  <2> QED BY <1>1, <1>2, <2>1, <2>4, KeptPrinted
<1> QED BY <1>4, <1>5

\* The argument after those of a conversion.
LEMMA NextMeant ==
  ASSUME Passed, at \in 1 .. Len(fmt), Meant(fmt[at]), AfterArguments(fmt[at]), l10n' = AnyLocalised(fmt[at]),
         WellFormed(fmt), IsConversion(at), Ordinary => ~ l10n
  PROVE  Ordinary => ~ l10n' /\ next' = Slots(fmt)[at] + 1
<1> SUFFICES ASSUME Ordinary PROVE ~ l10n' /\ next' = Slots(fmt)[at] + 1
  OBVIOUS
<1>1. FirstOf(fmt[at]) = Slots(fmt)[at] /\ fmt[at].pos = NoPos
  BY DEF Meant
<1>2. next' = Slots(fmt)[at] + 1
  BY <1>1 DEF AfterArguments
<1>3. fmt[at].width.by # "pos"
  <2>1. fmt[at].width \in Fields(fmt[at])
    BY DEF Fields
  <2> QED BY <2>1, UsedIs DEF Ordinary
<1>4. ~ l10n'
  BY <1>1, <1>3 DEF AnyLocalised, Localised
<1> QED BY <1>2, <1>4

LEMMA KeptStore ==
  ASSUME Shape, Noticed, Kept, StoreCount
  PROVE  Kept'
<1>1. Passed /\ pass = "print" /\ at \in 1 .. Len(fmt) /\ IsConversion(at) /\ fmt[at].conv = "n" /\ Directive = fmt[at]
  <2>1. Passed /\ pass = "print" /\ at <= Len(fmt) /\ IsConversion(at) /\ fmt[at].conv = "n"
    BY PassedIs DEF Shape, StoreCount, More, IsText, Directive, IsConversion
  <2> QED BY <2>1 DEF Shape, Passed, Directive
<1>2. /\ stored' = [stored EXCEPT ![at] = cnt % Pow2[Bits[WidthOf[fmt[at].mod]]]]
      /\ l10n' = AnyLocalised(fmt[at]) /\ at' = at + 1 /\ AfterArguments(fmt[at])
      /\ UNCHANGED <<caller, pass, cnt, out>>
  BY <1>1 DEF StoreCount
<1>3. ASSUME WellFormed(fmt) PROVE (Ordinary => ~ l10n') /\ Printed(at, out', cnt', next', stored')
  <2>1. TextSoFar /\ Printed(at - 1, out, cnt, next, stored) /\ (Ordinary => ~ l10n)
    BY <1>1, <1>3, TextSoFarIs DEF Kept
  <2>2. Meant(fmt[at])
    BY <1>1, <1>3, MeantIs
  <2>3. Ordinary => ~ l10n' /\ next' = Slots(fmt)[at] + 1
    BY <1>1, <1>2, <1>3, <2>1, <2>2, NextMeant
  <2>4. Before(fmt, args)[at] = out
    <3>1. TextOf(fmt, args, at) = <<>>
      BY <1>1 DEF TextOf, IsConversion
    <3>2. at - 1 \in 0 .. Len(fmt)
      BY <1>1
    <3>3. out \in Seq(TextChars) /\ Before(fmt, args)[at] = out \o <<>>
      BY <1>1, <2>1, <3>1, <3>2 DEF TextSoFar, Printed
    <3> QED BY <3>3, ConcatEmptySeq
  <2>5. stored' = [i \in 1 .. Len(fmt) |-> stored'[i]]
    BY <1>2, <2>1 DEF Printed
  <2>6. \A j \in 1 .. at : IsConversion(j) /\ fmt[j].conv = "n" =>
             stored'[j] = Len(Before(fmt, args)[j - 1]) % Pow2[Bits[WidthOf[fmt[j].mod]]]
    <3> SUFFICES ASSUME NEW j \in 1 .. at, IsConversion(j), fmt[j].conv = "n"
                 PROVE  stored'[j] = Len(Before(fmt, args)[j - 1]) % Pow2[Bits[WidthOf[fmt[j].mod]]]
      OBVIOUS
    <3>1. stored = [i \in 1 .. Len(fmt) |-> stored[i]] /\ cnt = Len(Before(fmt, args)[at - 1])
      BY <2>1 DEF Printed
    <3>2. CASE j = at
      <4>1. stored'[at] = cnt % Pow2[Bits[WidthOf[fmt[at].mod]]]
        BY <1>1, <1>2, <3>1
      <4> QED BY <3>1, <3>2, <4>1
    <3>3. CASE j # at
      <4>1. j \in 1 .. at - 1 /\ j \in 1 .. Len(fmt)
        BY <1>1, <3>3
      <4>2. stored'[j] = stored[j]
        BY <1>2, <3>1, <3>3, <4>1
      <4> QED BY <2>1, <4>1, <4>2 DEF Printed
    <3> QED BY <3>2, <3>3
  <2>7. cnt' = Len(out') /\ out' = Before(fmt, args)[at]
    BY <1>2, <2>1, <2>4 DEF Printed
  <2> QED BY <2>3, <2>5, <2>6, <2>7 DEF Printed
<1> QED BY <1>1, <1>2, <1>3, KeptPrinted

\* A conversion prints its field, or one that is too long.
LEMMA KeptField ==
  ASSUME Shape, Noticed, Kept, Sunk, PrintField
  PROVE  Kept'
<1> DEFINE d == Directive
           w == Asked(d.width, next)
           p == Asked(d.prec, next + Taken(d.width))
           xp == d.prec.by = "num" \/ (d.prec.by # "none" /\ p >= 0)
           b == Converted(d, Argument(d), Flags(d, w), p, xp)
           field == Larger(Magnitude(w), Len(b.prefix) + b.p)
           T == TextOf(fmt, args, at)
<1>1. Passed /\ pass = "print" /\ at \in 1 .. Len(fmt) /\ IsConversion(at) /\ d.conv # "n" /\ d = fmt[at] /\ cnt \in Nat
      /\ sink \in [kind : {"string", "console", "stdout"}, size : Nat] /\ ~ IsText
  <2>1. Passed /\ pass = "print" /\ at <= Len(fmt) /\ IsConversion(at) /\ d.conv # "n" /\ ~ IsText
    BY PassedIs DEF Shape, PrintField, More, IsText, Directive, IsConversion
  <2> QED BY <2>1, IntMaxIs DEF Shape, Passed, Directive
<1>2. IF b.fails \/ b.p > IntMax - Len(b.prefix) \/ TooLong(field) THEN Finish(-1)
      ELSE /\ Write(PutField(b, field))
           /\ cnt' = cnt + field /\ at' = at + 1 /\ l10n' = AnyLocalised(d)
           /\ AfterArguments(d)
           /\ UNCHANGED <<caller, pass, nl_type, nl_arg, stored, ret>>
  BY DEF PrintField
<1>3. WellFormed(fmt) => TextSoFar /\ Printed(at - 1, out, cnt, next, stored) /\ (Ordinary => ~ l10n) /\ Meant(d)
  BY <1>1, TextSoFarIs, MeantIs DEF Kept
\* The field is the one promised.
<1>4. ASSUME WellFormed(fmt)
      PROVE  /\ Fitting(b) /\ field \in Nat /\ Len(b.prefix) \in Nat /\ b.p \in Nat /\ T \in Seq(TextChars)
             /\ ~ b.fails => Laid(b, field) = T /\ Len(T) = field
             /\ b.fails => Len(T) > IntMax
  <2>1. Placed(at) /\ Numbered(at)
    BY <1>1, <1>4, PlacedIs, NumberedIs
  <2>2. d \in ConversionDirective /\ TypeOf(d) # NoType
    BY <1>1, <2>1 DEF Placed
  <2>3. PICK slot \in Value : slot = args[PlaceOf(at)] /\ Argument(d) = Popped(TypeOf(d), slot) /\ ArgumentOf(fmt, args, at) = Number2(TypeOf(d), slot)
    BY <1>1, <1>3, <1>4, <2>1 DEF Meant, Numbered
  <2>4. w = WidthAt(fmt, args, at) /\ p = PrecAt(fmt, args, at) /\ w \in - IntMax - 1 .. IntMax /\ p \in Int
    <3>1. w = WidthAt(fmt, args, at) /\ p = PrecAt(fmt, args, at)
      BY <1>3, <1>4 DEF Meant
    <3> QED BY <2>1, <3>1, IntMaxIs DEF Numbered
  <2>5. xp <=> p >= 0
    BY <1>3, <1>4, <2>4 DEF Meant
  <2>6. T = FieldText(d, Number2(TypeOf(d), slot), w, p)
    BY <1>1, <2>3, <2>4, Zenon DEF TextOf, IsConversion
  <2> HIDE DEF w, p, xp, T, d
  <2>7. Promised(d, Number2(TypeOf(d), slot), w, p, Converted(d, Popped(TypeOf(d), slot), Flags(d, w), p, xp))
    BY <1>1, <2>2, <2>4, <2>5, FieldIsPromised
  <2>8. b = Converted(d, Popped(TypeOf(d), slot), Flags(d, w), p, xp)
    BY <2>3
  <2> HIDE DEF b
  <2>9. Promised(d, Number2(TypeOf(d), slot), w, p, b)
    BY <2>7, <2>8
  <2>10. Fitting(b) /\ T \in Seq(TextChars) /\ (~ b.fails => Laid(b, field) = T /\ Len(T) = field) /\ (b.fails => Len(T) > IntMax)
    BY <2>6, <2>9 DEF Promised
  <2> QED BY <2>4, <2>10, WidthIs
<1>7. WellFormed(fmt) => w \in - IntMax - 1 .. IntMax
  <2>1. WellFormed(fmt) => w = WidthAt(fmt, args, at) /\ Numbered(at)
    BY <1>1, <1>3, PlacedIs, NumberedIs DEF Meant
  <2> QED BY <2>1 DEF Numbered
<1> HIDE DEF w, p, xp, b, T
<1>5. CASE b.fails \/ b.p > IntMax - Len(b.prefix) \/ TooLong(field)
  <2>1. Finish(-1)
    BY <1>2, <1>5
  <2>2. ASSUME WellFormed(fmt) PROVE ~ (Len(Everything(fmt, args)) <= IntMax)
    <3>1. cnt <= Len(Before(fmt, args)[at - 1])
      BY <1>1, <1>3, <2>2 DEF Printed
    <3>2. PICK l \in Nat, i \in Nat, q \in Nat, z \in Nat, k \in Nat : l = Len(T) /\ i = IntMax /\ q = Len(b.prefix) /\ z = b.p /\ k = field
      <4>1. Len(T) \in Nat
        BY <1>4, <2>2, LenProperties
      <4> QED BY <1>4, <2>2, <4>1, IntMaxIs
    <3>3. k >= q + z
      <4>1. PICK m : m = Magnitude(w)
        OBVIOUS
      <4>2. k = Larger(m, q + z) /\ k \in Nat
        BY <3>2, <4>1
      <4>3. m \in Int
        <5>1. w \in - IntMax - 1 .. IntMax
          BY <1>7, <2>2
        <5> QED BY <1>4, <2>2, <4>1, <5>1, WidthIs, IntMaxIs
      <4> QED BY <4>2, <4>3 DEF Larger
    <3>4. l > i - cnt
      <4>1. CASE b.fails
        <5>1. l > i
          BY <1>4, <2>2, <3>2, <4>1
        <5> QED BY <1>1, <5>1
      <4>2. CASE ~ b.fails
        <5>1. l = k
          BY <1>4, <2>2, <3>2, <4>2
        <5>2. z > i - q \/ k > i - cnt
          BY <1>5, <3>2, <4>2 DEF TooLong
        <5> QED BY <1>1, <3>3, <5>1, <5>2
      <4> QED BY <4>1, <4>2
    <3>5. l <= Len(TextOf(fmt, args, at))
      BY <3>2 DEF T
    <3> QED BY <1>1, <1>3, <2>2, <3>1, <3>2, <3>4, <3>5, TooLongIs
  <2> QED BY <2>1, <2>2, KeptFinish
<1>6. CASE ~ (b.fails \/ b.p > IntMax - Len(b.prefix) \/ TooLong(field))
  <2>1. /\ Write(PutField(b, field))
        /\ cnt' = cnt + field /\ at' = at + 1 /\ l10n' = AnyLocalised(d)
        /\ AfterArguments(d)
        /\ UNCHANGED <<caller, pass, nl_type, nl_arg, stored, ret>>
    BY <1>2, <1>6
  <2>2. ASSUME WellFormed(fmt) PROVE (Ordinary => ~ l10n') /\ Printed(at, out', cnt', next', stored')
    <3>1. out' = out \o T /\ cnt' = cnt + Len(T)
      <4>1. Held(out, mem)
        BY <1>1 DEF Sunk
      <4>2. PutField(b, field).text = out \o Laid(b, field)
        <5>1. field \in Int
          BY <1>4, <2>2
        <5> HIDE DEF field
        <5> QED BY <1>1, <1>4, <2>2, <4>1, <5>1, FieldHolds
      <4> QED BY <1>4, <1>6, <2>1, <2>2, <4>2 DEF Write
    <3>2. Ordinary => ~ l10n' /\ next' = Slots(fmt)[at] + 1
      BY <1>1, <1>3, <2>1, <2>2, NextMeant
    <3>3. Printed(at, out \o T, cnt + Len(T), next', stored)
      BY <1>1, <1>3, <2>2, <3>2, PrintedMore DEF T
    <3> QED BY <2>1, <3>1, <3>2, <3>3
  <2> QED BY <1>1, <2>1, <2>2, KeptPrinted
<1> QED BY <1>5, <1>6

LEMMA KeptEnd ==
  ASSUME Shape, Kept, PrintEnd
  PROVE  Kept'
<1>1. /\ Passed /\ pass = "print" /\ at - 1 = Len(fmt) /\ cnt \in 0 .. IntMax
      /\ pass' = "done" /\ ret' = cnt /\ fmt' = fmt /\ args' = args /\ out' = out /\ stored' = stored
  <2>1. Passed /\ pass = "print" /\ at > Len(fmt)
    BY PassedIs DEF PrintEnd, Shape
  <2>2. at - 1 = Len(fmt)
    BY <2>1 DEF Shape, Passed
  <2> QED BY <2>1, <2>2 DEF PrintEnd, Finish, caller, Shape
<1> SUFFICES ASSUME WellFormed(fmt)' PROVE Kept'
  BY DEF Kept
<1>2. WellFormed(fmt)
  BY <1>1
<1>3. Printed(Len(fmt), out, cnt, next, stored)
  BY <1>1, <1>2 DEF Kept
<1>4. out = Everything(fmt, args) /\ cnt = Len(out)
  BY <1>3 DEF Printed, Everything
<1>5. \A i \in Conversions(fmt) :
        fmt[i].conv = "n" => stored[i] = Len(Before(fmt, args)[i - 1]) % Pow2[Bits[WidthOf[fmt[i].mod]]]
  BY <1>3, UsesAre DEF Printed
<1>6. cnt <= IntMax
  BY <1>1, IntMaxIs
<1>7. PrintsThePromise'
  <2>1. /\ out' = Everything(fmt', args') /\ ret' = Len(out') /\ Len(Everything(fmt', args')) <= IntMax
    BY <1>1, <1>4, <1>6
  <2>2. \A i \in Conversions(fmt') :
          fmt'[i].conv = "n" => stored'[i] = Len(Before(fmt', args')[i - 1]) % Pow2[Bits[WidthOf[fmt'[i].mod]]]
    BY <1>1, <1>5
  <2> QED BY <2>1, <2>2 DEF PrintsThePromise
<1> QED BY <1>1, <1>7 DEF Kept

\* For all formats, arguments and widths of integers, a well-formed format
\* prints the text of the C standard, counts it, leaves the counts of %n, and
\* fails when the text is longer than an int counts: of a call that ends, which
\* one with the width INT_MIN does not in the model, its negation being undefined.
THEOREM PromiseIsKept == PrintfSpec => []PrintsThePromise
<1> DEFINE Inv == Shape /\ Sunk /\ Noticed /\ Kept
<1>1. PrintfInit => Inv
  BY ShapeInit, NoticedInit, KeptInit
<1>2. Inv /\ [PrintfNext]_printf_vars => Inv'
  <2> SUFFICES ASSUME Inv, [PrintfNext]_printf_vars PROVE Inv'
    OBVIOUS
  <2>1. Shape' /\ Sunk' /\ Noticed'
    BY ShapeStep, NoticedStep
  <2>2. Kept'
    <3>1. CASE CollectText \/ CollectConversion \/ CollectEnd
      BY <3>1, KeptCollect
    <3>2. CASE PrintText
      BY <3>2, KeptPrintText
    <3>3. CASE StoreCount
      BY <3>3, KeptStore
    <3>4. CASE PrintField
      BY <3>4, KeptField
    <3>5. CASE PrintRefused
      <4>1. Invalid(Directive) /\ Finish(-1) /\ pass = "print" /\ at <= Len(fmt) /\ IsConversion(at)
        BY <3>5 DEF PrintRefused, More, IsText, IsConversion, Directive
      <4>2. Passed /\ at \in 1 .. Len(fmt)
        BY <4>1, PassedIs DEF Shape, Passed
      <4>3. ~ WellFormed(fmt)
        BY <4>1, <4>2, NotRefused DEF Kept
      <4> QED BY <4>1, <4>3, KeptFinish
    <3>6. CASE PrintEnd
      BY <3>6, KeptEnd
    <3>7. CASE WidthOverflow
      <4>1. fmt' = fmt /\ pass' = "undefined" /\ pass = "print" /\ l10n' = l10n
        BY <3>7 DEF WidthOverflow, More, caller
      <4>2. WellFormed(fmt)' = WellFormed(fmt) /\ Ordinary' = Ordinary
        BY <4>1 DEF Ordinary, Conversions
      <4> QED BY <4>1, <4>2 DEF Kept, PrintsThePromise
    <3>8. CASE UNCHANGED printf_vars
      <4>1. /\ fmt' = fmt /\ args' = args /\ pass' = pass /\ at' = at /\ l10n' = l10n /\ next' = next /\ cnt' = cnt
            /\ out' = out /\ stored' = stored /\ ret' = ret
        BY <3>8 DEF printf_vars, caller
      <4> QED BY <4>1, Zenon DEF Kept, Printed, Ordinary, IsConversion, Conversions, PrintsThePromise
    <3> QED BY <3>1, <3>2, <3>3, <3>4, <3>5, <3>6, <3>7, <3>8 DEF PrintfNext
  <2> QED BY <2>1, <2>2
<1>3. Inv => PrintsThePromise
  <2>1. Kept => PrintsThePromise
    BY DEF Kept, PrintsThePromise
  <2> QED BY <2>1
<1> QED BY <1>1, <1>2, <1>3, PTL DEF PrintfSpec
==============================================================================
