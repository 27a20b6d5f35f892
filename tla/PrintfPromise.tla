--------------------------- MODULE PrintfPromise ---------------------------
(***************************************************************************)
(* What the C standard promises of formatted output, stated from the       *)
(* arguments and the directives alone, without passes, flags or padding    *)
(* calls; and the properties of Printf that compare the two.               *)
(***************************************************************************)
EXTENDS Printf, FiniteSets

Conversions(f) == {i \in 1 .. Len(f) : f[i].kind # "text"}
Fields(d) == {d.width, d.prec}
ByPosition(d) == d.pos # NoPos
\* Positions with the types under which the format names them.
Uses(f) == {<<f[i].pos, TypeOf(f[i])>> : i \in {j \in Conversions(f) : ByPosition(f[j])}}
           \cup UNION {{<<g.n, CInt>> : g \in {h \in Fields(f[i]) : h.by = "pos"}} : i \in Conversions(f)}
Positions(f) == {u[1] : u \in Uses(f)}

\* Formats of which the standard promises anything: all or none of the
\* arguments by position, from 1 on, one type each, and numbers that fit.
WellFormed(f) ==
  /\ \A i \in Conversions(f) : TypeOf(f[i]) # NoType /\ \A g \in Fields(f[i]) : g.by = "num" => g.n <= IntMax
  /\ \/ Uses(f) = {} /\ \A i \in Conversions(f) : ~ByPosition(f[i])
     \/ /\ \A i \in Conversions(f) : ByPosition(f[i]) /\ \A g \in Fields(f[i]) : g.by # "next"
        /\ Positions(f) = 1 .. Cardinality(Positions(f)) /\ Cardinality(Uses(f)) = Cardinality(Positions(f))

\* The arguments that the first i directives take when none is named.
Star(g) == IF g.by = "next" THEN 1 ELSE 0
SlotsOf(d) == IF d.kind = "text" THEN 0 ELSE Star(d.width) + Star(d.prec) + 1
Slots(f) == LET taken[i \in 0 .. Len(f)] == IF i = 0 THEN 0 ELSE taken[i - 1] + SlotsOf(f[i]) IN taken

\* A number of the type: between 0 and 2^b - 1, or in two's complement.
Number2(type, slot) ==
  LET b == Bits[type.width]
      low == slot % Pow2[b]
  IN  IF type.signed /\ low >= Pow2[b - 1] THEN low - Pow2[b] ELSE low
ArgumentOf(f, a, i) == Number2(TypeOf(f[i]), a[IF ByPosition(f[i]) THEN f[i].pos ELSE Slots(f)[i]])
NumberIn(g, a, slot) ==
  CASE g.by = "num" -> g.n [] g.by = "pos" -> Number2(CInt, a[g.n]) [] g.by = "next" -> Number2(CInt, a[slot]) [] g.by = "none" -> -1
WidthAt(f, a, i) == NumberIn(f[i].width, a, Slots(f)[i - 1] + 1)
PrecAt(f, a, i) == NumberIn(f[i].prec, a, Slots(f)[i - 1] + Star(f[i].width) + 1)

Abs(n) == IF n < 0 THEN -n ELSE n
WithZeros(s, n) == Run("0", Larger(0, n - Len(s))) \o s
\* A number: at least prec digits, and for the alternative octal form a leading zero.
DigitsOf(d, v, prec) ==
  LET plain == WithZeros(Digits(d.conv)[Abs(v)], CASE d.conv = "p" /\ prec >= 0 -> Larger(prec, PtrDigits) [] prec < 0 -> 1 [] OTHER -> prec)
  IN  IF d.conv = "o" /\ "#" \in d.flags /\ (plain = <<>> \/ plain[1] # "0") THEN <<"0">> \o plain ELSE plain
SignOf(v, fl) == IF v < 0 THEN <<"-">> ELSE IF "+" \in fl THEN <<"+">> ELSE IF " " \in fl THEN <<" ">> ELSE <<>>
PrefixOf(d, v) ==
  CASE d.conv \in {"d", "i"} -> SignOf(v, d.flags)
    [] v # 0 /\ (d.conv = "p" \/ (d.conv = "x" /\ "#" \in d.flags)) -> <<"0", "x">>
    [] v # 0 /\ d.conv = "X" /\ "#" \in d.flags -> <<"0", "X">>
    [] OTHER -> <<>>
BodyOf(d, v, prec) ==
  CASE d.conv = "c" -> <<Char(v)>>
    [] d.conv = "s" -> LET s == StringAt(v) IN IF prec >= 0 /\ prec < Len(s) THEN SubSeq(s, 1, prec) ELSE s
    [] OTHER -> DigitsOf(d, v, prec)

\* The text of a conversion of v, in a field of width w.
FieldText(d, v, w, prec) ==
  LET number == d.conv \notin {"c", "s"}
      prefix == IF number THEN PrefixOf(d, v) ELSE <<>>
      body == BodyOf(d, v, prec)
      blank == Larger(0, Abs(w) - Len(prefix \o body))
  IN  CASE w < 0 \/ "-" \in d.flags -> prefix \o body \o Run(" ", blank)
        [] w >= 0 /\ "-" \notin d.flags /\ "0" \in d.flags /\ number /\ prec < 0 -> prefix \o Run("0", blank) \o body
        [] OTHER -> Run(" ", blank) \o prefix \o body

TextOf(f, a, i) ==
  CASE f[i].kind = "text" -> f[i].text
    [] f[i].kind # "text" /\ f[i].conv = "n" -> <<>>
    [] OTHER -> FieldText(f[i], ArgumentOf(f, a, i), WidthAt(f, a, i), PrecAt(f, a, i))
\* The text of the first i directives.
Before(f, a) ==
  LET text[i \in 0 .. Len(f)] == IF i = 0 THEN <<>> ELSE text[i - 1] \o TextOf(f, a, i) IN text
Everything(f, a) == Before(f, a)[Len(f)]
-----------------------------------------------------------------------------
\* A well-formed format prints the text of the standard and returns its length,
\* or -1 if it is longer than an int counts; the counts that %n leaves are those
\* of the text before it (printf_core, both passes).  A call that meets the width
\* INT_MIN never gets to "done", and is promised nothing.
PrintsThePromise ==
  pass = "done" /\ WellFormed(fmt) =>
    IF Len(Everything(fmt, args)) <= IntMax
    THEN /\ out = Everything(fmt, args) /\ ret = Len(out)
         /\ \A i \in Conversions(fmt) :
              fmt[i].conv = "n" => stored[i] = Len(Before(fmt, args)[i - 1]) % Pow2[Bits[WidthOf[fmt[i].mod]]]
    ELSE ret = -1

\* From here on the code reads ordinary arguments no more: a conversion or a width
\* by position has been met.
Marks(d) == d.kind # "text" /\ (ByPosition(d) \/ d.width.by = "pos")
MarkedBefore(f, i) == \E j \in 1 .. i - 1 : Marks(f[j])
\* An asterisk that takes the next argument there.
Clashes(f, i) ==
  LET d == f[i] IN
  \/ d.width.by = "next" /\ (MarkedBefore(f, i) \/ ByPosition(d))
  \/ d.prec.by = "next" /\ (MarkedBefore(f, i) \/ Marks(d))
Unknown(f) == \E i \in Conversions(f) : TypeOf(f[i]) = NoType
LeavesGap(f) ==
  /\ \A i \in Conversions(f) : ByPosition(f[i])
  /\ 0 \notin Positions(f) /\ Positions(f) # 1 .. Cardinality(Positions(f))

\* A call that ends returns -1 when its format has an unknown conversion, an
\* asterisk for the next argument behind a position, or, all its conversions being
\* by position, positions that are not 1, 2, ... (printf_core, inval).  Other mixes,
\* as "%1$d %d", and the position 0 are not refused: the first pass ends at the
\* conversion without a position, or never looks at place 0, and what is printed
\* for them is an nl_arg in which nothing was stored.
BadFormatsAreRefused ==
  pass = "done" /\ (Unknown(fmt) \/ (\E i \in Conversions(fmt) : Clashes(fmt, i)) \/ LeavesGap(fmt)) => ret = -1

\* Where the first n characters of a text have one that is not NUL.
Visible(text, n) == {i \in 1 .. n : text[i] # "NUL"}

\* snprintf leaves the longest beginning of the text that fits, ends it in the
\* buffer, and touches nothing behind it, also when the format is refused; the
\* base kernel's console loses NUL characters only and standard output nothing
\* (str_write, vsnprintf, printk_sbi_write, printf_syscall_write).
SinksHoldTheText ==
  LET n == Smaller(Len(out), Larger(0, sink.size - 1))
      over == IF sink.size > 0 /\ pass = "done" THEN n + 1 ELSE n
  IN  CASE sink.kind = "string" -> /\ \A k \in 0 .. n - 1 : mem[k] = out[k + 1]
                                   /\ over > n => mem[n] = "NUL"
                                   /\ \A k \in over .. sink.size : mem[k] = "old"
        [] sink.kind = "console" -> /\ Len(mem) = Cardinality(Visible(out, Len(out)))
                                    /\ \A i \in Visible(out, Len(out)) : mem[Cardinality(Visible(out, i))] = out[i]
        [] sink.kind = "stdout" -> mem = out
=============================================================================
