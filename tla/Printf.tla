------------------------------- MODULE Printf -------------------------------
(***************************************************************************)
(* Formatted output: vfprintf as the kernels and the programs use it, with *)
(* its two passes over a format, and the places the text goes to.          *)
(*                                                                         *)
(* The first pass collects the types of the arguments that are named by    *)
(* position; the second one prints.  A format is a sequence of directives: *)
(* runs of text, a "%%" being text already, and conversions with flags,    *)
(* width, precision, length modifier and letter.  Integers have the widths *)
(* of the constant Bits, and the caller's arguments are the slots of a     *)
(* register each, as on RISC-V.                                            *)
(***************************************************************************)
EXTENDS Integers, Sequences

CONSTANTS Formats,    \* the formats that callers use
          Arguments,  \* the slots of arguments that they pass, and what lies behind
          Sinks,      \* where the text goes
          Characters, \* what text consists of, without NUL
          Glyphs,     \* the characters by their code
          Texts,      \* the string that begins at each address
          Bits,       \* the widths of "char", "short", "int" and "long"
          NL_ARGMAX,  \* the positions a format can name
          PtrDigits,  \* 2 * sizeof(void *)
          Garbage     \* what nl_arg holds before anything is stored in it

VARIABLES fmt, args, sink,
          pass,    \* "collect", "print", "done", or "undefined" where the code's behaviour is
          at,      \* the directive to come
          l10n,    \* an argument was named by position
          nl_type, nl_arg,
          next,    \* the argument that va_arg returns next
          cnt,
          out,     \* all that was written
          mem,     \* what the sink made of it
          stored,  \* what %n left, by directive
          ret
printf_vars == <<fmt, args, sink, pass, at, l10n, nl_type, nl_arg, next, cnt, out, mem, stored, ret>>
caller == <<fmt, args, sink>>

Larger(a, b) == IF a > b THEN a ELSE b
Smaller(a, b) == IF a < b THEN a ELSE b
-----------------------------------------------------------------------------
(* Types and arguments *)
Exponents == 0 .. Bits["long"]
Pow2[n \in Exponents] == IF n = 0 THEN 1 ELSE 2 * Pow2[n - 1]
IntMax == Pow2[Bits["int"] - 1] - 1
Uintmax == Pow2[Bits["long"]]
Value == 0 .. Uintmax - 1
CInt == [width |-> "int", signed |-> TRUE]
NoType == [width |-> "none", signed |-> FALSE]
Pointer == [width |-> "long", signed |-> FALSE]
WidthOf == [bare |-> "int", l |-> "long", ll |-> "long", h |-> "short", hh |-> "char", z |-> "long", j |-> "long"]

\* The state machine of length modifiers and letters, as the type it ends with.
TypeOf(d) ==
  CASE d.conv \in {"d", "i"} -> [width |-> WidthOf[d.mod], signed |-> TRUE]
    [] d.conv \in {"o", "u", "x", "X"} -> [width |-> WidthOf[d.mod], signed |-> FALSE]
    [] d.conv = "c" /\ d.mod \in {"bare", "l"} -> [width |-> "int", signed |-> d.mod = "bare"]
    [] d.conv = "s" /\ d.mod \in {"bare", "l"} -> Pointer
    [] d.conv = "p" /\ d.mod = "bare" -> Pointer
    [] d.conv = "n" -> Pointer
    [] OTHER -> NoType

\* pop_arg: the slot as a uintmax_t, cut to the type and extended again.
Popped_ZeroExtended(type, slot) == slot % Pow2[Bits[type.width]]
Popped(type, slot) ==
  LET b == Bits[type.width]
      low == slot % Pow2[b]
  IN  IF type.signed /\ low >= Pow2[b - 1] THEN Uintmax - Pow2[b] + low ELSE low

AsInt(x) == LET low == x % Pow2[Bits["int"]] IN IF low > IntMax THEN low - Pow2[Bits["int"]] ELSE low
-----------------------------------------------------------------------------
(* Numbers and strings as sequences of characters *)
Lower == <<"0", "1", "2", "3", "4", "5", "6", "7", "8", "9", "a", "b", "c", "d", "e", "f">>
Upper == <<"0", "1", "2", "3", "4", "5", "6", "7", "8", "9", "A", "B", "C", "D", "E", "F">>
BaseOf(conv) == CASE conv = "o" -> 8 [] conv \in {"x", "X", "p"} -> 16 [] OTHER -> 10

\* fmt_x, fmt_o, fmt_u: no digit at all for zero.
Digits(conv) ==
  LET b == BaseOf(conv)
      of[x \in Value] == IF x = 0 THEN <<>> ELSE Append(of[x \div b], (IF conv = "X" THEN Upper ELSE Lower)[1 + (x % b)])
  IN  of

StringAt(a) == IF a = 0 THEN <<"(", "n", "u", "l", "l", ")">> ELSE Texts[a]
Run(c, n) == [i \in 1 .. n |-> c]
Pad(c, w, len, fl) == IF fl \cap {"-", "0"} # {} \/ len >= w THEN <<>> ELSE Run(c, w - len)
Toggled(fl, f) == IF f \in fl THEN fl \ {f} ELSE fl \cup {f}
-----------------------------------------------------------------------------
(* What callers pass, and what memory holds *)
NoPos == -1
Field == [by : {"num", "next", "none"}, n : Nat] \cup [by : {"pos"}, n : 0 .. NL_ARGMAX]
TextDirective == [kind : {"text"}, text : Seq(Characters)]
ConversionDirective ==
  [kind : {"conv"}, pos : NoPos .. NL_ARGMAX, flags : SUBSET {"#", "0", "-", " ", "+"},
   width : Field, prec : Field, mod : DOMAIN WidthOf, conv : STRING]
Symbols == {Lower[i] : i \in 1 .. 16} \cup {Upper[i] : i \in 1 .. 16} \cup {" ", "+", "-", "x", "X", "(", "n", "u", "l", ")"}

\* The widths grow from char to long; text has no NUL, every address holds a
\* string, and va_arg finds a slot for whatever a format asks.
ASSUME PrintfAssumption ==
  /\ Bits \in [{"char", "short", "int", "long"} -> Nat \ {0}]
  /\ Bits["char"] <= Bits["short"] /\ Bits["short"] <= Bits["int"] /\ Bits["int"] <= Bits["long"]
  /\ NL_ARGMAX \in Nat /\ PtrDigits \in Nat
  /\ "NUL" \notin Characters /\ Symbols \subseteq Characters
  /\ Glyphs \in [1 .. Pow2[Bits["char"]] - 1 -> Characters]
  /\ Texts \in [Value \ {0} -> Seq(Characters)]
  /\ Garbage \subseteq Value
  /\ Formats \subseteq Seq(TextDirective \cup ConversionDirective)
  /\ \A f \in Formats, a \in Arguments : a \in Seq(Value) /\ Len(a) >= 3 * Len(f) /\ Len(a) >= NL_ARGMAX
  /\ Sinks \subseteq [kind : {"string", "console", "stdout"}, size : Nat]
-----------------------------------------------------------------------------
(* One conversion: text, prefix, precision and flags as the switch leaves them *)
Sign(v, fl) == IF v >= Uintmax \div 2 THEN <<"-">> ELSE IF "+" \in fl THEN <<"+">> ELSE IF " " \in fl THEN <<" ">> ELSE <<>>
Precision(d, p, fl, len) ==
  CASE d.conv = "p" /\ p >= 0 -> Larger(p, PtrDigits)
    [] d.conv = "o" /\ "#" \in fl /\ p < len + 1 -> len + 1
    [] OTHER -> p

Number(d, v, fl, p, xp) ==
  LET x == IF d.conv \in {"d", "i"} /\ v >= Uintmax \div 2 THEN Uintmax - v ELSE v
      digits == Digits(d.conv)[x]
      p1 == Precision(d, p, fl, Len(digits))
  IN  [text |-> digits,
       prefix |-> CASE d.conv \in {"d", "i"} -> Sign(v, fl)
                    [] x # 0 /\ (d.conv = "p" \/ (d.conv \in {"x", "X"} /\ "#" \in fl)) -> <<"0", IF d.conv = "X" THEN "X" ELSE "x">>
                    [] OTHER -> <<>>,
       p |-> IF x = 0 /\ p1 = 0 THEN 0 ELSE Larger(p1, Len(digits) + (IF x = 0 THEN 1 ELSE 0)),
       fl |-> IF xp THEN fl \ {"0"} ELSE fl,
       fails |-> xp /\ p1 < 0]

Char(v) == LET low == v % Pow2[Bits["char"]] IN IF low = 0 THEN "NUL" ELSE Glyphs[low]
Character(v, fl) == [text |-> <<Char(v)>>, prefix |-> <<>>, p |-> 1, fl |-> fl \ {"0"}, fails |-> FALSE]

String(v, fl, p) ==
  LET s == StringAt(v)
      n == Smaller(Len(s), IF p < 0 THEN IntMax ELSE p)
  IN  [text |-> SubSeq(s, 1, n), prefix |-> <<>>, p |-> n, fl |-> fl \ {"0"}, fails |-> p < 0 /\ n < Len(s)]

Converted(d, v, fl, p, xp) ==
  CASE d.conv = "c" -> Character(v, fl) [] d.conv = "s" -> String(v, fl, p) [] OTHER -> Number(d, v, fl, p, xp)
-----------------------------------------------------------------------------
(* The sinks: a string of a given size, the console of the base kernel and standard output *)
Room_Whole(pos) == IF pos < sink.size THEN sink.size - pos ELSE 0
Room(pos) == IF pos < sink.size THEN sink.size - pos - 1 ELSE 0

BeforeNul(s) == SubSeq(s, 1, (CHOOSE k \in 1 .. Len(s) + 1 : (k > Len(s) \/ s[k] = "NUL") /\ \A i \in 1 .. k - 1 : s[i] # "NUL") - 1)

StrWrite(m, pos, s) ==
  [k \in DOMAIN m |-> IF k >= pos /\ k < pos + Smaller(Room(pos), Len(s)) THEN s[k - pos + 1] ELSE m[k]]
SbiWrite(m, s) == m \o BeforeNul(s)
SyscallWrite(m, s) == m \o s
\* f->write: what the sink holds after s, which comes behind pos characters.
Stored(m, pos, s) ==
  CASE sink.kind = "string" -> StrWrite(m, pos, s) [] sink.kind = "console" -> SbiWrite(m, s) [] OTHER -> SyscallWrite(m, s)

\* out: the text so far and the sink's cells, with s behind.
Put(acc, s) == [text |-> acc.text \o s, cells |-> Stored(acc.cells, Len(acc.text), s)]
Written == [text |-> out, cells |-> mem]
\* The six calls for a field of width w.
PutField(b, w) ==
  LET len == Len(b.prefix) + b.p
      left == Put(Put(Written, Pad(" ", w, len, b.fl)), b.prefix)
      zeros == Put(Put(left, Pad("0", w, len, Toggled(b.fl, "0"))), Pad("0", b.p, Len(b.text), {}))
  IN  Put(Put(zeros, b.text), Pad(" ", w, len, Toggled(b.fl, "-")))
Write(acc) == out' = acc.text /\ mem' = acc.cells

\* The end of vsnprintf.
Terminated == IF sink.kind = "string" /\ sink.size > 0 THEN [mem EXCEPT ![Smaller(Len(out), sink.size - 1)] = "NUL"] ELSE mem

Finish(r) ==
  /\ pass' = "done" /\ ret' = r /\ mem' = Terminated
  /\ UNCHANGED <<caller, at, l10n, nl_type, nl_arg, next, cnt, out, stored>>
-----------------------------------------------------------------------------
(* Both passes read the directives alike *)
Directive == fmt[at]
More(p) == pass = p /\ at <= Len(fmt)
IsText == Directive.kind = "text"
Localised(d) == l10n \/ d.pos # NoPos
TooLong(n) == n > IntMax - cnt
\* An ordinary '*' behind a position, no such conversion, or a width beyond INT_MAX.
Invalid(d) ==
  \/ d.width.by = "next" /\ Localised(d)
  \/ d.prec.by = "next" /\ (Localised(d) \/ d.width.by = "pos")
  \/ TypeOf(d) = NoType
  \/ d.width.by = "num" /\ d.width.n > IntMax
AnyLocalised(d) == Localised(d) \/ d.width.by = "pos"

Start(values) ==
  /\ pass' = "print" /\ at' = 1 /\ cnt' = 0 /\ l10n' = FALSE /\ next' = 1 /\ nl_arg' = values
  /\ UNCHANGED <<caller, nl_type, out, mem, stored, ret>>
Unset == {[i \in 0 .. NL_ARGMAX |-> g] : g \in Garbage}

CollectText ==
  /\ More("collect") /\ IsText
  /\ IF TooLong(Len(Directive.text)) THEN Finish(-1)
     ELSE /\ cnt' = cnt + Len(Directive.text) /\ at' = at + 1
          /\ UNCHANGED <<caller, pass, l10n, nl_type, nl_arg, next, out, mem, stored, ret>>

Noted(d) ==
  [i \in 0 .. NL_ARGMAX |->
     CASE i = d.pos -> TypeOf(d)
       [] i # d.pos /\ \E f \in {d.width, d.prec} : f.by = "pos" /\ f.n = i -> CInt
       [] OTHER -> nl_type[i]]

\* A conversion without a position ends the pass at once.
CollectConversion ==
  /\ More("collect") /\ ~IsText
  /\ LET d == Directive IN
     CASE Invalid(d) -> Finish(-1)
       [] ~Invalid(d) /\ d.pos = NoPos -> \E u \in Unset : Start(u)
       [] OTHER -> /\ nl_type' = Noted(d) /\ l10n' = AnyLocalised(d) /\ at' = at + 1
                   /\ UNCHANGED <<caller, pass, nl_arg, next, cnt, out, mem, stored, ret>>

\* The positions used must be 1, 2, ... without a gap.
Leading == {i \in 1 .. NL_ARGMAX : \A j \in 1 .. i : nl_type[j] # NoType}
Gap_Never == FALSE
Gap == \E i \in (1 .. NL_ARGMAX) \ Leading : nl_type[i] # NoType
Filled(u) == [i \in 0 .. NL_ARGMAX |-> IF i \in Leading THEN Popped(nl_type[i], args[i]) ELSE u[i]]
CollectEnd ==
  /\ pass = "collect" /\ at > Len(fmt)
  /\ \E u \in Unset : IF l10n /\ Gap THEN Finish(-1) ELSE Start(IF l10n THEN Filled(u) ELSE u)
-----------------------------------------------------------------------------
(* The second pass *)
Taken(f) == IF f.by = "next" THEN 1 ELSE 0
Asked(f, n) ==
  CASE f.by = "num" -> IF f.n > IntMax THEN -1 ELSE f.n
    [] f.by = "pos" -> AsInt(nl_arg[f.n])
    [] f.by = "next" -> AsInt(args[n])
    [] f.by = "none" -> -1
Magnitude(w) == IF w < 0 THEN -w ELSE w
\* An int cannot hold the negation of INT_MIN, which only an argument can bring.
Overflows(d) ==
  /\ d.width.by = "pos" \/ (d.width.by = "next" /\ ~Localised(d))
  /\ Asked(d.width, next) = -IntMax - 1
Flags(d, w) == IF w < 0 \/ "-" \in d.flags THEN (d.flags \cup {"-"}) \ {"0"} ELSE d.flags
FirstOf(d) == next + Taken(d.width) + Taken(d.prec)
Argument(d) == IF d.pos = NoPos THEN Popped(TypeOf(d), args[FirstOf(d)]) ELSE nl_arg[d.pos]
AfterArguments(d) == next' = FirstOf(d) + (IF d.pos = NoPos THEN 1 ELSE 0)

PrintText ==
  /\ More("print") /\ IsText
  /\ IF TooLong(Len(Directive.text)) THEN Finish(-1)
     ELSE /\ Write(Put(Written, Directive.text))
          /\ cnt' = cnt + Len(Directive.text) /\ at' = at + 1
          /\ UNCHANGED <<caller, pass, l10n, nl_type, nl_arg, next, stored, ret>>

StoreCount ==
  /\ More("print") /\ ~IsText /\ Directive.conv = "n" /\ ~Overflows(Directive) /\ ~Invalid(Directive)
  /\ stored' = [stored EXCEPT ![at] = cnt % Pow2[Bits[WidthOf[Directive.mod]]]]
  /\ l10n' = AnyLocalised(Directive) /\ at' = at + 1
  /\ AfterArguments(Directive)
  /\ UNCHANGED <<caller, pass, nl_type, nl_arg, cnt, out, mem, ret>>

PrintField ==
  /\ More("print") /\ ~IsText /\ Directive.conv # "n" /\ ~Overflows(Directive) /\ ~Invalid(Directive)
  /\ LET d == Directive
         w == Asked(d.width, next)
         p == Asked(d.prec, next + Taken(d.width))
         xp == d.prec.by = "num" \/ (d.prec.by # "none" /\ p >= 0)
         b == Converted(d, Argument(d), Flags(d, w), p, xp)
         field == Larger(Magnitude(w), Len(b.prefix) + b.p)
     IN  IF b.fails \/ b.p > IntMax - Len(b.prefix) \/ TooLong(field) THEN Finish(-1)
         ELSE /\ Write(PutField(b, field))
              /\ cnt' = cnt + field /\ at' = at + 1 /\ l10n' = AnyLocalised(d)
              /\ AfterArguments(d)
              /\ UNCHANGED <<caller, pass, nl_type, nl_arg, stored, ret>>

PrintRefused == More("print") /\ ~IsText /\ ~Overflows(Directive) /\ Invalid(Directive) /\ Finish(-1)

\* w = -w for INT_MIN is undefined: nothing is said of what follows.
WidthOverflow ==
  /\ More("print") /\ ~IsText /\ Overflows(Directive)
  /\ pass' = "undefined"
  /\ UNCHANGED <<caller, at, l10n, nl_type, nl_arg, next, cnt, out, mem, stored, ret>>
PrintEnd == pass = "print" /\ at > Len(fmt) /\ Finish(cnt)

PrintfInit ==
  /\ fmt \in Formats /\ args \in Arguments /\ sink \in Sinks
  /\ pass = "collect" /\ at = 1 /\ l10n = FALSE /\ next = 1 /\ cnt = 0 /\ ret = 0
  /\ nl_type = [i \in 0 .. NL_ARGMAX |-> NoType]
  /\ nl_arg \in Unset
  /\ out = <<>>
  /\ mem = IF sink.kind = "string" THEN [k \in 0 .. sink.size |-> "old"] ELSE <<>>
  /\ stored = [i \in 1 .. Len(fmt) |-> -1]

PrintfNext ==
  \/ CollectText \/ CollectConversion \/ CollectEnd
  \/ PrintText \/ StoreCount \/ PrintField \/ PrintRefused \/ WidthOverflow \/ PrintEnd
PrintfSpec == PrintfInit /\ [][PrintfNext]_printf_vars
=============================================================================
