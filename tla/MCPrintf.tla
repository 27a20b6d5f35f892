----------------------------- MODULE MCPrintf -----------------------------
(* Formats of one and two directives over integers of 3, 4, 5 and 6 bits. *)
EXTENDS PrintfPromise

T(s) == [kind |-> "text", text |-> s]
C(pos, flags, width, prec, mod, conv) ==
  [kind |-> "conv", pos |-> pos, flags |-> flags, width |-> width, prec |-> prec, mod |-> mod, conv |-> conv]
Num(n) == [by |-> "num", n |-> n]
Pos(n) == [by |-> "pos", n |-> n]
Asterisk == [by |-> "next", n |-> 0]
None == [by |-> "none", n |-> 0]

MCBits == [char |-> 3, short |-> 4, int |-> 5, long |-> 6]
MCCharacters == Symbols \cup {"a", "b", "c", "t", "z", "%"}
MCGlyphs == [i \in 1 .. 7 |-> Lower[i + 1]]
MCTexts == [a \in 1 .. 63 |-> CASE a = 1 -> <<"a", "b", "c">> [] a = 2 -> Run("z", 16) [] OTHER -> <<>>]

Numbers == {C(-1, fl, w, p, m, c) : fl \in {{}, {"#"}, {"0", "+"}, {"-", "0", " "}}, w \in {Num(0), Num(5), Asterisk}, p \in {None, Num(0), Num(3), Asterisk},
                                   m \in {"bare"}, c \in {"d", "o", "x"}}
           \cup {C(-1, {"#"}, Num(4), None, m, c) : m \in {"bare", "l", "h", "hh", "z"}, c \in {"i", "u", "X", "p"}}
Others == {C(-1, fl, w, p, "bare", c) : fl \in {{}, {"-"}}, w \in {Num(0), Num(3), Num(99)}, p \in {None, Num(2)}, c \in {"c", "s"}}
          \cup {C(-1, {}, Num(0), Num(99), "bare", c) : c \in {"d", "s"}}
          \cup {C(-1, {}, Asterisk, Asterisk, "bare", "c"), C(-1, {}, Num(0), None, "bare", "y")}
Single == {<<d>> : d \in Numbers \cup Others}
Two == {<<d, e>> : d, e \in {T(<<"%">>), T(Run("t", 9)), T(Run("t", 16)), C(-1, {}, Num(0), None, "hh", "n"), C(-1, {"0"}, Asterisk, None, "bare", "d"),
                             C(-1, {"+"}, Num(9), None, "l", "i"), C(-1, {}, Num(0), None, "bare", "c"), C(-1, {}, Num(2), Asterisk, "bare", "s"),
                             C(1, {}, Num(0), None, "bare", "d"), C(2, {}, Num(3), None, "l", "x"), C(3, {}, Num(0), None, "bare", "u"),
                             C(1, {}, Num(0), None, "l", "d"),
                             C(1, {}, Pos(2), Pos(1), "bare", "o"), C(-1, {}, Pos(1), None, "bare", "u"), C(2, {}, Asterisk, None, "bare", "d"),
                             C(0, {}, Num(0), None, "bare", "d")}}

MCFormats == Single \cup Two
MCArguments == {<<0, 1, 2, 1, 1, 0>>, <<3, 2, 0, 1, 1, 0>>, <<29, 59, 37, 1, 1, 0>>, <<16, 2, 8, 1, 2, 0>>, <<62, 60, 1, 2, 0, 0>>}
MCSinks == {[kind |-> "string", size |-> n] : n \in {0, 4}} \cup {[kind |-> k, size |-> 0] : k \in {"console", "stdout"}}
=============================================================================
