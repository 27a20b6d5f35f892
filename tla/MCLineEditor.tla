---------------------------- MODULE MCLineEditor ----------------------------
(***************************************************************************)
(* Instances of LineEditor for TLC: commands of one character, so that the *)
(* name of a file begins at the third.                                     *)
(***************************************************************************)
EXTENDS LineEditor

Keys == {"a", " "}
CommandTable == << <<"a">>, <<"a", "a">> >>
FileTable == << <<"r">>, <<"a">> >>
EditText == <<"a", "a", " ">>
Stale == {[i \in 1 .. LineSize |-> "0"], [i \in 1 .. LineSize |-> IF i < 3 THEN "a" ELSE "0"]}
=============================================================================
