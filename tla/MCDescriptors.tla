---------------------------- MODULE MCDescriptors ----------------------------
(***************************************************************************)
(* Instances of Descriptors with names of two bytes and extensions of two. *)
(***************************************************************************)
EXTENDS Descriptors

MCCapital == [a |-> "A", x |-> "X"]

\* a.x, aa.x, A.ax with a byte of what follows or none, .x, and a text
\* without a dot that fills the buffer or has NULs behind it.
MCPaths ==
  { <<"a", ".", "x", NUL>>, <<"a", "a", ".", "x">>, <<"A", ".", "a", "x">>,
    <<".", "x", NUL, "a">>, <<"a", NUL, NUL, "x">> }
\* aa.ax, of which only four bytes are copied, and a with bytes behind its NUL.
MCAnyPaths == { <<"a", "a", ".", "a", "x">>, <<"a", NUL, "x", "a">> }
ASSUME PathsAssumption ==
  (\A path \in MCPaths : Plain(path)) /\ (\A path \in MCAnyPaths : ~Plain(path))
MCCode == <<"x", "x", "x", "x">>

Entry(name) == [name |-> name, label |-> FALSE]
Label(name) == [name |-> name, label |-> TRUE]
AX == <<"A", SPACE, "X", SPACE>>
AAX == <<"A", "A", "X", SPACE>>
AAXX == <<"A", SPACE, "A", "X">>
End == <<NUL, NUL, NUL, NUL>>

MCDirs ==
  { << Label(AX), Entry(<<DELETED, SPACE, "X", SPACE>>), Entry(AAX), Entry(AX), Entry(End), Entry(AAXX) >>,
    << Entry(AAXX), Entry(AX), Entry(<<"A", SPACE, SPACE, SPACE>>) >> }
=============================================================================
