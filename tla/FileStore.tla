----------------------------- MODULE FileStore -----------------------------
(***************************************************************************)
(* What the file system promises to programs: files are sequences of       *)
(* bytes, a write replaces the bytes at an offset within the file or at    *)
(* its end, a read returns what is there.  A write takes many steps, and   *)
(* a machine that is reset in between leaves a file in which each byte is  *)
(* an old or a new one, and the length the old or the new one.  No other   *)
(* file changes.                                                           *)
(***************************************************************************)
EXTENDS Naturals, Sequences

CONSTANTS
  Names,         \* names of files
  Bytes,         \* what a byte can hold
  Absent,        \* the contents of a file that does not exist
  Nothing        \* no read yet

VARIABLES
  contents,      \* contents[n]: the bytes of file n
  writing,       \* the set of the write that is under way, if there is one
  reply          \* what the read that just ended returned, if it was one

storeVars == <<contents, writing, reply>>

Longer(a, b) == IF a > b THEN a ELSE b

\* The bytes s after d was written at offset at.
Overwritten(s, at, d) ==
  [i \in 1 .. Longer(Len(s), at + Len(d)) |->
     IF i \in at + 1 .. at + Len(d) THEN d[i - at] ELSE s[i]]

\* t is on the way from s to its successor new.
Between(t, s, new) ==
  /\ Len(t) \in {Len(s), Len(new)}
  /\ \A i \in 1 .. Len(t) : t[i] = new[i] \/ (i <= Len(s) /\ t[i] = s[i])

Begin(w) ==
  /\ writing = {} /\ contents[w.name] # Absent
  /\ w.at <= Len(contents[w.name]) /\ w.data \in Seq(Bytes)
  /\ writing' = {w}
  /\ UNCHANGED contents

OthersUnchanged(n) == \A m \in Names \ {n} : contents'[m] = contents[m]

Progress(w) ==
  /\ Between(contents'[w.name], contents[w.name], Overwritten(contents[w.name], w.at, w.data))
  /\ OthersUnchanged(w.name)
  /\ UNCHANGED writing

End(w) ==
  /\ contents' = [contents EXCEPT ![w.name] = Overwritten(@, w.at, w.data)]
  /\ writing' = {}

Reset ==
  /\ writing' = {}
  /\ UNCHANGED contents

Create(n) ==
  /\ writing = {} /\ contents[n] = Absent
  /\ contents' = [contents EXCEPT ![n] = << >>]
  /\ UNCHANGED writing

Available(s, r) == IF r.at + r.asked < Len(s) THEN r.at + r.asked ELSE Len(s)

\* A read at an offset returns what is there, as far as it was asked for or
\* the file goes, and perhaps more bytes after it.
Read(r) ==
  /\ writing = {} /\ contents[r.name] # Absent
  /\ LET there == SubSeq(contents[r.name], r.at + 1, Available(contents[r.name], r))
     IN  SubSeq(r.data, 1, Len(there)) = there
  /\ UNCHANGED <<contents, writing>>

Init ==
  /\ \A n \in Names : contents[n] = Absent \/ contents[n] \in Seq(Bytes)
  /\ writing = {}
  /\ reply = Nothing

Next ==
  \/ /\ reply' # Nothing
     /\ Read(reply')
  \/ /\ reply' = Nothing
     /\ \/ \E w \in writing' : Begin(w)
        \/ \E w \in writing : Progress(w) \/ End(w)
        \/ \E n \in Names : Create(n)
        \/ Reset
        \/ UNCHANGED <<contents, writing>>

Spec == Init /\ [][Next]_storeVars
=============================================================================
