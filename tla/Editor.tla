------------------------------- MODULE Editor -------------------------------
(***************************************************************************)
(* What a line editor with a history promises: a text that grows, shrinks, *)
(* is completed or recalled; a text that is submitted is what the program  *)
(* gets, and it is the newest one of the history.                          *)
(***************************************************************************)
EXTENDS Integers, Sequences, SequencesExt

CONSTANT Words   \* what a completion may put in

VARIABLES
  text, past, cursor, delivered,
  room   \* whether one more text can be recorded

editorVars == <<text, past, cursor, delivered>>

Init == text = << >> /\ past = << >> /\ cursor = 0 /\ delivered = << >>

Edited ==
  /\ delivered' = << >> /\ UNCHANGED <<past, cursor>>
  /\ \/ Len(text') = Len(text) + 1 /\ IsPrefix(text, text')                 \* a key
     \/ text # << >> /\ text' = Front(text)                                 \* backspace
     \/ IsPrefix(text, text') \/ \E w \in Words : IsSuffix(w, text')        \* completion

\* The entries are visited one by one, and the ends hold.
Recall ==
  /\ past # << >>
  /\ cursor' \in {IF cursor > 0 THEN cursor - 1 ELSE 0,
                  IF cursor < Len(past) - 1 THEN cursor + 1 ELSE cursor}
  /\ cursor' < Len(past) /\ text' = past[cursor' + 1]
  /\ delivered' = << >> /\ UNCHANGED past

\* Without room the text is delivered, but not recorded.
Submit ==
  /\ text # << >>
  /\ delivered' = text /\ text' = << >>
  /\ \/ past' = Append(past, text) /\ cursor' = Len(past')
     \/ ~room /\ UNCHANGED <<past, cursor>>

\* Nothing is recorded; what the program gets is not promised.
SubmitNothing == text = << >> /\ UNCHANGED <<text, past, cursor>>

\* A step that shows nothing (the program left a buffer, or the next key follows).
Silent == delivered' = << >> /\ UNCHANGED <<text, past, cursor>>

Next == Silent \/ Edited \/ Recall \/ Submit \/ SubmitNothing

Spec == Init /\ [][Next]_editorVars
=============================================================================
