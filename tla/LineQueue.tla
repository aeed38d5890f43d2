------------------------------ MODULE LineQueue -----------------------------
(***************************************************************************)
(* What the console promises about its input: a line that can be edited    *)
(* until it is sent, and a queue of what has been sent and not been read.  *)
(***************************************************************************)
EXTENDS Naturals, SequencesExt

CONSTANTS INPUT_BUF, Ends, Chars

VARIABLES sent, line

Init == sent = <<>> /\ line = <<>>

\* A character is added if there is room.  The end of a line sends it, and so
\* does a full buffer.
Type(c) ==
  LET new == Append(line, c)
  IN /\ Len(sent) + Len(line) < INPUT_BUF
     /\ IF c \in Ends \/ Len(sent) + Len(new) = INPUT_BUF
        THEN sent' = sent \o new /\ line' = <<>>
        ELSE line' = new /\ UNCHANGED sent

Erase == line # <<>> /\ line' = Front(line) /\ UNCHANGED sent
Kill == line' = <<>> /\ UNCHANGED sent

\* A read takes from the front of what was sent, and nothing past an end.
Read(n) ==
  /\ n <= Len(sent) /\ \A k \in 1..(n - 1) : sent[k] \notin Ends
  /\ sent' = SubSeq(sent, n + 1, Len(sent)) /\ UNCHANGED line

Next == \/ \E c \in Chars : Type(c)
        \/ Erase \/ Kill \/ \E n \in 1..INPUT_BUF : Read(n)
Spec == Init /\ [][Next]_<<sent, line>>
=============================================================================
