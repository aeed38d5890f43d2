------------------------------- MODULE Console ------------------------------
(***************************************************************************)
(* Input from the console (console.c): consoleintr, called by the keyboard *)
(* and serial interrupts, fills a ring of characters, in which the current *)
(* line can be edited; consoleread takes what has been sent.               *)
(*                                                                         *)
(* A step is what the code does while it holds input.lock: consoleintr     *)
(* with one character (it takes several in a row), consoleread up to its   *)
(* sleep or its end.  The indices are unsigned and wrap around at Width.   *)
(***************************************************************************)
EXTENDS Naturals, SequencesExt

CONSTANTS Reader,
          INPUT_BUF,
          Width,       \* 2^32: a multiple of INPUT_BUF
          MaxRead      \* bound: the most that a call asks for

Ends == {"newline", "^D"}
Chars == {"x", "newline", "^D"}

VARIABLES inbuf, inr, inw, ine,   \* input.buf, r, w and e
          reader                  \* each reader: pc, n, and how much it has

vars == <<inbuf, inr, inw, ine, reader>>

Plus(i, k) == (i + Width + k) % Width
Minus(i, j) == (i + Width - j) % Width
Idle == [pc |-> "idle", n |-> 0, got |-> 0, killed |-> FALSE]

Init ==
  /\ inbuf = [k \in 0..(INPUT_BUF - 1) |-> "x"]
  /\ inr = 0 /\ inw = 0 /\ ine = 0
  /\ reader = [p \in Reader |-> Idle]
-----------------------------------------------------------------------------
wakeup == [p \in Reader |-> IF reader[p].pc = "asleep"
                            THEN [reader[p] EXCEPT !.pc = "run"] ELSE reader[p]]

\* Faulty variant: the index is increased before it is used.
keepNext(c, wake) ==
  LET e == Plus(ine, 1)
  IN IF Minus(ine, inr) < INPUT_BUF
     THEN /\ inbuf' = [inbuf EXCEPT ![e % INPUT_BUF] = c] /\ ine' = e
          /\ IF c \in Ends \/ e = Plus(inr, INPUT_BUF)
             THEN inw' = e /\ reader' = wake
             ELSE UNCHANGED <<inw, reader>>
     ELSE UNCHANGED <<inbuf, inw, ine, reader>>

\* A character to keep: it is dropped if the ring is full.
keep(c, wake) ==
  LET e == Plus(ine, 1)
  IN IF Minus(ine, inr) < INPUT_BUF
     THEN /\ inbuf' = [inbuf EXCEPT ![ine % INPUT_BUF] = c] /\ ine' = e
          /\ IF c \in Ends \/ e = Plus(inr, INPUT_BUF)
             THEN inw' = e /\ reader' = wake
             ELSE UNCHANGED <<inw, reader>>
     ELSE UNCHANGED <<inbuf, inw, ine, reader>>

\* ^U erases back to what has been sent, ^H one character.
erase ==
  /\ ine # inw /\ ine' = Plus(ine, Width - 1)
  /\ UNCHANGED <<inbuf, inw, reader>>
eraseLine ==
  /\ ine' = inw
  /\ UNCHANGED <<inbuf, inw, reader>>

\* Faulty variant: nobody is woken.
consoleintrQuiet(c) ==
  /\ CASE c = "^U" -> eraseLine
       [] c = "^H" -> erase
       [] OTHER -> keep(c, reader)
  /\ UNCHANGED inr

consoleintr(c) ==
  /\ CASE c = "^U" -> eraseLine
       [] c = "^H" -> erase
       [] OTHER -> keep(c, wakeup)
  /\ UNCHANGED inr
-----------------------------------------------------------------------------
\* The loop of consoleread at index r with n characters still to read and got
\* read: where it stops, and whether it has to sleep there.
RECURSIVE take(_, _, _)
take(r, n, got) ==
  LET c == inbuf[r % INPUT_BUF]
  IN IF n = 0 THEN [r |-> r, n |-> n, got |-> got, pc |-> "idle"]
     ELSE IF r = inw THEN [r |-> r, n |-> n, got |-> got, pc |-> "asleep"]
     ELSE IF c = "^D" THEN [r |-> IF got > 0 THEN r ELSE Plus(r, 1),
                            n |-> n, got |-> got, pc |-> "idle"]
     ELSE IF c = "newline" THEN [r |-> Plus(r, 1), n |-> n - 1, got |-> got + 1,
                                 pc |-> "idle"]
     ELSE take(Plus(r, 1), n - 1, got + 1)

callRead(p, n) ==
  /\ reader[p].pc = "idle"
  /\ reader' = [reader EXCEPT ![p] = [Idle EXCEPT !.pc = "run", !.n = n]]
  /\ UNCHANGED <<inbuf, inr, inw, ine>>

consoleread(p) ==
  LET s == reader[p]
      t == take(inr, s.n, s.got)
  IN /\ s.pc = "run" /\ inr' = t.r
     /\ reader' = [reader EXCEPT ![p] =
          IF t.pc = "idle" \/ s.killed THEN Idle      \* the count, or -1
          ELSE [s EXCEPT !.pc = "asleep", !.n = t.n, !.got = t.got]]
     /\ UNCHANGED <<inbuf, inw, ine>>

kill(p) ==
  /\ reader[p].pc # "idle" /\ ~reader[p].killed
  /\ reader' = [reader EXCEPT ![p].killed = TRUE, ![p].pc = "run"]
  /\ UNCHANGED <<inbuf, inr, inw, ine>>

Next ==
  \/ \E c \in Chars \cup {"^U", "^H"} : consoleintr(c)
  \/ \E p \in Reader : consoleread(p) \/ kill(p) \/ \E n \in 1..MaxRead : callRead(p, n)
Spec == Init /\ [][Next]_vars
-----------------------------------------------------------------------------
\* The characters of the ring from index i up to j.
Between(i, j) == [k \in 1..Minus(j, i) |-> inbuf[Plus(i, k - 1) % INPUT_BUF]]

\* The ring is a line that is edited and a queue of what was sent: no edit
\* reaches what was sent, no character is lost, doubled or read out of order,
\* and reads stop at the end of a line, also where the indices wrap around.
Lines == INSTANCE LineQueue WITH sent <- Between(inr, inw), line <- Between(inw, ine)
ImplementsLineQueue == Lines!Spec

\* Nobody sleeps while there is something to read, whoever else reads; and the
\* indices stay within the ring.
ReadersAreWoken ==
  /\ inr # inw => \A p \in Reader : reader[p].pc # "asleep"
  /\ Minus(inw, inr) + Minus(ine, inw) <= INPUT_BUF
=============================================================================
