------------------------------- MODULE Bootlog -------------------------------
(***************************************************************************)
(* loader/bootlog.c: the last lines kprintf wrote, in a ring the screen shows  *)
(* while booting.  A new line is started only by the first character after     *)
(* the line end, a line too long loses its end, and the panel is painted once  *)
(* per call, except for calls made while it is being painted.                  *)
(***************************************************************************)
EXTENDS Integers, Sequences, FiniteSets

CONSTANTS
  BootlogLines,  \* BOOTLOG_LINES
  BootlogCols,   \* BOOTLOG_COLS
  Texts,         \* arguments of kprintf: sequences of characters, "n" ends a line,
                 \* without the '\r' that the loop skips
  MaxText        \* bound: characters of a behaviour

VARIABLES
  lines, first, count, partial,
  active,        \* bootlogBegin was called
  painting,      \* graphic_repaint is running
  text           \* history: all characters, line ends too

vars == <<lines, first, count, partial, active, painting, text>>

Slot(i) == i % BootlogLines

(* The ring as a record, so that one character is one function application. *)
ring == [lines |-> lines, first |-> first, count |-> count, partial |-> partial]

startLine_KeepsFirst(r) ==
  IF r.count < BootlogLines
  THEN [r EXCEPT !.lines[Slot(r.first + r.count)] = <<>>, !.count = @ + 1, !.partial = 0]
  ELSE [r EXCEPT !.lines[Slot(r.first + r.count)] = <<>>, !.partial = 0]

startLine(r) ==
  IF r.count < BootlogLines
  THEN [r EXCEPT !.lines[Slot(r.first + r.count)] = <<>>, !.count = @ + 1, !.partial = 0]
  ELSE [r EXCEPT !.lines[r.first] = <<>>, !.first = Slot(r.first + 1), !.partial = 0]

appendChar(r, c) ==
  LET s == IF r.count = 0 THEN startLine(r) ELSE r
      slot == Slot(s.first + s.count - 1)
  IN IF s.partial < BootlogCols - 1
     THEN [s EXCEPT !.lines[slot] = Append(@, c), !.partial = @ + 1]
     ELSE s

(* One turn of bootlogAppend's loop. *)
Put(r, c) ==
  IF c = "n" THEN [r EXCEPT !.partial = BootlogCols]
  ELSE appendChar(IF r.partial >= BootlogCols THEN startLine(r) ELSE r, c)

(* The loop over the characters of t. *)
Write(r, t) ==
  LET after[n \in 0..Len(t)] == IF n = 0 THEN r ELSE Put(after[n - 1], t[n])
  IN after[Len(t)]

bootlogAppend ==
  /\ \E t \in Texts :
       LET r == Write(ring, t)
       IN /\ Len(text) + Len(t) =< MaxText
          /\ lines' = r.lines /\ first' = r.first /\ count' = r.count /\ partial' = r.partial
          /\ text' = text \o t
  /\ painting' = (painting \/ active)
  /\ UNCHANGED active

(* graphic_repaint returns; until then a call does not paint again. *)
repaint ==
  /\ painting /\ painting' = FALSE
  /\ UNCHANGED <<lines, first, count, partial, active, text>>

bootlogBegin ==
  /\ ~active /\ active' = TRUE
  /\ UNCHANGED <<lines, first, count, partial, painting, text>>

bootlogLine(i) == lines[Slot(first + i)]

-----------------------------------------------------------------------------
Init ==
  /\ lines = [i \in 0..BootlogLines - 1 |-> <<>>]
  /\ first = 0 /\ count = 0 /\ partial = 0
  /\ active = FALSE /\ painting = FALSE /\ text = <<>>

Next == bootlogAppend \/ repaint \/ bootlogBegin

Spec == Init /\ [][Next]_vars

-----------------------------------------------------------------------------
(* Where the lines of x that are not empty begin. *)
LineStarts(x) == {k \in 1..Len(x) : x[k] # "n" /\ (k = 1 \/ x[k - 1] = "n")}

(* How many of them begin at s or later. *)
LinesFrom(x, s) == Cardinality({u \in LineStarts(x) : u >= s})

(* What the panel has room for of the line of x that begins at s. *)
Shows(line, x, s) ==
  /\ Len(line) < BootlogCols /\ s + Len(line) <= Len(x) + 1
  /\ \A k \in 1..Len(line) : line[k] = x[s + k - 1] /\ x[s + k - 1] # "n"
  /\ \/ Len(line) = BootlogCols - 1
     \/ s + Len(line) = Len(x) + 1
     \/ x[s + Len(line)] = "n"

(* The panel shows the end of the log: bootlogLine(0), ... bootlogLine(count - 1)  *)
(* are the last lines of everything kprintf wrote, in order, however the calls  *)
(* split them, and no line is lost before BOOTLOG_LINES newer ones came.       *)
LogIsTail ==
  LET lineCount == Cardinality(LineStarts(text))
  IN /\ count = IF lineCount < BootlogLines THEN lineCount ELSE BootlogLines
     /\ \A s \in LineStarts(text) :
          LinesFrom(text, s) <= BootlogLines =>
            Shows(bootlogLine(count - LinesFrom(text, s)), text, s)
=============================================================================
