------------------------------ MODULE ReadLine ------------------------------
(***************************************************************************)
(* read_line (src/main.c), which chat takes its messages with: a line of   *)
(* any length into a buffer that doubles.                                  *)
(***************************************************************************)
EXTENDS Integers, SequencesExt

CONSTANTS SizeMax,    \* SIZE_MAX
          Initial     \* the first capacity, 128

VARIABLES pc,
          typed,          \* what the call finds on stdin
          input,          \* what it has not read of that
          ended,          \* stdin has no more
          capacity,       \* of the buffer, 0 while there is none
          buffer,         \* what is stored, the final NUL included
          line            \* what the caller gets, << >> for none

stdin == <<typed, ended>>
vars  == <<pc, stdin, input, capacity, buffer, line>>

Init == /\ pc = "idle" /\ typed = << >> /\ ended = FALSE /\ input = << >>
        /\ capacity = 0 /\ buffer = << >> /\ line = << >>

\* One line with its newline, or what is before the end of stdin.
Call(text) ==
  /\ pc = "idle" /\ (ended => text = << >>)
  /\ typed' = text /\ input' = text
  /\ ended' = (text = << >> \/ Last(text) # "\n")
  /\ pc' = "allocate"
  /\ UNCHANGED <<capacity, buffer, line>>

Gives(answer) == /\ pc' = answer /\ capacity' = 0
                 /\ UNCHANGED <<stdin, input, buffer, line>>

Allocate ==
  /\ pc = "allocate"
  /\ \/ pc' = "read" /\ capacity' = Initial /\ UNCHANGED <<stdin, input, buffer, line>>
     \/ Gives("error")

Consume == input' = Tail(input) /\ UNCHANGED stdin

Reading == pc = "read" /\ input # << >> /\ Head(input) # "\n"

\* Mutant: the NUL's place is not kept.
FullNoNul == Len(buffer) >= capacity

\* The NUL that ends the line must fit as well.
Full == Len(buffer) + 1 >= capacity

Store ==
  /\ Reading /\ ~Full
  /\ Consume /\ buffer' = Append(buffer, Head(input))
  /\ UNCHANGED <<pc, capacity, line>>

\* Mutant: the character that made the buffer grow is not stored.
GrowDrops ==
  /\ Reading /\ Full
  /\ capacity <= SizeMax \div 2
  /\ capacity' = capacity * 2
  /\ Consume
  /\ UNCHANGED <<pc, buffer, line>>

\* The character that has no room has been read: it is stored after the growth.
Grow ==
  /\ Reading /\ Full
  /\ capacity <= SizeMax \div 2
  /\ capacity' = capacity * 2
  /\ Consume /\ buffer' = Append(buffer, Head(input))
  /\ UNCHANGED <<pc, line>>

\* Twice the capacity is too much, or realloc fails.
GrowFails == Reading /\ Full /\ Gives("error")

\* A newline ends the line and is dropped.  The caller frees what it gets.
EndOfLine ==
  /\ pc = "read" /\ input # << >> /\ Head(input) = "\n"
  /\ Consume
  /\ buffer' = Append(buffer, "NUL") /\ line' = buffer'
  /\ pc' = "line"
  /\ UNCHANGED capacity

\* The end of the input ends a line that has begun, too; an error of it does not.
EndOfInput ==
  /\ pc = "read" /\ input = << >>
  /\ \/ /\ buffer # << >>
        /\ buffer' = Append(buffer, "NUL") /\ line' = buffer'
        /\ pc' = "line"
        /\ UNCHANGED <<stdin, input, capacity>>
     \/ buffer = << >> /\ Gives("end")
     \/ Gives("error")

\* The caller has the answer, and owns the line.
Return ==
  /\ pc \in {"line", "end", "error"}
  /\ pc' = "idle" /\ capacity' = 0 /\ buffer' = << >> /\ line' = << >> /\ input' = << >>
  /\ UNCHANGED stdin

Step == Allocate \/ Store \/ Grow \/ GrowFails \/ EndOfLine \/ EndOfInput
-----------------------------------------------------------------------------
\* A line is what was typed, all of it and in order, without its newline, and has one
\* at the end of stdin as well; the end is answered only when nothing is left; and
\* nothing is written behind the buffer, its NUL included (main.c:125-160).
LineComplete ==
  /\ pc \in {"read", "line"} => Len(buffer) <= capacity /\ capacity <= SizeMax
  /\ pc = "line" => Front(line) = IF Last(typed) = "\n" THEN Front(typed) ELSE typed
  /\ pc = "end" => typed = << >>
  /\ pc \in {"idle", "end", "error"} => capacity = 0
=============================================================================
