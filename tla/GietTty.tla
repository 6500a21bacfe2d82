------------------------------- MODULE GietTty -------------------------------
(***************************************************************************)
(* The keyboard of a terminal of the GIET.  Read through interrupts: the   *)
(* handler _isr_tty_get_indexed (irq_handler.c) moves the character of the *)
(* TTY controller to a one-place kernel buffer, the system call            *)
(* _tty_read_irq (drivers.c) polls that buffer, and tty_getc_irq,          *)
(* tty_gets_irq and tty_getw_irq (stdio.c) read characters, lines and      *)
(* numbers with it.  tty_getc and _tty_read poll the controller itself,    *)
(* which is meant for terminals whose interrupt the boot code leaves off,  *)
(* but which nothing forbids where it is on.                               *)
(*                                                                         *)
(* The task and the handler share a processor: the handler runs to its end *)
(* between any two accesses of the system call, which is interruptible.    *)
(* A character is named by its rank among those typed.  Echo is left out.  *)
(***************************************************************************)
EXTENDS Integers, SequencesExt

CONSTANTS Digits,       \* decimal digits
          Keys,         \* the characters on the keyboard
          MaxTyped,     \* bound on the number of characters typed
          BufSize,      \* bufsize, the argument of tty_gets_irq
          WordBuf,      \* size of the buffer of tty_getw_irq, 32 in the code
          WordSize      \* an unsigned int is below WordSize, 2^32 in the code

Chars == Digits \cup {-1, -2, -3, -4}
LF == -1
CR == -2
DEL == -3
Letter == -4

ASSUME TtyAssumption == /\ Digits \subseteq 0 .. 9 /\ Keys \subseteq Chars
                        /\ MaxTyped \in Nat
                        /\ BufSize \in Nat \ {0}
                        /\ WordBuf \in Nat \ {0}
                        /\ WordSize \in Nat \ {0}

VARIABLES typed,        \* history: the characters typed so far
          reg,          \* TTY_READ, the rank of its character, 0 when empty
          buf,          \* _tty_get_buf, the rank of its character
          full,         \* _tty_get_full
          pc,           \* where the task is
          fn,           \* the function of stdio.c it runs, or that left line and val
          byte,         \* its local variable byte, a rank, 0 when it is dead
          line,         \* the characters it holds: buf up to index, or up to max
          val,          \* the result of tty_getw_irq
          taken,        \* history: the ranks the task got, in order
          start,        \* history: the length of taken when fn was called
          overruns,     \* history: runs of the handler with the buffer full
          wired,        \* the boot code enabled the interrupt of the terminal
          mixed         \* history: tty_getc was called with the interrupt on

device == <<typed, reg>>
task == <<pc, fn, byte, line, val, taken, start>>
vars == <<device, buf, full, task, overruns, wired, mixed>>

Init == /\ typed = <<>> /\ reg = 0
        /\ buf = 0 /\ full = 0
        /\ pc = "user" /\ fn = "none" /\ byte = 0 /\ line = <<>> /\ val = 0
        /\ taken = <<>> /\ start = 0
        /\ overruns = 0 /\ wired \in BOOLEAN /\ mixed = FALSE

-----------------------------------------------------------------------------
(* The TTY controller holds a character until it is read. *)
Type(c) == /\ Len(typed) < MaxTyped
           /\ reg = 0
           /\ typed' = Append(typed, c)
           /\ reg' = Len(typed')
           /\ UNCHANGED <<buf, full, task, overruns, wired, mixed>>

\* Faulty variant: the handler does not signal the character.
IsrSilent ==
    /\ wired /\ reg # 0
    /\ buf' = reg
    /\ reg' = 0
    /\ overruns' = overruns + full
    /\ UNCHANGED <<typed, full, task, wired, mixed>>

\* Faulty variant: reading the register does not empty it.
IsrNoAck ==
    /\ wired /\ reg # 0
    /\ buf' = reg
    /\ full' = 1
    /\ overruns' = overruns + full
    /\ UNCHANGED <<device, task, wired, mixed>>

isr_tty_get ==
    /\ wired /\ reg # 0
    /\ buf' = reg
    /\ reg' = 0
    /\ full' = 1
    /\ overruns' = overruns + full
    /\ UNCHANGED <<typed, task, wired, mixed>>

-----------------------------------------------------------------------------
(* _tty_read_irq *)

\* Faulty variant: the flag is reset before the character is copied.
ReadTestResets ==
    /\ pc = "test"
    /\ pc' = IF full = 0 THEN "test" ELSE "copy"
    /\ full' = 0
    /\ UNCHANGED <<device, buf, fn, byte, line, val, taken, start, overruns, wired, mixed>>

ReadTest == /\ pc = "test"
            /\ pc' = IF full = 0 THEN "test" ELSE "copy"
            /\ UNCHANGED <<device, buf, full, fn, byte, line, val, taken, start, overruns, wired, mixed>>

ReadCopy == /\ pc = "copy"
            /\ byte' = buf
            /\ taken' = Append(taken, buf)
            /\ pc' = "reset"
            /\ UNCHANGED <<device, buf, full, fn, line, val, start, overruns, wired, mixed>>

ReadReset == /\ pc = "reset"
             /\ full' = 0
             /\ pc' = "use"
             /\ UNCHANGED <<device, buf, fn, byte, line, val, taken, start, overruns, wired, mixed>>

-----------------------------------------------------------------------------
(* _tty_read: the controller itself is polled.  The handler may empty it    *)
(* before it is read; the byte is then none of those typed, rank 0.          *)

PollTest == /\ pc = "poll"
            /\ pc' = IF reg = 0 THEN "poll" ELSE "fetch"
            /\ UNCHANGED <<device, buf, full, fn, byte, line, val, taken, start, overruns, wired, mixed>>

PollRead == /\ pc = "fetch"
            /\ byte' = reg
            /\ taken' = IF reg = 0 THEN taken ELSE Append(taken, reg)
            /\ reg' = 0
            /\ pc' = "use"
            /\ UNCHANGED <<typed, buf, full, fn, line, val, start, overruns, wired, mixed>>

-----------------------------------------------------------------------------
(* The functions of stdio.c *)

Call(f) == /\ pc = "user"
           /\ fn' = f
           /\ line' = <<>> /\ val' = 0
           /\ start' = Len(taken)
           /\ pc' = IF f = "getc" THEN "poll"
                    ELSE IF f = "gets_irq" /\ BufSize = 1 THEN "user" ELSE "test"
           /\ mixed' = (mixed \/ (f = "getc" /\ wired))
           /\ UNCHANGED <<device, buf, full, byte, taken, overruns, wired>>

Char == typed[byte]

UseGetc == /\ pc = "use" /\ fn \in {"getc", "getc_irq"}
           /\ pc' = "user" /\ fn' = "none" /\ byte' = 0 /\ start' = 0
           /\ UNCHANGED <<device, buf, full, line, val, taken, overruns, wired, mixed>>

\* DEL removes the last character of the line, if there is one.
GetsLine == IF Char = LF THEN line
            ELSE IF Char = DEL /\ line # <<>> THEN Front(line)
            ELSE Append(line, Char)

UseGets == /\ pc = "use" /\ fn = "gets_irq"
           /\ line' = GetsLine /\ byte' = 0
           /\ pc' = IF Char = LF \/ Len(line') >= BufSize - 1 THEN "user" ELSE "test"
           /\ UNCHANGED <<device, buf, full, fn, val, taken, start, overruns, wired, mixed>>

\* Faulty variant: DEL cancels the digit before the last too.
GetwLineTwice == IF Char \in Digits THEN Append(line, Char)
                 ELSE IF Char = DEL THEN SubSeq(line, 1, Len(line) - 2)
                 ELSE line

GetwLine == IF Char \in Digits THEN Append(line, Char)
            ELSE IF Char = DEL /\ line # <<>> THEN Front(line)
            ELSE line

\* The conversion: dec wraps, and a value below the previous one is noticed.
Digit(acc, d) == LET dec == (acc.dec * 10 + d) % WordSize
                 IN  [dec |-> dec, overflow |-> acc.overflow \/ dec < acc.dec]

\* Faulty variant: the least significant digit first.
ConvertReversed(l) ==
    LET end == FoldLeft(Digit, [dec |-> 0, overflow |-> FALSE], Reverse(l))
    IN  IF end.overflow THEN 0 ELSE end.dec

Convert(l) == LET end == FoldLeft(Digit, [dec |-> 0, overflow |-> FALSE], l)
              IN  IF end.overflow THEN 0 ELSE end.dec

UseGetw == /\ pc = "use" /\ fn = "getw_irq"
           /\ line' = GetwLine /\ byte' = 0
           /\ \/ /\ Len(line') = WordBuf
                 /\ val' = 0 /\ pc' = "user"
              \/ /\ Len(line') # WordBuf /\ Char \in {LF, CR}
                 /\ val' = Convert(line') /\ pc' = "user"
              \/ /\ Len(line') # WordBuf /\ Char \notin {LF, CR}
                 /\ pc' = "test" /\ UNCHANGED val
           /\ UNCHANGED <<device, buf, full, fn, taken, start, overruns, wired, mixed>>

-----------------------------------------------------------------------------
Functions == {"getc", "getc_irq", "gets_irq", "getw_irq"}

Task == \/ ReadTest \/ ReadCopy \/ ReadReset \/ PollTest \/ PollRead
        \/ UseGetc \/ UseGets \/ UseGetw

Next == \/ \E c \in Keys : Type(c)
        \/ isr_tty_get
        \/ \E f \in Functions : Call(f)
        \/ Task

\* An interrupt is served, and a task that is in a call runs again and again.
Fairness == WF_vars(isr_tty_get) /\ WF_vars(Task)

Spec == Init /\ [][Next]_vars /\ Fairness

-----------------------------------------------------------------------------
(* Properties *)

Ranks == 0 .. MaxTyped

\* Ranges of the variables; in particular the line of tty_gets_irq leaves a
\* place for its NUL, and the digits of tty_getw_irq stay inside their buffer.
TypeOK ==
    /\ typed \in Seq(Chars) /\ Len(typed) =< MaxTyped
    /\ {reg, buf, byte} \subseteq Ranks /\ full \in {0, 1}
    /\ pc \in {"user", "test", "copy", "reset", "poll", "fetch", "use"}
    /\ fn \in Functions \cup {"none"} /\ mixed \in BOOLEAN
    /\ fn = "gets_irq" => line \in Seq(Chars \ {LF}) /\ Len(line) < BufSize
    /\ fn = "getw_irq" => line \in Seq(Digits) /\ Len(line) =< WordBuf
    /\ val \in 0 .. WordSize - 1
    /\ taken \in Seq(Ranks) /\ start \in 0 .. Len(taken) /\ overruns \in Ranks

\* The task never gets a character twice, though the handler may run between
\* any two accesses of _tty_read_irq and of _tty_read, nor after one typed later
\* as long as it does not use tty_getc with the interrupt on.
TakenInOrder ==
    \A i, j \in 1 .. Len(taken) : i < j => /\ taken[i] # taken[j]
                                           /\ mixed \/ taken[i] < taken[j]

\* "A character is lost if the buffer is full when the ISR is executed"
\* (irq_handler.c:149) and in no other case: the characters typed are those in
\* the controller, in the buffer and with the task, and one per overrun.
LossOnlyWhenFull ==
    Len(typed) = (IF reg = 0 THEN 0 ELSE 1) + Len(taken) + overruns
                   + (IF full = 1 /\ pc # "reset" THEN 1 ELSE 0)

\* The characters the function that runs, or ran last, has got.
Got == [i \in 1 .. Len(taken) - start |-> typed[taken[start + i]]]

Count(s, S, i, j) == Cardinality({k \in i .. j : s[k] \in S})

\* The characters of S in s that the DEL characters after them do not cancel.
Uncancelled(s, S) ==
    {i \in DOMAIN s : /\ s[i] \in S
                      /\ \A j \in i + 1 .. Len(s) :
                            Count(s, {DEL}, i + 1, j) =< Count(s, S, i + 1, j)}

Text(s, S) == LET at == SetToSortSeq(Uncancelled(s, S), <)
              IN  [k \in DOMAIN at |-> s[at[k]]]

Printed == Chars \ {LF, DEL}

\* tty_gets_irq and tty_getw_irq hold exactly the characters that were not
\* cancelled by a DEL, in order.  A DEL on an empty line is no cancellation:
\* tty_getw_irq ignores it, tty_gets_irq stores it, and then this says nothing.
TextIsEdited ==
    pc \in {"user", "test"} =>
        /\ fn = "getw_irq" => line = Text(Got, Digits)
        /\ fn = "gets_irq" /\ (\A j \in DOMAIN Got :
                              Count(Got, {DEL}, 1, j) =< Count(Got, Printed, 1, j))
             => line = Text(Got, Printed)

Value(l) == MapThenSumSet(LAMBDA i : l[i] * 10^(Len(l) - i), DOMAIN l)

\* tty_getw_irq returns the number that was typed, cancelled digits left out,
\* whenever it fits a word: the test dec < save of line 349 raises no false
\* alarm.
WordIsRight ==
    pc = "user" /\ fn = "getw_irq" /\ Len(line) < WordBuf /\ Value(line) < WordSize
        => val = Value(Text(Got, Digits))

\* A character that is typed while the task waits for one ends the wait: the
\* handler serves the interrupt and the polling sees the flag or, where the
\* interrupt is off, tty_getc sees the status of the controller.
TypingEndsWait == reg # 0 /\ pc = (IF wired THEN "test" ELSE "poll") ~> pc = "use"

=============================================================================
