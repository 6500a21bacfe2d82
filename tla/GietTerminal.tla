---------------------------- MODULE GietTerminal ----------------------------
(***************************************************************************)
(* A terminal of the GIET with both its directions: the keyboard of        *)
(* GietTty, and the screen.  tty_putc, tty_puts, tty_putw and tty_printf   *)
(* (stdio.c) print for a task.  The kernel prints with _putk (common.c):   *)
(* the timer's handler, the default handler, undefined system calls,       *)
(* exceptions (exc_handler.c) and _exit.  All of it goes through           *)
(* _tty_write (drivers.c), which gives up when the controller is busy.     *)
(*                                                                         *)
(* The directions share no state, so a message is printed from start to    *)
(* end, and before anything is typed.  A digit stands for its character,   *)
(* a negative number for any other character or for a piece of fixed text. *)
(* What a table is read for outside its bounds is job.junk.                *)
(***************************************************************************)
EXTENDS GietTty

CONSTANTS DecLen,       \* decimal digits of a word, 10 in the code
          HexLen,       \* hexadecimal digits of a word, 8 in the code
          Formats,      \* calls of tty_printf: [format, args], a format being
                        \* a sequence of "text" and conversion characters
          Strings,      \* what %s and tty_puts print
          Registers,    \* values of EPC, BAR and CAUSE
          Processors    \* processor numbers

Words    == 0 .. WordSize - 1
Half     == WordSize \div 2
NUL      == -10
Garbage  == -11
Minus    == -12
X        == -13
Space    == -14
Fixed(i) == -20 - i
Glyph(w) == -100 - w

VARIABLES job,          \* the message that is printed
          at,           \* how many calls of _tty_write it has made
          shown,        \* what a task's call, or the last _putk, has printed
          busy,         \* the last _tty_write met a busy controller
          ret           \* what the function has returned, or -1

screen == <<job, at, shown, busy, ret>>

-----------------------------------------------------------------------------
(* Conversions.  int is the signed value of a word; C truncates quotients. *)

int(w)     == IF w >= Half THEN w - WordSize ELSE w
Quot(v, b) == IF v >= 0 THEN v \div b ELSE -((-v) \div b)
Rem(v, b)  == v - b * Quot(v, b)

\* The character i of a table of characters with n entries and a NUL.
tab(n, i, junk) == IF i \in 0 .. n - 1 THEN i ELSE IF i = n THEN NUL ELSE junk

itoa_dec(w) ==
  [j \in 1 .. DecLen |-> LET q == w \div 10^(DecLen - j)
                         IN  IF q # 0 \/ j = DecLen THEN q % 10 ELSE Space]

itoa_hex(w, junk) ==
  [j \in 1 .. HexLen |-> tab(14, (w \div 16^(HexLen - j)) % 16, junk)]

putw_digits(w) == [j \in 1 .. DecLen |-> (w \div 10^(DecLen - j)) % 10]

\* Faulty variant: the loop ends one digit early.
printf_digitsShort(v, b, max, junk) ==
  LET n == CHOOSE n \in 1 .. max :
             /\ n = max \/ Quot(v, b^(n + 1)) = 0
             /\ \A m \in 1 .. n - 1 : Quot(v, b^(m + 1)) # 0
  IN  [j \in 1 .. n |-> tab(16, Rem(Quot(v, b^(n - j)), b), junk)]

\* The loops of tty_printf: digits until the quotient is 0, at most max.
printf_digits(v, b, max, junk) ==
  LET n == CHOOSE n \in 1 .. max :
             /\ n = max \/ Quot(v, b^n) = 0
             /\ \A m \in 1 .. n - 1 : Quot(v, b^m) # 0
  IN  [j \in 1 .. n |-> tab(16, Rem(Quot(v, b^(n - j)), b), junk)]

\* The calls of _tty_write for one item of a format; every conversion, also
\* one that is unknown and prints nothing, takes the next argument w.
printf_item(c, w, s, junk) ==
  LET v == int(w)
      u == IF c = "d" /\ v < 0 THEN int((-v) % WordSize) ELSE v
  IN  CASE c = "text" -> <<<<Fixed(0)>>>>
        [] c = "c"    -> <<<<Glyph(w)>>>>
        [] c = "s"    -> <<s>>
        [] c = "x"    -> <<<<0, X>>, printf_digits(w, 16, HexLen, junk)>>
        [] c \in {"d", "u"} ->
             (IF c = "d" /\ v < 0 THEN <<<<Minus>>>> ELSE <<>>)
               \o <<printf_digits(u, 10, DecLen, junk)>>
        [] OTHER      -> <<>>

-----------------------------------------------------------------------------
(* Messages of the kernel *)

\* _putk prints a string up to its NUL.
putk(s) == LET ends == {i \in DOMAIN s : s[i] = NUL}
           IN  IF ends = {} THEN s ELSE SubSeq(s, 1, Min(ends) - 1)

hex(w, junk) == putk(<<0, X>> \o itoa_hex(w, junk))

\* The table has 8 texts: no comma separates the last two of the source.
exc_message_causes(i, junk) ==
  CASE i < 7 -> <<Fixed(i)>>
    [] i = 7 -> <<Fixed(7), Fixed(8)>>
    [] i > 7 -> putk(<<junk>>)

msg_cause(code) == CASE code \in {1, 2, 3, 13, 14, 15} -> 0
                     [] code \in 4 .. 7  -> code - 3
                     [] code \in 9 .. 12 -> code - 4

\* Three digits, each added to the code of the character 0.
exit_text(p) ==
  LET digit(q) == IF q % 16 < 10 THEN q % 16 ELSE Garbage
  IN  <<<<0, X, digit(p \div 256), digit(p \div 16), digit(p)>>>>

isr_default  == <<<<Fixed(0)>>>>
isr_timer(w) == <<<<Fixed(0)>>, itoa_dec(w), <<Fixed(1)>>>>

sys_ukn(j) ==
  <<<<Fixed(0)>>, <<Fixed(9)>>, hex(j.epc, j.junk)>> \o exit_text(j.proc)

cause(j) ==
  <<exc_message_causes(msg_cause(j.code), j.junk), <<Fixed(9)>>>>
    \o <<hex(j.epc, j.junk), <<Fixed(10)>>, hex(j.bar, j.junk)>>
    \o <<<<Fixed(11)>>, hex(j.cr, j.junk)>> \o exit_text(j.proc)

-----------------------------------------------------------------------------
(* What is printed *)

Nothing == [fn |-> "none"]

Kernel  == {"timer", "default", "sys_ukn", "cause"}
Dies    == {"sys_ukn", "cause"}

\* How many arguments the first i items of a format take.
taken_args(f, i) == Cardinality({m \in 1 .. i : f[m] # "text"})

Jobs ==
       [fn : {"putc", "putw"}, arg : Words]
  \cup [fn : {"puts"}, str : Strings]
  \cup {[fn |-> "printf", format |-> f.format, args |-> f.args, str |-> s,
         junk |-> Garbage] : f \in Formats, s \in Strings}
  \cup [fn : {"timer"}, arg : Words]
  \cup [fn : {"default"}]
  \cup [fn : {"sys_ukn"}, epc : Words, proc : Processors, junk : {NUL, Garbage}]
  \cup [fn : {"cause"}, code : (1 .. 15) \ {8}, epc : Registers,
        bar : Registers, cr : Registers, proc : Processors,
        junk : {NUL, Garbage}]

Arg(j, i) == IF j.format[i] = "text" THEN 0
             ELSE j.args[taken_args(j.format, i)]

\* The strings given to _tty_write, in order.
Pieces(j) ==
  CASE j.fn = "putc"    -> <<<<Glyph(j.arg)>>>>
    [] j.fn = "puts"    -> <<j.str>>
    [] j.fn = "putw"    -> <<putw_digits(j.arg)>>
    [] j.fn = "printf"  -> FlattenSeq([i \in DOMAIN j.format |->
                             printf_item(j.format[i], Arg(j, i), j.str, j.junk)])
    [] j.fn = "timer"   -> isr_timer(j.arg)
    [] j.fn = "default" -> isr_default
    [] j.fn = "sys_ukn" -> sys_ukn(j)
    [] j.fn = "cause"   -> cause(j)

PrintInit == /\ job = Nothing /\ at = 0 /\ shown = <<>>
             /\ busy = FALSE /\ ret = -1

Output(j) ==
  /\ job' = j
  /\ ret' = IF j.fn = "printf" /\ Pieces(j) = <<>> THEN 0 ELSE -1
  /\ UNCHANGED <<at, shown, busy>>

\* _tty_write transfers n characters of the piece; tty_printf gives up when
\* that is not all of it, the kernel does not look.
tty_write ==
  /\ job # Nothing /\ ret = -1 /\ at < Len(Pieces(job))
  /\ LET piece == Pieces(job)[at + 1]
         last  == at' = Len(Pieces(job))
     IN  \E n \in 0 .. Len(piece) :
           /\ at'    = at + 1
           /\ busy'  = (n < Len(piece))
           /\ shown' = (IF job.fn \in Kernel THEN <<>> ELSE shown)
                         \o SubSeq(piece, 1, n)
           /\ ret'   = CASE job.fn = "printf" -> IF busy' THEN 1
                                                ELSE IF last THEN 0 ELSE -1
                        [] job.fn \in Dies    -> -1
                        [] job.fn \in Kernel \ Dies -> IF last THEN 0 ELSE -1
                        [] OTHER              -> n
  /\ UNCHANGED job

Returned ==
  /\ ret # -1
  /\ job' = Nothing /\ at' = 0 /\ shown' = <<>> /\ busy' = FALSE /\ ret' = -1

\* _exit loops for ever.
Exited ==
  /\ job.fn \in Dies /\ at = Len(Pieces(job))
  /\ UNCHANGED screen

TerminalInit == Init /\ PrintInit
TerminalNext ==
  \/ job = Nothing /\ Next /\ UNCHANGED screen
  \/ /\ job = Nothing /\ typed = <<>> /\ fn = "none"
     /\ (\E j \in Jobs : Output(j)) /\ UNCHANGED vars
  \/ job # Nothing /\ (tty_write \/ Returned \/ Exited) /\ UNCHANGED vars
TerminalSpec == TerminalInit /\ [][TerminalNext]_<<vars, screen>> /\ Fairness

-----------------------------------------------------------------------------
ValueIn(l, b) == MapThenSumSet(LAMBDA i : l[i] * b^(Len(l) - i), DOMAIN l)

\* The numerals of fixed length of the numbers in S, in base b.
Numerals(S, b, n) ==
  [v \in S |-> CHOOSE l \in [1 .. n -> 0 .. b - 1] : ValueIn(l, b) = v]
Dec == Numerals(Words, 10, DecLen)
Hex == Numerals(Words, 16, HexLen)
Hex3 == Numerals(Processors, 16, 3)

\* The same without leading zeros.
Trimmed(l) ==
  LET lead == {i \in 1 .. Len(l) - 1 : \A j \in 1 .. i : l[j] = 0}
  IN  SubSeq(l, Cardinality(lead) + 1, Len(l))

ItemText(c, w, s) ==
  CASE c = "text" -> <<Fixed(0)>>
    [] c = "c" -> <<Glyph(w)>>
    [] c = "s" -> s
    [] c = "x" -> <<0, X>> \o Trimmed(Hex[w])
    [] c = "u" -> Trimmed(Dec[w])
    [] c = "d" -> IF w < Half THEN Trimmed(Dec[w])
                  ELSE <<Minus>> \o Trimmed(Dec[WordSize - w])
    [] OTHER -> <<>>

\* What a call of a task should print.
CallText(j) ==
  CASE j.fn = "putc" -> <<Glyph(j.arg)>>
    [] j.fn = "puts" -> j.str
    [] j.fn = "putw" -> Dec[j.arg]
    [] j.fn = "printf" -> FlattenSeq([i \in DOMAIN j.format |->
                            ItemText(j.format[i], Arg(j, i), j.str)])

\* What the number or the cause in piece i of a message of the kernel should
\* look like; the other pieces are fixed text.
KernelText(j, i) ==
  LET HexText(w) == <<0, X>> \o Hex[w]
      Blanks(n)  == [m \in 1 .. n |-> Space]
      Date       == Trimmed(Dec[j.arg])
  IN  CASE j.fn = "timer" /\ i = 2   -> Blanks(DecLen - Len(Date)) \o Date
        [] j.fn = "sys_ukn" /\ i = 3 -> HexText(j.epc)
        [] j.fn = "cause" /\ i = 1   -> <<Fixed(msg_cause(j.code))>>
        [] j.fn = "cause" /\ i = 3   -> HexText(j.epc)
        [] j.fn = "cause" /\ i = 5   -> HexText(j.bar)
        [] j.fn = "cause" /\ i = 7   -> HexText(j.cr)
        [] j.fn \in Dies /\ i = Len(Pieces(j)) -> <<0, X>> \o Hex3[j.proc]
        [] OTHER -> Pieces(j)[i]

\* The code is known not to print these: %u from 2^31 on, %d of -2^31,
\* _itoa_hex of the digits E and F, processors with a digit above 9, and the
\* causes whose messages are not separated.
Known(j) ==
  CASE j.fn = "printf" -> \E i \in DOMAIN j.format :
                            \/ j.format[i] = "u" /\ Arg(j, i) >= Half
                            \/ j.format[i] = "d" /\ Arg(j, i) = Half
    [] j.fn \in Dies -> LET E(w) == Range(Hex[w]) \cap {14, 15} # {}
                        IN  \/ E(j.epc)
                            \/ Range(Hex3[j.proc]) \cap 10 .. 15 # {}
                            \/ j.fn = "cause" /\ (E(j.bar) \/ E(j.cr) \/ j.code \in {11, 12})
    [] OTHER -> FALSE

\* What a task prints is a prefix of the text that its call stands for, and
\* all of it when tty_printf returns 0 or tty_puts its length, though the
\* controller may be busy at any character; the kernel's numbers and causes
\* are shown as they are, or are cut.  Apart from the cases of Known.
PrintedIsRight ==
  job # Nothing /\ ~Known(job) =>
    IF job.fn \in Kernel
      THEN at > 0 => /\ IsPrefix(shown, KernelText(job, at))
                     /\ ~busy => shown = KernelText(job, at)
      ELSE LET all == shown = CallText(job)
           IN  /\ IsPrefix(shown, CallText(job))
               /\ job.fn = "printf" => ((ret = 0) => all) /\ ((ret = 1) => ~all)
               /\ job.fn \in {"putc", "puts", "putw"} /\ ret # -1 =>
                    ret = Len(shown) /\ (~busy => all)
=============================================================================
