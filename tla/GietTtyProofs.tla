--------------------------- MODULE GietTtyProofs ---------------------------
(***************************************************************************)
(* The characters of a terminal reach the task in order, and one is lost   *)
(* only to a full buffer, for any keyboard, any number of characters and   *)
(* any sizes of the buffers, with the interrupt on or off.                 *)
(***************************************************************************)
EXTENDS GietTerminal, TLAPS

\* Ranges of the variables that carry characters.
CharsOK ==
    /\ typed \in Seq(Chars) /\ reg \in Nat /\ buf \in Nat /\ full \in {0, 1}
    /\ taken \in Seq(Nat) /\ overruns \in Nat /\ wired \in BOOLEAN /\ mixed \in BOOLEAN
    /\ pc \in {"user", "test", "copy", "reset", "poll", "fetch", "use"}

\* Which paths the task takes.
PathOK ==
    /\ wired /\ pc \in {"poll", "fetch"} => mixed
    /\ ~wired => pc \notin {"copy", "reset"} /\ full = 0 /\ ~mixed
    /\ pc \in {"copy", "reset"} => full = 1
    /\ pc = "fetch" /\ ~mixed => reg # 0

\* Where the ranks are: none that was taken is in the controller, nor in the
\* buffer but between the copy and the reset.  Without tty_getc the ranks taken,
\* the one in the buffer and the one in the controller come in this order.
RanksOK ==
    /\ reg # 0 => reg = Len(typed)
    /\ buf =< Len(typed) /\ (reg # 0 => buf < reg)
    /\ \A i \in 1 .. Len(taken) :
         /\ taken[i] =< Len(typed)
         /\ reg # 0 => taken[i] < reg
         /\ wired /\ ~mixed => taken[i] =< buf
         /\ full = 1 /\ pc # "reset" => taken[i] # buf

IInv == CharsOK /\ PathOK /\ RanksOK /\ TakenInOrder /\ LossOnlyWhenFull

\* A rank that is appended keeps the order of taken; the shape in which
\* _tty_read_irq and _tty_read hand over a character.
LEMMA AppendInOrder ==
    ASSUME taken \in Seq(Nat), TakenInOrder, NEW r \in Nat, mixed' = mixed,
           \A i \in 1 .. Len(taken) : taken[i] # r /\ (mixed \/ taken[i] < r),
           taken' = Append(taken, r)
    PROVE  /\ TakenInOrder'
           /\ taken' \in Seq(Nat) /\ Len(taken') = Len(taken) + 1
           /\ \A i \in 1 .. Len(taken') :
                 taken'[i] = r \/ (i \in 1 .. Len(taken) /\ taken'[i] = taken[i])
BY DEF TakenInOrder

LEMMA InitIInv == Init => IInv
<1> SUFFICES ASSUME Init PROVE IInv
  OBVIOUS
<1>1. /\ typed = <<>> /\ reg = 0 /\ buf = 0 /\ full = 0 /\ pc = "user"
      /\ taken = <<>> /\ overruns = 0 /\ wired \in BOOLEAN /\ mixed \in BOOLEAN /\ ~mixed
  BY Zenon DEF Init
<1>2. CharsOK /\ PathOK /\ RanksOK
  BY <1>1 DEF CharsOK, PathOK, RanksOK
<1>3. TakenInOrder /\ LossOnlyWhenFull
  BY <1>1 DEF TakenInOrder, LossOnlyWhenFull
<1> QED
  BY <1>2, <1>3 DEF IInv

LEMMA NextIInv == IInv /\ [Next]_vars => IInv'
<1> SUFFICES ASSUME IInv, [Next]_vars PROVE IInv'
    OBVIOUS
<1> USE DEF IInv, CharsOK, PathOK, device, task
<1>1. ASSUME NEW c \in Keys, Type(c) PROVE IInv'
  <2>1. typed' \in Seq(Chars) /\ Len(typed') = Len(typed) + 1
    BY <1>1, TtyAssumption DEF Type
  <2>2. CharsOK' /\ PathOK'
    BY <1>1, <2>1 DEF Type
  <2>3. RanksOK'
    BY <1>1, <2>1 DEF Type, RanksOK
  <2>4. TakenInOrder'
    BY <1>1 DEF Type, TakenInOrder
  <2>5. Len(typed) \in Nat /\ Len(taken) \in Nat
    OBVIOUS
  <2>6. /\ reg = 0 /\ reg' = Len(typed) + 1
        /\ UNCHANGED <<taken, overruns, full, pc>>
    BY <1>1, <2>1 DEF Type
  <2>7. LossOnlyWhenFull'
    <3> DEFINE held == IF full = 1 /\ pc # "reset" THEN 1 ELSE 0
    <3>1. held \in Nat /\ held' = held /\ overruns \in Nat
      BY <2>6
    <3>2. Len(typed) = 0 + Len(taken) + overruns + held
      BY <2>6 DEF LossOnlyWhenFull
    <3>3. reg' # 0 /\ Len(taken') = Len(taken) /\ overruns' = overruns
      BY <2>5, <2>6
    <3> HIDE DEF held
    <3>4. Len(typed') = 1 + Len(taken') + overruns' + held'
      BY <2>1, <2>5, <3>1, <3>2, <3>3
    <3> QED
      BY <3>3, <3>4 DEF LossOnlyWhenFull, held
  <2> QED
    BY <2>2, <2>3, <2>4, <2>7
<1>2. CASE isr_tty_get
  <2>1. CharsOK' /\ PathOK'
    BY <1>2 DEF isr_tty_get
  <2>2. RanksOK'
    BY <1>2 DEF isr_tty_get, RanksOK
  <2>3. TakenInOrder' /\ LossOnlyWhenFull'
    BY <1>2 DEF isr_tty_get, TakenInOrder, LossOnlyWhenFull
  <2> QED
    BY <2>1, <2>2, <2>3
<1>3. ASSUME NEW f \in Functions, Call(f) PROVE IInv'
  BY Zenon, <1>3 DEF Call, RanksOK, TakenInOrder, LossOnlyWhenFull
<1>4. CASE ReadTest
  BY Zenon, <1>4 DEF ReadTest, RanksOK, TakenInOrder, LossOnlyWhenFull
<1>5. CASE ReadCopy
  <2>1. \A i \in 1 .. Len(taken) : taken[i] # buf /\ (mixed \/ taken[i] < buf)
    BY <1>5 DEF ReadCopy, RanksOK
  <2>2. /\ TakenInOrder'
        /\ taken' \in Seq(Nat) /\ Len(taken') = Len(taken) + 1
        /\ \A i \in 1 .. Len(taken') :
              taken'[i] = buf \/ (i \in 1 .. Len(taken) /\ taken'[i] = taken[i])
    BY <1>5, <2>1, AppendInOrder DEF ReadCopy
  <2>3. CharsOK' /\ PathOK'
    BY <1>5, <2>2 DEF ReadCopy
  <2>4. RanksOK'
    BY <1>5, <2>2 DEF ReadCopy, RanksOK
  <2>5. LossOnlyWhenFull'
    BY <1>5, <2>2 DEF ReadCopy, LossOnlyWhenFull
  <2> QED
    BY <2>2, <2>3, <2>4, <2>5
<1>6. CASE ReadReset
  BY <1>6 DEF ReadReset, RanksOK, TakenInOrder, LossOnlyWhenFull
<1>7. CASE PollTest
  BY Zenon, <1>7 DEF PollTest, RanksOK, TakenInOrder, LossOnlyWhenFull
<1>8. CASE PollRead /\ reg # 0
  <2>1. \A i \in 1 .. Len(taken) : taken[i] # reg /\ (mixed \/ taken[i] < reg)
    BY <1>8 DEF RanksOK
  <2>2. /\ TakenInOrder'
        /\ taken' \in Seq(Nat) /\ Len(taken') = Len(taken) + 1
        /\ \A i \in 1 .. Len(taken') :
              taken'[i] = reg \/ (i \in 1 .. Len(taken) /\ taken'[i] = taken[i])
    BY <1>8, <2>1, AppendInOrder DEF PollRead
  <2>3. CharsOK' /\ PathOK'
    BY <1>8, <2>2 DEF PollRead
  <2>4. RanksOK'
    BY <1>8, <2>2 DEF PollRead, RanksOK
  <2>5. LossOnlyWhenFull'
    BY <1>8, <2>2 DEF PollRead, LossOnlyWhenFull
  <2> QED
    BY <2>2, <2>3, <2>4, <2>5
<1>13. CASE PollRead /\ reg = 0
  BY <1>13 DEF PollRead, RanksOK, TakenInOrder, LossOnlyWhenFull
<1>9. CASE UseGetc
  BY Zenon, <1>9 DEF UseGetc, RanksOK, TakenInOrder, LossOnlyWhenFull
<1>10. CASE UseGets
  BY Zenon, <1>10 DEF UseGets, RanksOK, TakenInOrder, LossOnlyWhenFull
<1>11. CASE UseGetw
  BY Zenon, <1>11 DEF UseGetw, RanksOK, TakenInOrder, LossOnlyWhenFull
<1>12. CASE UNCHANGED vars
  BY Zenon, <1>12 DEF vars, RanksOK, TakenInOrder, LossOnlyWhenFull
<1> QED
  BY Zenon, <1>1, <1>2, <1>3, <1>4, <1>5, <1>6, <1>7, <1>8, <1>9, <1>10, <1>11, <1>12, <1>13
  DEF Next, Task

LEMMA Invariance == Spec => []IInv
BY InitIInv, NextIInv, PTL DEF Spec

\* A terminal with both directions does what the keyboard of GietTty does: the
\* functions that print touch none of its state.
LEMMA PrintingIsApart == TerminalSpec => Spec
<1>1. TerminalInit => Init
  BY DEF TerminalInit
<1>2. [TerminalNext]_<<vars, screen>> => [Next]_vars
  BY DEF TerminalNext
<1> QED
  BY <1>1, <1>2, PTL DEF TerminalSpec, Spec

\* The task never gets a character twice, nor after one typed later unless it
\* has used tty_getc with the interrupt on, though the handler may run between
\* any two accesses of _tty_read_irq and of _tty_read: for every keyboard and
\* every bound on what is typed.
THEOREM InOrder == TerminalSpec => []TakenInOrder
<1>1. IInv => TakenInOrder
  BY DEF IInv
<1> QED
  BY <1>1, PrintingIsApart, Invariance, PTL

\* A character is lost only when the handler finds the buffer full, or
\* between the copy and the reset of _tty_read_irq, when it still is; reading
\* the controller behind the handler's back loses none.
THEOREM NoOtherLoss == TerminalSpec => []LossOnlyWhenFull
<1>1. IInv => LossOnlyWhenFull
  BY DEF IInv
<1> QED
  BY <1>1, PrintingIsApart, Invariance, PTL
=============================================================================
