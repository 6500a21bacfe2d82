---------------------------- MODULE FifoGcdProofs ----------------------------
(***************************************************************************)
(* Theorems about the TP1 platform, for every bound on rand().  The        *)
(* inductive invariant says where the coprocessor is for each state of the *)
(* master and that its registers keep the common divisors of the operands. *)
(***************************************************************************)
EXTENDS FifoGcd, Arithmetic

\* The coprocessor while the master waits for the result.
Working ==
    /\ coproc.fsm \in {"COMPARE", "DECR_A", "DECR_B", "WRITE_RES"}
    /\ coproc.opa \in Operand /\ coproc.opb \in Operand
    /\ CommonDivisors(coproc.opa, coproc.opb) = CommonDivisors(master.opa, master.opb)
    /\ coproc.fsm = "DECR_A" => coproc.opb < coproc.opa
    /\ coproc.fsm = "DECR_B" => coproc.opa < coproc.opb
    /\ coproc.fsm = "WRITE_RES" => coproc.opa = coproc.opb

IInv ==
    /\ TypeOK
    /\ master.fsm # "RANDOM" => master.opa \in Operand /\ master.opb \in Operand
    /\ master.fsm \in {"RANDOM", "WRITE_OPA", "DISPLAY"} => coproc.fsm = "READ_OPA"
    /\ master.fsm = "WRITE_OPB" => coproc.fsm = "READ_OPB" /\ coproc.opa = master.opa
    /\ master.fsm = "READ_RES" => Working
    /\ DisplayedIsGcd

\* An operand fits in a word.
LEMMA OperandsAreWords == Operand \subseteq Word
  BY FifoAssumption DEF Operand, Word

LEMMA InitInv == Init => IInv
  BY FifoAssumption DEF Init, IInv, TypeOK, MasterFsm, CoprocFsm, Word, DisplayedIsGcd

\* A cycle in which the master waits and the coprocessor works.
LEMMA WorkInv ==
    ASSUME IInv, Next, master.fsm = "READ_RES"
    PROVE  IInv'
  <1> DEFINE m == master
             c == coproc
  <1>0. MaxRand \in Nat
    BY FifoAssumption
  <1>1. /\ Working /\ TypeOK /\ m.opa \in Operand /\ m.opb \in Operand
        /\ master' = MasterMoves /\ coproc' = CoprocMoves
    BY DEF IInv, Next, MasterTransition
  <1>2. c.opa \in Nat \ {0} /\ c.opb \in Nat \ {0} /\ m.opa \in Nat \ {0} /\ m.opb \in Nat \ {0}
    BY <1>0, <1>1 DEF Working, Operand
  <1>3. CASE c.fsm = "COMPARE"
    <2>1. master' = master /\ coproc' = [coproc EXCEPT !.fsm = Compare]
      BY Zenon, <1>1, <1>3 DEF MasterMoves, CoprocMoves, ResultReady, c2m, TypeOK
    <2> QED
      BY <1>0, <1>1, <1>2, <1>3, <2>1
      DEF IInv, Working, Compare, TypeOK, CoprocFsm, Operand, Word, DisplayedIsGcd
  <1>4. CASE c.fsm = "DECR_A"
    <2>1. /\ master' = master
          /\ coproc' = [coproc EXCEPT !.fsm = "COMPARE", !.opa = c.opa - c.opb]
      BY Zenon, <1>1, <1>4 DEF MasterMoves, CoprocMoves, ResultReady, c2m, TypeOK
    <2>2. c.opb < c.opa
      BY <1>1, <1>4 DEF Working
    <2>3. CommonDivisors(c.opa - c.opb, c.opb) = CommonDivisors(m.opa, m.opb)
      BY <1>1, <1>2, <2>2, DecrementA DEF Working
    <2>4. c.opa - c.opb \in Operand /\ c.opb \in Operand
      BY <1>0, <1>1, <1>2, <2>2 DEF Working, Operand
    <2> QED
      BY Zenon, <1>1, <1>4, <2>1, <2>3, <2>4, OperandsAreWords
      DEF IInv, Working, TypeOK, CoprocFsm, DisplayedIsGcd
  <1>5. CASE c.fsm = "DECR_B"
    <2>1. /\ master' = master
          /\ coproc' = [coproc EXCEPT !.fsm = "COMPARE", !.opb = c.opb - c.opa]
      BY Zenon, <1>1, <1>5 DEF MasterMoves, CoprocMoves, ResultReady, c2m, TypeOK
    <2>2. c.opa < c.opb
      BY <1>1, <1>5 DEF Working
    <2>3. CommonDivisors(c.opa, c.opb - c.opa) = CommonDivisors(m.opa, m.opb)
      BY <1>1, <1>2, <2>2, DecrementB DEF Working
    <2>4. c.opb - c.opa \in Operand /\ c.opa \in Operand
      BY <1>0, <1>1, <1>2, <2>2 DEF Working, Operand
    <2> QED
      BY Zenon, <1>1, <1>5, <2>1, <2>3, <2>4, OperandsAreWords
      DEF IInv, Working, TypeOK, CoprocFsm, DisplayedIsGcd
  <1>6. CASE c.fsm = "WRITE_RES"
    <2>1. /\ master' = [master EXCEPT !.fsm = "DISPLAY", !.res = c.opa]
          /\ coproc' = [coproc EXCEPT !.fsm = "READ_OPA"]
      BY Zenon, <1>1, <1>6 DEF MasterMoves, CoprocMoves, ResultReady, c2m, TypeOK
    <2>2. c.opa = c.opb
      BY <1>1, <1>6 DEF Working
    <2>3. CommonDivisors(c.opa, c.opa) = CommonDivisors(m.opa, m.opb)
      BY <1>1, <2>2 DEF Working
    <2>4. IsGcd(c.opa, m.opa, m.opb)
      BY <1>2, <2>3, EqualIsGcd
    <2> QED
      BY Zenon, <1>0, <1>1, <2>1, <2>4
      DEF IInv, TypeOK, MasterFsm, CoprocFsm, Operand, Word, DisplayedIsGcd
  <1> QED
    BY <1>1, <1>3, <1>4, <1>5, <1>6 DEF Working

\* A cycle in which the master draws, writes an operand or displays.
LEMMA MasterInv ==
    ASSUME IInv, Next, master.fsm # "READ_RES"
    PROVE  IInv'
  <1>0. MaxRand \in Nat
    BY FifoAssumption
  <1>1. TypeOK /\ coproc' = CoprocMoves
    BY DEF IInv, Next
  <1>2. CASE master.fsm = "RANDOM"
    <2>1. coproc' = coproc /\ coproc.fsm = "READ_OPA"
      BY Zenon, <1>1, <1>2 DEF IInv, CoprocMoves, OperandReady, m2c
    <2>2. PICK a, b \in 0 .. MaxRand : master' = Draw(a, b)
      BY <1>2 DEF Next, MasterTransition
    <2>3. a + 1 \in Operand /\ b + 1 \in Operand
      BY <1>0 DEF Operand
    <2> QED
      BY Zenon, <1>1, <1>2, <2>1, <2>2, <2>3, OperandsAreWords
      DEF IInv, Draw, TypeOK, MasterFsm, DisplayedIsGcd
  <1>3. CASE master.fsm = "WRITE_OPA"
    <2>1. /\ master' = [master EXCEPT !.fsm = "WRITE_OPB"]
          /\ coproc' = [coproc EXCEPT !.fsm = "READ_OPB", !.opa = master.opa]
      BY Zenon, <1>1, <1>3 DEF IInv, Next, MasterTransition, MasterMoves, CoprocMoves, OperandReady, m2c
    <2> QED
      BY Zenon, <1>0, <1>1, <1>3, <2>1
      DEF IInv, TypeOK, MasterFsm, CoprocFsm, Operand, Word, DisplayedIsGcd
  <1>4. CASE master.fsm = "WRITE_OPB"
    <2>1. /\ master' = [master EXCEPT !.fsm = "READ_RES"]
          /\ coproc' = [coproc EXCEPT !.fsm = "COMPARE", !.opb = master.opb]
      BY Zenon, <1>1, <1>4 DEF IInv, Next, MasterTransition, MasterMoves, CoprocMoves, OperandReady, m2c
    <2> QED
      BY Zenon, <1>0, <1>1, <1>4, <2>1
      DEF IInv, Working, TypeOK, MasterFsm, CoprocFsm, Operand, Word, DisplayedIsGcd
  <1>5. CASE master.fsm = "DISPLAY"
    <2>1. master' = [master EXCEPT !.fsm = "RANDOM"] /\ coproc' = coproc
      BY Zenon, <1>1, <1>5 DEF IInv, Next, MasterTransition, MasterMoves, CoprocMoves, OperandReady, m2c
    <2> QED
      BY <1>1, <1>5, <2>1 DEF IInv, TypeOK, MasterFsm, DisplayedIsGcd
  <1> QED
    BY <1>1, <1>2, <1>3, <1>4, <1>5 DEF TypeOK, MasterFsm

\* The invariant holds in every cycle.
THEOREM Invariance == Spec => []IInv
  <1>1. IInv /\ UNCHANGED vars => IInv'
    BY DEF IInv, vars, TypeOK, Working, DisplayedIsGcd
  <1>2. IInv /\ [Next]_vars => IInv'
    BY <1>1, WorkInv, MasterInv
  <1> QED
    BY <1>2, InitInv, PTL DEF Spec

\* What the TP1 master displays is the gcd, for operands of any size.
THEOREM DisplayCorrect == Spec => []DisplayedIsGcd
  <1>1. IInv => DisplayedIsGcd
    BY DEF IInv
  <1> QED
    BY <1>1, Invariance, PTL

\* The subtractions of the TP1 coprocessor stay in the operands' range.
THEOREM TypeCorrect == Spec => []TypeOK
  <1>1. IInv => TypeOK
    BY DEF IInv
  <1> QED
    BY <1>1, Invariance, PTL

\* No word is lost or taken for another on the storage-free channels.
THEOREM WordsCorrect == Spec => []WordsMatch
  <1>1. IInv => WordsMatch
    BY Zenon DEF IInv, WordsMatch, m2c, c2m, Working, TypeOK, MasterFsm, CoprocFsm
  <1> QED
    BY <1>1, Invariance, PTL

\* A cycle of the platform is a step of the service or changes nothing of it.
LEMMA StepRefines ==
    ASSUME IInv, IInv', Next
    PROVE  Service!Next
  <1>1. TypeOK /\ TypeOK' /\ DisplayedIsGcd'
    BY DEF IInv
  <1>2. DOMAIN view' = {0} /\ view[0] = Phase(master) /\ view'[0] = Phase(master')
    BY DEF view, Phase
  <1>3. CASE master.fsm = "RANDOM"
    <2>1. PICK a, b \in 0 .. MaxRand : master' = Draw(a, b)
      BY <1>3 DEF Next, MasterTransition
    <2>2. a + 1 \in Operand /\ b + 1 \in Operand
      BY FifoAssumption DEF Operand
    <2>3. /\ view[0].phase = "draw"
          /\ view'[0] = [phase |-> "ask", opa |-> a + 1, opb |-> b + 1, res |-> 0]
      BY <1>1, <1>2, <1>3, <2>1 DEF Phase, Draw, TypeOK
    <2>4. Service!Draw(0)
      BY <2>2, <2>3 DEF Service!Draw
    <2> QED
      BY <1>2, <2>4 DEF Service!Next
  <1>4. CASE master.fsm = "DISPLAY"
    <2>1. master' = [master EXCEPT !.fsm = "RANDOM"]
      BY <1>4 DEF Next, MasterTransition, MasterMoves
    <2>2. Service!Display(0)
      BY <1>1, <1>2, <1>4, <2>1 DEF Phase, TypeOK, Service!Display, Service!Start
    <2> QED
      BY <1>2, <2>2 DEF Service!Next
  <1>5. CASE master.fsm = "READ_RES" /\ ResultReady
    <2>1. master' = [master EXCEPT !.fsm = "DISPLAY", !.res = c2m.data]
      BY <1>5 DEF Next, MasterTransition, MasterMoves
    <2>2. IsGcd(master'.res, master.opa, master.opb)
      BY <1>1, <2>1 DEF DisplayedIsGcd, TypeOK
    <2>3. master'.res \in 1 .. master.opa
      BY <2>2 DEF IsGcd, CommonDivisors
    <2>4. /\ view[0] = [phase |-> "ask", opa |-> master.opa, opb |-> master.opb, res |-> 0]
          /\ view'[0] = [phase |-> "display", opa |-> master.opa, opb |-> master.opb,
                         res |-> master'.res]
      BY <1>1, <1>2, <1>5, <2>1 DEF Phase, TypeOK
    <2>5. Service!IsGcd(master'.res, master.opa, master.opb)
      BY <2>2 DEF IsGcd, CommonDivisors, Divides,
                  Service!IsGcd, Service!CommonDivisors, Service!Divides
    <2>6. Service!Answer(0)
      <3>1. /\ view[0].phase = "ask"
            /\ view[0].opa = master.opa /\ view[0].opb = master.opb
        BY <2>4
      <3> QED
        BY <2>3, <2>4, <2>5, <3>1 DEF Service!Answer
    <2> QED
      BY <1>2, <2>6 DEF Service!Next
  <1>6. CASE \/ master.fsm \in {"WRITE_OPA", "WRITE_OPB"}
             \/ master.fsm = "READ_RES" /\ ~ ResultReady
    <2>1. view'[0] = view[0]
      BY <1>1, <1>2, <1>6 DEF Next, MasterTransition, MasterMoves, Phase, TypeOK
    <2> QED
      BY <1>2, <2>1 DEF Service!Next
  <1> QED
    BY <1>1, <1>3, <1>4, <1>5, <1>6 DEF TypeOK, MasterFsm

\* The TP1 platform implements GcdService, for operands of any size.
THEOREM Refinement == Spec => ImplementsService
  <1>1. Init => Service!Init
    BY DEF Init, Service!Init, Service!Start, view, Phase
  <1>2. IInv /\ IInv' /\ [Next]_vars => [Service!Next]_view
    <2>1. UNCHANGED vars => UNCHANGED view
      BY DEF vars, view, Phase
    <2> QED
      BY <2>1, StepRefines
  <1> QED
    BY <1>1, <1>2, Invariance, PTL DEF Spec, ImplementsService, Service!Spec

=============================================================================
