------------------------------- MODULE FifoGcd -------------------------------
(***************************************************************************)
(* The platform of TP1: FifoGcdMaster and FifoGcdCoprocessor connected by  *)
(* two FifoSignals.  A channel has no storage: the reader's r is the       *)
(* writer's wok and the writer's w is the reader's rok, so that a word     *)
(* passes in a cycle where both are high.  A step is one clock cycle.      *)
(***************************************************************************)
EXTENDS Gcd

CONSTANT MaxRand        \* bound on what rand() returns

ASSUME FifoAssumption == MaxRand \in Nat

VARIABLES master,       \* the registers of FifoGcdMaster
          coproc        \* the registers of FifoGcdCoprocessor

vars == <<master, coproc>>

MasterFsm == {"RANDOM", "WRITE_OPA", "WRITE_OPB", "READ_RES", "DISPLAY"}
CoprocFsm == {"READ_OPA", "READ_OPB", "COMPARE", "DECR_A", "DECR_B", "WRITE_RES"}

Init == /\ master = [fsm |-> "RANDOM", opa |-> 0, opb |-> 0, res |-> 0]
        /\ coproc = [fsm |-> "READ_OPA", opa |-> 0, opb |-> 0]

-----------------------------------------------------------------------------
(* genMoore of the two components: the signals of the channels m2c and c2m. *)

m2c == [w_rok |-> master.fsm \in {"WRITE_OPA", "WRITE_OPB"},
        r_wok |-> coproc.fsm \in {"READ_OPA", "READ_OPB"},
        data  |-> CASE master.fsm = "WRITE_OPA" -> master.opa
                    [] master.fsm = "WRITE_OPB" -> master.opb
                    [] OTHER                    -> 0]

c2m == [w_rok |-> coproc.fsm = "WRITE_RES",
        r_wok |-> master.fsm = "READ_RES",
        data  |-> IF coproc.fsm = "WRITE_RES" THEN coproc.opa ELSE 0]

\* Faulty variant: a port that is always ready.
AlwaysReady == TRUE

\* p_in.rok of the coprocessor and of the master.
OperandReady == m2c.w_rok
ResultReady  == c2m.w_rok

-----------------------------------------------------------------------------
\* Faulty variant: the operands are the raw values of rand().
DrawRaw(a, b) == [master EXCEPT !.fsm = "WRITE_OPA", !.opa = a, !.opb = b]

Draw(a, b) == [master EXCEPT !.fsm = "WRITE_OPA", !.opa = a + 1, !.opb = b + 1]

\* transition of the master in every state but RANDOM.
MasterMoves ==
    CASE master.fsm = "WRITE_OPA" /\ m2c.r_wok -> [master EXCEPT !.fsm = "WRITE_OPB"]
      [] master.fsm = "WRITE_OPB" /\ m2c.r_wok -> [master EXCEPT !.fsm = "READ_RES"]
      [] master.fsm = "READ_RES" /\ ResultReady ->
           [master EXCEPT !.fsm = "DISPLAY", !.res = c2m.data]
      [] master.fsm = "DISPLAY" -> [master EXCEPT !.fsm = "RANDOM"]
      [] OTHER -> master

MasterTransition ==
    \/ /\ master.fsm = "RANDOM"
       /\ \E a, b \in 0 .. MaxRand : master' = Draw(a, b)
    \/ /\ master.fsm # "RANDOM"
       /\ master' = MasterMoves

Compare == CASE coproc.opa < coproc.opb -> "DECR_B"
             [] coproc.opa > coproc.opb -> "DECR_A"
             [] OTHER                   -> "WRITE_RES"

CoprocMoves ==
    CASE coproc.fsm = "READ_OPA" /\ OperandReady ->
           [coproc EXCEPT !.fsm = "READ_OPB", !.opa = m2c.data]
      [] coproc.fsm = "READ_OPB" /\ OperandReady ->
           [coproc EXCEPT !.fsm = "COMPARE", !.opb = m2c.data]
      [] coproc.fsm = "COMPARE" -> [coproc EXCEPT !.fsm = Compare]
      [] coproc.fsm = "DECR_A" -> [coproc EXCEPT !.fsm = "COMPARE", !.opa = @ - coproc.opb]
      [] coproc.fsm = "DECR_B" -> [coproc EXCEPT !.fsm = "COMPARE", !.opb = @ - coproc.opa]
      [] coproc.fsm = "WRITE_RES" /\ c2m.r_wok -> [coproc EXCEPT !.fsm = "READ_OPA"]
      [] OTHER -> coproc

Next == MasterTransition /\ coproc' = CoprocMoves

Spec == Init /\ [][Next]_vars

\* The clock never stops.
FairSpec == Spec /\ WF_vars(Next)

-----------------------------------------------------------------------------
Operand == 1 .. MaxRand + 1
Word    == 0 .. MaxRand + 1

\* Type correctness: no subtraction leaves the range of the operands.
TypeOK == /\ master \in [fsm : MasterFsm, opa : Word, opb : Word, res : Word]
          /\ coproc \in [fsm : CoprocFsm, opa : Word, opb : Word]

\* A channel without storage loses no word only if the two automata agree on
\* which word passes: an operand is written in the cycle where the same
\* operand is read, and the result likewise.
WordsMatch ==
    /\ m2c.w_rok /\ m2c.r_wok => <<master.fsm, coproc.fsm>> \in
           {<<"WRITE_OPA", "READ_OPA">>, <<"WRITE_OPB", "READ_OPB">>}
    /\ m2c.w_rok => m2c.r_wok
    /\ c2m.w_rok => c2m.r_wok

\* What the master displays is the greatest common divisor of its operands.
DisplayedIsGcd == master.fsm = "DISPLAY" => IsGcd(master.res, master.opa, master.opb)

Phase(r) == CASE r.fsm = "RANDOM"  -> [phase |-> "draw", opa |-> 0, opb |-> 0, res |-> 0]
              [] r.fsm = "DISPLAY" -> [phase |-> "display", opa |-> r.opa,
                                       opb |-> r.opb, res |-> r.res]
              [] OTHER             -> [phase |-> "ask", opa |-> r.opa,
                                       opb |-> r.opb, res |-> 0]

view == [i \in {0} |-> Phase(master)]

Service == INSTANCE GcdService WITH Client <- {0}, client <- view

\* The platform implements GcdService with one master.
ImplementsService == Service!Spec

\* Every computation ends and is displayed: the operands are never 0, with
\* which, as TP1/rapport.md says, the automaton would turn for ever.
EveryRoundDisplays == []<>(master.fsm = "DISPLAY")

=============================================================================
