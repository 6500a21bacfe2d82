----------------------------- MODULE VciPlatform -----------------------------
(***************************************************************************)
(* The platform of TP2/TP2_etudiant/tp2_parallel_top.cpp: NbComponents     *)
(* masters and as many GCD coprocessors around the VCI bus VciVgsb, which  *)
(* carries one transaction at a time.  Master i addresses the segment of   *)
(* coprocessor i, as the netlist does.                                     *)
(*                                                                         *)
(* The components are synchronous automata: a step of the model is one     *)
(* clock cycle, in which every transition function runs once on the        *)
(* registers of the cycle before and on the signals the generation         *)
(* functions derive from them.                                             *)
(***************************************************************************)
EXTENDS VciGcdMaster, VciGcdCoprocessor, Gcd

CONSTANTS NbComponents, \* m_nb_initiator = m_nb_target
          MaxRand,      \* bound on what rand() returns
          Draws         \* the pairs that two calls of rand() may return

ASSUME VgsbAssumption == /\ NbComponents \in Nat \ {0}
                         /\ MaxRand \in Nat
                         /\ Draws \subseteq (0 .. MaxRand) \X (0 .. MaxRand)

VARIABLES bus,          \* r_fsm, r_initiator_index, r_target_index
          master,       \* master[i]: the registers of master i
          coproc,       \* coproc[i]: the registers of coprocessor i
          served        \* history: the initiator of the last transaction

vars == <<bus, master, coproc, served>>

Index == 0 .. NbComponents - 1

Init == /\ bus = [fsm |-> "IDLE", ini |-> 0, tgt |-> 0]
        /\ master = [i \in Index |-> MasterReset]
        /\ coproc = [i \in Index |-> CoprocReset]
        /\ served = 0

-----------------------------------------------------------------------------
(* The combinational functions of the bus: it connects the command signals *)
(* of the chosen pair in FSM_CMD and the response signals in FSM_RSP, and  *)
(* holds the valid and acknowledge signals of all others low.              *)

RspTo(i) == bus.fsm = "RSP" /\ bus.ini = i

\* Faulty variant: the acknowledge is shown to every initiator.
CmdBroadcast(i) == bus.fsm = "CMD"

CmdFrom(i) == bus.fsm = "CMD" /\ bus.ini = i

CmdTo(t) == bus.fsm = "CMD" /\ bus.tgt = t

RspFrom(t) == bus.fsm = "RSP" /\ bus.tgt = t

genMealy_cmdval(t) == CmdTo(t) /\ Cmdval(master[bus.ini])

genMealy_cmdack(i) == CmdFrom(i) /\ Cmdack(coproc[bus.tgt])

genMealy_rspval(i) == RspTo(i) /\ Rspval(coproc[bus.tgt])

genMealy_rspack(t) == RspFrom(t) /\ Rspack(master[bus.ini])

-----------------------------------------------------------------------------
(* transition of the bus.                                                  *)

Requests == {i \in Index : Cmdval(master[i])}

\* How many initiators the arbitration loop visits before i.
Distance(last, i) == (i - last - 1 + NbComponents) % NbComponents

\* The initiator at which the loop breaks: the first to request after last.
Elected(last) == {i \in Requests : \A j \in Requests :
                                     Distance(last, i) =< Distance(last, j)}

\* The address of a command of master i is in segment i (the routing table).
\* r_vci_counter, which is only displayed, is left out.
Select(i, fsm) == bus' = [fsm |-> fsm, ini |-> i, tgt |-> i]

IdleFree == /\ bus.fsm = "IDLE"
            /\ Requests = {}
            /\ UNCHANGED <<bus, served>>

\* Faulty variant: the arbitration loop starts at 0 at every grant.
IdleFixedPriority == /\ bus.fsm = "IDLE"
                     /\ \E i \in Elected(NbComponents - 1) : Select(i, "CMD") /\ served' = i

IdleGrant == /\ bus.fsm = "IDLE"
             /\ \E i \in Elected(bus.ini) : Select(i, "CMD") /\ served' = i

CmdTransfer ==
    /\ bus.fsm = "CMD"
    /\ bus' = IF Cmdval(master[bus.ini]) /\ Cmdack(coproc[bus.tgt])
                 THEN [bus EXCEPT !.fsm = "RSP"] ELSE bus
    /\ UNCHANGED served

\* At the end of a response the loop chooses a next initiator,
\* but the assignment after the loop sends the automaton to FSM_IDLE.
RspTransfer ==
    /\ bus.fsm = "RSP"
    /\ IF Rspval(coproc[bus.tgt]) /\ Rspack(master[bus.ini])
          THEN \/ \E i \in Elected(bus.ini) : Select(i, "IDLE")
               \/ Requests = {} /\ bus' = [bus EXCEPT !.fsm = "IDLE"]
          ELSE UNCHANGED bus
    /\ UNCHANGED served

-----------------------------------------------------------------------------
(* One clock cycle: the bus moves by one of the steps above, every master  *)
(* and every coprocessor by its own transition.  rand() is called only by  *)
(* the masters that draw.                                                  *)

Drawing == {i \in Index : master[i].fsm = "RANDOM"}

Masters ==
    \E rnd \in [Drawing -> Draws] :
      master' = [i \in Index |->
                   MasterTransition(master[i], genMealy_cmdack(i),
                                    genMealy_rspval(i), Rdata(coproc[bus.tgt]),
                                    IF i \in Drawing THEN rnd[i] ELSE <<0, 0>>)]

Coprocs ==
    coproc' = [t \in Index |->
                 CoprocTransition(coproc[t], genMealy_cmdval(t),
                                  Command(master[bus.ini]), bus.ini,
                                  genMealy_rspack(t))]

Next == /\ IdleFree \/ IdleGrant \/ CmdTransfer \/ RspTransfer
        /\ Masters
        /\ Coprocs

Spec == Init /\ [][Next]_vars

\* The clock never stops.
FairSpec == Spec /\ WF_vars(Next)

-----------------------------------------------------------------------------
Operand == 1 .. MaxRand + 1
Word    == 0 .. MaxRand + 1

\* Type correctness.  No coprocessor meets the command it calls illegal, and
\* no subtraction of the GCD automata leaves the range of the operands.
TypeOK ==
    /\ bus \in [fsm : {"IDLE", "CMD", "RSP"}, ini : Index, tgt : Index]
    /\ master \in [Index -> [fsm : MasterFsm, opa : Word, opb : Word, res : Word]]
    /\ coproc \in [Index -> [vci : VciFsm, exe : ExeFsm, opa : Word, opb : Word,
                             srcid : Index]]
    /\ served \in Index

\* "One single VCI transaction at a given time": a master awaits a response,
\* and a coprocessor offers one, only while the bus is in FSM_RSP and has
\* selected that very pair; the response carries the identifier of the
\* master that waits for it.
OneTransaction ==
    /\ \A i \in Index : master[i].fsm \in RspStates => RspTo(i)
    /\ \A t \in Index : coproc[t].vci \in VciRsp =>
                          /\ RspFrom(t)
                          /\ master[coproc[t].srcid].fsm = coproc[t].vci
                          /\ coproc[t].srcid = bus.ini

\* The execution automaton and the bus automaton of a coprocessor both write
\* r_opa and r_opb, without any interlock.  The masters' protocol keeps them
\* apart: no operand is written while a computation is under way.
NoWriteWhileComputing ==
    \A t \in Index : coproc[t].exe # "IDLE" =>
        ~ (genMealy_cmdval(t) /\ Command(master[bus.ini]).cmd = "WRITE")

\* What a master displays is the greatest common divisor of its operands.
DisplayedIsGcd ==
    \A i \in Index : master[i].fsm = "DISPLAY" =>
        IsGcd(master[i].res, master[i].opa, master[i].opb)

\* The platform implements GcdService: a master draws, asks and displays.
view == [i \in Index |-> Phase(master[i])]

Service == INSTANCE GcdService WITH Client <- Index, client <- view

ImplementsService == Service!Spec

\* Every master displays a result again and again: no command waits for ever,
\* in spite of the arbitration, and every computation ends.
EveryMasterDisplays == \A i \in Index : []<>(master[i].fsm = "DISPLAY")

\* vci_vgsb.h promises "arbitration between masters requests with a round
\* robin priority": an initiator that requests the bus is granted it.
RequestsAreGranted == \A i \in Index : i \in Requests ~> CmdFrom(i)

\* Round robin also means that no initiator gets two transactions in a row
\* while another one requests the bus.
TakesTurns == [][bus.fsm = "IDLE" /\ bus'.fsm = "CMD" =>
                   (bus'.ini = served => Requests = {served})]_vars

=============================================================================
