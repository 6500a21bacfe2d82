-------------------------- MODULE VciPlatformProofs --------------------------
(***************************************************************************)
(* For any number of masters and any range of rand(): the bus carries one  *)
(* transaction at a time, the two automata of a coprocessor never write    *)
(* the operands together, and the platform implements GcdService.          *)
(*                                                                         *)
(* None of the invariants is inductive: BusInv adds which pair of          *)
(* components the bus serves and, for every pair, the relation Pair        *)
(* between the master's automaton and the registers of its coprocessor.    *)
(* The first part is about one such pair, cycle by cycle, whatever carries *)
(* the signals: Pair is kept by a cycle without a transfer, by the         *)
(* transfer of a command and by that of a response.                        *)
(***************************************************************************)
EXTENDS VciPlatform, Arithmetic

(* A master with registers m and its coprocessor c; W bounds the operands. *)

MasterReg(W) == [fsm : MasterFsm, opa : 0 .. W, opb : 0 .. W, res : 0 .. W]
CoprocReg(W, I) ==
    [vci : VciFsm, exe : ExeFsm, opa : 0 .. W, opb : 0 .. W, srcid : I]

\* A started computation: the registers keep the common divisors of a and b.
Computing(c, a, b, W) ==
    /\ c.opa \in 1 .. W /\ c.opb \in 1 .. W
    /\ CommonDivisors(c.opa, c.opb) = CommonDivisors(a, b)
    /\ c.exe = "DECA" => c.opb < c.opa
    /\ c.exe = "DECB" => c.opa < c.opb
    /\ c.exe = "IDLE" => c.opa = c.opb

\* The master's transition without a handshake, and when its command is taken.
NoHandshake(m, rnd) == CASE m.fsm = "RANDOM"  -> Draw(m, rnd)
                         [] m.fsm = "DISPLAY" -> [m EXCEPT !.fsm = "RANDOM"]
                         [] OTHER             -> m
Accepted(m) == [m EXCEPT !.fsm = Follow[@]]

Polling == {"CMD_STATUS", "RSP_STATUS"}

Pair(m, c, W) ==
    /\ m.fsm # "RANDOM" => m.opa \in 1 .. W /\ m.opb \in 1 .. W
    /\ m.fsm \notin Polling => c.exe = "IDLE"
    /\ m.fsm \in {"RSP_OPA", "CMD_OPB", "RSP_OPB", "CMD_START", "RSP_START"} =>
         c.opa = m.opa
    /\ m.fsm \in {"RSP_OPB", "CMD_START", "RSP_START"} => c.opb = m.opb
    /\ m.fsm \in Polling \cup {"CMD_RESULT", "RSP_RESULT"} =>
         Computing(c, m.opa, m.opb, W)
    /\ m.fsm = "DISPLAY" => IsGcd(m.res, m.opa, m.opb)

-----------------------------------------------------------------------------
\* A step of the execution automaton of a started computation.
LEMMA ExeComputes ==
    ASSUME NEW W \in Nat, NEW I, NEW c \in CoprocReg(W, I), NEW a, NEW b,
           Computing(c, a, b, W), ~ Started(c)
    PROVE  /\ Computing(ExeStep(c), a, b, W)
           /\ ExeStep(c) \in CoprocReg(W, I)
           /\ ExeStep(c).vci = c.vci
           /\ c.exe = "IDLE" => ExeStep(c) = c
  <1>1. c.opa \in Nat \ {0} /\ c.opb \in Nat \ {0}
    BY DEF Computing
  <1>2. CASE c.exe = "IDLE"
    BY <1>2 DEF ExeStep, Computing, CoprocReg
  <1>3. CASE c.exe = "COMPARE"
    <2>1. ExeStep(c) = [c EXCEPT !.exe = Compare(c)]
      BY <1>3 DEF ExeStep
    <2> QED
      BY <1>1, <1>3, <2>1 DEF Computing, Compare, CoprocReg, ExeFsm
  <1>4. CASE c.exe = "DECA"
    <2>1. ExeStep(c) = [c EXCEPT !.opa = c.opa - c.opb, !.exe = "COMPARE"]
      BY <1>4 DEF ExeStep, Subtract, CoprocReg
    <2>2. c.opb < c.opa /\ c.opa - c.opb \in 1 .. W
      BY <1>1, <1>4 DEF Computing
    <2>3. CommonDivisors(c.opa - c.opb, c.opb) = CommonDivisors(a, b)
      BY <1>1, <2>2, DecrementA DEF Computing
    <2>4. ExeStep(c) \in CoprocReg(W, I) /\ ExeStep(c).vci = c.vci
      <3>1. c.opa - c.opb \in 0 .. W
        BY <2>2
      <3> QED
        BY Zenon, <2>1, <3>1 DEF CoprocReg, ExeFsm
    <2> QED
      BY <1>4, <2>1, <2>2, <2>3, <2>4 DEF Computing, CoprocReg
  <1>5. CASE c.exe = "DECB"
    <2>1. ExeStep(c) = [c EXCEPT !.opb = c.opb - c.opa, !.exe = "COMPARE"]
      BY <1>5 DEF ExeStep, Subtract, CoprocReg
    <2>2. c.opa < c.opb /\ c.opb - c.opa \in 1 .. W
      BY <1>1, <1>5 DEF Computing
    <2>3. CommonDivisors(c.opa, c.opb - c.opa) = CommonDivisors(a, b)
      BY Zenon, <1>1, <2>2, DecrementB DEF Computing
    <2>4. ExeStep(c) \in CoprocReg(W, I) /\ ExeStep(c).vci = c.vci
      <3>1. c.opb - c.opa \in 0 .. W
        BY <2>2
      <3> QED
        BY Zenon, <2>1, <3>1 DEF CoprocReg, ExeFsm
    <2> QED
      BY <1>5, <2>1, <2>2, <2>3, <2>4 DEF Computing, CoprocReg
  <1> QED
    BY <1>2, <1>3, <1>4, <1>5 DEF CoprocReg, ExeFsm

\* An execution automaton that has not been started stays as it is.
LEMMA ExeRests ==
    ASSUME NEW W \in Nat, NEW I, NEW c \in CoprocReg(W, I),
           c.exe = "IDLE", ~ Started(c)
    PROVE  ExeStep(c) = c
  BY DEF ExeStep, CoprocReg

\* A cycle without a transfer between the two components.
LEMMA AloneKeepsPair ==
    ASSUME NEW W \in Nat, NEW I, NEW m \in MasterReg(W), NEW c \in CoprocReg(W, I),
           Pair(m, c, W), m.fsm \notin RspStates, c.vci = "GET_CMD",
           NEW rnd, rnd[1] + 1 \in 1 .. W, rnd[2] + 1 \in 1 .. W,
           NEW mn, NEW cn, cn = ExeStep(c),
           mn = NoHandshake(m, rnd)
    PROVE  /\ mn \in MasterReg(W) /\ cn \in CoprocReg(W, I)
           /\ Pair(mn, cn, W)
           /\ mn.fsm \notin RspStates /\ cn.vci = "GET_CMD"
           /\ m.fsm \in CmdStates => mn = m
  <1> USE DEF NoHandshake
  <1>3. ~ Started(c)
    BY DEF Started
  <1>4. CASE m.fsm = "CMD_STATUS" \/ m.fsm = "CMD_RESULT"
    <2>1. mn = m
      BY <1>4
    <2>2. Computing(c, m.opa, m.opb, W)
      BY <1>4 DEF Pair, Polling
    <2>3. Computing(cn, m.opa, m.opb, W) /\ cn \in CoprocReg(W, I) /\ cn.vci = "GET_CMD"
      BY <1>3, <2>2, ExeComputes
    <2>4. m.fsm = "CMD_RESULT" => cn.exe = "IDLE"
      BY <1>3, <1>4, <2>2, ExeComputes DEF Pair, Polling
    <2> QED
      BY <1>4, <2>1, <2>3, <2>4 DEF Pair, Polling
  <1>5. CASE m.fsm \notin {"CMD_STATUS", "CMD_RESULT"}
    <2>1. cn = c
      BY <1>3, <1>5, ExeRests DEF Pair, Polling, RspStates
    <2>2. CASE m.fsm = "RANDOM"
      <3>1. mn = [m EXCEPT !.fsm = "CMD_OPA", !.opa = rnd[1] + 1, !.opb = rnd[2] + 1]
        BY <2>2 DEF Draw
      <3>2. rnd[1] + 1 \in 0 .. W /\ rnd[2] + 1 \in 0 .. W
        OBVIOUS
      <3> QED
        BY Zenon, <2>1, <2>2, <3>1, <3>2
        DEF MasterReg, MasterFsm, CmdStates, RspStates, Pair, Polling
    <2>3. CASE m.fsm # "RANDOM"
      BY <1>5, <2>1, <2>3
      DEF MasterReg, MasterFsm, CmdStates, RspStates, Pair, Polling
    <2> QED
      BY <2>2, <2>3
  <1> QED
    BY <1>4, <1>5

\* A cycle in which a command is transferred.
LEMMA CommandKeepsPair ==
    ASSUME NEW W \in Nat, NEW I, NEW m \in MasterReg(W), NEW c \in CoprocReg(W, I),
           Pair(m, c, W), m.fsm \in CmdStates, c.vci = "GET_CMD",
           NEW srcid \in I,
           NEW mn, mn = Accepted(m),
           NEW cn, cn = Decode(ExeStep(c), Command(m), srcid)
    PROVE  /\ mn \in MasterReg(W) /\ cn \in CoprocReg(W, I)
           /\ Pair(mn, cn, W)
           /\ mn.fsm \in RspStates /\ cn.vci = mn.fsm /\ cn.srcid = srcid
           /\ mn = [m EXCEPT !.fsm = mn.fsm]
  <1> USE DEF Accepted
  <1>3. ~ Started(c)
    BY DEF Started
  <1>4. CASE m.fsm \in {"CMD_STATUS", "CMD_RESULT"}
    <2> DEFINE e == ExeStep(c)
    <2>1. Computing(c, m.opa, m.opb, W)
      BY <1>4 DEF Pair, Polling
    <2>2. /\ Computing(e, m.opa, m.opb, W) /\ e \in CoprocReg(W, I)
          /\ c.exe = "IDLE" => e = c
      BY <1>3, <2>1, ExeComputes
    <2> HIDE DEF e
    <2>3. CASE m.fsm = "CMD_STATUS"
      <3>1. mn = [m EXCEPT !.fsm = "RSP_STATUS"]
        BY <2>3 DEF Follow
      <3>2. cn = [e EXCEPT !.srcid = srcid, !.vci = "RSP_STATUS"]
        BY <2>2, <2>3 DEF Decode, Command, e, CoprocReg
      <3> QED
        BY Zenon, <2>2, <2>3, <3>1, <3>2
        DEF Pair, Polling, Computing, MasterReg, MasterFsm, CoprocReg, VciFsm, VciRsp, RspStates
    <2>4. CASE m.fsm = "CMD_RESULT"
      <3>1. mn = [m EXCEPT !.fsm = "RSP_RESULT"]
        BY <2>4 DEF Follow
      <3>2. cn = [c EXCEPT !.srcid = srcid, !.vci = "RSP_RESULT"]
        BY <2>2, <2>4 DEF Decode, Command, e, CoprocReg, Pair, Polling
      <3> QED
        BY Zenon, <2>1, <2>4, <3>1, <3>2
        DEF Pair, Polling, Computing, MasterReg, MasterFsm, CoprocReg, VciFsm, VciRsp, RspStates
    <2> QED
      BY <1>4, <2>3, <2>4
  <1>5. CASE m.fsm \in {"CMD_OPA", "CMD_OPB", "CMD_START"}
    <2>1. ExeStep(c) = c
      BY <1>3, <1>5, ExeRests DEF Pair, Polling
    <2>2. CASE m.fsm = "CMD_OPA"
      <3>1. mn = [m EXCEPT !.fsm = "RSP_OPA"]
        BY <2>2 DEF Follow
      <3>2. cn = [c EXCEPT !.srcid = srcid, !.vci = "RSP_OPA", !.opa = m.opa]
        BY Zenon, <2>1, <2>2 DEF Decode, Command, CoprocReg
      <3> QED
        BY Zenon, <2>2, <3>1, <3>2
        DEF Pair, Polling, MasterReg, MasterFsm, CoprocReg, VciFsm, VciRsp, RspStates
    <2>3. CASE m.fsm = "CMD_OPB"
      <3>1. mn = [m EXCEPT !.fsm = "RSP_OPB"]
        BY <2>3 DEF Follow
      <3>2. cn = [c EXCEPT !.srcid = srcid, !.vci = "RSP_OPB", !.opb = m.opb]
        BY Zenon, <2>1, <2>3 DEF Decode, Command, CoprocReg
      <3> QED
        BY Zenon, <2>3, <3>1, <3>2
        DEF Pair, Polling, MasterReg, MasterFsm, CoprocReg, VciFsm, VciRsp, RspStates
    <2>4. CASE m.fsm = "CMD_START"
      <3>1. mn = [m EXCEPT !.fsm = "RSP_START"]
        BY <2>4 DEF Follow
      <3>2. cn = [c EXCEPT !.srcid = srcid, !.vci = "RSP_START"]
        BY <2>1, <2>4 DEF Decode, Command, CoprocReg
      <3> QED
        BY Zenon, <2>4, <3>1, <3>2
        DEF Pair, Polling, MasterReg, MasterFsm, CoprocReg, VciFsm, VciRsp, RspStates
    <2> QED
      BY <1>5, <2>2, <2>3, <2>4
  <1> QED
    BY <1>4, <1>5 DEF CmdStates

\* A cycle in which a response is transferred.
LEMMA ResponseKeepsPair ==
    ASSUME NEW W \in Nat, NEW I, NEW m \in MasterReg(W), NEW c \in CoprocReg(W, I),
           Pair(m, c, W), m.fsm \in RspStates, c.vci = m.fsm,
           NEW mn, mn = Response(m, Rdata(c)),
           NEW cn, cn = [ExeStep(c) EXCEPT !.vci = "GET_CMD"]
    PROVE  /\ mn \in MasterReg(W) /\ cn \in CoprocReg(W, I)
           /\ Pair(mn, cn, W)
           /\ mn.fsm \notin RspStates \cup {"RANDOM"} /\ cn.vci = "GET_CMD"
           /\ mn.opa = m.opa /\ mn.opb = m.opb
  <1>3. m.opa \in 1 .. W /\ m.opb \in 1 .. W
    BY DEF Pair, RspStates
  <1>4. CASE m.fsm \in {"RSP_OPA", "RSP_OPB"}
    <2>1. ExeStep(c) = c
      BY <1>4, ExeRests DEF Pair, Polling, Started
    <2>2. mn = [m EXCEPT !.fsm = Follow[m.fsm]]
      BY Zenon, <1>4 DEF Response, MasterReg
    <2> QED
      BY <1>4, <2>1, <2>2
      DEF Pair, Polling, Follow, MasterReg, MasterFsm, CmdStates, CoprocReg, VciFsm, VciRsp, RspStates
  <1>5. CASE m.fsm = "RSP_START"
    <2>1. ExeStep(c) = [c EXCEPT !.exe = "COMPARE"]
      BY <1>5 DEF ExeStep, Started, Pair, Polling, CoprocReg
    <2>2. mn = [m EXCEPT !.fsm = "CMD_STATUS", !.res = m.res]
      <3>1. Follow[m.fsm] = "CMD_STATUS"
        BY <1>5 DEF Follow
      <3> QED
        BY <1>5, <3>1 DEF Response
    <2> QED
      BY Zenon, <1>3, <1>5, <2>1, <2>2
      DEF Pair, Computing, Polling, MasterReg, MasterFsm, CmdStates, CoprocReg, VciFsm, ExeFsm, RspStates
  <1>6. CASE m.fsm = "RSP_STATUS"
    <2> DEFINE e == ExeStep(c)
    <2>1. /\ Computing(c, m.opa, m.opb, W)
          /\ Computing(e, m.opa, m.opb, W) /\ e \in CoprocReg(W, I)
          /\ c.exe = "IDLE" => e = c
      BY <1>6, ExeComputes DEF Pair, Polling, Started
    <2>2. cn = [e EXCEPT !.vci = "GET_CMD"]
      OBVIOUS
    <2> HIDE DEF e
    <2>3. mn = [m EXCEPT !.fsm = IF c.exe = "IDLE" THEN "CMD_RESULT" ELSE "CMD_STATUS",
                         !.res = m.res]
      <3>1. Follow[m.fsm] = "CMD_RESULT"
        BY <1>6 DEF Follow
      <3>2. CASE c.exe = "IDLE"
        <4>1. Rdata(c) = 0
          BY <1>6, <3>2 DEF Rdata
        <4> QED
          BY <1>6, <3>1, <3>2, <4>1 DEF Response
      <3>3. CASE c.exe # "IDLE"
        <4>1. Rdata(c) = 1
          BY <1>6, <3>3 DEF Rdata
        <4> QED
          BY <1>6, <3>1, <3>3, <4>1 DEF Response
      <3> QED
        BY <3>2, <3>3
    <2> QED
      BY Zenon, <1>3, <1>6, <2>1, <2>2, <2>3
      DEF Pair, Computing, Polling, MasterReg, MasterFsm, CmdStates, CoprocReg, VciFsm, RspStates
  <1>7. CASE m.fsm = "RSP_RESULT"
    <2>1. ExeStep(c) = c
      BY <1>7, ExeRests DEF Pair, Polling, Started
    <2>2. mn = [m EXCEPT !.fsm = "DISPLAY", !.res = c.opa]
      <3>1. Follow[m.fsm] = "DISPLAY"
        BY <1>7 DEF Follow
      <3>2. Rdata(c) = c.opa
        BY <1>7 DEF Rdata
      <3> QED
        BY <1>7, <3>1, <3>2 DEF Response
    <2>3. /\ c.opa \in Nat \ {0}
          /\ CommonDivisors(c.opa, c.opa) = CommonDivisors(m.opa, m.opb)
      BY <1>7 DEF Pair, Computing, Polling
    <2>4. IsGcd(c.opa, m.opa, m.opb)
      BY <1>3, <2>3, EqualIsGcd
    <2> QED
      BY Zenon, <1>3, <1>7, <2>1, <2>2, <2>4
      DEF Pair, Polling, VciRsp, MasterReg, MasterFsm, CoprocReg, VciFsm, RspStates
  <1> QED
    BY <1>4, <1>5, <1>6, <1>7 DEF RspStates

-----------------------------------------------------------------------------
(* The platform *)

W == MaxRand + 1

BusType == /\ bus \in [fsm : {"IDLE", "CMD", "RSP"}, ini : Index, tgt : Index]
           /\ served \in Index

\* The pair i is the one whose response the bus awaits, or it is at rest.
Served(i, m, c) ==
    IF bus.fsm = "RSP" /\ bus.ini = i
       THEN m.fsm \in RspStates /\ c.vci = m.fsm /\ c.srcid = i
       ELSE m.fsm \notin RspStates /\ c.vci = "GET_CMD"

PairInv(i, m, c) ==
    /\ m \in MasterReg(W) /\ c \in CoprocReg(W, Index)
    /\ Pair(m, c, W)
    /\ Served(i, m, c)

BusInv ==
    /\ BusType
    /\ master = [i \in Index |-> master[i]] /\ coproc = [i \in Index |-> coproc[i]]
    /\ bus.fsm # "IDLE" => bus.tgt = bus.ini
    /\ bus.fsm = "CMD" => master[bus.ini].fsm \in CmdStates
    /\ \A i \in Index : PairInv(i, master[i], coproc[i])

LEMMA WNat == W \in Nat /\ 0 \in Index
  BY VgsbAssumption DEF W, Index

\* The reset state satisfies the invariant.
LEMMA InitInv == Init => BusInv
  <1> SUFFICES ASSUME Init PROVE BusInv
    OBVIOUS
  <1>1. BusType
    BY WNat DEF Init, BusType
  <1>2. ASSUME NEW i \in Index PROVE PairInv(i, master[i], coproc[i])
    <2>1. master[i] = MasterReset /\ coproc[i] = CoprocReset
      BY DEF Init
    <2>2. 0 \in 0 .. W
      BY WNat
    <2>3. MasterReset \in MasterReg(W) /\ CoprocReset \in CoprocReg(W, Index)
      BY <2>2, WNat DEF MasterReset, MasterReg, MasterFsm, CoprocReset, CoprocReg, VciFsm, ExeFsm
    <2> QED
      BY <2>1, <2>3 DEF Init, PairInv, Pair, Served, Polling, MasterReset, CoprocReset, RspStates
  <1> QED
    BY <1>1, <1>2 DEF BusInv, Init

-----------------------------------------------------------------------------
(* The cycle of pair i, by what the bus does for it.                       *)

\* The random values of a cycle.
LEMMA RandomOperand ==
    ASSUME NEW rnd \in [Drawing -> Draws], NEW i \in Index,
           NEW r, r = IF i \in Drawing THEN rnd[i] ELSE <<0, 0>>
    PROVE  /\ r[1] + 1 \in 1 .. W /\ r[2] + 1 \in 1 .. W
  <1>1. r \in (0 .. MaxRand) \X (0 .. MaxRand)
    BY VgsbAssumption
  <1>2. r[1] \in 0 .. MaxRand /\ r[2] \in 0 .. MaxRand
    BY <1>1
  <1> QED
    BY <1>2, VgsbAssumption DEF W

\* The pair is not selected: neither component sees a handshake.
LEMMA AloneStep ==
    ASSUME BusInv, NEW rnd, NEW i \in Index, Coprocs,
           master' = [j \in Index |->
                   MasterTransition(master[j], genMealy_cmdack(j),
                                    genMealy_rspval(j), Rdata(coproc[bus.tgt]), rnd[j])],
           ~ CmdFrom(i), ~ RspTo(i)
    PROVE  /\ coproc'[i] = ExeStep(coproc[i])
           /\ master'[i] = NoHandshake(master[i], rnd[i])
  <1>1. ~ CmdTo(i) /\ ~ RspFrom(i)
    BY DEF BusInv, CmdTo, CmdFrom, RspTo, RspFrom, BusType
  <1>2. /\ genMealy_cmdack(i) = FALSE /\ genMealy_rspval(i) = FALSE
        /\ genMealy_cmdval(i) = FALSE /\ genMealy_rspack(i) = FALSE
    BY <1>1 DEF genMealy_cmdack, genMealy_rspval, genMealy_cmdval, genMealy_rspack
  <1>3. master'[i] = MasterTransition(master[i], FALSE, FALSE, Rdata(coproc[bus.tgt]), rnd[i])
    BY Zenon, <1>2
  <1>4. coproc'[i] = CoprocTransition(coproc[i], FALSE, Command(master[bus.ini]), bus.ini, FALSE)
    BY Zenon, <1>2 DEF Coprocs
  <1> QED
    BY <1>3, <1>4 DEF MasterTransition, CoprocTransition, NoHandshake

\* The bus connects the command of the pair: it is transferred.
LEMMA CommandStep ==
    ASSUME BusInv, NEW rnd, NEW i \in Index, Coprocs,
           master' = [j \in Index |->
                   MasterTransition(master[j], genMealy_cmdack(j),
                                    genMealy_rspval(j), Rdata(coproc[bus.tgt]), rnd[j])],
           CmdFrom(i)
    PROVE  /\ coproc'[i] = Decode(ExeStep(coproc[i]), Command(master[i]), i)
           /\ master'[i] = Accepted(master[i])
           /\ master[i].fsm \in CmdStates /\ coproc[i].vci = "GET_CMD"
  <1>1. bus.fsm = "CMD" /\ bus.ini = i /\ bus.tgt = i
    BY DEF BusInv, CmdFrom
  <1>2. master[i].fsm \in CmdStates /\ coproc[i].vci = "GET_CMD"
    BY <1>1 DEF BusInv, PairInv, Served
  <1>3. genMealy_cmdack(i) = TRUE /\ genMealy_cmdval(i) = TRUE
    BY <1>1, <1>2 DEF genMealy_cmdack, genMealy_cmdval, CmdFrom, CmdTo, Cmdack, Cmdval
  <1>4. genMealy_rspack(i) = FALSE /\ genMealy_rspval(i) = FALSE
    BY <1>1 DEF genMealy_rspack, RspFrom, genMealy_rspval, RspTo
  <1>5. master'[i] = MasterTransition(master[i], TRUE, FALSE, Rdata(coproc[i]), rnd[i])
    BY Zenon, <1>1, <1>3, <1>4
  <1>6. coproc'[i] = CoprocTransition(coproc[i], TRUE, Command(master[i]), i, FALSE)
    BY Zenon, <1>1, <1>3, <1>4 DEF Coprocs
  <1> QED
    BY <1>2, <1>5, <1>6 DEF MasterTransition, CoprocTransition, CmdStates, RspStates, Accepted

\* The bus connects the response of the pair: it is transferred.
LEMMA ResponseStep ==
    ASSUME BusInv, NEW rnd, NEW i \in Index, Coprocs,
           master' = [j \in Index |->
                   MasterTransition(master[j], genMealy_cmdack(j),
                                    genMealy_rspval(j), Rdata(coproc[bus.tgt]), rnd[j])],
           RspTo(i)
    PROVE  /\ coproc'[i] = [ExeStep(coproc[i]) EXCEPT !.vci = "GET_CMD"]
           /\ master'[i] = Response(master[i], Rdata(coproc[i]))
           /\ master[i].fsm \in RspStates /\ coproc[i].vci = master[i].fsm
  <1>1. bus.fsm = "RSP" /\ bus.ini = i /\ bus.tgt = i
    BY DEF BusInv, RspTo
  <1>2. master[i].fsm \in RspStates /\ coproc[i].vci = master[i].fsm
    BY <1>1 DEF BusInv, PairInv, Served
  <1>3. genMealy_rspack(i) = TRUE /\ genMealy_rspval(i) = TRUE
    BY <1>1, <1>2 DEF genMealy_rspack, RspFrom, genMealy_rspval, RspTo, Rspack, Rspval,
                      RspStates, CmdStates, VciRsp
  <1>4. genMealy_cmdack(i) = FALSE /\ genMealy_cmdval(i) = FALSE
    BY <1>1 DEF genMealy_cmdack, genMealy_cmdval, CmdFrom, CmdTo
  <1>5. master'[i] = MasterTransition(master[i], FALSE, TRUE, Rdata(coproc[i]), rnd[i])
    BY Zenon, <1>1, <1>3, <1>4
  <1>6. coproc'[i] = CoprocTransition(coproc[i], FALSE, Command(master[i]), i, TRUE)
    BY Zenon, <1>1, <1>3, <1>4 DEF Coprocs
  <1> QED
    BY <1>2, <1>5, <1>6 DEF MasterTransition, CoprocTransition, CmdStates, RspStates, VciRsp

-----------------------------------------------------------------------------
\* What a cycle of the whole platform does to pair i.
LEMMA PairStep ==
    ASSUME BusInv, Masters, Coprocs, NEW i \in Index
    PROVE  /\ master'[i] \in MasterReg(W) /\ coproc'[i] \in CoprocReg(W, Index)
           /\ Pair(master'[i], coproc'[i], W)
           /\ IF CmdFrom(i)
                 THEN /\ master'[i].fsm \in RspStates /\ coproc'[i].vci = master'[i].fsm
                      /\ coproc'[i].srcid = i
                 ELSE /\ master'[i].fsm \notin RspStates /\ coproc'[i].vci = "GET_CMD"
           /\ ~ RspTo(i) /\ master[i].fsm \in CmdStates /\ ~ CmdFrom(i) => master'[i] = master[i]
           /\ Service!Draw(i) \/ Service!Answer(i) \/ Service!Display(i) \/ view'[i] = view[i]
  <1>1. PICK rnd \in [Drawing -> Draws] :
          master' = [j \in Index |->
                   MasterTransition(master[j], genMealy_cmdack(j),
                                    genMealy_rspval(j), Rdata(coproc[bus.tgt]),
                                    IF j \in Drawing THEN rnd[j] ELSE <<0, 0>>)]
    BY DEF Masters
  <1> DEFINE r == [j \in Index |-> IF j \in Drawing THEN rnd[j] ELSE <<0, 0>>]
             m == master[i]
             c == coproc[i]
             mn == master'[i]
             cn == coproc'[i]
  <1>2. master' = [j \in Index |->
                   MasterTransition(master[j], genMealy_cmdack(j),
                                    genMealy_rspval(j), Rdata(coproc[bus.tgt]), r[j])]
    BY <1>1
  <1>3. r[i][1] + 1 \in 1 .. W /\ r[i][2] + 1 \in 1 .. W
    BY Zenon, RandomOperand
  <1>4. /\ m \in MasterReg(W) /\ c \in CoprocReg(W, Index) /\ Pair(m, c, W)
        /\ ~ RspTo(i) => m.fsm \notin RspStates /\ c.vci = "GET_CMD"
    BY DEF BusInv, PairInv, Served, RspTo
  <1>5. view[i] = Phase(m) /\ view'[i] = Phase(mn)
    BY DEF view
  <1> HIDE DEF r
  <1>6. CASE ~ CmdFrom(i) /\ ~ RspTo(i)
    <2>1. /\ cn = ExeStep(c)
          /\ mn = NoHandshake(m, r[i])
      BY <1>2, <1>6, AloneStep
    <2>2. /\ mn \in MasterReg(W) /\ cn \in CoprocReg(W, Index) /\ Pair(mn, cn, W)
          /\ mn.fsm \notin RspStates /\ cn.vci = "GET_CMD"
          /\ m.fsm \in CmdStates => mn = m
      <3> HIDE DEF m, c, mn, cn
      <3> QED
        BY <1>3, <1>4, <1>6, <2>1, WNat, AloneKeepsPair
    <2>3. CASE m.fsm = "RANDOM"
      <3>1. /\ mn.fsm = "CMD_OPA" /\ mn.opa = r[i][1] + 1 /\ mn.opb = r[i][2] + 1
        BY Zenon, <1>4, <2>1, <2>3 DEF Draw, MasterReg, NoHandshake
      <3>2. Service!Draw(i)
        BY <1>3, <1>5, <2>3, <3>1 DEF Service!Draw, Phase, Operand, W
      <3> QED
        BY <1>6, <2>2, <3>2
    <2>4. CASE m.fsm = "DISPLAY"
      <3>1. mn.fsm = "RANDOM"
        BY <1>4, <2>1, <2>4 DEF MasterReg, NoHandshake
      <3>2. Service!Display(i)
        BY <1>5, <2>4, <3>1 DEF Service!Display, Service!Start, Phase
      <3> QED
        BY <1>6, <2>2, <3>2
    <2>5. CASE m.fsm \notin {"RANDOM", "DISPLAY"}
      BY <1>5, <1>6, <2>1, <2>2, <2>5 DEF NoHandshake
    <2> QED
      BY <2>3, <2>4, <2>5
  <1>7. CASE CmdFrom(i)
    <2>1. /\ cn = Decode(ExeStep(c), Command(m), i)
          /\ mn = Accepted(m)
          /\ m.fsm \in CmdStates /\ c.vci = "GET_CMD"
      BY <1>2, <1>7, CommandStep
    <2>2. /\ mn \in MasterReg(W) /\ cn \in CoprocReg(W, Index) /\ Pair(mn, cn, W)
          /\ mn.fsm \in RspStates /\ cn.vci = mn.fsm /\ cn.srcid = i
          /\ mn = [m EXCEPT !.fsm = mn.fsm]
      <3> HIDE DEF m, c, mn, cn
      <3> QED
        BY <1>4, <2>1, WNat, CommandKeepsPair
    <2>3. view'[i] = view[i]
      BY <1>4, <1>5, <2>1, <2>2 DEF Phase, CmdStates, RspStates, MasterReg
    <2> QED
      BY <1>7, <2>2, <2>3
  <1>8. CASE RspTo(i)
    <2>1. /\ cn = [ExeStep(c) EXCEPT !.vci = "GET_CMD"]
          /\ mn = Response(m, Rdata(c))
          /\ m.fsm \in RspStates /\ c.vci = m.fsm
      BY <1>2, <1>8, ResponseStep
    <2>2. /\ mn \in MasterReg(W) /\ cn \in CoprocReg(W, Index) /\ Pair(mn, cn, W)
          /\ mn.fsm \notin RspStates \cup {"RANDOM"} /\ cn.vci = "GET_CMD"
          /\ mn.opa = m.opa /\ mn.opb = m.opb
      <3> HIDE DEF m, c, mn, cn
      <3> QED
        BY <1>4, <2>1, WNat, ResponseKeepsPair
    <2>3. ~ CmdFrom(i)
      BY <1>8 DEF RspTo, CmdFrom
    <2>4. CASE mn.fsm = "DISPLAY"
      <3>1. /\ IsGcd(mn.res, m.opa, m.opb) /\ m.opa \in 1 .. W
        BY <1>4, <2>1, <2>2, <2>4 DEF Pair, RspStates
      <3>2. mn.res \in 1 .. m.opa /\ Service!IsGcd(mn.res, m.opa, m.opb)
        BY <3>1 DEF IsGcd, Service!IsGcd, CommonDivisors, Service!CommonDivisors,
                    Divides, Service!Divides
      <3>3. Service!Answer(i)
        BY <1>5, <2>1, <2>2, <2>4, <3>2 DEF Service!Answer, Phase, RspStates
      <3> QED
        BY <1>8, <2>2, <2>3, <3>3
    <2>5. CASE mn.fsm # "DISPLAY"
      <3>1. view'[i] = view[i]
        BY <1>5, <2>1, <2>2, <2>5 DEF Phase, RspStates
      <3> QED
        BY <1>8, <2>2, <2>3, <3>1
    <2> QED
      BY <2>4, <2>5
  <1> QED
    BY <1>6, <1>7, <1>8

-----------------------------------------------------------------------------
\* What a cycle does to the bus.
LEMMA BusStep ==
    ASSUME BusInv, IdleFree \/ IdleGrant \/ CmdTransfer \/ RspTransfer
    PROVE  /\ BusType'
           /\ bus'.fsm # "IDLE" => bus'.tgt = bus'.ini
           /\ bus'.fsm = "RSP" => bus.fsm = "CMD" /\ bus'.ini = bus.ini
           /\ bus'.fsm = "CMD" => /\ bus.fsm = "IDLE"
                                  /\ master[bus'.ini].fsm \in CmdStates
           /\ bus.fsm = "CMD" => bus'.fsm = "RSP"
  <1>2. ASSUME NEW l PROVE \A i \in Elected(l) : i \in Index /\ master[i].fsm \in CmdStates
    BY DEF Elected, Requests, Cmdval
  <1>3. CASE IdleFree
    BY <1>3 DEF IdleFree, BusInv, BusType
  <1>4. CASE IdleGrant
    <2>1. PICK i \in Elected(bus.ini) : Select(i, "CMD") /\ served' = i
      BY <1>4 DEF IdleGrant
    <2> QED
      BY <1>2, <1>4, <2>1 DEF IdleGrant, Select, BusType
  <1>5. CASE CmdTransfer
    <2>1. bus.tgt = bus.ini /\ bus.ini \in Index /\ bus.fsm = "CMD"
      BY <1>5 DEF CmdTransfer, BusInv, BusType
    <2>2. Cmdval(master[bus.ini]) /\ Cmdack(coproc[bus.tgt])
      BY <2>1 DEF BusInv, PairInv, Served, Cmdval, Cmdack
    <2> QED
      BY <1>5, <2>1, <2>2 DEF CmdTransfer, BusInv, BusType
  <1>6. CASE RspTransfer
    <2>1. bus.tgt = bus.ini /\ bus.ini \in Index /\ bus.fsm = "RSP"
      BY <1>6 DEF RspTransfer, BusInv, BusType
    <2>2. Rspval(coproc[bus.tgt]) /\ Rspack(master[bus.ini])
      BY <2>1 DEF BusInv, PairInv, Served, Rspval, Rspack, RspStates, CmdStates, VciRsp
    <2>3. \/ \E i \in Elected(bus.ini) : Select(i, "IDLE")
          \/ bus' = [bus EXCEPT !.fsm = "IDLE"]
      BY <1>6, <2>2 DEF RspTransfer
    <2>4. bus'.fsm = "IDLE" /\ BusType'
      <3>1. CASE \E i \in Elected(bus.ini) : Select(i, "IDLE")
        BY <1>2, <1>6, <3>1 DEF RspTransfer, Select, BusInv, BusType
      <3>2. CASE bus' = [bus EXCEPT !.fsm = "IDLE"]
        BY <1>6, <3>2 DEF RspTransfer, BusInv, BusType
      <3> QED
        BY <2>3, <3>1, <3>2
    <2> QED
      BY <2>1, <2>4
  <1> QED
    BY <1>3, <1>4, <1>5, <1>6

\* Every cycle keeps the invariant.
LEMMA NextInv == BusInv /\ [Next]_vars => BusInv'
  <1> SUFFICES ASSUME BusInv, [Next]_vars PROVE BusInv'
    OBVIOUS
  <1>1. CASE UNCHANGED vars
    BY <1>1 DEF vars, BusInv, BusType, PairInv, Served
  <1>2. CASE Next
    <2>1. IdleFree \/ IdleGrant \/ CmdTransfer \/ RspTransfer
      BY <1>2 DEF Next
    <2>2. Masters /\ Coprocs
      BY <1>2 DEF Next
    <2>3. ASSUME NEW i \in Index PROVE PairInv(i, master[i], coproc[i])'
      <3>1. bus'.fsm = "RSP" /\ bus'.ini = i <=> CmdFrom(i)
        BY <2>1, BusStep DEF CmdFrom, BusInv, BusType
      <3>2. Served(i, master[i], coproc[i])'
        BY <2>2, <3>1, PairStep DEF Served
      <3> QED
        BY <2>2, <3>2, PairStep DEF PairInv
    <2>4. master' = [i \in Index |-> master'[i]] /\ coproc' = [i \in Index |-> coproc'[i]]
      BY <2>2 DEF Masters, Coprocs
    <2>5. bus'.fsm = "CMD" => master'[bus'.ini].fsm \in CmdStates
      <3> SUFFICES ASSUME bus'.fsm = "CMD" PROVE master'[bus'.ini].fsm \in CmdStates
        OBVIOUS
      <3>1. /\ bus.fsm = "IDLE" /\ master[bus'.ini].fsm \in CmdStates
            /\ bus'.ini \in Index
        BY <2>1, BusStep DEF BusType
      <3>2. ~ RspTo(bus'.ini) /\ ~ CmdFrom(bus'.ini)
        BY <3>1 DEF RspTo, CmdFrom
      <3> QED
        BY <2>2, <3>1, <3>2, PairStep
    <2>6. BusType' /\ (bus'.fsm # "IDLE" => bus'.tgt = bus'.ini)
      BY <2>1, BusStep
    <2> QED
      BY <2>3, <2>4, <2>5, <2>6 DEF BusInv
  <1> QED
    BY <1>1, <1>2 DEF vars

\* The bus serves one pair at a time, in every cycle of every behaviour.
THEOREM Invariance == Spec => []BusInv
  BY InitInv, NextInv, PTL DEF Spec

\* The registers keep their types: no subtraction of a coprocessor wraps and
\* no illegal command reaches one, for any number of masters.
THEOREM TypeCorrect == Spec => []TypeOK
  <1>1. BusInv => TypeOK
    <2> SUFFICES ASSUME BusInv PROVE TypeOK
      OBVIOUS
    <2>1. \A i \in Index : master[i] \in MasterReg(W) /\ coproc[i] \in CoprocReg(W, Index)
      BY DEF BusInv, PairInv
    <2>2. Word = 0 .. W
      BY DEF Word, W
    <2> QED
      BY Zenon, <2>1, <2>2 DEF BusInv, BusType, TypeOK, MasterReg, CoprocReg
  <1> QED
    BY <1>1, Invariance, PTL

\* vci_vgsb carries one transaction at a time, and its response reaches the
\* master that sent the command, for any number of masters.
THEOREM OneTransactionCorrect == Spec => []OneTransaction
  <1>1. BusInv => OneTransaction
    <2> SUFFICES ASSUME BusInv PROVE OneTransaction
      OBVIOUS
    <2>1. \A i \in Index : PairInv(i, master[i], coproc[i])
      BY DEF BusInv
    <2>2. ASSUME NEW i \in Index, master[i].fsm \in RspStates PROVE RspTo(i)
      BY <2>1, <2>2 DEF PairInv, Served, RspTo
    <2>3. ASSUME NEW t \in Index, coproc[t].vci \in VciRsp
          PROVE  /\ RspFrom(t)
                 /\ master[coproc[t].srcid].fsm = coproc[t].vci
                 /\ coproc[t].srcid = bus.ini
      <3>1. bus.fsm = "RSP" /\ bus.ini = t
        BY <2>1, <2>3 DEF PairInv, Served, VciRsp
      <3>2. bus.tgt = t /\ coproc[t].srcid = t /\ master[t].fsm = coproc[t].vci
        BY <2>1, <3>1 DEF PairInv, Served, BusInv
      <3> QED
        BY <3>1, <3>2 DEF RspFrom
    <2> QED
      BY <2>2, <2>3 DEF OneTransaction
  <1> QED
    BY <1>1, Invariance, PTL

\* The masters' polling protocol keeps the two automata of a coprocessor from
\* writing r_opa and r_opb in the same computation.
THEOREM NoWriteCorrect == Spec => []NoWriteWhileComputing
  <1>1. BusInv => NoWriteWhileComputing
    <2> SUFFICES ASSUME BusInv, NEW t \in Index, coproc[t].exe # "IDLE", genMealy_cmdval(t)
                 PROVE  Command(master[bus.ini]).cmd # "WRITE"
      BY DEF NoWriteWhileComputing
    <2>1. bus.fsm = "CMD" /\ bus.ini = t
      BY DEF genMealy_cmdval, CmdTo, BusInv, BusType
    <2>2. master[t].fsm \in Polling /\ master[t].fsm \in CmdStates
      BY <2>1 DEF BusInv, PairInv, Pair
    <2>3. master[t].fsm = "CMD_STATUS"
      BY <2>2 DEF Polling, CmdStates
    <2> QED
      BY <2>1, <2>3 DEF Command
  <1> QED
    BY <1>1, Invariance, PTL

\* What a master displays is the greatest common divisor of what it drew.
THEOREM DisplayCorrect == Spec => []DisplayedIsGcd
  <1>1. BusInv => DisplayedIsGcd
    BY DEF BusInv, PairInv, Pair, DisplayedIsGcd
  <1> QED
    BY <1>1, Invariance, PTL

\* The platform of tp2_parallel_top implements GcdService.
THEOREM Refinement == Spec => ImplementsService
  <1>1. Init => Service!Init
    BY DEF Init, Service!Init, Service!Start, view, Phase, MasterReset
  <1>2. BusInv /\ [Next]_vars => [Service!Next]_view
    <2> SUFFICES ASSUME BusInv, [Next]_vars PROVE [Service!Next]_view
      OBVIOUS
    <2>1. CASE UNCHANGED vars
      BY <2>1 DEF vars, view
    <2>2. CASE Next
      <3>1. Masters /\ Coprocs
        BY <2>2 DEF Next
      <3>2. DOMAIN view' = Index
        BY DEF view
      <3> QED
        BY <3>1, <3>2, PairStep DEF Service!Next
    <2> QED
      BY <2>1, <2>2
  <1> QED
    BY <1>1, <1>2, Invariance, PTL DEF Spec, ImplementsService, Service!Spec

=============================================================================
