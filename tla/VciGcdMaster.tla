---------------------------- MODULE VciGcdMaster ----------------------------
(***************************************************************************)
(* VciGcdMaster (TP2): the registers of the hardwired master, the Moore    *)
(* outputs genMoore gives them and the function transition computes at     *)
(* every rising edge.  r_iter and r_cycle, which are only displayed, and   *)
(* the constant VCI fields are left out.                                   *)
(***************************************************************************)
EXTENDS Integers

CmdStates == {"CMD_OPA", "CMD_OPB", "CMD_START", "CMD_STATUS", "CMD_RESULT"}
RspStates == {"RSP_OPA", "RSP_OPB", "RSP_START", "RSP_STATUS", "RSP_RESULT"}
MasterFsm == CmdStates \cup RspStates \cup {"RANDOM", "DISPLAY"}

MasterReset == [fsm |-> "RANDOM", opa |-> 0, opb |-> 0, res |-> 0]

\* Faulty variant: the computation is started before the second operand.
FollowSwapped ==
          [CMD_OPA    |-> "RSP_OPA",    RSP_OPA    |-> "CMD_START",
           CMD_START  |-> "RSP_START",  RSP_START  |-> "CMD_OPB",
           CMD_OPB    |-> "RSP_OPB",    RSP_OPB    |-> "CMD_STATUS",
           CMD_STATUS |-> "RSP_STATUS", RSP_STATUS |-> "CMD_RESULT",
           CMD_RESULT |-> "RSP_RESULT", RSP_RESULT |-> "DISPLAY"]

\* Where the automaton goes when the handshake it waits for takes place.
Follow == [CMD_OPA    |-> "RSP_OPA",    RSP_OPA    |-> "CMD_OPB",
           CMD_OPB    |-> "RSP_OPB",    RSP_OPB    |-> "CMD_START",
           CMD_START  |-> "RSP_START",  RSP_START  |-> "CMD_STATUS",
           CMD_STATUS |-> "RSP_STATUS", RSP_STATUS |-> "CMD_RESULT",
           CMD_RESULT |-> "RSP_RESULT", RSP_RESULT |-> "DISPLAY"]

\* Faulty variant: the operands are the raw values of rand(), zero included.
DrawRaw(r, rnd) == [r EXCEPT !.fsm = "CMD_OPA", !.opa = rnd[1], !.opb = rnd[2]]

\* rnd is the pair of values the two calls of rand() return.
Draw(r, rnd) ==
    [r EXCEPT !.fsm = "CMD_OPA", !.opa = rnd[1] + 1, !.opb = rnd[2] + 1]

Response(r, rdata) ==
    [r EXCEPT !.fsm = IF @ = "RSP_STATUS" /\ rdata # 0 THEN "CMD_STATUS"
                                                        ELSE Follow[@],
              !.res = IF r.fsm = "RSP_RESULT" THEN rdata ELSE @]

\* The registers after the edge, given the input signals of the VCI port.
MasterTransition(r, cmdack, rspval, rdata, rnd) ==
    CASE r.fsm = "RANDOM"                  -> Draw(r, rnd)
      [] r.fsm \in CmdStates /\ cmdack     -> [r EXCEPT !.fsm = Follow[@]]
      [] r.fsm \in RspStates /\ rspval     -> Response(r, rdata)
      [] r.fsm = "DISPLAY"                 -> [r EXCEPT !.fsm = "RANDOM"]
      [] OTHER                             -> r

-----------------------------------------------------------------------------
(* genMoore: the output signals.  A command names one of the four words of *)
(* the coprocessor's segment.                                              *)

Cmdval(r) == r.fsm \in CmdStates

Rspack(r) == r.fsm \notin CmdStates

Command(r) ==
    CASE r.fsm = "CMD_OPA"    -> [cmd |-> "WRITE", cell |-> "OPA", wdata |-> r.opa]
      [] r.fsm = "CMD_OPB"    -> [cmd |-> "WRITE", cell |-> "OPB", wdata |-> r.opb]
      [] r.fsm = "CMD_START"  -> [cmd |-> "WRITE", cell |-> "START", wdata |-> 0]
      [] r.fsm = "CMD_STATUS" -> [cmd |-> "READ", cell |-> "STATUS", wdata |-> 0]
      [] r.fsm = "CMD_RESULT" -> [cmd |-> "READ", cell |-> "OPA", wdata |-> 0]
      [] OTHER                -> [cmd |-> "NOP", cell |-> "OPA", wdata |-> 0]

-----------------------------------------------------------------------------
\* What the reader of the output sees of a master, for GcdService.
Phase(r) == CASE r.fsm = "RANDOM"  -> [phase |-> "draw", opa |-> 0, opb |-> 0, res |-> 0]
              [] r.fsm = "DISPLAY" -> [phase |-> "display", opa |-> r.opa,
                                       opb |-> r.opb, res |-> r.res]
              [] OTHER             -> [phase |-> "ask", opa |-> r.opa,
                                       opb |-> r.opb, res |-> 0]

=============================================================================
