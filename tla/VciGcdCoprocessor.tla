-------------------------- MODULE VciGcdCoprocessor --------------------------
(***************************************************************************)
(* VciGcdCoprocessor (TP2): two automata in one component.  r_vci_fsm      *)
(* answers the bus while r_exe_fsm subtracts, and both write r_opa and     *)
(* r_opb: transition runs the execution automaton first, so that in a      *)
(* cycle where both write a register the bus wins.                         *)
(***************************************************************************)
EXTENDS Integers

VciRsp == {"RSP_OPA", "RSP_OPB", "RSP_START", "RSP_STATUS", "RSP_RESULT"}
VciFsm == VciRsp \cup {"GET_CMD"}
ExeFsm == {"IDLE", "COMPARE", "DECA", "DECB"}

\* The operand and identifier registers have no reset and start at 0, the
\* initial value of a SystemC signal.
CoprocReset ==
    [vci |-> "GET_CMD", exe |-> "IDLE", opa |-> 0, opb |-> 0, srcid |-> 0]

Compare(r) == CASE r.opa < r.opb -> "DECB"
                [] r.opb < r.opa -> "DECA"
                [] OTHER         -> "IDLE"

Started(r) == r.vci = "RSP_START"

Subtract(r) == IF r.exe = "DECA" THEN [r EXCEPT !.opa = @ - r.opb]
                                 ELSE [r EXCEPT !.opb = @ - r.opa]

\* The registers after the execution automaton's part of transition.
ExeStep(r) ==
    CASE r.exe = "IDLE"            -> [r EXCEPT !.exe = IF Started(r) THEN "COMPARE" ELSE @]
      [] r.exe = "COMPARE"         -> [r EXCEPT !.exe = Compare(r)]
      [] r.exe \in {"DECA", "DECB"} -> [Subtract(r) EXCEPT !.exe = "COMPARE"]

\* The rest of transition for a command c: e holds what the execution
\* automaton has already written.  An illegal command ends the simulation.
Decode(e, c, srcid) ==
    LET s == [e EXCEPT !.srcid = srcid]
    IN  CASE c.cmd = "READ" /\ c.cell = "OPA"    -> [s EXCEPT !.vci = "RSP_RESULT"]
          [] c.cmd = "READ" /\ c.cell = "STATUS" -> [s EXCEPT !.vci = "RSP_STATUS"]
          [] c.cmd = "WRITE" /\ c.cell = "OPA"   -> [s EXCEPT !.vci = "RSP_OPA", !.opa = c.wdata]
          [] c.cmd = "WRITE" /\ c.cell = "OPB"   -> [s EXCEPT !.vci = "RSP_OPB", !.opb = c.wdata]
          [] c.cmd = "WRITE" /\ c.cell = "START" -> [s EXCEPT !.vci = "RSP_START"]
          [] OTHER                               -> [s EXCEPT !.vci = "ILLEGAL"]

\* The registers after the edge, given the input signals of the VCI port.
CoprocTransition(r, cmdval, command, srcid, rspack) ==
    CASE r.vci = "GET_CMD" /\ cmdval -> Decode(ExeStep(r), command, srcid)
      [] r.vci \in VciRsp /\ rspack  -> [ExeStep(r) EXCEPT !.vci = "GET_CMD"]
      [] OTHER                       -> ExeStep(r)

-----------------------------------------------------------------------------
(* genMoore: the output signals.                                           *)

Cmdack(r) == r.vci = "GET_CMD"

Rspval(r) == r.vci \in VciRsp

Rdata(r) == CASE r.vci = "RSP_STATUS" -> IF r.exe = "IDLE" THEN 0 ELSE 1
              [] r.vci = "RSP_RESULT" -> r.opa
              [] OTHER                -> 0

=============================================================================
