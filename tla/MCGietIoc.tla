---------------------------- MODULE MCGietIoc ----------------------------
(* Two tasks that share the processor which the IRQ of the block device   *)
(* interrupts.                                                            *)
EXTENDS GietIoc

CONSTANTS t1, t2, p1

MCProcOf == [t \in Task |-> p1]
=============================================================================
