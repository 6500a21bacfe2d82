----------------------------- MODULE GcdService -----------------------------
(***************************************************************************)
(* What a GCD platform promises to the reader of its output: each master   *)
(* draws two operands, asks for their greatest common divisor and displays *)
(* it, for ever.  How the operands travel, and when, is left open; in one  *)
(* clock cycle any number of masters may move.                             *)
(***************************************************************************)
EXTENDS Gcd

CONSTANTS Client,       \* the masters
          Operand       \* the operands they may draw

VARIABLE client         \* client[i] = <<phase, first operand, second, result>>

Start == [phase |-> "draw", opa |-> 0, opb |-> 0, res |-> 0]

Init == client = [i \in Client |-> Start]

Draw(i) == /\ client[i].phase = "draw"
           /\ \E a, b \in Operand :
                client'[i] = [phase |-> "ask", opa |-> a, opb |-> b, res |-> 0]

Answer(i) == /\ client[i].phase = "ask"
             /\ \E g \in 1 .. client[i].opa :
                  /\ IsGcd(g, client[i].opa, client[i].opb)
                  /\ client'[i] = [phase |-> "display", opa |-> client[i].opa,
                                   opb |-> client[i].opb, res |-> g]

Display(i) == /\ client[i].phase = "display"
              /\ client'[i] = Start

Next == /\ DOMAIN client' = Client
        /\ \A i \in Client : \/ Draw(i)
                             \/ Answer(i)
                             \/ Display(i)
                             \/ client'[i] = client[i]

Spec == Init /\ [][Next]_client

=============================================================================
