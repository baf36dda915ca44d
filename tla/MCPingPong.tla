------------------------------ MODULE MCPingPong ------------------------------
(* Two clients.  Their messages arrive whole, with two sizes and any value  *)
(* of count; or in pieces, with one size, and clients that are killed; or   *)
(* everything at once goes wrong.                                           *)
EXTENDS PingPong, TLC

CONSTANTS a, b

Sizes(x, y) == a :> x @@ b :> y
Whole == {[size |-> Sizes(3, y), least |-> Sizes(3, y), count |-> k, room |-> 4, kills |-> {}] :
            y \in {3, 4}, k \in Ints}
Pieces == {[size |-> Sizes(3, 3), least |-> Sizes(2, 2), count |-> 3, room |-> 3, kills |-> {a}]}
Disorder == {[size |-> Sizes(3, 4), least |-> Sizes(x, 4), count |-> 4, room |-> 4, kills |-> {a}] :
               x \in 1 .. 2}
MCConfigs == Whole \cup Pieces \cup Disorder
Straddling == {[size |-> Sizes(3, 4), least |-> Sizes(2, 2), count |-> 3, room |-> 4, kills |-> {}]}
===============================================================================
