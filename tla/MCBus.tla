--------------------------------- MODULE MCBus ---------------------------------
(* A small instance of Bus for TLC. *)
EXTENDS Bus

CONSTANTS n1, n2, c1, c2

===============================================================================
