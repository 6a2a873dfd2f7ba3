------------------------------ MODULE MCEndpoint ------------------------------
(* Small instances of Endpoint for TLC. *)
EXTENDS Endpoint, TLC

CONSTANTS m1, m2, c1, c2, c3, w1, w2

\* What the broker holds: one copy; two of one message; and one more of another.
OneCopy == c1 :> m1
Twice == c1 :> m1 @@ c2 :> m1
TwiceAndOnce == c1 :> m1 @@ c2 :> m1 @@ c3 :> m2

\* Every instance handles every message; or, during a deploy, the second
\* instance has no handler for the second message yet.
AllHandle == [w \in Workers |-> Messages]
Deploying == [w \in Workers |-> IF w = w1 THEN Messages ELSE Messages \ {m2}]

Alike == Permutations({c1, c2})
Symmetry == Permutations(Workers) \cup Alike

===============================================================================
