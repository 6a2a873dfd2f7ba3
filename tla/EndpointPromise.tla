---------------------------- MODULE EndpointPromise ----------------------------
(***************************************************************************)
(* What an endpoint promises of the copies its broker hands it: a copy is  *)
(* acked for good only when its message was handled, rejected for good     *)
(* only when it is in the error destination, and with an inbox the work of *)
(* a message is committed once.                                            *)
(***************************************************************************)
EXTENDS Naturals

CONSTANTS Messages, Copies, MessageOf, Once

VARIABLES
  handled, \* how often the work of each message was done: not, once, or more
  buried,  \* the copies in the error destination
  fate     \* of each copy: owed, acked or rejected

vars == <<handled, buried, fate>>

Init == /\ handled = [m \in Messages |-> 0]
        /\ buried = {}
        /\ fate = [c \in Copies |-> "owed"]

Handle(m) == /\ Once => handled[m] = 0
             /\ handled' = [handled EXCEPT ![m] = IF @ = 0 THEN 1 ELSE 2]
             /\ UNCHANGED <<buried, fate>>

Bury(c) == /\ buried' = buried \cup {c}
           /\ UNCHANGED <<handled, fate>>

Close(c, end) == /\ fate[c] = "owed"
                 /\ end = "acked" => handled[MessageOf[c]] > 0
                 /\ end = "rejected" => c \in buried
                 /\ fate' = [fate EXCEPT ![c] = end]
                 /\ UNCHANGED <<handled, buried>>

Next == \/ \E m \in Messages : Handle(m)
        \/ \E c \in Copies : Bury(c) \/ Close(c, "acked") \/ Close(c, "rejected")

Spec == Init /\ [][Next]_vars

===============================================================================
