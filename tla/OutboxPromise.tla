---------------------------- MODULE OutboxPromise -----------------------------
(***************************************************************************)
(* What the outbox promises of each message, whoever dispatches it and     *)
(* whatever fails: nothing reaches the broker unless its transaction       *)
(* committed, a row is done only once the broker has the message, and done *)
(* is for good, while a given-up row can be taken up again.                *)
(***************************************************************************)

CONSTANT Rows

VARIABLES
  outcome,   \* what became of each message
  delivered  \* the messages the broker has

vars == <<outcome, delivered>>

Outcomes == {"undecided", "void", "owed", "done", "given up"}

Init == /\ outcome = [r \in Rows |-> "undecided"]
        /\ delivered = {}

Becomes(r, from, to) == /\ outcome[r] = from
                        /\ outcome' = [outcome EXCEPT ![r] = to]
                        /\ UNCHANGED delivered

Decide(r) == Becomes(r, "undecided", "owed") \/ Becomes(r, "undecided", "void")

GiveUp(r) == Becomes(r, "owed", "given up")

TakeUp(r) == Becomes(r, "given up", "owed")

\* A given-up or done message may arrive too, once more or late.
Deliver(r) == /\ outcome[r] \in {"owed", "done", "given up"}
              /\ delivered' = delivered \cup {r}
              /\ UNCHANGED outcome

Finish(S) == /\ \A r \in S : outcome[r] = "owed" /\ r \in delivered
             /\ outcome' = [r \in Rows |-> IF r \in S THEN "done" ELSE outcome[r]]
             /\ UNCHANGED delivered

Next == \/ \E r \in Rows : Decide(r) \/ GiveUp(r) \/ TakeUp(r) \/ Deliver(r)
        \/ \E S \in SUBSET Rows : Finish(S)

Spec == Init /\ [][Next]_vars

===============================================================================
