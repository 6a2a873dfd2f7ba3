------------------------------ MODULE MCPartitions ------------------------------
(* Small instances of Partitions for TLC. *)
EXTENDS Partitions, TLC

CONSTANTS i1, i2, r1

\* One instance makes partitions of a day, the other of three.
DaysAndTriples == i1 :> (-1)..6 @@ i2 :> {-3, 0, 3, 6}

DropAndDetach == i1 :> "drop" @@ i2 :> "detach"

\* The migration's partitions: a day each, for the first days.
Migrated == {[from |-> d, to |-> d + 1] : d \in 0..1}

===============================================================================
