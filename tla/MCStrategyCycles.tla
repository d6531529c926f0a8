--------------------------- MODULE MCStrategyCycles ---------------------------
(* StrategyCycles for TLC. *)
EXTENDS StrategyCycles, TLC

\* getFibonacci(1), getFibonacci(2), getFibonacci(3)
MCSafetyUnits == [i \in 1 .. MaxSafetyOrders |-> <<1, 2, 3>>[i]]

\* The threads of the pool are interchangeable.
Symmetry == Permutations(Threads)

\* A cycle is explored no further once it is not clean: the next clean one
\* begins at rest like every other.
OnlyClean == clean
===============================================================================
