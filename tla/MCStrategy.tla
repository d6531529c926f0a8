------------------------------ MODULE MCStrategy ------------------------------
(* Strategy for TLC. *)
EXTENDS StrategyProperties, TLC

\* getFibonacci(1), getFibonacci(2), getFibonacci(3)
MCSafetyUnits == [i \in 1 .. MaxSafetyOrders |-> <<1, 2, 3>>[i]]

\* The threads of the pool are interchangeable.
Symmetry == Permutations(Threads)
===============================================================================
