-------------------------- MODULE MCStrategyRunner --------------------------
(***************************************************************************)
(* Instances of StrategyRunner: up to three calls on two backend           *)
(* instances, one of which runs two of them.                               *)
(***************************************************************************)
EXTENDS StrategyRunner, TLC

CONSTANTS e1, e2, e3, i1, i2, s1, s2, t1, t2

MCInstanceOf == [e \in Evals |-> IF e = e3 THEN i2 ELSE i1]

\* Two instances, each with one of two calls.
MCApart == [e \in Evals |-> IF e = e2 THEN i2 ELSE i1]

\* The clock of i2 is ahead of the database clock and of that of i1.
MCSkew == [i \in Instances |-> IF i = i2 THEN 2 ELSE 0]

Symmetry == Permutations(Streams) \cup Permutations(Times)
=============================================================================
