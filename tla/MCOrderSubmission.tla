------------------------- MODULE MCOrderSubmission -------------------------
(***************************************************************************)
(* Small instances of OrderSubmission.                                     *)
(***************************************************************************)
EXTENDS OrderSubmission

CONSTANTS o1, o2, other

\* Every order is for the whole position, and one submission's may be replaced.
QuantityValue == [c \in Submissions \cup Foreign |-> 1]
ReplacedValue == [c \in Submissions \cup Foreign |-> IF c = o1 THEN 1 ELSE 0]
=============================================================================
