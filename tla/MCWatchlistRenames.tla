------------------------- MODULE MCWatchlistRenames -------------------------
(***************************************************************************)
(* A small instance of WatchlistRenames: a change of ticker, a second one  *)
(* that takes the ticker the first gave up, and two splits.  An entry is   *)
(* one of three calls: c1 stops in the middle of its second page, c2 with  *)
(* its first, which uses up its items, and c3 after its only page.         *)
(***************************************************************************)
EXTENDS WatchlistRenames, TLC

CONSTANTS c1, c2, c3, row1, row2, row3, fb, meta, tt

RankValue == [a \in Actions |-> IF a \in NameChanges THEN 11 ELSE 2]
OldValue == [a \in NameChanges |-> IF a = 1 THEN fb ELSE tt]
NewValue == [a \in NameChanges |-> IF a = 1 THEN meta ELSE fb]
PagesValue == (c1 :> 3) @@ (c2 :> 2) @@ (c3 :> 1)
ItemsValue == (c1 :> 3) @@ (c2 :> 2) @@ (c3 :> 4)
Mix(k1, k2, k3) == (c1 :> k1) @@ (c2 :> k2) @@ (c3 :> k3)
MixesValue ==
  {Mix("entry", "none", "none"), Mix("none", "entry", "none"), Mix("none", "none", "entry"),
   Mix("renames", "none", "none"), Mix("renames", "renames", "none")}
Symmetry == Permutations({row1, row2, row3})
=============================================================================
