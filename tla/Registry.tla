------------------------------ MODULE Registry ------------------------------
(***************************************************************************)
(* What the operator keeps in PostgreSQL about symbols and strategies: the *)
(* blocks of a symbol, the overrides and the activation of a strategy.     *)
(* They share no row, so that their calls do not affect each other.        *)
(***************************************************************************)
EXTENDS SymbolBlocks, StrategySettings

vars == <<blocksVars, settingsVars>>

Init == BlocksInit /\ SettingsInit

\* Bound: the calls of one module do not mix with those of the other, and the
\* tables of the one are empty while the calls of the other run.
Quiet ==
  /\ now = 0 /\ Entries = {} /\ \A s \in Symbols : block[s] = NoBlock
  /\ \A c \in Calls : call[c] = NotMade
Apart == Quiet \/ \A c \in Callers : change[c] = Idle

Next ==
  /\ \/ BlocksNext /\ UNCHANGED settingsVars
     \/ SettingsNext /\ UNCHANGED blocksVars
  /\ Apart'

Spec == Init /\ [][Next]_vars

TypeOK == BlocksTypeOK /\ SettingsTypeOK
=============================================================================
