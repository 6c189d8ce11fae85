-------------------------- MODULE StrategySettings --------------------------
(***************************************************************************)
(* The override of a strategy's parameters for one symbol, and the         *)
(* strategy's activation: two rows of PostgreSQL that calls read, change   *)
(* where the version is still the one they read, and read again for their  *)
(* answer.  Every statement is a step and commits by itself.  Of the       *)
(* parameters the model keeps the call that wrote them.                    *)
(***************************************************************************)
EXTENDS Integers

CONSTANTS
  Callers,      \* calls of the two services
  Seeded,       \* stands for the call that made what is there at the start
  Nobody

ASSUME SettingsAssumption ==
  Seeded \notin Callers /\ Nobody \notin Callers \cup {Seeded}

VARIABLES
  override,     \* the override's row: its version, who wrote it and who made it
  switch,       \* the activation's row
  change        \* the calls

settingsVars == <<override, switch, change>>

Override == [version : Nat, by : Callers \cup {Seeded}, made : Callers \cup {Seeded}]
NoOverride == [version |-> -1, by |-> Nobody, made |-> Nobody]
Switch == [version : Nat, enabled : BOOLEAN]
NoSwitch == [version |-> -1, enabled |-> FALSE]

Idle == [does |-> "nothing", step |-> "new", row |-> NoOverride, state |-> NoSwitch]
Change ==
  [does : {"nothing", "set", "remove", "enable", "disable", "getState"},
   step : {"new", "write", "read", "update", "answer", "done", "failed"},
   row : Override \cup {NoOverride}, state : Switch \cup {NoSwitch}]

SettingsTypeOK ==
  /\ override \in Override \cup {NoOverride}
  /\ switch \in Switch \cup {NoSwitch}
  /\ change \in [Callers -> Change]

SettingsInit ==
  /\ override \in {NoOverride, [version |-> 0, by |-> Seeded, made |-> Seeded]}
  /\ switch = NoSwitch
  /\ change = [c \in Callers |-> Idle]

Is(c, does, step) == change[c].does = does /\ change[c].step = step
Step(c, step) == change' = [change EXCEPT ![c].step = step]

-----------------------------------------------------------------------------
(***************************************************************************)
(* StrategySymbolOverrideService.set and remove.                           *)
(***************************************************************************)
\* find; there may be nothing to remove.
FindOverride(c, does) ==
  /\ change[c] = Idle
  /\ change' = [change EXCEPT ![c] =
       [Idle EXCEPT !.does = does, !.row = override,
          !.step = IF does = "remove" /\ override = NoOverride THEN "done" ELSE "write"]]
  /\ UNCHANGED <<override, switch>>

\* createMany skips a row that is there meanwhile; the caller hears of it.
CreateOverride(c) ==
  /\ Is(c, "set", "write") /\ change[c].row = NoOverride
  /\ IF override = NoOverride
       THEN override' = [version |-> 0, by |-> c, made |-> c] /\ Step(c, "answer")
       ELSE Step(c, "failed") /\ UNCHANGED override
  /\ UNCHANGED switch

\* Mutation: the row is changed whatever its version.
SomeVersion(c) == override # NoOverride

\* The condition of updateMany and deleteMany.
SameVersion(c) == override # NoOverride /\ override.version = change[c].row.version

UpdateOverride(c) ==
  /\ Is(c, "set", "write") /\ change[c].row # NoOverride
  /\ IF SameVersion(c)
       THEN /\ override' = [override EXCEPT !.version = @ + 1, !.by = c]
            /\ Step(c, "answer")
       ELSE Step(c, "failed") /\ UNCHANGED override
  /\ UNCHANGED switch

DeleteOverride(c) ==
  /\ Is(c, "remove", "write")
  /\ IF SameVersion(c) THEN override' = NoOverride /\ Step(c, "done")
                 ELSE Step(c, "failed") /\ UNCHANGED override
  /\ UNCHANGED switch

\* findUniqueOrThrow: the answer may be another's, or an error if it is gone.
AnswerOverride(c) ==
  /\ Is(c, "set", "answer")
  /\ Step(c, IF override = NoOverride THEN "failed" ELSE "done")
  /\ UNCHANGED <<override, switch>>

-----------------------------------------------------------------------------
(***************************************************************************)
(* StrategyActivationService.getState and setEnabled.                      *)
(***************************************************************************)
\* getOrCreate: createMany skips a row that is there.
CreateSwitch(c, does) ==
  /\ change[c] = Idle
  /\ change' = [change EXCEPT ![c] = [Idle EXCEPT !.does = does, !.step = "read"]]
  /\ switch' = IF switch = NoSwitch THEN [version |-> 0, enabled |-> TRUE] ELSE switch
  /\ UNCHANGED override

Wanted(c) == change[c].does = "enable"
Unchanged(c) == change[c].does = "getState" \/ switch.enabled = Wanted(c)

ReadSwitch(c) ==
  /\ change[c].step = "read"
  /\ change' = [change EXCEPT ![c].state = switch,
                              ![c].step = IF Unchanged(c) THEN "done" ELSE "update"]
  /\ UNCHANGED <<override, switch>>

SwitchCurrent(c) == switch.version = change[c].state.version

\* The row is never deleted: reading it again for the answer changes nothing.
UpdateSwitch(c) ==
  /\ change[c].step = "update"
  /\ IF SwitchCurrent(c)
       THEN /\ switch' = [version |-> switch.version + 1, enabled |-> Wanted(c)]
            /\ Step(c, "done")
       ELSE Step(c, "failed") /\ UNCHANGED switch
  /\ UNCHANGED override

SettingsNext ==
  \E c \in Callers :
    \/ \E does \in {"set", "remove"} : FindOverride(c, does)
    \/ CreateOverride(c) \/ UpdateOverride(c) \/ DeleteOverride(c) \/ AnswerOverride(c)
    \/ \E does \in {"enable", "disable", "getState"} : CreateSwitch(c, does)
    \/ ReadSwitch(c) \/ UpdateSwitch(c)

-----------------------------------------------------------------------------
\* No lost update: a call changes or deletes the very row that it read.  Only an
\* override that was deleted and made again in between escapes, whose versions
\* start over (upsert, delete and updateEnabled, with the version read before).
OverwritesWhatItRead ==
  [][\A c \in Callers :
       /\ change[c].step = "write" /\ change'[c].step \in {"answer", "done"} =>
            override = change[c].row \/ override.made # change[c].row.made
       /\ change[c].step = "update" /\ change'[c].step = "done" =>
            switch = change[c].state]_settingsVars
=============================================================================
