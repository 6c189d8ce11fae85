--------------------------- MODULE RegistryProofs ---------------------------
(***************************************************************************)
(* Proofs of the properties of Registry, for any number of symbols, calls  *)
(* and callers: a block in force leaves only by its removal, a decision    *)
(* about a symbol held at some time of its evaluation, and a call          *)
(* overwrites what it read.                                                *)
(***************************************************************************)
EXTENDS Registry, TLAPS

-----------------------------------------------------------------------------
(***************************************************************************)
(* The settings: types, and what is known of the rows that were read.      *)
(***************************************************************************)
\* Whoever made an override that is there or was read has finished making it.
MakersFinished ==
  \A m \in Callers :
    override.made = m \/ (\E c \in Callers : change[c].row.made = m)
      => change[m].step \in {"answer", "done", "failed"}

\* Rows with one maker and one version are the same row.
OverrideVersions ==
  \A c \in Callers : override.made = change[c].row.made =>
    /\ change[c].row.version <= override.version
    /\ change[c].row.version = override.version => change[c].row = override

SwitchVersions ==
  \A c \in Callers :
    /\ change[c].state.version <= switch.version
    /\ change[c].state.version = switch.version => change[c].state = switch

\* A call is only where its method can be.
StepsOf ==
  \A c \in Callers :
    /\ change[c].step \in {"write", "answer"} => change[c].does \in {"set", "remove"}
    /\ change[c].step \in {"read", "update"} =>
         change[c].does \in {"enable", "disable", "getState"}

SettingsInv ==
  SettingsTypeOK /\ MakersFinished /\ OverrideVersions /\ SwitchVersions /\ StepsOf

LEMMA SettingsStart == SettingsInit => SettingsInv
<1> SUFFICES ASSUME SettingsInit PROVE SettingsInv
  OBVIOUS
<1> USE SettingsAssumption DEF SettingsInit
<1>1. override \in Override \cup {NoOverride} /\ switch = NoSwitch
  BY DEF Override, NoOverride, Switch, NoSwitch
<1>2. Idle \in Change
  BY DEF Idle, Change, Override, Switch
<1>3. SettingsTypeOK
  BY <1>1, <1>2 DEF SettingsTypeOK, Switch, NoSwitch
<1>4. MakersFinished
  BY DEF MakersFinished, Idle, NoOverride
<1>5. OverrideVersions /\ SwitchVersions
  <2> SUFFICES ASSUME NEW c \in Callers
               PROVE  /\ override.made = change[c].row.made =>
                           /\ change[c].row.version <= override.version
                           /\ change[c].row.version = override.version =>
                                change[c].row = override
                      /\ change[c].state.version <= switch.version
                      /\ change[c].state.version = switch.version =>
                           change[c].state = switch
    BY DEF OverrideVersions, SwitchVersions
  <2>1. change[c].row = NoOverride /\ change[c].state = NoSwitch
    BY DEF Idle
  <2>2. NoOverride.made = Nobody /\ NoOverride.version = -1 /\ NoSwitch.version = -1
    BY DEF NoOverride, NoSwitch
  <2>3. CASE override = NoOverride
    BY <2>1, <2>2, <2>3
  <2>4. CASE override = [version |-> 0, by |-> Seeded, made |-> Seeded]
    <3>1. override.made = Seeded
      BY <2>4
    <3> QED BY <2>1, <2>2, <3>1
  <2> QED BY <2>3, <2>4
<1>6. StepsOf
  BY DEF StepsOf, Idle
<1> QED BY <1>3, <1>4, <1>5, <1>6 DEF SettingsInv

\* One step of a caller: its type is kept.
LEMMA SettingsTypes == ASSUME SettingsTypeOK, SettingsNext PROVE SettingsTypeOK'
<1> USE SettingsAssumption
<1>1. override \in Override \cup {NoOverride} /\ switch \in Switch \cup {NoSwitch}
      /\ change \in [Callers -> Change]
  BY DEF SettingsTypeOK
<1>2. PICK c \in Callers :
    \/ \E does \in {"set", "remove"} : FindOverride(c, does)
    \/ CreateOverride(c) \/ UpdateOverride(c) \/ DeleteOverride(c) \/ AnswerOverride(c)
    \/ \E does \in {"enable", "disable", "getState"} : CreateSwitch(c, does)
    \/ ReadSwitch(c) \/ UpdateSwitch(c)
  BY DEF SettingsNext
<1>3. \A s \in {"answer", "done", "failed"} :
         Step(c, s) => change' \in [Callers -> Change]
  BY <1>1 DEF Step, Change
<1>4. CASE \E does \in {"set", "remove"} : FindOverride(c, does)
  <2>1. PICK does \in {"set", "remove"} : FindOverride(c, does)
    BY <1>4
  <2>2. [Idle EXCEPT !.does = does, !.row = override,
           !.step = IF does = "remove" /\ override = NoOverride THEN "done" ELSE "write"]
        \in Change
    BY <1>1 DEF Idle, Change
  <2> QED BY <1>1, <2>1, <2>2 DEF FindOverride, SettingsTypeOK
<1>5. CASE CreateOverride(c)
  <2>1. [version |-> 0, by |-> c, made |-> c] \in Override
    BY DEF Override
  <2> QED BY <1>1, <1>3, <1>5, <2>1 DEF CreateOverride, SettingsTypeOK
<1>6. CASE UpdateOverride(c)
  <2>1. ASSUME SameVersion(c)
        PROVE  [override EXCEPT !.version = @ + 1, !.by = c] \in Override
    <3>1. override \in Override
      BY <1>1, <2>1 DEF SameVersion
    <3> DEFINE newer == [override EXCEPT !.version = @ + 1]
    <3>2. newer \in Override
      BY <3>1 DEF Override
    <3> HIDE DEF newer
    <3>3. [newer EXCEPT !.by = c] \in Override
      BY <3>2 DEF Override
    <3> QED BY <3>3 DEF newer
  <2> QED BY <1>1, <1>3, <1>6, <2>1 DEF UpdateOverride, SettingsTypeOK
<1>7. CASE DeleteOverride(c)
  BY <1>1, <1>3, <1>7 DEF DeleteOverride, SettingsTypeOK
<1>8. CASE AnswerOverride(c)
  BY <1>1, <1>3, <1>8 DEF AnswerOverride, SettingsTypeOK
<1>9. CASE \E does \in {"enable", "disable", "getState"} : CreateSwitch(c, does)
  <2>1. PICK does \in {"enable", "disable", "getState"} : CreateSwitch(c, does)
    BY <1>9
  <2>2. [Idle EXCEPT !.does = does, !.step = "read"] \in Change
    BY DEF Idle, Change
  <2>3. [version |-> 0, enabled |-> TRUE] \in Switch
    BY DEF Switch
  <2> QED BY <1>1, <2>1, <2>2, <2>3 DEF CreateSwitch, SettingsTypeOK
<1>10. CASE ReadSwitch(c)
  <2>1. [change[c] EXCEPT !.state = switch,
           !.step = IF Unchanged(c) THEN "done" ELSE "update"] \in Change
    BY <1>1 DEF Change
  <2>2. change' = [change EXCEPT ![c] = [change[c] EXCEPT !.state = switch,
           !.step = IF Unchanged(c) THEN "done" ELSE "update"]]
    BY <1>1, <1>10 DEF ReadSwitch
  <2> QED BY <1>1, <1>10, <2>1, <2>2 DEF ReadSwitch, SettingsTypeOK
<1>11. CASE UpdateSwitch(c)
  <2>1. Wanted(c) \in BOOLEAN
    BY DEF Wanted
  <2>2. switch.version + 1 \in Nat
    BY <1>1 DEF Switch, NoSwitch
  <2>3. [version |-> switch.version + 1, enabled |-> Wanted(c)] \in Switch
    BY <2>1, <2>2 DEF Switch
  <2> QED BY <1>1, <1>3, <1>11, <2>3 DEF UpdateSwitch, SettingsTypeOK
<1> QED BY <1>2, <1>4, <1>5, <1>6, <1>7, <1>8, <1>9, <1>10, <1>11

\* What is known of the rows that were read survives every step.
LEMMA SettingsStep == ASSUME SettingsInv, SettingsNext PROVE SettingsInv'
<1> USE SettingsAssumption DEF SettingsInv
<1>1. override \in Override \cup {NoOverride} /\ switch \in Switch \cup {NoSwitch}
      /\ change \in [Callers -> Change]
  BY DEF SettingsTypeOK
<1>2. SettingsTypeOK'
  BY SettingsTypes
<1>3. PICK c \in Callers :
    \/ \E does \in {"set", "remove"} : FindOverride(c, does)
    \/ CreateOverride(c) \/ UpdateOverride(c) \/ DeleteOverride(c) \/ AnswerOverride(c)
    \/ \E does \in {"enable", "disable", "getState"} : CreateSwitch(c, does)
    \/ ReadSwitch(c) \/ UpdateSwitch(c)
  BY DEF SettingsNext
<1>4. \A s \in {"answer", "done", "failed"} : Step(c, s) =>
        /\ change'[c].does = change[c].does /\ change'[c].row = change[c].row
        /\ change'[c].state = change[c].state /\ change'[c].step = s
        /\ \A d \in Callers \ {c} : change'[d] = change[d]
  BY <1>1 DEF Step, Change
<1>5. CASE \E does \in {"set", "remove"} : FindOverride(c, does)
  <2>1. /\ change[c] = Idle /\ change'[c].row = override /\ change'[c].state = NoSwitch
        /\ change'[c].step \in {"write", "done"} /\ change'[c].does \in {"set", "remove"}
        /\ \A d \in Callers \ {c} : change'[d] = change[d]
        /\ override' = override /\ switch' = switch
    BY <1>1, <1>5 DEF FindOverride, Idle
  <2>2. change[c].step = "new" /\ change[c].state = NoSwitch
    BY <2>1 DEF Idle
  <2>3. MakersFinished'
    BY <2>1, <2>2 DEF MakersFinished
  <2>4. override.version \in Int
    BY <1>1 DEF Override, NoOverride
  <2>5. OverrideVersions' /\ SwitchVersions' /\ StepsOf'
    BY <2>1, <2>2, <2>4 DEF OverrideVersions, SwitchVersions, StepsOf
  <2> QED BY <1>2, <2>3, <2>5
<1>6. CASE CreateOverride(c)
  BY <1>1, <1>2, <1>4, <1>6 DEF CreateOverride, Is, NoOverride, MakersFinished,
                          OverrideVersions, SwitchVersions, StepsOf
<1>7. CASE UpdateOverride(c)
  <2>1. CASE SameVersion(c)
    <3>1. override \in Override
      BY <1>1, <2>1 DEF SameVersion
    <3>2. /\ override'.made = override.made /\ override'.version = override.version + 1
          /\ switch' = switch /\ Step(c, "answer")
      BY <1>7, <2>1, <3>1 DEF UpdateOverride, Override
    <3>3. \A d \in Callers : change'[d].row = change[d].row /\ change[d].row.version \in Int
      BY <1>1, <1>4, <3>2 DEF Change, Override, NoOverride
    <3>4. override.version \in Int
      BY <3>1 DEF Override
    <3>5. OverrideVersions'
      BY <3>2, <3>3, <3>4 DEF OverrideVersions
    <3> QED BY <1>2, <1>4, <1>7, <3>2, <3>5
            DEF UpdateOverride, Is, MakersFinished, SwitchVersions, StepsOf
  <2>2. CASE ~SameVersion(c)
    BY <1>1, <1>2, <1>4, <1>7, <2>2 DEF UpdateOverride, Is, MakersFinished,
                            OverrideVersions, SwitchVersions, StepsOf
  <2> QED BY <2>1, <2>2
<1>8. CASE DeleteOverride(c)
  <2>1. CASE SameVersion(c)
    <3>1. override' = NoOverride /\ switch' = switch /\ Step(c, "done")
      BY <1>8, <2>1 DEF DeleteOverride
    <3>2. \A d \in Callers : change'[d].row = change[d].row
      BY <1>1, <1>4, <3>1
    <3>3. \A d \in Callers : change[d].row.made = Nobody => change[d].row = NoOverride
      BY <1>1 DEF Change, Override
    <3>4. OverrideVersions'
      BY <3>1, <3>2, <3>3 DEF OverrideVersions, NoOverride
    <3>5. MakersFinished'
      BY <1>4, <1>8, <3>1 DEF DeleteOverride, Is, MakersFinished, NoOverride
    <3> QED BY <1>2, <1>4, <1>8, <3>1, <3>4, <3>5
            DEF DeleteOverride, Is, SwitchVersions, StepsOf
  <2>2. CASE ~SameVersion(c)
    BY <1>1, <1>2, <1>4, <1>8, <2>2 DEF DeleteOverride, Is, MakersFinished,
                            OverrideVersions, SwitchVersions, StepsOf
  <2> QED BY <2>1, <2>2
<1>9. CASE AnswerOverride(c)
  BY <1>1, <1>2, <1>4, <1>9 DEF AnswerOverride, Is, MakersFinished,
                          OverrideVersions, SwitchVersions, StepsOf
<1>10. CASE \E does \in {"enable", "disable", "getState"} : CreateSwitch(c, does)
  <2>1. /\ change[c] = Idle /\ change'[c].row = NoOverride /\ change'[c].state = NoSwitch
        /\ change'[c].step = "read" /\ change'[c].does \in {"enable", "disable", "getState"}
        /\ \A d \in Callers \ {c} : change'[d] = change[d]
        /\ override' = override
        /\ switch' = IF switch = NoSwitch THEN [version |-> 0, enabled |-> TRUE] ELSE switch
    BY <1>1, <1>10 DEF CreateSwitch, Idle
  <2>2. change[c].step = "new" /\ change[c].row = NoOverride /\ change[c].state = NoSwitch
    BY <2>1 DEF Idle
  <2>3. MakersFinished' /\ StepsOf'
    BY <2>1, <2>2 DEF MakersFinished, NoOverride, StepsOf
  <2>4. OverrideVersions'
    BY <2>1, <2>2 DEF OverrideVersions
  <2>5. NoSwitch.version = -1 /\ switch.version \in Int
    BY <1>1 DEF Switch, NoSwitch
  <2>6. \A d \in Callers : change'[d].state = change[d].state
                         /\ change[d].state.version \in Int
    BY <1>1, <2>1, <2>2 DEF Change, Switch, NoSwitch
  <2>7. SwitchVersions'
    <3>1. CASE switch = NoSwitch
      BY <2>1, <2>5, <2>6, <3>1 DEF SwitchVersions
    <3>2. CASE switch # NoSwitch
      BY <2>1, <2>6, <3>2 DEF SwitchVersions
    <3> QED BY <3>1, <3>2
  <2> QED BY <1>2, <2>3, <2>4, <2>7
<1>11. CASE ReadSwitch(c)
  BY <1>1, <1>2, <1>11 DEF ReadSwitch, MakersFinished, OverrideVersions,
                          SwitchVersions, StepsOf, Change
<1>12. CASE UpdateSwitch(c)
  <2>1. CASE SwitchCurrent(c)
    <3>1. override' = override /\ Step(c, "done") /\ switch'.version = switch.version + 1
      BY <1>12, <2>1 DEF UpdateSwitch
    <3>2. \A d \in Callers : change'[d].state = change[d].state
                           /\ change[d].state.version \in Int
      BY <1>1, <1>4, <3>1 DEF Change, Switch, NoSwitch
    <3>3. switch.version \in Int
      BY <1>1 DEF Switch, NoSwitch
    <3>4. SwitchVersions'
      BY <3>1, <3>2, <3>3 DEF SwitchVersions
    <3> QED BY <1>2, <1>4, <1>12, <3>1, <3>4
            DEF UpdateSwitch, MakersFinished, OverrideVersions, StepsOf
  <2>2. CASE ~SwitchCurrent(c)
    BY <1>1, <1>2, <1>4, <1>12, <2>2 DEF UpdateSwitch, MakersFinished,
                            OverrideVersions, SwitchVersions, StepsOf
  <2> QED BY <2>1, <2>2
<1> QED BY <1>3, <1>5, <1>6, <1>7, <1>8, <1>9, <1>10, <1>11, <1>12

LEMMA SettingsUnchanged == SettingsInv /\ UNCHANGED settingsVars => SettingsInv'
  BY DEF SettingsInv, settingsVars, SettingsTypeOK, MakersFinished, OverrideVersions,
         SwitchVersions, StepsOf

LEMMA SettingsInvariant == Spec => []SettingsInv
<1>1. Init => SettingsInv
  BY SettingsStart DEF Init
<1>2. SettingsInv /\ [Next]_vars => SettingsInv'
  BY SettingsStep, SettingsUnchanged DEF Next, vars, settingsVars
<1> QED BY <1>1, <1>2, PTL DEF Spec

\* No lost update: a call of a strategy's override or activation overwrites the
\* very row that it read, or one that was deleted and made again since.
THEOREM NoLostUpdate == Spec => OverwritesWhatItRead
<1> DEFINE Reads(c) ==
      /\ change[c].step = "write" /\ change'[c].step \in {"answer", "done"} =>
           override = change[c].row \/ override.made # change[c].row.made
      /\ change[c].step = "update" /\ change'[c].step = "done" => switch = change[c].state
<1>1. ASSUME SettingsInv, SettingsNext, NEW c \in Callers PROVE Reads(c)
  <2> USE <1>1
  <2>1. change \in [Callers -> Change]
    BY DEF SettingsInv, SettingsTypeOK
  <2>2. PICK d \in Callers :
      \/ \E does \in {"set", "remove"} : FindOverride(d, does)
      \/ CreateOverride(d) \/ UpdateOverride(d) \/ DeleteOverride(d) \/ AnswerOverride(d)
      \/ \E does \in {"enable", "disable", "getState"} : CreateSwitch(d, does)
      \/ ReadSwitch(d) \/ UpdateSwitch(d)
    BY DEF SettingsNext
  <2>3. Idle.step = "new"
    BY DEF Idle
  <2>4. \A s \in {"answer", "done", "failed"} : Step(d, s) =>
          change'[d].step = s /\ \A x \in Callers \ {d} : change'[x] = change[x]
    BY <2>1 DEF Step, Change
  <2>5. CASE \E does \in {"set", "remove"} : FindOverride(d, does)
    BY <2>1, <2>3, <2>5 DEF FindOverride
  <2>6. CASE CreateOverride(d) \/ AnswerOverride(d)
    BY <2>1, <2>4, <2>6 DEF CreateOverride, AnswerOverride, Is
  <2>7. CASE UpdateOverride(d) \/ DeleteOverride(d)
    BY <2>1, <2>4, <2>7 DEF UpdateOverride, DeleteOverride, SameVersion, Is, SettingsInv,
                            OverrideVersions
  <2>8. CASE \E does \in {"enable", "disable", "getState"} : CreateSwitch(d, does)
    BY <2>1, <2>3, <2>8 DEF CreateSwitch
  <2>9. CASE ReadSwitch(d)
    BY <2>1, <2>9 DEF ReadSwitch
  <2>10. CASE UpdateSwitch(d)
    BY <2>1, <2>4, <2>10 DEF UpdateSwitch, SwitchCurrent, SettingsInv, SwitchVersions
  <2> QED BY <2>2, <2>5, <2>6, <2>7, <2>8, <2>9, <2>10
<1>2. SettingsInv /\ [Next]_vars => [\A c \in Callers : Reads(c)]_settingsVars
  BY <1>1 DEF Next, vars
<1> QED BY <1>2, SettingsInvariant, PTL DEF Spec, OverwritesWhatItRead

-----------------------------------------------------------------------------
(***************************************************************************)
(* The blocks: types, and what a call may be.                              *)
(***************************************************************************)
Asked == {"blacklist", "whitelist", "entry", "tradable", "suspension", "temporary"}

CallSound(r) ==
  /\ r.does = "evaluate" => r.step \in Asked \cup {"done"}
  /\ r.does \in {"add", "remove", "block", "unblock", "evaluate"} => r.symbol \in Symbols
  /\ r.does \in {"add", "remove"} => r.list \in Lists
  /\ r.does \in {"clean", "evaluate"} => r.time <= now
  /\ r.answer # "none" => r.does = "evaluate" /\ r.step = "done"

CallsSound == \A c \in Calls : CallSound(call[c])

BlocksSound == BlocksTypeOK /\ CallsSound

\* A step of a call that does not evaluate.
Moves(c) ==
  \E r \in Call : /\ call' = [call EXCEPT ![c] = r] /\ now' = now
                  /\ CallSound(r) /\ r.answer = "none" /\ r.does # "evaluate"
                  /\ call[c].answer = "none" /\ call[c].does # "evaluate"

LEMMA BlocksStart == BlocksInit => BlocksSound
<1> SUFFICES ASSUME BlocksInit PROVE BlocksSound
  OBVIOUS
<1> USE BlocksAssumption DEF BlocksInit
<1>1. NotMade \in Call /\ CallSound(NotMade)
  BY DEF NotMade, Call, CallSound
<1>2. listed \in [Lists -> [Symbols -> Ids \cup {None}]]
  BY DEF Ids
<1>3. asset \in [Symbols -> Asset]
  OBVIOUS
<1>4. block \in [Symbols -> [id : Ids, expires : Nat] \cup {NoBlock}]
  <2>1. [id : {Initial}, expires : 0..MaxNow + 1] \subseteq [id : Ids, expires : Nat]
    BY DEF Ids
  <2> QED BY <2>1
<1> QED BY <1>1, <1>2, <1>3, <1>4 DEF BlocksSound, BlocksTypeOK, CallsSound

\* A call that begins, but no evaluation.
LEMMA Begins ==
  ASSUME NEW c \in Calls, now' = now, call[c] = NotMade, NEW r \in Call, CallSound(r),
         r.answer = "none", r.does # "evaluate", call' = [call EXCEPT ![c] = r]
  PROVE  Moves(c)
<1>1. call[c].answer = "none" /\ call[c].does # "evaluate"
  BY DEF NotMade
<1> QED BY <1>1 DEF Moves

LEMMA MadeMoves ==
  ASSUME NEW c \in Calls, now' = now, now \in Nat,
         NEW does \in {"add", "clean", "validate"}, NEW l \in Lists \cup {"none"},
         does = "add" => l \in Lists, NEW s \in Symbols, NEW step \in {"create", "done"},
         Made(c, does, l, s, step)
  PROVE  Moves(c)
<1> DEFINE r == [NotMade EXCEPT !.does = does, !.list = l, !.symbol = s, !.step = step]
<1>1. /\ r.does = does /\ r.list = l /\ r.symbol = s /\ r.step = step /\ r.time = 0
      /\ r.answer = "none" /\ r \in Call
  BY DEF NotMade, Call
<1>2. call[c] = NotMade /\ call' = [call EXCEPT ![c] = r]
  BY DEF Made
<1> HIDE DEF r
<1>3. CallSound(r)
  BY <1>1 DEF CallSound
<1> QED BY <1>1, <1>2, <1>3, Begins

LEMMA FoundMoves ==
  ASSUME NEW c \in Calls, now' = now, NEW does \in {"remove", "unblock"},
         NEW l \in Lists \cup {"none"}, does = "remove" => l \in Lists, NEW s \in Symbols,
         NEW row \in Ids \cup {None}, Found(c, does, l, s, row)
  PROVE  Moves(c)
<1> DEFINE r == [NotMade EXCEPT !.does = does, !.list = l, !.symbol = s, !.row = row,
                                !.step = IF row = None THEN "failed" ELSE "delete"]
<1>1. /\ r.does = does /\ r.list = l /\ r.symbol = s /\ r.step \in {"failed", "delete"}
      /\ r.answer = "none" /\ r \in Call
  BY DEF NotMade, Call
<1>2. call[c] = NotMade /\ call' = [call EXCEPT ![c] = r]
  BY DEF Found
<1> HIDE DEF r
<1>3. CallSound(r)
  BY <1>1 DEF CallSound
<1> QED BY <1>1, <1>2, <1>3, Begins

\* A call that ends, but no evaluation.
LEMMA Ends ==
  ASSUME BlocksSound, NEW c \in Calls, now' = now, NEW ok \in BOOLEAN, Finish(c, ok),
         call[c].does \in {"add", "remove", "block", "unblock", "clean"}
  PROVE  Moves(c)
<1> DEFINE r == [call[c] EXCEPT !.step = IF ok THEN "done" ELSE "failed"]
<1>1. call \in [Calls -> Call] /\ CallSound(call[c])
  BY DEF BlocksSound, BlocksTypeOK, CallsSound
<1>2. r \in Call /\ r.does = call[c].does /\ r.symbol = call[c].symbol
      /\ r.list = call[c].list /\ r.time = call[c].time /\ r.answer = call[c].answer
  BY <1>1 DEF Call
<1>3. call' = [call EXCEPT ![c] = r]
  BY <1>1 DEF Finish
<1> HIDE DEF r
<1>4. call[c].answer = "none" /\ call[c].does # "evaluate"
  BY <1>1 DEF CallSound
<1>5. CallSound(r)
  BY <1>1, <1>2, <1>4 DEF CallSound
<1> QED BY <1>2, <1>3, <1>4, <1>5 DEF Moves

\* What such a step keeps.
LEMMA MovesKeep ==
  ASSUME BlocksSound, NEW c \in Calls, Moves(c)
  PROVE  /\ call' \in [Calls -> Call] /\ CallsSound'
         /\ \A d \in Calls : call'[d] = call[d] \/
              /\ call[d].does # "evaluate" /\ call'[d].does # "evaluate"
              /\ call[d].answer = "none" /\ call'[d].answer = "none"
<1>1. call \in [Calls -> Call] /\ CallsSound
  BY DEF BlocksSound, BlocksTypeOK
<1>2. PICK r \in Call : /\ call' = [call EXCEPT ![c] = r] /\ now' = now
                        /\ CallSound(r) /\ r.answer = "none" /\ r.does # "evaluate"
                        /\ call[c].answer = "none" /\ call[c].does # "evaluate"
  BY DEF Moves
<1>3. call'[c] = r /\ \A d \in Calls \ {c} : call'[d] = call[d]
  BY <1>1, <1>2
<1>4. CallsSound'
  BY <1>1, <1>2, <1>3 DEF CallsSound, CallSound
<1> QED BY <1>1, <1>2, <1>3, <1>4

\* The steps of BlocksNext: the clock, an evaluation, or a call of another kind.
Evaluates(c) ==
  (\E s \in Evaluated : Evaluate(c, s)) \/ CountWhitelist(c) \/ Read(c)

Others(c) ==
  \/ \E l \in Lists, s \in Symbols : Add(c, l, s) \/ Remove(c, l, s)
  \/ \E s \in Symbols : \/ \E a \in Asset : Validate(c, s, a)
                        \/ \E t \in Nat : Block(c, s, t)
                        \/ Unblock(c, s) \/ CleanSymbol(c, s)
  \/ ListExpired(c) \/ Create(c) \/ Delete(c) \/ Upsert(c) \/ DeleteBlock(c)
  \/ DeleteExpired(c)

LEMMA BlocksSteps ==
  ASSUME BlocksNext
  PROVE  Remember /\ (Tick \/ \E c \in Calls : Evaluates(c) \/ Others(c))
<1> USE BlocksAssumption
<1>1. 1..MaxNow + 1 \subseteq Nat /\ Lists = {"blacklist", "whitelist"}
  BY DEF Lists
<1>2. ASSUME NEW c \in Calls, NEW s \in Symbols, Edit(c, s) PROVE Others(c)
  BY <1>1, <1>2 DEF Edit, Others
<1>3. ASSUME NEW c \in Calls, Create(c) \/ Delete(c) \/ Upsert(c) \/ DeleteBlock(c)
               \/ DeleteExpired(c) \/ CountWhitelist(c) \/ Read(c)
      PROVE  Evaluates(c) \/ Others(c)
  BY <1>3 DEF Evaluates, Others
<1>4. ASSUME NEW c \in Calls, ListExpired(c) PROVE Others(c)
  BY <1>4 DEF Others
<1>5. ASSUME NEW c \in Calls, NEW s \in Evaluated, Evaluate(c, s) PROVE Evaluates(c)
  BY <1>5 DEF Evaluates
<1> QED BY <1>2, <1>3, <1>4, <1>5 DEF BlocksNext

\* A call of another kind moves as it may, and keeps the types of the tables.
LEMMA OthersMove ==
  ASSUME BlocksSound, NEW c \in Calls, Others(c)
  PROVE  /\ Moves(c) /\ now' = now
         /\ listed' \in [Lists -> [Symbols -> Ids \cup {None}]]
         /\ asset' \in [Symbols -> Asset]
         /\ block' \in [Symbols -> [id : Ids, expires : Nat] \cup {NoBlock}]
<1> USE BlocksAssumption
<1>1. /\ listed \in [Lists -> [Symbols -> Ids \cup {None}]] /\ asset \in [Symbols -> Asset]
      /\ block \in [Symbols -> [id : Ids, expires : Nat] \cup {NoBlock}]
      /\ call \in [Calls -> Call] /\ now \in Nat /\ c \in Ids
  BY DEF BlocksSound, BlocksTypeOK, Ids
<1>2. CallSound(call[c])
  BY DEF BlocksSound, CallsSound
<1>3. \A s \in Symbols : block[s].id \in Ids \cup {None}
  BY <1>1 DEF NoBlock
<1>4. CASE \E l \in Lists, s \in Symbols : Add(c, l, s)
  <2>1. PICK l \in Lists, s \in Symbols : Add(c, l, s)
    BY <1>4
  <2>2. Moves(c)
    BY <1>1, <2>1, MadeMoves DEF Add
  <2> QED BY <1>1, <2>1, <2>2 DEF Add
<1>5. CASE \E l \in Lists, s \in Symbols : Remove(c, l, s)
  <2>1. PICK l \in Lists, s \in Symbols : Remove(c, l, s)
    BY <1>5
  <2>2. Moves(c)
    BY <1>1, <2>1, FoundMoves DEF Remove
  <2> QED BY <1>1, <2>1, <2>2 DEF Remove
<1>6. CASE \E s \in Symbols : \E a \in Asset : Validate(c, s, a)
  <2>1. PICK s \in Symbols, a \in Asset : Validate(c, s, a)
    BY <1>6
  <2>2. Moves(c)
    BY <1>1, <2>1, MadeMoves DEF Validate
  <2> QED BY <1>1, <2>1, <2>2 DEF Validate
<1>7. CASE \E s \in Symbols : \E t \in Nat : Block(c, s, t)
  <2>1. PICK s \in Symbols, t \in Nat : Block(c, s, t)
    BY <1>7
  <2> DEFINE r == [NotMade EXCEPT !.does = "block", !.symbol = s, !.time = t,
                                  !.step = "upsert"]
  <2>2. /\ r.does = "block" /\ r.symbol = s /\ r.step = "upsert" /\ r.answer = "none"
        /\ r \in Call
    BY DEF NotMade, Call
  <2>3. /\ call[c] = NotMade /\ call' = [call EXCEPT ![c] = r]
        /\ now' = now /\ UNCHANGED <<listed, asset, block>>
    BY <2>1 DEF Block
  <2> HIDE DEF r
  <2>4. CallSound(r)
    BY <2>2 DEF CallSound
  <2> QED BY <1>1, <2>2, <2>3, <2>4, Begins
<1>8. CASE \E s \in Symbols : Unblock(c, s)
  <2>1. PICK s \in Symbols : Unblock(c, s)
    BY <1>8
  <2>2. Moves(c)
    BY <1>1, <1>3, <2>1, FoundMoves DEF Unblock
  <2> QED BY <1>1, <2>1, <2>2 DEF Unblock
<1>9. \A S : Without(S) \in [Symbols -> [id : Ids, expires : Nat] \cup {NoBlock}]
  BY <1>1 DEF Without
<1>10. CASE \E s \in Symbols : CleanSymbol(c, s)
  <2>1. PICK s \in Symbols : CleanSymbol(c, s)
    BY <1>10
  <2>2. Moves(c)
    BY <1>1, <2>1, MadeMoves DEF CleanSymbol
  <2> QED BY <1>1, <1>9, <2>1, <2>2 DEF CleanSymbol
<1>11. CASE ListExpired(c)
  <2> DEFINE expired == {<<s, block[s].id>> : s \in {x \in Symbols : ExpiredAt(x, now)}}
  <2>1. expired \in SUBSET (Symbols \X Ids)
    BY <1>1 DEF ExpiredAt
  <2> DEFINE r == [NotMade EXCEPT !.does = "clean", !.time = now, !.expired = expired,
                                  !.step = IF expired = {} THEN "done" ELSE "delete"]
  <2>2. now' = now /\ UNCHANGED <<listed, asset, block>> /\ call[c] = NotMade
        /\ call' = [call EXCEPT ![c] = r]
    BY <1>11 DEF ListExpired
  <2> HIDE DEF expired
  <2>3. /\ r.does = "clean" /\ r.step \in {"done", "delete"} /\ r.time = now
        /\ r.answer = "none" /\ r \in Call
    BY <1>1, <2>1 DEF NotMade, Call
  <2> HIDE DEF r
  <2>4. CallSound(r)
    BY <1>1, <2>3 DEF CallSound
  <2> QED BY <1>1, <2>2, <2>3, <2>4, Begins
<1>12. CASE Create(c) \/ Delete(c)
  <2>1. Moves(c) /\ now' = now
    <3>1. \A x, y : (x = y) \in BOOLEAN
      OBVIOUS
    <3> QED BY <1>12, <3>1, Ends DEF Create, Delete, At
  <2>2. call[c].list \in Lists /\ call[c].symbol \in Symbols
    BY <1>2, <1>12 DEF CallSound, Create, Delete, At
  <2>3. \A l \in Lists, s \in Symbols, x \in Ids \cup {None} :
          [listed EXCEPT ![l][s] = x] \in [Lists -> [Symbols -> Ids \cup {None}]]
    BY <1>1
  <2>4. CASE Create(c)
    BY <1>1, <2>1, <2>2, <2>3, <2>4 DEF Create
  <2>5. CASE Delete(c)
    BY <1>1, <2>1, <2>2, <2>3, <2>5 DEF Delete
  <2> QED BY <1>12, <2>4, <2>5
<1>13. CASE Upsert(c)
  <2>1. Moves(c) /\ now' = now
    BY <1>13, Ends DEF Upsert, At
  <2>2. call[c].symbol \in Symbols /\ call[c].time \in Nat
    BY <1>1, <1>2, <1>13 DEF CallSound, Call, Upsert, At
  <2>3. [id |-> IF block[call[c].symbol] = NoBlock THEN c ELSE block[call[c].symbol].id,
         expires |-> call[c].time] \in [id : Ids, expires : Nat]
    BY <1>1, <2>2
  <2> QED BY <1>1, <1>13, <2>1, <2>2, <2>3 DEF Upsert
<1>14. CASE DeleteBlock(c)
  <2>1. Moves(c) /\ now' = now
    <3>1. (block[call[c].symbol].id = call[c].row) \in BOOLEAN
      OBVIOUS
    <3> QED BY <1>14, <3>1, Ends DEF DeleteBlock, At
  <2> QED BY <1>1, <1>14, <2>1 DEF DeleteBlock
<1>15. CASE DeleteExpired(c)
  <2>1. Moves(c) /\ now' = now
    <3>1. (Cardinality(Deletable(c)) = Cardinality(call[c].expired)) \in BOOLEAN
      OBVIOUS
    <3> QED BY <1>15, <3>1, Ends DEF DeleteExpired, At
  <2> QED BY <1>1, <1>9, <1>15, <2>1 DEF DeleteExpired
<1> QED BY <1>4, <1>5, <1>6, <1>7, <1>8, <1>10, <1>11, <1>12, <1>13, <1>14, <1>15 DEF Others

\* A call that is replaced by a sound one.
LEMMA Replaced ==
  ASSUME BlocksSound, NEW c \in Calls, NEW r \in Call, CallSound(r), now' = now,
         call' = [call EXCEPT ![c] = r]
  PROVE  /\ call' \in [Calls -> Call] /\ CallsSound'
         /\ \A d \in Calls \ {c} : call'[d] = call[d]
<1>1. call \in [Calls -> Call] /\ CallsSound
  BY DEF BlocksSound, BlocksTypeOK
<1>2. call'[c] = r /\ \A d \in Calls \ {c} : call'[d] = call[d]
  BY <1>1
<1>3. CallsSound'
  BY <1>1, <1>2 DEF CallsSound, CallSound
<1> QED BY <1>1, <1>2, <1>3

\* An evaluation moves by itself, and changes no table.
LEMMA EvaluatesMove ==
  ASSUME BlocksSound, NEW c \in Calls, Evaluates(c)
  PROVE  /\ call' \in [Calls -> Call] /\ CallsSound'
         /\ \A d \in Calls \ {c} : call'[d] = call[d]
         /\ UNCHANGED <<now, listed, asset, block>>
<1> USE BlocksAssumption
<1>1. call \in [Calls -> Call] /\ now \in Nat /\ CallsSound
  BY DEF BlocksSound, BlocksTypeOK
<1>2. CASE \E s \in Evaluated : Evaluate(c, s)
  <2>1. PICK s \in Evaluated : Evaluate(c, s)
    BY <1>2
  <2> DEFINE r == [NotMade EXCEPT !.does = "evaluate", !.symbol = s, !.time = now,
                                  !.step = "blacklist"]
  <2>2. /\ r.does = "evaluate" /\ r.symbol = s /\ r.time = now /\ r.step = "blacklist"
        /\ r.answer = "none" /\ r \in Call
    BY <1>1 DEF NotMade, Call, Sources, Lists
  <2>3. call' = [call EXCEPT ![c] = r] /\ UNCHANGED <<now, listed, asset, block>>
    BY <2>1 DEF Evaluate
  <2> HIDE DEF r
  <2>4. CallSound(r)
    BY <1>1, <2>2 DEF CallSound, Asked
  <2> QED BY <2>2, <2>3, <2>4, Replaced
<1>3. CASE CountWhitelist(c)
  <2>1. CallSound(call[c]) /\ call[c].does = "evaluate" /\ call[c].step = "whitelist"
    BY <1>1, <1>3 DEF CallsSound, CountWhitelist, At
  <2>2. PICK step \in {"entry", "tradable"} : call' = [call EXCEPT ![c].step = step]
    BY <1>3 DEF CountWhitelist
  <2> DEFINE r == [call[c] EXCEPT !.step = step]
  <2>3. /\ r \in Call /\ r.does = "evaluate" /\ r.symbol = call[c].symbol
        /\ r.time = call[c].time /\ r.answer = call[c].answer /\ r.step = step
    BY <1>1, <2>1, SMTT(20) DEF Call, Sources
  <2>4. call' = [call EXCEPT ![c] = r] /\ UNCHANGED <<now, listed, asset, block>>
    BY <1>1, <1>3, <2>2 DEF CountWhitelist
  <2> HIDE DEF r
  <2>5. CallSound(r)
    BY <2>1, <2>3 DEF CallSound, Asked
  <2> QED BY <2>3, <2>4, <2>5, Replaced
<1>4. CASE Read(c)
  <2>1. /\ CallSound(call[c]) /\ call[c].does = "evaluate"
        /\ call[c].step \in Asked \ {"whitelist"}
    BY <1>1, <1>4 DEF CallsSound, CallSound, Read, Reading
  <2>2. PICK step \in Asked \cup {"done"}, answer \in Sources \cup {"allowed", "none"} :
          /\ call' = [call EXCEPT ![c].step = step, ![c].answer = answer]
          /\ answer # "none" => step = "done"
    <3>1. NextSource(call[c].step) \in Asked \cup {"done"}
      BY <2>1 DEF NextSource, Asked
    <3>2. (IF call[c].step = "entry" THEN "whitelist" ELSE call[c].step) \in Sources
      BY <2>1 DEF Asked, Sources, Lists
    <3>3. CASE Refuses(c)
      BY <1>4, <3>2, <3>3 DEF Read
    <3>4. CASE ~Refuses(c)
      BY <1>4, <3>1, <3>4 DEF Read
    <3> QED BY <3>3, <3>4
  <2> DEFINE r == [call[c] EXCEPT !.step = step, !.answer = answer]
  <2>3. /\ r \in Call /\ r.does = "evaluate" /\ r.symbol = call[c].symbol
        /\ r.time = call[c].time /\ r.answer = answer /\ r.step = step
    <3> DEFINE later == [call[c] EXCEPT !.step = step]
    <3>1. /\ later \in Call /\ later.does = "evaluate" /\ later.symbol = call[c].symbol
          /\ later.time = call[c].time /\ later.step = step
      BY <1>1, <2>1 DEF Call, Sources, Lists, Asked
    <3> HIDE DEF later
    <3>2. /\ [later EXCEPT !.answer = answer] \in Call
          /\ [later EXCEPT !.answer = answer].does = "evaluate"
          /\ [later EXCEPT !.answer = answer].symbol = later.symbol
          /\ [later EXCEPT !.answer = answer].time = later.time
          /\ [later EXCEPT !.answer = answer].answer = answer
          /\ [later EXCEPT !.answer = answer].step = later.step
      BY <3>1 DEF Call
    <3>3. r = [later EXCEPT !.answer = answer]
      BY DEF later
    <3> QED BY <3>1, <3>2, <3>3
  <2>4. call' = [call EXCEPT ![c] = r] /\ UNCHANGED <<now, listed, asset, block>>
    <3>1. UNCHANGED <<now, listed, asset, block>>
      BY <1>4 DEF Read
    <3>2. call' = [call EXCEPT ![c] = r]
      BY <1>1, <2>2
    <3> QED BY <3>1, <3>2
  <2> HIDE DEF r
  <2>5. CallSound(r)
    BY <2>1, <2>2, <2>3 DEF CallSound
  <2> QED BY <2>3, <2>4, <2>5, Replaced
<1> QED BY <1>2, <1>3, <1>4 DEF Evaluates

LEMMA BlocksSoundStep == ASSUME BlocksSound, BlocksNext PROVE BlocksSound'
<1>1. Remember /\ (Tick \/ \E c \in Calls : Evaluates(c) \/ Others(c))
  BY BlocksSteps
<1>2. BlocksTypeOK /\ CallsSound
  BY DEF BlocksSound
<1>3. ever' \in [Calls -> SUBSET Sources]
  <2>1. \A c \in Calls : BlockingNow(c)' \subseteq Sources
    BY DEF BlockingNow, Blocking
  <2>2. Remember
    BY <1>1
  <2> QED BY <1>2, <2>1, <2>2 DEF Remember, BlocksTypeOK
<1>4. free' \subseteq Calls /\ moved' \subseteq Calls /\ unlisted' \subseteq Calls
  BY <1>1, <1>2 DEF Remember, BlocksTypeOK
<1>5. CASE Tick
  <2>1. now' \in Nat /\ now <= now' /\ UNCHANGED <<listed, asset, block, call>>
    BY <1>2, <1>5 DEF Tick, BlocksTypeOK
  <2>2. \A c \in Calls : call[c].time \in Nat /\ now \in Nat
    BY <1>2 DEF BlocksTypeOK, Call
  <2>3. CallsSound'
    BY <1>2, <2>1, <2>2 DEF CallsSound, CallSound
  <2> QED BY <1>2, <1>3, <1>4, <2>1, <2>3 DEF BlocksSound, BlocksTypeOK
<1>6. ASSUME NEW c \in Calls, Evaluates(c) PROVE BlocksSound'
  BY <1>2, <1>3, <1>4, <1>6, EvaluatesMove DEF BlocksSound, BlocksTypeOK
<1>7. ASSUME NEW c \in Calls, Others(c) PROVE BlocksSound'
  <2>1. call' \in [Calls -> Call] /\ CallsSound'
    BY <1>7, OthersMove, MovesKeep
  <2> QED BY <1>2, <1>3, <1>4, <1>7, <2>1, OthersMove DEF BlocksSound, BlocksTypeOK
<1> QED BY <1>1, <1>5, <1>6, <1>7

LEMMA BlocksUnchanged == BlocksSound /\ UNCHANGED blocksVars => BlocksSound'
  BY DEF BlocksSound, BlocksTypeOK, CallsSound, CallSound, blocksVars

LEMMA BlocksInvariant == Spec => []BlocksSound
<1>1. Init => BlocksSound
  BY BlocksStart DEF Init
<1>2. BlocksSound /\ [Next]_vars => BlocksSound'
  BY BlocksSoundStep, BlocksUnchanged DEF Next, vars
<1> QED BY <1>1, <1>2, PTL DEF Spec

\* The rows, the calls and what is remembered of them have the types declared.
THEOREM TypeCorrect == Spec => []TypeOK
<1>1. BlocksSound /\ SettingsInv => TypeOK
  BY DEF BlocksSound, SettingsInv, TypeOK
<1> QED BY <1>1, BlocksInvariant, SettingsInvariant, PTL

\* A renewed block survives: a temporary block in force leaves only by its removal.
THEOREM BlocksInForceStay == Spec => RenewalSurvives
<1> DEFINE Removed(s) == \E c \in Calls : At(c, "unblock", "delete")
                           /\ call'[c].step = "done" /\ call[c].row = block[s].id
<1>1. ASSUME BlocksSound, BlocksNext, NEW s \in Symbols, block[s].expires > now,
             block'[s] = NoBlock
      PROVE  Removed(s)
  <2> USE <1>1
  <2>1. /\ block \in [Symbols -> [id : Ids, expires : Nat] \cup {NoBlock}]
        /\ call \in [Calls -> Call] /\ now \in Nat /\ CallsSound
    BY DEF BlocksSound, BlocksTypeOK
  <2>2. block[s] # NoBlock /\ block[s].expires \in Nat /\ block'[s] # block[s]
    BY <2>1 DEF NoBlock
  <2>3. \A t \in Nat : t <= now => ~ExpiredAt(s, t)
    BY <2>1, <2>2 DEF ExpiredAt
  <2>4. \A S : s \notin S => Without(S)[s] = block[s]
    BY DEF Without
  <2>5. PICK c \in Calls : Evaluates(c) \/ Others(c)
    BY <2>2, BlocksSteps DEF Tick
  <2>6. Others(c)
    BY <2>2, <2>5, EvaluatesMove
  <2>7. CallSound(call[c]) /\ call[c].time \in Nat
    BY <2>1 DEF CallsSound, Call
  <2>8. CASE DeleteBlock(c)
    <3>1. call[c].symbol = s /\ block[s].id = call[c].row
      BY <2>1, <2>2, <2>8 DEF DeleteBlock
    <3>2. call'[c].step = "done"
      BY <2>1, <2>8, <3>1 DEF DeleteBlock, Finish, Call
    <3> QED BY <2>8, <3>1, <3>2 DEF DeleteBlock
  <2>9. CASE DeleteExpired(c)
    <3>1. s \notin Deletable(c)
      BY <2>3, <2>7, <2>9 DEF Deletable, DeleteExpired, At, CallSound
    <3> QED BY <2>2, <2>4, <2>9, <3>1 DEF DeleteExpired
  <2>10. CASE \E q \in Symbols : CleanSymbol(c, q)
    <3>1. PICK q \in Symbols : CleanSymbol(c, q)
      BY <2>10
    <3>2. ExpiredAt(q, now) /\ block' = Without({q})
      BY <2>2, <3>1 DEF CleanSymbol
    <3> QED BY <2>1, <2>2, <2>3, <2>4, <3>2
  <2>11. CASE Upsert(c)
    <3>1. call[c].symbol \in Symbols
      BY <2>7, <2>11 DEF Upsert, At, CallSound
    <3>2. s = call[c].symbol /\ block'[s].id \in Ids
      BY <2>1, <2>2, <2>11, <3>1 DEF Upsert, Ids
    <3> QED BY <3>2, BlocksAssumption DEF NoBlock, Ids
  <2>12. block' = block \/ DeleteBlock(c) \/ DeleteExpired(c) \/ Upsert(c)
           \/ \E q \in Symbols : CleanSymbol(c, q)
    BY <2>6 DEF Others, Add, Remove, Validate, Block, Unblock, ListExpired, Create, Delete
  <2> QED BY <2>2, <2>8, <2>9, <2>10, <2>11, <2>12
<1>2. BlocksSound /\ [Next]_vars =>
        [\A s \in Symbols : block[s].expires > now /\ block'[s] = NoBlock =>
           Removed(s)]_blocksVars
  BY <1>1 DEF Next, vars
<1> QED BY <1>2, BlocksInvariant, PTL DEF Spec, RenewalSurvives

-----------------------------------------------------------------------------
(***************************************************************************)
(* The decision: what an evaluation that goes on knows of its symbol.      *)
(***************************************************************************)
\* The sources that were read do not block the symbol, unless nothing has at some
\* moment or a block moved.
SourcesPassed(c) ==
  c \in free \/ c \in moved \/ Passed(call[c].step) \cap BlockingNow(c) = {}

\* The whitelist that was counted has an entry, unless it lost one.
WhitelistCounted(c) ==
  call[c].step = "entry" =>
    (\E q \in Symbols : listed["whitelist"][q] # None) \/ c \in unlisted

Follows(c) ==
  Reading(c) => /\ BlockingNow(c) \subseteq ever[c]
                /\ BlockingNow(c) = {} => c \in free
                /\ SourcesPassed(c) /\ WhitelistCounted(c)

Held(c) ==
  /\ call[c].answer = "allowed" => c \in free \/ c \in moved
  /\ call[c].answer \in Sources =>
       call[c].answer \in ever[c] \/ (call[c].answer = "whitelist" /\ c \in unlisted)

EvaluationInv == \A c \in Calls : Follows(c) /\ Held(c)

\* Which sources block a symbol.
LEMMA BlockingSources ==
  ASSUME NEW s, NEW t
  PROVE  /\ Blocking(s, t) \subseteq Sources
         /\ "blacklist" \in Blocking(s, t) <=> listed["blacklist"][s] # None
         /\ "whitelist" \in Blocking(s, t) <=>
              /\ \E q \in Symbols : listed["whitelist"][q] # None
              /\ listed["whitelist"][s] = None
         /\ "tradable" \in Blocking(s, t) <=> ~asset[s].tradable
         /\ "suspension" \in Blocking(s, t) <=> ~asset[s].active
         /\ "temporary" \in Blocking(s, t) <=> Lasts(s, t)
  BY DEF Blocking, Sources, Lists

LEMMA RefusesSource ==
  ASSUME NEW c
  PROVE  LET s == call[c].symbol IN
         /\ call[c].step = "blacklist" => (Refuses(c) <=> listed["blacklist"][s] # None)
         /\ call[c].step = "entry" => (Refuses(c) <=> listed["whitelist"][s] = None)
         /\ call[c].step = "tradable" => (Refuses(c) <=> ~asset[s].tradable)
         /\ call[c].step = "suspension" => (Refuses(c) <=> ~asset[s].active)
         /\ call[c].step = "temporary" => (Refuses(c) <=> Lasts(s, call[c].time))
  BY DEF Refuses

\* The sources an evaluation has done with, at each step it can be at.
LEMMA PassedSources ==
  /\ Passed("blacklist") = {}
  /\ Passed("whitelist") = {"blacklist"} /\ Passed("entry") = {"blacklist"}
  /\ Passed("tradable") = {"blacklist", "whitelist"}
  /\ Passed("suspension") = {"blacklist", "whitelist", "tradable"}
  /\ Passed("temporary") = {"blacklist", "whitelist", "tradable", "suspension"}
  BY DEF Passed, Sources, Lists

\* What is remembered of one evaluation.
LEMMA Remembered ==
  ASSUME BlocksSound, Remember, NEW c \in Calls
  PROVE  /\ Reading(c) \/ Reading(c)' => /\ ever'[c] = ever[c] \cup BlockingNow(c)'
                                         /\ BlockingNow(c)' = {} => c \in free'
         /\ ~Reading(c) /\ ~Reading(c)' => ever'[c] = ever[c]
         /\ free \subseteq free' /\ moved \subseteq moved' /\ unlisted \subseteq unlisted'
         /\ Moving(c) => c \in moved'
         /\ Reading(c) /\ (\E s \in Symbols : listed["whitelist"][s] # None
                                              /\ listed'["whitelist"][s] = None)
              => c \in unlisted'
  BY DEF Remember

\* A call that did not move: the clock or another call did.
LEMMA StandsStill ==
  ASSUME BlocksSound, Remember, NEW c \in Calls, Follows(c), Held(c), call'[c] = call[c]
  PROVE  Follows(c)' /\ Held(c)'
<1>1. Reading(c)' <=> Reading(c)
  BY DEF Reading
<1>2. CallSound(call[c])
  BY DEF BlocksSound, CallsSound
<1>3. /\ free \subseteq free' /\ moved \subseteq moved' /\ unlisted \subseteq unlisted'
      /\ Moving(c) => c \in moved'
  BY Remembered
<1>4. CASE Reading(c)
  <2>1. ever'[c] = ever[c] \cup BlockingNow(c)' /\ (BlockingNow(c)' = {} => c \in free')
    BY <1>4, Remembered
  <2>2. SourcesPassed(c)'
    <3> SUFFICES ASSUME c \notin free, c \notin moved, ~Moving(c)
                 PROVE  Passed(call[c].step) \cap BlockingNow(c)' = {}
      BY <1>3 DEF SourcesPassed
    <3>1. Passed(call[c].step) \cap BlockingNow(c) = {} /\ BlockingNow(c) # {}
      BY <1>4 DEF Follows, SourcesPassed
    <3>2. BlockingNow(c) \ Passed(call[c].step) # {}
      BY <3>1
    <3>3. Passed(call[c].step) \cap (BlockingNow(c)' \ BlockingNow(c)) = {}
      BY <1>4, <3>2 DEF Moving
    <3> QED BY <3>1, <3>3
  <2>3. WhitelistCounted(c)'
    BY <1>3, <1>4, Remembered DEF Follows, WhitelistCounted
  <2>4. Follows(c)'
    BY <2>1, <2>2, <2>3 DEF Follows
  <2>5. call'[c].answer = "none"
    BY <1>2, <1>4 DEF Reading, CallSound
  <2> QED BY <2>4, <2>5 DEF Held, Sources, Lists
<1>5. CASE ~Reading(c)
  <2>1. ever'[c] = ever[c]
    BY <1>1, <1>5, Remembered
  <2> QED BY <1>1, <1>3, <1>5, <2>1 DEF Follows, Held
<1> QED BY <1>4, <1>5

\* An evaluation's own step.
LEMMA EvaluationStep ==
  ASSUME BlocksSound, Remember, NEW c \in Calls, Follows(c), Held(c), Evaluates(c)
  PROVE  Follows(c)' /\ Held(c)'
<1>1. call \in [Calls -> Call] /\ CallSound(call[c])
  BY DEF BlocksSound, BlocksTypeOK, CallsSound
<1>2. /\ UNCHANGED <<now, listed, asset, block>>
      /\ free \subseteq free' /\ moved \subseteq moved' /\ unlisted \subseteq unlisted'
  BY EvaluatesMove, Remembered
<1>3. CASE \E s \in Evaluated : Evaluate(c, s)
  <2>1. /\ call[c] = NotMade /\ call'[c].does = "evaluate" /\ call'[c].step = "blacklist"
        /\ call'[c].answer = "none"
    BY <1>1, <1>3 DEF Evaluate, NotMade
  <2>2. Reading(c)'
    BY <2>1 DEF Reading
  <2>3. BlockingNow(c)' \subseteq ever'[c] /\ (BlockingNow(c)' = {} => c \in free')
    BY <2>2, Remembered
  <2>4. SourcesPassed(c)' /\ WhitelistCounted(c)'
    BY <2>1, PassedSources DEF SourcesPassed, WhitelistCounted
  <2> QED BY <2>1, <2>3, <2>4 DEF Follows, Held, Sources, Lists
<1>4. ASSUME Reading(c)
      PROVE  /\ ever'[c] = ever[c] \cup BlockingNow(c)'
             /\ BlockingNow(c) \subseteq ever[c] /\ (BlockingNow(c) = {} => c \in free)
             /\ SourcesPassed(c) /\ WhitelistCounted(c)
             /\ call[c].answer = "none"
  BY <1>1, <1>4, Remembered DEF Follows, CallSound, Reading
<1>5. BlockingNow(c) = Blocking(call[c].symbol, call[c].time)
  BY DEF BlockingNow
<1>6. ASSUME call'[c].symbol = call[c].symbol, call'[c].time = call[c].time
      PROVE  BlockingNow(c)' = BlockingNow(c)
  BY <1>2, <1>6 DEF BlockingNow, Blocking, Lasts
<1>7. CASE CountWhitelist(c)
  <2>1. Reading(c) /\ call[c].step = "whitelist"
    BY <1>7 DEF CountWhitelist, At, Reading
  <2>2. /\ call'[c].answer = "none" /\ call'[c].step \in {"entry", "tradable"}
        /\ call'[c].symbol = call[c].symbol /\ call'[c].time = call[c].time
    BY <1>1, <1>4, <1>7, <2>1 DEF CountWhitelist, Call
  <2>3. call'[c].step = "entry" <=> \E q \in Symbols : listed["whitelist"][q] # None
    BY <1>1, <1>7 DEF CountWhitelist, Call
  <2>4. call'[c].step = "tradable" => "whitelist" \notin BlockingNow(c)
    BY <1>5, <2>2, <2>3, BlockingSources
  <2>5. BlockingNow(c)' = BlockingNow(c)
    BY <1>6, <2>2
  <2>6. SourcesPassed(c)'
    BY <1>2, <1>4, <2>1, <2>2, <2>4, <2>5, PassedSources DEF SourcesPassed
  <2>7. WhitelistCounted(c)'
    BY <1>2, <2>3 DEF WhitelistCounted
  <2> QED BY <1>2, <1>4, <2>1, <2>2, <2>5, <2>6, <2>7 DEF Follows, Held, Sources, Lists
<1>8. CASE Read(c)
  <2>1. Reading(c) /\ call[c].step \in Asked \ {"whitelist"}
    BY <1>1, <1>8 DEF Read, Reading, CallSound
  <2>2. CASE Refuses(c)
    <3>1. /\ call'[c].step = "done" /\ call'[c].does = call[c].does
          /\ call'[c].answer = IF call[c].step = "entry" THEN "whitelist" ELSE call[c].step
      BY <1>1, <1>8, <2>2 DEF Read, Call
    <3>2. \/ call'[c].answer \in BlockingNow(c)
          \/ call'[c].answer = "whitelist" /\ c \in unlisted
      <4>1. CASE call[c].step = "entry"
        BY <1>4, <1>5, <2>1, <2>2, <3>1, <4>1, BlockingSources, RefusesSource
           DEF WhitelistCounted
      <4>2. CASE call[c].step # "entry"
        BY <1>5, <2>1, <2>2, <3>1, <4>2, BlockingSources, RefusesSource DEF Asked
      <4> QED BY <4>1, <4>2
    <3>3. call'[c].answer # "allowed" /\ ~Reading(c)'
      BY <2>1, <3>1 DEF Asked, Reading
    <3> QED BY <1>2, <1>4, <2>1, <3>2, <3>3 DEF Follows, Held
  <2>3. CASE ~Refuses(c)
    <3>1. /\ call'[c].step = NextSource(call[c].step)
          /\ call'[c].answer = IF NextSource(call[c].step) = "done" THEN "allowed" ELSE "none"
          /\ call'[c].symbol = call[c].symbol /\ call'[c].time = call[c].time
      BY <1>1, <1>8, <2>3 DEF Read, Call
    <3>2. BlockingNow(c)' = BlockingNow(c)
      BY <1>6, <3>1
    <3>3. /\ call[c].step = "blacklist" => "blacklist" \notin BlockingNow(c)
          /\ call[c].step = "entry" => "whitelist" \notin BlockingNow(c)
          /\ call[c].step = "tradable" => "tradable" \notin BlockingNow(c)
          /\ call[c].step = "suspension" => "suspension" \notin BlockingNow(c)
          /\ call[c].step = "temporary" => "temporary" \notin BlockingNow(c)
      BY <1>5, <2>3, BlockingSources, RefusesSource
    <3>4. CASE call[c].step = "temporary"
      <4>1. call'[c].step = "done" /\ call'[c].answer = "allowed" /\ ~Reading(c)'
        BY <3>1, <3>4 DEF NextSource, Reading
      <4>2. BlockingNow(c) \subseteq Sources
        BY <1>5, BlockingSources
      <4>3. c \in free \/ c \in moved
        BY <1>4, <2>1, <3>3, <3>4, <4>2, PassedSources DEF SourcesPassed, Sources, Lists
      <4> QED BY <1>2, <4>1, <4>3 DEF Follows, Held, Sources, Lists
    <3>5. CASE call[c].step # "temporary"
      <4>1. /\ call'[c].answer = "none" /\ call'[c].step # "entry"
            /\ call[c].step = "blacklist" => call'[c].step = "whitelist"
            /\ call[c].step = "entry" => call'[c].step = "tradable"
            /\ call[c].step = "tradable" => call'[c].step = "suspension"
            /\ call[c].step = "suspension" => call'[c].step = "temporary"
        BY <2>1, <3>1, <3>5 DEF NextSource, Asked
      <4>2. SourcesPassed(c)'
        BY <1>2, <1>4, <2>1, <3>2, <3>3, <3>5, <4>1, PassedSources DEF SourcesPassed, Asked
      <4> QED BY <1>2, <1>4, <2>1, <3>2, <4>1, <4>2
              DEF Follows, Held, WhitelistCounted, Sources, Lists
    <3> QED BY <3>4, <3>5
  <2> QED BY <2>2, <2>3
<1> QED BY <1>3, <1>7, <1>8 DEF Evaluates

LEMMA EvaluationInvStep == ASSUME BlocksSound, EvaluationInv, BlocksNext PROVE EvaluationInv'
<1> SUFFICES ASSUME NEW d \in Calls PROVE Follows(d)' /\ Held(d)'
  BY DEF EvaluationInv
<1>1. Remember /\ (Tick \/ \E c \in Calls : Evaluates(c) \/ Others(c))
  BY BlocksSteps
<1>2. Follows(d) /\ Held(d)
  BY DEF EvaluationInv
<1>3. CASE call'[d] = call[d]
  BY <1>1, <1>2, <1>3, StandsStill
<1>4. CASE Evaluates(d)
  BY <1>1, <1>2, <1>4, EvaluationStep
<1>5. ASSUME NEW c \in Calls, Others(c), call'[d] # call[d] PROVE Follows(d)' /\ Held(d)'
  <2>1. call'[d].does # "evaluate" /\ call'[d].answer = "none"
    BY <1>5, OthersMove, MovesKeep
  <2> QED BY <2>1 DEF Follows, Held, Reading, Sources, Lists
<1> QED BY <1>1, <1>3, <1>4, <1>5, EvaluatesMove DEF Tick

\* However many edits run beside an evaluation, a symbol is allowed only if nothing
\* blocked it at one moment, unless a block moved past the reads, and refused only
\* for a reason that blocked it at some moment, unless the whitelist lost an entry.
THEOREM DecisionsHold == Spec => []DecisionHeld
<1>1. Init => EvaluationInv
  BY DEF Init, BlocksInit, EvaluationInv, Follows, Held, Reading, NotMade, Sources, Lists
<1>2. BlocksSound /\ EvaluationInv /\ UNCHANGED blocksVars => EvaluationInv'
  <2> SUFFICES ASSUME EvaluationInv, UNCHANGED blocksVars, NEW c \in Calls
               PROVE  Follows(c)' /\ Held(c)'
    BY DEF EvaluationInv
  <2>1. BlockingNow(c)' = BlockingNow(c)
    BY DEF BlockingNow, Blocking, Lasts, blocksVars
  <2> QED BY <2>1 DEF EvaluationInv, Follows, Held, SourcesPassed, WhitelistCounted,
                      Reading, blocksVars
<1>3. BlocksSound /\ EvaluationInv /\ [Next]_vars => EvaluationInv'
  BY <1>2, EvaluationInvStep DEF Next, vars
<1>4. EvaluationInv => DecisionHeld
  BY DEF EvaluationInv, Held, DecisionHeld
<1> QED BY <1>1, <1>3, <1>4, BlocksInvariant, PTL DEF Spec
=============================================================================
