-------------------------- MODULE MCRepeatedFailures --------------------------
(* MetaSearch with a count of each engine's failures in a row, kept beside    *)
(* its steps, and two searches that take turns at one permit: none overlaps.  *)
EXTENDS MCMetaSearch

VARIABLE streak   \* history: failures since it last answered or a cooldown of it was over

OneByOne == {Turns}

AnsweredNow(engine) ==
  \E s \in Searches :
    /\ Len(run'[s].outputs) > Len(run[s].outputs)
    /\ Last(run'[s].outputs).engine = engine
FailedNow(engine) == \E s \in Searches : engine \in run'[s].failures \ run[s].failures
Readmitted(engine) == breaker[engine].until # 0 /\ breaker'[engine] = Closed

Count(engine) ==
  IF AnsweredNow(engine) \/ Readmitted(engine) THEN 0
  ELSE IF FailedNow(engine) THEN streak[engine] + 1 ELSE streak[engine]

CountingInit == Init /\ streak = [engine \in Engines |-> 0]
CountingNext == Next /\ streak' = [engine \in Engines |-> Count(engine)]
CountingSpec == CountingInit /\ [][CountingNext]_<<vars, streak>>

(* An engine that failed as often in a row as the threshold says, none of its *)
(* answers between, has been given a cooldown.  CHANGELOG.md:32 says that     *)
(* failures which are no refusals have "the two-failure threshold", and       *)
(* architecture.astro:317-318 that breakers open "after repeated failures"    *)
(* (record_failure 374-379, available 357).                                   *)
RepeatedFailuresTrip ==
  \A engine \in Engines :
    streak[engine] >= Max({FailureThreshold, 1}) => breaker[engine].until # 0
=============================================================================
