-------------------------- MODULE ReconnectBackoff --------------------------
(***************************************************************************)
(* The reconnect delays of both streams (src/src/reconnect.cpp).  Times    *)
(* are relative to the last decision: "ages" are those of the attempts     *)
(* still remembered, oldest first, and "cooldown" is what is left of the   *)
(* storm cooldown.                                                         *)
(***************************************************************************)
EXTENDS Integers, Sequences, FiniteSets

CONSTANTS
  InitialDelay, MaxDelay,   \* policy.initial, policy.maximum
  JitterPercent,
  StormAttempts, StormWindow, StormCooldown

(* What the constructor demands.                                           *)
ASSUME PolicyAssumption ==
  /\ InitialDelay \in Nat \ {0} /\ MaxDelay \in Nat /\ MaxDelay >= InitialDelay
  /\ JitterPercent \in 0..100
  /\ StormAttempts \in Nat \ {0}
  /\ StormWindow \in Nat \ {0} /\ StormCooldown \in Nat \ {0}

NewBackoff == [current |-> InitialDelay, ages |-> <<>>, cooldown |-> 0]

(* mark_stable.                                                            *)
MarkStable(b) == NewBackoff

Doubled(current) ==
  IF current >= MaxDelay \div 2 THEN MaxDelay ELSE 2 * current

(* The attempts of the window, this one included, dt after the last: the   *)
(* ones at the front that are too old are dropped.                         *)
Recent(b, dt) ==
  LET aged == [i \in 1..Len(b.ages) |-> b.ages[i] + dt]
      old == {i \in 1..Len(b.ages) : aged[i] > StormWindow}
  IN  Append(SubSeq(aged, Cardinality(old) + 1, Len(b.ages)), 0)

(* next: in a cooldown nothing is counted; one attempt too many in the     *)
(* window starts one; any other attempt doubles the delay.                 *)
Attempt(b, dt) ==
  CASE b.cooldown > dt -> [b EXCEPT !.cooldown = @ - dt,
                             !.ages = [i \in 1..Len(@) |-> @[i] + dt]]
    [] b.cooldown <= dt /\ Len(Recent(b, dt)) > StormAttempts ->
         [b EXCEPT !.ages = <<>>, !.cooldown = StormCooldown]
    [] OTHER -> [current |-> Doubled(b.current), ages |-> Recent(b, dt),
                 cooldown |-> 0]

(* jitter: the delay of an attempt that starts no cooldown, for a sample   *)
(* of the random state.                                                    *)
Span(base) ==
  (base \div 100) * JitterPercent + ((base % 100) * JitterPercent) \div 100

Jitter(base, random) ==
  LET candidate == base + (random % (2 * Span(base) + 1)) - Span(base)
  IN  IF JitterPercent = 0 THEN base
      ELSE IF candidate < 1 THEN 1
      ELSE IF candidate > MaxDelay THEN MaxDelay
      ELSE candidate
=============================================================================
