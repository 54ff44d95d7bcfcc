------------------------------- MODULE MCCore -------------------------------
(***************************************************************************)
(* The small instances of the orchestrator: the delegated units of a task,  *)
(* and a pursuit of a goal.  They share no state: a behaviour runs one of   *)
(* them, the other stays in an initial state.                               *)
(*                                                                         *)
(* Three units, in the four shapes a run gives them.  In Flat the conductor *)
(* delegates one in the background and two in calls, the second depending   *)
(* on the first; in Fragile all in calls, and the subagent the third        *)
(* depends on may fail to build.  In Nested a unit delegates another in the *)
(* background, and the third has no one to delegate it; in Deep a unit      *)
(* delegates one that delegates the third, in calls.                        *)
(***************************************************************************)
EXTENDS DelegationUnits, GoalLoop

VARIABLE part

Unit(by, depth, async, redelegates) ==
  [by |-> by, depth |-> depth, deps |-> {}, async |-> async, redelegates |-> redelegates,
   fragile |-> FALSE]

Flat == [u \in Units |-> CASE u = "a" -> Unit(Root, 0, TRUE, FALSE)
                           [] u = "b" -> Unit(Root, 0, FALSE, FALSE)
                           [] u = "c" -> [Unit(Root, 0, FALSE, FALSE) EXCEPT !.deps = {"b"}]]
Fragile == [Flat EXCEPT !["a"].async = FALSE, !["b"].fragile = TRUE]
Nested == [u \in Units |-> CASE u = "a" -> Unit(Root, 0, FALSE, TRUE)
                             [] u = "b" -> Unit("a", 1, TRUE, FALSE)
                             [] u = "c" -> Unit("b", 2, FALSE, FALSE)]
Deep == [Nested EXCEPT !["b"].async = FALSE, !["b"].redelegates = TRUE]
MCShapes == {Flat, Fragile, Nested, Deep}

CoreInit ==
  /\ part \in {"units", "goal"}
  /\ UnitsInit /\ (part # "units" => shape = Flat)
  /\ GoalInit

CoreNext ==
  /\ UNCHANGED part
  /\ \/ part = "units" /\ UnitsNext /\ UNCHANGED goalVars
     \/ part = "goal" /\ GoalNext /\ UNCHANGED unitVars

CoreSpec == CoreInit /\ [][CoreNext]_<<part, unitVars, goalVars>>
==============================================================================
