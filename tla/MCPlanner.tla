----------------------------- MODULE MCPlanner -----------------------------
(* Instances of Planner for TLC.                                           *)
EXTENDS Planner

(* One kind of rate, with its squared speeds; a short line after a slow    *)
(* corner and a longer one after a fast corner.                            *)
OneRate ==
  [feed |-> [o \in Overrides |-> CASE o = "full" -> 3 [] o = "half" -> 2 [] o = "low" -> 1]]
ShortAndLong == {[dist |-> 1, junction |-> 2, rate |-> "feed"],
                 [dist |-> 2, junction |-> 3, rate |-> "feed"]}

(* A feed override leaves rapid motions alone.                             *)
FeedAndRapid == [feed |-> [o \in Overrides |-> IF o = "full" THEN 4 ELSE 1],
                 rapid |-> [o \in Overrides |-> 4]]
Straight == {[dist |-> 1, junction |-> 4, rate |-> "rapid"],
             [dist |-> 4, junction |-> 4, rate |-> "feed"],
             [dist |-> 4, junction |-> 4, rate |-> "rapid"]}

(* Speeds far apart, for an override that is lowered and raised again just *)
(* when a block ends.                                                      *)
FarApart ==
  [feed |-> [o \in Overrides |-> CASE o = "full" -> 5 [] o = "half" -> 4 [] o = "low" -> 1]]
ShortAndFast == {[dist |-> 1, junction |-> 5, rate |-> "feed"],
                 [dist |-> 5, junction |-> 5, rate |-> "feed"]}
=============================================================================
