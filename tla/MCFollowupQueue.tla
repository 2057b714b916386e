--------------------------- MODULE MCFollowupQueue ---------------------------
(* Small instances of FollowupQueue.                                       *)
EXTENDS FollowupQueue

CONSTANTS m1, m2, m3

MCOneRoute == [m \in Message |-> "slack"]
MCRoutes == [m \in Message |-> IF m = m1 THEN "none" ELSE IF m = m2 THEN "slack" ELSE "discord"]

MCSettings(modes, caps, policies) ==
  [mode : modes, cap : caps, dropPolicy : policies]
MCRoomy == MCSettings({"collect", "followup"}, {4}, {"summarize"})
MCTight == {[mode |-> "followup", cap |-> 1, dropPolicy |-> "old"],
            [mode |-> "collect", cap |-> 2, dropPolicy |-> "summarize"],
            [mode |-> "followup", cap |-> 2, dropPolicy |-> "new"]}
MCSymmetry == Permutations(Message)
MCOld == MCSettings({"followup"}, {2}, {"old"})
MCFollowupOne == MCSettings({"followup"}, {1}, {"summarize"})
=============================================================================
