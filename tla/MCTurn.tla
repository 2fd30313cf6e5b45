--------------------------------- MODULE MCTurn ---------------------------------
(* Turn with small constants for TLC: run 1 is of another message, run 2 of ours. *)
EXTENDS Turn

Nobody == <<>>
Busy    == <<Event("run", 1, "running")>>
\* The dispatch's own events may already link the message.
Steered == <<Event("run", 1, "running"), Event("message", 1, "linked")>>
Queued  == <<Event("run", 1, "running"), Event("run", 2, "queued")>>
AnyStart == {Nobody, Busy, Steered, Queued}

NoRequestRuns == [q \in {} |-> 1]
AllEnds == Endings
=============================================================================
