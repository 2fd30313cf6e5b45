------------------------------ MODULE MCFollowRun ------------------------------
(* FollowRun with small constants for TLC: run 1 is of another message, run 2 of ours. *)
EXTENDS FollowRun

Nobody  == <<>>
Busy    == <<Event("run", 1, "running")>>
Steered == <<Event("run", 1, "running"), Event("message", 1, "linked")>>
Queued  == <<Event("run", 1, "running"), Event("run", 2, "queued")>>
Asked   == <<Event("run", 2, "running"), Event("request", 1, "pending")>>

AnyStart    == {Busy, Steered, Queued}
AskedStart  == {Nobody, Asked}

NoRequestRuns == [q \in {} |-> 1]
OursAsks  == [q \in {1, 2} |-> 2]

Policy(t, r, a) == [onTimeout |-> t, onRequest |-> r, approve |-> a]
Deadlines    == {Policy(t, "wait", FALSE) : t \in {"detach", "interrupt"}}
AskPolicies  == {Policy("interrupt", "fail", TRUE)}

NoEnds   == {}
Lost     == {"connection"}
=============================================================================
