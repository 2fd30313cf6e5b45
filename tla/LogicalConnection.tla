--------------------------- MODULE LogicalConnection ---------------------------
(***************************************************************************)
(* What SocketTransport promises its callers (transport/socket.ts:5-10,    *)
(* 94, 150-155, 169): one logical connection that is sought once somebody  *)
(* asks for it, survives drops, and is given up only for good.  Attempts,  *)
(* timers, generations and sockets are the implementation's affair.        *)
(***************************************************************************)
CONSTANT Callers

VARIABLES
  state,   \* "idle", "connecting", "open" or "closed"
  caller   \* what became of the promise each connect() returned

Waiting == {c \in Callers : caller[c] = "waiting"}
SettleAll(outcome) ==
  caller' = [c \in Callers |-> IF c \in Waiting THEN outcome ELSE caller[c]]

Init == state = "idle" /\ caller = [c \in Callers |-> "none"]

\* A connect() on a link that is not up waits, and starts the link the first time.
Ask(c) ==
  /\ caller[c] = "none" /\ state \in {"idle", "connecting"}
  /\ state' = "connecting" /\ caller' = [caller EXCEPT ![c] = "waiting"]

\* A connect() on a link that is up or given up is answered by that alone.
Answer(c) ==
  /\ caller[c] = "none"
  /\ \/ state = "open" /\ caller' = [caller EXCEPT ![c] = "resolved"]
     \/ state = "closed" /\ caller' = [caller EXCEPT ![c] = "rejected"]
  /\ UNCHANGED state

\* Aborting takes one waiter away and nothing else.
Withdraw(c) ==
  /\ \/ caller[c] = "waiting"
     \/ caller[c] = "none" /\ state \in {"idle", "connecting"}
  /\ caller' = [caller EXCEPT ![c] = "aborted"]
  /\ UNCHANGED state

\* The link comes up, for everybody who waits at once.
Establish ==
  /\ state = "connecting" /\ state' = "open"
  /\ SettleAll("resolved")

\* A drop is not reported to the callers of connect(): the link is sought again.
Lose == state = "open" /\ state' = "connecting" /\ UNCHANGED caller

\* Giving up rejects everybody who waits, and is final.
GiveUp ==
  /\ state # "closed" /\ state' = "closed"
  /\ SettleAll("rejected")

Next == \/ \E c \in Callers : Ask(c) \/ Answer(c) \/ Withdraw(c)
        \/ Establish \/ Lose \/ GiveUp

Spec == Init /\ [][Next]_<<state, caller>>
=============================================================================
