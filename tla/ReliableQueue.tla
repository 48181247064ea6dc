--------------------------- MODULE ReliableQueue ---------------------------
(***************************************************************************)
(* What the delivery queue promises, without lock, timer, tasks or clock:  *)
(* an open queue accepts, one batch of one group is in delivery at a time, *)
(* a batch is delivered or given back as a whole, and nothing accepted     *)
(* ever leaves the queue in another way.                                   *)
(***************************************************************************)
CONSTANTS Items, Group

VARIABLES
    status,  \* status[i] \in {"new", "pending", "inflight", "delivered", "rejected"}
    open     \* the queue accepts

vars == <<status, open>>

InState(s) == {i \in Items : status[i] = s}
Moved(S, s) == [i \in Items |-> IF i \in S THEN s ELSE status[i]]

Init ==
    /\ status = [i \in Items |-> "new"]
    /\ open = TRUE

Accept(i) ==
    /\ open
    /\ status[i] = "new"
    /\ status' = Moved({i}, "pending")
    /\ UNCHANGED open

Reject(i) ==
    /\ ~open
    /\ status[i] = "new"
    /\ status' = Moved({i}, "rejected")
    /\ UNCHANGED open

\* A batch is everything of one group that is pending.
Take(i) ==
    /\ InState("inflight") = {}
    /\ status[i] = "pending"
    /\ status' = Moved({j \in InState("pending") : Group[j] = Group[i]}, "inflight")
    /\ UNCHANGED open

Deliver ==
    /\ InState("inflight") # {}
    /\ status' = Moved(InState("inflight"), "delivered")
    /\ UNCHANGED open

GiveBack ==
    /\ InState("inflight") # {}
    /\ status' = Moved(InState("inflight"), "pending")
    /\ UNCHANGED open

Close ==
    /\ open
    /\ open' = FALSE
    /\ UNCHANGED status

Next ==
    \/ \E i \in Items : Accept(i) \/ Reject(i) \/ Take(i)
    \/ Deliver
    \/ GiveBack
    \/ Close

Spec == Init /\ [][Next]_vars
=============================================================================
