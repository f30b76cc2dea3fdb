----------------------------- MODULE RemoteCall -----------------------------
(***************************************************************************)
(* What rpc-protocol.ts promises the two sides of a channel, without       *)
(* messages, ids in flight or cancellation: a request is handled at most   *)
(* once, only after it was made, and its promise settles at most once, as  *)
(* its own handler ended or because the channel closed.                    *)
(***************************************************************************)
CONSTANT Calls
VARIABLES promise, handler, connected

vars == <<promise, handler, connected>>

Init == /\ promise = [c \in Calls |-> "none"]
        /\ handler = [c \in Calls |-> "none"]
        /\ connected = TRUE

Call(c, outcome) ==
    /\ promise[c] = "none"
    /\ outcome \in {"pending", "thrown"}
    /\ promise' = [promise EXCEPT ![c] = outcome]
    /\ UNCHANGED <<handler, connected>>

Handle(c) ==
    /\ handler[c] = "none"
    /\ \/ promise[c] \in {"pending", "rejected"} /\ handler' = [handler EXCEPT ![c] = "running"]
       \/ promise[c] = "none" /\ handler' = [handler EXCEPT ![c] = "notified"]
    /\ UNCHANGED <<promise, connected>>

End(c, outcome) ==
    /\ handler[c] = "running"
    /\ outcome \in {"returned", "threw", "lost"}
    /\ handler' = [handler EXCEPT ![c] = outcome]
    /\ UNCHANGED <<promise, connected>>

Settle(c) ==
    /\ connected
    /\ promise[c] = "pending"
    /\ \/ handler[c] = "returned" /\ promise' = [promise EXCEPT ![c] = "resolved"]
       \/ handler[c] = "threw" /\ promise' = [promise EXCEPT ![c] = "rejected"]
    /\ UNCHANGED <<handler, connected>>

Disconnect ==
    /\ connected
    /\ connected' = FALSE
    /\ promise' = [c \in Calls |-> IF promise[c] = "pending" THEN "rejected" ELSE promise[c]]
    /\ UNCHANGED handler

Next ==
    \/ \E c \in Calls : Handle(c) \/ Settle(c)
    \/ \E c \in Calls, outcome \in {"pending", "thrown"} : Call(c, outcome)
    \/ \E c \in Calls, outcome \in {"returned", "threw", "lost"} : End(c, outcome)
    \/ Disconnect

Spec == Init /\ [][Next]_vars
=============================================================================
