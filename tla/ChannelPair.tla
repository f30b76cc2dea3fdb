----------------------------- MODULE ChannelPair -----------------------------
(***************************************************************************)
(* What the multiplexers of core/common/message-rpc/channel.ts promise the *)
(* owners of channels, without ids on a link, routing tables or pending    *)
(* opens: each open() makes one channel object at either end, first at the *)
(* other one, its promise resolves to its own object, and an object is told*)
(* of its end only because its counterpart was closed or the channel below *)
(* was.                                                                    *)
(***************************************************************************)
EXTENDS Sequences

CONSTANTS End, Id, Number, None
VARIABLES alive, request, channel, resolvedTo

vars == <<alive, request, channel, resolvedTo>>

Init ==
    /\ alive = [e \in End |-> TRUE]
    /\ request = <<>>
    /\ channel = [e \in End |-> [n \in Number |-> "none"]]
    /\ resolvedTo = [n \in Number |-> None]

Becomes(e, n, s) == channel' = [channel EXCEPT ![e][n] = s]

\* One channel of an id at a time: none is open at this end, and no open() of this
\* end is unanswered.
Open(e, id) ==
    /\ \A n \in DOMAIN request : request[n].id = id =>
         /\ channel[e][n] # "open"
         /\ alive[e] /\ request[n].end = e => channel[e][n] # "none"
    /\ request' = Append(request, [end |-> e, id |-> id])
    /\ UNCHANGED <<alive, channel, resolvedTo>>

\* The other end gets its object.
Appear(e, n) ==
    /\ alive[e] /\ n \in DOMAIN request /\ request[n].end # e
    /\ channel[e][n] = "none" /\ Becomes(e, n, "open")
    /\ UNCHANGED <<alive, request, resolvedTo>>

\* The end that called open() gets its own, which is what the promise resolves to.
Answer(e, n) ==
    /\ alive[e] /\ n \in DOMAIN request /\ request[n].end = e
    /\ \A f \in End \ {e} : channel[f][n] # "none"
    /\ channel[e][n] = "none" /\ Becomes(e, n, "open")
    /\ resolvedTo[n] = None /\ resolvedTo' = [resolvedTo EXCEPT ![n] = n]
    /\ UNCHANGED <<alive, request>>

Close(e, n) ==
    /\ channel[e][n] = "open" /\ Becomes(e, n, "closed")
    /\ UNCHANGED <<alive, request, resolvedTo>>

HearOfClose(e, n) ==
    /\ alive[e] /\ channel[e][n] = "open" /\ Becomes(e, n, "told")
    /\ \E f \in End \ {e} : channel[f][n] = "closed"
    /\ UNCHANGED <<alive, request, resolvedTo>>

\* The channel below closes: whoever has an open channel is told.
Disconnect(e) ==
    /\ alive[e] /\ alive' = [alive EXCEPT ![e] = FALSE]
    /\ channel' = [channel EXCEPT ![e] = [n \in Number |->
         IF channel[e][n] = "open" THEN "told" ELSE channel[e][n]]]
    /\ UNCHANGED <<request, resolvedTo>>

Next ==
    \E e \in End :
      \/ \E id \in Id : Open(e, id)
      \/ \E n \in Number : Appear(e, n) \/ Answer(e, n) \/ Close(e, n) \/ HearOfClose(e, n)
      \/ Disconnect(e)

Spec == Init /\ [][Next]_vars
=============================================================================
