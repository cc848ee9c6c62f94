---------------------------- MODULE FrameDelivery ---------------------------
(***************************************************************************)
(* What a connection promises the business layer: the frames the client    *)
(* sent are handed over one by one, in order, each once, each only when it *)
(* has arrived completely, and none after a handler closed the connection. *)
(***************************************************************************)
EXTENDS Naturals

VARIABLES
    closer,      \* the frame whose handler closes the connection, 0 if none
    arrived,     \* the frames that have arrived completely
    delivered,   \* how many have been handed over
    state        \* "open" or "closed"

vars == <<closer, arrived, delivered, state>>

Init == closer \in Nat /\ arrived = {} /\ delivered = 0 /\ state = "open"

Arrive == arrived \subseteq arrived' /\ UNCHANGED <<closer, delivered, state>>

Deliver ==
    /\ state = "open"
    /\ delivered + 1 \in arrived
    /\ delivered' = delivered + 1
    /\ state' = IF delivered + 1 = closer THEN "closed" ELSE "open"
    /\ UNCHANGED <<closer, arrived>>

Close == state' = "closed" /\ UNCHANGED <<closer, arrived, delivered>>

Next == Arrive \/ Deliver \/ Close

Spec == Init /\ [][Next]_vars
=============================================================================
