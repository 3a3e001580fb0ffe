------------------------------ MODULE Delivery ------------------------------
(***************************************************************************)
(* What a handshake promises its sender (the docstring of TunnelProtocol   *)
(* in lib/tunnel/protocol.py: "CONFIRMING packets are respond to a         *)
(* Handshake packet"): a packet is confirmed only after the other side     *)
(* received it, and nothing that was sent, received or confirmed ever      *)
(* ceases to be.  Nothing is promised about order or single arrival.       *)
(***************************************************************************)
CONSTANT Nums

VARIABLES sent, received, confirmed

vars == <<sent, received, confirmed>>

Init == sent = {} /\ received = {} /\ confirmed = {}

Send(n) ==
  /\ n \notin sent
  /\ sent' = sent \cup {n}
  /\ UNCHANGED <<received, confirmed>>

Receive(n) ==
  /\ n \in sent
  /\ received' = received \cup {n}
  /\ UNCHANGED <<sent, confirmed>>

Confirm(n) ==
  /\ n \in received
  /\ confirmed' = confirmed \cup {n}
  /\ UNCHANGED <<sent, received>>

Next == \E n \in Nums : Send(n) \/ Receive(n) \/ Confirm(n)

Spec == Init /\ [][Next]_vars
=============================================================================
