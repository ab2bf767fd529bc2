------------------------------ MODULE Mailbox ------------------------------
(***************************************************************************)
(* What a node's message queue promises, without links, channels or        *)
(* retries: a box of messages.  A message whose poster was told "posted"   *)
(* stays in the box until the node's client has acked it, and nothing is   *)
(* acked that was not in the box.  Delivery is at least once: a crash may  *)
(* bring back an acked message, and may lose one that nobody was promised. *)
(***************************************************************************)
CONSTANT Msg

VARIABLES
  box,     \* messages held for the node
  posted,  \* messages whose posters have been told so
  acked    \* messages the node's client has acked

Init == box = {} /\ posted = {} /\ acked = {}

\* A message is stored for the node.
Put(m) ==
  /\ m \notin box \cup posted \cup acked
  /\ box' = box \cup {m}
  /\ UNCHANGED <<posted, acked>>

\* Its poster is told.
Confirm(m) ==
  /\ m \in box \cup acked
  /\ posted' = posted \cup {m}
  /\ UNCHANGED <<box, acked>>

\* The client has the message and acks it.
Ack(m) ==
  /\ m \in box
  /\ acked' = acked \cup {m}
  /\ UNCHANGED <<box, posted>>

\* The box lets go of an acked message.
Remove(m) ==
  /\ m \in box \cap acked
  /\ box' = box \ {m}
  /\ UNCHANGED <<posted, acked>>

\* The server restarts.
Crash ==
  /\ box' \in SUBSET (box \cup acked)
  /\ posted \subseteq box' \cup acked
  /\ UNCHANGED <<posted, acked>>

Next ==
  \/ \E m \in Msg : Put(m) \/ Confirm(m) \/ Ack(m) \/ Remove(m)
  \/ Crash

Spec == Init /\ [][Next]_<<box, posted, acked>>
=============================================================================
