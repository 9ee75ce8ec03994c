--------------------------- MODULE PacketChannel ---------------------------
(***************************************************************************)
(* What the packet queue and the device driver promise those who write     *)
(* packets: the packets the queue has accepted reach the console one by    *)
(* one, in the order in which they were accepted and each at most once,    *)
(* and a reset of the bus costs at most the one packet that was on its     *)
(* way.                                                                    *)
(***************************************************************************)
EXTENDS Naturals, Sequences

CONSTANT Packets

VARIABLES
  pending,    \* the packets accepted and not yet with the console
  delivered,  \* what the console has got
  resets      \* bus resets the driver has been told of

channelVars == <<pending, delivered, resets>>

Init ==
  /\ pending = <<>>
  /\ delivered = <<>>
  /\ resets = 0

Accept ==
  /\ \E p \in Packets : pending' = Append(pending, p)
  /\ UNCHANGED <<delivered, resets>>

Deliver ==
  /\ pending # <<>>
  /\ delivered' = Append(delivered, Head(pending))
  /\ pending' = Tail(pending)
  /\ UNCHANGED resets

Reset ==
  /\ resets' = resets + 1
  /\ \/ UNCHANGED pending
     \/ pending # <<>> /\ pending' = Tail(pending)
  /\ UNCHANGED delivered

Next == Accept \/ Deliver \/ Reset

Spec == Init /\ [][Next]_channelVars

=============================================================================
