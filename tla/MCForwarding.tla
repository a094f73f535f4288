---------------------------- MODULE MCForwarding ----------------------------
(***************************************************************************)
(* TLC instance of the three kinds of forwarding a `vssh fwd` process may  *)
(* be about: -L (Tunnel), -R (ReverseForward) or -D (UdpAssociate; its TCP *)
(* connections are tunnels like those of -L).  They share no state, so a   *)
(* behaviour is of one kind and the other parts stay as they began.        *)
(***************************************************************************)
EXTENDS Tunnel, ReverseForward, UdpAssociate

VARIABLE kind  \* "L", "R" or "D"

allVars == <<kind, vars, reverseVars, udpVars>>

AllTypeOK == TypeOK /\ ReverseTypeOK /\ UdpTypeOK

MCInit ==
  /\ kind \in {"L", "R", "D"}
  /\ Init /\ (kind # "L" => link = CHOOSE l \in Links : TRUE)
  /\ ReverseInit /\ UdpInit

MCNext ==
  /\ UNCHANGED kind
  /\ kind # "L" => UNCHANGED vars
  /\ kind # "R" => UNCHANGED reverseVars
  /\ kind # "D" => UNCHANGED udpVars
  /\ \/ kind = "L" /\ Next
     \/ kind = "R" /\ ReverseNext
     \/ kind = "D" /\ UdpNext

MCSpec ==
  /\ MCInit /\ [][MCNext]_allVars
  /\ WF_vars(kind = "L" /\ FairStep) /\ WF_reverseVars(kind = "R" /\ ReverseFairStep)
  /\ WF_udpVars(kind = "D" /\ UdpFairStep)

\* All that is sent arrives, and then its end (halfPipe, bidiPipe).
DataAndEndArrive == DataArrives /\ EOFIsObserved

\* What is left over goes away: a tunnel over a connection of its own when
\* both ends are done, the port of a reverse forward whose session was lost
\* or left, and all of an association whose application is gone (bidiPipe,
\* HandleReverseForward, socksUDPAssociate, fmuxServeUDP).
NothingIsLeft == OwnLinkEnds /\ PortIsFreed /\ AssociationEnds
=============================================================================
