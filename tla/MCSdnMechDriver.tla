-------------------------- MODULE MCSdnMechDriver --------------------------
(* Instances of the mechanism driver's recording for TLC. *)
EXTENDS SdnMechDriver, TLC

CONSTANTS n1, h1

\* Every port is on the one network.
OneNetwork == [p \in Ports |-> n1]

\* A port with an owner moves, baremetal or not; on h1 it changes owner and
\* information as well.  A link information is a baremetal port's.
MovesOrChanges ==
    {a \in Attrs : /\ ~a.served => a.host = h1 /\ a.client = NoInfo
                   /\ a.client # NoInfo => a.host = h1
                   /\ a.link # NoInfo => a.host = h1 /\ a.served /\ a.bare}

=============================================================================
