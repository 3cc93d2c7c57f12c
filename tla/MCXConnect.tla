----------------------------- MODULE MCXConnect -----------------------------
(***************************************************************************)
(* Instances of XConnect for TLC.  Names and namespaces are strings; an    *)
(* interface name is a pair, so that names of different origin differ.     *)
(***************************************************************************)
EXTENDS XConnect

\* All connections come from clients of this node, or from another node
FromHere == [c \in Conn |-> "LOCAL"]
FromAfar == [c \in Conn |-> "REMOTE"]
\* c1 from a client of this node, c2 from another node
FromBoth == [c \in Conn |-> IF c = "c2" THEN "REMOTE" ELSE "LOCAL"]

\* The endpoints are on this node; on another; e3 is on another
NseHere == [e \in Endpoint |-> "LOCAL"]
NseAfar == [e \in Endpoint |-> "REMOTE"]
NseBoth == [e \in Endpoint |-> IF e = "e3" THEN "REMOTE" ELSE "LOCAL"]

\* An endpoint of this node has a URL of its own, those of the other node
\* are reached through its network service manager
NodeOf == [e \in Endpoint |-> IF DstCls[e] = "LOCAL" THEN e ELSE "nsmgr2"]

PodIf == [c \in Conn |-> <<"pod", <<"nsm", c>>>>]
EndpointIf == [c \in Conn |-> [e \in Endpoint |-> <<e, <<"nse", c>>>>]]
OwnName == [c \in Conn |-> <<"conn", c>>]
OwnPeerName == [c \in Conn |-> <<"peer", c>>]

=============================================================================
