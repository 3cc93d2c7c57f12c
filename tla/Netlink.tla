------------------------------ MODULE Netlink ------------------------------
(***************************************************************************)
(* The network devices of one node, as far as the forwarder can tell them  *)
(* apart through the netlink library.  A link is a record                  *)
(*    owner  the connection whose handler added the device (a ghost: the   *)
(*           kernel does not know it),                                     *)
(*    kind   "veth" or "vxlan",                                            *)
(*    end    "src" (the client's end) or "dst" (the endpoint's end),       *)
(*    to     the node a tunnel leads to,                                   *)
(*    at     its place <<network namespace, interface name>>.              *)
(* The kernel is external; the operators say what the netlink calls of     *)
(* mechanisms/veth/common.go and mechanisms/vxlan/common.go do to the set  *)
(* of the node's links.                                                    *)
(***************************************************************************)

\* handle.LinkByName, LinkList: the link of that name in that namespace
At(links, place) == {l \in links : l.at = place}

\* The two ends of a veth device: each connection has at most one pair
\* (XConnect!OnePair)
Paired(l, m) == l.kind = "veth" /\ m.kind = "veth" /\ l.owner = m.owner

\* handle.LinkDel: deleting one end of a veth pair deletes its peer
LinkDel(links, place) ==
  {l \in links : l.at # place /\ ~ \E m \in At(links, place) : Paired(l, m)}

\* LinkSetNsFd, handle.LinkSetName: the same device in another place
LinkMove(links, l, place) == (links \ {l}) \cup {[l EXCEPT !.at = place]}

=============================================================================
