----------------------------- MODULE PairProofs -----------------------------
(***************************************************************************)
(* Which devices a handler finds by name.  Those of its own connection     *)
(* only (PlacesDisjoint), so the handlers of different connections do not  *)
(* touch each other's devices; and never those of two veth pairs, whatever *)
(* attempts, failures, refreshes and restarts the connection has been      *)
(* through.  Proved for every set of connections and endpoints.            *)
(***************************************************************************)
EXTENDS XConnectProofs

\* Every device is at a place the code computes for its own connection:
\* the strengthening that makes a lookup by name find only own devices.
OwnPlaces == \A l \in links : l.at \in PlacesOf(l.owner)

IInv == Inv /\ OwnPlaces

\* A step of the handler of d, as the other connections see it
OthersKept(d) ==
  \A l : l.owner # d => (l \in links' <=> l \in links)

-----------------------------------------------------------------------------
(* The netlink calls, at a place of d *)

\* A place of d holds only devices of d
LEMMA OwnAt ==
  ASSUME PlacesDisjoint, IInv, NEW d \in Conn,
         NEW p \in PlacesOf(d) \cup HostPlaces(d),
         NEW l \in links, l.at = p
  PROVE  l.owner = d
BY DEF PlacesDisjoint, IInv, Inv, TypeOK, LinkType, OwnPlaces

LEMMA DelOwn ==
  ASSUME PlacesDisjoint, IInv, NEW d \in Conn,
         NEW p \in PlacesOf(d) \cup HostPlaces(d),
         links' = LinkDel(links, p)
  PROVE  OthersKept(d) /\ OwnPlaces'
<1>1. OthersKept(d)
  BY OwnAt DEF LinkDel, At, Paired, OthersKept
<1>2. OwnPlaces'
  BY DEF LinkDel, OwnPlaces, IInv
<1> QED
  BY <1>1, <1>2

LEMMA MoveOwn ==
  ASSUME PlacesDisjoint, IInv, NEW d \in Conn, NEW p \in PlacesOf(d),
         NEW q \in PlacesOf(d), NEW l \in At(links, q),
         links' = LinkMove(links, l, p)
  PROVE  OthersKept(d) /\ OwnPlaces'
<1>1. l \in links /\ l.owner = d
  BY OwnAt DEF At
<1>2. l \in LinkType
  BY <1>1 DEF IInv, Inv, TypeOK
<1> DEFINE m == [l EXCEPT !.at = p]
<1>3. m.owner = d /\ m.at = p
  BY <1>1, <1>2 DEF LinkType
<1>4. links' = (links \ {l}) \cup {m}
  BY DEF LinkMove
<1> HIDE DEF m
<1>5. OthersKept(d)
  BY <1>1, <1>3, <1>4 DEF OthersKept
<1>6. OwnPlaces'
  BY <1>3, <1>4 DEF OwnPlaces, IInv
<1> QED
  BY <1>5, <1>6

LEMMA SameLinks ==
  ASSUME IInv, UNCHANGED links, NEW d
  PROVE  OthersKept(d) /\ OwnPlaces'
BY DEF OthersKept, OwnPlaces, IInv

-----------------------------------------------------------------------------
(* The steps that change links *)

LEMMA HandPlaces ==
  ASSUME IInv, NEW d \in Conn, op[d].cur \in Endpoint
  PROVE  /\ Here(d) \in PlacesOf(d)
         /\ Inserted(d, op[d].cur, op[d].end) \in PlacesOf(d)
         /\ <<FwdNs, DevName(d, op[d].cur, op[d].end)>> \in PlacesOf(d)
<1>1. op[d].end \in Ends
  BY DEF IInv, Inv, TypeOK, OpType
<1> QED
  BY <1>1, PlacesTyped DEF Here

LEMMA CreateOwn ==
  ASSUME PlacesDisjoint, IInv, NEW d \in Conn,
         Check(d) \/ Add(d) \/ Move(d) \/ Rename(d)
  PROVE  OthersKept(d) /\ OwnPlaces'
<1>1. op[d].cur \in Endpoint /\ op[d].end \in Ends
  BY DEF Check, Add, Move, Rename, IInv, Inv, TypeOK, AtHand, Working, OpType
<1>2. CASE Check(d)
  <2>1. UNCHANGED links \/ links' = LinkDel(links, Here(d))
    BY <1>2 DEF Check
  <2> QED
    BY <1>1, <2>1, HandPlaces, DelOwn, SameLinks
<1>3. CASE Add(d)
  <2> DEFINE new == Added(d)
  <2>1. UNCHANGED links \/ links' = links \cup new
    BY <1>3 DEF Add
  <2>2. \A l \in new : l.owner = d /\ l.at \in PlacesOf(d)
    BY <1>1, PlacesTyped DEF Added, NewLink
  <2> HIDE DEF new
  <2>3. CASE links' = links \cup new
    BY <2>2, <2>3 DEF OthersKept, OwnPlaces, IInv
  <2> QED
    BY <2>1, <2>3, SameLinks
<1>4. CASE Move(d)
  <2> DEFINE q == <<FwdNs, DevName(d, op[d].cur, op[d].end)>>
             p == Inserted(d, op[d].cur, op[d].end)
  <2>1. \/ UNCHANGED links
        \/ \E l \in At(links, q) : links' = LinkMove(links, l, p)
    BY <1>4 DEF Move
  <2>2. q \in PlacesOf(d) /\ p \in PlacesOf(d)
    BY <1>1, HandPlaces
  <2> HIDE DEF q, p
  <2> QED
    BY <2>1, <2>2, MoveOwn, SameLinks
<1>5. CASE Rename(d)
  <2> DEFINE q == Inserted(d, op[d].cur, op[d].end)
  <2>1. \/ UNCHANGED links
        \/ \E l \in At(links, q) : links' = LinkMove(links, l, Here(d))
    BY <1>5 DEF Rename, Renamed
  <2>2. q \in PlacesOf(d) /\ Here(d) \in PlacesOf(d)
    BY <1>1, HandPlaces
  <2> HIDE DEF q
  <2> QED
    BY <2>1, <2>2, MoveOwn, SameLinks
<1> QED
  BY <1>2, <1>3, <1>4, <1>5

LEMMA DeleteOwn ==
  ASSUME PlacesDisjoint, IInv, NEW d \in Conn, Delete(d)
  PROVE  OthersKept(d) /\ OwnPlaces'
<1>1. op[d].after = "undo" => op[d].cur \in Endpoint
  BY DEF Delete, IInv, Inv, AtHand
<1>2. Named(d) \in Endpoint
  BY <1>1 DEF Named, Delete, IInv, Inv, AtHand
<1>3. DeletePlace(d) \in PlacesOf(d) \cup HostPlaces(d)
  BY <1>2 DEF DeletePlace, EndPlace, PlacesOf, HostPlaces
<1>4. UNCHANGED links \/ links' = LinkDel(links, DeletePlace(d))
  BY DEF Delete, RemoveLink
<1> QED
  BY <1>3, <1>4, DelOwn, SameLinks

LEMMA LoseOwn ==
  ASSUME PlacesDisjoint, IInv, LoseLink
  PROVE  /\ OwnPlaces'
         /\ \E d \in Conn : /\ OthersKept(d)
                            /\ \A x \in Conn \ {d} : op'[x] = op[x]
                            /\ op'[d] = op[d] => op' = op
<1>1. PICK l \in links :
        /\ links' = LinkDel(links, l.at)
        /\ op' = [op EXCEPT ![l.owner].lost = op[l.owner].pc # "idle"]
  BY DEF LoseLink
<1>2. l.owner \in Conn /\ l.at \in PlacesOf(l.owner)
  BY DEF IInv, Inv, TypeOK, LinkType, OwnPlaces
<1>3. OthersKept(l.owner) /\ OwnPlaces'
  BY <1>1, <1>2, DelOwn
<1>4. op \in [Conn -> OpType]
  BY DEF IInv, Inv, TypeOK
<1>5. /\ \A x \in Conn \ {l.owner} : op'[x] = op[x]
      /\ op'[l.owner] = op[l.owner] => op' = op
  BY <1>1, <1>2, <1>4
<1> QED
  BY <1>2, <1>3, <1>5

-----------------------------------------------------------------------------
(* The theorem *)

\* The steps that change links change no other handler
OnlyOp(d) == op' = [op EXCEPT ![d] = op'[d]]

LEMMA GotoOnlyOp ==
  ASSUME IInv, NEW d \in Conn,
         \/ \E pc \in PCs : Goto(d, pc)
         \/ \E arg, after : CallClose(d, arg, after)
         \/ CreateFailed(d)
         \/ \E cache : Created(d, cache)
  PROVE  OnlyOp(d)
<1>1. op \in [Conn -> OpType]
  BY DEF IInv, Inv, TypeOK
<1>2. CASE \E pc \in PCs : Goto(d, pc)
  BY <1>1, <1>2 DEF Goto, OnlyOp
<1>3. CASE \E arg, after : CallClose(d, arg, after)
  BY <1>1, <1>3 DEF CallClose, OnlyOp
<1>4. CASE CreateFailed(d)
  BY <1>1, <1>4 DEF CreateFailed, Goto, CallClose, OnlyOp
<1>5. CASE \E cache : Created(d, cache)
  BY <1>1, <1>5 DEF Created, OnlyOp
<1> QED
  BY <1>2, <1>3, <1>4, <1>5

LEMMA LinkStepOnlyOp ==
  ASSUME IInv, NEW d \in Conn,
         Check(d) \/ Add(d) \/ Move(d) \/ Rename(d) \/ Delete(d)
  PROVE  OnlyOp(d)
<1>1. CASE Check(d)
  <2>1. (IF IsLocal(d, op[d].cur) /\ op[d].end = "dst" THEN "move" ELSE "add")
          \in PCs
    BY DEF PCs
  <2> QED
    BY <1>1, <2>1, GotoOnlyOp DEF Check
<1>2. CASE Add(d) \/ Move(d) \/ Rename(d)
  BY <1>2, GotoOnlyOp DEF Add, Move, Rename, PCs
<1>3. CASE Delete(d)
  <2>1. CASE op' = [op EXCEPT ![d].end = "dst"]
    BY <2>1 DEF OnlyOp, IInv, Inv, TypeOK, OpType
  <2>2. CASE Goto(d, Below(d))
    BY <2>2, BelowPC, GotoOnlyOp
  <2> QED
    BY <1>3, <2>1, <2>2 DEF Delete
<1> QED
  BY <1>1, <1>2, <1>3

\* Either the links stay, or one connection's handler changed its own
LEMMA NextOwn ==
  ASSUME PlacesDisjoint, IInv, [Next]_vars
  PROVE  /\ OwnPlaces'
         /\ \/ UNCHANGED links
            \/ \E d \in Conn : /\ OthersKept(d)
                               /\ op'[d] = op[d] => op' = op
<1>1. op \in [Conn -> OpType]
  BY DEF IInv, Inv, TypeOK
<1>2. ASSUME NEW d \in Conn,
             Check(d) \/ Add(d) \/ Move(d) \/ Rename(d) \/ Delete(d)
      PROVE  OwnPlaces' /\ OthersKept(d) /\ (op'[d] = op[d] => op' = op)
  <2>1. OwnPlaces' /\ OthersKept(d)
    BY <1>2, CreateOwn, DeleteOwn
  <2>2. op'[d] = op[d] => op' = op
    BY <1>1, <1>2, LinkStepOnlyOp DEF OnlyOp
  <2> QED
    BY <2>1, <2>2
<1>3. ASSUME NEW d \in Conn,
             \/ Select(d) \/ Refresh(d) \/ Close(d)
             \/ SwitchPeer(d) \/ Accept(d) \/ Refuse(d) \/ Configure(d)
             \/ Apply(d) \/ Return(d) \/ LateError(d) \/ Failed(d)
             \/ Unstore(d) \/ Disconnect(d) \/ Panic(d)
      PROVE  UNCHANGED links
  BY <1>3 DEF Select, Refresh, Start, Close, SwitchPeer, Accept,
              Refuse, Configure, Apply, Return, LateError, Failed, Unstore,
              Disconnect, Panic, Crash
<1>4. CASE Restart \/ UNCHANGED vars
  <2>1. UNCHANGED links
    BY <1>4 DEF Restart, Crash, vars
  <2> QED
    BY <2>1, SameLinks
<1>5. CASE LoseLink
  BY <1>5, LoseOwn
<1> QED
  BY <1>2, <1>3, <1>4, <1>5, SameLinks DEF Next, Handler

\* The interleaving property of XConnect: when the deployment keeps the
\* interface names of different connections apart, no step of one handler
\* (including its retries, its cleanups and its failures) adds, moves,
\* renames or deletes a device of another connection.
THEOREM IsolationTheorem == ASSUME PlacesDisjoint PROVE Spec => Isolation
<1>1. Init => IInv
  BY InitInv DEF IInv, OwnPlaces, Init
<1>2. IInv /\ [Next]_vars => IInv'
  BY NextInv, NextOwn DEF IInv
<1>3. ASSUME IInv, [Next]_vars
      PROVE  [\A c \in Conn : op'[c] = op[c] /\ op' # op
                              => LinksOf(c)' = LinksOf(c)]_vars
  <2>1. ASSUME NEW c \in Conn, op'[c] = op[c], op' # op
        PROVE  LinksOf(c)' = LinksOf(c)
    <3>1. CASE UNCHANGED links
      BY <3>1 DEF LinksOf
    <3>2. ASSUME NEW d \in Conn, OthersKept(d), op'[d] = op[d] => op' = op
          PROVE  LinksOf(c)' = LinksOf(c)
      BY <2>1, <3>2 DEF OthersKept, LinksOf
    <3> QED
      BY <1>3, <3>1, <3>2, NextOwn
  <2> QED
    BY <2>1
<1> QED
  BY <1>1, <1>2, <1>3, PTL DEF Spec, Isolation

-----------------------------------------------------------------------------
(* A connection has one veth pair at most *)

\* The way of the client's end: added, inserted, renamed
Ground(c) == <<FwdNs, LinkName[c]>>
Middle(c) == <<ClientIf[c][1], LinkName[c]>>
SrcPlaces(c) == {Ground(c), Middle(c), ClientIf[c]}

\* ... and of the endpoint's
GroundPeer(c) == <<FwdNs, PeerName[c]>>
DstPlaces(c) ==
  {GroundPeer(c)} \cup {NseIf[c][e] : e \in Endpoint}
    \cup {<<NseIf[c][e][1], PeerName[c]>> : e \in Endpoint}

\* What the deployment has to provide beside PlacesDisjoint: a client is not
\* in the forwarder's namespace, nor asks for an interface with the name the
\* forwarder gives to new devices; the names of the two ends differ, and no
\* place on the way of one end is on the way of the other.
NamesDistinct ==
  \A c \in Conn :
    /\ Ground(c) # Middle(c) /\ ClientIf[c] \notin {Ground(c), Middle(c)}
    /\ SrcPlaces(c) \cap DstPlaces(c) = {}

-----------------------------------------------------------------------------
(* The invariant, for the links L of a connection and its handler o *)

Veth(L, end) == {l \in L : l.kind = "veth" /\ l.end = end}
Own(c, L) == \A l \in L : l \in LinkType /\ l.owner = c

\* Both ends of a pair come and go together; until the client's end has its
\* name the other one stays where it was added, and nothing else has that name
Shape(c, L) ==
  /\ \A l, m \in L : l.at = m.at => l = m
  /\ \A l \in L : /\ l.kind = "veth" => Outgoing(c)
                  /\ Outgoing(c) /\ l.end = "src" => l.at \in SrcPlaces(c)
                  /\ Outgoing(c) /\ l.end = "dst" => /\ l.at \in DstPlaces(c)
                                                     /\ l.kind = "veth"
  /\ \A end \in Ends : \A l, m \in Veth(L, end) : l = m
  /\ Veth(L, "src") = {} <=> Veth(L, "dst") = {}
  /\ \A l \in Veth(L, "src") :
       l.at # ClientIf[c] => /\ \A m \in L : m.at # ClientIf[c]
                             /\ \A m \in Veth(L, "dst") : m.at = GroundPeer(c)

\* Where the client's end is while a handler makes an interface
Phase(c, L, o) ==
  Outgoing(c) /\ o.pc \in {"check", "add", "move", "rename"} =>
    /\ ~IsLocal(c, o.cur) => o.end = "src"
    /\ o.pc = "add" => o.end = "src" /\ \A l \in L : l.at # ClientIf[c]
    /\ o.pc = "move" /\ o.end = "src" =>
         \A l \in Veth(L, "src") :
           l.at = IF IsLocal(c, o.cur) THEN Ground(c) ELSE Middle(c)
    /\ o.pc = "rename" /\ o.end = "src" =>
         \A l \in Veth(L, "src") : IsLocal(c, o.cur) /\ l.at = Middle(c)
    /\ o.end = "dst" => \A l \in Veth(L, "src") : l.at = ClientIf[c]

Pairs(c) == Shape(c, LinksOf(c)) /\ Phase(c, LinksOf(c), op[c])

PInv == IInv /\ \A c \in Conn : Pairs(c)

-----------------------------------------------------------------------------
(* What the netlink calls do to the links of a connection *)

LEMMA OwnLinks ==
  ASSUME PInv, NEW c \in Conn
  PROVE  Own(c, LinksOf(c))
BY DEF PInv, IInv, Inv, TypeOK, Own, LinksOf

\* Deleting
LEMMA SubPhase ==
  ASSUME NEW c, NEW L, NEW K, NEW o, Phase(c, L, o), K \subseteq L
  PROVE  Phase(c, K, o)
BY DEF Phase, Veth

LEMMA SubShape ==
  ASSUME NEW c, NEW L, NEW K, Own(c, L), Shape(c, L), K \subseteq L,
         \A l, m \in L : Paired(l, m) /\ l \in K => m \in K
  PROVE  Shape(c, K)
<1>1. \A end \in Ends : Veth(K, end) \subseteq Veth(L, end)
  BY DEF Veth
<1>2. \A l \in Veth(L, "src"), m \in Veth(L, "dst") : l \in K <=> m \in K
  BY DEF Veth, Paired, Own
<1>3. Veth(K, "src") = {} <=> Veth(K, "dst") = {}
  BY <1>2 DEF Veth, Shape
<1> QED
  BY <1>1, <1>3 DEF Shape, Ends

LEMMA DelShape ==
  ASSUME PInv, NEW p, links' = LinkDel(links, p), NEW c \in Conn
  PROVE  /\ Shape(c, LinksOf(c)') /\ LinksOf(c)' \subseteq LinksOf(c)
         /\ \A l \in LinksOf(c)' : l.at # p
<1> DEFINE L == LinksOf(c)
           K == LinksOf(c)'
<1>1. K \subseteq L /\ \A l \in K : l.at # p
  BY DEF LinksOf, LinkDel
<1>2. ASSUME NEW l \in L, NEW m \in L, Paired(l, m), l \in K
      PROVE  m \in K
  BY <1>2 DEF LinksOf, LinkDel, At, Paired
<1>3. Shape(c, L) /\ Own(c, L)
  BY OwnLinks DEF PInv, Pairs
<1> HIDE DEF L, K
<1>4. Shape(c, K)
  BY <1>1, <1>2, <1>3, SubShape
<1> QED
  BY <1>1, <1>4 DEF K, L

\* Moving
LEMMA MoveLinks ==
  ASSUME PInv, NEW c \in Conn, NEW l \in LinksOf(c), NEW p,
         links' = LinkMove(links, l, p)
  PROVE  \E m : /\ LinksOf(c)' = (LinksOf(c) \ {l}) \cup {m}
                /\ m.at = p /\ m.kind = l.kind /\ m.end = l.end
                /\ m.owner = l.owner /\ m.to = l.to
<1> DEFINE m == [l EXCEPT !.at = p]
<1>1. l \in LinkType /\ l.owner = c
  BY OwnLinks DEF Own
<1>2. /\ m.at = p /\ m.kind = l.kind /\ m.end = l.end
      /\ m.owner = l.owner /\ m.to = l.to
  BY <1>1 DEF LinkType
<1>3. links' = (links \ {l}) \cup {m}
  BY DEF LinkMove
<1> HIDE DEF m
<1>4. LinksOf(c)' = (LinksOf(c) \ {l}) \cup {m}
  BY <1>1, <1>2, <1>3 DEF LinksOf
<1> QED
  BY <1>2, <1>4

\* ... the client's end of a pair, or a tunnel of the client
LEMMA MoveSrcShape ==
  ASSUME NamesDistinct, NEW c \in Conn, Outgoing(c), NEW L, Own(c, L),
         Shape(c, L), NEW l \in L, l.at \in SrcPlaces(c),
         NEW m, m.kind = l.kind, m.end = l.end, m.at \in SrcPlaces(c),
         \A k \in L : k.at # m.at,
         Veth(L, "src") = {} \/ (l.kind = "veth" /\ l.at # ClientIf[c])
  PROVE  Shape(c, (L \ {l}) \cup {m})
<1> DEFINE K == (L \ {l}) \cup {m}
<1>1. l.end = "src"
  BY DEF NamesDistinct, Shape, Own, LinkType, Ends
<1>2. /\ Veth(K, "dst") = Veth(L, "dst")
      /\ Veth(K, "src") = IF l.kind = "veth" THEN {m} ELSE Veth(L, "src")
  BY <1>1 DEF Veth, Shape, Ends
<1>3. \A x, y \in K : x.at = y.at => x = y
  BY DEF Shape
<1>4. \A k \in K : /\ k.kind = "veth" => Outgoing(c)
                   /\ k.end = "src" => k.at \in SrcPlaces(c)
                   /\ k.end = "dst" => k.at \in DstPlaces(c) /\ k.kind = "veth"
  BY <1>1 DEF Shape
<1>5. Veth(K, "src") = {} <=> Veth(K, "dst") = {}
  BY <1>1, <1>2 DEF Shape, Veth
<1>6. ASSUME NEW x \in Veth(K, "src"), x.at # ClientIf[c]
      PROVE  /\ \A y \in K : y.at # ClientIf[c]
             /\ \A y \in Veth(K, "dst") : y.at = GroundPeer(c)
  <2>1. l \in Veth(L, "src") /\ x = m /\ l.at # ClientIf[c]
    BY <1>1, <1>2, <1>6 DEF Veth
  <2> QED
    BY <1>2, <1>6, <2>1 DEF Shape
<1>7. \A end \in Ends : \A x, y \in Veth(K, end) : x = y
  BY <1>2 DEF Shape, Ends
<1> QED
  BY <1>3, <1>4, <1>5, <1>6, <1>7 DEF Shape

\* ... the endpoint's end of a pair whose other end has its name
LEMMA MoveDstShape ==
  ASSUME NamesDistinct, NEW c \in Conn, Outgoing(c), NEW L, Own(c, L),
         Shape(c, L), NEW l \in L, l.at \in DstPlaces(c),
         NEW m, m.kind = l.kind, m.end = l.end, m.at \in DstPlaces(c),
         \A k \in L : k.at # m.at,
         \A k \in Veth(L, "src") : k.at = ClientIf[c]
  PROVE  Shape(c, (L \ {l}) \cup {m}) /\ Veth((L \ {l}) \cup {m}, "src") = Veth(L, "src")
<1> DEFINE K == (L \ {l}) \cup {m}
<1>1. l.end = "dst" /\ l.kind = "veth"
  BY DEF NamesDistinct, Shape, Own, LinkType, Ends
<1>2. Veth(K, "src") = Veth(L, "src") /\ Veth(K, "dst") = {m}
  BY <1>1 DEF Veth, Shape, Ends
<1>3. \A x, y \in K : x.at = y.at => x = y
  BY DEF Shape
<1>4. \A k \in K : /\ k.kind = "veth" => Outgoing(c)
                   /\ k.end = "src" => k.at \in SrcPlaces(c)
                   /\ k.end = "dst" => k.at \in DstPlaces(c) /\ k.kind = "veth"
  BY <1>1 DEF Shape
<1>5. Veth(K, "src") # {}
  BY <1>1, <1>2 DEF Shape, Veth
<1>6. \A end \in Ends : \A x, y \in Veth(K, end) : x = y
  <2> HIDE DEF K
  <2>1. \A x, y \in Veth(K, "src") : x = y
    BY <1>2 DEF Shape, Ends
  <2> QED
    BY <1>2, <2>1 DEF Ends
<1> QED
  BY <1>2, <1>3, <1>4, <1>5, <1>6 DEF Shape

\* ... a tunnel of a connection from another node
LEMMA MoveFarShape ==
  ASSUME NEW c \in Conn, ~Outgoing(c), NEW L, Own(c, L), Shape(c, L),
         NEW l \in L, NEW m, m.kind = l.kind, m.end = l.end,
         \A k \in L : k.at # m.at
  PROVE  Shape(c, (L \ {l}) \cup {m})
BY DEF Shape, Veth

LEMMA MoveSrc ==
  ASSUME NamesDistinct, PInv, NEW c \in Conn, Outgoing(c),
         NEW l \in LinksOf(c), l.at \in {Ground(c), Middle(c)},
         NEW p \in SrcPlaces(c), At(links, p) = {},
         Veth(LinksOf(c), "src") \subseteq {l}, links' = LinkMove(links, l, p)
  PROVE  /\ Shape(c, LinksOf(c)')
         /\ \A k \in Veth(LinksOf(c)', "src") : k.at = p
<1> DEFINE L == LinksOf(c)
           K == LinksOf(c)'
<1>1. PICK m : K = (L \ {l}) \cup {m} /\ m.at = p /\ m.kind = l.kind /\ m.end = l.end
  BY MoveLinks
<1>2. Shape(c, L) /\ Own(c, L)
  BY OwnLinks DEF PInv, Pairs
<1>3. \A k \in L : k.at # p
  BY DEF At, LinksOf
<1>4. l.at \in SrcPlaces(c) /\ l.at # ClientIf[c]
  BY DEF NamesDistinct, SrcPlaces
<1> HIDE DEF L, K
<1>5. Veth(L, "src") = {} \/ l.kind = "veth"
  BY DEF Veth, L
<1>6. Shape(c, (L \ {l}) \cup {m})
  BY <1>1, <1>2, <1>3, <1>4, <1>5, MoveSrcShape DEF L
<1>7. \A k \in Veth(K, "src") : k.at = p
  BY <1>1 DEF Veth, L
<1> QED
  BY <1>1, <1>6, <1>7 DEF K

LEMMA MoveDst ==
  ASSUME NamesDistinct, PInv, NEW c \in Conn, Outgoing(c),
         NEW l \in LinksOf(c), l.at \in DstPlaces(c),
         NEW p \in DstPlaces(c), At(links, p) = {},
         \A k \in Veth(LinksOf(c), "src") : k.at = ClientIf[c],
         links' = LinkMove(links, l, p)
  PROVE  /\ Shape(c, LinksOf(c)')
         /\ \A k \in Veth(LinksOf(c)', "src") : k.at = ClientIf[c]
<1> DEFINE L == LinksOf(c)
           K == LinksOf(c)'
<1>1. PICK m : K = (L \ {l}) \cup {m} /\ m.at = p /\ m.kind = l.kind /\ m.end = l.end
  BY MoveLinks
<1>2. Shape(c, L) /\ Own(c, L)
  BY OwnLinks DEF PInv, Pairs
<1>3. \A k \in L : k.at # p
  BY DEF At, LinksOf
<1> HIDE DEF L, K
<1>4. Shape(c, (L \ {l}) \cup {m}) /\ Veth((L \ {l}) \cup {m}, "src") = Veth(L, "src")
  BY <1>1, <1>2, <1>3, MoveDstShape DEF L
<1> QED
  BY <1>1, <1>4 DEF K, L

LEMMA MoveFar ==
  ASSUME PInv, NEW c \in Conn, ~Outgoing(c), NEW l \in LinksOf(c), NEW p,
         At(links, p) = {}, links' = LinkMove(links, l, p)
  PROVE  Shape(c, LinksOf(c)')
<1> DEFINE L == LinksOf(c)
<1>1. PICK m : /\ LinksOf(c)' = (L \ {l}) \cup {m}
               /\ m.at = p /\ m.kind = l.kind /\ m.end = l.end
  BY MoveLinks
<1>2. Shape(c, L) /\ Own(c, L)
  BY OwnLinks DEF PInv, Pairs
<1>3. \A k \in L : k.at # p
  BY DEF At, LinksOf
<1> HIDE DEF L
<1> QED
  BY <1>1, <1>2, <1>3, MoveFarShape DEF L

-----------------------------------------------------------------------------
(* The steps that make interfaces *)

\* Nothing about the client's end is promised any more
Through(o) == o.pc \notin {"check", "add", "move", "rename"}

LEMMA ThroughPhase ==
  ASSUME NEW c, NEW L, NEW o, Through(o)
  PROVE  Phase(c, L, o)
BY DEF Through, Phase

LEMMA FailedThrough ==
  ASSUME PInv, NEW c \in Conn, CreateFailed(c)
  PROVE  Through(op'[c])
BY DEF CreateFailed, Goto, CallClose, Through, PInv, IInv, Inv, TypeOK, OpType

LEMMA GotoOp ==
  ASSUME PInv, NEW c \in Conn, NEW pc, Goto(c, pc)
  PROVE  op'[c].pc = pc /\ op'[c].end = op[c].end /\ op'[c].cur = op[c].cur
BY DEF Goto, PInv, IInv, Inv, TypeOK, OpType

LEMMA CreatedOp ==
  ASSUME PInv, NEW c \in Conn, NEW cache, Created(c, cache)
  PROVE  IF IsLocal(c, op[c].cur) /\ op[c].end = "src"
         THEN op'[c].pc = "check" /\ op'[c].end = "dst" /\ op'[c].cur = op[c].cur
         ELSE Through(op'[c])
BY DEF Created, Through, PInv, IInv, Inv, TypeOK, OpType

\* What is to be shown of a step of the handler of c
Keeps(c) == Shape(c, LinksOf(c)') /\ Phase(c, LinksOf(c)', op'[c])

LEMMA SameShape ==
  ASSUME PInv, NEW c \in Conn, UNCHANGED links
  PROVE  Shape(c, LinksOf(c)') /\ LinksOf(c)' = LinksOf(c)
BY DEF PInv, Pairs, LinksOf

\* A lookup by name finds the connection's own link
LEMMA OwnFound ==
  ASSUME PlacesDisjoint, PInv, NEW c \in Conn, NEW p \in PlacesOf(c),
         NEW l \in At(links, p)
  PROVE  l \in LinksOf(c) /\ l.at = p
BY OwnAt DEF At, LinksOf, PInv

LEMMA CheckPair ==
  ASSUME PlacesDisjoint, NamesDistinct, PInv, NEW c \in Conn, Check(c)
  PROVE  Keeps(c)
<1> DEFINE L == LinksOf(c)
           local == IsLocal(c, op[c].cur)
<1>1. op[c].pc = "check" /\ op[c].cur \in Endpoint /\ op[c].end \in Ends
  BY DEF Check, PInv, IInv, Inv, TypeOK, AtHand, Working, OpType
<1>2. Shape(c, L) /\ Phase(c, L, op[c])
  BY DEF PInv, Pairs
<1>3. Here(c) \in PlacesOf(c) /\ (op[c].end = "src" => Here(c) = ClientIf[c])
  BY <1>1, HandPlaces DEF Here, EndPlace, PInv
<1>4. CASE UNCHANGED links /\ CreateFailed(c)
  BY <1>4, SameShape, FailedThrough, ThroughPhase DEF Keeps
<1>5. CASE Cached(c) /\ Created(c, md[c].cache) /\ UNCHANGED links
  <2>1. CASE local /\ op[c].end = "src"
    <3>1. PICK l \in At(links, ClientIf[c]) : TRUE
      BY <1>3, <1>5, <2>1 DEF Cached
    <3>2. l \in L /\ l.at = ClientIf[c]
      BY <1>3, <2>1, <3>1, OwnFound
    <3>3. \A k \in Veth(L, "src") : k.at = ClientIf[c]
      BY <1>2, <3>2 DEF Shape
    <3>4. Phase(c, L, op'[c])
      BY <1>5, <2>1, <3>3, CreatedOp DEF Phase
    <3> QED
      BY <1>5, <3>4, SameShape DEF Keeps
  <2>2. CASE ~(local /\ op[c].end = "src")
    BY <1>5, <2>2, CreatedOp, SameShape, ThroughPhase DEF Keeps
  <2> QED
    BY <2>1, <2>2
<1>6. CASE /\ links' = LinkDel(links, Here(c))
           /\ Goto(c, IF local /\ op[c].end = "dst" THEN "move" ELSE "add")
  <2>1. /\ Shape(c, LinksOf(c)') /\ LinksOf(c)' \subseteq L
        /\ \A l \in LinksOf(c)' : l.at # Here(c)
    BY <1>6, DelShape
  <2>2. CASE local /\ op[c].end = "dst"
    <3>1. op'[c].pc = "move" /\ op'[c].end = "dst" /\ op'[c].cur = op[c].cur
      BY <1>6, <2>2, GotoOp
    <3>2. Phase(c, L, op'[c])
      BY <1>1, <1>2, <2>2, <3>1 DEF Phase
    <3> QED
      BY <2>1, <3>2, SubPhase DEF Keeps
  <2>3. CASE ~(local /\ op[c].end = "dst")
    <3>1. op'[c].pc = "add" /\ op'[c].end = op[c].end /\ op'[c].cur = op[c].cur
      BY <1>6, <2>3, GotoOp
    <3>2. Outgoing(c) => op[c].end = "src"
      BY <1>1, <1>2, <2>3 DEF Phase, Ends
    <3>3. Phase(c, LinksOf(c)', op'[c])
      BY <1>3, <2>1, <3>1, <3>2 DEF Phase
    <3> QED
      BY <2>1, <3>3 DEF Keeps
  <2> QED
    BY <2>2, <2>3
<1> QED
  BY <1>4, <1>5, <1>6 DEF Check

\* LinkAdd, where it succeeds
LEMMA AddedPair ==
  ASSUME PlacesDisjoint, NamesDistinct, PInv, NEW c \in Conn, op[c].pc = "add",
         \A l \in Added(c) : At(links, l.at) = {},
         links' = links \cup Added(c), Goto(c, "move")
  PROVE  Keeps(c)
<1> DEFINE L == LinksOf(c)
           K == LinksOf(c)'
           N == Added(c)
           e == op[c].cur
<1>1. e \in Endpoint /\ op[c].end \in Ends
  BY DEF PInv, IInv, Inv, TypeOK, AtHand, Working, OpType
<1>2. Shape(c, L) /\ Phase(c, L, op[c]) /\ Own(c, L)
  BY OwnLinks DEF PInv, Pairs
<1>3. K = L \cup N
  BY DEF LinksOf, Added, NewLink
<1>4. op'[c].pc = "move" /\ op'[c].end = op[c].end /\ op'[c].cur = e
  BY GotoOp
<1>5. \A n \in N, l \in L : l.at # n.at
  BY DEF At, LinksOf
<1>6. CASE ~Outgoing(c)
  <2>1. N = {NewLink(c, e, op[c].end)} /\ NewLink(c, e, op[c].end).kind = "vxlan"
    BY <1>6 DEF Added, IsLocal, Outgoing, NewLink, Kind
  <2> HIDE DEF N, L, K
  <2>2. Shape(c, L \cup N)
    BY <1>2, <1>5, <1>6, <2>1 DEF Shape, Veth
  <2> QED
    BY <1>3, <1>6, <2>2 DEF Keeps, Phase, K
<1>7. CASE Outgoing(c) /\ ~IsLocal(c, e)
  <2> DEFINE n == NewLink(c, e, "src")
  <2>1. op[c].end = "src" /\ \A l \in L : l.at # ClientIf[c]
    BY <1>2, <1>7 DEF Phase
  <2>2. N = {n}
    BY <1>7, <2>1 DEF Added
  <2>3. n.kind = "vxlan" /\ n.end = "src" /\ n.at = Ground(c)
    BY <1>7 DEF NewLink, Kind, DevName, Ground
  <2> HIDE DEF N, L, K, n, e
  <2>4. \A end \in Ends : Veth(L \cup N, end) = Veth(L, end)
    BY <2>2, <2>3 DEF Veth
  <2>5. Ground(c) # ClientIf[c]
    BY DEF NamesDistinct
  <2>6. \A x, y \in L \cup N : x.at = y.at => x = y
    BY <1>2, <1>5, <2>2 DEF Shape
  <2>7. \A x \in L \cup N :
          /\ x.kind = "veth" => Outgoing(c)
          /\ x.end = "src" => x.at \in SrcPlaces(c)
          /\ x.end = "dst" => x.at \in DstPlaces(c) /\ x.kind = "veth"
    BY <1>2, <1>7, <2>2, <2>3 DEF Shape, SrcPlaces
  <2>8. \A x \in L \cup N : x.at # ClientIf[c]
    BY <2>1, <2>2, <2>3, <2>5
  <2>9. Shape(c, L \cup N)
    BY <1>2, <1>7, <2>4, <2>6, <2>7, <2>8 DEF Shape, Ends
  <2>10. \A l \in Veth(L, "src") : l.at = Middle(c)
    BY <1>2, <1>5, <1>7, <2>1, <2>2, <2>3 DEF Shape, SrcPlaces, Veth
  <2>11. Phase(c, K, op'[c])
    BY <1>3, <1>4, <1>7, <2>1, <2>4, <2>10 DEF Phase, Ends
  <2> QED
    BY <1>3, <2>9, <2>11 DEF Keeps, K
<1>8. CASE Outgoing(c) /\ IsLocal(c, e)
  <2> DEFINE a == NewLink(c, e, "src")
             b == NewLink(c, e, "dst")
  <2>1. op[c].end = "src" /\ \A l \in L : l.at # ClientIf[c]
    BY <1>2, <1>8 DEF Phase
  <2>2. N = {a, b}
    BY <1>8 DEF Added, Ends
  <2>3. /\ a.kind = "veth" /\ a.end = "src" /\ a.at = Ground(c)
        /\ b.kind = "veth" /\ b.end = "dst" /\ b.at = GroundPeer(c)
    BY <1>8 DEF NewLink, Kind, DevName, Ground, GroundPeer
  <2> HIDE DEF N, L, K, a, b, e
  <2>4. Veth(L, "src") = {} /\ Veth(L, "dst") = {}
    <3>1. SUFFICES ASSUME NEW k \in Veth(L, "src") PROVE FALSE
      BY <1>2 DEF Shape
    <3>2. k \in L /\ k.at \in SrcPlaces(c) /\ k.at # ClientIf[c]
      BY <1>2, <1>8, <2>1 DEF Shape, Veth
    <3>3. PICK m \in Veth(L, "dst") : m.at = GroundPeer(c)
      BY <1>2, <3>2 DEF Shape
    <3> QED
      BY <1>5, <2>2, <2>3, <3>3 DEF Veth
  <2>5. Veth(L \cup N, "src") = {a} /\ Veth(L \cup N, "dst") = {b}
    BY <2>2, <2>3, <2>4 DEF Veth
  <2>6. Ground(c) # GroundPeer(c) /\ ClientIf[c] \notin {Ground(c), GroundPeer(c)}
    BY DEF NamesDistinct, SrcPlaces, DstPlaces
  <2>7. \A x, y \in L \cup N : x.at = y.at => x = y
    BY <1>2, <1>5, <2>2, <2>3, <2>6 DEF Shape
  <2>8. \A x \in L \cup N :
          /\ x.kind = "veth" => Outgoing(c)
          /\ x.end = "src" => x.at \in SrcPlaces(c)
          /\ x.end = "dst" => x.at \in DstPlaces(c) /\ x.kind = "veth"
    BY <1>2, <1>8, <2>2, <2>3 DEF Shape, SrcPlaces, DstPlaces
  <2>9. \A x \in L \cup N : x.at # ClientIf[c]
    BY <2>1, <2>2, <2>3, <2>6
  <2>10. Shape(c, L \cup N)
    <3> DEFINE M == L \cup N
    <3>1. /\ Veth(M, "src") = {a} /\ Veth(M, "dst") = {b}
          /\ \A x, y \in M : x.at = y.at => x = y
          /\ \A x \in M : /\ x.kind = "veth" => Outgoing(c)
                          /\ x.end = "src" => x.at \in SrcPlaces(c)
                          /\ x.end = "dst" => x.at \in DstPlaces(c) /\ x.kind = "veth"
          /\ \A x \in M : x.at # ClientIf[c]
      BY <2>5, <2>7, <2>8, <2>9
    <3> HIDE DEF M
    <3>2. \A end \in Ends : \A x, y \in Veth(M, end) : x = y
      BY <3>1 DEF Ends
    <3>3. Veth(M, "src") = {} <=> Veth(M, "dst") = {}
      BY <3>1
    <3> QED
      BY <2>3, <3>1, <3>2, <3>3 DEF Shape, M
  <2>11. Phase(c, K, op'[c])
    BY <1>3, <1>4, <1>8, <2>1, <2>3, <2>5 DEF Phase
  <2> QED
    BY <1>3, <2>10, <2>11 DEF Keeps, K
<1> QED
  BY <1>6, <1>7, <1>8

LEMMA AddPair ==
  ASSUME PlacesDisjoint, NamesDistinct, PInv, NEW c \in Conn, Add(c)
  PROVE  Keeps(c)
<1>1. CASE UNCHANGED links /\ CreateFailed(c)
  BY <1>1, SameShape, FailedThrough, ThroughPhase DEF Keeps
<1>2. CASE ~(UNCHANGED links /\ CreateFailed(c))
  BY <1>2, AddedPair DEF Add
<1> QED
  BY <1>1, <1>2

\* LinkSetNsFd, where it succeeds
LEMMA MovePair ==
  ASSUME PlacesDisjoint, NamesDistinct, PInv, NEW c \in Conn, Move(c)
  PROVE  Keeps(c)
<1> DEFINE L == LinksOf(c)
           e == op[c].cur
           from == <<FwdNs, DevName(c, e, op[c].end)>>
           dest == Inserted(c, e, op[c].end)
<1>1. op[c].pc = "move" /\ e \in Endpoint /\ op[c].end \in Ends
  BY DEF Move, PInv, IInv, Inv, TypeOK, AtHand, Working, OpType
<1>2. Shape(c, L) /\ Phase(c, L, op[c]) /\ Own(c, L)
  BY OwnLinks DEF PInv, Pairs
<1>3. CASE UNCHANGED links /\ CreateFailed(c)
  BY <1>3, SameShape, FailedThrough, ThroughPhase DEF Keeps
<1>4. CASE ~(UNCHANGED links /\ CreateFailed(c))
  <2>1. /\ At(links, dest) = {} /\ Goto(c, "rename")
        /\ \E l \in At(links, from) : links' = LinkMove(links, l, dest)
    BY <1>4 DEF Move
  <2>2. PICK l \in L : l.at = from /\ links' = LinkMove(links, l, dest)
    BY <1>1, <2>1, OwnFound, PlacesTyped
  <2>3. op'[c].pc = "rename" /\ op'[c].end = op[c].end /\ op'[c].cur = e
    BY <2>1, GotoOp
  <2>4. CASE ~Outgoing(c)
    BY <2>1, <2>2, <2>4, MoveFar DEF Keeps, Phase
  <2>5. CASE Outgoing(c) /\ op[c].end = "src"
    <3>1. from = Ground(c) /\ dest = Middle(c)
      BY <2>5 DEF DevName, Inserted, EndPlace, Ground, Middle
    <3>2. \A k \in L : k.at # Middle(c)
      BY <2>1, <3>1 DEF At, LinksOf
    <3>3. Veth(L, "src") \subseteq {l} /\ (~IsLocal(c, e) => Veth(L, "src") = {})
      <4>1. CASE IsLocal(c, e)
        <5>1. \A k \in Veth(L, "src") : k \in L /\ k.at = l.at
          BY <1>1, <1>2, <2>2, <2>5, <3>1, <4>1 DEF Phase, Veth
        <5> QED
          BY <1>2, <4>1, <5>1 DEF Shape
      <4>2. CASE ~IsLocal(c, e)
        BY <1>1, <1>2, <2>5, <3>2, <4>2 DEF Phase, Veth
      <4> QED
        BY <4>1, <4>2
    <3>4. /\ Shape(c, LinksOf(c)')
          /\ \A k \in Veth(LinksOf(c)', "src") : k.at = Middle(c)
      BY <2>1, <2>2, <2>5, <3>1, <3>3, MoveSrc DEF SrcPlaces
    <3>5. ~IsLocal(c, e) => Veth(LinksOf(c)', "src") = {}
      <4>1. PICK m : /\ LinksOf(c)' = (L \ {l}) \cup {m}
                     /\ m.kind = l.kind /\ m.end = l.end
        BY <2>2, MoveLinks
      <4> QED
        BY <1>2, <2>2, <2>5, <3>1, <3>3, <4>1
           DEF Veth, Shape, Own, LinkType, Ends, NamesDistinct, SrcPlaces
    <3>6. Phase(c, LinksOf(c)', op'[c])
      BY <2>3, <2>5, <3>4, <3>5 DEF Phase
    <3> QED
      BY <3>4, <3>6 DEF Keeps
  <2>6. CASE Outgoing(c) /\ op[c].end = "dst"
    <3>1. IsLocal(c, e) /\ \A k \in Veth(L, "src") : k.at = ClientIf[c]
      BY <1>1, <1>2, <2>6 DEF Phase
    <3>2. from \in DstPlaces(c) /\ dest \in DstPlaces(c)
      BY <1>1, <2>6, <3>1
         DEF DevName, Inserted, EndPlace, DstPlaces, GroundPeer
    <3>3. /\ Shape(c, LinksOf(c)')
          /\ \A k \in Veth(LinksOf(c)', "src") : k.at = ClientIf[c]
      BY <2>1, <2>2, <2>6, <3>1, <3>2, MoveDst
    <3>4. Phase(c, LinksOf(c)', op'[c])
      BY <2>3, <2>6, <3>1, <3>3 DEF Phase
    <3> QED
      BY <3>3, <3>4 DEF Keeps
  <2> QED
    BY <1>1, <2>4, <2>5, <2>6 DEF Ends
<1> QED
  BY <1>3, <1>4

\* LinkSetName
LEMMA RenamePair ==
  ASSUME PlacesDisjoint, NamesDistinct, PInv, NEW c \in Conn, Rename(c)
  PROVE  Keeps(c)
<1> DEFINE L == LinksOf(c)
           e == op[c].cur
           from == Inserted(c, e, op[c].end)
<1>1. op[c].pc = "rename" /\ e \in Endpoint /\ op[c].end \in Ends
  BY DEF Rename, PInv, IInv, Inv, TypeOK, AtHand, Working, OpType
<1>2. Shape(c, L) /\ Phase(c, L, op[c]) /\ Own(c, L)
  BY OwnLinks DEF PInv, Pairs
<1>3. CASE UNCHANGED links /\ CreateFailed(c)
  BY <1>3, SameShape, FailedThrough, ThroughPhase DEF Keeps
<1>4. CASE ~(UNCHANGED links /\ CreateFailed(c))
  <2>1. /\ At(links, Here(c)) = {}
        /\ \E l \in At(links, from) : links' = LinkMove(links, l, Here(c))
        /\ CreateFailed(c) \/ Created(c, md[c].cache \cup {op[c].end})
    BY <1>4 DEF Rename, Renamed
  <2>2. PICK l \in L : l.at = from /\ links' = LinkMove(links, l, Here(c))
    <3>1. from \in PlacesOf(c)
      BY <1>1, PlacesTyped
    <3> HIDE DEF from
    <3> QED
      BY <2>1, <3>1, OwnFound
  <2>3. \/ Through(op'[c])
        \/ op[c].end = "src" /\ op'[c].pc = "check" /\ op'[c].end = "dst"
    BY <2>1, FailedThrough, CreatedOp
  <2>4. CASE ~Outgoing(c)
    BY <2>1, <2>2, <2>4, MoveFar DEF Keeps, Phase
  <2>5. CASE Outgoing(c) /\ op[c].end = "src"
    <3>1. from = Middle(c) /\ Here(c) = ClientIf[c]
      BY <2>5 DEF DevName, Inserted, EndPlace, Middle, Here
    <3>2. \A k \in Veth(L, "src") : k \in L /\ k.at = l.at
      BY <1>1, <1>2, <2>2, <2>5, <3>1 DEF Phase, Veth
    <3>3. Veth(L, "src") \subseteq {l}
      BY <1>2, <3>2 DEF Shape
    <3>4. /\ Shape(c, LinksOf(c)')
          /\ \A k \in Veth(LinksOf(c)', "src") : k.at = ClientIf[c]
      BY <2>1, <2>2, <2>5, <3>1, <3>3, MoveSrc DEF SrcPlaces
    <3>5. CASE Through(op'[c])
      BY <3>4, <3>5, ThroughPhase DEF Keeps
    <3>6. CASE op'[c].pc = "check" /\ op'[c].end = "dst"
      <4>1. IsLocal(c, op'[c].cur)
        BY <2>1, <2>5, <3>6, CreatedOp, FailedThrough DEF Through
      <4> QED
        BY <3>4, <3>6, <4>1 DEF Phase, Keeps
    <3> QED
      BY <2>3, <3>5, <3>6
  <2>6. CASE Outgoing(c) /\ op[c].end = "dst"
    <3>1. IsLocal(c, e) /\ \A k \in Veth(L, "src") : k.at = ClientIf[c]
      BY <1>1, <1>2, <2>6 DEF Phase
    <3>2. from \in DstPlaces(c) /\ Here(c) \in DstPlaces(c)
      BY <1>1, <2>6, <3>1 DEF DevName, Inserted, EndPlace, DstPlaces, Here
    <3>3. Shape(c, LinksOf(c)')
      BY <2>1, <2>2, <2>6, <3>1, <3>2, MoveDst
    <3> QED
      BY <2>3, <2>6, <3>3, ThroughPhase DEF Keeps
  <2> QED
    BY <1>1, <2>4, <2>5, <2>6 DEF Ends
<1> QED
  BY <1>3, <1>4

-----------------------------------------------------------------------------
(* The other steps *)

LEMMA DeletePair ==
  ASSUME PInv, NEW c \in Conn, Delete(c)
  PROVE  Keeps(c)
<1>1. op \in [Conn -> OpType] /\ op[c].pc = "delete"
  BY DEF PInv, IInv, Inv, TypeOK, Delete
<1>2. Below(c) \notin {"check", "add", "move", "rename"}
  BY BelowPC DEF Working
<1>3. op' = [op EXCEPT ![c].end = "dst"] \/ Goto(c, Below(c))
  BY DEF Delete
<1>4. Through(op'[c])
  BY <1>1, <1>2, <1>3 DEF Through, Goto, OpType
<1>5. UNCHANGED links \/ links' = LinkDel(links, DeletePlace(c))
  BY DEF Delete, RemoveLink
<1> QED
  BY <1>4, <1>5, SameShape, DelShape, ThroughPhase DEF Keeps

\* A handler changes its own connection only
LEMMA OnlyPair ==
  ASSUME PInv, NEW d \in Conn, OthersKept(d), Keeps(d),
         \A c \in Conn \ {d} : op'[c] = op[c]
  PROVE  \A c \in Conn : Pairs(c)'
<1>1. ASSUME NEW c \in Conn, c # d
      PROVE  Keeps(c)
  <2>1. LinksOf(c)' = LinksOf(c) /\ op'[c] = op[c]
    BY <1>1 DEF OthersKept, LinksOf
  <2> QED
    BY <2>1 DEF Keeps, PInv, Pairs
<1>2. \A c \in Conn : Keeps(c)
  BY <1>1
<1> QED
  BY <1>2 DEF Keeps, Pairs

\* The handler leaves the devices alone, and does not go on to make one;
\* or begins to
Rests(c) ==
  /\ UNCHANGED links
  /\ \A x \in Conn \ {c} : op'[x] = op[x]
  /\ \/ op'[c] = op[c] \/ Through(op'[c])
     \/ op'[c].pc = "check" /\ op'[c].end = FirstEnd(c)

LEMMA RestsPair ==
  ASSUME PInv, NEW c \in Conn, Rests(c)
  PROVE  \A x \in Conn : Pairs(x)'
<1>1. LinksOf(c)' = LinksOf(c) /\ Shape(c, LinksOf(c)')
  BY SameShape DEF Rests
<1>2. Phase(c, LinksOf(c), op'[c])
  <2>1. CASE op'[c] = op[c]
    BY <2>1 DEF PInv, Pairs
  <2>2. CASE Through(op'[c])
    BY <2>2, ThroughPhase
  <2>3. CASE op'[c].pc = "check" /\ op'[c].end = FirstEnd(c)
    BY <2>3 DEF Phase, FirstEnd
  <2> QED
    BY <2>1, <2>2, <2>3 DEF Rests
<1>3. Keeps(c) /\ OthersKept(c)
  BY <1>1, <1>2 DEF Keeps, OthersKept, Rests
<1> QED
  BY <1>3, OnlyPair DEF Rests

LEMMA CallRests ==
  ASSUME PInv, NEW c \in Conn, Select(c) \/ Refresh(c) \/ Close(c)
  PROVE  Rests(c)
<1>1. op \in [Conn -> OpType]
  BY DEF PInv, IInv, Inv, TypeOK
<1>2. ASSUME NEW e, NEW n, NEW bare, Start(c, e, n, bare)
      PROVE  Rests(c)
  BY <1>1, <1>2 DEF Start, Rests, Through, Idle
<1>3. CASE Close(c)
  BY <1>1, <1>3 DEF Close, CallClose, Rests, Through, OpType
<1> QED
  BY <1>2, <1>3 DEF Select, Refresh

LEMMA HandlerRests ==
  ASSUME PInv, NEW c \in Conn,
         \/ SwitchPeer(c) \/ Accept(c) \/ Refuse(c) \/ Configure(c) \/ Apply(c)
         \/ Return(c) \/ LateError(c) \/ Failed(c) \/ Unstore(c) \/ Disconnect(c)
  PROVE  Rests(c)
<1>1. op \in [Conn -> OpType]
  BY DEF PInv, IInv, Inv, TypeOK
<1>2. \A pc \in PCs \ {"check", "add", "move", "rename"} :
        Goto(c, pc) => Through(op'[c]) /\ \A x \in Conn \ {c} : op'[x] = op[x]
  BY <1>1 DEF Goto, Through, OpType
<1>3. \A arg, after :
        CallClose(c, arg, after) =>
          Through(op'[c]) /\ \A x \in Conn \ {c} : op'[x] = op[x]
  BY <1>1 DEF CallClose, Through, OpType
<1>4. Below(c) \notin {"check", "add", "move", "rename"}
  BY BelowPC DEF Working
<1>5. CASE SwitchPeer(c) \/ Refuse(c)
  BY <1>3, <1>5 DEF SwitchPeer, Refuse, Refused, Rests
<1>6. CASE Accept(c)
  BY <1>1, <1>6 DEF Accept, Rests, OpType
<1>7. CASE Configure(c) \/ Apply(c)
  BY <1>2, <1>3, <1>7 DEF Configure, Apply, Rests, PCs
<1>8. CASE Return(c) \/ LateError(c) \/ Failed(c)
  <2>1. UNCHANGED links /\ \E o : op' = [op EXCEPT ![c] = o] /\ Through(o)
    <3>1. Through(Idle)
      BY DEF Through, Idle
    <3>2. \A e, n : Through([Idle EXCEPT !.pc = "call", !.cur = e,
                        !.bare = op[c].bare, !.fresh = op[c].fresh, !.tries = n])
      BY DEF Through, Idle
    <3>3. CASE Return(c) \/ LateError(c)
      BY <3>1, <3>3 DEF Return, LateError, GiveUp
    <3>4. CASE Failed(c)
      BY <3>1, <3>2, <3>4 DEF Failed, GiveUp
    <3> QED
      BY <1>8, <3>3, <3>4
  <2> QED
    BY <1>1, <2>1 DEF Rests
<1>9. CASE Unstore(c)
  BY <1>1, <1>4, <1>9 DEF Unstore, Rests, Through, OpType
<1>10. CASE Disconnect(c)
  <2>1. op' = [op EXCEPT ![c] = Idle] \/ Goto(c, "failed")
    BY <1>10 DEF Disconnect
  <2> QED
    BY <1>1, <1>2, <1>10, <2>1 DEF Disconnect, Rests, Through, Idle, PCs
<1> QED
  BY <1>5, <1>6, <1>7, <1>8, <1>9, <1>10

\* A crash, of all handlers at once; and a lost interface
LEMMA CrashPair ==
  ASSUME PInv, Crash
  PROVE  \A c \in Conn : Pairs(c)'
<1>1. ASSUME NEW c \in Conn
      PROVE  Keeps(c)
  <2>1. Through(op'[c]) /\ UNCHANGED links
    BY DEF Crash, Through, Idle
  <2> QED
    BY <2>1, SameShape, ThroughPhase DEF Keeps
<1> QED
  BY <1>1 DEF Keeps, Pairs

LEMMA LosePair ==
  ASSUME PInv, LoseLink
  PROVE  \A c \in Conn : Pairs(c)'
<1>1. PICK p, d, v :
        links' = LinkDel(links, p) /\ op' = [op EXCEPT ![d].lost = v]
  <2>1. PICK l \in links :
          /\ links' = LinkDel(links, l.at)
          /\ op' = [op EXCEPT ![l.owner].lost = op[l.owner].pc # "idle"]
    BY DEF LoseLink
  <2> QED
    BY <2>1
<1>2. ASSUME NEW c \in Conn
      PROVE  Keeps(c)
  <2>1. Shape(c, LinksOf(c)') /\ LinksOf(c)' \subseteq LinksOf(c)
    BY <1>1, DelShape
  <2>2. /\ op'[c].pc = op[c].pc /\ op'[c].end = op[c].end
        /\ op'[c].cur = op[c].cur
    BY <1>1 DEF PInv, IInv, Inv, TypeOK, OpType
  <2>3. Phase(c, LinksOf(c), op'[c])
    BY <2>2 DEF PInv, Pairs, Phase
  <2> QED
    BY <2>1, <2>3, SubPhase DEF Keeps
<1> QED
  BY <1>2 DEF Keeps, Pairs

LEMMA NextPairs ==
  ASSUME PlacesDisjoint, NamesDistinct, PInv, [Next]_vars
  PROVE  \A c \in Conn : Pairs(c)'
<1>1. op \in [Conn -> OpType] /\ IInv
  BY DEF PInv, IInv, Inv, TypeOK
<1>2. ASSUME NEW d \in Conn,
             Check(d) \/ Add(d) \/ Move(d) \/ Rename(d) \/ Delete(d)
      PROVE  \A c \in Conn : Pairs(c)'
  <2>1. OthersKept(d)
    BY <1>1, <1>2, CreateOwn, DeleteOwn
  <2>2. \A c \in Conn \ {d} : op'[c] = op[c]
    BY <1>1, <1>2, LinkStepOnlyOp DEF OnlyOp
  <2>3. Keeps(d)
    BY <1>2, CheckPair, AddPair, MovePair, RenamePair, DeletePair
  <2> QED
    BY <2>1, <2>2, <2>3, OnlyPair
<1>3. ASSUME NEW d \in Conn,
             \/ Select(d) \/ Refresh(d) \/ Close(d)
             \/ SwitchPeer(d) \/ Accept(d) \/ Refuse(d) \/ Configure(d)
             \/ Apply(d) \/ Return(d) \/ LateError(d) \/ Failed(d)
             \/ Unstore(d) \/ Disconnect(d)
      PROVE  \A c \in Conn : Pairs(c)'
  BY <1>3, CallRests, HandlerRests, RestsPair
<1>4. CASE Restart \/ \E d \in Conn : Panic(d)
  BY <1>4, CrashPair DEF Restart, Panic
<1>5. CASE LoseLink
  BY <1>5, LosePair
<1>6. CASE UNCHANGED vars
  BY <1>6 DEF vars, PInv, Pairs, LinksOf
<1> QED
  BY <1>2, <1>3, <1>4, <1>5, <1>6 DEF Next, Handler

LEMMA InitPInv == Init => PInv
<1>1. Init => IInv
  BY InitInv DEF IInv, OwnPlaces, Init
<1>2. Init => \A c \in Conn : LinksOf(c) = {} /\ op[c].pc = "idle"
  BY DEF Init, LinksOf, Idle
<1> QED
  BY <1>1, <1>2 DEF PInv, Pairs, Shape, Phase, Veth

LEMMA NextPInv ==
  ASSUME PlacesDisjoint, NamesDistinct, PInv, [Next]_vars
  PROVE  PInv'
<1>1. IInv'
  BY NextInv, NextOwn DEF PInv, IInv
<1> QED
  BY <1>1, NextPairs DEF PInv

\* getVethLinkNamePair, veth.Create: the two fixed names of new devices and
\* the order in which the ends are inserted and renamed keep a connection
\* from ever having two veth pairs, so that deleting the one interface Close
\* knows deletes every veth device of it.
THEOREM OnePairTheorem ==
  ASSUME PlacesDisjoint, NamesDistinct PROVE Spec => []OnePair
<1>1. Init => PInv
  BY InitPInv
<1>2. PInv /\ [Next]_vars => PInv'
  BY NextPInv
<1>3. PInv => OnePair
  <2> SUFFICES ASSUME PInv, NEW l \in links, NEW m \in links,
                      Paired(l, m), l.end = m.end
               PROVE  l = m
    BY DEF OnePair
  <2> DEFINE c == l.owner
  <2>1. l \in LinkType /\ m \in LinkType
    BY DEF PInv, IInv, Inv, TypeOK
  <2>2. c \in Conn /\ l.end \in Ends
    BY <2>1 DEF LinkType
  <2>3. l \in Veth(LinksOf(c), l.end) /\ m \in Veth(LinksOf(c), l.end)
    BY DEF Paired, Veth, LinksOf
  <2>4. Shape(c, LinksOf(c))
    BY <2>2 DEF PInv, Pairs
  <2> QED
    BY <2>2, <2>3, <2>4 DEF Shape
<1> QED
  BY <1>1, <1>2, <1>3, PTL DEF Spec

=============================================================================
