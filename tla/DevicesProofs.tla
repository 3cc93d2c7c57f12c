---------------------------- MODULE DevicesProofs ----------------------------
(***************************************************************************)
(* Where the devices of a connection are, at every step of every attempt,  *)
(* cleanup and Close, and what the metadata knows of them: proved for      *)
(* every set of connections, endpoints and nodes.                          *)
(***************************************************************************)
EXTENDS RoutesProofs

-----------------------------------------------------------------------------
(* At the place of the first interface there is all of it, or nothing *)

\* What the deployment has to provide beside NamesDistinct: the interface of
\* an endpoint is not in the forwarder's namespace, and has not the name the
\* forwarder gives to new devices.
EndpointsApart ==
  \A c \in Conn, e \in Endpoint :
    NseIf[c][e][1] # FwdNs /\ NseIf[c][e][2] \notin {LinkName[c], PeerName[c]}

\* ... and the first interface of a connection stays where it is, whatever
\* endpoint it is given: a client has one interface, and a connection from
\* another node keeps to one endpoint here.
OneHome ==
  \A c \in Conn : \A e, f \in Candidates(c) :
    EndPlace(c, e, FirstEnd(c)) = EndPlace(c, f, FirstEnd(c))

Home(c) == EndPlace(c, CHOOSE e \in Candidates(c) : TRUE, FirstEnd(c))
Mid(c) == <<Home(c)[1], LinkName[c]>>

Alone(c, L) ==
  \A l \in L : l.end = FirstEnd(c) =>
    /\ l.at \in {Ground(c), Mid(c), Home(c)}
    /\ l.at = Home(c) \/ NoneAt(L, Home(c))

Lone(c) ==
  /\ Alone(c, LinksOf(c))
  /\ op[c].pc \in {"add", "move", "rename"} /\ op[c].end = FirstEnd(c) =>
       /\ NoneAt(LinksOf(c), Home(c))
       /\ op[c].pc = "rename" => NoneAt(LinksOf(c), Ground(c))

LInv == EInv /\ \A c \in Conn : Lone(c)

LEMMA HomeIs ==
  ASSUME OneHome, NEW c \in Conn, NEW e \in Candidates(c)
  PROVE  /\ EndPlace(c, e, FirstEnd(c)) = Home(c)
         /\ Inserted(c, e, FirstEnd(c)) = Mid(c)
         /\ <<FwdNs, DevName(c, e, FirstEnd(c))>> = Ground(c)
<1>1. EndPlace(c, e, FirstEnd(c)) = Home(c)
  <2>1. (CHOOSE f \in Candidates(c) : TRUE) \in Candidates(c)
    OBVIOUS
  <2> QED
    BY <2>1 DEF OneHome, Home
<1>2. DevName(c, e, FirstEnd(c)) = LinkName[c]
  BY DEF DevName, IsLocal, FirstEnd, Outgoing
<1> QED
  BY <1>1, <1>2 DEF Inserted, Mid, Ground

LEMMA HomeApart ==
  ASSUME NamesDistinct, EndpointsApart, OneHome, NEW c \in Conn, NEW e \in Candidates(c)
  PROVE  Ground(c) # Mid(c) /\ Home(c) \notin {Ground(c), Mid(c)}
<1>1. Home(c) = EndPlace(c, e, FirstEnd(c)) /\ e \in Endpoint
  BY HomeIs, NullIs
<1>2. CASE Outgoing(c)
  BY <1>1, <1>2 DEF NamesDistinct, Middle, Mid, EndPlace, FirstEnd
<1>3. CASE ~Outgoing(c)
  <2>1. Home(c)[1] # FwdNs /\ Home(c)[2] # LinkName[c]
    BY <1>1, <1>3 DEF EndpointsApart, EndPlace, FirstEnd
  <2>2. /\ Ground(c)[1] = FwdNs
        /\ Mid(c)[1] = Home(c)[1] /\ Mid(c)[2] = LinkName[c]
    BY DEF Ground, Mid
  <2> QED
    BY <2>1, <2>2
<1> QED
  BY <1>2, <1>3

LEMMA OutgoingHome ==
  ASSUME NEW c \in Conn, Outgoing(c)
  PROVE  FirstEnd(c) = "src" /\ Home(c) = ClientIf[c] /\ Mid(c) = Middle(c)
BY DEF FirstEnd, Home, Mid, Middle, EndPlace

LEMMA SubAlone ==
  ASSUME NEW c, NEW L, Alone(c, L), NEW K \in SUBSET L
  PROVE  Alone(c, K)
BY DEF Alone, NoneAt

\* LinkAdd, with nothing at home
LEMMA AddAlone ==
  ASSUME NamesDistinct, EndpointsApart, OneHome, NEW c \in Conn,
         NEW e \in Candidates(c), NEW L, Alone(c, L), NoneAt(L, Home(c)), NEW N,
         \A n \in N : \/ n.end = FirstEnd(c) /\ n.at = Ground(c)
                      \/ n.end # FirstEnd(c) /\ Outgoing(c) /\ n.at = GroundPeer(c)
  PROVE  Alone(c, L \cup N) /\ NoneAt(L \cup N, Home(c))
<1>1. Outgoing(c) => GroundPeer(c) # Home(c)
  BY OutgoingHome DEF NamesDistinct, SrcPlaces, DstPlaces
<1>2. Ground(c) # Home(c)
  BY HomeApart
<1> QED
  BY <1>1, <1>2 DEF Alone, NoneAt

\* The first interface on its way home
LEMMA FirstAlone ==
  ASSUME NamesDistinct, EndpointsApart, OneHome, NEW c \in Conn,
         NEW e \in Candidates(c), NEW L, NEW K, NEW from, NEW to,
         Alone(c, L), NoneAt(L, Home(c)), \A l, m \in L : l.at = m.at => l = m,
         Moved(L, K, from, to),
         \/ from = Ground(c) /\ to = Mid(c)
         \/ from = Mid(c) /\ to = Home(c) /\ NoneAt(L, Ground(c))
  PROVE  /\ Alone(c, K)
         /\ to = Mid(c) => NoneAt(K, Home(c)) /\ NoneAt(K, Ground(c))
<1>1. PICK l, m :
        /\ l \in L
        /\ K = (L \ {l}) \cup {m} /\ l.at = from /\ m.at = to
        /\ m.end = l.end
  BY DEF Moved
<1>2. Ground(c) # Mid(c) /\ Home(c) \notin {Ground(c), Mid(c)}
  BY HomeApart
<1> QED
  BY <1>1, <1>2 DEF Alone, NoneAt

\* The second one never comes there
LEMMA SecondAlone ==
  ASSUME NamesDistinct, NEW c \in Conn, Outgoing(c), NEW L, NEW K, Own(c, L), Shape(c, L),
         NEW from \in DstPlaces(c), NEW to \in DstPlaces(c),
         Alone(c, L), Moved(L, K, from, to)
  PROVE  Alone(c, K)
<1>1. PICK l, m :
        /\ l \in L
        /\ K = (L \ {l}) \cup {m} /\ l.at = from /\ m.at = to
        /\ m.end = l.end
  BY DEF Moved
<1>2. l.end # "src" /\ to # ClientIf[c]
  BY <1>1 DEF Shape, NamesDistinct, SrcPlaces
<1> QED
  BY <1>1, <1>2, OutgoingHome DEF Alone, NoneAt

\* Where a handler is on the way
LEMMA AtWork ==
  ASSUME EInv, OneHome, NEW c \in Conn, op[c].pc \in Making,
         op[c].cur \in Endpoint, op[c].end \in Ends
  PROVE  /\ op[c].cur \in Candidates(c)
         /\ op[c].pc = "add" => op[c].end = FirstEnd(c)
         /\ op[c].end = FirstEnd(c) => Here(c) = Home(c)
         /\ op[c].end # FirstEnd(c) => /\ Outgoing(c) /\ IsLocal(c, op[c].cur)
                                       /\ op[c].end = "dst"
<1>1. Eligible(c) /\ Phase(c, LinksOf(c), op[c])
  BY DEF EInv, PInv, Pairs
<1>2. op[c].cur \in Candidates(c)
  BY CurCandidate
<1>3. CASE ~Outgoing(c)
  BY <1>1, <1>2, <1>3, HomeIs DEF Eligible, FirstEnd, Here
<1>4. CASE Outgoing(c)
  BY <1>1, <1>2, <1>4, HomeIs DEF Phase, Making, FirstEnd, Here, Ends
<1> QED
  BY <1>3, <1>4

\* Not on its way
LEMMA RestsLone ==
  ASSUME LInv, NEW c \in Conn, LinksOf(c)' \in SUBSET LinksOf(c),
         \/ op'[c].pc \notin {"add", "move", "rename"}
         \/ op'[c].pc = op[c].pc /\ op'[c].end = op[c].end
  PROVE  Lone(c)'
<1> DEFINE L == LinksOf(c)
           K == LinksOf(c)'
<1>1. Lone(c)
  BY DEF LInv
<1>2. Alone(c, K)
  BY <1>1, SubAlone DEF Lone
<1>3. \A p : NoneAt(L, p) => NoneAt(K, p)
  BY DEF NoneAt
<1> HIDE DEF L, K
<1>4. op[c].pc \in {"add", "move", "rename"} /\ op[c].end = FirstEnd(c) =>
        /\ NoneAt(L, Home(c))
        /\ op[c].pc = "rename" => NoneAt(L, Ground(c))
  BY <1>1 DEF Lone, L
<1>5. /\ Home(c)' = Home(c) /\ Ground(c)' = Ground(c) /\ FirstEnd(c)' = FirstEnd(c)
      /\ Alone(c, LinksOf(c))' <=> Alone(c, K)
      /\ \A p : NoneAt(LinksOf(c), p)' <=> NoneAt(K, p)
  BY DEF Home, Ground, FirstEnd, Outgoing, EndPlace, Candidates, Alone, NoneAt, Mid, K
<1> QED
  BY <1>2, <1>3, <1>4, <1>5 DEF Lone

LEMMA CreateLone ==
  ASSUME PlacesDisjoint, NamesDistinct, EndpointsApart, OneHome, LInv,
         NEW c \in Conn, Create(c)
  PROVE  Lone(c)'
<1> DEFINE L == LinksOf(c)
           K == LinksOf(c)'
           first == op[c].end = FirstEnd(c)
<1>1. /\ EInv /\ PInv /\ Eligible(c) /\ Shape(c, L) /\ Phase(c, L, op[c]) /\ Own(c, L)
      /\ Alone(c, L)
  BY OwnLinks DEF LInv, EInv, PInv, Pairs, Lone
<1>2. op[c].pc \in Making /\ op[c].cur \in Endpoint /\ op[c].end \in Ends
  BY <1>1, CheckEffect, AddEffect, MoveEffect, RenameEffect DEF Making, Create
<1>3. /\ op[c].cur \in Candidates(c)
      /\ op[c].pc = "add" => first
      /\ first => Here(c) = Home(c)
      /\ ~first => Outgoing(c) /\ IsLocal(c, op[c].cur) /\ op[c].end = "dst"
  BY <1>1, <1>2, AtWork
<1>4. op[c].pc \in {"add", "move", "rename"} /\ first =>
        NoneAt(L, Home(c)) /\ (op[c].pc = "rename" => NoneAt(L, Ground(c)))
  BY DEF LInv, Lone
<1>5. /\ CreateFailed(c) => op'[c].pc \in {"failed", "close"}
      /\ \A cache : Created(c, cache) => op'[c].pc \in {"check", "configure", "apply"}
      /\ \A pc : Goto(c, pc) => op'[c].pc = pc /\ op'[c].end = op[c].end
  BY <1>1, CreateFailedFields, CreatedFields, GotoFields DEF SameBut, After
<1>6. ASSUME Alone(c, K),
             op'[c].pc \in {"add", "move", "rename"} =>
               ~first \/ (NoneAt(K, Home(c)) /\ (op'[c].pc = "rename" => NoneAt(K, Ground(c)))),
             op'[c].pc \in {"add", "move", "rename"} => op'[c].end = op[c].end
      PROVE  Lone(c)'
  BY <1>6 DEF Lone, Home, Ground, FirstEnd, Outgoing, EndPlace, Candidates, Alone, NoneAt, Mid
<1>7. K = L \/ K \in SUBSET L => Alone(c, K)
  BY <1>1, SubAlone
<1>8. CASE Check(c)
  <2>1. CASE K = L /\ op'[c].pc \notin {"add", "move", "rename"}
    BY <1>6, <1>7, <2>1
  <2>2. CASE /\ K = LinkDel(L, Here(c))
             /\ op'[c].pc \in {"move", "add"} /\ op'[c].end = op[c].end
    <3>1. K \in SUBSET L /\ NoneAt(K, Here(c))
      BY <2>2 DEF LinkDel, NoneAt
    <3> QED
      BY <1>3, <1>6, <1>7, <2>2, <3>1
  <2> QED
    BY <1>1, <1>5, <1>8, <2>1, <2>2, CheckEffect DEF Gives
<1>9. CASE Add(c)
  <2>1. CASE K = L /\ op'[c].pc \notin {"add", "move", "rename"}
    BY <1>6, <1>7, <2>1
  <2>2. CASE K = L \cup Added(c) /\ op'[c].pc = "move" /\ op'[c].end = op[c].end
    <3> DEFINE N == Added(c)
    <3>1. op[c].pc = "add" /\ first
      BY <1>1, <1>3, <1>9, AddEffect
    <3>2. \A n \in N : \/ n.end = FirstEnd(c) /\ n.at = Ground(c)
                       \/ n.end # FirstEnd(c) /\ Outgoing(c) /\ n.at = GroundPeer(c)
      BY <3>1
         DEF Added, NewLink, DevName, IsLocal, FirstEnd, Outgoing, Ground, GroundPeer, Ends
    <3>3. NoneAt(L, Home(c))
      BY <1>4, <3>1
    <3> HIDE DEF N, L, K
    <3>4. Alone(c, L \cup N) /\ NoneAt(L \cup N, Home(c))
      BY <1>1, <1>3, <3>2, <3>3, AddAlone
    <3>5. Alone(c, K) /\ NoneAt(K, Home(c))
      BY <2>2, <3>4 DEF N
    <3> QED
      BY <1>6, <2>2, <3>5
  <2> QED
    BY <1>1, <1>5, <1>9, <2>1, <2>2, AddEffect DEF Gives
<1>10. \A from, to : Shifted(c, from, to) => Moved(L, K, from, to)
  BY <1>1, ShiftedMoved
<1>11. \A l, m \in L : l.at = m.at => l = m
  BY <1>1 DEF Shape
<1>12. CASE Move(c)
  <2> DEFINE from == <<FwdNs, DevName(c, op[c].cur, op[c].end)>>
             dest == Inserted(c, op[c].cur, op[c].end)
  <2>1. CASE K = L /\ op'[c].pc \notin {"add", "move", "rename"}
    BY <1>6, <1>7, <2>1
  <2>2. CASE /\ Moved(L, K, from, dest) /\ op[c].pc = "move"
             /\ op'[c].pc = "rename" /\ op'[c].end = op[c].end
    <3>1. CASE first
      <4>1. from = Ground(c) /\ dest = Mid(c)
        BY <1>3, <3>1, HomeIs
      <4>2. Alone(c, K) /\ NoneAt(K, Home(c)) /\ NoneAt(K, Ground(c))
        BY <1>1, <1>3, <1>4, <1>11, <2>2, <3>1, <4>1, FirstAlone
      <4> QED
        BY <1>6, <2>2, <4>2
    <3>2. CASE ~first
      <4>1. from \in DstPlaces(c) /\ dest \in DstPlaces(c)
        BY <1>2, <1>3, <3>2 DEF DevName, Inserted, EndPlace, DstPlaces, GroundPeer
      <4>2. Alone(c, K)
        BY <1>1, <1>3, <2>2, <3>2, <4>1, SecondAlone
      <4> QED
        BY <1>6, <2>2, <3>2, <4>2
    <3> QED
      BY <3>1, <3>2
  <2> HIDE DEF from, dest
  <2> QED
    BY <1>1, <1>5, <1>10, <1>12, <2>1, <2>2, MoveEffect DEF Gives, from, dest
<1>13. CASE Rename(c)
  <2> DEFINE from == Inserted(c, op[c].cur, op[c].end)
  <2>1. CASE K = L /\ op'[c].pc \notin {"add", "move", "rename"}
    BY <1>6, <1>7, <2>1
  <2>2. CASE /\ Moved(L, K, from, Here(c)) /\ op[c].pc = "rename"
             /\ op'[c].pc \notin {"add", "move", "rename"}
    <3>1. CASE first
      <4>1. from = Mid(c) /\ Here(c) = Home(c)
        BY <1>3, <3>1, HomeIs
      <4>2. Alone(c, K)
        BY <1>1, <1>3, <1>4, <1>11, <2>2, <3>1, <4>1, FirstAlone
      <4> QED
        BY <1>6, <2>2, <4>2
    <3>2. CASE ~first
      <4>1. from \in DstPlaces(c) /\ Here(c) \in DstPlaces(c)
        BY <1>2, <1>3, <3>2 DEF DevName, Inserted, EndPlace, DstPlaces, Here
      <4>2. Alone(c, K)
        BY <1>1, <1>3, <2>2, <3>2, <4>1, SecondAlone
      <4> QED
        BY <1>6, <2>2, <4>2
    <3> QED
      BY <3>1, <3>2
  <2> HIDE DEF from
  <2> QED
    BY <1>1, <1>5, <1>10, <1>13, <2>1, <2>2, RenameEffect DEF Gives, from
<1> QED
  BY <1>8, <1>9, <1>12, <1>13 DEF Create

LEMMA StepLone ==
  ASSUME PlacesDisjoint, NamesDistinct, EndpointsApart, OneHome, LInv,
         NEW c \in Conn, Step(c)
  PROVE  Lone(c)'
<1>1. PInv /\ EInv
  BY DEF LInv, EInv
<1>2. CASE /\ LinksOf(c)' \in SUBSET LinksOf(c)
           /\ op'[c].pc \notin {"add", "move", "rename"} \/ op'[c] = op[c]
  BY <1>2, RestsLone
<1>3. CASE Select(c) \/ Refresh(c)
  BY <1>1, <1>2, <1>3, StartEffect DEF Still
<1>4. CASE Request(c)
  BY <1>1, <1>2, <1>4, SwitchPeerEffect, AcceptEffect, RefuseEffect, FailedEffect,
     LateErrorEffect, IdleFields DEF Request, SameBut, Still
<1>5. CASE Answer(c)
  BY <1>1, <1>2, <1>5, ConfigureEffect, ApplyEffect, ReturnEffect, IdleFields
     DEF Answer, SameBut, Still
<1>6. CASE Close(c)
  BY <1>1, <1>2, <1>6, CloseEffect DEF SameBut
<1>7. CASE Unstore(c)
  BY <1>1, <1>2, <1>7, UnstoreEffect, BelowIs DEF Still
<1>8. CASE Delete(c)
  <2>1. LinksOf(c)' \in SUBSET LinksOf(c)
    BY <1>1, <1>8, DeleteEffect DEF LinkDel
  <2> QED
    BY <1>1, <1>2, <1>8, <2>1, DeleteEffect, BelowIs DEF SameBut
<1>9. CASE Disconnect(c)
  BY <1>1, <1>2, <1>9, DisconnectEffect, IdleFields DEF SameBut
<1> QED
  BY <1>3, <1>4, <1>5, <1>6, <1>7, <1>8, <1>9, CreateLone DEF Step, Cleanup

LEMMA NextLInv ==
  ASSUME PlacesDisjoint, NamesDistinct, EndpointsApart, OneHome, LInv, [Next]_vars
  PROVE  LInv'
<1>1. EInv /\ PInv /\ EInv'
  BY NextEInv DEF LInv, EInv
<1>2. ASSUME NEW c \in Conn, Frame(c), NEW x \in Conn \ {c}
      PROVE  Lone(x)'
  BY <1>2, RestsLone DEF Frame, OthersKept, LinksOf
<1>3. CASE \E c \in Conn : Step(c)
  BY <1>1, <1>2, <1>3, StepLone, StepFrame DEF LInv
<1>4. CASE Crash
  <2>1. \A c \in Conn : LinksOf(c)' = LinksOf(c) /\ op'[c] = Idle
    BY <1>1, <1>4, CrashEffect
  <2> QED
    BY <1>1, <2>1, IdleFields, RestsLone DEF LInv
<1>5. CASE LoseLink
  <2>1. PICK c, p :
          /\ c \in Conn
          /\ LinksOf(c)' = LinkDel(LinksOf(c), p) /\ Frame(c)
          /\ op'[c] = [op[c] EXCEPT !.lost = op[c].pc # "idle"]
    BY <1>1, <1>5, LoseEffect
  <2>2. /\ LinksOf(c)' \in SUBSET LinksOf(c)
        /\ op'[c].pc = op[c].pc /\ op'[c].end = op[c].end
    BY <1>1, <2>1, LoseFields DEF LinkDel
  <2> QED
    BY <1>1, <1>2, <2>1, <2>2, RestsLone DEF LInv
<1>6. CASE UNCHANGED vars
  BY <1>1, <1>6, RestsLone DEF vars, LinksOf, LInv
<1> QED
  BY <1>3, <1>4, <1>5, <1>6, Steps

LEMMA InitLInv == Init => LInv
<1> SUFFICES ASSUME Init, NEW c \in Conn PROVE Lone(c)
  BY InitEInv DEF LInv
<1>1. LinksOf(c) = {} /\ op[c] = Idle
  BY DEF Init, LinksOf
<1> QED
  BY <1>1, IdleFields DEF Lone, Alone

\* veth.Delete, vxlan.Delete find a link by its interface name: beside a
\* working path there is no device of the connection that a Close would miss,
\* whatever refreshes, failures and restarts the connection has been through.
THEOREM NoStraysTheorem ==
  ASSUME PlacesDisjoint, NamesDistinct, EndpointsApart, OneHome
  PROVE  Spec => []NoStrays
<1>1. LInv => NoStrays
  <2> SUFFICES ASSUME LInv, NEW c \in Conn, NEW e \in Candidates(c), Path(c, e),
                      NEW l \in LinksOf(c)
               PROVE  \E end \in Ends : l.at = EndPlace(c, e, end)
    BY DEF NoStrays
  <2> DEFINE L == LinksOf(c)
  <2>1. /\ EInv /\ Eligible(c) /\ Shape(c, L) /\ Own(c, L) /\ Alone(c, L)
    BY OwnLinks DEF LInv, EInv, PInv, Pairs, Lone
  <2>2. Joined(c, L, e) /\ EndPlace(c, e, FirstEnd(c)) = Home(c) /\ FirstEnd(c) \in Ends
    BY PathJoined, HomeIs DEF FirstEnd, Ends
  <2>3. PICK k \in L : k.at = Home(c) /\ (~IsLocal(c, e) => k.kind = "vxlan")
    BY <2>2 DEF Joined, Leads, IsLocal, FirstEnd, Outgoing, Kind
  <2>4. CASE l.end = FirstEnd(c)
    BY <2>1, <2>2, <2>3, <2>4 DEF Alone, NoneAt
  <2>5. CASE l.end # FirstEnd(c)
    <3>1. Outgoing(c) /\ l.end = "dst" /\ l \in Veth(L, "dst")
      BY <2>1, <2>5 DEF Eligible, FirstEnd, Own, LinkType, Ends, Shape, Veth
    <3>2. IsLocal(c, e)
      <4>1. PICK m \in Veth(L, "src") : TRUE
        BY <2>1, <3>1 DEF Shape
      <4>2. m \in L /\ m.at = Home(c) /\ m.kind = "veth"
        BY <2>1, <2>3, <3>1, <4>1 DEF Alone, NoneAt, Veth, FirstEnd
      <4> QED
        BY <2>1, <2>3, <4>2 DEF Shape
    <3>3. PICK m \in Veth(L, "dst") : m.at = EndPlace(c, e, "dst")
      BY <2>2, <3>2 DEF Joined, Leads, Kind, Veth
    <3> QED
      BY <2>1, <3>1, <3>3 DEF Shape, Ends
  <2> QED
    BY <2>4, <2>5
<1>2. LInv /\ [Next]_vars => LInv'
  BY NextLInv
<1> QED
  BY <1>1, <1>2, InitLInv, PTL DEF Spec

-----------------------------------------------------------------------------
(* What deleting the interface at one place takes with it *)

\* ... is everything
Rooted(L, p) ==
  \A l \in L : l.at = p \/ \E m \in L : m.at = p /\ Paired(l, m)

LEMMA RootedDel ==
  ASSUME NEW L, NEW p, Rooted(L, p)
  PROVE  LinkDel(L, p) = {}
BY DEF Rooted, LinkDel, At

\* ... which stays so when something else is deleted
LEMMA RootedSub ==
  ASSUME NEW L, NEW p, NEW q, Rooted(L, p)
  PROVE  Rooted(LinkDel(L, q), p)
<1> DEFINE K == LinkDel(L, q)
<1>1. \A k \in K : k \in L /\ k.at # q /\ \A m \in L : m.at = q => ~Paired(k, m)
  BY DEF LinkDel, At
<1>2. ASSUME NEW k \in K, NEW m \in L, Paired(k, m)
      PROVE  m \in K
  BY <1>1, <1>2 DEF LinkDel, At, Paired
<1> HIDE DEF K
<1>3. Rooted(K, p)
  BY <1>1, <1>2 DEF Rooted
<1> QED
  BY <1>3 DEF K

\* ... and follows the device when it is moved
LEMMA RootedMoved ==
  ASSUME NEW L, NEW K, NEW from, NEW to, \A l, m \in L : l.at = m.at => l = m,
         Moved(L, K, from, to), Rooted(L, from)
  PROVE  Rooted(K, to)
<1>1. PICK l, m :
        /\ l \in L
        /\ K = (L \ {l}) \cup {m} /\ l.at = from /\ m.at = to
        /\ m.kind = l.kind /\ m.owner = l.owner
  BY DEF Moved
<1>2. \A k \in K : k = m \/ (k \in L /\ Paired(k, l))
  BY <1>1 DEF Rooted
<1>3. \A k : Paired(k, l) => Paired(k, m)
  BY <1>1 DEF Paired
<1> QED
  BY <1>1, <1>2, <1>3 DEF Rooted

LEMMA RootedStays ==
  ASSUME NEW L, NEW K, NEW from, NEW to, NEW p, p # from,
         Moved(L, K, from, to), Rooted(L, p)
  PROVE  Rooted(K, p)
<1>1. PICK l, m :
        /\ l \in L
        /\ K = (L \ {l}) \cup {m} /\ l.at = from /\ m.at = to
        /\ m.kind = l.kind /\ m.owner = l.owner
  BY DEF Moved
<1>2. \A k : Paired(l, k) => Paired(m, k)
  BY <1>1 DEF Paired
<1>3. \A n \in L : n.at = p => n \in K
  BY <1>1
<1> QED
  BY <1>1, <1>2, <1>3 DEF Rooted

\* A second device is the other end
LEMMA RootsMeet ==
  ASSUME NEW L, NEW p, \A l, m \in L : l.at = m.at => l = m, Rooted(L, p),
         NEW l \in L, l.at # p
  PROVE  Rooted(L, l.at)
<1>1. PICK m \in L : m.at = p /\ Paired(l, m)
  BY DEF Rooted
<1>2. \A k \in L : k = m \/ Paired(k, m)
  BY <1>1 DEF Rooted
<1>3. \A k \in L : Paired(k, l)
  BY <1>1, <1>2 DEF Paired
<1> QED
  BY <1>3 DEF Rooted

\* Where the two ends of a device cannot both be, there is one device
LEMMA OneEnd ==
  ASSUME NamesDistinct, NEW c \in Conn, NEW L, Own(c, L), Shape(c, L),
         NEW p, Rooted(L, p), NEW l \in L,
         \/ ~Outgoing(c) \/ {p, l.at} \subseteq SrcPlaces(c)
         \/ {p, l.at} \subseteq DstPlaces(c)
  PROVE  l.at = p
<1>1. SUFFICES ASSUME NEW m \in L, m.at = p, Paired(l, m)
               PROVE  l = m
  BY DEF Rooted
<1>2. l.kind = "veth" /\ m.kind = "veth" /\ l.end \in Ends /\ m.end \in Ends
  BY <1>1 DEF Paired, Own, LinkType
<1>3. Outgoing(c) /\ l.end = m.end
  BY <1>1, <1>2 DEF Shape, NamesDistinct, Ends
<1> QED
  BY <1>2, <1>3 DEF Shape, Veth

-----------------------------------------------------------------------------
(* Everything there is of a connection can be deleted in one go, from what *)
(* the handler and the metadata know; unless a failure has stranded some   *)

\* Nothing; or the path of an established connection, which can be closed
Kept(c, L, d, h) == L # {} => d # Null /\ h # Null /\ Rooted(L, Home(c))

\* The client's end is in place, the endpoint's still where it was added
Half(c, L) == Rooted(L, Home(c)) /\ Rooted(L, GroundPeer(c))

Alike(c, L, o) == IsLocal(c, o.cur) => \A l \in L : l.kind = "veth"

Doomed(o) == o.arg = "LOCAL" /\ DstCls[o.doomed] = "LOCAL"

\* While interfaces are made.  L are the links of c, o is its handler, d the
\* stored mechanism, h the established one.
TidyMaking(c, L, o, d, h) ==
  LET first == o.end = FirstEnd(c) IN
  /\ o.pc = "check" => Kept(c, L, d, h) \/ (~first /\ Half(c, L))
  /\ o.pc = "add" => L = {}
  /\ o.pc = "move" => IF first THEN Rooted(L, Ground(c)) /\ Alike(c, L, o)
                               ELSE Kept(c, L, d, h) \/ Half(c, L)
  /\ o.pc = "rename" =>
       IF first THEN Rooted(L, Mid(c)) /\ Alike(c, L, o)
                ELSE Rooted(L, Home(c)) /\ Rooted(L, Inserted(c, o.cur, "dst"))

TidyElse(c, L, o, d, h) ==
  /\ o.pc \in {"idle", "call", "failed"} => Kept(c, L, d, h)
  /\ o.pc = "configure" => Rooted(L, Home(c)) /\ Rooted(L, NseIf[c][o.cur])
  /\ o.pc \in {"apply", "return", "close"} => L = {} \/ (d # Null /\ Rooted(L, Home(c)))
  /\ o.pc = "delete" => IF Doomed(o) /\ o.end = "dst" THEN L = {} ELSE Rooted(L, Home(c))
  /\ o.pc = "disconnect" => L = {}

TidyFor(c, L, o, d, h) == TidyMaking(c, L, o, d, h) /\ TidyElse(c, L, o, d, h)

Tidy(c) == ~leak[c] => TidyFor(c, LinksOf(c), op[c], md[c].dst, est[c])

\* A link of the path is in the cache of its end
Known(c, L, cache) ==
  /\ \A l \in L : l.at = Home(c) => FirstEnd(c) \in cache
  /\ Outgoing(c) => \A l \in L, e \in Endpoint : l.at = NseIf[c][e] => "dst" \in cache

Noted(c) == ~leak[c] => Known(c, LinksOf(c), md[c].cache)

TInv == LInv /\ \A c \in Conn : Tidy(c) /\ Noted(c)

LEMMA TidyFacts ==
  ASSUME TInv, NEW c \in Conn
  PROVE  /\ PInv /\ EInv /\ LInv /\ Eligible(c) /\ Lone(c)
         /\ Shape(c, LinksOf(c)) /\ Phase(c, LinksOf(c), op[c]) /\ Own(c, LinksOf(c))
         /\ \A l, m \in LinksOf(c) : l.at = m.at => l = m
         /\ ~leak[c] => /\ TidyMaking(c, LinksOf(c), op[c], md[c].dst, est[c])
                        /\ TidyElse(c, LinksOf(c), op[c], md[c].dst, est[c])
                        /\ Known(c, LinksOf(c), md[c].cache)
BY OwnLinks DEF TInv, LInv, EInv, PInv, Pairs, Shape, Tidy, TidyFor, Noted

\* How a step is shown to keep both
LEMMA TidyStep ==
  ASSUME NEW c \in Conn, NEW L, L = LinksOf(c)', NEW o, o = op'[c],
         NEW d, d = md'[c].dst, NEW h, h = est'[c], NEW cache, cache = md'[c].cache,
         ~leak'[c] => TidyFor(c, L, o, d, h) /\ Known(c, L, cache)
  PROVE  Tidy(c)' /\ Noted(c)'
<1>1. TidyFor(c, LinksOf(c), op[c], md[c].dst, est[c])' <=> TidyFor(c, L, o, d, h)
  BY DEF TidyFor, TidyMaking, TidyElse, Kept, Half, Alike, Doomed, Rooted, Paired,
         Home, Mid, Ground, GroundPeer, Inserted, DevName, EndPlace, IsLocal,
         FirstEnd, Outgoing, Candidates
<1>2. Known(c, LinksOf(c), md[c].cache)' <=> Known(c, L, cache)
  BY DEF Known, Home, EndPlace, FirstEnd, Outgoing, Candidates
<1> QED
  BY <1>1, <1>2 DEF Tidy, Noted

\* Deleting leaves things as tidy as they were
LEMMA DelTidy ==
  ASSUME NEW c, NEW L, NEW o, NEW d, NEW h, TidyFor(c, L, o, d, h),
         NEW K, NEW p, K = L \/ K = LinkDel(L, p),
         NEW u, u.pc = o.pc, u.end = o.end, u.cur = o.cur, u.arg = o.arg,
         u.doomed = o.doomed
  PROVE  TidyFor(c, K, u, d, h)
<1>1. K \subseteq L /\ \A q : Rooted(L, q) => Rooted(K, q)
  BY RootedSub DEF LinkDel
<1>2. Kept(c, L, d, h) => Kept(c, K, d, h)
  BY <1>1 DEF Kept
<1>3. (Half(c, L) => Half(c, K)) /\ (Alike(c, L, o) => Alike(c, K, u))
  BY <1>1 DEF Half, Alike
<1>4. TidyMaking(c, K, u, d, h)
  BY <1>1, <1>2, <1>3 DEF TidyFor, TidyMaking
<1>5. TidyElse(c, K, u, d, h)
  BY <1>1, <1>2 DEF TidyFor, TidyElse, Doomed
<1> QED
  BY <1>4, <1>5 DEF TidyFor

LEMMA SubKnown ==
  ASSUME NEW c, NEW L, NEW cache, Known(c, L, cache), NEW K \in SUBSET L
  PROVE  Known(c, K, cache)
BY DEF Known

\* Nothing is left
LEMMA NothingTidy ==
  ASSUME NEW c, NEW o, NEW d, NEW h, NEW cache,
         o.pc \notin {"check", "add", "move", "rename", "configure"}
  PROVE  TidyFor(c, {}, o, d, h) /\ Known(c, {}, cache)
BY DEF TidyFor, TidyMaking, TidyElse, Kept, Rooted, Known

\* Between requests, and before interfaces are made
LEMMA KeptTidy ==
  ASSUME NEW c, NEW L, NEW o, NEW d, NEW h, Kept(c, L, d, h),
         \/ o.pc \in {"idle", "call", "failed", "close", "check"}
  PROVE  TidyFor(c, L, o, d, h)
BY DEF TidyFor, TidyMaking, TidyElse, Kept

LEMMA RequestTidy ==
  ASSUME TInv, NEW c \in Conn, Select(c) \/ Refresh(c) \/ Request(c)
  PROVE  Tidy(c)' /\ Noted(c)'
<1> DEFINE L == LinksOf(c)
<1>1. /\ PInv /\ EInv /\ Eligible(c)
      /\ ~leak[c] => /\ TidyElse(c, L, op[c], md[c].dst, est[c])
                     /\ Known(c, L, md[c].cache)
  BY TidyFacts
<1>2. /\ LinksOf(c)' = L /\ est'[c] = est[c]
      /\ op[c].pc \in {"idle", "call", "failed"} \/ leak'[c]
      /\ op'[c].pc \in {"idle", "call", "close", "check"}
      /\ ~leak'[c] => ~leak[c] \/ L = {}
      /\ \/ md'[c].dst = md[c].dst /\ md'[c].cache = md[c].cache
         \/ leak'[c] \/ op[c].fresh
  <2>1. CASE Select(c) \/ Refresh(c)
    BY <1>1, <2>1, StartEffect DEF Still
  <2>2. CASE SwitchPeer(c) \/ Refuse(c)
    BY <1>1, <2>2, SwitchPeerEffect, RefuseEffect DEF Still, Calm, SameBut
  <2>3. CASE Accept(c)
    BY <1>1, <2>3, AcceptEffect DEF Still, Calm
  <2>4. CASE Failed(c)
    BY <1>1, <2>4, FailedEffect, IdleFields DEF Still
  <2>5. CASE LateError(c)
    BY <1>1, <2>5, LateErrorEffect, IdleFields DEF Still
  <2> QED
    BY <2>1, <2>2, <2>3, <2>4, <2>5 DEF Request
<1>3. CASE leak'[c] \/ L = {}
  <2>1. \A o, d, h, cache : o.pc \in {"idle", "call", "close", "check"} =>
          TidyFor(c, {}, o, d, h) /\ Known(c, {}, cache)
    BY KeptTidy DEF Kept, Known
  <2>2. CASE leak'[c]
    BY <2>2, TidyStep
  <2>3. CASE L = {}
    <3>1. TidyFor(c, {}, op'[c], md'[c].dst, est'[c]) /\ Known(c, {}, md'[c].cache)
      BY <1>2, <2>1
    <3>2. {} = LinksOf(c)'
      BY <1>2, <2>3
    <3> QED
      BY <3>1, <3>2, TidyStep
  <2> QED
    BY <1>3, <2>2, <2>3
<1>4. CASE ~leak'[c] /\ L # {}
  <2>1. Kept(c, L, md[c].dst, est[c]) /\ Known(c, L, md[c].cache)
    BY <1>1, <1>2, <1>4 DEF TidyElse
  <2>2. md'[c].dst = md[c].dst /\ md'[c].cache = md[c].cache
    BY <1>1, <1>2, <1>4, <2>1 DEF Eligible, Kept
  <2> HIDE DEF L
  <2>3. \A o : o.pc \in {"idle", "call", "close", "check"} =>
          TidyFor(c, L, o, md[c].dst, est[c])
    BY <2>1, KeptTidy
  <2>4. TidyFor(c, L, op'[c], md'[c].dst, est'[c]) /\ Known(c, L, md'[c].cache)
    BY <1>2, <2>1, <2>2, <2>3
  <2> QED
    BY <1>2, <2>4, TidyStep DEF L
<1> QED
  BY <1>3, <1>4

LEMMA AnswerTidy ==
  ASSUME PlacesDisjoint, OneHome, TInv, NEW c \in Conn, Answer(c)
  PROVE  Tidy(c)' /\ Noted(c)'
<1> DEFINE L == LinksOf(c)
<1>1. /\ PInv /\ EInv /\ Eligible(c)
      /\ ~leak[c] => /\ TidyElse(c, L, op[c], md[c].dst, est[c])
                     /\ Known(c, L, md[c].cache)
  BY TidyFacts
<1>2. LinksOf(c)' = L /\ md'[c].cache = md[c].cache
  BY <1>1, ConfigureEffect, ApplyEffect, ReturnEffect DEF Answer, Still
<1>3. CASE leak'[c]
  BY <1>3, TidyStep
<1>4. CASE ~leak'[c]
  <2>1. ~leak[c]
    BY <1>1, <1>4, ConfigureEffect, ApplyEffect, ReturnEffect DEF Answer
  <2> HIDE DEF L
  <2>2. ASSUME op'[c].pc \in {"apply", "return", "close"},
               L = {} \/ (md'[c].dst # Null /\ Rooted(L, Home(c)))
        PROVE  TidyFor(c, L, op'[c], md'[c].dst, est'[c])
    BY <2>2 DEF TidyFor, TidyMaking, TidyElse
  <2>3. ASSUME op'[c].pc \in {"idle", "failed"}, Kept(c, L, md'[c].dst, est'[c])
        PROVE  TidyFor(c, L, op'[c], md'[c].dst, est'[c])
    BY <2>3, KeptTidy
  <2>4. TidyFor(c, L, op'[c], md'[c].dst, est'[c])
    <3>1. CASE Configure(c)
      <4>1. /\ op[c].pc = "configure" /\ op[c].cur \in Endpoint
            /\ \/ /\ op'[c].pc \in {"apply", "return"}
                  /\ md'[c].dst = op[c].cur
               \/ /\ op'[c].pc = "failed"
                  /\ \A l \in L : l.at # NseIf[c][op[c].cur]
        BY <1>1, <1>4, <3>1, ConfigureEffect DEF SameBut, L
      <4>2. Rooted(L, Home(c)) /\ Rooted(L, NseIf[c][op[c].cur])
        BY <1>1, <2>1, <4>1 DEF TidyElse
      <4> QED
        BY <2>2, <2>3, <4>1, <4>2, NullIs DEF Kept, Rooted
    <3>2. CASE Apply(c)
      <4>1. /\ op[c].pc = "apply" /\ op'[c].pc \in {"return", "close"}
            /\ md'[c] = md[c]
        BY <1>1, <3>2, ApplyEffect DEF SameBut
      <4> QED
        BY <1>1, <2>1, <2>2, <4>1 DEF TidyElse
    <3>3. CASE Return(c)
      <4>1. /\ op[c].pc = "return" /\ op[c].cur \in Endpoint /\ op'[c].pc = "idle"
            /\ md'[c] = md[c] /\ est'[c] = op[c].cur
        BY <1>1, <3>3, ReturnEffect, IdleFields
      <4> QED
        BY <1>1, <2>1, <2>3, <4>1, NullIs DEF TidyElse, Kept
    <3> QED
      BY <3>1, <3>2, <3>3 DEF Answer
  <2> QED
    BY <1>1, <1>2, <2>1, <2>4, TidyStep DEF L
<1> QED
  BY <1>3, <1>4

\* A cleanup that knows all places looks where the first interface is
LEMMA DeleteHome ==
  ASSUME OneHome, EInv, NEW c \in Conn, op[c].pc = "delete", op[c].doomed \in Endpoint,
         op[c].after = "undo" => op[c].cur \in Endpoint, ~OpensHost(c),
         ~(Doomed(op[c]) /\ op[c].end = "dst")
  PROVE  DeletePlace(c) = Home(c)
<1>1. Eligible(c) /\ op[c].end \in Ends
  BY IsEligible, Typed DEF OpType
<1>2. Named(c) \in Candidates(c)
  BY <1>1, ConstantsOK DEF Named, Eligible, CandOrNull, ConstantsOK
<1>3. Doomed(op[c]) => op[c].end = FirstEnd(c)
  BY <1>1 DEF Doomed, Eligible, FirstEnd, Ends
<1> QED
  BY <1>2, <1>3, HomeIs DEF DeletePlace, DoomedPair, Doomed

LEMMA CleanupTidy ==
  ASSUME PlacesDisjoint, OneHome, TInv, NEW c \in Conn, Cleanup(c)
  PROVE  Tidy(c)' /\ Noted(c)'
<1> DEFINE L == LinksOf(c)
<1>1. /\ PInv /\ EInv /\ Eligible(c)
      /\ ~leak[c] => /\ TidyElse(c, L, op[c], md[c].dst, est[c])
                     /\ Known(c, L, md[c].cache)
  BY TidyFacts
<1>2. CASE leak'[c]
  BY <1>2, TidyStep
<1>3. ASSUME ~leak'[c], Close(c)
      PROVE  Tidy(c)' /\ Noted(c)'
  <2>1. /\ LinksOf(c)' = L /\ ~leak[c] /\ op[c].pc = "idle" /\ op'[c].pc = "close"
        /\ md'[c] = md[c] /\ est'[c] = est[c]
    BY <1>1, <1>3, CloseEffect DEF SameBut
  <2> HIDE DEF L
  <2>2. Kept(c, L, md'[c].dst, est'[c])
    BY <1>1, <2>1 DEF TidyElse
  <2>3. TidyFor(c, L, op'[c], md'[c].dst, est'[c])
    BY <2>1, <2>2, KeptTidy
  <2> QED
    BY <1>1, <2>1, <2>3, TidyStep DEF L
<1>4. ASSUME ~leak'[c], Unstore(c)
      PROVE  Tidy(c)' /\ Noted(c)'
  <2>1. /\ LinksOf(c)' = L /\ ~leak[c] /\ op[c].pc = "close"
        /\ md'[c].cache = md[c].cache
        /\ op'[c].pc = IF md[c].dst = Null THEN Below(c) ELSE "delete"
        /\ op'[c].end = IF op[c].arg = "LOCAL" THEN "src" ELSE "dst"
        /\ op'[c].arg = op[c].arg
    BY <1>1, <1>4, UnstoreEffect DEF Still
  <2> HIDE DEF L
  <2>2. L = {} \/ (md[c].dst # Null /\ Rooted(L, Home(c)))
    BY <1>1, <2>1 DEF TidyElse
  <2>3. CASE md[c].dst = Null
    <3>1. L = {} /\ op'[c].pc \in {"failed", "disconnect"}
      BY <2>1, <2>2, <2>3, BelowIs
    <3>2. TidyFor(c, L, op'[c], md'[c].dst, est'[c])
      BY <3>1, NothingTidy
    <3> QED
      BY <1>1, <2>1, <3>2, TidyStep DEF L
  <2>4. CASE md[c].dst # Null
    <3>1. op'[c].pc = "delete" /\ Rooted(L, Home(c)) /\ ~(Doomed(op'[c]) /\ op'[c].end = "dst")
      BY <2>1, <2>2, <2>4 DEF Rooted, Doomed
    <3>2. TidyFor(c, L, op'[c], md'[c].dst, est'[c])
      BY <3>1 DEF TidyFor, TidyMaking, TidyElse
    <3> QED
      BY <1>1, <2>1, <3>2, TidyStep DEF L
  <2> QED
    BY <2>3, <2>4
<1>5. ASSUME ~leak'[c], Delete(c)
      PROVE  Tidy(c)' /\ Noted(c)'
  <2>1. /\ op[c].pc = "delete" /\ op[c].doomed \in Endpoint
        /\ op[c].after = "undo" => op[c].cur \in Endpoint
        /\ op'[c].doomed = op[c].doomed /\ op'[c].arg = op[c].arg
        /\ ~leak[c] /\ (OpensHost(c) => LinksOf(c)' = {})
        /\ LinksOf(c)' = LinkDel(L, DeletePlace(c))
        /\ IF DoomedPair(c) /\ op[c].end = "src"
           THEN op'[c].pc = "delete" /\ op'[c].end = "dst"
           ELSE op'[c].pc \in {"failed", "disconnect"}
    BY <1>1, <1>5, DeleteEffect, BelowIs DEF SameBut
  <2> HIDE DEF L
  <2>2. LinkDel(L, DeletePlace(c)) = {}
    <3>1. CASE Doomed(op[c]) /\ op[c].end = "dst"
      BY <1>1, <2>1, <3>1 DEF TidyElse, LinkDel
    <3>2. CASE OpensHost(c)
      BY <2>1, <3>2
    <3>3. CASE ~(Doomed(op[c]) /\ op[c].end = "dst") /\ ~OpensHost(c)
      <4>1. Rooted(L, Home(c))
        BY <1>1, <2>1, <3>3 DEF TidyElse
      <4> QED
        BY <1>1, <2>1, <3>3, <4>1, DeleteHome, RootedDel
    <3> QED
      BY <3>1, <3>2, <3>3
  <2>3. CASE DoomedPair(c) /\ op[c].end = "src"
    <3>1. op'[c].pc = "delete" /\ op'[c].end = "dst" /\ Doomed(op'[c])
      BY <2>1, <2>3 DEF DoomedPair, Doomed
    <3>2. /\ TidyFor(c, {}, op'[c], md'[c].dst, est'[c])
          /\ Known(c, {}, md'[c].cache)
      BY <3>1, NothingTidy
    <3> QED
      BY <2>1, <2>2, <3>2, TidyStep
  <2>4. CASE ~(DoomedPair(c) /\ op[c].end = "src")
    <3>1. op'[c].pc \in {"failed", "disconnect"}
      BY <2>1, <2>4
    <3>2. /\ TidyFor(c, {}, op'[c], md'[c].dst, est'[c])
          /\ Known(c, {}, md'[c].cache)
      BY <3>1, NothingTidy
    <3> QED
      BY <2>1, <2>2, <3>2, TidyStep
  <2> QED
    BY <2>3, <2>4
<1>6. ASSUME ~leak'[c], Disconnect(c)
      PROVE  Tidy(c)' /\ Noted(c)'
  <2>1. /\ LinksOf(c)' = L /\ ~leak[c] /\ op[c].pc = "disconnect"
        /\ op'[c].pc \in {"idle", "failed"}
    BY <1>1, <1>6, DisconnectEffect, IdleFields DEF SameBut
  <2>2. L = {}
    BY <1>1, <2>1 DEF TidyElse
  <2>3. TidyFor(c, {}, op'[c], md'[c].dst, est'[c]) /\ Known(c, {}, md'[c].cache)
    BY <2>1, NothingTidy
  <2> QED
    BY <2>1, <2>2, <2>3, TidyStep
<1> QED
  BY <1>2, <1>3, <1>4, <1>5, <1>6 DEF Cleanup

\* A failed Create that has stranded nothing
LEMMA GivesTidy ==
  ASSUME TInv, NEW c \in Conn, CreateFailed(c), md'[c] = md[c], est'[c] = est[c],
         LinksOf(c)' = LinksOf(c), leak'[c] = leak[c],
         ~leak[c] => \/ LinksOf(c) = {}
                     \/ /\ IsLocal(c, op[c].cur)
                        /\ Kept(c, LinksOf(c), md[c].dst, est[c])
  PROVE  Tidy(c)' /\ Noted(c)'
<1> DEFINE L == LinksOf(c)
<1>1. PInv /\ (~leak[c] => Known(c, L, md[c].cache))
  BY TidyFacts
<1>2. op'[c].pc = "failed" \/ (op'[c].pc = "close" /\ ~IsLocal(c, op[c].cur))
  BY <1>1, CreateFailedFields DEF SameBut
<1> HIDE DEF L
<1>3. ASSUME ~leak[c] PROVE Kept(c, L, md[c].dst, est[c])
  BY <1>3 DEF Kept, L
<1>4. ~leak[c] => TidyFor(c, L, op'[c], md'[c].dst, est'[c])
  BY <1>2, <1>3, KeptTidy
<1> QED
  BY <1>1, <1>4, TidyStep DEF L

LEMMA CheckTidy ==
  ASSUME PlacesDisjoint, NamesDistinct, EndpointsApart, OneHome, TInv,
         NEW c \in Conn, Check(c)
  PROVE  Tidy(c)' /\ Noted(c)'
<1> DEFINE L == LinksOf(c)
           K == LinksOf(c)'
           e == op[c].cur
           first == op[c].end = FirstEnd(c)
<1>1. /\ PInv /\ EInv /\ Eligible(c) /\ Shape(c, L) /\ Own(c, L)
      /\ \A l, m \in L : l.at = m.at => l = m
      /\ ~leak[c] => /\ TidyMaking(c, L, op[c], md[c].dst, est[c])
                     /\ Known(c, L, md[c].cache)
  BY TidyFacts
<1>2. op[c].pc = "check" /\ e \in Endpoint /\ op[c].end \in Ends /\ est'[c] = est[c]
  BY <1>1, CheckEffect
<1>3. /\ e \in Candidates(c) /\ e # Null
      /\ first => Here(c) = Home(c)
      /\ ~first => Outgoing(c) /\ IsLocal(c, e) /\ op[c].end = "dst"
  BY <1>1, <1>2, AtWork, NullIs DEF Making
<1>4. ASSUME ~leak[c], K = L, leak'[c] = leak[c], Created(c, md[c].cache),
             NEW l \in L, l.at = Here(c)
      PROVE  Tidy(c)' /\ Noted(c)'
  <2>1. /\ op'[c].pc = After(c) /\ op'[c].cur = e
        /\ op'[c].end = IF IsLocal(c, e) THEN "dst" ELSE op[c].end
        /\ md'[c].cache = md[c].cache
        /\ md'[c].dst = IF IsLocal(c, e) THEN md[c].dst ELSE e
    BY <1>1, <1>4, CreatedFields
  <2>2. Kept(c, L, md[c].dst, est[c]) \/ (~first /\ Half(c, L))
    BY <1>1, <1>2, <1>4 DEF TidyMaking
  <2>3. Rooted(L, Home(c)) /\ (first => md[c].dst # Null)
    BY <1>4, <2>2 DEF Kept, Half
  <2>4. CASE first /\ IsLocal(c, e)
    <3>1. op'[c].pc = "check" /\ md'[c].dst = md[c].dst
      BY <2>1, <2>4 DEF After, IsLocal, FirstEnd, Outgoing
    <3>2. TidyFor(c, L, op'[c], md'[c].dst, est'[c])
      BY <1>2, <2>2, <2>4, <3>1, KeptTidy
    <3> QED
      BY <1>1, <1>4, <2>1, <3>2, TidyStep
  <2>5. CASE first /\ ~IsLocal(c, e)
    <3>1. /\ md'[c].dst # Null
          /\ \/ op'[c].pc = "apply"
             \/ op'[c].pc = "configure" /\ NseIf[c][e] = Home(c)
      BY <1>3, <2>1, <2>5, HomeIs DEF After, FirstEnd, EndPlace
    <3> HIDE DEF L
    <3>2. TidyFor(c, L, op'[c], md'[c].dst, est'[c])
      BY <2>1, <2>3, <3>1 DEF TidyFor, TidyMaking, TidyElse
    <3> QED
      BY <1>1, <1>4, <2>1, <3>2, TidyStep DEF L
  <2>6. CASE ~first
    <3>1. op'[c].pc = "configure"
      BY <1>3, <2>1, <2>6 DEF After
    <3>2. Here(c) = NseIf[c][e] /\ NseIf[c][e] # Home(c)
      BY <1>2, <1>3, <2>6, OutgoingHome
         DEF Here, EndPlace, NamesDistinct, SrcPlaces, DstPlaces
    <3> HIDE DEF L
    <3>3. Rooted(L, NseIf[c][e])
      BY <1>1, <1>4, <2>3, <3>2, RootsMeet
    <3>4. TidyFor(c, L, op'[c], md'[c].dst, est'[c])
      BY <2>1, <2>3, <3>1, <3>3 DEF TidyFor, TidyMaking, TidyElse
    <3> QED
      BY <1>1, <1>4, <2>1, <3>4, TidyStep DEF L
  <2> QED
    BY <2>4, <2>5, <2>6
<1>5. ASSUME ~leak[c], K = LinkDel(L, Here(c)), leak'[c] = leak[c], md'[c] = md[c],
             Goto(c, IF IsLocal(c, e) /\ op[c].end = "dst" THEN "move" ELSE "add")
      PROVE  Tidy(c)' /\ Noted(c)'
  <2>1. /\ op'[c].pc = IF IsLocal(c, e) /\ op[c].end = "dst" THEN "move" ELSE "add"
        /\ op'[c].end = op[c].end
    BY <1>1, <1>5, GotoFields DEF SameBut
  <2>2. Kept(c, L, md[c].dst, est[c]) \/ (~first /\ Half(c, L))
    BY <1>1, <1>2, <1>5 DEF TidyMaking
  <2>3. K \subseteq L /\ \A p : Rooted(L, p) => Rooted(K, p)
    BY <1>5, RootedSub DEF LinkDel
  <2>4. Known(c, K, md'[c].cache)
    BY <1>1, <1>5, <2>3, SubKnown
  <2>5. CASE first
    <3>1. op'[c].pc = "add"
      BY <2>1, <2>5 DEF IsLocal, FirstEnd, Outgoing
    <3>2. K = {}
      BY <1>3, <1>5, <2>2, <2>3, <2>5, RootedDel DEF Kept
    <3>3. TidyFor(c, K, op'[c], md'[c].dst, est'[c])
      BY <3>1, <3>2 DEF TidyFor, TidyMaking, TidyElse
    <3> QED
      BY <1>5, <2>4, <3>3, TidyStep
  <2>6. CASE ~first
    <3>1. op'[c].pc = "move" /\ op'[c].end # FirstEnd(c)
      BY <1>3, <2>1, <2>6
    <3>2. Kept(c, K, md[c].dst, est[c]) \/ Half(c, K)
      BY <2>2, <2>3 DEF Kept, Half
    <3> HIDE DEF K
    <3>3. TidyFor(c, K, op'[c], md'[c].dst, est'[c])
      BY <1>2, <1>5, <3>1, <3>2 DEF TidyFor, TidyMaking, TidyElse
    <3> QED
      BY <1>5, <2>4, <3>3, TidyStep DEF K
  <2> QED
    BY <2>5, <2>6
<1>6. CASE leak'[c]
  BY <1>6, TidyStep
<1> QED
  BY <1>1, <1>4, <1>5, <1>6, CheckEffect

LEMMA AddTidy ==
  ASSUME PlacesDisjoint, NamesDistinct, EndpointsApart, OneHome, TInv,
         NEW c \in Conn, Add(c)
  PROVE  Tidy(c)' /\ Noted(c)'
<1> DEFINE L == LinksOf(c)
           K == LinksOf(c)'
           e == op[c].cur
<1>1. /\ PInv /\ EInv /\ Eligible(c)
      /\ ~leak[c] => TidyMaking(c, L, op[c], md[c].dst, est[c])
  BY TidyFacts
<1>2. /\ op[c].pc = "add" /\ e \in Endpoint /\ op[c].end \in Ends
      /\ est'[c] = est[c] /\ md'[c] = md[c]
  BY <1>1, AddEffect
<1>3. e \in Candidates(c) /\ op[c].end = FirstEnd(c)
  BY <1>1, <1>2, AtWork DEF Making
<1>4. ~leak[c] => L = {}
  BY <1>1, <1>2 DEF TidyMaking
<1>5. CASE leak'[c]
  BY <1>5, TidyStep
<1>6. ASSUME ~leak[c], K = L \cup Added(c), leak'[c] = leak[c], Goto(c, "move")
      PROVE  Tidy(c)' /\ Noted(c)'
  <2> DEFINE a == NewLink(c, e, FirstEnd(c))
             b == NewLink(c, e, "dst")
  <2>1. /\ op'[c].pc = "move" /\ op'[c].end = FirstEnd(c) /\ op'[c].cur = e
    BY <1>1, <1>3, <1>6, GotoFields DEF SameBut
  <2>2. a.at = Ground(c) /\ a.owner = c /\ a.kind = Kind(c, e)
    BY <1>3, HomeIs DEF NewLink
  <2>3. IsLocal(c, e) => b.at = GroundPeer(c) /\ b.owner = c /\ b.kind = "veth"
    BY DEF NewLink, DevName, GroundPeer, Kind
  <2>4. K = IF IsLocal(c, e) THEN {a, b} ELSE {a}
    BY <1>3, <1>4, <1>6 DEF Added, Ends, IsLocal, FirstEnd, Outgoing
  <2> HIDE DEF a, b, K
  <2>5. Rooted(K, Ground(c)) /\ Alike(c, K, op'[c])
    BY <2>1, <2>2, <2>3, <2>4 DEF Rooted, Paired, Alike, Kind
  <2>6. TidyFor(c, K, op'[c], md'[c].dst, est'[c])
    BY <2>1, <2>5 DEF TidyFor, TidyMaking, TidyElse
  <2>7. Known(c, K, md'[c].cache)
    <3>1. Home(c) # Ground(c)
      BY <1>3, HomeApart
    <3>2. Outgoing(c) => /\ Home(c) # GroundPeer(c)
                         /\ \A f \in Endpoint : NseIf[c][f] \notin {Ground(c), GroundPeer(c)}
      <4>1. \A f \in Endpoint : NseIf[c][f] # GroundPeer(c)
        BY DEF EndpointsApart, GroundPeer
      <4> QED
        BY <4>1, OutgoingHome DEF NamesDistinct, SrcPlaces, DstPlaces
    <3> QED
      BY <2>2, <2>3, <2>4, <3>1, <3>2 DEF Known, IsLocal, Outgoing
  <2> QED
    BY <1>6, <2>6, <2>7, TidyStep DEF K
<1> QED
  BY <1>1, <1>4, <1>5, <1>6, AddEffect DEF Gives

LEMMA KnownMoved ==
  ASSUME NEW c, NEW L, NEW K, NEW from, NEW to, Moved(L, K, from, to),
         NEW cache, NEW more, Known(c, L, cache), cache \subseteq more,
         to = Home(c) => FirstEnd(c) \in more,
         \A f \in Endpoint : Outgoing(c) /\ to = NseIf[c][f] => "dst" \in more
  PROVE  Known(c, K, more)
<1>1. \A k \in K : k \in L \/ k.at = to
  BY DEF Moved
<1> QED
  BY <1>1 DEF Known

\* The places of the endpoint's end
LEMMA SecondPlaces ==
  ASSUME NamesDistinct, EndpointsApart, NEW c \in Conn, Outgoing(c),
         NEW e \in Endpoint, IsLocal(c, e)
  PROVE  /\ <<FwdNs, DevName(c, e, "dst")>> = GroundPeer(c)
         /\ {GroundPeer(c), Inserted(c, e, "dst"), NseIf[c][e]} \subseteq DstPlaces(c)
         /\ GroundPeer(c) # Inserted(c, e, "dst")
         /\ Inserted(c, e, "dst") # NseIf[c][e]
         /\ \A f \in Endpoint : Inserted(c, e, "dst") # NseIf[c][f]
         /\ Home(c) \notin DstPlaces(c)
<1>1. Inserted(c, e, "dst") = <<NseIf[c][e][1], PeerName[c]>>
  BY DEF Inserted, EndPlace, DevName
<1>2. GroundPeer(c) # Inserted(c, e, "dst")
  BY <1>1 DEF EndpointsApart, GroundPeer
<1>3. \A f \in Endpoint : Inserted(c, e, "dst") # NseIf[c][f]
  BY <1>1 DEF EndpointsApart
<1>4. Home(c) \notin DstPlaces(c)
  BY OutgoingHome DEF NamesDistinct, SrcPlaces
<1> QED
  BY <1>1, <1>2, <1>3, <1>4 DEF DstPlaces, DevName, GroundPeer

LEMMA MoveTidy ==
  ASSUME PlacesDisjoint, NamesDistinct, EndpointsApart, OneHome, TInv,
         NEW c \in Conn, Move(c)
  PROVE  Tidy(c)' /\ Noted(c)'
<1> DEFINE L == LinksOf(c)
           K == LinksOf(c)'
           e == op[c].cur
           first == op[c].end = FirstEnd(c)
<1>0. PICK from, dest : /\ from = <<FwdNs, DevName(c, op[c].cur, op[c].end)>>
                        /\ dest = Inserted(c, op[c].cur, op[c].end)
  OBVIOUS
<1>1. /\ PInv /\ EInv /\ Eligible(c) /\ Shape(c, L) /\ Own(c, L)
      /\ \A l, m \in L : l.at = m.at => l = m
      /\ ~leak[c] => /\ TidyMaking(c, L, op[c], md[c].dst, est[c])
                     /\ Known(c, L, md[c].cache)
  BY TidyFacts
<1>2. /\ op[c].pc = "move" /\ e \in Endpoint /\ op[c].end \in Ends
      /\ est'[c] = est[c] /\ md'[c] = md[c]
  BY <1>1, MoveEffect
<1>3. /\ e \in Candidates(c)
      /\ ~first => Outgoing(c) /\ IsLocal(c, e) /\ op[c].end = "dst"
  BY <1>1, <1>2, AtWork DEF Making
<1>4. CASE leak'[c]
  BY <1>4, TidyStep
<1>5. \/ Moved(L, K, from, dest) /\ Goto(c, "rename") /\ leak'[c] = leak[c]
      \/ leak'[c] = TRUE
      \/ /\ CreateFailed(c) /\ K = L /\ leak'[c] = leak[c]
         /\ NoneAt(L, from) \/ \E l \in L : l.at = dest
  <2>1. Shifted(c, from, dest) => Moved(L, K, from, dest)
    BY <1>1, ShiftedMoved
  <2>2. PInv
    BY <1>1
  <2>3. \/ Shifted(c, from, dest) /\ Goto(c, "rename") /\ leak'[c] = leak[c]
        \/ /\ LinksOf(c)' = LinksOf(c) /\ Gives(c)
           /\ \/ leak'[c] = TRUE \/ NoneAt(LinksOf(c), from)
              \/ ~NoneAt(LinksOf(c), dest)
    BY <1>0, <2>2, MoveEffect
  <2> QED
    BY <2>1, <2>3 DEF Gives, NoneAt
<1>6. CASE first
  <2>1. from = Ground(c) /\ dest = Mid(c)
    BY <1>0, <1>3, <1>6, HomeIs
  <2>2. Ground(c) # Mid(c) /\ Home(c) # Mid(c)
    BY <1>3, HomeApart
  <2>3. Outgoing(c) => /\ {Ground(c), Mid(c)} \subseteq SrcPlaces(c)
                       /\ \A f \in Endpoint : Mid(c) # NseIf[c][f]
    BY OutgoingHome DEF NamesDistinct, SrcPlaces, DstPlaces
  <2>4. ~leak[c] => Rooted(L, Ground(c)) /\ Alike(c, L, op[c])
    BY <1>1, <1>2, <1>6 DEF TidyMaking
  <2>5. ASSUME ~leak[c], Moved(L, K, from, dest), Goto(c, "rename"), leak'[c] = leak[c]
        PROVE  Tidy(c)' /\ Noted(c)'
    <3>1. op'[c].pc = "rename" /\ op'[c].end = op[c].end /\ op'[c].cur = e
      BY <1>1, <2>5, GotoFields DEF SameBut
    <3> HIDE DEF K, L
    <3>2. Rooted(K, Mid(c))
      BY <1>1, <2>1, <2>4, <2>5, RootedMoved
    <3>3. Alike(c, K, op'[c])
      BY <2>4, <2>5, <3>1 DEF Moved, Alike
    <3>4. TidyFor(c, K, op'[c], md'[c].dst, est'[c])
      BY <1>6, <3>1, <3>2, <3>3 DEF TidyFor, TidyMaking, TidyElse
    <3>5. Known(c, K, md'[c].cache)
      BY <1>1, <1>2, <2>1, <2>2, <2>3, <2>5, KnownMoved
    <3> QED
      BY <2>5, <3>4, <3>5, TidyStep DEF K
  <2>6. ASSUME ~leak[c], CreateFailed(c), K = L, leak'[c] = leak[c],
               NoneAt(L, from) \/ \E l \in L : l.at = dest
        PROVE  Tidy(c)' /\ Noted(c)'
    <3>1. L = {}
      <4>1. \A l \in L : l.at # Mid(c)
        BY <1>1, <2>2, <2>3, <2>4, <2>6, OneEnd
      <4> QED
        BY <2>1, <2>4, <2>6, <4>1 DEF Rooted, NoneAt
    <3> QED
      BY <1>2, <2>6, <3>1, GivesTidy
  <2> QED
    BY <1>4, <1>5, <2>5, <2>6
<1>7. CASE ~first
  <2>1. /\ from = GroundPeer(c) /\ {from, dest} \subseteq DstPlaces(c)
        /\ from # dest /\ Home(c) \notin {from, dest}
        /\ \A f \in Endpoint : dest # NseIf[c][f]
        /\ dest = Inserted(c, e, "dst")
    BY <1>0, <1>2, <1>3, <1>7, SecondPlaces
  <2>2. ~leak[c] => Kept(c, L, md[c].dst, est[c]) \/ Half(c, L)
    BY <1>1, <1>2, <1>7 DEF TidyMaking
  <2>3. ASSUME ~leak[c], Moved(L, K, from, dest), Goto(c, "rename"), leak'[c] = leak[c]
        PROVE  Tidy(c)' /\ Noted(c)'
    <3>1. op'[c].pc = "rename" /\ op'[c].end = op[c].end /\ op'[c].cur = e
      BY <1>1, <2>3, GotoFields DEF SameBut
    <3> HIDE DEF K, L
    <3>2. PICK l \in L : l.at = from
      BY <2>3 DEF Moved
    <3>3. Rooted(L, Home(c))
      BY <2>2, <2>3, <3>2 DEF Kept, Half
    <3>4. Rooted(L, from)
      BY <1>1, <2>1, <3>2, <3>3, RootsMeet
    <3>5. Rooted(K, Home(c)) /\ Rooted(K, dest)
      BY <1>1, <2>1, <2>3, <3>3, <3>4, RootedMoved, RootedStays
    <3>6. TidyFor(c, K, op'[c], md'[c].dst, est'[c])
      BY <1>7, <2>1, <3>1, <3>5 DEF TidyFor, TidyMaking, TidyElse
    <3>7. Known(c, K, md'[c].cache)
      BY <1>1, <1>2, <2>1, <2>3, KnownMoved
    <3> QED
      BY <2>3, <3>6, <3>7, TidyStep DEF K
  <2>4. ASSUME ~leak[c], CreateFailed(c), K = L, leak'[c] = leak[c],
               NoneAt(L, from) \/ \E l \in L : l.at = dest
        PROVE  Tidy(c)' /\ Noted(c)'
    <3>1. CASE Kept(c, L, md[c].dst, est[c])
      BY <1>2, <1>3, <1>7, <2>4, <3>1, GivesTidy
    <3>2. CASE Half(c, L)
      <4>1. Rooted(L, from) /\ \A l \in L : l.at # dest
        BY <1>1, <2>1, <3>2, OneEnd DEF Half
      <4>2. L = {}
        BY <2>4, <4>1 DEF Rooted, NoneAt
      <4> QED
        BY <1>2, <2>4, <4>2, GivesTidy
    <3> QED
      BY <2>2, <2>4, <3>1, <3>2
  <2> QED
    BY <1>4, <1>5, <2>3, <2>4
<1> QED
  BY <1>6, <1>7

\* The client's end gets its name: the endpoint's is where it was added
LEMMA HalfMade ==
  ASSUME NamesDistinct, NEW c \in Conn, Outgoing(c),
         NEW L, Own(c, L), Shape(c, L), \A l \in L : l.kind = "veth",
         Rooted(L, Mid(c)), NEW K, Moved(L, K, Mid(c), Home(c))
  PROVE  Half(c, K)
<1>1. Home(c) = ClientIf[c] /\ Mid(c) \in SrcPlaces(c) /\ Mid(c) # ClientIf[c]
  BY OutgoingHome DEF NamesDistinct, SrcPlaces
<1>2. PICK l, m : /\ l \in L /\ K = (L \ {l}) \cup {m} /\ l.at = Mid(c)
                  /\ m.at = Home(c) /\ m.kind = l.kind /\ m.end = l.end
                  /\ m.owner = l.owner
  BY DEF Moved
<1>3. l \in Veth(L, "src") /\ l.owner = c
  <2>1. l.end \in Ends /\ l.owner = c /\ l.kind = "veth"
    BY <1>2 DEF Own, LinkType
  <2>2. l.end # "dst"
    BY <1>1, <1>2 DEF Shape, NamesDistinct
  <2> QED
    BY <1>2, <2>1, <2>2 DEF Veth, Ends
<1>4. Veth(L, "dst") # {} /\ \A n \in Veth(L, "dst") : n.at = GroundPeer(c)
  BY <1>1, <1>2, <1>3 DEF Shape
<1>5. PICK n \in K : n.at = GroundPeer(c) /\ n.kind = "veth" /\ n.owner = c
  BY <1>2, <1>3, <1>4 DEF Veth, Own
<1>6. \A k \in K : k = m \/ k.at = GroundPeer(c)
  <2> TAKE k \in K
  <2>1. CASE k = m
    BY <2>1
  <2>2. CASE k \in L /\ k # l
    <3>1. k.end \in Ends /\ k.kind = "veth"
      BY <2>2 DEF Own, LinkType
    <3>2. k.end # "src"
      BY <1>3, <2>2, <3>1 DEF Shape, Veth, Ends
    <3> QED
      BY <1>4, <2>2, <3>1, <3>2 DEF Veth, Ends
  <2> QED
    BY <1>2, <2>1, <2>2
<1>7. Rooted(K, GroundPeer(c))
  BY <1>2, <1>3, <1>5, <1>6 DEF Rooted, Paired, Veth
<1>8. Rooted(K, Home(c))
  BY <1>2, RootedMoved DEF Shape
<1> QED
  BY <1>7, <1>8 DEF Half

LEMMA RenameTidy ==
  ASSUME PlacesDisjoint, NamesDistinct, EndpointsApart, OneHome, TInv,
         NEW c \in Conn, Rename(c)
  PROVE  Tidy(c)' /\ Noted(c)'
<1> DEFINE L == LinksOf(c)
           K == LinksOf(c)'
           e == op[c].cur
           first == op[c].end = FirstEnd(c)
           more == md[c].cache \cup {op[c].end}
<1>0. PICK from, dest : from = Inserted(c, op[c].cur, op[c].end) /\ dest = Here(c)
  OBVIOUS
<1>1. /\ PInv /\ EInv /\ Eligible(c) /\ Shape(c, L) /\ Own(c, L) /\ Lone(c)
      /\ \A l, m \in L : l.at = m.at => l = m
      /\ ~leak[c] => /\ TidyMaking(c, L, op[c], md[c].dst, est[c])
                     /\ Known(c, L, md[c].cache)
  BY TidyFacts
<1>2. /\ op[c].pc = "rename" /\ e \in Endpoint /\ op[c].end \in Ends
      /\ est'[c] = est[c]
  BY <1>1, RenameEffect
<1>3. /\ e \in Candidates(c)
      /\ first => dest = Home(c)
      /\ ~first => Outgoing(c) /\ IsLocal(c, e) /\ op[c].end = "dst"
  BY <1>0, <1>1, <1>2, AtWork DEF Making
<1>4. CASE leak'[c]
  BY <1>4, TidyStep
<1>5. \/ Moved(L, K, from, dest) /\ Created(c, more) /\ leak'[c] = leak[c]
      \/ leak'[c] = TRUE
      \/ /\ CreateFailed(c) /\ K = L /\ leak'[c] = leak[c] /\ md'[c] = md[c]
         /\ NoneAt(L, from) \/ ~NoneAt(L, dest)
  <2>1. Shifted(c, from, dest) => Moved(L, K, from, dest)
    BY <1>1, ShiftedMoved
  <2>2. PInv
    BY <1>1
  <2>3. \/ Shifted(c, from, dest) /\ Created(c, more) /\ leak'[c] = leak[c]
        \/ /\ LinksOf(c)' = LinksOf(c) /\ Gives(c)
           /\ \/ leak'[c] = TRUE \/ NoneAt(LinksOf(c), from)
              \/ ~NoneAt(LinksOf(c), dest)
        \/ leak'[c] = TRUE
    BY <1>0, <2>2, RenameEffect
  <2> QED
    BY <2>1, <2>3 DEF Gives
<1>6. ASSUME ~leak[c], Moved(L, K, from, dest), Created(c, more), leak'[c] = leak[c]
      PROVE  /\ op'[c].pc = After(c) /\ op'[c].cur = e
             /\ op'[c].end = IF IsLocal(c, e) THEN "dst" ELSE op[c].end
             /\ md'[c].cache = more
             /\ md'[c].dst = IF IsLocal(c, e) THEN md[c].dst ELSE e
  BY <1>1, <1>6, CreatedFields
<1>7. dest = EndPlace(c, e, op[c].end)
  BY <1>0 DEF Here
<1>8. ASSUME ~leak[c], Moved(L, K, from, dest)
      PROVE  Known(c, K, more)
  <2>1. dest = Home(c) => FirstEnd(c) \in more
    <3>1. CASE first
      BY <3>1
    <3>2. CASE ~first
      BY <1>2, <1>3, <1>7, <3>2, SecondPlaces DEF EndPlace
    <3> QED
      BY <3>1, <3>2
  <2>2. \A f \in Endpoint : Outgoing(c) /\ dest = NseIf[c][f] => "dst" \in more
    <3>1. CASE first /\ Outgoing(c)
      BY <1>3, <3>1, OutgoingHome DEF NamesDistinct, SrcPlaces, DstPlaces
    <3>2. CASE ~first
      BY <1>3, <3>2
    <3> QED
      BY <3>1, <3>2
  <2> HIDE DEF more, L, K
  <2>3. md[c].cache \subseteq more
    BY DEF more
  <2> QED
    BY <1>1, <1>8, <2>1, <2>2, <2>3, KnownMoved
<1>9. CASE first
  <2>1. from = Mid(c) /\ dest = Home(c)
    BY <1>0, <1>3, <1>9, HomeIs
  <2>2. ~leak[c] => Rooted(L, Mid(c)) /\ Alike(c, L, op[c])
    BY <1>1, <1>2, <1>9 DEF TidyMaking
  <2>3. ASSUME ~leak[c], Moved(L, K, from, dest), Created(c, more), leak'[c] = leak[c]
        PROVE  Tidy(c)' /\ Noted(c)'
    <3>1. Rooted(K, Home(c))
      BY <1>1, <2>1, <2>2, <2>3, RootedMoved
    <3>2. CASE IsLocal(c, e)
      <4>1. Outgoing(c) /\ FirstEnd(c) = "src"
        BY <3>2 DEF IsLocal, Outgoing, FirstEnd
      <4>2. op'[c].pc = "check" /\ op'[c].end = "dst"
        BY <1>6, <1>9, <2>3, <3>2, <4>1 DEF After
      <4>3. \A l \in L : l.kind = "veth"
        BY <2>2, <2>3, <3>2 DEF Alike
      <4>4. Half(c, K)
        BY <1>1, <2>1, <2>2, <2>3, <4>1, <4>3, HalfMade
      <4>5. TidyFor(c, K, op'[c], md'[c].dst, est'[c])
        BY <4>1, <4>2, <4>4 DEF TidyFor, TidyMaking, TidyElse
      <4> QED
        BY <1>6, <1>8, <2>3, <4>5, TidyStep
    <3>3. CASE ~IsLocal(c, e)
      <4>1. md'[c].dst # Null /\ op'[c].cur = e
        BY <1>2, <1>6, <2>3, <3>3, NullIs
      <4>2. CASE Outgoing(c)
        <5>1. op'[c].pc = "apply"
          BY <1>6, <2>3, <3>3, <4>2 DEF After
        <5>2. TidyFor(c, K, op'[c], md'[c].dst, est'[c])
          BY <3>1, <4>1, <5>1 DEF TidyFor, TidyMaking, TidyElse
        <5> QED
          BY <1>6, <1>8, <2>3, <5>2, TidyStep
      <4>3. CASE ~Outgoing(c)
        <5>1. op'[c].pc = "configure"
          BY <1>6, <2>3, <3>3, <4>3 DEF After
        <5>2. NseIf[c][e] = Home(c)
          BY <1>7, <1>9, <2>1, <4>3 DEF EndPlace, FirstEnd
        <5>3. TidyFor(c, K, op'[c], md'[c].dst, est'[c])
          BY <3>1, <4>1, <5>1, <5>2 DEF TidyFor, TidyMaking, TidyElse
        <5> QED
          BY <1>6, <1>8, <2>3, <5>3, TidyStep
      <4> QED
        BY <4>2, <4>3
    <3> QED
      BY <3>2, <3>3
  <2>4. ASSUME ~leak[c], CreateFailed(c), K = L, leak'[c] = leak[c], md'[c] = md[c],
               NoneAt(L, from) \/ ~NoneAt(L, dest)
        PROVE  Tidy(c)' /\ Noted(c)'
    <3>1. NoneAt(L, from)
      BY <1>1, <1>2, <1>9, <2>1, <2>4 DEF Lone
    <3>2. L = {}
      BY <2>1, <2>2, <2>4, <3>1 DEF Rooted, NoneAt
    <3> QED
      BY <1>2, <2>4, <3>2, GivesTidy
  <2> QED
    BY <1>4, <1>5, <2>3, <2>4
<1>10. CASE ~first
  <2>1. /\ {from, dest} \subseteq DstPlaces(c) /\ from = Inserted(c, e, "dst")
        /\ from # dest /\ from # Home(c) /\ dest = NseIf[c][e]
    BY <1>0, <1>2, <1>3, <1>7, <1>10, SecondPlaces DEF EndPlace
  <2>2. ~leak[c] => Rooted(L, Home(c)) /\ Rooted(L, from)
    BY <1>1, <1>2, <1>10, <2>1 DEF TidyMaking
  <2>3. ASSUME ~leak[c], Moved(L, K, from, dest), Created(c, more), leak'[c] = leak[c]
        PROVE  Tidy(c)' /\ Noted(c)'
    <3>1. Rooted(K, Home(c)) /\ Rooted(K, dest)
      BY <1>1, <2>1, <2>2, <2>3, RootedMoved, RootedStays
    <3>2. op'[c].pc = "configure" /\ op'[c].cur = e
      BY <1>3, <1>6, <1>10, <2>3 DEF After
    <3>3. TidyFor(c, K, op'[c], md'[c].dst, est'[c])
      BY <2>1, <3>1, <3>2 DEF TidyFor, TidyMaking, TidyElse
    <3> QED
      BY <1>6, <1>8, <2>3, <3>3, TidyStep
  <2>4. ASSUME ~leak[c], CreateFailed(c), K = L, leak'[c] = leak[c], md'[c] = md[c],
               NoneAt(L, from) \/ ~NoneAt(L, dest)
        PROVE  Tidy(c)' /\ Noted(c)'
    <3>1. \A l \in L : l.at # dest
      BY <1>1, <2>1, <2>2, <2>4, OneEnd
    <3>2. L = {}
      BY <2>2, <2>4, <3>1 DEF Rooted, NoneAt
    <3> QED
      BY <1>2, <2>4, <3>2, GivesTidy
  <2> QED
    BY <1>4, <1>5, <2>3, <2>4
<1> QED
  BY <1>9, <1>10

LEMMA StepTidy ==
  ASSUME PlacesDisjoint, NamesDistinct, EndpointsApart, OneHome, TInv,
         NEW c \in Conn, Step(c)
  PROVE  Tidy(c)' /\ Noted(c)'
BY RequestTidy, AnswerTidy, CleanupTidy, CheckTidy, AddTidy, MoveTidy, RenameTidy
   DEF Step, Create

\* A step of something else
LEMMA SameTidy ==
  ASSUME TInv, NEW c \in Conn, LinksOf(c)' = LinksOf(c), op'[c] = op[c],
         md'[c] = md[c], est'[c] = est[c], leak'[c] = leak[c]
  PROVE  Tidy(c)' /\ Noted(c)'
<1>1. ~leak[c] => /\ TidyFor(c, LinksOf(c), op[c], md[c].dst, est[c])
                  /\ Known(c, LinksOf(c), md[c].cache)
  BY DEF TInv, Tidy, Noted
<1>2. ~leak'[c] => ~leak[c]
  OBVIOUS
<1> QED
  BY <1>1, <1>2, TidyStep

LEMMA NextTInv ==
  ASSUME PlacesDisjoint, NamesDistinct, EndpointsApart, OneHome, TInv, [Next]_vars
  PROVE  TInv'
<1>1. PInv /\ EInv /\ LInv'
  BY NextLInv DEF TInv, LInv, EInv
<1>2. ASSUME NEW c \in Conn, Frame(c), NEW x \in Conn \ {c}
      PROVE  Tidy(x)' /\ Noted(x)'
  BY <1>2, SameTidy DEF Frame, OthersKept, LinksOf
<1>3. CASE \E c \in Conn : Step(c)
  BY <1>1, <1>2, <1>3, StepTidy, StepFrame DEF TInv
<1>4. CASE Crash
  <2>1. ASSUME NEW c \in Conn
        PROVE  Tidy(c)' /\ Noted(c)'
    <3>1. /\ LinksOf(c)' = LinksOf(c) /\ op'[c].pc = "idle"
          /\ ~leak'[c] => LinksOf(c) = {}
      BY <1>1, <1>4, CrashEffect, IdleFields
    <3>2. ~leak'[c] => /\ TidyFor(c, LinksOf(c)', op'[c], md'[c].dst, est'[c])
                       /\ Known(c, LinksOf(c)', md'[c].cache)
      BY <3>1, NothingTidy
    <3> QED
      BY <3>2, TidyStep
  <2> QED
    BY <1>1, <2>1 DEF TInv
<1>5. CASE LoseLink
  <2>1. PICK c, p :
          /\ c \in Conn
          /\ LinksOf(c)' = LinkDel(LinksOf(c), p) /\ Frame(c)
          /\ op'[c] = [op[c] EXCEPT !.lost = op[c].pc # "idle"]
          /\ est'[c] = est[c] /\ md'[c] = md[c] /\ leak'[c] = leak[c]
    BY <1>1, <1>5, LoseEffect
  <2>2. /\ LinksOf(c)' \in SUBSET LinksOf(c)
        /\ op'[c].pc = op[c].pc /\ op'[c].end = op[c].end /\ op'[c].cur = op[c].cur
        /\ op'[c].arg = op[c].arg /\ op'[c].doomed = op[c].doomed
    BY <1>1, <2>1, LoseFields DEF LinkDel
  <2>3. ~leak[c] => /\ TidyFor(c, LinksOf(c), op[c], md[c].dst, est[c])
                    /\ Known(c, LinksOf(c), md[c].cache)
    BY <2>1 DEF TInv, Tidy, Noted
  <2>4. ~leak'[c] => /\ TidyFor(c, LinksOf(c)', op'[c], md'[c].dst, est'[c])
                     /\ Known(c, LinksOf(c)', md'[c].cache)
    BY <2>1, <2>2, <2>3, DelTidy, SubKnown
  <2> QED
    BY <1>1, <1>2, <2>1, <2>4, TidyStep DEF TInv
<1>6. CASE UNCHANGED vars
  BY <1>1, <1>6, SameTidy DEF vars, LinksOf, TInv
<1> QED
  BY <1>3, <1>4, <1>5, <1>6, Steps

LEMMA InitTInv == Init => TInv
<1> SUFFICES ASSUME Init, NEW c \in Conn PROVE Tidy(c) /\ Noted(c)
  BY InitLInv DEF TInv
<1>1. LinksOf(c) = {} /\ op[c].pc = "idle"
  BY IdleFields DEF Init, LinksOf
<1> QED
  BY <1>1, NothingTidy DEF Tidy, Noted

\* closeConnection: a connection that is closed, or that has failed without
\* ever being established, has no device left on the node, unless one of the
\* failures marked by Strand or a crash came on the way.
THEOREM NoLeakTheorem ==
  ASSUME PlacesDisjoint, NamesDistinct, EndpointsApart, OneHome
  PROVE  Spec => []NoLeak
<1>1. TInv => NoLeak
  BY DEF TInv, Tidy, TidyFor, TidyElse, Kept, NoLeak
<1>2. TInv /\ [Next]_vars => TInv'
  BY NextTInv
<1> QED
  BY <1>1, <1>2, InitTInv, PTL DEF Spec

\* mechanismmetadata: a connection at rest that has devices on the node,
\* established or not, has the stored mechanism its Close finds them by.
THEOREM BookkeptTheorem ==
  ASSUME PlacesDisjoint, NamesDistinct, EndpointsApart, OneHome
  PROVE  Spec => []Bookkept
<1>1. TInv => Bookkept
  BY DEF TInv, Tidy, TidyFor, TidyElse, Kept, Bookkept
<1>2. TInv /\ [Next]_vars => TInv'
  BY NextTInv
<1> QED
  BY <1>1, <1>2, InitTInv, PTL DEF Spec

-----------------------------------------------------------------------------
(* A request for the endpoint of a path that is there                       *)

LEMMA CreateKeepsPath ==
  ASSUME PlacesDisjoint, NamesDistinct, EndpointsApart, OneHome, TInv,
         NEW c \in Conn, ~leak[c], Create(c),
         NEW e, e = op[c].cur, Joined(c, LinksOf(c), e)
  PROVE  LinksOf(c)' = LinksOf(c)
<1> DEFINE L == LinksOf(c)
           first == op[c].end = FirstEnd(c)
<1>1. /\ PInv /\ EInv /\ Lone(c) /\ Shape(c, L) /\ Own(c, L)
      /\ Known(c, L, md[c].cache)
  BY TidyFacts
<1>2. /\ e \in Candidates(c) /\ op[c].end \in Ends
      /\ first => Here(c) = Home(c)
      /\ ~first => /\ Outgoing(c) /\ IsLocal(c, e) /\ op[c].end = "dst"
                   /\ Here(c) = NseIf[c][e]
      /\ op[c].pc = "add" => first
  <2>1. op[c].pc \in Making /\ op[c].cur \in Endpoint /\ op[c].end \in Ends
    BY <1>1, CheckEffect, AddEffect, MoveEffect, RenameEffect DEF Create, Making
  <2> QED
    BY <1>1, <2>1, AtWork DEF Here, EndPlace
<1>3. PICK h \in L : h.at = Home(c)
  <2>1. EndPlace(c, e, FirstEnd(c)) = Home(c)
    BY <1>2, HomeIs
  <2> QED
    BY <2>1 DEF Joined, Leads, IsLocal, FirstEnd, Outgoing
<1>4. ~first => \E m \in Veth(L, "dst") : m.at = NseIf[c][e]
  BY <1>2 DEF Joined, Leads, EndPlace, Kind, Veth
<1>5. CASE Check(c)
  <2>1. /\ \E l \in L : l.at = Here(c)
        /\ op[c].end \in md[c].cache
    BY <1>1, <1>2, <1>3, <1>4 DEF Known, Candidates, Veth
  <2> QED
    BY <1>1, <1>5, <2>1, CheckEffect
<1>6. first => op[c].pc \notin {"add", "move", "rename"}
  BY <1>1, <1>3 DEF Lone, NoneAt
<1>7. CASE Add(c)
  BY <1>1, <1>2, <1>6, <1>7, AddEffect
<1>8. CASE Move(c)
  <2>1. PICK from, dest : /\ from = <<FwdNs, DevName(c, op[c].cur, op[c].end)>>
                          /\ dest = Inserted(c, op[c].cur, op[c].end)
    OBVIOUS
  <2>2. (~first /\ Shifted(c, from, dest)) \/ LinksOf(c)' = L
    BY <1>1, <1>6, <1>8, <2>1, MoveEffect
  <2>3. ASSUME ~first, NEW l \in L, l.at = from
        PROVE  FALSE
    <3>1. from = GroundPeer(c) /\ from \in DstPlaces(c) /\ e \in Endpoint
      BY <1>2, <2>1, <2>3, SecondPlaces DEF Candidates
    <3>2. l.end = "dst" /\ l.kind = "veth"
      BY <1>1, <1>2, <2>3, <3>1 DEF Shape, Own, LinkType, Ends, NamesDistinct
    <3>3. from = NseIf[c][e]
      BY <1>1, <1>4, <2>3, <3>2 DEF Shape, Veth, Ends
    <3> QED
      BY <3>1, <3>3 DEF EndpointsApart, GroundPeer
  <2> QED
    BY <2>2, <2>3 DEF Shifted
<1>9. CASE Rename(c)
  <2>1. PICK from : from = Inserted(c, op[c].cur, op[c].end)
    OBVIOUS
  <2>2. (~first /\ Shifted(c, from, Here(c))) \/ LinksOf(c)' = L
    BY <1>1, <1>6, <1>9, <2>1, RenameEffect
  <2> QED
    BY <1>2, <1>4, <2>2 DEF Shifted, Veth
<1> QED
  BY <1>5, <1>7, <1>8, <1>9 DEF Create

LEMMA StepKeepsPath ==
  ASSUME PlacesDisjoint, NamesDistinct, EndpointsApart, OneHome, TInv, [Next]_vars,
         NEW c \in Conn, NEW e \in Candidates(c), e = op[c].cur, ~leak[c],
         op[c].pc \in {"call", "check", "add", "move", "rename", "configure"},
         Path(c, e), faults' = faults
  PROVE  Path(c, e)'
<1>1. PInv /\ EInv /\ Joined(c, LinksOf(c), e)
  BY PathJoined DEF TInv, LInv, EInv
<1>2. SUFFICES LinksOf(c)' = LinksOf(c)
  BY <1>1, PathJoined
<1>3. ASSUME NEW d \in Conn, Step(d)
      PROVE  LinksOf(c)' = LinksOf(c)
  <2>1. CASE d # c
    BY <1>1, <1>3, <2>1, StepFrame DEF Frame, OthersKept, LinksOf
  <2>2. CASE d = c
    <3>1. CASE Select(c) \/ Refresh(c)
      BY <1>1, <3>1, StartEffect DEF Still
    <3>2. CASE Request(c)
      BY <1>1, <3>2, SwitchPeerEffect, AcceptEffect, RefuseEffect, FailedEffect,
         LateErrorEffect DEF Request, Still
    <3>3. CASE Answer(c)
      BY <1>1, <3>3, ConfigureEffect, ApplyEffect, ReturnEffect DEF Answer, Still
    <3>4. CASE Create(c)
      BY <1>1, <3>4, CreateKeepsPath
    <3>5. ~Cleanup(c)
      BY DEF Cleanup, Close, Free, Unstore, Delete, Disconnect
    <3> QED
      BY <1>3, <2>2, <3>1, <3>2, <3>3, <3>4, <3>5 DEF Step
  <2> QED
    BY <2>1, <2>2
<1>4. ~LoseLink
  BY Typed, <1>1 DEF LoseLink, Fault, PInv, IInv, Inv, TypeOK
<1>5. CASE Crash
  BY <1>1, <1>5, CrashEffect
<1>6. CASE UNCHANGED vars
  BY <1>6 DEF vars, LinksOf
<1> QED
  BY <1>3, <1>4, <1>5, <1>6, Steps

\* The cache check of Create: while nothing fails, a request for the endpoint
\* a connection has keeps the working path as it is, through every step of
\* its handler and of the others.
THEOREM RefreshKeepsPathTheorem ==
  ASSUME PlacesDisjoint, NamesDistinct, EndpointsApart, OneHome
  PROVE  Spec => RefreshKeepsPath
<1>1. ASSUME TInv, [Next]_vars
      PROVE  \A c \in Conn : \A e \in Candidates(c) :
               (/\ est[c] = e /\ op[c].cur = e /\ ~leak[c]
                /\ op[c].pc \in {"call", "check", "add", "move", "rename", "configure"}
                /\ Path(c, e) /\ faults' = faults)
               => Path(c, e)'
  BY <1>1, StepKeepsPath
<1>2. TInv /\ [Next]_vars => TInv'
  BY NextTInv
<1> QED
  BY <1>1, <1>2, InitTInv, PTL DEF Spec, RefreshKeepsPath

-----------------------------------------------------------------------------
(* The safety half of CloseReclaims: if closeConnection comes to an end, it *)
(* has deleted everything                                                   *)

\* xconnect.Close: by the time the call goes on to the elements below, no
\* device of the connection is left on the node, whether an established
\* connection is closed or a failed attempt is undone, unless a failure has
\* stranded one.
THEOREM CloseEmptiesTheorem ==
  ASSUME PlacesDisjoint, NamesDistinct, EndpointsApart, OneHome
  PROVE  Spec => [](\A c \in Conn :
                      op[c].pc = "disconnect" /\ ~leak[c] => LinksOf(c) = {})
<1>1. TInv => \A c \in Conn :
                op[c].pc = "disconnect" /\ ~leak[c] => LinksOf(c) = {}
  BY DEF TInv, Tidy, TidyFor, TidyElse
<1>2. TInv /\ [Next]_vars => TInv'
  BY NextTInv
<1> QED
  BY <1>1, <1>2, InitTInv, PTL DEF Spec

=============================================================================
