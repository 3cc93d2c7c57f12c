--------------------------- MODULE XConnectProofs ---------------------------
(***************************************************************************)
(* What holds of XConnect for every set of connections and endpoints.      *)
(***************************************************************************)
EXTENDS XConnect, FiniteSetTheorems, TLAPS

Working == {"call", "check", "add", "move", "rename", "configure",
            "apply", "return"}

\* A handler at work has an endpoint at hand, and so has the close of what
\* it failed to make; a deletion has the mechanism it loaded.  With TypeOK
\* an inductive invariant.
AtHand ==
  \A c \in Conn :
    /\ op[c].pc \in Working => op[c].cur \in Endpoint
    /\ op[c].pc \in {"close", "delete"} /\ op[c].after = "undo"
         => op[c].cur \in Endpoint
    /\ op[c].pc = "delete" => op[c].doomed \in Endpoint

OpOK == op \in [Conn -> OpType] /\ AtHand

Inv == TypeOK /\ AtHand

LEMMA PlacesTyped ==
  ASSUME NEW c \in Conn, NEW e \in Endpoint, NEW end \in Ends
  PROVE  /\ EndPlace(c, e, end) \in PlacesOf(c)
         /\ Inserted(c, e, end) \in PlacesOf(c)
         /\ <<FwdNs, DevName(c, e, end)>> \in PlacesOf(c)
BY DEF EndPlace, Inserted, DevName, PlacesOf

LEMMA NewLinkTyped ==
  ASSUME NEW c \in Conn, NEW e \in Endpoint, NEW end \in Ends
  PROVE  NewLink(c, e, end) \in LinkType
<1>1. <<FwdNs, DevName(c, e, end)>> \in UNION {PlacesOf(d) : d \in Conn}
  BY PlacesTyped
<1>2. (IF DstCls[e] = "REMOTE" THEN Url[e] ELSE Null) \in Node \cup {Null}
  BY ConstantsOK DEF ConstantsOK
<1> QED
  BY <1>1, <1>2 DEF NewLink, LinkType, Kind

\* The netlink calls keep the set of links a set of links
LEMMA LinkDelTyped ==
  ASSUME NEW L \in SUBSET LinkType, NEW place
  PROVE  LinkDel(L, place) \in SUBSET LinkType
BY DEF LinkDel

LEMMA LinkMoveTyped ==
  ASSUME NEW L \in SUBSET LinkType, NEW l \in L,
         NEW place \in UNION {PlacesOf(c) : c \in Conn}
  PROVE  LinkMove(L, l, place) \in SUBSET LinkType
BY DEF LinkMove, LinkType

LEMMA InitInv == Init => Inv
BY ConstantsOK, FS_EmptySet
   DEF Init, Inv, TypeOK, AtHand, OpType, MdType, Idle, NoMd, Names, PCs, Working,
       EndpointOrNull, Classes, Ends, ConstantsOK

-----------------------------------------------------------------------------
(* Every step preserves Inv *)

\* Updates of one field of the handler of c
LEMMA FieldTyped ==
  ASSUME NEW c \in Conn, NEW f \in [Conn -> OpType]
  PROVE  /\ \A pc \in PCs : [f EXCEPT ![c].pc = pc] \in [Conn -> OpType]
         /\ \A x \in Ends : [f EXCEPT ![c].end = x] \in [Conn -> OpType]
         /\ \A x \in Classes \cup {"NONE"} :
              [f EXCEPT ![c].arg = x] \in [Conn -> OpType]
         /\ \A x \in {"failed", "undo", "end"} :
              [f EXCEPT ![c].after = x] \in [Conn -> OpType]
         /\ \A x \in EndpointOrNull :
              [f EXCEPT ![c].doomed = x] \in [Conn -> OpType]
         /\ \A x \in BOOLEAN : [f EXCEPT ![c].lost = x] \in [Conn -> OpType]
         /\ \A x \in BOOLEAN : [f EXCEPT ![c].inode = x] \in [Conn -> OpType]
<1>1. ASSUME NEW pc \in PCs PROVE [f EXCEPT ![c].pc = pc] \in [Conn -> OpType]
  BY DEF OpType
<1>2. ASSUME NEW x \in Ends PROVE [f EXCEPT ![c].end = x] \in [Conn -> OpType]
  BY DEF OpType
<1>3. ASSUME NEW x \in Classes \cup {"NONE"}
      PROVE  [f EXCEPT ![c].arg = x] \in [Conn -> OpType]
  BY DEF OpType
<1>4. ASSUME NEW x \in {"failed", "undo", "end"}
      PROVE  [f EXCEPT ![c].after = x] \in [Conn -> OpType]
  BY DEF OpType
<1>5. ASSUME NEW x \in EndpointOrNull
      PROVE  [f EXCEPT ![c].doomed = x] \in [Conn -> OpType]
  BY DEF OpType
<1>6. ASSUME NEW x \in BOOLEAN PROVE [f EXCEPT ![c].lost = x] \in [Conn -> OpType]
  BY DEF OpType
<1>7. ASSUME NEW x \in BOOLEAN PROVE [f EXCEPT ![c].inode = x] \in [Conn -> OpType]
  BY DEF OpType
<1> QED
  BY <1>1, <1>2, <1>3, <1>4, <1>5, <1>6, <1>7

\* Updates of one field of the metadata of c
LEMMA MdFieldTyped ==
  ASSUME NEW c \in Conn, NEW f \in [Conn -> MdType]
  PROVE  /\ \A x \in EndpointOrNull : [f EXCEPT ![c].dst = x] \in [Conn -> MdType]
         /\ \A x \in EndpointOrNull : [f EXCEPT ![c].dial = x] \in [Conn -> MdType]
         /\ \A x \in SUBSET Ends : [f EXCEPT ![c].cache = x] \in [Conn -> MdType]
         /\ \A x \in Names : [f EXCEPT ![c].named = x] \in [Conn -> MdType]
         /\ [f EXCEPT ![c].made = TRUE] \in [Conn -> MdType]
<1>1. ASSUME NEW x \in EndpointOrNull
      PROVE  /\ [f EXCEPT ![c].dst = x] \in [Conn -> MdType]
             /\ [f EXCEPT ![c].dial = x] \in [Conn -> MdType]
  BY DEF MdType
<1>2. ASSUME NEW x \in SUBSET Ends PROVE [f EXCEPT ![c].cache = x] \in [Conn -> MdType]
  BY DEF MdType
<1>3. ASSUME NEW x \in Names PROVE [f EXCEPT ![c].named = x] \in [Conn -> MdType]
  BY DEF MdType
<1>4. [f EXCEPT ![c].made = TRUE] \in [Conn -> MdType]
  BY DEF MdType
<1> QED
  BY <1>1, <1>2, <1>3, <1>4

LEMMA NameTyped ==
  /\ \A e \in Endpoint : StoredName(e) \in Names
  /\ \A n \in Names : SentName(n) \in Names /\ ClosedName(n) \in Names
BY DEF StoredName, SentName, ClosedName, Names

LEMMA InvOpOK == Inv => OpOK
BY DEF Inv, TypeOK, OpOK

LEMMA SameOpOK == OpOK /\ UNCHANGED op => OpOK'
BY DEF OpOK, AtHand

LEMMA GotoOK ==
  ASSUME OpOK, NEW c \in Conn, NEW pc \in PCs \ {"close", "delete"}, Goto(c, pc),
         pc \in Working => op[c].cur \in Endpoint
  PROVE  OpOK'
<1>1. op' \in [Conn -> OpType]
  BY FieldTyped DEF Goto, OpOK
<1>2. AtHand'
  BY DEF Goto, OpOK, AtHand, OpType
<1> QED
  BY <1>1, <1>2 DEF OpOK

LEMMA CallCloseOK ==
  ASSUME OpOK, NEW c \in Conn, NEW arg \in Classes \cup {"NONE"},
         NEW after \in {"failed", "undo", "end"}, CallClose(c, arg, after),
         after = "undo" => op[c].cur \in Endpoint
  PROVE  OpOK'
<1>1. [op EXCEPT ![c].pc = "close"] \in [Conn -> OpType]
  BY FieldTyped DEF OpOK, PCs
<1>2. [op EXCEPT ![c].pc = "close", ![c].arg = arg] \in [Conn -> OpType]
  BY <1>1, FieldTyped, Zenon
<1>3. op' \in [Conn -> OpType]
  BY <1>2, FieldTyped, Zenon DEF CallClose
<1>4. AtHand'
  BY DEF CallClose, OpOK, AtHand, OpType, Working
<1> QED
  BY <1>3, <1>4 DEF OpOK

LEMMA CreateFailedOK ==
  ASSUME OpOK, NEW c \in Conn, op[c].cur \in Endpoint, CreateFailed(c)
  PROVE  OpOK'
<1>1. CASE Goto(c, "failed")
  BY <1>1, GotoOK DEF PCs, Working
<1>2. CASE CallClose(c, "REMOTE", "undo")
  BY <1>2, CallCloseOK DEF Classes
<1> QED
  BY <1>1, <1>2 DEF CreateFailed

LEMMA CreatedOK ==
  ASSUME OpOK, md \in [Conn -> MdType], NEW c \in Conn,
         op[c].cur \in Endpoint, NEW cache \in SUBSET Ends, Created(c, cache)
  PROVE  OpOK' /\ md' \in [Conn -> MdType]
<1> DEFINE e == op[c].cur
           veth == IsLocal(c, e)
           pc == IF veth /\ op[c].end = "src" THEN "check"
                 ELSE IF ~veth /\ Outgoing(c) THEN "apply" ELSE "configure"
           end == IF veth THEN "dst" ELSE op[c].end
           dst == IF veth THEN md[c].dst ELSE e
           named == IF veth THEN md[c].named ELSE StoredName(e)
<1>1. pc \in PCs \ {"close", "delete"} /\ end \in Ends
  BY DEF PCs, Ends, OpOK, OpType
<1>2. op' = [op EXCEPT ![c].pc = pc, ![c].end = end]
  BY Zenon DEF Created
<1>3. [op EXCEPT ![c].pc = pc] \in [Conn -> OpType]
  BY <1>1, FieldTyped DEF OpOK
<1>4. op' \in [Conn -> OpType]
  BY <1>1, <1>2, <1>3, FieldTyped, Zenon
<1>5. AtHand'
  <2> HIDE DEF pc, end
  <2> QED
    BY <1>1, <1>2 DEF OpOK, AtHand, OpType
<1>6. md' = [md EXCEPT ![c].cache = cache, ![c].dst = dst, ![c].named = named]
  BY DEF Created
<1>7. dst \in EndpointOrNull /\ named \in Names
  BY NameTyped DEF EndpointOrNull, MdType
<1>8. md' \in [Conn -> MdType]
  <2> HIDE DEF dst, named
  <2>1. [md EXCEPT ![c].cache = cache] \in [Conn -> MdType]
    BY MdFieldTyped
  <2>2. [md EXCEPT ![c].cache = cache, ![c].dst = dst] \in [Conn -> MdType]
    BY <1>7, <2>1, MdFieldTyped, Zenon
  <2> QED
    BY <1>6, <1>7, <2>2, MdFieldTyped, Zenon
<1> QED
  BY <1>4, <1>5, <1>8 DEF OpOK

LEMMA FaultsTyped ==
  ASSUME Inv, NEW c \in Conn
  PROVE  /\ Fault => faults' \in 0..MaxFaults
         /\ NoFault \/ Strand(c) =>
              leak' \in [Conn -> BOOLEAN] /\ faults' \in 0..MaxFaults
<1>1. Fault => faults' \in 0..MaxFaults
  BY ConstantsOK DEF Fault, ConstantsOK, Inv, TypeOK
<1>2. NoFault => leak' \in [Conn -> BOOLEAN] /\ faults' \in 0..MaxFaults
  BY DEF NoFault, Inv, TypeOK
<1>3. Strand(c) => leak' \in [Conn -> BOOLEAN]
  BY Zenon DEF Strand, Inv, TypeOK
<1> QED
  BY <1>1, <1>2, <1>3 DEF Strand

LEMMA StartInv ==
  ASSUME Inv, NEW c \in Conn, Select(c) \/ Refresh(c)
  PROVE  Inv'
<1>1. PICK e \in Endpoint, n \in Nat, bare \in BOOLEAN : Start(c, e, n, bare)
  <2>1. CASE Select(c)
    <3>1. PICK e \in Candidates(c) :
            \/ Start(c, e, Cardinality(Candidates(c)) - 1, TRUE)
            \/ \E bare \in {TRUE, held[c] = Null} : Start(c, e, 0, bare)
      BY <2>1 DEF Select
    <3>2. e \in Endpoint
      BY DEF Candidates
    <3>3. IsFiniteSet(Candidates(c))
      BY ConstantsOK, FS_Subset DEF ConstantsOK, Candidates
    <3>4. Cardinality(Candidates(c)) \in Nat /\ Cardinality(Candidates(c)) # 0
      BY <3>3, <3>1, FS_CardinalityType, FS_EmptySet
    <3>5. Cardinality(Candidates(c)) - 1 \in Nat
      BY <3>4
    <3> QED
      BY <3>1, <3>2, <3>5
  <2>2. CASE Refresh(c)
    BY <2>2 DEF Refresh, Inv, TypeOK, EndpointOrNull
  <2> QED
    BY <2>1, <2>2
<1>2. op' \in [Conn -> OpType]
  <2> DEFINE fresh == ~md[c].made
             o == [Idle EXCEPT !.pc = "call", !.cur = e, !.tries = n,
                               !.bare = bare, !.fresh = fresh]
  <2>0. fresh \in BOOLEAN
    OBVIOUS
  <2>1. o \in OpType
    <3> HIDE DEF fresh
    <3> QED
      BY <2>0 DEF Idle, OpType, PCs, Ends, Classes, EndpointOrNull
  <2>2. op' = [op EXCEPT ![c] = o]
    BY <1>1 DEF Start
  <2> HIDE DEF o
  <2> QED
    BY <2>1, <2>2 DEF Inv, TypeOK
<1>3. leak' \in [Conn -> BOOLEAN]
  BY <1>1, Zenon DEF Start, Inv, TypeOK
<1>4. AtHand'
  BY <1>1 DEF Start, Inv, AtHand, TypeOK, OpType, Idle, Working
<1>5. md' \in [Conn -> MdType]
  BY <1>1, MdFieldTyped DEF Start, Inv, TypeOK
<1> QED
  BY <1>1, <1>2, <1>3, <1>4, <1>5 DEF Start, Inv, TypeOK

LEMMA CloseInv ==
  ASSUME Inv, NEW c \in Conn, Close(c)
  PROVE  Inv'
<1>1. OpOK' /\ est' \in [Conn -> EndpointOrNull] /\ md' \in [Conn -> MdType]
  <2>1. CASE CallClose(c, SrcCls[c], "end") /\ UNCHANGED <<est, md>>
    <3>1. SrcCls[c] \in Classes \cup {"NONE"}
      BY ConstantsOK DEF ConstantsOK
    <3> QED
      BY <2>1, <3>1, InvOpOK, CallCloseOK DEF Inv, TypeOK
  <2>2. CASE /\ est' = [est EXCEPT ![c] = Null]
             /\ md' \in {md, [md EXCEPT ![c] = NoMd]}
             /\ UNCHANGED op
    <3>1. OpOK'
      BY <2>2, InvOpOK, SameOpOK
    <3>2. est' \in [Conn -> EndpointOrNull]
      BY <2>2 DEF Inv, TypeOK, EndpointOrNull
    <3>3. NoMd \in MdType
      BY DEF MdType, NoMd, Names, EndpointOrNull
    <3>4. md' \in [Conn -> MdType]
      BY <2>2, <3>3 DEF Inv, TypeOK
    <3> QED
      BY <3>1, <3>2, <3>4
  <2> QED
    BY <2>1, <2>2 DEF Close
<1>2. leak' \in [Conn -> BOOLEAN] /\ faults' \in 0..MaxFaults
  BY FaultsTyped DEF Close
<1>3. held' \in [Conn -> EndpointOrNull]
  BY DEF Close, Inv, TypeOK, EndpointOrNull
<1> QED
  BY <1>1, <1>2, <1>3 DEF Inv, TypeOK, OpOK, Close

-----------------------------------------------------------------------------
(* On the way down *)

LEMMA RefusedOK ==
  ASSUME OpOK, NEW c \in Conn, Refused(c)
  PROVE  OpOK'
<1>1. (IF op[c].bare THEN "NONE" ELSE SrcCls[c]) \in Classes \cup {"NONE"}
  BY ConstantsOK DEF ConstantsOK
<1> QED
  BY <1>1, CallCloseOK DEF Refused

LEMMA SetDialTyped ==
  ASSUME md \in [Conn -> MdType], NEW c \in Conn, NEW e \in EndpointOrNull,
         NEW n \in Names, SetDial(c, e, n)
  PROVE  md' \in [Conn -> MdType]
<1>1. [md EXCEPT ![c].dial = e] \in [Conn -> MdType]
  BY MdFieldTyped
<1> QED
  BY <1>1, MdFieldTyped, Zenon DEF SetDial

LEMMA SwitchPeerInv ==
  ASSUME Inv, NEW c \in Conn, SwitchPeer(c)
  PROVE  Inv'
<1>1. OpOK'
  BY InvOpOK, SameOpOK, RefusedOK, Zenon DEF SwitchPeer
<1>2. md' \in [Conn -> MdType]
  <2>1. \E n \in Names : SetDial(c, Null, n)
    BY NameTyped DEF SwitchPeer, Inv, TypeOK, MdType
  <2> QED
    BY <2>1, SetDialTyped DEF EndpointOrNull, Inv, TypeOK
<1>3. sess' \in [Conn -> SUBSET Node]
  <2>1. [sess EXCEPT ![c] = @ \ {Url[md[c].dial]}] \in [Conn -> SUBSET Node]
    BY DEF Inv, TypeOK
  <2> QED
    BY <2>1 DEF SwitchPeer, Inv, TypeOK
<1>4. faults' \in 0..MaxFaults
  BY FaultsTyped DEF SwitchPeer, Inv, TypeOK
<1> QED
  BY <1>1, <1>2, <1>3, <1>4 DEF Inv, TypeOK, OpOK, SwitchPeer

LEMMA AcceptRefuseInv ==
  ASSUME Inv, NEW c \in Conn, Accept(c) \/ Refuse(c)
  PROVE  Inv'
<1>1. op[c].cur \in Endpoint
  BY DEF Accept, Refuse, Inv, AtHand, Working
<1>2. [sess EXCEPT ![c] = @ \cup {Url[op[c].cur]}] \in [Conn -> SUBSET Node]
  BY <1>1, ConstantsOK DEF ConstantsOK, Inv, TypeOK
<1> DEFINE sent == SentName(md[c].named)
<1>0. md[c].named \in Names /\ sent \in Names
  BY NameTyped DEF Inv, TypeOK, MdType
<1>3. CASE Accept(c)
  <2>1. OpOK'
    <3>1. FirstEnd(c) \in Ends
      BY DEF FirstEnd, Ends
    <3>2. [op EXCEPT ![c].pc = "check"] \in [Conn -> OpType]
      BY FieldTyped, InvOpOK DEF PCs, OpOK
    <3>3. op' \in [Conn -> OpType]
      BY <1>3, <3>1, <3>2, FieldTyped, Zenon DEF Accept
    <3>4. AtHand'
      BY <1>1, <1>3 DEF Accept, Inv, TypeOK, AtHand, OpType
    <3> QED
      BY <3>3, <3>4 DEF OpOK
  <2>2. md' \in [Conn -> MdType]
    <3>1. SetDial(c, op[c].cur, sent)
      BY <1>3 DEF Accept
    <3> HIDE DEF sent
    <3> QED
      BY <1>0, <1>1, <3>1, SetDialTyped DEF EndpointOrNull, Inv, TypeOK
  <2> QED
    BY <1>2, <1>3, <2>1, <2>2, FaultsTyped
       DEF Inv, TypeOK, OpOK, Accept
<1>4. CASE Refuse(c)
  <2>1. OpOK'
    BY <1>4, InvOpOK, RefusedOK DEF Refuse
  <2>2. md' \in [Conn -> MdType]
    <3>1. SetDial(c, op[c].cur, sent) \/ SetDial(c, Null, md[c].named)
      BY <1>4 DEF Refuse
    <3> HIDE DEF sent
    <3> QED
      BY <1>0, <1>1, <3>1, SetDialTyped DEF EndpointOrNull, Inv, TypeOK
  <2>3. sess' \in [Conn -> SUBSET Node] /\ faults' \in 0..MaxFaults
    BY <1>2, <1>4, FaultsTyped DEF Refuse, Inv, TypeOK
  <2> QED
    BY <1>4, <2>1, <2>2, <2>3 DEF Inv, TypeOK, OpOK, Refuse
<1> QED
  BY <1>3, <1>4

-----------------------------------------------------------------------------
(* veth.Create and vxlan.Create *)

LEMMA CheckInv ==
  ASSUME Inv, NEW c \in Conn, Check(c)
  PROVE  Inv'
<1>1. op[c].cur \in Endpoint
  BY DEF Check, Inv, AtHand, Working
<1>2. OpOK' /\ md' \in [Conn -> MdType]
  <2>1. CASE Created(c, md[c].cache)
    <3>1. md[c].cache \in SUBSET Ends
      BY DEF Inv, TypeOK, MdType
    <3> QED
      BY <2>1, <3>1, <1>1, InvOpOK, CreatedOK DEF Inv, TypeOK
  <2>2. CASE /\ Goto(c, IF IsLocal(c, op[c].cur) /\ op[c].end = "dst"
                        THEN "move" ELSE "add")
             /\ UNCHANGED md
    <3>1. (IF IsLocal(c, op[c].cur) /\ op[c].end = "dst" THEN "move" ELSE "add")
            \in PCs \ {"close", "delete"}
      BY DEF PCs
    <3> QED
      BY <2>2, <3>1, <1>1, InvOpOK, GotoOK DEF Inv, TypeOK
  <2>3. CASE CreateFailed(c) /\ UNCHANGED md
    BY <1>1, <2>3, InvOpOK, CreateFailedOK DEF Inv, TypeOK
  <2> QED
    BY <2>1, <2>2, <2>3 DEF Check
<1>3. links' \subseteq LinkType
  <2>1. links \in SUBSET LinkType
    BY DEF Inv, TypeOK
  <2>2. links' \in {links, LinkDel(links, Here(c))}
    BY DEF Check
  <2> QED
    BY <2>1, <2>2, LinkDelTyped, Zenon
<1>4. leak' \in [Conn -> BOOLEAN] /\ faults' \in 0..MaxFaults
  BY FaultsTyped DEF Check
<1> QED
  BY <1>2, <1>3, <1>4 DEF Inv, TypeOK, OpOK, Check

LEMMA AddInv ==
  ASSUME Inv, NEW c \in Conn, Add(c)
  PROVE  Inv'
<1>1. op[c].cur \in Endpoint
  BY DEF Add, Inv, AtHand, Working
<1>2. OpOK'
  <2>1. CASE Goto(c, "move")
    BY <2>1, <1>1, InvOpOK, GotoOK DEF PCs
  <2>2. CASE CreateFailed(c)
    BY <1>1, <2>2, InvOpOK, CreateFailedOK
  <2> QED
    BY <2>1, <2>2 DEF Add
<1>3. links' \subseteq LinkType
  <2>1. Added(c) \subseteq LinkType
    <3>1. op[c].end \in Ends
      BY DEF Inv, TypeOK, OpType
    <3> QED
      BY <3>1, <1>1, NewLinkTyped DEF Added
  <2>2. links' = links \cup Added(c) \/ links' = links
    BY DEF Add
  <2> QED
    BY <2>1, <2>2 DEF Inv, TypeOK
<1>4. leak' \in [Conn -> BOOLEAN] /\ faults' \in 0..MaxFaults
  BY FaultsTyped DEF Add
<1> QED
  BY <1>2, <1>3, <1>4 DEF Inv, TypeOK, OpOK, Add

LEMMA MoveInv ==
  ASSUME Inv, NEW c \in Conn, Move(c)
  PROVE  Inv'
<1>1. op[c].cur \in Endpoint /\ op[c].end \in Ends
  BY DEF Move, Inv, TypeOK, AtHand, Working, OpType
<1>2. OpOK'
  <2>1. CASE Goto(c, "rename")
    BY <2>1, <1>1, InvOpOK, GotoOK DEF PCs
  <2>2. CASE CreateFailed(c)
    BY <1>1, <2>2, InvOpOK, CreateFailedOK
  <2> QED
    BY <2>1, <2>2 DEF Move
<1>3. links' \subseteq LinkType
  <2> DEFINE dest == Inserted(c, op[c].cur, op[c].end)
  <2>1. dest \in UNION {PlacesOf(d) : d \in Conn}
    BY <1>1, PlacesTyped
  <2>2. links' = links \/ \E l \in links : links' = LinkMove(links, l, dest)
    BY DEF Move, At
  <2>3. links \in SUBSET LinkType
    BY DEF Inv, TypeOK
  <2> QED
    BY <2>1, <2>2, <2>3, LinkMoveTyped, Zenon
<1>4. leak' \in [Conn -> BOOLEAN] /\ faults' \in 0..MaxFaults
  BY FaultsTyped DEF Move
<1> QED
  BY <1>2, <1>3, <1>4 DEF Inv, TypeOK, OpOK, Move

LEMMA RenameInv ==
  ASSUME Inv, NEW c \in Conn, Rename(c)
  PROVE  Inv'
<1>1. op[c].cur \in Endpoint /\ op[c].end \in Ends
  BY DEF Rename, Inv, TypeOK, AtHand, Working, OpType
<1>2. OpOK' /\ md' \in [Conn -> MdType]
  <2>1. CASE Created(c, md[c].cache \cup {op[c].end})
    <3>1. md[c].cache \cup {op[c].end} \in SUBSET Ends
      BY <1>1 DEF Inv, TypeOK, MdType
    <3> QED
      BY <2>1, <3>1, <1>1, InvOpOK, CreatedOK DEF Inv, TypeOK
  <2>2. CASE CreateFailed(c) /\ UNCHANGED md
    BY <1>1, <2>2, InvOpOK, CreateFailedOK DEF Inv, TypeOK
  <2> QED
    BY <2>1, <2>2 DEF Rename
<1>3. links' \subseteq LinkType
  <2>1. Here(c) \in UNION {PlacesOf(d) : d \in Conn}
    BY <1>1, PlacesTyped DEF Here
  <2>2. links' = links \/ \E l \in links : links' = LinkMove(links, l, Here(c))
    BY DEF Rename, Renamed, At
  <2>3. links \in SUBSET LinkType
    BY DEF Inv, TypeOK
  <2> QED
    BY <2>1, <2>2, <2>3, LinkMoveTyped, Zenon
<1>4. leak' \in [Conn -> BOOLEAN] /\ faults' \in 0..MaxFaults
  BY FaultsTyped DEF Rename
<1> QED
  BY <1>2, <1>3, <1>4 DEF Inv, TypeOK, OpOK, Rename

-----------------------------------------------------------------------------
(* On the way back up *)

LEMMA GiveUpOK ==
  ASSUME Inv, NEW c \in Conn, GiveUp(c)
  PROVE  OpOK' /\ md' \in [Conn -> MdType]
<1>1. op' \in [Conn -> OpType]
  BY DEF GiveUp, Inv, TypeOK, OpType, Idle, PCs, Ends, Classes, EndpointOrNull
<1>2. AtHand'
  BY DEF GiveUp, Inv, TypeOK, AtHand, Idle, Working
<1>3. md' \in [Conn -> MdType]
  BY DEF GiveUp, Inv, TypeOK, MdType, NoMd, Names, EndpointOrNull
<1> QED
  BY <1>1, <1>2, <1>3 DEF OpOK

LEMMA ConfigureInv ==
  ASSUME Inv, NEW c \in Conn, Configure(c)
  PROVE  Inv'
<1>1. op[c].cur \in Endpoint
  BY DEF Configure, Inv, AtHand, Working
<1>2. OpOK'
  BY <1>1, InvOpOK, GotoOK DEF Configure, PCs, Working
<1>3. md' \in [Conn -> MdType]
  <2>1. CASE md' = [md EXCEPT ![c].dst = op[c].cur,
                              ![c].named = StoredName(op[c].cur)]
    <3> DEFINE n == StoredName(op[c].cur)
    <3>1. n \in Names
      BY <1>1, NameTyped
    <3>2. md' = [md EXCEPT ![c].dst = op[c].cur, ![c].named = n]
      BY <2>1
    <3> HIDE DEF n
    <3>3. [md EXCEPT ![c].dst = op[c].cur] \in [Conn -> MdType]
      BY <1>1, MdFieldTyped DEF Inv, TypeOK, EndpointOrNull
    <3> QED
      BY <3>1, <3>2, <3>3, MdFieldTyped, Zenon
  <2> QED
    BY <2>1 DEF Configure, Inv, TypeOK
<1>4. leak' \in [Conn -> BOOLEAN] /\ faults' \in 0..MaxFaults
  BY FaultsTyped DEF Configure
<1> QED
  BY <1>2, <1>3, <1>4 DEF Inv, TypeOK, OpOK, Configure

LEMMA ApplyInv ==
  ASSUME Inv, NEW c \in Conn, Apply(c)
  PROVE  Inv'
<1>1. op[c].cur \in Endpoint
  BY DEF Apply, Inv, AtHand, Working
<1>2. OpOK'
  <2>1. CASE Goto(c, "return")
    BY <1>1, <2>1, InvOpOK, GotoOK DEF PCs
  <2>2. CASE CallClose(c, "LOCAL", "undo")
    BY <1>1, <2>2, InvOpOK, CallCloseOK DEF Classes
  <2> QED
    BY <2>1, <2>2 DEF Apply
<1>3. faults' \in 0..MaxFaults
  BY FaultsTyped DEF Apply, Inv, TypeOK
<1> QED
  BY <1>2, <1>3 DEF Inv, TypeOK, OpOK, Apply

LEMMA ReturnInv ==
  ASSUME Inv, NEW c \in Conn, Return(c)
  PROVE  Inv'
<1>1. op[c].cur \in Endpoint
  BY DEF Return, Inv, AtHand, Working
<1>2. op' \in [Conn -> OpType]
  BY DEF Return, Inv, TypeOK, OpType, Idle, PCs, Ends, Classes, EndpointOrNull
<1>3. AtHand'
  BY DEF Return, Inv, TypeOK, AtHand, Idle, Working
<1>4. /\ est' \in [Conn -> EndpointOrNull]
      /\ held' \in [Conn -> EndpointOrNull]
  BY <1>1 DEF Return, Inv, TypeOK, EndpointOrNull
<1>5. faults' \in 0..MaxFaults
  BY FaultsTyped DEF Return, Inv, TypeOK
<1> QED
  BY <1>2, <1>3, <1>4, <1>5 DEF Inv, TypeOK, OpOK, Return

LEMMA LateErrorInv ==
  ASSUME Inv, NEW c \in Conn, LateError(c)
  PROVE  Inv'
<1>1. leak' \in [Conn -> BOOLEAN] /\ faults' \in 0..MaxFaults
  BY FaultsTyped DEF LateError
<1> QED
  BY <1>1, GiveUpOK DEF LateError, Inv, TypeOK, OpOK

LEMMA FailedInv ==
  ASSUME Inv, NEW c \in Conn, Failed(c)
  PROVE  Inv'
<1>1. OpOK' /\ md' \in [Conn -> MdType]
  <2>1. CASE /\ op[c].tries > 0 /\ UNCHANGED md
             /\ \E e \in Candidates(c) :
                  op' = [op EXCEPT ![c] =
                           [Idle EXCEPT !.pc = "call", !.cur = e,
                                        !.bare = op[c].bare,
                                        !.fresh = op[c].fresh,
                                        !.tries = FewerTries(c)]]
    <3>1. PICK e \in Candidates(c) :
            op' = [op EXCEPT ![c] =
                     [Idle EXCEPT !.pc = "call", !.cur = e, !.bare = op[c].bare,
                                  !.fresh = op[c].fresh,
                                  !.tries = FewerTries(c)]]
      BY <2>1
    <3>2. e \in Endpoint /\ FewerTries(c) \in Nat /\ op[c].bare \in BOOLEAN
           /\ op[c].fresh \in BOOLEAN
      BY <2>1 DEF Candidates, FewerTries, Inv, TypeOK, OpType
    <3> DEFINE o == [Idle EXCEPT !.pc = "call", !.cur = e, !.bare = op[c].bare,
                                 !.fresh = op[c].fresh,
                                 !.tries = FewerTries(c)]
    <3>3. o \in OpType /\ o.cur \in Endpoint /\ o.pc = "call"
      BY <3>2 DEF Idle, OpType, PCs, Ends, Classes, EndpointOrNull
    <3> HIDE DEF o
    <3>4. op' \in [Conn -> OpType]
      BY <3>1, <3>3 DEF Inv, TypeOK, o
    <3>5. AtHand'
      BY <3>1, <3>3 DEF Inv, TypeOK, AtHand, o
    <3> QED
      BY <2>1, <3>4, <3>5 DEF Inv, TypeOK, OpOK
  <2>2. CASE GiveUp(c)
    BY <2>2, GiveUpOK
  <2> QED
    BY <2>1, <2>2 DEF Failed
<1>2. leak' \in [Conn -> BOOLEAN] /\ faults' \in 0..MaxFaults
  BY FaultsTyped DEF Failed
<1> QED
  BY <1>1, <1>2 DEF Inv, TypeOK, OpOK, Failed

-----------------------------------------------------------------------------
(* closeConnection and below *)

LEMMA BelowPC == \A c \in Conn : Below(c) \in PCs \ (Working \cup {"close", "delete"})
BY DEF Below, PCs, Working

LEMMA UnstoreInv ==
  ASSUME Inv, NEW c \in Conn, Unstore(c)
  PROVE  Inv'
<1> DEFINE d == md[c].dst
           pc == IF d = Null THEN Below(c) ELSE "delete"
           end == IF op[c].arg = "LOCAL" THEN "src" ELSE "dst"
           inode == md[c].named = "inode"
<1>0. inode \in BOOLEAN
  OBVIOUS
<1>1. /\ pc \in PCs \ Working /\ end \in Ends /\ d \in EndpointOrNull
      /\ pc = "delete" => d \in Endpoint
  BY BelowPC DEF Inv, TypeOK, MdType, PCs, Working, Ends, EndpointOrNull
<1>2. op' = [op EXCEPT ![c].pc = pc, ![c].doomed = d, ![c].inode = inode,
                       ![c].end = end]
  BY DEF Unstore
<1>3. md' \in [Conn -> MdType]
  <2>1. [md EXCEPT ![c].dst = Null] \in [Conn -> MdType]
    BY MdFieldTyped DEF Inv, TypeOK, EndpointOrNull
  <2>2. "file" \in Names
    BY DEF Names
  <2> QED
    BY <2>1, <2>2, MdFieldTyped, Zenon DEF Unstore
<1> HIDE DEF d, pc, end, inode
<1>4. op' \in [Conn -> OpType]
  <2>1. [op EXCEPT ![c].pc = pc] \in [Conn -> OpType]
    BY <1>1, FieldTyped DEF Inv, TypeOK
  <2>2. [op EXCEPT ![c].pc = pc, ![c].doomed = d] \in [Conn -> OpType]
    BY <1>1, <2>1, FieldTyped, Zenon
  <2>3. [op EXCEPT ![c].pc = pc, ![c].doomed = d, ![c].inode = inode]
          \in [Conn -> OpType]
    BY <1>0, <2>2, FieldTyped, Zenon
  <2> QED
    BY <1>1, <1>2, <2>3, FieldTyped, Zenon
<1>5. AtHand'
  <2>1. op[c].after = "undo" => op[c].cur \in Endpoint
    BY DEF Unstore, Inv, AtHand
  <2>2. /\ op'[c].pc = pc /\ op'[c].doomed = d
        /\ op'[c].cur = op[c].cur /\ op'[c].after = op[c].after
        /\ \A x \in Conn \ {c} : op'[x] = op[x]
    BY <1>2 DEF Inv, TypeOK, OpType
  <2> QED
    BY <1>1, <2>1, <2>2 DEF Inv, AtHand
<1> QED
  BY <1>3, <1>4, <1>5
     DEF Inv, TypeOK, OpOK, Unstore, NoFault

LEMMA DeleteInv ==
  ASSUME Inv, NEW c \in Conn, Delete(c)
  PROVE  Inv'
<1>1. OpOK'
  <2>1. CASE op' = [op EXCEPT ![c].end = "dst"]
    <3>1. op' \in [Conn -> OpType]
      BY <2>1, FieldTyped DEF Ends, Inv, TypeOK
    <3>2. AtHand'
      BY <2>1 DEF Inv, TypeOK, AtHand, OpType
    <3> QED
      BY <3>1, <3>2 DEF OpOK
  <2>2. CASE Goto(c, Below(c))
    BY <2>2, BelowPC, InvOpOK, GotoOK
  <2> QED
    BY <2>1, <2>2 DEF Delete
<1>2. md' \in [Conn -> MdType]
  <2>1. \A cache \in SUBSET Ends : [md EXCEPT ![c].cache = cache] \in [Conn -> MdType]
    BY DEF Inv, TypeOK, MdType
  <2>2. md[c].cache \in SUBSET Ends
    BY DEF Inv, TypeOK, MdType
  <2> QED
    BY <2>1, <2>2 DEF Delete, RemoveLink, Inv, TypeOK
<1>3. links' \subseteq LinkType
  <2>1. links \in SUBSET LinkType
    BY DEF Inv, TypeOK
  <2>2. links' \in {links, LinkDel(links, DeletePlace(c))}
    BY DEF Delete, RemoveLink
  <2> QED
    BY <2>1, <2>2, LinkDelTyped, Zenon
<1>4. leak' \in [Conn -> BOOLEAN] /\ faults' \in 0..MaxFaults
  <2>1. ASSUME NEW b, leak' = [leak EXCEPT ![c] = leak[c] \/ b], UNCHANGED faults
        PROVE  leak' \in [Conn -> BOOLEAN] /\ faults' \in 0..MaxFaults
    <3>1. (leak[c] \/ b) \in BOOLEAN
      OBVIOUS
    <3> QED
      BY <2>1, <3>1, Zenon DEF Inv, TypeOK
  <2>2. CASE /\ UNCHANGED faults
             /\ leak' = [leak EXCEPT ![c] = leak[c] \/ (OpensHost(c) /\ LinksOf(c)' # {})]
    BY <2>1, <2>2, Zenon
  <2> QED
    BY <2>2, FaultsTyped, Zenon DEF Delete
<1> QED
  BY <1>1, <1>2, <1>3, <1>4 DEF Inv, TypeOK, OpOK, Delete

LEMMA DisconnectInv ==
  ASSUME Inv, NEW c \in Conn, Disconnect(c)
  PROVE  Inv'
<1>1. OpOK' /\ md' \in [Conn -> MdType] /\ est' \in [Conn -> EndpointOrNull]
  <2> DEFINE n == md[c].named
  <2>0. n \in Names
    BY DEF Inv, TypeOK, MdType
  <2> HIDE DEF n
  <2>1. CASE /\ est' = [est EXCEPT ![c] = Null]
             /\ md' = [md EXCEPT ![c] = NoMd]
             /\ op' = [op EXCEPT ![c] = Idle]
    <3>1. op' \in [Conn -> OpType]
      BY <2>1 DEF Inv, TypeOK, OpType, Idle, PCs, Ends, Classes, EndpointOrNull
    <3>2. AtHand'
      BY <2>1 DEF Inv, TypeOK, AtHand, Idle, Working
    <3>3. md' \in [Conn -> MdType] /\ est' \in [Conn -> EndpointOrNull]
      BY <2>1 DEF Inv, TypeOK, MdType, NoMd, Names, EndpointOrNull
    <3> QED
      BY <3>1, <3>2, <3>3 DEF OpOK
  <2>2. CASE SetDial(c, Null, n) /\ Goto(c, "failed") /\ UNCHANGED est
    <3>1. OpOK'
      BY <2>2, InvOpOK, GotoOK DEF PCs, Working
    <3>2. md' \in [Conn -> MdType]
      BY <2>0, <2>2, SetDialTyped DEF Inv, TypeOK, EndpointOrNull
    <3> QED
      BY <2>2, <3>1, <3>2 DEF Inv, TypeOK
  <2> QED
    BY <2>1, <2>2 DEF Disconnect, n
<1>2. sess' \in [Conn -> SUBSET Node]
  BY DEF Disconnect, Inv, TypeOK
<1>3. faults' \in 0..MaxFaults
  BY FaultsTyped DEF Disconnect, Inv, TypeOK
<1> QED
  BY <1>1, <1>2, <1>3 DEF Inv, TypeOK, OpOK, Disconnect

-----------------------------------------------------------------------------
(* The process and the node *)

LEMMA CrashInv ==
  ASSUME Inv, Crash, faults' \in 0..MaxFaults
  PROVE  Inv'
<1>1. op' \in [Conn -> OpType]
  BY DEF Crash, OpType, Idle, PCs, Ends, Classes, EndpointOrNull
<1>2. AtHand'
  BY DEF Crash, AtHand, Idle, Working
<1>3. md' \in [Conn -> MdType] /\ est' \in [Conn -> EndpointOrNull]
  BY DEF Crash, MdType, NoMd, Names, EndpointOrNull
<1>4. leak' \in [Conn -> BOOLEAN]
  BY Zenon DEF Crash, Inv, TypeOK
<1> QED
  BY <1>1, <1>2, <1>3, <1>4 DEF Inv, TypeOK, Crash

LEMMA LoseLinkInv ==
  ASSUME Inv, LoseLink
  PROVE  Inv'
<1>1. PICK l \in links :
        /\ links' = LinkDel(links, l.at)
        /\ op' = [op EXCEPT ![l.owner].lost = op[l.owner].pc # "idle"]
  BY DEF LoseLink
<1>2. l.owner \in Conn
  BY DEF Inv, TypeOK, LinkType
<1>3. (op[l.owner].pc # "idle") \in BOOLEAN
  OBVIOUS
<1>4. op' \in [Conn -> OpType]
  BY <1>1, <1>2, <1>3, FieldTyped, Zenon DEF Inv, TypeOK
<1>5. AtHand'
  BY <1>1, <1>2 DEF Inv, TypeOK, AtHand, OpType
<1>6. links' \subseteq LinkType
  BY <1>1, LinkDelTyped DEF Inv, TypeOK
<1>7. faults' \in 0..MaxFaults
  BY ConstantsOK DEF LoseLink, Fault, ConstantsOK, Inv, TypeOK
<1> QED
  BY <1>4, <1>5, <1>6, <1>7 DEF Inv, TypeOK, LoseLink

LEMMA HandlerInv ==
  ASSUME Inv, NEW c \in Conn, Handler(c)
  PROVE  Inv'
<1>1. CASE Panic(c)
  <2>1. faults' \in 0..MaxFaults
    BY <1>1, FaultsTyped DEF Panic, Inv, TypeOK
  <2> QED
    BY <1>1, <2>1, CrashInv DEF Panic
<1> QED
  BY <1>1, SwitchPeerInv, AcceptRefuseInv, CheckInv, AddInv, MoveInv, RenameInv,
     ConfigureInv, ApplyInv, ReturnInv, LateErrorInv, FailedInv, UnstoreInv,
     DeleteInv, DisconnectInv DEF Handler

LEMMA NextInv ==
  ASSUME Inv, [Next]_vars
  PROVE  Inv'
<1>1. CASE Restart
  <2>1. faults' \in 0..MaxFaults
    BY <1>1, ConstantsOK DEF Restart, Fault, ConstantsOK, Inv, TypeOK
  <2> QED
    BY <1>1, <2>1, CrashInv DEF Restart
<1>2. CASE UNCHANGED vars
  BY <1>2 DEF vars, Inv, TypeOK, AtHand
<1> QED
  BY <1>1, <1>2, StartInv, CloseInv, HandlerInv, LoseLinkInv DEF Next

\* XConnect's type invariant, together with AtHand: no handler computes an
\* interface for an endpoint it does not have, and every device is at a
\* place the code computes for some connection.
THEOREM TypeCorrect == Spec => [](TypeOK /\ AtHand)
<1>1. Init => Inv
  BY InitInv
<1>2. Inv /\ [Next]_vars => Inv'
  BY NextInv
<1> QED
  BY <1>1, <1>2, PTL DEF Spec, Inv

=============================================================================
