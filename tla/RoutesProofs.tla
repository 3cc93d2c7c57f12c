---------------------------- MODULE RoutesProofs ----------------------------
(***************************************************************************)
(* What every handler does to the devices, the metadata and the variables  *)
(* of its connection; and that a request returns success only when it has  *)
(* joined the client to the endpoint: proved for every set of connections, *)
(* endpoints and nodes.                                                    *)
(***************************************************************************)
EXTENDS PairProofs

\* The endpoints a connection has to do with are among its candidates
CandOrNull(c) == Candidates(c) \cup {Null}

Making == {"check", "add", "move", "rename"}

Eligible(c) ==
  /\ {est[c], held[c], md[c].dst, op[c].cur, op[c].doomed} \subseteq CandOrNull(c)
  /\ est[c] # Null \/ op[c].pc # "idle" => md[c].made
  /\ op[c].fresh => est[c] = Null /\ op[c].pc # "idle"
  /\ op[c].pc = "apply" => Outgoing(c)
  /\ op[c].pc \in {"close", "delete"} /\ op[c].arg = "LOCAL" => Outgoing(c)
  /\ ~Outgoing(c) => /\ op[c].pc \in Making => op[c].end = "dst"
                     /\ \A l \in LinksOf(c) : l.end = "dst"

EInv == PInv /\ \A c \in Conn : Eligible(c)

-----------------------------------------------------------------------------
(* What the updates of a handler do to the fields of op and md *)

SameBut(c, pc) ==
  /\ op'[c].pc = pc /\ op'[c].end = op[c].end /\ op'[c].cur = op[c].cur
  /\ op'[c].doomed = op[c].doomed /\ op'[c].fresh = op[c].fresh
  /\ op'[c].lost = op[c].lost

Calm(c) == md'[c].dst = md[c].dst /\ md'[c].cache = md[c].cache /\ md'[c].made = md[c].made

LEMMA Typed ==
  ASSUME PInv
  PROVE  /\ op \in [Conn -> OpType] /\ md \in [Conn -> MdType]
         /\ est \in [Conn -> EndpointOrNull] /\ held \in [Conn -> EndpointOrNull]
         /\ leak \in [Conn -> BOOLEAN] /\ links \in SUBSET LinkType
         /\ AtHand
BY DEF PInv, IInv, Inv, TypeOK

LEMMA GotoFields ==
  ASSUME PInv, NEW c \in Conn, NEW pc, Goto(c, pc)
  PROVE  /\ SameBut(c, pc) /\ op'[c].arg = op[c].arg /\ op'[c].after = op[c].after
         /\ \A x \in Conn \ {c} : op'[x] = op[x]
BY Typed DEF Goto, SameBut, OpType

LEMMA CallCloseFields ==
  ASSUME PInv, NEW c \in Conn, NEW arg, NEW after, CallClose(c, arg, after)
  PROVE  /\ SameBut(c, "close") /\ op'[c].arg = arg /\ op'[c].after = after
         /\ \A x \in Conn \ {c} : op'[x] = op[x]
<1> DEFINE f == [op EXCEPT ![c].pc = "close", ![c].arg = arg]
<1>1. op' = [op EXCEPT ![c].pc = "close", ![c].arg = arg, ![c].after = after]
  BY DEF CallClose
<1> QED
  BY <1>1, Typed DEF SameBut, OpType

LEMMA CreateFailedFields ==
  ASSUME PInv, NEW c \in Conn, CreateFailed(c)
  PROVE  /\ \/ IsLocal(c, op[c].cur) /\ SameBut(c, "failed")
            \/ /\ ~IsLocal(c, op[c].cur) /\ SameBut(c, "close")
               /\ op'[c].arg = "REMOTE" /\ op'[c].after = "undo"
         /\ \A x \in Conn \ {c} : op'[x] = op[x]
BY GotoFields, CallCloseFields DEF CreateFailed

\* The place a Create goes on at
After(c) ==
  IF IsLocal(c, op[c].cur)
  THEN IF op[c].end = "src" THEN "check" ELSE "configure"
  ELSE IF Outgoing(c) THEN "apply" ELSE "configure"

LEMMA CreatedFields ==
  ASSUME PInv, NEW c \in Conn, NEW cache, Created(c, cache)
  PROVE  /\ op'[c].pc = After(c) /\ op'[c].cur = op[c].cur
         /\ op'[c].end = IF IsLocal(c, op[c].cur) THEN "dst" ELSE op[c].end
         /\ op'[c].doomed = op[c].doomed /\ op'[c].fresh = op[c].fresh
         /\ op'[c].lost = op[c].lost
         /\ md'[c].cache = cache /\ md'[c].made = md[c].made
         /\ md'[c].dst = IF IsLocal(c, op[c].cur) THEN md[c].dst ELSE op[c].cur
         /\ \A x \in Conn \ {c} : op'[x] = op[x] /\ md'[x] = md[x]
<1>1. op \in [Conn -> OpType] /\ md \in [Conn -> MdType]
  BY Typed
<1> DEFINE veth == IsLocal(c, op[c].cur)
           pc == IF veth /\ op[c].end = "src" THEN "check"
                 ELSE IF ~veth /\ Outgoing(c) THEN "apply" ELSE "configure"
           end == IF veth THEN "dst" ELSE op[c].end
           dst == IF veth THEN md[c].dst ELSE op[c].cur
           named == IF veth THEN md[c].named ELSE StoredName(op[c].cur)
<1>2. op' = [op EXCEPT ![c].pc = pc, ![c].end = end]
  BY Zenon DEF Created
<1>3. md' = [md EXCEPT ![c].cache = cache, ![c].dst = dst, ![c].named = named]
  BY DEF Created
<1>4. pc = After(c)
  BY DEF After
<1> HIDE DEF pc, end, dst, named
<1>5. /\ op'[c].pc = pc /\ op'[c].cur = op[c].cur /\ op'[c].end = end
      /\ op'[c].doomed = op[c].doomed /\ op'[c].fresh = op[c].fresh
      /\ op'[c].lost = op[c].lost
      /\ \A x \in Conn \ {c} : op'[x] = op[x]
  BY <1>1, <1>2 DEF OpType
<1>6. /\ md'[c].cache = cache /\ md'[c].made = md[c].made /\ md'[c].dst = dst
      /\ \A x \in Conn \ {c} : md'[x] = md[x]
  BY <1>1, <1>3 DEF MdType
<1> QED
  BY <1>4, <1>5, <1>6 DEF end, dst

LEMMA SetDialFields ==
  ASSUME PInv, NEW c \in Conn, NEW e, NEW n, SetDial(c, e, n)
  PROVE  Calm(c) /\ \A x \in Conn \ {c} : md'[x] = md[x]
<1>1. md \in [Conn -> MdType] /\ md' = [md EXCEPT ![c].dial = e, ![c].named = n]
  BY Typed DEF SetDial
<1> QED
  BY <1>1 DEF Calm, MdType

LEMMA IdleFields ==
  /\ Idle.pc = "idle" /\ Idle.cur = Null /\ Idle.doomed = Null /\ Idle.fresh = FALSE
  /\ Idle.lost = FALSE
  /\ NoMd.dst = Null /\ NoMd.cache = {} /\ NoMd.made = FALSE
BY DEF Idle, NoMd

LEMMA StrandFields ==
  ASSUME PInv, NEW c \in Conn, Strand(c)
  PROVE  leak'[c] = TRUE /\ \A x \in Conn \ {c} : leak'[x] = leak[x]
BY Typed DEF Strand

LEMMA RefusedFields ==
  ASSUME PInv, NEW c \in Conn, Refused(c)
  PROVE  /\ SameBut(c, "close") /\ op'[c].after = "failed"
         /\ op'[c].arg = "LOCAL" => Outgoing(c)
         /\ \A x \in Conn \ {c} : op'[x] = op[x]
BY CallCloseFields DEF Refused, Outgoing

-----------------------------------------------------------------------------
(* What a step of the handler of c leaves alone *)

\* The state of the other connections
Frame(c) ==
  /\ OthersKept(c)
  /\ \A x \in Conn \ {c} :
       /\ op'[x] = op[x] /\ md'[x] = md[x] /\ est'[x] = est[x]
       /\ held'[x] = held[x] /\ leak'[x] = leak[x]

\* The devices, and whether c is established
Still(c) ==
  /\ Frame(c) /\ LinksOf(c)' = LinksOf(c)
  /\ est'[c] = est[c] /\ held'[c] = held[c]

LEMMA StillFrame ==
  ASSUME UNCHANGED links, NEW c
  PROVE  OthersKept(c) /\ LinksOf(c)' = LinksOf(c)
BY DEF OthersKept, LinksOf

LEMMA StartEffect ==
  ASSUME EInv, NEW c \in Conn, Select(c) \/ Refresh(c)
  PROVE  /\ op[c].pc = "idle" /\ op'[c].pc = "call" /\ op'[c].cur \in Candidates(c)
         /\ op'[c].doomed = Null /\ (op'[c].fresh => ~md[c].made)
         /\ op'[c].lost = FALSE
         /\ md'[c].made = TRUE /\ md'[c].dst = md[c].dst
         /\ md'[c].cache = md[c].cache
         /\ leak'[c] <=> leak[c] /\ LinksOf(c) # {}
         /\ Still(c)
<1>1. PICK e, n, bare :
        /\ e \in Candidates(c)
        /\ Start(c, e, n, bare)
  BY DEF Select, Refresh, EInv, Eligible, CandOrNull
<1>2. op \in [Conn -> OpType] /\ md \in [Conn -> MdType] /\ leak \in [Conn -> BOOLEAN]
  BY Typed DEF EInv
<1>3. UNCHANGED links /\ UNCHANGED est /\ UNCHANGED held
  BY <1>1 DEF Start
<1>4. /\ op[c].pc = "idle" /\ op'[c].pc = "call" /\ op'[c].cur = e
      /\ op'[c].doomed = Null /\ (op'[c].fresh => ~md[c].made) /\ op'[c].lost = FALSE
      /\ \A x \in Conn \ {c} : op'[x] = op[x]
  BY <1>1, <1>2, IdleFields DEF Start, Free, Idle
<1>5. /\ md'[c].made = TRUE /\ md'[c].dst = md[c].dst /\ md'[c].cache = md[c].cache
      /\ \A x \in Conn \ {c} : md'[x] = md[x]
  BY <1>1, <1>2 DEF Start, MdType
<1>6. /\ leak'[c] <=> leak[c] /\ LinksOf(c) # {}
      /\ \A x \in Conn \ {c} : leak'[x] = leak[x]
  BY <1>1, <1>2 DEF Start
<1> QED
  BY <1>1, <1>3, <1>4, <1>5, <1>6, StillFrame DEF Still, Frame

LEMMA CloseEffect ==
  ASSUME PInv, NEW c \in Conn, Close(c)
  PROVE  /\ op[c].pc = "idle" /\ est[c] # Null
         /\ held'[c] \in {held[c], Null}
         /\ Frame(c) /\ LinksOf(c)' = LinksOf(c)
         /\ \/ /\ SameBut(c, "close") /\ op'[c].arg = SrcCls[c]
               /\ est'[c] = est[c] /\ md'[c] = md[c] /\ leak'[c] = leak[c]
            \/ /\ op'[c] = op[c] /\ est'[c] = Null /\ leak'[c] = TRUE
               /\ md'[c] \in {md[c], NoMd}
<1>1. UNCHANGED links /\ op[c].pc = "idle" /\ est[c] # Null
  BY DEF Close, Free
<1>2. held'[c] \in {held[c], Null} /\ \A x \in Conn \ {c} : held'[x] = held[x]
  BY Typed DEF Close
<1>3. CASE CallClose(c, SrcCls[c], "end") /\ UNCHANGED <<est, md, leak>>
  BY <1>1, <1>2, <1>3, CallCloseFields, StillFrame DEF Frame
<1>4. CASE /\ Strand(c) /\ est' = [est EXCEPT ![c] = Null] /\ UNCHANGED op
           /\ md' \in {md, [md EXCEPT ![c] = NoMd]}
  <2>1. /\ est'[c] = Null /\ \A x \in Conn \ {c} : est'[x] = est[x]
        /\ md'[c] \in {md[c], NoMd} /\ \A x \in Conn \ {c} : md'[x] = md[x]
    BY <1>4, Typed
  <2> QED
    BY <1>1, <1>2, <1>4, <2>1, StrandFields, StillFrame DEF Frame
<1> QED
  BY <1>3, <1>4 DEF Close, NoFault

LEMMA SwitchPeerEffect ==
  ASSUME PInv, NEW c \in Conn, SwitchPeer(c)
  PROVE  /\ op[c].pc = "call" /\ Still(c) /\ Calm(c) /\ leak'[c] = leak[c]
         /\ \/ op'[c] = op[c]
            \/ SameBut(c, "close") /\ (op'[c].arg = "LOCAL" => Outgoing(c))
<1>1. /\ op[c].pc = "call" /\ UNCHANGED <<links, est, held, leak>>
      /\ UNCHANGED op \/ Refused(c)
      /\ \E e, n : SetDial(c, e, n)
  BY DEF SwitchPeer
<1> QED
  BY <1>1, RefusedFields, SetDialFields, StillFrame DEF Still, Frame

LEMMA AcceptEffect ==
  ASSUME PInv, NEW c \in Conn, Accept(c)
  PROVE  /\ op[c].pc = "call" /\ op'[c].pc = "check" /\ op'[c].end = FirstEnd(c)
         /\ op'[c].cur = op[c].cur /\ op'[c].doomed = op[c].doomed
         /\ op'[c].fresh = op[c].fresh /\ op'[c].lost = op[c].lost
         /\ Still(c) /\ Calm(c) /\ leak'[c] = leak[c]
<1>1. /\ op[c].pc = "call" /\ UNCHANGED <<links, est, held, leak>>
      /\ op' = [op EXCEPT ![c].pc = "check", ![c].end = FirstEnd(c)]
      /\ \E e, n : SetDial(c, e, n)
  BY DEF Accept, NoFault
<1>2. /\ op'[c].pc = "check" /\ op'[c].end = FirstEnd(c)
      /\ op'[c].cur = op[c].cur /\ op'[c].doomed = op[c].doomed
      /\ op'[c].fresh = op[c].fresh /\ op'[c].lost = op[c].lost
      /\ \A x \in Conn \ {c} : op'[x] = op[x]
  BY <1>1, Typed DEF OpType
<1> QED
  BY <1>1, <1>2, SetDialFields, StillFrame DEF Still, Frame

LEMMA RefuseEffect ==
  ASSUME PInv, NEW c \in Conn, Refuse(c)
  PROVE  /\ op[c].pc = "call" /\ Still(c) /\ Calm(c) /\ leak'[c] = leak[c]
         /\ SameBut(c, "close") /\ (op'[c].arg = "LOCAL" => Outgoing(c))
<1>1. /\ op[c].pc = "call" /\ UNCHANGED <<links, est, held, leak>> /\ Refused(c)
      /\ \E e, n : SetDial(c, e, n)
  BY DEF Refuse
<1> QED
  BY <1>1, RefusedFields, SetDialFields, StillFrame DEF Still, Frame

LEMMA ConfigureEffect ==
  ASSUME PlacesDisjoint, PInv, NEW c \in Conn, Configure(c)
  PROVE  /\ op[c].pc = "configure" /\ op[c].cur \in Endpoint /\ Still(c)
         /\ \/ /\ SameBut(c, IF Outgoing(c) THEN "apply" ELSE "return")
               /\ md'[c].dst = op[c].cur /\ md'[c].cache = md[c].cache
               /\ md'[c].made = md[c].made /\ leak'[c] = leak[c]
            \/ /\ SameBut(c, "failed") /\ md'[c] = md[c]
               /\ \/ leak'[c] = TRUE
                  \/ /\ \A l \in LinksOf(c) : l.at # NseIf[c][op[c].cur]
                     /\ leak'[c] = leak[c]
<1>1. op[c].pc = "configure" /\ op[c].cur \in Endpoint /\ UNCHANGED <<links, est, held>>
  BY Typed DEF Configure, AtHand, Working
<1>2. CASE /\ Goto(c, IF Outgoing(c) THEN "apply" ELSE "return")
           /\ UNCHANGED leak
           /\ md' = [md EXCEPT ![c].dst = op[c].cur, ![c].named = StoredName(op[c].cur)]
  <2>1. /\ md'[c].dst = op[c].cur /\ md'[c].cache = md[c].cache
        /\ md'[c].made = md[c].made /\ \A x \in Conn \ {c} : md'[x] = md[x]
    BY <1>2, Typed DEF MdType
  <2> QED
    BY <1>1, <1>2, <2>1, GotoFields, StillFrame DEF Still, Frame
<1>3. CASE /\ At(links, NseIf[c][op[c].cur]) = {} /\ Goto(c, "failed")
           /\ UNCHANGED <<md, leak>>
  <2>1. \A l \in LinksOf(c) : l.at # NseIf[c][op[c].cur]
    BY <1>3 DEF At, LinksOf
  <2> QED
    BY <1>1, <1>3, <2>1, GotoFields, StillFrame DEF Still, Frame
<1>4. CASE Strand(c) /\ Goto(c, "failed") /\ UNCHANGED md
  BY <1>1, <1>4, GotoFields, StrandFields, StillFrame DEF Still, Frame
<1> QED
  BY <1>2, <1>3, <1>4 DEF Configure, NoFault

LEMMA ApplyEffect ==
  ASSUME PInv, NEW c \in Conn, Apply(c)
  PROVE  /\ op[c].pc = "apply" /\ Still(c) /\ md'[c] = md[c] /\ leak'[c] = leak[c]
         /\ SameBut(c, "return") \/ SameBut(c, "close")
<1>1. /\ op[c].pc = "apply" /\ UNCHANGED <<links, est, md, held, leak>>
      /\ Goto(c, "return") \/ CallClose(c, "LOCAL", "undo")
  BY DEF Apply
<1> QED
  BY <1>1, GotoFields, CallCloseFields, StillFrame DEF Still, Frame

LEMMA ReturnEffect ==
  ASSUME PInv, NEW c \in Conn, Return(c)
  PROVE  /\ op[c].pc = "return" /\ op[c].cur \in Endpoint /\ op'[c] = Idle
         /\ est'[c] = op[c].cur
         /\ held'[c] \in {held[c], op[c].cur} /\ md'[c] = md[c] /\ leak'[c] = leak[c]
         /\ Frame(c) /\ LinksOf(c)' = LinksOf(c)
<1>1. op[c].pc = "return" /\ op[c].cur \in Endpoint /\ UNCHANGED <<links, md, leak>>
  BY Typed DEF Return, AtHand, Working
<1>2. /\ op'[c] = Idle /\ est'[c] = op[c].cur /\ held'[c] \in {held[c], op[c].cur}
      /\ \A x \in Conn \ {c} : op'[x] = op[x] /\ est'[x] = est[x] /\ held'[x] = held[x]
  BY Typed DEF Return
<1> QED
  BY <1>1, <1>2, StillFrame DEF Frame

LEMMA GiveUpFields ==
  ASSUME PInv, NEW c \in Conn, GiveUp(c)
  PROVE  /\ op'[c] = Idle /\ md'[c] = IF op[c].fresh THEN NoMd ELSE md[c]
         /\ \A x \in Conn \ {c} : op'[x] = op[x] /\ md'[x] = md[x]
BY Typed DEF GiveUp

LEMMA LateErrorEffect ==
  ASSUME PInv, NEW c \in Conn, LateError(c)
  PROVE  /\ Still(c) /\ op'[c] = Idle /\ leak'[c] = TRUE
         /\ md'[c] = IF op[c].fresh THEN NoMd ELSE md[c]
BY GiveUpFields, StrandFields, StillFrame DEF LateError, Still, Frame

LEMMA FailedEffect ==
  ASSUME PInv, NEW c \in Conn, Failed(c)
  PROVE  /\ op[c].pc = "failed" /\ Still(c) /\ leak'[c] = leak[c]
         /\ \/ /\ op'[c].pc = "call" /\ op'[c].cur \in Candidates(c)
               /\ op'[c].doomed = Null /\ op'[c].fresh = op[c].fresh
               /\ op'[c].lost = FALSE /\ md'[c] = md[c]
            \/ /\ op'[c] = Idle
               /\ md'[c] = IF op[c].fresh THEN NoMd ELSE md[c]
<1>1. op[c].pc = "failed" /\ UNCHANGED <<links, est, held, leak>>
  BY DEF Failed, NoFault
<1>2. CASE GiveUp(c)
  BY <1>1, <1>2, GiveUpFields, StillFrame DEF Still, Frame
<1>3. ASSUME NEW e \in Candidates(c), UNCHANGED md,
             op' = [op EXCEPT ![c] = [Idle EXCEPT !.pc = "call", !.cur = e,
                      !.bare = op[c].bare, !.fresh = op[c].fresh,
                      !.tries = FewerTries(c)]]
      PROVE  /\ op'[c].pc = "call" /\ op'[c].cur \in Candidates(c)
             /\ op'[c].doomed = Null /\ op'[c].fresh = op[c].fresh
             /\ op'[c].lost = FALSE /\ md'[c] = md[c]
             /\ Still(c)
  <2>1. /\ op'[c].pc = "call" /\ op'[c].cur = e
        /\ op'[c].doomed = Null /\ op'[c].fresh = op[c].fresh
        /\ op'[c].lost = FALSE /\ \A x \in Conn \ {c} : op'[x] = op[x]
    BY <1>3, Typed DEF Idle
  <2> QED
    BY <1>1, <1>3, <2>1, StillFrame DEF Still, Frame
<1> QED
  BY <1>1, <1>2, <1>3 DEF Failed

LEMMA UnstoreEffect ==
  ASSUME PInv, NEW c \in Conn, Unstore(c)
  PROVE  /\ op[c].pc = "close" /\ Still(c) /\ leak'[c] = leak[c]
         /\ md'[c].dst = Null /\ md'[c].cache = md[c].cache
         /\ md'[c].made = md[c].made
         /\ op'[c].pc = IF md[c].dst = Null THEN Below(c) ELSE "delete"
         /\ op'[c].doomed = md[c].dst
         /\ op'[c].end = IF op[c].arg = "LOCAL" THEN "src" ELSE "dst"
         /\ op'[c].cur = op[c].cur /\ op'[c].arg = op[c].arg
         /\ op'[c].fresh = op[c].fresh /\ op'[c].lost = op[c].lost
<1>1. /\ op[c].pc = "close" /\ UNCHANGED <<links, est, held, leak>>
      /\ md' = [md EXCEPT ![c].dst = Null, ![c].named = "file"]
  BY DEF Unstore, NoFault
<1>2. /\ md'[c].dst = Null /\ md'[c].cache = md[c].cache
      /\ md'[c].made = md[c].made /\ \A x \in Conn \ {c} : md'[x] = md[x]
  BY <1>1, Typed DEF MdType
<1>3. /\ op'[c].pc = IF md[c].dst = Null THEN Below(c) ELSE "delete"
      /\ op'[c].doomed = md[c].dst
      /\ op'[c].end = IF op[c].arg = "LOCAL" THEN "src" ELSE "dst"
      /\ op'[c].cur = op[c].cur /\ op'[c].arg = op[c].arg
      /\ op'[c].fresh = op[c].fresh /\ op'[c].lost = op[c].lost
      /\ \A x \in Conn \ {c} : op'[x] = op[x]
  <2> DEFINE pc == IF md[c].dst = Null THEN Below(c) ELSE "delete"
             end == IF op[c].arg = "LOCAL" THEN "src" ELSE "dst"
  <2>1. op' = [op EXCEPT ![c].pc = pc, ![c].doomed = md[c].dst,
                         ![c].inode = md[c].named = "inode", ![c].end = end]
    BY Zenon DEF Unstore
  <2> HIDE DEF pc, end
  <2>2. /\ op'[c].pc = pc /\ op'[c].doomed = md[c].dst /\ op'[c].end = end
        /\ op'[c].cur = op[c].cur /\ op'[c].arg = op[c].arg
        /\ op'[c].fresh = op[c].fresh /\ op'[c].lost = op[c].lost
        /\ \A x \in Conn \ {c} : op'[x] = op[x]
    BY <2>1, Typed DEF OpType
  <2> QED
    BY <2>2 DEF pc, end
<1> QED
  BY <1>1, <1>2, <1>3, StillFrame DEF Still, Frame

\* Deleting, as it is for the links of one connection
LEMMA DelLinks ==
  ASSUME NEW c, NEW p, links' = LinkDel(links, p)
  PROVE  LinksOf(c)' = LinkDel(LinksOf(c), p)
<1>1. \A l, m : Paired(l, m) => l.owner = m.owner
  BY DEF Paired
<1>2. \A l \in LinksOf(c)' : l \in LinkDel(LinksOf(c), p)
  BY DEF LinksOf, LinkDel, At
<1>3. \A l \in LinkDel(LinksOf(c), p) : l \in LinksOf(c)'
  BY <1>1 DEF LinksOf, LinkDel, At
<1> QED
  BY <1>2, <1>3

LEMMA BelowIs == \A c : Below(c) \in {"failed", "disconnect"}
BY DEF Below

LEMMA DeleteEffect ==
  ASSUME PlacesDisjoint, PInv, NEW c \in Conn, Delete(c)
  PROVE  /\ op[c].pc = "delete" /\ op[c].doomed \in Endpoint /\ Frame(c)
         /\ op[c].after = "undo" => op[c].cur \in Endpoint
         /\ est'[c] = est[c] /\ held'[c] = held[c]
         /\ md'[c].dst = md[c].dst /\ md'[c].made = md[c].made
         /\ op'[c].cur = op[c].cur /\ op'[c].doomed = op[c].doomed
         /\ op'[c].fresh = op[c].fresh /\ op'[c].lost = op[c].lost
         /\ op'[c].arg = op[c].arg
         /\ \/ /\ leak'[c] = TRUE /\ SameBut(c, Below(c)) /\ LinksOf(c)' = LinksOf(c)
            \/ /\ leak'[c] = (leak[c] \/ (OpensHost(c) /\ LinksOf(c)' # {}))
               /\ LinksOf(c)' = LinkDel(LinksOf(c), DeletePlace(c))
               /\ IF DoomedPair(c) /\ op[c].end = "src"
                  THEN op'[c].pc = "delete" /\ op'[c].end = "dst"
                  ELSE SameBut(c, Below(c))
<1>1. /\ op[c].pc = "delete" /\ op[c].doomed \in Endpoint
      /\ op[c].after = "undo" => op[c].cur \in Endpoint
      /\ UNCHANGED <<est, held>>
  BY Typed DEF Delete, AtHand
<1>2. OthersKept(c)
  BY DeleteOwn DEF PInv
<1>3. Goto(c, Below(c)) => /\ SameBut(c, Below(c)) /\ op'[c].arg = op[c].arg
                           /\ \A x \in Conn \ {c} : op'[x] = op[x]
  BY GotoFields
<1>4. op' = [op EXCEPT ![c].end = "dst"] =>
        /\ op'[c].pc = "delete" /\ op'[c].end = "dst"
        /\ op'[c].cur = op[c].cur /\ op'[c].doomed = op[c].doomed
        /\ op'[c].fresh = op[c].fresh /\ op'[c].lost = op[c].lost
        /\ op'[c].arg = op[c].arg /\ \A x \in Conn \ {c} : op'[x] = op[x]
  BY <1>1, Typed DEF OpType
<1>5. CASE Strand(c) /\ Goto(c, Below(c)) /\ UNCHANGED <<links, md>>
  BY <1>1, <1>2, <1>3, <1>5, StrandFields, StillFrame DEF Frame, SameBut
<1>6. CASE /\ RemoveLink(c)
           /\ leak' = [leak EXCEPT ![c] = @ \/ (OpensHost(c) /\ LinksOf(c)' # {})]
           /\ IF DoomedPair(c) /\ op[c].end = "src"
              THEN op' = [op EXCEPT ![c].end = "dst"]
              ELSE Goto(c, Below(c))
  <2>1. LinksOf(c)' = LinkDel(LinksOf(c), DeletePlace(c))
    BY <1>6, DelLinks DEF RemoveLink
  <2>2. /\ md'[c].dst = md[c].dst /\ md'[c].made = md[c].made
        /\ \A x \in Conn \ {c} : md'[x] = md[x]
    <3>1. \E s : md' = [md EXCEPT ![c].cache = s]
      BY <1>6 DEF RemoveLink
    <3> QED
      BY <3>1, Typed DEF MdType
  <2>3. /\ leak'[c] = (leak[c] \/ (OpensHost(c) /\ LinksOf(c)' # {}))
        /\ \A x \in Conn \ {c} : leak'[x] = leak[x]
    <3> DEFINE h == OpensHost(c) /\ LinksOf(c)' # {}
    <3>1. leak' = [leak EXCEPT ![c] = leak[c] \/ h] /\ leak \in [Conn -> BOOLEAN]
      BY <1>6, Typed
    <3> HIDE DEF h
    <3>2. leak'[c] = (leak[c] \/ h) /\ \A x \in Conn \ {c} : leak'[x] = leak[x]
      BY <3>1, Zenon
    <3> QED
      BY <3>2 DEF h
  <2>4. CASE DoomedPair(c) /\ op[c].end = "src"
    BY <1>1, <1>2, <1>4, <1>6, <2>1, <2>2, <2>3, <2>4 DEF Frame
  <2>5. CASE ~(DoomedPair(c) /\ op[c].end = "src")
    BY <1>1, <1>2, <1>3, <1>6, <2>1, <2>2, <2>3, <2>5 DEF Frame, SameBut
  <2> QED
    BY <2>4, <2>5
<1> QED
  BY <1>5, <1>6 DEF Delete

LEMMA DisconnectEffect ==
  ASSUME PInv, NEW c \in Conn, Disconnect(c)
  PROVE  /\ op[c].pc = "disconnect" /\ Frame(c) /\ LinksOf(c)' = LinksOf(c)
         /\ held'[c] = held[c] /\ leak'[c] = leak[c]
         /\ \/ op'[c] = Idle /\ md'[c] = NoMd /\ est'[c] = Null
            \/ SameBut(c, "failed") /\ Calm(c) /\ est'[c] = est[c]
<1>1. op[c].pc = "disconnect" /\ UNCHANGED <<links, held, leak>>
  BY DEF Disconnect
<1>2. CASE /\ est' = [est EXCEPT ![c] = Null] /\ md' = [md EXCEPT ![c] = NoMd]
           /\ op' = [op EXCEPT ![c] = Idle]
  <2>1. /\ op'[c] = Idle /\ md'[c] = NoMd /\ est'[c] = Null
        /\ \A x \in Conn \ {c} : op'[x] = op[x] /\ md'[x] = md[x] /\ est'[x] = est[x]
    BY <1>2, Typed
  <2> QED
    BY <1>1, <2>1, StillFrame DEF Frame
<1>3. CASE SetDial(c, Null, md[c].named) /\ Goto(c, "failed") /\ UNCHANGED est
  BY <1>1, <1>3, GotoFields, SetDialFields, StillFrame DEF Frame
<1> QED
  BY <1>2, <1>3 DEF Disconnect

\* The process dies: all handlers at once
LEMMA CrashEffect ==
  ASSUME PInv, Crash, NEW c \in Conn
  PROVE  /\ op'[c] = Idle /\ md'[c] = NoMd /\ est'[c] = Null /\ held'[c] = held[c]
         /\ LinksOf(c)' = LinksOf(c)
         /\ leak'[c] = (leak[c] \/ LinksOf(c) # {})
BY DEF Crash, LinksOf

\* An interface of c is lost
LEMMA LoseEffect ==
  ASSUME PlacesDisjoint, PInv, LoseLink
  PROVE  \E c, p :
         /\ c \in Conn
         /\ LinksOf(c)' = LinkDel(LinksOf(c), p) /\ Frame(c)
         /\ op'[c] = [op[c] EXCEPT !.lost = op[c].pc # "idle"]
         /\ est'[c] = est[c] /\ held'[c] = held[c] /\ md'[c] = md[c]
         /\ leak'[c] = leak[c]
<1>1. PICK l \in links :
        /\ links' = LinkDel(links, l.at)
        /\ op' = [op EXCEPT ![l.owner].lost = op[l.owner].pc # "idle"]
        /\ UNCHANGED <<est, md, held, leak>>
  BY DEF LoseLink
<1>2. l.owner \in Conn /\ l.at \in PlacesOf(l.owner)
  BY DEF PInv, IInv, Inv, TypeOK, LinkType, OwnPlaces
<1>3. OthersKept(l.owner)
  BY <1>1, <1>2, DelOwn DEF PInv
<1>4. LinksOf(l.owner)' = LinkDel(LinksOf(l.owner), l.at)
  BY <1>1, DelLinks
<1>5. /\ op'[l.owner] = [op[l.owner] EXCEPT !.lost = op[l.owner].pc # "idle"]
      /\ \A x \in Conn \ {l.owner} : op'[x] = op[x]
  BY <1>1, <1>2, Typed
<1> QED
  BY <1>1, <1>2, <1>3, <1>4, <1>5 DEF Frame

-----------------------------------------------------------------------------
(* What Create does, for the links of one connection *)

\* Create returns an error; if on the way it has left something, it is marked
Gives(c) ==
  /\ CreateFailed(c) /\ md'[c] = md[c]
  /\ leak'[c] = TRUE \/ leak'[c] = leak[c]

LEMMA CheckEffect ==
  ASSUME PlacesDisjoint, PInv, NEW c \in Conn, Check(c)
  PROVE  /\ op[c].pc = "check" /\ op[c].cur \in Endpoint /\ op[c].end \in Ends
         /\ Frame(c) /\ est'[c] = est[c] /\ held'[c] = held[c]
         /\ \/ /\ LinksOf(c)' = LinksOf(c) /\ leak'[c] = leak[c]
               /\ op[c].end \in md[c].cache
               /\ \E l \in LinksOf(c) : l.at = Here(c)
               /\ Created(c, md[c].cache)
            \/ /\ LinksOf(c)' = LinkDel(LinksOf(c), Here(c)) /\ leak'[c] = leak[c]
               /\ ~(op[c].end \in md[c].cache /\ \E l \in LinksOf(c) : l.at = Here(c))
               /\ Goto(c, IF IsLocal(c, op[c].cur) /\ op[c].end = "dst"
                          THEN "move" ELSE "add")
               /\ md'[c] = md[c]
            \/ LinksOf(c)' = LinksOf(c) /\ Gives(c) /\ leak'[c] = TRUE
<1>1. /\ op[c].pc = "check" /\ op[c].cur \in Endpoint /\ op[c].end \in Ends
      /\ UNCHANGED <<est, held>>
  BY Typed DEF Check, AtHand, Working, OpType
<1>2. OthersKept(c)
  BY CreateOwn DEF PInv
<1>3. Here(c) \in PlacesOf(c)
  BY <1>1, HandPlaces DEF PInv
<1>4. At(links, Here(c)) # {} <=> \E l \in LinksOf(c) : l.at = Here(c)
  <2>1. \A l \in At(links, Here(c)) : l \in LinksOf(c) /\ l.at = Here(c)
    BY <1>3, OwnFound
  <2>2. \A l \in LinksOf(c) : l.at = Here(c) => l \in At(links, Here(c))
    BY DEF LinksOf, At
  <2> QED
    BY <2>1, <2>2
<1>5. CASE Cached(c) /\ Created(c, md[c].cache) /\ UNCHANGED links /\ NoFault
  BY <1>1, <1>2, <1>4, <1>5, CreatedFields, StillFrame DEF Cached, NoFault, Frame
<1>6. CASE /\ ~Cached(c) /\ links' = LinkDel(links, Here(c)) /\ UNCHANGED md /\ NoFault
           /\ Goto(c, IF IsLocal(c, op[c].cur) /\ op[c].end = "dst"
                      THEN "move" ELSE "add")
  BY <1>1, <1>2, <1>4, <1>6, GotoFields, DelLinks DEF Cached, NoFault, Frame
<1>7. CASE Strand(c) /\ CreateFailed(c) /\ UNCHANGED <<links, md>>
  BY <1>1, <1>2, <1>7, CreateFailedFields, StrandFields, StillFrame DEF Gives, Frame
<1> QED
  BY <1>5, <1>6, <1>7 DEF Check

LEMMA AddEffect ==
  ASSUME PlacesDisjoint, PInv, NEW c \in Conn, Add(c)
  PROVE  /\ op[c].pc = "add" /\ op[c].cur \in Endpoint /\ op[c].end \in Ends
         /\ Frame(c) /\ est'[c] = est[c] /\ held'[c] = held[c] /\ md'[c] = md[c]
         /\ \/ /\ LinksOf(c)' = LinksOf(c) \cup Added(c) /\ leak'[c] = leak[c]
               /\ \A n \in Added(c), l \in LinksOf(c) : l.at # n.at
               /\ Goto(c, "move")
            \/ /\ LinksOf(c)' = LinksOf(c) /\ Gives(c)
               /\ leak'[c] = TRUE \/ LinksOf(c) # {}
<1>1. /\ op[c].pc = "add" /\ op[c].cur \in Endpoint /\ op[c].end \in Ends
      /\ UNCHANGED <<est, held, md>>
  BY Typed DEF Add, AtHand, Working, OpType
<1>2. OthersKept(c)
  BY CreateOwn DEF PInv
<1>3. \A n \in Added(c) : n.owner = c /\ n.at \in PlacesOf(c)
  BY <1>1, PlacesTyped DEF Added, NewLink
<1>4. CASE /\ \A n \in Added(c) : At(links, n.at) = {}
           /\ links' = links \cup Added(c) /\ Goto(c, "move") /\ NoFault
  <2> DEFINE N == Added(c)
  <2>1. links' = links \cup N /\ \A n \in N : n.owner = c
    BY <1>3, <1>4
  <2> HIDE DEF N
  <2>2. LinksOf(c)' = LinksOf(c) \cup N
    BY <2>1 DEF LinksOf
  <2>3. \A n \in N, l \in LinksOf(c) : l.at # n.at
    BY <1>4 DEF At, LinksOf, N
  <2> QED
    BY <1>1, <1>2, <1>4, <2>2, <2>3, GotoFields DEF NoFault, Frame, N
<1>5. CASE /\ \/ \E n \in Added(c) : At(links, n.at) # {}
              \/ \E l \in LinksOf(c) : TRUE
           /\ CreateFailed(c) /\ UNCHANGED links /\ NoFault
  <2>1. LinksOf(c) # {}
    BY <1>3, <1>5, OwnFound
  <2> QED
    BY <1>1, <1>2, <1>5, <2>1, CreateFailedFields, StillFrame
       DEF Gives, Frame, NoFault
<1>6. CASE Strand(c) /\ CreateFailed(c) /\ UNCHANGED links
  BY <1>1, <1>2, <1>6, CreateFailedFields, StrandFields, StillFrame DEF Gives, Frame
<1> QED
  BY <1>4, <1>5, <1>6 DEF Add

NoneAt(L, p) == \A l \in L : l.at # p

\* A move of a device of c, into a free place
Shifted(c, from, to) ==
  /\ \E l \in LinksOf(c) : l.at = from /\ links' = LinkMove(links, l, to)
  /\ \A l \in LinksOf(c) : l.at # to

LEMMA PlacesFree ==
  ASSUME PlacesDisjoint, PInv, NEW c \in Conn, NEW p \in PlacesOf(c)
  PROVE  /\ At(links, p) = {} <=> \A l \in LinksOf(c) : l.at # p
         /\ \A l \in At(links, p) : l \in LinksOf(c) /\ l.at = p
<1>1. \A l \in At(links, p) : l \in LinksOf(c) /\ l.at = p
  BY OwnFound
<1>2. \A l \in LinksOf(c) : l.at = p => l \in At(links, p)
  BY DEF LinksOf, At
<1> QED
  BY <1>1, <1>2

LEMMA MoveEffect ==
  ASSUME PlacesDisjoint, PInv, NEW c \in Conn, Move(c),
         NEW from, from = <<FwdNs, DevName(c, op[c].cur, op[c].end)>>,
         NEW dest, dest = Inserted(c, op[c].cur, op[c].end)
  PROVE  /\ op[c].pc = "move" /\ op[c].cur \in Endpoint /\ op[c].end \in Ends
         /\ Frame(c) /\ est'[c] = est[c] /\ held'[c] = held[c] /\ md'[c] = md[c]
         /\ \/ Shifted(c, from, dest) /\ Goto(c, "rename") /\ leak'[c] = leak[c]
            \/ /\ LinksOf(c)' = LinksOf(c) /\ Gives(c)
               /\ \/ leak'[c] = TRUE \/ NoneAt(LinksOf(c), from)
                  \/ ~NoneAt(LinksOf(c), dest)
<1>1. /\ op[c].pc = "move" /\ op[c].cur \in Endpoint /\ op[c].end \in Ends
      /\ UNCHANGED <<est, held, md>>
  BY Typed DEF Move, AtHand, Working, OpType
<1>2. OthersKept(c)
  BY CreateOwn DEF PInv
<1>3. from \in PlacesOf(c) /\ dest \in PlacesOf(c)
  BY <1>1, PlacesTyped
<1>4. CASE /\ At(links, dest) = {} /\ NoFault
           /\ \E l \in At(links, from) : links' = LinkMove(links, l, dest)
           /\ Goto(c, "rename")
  BY <1>1, <1>2, <1>3, <1>4, PlacesFree, GotoFields DEF Shifted, Frame, NoFault
<1>5. CASE /\ At(links, from) = {} \/ At(links, dest) # {}
           /\ CreateFailed(c) /\ UNCHANGED links /\ NoFault
  BY <1>1, <1>2, <1>3, <1>5, PlacesFree, CreateFailedFields, StillFrame
     DEF Gives, Frame, NoFault, NoneAt
<1>6. CASE Strand(c) /\ CreateFailed(c) /\ UNCHANGED links
  BY <1>1, <1>2, <1>6, CreateFailedFields, StrandFields, StillFrame DEF Gives, Frame
<1> QED
  BY <1>4, <1>5, <1>6 DEF Move

LEMMA RenameEffect ==
  ASSUME PlacesDisjoint, PInv, NEW c \in Conn, Rename(c),
         NEW from, from = Inserted(c, op[c].cur, op[c].end)
  PROVE  /\ op[c].pc = "rename" /\ op[c].cur \in Endpoint /\ op[c].end \in Ends
         /\ Frame(c) /\ est'[c] = est[c] /\ held'[c] = held[c]
         /\ \/ /\ Shifted(c, from, Here(c)) /\ leak'[c] = leak[c]
               /\ Created(c, md[c].cache \cup {op[c].end})
            \/ /\ LinksOf(c)' = LinksOf(c) /\ Gives(c)
               /\ \/ leak'[c] = TRUE \/ NoneAt(LinksOf(c), from)
                  \/ ~NoneAt(LinksOf(c), Here(c))
            \/ Shifted(c, from, Here(c)) /\ Gives(c) /\ leak'[c] = TRUE
<1>1. /\ op[c].pc = "rename" /\ op[c].cur \in Endpoint /\ op[c].end \in Ends
      /\ UNCHANGED <<est, held>>
  BY Typed DEF Rename, AtHand, Working, OpType
<1>2. OthersKept(c)
  BY CreateOwn DEF PInv
<1>3. from \in PlacesOf(c) /\ Here(c) \in PlacesOf(c)
  BY <1>1, PlacesTyped, HandPlaces DEF PInv
<1>4. At(links, Here(c)) = {} /\ links' \in Renamed(c) => Shifted(c, from, Here(c))
  BY <1>3, PlacesFree DEF Renamed, Shifted
<1>5. CASE /\ At(links, Here(c)) = {} /\ links' \in Renamed(c) /\ NoFault
           /\ Created(c, md[c].cache \cup {op[c].end})
  BY <1>1, <1>2, <1>4, <1>5, CreatedFields DEF Frame, NoFault
<1>6. CASE /\ At(links, from) = {} \/ At(links, Here(c)) # {}
           /\ CreateFailed(c) /\ UNCHANGED <<links, md>> /\ NoFault
  BY <1>1, <1>2, <1>3, <1>6, PlacesFree, CreateFailedFields, StillFrame
     DEF Gives, Frame, NoFault, NoneAt
<1>7. CASE /\ Strand(c) /\ CreateFailed(c) /\ UNCHANGED md
           /\ \/ UNCHANGED links
              \/ At(links, Here(c)) = {} /\ links' \in Renamed(c)
  BY <1>1, <1>2, <1>4, <1>7, CreateFailedFields, StrandFields, StillFrame
     DEF Gives, Frame
<1> QED
  BY <1>5, <1>6, <1>7 DEF Rename

-----------------------------------------------------------------------------
(* Moving a device, as it is for the links of one connection *)

Moved(L, K, from, to) ==
  /\ \A k \in L : k.at # to
  /\ \E l, m :
         /\ l \in L
         /\ K = (L \ {l}) \cup {m} /\ l.at = from
         /\ m.at = to /\ m.kind = l.kind /\ m.end = l.end
         /\ m.owner = l.owner /\ m.to = l.to

LEMMA ShiftedMoved ==
  ASSUME PInv, NEW c \in Conn, NEW from, NEW to, Shifted(c, from, to)
  PROVE  Moved(LinksOf(c), LinksOf(c)', from, to)
<1>1. PICK l \in LinksOf(c) : l.at = from /\ links' = LinkMove(links, l, to)
  BY DEF Shifted
<1>2. PICK m : /\ LinksOf(c)' = (LinksOf(c) \ {l}) \cup {m}
               /\ m.at = to /\ m.kind = l.kind /\ m.end = l.end
               /\ m.owner = l.owner /\ m.to = l.to
  BY <1>1, MoveLinks
<1> QED
  BY <1>1, <1>2 DEF Shifted, Moved

-----------------------------------------------------------------------------
(* Eligible is kept *)

LEMMA NullIs == Null \notin Endpoint /\ \A c : Null \notin Candidates(c) /\ Candidates(c) \subseteq Endpoint
BY ConstantsOK DEF ConstantsOK, Candidates

LEMMA IsEligible ==
  ASSUME EInv, NEW c \in Conn
  PROVE  PInv /\ Eligible(c)
BY DEF EInv

LEMMA StartEligible ==
  ASSUME EInv, NEW c \in Conn, Select(c) \/ Refresh(c)
  PROVE  Eligible(c)'
<1>1. /\ op'[c].pc = "call" /\ op'[c].cur \in Candidates(c)
      /\ op'[c].doomed = Null /\ (op'[c].fresh => ~md[c].made)
      /\ md'[c].made = TRUE /\ md'[c].dst = md[c].dst
      /\ LinksOf(c)' = LinksOf(c) /\ est'[c] = est[c] /\ held'[c] = held[c]
  BY StartEffect DEF Still
<1> QED
  BY <1>1, IsEligible DEF Eligible, CandOrNull, Candidates, Outgoing, Making

LEMMA RequestEligible ==
  ASSUME EInv, NEW c \in Conn,
         \/ SwitchPeer(c) \/ Accept(c) \/ Refuse(c) \/ Failed(c) \/ LateError(c)
  PROVE  Eligible(c)'
<1>1. PInv /\ Eligible(c)
  BY IsEligible
<1>2. CASE SwitchPeer(c) \/ Refuse(c)
  <2>1. /\ Still(c) /\ Calm(c) /\ op[c].pc = "call"
        /\ \/ op'[c] = op[c]
           \/ SameBut(c, "close") /\ (op'[c].arg = "LOCAL" => Outgoing(c))
    BY <1>1, <1>2, SwitchPeerEffect, RefuseEffect
  <2> QED
    BY <1>1, <2>1 DEF Eligible, Still, Calm, SameBut, Making, CandOrNull, Candidates, Outgoing
<1>3. CASE Accept(c)
  <2>1. /\ op[c].pc = "call" /\ op'[c].pc = "check" /\ op'[c].end = FirstEnd(c)
        /\ op'[c].cur = op[c].cur /\ op'[c].doomed = op[c].doomed
        /\ op'[c].fresh = op[c].fresh /\ Still(c) /\ Calm(c)
    BY <1>1, <1>3, AcceptEffect
  <2> QED
    BY <1>1, <2>1 DEF Eligible, Still, Calm, Making, CandOrNull, Candidates, Outgoing, FirstEnd
<1>4. CASE Failed(c)
  <2>1. /\ op[c].pc = "failed" /\ Still(c)
        /\ \/ /\ op'[c].pc = "call" /\ op'[c].cur \in Candidates(c)
              /\ op'[c].doomed = Null /\ op'[c].fresh = op[c].fresh
              /\ md'[c] = md[c]
           \/ /\ op'[c] = Idle
              /\ md'[c] = IF op[c].fresh THEN NoMd ELSE md[c]
    BY <1>1, <1>4, FailedEffect
  <2> QED
    BY <1>1, <2>1, IdleFields
       DEF Eligible, Still, Making, CandOrNull, Candidates, Outgoing
<1>5. CASE LateError(c)
  <2>1. Still(c) /\ op'[c] = Idle /\ md'[c] = IF op[c].fresh THEN NoMd ELSE md[c]
    BY <1>1, <1>5, LateErrorEffect
  <2> QED
    BY <1>1, <2>1, IdleFields
       DEF Eligible, Still, Making, CandOrNull, Candidates, Outgoing
<1> QED
  BY <1>2, <1>3, <1>4, <1>5

LEMMA AnswerEligible ==
  ASSUME PlacesDisjoint, EInv, NEW c \in Conn, Configure(c) \/ Apply(c) \/ Return(c)
  PROVE  Eligible(c)'
<1>1. PInv /\ Eligible(c)
  BY IsEligible
<1>2. CASE Configure(c)
  <2>1. /\ op[c].pc = "configure" /\ Still(c)
        /\ \/ /\ SameBut(c, IF Outgoing(c) THEN "apply" ELSE "return")
              /\ md'[c].dst = op[c].cur /\ md'[c].made = md[c].made
           \/ SameBut(c, "failed") /\ md'[c] = md[c]
    BY <1>1, <1>2, ConfigureEffect
  <2> QED
    BY <1>1, <2>1 DEF Eligible, Still, SameBut, Making, CandOrNull, Candidates, Outgoing
<1>3. CASE Apply(c)
  <2>1. /\ op[c].pc = "apply" /\ Still(c) /\ md'[c] = md[c]
        /\ SameBut(c, "return") \/ SameBut(c, "close")
    BY <1>1, <1>3, ApplyEffect
  <2> QED
    BY <1>1, <2>1 DEF Eligible, Still, SameBut, Making, CandOrNull, Candidates, Outgoing
<1>4. CASE Return(c)
  <2>1. /\ op[c].pc = "return" /\ op'[c] = Idle /\ est'[c] = op[c].cur
        /\ held'[c] \in {held[c], op[c].cur} /\ md'[c] = md[c]
        /\ LinksOf(c)' = LinksOf(c)
    BY <1>1, <1>4, ReturnEffect
  <2> QED
    BY <1>1, <2>1, IdleFields
       DEF Eligible, Making, CandOrNull, Candidates, Outgoing
<1> QED
  BY <1>2, <1>3, <1>4

LEMMA CleanupEligible ==
  ASSUME PlacesDisjoint, EInv, NEW c \in Conn,
         Close(c) \/ Unstore(c) \/ Delete(c) \/ Disconnect(c)
  PROVE  Eligible(c)'
<1>1. PInv /\ Eligible(c)
  BY IsEligible
<1>2. CASE Close(c)
  <2>1. /\ op[c].pc = "idle" /\ est[c] # Null /\ held'[c] \in {held[c], Null}
        /\ LinksOf(c)' = LinksOf(c)
        /\ \/ /\ SameBut(c, "close") /\ op'[c].arg = SrcCls[c]
              /\ est'[c] = est[c] /\ md'[c] = md[c]
           \/ op'[c] = op[c] /\ est'[c] = Null /\ md'[c] \in {md[c], NoMd}
    BY <1>1, <1>2, CloseEffect
  <2> QED
    BY <1>1, <2>1, IdleFields
       DEF Eligible, SameBut, Making, CandOrNull, Candidates, Outgoing
<1>3. CASE Unstore(c)
  <2>1. /\ op[c].pc = "close" /\ Still(c) /\ md'[c].dst = Null
        /\ md'[c].made = md[c].made
        /\ op'[c].pc \in {"delete", "failed", "disconnect"}
        /\ op'[c].doomed = md[c].dst /\ op'[c].cur = op[c].cur
        /\ op'[c].arg = op[c].arg /\ op'[c].fresh = op[c].fresh
    BY <1>1, <1>3, UnstoreEffect, BelowIs
  <2> QED
    BY <1>1, <2>1 DEF Eligible, Still, Making, CandOrNull, Candidates, Outgoing
<1>4. CASE Delete(c)
  <2>1. /\ op[c].pc = "delete" /\ est'[c] = est[c] /\ held'[c] = held[c]
        /\ md'[c].dst = md[c].dst /\ md'[c].made = md[c].made
        /\ op'[c].cur = op[c].cur /\ op'[c].doomed = op[c].doomed
        /\ op'[c].fresh = op[c].fresh /\ op'[c].arg = op[c].arg
        /\ op'[c].pc \in {"delete", "failed", "disconnect"}
    BY <1>1, <1>4, DeleteEffect, BelowIs DEF SameBut
  <2>2. LinksOf(c)' \subseteq LinksOf(c)
    BY <1>1, <1>4, DeleteEffect DEF LinkDel
  <2> QED
    BY <1>1, <2>1, <2>2 DEF Eligible, Making, CandOrNull, Candidates, Outgoing
<1>5. CASE Disconnect(c)
  <2>1. /\ op[c].pc = "disconnect" /\ held'[c] = held[c] /\ LinksOf(c)' = LinksOf(c)
        /\ \/ op'[c] = Idle /\ md'[c] = NoMd /\ est'[c] = Null
           \/ SameBut(c, "failed") /\ Calm(c) /\ est'[c] = est[c]
    BY <1>1, <1>5, DisconnectEffect
  <2> QED
    BY <1>1, <2>1, IdleFields
       DEF Eligible, SameBut, Calm, Making, CandOrNull, Candidates, Outgoing
<1> QED
  BY <1>2, <1>3, <1>4, <1>5

LEMMA CreatedEligible ==
  ASSUME EInv, NEW c \in Conn, op[c].pc \in Making, NEW cache, Created(c, cache),
         est'[c] = est[c], held'[c] = held[c],
         ~Outgoing(c) => \A l \in LinksOf(c)' : l.end = "dst"
  PROVE  Eligible(c)'
<1>1. PInv /\ Eligible(c)
  BY IsEligible
<1>2. /\ op'[c].pc = After(c) /\ op'[c].cur = op[c].cur
      /\ op'[c].end = IF IsLocal(c, op[c].cur) THEN "dst" ELSE op[c].end
      /\ op'[c].doomed = op[c].doomed /\ op'[c].fresh = op[c].fresh
      /\ md'[c].made = md[c].made
      /\ md'[c].dst = IF IsLocal(c, op[c].cur) THEN md[c].dst ELSE op[c].cur
  BY <1>1, CreatedFields
<1>3. /\ After(c) \in {"check", "configure", "apply"}
      /\ After(c) = "apply" => Outgoing(c)
      /\ After(c) = "check" => Outgoing(c)
  BY DEF After, IsLocal, Outgoing
<1> QED
  BY <1>1, <1>2, <1>3 DEF Eligible, Making, CandOrNull, Candidates, Outgoing

LEMMA MadeEnds ==
  ASSUME PlacesDisjoint, EInv, NEW c \in Conn, ~Outgoing(c),
         Check(c) \/ Add(c) \/ Move(c) \/ Rename(c)
  PROVE  \A l \in LinksOf(c)' : l.end = "dst"
<1>1. PInv /\ \A l \in LinksOf(c) : l.end = "dst"
  BY IsEligible DEF Eligible
<1>2. \A from, to :
        Moved(LinksOf(c), LinksOf(c)', from, to) => \A l \in LinksOf(c)' : l.end = "dst"
  BY <1>1 DEF Moved
<1>3. CASE Check(c)
  BY <1>1, <1>3, CheckEffect DEF LinkDel
<1>4. CASE Add(c)
  <2>1. op[c].end = "dst"
    BY <1>1, <1>4, AddEffect, IsEligible DEF Eligible, Making
  <2>2. \A l \in Added(c) : l.end = "dst"
    BY <2>1 DEF Added, IsLocal, Outgoing, NewLink
  <2> QED
    BY <1>1, <1>4, <2>2, AddEffect
<1>5. CASE Move(c)
  BY <1>1, <1>2, <1>5, MoveEffect, ShiftedMoved
<1>6. CASE Rename(c)
  BY <1>1, <1>2, <1>6, RenameEffect, ShiftedMoved
<1> QED
  BY <1>3, <1>4, <1>5, <1>6

LEMMA CreateEligible ==
  ASSUME PlacesDisjoint, EInv, NEW c \in Conn,
         Check(c) \/ Add(c) \/ Move(c) \/ Rename(c)
  PROVE  Eligible(c)'
<1>1. PInv /\ Eligible(c) /\ (~Outgoing(c) => \A l \in LinksOf(c)' : l.end = "dst")
  BY IsEligible, MadeEnds
<1>2. op[c].pc \in Making /\ est'[c] = est[c] /\ held'[c] = held[c]
  BY <1>1, CheckEffect, AddEffect, MoveEffect, RenameEffect DEF Making
<1>3. \/ CreateFailed(c) /\ md'[c] = md[c]
      \/ \E pc \in Making : Goto(c, pc) /\ md'[c] = md[c]
      \/ \E cache : Created(c, cache)
  BY <1>1, CheckEffect, AddEffect, MoveEffect, RenameEffect DEF Making, Gives
<1>4. CASE \E cache : Created(c, cache)
  BY <1>1, <1>2, <1>4, CreatedEligible
<1>5. CASE CreateFailed(c) /\ md'[c] = md[c]
  <2>1. /\ op'[c].pc \in {"failed", "close"}
        /\ op'[c].pc = "close" => op'[c].arg = "REMOTE"
        /\ op'[c].cur = op[c].cur /\ op'[c].doomed = op[c].doomed
        /\ op'[c].fresh = op[c].fresh
    BY <1>1, <1>5, CreateFailedFields DEF SameBut
  <2> QED
    BY <1>1, <1>2, <1>5, <2>1
       DEF Eligible, Making, CandOrNull, Candidates, Outgoing
<1>6. CASE \E pc \in Making : Goto(c, pc) /\ md'[c] = md[c]
  <2>1. PICK pc \in Making : SameBut(c, pc) /\ md'[c] = md[c]
    BY <1>1, <1>6, GotoFields
  <2> QED
    BY <1>1, <1>2, <2>1
       DEF Eligible, Making, SameBut, CandOrNull, Candidates, Outgoing
<1> QED
  BY <1>3, <1>4, <1>5, <1>6

\* The other connections are left as they are
LEMMA OthersEligible ==
  ASSUME EInv, NEW c \in Conn, Frame(c), Eligible(c)'
  PROVE  \A x \in Conn : Eligible(x)'
<1>1. ASSUME NEW x \in Conn, x # c
      PROVE  Eligible(x)'
  <2>1. /\ op'[x] = op[x] /\ md'[x] = md[x] /\ est'[x] = est[x] /\ held'[x] = held[x]
        /\ LinksOf(x)' = LinksOf(x)
    BY <1>1 DEF Frame, OthersKept, LinksOf
  <2> QED
    BY <2>1, IsEligible DEF Eligible, CandOrNull, Candidates, Outgoing
<1> QED
  BY <1>1

\* The steps that are of one handler
Request(c) == SwitchPeer(c) \/ Accept(c) \/ Refuse(c) \/ Failed(c) \/ LateError(c)
Create(c) == Check(c) \/ Add(c) \/ Move(c) \/ Rename(c)
Answer(c) == Configure(c) \/ Apply(c) \/ Return(c)
Cleanup(c) == Close(c) \/ Unstore(c) \/ Delete(c) \/ Disconnect(c)
Step(c) ==
  Select(c) \/ Refresh(c) \/ Request(c) \/ Create(c) \/ Answer(c) \/ Cleanup(c)

LEMMA Steps ==
  ASSUME [Next]_vars
  PROVE  (\E c \in Conn : Step(c)) \/ Crash \/ LoseLink \/ UNCHANGED vars
BY DEF Next, Handler, Panic, Restart, Step, Request, Create, Answer, Cleanup

LEMMA StepFrame ==
  ASSUME PlacesDisjoint, EInv, NEW c \in Conn, Step(c)
  PROVE  Frame(c)
<1>1. PInv
  BY DEF EInv
<1>2. CASE Select(c) \/ Refresh(c)
  BY <1>2, StartEffect DEF Still
<1>3. CASE Request(c)
  BY <1>1, <1>3, SwitchPeerEffect, AcceptEffect, RefuseEffect, FailedEffect,
     LateErrorEffect DEF Request, Still
<1>4. CASE Create(c)
  BY <1>1, <1>4, CheckEffect, AddEffect, MoveEffect, RenameEffect DEF Create
<1>5. CASE Answer(c)
  BY <1>1, <1>5, ConfigureEffect, ApplyEffect, ReturnEffect DEF Answer, Still
<1>6. CASE Cleanup(c)
  BY <1>1, <1>6, CloseEffect, UnstoreEffect, DeleteEffect, DisconnectEffect
     DEF Cleanup, Still
<1> QED
  BY <1>2, <1>3, <1>4, <1>5, <1>6 DEF Step

LEMMA LoseFields ==
  ASSUME PInv, NEW c \in Conn, NEW b, op'[c] = [op[c] EXCEPT !.lost = b]
  PROVE  /\ op'[c].lost = b
         /\ op'[c].pc = op[c].pc /\ op'[c].end = op[c].end /\ op'[c].cur = op[c].cur
         /\ op'[c].doomed = op[c].doomed /\ op'[c].fresh = op[c].fresh
         /\ op'[c].arg = op[c].arg /\ op'[c].after = op[c].after
BY Typed DEF OpType

LEMMA NextEligible ==
  ASSUME PlacesDisjoint, EInv, [Next]_vars
  PROVE  \A c \in Conn : Eligible(c)'
<1>1. PInv /\ \A c \in Conn : Eligible(c)
  BY DEF EInv
<1>2. CASE \E c \in Conn : Step(c)
  <2>1. PICK c \in Conn : Step(c)
    BY <1>2
  <2>2. Eligible(c)'
    BY <2>1, StartEligible, RequestEligible, CreateEligible, AnswerEligible,
       CleanupEligible DEF Step, Request, Create, Answer, Cleanup
  <2> QED
    BY <2>1, <2>2, StepFrame, OthersEligible
<1>3. CASE Crash
  <2>1. ASSUME NEW c \in Conn
        PROVE  Eligible(c)'
    <3>1. /\ op'[c] = Idle /\ md'[c] = NoMd /\ est'[c] = Null
          /\ held'[c] = held[c] /\ LinksOf(c)' = LinksOf(c)
      BY <1>1, <1>3, CrashEffect
    <3> QED
      BY <1>1, <3>1, IdleFields
         DEF Eligible, Making, CandOrNull, Candidates, Outgoing
  <2> QED
    BY <2>1
<1>4. CASE LoseLink
  <2>1. PICK c, p :
          /\ c \in Conn
          /\ LinksOf(c)' = LinkDel(LinksOf(c), p) /\ Frame(c)
          /\ op'[c] = [op[c] EXCEPT !.lost = op[c].pc # "idle"]
          /\ est'[c] = est[c] /\ held'[c] = held[c] /\ md'[c] = md[c]
    BY <1>1, <1>4, LoseEffect
  <2>2. Eligible(c)'
    <3>1. /\ op'[c].pc = op[c].pc /\ op'[c].end = op[c].end /\ op'[c].cur = op[c].cur
          /\ op'[c].doomed = op[c].doomed /\ op'[c].fresh = op[c].fresh
          /\ op'[c].arg = op[c].arg
      BY <1>1, <2>1, LoseFields
    <3>2. LinksOf(c)' \subseteq LinksOf(c)
      BY <2>1 DEF LinkDel
    <3> QED
      BY <1>1, <2>1, <3>1, <3>2
         DEF Eligible, Making, CandOrNull, Candidates, Outgoing
  <2> QED
    BY <2>1, <2>2, OthersEligible
<1>5. CASE UNCHANGED vars
  BY <1>1, <1>5 DEF vars, Eligible, CandOrNull, Candidates, Outgoing, LinksOf
<1> QED
  BY <1>2, <1>3, <1>4, <1>5, Steps

LEMMA InitEInv == Init => EInv
<1> SUFFICES ASSUME Init, NEW c \in Conn PROVE Eligible(c)
  BY InitPInv DEF EInv
<1>1. /\ est[c] = Null /\ held[c] = Null /\ md[c] = NoMd /\ op[c] = Idle
      /\ LinksOf(c) = {}
  BY DEF Init, LinksOf
<1> QED
  BY <1>1, IdleFields DEF Eligible, Making, CandOrNull, Candidates, Outgoing

LEMMA NextEInv ==
  ASSUME PlacesDisjoint, NamesDistinct, EInv, [Next]_vars
  PROVE  EInv'
<1>1. PInv /\ PInv'
  BY NextInv, NextOwn, NextPairs DEF EInv, PInv, IInv
<1> QED
  BY <1>1, NextEligible DEF EInv

-----------------------------------------------------------------------------
(* A success is a path *)

\* Where a tunnel to the endpoint leads
To(e) == IF DstCls[e] = "REMOTE" THEN Url[e] ELSE Null

\* What the deployment has to provide for a success to mean a path: all the
\* endpoints a connection may be given are reached alike, by a veth pair or
\* by a tunnel to one node.
OneRoute ==
  \A c \in Conn : \A e, f \in Candidates(c) : Kind(c, e) = Kind(c, f) /\ To(e) = To(f)

Route(c) ==
  \A l \in LinksOf(c), e \in Candidates(c) : l.kind = Kind(c, e) /\ l.to = To(e)

Ready(c) ==
  op[c].pc \in {"configure", "apply", "return"} /\ ~op[c].lost => Path(c, op[c].cur)

RInv == EInv /\ \A c \in Conn : Route(c) /\ Ready(c)

\* Path, for the links of one connection
Leads(c, L, e, end) ==
  \E l \in L : /\ l.kind = Kind(c, e) /\ l.end = end
               /\ l.at = EndPlace(c, e, end) /\ l.to = To(e)
Joined(c, L, e) ==
  IF IsLocal(c, e) THEN Leads(c, L, e, "src") /\ Leads(c, L, e, "dst")
                   ELSE Leads(c, L, e, FirstEnd(c))

LEMMA PathJoined ==
  ASSUME NEW c, NEW e
  PROVE  /\ Path(c, e) <=> Joined(c, LinksOf(c), e)
         /\ Path(c, e)' <=> Joined(c, LinksOf(c)', e)
BY DEF Path, Joined, Leads, To, LinksOf, IsLocal, FirstEnd, Kind, EndPlace, Outgoing

LEMMA CurCandidate ==
  ASSUME EInv, NEW c \in Conn, op[c].cur \in Endpoint
  PROVE  op[c].cur \in Candidates(c)
BY IsEligible , ConstantsOK DEF Eligible, CandOrNull, ConstantsOK

\* An interface at the end Create comes to last makes a path
LEMMA LastMakesPath ==
  ASSUME NamesDistinct, NEW c \in Conn, NEW L, Own(c, L), Shape(c, L),
         NEW e \in Candidates(c), NEW end \in Ends,
         \A l \in L : l.kind = Kind(c, e) /\ l.to = To(e),
         ~Outgoing(c) => end = "dst" /\ \A l \in L : l.end = "dst",
         Outgoing(c) /\ ~IsLocal(c, e) => end = "src",
         IsLocal(c, e) => end = "dst" /\ \A k \in Veth(L, "src") : k.at = ClientIf[c],
         NEW l \in L, l.at = EndPlace(c, e, end)
  PROVE  Joined(c, L, e)
<1>1. l.end \in Ends /\ e \in Endpoint
  BY NullIs DEF Own, LinkType
<1>2. CASE ~Outgoing(c)
  BY <1>2 DEF Joined, Leads, IsLocal, Outgoing, FirstEnd
<1>3. CASE Outgoing(c) /\ ~IsLocal(c, e)
  <2>1. l.at = ClientIf[c] /\ l.at \in SrcPlaces(c)
    BY <1>3 DEF EndPlace, SrcPlaces
  <2>2. l.end = "src"
    BY <1>1, <1>3, <2>1 DEF Shape, NamesDistinct, Ends
  <2> QED
    BY <1>3, <2>2 DEF Joined, Leads, FirstEnd
<1>4. CASE Outgoing(c) /\ IsLocal(c, e)
  <2>1. end = "dst" /\ l.at = NseIf[c][e] /\ l.at \in DstPlaces(c)
    BY <1>1, <1>4 DEF EndPlace, DstPlaces
  <2>2. l.end = "dst" /\ l \in Veth(L, "dst")
    BY <1>1, <1>4, <2>1 DEF Shape, NamesDistinct, Ends, Veth
  <2>3. PICK k \in Veth(L, "src") : k.at = ClientIf[c]
    BY <1>4, <2>2 DEF Shape
  <2> QED
    BY <1>4, <2>1, <2>2, <2>3 DEF Joined, Leads, Veth, EndPlace
<1> QED
  BY <1>2, <1>3, <1>4 DEF IsLocal, Outgoing

LEMMA RouteKept ==
  ASSUME PlacesDisjoint, OneRoute, RInv, NEW c \in Conn, Step(c)
  PROVE  Route(c)'
<1> DEFINE L == LinksOf(c)
           K == LinksOf(c)'
           N == Added(c)
           R(l) == \A e \in Candidates(c) : l.kind = Kind(c, e) /\ l.to = To(e)
<1>1. EInv /\ PInv /\ \A l \in L : R(l)
  BY DEF RInv, EInv, Route
<1>2. CASE K \subseteq L
  BY <1>1, <1>2
     DEF Route, Kind, To, IsLocal, Candidates
<1>3. CASE Add(c) /\ K = L \cup N
  <2>1. op[c].cur \in Candidates(c)
    BY <1>1, <1>3, AddEffect, CurCandidate
  <2>2. \A l \in N : R(l)
    BY <2>1 DEF Added, NewLink, OneRoute, To
  <2> QED
    BY <1>1, <1>3, <2>2 DEF Route, Kind, To, IsLocal, Candidates
<1>4. CASE \E from, to : Moved(L, K, from, to)
  BY <1>1, <1>4 DEF Moved, Route, Kind, To, IsLocal, Candidates
<1>5. CASE Create(c)
  <2>1. \A from, to : Shifted(c, from, to) => Moved(L, K, from, to)
    BY <1>1, ShiftedMoved
  <2> HIDE DEF L, K, N
  <2>2. CASE Check(c)
    BY <1>1, <1>2, <2>2, CheckEffect DEF LinkDel, L, K
  <2>3. CASE Add(c)
    BY <1>1, <1>2, <1>3, <2>3, AddEffect DEF L, K, N
  <2>4. CASE Move(c)
    BY <1>1, <1>2, <1>4, <2>1, <2>4, MoveEffect DEF L, K
  <2>5. CASE Rename(c)
    BY <1>1, <1>2, <1>4, <2>1, <2>5, RenameEffect DEF L, K
  <2> QED
    BY <1>5, <2>2, <2>3, <2>4, <2>5 DEF Create
<1>6. CASE ~Create(c)
  <2>1. CASE Select(c) \/ Refresh(c)
    BY <1>1, <1>2, <2>1, StartEffect DEF Still
  <2>2. CASE Request(c)
    BY <1>1, <1>2, <2>2, SwitchPeerEffect, AcceptEffect, RefuseEffect, FailedEffect,
       LateErrorEffect DEF Request, Still
  <2>3. CASE Answer(c)
    BY <1>1, <1>2, <2>3, ConfigureEffect, ApplyEffect, ReturnEffect DEF Answer, Still
  <2>4. CASE Cleanup(c)
    BY <1>1, <1>2, <2>4, CloseEffect, UnstoreEffect, DeleteEffect, DisconnectEffect
       DEF Cleanup, Still, LinkDel
  <2> QED
    BY <1>6, <2>1, <2>2, <2>3, <2>4 DEF Step
<1> QED
  BY <1>5, <1>6

LEMMA CreatedReady ==
  ASSUME PlacesDisjoint, NamesDistinct, RInv, EInv', NEW c \in Conn, Route(c)',
         op[c].pc \in Making, NEW e \in Endpoint, e = op[c].cur, op[c].end \in Ends,
         NEW cache, Created(c, cache),
         NEW L, L = LinksOf(c)', NEW l \in L, l.at = Here(c),
         IsLocal(c, e) /\ op[c].end = "dst" =>
           \A k \in Veth(L, "src") : k.at = ClientIf[c]
  PROVE  Ready(c)'
<1>1. PInv /\ EInv /\ Eligible(c) /\ Phase(c, LinksOf(c), op[c])
  BY DEF RInv, EInv, PInv, Pairs
<1>2. op'[c].pc = After(c) /\ op'[c].cur = e
  BY <1>1, CreatedFields
<1>3. CASE IsLocal(c, e) /\ op[c].end = "src"
  BY <1>2, <1>3 DEF After, Ready
<1>4. CASE ~(IsLocal(c, e) /\ op[c].end = "src")
  <2>1. e \in Candidates(c) /\ op[c].end \in Ends
    BY <1>1, CurCandidate
  <2>2. Own(c, L)
    BY DEF EInv, PInv, IInv, Inv, TypeOK, Own, LinksOf
  <2>3. Shape(c, L)
    BY DEF EInv, PInv, Pairs
  <2>4. \A k \in L : k.kind = Kind(c, e) /\ k.to = To(e)
    BY <2>1 DEF Route, Kind, To, IsLocal, Candidates
  <2>5. ~Outgoing(c) => op[c].end = "dst" /\ \A k \in L : k.end = "dst"
    BY <1>1 DEF EInv, Eligible, Outgoing
  <2>6. Outgoing(c) /\ ~IsLocal(c, e) => op[c].end = "src"
    BY <1>1 DEF Phase, Making
  <2>7. l.at = EndPlace(c, e, op[c].end)
    BY DEF Here
  <2>8. IsLocal(c, e) => /\ op[c].end = "dst"
                         /\ \A k \in Veth(L, "src") : k.at = ClientIf[c]
    BY <1>4 DEF Ends
  <2>9. Joined(c, L, e)
    BY <2>1, <2>2, <2>3, <2>4, <2>5, <2>6, <2>7, <2>8, LastMakesPath
  <2>10. Path(c, e)'
    BY <2>9, PathJoined
  <2> QED
    BY <1>2, <2>10 DEF Ready
<1> QED
  BY <1>3, <1>4

LEMMA CreateReady ==
  ASSUME PlacesDisjoint, NamesDistinct, RInv, EInv', NEW c \in Conn, Route(c)', Create(c)
  PROVE  Ready(c)'
<1> DEFINE L == LinksOf(c)
           K == LinksOf(c)'
<1>1. PInv /\ EInv /\ Shape(c, L) /\ Phase(c, L, op[c]) /\ Own(c, L) /\ Own(c, K)
  BY DEF RInv, EInv, PInv, Pairs, IInv, Inv, TypeOK, Own, LinksOf
<1>2. /\ op[c].pc \in Making /\ op[c].cur \in Endpoint /\ op[c].end \in Ends
  BY <1>1, CheckEffect, AddEffect, MoveEffect, RenameEffect DEF Making, Create
<1>3. IsLocal(c, op[c].cur) /\ op[c].end = "dst" =>
        Outgoing(c) /\ \A k \in Veth(L, "src") : k.at = ClientIf[c]
  BY <1>1, <1>2 DEF Phase, Making, IsLocal, Outgoing
<1>4. \/ op'[c].pc \notin {"configure", "apply", "return"}
      \/ /\ Created(c, md[c].cache) /\ K = L /\ \E l \in L : l.at = Here(c)
      \/ /\ Created(c, md[c].cache \cup {op[c].end})
         /\ \E from : Shifted(c, from, Here(c))
  <2>1. CreateFailed(c) => op'[c].pc \in {"failed", "close"}
    BY <1>1, CreateFailedFields DEF SameBut
  <2>2. \A pc : Goto(c, pc) => op'[c].pc = pc
    BY <1>1, GotoFields DEF SameBut
  <2>3. CASE Check(c)
    BY <1>1, <2>1, <2>2, <2>3, CheckEffect DEF Gives
  <2>4. CASE Add(c)
    BY <1>1, <2>1, <2>2, <2>4, AddEffect DEF Gives
  <2>5. CASE Move(c)
    BY <1>1, <2>1, <2>2, <2>5, MoveEffect DEF Gives
  <2>6. CASE Rename(c)
    BY <1>1, <2>1, <2>2, <2>6, RenameEffect DEF Gives
  <2> QED
    BY <2>3, <2>4, <2>5, <2>6 DEF Create
<1>5. CASE op'[c].pc \notin {"configure", "apply", "return"}
  BY <1>5 DEF Ready
<1>6. CASE /\ Created(c, md[c].cache) /\ K = L /\ \E l \in L : l.at = Here(c)
  BY <1>2, <1>3, <1>6, CreatedReady
<1>7. CASE /\ Created(c, md[c].cache \cup {op[c].end})
           /\ \E from : Shifted(c, from, Here(c))
  <2>1. PICK from : Moved(L, K, from, Here(c))
    BY <1>1, <1>7, ShiftedMoved
  <2>2. Shape(c, K)
    BY DEF EInv, PInv, Pairs
  <2> HIDE DEF L, K
  <2>3. PICK l, m :
          /\ l \in L
          /\ K = (L \ {l}) \cup {m} /\ m.at = Here(c)
    BY <2>1 DEF Moved
  <2>4. ASSUME IsLocal(c, op[c].cur), op[c].end = "dst", NEW k \in Veth(K, "src")
        PROVE  k.at = ClientIf[c]
    <3>1. Here(c) \in DstPlaces(c)
      BY <1>2, <2>4 DEF Here, EndPlace, DstPlaces
    <3>2. k # m
      BY <1>3, <2>2, <2>3, <2>4, <3>1 DEF Shape, Veth, NamesDistinct
    <3>3. k \in Veth(L, "src")
      BY <2>3, <2>4, <3>2 DEF Veth
    <3> QED
      BY <1>3, <2>4, <3>3
  <2>5. m \in K /\ K = LinksOf(c)'
    BY <2>3 DEF K
  <2> QED
    BY <1>2, <1>7, <2>3, <2>4, <2>5, CreatedReady
<1> QED
  BY <1>4, <1>5, <1>6, <1>7

LEMMA StepReady ==
  ASSUME PlacesDisjoint, NamesDistinct, RInv, EInv', NEW c \in Conn, Route(c)', Step(c)
  PROVE  Ready(c)'
<1>1. PInv /\ EInv /\ Ready(c)
  BY DEF RInv, EInv
<1>2. CASE op'[c].pc \notin {"configure", "apply", "return"}
  BY <1>2 DEF Ready
<1>3. CASE /\ op[c].pc \in {"configure", "apply", "return"}
           /\ op'[c].cur = op[c].cur /\ op'[c].lost = op[c].lost
           /\ LinksOf(c)' = LinksOf(c)
  BY <1>1, <1>3, PathJoined DEF Ready
<1>4. CASE Select(c) \/ Refresh(c)
  BY <1>1, <1>2, <1>4, StartEffect
<1>5. CASE Request(c)
  BY <1>1, <1>2, <1>5, SwitchPeerEffect, AcceptEffect, RefuseEffect, FailedEffect,
     LateErrorEffect, IdleFields DEF Request, SameBut
<1>6. CASE Answer(c)
  BY <1>1, <1>2, <1>3, <1>6, ConfigureEffect, ApplyEffect, ReturnEffect, IdleFields
     DEF Answer, SameBut, Still
<1>7. CASE Cleanup(c)
  <2>1. CASE Close(c)
    BY <1>1, <1>2, <2>1, CloseEffect DEF SameBut
  <2>2. CASE Unstore(c)
    BY <1>1, <1>2, <2>2, UnstoreEffect, BelowIs
  <2>3. CASE Delete(c)
    BY <1>1, <1>2, <2>3, DeleteEffect, BelowIs DEF SameBut
  <2>4. CASE Disconnect(c)
    BY <1>1, <1>2, <2>4, DisconnectEffect, IdleFields DEF SameBut
  <2> QED
    BY <1>7, <2>1, <2>2, <2>3, <2>4 DEF Cleanup
<1> QED
  BY <1>4, <1>5, <1>6, <1>7, CreateReady DEF Step

LEMMA NextRInv ==
  ASSUME PlacesDisjoint, NamesDistinct, OneRoute, RInv, [Next]_vars
  PROVE  RInv'
<1>1. EInv /\ PInv /\ EInv' /\ \A c \in Conn : Route(c) /\ Ready(c)
  BY NextEInv DEF RInv, EInv
<1>2. ASSUME NEW x \in Conn, LinksOf(x)' \subseteq LinksOf(x)
      PROVE  Route(x)'
  BY <1>1, <1>2 DEF Route, Kind, To, IsLocal, Candidates
<1>3. ASSUME NEW x \in Conn, op'[x] = op[x], LinksOf(x)' = LinksOf(x)
      PROVE  Route(x)' /\ Ready(x)'
  BY <1>1, <1>2, <1>3, PathJoined DEF Ready
<1>4. ASSUME NEW c \in Conn, Frame(c), NEW x \in Conn \ {c}
      PROVE  Route(x)' /\ Ready(x)'
  BY <1>3, <1>4 DEF Frame, OthersKept, LinksOf
<1>5. CASE \E c \in Conn : Step(c)
  <2>1. PICK c \in Conn : Step(c)
    BY <1>5
  <2>2. Route(c)' /\ Ready(c)' /\ Frame(c)
    BY <1>1, <2>1, RouteKept, StepReady, StepFrame
  <2> QED
    BY <1>1, <1>4, <2>2 DEF RInv
<1>6. CASE Crash
  <2>1. \A c \in Conn : LinksOf(c)' \subseteq LinksOf(c) /\ op'[c] = Idle
    BY <1>1, <1>6, CrashEffect
  <2> QED
    BY <1>1, <1>2, <2>1, IdleFields DEF RInv, Ready
<1>7. CASE LoseLink
  <2>1. PICK c, p :
          /\ c \in Conn
          /\ LinksOf(c)' = LinkDel(LinksOf(c), p) /\ Frame(c)
          /\ op'[c] = [op[c] EXCEPT !.lost = op[c].pc # "idle"]
    BY <1>1, <1>7, LoseEffect
  <2>2. LinksOf(c)' \subseteq LinksOf(c)
    BY <2>1 DEF LinkDel
  <2>3. op'[c].pc = op[c].pc /\ op'[c].lost = (op[c].pc # "idle")
    BY <1>1, <2>1, LoseFields
  <2>4. Ready(c)'
    BY <2>3 DEF Ready
  <2> QED
    BY <1>1, <1>2, <1>4, <2>1, <2>2, <2>4 DEF RInv
<1>8. CASE UNCHANGED vars
  <2>1. \A c \in Conn : op'[c] = op[c] /\ LinksOf(c)' = LinksOf(c)
    BY <1>8 DEF vars, LinksOf
  <2> QED
    BY <1>1, <1>3, <2>1 DEF RInv
<1> QED
  BY <1>5, <1>6, <1>7, <1>8, Steps

\* xconnect.Request, connectioncontext: whatever refreshes, retries, failed
\* cleanups and restarts came before, a request about to return success has
\* joined the client to the endpoint it answers with, unless an interface
\* was lost under the handler.  What Create found in the cache and on the
\* node, and did not make anew, is what it would have made.
THEOREM SuccessConnectsTheorem ==
  ASSUME PlacesDisjoint, NamesDistinct, OneRoute PROVE Spec => []SuccessConnects
<1>1. Init => RInv
  <2> SUFFICES ASSUME Init, NEW c \in Conn PROVE Route(c) /\ Ready(c)
    BY InitEInv DEF RInv
  <2>1. LinksOf(c) = {} /\ op[c] = Idle
    BY DEF Init, LinksOf
  <2> QED
    BY <2>1, IdleFields DEF Route, Ready
<1>2. RInv /\ [Next]_vars => RInv'
  BY NextRInv
<1>3. RInv => SuccessConnects
  BY DEF RInv, Ready, SuccessConnects
<1> QED
  BY <1>1, <1>2, <1>3, PTL DEF Spec

=============================================================================
