----------------------------- MODULE CallsProofs -----------------------------
(***************************************************************************)
(* What the calls of a connection promise to those outside the node.       *)
(* XConnect runs them as the abstract module Serial does, and the dialer   *)
(* of a connection keeps track of the sessions it has opened: proved for   *)
(* every set of connections, endpoints and nodes.                          *)
(***************************************************************************)
EXTENDS XConnectProofs

\* What begin closes runs closeConnection and what is below, nothing else
AfterEnd ==
  \A c \in Conn : op[c].after = "end" => op[c].pc \in {"close", "delete", "disconnect"}

SInv == Inv /\ AfterEnd

SerialStep(c) == [Calls(c)!Next]_(Calls(c)!vars)

\* A step of the call of c, to the other connections and to begin
SameCall(c) == /\ op[c].pc # "idle" /\ op'[c].pc # "idle"
               /\ op[c].after = "end" <=> op'[c].after = "end"
               /\ est'[c] = est[c]

OnlyOf(c) ==
  \A d \in Conn \ {c} : op'[d] = op[d] /\ est'[d] = est[d]

LEMMA StutterStep ==
  ASSUME NEW c \in Conn, SameCall(c) \/ (op'[c] = op[c] /\ est'[c] = est[c])
  PROVE  SerialStep(c)
BY DEF SameCall, SerialStep, Running, Calls!vars

LEMMA OthersSerial ==
  ASSUME NEW c \in Conn, OnlyOf(c), SerialStep(c)
  PROVE  \A d \in Conn : SerialStep(d)
BY StutterStep DEF OnlyOf

-----------------------------------------------------------------------------
(* How the local variables of a handler change *)

\* The handler of c goes on at pc
GoesOn(c, pc) ==
  /\ op'[c].pc = pc /\ op'[c].after = op[c].after
  /\ \A d \in Conn \ {c} : op'[d] = op[d]

LEMMA GotoGoes ==
  ASSUME op \in [Conn -> OpType], NEW c \in Conn, NEW pc, Goto(c, pc)
  PROVE  GoesOn(c, pc)
BY DEF Goto, OpType, GoesOn

LEMMA EndGoes ==
  ASSUME op \in [Conn -> OpType], NEW c \in Conn, NEW pc, NEW x,
         op' = [op EXCEPT ![c].pc = pc, ![c].end = x]
  PROVE  GoesOn(c, pc)
BY DEF OpType, GoesOn

LEMMA UnstoreGoes ==
  ASSUME op \in [Conn -> OpType], NEW c \in Conn, NEW pc, NEW x, NEW i, NEW d,
         op' = [op EXCEPT ![c].pc = pc, ![c].doomed = d, ![c].inode = i,
                          ![c].end = x]
  PROVE  GoesOn(c, pc)
BY DEF OpType, GoesOn

LEMMA GotoStep ==
  ASSUME SInv, NEW c \in Conn, op[c].pc # "idle", UNCHANGED est,
         NEW pc \in PCs \ {"idle"},
         op[c].after = "end" => pc \in {"close", "delete", "disconnect"},
         \/ Goto(c, pc)
         \/ \E x \in Ends : op' = [op EXCEPT ![c].pc = pc, ![c].end = x]
         \/ \E x \in Ends, i \in BOOLEAN, d \in EndpointOrNull :
              op' = [op EXCEPT ![c].pc = pc, ![c].doomed = d,
                               ![c].inode = i, ![c].end = x]
  PROVE  SameCall(c) /\ OnlyOf(c) /\ AfterEnd'
<1>1. op \in [Conn -> OpType]
  BY DEF SInv, Inv, TypeOK
<1>2. GoesOn(c, pc)
  BY <1>1, GotoGoes, EndGoes, UnstoreGoes
<1> QED
  BY <1>2 DEF GoesOn, SameCall, OnlyOf, AfterEnd, SInv

LEMMA CallCloseStep ==
  ASSUME SInv, NEW c \in Conn, op[c].pc # "idle", op[c].after # "end",
         UNCHANGED est, NEW arg, NEW after \in {"failed", "undo"},
         CallClose(c, arg, after)
  PROVE  SameCall(c) /\ OnlyOf(c) /\ AfterEnd'
<1>1. op \in [Conn -> OpType]
  BY DEF SInv, Inv, TypeOK
<1>2. op'[c].pc = "close" /\ op'[c].after = after
  BY <1>1 DEF CallClose, OpType
<1>3. \A d \in Conn \ {c} : op'[d] = op[d]
  BY <1>1 DEF CallClose
<1> QED
  BY <1>2, <1>3 DEF SameCall, OnlyOf, AfterEnd, SInv

LEMMA WorkingStep ==
  ASSUME SInv, NEW c \in Conn, op[c].pc \in Working, UNCHANGED est,
         \/ UNCHANGED op
         \/ \E pc \in PCs \ {"idle"} : Goto(c, pc)
         \/ \E pc \in PCs \ {"idle"}, x \in Ends :
              op' = [op EXCEPT ![c].pc = pc, ![c].end = x]
         \/ \E arg : \E after \in {"failed", "undo"} : CallClose(c, arg, after)
         \/ CreateFailed(c)
  PROVE  SameCall(c) /\ OnlyOf(c) /\ AfterEnd'
<1>1. op[c].after # "end" /\ op[c].pc # "idle"
  BY DEF SInv, AfterEnd, Working
<1>2. CASE UNCHANGED op
  BY <1>1, <1>2 DEF SameCall, OnlyOf, AfterEnd, SInv
<1>3. CASE CreateFailed(c)
  BY <1>1, <1>3, GotoStep, CallCloseStep DEF CreateFailed, PCs
<1> QED
  BY <1>1, <1>2, <1>3, GotoStep, CallCloseStep

-----------------------------------------------------------------------------
(* The steps of a handler *)

LEMMA DownUpSteps ==
  ASSUME SInv, NEW c \in Conn,
         SwitchPeer(c) \/ Accept(c) \/ Refuse(c) \/ Configure(c) \/ Apply(c)
  PROVE  SameCall(c) /\ OnlyOf(c) /\ AfterEnd'
<1>1. op[c].pc \in Working /\ UNCHANGED est
  BY DEF SwitchPeer, Accept, Refuse, Configure, Apply, Working
<1>2. CASE SwitchPeer(c) \/ Refuse(c)
  <2>1. \/ UNCHANGED op
        \/ \E arg : \E after \in {"failed", "undo"} : CallClose(c, arg, after)
    BY <1>2 DEF SwitchPeer, Refuse, Refused
  <2> QED
    BY <1>1, <2>1, WorkingStep
<1>3. CASE Accept(c)
  BY <1>1, <1>3, WorkingStep DEF Accept, PCs, FirstEnd, Ends
<1>4. CASE Configure(c) \/ Apply(c)
  <2>1. \/ \E pc \in PCs \ {"idle"} : Goto(c, pc)
        \/ \E arg : \E after \in {"failed", "undo"} : CallClose(c, arg, after)
    BY <1>4 DEF Configure, Apply, PCs
  <2> QED
    BY <1>1, <2>1, WorkingStep
<1> QED
  BY <1>2, <1>3, <1>4

LEMMA CreateSteps ==
  ASSUME SInv, NEW c \in Conn, Check(c) \/ Add(c) \/ Move(c) \/ Rename(c)
  PROVE  SameCall(c) /\ OnlyOf(c) /\ AfterEnd'
<1>1. op[c].pc \in Working /\ UNCHANGED est
  BY DEF Check, Add, Move, Rename, Working
<1>2. ASSUME NEW cache, Created(c, cache)
      PROVE  SameCall(c) /\ OnlyOf(c) /\ AfterEnd'
  <2> DEFINE e == op[c].cur
             veth == IsLocal(c, e)
             pc == IF veth /\ op[c].end = "src" THEN "check"
                   ELSE IF ~veth /\ Outgoing(c) THEN "apply" ELSE "configure"
             end == IF veth THEN "dst" ELSE op[c].end
  <2>1. pc \in PCs \ {"idle"} /\ end \in Ends
    BY DEF PCs, Ends, SInv, Inv, TypeOK, OpType
  <2>2. op' = [op EXCEPT ![c].pc = pc, ![c].end = end]
    BY <1>2, Zenon DEF Created
  <2> HIDE DEF pc, end
  <2> QED
    BY <1>1, <2>1, <2>2, WorkingStep
<1>3. CASE CreateFailed(c) \/ \E pc \in PCs \ {"idle"} : Goto(c, pc)
  BY <1>1, <1>3, WorkingStep
<1>4. CASE Check(c)
  BY <1>2, <1>3, <1>4 DEF Check, PCs
<1>5. CASE Add(c) \/ Move(c) \/ Rename(c)
  BY <1>2, <1>3, <1>5 DEF Add, Move, Rename, PCs
<1> QED
  BY <1>4, <1>5

LEMMA CloseSteps ==
  ASSUME SInv, NEW c \in Conn, Unstore(c) \/ Delete(c)
  PROVE  SameCall(c) /\ OnlyOf(c) /\ AfterEnd'
<1>1. /\ op[c].pc \in {"close", "delete"} /\ UNCHANGED est
      /\ Below(c) \in PCs \ {"idle"}
      /\ op[c].after = "end" => Below(c) = "disconnect"
  BY DEF Unstore, Delete, Below, PCs
<1>2. CASE Unstore(c)
  <2> DEFINE d == md[c].dst
             pc == IF d = Null THEN Below(c) ELSE "delete"
             end == IF op[c].arg = "LOCAL" THEN "src" ELSE "dst"
             inode == md[c].named = "inode"
  <2>1. /\ pc \in PCs \ {"idle"} /\ end \in Ends /\ inode \in BOOLEAN
        /\ d \in EndpointOrNull
        /\ op[c].after = "end" => pc \in {"close", "delete", "disconnect"}
    BY <1>1 DEF PCs, Ends, SInv, Inv, TypeOK, MdType
  <2>2. op' = [op EXCEPT ![c].pc = pc, ![c].doomed = d, ![c].inode = inode,
                         ![c].end = end]
    BY <1>2 DEF Unstore
  <2> HIDE DEF d, pc, end, inode
  <2> QED
    BY <1>1, <2>1, <2>2, GotoStep
<1>3. CASE Delete(c)
  <2>1. CASE op' = [op EXCEPT ![c].end = "dst"]
    <3>1. op \in [Conn -> OpType]
      BY DEF SInv, Inv, TypeOK
    <3>2. op'[c].pc = op[c].pc /\ op'[c].after = op[c].after
      BY <2>1, <3>1 DEF OpType
    <3>3. \A d \in Conn \ {c} : op'[d] = op[d]
      BY <2>1, <3>1
    <3> QED
      BY <1>1, <3>2, <3>3 DEF SameCall, OnlyOf, AfterEnd, SInv
  <2>2. CASE Goto(c, Below(c))
    BY <1>1, <2>2, GotoStep
  <2> QED
    BY <1>3, <2>1, <2>2 DEF Delete
<1> QED
  BY <1>2, <1>3

\* Steps that begin or end a call of c
LEMMA EndSteps ==
  ASSUME SInv, NEW c \in Conn,
         Return(c) \/ LateError(c) \/ Failed(c) \/ Disconnect(c)
  PROVE  SerialStep(c) /\ OnlyOf(c) /\ AfterEnd'
<1>1. op \in [Conn -> OpType] /\ est \in [Conn -> EndpointOrNull]
  BY DEF SInv, Inv, TypeOK
<1>2. CASE Return(c)
  <2>1. /\ op[c].cur # Null /\ op[c].after # "end" /\ op[c].pc # "idle"
    BY <1>2, ConstantsOK
       DEF Return, SInv, Inv, AtHand, AfterEnd, Working, ConstantsOK
  <2>2. /\ op'[c].pc = "idle" /\ est'[c] # Null
        /\ OnlyOf(c) /\ AfterEnd'
    BY <1>1, <1>2, <2>1 DEF Return, OnlyOf, AfterEnd, SInv, Idle
  <2> QED
    BY <2>1, <2>2 DEF SerialStep, Running, Calls!Next, Calls!Succeed, Calls!Done
<1>3. CASE GiveUp(c) /\ UNCHANGED est /\ op[c].pc \in {"return", "failed"}
  <2>1. op[c].after # "end"
    BY <1>3 DEF SInv, AfterEnd
  <2>2. op'[c].pc = "idle" /\ OnlyOf(c) /\ AfterEnd'
    BY <1>1, <1>3 DEF GiveUp, OnlyOf, AfterEnd, SInv, Idle
  <2> QED
    BY <1>3, <2>1, <2>2
       DEF SerialStep, Running, Calls!Next, Calls!Fail, Calls!Done
<1>4. CASE Failed(c) /\ ~GiveUp(c)
  <2>1. op[c].after # "end" /\ op[c].pc # "idle"
    BY <1>4 DEF Failed, SInv, AfterEnd
  <2>2. PICK e \in Candidates(c) :
          op' = [op EXCEPT ![c] =
                   [Idle EXCEPT !.pc = "call", !.cur = e, !.bare = op[c].bare,
                                !.fresh = op[c].fresh,
                                !.tries = FewerTries(c)]]
    BY <1>4 DEF Failed
  <2>3. op'[c].pc = "call" /\ op'[c].after = "failed"
    BY <1>1, <2>2 DEF Idle
  <2>4. \A d \in Conn \ {c} : op'[d] = op[d]
    BY <1>1, <2>2
  <2>5. SameCall(c) /\ OnlyOf(c) /\ AfterEnd'
    BY <1>4, <2>1, <2>3, <2>4 DEF Failed, SameCall, OnlyOf, AfterEnd, SInv
  <2> QED
    BY <2>5, StutterStep
<1>5. CASE Disconnect(c) /\ op[c].after = "end"
  <2>1. op'[c].pc = "idle" /\ est'[c] = Null /\ OnlyOf(c) /\ AfterEnd'
    BY <1>1, <1>5 DEF Disconnect, OnlyOf, AfterEnd, SInv, Idle
  <2>2. op[c].pc # "idle"
    BY <1>5 DEF Disconnect
  <2> QED
    BY <1>5, <2>1, <2>2 DEF SerialStep, Running, Calls!Next, Calls!Closed
<1>6. CASE Disconnect(c) /\ op[c].after # "end"
  <2>1. SameCall(c) /\ OnlyOf(c) /\ AfterEnd'
    BY <1>6, GotoStep DEF Disconnect, PCs
  <2> QED
    BY <2>1, StutterStep
<1> QED
  BY <1>2, <1>3, <1>4, <1>5, <1>6 DEF LateError, Failed

LEMMA StartSteps ==
  ASSUME SInv, NEW c \in Conn, Select(c) \/ Refresh(c) \/ Close(c)
  PROVE  SerialStep(c) /\ OnlyOf(c) /\ AfterEnd'
<1>1. op \in [Conn -> OpType] /\ est \in [Conn -> EndpointOrNull]
  BY DEF SInv, Inv, TypeOK
<1>2. CASE Select(c) \/ Refresh(c)
  <2>1. PICK e, n, bare : Start(c, e, n, bare)
    BY <1>2 DEF Select, Refresh
  <2>2. op[c].pc = "idle" /\ UNCHANGED est
    BY <2>1 DEF Start, Free
  <2>3. op'[c].pc = "call" /\ op'[c].after = "failed"
    BY <1>1, <2>1 DEF Start, Idle
  <2>4. \A d \in Conn \ {c} : op'[d] = op[d]
    BY <1>1, <2>1 DEF Start
  <2>5. OnlyOf(c) /\ AfterEnd'
    BY <2>2, <2>3, <2>4 DEF OnlyOf, AfterEnd, SInv
  <2> QED
    BY <2>2, <2>3, <2>5
       DEF SerialStep, Running, Calls!Next, Calls!Request, Calls!Begin
<1>3. CASE Close(c) /\ UNCHANGED est /\ CallClose(c, SrcCls[c], "end")
  <2>1. op[c].pc = "idle" /\ est[c] # Null
    BY <1>3 DEF Close, Free
  <2>2. op'[c].pc = "close" /\ op'[c].after = "end"
    BY <1>1, <1>3 DEF CallClose, OpType
  <2>3. \A d \in Conn \ {c} : op'[d] = op[d]
    BY <1>1, <1>3 DEF CallClose
  <2>4. OnlyOf(c) /\ AfterEnd'
    BY <1>3, <2>2, <2>3 DEF OnlyOf, AfterEnd, SInv
  <2> QED
    BY <1>3, <2>1, <2>2, <2>4
       DEF SerialStep, Running, Calls!Next, Calls!Close, Calls!Begin
<1>4. CASE Close(c) /\ est' = [est EXCEPT ![c] = Null] /\ UNCHANGED op
  <2>1. op[c].pc = "idle" /\ est'[c] = Null
    BY <1>1, <1>4 DEF Close, Free
  <2>2. OnlyOf(c) /\ AfterEnd'
    BY <1>1, <1>4 DEF OnlyOf, AfterEnd, SInv
  <2> QED
    BY <1>4, <2>1, <2>2 DEF SerialStep, Running, Calls!Next, Calls!Drop
<1> QED
  BY <1>2, <1>3, <1>4 DEF Close

-----------------------------------------------------------------------------
(* The process and the node *)

LEMMA CrashSteps ==
  ASSUME SInv, Crash
  PROVE  AfterEnd' /\ \A c \in Conn : SerialStep(c)
<1>1. \A c \in Conn : op'[c].pc = "idle" /\ op'[c].after = "failed" /\ est'[c] = Null
  BY DEF Crash, Idle
<1> QED
  BY <1>1 DEF AfterEnd, SerialStep, Running, Calls!Next, Calls!Restart

LEMMA LoseLinkSteps ==
  ASSUME SInv, LoseLink
  PROVE  AfterEnd' /\ \A c \in Conn : SerialStep(c)
<1>1. PICK l \in links :
        op' = [op EXCEPT ![l.owner].lost = op[l.owner].pc # "idle"]
  BY DEF LoseLink
<1>2. \A c \in Conn : op'[c].pc = op[c].pc /\ op'[c].after = op[c].after
  BY <1>1 DEF SInv, Inv, TypeOK, OpType
<1> QED
  BY <1>2 DEF LoseLink, AfterEnd, SInv, SerialStep, Running, Calls!vars

LEMMA NextSteps ==
  ASSUME SInv, [Next]_vars
  PROVE  AfterEnd' /\ \A c \in Conn : SerialStep(c)
<1>1. ASSUME NEW c \in Conn, Handler(c)
      PROVE  AfterEnd' /\ \A d \in Conn : SerialStep(d)
  <2>1. CASE Panic(c)
    BY <2>1, CrashSteps DEF Panic
  <2>2. CASE \/ SwitchPeer(c) \/ Accept(c) \/ Refuse(c) \/ Configure(c) \/ Apply(c)
             \/ Check(c) \/ Add(c) \/ Move(c) \/ Rename(c)
             \/ Unstore(c) \/ Delete(c)
    <3>1. SameCall(c) /\ OnlyOf(c) /\ AfterEnd'
      BY <2>2, DownUpSteps, CreateSteps, CloseSteps
    <3> QED
      BY <3>1, StutterStep, OthersSerial
  <2>3. CASE Return(c) \/ LateError(c) \/ Failed(c) \/ Disconnect(c)
    BY <2>3, EndSteps, OthersSerial
  <2> QED
    BY <1>1, <2>1, <2>2, <2>3 DEF Handler
<1>2. ASSUME NEW c \in Conn, Select(c) \/ Refresh(c) \/ Close(c)
      PROVE  AfterEnd' /\ \A d \in Conn : SerialStep(d)
  BY <1>2, StartSteps, OthersSerial
<1>3. CASE Restart
  BY <1>3, CrashSteps DEF Restart
<1>4. CASE UNCHANGED vars
  BY <1>4, StutterStep DEF vars, AfterEnd, SInv
<1> QED
  BY <1>1, <1>2, <1>3, <1>4, LoseLinkSteps DEF Next

\* begin's contract with xconnect: every behaviour of the forwarder, for any
\* number of connections, endpoints and failures, runs the calls of each
\* connection as Serial allows (one at a time, a Close only of what is
\* established).
THEOREM SerialTheorem == Spec => Serialised
<1>1. Init => SInv /\ \A c \in Conn : Calls(c)!Init
  <2>1. Init => AfterEnd /\ \A c \in Conn : Calls(c)!Init
    BY DEF Init, AfterEnd, Idle, Running, Calls!Init
  <2> QED
    BY <2>1, InitInv DEF SInv
<1>2. SInv /\ [Next]_vars => SInv'
  BY NextInv, NextSteps DEF SInv
<1>3. SInv /\ [Next]_vars
      => [\A c \in Conn : [Calls(c)!Next]_(Calls(c)!vars)]_vars
  BY NextSteps DEF SerialStep
<1> QED
  BY <1>1, <1>2, <1>3, PTL DEF Spec, Serialised

-----------------------------------------------------------------------------
(* The sessions *)

\* The endpoint has accepted, and what follows is about it
Reached == {"check", "add", "move", "rename", "configure", "apply", "return"}

Answered(c) ==
  \/ op[c].pc \in Reached
  \/ op[c].pc \in {"close", "delete"} /\ op[c].after = "undo"
  \/ op[c].pc = "disconnect" /\ op[c].after # "end"

\* Until the attempt is over, the dialer is that of the endpoint tried: what
\* undoes the attempt closes the session it has opened
Dialled == \A c \in Conn : Answered(c) => md[c].dial = op[c].cur

DInv == Inv /\ Dialled

SessionStep(c) ==
  md'[c].made /\ faults' = faults => Forgotten(c)' \subseteq Forgotten(c)

\* What is to be shown of a step of the handler of c
Tracks(c) == (Answered(c)' => md'[c].dial = op'[c].cur) /\ SessionStep(c)

OnlyC(c) ==
  \A d \in Conn \ {c} : op'[d] = op[d] /\ md'[d] = md[d] /\ sess'[d] = sess[d]

LEMMA SameForgotten ==
  ASSUME NEW c \in Conn, sess'[c] = sess[c], md'[c].dial = md[c].dial
  PROVE  SessionStep(c)
BY DEF SessionStep, Forgotten

LEMMA OthersTrack ==
  ASSUME DInv, NEW c \in Conn, OnlyC(c), Tracks(c)
  PROVE  Dialled' /\ \A d \in Conn : SessionStep(d)
<1>1. ASSUME NEW d \in Conn \ {c}
      PROVE  SessionStep(d) /\ (Answered(d)' => md'[d].dial = op'[d].cur)
  BY <1>1, SameForgotten DEF OnlyC, DInv, Dialled, Answered
<1> QED
  BY <1>1 DEF Tracks, Dialled

\* A step that leaves dialer and sessions alone
LEMMA QuietStep ==
  ASSUME DInv, NEW c \in Conn, sess'[c] = sess[c], md'[c].dial = md[c].dial,
         Answered(c)' => Answered(c) /\ op'[c].cur = op[c].cur
  PROVE  Tracks(c)
BY SameForgotten DEF Tracks, DInv, Dialled

-----------------------------------------------------------------------------
(* How a handler goes on *)

\* ... with the endpoint it has tried
Goes(c, pc, after) ==
  /\ op'[c].pc = pc /\ op'[c].after = after /\ op'[c].cur = op[c].cur
  /\ \A d \in Conn \ {c} : op'[d] = op[d]

LEMMA GotoTo ==
  ASSUME DInv, NEW c \in Conn, NEW pc, Goto(c, pc)
  PROVE  Goes(c, pc, op[c].after)
BY DEF DInv, Inv, TypeOK, OpType, Goto, Goes

LEMMA EndTo ==
  ASSUME DInv, NEW c \in Conn, NEW pc, NEW x,
         op' = [op EXCEPT ![c].pc = pc, ![c].end = x]
  PROVE  Goes(c, pc, op[c].after)
BY DEF DInv, Inv, TypeOK, OpType, Goes

LEMMA CallCloseGoes ==
  ASSUME DInv, NEW c \in Conn, NEW arg, NEW after, CallClose(c, arg, after)
  PROVE  Goes(c, "close", after)
BY DEF DInv, Inv, TypeOK, OpType, CallClose, Goes

\* From one step of an attempt to the next, or to its cleanup
LEMMA ReachedStep ==
  ASSUME DInv, NEW c \in Conn, op[c].pc \in Reached, UNCHANGED sess,
         md'[c].dial = md[c].dial,
         \A d \in Conn \ {c} : md'[d] = md[d],
         \E pc, after : Goes(c, pc, after)
  PROVE  Tracks(c) /\ OnlyC(c)
BY QuietStep DEF Goes, OnlyC, Answered

LEMMA CreateFailedGoes ==
  ASSUME DInv, NEW c \in Conn, CreateFailed(c)
  PROVE  \E pc, after : Goes(c, pc, after)
BY GotoTo, CallCloseGoes DEF CreateFailed

LEMMA CreatedGoes ==
  ASSUME DInv, NEW c \in Conn, NEW cache, Created(c, cache)
  PROVE  /\ \E pc, after : Goes(c, pc, after)
         /\ md'[c].dial = md[c].dial
         /\ \A d \in Conn \ {c} : md'[d] = md[d]
<1>1. md \in [Conn -> MdType]
  BY DEF DInv, Inv, TypeOK
<1>2. \E pc, x : op' = [op EXCEPT ![c].pc = pc, ![c].end = x]
  BY Zenon DEF Created
<1>3. \E x, y, z : md' = [md EXCEPT ![c].cache = x, ![c].dst = y, ![c].named = z]
  BY Zenon DEF Created
<1> QED
  BY <1>1, <1>2, <1>3, EndTo DEF MdType

LEMMA FaultCounts == ASSUME DInv, Fault PROVE faults' # faults
BY ConstantsOK DEF Fault, DInv, Inv, TypeOK, ConstantsOK

-----------------------------------------------------------------------------
(* The steps of a handler *)

LEMMA StartTracks ==
  ASSUME DInv, NEW c \in Conn, Select(c) \/ Refresh(c)
  PROVE  Tracks(c) /\ OnlyC(c)
<1>1. PICK e, n, bare : Start(c, e, n, bare)
  BY DEF Select, Refresh
<1>2. /\ op'[c].pc = "call" /\ md'[c].dial = md[c].dial /\ UNCHANGED sess
      /\ \A d \in Conn \ {c} : op'[d] = op[d] /\ md'[d] = md[d]
  BY <1>1 DEF Start, Idle, DInv, Inv, TypeOK, OpType, MdType
<1> QED
  BY <1>2, QuietStep DEF Answered, Reached, OnlyC

LEMMA CloseTracks ==
  ASSUME DInv, NEW c \in Conn, Close(c)
  PROVE  Tracks(c) /\ OnlyC(c)
<1>1. op[c].pc = "idle" /\ UNCHANGED sess
  BY DEF Close, Free
<1>2. CASE CallClose(c, SrcCls[c], "end") /\ UNCHANGED md
  <2>1. Goes(c, "close", "end")
    BY <1>2, CallCloseGoes
  <2> QED
    BY <1>1, <1>2, <2>1, QuietStep DEF Goes, Answered, Reached, OnlyC
<1>3. CASE /\ UNCHANGED op
           /\ md' \in {md, [md EXCEPT ![c] = NoMd]}
  <2>1. /\ md'[c] \in {md[c], NoMd}
        /\ \A d \in Conn \ {c} : md'[d] = md[d]
    BY <1>3 DEF DInv, Inv, TypeOK
  <2>2. CASE md'[c] = NoMd
    BY <1>1, <1>3, <2>1, <2>2
       DEF Tracks, SessionStep, NoMd, Answered, Reached, OnlyC
  <2>3. CASE md'[c] = md[c]
    BY <1>1, <1>3, <2>1, <2>3, QuietStep DEF Answered, Reached, OnlyC
  <2> QED
    BY <2>1, <2>2, <2>3
<1> QED
  BY <1>2, <1>3 DEF Close

\* What SetDial leaves
LEMMA DialSet ==
  ASSUME DInv, NEW c \in Conn, NEW e, NEW named, SetDial(c, e, named)
  PROVE  md'[c].dial = e /\ \A d \in Conn \ {c} : md'[d] = md[d]
BY DEF DInv, Inv, TypeOK, MdType, SetDial

LEMMA SwitchPeerTracks ==
  ASSUME DInv, NEW c \in Conn, SwitchPeer(c)
  PROVE  Tracks(c) /\ OnlyC(c)
<1>1. /\ op[c].pc = "call" /\ md[c].dial # Null
      /\ \E named : SetDial(c, Null, named)
  BY DEF SwitchPeer, Switching
<1>2. md'[c].dial = Null /\ \A d \in Conn \ {c} : md'[d] = md[d]
  BY <1>1, DialSet
<1>3. /\ ~Answered(c)'
      /\ \A d \in Conn \ {c} : op'[d] = op[d]
  <2>1. CASE UNCHANGED op
    BY <1>1, <2>1 DEF Answered, Reached
  <2>2. CASE Refused(c)
    BY <2>2, CallCloseGoes DEF Refused, Goes, Answered, Reached
  <2> QED
    BY <2>1, <2>2 DEF SwitchPeer
<1>4. sess \in [Conn -> SUBSET Node]
  BY DEF DInv, Inv, TypeOK
<1>5. CASE sess' = [sess EXCEPT ![c] = @ \ {Url[md[c].dial]}]
  <2>1. /\ sess'[c] = sess[c] \ {Url[md[c].dial]}
        /\ \A d \in Conn \ {c} : sess'[d] = sess[d]
    BY <1>4, <1>5
  <2> QED
    BY <1>1, <1>2, <1>3, <2>1 DEF Tracks, SessionStep, Forgotten, OnlyC
<1>6. CASE Fault /\ UNCHANGED sess
  BY <1>2, <1>3, <1>6, FaultCounts DEF Tracks, SessionStep, OnlyC
<1> QED
  BY <1>5, <1>6 DEF SwitchPeer

LEMMA AcceptTracks ==
  ASSUME DInv, NEW c \in Conn, Accept(c)
  PROVE  Tracks(c) /\ OnlyC(c)
<1>1. /\ md[c].dial = Null \/ Url[md[c].dial] = Url[op[c].cur]
      /\ op[c].pc = "call" /\ op[c].cur # Null
  BY ConstantsOK DEF Accept, Switching, DInv, Inv, AtHand, Working, ConstantsOK
<1>2. md'[c].dial = op[c].cur /\ \A d \in Conn \ {c} : md'[d] = md[d]
  BY DialSet DEF Accept
<1>3. Goes(c, "check", op[c].after)
  BY EndTo DEF Accept
<1>4. /\ sess'[c] = sess[c] \cup {Url[op[c].cur]}
      /\ \A d \in Conn \ {c} : sess'[d] = sess[d]
  BY DEF Accept, DInv, Inv, TypeOK
<1>5. SessionStep(c)
  BY <1>1, <1>2, <1>4 DEF SessionStep, Forgotten
<1> QED
  BY <1>2, <1>3, <1>4, <1>5 DEF Tracks, OnlyC, Goes

LEMMA RefuseTracks ==
  ASSUME DInv, NEW c \in Conn, Refuse(c)
  PROVE  Tracks(c) /\ OnlyC(c)
<1>1. /\ md[c].dial = Null \/ Url[md[c].dial] = Url[op[c].cur]
      /\ op[c].cur # Null
  BY ConstantsOK DEF Refuse, Switching, DInv, Inv, AtHand, Working, ConstantsOK
<1>2. Goes(c, "close", "failed")
  BY CallCloseGoes DEF Refuse, Refused
<1>3. ~Answered(c)' /\ \A d \in Conn \ {c} : op'[d] = op[d]
  BY <1>2 DEF Goes, Answered, Reached
<1>4. \A d \in Conn \ {c} : md'[d] = md[d] /\ sess'[d] = sess[d]
  BY DialSet DEF Refuse, DInv, Inv, TypeOK
<1>5. CASE UNCHANGED sess /\ SetDial(c, op[c].cur, SentName(md[c].named))
  <2>1. md'[c].dial = op[c].cur
    BY <1>5, DialSet
  <2> QED
    BY <1>1, <1>3, <1>4, <1>5, <2>1 DEF Tracks, SessionStep, Forgotten, OnlyC
<1>6. CASE Fault
  BY <1>3, <1>4, <1>6, FaultCounts DEF Tracks, SessionStep, OnlyC
<1> QED
  BY <1>5, <1>6 DEF Refuse

LEMMA CreateTracks ==
  ASSUME DInv, NEW c \in Conn, Check(c) \/ Add(c) \/ Move(c) \/ Rename(c)
  PROVE  Tracks(c) /\ OnlyC(c)
<1>1. op[c].pc \in Reached /\ UNCHANGED sess
  BY DEF Check, Add, Move, Rename, Reached
<1>2. CASE \E cache : Created(c, cache)
  BY <1>1, <1>2, CreatedGoes, ReachedStep
<1>3. CASE UNCHANGED md /\ (CreateFailed(c) \/ \E pc : Goto(c, pc))
  BY <1>1, <1>3, CreateFailedGoes, GotoTo, ReachedStep
<1> QED
  BY <1>2, <1>3 DEF Check, Add, Move, Rename

LEMMA ContextTracks ==
  ASSUME DInv, NEW c \in Conn, Configure(c) \/ Apply(c)
  PROVE  Tracks(c) /\ OnlyC(c)
<1>1. op[c].pc \in Reached /\ UNCHANGED sess
  BY DEF Configure, Apply, Reached
<1>2. (\E pc : Goto(c, pc)) \/ \E arg, after : CallClose(c, arg, after)
  BY DEF Configure, Apply
<1>3. \E pc, after : Goes(c, pc, after)
  BY <1>2, GotoTo, CallCloseGoes
<1>4. \/ UNCHANGED md
      \/ \E x, y : md' = [md EXCEPT ![c].dst = x, ![c].named = y]
  BY DEF Configure, Apply
<1>5. md'[c].dial = md[c].dial /\ \A d \in Conn \ {c} : md'[d] = md[d]
  BY <1>4 DEF DInv, Inv, TypeOK, MdType
<1> QED
  BY <1>1, <1>3, <1>5, ReachedStep

\* The request ends, or goes on with the next candidate
LEMMA EndTracks ==
  ASSUME DInv, NEW c \in Conn, Return(c) \/ LateError(c) \/ Failed(c)
  PROVE  Tracks(c) /\ OnlyC(c)
<1>1. UNCHANGED sess
  BY DEF Return, LateError, Failed
<1>2. ASSUME op'[c].pc \in {"idle", "call"}, md'[c] \in {md[c], NoMd},
             \A d \in Conn \ {c} : op'[d] = op[d] /\ md'[d] = md[d]
      PROVE  Tracks(c) /\ OnlyC(c)
  <2>1. ~Answered(c)'
    BY <1>2 DEF Answered, Reached
  <2>2. SessionStep(c)
    BY <1>1, <1>2, SameForgotten DEF SessionStep, NoMd
  <2> QED
    BY <1>1, <1>2, <2>1, <2>2 DEF Tracks, OnlyC
<1>3. op \in [Conn -> OpType] /\ md \in [Conn -> MdType]
  BY DEF DInv, Inv, TypeOK
<1>4. CASE Return(c)
  BY <1>2, <1>3, <1>4 DEF Return, Idle
<1>5. CASE GiveUp(c)
  BY <1>2, <1>3, <1>5 DEF GiveUp, Idle
<1>6. CASE Failed(c) /\ ~GiveUp(c)
  BY <1>2, <1>3, <1>6 DEF Failed, Idle
<1> QED
  BY <1>4, <1>5, <1>6 DEF LateError

LEMMA CleanupTracks ==
  ASSUME DInv, NEW c \in Conn, Unstore(c) \/ Delete(c)
  PROVE  Tracks(c) /\ OnlyC(c)
<1>1. op \in [Conn -> OpType] /\ md \in [Conn -> MdType]
  BY DEF DInv, Inv, TypeOK
<1>2. UNCHANGED sess /\ op[c].pc \in {"close", "delete"}
  BY DEF Unstore, Delete
<1>3. md'[c].dial = md[c].dial /\ \A d \in Conn \ {c} : md'[d] = md[d]
  BY <1>1 DEF Unstore, Delete, RemoveLink, MdType
<1>4. \E pc \in {Below(c), "delete"} : Goes(c, pc, op[c].after)
  <2>1. CASE Unstore(c)
    BY <1>1, <2>1 DEF Unstore, OpType, Goes
  <2>2. CASE Delete(c) /\ Goto(c, Below(c))
    BY <2>2, GotoTo
  <2>3. CASE Delete(c) /\ op' = [op EXCEPT ![c].end = "dst"]
    BY <1>1, <2>3 DEF Delete, OpType, Goes
  <2> QED
    BY <2>1, <2>2, <2>3 DEF Delete
<1>5. Answered(c)' => Answered(c)
  BY <1>1, <1>2, <1>4 DEF Goes, Below, Answered, Reached, OpType
<1> QED
  BY <1>2, <1>3, <1>4, <1>5, QuietStep DEF Goes, OnlyC

LEMMA DisconnectTracks ==
  ASSUME DInv, NEW c \in Conn, Disconnect(c)
  PROVE  Tracks(c) /\ OnlyC(c)
<1>1. /\ op \in [Conn -> OpType] /\ md \in [Conn -> MdType]
      /\ sess \in [Conn -> SUBSET Node]
  BY DEF DInv, Inv, TypeOK
<1>2. \A d \in Conn \ {c} : sess'[d] = sess[d]
  BY <1>1 DEF Disconnect
<1>3. CASE op[c].after = "end"
  <2>1. /\ md'[c] = NoMd /\ op'[c] = Idle
        /\ \A d \in Conn \ {c} : md'[d] = md[d] /\ op'[d] = op[d]
    BY <1>1, <1>3 DEF Disconnect
  <2> QED
    BY <1>2, <2>1
       DEF Tracks, SessionStep, NoMd, Idle, Answered, Reached, OnlyC
<1>4. CASE op[c].after # "end"
  <2>1. md[c].dial = op[c].cur
    BY <1>4 DEF Disconnect, DInv, Dialled, Answered
  <2>2. SetDial(c, Null, md[c].named) /\ Goto(c, "failed")
    BY <1>4 DEF Disconnect
  <2>3. md'[c].dial = Null /\ \A d \in Conn \ {c} : md'[d] = md[d]
    BY <2>2, DialSet
  <2>4. ~Answered(c)' /\ \A d \in Conn \ {c} : op'[d] = op[d]
    BY <2>2, GotoTo DEF Goes, Answered, Reached
  <2>5. SessionStep(c)
    <3>1. CASE Fault
      BY <3>1, FaultCounts DEF SessionStep
    <3>2. CASE ~Fault
      <4>1. sess'[c] = IF md[c].dial # Null THEN sess[c] \ {Url[op[c].cur]}
                                            ELSE sess[c]
        BY <1>1, <1>4, <3>2 DEF Disconnect
      <4> QED
        BY <2>1, <2>3, <4>1 DEF SessionStep, Forgotten
    <3> QED
      BY <3>1, <3>2
  <2> QED
    BY <1>2, <2>3, <2>4, <2>5 DEF Tracks, OnlyC
<1> QED
  BY <1>3, <1>4

-----------------------------------------------------------------------------
(* The process and the node, and the theorem *)

LEMMA CrashTracks ==
  ASSUME Crash
  PROVE  Dialled' /\ \A c \in Conn : SessionStep(c)
BY DEF Crash, Idle, NoMd, Dialled, Answered, Reached, SessionStep

LEMMA LoseLinkTracks ==
  ASSUME DInv, LoseLink
  PROVE  Dialled' /\ \A c \in Conn : SessionStep(c)
<1>1. PICK l \in links :
        op' = [op EXCEPT ![l.owner].lost = op[l.owner].pc # "idle"]
  BY DEF LoseLink
<1>2. \A c \in Conn : /\ op'[c].pc = op[c].pc /\ op'[c].after = op[c].after
                      /\ op'[c].cur = op[c].cur
  BY <1>1 DEF DInv, Inv, TypeOK, OpType
<1> QED
  BY <1>2, SameForgotten DEF LoseLink, DInv, Dialled, Answered

LEMMA NextTracks ==
  ASSUME DInv, [Next]_vars
  PROVE  Dialled' /\ \A c \in Conn : SessionStep(c)
<1>1. ASSUME NEW c \in Conn, Panic(c) \/ Restart
      PROVE  Dialled' /\ \A d \in Conn : SessionStep(d)
  BY <1>1, CrashTracks DEF Panic, Restart
<1>2. ASSUME NEW c \in Conn,
             Select(c) \/ Refresh(c) \/ Close(c) \/ (Handler(c) /\ ~Panic(c))
      PROVE  Tracks(c) /\ OnlyC(c)
  BY <1>2, StartTracks, CloseTracks, SwitchPeerTracks, AcceptTracks,
     RefuseTracks, CreateTracks, ContextTracks, EndTracks, CleanupTracks,
     DisconnectTracks DEF Handler
<1>3. CASE UNCHANGED vars
  BY <1>3, SameForgotten DEF vars, DInv, Dialled, Answered
<1>4. CASE Restart
  BY <1>4, CrashTracks DEF Restart
<1> QED
  BY <1>1, <1>2, <1>3, <1>4, OthersTrack, LoseLinkTracks DEF Next

\* dial's Request and Close, for any number of connections, endpoints and
\* nodes: while a connection has its metadata, the dialer knows every session
\* that was opened for it, unless a dial or a Close has failed.
THEOREM SessionsTheorem == Spec => SessionsKnown
<1>1. Init => DInv
  <2>1. Init => Dialled
    BY DEF Init, Idle, Dialled, Answered, Reached
  <2> QED
    BY <2>1, InitInv DEF DInv
<1>2. DInv /\ [Next]_vars => DInv'
  BY NextInv, NextTracks DEF DInv
<1>3. DInv /\ [Next]_vars
      => [\A c \in Conn :
            md'[c].made /\ faults' = faults
              => Forgotten(c)' \subseteq Forgotten(c)]_vars
  BY NextTracks DEF SessionStep
<1> QED
  BY <1>1, <1>2, <1>3, PTL DEF Spec, SessionsKnown

-----------------------------------------------------------------------------
(* How far a call is from its end *)

\* The part of Ahead that the attempt at hand has
Rank(pc, end, switching) ==
  StageOf[pc]
    + (IF pc = "call" THEN (IF switching THEN 1 ELSE 0)
       ELSE IF end # "src" THEN 0
       ELSE IF pc \in {"check", "add", "move", "rename"} THEN 4
       ELSE IF pc = "delete" THEN 1 ELSE 0)

LEMMA Ranks ==
  ASSUME NEW end \in Ends, NEW s \in BOOLEAN
  PROVE  /\ Rank("idle", end, s) = 0
         /\ Rank("failed", end, s) = 1
         /\ Rank("disconnect", end, s) = 2
         /\ Rank("delete", end, s) = IF end = "src" THEN 4 ELSE 3
         /\ Rank("close", end, s) = 5
         /\ Rank("return", end, s) = 6
         /\ Rank("apply", end, s) = 7
         /\ Rank("configure", end, s) = 8
         /\ Rank("rename", end, s) = IF end = "src" THEN 13 ELSE 9
         /\ Rank("move", end, s) = IF end = "src" THEN 14 ELSE 10
         /\ Rank("add", end, s) = IF end = "src" THEN 15 ELSE 11
         /\ Rank("check", end, s) = IF end = "src" THEN 16 ELSE 12
         /\ Rank("call", end, s) = IF s THEN 18 ELSE 17
BY DEF Rank, StageOf, Ends

LEMMA RankBounds ==
  ASSUME NEW pc \in PCs, NEW end \in Ends, NEW s \in BOOLEAN
  PROVE  Rank(pc, end, s) \in 0..18
BY Ranks DEF PCs

LEMMA AheadIs ==
  ASSUME Inv, Inv', NEW c \in Conn
  PROVE  /\ Ahead(c) = 18 * op[c].tries
                         + Rank(op[c].pc, op[c].end, Switching(c))
         /\ Ahead(c)' = 18 * op'[c].tries
                          + Rank(op'[c].pc, op'[c].end, Switching(c)')
         /\ Switching(c) \in BOOLEAN /\ Switching(c)' \in BOOLEAN
<1>1. ASSUME NEW t \in Nat, NEW pc \in PCs, NEW end, NEW s \in BOOLEAN
      PROVE  18 * t + Rank(pc, end, s)
               = 18 * t + StageOf[pc]
                   + (IF pc = "call" THEN (IF s THEN 1 ELSE 0)
                      ELSE IF end # "src" THEN 0
                      ELSE IF pc \in {"check", "add", "move", "rename"} THEN 4
                      ELSE IF pc = "delete" THEN 1 ELSE 0)
  BY <1>1 DEF Rank, StageOf, PCs
<1>2. /\ op[c].tries \in Nat /\ op[c].pc \in PCs
      /\ op'[c].tries \in Nat /\ op'[c].pc \in PCs
  BY DEF Inv, TypeOK, OpType
<1>3. Switching(c) \in BOOLEAN /\ Switching(c)' \in BOOLEAN
  BY DEF Switching
<1>4. Ahead(c) = 18 * op[c].tries + Rank(op[c].pc, op[c].end, Switching(c))
  BY <1>1, <1>2, <1>3 DEF Ahead, Extra
<1>5. Ahead(c)' = 18 * op'[c].tries + Rank(op'[c].pc, op'[c].end, Switching(c)')
  BY <1>1, <1>2, <1>3 DEF Ahead, Extra
<1> QED
  BY <1>3, <1>4, <1>5

\* The handler of c goes on at pc, in the same attempt
Stays(c, pc, end) ==
  /\ op'[c].pc = pc /\ op'[c].end = end /\ op'[c].tries = op[c].tries

\* In its attempt the call gets nearer to its end
LEMMA Nearer ==
  ASSUME Inv, Inv', NEW c \in Conn, NEW pc \in PCs, NEW end \in Ends,
         Stays(c, pc, end),
         Rank(pc, end, Switching(c)') < Rank(op[c].pc, op[c].end, Switching(c))
  PROVE  Ahead(c)' < Ahead(c)
<1>1. op[c].pc \in PCs /\ op[c].end \in Ends /\ op[c].tries \in Nat
  BY DEF Inv, TypeOK, OpType
<1>2. /\ Rank(op[c].pc, op[c].end, Switching(c)) \in 0..18
      /\ Rank(pc, end, Switching(c)') \in 0..18
  BY <1>1, AheadIs, RankBounds
<1> QED
  BY <1>1, <1>2, AheadIs DEF Stays

LEMMA GotoStays ==
  ASSUME Inv, NEW c \in Conn, NEW pc, Goto(c, pc)
  PROVE  Stays(c, pc, op[c].end)
BY DEF Inv, TypeOK, OpType, Goto, Stays

LEMMA EndStays ==
  ASSUME Inv, NEW c \in Conn, NEW pc, NEW x,
         op' = [op EXCEPT ![c].pc = pc, ![c].end = x]
  PROVE  Stays(c, pc, x)
BY DEF Inv, TypeOK, OpType, Stays

LEMMA CallCloseStays ==
  ASSUME Inv, NEW c \in Conn, NEW arg, NEW after, CallClose(c, arg, after)
  PROVE  Stays(c, "close", op[c].end)
BY DEF Inv, TypeOK, OpType, CallClose, Stays

LEMMA CreateFailedStays ==
  ASSUME Inv, NEW c \in Conn, CreateFailed(c)
  PROVE  Stays(c, "failed", op[c].end) \/ Stays(c, "close", op[c].end)
BY GotoStays, CallCloseStays DEF CreateFailed

\* A handler that has returned is at the end
LEMMA EndedNearer ==
  ASSUME Inv, Inv', NEW c \in Conn, op[c].pc # "idle", op'[c] = Idle
  PROVE  Ahead(c)' < Ahead(c)
<1>1. op[c].pc \in PCs /\ op[c].end \in Ends /\ op[c].tries \in Nat
  BY DEF Inv, TypeOK, OpType
<1>2. Rank(op[c].pc, op[c].end, Switching(c)) \in 1..18
  BY <1>1, AheadIs, Ranks DEF PCs
<1>3. op'[c].pc = "idle" /\ op'[c].end = "src" /\ op'[c].tries = 0
  BY DEF Idle
<1> QED
  BY <1>1, <1>2, <1>3, AheadIs, Ranks DEF Ends


-----------------------------------------------------------------------------
(* Every step of a handler *)

\* The ranks from which a step goes to a smaller one, whoever is dialled
LEMMA RankFalls ==
  ASSUME NEW end \in Ends, NEW s \in BOOLEAN, NEW t \in BOOLEAN
  PROVE  /\ \A pc \in {"check", "add", "move", "rename", "configure", "apply"} :
              /\ Rank("failed", end, t) < Rank(pc, end, s)
              /\ Rank("close", end, t) < Rank(pc, end, s)
         /\ \A pc \in {"check", "rename"} :
              /\ Rank("configure", end, t) < Rank(pc, end, s)
              /\ Rank("apply", end, t) < Rank(pc, end, s)
              /\ end = "src" => Rank("check", "dst", t) < Rank(pc, end, s)
              /\ Rank("configure", "dst", t) < Rank(pc, end, s)
         /\ Rank("add", end, t) < Rank("check", end, s)
         /\ Rank("move", end, t) < Rank("check", end, s)
         /\ Rank("move", end, t) < Rank("add", end, s)
         /\ Rank("rename", end, t) < Rank("move", end, s)
         /\ Rank("apply", end, t) < Rank("configure", end, s)
         /\ Rank("return", end, t) < Rank("configure", end, s)
         /\ Rank("return", end, t) < Rank("apply", end, s)
BY Ranks DEF Ends

LEMMA CallNearer ==
  ASSUME Inv, Inv', NEW c \in Conn, SwitchPeer(c) \/ Accept(c) \/ Refuse(c)
  PROVE  Ahead(c)' < Ahead(c)
<1>1. op[c].pc = "call" /\ op[c].end \in Ends /\ FirstEnd(c) \in Ends
  BY DEF SwitchPeer, Accept, Refuse, FirstEnd, Ends, Inv, TypeOK, OpType
<1>2. Rank("call", op[c].end, Switching(c)) \in {17, 18}
  BY <1>1, AheadIs, Ranks
<1>3. CASE Refused(c)
  <2>1. Stays(c, "close", op[c].end)
    BY <1>3, CallCloseStays DEF Refused
  <2>2. Rank("close", op[c].end, Switching(c)') = 5
    BY <1>1, AheadIs, Ranks
  <2> QED
    BY <1>1, <1>2, <2>1, <2>2, Nearer DEF PCs
<1>4. CASE Accept(c)
  <2>1. Stays(c, "check", FirstEnd(c))
    BY <1>4, EndStays DEF Accept
  <2>2. Rank("check", FirstEnd(c), Switching(c)') \in {12, 16}
    BY <1>1, AheadIs, Ranks
  <2> QED
    BY <1>1, <1>2, <2>1, <2>2, Nearer DEF PCs
<1>5. CASE SwitchPeer(c) /\ UNCHANGED op
  <2>1. Switching(c) /\ \E n : SetDial(c, Null, n)
    BY <1>5 DEF SwitchPeer
  <2>2. md'[c].dial = Null
    BY <2>1 DEF SetDial, Inv, TypeOK, MdType
  <2>3. ~Switching(c)'
    BY <2>2 DEF Switching
  <2>4. Stays(c, "call", op[c].end)
    BY <1>1, <1>5 DEF Stays
  <2>5. /\ Rank("call", op[c].end, TRUE) = 18
        /\ Rank("call", op[c].end, FALSE) = 17
    BY <1>1, Ranks
  <2>6. /\ Rank("call", op[c].end, Switching(c)) = 18
        /\ Rank("call", op[c].end, Switching(c)') = 17
    BY <2>1, <2>3, <2>5, AheadIs
  <2> QED
    BY <1>1, <2>4, <2>6, Nearer DEF PCs
<1> QED
  BY <1>3, <1>4, <1>5 DEF SwitchPeer, Refuse

\* The error return of an element below xconnect, and the success of one
LEMMA FailNearer ==
  ASSUME Inv, Inv', NEW c \in Conn,
         op[c].pc \in {"check", "add", "move", "rename", "configure", "apply"},
         \/ CreateFailed(c) \/ Goto(c, "failed")
         \/ \E arg, after : CallClose(c, arg, after)
  PROVE  Ahead(c)' < Ahead(c)
<1>1. Stays(c, "failed", op[c].end) \/ Stays(c, "close", op[c].end)
  BY CreateFailedStays, GotoStays, CallCloseStays
<1>2. op[c].end \in Ends
  BY DEF Inv, TypeOK, OpType
<1> QED
  BY <1>1, <1>2, AheadIs, RankFalls, Nearer DEF PCs

LEMMA CreatedNearer ==
  ASSUME Inv, Inv', NEW c \in Conn, NEW cache, Created(c, cache),
         op[c].pc \in {"check", "rename"}
  PROVE  Ahead(c)' < Ahead(c)
<1> DEFINE veth == IsLocal(c, op[c].cur)
           pc == IF veth /\ op[c].end = "src" THEN "check"
                 ELSE IF ~veth /\ Outgoing(c) THEN "apply" ELSE "configure"
           end == IF veth THEN "dst" ELSE op[c].end
<1>1. op' = [op EXCEPT ![c].pc = pc, ![c].end = end]
  BY Zenon DEF Created
<1>2. Stays(c, pc, end)
  <2> HIDE DEF pc, end
  <2> QED
    BY <1>1, EndStays
<1>3. op[c].end \in Ends
  BY DEF Inv, TypeOK, OpType
<1>4. end \in Ends /\ pc \in PCs
  BY <1>3 DEF Ends, PCs
<1>5. Rank(pc, end, Switching(c)') < Rank(op[c].pc, op[c].end, Switching(c))
  BY <1>3, AheadIs, RankFalls
<1> HIDE DEF pc, end
<1> QED
  BY <1>2, <1>4, <1>5, Nearer

LEMMA GotoNearer ==
  ASSUME Inv, Inv', NEW c \in Conn, NEW pc \in PCs, Goto(c, pc),
         \/ op[c].pc = "check" /\ pc \in {"add", "move"}
         \/ op[c].pc = "add" /\ pc = "move"
         \/ op[c].pc = "move" /\ pc = "rename"
         \/ op[c].pc = "configure" /\ pc \in {"apply", "return"}
         \/ op[c].pc = "apply" /\ pc = "return"
  PROVE  Ahead(c)' < Ahead(c)
<1>1. op[c].end \in Ends
  BY DEF Inv, TypeOK, OpType
<1>2. Rank(pc, op[c].end, Switching(c)') < Rank(op[c].pc, op[c].end, Switching(c))
  BY <1>1, AheadIs, RankFalls
<1> QED
  BY <1>1, <1>2, GotoStays, Nearer

LEMMA AttemptNearer ==
  ASSUME Inv, Inv', NEW c \in Conn,
         \/ Check(c) \/ Add(c) \/ Move(c) \/ Rename(c)
         \/ Configure(c) \/ Apply(c)
  PROVE  Ahead(c)' < Ahead(c)
<1>1. op[c].pc \in {"check", "add", "move", "rename", "configure", "apply"}
  BY DEF Check, Add, Move, Rename, Configure, Apply
<1>2. CASE \/ CreateFailed(c) \/ Goto(c, "failed")
           \/ \E arg, after : CallClose(c, arg, after)
  BY <1>1, <1>2, FailNearer
<1>3. CASE op[c].pc \in {"check", "rename"} /\ \E cache : Created(c, cache)
  BY <1>3, CreatedNearer
<1>4. CASE \/ op[c].pc = "check" /\ (Goto(c, "add") \/ Goto(c, "move"))
           \/ op[c].pc = "add" /\ Goto(c, "move")
           \/ op[c].pc = "move" /\ Goto(c, "rename")
           \/ op[c].pc = "configure" /\ (Goto(c, "apply") \/ Goto(c, "return"))
           \/ op[c].pc = "apply" /\ Goto(c, "return")
  BY <1>4, GotoNearer DEF PCs
<1> QED
  BY <1>2, <1>3, <1>4 DEF Check, Add, Move, Rename, Configure, Apply

\* The next candidate has one attempt less before it
LEMMA FailedNearer ==
  ASSUME Inv, Inv', NEW c \in Conn, Failed(c)
  PROVE  Ahead(c)' < Ahead(c)
<1>1. op[c].pc = "failed" /\ op[c].end \in Ends /\ op[c].tries \in Nat
  BY DEF Failed, Inv, TypeOK, OpType
<1>2. CASE GiveUp(c)
  <2>1. op'[c] = Idle
    BY <1>2 DEF GiveUp, Inv, TypeOK
  <2> QED
    BY <1>1, <2>1, EndedNearer
<1>3. CASE ~GiveUp(c)
  <2>1. op[c].tries > 0
    BY <1>3 DEF Failed
  <2>2. PICK e : op' = [op EXCEPT ![c] =
                   [Idle EXCEPT !.pc = "call", !.cur = e, !.bare = op[c].bare,
                                !.fresh = op[c].fresh,
                                !.tries = FewerTries(c)]]
    BY <1>3 DEF Failed
  <2>3. /\ op'[c].pc = "call" /\ op'[c].end = "src"
        /\ op'[c].tries = op[c].tries - 1
    BY <2>2 DEF Inv, TypeOK, Idle, FewerTries
  <2>4. Rank("call", "src", Switching(c)') \in {17, 18}
    BY AheadIs, Ranks DEF Ends
  <2>5. Rank("failed", op[c].end, Switching(c)) = 1
    BY <1>1, AheadIs, Ranks
  <2> QED
    BY <1>1, <2>1, <2>3, <2>4, <2>5, AheadIs
<1> QED
  BY <1>2, <1>3

LEMMA CleanupNearer ==
  ASSUME Inv, Inv', NEW c \in Conn, Unstore(c) \/ Delete(c)
  PROVE  Ahead(c)' < Ahead(c)
<1>1. op \in [Conn -> OpType]
  BY DEF Inv, TypeOK
<1>2. op[c].end \in Ends /\ Below(c) \in {"failed", "disconnect"}
  BY <1>1 DEF OpType, Below
<1>3. CASE Unstore(c)
  <2>1. PICK pc \in {"failed", "disconnect", "delete"}, end \in Ends :
          Stays(c, pc, end)
    BY <1>1, <1>2, <1>3 DEF Unstore, OpType, Stays, Ends
  <2>2. Rank(pc, end, Switching(c)') < 5
    BY <2>1, AheadIs, Ranks
  <2>3. op[c].pc = "close" /\ Rank("close", op[c].end, Switching(c)) = 5
    BY <1>2, <1>3, AheadIs, Ranks DEF Unstore
  <2> QED
    BY <2>1, <2>2, <2>3, Nearer DEF PCs
<1>4. CASE Delete(c)
  <2>1. op[c].pc = "delete"
    BY <1>4 DEF Delete
  <2>2. CASE Goto(c, Below(c))
    <3>1. Stays(c, Below(c), op[c].end)
      BY <2>2, GotoStays
    <3>2. Rank(Below(c), op[c].end, Switching(c)')
            < Rank("delete", op[c].end, Switching(c))
      BY <1>2, AheadIs, Ranks
    <3> QED
      BY <1>2, <2>1, <3>1, <3>2, Nearer DEF PCs
  <2>3. CASE op[c].end = "src" /\ op' = [op EXCEPT ![c].end = "dst"]
    <3>1. Stays(c, "delete", "dst")
      BY <1>1, <2>1, <2>3 DEF OpType, Stays
    <3>2. /\ Rank("delete", "dst", Switching(c)') = 3
          /\ Rank("delete", "src", Switching(c)) = 4
      BY AheadIs, Ranks DEF Ends
    <3> QED
      BY <2>1, <2>3, <3>1, <3>2, Nearer DEF PCs, Ends
  <2> QED
    BY <1>4, <2>2, <2>3 DEF Delete
<1> QED
  BY <1>3, <1>4

LEMMA LastNearer ==
  ASSUME Inv, Inv', NEW c \in Conn,
         Return(c) \/ LateError(c) \/ Disconnect(c) \/ Panic(c)
  PROVE  Ahead(c)' < Ahead(c)
<1>1. op[c].pc # "idle"
  BY DEF Return, LateError, Disconnect, Panic
<1>2. CASE op'[c] = Idle
  BY <1>1, <1>2, EndedNearer
<1>3. CASE Disconnect(c) /\ Goto(c, "failed")
  <2>1. op[c].pc = "disconnect" /\ op[c].end \in Ends
    BY <1>3 DEF Disconnect, Inv, TypeOK, OpType
  <2>2. /\ Rank("failed", op[c].end, Switching(c)') = 1
        /\ Rank("disconnect", op[c].end, Switching(c)) = 2
    BY <2>1, AheadIs, Ranks
  <2> QED
    BY <1>3, <2>1, <2>2, GotoStays, Nearer DEF PCs
<1> QED
  BY <1>2, <1>3
     DEF Return, LateError, GiveUp, Disconnect, Panic, Crash, Inv, TypeOK


LEMMA HandlerNearer ==
  ASSUME Inv, Inv', NEW c \in Conn, Handler(c)
  PROVE  Ahead(c)' < Ahead(c)
BY CallNearer, AttemptNearer, FailedNearer, CleanupNearer, LastNearer DEF Handler

\* ... which is a number
LEMMA AheadTyped ==
  ASSUME Inv, Inv', NEW c \in Conn
  PROVE  Ahead(c) \in Nat /\ Ahead(c)' \in Nat
<1>1. /\ op[c].pc \in PCs /\ op[c].end \in Ends /\ op[c].tries \in Nat
      /\ op'[c].pc \in PCs /\ op'[c].end \in Ends /\ op'[c].tries \in Nat
  BY DEF Inv, TypeOK, OpType
<1>2. /\ Rank(op[c].pc, op[c].end, Switching(c)) \in 0..18
      /\ Rank(op'[c].pc, op'[c].end, Switching(c)') \in 0..18
  BY <1>1, AheadIs, RankBounds
<1> QED
  BY <1>1, <1>2, AheadIs

LEMMA SameAhead ==
  ASSUME Inv, Inv', NEW c \in Conn, Switching(c)' = Switching(c),
         op'[c].pc = op[c].pc, op'[c].end = op[c].end, op'[c].tries = op[c].tries
  PROVE  Ahead(c)' <= Ahead(c)
<1>1. Ahead(c)' = Ahead(c)
  BY AheadIs
<1> QED
  BY <1>1, AheadTyped

LEMMA CrashAhead ==
  ASSUME Inv, Inv', Crash, NEW c \in Conn, op[c].pc # "idle"
  PROVE  Ahead(c)' <= Ahead(c)
<1>1. op'[c] = Idle
  BY DEF Crash
<1>2. Ahead(c)' < Ahead(c)
  BY <1>1, EndedNearer
<1> QED
  BY <1>2, AheadTyped

\* What another connection, or the node, does keeps a call where it is, or
\* ends it
LEMMA NextAhead ==
  ASSUME DInv, [Next]_vars, NEW d \in Conn, op[d].pc # "idle"
  PROVE  Ahead(d)' <= Ahead(d)
<1>1. Inv /\ Inv'
  BY NextInv DEF DInv
<1>2. ASSUME NEW c \in Conn,
             Select(c) \/ Refresh(c) \/ Close(c) \/ (Handler(c) /\ ~Panic(c)),
             c # d
      PROVE  Ahead(d)' <= Ahead(d)
  <2>1. OnlyC(c)
    BY <1>2, StartTracks, CloseTracks, SwitchPeerTracks, AcceptTracks,
       RefuseTracks, CreateTracks, ContextTracks, EndTracks, CleanupTracks,
       DisconnectTracks DEF Handler
  <2>2. op'[d] = op[d] /\ md'[d] = md[d]
    BY <1>2, <2>1 DEF OnlyC
  <2> QED
    BY <1>1, <2>2, SameAhead DEF Switching
<1>3. ASSUME NEW c \in Conn, Panic(c) \/ Restart
      PROVE  Ahead(d)' <= Ahead(d)
  BY <1>1, <1>3, CrashAhead DEF Panic, Restart
<1>4. CASE Restart
  BY <1>1, <1>4, CrashAhead DEF Restart
<1>5. CASE Handler(d)
  <2>1. Ahead(d)' < Ahead(d)
    BY <1>1, <1>5, HandlerNearer
  <2>2. Ahead(d) \in Nat /\ Ahead(d)' \in Nat
    BY <1>1, AheadTyped
  <2> QED
    BY <2>1, <2>2
<1>6. CASE Select(d) \/ Refresh(d) \/ Close(d)
  BY <1>6 DEF Select, Refresh, Close, Start, Free
<1>7. CASE LoseLink
  <2>1. PICK l \in links :
          op' = [op EXCEPT ![l.owner].lost = op[l.owner].pc # "idle"]
    BY <1>7 DEF LoseLink
  <2>2. /\ op'[d].pc = op[d].pc /\ op'[d].end = op[d].end
        /\ op'[d].tries = op[d].tries /\ op'[d].cur = op[d].cur
    BY <1>1, <2>1 DEF Inv, TypeOK, OpType
  <2> QED
    BY <1>1, <1>7, <2>2, SameAhead DEF LoseLink, Switching
<1>8. CASE UNCHANGED vars
  BY <1>1, <1>8, SameAhead DEF vars, Switching
<1> QED
  BY <1>2, <1>3, <1>4, <1>5, <1>6, <1>7, <1>8 DEF Next

\* No call goes round in circles, for any number of connections, endpoints,
\* candidates and failures: what a call has before it is a number, and every
\* step of its handler makes it smaller.
THEOREM CallsAdvanceTheorem == Spec => CallsAdvance
<1>1. Init => DInv
  <2>1. Init => Dialled
    BY DEF Init, Idle, Dialled, Answered, Reached
  <2> QED
    BY <2>1, InitInv DEF DInv
<1>2. DInv /\ [Next]_vars => DInv'
  BY NextInv, NextTracks DEF DInv
<1>3. DInv /\ [Next]_vars
      => [\A c \in Conn :
            /\ op[c].pc # "idle" => Ahead(c)' <= Ahead(c)
            /\ Handler(c) => Ahead(c)' < Ahead(c)]_vars
  BY NextInv, NextAhead, HandlerNearer DEF DInv
<1> QED
  BY <1>1, <1>2, <1>3, PTL DEF Spec, CallsAdvance

=============================================================================
