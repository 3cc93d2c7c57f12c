----------------------------- MODULE FilesProofs -----------------------------
(***************************************************************************)
(* Names of network namespaces: proved for any number of processes, pids   *)
(* and namespaces, that as long as a pid keeps its namespace no device is  *)
(* ever put into a namespace nobody asked for.                             *)
(***************************************************************************)
EXTENDS NetnsFiles, TLAPS

USE FilesOK DEF NsOrNone, PidOrNone

-----------------------------------------------------------------------------
(* Types *)

LEMMA UrlTyped ==
  /\ NoUrl \in Url
  /\ \A n \in Ns : Inode(n) \in Url
  /\ \A p \in Pid : File(p) \in Url
BY DEF Url

LEMMA UrlsTyped ==
  /\ ClientUrls \subseteq Url /\ EndpointUrls \subseteq Url
  /\ \A u \in ClientUrls \cup EndpointUrls : u.pid = None
BY UrlTyped DEF ClientUrls, EndpointUrls, UrlsOf, Inode, NoUrl

\* The three kinds of a URL
LEMMA UrlKinds ==
  ASSUME NEW u \in Url
  PROVE  \/ u.ns = None /\ u.pid = None /\ u = NoUrl
         \/ u.ns \in Ns /\ u.pid = None /\ u = Inode(u.ns)
         \/ u.ns = None /\ u.pid \in Pid /\ u = File(u.pid)
<1>1. CASE u = NoUrl
  BY <1>1 DEF NoUrl
<1>2. CASE \E n \in Ns : u = Inode(n)
  BY <1>2 DEF Inode
<1>3. CASE \E p \in Pid : u = File(p)
  BY <1>3 DEF File
<1> QED
  BY <1>1, <1>2, <1>3 DEF Url

\* What recvfd finds for a URL is a URL, for a namespace that of a process
LEMMA ResolvedTyped ==
  ASSUME TypeOK, NEW end \in {"src", "dst"}, NEW u \in Url,
         NEW v \in Resolved(end, u)
  PROVE  /\ v \in Url
         /\ u.ns = None => v = u
         /\ u.ns # None =>
              /\ u.ns \in Ns /\ v.pid \in Pid
              /\ v.pid \in InNs(u.ns) \/ v.pid = file[<<end, u.ns>>]
<1>1. CASE u.ns = None
  BY <1>1 DEF Resolved
<1>2. CASE u.ns # None
  <2>1. u.ns \in Ns
    BY <1>2, UrlKinds
  <2>2. PICK p \in Paths(end, u.ns) : v = File(p)
    BY <1>2 DEF Resolved
  <2>3. p \in Pid /\ (p \in InNs(u.ns) \/ p = file[<<end, u.ns>>])
    BY <2>1 DEF Paths, InNs, TypeOK
  <2>4. v \in Url /\ v.pid = p
    BY <2>2, <2>3, UrlTyped DEF File
  <2> QED
    BY <1>2, <2>1, <2>3, <2>4
<1> QED
  BY <1>1, <1>2

FileType == [{"src", "dst"} \X Ns -> PidOrNone]

LEMMA RecordedTyped ==
  ASSUME TypeOK, NEW end \in {"src", "dst"}, NEW u \in Url,
         NEW v \in Resolved(end, u), Recorded(end, u, v)
  PROVE  file' \in FileType
BY ResolvedTyped DEF Recorded, TypeOK, FileType

LEMMA ForgottenTyped ==
  ASSUME TypeOK
  PROVE  /\ \A end \in {"src", "dst"} : Forgotten(end) \in FileType
         /\ [k \in DOMAIN file |-> None] \in FileType
         /\ \A u \in Url : SwapBack(u) \in FileType
BY DEF TypeOK, FileType, Forgotten, SwapBack

LEMMA InodeOfTyped ==
  ASSUME TypeOK, NEW u \in Url, Readable(u)
  PROVE  InodeOf(u) \in Url
<1>1. CASE u.pid = None
  BY <1>1 DEF InodeOf
<1>2. CASE u.pid # None
  BY <1>2, UrlKinds, UrlTyped DEF InodeOf, Readable, TypeOK
<1> QED
  BY <1>1, <1>2

LEMMA NsAtTyped ==
  ASSUME TypeOK, NEW u \in Url
  PROVE  NsAt(u) \in NsOrNone
BY UrlKinds DEF NsAt, TypeOK

LinkType == [src : NsOrNone, dst : NsOrNone]

LEMMA TypeRequest ==
  ASSUME TypeOK, Request
  PROVE  TypeOK'
<1>1. PICK u \in ClientUrls : Receive(u)
  BY DEF Request
<1>2. u \in Url
  BY UrlsTyped
<1>3. PICK v \in Resolved("src", u) :
        /\ Recorded("src", u, v)
        /\ op' = [Idle EXCEPT !.pc = "send", !.asked = u, !.src = v,
                              !.fresh = ~md.made]
  BY <1>1 DEF Receive
<1>4. v \in Url /\ file' \in FileType
  BY <1>2, <1>3, ResolvedTyped, RecordedTyped
<1>5. op' \in OpType
  BY <1>2, <1>3, <1>4, UrlTyped DEF TypeOK, Idle, OpType, MdType
<1>6. md' \in MdType
  BY <1>1 DEF Receive, TypeOK, MdType
<1> QED
  BY <1>1, <1>4, <1>5, <1>6 DEF Receive, TypeOK, FileType

LEMMA IdleTyped ==
  Idle \in OpType /\ NoMd \in MdType /\ NotEst \in [on : BOOLEAN, url : Url]
BY UrlTyped DEF Idle, OpType, NoMd, MdType, NotEst

LEMMA StartTyped ==
  ASSUME NEW v \in Url
  PROVE  [Idle EXCEPT !.pc = "unlink", !.after = "end", !.src = v] \in OpType
<1> DEFINE o1 == [Idle EXCEPT !.pc = "unlink"]
           o2 == [o1 EXCEPT !.after = "end"]
<1>1. o1 \in OpType
  BY IdleTyped DEF OpType
<1>2. o2 \in OpType
  BY <1>1 DEF OpType
<1> QED
  BY <1>2 DEF OpType

\* A handler that only goes on
LEMMA GotoTyped ==
  ASSUME TypeOK,
         NEW pc \in {"idle", "send", "answer", "open", "create", "reply",
                     "failed", "unlink", "leave"}
  PROVE  /\ [op EXCEPT !.pc = pc] \in OpType
         /\ \A a \in {"failed", "undo", "end"} :
              [op EXCEPT !.pc = pc, !.after = a] \in OpType
BY DEF TypeOK, OpType

LEMMA TypeSend ==
  ASSUME TypeOK, Send
  PROVE  TypeOK'
<1>0. md.held \in Url
  BY DEF TypeOK, MdType
<1>1. CASE Readable(md.held) /\ op.pc = "send"
           /\ md' = [md EXCEPT !.held = InodeOf(md.held),
                               !.dst = IF md.same THEN InodeOf(md.held) ELSE @]
           /\ op' = [op EXCEPT !.pc = "answer", !.back = md.held]
  <2>1. InodeOf(md.held) \in Url
    BY <1>0, <1>1, InodeOfTyped
  <2>2. md' \in MdType
    BY <1>1, <2>1 DEF TypeOK, MdType
  <2>3. op' \in OpType
    BY <1>0, <1>1 DEF TypeOK, OpType
  <2> QED
    BY <2>2, <2>3 DEF Send, TypeOK
<1>2. CASE Refused /\ UNCHANGED md
  BY <1>2, GotoTyped DEF Send, Refused, TypeOK
<1> QED
  BY <1>1, <1>2 DEF Send

\* The two ways the answer goes
Answered(u, v) ==
  /\ Recorded("dst", TranslatedBack(u), v)
  /\ md' = [md EXCEPT !.held = v, !.same = FALSE]
  /\ op' = [op EXCEPT !.pc = "open", !.named = u, !.dst = v]
  /\ UNCHANGED <<proc, used, moved, est, dev, leak, faults>>

LEMMA AnswerCases ==
  ASSUME Answer
  PROVE  \/ \E u \in EndpointUrls : \E v \in Resolved("dst", TranslatedBack(u)) :
              Answered(u, v)
         \/ /\ Refused /\ faults' \in {faults, faults + 1}
            /\ faults' # faults => faults < MaxFaults
            /\ UNCHANGED <<proc, used, moved, file, md, est, dev, leak>>
BY DEF Answer, Answered, Fault

LEMMA BackTyped ==
  ASSUME TypeOK, NEW u \in EndpointUrls
  PROVE  TranslatedBack(u) \in Url /\ u \in Url
BY UrlsTyped DEF TranslatedBack, TypeOK, OpType

LEMMA TypeAnswer ==
  ASSUME TypeOK, Answer
  PROVE  TypeOK'
<1>1. CASE \E u \in EndpointUrls : \E v \in Resolved("dst", TranslatedBack(u)) :
             Answered(u, v)
  <2>0. PICK u \in EndpointUrls : \E v \in Resolved("dst", TranslatedBack(u)) :
          Answered(u, v)
    BY <1>1
  <2>1. PICK v \in Resolved("dst", TranslatedBack(u)) : Answered(u, v)
    BY <2>0
  <2>2. u \in Url /\ v \in Url /\ file' \in FileType
    BY <2>1, BackTyped, ResolvedTyped, RecordedTyped DEF Answered
  <2>3. md' \in MdType
    BY <2>1, <2>2 DEF Answered, TypeOK, MdType
  <2>4. op' \in OpType
    BY <2>1, <2>2 DEF Answered, TypeOK, OpType
  <2> QED
    BY <2>1, <2>2, <2>3, <2>4 DEF Answered, TypeOK, FileType
<1>2. CASE /\ Refused /\ faults' \in {faults, faults + 1}
           /\ faults' # faults => faults < MaxFaults
           /\ UNCHANGED <<proc, used, moved, file, md, est, dev, leak>>
  <2>1. op' \in OpType
    BY <1>2, GotoTyped DEF Refused
  <2>2. faults' \in 0..MaxFaults
    BY <1>2 DEF TypeOK
  <2> QED
    BY <1>2, <2>1, <2>2 DEF TypeOK
<1> QED
  BY <1>1, <1>2, AnswerCases

LEMMA TypeOpen ==
  ASSUME TypeOK, Open
  PROVE  TypeOK'
<1>1. NsAt(op.src) \in NsOrNone
  BY NsAtTyped DEF TypeOK, OpType
<1>2. faults' \in 0..MaxFaults
  BY DEF Open, Fault, TypeOK
<1>3. op' \in OpType
  <2>1. CASE op' = [op EXCEPT !.pc = "create", !.at = NsAt(op.src)]
    BY <1>1, <2>1 DEF TypeOK, OpType
  <2>2. CASE CreateFailed
    BY <2>2, GotoTyped DEF CreateFailed, Goto
  <2> QED
    BY <2>1, <2>2 DEF Open
<1> QED
  BY <1>2, <1>3 DEF Open, TypeOK

LEMMA TypeCreate ==
  ASSUME TypeOK, Create
  PROVE  TypeOK'
<1>1. NsAt(op.dst) \in NsOrNone /\ op.at \in NsOrNone
  BY NsAtTyped DEF TypeOK, OpType
<1>2. \A n \in NsOrNone : [src |-> op.at, dst |-> n] \in LinkType
  BY <1>1 DEF LinkType
<1>3. dev' \subseteq LinkType
  BY <1>1, <1>2 DEF Create, TypeOK, LinkType
<1>4. md' \in MdType
  BY DEF Create, TypeOK, MdType, OpType
<1>5. op' \in OpType
  BY GotoTyped DEF Create, CreateFailed, Goto
<1>6. leak' \in BOOLEAN /\ faults' = faults
  BY DEF Create, TypeOK
<1> QED
  BY <1>3, <1>4, <1>5, <1>6 DEF Create, TypeOK, LinkType

LEMMA TypeReply ==
  ASSUME TypeOK, Reply
  PROVE  TypeOK'
<1>1. op.src \in Url
  BY DEF TypeOK, OpType
<1>2. CASE Readable(op.src) /\ file' = SwapBack(InodeOf(op.src))
           /\ est' = [on |-> TRUE, url |-> InodeOf(op.src)] /\ op' = Idle
  <2>1. InodeOf(op.src) \in Url
    BY <1>1, <1>2, InodeOfTyped
  <2>2. file' \in FileType
    BY <1>2, <2>1, ForgottenTyped
  <2> QED
    BY <1>2, <2>1, <2>2, UrlTyped DEF Reply, TypeOK, FileType, Idle, OpType
<1>3. CASE Goto("failed") /\ UNCHANGED <<file, est>>
  BY <1>3, GotoTyped DEF Reply, Goto, TypeOK
<1> QED
  BY <1>2, <1>3 DEF Reply

LEMMA TypeFailed ==
  ASSUME TypeOK, Failed
  PROVE  TypeOK'
BY UrlTyped DEF Failed, TypeOK, Idle, OpType, NoMd, MdType

LEMMA TypeClose ==
  ASSUME TypeOK, Close
  PROVE  TypeOK'
<1>1. est.url \in Url /\ NotEst \in [on : BOOLEAN, url : Url] /\ NoMd \in MdType
  BY UrlTyped DEF TypeOK, NotEst, NoMd, MdType
<1>2. ASSUME NEW v \in Resolved("src", est.url), Recorded("src", est.url, v),
             op' = [Idle EXCEPT !.pc = "unlink", !.after = "end", !.src = v],
             UNCHANGED <<md, est, leak, faults>>
      PROVE  TypeOK'
  <2>1. v \in Url /\ file' \in FileType
    BY <1>1, <1>2, ResolvedTyped, RecordedTyped
  <2>2. op' \in OpType
    BY <1>2, <2>1, StartTyped
  <2> QED
    BY <1>2, <2>1, <2>2 DEF Close, TypeOK, FileType
<1>3. CASE file' = Forgotten("src") /\ md' = NoMd /\ est' = NotEst
           /\ UNCHANGED <<op, leak, faults>>
  BY <1>1, <1>3, ForgottenTyped DEF Close, TypeOK, FileType
<1>4. CASE Fault /\ est' = NotEst /\ leak' = TRUE /\ UNCHANGED <<file, md, op>>
  <2>1. faults' \in 0..MaxFaults
    BY <1>4 DEF Fault, TypeOK
  <2> QED
    BY <1>1, <1>4, <2>1 DEF Close, TypeOK
<1> QED
  BY <1>2, <1>3, <1>4 DEF Close

LEMMA TypeUnlink ==
  ASSUME TypeOK, Unlink
  PROVE  TypeOK'
<1>1. md' \in MdType
  BY UrlTyped DEF Unlink, TypeOK, MdType
<1>2. op' \in OpType
  BY GotoTyped DEF Unlink, Goto
<1>3. dev' \subseteq dev
  BY DEF Unlink, Unlinked, Without
<1> QED
  BY <1>1, <1>2, <1>3 DEF Unlink, TypeOK

LEMMA TypeLeave ==
  ASSUME TypeOK, Leave
  PROVE  TypeOK'
<1>1. file' \in FileType
  BY ForgottenTyped DEF Leave
<1>2. CASE md' = NoMd /\ est' = NotEst /\ op' = Idle
  BY <1>1, <1>2, IdleTyped DEF Leave, TypeOK, FileType
<1>3. CASE /\ md' = [md EXCEPT !.held = NoUrl]
           /\ Goto("failed") /\ UNCHANGED est
  <2>1. md' \in MdType
    BY <1>3, UrlTyped DEF TypeOK, MdType
  <2>2. op' \in OpType
    BY <1>3, GotoTyped DEF Goto
  <2> QED
    BY <1>1, <1>3, <2>1, <2>2 DEF Leave, TypeOK, FileType
<1> QED
  BY <1>2, <1>3 DEF Leave

LEMMA TypeProcesses ==
  ASSUME TypeOK, NEW p \in Pid,
         \/ Exit(p)
         \/ \E n \in Ns : Spawn(p, n)
         \/ \E q \in Pid : Enter(p, q)
  PROVE  TypeOK'
<1>0. moved' \in 0..MaxMoved
  BY DEF Exit, Spawn, Enter, Moves, TypeOK
<1>1. CASE Exit(p)
  BY <1>0, <1>1 DEF Exit, TypeOK
<1>2. CASE \E n \in Ns : Spawn(p, n)
  BY <1>0, <1>2 DEF Spawn, TypeOK
<1>3. CASE \E q \in Pid : Enter(p, q)
  BY <1>0, <1>3 DEF Enter, TypeOK
<1> QED
  BY <1>1, <1>2, <1>3

LEMMA TypeInit == Init => TypeOK
<1> SUFFICES ASSUME Init PROVE TypeOK
  OBVIOUS
<1>1. file \in FileType
  BY DEF Init, FileType
<1>2. /\ proc \in [Pid -> NsOrNone]
      /\ faults \in 0..MaxFaults /\ moved \in 0..MaxMoved
  BY DEF Init
<1>3. md \in MdType /\ op \in OpType /\ est \in [on : BOOLEAN, url : Url]
  BY IdleTyped DEF Init
<1> QED
  BY <1>1, <1>2, <1>3 DEF Init, TypeOK, FileType

LEMMA TypeNext == TypeOK /\ [Next]_vars => TypeOK'
<1> SUFFICES ASSUME TypeOK, [Next]_vars
             PROVE  TypeOK'
  OBVIOUS
<1>1. CASE UNCHANGED vars
  BY <1>1 DEF vars, TypeOK
<1>2. CASE Request \/ Handler \/ Close
  BY <1>2, TypeRequest, TypeSend, TypeAnswer, TypeOpen, TypeCreate, TypeReply,
     TypeFailed, TypeUnlink, TypeLeave, TypeClose DEF Handler
<1>3. CASE \E p \in Pid : Exit(p) \/ (\E n \in Ns : Spawn(p, n))
                                  \/ (\E q \in Pid : Enter(p, q))
  BY <1>3, TypeProcesses
<1> QED
  BY <1>1, <1>2, <1>3 DEF Next

\* Whatever processes start, end and move, every variable of the file
\* elements keeps to its values: recvFDAndSwapInodeToFile never stores a path
\* that is none, sendfd's swapFileToInode never sends a URL that is none.
THEOREM FilesTypeCorrect == Spec => []TypeOK
BY TypeInit, TypeNext, PTL DEF Spec

-----------------------------------------------------------------------------
(* The right namespace *)

\* A path that was found in namespace n: its process is there, or gone
Good(u, n) == u.pid # None => u.pid \in used /\ proc[u.pid] \in {n, None}

\* What the file maps remember is good
FilesGood ==
  \A k \in {"src", "dst"} \X Ns : Good(File(file[k]), k[2])

\* So is what the handler got for the client, ...
SrcGood ==
  op.pc \in {"send", "answer", "open", "create", "reply"}
    => /\ op.asked \in ClientUrls /\ Good(op.src, op.asked.ns)
       /\ op.src.pid = None => op.src = op.asked
       /\ op.pc = "create" => op.at = op.asked.ns

\* ... what it has sent to the endpoint, and what it got for the answer
DstGood ==
  /\ op.pc = "answer" => Good(op.back, md.held.ns)
  /\ op.pc \in {"open", "create"} => Good(op.dst, op.named.ns)

\* No process has a pid that was never given out
UsedOK == \A p \in Pid : proc[p] # None => p \in used

IInv == TypeOK /\ UsedOK /\ FilesGood /\ SrcGood /\ DstGood

\* What RightNamespace says of a step
RightStep ==
  /\ \A l \in dev' \ dev : l.src = op.asked.ns /\ l.dst \in {None, op.named.ns}
  /\ est' # est /\ est'.on => est'.url = op.asked

\* What recvfd finds for a URL is the path of a process of its namespace
LEMMA ResolvedGood ==
  ASSUME IInv, NEW end \in {"src", "dst"}, NEW u \in Url,
         NEW v \in Resolved(end, u)
  PROVE  u.ns # None => Good(v, u.ns)
<1> SUFFICES ASSUME u.ns # None PROVE Good(v, u.ns)
  OBVIOUS
<1>1. u.ns \in Ns /\ v.pid \in Pid
      /\ (v.pid \in InNs(u.ns) \/ v.pid = file[<<end, u.ns>>])
  BY ResolvedTyped DEF IInv
<1>2. CASE v.pid \in InNs(u.ns)
  BY <1>1, <1>2 DEF InNs, Good, IInv, UsedOK
<1>3. CASE v.pid = file[<<end, u.ns>>]
  BY <1>1, <1>3 DEF Good, File, IInv, FilesGood
<1> QED
  BY <1>1, <1>2, <1>3

\* ... and that is what it remembers
LEMMA RecordedGood ==
  ASSUME IInv, NEW end \in {"src", "dst"}, NEW u \in Url,
         NEW v \in Resolved(end, u), Recorded(end, u, v),
         UNCHANGED <<proc, used>>
  PROVE  FilesGood'
<1>1. CASE u.ns = None
  BY <1>1 DEF Recorded, IInv, FilesGood, Good
<1>2. CASE u.ns # None
  <2>1. u.ns \in Ns /\ v.pid \in Pid /\ Good(v, u.ns)
    BY <1>2, ResolvedTyped, ResolvedGood DEF IInv
  <2>2. file' = [file EXCEPT ![<<end, u.ns>>] = v.pid]
    BY <1>2 DEF Recorded
  <2>3. ASSUME NEW k \in {"src", "dst"} \X Ns
        PROVE  Good(File(file[k]), k[2])'
    <3>1. CASE k = <<end, u.ns>>
      <4>1. file'[k] = v.pid /\ k[2] = u.ns
        BY <2>2, <3>1 DEF IInv, TypeOK
      <4> QED
        BY <2>1, <4>1 DEF Good, File
    <3>2. CASE k # <<end, u.ns>>
      <4>1. file'[k] = file[k]
        BY <2>2, <3>2 DEF IInv, TypeOK
      <4> QED
        BY <4>1 DEF IInv, FilesGood, Good, File
    <3> QED
      BY <3>1, <3>2
  <2> QED
    BY <2>3 DEF FilesGood
<1> QED
  BY <1>1, <1>2

\* Maps that only forget stay good
LEMMA ForgetGood ==
  ASSUME IInv, UNCHANGED <<proc, used>>,
         \A k \in {"src", "dst"} \X Ns : file'[k] \in {file[k], None}
  PROVE  FilesGood'
BY DEF IInv, FilesGood, Good, File

LEMMA ForgottenGood ==
  ASSUME IInv, UNCHANGED <<proc, used>>,
         \/ \E end \in {"src", "dst"} : file' = Forgotten(end)
         \/ file' = [k \in DOMAIN file |-> None]
         \/ \E u \in Url : file' = SwapBack(u)
  PROVE  FilesGood'
<1>1. DOMAIN file = {"src", "dst"} \X Ns
  BY DEF IInv, TypeOK
<1> QED
  BY <1>1, ForgetGood DEF Forgotten, SwapBack

LEMMA GoodRequest ==
  ASSUME IInv, Request
  PROVE  IInv' /\ RightStep
<1>1. PICK u \in ClientUrls : Receive(u)
  BY DEF Request
<1>2. PICK v \in Resolved("src", u) :
        /\ Recorded("src", u, v)
        /\ op' = [Idle EXCEPT !.pc = "send", !.asked = u, !.src = v,
                              !.fresh = ~md.made]
  BY <1>1 DEF Receive
<1>3. u \in Url /\ u.pid = None /\ TypeOK'
  BY UrlsTyped, TypeRequest DEF IInv
<1>4. op'.pc = "send" /\ op'.asked = u /\ op'.src = v
  BY <1>2 DEF Idle
<1>5. FilesGood'
  BY <1>1, <1>2, <1>3, RecordedGood DEF Receive
<1>6. SrcGood'
  <2>1. CASE u.ns = None
    BY <1>3, <1>4, <2>1, <1>2, ResolvedTyped DEF SrcGood, Good, IInv
  <2>2. CASE u.ns # None
    <3>1. Good(v, u.ns) /\ v.pid \in Pid
      BY <1>2, <1>3, <2>2, ResolvedTyped, ResolvedGood DEF IInv
    <3> QED
      BY <1>1, <1>4, <3>1 DEF Receive, SrcGood, Good
  <2> QED
    BY <2>1, <2>2
<1> QED
  BY <1>1, <1>3, <1>4, <1>5, <1>6
  DEF Receive, IInv, UsedOK, DstGood, RightStep

\* A handler that is done, or fails
LEMMA Over ==
  ASSUME IInv, TypeOK', op'.pc \in {"idle", "failed", "unlink", "leave"},
         UNCHANGED <<proc, used>>, FilesGood',
         dev' \subseteq dev, est' # est => ~est'.on
  PROVE  IInv' /\ RightStep
BY DEF IInv, UsedOK, SrcGood, DstGood, RightStep

LEMMA GoodSend ==
  ASSUME IInv, Send
  PROVE  IInv' /\ RightStep
<1>0. TypeOK' /\ md.held \in Url /\ FilesGood'
  BY TypeSend DEF Send, IInv, TypeOK, MdType, FilesGood, Good
<1>1. CASE Refused
  BY <1>0, <1>1, Over DEF Send, Refused, IInv, TypeOK, OpType
<1>2. CASE /\ Readable(md.held)
           /\ md' = [md EXCEPT !.held = InodeOf(md.held),
                               !.dst = IF md.same THEN InodeOf(md.held) ELSE @]
           /\ op' = [op EXCEPT !.pc = "answer", !.back = md.held]
  <2>1. /\ op'.pc = "answer" /\ op'.back = md.held
        /\ op'.asked = op.asked /\ op'.src = op.src
        /\ md'.held = InodeOf(md.held)
    BY <1>2 DEF IInv, TypeOK, OpType, MdType
  <2>2. Good(op.back, md.held.ns)'
    <3>1. CASE md.held.pid # None
      <4>1. md.held.pid \in Pid /\ md'.held.ns = proc[md.held.pid]
        BY <1>0, <2>1, <3>1, UrlKinds DEF InodeOf, Inode
      <4>2. md.held.pid \in used
        BY <1>2, <3>1, <4>1 DEF IInv, UsedOK, Readable
      <4> QED
        BY <2>1, <4>1, <4>2 DEF Good, Send
    <3> QED
      BY <2>1, <3>1 DEF Good
  <2>3. SrcGood'
    BY <2>1 DEF IInv, SrcGood, Good, Send
  <2> QED
    BY <1>0, <2>1, <2>2, <2>3 DEF Send, IInv, UsedOK, DstGood, RightStep
<1> QED
  BY <1>1, <1>2 DEF Send

LEMMA GoodAnswer ==
  ASSUME IInv, Answer
  PROVE  IInv' /\ RightStep
<1>0. TypeOK'
  BY TypeAnswer DEF IInv
<1>1. CASE \E u \in EndpointUrls : \E v \in Resolved("dst", TranslatedBack(u)) :
             Answered(u, v)
  <2>0. PICK u \in EndpointUrls : \E v \in Resolved("dst", TranslatedBack(u)) :
          Answered(u, v)
    BY <1>1
  <2>1. PICK v \in Resolved("dst", TranslatedBack(u)) : Answered(u, v)
    BY <2>0
  <2>2. TranslatedBack(u) \in Url /\ u \in Url /\ u.pid = None
    BY BackTyped, UrlsTyped DEF IInv
  <2>3. /\ op'.pc = "open" /\ op'.named = u /\ op'.dst = v
        /\ op'.asked = op.asked /\ op'.src = op.src
    BY <2>1 DEF Answered, IInv, TypeOK, OpType
  <2>4. Good(v, u.ns)
    <3>1. CASE TranslatedBack(u) = u /\ u.ns # None
      BY <2>2, <3>1, ResolvedGood
    <3>2. CASE TranslatedBack(u) = u /\ u.ns = None
      BY <2>2, <3>2, ResolvedTyped DEF Good, IInv
    <3>3. CASE TranslatedBack(u) = op.back /\ op.back.pid # None /\ u = md.held
      <4>1. op.back.ns = None
        BY <2>2, <3>3, UrlKinds
      <4>2. v = TranslatedBack(u)
        BY <2>2, <3>3, <4>1, "dst" \in {"src", "dst"}, ResolvedTyped DEF IInv
      <4> QED
        BY <3>3, <4>2 DEF Answer, IInv, DstGood
    <3> QED
      BY <3>1, <3>2, <3>3 DEF TranslatedBack
  <2>5. FilesGood'
    BY <2>1, <2>2, RecordedGood DEF Answered
  <2>6. SrcGood'
    BY <2>3 DEF Answer, IInv, SrcGood, Good
  <2>7. DstGood'
    BY <2>1, <2>3, <2>4 DEF Answered, DstGood, Good
  <2> QED
    BY <1>0, <2>1, <2>5, <2>6, <2>7 DEF Answered, IInv, UsedOK, RightStep
<1>2. CASE Refused /\ UNCHANGED <<proc, used, file, md, est, dev>>
  BY <1>0, <1>2, Over DEF Refused, IInv, TypeOK, OpType, FilesGood, Good
<1> QED
  BY <1>1, <1>2, AnswerCases

LEMMA GoodOpen ==
  ASSUME IInv, Open
  PROVE  IInv' /\ RightStep
<1>0. TypeOK' /\ FilesGood'
  BY TypeOpen DEF Open, IInv, FilesGood, Good
<1>1. CASE CreateFailed
  BY <1>0, <1>1, Over DEF Open, CreateFailed, Goto, IInv, TypeOK, OpType
<1>2. CASE /\ "src" \in Ends => NsAt(op.src) # None
           /\ op' = [op EXCEPT !.pc = "create", !.at = NsAt(op.src)]
  <2>1. /\ op'.pc = "create" /\ op'.at = NsAt(op.src)
        /\ op'.named = op.named /\ op'.dst = op.dst
        /\ op'.asked = op.asked /\ op'.src = op.src
    BY <1>2 DEF IInv, TypeOK, OpType
  <2>2. Good(op.src, op.asked.ns) /\ op.asked \in ClientUrls
        /\ (op.src.pid = None => op.src = op.asked)
    BY DEF Open, IInv, SrcGood
  <2>3. NsAt(op.src) = op.asked.ns
    <3>1. NsAt(op.src) \in {op.asked.ns, None}
      BY <2>2 DEF NsAt, Good
    <3>2. CASE "src" \in Ends
      BY <1>2, <3>1, <3>2
    <3>3. CASE "src" \notin Ends
      BY <2>2, <3>1, <3>3 DEF ClientUrls, UrlsOf, NoUrl
    <3> QED
      BY <3>2, <3>3
  <2>4. SrcGood'
    BY <2>1, <2>2, <2>3 DEF Open, SrcGood, Good
  <2>5. DstGood'
    BY <2>1 DEF Open, IInv, DstGood, Good
  <2> QED
    BY <1>0, <2>4, <2>5 DEF Open, IInv, UsedOK, RightStep
<1> QED
  BY <1>1, <1>2 DEF Open

LEMMA GoodCreate ==
  ASSUME IInv, Create
  PROVE  IInv' /\ RightStep
<1>0. TypeOK' /\ FilesGood'
  BY TypeCreate DEF Create, IInv, FilesGood, Good
<1>1. op.at = op.asked.ns /\ NsAt(op.dst) \in {None, op.named.ns}
  BY DEF Create, IInv, SrcGood, DstGood, Good, NsAt
<1>2. RightStep
  BY <1>1 DEF Create, RightStep
<1>3. /\ op'.pc \in {"reply", "failed", "unlink"}
      /\ op'.asked = op.asked /\ op'.src = op.src
  BY DEF Create, CreateFailed, Goto, IInv, TypeOK, OpType
<1>4. SrcGood'
  BY <1>3 DEF Create, IInv, SrcGood, Good
<1>5. DstGood'
  BY <1>3 DEF DstGood
<1> QED
  BY <1>0, <1>2, <1>4, <1>5 DEF Create, IInv, UsedOK

LEMMA GoodReply ==
  ASSUME IInv, Reply
  PROVE  IInv' /\ RightStep
<1>0. TypeOK' /\ op.src \in Url /\ op.asked \in ClientUrls
      /\ Good(op.src, op.asked.ns) /\ (op.src.pid = None => op.src = op.asked)
  BY TypeReply DEF Reply, IInv, TypeOK, OpType, SrcGood
<1>1. CASE Goto("failed") /\ UNCHANGED <<file, est>>
  BY <1>0, <1>1, Over
  DEF Reply, Goto, IInv, TypeOK, OpType, FilesGood, Good
<1>2. CASE Readable(op.src) /\ file' = SwapBack(InodeOf(op.src))
           /\ est' = [on |-> TRUE, url |-> InodeOf(op.src)] /\ op' = Idle
  <2>1. InodeOf(op.src) = op.asked
    <3>1. CASE op.src.pid = None
      BY <1>0, <3>1 DEF InodeOf
    <3>2. CASE op.src.pid # None
      <4>1. proc[op.src.pid] = op.asked.ns /\ op.asked.ns # None
        BY <1>0, <1>2, <3>2 DEF Readable, Good
      <4>2. op.asked = Inode(op.asked.ns)
        BY <1>0, <4>1, UrlsTyped, UrlKinds
      <4> QED
        BY <3>2, <4>1, <4>2 DEF InodeOf
    <3> QED
      BY <3>1, <3>2
  <2>2. FilesGood'
    BY <1>0, <1>2, <2>1, UrlsTyped, ForgottenGood DEF Reply
  <2>3. op'.pc = "idle"
    BY <1>2 DEF Idle
  <2> QED
    BY <1>0, <1>2, <2>1, <2>2, <2>3
    DEF Reply, IInv, UsedOK, SrcGood, DstGood, RightStep
<1> QED
  BY <1>1, <1>2 DEF Reply

LEMMA GoodFailed ==
  ASSUME IInv, Failed
  PROVE  IInv' /\ RightStep
<1>1. TypeOK' /\ FilesGood' /\ op'.pc = "idle"
  BY TypeFailed DEF Failed, Idle, IInv, FilesGood, Good
<1> QED
  BY <1>1, Over DEF Failed

LEMMA GoodClose ==
  ASSUME IInv, Close
  PROVE  IInv' /\ RightStep
<1>1. TypeOK' /\ est.url \in Url
  BY TypeClose DEF IInv, TypeOK
<1>2. op'.pc \in {"idle", "unlink"}
  BY DEF Close, Idle
<1>3. FilesGood'
  <2>1. CASE \E v \in Resolved("src", est.url) : Recorded("src", est.url, v)
    BY <1>1, <2>1, RecordedGood DEF Close
  <2>2. CASE file' = Forgotten("src")
    BY <2>2, ForgottenGood DEF Close
  <2>3. CASE file' = file
    BY <2>3 DEF Close, IInv, FilesGood, Good
  <2> QED
    BY <2>1, <2>2, <2>3 DEF Close
<1>4. est' # est => ~est'.on
  <2>1. est' \in {est, NotEst}
    BY DEF Close
  <2> QED
    BY <2>1 DEF NotEst
<1> QED
  BY <1>1, <1>2, <1>3, <1>4, Over DEF Close

LEMMA GoodUnlink ==
  ASSUME IInv, Unlink
  PROVE  IInv' /\ RightStep
<1>1. TypeOK' /\ FilesGood' /\ op'.pc \in {"failed", "leave"}
  BY TypeUnlink DEF Unlink, Goto, IInv, TypeOK, OpType, FilesGood, Good
<1>2. dev' \subseteq dev
  BY DEF Unlink, Unlinked, Without
<1> QED
  BY <1>1, <1>2, Over DEF Unlink

LEMMA GoodLeave ==
  ASSUME IInv, Leave
  PROVE  IInv' /\ RightStep
<1>1. TypeOK' /\ op'.pc \in {"idle", "failed"} /\ (est' # est => ~est'.on)
  BY TypeLeave DEF Leave, Goto, Idle, NotEst, IInv, TypeOK, OpType
<1>2. FilesGood'
  BY ForgottenGood DEF Leave
<1> QED
  BY <1>1, <1>2, Over DEF Leave

\* A pid that keeps its namespace, or loses its process for good, keeps what
\* was found by it good
LEMMA GoodProcesses ==
  ASSUME IInv, moved' = 0, NEW p \in Pid,
         \/ Exit(p)
         \/ \E n \in Ns : Spawn(p, n)
         \/ \E q \in Pid : Enter(p, q)
  PROVE  IInv' /\ RightStep
<1>0. moved \in Nat /\ ~Moves
  BY DEF IInv, TypeOK, Moves
<1>1. TypeOK' /\ UNCHANGED <<file, md, est, op>> /\ dev' \subseteq dev
  BY TypeProcesses DEF IInv, Exit, Spawn, Enter
<1>2. /\ used \subseteq used'
      /\ \A q \in Pid \cap used : proc'[q] \in {proc[q], None}
  BY <1>0 DEF Exit, Spawn, Enter, IInv, TypeOK
<1>3. UsedOK'
  BY DEF Exit, Spawn, Enter, IInv, TypeOK, UsedOK
<1>4. ASSUME NEW u, NEW n, u.pid # None => u.pid \in Pid, Good(u, n)
      PROVE  u.pid # None => u.pid \in used' /\ proc'[u.pid] \in {n, None}
  BY <1>2, <1>4 DEF Good
<1>5. FilesGood'
  <2>1. ASSUME NEW k \in {"src", "dst"} \X Ns
        PROVE  Good(File(file[k]), k[2])'
    <3>1. File(file[k]).pid # None => File(file[k]).pid \in Pid
      BY DEF File, IInv, TypeOK
    <3>2. Good(File(file[k]), k[2])
      BY DEF IInv, FilesGood
    <3> QED
      BY <1>1, <1>4, <3>1, <3>2 DEF Good, File
  <2> QED
    BY <2>1 DEF FilesGood
<1>6. /\ op.src.pid # None => op.src.pid \in Pid
      /\ op.dst.pid # None => op.dst.pid \in Pid
      /\ op.back.pid # None => op.back.pid \in Pid
  BY UrlKinds DEF IInv, TypeOK, OpType
<1>7. SrcGood'
  BY <1>1, <1>4, <1>6 DEF IInv, SrcGood, Good
<1>8. DstGood'
  BY <1>1, <1>4, <1>6 DEF IInv, DstGood, Good
<1> QED
  BY <1>1, <1>3, <1>5, <1>7, <1>8 DEF IInv, RightStep

LEMMA GoodInit == Init => IInv
<1> SUFFICES ASSUME Init PROVE IInv
  OBVIOUS
<1>1. op.pc = "idle" /\ \A k \in {"src", "dst"} \X Ns : file[k] = None
  BY DEF Init, Idle
<1>2. UsedOK
  BY DEF Init, UsedOK
<1> QED
  BY <1>1, <1>2, TypeInit DEF IInv, FilesGood, SrcGood, DstGood, Good, File

LEMMA GoodNext ==
  ASSUME IInv, [Next]_vars, moved' = 0
  PROVE  IInv' /\ (RightStep \/ UNCHANGED vars)
<1>1. CASE UNCHANGED vars
  BY <1>1 DEF vars, IInv, TypeOK, UsedOK, FilesGood, SrcGood, DstGood, Good
<1>2. CASE Request \/ Handler \/ Close
  BY <1>2, GoodRequest, GoodSend, GoodAnswer, GoodOpen, GoodCreate, GoodReply,
     GoodFailed, GoodUnlink, GoodLeave, GoodClose DEF Handler
<1>3. CASE \E p \in Pid : Exit(p) \/ (\E n \in Ns : Spawn(p, n))
                                  \/ (\E q \in Pid : Enter(p, q))
  BY <1>3, GoodProcesses
<1> QED
  BY <1>1, <1>2, <1>3 DEF Next

\* Only processes move pids, and they put no device anywhere
LEMMA MovedStep ==
  ASSUME TypeOK, [Next]_vars, moved' # moved
  PROVE  RightStep /\ moved' # 0
<1>1. CASE Request \/ Handler \/ Close
  BY <1>1 DEF Request, Receive, Handler, Send, Answer, Open, Create, Reply,
     Failed, Unlink, Leave, Close
<1>2. ASSUME NEW p \in Pid,
             \/ Exit(p)
             \/ \E n \in Ns : Spawn(p, n)
             \/ \E q \in Pid : Enter(p, q)
      PROVE  RightStep /\ moved' # 0
  <2>1. UNCHANGED <<est, dev>> /\ moved' = moved + 1
    BY <1>2 DEF Exit, Spawn, Enter, Moves
  <2> QED
    BY <2>1 DEF RightStep, TypeOK
<1> QED
  BY <1>1, <1>2 DEF Next, vars

MovedInv == TypeOK /\ (moved = 0 => IInv)

LEMMA MovedNext ==
  MovedInv /\ [Next]_vars => MovedInv' /\ [moved = 0 => RightStep]_vars
<1> SUFFICES ASSUME MovedInv, [Next]_vars
             PROVE  MovedInv' /\ ((moved = 0 => RightStep) \/ UNCHANGED vars)
  OBVIOUS
<1>1. TypeOK'
  BY TypeNext DEF MovedInv
<1>2. CASE moved' = moved
  BY <1>1, <1>2, GoodNext DEF MovedInv
<1>3. CASE moved' # moved
  BY <1>1, <1>3, MovedStep DEF MovedInv
<1> QED
  BY <1>2, <1>3

\* Until a pid is given out again or a process changes its namespace,
\* recvfd's maps, mechanismtranslation's stored mechanism and sendfd's
\* swapping never make xconnect open a namespace that is not the one the
\* client or the endpoint has named, however many processes end.
THEOREM RightNamespaceTheorem == Spec => RightNamespace
<1>1. Init => MovedInv
  BY GoodInit DEF MovedInv, IInv
<1>2. MovedInv /\ [Next]_vars => MovedInv' /\ [moved = 0 => RightStep]_vars
  BY MovedNext
<1> QED
  BY <1>1, <1>2, PTL DEF Spec, RightNamespace, RightStep


-----------------------------------------------------------------------------
(* Nothing is left *)

\* What the deployment has to provide: the client of a connection is on this
\* node, and stays in the namespace it is in.
ClientStays == "src" \in Ends /\ \A m, n \in ClientNs : m = n

\* What begin holds is what the client has named, and there is metadata
EstGood ==
  /\ est.on => est.url \in ClientUrls /\ md.made
  /\ op.pc # "idle" => md.made
  /\ op.fresh => ~est.on /\ op.pc # "idle"

\* The path a handler has for the client is that of a live process
Live ==
  op.pc \in {"send", "answer", "open", "create", "reply", "unlink"} =>
    op.src.pid # None /\ proc[op.src.pid] \in ClientNs

\* A device has its end in a namespace that still is there, and a stored
\* mechanism to delete it by; begin has its connection, except where the
\* handler makes or deletes it
Held ==
  /\ \A l \in dev : l.src \in ClientNs /\ InNs(l.src) # {}
  /\ op.pc \in {"idle", "send", "answer", "open", "create", "failed"} =>
       dev = {} \/ (est.on /\ md.stored)
  /\ op.pc \in {"reply", "unlink"} => dev = {} \/ md.stored
  /\ op.pc = "leave" => dev = {}

LeakInv == IInv /\ EstGood /\ (~leak => Live /\ Held)


EstAndHeld == EstGood /\ (~leak => Live /\ Held)

LEMMA ClientUrlIs ==
  ASSUME ClientStays, NEW u \in ClientUrls
  PROVE  /\ u.ns \in ClientNs /\ u.ns \in Ns /\ u.ns # None /\ u.pid = None
         /\ u \in Url
BY UrlTyped DEF ClientStays, ClientUrls, UrlsOf, Inode

\* What recvfd finds for the client is a live process in its namespace
LEMMA ResolvedLive ==
  ASSUME ClientStays, IInv, NEW u \in ClientUrls, NEW v \in Resolved("src", u)
  PROVE  v.pid # None /\ proc[v.pid] \in ClientNs
<1>1. u.ns \in ClientNs /\ u.ns \in Ns /\ u.ns # None /\ u \in Url
  BY ClientUrlIs
<1>2. v.pid \in Pid /\ Good(v, u.ns)
  BY <1>1, ResolvedTyped, ResolvedGood DEF IInv
<1>3. v.pid # None
  BY <1>2
<1>4. proc[v.pid] # None
  <2>1. PICK p \in Paths("src", u.ns) : v = File(p)
    BY <1>1 DEF Resolved
  <2>2. v.pid = p
    BY <2>1 DEF File
  <2>3. CASE p \in InNs(u.ns)
    BY <1>1, <2>2, <2>3 DEF InNs
  <2>4. CASE p = file[<<"src", u.ns>>] /\ Readable(File(file[<<"src", u.ns>>]))
    BY <1>3, <2>2, <2>4 DEF Readable, File
  <2> QED
    BY <2>1, <2>3, <2>4 DEF Paths
<1> QED
  BY <1>1, <1>2, <1>3, <1>4 DEF Good

\* A step of the handler that leaves the devices and the processes alone
LEMMA SameHeld ==
  ASSUME UNCHANGED <<proc, dev>>, ~leak => Held
  PROVE  ~leak => \A l \in dev' : l.src \in ClientNs /\ InNs(l.src)' # {}
BY DEF Held, InNs

LEMMA LeakRequest ==
  ASSUME ClientStays, LeakInv, Request
  PROVE  EstAndHeld'
<1>1. PICK u \in ClientUrls : Receive(u)
  BY DEF Request
<1>2. PICK v \in Resolved("src", u) :
        op' = [Idle EXCEPT !.pc = "send", !.asked = u, !.src = v,
                           !.fresh = ~md.made]
  BY <1>1 DEF Receive
<1>3. op'.pc = "send" /\ op'.src = v /\ op'.fresh = ~md.made
  BY <1>2 DEF Idle
<1>4. /\ op.pc = "idle" /\ md'.made = TRUE /\ md'.stored = md.stored
      /\ UNCHANGED <<proc, est, dev>> /\ leak' = (leak /\ dev # {})
  BY <1>1 DEF Receive, LeakInv, IInv, TypeOK, MdType
<1>5. Live'
  BY <1>3, <1>4, ResolvedLive DEF LeakInv, Live
<1>6. EstGood'
  BY <1>3, <1>4 DEF LeakInv, EstGood
<1>7. ~leak' => Held'
  BY <1>3, <1>4 DEF LeakInv, Held, InNs
<1> QED
  BY <1>5, <1>6, <1>7 DEF EstAndHeld

\* The handler goes on with the same path for the client
LEMMA GoesOnHeld ==
  ASSUME LeakInv, UNCHANGED <<proc, est, dev, leak>>,
         op'.src = op.src, op'.fresh = op.fresh,
         md'.made = md.made, md'.stored = md.stored,
         op.pc \in {"send", "answer", "open", "create"},
         op'.pc \in {"answer", "open", "create", "failed", "unlink"}
  PROVE  EstAndHeld'
<1>1. EstGood'
  BY DEF LeakInv, EstGood
<1>2. ~leak => Live'
  BY DEF LeakInv, Live
<1>3. ~leak => Held'
  BY DEF LeakInv, Held, InNs
<1> QED
  BY <1>1, <1>2, <1>3 DEF EstAndHeld

LEMMA LeakSend ==
  ASSUME LeakInv, Send
  PROVE  EstAndHeld'
<1>1. /\ op'.src = op.src /\ op'.fresh = op.fresh
      /\ op'.pc \in {"answer", "unlink"} /\ op.pc = "send"
  BY DEF Send, Refused, LeakInv, IInv, TypeOK, OpType
<1>2. md'.made = md.made /\ md'.stored = md.stored
  BY DEF Send, LeakInv, IInv, TypeOK, MdType
<1> QED
  BY <1>1, <1>2, GoesOnHeld DEF Send

LEMMA LeakAnswer ==
  ASSUME LeakInv, Answer
  PROVE  EstAndHeld'
<1>1. /\ op'.src = op.src /\ op'.fresh = op.fresh
      /\ op'.pc \in {"open", "unlink"} /\ op.pc = "answer"
  BY DEF Answer, Refused, LeakInv, IInv, TypeOK, OpType
<1>2. md'.made = md.made /\ md'.stored = md.stored
  BY DEF Answer, LeakInv, IInv, TypeOK, MdType
<1> QED
  BY <1>1, <1>2, GoesOnHeld DEF Answer

LEMMA LeakOpen ==
  ASSUME LeakInv, Open
  PROVE  EstAndHeld'
<1>1. /\ op'.src = op.src /\ op'.fresh = op.fresh
      /\ op'.pc \in {"create", "failed", "unlink"} /\ op.pc = "open"
  BY DEF Open, CreateFailed, Goto, LeakInv, IInv, TypeOK, OpType
<1> QED
  BY <1>1, GoesOnHeld DEF Open

LEMMA LeakCreate ==
  ASSUME ClientStays, LeakInv, Create
  PROVE  EstAndHeld'
<1>1. /\ op'.src = op.src /\ op'.fresh = op.fresh /\ md'.made = md.made
      /\ op.pc = "create" /\ op'.pc # "idle" /\ UNCHANGED <<proc, est>>
  <2>1. op'.src = op.src /\ op'.fresh = op.fresh /\ op'.pc # "idle"
    BY DEF Create, CreateFailed, Goto, LeakInv, IInv, TypeOK, OpType
  <2>2. md'.made = md.made
    BY DEF Create, LeakInv, IInv, TypeOK, MdType
  <2> QED
    BY <2>1, <2>2 DEF Create
<1>2. EstGood'
  BY <1>1 DEF LeakInv, EstGood
<1>3. SUFFICES ASSUME ~leak'
               PROVE  Live' /\ Held'
  BY <1>2 DEF EstAndHeld
<1>4. PICK m : /\ dev' = {l \in dev : /\ l.src = None \/ l.src # op.at
                                      /\ l.dst = None \/ l.dst # m}
                           \cup {[src |-> op.at, dst |-> m]}
               /\ md'.stored = TRUE /\ op'.pc = "reply" /\ ~leak
  BY <1>3 DEF Create, ClientStays, Goto, LeakInv, IInv, TypeOK, OpType, MdType
<1>5. Live'
  BY <1>1, <1>4 DEF LeakInv, Live
<1>6. op.at \in ClientNs /\ op.src.pid \in InNs(op.at)
  <2>1. op.at = op.asked.ns /\ op.asked \in ClientUrls
    BY <1>1 DEF LeakInv, IInv, SrcGood
  <2>2. op.at \in ClientNs
    BY <2>1, ClientUrlIs
  <2>3. op.src.pid # None /\ proc[op.src.pid] \in ClientNs
    BY <1>1, <1>4 DEF LeakInv, Live
  <2>4. op.src.pid \in Pid
    BY <2>3, UrlKinds DEF LeakInv, IInv, TypeOK, OpType
  <2> QED
    BY <2>2, <2>3, <2>4 DEF ClientStays, InNs
<1>7. Held'
  BY <1>1, <1>4, <1>6 DEF LeakInv, Held, InNs
<1> QED
  BY <1>5, <1>7

LEMMA LeakReply ==
  ASSUME LeakInv, Reply
  PROVE  EstAndHeld'
<1>0. op.pc = "reply" /\ UNCHANGED <<proc, md, dev, leak>>
  BY DEF Reply
<1>1. CASE Goto("failed") /\ UNCHANGED <<file, est>> /\ ~Readable(op.src)
  <2>1. op'.pc = "failed" /\ op'.fresh = op.fresh
    BY <1>1 DEF Goto, LeakInv, IInv, TypeOK, OpType
  <2>2. leak
    BY <1>0, <1>1 DEF LeakInv, Live, Readable
  <2> QED
    BY <1>0, <1>1, <2>1, <2>2 DEF LeakInv, EstGood, EstAndHeld
<1>2. CASE est' = [on |-> TRUE, url |-> InodeOf(op.src)] /\ op' = Idle
  <2>1. op'.pc = "idle" /\ op'.fresh = FALSE
    BY <1>2 DEF Idle
  <2>2. est'.on /\ est'.url \in ClientUrls
    <3>1. op.asked \in ClientUrls /\ (est' # est => est'.url = op.asked)
      BY <1>0, <1>2, GoodReply DEF LeakInv, IInv, SrcGood, RightStep
    <3> QED
      BY <1>2, <3>1 DEF LeakInv, EstGood
  <2>3. EstGood'
    BY <1>0, <2>1, <2>2 DEF LeakInv, EstGood
  <2>4. ~leak => Live' /\ Held'
    BY <1>0, <2>1, <2>2 DEF LeakInv, Live, Held, InNs
  <2> QED
    BY <1>0, <2>3, <2>4 DEF EstAndHeld
<1> QED
  BY <1>1, <1>2 DEF Reply

LEMMA LeakFailed ==
  ASSUME LeakInv, Failed
  PROVE  EstAndHeld'
<1>1. /\ op.pc = "failed" /\ op'.pc = "idle" /\ op'.fresh = FALSE
      /\ UNCHANGED <<proc, est, dev, leak>>
      /\ md' = IF op.fresh THEN NoMd ELSE md
  BY DEF Failed, Idle
<1>2. EstGood'
  BY <1>1 DEF LeakInv, EstGood
<1>3. ~leak => Live' /\ Held'
  BY <1>1 DEF LeakInv, EstGood, Live, Held, InNs
<1> QED
  BY <1>1, <1>2, <1>3 DEF EstAndHeld

\* Where nobody is left in the client's namespace, its devices have gone
LEMMA LeakClose ==
  ASSUME ClientStays, LeakInv, Close
  PROVE  EstAndHeld'
<1>0. /\ op.pc = "idle" /\ est.on /\ est.url \in ClientUrls /\ md.made
      /\ UNCHANGED <<proc, dev>>
  BY DEF Close, LeakInv, EstGood
<1>1. ASSUME NEW v \in Resolved("src", est.url),
             op' = [Idle EXCEPT !.pc = "unlink", !.after = "end", !.src = v],
             UNCHANGED <<md, est, leak, faults>>
      PROVE  EstAndHeld'
  <2>1. op'.pc = "unlink" /\ op'.src = v /\ op'.fresh = FALSE
    BY <1>1 DEF Idle
  <2>2. EstGood'
    BY <1>0, <1>1, <2>1 DEF EstGood
  <2>3. Live'
    BY <1>0, <1>1, <2>1, ResolvedLive DEF LeakInv, Live
  <2>4. ~leak => Held'
    BY <1>0, <1>1, <2>1 DEF LeakInv, Held, InNs
  <2> QED
    BY <1>1, <2>2, <2>3, <2>4 DEF EstAndHeld
<1>2. CASE /\ Resolved("src", est.url) = {}
           /\ md' = NoMd /\ est' = NotEst /\ UNCHANGED <<op, leak, faults>>
  <2>1. est.url.ns \in ClientNs /\ est.url.ns # None
    BY <1>0, ClientUrlIs
  <2>2. Paths("src", est.url.ns) = {}
    BY <1>2, <2>1 DEF Resolved
  <2>3. InNs(est.url.ns) = {}
    BY <2>2 DEF Paths
  <2>4. ~leak => dev = {}
    BY <2>1, <2>3 DEF LeakInv, Held, ClientStays
  <2>5. EstGood'
    BY <1>0, <1>2 DEF LeakInv, EstGood, NotEst
  <2>6. ~leak => Live' /\ Held'
    BY <1>0, <1>2, <2>4 DEF Live, Held
  <2> QED
    BY <1>2, <2>5, <2>6 DEF EstAndHeld
<1>3. CASE est' = NotEst /\ leak' = TRUE /\ UNCHANGED <<file, md, op>>
  BY <1>0, <1>3 DEF LeakInv, EstGood, NotEst, EstAndHeld
<1> QED
  BY <1>1, <1>2, <1>3 DEF Close

\* The client's end is there to be deleted, and the device goes with it
LEMMA LeakUnlink ==
  ASSUME ClientStays, LeakInv, Unlink
  PROVE  EstAndHeld'
<1>1. /\ op.pc = "unlink" /\ op'.pc \in {"failed", "leave"}
      /\ op'.fresh = op.fresh /\ md'.made = md.made
      /\ UNCHANGED <<proc, est, leak>>
      /\ dev' = IF md.stored THEN Unlinked ELSE dev
  BY DEF Unlink, Goto, LeakInv, IInv, TypeOK, OpType, MdType
<1>2. EstGood'
  BY <1>1 DEF LeakInv, EstGood
<1>3. ASSUME ~leak
      PROVE  dev' = {}
  <2>1. CASE ~md.stored
    BY <1>1, <1>3, <2>1 DEF LeakInv, Held
  <2>2. CASE md.stored
    <3>1. op.src.pid # None /\ NsAt(op.src) \in ClientNs
      BY <1>1, <1>3 DEF LeakInv, Live, NsAt
    <3>2. NsAt(op.src) # None
      BY <3>1
    <3>3. Without(dev, "src", NsAt(op.src)) = {}
      BY <1>3, <3>1, <3>2 DEF LeakInv, Held, Without, ClientStays
    <3>4. \A n : Without({}, "dst", n) = {}
      BY DEF Without
    <3> QED
      BY <1>1, <2>2, <3>2, <3>3, <3>4 DEF Unlinked, ClientStays
  <2> QED
    BY <2>1, <2>2
<1> QED
  BY <1>1, <1>2, <1>3 DEF EstAndHeld, Live, Held

LEMMA LeakLeave ==
  ASSUME LeakInv, Leave
  PROVE  EstAndHeld'
<1>1. /\ op.pc = "leave" /\ op'.pc \in {"idle", "failed"}
      /\ UNCHANGED <<proc, dev, leak>>
  BY DEF Leave, Goto, Idle, LeakInv, IInv, TypeOK, OpType
<1>2. EstGood'
  BY DEF Leave, Goto, Idle, NotEst, LeakInv, EstGood, IInv, TypeOK, OpType, MdType
<1>3. ~leak => Live' /\ Held'
  BY <1>1 DEF LeakInv, Live, Held
<1> QED
  BY <1>1, <1>2, <1>3 DEF EstAndHeld

\* A process that ends takes the devices of an empty namespace with it
LEMMA LeakProcesses ==
  ASSUME LeakInv, moved' = 0, NEW p \in Pid,
         \/ Exit(p)
         \/ \E n \in Ns : Spawn(p, n)
         \/ \E q \in Pid : Enter(p, q)
  PROVE  EstAndHeld'
<1>0. ~Moves
  BY DEF LeakInv, IInv, TypeOK, Moves
<1>1. UNCHANGED <<md, est, op>> /\ dev' \subseteq dev
  BY DEF Exit, Spawn, Enter
<1>2. EstGood'
  BY <1>1 DEF LeakInv, EstGood
<1>3. CASE Exit(p)
  <2>1. SUFFICES ASSUME ~leak'
                 PROVE  Live' /\ Held'
    BY <1>2 DEF EstAndHeld
  <2>2. ~leak /\ p # op.src.pid
    BY <1>3, <2>1 DEF Exit
  <2>3. Live'
    BY <1>1, <1>3, <2>2 DEF LeakInv, Live, Exit, IInv, TypeOK
  <2>4. ASSUME NEW l \in dev'
        PROVE  InNs(l.src)' # {}
    <3>1. l \in dev /\ InNs(l.src) # {} /\ l.src \in Ns
      BY <1>1, <2>2, <2>4 DEF LeakInv, Held
    <3>2. CASE proc[p] # l.src
      BY <1>3, <3>1, <3>2 DEF Exit, InNs, IInv, LeakInv, TypeOK
    <3>3. CASE proc[p] = l.src
      <4>1. \E q \in Pid \ {p} : proc[q] = l.src
        BY <1>3, <2>4, <3>3 DEF Exit
      <4> QED
        BY <1>3, <4>1 DEF Exit, InNs, IInv, LeakInv, TypeOK
    <3> QED
      BY <3>2, <3>3
  <2> QED
    BY <1>1, <2>2, <2>3, <2>4 DEF LeakInv, Held
<1>4. CASE \E n \in Ns : Spawn(p, n)
  <2>1. PICK n \in Ns : Spawn(p, n)
    BY <1>4
  <2>2. \A q \in Pid : proc[q] # None => proc'[q] = proc[q]
    BY <2>1 DEF Spawn, LeakInv, IInv, TypeOK
  <2>3. ~leak => Live'
    <3>1. ASSUME op.src.pid # None PROVE op.src.pid \in Pid
      BY <3>1, UrlKinds DEF LeakInv, IInv, TypeOK, OpType
    <3> QED
      BY <1>1, <2>2, <3>1 DEF LeakInv, Live
  <2>4. ~leak => Held'
    BY <1>1, <2>1, <2>2 DEF LeakInv, Held, InNs, Spawn
  <2> QED
    BY <1>2, <2>1, <2>3, <2>4 DEF EstAndHeld, Spawn
<1>5. ~ \E q \in Pid : Enter(p, q)
  BY <1>0 DEF Enter
<1> QED
  BY <1>3, <1>4, <1>5

LEMMA LeakNext ==
  ASSUME ClientStays, LeakInv, [Next]_vars, moved' = 0
  PROVE  LeakInv'
<1>1. IInv'
  BY GoodNext DEF LeakInv
<1>2. CASE UNCHANGED vars
  BY <1>1, <1>2 DEF vars, LeakInv, EstGood, Live, Held, InNs
<1>3. CASE Request \/ Handler \/ Close
  BY <1>1, <1>3, LeakRequest, LeakSend, LeakAnswer, LeakOpen, LeakCreate, LeakReply,
     LeakFailed, LeakUnlink, LeakLeave, LeakClose DEF Handler, LeakInv, EstAndHeld
<1>4. CASE \E p \in Pid : Exit(p) \/ (\E n \in Ns : Spawn(p, n))
                                  \/ (\E q \in Pid : Enter(p, q))
  BY <1>1, <1>4, LeakProcesses DEF LeakInv, EstAndHeld
<1> QED
  BY <1>2, <1>3, <1>4 DEF Next

LEMMA LeakInit == Init => LeakInv
<1> SUFFICES ASSUME Init PROVE LeakInv
  OBVIOUS
<1>1. op.pc = "idle" /\ op.fresh = FALSE /\ ~est.on /\ dev = {}
  BY DEF Init, Idle, NotEst
<1> QED
  BY <1>1, GoodInit DEF LeakInv, EstGood, Live, Held

\* recvFDServer.Close, closeConnection: until a pid is given out again or a
\* process changes its namespace, a connection that has ended leaves no
\* device, however many processes of its namespaces have ended since it was
\* made; unless one ended just while its path was in use.
THEOREM FilesNoLeakTheorem ==
  ASSUME ClientStays PROVE Spec => []NoLeak
<1> DEFINE LInv == TypeOK /\ (moved = 0 => LeakInv)
<1>1. Init => LInv
  BY LeakInit, TypeInit
<1>2. LInv /\ [Next]_vars => LInv'
  <2> SUFFICES ASSUME LInv, [Next]_vars
               PROVE  LInv'
    OBVIOUS
  <2>1. TypeOK'
    BY TypeNext
  <2>2. CASE moved' = moved
    BY <2>1, <2>2, LeakNext
  <2>3. CASE moved' # moved
    BY <2>1, <2>3, MovedStep
  <2> QED
    BY <2>2, <2>3
<1>3. LInv => NoLeak
  BY DEF NoLeak, LeakInv, Held
<1> QED
  BY <1>1, <1>2, <1>3, PTL DEF Spec

=============================================================================
