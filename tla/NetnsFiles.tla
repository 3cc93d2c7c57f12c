----------------------------- MODULE NetnsFiles -----------------------------
(***************************************************************************)
(* How the forwarder names network namespaces: recvfd, sendfd and the file *)
(* system tools, for one connection.                                       *)
(*                                                                         *)
(* Over the wire a mechanism names its namespace by the inode; on the node *)
(* recvfd replaces that by /proc/<pid>/ns/net of a process it finds there, *)
(* and sendfd replaces the file by the inode it has when the message       *)
(* leaves.  Processes come and go meanwhile.  On the way of a request:     *)
(*                                                                         *)
(*   metadata > recvfd server > sendfd server > xconnect                   *)
(*     > mechanismtranslation > recvfd client > sendfd client > endpoint   *)
(***************************************************************************)
EXTENDS Naturals

CONSTANTS
  Pid,
  Ns,          \* network namespaces, by their inodes
  None,
  ClientNs,    \* where the client of the connection may be
  EndpointNs,  \* where its endpoint may be
  Ends,        \* the ends on this node: "src" the client, "dst" the endpoint
  MaxFaults,   \* bound: failures injected in a behaviour
  MaxMoved     \* bound on moved

ASSUME FilesOK ==
  /\ None \notin Pid \cup Ns
  /\ ClientNs \subseteq Ns /\ EndpointNs \subseteq Ns
  /\ Ends \subseteq {"src", "dst"}
  /\ MaxFaults \in Nat /\ MaxMoved \in Nat

VARIABLES
  proc,    \* the namespace a process is in, None: no such process
  used,    \* pids that have had a process
  moved,   \* times a pid came to stand for another namespace
  file,    \* filesByInodeURL of recvfd's server ("src") and client ("dst")
  md,      \* per connection metadata
  est,     \* begin: an established connection, and its mechanism's URL
  op,      \* the running handler
  dev,     \* devices: the namespaces their ends are in
  leak,    \* ghost: something happened that may strand a device
  faults

vars == <<proc, used, moved, file, md, est, op, dev, leak, faults>>

\* Values of the parameter inodeURL: inode://<dev>/<n>, and
\* file:///proc/<p>/ns/net
NoUrl == [ns |-> None, pid |-> None]
Inode(n) == [ns |-> n, pid |-> None]
File(p) == [ns |-> None, pid |-> p]

UrlsOf(end, nss) == IF end \in Ends THEN {Inode(n) : n \in nss} ELSE {NoUrl}
ClientUrls == UrlsOf("src", ClientNs)
EndpointUrls == UrlsOf("dst", EndpointNs)

\* held: the mechanism mechanismtranslation has; dst: xconnect's dstMech,
\* if stored, and whether that is the same object
NoMd == [made |-> FALSE, held |-> NoUrl,
         stored |-> FALSE, dst |-> NoUrl, same |-> FALSE]
NotEst == [on |-> FALSE, url |-> NoUrl]
Idle == [pc |-> "idle", asked |-> NoUrl, src |-> NoUrl, back |-> NoUrl,
         named |-> NoUrl, dst |-> NoUrl, at |-> None, after |-> "failed",
         fresh |-> FALSE]

\* No process is running for the connection yet
Init ==
  /\ proc = [p \in Pid |-> None]
  /\ used = {} /\ moved = 0
  /\ file = [k \in {"src", "dst"} \X Ns |-> None]
  /\ md = NoMd
  /\ est = NotEst
  /\ op = Idle
  /\ dev = {}
  /\ leak = FALSE
  /\ faults = 0

Goto(pc) == op' = [op EXCEPT !.pc = pc]
Fault == faults < MaxFaults /\ faults' = faults + 1

-----------------------------------------------------------------------------
(* recvfd and sendfd *)

\* GetNetnsFilePath: the first process whose namespace has the inode; which
\* one comes first depends on the pids
InNs(n) == {p \in Pid : proc[p] = n}

\* GetNetnsInodeFromFile, os.Stat: there is a process with that pid
Readable(u) == u.pid # None => proc[u.pid] # None

\* recvFDAndSwapInodeToFile: a path used before is used again if it is there
NeverChecked(end, n) ==                  \* mutant: whether it is there or not
  IF file[<<end, n>>] # None THEN {file[<<end, n>>]} ELSE InNs(n)
Paths(end, n) ==
  IF file[<<end, n>>] # None /\ Readable(File(file[<<end, n>>]))
  THEN {file[<<end, n>>]} ELSE InNs(n)
Resolved(end, u) ==
  IF u.ns = None THEN {u} ELSE {File(p) : p \in Paths(end, u.ns)}
Recorded(end, u, v) ==
  file' = IF u.ns = None THEN file ELSE [file EXCEPT ![<<end, u.ns>>] = v.pid]

\* sendfd's swapFileToInode, for a readable file
InodeOf(u) == IF u.pid = None THEN u ELSE Inode(proc[u.pid])

\* recvfd's swapFileToInode: beside the inode it translates back to, it
\* forgets what it has received
SwapBack(u) ==
  IF u.pid = None THEN file
  ELSE [k \in DOMAIN file |->
          IF k[1] = "src" /\ file[k] # u.pid THEN None ELSE file[k]]

LeftOut(end) ==                          \* mutant: the map is given up itself
  [k \in {k \in DOMAIN file : k[1] # end} |-> file[k]]
Forgotten(end) ==
  [k \in DOMAIN file |-> IF k[1] = end THEN None ELSE file[k]]

-----------------------------------------------------------------------------
(* Request *)

\* recvfd's server, on the way down.  Where no process is left in the
\* namespace the request fails, and nothing has changed.
Receive(u) ==
  /\ op.pc = "idle"
  /\ \E v \in Resolved("src", u) :
       /\ Recorded("src", u, v)
       /\ op' = [Idle EXCEPT !.pc = "send", !.asked = u, !.src = v,
                             !.fresh = ~md.made]
  /\ md' = [md EXCEPT !.made = TRUE]
  /\ leak' = (leak /\ dev # {})
  /\ UNCHANGED <<proc, used, moved, est, dev, faults>>

Request == \E u \in ClientUrls : Receive(u)

\* xconnect.Request: next returned an error
Refused == op' = [op EXCEPT !.pc = "unlink", !.after = "failed"]

\* sendfd's client, on the way down: the mechanism it gets is the one
\* mechanismtranslation has stored, and it is changed in place
Send ==
  LET u == InodeOf(md.held) IN
  /\ op.pc = "send"
  /\ \/ /\ Readable(md.held)
        /\ md' = [md EXCEPT !.held = u, !.dst = IF md.same THEN u ELSE @]
        /\ op' = [op EXCEPT !.pc = "answer", !.back = md.held]
     \/ ~Readable(md.held) /\ Refused /\ UNCHANGED md
  /\ UNCHANGED <<proc, used, moved, file, est, dev, leak, faults>>

\* The endpoint's answer, which sendfd's client translates back if it has
\* the inode that was sent
AnyAnswer(u) ==                          \* mutant: whatever the answer names
  IF op.back.pid # None THEN op.back ELSE u
TranslatedBack(u) ==
  IF op.back.pid # None /\ u = md.held THEN op.back ELSE u

\* ... and recvfd's client otherwise: then mechanismtranslation and xconnect
\* store it.  The endpoint may refuse, or no process be found.
Answer ==
  /\ op.pc = "answer"
  /\ \/ \E u \in EndpointUrls : \E v \in Resolved("dst", TranslatedBack(u)) :
          /\ Recorded("dst", TranslatedBack(u), v)
          /\ md' = [md EXCEPT !.held = v, !.same = FALSE]
          /\ op' = [op EXCEPT !.pc = "open", !.named = u, !.dst = v]
          /\ UNCHANGED faults
     \/ /\ \E u \in EndpointUrls : Resolved("dst", TranslatedBack(u)) = {}
        /\ Refused /\ UNCHANGED <<file, md, faults>>
     \/ Fault /\ Refused /\ UNCHANGED <<file, md>>
  /\ UNCHANGED <<proc, used, moved, est, dev, leak>>

-----------------------------------------------------------------------------
(* xconnect, as far as it opens namespaces: XConnect has the rest *)

\* nshandle.FromURL.  For an inode URL that is the forwarder's namespace,
\* where no device of the connection is.
NsAt(u) == IF u.pid = None THEN None ELSE proc[u.pid]

BothEnds == Ends = {"src", "dst"}

\* A failed Create: of a tunnel, xconnect closes; of a veth pair, it returns
CreateFailed ==
  IF BothEnds THEN Goto("failed")
  ELSE op' = [op EXCEPT !.pc = "unlink", !.after = "undo"]

\* Create opens the namespace of the first end
Open ==
  LET n == NsAt(op.src) IN
  /\ op.pc = "open"
  /\ \/ /\ "src" \in Ends => n # None
        /\ UNCHANGED faults
        /\ op' = [op EXCEPT !.pc = "create", !.at = n]
     \/ "src" \in Ends /\ n = None /\ CreateFailed /\ UNCHANGED faults
     \/ Fault /\ CreateFailed
  /\ UNCHANGED <<proc, used, moved, file, md, est, dev, leak>>

\* ... and of the second one, and the devices replace those in their place.
\* If only that fails, half a pair is left.
Create ==
  LET m == NsAt(op.dst)
      added(n) == [src |-> op.at, dst |-> n]
      others(n) == {l \in dev : /\ l.src = None \/ l.src # op.at
                                /\ l.dst = None \/ l.dst # n}
  IN
  /\ op.pc = "create"
  /\ \/ /\ "dst" \in Ends => m # None
        /\ dev' = others(m) \cup {added(m)}
        /\ md' = [md EXCEPT !.stored = TRUE, !.dst = op.dst, !.same = TRUE]
        /\ Goto("reply") /\ UNCHANGED <<leak, faults>>
     \/ /\ "dst" \in Ends /\ m = None /\ CreateFailed /\ UNCHANGED <<md, faults>>
        /\ dev' = others(None) \cup {added(None) : x \in Ends \cap {"src"}}
        /\ leak' = (leak \/ "src" \in Ends)
  /\ UNCHANGED <<proc, used, moved, file, est>>

\* The answer to the client: sendfd's server, then recvfd's, which has
\* nothing to swap back any more; the client or begin may not get it
Reply ==
  LET u == InodeOf(op.src) IN
  /\ op.pc = "reply"
  /\ \/ /\ Readable(op.src)
        /\ file' = SwapBack(u)
        /\ est' = [on |-> TRUE, url |-> u]
        /\ op' = Idle
     \/ ~Readable(op.src) /\ Goto("failed") /\ UNCHANGED <<file, est>>
  /\ UNCHANGED <<proc, used, moved, md, dev, leak, faults>>

\* The request fails; metadata drops what the request has made
Failed ==
  /\ op.pc = "failed"
  /\ op' = Idle
  /\ md' = IF op.fresh THEN NoMd ELSE md
  /\ UNCHANGED <<proc, used, moved, file, est, dev, leak, faults>>

-----------------------------------------------------------------------------
(* Close *)

\* begin closes the established connection: recvfd's server, on the way
\* down.  It returns where no process is left in the namespace; updatetoken
\* or authorize may return even before metadata.
Close ==
  /\ op.pc = "idle" /\ est.on
  /\ \/ \E v \in Resolved("src", est.url) :
          /\ Recorded("src", est.url, v)
          /\ op' = [Idle EXCEPT !.pc = "unlink", !.after = "end", !.src = v]
          /\ UNCHANGED <<md, est, leak, faults>>
     \/ /\ Resolved("src", est.url) = {}
        /\ file' = Forgotten("src") /\ md' = NoMd /\ est' = NotEst
        /\ UNCHANGED <<op, leak, faults>>
     \/ Fault /\ est' = NotEst /\ leak' = TRUE /\ UNCHANGED <<file, md, op>>
  /\ UNCHANGED <<proc, used, moved, dev>>

\* closeConnection: the client's end first, whose failure ends it
Without(links, end, n) == {l \in links : n = None \/ l[end] # n}
Unlinked ==
  LET n == NsAt(op.src)
      m == NsAt(IF op.after = "undo" THEN op.dst ELSE md.dst)
      left == IF "src" \in Ends THEN Without(dev, "src", n) ELSE dev
  IN IF ("src" \in Ends /\ n = None) \/ "dst" \notin Ends THEN left
     ELSE Without(left, "dst", m)

Unlink ==
  /\ op.pc = "unlink"
  /\ dev' = IF md.stored THEN Unlinked ELSE dev
  /\ md' = [md EXCEPT !.stored = FALSE, !.dst = NoUrl, !.same = FALSE]
  /\ Goto(IF op.after = "failed" THEN "failed" ELSE "leave")
  /\ UNCHANGED <<proc, used, moved, file, est, leak, faults>>

\* mechanismtranslation, recvfd's and sendfd's client, and back through the
\* servers: whatever fails on the way, the file maps are given up
Leave ==
  /\ op.pc = "leave"
  /\ IF op.after = "end"
     THEN /\ file' = [k \in DOMAIN file |-> None]
          /\ md' = NoMd /\ est' = NotEst /\ op' = Idle
     ELSE /\ file' = Forgotten("dst")
          /\ md' = [md EXCEPT !.held = NoUrl] /\ Goto("failed") /\ UNCHANGED est
  /\ UNCHANGED <<proc, used, moved, dev, leak, faults>>

-----------------------------------------------------------------------------
(* Processes *)

Moves == moved < MaxMoved /\ moved' = moved + 1

\* A process starts in a namespace; a pid is given out again
Spawn(p, n) ==
  /\ proc[p] = None
  /\ proc' = [proc EXCEPT ![p] = n] /\ used' = used \cup {p}
  /\ IF p \in used THEN Moves ELSE UNCHANGED moved
  /\ UNCHANGED <<file, md, est, op, dev, leak, faults>>

\* A process ends; with the last one of a namespace go its devices.  A path
\* that a handler has just got may be of no use any more.
Exit(p) ==
  LET gone == {proc[p]} \ {proc[q] : q \in Pid \ {p}} IN
  /\ proc[p] # None
  /\ proc' = [proc EXCEPT ![p] = None]
  /\ dev' = {l \in dev : l.src \notin gone /\ l.dst \notin gone}
  /\ leak' = (leak \/ p \in {op.src.pid, op.dst.pid})
  /\ UNCHANGED <<used, moved, file, md, est, op, faults>>

\* setns: a process enters the namespace of another
Enter(p, q) ==
  /\ proc[p] # None /\ proc[q] \notin {None, proc[p]} /\ InNs(proc[p]) # {p}
  /\ proc' = [proc EXCEPT ![p] = proc[q]] /\ Moves
  /\ UNCHANGED <<used, file, md, est, op, dev, leak, faults>>

Handler ==
  \/ Send \/ Answer \/ Open \/ Create \/ Reply \/ Failed \/ Unlink \/ Leave

Next ==
  \/ Request \/ Handler \/ Close
  \/ \E p \in Pid : Exit(p) \/ (\E n \in Ns : Spawn(p, n)) \/ (\E q \in Pid : Enter(p, q))

Spec == Init /\ [][Next]_vars

\* Handlers go on, and the client keeps asking for its connection
FairSpec == Spec /\ WF_vars(Handler) /\ SF_vars(Request)

-----------------------------------------------------------------------------
(* Properties *)

NsOrNone == Ns \cup {None}
PidOrNone == Pid \cup {None}
Url == {NoUrl} \cup {Inode(n) : n \in Ns} \cup {File(p) : p \in Pid}
MdType == [made : BOOLEAN, held : Url, stored : BOOLEAN, dst : Url, same : BOOLEAN]
OpType ==
  [pc : {"idle", "send", "answer", "open", "create", "reply", "failed",
         "unlink", "leave"},
   asked : Url, src : Url, back : Url, named : Url, dst : Url, at : NsOrNone,
   after : {"failed", "undo", "end"}, fresh : BOOLEAN]

\* Every variable keeps to its values, whatever processes do.
TypeOK ==
  /\ proc \in [Pid -> NsOrNone]
  /\ used \in SUBSET Pid /\ moved \in 0..MaxMoved
  /\ file \in [{"src", "dst"} \X Ns -> PidOrNone]
  /\ md \in MdType
  /\ est \in [on : BOOLEAN, url : Url]
  /\ op \in OpType
  /\ dev \in SUBSET [src : NsOrNone, dst : NsOrNone]
  /\ leak \in BOOLEAN
  /\ faults \in 0..MaxFaults

\* recvFDAndSwapInodeToFile, swapFileToInode: whatever paths are remembered
\* and whichever processes end in between, a device is put only into the
\* namespaces that the client and the endpoint have named, and the client is
\* told its own; until a pid is given out again, or a process changes its
\* namespace, which no path shows.
RightNamespace ==
  [][moved = 0 =>
     /\ \A l \in dev' \ dev : l.src = op.asked.ns /\ l.dst \in {None, op.named.ns}
     /\ est' # est /\ est'.on => est'.url = op.asked]_vars

\* recvFDServer.Close: when a connection has ended, its devices are gone,
\* however many processes of its namespaces have ended since it was made;
\* unless one ended just while its path was in use, or a pid moved.
NoLeak == moved = 0 /\ op.pc = "idle" /\ ~est.on /\ ~leak => dev = {}

\* recvfd/common.go:60, "Check if the file is present": as long as the
\* namespaces have a process each, some request that the client sends gets
\* through, whatever has become of the processes used before.
Alive == \A u \in ClientUrls \cup EndpointUrls : u.ns # None => InNs(u.ns) # {}
Recovers == <>[]Alive => []<>(op.pc = "reply")

=============================================================================
