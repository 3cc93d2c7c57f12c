------------------------------ MODULE XConnect ------------------------------
(***************************************************************************)
(* The cross connect of one kernel forwarder: what the endpoint chain of   *)
(* internal/networkservice/chains/forwarder/server.go does, from the       *)
(* moment the begin element has serialised the calls of one connection id  *)
(* to the moment the call returns.                                         *)
(*                                                                         *)
(*   begin > metadata > recvfd > discover > roundrobin > connectioncontext *)
(*     > xconnect > mechanisms > connect > (client) dial > xconnect client *)
(*                                                                         *)
(* Calls of one connection never overlap (begin); calls of different       *)
(* connections interleave between any two netlink calls.  op[c] holds the  *)
(* local variables of the handler running for c, md[c] the metadata of c   *)
(* (lost with the process), links the devices of the node (not lost).      *)
(***************************************************************************)
EXTENDS Naturals, FiniteSets, Netlink

CONSTANTS
  Conn,       \* connection ids
  Endpoint,   \* network service endpoints (candidates of roundrobin)
  Node,       \* what a client URL of an endpoint leads to
  Null,
  SrcCls,     \* class of the mechanism towards the client, per connection
  DstCls,     \* class of the mechanism towards the endpoint
  Url,        \* the client URL discover finds for an endpoint
  FwdNs,      \* the forwarder's own network namespace
  ClientIf,   \* place of the client's interface, per connection
  NseIf,      \* place of the endpoint's interface, per connection, endpoint
  LinkName,   \* linuxIfaceName(connId)
  PeerName,   \* linuxIfaceName("peer-" + connId)
  MaxFaults   \* bound: failures injected in a behaviour

VARIABLES
  links,      \* devices of the node
  est,        \* begin: the endpoint of the established request, or Null
  md,         \* per connection metadata
  op,         \* the running handler
  sess,       \* nodes that hold a session the forwarder opened for c
  held,       \* the endpoint name in the connection the client holds
  leak,       \* ghost: devices of c may have been left (see Strand, Crash,
              \* Delete)
  faults      \* failures injected so far

vars == <<links, est, md, op, sess, held, leak, faults>>

Classes == {"LOCAL", "REMOTE"}
Ends == {"src", "dst"}
Candidates(c) == {e \in Endpoint : "LOCAL" \in {SrcCls[c], DstCls[e]}}

ASSUME ConstantsOK ==
  /\ Null \notin Endpoint \cup Node
  /\ SrcCls \in [Conn -> Classes]
  /\ DstCls \in [Endpoint -> Classes]
  /\ Url \in [Endpoint -> Node]
  /\ MaxFaults \in Nat
  /\ IsFiniteSet(Endpoint)

Outgoing(c) == SrcCls[c] = "LOCAL"
IsLocal(c, e) == SrcCls[c] = "LOCAL" /\ DstCls[e] = "LOCAL"

\* The cache key of the first interface a request makes: isSrc, outgoing
FirstEnd(c) == IF Outgoing(c) THEN "src" ELSE "dst"
EndPlace(c, e, end) == IF end = "src" THEN ClientIf[c] ELSE NseIf[c][e]
LinksOf(c) == {l \in links : l.owner = c}

Kind(c, e) == IF IsLocal(c, e) THEN "veth" ELSE "vxlan"

\* getVethLinkNamePair, getVxlanLinkName: the name the device has before
\* it gets the one the mechanism asks for
SharedName(c, e, end) == LinkName[CHOOSE d \in Conn : TRUE]  \* mutants
NamePerEndpoint(c, e, end) == <<LinkName[c], e, end>>
DevName(c, e, end) ==
  IF IsLocal(c, e) /\ end = "dst" THEN PeerName[c] ELSE LinkName[c]

\* The device with that name, in the namespace where end belongs
Inserted(c, e, end) == <<EndPlace(c, e, end)[1], DevName(c, e, end)>>

SwappedIPs(c, e, end) ==                 \* mutant: the tunnel ends here
  [owner |-> c, kind |-> Kind(c, e), end |-> end, to |-> Null,
   at |-> <<FwdNs, DevName(c, e, end)>>]
NewLink(c, e, end) ==
  [owner |-> c, kind |-> Kind(c, e), end |-> end,
   to |-> IF DstCls[e] = "REMOTE" THEN Url[e] ELSE Null,
   at |-> <<FwdNs, DevName(c, e, end)>>]

\* How the stored mechanism names the endpoint's namespace.  A mechanism
\* just received is stored for xconnect and for mechanismtranslation: one
\* object, in which sendfd rewrites the file URL to an inode URL, and back
\* only when the endpoint has answered.
Names == {"file", "shared", "inode"}
StoredName(e) == IF DstCls[e] = "LOCAL" THEN "shared" ELSE "file"
SentName(n) == IF n = "shared" THEN "inode" ELSE n
ClosedName(n) == IF n = "shared" THEN "file" ELSE n

NoMd == [made |-> FALSE, dst |-> Null, cache |-> {}, dial |-> Null,
         named |-> "file"]
Idle == [pc |-> "idle", cur |-> Null, tries |-> 0, bare |-> FALSE,
         fresh |-> FALSE,
         end |-> "src", arg |-> "NONE", after |-> "failed", doomed |-> Null,
         inode |-> FALSE, lost |-> FALSE]

Init ==
  /\ links = {}
  /\ est = [c \in Conn |-> Null]
  /\ md = [c \in Conn |-> NoMd]
  /\ op = [c \in Conn |-> Idle]
  /\ sess = [c \in Conn |-> {}]
  /\ held = [c \in Conn |-> Null]
  /\ leak = [c \in Conn |-> FALSE]
  /\ faults = 0

-----------------------------------------------------------------------------
(* Where a handler goes next *)

Goto(c, pc) == op' = [op EXCEPT ![c].pc = pc]

Fault == faults < MaxFaults /\ faults' = faults + 1
NoFault == UNCHANGED <<faults, leak>>
Strand(c) == Fault /\ leak' = [leak EXCEPT ![c] = TRUE]

\* closeConnection(ctx, conn), conn with a mechanism of class arg
CallClose(c, arg, after) ==
  op' = [op EXCEPT ![c].pc = "close", ![c].arg = arg, ![c].after = after]

\* The error return of veth.Create, and of vxlan.Create: only the latter
\* makes xconnect close, with the tunnel mechanism in the connection
CreateFailed(c) ==
  IF IsLocal(c, op[c].cur) THEN Goto(c, "failed")
                           ELSE CallClose(c, "REMOTE", "undo")

\* Both return nil: on to the other end of the veth pair, or out of
\* handleLocalConnection; handleRemoteConnection's caller stores dstMech
Created(c, cache) ==
  LET e == op[c].cur
      veth == IsLocal(c, e)
      pc == IF veth /\ op[c].end = "src" THEN "check"
            ELSE IF ~veth /\ Outgoing(c) THEN "apply" ELSE "configure"
  IN
  /\ md' = [md EXCEPT ![c].cache = cache, ![c].dst = IF veth THEN @ ELSE e,
                      ![c].named = IF veth THEN @ ELSE StoredName(e)]
  /\ op' = [op EXCEPT ![c].pc = pc, ![c].end = IF veth THEN "dst" ELSE @]

\* The process dies and comes back: everything in memory is lost
Crash ==
  /\ est' = [c \in Conn |-> Null]
  /\ md' = [c \in Conn |-> NoMd]
  /\ op' = [c \in Conn |-> Idle]
  /\ leak' = [c \in Conn |-> leak[c] \/ LinksOf(c) # {}]
  /\ UNCHANGED <<links, sess, held>>

-----------------------------------------------------------------------------
(* Calls from the client *)

\* begin's executor: a call of c starts when no other is running
AnyTime(c) == TRUE                       \* mutant: calls may overlap
Free(c) == op[c].pc = "idle"

Start(c, e, n, bare) ==
  /\ Free(c)
  /\ op' = [op EXCEPT ![c] = [Idle EXCEPT !.pc = "call", !.cur = e, !.tries = n,
                                          !.bare = bare, !.fresh = ~md[c].made]]
  /\ md' = [md EXCEPT ![c].made = TRUE]
  /\ leak' = [leak EXCEPT ![c] = @ /\ LinksOf(c) # {}]
  /\ UNCHANGED <<links, est, sess, held, faults>>

\* A request that selects: the first one, its retry after a lost answer, or
\* the one heal sends.  It carries preferences and no mechanism (bare), and
\* roundrobin tries as many endpoints as there are candidates.  A request
\* from another forwarder names the endpoint, and carries the mechanism its
\* mechanismtranslation holds, whatever endpoint that came from.
Select(c) ==
  \E e \in Candidates(c) :
    \/ Outgoing(c) /\ Start(c, e, Cardinality(Candidates(c)) - 1, TRUE)
    \/ ~Outgoing(c) /\ \E bare \in {TRUE, held[c] = Null} : Start(c, e, 0, bare)

\* A refresh: the client sends the connection it holds
Refresh(c) == held[c] # Null /\ Start(c, held[c], 0, FALSE)

\* Close from the client, or by the timer of the timeout element.  begin
\* closes the connection of the last established request, and forgets it
\* whatever comes of the Close.  recvfd returns early when the client's
\* namespace cannot be found: the elements below, xconnect among them, do not
\* see the Close.  updatetoken and authorize, which refuses expired tokens,
\* return even before metadata does.
Close(c) ==
  /\ Free(c) /\ est[c] # Null
  /\ \/ CallClose(c, SrcCls[c], "end") /\ UNCHANGED <<est, md>> /\ NoFault
     \/ /\ Strand(c) /\ est' = [est EXCEPT ![c] = Null] /\ UNCHANGED op
        /\ md' \in {md, [md EXCEPT ![c] = NoMd]}
  /\ held' \in {held, [held EXCEPT ![c] = Null]}
  /\ UNCHANGED <<links, sess>>

-----------------------------------------------------------------------------
(* Request, on the way down: the dial client, the endpoint's answer *)

NamedOnly(c) ==                          \* mutant: not when it is selected anew
  ~op[c].bare /\ md[c].dial # Null /\ Url[md[c].dial] # Url[op[c].cur]
Switching(c) == md[c].dial # Null /\ Url[md[c].dial] # Url[op[c].cur]
SetDial(c, e, named) ==
  md' = [md EXCEPT ![c].dial = e, ![c].named = named]

\* xconnect.Request: next returned an error
Refused(c) == CallClose(c, IF op[c].bare THEN "NONE" ELSE SrcCls[c], "failed")

\* The metadata holds a connection to another URL: redial it, close it.
\* If redialling fails the request fails; if closing fails it goes on.
SwitchPeer(c) ==
  LET n == md[c].named IN
  /\ op[c].pc = "call" /\ Switching(c)
  /\ \/ /\ sess' = [sess EXCEPT ![c] = @ \ {Url[md[c].dial]}]
        /\ SetDial(c, Null, ClosedName(n)) /\ UNCHANGED <<op, faults>>
     \/ Fault /\ SetDial(c, Null, SentName(n)) /\ UNCHANGED <<sess, op>>
     \/ Fault /\ SetDial(c, Null, n) /\ Refused(c) /\ UNCHANGED sess
  /\ UNCHANGED <<links, est, held, leak>>

\* The endpoint accepts, and the xconnect client keeps its mechanism; the
\* one stored before was sent, and what is translated back is the answer
Accept(c) ==
  /\ op[c].pc = "call" /\ ~Switching(c)
  /\ sess' = [sess EXCEPT ![c] = @ \cup {Url[op[c].cur]}]
  /\ SetDial(c, op[c].cur, SentName(md[c].named))
  /\ op' = [op EXCEPT ![c].pc = "check", ![c].end = FirstEnd(c)]
  /\ UNCHANGED <<links, est, held>> /\ NoFault

\* The endpoint refuses; or cannot be dialled; or it accepted, and its
\* answer is lost or the recvfd client fails on it
Refuse(c) ==
  LET sent == SentName(md[c].named) IN
  /\ op[c].pc = "call" /\ ~Switching(c)
  /\ Refused(c)
  /\ \/ SetDial(c, op[c].cur, sent) /\ UNCHANGED <<sess, faults>>
     \/ SetDial(c, Null, md[c].named) /\ Fault /\ UNCHANGED sess
     \/ /\ SetDial(c, op[c].cur, sent) /\ Fault
        /\ sess' = [sess EXCEPT ![c] = @ \cup {Url[op[c].cur]}]
  /\ UNCHANGED <<links, est, held, leak>>

-----------------------------------------------------------------------------
(* veth.Create and vxlan.Create *)

Here(c) == EndPlace(c, op[c].cur, op[c].end)

\* A link in the cache, and an interface of the name: nothing to do
NeverCached(c) == FALSE                          \* mutant: always anew
Cached(c) == op[c].end \in md[c].cache /\ At(links, Here(c)) # {}

\* When there is work to do, the interface of the name is deleted first
Check(c) ==
  /\ op[c].pc = "check"
  /\ IF Cached(c)
     THEN Created(c, md[c].cache) /\ UNCHANGED links /\ NoFault
     ELSE \/ /\ links' = LinkDel(links, Here(c))
             /\ Goto(c, IF IsLocal(c, op[c].cur) /\ op[c].end = "dst"
                        THEN "move" ELSE "add")
             /\ UNCHANGED md /\ NoFault
          \/ Strand(c) /\ CreateFailed(c) /\ UNCHANGED <<links, md>>
  /\ UNCHANGED <<est, sess, held>>

\* The devices LinkAdd makes, for a veth both of its ends at once
Added(c) ==
  LET e == op[c].cur IN
  {NewLink(c, e, end) : end \in IF IsLocal(c, e) THEN Ends ELSE {op[c].end}}

\* In the forwarder's namespace.  The kernel refuses a name that is
\* taken there, and a second tunnel with the same VNI: the connection keeps
\* its VNI while dstMech is stored, otherwise it may or may not be the VNI
\* of a tunnel left behind.
Add(c) ==
  LET free == \A l \in Added(c) : At(links, l.at) = {}
      tunnels == {l \in LinksOf(c) : l.kind = "vxlan" /\ ~IsLocal(c, op[c].cur)}
      kept == {l \in tunnels : /\ ~Outgoing(c) /\ md[c].dst # Null
                               /\ l.at = NseIf[c][md[c].dst]}
  IN
  /\ op[c].pc = "add"
  /\ \/ /\ free /\ kept = {} /\ NoFault
        /\ links' = links \cup Added(c) /\ Goto(c, "move")
     \/ ~(free /\ tunnels = {}) /\ CreateFailed(c) /\ UNCHANGED links /\ NoFault
     \/ Strand(c) /\ CreateFailed(c) /\ UNCHANGED links
  /\ UNCHANGED <<est, md, sess, held>>

\* LinkByName and LinkSetNsFd: into the namespace of the mechanism
Move(c) ==
  LET dev == At(links, <<FwdNs, DevName(c, op[c].cur, op[c].end)>>)
      dest == Inserted(c, op[c].cur, op[c].end)
      free == At(links, dest) = {}
  IN
  /\ op[c].pc = "move"
  /\ \/ /\ free /\ NoFault
        /\ \E l \in dev : links' = LinkMove(links, l, dest)
        /\ Goto(c, "rename")
     \/ (dev = {} \/ ~free) /\ CreateFailed(c) /\ UNCHANGED links /\ NoFault
     \/ Strand(c) /\ CreateFailed(c) /\ UNCHANGED links
  /\ UNCHANGED <<est, md, sess, held>>

\* LinkByName there, and LinkSetName: the links with the device renamed
Renamed(c) ==
  {LinkMove(links, l, Here(c)) :
     l \in At(links, Inserted(c, op[c].cur, op[c].end))}

\* ... LinkSetAlias, LinkSetUp, link.Store.  A failure after LinkSetName
\* leaves the link in place, not in the cache.
Rename(c) ==
  LET dev == At(links, Inserted(c, op[c].cur, op[c].end))
      free == At(links, Here(c)) = {}
  IN
  /\ op[c].pc = "rename"
  /\ dev = {} => IsLocal(c, op[c].cur)
  /\ \/ free /\ links' \in Renamed(c) /\ NoFault
        /\ Created(c, md[c].cache \cup {op[c].end})
     \/ (dev = {} \/ ~free) /\ CreateFailed(c) /\ UNCHANGED <<links, md>> /\ NoFault
     \/ /\ Strand(c) /\ CreateFailed(c) /\ UNCHANGED md
        /\ links' \in {links} \cup (IF free THEN Renamed(c) ELSE {})
  /\ UNCHANGED <<est, sess, held>>

-----------------------------------------------------------------------------
(* The connection context, and the way back up *)

\* The connection context client configures the endpoint's interface; its
\* failure is returned without a close.  After a local success dstMech is
\* stored; for a tunnel from another node it already was.
Configure(c) ==
  LET e == op[c].cur
      present == At(links, NseIf[c][e]) # {}
  IN
  /\ op[c].pc = "configure"
  /\ \/ /\ present /\ NoFault
        /\ Goto(c, IF Outgoing(c) THEN "apply" ELSE "return")
        /\ md' = [md EXCEPT ![c].dst = e, ![c].named = StoredName(e)]
     \/ ~present /\ Goto(c, "failed") /\ UNCHANGED md /\ NoFault
     \/ Strand(c) /\ Goto(c, "failed") /\ UNCHANGED md
  /\ UNCHANGED <<links, est, sess, held>>

\* The connection context server, above xconnect, configures the client's
\* interface; it closes what is below it when that fails
Apply(c) ==
  LET present == At(links, ClientIf[c]) # {} IN
  /\ op[c].pc = "apply"
  /\ \/ present /\ Goto(c, "return") /\ UNCHANGED faults
     \/ ~present /\ CallClose(c, "LOCAL", "undo") /\ UNCHANGED faults
     \/ Fault /\ CallClose(c, "LOCAL", "undo")
  /\ UNCHANGED <<links, est, md, sess, held, leak>>

\* begin establishes the connection; the answer may be lost
Return(c) ==
  /\ op[c].pc = "return"
  /\ est' = [est EXCEPT ![c] = op[c].cur]
  /\ op' = [op EXCEPT ![c] = Idle]
  /\ \/ held' = [held EXCEPT ![c] = op[c].cur] /\ UNCHANGED faults
     \/ Fault /\ UNCHANGED held
  /\ UNCHANGED <<links, md, sess, leak>>

ForgetAll(c) ==                          \* mutant: even an established one
  op' = [op EXCEPT ![c] = Idle] /\ md' = [md EXCEPT ![c] = NoMd]

\* metadata forgets a connection that the request did not find there
GiveUp(c) ==
  /\ op' = [op EXCEPT ![c] = Idle]
  /\ md' = IF op[c].fresh THEN [md EXCEPT ![c] = NoMd] ELSE md

\* An element above roundrobin fails on the answer of a success: recvfd
\* cannot swap the file back, timeout finds no expiration
LateError(c) ==
  /\ op[c].pc = "return"
  /\ Strand(c) /\ GiveUp(c)
  /\ UNCHANGED <<links, est, sess, held>>

SameTries(c) == op[c].tries             \* mutant: starts over each time
FewerTries(c) == op[c].tries - 1

\* roundrobin: the next candidate, with the metadata as it is, or an error
Failed(c) ==
  /\ op[c].pc = "failed"
  /\ \/ /\ op[c].tries > 0 /\ UNCHANGED md
        /\ \E e \in Candidates(c) :
             op' = [op EXCEPT ![c] =
                      [Idle EXCEPT !.pc = "call", !.cur = e, !.bare = op[c].bare,
                                   !.fresh = op[c].fresh,
                                   !.tries = FewerTries(c)]]
     \/ op[c].tries = 0 /\ GiveUp(c)
  /\ UNCHANGED <<links, est, sess, held>> /\ NoFault

-----------------------------------------------------------------------------
(* closeConnection, and the Close of the elements below xconnect *)

Below(c) == IF op[c].after = "failed" THEN "failed" ELSE "disconnect"

\* LoadAndDelete of dstMech comes first
Unstore(c) ==
  LET d == md[c].dst IN
  /\ op[c].pc = "close"
  /\ d # Null => op[c].arg # "NONE"
  /\ md' = [md EXCEPT ![c].dst = Null, ![c].named = "file"]
  /\ op' = [op EXCEPT ![c].pc = IF d = Null THEN Below(c) ELSE "delete",
                      ![c].doomed = d,
                      ![c].inode = md[c].named = "inode",
                      ![c].end = IF op[c].arg = "LOCAL" THEN "src" ELSE "dst"]
  /\ UNCHANGED <<links, est, sess, held>> /\ NoFault

DoomedPair(c) == op[c].arg = "LOCAL" /\ DstCls[op[c].doomed] = "LOCAL"

\* The endpoint whose interface name and namespace closeConnection uses:
\* the stored mechanism's, unless the connection it got has them already.
\* That of a failed tunnel from another node has those of the endpoint tried.
Named(c) ==
  IF ~Outgoing(c) /\ op[c].after = "undo" THEN op[c].cur ELSE op[c].doomed

\* nshandle.FromURL knows file URLs only.  For a namespace that the stored
\* mechanism names by its inode it returns neither a handle nor an error, and
\* GetNetlinkHandle makes of that a handle of the forwarder's namespace.
OpensHost(c) ==
  /\ op[c].inode
  /\ IF DoomedPair(c) THEN op[c].end = "dst"
                      ELSE ~Outgoing(c) /\ op[c].after # "undo"

\* Where closeConnection looks for the interface of a connection
DstPlace(c) == EndPlace(c, Named(c), "dst")  \* mutants: one side only
SrcPlace(c) == EndPlace(c, Named(c), "src")
DeletePlace(c) ==
  LET p == EndPlace(c, Named(c), IF DoomedPair(c) THEN op[c].end ELSE FirstEnd(c))
  IN IF OpensHost(c) THEN <<FwdNs, p[2]>> ELSE p

\* veth.Delete, vxlan.Delete: an interface that is not found leaves the
\* cache alone
RemoveLink(c) ==
  LET found == At(links, DeletePlace(c)) # {} IN
  /\ links' = LinkDel(links, DeletePlace(c))
  /\ md' = [md EXCEPT ![c].cache = IF found THEN @ \ {op[c].end} ELSE @]

\* deleteLocalConnection deletes both ends, deleteRemoteConnection the one
\* interface; an error ends the function and is ignored.  A device may be left
\* by an error, and by no error at all, where OpensHost.
Delete(c) ==
  /\ op[c].pc = "delete"
  /\ \/ /\ RemoveLink(c) /\ UNCHANGED faults
        /\ leak' = [leak EXCEPT ![c] = @ \/ (OpensHost(c) /\ LinksOf(c)' # {})]
        /\ IF DoomedPair(c) /\ op[c].end = "src"
           THEN op' = [op EXCEPT ![c].end = "dst"]
           ELSE Goto(c, Below(c))
     \/ Strand(c) /\ Goto(c, Below(c)) /\ UNCHANGED <<links, md>>
  /\ UNCHANGED <<est, sess, held>>

\* mechanisms, connect, dial: Close goes to the endpoint if there is a
\* connection to it in the metadata, and that connection is dropped
Disconnect(c) ==
  LET e == IF op[c].after = "end" THEN est[c] ELSE op[c].cur
      reached == md[c].dial # Null
  IN
  /\ op[c].pc = "disconnect"
  /\ \/ /\ sess' = IF reached THEN [sess EXCEPT ![c] = @ \ {Url[e]}] ELSE sess
        /\ UNCHANGED faults
     \/ Fault /\ UNCHANGED sess
  /\ IF op[c].after = "end"
     THEN /\ est' = [est EXCEPT ![c] = Null]
          /\ md' = [md EXCEPT ![c] = NoMd]
          /\ op' = [op EXCEPT ![c] = Idle]
     ELSE SetDial(c, Null, md[c].named) /\ Goto(c, "failed") /\ UNCHANGED est
  /\ UNCHANGED <<links, held, leak>>

-----------------------------------------------------------------------------
(* What happens to the process and to the node *)

\* A nil dereference in a handler: closeConnection reads the class of a
\* mechanism the request does not have; vxlan.Create goes on after
\* LinkByName failed
Panic(c) ==
  LET e == op[c].cur IN
  /\ \/ op[c].pc = "close" /\ md[c].dst # Null /\ op[c].arg = "NONE"
        /\ UNCHANGED faults
     \/ op[c].pc = "rename" /\ ~IsLocal(c, e)
        /\ \/ At(links, Inserted(c, e, op[c].end)) = {} /\ UNCHANGED faults
           \/ Fault
  /\ Crash

Restart == Fault /\ Crash

\* An interface disappears: its pod is gone, somebody deleted it
LoseLink ==
  /\ Fault
  /\ \E l \in links :
       /\ links' = LinkDel(links, l.at)
       /\ op' = [op EXCEPT ![l.owner].lost = op[l.owner].pc # "idle"]
  /\ UNCHANGED <<est, md, sess, held, leak>>

Handler(c) ==
  \/ SwitchPeer(c) \/ Accept(c) \/ Refuse(c)
  \/ Check(c) \/ Add(c) \/ Move(c) \/ Rename(c)
  \/ Configure(c) \/ Apply(c) \/ Return(c) \/ LateError(c) \/ Failed(c)
  \/ Unstore(c) \/ Delete(c) \/ Disconnect(c) \/ Panic(c)

Next ==
  \/ \E c \in Conn :
       Select(c) \/ Refresh(c) \/ Close(c) \/ Handler(c)
  \/ Restart \/ LoseLink

Spec == Init /\ [][Next]_vars

\* A handler that can go on does
Fairness == \A c \in Conn : WF_vars(Handler(c))

FairSpec == Spec /\ Fairness

-----------------------------------------------------------------------------
(* Properties *)

\* Every place a handler of c may put a device at
PlacesOf(c) ==
  LET names == {LinkName[c], PeerName[c]}
      targets == {ClientIf[c]} \cup {NseIf[c][e] : e \in Endpoint}
  IN {<<FwdNs, n>> : n \in names} \cup targets
       \cup {<<p[1], n>> : p \in targets, n \in names}

PCs == {"idle", "call", "check", "add", "move", "rename", "configure",
        "apply", "return", "failed", "close", "delete", "disconnect"}
EndpointOrNull == Endpoint \cup {Null}

OpType ==
  [pc : PCs, cur : EndpointOrNull, tries : Nat, bare : BOOLEAN,
   fresh : BOOLEAN, end : Ends,
   arg : Classes \cup {"NONE"}, after : {"failed", "undo", "end"},
   doomed : EndpointOrNull, inode : BOOLEAN, lost : BOOLEAN]

MdType == [made : BOOLEAN, dst : EndpointOrNull, cache : SUBSET Ends,
           dial : EndpointOrNull, named : Names]

LinkType ==
  [owner : Conn, kind : {"veth", "vxlan"}, end : Ends,
   to : Node \cup {Null}, at : UNION {PlacesOf(c) : c \in Conn}]

\* Every variable keeps to its values: in particular a device is only ever
\* at a place the code computes for some connection.
TypeOK ==
  /\ links \subseteq LinkType
  /\ est \in [Conn -> EndpointOrNull]
  /\ md \in [Conn -> MdType]
  /\ op \in [Conn -> OpType]
  /\ sess \in [Conn -> SUBSET Node]
  /\ held \in [Conn -> EndpointOrNull]
  /\ leak \in [Conn -> BOOLEAN]
  /\ faults \in 0..MaxFaults

\* What a connection promises: the client's and the endpoint's namespaces
\* are joined by a veth pair, or the local one of them holds the tunnel to
\* the endpoint's node
Path(c, e) ==
  LET has(end) == \E l \in LinksOf(c) :
        /\ l.kind = Kind(c, e) /\ l.end = end
        /\ l.at = EndPlace(c, e, end)
        /\ l.to = IF DstCls[e] = "REMOTE" THEN Url[e] ELSE Null
  IN IF IsLocal(c, e) THEN has("src") /\ has("dst") ELSE has(FirstEnd(c))

\* xconnect.Request: a request that is about to return success has joined
\* the client to the endpoint it answers with, whatever failures, refreshes,
\* retries and restarts came before; unless somebody deleted the interface
\* while the handler ran.
SuccessConnects ==
  \A c \in Conn :
    op[c].pc = "return" /\ ~op[c].lost => Path(c, op[c].cur)

\* closeConnection: once a connection is closed, or has failed without ever
\* being established, no device of it is left on the node; unless one of
\* the failures marked by Strand or a crash came on the way, or, with no
\* failure, a deletion that OpensHost sends to the wrong namespace.
NoLeak ==
  \A c \in Conn :
    op[c].pc = "idle" /\ est[c] = Null /\ ~leak[c] => LinksOf(c) = {}

\* getVethLinkNamePair: the two names in the forwarder's namespace keep a
\* connection from ever having two veth pairs (so that Paired is exact).
OnePair ==
  \A l, m \in links :
    Paired(l, m) /\ l.end = m.end => l = m

\* veth.Delete, vxlan.Delete find a link by its interface name: beside a
\* working path there is no device of the connection that Close would miss.
NoStrays ==
  \A c \in Conn : \A e \in Candidates(c) :
    Path(c, e) =>
      \A l \in LinksOf(c) : \E end \in Ends : l.at = EndPlace(c, e, end)

\* The cache check of Create: while nothing fails, a request for the
\* endpoint a connection has keeps the working path as it is (leak: what has
\* been left before may be in its way).
RefreshKeepsPath ==
  [][\A c \in Conn : \A e \in Candidates(c) :
       (/\ est[c] = e /\ op[c].cur = e /\ ~leak[c]
        /\ op[c].pc \in {"call", "check", "add", "move", "rename", "configure"}
        /\ Path(c, e) /\ faults' = faults)
       => Path(c, e)']_vars

\* The interfaces of c, as OpensHost finds them
HostPlaces(c) ==
  {<<FwdNs, p[2]>> : p \in {ClientIf[c]} \cup {NseIf[c][e] : e \in Endpoint}}

\* What the deployment has to provide: connections ask for interfaces of
\* different names, which are not those of devices in the forwarder's
\* namespace, and the names derived from their ids differ although
\* linuxIfaceName truncates them to 15 characters.
PlacesDisjoint ==
  \A c, d \in Conn :
    c # d => (PlacesOf(c) \cup HostPlaces(c)) \cap PlacesOf(d) = {}

\* Handlers of different connections: a step of one handler leaves the
\* devices of every other connection alone.
Isolation ==
  [][\A c \in Conn :
       op'[c] = op[c] /\ op' # op => LinksOf(c)' = LinksOf(c)]_vars

\* The calls of one connection as begin runs them: XConnect starts them no
\* other way than begin's contract allows.
Running(c) ==
  IF op[c].pc = "idle" THEN "none"
  ELSE IF op[c].after = "end" THEN "close" ELSE "request"

Calls(c) == INSTANCE Serial WITH call <- Running(c), est <- est[c] # Null

\* begin (doc.go: "Only one event is processed for a Connection.Id at a
\* time"): for each connection, the handlers of this module, with all their
\* retries, cleanups and failures, implement the abstract Serial (this is
\* \A c \in Conn : Calls(c)!Spec in the form TLC evaluates).
Serialised ==
  /\ \A c \in Conn : Calls(c)!Init
  /\ [][\A c \in Conn : [Calls(c)!Next]_(Calls(c)!vars)]_vars

\* Every call returns: roundrobin runs out of candidates, closeConnection
\* and the elements below it come to an end.
CallsReturn == \A c \in Conn : op[c].pc # "idle" ~> op[c].pc = "idle"

\* What a handler has before it: the steps of an attempt, each followed only
\* by smaller ones, and the attempts that roundrobin has left
StageOf == [idle |-> 0, failed |-> 1, disconnect |-> 2, delete |-> 3, close |-> 5,
            return |-> 6, apply |-> 7, configure |-> 8, rename |-> 9, move |-> 10,
            add |-> 11, check |-> 12, call |-> 17]
Extra(c) ==
  IF op[c].pc = "call" THEN (IF Switching(c) THEN 1 ELSE 0)
  ELSE IF op[c].end # "src" THEN 0
  ELSE IF op[c].pc \in {"check", "add", "move", "rename"} THEN 4
  ELSE IF op[c].pc = "delete" THEN 1 ELSE 0
Ahead(c) == 18 * op[c].tries + StageOf[op[c].pc] + Extra(c)

\* roundrobin, xconnect, closeConnection: no call goes round in circles.
\* Every step of a handler, its failures included, brings its call nearer to
\* its end, and no step of the others, nor of the node, takes it back.
CallsAdvance ==
  [][\A c \in Conn :
       /\ op[c].pc # "idle" => Ahead(c)' <= Ahead(c)
       /\ Handler(c) => Ahead(c)' < Ahead(c)]_vars

\* The sessions of c that its dialer would not close any more
Forgotten(c) == sess[c] \ {Url[e] : e \in {md[c].dial} \ {Null}}

\* dial's Request and Close: while a connection has its metadata, no attempt,
\* refusal, reselection or cleanup leaves a session open at a node that the
\* dialer has turned away from; a dial or a Close that fails may.
SessionsKnown ==
  [][\A c \in Conn :
       md'[c].made /\ faults' = faults => Forgotten(c)' \subseteq Forgotten(c)]_vars

\* closeConnection in the Close of an established connection: it gets to
\* delete every device of the connection before the handler is done, unless
\* one has been left out of its reach, by a failure or where OpensHost.
CloseReclaims ==
  \A c \in Conn :
    op[c].pc = "close" /\ op[c].after = "end" ~> (LinksOf(c) = {} \/ leak[c])

\* Bookkeeping, mechanismmetadata(false): a connection at rest with devices
\* on the node, established or not, has the destination mechanism its Close
\* needs to find them; with the exceptions of NoLeak, a delete error that
\* closeConnection ignores among them.
Bookkept ==
  \A c \in Conn :
    op[c].pc = "idle" /\ ~leak[c] /\ LinksOf(c) # {} => md[c].dst # Null

\* xconnect/server.go:160, "we need to store the dstMech. It is needed to
\* cleanup the connection in the Close()": a cleanup in which nothing fails
\* deletes the interface at the endpoint the stored mechanism is for.
CleanupDeletes ==
  [][\A c \in Conn :
       LET e == op[c].doomed IN
       /\ op[c].pc = "delete" /\ op'[c].pc \notin {"delete", "idle"}
       /\ op[c].after # "undo" /\ DstCls[e] = "LOCAL" /\ faults' = faults
       => At(links', NseIf[c][e]) = {}]_vars

=============================================================================
