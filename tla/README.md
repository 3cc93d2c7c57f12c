# A TLA+ specification of the kernel forwarder

`cmd-forwarder-kernel` is a cross-connect endpoint of Network Service Mesh: it
joins the network namespace of a client pod to that of an endpoint pod, by a
veth pair when both are on its node, by a vxlan tunnel when one of them is on
another node. This directory holds the TLA+ model of it, the TLC instances that
check it, and proofs of its most general properties.

## The system

A call (Request or Close of one connection id) runs through one chain of
elements (`chains/forwarder/server.go:63`):

    begin > updatetoken > authorize > metadata > timeout > recvfd > sendfd
      > discover > roundrobin > connectioncontextkernel > xconnect
      > mechanisms (veth, vxlan with vni) > connect
          > dial > mechanismtranslation > xconnect client > recvfd > sendfd
          > the endpoint

| part | state | operations | meets the others through |
|---|---|---|---|
| begin (sdk) | a map of factories by connection id; per factory a state, the last request, an executor with its queue | serialises the calls of one id; closes the last established request | everything below runs in an executor |
| timeout (sdk) | a timer per request, its cancel function in the metadata | closes a connection nobody refreshes | begin's event factory |
| metadata (sdk) | a map per connection id | made by the first request, dropped by Close or by the failure of a request that found none | link cache, dstMech, dialer, VNI, timer live in it |
| recvfd, sendfd | file maps per connection | swap inode URLs for `/proc/<pid>/ns/net` and back | parameters of the mechanisms, which others have stored; their errors stop a call |
| file system tools | - | find a process by the inode of its namespace, and the inode by a path | `/proc` |
| discover, roundrobin (sdk) | - | choose the endpoint, try the candidates in turn | one Request may run all that is below several times |
| connectioncontextkernel (sdk-kernel) | - | configures the client's interface on the way back, closes below it on failure | finds the interface by name |
| xconnect | dstMech in the metadata | Request: makes the interfaces; Close: deletes them | calls veth, vxlan; called again through Close |
| veth, vxlan | the link cache in the metadata; the kernel's devices | Create, Delete | netlink, by interface **name** |
| vni (sdk) | a map of sources with their VNIs; a VNI per connection in the metadata | the destination's forwarder chooses, the source's brings it back | mechanism parameters, on both nodes of a tunnel |
| dial, connect (sdk) | the connection to the endpoint's URL | dials, closes the old session when the URL changes | clientconn in the metadata |

What is hard:

* devices are found **by name in a namespace**, never by identity, by code that
  runs concurrently for different connections;
* the memory of what was made (link cache, dstMech) is separate from what there
  is (devices of the kernel), is lost in a restart, and is keyed coarsely: the
  cache knows the end, not the endpoint;
* every netlink call may fail half way through a creation; which failures clean
  up differs between the LOCAL and the REMOTE case;
* one Request repeats its work for several endpoints over the same metadata;
* a namespace is known by a process in it, and processes end;
* one mechanism object is stored by several elements and rewritten in place;
* a timer, a late call and a new connection may meet under one id;
* two nodes must agree on a number that only one of them can check;
* refreshes come all the time and must not hurt; clients die without closing.

What makes it correct: a successful request has joined the two pods; a refresh
leaves a working path alone; a closed connection leaves nothing behind; the
handler of one connection does not touch another's devices, nor another pod's
namespace; every call ends; begin lets one call of an id into the chain at a
time; a timer closes only what has expired; a VNI is in use once per node.

## The modules

| module | what it is |
|---|---|
| `Netlink` | the node's devices as records with a place `<<namespace, name>>`, and what `LinkByName`, `LinkDel`, `LinkSetNsFd`, `LinkSetName` do to them (external) |
| `Serial` | abstract: what the chain below begin may rely on, for one id |
| `XConnect` | one forwarder: the handlers of all connections from the moment begin runs the call until it returns. It implements `Serial` for each connection |
| `MCXConnect` | values for its constants, for TLC |
| `Lifecycle` | one id: begin's map, factories and executors, metadata, timeout, and authorize's refusal of a Close. It implements `Serial` too |
| `NetnsFiles` | one connection: recvfd, sendfd, the file system tools, over processes that come and go |
| `Vni`, `MCVni` | the VNIs of the tunnels between nodes, at both ends |
| `XConnectProofs`, `CallsProofs`, `PairProofs`, `RoutesProofs`, `DevicesProofs`, `FilesProofs`, `LifecycleProofs`, `VniProofs` | theorems, below |

How they fit: `Serial` is the joint between `Lifecycle`, which models begin and
has what is below as one step, and `XConnect`, which models what is below and
starts calls only as begin does (`XConnect!Serialised`,
`Lifecycle!Serialised`: one abstract module, implemented from both sides).
`NetnsFiles` details what `XConnect` has as `named` (how the stored mechanism
names its namespace) and as a Close that xconnect does not see. `Vni` details
the kernel's refusal of a second tunnel in `XConnect!Add`.

### XConnect

| variable | code |
|---|---|
| `links` | the kernel's devices; they survive the process. `owner` is a ghost |
| `est[c]` | begin's `eventFactoryServer.state = established`, and the endpoint of its `request` |
| `md[c].dst` | `mechanismmetadata.Store(ctx, false, dstMech)`: the endpoint it came from |
| `md[c].cache` | `link.Store(ctx, isSrc, l)`: which of the two keys hold a link (the value is never read) |
| `md[c].dial` | the dialer in clientconn, as the endpoint whose URL it has |
| `md[c].named` | whether the stored mechanism names its namespace by a file, by an inode, or is one object with the one sendfd rewrites |
| `op[c]` | the local variables of the handler: where it is (`pc`), the endpoint being tried, candidates left, whether the request has a mechanism (`bare`: it has none), the end being made, and for `closeConnection` the class of the mechanism it got and who called it |
| `sess[c]` | the nodes that hold a session for `c` |
| `held[c]` | the client: the endpoint in the connection it holds |
| `leak[c]` | ghost: something happened after which a device of `c` may stay behind (below) |
| `faults` | how many failures were injected (bounded by `MaxFaults`) |

| action | code |
|---|---|
| `Select`, `Refresh`, `Close` | a call gets to run in begin's executor: a request with preferences, a request with the established connection, a Close from the client or the timer |
| `SwitchPeer`, `Accept`, `Refuse` | the dial client and the endpoint's answer; `Refused` is `xconnect.Request`'s error branch |
| `Check`, `Add`, `Move`, `Rename` | `veth.Create` and `vxlan.Create`, cut at the netlink calls: look in the cache and delete what has the name; `LinkAdd`; `LinkSetNsFd`; `LinkSetName` .. `link.Store` |
| `Configure`, `Apply` | the connection context client (called by xconnect) and server (above it) |
| `Return`, `LateError`, `Failed` | begin establishes the connection; an element above fails on the answer; roundrobin takes the next candidate or gives up |
| `Unstore`, `Delete`, `Disconnect` | `closeConnection`: `LoadAndDelete` of dstMech, then `veth.Delete` / `vxlan.Delete`; then the Close of what is below |
| `Panic`, `Restart` | a nil dereference in a handler; the process stops for another reason |
| `LoseLink` | an interface disappears with its pod |

Every action has the failures the code's error returns stand for, as disjuncts
of their own. `NoLeak`, `Bookkept`, `RefreshKeepsPath` and `CloseReclaims` are
stated up to `leak`, which three things set:

* a failure marked `Strand`: the code returns without undoing what it made, or
  forgets what it should delete, as `closeConnection` does when the deletion fails;
* a crash of the process while devices exist, whose memory it takes;
* with no failure at all, a deletion that `OpensHost` sends to the forwarder's own
  namespace, when it leaves something: that is finding 2, which the connection from
  afar of the run `isolation` can meet too.

The properties show that nothing else leaves a device.

### Lifecycle

`current` is begin's map, `state`, `token`, `queue` and `run` a factory's fields
and its executor, `timer` and `owner` the timers with the factory each would
close, `meta` the metadata under the id, `cancel` what timeout has stored there,
`path` whether the connection has interfaces, and `stored` which metadata objects
have the dstMech they would be deleted by. `CallRequest`, `CallClose` and
`Expire` append jobs; `StartRequest` .. `EndClose` are the executor's, `Recall`
and `Recalled` a request that finds its factory replaced, begins again, and has
its executor wait for it. The Close of a request whose metadata is gone comes with an
empty object, and deletes nothing (`EndClose`, `Deleted`). `late` counts Closes that end with their caller's
context, `refused` remembers that authorize has refused one.

### NetnsFiles

`proc` is the table of processes; `Spawn`, `Exit` and `Enter` change it between
any two steps of a handler. `file` are the two file maps, `md.held` the mechanism
that mechanismtranslation stored, `md.dst` xconnect's, `md.same` whether they are
one object. `Receive`, `Send`, `Answer`, `Open`, `Create`, `Reply` are a request
on its way down and up, `Unlink` and `Leave` the cleanup and the Close. `moved`
counts the times a pid came to stand for another namespace.

### Vni

`used[n]` is a node's `vniServer.Map`; `obj`, `md`, `est`, `run` are what the
destination keeps of a connection, `known` what its source keeps. `near` and `far`
are the ends of the tunnel: the VNI of the device in place, and of those a failed
Create has left under the name it made them with, in the forwarder's namespace
(`home`) or the pod's (`away`); what the link cache and dstMech say of it; and, a
ghost, whether what the cache still has was there when its VNI was given up
(`forsaken`).

`Request` chooses. `Create` may take a device in place for its own, whichever VNI it
has (`Redundant`); `CreateFails` leaves what any error return of `vxlan.Create` leaves
(`Unmade`), less what the cleanup gets to delete (`Closed`). `ContextFails`, `Refused`
and `Answer` are the other ways for a request to end, and `Answered` is the source
making its end, or failing to. `NoAnswer` is a request of the source that fails;
`Close`, `CloseLost`, `FarClose`, `FarForgets` are the end of a connection, whose Close
may overtake a request or not arrive, or be refused by authorize. `Restart` forgets a
node's memory and not its kernel. `lost` counts the times vni let go of a VNI that its
connection still had in a record or in a device, `faults` the failures.

### Abstractions

* Interface names, namespaces and URLs are values; `ClientIf`, `NseIf`,
  `LinkName`, `PeerName` say which the code computes. The 15-character
  truncation of `linuxIfaceName` becomes the assumption `PlacesDisjoint`, made
  only where it is named.
* A mechanism is its class and the endpoint it came from: that determines the
  namespace, the interface and the tunnel's far end.
* The client-side entry of mechanismmetadata is written by every successful
  answer just before xconnect reads it, so it is part of `Accept`.
* In `XConnect` the VNI is not a value: the kernel refuses a second tunnel with
  the VNI of one that exists, and `Add` says when that must and when it may happen.
* A recvfd failure on the way down means that the request never starts.
* In `Lifecycle` what is below timeout is one step that succeeds or fails; in
  `NetnsFiles` a Create is two, one per namespace it opens; `Vni` has one attempt
  per request, a Create or a Close is one step of an end with all its outcomes, the
  source's tunnel appears with the answer, and devices do not go by themselves.
* `/proc` does not change during one walk of it.
* Addresses, routes, MTU, aliases, checksum offload and monitoring are left out;
  the connection context counts by failing when the interface is not there.

## What TLC checks

Every property with the hazard it is for is in `PROJECT.json`; each one is
violated by a plausible bug (the definitions marked `mutant`).

| run | instance | properties | what it shows |
|---|---|---|---|
| `local` | 1 connection, 2 endpoints here, 3 faults | `TypeOK`, `OnePair`, `NoStrays` | never two pairs of one connection; beside a working path nothing that Close would miss |
| `outgoing` | 1 connection, 2 endpoints on another node, 3 faults | `SuccessConnects`, `RefreshKeepsPath` | success means a tunnel; a refresh keeps it |
| `isolation` | 2 connections (one from here, one from afar), 1 endpoint, 1 fault | `NoLeak`, `Isolation`, `Serialised` | all interleavings of the two handlers; closed means nothing left, but for `leak` |
| `mixed` | 1 connection, one endpoint here and one afar, 3 faults, `FairSpec` | `NoLeak`, `Bookkept`, `SessionsKnown`, `CallsReturn`, `CallsAdvance`, `CloseReclaims` | attempts that change between veth and tunnel lose nothing the Close needs, and end |
| `files_pair` | 2 namespaces, 3 pids, both ends here, 1 fault | `NoLeak`, `RightNamespace` | processes end between any two steps |
| `files_tunnel` | the same with the client's end only, one pid moves, `FairSpec` | `TypeOK`, `Recovers` | a repeated request gets through |
| `life` | 4 calls, 2 late Closes, tokens not checked, `FairSpec` | `TypeOK`, `Exclusive`, `MetaKept`, `Serialised`, `OnlyExpired`, `Reclaimed` | begin, metadata and timeout together, until a Close is late |
| `vni_pair` | 2 connections one way, 1 back, VNIs 0..3, 1 lost, 1 fault, the two alike (symmetry) | `TypeOK`, `NeverTaken`, `Remembered`, `SameVni` | no VNI twice, one at both ends |
| `notunnel` | as `mixed`, 1 fault | `SuccessConnects` **violated** | finding 1 |
| `refused` | 1 connection from another node, no fault | `CleanupDeletes` **violated** | finding 2 |
| `files_stuckfile` | both ends here, no fault, `FairSpec` | `Recovers` **violated** | finding 3 |
| `life_unreclaimed` | 2 calls, tokens checked, `FairSpec` | `Reclaimed` **violated** | finding 4 |

Bounds. Two endpoints are all that an attempt can tell apart: the one tried and
the one the metadata remembers; a third repeats one of them. One connection is
enough for the properties of a connection, because handlers of different ones do
not touch each other's devices, which is checked with two and proved for any
number. `MaxFaults` bounds the failures of a behaviour, not the calls, which are
unbounded: three allow a failed creation, a lost cleanup and a restart in one
behaviour. Four calls of `Lifecycle` let a connection be made, closed, made again
and refreshed with the timers of all of them about; with five calls and one late
Close everything still holds (460 thousand states). Three pids are the least by
which a namespace survives the process it was found by while another ends. VNIs
0..3 hold zero, one other even number and two odd ones: two connections compete for
the even ones, and the one back can come by another number than it had. The one
fault of `vni_pair` may be a Create and its cleanup at once, a lost Close, a refusal, a
device left. Interleaved handlers make a second one expensive there and in
`isolation`; with two, everything holds in both (1.6 million states each). `MaxLost`,
`MaxMoved` and `MaxLate` count what the properties make their exceptions for.

Deadlock is not checked: with nothing established and nobody calling the system
stops, as it should.

Fairness. `WF` of each handler, and of each executor: a goroutine that can take
its next step does, and the netlink and gRPC calls of the model return (all are
local, or have a deadline). `WF` of `Expire`: time passes. In `NetnsFiles`, `SF` of
`Request`: a client of Network Service Mesh refreshes as long as it lives, and
the refresh gets in between other things; `Recovers` is about such a client.
No fairness for first calls, for failures, or for what the kernel does by itself.

### Findings

1. **Success without a tunnel** (`notunnel`). The link cache is keyed by the end
   only. A LOCAL attempt makes the client's veth end, caches it and fails
   (`xconnect/server.go:112` returns without a cleanup); roundrobin's next
   candidate is on another node; `vxlan.Create` finds the key in the cache and an
   interface of the name, and returns nil. The client gets a connection with a
   veth that leads nowhere.
2. **A refused refresh loses the tunnel** (`refused`). sendfd's client has
   rewritten the file URL of the mechanism that xconnect stored; the endpoint
   refuses; `closeConnection` works with an inode URL, for which
   `nshandle.FromURL` returns handle -1 and no error, and looks for the interface
   in the forwarder's own namespace. The tunnel stays, its mechanism is forgotten.
3. **A refresh that can never succeed** (`files_stuckfile`). A stored mechanism
   names a process that has ended; sendfd's client fails on it before the request
   reaches the endpoint, and only the endpoint's answer would replace it.
4. **Nothing reclaims what a dead client had** (`life_unreclaimed`). The timer
   fires when a token has expired, and its Close passes authorize, whose default
   policies refuse expired tokens; begin forgets the connection, and nothing
   tries again.

### Known exceptions

These the properties are stated around. Each was found as a counterexample to
the property without its condition, and can be had again by removing it.

| what happens | where the model shows it |
|---|---|
| Two connections of one pod ask for one interface name: `veth.Create` deletes the live interface of the other as stale (`veth/common.go:66`) | make two `ClientIf` equal: `Isolation` fails; it is what `PlacesDisjoint` excludes |
| After a failed `LinkSetNsFd` (`vxlan/common.go:157`) the device keeps its name in the forwarder's namespace, and every later `LinkAdd` for the connection fails | `Strand` in `Move`; no later attempt passes `Add` |
| That device, or one that a refused refresh did not find (finding 2) or a Close did not get to delete, keeps its VNI in the kernel, and vni has given it back: the next connection may draw it, and fails | `NeverTaken` without `lost = 0`; `Lets` in `CreateFails` and `FarClose` |
| A Create and its cleanup both fail on a tunnel that works (its namespace cannot be opened): vni forgets the VNI, the link cache does not; the source, which did not get the answer or has closed in vain, asks again, another VNI is drawn, and `vxlan.Create` takes the old device for it (`vxlan/common.go:92`) | `SameVni` without `d.forsaken` |
| A connection from another node moves to a second endpoint here without a Close: the kernel refuses the second tunnel, and the cleanup, which has the second endpoint's name already (`xconnect/server.go:141`), forgets the first tunnel without deleting it | `Named`; `Bookkept`, `NoLeak` and `NoStrays` fail with `FromAfar` and two endpoints here, no fault; `OneHome` excludes it |
| The path stored with dstMech is not looked up again before the Close: the process has ended, its pod lives on, the interface stays | `NetnsFiles!NoLeak` with `Ends = {"dst"}`, or with two client namespaces; `ClientStays` excludes it |
| A connection with a tunnel to one node is reselected to an endpoint of another: `vxlan.Create` finds the key in the cache and an interface of the name, and takes the request as redundant (`vxlan/common.go:91`); the tunnel leads to the old node | `SuccessConnects` with two remote endpoints of different `Url`; `OneRoute` excludes it |
| A remembered path is reused if it is there, whichever namespace it leads to now (`recvfd/common.go:61`) | `RightNamespace` without `moved = 0` |
| The loop by which recvfd would forget files that were not selected (`recvfd/common.go:110`) is never reached: sendfd's server has swapped the URL before | `SwapBack` only ever sees inode URLs |
| After a refused Close, a late job of the old factory deletes the new factory's entry (`event_factory.go:226`): two calls of one id are in the chain | `Exclusive` with `Alone` in place of `Calm => Alone`, `Strict = TRUE` |
| A Close that ended with its caller's context leaves its timer on, which then closes the connection made again under the id (`timeout/server.go:85`) | `OnlyExpired` without `Calm`, `MaxLate = 1` |
| After that, a failing request may drop the metadata of another that has just succeeded (`metadata/server.go:49`); then no Close finds a dstMech, and the interfaces stay | `Reclaimed` without `late > 0`, `MaxLate = 1` |
| A request that begins again is put behind later ones (`begin/server.go:61`), against `begin/doc.go:32` | `Recall` |
| Two nodes connect to a third and are given one VNI, which its kernel takes once (`vni/server.go:108`) | `NeverTaken` with two sources and one destination: `TwoNodes` excludes it |
| A refresh that fails gives the VNI back while begin keeps the connection; another one gets it (`vni/server.go:136`) | `Remembered` without `lost = 0` |

The deployed forwarder runs `Strict` (authorize's default policies): there `Calm`
ends with the first refused Close, and with it what `Lifecycle` promises.

## What is proved

With TLAPS, for every value of the constants, from the named assumptions on them
(`ConstantsOK`, `LifecycleOK`, `FilesOK`, `VniOK`) alone unless said otherwise:

* `XConnectProofs!TypeCorrect`: `TypeOK` is not inductive: that the interface
  made is one of a known place needs the endpoint being tried to be an endpoint,
  and `Delete` needs the stored mechanism (or, after a failed creation, the
  endpoint tried). `AtHand` says so, per `pc`; the conjunction is inductive. One
  lemma per action.
* `PairProofs!IsolationTheorem`: `PlacesDisjoint` implies `Isolation`. The
  strengthening is `OwnPlaces`: every device is at a place the code computes for
  its own connection, so a netlink call at a place of `d` finds only devices of `d`.
* `PairProofs!OnePairTheorem`: `PlacesDisjoint` and `NamesDistinct` imply
  `OnePair`; `NamesDistinct` holds when no client is in the forwarder's namespace
  and no place on the way of one end of a pair is on that of the other, as in
  every instance checked here. `Shape` says where the two ends of a pair can be: the endpoint's end
  stays where it was added until the client's end has its final name, so a second
  `LinkAdd` finds a name taken. `Phase` says for each `pc` of a Create where the
  client's end then is; both survive the deletion of a pair, and so every Close,
  lost interface and crash.
* `CallsProofs!SerialTheorem`: `XConnect` implements `Serial` for each connection.
  The invariant `AfterEnd` says which steps belong to a Close that begin started.
* `CallsProofs!SessionsTheorem`: `SessionsKnown`. The invariant `Dialled` says
  that until an attempt is over, cleanup included, the dialer is that of the
  endpoint tried, so what undoes the attempt closes the session it opened.
* `CallsProofs!CallsAdvanceTheorem`: `CallsAdvance`. `Ahead` counts the steps a call
  may still have before it: 18 for each candidate roundrobin has left, and those of
  the attempt at hand (`Rank`, which falls along every branch, error returns and
  panics included; what `check` starts again is the other end of the pair, and
  what `call` starts again has no dialer to close any more). Together with the
  fairness of handlers it is why `CallsReturn` holds for any number of candidates;
  that last step, from a falling number to an end, is the part TLC has to check.
* `RoutesProofs!SuccessConnectsTheorem`: `SuccessConnects`, from `PlacesDisjoint`,
  `NamesDistinct` and `OneRoute`. The invariant `Eligible` says that whatever names
  an endpoint (begin, the client, the stored mechanism, the handler) names a
  candidate of the connection, and which end and which class a handler can have.
  `Route` says that every device of a connection is of the kind, and leads to the
  node, that its candidates have; hence what `Create` finds in the cache and at the
  place is what it would have made. `Ready` says that from `configure` on there is
  a path. `OnePair` is needed for the two ends of a pair to be one pair's.
* `DevicesProofs!NoStraysTheorem`, from `PlacesDisjoint`, `NamesDistinct`,
  `EndpointsApart` and `OneHome`, as are the next ones. `Lone` says that of the
  devices at the connection's first end (the client's, or the endpoint's for a
  tunnel from another node) either one is at the final place and no other exists, or
  there is none at that place: the delete by name that opens a `Create` and the
  kernel's refusal of a taken name keep it so.
* `DevicesProofs!NoLeakTheorem`, `BookkeptTheorem`, `CloseEmptiesTheorem`. The
  invariant is `Tidy`: unless a failure has stranded something, everything the
  connection has on the node goes with one deletion (`Rooted`) at a place that the
  handler, or the stored mechanism, knows, and where nothing is stored there is
  nothing. It is stated per `pc`, for while interfaces are made (`TidyMaking`) and
  otherwise (`TidyElse`). `Noted` says that a device in place is in the cache of its
  end: without it a refresh would not find the path and make it anew, for the time
  of which nothing known to begin could delete what is half made.
  `CloseEmptiesTheorem` is the safety half of `CloseReclaims`: when `closeConnection`
  is over, nothing is left.
* `DevicesProofs!RefreshKeepsPathTheorem`: `RefreshKeepsPath`, from the same invariant:
  with `Noted` and the path, `Check` finds what it looks for at both ends.
* `FilesProofs!FilesTypeCorrect`, `RightNamespaceTheorem`: the invariant says of
  each URL on its way (asked, resolved, sent, answered, remembered) that it leads to
  the namespace it stands for or nowhere, while no pid has moved.
* `FilesProofs!FilesNoLeakTheorem`: `NoLeak` of `NetnsFiles`, from `ClientStays`. The
  invariant adds to the former that a device's client end is in a namespace that
  still has a process, that the handler's path to it is a live one (`Live`), and
  that a device is always accompanied by a stored mechanism, and at rest by begin's
  connection (`Held`).
* `LifecycleProofs!LifecycleTypeCorrect`, `ExclusiveTheorem`, `MetaKeptTheorem`,
  `OnlyExpiredTheorem`, `BeginImplementsSerial`: the invariant `CalmInv` relates,
  until a Close is refused or late, the factory in the map to the one whose
  executor is in the chain, each timer to its factory and its metadata object,
  and factories out of the map to timers that are over. `BeginImplementsSerial` is
  a refinement, with the mapping in `Lifecycle!S`.
* `VniProofs!VniTypeCorrect`, `SameVniTheorem` without further assumption. The
  invariant of `SameVni` (`OneVni`) adds that the request, the metadata and the source
  go by one VNI, and that a device which a Create would take for its own (`Live`: in
  place, in the cache, and not forsaken) has that of the source's record or of the
  destination's metadata.
* `VniProofs!NeverTakenTheorem`, `RememberedTheorem` for any number of connections
  between two nodes (`TwoNodes`). While nothing is lost, every VNI that a connection
  has, in a record or in any device (`Has`), is in the destination's map under the
  source (`Kept`), and no two connections of one direction have one (`Apart`);
  between the directions even and odd keep them apart.

Assumptions on the constants. Each is named, holds in the instances checked here,
and is what the deployment has to provide or what an exception above is about:

| assumption | says | why |
|---|---|---|
| `PlacesDisjoint` | interfaces of different connections are at different places | the places come from the requests, the names from the connection ids, cut to 15 characters; else see the first exception |
| `NamesDistinct` | no client is in the forwarder's namespace, and the two ends of a pair have different places all the way | pods have namespaces of their own, and `peer-` makes the two names differ |
| `EndpointsApart` | no endpoint's interface is in the forwarder's namespace or has a name the forwarder makes | as for clients |
| `OneHome` | a connection from another node has one endpoint here (nothing is asked of connections from here) | the request of the other forwarder names its endpoint; else see the third exception |
| `OneRoute` | the candidates of a connection are all here, or all on one other node | only for `SuccessConnects`; not true of `mixed` and `notunnel`, where finding 1 shows that the property then fails |
| `ClientStays` | the client is on this node, and in one namespace | only for `NetnsFiles!NoLeak`; a pod keeps its namespace as long as it lives; else see the fourth exception |
| `TwoNodes` | the VNIs are of tunnels between two nodes | else see the last exceptions |

Only model-checked: the liveness properties `CallsReturn`, `CloseReclaims`,
`Recovers` and `Reclaimed`, which are out of the prover's reach. Every other
property that a run finds to hold is proved.

## Not modelled

Process start and configuration (`main.go`), tracing, monitoring and
registration; of authorization only that a Close with an expired token is
refused; gRPC; the network itself; the registries (an endpoint's URL does not
change). `GetAllNetNs`, `GetNetnsHandleFromURL` and `GetNetlinkHandleFromURL` of the
file system tools are called by nothing. The client sides of begin and metadata
run inside the server's (they find its factory and its object in the context and
do nothing of their own). The elements of the Network Service Mesh sdk are
modelled as far as they decide what xconnect is called with, and are third-party
code kept under `vendor/`.

Left for later: the composition of `Lifecycle` with `XConnect` (today they meet in
`Serial`), several ids in one `Lifecycle` (they share only the map, whose entries
are independent).
