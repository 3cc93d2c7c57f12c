-------------------------------- MODULE Vni --------------------------------
(***************************************************************************)
(* Which VNI a tunnel gets.  The forwarder of the destination node chooses *)
(* it (sdk/.../mechanisms/vxlan/vni), answers it to the source node, whose *)
(* refreshes bring it back.  The kernel of a node takes a VNI once.        *)
(*                                                                         *)
(* begin keeps the calls for one connection apart on each node (Serial);   *)
(* the calls of different connections interleave.                          *)
(***************************************************************************)
EXTENDS Naturals, FiniteSets

CONSTANTS
  Conn,
  Node,      \* nodes, by their tunnel addresses
  Src, Dst,  \* the nodes of a connection
  MaxVNI,    \* 0xFFFFFF
  MaxLost,   \* bound: on lost
  MaxFaults  \* bound: on failures

ASSUME VniOK ==
  /\ Node \subseteq Nat
  /\ Src \in [Conn -> Node] /\ Dst \in [Conn -> Node]
  /\ \A c \in Conn : Src[c] # Dst[c]
  /\ MaxVNI \in Nat /\ MaxLost \in Nat /\ MaxFaults \in Nat

VNI == 0..MaxVNI
None == MaxVNI + 1

VARIABLES
  used,     \* vniServer.Map of a node: sources with their VNIs
  obj,      \* connections with a metadata object at the destination
  md,       \* the VNI in it
  est,      \* and in the connection that begin keeps there; 0: none
  run,      \* its request there
  known,    \* the VNI in the mechanism the source has stored; 0: none
  near,     \* the source's end of the tunnel
  far,      \* and the destination's
  closing,  \* connections whose Close is on its way
  lost,     \* times a VNI was let go that its connection still had
  faults    \* failures so far

vars == <<used, obj, md, est, run, known, near, far, closing, lost, faults>>

At(pc, v, new, fresh) == [pc |-> pc, vni |-> v, new |-> new, fresh |-> fresh]
Idle == At("idle", 0, FALSE, FALSE)

\* The devices of an end by their VNIs: in place, or left by a Create with the
\* name it made them with, in the forwarder's namespace or the pod's
\*   cached: link cache; stored: dstMech
\*   forsaken: ghost, what is in place was cached when its VNI was given up
Nothing == [at |-> 0, home |-> 0, away |-> 0,
            cached |-> FALSE, stored |-> FALSE, forsaken |-> FALSE]

Init ==
  /\ used = [n \in Node |-> {}]
  /\ obj = {}
  /\ md = [c \in Conn |-> None]
  /\ est = [c \in Conn |-> 0]
  /\ run = [c \in Conn |-> Idle]
  /\ known = [c \in Conn |-> 0]
  /\ near = [c \in Conn |-> Nothing] /\ far = [c \in Conn |-> Nothing]
  /\ closing = {} /\ lost = 0 /\ faults = 0

-----------------------------------------------------------------------------
(* The devices of an end, d *)

Tunnels(d) == {d.at, d.home, d.away} \ {0}

\* No other tunnel of the node has it: the kernel asks no more
Free(n, c, v) ==
  \A d \in Conn \ {c} :
    /\ Src[d] = n => v \notin Tunnels(near[d])
    /\ Dst[d] = n => v \notin Tunnels(far[d])

\* The cache knows the end, and the name is taken: whichever VNI it is
Redundant(d) == d.cached /\ d.at # 0

\* LinkAdd, once what has the name is deleted
Addable(n, c, d, v) == d.home = 0 /\ d.away # v /\ Free(n, c, v)

\* vxlan.Create succeeds, and xconnect stores dstMech
Makes(n, c, d, v) ==
  v # 0 /\ (Redundant(d) \/ (Addable(n, c, d, v) /\ d.away = 0))
Placed(d, v) == [d EXCEPT !.at = v, !.forsaken = FALSE]
Made(d, v) ==
  IF Redundant(d) THEN [d EXCEPT !.stored = TRUE]
  ELSE [Placed(d, v) EXCEPT !.cached = TRUE, !.stored = TRUE]

\* or it fails: at first, or with the old device gone, the new one not there,
\* not moved, not renamed, or not up
Unmade(n, c, d, v) ==
  IF v = 0 \/ Redundant(d) THEN {d}
  ELSE {d, Placed(d, 0)}
       \cup (IF Addable(n, c, d, v) THEN {[Placed(d, 0) EXCEPT !.home = v]} ELSE {})
       \cup (IF Addable(n, c, d, v) /\ d.away = 0
             THEN {[Placed(d, 0) EXCEPT !.away = v], Placed(d, v)} ELSE {})

\* closeConnection finds dstMech and forgets it; it may not find the device,
\* or not be able to delete it
Closed(d) ==
  IF ~d.stored THEN {d}
  ELSE {[d EXCEPT !.stored = FALSE],
        [Placed(d, 0) EXCEPT !.stored = FALSE, !.cached = @ /\ d.at = 0]}

\* Nothing that it should have deleted is left
Deletes(d, e) == e.at = 0 \/ ~d.stored

\* The metadata object goes
Gone(d) == [d EXCEPT !.cached = FALSE, !.stored = FALSE]

\* The VNI goes, and the object stays
Forsaken(d) == [d EXCEPT !.forsaken = @ \/ d.cached]

Failure == faults < MaxFaults /\ faults' = faults + 1

-----------------------------------------------------------------------------
(* The VNI of a request *)

AlwaysEven(c) == TRUE                    \* mutant: addresses not compared
EvenVNI(c) == Src[c] <= Dst[c]

Unmasked(c) ==                           \* mutant: 0x00FFFFFF left out
  {2 * r + (IF EvenVNI(c) THEN 0 ELSE 1) : r \in VNI}
RandomVNI(c) == {v \in VNI : v % 2 = IF EvenVNI(c) THEN 0 ELSE 1}

Key(c, v) == <<Src[c], v>>

Anew(c) ==                               \* mutant: what came is not looked at
  IF md[c] # None THEN {md[c]} ELSE {v \in RandomVNI(c) : Key(c, v) \notin used[Dst[c]]}
Choice(c) ==
  IF known[c] # 0 THEN {known[c]}
  ELSE IF md[c] # None THEN {md[c]}
  ELSE {v \in RandomVNI(c) : Key(c, v) \notin used[Dst[c]]}

\* What came is remembered unseen; what metadata has, already is
Remember(c, v) ==
  IF known[c] = 0 /\ md[c] # None THEN UNCHANGED used
  ELSE used' = [used EXCEPT ![Dst[c]] = @ \cup {Key(c, v)}]

Request(c) ==
  /\ run[c].pc = "idle" /\ c \notin closing
  /\ \E v \in Choice(c) :
       /\ Remember(c, v)
       /\ md' = [md EXCEPT ![c] = IF @ = None THEN v ELSE @]
       /\ run' = [run EXCEPT ![c] = At("below", v, md[c] = None, c \notin obj)]
  /\ obj' = obj \cup {c}
  /\ UNCHANGED <<est, known, near, far, closing, lost, faults>>

Forgotten(c, v) == [used EXCEPT ![Dst[c]] = @ \ {Key(c, v)}]
KeyOnly(c, v) ==                         \* mutant: delete(ctx, ...) left out
  used' = Forgotten(c, v) /\ UNCHANGED md
Release(c, v) ==
  used' = Forgotten(c, v) /\ md' = [md EXCEPT ![c] = None]

\* What a connection has of VNIs but for its request and the metadata
Held(c) == ({known[c], est[c]} \cup Tunnels(near[c]) \cup Tunnels(far[c])) \ {0}

\* vni lets go of what the connection still has
Lose == lost < MaxLost /\ lost' = lost + 1
Lets(c, v) == IF v \in Held(c)' THEN Lose ELSE UNCHANGED lost

-----------------------------------------------------------------------------
(* The request at the destination *)

\* A failure: metadata forgets the object that the request has made
Fails(c, d) ==
  /\ obj' = IF run[c].fresh THEN obj \ {c} ELSE obj
  /\ far' = [far EXCEPT ![c] = IF run[c].fresh THEN Gone(d) ELSE d]
  /\ run' = [run EXCEPT ![c] = Idle]
  /\ UNCHANGED <<est, known, near, closing>>
Dropped(c) == [md EXCEPT ![c] = IF run[c].fresh THEN None ELSE @]

\* The endpoint refuses; xconnect closes its own side
Refused(c) ==
  /\ run[c].pc = "below" /\ Failure
  /\ \E d \in Closed(far[c]) :
       IF run[c].new
       THEN Fails(c, Forsaken(d)) /\ Release(c, run[c].vni) /\ Lets(c, run[c].vni)
       ELSE Fails(c, d) /\ UNCHANGED <<used, md, lost>>

Create(c) ==
  /\ run[c].pc = "below"
  /\ Makes(Dst[c], c, far[c], run[c].vni)
  /\ far' = [far EXCEPT ![c] = Made(@, run[c].vni)]
  /\ run' = [run EXCEPT ![c].pc = "made"]
  /\ UNCHANGED <<used, obj, md, est, known, near, closing, lost, faults>>

\* xconnect closes what it could not create, and vni with it, to which a VNI
\* of zero is none
CreateFails(c) ==
  /\ run[c].pc = "below" /\ Failure
  /\ \E u \in Unmade(Dst[c], c, far[c], run[c].vni) : \E d \in Closed(u) :
       IF run[c].vni = 0
       THEN Fails(c, d) /\ md' = Dropped(c) /\ UNCHANGED <<used, lost>>
       ELSE Fails(c, Forsaken(d)) /\ Release(c, run[c].vni) /\ Lets(c, run[c].vni)

\* xconnect closes nothing when the endpoint's interface gets no context
ContextFails(c) ==
  /\ run[c].pc = "made" /\ Failure
  /\ Fails(c, far[c])
  /\ md' = Dropped(c)
  /\ UNCHANGED <<used, lost>>

-----------------------------------------------------------------------------
(* The answer at the source *)

\* The source makes its end; or it fails, closes what it can, and has the
\* destination close
Answered(c, v) ==
  \/ /\ Makes(Src[c], c, near[c], v)
     /\ known' = [known EXCEPT ![c] = v]
     /\ near' = [near EXCEPT ![c] = Made(@, v)]
     /\ UNCHANGED <<closing, faults>>
  \/ \E u \in Unmade(Src[c], c, near[c], v) : \E d \in Closed(u) :
       /\ known' = [known EXCEPT ![c] = 0]
       /\ near' = [near EXCEPT ![c] = Forsaken(d)]
       /\ closing' = closing \cup {c}
       /\ Failure

\* The source may not see it
Answer(c) ==
  /\ run[c].pc = "made"
  /\ est' = [est EXCEPT ![c] = run[c].vni]
  /\ run' = [run EXCEPT ![c] = Idle]
  /\ \/ UNCHANGED <<known, near, closing, faults>>
     \/ c \notin closing /\ Answered(c, run[c].vni)
  /\ UNCHANGED <<used, obj, md, far, lost>>

\* It sees an error, or nothing in time
NoAnswer(c) ==
  /\ near[c].stored /\ Failure
  /\ \E d \in Closed(near[c]) : near' = [near EXCEPT ![c] = d]
  /\ UNCHANGED <<used, obj, md, est, run, known, far, closing, lost>>

-----------------------------------------------------------------------------
(* The end of a connection *)

\* The source closes; its request may still run at the destination
Close(c) ==
  /\ c \notin closing
  /\ known' = [known EXCEPT ![c] = 0]
  /\ \E d \in Closed(near[c]) :
       /\ near' = [near EXCEPT ![c] = Gone(d)]
       /\ IF Deletes(near[c], d) THEN UNCHANGED faults ELSE Failure
  /\ closing' = closing \cup {c}
  /\ UNCHANGED <<used, obj, md, est, run, far, lost>>

CloseLost(c) ==
  /\ c \in closing /\ closing' = closing \ {c}
  /\ Failure
  /\ UNCHANGED <<used, obj, md, est, run, known, near, far, lost>>

\* The destination closes: for the source, or because nothing came from it
FarClose(c) ==
  /\ run[c].pc = "idle" /\ est[c] # 0
  /\ Release(c, est[c])
  /\ obj' = obj \ {c}
  /\ est' = [est EXCEPT ![c] = 0]
  /\ \E d \in Closed(far[c]) :
       /\ far' = [far EXCEPT ![c] = Gone(d)]
       /\ IF Deletes(far[c], d) THEN UNCHANGED faults ELSE Failure
  /\ closing' = closing \ {c}
  /\ UNCHANGED <<run, known, near>>
  /\ Lets(c, est[c])

\* authorize refuses that Close, and only begin forgets
FarForgets(c) ==
  /\ run[c].pc = "idle" /\ est[c] # 0 /\ Failure
  /\ est' = [est EXCEPT ![c] = 0]
  /\ closing' = closing \ {c}
  /\ UNCHANGED <<used, obj, md, run, known, near, far, lost>>

\* The forwarder of a node, not its kernel
Restart(n) ==
  LET there == {c \in Conn : Dst[c] = n}
      here == {c \in Conn : Src[c] = n}
      except(f, S, x) == [c \in Conn |-> IF c \in S THEN x ELSE f[c]]
      gone(f, S) == [c \in Conn |-> IF c \in S THEN Gone(f[c]) ELSE f[c]]
  IN
  /\ IF used[n] = {} THEN UNCHANGED lost ELSE Lose
  /\ used' = [used EXCEPT ![n] = {}]
  /\ obj' = obj \ there
  /\ md' = except(md, there, None)
  /\ est' = except(est, there, 0)
  /\ run' = except(run, there, Idle)
  /\ known' = except(known, here, 0)
  /\ near' = gone(near, here) /\ far' = gone(far, there)
  /\ closing' = closing \ here
  /\ UNCHANGED faults

Handle(c) ==
  \/ Request(c) \/ Refused(c) \/ Create(c) \/ CreateFails(c)
  \/ ContextFails(c) \/ Answer(c) \/ NoAnswer(c)
  \/ Close(c) \/ CloseLost(c) \/ FarClose(c) \/ FarForgets(c)

Next == (\E c \in Conn : Handle(c)) \/ \E n \in Node : Restart(n)

Spec == Init /\ [][Next]_vars

-----------------------------------------------------------------------------
(* Properties *)

RunType == [pc : {"idle", "below", "made"}, vni : VNI, new : BOOLEAN, fresh : BOOLEAN]
EndType == [at : VNI, home : VNI, away : VNI,
            cached : BOOLEAN, stored : BOOLEAN, forsaken : BOOLEAN]

\* Every variable keeps to its values.
TypeOK ==
  /\ used \in [Node -> SUBSET (Node \X VNI)]
  /\ obj \subseteq Conn
  /\ md \in [Conn -> VNI \cup {None}]
  /\ est \in [Conn -> VNI]
  /\ run \in [Conn -> RunType]
  /\ known \in [Conn -> VNI]
  /\ near \in [Conn -> EndType] /\ far \in [Conn -> EndType]
  /\ closing \subseteq Conn
  /\ lost \in 0..MaxLost /\ faults \in 0..MaxFaults

\* vni/server.go:107, "If its not one already in use, set it and we are good
\* to go": no other tunnel of the two nodes has the VNI of a request, so that
\* neither kernel refuses it; until one is let go that its connection still
\* has, in a record or in a device that a failed creation or Close has left.
NeverTaken ==
  \A c \in Conn :
    lost = 0 /\ run[c].pc # "idle"
      => Free(Dst[c], c, run[c].vni) /\ Free(Src[c], c, run[c].vni)

\* vni/server.go:78, "If we already have a VNI, make sure we remember it": as
\* long as a connection has one, none of its source is given it; with the same
\* exception.
Remembered ==
  \A c \in Conn : lost = 0 /\ md[c] # None => Key(c, md[c]) \in used[Dst[c]]

\* vni's Request, vxlan.Create, refreshes and restarts of either node: while
\* the source goes by the VNI it was answered, what is in place at either end
\* has that VNI, or packets would go astray; but for what was still in the link
\* cache when its VNI was given up, because neither a Create nor its cleanup
\* got through (vxlan/common.go:92 takes it for any VNI).
Agree(d, v) == d.at \in {0, v} \/ d.forsaken
SameVni ==
  \A c \in Conn :
    known[c] # 0 => /\ Agree(near[c], known[c]) /\ Agree(far[c], known[c])
                    /\ md[c] \in {None, known[c]}

=============================================================================
