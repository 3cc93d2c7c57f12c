----------------------------- MODULE VniProofs -----------------------------
(***************************************************************************)
(* Proofs about Vni: its types and SameVni for every instance, NeverTaken  *)
(* and Remembered between two nodes.                                       *)
(***************************************************************************)
EXTENDS Vni, TLAPS

-----------------------------------------------------------------------------
(* Types *)

LEMMA Numbers ==
  /\ 0 \in VNI /\ None \notin VNI /\ VNI \subseteq Nat
  /\ \A c \in Conn : Src[c] \in Node /\ Dst[c] \in Node /\ Src[c] # Dst[c]
  /\ \A c \in Conn, v \in VNI : Key(c, v) \in Node \X VNI
<1>1. 0 \in VNI /\ None \notin VNI /\ VNI \subseteq Nat
  BY VniOK DEF VNI, None
<1>2. \A c \in Conn : Src[c] \in Node /\ Dst[c] \in Node /\ Src[c] # Dst[c]
  BY VniOK
<1> QED
  BY <1>1, <1>2 DEF Key

LEMMA AtTyped ==
  /\ Idle \in RunType /\ Idle.pc = "idle"
  /\ \A pc \in {"idle", "below", "made"}, v \in VNI, new, fresh \in BOOLEAN :
       /\ At(pc, v, new, fresh) \in RunType
       /\ At(pc, v, new, fresh).pc = pc
       /\ At(pc, v, new, fresh).vni = v
       /\ At(pc, v, new, fresh).new = new
       /\ At(pc, v, new, fresh).fresh = fresh
BY Numbers DEF Idle, At, RunType

\* What becomes of an end keeps to its values,
LEMMA EndTyped ==
  ASSUME NEW d \in EndType, NEW v \in VNI
  PROVE  /\ Nothing \in EndType
         /\ Placed(d, v) \in EndType
         /\ Made(d, v) \in EndType
         /\ Gone(d) \in EndType
         /\ Forsaken(d) \in EndType
         /\ \A e \in Closed(d) : e \in EndType
<1> USE Numbers
<1>1. Nothing \in EndType
  BY DEF Nothing, EndType
<1>2. \A w \in VNI : Placed(d, w) \in EndType
  BY DEF Placed, EndType
<1>3. Made(d, v) \in EndType
  BY <1>2 DEF Made, EndType
<1>4. Gone(d) \in EndType
  BY DEF Gone, EndType
<1>5. Forsaken(d) \in EndType
  BY DEF Forsaken, EndType
<1>6. \A e \in Closed(d) : e \in EndType
  BY <1>2 DEF Closed, EndType
<1> QED
  BY <1>1, <1>2, <1>3, <1>4, <1>5, <1>6

LEMMA UnmadeTyped ==
  ASSUME NEW d \in EndType, NEW v \in VNI, NEW n, NEW c, NEW e \in Unmade(n, c, d, v)
  PROVE  e \in EndType
<1>1. Placed(d, 0) \in EndType /\ Placed(d, v) \in EndType
  BY EndTyped, Numbers
<1>2. /\ [Placed(d, 0) EXCEPT !.home = v] \in EndType
      /\ [Placed(d, 0) EXCEPT !.away = v] \in EndType
  BY <1>1 DEF EndType
<1> QED
  BY <1>1, <1>2 DEF Unmade

\* and has no device but those it had, and that of a Create.
LEMMA EndTunnels ==
  ASSUME NEW d \in EndType, NEW v \in VNI
  PROVE  /\ Tunnels(Made(d, v)) \subseteq Tunnels(d) \cup {v}
         /\ Tunnels(Gone(d)) = Tunnels(d)
         /\ Tunnels(Forsaken(d)) = Tunnels(d)
         /\ \A e \in Closed(d) : Tunnels(e) \subseteq Tunnels(d)
<1>1. Tunnels(Made(d, v)) \subseteq Tunnels(d) \cup {v}
  BY DEF Made, Placed, Tunnels, EndType
<1>2. Tunnels(Gone(d)) = Tunnels(d)
  BY DEF Gone, Tunnels, EndType
<1>3. Tunnels(Forsaken(d)) = Tunnels(d)
  BY DEF Forsaken, Tunnels, EndType
<1>4. \A e \in Closed(d) : Tunnels(e) \subseteq Tunnels(d)
  BY DEF Closed, Placed, Tunnels, EndType
<1> QED
  BY <1>1, <1>2, <1>3, <1>4

LEMMA UnmadeTunnels ==
  ASSUME NEW d \in EndType, NEW v \in VNI, NEW n, NEW c, NEW e \in Unmade(n, c, d, v)
  PROVE  Tunnels(e) \subseteq Tunnels(d) \cup {v}
<1>1. \/ e = d
      \/ e = Placed(d, 0)
      \/ e = Placed(d, v)
      \/ e = [Placed(d, 0) EXCEPT !.home = v]
      \/ e = [Placed(d, 0) EXCEPT !.away = v]
  BY DEF Unmade
<1> QED
  BY <1>1 DEF Placed, Tunnels, EndType

LEMMA ChoiceTyped ==
  ASSUME TypeOK, NEW c \in Conn, NEW v \in Choice(c)
  PROVE  v \in VNI
BY Numbers DEF Choice, RandomVNI, TypeOK

LEMMA CountsTyped ==
  ASSUME TypeOK
  PROVE  /\ lost \in 0..MaxLost /\ faults \in 0..MaxFaults
         /\ Lose => lost' \in 0..MaxLost
         /\ \A c \in Conn, v \in VNI : Lets(c, v) => lost' \in 0..MaxLost
         /\ Failure => faults' \in 0..MaxFaults
<1>1. /\ lost \in 0..MaxLost /\ MaxLost \in Nat
      /\ faults \in 0..MaxFaults /\ MaxFaults \in Nat
  BY VniOK DEF TypeOK
<1>2. Lose => lost' \in 0..MaxLost
  BY <1>1 DEF Lose
<1>3. ASSUME NEW c \in Conn, NEW v \in VNI, Lets(c, v)
      PROVE  lost' \in 0..MaxLost
  <2>1. Lose \/ lost' = lost
    BY <1>3 DEF Lets
  <2> QED
    BY <1>1, <1>2, <2>1
<1>4. Failure => faults' \in 0..MaxFaults
  BY <1>1 DEF Failure
<1> QED
  BY <1>1, <1>2, <1>3, <1>4

LEMMA ReleaseTyped ==
  ASSUME TypeOK, NEW c \in Conn, NEW v, Release(c, v)
  PROVE  /\ used' \in [Node -> SUBSET (Node \X VNI)]
         /\ md' \in [Conn -> VNI \cup {None}]
BY Numbers DEF Release, Forgotten, TypeOK

\* What the variables of a connection are
LEMMA Fields ==
  ASSUME TypeOK, NEW c \in Conn
  PROVE  /\ md[c] \in VNI \cup {None} /\ est[c] \in VNI /\ known[c] \in VNI
         /\ near[c] \in EndType /\ far[c] \in EndType
         /\ run[c] \in RunType
         /\ run[c].pc \in {"idle", "below", "made"} /\ run[c].vni \in VNI
         /\ run[c].new \in BOOLEAN /\ run[c].fresh \in BOOLEAN
BY DEF TypeOK, RunType

\* A failure writes no more than this
LEMMA FailsTyped ==
  ASSUME TypeOK, NEW c \in Conn, NEW d \in EndType, Fails(c, d)
  PROVE  /\ obj' \subseteq Conn
         /\ far' \in [Conn -> EndType]
         /\ run' \in [Conn -> RunType]
         /\ UNCHANGED <<est, known, near, closing>>
<1>1. Gone(d) \in EndType
  BY EndTyped, Numbers
<1> QED
  BY <1>1, AtTyped DEF Fails, TypeOK

\* What a request has chosen, and has set its own entries to
LEMMA Requested ==
  ASSUME TypeOK, NEW c \in Conn, Request(c)
  PROVE  \E v \in VNI :
           /\ v \in Choice(c) /\ Remember(c, v)
           /\ md' = [md EXCEPT ![c] = IF @ = None THEN v ELSE @]
           /\ md'[c] = IF md[c] = None THEN v ELSE md[c]
           /\ run' = [run EXCEPT ![c] = At("below", v, md[c] = None, c \notin obj)]
           /\ run'[c].pc = "below" /\ run'[c].vni = v
           /\ UNCHANGED <<est, known, near, far, closing, lost, faults>>
<1>1. PICK v \in Choice(c) :
        /\ Remember(c, v)
        /\ md' = [md EXCEPT ![c] = IF @ = None THEN v ELSE @]
        /\ run' = [run EXCEPT ![c] = At("below", v, md[c] = None, c \notin obj)]
  BY DEF Request
<1>2. v \in VNI
  BY <1>1, ChoiceTyped
<1>3. run'[c] = At("below", v, md[c] = None, c \notin obj)
  BY <1>1 DEF TypeOK
<1>4. run'[c].pc = "below" /\ run'[c].vni = v
  BY <1>3 DEF At
<1>5. md'[c] = IF md[c] = None THEN v ELSE md[c]
  BY <1>1 DEF TypeOK
<1> QED
  BY <1>1, <1>2, <1>4, <1>5 DEF Request

LEMMA HandleTyped ==
  ASSUME TypeOK, NEW c \in Conn, Handle(c)
  PROVE  TypeOK'
<1> USE Numbers
<1>f. /\ run[c] \in RunType /\ run[c].vni \in VNI
      /\ near[c] \in EndType /\ far[c] \in EndType
  BY Fields
<1>1. CASE Request(c)
  <2>1. PICK v \in VNI :
          /\ Remember(c, v)
          /\ md' = [md EXCEPT ![c] = IF @ = None THEN v ELSE @]
          /\ run' = [run EXCEPT ![c] = At("below", v, md[c] = None, c \notin obj)]
    BY <1>1, Requested
  <2>2. md' \in [Conn -> VNI \cup {None}]
    BY <2>1 DEF TypeOK
  <2>3. used' \in [Node -> SUBSET (Node \X VNI)]
    BY <2>1 DEF Remember, TypeOK
  <2>4. At("below", v, md[c] = None, c \notin obj) \in RunType
    <3>1. (md[c] = None) \in BOOLEAN /\ (c \notin obj) \in BOOLEAN
      OBVIOUS
    <3> QED
      BY <3>1, AtTyped
  <2>5. run' \in [Conn -> RunType]
    BY <2>1, <2>4 DEF TypeOK
  <2> QED
    BY <1>1, <2>2, <2>3, <2>5 DEF Request, TypeOK
<1>2. CASE Refused(c)
  <2>1. PICK d \in Closed(far[c]) :
          \/ Fails(c, Forsaken(d)) /\ Release(c, run[c].vni) /\ Lets(c, run[c].vni)
          \/ Fails(c, d) /\ UNCHANGED <<used, md, lost>>
    BY <1>2 DEF Refused
  <2>2. d \in EndType /\ Forsaken(d) \in EndType
    BY <1>f, EndTyped
  <2>3. faults' \in 0..MaxFaults
    BY <1>2, CountsTyped DEF Refused
  <2>4. CASE Fails(c, Forsaken(d)) /\ Release(c, run[c].vni) /\ Lets(c, run[c].vni)
    BY <1>f, <2>2, <2>3, <2>4, FailsTyped, ReleaseTyped, CountsTyped DEF TypeOK
  <2>5. CASE Fails(c, d) /\ UNCHANGED <<used, md, lost>>
    BY <2>2, <2>3, <2>5, FailsTyped DEF TypeOK
  <2> QED
    BY <2>1, <2>4, <2>5
<1>3. CASE Create(c)
  <2>1. run' \in [Conn -> RunType]
    BY <1>3, <1>f DEF Create, TypeOK, RunType
  <2>2. far' \in [Conn -> EndType]
    BY <1>3, <1>f, EndTyped DEF Create, TypeOK
  <2> QED
    BY <1>3, <2>1, <2>2 DEF Create, TypeOK
<1>4. CASE CreateFails(c)
  <2>1. PICK u \in Unmade(Dst[c], c, far[c], run[c].vni) :
          \E d \in Closed(u) :
            \/ Fails(c, d) /\ md' = Dropped(c) /\ UNCHANGED <<used, lost>>
            \/ Fails(c, Forsaken(d)) /\ Release(c, run[c].vni) /\ Lets(c, run[c].vni)
    BY <1>4 DEF CreateFails
  <2>2. PICK d \in Closed(u) :
            \/ Fails(c, d) /\ md' = Dropped(c) /\ UNCHANGED <<used, lost>>
            \/ Fails(c, Forsaken(d)) /\ Release(c, run[c].vni) /\ Lets(c, run[c].vni)
    BY <2>1
  <2>3. u \in EndType
    BY <1>f, <2>1, UnmadeTyped
  <2>4. d \in EndType /\ Forsaken(d) \in EndType
    <3>1. d \in EndType
      BY <2>2, <2>3, EndTyped
    <3> QED
      BY <3>1, EndTyped
  <2>5. faults' \in 0..MaxFaults
    BY <1>4, CountsTyped DEF CreateFails
  <2>6. CASE Fails(c, d) /\ md' = Dropped(c) /\ UNCHANGED <<used, lost>>
    <3>1. md' \in [Conn -> VNI \cup {None}]
      BY <2>6 DEF Dropped, TypeOK
    <3> QED
      BY <2>4, <2>5, <2>6, <3>1, FailsTyped DEF TypeOK
  <2>7. CASE Fails(c, Forsaken(d)) /\ Release(c, run[c].vni) /\ Lets(c, run[c].vni)
    BY <1>f, <2>4, <2>5, <2>7, FailsTyped, ReleaseTyped, CountsTyped DEF TypeOK
  <2> QED
    BY <2>2, <2>6, <2>7
<1>5. CASE ContextFails(c)
  <2>1. Fails(c, far[c]) /\ md' = Dropped(c) /\ UNCHANGED <<used, lost>> /\ Failure
    BY <1>5 DEF ContextFails
  <2>2. md' \in [Conn -> VNI \cup {None}]
    BY <2>1 DEF Dropped, TypeOK
  <2> QED
    BY <1>f, <2>1, <2>2, FailsTyped, CountsTyped DEF TypeOK
<1>6. CASE Answer(c)
  <2>1. run' \in [Conn -> RunType] /\ est' \in [Conn -> VNI]
    BY <1>6, <1>f, AtTyped DEF Answer, TypeOK
  <2>2. /\ known' \in [Conn -> VNI] /\ near' \in [Conn -> EndType]
        /\ closing' \subseteq Conn /\ faults' \in 0..MaxFaults
    <3>1. CASE UNCHANGED <<known, near, closing, faults>>
      BY <3>1 DEF TypeOK
    <3>2. CASE /\ known' = [known EXCEPT ![c] = run[c].vni]
               /\ near' = [near EXCEPT ![c] = Made(@, run[c].vni)]
               /\ UNCHANGED <<closing, faults>>
      <4>1. Made(near[c], run[c].vni) \in EndType
        BY <1>f, EndTyped
      <4> QED
        BY <1>f, <3>2, <4>1 DEF TypeOK
    <3>3. CASE \E u \in Unmade(Src[c], c, near[c], run[c].vni) : \E d \in Closed(u) :
                 /\ known' = [known EXCEPT ![c] = 0]
                 /\ near' = [near EXCEPT ![c] = Forsaken(d)]
                 /\ closing' = closing \cup {c}
                 /\ Failure
      <4>1. PICK u \in Unmade(Src[c], c, near[c], run[c].vni) : \E d \in Closed(u) :
              /\ known' = [known EXCEPT ![c] = 0]
              /\ near' = [near EXCEPT ![c] = Forsaken(d)]
              /\ closing' = closing \cup {c}
              /\ Failure
        BY <3>3
      <4>2. PICK d \in Closed(u) :
              /\ known' = [known EXCEPT ![c] = 0]
              /\ near' = [near EXCEPT ![c] = Forsaken(d)]
              /\ closing' = closing \cup {c}
              /\ Failure
        BY <4>1
      <4>3. u \in EndType
        BY <1>f, <4>1, UnmadeTyped
      <4>4. d \in EndType
        BY <4>2, <4>3, EndTyped
      <4>5. Forsaken(d) \in EndType
        BY <4>4, EndTyped
      <4> QED
        BY <4>2, <4>5, CountsTyped DEF TypeOK
    <3> QED
      BY <1>6, <3>1, <3>2, <3>3 DEF Answer, Answered
  <2> QED
    BY <1>6, <2>1, <2>2 DEF Answer, TypeOK
<1>7. CASE NoAnswer(c)
  <2>1. PICK d \in Closed(near[c]) : near' = [near EXCEPT ![c] = d]
    BY <1>7 DEF NoAnswer
  <2>2. near' \in [Conn -> EndType]
    BY <1>f, <2>1, EndTyped DEF TypeOK
  <2> QED
    BY <1>7, <2>2, CountsTyped DEF NoAnswer, TypeOK
<1>8. CASE Close(c)
  <2>1. PICK d \in Closed(near[c]) :
          /\ near' = [near EXCEPT ![c] = Gone(d)]
          /\ Failure \/ UNCHANGED faults
    BY <1>8 DEF Close
  <2>2. Gone(d) \in EndType
    <3>1. d \in EndType
      BY <1>f, <2>1, EndTyped
    <3> QED
      BY <3>1, EndTyped
  <2>3. near' \in [Conn -> EndType]
    BY <2>1, <2>2 DEF TypeOK
  <2>4. faults' \in 0..MaxFaults
    BY <2>1, CountsTyped
  <2> QED
    BY <1>8, <2>3, <2>4 DEF Close, TypeOK
<1>9. CASE CloseLost(c)
  BY <1>9, CountsTyped DEF CloseLost, TypeOK
<1>10. CASE FarClose(c)
  <2>1. PICK d \in Closed(far[c]) :
          /\ far' = [far EXCEPT ![c] = Gone(d)]
          /\ Failure \/ UNCHANGED faults
    BY <1>10 DEF FarClose
  <2>2. Gone(d) \in EndType
    <3>1. d \in EndType
      BY <1>f, <2>1, EndTyped
    <3> QED
      BY <3>1, EndTyped
  <2>3. far' \in [Conn -> EndType]
    BY <2>1, <2>2 DEF TypeOK
  <2>4. faults' \in 0..MaxFaults
    BY <2>1, CountsTyped
  <2>5. /\ used' \in [Node -> SUBSET (Node \X VNI)]
        /\ md' \in [Conn -> VNI \cup {None}]
        /\ lost' \in 0..MaxLost
    <3>1. est[c] \in VNI
      BY Fields
    <3> QED
      BY <1>10, <3>1, ReleaseTyped, CountsTyped DEF FarClose
  <2>6. est' \in [Conn -> VNI]
    BY <1>10 DEF FarClose, TypeOK
  <2> QED
    BY <1>10, <2>3, <2>4, <2>5, <2>6 DEF FarClose, TypeOK
<1>11. CASE FarForgets(c)
  BY <1>11, CountsTyped DEF FarForgets, TypeOK
<1> QED
  BY <1>1, <1>2, <1>3, <1>4, <1>5, <1>6, <1>7, <1>8, <1>9, <1>10, <1>11 DEF Handle

\* What a restart leaves and what it takes
LEMMA AfterRestart ==
  ASSUME TypeOK, NEW n \in Node, Restart(n)
  PROVE  /\ \A c \in Conn :
              /\ known'[c] = IF Src[c] = n THEN 0 ELSE known[c]
              /\ near'[c] = IF Src[c] = n THEN Gone(near[c]) ELSE near[c]
              /\ far'[c] = IF Dst[c] = n THEN Gone(far[c]) ELSE far[c]
              /\ md'[c] = IF Dst[c] = n THEN None ELSE md[c]
              /\ est'[c] = IF Dst[c] = n THEN 0 ELSE est[c]
              /\ run'[c] = IF Dst[c] = n THEN Idle ELSE run[c]
         /\ \A m \in Node : used'[m] = IF m = n THEN {} ELSE used[m]
BY DEF Restart, TypeOK

LEMMA RestartTyped ==
  ASSUME TypeOK, NEW n \in Node, Restart(n)
  PROVE  TypeOK'
<1> USE Numbers, AtTyped
<1>1. used' \in [Node -> SUBSET (Node \X VNI)]
  BY DEF Restart, TypeOK
<1>2. md' \in [Conn -> VNI \cup {None}] /\ est' \in [Conn -> VNI]
  BY DEF Restart, TypeOK
<1>3. run' \in [Conn -> RunType]
  BY DEF Restart, TypeOK
<1>4. known' \in [Conn -> VNI] /\ closing' \subseteq Conn /\ obj' \subseteq Conn
  BY DEF Restart, TypeOK
<1>5. lost' \in 0..MaxLost
  BY CountsTyped DEF Restart
<1>6. \A c \in Conn : Gone(near[c]) \in EndType /\ Gone(far[c]) \in EndType
  BY EndTyped, Fields
<1>7. near' \in [Conn -> EndType] /\ far' \in [Conn -> EndType]
  BY <1>6 DEF Restart, TypeOK
<1> QED
  BY <1>1, <1>2, <1>3, <1>4, <1>5, <1>7 DEF Restart, TypeOK

LEMMA InitTyped ==
  ASSUME Init
  PROVE  TypeOK
BY Numbers, AtTyped, VniOK DEF Init, TypeOK, EndType, Nothing

LEMMA NextTyped ==
  ASSUME TypeOK, [Next]_vars
  PROVE  TypeOK'
<1>1. CASE UNCHANGED vars
  BY <1>1 DEF vars, TypeOK
<1> QED
  BY <1>1, HandleTyped, RestartTyped DEF Next

\* Vni's variables keep to their values, for every set of nodes and
\* connections, whatever is forgotten.
THEOREM VniTypeCorrect == Spec => []TypeOK
<1>1. Init => TypeOK
  BY InitTyped
<1>2. TypeOK /\ [Next]_vars => TypeOK'
  BY NextTyped
<1> QED
  BY <1>1, <1>2, PTL DEF Spec

-----------------------------------------------------------------------------
(* Both ends have one VNI *)

\* The cache of an end has a device whose VNI has not been given up
Live(d) == d.cached /\ ~d.forsaken /\ d.at # 0

\* It is that of the source's record, or of the destination's metadata; and
\* while a request runs, it has the VNI that its connection has
OneVni(c) ==
  /\ known[c] # 0 => /\ Agree(near[c], known[c]) /\ Agree(far[c], known[c])
                     /\ md[c] \in {None, known[c]}
                     /\ run[c].pc # "idle" => run[c].vni = known[c]
  /\ run[c].pc # "idle" => md[c] = run[c].vni
  /\ run[c].pc = "made" => Agree(far[c], run[c].vni)
  /\ Live(near[c]) => known[c] = near[c].at
  /\ Live(far[c]) => md[c] = far[c].at

Same == TypeOK /\ \A c \in Conn : OneVni(c)

\* What happens to an end, what is in place and in the cache
LEMMA EndAgrees ==
  ASSUME NEW d \in EndType, NEW v \in VNI
  PROVE  /\ \A w \in VNI : Agree(d, w) => Agree(Gone(d), w) /\ Agree(Forsaken(d), w)
         /\ ~Live(Gone(d)) /\ ~Live(Forsaken(d))
         /\ (Live(d) => d.at = v) => /\ Agree(Made(d, v), v)
                                     /\ Live(Made(d, v)) => Made(d, v).at = v
<1>1. \A w \in VNI : Agree(d, w) => Agree(Gone(d), w) /\ Agree(Forsaken(d), w)
  BY DEF Agree, Gone, Forsaken, EndType
<1>2. ~Live(Gone(d)) /\ ~Live(Forsaken(d))
  BY DEF Live, Gone, Forsaken, EndType
<1>3. ASSUME Live(d) => d.at = v
      PROVE  Agree(Made(d, v), v) /\ (Live(Made(d, v)) => Made(d, v).at = v)
  <2>1. CASE Redundant(d)
    <3>1. Made(d, v) = [d EXCEPT !.stored = TRUE]
      BY <2>1 DEF Made
    <3> QED
      BY <1>3, <2>1, <3>1 DEF Redundant, Agree, Live, EndType
  <2>2. CASE ~Redundant(d)
    <3>1. Made(d, v).at = v
      BY <2>2 DEF Made, Placed, EndType
    <3> QED
      BY <3>1 DEF Agree
  <2> QED
    BY <2>1, <2>2
<1> QED
  BY <1>1, <1>2, <1>3

LEMMA ClosedAgrees ==
  ASSUME NEW d \in EndType, NEW e \in Closed(d)
  PROVE  /\ e \in EndType
         /\ \A w \in VNI : Agree(d, w) => Agree(e, w)
         /\ Live(e) => Live(d) /\ e.at = d.at
<1>1. e \in EndType
  BY EndTyped, Numbers
<1>2. \/ e = d
      \/ e = [d EXCEPT !.stored = FALSE]
      \/ e = [Placed(d, 0) EXCEPT !.stored = FALSE, !.cached = @ /\ d.at = 0]
  BY DEF Closed
<1>3. CASE e = d
  BY <1>1, <1>3
<1>4. CASE e = [d EXCEPT !.stored = FALSE]
  BY <1>1, <1>4 DEF Agree, Live, EndType
<1>5. CASE e = [Placed(d, 0) EXCEPT !.stored = FALSE, !.cached = @ /\ d.at = 0]
  BY <1>1, <1>5 DEF Agree, Live, Placed, EndType
<1> QED
  BY <1>2, <1>3, <1>4, <1>5

LEMMA UnmadeAgrees ==
  ASSUME NEW d \in EndType, NEW v \in VNI, NEW n, NEW c, NEW e \in Unmade(n, c, d, v)
  PROVE  /\ e \in EndType
         /\ Agree(d, v) => Agree(e, v)
         /\ v = 0 => e = d
<1>1. e \in EndType
  BY UnmadeTyped
<1>2. \/ e = d
      \/ e = Placed(d, 0)
      \/ e = Placed(d, v)
      \/ e = [Placed(d, 0) EXCEPT !.home = v]
      \/ e = [Placed(d, 0) EXCEPT !.away = v]
  BY DEF Unmade
<1>3. Agree(d, v) => Agree(e, v)
  BY <1>2 DEF Placed, Agree, EndType
<1>4. v = 0 => e = d
  BY DEF Unmade
<1> QED
  BY <1>1, <1>3, <1>4

Of(c) == <<md[c], est[c], run[c], known[c], near[c], far[c]>>

\* A handler touches its own connection only
LEMMA Others ==
  ASSUME TypeOK, NEW c \in Conn, Handle(c), NEW d \in Conn, d # c
  PROVE  Of(d)' = Of(d)
<1>1. CASE Request(c)
  BY <1>1 DEF Request, Of, TypeOK
<1>2. CASE Refused(c)
  BY <1>2 DEF Refused, Release, Fails, Of, TypeOK
<1>3. CASE Create(c)
  BY <1>3 DEF Create, Of, TypeOK
<1>4. CASE CreateFails(c)
  BY <1>4 DEF CreateFails, Release, Fails, Dropped, Of, TypeOK
<1>5. CASE ContextFails(c)
  BY <1>5 DEF ContextFails, Fails, Dropped, Of, TypeOK
<1>6. CASE Answer(c)
  BY <1>6 DEF Answer, Answered, Of, TypeOK
<1>7. CASE NoAnswer(c)
  BY <1>7 DEF NoAnswer, Of, TypeOK
<1>8. CASE Close(c) \/ CloseLost(c)
  BY <1>8 DEF Close, CloseLost, Of, TypeOK
<1>9. CASE FarClose(c) \/ FarForgets(c)
  BY <1>9 DEF FarClose, FarForgets, Release, Of, TypeOK
<1> QED
  BY <1>1, <1>2, <1>3, <1>4, <1>5, <1>6, <1>7, <1>8, <1>9 DEF Handle

\* What a failure leaves of the connection
LEMMA AfterFails ==
  ASSUME TypeOK, NEW c \in Conn, NEW d, Fails(c, d)
  PROVE  /\ run'[c].pc = "idle"
         /\ far'[c] = IF run[c].fresh THEN Gone(d) ELSE d
         /\ UNCHANGED <<known, near, est>>
BY AtTyped DEF Fails, TypeOK

LEMMA OneVniKept ==
  ASSUME Same, NEW c \in Conn, Handle(c)
  PROVE  OneVni(c)'
<1>f. /\ TypeOK /\ OneVni(c)
      /\ near[c] \in EndType /\ far[c] \in EndType
      /\ run[c].vni \in VNI /\ known[c] \in VNI /\ md[c] \in VNI \cup {None}
      /\ run[c].pc \in {"idle", "below", "made"}
  BY Fields DEF Same
\* the destination's end is left as it was, or without what the cache had
<1>a. ASSUME NEW d \in EndType, run[c].pc # "idle", Agree(far[c], run[c].vni) => Agree(d, run[c].vni),
             Fails(c, d),
             \/ ~Live(d) /\ md'[c] \in {md[c], None}
             \/ /\ Live(d) => Live(far[c]) /\ d.at = far[c].at
                /\ md'[c] = IF run[c].fresh THEN None ELSE md[c]
      PROVE  OneVni(c)'
  <2>1. /\ run'[c].pc = "idle" /\ UNCHANGED <<known, near>>
        /\ far'[c] = IF run[c].fresh THEN Gone(d) ELSE d
    BY <1>a, <1>f, AfterFails
  <2>2. known[c] # 0 => known[c] = run[c].vni
    BY <1>a, <1>f DEF OneVni
  <2>3. known[c] # 0 => Agree(far'[c], known[c])
    <3>1. known[c] # 0 => Agree(d, known[c])
      BY <1>a, <1>f, <2>2 DEF OneVni
    <3>2. known[c] # 0 => Agree(Gone(d), known[c])
      BY <1>a, <1>f, <3>1, EndAgrees
    <3> QED
      BY <2>1, <3>1, <3>2
  <2>4. Live(far'[c]) => md'[c] = far'[c].at
    <3>1. ~Live(Gone(d))
      BY <1>a, EndAgrees, Numbers
    <3>2. CASE run[c].fresh
      BY <2>1, <3>1, <3>2
    <3>3. CASE ~run[c].fresh
      BY <1>a, <1>f, <2>1, <3>3 DEF OneVni
    <3> QED
      BY <3>2, <3>3
  <2>5. md'[c] \in {md[c], None}
    BY <1>a
  <2> QED
    BY <1>f, <2>1, <2>3, <2>4, <2>5 DEF OneVni
<1>1. CASE Request(c)
  <2>1. PICK v \in VNI :
          /\ v \in Choice(c)
          /\ md'[c] = IF md[c] = None THEN v ELSE md[c]
          /\ run'[c].pc = "below" /\ run'[c].vni = v
          /\ UNCHANGED <<known, near, far>>
    BY <1>1, <1>f, Requested
  <2>2. /\ known[c] # 0 => v = known[c]
        /\ known[c] = 0 /\ md[c] # None => v = md[c]
    BY <2>1 DEF Choice
  <2>3. Live(far[c]) => md[c] # None
    BY <1>f, Numbers DEF OneVni, EndType
  <2> QED
    BY <1>f, <2>1, <2>2, <2>3, Numbers DEF OneVni
<1>2. CASE Refused(c)
  <2>1. PICK d \in Closed(far[c]) :
          IF run[c].new
          THEN Fails(c, Forsaken(d)) /\ Release(c, run[c].vni) /\ Lets(c, run[c].vni)
          ELSE Fails(c, d) /\ UNCHANGED <<used, md, lost>>
    BY <1>2 DEF Refused
  <2>2. run[c].pc = "below"
    BY <1>2 DEF Refused
  <2>3. /\ d \in EndType /\ Forsaken(d) \in EndType
        /\ Agree(far[c], run[c].vni) => Agree(d, run[c].vni) /\ Agree(Forsaken(d), run[c].vni)
        /\ ~Live(Forsaken(d)) /\ (Live(d) => Live(far[c]) /\ d.at = far[c].at)
    <3>1. /\ d \in EndType
          /\ Agree(far[c], run[c].vni) => Agree(d, run[c].vni)
          /\ Live(d) => Live(far[c]) /\ d.at = far[c].at
      BY <1>f, <2>1, ClosedAgrees
    <3> QED
      BY <1>f, <3>1, EndTyped, EndAgrees
  <2>4. CASE run[c].new
    <3>1. md'[c] = None
      BY <2>1, <2>4, <1>f DEF Release, TypeOK
    <3> QED
      BY <1>a, <2>1, <2>2, <2>3, <2>4, <3>1
  <2>5. CASE ~run[c].new
    <3>1. Fails(c, d) /\ md' = md
      BY <2>1, <2>5
    <3>2. CASE run[c].fresh
      <4>1. far'[c] = Gone(d) /\ run'[c].pc = "idle" /\ UNCHANGED <<known, near>>
        BY <1>f, <3>1, <3>2, AfterFails
      <4>2. ~Live(Gone(d)) /\ (Agree(d, known[c]) => Agree(Gone(d), known[c]))
        BY <1>f, <2>3, EndAgrees
      <4>3. known[c] # 0 => Agree(d, known[c])
        BY <1>f, <2>2, <2>3 DEF OneVni
      <4> QED
        BY <1>f, <3>1, <4>1, <4>2, <4>3 DEF OneVni
    <3>3. CASE ~run[c].fresh
      BY <1>a, <2>2, <2>3, <3>1, <3>3
    <3> QED
      BY <3>2, <3>3
  <2> QED
    BY <2>4, <2>5
<1>3. CASE Create(c)
  <2>1. /\ run[c].pc = "below" /\ run'[c].pc = "made" /\ run'[c].vni = run[c].vni
        /\ far'[c] = Made(far[c], run[c].vni) /\ UNCHANGED <<md, known, near>>
    BY <1>3, <1>f DEF Create, TypeOK, RunType
  <2>2. Live(far[c]) => far[c].at = run[c].vni
    BY <1>f, <2>1 DEF OneVni
  <2>3. Agree(far'[c], run[c].vni) /\ (Live(far'[c]) => far'[c].at = run[c].vni)
    BY <1>f, <2>1, <2>2, EndAgrees
  <2> QED
    BY <1>f, <2>1, <2>3 DEF OneVni
<1>4. CASE CreateFails(c)
  <2>0. run[c].pc = "below"
    BY <1>4 DEF CreateFails
  <2>1. PICK u \in Unmade(Dst[c], c, far[c], run[c].vni) : \E d \in Closed(u) :
          IF run[c].vni = 0
          THEN Fails(c, d) /\ md' = Dropped(c) /\ UNCHANGED <<used, lost>>
          ELSE Fails(c, Forsaken(d)) /\ Release(c, run[c].vni) /\ Lets(c, run[c].vni)
    BY <1>4 DEF CreateFails
  <2>2. PICK d \in Closed(u) :
          IF run[c].vni = 0
          THEN Fails(c, d) /\ md' = Dropped(c) /\ UNCHANGED <<used, lost>>
          ELSE Fails(c, Forsaken(d)) /\ Release(c, run[c].vni) /\ Lets(c, run[c].vni)
    BY <2>1
  <2>3. /\ u \in EndType /\ (Agree(far[c], run[c].vni) => Agree(u, run[c].vni))
        /\ run[c].vni = 0 => u = far[c]
    BY <1>f, <2>1, UnmadeAgrees
  <2>4. /\ d \in EndType
        /\ Agree(u, run[c].vni) => Agree(d, run[c].vni)
        /\ Live(d) => Live(u) /\ d.at = u.at
    BY <1>f, <2>2, <2>3, ClosedAgrees
  <2>5. CASE run[c].vni = 0
    <3>1. md'[c] = IF run[c].fresh THEN None ELSE md[c]
      BY <2>2, <2>5, <1>f DEF Dropped, TypeOK
    <3> QED
      BY <1>a, <2>0, <2>2, <2>3, <2>4, <2>5, <3>1
  <2>6. CASE run[c].vni # 0
    <3>1. md'[c] = None
      BY <2>2, <2>6, <1>f DEF Release, TypeOK
    <3>2. /\ Forsaken(d) \in EndType /\ ~Live(Forsaken(d))
          /\ Agree(d, run[c].vni) => Agree(Forsaken(d), run[c].vni)
      BY <1>f, <2>4, EndTyped, EndAgrees
    <3> QED
      BY <1>a, <2>0, <2>2, <2>3, <2>4, <2>6, <3>1, <3>2
  <2> QED
    BY <2>5, <2>6
<1>5. CASE ContextFails(c)
  <2>1. /\ run[c].pc = "made" /\ Fails(c, far[c])
        /\ md'[c] = IF run[c].fresh THEN None ELSE md[c]
    BY <1>5, <1>f DEF ContextFails, Dropped, TypeOK
  <2> QED
    BY <1>a, <1>f, <2>1
<1>6. CASE Answer(c)
  <2>1. /\ run[c].pc = "made" /\ run'[c].pc = "idle" /\ UNCHANGED <<md, far>>
    BY <1>6, <1>f, AtTyped DEF Answer, TypeOK
  <2>2. CASE UNCHANGED <<known, near, closing, faults>>
    BY <1>f, <2>1, <2>2 DEF OneVni
  <2>3. CASE /\ known' = [known EXCEPT ![c] = run[c].vni]
             /\ near' = [near EXCEPT ![c] = Made(@, run[c].vni)]
    <3>1. known'[c] = run[c].vni /\ near'[c] = Made(near[c], run[c].vni)
      BY <1>f, <2>3 DEF TypeOK
    <3>2. Live(near[c]) => near[c].at = run[c].vni
      BY <1>f, <2>1 DEF OneVni, Live
    <3>3. Agree(near'[c], run[c].vni) /\ (Live(near'[c]) => near'[c].at = run[c].vni)
      BY <1>f, <3>1, <3>2, EndAgrees
    <3> QED
      BY <1>f, <2>1, <3>1, <3>3 DEF OneVni
  <2>4. CASE \E u \in Unmade(Src[c], c, near[c], run[c].vni) : \E d \in Closed(u) :
               /\ known' = [known EXCEPT ![c] = 0]
               /\ near' = [near EXCEPT ![c] = Forsaken(d)]
    <3>1. PICK u \in Unmade(Src[c], c, near[c], run[c].vni) : \E d \in Closed(u) :
               /\ known' = [known EXCEPT ![c] = 0]
               /\ near' = [near EXCEPT ![c] = Forsaken(d)]
      BY <2>4
    <3>2. PICK d \in Closed(u) :
               /\ known' = [known EXCEPT ![c] = 0]
               /\ near' = [near EXCEPT ![c] = Forsaken(d)]
      BY <3>1
    <3>3. d \in EndType
      <4>1. u \in EndType
        BY <1>f, <3>1, UnmadeAgrees
      <4> QED
        BY <3>2, <4>1, ClosedAgrees
    <3>4. known'[c] = 0 /\ near'[c] = Forsaken(d)
      BY <1>f, <3>2 DEF TypeOK
    <3>5. ~Live(near'[c])
      BY <3>3, <3>4, EndAgrees, Numbers
    <3> QED
      BY <1>f, <2>1, <3>4, <3>5 DEF OneVni
  <2> QED
    BY <1>6, <2>2, <2>3, <2>4 DEF Answer, Answered
<1>7. CASE NoAnswer(c)
  <2>1. PICK d \in Closed(near[c]) : near' = [near EXCEPT ![c] = d]
    BY <1>7 DEF NoAnswer
  <2>2. near'[c] = d /\ UNCHANGED <<md, run, known, far>>
    BY <1>7, <1>f, <2>1 DEF NoAnswer, TypeOK
  <2>3. /\ Agree(near[c], known[c]) => Agree(d, known[c])
        /\ Live(d) => Live(near[c]) /\ d.at = near[c].at
    BY <1>f, <2>1, ClosedAgrees
  <2> QED
    BY <1>f, <2>2, <2>3 DEF OneVni
<1>8. CASE Close(c)
  <2>1. PICK d \in Closed(near[c]) : near' = [near EXCEPT ![c] = Gone(d)]
    BY <1>8 DEF Close
  <2>2. known'[c] = 0 /\ near'[c] = Gone(d) /\ UNCHANGED <<md, run, far>>
    BY <1>8, <1>f, <2>1 DEF Close, TypeOK
  <2>3. ~Live(near'[c])
    <3>1. d \in EndType
      BY <1>f, <2>1, ClosedAgrees
    <3> QED
      BY <2>2, <3>1, EndAgrees, Numbers
  <2> QED
    BY <1>f, <2>2, <2>3 DEF OneVni
<1>9. CASE CloseLost(c)
  BY <1>9, <1>f DEF CloseLost, OneVni
<1>10. CASE FarClose(c)
  <2>1. PICK d \in Closed(far[c]) : far' = [far EXCEPT ![c] = Gone(d)]
    BY <1>10 DEF FarClose
  <2>2. /\ run[c].pc = "idle" /\ UNCHANGED <<run, known, near>>
        /\ far'[c] = Gone(d)
    BY <1>10, <1>f, <2>1 DEF FarClose, TypeOK
  <2>3. md'[c] = None
    BY <1>10, <1>f DEF FarClose, Release, TypeOK
  <2>4. ~Live(far'[c]) /\ (Agree(far[c], known[c]) => Agree(far'[c], known[c]))
    <3>1. d \in EndType /\ (Agree(far[c], known[c]) => Agree(d, known[c]))
      BY <1>f, <2>1, ClosedAgrees
    <3> QED
      BY <1>f, <2>2, <3>1, EndAgrees
  <2> QED
    BY <1>f, <2>2, <2>3, <2>4 DEF OneVni
<1>11. CASE FarForgets(c)
  BY <1>11, <1>f DEF FarForgets, OneVni
<1> QED
  BY <1>1, <1>2, <1>3, <1>4, <1>5, <1>6, <1>7, <1>8, <1>9, <1>10, <1>11 DEF Handle

LEMMA SameKept ==
  ASSUME Same, [Next]_vars
  PROVE  Same'
<1>1. TypeOK'
  BY NextTyped DEF Same
<1>2. ASSUME NEW c \in Conn, Handle(c), NEW d \in Conn
      PROVE  OneVni(d)'
  <2>1. CASE d = c
    BY <1>2, <2>1, OneVniKept
  <2>2. CASE d # c
    <3>1. Of(d)' = Of(d)
      BY <1>2, <2>2, Others DEF Same
    <3> QED
      BY <3>1 DEF Of, Same, OneVni
  <2> QED
    BY <2>1, <2>2
<1>3. ASSUME NEW n \in Node, Restart(n), NEW d \in Conn
      PROVE  OneVni(d)'
  <2>1. /\ \/ known'[d] = 0 /\ near'[d] = Gone(near[d])
           \/ known'[d] = known[d] /\ near'[d] = near[d]
        /\ \/ md'[d] = md[d] /\ run'[d] = run[d] /\ far'[d] = far[d]
           \/ md'[d] = None /\ run'[d] = Idle /\ far'[d] = Gone(far[d])
    BY <1>3, AfterRestart DEF Same
  <2>2. near[d] \in EndType /\ far[d] \in EndType /\ known[d] \in VNI /\ OneVni(d)
    BY Fields DEF Same
  <2>3. /\ ~Live(Gone(near[d])) /\ ~Live(Gone(far[d]))
        /\ Agree(far[d], known[d]) => Agree(Gone(far[d]), known[d])
    BY <2>2, EndAgrees
  <2> QED
    BY <2>1, <2>2, <2>3, AtTyped DEF OneVni
<1>4. CASE UNCHANGED vars
  BY <1>4 DEF vars, Same, OneVni, TypeOK
<1> QED
  BY <1>1, <1>2, <1>3, <1>4 DEF Next, Same

LEMMA InitSame ==
  ASSUME Init
  PROVE  Same
<1>1. \A c \in Conn : /\ known[c] = 0 /\ run[c].pc = "idle"
                      /\ near[c] = Nothing /\ far[c] = Nothing
  BY AtTyped DEF Init
<1>2. ~Live(Nothing)
  BY DEF Live, Nothing
<1> QED
  BY <1>1, <1>2, InitTyped DEF Same, OneVni

\* The VNI the source of a tunnel goes by is that of both its ends, for
\* every set of nodes and connections, whatever fails or is forgotten on the
\* way, but for a device that was in the link cache when its VNI was given up.
THEOREM SameVniTheorem == Spec => []SameVni
<1>1. Init => Same
  BY InitSame
<1>2. Same /\ [Next]_vars => Same'
  BY SameKept
<1>3. Same => SameVni
  BY DEF Same, OneVni, SameVni
<1> QED
  BY <1>1, <1>2, <1>3, PTL DEF Spec

-----------------------------------------------------------------------------
(* No VNI twice between two nodes *)

TwoNodes == \A c, d \in Conn : {Src[c], Dst[c]} = {Src[d], Dst[d]}

\* All that a connection has of VNIs, in the kernels and in records
Has(c, v) == v \in Held(c) \/ md[c] = v \/ (run[c].pc # "idle" /\ run[c].vni = v)

\* With nothing let go too early, the keys of all of it are there, and no
\* two connections of a source have the same
Kept(c) ==
  \A v \in VNI : Has(c, v) => Key(c, v) \in used[Dst[c]] /\ v \in RandomVNI(c)

Apart(c, d) ==
  Src[c] = Src[d] => \A v \in VNI : ~(Has(c, v) /\ Has(d, v))

NInv ==
  /\ TypeOK
  /\ \A c \in Conn : Kept(c)
  /\ \A c, d \in Conn : c # d => Apart(c, d)

\* The keys that a step of one connection takes away or adds are its own
OwnKeys(c) ==
  /\ \A n \in Node : n # Dst[c] => used'[n] = used[n]
  /\ \A k \in used[Dst[c]] :
       k \in used'[Dst[c]] \/ \E v \in VNI : k = Key(c, v) /\ Has(c, v)

\* and what it has afterwards, it had, or nobody
OwnVni(c) ==
  \A v \in VNI :
    Has(c, v)' =>
      /\ Key(c, v) \in used'[Dst[c]] /\ v \in RandomVNI(c)
      /\ Has(c, v) \/ Key(c, v) \notin used[Dst[c]]

LEMMA StaysApart ==
  ASSUME TwoNodes, NInv, NEW c \in Conn, OwnKeys(c), OwnVni(c),
         \A d \in Conn \ {c} : Of(d)' = Of(d)
  PROVE  /\ \A d \in Conn : Kept(d)'
         /\ \A d, e \in Conn : d # e => Apart(d, e)'
<1>1. ASSUME NEW d \in Conn, d # c, NEW v \in VNI
      PROVE  Has(d, v)' <=> Has(d, v)
  <2>1. /\ md'[d] = md[d] /\ est'[d] = est[d] /\ run'[d] = run[d]
        /\ known'[d] = known[d] /\ near'[d] = near[d] /\ far'[d] = far[d]
    BY <1>1 DEF Of
  <2> QED
    BY <2>1 DEF Has, Held, Tunnels
<1>2. ASSUME NEW d \in Conn, d # c, Src[d] = Src[c], NEW v \in VNI, Has(d, v)
      PROVE  ~Has(c, v)'
  <2>1. Dst[d] = Dst[c]
    BY <1>2, Numbers DEF TwoNodes
  <2>2. Key(d, v) \in used[Dst[d]] /\ ~Has(c, v)
    BY <1>2 DEF NInv, Kept, Apart
  <2>3. Key(c, v) \in used[Dst[c]]
    BY <1>2, <2>1, <2>2 DEF Key
  <2> QED
    BY <2>2, <2>3 DEF OwnVni
<1>3. ASSUME NEW d \in Conn, d # c, NEW v \in VNI, Has(d, v)
      PROVE  Key(d, v) \in used'[Dst[d]] /\ v \in RandomVNI(d)
  <2>1. Key(d, v) \in used[Dst[d]] /\ v \in RandomVNI(d)
    BY <1>3 DEF NInv, Kept
  <2>2. CASE Dst[d] # Dst[c]
    BY <2>1, <2>2, Numbers DEF OwnKeys
  <2>3. CASE Dst[d] = Dst[c]
    <3>1. ASSUME NEW w \in VNI, Key(d, v) = Key(c, w), Has(c, w)
          PROVE  FALSE
      <4>1. Src[d] = Src[c] /\ v = w
        BY <3>1 DEF Key
      <4> QED
        BY <1>3, <3>1, <4>1 DEF NInv, Apart
    <3> QED
      BY <2>1, <2>3, <3>1 DEF OwnKeys
  <2> QED
    BY <2>1, <2>2, <2>3
<1>4. ASSUME NEW d \in Conn
      PROVE  Kept(d)'
  <2>1. CASE d = c
    BY <2>1 DEF OwnVni, Kept, Key, RandomVNI, EvenVNI
  <2>2. CASE d # c
    BY <1>1, <1>3, <2>2 DEF Kept, Key, RandomVNI, EvenVNI
  <2> QED
    BY <2>1, <2>2
<1>5. ASSUME NEW d \in Conn, NEW e \in Conn, d # e
      PROVE  Apart(d, e)'
  <2>1. CASE d = c
    BY <1>1, <1>2, <1>5, <2>1 DEF Apart
  <2>2. CASE e = c
    BY <1>1, <1>2, <1>5, <2>2 DEF Apart
  <2>3. CASE d # c /\ e # c
    BY <1>1, <1>5, <2>3 DEF NInv, Apart
  <2> QED
    BY <2>1, <2>2, <2>3
<1> QED
  BY <1>4, <1>5

\* A handler that gives its VNI back leaves nothing that has it
LEMMA AfterRelease ==
  ASSUME NInv, lost' = 0, NEW c \in Conn, NEW v \in VNI,
         Release(c, v), Lets(c, v), Has(c, v),
         run'[c].pc = "idle", Held(c)' \subseteq Held(c) \cup {v}
  PROVE  OwnKeys(c) /\ OwnVni(c)
<1>1. /\ md'[c] = None
      /\ used'[Dst[c]] = used[Dst[c]] \ {Key(c, v)}
      /\ \A n \in Node : n # Dst[c] => used'[n] = used[n]
  BY Numbers DEF Release, Forgotten, NInv, TypeOK
<1>2. OwnKeys(c)
  BY <1>1 DEF OwnKeys
<1>3. v \notin Held(c)'
  <2>1. lost \in Nat
    BY CountsTyped, VniOK DEF NInv
  <2>2. ~Lose
    BY <2>1 DEF Lose
  <2> QED
    BY <2>2 DEF Lets
<1>4. ASSUME NEW w \in VNI, Has(c, w)'
      PROVE  w # v /\ Has(c, w)
  <2>1. w \in Held(c)'
    BY <1>1, <1>4, Numbers DEF Has
  <2> QED
    BY <1>3, <2>1 DEF Has
<1>5. ASSUME NEW w \in VNI, Has(c, w)'
      PROVE  /\ Key(c, w) \in used'[Dst[c]] /\ w \in RandomVNI(c) /\ Has(c, w)
  <2>1. Key(c, w) \in used[Dst[c]] /\ w \in RandomVNI(c)
    BY <1>4, <1>5 DEF NInv, Kept
  <2>2. Key(c, w) # Key(c, v)
    BY <1>4, <1>5 DEF Key
  <2> QED
    BY <1>1, <1>4, <1>5, <2>1, <2>2
<1> QED
  BY <1>2, <1>5 DEF OwnVni

\* One that only loses, and leaves the keys, takes nothing from anybody
LEMMA AfterLess ==
  ASSUME NInv, NEW c \in Conn, UNCHANGED used,
         \A v \in VNI : Has(c, v)' => Has(c, v)
  PROVE  OwnKeys(c) /\ OwnVni(c)
<1>1. OwnKeys(c)
  BY DEF OwnKeys
<1> QED
  BY <1>1 DEF OwnVni, NInv, Kept

LEMMA FailsHeld ==
  ASSUME TypeOK, NEW c \in Conn, NEW v \in VNI, NEW d \in EndType, Fails(c, d),
         Tunnels(d) \subseteq Tunnels(far[c]) \cup {v}
  PROVE  run'[c].pc = "idle" /\ Held(c)' \subseteq Held(c) \cup {v}
<1>1. /\ run'[c].pc = "idle" /\ UNCHANGED <<known, near, est>>
      /\ far'[c] = IF run[c].fresh THEN Gone(d) ELSE d
  BY AfterFails
<1>2. Tunnels(Gone(d)) = Tunnels(d)
  BY EndTunnels
<1>3. Tunnels(far'[c]) \subseteq Tunnels(far[c]) \cup {v}
  BY <1>1, <1>2
<1>4. Held(c)' = ({known[c], est[c]} \cup Tunnels(near[c]) \cup Tunnels(far'[c])) \ {0}
  BY <1>1 DEF Held, Tunnels
<1> QED
  BY <1>1, <1>3, <1>4 DEF Held

LEMMA OwnStep ==
  ASSUME lost' = 0, NInv, NEW c \in Conn, Handle(c)
  PROVE  OwnKeys(c) /\ OwnVni(c)
<1>t. /\ TypeOK /\ Kept(c)
      /\ run[c].vni \in VNI /\ near[c] \in EndType /\ far[c] \in EndType
      /\ md[c] \in VNI \cup {None} /\ est[c] \in VNI /\ known[c] \in VNI
  BY Fields DEF NInv
<1>v. run[c].pc # "idle" => Has(c, run[c].vni)
  BY DEF Has
\* what is left after a failure
<1>a. ASSUME NEW d \in EndType, Tunnels(d) \subseteq Tunnels(far[c]) \cup {run[c].vni},
             run[c].pc # "idle", Fails(c, d),
             \/ Release(c, run[c].vni) /\ Lets(c, run[c].vni)
             \/ UNCHANGED used /\ md'[c] \in {md[c], None}
      PROVE  OwnKeys(c) /\ OwnVni(c)
  <2>1. run'[c].pc = "idle" /\ Held(c)' \subseteq Held(c) \cup {run[c].vni}
    BY <1>t, <1>a, FailsHeld
  <2>2. CASE Release(c, run[c].vni) /\ Lets(c, run[c].vni)
    BY <1>t, <1>v, <1>a, <2>1, <2>2, AfterRelease
  <2>3. CASE UNCHANGED used /\ md'[c] \in {md[c], None}
    BY <1>a, <2>1, <2>3, AfterLess, Numbers DEF Has
  <2> QED
    BY <1>a, <2>2, <2>3
\* where one end changes, and the other records at most to what the request has
<1>b. ASSUME UNCHANGED used, md'[c] = md[c],
             \/ run'[c].pc = "idle"
             \/ run'[c].pc = run[c].pc /\ run'[c].vni = run[c].vni
             \/ run[c].pc # "idle" /\ run'[c].vni = run[c].vni,
             \/ Held(c)' \subseteq Held(c)
             \/ run[c].pc # "idle" /\ Held(c)' \subseteq Held(c) \cup {run[c].vni}
      PROVE  OwnKeys(c) /\ OwnVni(c)
  BY <1>b, AfterLess DEF Has
<1>1. CASE Request(c)
  <2>1. PICK v \in VNI :
          /\ v \in Choice(c) /\ Remember(c, v)
          /\ md'[c] = IF md[c] = None THEN v ELSE md[c]
          /\ run'[c].pc = "below" /\ run'[c].vni = v
          /\ UNCHANGED <<est, known, near, far>>
    BY <1>1, <1>t, Requested
  <2>2. \/ Has(c, v)
        \/ v \in RandomVNI(c) /\ Key(c, v) \notin used[Dst[c]]
    BY <2>1 DEF Choice, Has, Held
  <2>3. /\ used[Dst[c]] \subseteq used'[Dst[c]]
        /\ \A n \in Node : n # Dst[c] => used'[n] = used[n]
        /\ Key(c, v) \in used'[Dst[c]]
    <3>1. CASE known[c] = 0 /\ md[c] # None
      <4>1. v = md[c] /\ UNCHANGED used
        BY <2>1, <3>1 DEF Choice, Remember
      <4> QED
        BY <4>1, <1>t DEF Has, Kept
    <3>2. CASE ~(known[c] = 0 /\ md[c] # None)
      BY <2>1, <1>t, <3>2, Numbers DEF Remember, TypeOK
    <3> QED
      BY <3>1, <3>2
  <2>4. OwnKeys(c)
    BY <2>3 DEF OwnKeys
  <2>5. ASSUME NEW w \in VNI, Has(c, w)'
        PROVE  w = v \/ Has(c, w)
    <3>1. Held(c)' = Held(c)
      BY <2>1 DEF Held, Tunnels
    <3> QED
      BY <2>1, <2>5, <3>1 DEF Has
  <2>6. ASSUME NEW w \in VNI, Has(c, w)
        PROVE  Key(c, w) \in used'[Dst[c]] /\ w \in RandomVNI(c)
    BY <2>3, <2>6, <1>t DEF Kept
  <2> QED
    BY <2>2, <2>3, <2>4, <2>5, <2>6 DEF OwnVni
<1>2. CASE Refused(c)
  <2>1. PICK d \in Closed(far[c]) :
          IF run[c].new
          THEN Fails(c, Forsaken(d)) /\ Release(c, run[c].vni) /\ Lets(c, run[c].vni)
          ELSE Fails(c, d) /\ UNCHANGED <<used, md, lost>>
    BY <1>2 DEF Refused
  <2>2. d \in EndType /\ Tunnels(d) \subseteq Tunnels(far[c])
    BY <1>t, EndTyped, EndTunnels
  <2>3. Forsaken(d) \in EndType /\ Tunnels(Forsaken(d)) = Tunnels(d)
    BY <1>t, <2>2, EndTyped, EndTunnels
  <2>4. run[c].pc # "idle"
    BY <1>2 DEF Refused
  <2>5. CASE run[c].new
    BY <1>a, <2>1, <2>2, <2>3, <2>4, <2>5
  <2>6. CASE ~run[c].new
    BY <1>a, <2>1, <2>2, <2>4, <2>6
  <2> QED
    BY <2>5, <2>6
<1>3. CASE Create(c)
  <2>1. /\ run[c].pc = "below" /\ run'[c].vni = run[c].vni
        /\ far'[c] = Made(far[c], run[c].vni) /\ UNCHANGED <<used, md, est, known, near>>
    BY <1>3, <1>t DEF Create, TypeOK, RunType
  <2>2. Tunnels(far'[c]) \subseteq Tunnels(far[c]) \cup {run[c].vni}
    BY <1>t, <2>1, EndTunnels
  <2>3. Held(c)' = ({known[c], est[c]} \cup Tunnels(near[c]) \cup Tunnels(far'[c])) \ {0}
    BY <2>1 DEF Held, Tunnels
  <2>4. Held(c)' \subseteq Held(c) \cup {run[c].vni}
    BY <2>2, <2>3 DEF Held
  <2> QED
    BY <1>b, <2>1, <2>4
<1>4. CASE CreateFails(c)
  <2>1. PICK u \in Unmade(Dst[c], c, far[c], run[c].vni) : \E d \in Closed(u) :
          IF run[c].vni = 0
          THEN Fails(c, d) /\ md' = Dropped(c) /\ UNCHANGED <<used, lost>>
          ELSE Fails(c, Forsaken(d)) /\ Release(c, run[c].vni) /\ Lets(c, run[c].vni)
    BY <1>4 DEF CreateFails
  <2>2. PICK d \in Closed(u) :
          IF run[c].vni = 0
          THEN Fails(c, d) /\ md' = Dropped(c) /\ UNCHANGED <<used, lost>>
          ELSE Fails(c, Forsaken(d)) /\ Release(c, run[c].vni) /\ Lets(c, run[c].vni)
    BY <2>1
  <2>3. u \in EndType /\ Tunnels(u) \subseteq Tunnels(far[c]) \cup {run[c].vni}
    BY <1>t, <2>1, UnmadeTyped, UnmadeTunnels
  <2>4. d \in EndType /\ Tunnels(d) \subseteq Tunnels(far[c]) \cup {run[c].vni}
    BY <1>t, <2>2, <2>3, EndTyped, EndTunnels
  <2>5. Forsaken(d) \in EndType /\ Tunnels(Forsaken(d)) = Tunnels(d)
    BY <1>t, <2>4, EndTyped, EndTunnels
  <2>6. run[c].pc # "idle"
    BY <1>4 DEF CreateFails
  <2>7. CASE run[c].vni = 0
    <3>1. md'[c] \in {md[c], None}
      BY <2>2, <2>7, <1>t DEF Dropped, TypeOK
    <3> QED
      BY <1>a, <2>2, <2>4, <2>6, <2>7, <3>1
  <2>8. CASE run[c].vni # 0
    BY <1>a, <2>2, <2>4, <2>5, <2>6, <2>8
  <2> QED
    BY <2>7, <2>8
<1>5. CASE ContextFails(c)
  <2>1. Fails(c, far[c]) /\ md'[c] \in {md[c], None} /\ UNCHANGED used
    BY <1>5, <1>t DEF ContextFails, Dropped, TypeOK
  <2>2. run[c].pc # "idle"
    BY <1>5 DEF ContextFails
  <2> QED
    BY <1>a, <1>t, <2>1, <2>2
<1>6. CASE Answer(c)
  <2>1. /\ run[c].pc # "idle" /\ run'[c].pc = "idle" /\ est'[c] = run[c].vni
        /\ UNCHANGED <<used, md, far>>
    BY <1>6, <1>t, AtTyped DEF Answer, TypeOK
  <2>2. /\ known'[c] \in {known[c], run[c].vni, 0}
        /\ Tunnels(near'[c]) \subseteq Tunnels(near[c]) \cup {run[c].vni}
    <3>1. CASE UNCHANGED <<known, near, closing, faults>>
      BY <3>1 DEF Tunnels
    <3>2. CASE /\ known' = [known EXCEPT ![c] = run[c].vni]
               /\ near' = [near EXCEPT ![c] = Made(@, run[c].vni)]
      <4>1. known'[c] = run[c].vni /\ near'[c] = Made(near[c], run[c].vni)
        BY <1>t, <3>2 DEF TypeOK
      <4> QED
        BY <1>t, <4>1, EndTunnels
    <3>3. CASE \E u \in Unmade(Src[c], c, near[c], run[c].vni) : \E d \in Closed(u) :
                 /\ known' = [known EXCEPT ![c] = 0]
                 /\ near' = [near EXCEPT ![c] = Forsaken(d)]
      <4>1. PICK u \in Unmade(Src[c], c, near[c], run[c].vni) : \E d \in Closed(u) :
                 /\ known' = [known EXCEPT ![c] = 0]
                 /\ near' = [near EXCEPT ![c] = Forsaken(d)]
        BY <3>3
      <4>2. PICK d \in Closed(u) :
                 /\ known' = [known EXCEPT ![c] = 0]
                 /\ near' = [near EXCEPT ![c] = Forsaken(d)]
        BY <4>1
      <4>3. u \in EndType /\ Tunnels(u) \subseteq Tunnels(near[c]) \cup {run[c].vni}
        BY <1>t, <4>1, UnmadeTyped, UnmadeTunnels
      <4>4. d \in EndType /\ Tunnels(d) \subseteq Tunnels(u)
        BY <1>t, <4>2, <4>3, EndTyped, EndTunnels
      <4>5. known'[c] = 0 /\ near'[c] = Forsaken(d)
        BY <1>t, <4>2 DEF TypeOK
      <4>6. Tunnels(Forsaken(d)) = Tunnels(d)
        BY <1>t, <4>4, EndTunnels
      <4> QED
        BY <4>3, <4>4, <4>5, <4>6
    <3> QED
      BY <1>6, <3>1, <3>2, <3>3 DEF Answer, Answered
  <2>3. Held(c)' = ({known'[c], est'[c]} \cup Tunnels(near'[c]) \cup Tunnels(far[c])) \ {0}
    BY <2>1 DEF Held, Tunnels
  <2>4. Held(c)' \subseteq Held(c) \cup {run[c].vni}
    BY <2>1, <2>2, <2>3 DEF Held
  <2> QED
    BY <1>b, <2>1, <2>4
<1>7. CASE NoAnswer(c)
  <2>1. PICK d \in Closed(near[c]) : near' = [near EXCEPT ![c] = d]
    BY <1>7 DEF NoAnswer
  <2>2. Tunnels(near'[c]) \subseteq Tunnels(near[c])
    BY <1>t, <2>1, EndTunnels DEF TypeOK
  <2>3. Held(c)' = ({known[c], est[c]} \cup Tunnels(near'[c]) \cup Tunnels(far[c])) \ {0}
    BY <1>7 DEF NoAnswer, Held, Tunnels
  <2>4. Held(c)' \subseteq Held(c)
    BY <2>2, <2>3 DEF Held
  <2> QED
    BY <1>7, <1>b, <2>4 DEF NoAnswer
<1>8. CASE Close(c)
  <2>1. PICK d \in Closed(near[c]) : near' = [near EXCEPT ![c] = Gone(d)]
    BY <1>8 DEF Close
  <2>2. d \in EndType /\ Tunnels(d) \subseteq Tunnels(near[c])
    BY <1>t, <2>1, EndTyped, EndTunnels
  <2>3. near'[c] = Gone(d) /\ known'[c] = 0
    BY <1>8, <1>t, <2>1 DEF Close, TypeOK
  <2>4. Tunnels(near'[c]) \subseteq Tunnels(near[c])
    BY <1>t, <2>2, <2>3, EndTunnels
  <2>5. Held(c)' = ({known'[c], est[c]} \cup Tunnels(near'[c]) \cup Tunnels(far[c])) \ {0}
    BY <1>8 DEF Close, Held, Tunnels
  <2>6. Held(c)' \subseteq Held(c)
    BY <2>3, <2>4, <2>5 DEF Held
  <2> QED
    BY <1>8, <1>b, <2>6 DEF Close
<1>9. CASE CloseLost(c)
  <2>1. Held(c)' = Held(c)
    BY <1>9 DEF CloseLost, Held, Tunnels
  <2> QED
    BY <1>9, <1>b, <2>1 DEF CloseLost
<1>10. CASE FarClose(c)
  <2>1. PICK d \in Closed(far[c]) : far' = [far EXCEPT ![c] = Gone(d)]
    BY <1>10 DEF FarClose
  <2>2. d \in EndType /\ Tunnels(d) \subseteq Tunnels(far[c])
    BY <1>t, <2>1, EndTyped, EndTunnels
  <2>3. /\ far'[c] = Gone(d) /\ est'[c] = 0 /\ est[c] # 0
        /\ run[c].pc = "idle" /\ UNCHANGED <<run, known, near>>
        /\ Release(c, est[c]) /\ Lets(c, est[c])
    BY <1>10, <1>t, <2>1 DEF FarClose, TypeOK
  <2>4. Tunnels(far'[c]) \subseteq Tunnels(far[c])
    BY <1>t, <2>2, <2>3, EndTunnels
  <2>5. Held(c)' = ({known[c], est'[c]} \cup Tunnels(near[c]) \cup Tunnels(far'[c])) \ {0}
    BY <2>3 DEF Held, Tunnels
  <2>6. Held(c)' \subseteq Held(c) \cup {est[c]}
    BY <2>3, <2>4, <2>5 DEF Held
  <2>7. Has(c, est[c])
    BY <2>3 DEF Has, Held
  <2> QED
    BY <1>t, <2>3, <2>6, <2>7, AfterRelease
<1>11. CASE FarForgets(c)
  <2>1. Held(c)' \subseteq Held(c)
    BY <1>11, <1>t DEF FarForgets, Held, Tunnels, TypeOK
  <2> QED
    BY <1>11, <1>b, <2>1 DEF FarForgets
<1> QED
  BY <1>1, <1>2, <1>3, <1>4, <1>5, <1>6, <1>7, <1>8, <1>9, <1>10, <1>11 DEF Handle

\* A forwarder that restarts knew nothing that a connection to it still has
LEMMA RestartKept ==
  ASSUME NInv, lost' = 0, NEW n \in Node, Restart(n)
  PROVE  /\ \A d \in Conn : Kept(d)'
         /\ \A d, e \in Conn : d # e => Apart(d, e)'
<1>1. TypeOK
  BY DEF NInv
<1>2. used[n] = {}
  <2>1. lost \in Nat
    BY <1>1, CountsTyped, VniOK
  <2>2. ~Lose
    BY <2>1 DEF Lose
  <2> QED
    BY <2>2 DEF Restart
<1>3. \A m \in Node : used'[m] = used[m]
  BY <1>1, <1>2, AfterRestart
<1>4. ASSUME NEW d \in Conn, NEW v \in VNI, Has(d, v)'
      PROVE  Has(d, v)
  <2>1. /\ known'[d] \in {0, known[d]} /\ near'[d] \in {near[d], Gone(near[d])}
        /\ far'[d] \in {far[d], Gone(far[d])}
        /\ md'[d] \in {None, md[d]} /\ est'[d] \in {0, est[d]}
        /\ run'[d] \in {Idle, run[d]}
    BY <1>1, AfterRestart
  <2>2. Tunnels(near'[d]) = Tunnels(near[d]) /\ Tunnels(far'[d]) = Tunnels(far[d])
    BY <1>1, <2>1, Fields, EndTunnels, Numbers
  <2>3. Held(d)' = ({known'[d], est'[d]} \cup Tunnels(near[d]) \cup Tunnels(far[d])) \ {0}
    BY <2>2 DEF Held, Tunnels
  <2>4. Held(d)' \subseteq Held(d)
    BY <2>1, <2>3 DEF Held
  <2> QED
    BY <1>4, <2>1, <2>4, AtTyped, Numbers DEF Has
<1>5. ASSUME NEW d \in Conn
      PROVE  Kept(d)'
  <2>1. used'[Dst[d]] = used[Dst[d]]
    BY <1>3, Numbers
  <2> QED
    BY <1>4, <2>1 DEF NInv, Kept, Key, RandomVNI, EvenVNI
<1>6. ASSUME NEW d \in Conn, NEW e \in Conn, d # e
      PROVE  Apart(d, e)'
  BY <1>4, <1>6 DEF NInv, Apart
<1> QED
  BY <1>5, <1>6

LEMMA LostStays ==
  ASSUME TypeOK, [Next]_vars, lost' = 0
  PROVE  lost = 0
<1>1. lost \in Nat
  BY CountsTyped, VniOK
<1>2. CASE lost' = lost \/ lost' = lost + 1
  BY <1>1, <1>2
<1>3. CASE UNCHANGED vars
  BY <1>2, <1>3 DEF vars
<1>4. ASSUME NEW n \in Node, Restart(n)
      PROVE  lost = 0
  BY <1>2, <1>4 DEF Restart, Lose
<1>5. ASSUME NEW c \in Conn, Handle(c)
      PROVE  lost = 0
  <2>1. \A v : Lets(c, v) => lost' = lost \/ lost' = lost + 1
    BY DEF Lets, Lose
  <2>2. CASE CreateFails(c)
    BY <1>2, <2>1, <2>2 DEF CreateFails
  <2>3. CASE ~CreateFails(c)
    <3>1. lost' = lost \/ lost' = lost + 1
      BY <1>5, <2>1, <2>3 DEF Handle, Request, Refused, Create, ContextFails,
         Answer, NoAnswer, Close, CloseLost, FarClose, FarForgets
    <3> QED
      BY <1>2, <3>1
  <2> QED
    BY <2>2, <2>3
<1> QED
  BY <1>3, <1>4, <1>5 DEF Next

LEMMA NInvKept ==
  ASSUME TwoNodes, lost' = 0, NInv, [Next]_vars
  PROVE  NInv'
<1>1. TypeOK'
  BY NextTyped DEF NInv
<1>2. CASE UNCHANGED vars
  BY <1>1, <1>2
  DEF vars, NInv, Kept, Apart, Has, Held, Tunnels, Key, RandomVNI, EvenVNI
<1>3. ASSUME NEW c \in Conn, Handle(c)
      PROVE  NInv'
  <2>1. \A d \in Conn \ {c} : Of(d)' = Of(d)
    BY <1>3, Others DEF NInv
  <2>2. OwnKeys(c) /\ OwnVni(c)
    BY <1>3, OwnStep
  <2> QED
    BY <1>1, <2>1, <2>2, StaysApart DEF NInv
<1>4. ASSUME NEW n \in Node, Restart(n)
      PROVE  NInv'
  BY <1>1, <1>4, RestartKept DEF NInv
<1> QED
  BY <1>2, <1>3, <1>4 DEF Next

LEMMA InitNInv ==
  ASSUME Init
  PROVE  NInv
<1>1. /\ \A c \in Conn : /\ md[c] = None /\ est[c] = 0 /\ known[c] = 0
                         /\ near[c] = Nothing /\ far[c] = Nothing
                         /\ run[c].pc = "idle"
  BY AtTyped DEF Init
<1>2. \A c \in Conn : Held(c) = {}
  BY <1>1 DEF Held, Tunnels, Nothing
<1>3. \A c \in Conn, v \in VNI : ~Has(c, v)
  BY <1>1, <1>2, Numbers DEF Has
<1> QED
  BY <1>3, InitTyped DEF NInv, Kept, Apart

\* Even numbers one way, odd ones the other
LEMMA Directions ==
  ASSUME NEW c \in Conn, NEW d \in Conn, Src[d] = Dst[c], Dst[d] = Src[c]
  PROVE  RandomVNI(c) \cap RandomVNI(d) = {}
<1>1. Src[c] \in Nat /\ Dst[c] \in Nat /\ Src[c] # Dst[c]
  BY VniOK
<1>2. EvenVNI(c) <=> ~EvenVNI(d)
  BY <1>1 DEF EvenVNI
<1>3. ASSUME NEW v \in RandomVNI(c), v \in RandomVNI(d)
      PROVE  FALSE
  BY <1>2, <1>3 DEF RandomVNI
<1> QED
  BY <1>3

LEMMA NeverTakenHolds ==
  ASSUME TwoNodes, NInv
  PROVE  NeverTaken /\ Remembered
<1>1. Remembered
  BY DEF Remembered, NInv, TypeOK, Kept, Has
<1>2. ASSUME NEW c \in Conn, run[c].pc # "idle", NEW d \in Conn, d # c
      PROVE  run[c].vni \notin Tunnels(near[d]) /\ run[c].vni \notin Tunnels(far[d])
  <2>1. run[c].vni \in VNI
    BY Fields DEF NInv
  <2>2. Has(c, run[c].vni)
    BY <1>2 DEF Has
  <2>3. SUFFICES ASSUME Has(d, run[c].vni)
                 PROVE  FALSE
    BY DEF Has, Held, Tunnels
  <2>4. CASE Src[c] = Src[d]
    BY <1>2, <2>1, <2>2, <2>3, <2>4 DEF NInv, Apart
  <2>5. CASE Src[c] # Src[d]
    <3>1. Src[d] = Dst[c] /\ Dst[d] = Src[c]
      BY <2>5, Numbers DEF TwoNodes
    <3>2. ~(run[c].vni \in RandomVNI(c) /\ run[c].vni \in RandomVNI(d))
      BY <3>1, Directions
    <3> QED
      BY <2>1, <2>2, <2>3, <3>2 DEF NInv, Kept
  <2> QED
    BY <2>4, <2>5
<1>3. NeverTaken
  BY <1>2 DEF NeverTaken, Free
<1> QED
  BY <1>1, <1>3

Known == TypeOK /\ (lost = 0 => NInv)

LEMMA KnownKept ==
  ASSUME TwoNodes, Known, [Next]_vars
  PROVE  Known'
<1>1. TypeOK'
  BY NextTyped DEF Known
<1>2. ASSUME lost' = 0
      PROVE  NInv'
  <2>1. lost = 0
    BY <1>2, LostStays DEF Known
  <2> QED
    BY <1>2, <2>1, NInvKept DEF Known
<1> QED
  BY <1>1, <1>2 DEF Known

LEMMA KnownHolds ==
  ASSUME TwoNodes, Known
  PROVE  NeverTaken /\ Remembered
<1>1. lost # 0 => NeverTaken /\ Remembered
  BY DEF NeverTaken, Remembered
<1> QED
  BY <1>1, NeverTakenHolds DEF Known

\* Between two nodes, with connections either way, the VNI that is chosen for
\* a connection is free in both kernels, however many connections there are
\* and whatever fails, until vni lets one go that its connection still has.
THEOREM NeverTakenTheorem ==
  ASSUME TwoNodes
  PROVE  Spec => []NeverTaken
<1>1. Init => Known
  BY InitNInv, InitTyped DEF Known
<1>2. Known /\ [Next]_vars => Known'
  BY KnownKept
<1>3. Known => NeverTaken
  BY KnownHolds
<1> QED
  BY <1>1, <1>2, <1>3, PTL DEF Spec

\* and it stays that connection's as long as it has it.
THEOREM RememberedTheorem ==
  ASSUME TwoNodes
  PROVE  Spec => []Remembered
<1>1. Init => Known
  BY InitNInv, InitTyped DEF Known
<1>2. Known /\ [Next]_vars => Known'
  BY KnownKept
<1>3. Known => Remembered
  BY KnownHolds
<1> QED
  BY <1>1, <1>2, <1>3, PTL DEF Spec

=============================================================================
