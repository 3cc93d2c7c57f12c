--------------------------- MODULE LifecycleProofs ---------------------------
(***************************************************************************)
(* begin's promises to the chain, proved for any number of calls, factories*)
(* and timers: they hold until authorize refuses a Close that begin has    *)
(* started, or one ends with its caller's context (Calm).                  *)
(***************************************************************************)
EXTENDS Lifecycle, TLAPS

USE LifecycleOK

-----------------------------------------------------------------------------
(* Types *)

LEMMA NoneOf ==
  /\ None \notin Factory /\ None \notin Timer /\ None \notin Object
  /\ Timer \subseteq 1..MaxCalls /\ Timer \subseteq Nat
BY DEF None, Factory, Timer, Object

LEMMA RunTyped ==
  ASSUME NEW pc \in {"idle", "waiting", "request", "close"},
         NEW n \in 0..MaxCalls, NEW o \in Object \cup {None}, NEW new \in BOOLEAN
  PROVE  /\ At(pc, n, o, new) \in RunType
         /\ At(pc, n, o, new).pc = pc /\ At(pc, n, o, new).md = o
         /\ At(pc, n, o, new).new = new
BY DEF At, RunType

LEMMA IdleTyped == Idle \in RunType /\ Idle.pc = "idle" /\ Idle.md = None
BY DEF Idle, At, RunType

QueueType == [Factory -> Seq(JobType)]

LEMMA JobTyped ==
  ASSUME NEW kind \in {"request", "close", "timeout"}, NEW n \in 1..MaxCalls
  PROVE  Job(kind, n) \in JobType
BY DEF Job, JobType

LEMMA PoppedTyped ==
  ASSUME TypeOK, NEW f \in Factory, queue[f] # <<>>
  PROVE  /\ Popped(f) \in QueueType
         /\ Head(queue[f]) \in JobType /\ Head(queue[f]).n \in 1..MaxCalls
<1>1. queue[f] \in Seq(JobType)
  BY DEF TypeOK
<1>2. Head(queue[f]) \in JobType /\ Tail(queue[f]) \in Seq(JobType)
  BY <1>1
<1> QED
  BY <1>2 DEF TypeOK, QueueType, Popped, JobType

LEMMA AppendTyped ==
  ASSUME NEW q \in QueueType, NEW f \in Factory, NEW j \in JobType
  PROVE  /\ [q EXCEPT ![f] = Append(@, j)] \in QueueType
         /\ [q EXCEPT ![f] = <<j>>] \in QueueType
BY DEF QueueType

LEMMA SubmitTyped ==
  ASSUME TypeOK, NEW q \in QueueType, NEW j \in JobType, Submit(q, j)
  PROVE  /\ queue' \in QueueType /\ current' \in Factory
         /\ state' \in [Factory -> {"free", "new", "established", "closed"}]
<1>1. CASE /\ current # None
           /\ queue' = [q EXCEPT ![current] = Append(@, j)]
           /\ UNCHANGED <<current, state>>
  BY <1>1, AppendTyped DEF TypeOK
<1>2. CASE \E f \in Factory :
             /\ current' = f
             /\ state' = [state EXCEPT ![f] = "new"]
             /\ queue' = [q EXCEPT ![f] = <<j>>]
  <2>1. PICK f \in Factory : /\ current' = f
                             /\ state' = [state EXCEPT ![f] = "new"]
                             /\ queue' = [q EXCEPT ![f] = <<j>>]
    BY <1>2
  <2>2. state' \in [Factory -> {"free", "new", "established", "closed"}]
    BY <2>1 DEF TypeOK
  <2> QED
    BY <2>1, <2>2, AppendTyped
<1> QED
  BY <1>1, <1>2 DEF Submit, Least

LEMMA TypeCalls ==
  ASSUME TypeOK, CallRequest \/ CallClose
  PROVE  TypeOK'
<1>1. PICK kind \in {"request", "close"} : Submit(queue, Job(kind, calls + 1))
  BY DEF CallRequest, CallClose
<1>2. calls + 1 \in 1..MaxCalls /\ calls' = calls + 1
  BY DEF CallRequest, CallClose, TypeOK
<1>3. queue \in QueueType
  BY DEF TypeOK, QueueType
<1>4. /\ queue' \in QueueType /\ current' \in Factory
      /\ state' \in [Factory -> {"free", "new", "established", "closed"}]
  BY <1>1, <1>2, <1>3, JobTyped, SubmitTyped
<1>5. UNCHANGED <<token, run, below>>
  BY DEF CallRequest, CallClose
<1> QED
  BY <1>2, <1>4, <1>5 DEF TypeOK, QueueType, below

\* A timer that is on has its factory, and a request its object
Owned ==
  /\ \A t \in Timer : timer[t] \in {"armed", "fired"} => owner[t] \in Factory
  /\ \A f \in Factory : run[f].pc = "request" => run[f].md \in Object

LEMMA TypeExpire ==
  ASSUME TypeOK, Owned, NEW t \in Timer, Expire(t)
  PROVE  TypeOK' /\ Owned'
<1>1. owner[t] \in Factory
  BY DEF Owned, Expire
<1>2. Job("timeout", t) \in JobType
  BY JobTyped, NoneOf
<1>3. queue' \in QueueType
  BY <1>1, <1>2, AppendTyped DEF Expire, TypeOK, QueueType
<1>4. timer' \in [Timer -> {"none", "armed", "fired", "cancelled"}]
  BY DEF Expire, TypeOK
<1>5. Owned'
  BY <1>1 DEF Expire, TypeOK, Owned
<1> QED
  BY <1>3, <1>4, <1>5 DEF Expire, TypeOK, QueueType

LEMMA TypeRecall ==
  ASSUME TypeOK, NEW f \in Factory, Recall(f)
  PROVE  TypeOK'
<1>1. /\ Popped(f) \in QueueType
      /\ Head(queue[f]) \in JobType /\ Head(queue[f]).n \in 1..MaxCalls
  BY PoppedTyped DEF Recall, Ready
<1>2. /\ queue' \in QueueType /\ current' \in Factory
      /\ state' \in [Factory -> {"free", "new", "established", "closed"}]
  BY <1>1, SubmitTyped DEF Recall
<1>3. At("waiting", Head(queue[f]).n, None, FALSE) \in RunType
  BY <1>1 DEF At, RunType
<1>4. run' \in [Factory -> RunType]
  BY <1>3 DEF Recall, Running, TypeOK
<1> QED
  BY <1>2, <1>4 DEF Recall, TypeOK, QueueType, below

LEMMA TypeRecalled ==
  ASSUME TypeOK, NEW f \in Factory, Recalled(f)
  PROVE  TypeOK'
<1>1. run' \in [Factory -> RunType]
  BY IdleTyped DEF Recalled, Running, TypeOK
<1> QED
  BY <1>1 DEF Recalled, TypeOK, below

\* What StartRequest does to run and metadata
LEMMA StartCases ==
  ASSUME TypeOK, NEW f \in Factory, StartRequest(f)
  PROVE  \E o \in Object, new \in BOOLEAN :
           /\ run' = [run EXCEPT ![f] = At("request", Head(queue[f]).n, o, new)]
           /\ meta' = o
           /\ new <=> meta = None
           /\ ~new => meta = o /\ cancel' = cancel
           /\ new => cancel' = [cancel EXCEPT ![o] = None]
BY DEF StartRequest, Running, Least, TypeOK

LEMMA TypeStartRequest ==
  ASSUME TypeOK, NEW f \in Factory, StartRequest(f)
  PROVE  TypeOK'
<1>1. /\ Popped(f) \in QueueType
      /\ Head(queue[f]) \in JobType /\ Head(queue[f]).n \in 1..MaxCalls
  BY PoppedTyped DEF StartRequest, Ready
<1>2. PICK o \in Object, new \in BOOLEAN :
        /\ run' = [run EXCEPT ![f] = At("request", Head(queue[f]).n, o, new)]
        /\ meta' = o
        /\ ~new => meta = o /\ cancel' = cancel
        /\ new => cancel' = [cancel EXCEPT ![o] = None]
  BY StartCases
<1>3. run' \in [Factory -> RunType]
  BY <1>1, <1>2, RunTyped DEF TypeOK
<1>4. meta' \in Object /\ cancel' \in [Object -> Timer \cup {None}]
  BY <1>2 DEF TypeOK
<1> QED
  BY <1>1, <1>3, <1>4 DEF StartRequest, TypeOK, QueueType

LEMMA TypeSucceed ==
  ASSUME TypeOK, Owned, NEW f \in Factory, Succeed(f)
  PROVE  TypeOK' /\ Owned'
<1>1. PICK t \in Timer :
        /\ timer[t] = "none"
        /\ timer' = InPlaceOf(run[f].md, t)
        /\ owner' = [owner EXCEPT ![t] = f]
        /\ cancel' = [cancel EXCEPT ![run[f].md] = t]
        /\ token' = [token EXCEPT ![f] = t]
  BY DEF Succeed, Least
<1>2. timer' \in [Timer -> {"none", "armed", "fired", "cancelled"}]
  BY <1>1 DEF InPlaceOf, TypeOK
<1>3. owner' \in [Timer -> Factory \cup {None}]
      /\ token' \in [Factory -> Timer \cup {None}]
  BY <1>1 DEF TypeOK
<1>4. cancel' \in [Object -> Timer \cup {None}]
  BY <1>1 DEF TypeOK
<1>5. run' \in [Factory -> RunType]
      /\ state' \in [Factory -> {"free", "new", "established", "closed"}]
  BY IdleTyped DEF Succeed, Running, TypeOK
<1>o. run[f].md \in Object
  BY DEF Succeed, Owned
<1>6. TypeOK'
  <2>1. stored' \subseteq Object
    BY <1>o DEF Succeed, TypeOK
  <2> QED
    BY <1>2, <1>3, <1>4, <1>5, <2>1 DEF Succeed, TypeOK
<1>7. Owned'
  <2>1. ASSUME NEW u \in Timer, timer'[u] \in {"armed", "fired"}
        PROVE  owner'[u] \in Factory
    <3>1. CASE u = t
      BY <1>1, <3>1 DEF TypeOK
    <3>2. CASE u # t
      <4>1. owner'[u] = owner[u]
        BY <1>1, <3>2 DEF TypeOK
      <4>2. timer[u] \in {"armed", "fired"}
        BY <1>1, <2>1, <3>2 DEF InPlaceOf
      <4> QED
        BY <4>1, <4>2 DEF Owned
    <3> QED
      BY <3>1, <3>2
  <2>2. ASSUME NEW g \in Factory, run'[g].pc = "request"
        PROVE  run'[g].md \in Object
    BY <2>2, IdleTyped DEF Succeed, Running, TypeOK, Owned
  <2> QED
    BY <2>1, <2>2 DEF Owned
<1> QED
  BY <1>6, <1>7

LEMMA TypeFail ==
  ASSUME TypeOK, Owned, NEW f \in Factory, Fail(f)
  PROVE  TypeOK'
<1>1. run' \in [Factory -> RunType] /\ meta' \in Object \cup {None}
  BY IdleTyped DEF Fail, Running, Kept, TypeOK
<1>2. state' \in [Factory -> {"free", "new", "established", "closed"}]
      /\ current' \in Factory \cup {None}
  BY DEF Fail, TypeOK
<1>3. run[f].md \in Object
  BY DEF Fail, Owned
<1>4. path' \in BOOLEAN /\ stored' \subseteq Object
  BY <1>3 DEF Fail, Deleted, TypeOK
<1> QED
  BY <1>1, <1>2, <1>4 DEF Fail, TypeOK

LEMMA ClosingTyped ==
  ASSUME TypeOK, NEW f \in Factory, Closing(f)
  PROVE  /\ run' \in [Factory -> RunType] /\ meta' \in Object \cup {None}
         /\ state' \in [Factory -> {"free", "new", "established", "closed"}]
         /\ current' \in Factory \cup {None} /\ refused' \in BOOLEAN
<1>1. meta \in Object \cup {None}
  BY DEF TypeOK
<1>2. At("close", 0, meta, FALSE) \in RunType
  BY <1>1 DEF At, RunType
<1>3. CASE AfterClose(f) /\ refused' = TRUE /\ UNCHANGED <<run, meta>>
  BY <1>3 DEF AfterClose, TypeOK
<1>4. CASE /\ Running(f, At("close", 0, meta, FALSE))
           /\ meta' = None /\ UNCHANGED <<current, state, refused>>
  BY <1>2, <1>4 DEF Running, TypeOK
<1> QED
  BY <1>3, <1>4 DEF Closing

LEMMA TypeStartClose ==
  ASSUME TypeOK, NEW f \in Factory, StartClose(f) \/ StartTimeout(f)
  PROVE  TypeOK'
<1>1. /\ Popped(f) \in QueueType
      /\ Head(queue[f]) \in JobType /\ Head(queue[f]).n \in 1..MaxCalls
  BY PoppedTyped DEF StartClose, StartTimeout, Ready
<1>2. queue' = Popped(f)
      /\ UNCHANGED <<calls, token, timer, owner, cancel, path, stored, late>>
  BY <1>1 DEF StartClose, StartTimeout, TypeOK
<1>3. Closing(f) \/ UNCHANGED <<current, state, run, meta, refused>>
  BY DEF StartClose, StartTimeout
<1>4. /\ run' \in [Factory -> RunType] /\ meta' \in Object \cup {None}
      /\ state' \in [Factory -> {"free", "new", "established", "closed"}]
      /\ current' \in Factory \cup {None} /\ refused' \in BOOLEAN
  BY <1>3, ClosingTyped DEF TypeOK
<1> QED
  BY <1>1, <1>2, <1>4 DEF TypeOK, QueueType

LEMMA TypeEndClose ==
  ASSUME TypeOK, NEW f \in Factory, EndClose(f)
  PROVE  TypeOK'
<1>1. run' \in [Factory -> RunType]
  BY IdleTyped DEF EndClose, Running, TypeOK
<1>2. state' \in [Factory -> {"free", "new", "established", "closed"}]
      /\ current' = None
  BY DEF EndClose, AfterClose, TypeOK
<1>3. timer' \in [Timer -> {"none", "armed", "fired", "cancelled"}]
  BY DEF EndClose, TypeOK
<1>4. late' \in 0..MaxLate
  BY DEF EndClose, TypeOK
<1>5. refused' \in BOOLEAN
  BY DEF EndClose, TypeOK
<1>6. path' \in BOOLEAN /\ stored' \subseteq Object
  BY DEF EndClose, Deleted, TypeOK
<1> QED
  BY <1>1, <1>2, <1>3, <1>4, <1>5, <1>6 DEF EndClose, TypeOK

LEMMA OwnedStep ==
  ASSUME TypeOK, Owned, NEW f \in Factory, Execute(f), ~Succeed(f)
  PROVE  Owned'
<1>1. \A t \in Timer : timer'[t] \in {"armed", "fired"} => owner'[t] \in Factory
  <2>1. CASE EndClose(f)
    <3>1. owner' = owner /\ \A t \in Timer : timer'[t] \in {"cancelled", timer[t]}
      BY <2>1 DEF EndClose
    <3> QED
      BY <3>1 DEF Owned
  <2>2. CASE UNCHANGED <<timer, owner>>
    BY <2>2 DEF Owned
  <2> QED
    BY <2>1, <2>2 DEF Execute, Recall, Recalled, StartRequest, Fail, StartClose,
       StartTimeout, below
<1>2. \A g \in Factory : run'[g].pc = "request" => run'[g].md \in Object
  <2>1. CASE StartRequest(f)
    <3>1. PICK o \in Object, new \in BOOLEAN :
            run' = [run EXCEPT ![f] = At("request", Head(queue[f]).n, o, new)]
      BY <2>1, StartCases
    <3>2. run'[f].md = o
      BY <3>1 DEF At, TypeOK
    <3> QED
      BY <3>1, <3>2 DEF Owned, TypeOK
  <2>2. ASSUME NEW r, r.pc # "request", Running(f, r)
        PROVE  \A g \in Factory : run'[g].pc = "request" => run'[g].md \in Object
    BY <2>2 DEF Running, Owned, TypeOK
  <2>3. CASE UNCHANGED run
    BY <2>3 DEF Owned
  <2>4. CASE Recall(f)
    <3>1. At("waiting", Head(queue[f]).n, None, FALSE).pc # "request"
      BY DEF At
    <3> QED
      BY <2>2, <2>4, <3>1 DEF Recall
  <2>5. CASE Recalled(f) \/ Fail(f) \/ EndClose(f)
    <3>1. Running(f, Idle)
      BY <2>5 DEF Recalled, Fail, EndClose
    <3> QED
      BY <2>2, <3>1, IdleTyped
  <2>6. CASE StartClose(f) \/ StartTimeout(f)
    <3>1. At("close", 0, meta, FALSE).pc # "request"
      BY DEF At
    <3>2. UNCHANGED run \/ Running(f, At("close", 0, meta, FALSE))
      BY <2>6 DEF StartClose, StartTimeout, Closing
    <3> QED
      BY <2>2, <2>3, <3>1, <3>2
  <2> QED
    BY <2>1, <2>4, <2>5, <2>6 DEF Execute
<1> QED
  BY <1>1, <1>2 DEF Owned

LEMMA TypeInit == Init => TypeOK /\ Owned
<1> SUFFICES ASSUME Init PROVE TypeOK /\ Owned
  OBVIOUS
<1>1. queue \in QueueType /\ run \in [Factory -> RunType]
  BY IdleTyped DEF Init, QueueType
<1>2. /\ state \in [Factory -> {"free", "new", "established", "closed"}]
      /\ token \in [Factory -> Timer \cup {None}]
      /\ timer \in [Timer -> {"none", "armed", "fired", "cancelled"}]
      /\ owner \in [Timer -> Factory \cup {None}]
      /\ cancel \in [Object -> Timer \cup {None}]
  BY DEF Init
<1>3. Owned
  BY IdleTyped DEF Init, Owned
<1>4. calls \in 0..MaxCalls /\ late \in 0..MaxLate
  BY DEF Init
<1>5. current \in Factory \cup {None} /\ meta \in Object \cup {None}
      /\ path \in BOOLEAN /\ stored \subseteq Object /\ refused \in BOOLEAN
  BY DEF Init
<1> QED
  BY <1>1, <1>2, <1>3, <1>4, <1>5 DEF TypeOK, QueueType

LEMMA TypeNext == TypeOK /\ Owned /\ [Next]_vars => TypeOK' /\ Owned'
<1> SUFFICES ASSUME TypeOK, Owned, [Next]_vars
             PROVE  TypeOK' /\ Owned'
  OBVIOUS
<1>1. CASE UNCHANGED vars
  BY <1>1 DEF vars, begin, below, TypeOK, Owned
<1>2. CASE CallRequest \/ CallClose
  <2>1. UNCHANGED <<timer, owner, run>>
    BY <1>2 DEF CallRequest, CallClose, below
  <2> QED
    BY <1>2, <2>1, TypeCalls DEF Owned
<1>3. CASE \E t \in Timer : Expire(t)
  BY <1>3, TypeExpire
<1>4. ASSUME NEW f \in Factory, Execute(f) PROVE TypeOK' /\ Owned'
  BY <1>4, TypeRecall, TypeRecalled, TypeStartRequest, TypeSucceed, TypeFail,
     TypeStartClose, TypeEndClose, OwnedStep DEF Execute
<1> QED
  BY <1>1, <1>2, <1>3, <1>4 DEF Next

\* Under any authorization, with late Closes and lost entries or not: begin,
\* metadata and timeout never use a factory, an object or a timer that is
\* not there.
THEOREM LifecycleTypeCorrect == Spec => []TypeOK
BY TypeInit, TypeNext, PTL DEF Spec

-----------------------------------------------------------------------------
(* The inductive invariant *)

JobsOf(q) == {q[i] : i \in DOMAIN q}
Live(t) == timer[t] \in {"armed", "fired"}

\* Only the factory under the id runs a call in the chain or is established,
\* and its request has the id's metadata, its Close what was that
ChainInv ==
  \A f \in Factory :
    /\ InChain(f) => f = current
    /\ state[f] = "established" => f = current /\ token[f] # None
    /\ run[f].pc = "request" =>
         /\ meta # None /\ run[f].md = meta
         /\ run[f].new <=> state[f] # "established"
    /\ run[f].pc = "close" =>
         meta = None /\ run[f].md # None /\ state[f] = "established"

\* The only timer that is on is that of the last request, and the metadata
\* has its cancel function
TimerInv ==
  \A t \in Timer : Live(t) =>
    /\ Established /\ owner[t] = current /\ token[current] = t
    /\ run[current].pc = "close" => cancel[run[current].md] = t
    /\ run[current].pc # "close" => cancel[meta] = t

\* Executors have the jobs of their own timers only
GoodJob(f, j) ==
  j.kind = "timeout" => owner[j.n] = f /\ timer[j.n] \in {"fired", "cancelled"}
JobInv == \A f \in Factory : \A j \in JobsOf(queue[f]) : GoodJob(f, j)

Good == ChainInv /\ Matched /\ TimerInv /\ JobInv
IInv == TypeOK /\ Owned /\ Good

\* Serial, seen by the elements below; S is that, as long as begin is calm
T == INSTANCE Serial WITH call <- ChainCall, est <- Established
SerialStep == [T!Next]_(T!vars)

ExpiredStep ==
  \A f \in Factory :
    Calm /\ StartTimeout(f) /\ ~Skipped(f, Head(queue[f]).n)
      => current = f /\ token[f] = Head(queue[f]).n

-----------------------------------------------------------------------------
LEMMA JobsTyped ==
  ASSUME NEW q \in Seq(JobType), NEW j \in JobsOf(q)
  PROVE  j \in JobType /\ j.n \in Timer
<1>1. \A i \in DOMAIN q : q[i] \in JobType
  OBVIOUS
<1>2. j \in JobType
  BY <1>1 DEF JobsOf
<1> QED
  BY <1>2 DEF JobType, Timer

LEMMA TailJobs ==
  ASSUME NEW q \in Seq(JobType), q # <<>>
  PROVE  JobsOf(Tail(q)) \subseteq JobsOf(q) /\ Head(q) \in JobsOf(q)
<1>1. \A i \in DOMAIN Tail(q) : i + 1 \in DOMAIN q /\ Tail(q)[i] = q[i + 1]
  OBVIOUS
<1>2. 1 \in DOMAIN q /\ Head(q) = q[1]
  OBVIOUS
<1> QED
  BY <1>1, <1>2 DEF JobsOf

LEMMA AppendJobs ==
  ASSUME NEW q \in Seq(JobType), NEW j \in JobType
  PROVE  /\ JobsOf(Append(q, j)) \subseteq JobsOf(q) \cup {j}
         /\ JobsOf(<<j>>) = {j}
<1>1. \A i \in DOMAIN Append(q, j) :
        (i \in DOMAIN q /\ Append(q, j)[i] = q[i]) \/ Append(q, j)[i] = j
  OBVIOUS
<1>2. DOMAIN <<j>> = {1} /\ <<j>>[1] = j
  OBVIOUS
<1> QED
  BY <1>1, <1>2 DEF JobsOf

LEMMA PoppedJobs ==
  ASSUME TypeOK, NEW f \in Factory, queue[f] # <<>>
  PROVE  /\ \A g \in Factory : JobsOf(Popped(f)[g]) \subseteq JobsOf(queue[g])
         /\ Head(queue[f]) \in JobsOf(queue[f])
<1>1. queue[f] \in Seq(JobType)
  BY DEF TypeOK
<1>2. \A g \in Factory : Popped(f)[g] = IF g = f THEN Tail(queue[f]) ELSE queue[g]
  BY DEF TypeOK, Popped
<1> QED
  BY <1>1, <1>2, TailJobs

\* The call in the chain is the one of the map's factory
CallOf(r) ==
  IF \E f \in Factory : r[f].pc = "request" THEN "request"
  ELSE IF \E f \in Factory : r[f].pc = "close" THEN "close" ELSE "none"

LEMMA CallOfIs ==
  ASSUME NEW r, NEW c,
         \A f \in Factory : r[f].pc \in {"request", "close"} => f = c
  PROVE  /\ \A f \in Factory : r[f].pc \in {"request", "close"} => CallOf(r) = r[f].pc
         /\ (\A f \in Factory : r[f].pc \notin {"request", "close"}) => CallOf(r) = "none"
BY DEF CallOf

LEMMA Calls ==
  /\ ChainCall = CallOf(run) /\ ChainCall' = CallOf(run')
BY DEF ChainCall, CallOf

-----------------------------------------------------------------------------
(* Steps that the chain does not see *)

SameRun ==
  \A g \in Factory :
    \/ run'[g] = run[g]
    \/ ~InChain(g) /\ run'[g].pc \notin {"request", "close"}

NewJobs ==
  \A g \in Factory : \A j \in JobsOf(queue'[g]) :
    j \in JobsOf(queue[g]) \/ j.kind # "timeout"

LEMMA SameCall ==
  ASSUME SameRun
  PROVE  ChainCall' = ChainCall
BY DEF SameRun, InChain, ChainCall

LEMMA JobsKept ==
  ASSUME TypeOK, TypeOK', JobInv, NewJobs, UNCHANGED owner,
         \A t \in Timer : timer[t] \in {"fired", "cancelled"}
                            => timer'[t] \in {"fired", "cancelled"}
  PROVE  JobInv'
<1>1. ASSUME NEW f \in Factory, NEW j \in JobsOf(queue'[f])
      PROVE  GoodJob(f, j)'
  <2>1. queue'[f] \in Seq(JobType)
    BY DEF TypeOK
  <2>2. j.n \in Timer
    BY <2>1, <1>1, JobsTyped
  <2> QED
    BY <1>1, <2>2 DEF JobInv, GoodJob, NewJobs
<1> QED
  BY <1>1 DEF JobInv

LEMMA Resting ==
  ASSUME IInv, TypeOK', SameRun, NewJobs,
         UNCHANGED <<current, state, token, timer, owner, meta, cancel>>
  PROVE  Good' /\ SerialStep
<1>1. ChainInv'
  BY DEF IInv, Good, ChainInv, SameRun, InChain
<1>2. Matched'
  BY DEF IInv, Good, Matched, SameRun, InChain, Established
<1>3. TimerInv'
  <2>1. ASSUME NEW t \in Timer, Live(t)'
        PROVE  /\ Established' /\ owner'[t] = current' /\ token'[current'] = t
               /\ run'[current'].pc = "close" => cancel'[run'[current'].md] = t
               /\ run'[current'].pc # "close" => cancel'[meta'] = t
    <3>1. Live(t)
      BY <2>1 DEF Live
    <3>2. current \in Factory
      BY <3>1 DEF IInv, Good, TimerInv, Established, TypeOK
    <3> QED
      BY <3>1, <3>2 DEF IInv, Good, TimerInv, Established, SameRun, InChain
  <2> QED
    BY <2>1 DEF TimerInv
<1>4. JobInv'
  BY JobsKept DEF IInv, Good
<1>5. Established' = Established
  BY DEF Established
<1> QED
  BY <1>1, <1>2, <1>3, <1>4, <1>5, SameCall DEF Good, SerialStep, T!vars

LEMMA NoneRuns ==
  ASSUME IInv, current = None
  PROVE  /\ \A f \in Factory : ~InChain(f) /\ state[f] # "established"
         /\ meta = None /\ \A t \in Timer : ~Live(t)
<1>1. \A f \in Factory : ~InChain(f) /\ state[f] # "established"
  BY NoneOf DEF IInv, Good, ChainInv
<1> QED
  BY <1>1 DEF IInv, Good, Matched, TimerInv, Established

LEMMA Submitting ==
  ASSUME IInv, TypeOK', NEW q \in QueueType, NEW j \in JobType,
         j.kind # "timeout", Submit(q, j), SameRun,
         \A g \in Factory : JobsOf(q[g]) \subseteq JobsOf(queue[g]),
         UNCHANGED <<token, timer, owner, meta, cancel>>
  PROVE  Good' /\ SerialStep
<1>1. CASE /\ current # None
           /\ queue' = [q EXCEPT ![current] = Append(@, j)]
           /\ UNCHANGED <<current, state>>
  <2>1. \A g \in Factory : /\ q[g] \in Seq(JobType)
                           /\ queue'[g] \in {q[g], Append(q[g], j)}
    BY <1>1 DEF QueueType
  <2>2. ASSUME NEW g \in Factory, NEW k \in JobsOf(queue'[g])
        PROVE  k \in JobsOf(queue[g]) \/ k.kind # "timeout"
    <3>1. k \in JobsOf(q[g]) \cup {j}
      BY <2>1, <2>2, AppendJobs
    <3> QED
      BY <3>1
  <2>3. NewJobs
    BY <2>2 DEF NewJobs
  <2> QED
    BY <1>1, <2>3, Resting
<1>2. CASE current = None
  <2>1. PICK f \in Factory : /\ current' = f
                             /\ state' = [state EXCEPT ![f] = "new"]
                             /\ queue' = [q EXCEPT ![f] = <<j>>]
    BY <1>2 DEF Submit
  <2>2. \A g \in Factory : /\ q[g] \in Seq(JobType)
                           /\ queue'[g] \in {q[g], <<j>>}
    BY <2>1 DEF QueueType
  <2>3. NewJobs
    BY <2>2, AppendJobs DEF NewJobs
  <2>4. /\ \A g \in Factory : ~InChain(g) /\ state[g] # "established"
        /\ meta = None /\ \A t \in Timer : ~Live(t)
    BY <1>2, NoneRuns
  <2>5. \A g \in Factory : /\ run'[g].pc \notin {"request", "close"}
                           /\ state'[g] # "established"
    BY <2>1, <2>4 DEF SameRun, InChain, IInv, TypeOK
  <2>6. ~Established' /\ ~Established
    BY <2>1, <2>5, <1>2 DEF Established
  <2>7. ChainInv' /\ Matched'
    BY <2>4, <2>5, <2>6 DEF ChainInv, Matched, InChain
  <2>8. TimerInv'
    BY <2>4 DEF TimerInv, Live
  <2>9. JobInv'
    BY <2>3, JobsKept DEF IInv, Good
  <2> QED
    BY <2>6, <2>7, <2>8, <2>9, SameCall DEF Good, SerialStep, T!vars, Established
<1> QED
  BY <1>1, <1>2 DEF Submit

LEMMA GoodCalls ==
  ASSUME IInv, TypeOK', CallRequest \/ CallClose
  PROVE  Good' /\ SerialStep
<1>1. PICK kind \in {"request", "close"} : Submit(queue, Job(kind, calls + 1))
  BY DEF CallRequest, CallClose
<1>2. calls + 1 \in 1..MaxCalls
  BY DEF CallRequest, CallClose, IInv, TypeOK
<1>3. /\ Job(kind, calls + 1) \in JobType
      /\ Job(kind, calls + 1).kind # "timeout"
  BY <1>2, JobTyped DEF Job
<1>4. queue \in QueueType /\ SameRun
      /\ UNCHANGED <<token, timer, owner, meta, cancel>>
  BY DEF IInv, TypeOK, QueueType, SameRun, CallRequest, CallClose, below
<1> QED
  BY <1>1, <1>3, <1>4, Submitting

LEMMA GoodRecall ==
  ASSUME IInv, TypeOK', NEW f \in Factory, Recall(f)
  PROVE  Good' /\ SerialStep
<1>1. /\ Popped(f) \in QueueType /\ Head(queue[f]) \in JobType
      /\ \A g \in Factory : JobsOf(Popped(f)[g]) \subseteq JobsOf(queue[g])
  BY PoppedTyped, PoppedJobs DEF Recall, Ready, IInv
<1>2. Head(queue[f]).kind # "timeout"
  BY DEF Recall, Ready
<1>3. SameRun
  <2>1. run' = [run EXCEPT ![f] = At("waiting", Head(queue[f]).n, None, FALSE)]
    BY DEF Recall, Running
  <2>2. At("waiting", Head(queue[f]).n, None, FALSE).pc = "waiting"
    BY DEF At
  <2> QED
    BY <2>1, <2>2 DEF SameRun, InChain, Recall, Ready, IInv, TypeOK
<1> QED
  BY <1>1, <1>2, <1>3, Submitting DEF Recall, below

LEMMA GoodRecalled ==
  ASSUME IInv, TypeOK', NEW f \in Factory, Recalled(f)
  PROVE  Good' /\ SerialStep
<1>1. SameRun
  BY IdleTyped DEF SameRun, InChain, Recalled, Running, IInv, TypeOK
<1>2. NewJobs
  BY DEF NewJobs, Recalled
<1> QED
  BY <1>1, <1>2, Resting DEF Recalled, below

LEMMA GoodExpire ==
  ASSUME IInv, TypeOK', NEW t \in Timer, Expire(t)
  PROVE  Good' /\ SerialStep
<1>1. UNCHANGED <<current, state, token, run, owner, meta, cancel>>
  BY DEF Expire
<1>2. timer' = [timer EXCEPT ![t] = "fired"] /\ timer[t] = "armed"
  BY DEF Expire
<1>3. \A u \in Timer : Live(u)' <=> Live(u)
  BY <1>2 DEF Live, IInv, TypeOK
<1>4. ChainInv' /\ Matched' /\ SerialStep
  BY <1>1 DEF IInv, Good, ChainInv, Matched, InChain, Established,
     SerialStep, T!vars, ChainCall
<1>5. TimerInv'
  BY <1>1, <1>3 DEF IInv, Good, TimerInv, Established
<1>6. owner[t] \in Factory
  BY <1>2 DEF IInv, Owned
<1>7. JobInv'
  <2>1. ASSUME NEW f \in Factory, NEW j \in JobsOf(queue'[f])
        PROVE  GoodJob(f, j)'
    <3>1. j \in JobsOf(queue[f]) \/ (f = owner[t] /\ j = Job("timeout", t))
      <4>1. queue[f] \in Seq(JobType) /\ Job("timeout", t) \in JobType
        BY NoneOf, JobTyped DEF IInv, TypeOK
      <4>2. queue'[f] = IF f = owner[t] THEN Append(queue[f], Job("timeout", t))
                        ELSE queue[f]
        BY <1>6 DEF Expire, IInv, TypeOK
      <4> QED
        BY <2>1, <4>1, <4>2, AppendJobs
    <3>2. CASE f = owner[t] /\ j = Job("timeout", t)
      BY <1>1, <1>2, <3>2 DEF GoodJob, Job, IInv, TypeOK
    <3>3. CASE j \in JobsOf(queue[f])
      <4>1. j.n \in Timer
        BY <3>3, JobsTyped DEF IInv, TypeOK
      <4> QED
        BY <1>1, <1>2, <3>3, <4>1 DEF IInv, Good, JobInv, GoodJob, TypeOK
    <3> QED
      BY <3>1, <3>2, <3>3
  <2> QED
    BY <2>1 DEF JobInv
<1> QED
  BY <1>4, <1>5, <1>7 DEF Good

-----------------------------------------------------------------------------
(* Steps of the chain *)

LEMMA OnlyCurrent ==
  ASSUME IInv, NEW f \in Factory, current = f
  PROVE  /\ \A g \in Factory \ {f} : ~InChain(g) /\ state[g] # "established"
         /\ ~InChain(f) => (meta # None <=> state[f] = "established")
         /\ Established <=> state[f] = "established"
         /\ InChain(f) => ChainCall = run[f].pc
         /\ ~InChain(f) => ChainCall = "none"
<1>1. \A g \in Factory \ {f} : ~InChain(g) /\ state[g] # "established"
  BY DEF IInv, Good, ChainInv
<1>2. Established <=> state[f] = "established"
  BY NoneOf DEF Established
<1>3. ~InChain(f) => (meta # None <=> state[f] = "established")
  BY <1>1, <1>2 DEF IInv, Good, Matched
<1>4. /\ InChain(f) => ChainCall = run[f].pc
      /\ ~InChain(f) => ChainCall = "none"
  BY <1>1, CallOfIs, Calls DEF InChain
<1> QED
  BY <1>1, <1>2, <1>3, <1>4

\* What f runs changes to r
LEMMA RunsNext ==
  ASSUME IInv, NEW f \in Factory, current = f, NEW r, Running(f, r)
  PROVE  /\ run'[f] = r /\ \A g \in Factory \ {f} : run'[g] = run[g]
         /\ \A g \in Factory \ {f} : ~InChain(g)'
         /\ r.pc \in {"request", "close"} => ChainCall' = r.pc
         /\ r.pc \notin {"request", "close"} => ChainCall' = "none"
<1>1. run'[f] = r /\ \A g \in Factory \ {f} : run'[g] = run[g]
  BY DEF Running, IInv, TypeOK
<1>2. \A g \in Factory \ {f} : run'[g].pc \notin {"request", "close"}
  BY <1>1, OnlyCurrent DEF InChain
<1>3. /\ r.pc \in {"request", "close"} => CallOf(run') = r.pc
      /\ r.pc \notin {"request", "close"} => CallOf(run') = "none"
  BY <1>1, <1>2, CallOfIs
<1> QED
  BY <1>1, <1>2, <1>3, Calls DEF InChain

LEMMA PoppedGood ==
  ASSUME IInv, TypeOK', NEW f \in Factory, queue[f] # <<>>,
         queue' = Popped(f), UNCHANGED <<timer, owner>>
  PROVE  JobInv'
<1>1. NewJobs
  BY PoppedJobs DEF NewJobs, IInv
<1> QED
  BY <1>1, JobsKept DEF IInv, Good

LEMMA GoodStartRequest ==
  ASSUME IInv, TypeOK', NEW f \in Factory, StartRequest(f)
  PROVE  Good' /\ SerialStep
<1>1. /\ current = f /\ ~InChain(f) /\ queue[f] # <<>> /\ queue' = Popped(f)
      /\ UNCHANGED <<current, state, token, timer, owner>>
  BY DEF StartRequest, Ready, InChain
<1>2. PICK o \in Object, new \in BOOLEAN :
        /\ run' = [run EXCEPT ![f] = At("request", Head(queue[f]).n, o, new)]
        /\ meta' = o
        /\ new <=> meta = None
        /\ ~new => meta = o /\ cancel' = cancel
  BY StartCases DEF IInv
<1>3. DEFINE r == At("request", Head(queue[f]).n, o, new)
<1>4. r.pc = "request" /\ r.md = o /\ (r.new <=> new)
  BY DEF At
<1>4a. Running(f, r)
  BY <1>2 DEF r, Running
<1> HIDE DEF r
<1>4b. /\ run'[f] = r /\ \A g \in Factory \ {f} : run'[g] = run[g] /\ ~InChain(g)'
       /\ ChainCall' = "request"
  BY <1>1, <1>4, <1>4a, RunsNext
<1>4c. ChainCall = "none"
  BY <1>1, OnlyCurrent
<1>4d. InChain(f)'
  BY <1>4, <1>4b DEF InChain
<1>5. /\ run'[f] = r /\ \A g \in Factory \ {f} : run'[g] = run[g] /\ ~InChain(g)'
      /\ ChainCall' = "request" /\ ChainCall = "none"
      /\ InChain(f)'
  BY <1>4b, <1>4c, <1>4d
<1>6. /\ \A g \in Factory \ {f} : ~InChain(g) /\ state[g] # "established"
      /\ meta # None <=> state[f] = "established"
      /\ Established <=> state[f] = "established"
  BY <1>1, OnlyCurrent
<1>7. ChainInv'
  <2>1. ASSUME NEW g \in Factory, g # f
        PROVE  ~InChain(g)' /\ state'[g] # "established"
    BY <1>1, <1>5, <1>6, <2>1
  <2>2. /\ run'[f].md = meta' /\ meta' # None
        /\ run'[f].new <=> state'[f] # "established"
    BY <1>1, <1>2, <1>4, <1>5, <1>6, NoneOf
  <2>3. state'[f] = "established" => token'[f] # None
    BY <1>1 DEF IInv, Good, ChainInv
  <2> QED
    BY <1>1, <1>4, <1>5, <2>1, <2>2, <2>3 DEF ChainInv, InChain
<1>8. Matched'
  BY <1>5 DEF Matched
<1>9. TimerInv'
  <2>1. ASSUME NEW t \in Timer, Live(t)'
        PROVE  /\ Established' /\ owner'[t] = current' /\ token'[current'] = t
               /\ cancel'[meta'] = t
    <3>1. Established /\ owner[t] = current /\ token[current] = t
      BY <1>1, <2>1 DEF IInv, Good, TimerInv, Live
    <3>2. cancel[meta] = t
      BY <1>1, <2>1 DEF IInv, Good, TimerInv, Live, InChain
    <3>3. meta # None
      BY <1>6, <3>1
    <3> QED
      BY <1>1, <1>2, <3>1, <3>2, <3>3 DEF Established
  <2> QED
    BY <1>1, <1>4, <1>5, <2>1 DEF TimerInv
<1>10. JobInv'
  BY <1>1, PoppedGood
<1>11. SerialStep
  BY <1>1, <1>5 DEF SerialStep, T!Next, T!Request, T!Begin, Established
<1> QED
  BY <1>7, <1>8, <1>9, <1>10, <1>11 DEF Good

LEMMA InChainIsCurrent ==
  ASSUME IInv, NEW f \in Factory, InChain(f)
  PROVE  current = f
BY DEF IInv, Good, ChainInv

LEMMA GoodSucceed ==
  ASSUME IInv, TypeOK', NEW f \in Factory, Succeed(f)
  PROVE  Good' /\ SerialStep
<1>1. /\ current = f /\ run[f].pc = "request" /\ InChain(f)
      /\ run' = [run EXCEPT ![f] = Idle]
      /\ state' = [state EXCEPT ![f] = "established"]
      /\ UNCHANGED <<current, queue, meta>>
  BY InChainIsCurrent DEF Succeed, Running, InChain
<1>2. PICK t \in Timer :
        /\ timer[t] = "none"
        /\ timer' = InPlaceOf(run[f].md, t)
        /\ owner' = [owner EXCEPT ![t] = f]
        /\ cancel' = [cancel EXCEPT ![run[f].md] = t]
        /\ token' = [token EXCEPT ![f] = t]
  BY DEF Succeed, Least
<1>3. meta # None /\ run[f].md = meta /\ meta \in Object
  BY <1>1 DEF IInv, Good, ChainInv, TypeOK
<1>4. /\ \A g \in Factory \ {f} : run'[g] = run[g] /\ ~InChain(g)'
      /\ ChainCall' = "none" /\ ChainCall = "request" /\ ~InChain(f)'
      /\ run'[f].pc = "idle"
  BY <1>1, RunsNext, OnlyCurrent, IdleTyped DEF Running, InChain
<1>5. /\ state'[f] = "established" /\ token'[f] = t /\ t # None
      /\ \A g \in Factory \ {f} : state'[g] # "established"
  BY <1>1, <1>2, OnlyCurrent, NoneOf DEF IInv, TypeOK
<1>6. Established'
  BY <1>1, <1>5, NoneOf DEF Established
<1>7. ChainInv'
  BY <1>1, <1>4, <1>5 DEF ChainInv, InChain
<1>8. Matched'
  BY <1>1, <1>3, <1>6 DEF Matched
<1>9. ASSUME NEW u \in Timer
      PROVE  /\ Live(u)' => u = t
             /\ timer[u] \in {"fired", "cancelled"}
                  => u # t /\ timer'[u] \in {"fired", "cancelled"} /\ owner'[u] = owner[u]
  <2>1. timer'[u] = IF u = t THEN "armed"
                    ELSE IF u = cancel[run[f].md] THEN "cancelled" ELSE timer[u]
    BY <1>2 DEF InPlaceOf
  <2>2. Live(u) => cancel[meta] = u
    BY <1>1 DEF IInv, Good, TimerInv
  <2>3. Live(u)' => u = t
    BY <1>3, <2>1, <2>2 DEF Live
  <2>4. u # t => owner'[u] = owner[u]
    BY <1>2 DEF IInv, TypeOK
  <2> QED
    BY <1>2, <2>1, <2>3, <2>4
<1>10. TimerInv'
  <2>1. /\ owner'[t] = f /\ cancel'[meta'] = t
    BY <1>1, <1>2, <1>3 DEF IInv, TypeOK
  <2> QED
    BY <1>1, <1>4, <1>5, <1>6, <1>9, <2>1 DEF TimerInv
<1>11. JobInv'
  <2>1. ASSUME NEW g \in Factory, NEW j \in JobsOf(queue[g])
        PROVE  GoodJob(g, j)'
    <3>1. j.n \in Timer
      BY JobsTyped DEF IInv, TypeOK
    <3> QED
      BY <1>9, <3>1 DEF IInv, Good, JobInv, GoodJob
  <2> QED
    BY <1>1, <2>1 DEF JobInv
<1>12. SerialStep
  BY <1>4, <1>6 DEF SerialStep, T!Next, T!Succeed, T!Done
<1> QED
  BY <1>7, <1>8, <1>10, <1>11, <1>12 DEF Good

LEMMA GoodFail ==
  ASSUME IInv, TypeOK', NEW f \in Factory, Fail(f)
  PROVE  Good' /\ SerialStep
<1>1. /\ current = f /\ run[f].pc = "request" /\ InChain(f)
      /\ run' = [run EXCEPT ![f] = Idle]
      /\ UNCHANGED <<token, queue, timer, owner, cancel>>
  BY InChainIsCurrent DEF Fail, Running, InChain
<1>2. /\ meta # None
      /\ run[f].new <=> state[f] # "established"
  BY <1>1 DEF IInv, Good, ChainInv
<1>3. /\ \A g \in Factory \ {f} : run'[g] = run[g] /\ ~InChain(g)'
      /\ ChainCall' = "none" /\ ChainCall = "request" /\ ~InChain(f)'
      /\ run'[f].pc = "idle"
  BY <1>1, RunsNext, OnlyCurrent, IdleTyped DEF Running, InChain
<1>4. JobInv'
  BY <1>1 DEF IInv, Good, JobInv, GoodJob
<1>5. \A g \in Factory \ {f} : state[g] # "established"
  BY <1>1, OnlyCurrent
<1>6. CASE state[f] = "established"
  <2>1. UNCHANGED <<current, state, meta>>
    BY <1>2, <1>6 DEF Fail, Kept
  <2>2. Established /\ Established'
    BY <1>1, <1>6, <2>1, NoneOf DEF Established
  <2>3. ChainInv'
    BY <1>1, <1>3, <2>1 DEF IInv, Good, ChainInv, InChain
  <2>3a. meta' # None
    BY <1>2, <2>1
  <2>4. Matched'
    BY <2>2, <2>3a DEF Matched
  <2>5. TimerInv'
    BY <1>1, <1>3, <2>1, <2>2 DEF IInv, Good, TimerInv, Live
  <2> QED
    BY <1>3, <1>4, <2>2, <2>3, <2>4, <2>5
    DEF Good, SerialStep, T!Next, T!Fail, T!Done
<1>7. CASE state[f] # "established"
  <2>1. /\ meta' = None /\ current' = None
        /\ \A g \in Factory : state'[g] # "established"
    BY <1>2, <1>5, <1>7 DEF Fail, Kept, IInv, TypeOK
  <2>2. ~Established /\ ~Established'
    BY <1>1, <1>7, <2>1 DEF Established
  <2>3. ChainInv' /\ Matched'
    BY <1>3, <2>1, <2>2 DEF ChainInv, Matched, InChain
  <2>4. TimerInv'
    BY <1>1, <2>2 DEF IInv, Good, TimerInv, Live
  <2>5. Established' = Established
    BY <2>2 DEF Established
  <2>6. SerialStep
    BY <1>3, <2>5 DEF SerialStep, T!Next, T!Fail, T!Done
  <2> QED
    BY <1>4, <2>3, <2>4, <2>6 DEF Good
<1> QED
  BY <1>6, <1>7

\* A Close that starts: of the factory under the id, which is established
LEMMA GoodClosing ==
  ASSUME IInv, TypeOK', Calm', NEW f \in Factory, Closing(f),
         current = f, state[f] = "established", run[f].pc = "idle",
         queue[f] # <<>>, queue' = Popped(f),
         UNCHANGED <<token, timer, owner, cancel>>
  PROVE  Good' /\ SerialStep
<1> DEFINE r == At("close", 0, meta, FALSE)
<1>1. /\ run' = [run EXCEPT ![f] = r] /\ meta' = None
      /\ UNCHANGED <<current, state>>
  BY DEF Closing, Running, Calm
<1>2. r.pc = "close" /\ r.md = meta
  BY DEF At
<1> HIDE DEF r
<1>3. /\ \A g \in Factory \ {f} : run'[g] = run[g] /\ ~InChain(g)'
      /\ run'[f] = r /\ InChain(f)' /\ ChainCall' = "close" /\ ChainCall = "none"
  BY <1>1, <1>2, RunsNext, OnlyCurrent DEF Running, InChain
<1>4. /\ \A g \in Factory \ {f} : state[g] # "established"
      /\ meta # None /\ Established
  BY OnlyCurrent DEF InChain
<1>5. Established'
  BY <1>1, <1>4 DEF Established
<1>6. ChainInv'
  <2>1. token[f] # None
    BY DEF IInv, Good, ChainInv
  <2> QED
    BY <1>1, <1>2, <1>3, <1>4, <2>1 DEF ChainInv, InChain
<1>7. Matched'
  BY <1>3 DEF Matched
<1>8. TimerInv'
  BY <1>1, <1>2, <1>3, <1>5 DEF IInv, Good, TimerInv, Live
<1>9. JobInv'
  BY PoppedGood
<1>10. SerialStep
  BY <1>3, <1>4, <1>5 DEF SerialStep, T!Next, T!Close, T!Begin
<1> QED
  BY <1>6, <1>7, <1>8, <1>9, <1>10 DEF Good

LEMMA GoodStartClose ==
  ASSUME IInv, TypeOK', Calm', NEW f \in Factory, StartClose(f)
  PROVE  Good' /\ SerialStep
<1>1. /\ run[f].pc = "idle" /\ queue[f] # <<>> /\ queue' = Popped(f)
      /\ UNCHANGED <<token, timer, owner, cancel>>
  BY DEF StartClose, Ready
<1>2. CASE state[f] = "established" /\ current = f
  BY <1>1, <1>2, GoodClosing DEF StartClose
<1>3. CASE UNCHANGED <<current, state, run, meta>>
  <2>1. NewJobs /\ SameRun
    BY <1>1, <1>3, PoppedJobs DEF NewJobs, SameRun, IInv
  <2> QED
    BY <1>1, <1>3, <2>1, Resting
<1> QED
  BY <1>2, <1>3 DEF StartClose

\* The timer of a job that is not skipped is on, so it is the current one
LEMMA TimeoutIsCurrent ==
  ASSUME IInv, NEW f \in Factory, Ready(f, "timeout"),
         ~Skipped(f, Head(queue[f]).n)
  PROVE  /\ current = f /\ state[f] = "established"
         /\ token[f] = Head(queue[f]).n
<1> DEFINE t == Head(queue[f]).n
<1>1. Head(queue[f]) \in JobsOf(queue[f]) /\ t \in Timer
  BY PoppedJobs, JobsTyped DEF Ready, IInv, TypeOK
<1>2. owner[t] = f /\ timer[t] = "fired"
  BY <1>1 DEF Ready, IInv, Good, JobInv, GoodJob, Skipped
<1>3. Live(t)
  BY <1>2 DEF Live
<1>4. Established /\ owner[t] = current /\ token[current] = t
  BY <1>1, <1>3 DEF IInv, Good, TimerInv
<1> QED
  BY <1>2, <1>4 DEF Established

LEMMA GoodStartTimeout ==
  ASSUME IInv, TypeOK', Calm', NEW f \in Factory, StartTimeout(f)
  PROVE  Good' /\ SerialStep
<1>1. /\ run[f].pc = "idle" /\ queue[f] # <<>> /\ queue' = Popped(f)
      /\ UNCHANGED <<token, timer, owner, cancel>>
  BY DEF StartTimeout, Ready
<1>2. CASE ~Skipped(f, Head(queue[f]).n)
  BY <1>1, <1>2, TimeoutIsCurrent, GoodClosing DEF StartTimeout
<1>3. CASE UNCHANGED <<current, state, run, meta>>
  <2>1. NewJobs /\ SameRun
    BY <1>1, <1>3, PoppedJobs DEF NewJobs, SameRun, IInv
  <2> QED
    BY <1>1, <1>3, <2>1, Resting
<1> QED
  BY <1>2, <1>3 DEF StartTimeout

LEMMA GoodEndClose ==
  ASSUME IInv, TypeOK', Calm', NEW f \in Factory, EndClose(f)
  PROVE  Good' /\ SerialStep
<1>1. /\ current = f /\ run[f].pc = "close" /\ InChain(f)
      /\ run' = [run EXCEPT ![f] = Idle] /\ current' = None
      /\ state' = [state EXCEPT ![f] = "closed"]
      /\ UNCHANGED <<token, queue, owner, meta, cancel>>
  BY InChainIsCurrent DEF EndClose, AfterClose, Running, InChain
<1>2. timer' = [t \in Timer |-> IF run[f].md # None /\ t = cancel[run[f].md]
                                THEN "cancelled" ELSE timer[t]]
  BY DEF EndClose, Calm, IInv, TypeOK
<1>3. meta = None /\ run[f].md # None /\ state[f] = "established"
  BY <1>1 DEF IInv, Good, ChainInv
<1>4. /\ \A g \in Factory \ {f} : run'[g] = run[g] /\ ~InChain(g)'
      /\ ChainCall' = "none" /\ ChainCall = "close" /\ ~InChain(f)'
  BY <1>1, RunsNext, OnlyCurrent, IdleTyped DEF Running, InChain
<1>5. \A g \in Factory : state'[g] # "established"
  BY <1>1, OnlyCurrent DEF IInv, TypeOK
<1>6. ~Established' /\ Established
  BY <1>1, <1>3, OnlyCurrent DEF Established
<1>7. ChainInv' /\ Matched'
  BY <1>1, <1>3, <1>4, <1>5, <1>6 DEF ChainInv, Matched, InChain
<1>8. \A t \in Timer : ~Live(t)'
  BY <1>1, <1>2, <1>3 DEF IInv, Good, TimerInv, Live
<1>9. TimerInv'
  BY <1>8 DEF TimerInv
<1>10. JobInv'
  <2>1. NewJobs
    BY <1>1 DEF NewJobs
  <2>2. \A t \in Timer : timer[t] \in {"fired", "cancelled"}
                           => timer'[t] \in {"fired", "cancelled"}
    BY <1>2
  <2> QED
    BY <1>1, <2>1, <2>2, JobsKept DEF IInv, Good
<1>11. SerialStep
  BY <1>4, <1>6 DEF SerialStep, T!Next, T!Closed
<1> QED
  BY <1>7, <1>9, <1>10, <1>11 DEF Good

-----------------------------------------------------------------------------
LEMMA GoodInit == Init => IInv /\ T!Init
<1> SUFFICES ASSUME Init PROVE IInv /\ T!Init
  OBVIOUS
<1>1. /\ current = None /\ meta = None
      /\ \A f \in Factory : /\ state[f] = "free" /\ run[f].pc = "idle"
                            /\ queue[f] = <<>>
      /\ \A t \in Timer : timer[t] = "none"
  BY IdleTyped DEF Init
<1>2. ~Established /\ ChainCall = "none"
  BY <1>1 DEF Established, ChainCall
<1>3. ChainInv /\ Matched /\ TimerInv
  BY <1>1, <1>2 DEF ChainInv, Matched, TimerInv, Live, InChain
<1>4. JobInv
  BY <1>1 DEF JobInv, JobsOf
<1> QED
  BY <1>2, <1>3, <1>4, TypeInit DEF IInv, Good, T!Init

LEMMA GoodNext ==
  ASSUME IInv, [Next]_vars, Calm'
  PROVE  Good' /\ SerialStep
<1>1. TypeOK' /\ Owned'
  BY TypeNext DEF IInv
<1>2. CASE UNCHANGED vars
  <2>1. UNCHANGED <<current, state, token, timer, owner, meta, cancel, run, queue>>
    BY <1>2 DEF vars, begin, below
  <2>2. NewJobs /\ SameRun
    BY <2>1 DEF NewJobs, SameRun
  <2> QED
    BY <1>1, <2>1, <2>2, Resting DEF IInv
<1>3. CASE CallRequest \/ CallClose
  BY <1>1, <1>3, GoodCalls DEF IInv
<1>4. CASE \E t \in Timer : Expire(t)
  BY <1>1, <1>4, GoodExpire DEF IInv
<1>5. ASSUME NEW f \in Factory, Execute(f) PROVE Good' /\ SerialStep
  BY <1>1, <1>5, GoodRecall, GoodRecalled, GoodStartRequest, GoodSucceed,
     GoodFail, GoodStartClose, GoodStartTimeout, GoodEndClose DEF Execute
<1> QED
  BY <1>2, <1>3, <1>4, <1>5 DEF Next

\* A refused or late Close stays one
LEMMA CalmBefore == TypeOK /\ [Next]_vars /\ Calm' => Calm
<1> SUFFICES ASSUME TypeOK, [Next]_vars, Calm' PROVE Calm
  OBVIOUS
<1>1. late \in Nat /\ refused \in BOOLEAN /\ late' = 0 /\ ~refused'
  BY DEF TypeOK, Calm
<1>2. CASE UNCHANGED <<late, refused>>
  BY <1>2 DEF Calm
<1>3. CASE UNCHANGED vars
  BY <1>2, <1>3 DEF vars, below
<1>4. CASE CallRequest \/ CallClose
  BY <1>2, <1>4 DEF CallRequest, CallClose, below
<1>5. ASSUME NEW t \in Timer, Expire(t) PROVE Calm
  BY <1>2, <1>5 DEF Expire
<1>6. ASSUME NEW f \in Factory, Execute(f) PROVE Calm
  <2>1. CASE EndClose(f)
    BY <1>1, <2>1 DEF EndClose, Calm
  <2>2. CASE StartClose(f) \/ StartTimeout(f)
    BY <1>1, <2>2 DEF StartClose, StartTimeout, Closing, Calm
  <2> QED
    BY <1>2, <1>6, <2>1, <2>2 DEF Execute, Recall, Recalled, StartRequest,
       Succeed, Fail, below
<1> QED
  BY <1>3, <1>4, <1>5, <1>6 DEF Next

CalmInv == TypeOK /\ Owned /\ (Calm => Good)
CalmStep == [S!Next]_(S!vars)

LEMMA CalmInit == Init => CalmInv /\ S!Init
<1> SUFFICES ASSUME Init PROVE CalmInv /\ S!Init
  OBVIOUS
<1>1. IInv /\ T!Init
  BY GoodInit
<1>2. Calm
  BY DEF Init, Calm
<1> QED
  BY <1>1, <1>2 DEF IInv, CalmInv, S!Init, T!Init

LEMMA CalmNext == CalmInv /\ [Next]_vars => CalmInv' /\ CalmStep
<1> SUFFICES ASSUME CalmInv, [Next]_vars PROVE CalmInv' /\ CalmStep
  OBVIOUS
<1>1. TypeOK' /\ Owned'
  BY TypeNext DEF CalmInv
<1>2. CASE Calm'
  <2>1. Calm /\ IInv
    BY <1>2, CalmBefore DEF CalmInv, IInv
  <2>2. Good' /\ SerialStep
    BY <1>2, <2>1, GoodNext
  <2>3. /\ (IF Calm THEN ChainCall ELSE "none") = ChainCall
        /\ (IF Calm THEN ChainCall ELSE "none")' = ChainCall'
    BY <1>2, <2>1
  <2>4. /\ (Calm /\ Established) = Established
        /\ (Calm /\ Established)' = Established'
    BY <1>2, <2>1, Zenon DEF Established
  <2>5. ASSUME UNCHANGED <<ChainCall, Established>> PROVE CalmStep
    BY <2>3, <2>4, <2>5, Zenon DEF CalmStep, S!vars
  <2>6. ASSUME T!Next PROVE CalmStep
    BY <2>3, <2>4, <2>6 DEF CalmStep, S!Next, T!Next, S!Request, T!Request,
       S!Succeed, T!Succeed, S!Fail, T!Fail, S!Done, T!Done, S!Close, T!Close,
       S!Closed, T!Closed, S!Drop, T!Drop, S!Restart, T!Restart, S!Begin, T!Begin
  <2> QED
    BY <1>1, <2>2, <2>5, <2>6 DEF CalmInv, SerialStep, T!vars
<1>3. CASE ~Calm'
  BY <1>1, <1>3 DEF CalmInv, CalmStep, S!Next, S!Restart
<1> QED
  BY <1>2, <1>3

LEMMA InvExclusive == CalmInv => Exclusive /\ MetaKept
BY DEF CalmInv, Good, ChainInv, Exclusive, Alone, MetaKept

LEMMA InvExpired == CalmInv => ExpiredStep
<1> SUFFICES ASSUME CalmInv, NEW f \in Factory, Calm, StartTimeout(f),
                    ~Skipped(f, Head(queue[f]).n)
             PROVE  current = f /\ token[f] = Head(queue[f]).n
  BY DEF ExpiredStep
<1>1. IInv
  BY DEF CalmInv, IInv
<1> QED
  BY <1>1, TimeoutIsCurrent DEF StartTimeout

\* begin/doc.go:28, "Only one event is processed for a Connection.Id at a
\* time": by LoadOrStore, the check of the map in each job, and the timer
\* that every success replaces, with any number of calls and factories,
\* until a Close is refused or late.
THEOREM ExclusiveTheorem == Spec => []Exclusive
BY CalmInit, CalmNext, InvExclusive, PTL DEF Spec

\* As long, metadata has the id's object, when nothing runs, exactly while
\* begin has the connection established.
THEOREM MetaKeptTheorem == Spec => []MetaKept
BY CalmInit, CalmNext, InvExclusive, PTL DEF Spec

\* begin implements, for the elements below it, the abstract Serial: the
\* module that XConnect implements from its side (SerialProofs).
THEOREM BeginImplementsSerial == Spec => Serialised
BY CalmInit, CalmNext, PTL DEF Spec, Serialised, S!Spec, CalmStep

\* No timer closes a connection other than the one it was set for, though
\* eventFactoryServer.Close looks neither at the map nor at the state.
THEOREM OnlyExpiredTheorem == Spec => OnlyExpired
BY CalmInit, CalmNext, InvExpired, PTL DEF Spec, OnlyExpired, ExpiredStep

=============================================================================
