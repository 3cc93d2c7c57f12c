------------------------------ MODULE Lifecycle ------------------------------
(***************************************************************************)
(* How the calls for one connection id reach the chain: begin with its map *)
(* of event factories and their executors, the metadata of the id, and the *)
(* timer that closes what is not refreshed.                                *)
(*                                                                         *)
(*   begin > updatetoken > authorize > metadata > timeout > ... xconnect   *)
(*                                                                         *)
(* Several calls may be under way: a caller whose context ends calls again *)
(* while its first call still runs.  What is below timeout is one step     *)
(* here, that a Serial call of XConnect details.                           *)
(***************************************************************************)
EXTENDS Naturals, Sequences

CONSTANTS
  MaxCalls,    \* bound: calls received
  MaxFactory,  \* bound: event factories made
  Strict,      \* authorize refuses expired tokens: its default policies do
  MaxLate      \* bound: Closes that end with the caller's context

ASSUME LifecycleOK ==
  /\ MaxCalls \in Nat /\ MaxFactory \in Nat /\ MaxLate \in Nat
  /\ Strict \in BOOLEAN

None == 0
Factory == 1..MaxFactory
Timer == 1..MaxCalls          \* the tokens of callers, by their timers
Object == 1..(MaxFactory + 1) \* metadata objects, used again when dropped

VARIABLES
  calls,    \* calls received
  current,  \* begin's map: the factory under the id
  state,    \* eventFactoryServer.state; "free": not made yet
  token,    \* eventFactoryServer.request: the token it came with
  queue,    \* its executor's jobs
  run,      \* what its executor runs
  timer,    \* the timers
  owner,    \* the factory that a timer closes
  meta,     \* metadata's map: the object under the id
  cancel,   \* timeout's entry of a metadata object
  path,     \* the connection has interfaces on the node
  stored,   \* metadata objects with the dstMech to delete them by
  late,
  refused   \* ghost: authorize has refused a Close

begin == <<calls, current, state, token, queue, run>>
below == <<timer, owner, meta, cancel, path, stored, late, refused>>
vars == <<begin, below>>

Job(kind, n) == [kind |-> kind, n |-> n]
At(pc, n, o, new) == [pc |-> pc, n |-> n, md |-> o, new |-> new]
Idle == At("idle", 0, None, FALSE)

Init ==
  /\ calls = 0 /\ current = None
  /\ state = [f \in Factory |-> "free"]
  /\ token = [f \in Factory |-> None]
  /\ queue = [f \in Factory |-> <<>>]
  /\ run = [f \in Factory |-> Idle]
  /\ timer = [t \in Timer |-> "none"]
  /\ owner = [t \in Timer |-> None]
  /\ meta = None
  /\ cancel = [o \in Object |-> None]
  /\ path = FALSE /\ stored = {}
  /\ late = 0 /\ refused = FALSE

Least(x, S) == x \in S /\ \A y \in S : x <= y

-----------------------------------------------------------------------------
(* Calls and timers: what makes a job *)

\* LoadOrStore, and the job in the executor's queue.  A factory that leaves
\* the map between the two makes no difference to the job.
Submit(q, j) ==
  \/ /\ current # None
     /\ queue' = [q EXCEPT ![current] = Append(@, j)]
     /\ UNCHANGED <<current, state>>
  \/ /\ current = None
     /\ \E f \in Factory :
          /\ Least(f, {g \in Factory : state[g] = "free"})
          /\ current' = f
          /\ state' = [state EXCEPT ![f] = "new"]
          /\ queue' = [q EXCEPT ![f] = <<j>>]

CallRequest ==
  /\ calls < MaxCalls /\ calls' = calls + 1
  /\ Submit(queue, Job("request", calls + 1))
  /\ UNCHANGED <<token, run, below>>

\* Without a factory, begin lets a Close be
CallClose ==
  /\ calls < MaxCalls /\ calls' = calls + 1
  /\ current # None
  /\ Submit(queue, Job("close", calls + 1))
  /\ UNCHANGED <<token, run, below>>

\* A token expires, and timeout calls Close of the factory it has kept
Expire(t) ==
  /\ timer[t] = "armed"
  /\ timer' = [timer EXCEPT ![t] = "fired"]
  /\ queue' = [queue EXCEPT ![owner[t]] = Append(@, Job("timeout", t))]
  /\ UNCHANGED <<calls, current, state, token, run,
                 owner, meta, cancel, path, stored, late, refused>>

-----------------------------------------------------------------------------
(* The executor of a factory *)

Ready(f, kind) ==
  run[f].pc = "idle" /\ queue[f] # <<>> /\ Head(queue[f]).kind = kind
Popped(f) == [queue EXCEPT ![f] = Tail(@)]
Running(f, r) == run' = [run EXCEPT ![f] = r]

\* The factory is not the one under the id any more: the request begins
\* again, and the executor waits for it
Recall(f) ==
  /\ Ready(f, "request") /\ current # f
  /\ Submit(Popped(f), Head(queue[f]))
  /\ Running(f, At("waiting", Head(queue[f]).n, None, FALSE))
  /\ UNCHANGED <<calls, token, below>>

\* The request has ended, wherever it got to; executors that wait for each
\* other's go on together
Recalled(f) ==
  /\ run[f].pc = "waiting"
  /\ \A g \in Factory \ {f} :
       /\ run[g].n # run[f].n \/ run[g].pc = "waiting"
       /\ \A i \in DOMAIN queue[g] : queue[g][i] # Job("request", run[f].n)
  /\ Running(f, Idle)
  /\ UNCHANGED <<calls, current, state, token, queue, below>>

InUse == {meta} \cup {run[f].md : f \in Factory}

\* As far as metadata, which finds or makes the id's object
StartRequest(f) ==
  LET n == Head(queue[f]).n
      running(o, new) == Running(f, At("request", n, o, new))
  IN
  /\ Ready(f, "request") /\ current = f
  /\ queue' = Popped(f)
  /\ \/ /\ meta # None /\ running(meta, FALSE)
        /\ UNCHANGED <<meta, cancel, stored>>
     \/ /\ meta = None
        /\ \E o \in Object :
             /\ Least(o, Object \ InUse)
             /\ running(o, TRUE) /\ meta' = o
             /\ cancel' = [cancel EXCEPT ![o] = None]
             /\ stored' = stored \ {o}
  /\ UNCHANGED <<calls, current, state, token, timer, owner, path, late, refused>>

\* timeout, on the way up: the new timer is set in place of the old one
Beside(o, t) == [timer EXCEPT ![t] = "armed"]  \* mutant: both are on
CancelLast(o, t) ==                      \* mutant: it is stored, then cancelled
  [timer EXCEPT ![t] = "cancelled"]
Removed(o, t) ==                         \* mutant: the old one is forgotten
  [u \in Timer \ {cancel[o]} |-> IF u = t THEN "armed" ELSE timer[u]]
InPlaceOf(o, t) ==
  [u \in Timer |->
     IF u = t THEN "armed"
     ELSE IF u = cancel[o] THEN "cancelled" ELSE timer[u]]

Succeed(f) ==
  /\ run[f].pc = "request"
  /\ \E t \in Timer :
       /\ Least(t, {u \in Timer : timer[u] = "none"})
       /\ timer' = InPlaceOf(run[f].md, t)
       /\ owner' = [owner EXCEPT ![t] = f]
       /\ cancel' = [cancel EXCEPT ![run[f].md] = t]
       /\ token' = [token EXCEPT ![f] = t]
  /\ path' = TRUE /\ stored' = stored \cup {run[f].md}
  /\ state' = [state EXCEPT ![f] = "established"]
  /\ Running(f, Idle)
  /\ UNCHANGED <<calls, current, queue, meta, late, refused>>

\* xconnect deletes the interfaces of an object
Deleted(o) ==
  o \in stored /\ stored' = stored \ {o} /\ path' = FALSE

\* metadata forgets what the request has made, begin what it has not
\* established
Dropped(f) == None                       \* mutant: what is established, too
Kept(f) == IF run[f].new THEN None ELSE meta

\* xconnect keeps the interfaces, or deletes them, or has made them again;
\* XConnect says when it leaves one that it should have deleted
Fail(f) ==
  /\ run[f].pc = "request"
  /\ \/ UNCHANGED <<path, stored>>
     \/ Deleted(run[f].md)
     \/ ~run[f].new /\ path' = TRUE /\ stored' = stored \cup {run[f].md}
  /\ meta' = Kept(f)
  /\ IF state[f] = "established" THEN UNCHANGED <<current, state>>
     ELSE state' = [state EXCEPT ![f] = "closed"] /\ current' = None
  /\ Running(f, Idle)
  /\ UNCHANGED <<calls, token, queue, timer, owner, cancel, late, refused>>

\* afterCloseFunc: the id's entry goes, whichever factory it holds
AfterClose(f) ==
  state' = [state EXCEPT ![f] = "closed"] /\ current' = None

\* A Close goes as far as authorize, or as metadata, which drops the object
Closing(f) ==
  IF Strict /\ timer[token[f]] = "fired"
  THEN AfterClose(f) /\ refused' = TRUE /\ UNCHANGED <<run, meta>>
  ELSE /\ Running(f, At("close", 0, meta, FALSE))
       /\ meta' = None
       /\ UNCHANGED <<current, state, refused>>

StartClose(f) ==
  /\ Ready(f, "close")
  /\ queue' = Popped(f)
  /\ IF state[f] = "established" /\ current = f
     THEN Closing(f)
     ELSE UNCHANGED <<current, state, run, meta, refused>>
  /\ UNCHANGED <<calls, token, timer, owner, cancel, path, stored, late>>

\* The factory's own Close: it looks at the timer only
Whatever(f, t) == FALSE                  \* mutant: not even at that
Skipped(f, t) == token[f] = None \/ timer[t] = "cancelled"

StartTimeout(f) ==
  /\ Ready(f, "timeout")
  /\ queue' = Popped(f)
  /\ IF Skipped(f, Head(queue[f]).n)
     THEN UNCHANGED <<current, state, run, meta, refused>>
     ELSE Closing(f)
  /\ UNCHANGED <<calls, token, timer, owner, cancel, path, stored, late>>

\* xconnect has deleted the interfaces, if the object has their dstMech: a
\* Close that found no object in the map came with an empty one.  timeout
\* cancels its timer unless what is below was late
EndClose(f) ==
  /\ run[f].pc = "close"
  /\ Deleted(run[f].md) \/ (run[f].md \notin stored /\ UNCHANGED <<path, stored>>)
  /\ \/ /\ timer' = [t \in Timer |-> IF run[f].md # None /\ t = cancel[run[f].md]
                                     THEN "cancelled" ELSE timer[t]]
        /\ UNCHANGED late
     \/ late < MaxLate /\ late' = late + 1 /\ UNCHANGED timer
  /\ AfterClose(f)
  /\ Running(f, Idle)
  /\ UNCHANGED <<calls, token, queue, owner, meta, cancel, refused>>

Execute(f) ==
  \/ Recall(f) \/ Recalled(f)
  \/ StartRequest(f) \/ Succeed(f) \/ Fail(f)
  \/ StartClose(f) \/ StartTimeout(f) \/ EndClose(f)

Next ==
  \/ CallRequest \/ CallClose
  \/ \E t \in Timer : Expire(t)
  \/ \E f \in Factory : Execute(f)

Spec == Init /\ [][Next]_vars

\* Executors go on, and time does; nobody has to call
FairSpec ==
  /\ Spec
  /\ \A f \in Factory : WF_vars(Execute(f))
  /\ \A t \in Timer : WF_vars(Expire(t))

-----------------------------------------------------------------------------
(* Properties *)

JobType == [kind : {"request", "close", "timeout"}, n : 1..MaxCalls]
RunType == [pc : {"idle", "waiting", "request", "close"}, n : 0..MaxCalls,
            md : Object \cup {None}, new : BOOLEAN]

\* Every variable keeps to its values.
TypeOK ==
  /\ calls \in 0..MaxCalls
  /\ current \in Factory \cup {None}
  /\ state \in [Factory -> {"free", "new", "established", "closed"}]
  /\ token \in [Factory -> Timer \cup {None}]
  /\ queue \in [Factory -> Seq(JobType)]
  /\ run \in [Factory -> RunType]
  /\ timer \in [Timer -> {"none", "armed", "fired", "cancelled"}]
  /\ owner \in [Timer -> Factory \cup {None}]
  /\ meta \in Object \cup {None}
  /\ cancel \in [Object -> Timer \cup {None}]
  /\ path \in BOOLEAN /\ stored \subseteq Object
  /\ late \in 0..MaxLate /\ refused \in BOOLEAN

InChain(f) == run[f].pc \in {"request", "close"}
Established == current # None /\ state[current] = "established"

\* Every Close that begin has started went through authorize, and ended
\* before its caller's context did
Calm == ~refused /\ late = 0

\* begin/doc.go:28, "Only one event is processed for a Connection.Id at a
\* time", whatever factories have come and gone; until a Close is refused or
\* late, after which a timer may close a factory of its own.
Alone == \A f, g \in Factory : InChain(f) /\ InChain(g) => f = g
Exclusive == Calm => Alone

\* metadata's Request and Close: at rest the id has an object, which the
\* Close of its interfaces will need, exactly while it is established.
Matched == (\A f \in Factory : ~InChain(f)) => (meta # None <=> Established)
MetaKept == Calm => Matched

\* timeout/server.go:44, "implements timeout of expired connections": the
\* Close of a timer is that of the connection it was set for, and not of one
\* that has been refreshed, or closed and made again, since.
OnlyExpired ==
  [][\A f \in Factory :
       Calm /\ StartTimeout(f) /\ ~Skipped(f, Head(queue[f]).n)
         => current = f /\ token[f] = Head(queue[f]).n]_vars

\* What begin promises to the elements below it, xconnect among them, until
\* a Close is refused or late: the promise ends there.
ChainCall ==
  IF \E f \in Factory : run[f].pc = "request" THEN "request"
  ELSE IF \E f \in Factory : run[f].pc = "close" THEN "close" ELSE "none"
S == INSTANCE Serial WITH call <- IF Calm THEN ChainCall ELSE "none",
                          est <- Calm /\ Established
Serialised == S!Spec

\* timeout's Request, event_factory's Close: what nobody refreshes any more
\* is closed, and its interfaces are deleted; unless a Close was late.  (The
\* calls are bounded, so every client stops at some time.)  After a late Close
\* the old timer may close what has been made since, a failing request may
\* drop the metadata of another, and then no Close finds a dstMech.
Reclaimed == path ~> (~path \/ late > 0)

=============================================================================
