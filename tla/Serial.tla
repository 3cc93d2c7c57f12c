------------------------------- MODULE Serial -------------------------------
(***************************************************************************)
(* What the elements below begin may rely on, for one connection id: the   *)
(* promise of sdk/pkg/networkservice/common/begin (doc.go: Exclusivity,    *)
(* Close Correctness) to the rest of the chain.                            *)
(*                                                                         *)
(* XConnect relies on it (XConnect!Serialised); Lifecycle, which models    *)
(* begin itself, provides it (Lifecycle!Serialised).                       *)
(***************************************************************************)

VARIABLES
  call,  \* what runs in the chain below: "none", "request" or "close"
  est    \* a request has succeeded since the last Close

vars == <<call, est>>

Init == call = "none" /\ est = FALSE

\* One call at a time
Begin(kind) == call = "none" /\ call' = kind /\ UNCHANGED est
Request == Begin("request")
Done == call = "request" /\ call' = "none"
Succeed == Done /\ est' = TRUE
Fail == Done /\ UNCHANGED est

\* A Close runs only for an established connection, which ends with it
Close == est /\ Begin("close")
Closed == call = "close" /\ call' = "none" /\ est' = FALSE

\* The connection ends and nothing below sees a Close: an element above
\* refused it, or it was given up after a failed request
Drop == call = "none" /\ est' = FALSE /\ UNCHANGED call

\* The process stops
Restart == call' = "none" /\ est' = FALSE

Next == Request \/ Succeed \/ Fail \/ Close \/ Closed \/ Drop \/ Restart

Spec == Init /\ [][Next]_vars

=============================================================================
