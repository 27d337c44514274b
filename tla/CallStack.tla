----------------------------- MODULE CallStack -----------------------------
(***************************************************************************)
(* The backend's one thread.  A call to another module is synchronous and  *)
(* runs the event loop while it waits: the code's own guard m_inFlight     *)
(* exists because a timer fires behind a call still in flight, and         *)
(* approve() reckons with a refresh() blocked beneath it.  So the thread   *)
(* is a stack of blocked calls: a handler that starts while others are     *)
(* blocked runs on top of them, and only the call on top may return.       *)
(*                                                                         *)
(* A frame of the stack is a record whose field call names the call.       *)
(***************************************************************************)
EXTENDS Naturals, Sequences

CONSTANTS
    MaxDepth,       \* bound: how deep calls may nest
    MaxLosses       \* bound: how many calls may be lost

ASSUME DepthAssumption == MaxDepth \in Nat \ {0}
ASSUME LossesAssumption == MaxLosses \in Nat

VARIABLES
    stack,          \* the blocked calls, the innermost first
    losses          \* how many calls were lost

Push(f, s) == <<f>> \o s

(* Another handler may start: the thread is in an event loop, at the       *)
(* bottom or inside a blocked call.                                        *)
MayEnter == Len(stack) < MaxDepth

Returning(call) == stack # <<>> /\ Head(stack).call = call

Top == Head(stack)
Below == Tail(stack)

(* The answer the backend gets: the other module's, or nothing because the *)
(* call or its reply was lost.                                             *)
Heard(answer, got) ==
    \/ got = answer /\ UNCHANGED losses
    \/ got = "lost" /\ losses < MaxLosses /\ losses' = losses + 1

(* The call never arrives. *)
NotSent(got) ==
    /\ got = "lost"
    /\ losses < MaxLosses
    /\ losses' = losses + 1
=============================================================================
