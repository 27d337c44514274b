-------------------------- MODULE ApprovalContract --------------------------
(***************************************************************************)
(* What the signer UI promises the person who reads a request: an approval *)
(* leaves it only for the request on screen, while that request's own      *)
(* lines are on screen, and not before Approve has armed for it.           *)
(***************************************************************************)
CONSTANTS Handles, NoHandle

VARIABLES
    handle,         \* the request the sheet is for
    lines,          \* the request whose lines it shows
    armed,          \* Approve is armed
    authorised      \* the requests the manager was made to approve

vars == <<handle, lines, armed, authorised>>

Init ==
    /\ handle = NoHandle
    /\ lines = NoHandle
    /\ armed = FALSE
    /\ authorised = {}

(* The sheet changes: a request that was not on it comes unarmed, and a    *)
(* blank sheet is not armed.                                               *)
Turn ==
    /\ handle' \in Handles \cup {NoHandle}
    /\ lines' \in Handles \cup {NoHandle}
    /\ armed' \in BOOLEAN
    /\ armed' => handle' = handle /\ handle # NoHandle
    /\ UNCHANGED authorised

Authorise ==
    /\ armed
    /\ handle \in Handles
    /\ lines = handle
    /\ authorised' = authorised \cup {handle}
    /\ UNCHANGED <<handle, lines, armed>>

Next == Turn \/ Authorise

Spec == Init /\ [][Next]_vars
=============================================================================
