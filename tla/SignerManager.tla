--------------------------- MODULE SignerManager ---------------------------
(***************************************************************************)
(* The signer manager as the signer UI sees it: an external module, known  *)
(* only from how src/evm_signer_ui_backend.cpp calls it and from the       *)
(* events it subscribes to.  It keeps one record per signing request, at   *)
(* most one of them Rendered; it answers the backend's calls; and it tells *)
(* the backend what happened through a FIFO of events.                     *)
(*                                                                         *)
(* A call is processed when it is issued.  What the backend has not heard  *)
(* yet waits in the inbox, so a request that ends before the manager gets  *)
(* to a call, and one that ended before the call was made, look the same.  *)
(* A call may be lost: either the manager never sees it, or it does and    *)
(* the answer never arrives.  Both reach the backend as a failed reply.    *)
(***************************************************************************)
EXTENDS CallStack

CONSTANTS
    Handles,        \* the requests' handles
    NoHandle,       \* the empty handle
    Signers,        \* the signer modules that hold the account
    NoSigner,       \* no signer
    MaxMoves        \* bound: how many times a signer is plugged in or out

ASSUME HandlesAssumption == NoHandle \notin Handles
ASSUME MovesAssumption == MaxMoves \in Nat

VARIABLES
    rec,            \* the manager's record of each request
    signerOf,       \* the signer each request would be signed with
    explicit,       \* the requests whose signer the person chose
    presence,       \* what the manager's list says of each signer
    inbox,          \* events sent to the backend and not yet delivered
    authorised,     \* history: the requests approved through this backend
    moves           \* how many times a signer came or went

mvars == <<rec, signerOf, explicit, presence, inbox, authorised, losses, moves>>

Live == {"offered", "rendered", "signing"}
RecordStates == {"unknown", "ended"} \cup Live

Events == [kind : {"settled", "accounts"}, handle : Handles \cup {NoHandle}]

(* A call's answer.  approve says that a device is signing, that the       *)
(* request is signed, that the signer is the trouble (its codes            *)
(* signer_changed and unavailable), or that it is refused.                 *)
Answers == {"ok", "refused", "signing", "signed", "signer", "lost"}

(* What the manager's list says of a signer; "" when it is not listed. *)
Presences == {"", "absent", "present"}

ManagerTypeOK ==
    /\ rec \in [Handles -> RecordStates]
    /\ signerOf \in [Handles -> Signers]
    /\ explicit \subseteq Handles
    /\ presence \in [Signers -> Presences]
    /\ inbox \in Seq(Events)
    /\ authorised \subseteq Handles
    /\ losses \in 0 .. MaxLosses
    /\ moves \in 0 .. MaxMoves

ManagerInit ==
    /\ rec = [h \in Handles |-> "unknown"]
    /\ signerOf \in [Handles -> Signers]
    /\ explicit = {}
    /\ presence = [s \in Signers |-> "present"]
    /\ inbox = <<>>
    /\ authorised = {}
    /\ losses = 0
    /\ moves = 0

(* What pending() lists: every request that has not ended. *)
Pending == {h \in Handles : rec[h] \in Live}

Event(kind, h) == [kind |-> kind, handle |-> h]

-----------------------------------------------------------------------------
(* What happens at the manager by itself. *)

(* A requester offers a request.  Its event only has the backend poll      *)
(* sooner than its timer would, so none is kept.                           *)
Offer(h) ==
    /\ rec[h] = "unknown"
    /\ rec' = [rec EXCEPT ![h] = "offered"]
    /\ UNCHANGED <<signerOf, explicit, presence, inbox, authorised, losses, moves>>

(* A request ends without this backend: its offer runs out unclaimed, its  *)
(* requester withdraws it, another surface settles it, or the device that  *)
(* was signing answers.                                                    *)
End(h) ==
    /\ rec[h] \in Live
    /\ rec' = [rec EXCEPT ![h] = "ended"]
    /\ inbox' = Append(inbox, Event("settled", h))
    /\ UNCHANGED <<signerOf, explicit, presence, authorised, losses, moves>>

(* A signer comes, goes, or stops being listed; the default moves with it  *)
(* for the requests whose signer nobody chose.                             *)
SignerMoves(s) ==
    /\ moves < MaxMoves
    /\ moves' = moves + 1
    /\ \E p \in Presences \ {presence[s]} : presence' = [presence EXCEPT ![s] = p]
    /\ \E default \in Signers :
          signerOf' = [h \in Handles |-> IF h \in explicit THEN signerOf[h] ELSE default]
    /\ inbox' = Append(inbox, Event("accounts", NoHandle))
    /\ UNCHANGED <<rec, explicit, authorised, losses>>

-----------------------------------------------------------------------------
(* What the calls do there.  Each holds for the answers it can give.       *)

Untouched == UNCHANGED <<rec, signerOf, explicit, presence, inbox, authorised, moves>>

(* Claim h for display: the one that was Rendered is Offered again.  What  *)
(* the manager says of a request a device is signing is left open.         *)
Acknowledge(h, answer) ==
    \/ /\ rec[h] \in Live
       /\ answer = "ok"
       /\ rec' = [x \in Handles |->
                    CASE x = h /\ rec[x] # "signing" -> "rendered"
                      [] x # h /\ rec[x] = "rendered" -> "offered"
                      [] OTHER -> rec[x]]
       /\ UNCHANGED <<signerOf, explicit, presence, inbox, authorised, moves>>
    \/ /\ rec[h] \notin Live \/ rec[h] = "signing"
       /\ answer = "refused"
       /\ Untouched

(* Approve what is Rendered, under the bundle the person was shown.  A     *)
(* device signs in its own time; any other signer settles it at once.      *)
Approve(h, bundle, answer) ==
    \/ /\ rec[h] = "rendered"
       /\ bundle = h
       /\ authorised' = authorised \cup {h}
       /\ \/ /\ answer = "signing"
             /\ rec' = [rec EXCEPT ![h] = "signing"]
             /\ UNCHANGED inbox
          \/ /\ answer = "signed"
             /\ rec' = [rec EXCEPT ![h] = "ended"]
             /\ inbox' = Append(inbox, Event("settled", h))
       /\ UNCHANGED <<signerOf, explicit, presence, moves>>
    \/ /\ answer \in {"signer", "refused"}
       /\ Untouched

Reject(h, answer) ==
    \/ /\ rec[h] \in Live
       /\ answer = "ok"
       /\ rec' = [rec EXCEPT ![h] = "ended"]
       /\ inbox' = Append(inbox, Event("settled", h))
       /\ UNCHANGED <<signerOf, explicit, presence, authorised, moves>>
    \/ /\ rec[h] \notin Live
       /\ answer = "refused"
       /\ Untouched

(* Sign h with s; the manager may find that s cannot take it. *)
ChooseSigner(h, bundle, s, answer) ==
    \/ /\ rec[h] = "rendered"
       /\ bundle = h
       /\ presence[s] # ""
       /\ answer = "ok"
       /\ signerOf' = [signerOf EXCEPT ![h] = s]
       /\ explicit' = explicit \cup {h}
       /\ UNCHANGED <<rec, presence, inbox, authorised, moves>>
    \/ /\ answer = "refused"
       /\ Untouched

(* Who signs h: read only. *)
ApprovalSigners(h, answer) ==
    /\ answer = IF rec[h] \in Live THEN "ok" ELSE "refused"
    /\ Untouched

Unsent(got) == NotSent(got) /\ Untouched
=============================================================================
