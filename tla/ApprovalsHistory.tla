-------------------------- MODULE ApprovalsHistory --------------------------
(***************************************************************************)
(* Approvals with what its blocked calls did to one another remembered.    *)
(* Two things the backend promises can be undone by a handler that runs    *)
(* behind a blocked call, and are put right by later ones; the histories   *)
(* say when, and they constrain nothing.                                   *)
(***************************************************************************)
EXTENDS Approvals

VARIABLES
    crossed,        \* history: of the claims under way, one has run behind
                    \* another
    alone,          \* history: what is on screen was put there by a claim
                    \* that none crossed
    overtaken       \* history: the requests signed while the queue was being
                    \* read, and listed by each reading since

histories == <<crossed, alone, overtaken>>

-----------------------------------------------------------------------------
(* The histories *)

(* A claim is acknowledge(), called by refresh() or as a slot, from its    *)
(* call to the manager to where interpret() has its reading.               *)
Claiming(s) == {i \in DOMAIN s : s[i].call \in {"acknowledge", "interpret"}}

ReadingQueue(s) == \E i \in DOMAIN s : s[i].call = "pending"

(* What every step does to them: where a claim or a reading of the queue   *)
(* returns, or an approval is answered as signed, is in the step itself.   *)
Remember ==
    /\ crossed' = \/ \E i, j \in Claiming(stack') : i # j
                  \/ crossed /\ Claiming(stack') # {}
    /\ alone' = IF ShowRequest THEN ~crossed ELSE alone
    /\ overtaken' = CASE ApprovalSigned /\ ReadingQueue(Below) -> overtaken \cup {Top.handle}
                      [] PendingRead -> overtaken \cap Top.list
                      [] OTHER -> overtaken

HistoryInit ==
    /\ Init
    /\ crossed = FALSE
    /\ alone = TRUE
    /\ overtaken = {}

HistorySpec == HistoryInit /\ [][Next /\ Remember]_<<vars, histories>>

-----------------------------------------------------------------------------
(* Correctness *)

(* With no claim under way, a live request on screen is the one the        *)
(* manager has Rendered, or has a device signing, so that what the person  *)
(* reads is what an approval would be bound to: whatever was refused, lost,*)
(* demoted or dismissed meanwhile.  Claims that cross return innermost     *)
(* first and may leave on screen what the manager has demoted; the next    *)
(* claim by itself puts that right.                                        *)
ScreenIsClaimed ==
    (Claiming(stack) = {} /\ screen.handle # NoHandle /\ alone)
        => rec[screen.handle] \in {"rendered", "signing", "ended"}

(* Once the person was told that a request is signed, it is not shown as   *)
(* waiting, though every reading of the queue since may have failed, but   *)
(* by the one refresh() that was blocked beneath approve() and writes back *)
(* what it read before: the reading after that takes it off for good.      *)
ApprovedStaysOffTheQueue == confirmed \cap pending \subseteq overtaken
=============================================================================
