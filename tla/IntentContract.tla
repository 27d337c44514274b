--------------------------- MODULE IntentContract ---------------------------
(***************************************************************************)
(* What the signer UI promises the shell about an intent it is handed:     *)
(* it answers it once, and says ok only of an ask that has been met.       *)
(***************************************************************************)
CONSTANT Intents

VARIABLES
    standing,       \* where each intent stands
    met             \* the intents whose ask has been met

vars == <<standing, met>>

Ends == {"ok", "cancelled", "bad_request"}
Standings == {"unasked", "waiting"} \cup Ends

Init ==
    /\ standing = [i \in Intents |-> "unasked"]
    /\ met = {}

(* An intent may be answered where it is asked, and one may be answered    *)
(* because another is asked.                                               *)
Next ==
    /\ standing' \in [Intents -> Standings]
    /\ met \subseteq met' /\ met' \subseteq Intents
    /\ \A i \in Intents : standing'[i] # standing[i] =>
          /\ standing[i] \notin Ends
          /\ standing'[i] # "unasked"
          /\ standing'[i] = "ok" => i \in met'

Spec == Init /\ [][Next]_vars
=============================================================================
