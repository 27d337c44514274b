------------------------- MODULE MCApprovalsHistory -------------------------
(***************************************************************************)
(* ApprovalsHistory on small instances.                                    *)
(***************************************************************************)
EXTENDS ApprovalsHistory, TLC

Symmetry == Permutations(Handles) \cup Permutations(Signers)

(* All but the status and error lines, the hold that clears the one and    *)
(* the confirmation that keeps the other: they decide lines of text only.  *)
Control ==
    <<rec, presence, signerOf, explicit, inbox, authorised, losses, moves, screen, dwelling, inFlight, posted,
      pending, confirmed, histories, [i \in DOMAIN stack |-> [stack[i] EXCEPT !.held = FALSE]]>>
=============================================================================
