---------------------------- MODULE MCApprovals ----------------------------
(***************************************************************************)
(* Approvals on small instances.                                           *)
(***************************************************************************)
EXTENDS Approvals, TLC

Symmetry == Permutations(Handles) \cup Permutations(Signers)

(* All that decides what the error line will be: the lines, the reading    *)
(* and the queue on screen, the status line, the confirmation and the      *)
(* histories are written and never looked at, so states that differ there  *)
(* only are taken for one.                                                 *)
ErrorLine ==
    <<rec, presence, signerOf, explicit, inbox, losses, moves, screen.handle, screen.bundle, screen.signer,
      screen.signing, screen.armed, dwelling, inFlight, posted, lastError, hold,
      [i \in DOMAIN stack |-> [stack[i] EXCEPT !.held = FALSE]]>>
=============================================================================
