--------------------------- MODULE MCWalletSteps ---------------------------
(***************************************************************************)
(* WalletSteps on small instances.                                         *)
(***************************************************************************)
EXTENDS WalletSteps, TLC

Symmetry == Permutations(Wallets) \cup Permutations(Steps)

(* What no guard and no property reads: which wallets are unlocked and     *)
(* shown so, and the error line.                                           *)
Stepping ==
    <<step, stepWallet, losses, unlock, polling, reading, ended,
      [i \in DOMAIN stack |-> [stack[i] EXCEPT !.list = {}]]>>
=============================================================================
