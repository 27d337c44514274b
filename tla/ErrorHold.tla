----------------------------- MODULE ErrorHold -----------------------------
(***************************************************************************)
(* sheet::ErrorHold (src/sheet_lines.h, src/sheet_lines.cpp): which of the *)
(* errors shown under the sheet the queue poll, or a change of signer, may *)
(* clear.  The sheet has one line for errors, lastError, and many writers; *)
(* the hold remembers the text the poll itself wrote and the text of a     *)
(* refused signer, and decides from them whether what is shown may go.     *)
(*                                                                         *)
(* A hold is a record: poll and refused are the remembered texts, signer   *)
(* the one that was chosen when it was refused, absent whether that signer *)
(* was away then.  The operators are pure; each takes the hold before the  *)
(* call and returns the hold after it, or what the call answers.           *)
(***************************************************************************)
(* A signer the manager lists as absent, or does not list at all (""). *)
Away(presence) == presence \in {"", "absent"}

Holds(texts, signers) == [poll : texts, refused : texts, signer : signers, absent : BOOLEAN]

HoldNothing(none) == [poll |-> "", refused |-> "", signer |-> none, absent |-> FALSE]

(* The queue poll failed and wrote text. *)
PollFailed(hold, text) == [hold EXCEPT !.poll = text]

(* Fault: the signer and its presence, both strings in the code, swapped. *)
SignerRefusedSwapped(hold, text, chosen, presence) ==
    [hold EXCEPT !.refused = text, !.signer = presence, !.absent = Away(chosen)]

(* The manager refused the chosen signer, and text says why. *)
SignerRefused(hold, text, chosen, presence) ==
    [hold EXCEPT !.refused = text, !.signer = chosen, !.absent = Away(presence)]

(* The queue was read: may the poll clear what is shown, and the hold after. *)
PollClears(hold, shown) == hold.poll # "" /\ shown = hold.poll

PollRead(hold) == [hold EXCEPT !.poll = ""]

(* The signers were read: the refusal goes once another signer is chosen   *)
(* or the refused one, away then, is back; a refusal something else has    *)
(* overwritten is forgotten.                                               *)
Refusing(hold, shown) == hold.refused # "" /\ shown = hold.refused

CameBack(hold, presence) == hold.absent /\ ~Away(presence)

SignersClear(hold, shown, chosen, presence) ==
    /\ Refusing(hold, shown)
    /\ chosen # hold.signer \/ CameBack(hold, presence)

(* Fault: any reading of the signers forgets the refusal. *)
SignersReadForgetting(hold, shown, chosen, presence) == [hold EXCEPT !.refused = ""]

SignersRead(hold, shown, chosen, presence) ==
    IF Refusing(hold, shown) /\ ~SignersClear(hold, shown, chosen, presence)
    THEN hold
    ELSE [hold EXCEPT !.refused = ""]
=============================================================================
