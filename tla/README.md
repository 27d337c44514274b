# The signer UI in TLA+

This directory is a specification of the signer UI: the Qt plugin backend
`EvmSignerUiBackend` (`src/evm_signer_ui_backend.cpp`), the helper
`sheet::ErrorHold`, the readings of a request's lines (`src/sheet_lines.cpp`),
and of the QML view in `qml/` what answers the shell. It shows requests from the *signer manager* (another repository) to
a person, collects the decision, and unlocks wallets. What could be wrong with it is not a
formula but an order of events: every call to the manager blocks, blocked calls
run the event loop, and timers, events and clicks then run behind them.

Paths below are relative to the repository.

## The system

| part | state it keeps | operations | talks to |
|---|---|---|---|
| request half of the backend | the request on screen (`rendered*`, `renderLines`, `claimLines`, `interpretationLines`, `dwellElapsed`), the queue, status and error lines, `m_inFlight`, `m_confirmUntil`, `m_dwell`, `m_errors` | `refresh`, `acknowledge`, `chooseSigner`, `approve`, `reject`, `dismiss`, the dwell, the events settled / offered / accounts changed | manager: `pending`, `acknowledge`, `choose_signer`, `approval_signers`, `approve`, `reject` |
| error hold | which text the poll wrote, which text a refused signer left | `pollFailed`, `pollRead`, `signerRefused`, `signersRead` | called by the request half |
| reading of a request | none | `interpret`, `tokenListLines`, `scaleUnits`, `bitcoinReading` | tx decoder (linked), token list module (a blocking call, at most 2 s) |
| wallet half of the backend | `walletsJson`, `rosterJson`, `opensJson`, `openJson`, `walletError`, `unlockJson`, `m_unlockPoll`, `m_walletsInFlight` | `refreshWallets`, a device step (`beginStep`, `unlockPoll`, `retryUnlock`, `cancelUnlock`, `endStep`), opens (`showOpen`, `consentOpen`, `rejectOpen`), names and passwords | manager: `wallet_settings`, `roster`, `access_requests`, `unlock_wallet`, `set_rule`, `change_keys`, `unlock_progress`, `cancel_unlock`, `*_access`, ... |
| view: intents | which intent waits for which handle; the `wallets.unlock` intent, its queue of wallets | `onIntentRequested`, `onSettled`, `onUnlockEnded`, `onOpenSettled`, the sheet's buttons | the shell (`respond`), the backend's slots and properties |
| view: rule and unlock sheets | what the person typed and chose | `apply`, `reset`, the ways in | the backend's wallet slots |
| accountkit | none (`roster.js`) | grouping and naming of accounts | fed by `rosterJson` |
| signer manager | records of requests, signers, wallets, opens | external | everything above |

What is hard here:

* **Re-entrancy.** A synchronous call runs the event loop. `m_inFlight` exists
  because the poll timer fires behind a call in flight
  (`evm_signer_ui_backend.cpp:329`), and `approve()` reckons with a `refresh()`
  blocked beneath it (`:549`). Whatever a handler read before a call may be old
  when the call returns, and the call that started last returns first.
* **Failure.** A call times out, or its answer is lost after the manager acted on it.
* **Order.** The manager's events arrive while calls are blocked; a request
  ends before, while or after it is put on screen.
* **Two processes.** The view sees the backend's properties, signals and replies
  late and in order; it decides on a copy, and calls slots without waiting.
* **Shared lines.** One error line and one status line have many writers, each
  of which must clear only its own.
* **Time.** The dwell, the confirmation hold, the poll.

What makes each part correct:

* *Requests*: an approval is for what is on screen, read, and armed; what is on
  screen is what the manager has Rendered; a request that was signed leaves the queue; one poll
  at a time; a request waiting gets shown; no error is stranded.
* *Wallets*: a device step under way is followed to its end and ends once;
  a second step does not start over the first; the Wallets view catches up; consent is for
  the open shown.
* *Opens*: an open that ended leaves the sheet; consent is for the open shown.
* *Intents*: each is answered once, and never with another's outcome; `ok` only of
  what was met; none is left for the shell's timeout.
* *Reading*: figures are given exactly where they balance as numbers, amounts are
  exact, and what is said of an item stands under it.

## Modules

| module | models |
|---|---|
| `CallStack` | the backend's one thread as a stack of blocked calls, any of which may be lost; both halves extend it |
| `CallStackProofs` | lemmas about the stack (a guard taken before a call and released when it returns), and about sequences of calls and messages |
| `ErrorHold` | `sheet::ErrorHold` as pure operators on a hold record |
| `SignerManager` | the manager as the backend sees it (external): records, answers, events, lost calls |
| `Approvals` | the request half: every handler, its properties |
| `ApprovalsHistory` | what its blocked calls did to one another, remembered, and the two properties that need it |
| `ApprovalContract` | what the request half promises the person: the abstract specification |
| `MCApprovals`, `MCApprovalsHistory` | symmetry and a view for TLC, of each |
| `ApprovalsProofs` | theorems of `Approvals` and their proofs |
| `ClaimsProofs` | theorems of `ApprovalsHistory`, about claims and about what was signed, and their proofs |
| `WalletManager` | the manager's wallets and device steps as the backend sees them (external) |
| `WalletSteps` | the wallet half: reading the Wallets view, the device step, names and passwords |
| `MCWalletSteps` | symmetry and a view for TLC |
| `WalletStepsProofs` | theorems of `WalletSteps` and their proofs |
| `IntentContract` | what the view promises the shell about an intent: the abstract specification |
| `SigningIntents` | the view's `evm.signing.approve` intents, over a backend cut down to what the view can tell |
| `MCSigningIntents` | symmetry for TLC |
| `SigningIntentsProofs` | theorems of `SigningIntents` and their proofs |
| `Opens` | showing, consenting to and rejecting an open, and the event that ends it, over the call stack and the wire to the view |
| `UnlockIntents` | the view's `wallets.unlock` intents and the Unlock sheet, composed with `Opens` |
| `MCUnlockIntents` | the wallets, the open and the asks of the instance, symmetry and a view |
| `UnlockIntentsProofs` | theorems of `UnlockIntents` and their proofs |
| `BitcoinReading` | `sheet::bitcoinReading`, line by line, in the width of its sums |
| `BitcoinReadingProofs` | theorems of `BitcoinReading` and their proofs |
| `Interpretation` | `interpret()`, the token list's answers and `scaleUnits()`; extends `BitcoinReading` |
| `InterpretationProofs` | theorems of `Interpretation` and their proofs |
| `MCInterpretation` | the calls and amounts of the instance |

The two halves run on one thread but share no variable except `renderedSigner`,
which the wallet half reads only to decide about the QR panel, so each is
checked on a call stack of its own: a handler of the other half that runs
behind a blocked call changes nothing this half reads. The view's two kinds of
intent share nothing either, except the shell they answer: each is composed with as much
of the backend as the view can tell apart, and a promise of the full half that
the cut-down one relies on is stated where it is used.

### How `Approvals` corresponds to the code

The thread is `stack`: the blocked calls, innermost first, each a record of the
handler that waits in it, the request it is about, what it read before the
call, and the answer it will get. A handler that makes no call is one action
(`DeliverEvent`, `DwellTimeout`, `ConfirmExpires`, `Dismiss`) and may run behind any
stack. One that does is cut at its calls: `GiveApproval` is `approve()` up to
`modules().signer_manager_module.approve(...)`, and `ApprovalSigning`,
`ApprovalSigned`, `ApprovalRefused` are what it does with each answer.
`acknowledge()` is cut twice, at its call (`AcknowledgeRefused`, `ShowLines`) and at
`interpret()`, which may block on the token list (`ShowRequest`). A `refresh()`
that claims a request does so by the same frames, marked `refreshing`.

| code | model |
|---|---|
| `renderedHandle`, `renderedBundleId`, `renderLines` / `claimLines`, `interpretationLines`, `renderedSigner`, `renderedSigning`, `dwellElapsed` | fields of `screen`; a bundle, lines and a reading are named by the request they belong to |
| `m_dwell` active | `dwelling` |
| `pendingJson` | `pending`, the set of handles; the head of the queue is any member |
| `lastError`, `statusText` | what the text says: `call` stands for every text of a slot that did nothing, since nobody compares those again; `not authorized` and `unreachable` are one |
| `m_confirmUntil` in the future | `holding` |
| `m_errors` | `hold` |
| `refreshSoon()` | `Poll`, which is enabled whenever a refresh would do anything |
| a zero timer with `refreshSigners()` | `posted` |

`SignerManager` processes a call when it is issued; what the backend has not
heard of waits in `inbox`, a FIFO, so "the request ended before the call was
made" and "before the manager got to it" are the same. A call may be lost on
the way there or on the way back; both give the caller an empty reply, and
`MaxLosses` bounds them. Whatever the manager answers about a request that a
device is signing is left open.

The view may pass any handle and any bundle: the buttons pass what the view's
copy of the properties says, which may be older than the backend's.

`ApprovalsHistory` adds three histories, which constrain nothing. `crossed`: of the claims under way one
has run behind another; `alone`: what is on screen was put there by a claim that none crossed;
`overtaken`: the requests an `approve()` was told are signed while a `refresh()` beneath it was reading the queue,
until a reading comes without them.

Not modelled of the request half: `refreshUnattended()` (it copies a list), the QR
panel (its functions are stubs at this commit) and the wording of every line.

### How `WalletSteps` corresponds to the code

`unlockPoll()`, `retryUnlock()` and `cancelUnlock()` read `unlockJson` once, call
the manager, and write back what they read with what they were told. A frame
carries that copy, `u`; a handler that ran behind the call may have changed
`unlock` since.

| code | model |
|---|---|
| `unlockJson` | `unlock`: the step's handle, its wallet, its state; `{}` is `NoUnlock` |
| `m_unlockPoll` active | `polling` |
| `walletsJson` | `shown`: the wallets it says are unlocked |
| `walletError` | by who wrote it: a step refused because another is under way (`busy`), wallets unread, a call |
| `m_walletsInFlight` | `reading` |
| `unlockEnded` | `ended`: the first two signals about each step |
| `unlockWallet`, `setRule`, `changeKeys` | `BeginStep`, then `BeginFailed`, `BeginWorking` (which polls at once) or `BeginDone` |
| `unlockPoll()` | `UnlockPoll` (or the end of `BeginWorking`), then `StepWorking`, `StepNeedsPassword` or `StepEnds` |
| `retryUnlock`, `cancelUnlock` | `RetryUnlock`, `RetryWrong`, `RetryEnds`; `CancelUnlock`, `CancelReturns` |
| `endStep()` | the operator `EndStep`, part of the actions that end a step |
| `refreshWallets()` | the operator `RefreshWallets`, then `SettingsFailed`, or `SettingsRead` and `RestRead` |
| `lockWallets`, `setNames`, `renamePassword`, `removePassword`; `createPassword`; `changePassword` | `EditWallets` and how each looks at its answer |

`RestRead` stands for the calls that read the accounts and the opens, one after
the other: nothing but `rosterJson` and `opensJson` is written between them.
What a step does once it is done is left open (it unlocks its wallet, or only
changes a rule), and so is which wallets `lockWallets` locks.

Not modelled of the wallet half: the QR panel's claims (stubs), and what is typed
(secrets are passed on and wiped). The opens are in `Opens`.

### How `SigningIntents` corresponds to the code

The view and the backend run in two processes. What the view calls waits in `calls`
until the backend runs it; what the backend sends, a changed property, a signal or
a reply, waits in `wire` until the view sees it. Both are FIFO, as the
remote objects' connection is.

| code | model |
|---|---|
| `intentByHandle` | `intentByHandle` |
| `backend.renderedHandle` in the view | `seen`, as of the last message seen; the backend's own is `screen` |
| `logos.respond()` | `standing`, what the shell was told of each intent, "answered twice" included; `handleOf` keeps what each named |
| `onIntentRequested` for a signing intent | `AskApproval`: displace the intent on screen, take the place, call `acknowledge()` and watch its reply |
| `onSettled`, the watched reply, `renderedHandle` as it changes | `SeeSettled`, `SeeReply`, `SeeScreen` |
| Open, Approve and Reject, Back | `ClickOpen`, `ClickDecide`, `ClickBack` |
| the backend's slots, the poll's claim, the settled event | `RunSlot`, `Claim`, `AcknowledgeReturns`, `DecisionReturns`, `RelaySettled` |

Every way a request can end but an approval is one to the view (`cancelled`), so the
manager's records are unknown, live, approved or rejected. `MaxTraffic` bounds how much is under
way before anyone starts more, not what may follow from it.

### How `Opens` and `UnlockIntents` correspond to the code

| code | model |
|---|---|
| `walletsJson`, `opensJson`, `openJson` | the wallets unlocked, the opens waiting, the open shown in full |
| the view's copies of them | `seen` |
| `unlockSeed`, `unlockOpen`, `unlockIntent`, `unlockedSome` | the same names |
| `unlockQueue` | a set: the view keeps it in the manager's order, which is `Place` |
| `unlockTargets`, `openUnlock`, `closeUnlock` | operators of the same names; `nextQueued` and the way out where none is left is `Advance` |
| `onIntentRequested` for `wallets.unlock` | `AskUnlock` |
| a wallet's card, Review; Consent, Refuse; Close; Skip | `ClickCard`; `ClickDecide`; `ClickClose`; `ClickSkip` |
| `onUnlockEnded`, `onOpenSettled`, a property that changed | `SeeEnded`, `SeeSettled`, `SeeChange` |
| `showOpen`, `consentOpen`, `rejectOpen` | `AskManager`, then `ShowOpenReturns` or `DecisionReturns` |
| `endStep()`, `refreshWallets()`, the `access_settled` event | `EndStep`, `Refresh`, `AccessSettled` |

A device step is only its end here, and a reading of the wallets is what it
publishes: `WalletSteps` has what leads there. `endStep()` is the same for a step of any kind, so `EndStep` is, too. One that
ended well either unlocks its wallet, if nobody else had, or was about the rule or the keys of a wallet that was shown as unlocked when
it began, and leaves that as it is: locked, if others locked it meanwhile. A step about a wallet may end any number of times, as
nested handlers make it do.

The histories are what was said and asked, and what could meet an ask. `told` is what the shell was told and `asks` what was asked;
`inTime` says whose open was live when it was asked for; `openedFor`, of which intents a wallet was unlocked, as of what
the view had read or may yet read when they asked, or since; `steppedFor`, of the others, those about a wallet of which a
step ended well, likewise; `offered`, which wallets were ever shown as unlocked. What was unlocked and locked
again before the ask, and read by the view, is in none of them. A consent's
answer may be lost; no other call's is, since `showOpen()` and `rejectOpen()` do after a lost call what they do after a refused one. An ask
that names wallets by a signer's own names for them is the wallets it means.

### How `BitcoinReading` and `Interpretation` correspond to the code

`BitcoinReading` is the loop of `sheet::bitcoinReading` with one action per line. A line is
its kind (which regular expression it matches) and the amount it prints; an amount too long to be
read without wrapping is one beyond `MaxPrinted`, and the sums are kept modulo `Modulus`,
`quint64`'s 2^64 in the code. `Interpretation` is `interpret()`: a request is a Bitcoin one or goes to the decoder,
whose answer is a set of calls by item (`legs`); each gets its label, the decoder's lines and, where
the address was not verified, an answer of the token list, in one action per line group since that
call blocks. A raw amount is its digits, so that padding and cutting are what the code does to
its text; 10 stands for a character that is no digit.

## Runs

| run | instance | shows |
|---|---|---|
| `approvals_nested` | 2 requests, 1 signer, calls nested 2 deep, 1 lost | `ContractKept`: `Approvals` implements `ApprovalContract`. `SheetCoherent`: bundle and lines are one request's, and only a request on screen is armed or arming. `OnePollAtATime`: `m_inFlight` is set exactly while one `refresh()` is under way. `ScreenIsClaimed`: what is on screen is what the manager has Rendered, unless claims crossed. `ApprovedStaysOffTheQueue`: a request the person was told is signed is not shown as waiting, but by the one reading that was under way |
| `approvals_errors` | 1 request, 2 signers that come and go twice, 1 lost | `ErrorsAnswerable`: an error the poll, or a reading of the signers, can clear is never stranded |
| `approvals_live` | 1 request, nested 2 deep, 1 lost | `RequestsGetShown` under fairness, `ErrorsAnswerable` when calls nest, and `TypeOK` |
| `wallets_nested` | 2 wallets, 2 steps, nested 2 deep, 1 lost | `OneReadingAtATime`: `m_walletsInFlight` is set exactly while one `refreshWallets()` is under way. `EndedTruthfully`: `unlockEnded(ok)` only of a step the manager finished |
| `wallets_flat` | 1 wallet, 2 steps, no nesting, 1 lost, 1 lock or unlock elsewhere | `EndsOnce`, `StepIsFollowed`, `StepNotDisplaced` and `TypeOK`; under fairness `StepsEnd` and `ViewCatchesUp` |
| `signing_intents` | 2 intents for 2 requests or one, calls nested 2 deep, 1 lost, 2 under way | `ContractKept`: `SigningIntents` implements `IntentContract`. `AnswerUnderWay`: once a request has ended, what answers its intent is on its way. `PlaceKept`, `BadRequestIsFinal`, `TypeOK` |
| `readings` | every sequence of up to 6 lines in a width the sums can wrap; 1 or 2 items, amounts of up to 3 digits | `ReadingIsRight`, against the sums as numbers over the whole sequence; `AdditionsExact`, `FiguresBalance`; `AmountsExact`; `SaidOfItsItem`; `TypeOK` |
| `wallet_sheets` | 2 wallets, 1 open of the second, 2 intents that ask for all wallets, for one, or for the open; 1 consent lost | `OkIsMet`: `ok` only of an ask whose open was approved, or else a wallet of which was unlocked or had a step end well, and not before the ask as the view had it. `WaitingHasSheet`, `QueueIsOfIntent`. `OpenAnswerUnderWay`: what answers an intent whose open ended is on its way. `EndedOpenLeaves`. `TypeOK` |

The bounds: two requests are what displacing, nesting and demoting take; a
third only repeats one of them. Two calls deep is one handler behind one blocked call,
which is every pair of handlers; deeper nests repeat pairs (the safety theorems
hold for any depth, but for what is proved under a hypothesis about nesting, see Proofs). One lost call reaches every failure branch in every state. Two steps are one
under way and one begun over it, and two wallets are one unlocked and one locked.
`EndsOnce`, `StepIsFollowed`, `StepNotDisplaced` are checked without nesting because
they fail with it: a `cancelUnlock()` behind a blocked `unlockPoll()` signals the end
and so does the poll when it resumes; two steps begun behind one another
both pass a guard that is evaluated before the call.
`EndedOpenLeaves` fails with it too: see what was seen while modelling, below, and Proofs for which nesting it takes. So the
flat runs say that these parts are right where handlers do not nest, and nothing of what nesting does to them. What matters of the
request half is checked nested.

For `signing_intents`, two intents and two requests are what displacing takes, for the same request and for
another; two things under way are a call and a message, or two of either, that cross. For
`wallet_sheets`, two wallets are a sheet and its queue; the open is of the second, so that the wallet it
names is not the one an ask without a name would get; one call and one message under way at
a time bound what a person or the backend starts (what follows is not bounded), and only the first wallet is
locked and unlocked by others. For `readings`, `MaxSats` is 3, `MaxPrinted` 6 and the modulus 10: 3 coins three times over fit below 10, as 21 million coins do in 2^64,
the amounts are none, one, all there is, more than that, and one too long that
wraps to a small one, and six lines are up to four outputs. Decimals are -1 to 5 where `MaxDecimals` is 4 (36 in the code): none, fewer, as many and more than the digits, and too many.

`CHECK_DEADLOCK FALSE` stands in `signing_intents`, where nothing happens once every intent is
answered and every request has ended, and in `readings`, where `interpret()` returns.

A `VIEW` has TLC take for one the states that differ only in what decides neither the run's properties nor what happens next
to what they are about. `Control` (`approvals_nested`) leaves out the status and error lines with the hold and the
confirmation that decide who may clear them: they are compared only to write one another. `ErrorLine`
(`approvals_errors`) leaves out the queue and the lines and reading on screen, which `approve()` and the poll never
compare, the status line, the confirmation and the histories; it keeps the handle, the bundle, the signer and the arming, which guards
read. `Stepping` (`wallets_nested`) leaves out which wallets are unlocked, shown so, and the error line, which no step and no reading
looks at. `Kept` (`wallet_sheets`) forgets, of an intent that was answered, never with `ok`, and that is not held, what it asked and what met it: nothing of
that is looked at again. `Symmetry` permutes requests and signers, wallets and steps, or intents, and is not used with liveness.

Fairness, for `approvals_live`: `SF(Poll)`, since the queue timer is due
once a second and the event loop dispatches due timers, in a blocked call's loop
too, so that it cannot be passed over for ever; `WF(Return)`, since a
blocked call ends by its answer or its deadline. Nothing is assumed of the
person, of the manager's events, or of a device. For `wallets_flat`, likewise:
`SF(ReadWallets)`, `SF(UnlockPoll)` and `WF(Return)`, the Wallets view's and the step's
timers being periodic. `ViewCatchesUp` needs the flat stack: nested, the innermost call
returns first and an outer one may be kept waiting for ever by new ones on top
of it, which weak fairness of `Return` allows.

### Where the code and its comments disagree

Each of these runs finds a shortest way to it.

| run | what happens |
|---|---|
| `approvals_ended_stays` | a settled event delivered while `acknowledge()` is blocked is ignored; the ended request then stays on screen and no poll notices |
| `unlock_answered_twice` | an unlock intent displaced by one that is answered at once (a bad request, or its wallet unlocked already) keeps its sheet, and is answered again when that closes |
| `unlock_ok_locked` | a step about the rule or keys of a wallet, begun while it was unlocked, ends well after others locked it; an unlock sheet that is up for it by then takes that for its unlocking, and its intent hears `ok` |
| `unlock_wrong_wallet` | an intent naming an open the view has not read yet opens the sheet for the first locked wallet of all, with that open beside it |

Others, seen while modelling and left without a run.

In the request half (`evm_signer_ui_backend.cpp`):

* `acknowledge()` does not reset `renderedSigning` (`:435`), so a request opened while a device
  signs another is shown as being signed, where `evm_signer_ui.rep:57` has it of the
  request on screen.
* `acknowledge()` paints the new bundle and lines, then blocks in `interpret()` with
  Approve still armed and the handle still the request before's (`:432`); a click then passes
  `approve()`'s guards with one request's handle and the other's bundle, and it is the manager that refuses the
  pair. The reading of the request before stands beside the new lines meanwhile (`:433`, against `:657`).
* The `refresh()` blocked beneath `approve()` writes the queue it read before the approval (`:365`, against `:549`). `ApprovedStaysOffTheQueue`
  says that this is the only way the request comes back, and that the next reading takes it off.
* The claim `refresh()` decides on from a blank sheet (`:391`) replaces a request the person opened while it was under way. Approve
  is disarmed by it, as by any request shown.
* A poll that fails once overwrites a signer's refusal, and the next good poll then
  clears the line (`:353`, against `docs/specs.md:117`); it overwrites the device's status line too (`:356`, against `:372`).
* Nested `acknowledge()` calls return innermost first, so the one the manager answered first is
  shown last, demoted as it may be (`:435`, against `:387`). `ScreenIsClaimed` says that nothing else leaves such a request on
  screen; it stays until a claim runs by itself.
* The interface says that nothing is asked of another module (`evm_signer_ui.rep:18`, `:33`); `tokenListLines()` asks one (`:180`).

In the wallet half:

* A `cancelUnlock()` that runs behind a blocked `unlockPoll()` (`:837`): the poll writes back the step it read, so
  the cancelled step is shown at its device again, no timer follows it, and
  `beginStep()` refuses a new one until it is cancelled once more.
* `unlockPoll()` has no guard such as `m_inFlight`, and its timer is a repeating one of 400 ms (`:806`): a call that takes longer has more
  polls stacked upon it, each of which writes back the step as it was before its own call, and may signal its end again.
* Two steps begun behind one another both pass the check for one under way (`:750`), and the second takes the first's place.
* One lost `unlock_progress()` ends the step with "The signer manager no longer knows this step." although its
  device still works on it (`:823`).
* A step that waits for a password gives way to a new one and is never told to have ended
  (`:750` looks at `device` alone, where `evm_signer_ui.rep:125` counts it as under way).
* Nested, a `showOpen()` whose answer comes after its open has ended shows it for good (`:1030`), and a decision about
  one open takes another that was shown meanwhile off the screen (`:1041`).

In the view:

* Two intents for the same handle: the second takes the first's place in `intentByHandle`, and the first is
  left to the shell's timeout (`SignerView.qml:41`). `PlaceKept` says that there is no other way to lose its place.
* Two intents for different handles, the second before the view sees the first's request on screen: it displaces
  nobody, and the first keeps its place and is answered when its request ends, not "now rather than left to the shell's
  ten-minute backstop" (`SignerView.qml:41`-`:44`). `PlaceKept` allows that.
* A lost `acknowledge()` answers `bad_request` of a request that is live, against the comment at `SignerView.qml:171`
  (that no retry fixes it). `BadRequestIsFinal` says that there is no other way to it.
* An unlock intent that is displaced hears `cancelled` though some of its wallets were unlocked,
  where Close part way answers `ok` (`SignerView.qml:68`).
* `RuleSheet`: where a rule needs a new password, it is composed when `createPassword()` answers, of what the sheet shows
  then (`RuleSheet.qml:134`-`:160`).
* `StepInputs`: a holder it does not find in the wallets read keeps what was typed (`StepInputs.qml:20`); `UnlockSheet` clears
  `inputs`, and not what its retry asks for, when the wallet changes.

In a reading: a Bitcoin request whose only other output is of 0 sats reads "Everything comes back to
this wallet" (`sheet_lines.cpp:103`).

## Proofs

`ApprovalsProofs`, for all handles, signers, depths and bounds:

* `TypeCorrect`: `Spec => []TypeOK`. One lemma per handler; `PushPop` and
  `TopBelow` give what pushing and returning do to a sequence of frames.
* `SheetIsCoherent`: `Spec => []SheetCoherent`. Inductive together with `TypeOK`.
  `ScreenStep` lists the seven ways any step changes the screen, `NextScreenStep`
  shows that there are no others, and `ScreenFields` what each leaves.
* `OnePoll`: `Spec => []OnePollAtATime`, at any depth of nesting. `CallStackProofs` shows of
  any guard and any set of frames that hold it what a push and a return do to
  "the guard is set exactly while one blocked call holds it" (`OneHolds`): pushing
  a holder needs the guard free, and returning from one frees it. The handlers are then
  sorted by which of these they do.
* `ErrorsAreAnswerable`: `Spec => []ErrorsAnswerable`, at any depth: only the handler that goes on to hold a
  refusal takes its call off the stack (`ReturnKeepsRefusing`), and every other writer of the error line either
  tells the hold or writes what nobody compares again.
* `ContractIsKept`: `Spec => ContractKept`, the refinement. `OnlyApproveAuthorises` shows
  that only `approve()` approves, and that its guard held; `SheetCoherent` turns
  "the bundle on screen" into "the lines on screen"; every other step is a turn of
  the contract's sheet.

`ClaimsProofs`, about `ApprovalsHistory`, for all handles, signers, depths and bounds, with no hypothesis about what nests:

* `ShownIsClaimed`: `HistorySpec => []ScreenIsClaimed`. What is on screen is not inductive alone, since a claim waits twice, in the manager and in
  `interpret()`, before it is shown. `ClaimsAgree` says that while no claim has crossed another, there is at most one, and it is of a
  request the manager has claimed; `ShownAgrees` that with none under way the request on screen is claimed, if one alone put it there. A
  request the manager demotes is demoted by another claim, and that one is then under way.
* `SignedStaysOff`: `HistorySpec => []ApprovedStaysOffTheQueue`. `QueueKept` adds that an approval answered as signed has ended its
  request, and that a queue being read holds nothing of what the person was told is signed, but what was overtaken.

`WalletStepsProofs`, for all wallets, steps, depths and bounds:

* `TypeCorrect` and `EndsAreTruthful`, from one inductive invariant, `Truth`. The
  signal alone is not inductive: an answer that a step is done waits in a
  blocked call, behind any others, before the view is told. `Truthful` says that
  every blocked call that holds such an answer is right about its step; `DoneStays`
  that the manager takes nothing back; `PushTruthful`, `TopBelowTruthful` and
  `StaysTruthful` that the stack keeps this through a push, a return and a move of
  the manager; `EndStepFacts` that the view is told only what was heard.
* `OneReading`: `Spec => []OneReadingAtATime`, by the same lemmas of `CallStackProofs`.
`SigningIntentsProofs`, for all requests, intents, depths, losses and traffic:

* `IntentsTypeOK`, `IntentsKeepTheirPlace`, `BadRequestsAreFinal` and `IntentsKeepTheContract` (the refinement of
  `IntentContract`), from one inductive invariant. That a settled event seen by the view is true of its
  request is not inductive: it was sent when the manager's record had settled, and waited in `inbox`, then in
  `wire`, behind others. `UnderWayIsTrue` says so of all that is under way, by narrowing the types of
  messages, frames and events to those that the records bear out; the records only
  move one way, so what is under way stays true (`UnderWayStays`), and the view's half (`ViewInv`) follows from what it receives.
* `AnswersAreUnderWay`, from that invariant and `AnswersComing`: a call that will not open the request, the blocked
  call, its reply, and the settled event before and after it is relayed follow on one another without a gap. `Onward`
  says so of every step behind the view.

`UnlockIntentsProofs`, for all wallets, opens, orders, intents, asks, depths and losses:

* `ViewTypes`, `OkIsTrue`, `NoneWaitsAlone`, `QueueFollowsIntent` and `OpenAnswerIsComing`, from one inductive invariant. `CarriedIsTrue`: the settlements on the wire, and the events behind it, are true of the manager, and
  the wallets and ends on it are of what is remembered: a wallet that the view may yet read as unlocked is one for which every ask that names it is
  in `openedFor` (the state function `opened`), and likewise for the ends (`ended`). An ask adds to the memory what is under way already
  (`AskKeepsMemory`), and a step of the backend what it sends (`StepRemembers`). `SheetInv`: what the sheet holds is of the intent it is
  up for, none other waits, and `unlockedSome` is only set of an intent that was met. `AnswersComing`: an open that
  ended is still in `inbox`, on the wire, or known to the view. `BackStep` sums up what any step of the backend
  may do to what the view can tell, so that the invariant is shown once for all of them, and `Steady` is why truth
  under way is kept: records and histories only grow.
* `EndedOpensLeave`: `EndedOpenLeaves`, at any depth, as long as no event of an open is handled behind a `showOpen()` of it
  (`EventsWait`). `ShownIsMinded`: an open shown, or about to be, has not ended, or its event is yet to be handled.

`BitcoinReadingProofs`, for any width, caps, amounts and number of lines with three times all the
coins below the modulus:

* `FiguresDoBalance` and `AdditionsAreExact`, from `BInv`: while a request is read, every sum is within the cap, so that
  one more line, and the three sums together, stay below the modulus.

`InterpretationProofs`, for any lines, calls, raw amounts, decimals and number of items:

* `ReadingsAreRight`: `Spec => []ReadingIsRight`. `ReadsAsBitcoin` first shows that `interpret()` is
  `bitcoinReading` and steps beside it. `Tallied` is then what the loop's variables are, as numbers and for any number of
  lines: the sums of the lines read, and the place in the layout they have come to (`AreOutputs`, `ToFee`, `Laid`). `NoneLost` is the other half, that a line
  which does not fit, or passes a cap, is never the last of a request with figures; it needs `Capped` of `BInv`,
  that while lines are read nothing has wrapped.
* `AmountsAreExact`: `Spec => []AmountsExact`. `ScalesExactly` takes `scaleUnits` apart: whole part, fraction and the
  zeros chopped off are, digit for digit, the raw amount behind the zeros it was padded with, and those change no value
  (`LeadingZeros`).
* `EachSpeaksOfItsItem` and `InterpretationTyped`, from `SpeakingInvariant`: all that is still to be read is behind what was said, and
  while the token list is asked, the decoder's line about that call is the last one (`Asking`).

The reference definitions `Value` and `SumOf` are folds, so these need induction over a sequence's length. It goes by
the least number in a set: the library states that the natural numbers are well-founded, and `ByInduction` follows. `FoldExists` builds
the function a fold stands for from it, and `ValueSpells` and `TotalTallies` say what the two folds come to, place by place.

They assume only that the `No...` constants are outside the sets they complete, that the bounds are
naturals, that an open names a wallet and a wallet has a place, that a call's arguments are sequences of digits, and, of the figures, the
inequality above. One theorem has a hypothesis about what nests, `EventsWait` of `EndedOpensLeave`. It is not an assumption about the
code: nested handlers do break it, as listed above, and the theorem says that nothing else does the harm.

Model-checked only: liveness (`RequestsGetShown`, `StepsEnd`, `ViewCatchesUp`), out of the prover's reach; and `EndsOnce`, `StepIsFollowed` and
`StepNotDisplaced` of `wallets_flat`, which hold only where no handler starts behind a blocked call. Every other property of
a passing run is stated by a theorem.

## Not modelled

* `refreshUnattended()`, which copies a list; the QR panel, whose functions are stubs at this commit.
* An ask that reaches the view before it is ready, or before it has seen the first reading of the
  wallets; an open that names no wallet, which a person picks on the page of wallets.
* `RuleSheet`'s ways in, `StepInputs` and what is typed: the secrets are passed on and wiped, and
  which fields are drawn is layout. What was seen of their orders is listed above.
* Which page is shown, and how anything is worded or laid out; `accountkit`, whose `roster.js` groups accounts without state.
* The transaction decoder and the token list but for what they may answer; the signer manager but for what the
  backend relies on; the shell's timeout; the build.

## What could come next

1. The ways and passwords of `RuleSheet`: the rule composed when `createPassword()` answers.
2. Liveness of intents: under fair delivery, and a person who leaves the sheet, every intent is answered;
   `AnswerUnderWay`, `WaitingHasSheet` and `OpenAnswerUnderWay` are its safety half.
3. That the backend `SigningIntents` is composed with allows all that `Approvals` does: today its promises are stated where they are used.
4. The grouping of accounts in `roster.js`.
