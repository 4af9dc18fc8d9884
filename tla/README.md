# TLA+ models of the NCI JNI layer (tag state machine, routing, NDEF operations and stack control)

This directory contains TLA+ models of the native NFC layer in `src/nci/jni/`.
Each module models code of the repository, and each model is checked with TLC.
`PROJECT.json` lists:

- the components, and which of them are modelled;
- the runs, and the properties each run checks;
- a mutant for every property of a passing run;
- the source lines behind every definition;
- the findings;
- the hazards the properties are aimed at.

## 1. The system

### Components and their state

**Tag state machine** (`NativeNfcTag.cpp`, with `NfcTag`, which is not in this repository). Its state:

- NfcTag's activation state (`Idle`, `Active`, `Sleep`).
- The current RF interface and the activated protocol (`sCurrentRfInterface`, `sCurrentActivatedProtocl`).
- The connected target (`sCurrentConnectedTargetType/Protocol/Idx`).
- The reselect flags: `gIsTagDeactivating`, `gIsSelectingRfInterface`, `sConnectWaitingForComplete`, `sConnectOk`, `sReselectTagIdle` and `gTagJustActivated`.
- The transceive slot: `sWaitingForTransceive`, `sTransceiveRfTimeout`, `sRxDataStatus` and the buffer.
- The presence-check counters: `sIsoDepPresCheckCnt`, `sPresCheckErrCnt`, `sIsoDepPresCheckAlternate`, `sIsTagPresent` and `sPresCheckStatus`.
- `sRfInterfaceMutex`.
- The `SyncEvent`s `sReconnectEvent`, `sTransceiveEvent`, `sPresenceCheckEvent` and `sReadEvent`.

**NDEF operations** (`NativeNfcTag.cpp`). Its state:

- `sCheckNdefStatus` and the sizes and capabilities found by NDEF detection.
- The flags `sWriteWaitingForComplete`, `sWriteOk`, `sIsReadingNdefMessage` and `sFormatOk`.
- One semaphore per operation, created and destroyed on every call: `sWriteSem`, `sFormatSem`, `sCheckNdefSem` and `sMakeReadonlySem`.

**Controller event bridge** (`NativeNfcManager.cpp`):

- `nfaConnectionCallback` dispatches RF events to the tag state machine.
- `handleRfDiscoveryEvent` and the activation handler arbitrate between several discovered candidates (multi-protocol discovery). They keep `numDiscNtf` and the multi-protocol flag in the `NfcTag` singleton: a tag is deactivated to sleep on activation while the counter is non-zero, and `selectNextTagIfExists` then selects the next candidate.
- `nfaDeviceManagementCallback` handles enable, disable, config and the fatal transport error.
- Its state is `sIsNfaEnabled`, `sIsDisabling`, `sIsRecovering`, `gActivated`, `sSeRfActive` and `recovery_option`.

**Discovery / polling control** (`NativeNfcManager.cpp`):

- The functions are `startRfDiscovery`, `startStopPolling`, `setDiscoveryTech`, `resetDiscoveryTech` and `doSetScreenState`.
- Its state is `sRfEnabled`, `sDiscoveryEnabled`, `sPollingEnabled` and `prevScreenState`.
- It shares `sRfInterfaceMutex` with reselect.

**Routing synchronizer** (`RoutingManager.cpp`). Its state:

- The EE topology: `mEeInfo`, `mReceivedEeInfo` and `mEeInfoChanged`.
- `mSeTechMask` and the default routes.
- `mSecureNfcEnabled`, `mIsScbrSupported`, `mAidRoutingConfigured` and `mDeinitializing`.
- The NFC-F card emulation on the host: `mNfcFOnDhHandle`, `mMapScbrHandle` and the copy `mCbEventData` of the last EE event.
- One `SyncEvent` per kind of directive: `mRoutingEvent`, `mEeUpdateEvent`, `mAidAddRemoveEvent`, `mEeRegisterEvent`, `mEeInfoEvent`, `mEeSetModeEvent` and `mEePwrAndLinkCtrlEvent`.

### How they interact

Caller threads issue an `NFA_*` command and then block on a `SyncEvent` or a semaphore. Binder calls for the tag run in one application thread, and the presence-check watchdog runs in another. A single NFA callback thread delivers the answering event. That thread sets result variables and calls `notifyOne`.

A `SyncEvent` is a mutex plus a condition variable:

- a notify with no waiter is lost;
- a caller that holds the guard from before the command until its wait cannot miss the notify;
- a write made outside the guard can race.

`sRfInterfaceMutex` serialises reselect and the discovery-technology changes. The presence check only `tryLock`s it.

### Hard behaviours

- Timeouts on every tag wait, and answers that arrive after the timeout.
- Flags that are written by both threads outside a guard.
- The tag leaving and re-entering the field in the middle of an operation.
- Controller commands that fail.
- Broadcast aborts (`abortWaits`) that race operations in progress.
- Routing waits with no timeout.
- A fatal-error path that has a recovery branch and an abort branch.

### Correctness properties, by component

Tag state machine:

- The host's activation state and interface mirror the controller's.
- reSelect reports success only after an activation that answers its own select: neither the `sConnectOk` of an earlier select nor a late notify is an answer.
- A success is reported only on the requested interface.
- A failure is not reported while the tag is connected.
- Every call returns.
- A presence check never reports a false absence during a reselect, and never reports a present tag after an abort.

NDEF operations and transceive:

- A result belongs to the call that waits for it.
- No wait is unbounded.
- A transceive returns only the response to its own frame, and only when that response is complete.

Routing synchronizer (spec P5 and P6):

- Each technology is routed to at most one EE, and an unclaimed technology goes to the host.
- The dirty flag makes the next commit recompute the technology routes.
- A second commit does not recompute.
- `registerT3tIdentifier` returns the handle of its own NFC-F registration, and only when its own system-code route was accepted (violated: section 4).

Event bridge:

- Every blocked caller is woken on a fatal error (spec §8 scenario).
- Multi-protocol arbitration ends with a target selected, not left waiting for a select, and with the counter back at zero (spec §4.1 onDiscoveryResult and onActivated, and the §8 scenario).

## 2. Modules

| module | models | instantiated by |
|---|---|---|
| `NfcTagRf` | reSelect, doConnect, doReconnect, doDisconnect, the presence-check watchdog, and the tag events of `nfaConnectionCallback` | `MC_NfcTagRf` |
| `RoutingTechRoute` | `updateEeTechRouteSetting` as a pure operator, and its effect on the controller's technology table across topology changes | `MC_RoutingTechRoute` |
| `RoutingManager` | the routing synchronizer: the service's calls, `nfaEeCallback`, `nfcFCeCallback` and the NFA EE and CE modules. It uses `RoutingTechRoute` through `INSTANCE` | `MC_RoutingManager` |
| `NdefOps` | check-NDEF, read, write, format, make-read-only and transceive, with their semaphores, `sTransceiveEvent` and completion handlers | `MC_NdefOps` |
| `NfcManager` | the stack and discovery calls of `NativeNfcManager.cpp` (initialize, deinitialize, enable/disable discovery, commit routing, screen state, polling, discovery technology), `nfaDeviceManagementCallback` with its fatal-error bridge, the polling and EE events that wake those calls, and multi-protocol discovery (`handleRfDiscoveryEvent` and the arbitration in the connection events) | `MC_NfcManager` |

The controller and the NFA stack are not in this repository. Each module models them from the spec: they answer accepted commands in order, they may refuse a command, and a tag may leave the field. `PROJECT.json` marks these definitions `spec_modelled`.

### `NfcTagRf`

It has four actors.

**The application thread** runs `nativeNfcTag_doConnect`, `nativeNfcTag_doReconnect` and `reSelect`. reSelect is split at its waits and at the points where the callback thread can interleave with it. Each step is one action:

- `RsLock`: the lock and the early return.
- `RsDeactivate`: halt or empty frame, then `NFA_Deactivate(TRUE)` and the wait.
- `RsWakeDeactivate`: the end of the wait, and the Idle check.
- `RsSelect`: the connect flags and `NFA_Select`, under the guard.
- `RsArm`: `sConnectOk = false`, then `wait(1000)`.
- `RsWakeSelect`: the end of the select wait.
- `RsCheck`: re-arming the flag outside the guard.
- `RsRetryWait` and `RsRetryWake`: the retry loop of three rounds of 500 ms.
- `RsFinish`: the verdict.
- `ReselectExit`: the cleanup shared by every exit.

`AppPost` is the tail of doConnect and doReconnect. doConnect compares the protocol and the interface; doReconnect does not. `doDisconnect` is one action: it clears `sReselectTagIdle` and, when NfcTag has the tag Active or Sleep, queues a deactivation to idle without waiting for its event, so a later doConnect or doReconnect, or the watchdog, can run before the deactivation is reported.

**The watchdog thread** runs `nativeNfcTag_doPresenceCheck`:

- `PcTryLock`: the `tryLock` of `sRfInterfaceMutex`, released at once.
- `PcIsActivated`, `PcIssue`, `PcWake1`: the first check and its wait.
- `PcRetry`, `PcWake2`: the retry loop.
- `PcAlternate`, `PcWake3`: the ISO-DEP alternate check.
- `PcEnd`: the verdict.

**The callback thread** handles these events:

- `CbActivated`: `NFA_ACTIVATED_EVT`, including the part of `nativeNfcTag_doConnectStatus` that runs outside the guard.
- `CbSelectError`: `NFA_SELECT_RESULT_EVT` with an error.
- `CbDeactivated`: `NFA_DEACTIVATED_EVT`, including `nativeNfcTag_resetPresenceCheck`.
- `CbPresenceResult`: `NFA_PRESENCE_CHECK_EVT`.

`CbNotify` is the `notifyOne` under the `sReconnectEvent` guard. After an error event it also runs the rest of the handler, and after a non-sleep deactivation it runs the rest of `nativeNfcTag_abortWaits` (`CbAbortRest`).

**The controller** answers commands in order. A select may be answered by a generic error followed by the activation, and the tag may leave and re-enter the field.

The model keeps these abstractions:

- A waiting thread has a `sig` bit, which is set only if the thread is blocked when the notify happens.
- A timeout is the wait ending while `sig` is FALSE, which may happen at any moment.
- The tag is an ISO-DEP tag with the tech list NfcA (frame interface) and IsoDep (ISO-DEP interface), which is what the connect interface switch is about.

### `RoutingTechRoute`

`UpdateEeTechRouteSetting(ees, off, fel, offMask, hostMask)` returns the directives the function issues, in order, and `allSeTechMask`:

- the listen, clear and set directives for each EE;
- the host's set and listen directives;
- the host clears for the technologies that the EEs took.

`Apply` folds them into the NFA's table of technology routes per owner. The state machine recomputes the table on every topology change, starting from the table the previous topology left.

`Claimant` and `ReferenceOwners` are a reference definition written from spec P5. `RoutesMatchReference` compares the computed table with it.

### `RoutingManager`

The caller thread runs the service's calls:

- `initialize`;
- `commitRouting`;
- `addAidRouting` and `removeAidRouting`;
- `updateSystemCodeRoute` and `setEeTechRouteUpdateRequired`;
- `enableRoutingToHost` and `disableRoutingToHost`;
- `clearRoutingEntry`;
- `updateIsoDepProtocolRoute` and `updateTechnologyABFRoute`;
- `eeSetPwrAndLinkCtrl`;
- `onNfccShutdown` and `deinitialize`;
- `registerT3tIdentifier` and `deregisterT3tIdentifier`, each followed by the `commitRouting` of its JNI wrapper (`T3tCommit`, through `CommitRouting`, the body `commitRouting` shares).

Each call is split at its `SyncEvent` waits. The `SyncEvent` state is three variables:

- `held`: the guard the caller holds;
- `waitOn`: the event it waits on;
- `sig`: whether it has been notified.

A notify reaches only a waiter, and the guard is a non-recursive mutex: taking it twice blocks. A function that more than one call shares, such as `updateDefaultProtocolRoute`, is entered with `Continue(next)` and left with `Return`. `enableRoutingToHost` and `disableRoutingToHost` issue a sequence of directives, each waited for. This is modelled as a list of steps walked by `StartSeq`, `SeqIssue` and `SeqWake`.

The NFA applies the queued directives in order (`NfaApply`) and may report a new topology (`NfaHotPlug`). The callback thread (`CbNotify`, `CbDiscoverReq`, `CbDeregister`) runs `nfaEeCallback`, which first copies each event into `mCbEventData` (`mCbEventDataOk`), and `CbCe` runs `nfcFCeCallback`'s registration events.

The T3T calls wait on the same `mRoutingEvent` as the route directives. `RegisterT3tIdentifier` resets `mNfcFOnDhHandle` and issues the NFC-F registration; the NFA gives it the first free handle (`ceRegs`), which `CbCe` stores in `mNfcFOnDhHandle`. Without SCBR the call returns `mNfcFOnDhHandle` after the wake; with SCBR it adds the system-code route (`T3tAddSystemCode`) and, after that wake, reads `mCbEventData.status` (`T3tWakeSystemCode`). `DeregisterT3tIdentifier` takes a handle the service holds (`t3tHeld`), deregisters it and then erases and removes its system-code route. `ownHandle` and `ownAns` record, as history, the answers to the call's own directives.

A T3T call may start while answers to earlier directives are still in flight, as in the code: nothing in `nfcManager_doRegisterT3tIdentifier` waits for them.

Without SCBR, `PrT3t` issues one directive for the host; for another default EE the code first issues `NFA_EeClearDefaultProtoRouting` and overwrites its status with the set's, so that directive is in flight even when the set is refused. The modelled controller is NCI 2.0, so `updateDefaultRoute`'s early return for NCI 1.0 is not taken.

### `NdefOps`

**The application thread** makes the binder calls. Each call is one action up to its wait and one action after it:

| call | to the wait | after the wait |
|---|---|---|
| `doCheckNdef` | `DoCheckNdef` | `CkWake` |
| `doRead` | `DoRead` | `RdWake` |
| `doWrite` | `DoWrite` | `WrFormatWake` (format first), then `WrReset` and `WrWake` |
| `doNdefFormat` | `DoNdefFormat` | `FmWake` |
| `doMakeReadonly` | `DoMakeReadonly` | `MrWake` |
| `doTransceive` | `DoTransceive` | `TrWake` (notified) or `TrTimeout` (its timeout) |

**The callback thread** runs `nfaConnectionCallback`'s handlers: `CbNdefDetect`, `CbNdefData`, `CbReadCplt`, `CbIntfError` (`notifyRfTimeout`, then `doReadCompleted`), `CbData` (`doTransceiveStatus`), `CbWriteCplt`, `CbFormatCplt`, `CbSetTagRo`, `CbDeactivated` (with `abortWaits`) and `CbActivated`.

**The NFA** answers the commands in order (`NfaAnswer`). A tag leaving (`TagLeave`) drops its pending commands and queues `NFA_DEACTIVATED_EVT`. A new tag (`TagArrive`) comes only after that.

Each semaphore is a count:

- `sem_init` sets it to 0;
- `sem_destroy` leaves it (as bionic does), so a post after it is counted until the next `sem_init`.

`sReadEvent` and `sTransceiveEvent` are `SyncEvent` bits (`readSig`, `trSig`). `sRxDataBuffer` holds, for each chunk, the call whose frame it answers; the bytes are left out, so the reconnect `doTransceive` makes after a Type 2 NACK or a one-byte MIFARE answer is not modelled.

Two constants name the timing the code relies on. `LateAnswers` lets a transceive time out while its frame is still being answered (an application can set a transceive timeout shorter than the tag takes). `StaleDeactivation` lets a new tag be activated before the callback thread has handled the old tag's `NFA_DEACTIVATED_EVT`. `own` is a ghost variable: it holds the answers to the current call's own commands, and the properties compare results with it.

### `NfcManager`

**The caller thread** is the NFC service, making one JNI call at a time (`calls` counts them, up to `MaxCalls`). A call is a sequence of steps held in `todo`; a step's condition is evaluated when the step is reached, as the code's `if`s are. Each waiting step takes the event's guard, issues its `NFA_*` command and waits under the guard, so issue and wait are one action. `pc` is `idle`, `run` or `wait`; `waitOn` and `sig` are the caller's `SyncEvent`.

| JNI call | entry action | steps (actions) |
|---|---|---|
| `doInitialize` | `DoInitialize` | `RunEnable`, `EnableWake`, `RunEeRegister` (`RoutingManager::initialize`), `EeRegisterWake`, `RunTagInit` (`NfcTag::initialize`), `RunGetCfg`, `RunInitEnd` (startup config and `configNfccConfigControl`) |
| `doDeinitialize` | `DoDeinitialize` | `RunEeShutdown` (`onNfccShutdown`, skipped while recovering), `RunDisable`, `RunDeinitEnd` |
| `enableDiscovery` | `EnableDiscovery` | `RunRf` (stop), `RunReader` / `RunReaderNoTech` (polling, reader mode, listening), `RunRoute`, `RunRf` (start), `RunDiscOn` |
| `disableDiscovery` | `DisableDiscovery` | `RunRf` (stop), `RunStopPoll`, `RunDiscOff` |
| `commitRouting` | `CommitRouting` | `RunRf`, `RunCommit`, `RunRf` |
| `doSetScreenState` | `DoSetScreenState` | `RunPwr1`, `RunScreenCfg`, `RunPwr2`, `RunScreenEnd` |
| `doStartStopPolling` | `DoStartStopPolling` | `RunRf`, `RunSetCfg`, `RunStartPoll` / `RunStopPoll`, `RunRf` |
| `setDiscoveryTech` / `resetDiscoveryTech` | `SetDiscoveryTech` / `ResetDiscoveryTech` | `RunRf`, `RunChTech`, `RunRf` |

`RfWake`, `EnableWake`, `EeRegisterWake` and `PlainWake` end a wait and record what the code reads after it (`sRfEnabled`, the stack state, `sRoutingInitialized`).

**The callback thread** runs `CbPollingEvent` (the discovery and polling events of `nfaConnectionCallback`), `CbUnhandled` (`NFA_LISTEN_DISABLED_EVT`, which falls to `default`), `CbEnable`, `CbDisable`, `CbDmNotify` (set/get config, power sub-state), `CbEeEvent` (`RoutingManager::nfaEeCallback`) and the two branches of the transport-error handler: `CbFatalRecover` (with `recovery_option`: `sIsRecovering` is set and only the events in `RecoveryWakes` are notified) and `CbFatalAbort` (without it: `abort()`, modelled as the restart of the process with its statics initialized and the stack down).

**The NFA stack** (`NfaApply`, spec-modelled) answers accepted commands in order; `RefusableCmds` may return a failure status, in which case nothing is queued. `NfaFatal` makes the controller fail at most `MaxFatal` times; a failed controller answers every command with `NFA_DM_NFCC_TIMEOUT_EVT`, which the code handles like the transport error. `recovery_option` is read from the configuration at start and is chosen at `Init` from `RecoveryOptions`, so one run covers both branches.

**Multi-protocol discovery.** While discovery runs, the controller (`NfccDiscover`, spec-modelled) finds a target and reports it from `Rounds`. A list of one is activated at once (`NFA_ACTIVATED_EVT`). A longer list is reported one `NFA_DISC_RESULT_EVT` per candidate, with the more flag on all but the last, and the controller then waits for a host select (`rf = "w4sel"`). `NfccTagLeaves` removes an active target. `RfApply` carries out `NFA_Select(i)` and `NFA_Deactivate(sleep)` in controller order. A select is honoured only while the controller waits for one, and otherwise answers `NFA_SELECT_RESULT_EVT` with an error. A deactivation that does not apply answers `NFA_DEACTIVATE_FAIL_EVT`. Stopping discovery or disabling the stack first deactivates a selected target (`Leave`).

On the callback thread:

- `CbDiscResult` records the candidate and runs `HandleRfDiscoveryEvent`, which counts the non-NFC-DEP candidates and, after the last one, sets the multi-protocol flag, decrements the counter and selects the first candidate (`SelectFirstTag`).
- `CbActivated` clears the counter on a T5T activation. Unless the stack is disabling or off, it issues `NFA_Deactivate(FALSE)` for a target found with the screen off (and not always polling), then `NFA_Deactivate(TRUE)` while the counter is non-zero.
- `CbDeactivated` runs `SelectNextTagIfExists` and, on any deactivation but to sleep, ends the candidate list.
- `CbSelectResult` deactivates to idle unless the stack is disabling.

`NfcTag` is not in this repository. `selectFirstTag`, `selectNextTagIfExists` and `initialize` are modelled from the spec and the code's comments: the first candidate is selected; while the counter is non-zero and a further candidate was recorded, the counter is decremented and that candidate selected; and `initialize` clears the counter, the flag and the list. `gIsSelectingRfInterface` (the reselect branch of the activation handler) and listen-mode activations belong to `NfcTagRf` and `RoutingManager`, and are taken as false here.

Two assumptions come from the code's comments, not from code in this repository: `NFA_ChangeDiscoveryTech` is answered by `NFA_LISTEN_ENABLED_EVT` (the `NFA_LISTEN_DISABLED_EVT` the comment waits for is not handled and would never wake the caller), and the controller's power sub-state before the first `NFA_SetPowerSubStateForScreenState` is its switched-on default (`DefaultSub`).

## 3. Runs

| run | cfg | checks | result |
|---|---|---|---|
| `tag_reselect` | `NfcTagRf.cfg` | `TypeOK`, `SuccessOnlyAfterActivation`, `HostMirrorsController`, `CallReturns` | pass |
| `tag_presence` | `NfcTagRf_Presence.cfg` | `PresenceReturns` | pass |
| `presence_false_absence` | `NfcTagRf_NoFalseAbsence.cfg` | `NoFalseAbsence` | violation |
| `routing_stale_ee_route` | `RoutingTechRoute_AtMostOneOwner.cfg` | `AtMostOneOwner` | violation |
| `routing_sync` | `RoutingManager.cfg` | `NoWaitWithoutAnswer`, `CallsReturn` | pass |
| `routing_lost_topology` | `RoutingManager_TopologyApplied.cfg` | `TopologyApplied` | violation |
| `routing_host` | `RoutingManager_Host.cfg` | `NoWaitWithoutAnswer`, `CallsReturn` | pass |
| `routing_isodep_guard_reentry` | `RoutingManager_IsoDepGuard.cfg` | `CallsReturn` | violation |
| `ndef_ops` | `NdefOps.cfg` | `TypeOK`, `CallsReturn`, `TransceiveResultIsOwn`, `WriteTrueOnlyIfWritten` | pass |
| `transceive_late_response` | `NdefOps_TransceiveLateAnswer.cfg` | `TransceiveResultIsOwn` | violation |
| `nfc_manager` | `NfcManager.cfg` | `TypeOK`, `ArbitrationEndsAwake`, `CallsReturnWithoutRecovery` | pass |
| `nfc_manager_recovery_hang` | `NfcManager_RecoveryHang.cfg` | `CallsReturn` | violation |

`SuccessOnlyAfterActivation` is the one property of `tag_reselect` about a result: its mutant, which drops `sConnectOk = false` after the select, lets a second connect whose deactivate wait timed out be woken by the late sleep notify and return the first select's success.

`DiscoveryRunsWhenEnabled`, `ScreenSubStateMatches` and `T3tHandleIsOwn` are not checked by any passing run: the passing cfgs would hold them only by never refusing the command or never starting a call in the window that breaks them. Their counterexamples are in section 4.

The project keeps one violation run per component question. Section 4 lists the further counterexamples, and one further passing check (`RoutingTechRoute.cfg`, `ClaimedNotOnHost`), whose cfg files are kept beside the modules. Each of them is a property of the module, and TLC finds it violated under its cfg.

Every property of a passing run has a mutant in `PROJECT.json`: a plausible bug in a mapped definition that makes TLC report the property violated.

### Bounds

**NfcTagRf.** The bounds are `MaxOps = 2` calls and `MaxFieldChanges = 2`, with NFA calls allowed to fail. These are enough for:

- a connect followed by a reconnect;
- a loss of the tag followed by its rediscovery;
- every error branch of reSelect.

The stale-activation trace needs two calls and a timeout, and the lost-activation trace needs one call. With `MaxOps = 3` the liveness run no longer finishes in minutes. The presence run makes one check with one retry, racing one reselect.

**RoutingTechRoute.** It uses two interchangeable EEs (symmetry), every topology of up to two entries, and two values of each listen mask.

**RoutingManager.** It uses one EE with three topologies (all technologies, F only, absent), three calls, and one hot-plug. `routing_host` has no hot-plug, so it can cover its larger set of calls in time; its three calls reach initialize, a T3T registration with or without its system-code route, started while answers of earlier calls may still be in flight, and its deregistration. Handles range over `1..MaxCalls`, one per possible registration.

**NdefOps.** Up to four calls from all six are made, every command but the read may be refused, and the tag may leave and a tag come back (two field changes). Four calls reach a check followed by a write with format first, and two transceives around a timeout. `ndef_ops` takes `LateAnswers` and `StaleDeactivation` FALSE: the callback thread handles a departure before a new tag is activated (rediscovery takes a polling cycle), and the transceive timeout outlasts the controller's answer. Under these, a stale post or a late response cannot happen, and the pass run checks that nothing else produces one. The violation run and the cfgs of section 4 set one of the two constants TRUE; every trace needs at most three calls.

**NfcManager.** The service makes three calls (`MaxCalls = 3`) from all nine, the controller may report NCI 1 or 2, the recovery option may be on or off, and the controller may fail once (`MaxFatal = 1`). `nfc_manager` lets every command except RF start, power sub-state and SetConfig be refused; those three are refused in the cfgs of section 4, whose traces they produce. Three calls reach initialize, enable discovery and a third call (disable, screen, polling, deinitialize) with a failure in any of them, which is every trace the properties need; four calls take two minutes and add no new action. The recovery-hang trace needs one call and one failure. The controller makes one discovery (`MaxRounds = 1`): a tag reported with two protocols (`MC_Rounds`). That exercises the whole arbitration: count, select, deactivate to sleep, select the next. Its second activation is the activation of a lone tag. The discovery interleaves with the third call, the screen state, the tag leaving and the transport error. A second discovery or a second candidate list more than doubles the run, most of it in checking the liveness property. The T5T exception of the activation handler is in the model but is not exercised by this run. A T5T reported first would exercise it, and would end the arbitration at once on the T5T. The other `NfcManager` cfgs set `MaxRounds = 0`.

### Fairness

Fairness is weak on the application or caller thread, on the callback thread, and on the controller's answers to accepted commands. It is justified as follows:

- every wait in reSelect and in the presence check has a timeout;
- the callback thread handles every event it is given;
- the NFA stack answers every command it accepted, or reports that the tag left.

In `NfcManager` the caller is fair only while it is in a call (`pc # "idle"`): the service need not make another call. The waits in this file have no timeout, so a call returns only through its answer or the fatal-error handler.

Nothing forces a tag to leave or an EE to be hot-plugged. So a routing or NDEF wait without a timeout must end through the answer to its own command, or in the NDEF case through the abort.

`Finished` is the stuttering end of a bounded run. It is enabled only when no call is left to make and nothing is in flight, so deadlock checking stays on. The exceptions are `NdefOps_ReadRefused.cfg`, whose trace is a wait that never ends, and the `NfcManager` cfgs: with `recovery_option` the code lets a caller wait for ever on an event the recovery does not notify (the finding below), which is a deadlock of the model, so those cfgs check the wait as the liveness property `CallsReturn` (`CallsReturnWithoutRecovery` in the pass run) instead.

## 4. Findings

These are the findings of the violation runs:

- **presence_false_absence** (`NativeNfcTag.cpp:1360`): the presence check releases `sRfInterfaceMutex` right after `tryLock`, so a reSelect can start before the check runs. The check then reports absent a tag that is in the field.
- **routing_stale_ee_route** (`RoutingManager.cpp:909`): an EE that stops listening on F keeps its old F route, and the host is given F too.
- **routing_lost_topology** (`RoutingManager.cpp:411`): a hot-plug event handled during `commitRouting` is lost, because `mEeInfoChanged` is cleared after the recompute.
- **routing_isodep_guard_reentry** (`RoutingManager.cpp:772`): the guard on `mRoutingEvent` is taken twice on one thread, and the thread deadlocks.
- **transceive_late_response** (`NativeNfcTag.cpp:987`): a `doTransceive` whose wait times out reports the tag lost, and its frame is still answered. The next `doTransceive` clears the buffer and sends its own frame, and `doTransceiveStatus`, which cannot tell which frame a chunk answers, takes the late response and notifies. The second call returns the first frame's response.
- **nfc_manager_recovery_hang** (`NativeNfcManager.cpp:864`): the recovery branch of the transport-error handler notifies the device-management events and `mEeUpdateEvent`, but not `mEeRegisterEvent`, `mRoutingEvent` or `mEeSetModeEvent`. A failure while `doInitialize` waits in `RoutingManager::initialize` for `NFA_EE_REGISTER_EVT` leaves it blocked for ever, although the spec requires both fatal paths to leave no caller blocked.

These are the further counterexamples, each reproduced by its cfg:

| cfg | property | what the trace shows |
|---|---|---|
| `NfcTagRf_ConnectedOnRequestedInterface.cfg` | `ConnectedOnRequestedInterface` | A select wait times out and reSelect exits. The next doReconnect takes the late activation as its own answer, and returns SUCCESS on the frame interface although it asked for ISO-DEP (`NativeNfcTag.cpp:729`). |
| `NfcTagRf_PresentOnlyOnAnswer.cfg` | `PresentOnlyOnAnswer` | The abort's notify is taken as an answer, and `sIsTagPresent` was just reset to true, so the removed tag is reported present (`NativeNfcTag.cpp:1395`). |
| `RoutingTechRoute_RoutesMatchReference.cfg` | `RoutesMatchReference` | When the off-host route EE is present but does not listen on A or B, A and B go nowhere (`RoutingManager.cpp:889`). |
| `RoutingManager_OwnAidResult.cfg` | `OwnAidResult` | The zero-length AID's unawaited event answers a later `addAidRouting` (`RoutingManager.cpp:825`). |
| `RoutingManager_HostRoutingSparesEeTechs.cfg` | `HostRoutingSparesEeTechs` | The mask that `updateTechnologyABFRoute` returns is dropped, so `enableRoutingToHost` routes to the host a technology that an EE owns (`NativeNfcManager.cpp:2308`). |
| `NdefOps_WriteResultIsOwn.cfg` | `WriteResultIsOwn` | `sWriteOk = false` comes after the write is issued, so a fast success is reported as a failure (`NativeNfcTag.cpp:475`). |
| `NdefOps_CheckNdefResultIsOwn.cfg` | `CheckNdefResultIsOwn` | A check released by the abort returns an earlier detection's status (`NativeNfcTag.cpp:1233`). |
| `NfcTagRf_NoSpuriousSelectFailure.cfg` | `NoSpuriousSelectFailure` | reSelect resets `sConnectOk` after issuing `NFA_Select`, and `nativeNfcTag_doConnectStatus` sets it outside the guard. An activation handled between the two is erased; reSelect retries for 1.5 s and returns 1 while the tag is Active on the requested interface (`NativeNfcTag.cpp:728`). |
| `NfcManager_ScreenPartialFailure.cfg` | `ScreenSubStateMatches` | The new power sub-state is sent, then the screen `SetConfig` is refused and `doSetScreenState` returns before `prevScreenState` is set: the controller is in the new state and the JNI records the old one (`NativeNfcManager.cpp:2091`). |
| `NfcManager_P2PSleep.cfg` | `SleepOnlyForMultiProtocol` | A peer is reported twice, both times with NFC-DEP. `handleRfDiscoveryEvent` counts neither candidate, leaves `numDiscNtf` at -1 without setting the multi-protocol flag, and selects the first. The activation handler tests the counter, not the flag, and deactivates the peer to sleep (`NativeNfcManager.cpp:276`, `:459`). The conclusion does not depend on the counter's width: -1, or its unsigned wrap, is non-zero either way. |
| `NfcManager_RfEnabledStale.cfg` | `RfEnabledMatchesDiscovery` | `doDeinitialize` clears the discovery and polling flags but not `sRfEnabled`, and disabling the stack stops RF discovery without `startRfDiscovery`. After initialize, enableDiscovery, deinitialize and initialize, the stack is up with discovery stopped while `sRfEnabled` (what `isDiscoveryStarted` returns) is still true (`NativeNfcManager.cpp:1854`). `nfc_manager`'s three calls never re-initialize. |
| `NfcManager_StartRefused.cfg` | `DiscoveryRunsWhenEnabled` | `enableDiscovery` sets `sDiscoveryEnabled` although `startRfDiscovery` was refused, so discovery is reported on and is off (`NativeNfcManager.cpp:1728`). |
| `NdefOps_StaleAbortWrite.cfg` | `WriteTrueOnlyIfWritten` | An abort for a tag that already left releases the next tag's write. The write's completion then answers a later write, which returns true before its own write completes (`NativeNfcTag.cpp:153`). |
| `NdefOps_TransceivePartial.cfg` | `TransceiveDataOnlyIfComplete` | The same stale abort wakes a transceive to the new tag after the first `NFC_STATUS_CONTINUE` chunk, and `doTransceive` returns that chunk as the whole response (`NativeNfcTag.cpp:157`). |
| `RoutingManager_T3tLateAnswer.cfg` | `T3tHandleIsOwn` | Without SCBR, a registration's wait is woken by a late route answer of `initialize` and returns `NFA_HANDLE_INVALID` while its registration is in flight. The next registration is woken by that registration's `NFA_CE_REGISTERED_EVT` and returns its handle as its own (`RoutingManager.cpp:1199`). |
| `RoutingManager_T3tHotPlug.cfg` | `T3tHandleIsOwn` | The system-code route fails, and an EE hot-plug's `NFA_EE_DISCOVER_REQ_EVT` overwrites `mCbEventData` before the caller reads its status, so the registration returns a valid handle without its route (`RoutingManager.cpp:1213`). |
| `RoutingManager_T3tOrphan.cfg` | `T3tRegistrationsHeld` | The system-code route is refused, and `registerT3tIdentifier` returns `NFA_HANDLE_INVALID` without deregistering the NFC-F registration it made, which no handle now names (`RoutingManager.cpp:1214`). |
| `NdefOps_ReadRefused.cfg` | `CallsReturn` | The status of `NFA_RwReadNDef` is not checked, so a refused read waits with no timeout until the tag leaves (`NativeNfcTag.cpp:333`). |

## 5. Not modelled, and the plan

These are the next modules, most important first:

1. The transceive's reconnects (Type 2 NACK, MIFARE) and `performHaltPICC`'s HALT-B wait on `sTransceiveEvent`, which need `NfcTagRf`'s reselect composed with `NdefOps`.
2. The fatal-error bridge's waiters in the tag and routing modules: composing `CbFatalRecover` with `NfcTagRf` and `RoutingManager`, so that a failure reaches a caller blocked in reselect or in an AID update.
3. An abstract `Idle`/`Active`/`Sleep` specification of the tag, refined by `NfcTagRf` through an `INSTANCE ... WITH` mapping.

These parts of `NfcManager`'s code are left out: the failure status of `NFA_DISC_RESULT_EVT`, which clears the counter but which the model's controller never reports; the tag disconnect `doSetScreenState` makes on screen off, the rest of `RoutingManager::initialize` after its registration wait (the EE-info wait and the default-route waits are modelled in `RoutingManager` and not composed into doInitialize, so `sRoutingInitialized` is set when the registration wait ends), the per-EE loop of `onNfccShutdown` (one mode-set wait stands for it), `sAbortConnlessWait`, `gActivated` (kept by the tag module), the effect of `setEeTechRouteUpdateRequired`, the partial initialization modes, and the `PowerSwitch` level changes (a power-state abstraction outside this repository).

These parts are not modelled, and will not be:

- NfcTag internals (not in this repository);
- the JNI marshalling in `NfcJniUtil.h` and `JavaClassConstants.h`;
- observe mode, vendor commands, WLC, T4T NFCEE and HCI, which are pass-throughs to code outside this repository;
- NDEF encoding, and the sizes and contents of messages.
