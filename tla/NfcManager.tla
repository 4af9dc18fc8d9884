----------------------------- MODULE NfcManager -----------------------------
(***************************************************************************)
(* Discovery, polling, screen-state and stack control of                   *)
(* NativeNfcManager.cpp, with its device-management callback and the      *)
(* fatal-error bridge. Three actors:                                      *)
(*  - the caller thread: the NFC service calling doInitialize,             *)
(*    doDeinitialize, enableDiscovery, disableDiscovery, commitRouting,    *)
(*    doSetScreenState, doStartStopPolling, setDiscoveryTech and           *)
(*    resetDiscoveryTech, one at a time;                                   *)
(*  - the NFA callback thread running nfaConnectionCallback,               *)
(*    nfaDeviceManagementCallback and RoutingManager::nfaEeCallback;       *)
(*  - the NFA stack and controller, which answer the commands they        *)
(*    accepted in order, and may fail with a transport error or a          *)
(*    command timeout (NFA_DM_NFCC_TRANSPORT_ERR_EVT / _TIMEOUT_EVT).      *)
(*                                                                         *)
(* A helper takes a SyncEvent's guard, issues its command and waits under *)
(* the guard (SyncEvent::wait() has no timeout here), so issue and wait   *)
(* are one step. A call is a run of such steps, kept in todo; a step's    *)
(* condition is evaluated when it is reached, as the code does.           *)
(***************************************************************************)
EXTENDS Integers, Sequences

CONSTANTS
  RecoveryOptions, \* values of recovery_option (NAME_RECOVERY_OPTION)
  NciVersions,     \* NCI versions the controller may report (1 or 2)
  RefusableCmds,   \* NFA_* commands that may return a failure status
  Calls,           \* the JNI calls the service may make
  MaxCalls,        \* calls the service makes
  MaxFatal,        \* transport errors the controller may report
  Rounds,          \* the candidate protocol lists a discovery may report
  MaxRounds        \* discoveries the controller makes

ASSUME RecoveryOptions \subseteq BOOLEAN /\ NciVersions \subseteq {1, 2}
       /\ MaxCalls \in Nat /\ MaxFatal \in Nat
       /\ MaxRounds \in Nat /\ \A r \in Rounds : Len(r) > 0

\* NFA_PROTOCOL_NFC_DEP and NFC_PROTOCOL_T5T
NFC_DEP == "NFC_DEP"
T5T == "T5T"

\* NFA_SCREEN_STATE_*; the controller's power sub-state before it is first
\* set is the switched-on state
Screens == {"OFF_LOCKED", "OFF_UNLOCKED", "ON_LOCKED", "ON_UNLOCKED"}
DefaultSub == "DEFAULT"

\* the SyncEvent each waiting helper blocks on
Events == {"none", "polling", "enable", "disable", "setconfig", "getconfig",
           "powersub", "routing", "eeupdate", "eereg", "setmode"}

\* the events the recovery branch of the fatal-error handler notifies
RecoveryWakes == {"polling", "enable", "disable", "powersub", "setconfig",
                  "getconfig", "eeupdate"}

VARIABLES
  \* static flags of NativeNfcManager.cpp
  sIsNfaEnabled, sIsDisabling, sDiscoveryEnabled, sPollingEnabled,
  sRfEnabled, sReaderModeEnabled, sIsRecovering, sIsAlwaysPolling,
  sRoutingInitialized, prevScreenState,
  \* the caller's SyncEvent: the event it waits on, and whether notified
  waitOn, sig,
  \* the caller thread: idle, running a step, or waiting; the steps left
  \* of the current call, and the calls made
  pc, todo, calls,
  \* the NFA stack and controller: off, on or failed ("dead"); the NCI
  \* version; whether RF discovery runs; the power sub-state; commands
  \* accepted and not answered; events not yet delivered; errors so far;
  \* and the configured recovery_option, read when the service starts
  nfa, nci, recovery_option, disc, sub, cmdq, evq, fatals,
  \* the controller's RF state once discovery runs (idle: discovering;
  \* w4sel: waiting for the host to select, after several candidates were
  \* reported or a deactivation to sleep; active), the candidates of the
  \* current discovery, and the discoveries made
  rf, found, rounds,
  \* NfcTag's discovery bookkeeping: the discovery-notification counter,
  \* the multi-protocol flag, the candidates recorded and the one selected
  numDiscNtf, multiProto, discTechs, selIdx

discFlags == <<sDiscoveryEnabled, sPollingEnabled, sRfEnabled, sReaderModeEnabled>>
stackFlags == <<sIsNfaEnabled, sIsDisabling, sIsRecovering, sRoutingInitialized>>
screenVars == <<sIsAlwaysPolling, prevScreenState>>
jniVars == <<sIsNfaEnabled, sIsDisabling, sDiscoveryEnabled, sPollingEnabled,
             sRfEnabled, sReaderModeEnabled, sIsRecovering, sIsAlwaysPolling,
             sRoutingInitialized, prevScreenState>>
syncVars == <<waitOn, sig>>
callVars == <<pc, todo, calls>>
rfVars == <<rf, found, rounds>>
tagVars == <<numDiscNtf, multiProto, discTechs, selIdx>>
arbVars == <<rfVars, tagVars>>
nfaVars == <<nfa, nci, recovery_option, disc, sub, cmdq, evq, fatals, arbVars>>
vars == <<jniVars, syncVars, callVars, nfaVars>>

\* A step of a call: its kind, a flag (start or stop, reader mode, a
\* technology mask given) and a screen state
St(k, b, s) == [k |-> k, b |-> b, s |-> s]
S(k) == St(k, FALSE, "none")
When(c, s) == IF c THEN s ELSE <<>>

\* whether an NFA_* call returns NFA_STATUS_OK
Accepts(k) == IF k \in RefusableCmds THEN BOOLEAN ELSE {TRUE}
Cmd(k, s) == [k |-> k, s |-> s]

\* NfcTag::initialize: no target and no candidates recorded
TagInit == numDiscNtf = 0 /\ multiProto = FALSE /\ discTechs = 0 /\ selIdx = 0
TagReset == numDiscNtf' = 0 /\ multiProto' = FALSE /\ discTechs' = 0 /\ selIdx' = 0

\* the static initializers of a freshly started service process
ProcessInit ==
  /\ sIsNfaEnabled = FALSE /\ sIsDisabling = FALSE
  /\ sDiscoveryEnabled = FALSE /\ sPollingEnabled = FALSE
  /\ sRfEnabled = FALSE /\ sReaderModeEnabled = FALSE
  /\ sIsRecovering = FALSE /\ sIsAlwaysPolling = FALSE
  /\ sRoutingInitialized = FALSE /\ prevScreenState = "OFF_LOCKED"
  /\ waitOn = "none" /\ sig = FALSE /\ pc = "idle" /\ todo = <<>>

Init ==
  /\ ProcessInit /\ calls = 0
  /\ nfa = "off" /\ nci \in NciVersions /\ recovery_option \in RecoveryOptions
  /\ disc = FALSE /\ sub = DefaultSub
  /\ cmdq = <<>> /\ evq = <<>> /\ fatals = 0
  /\ rf = "idle" /\ found = <<>> /\ rounds = 0 /\ TagInit
-----------------------------------------------------------------------------
(* Helpers of the caller thread                                           *)

Issue(cs) == cmdq' = cmdq \o cs

\* SyncEvent::wait() under the guard taken before the command was issued
Wait(e) == waitOn' = e /\ sig' = FALSE /\ pc' = "wait"

\* the current step is done; the call goes on with the next or returns
Advance == todo' = Tail(todo) /\ pc' = IF Tail(todo) = <<>> THEN "idle" ELSE "run"
Return == todo' = <<>> /\ pc' = "idle"
Begin(steps) == todo' = steps /\ pc' = IF steps = <<>> THEN "idle" ELSE "run"

\* A call starts; the service makes every call but doInitialize and
\* doSetScreenState only while the stack is enabled
Call(name) == pc = "idle" /\ calls < MaxCalls /\ name \in Calls
              /\ calls' = calls + 1
Service(name) == Call(name) /\ sIsNfaEnabled

Step(k) == pc = "run" /\ Head(todo).k = k
Cur == Head(todo)

\* recovery_option && sIsRecovering: a silent recovery is under way
Recovering == recovery_option /\ sIsRecovering

\* NfcAdaptation::Finalize: the stack task and the HAL are shut down
Finalize == nfa' = "off" /\ disc' = FALSE /\ sub' = DefaultSub
            /\ cmdq' = <<>> /\ evq' = <<>> /\ rf' = "idle" /\ found' = <<>>

\* startRfDiscovery(isStart)
RF(isStart) == St("RF", isStart, "none")

-----------------------------------------------------------------------------
(* The JNI calls                                                          *)

\* nfcManager_doInitialize: clears sIsRecovering; nothing more to do if
\* the stack is already enabled
DoInitialize ==
  /\ Call("initialize")
  /\ sIsRecovering' = FALSE
  /\ Begin(When(~sIsNfaEnabled, <<S("ENABLE")>>))
  /\ UNCHANGED <<discFlags, sIsNfaEnabled, sIsDisabling, sRoutingInitialized,
                 screenVars, syncVars, nfaVars>>

\* nfcManager_doDeinitialize: the routing shutdown is skipped during a
\* silent recovery
DoDeinitialize ==
  /\ Service("deinitialize")
  /\ sIsDisabling' = TRUE
  /\ Begin(When(~Recovering, <<S("EESHUTDOWN")>>) \o <<S("DISABLE"), S("DEINITEND")>>)
  /\ UNCHANGED <<discFlags, sIsNfaEnabled, sIsRecovering, sRoutingInitialized,
                 screenVars, syncVars, nfaVars>>

\* nfcManager_enableDiscovery(technologies_mask, reader_mode, restart): the
\* technology mask is zero or not; host routing is enabled or disabled
\* and committed either way
EnableDiscovery ==
  /\ Service("enableDiscovery")
  /\ \E techs, readerMode, restart \in BOOLEAN :
       IF sDiscoveryEnabled /\ ~restart
         THEN Begin(<<>>)
         ELSE Begin(When(sRfEnabled, <<RF(FALSE)>>)
                    \o (IF techs
                          THEN <<S("STOPPOLL"), S("STARTPOLL"),
                                 St("READER", readerMode, "none")>>
                          ELSE <<St("READER_NOTECH", readerMode, "none"),
                                 S("STOPPOLL")>>)
                    \o <<S("ROUTE"), S("COMMIT"), RF(TRUE), S("DISCON")>>)
  /\ UNCHANGED <<jniVars, syncVars, nfaVars>>

\* nfcManager_disableDiscovery
DisableDiscovery ==
  /\ Service("disableDiscovery")
  /\ Begin(When(sDiscoveryEnabled, <<RF(FALSE), S("DISOFF")>>))
  /\ UNCHANGED <<jniVars, syncVars, nfaVars>>

\* nfcManager_commitRouting: RF discovery is stopped if it runs, and
\* started after the commit in any case
CommitRouting ==
  /\ Service("commitRouting")
  /\ Begin(When(sRfEnabled, <<RF(FALSE)>>) \o <<S("COMMIT"), RF(TRUE)>>)
  /\ UNCHANGED <<jniVars, syncVars, nfaVars>>

\* nfcManager_doSetScreenState(state, alwaysPoll): returns at once on the
\* same state; records the state without telling the controller when the
\* stack is off or disabling, the controller is not NCI 2.0, or a silent
\* recovery runs
DoSetScreenState ==
  /\ Call("setScreenState")
  /\ \E st \in Screens, alwaysPoll \in BOOLEAN :
       /\ sIsAlwaysPolling' = alwaysPoll
       /\ CASE prevScreenState = st ->
                 Begin(<<>>) /\ UNCHANGED prevScreenState
            [] sIsDisabling \/ ~sIsNfaEnabled \/ nci # 2 \/ Recovering ->
                 Begin(<<>>) /\ prevScreenState' = st
            [] OTHER ->
                 /\ Begin(<<St("PWR1", FALSE, st), St("SCREENCFG", FALSE, st),
                            St("PWR2", FALSE, st), St("SCREENEND", FALSE, st)>>)
                 /\ UNCHANGED prevScreenState
  /\ UNCHANGED <<discFlags, stackFlags, syncVars, nfaVars>>

\* nfcManager_doStartStopPolling / startStopPolling(isStartPolling): NCI 2.0
\* sets CON_DISCOVERY_PARAM; an older controller has polling stopped or
\* started with RF discovery stopped around it
DoStartStopPolling ==
  /\ Service("startStopPolling")
  /\ \E start \in BOOLEAN :
       Begin(IF nci >= 2
               THEN <<St("SETCFG", start, "none")>>
               ELSE <<RF(FALSE), S(IF start THEN "STARTPOLL" ELSE "STOPPOLL"),
                      RF(TRUE)>>)
  /\ UNCHANGED <<jniVars, syncVars, nfaVars>>

\* nfcManager_setDiscoveryTech and nfcManager_resetDiscoveryTech: one
\* NFA_ChangeDiscoveryTech waited for on sNfaEnableDisablePollingEvent
SetDiscoveryTech ==
  /\ Service("setDiscoveryTech")
  /\ Begin(<<S("CHTECH")>>)
  /\ UNCHANGED <<jniVars, syncVars, nfaVars>>

ResetDiscoveryTech ==
  /\ Service("resetDiscoveryTech")
  /\ Begin(<<S("CHTECH")>>)
  /\ UNCHANGED <<jniVars, syncVars, nfaVars>>
-----------------------------------------------------------------------------
(* The steps of the calls                                                 *)

\* A helper that issues one command and, if the NFA accepts it, waits on
\* event e for its answer; a refused command is only logged
Await(k, c, e) ==
  /\ Step(k)
  /\ \E ok \in Accepts(c) :
       IF ok THEN Issue(<<Cmd(c, Cur.s)>>) /\ Wait(e) /\ UNCHANGED todo
             ELSE Advance /\ UNCHANGED <<cmdq, syncVars>>
  /\ UNCHANGED <<jniVars, calls, nfa, nci, recovery_option, arbVars, disc, sub, evq, fatals>>

\* startRfDiscovery: NFA_StartRfDiscovery or NFA_StopRfDiscovery, then a
\* wait for NFA_RF_DISCOVERY_STARTED_EVT or _STOPPED_EVT
RunRf == Await("RF", IF Cur.b THEN "START" ELSE "STOP", "polling")

\* enableRoutingToHost or disableRoutingToHost, each directive waited for
\* on mRoutingEvent
RunRoute == Await("ROUTE", "ROUTE", "routing")

\* RoutingManager::commitRouting: NFA_EeUpdateNow waited for on
\* mEeUpdateEvent
RunCommit == Await("COMMIT", "EEUPDATE", "eeupdate")

\* startStopPolling on NCI 2.0: CON_DISCOVERY_PARAM set with NFA_SetConfig
RunSetCfg == Await("SETCFG", "SETCFG", "setconfig")

\* NFA_ChangeDiscoveryTech, waited for on sNfaEnableDisablePollingEvent
RunChTech == Await("CHTECH", "CHTECH", "polling")

\* doInitialize reads LF_T3T_MAX with NFA_GetConfig
RunGetCfg == Await("GETCFG", "GETCFG", "getconfig")

\* RoutingManager::onNfccShutdown: the active EEs are deactivated with
\* NFA_EeModeSet, waited for on mEeSetModeEvent
RunEeShutdown == Await("EESHUTDOWN", "SETMODE", "setmode")

\* startPolling_rfDiscoveryDisabled: sPollingEnabled is set once
\* NFA_EnablePolling is accepted, before its event arrives
RunStartPoll ==
  /\ Step("STARTPOLL")
  /\ \E ok \in Accepts("ENPOLL") :
       IF ok THEN /\ sPollingEnabled' = TRUE /\ Issue(<<Cmd("ENPOLL", "none")>>)
                  /\ Wait("polling") /\ UNCHANGED todo
             ELSE Advance /\ UNCHANGED <<sPollingEnabled, cmdq, syncVars>>
  /\ UNCHANGED <<sDiscoveryEnabled, sRfEnabled, sReaderModeEnabled, stackFlags,
                 screenVars, calls, nfa, nci, recovery_option, arbVars, disc, sub, evq, fatals>>
\* Mutant: polling is marked stopped and waited for even when
\* NFA_DisablePolling is refused
RunStopPollWaitOnRefusal ==
  /\ Step("STOPPOLL")
  /\ \E ok \in Accepts("DISPOLL") :
       /\ sPollingEnabled' = FALSE /\ Wait("polling") /\ UNCHANGED todo
       /\ IF ok THEN Issue(<<Cmd("DISPOLL", "none")>>) ELSE UNCHANGED cmdq
  /\ UNCHANGED <<sDiscoveryEnabled, sRfEnabled, sReaderModeEnabled, stackFlags,
                 screenVars, calls, nfa, nci, recovery_option, arbVars, disc, sub, evq, fatals>>


\* stopPolling_rfDiscoveryDisabled
RunStopPoll ==
  /\ Step("STOPPOLL")
  /\ \E ok \in Accepts("DISPOLL") :
       IF ok THEN /\ sPollingEnabled' = FALSE /\ Issue(<<Cmd("DISPOLL", "none")>>)
                  /\ Wait("polling") /\ UNCHANGED todo
             ELSE Advance /\ UNCHANGED <<sPollingEnabled, cmdq, syncVars>>
  /\ UNCHANGED <<sDiscoveryEnabled, sRfEnabled, sReaderModeEnabled, stackFlags,
                 screenVars, calls, nfa, nci, recovery_option, arbVars, disc, sub, evq, fatals>>

\* nfcManager_configNfccConfigControl: an NFA_SetConfig of
\* NFCC_CONFIG_CONTROL, not waited for, on a controller newer than NCI 1.0.
\* Commands issued without a wait have their status only logged; they are
\* issued here, since a refused one changes nothing but its event.
ConfigControl == When(nci # 1, <<Cmd("SETCFG", "none")>>)

\* Leaving reader mode: NFA_EnableListening and the configuration control,
\* neither waited for
LeaveReaderMode ==
  sReaderModeEnabled' = FALSE /\ Issue(<<Cmd("ENLISTEN", "none")>> \o ConfigControl)

\* enableDiscovery with a technology mask, once polling was (re)started:
\* reader mode is entered or left only if polling is enabled
RunReader ==
  /\ Step("READER")
  /\ CASE sPollingEnabled /\ Cur.b /\ ~sReaderModeEnabled ->
            /\ sReaderModeEnabled' = TRUE
            /\ Issue(<<Cmd("DISLISTEN", "none")>> \o ConfigControl)
       [] sPollingEnabled /\ ~Cur.b /\ sReaderModeEnabled -> LeaveReaderMode
       [] OTHER -> UNCHANGED <<sReaderModeEnabled, cmdq>>
  /\ Advance
  /\ UNCHANGED <<sDiscoveryEnabled, sPollingEnabled, sRfEnabled, stackFlags,
                 screenVars, syncVars, calls, nfa, nci, recovery_option, arbVars, disc, sub, evq, fatals>>

\* enableDiscovery without technologies: reader mode is left, then polling
\* is stopped
RunReaderNoTech ==
  /\ Step("READER_NOTECH")
  /\ IF ~Cur.b /\ sReaderModeEnabled THEN LeaveReaderMode
                                      ELSE UNCHANGED <<sReaderModeEnabled, cmdq>>
  /\ Advance
  /\ UNCHANGED <<sDiscoveryEnabled, sPollingEnabled, sRfEnabled, stackFlags,
                 screenVars, syncVars, calls, nfa, nci, recovery_option, arbVars, disc, sub, evq, fatals>>

\* enableDiscovery sets sDiscoveryEnabled once startRfDiscovery(true)
\* returns, whether or not the start was accepted
RunDiscOn ==
  /\ Step("DISCON") /\ sDiscoveryEnabled' = TRUE /\ Advance
  /\ UNCHANGED <<sPollingEnabled, sRfEnabled, sReaderModeEnabled, stackFlags,
                 screenVars, syncVars, calls, nfaVars>>

\* disableDiscovery after RF discovery was stopped: polling is stopped if
\* it is enabled
RunDiscOff ==
  /\ Step("DISOFF") /\ sDiscoveryEnabled' = FALSE
  /\ Begin(When(sPollingEnabled, <<S("STOPPOLL")>>) \o Tail(todo))
  /\ UNCHANGED <<sPollingEnabled, sRfEnabled, sReaderModeEnabled, stackFlags,
                 screenVars, syncVars, calls, nfaVars>>
\* doInitialize: NFA_Init and NFA_Enable, waited for on sNfaEnableEvent
RunEnable ==
  /\ Step("ENABLE") /\ Issue(<<Cmd("ENABLE", "none")>>) /\ Wait("enable")
  /\ UNCHANGED <<jniVars, todo, calls, nfa, nci, recovery_option, arbVars, disc, sub, evq, fatals>>

\* RoutingManager::initialize registers with NFA_EeRegister and waits on
\* mEeRegisterEvent; its result is sRoutingInitialized
RunEeRegister ==
  /\ Step("EEREG")
  /\ \E ok \in Accepts("REGISTER") :
       IF ok THEN Issue(<<Cmd("REGISTER", "none")>>) /\ Wait("eereg")
                  /\ UNCHANGED <<todo, sRoutingInitialized>>
             ELSE sRoutingInitialized' = FALSE /\ Advance
                  /\ UNCHANGED <<cmdq, syncVars>>
  /\ UNCHANGED <<discFlags, sIsNfaEnabled, sIsDisabling, sIsRecovering,
                 screenVars, calls, nfa, nci, recovery_option, arbVars, disc, sub, evq, fatals>>

\* doInitialize, stack enabled: NfcTag::initialize, after the routing
\* manager is initialized whatever its result
RunTagInit ==
  /\ Step("TAGINIT") /\ TagReset /\ Advance
  /\ UNCHANGED <<jniVars, syncVars, calls, nfa, nci, recovery_option, rfVars,
                 disc, sub, cmdq, evq, fatals>>

\* doInitialize, stack enabled: the screen state is taken to be off and
\* locked, and doStartupConfig ends with configNfccConfigControl(true)
RunInitEnd ==
  /\ Step("INITEND") /\ prevScreenState' = "OFF_LOCKED"
  /\ Issue(ConfigControl) /\ Advance
  /\ UNCHANGED <<discFlags, stackFlags, sIsAlwaysPolling, syncVars, calls,
                 nfa, nci, recovery_option, arbVars, disc, sub, evq, fatals>>

\* doDeinitialize: a graceful NFA_Disable, waited for on sNfaDisableEvent,
\* if the stack is enabled
RunDisable ==
  /\ Step("DISABLE")
  /\ IF sIsNfaEnabled
       THEN \E ok \in Accepts("DISABLE") :
              IF ok THEN Issue(<<Cmd("DISABLE", "none")>>) /\ Wait("disable")
                         /\ UNCHANGED todo
                    ELSE Advance /\ UNCHANGED <<cmdq, syncVars>>
       ELSE Advance /\ UNCHANGED <<cmdq, syncVars>>
  /\ UNCHANGED <<jniVars, calls, nfa, nci, recovery_option, arbVars, disc, sub, evq, fatals>>

\* doDeinitialize: the flags are cleared (sRfEnabled is not), the polling
\* event is notified (no other caller waits on it here), and the stack is
\* finalized
RunDeinitEnd ==
  /\ Step("DEINITEND")
  /\ sIsNfaEnabled' = FALSE /\ sRoutingInitialized' = FALSE
  /\ sDiscoveryEnabled' = FALSE /\ sPollingEnabled' = FALSE
  /\ sIsDisabling' = FALSE /\ sReaderModeEnabled' = FALSE
  /\ Finalize /\ Advance
  /\ UNCHANGED <<sRfEnabled, sIsRecovering, screenVars, syncVars, calls, nci, recovery_option,
                 rounds, tagVars, fatals>>

\* doSetScreenState: from an off or locked state the power sub-state is
\* set first; a refusal ends the call with prevScreenState unchanged
RunPwr1 ==
  /\ Step("PWR1")
  /\ IF prevScreenState \in {"OFF_LOCKED", "OFF_UNLOCKED", "ON_LOCKED"}
       THEN \E ok \in Accepts("PWR") :
              IF ok THEN Issue(<<Cmd("PWR", Cur.s)>>) /\ Wait("powersub")
                         /\ UNCHANGED todo
                    ELSE Return /\ UNCHANGED <<cmdq, syncVars>>
       ELSE Advance /\ UNCHANGED <<cmdq, syncVars>>
  /\ UNCHANGED <<jniVars, calls, nfa, nci, recovery_option, arbVars, disc, sub, evq, fatals>>

\* doSetScreenState: unless a recovery started, CON_DISCOVERY_PARAM is set
\* for the new state when not always polling; a refusal ends the call
\* with prevScreenState unchanged
RunScreenCfg ==
  /\ Step("SCREENCFG")
  /\ CASE Recovering ->
            prevScreenState' = Cur.s /\ Return /\ UNCHANGED <<cmdq, syncVars>>
       [] ~sIsAlwaysPolling ->
            /\ UNCHANGED prevScreenState
            /\ \E ok \in Accepts("SETCFG") :
                 IF ok THEN Issue(<<Cmd("SETCFG", "none")>>) /\ Wait("setconfig")
                            /\ UNCHANGED todo
                       ELSE Return /\ UNCHANGED <<cmdq, syncVars>>
       [] OTHER -> Advance /\ UNCHANGED <<prevScreenState, cmdq, syncVars>>
  /\ UNCHANGED <<discFlags, stackFlags, sIsAlwaysPolling, calls, nfa, nci, recovery_option, arbVars,
                 disc, sub, evq, fatals>>

\* doSetScreenState: unless a recovery started, a screen that was on and
\* unlocked has its power sub-state set last; a refusal is only logged
RunPwr2 ==
  /\ Step("PWR2")
  /\ CASE Recovering ->
            prevScreenState' = Cur.s /\ Return /\ UNCHANGED <<cmdq, syncVars>>
       [] prevScreenState = "ON_UNLOCKED" ->
            /\ UNCHANGED prevScreenState
            /\ \E ok \in Accepts("PWR") :
                 IF ok THEN Issue(<<Cmd("PWR", Cur.s)>>) /\ Wait("powersub")
                            /\ UNCHANGED todo
                       ELSE Advance /\ UNCHANGED <<cmdq, syncVars>>
       [] OTHER -> Advance /\ UNCHANGED <<prevScreenState, cmdq, syncVars>>
  /\ UNCHANGED <<discFlags, stackFlags, sIsAlwaysPolling, calls, nfa, nci, recovery_option, arbVars,
                 disc, sub, evq, fatals>>

\* doSetScreenState records the new state (on the recovery path too). The
\* tag disconnect when the screen turns off belongs to the tag module.
RunScreenEnd ==
  /\ Step("SCREENEND") /\ prevScreenState' = Cur.s /\ Advance
  /\ UNCHANGED <<discFlags, stackFlags, sIsAlwaysPolling, syncVars, calls,
                 nfaVars>>

-----------------------------------------------------------------------------
(* The caller returns from a wait                                         *)

WakeOf(k) == pc = "wait" /\ Cur.k = k /\ sig /\ sig' = FALSE /\ waitOn' = "none"

\* startRfDiscovery records the new RF state once woken
RfWake ==
  /\ WakeOf("RF") /\ sRfEnabled' = Cur.b /\ Advance
  /\ UNCHANGED <<sDiscoveryEnabled, sPollingEnabled, sReaderModeEnabled,
                 stackFlags, screenVars, calls, nfaVars>>

\* doInitialize after NFA_DM_ENABLE_EVT: routing, the configuration read
\* and the startup configuration follow if the stack came up; otherwise
\* the stack is finalized
EnableWake ==
  /\ WakeOf("ENABLE")
  /\ IF sIsNfaEnabled
       THEN Begin(<<S("EEREG"), S("TAGINIT"), S("GETCFG"), S("INITEND")>>)
            /\ UNCHANGED <<nfa, disc, sub, cmdq, evq, rf, found>>
       ELSE Finalize /\ Return
  /\ UNCHANGED <<jniVars, calls, nci, recovery_option, rounds, tagVars, fatals>>

\* sRoutingInitialized = RoutingManager::initialize(): the registration wait
\* has ended and initialize returns true. Its later waits (EE info, default
\* routes) are not part of this module, so the flag is set here.
EeRegisterWake ==
  /\ WakeOf("EEREG") /\ sRoutingInitialized' = TRUE /\ Advance
  /\ UNCHANGED <<discFlags, sIsNfaEnabled, sIsDisabling, sIsRecovering,
                 screenVars, calls, nfaVars>>
\* Mutant: the caller leaves the wait without clearing what it waited on
PlainWakeNoReset ==
  /\ pc = "wait" /\ Cur.k \in {"STARTPOLL", "STOPPOLL", "ROUTE", "COMMIT"}
  /\ sig /\ sig' = FALSE
  /\ Advance
  /\ UNCHANGED <<jniVars, waitOn, calls, nfaVars>>


\* the other waits read nothing when they end
PlainWakeSteps == {"STARTPOLL", "STOPPOLL", "ROUTE", "COMMIT", "SETCFG",
                   "CHTECH", "GETCFG", "EESHUTDOWN", "DISABLE", "PWR1",
                   "SCREENCFG", "PWR2"}
PlainWake ==
  /\ \E k \in PlainWakeSteps : WakeOf(k)
  /\ Advance
  /\ UNCHANGED <<jniVars, calls, nfaVars>>
-----------------------------------------------------------------------------
(* The NFA stack and controller                                           *)

Ev(e, ok) == [e |-> e, ok |-> ok]

\* the event that answers each command; NFA_ChangeDiscoveryTech is taken
\* to be answered by NFA_LISTEN_ENABLED_EVT, since the
\* NFA_LISTEN_DISABLED_EVT the code's comment waits for is not handled
Answer == [START |-> "RF_STARTED", STOP |-> "RF_STOPPED",
           ENPOLL |-> "POLL_ENABLED", DISPOLL |-> "POLL_DISABLED",
           ENLISTEN |-> "LISTEN_ENABLED", DISLISTEN |-> "LISTEN_DISABLED",
           CHTECH |-> "LISTEN_ENABLED", SETCFG |-> "SET_CONFIG",
           GETCFG |-> "GET_CONFIG", PWR |-> "POWER_SUB", ROUTE |-> "ROUTING",
           EEUPDATE |-> "EE_UPDATED", REGISTER |-> "EE_REGISTER",
           SETMODE |-> "EE_MODESET", ENABLE |-> "ENABLE", DISABLE |-> "DISABLE"]

\* NFA_ACTIVATED_EVT, NFA_DISC_RESULT_EVT and NFA_DEACTIVATED_EVT
Act(p) == [e |-> "ACTIVATED", ok |-> TRUE, p |-> p]
DiscNtf(p, more) == [e |-> "DISC_RESULT", ok |-> TRUE, p |-> p, more |-> more]
Deact(t) == [e |-> "DEACTIVATED", ok |-> TRUE, t |-> t]

\* stopping discovery or the stack first deactivates a selected target
Leave == IF rf = "idle" THEN <<>> ELSE <<Deact("IDLE")>>

\* NFA_Select(i) and NFA_Deactivate(sleep). A select is carried out only
\* while the controller waits for one, and the target may fail to answer
\* (NFA_SELECT_RESULT_EVT with an error, the controller still waiting);
\* a deactivation to sleep needs an active target, one to idle a target
\* at all, otherwise NFA_DEACTIVATE_FAIL_EVT
RfApply(c) ==
  /\ UNCHANGED <<nfa, disc, sub>>
  /\ CASE c.k = "SELECT" /\ rf = "w4sel" /\ c.s \in DOMAIN found ->
            \E ok \in Accepts("SELECT") :
              IF ok THEN rf' = "active" /\ evq' = Append(evq, Act(found[c.s]))
                    ELSE evq' = Append(evq, Ev("SELECT_RESULT", FALSE))
                         /\ UNCHANGED rf
       [] c.k = "SELECT" ->
            evq' = Append(evq, Ev("SELECT_RESULT", FALSE)) /\ UNCHANGED rf
       [] c.k = "DEACT" /\ c.s /\ rf = "active" ->
            rf' = "w4sel" /\ evq' = Append(evq, Deact("SLEEP"))
       [] c.k = "DEACT" /\ ~c.s /\ rf # "idle" ->
            rf' = "idle" /\ evq' = Append(evq, Deact("IDLE"))
       [] OTHER ->
            evq' = Append(evq, Ev("DEACTIVATE_FAIL", FALSE)) /\ UNCHANGED rf
  /\ found' = IF rf' = "idle" THEN <<>> ELSE found

\* The oldest accepted command is carried out and answered. NFA_Enable
\* brings the stack up or reports a failure status; a failed controller
\* answers every command with NFA_DM_NFCC_TIMEOUT_EVT.
NfaApply ==
  /\ cmdq # <<>> /\ cmdq' = Tail(cmdq)
  /\ LET c == Head(cmdq) IN
       IF nfa = "dead"
         THEN evq' = Append(evq, Ev("FATAL", FALSE)) /\ UNCHANGED <<nfa, disc, sub, rf, found>>
         ELSE CASE c.k = "ENABLE" ->
                     \E ok \in Accepts("ENABLE") :
                       /\ nfa' = IF ok THEN "on" ELSE "off"
                       /\ evq' = Append(evq, Ev("ENABLE", ok))
                       /\ UNCHANGED <<disc, sub, rf, found>>
                [] c.k = "DISABLE" ->
                     /\ nfa' = "off" /\ disc' = FALSE /\ sub' = DefaultSub
                     /\ evq' = evq \o Leave \o <<Ev("DISABLE", TRUE)>>
                     /\ rf' = "idle" /\ found' = <<>>
                [] c.k \in {"SELECT", "DEACT"} -> RfApply(c)
                [] OTHER ->
                     /\ disc' = CASE c.k = "START" -> TRUE
                                  [] c.k = "STOP" -> FALSE
                                  [] OTHER -> disc
                     /\ sub' = IF c.k = "PWR" THEN c.s ELSE sub
                     /\ evq' = (IF c.k = "STOP" THEN evq \o Leave ELSE evq)
                                \o <<Ev(Answer[c.k], TRUE)>>
                     /\ IF c.k = "STOP" THEN rf' = "idle" /\ found' = <<>>
                                        ELSE UNCHANGED <<rf, found>>
                     /\ UNCHANGED nfa
  /\ UNCHANGED <<jniVars, syncVars, callVars, nci, recovery_option, rounds, tagVars, fatals>>

\* The controller finds targets while discovery runs: one candidate is
\* activated at once; several are reported one NFA_DISC_RESULT_EVT each,
\* all but the last with the more flag, and wait for a host select
NfccDiscover ==
  /\ nfa = "on" /\ disc /\ rf = "idle" /\ rounds < MaxRounds
  /\ \E r \in Rounds :
       /\ found' = r
       /\ IF Len(r) = 1
            THEN rf' = "active" /\ evq' = Append(evq, Act(r[1]))
            ELSE rf' = "w4sel"
                 /\ evq' = evq \o [i \in 1..Len(r) |-> DiscNtf(r[i], i < Len(r))]
  /\ rounds' = rounds + 1
  /\ UNCHANGED <<jniVars, syncVars, callVars, nfa, nci, recovery_option, disc,
                 sub, cmdq, fatals, tagVars>>

\* The active target leaves the field and discovery resumes
NfccTagLeaves ==
  /\ nfa = "on" /\ rf = "active"
  /\ rf' = "idle" /\ found' = <<>>
  /\ evq' = Append(evq, Deact("DISCOVERY"))
  /\ UNCHANGED <<jniVars, syncVars, callVars, nfa, nci, recovery_option, disc,
                 sub, cmdq, fatals, rounds, tagVars>>

\* The controller fails (NFA_DM_NFCC_TRANSPORT_ERR_EVT)
NfaFatal ==
  /\ nfa = "on" /\ fatals < MaxFatal
  /\ nfa' = "dead" /\ fatals' = fatals + 1
  /\ evq' = Append(evq, Ev("FATAL", FALSE))
  /\ UNCHANGED <<jniVars, syncVars, callVars, nci, recovery_option, arbVars, disc, sub, cmdq>>

-----------------------------------------------------------------------------
(* The NFA callback thread                                                *)

Delivered(e) == evq # <<>> /\ Head(evq).e \in e /\ evq' = Tail(evq)
\* notifyOne under the event's guard wakes the caller if it waits on it
Notify(e) == sig' = (sig \/ waitOn = e)

\* nfaConnectionCallback: the discovery and polling events notify
\* sNfaEnableDisablePollingEvent (NFA_RF_DISCOVERY_STOPPED_EVT also clears
\* gActivated, which belongs to the tag module)
CbPollingEvent ==
  /\ Delivered({"RF_STARTED", "RF_STOPPED", "POLL_ENABLED", "POLL_DISABLED",
                "LISTEN_ENABLED"})
  /\ Notify("polling")
  /\ UNCHANGED <<jniVars, waitOn, callVars, nfa, nci, recovery_option, arbVars, disc, sub, cmdq, fatals>>

\* NFA_LISTEN_DISABLED_EVT is not handled
CbUnhandled ==
  /\ Delivered({"LISTEN_DISABLED"})
  /\ UNCHANGED <<jniVars, syncVars, callVars, nfa, nci, recovery_option, arbVars, disc, sub, cmdq, fatals>>

\* NFA_DM_ENABLE_EVT
CbEnable ==
  /\ Delivered({"ENABLE"})
  /\ sIsNfaEnabled' = Head(evq).ok /\ sIsDisabling' = FALSE
  /\ Notify("enable")
  /\ UNCHANGED <<discFlags, sIsRecovering, sRoutingInitialized, screenVars,
                 waitOn, callVars, nfa, nci, recovery_option, arbVars, disc, sub, cmdq, fatals>>

\* NFA_DM_DISABLE_EVT
CbDisable ==
  /\ Delivered({"DISABLE"})
  /\ sIsNfaEnabled' = FALSE /\ sIsDisabling' = FALSE
  /\ Notify("disable")
  /\ UNCHANGED <<discFlags, sIsRecovering, sRoutingInitialized, screenVars,
                 waitOn, callVars, nfa, nci, recovery_option, arbVars, disc, sub, cmdq, fatals>>

\* NFA_DM_SET_CONFIG_EVT, NFA_DM_GET_CONFIG_EVT and
\* NFA_DM_SET_POWER_SUB_STATE_EVT notify their events
DmTarget == [SET_CONFIG |-> "setconfig", GET_CONFIG |-> "getconfig",
             POWER_SUB |-> "powersub"]
CbDmNotify ==
  /\ Delivered(DOMAIN DmTarget)
  /\ Notify(DmTarget[Head(evq).e])
  /\ UNCHANGED <<jniVars, waitOn, callVars, nfa, nci, recovery_option, arbVars, disc, sub, cmdq, fatals>>

\* RoutingManager::nfaEeCallback: registration, mode set, the routing
\* directives and NFA_EE_UPDATED_EVT notify their events
EeTarget == [EE_REGISTER |-> "eereg", EE_MODESET |-> "setmode",
             ROUTING |-> "routing", EE_UPDATED |-> "eeupdate"]
CbEeEvent ==
  /\ Delivered(DOMAIN EeTarget)
  /\ Notify(EeTarget[Head(evq).e])
  /\ UNCHANGED <<jniVars, waitOn, callVars, nfa, nci, recovery_option, arbVars, disc, sub, cmdq, fatals>>

\* NfcTag::selectFirstTag: the first candidate is selected
SelectFirstTag == selIdx' = 1 /\ Issue(<<Cmd("SELECT", 1)>>)

\* Mutant: the counter is not decremented after the last notification
HandleRfDiscoveryEventNoDecrement(p, more) ==
  LET n == IF p # NFC_DEP THEN numDiscNtf + 1 ELSE numDiscNtf IN
  IF more
    THEN numDiscNtf' = n /\ UNCHANGED <<multiProto, selIdx, cmdq>>
    ELSE /\ multiProto' = (multiProto \/ n > 1)
         /\ numDiscNtf' = n
         /\ SelectFirstTag

\* handleRfDiscoveryEvent: a candidate that is not NFC-DEP is counted;
\* after the last one the tag is flagged multi-protocol if more than one
\* was counted, the counter is decremented and the first is selected
HandleRfDiscoveryEvent(p, more) ==
  LET n == IF p # NFC_DEP THEN numDiscNtf + 1 ELSE numDiscNtf IN
  IF more
    THEN numDiscNtf' = n /\ UNCHANGED <<multiProto, selIdx, cmdq>>
    ELSE /\ multiProto' = (multiProto \/ n > 1)
         /\ numDiscNtf' = n - 1
         /\ SelectFirstTag

\* NFA_DISC_RESULT_EVT (status OK): NfcTag records the candidate, then
\* handleRfDiscoveryEvent
CbDiscResult ==
  /\ Delivered({"DISC_RESULT"})
  /\ discTechs' = discTechs + 1
  /\ HandleRfDiscoveryEvent(Head(evq).p, Head(evq).more)
  /\ UNCHANGED <<jniVars, syncVars, callVars, nfa, nci, recovery_option, disc,
                 sub, fatals, rfVars>>

\* NFA_ACTIVATED_EVT in poll mode with no reselect under way: a T5T
\* activation clears the counter; nothing more while the stack is
\* disabling or disabled. Otherwise a tag found with the screen off is
\* deactivated to idle unless polling is kept on, and while the counter
\* is not zero the tag is deactivated to sleep (after an SLP_REQ on the
\* frame interface) so that the next candidate can be selected
CbActivated ==
  /\ Delivered({"ACTIVATED"})
  /\ LET n == IF Head(evq).p = T5T /\ numDiscNtf # 0 THEN 0 ELSE numDiscNtf
         screenOff == prevScreenState \in {"OFF_LOCKED", "OFF_UNLOCKED"}
     IN /\ numDiscNtf' = n
        /\ IF sIsDisabling \/ ~sIsNfaEnabled
             THEN UNCHANGED cmdq
             ELSE Issue(When(screenOff /\ ~sIsAlwaysPolling, <<Cmd("DEACT", FALSE)>>)
                        \o When(n # 0, <<Cmd("DEACT", TRUE)>>))
  /\ UNCHANGED <<jniVars, syncVars, callVars, nfa, nci, recovery_option, disc,
                 sub, fatals, rfVars, multiProto, discTechs, selIdx>>

\* NfcTag::selectNextTagIfExists: while the counter is not zero and a
\* further candidate was recorded, the counter is decremented and that
\* candidate selected
SelectNextTagIfExists ==
  IF numDiscNtf # 0 /\ selIdx < discTechs
    THEN numDiscNtf' = numDiscNtf - 1 /\ Issue(<<Cmd("SELECT", selIdx + 1)>>)
    ELSE UNCHANGED <<numDiscNtf, cmdq>>

\* NFA_DEACTIVATED_EVT: selectNextTagIfExists; a deactivation other than
\* to sleep then ends the target and its candidate list in NfcTag
CbDeactivated ==
  /\ Delivered({"DEACTIVATED"})
  /\ SelectNextTagIfExists
  /\ IF Head(evq).t # "SLEEP"
       THEN discTechs' = 0 /\ selIdx' = 0
       ELSE UNCHANGED discTechs
            /\ selIdx' = IF numDiscNtf # 0 /\ selIdx < discTechs
                            THEN selIdx + 1 ELSE selIdx
  /\ UNCHANGED <<jniVars, syncVars, callVars, nfa, nci, recovery_option, disc,
                 sub, fatals, rfVars, multiProto>>

\* NFA_SELECT_RESULT_EVT with an error: ignored while disabling, otherwise
\* the target is deactivated to idle
CbSelectResult ==
  /\ Delivered({"SELECT_RESULT"})
  /\ IF sIsDisabling THEN UNCHANGED cmdq ELSE Issue(<<Cmd("DEACT", FALSE)>>)
  /\ UNCHANGED <<jniVars, syncVars, callVars, nfa, nci, recovery_option, disc,
                 sub, fatals, arbVars>>

\* NFA_DEACTIVATE_FAIL_EVT is only logged
CbDeactivateFail ==
  /\ Delivered({"DEACTIVATE_FAIL"})
  /\ UNCHANGED <<jniVars, syncVars, callVars, nfa, nci, recovery_option, disc,
                 sub, cmdq, fatals, arbVars>>

\* NFA_DM_NFCC_TRANSPORT_ERR_EVT / _TIMEOUT_EVT with recovery_option: a
\* silent recovery starts, and the stack's and the configuration's events
\* and mEeUpdateEvent are notified; the other routing events are not
CbFatalRecover ==
  /\ recovery_option /\ Delivered({"FATAL"})
  /\ sIsRecovering' = TRUE
  /\ sig' = (sig \/ waitOn \in RecoveryWakes)
  /\ UNCHANGED <<discFlags, sIsNfaEnabled, sIsDisabling, sRoutingInitialized,
                 screenVars, waitOn, callVars, nfa, nci, recovery_option, arbVars, disc, sub, cmdq, fatals>>

\* The same events without recovery_option: the waiters are released, the
\* stack is disabled, and abort() ends the service process, which is
\* restarted with its statics initialized and the stack down
CbFatalAbort ==
  /\ ~recovery_option /\ evq # <<>> /\ Head(evq).e = "FATAL"
  /\ sIsNfaEnabled' = FALSE /\ sIsDisabling' = FALSE
  /\ sDiscoveryEnabled' = FALSE /\ sPollingEnabled' = FALSE
  /\ sRfEnabled' = FALSE /\ sReaderModeEnabled' = FALSE
  /\ sIsRecovering' = FALSE /\ sIsAlwaysPolling' = FALSE
  /\ sRoutingInitialized' = FALSE /\ prevScreenState' = "OFF_LOCKED"
  /\ waitOn' = "none" /\ sig' = FALSE /\ pc' = "idle" /\ todo' = <<>>
  /\ nfa' = "off" /\ disc' = FALSE /\ sub' = DefaultSub /\ cmdq' = <<>>
  /\ evq' = <<>> /\ rf' = "idle" /\ found' = <<>> /\ TagReset
  /\ UNCHANGED <<calls, nci, recovery_option, rounds, fatals>>

-----------------------------------------------------------------------------

CallerStep ==
  \/ DoInitialize \/ DoDeinitialize \/ EnableDiscovery \/ DisableDiscovery
  \/ CommitRouting \/ DoSetScreenState \/ DoStartStopPolling
  \/ SetDiscoveryTech \/ ResetDiscoveryTech
  \/ RunRf \/ RunRoute \/ RunCommit \/ RunSetCfg \/ RunChTech \/ RunGetCfg
  \/ RunEeShutdown \/ RunStartPoll \/ RunStopPoll \/ RunReader
  \/ RunReaderNoTech \/ RunDiscOn \/ RunDiscOff \/ RunEnable \/ RunEeRegister
  \/ RunInitEnd \/ RunDisable \/ RunDeinitEnd \/ RunPwr1 \/ RunScreenCfg
  \/ RunPwr2 \/ RunScreenEnd
  \/ RfWake \/ EnableWake \/ EeRegisterWake \/ PlainWake \/ RunTagInit
CallbackStep ==
  \/ CbPollingEvent \/ CbUnhandled \/ CbEnable \/ CbDisable \/ CbDmNotify
  \/ CbEeEvent \/ CbFatalRecover \/ CbFatalAbort
  \/ CbDiscResult \/ CbActivated \/ CbDeactivated \/ CbSelectResult
  \/ CbDeactivateFail
\* the controller's side of discovery
RfStep == NfccDiscover \/ NfccTagLeaves

\* The service has made its calls and everything has settled
Finished ==
  /\ calls = MaxCalls /\ pc = "idle" /\ cmdq = <<>> /\ evq = <<>>
  /\ UNCHANGED vars

Next == CallerStep \/ CallbackStep \/ NfaApply \/ NfaFatal \/ RfStep \/ Finished

\* Each thread runs when it can and the stack answers what it accepted;
\* new calls and controller failures are not required to happen
Fairness ==
  /\ WF_vars(CallerStep /\ pc # "idle") /\ WF_vars(CallbackStep)
  /\ WF_vars(NfaApply)

Spec == Init /\ [][Next]_vars /\ Fairness

-----------------------------------------------------------------------------
(* Properties                                                              *)

TypeOK ==
  /\ {sIsNfaEnabled, sIsDisabling, sDiscoveryEnabled, sPollingEnabled,
      sRfEnabled, sReaderModeEnabled, sIsRecovering, sIsAlwaysPolling,
      sRoutingInitialized, sig, disc, recovery_option} \subseteq BOOLEAN
  /\ prevScreenState \in Screens /\ sub \in Screens \cup {DefaultSub}
  /\ waitOn \in Events /\ pc \in {"idle", "run", "wait"}
  /\ (pc = "idle") = (todo = <<>>) /\ (pc = "wait") = (waitOn # "none")
  /\ nfa \in {"off", "on", "dead"} /\ calls \in 0..MaxCalls
  /\ fatals \in 0..MaxFatal
  /\ rf \in {"idle", "w4sel", "active"} /\ found \in Rounds \cup {<<>>}
  /\ rounds \in 0..MaxRounds /\ numDiscNtf \in Int /\ multiProto \in BOOLEAN
  /\ discTechs \in Nat /\ selIdx \in 0..discTechs

\* Nothing is pending: the caller is idle and the stack has answered and
\* delivered everything
Quiet == pc = "idle" /\ cmdq = <<>> /\ evq = <<>>

\* Once the calls have settled with the stack up, discovery that
\* enableDiscovery reported enabled (sDiscoveryEnabled) is running in the
\* controller: disableDiscovery, commitRouting, startStopPolling and
\* deinitialize must each leave the flag and RF discovery in agreement
DiscoveryRunsWhenEnabled == Quiet /\ nfa = "on" /\ sDiscoveryEnabled => disc

\* Once the calls have settled with the stack up, sRfEnabled (what
\* isDiscoveryStarted reports and what enableDiscovery and commitRouting
\* test before stopping RF discovery) says whether the controller really
\* runs RF discovery.
RfEnabledMatchesDiscovery == Quiet /\ nfa = "on" => (sRfEnabled <=> disc)

\* Once the calls have settled, the power sub-state doSetScreenState last
\* gave the controller is the one prevScreenState records, so that a
\* repeated call for the same state can be skipped
ScreenSubStateMatches ==
  Quiet /\ nfa = "on" /\ sub # DefaultSub => sub = prevScreenState

\* Once everything has settled with the stack up, multi-protocol
\* arbitration has run its course: the controller is not left waiting for
\* a host select (candidates reported, or a target put to sleep, that
\* nothing will select), and the discovery-notification counter is back
\* at zero, so that the next activation is not sent to sleep. This is
\* what handleRfDiscoveryEvent, the NFA_ACTIVATED_EVT, _DEACTIVATED_EVT
\* and _SELECT_RESULT_EVT handlers and NfcTag's select helpers achieve
\* together, against calls, screen changes and a target leaving
ArbitrationEndsAwake == Quiet /\ nfa = "on" => rf # "w4sel" /\ numDiscNtf = 0

\* A target is deactivated to sleep on activation only if NfcTag flagged
\* it multi-protocol (spec: the state machine deactivates to sleep when
\* the controller reported multiple discovery candidates). The
\* NFA_ACTIVATED_EVT handler tests the counter handleRfDiscoveryEvent
\* leaves, which a discovery of NFC-DEP candidates only drives below zero
SleepOnlyForMultiProtocol ==
  [][Len(cmdq') > Len(cmdq) /\ cmdq'[Len(cmdq')] = Cmd("DEACT", TRUE)
     => multiProto]_vars

\* Every JNI call returns (spec: a fatal transport error must leave no
\* caller thread permanently blocked, on either recovery path)
CallsReturn == pc # "idle" ~> pc = "idle"

\* Without recovery_option every JNI call returns: each wait is answered,
\* and a fatal error ends the process, whose restart ends the call
CallsReturnWithoutRecovery == ~recovery_option => CallsReturn
=============================================================================
