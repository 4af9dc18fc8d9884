------------------------------ MODULE NfcTagRf ------------------------------
(***************************************************************************)
(* The RF tag state machine of NativeNfcTag.cpp driven by the NFA          *)
(* connection callback of NativeNfcManager.cpp.                            *)
(*                                                                         *)
(* Three actors:                                                           *)
(*  - the application thread calling nativeNfcTag_doConnect and           *)
(*    nativeNfcTag_doReconnect, both of which run reSelect();              *)
(*  - the single NFA callback thread running nfaConnectionCallback on the  *)
(*    events NFA_ACTIVATED_EVT, NFA_SELECT_RESULT_EVT, NFA_DEACTIVATED_EVT; *)
(*  - the controller (NFCC behind the NFA stack), which answers the        *)
(*    commands NFA_Deactivate and NFA_Select in order and may lose or      *)
(*    regain the tag.                                                      *)
(* sReconnectEvent is a SyncEvent: a mutex (evLock) plus a condition on    *)
(* which at most the application thread waits; notifyOne with no waiter   *)
(* is lost. Every wait of reSelect has a timeout, so a wait may end        *)
(* unsignalled at any moment.                                              *)
(*                                                                         *)
(* The tag is an ISO-DEP tag whose tech list is NfcA (index 1, frame       *)
(* interface) and IsoDep (index 2, ISO-DEP interface); the controller      *)
(* activates it on the ISO-DEP interface on discovery.                     *)
(***************************************************************************)
EXTENDS Naturals, Sequences

CONSTANTS
  MaxOps,          \* connect/reconnect calls the application makes
  MaxFieldChanges, \* times the tag may leave or re-enter the field
  CmdMayFail,      \* whether an NFA_* call may return a non-OK status
  MaxPresenceChecks, \* doPresenceCheck calls the watchdog makes
  RetryCount,      \* NAME_PRESENCE_CHECK_RETRY_COUNT
  NoiseBudget      \* presence checks of a present tag that may fail

ASSUME /\ MaxOps \in Nat /\ MaxFieldChanges \in Nat /\ CmdMayFail \in BOOLEAN
       /\ MaxPresenceChecks \in Nat /\ RetryCount \in Nat /\ NoiseBudget \in Nat

\* mTechList interfaces by index, as chosen by nativeNfcTag_doConnect
TechIntf == <<"FRAME", "ISO_DEP">>
Interfaces == {"FRAME", "ISO_DEP"}
\* reSelect return codes: 0 success, 1 failure, STATUS_CODE_TARGET_LOST
TARGET_LOST == 146
CmdResults == IF CmdMayFail THEN BOOLEAN ELSE {TRUE}
\* reSelect's retry loop bound
MaxSelectRetries == 3

VARIABLES
  \* NfcTag (not in this repository): activation state
  actState,
  \* NativeNfcTag.cpp statics and globals
  curIntf,          \* sCurrentRfInterface
  actProto,         \* sCurrentActivatedProtocl
  connProto,        \* sCurrentConnectedTargetProtocol
  gTagJustActivated,
  gIsTagDeactivating,
  gIsSelectingRfInterface,
  sConnectWaitingForComplete,
  sConnectOk,
  sReselectTagIdle,
  rfMutex,          \* sRfInterfaceMutex holder: "none" or "app"
  evLock,           \* sReconnectEvent's mutex holder: "none", "app", "cb"
  sig,              \* the waiting application thread has been notified
  \* application thread
  pc, op, req, sw, rVal, retry, ret, ops,
  \* callback thread: "idle", or "notify" pending on sReconnectEvent
  cbPc, cbCont,
  \* controller
  nfcc,             \* "active", "sleep" or "discovery"
  nfccIntf,         \* interface of the controller's link
  inField, fieldChanges,
  cmdq,             \* NFA commands not yet answered, in order
  evq,              \* events not yet delivered to the callback, in order
  noise,            \* presence checks of a present tag that failed
  \* history: an NFA_ACTIVATED_EVT was handled since reSelect's select
  gotAct,
  \* presence-check statics of NativeNfcTag.cpp
  sIsoDepPresCheckCnt, sPresCheckErrCnt, sIsoDepPresCheckAlternate,
  sIsTagPresent,
  \* presence-check watchdog thread: program point, result, calls made,
  \* locals method and isPresent, sPresenceCheckEvent's mutex holder and
  \* notification, and whether an answer saying present was handled during this check (history)
  wpc, wret, wchecks, method, isPresent, presLock, psig, pGotOk

tagVars == <<actState, curIntf, actProto, connProto, gTagJustActivated,
             gIsTagDeactivating, gIsSelectingRfInterface,
             sConnectWaitingForComplete, sConnectOk, sReselectTagIdle>>
syncVars == <<rfMutex, evLock, sig>>
appVars == <<pc, op, req, sw, rVal, retry, ret, ops>>
cbVars == <<cbPc, cbCont>>
nfccVars == <<nfcc, nfccIntf, inField, fieldChanges, noise, cmdq, evq>>
presVars == <<sIsoDepPresCheckCnt, sPresCheckErrCnt, sIsoDepPresCheckAlternate,
              sIsTagPresent>>
wdVars == <<wpc, wret, wchecks, method, isPresent, presLock, psig, pGotOk>>
vars == <<tagVars, syncVars, appVars, cbVars, nfccVars, gotAct, presVars,
          wdVars>>

\* program points of the application thread blocked in sReconnectEvent.wait
WaitPcs == {"rs_wdeact", "rs_wsel", "rs_wretry"}
\* program points of the watchdog blocked in sPresenceCheckEvent.wait
WdWaitPcs == {"p_wait1", "p_wait2", "p_wait3"}
ReselectPcs == {"rs_deact", "rs_wdeact", "rs_sel", "rs_arm", "rs_wsel",
                "rs_chk", "rs_retry", "rs_wretry", "rs_fin"}

Init ==
  /\ actState = "Idle"
  /\ curIntf = "ISO_DEP"
  /\ actProto = "ISO_DEP"
  /\ connProto = "UNKNOWN"
  /\ gTagJustActivated = FALSE
  /\ gIsTagDeactivating = FALSE
  /\ gIsSelectingRfInterface = FALSE
  /\ sConnectWaitingForComplete = FALSE
  /\ sConnectOk = FALSE
  /\ sReselectTagIdle = FALSE
  /\ rfMutex = "none" /\ evLock = "none" /\ sig = FALSE
  /\ pc = "idle" /\ op = "none" /\ req = "ISO_DEP" /\ sw = FALSE
  /\ rVal = 0 /\ retry = 0 /\ ret = "none" /\ ops = 0
  /\ cbPc = "idle" /\ cbCont = "none"
  /\ nfcc = "discovery" /\ nfccIntf = "ISO_DEP" /\ inField = TRUE /\ fieldChanges = 0
  /\ cmdq = <<>> /\ evq = <<>>
  /\ noise = 0
  /\ gotAct = FALSE
  /\ sIsoDepPresCheckCnt = 0 /\ sPresCheckErrCnt = 0
  /\ sIsoDepPresCheckAlternate = FALSE /\ sIsTagPresent = TRUE
  /\ wpc = "idle" /\ wret = "none" /\ wchecks = 0 /\ method = "NAK"
  /\ isPresent = FALSE /\ presLock = "none" /\ psig = FALSE
  /\ pGotOk = FALSE

-----------------------------------------------------------------------------
(* Application thread: nativeNfcTag_doConnect and nativeNfcTag_doReconnect *)

\* doConnect(targetIdx): targetIdx is a valid index of the two-entry tech list
doConnect(i) ==
  /\ pc = "idle" /\ ops < MaxOps
  /\ ops' = ops + 1
  /\ sIsoDepPresCheckCnt' = 0 /\ sPresCheckErrCnt' = 0
  /\ sIsoDepPresCheckAlternate' = FALSE
  /\ IF actState # "Active"
       THEN /\ ret' = "FAILED"
            /\ UNCHANGED <<connProto, op, req, sw, pc>>
       ELSE /\ connProto' = "ISO_DEP"
            /\ op' = "connect" /\ req' = TechIntf[i] /\ sw' = TRUE
            /\ pc' = "rs_lock"
            /\ UNCHANGED ret
  /\ UNCHANGED <<actState, curIntf, actProto, gTagJustActivated,
                 gIsTagDeactivating, gIsSelectingRfInterface,
                 sConnectWaitingForComplete, sConnectOk, sReselectTagIdle,
                 syncVars, rVal, retry, cbVars, nfccVars, gotAct, sIsTagPresent,
                 wdVars>>

\* doReconnect: only an ISO-DEP connected protocol runs reSelect here
doReconnect ==
  /\ pc = "idle" /\ ops < MaxOps
  /\ ops' = ops + 1
  /\ CASE actState # "Active" ->
            ret' = "FAILED" /\ UNCHANGED <<op, req, sw, pc>>
       [] connProto = "ISO_DEP" ->
            /\ op' = "reconnect" /\ req' = "ISO_DEP" /\ sw' = FALSE
            /\ pc' = "rs_lock" /\ UNCHANGED ret
       [] OTHER ->
            ret' = "SUCCESS" /\ UNCHANGED <<op, req, sw, pc>>
  /\ UNCHANGED <<tagVars, syncVars, rVal, retry, cbVars, nfccVars, gotAct, presVars, wdVars>>

\* The exit of reSelect: the flags it owns are cleared and the lock released
ReselectExit(v) ==
  /\ rVal' = v
  /\ sConnectWaitingForComplete' = FALSE
  /\ gIsTagDeactivating' = FALSE
  /\ gIsSelectingRfInterface' = FALSE
  /\ rfMutex' = "none"
  /\ pc' = "post"

\* sRfInterfaceMutex.lock(), then the early return when already on the interface
RsLock ==
  /\ pc = "rs_lock" /\ rfMutex = "none"
  /\ IF sw /\ req = curIntf
       THEN rVal' = 0 /\ pc' = "post" /\ UNCHANGED rfMutex
       ELSE rfMutex' = "app" /\ pc' = "rs_deact" /\ UNCHANGED rVal
  /\ UNCHANGED <<tagVars, evLock, sig, op, req, sw, retry, ret, ops,
                 cbVars, nfccVars, gotAct, presVars, wdVars>>

\* performHaltPICC on the frame interface (or the empty I-frame), then, under
\* sReconnectEvent, NFA_Deactivate(TRUE) and the wait for the sleep event
RsDeactivate ==
  /\ pc = "rs_deact" /\ evLock = "none"
  /\ \E haltOk, deactOk \in CmdResults:
       IF (curIntf = "FRAME" /\ ~haltOk) \/ ~deactOk
         THEN /\ ReselectExit(1)
              /\ UNCHANGED <<sig, cmdq>>
         ELSE /\ gIsTagDeactivating' = TRUE
              /\ cmdq' = Append(cmdq, [c |-> "DEACT_SLEEP"])
              /\ sig' = FALSE
              /\ pc' = "rs_wdeact"
              /\ UNCHANGED <<rVal, rfMutex, sConnectWaitingForComplete,
                             gIsSelectingRfInterface>>
  /\ UNCHANGED <<actState, curIntf, actProto, connProto, gTagJustActivated,
                 sConnectOk, sReselectTagIdle, evLock, op, req, sw, retry,
                 ret, ops, cbVars, inField, nfcc, nfccIntf, fieldChanges, noise, evq, gotAct, presVars, wdVars>>

\* The deactivate wait ends (notified or timed out); the Idle state is read
RsWakeDeactivate ==
  /\ pc = "rs_wdeact" /\ evLock = "none"
  /\ sig' = FALSE
  /\ sReselectTagIdle' = (actState = "Idle")
  /\ gIsTagDeactivating' = FALSE
  /\ pc' = "rs_sel"
  /\ UNCHANGED <<actState, curIntf, actProto, connProto, gTagJustActivated,
                 gIsSelectingRfInterface, sConnectWaitingForComplete,
                 sConnectOk, rfMutex, evLock, op, req, sw, rVal, retry, ret,
                 ops, cbVars, nfccVars, gotAct, presVars, wdVars>>

\* Under sReconnectEvent: arm the connect flags and NFA_Select unless idle
RsSelect ==
  /\ pc = "rs_sel" /\ evLock = "none"
  /\ \E selOk \in CmdResults:
       IF ~sReselectTagIdle /\ ~selOk
         THEN /\ ReselectExit(1)
              /\ UNCHANGED <<evLock, cmdq, gotAct>>
         ELSE /\ sConnectWaitingForComplete' = TRUE
              /\ gIsSelectingRfInterface' = TRUE
              /\ cmdq' = IF sReselectTagIdle THEN cmdq
                         ELSE Append(cmdq, [c |-> "SELECT", intf |-> req])
              /\ gotAct' = FALSE
              /\ evLock' = "app"
              /\ pc' = "rs_arm"
              /\ UNCHANGED <<rVal, gIsTagDeactivating, rfMutex>>
  /\ UNCHANGED <<actState, curIntf, actProto, connProto, gTagJustActivated,
                 sConnectOk, sReselectTagIdle, sig, op, req, sw, retry, ret,
                 ops, cbVars, nfcc, nfccIntf, inField, fieldChanges, noise,
                 evq, presVars, wdVars>>

\* Mutant: the connect result of the previous select is kept
RsArmNoReset ==
  /\ pc = "rs_arm"
  /\ evLock' = "none" /\ sig' = FALSE
  /\ pc' = "rs_wsel"
  /\ UNCHANGED <<actState, curIntf, actProto, connProto, gTagJustActivated,
                 gIsTagDeactivating, gIsSelectingRfInterface,
                 sConnectWaitingForComplete, sConnectOk, sReselectTagIdle, rfMutex, op,
                 req, sw, rVal, retry, ret, ops, cbVars, nfccVars, gotAct, presVars, wdVars>>

\* sConnectOk = false after the select is issued, then sReconnectEvent.wait(1000)
RsArm ==
  /\ pc = "rs_arm"
  /\ sConnectOk' = FALSE
  /\ evLock' = "none" /\ sig' = FALSE
  /\ pc' = "rs_wsel"
  /\ UNCHANGED <<actState, curIntf, actProto, connProto, gTagJustActivated,
                 gIsTagDeactivating, gIsSelectingRfInterface,
                 sConnectWaitingForComplete, sReselectTagIdle, rfMutex, op,
                 req, sw, rVal, retry, ret, ops, cbVars, nfccVars, gotAct, presVars, wdVars>>

\* The select wait ends: a timeout leaves reSelect with failure
RsWakeSelect ==
  /\ pc = "rs_wsel" /\ evLock = "none"
  /\ sig' = FALSE
  /\ IF sig
       THEN pc' = "rs_chk" /\ UNCHANGED <<rVal, sConnectWaitingForComplete,
                                gIsTagDeactivating, gIsSelectingRfInterface,
                                rfMutex>>
       ELSE ReselectExit(1)
  /\ UNCHANGED <<actState, curIntf, actProto, connProto, gTagJustActivated,
                 sConnectOk, sReselectTagIdle, evLock, op, req, sw, retry,
                 ret, ops, cbVars, nfccVars, gotAct, presVars, wdVars>>

\* Not yet connected: re-arm sConnectWaitingForComplete, outside the guard
RsCheck ==
  /\ pc = "rs_chk"
  /\ IF sConnectOk
       THEN pc' = "rs_fin" /\ UNCHANGED <<sConnectWaitingForComplete, retry>>
       ELSE /\ sConnectWaitingForComplete' = TRUE
            /\ retry' = 0
            /\ pc' = "rs_retry"
  /\ UNCHANGED <<actState, curIntf, actProto, connProto, gTagJustActivated,
                 gIsTagDeactivating, gIsSelectingRfInterface, sConnectOk,
                 sReselectTagIdle, syncVars, op, req, sw, rVal, ret, ops,
                 cbVars, nfccVars, gotAct, presVars, wdVars>>

\* One round of the retry loop: sReconnectEvent.wait(500)
RsRetryWait ==
  /\ pc = "rs_retry" /\ evLock = "none"
  /\ sig' = FALSE
  /\ pc' = "rs_wretry"
  /\ UNCHANGED <<tagVars, rfMutex, evLock, op, req, sw, rVal, retry, ret,
                 ops, cbVars, nfccVars, gotAct, presVars, wdVars>>

\* Mutant: the retry loop without its bound of three rounds
RsRetryWakeUnbounded ==
  /\ pc = "rs_wretry" /\ evLock = "none"
  /\ sig' = FALSE
  /\ retry' = retry + 1
  /\ pc' = IF ~sConnectOk THEN "rs_retry" ELSE "rs_fin"
  /\ UNCHANGED <<tagVars, rfMutex, evLock, op, req, sw, rVal, ret, ops,
                 cbVars, nfccVars, gotAct, presVars, wdVars>>

\* Mutant: the retry loop never counts its rounds
RsRetryWakeNoCount ==
  /\ pc = "rs_wretry" /\ evLock = "none"
  /\ sig' = FALSE
  /\ UNCHANGED retry
  /\ pc' = IF ~sConnectOk /\ retry + 1 < MaxSelectRetries
             THEN "rs_retry" ELSE "rs_fin"
  /\ UNCHANGED <<tagVars, rfMutex, evLock, op, req, sw, rVal, ret, ops,
                 cbVars, nfccVars, gotAct, presVars, wdVars>>

RsRetryWake ==
  /\ pc = "rs_wretry" /\ evLock = "none"
  /\ sig' = FALSE
  /\ retry' = retry + 1
  /\ pc' = IF ~sConnectOk /\ retry + 1 < MaxSelectRetries
             THEN "rs_retry" ELSE "rs_fin"
  /\ UNCHANGED <<tagVars, rfMutex, evLock, op, req, sw, rVal, ret, ops,
                 cbVars, nfccVars, gotAct, presVars, wdVars>>

\* The result: target lost unless Active, else sConnectOk decides
RsFinish ==
  /\ pc = "rs_fin"
  /\ ReselectExit(IF actState # "Active" THEN TARGET_LOST
                  ELSE IF sConnectOk THEN 0 ELSE 1)
  /\ UNCHANGED <<actState, curIntf, actProto, connProto, gTagJustActivated,
                 sConnectOk, sReselectTagIdle, evLock, sig, op, req, sw,
                 retry, ret, ops, cbVars, nfccVars, gotAct, presVars, wdVars>>

\* doDisconnect: the idle-tag memory is cleared and, unless NfcTag already
\* has the tag deactivated, NFA_Deactivate(FALSE) is issued without a
\* wait; the result is that call's status (true when there was nothing to
\* deactivate). The transceive timeouts it resets are not modelled.
doDisconnect ==
  /\ pc = "idle" /\ ops < MaxOps
  /\ ops' = ops + 1
  /\ sReselectTagIdle' = FALSE
  /\ IF actState \in {"Active", "Sleep"}
       THEN \E ok \in CmdResults :
              /\ cmdq' = IF ok THEN Append(cmdq, [c |-> "DEACT_IDLE"]) ELSE cmdq
              /\ ret' = IF ok THEN "SUCCESS" ELSE "FAILED"
       ELSE ret' = "SUCCESS" /\ UNCHANGED cmdq
  /\ UNCHANGED <<actState, curIntf, actProto, connProto, gTagJustActivated,
                 gIsTagDeactivating, gIsSelectingRfInterface,
                 sConnectWaitingForComplete, sConnectOk, syncVars, pc, op, req,
                 sw, rVal, retry, cbVars, nfcc, nfccIntf, inField, fieldChanges,
                 noise, evq, gotAct, presVars, wdVars>>

\* The tail of doConnect / doReconnect after reSelect returns
Code(v) == CASE v = 0 -> "SUCCESS" [] v = TARGET_LOST -> "LOST"
                [] OTHER -> "FAILED"

AppPost ==
  /\ pc = "post"
  /\ ret' = IF op = "connect" /\ rVal = 0
                /\ (connProto # actProto \/ req # curIntf)
              THEN "FAILED" ELSE Code(rVal)
  /\ pc' = "idle"
  /\ UNCHANGED <<tagVars, syncVars, op, req, sw, rVal, retry, ops, cbVars,
                 nfccVars, gotAct, presVars, wdVars>>

-----------------------------------------------------------------------------
(* NFA callback thread: nfaConnectionCallback                              *)

\* nativeNfcTag_resetPresenceCheck
ResetPresenceCheck ==
  /\ sIsTagPresent' = TRUE
  /\ sIsoDepPresCheckCnt' = 0 /\ sPresCheckErrCnt' = 0
  /\ sIsoDepPresCheckAlternate' = FALSE

\* Mutant: the interface is recorded only for activations nobody selected
CbActivatedNoIntf ==
  /\ cbPc = "idle" /\ evq # <<>> /\ Head(evq).e = "ACT"
  /\ evq' = Tail(evq)
  /\ gTagJustActivated' = TRUE
  /\ curIntf' = IF gIsSelectingRfInterface THEN curIntf ELSE Head(evq).intf
  /\ actProto' = "ISO_DEP"
  /\ actState' = "Active"
  /\ gotAct' = TRUE
  /\ IF gIsSelectingRfInterface
       THEN /\ IF sConnectWaitingForComplete
                 THEN /\ sConnectWaitingForComplete' = FALSE
                      /\ sConnectOk' = TRUE
                      /\ cbPc' = "notify" /\ cbCont' = "none"
                 ELSE UNCHANGED <<sConnectWaitingForComplete, sConnectOk,
                                  cbPc, cbCont>>
            /\ UNCHANGED presVars
       ELSE /\ ResetPresenceCheck
            /\ UNCHANGED <<sConnectWaitingForComplete, sConnectOk, cbPc,
                           cbCont>>
  /\ UNCHANGED <<connProto, gIsTagDeactivating, gIsSelectingRfInterface,
                 sReselectTagIdle, syncVars, appVars, nfcc, nfccIntf, inField,
                 fieldChanges, noise, cmdq, wdVars>>

\* NFA_ACTIVATED_EVT (poll mode, not NFC-DEP): record interface and protocol,
\* mark the tag Active. While selecting, nativeNfcTag_doConnectStatus(true)
\* sets sConnectOk outside the guard and then notifies under it, and the
\* handler stops; otherwise the presence-check state is reset.
CbActivated ==
  /\ cbPc = "idle" /\ evq # <<>> /\ Head(evq).e = "ACT"
  /\ evq' = Tail(evq)
  /\ gTagJustActivated' = TRUE
  /\ curIntf' = Head(evq).intf
  /\ actProto' = "ISO_DEP"
  /\ actState' = "Active"
  /\ gotAct' = TRUE
  /\ IF gIsSelectingRfInterface
       THEN /\ IF sConnectWaitingForComplete
                 THEN /\ sConnectWaitingForComplete' = FALSE
                      /\ sConnectOk' = TRUE
                      /\ cbPc' = "notify" /\ cbCont' = "none"
                 ELSE UNCHANGED <<sConnectWaitingForComplete, sConnectOk,
                                  cbPc, cbCont>>
            /\ UNCHANGED presVars
       ELSE /\ ResetPresenceCheck
            /\ UNCHANGED <<sConnectWaitingForComplete, sConnectOk, cbPc,
                           cbCont>>
  /\ UNCHANGED <<connProto, gIsTagDeactivating, gIsSelectingRfInterface,
                 sReselectTagIdle, syncVars, appVars, nfcc, nfccIntf, inField,
                 fieldChanges, noise, cmdq, wdVars>>

\* NFA_SELECT_RESULT_EVT with an error: doConnectStatus(false) while
\* selecting, then NFA_Deactivate(FALSE)
CbSelectError ==
  /\ cbPc = "idle" /\ evq # <<>> /\ Head(evq).e = "SEL_ERR"
  /\ evq' = Tail(evq)
  /\ IF gIsSelectingRfInterface /\ sConnectWaitingForComplete
       THEN /\ sConnectWaitingForComplete' = FALSE
            /\ sConnectOk' = FALSE
            /\ cbPc' = "notify" /\ cbCont' = "deact_idle"
            /\ UNCHANGED cmdq
       ELSE /\ cmdq' = Append(cmdq, [c |-> "DEACT_IDLE"])
            /\ UNCHANGED <<sConnectWaitingForComplete, sConnectOk, cbPc,
                           cbCont>>
  /\ UNCHANGED <<actState, curIntf, actProto, connProto, gTagJustActivated,
                 gIsTagDeactivating, gIsSelectingRfInterface,
                 sReselectTagIdle, syncVars, appVars, nfcc, nfccIntf, inField,
                 fieldChanges, noise, gotAct, presVars, wdVars>>

\* NFA_DEACTIVATED_EVT: to sleep, only a deactivation reSelect asked for is
\* reported to it; any other type resets the presence check and runs
\* nativeNfcTag_abortWaits
CbDeactivated ==
  /\ cbPc = "idle" /\ evq # <<>> /\ Head(evq).e = "DEACT"
  /\ evq' = Tail(evq)
  /\ LET sleep == Head(evq).type = "SLEEP" IN
       /\ actState' = IF sleep THEN "Sleep" ELSE "Idle"
       /\ IF sleep THEN UNCHANGED presVars ELSE ResetPresenceCheck
       /\ CASE ~sleep -> cbPc' = "notify" /\ cbCont' = "abort"
            [] gIsTagDeactivating -> cbPc' = "notify" /\ cbCont' = "none"
            [] OTHER -> UNCHANGED <<cbPc, cbCont>>
  /\ UNCHANGED <<curIntf, actProto, connProto, gTagJustActivated,
                 gIsTagDeactivating, gIsSelectingRfInterface,
                 sConnectWaitingForComplete, sConnectOk, sReselectTagIdle,
                 syncVars, appVars, nfcc, nfccIntf, inField, fieldChanges,
                 noise, cmdq, gotAct, wdVars>>

\* sReconnectEvent.notifyOne() under its guard. After a select error the
\* handler goes on with NFA_Deactivate(FALSE); abortWaits goes on to the
\* presence-check event.
CbNotify ==
  /\ cbPc = "notify" /\ evLock = "none"
  /\ sig' = (sig \/ pc \in WaitPcs)
  /\ cmdq' = IF cbCont = "deact_idle"
               THEN Append(cmdq, [c |-> "DEACT_IDLE"]) ELSE cmdq
  /\ IF cbCont = "abort"
       THEN cbPc' = "pnotify" /\ UNCHANGED cbCont
       ELSE cbPc' = "idle" /\ cbCont' = "none"
  /\ UNCHANGED <<tagVars, rfMutex, evLock, appVars, nfcc, nfccIntf, inField,
                 fieldChanges, noise, evq, gotAct, presVars, wdVars>>

\* The rest of abortWaits: sPresenceCheckEvent.notifyOne() under its guard,
\* then the interface, protocol, target (unless deactivating) and the
\* presence counters are reset.
CbAbortRest ==
  /\ cbPc = "pnotify" /\ presLock = "none"
  /\ psig' = (psig \/ wpc \in WdWaitPcs)
  /\ curIntf' = "ISO_DEP"
  \* NFA_INTERFACE_ISO_DEP (2) is written, which as a protocol is T2T
  /\ actProto' = "T2T"
  /\ connProto' = IF gIsTagDeactivating THEN connProto ELSE "UNKNOWN"
  /\ sIsoDepPresCheckCnt' = 0 /\ sPresCheckErrCnt' = 0
  /\ sIsoDepPresCheckAlternate' = FALSE
  /\ cbPc' = "idle" /\ cbCont' = "none"
  /\ UNCHANGED <<actState, gTagJustActivated, gIsTagDeactivating,
                 gIsSelectingRfInterface, sConnectWaitingForComplete,
                 sConnectOk, sReselectTagIdle, syncVars, appVars, nfccVars,
                 gotAct, sIsTagPresent, wpc, wret, wchecks, method, isPresent,
                 presLock, pGotOk>>

\* NFA_PRESENCE_CHECK_EVT: nativeNfcTag_doPresenceCheckResult under the
\* sPresenceCheckEvent guard
CbPresenceResult ==
  /\ cbPc = "idle" /\ evq # <<>> /\ Head(evq).e = "PRES"
  /\ presLock = "none"
  /\ evq' = Tail(evq)
  /\ sIsTagPresent' = Head(evq).ok
  /\ psig' = (psig \/ wpc \in WdWaitPcs)
  /\ pGotOk' = (pGotOk \/ Head(evq).ok)
  /\ UNCHANGED <<tagVars, syncVars, appVars, cbVars, nfcc, nfccIntf, inField,
                 fieldChanges, noise, cmdq, gotAct, sIsoDepPresCheckCnt,
                 sPresCheckErrCnt, sIsoDepPresCheckAlternate, wpc, wret,
                 wchecks, method, isPresent, presLock>>

-----------------------------------------------------------------------------
(* The controller behind the NFA stack (not in this repository): it       *)
(* answers commands in order and reports tag arrival and removal.         *)

NfccUnchanged == UNCHANGED <<tagVars, syncVars, appVars, cbVars, gotAct, presVars, wdVars>>

\* NFA_Deactivate(TRUE): an active tag goes to sleep; otherwise it fails
NfccDeactSleep ==
  /\ cmdq # <<>> /\ Head(cmdq).c = "DEACT_SLEEP"
  /\ cmdq' = Tail(cmdq)
  /\ IF nfcc = "active"
       THEN nfcc' = "sleep" /\ evq' = Append(evq, [e |-> "DEACT", type |-> "SLEEP"])
       ELSE UNCHANGED <<nfcc, evq>>
  /\ UNCHANGED <<nfccIntf, inField, fieldChanges, noise>>
  /\ NfccUnchanged

\* NFA_Select: a sleeping tag in the field is activated on the interface, or
\* the controller reports a generic error first and activates it after;
\* anything else is a select error
NfccSelect ==
  /\ cmdq # <<>> /\ Head(cmdq).c = "SELECT"
  /\ cmdq' = Tail(cmdq)
  /\ LET act == [e |-> "ACT", intf |-> Head(cmdq).intf]
         err == [e |-> "SEL_ERR"] IN
     IF nfcc = "sleep" /\ inField
       THEN /\ nfcc' = "active" /\ nfccIntf' = Head(cmdq).intf
            /\ \/ evq' = Append(evq, act)
               \/ evq' = evq \o <<err, act>>
       ELSE evq' = Append(evq, err) /\ UNCHANGED <<nfcc, nfccIntf>>
  /\ UNCHANGED <<inField, fieldChanges, noise>>
  /\ NfccUnchanged

\* NFA_Deactivate(FALSE): back to discovery
NfccDeactIdle ==
  /\ cmdq # <<>> /\ Head(cmdq).c = "DEACT_IDLE"
  /\ cmdq' = Tail(cmdq)
  /\ IF nfcc \in {"active", "sleep"}
       THEN nfcc' = "discovery" /\ evq' = Append(evq, [e |-> "DEACT", type |-> "DISCOVERY"])
       ELSE UNCHANGED <<nfcc, evq>>
  /\ UNCHANGED <<nfccIntf, inField, fieldChanges, noise>>
  /\ NfccUnchanged

\* The tag leaves the field; an active link is lost at once
NfccTagLeaves ==
  /\ inField /\ fieldChanges < MaxFieldChanges
  /\ inField' = FALSE /\ fieldChanges' = fieldChanges + 1
  /\ IF nfcc = "active"
       THEN nfcc' = "discovery" /\ evq' = Append(evq, [e |-> "DEACT", type |-> "DISCOVERY"])
       ELSE UNCHANGED <<nfcc, evq>>
  /\ UNCHANGED <<nfccIntf, noise, cmdq>>
  /\ NfccUnchanged

NfccTagEnters ==
  /\ ~inField /\ fieldChanges < MaxFieldChanges
  /\ inField' = TRUE /\ fieldChanges' = fieldChanges + 1
  /\ UNCHANGED <<nfcc, nfccIntf, noise, cmdq, evq>>
  /\ NfccUnchanged

\* Discovery finds the tag and activates it on the ISO-DEP interface
NfccDiscover ==
  /\ nfcc = "discovery" /\ inField
  /\ nfcc' = "active" /\ nfccIntf' = "ISO_DEP"
  /\ evq' = Append(evq, [e |-> "ACT", intf |-> "ISO_DEP"])
  /\ UNCHANGED <<inField, fieldChanges, noise, cmdq>>
  /\ NfccUnchanged

\* NFA_RwPresenceCheck: an active tag in the field answers, though up to
\* NoiseBudget of its answers may be lost to RF noise; anything else fails
NfccPresence ==
  /\ cmdq # <<>> /\ Head(cmdq).c = "PRES"
  /\ cmdq' = Tail(cmdq)
  /\ \E ok \in BOOLEAN :
       /\ ok => nfcc = "active" /\ inField
       /\ ~ok /\ nfcc = "active" /\ inField => noise < NoiseBudget
       /\ noise' = IF ~ok /\ nfcc = "active" /\ inField THEN noise + 1 ELSE noise
       /\ evq' = Append(evq, [e |-> "PRES", ok |-> ok])
  /\ UNCHANGED <<nfcc, nfccIntf, inField, fieldChanges>>
  /\ NfccUnchanged

-----------------------------------------------------------------------------
(* Presence-check watchdog thread: nativeNfcTag_doPresenceCheck            *)

\* sRfInterfaceMutex.tryLock(): a reSelect in progress makes the check
\* return present at once; otherwise the mutex is released again at once
PcTryLock ==
  /\ wpc = "idle" /\ wchecks < MaxPresenceChecks
  /\ wchecks' = wchecks + 1
  /\ pGotOk' = FALSE
  /\ IF rfMutex = "app"
       THEN wret' = "present" /\ UNCHANGED wpc
       ELSE wpc' = "p_act" /\ UNCHANGED wret
  /\ UNCHANGED <<tagVars, syncVars, appVars, cbVars, nfccVars, gotAct,
                 presVars, method, isPresent, presLock, psig>>

\* NfcTag::isActivated(), read after the mutex was given back
PcIsActivated ==
  /\ wpc = "p_act"
  /\ IF actState = "Active"
       THEN wpc' = "p_issue" /\ UNCHANGED wret
       ELSE wpc' = "idle" /\ wret' = "absent"
  /\ UNCHANGED <<tagVars, syncVars, appVars, cbVars, nfccVars, gotAct,
                 presVars, wchecks, method, isPresent, presLock, psig, pGotOk>>

\* NFA_RwPresenceCheck from under sPresenceCheckEvent's guard: a call
\* accepted releases the guard in wait(2000); after a call refused the
\* thread goes on to failPc still holding it
IssuePresence(okPc, failPc) ==
  \E st \in CmdResults :
    IF st THEN /\ cmdq' = Append(cmdq, [c |-> "PRES"])
               /\ psig' = FALSE /\ presLock' = "none" /\ wpc' = okPc
          ELSE /\ presLock' = "wd" /\ wpc' = failPc
               /\ UNCHANGED <<cmdq, psig>>

\* Take the guard, choose the method, count the NAK checks of an ISO-DEP
\* target (switched to I-block once told to) and issue the check; a call
\* refused leaves isPresent false.
PcIssue ==
  /\ wpc = "p_issue" /\ presLock = "none"
  /\ LET isoDep == connProto = "ISO_DEP" IN
       /\ method' = IF isoDep /\ sIsoDepPresCheckAlternate THEN "I_BLOCK"
                                                        ELSE "NAK"
       /\ sIsoDepPresCheckCnt' = IF isoDep THEN sIsoDepPresCheckCnt + 1
                                           ELSE sIsoDepPresCheckCnt
  /\ isPresent' = FALSE
  /\ IssuePresence("p_wait1", "p_end")
  /\ UNCHANGED <<tagVars, syncVars, appVars, cbVars, nfcc, nfccIntf, inField,
                 fieldChanges, noise, evq, gotAct, sPresCheckErrCnt,
                 sIsoDepPresCheckAlternate, sIsTagPresent, wret, wchecks,
                 pGotOk>>

\* The end of a wait on sPresenceCheckEvent: the guard is taken back and
\* wait() returns whether the thread was notified (false on the timeout)
WakePresence(from) ==
  /\ wpc = from /\ presLock = "none"
  /\ presLock' = "wd" /\ isPresent' = psig /\ psig' = FALSE

\* An unanswered ISO-DEP NAK check is an ambiguous failure: it is counted
\* and retried
Ambiguous == ~sIsTagPresent /\ connProto = "ISO_DEP" /\ method = "NAK"

\* The first wait ends
PcWake1 ==
  /\ WakePresence("p_wait1")
  /\ IF Ambiguous
       THEN sPresCheckErrCnt' = sPresCheckErrCnt + 1 /\ wpc' = "p_retry"
       ELSE wpc' = "p_alt" /\ UNCHANGED sPresCheckErrCnt
  /\ UNCHANGED <<tagVars, syncVars, appVars, cbVars, nfccVars, gotAct,
                 sIsoDepPresCheckCnt, sIsoDepPresCheckAlternate,
                 sIsTagPresent, wret, wchecks, method, pGotOk>>

\* The head of the retry loop: while sPresCheckErrCnt <= retryCount the
\* check is issued again; a call refused goes round the loop uncounted
PcRetry ==
  /\ wpc = "p_retry"
  /\ IF sPresCheckErrCnt <= RetryCount
       THEN IssuePresence("p_wait2", "p_retry")
       ELSE wpc' = "p_alt" /\ UNCHANGED <<cmdq, psig, presLock>>
  /\ UNCHANGED <<tagVars, syncVars, appVars, cbVars, nfcc, nfccIntf, inField,
                 fieldChanges, noise, evq, gotAct, presVars, wret, wchecks,
                 method, isPresent, pGotOk>>

\* Mutant: an absent answer to a retry is not counted
PcWake2NoCount ==
  /\ WakePresence("p_wait2")
  /\ CASE ~psig -> wpc' = "p_alt" /\ UNCHANGED sPresCheckErrCnt
       [] sIsTagPresent -> wpc' = "p_alt" /\ sPresCheckErrCnt' = 0
       [] OTHER -> wpc' = "p_retry" /\ UNCHANGED sPresCheckErrCnt
  /\ UNCHANGED <<tagVars, syncVars, appVars, cbVars, nfccVars, gotAct,
                 sIsoDepPresCheckCnt, sIsoDepPresCheckAlternate,
                 sIsTagPresent, wret, wchecks, method, pGotOk>>

\* A retry's wait ends: a timeout breaks out, a present answer clears the
\* error count and breaks out, an absent answer is counted
PcWake2 ==
  /\ WakePresence("p_wait2")
  /\ CASE ~psig -> wpc' = "p_alt" /\ UNCHANGED sPresCheckErrCnt
       [] sIsTagPresent -> wpc' = "p_alt" /\ sPresCheckErrCnt' = 0
       [] OTHER -> wpc' = "p_retry" /\ sPresCheckErrCnt' = sPresCheckErrCnt + 1
  /\ UNCHANGED <<tagVars, syncVars, appVars, cbVars, nfccVars, gotAct,
                 sIsoDepPresCheckCnt, sIsoDepPresCheckAlternate,
                 sIsTagPresent, wret, wchecks, method, pGotOk>>

\* After the first NAK check of this target was answered absent, switch to
\* the I-block method for good and check once more
PcAlternate ==
  /\ wpc = "p_alt"
  /\ IF isPresent /\ sIsoDepPresCheckCnt = 1 /\ ~sIsTagPresent
       THEN /\ method' = "I_BLOCK" /\ sIsoDepPresCheckAlternate' = TRUE
            /\ IssuePresence("p_wait3", "p_end")
       ELSE /\ wpc' = "p_end"
            /\ UNCHANGED <<method, sIsoDepPresCheckAlternate, cmdq, psig,
                           presLock>>
  /\ UNCHANGED <<tagVars, syncVars, appVars, cbVars, nfcc, nfccIntf, inField,
                 fieldChanges, noise, evq, gotAct, sIsoDepPresCheckCnt,
                 sPresCheckErrCnt, sIsTagPresent, wret, wchecks, isPresent,
                 pGotOk>>

\* The alternate check's wait ends
PcWake3 ==
  /\ WakePresence("p_wait3")
  /\ wpc' = "p_end"
  /\ UNCHANGED <<tagVars, syncVars, appVars, cbVars, nfccVars, gotAct,
                 presVars, wret, wchecks, method, pGotOk>>

\* isPresent = isPresent && sIsTagPresent, the guard is released, and an
\* absent tag resets the presence-check state
PcEnd ==
  /\ wpc = "p_end"
  /\ LET present == isPresent /\ sIsTagPresent IN
       /\ wret' = IF present THEN "present" ELSE "absent"
       /\ IF present THEN UNCHANGED presVars ELSE ResetPresenceCheck
  /\ presLock' = "none" /\ wpc' = "idle"
  /\ UNCHANGED <<tagVars, syncVars, appVars, cbVars, nfccVars, gotAct,
                 wchecks, method, isPresent, psig, pGotOk>>

-----------------------------------------------------------------------------
AppStep ==
  \/ \E i \in 1..2 : doConnect(i)
  \/ doReconnect \/ doDisconnect \/ RsLock \/ RsDeactivate \/ RsWakeDeactivate \/ RsSelect
  \/ RsArm \/ RsWakeSelect \/ RsCheck \/ RsRetryWait \/ RsRetryWake
  \/ RsFinish \/ AppPost

CbStep == CbActivated \/ CbSelectError \/ CbDeactivated \/ CbNotify
          \/ CbAbortRest \/ CbPresenceResult

WdStep == PcTryLock \/ PcIsActivated \/ PcIssue \/ PcWake1 \/ PcRetry
          \/ PcWake2 \/ PcAlternate \/ PcWake3 \/ PcEnd

NfccStep == NfccDeactSleep \/ NfccSelect \/ NfccDeactIdle \/ NfccDiscover
            \/ NfccPresence

\* The bounded run is over: no call left to make and nothing in flight
Finished ==
  /\ pc = "idle" /\ ops = MaxOps /\ cbPc = "idle"
  /\ wpc = "idle" /\ wchecks = MaxPresenceChecks
  /\ cmdq = <<>> /\ evq = <<>>
  /\ UNCHANGED vars

Next == AppStep \/ CbStep \/ WdStep \/ NfccStep \/ NfccTagLeaves \/ NfccTagEnters
        \/ Finished

\* Every wait of reSelect and of the presence check ends by timeout, the
\* callback thread runs every delivered event, and the controller answers
\* the commands it was given.
Fairness == /\ WF_vars(AppStep) /\ WF_vars(CbStep) /\ WF_vars(WdStep)
            /\ WF_vars(NfccStep)

Spec == Init /\ [][Next]_vars /\ Fairness

-----------------------------------------------------------------------------
(* Properties                                                              *)

Events == [e : {"ACT"}, intf : Interfaces] \cup [e : {"SEL_ERR"}]
          \cup [e : {"PRES"}, ok : BOOLEAN]
          \cup [e : {"DEACT"}, type : {"SLEEP", "DISCOVERY"}]
Commands == [c : {"DEACT_SLEEP", "DEACT_IDLE", "PRES"}]
            \cup [c : {"SELECT"}, intf : Interfaces]

TypeOK ==
  /\ actState \in {"Idle", "Active", "Sleep"}
  /\ curIntf \in Interfaces /\ req \in Interfaces
  /\ actProto \in {"ISO_DEP", "T2T"} /\ connProto \in {"ISO_DEP", "UNKNOWN"}
  /\ {gTagJustActivated, gIsTagDeactivating, gIsSelectingRfInterface,
      sConnectWaitingForComplete, sConnectOk, sReselectTagIdle, sig, sw,
      inField, gotAct} \subseteq BOOLEAN
  /\ rfMutex \in {"none", "app"} /\ evLock \in {"none", "app"}
  /\ pc \in {"idle", "rs_lock", "post"} \cup ReselectPcs
  /\ rVal \in {0, 1, TARGET_LOST} /\ retry \in 0..MaxSelectRetries
  /\ ret \in {"none", "SUCCESS", "FAILED", "LOST"}
  /\ cbPc \in {"idle", "notify", "pnotify"} /\ cbCont \in {"none", "deact_idle", "abort"}
  /\ nfcc \in {"active", "sleep", "discovery"} /\ nfccIntf \in Interfaces
  /\ cmdq \in Seq(Commands) /\ evq \in Seq(Events)
  /\ {sIsoDepPresCheckCnt, sPresCheckErrCnt} \subseteq Nat
  /\ {sIsoDepPresCheckAlternate, sIsTagPresent, isPresent, psig, pGotOk}
       \subseteq BOOLEAN
  /\ wpc \in {"idle", "p_act", "p_issue", "p_retry", "p_alt", "p_end"}
             \cup WdWaitPcs
  /\ wret \in {"none", "present", "absent"} /\ wchecks \in 0..MaxPresenceChecks
  /\ method \in {"NAK", "I_BLOCK"} /\ presLock \in {"none", "wd"}

\* The host's view agrees with the controller once every event it sent has
\* been handled: NfcTag's activation state mirrors the controller's link and,
\* while Active, sCurrentRfInterface is the interface the link is on.
HostMirrorsController ==
  (cbPc = "idle" /\ evq = <<>>) =>
    /\ actState = CASE nfcc = "active" -> "Active"
                   [] nfcc = "sleep" -> "Sleep"
                   [] OTHER -> "Idle"
    /\ actState = "Active" => curIntf = nfccIntf

\* doConnect and doReconnect report SUCCESS only when the last activation
\* the callback recorded is on the interface they asked for.
ConnectedOnRequestedInterface ==
  [][(pc = "post" /\ pc' = "idle" /\ ret' = "SUCCESS") => curIntf = req]_vars

\* When the select wait was answered in time and reSelect goes on to its
\* verdict (after the retry loop meant to absorb a generic error ahead of
\* the activation), it reports failure (1) only if the tag is not connected:
\* not when an activation on the requested interface was handled for its
\* select and the tag is still Active.
NoSpuriousSelectFailure ==
  [][(pc = "rs_fin" /\ pc' = "post" /\ rVal' = 1)
        => ~(gotAct /\ actState = "Active" /\ curIntf = req)]_vars

\* reSelect reports the tag connected (0) at the end of its select path only
\* if an NFA_ACTIVATED_EVT was handled after its NFA_Select was issued: the
\* sConnectOk of an earlier select, or a wake-up by a stale notify, is not
\* an answer.
SuccessOnlyAfterActivation ==
  [][(pc = "rs_fin" /\ pc' = "post" /\ rVal' = 0) => gotAct]_vars

\* Every connect or reconnect call returns: all waits of reSelect are bounded.
CallReturns == pc # "idle" ~> pc = "idle"

\* doPresenceCheck reports a tag present at the end of its checks only if
\* the controller answered one of this call's checks with NFA_STATUS_OK:
\* a wake-up by nativeNfcTag_abortWaits is not an answer.
PresentOnlyOnAnswer ==
  [][(wpc = "p_end" /\ wpc' = "idle" /\ wret' = "present") => pGotOk]_vars

\* A presence check racing a reSelect is answered optimistically (spec P2):
\* it never reports a tag in the field absent while reSelect holds
\* sRfInterfaceMutex.
NoFalseAbsence ==
  [][(wpc # "idle" /\ wpc' = "idle" /\ wret' = "absent")
        => ~(rfMutex = "app" /\ inField)]_vars

\* Every doPresenceCheck call returns: its waits are bounded and its retry
\* loop ends.
PresenceReturns == wpc # "idle" ~> wpc = "idle"

=============================================================================
