--------------------------- MODULE RoutingManager ---------------------------
(***************************************************************************)
(* The routing synchronizer of RoutingManager.cpp: a caller thread (the   *)
(* NFC service calling initialize, commitRouting, addAidRouting,          *)
(* removeAidRouting, updateSystemCodeRoute, setEeTechRouteUpdateRequired  *)
(* and deinitialize), the NFA callback thread running nfaEeCallback, and  *)
(* the NFA stack, which applies directives in order, answers each with    *)
(* its event, and reports EE hot-plug with NFA_EE_DISCOVER_REQ_EVT.       *)
(*                                                                         *)
(* Every wait is a SyncEvent wait without timeout. The caller takes the   *)
(* event's guard before issuing the directive and waits under it, so a    *)
(* completion cannot be missed; but directives issued without a wait      *)
(* (the technology routes, the ISO-DEP protocol route, the zero-length    *)
(* AID of updateDefaultRoute) still produce events that notify whoever    *)
(* waits on the same event next.                                          *)
(***************************************************************************)
EXTENDS Naturals, Sequences, FiniteSets

CONSTANTS
  EEs, DH,
  \* configured values the constructor reads: mDefaultOffHostRoute
  \* (NAME_DEFAULT_OFFHOST_ROUTE), mDefaultFelicaRoute (NAME_DEFAULT_NFCF_
  \* ROUTE), mDefaultEe (NAME_DEFAULT_ROUTE), mDefaultIsoDepRoute
  \* (NAME_DEFAULT_ISODEP_ROUTE), mHostListenTechMask, mOffHostListenTechMask,
  \* and whether mOffHostRouteEse names an eSE
  OffHostRoute, FelicaRoute, DefaultEe, DefaultIsoDepRoute,
  HostMask, OffHostMask, EseConfigured,
  TopologyChoices,   \* EE topologies the controller may report
  RouteChoices,      \* routes the service may pass to the update calls
  MaxCalls,          \* calls the service makes
  MaxTopologyChanges, \* EE hot-plug events
  CmdMayFail,        \* whether an NFA_Ee* call or an AID directive may fail
  ScbrChoices,       \* whether the controller accepts system-code routing
  Calls              \* the calls the service may make

ASSUME RouteChoices \subseteq EEs \cup {DH} /\ MaxCalls \in Nat
       /\ MaxTopologyChanges \in Nat /\ CmdMayFail \in BOOLEAN
       /\ ScbrChoices \subseteq BOOLEAN

RT == INSTANCE RoutingTechRoute WITH
        HostListenTechMasks <- {HostMask}, OffHostListenTechMasks <- {OffHostMask},
        mEeInfo <- <<>>, ctrl <- {}, mDefaultOffHostRoute <- OffHostRoute,
        mDefaultFelicaRoute <- FelicaRoute, mOffHostListenTechMask <- OffHostMask,
        mHostListenTechMask <- HostMask, mSeTechMask <- {}

\* a call's boolean result
Result(b) == IF b THEN "ok" ELSE "fail"
CmdResults == IF CmdMayFail THEN BOOLEAN ELSE {TRUE}

\* NFA card-emulation handles; the NFA gives each registration a free one
NFA_HANDLE_INVALID == 0
Handles == 1..MaxCalls

VARIABLES
  \* RoutingManager members
  mEeInfo, mReceivedEeInfo, mEeInfoChanged, mDeinitializing, mSeTechMask,
  mAidRoutingConfigured, mIsScbrSupported,
  mDefaultOffHostRoute, mDefaultFelicaRoute, mDefaultIsoDepRoute,
  \* the caller's SyncEvent: the guard it holds, the event it waits on, and
  \* whether it has been notified
  held, waitOn, sig,
  \* the caller thread: program point, where a shared part returns to,
  \* calls made, last result, EEs left to deactivate, routing enabled
  pc, cont, calls, ret, todo, enabled,
  \* a run of routing directives each waited for in turn: those left,
  \* whether one guard is held across them, and clearRoutingEntry's flags
  steps, seqGuard, clearFlags,
  \* the NFA stack: directives not yet applied, events not yet delivered,
  \* the EE topology, hot-plug events so far, callback registered, and
  \* whether the controller accepts system-code routing
  dq, evq, nfaTopo, topoChanges, registered, scbrCapable,
  \* history: topology and technologies the technology routes were last
  \* programmed for, and the answer to the caller's own AID directive
  routedFor, lastAllSe, ownAns,
  \* the NFC-F card emulation on the host: mNfcFOnDhHandle, the handles
  \* mMapScbrHandle gives a system code, whether mCbEventData.status is
  \* NFA_STATUS_OK, the handle the T3T call takes or returns, and
  \* history: the handle the NFA gave the call's own registration, the
  \* handles the service holds and the registrations in the controller
  mNfcFOnDhHandle, mMapScbrHandle, mCbEventDataOk, handle, ownHandle,
  t3tHeld, ceRegs

rmVars == <<mEeInfo, mReceivedEeInfo, mEeInfoChanged, mDeinitializing,
            mSeTechMask, mAidRoutingConfigured, mIsScbrSupported>>
cfgVars == <<mDefaultOffHostRoute, mDefaultFelicaRoute, mDefaultIsoDepRoute>>
syncVars == <<held, waitOn, sig>>
callVars == <<pc, cont, calls, ret, todo, enabled>>
seqVars == <<steps, seqGuard, clearFlags>>
nfaVars == <<dq, evq, nfaTopo, topoChanges, registered, scbrCapable>>
t3tVars == <<mNfcFOnDhHandle, mMapScbrHandle, mCbEventDataOk, handle, ownHandle,
             t3tHeld, ceRegs>>
vars == <<rmVars, cfgVars, syncVars, callVars, seqVars, nfaVars, routedFor,
          lastAllSe, ownAns, t3tVars>>

\* updateEeTechRouteSetting for a topology, with the routes in effect
TechRoutes(ees) == RT!UpdateEeTechRouteSetting(ees, mDefaultOffHostRoute,
                     mDefaultFelicaRoute, OffHostMask, HostMask)
\* the off-host routes are configured (onNfccShutdown and initialize test it)
OffHostConfigured == mDefaultOffHostRoute # DH \/ mDefaultFelicaRoute # DH

Init ==
  /\ mEeInfo = <<>> /\ mReceivedEeInfo = FALSE /\ mEeInfoChanged = FALSE
  /\ mDeinitializing = FALSE /\ mSeTechMask = {}
  /\ mAidRoutingConfigured = FALSE /\ mIsScbrSupported = FALSE
  /\ mDefaultOffHostRoute = OffHostRoute /\ mDefaultFelicaRoute = FelicaRoute
  /\ mDefaultIsoDepRoute = DefaultIsoDepRoute
  /\ held = "none" /\ waitOn = "none" /\ sig = FALSE
  /\ pc = "idle" /\ cont = <<>> /\ calls = 0 /\ ret = "none"
  /\ todo = {} /\ enabled = FALSE
  /\ steps = <<>> /\ seqGuard = FALSE /\ clearFlags = {}
  /\ dq = <<>> /\ evq = <<>> /\ nfaTopo \in TopologyChoices
  /\ topoChanges = 0 /\ registered = FALSE /\ scbrCapable \in ScbrChoices
  /\ routedFor = <<>> /\ lastAllSe = {} /\ ownAns = "none"
  /\ mNfcFOnDhHandle = NFA_HANDLE_INVALID /\ mMapScbrHandle = {}
  /\ mCbEventDataOk = TRUE /\ handle = NFA_HANDLE_INVALID
  /\ ownHandle = NFA_HANDLE_INVALID /\ t3tHeld = {} /\ ceRegs = {}

-----------------------------------------------------------------------------
(* Helpers of the caller thread                                           *)

\* A directive for the NFA stack; own marks the caller's own directive
\* (history), h the CE handle a deregistration names
Dir(k, own, h) == [k |-> k, own |-> own, h |-> h]
Issue(k) == dq' = Append(dq, Dir(k, FALSE, NFA_HANDLE_INVALID))

\* SyncEvent::wait() under the guard: the guard is released while waiting
Wait(e) == waitOn' = e /\ sig' = FALSE /\ held' = "none"

\* The wait ends once notified, and the guard is taken back
Wake(e) == waitOn = e /\ sig /\ sig' = FALSE

\* Go on at the return points next, then those of the callers, or end
\* the call
Continue(next) ==
  LET c == next \o cont IN
    IF c = <<>> THEN pc' = "idle" /\ cont' = <<>>
                ELSE pc' = Head(c) /\ cont' = Tail(c)
Return == Continue(<<>>)

\* A call starts
Call(name) == pc = "idle" /\ calls < MaxCalls /\ name \in Calls
              /\ calls' = calls + 1

\* NFA_EeGetInfo: the EE reports a type A or B listen protocol
IsTypeATypeBTechSupportedInEe(ee) ==
  \E i \in DOMAIN nfaTopo : nfaTopo[i].h = ee /\ nfaTopo[i].techs \cap {"A", "B"} # {}

\* updateEeTechRouteSetting(): its directives are issued without waiting
\* for their events; it returns the technologies the EEs were given
ProgramTechRoutes ==
  LET r == TechRoutes(mEeInfo) IN
    /\ dq' = IF r.dirs = <<>> THEN dq ELSE Append(dq, Dir("TECHS", FALSE, NFA_HANDLE_INVALID))
    /\ routedFor' = mEeInfo
    /\ lastAllSe' = r.allSe

\* mSeTechMask = updateEeTechRouteSetting()
Recompute == ProgramTechRoutes /\ mSeTechMask' = lastAllSe'

-----------------------------------------------------------------------------
(* RoutingManager::initialize                                              *)

\* NFA_EeRegister under mEeRegisterEvent's guard, then wait
InitRegister ==
  /\ Call("initialize") /\ ~enabled
  /\ \E st \in CmdResults :
       IF st THEN Issue("REGISTER") /\ Wait("reg") /\ pc' = "i_reg" /\ UNCHANGED ret
             ELSE ret' = "fail" /\ UNCHANGED <<dq, waitOn, sig, held, pc>>
  /\ UNCHANGED <<cfgVars, seqVars, lastAllSe, rmVars, cont, todo, enabled, evq, nfaTopo, topoChanges,
                 registered, scbrCapable, routedFor, ownAns>>
  /\ UNCHANGED t3tVars

\* After NFA_EE_REGISTER_EVT: with an off-host route configured, wait for
\* the EE information unless it has already arrived
InitWakeRegister ==
  /\ pc = "i_reg" /\ Wake("reg")
  /\ IF OffHostConfigured /\ ~mReceivedEeInfo
       THEN waitOn' = "eeinfo" /\ pc' = "i_eeinfo"
       ELSE waitOn' = "none" /\ pc' = "i_compute"
  /\ UNCHANGED <<cfgVars, seqVars, lastAllSe, rmVars, held, cont, calls, ret, todo, enabled, nfaVars,
                 routedFor, ownAns>>
  /\ UNCHANGED t3tVars

InitWakeEeInfo ==
  /\ pc = "i_eeinfo" /\ Wake("eeinfo")
  /\ waitOn' = "none" /\ pc' = "i_compute"
  /\ UNCHANGED <<cfgVars, seqVars, lastAllSe, rmVars, held, cont, calls, ret, todo, enabled, nfaVars,
                 routedFor, ownAns>>
  /\ UNCHANGED t3tVars

\* mSeTechMask = updateEeTechRouteSetting(), the card-emulation listen and
\* wildcard AID registrations (connection events only), then
\* updateDefaultRoute
InitCompute ==
  /\ pc = "i_compute"
  /\ Recompute
  /\ pc' = "dr_sys" /\ cont' = <<"pr_iso", "i_done">>
  /\ UNCHANGED <<cfgVars, seqVars, mEeInfo, mReceivedEeInfo, mEeInfoChanged, mDeinitializing,
                 mAidRoutingConfigured, mIsScbrSupported, syncVars, calls, ret,
                 todo, enabled, evq, nfaTopo, topoChanges, registered, scbrCapable, ownAns>>
  /\ UNCHANGED t3tVars

InitDone ==
  /\ pc = "i_done"
  /\ pc' = "idle" /\ ret' = "ok" /\ enabled' = TRUE
  /\ UNCHANGED <<cfgVars, seqVars, lastAllSe, rmVars, syncVars, cont, calls,
                 todo, nfaVars, routedFor, ownAns>>
  /\ UNCHANGED t3tVars

-----------------------------------------------------------------------------
(* RoutingManager::updateDefaultProtocolRoute, called by initialize and    *)
(* updateIsoDepProtocolRoute; it returns to cont and releases the guard    *)

\* The ISO-DEP route is cleared and set, on the ISO-DEP route EE if it
\* supports type A or B and on the host otherwise, without waiting (the
\* clear and the set are one directive of the model)
PrIsoDep ==
  /\ pc = "pr_iso"
  /\ Issue("PROTO")
  /\ IF mIsScbrSupported
       THEN Return /\ held' = "none"
       ELSE pc' = "pr_t3t" /\ UNCHANGED <<cont, held>>
  /\ UNCHANGED <<cfgVars, seqVars, lastAllSe, rmVars, waitOn, sig, calls, ret,
                 todo, enabled, evq, nfaTopo, topoChanges, registered,
                 scbrCapable, routedFor, ownAns>>
  /\ UNCHANGED t3tVars

\* Without SCBR the T3T route is set under mRoutingEvent's guard and waited
\* for. The guard is a non-recursive mutex: a caller that already holds it
\* cannot take it again. For the host one directive is issued; for another
\* EE NFA_EeClearDefaultProtoRouting goes first and its status is overwritten
\* by the set's, so the clear is in flight even when the set is refused.
PrT3t ==
  /\ pc = "pr_t3t" /\ held = "none"
  /\ \E st \in CmdResults :
       /\ IF st \/ DefaultEe # DH THEN Issue("PROTO") ELSE UNCHANGED dq
       /\ IF st THEN Wait("routing") /\ pc' = "pr_wt3t" /\ UNCHANGED cont
                ELSE Return /\ UNCHANGED syncVars
  /\ UNCHANGED <<cfgVars, seqVars, lastAllSe, rmVars, calls, ret, todo, enabled,
                 evq, nfaTopo, topoChanges, registered, scbrCapable, routedFor,
                 ownAns>>
  /\ UNCHANGED t3tVars

PrWakeT3t ==
  /\ pc = "pr_wt3t" /\ Wake("routing")
  /\ waitOn' = "none" /\ Return
  /\ UNCHANGED <<cfgVars, seqVars, lastAllSe, rmVars, held, calls, ret, todo,
                 enabled, nfaVars, routedFor, ownAns>>
  /\ UNCHANGED t3tVars

-----------------------------------------------------------------------------
(* RoutingManager::updateDefaultRoute (NCI 2.0), called by initialize and  *)
(* updateSystemCodeRoute; it returns to cont                               *)

\* Mutant: an error other than NOT_SUPPORTED also waits for the event
DrSysCodeWaitOnError ==
  /\ pc = "dr_sys"
  /\ \E st \in (IF scbrCapable THEN {"OK"} \cup (IF CmdMayFail THEN {"FAILED"} ELSE {})
                                 ELSE {"NOT_SUPPORTED"}) :
       /\ mIsScbrSupported' = (st # "NOT_SUPPORTED")
       /\ IF st # "NOT_SUPPORTED"
            THEN /\ IF st = "OK" THEN Issue("SYSCODE") ELSE UNCHANGED dq
                 /\ Wait("routing") /\ pc' = "dr_wsys"
            ELSE held' = "routing" /\ pc' = "dr_aid" /\ UNCHANGED <<dq, waitOn, sig>>
  /\ UNCHANGED <<cfgVars, seqVars, lastAllSe, mEeInfo, mReceivedEeInfo, mEeInfoChanged, mDeinitializing,
                 mSeTechMask, mAidRoutingConfigured, cont, calls, ret, todo,
                 enabled, evq, nfaTopo, topoChanges, registered, scbrCapable, routedFor,
                 ownAns>>
  /\ UNCHANGED t3tVars

\* NFA_EeAddSystemCodeRouting under mRoutingEvent's guard: NOT_SUPPORTED
\* clears mIsScbrSupported, OK sets it and waits, another error sets it
\* (the modelled controller is NCI 2.0: the early return for NCI 1.0 is not
\* taken)
DrSysCode ==
  /\ pc = "dr_sys"
  /\ \E st \in (IF scbrCapable THEN {"OK"} \cup (IF CmdMayFail THEN {"FAILED"} ELSE {})
                                 ELSE {"NOT_SUPPORTED"}) :
       /\ mIsScbrSupported' = (st # "NOT_SUPPORTED")
       /\ IF st = "OK" THEN Issue("SYSCODE") /\ Wait("routing") /\ pc' = "dr_wsys"
                       ELSE held' = "routing" /\ pc' = "dr_aid"
                            /\ UNCHANGED <<cfgVars, seqVars, lastAllSe, dq, waitOn, sig>>
  /\ UNCHANGED <<cfgVars, seqVars, lastAllSe, mEeInfo, mReceivedEeInfo, mEeInfoChanged, mDeinitializing,
                 mSeTechMask, mAidRoutingConfigured, cont, calls, ret, todo,
                 enabled, evq, nfaTopo, topoChanges, registered, scbrCapable, routedFor,
                 ownAns>>
  /\ UNCHANGED t3tVars

DrWakeSysCode ==
  /\ pc = "dr_wsys" /\ Wake("routing")
  /\ waitOn' = "none" /\ held' = "routing" /\ pc' = "dr_aid"
  /\ UNCHANGED <<cfgVars, seqVars, lastAllSe, rmVars, cont, calls, ret, todo, enabled, nfaVars, routedFor,
                 ownAns>>
  /\ UNCHANGED t3tVars

\* The zero-length AID for the default route, when it differs from the
\* ISO-DEP route and the default EE supports type A or B, is added without
\* waiting for NFA_EE_ADD_AID_EVT; the guard is released on return
DrZeroAid ==
  /\ pc = "dr_aid"
  /\ IF /\ DefaultEe # DefaultIsoDepRoute
        /\ DefaultEe = DH \/ IsTypeATypeBTechSupportedInEe(DefaultEe)
       THEN \E st \in CmdResults :
              dq' = IF st THEN Append(dq, Dir("AID", FALSE, NFA_HANDLE_INVALID)) ELSE dq
       ELSE UNCHANGED dq
  /\ held' = "none" /\ Return
  /\ UNCHANGED <<cfgVars, seqVars, lastAllSe, rmVars, waitOn, sig, calls, ret, todo, enabled, evq, nfaTopo,
                 topoChanges, registered, scbrCapable, routedFor, ownAns>>
  /\ UNCHANGED t3tVars

-----------------------------------------------------------------------------
(* RoutingManager::commitRouting                                           *)

\* NFA_EeUpdateNow under mEeUpdateEvent's guard, waiting for
\* NFA_EE_UPDATED_EVT when it is accepted
IssueUpdate ==
  \E st \in CmdResults :
    IF st THEN Issue("UPDATE") /\ Wait("update") /\ pc' = "c_wait" /\ UNCHANGED ret
          ELSE pc' = "idle" /\ ret' = "fail" /\ UNCHANGED <<dq, syncVars>>

\* With mEeInfoChanged set, the technology routes are recomputed from
\* mEeInfo; the flag is cleared only after the recomputation
\* commitRouting's body, run by the call and by the JNI wrappers of the
\* T3T calls
CommitRouting ==
  /\ IF mEeInfoChanged
       THEN Recompute /\ pc' = "c_clear" /\ UNCHANGED <<syncVars, ret>>
       ELSE IssueUpdate /\ UNCHANGED <<mSeTechMask, routedFor, lastAllSe>>
  /\ UNCHANGED <<cfgVars, seqVars, mEeInfo, mReceivedEeInfo, mEeInfoChanged, mDeinitializing,
                 mAidRoutingConfigured, mIsScbrSupported, cont, todo, enabled,
                 evq, nfaTopo, topoChanges, registered, scbrCapable, ownAns>>
  /\ UNCHANGED t3tVars

CommitStart == Call("commitRouting") /\ enabled /\ CommitRouting

CommitClear ==
  /\ pc = "c_clear"
  /\ mEeInfoChanged' = FALSE
  /\ IssueUpdate
  /\ UNCHANGED <<cfgVars, seqVars, lastAllSe, mEeInfo, mReceivedEeInfo, mDeinitializing, mSeTechMask,
                 mAidRoutingConfigured, mIsScbrSupported, cont, calls, todo,
                 enabled, evq, nfaTopo, topoChanges, registered, scbrCapable, routedFor,
                 ownAns>>
  /\ UNCHANGED t3tVars

CommitWake ==
  /\ pc = "c_wait" /\ Wake("update")
  /\ waitOn' = "none" /\ pc' = "idle" /\ ret' = "ok"
  /\ UNCHANGED <<cfgVars, seqVars, lastAllSe, rmVars, held, cont, calls, todo, enabled, nfaVars, routedFor,
                 ownAns>>
  /\ UNCHANGED t3tVars

-----------------------------------------------------------------------------
(* addAidRouting and removeAidRouting: under mAidAddRemoveEvent's guard    *)
(* mAidRoutingConfigured is cleared, the directive issued and, if it was   *)
(* accepted, its event waited for; the call returns mAidRoutingConfigured  *)

\* The body shared by both calls and by clearRoutingEntry
AidIssue(next) ==
  /\ mAidRoutingConfigured' = FALSE /\ ownAns' = "none"
  /\ \E st \in CmdResults :
       IF st THEN /\ dq' = Append(dq, Dir("AID", TRUE, NFA_HANDLE_INVALID))
                  /\ Wait("aid") /\ pc' = "aid_wait" /\ cont' = next \o cont
                  /\ UNCHANGED ret
             ELSE Continue(next) /\ ret' = "fail" /\ UNCHANGED <<dq, syncVars>>

AidRouting(name) ==
  /\ Call(name) /\ enabled
  /\ AidIssue(<<>>)
  /\ UNCHANGED <<cfgVars, seqVars, lastAllSe, mEeInfo, mReceivedEeInfo,
                 mEeInfoChanged, mDeinitializing, mSeTechMask, mIsScbrSupported,
                 todo, enabled, evq, nfaTopo, topoChanges, registered,
                 scbrCapable, routedFor>>
  /\ UNCHANGED t3tVars

AidWake ==
  /\ pc = "aid_wait" /\ Wake("aid")
  /\ waitOn' = "none" /\ Return /\ ret' = Result(mAidRoutingConfigured)
  /\ UNCHANGED <<cfgVars, seqVars, lastAllSe, rmVars, held, calls, todo,
                 enabled, nfaVars, routedFor, ownAns>>
  /\ UNCHANGED t3tVars

-----------------------------------------------------------------------------
(* updateSystemCodeRoute and setEeTechRouteUpdateRequired                  *)

UpdateSystemCodeRoute ==
  /\ Call("updateSystemCodeRoute") /\ enabled
  /\ mEeInfoChanged' = TRUE
  /\ pc' = "dr_sys"
  /\ UNCHANGED <<cfgVars, seqVars, lastAllSe, mEeInfo, mReceivedEeInfo,
                 mDeinitializing, mSeTechMask, mAidRoutingConfigured,
                 mIsScbrSupported, syncVars, cont, ret, todo,
                 enabled, nfaVars, routedFor, ownAns>>
  /\ UNCHANGED t3tVars

SetEeTechRouteUpdateRequired ==
  /\ Call("setEeTechRouteUpdateRequired") /\ enabled
  /\ mEeInfoChanged' = TRUE
  /\ UNCHANGED <<cfgVars, seqVars, lastAllSe, mEeInfo, mReceivedEeInfo, mDeinitializing, mSeTechMask,
                 mAidRoutingConfigured, mIsScbrSupported, syncVars, pc, cont,
                 ret, todo, enabled, nfaVars, routedFor, ownAns>>
  /\ UNCHANGED t3tVars

-----------------------------------------------------------------------------
(* deinitialize: onNfccShutdown, then NFA_EeDeregister                    *)

\* Without off-host routes nothing is deactivated; otherwise
\* mDeinitializing is set and NFA_EeGetInfo lists the active EEs
ShutdownStart ==
  /\ Call("deinitialize") /\ enabled
  /\ IF ~OffHostConfigured
       THEN pc' = "d_dereg" /\ UNCHANGED <<mDeinitializing, todo>>
       ELSE /\ mDeinitializing' = TRUE
            /\ \E st \in CmdResults :
                 IF st THEN todo' = {nfaTopo[i].h : i \in DOMAIN nfaTopo} /\ pc' = "d_mode"
                       ELSE pc' = "d_dereg" /\ UNCHANGED todo
  /\ UNCHANGED <<cfgVars, seqVars, lastAllSe, mEeInfo, mReceivedEeInfo, mEeInfoChanged, mSeTechMask,
                 mAidRoutingConfigured, mIsScbrSupported, syncVars, cont, ret,
                 enabled, nfaVars, routedFor, ownAns>>
  /\ UNCHANGED t3tVars

\* NFA_EeModeSet(deactivate) for the next EE under mEeSetModeEvent's guard,
\* waiting for NFA_EE_MODE_SET_EVT when accepted
ShutdownModeSet ==
  /\ pc = "d_mode"
  /\ IF todo = {}
       THEN pc' = "d_dereg" /\ UNCHANGED <<dq, syncVars, todo>>
       ELSE \E st \in CmdResults :
              IF st THEN Issue("MODESET") /\ Wait("setmode") /\ pc' = "d_wmode"
                         /\ UNCHANGED todo
                    ELSE todo' = todo \ {CHOOSE e \in todo : TRUE}
                         /\ UNCHANGED <<cfgVars, seqVars, lastAllSe, dq, syncVars, pc>>
  /\ UNCHANGED <<cfgVars, seqVars, lastAllSe, rmVars, cont, calls, ret, enabled, evq, nfaTopo, topoChanges,
                 registered, scbrCapable, routedFor, ownAns>>
  /\ UNCHANGED t3tVars

\* Mutant: the loop over the EEs does not advance after a deactivation
ShutdownWakeNoAdvance ==
  /\ pc = "d_wmode" /\ Wake("setmode")
  /\ waitOn' = "none" /\ pc' = "d_mode"
  /\ UNCHANGED <<cfgVars, seqVars, lastAllSe, rmVars, held, cont, calls, ret, todo, enabled, nfaVars,
                 routedFor, ownAns>>
  /\ UNCHANGED t3tVars

ShutdownWake ==
  /\ pc = "d_wmode" /\ Wake("setmode")
  /\ waitOn' = "none" /\ pc' = "d_mode"
  /\ todo' = todo \ {CHOOSE e \in todo : TRUE}
  /\ UNCHANGED <<cfgVars, seqVars, lastAllSe, rmVars, held, cont, calls, ret, enabled, nfaVars, routedFor,
                 ownAns>>
  /\ UNCHANGED t3tVars

\* NFA_EeDeregister; its status is not looked at
Deregister ==
  /\ pc = "d_dereg"
  /\ \E st \in CmdResults : IF st THEN Issue("DEREGISTER") ELSE UNCHANGED dq
  /\ pc' = "idle" /\ enabled' = FALSE
  /\ UNCHANGED <<cfgVars, seqVars, lastAllSe, rmVars, syncVars, cont, calls, ret, todo, evq, nfaTopo,
                 topoChanges, registered, scbrCapable, routedFor, ownAns>>
  /\ UNCHANGED t3tVars

-----------------------------------------------------------------------------
(* Runs of routing directives issued one after another, each waited for on *)
(* mRoutingEvent when accepted: under one guard for the whole function     *)
(* (enableRoutingToHost, disableRoutingToHost, updateIsoDepProtocolRoute,  *)
(* updateTechnologyABFRoute) or under a guard per directive               *)
(* (clearRoutingEntry's loops)                                             *)

\* A directive of a run; dh names the technology of a host route it sets
Step(k) == [k |-> k, dh |-> "none"]
When(b, s) == IF b THEN s ELSE <<>>
\* The host's technologies the EEs were not given (mSeTechMask), in the
\* order A, B, F
HostOnlyTechs ==
  SelectSeq(<<"A", "B", "F">>, LAMBDA t : t \in HostMask /\ t \notin mSeTechMask)
\* The T3T protocol route is the host's
T3tOnHost == ~mIsScbrSupported /\ DefaultEe = DH

\* enableRoutingToHost: T3T, ISO-DEP on the host, then A, B and F
EnableSteps ==
  When(T3tOnHost, <<Step("PROTO")>>) \o When(mDefaultIsoDepRoute = DH, <<Step("PROTO")>>)
  \o [i \in DOMAIN HostOnlyTechs |-> [k |-> "TECHS", dh |-> HostOnlyTechs[i]]]

\* disableRoutingToHost: ISO-DEP, then A, B and F, then T3T
DisableSteps ==
  When(mDefaultIsoDepRoute = DH, <<Step("PROTO")>>)
  \o [i \in DOMAIN HostOnlyTechs |-> Step("TECHS")] \o When(T3tOnHost, <<Step("PROTO")>>)

StartSeq(st, guardAll, next) ==
  /\ steps' = st /\ seqGuard' = guardAll
  /\ held' = IF guardAll THEN "routing" ELSE "none"
  /\ pc' = "rs_issue" /\ cont' = next \o cont

\* Mutant: a refused directive is waited for as well
SeqIssueWaitOnRefusal ==
  /\ pc = "rs_issue"
  /\ IF steps = <<>>
       THEN Return /\ UNCHANGED <<dq, syncVars, steps>>
       ELSE \E st \in CmdResults :
              /\ IF st THEN Issue(Head(steps).k) ELSE UNCHANGED dq
              /\ Wait("routing") /\ pc' = "rs_wait" /\ UNCHANGED <<steps, cont>>
  /\ UNCHANGED <<cfgVars, seqGuard, clearFlags, lastAllSe, rmVars, calls, ret,
                 todo, enabled, evq, nfaTopo, topoChanges, registered,
                 scbrCapable, routedFor, ownAns>>
  /\ UNCHANGED t3tVars

\* The next directive is issued and, if accepted, waited for
SeqIssue ==
  /\ pc = "rs_issue"
  /\ IF steps = <<>>
       THEN Return /\ UNCHANGED <<dq, syncVars, steps>>
       ELSE \E st \in CmdResults :
              IF st THEN Issue(Head(steps).k) /\ Wait("routing") /\ pc' = "rs_wait"
                         /\ UNCHANGED <<steps, cont>>
                    ELSE steps' = Tail(steps) /\ UNCHANGED <<dq, syncVars, pc, cont>>
  /\ UNCHANGED <<cfgVars, seqGuard, clearFlags, lastAllSe, rmVars, calls, ret,
                 todo, enabled, evq, nfaTopo, topoChanges, registered,
                 scbrCapable, routedFor, ownAns>>
  /\ UNCHANGED t3tVars

\* Mutant: the run does not move past a directive once it completed
SeqWakeNoAdvance ==
  /\ pc = "rs_wait" /\ Wake("routing")
  /\ waitOn' = "none" /\ pc' = "rs_issue"
  /\ held' = IF seqGuard THEN "routing" ELSE "none"
  /\ UNCHANGED <<cfgVars, seqVars, lastAllSe, rmVars, cont, calls, ret, todo,
                 enabled, nfaVars, routedFor, ownAns>>
  /\ UNCHANGED t3tVars

SeqWake ==
  /\ pc = "rs_wait" /\ Wake("routing")
  /\ waitOn' = "none" /\ steps' = Tail(steps) /\ pc' = "rs_issue"
  /\ held' = IF seqGuard THEN "routing" ELSE "none"
  /\ UNCHANGED <<cfgVars, seqGuard, clearFlags, lastAllSe, rmVars, cont, calls,
                 ret, todo, enabled, nfaVars, routedFor, ownAns>>
  /\ UNCHANGED t3tVars

\* The function-wide guard is released when the function returns
GuardRelease ==
  /\ pc = "g_release"
  /\ held' = "none" /\ Return
  /\ UNCHANGED <<cfgVars, seqVars, lastAllSe, rmVars, waitOn, sig, calls, ret,
                 todo, enabled, nfaVars, routedFor, ownAns>>
  /\ UNCHANGED t3tVars

EnableRoutingToHost ==
  /\ Call("enableRoutingToHost") /\ enabled
  /\ StartSeq(EnableSteps, TRUE, <<"g_release">>)
  /\ UNCHANGED <<cfgVars, clearFlags, lastAllSe, rmVars, waitOn, sig, ret, todo,
                 enabled, nfaVars, routedFor, ownAns>>
  /\ UNCHANGED t3tVars

DisableRoutingToHost ==
  /\ Call("disableRoutingToHost") /\ enabled
  /\ StartSeq(DisableSteps, TRUE, <<"g_release">>)
  /\ UNCHANGED <<cfgVars, clearFlags, lastAllSe, rmVars, waitOn, sig, ret, todo,
                 enabled, nfaVars, routedFor, ownAns>>
  /\ UNCHANGED t3tVars

\* nfcManager_clearRoutingEntry: disableRoutingToHost, then
\* clearRoutingEntry with the service's flags
ClearRoutingEntry ==
  /\ Call("clearRoutingEntry") /\ enabled
  /\ \E f \in SUBSET {"AID", "PROTO", "TECH"} : clearFlags' = f
  /\ StartSeq(DisableSteps, TRUE, <<"g_release", "ce_aid">>)
  /\ UNCHANGED <<cfgVars, lastAllSe, rmVars, waitOn, sig, ret, todo, enabled,
                 nfaVars, routedFor, ownAns>>
  /\ UNCHANGED t3tVars

\* CLEAR_AID_ENTRIES: removeAidRouting of the wildcard AID
CeAid ==
  /\ pc = "ce_aid"
  /\ IF "AID" \in clearFlags
       THEN AidIssue(<<"ce_tables">>)
       ELSE pc' = "ce_tables"
            /\ UNCHANGED <<mAidRoutingConfigured, ownAns, dq, syncVars, ret, cont>>
  /\ UNCHANGED <<cfgVars, seqVars, lastAllSe, mEeInfo, mReceivedEeInfo,
                 mEeInfoChanged, mDeinitializing, mSeTechMask, mIsScbrSupported,
                 calls, todo, enabled, evq, nfaTopo, topoChanges, registered,
                 scbrCapable, routedFor>>
  /\ UNCHANGED t3tVars

\* CLEAR_PROTOCOL_ENTRIES and CLEAR_TECHNOLOGY_ENTRIES: for each EE of
\* mEeInfo and then the host, a clear under its own guard
CeTables ==
  /\ pc = "ce_tables"
  /\ LET perOwner(k) == [i \in 1..(Len(mEeInfo) + 1) |-> Step(k)] IN
       StartSeq(When("PROTO" \in clearFlags, perOwner("PROTO"))
                \o When("TECH" \in clearFlags, perOwner("TECHS")), FALSE, <<>>)
  /\ UNCHANGED <<cfgVars, clearFlags, lastAllSe, rmVars, waitOn, sig, calls, ret,
                 todo, enabled, nfaVars, routedFor, ownAns>>
  /\ UNCHANGED t3tVars

\* updateIsoDepProtocolRoute: under mRoutingEvent's guard the old ISO-DEP
\* route is cleared and waited for, the new route set, and
\* updateDefaultProtocolRoute called with the guard still held
UpdateIsoDepProtocolRoute ==
  /\ Call("updateIsoDepProtocolRoute") /\ enabled
  /\ \E r \in RouteChoices : mDefaultIsoDepRoute' = r
  /\ StartSeq(<<Step("PROTO")>>, TRUE, <<"pr_iso">>)
  /\ UNCHANGED <<mDefaultOffHostRoute, mDefaultFelicaRoute, clearFlags, lastAllSe,
                 rmVars, waitOn, sig, ret, todo, enabled, nfaVars, routedFor,
                 ownAns>>
  /\ UNCHANGED t3tVars

\* updateTechnologyABFRoute: under mRoutingEvent's guard the old off-host
\* and Felica technology routes are cleared, each waited for, the new
\* routes set, and updateEeTechRouteSetting called
UpdateTechnologyABFRoute ==
  /\ Call("updateTechnologyABFRoute") /\ enabled
  /\ \E r, fr \in RouteChoices : mDefaultOffHostRoute' = r /\ mDefaultFelicaRoute' = fr
  /\ StartSeq(<<Step("TECHS"), Step("TECHS")>>, TRUE, <<"abf_set">>)
  /\ UNCHANGED <<mDefaultIsoDepRoute, clearFlags, lastAllSe, rmVars, waitOn, sig,
                 ret, todo, enabled, nfaVars, routedFor, ownAns>>
  /\ UNCHANGED t3tVars

\* The technology routes are programmed; nfcManager_updateTechnologyABFRoute
\* drops the returned mask, so mSeTechMask is left as it was
AbfSet ==
  /\ pc = "abf_set"
  /\ ProgramTechRoutes
  /\ held' = "none" /\ Return
  /\ UNCHANGED <<cfgVars, seqVars, rmVars, waitOn, sig, calls, ret, todo, enabled,
                 evq, nfaTopo, topoChanges, registered, scbrCapable, ownAns>>
  /\ UNCHANGED t3tVars

\* eeSetPwrAndLinkCtrl: with an eSE configured, NFA_EePowerAndLinkCtrl under
\* mEePwrAndLinkCtrlEvent's guard, waited for when accepted
EeSetPwrAndLinkCtrl ==
  /\ Call("eeSetPwrAndLinkCtrl") /\ enabled
  /\ \E st \in CmdResults :
       IF EseConfigured /\ st
         THEN Issue("PWRLINK") /\ Wait("pwrlink") /\ pc' = "pl_wait"
         ELSE UNCHANGED <<dq, syncVars, pc>>
  /\ UNCHANGED <<cfgVars, seqVars, lastAllSe, rmVars, cont, ret, todo, enabled,
                 evq, nfaTopo, topoChanges, registered, scbrCapable, routedFor,
                 ownAns>>
  /\ UNCHANGED t3tVars

PwrAndLinkCtrlWake ==
  /\ pc = "pl_wait" /\ Wake("pwrlink")
  /\ waitOn' = "none" /\ pc' = "idle"
  /\ UNCHANGED <<cfgVars, seqVars, lastAllSe, rmVars, held, cont, calls, ret,
                 todo, enabled, nfaVars, routedFor, ownAns>>
  /\ UNCHANGED t3tVars

-----------------------------------------------------------------------------
(* registerT3tIdentifier and deregisterT3tIdentifier, with their JNI       *)
(* wrappers: the NFC-F system code is registered for card emulation on the *)
(* host and, with SCBR, routed to the host; both waits are on mRoutingEvent *)
(* and end on the first notification, whatever event sends it.             *)

\* nfcManager_doRegisterT3tIdentifier / doDeregisterT3tIdentifier: a call
\* into RoutingManager while NFC is enabled; answers to directives of
\* earlier calls may still be in flight
T3tCall(name) == Call(name) /\ enabled

\* registerT3tIdentifier returns h; nfcManager_doRegisterT3tIdentifier
\* commits the routing when h is valid
T3tReturn(h) ==
  /\ handle' = h /\ ret' = Result(h # NFA_HANDLE_INVALID)
  /\ IF h # NFA_HANDLE_INVALID THEN t3tHeld' = t3tHeld \cup {h} /\ pc' = "t3_commit"
                               ELSE pc' = "idle" /\ UNCHANGED t3tHeld

\* Directives and events of earlier calls are not this call's own (history)
Disown(s) == [i \in DOMAIN s |-> [s[i] EXCEPT !.own = FALSE]]

\* mNfcFOnDhHandle is reset, then under mRoutingEvent's guard
\* NFA_CeRegisterFelicaSystemCodeOnDH is issued and waited for if accepted
RegisterT3tIdentifier ==
  /\ T3tCall("registerT3tIdentifier")
  /\ mNfcFOnDhHandle' = NFA_HANDLE_INVALID
  /\ ownHandle' = NFA_HANDLE_INVALID /\ ownAns' = "none" /\ evq' = Disown(evq)
  /\ \E st \in CmdResults :
       IF st THEN /\ dq' = Append(Disown(dq), Dir("CEREG", TRUE, NFA_HANDLE_INVALID))
                  /\ Wait("routing") /\ pc' = "t3_wreg" /\ UNCHANGED <<handle, ret, t3tHeld>>
             ELSE dq' = Disown(dq) /\ T3tReturn(NFA_HANDLE_INVALID) /\ UNCHANGED syncVars
  /\ UNCHANGED <<cfgVars, seqVars, lastAllSe, rmVars, cont, todo, enabled, nfaTopo,
                 topoChanges, registered, scbrCapable, routedFor, mMapScbrHandle,
                 mCbEventDataOk, ceRegs>>

\* Without SCBR the call returns mNfcFOnDhHandle as the callback left it
T3tWakeRegistered ==
  /\ pc = "t3_wreg" /\ Wake("routing") /\ waitOn' = "none"
  /\ IF mIsScbrSupported THEN pc' = "t3_sys" /\ UNCHANGED <<handle, ret, t3tHeld>>
                         ELSE T3tReturn(mNfcFOnDhHandle)
  /\ UNCHANGED <<cfgVars, seqVars, lastAllSe, rmVars, held, cont, calls, todo, enabled,
                 nfaVars, routedFor, ownAns, mNfcFOnDhHandle, mMapScbrHandle,
                 mCbEventDataOk, ownHandle, ceRegs>>

\* With SCBR, NFA_EeAddSystemCodeRouting under a new guard; refused, the
\* call returns NFA_HANDLE_INVALID and the registration stays
T3tAddSystemCode ==
  /\ pc = "t3_sys" /\ held = "none"
  /\ \E st \in CmdResults :
       IF st THEN /\ dq' = Append(dq, Dir("SYSCODE", TRUE, NFA_HANDLE_INVALID))
                  /\ Wait("routing") /\ pc' = "t3_wsys" /\ UNCHANGED <<handle, ret, t3tHeld>>
             ELSE T3tReturn(NFA_HANDLE_INVALID) /\ UNCHANGED <<dq, syncVars>>
  /\ UNCHANGED <<cfgVars, seqVars, lastAllSe, rmVars, cont, calls, todo, enabled, evq,
                 nfaTopo, topoChanges, registered, scbrCapable, routedFor, ownAns,
                 mNfcFOnDhHandle, mMapScbrHandle, mCbEventDataOk, ownHandle, ceRegs>>

\* mCbEventData.status, as the last nfaEeCallback event left it, decides;
\* on success the handle is added to mMapScbrHandle and returned
T3tWakeSystemCode ==
  /\ pc = "t3_wsys" /\ Wake("routing") /\ waitOn' = "none"
  /\ IF mCbEventDataOk
       THEN mMapScbrHandle' = mMapScbrHandle \cup {mNfcFOnDhHandle} /\ T3tReturn(mNfcFOnDhHandle)
       ELSE T3tReturn(NFA_HANDLE_INVALID) /\ UNCHANGED mMapScbrHandle
  /\ UNCHANGED <<cfgVars, seqVars, lastAllSe, rmVars, held, cont, calls, todo, enabled,
                 nfaVars, routedFor, ownAns, mNfcFOnDhHandle, mCbEventDataOk,
                 ownHandle, ceRegs>>

\* The service deregisters a handle it holds: under mRoutingEvent's guard
\* NFA_CeDeregisterFelicaSystemCodeOnDH, waited for if accepted
DeregisterT3tIdentifier ==
  /\ T3tCall("deregisterT3tIdentifier")
  /\ \E h \in t3tHeld :
       /\ handle' = h /\ t3tHeld' = t3tHeld \ {h}
       /\ \E st \in CmdResults :
            IF st THEN dq' = Append(dq, Dir("CEDEREG", FALSE, h)) /\ Wait("routing")
                       /\ pc' = "t3_wdereg"
                  ELSE pc' = "t3_rmsys" /\ UNCHANGED <<dq, syncVars>>
  /\ UNCHANGED <<cfgVars, seqVars, lastAllSe, rmVars, cont, ret, todo, enabled, evq,
                 nfaTopo, topoChanges, registered, scbrCapable, routedFor, ownAns,
                 mNfcFOnDhHandle, mMapScbrHandle, mCbEventDataOk, ownHandle, ceRegs>>

T3tWakeDeregistered ==
  /\ pc = "t3_wdereg" /\ Wake("routing") /\ waitOn' = "none" /\ pc' = "t3_rmsys"
  /\ UNCHANGED <<cfgVars, seqVars, lastAllSe, rmVars, held, cont, calls, ret, todo,
                 enabled, nfaVars, routedFor, ownAns, t3tVars>>

\* With SCBR, a handle of mMapScbrHandle is erased, then its system-code
\* route removed under the guard, waited for if accepted
T3tRemoveSystemCode ==
  /\ pc = "t3_rmsys" /\ held = "none"
  /\ IF mIsScbrSupported /\ handle \in mMapScbrHandle
       THEN /\ mMapScbrHandle' = mMapScbrHandle \ {handle}
            /\ \E st \in CmdResults :
                 IF st THEN Issue("RMSYSCODE") /\ Wait("routing") /\ pc' = "t3_wrm"
                       ELSE pc' = "t3_commit" /\ UNCHANGED <<dq, syncVars>>
       ELSE pc' = "t3_commit" /\ UNCHANGED <<mMapScbrHandle, dq, syncVars>>
  /\ UNCHANGED <<cfgVars, seqVars, lastAllSe, rmVars, cont, calls, ret, todo, enabled,
                 evq, nfaTopo, topoChanges, registered, scbrCapable, routedFor, ownAns,
                 mNfcFOnDhHandle, mCbEventDataOk, handle, ownHandle, t3tHeld, ceRegs>>

T3tWakeRemoved ==
  /\ pc = "t3_wrm" /\ Wake("routing") /\ waitOn' = "none" /\ pc' = "t3_commit"
  /\ UNCHANGED <<cfgVars, seqVars, lastAllSe, rmVars, held, cont, calls, ret, todo,
                 enabled, nfaVars, routedFor, ownAns, t3tVars>>

\* nfcManager_doRegisterT3tIdentifier (on a valid handle) and
\* nfcManager_doDeregisterT3tIdentifier then call commitRouting
T3tCommit == pc = "t3_commit" /\ CommitRouting /\ UNCHANGED calls

-----------------------------------------------------------------------------
(* The NFA stack                                                           *)

Ev(e) == [e |-> e, ok |-> TRUE, own |-> FALSE, topo |-> <<>>, h |-> NFA_HANDLE_INVALID]
DiscoverReq(t) == [Ev("DISCOVER") EXCEPT !.topo = t]

\* The oldest directive is applied and answered. Registration is followed
\* by the EE discovery report; an AID directive may be rejected.
NfaApply ==
  /\ dq # <<>>
  /\ dq' = Tail(dq)
  /\ LET d == Head(dq) IN
     /\ CASE d.k = "REGISTER" ->
              /\ registered' = TRUE
              /\ evq' = evq \o <<Ev("REGISTER"), DiscoverReq(nfaTopo)>>
         [] d.k = "DEREGISTER" ->
              registered' = FALSE /\ evq' = Append(evq, Ev("DEREGISTER"))
         [] d.k \in {"AID", "SYSCODE"} ->
              /\ \E ok \in CmdResults :
                   evq' = Append(evq, [Ev(d.k) EXCEPT !.ok = ok, !.own = d.own])
              /\ UNCHANGED registered
         \* a card-emulation registration takes the first free handle
         [] d.k = "CEREG" ->
              \E ok \in CmdResults :
                LET free == Handles \ ceRegs
                    h == IF ok THEN CHOOSE x \in free : \A y \in free : x <= y
                               ELSE NFA_HANDLE_INVALID IN
                  /\ ceRegs' = IF ok THEN ceRegs \cup {h} ELSE ceRegs
                  /\ ownHandle' = IF d.own THEN h ELSE ownHandle
                  /\ evq' = Append(evq, [Ev("CEREG") EXCEPT !.ok = ok, !.h = h])
                  /\ UNCHANGED registered
         [] d.k = "CEDEREG" ->
              /\ ceRegs' = ceRegs \ {d.h} /\ evq' = Append(evq, Ev("CEDEREG"))
              /\ UNCHANGED <<registered, ownHandle>>
         [] OTHER -> evq' = Append(evq, Ev(d.k)) /\ UNCHANGED registered
     /\ d.k \notin {"CEREG", "CEDEREG"} => UNCHANGED <<ceRegs, ownHandle>>
  /\ UNCHANGED <<cfgVars, seqVars, lastAllSe, rmVars, syncVars, callVars, nfaTopo, topoChanges, scbrCapable, routedFor,
                 ownAns, mNfcFOnDhHandle, mMapScbrHandle, mCbEventDataOk, handle, t3tHeld>>

\* An EE is inserted, removed or changes its technologies
NfaHotPlug ==
  /\ registered /\ topoChanges < MaxTopologyChanges
  /\ \E t \in TopologyChoices \ {nfaTopo} :
       nfaTopo' = t /\ evq' = Append(evq, DiscoverReq(t))
  /\ topoChanges' = topoChanges + 1
  /\ UNCHANGED <<cfgVars, seqVars, lastAllSe, rmVars, syncVars, callVars, dq, registered, scbrCapable, routedFor,
                 ownAns>>
  /\ UNCHANGED t3tVars

-----------------------------------------------------------------------------
(* RoutingManager::nfaEeCallback, on the NFA callback thread               *)

\* The SyncEvent each answering event notifies
EvTarget(ev) ==
  CASE ev.e = "REGISTER" -> "reg"
    [] ev.e = "MODESET" -> "setmode"
    [] ev.e \in {"TECHS", "PROTO", "SYSCODE", "RMSYSCODE", "CEREG", "CEDEREG"} -> "routing"
    [] ev.e = "UPDATE" -> "update"
    [] ev.e = "AID" -> "aid"
    [] ev.e = "PWRLINK" -> "pwrlink"
    [] ev.e = "DISCOVER" -> "eeinfo"
    [] OTHER -> "none"

\* mCbEventData is copied, then notifyOne under the event's guard; an
\* ADD_AID or REMOVE_AID event first sets mAidRoutingConfigured from its
\* status
CbNotify ==
  /\ evq # <<>> /\ Head(evq).e \notin {"DISCOVER", "DEREGISTER", "CEREG", "CEDEREG"}
  /\ LET ev == Head(evq) IN
       /\ held # EvTarget(ev)
       /\ sig' = (sig \/ waitOn = EvTarget(ev))
       /\ mCbEventDataOk' = ev.ok
       /\ mAidRoutingConfigured' = IF ev.e = "AID" THEN ev.ok ELSE mAidRoutingConfigured
       /\ ownAns' = IF ev.own THEN Result(ev.ok) ELSE ownAns
  /\ evq' = Tail(evq)
  /\ UNCHANGED <<cfgVars, seqVars, lastAllSe, mEeInfo, mReceivedEeInfo, mEeInfoChanged, mDeinitializing,
                 mSeTechMask, mIsScbrSupported, held, waitOn, callVars, dq,
                 nfaTopo, topoChanges, registered, scbrCapable, routedFor,
                 mNfcFOnDhHandle, mMapScbrHandle, handle, ownHandle, t3tHeld, ceRegs>>

\* NFA_EE_DISCOVER_REQ_EVT under mEeInfoEvent's guard: the report replaces
\* mEeInfo; after the first report, and unless deinitializing, it marks
\* the routes for recomputation
CbDiscoverReq ==
  /\ evq # <<>> /\ Head(evq).e = "DISCOVER" /\ held # "eeinfo"
  /\ mEeInfo' = Head(evq).topo
  /\ mEeInfoChanged' = (mEeInfoChanged \/ (mReceivedEeInfo /\ ~mDeinitializing))
  /\ mReceivedEeInfo' = TRUE /\ mCbEventDataOk' = TRUE
  /\ sig' = (sig \/ waitOn = "eeinfo")
  /\ evq' = Tail(evq)
  /\ UNCHANGED <<cfgVars, seqVars, lastAllSe, mDeinitializing, mSeTechMask, mAidRoutingConfigured,
                 mIsScbrSupported, held, waitOn, callVars, dq, nfaTopo,
                 topoChanges, registered, scbrCapable, routedFor, ownAns,
                 mNfcFOnDhHandle, mMapScbrHandle, handle, ownHandle, t3tHeld, ceRegs>>

\* NFA_EE_DEREGISTER_EVT
CbDeregister ==
  /\ evq # <<>> /\ Head(evq).e = "DEREGISTER"
  /\ mReceivedEeInfo' = FALSE /\ mDeinitializing' = FALSE /\ mCbEventDataOk' = TRUE
  /\ evq' = Tail(evq)
  /\ UNCHANGED <<cfgVars, seqVars, lastAllSe, mEeInfo, mEeInfoChanged, mSeTechMask, mAidRoutingConfigured,
                 mIsScbrSupported, syncVars, callVars, dq, nfaTopo, topoChanges,
                 registered, scbrCapable, routedFor, ownAns,
                 mNfcFOnDhHandle, mMapScbrHandle, handle, ownHandle, t3tHeld, ceRegs>>

\* nfcFCeCallback: NFA_CE_REGISTERED_EVT sets mNfcFOnDhHandle, then it and
\* NFA_CE_DEREGISTERED_EVT notify mRoutingEvent under its guard
CbCe ==
  /\ evq # <<>> /\ Head(evq).e \in {"CEREG", "CEDEREG"} /\ held # "routing"
  /\ mNfcFOnDhHandle' = IF Head(evq).e = "CEREG" THEN Head(evq).h ELSE mNfcFOnDhHandle
  /\ sig' = (sig \/ waitOn = "routing")
  /\ evq' = Tail(evq)
  /\ UNCHANGED <<cfgVars, seqVars, lastAllSe, rmVars, held, waitOn, callVars, dq,
                 nfaTopo, topoChanges, registered, scbrCapable, routedFor, ownAns,
                 mMapScbrHandle, mCbEventDataOk, handle, ownHandle, t3tHeld, ceRegs>>

-----------------------------------------------------------------------------

CallerStep ==
  \/ InitRegister \/ InitWakeRegister \/ InitWakeEeInfo \/ InitCompute
  \/ InitDone \/ PrIsoDep \/ PrT3t \/ PrWakeT3t
  \/ DrSysCode \/ DrWakeSysCode \/ DrZeroAid
  \/ CommitStart \/ CommitClear \/ CommitWake
  \/ AidRouting("addAidRouting") \/ AidRouting("removeAidRouting") \/ AidWake
  \/ UpdateSystemCodeRoute \/ SetEeTechRouteUpdateRequired
  \/ ShutdownStart \/ ShutdownModeSet \/ ShutdownWake \/ Deregister
  \/ SeqIssue \/ SeqWake \/ GuardRelease \/ EnableRoutingToHost
  \/ DisableRoutingToHost \/ ClearRoutingEntry \/ CeAid \/ CeTables
  \/ UpdateIsoDepProtocolRoute \/ UpdateTechnologyABFRoute \/ AbfSet
  \/ EeSetPwrAndLinkCtrl \/ PwrAndLinkCtrlWake
  \/ RegisterT3tIdentifier \/ T3tWakeRegistered \/ T3tAddSystemCode
  \/ T3tWakeSystemCode \/ DeregisterT3tIdentifier \/ T3tWakeDeregistered
  \/ T3tRemoveSystemCode \/ T3tWakeRemoved \/ T3tCommit
CallbackStep == CbNotify \/ CbDiscoverReq \/ CbDeregister \/ CbCe
NfaStep == NfaApply \/ NfaHotPlug

\* The service has made its calls and everything has settled
Finished ==
  /\ calls = MaxCalls /\ pc = "idle" /\ dq = <<>> /\ evq = <<>>
  /\ UNCHANGED vars

Next == CallerStep \/ CallbackStep \/ NfaStep \/ Finished

\* Each thread progresses when it can; the NFA stack applies every
\* directive it accepted. Hot-plug is not required to happen.
Fairness == WF_vars(CallerStep) /\ WF_vars(CallbackStep) /\ WF_vars(NfaApply)

Spec == Init /\ [][Next]_vars /\ Fairness

-----------------------------------------------------------------------------
(* Properties                                                              *)

Kinds == {"REGISTER", "DEREGISTER", "TECHS", "PROTO", "SYSCODE", "AID",
          "UPDATE", "MODESET", "PWRLINK", "CEREG", "CEDEREG", "RMSYSCODE"}
HandleValues == Handles \cup {NFA_HANDLE_INVALID}
Events == [e : Kinds \cup {"DISCOVER"}, ok : BOOLEAN, own : BOOLEAN,
           topo : RT!Topologies, h : HandleValues]
Guards == {"none", "reg", "eeinfo", "routing", "update", "aid", "setmode",
           "pwrlink"}

TypeOK ==
  /\ mEeInfo \in RT!Topologies /\ routedFor \in RT!Topologies
  /\ mSeTechMask \subseteq RT!Techs
  /\ {mReceivedEeInfo, mEeInfoChanged, mDeinitializing, mAidRoutingConfigured,
      mIsScbrSupported, sig, enabled, registered} \subseteq BOOLEAN
  /\ held \in Guards /\ waitOn \in Guards
  /\ calls \in 0..MaxCalls /\ ret \in {"none", "ok", "fail"}
  /\ todo \subseteq EEs /\ ownAns \in {"none", "ok", "fail"}
  /\ {mDefaultOffHostRoute, mDefaultFelicaRoute, mDefaultIsoDepRoute} \subseteq EEs \cup {DH}
  /\ steps \in Seq([k : Kinds, dh : RT!Techs \cup {"none"}]) /\ seqGuard \in BOOLEAN
  /\ clearFlags \subseteq {"AID", "PROTO", "TECH"} /\ lastAllSe \subseteq RT!Techs
  /\ cont \in Seq(STRING)
  /\ dq \in Seq([k : Kinds, own : BOOLEAN, h : HandleValues]) /\ evq \in Seq(Events)
  /\ {mNfcFOnDhHandle, handle, ownHandle} \subseteq HandleValues
  /\ mMapScbrHandle \subseteq HandleValues /\ mCbEventDataOk \in BOOLEAN
  /\ t3tHeld \subseteq Handles /\ ceRegs \subseteq Handles
  /\ nfaTopo \in TopologyChoices /\ topoChanges \in 0..MaxTopologyChanges

\* An answer that will wake a waiter on SyncEvent t is on its way: a
\* directive not yet applied or an event not yet delivered
AnswerPending(t) ==
  \/ \E i \in DOMAIN dq : EvTarget(Ev(dq[i].k)) = t
  \/ \E i \in DOMAIN evq : EvTarget(evq[i]) = t

\* Every wait of the routing code has no timeout: whenever the caller is
\* blocked on a SyncEvent and has not been notified, an answer for that
\* SyncEvent is still on its way, whatever stray completions of directives
\* issued without a wait have already consumed.
NoWaitWithoutAnswer == (waitOn # "none" /\ ~sig) => AnswerPending(waitOn)

\* Every routing call (initialize, commitRouting, the AID calls,
\* updateSystemCodeRoute, deinitialize) returns.
CallsReturn == pc # "idle" ~> pc = "idle"

\* Spec P6: once commitRouting has returned with mEeInfoChanged clear,
\* the technology routes are those of the EE topology last reported by
\* NFA_EE_DISCOVER_REQ_EVT; a report during the recomputation is not lost.
TopologyApplied ==
  (enabled /\ pc = "idle" /\ ~mEeInfoChanged)
    => TechRoutes(routedFor) = TechRoutes(mEeInfo)

\* addAidRouting and removeAidRouting return the status of their own
\* directive's NFA_EE_ADD_AID_EVT / NFA_EE_REMOVE_AID_EVT, and only once
\* it has been delivered.
OwnAidResult ==
  [][(pc = "aid_wait" /\ pc' = "idle") => (ownAns # "none" /\ ret' = ownAns)]_vars

\* enableRoutingToHost routes to the host only technologies that the last
\* programming of the technology routes (initialize, commitRouting,
\* updateTechnologyABFRoute) did not give to an EE: it reads mSeTechMask,
\* which must be the mask of the routes in the controller.
HostRoutingSparesEeTechs == \A i \in DOMAIN steps : steps[i].dh \notin lastAllSe

\* registerT3tIdentifier returns a valid handle (which its JNI wrapper
\* commits and hands to the service) only if it is the handle the NFA gave
\* this call's own NFA_CeRegisterFelicaSystemCodeOnDH and, with SCBR, this
\* call's own NFA_EE_ADD_SYSCODE_EVT reported success: the two waits on the
\* shared mRoutingEvent and the read of mCbEventData must see this call's
\* answers and no other.
T3tRegisterReturns == pc \in {"t3_wreg", "t3_wsys"} /\ pc' \in {"idle", "t3_commit"}
T3tHandleIsOwn ==
  [][T3tRegisterReturns /\ handle' # NFA_HANDLE_INVALID
       => handle' = ownHandle /\ (mIsScbrSupported => ownAns = "ok")]_vars

\* Once the calls have returned and the NFA has answered, every NFC-F
\* registration in the controller has its handle with the service: a
\* registerT3tIdentifier that fails after its registration succeeded must
\* not leave it behind, nor a deregistration its system-code route.
T3tRegistrationsHeld == (pc = "idle" /\ dq = <<>> /\ evq = <<>>) => ceRegs \subseteq t3tHeld

=============================================================================
