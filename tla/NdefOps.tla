------------------------------- MODULE NdefOps -------------------------------
(***************************************************************************)
(* The NDEF operations of NativeNfcTag.cpp: nativeNfcTag_doCheckNdef,     *)
(* doRead, doWrite, doNdefFormat and doMakeReadonly, the completion       *)
(* handlers the NFA connection callback calls (doCheckNdefResult,         *)
(* doReadCompleted, ndefHandlerCallback, doWriteStatus, formatStatus,     *)
(* doMakeReadonlyResult) and nativeNfcTag_abortWaits on deactivation.     *)
(*                                                                         *)
(* Three actors: the application (binder) thread making one call at a     *)
(* time, the NFA callback thread handling events in order, and the NFA    *)
(* stack, which is not in this repository and is modelled from the spec:  *)
(* it answers accepted commands in order, loses the answers pending when  *)
(* the tag leaves, and handles every earlier command before it reports    *)
(* a new activation.                                                       *)
(*                                                                         *)
(* The operations wait on a sem_t each (sWriteSem, sFormatSem,            *)
(* sCheckNdefSem, sMakeReadonlySem) that every call sem_inits and         *)
(* sem_destroys, and doRead on the SyncEvent sReadEvent. A semaphore is   *)
(* its count: sem_init sets it to 0; sem_destroy leaves it (bionic's      *)
(* sem_destroy does not touch the count, so a post after it is counted    *)
(* and wiped by the next sem_init). NDEF sizes are abstracted to zero or  *)
(* not; message contents are left out.                                     *)
(***************************************************************************)
EXTENDS Naturals, Sequences

CONSTANTS
  Ops,             \* the JNI calls the application may make
  MaxCalls,        \* calls in one behaviour
  MaxFieldChanges, \* times the tag may leave or re-enter the field
  RefusableCmds,   \* NFA_Rw* commands that may return a non-OK status
  LateAnswers,     \* whether a transceive wait may time out while the
                   \* answer to its frame is still in flight
  StaleDeactivation \* whether a new tag may be activated before the
                    \* callback thread has handled the last departure

Calls == {"checkNdef", "read", "write", "format", "makeReadonly", "transceive"}
Cmds == {"DETECT", "READ", "WRITE", "FORMAT", "RO", "RAW"}
Sems == {"write", "format", "check", "ro"}

ASSUME Ops \subseteq Calls /\ RefusableCmds \subseteq Cmds
ASSUME MaxCalls \in Nat /\ MaxFieldChanges \in Nat /\ LateAnswers \in BOOLEAN
       /\ StaleDeactivation \in BOOLEAN

VARIABLES
  pc, calls, ret, own,                       \* the application thread
  sem, readSig,                              \* the semaphores and sReadEvent
  sWriteWaitingForComplete, sWriteOk, sFormatOk,
  sCheckNdefWaitingForComplete, sCheckNdefStatus, sCheckNdefCurrentSize,
  sCheckNdefCapable, sIsReadingNdefMessage, sReadDataLen,
  sMakeReadonlyWaitingForComplete, sMakeReadonlyStatus,
  \* doTransceive: sRxDataBuffer holds, per chunk, the call whose frame it
  \* answers; trSig is sTransceiveEvent's notify to its waiter
  sWaitingForTransceive, sTransceiveRfTimeout, sRxDataStatus, sRxDataBuffer,
  trSig,
  active,                                    \* NfcTag's activation state
  present, cmdq, evq, fieldChanges           \* the NFA stack and the tag

appVars == <<pc, calls, ret, own>>
checkVars == <<sCheckNdefWaitingForComplete, sCheckNdefStatus,
               sCheckNdefCurrentSize, sCheckNdefCapable>>
readVars == <<sIsReadingNdefMessage, sReadDataLen, readSig>>
writeVars == <<sWriteWaitingForComplete, sWriteOk, sFormatOk>>
roVars == <<sMakeReadonlyWaitingForComplete, sMakeReadonlyStatus>>
trVars == <<sWaitingForTransceive, sTransceiveRfTimeout, sRxDataStatus,
            sRxDataBuffer, trSig>>
nfaVars == <<present, cmdq, evq, fieldChanges>>
vars == <<appVars, sem, checkVars, readVars, writeVars, roVars, trVars, active,
          nfaVars>>

Result(b) == IF b THEN "ok" ELSE "fail"

\* The statuses an NFA_Rw* call may return for command k
Accepts(k) == IF k \in RefusableCmds THEN BOOLEAN ELSE {TRUE}

\* An event answering a command of call id
Ev(e, id, st) == [e |-> e, id |-> id, st |-> st, cur |-> 0, fl |-> {}]

Post(s) == [sem EXCEPT ![s] = @ + 1]

Init ==
  /\ pc = "idle" /\ calls = 0 /\ ret = "none" /\ own = [k \in Cmds |-> "none"]
  /\ sem = [s \in Sems |-> 0] /\ readSig = FALSE
  /\ sWriteWaitingForComplete = FALSE /\ sWriteOk = FALSE /\ sFormatOk = FALSE
  /\ sCheckNdefWaitingForComplete = FALSE /\ sCheckNdefStatus = "FAILED"
  /\ sCheckNdefCurrentSize = 0 /\ sCheckNdefCapable = FALSE
  /\ sIsReadingNdefMessage = FALSE /\ sReadDataLen = 0
  /\ sMakeReadonlyWaitingForComplete = FALSE /\ sMakeReadonlyStatus = "FAILED"
  /\ sWaitingForTransceive = FALSE /\ sTransceiveRfTimeout = FALSE
  /\ sRxDataStatus = "OK" /\ sRxDataBuffer = <<>> /\ trSig = FALSE
  /\ active = TRUE /\ present = TRUE /\ cmdq = <<>> /\ evq = <<>>
  /\ fieldChanges = 0

-----------------------------------------------------------------------------
(* The NFA stack                                                           *)

\* NFA_NDEF_DETECT_EVT: an NDEF message (status OK, current size zero or
\* not), none (a failure with the flag bits SUPPORTED and UNKNOWN), or a
\* timeout; without a tag only a failure
DetectAnswers(id) ==
  {[Ev("NDEF_DETECT", id, "OK") EXCEPT !.cur = c] : c \in {0, 1}}
  \cup {[Ev("NDEF_DETECT", id, s) EXCEPT !.fl = f] :
          s \in {"FAILED", "REJECTED"}, f \in SUBSET {"SUPPORTED", "UNKNOWN"}}
  \cup {Ev("NDEF_DETECT", id, "TIMEOUT")}

\* The events that answer command c
Answers(c) ==
  LET ev(e, st) == Ev(e, c.id, st) IN
  CASE c.k = "DETECT" ->
         IF present THEN {<<a>> : a \in DetectAnswers(c.id)}
         ELSE {<<ev("NDEF_DETECT", "FAILED")>>}
    [] c.k = "READ" ->
         IF present
           THEN {<<ev("NDEF_DATA", "OK"), ev("READ_CPLT", "OK")>>,
                 <<ev("READ_CPLT", "OK")>>, <<ev("READ_CPLT", "FAILED")>>,
                 <<ev("RW_INTF_ERROR", "FAILED")>>}
           ELSE {<<ev("READ_CPLT", "FAILED")>>}
    [] c.k \in {"WRITE", "FORMAT", "RO"} ->
         LET e == CASE c.k = "WRITE" -> "WRITE_CPLT" [] c.k = "FORMAT" -> "FORMAT_CPLT"
                    [] c.k = "RO" -> "SET_TAG_RO"
         IN {<<ev(e, s)>> : s \in IF present THEN {"OK", "FAILED"} ELSE {"FAILED"}}
    [] c.k = "RAW" ->
         \* NFA_DATA_EVT chunks (NFC_STATUS_CONTINUE before the last), or
         \* NFA_RW_INTF_ERROR_EVT when the tag does not answer in time
         IF present
           THEN {<<ev("DATA", "OK")>>, <<ev("DATA", "CONTINUE"), ev("DATA", "OK")>>,
                 <<ev("DATA", "CONTINUE"), ev("DATA", "FAILED")>>,
                 <<ev("DATA", "FAILED")>>, <<ev("RW_INTF_ERROR", "FAILED")>>}
           ELSE {<<ev("RW_INTF_ERROR", "FAILED")>>}

\* The oldest accepted command is carried out and answered
NfaAnswer ==
  /\ cmdq # <<>>
  /\ \E a \in Answers(Head(cmdq)) : evq' = evq \o a
  /\ cmdq' = Tail(cmdq)
  /\ UNCHANGED <<trVars, appVars, sem, checkVars, readVars, writeVars, roVars, active,
                 present, fieldChanges>>

\* The tag leaves the field: the pending commands are never answered and
\* NFA_DEACTIVATED_EVT (to discovery) is reported
TagLeave ==
  /\ present /\ fieldChanges < MaxFieldChanges
  /\ present' = FALSE /\ cmdq' = <<>> /\ fieldChanges' = fieldChanges + 1
  /\ evq' = Append(evq, Ev("DEACTIVATED", 0, "OK"))
  /\ UNCHANGED <<trVars, appVars, sem, checkVars, readVars, writeVars, roVars, active>>

\* A tag enters the field and is activated, after every earlier command
\* (and, unless StaleDeactivation, after every earlier event was handled)
TagArrive ==
  /\ ~present /\ cmdq = <<>> /\ fieldChanges < MaxFieldChanges
  /\ StaleDeactivation \/ evq = <<>>
  /\ present' = TRUE /\ fieldChanges' = fieldChanges + 1
  /\ evq' = Append(evq, Ev("ACTIVATED", 0, "OK"))
  /\ UNCHANGED <<trVars, appVars, sem, checkVars, readVars, writeVars, roVars, active,
                 cmdq>>

-----------------------------------------------------------------------------
(* The callback thread: nfaConnectionCallback and the handlers it calls    *)

\* The event being handled, and whether it answers a command of the call
\* in progress
Handling(e) == evq # <<>> /\ Head(evq).e = e /\ evq' = Tail(evq)
Mine == Head(evq).id = calls

\* doCheckNdefResult: ignored unless a check waits; the status is
\* normalised, the capability and size derived, the semaphore posted
Normalise(s) == IF s \in {"OK", "TIMEOUT"} THEN s ELSE "FAILED"
CbNdefDetect ==
  /\ Handling("NDEF_DETECT")
  /\ LET ev == Head(evq)
         st == Normalise(ev.st)
     IN IF sCheckNdefWaitingForComplete
          THEN /\ sCheckNdefWaitingForComplete' = FALSE
               /\ sCheckNdefStatus' = st
               /\ sCheckNdefCapable' = \/ st = "OK"
                                       \/ st = "FAILED" /\ "UNKNOWN" \notin ev.fl
                                          /\ "SUPPORTED" \in ev.fl
               /\ sCheckNdefCurrentSize' = IF st = "OK" THEN ev.cur ELSE 0
               /\ sem' = Post("check")
               /\ own' = IF Mine THEN [own EXCEPT !["DETECT"] = st] ELSE own
          ELSE UNCHANGED <<sCheckNdefWaitingForComplete, sCheckNdefStatus,
                           sCheckNdefCapable, sCheckNdefCurrentSize, sem, own>>
  /\ UNCHANGED <<trVars, pc, calls, ret, readVars, writeVars, roVars, active, present,
                 cmdq, fieldChanges>>

\* ndefHandlerCallback, NFA_NDEF_DATA_EVT: the message is kept whether or
\* not a read is in progress
CbNdefData ==
  /\ Handling("NDEF_DATA")
  /\ sReadDataLen' = 1
  /\ UNCHANGED <<trVars, appVars, sem, checkVars, sIsReadingNdefMessage, readSig,
                 writeVars, roVars, active, present, cmdq, fieldChanges>>

\* doReadCompleted, for NFA_READ_CPLT_EVT and (as a timeout) for
\* NFA_RW_INTF_ERROR_EVT: ignored unless reading; a failure drops the
\* data; sReadEvent is notified under its guard
ReadCompleted(ok) ==
  IF sIsReadingNdefMessage
    THEN /\ sReadDataLen' = IF ok THEN sReadDataLen ELSE 0
         /\ readSig' = (readSig \/ pc = "rd_wait")
    ELSE UNCHANGED <<sReadDataLen, readSig>>
CbReadCplt ==
  /\ Handling("READ_CPLT") /\ ReadCompleted(Head(evq).st = "OK")
  /\ UNCHANGED <<trVars, appVars, sem, checkVars, sIsReadingNdefMessage, writeVars,
                 roVars, active, present, cmdq, fieldChanges>>
\* nativeNfcTag_notifyRfTimeout: ignored unless a transceive waits, which
\* is marked timed out and notified
NotifyRfTimeout ==
  IF sWaitingForTransceive
    THEN sTransceiveRfTimeout' = TRUE /\ trSig' = (trSig \/ pc = "tr_wait")
    ELSE UNCHANGED <<sTransceiveRfTimeout, trSig>>

\* NFA_RW_INTF_ERROR_EVT: notifyRfTimeout, then doReadCompleted
CbIntfError ==
  /\ Handling("RW_INTF_ERROR") /\ NotifyRfTimeout /\ ReadCompleted(FALSE)
  /\ UNCHANGED <<sWaitingForTransceive, sRxDataStatus, sRxDataBuffer, appVars, sem, checkVars, sIsReadingNdefMessage, writeVars,
                 roVars, active, present, cmdq, fieldChanges>>

\* NFA_DATA_EVT, nativeNfcTag_doTransceiveStatus: dropped unless a
\* transceive waits; an OK or CONTINUE chunk is appended to the buffer,
\* and only the last (OK) chunk notifies sTransceiveEvent
CbData ==
  /\ Handling("DATA")
  /\ LET ev == Head(evq) IN
       IF sWaitingForTransceive
         THEN /\ sRxDataStatus' = ev.st
              /\ sRxDataBuffer' = IF ev.st \in {"OK", "CONTINUE"}
                                    THEN Append(sRxDataBuffer, ev.id)
                                    ELSE sRxDataBuffer
              /\ trSig' = (trSig \/ (ev.st = "OK" /\ pc = "tr_wait"))
              /\ own' = IF Mine /\ ev.st # "CONTINUE"
                          THEN [own EXCEPT !["RAW"] = ev.st] ELSE own
         ELSE UNCHANGED <<sRxDataStatus, sRxDataBuffer, trSig, own>>
  /\ UNCHANGED <<sWaitingForTransceive, sTransceiveRfTimeout, pc, calls, ret,
                 sem, checkVars, readVars, writeVars, roVars, active, present,
                 cmdq, fieldChanges>>

\* doWriteStatus: ignored unless a write waits
CbWriteCplt ==
  /\ Handling("WRITE_CPLT")
  /\ IF sWriteWaitingForComplete
       THEN /\ sWriteWaitingForComplete' = FALSE
            /\ sWriteOk' = (Head(evq).st = "OK") /\ sem' = Post("write")
            /\ own' = IF Mine THEN [own EXCEPT !["WRITE"] = Head(evq).st] ELSE own
       ELSE UNCHANGED <<sWriteWaitingForComplete, sWriteOk, sem, own>>
  /\ UNCHANGED <<trVars, pc, calls, ret, checkVars, readVars, sFormatOk, roVars, active,
                 present, cmdq, fieldChanges>>

\* formatStatus: the result is stored and the semaphore posted whether or
\* not a format waits
CbFormatCplt ==
  /\ Handling("FORMAT_CPLT")
  /\ sFormatOk' = (Head(evq).st = "OK") /\ sem' = Post("format")
  /\ UNCHANGED <<trVars, appVars, checkVars, readVars, sWriteWaitingForComplete,
                 sWriteOk, roVars, active, present, cmdq, fieldChanges>>

\* doMakeReadonlyResult: ignored unless a make-read-only waits
CbSetTagRo ==
  /\ Handling("SET_TAG_RO")
  /\ IF sMakeReadonlyWaitingForComplete
       THEN /\ sMakeReadonlyWaitingForComplete' = FALSE
            /\ sMakeReadonlyStatus' = Head(evq).st /\ sem' = Post("ro")
       ELSE UNCHANGED <<roVars, sem>>
  /\ UNCHANGED <<trVars, appVars, checkVars, readVars, writeVars, active, present, cmdq,
                 fieldChanges>>

\* Mutant: abortWaits forgets sCheckNdefSem
CbDeactivatedNoCheckPost ==
  /\ Handling("DEACTIVATED")
  /\ active' = FALSE
  /\ readSig' = (readSig \/ pc = "rd_wait")
  /\ sem' = [s \in Sems |-> IF s = "check" THEN sem[s] ELSE sem[s] + 1]
  /\ trSig' = (trSig \/ pc = "tr_wait")
  /\ UNCHANGED <<sWaitingForTransceive, sTransceiveRfTimeout, sRxDataStatus,
                 sRxDataBuffer, appVars, checkVars, sIsReadingNdefMessage, sReadDataLen,
                 writeVars, roVars, present, cmdq, fieldChanges>>

\* NFA_DEACTIVATED_EVT, not to sleep: NfcTag becomes idle and
\* nativeNfcTag_abortWaits notifies sReadEvent and sTransceiveEvent and
\* posts the four semaphores, whoever waits on them
CbDeactivated ==
  /\ Handling("DEACTIVATED")
  /\ active' = FALSE
  /\ readSig' = (readSig \/ pc = "rd_wait")
  /\ sem' = [s \in Sems |-> sem[s] + 1]
  /\ trSig' = (trSig \/ pc = "tr_wait")
  /\ UNCHANGED <<sWaitingForTransceive, sTransceiveRfTimeout, sRxDataStatus,
                 sRxDataBuffer, appVars, checkVars, sIsReadingNdefMessage, sReadDataLen,
                 writeVars, roVars, present, cmdq, fieldChanges>>

\* NFA_ACTIVATED_EVT: NfcTag becomes active
CbActivated ==
  /\ Handling("ACTIVATED")
  /\ active' = TRUE
  /\ UNCHANGED <<trVars, appVars, sem, checkVars, readVars, writeVars, roVars, present,
                 cmdq, fieldChanges>>

-----------------------------------------------------------------------------
(* The application thread. Each call runs to its wait in one step (the    *)
(* guard of sReadEvent is held from the command to the wait), and from    *)
(* the end of the wait to its return in another; doWrite clears sWriteOk *)
(* in a step of its own, after the write is issued.                       *)

\* A call starts: own holds the answers to this call's commands
Call(op) ==
  /\ pc = "idle" /\ calls < MaxCalls /\ op \in Ops
  /\ calls' = calls + 1 /\ own' = [k \in Cmds |-> "none"]

\* The command is queued if the NFA accepts it
Issue(k, ok) == cmdq' = IF ok THEN Append(cmdq, [k |-> k, id |-> calls']) ELSE cmdq

\* doCheckNdef to the wait: fails if NfcTag is not active or the
\* detection is refused
DoCheckNdef ==
  /\ Call("checkNdef")
  /\ sem' = [sem EXCEPT !["check"] = 0]
  /\ \E ok \in Accepts("DETECT") :
       IF active /\ ok
         THEN Issue("DETECT", TRUE) /\ sCheckNdefWaitingForComplete' = TRUE
              /\ pc' = "ck_wait" /\ ret' = ret
         ELSE UNCHANGED cmdq /\ sCheckNdefWaitingForComplete' = FALSE
              /\ pc' = "idle" /\ ret' = "FAILED"
  /\ UNCHANGED <<trVars, sCheckNdefStatus, sCheckNdefCurrentSize, sCheckNdefCapable,
                 readVars, writeVars, roVars, active, present, evq, fieldChanges>>

\* Mutant: the wait on sCheckNdefSem does not block (a try-wait)
CkWakeNoBlock ==
  /\ pc = "ck_wait"
  /\ sem' = [sem EXCEPT !["check"] = @ - 1]
  /\ ret' = sCheckNdefStatus /\ sCheckNdefWaitingForComplete' = FALSE
  /\ pc' = "idle"
  /\ UNCHANGED <<trVars, calls, own, sCheckNdefStatus, sCheckNdefCurrentSize,
                 sCheckNdefCapable, readVars, writeVars, roVars, active, nfaVars>>

\* doCheckNdef after the wait: the status is sCheckNdefStatus, whoever set it
CkWake ==
  /\ pc = "ck_wait" /\ sem["check"] > 0
  /\ sem' = [sem EXCEPT !["check"] = @ - 1]
  /\ ret' = sCheckNdefStatus /\ sCheckNdefWaitingForComplete' = FALSE
  /\ pc' = "idle"
  /\ UNCHANGED <<trVars, calls, own, sCheckNdefStatus, sCheckNdefCurrentSize,
                 sCheckNdefCapable, readVars, writeVars, roVars, active, nfaVars>>

\* doRead to the wait: the buffer is freed; with a current size the read
\* is issued and waited for under sReadEvent's guard, its status unchecked
DoRead ==
  /\ Call("read")
  /\ IF sCheckNdefCurrentSize > 0
       THEN /\ sIsReadingNdefMessage' = TRUE
            /\ \E ok \in Accepts("READ") : Issue("READ", ok)
            /\ readSig' = FALSE /\ pc' = "rd_wait" /\ ret' = ret
       ELSE UNCHANGED <<sIsReadingNdefMessage, cmdq, readSig>>
            /\ pc' = "idle" /\ ret' = "empty"
  /\ sReadDataLen' = 0
  /\ UNCHANGED <<trVars, sem, checkVars, writeVars, roVars, active, present, evq,
                 fieldChanges>>

\* doRead after the wait: the data, if any, is returned and freed
RdWake ==
  /\ pc = "rd_wait" /\ readSig
  /\ readSig' = FALSE /\ sIsReadingNdefMessage' = FALSE
  /\ ret' = IF sReadDataLen > 0 THEN "data" ELSE "null"
  /\ sReadDataLen' = 0 /\ pc' = "idle"
  /\ UNCHANGED <<trVars, calls, own, sem, checkVars, writeVars, roVars, active, nfaVars>>

\* doWrite's exit (TheEnd): sWriteSem destroyed, the flag cleared
WriteEnd(r) == pc' = "idle" /\ ret' = r /\ sWriteWaitingForComplete' = FALSE

\* NFA_RwWriteNDef: if accepted, the step that clears sWriteOk comes next,
\* with the flag as it is (flag)
IssueWrite(flag) ==
  \E ok \in Accepts("WRITE") :
    /\ Issue("WRITE", ok)
    /\ IF ok THEN pc' = "wr_reset" /\ ret' = ret /\ sWriteWaitingForComplete' = flag
             ELSE WriteEnd("fail")

\* doWrite to its first wait: sWriteSem created and the flag set; a tag
\* with no NDEF message that is NDEF capable is formatted first, waiting
\* on sFormatSem; otherwise the message (or an empty record for an empty
\* buffer) is written
DoWrite ==
  /\ Call("write")
  /\ LET formatFirst == sCheckNdefStatus = "FAILED" /\ sCheckNdefCapable IN
     sem' = [sem EXCEPT !["write"] = 0, !["format"] = IF formatFirst THEN 0 ELSE @]
  /\ IF sCheckNdefStatus = "FAILED" /\ sCheckNdefCapable
       THEN /\ sFormatOk' = FALSE
            /\ \E ok \in Accepts("FORMAT") :
                 /\ Issue("FORMAT", ok)
                 /\ IF ok THEN pc' = "wr_fwait" /\ ret' = ret
                               /\ sWriteWaitingForComplete' = TRUE
                          ELSE WriteEnd("fail")
       ELSE IssueWrite(TRUE) /\ UNCHANGED sFormatOk
  /\ UNCHANGED <<trVars, sWriteOk, checkVars, readVars, roVars, active, present, evq,
                 fieldChanges>>

\* The format's wait ends: a failed format ends the call, otherwise the
\* message is written
WrFormatWake ==
  /\ pc = "wr_fwait" /\ sem["format"] > 0 /\ calls' = calls
  /\ sem' = [sem EXCEPT !["format"] = @ - 1]
  /\ IF sFormatOk THEN IssueWrite(sWriteWaitingForComplete)
                  ELSE WriteEnd("fail") /\ UNCHANGED cmdq
  /\ UNCHANGED <<trVars, own, sWriteOk, sFormatOk, checkVars, readVars, roVars,
                 active, present, evq, fieldChanges>>

\* Mutant: sWriteOk keeps the previous write's result
WrResetNoClear ==
  /\ pc = "wr_reset"
  /\ pc' = "wr_wait"
  /\ UNCHANGED <<trVars, calls, ret, own, sem, checkVars, readVars,
                 sWriteWaitingForComplete, sWriteOk, sFormatOk, roVars, active, nfaVars>>

\* "Wait for write completion status": sWriteOk is cleared after the
\* write was issued
WrReset ==
  /\ pc = "wr_reset"
  /\ sWriteOk' = FALSE /\ pc' = "wr_wait"
  /\ UNCHANGED <<trVars, calls, ret, own, sem, checkVars, readVars,
                 sWriteWaitingForComplete, sFormatOk, roVars, active, nfaVars>>

\* The write's wait ends: the result is sWriteOk
WrWake ==
  /\ pc = "wr_wait" /\ sem["write"] > 0
  /\ sem' = [sem EXCEPT !["write"] = @ - 1]
  /\ WriteEnd(Result(sWriteOk))
  /\ UNCHANGED <<trVars, calls, own, sWriteOk, sFormatOk, checkVars, readVars, roVars,
                 active, nfaVars>>

\* doNdefFormat to the wait: fails if NfcTag is not activated; sFormatOk is
\* cleared before the format is issued. (The doReconnect that follows for
\* an ISO-DEP tag is the tag state machine's, see NfcTagRf.)
DoNdefFormat ==
  /\ Call("format")
  /\ sem' = [sem EXCEPT !["format"] = 0]
  /\ \E ok \in Accepts("FORMAT") :
       IF active
         THEN /\ sFormatOk' = FALSE /\ Issue("FORMAT", ok)
              /\ IF ok THEN pc' = "fm_wait" /\ ret' = ret
                       ELSE pc' = "idle" /\ ret' = "fail"
         ELSE UNCHANGED <<sFormatOk, cmdq>> /\ pc' = "idle" /\ ret' = "fail"
  /\ UNCHANGED <<trVars, checkVars, readVars, sWriteWaitingForComplete, sWriteOk, roVars,
                 active, present, evq, fieldChanges>>

FmWake ==
  /\ pc = "fm_wait" /\ sem["format"] > 0
  /\ sem' = [sem EXCEPT !["format"] = @ - 1]
  /\ ret' = Result(sFormatOk) /\ pc' = "idle"
  /\ UNCHANGED <<trVars, calls, own, checkVars, readVars, writeVars, roVars, active,
                 nfaVars>>

\* doMakeReadonly to the wait: a hard lock, and a soft lock if the hard
\* one is rejected; either accepted is waited for
DoMakeReadonly ==
  /\ Call("makeReadonly")
  /\ sem' = [sem EXCEPT !["ro"] = 0]
  /\ \E hard \in {"OK", "REJECTED"} \cup (IF "RO" \in RefusableCmds THEN {"FAILED"} ELSE {}),
        soft \in Accepts("RO") :
       LET ok == hard = "OK" \/ (hard = "REJECTED" /\ soft) IN
       /\ Issue("RO", ok)
       /\ sMakeReadonlyWaitingForComplete' = ok
       /\ IF ok THEN pc' = "mr_wait" /\ ret' = ret ELSE pc' = "idle" /\ ret' = "fail"
  /\ UNCHANGED <<trVars, sMakeReadonlyStatus, checkVars, readVars, writeVars, active,
                 present, evq, fieldChanges>>

MrWake ==
  /\ pc = "mr_wait" /\ sem["ro"] > 0
  /\ sem' = [sem EXCEPT !["ro"] = @ - 1]
  /\ ret' = Result(sMakeReadonlyStatus = "OK")
  /\ sMakeReadonlyWaitingForComplete' = FALSE /\ pc' = "idle"
  /\ UNCHANGED <<trVars, calls, own, sMakeReadonlyStatus, checkVars, readVars, writeVars,
                 active, nfaVars>>

\* Mutant: the buffer is not cleared before the frame is sent
DoTransceiveNoClear ==
  /\ Call("transceive")
  /\ IF active
       THEN \E ok \in Accepts("RAW") :
              /\ sTransceiveRfTimeout' = FALSE /\ sWaitingForTransceive' = ok
              /\ sRxDataStatus' = "OK" /\ UNCHANGED sRxDataBuffer
              /\ Issue("RAW", ok) /\ trSig' = FALSE
              /\ IF ok THEN pc' = "tr_wait" /\ ret' = ret
                       ELSE pc' = "idle" /\ ret' = "null"
       ELSE pc' = "idle" /\ ret' = "lost" /\ UNCHANGED <<trVars, cmdq>>
  /\ UNCHANGED <<sem, checkVars, readVars, writeVars, roVars, active, present,
                 evq, fieldChanges>>

\* doTransceive to the wait: a tag that is not active is reported lost;
\* otherwise, under sTransceiveEvent's guard, the flags are armed, the
\* buffer cleared and the frame sent; a refused frame ends the call with
\* no result. (The frame's contents, and the ISO-DEP activation by the
\* application they may reveal, are left out.)
DoTransceive ==
  /\ Call("transceive")
  /\ IF active
       THEN \E ok \in Accepts("RAW") :
              /\ sTransceiveRfTimeout' = FALSE /\ sWaitingForTransceive' = ok
              /\ sRxDataStatus' = "OK" /\ sRxDataBuffer' = <<>>
              /\ Issue("RAW", ok) /\ trSig' = FALSE
              /\ IF ok THEN pc' = "tr_wait" /\ ret' = ret
                       ELSE pc' = "idle" /\ ret' = "null"
       ELSE pc' = "idle" /\ ret' = "lost" /\ UNCHANGED <<trVars, cmdq>>
  /\ UNCHANGED <<sem, checkVars, readVars, writeVars, roVars, active, present,
                 evq, fieldChanges>>

\* The wait is notified: an RF timeout or a tag that is no longer active
\* is reported lost, leaving the buffer; otherwise the buffer, if not
\* empty, is returned and cleared. (The response bytes are abstracted,
\* so the reconnect after a Type 2 NACK or a one-byte MIFARE answer is
\* left to the tag state machine.)
TrWake ==
  /\ pc = "tr_wait" /\ trSig
  /\ trSig' = FALSE /\ sWaitingForTransceive' = FALSE /\ pc' = "idle"
  /\ IF sTransceiveRfTimeout \/ ~active
       THEN ret' = "lost" /\ UNCHANGED sRxDataBuffer
       ELSE /\ ret' = IF sRxDataBuffer # <<>> THEN "data" ELSE "null"
            /\ sRxDataBuffer' = <<>>
  /\ UNCHANGED <<calls, own, sem, checkVars, readVars, writeVars, roVars,
                 sTransceiveRfTimeout, sRxDataStatus, active, nfaVars>>

\* Whether an answer to call id's frame is still to come
FramePending(id) ==
  \/ \E i \in DOMAIN cmdq : cmdq[i].k = "RAW" /\ cmdq[i].id = id
  \/ \E i \in DOMAIN evq : evq[i].e \in {"DATA", "RW_INTF_ERROR"} /\ evq[i].id = id

\* The wait times out (NfcTag's transceive timeout): the tag is reported
\* lost and the buffer left as it is. Unless LateAnswers, the timeout is
\* longer than the controller takes to answer the frame.
TrTimeout ==
  /\ pc = "tr_wait" /\ ~trSig /\ (LateAnswers \/ ~FramePending(calls))
  /\ ret' = "lost" /\ sWaitingForTransceive' = FALSE /\ pc' = "idle"
  /\ UNCHANGED <<calls, own, sem, checkVars, readVars, writeVars, roVars,
                 sTransceiveRfTimeout, sRxDataStatus, sRxDataBuffer, trSig,
                 active, nfaVars>>

-----------------------------------------------------------------------------

AppStep == DoCheckNdef \/ CkWake \/ DoRead \/ RdWake \/ DoWrite \/ WrFormatWake
           \/ WrReset \/ WrWake \/ DoNdefFormat \/ FmWake \/ DoMakeReadonly
           \/ MrWake \/ DoTransceive \/ TrWake \/ TrTimeout
CallbackStep == CbNdefDetect \/ CbNdefData \/ CbReadCplt \/ CbIntfError
                \/ CbWriteCplt \/ CbFormatCplt \/ CbSetTagRo \/ CbDeactivated
                \/ CbActivated \/ CbData
NfaStep == NfaAnswer \/ TagLeave \/ TagArrive

\* A bounded run ends with no call left, nothing in flight
Finished ==
  /\ calls = MaxCalls /\ pc = "idle" /\ cmdq = <<>> /\ evq = <<>>
  /\ UNCHANGED vars

Next == AppStep \/ CallbackStep \/ NfaStep \/ Finished

\* Each thread runs while it can, and the stack answers what it accepted;
\* the tag is not required to move
Fairness == WF_vars(AppStep) /\ WF_vars(CallbackStep) /\ WF_vars(NfaAnswer)

Spec == Init /\ [][Next]_vars /\ Fairness

-----------------------------------------------------------------------------
(* Properties                                                              *)

TypeOK ==
  /\ pc \in {"idle", "ck_wait", "rd_wait", "wr_fwait", "wr_reset", "wr_wait",
             "fm_wait", "mr_wait", "tr_wait"}
  /\ calls \in 0..MaxCalls
  /\ own \in [Cmds -> {"none", "OK", "FAILED", "TIMEOUT"}]
  /\ sRxDataStatus \in {"OK", "CONTINUE", "FAILED"}
  /\ sRxDataBuffer \in Seq(1..MaxCalls)
  /\ {sWaitingForTransceive, sTransceiveRfTimeout, trSig} \subseteq BOOLEAN
  /\ sem \in [Sems -> Nat] /\ readSig \in BOOLEAN
  /\ sCheckNdefStatus \in {"OK", "FAILED", "TIMEOUT"}
  /\ sCheckNdefCurrentSize \in {0, 1} /\ sReadDataLen \in {0, 1}
  /\ sMakeReadonlyStatus \in {"OK", "FAILED"}
  /\ {sWriteWaitingForComplete, sWriteOk, sFormatOk, sCheckNdefWaitingForComplete,
      sCheckNdefCapable, sIsReadingNdefMessage, sMakeReadonlyWaitingForComplete,
      active, present} \subseteq BOOLEAN
  /\ cmdq \in Seq([k : Cmds, id : 0..MaxCalls])

\* The return of doWrite and of doCheckNdef
WriteReturns == pc = "wr_wait" /\ pc' = "idle"
CheckReturns == pc = "ck_wait" /\ pc' = "idle"
TransceiveReturns == pc = "tr_wait" /\ pc' = "idle"

\* Spec section 4.2: doWrite returns true only if the write-complete event
\* of its own write reported success (sWriteOk is set by doWriteStatus
\* and read after sWriteSem is posted, by the event or by abortWaits).
WriteTrueOnlyIfWritten ==
  [][WriteReturns /\ ret' = "ok" => own["WRITE"] = "OK"]_vars

\* A doWrite whose own write-complete event was handled returns what that
\* event reported.
WriteResultIsOwn ==
  [][WriteReturns /\ own["WRITE"] # "none" => ret' = Result(own["WRITE"] = "OK")]_vars

\* doCheckNdef reports an NDEF message only if its own detection found
\* one, not when abortWaits posts sCheckNdefSem and sCheckNdefStatus still
\* holds an earlier detection's result.
CheckNdefResultIsOwn ==
  [][CheckReturns /\ ret' = "OK" => own["DETECT"] = "OK"]_vars

\* Spec section 4.1 (transceive request/response pairing): the response
\* doTransceive returns is made only of chunks that answer the frame it
\* sent, never of a chunk left in sRxDataBuffer by an earlier transceive
\* or delivered late for one.
TransceiveResultIsOwn ==
  [][TransceiveReturns /\ ret' = "data" =>
       \A i \in DOMAIN sRxDataBuffer : sRxDataBuffer[i] = calls]_vars

\* doTransceive returns data only after its own frame's last chunk was
\* received with status OK, not a partial response ended by an error.
TransceiveDataOnlyIfComplete ==
  [][TransceiveReturns /\ ret' = "data" => own["RAW"] = "OK"]_vars

\* Spec section 4.1: no NDEF operation blocks for ever; every call returns,
\* answered by its completion event or released by abortWaits.
CallsReturn == pc # "idle" ~> pc = "idle"

=============================================================================
