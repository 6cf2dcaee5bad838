--------------------------- MODULE QmiTransaction ---------------------------
(***************************************************************************)
(* The QMI transaction layer of quectel-CM: the main thread's blocking     *)
(* call QmiThreadSendQMITimeout, the reader thread QmiWwanThread that      *)
(* matches responses to it (QmiThreadRecvQMI), and the two directions of   *)
(* the qmidevice_control_fd socket pair between them.                      *)
(*                                                                         *)
(* The threads share cm_command_mutex, cm_command_cond, s_pRequest,        *)
(* s_pResponse and cdc_wdm_fd.  A critical section that cannot block is    *)
(* one step.  The modem is the environment: it answers a request late, out *)
(* of order or never, and sends indications of its own.  The heap is       *)
(* modelled because the threads hand the request and response buffers to   *)
(* each other.  Not modelled: failing malloc, message contents.            *)
(***************************************************************************)
EXTENDS Integers, Sequences

CONSTANTS
    MaxCtlTid,  \* last transaction id of a CTL request before wrapping (0xFF)
    MaxMuxTid,  \* last transaction id of a service request (0xFFFF)
    Slices,     \* timed waits pthread_cond_timeout_np cuts one timeout into
    EvCap,      \* events qmidevice_control_fd holds before write() blocks
    MaxCalls,   \* bound: calls made
    MaxInd      \* bound: indications the modem sends

ASSUME ConstantsAssumption ==
    /\ MaxCtlTid \in Nat \ {0} /\ MaxMuxTid \in Nat \ {0}
    /\ Slices \in Nat \ {0} /\ EvCap \in Nat \ {0}
    /\ MaxCalls \in Nat /\ MaxInd \in Nat

VARIABLES
    main,      \* where the main thread is
    slice,     \* the timed wait it is in
    outcome,   \* how its last call ended (history)
    missed,    \* a signal of this call came outside the wait (history)
    tids,      \* the two static TransactionId counters
    req,       \* the request of the current (or last) call
    mutex,     \* holder of cm_command_mutex
    sReq,      \* s_pRequest
    sRsp,      \* s_pResponse
    heap,      \* allocated request and response buffers
    fd,        \* cdc_wdm_fd: open, closed but not yet -1, or -1 ("none")
    rdr,       \* where the reader thread is
    msg,       \* the message in cm_recv_buf
    stopping,  \* wait_for_request_quit
    stop,      \* the SIG_EVENT_STOP of signal_control_fd
    ctlq,      \* events on their way from main to the reader
    evq,       \* events on their way from the reader to main
    pending,   \* requests the modem has received and not answered
    inds       \* indications sent so far

mainVars == <<main, slice, outcome, missed>>
callVars == <<tids, req>>
cellVars == <<sReq, sRsp, heap>>
rdrVars  == <<rdr, msg, stopping>>
modemVars == <<pending, inds>>
vars == <<mainVars, callVars, mutex, cellVars, fd, rdrVars, stop, ctlq, evq, modemVars>>

Kinds == {"ctl", "mux"}
Indications == {"network", "datacall", "reset"}
Events == {"connected", "disconnected"} \cup Indications

\* Two messages carry the same serial only when one answers the other; the
\* serial is not on the wire.
Message == [kind : Kinds \cup Indications \cup {"none"}, tid : Nat, serial : Nat]
NoMsg == [kind |-> "none", tid |-> 0, serial |-> 0]
Ind(e) == [kind |-> e, tid |-> 0, serial |-> 0]

MainStates == {"start", "idle", "sending", "polling", "writing", "waiting", "woken",
               "expired", "using", "joining", "done"}
RdrStates == {"start", "announce", "failed", "poll", "recv", "event", "idle",
              "closing", "closed", "notify", "abort", "exited"}
Outcome == [status : {"none", "ok", "empty", "timeout", "error"}, rsp : Nat]

Busy == main \in {"sending", "polling", "writing", "waiting", "woken", "expired"}

Init ==
    /\ main = "start" /\ slice = 1 /\ missed = FALSE
    /\ outcome = [status |-> "none", rsp |-> 0]
    /\ tids = [k \in Kinds |-> 0] /\ req = NoMsg
    /\ mutex = "none" /\ sReq = NoMsg /\ sRsp = NoMsg /\ heap = {}
    /\ fd = "none" /\ rdr = "start" /\ msg = NoMsg /\ stopping = FALSE
    /\ stop = "no" /\ ctlq = <<>> /\ evq = <<>>
    /\ pending = {} /\ inds = 0

-----------------------------------------------------------------------------
(***************************************************************************)
(* Faulty variants of operators defined below, used by no action.  Each is *)
(* a plausible mistake in the code that some property must notice.         *)
(***************************************************************************)
OneSliceTooMany == slice <= Slices
MatchKindOnly(pRequest, pResponse) == pRequest.kind = pResponse.kind
DescriptorKept == "closed"
NeverEvent(e) == FALSE
ForgetKeepsPointer ==
    /\ heap' = heap \ {<<"req", sReq.serial>>}
    /\ UNCHANGED <<sReq, sRsp>>
ForgetAlways ==
    /\ sReq' = NoMsg /\ sRsp' = NoMsg
    /\ heap' = heap \ {<<"req", sReq.serial>>}

-----------------------------------------------------------------------------
(***************************************************************************)
(* The main thread                                                         *)
(***************************************************************************)

MaxTid(k) == IF k = "ctl" THEN MaxCtlTid ELSE MaxMuxTid
NextTid(k) == IF tids[k] >= MaxTid(k) THEN 1 ELSE tids[k] + 1

is_response(pRequest, pResponse) ==
    pRequest.kind = pResponse.kind /\ pRequest.tid = pResponse.tid

MoreSlices == slice < Slices

Unlock == mutex' = "none"

Finish(status, rsp) == outcome' = [status |-> status, rsp |-> rsp]

\* qmi_main waits for the reader's first event and gives up on any but CONNECTED.
MainReady ==
    /\ main = "start" /\ evq # <<>>
    /\ main' = IF Head(evq) = "connected" THEN "idle" ELSE "done"
    /\ evq' = Tail(evq)
    /\ UNCHANGED <<slice, outcome, missed, callVars, mutex, cellVars, fd, rdrVars, stop,
                   ctlq, modemVars>>

\* Environment assumption: an answer comes, if at all, before the 255 (65535)
\* calls are over after which its transaction id is used again.
NotLapped(k, t) ==
    \A p \in pending \cup {msg} : ~(p.kind = k /\ p.tid = t)

BeginCall(k) ==
    /\ main = "idle" /\ mutex = "none" /\ req.serial < MaxCalls
    /\ NotLapped(k, NextTid(k))
    /\ tids' = [tids EXCEPT ![k] = NextTid(k)]
    /\ req' = [kind |-> k, tid |-> NextTid(k), serial |-> req.serial + 1]
    /\ sReq' = req' /\ sRsp' = NoMsg
    /\ heap' = heap \cup {<<"req", req.serial + 1>>}
    /\ mutex' = "main" /\ main' = "sending" /\ missed' = FALSE
    /\ UNCHANGED <<slice, outcome, fd, rdrVars, stop, ctlq, evq, modemVars>>

\* QmiWwanSendQMI returned an error: the call ends and s_pRequest stays set.
SendFails ==
    /\ main' = "idle" /\ Finish("error", 0) /\ Unlock
    /\ UNCHANGED <<slice, pending>>

\* QmiWwanSendQMI returned 0: pthread_cond_timedwait gives the mutex up.
StartWait ==
    /\ main' = "waiting" /\ slice' = 1 /\ Unlock
    /\ UNCHANGED outcome

\* -ENODEV when the descriptor is -1 or the service has no client id.
SendCheck ==
    /\ main = "sending"
    /\ \/ /\ fd # "none" /\ main' = "polling"
          /\ UNCHANGED <<slice, outcome, mutex, pending>>
       \/ (fd = "none" \/ req.kind = "mux") /\ SendFails
    /\ UNCHANGED <<missed, callVars, cellVars, fd, rdrVars, stop, ctlq, evq, inds>>

\* poll for 5 s: writable; 0 on timeout, which is taken for success though
\* nothing was written; otherwise -1 or POLLNVAL.
SendPoll ==
    /\ main = "polling"
    /\ \/ main' = "writing" /\ UNCHANGED <<slice, outcome, mutex, pending>>
       \/ StartWait /\ UNCHANGED pending
       \/ SendFails
    /\ UNCHANGED <<missed, callVars, cellVars, fd, rdrVars, stop, ctlq, evq, inds>>

SendWrite ==
    /\ main = "writing"
    /\ \/ fd = "open" /\ StartWait /\ pending' = pending \cup {req}
       \/ SendFails
    /\ UNCHANGED <<missed, callVars, cellVars, fd, rdrVars, stop, ctlq, evq, inds>>

\* One of the timed waits runs out, or (as POSIX allows) ends for no reason.
WaitEnds ==
    /\ main = "waiting"
    /\ main' \in {"expired", "woken"}
    /\ UNCHANGED <<slice, outcome, missed, callVars, mutex, cellVars, fd, rdrVars, stop,
                   ctlq, evq, modemVars>>

\* ETIMEDOUT: wait for the next slice, or end the call.
ExpiredRelock ==
    /\ main = "expired" /\ mutex = "none"
    /\ \/ /\ MoreSlices
          /\ main' = "waiting" /\ slice' = slice + 1
          /\ UNCHANGED outcome
       \/ /\ ~MoreSlices
          /\ main' = "idle" /\ Finish("timeout", 0)
          /\ UNCHANGED slice
    /\ UNCHANGED <<missed, callVars, mutex, cellVars, fd, rdrVars, stop, ctlq, evq,
                   modemVars>>

\* The wait returned 0.  s_pResponse goes to the caller, or is freed when the
\* caller passed no ppResponse; without one the call returns 0 and NULL.
WokenRelock ==
    /\ main = "woken" /\ mutex = "none"
    /\ \/ /\ sRsp = NoMsg
          /\ main' = "idle" /\ Finish("empty", 0)
          /\ UNCHANGED <<sRsp, heap>>
       \/ /\ sRsp # NoMsg
          /\ main' = "using" /\ Finish("ok", sRsp.serial)
          /\ UNCHANGED <<sRsp, heap>>
       \/ /\ sRsp # NoMsg
          /\ main' = "idle" /\ Finish("ok", 0)
          /\ heap' = heap \ {<<"rsp", sRsp.serial>>} /\ sRsp' = NoMsg
    /\ UNCHANGED <<slice, missed, callVars, mutex, sReq, fd, rdrVars, stop, ctlq, evq,
                   modemVars>>

\* The caller parses the response and frees it; s_pResponse still points there.
CallerFrees ==
    /\ main = "using"
    /\ main' = "idle"
    /\ heap' = heap \ {<<"rsp", req.serial>>}
    /\ UNCHANGED <<slice, outcome, missed, callVars, mutex, sReq, sRsp, fd, rdrVars, stop,
                   ctlq, evq, modemVars>>

MainEvent ==
    /\ main = "idle" /\ evq # <<>>
    /\ evq' = Tail(evq)
    /\ main' = IF Head(evq) \in {"disconnected", "reset"} THEN "joining" ELSE "idle"
    /\ ctlq' = IF Head(evq) = "reset" THEN Append(ctlq, "QUIT") ELSE ctlq
    /\ UNCHANGED <<slice, outcome, missed, callVars, mutex, cellVars, fd, rdrVars, stop,
                   modemVars>>

MainStop ==
    /\ main = "idle" /\ stop = "raised"
    /\ main' = "joining" /\ stop' = "taken"
    /\ ctlq' = Append(ctlq, "QUIT")
    /\ UNCHANGED <<slice, outcome, missed, callVars, mutex, cellVars, fd, rdrVars, evq,
                   modemVars>>

MainJoin ==
    /\ main = "joining" /\ rdr = "exited"
    /\ main' = "done"
    /\ UNCHANGED <<slice, outcome, missed, callVars, mutex, cellVars, fd, rdrVars, stop,
                   ctlq, evq, modemVars>>

\* ql_sigaction on SIGTERM or SIGINT, whatever main is doing; once.
SignalStop ==
    /\ stop = "no" /\ main # "done"
    /\ stop' = "raised" /\ ctlq' = Append(ctlq, "STOP")
    /\ UNCHANGED <<mainVars, callVars, mutex, cellVars, fd, rdrVars, evq, modemVars>>

-----------------------------------------------------------------------------
(***************************************************************************)
(* The reader thread                                                       *)
(***************************************************************************)

RdrOpen ==
    /\ rdr = "start"
    /\ \/ fd' = "open" /\ rdr' = "announce"
       \/ fd' = "none" /\ rdr' = "failed"
    /\ UNCHANGED <<mainVars, callVars, mutex, cellVars, msg, stopping, stop, ctlq, evq,
                   modemVars>>

\* qmidevice_send_event_to_main: a write that blocks while the socket is full.
SendEvent(e) == Len(evq) < EvCap /\ evq' = Append(evq, e)

RdrAnnounce ==
    /\ \/ rdr = "announce" /\ SendEvent("connected") /\ rdr' = "poll"
       \/ rdr = "failed" /\ SendEvent("disconnected") /\ rdr' = "exited"
    /\ UNCHANGED <<mainVars, callVars, mutex, cellVars, fd, msg, stopping, stop, ctlq,
                   modemVars>>

IsStop(e) == e = "STOP"
IsQuit(e) == e = "QUIT"

RdrControl ==
    /\ rdr = "poll" /\ ctlq # <<>>
    /\ ctlq' = Tail(ctlq)
    /\ stopping' = (stopping \/ IsStop(Head(ctlq)))
    /\ rdr' = IF IsQuit(Head(ctlq)) THEN "closing" ELSE "poll"
    /\ UNCHANGED <<mainVars, callVars, mutex, cellVars, fd, msg, stop, evq, modemVars>>

RdrRead ==
    /\ rdr = "poll"
    /\ \/ /\ msg' \in pending /\ pending' = pending \ {msg'}
          /\ UNCHANGED inds
       \/ /\ inds < MaxInd /\ inds' = inds + 1
          /\ msg' \in {Ind(e) : e \in Indications}
          /\ UNCHANGED pending
    /\ rdr' = "recv"
    /\ UNCHANGED <<mainVars, callVars, mutex, cellVars, fd, stopping, stop, ctlq, evq>>

\* POLLHUP: the modem is gone.
RdrHup ==
    /\ rdr = "poll"
    /\ rdr' = "closing"
    /\ UNCHANGED <<mainVars, callVars, mutex, cellVars, fd, msg, stopping, stop, ctlq, evq,
                   modemVars>>

\* After SIG_EVENT_STOP poll waits 1000 ms only, and finds nothing to read.
RdrIdle ==
    /\ rdr = "poll" /\ stopping /\ ctlq = <<>>
    /\ rdr' = "idle"
    /\ UNCHANGED <<mainVars, callVars, mutex, cellVars, fd, msg, stopping, stop, ctlq, evq,
                   modemVars>>

\* pthread_cond_signal wakes main only if it is inside pthread_cond_timedwait:
\* between two slices, or after the last one, nobody hears it.
Signal ==
    /\ main' = IF main = "waiting" THEN "woken" ELSE main
    /\ missed' = (missed \/ main = "expired")

\* A matching response replaces the request it answers by its own copy.
Accept ==
    /\ sReq' = NoMsg /\ sRsp' = msg
    /\ heap' = (heap \ {<<"req", sReq.serial>>}) \cup {<<"rsp", msg.serial>>}
    /\ Signal

RdrRecv ==
    /\ rdr = "recv" /\ mutex = "none"
    /\ \/ /\ msg.kind \in Kinds
          /\ IF sReq # NoMsg /\ is_response(sReq, msg)
                THEN Accept
                ELSE UNCHANGED <<cellVars, main, missed>>
          /\ rdr' = "poll" /\ msg' = NoMsg /\ UNCHANGED mutex
       \/ /\ msg.kind \in Indications
          /\ rdr' = "event" /\ mutex' = "reader"
          /\ UNCHANGED <<cellVars, main, missed, msg>>
    /\ UNCHANGED <<slice, outcome, callVars, fd, stopping, stop, ctlq, evq, modemVars>>

\* The event is written with cm_command_mutex held.
RdrEvent ==
    /\ rdr = "event" /\ SendEvent(msg.kind)
    /\ rdr' = "poll" /\ msg' = NoMsg /\ Unlock
    /\ UNCHANGED <<mainVars, callVars, cellVars, fd, stopping, stop, ctlq, modemVars>>

Forget ==
    IF sReq # NoMsg
       THEN /\ sReq' = NoMsg /\ sRsp' = NoMsg
            /\ heap' = heap \ {<<"req", sReq.serial>>}
       ELSE UNCHANGED cellVars

\* QmiThreadRecvQMI(NULL): on an idle second while stopping, and at the end.
RdrAbort ==
    /\ rdr \in {"idle", "abort"} /\ mutex = "none"
    /\ Forget
    /\ IF sReq # NoMsg THEN Signal ELSE UNCHANGED <<main, missed>>
    /\ rdr' = IF rdr = "idle" THEN "poll" ELSE "exited"
    /\ UNCHANGED <<slice, outcome, callVars, mutex, fd, msg, stopping, stop, ctlq, evq,
                   modemVars>>

\* close(cdc_wdm_fd) and cdc_wdm_fd = -1 take no lock.
NoDescriptor == "none"

RdrClose ==
    /\ \/ rdr = "closing" /\ fd' = "closed" /\ rdr' = "closed"
       \/ rdr = "closed" /\ fd' = NoDescriptor /\ rdr' = "notify"
    /\ UNCHANGED <<mainVars, callVars, mutex, cellVars, msg, stopping, stop, ctlq, evq,
                   modemVars>>

RdrNotify ==
    /\ rdr = "notify" /\ SendEvent("disconnected")
    /\ rdr' = "abort"
    /\ UNCHANGED <<mainVars, callVars, mutex, cellVars, fd, msg, stopping, stop, ctlq,
                   modemVars>>

-----------------------------------------------------------------------------
Terminated == main = "done" /\ rdr = "exited" /\ UNCHANGED vars

MainCall == SendCheck \/ SendPoll \/ SendWrite \/ ExpiredRelock \/ WokenRelock \/ CallerFrees
MainLoop == MainReady \/ MainEvent \/ MainStop \/ MainJoin
RdrStep == RdrOpen \/ RdrAnnounce \/ RdrControl \/ RdrRecv \/ RdrEvent \/ RdrAbort
           \/ RdrClose \/ RdrNotify

Next ==
    \/ \E k \in Kinds : BeginCall(k)
    \/ MainCall \/ WaitEnds \/ MainLoop \/ SignalStop
    \/ RdrStep \/ RdrRead \/ RdrHup \/ RdrIdle
    \/ Terminated

Spec == Init /\ [][Next]_vars

\* The scheduler runs both threads and, after a STOP, the modem is silent for a
\* second now and then.  The modem owes nothing: neither reads nor hang-ups.
ThreadFairness ==
    /\ WF_vars(MainCall) /\ WF_vars(MainReady) /\ WF_vars(MainJoin)
    /\ WF_vars(MainStop) /\ WF_vars(MainEvent)
    /\ WF_vars(RdrStep) /\ WF_vars(RdrIdle)

FairSpec == Spec /\ ThreadFairness

\* The timed waits run out.
Clock == WF_vars(WaitEnds)

-----------------------------------------------------------------------------
(***************************************************************************)
(* Properties                                                              *)
(***************************************************************************)

\* Every variable has its type.
TypeOK ==
    /\ main \in MainStates /\ rdr \in RdrStates
    /\ slice \in 1..Slices /\ outcome \in Outcome
    /\ missed \in BOOLEAN /\ stopping \in BOOLEAN
    /\ tids \in [Kinds -> Nat]
    /\ req \in Message /\ sReq \in Message /\ sRsp \in Message /\ msg \in Message
    /\ mutex \in {"none", "main", "reader"}
    /\ heap \subseteq {"req", "rsp"} \X Nat
    /\ fd \in {"open", "closed", "none"} /\ stop \in {"no", "raised", "taken"}
    /\ ctlq \in Seq({"STOP", "QUIT"}) /\ evq \in Seq(Events)
    /\ pending \subseteq Message /\ inds \in Nat

\* No thread follows a pointer to a freed buffer: s_pRequest, which the reader
\* compares and frees, and the response a caller waits for or is parsing.
NoDanglingPointer ==
    /\ sReq # NoMsg => <<"req", sReq.serial>> \in heap
    /\ sRsp # NoMsg /\ Busy => <<"rsp", sRsp.serial>> \in heap
    /\ main = "using" => <<"rsp", req.serial>> \in heap

\* QmiWwanThread's exit leaves no caller in QmiThreadSendQMITimeout, however the
\* close and the call interleave, except one that missed its signal.
ReaderExitReleasesCall ==
    rdr = "exited" /\ main \in {"waiting", "expired"} => missed

\* An answer accepted while its call is in progress is what the call returns; the
\* abort of an idle second, or a timeout, does not take it away.
AcceptedAnswerIsReturned ==
    [][sRsp # NoMsg /\ Busy /\ ~missed /\ (sRsp' # sRsp \/ ~Busy')
         => outcome'.status = "ok"]_vars

Abs == INSTANCE QmiCall WITH
          busy <- Busy, call <- req.serial, ans <- sRsp # NoMsg, got <- outcome.rsp

\* Each call returns the answer to that call or none (QmiCall).
RefinesQmiCall == Abs!Spec

\* With the clock running SIGTERM ends the session: main joins the reader and is done.
StopEndsSession == Clock => (stop = "raised" ~> main = "done")
=============================================================================
