------------------------ MODULE QmiTransactionProofs ------------------------
(***************************************************************************)
(* Proofs about QmiTransaction, for every timeout, queue size and number   *)
(* of calls: its types, no dangling pointer, the release of the caller     *)
(* when the reader exits, and the refinement of QmiCall.                   *)
(***************************************************************************)
EXTENDS QmiTransaction, TLAPS

Sending == main \in {"sending", "polling", "writing"}
InWait == main \in {"waiting", "expired"}

\* cm_command_mutex is held by main from BeginCall to the wait, by the reader
\* while it writes an event.
LockInv ==
    /\ mutex = "main" <=> Sending
    /\ mutex = "reader" <=> rdr = "event"

\* s_pRequest and s_pResponse only ever belong to the last call, never both.
CellInv ==
    /\ sReq \in {NoMsg, req} /\ sRsp \in {NoMsg, req}
    /\ sReq # NoMsg => sRsp = NoMsg /\ req.serial > 0
    /\ Sending => sReq = req /\ req # NoMsg
    /\ InWait /\ sReq = NoMsg => missed
    /\ NoDanglingPointer

\* A message that would match the current request is its answer.
WindowInv ==
    /\ req = NoMsg \/ req.kind \in Kinds
    /\ \A p \in pending : p.kind \in Kinds
    /\ \A p \in pending \cup {msg} : is_response(req, p) => p = req

\* The life of the reader and its descriptor.
ReaderInv ==
    /\ rdr \in {"start", "announce", "failed"} => main = "start" /\ evq = <<>>
    /\ rdr \in {"failed", "notify", "abort", "exited"} => fd = "none"
    /\ rdr = "exited" => main \notin {"polling", "writing"}
    /\ rdr = "exited" /\ InWait => sReq = NoMsg
    /\ rdr = "event" => msg.kind \in Indications

IInv == TypeOK /\ LockInv /\ CellInv /\ WindowInv /\ ReaderInv

-----------------------------------------------------------------------------
\* The initial state satisfies the inductive invariant.
LEMMA InitIInv == Init => IInv
<1> SUFFICES ASSUME Init PROVE IInv
    OBVIOUS
<1>1. NoMsg \in Message
    BY DEF NoMsg, Message, Kinds, Indications
<1>2. TypeOK
  <2>1. outcome \in Outcome /\ tids \in [Kinds -> Nat] /\ heap \subseteq {"req", "rsp"} \X Nat
        /\ pending \subseteq Message /\ slice \in 1..Slices /\ inds \in Nat
      BY ConstantsAssumption DEF Init, Outcome
  <2>2. ctlq \in Seq({"STOP", "QUIT"}) /\ evq \in Seq(Events)
      BY DEF Init
  <2>3. QED
      BY <1>1, <2>1, <2>2 DEF Init, TypeOK, MainStates, RdrStates
<1>3. LockInv /\ CellInv /\ WindowInv /\ ReaderInv
    BY DEF Init, LockInv, CellInv, WindowInv, ReaderInv, NoDanglingPointer, Sending,
           InWait, is_response, Busy
<1>4. QED
    BY <1>2, <1>3 DEF IInv

\* Every step preserves the types.
LEMMA TypeStep == TypeOK /\ ReaderInv /\ [Next]_vars => TypeOK'
<1> SUFFICES ASSUME TypeOK, ReaderInv, [Next]_vars PROVE TypeOK'
    OBVIOUS
<1> USE ConstantsAssumption DEF TypeOK, MainStates, RdrStates, Outcome, mainVars, callVars,
           cellVars, rdrVars, modemVars
<1>1. ASSUME NEW k \in Kinds, BeginCall(k) PROVE TypeOK'
  <2>1. NextTid(k) \in Nat /\ req.serial + 1 \in Nat
      BY DEF NextTid, Message
  <2>2. req' \in Message /\ sReq' \in Message /\ sRsp' \in Message
      BY <1>1, <2>1 DEF BeginCall, Message, NoMsg
  <2>3. tids' \in [Kinds -> Nat] /\ heap' \subseteq {"req", "rsp"} \X Nat
      BY <1>1, <2>1 DEF BeginCall
  <2>4. QED
      BY <1>1, <2>2, <2>3 DEF BeginCall
<1>2. CASE MainReady
    BY <1>2 DEF MainReady
<1>3. CASE SendCheck
    BY <1>3 DEF SendCheck, SendFails, Finish, Unlock
<1>4. CASE SendPoll
    BY <1>4 DEF SendPoll, SendFails, StartWait, Finish, Unlock
<1>5. CASE SendWrite
    BY <1>5 DEF SendWrite, SendFails, StartWait, Finish, Unlock
<1>6. CASE WaitEnds
    BY <1>6 DEF WaitEnds
<1>7. CASE ExpiredRelock
    BY <1>7 DEF ExpiredRelock, MoreSlices, Finish
<1>8. CASE WokenRelock
  <2>1. outcome' \in Outcome
      BY <1>8 DEF WokenRelock, Finish, Message
  <2>2. sRsp' \in Message /\ heap' \subseteq {"req", "rsp"} \X Nat
      BY <1>8 DEF WokenRelock, Message, NoMsg
  <2>3. QED
      BY <1>8, <2>1, <2>2 DEF WokenRelock
<1>9. CASE CallerFrees
    BY <1>9 DEF CallerFrees
<1>10. CASE MainEvent
    BY <1>10 DEF MainEvent
<1>11. CASE MainStop
    BY <1>11 DEF MainStop
<1>12. CASE MainJoin
    BY <1>12 DEF MainJoin
<1>13. CASE SignalStop
    BY <1>13 DEF SignalStop
<1>14. CASE RdrOpen
    BY <1>14 DEF RdrOpen
<1>15. CASE RdrAnnounce
  <2> "connected" \in Events /\ "disconnected" \in Events
      BY DEF Events
  <2>1. evq' \in Seq(Events)
      BY <1>15, Append(evq, "connected") \in Seq(Events),
         Append(evq, "disconnected") \in Seq(Events) DEF RdrAnnounce, SendEvent
  <2>2. QED
      BY <1>15, <2>1 DEF RdrAnnounce
<1>16. CASE RdrControl
    BY <1>16 DEF RdrControl
<1>17. CASE RdrRead
  <2>1. \A e \in Indications : Ind(e) \in Message
      BY DEF Ind, Message
  <2>2. msg' \in Message /\ pending' \subseteq Message /\ inds' \in Nat
      BY <1>17, <2>1 DEF RdrRead
  <2>3. QED
      BY <1>17, <2>2 DEF RdrRead
<1>18. CASE RdrHup
    BY <1>18 DEF RdrHup
<1>19. CASE RdrIdle
    BY <1>19 DEF RdrIdle
<1>20. CASE RdrRecv
  <2>1. NoMsg \in Message /\ msg.serial \in Nat
      BY DEF NoMsg, Message
  <2>2. sReq' \in Message /\ sRsp' \in Message /\ msg' \in Message
      BY <1>20, <2>1 DEF RdrRecv, Accept
  <2>3. heap' \subseteq {"req", "rsp"} \X Nat
      BY <1>20, <2>1 DEF RdrRecv, Accept
  <2>4. main' \in MainStates /\ missed' \in BOOLEAN
      BY <1>20 DEF RdrRecv, Accept, Signal
  <2>5. QED
      BY <1>20, <2>2, <2>3, <2>4 DEF RdrRecv
<1>21. CASE RdrEvent
  <2>1. msg.kind \in Events
      BY <1>21 DEF RdrEvent, ReaderInv, Events
  <2>2. evq' \in Seq(Events) /\ msg' \in Message
      BY <1>21, <2>1 DEF RdrEvent, SendEvent, NoMsg, Message
  <2>3. QED
      BY <1>21, <2>2 DEF RdrEvent, Unlock
<1>22. CASE RdrAbort
  <2>1. sReq' \in Message /\ sRsp' \in Message /\ heap' \subseteq {"req", "rsp"} \X Nat
      BY <1>22 DEF RdrAbort, Forget, NoMsg, Message
  <2>2. main' \in MainStates /\ missed' \in BOOLEAN
      BY <1>22 DEF RdrAbort, Signal
  <2>3. QED
      BY <1>22, <2>1, <2>2 DEF RdrAbort
<1>23. CASE RdrClose
    BY <1>23 DEF RdrClose, NoDescriptor
<1>24. CASE RdrNotify
    BY <1>24 DEF RdrNotify, SendEvent, Events
<1>25. CASE UNCHANGED vars
    BY <1>25 DEF vars
<1>26. QED
    BY <1>1, <1>2, <1>3, <1>4, <1>5, <1>6, <1>7, <1>8, <1>9, <1>10, <1>11,
       <1>12, <1>13, <1>14, <1>15, <1>16, <1>17, <1>18, <1>19, <1>20, <1>21,
       <1>22, <1>23, <1>24, <1>25 DEF Next, MainCall, MainLoop, RdrStep,
       Terminated

\* Every step preserves the ownership of cm_command_mutex.
LEMMA LockStep == TypeOK /\ LockInv /\ [Next]_vars => LockInv'
<1> SUFFICES ASSUME TypeOK, LockInv, [Next]_vars PROVE LockInv'
    OBVIOUS
<1> USE DEF LockInv, Sending, mainVars, rdrVars
<1>1. ASSUME NEW k \in Kinds, BeginCall(k) PROVE LockInv'
    BY <1>1 DEF BeginCall, NextTid, MaxTid
<1>2. CASE MainReady
    BY <1>2 DEF MainReady
<1>3. CASE SendCheck
    BY <1>3 DEF SendCheck, SendFails, Finish, Unlock
<1>4. CASE SendPoll
    BY <1>4 DEF SendPoll, SendFails, StartWait, Finish, Unlock
<1>5. CASE SendWrite
    BY <1>5 DEF SendWrite, SendFails, StartWait, Finish, Unlock
<1>6. CASE WaitEnds
    BY <1>6 DEF WaitEnds
<1>7. CASE ExpiredRelock
    BY <1>7 DEF ExpiredRelock, MoreSlices, Finish
<1>8. CASE WokenRelock
    BY <1>8 DEF WokenRelock, Finish
<1>9. CASE CallerFrees
    BY <1>9 DEF CallerFrees
<1>10. CASE MainEvent
    BY <1>10 DEF MainEvent
<1>11. CASE MainStop
    BY <1>11 DEF MainStop
<1>12. CASE MainJoin
    BY <1>12 DEF MainJoin
<1>13. CASE SignalStop
    BY <1>13 DEF SignalStop
<1>14. CASE RdrOpen
    BY <1>14 DEF RdrOpen
<1>15. CASE RdrAnnounce
    BY <1>15 DEF RdrAnnounce, SendEvent
<1>16. CASE RdrControl
    BY <1>16 DEF RdrControl
<1>17. CASE RdrRead
    BY <1>17 DEF RdrRead, Ind
<1>18. CASE RdrHup
    BY <1>18 DEF RdrHup
<1>19. CASE RdrIdle
    BY <1>19 DEF RdrIdle
<1>20. CASE RdrRecv
    BY <1>20 DEF RdrRecv, Accept, Signal
<1>21. CASE RdrEvent
    BY <1>21 DEF RdrEvent, SendEvent, Unlock
<1>22. CASE RdrAbort
    BY <1>22 DEF RdrAbort, Forget, Signal
<1>23. CASE RdrClose
    BY <1>23 DEF RdrClose, NoDescriptor
<1>24. CASE RdrNotify
    BY <1>24 DEF RdrNotify, SendEvent
<1>25. CASE UNCHANGED vars
    BY <1>25 DEF vars
<1>26. QED
    BY <1>1, <1>2, <1>3, <1>4, <1>5, <1>6, <1>7, <1>8, <1>9, <1>10, <1>11,
       <1>12, <1>13, <1>14, <1>15, <1>16, <1>17, <1>18, <1>19, <1>20, <1>21,
       <1>22, <1>23, <1>24, <1>25 DEF Next, MainCall, MainLoop, RdrStep,
       Terminated

\* Every step preserves what is known of s_pRequest and s_pResponse.
LEMMA CellStep == IInv /\ [Next]_vars => CellInv'
<1> SUFFICES ASSUME IInv, [Next]_vars PROVE CellInv'
    OBVIOUS
<1> USE DEF IInv, TypeOK, CellInv, InWait, Sending, NoDanglingPointer, Busy, mainVars, callVars, cellVars
<1>1. ASSUME NEW k \in Kinds, BeginCall(k) PROVE CellInv'
  <2>1. req'.kind = k /\ req'.serial = req.serial + 1 /\ req.serial \in Nat
      BY <1>1 DEF BeginCall, Message
  <2>2. req' # NoMsg /\ req'.serial > 0
      BY <2>1 DEF NoMsg, Kinds
  <2>3. QED
      BY <1>1, <2>1, <2>2 DEF BeginCall
<1>2. CASE MainReady
    BY <1>2 DEF MainReady
<1>3. CASE SendCheck
    BY <1>3 DEF SendCheck, SendFails, Finish, Unlock
<1>4. CASE SendPoll
    BY <1>4 DEF SendPoll, SendFails, StartWait, Finish, Unlock
<1>5. CASE SendWrite
    BY <1>5 DEF SendWrite, SendFails, StartWait, Finish, Unlock
<1>6. CASE WaitEnds
    BY <1>6 DEF WaitEnds
<1>7. CASE ExpiredRelock
    BY <1>7 DEF ExpiredRelock, MoreSlices, Finish
<1>8. CASE WokenRelock
    BY <1>8 DEF WokenRelock, Finish
<1>9. CASE CallerFrees
    BY <1>9 DEF CallerFrees
<1>10. CASE MainEvent
    BY <1>10 DEF MainEvent
<1>11. CASE MainStop
    BY <1>11 DEF MainStop
<1>12. CASE MainJoin
    BY <1>12 DEF MainJoin
<1>13. CASE SignalStop
    BY <1>13 DEF SignalStop
<1>14. CASE RdrOpen
    BY <1>14 DEF RdrOpen
<1>15. CASE RdrAnnounce
    BY <1>15 DEF RdrAnnounce, SendEvent
<1>16. CASE RdrControl
    BY <1>16 DEF RdrControl
<1>17. CASE RdrRead
    BY <1>17 DEF RdrRead, Ind
<1>18. CASE RdrHup
    BY <1>18 DEF RdrHup
<1>19. CASE RdrIdle
    BY <1>19 DEF RdrIdle
<1>20. CASE RdrRecv
  <2>1. CASE Accept /\ sReq # NoMsg /\ is_response(sReq, msg)
    <3>1. msg = req /\ sReq = req
        BY <2>1 DEF WindowInv
    <3>2. sReq' = NoMsg /\ sRsp' = req' /\ req' = req
        BY <1>20, <2>1, <3>1 DEF RdrRecv, Accept
    <3>3. NoDanglingPointer'
        BY <1>20, <2>1, <3>1, <3>2 DEF RdrRecv, Accept, Signal
    <3>4. ~Sending' /\ (InWait' => missed')
        BY <1>20, <2>1 DEF LockInv, RdrRecv, Accept, Signal
    <3>5. QED
        BY <3>2, <3>3, <3>4
  <2>2. CASE UNCHANGED <<cellVars, main, missed>>
      BY <1>20, <2>2 DEF RdrRecv
  <2>3. QED
      BY <1>20, <2>1, <2>2 DEF RdrRecv
<1>21. CASE RdrEvent
    BY <1>21 DEF RdrEvent, SendEvent, Unlock
<1>22. CASE RdrAbort
  <2>1. CASE sReq # NoMsg
    <3>1. sReq' = NoMsg /\ sRsp' = NoMsg /\ sReq = req /\ req' = req
        BY <1>22, <2>1 DEF RdrAbort, Forget
    <3>2. NoDanglingPointer'
        BY <1>22, <2>1, <3>1 DEF RdrAbort, Forget, Signal
    <3>3. ~Sending' /\ (InWait' => missed')
        BY <1>22, <2>1 DEF LockInv, RdrAbort, Signal
    <3>4. QED
        BY <3>1, <3>2, <3>3
  <2>2. CASE sReq = NoMsg
      BY <1>22, <2>2 DEF RdrAbort, Forget
  <2>3. QED
      BY <2>1, <2>2
<1>23. CASE RdrClose
    BY <1>23 DEF RdrClose, NoDescriptor
<1>24. CASE RdrNotify
    BY <1>24 DEF RdrNotify, SendEvent
<1>25. CASE UNCHANGED vars
    BY <1>25 DEF vars
<1>26. QED
    BY <1>1, <1>2, <1>3, <1>4, <1>5, <1>6, <1>7, <1>8, <1>9, <1>10, <1>11,
       <1>12, <1>13, <1>14, <1>15, <1>16, <1>17, <1>18, <1>19, <1>20, <1>21,
       <1>22, <1>23, <1>24, <1>25 DEF Next, MainCall, MainLoop, RdrStep,
       Terminated

\* Every step keeps the answers the modem owes apart from one another.
LEMMA WindowStep == IInv /\ [Next]_vars => WindowInv'
<1> SUFFICES ASSUME IInv, [Next]_vars PROVE WindowInv'
    OBVIOUS
<1>0. is_response(req, NoMsg) => req = NoMsg
    BY DEF IInv, WindowInv, is_response, NoMsg, Kinds
<1> USE DEF IInv, WindowInv
<1>1. ASSUME NEW k \in Kinds, BeginCall(k) PROVE WindowInv'
  <2>1. req'.kind = k /\ req'.tid = NextTid(k) /\ UNCHANGED <<pending, msg>>
      BY <1>1 DEF BeginCall, modemVars, rdrVars
  <2>2. NotLapped(k, NextTid(k))
      BY <1>1 DEF BeginCall
  <2>3. QED
      BY <2>1, <2>2 DEF NotLapped, is_response
<1>2. CASE SendWrite
  <2>1. req.kind \in Kinds /\ UNCHANGED <<req, msg>>
      BY <1>2 DEF SendWrite, CellInv, Sending, callVars, rdrVars
  <2>2. pending' \subseteq pending \cup {req}
      BY <1>2 DEF SendWrite, SendFails
  <2>3. QED
      BY <2>1, <2>2 DEF is_response
<1>3. CASE RdrRead
  <2>1. UNCHANGED req /\ pending' \subseteq pending
      BY <1>3 DEF RdrRead, callVars
  <2>2. CASE msg' \in pending
      BY <2>1, <2>2 DEF is_response
  <2>3. CASE msg' \in {Ind(e) : e \in Indications}
    <3>1. msg'.kind \in Indications
        BY <2>3 DEF Ind
    <3>2. ~is_response(req, msg')
        BY <3>1 DEF is_response, NoMsg, Kinds, Indications
    <3>3. QED
        BY <2>1, <3>2 DEF is_response
  <2>4. QED
      BY <1>3, <2>2, <2>3 DEF RdrRead
<1>4. CASE UNCHANGED <<req, pending>> /\ msg' \in {msg, NoMsg}
    BY <1>0, <1>4 DEF is_response
<1>5. QED
    BY <1>1, <1>2, <1>3, <1>4 DEF Next, MainCall, MainLoop, RdrStep, Terminated, vars,
       callVars, rdrVars, modemVars, MainReady, SendCheck, SendFails, SendPoll, StartWait,
       WaitEnds, ExpiredRelock, WokenRelock, CallerFrees, MainEvent, MainStop, MainJoin,
       SignalStop, RdrOpen, RdrAnnounce, RdrControl, RdrHup, RdrIdle, RdrRecv, RdrEvent,
       RdrAbort, RdrClose, RdrNotify

\* Every step preserves what is known of the reader's life.
LEMMA ReaderStep == IInv /\ [Next]_vars => ReaderInv'
<1> SUFFICES ASSUME IInv, [Next]_vars PROVE ReaderInv'
    OBVIOUS
<1> USE DEF IInv, TypeOK, LockInv, CellInv, ReaderInv, InWait, Sending, mainVars, cellVars, rdrVars
<1>1. ASSUME NEW k \in Kinds, BeginCall(k) PROVE ReaderInv'
    BY <1>1 DEF BeginCall, NextTid, MaxTid
<1>2. CASE MainReady
    BY <1>2 DEF MainReady
<1>3. CASE SendCheck
    BY <1>3 DEF SendCheck, SendFails, Finish, Unlock
<1>4. CASE SendPoll
    BY <1>4 DEF SendPoll, SendFails, StartWait, Finish, Unlock
<1>5. CASE SendWrite
    BY <1>5 DEF SendWrite, SendFails, StartWait, Finish, Unlock
<1>6. CASE WaitEnds
    BY <1>6 DEF WaitEnds
<1>7. CASE ExpiredRelock
    BY <1>7 DEF ExpiredRelock, MoreSlices, Finish
<1>8. CASE WokenRelock
    BY <1>8 DEF WokenRelock, Finish
<1>9. CASE CallerFrees
    BY <1>9 DEF CallerFrees
<1>10. CASE MainEvent
    BY <1>10 DEF MainEvent
<1>11. CASE MainStop
    BY <1>11 DEF MainStop
<1>12. CASE MainJoin
    BY <1>12 DEF MainJoin
<1>13. CASE SignalStop
    BY <1>13 DEF SignalStop
<1>14. CASE RdrOpen
    BY <1>14 DEF RdrOpen
<1>15. CASE RdrAnnounce
    BY <1>15 DEF RdrAnnounce, SendEvent
<1>16. CASE RdrControl
    BY <1>16 DEF RdrControl
<1>17. CASE RdrRead
    BY <1>17 DEF RdrRead, Ind
<1>18. CASE RdrHup
    BY <1>18 DEF RdrHup
<1>19. CASE RdrIdle
    BY <1>19 DEF RdrIdle
<1>20. CASE RdrRecv
    BY <1>20 DEF RdrRecv, Accept, Signal
<1>21. CASE RdrEvent
    BY <1>21 DEF RdrEvent, SendEvent, Unlock
<1>22. CASE RdrAbort
    BY <1>22 DEF RdrAbort, Forget, Signal
<1>23. CASE RdrClose
    BY <1>23 DEF RdrClose, NoDescriptor
<1>24. CASE RdrNotify
    BY <1>24 DEF RdrNotify, SendEvent
<1>25. CASE UNCHANGED vars
    BY <1>25 DEF vars
<1>26. QED
    BY <1>1, <1>2, <1>3, <1>4, <1>5, <1>6, <1>7, <1>8, <1>9, <1>10, <1>11,
       <1>12, <1>13, <1>14, <1>15, <1>16, <1>17, <1>18, <1>19, <1>20, <1>21,
       <1>22, <1>23, <1>24, <1>25 DEF Next, MainCall, MainLoop, RdrStep,
       Terminated

-----------------------------------------------------------------------------
\* The inductive invariant holds in every reachable state.
THEOREM Inductive == Spec => []IInv
<1>1. IInv /\ [Next]_vars => IInv'
    BY TypeStep, LockStep, CellStep, WindowStep, ReaderStep DEF IInv
<1>2. QED
    BY InitIInv, <1>1, PTL DEF Spec

\* Every variable keeps its type.
THEOREM TypeCorrect == Spec => []TypeOK
<1>1. IInv => TypeOK
    BY DEF IInv
<1>2. QED
    BY Inductive, <1>1, PTL

\* Neither thread of quectel-CM follows s_pRequest or s_pResponse into a buffer
\* that the other, or the caller, has freed.
THEOREM PointersLive == Spec => []NoDanglingPointer
<1>1. IInv => NoDanglingPointer
    BY DEF IInv, CellInv
<1>2. QED
    BY Inductive, <1>1, PTL

\* QmiWwanThread's last QmiThreadRecvQMI(NULL) finds and releases the blocked
\* caller, unless the caller was between two timed waits when it signalled.
THEOREM ExitReleases == Spec => []ReaderExitReleasesCall
<1>1. IInv => ReaderExitReleasesCall
    BY DEF IInv, CellInv, ReaderInv, ReaderExitReleasesCall, InWait
<1>2. QED
    BY Inductive, <1>1, PTL

\* An answer that was accepted while its call was in progress is what the call
\* returns, whatever aborts and timeouts happen before main runs again.
THEOREM AnswerReturned == Spec => AcceptedAnswerIsReturned
<1> DEFINE Kept == sRsp # NoMsg /\ Busy /\ ~missed /\ (sRsp' # sRsp \/ ~Busy')
                      => outcome'.status = "ok"
<1>1. IInv /\ [Next]_vars => [Kept]_vars
  <2> SUFFICES ASSUME IInv, Next, sRsp # NoMsg, Busy, ~missed, sRsp' # sRsp \/ ~Busy'
               PROVE outcome'.status = "ok"
      OBVIOUS
  <2>1. sReq = NoMsg /\ main = "woken"
      BY DEF IInv, CellInv, InWait, Sending, Busy
  <2>2. CASE WokenRelock
      BY <2>2 DEF WokenRelock, Finish
  <2>3. CASE UNCHANGED <<sRsp, main>>
      BY <2>3 DEF Busy
  <2>4. QED
      BY <2>1, <2>2, <2>3 DEF Next, MainCall, MainLoop, RdrStep, Terminated, BeginCall,
         MainReady, SendCheck, SendPoll, SendWrite, WaitEnds, ExpiredRelock, CallerFrees,
         MainEvent, MainStop, MainJoin, SignalStop, RdrOpen, RdrAnnounce, RdrControl,
         RdrRead, RdrHup, RdrIdle, RdrRecv, Accept, Signal, RdrEvent, RdrAbort, Forget,
         RdrClose, RdrNotify, vars, mainVars, cellVars
<1>2. QED
    BY Inductive, <1>1, PTL DEF Spec, AcceptedAnswerIsReturned
\* The detailed specification implements QmiCall: a call that returns an answer
\* returns the answer to itself, in spite of late answers and wrapping ids.
THEOREM Refinement == Spec => RefinesQmiCall
<1>1. Init => Abs!Init
    BY DEF Init, Abs!Init, Busy, NoMsg
<1>2. IInv /\ [Next]_vars => [Abs!Next]_(Abs!vars)
  <2> SUFFICES ASSUME IInv, [Next]_vars PROVE [Abs!Next]_(Abs!vars)
      OBVIOUS
  <2> USE DEF IInv, CellInv, InWait, Sending, Busy, Abs!Next, Abs!vars
  <2>1. ASSUME NEW k \in Kinds, BeginCall(k) PROVE Abs!Begin
      BY <2>1 DEF BeginCall, Abs!Begin
  <2>2. CASE SendCheck
      BY <2>2 DEF SendCheck, SendFails, Finish, Abs!Return, callVars, cellVars
  <2>3. CASE SendPoll
      BY <2>3 DEF SendPoll, SendFails, StartWait, Finish, Abs!Return, callVars, cellVars
  <2>4. CASE SendWrite
      BY <2>4 DEF SendWrite, SendFails, StartWait, Finish, Abs!Return, callVars, cellVars
  <2>5. CASE ExpiredRelock
      BY <2>5 DEF ExpiredRelock, Finish, Abs!Return, callVars, cellVars
  <2>6. CASE WokenRelock
    <3>1. Busy /\ ~Busy' /\ req' = req
        BY <2>6 DEF WokenRelock, callVars
    <3>2. outcome'.rsp \in IF sRsp # NoMsg THEN {0, req.serial} ELSE {0}
        BY <2>6 DEF WokenRelock, Finish
    <3>3. sRsp' = sRsp \/ sRsp' = NoMsg
        BY <2>6 DEF WokenRelock
    <3>4. QED
        BY <3>1, <3>2, <3>3 DEF Abs!Return
  <2>7. CASE RdrRecv
    <3>1. CASE Accept /\ sReq # NoMsg /\ is_response(sReq, msg)
      <4>1. msg = req /\ req # NoMsg /\ sRsp = NoMsg /\ req.serial > 0
          BY <3>1 DEF WindowInv
      <4>2. QED
          BY <2>7, <3>1, <4>1 DEF RdrRecv, Accept, Signal, Abs!Answer, callVars
    <3>2. CASE UNCHANGED <<cellVars, main, missed>>
        BY <2>7, <3>2 DEF RdrRecv, callVars, cellVars
    <3>3. QED
        BY <2>7, <3>1, <3>2 DEF RdrRecv
  <2>8. CASE RdrAbort
      BY <2>8 DEF RdrAbort, Forget, Signal, callVars, cellVars
  <2>9. CASE UNCHANGED <<outcome, req, sRsp>> /\ Busy' = Busy
      BY <2>9
  <2>10. QED
      BY <2>1, <2>2, <2>3, <2>4, <2>5, <2>6, <2>7, <2>8, <2>9
      DEF Next, MainCall, MainLoop, RdrStep, Terminated, MainReady, WaitEnds, CallerFrees,
          MainEvent, MainStop, MainJoin, SignalStop, RdrOpen, RdrAnnounce, RdrControl,
          RdrRead, RdrHup, RdrIdle, RdrEvent, RdrClose, RdrNotify, vars, mainVars, callVars,
          cellVars
<1>3. QED
    BY Inductive, <1>1, <1>2, PTL DEF Spec, RefinesQmiCall, Abs!Spec

=============================================================================
