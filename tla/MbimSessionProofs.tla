-------------------------- MODULE MbimSessionProofs --------------------------
(***************************************************************************)
(* Proofs about MbimSession, for every range of transaction ids, number of *)
(* tries and bound: its types, and that a response main finds is that of   *)
(* the request it waits for.                                               *)
(***************************************************************************)
EXTENDS MbimSession, SequenceTheorems, FiniteSetTheorems, TLAPS

\* Main waits in a request only, and there is a try left when it opens the device.
WaitInv ==
    /\ tries = OpenTries => at = "failed"
    /\ at \in {"waiting", "woken"} => todo # <<>> /\ Head(todo) \in Requests
    /\ IsFiniteSet(pend)

\* What can be taken for an answer to the request is one: mbim_recv_command compares
\* ids, and the id of an older request is not used again before its answer has gone.
OwnInv ==
    /\ sReq # 0
    /\ \A i \in 1..Len(rx) : /\ rx[i].tid = sReq => rx[i].own
                             /\ rx[i].kind \in Indications => rx[i].tid = 0
    /\ \A p \in pend : p.tid # 0 /\ (p.tid = sReq => p.own)
    /\ AnswerIsOwn

IInv == WaitInv /\ OwnInv

-----------------------------------------------------------------------------
\* Sequences: what is left to do, and steps put before it.
LEMMA TodoType ==
    ASSUME todo \in Seq(Steps), todo # <<>>, NEW s \in Seq(Steps)
    PROVE  s \o Tail(todo) \in Seq(Steps)
  BY HeadTailProperties, ConcatProperties

LEMMA IfType ==
    ASSUME NEW T, NEW x \in T, NEW c \in BOOLEAN
    PROVE  If(c, <<x>>) \in Seq(T)
  BY DEF If

LEMMA InitInv == Init => TypeOK /\ IInv
<1> SUFFICES ASSUME Init PROVE TypeOK /\ IInv
    OBVIOUS
<1> USE MbimAssumption DEF Init
<1>1. NoMsg \in Message
    BY DEF NoMsg, Message
<1>2. todo \in Seq(Steps)
    BY DEF Steps, Requests
<1>3. IsFiniteSet(pend) /\ Cardinality(pend) <= MaxPend
    BY FS_EmptySet
<1>4. TypeOK
    <2>1. /\ tid \in 0..MaxTid /\ sReq \in 0..NoReq /\ tries \in 0..OpenTries /\ events \in 0..MaxEvents
          /\ Len(rx) <= MaxRx /\ pend \subseteq Pending
        BY DEF NoReq
    <2>2. /\ status = "unknown" /\ act = "unknown" /\ at = "run" /\ rdr = "run"
          /\ net \in {"none", "registered", "attached", "unplugged"}
          /\ sigq \in Seq({"START", "CHECK", "STOP"}) /\ evq \in Seq({"gone", "network", "datacall"})
          /\ rx \in Seq(Message) /\ ctl \subseteq {"stop", "quit"}
        OBVIOUS
    <2>3. /\ registered \in BOOLEAN /\ packet \in BOOLEAN /\ attached \in BOOLEAN /\ addr \in BOOLEAN
          /\ link \in BOOLEAN /\ wait \in BOOLEAN /\ alarm \in BOOLEAN /\ stopping \in BOOLEAN
          /\ stop \in BOOLEAN /\ up \in BOOLEAN
        OBVIOUS
    <2>4. QED
        BY <1>1, <1>2, <1>3, <2>1, <2>2, <2>3, Zenon DEF TypeOK
<1>5. IInv
    BY <1>3 DEF IInv, WaitInv, OwnInv, AnswerIsOwn, NoReq
<1>6. QED
    BY <1>4, <1>5

-----------------------------------------------------------------------------
\* What a caller makes of a result.
Results == {r \in [ok : BOOLEAN, timeout : BOOLEAN, val : BOOLEAN] : ~(r.ok /\ r.timeout)}

Returned ==
    /\ at' \in {"run", "failed"} /\ todo' \in Seq(Steps)
    /\ tries' \in 0..OpenTries /\ (tries' = OpenTries => at' = "failed")
    /\ status' \in {"unknown", "connected", "disconnected"} /\ act' \in {"unknown", "on", "off"}
    /\ registered' \in BOOLEAN /\ packet' \in BOOLEAN /\ attached' \in BOOLEAN /\ addr' \in BOOLEAN

LEMMA ReturnsType ==
    ASSUME TypeOK, todo # <<>>, tries # OpenTries, NEW k, NEW r \in Results, Returns(k, r)
    PROVE  Returned
<1> USE MbimAssumption
<1>1. todo \in Seq(Steps) /\ <<>> \in Seq(Steps) /\ tries \in 0..(OpenTries - 1)
    BY DEF TypeOK
<1>2. r.ok \in BOOLEAN /\ r.timeout \in BOOLEAN /\ r.val \in BOOLEAN /\ ~(r.ok /\ r.timeout)
    BY DEF Results
<1>3. ASSUME NEW s \in Steps, NEW c \in BOOLEAN, First(If(c, <<s>>)) PROVE todo' \in Seq(Steps)
    BY <1>1, <1>3, IfType, TodoType DEF First
<1>4. First(<<>>) => todo' \in Seq(Steps)
    BY <1>1, TodoType DEF First
<1>5. {"open", "ps", "attach", "ip", "addr"} \subseteq Steps
    BY DEF Steps, Requests
<1>6. /\ status \in {"unknown", "connected", "disconnected"} /\ act \in {"unknown", "on", "off"}
      /\ registered \in BOOLEAN /\ packet \in BOOLEAN /\ attached \in BOOLEAN /\ addr \in BOOLEAN
    BY DEF TypeOK
<1>7. CASE Opened(r)
    <2>1. todo' \in Seq(Steps)
        <3>1. If(~r.ok, <<"open">>) \in Seq(Steps)
            BY <1>5 DEF If
        <3>2. QED
            BY <1>1, <1>7, <3>1, TodoType DEF Opened, First
    <2>2. tries' \in 0..OpenTries /\ (tries' = OpenTries => at' = "failed") /\ at' \in {"run", "failed"}
        BY <1>1, <1>2, <1>7 DEF Opened
    <2>3. QED
        BY <1>6, <1>7, <2>1, <2>2 DEF Opened, Returned, knownVars
<1>8. CASE RadioSet(r) \/ Closed(r)
    BY <1>1, <1>4, <1>6, <1>8 DEF RadioSet, Closed, Returned, stateVars, knownVars
<1>9. CASE RegisterQueried(r)
    <2>1. attached' \in BOOLEAN /\ registered' \in BOOLEAN
        BY <1>2, <1>6, <1>9 DEF RegisterQueried
    <2>2. todo' \in Seq(Steps)
        BY <1>3, <1>5, <1>9, <2>1 DEF RegisterQueried
    <2>3. QED
        BY <1>1, <1>6, <1>9, <2>1, <2>2 DEF RegisterQueried, Returned
<1>10. CASE PacketQueried(r)
    <2>1. attached' \in BOOLEAN /\ packet' \in BOOLEAN
        BY <1>2, <1>6, <1>10 DEF PacketQueried
    <2>2. todo' \in Seq(Steps)
        BY <1>3, <1>5, <1>10, <2>1 DEF PacketQueried
    <2>3. QED
        BY <1>1, <1>6, <1>10, <2>1, <2>2 DEF PacketQueried, Returned
<1>11. CASE PacketSet(r)
    <2>1. packet' \in BOOLEAN
        BY <1>2, <1>6, <1>11 DEF PacketSet
    <2>2. QED
        BY <1>1, <1>4, <1>6, <1>11, <2>1 DEF PacketSet, Returned
<1>12. Activation(r) => act' \in {"unknown", "on", "off"}
    BY <1>6 DEF Activation
<1>13. CASE ConnectSet(r)
    <2>1. todo' \in Seq(Steps)
        BY <1>2, <1>3, <1>5, <1>13 DEF ConnectSet
    <2>2. QED
        BY <1>1, <1>6, <1>12, <1>13, <2>1 DEF ConnectSet, Returned
<1>14. CASE Addressed(r)
    BY <1>1, <1>2, <1>4, <1>6, <1>14 DEF Addressed, Returned, knownVars
<1>15. CASE ConnectQueried(r)
    <2>1. todo' \in Seq(Steps)
        BY <1>2, <1>3, <1>5, <1>6, <1>15 DEF ConnectQueried
    <2>2. QED
        BY <1>1, <1>6, <1>12, <1>15, <2>1 DEF ConnectQueried, Returned
<1>16. CASE AddressFetched(r)
    BY <1>1, <1>2, <1>4, <1>6, <1>16 DEF AddressFetched, Returned, knownVars
<1>17. CASE Deactivated(r)
    BY <1>1, <1>4, <1>6, <1>12, <1>17 DEF Deactivated, Returned
<1>18. QED
    BY <1>7, <1>8, <1>9, <1>10, <1>11, <1>13, <1>14, <1>15, <1>16, <1>17 DEF Returns

LEMMA FailedTypes ==
    /\ Failed \in Results /\ TimedOut \in Results
    /\ \A o, v \in BOOLEAN : Result(o, FALSE, v) \in Results
  BY DEF Failed, TimedOut, Result, Results

-----------------------------------------------------------------------------
\* The request that is sent has an id of its own.
LEMMA NextTidType ==
    ASSUME TypeOK
    PROVE  NextTid(tid) \in 1..MaxTid
  BY MbimAssumption DEF TypeOK, NextTid

LEMMA SendPend ==
    ASSUME TypeOK, IsFiniteSet(pend), NEW t \in 1..MaxTid, NEW k \in Requests, NEW old \in Kept(t),
           pend' = {NotOwn(p) : p \in old} \cup {[tid |-> t, kind |-> k, own |-> TRUE]}
    PROVE  /\ pend' \subseteq Pending /\ IsFiniteSet(pend') /\ Cardinality(pend') <= MaxPend
           /\ \A p \in pend' : \/ p.tid = t /\ p.own
                               \/ \E q \in pend : p.tid = q.tid /\ q.tid # t
<1> DEFINE others == {p \in pend : p.tid # t}
           S == {NotOwn(p) : p \in old}
           x == [tid |-> t, kind |-> k, own |-> TRUE]
           f == [p \in old |-> NotOwn(p)]
<1>1. /\ old \subseteq others /\ pend \subseteq Pending
      /\ Cardinality(old) = Lesser(Cardinality(others), MaxPend - 1)
    BY DEF Kept, TypeOK
<1>2. IsFiniteSet(others) /\ IsFiniteSet(old)
    BY <1>1, FS_Subset
<1>3. Cardinality(others) \in Nat /\ Cardinality(old) \in Nat
    BY <1>2, FS_CardinalityType
<1>4. Cardinality(old) <= MaxPend - 1
    BY <1>1, <1>3, MbimAssumption DEF Lesser
<1>5. IsFiniteSet(S) /\ Cardinality(S) <= Cardinality(old)
    <2>1. f \in Surjection(old, S)
        BY DEF Surjection
    <2> HIDE DEF f, S
    <2>2. QED
        BY <1>2, <2>1, FS_Surjection
<1>6. \A p \in others : NotOwn(p) \in Pending /\ NotOwn(p).tid = p.tid
    BY <1>1, MbimAssumption DEF Pending, NotOwn
<1>7. x \in Pending /\ x.tid = t /\ x.own
    BY MbimAssumption DEF Pending
<1>8. S \subseteq Pending /\ \A p \in S : \E q \in pend : p.tid = q.tid /\ q.tid # t
    BY <1>1, <1>6
<1> HIDE DEF S, x
<1>9. pend' = S \cup {x}
    BY DEF S, x
<1>10. /\ IsFiniteSet(pend')
       /\ Cardinality(pend') = IF x \in S THEN Cardinality(S) ELSE Cardinality(S) + 1
    BY <1>5, <1>9, FS_AddElement
<1>11. Cardinality(S) \in Nat
    BY <1>5, FS_CardinalityType
<1>12. Cardinality(pend') <= MaxPend
    BY <1>3, <1>4, <1>5, <1>10, <1>11, MbimAssumption
<1>13. QED
    BY <1>7, <1>8, <1>9, <1>10, <1>12

LEMMA SendStep ==
    ASSUME TypeOK, IInv, Send
    PROVE  TypeOK' /\ IInv'
<1> DEFINE t == NextTid(tid)
<1>1. t \in 1..MaxTid /\ tid' = t /\ at = "run" /\ tries # OpenTries /\ todo # <<>>
    BY NextTidType DEF Send, IInv, WaitInv
<1>2. UNCHANGED <<link, timeVars, queues, readerVars, ctl, stop, net, up, events>>
    BY DEF Send
<1>3. CASE rdr # "run"
    <2>1. Returned /\ UNCHANGED <<sReq, sRsp, pend, rx>>
        BY <1>1, <1>3, ReturnsType, FailedTypes DEF Send
    <2>2. TypeOK'
        BY <1>1, <1>2, <2>1
           DEF TypeOK, Returned, timeVars, queues, readerVars
    <2>3. IInv'
        BY <2>1 DEF IInv, WaitInv, OwnInv, AnswerIsOwn, Returned
    <2>4. QED
        BY <2>2, <2>3
<1>4. CASE rdr = "run"
    <2>1. /\ at' = "waiting" /\ sReq' = t /\ sRsp' = NoMsg /\ UNCHANGED <<todo, stateVars>>
          /\ rx' = [i \in 1..Len(rx) |-> NotOwn(rx[i])]
        BY <1>1, <1>4 DEF Send
    <2>2. PICK old \in Kept(t) :
            pend' = {NotOwn(p) : p \in old} \cup {[tid |-> t, kind |-> Head(todo), own |-> TRUE]}
        BY <1>1, <1>4 DEF Send
    <2>3. /\ pend' \subseteq Pending /\ IsFiniteSet(pend') /\ Cardinality(pend') <= MaxPend
          /\ \A p \in pend' : \/ p.tid = t /\ p.own
                              \/ \E q \in pend : p.tid = q.tid /\ q.tid # t
        <3>1. Head(todo) \in Requests /\ IsFiniteSet(pend)
            BY DEF Send, IInv, WaitInv
        <3>2. QED
            BY <1>1, <2>2, <3>1, SendPend
    <2>4. /\ rx' \in Seq(Message) /\ Len(rx') = Len(rx)
          /\ \A i \in 1..Len(rx) : rx'[i].tid = rx[i].tid /\ rx'[i].kind = rx[i].kind
        <3>1. \A m \in Message : NotOwn(m) \in Message /\ NotOwn(m).tid = m.tid /\ NotOwn(m).kind = m.kind
            BY DEF Message, NotOwn
        <3>2. rx \in Seq(Message)
            BY DEF TypeOK
        <3>3. \A i \in 1..Len(rx) : NotOwn(rx[i]) \in Message /\ NotOwn(rx[i]).tid = rx[i].tid
                                    /\ NotOwn(rx[i]).kind = rx[i].kind
            BY <3>1, <3>2
        <3>4. QED
            BY <2>1, <3>2, <3>3
    <2>5. NoMsg \in Message /\ t \in 0..NoReq /\ t # 0
        BY <1>1, MbimAssumption DEF NoMsg, Message, NoReq
    <2>6. TypeOK'
        BY <1>1, <1>2, <2>1, <2>3, <2>4, <2>5
           DEF TypeOK, stateVars, knownVars, timeVars, queues, readerVars
    <2>7. WaitInv'
        BY <1>1, <2>1, <2>3 DEF Send, IInv, WaitInv, stateVars
    <2>8. \A i \in 1..Len(rx') : /\ rx'[i].tid # t
                                 /\ rx'[i].kind \in Indications => rx'[i].tid = 0
        BY <2>4, <2>5 DEF Send, Apart, IInv, OwnInv
    <2>9. \A p \in pend' : p.tid # 0 /\ (p.tid = t => p.own)
        BY <2>3, <2>5 DEF IInv, OwnInv
    <2>10. QED
        BY <2>1, <2>5, <2>6, <2>7, <2>8, <2>9 DEF IInv, OwnInv, AnswerIsOwn
<1>5. QED
    BY <1>3, <1>4

LEMMA EndStep ==
    ASSUME TypeOK, IInv, GiveUp \/ Woken
    PROVE  TypeOK' /\ IInv'
<1>1. /\ at \in {"waiting", "woken"} /\ tries # OpenTries /\ todo # <<>>
      /\ \E r \in Results : Ends(r)
    <2>1. sRsp.ok \in BOOLEAN /\ sRsp.val \in BOOLEAN
        BY DEF TypeOK, Message
    <2>2. (IF sRsp = NoMsg THEN Failed ELSE Result(sRsp.ok, FALSE, sRsp.val)) \in Results
        BY <2>1, FailedTypes
    <2>3. QED
        BY <2>2, FailedTypes DEF GiveUp, Woken, IInv, WaitInv
<1>2. /\ Returned /\ sReq' = NoReq /\ sRsp' = NoMsg
      /\ UNCHANGED <<tid, link, timeVars, queues, readerVars, ctl, stop, modemVars>>
    BY <1>1, ReturnsType DEF Ends
<1>3. NoMsg \in Message /\ NoReq \in 0..NoReq /\ NoReq # 0 /\ NoReq \notin 0..MaxTid
    BY MbimAssumption DEF NoMsg, Message, NoReq
<1>4. TypeOK'
    BY <1>2, <1>3 DEF TypeOK, Returned, timeVars, queues, readerVars, modemVars
<1>5. WaitInv'
    BY <1>2 DEF IInv, WaitInv, Returned, modemVars
<1>6. \A i \in 1..Len(rx) : rx[i].tid # NoReq
    <2>1. \A i \in 1..Len(rx) : rx[i] \in Message
        BY DEF TypeOK
    <2>2. QED
        BY <1>3, <2>1 DEF Message
<1>7. \A p \in pend : p.tid # NoReq
    BY <1>3 DEF TypeOK, Pending
<1>8. OwnInv'
    BY <1>2, <1>3, <1>6, <1>7 DEF IInv, OwnInv, AnswerIsOwn, modemVars
<1>9. QED
    BY <1>4, <1>5, <1>8 DEF IInv

-----------------------------------------------------------------------------
\* qmi_main between its requests: calls and the modem are left alone.
LEMMA HandlerStep ==
    ASSUME TypeOK, IInv, Poll \/ PollTimeout \/ Handlers \/ Joined
    PROVE  TypeOK' /\ IInv'
<1>1. /\ Local /\ at' \in {"run", "joining", "exited"}
      /\ tries # OpenTries
    BY DEF Poll, PollTimeout, Handlers, Joined, Ready, Start, Check, Stop, Started, Checked,
           Unlink, Quit, Disconnected, NetworkChanged, NetworkKnown, DataCallChanged, Doing,
           Signo, Event, IInv, WaitInv
<1>2. IInv'
    BY <1>1 DEF IInv, WaitInv, OwnInv, AnswerIsOwn, Local, callVars, modemVars
<1>3. /\ todo \in Seq(Steps) /\ <<>> \in Seq(Steps) /\ attached \in BOOLEAN /\ wait \in BOOLEAN
      /\ sigq \in Seq({"START", "CHECK", "STOP"}) /\ evq \in Seq({"gone", "network", "datacall"})
      /\ sigq # <<>> => Tail(sigq) \in Seq({"START", "CHECK", "STOP"})
      /\ evq # <<>> => Tail(evq) \in Seq({"gone", "network", "datacall"})
    BY HeadTailProperties DEF TypeOK
<1>4. todo' \in Seq(Steps)
    <2>1. /\ {"signo", "event", "connect", "started", "reg", "query", "checked", "down", "unlink",
              "close", "quit", "network"} \subseteq Steps
        BY DEF Steps, Requests
    <2>2. \A c \in BOOLEAN, s \in Steps : If(c, <<s>>) \in Seq(Steps)
        BY IfType
    <2>3. Poll => todo' \in Seq(Steps)
        <3>1. If(sigq # <<>>, <<"signo">>) \in Seq(Steps) /\ If(evq # <<>>, <<"event">>) \in Seq(Steps)
            BY <2>1, <2>2
        <3>2. QED
            BY <3>1, ConcatProperties DEF Poll
    <2>4. Start => todo' \in Seq(Steps)
        <3>1. If(status # "connected", <<"connect">>) \in Seq(Steps) /\ <<"started">> \in Seq(Steps)
            BY <2>1 DEF If
        <3>2. If(attached /\ ~wait, If(status # "connected", <<"connect">>) \o <<"started">>)
                \in Seq(Steps)
            BY <1>3, <3>1, ConcatProperties DEF If
        <3>3. QED
            BY <1>3, <3>2, TodoType DEF Start, Signo, Doing, First
    <2>5. Check => todo' \in Seq(Steps)
        <3>1. /\ If(~attached, <<"reg">>) \in Seq(Steps) /\ <<"checked">> \in Seq(Steps)
              /\ If(status # "disconnected", <<"query">>) \in Seq(Steps)
            BY <1>3, <2>1 DEF If
        <3>2. If(~attached, <<"reg">>) \o If(status # "disconnected", <<"query">>) \o <<"checked">>
                \in Seq(Steps)
            BY <3>1, ConcatProperties
        <3>3. QED
            BY <1>3, <3>2, TodoType DEF Check, Signo, Doing, First
    <2>6. Stop => todo' \in Seq(Steps)
        <3>1. If(status = "connected", <<"down">>) \in Seq(Steps)
              /\ <<"unlink", "close", "quit">> \in Seq(Steps)
            BY <2>1 DEF If
        <3>2. If(status = "connected", <<"down">>) \o <<"unlink", "close", "quit">> \in Seq(Steps)
            BY <3>1, ConcatProperties
        <3>3. QED
            BY <1>3, <3>2, TodoType DEF Stop, Signo, Doing, First
    <2>7. NetworkChanged => todo' \in Seq(Steps)
        <3>1. <<"reg", "network">> \in Seq(Steps)
            BY <2>1
        <3>2. QED
            BY <1>3, <3>1, TodoType DEF NetworkChanged, Event, Doing, First
    <2>8. (Doing("ready") \/ Doing("started") \/ Doing("checked") \/ Doing("unlink")
             \/ Doing("network") \/ Doing("event")) /\ First(<<>>) => todo' \in Seq(Steps)
        BY <1>3, TodoType DEF Doing, First
    <2>9. QED
        BY <1>3, <2>3, <2>4, <2>5, <2>6, <2>7, <2>8
           DEF PollTimeout, Handlers, Joined, Ready, Started, Checked, Unlink, Quit,
               Disconnected, NetworkKnown, DataCallChanged, Event
<1>5. /\ status' = status /\ addr' \in BOOLEAN /\ link' \in BOOLEAN
    <2>1. \A l \in BOOLEAN : LinkChange(l) => addr' \in BOOLEAN /\ link' \in BOOLEAN
        BY DEF LinkChange, TypeOK
    <2>2. (IF status = "unknown" THEN link ELSE status = "connected") \in BOOLEAN
        BY DEF TypeOK
    <2>3. UNCHANGED <<addr, link>> => addr' \in BOOLEAN /\ link' \in BOOLEAN
        BY DEF TypeOK
    <2>4. QED
        BY <2>1, <2>2, <2>3
           DEF Poll, PollTimeout, Handlers, Joined, Ready, Start, Check, Stop, Started, Checked,
               Unlink, Quit, Disconnected, NetworkChanged, NetworkKnown, DataCallChanged
<1>6. wait' \in BOOLEAN /\ alarm' \in BOOLEAN /\ ctl' \subseteq {"stop", "quit"}
    BY DEF Poll, PollTimeout, Handlers, Joined, Ready, Start, Check, Stop, Started, Checked,
           Unlink, Quit, Disconnected, NetworkChanged, NetworkKnown, DataCallChanged, TypeOK,
           timeVars
<1>7. sigq' \in Seq({"START", "CHECK", "STOP"}) /\ evq' \in Seq({"gone", "network", "datacall"})
    <2>1. /\ \A c \in BOOLEAN : If(c, <<"START">>) \in Seq({"START", "CHECK", "STOP"})
          /\ <<"CHECK">> \in Seq({"START", "CHECK", "STOP"})
          /\ Append(sigq, "CHECK") \in Seq({"START", "CHECK", "STOP"})
        <3>1. \A c \in BOOLEAN : If(c, <<"START">>) \in Seq({"START", "CHECK", "STOP"})
            <4>1. /\ <<"START">> \in Seq({"START", "CHECK", "STOP"})
                  /\ <<>> \in Seq({"START", "CHECK", "STOP"})
                OBVIOUS
            <4>2. QED
                BY <4>1, Zenon DEF If
        <3>2. QED
            BY <1>3, <3>1, AppendProperties
    <2>2. \A c \in BOOLEAN : sigq \o If(c, <<"START">>) \in Seq({"START", "CHECK", "STOP"})
        BY <1>3, <2>1, ConcatProperties
    <2>3. (status = "disconnected") \in BOOLEAN /\ (attached /\ status = "disconnected") \in BOOLEAN
        BY <1>3
    <2>4. Checked \/ NetworkKnown => sigq' \in Seq({"START", "CHECK", "STOP"})
        BY <2>2, <2>3 DEF Checked, NetworkKnown
    <2>5. Start \/ Check \/ Stop => sigq' = Tail(sigq) /\ sigq # <<>>
        BY DEF Start, Check, Stop, Signo
    <2>6. Disconnected \/ NetworkChanged \/ DataCallChanged => evq' = Tail(evq) /\ evq # <<>>
        BY DEF Disconnected, NetworkChanged, DataCallChanged, Event
    <2>7. QED
        BY <1>3, <2>1, <2>4, <2>5, <2>6
           DEF Poll, PollTimeout, Handlers, Joined, Ready, Start, Check, Stop, Started, Checked,
               Unlink, Quit, Disconnected, NetworkChanged, NetworkKnown, DataCallChanged, queues
<1>8. TypeOK'
    BY <1>1, <1>4, <1>5, <1>6, <1>7
       DEF TypeOK, Local, callVars, knownVars, readerVars, modemVars
<1>9. QED
    BY <1>2, <1>8

-----------------------------------------------------------------------------
LEMMA ReaderStep ==
    ASSUME TypeOK, IInv, Reader
    PROVE  TypeOK' /\ IInv'
<1> DEFINE m == Head(rx)
           Events == {"gone", "network", "datacall"}
<1>1. Reads /\ at' \in {at, "woken"} /\ (at' = "woken" => at \in {"waiting", "woken"})
    BY DEF Reader, Receive, Control, Shut, ReaderEnds, Signal
<1>2. WaitInv'
    BY <1>1 DEF IInv, WaitInv, Reads, stateVars
<1>3. /\ rx \in Seq(Message) /\ evq \in Seq(Events) /\ <<>> \in Seq(Message)
      /\ \A i \in 1..Len(rx) : rx[i] \in Message
      /\ rx # <<>> => /\ Tail(rx) \in Seq(Message) /\ Len(Tail(rx)) = Len(rx) - 1
                      /\ \A i \in 1..Len(Tail(rx)) : Tail(rx)[i] = rx[i + 1] /\ i + 1 \in 1..Len(rx)
                      /\ m = rx[1] /\ 1 \in 1..Len(rx) /\ m \in Message
    BY HeadTailProperties DEF TypeOK
<1>4. /\ rx' \in Seq(Message) /\ Len(rx') <= Len(rx)
      /\ \A i \in 1..Len(rx') : \E j \in 1..Len(rx) : rx'[i] = rx[j]
    <2>1. CASE Receive
        BY <1>3, <2>1 DEF Receive
    <2>2. CASE rx' = <<>>
        BY <1>3, <2>2
    <2>3. CASE rx' = rx
        BY <1>3, <2>3
    <2>4. QED
        BY <2>1, <2>2, <2>3 DEF Reader, Control, Shut, ReaderEnds
<1>5. sRsp' = sRsp \/ (Receive /\ sRsp' = m /\ m.tid = sReq)
    BY DEF Reader, Receive, Control, Shut, ReaderEnds
<1>6. sRsp' \in Message /\ AnswerIsOwn'
    BY <1>3, <1>5 DEF Receive, IInv, OwnInv, AnswerIsOwn, TypeOK
<1>7. OwnInv'
    BY <1>1, <1>4, <1>6 DEF IInv, OwnInv, Reads
<1>8. evq' \in Seq(Events)
    <2>1. ASSUME NEW c \in BOOLEAN, NEW e \in Events PROVE If(c, <<e>>) \in Seq(Events)
        BY <2>1, IfType
    <2>2. rx # <<>> => EventOf(m) \in Seq(Events)
        <3> SUFFICES ASSUME rx # <<>> PROVE EventOf(m) \in Seq(Events)
            OBVIOUS
        <3>1. News(m) \in BOOLEAN
            BY DEF News
        <3>2. /\ If(News(m), <<"network">>) \in Seq(Events)
              /\ If(m.kind = "activation" /\ act # (IF m.val THEN "on" ELSE "off"), <<"datacall">>)
                   \in Seq(Events)
            BY <2>1, <3>1
        <3>3. QED
            BY <3>2, ConcatProperties DEF EventOf
    <2>3. Receive => evq' \in Seq(Events)
        BY <1>3, <2>2, ConcatProperties DEF Receive
    <2>4. QED
        BY <1>3, <2>3, AppendProperties DEF Reader, Control, Shut, ReaderEnds
<1>9. rdr' \in {"run", "shut", "gone"} /\ stopping' \in BOOLEAN /\ ctl' \subseteq {"stop", "quit"}
    BY DEF Reader, Receive, Control, Shut, ReaderEnds, TypeOK
<1>10. TypeOK'
    <2>1. Len(rx') <= MaxRx
        BY <1>3, <1>4, MbimAssumption DEF TypeOK
    <2>2. at' \in {"run", "waiting", "woken", "joining", "exited", "failed"}
        BY <1>1 DEF TypeOK
    <2>3. QED
        BY <1>1, <1>4, <1>6, <1>8, <1>9, <2>1, <2>2 DEF TypeOK, Reads, stateVars, knownVars, timeVars
<1>11. QED
    BY <1>2, <1>7, <1>10 DEF IInv

-----------------------------------------------------------------------------
\* A message that arrives, of which OwnInv must hold.
LEMMA ArriveStep ==
    ASSUME TypeOK, IInv, NEW m \in Message, Len(rx) < MaxRx, rx' = Append(rx, m),
           m.tid = sReq => m.own, m.kind \in Indications => m.tid = 0,
           Outside, UNCHANGED <<timeVars, sigq, ctl, stop>>,
           net' \in {"none", "registered", "attached", "unplugged"}, up' \in BOOLEAN,
           events' \in 0..MaxEvents, pend' \subseteq pend
    PROVE  TypeOK' /\ IInv'
<1>1. IsFiniteSet(pend') /\ Cardinality(pend') <= MaxPend
    <2>1. IsFiniteSet(pend') /\ Cardinality(pend') <= Cardinality(pend)
        BY FS_Subset DEF IInv, WaitInv
    <2>2. Cardinality(pend) \in Nat /\ Cardinality(pend') \in Nat
        BY <2>1, FS_CardinalityType DEF IInv, WaitInv
    <2>3. QED
        BY <2>1, <2>2, MbimAssumption DEF TypeOK
<1>2. /\ rx' \in Seq(Message) /\ Len(rx') = Len(rx) + 1 /\ Len(rx) \in Nat
      /\ \A i \in 1..Len(rx) : rx'[i] = rx[i]
      /\ rx'[Len(rx) + 1] = m
    BY AppendProperties DEF TypeOK
<1>3. TypeOK'
    BY <1>1, <1>2, MbimAssumption
       DEF TypeOK, Outside, callVars, stateVars, knownVars, readerVars, timeVars
<1>4. WaitInv'
    BY <1>1 DEF IInv, WaitInv, Outside, stateVars
<1>5. \A i \in 1..Len(rx') : /\ rx'[i].tid = sReq => rx'[i].own
                             /\ rx'[i].kind \in Indications => rx'[i].tid = 0
    BY <1>2 DEF IInv, OwnInv
<1>6. OwnInv'
    BY <1>5 DEF IInv, OwnInv, AnswerIsOwn, Outside, callVars
<1>7. QED
    BY <1>3, <1>4, <1>6 DEF IInv

LEMMA EnvironmentStep ==
    ASSUME TypeOK, IInv, Environment
    PROVE  TypeOK' /\ IInv'
<1>1. CASE SignalStop \/ AlarmRings \/ DelayOver
    <2>1. Outside /\ UNCHANGED modemVars /\ at' = at
        BY <1>1 DEF SignalStop, AlarmRings, DelayOver, Outside
    <2>2. IInv'
        BY <2>1 DEF IInv, WaitInv, OwnInv, AnswerIsOwn, Outside, callVars, stateVars, modemVars
    <2>3. /\ sigq' \in Seq({"START", "CHECK", "STOP"}) /\ ctl' \subseteq {"stop", "quit"}
          /\ wait' \in BOOLEAN /\ alarm' \in BOOLEAN /\ stop' \in BOOLEAN
        <3>1. /\ sigq \in Seq({"START", "CHECK", "STOP"}) /\ ctl \subseteq {"stop", "quit"}
              /\ wait \in BOOLEAN /\ alarm \in BOOLEAN /\ stop \in BOOLEAN
            BY DEF TypeOK
        <3>2. \A s \in {"START", "STOP"} : Append(sigq, s) \in Seq({"START", "CHECK", "STOP"})
            BY <3>1, AppendProperties
        <3>3. QED
            BY <1>1, <3>1, <3>2 DEF SignalStop, AlarmRings, DelayOver, timeVars
    <2>4. TypeOK'
        BY <2>1, <2>3 DEF TypeOK, Outside, callVars, stateVars, knownVars, readerVars, modemVars
    <2>5. QED
        BY <2>2, <2>4
<1>2. ASSUME NEW p \in pend, Answer(p) PROVE TypeOK' /\ IInv'
    <2>1. /\ Len(rx) < MaxRx /\ Outside /\ UNCHANGED <<timeVars, sigq, ctl, stop, events>>
          /\ pend' \subseteq pend
        BY <1>2 DEF Answer, Modem
    <2>2. PICK ok \in BOOLEAN :
            /\ IF ok THEN Served(p.kind) ELSE UNCHANGED <<net, up>>
            /\ rx' = Append(rx, [tid |-> p.tid, kind |-> "answer", ok |-> ok, own |-> p.own,
                                 val |-> ok /\ Says(p.kind)])
        BY <1>2 DEF Answer
    <2>3. net' \in {"none", "registered", "attached", "unplugged"} /\ up' \in BOOLEAN
        BY <2>2 DEF Served, TypeOK
    <2> DEFINE m == [tid |-> p.tid, kind |-> "answer", ok |-> ok, own |-> p.own,
                     val |-> ok /\ Says(p.kind)]
    <2>4. p \in Pending /\ p.tid # 0 /\ (p.tid = sReq => p.own)
        BY DEF IInv, OwnInv, TypeOK
    <2>5. (ok /\ Says(p.kind)) \in BOOLEAN
        BY <2>3 DEF Says
    <2>6. m \in Message /\ m.tid = p.tid /\ m.own = p.own /\ m.kind \notin Indications
        BY <2>4, <2>5 DEF Message, Pending, Indications
    <2> HIDE DEF m
    <2>7. rx' = Append(rx, m)
        BY <2>2 DEF m
    <2>8. events' \in 0..MaxEvents
        BY <2>1 DEF TypeOK
    <2>9. QED
        BY <2>1, <2>3, <2>4, <2>6, <2>7, <2>8, ArriveStep
<1>3. ASSUME NEW k \in Indications, NEW v \in BOOLEAN, Indicates(k, v), Modem, pend' = pend,
             net' \in {"none", "registered", "attached", "unplugged"}, up' \in BOOLEAN
      PROVE  TypeOK' /\ IInv'
    <2> DEFINE m == [NoMsg EXCEPT !.kind = k, !.val = v, !.ok = TRUE]
    <2>1. m \in Message /\ m.tid = 0
        <3>1. 0 \in 0..MaxTid /\ k \in {"answer"} \cup Indications
            BY MbimAssumption
        <3>2. NoMsg \in Message /\ NoMsg.tid = 0
            BY <3>1 DEF NoMsg, Message
        <3>3. m \in Message
            BY <3>1, <3>2 DEF Message
        <3>4. m.tid = 0
            BY <3>2 DEF Message
        <3>5. QED
            BY <3>3, <3>4
    <2>2. Len(rx) < MaxRx /\ rx' = Append(rx, m) /\ events' \in 0..MaxEvents
        BY <1>3, MbimAssumption DEF Indicates, TypeOK
    <2> HIDE DEF m
    <2>3. sReq # 0
        BY DEF IInv, OwnInv
    <2>4. QED
        BY <1>3, <2>1, <2>2, <2>3, ArriveStep DEF Modem
<1>4. CASE CallEnds
    BY <1>3, <1>4 DEF CallEnds, Indications, TypeOK
<1>5. CASE NetChanges
    <2>1. (net = "none") \in BOOLEAN /\ (net = "registered") \in BOOLEAN /\ up' \in BOOLEAN
        BY <1>5 DEF NetChanges, TypeOK
    <2>2. QED
        BY <1>3, <1>5, <2>1 DEF NetChanges, Indications
<1>6. CASE Unplug
    <2>1. /\ Outside /\ UNCHANGED <<timeVars, sigq, ctl, stop>>
          /\ net' = "unplugged" /\ up' = FALSE /\ pend' = {} /\ rx' = <<>>
          /\ events' \in 0..MaxEvents
        BY <1>6, MbimAssumption DEF Unplug, Modem, TypeOK
    <2>2. IsFiniteSet(pend') /\ Cardinality(pend') <= MaxPend /\ rx' \in Seq(Message) /\ Len(rx') <= MaxRx
        BY <2>1, FS_EmptySet, MbimAssumption
    <2>3. TypeOK'
        <3>1. pend' \subseteq Pending /\ up' \in BOOLEAN
            BY <2>1
        <3>2. QED
            BY <2>1, <2>2, <3>1 DEF TypeOK, Outside, callVars, stateVars, knownVars, readerVars, timeVars
    <2>4. IInv'
        BY <2>1, <2>2 DEF IInv, WaitInv, OwnInv, AnswerIsOwn, Outside, callVars, stateVars
    <2>5. QED
        BY <2>3, <2>4
<1>7. QED
    BY <1>1, <1>2, <1>4, <1>5, <1>6 DEF Environment

LEMMA StepInv == TypeOK /\ IInv /\ [Next]_vars => (TypeOK /\ IInv)'
<1> SUFFICES ASSUME TypeOK, IInv, [Next]_vars PROVE TypeOK' /\ IInv'
    OBVIOUS
<1>1. CASE UNCHANGED vars
    BY <1>1 DEF vars, callVars, stateVars, knownVars, timeVars, queues, readerVars, modemVars,
               TypeOK, IInv, WaitInv, OwnInv, AnswerIsOwn
<1>2. QED
    BY <1>1, SendStep, EndStep, HandlerStep, ReaderStep, EnvironmentStep DEF Next, Main

-----------------------------------------------------------------------------
LEMMA Inductive == Spec => [](TypeOK /\ IInv)
  BY InitInv, StepInv, PTL DEF Spec

\* The variables of the connection manager over MBIM, its messages and those of the
\* modem keep their types and bounds.
THEOREM TypeCorrect == Spec => []TypeOK
  BY Inductive, PTL

\* mbim_recv_command takes for an answer only what answers the request main waits
\* for, whatever order late answers and indications come in: ids are not used
\* again while an answer with one is on its way, and an indication has id 0.
THEOREM AnswersOwn == Spec => []AnswerIsOwn
<1>1. IInv => AnswerIsOwn
    BY DEF IInv, OwnInv
<1>2. QED
    BY <1>1, Inductive, PTL
=============================================================================
