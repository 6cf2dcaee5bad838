----------------------------- MODULE MbimSession -----------------------------
(***************************************************************************)
(* quectel-CM over MBIM: mbim-cm.c under qmi_main.  The main thread walks   *)
(* through a handler's requests; each goes through mbim_send_command, which *)
(* waits for mbim_read_thread.  Unlike the QMI reader, this one ends when   *)
(* the modem is silent for a second after SIGTERM.                          *)
(*                                                                          *)
(* Left out: requests whose result only says whether to go on (capabilities,*)
(* services, SIM; the radio request stands for them), user and password,    *)
(* QMI over MBIM, contents of messages, opening the device, the restart     *)
(* loop of main.  One call serves both address families.                    *)
(***************************************************************************)
EXTENDS Naturals, Sequences, FiniteSets

CONSTANTS
    MaxTid,     \* last transaction id before the wrap (0xFFFFFF)
    OpenTries,  \* how often the open command is sent (10)
    MaxPend,    \* bound: requests the modem has not answered; it forgets older ones
    MaxRx,      \* bound: messages on the way to the reader
    MaxEvents   \* bound: things that happen at the modem by themselves

ASSUME MbimAssumption ==
    /\ MaxTid \in Nat /\ MaxPend \in Nat \ {0} /\ MaxTid > MaxPend
    /\ OpenTries \in Nat \ {0} /\ MaxEvents \in Nat
    /\ MaxRx \in Nat \ {0}

VARIABLES
    at,         \* main: "run", a point of mbim_send_command, or the end
    todo,       \* what is left of the handler (of init)
    tid,        \* TransactionId of the last request
    sReq, sRsp, \* mbim_pRequest (its id), mbim_pResponse
    tries,      \* open commands that timed out
    status,     \* IPv4ConnectionStatus
    act,        \* ActivationState, equal to oldActivationState
    registered, packet,  \* RegisterState is home; PacketServiceState is attached
    attached, addr,      \* PSAttachedState; profile->ipv4.Address is set
    link,       \* the interface is up
    wait, alarm,         \* SetupCallAllowTime lies ahead; a SIGALRM is due
    sigq, evq,  \* signal_control_fd; events of the reader
    rdr, stopping,       \* the reader; wait_for_request_quit
    ctl,        \* events for the reader
    stop,       \* SIGINT or SIGTERM has come
    net, up,    \* the modem: registration, and whether the call is up
    pend, rx,   \* requests it has; its messages the reader has not read
    events

callVars == <<tid, sReq, sRsp>>
knownVars == <<act, registered, packet>>
stateVars == <<tries, status, knownVars, attached, addr>>
timeVars == <<wait, alarm>>
queues == <<sigq, evq>>
readerVars == <<rdr, stopping>>
modemVars == <<net, up, pend, rx, events>>
vars == <<at, todo, callVars, stateVars, link, timeVars, queues, readerVars, ctl, stop, modemVars>>

Requests == {"open", "radio", "reg", "ps", "attach", "connect", "ip", "query", "addr", "down",
             "close"}
Indications == {"register", "packet", "activation"}
Steps == Requests \cup {"ready", "signo", "event", "started", "checked", "network", "unlink", "quit"}

\* An answer or an indication (id 0); own: it answers the request of the call in progress.
Message == [tid : 0..MaxTid, kind : {"answer"} \cup Indications, ok : BOOLEAN, val : BOOLEAN,
            own : BOOLEAN]
Pending == [tid : 0..MaxTid, kind : Requests, own : BOOLEAN]
NoMsg == [tid |-> 0, kind |-> "answer", ok |-> FALSE, val |-> FALSE, own |-> FALSE]
NoReq == MaxTid + 1

TypeOK ==
    /\ at \in {"run", "waiting", "woken", "joining", "exited", "failed"}
    /\ todo \in Seq(Steps)
    /\ tid \in 0..MaxTid /\ sReq \in 0..NoReq /\ sRsp \in Message
    /\ tries \in 0..OpenTries
    /\ status \in {"unknown", "connected", "disconnected"} /\ act \in {"unknown", "on", "off"}
    /\ registered \in BOOLEAN /\ packet \in BOOLEAN /\ attached \in BOOLEAN /\ addr \in BOOLEAN
    /\ link \in BOOLEAN /\ wait \in BOOLEAN /\ alarm \in BOOLEAN
    /\ sigq \in Seq({"START", "CHECK", "STOP"})
    /\ evq \in Seq({"gone", "network", "datacall"})
    /\ rdr \in {"run", "shut", "gone"} /\ stopping \in BOOLEAN
    /\ ctl \subseteq {"stop", "quit"} /\ stop \in BOOLEAN
    /\ net \in {"none", "registered", "attached", "unplugged"} /\ up \in BOOLEAN
    /\ pend \subseteq Pending /\ Cardinality(pend) <= MaxPend
    /\ rx \in Seq(Message) /\ Len(rx) <= MaxRx /\ events \in 0..MaxEvents

\* The session begins when the reader has opened the device.  A call of an earlier
\* run may be up.
Init ==
    /\ at = "run" /\ todo = <<"open", "radio", "reg", "ready">>
    /\ tid = 0 /\ sReq = NoReq /\ sRsp = NoMsg /\ tries = 0
    /\ status = "unknown" /\ act = "unknown" /\ registered = FALSE /\ packet = FALSE
    /\ attached = FALSE /\ addr = FALSE /\ link = FALSE /\ wait = FALSE /\ alarm = FALSE
    /\ sigq = <<>> /\ evq = <<>>
    /\ rdr = "run" /\ stopping = FALSE /\ ctl = {} /\ stop = FALSE
    /\ net \in {"none", "registered", "attached"} /\ up \in BOOLEAN /\ (up => net = "attached")
    /\ pend = {} /\ rx = <<>> /\ events = 0

-----------------------------------------------------------------------------
(***************************************************************************)
(* What the caller makes of the result of a request (mbim_check_err and the *)
(* code behind it).  More steps of the handler may go first.                *)
(***************************************************************************)
Doing(s) == at = "run" /\ todo # <<>> /\ Head(todo) = s
First(s) == todo' = s \o Tail(todo)
If(c, s) == IF c THEN s ELSE <<>>

Result(o, t, v) == [ok |-> o, timeout |-> t, val |-> v]
Failed == Result(FALSE, FALSE, FALSE)
TimedOut == Result(FALSE, TRUE, FALSE)

\* init sends the open command again only when nothing answers.
Opened(r) ==
    /\ tries' = IF r.timeout THEN tries + 1 ELSE 0
    /\ at' = IF r.ok \/ (r.timeout /\ tries' < OpenTries) THEN "run" ELSE "failed"
    /\ First(If(~r.ok, <<"open">>))
    /\ UNCHANGED <<status, knownVars, attached, addr>>

RadioSet(r) ==
    /\ at' = IF r.ok THEN "run" ELSE "failed"
    /\ First(<<>>)
    /\ UNCHANGED stateVars

\* requestRegistrationState: a failing packet service query leaves "attached".
RegisterQueried(r) ==
    /\ registered' = IF r.ok THEN r.val ELSE registered
    /\ attached' = (r.ok /\ r.val)
    /\ First(If(attached', <<"ps">>))
    /\ at' = "run" /\ UNCHANGED <<tries, status, act, packet, addr>>

PacketQueried(r) ==
    /\ packet' = IF r.ok THEN r.val ELSE packet
    /\ attached' = (r.ok => r.val)
    /\ First(If(~attached', <<"attach">>))
    /\ at' = "run" /\ UNCHANGED <<tries, status, act, registered, addr>>

PacketSet(r) ==
    /\ packet' = IF r.ok THEN r.val ELSE packet
    /\ First(<<>>)
    /\ at' = "run" /\ UNCHANGED <<tries, status, act, registered, attached, addr>>

Activation(r) == act' = IF ~r.ok THEN act ELSE IF r.val THEN "on" ELSE "off"

\* START: set up, and then the address.
ConnectSet(r) ==
    /\ Activation(r)
    /\ First(If(r.ok, <<"ip">>))
    /\ at' = "run" /\ UNCHANGED <<tries, status, registered, packet, attached, addr>>

Addressed(r) ==
    /\ addr' = (r.ok \/ addr)
    /\ status' = IF r.ok THEN "connected" ELSE status
    /\ First(<<>>)
    /\ at' = "run" /\ UNCHANGED <<tries, knownVars, attached>>

\* CHECK: a query that fails counts as a loss; a call found up (it may be an
\* earlier run's) needs its address.
KeepsStatus(r) ==
    /\ Activation(r)
    /\ status' = IF ~r.ok THEN status ELSE IF r.val THEN "connected" ELSE "disconnected"
    /\ First(If(status' = "connected" /\ ~addr, <<"addr">>))
    /\ at' = "run" /\ UNCHANGED <<tries, registered, packet, attached, addr>>

ConnectQueried(r) ==
    /\ Activation(r)
    /\ status' = IF r.ok /\ r.val THEN "connected" ELSE "disconnected"
    /\ First(If(status' = "connected" /\ ~addr, <<"addr">>))
    /\ at' = "run" /\ UNCHANGED <<tries, registered, packet, attached, addr>>

AddressFetched(r) ==
    /\ addr' = r.ok
    /\ status' = IF r.ok THEN status ELSE "disconnected"
    /\ First(<<>>)
    /\ at' = "run" /\ UNCHANGED <<tries, knownVars, attached>>

Deactivated(r) ==
    /\ Activation(r)
    /\ First(<<>>)
    /\ at' = "run" /\ UNCHANGED <<tries, status, registered, packet, attached, addr>>

Closed(r) ==
    /\ First(<<>>)
    /\ at' = "run" /\ UNCHANGED stateVars

Returns(kind, r) ==
    \/ kind = "open" /\ Opened(r)
    \/ kind = "radio" /\ RadioSet(r)
    \/ kind = "reg" /\ RegisterQueried(r)
    \/ kind = "ps" /\ PacketQueried(r)
    \/ kind = "attach" /\ PacketSet(r)
    \/ kind = "connect" /\ ConnectSet(r)
    \/ kind = "ip" /\ Addressed(r)
    \/ kind = "query" /\ ConnectQueried(r)
    \/ kind = "addr" /\ AddressFetched(r)
    \/ kind = "down" /\ Deactivated(r)
    \/ kind = "close" /\ Closed(r)

-----------------------------------------------------------------------------
(***************************************************************************)
(* mbim_send_command                                                       *)
(***************************************************************************)

\* The id is given when the request is composed; 0xFFFFFF + 1 is replaced.
NeverWraps(t) == t + 1
WrapsToZero(t) == (t + 1) % (MaxTid + 1)
NextTid(t) == IF t = MaxTid THEN 1 ELSE t + 1

\* Bound: an id does not come round while an answer with it is on its way.
Apart(t) == \A i \in 1..Len(rx) : rx[i].tid = t => rx[i].kind \in Indications

Lesser(a, b) == IF a < b THEN a ELSE b

\* Bound: which requests the modem still has when it is sent one with id t.
Kept(t) ==
    LET others == {p \in pend : p.tid # t}
    IN  {old \in SUBSET others : Cardinality(old) = Lesser(Cardinality(others), MaxPend - 1)}
NotOwn(m) == [m EXCEPT !.own = FALSE]

\* From the write to the wait the mutex is held.  If the reader has closed the device
\* the request fails, whether that is seen before the mutex is taken or by the write.
Send ==
    /\ at = "run" /\ todo # <<>> /\ Head(todo) \in Requests
    /\ Apart(NextTid(tid))
    /\ tid' = NextTid(tid)
    /\ IF rdr # "run" THEN Returns(Head(todo), Failed) /\ UNCHANGED <<sReq, sRsp, pend, rx>>
       ELSE /\ at' = "waiting" /\ sReq' = tid' /\ sRsp' = NoMsg
            /\ \E old \in Kept(tid') :
                 pend' = {NotOwn(p) : p \in old}
                         \cup {[tid |-> tid', kind |-> Head(todo), own |-> TRUE]}
            /\ rx' = [i \in 1..Len(rx) |-> NotOwn(rx[i])]
            /\ UNCHANGED <<todo, stateVars>>
    /\ UNCHANGED <<link, timeVars, queues, readerVars, ctl, stop, net, up, events>>

Ends(r) ==
    /\ sReq' = NoReq /\ sRsp' = NoMsg
    /\ Returns(Head(todo), r)
    /\ UNCHANGED <<tid, link, timeVars, queues, readerVars, ctl, stop, modemVars>>

GiveUp == at = "waiting" /\ Ends(TimedOut)

\* Without a response the reader has ended.
Woken ==
    /\ at = "woken"
    /\ Ends(IF sRsp = NoMsg THEN Failed ELSE Result(sRsp.ok, FALSE, sRsp.val))

-----------------------------------------------------------------------------
(***************************************************************************)
(* qmi_main                                                                *)
(***************************************************************************)
Local == UNCHANGED <<callVars, tries, knownVars, attached, readerVars, stop, modemVars>>

\* usbnet_link_change: when the interface goes down its address is forgotten.
LinkChange(l) == link' = l /\ addr' = (addr /\ (link => l))

Ready ==
    /\ Doing("ready") /\ First(<<>>)
    /\ sigq' = Append(sigq, "CHECK")
    /\ Local /\ UNCHANGED <<at, status, addr, link, timeVars, evq, ctl>>

\* poll: a signal number is looked at before an event.
Poll ==
    /\ at = "run" /\ todo = <<>> /\ (sigq # <<>> \/ evq # <<>>)
    /\ todo' = If(sigq # <<>>, <<"signo">>) \o If(evq # <<>>, <<"event">>)
    /\ Local /\ UNCHANGED <<at, status, addr, link, timeVars, queues, ctl>>

PollTimeout ==
    /\ at = "run" /\ todo = <<>> /\ sigq = <<>> /\ evq = <<>>
    /\ sigq' = <<"CHECK">>
    /\ Local /\ UNCHANGED <<at, todo, status, addr, link, timeVars, evq, ctl>>

Signo(s) == Doing("signo") /\ sigq # <<>> /\ Head(sigq) = s

Start ==
    /\ Signo("START")
    /\ First(If(attached /\ ~wait, If(status # "connected", <<"connect">>) \o <<"started">>))
    /\ alarm' = (attached /\ wait)
    /\ sigq' = Tail(sigq)
    /\ Local /\ UNCHANGED <<at, status, addr, link, wait, evq, ctl>>

Check ==
    /\ Signo("CHECK")
    /\ First(If(~attached, <<"reg">>) \o If(status # "disconnected", <<"query">>) \o <<"checked">>)
    /\ alarm' = FALSE
    /\ sigq' = Tail(sigq)
    /\ Local /\ UNCHANGED <<at, status, addr, link, wait, evq, ctl>>

Stop ==
    /\ Signo("STOP")
    /\ First(If(status = "connected", <<"down">>) \o <<"unlink", "close", "quit">>)
    /\ alarm' = FALSE
    /\ sigq' = Tail(sigq)
    /\ Local /\ UNCHANGED <<at, status, addr, link, wait, evq, ctl>>

\* The end of START: the delay before the next try, or none.
Started ==
    /\ Doing("started") /\ First(<<>>)
    /\ alarm' = (status = "disconnected" \/ alarm)
    /\ wait' = (status = "disconnected" \/ (status # "connected" /\ wait))
    /\ Local /\ UNCHANGED <<at, status, addr, link, queues, ctl>>

\* The end of CHECK.
Checked ==
    /\ Doing("checked") /\ First(<<>>)
    /\ LinkChange(IF status = "unknown" THEN link ELSE status = "connected")
    /\ sigq' = sigq \o If(status = "disconnected", <<"START">>)
    /\ Local /\ UNCHANGED <<at, status, timeVars, evq, ctl>>

Unlink ==
    /\ Doing("unlink") /\ First(<<>>)
    /\ LinkChange(FALSE)
    /\ Local /\ UNCHANGED <<at, status, timeVars, queues, ctl>>

Quit ==
    /\ Doing("quit") /\ at' = "joining" /\ todo' = <<>>
    /\ ctl' = ctl \cup {"quit"}
    /\ Local /\ UNCHANGED <<status, addr, link, timeVars, queues>>

Event(e) == Doing("event") /\ evq # <<>> /\ Head(evq) = e /\ evq' = Tail(evq)

Disconnected ==
    /\ Event("gone") /\ at' = "joining" /\ todo' = <<>>
    /\ LinkChange(FALSE)
    /\ Local /\ UNCHANGED <<status, timeVars, sigq, ctl>>

NetworkChanged ==
    /\ Event("network") /\ First(<<"reg", "network">>)
    /\ Local /\ UNCHANGED <<at, status, addr, link, timeVars, sigq, ctl>>

NetworkKnown ==
    /\ Doing("network") /\ First(<<>>)
    /\ sigq' = sigq \o If(attached /\ status = "disconnected", <<"START">>)
    /\ wait' = (attached /\ wait)
    /\ Local /\ UNCHANGED <<at, status, addr, link, alarm, evq, ctl>>

DataCallChanged ==
    /\ Event("datacall") /\ First(<<>>)
    /\ wait' = (status = "connected" \/ wait)
    /\ sigq' = Append(sigq, "CHECK")
    /\ Local /\ UNCHANGED <<at, status, addr, link, alarm, ctl>>

Joined ==
    /\ at = "joining" /\ rdr = "gone" /\ at' = "exited"
    /\ Local /\ UNCHANGED <<todo, status, addr, link, timeVars, queues, ctl>>

-----------------------------------------------------------------------------
(***************************************************************************)
(* mbim_read_thread                                                        *)
(***************************************************************************)
Reads == UNCHANGED <<todo, tid, sReq, stateVars, link, timeVars, sigq, stop, net, up, pend,
                     events>>

\* The wait has parts (pthread_cond_timeout_np); a signal between two of them is lost.
Signal == at' \in IF at = "waiting" THEN {"woken", "waiting"} ELSE {at}

\* mbim_recv_command: an indication counts only if main does not know it yet.
News(m) ==
    \/ m.kind = "register" /\ m.val # registered
    \/ m.kind = "packet" /\ m.val # packet
EventOf(m) ==
    If(News(m), <<"network">>)
    \o If(m.kind = "activation" /\ act # (IF m.val THEN "on" ELSE "off"), <<"datacall">>)

Receive ==
    /\ rdr = "run" /\ rx # <<>> /\ rx' = Tail(rx)
    /\ LET m == Head(rx)
       IN  IF m.tid = sReq THEN sRsp' = m /\ Signal /\ UNCHANGED evq
           ELSE evq' = evq \o EventOf(m) /\ UNCHANGED <<at, sRsp>>
    /\ Reads /\ UNCHANGED <<rdr, stopping, ctl>>

Control ==
    /\ rdr = "run"
    /\ \E c \in ctl :
         /\ ctl' = ctl \ {c}
         /\ stopping' = (stopping \/ c = "stop")
         /\ IF c = "quit" THEN rdr' = "shut" /\ rx' = <<>> ELSE UNCHANGED <<rdr, rx>>
    /\ Reads /\ UNCHANGED <<at, sRsp, evq>>

\* A second without input after SIGTERM, or the device is gone.  Only a request that
\* waits for its answer lets a second go by: no DHCP client runs over MBIM.
Shut ==
    /\ rdr = "run" /\ rdr' = "shut"
    /\ \/ stopping /\ rx = <<>> /\ ctl = {} /\ at = "waiting"
       \/ net = "unplugged"
    /\ rx' = <<>>
    /\ Reads /\ UNCHANGED <<at, sRsp, evq, stopping, ctl>>

\* The waiting request is ended and main is told, before or after it has looked.
SaysNothing ==
    /\ rdr = "shut" /\ rdr' = "gone" /\ Signal
    /\ Reads /\ UNCHANGED <<sRsp, evq, rx, stopping, ctl>>
ReaderEnds ==
    /\ rdr = "shut" /\ rdr' = "gone" /\ Signal
    /\ evq' = Append(evq, "gone")
    /\ Reads /\ UNCHANGED <<sRsp, rx, stopping, ctl>>

-----------------------------------------------------------------------------
(***************************************************************************)
(* Signals, time and the modem                                             *)
(***************************************************************************)
Running == at \notin {"exited", "failed"}
Outside == UNCHANGED <<at, todo, callVars, stateVars, link, evq, readerVars>>

\* ql_sigaction tells both threads.
SignalStop ==
    /\ Running /\ ~stop /\ stop' = TRUE
    /\ sigq' = Append(sigq, "STOP") /\ ctl' = ctl \cup {"stop"}
    /\ Outside /\ UNCHANGED <<timeVars, modemVars>>

AlarmRings ==
    /\ Running /\ alarm /\ alarm' = FALSE
    /\ sigq' = Append(sigq, "START")
    /\ Outside /\ UNCHANGED <<wait, ctl, stop, modemVars>>

DelayOver ==
    /\ Running /\ wait /\ wait' = FALSE
    /\ Outside /\ UNCHANGED <<alarm, sigq, ctl, stop, modemVars>>

Plugged == Running /\ rdr = "run" /\ net # "unplugged"
Modem == Outside /\ UNCHANGED <<timeVars, sigq, ctl, stop>>

\* What a request does and what its answer says; the modem may refuse any, and
\* has no connection without a network.
Served(k) ==
    /\ net' \in IF k = "attach" /\ net = "registered" THEN {net, "attached"} ELSE {net}
    /\ up' = IF k \in {"down", "close"} THEN FALSE ELSE up \/ k = "connect"
    /\ k = "connect" => net = "attached"
    /\ k \in {"ip", "addr"} => up
Says(k) ==
    CASE k = "reg" -> net # "none"
      [] k \in {"ps", "attach"} -> net' = "attached"
      [] OTHER -> up'

Answer(p) ==
    /\ Plugged /\ Len(rx) < MaxRx
    /\ \E ok \in BOOLEAN :
         /\ IF ok THEN Served(p.kind) ELSE UNCHANGED <<net, up>>
         /\ rx' = Append(rx, [tid |-> p.tid, kind |-> "answer", ok |-> ok, own |-> p.own,
                              val |-> ok /\ Says(p.kind)])
    /\ pend' = pend \ {p}
    /\ Modem /\ UNCHANGED events

Indicates(k, v) ==
    /\ Plugged /\ events < MaxEvents /\ events' = events + 1 /\ Len(rx) < MaxRx
    /\ rx' = Append(rx, [NoMsg EXCEPT !.kind = k, !.val = v, !.ok = TRUE])

CallEnds ==
    /\ up /\ up' = FALSE
    /\ Indicates("activation", FALSE)
    /\ Modem /\ UNCHANGED <<net, pend>>

\* The network is lost, or found, in two steps.
NetChanges ==
    /\ ~up
    /\ \/ /\ net \in {"none", "registered"}
          /\ net' = IF net = "none" THEN "registered" ELSE "none"
          /\ Indicates("register", net = "none")
       \/ /\ net \in {"registered", "attached"}
          /\ net' = IF net = "registered" THEN "attached" ELSE "registered"
          /\ Indicates("packet", net = "registered")
    /\ Modem /\ UNCHANGED <<up, pend>>

Unplug ==
    /\ Plugged /\ events < MaxEvents /\ events' = events + 1
    /\ net' = "unplugged" /\ up' = FALSE /\ pend' = {} /\ rx' = <<>>
    /\ Modem

-----------------------------------------------------------------------------
Handlers ==
    \/ Ready \/ Start \/ Check \/ Stop \/ Started \/ Checked \/ Unlink \/ Quit
    \/ Disconnected \/ NetworkChanged \/ NetworkKnown \/ DataCallChanged

Reader == Receive \/ Control \/ Shut \/ ReaderEnds

Environment ==
    \/ SignalStop \/ AlarmRings \/ DelayOver
    \/ (\E p \in pend : Answer(p)) \/ CallEnds \/ NetChanges \/ Unplug

Main == Send \/ GiveUp \/ Woken \/ Poll \/ PollTimeout \/ Handlers \/ Joined

Next == Main \/ Reader \/ Environment

Spec == Init /\ [][Next]_vars

\* Threads run and time passes, so that a wait ends; nothing is assumed of the modem.
Fairness == WF_vars(Main) /\ WF_vars(Reader)

FairSpec == Spec /\ Fairness

-----------------------------------------------------------------------------
(***************************************************************************)
(* Properties                                                              *)
(***************************************************************************)

\* The response main finds is that of the request it waits for, though answers
\* come late, ids are used again and indications carry id 0.
AnswerIsOwn == sRsp # NoMsg => sRsp.own

\* A call that ends takes the interface down, even if the modem falls silent, and
\* however the loss is reported.
LossNoticed == link /\ ~up ~> ~link \/ up

\* The program ends after SIGTERM and after the loss of the device, at whatever
\* request the reader leaves it.
SessionEnds == stop \/ net = "unplugged" ~> ~Running

=============================================================================
