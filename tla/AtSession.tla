------------------------------ MODULE AtSession ------------------------------
(***************************************************************************)
(* quectel-CM over AT commands: atchannel.c and atc.c under qmi_main.  AT   *)
(* answers carry no id: a final line ends whatever command is pending, and  *)
(* a line with its prefix is its result, so answers are matched by order    *)
(* alone.  readerLoop hands out lines; atc_read_thread watches the device   *)
(* and ends at the first second of silence after SIGTERM.                   *)
(*                                                                          *)
(* Left out: commands whose result changes nothing (they only take time),   *)
(* the change of the modem's NAT mode, SMS and raw commands, IPv6 addresses,*)
(* the shortened start-up over a proxy.                                     *)
(***************************************************************************)
EXTENDS Naturals, Sequences, FiniteSets

CONSTANTS
    HelloTries, \* HANDSHAKE_RETRY_COUNT (8)
    PollTries,  \* looks at a call being set up (15)
    MaxAddr,    \* bound: addresses the network gives
    MaxPend,    \* bound: commands the modem has; it forgets older ones
    MaxSame,    \* bound: a signal number or event that waits so many times is not queued again
    MaxEvents   \* bound: SIGTERM and things that happen at the modem by themselves

ASSUME AtAssumption ==
    /\ HelloTries \in Nat \ {0} /\ PollTries \in Nat \ {0}
    /\ MaxAddr \in Nat \ {0} /\ MaxPend \in Nat \ {0}
    /\ MaxSame \in Nat \ {0} /\ MaxEvents \in Nat

VARIABLES
    at,         \* main: "run", a point of at_send_command_full_nolock, or the end
    todo,       \* what is left of the handler (of init)
    sRsp,       \* sp_response, or NULL
    text,       \* the reader takes the next line for the text of an SMS
    slipped,    \* history: a final line may come that no pending command asked for
    tries,      \* handshakes, or looks at the call being set up
    status,     \* IPv4ConnectionStatus
    asr,        \* asr_style_atc
    attached, addr,      \* PSAttachedState; profile->ipv4.Address
    link, lease,         \* the interface is up; profile->udhcpc_ip
    wait, alarm,         \* SetupCallAllowTime lies ahead; a SIGALRM is due
    sigq, evq,  \* signal_control_fd; events for main
    rdr, stopping,       \* atc_read_thread; wait_for_request_quit
    closed,     \* s_readerClosed
    ctl,        \* events for atc_read_thread
    stop,       \* SIGINT or SIGTERM has come
    net, ip,    \* the modem: registration; the address of the call or 0
    pend,       \* commands it has not answered
    events      \* how many things have happened

callVars == <<sRsp, text, slipped>>
stateVars == <<tries, status, asr, attached, addr>>
linkVars == <<link, lease>>
timeVars == <<wait, alarm>>
queues == <<sigq, evq>>
watcherVars == <<rdr, stopping, closed>>
modemVars == <<net, ip, pend, events>>
vars == <<at, todo, callVars, stateVars, linkVars, timeVars, queues, watcherVars, ctl, stop, modemVars>>

Commands == {"hello", "probe", "nat", "cops", "reg", "query", "acted", "active", "act",
             "dial", "poll", "ip", "addr", "check", "down"}
Steps == Commands \cup {"ready", "signo", "event", "started", "checked", "network", "unlink", "quit"}
Prefixes == {"none", "qcfg", "cops", "creg", "status", "ctl", "cgact", "cgpaddr"}

Addrs == 0..MaxAddr
NoLine == MaxAddr + 1

\* The command that waits has a result line and a final line, or not yet; own: the final
\* line belongs to the command sent last.
Response == [line : 0..NoLine, final : {"none", "ok", "error"}, own : BOOLEAN, null : BOOLEAN]
Empty == [line |-> NoLine, final |-> "none", own |-> FALSE, null |-> FALSE]
Null == [Empty EXCEPT !.null = TRUE]

TypeOK ==
    /\ at \in {"run", "waiting", "woken", "joining", "exited", "failed"}
    /\ todo \in Seq(Steps)
    /\ sRsp \in Response /\ text \in BOOLEAN /\ slipped \in BOOLEAN
    /\ tries \in 0..(HelloTries + PollTries) /\ status \in {"unknown", "connected", "disconnected"}
    /\ asr \in BOOLEAN /\ attached \in BOOLEAN /\ addr \in Addrs
    /\ link \in BOOLEAN /\ lease \in Addrs /\ wait \in BOOLEAN /\ alarm \in BOOLEAN
    /\ sigq \in Seq({"START", "CHECK", "STOP"}) /\ evq \in Seq({"gone", "network", "datacall"})
    /\ rdr \in {"run", "shut", "gone"} /\ stopping \in BOOLEAN /\ closed \in BOOLEAN
    /\ ctl \subseteq {"stop", "quit"} /\ stop \in BOOLEAN
    /\ net \in {"none", "registered", "unplugged"} /\ ip \in Addrs
    /\ pend \in Seq([cmd : Commands, kind : Prefixes, own : BOOLEAN]) /\ Len(pend) <= MaxPend
    /\ events \in 0..MaxEvents

\* The session begins when at_open has started the reader.  A call of an earlier run
\* may be up.
Init ==
    /\ at = "run"
    /\ todo = <<"hello", "probe", "nat", "cops", "query", "ready">>
    /\ sRsp = Null /\ text = FALSE /\ slipped = FALSE /\ tries = 0
    /\ status = "unknown" /\ asr = FALSE /\ attached = FALSE /\ addr = 0
    /\ link = FALSE /\ lease = 0 /\ wait = FALSE /\ alarm = FALSE
    /\ sigq = <<>> /\ evq = <<>>
    /\ rdr = "run" /\ stopping = FALSE /\ closed = FALSE /\ ctl = {} /\ stop = FALSE
    /\ net \in {"none", "registered"} /\ ip \in {0, 1} /\ (ip # 0 => net = "registered")
    /\ pend = <<>> /\ events = 0

-----------------------------------------------------------------------------
(***************************************************************************)
(* What the code makes of the result of a command: r.err says that          *)
(* at_send_command returned an error, r.ok that the modem said OK.  More    *)
(* steps of the handler may go first.                                       *)
(***************************************************************************)
Doing(s) == at = "run" /\ todo # <<>> /\ Head(todo) = s
First(s) == todo' = s \o Tail(todo)
If(c, s) == IF c THEN s ELSE <<>>
Put(q, e) == IF Cardinality({i \in 1..Len(q) : q[i] = e}) < MaxSame THEN Append(q, e) ELSE q
PutIf(c, q, e) == IF c THEN Put(q, e) ELSE q

Result(err, ok, line) == [err |-> err, ok |-> ok, val |-> IF line = NoLine THEN 0 ELSE line]
Failed == Result(TRUE, FALSE, NoLine)

\* The prefix of the result line, and whether a success without one is an error
\* (at_send_command_singleline).
Prefix(c) ==
    CASE c = "nat" -> "qcfg"
      [] c \in {"probe", "poll"} -> "status"
      [] c = "cops" -> "cops"
      [] c = "reg" -> "creg"
      [] c = "query" -> IF asr THEN "ctl" ELSE "status"
      [] c \in {"ip", "addr", "check"} -> IF asr THEN "cgpaddr" ELSE "status"
      [] c \in {"acted", "active"} -> "cgact"
      [] OTHER -> "none"
NeedsLine(c) == Prefix(c) \in {"qcfg", "status", "creg", "cgpaddr"}

Same == [tries |-> 0, status |-> status, asr |-> asr, attached |-> attached, addr |-> addr,
         more |-> <<>>, event |-> FALSE, failed |-> FALSE]
Then(s) == [Same EXCEPT !.more = s]
Connected(c) == IF c THEN "connected" ELSE "disconnected"

\* at_handshake: any answer will do.
Shaken(r) ==
    IF ~r.err THEN Same
    ELSE IF tries + 1 < HelloTries THEN [Then(<<"hello">>) EXCEPT !.tries = tries + 1]
    ELSE [Same EXCEPT !.failed = TRUE]

\* A modem that does not answer the probe gets the commands of the other family.
Probed(r) == [Same EXCEPT !.asr = ~r.ok]
NatKnown(r) == [Same EXCEPT !.failed = r.err]

\* requestRegistrationState
OperatorKnown(r) == [Then(If(r.ok /\ r.val # 0, <<"reg">>)) EXCEPT !.attached = FALSE]
RegistrationKnown(r) == [Same EXCEPT !.attached = (r.ok /\ r.val # 0)]

\* A call found up by init is an earlier run's and goes; one found up by CHECK may need
\* its address, which is then compared with the lease, if there is one.
Starting == todo[Len(todo)] = "ready"
Found(up) ==
    [Then(IF ~up THEN <<>> ELSE IF Starting THEN <<"down">>
          ELSE IF addr = 0 THEN <<"addr">> ELSE If(lease # 0, <<"check">>))
     EXCEPT !.status = Connected(up)]

\* requestQueryDataCall: an error counts as a loss.
KeepsStatus(r) == IF r.err THEN Same ELSE Found(r.val # 0)
Queried(r) ==
    IF asr /\ r.ok /\ r.val # 0 THEN [Then(<<"acted">>) EXCEPT !.status = "disconnected"]
    ELSE Found(~asr /\ r.ok /\ r.val # 0)
ActiveKnown(r) == Found(r.ok /\ r.val # 0)

\* requestSetupDataCall: a refusal returns 0, as a success does; the address decides.
ContextKnown(r) ==
    Then(IF r.ok THEN IF r.val = 0 THEN <<"act">> ELSE <<"dial">> ELSE If(~r.err, <<"ip">>))
ContextActive(r) == Then(IF r.ok THEN <<"dial">> ELSE If(~r.err, <<"ip">>))
Dialled(r) ==
    IF r.ok THEN [Then(IF asr THEN <<"ip">> ELSE <<"poll">>) EXCEPT !.event = asr]
    ELSE Then(If(~r.err, <<"ip">>))
PollsOn(r) ==
    IF r.err THEN Same
    ELSE IF r.ok THEN [Then(<<"ip">>) EXCEPT !.event = TRUE]
    ELSE [Then(<<"poll">>) EXCEPT !.tries = tries + 1]
Polled(r) ==
    IF r.err THEN Same
    ELSE IF r.ok \/ tries + 1 = PollTries THEN [Then(<<"ip">>) EXCEPT !.event = TRUE]
    ELSE [Then(<<"poll">>) EXCEPT !.tries = tries + 1]
Addressed(r) ==
    IF r.val = 0 THEN Same ELSE [Same EXCEPT !.addr = r.val, !.status = "connected"]

\* requestGetIPAddress and check_ipv4_address, in CHECK.
AddressFetched(r) ==
    IF r.val = 0 THEN [Same EXCEPT !.status = "disconnected"]
    ELSE [Then(If(lease # 0, <<"check">>)) EXCEPT !.addr = r.val]
Compared(r) ==
    [Then(If(r.val # lease, <<"down">>)) EXCEPT
        !.addr = IF r.val = 0 THEN addr ELSE r.val,
        !.status = Connected(r.val = lease)]

Outcome(c, r) ==
    CASE c = "hello" -> Shaken(r)
      [] c = "probe" -> Probed(r)
      [] c = "nat" -> NatKnown(r)
      [] c = "cops" -> OperatorKnown(r)
      [] c = "reg" -> RegistrationKnown(r)
      [] c = "query" -> Queried(r)
      [] c = "acted" -> ActiveKnown(r)
      [] c = "active" -> ContextKnown(r)
      [] c = "act" -> ContextActive(r)
      [] c = "dial" -> Dialled(r)
      [] c = "poll" -> Polled(r)
      [] c = "ip" -> Addressed(r)
      [] c = "addr" -> AddressFetched(r)
      [] c = "check" -> Compared(r)
      [] OTHER -> Same
-----------------------------------------------------------------------------
(***************************************************************************)
(* at_send_command_full_nolock                                             *)
(***************************************************************************)
NotOwn(s) == [i \in 1..Len(s) |-> [s[i] EXCEPT !.own = FALSE]]

\* What is left of the handler after its command, and what it has learnt.
Returns(r) ==
    LET o == Outcome(Head(todo), r)
    IN  /\ at' = IF o.failed THEN "failed" ELSE "run"
        /\ todo' = IF o.failed THEN <<>> ELSE o.more \o Tail(todo)
        /\ tries' = o.tries /\ status' = o.status /\ asr' = o.asr
        /\ attached' = o.attached /\ addr' = o.addr
        /\ evq' = PutIf(o.event, evq, "datacall")
        /\ UNCHANGED <<linkVars, timeVars, sigq, watcherVars, ctl, stop, net, ip, events>>

Cannot == rdr # "run" \/ closed \/ net = "unplugged"

\* From the write to the wait the mutex is held.
Send ==
    /\ at = "run" /\ todo # <<>> /\ Head(todo) \in Commands /\ sRsp.null
    /\ IF Cannot THEN Returns(Failed) /\ UNCHANGED <<callVars, pend>>
       ELSE /\ at' = "waiting" /\ sRsp' = Empty
            /\ slipped' = (slipped /\ pend # <<>>)
            /\ LET old == NotOwn(pend)
                   c == [cmd |-> Head(todo), kind |-> Prefix(Head(todo)), own |-> TRUE]
               IN  pend' = Append(IF Len(old) = MaxPend THEN Tail(old) ELSE old, c)
            /\ UNCHANGED <<todo, text, stateVars, linkVars, timeVars, queues, watcherVars, ctl, stop,
                           net, ip, events>>

\* The final line is not looked at again: its signal may have been lost.
GiveUp ==
    /\ at = "waiting"
    /\ sRsp' = Null
    /\ slipped' = (slipped \/ sRsp.final = "none")
    /\ Returns(Failed) /\ UNCHANGED <<text, pend>>

Woken ==
    /\ at = "woken"
    /\ sRsp' = Null
    /\ LET ok == sRsp.final = "ok"
           missing == ok /\ NeedsLine(Head(todo)) /\ sRsp.line = NoLine
       IN  Returns(IF closed \/ missing THEN Failed
                   ELSE Result(FALSE, ok, IF ok THEN sRsp.line ELSE NoLine))
    /\ UNCHANGED <<text, slipped, pend>>

-----------------------------------------------------------------------------
(***************************************************************************)
(* qmi_main                                                                *)
(***************************************************************************)
Local == UNCHANGED <<callVars, tries, asr, attached, watcherVars, stop, modemVars>>

\* usbnet_link_change.  The lease comes from the modem's DHCP server, or not.
LinkChange(l) ==
    /\ link' = l
    /\ addr' = IF link /\ ~l THEN 0 ELSE addr
    /\ IF l = link \/ (l /\ addr = 0) THEN UNCHANGED lease
       ELSE lease' \in IF l THEN {0, ip} ELSE {0}

Ready ==
    /\ Doing("ready") /\ First(<<>>)
    /\ sigq' = Put(sigq, "CHECK")
    /\ Local /\ UNCHANGED <<at, status, addr, linkVars, timeVars, evq, ctl>>

\* poll: a signal number is looked at before an event.
Poll ==
    /\ at = "run" /\ todo = <<>> /\ (sigq # <<>> \/ evq # <<>>)
    /\ todo' = If(sigq # <<>>, <<"signo">>) \o If(evq # <<>>, <<"event">>)
    /\ Local /\ UNCHANGED <<at, status, addr, linkVars, timeVars, queues, ctl>>

PollTimeout ==
    /\ at = "run" /\ todo = <<>> /\ sigq = <<>> /\ evq = <<>>
    /\ sigq' = <<"CHECK">>
    /\ Local /\ UNCHANGED <<at, todo, status, addr, linkVars, timeVars, evq, ctl>>

Signo(s) == Doing("signo") /\ sigq # <<>> /\ Head(sigq) = s /\ sigq' = Tail(sigq)

Start ==
    /\ Signo("START")
    /\ First(If(attached /\ ~wait,
             If(status # "connected", IF asr THEN <<"active">> ELSE <<"dial">>) \o <<"started">>))
    /\ alarm' = (attached /\ wait)
    /\ Local /\ UNCHANGED <<at, status, addr, linkVars, wait, evq, ctl>>

Check ==
    /\ Signo("CHECK")
    /\ First(If(~attached, <<"cops">>)
             \o If(status # "disconnected", <<"query">>) \o <<"checked">>)
    /\ alarm' = FALSE
    /\ Local /\ UNCHANGED <<at, status, addr, linkVars, wait, evq, ctl>>

Stop ==
    /\ Signo("STOP")
    /\ First(If(status = "connected", <<"down">>) \o <<"unlink", "quit">>)
    /\ alarm' = FALSE
    /\ Local /\ UNCHANGED <<at, status, addr, linkVars, wait, evq, ctl>>

\* The end of START: the delay before the next try, or none.
Started ==
    /\ Doing("started") /\ First(<<>>)
    /\ alarm' = (status = "disconnected" \/ alarm)
    /\ wait' = (status = "disconnected" \/ (status # "connected" /\ wait))
    /\ Local /\ UNCHANGED <<at, status, addr, linkVars, queues, ctl>>

\* The end of CHECK.
Checked ==
    /\ Doing("checked") /\ First(<<>>)
    /\ LinkChange(IF status = "unknown" THEN link ELSE status = "connected")
    /\ sigq' = PutIf(status = "disconnected", sigq, "START")
    /\ Local /\ UNCHANGED <<at, status, timeVars, evq, ctl>>

Unlink ==
    /\ Doing("unlink") /\ First(<<>>)
    /\ LinkChange(FALSE)
    /\ Local /\ UNCHANGED <<at, status, timeVars, queues, ctl>>

Quit ==
    /\ Doing("quit") /\ at' = "joining" /\ todo' = <<>>
    /\ ctl' = ctl \cup {"quit"}
    /\ Local /\ UNCHANGED <<status, addr, linkVars, timeVars, queues>>

Event(e) == Doing("event") /\ evq # <<>> /\ Head(evq) = e /\ evq' = Tail(evq)

Disconnected ==
    /\ Event("gone") /\ at' = "joining" /\ todo' = <<>>
    /\ LinkChange(FALSE)
    /\ Local /\ UNCHANGED <<status, timeVars, sigq, ctl>>

NetworkChanged ==
    /\ Event("network") /\ First(<<"cops", "network">>)
    /\ Local /\ UNCHANGED <<at, status, addr, linkVars, timeVars, sigq, ctl>>

NetworkKnown ==
    /\ Doing("network") /\ First(<<>>)
    /\ sigq' = PutIf(attached /\ status = "disconnected", sigq, "START")
    /\ wait' = (attached /\ wait)
    /\ Local /\ UNCHANGED <<at, status, addr, linkVars, alarm, evq, ctl>>

DataCallChanged ==
    /\ Event("datacall") /\ First(<<>>)
    /\ wait' = (status = "connected" \/ wait)
    /\ sigq' = Put(sigq, "CHECK")
    /\ Local /\ UNCHANGED <<at, status, addr, linkVars, alarm, ctl>>

Joined ==
    /\ at = "joining" /\ rdr = "gone" /\ at' = "exited"
    /\ Local /\ UNCHANGED <<todo, status, addr, linkVars, timeVars, queues, ctl>>

-----------------------------------------------------------------------------
(***************************************************************************)
(* readerLoop and atc_read_thread                                          *)
(***************************************************************************)
Watches == UNCHANGED <<todo, stateVars, linkVars, timeVars, sigq, stop, modemVars>>

\* The wait has parts (pthread_cond_timeout_np); a signal between two of them is lost.
Signal == at' \in IF at = "waiting" THEN {"woken", "waiting"} ELSE {at}

\* onUnsolicited
Unsolicited(l) ==
    evq' = IF l.kind = "status" THEN Put(evq, "datacall")
           ELSE PutIf(l.kind = "creg", evq, "network")

\* A line l has a prefix or none; an answer is a final line with the result line before
\* it, if it has one.  A line the modem sends by itself has no final line, or is one, or
\* is the head of an SMS report.
\* processLine: a pending command takes a line with its prefix, and any final line.
Takes(l) == ~sRsp.null /\ l.kind = Prefix(Head(todo)) /\ sRsp.line = NoLine
WithLine(l) == IF Takes(l) THEN [sRsp EXCEPT !.line = l.val] ELSE sRsp
EndsAtResult(l) ==
    /\ IF Takes(l) THEN UNCHANGED evq ELSE Unsolicited(l)
    /\ IF sRsp.null \/ (l.final = "none" /\ ~Takes(l)) THEN sRsp' = WithLine(l) /\ UNCHANGED at
       ELSE sRsp' = [WithLine(l) EXCEPT !.final = "ok", !.own = l.own] /\ Signal
Process(l) ==
    /\ IF Takes(l) THEN UNCHANGED evq ELSE Unsolicited(l)
    /\ IF sRsp.null \/ l.final = "none" THEN sRsp' = WithLine(l) /\ UNCHANGED at
       ELSE sRsp' = [WithLine(l) EXCEPT !.final = l.final, !.own = l.own] /\ Signal

\* readerLoop.  The line after the head of an SMS report is taken for its text.
WithoutFirst(l) ==
    IF l.kind = "none" THEN [l EXCEPT !.final = "none"] ELSE [l EXCEPT !.kind = "none"]
Receive(l) ==
    /\ IF l.kind = "sms" THEN text' = TRUE /\ UNCHANGED <<at, sRsp, evq>>
       ELSE text' = FALSE /\ Process(IF text THEN WithoutFirst(l) ELSE l)
    /\ UNCHANGED <<todo, stateVars, linkVars, timeVars, sigq, watcherVars, ctl, stop>>

\* onReaderClosed
Eof ==
    /\ net = "unplugged" /\ ~closed /\ closed' = TRUE
    /\ Signal
    /\ Watches /\ UNCHANGED <<callVars, evq, rdr, stopping, ctl>>

Control ==
    /\ rdr = "run"
    /\ \E c \in ctl :
         /\ ctl' = ctl \ {c}
         /\ stopping' = (stopping \/ c = "stop")
         /\ rdr' = IF c = "quit" THEN "shut" ELSE rdr
    /\ Watches /\ UNCHANGED <<at, callVars, evq, closed>>

\* Waits, sleeps and changes of the interface (its DHCP client) can take seconds.
TakesTime == at = "waiting" \/ Doing("poll") \/ Doing("checked") \/ Doing("unlink")

\* A second without input after SIGTERM, or the device is gone.
Shut ==
    /\ rdr = "run" /\ rdr' = "shut"
    /\ \/ stopping /\ ctl = {} /\ TakesTime
       \/ net = "unplugged"
    /\ Watches /\ UNCHANGED <<at, callVars, evq, stopping, closed, ctl>>

\* at_close ends the pending command; main is told.
WatcherEnds ==
    /\ rdr = "shut" /\ rdr' = "gone" /\ closed' = TRUE /\ Signal
    /\ evq' = Append(evq, "gone")
    /\ Watches /\ UNCHANGED <<callVars, stopping, ctl>>

-----------------------------------------------------------------------------
(***************************************************************************)
(* Signals, time and the modem                                             *)
(***************************************************************************)
Running == at \notin {"exited", "failed"}
Outside == UNCHANGED <<at, todo, sRsp, stateVars, linkVars, evq, watcherVars>>

\* ql_sigaction tells both threads.
SignalStop ==
    /\ Running /\ ~stop /\ stop' = TRUE /\ events < MaxEvents /\ events' = events + 1
    /\ sigq' = Append(sigq, "STOP") /\ ctl' = ctl \cup {"stop"}
    /\ Outside /\ UNCHANGED <<text, slipped, timeVars, net, ip, pend>>

AlarmRings ==
    /\ Running /\ alarm /\ alarm' = FALSE
    /\ sigq' = Put(sigq, "START")
    /\ Outside /\ UNCHANGED <<text, slipped, wait, ctl, stop, modemVars>>

DelayOver ==
    /\ Running /\ wait /\ wait' = FALSE
    /\ Outside /\ UNCHANGED <<text, slipped, alarm, sigq, ctl, stop, modemVars>>

\* The reader takes a line the moment it comes: a line on the way is one the modem has
\* not sent yet.
Plugged == rdr = "run" /\ net # "unplugged"

\* What a command does.  The network may give a new call any address.
Served(c) ==
    /\ ip' \in IF c = "down" THEN {0}
              ELSE IF c = "dial" /\ ip = 0 THEN 1..MaxAddr ELSE {ip}
    /\ c = "dial" => net = "registered"

Bit(c) == IF c THEN 1 ELSE 0

\* A context may be active without a call.
Says(kind) ==
    IF kind = "none" THEN {0}
    ELSE IF kind \in {"cops", "creg"} THEN {Bit(net = "registered")}
    ELSE IF kind = "cgact" THEN {1, Bit(ip # 0)}
    ELSE IF kind = "ctl" THEN {Bit(ip # 0)} ELSE {ip}

\* Commands are answered in order; the modem may refuse any.
Answer ==
    /\ Plugged /\ pend # <<>> /\ pend' = Tail(pend)
    /\ LET c == Head(pend)
       IN  \/ /\ Served(c.cmd)
              /\ \E v \in Says(c.kind) :
                   Receive([kind |-> c.kind, val |-> v, final |-> "ok", own |-> c.own])
           \/ /\ UNCHANGED ip
              /\ Receive([kind |-> "none", val |-> 0, final |-> "error", own |-> c.own])
    /\ UNCHANGED <<slipped, net, events>>

Happens == Plugged /\ Running /\ events < MaxEvents /\ events' = events + 1
Unasked(kind, v, final) == Receive([kind |-> kind, val |-> v, final |-> final, own |-> FALSE])
Silent == Outside /\ UNCHANGED <<text, timeVars, sigq, ctl, stop>>

\* The call ends or comes back with another address; the modem may say so, in a line
\* whose fields need not be those of the answer to a query.
CallChanges ==
    /\ Happens /\ ip # 0
    /\ ip' \in Addrs \ {ip}
    /\ (\E v \in Addrs : Unasked("status", v, "none")) \/ Silent
    /\ UNCHANGED <<slipped, net, pend>>

NetChanges ==
    /\ Happens
    /\ net' = IF net = "none" THEN "registered" ELSE "none"
    /\ ip' = 0
    /\ Unasked("creg", Bit(net = "none"), "none")
    /\ UNCHANGED <<slipped, pend>>

\* The head of an SMS report; a final line nobody asked for (NO CARRIER, or another
\* client's answer sent to all by the proxy).
Interjects ==
    /\ Happens
    /\ \/ Unasked("sms", 0, "none") /\ UNCHANGED slipped
       \/ slipped' = TRUE /\ \E f \in {"ok", "error"} : Unasked("none", 0, f)
    /\ UNCHANGED <<net, ip, pend>>

Unplug ==
    /\ Happens /\ net' = "unplugged" /\ ip' = 0 /\ pend' = <<>>
    /\ Silent /\ UNCHANGED slipped

-----------------------------------------------------------------------------
Handlers ==
    \/ Ready \/ Start \/ Check \/ Stop \/ Started \/ Checked
    \/ Unlink \/ Quit \/ Disconnected \/ NetworkChanged \/ NetworkKnown \/ DataCallChanged

Threads == Eof \/ Control \/ WatcherEnds

Environment ==
    \/ SignalStop \/ AlarmRings \/ DelayOver
    \/ Answer \/ CallChanges \/ NetChanges \/ Interjects \/ Unplug

Main == Send \/ GiveUp \/ Woken \/ Poll \/ PollTimeout \/ Handlers \/ Joined

Next == Main \/ Threads \/ Shut \/ Environment

Spec == Init /\ [][Next]_vars

\* Main runs and time passes, so that a wait ends; nothing is assumed of the modem.
Fairness == WF_vars(Main)

FairSpec == Spec /\ Fairness

-----------------------------------------------------------------------------
(***************************************************************************)
(* Properties                                                              *)
(***************************************************************************)

\* A command is ended by its own final line, though lines carry no id and results,
\* signals and finals get lost, unless an earlier command gave up before its final
\* line came (or one came unasked) and the modem has not caught up since.
OwnFinal == sRsp.final # "none" => sRsp.own \/ slipped

\* An interface without a call, or with an address of an earlier call, does not stay
\* up, whatever the modem says or does not say, and however answers are mixed up;
\* unless registration queries go on setting each other off: the answer to one that
\* comes just too late passes for news, which main looks at before its periodic CHECK.
Stale == link /\ (ip = 0 \/ lease \notin {0, ip})
Flooded == []<>Doing("network")
StaleLinkEnds == Flooded \/ (Stale ~> ~Stale)
=============================================================================
