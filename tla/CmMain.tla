-------------------------------- MODULE CmMain --------------------------------
(***************************************************************************)
(* qmi_main of quectel-CM over the QMI request operations: set up a data   *)
(* call for each address family, check it every 15 seconds, keep the       *)
(* interface in step with it, dial again after a loss with a growing       *)
(* delay, take the calls down on SIGTERM, and start over after a modem     *)
(* reset.                                                                  *)
(*                                                                         *)
(* One turn of the loop is: poll, then at most one signal number, then at  *)
(* most one event of the reader thread.  A handler is one action: what it  *)
(* tells the modem is a request whose result is chosen from the results    *)
(* the request can have at that moment.  An aborted request (the reader    *)
(* gives up after SIGTERM or when the device is gone) returns 0 and leaves *)
(* everything as it was, though the modem may have obeyed.                 *)
(*                                                                         *)
(* Not modelled: the loopback mode, and the branches for MBIM and AT       *)
(* modems.  Of the addresses only the one of IPv4 is.                      *)
(***************************************************************************)
EXTENDS Integers, Sequences

CONSTANTS
    Families,     \* address families enabled: 4, 6
    Addrs,        \* IPv4 addresses the network gives
    Credentials,  \* user and password are set, so a refused call is tried twice
    Faults,       \* what else may happen, of FaultKinds
    MaxEvents     \* bound: things that happen at the modem by themselves

\* "lost": the modem sets a call up after the request timed out; "noip" and
\* "noquery": asking for the address (the status) fails; "nostop": STOP_NETWORK is
\* refused, times out or cannot be written; "readdress": the modem changes the address
\* of a call or wants it set up anew; "reset": it resets.
FaultKinds == {"lost", "noip", "noquery", "nostop", "readdress", "reset"}

ASSUME ConstantsAssumption ==
    /\ Families \subseteq {4, 6} /\ Families # {}
    /\ Addrs \subseteq Nat \ {0} /\ Addrs # {}
    /\ Credentials \in BOOLEAN /\ Faults \subseteq FaultKinds /\ MaxEvents \in Nat

VARIABLES
    phase,     \* "begin" (no sockets yet), "init", "loop", "quit", "exited"
    fam,       \* per family: status, WdsConnectionHandle, and the modem's side
    link,      \* s_link: the families the interface is up for
    conf,      \* IPv4 address on the interface, 0 for none
    attached,  \* PSAttachedState = 1
    fails,     \* SetupCallFail, up to Slow
    wait,      \* time to SetupCallAllowTime: "none", "short", "long" (over 15 s)
    alarm,     \* a SIGALRM is due
    sigq,      \* signal_control_fd
    evq,       \* events of the reader on qmidevice_control_fd
    ready,     \* which of the two poll has reported and the turn has not handled
    again,     \* g_donot_exit_when_modem_hangup
    stop,      \* SIGINT or SIGTERM: "no", "heard" by the sockets of this round, "lost"
    reg,       \* the network has the modem registered
    modem,     \* "ok", "revoked" (it has reset: the clients are void), "removed"
    events     \* things that happened at the modem by themselves

stateVars == <<fam, link, conf>>
timeVars == <<fails, wait, alarm>>
modemVars == <<reg, modem, events>>
vars == <<phase, stateVars, attached, timeVars, sigq, evq, ready, again, stop, modemVars>>

\* up and ip are the modem's: the call exists, and its address.  addr is
\* profile->ipv4.Address.  A handle is stale when its call has ended, and kept when
\* STOP_NETWORK for it has failed; to the program all three are one.
Family == [status : {"unknown", "connected", "disconnected"},
           handle : {"none", "good", "kept", "stale"}, up : BOOLEAN,
           ip : Addrs \cup {0}, addr : Addrs \cup {0}]

\* allow_time is 5, 10, 20, 40, 60 s: from the third refusal on longer than poll waits.
Slow == 2

Signos == {"START", "CHECK", "STOP"}
Events == {"disconnected", "network", "datacall", "reset"}

TypeOK ==
    /\ phase \in {"begin", "init", "loop", "quit", "exited"}
    /\ fam \in [Families -> Family]
    /\ link \subseteq Families /\ conf \in Addrs \cup {0}
    /\ attached \in BOOLEAN /\ alarm \in BOOLEAN
    /\ fails \in 0..Slow /\ wait \in {"none", "short", "long"}
    /\ sigq \in Seq(Signos) /\ evq \in Seq(Events)
    /\ ready \subseteq {"signo", "event"}
    /\ again \in BOOLEAN /\ stop \in {"no", "heard", "lost"}
    /\ reg \in BOOLEAN /\ modem \in {"ok", "revoked", "removed"} /\ events \in 0..MaxEvents

NoCall == [status |-> "unknown", handle |-> "none", up |-> FALSE, ip |-> 0, addr |-> 0]

Init ==
    /\ phase = "begin" /\ fam = [f \in Families |-> NoCall] /\ link = {} /\ conf = 0
    /\ attached = FALSE /\ fails = 0 /\ wait = "none" /\ alarm = FALSE
    /\ sigq = <<>> /\ evq = <<>> /\ ready = {}
    /\ again = FALSE /\ stop = "no"
    /\ reg \in BOOLEAN /\ modem = "ok" /\ events = 0

-----------------------------------------------------------------------------
(***************************************************************************)
(* Requests to the modem: from the record of a family to the set of        *)
(* results it can have.                                                    *)
(***************************************************************************)
Result(e, r) == [err |-> e, fam |-> r]
When(c, S) == IF c THEN S ELSE {}
Fault(x) == x \in Faults
Off(r) == [r EXCEPT !.status = "disconnected"]

\* The modem answers.
Serves == modem = "ok"

\* The reader aborts requests once SIG_EVENT_STOP has reached it or it has ended.
Aborts == stop = "heard" \/ modem = "removed"

\* The call of a family ends at the modem.
Ended(r) == [r EXCEPT !.up = FALSE, !.ip = 0,
                      !.handle = IF r.handle = "none" THEN "none" ELSE "stale"]

\* The call as the modem may have set it up.
Dialled(f, r) ==
    When(reg /\ Serves, IF r.up THEN {r} ELSE {[r EXCEPT !.up = TRUE, !.ip = a] : a \in IF f = 4 THEN Addrs ELSE {0}})

Setup(f, r) ==
    {Result(0, [c EXCEPT !.handle = "good"]) : c \in Dialled(f, r)}
    \cup {Result(1, c) : c \in {r} \cup When(Fault("lost"), Dialled(f, r))}
    \cup {Result(0, c) : c \in When(Aborts, {r} \cup Dialled(f, r))}

\* Without a handle requestGetIPAddress clears the address and returns 0.
GetIP(r) ==
    LET z == [r EXCEPT !.addr = 0]
    IN  IF r.handle = "none" THEN {Result(0, z)}
        ELSE When(Serves, {IF r.up THEN Result(0, [r EXCEPT !.addr = r.ip]) ELSE Result(1, z)})
             \cup When(Fault("noip") \/ ~Serves, {Result(1, z)})
             \cup When(Aborts, {Result(0, z)})

\* The status; without a call, or with one to be set up anew, the handle is dropped.
Dropped(r) == [r EXCEPT !.status = "disconnected", !.handle = "none"]
Query(r) ==
    When(Serves, {Result(0, IF r.up THEN [r EXCEPT !.status = "connected"] ELSE Dropped(r))})
    \cup When(Serves /\ Fault("readdress"), {Result(0, Dropped(r))})
    \cup When(~Serves \/ Fault("noquery"), {Result(1, r)})
    \cup When(Aborts, {Result(0, r)})

\* A call can be taken down only by its handle.  When the request fails the handle
\* stays, and no caller looks at the error; a request that timed out may be obeyed.
Deactivate(r) ==
    IF ~Serves \/ r.handle \notin {"good", "kept"} THEN {r}
    ELSE {[Ended(r) EXCEPT !.handle = "none"]} \cup When(Aborts, {Ended(r)})
         \cup When(Fault("nostop"), {[r EXCEPT !.handle = "kept"], Ended(r)})

Registration == When(Serves, {reg}) \cup When(~Serves \/ Fault("noquery") \/ Aborts, {attached})

-----------------------------------------------------------------------------
(***************************************************************************)
(* What the handlers make of them for one family, some after a faulty      *)
(* variant that the properties are tested with.                            *)
(***************************************************************************)

\* SIG_EVENT_START: set up, once more with the other authentication if the call
\* was refused, and fetch the address.
Attempts(f, r) ==
    Setup(f, r) \cup When(f = 4 /\ Credentials,
                       UNION {Setup(f, o.fam) : o \in {p \in Setup(f, r) : p.err # 0}})

Addressed(i) == IF i.err = 0 THEN [i.fam EXCEPT !.status = "connected"] ELSE i.fam

Started(f, r) ==
    IF r.status = "connected" THEN {r}
    ELSE UNION {IF o.err = 0 THEN {Addressed(i) : i \in GetIP(o.fam)} ELSE {o.fam}
                : o \in Attempts(f, r)}

\* check_ipv4_address: a call whose address is another one now is taken down.
NotCompared(r) == {r}
AddressChecked(r) ==
    UNION {IF i.err = 0 /\ i.fam.addr = r.addr THEN {i.fam}
           ELSE {Off(d) : d \in Deactivate(i.fam)} : i \in GetIP(r)}

Checked4(q) ==
    IF q.err # 0 THEN {Off(q.fam)}
    ELSE IF q.fam.status # "connected" THEN {q.fam}
    ELSE UNION {IF i.err = 0 THEN AddressChecked(i.fam) ELSE {Off(i.fam)}
                : i \in IF q.fam.addr = 0 THEN GetIP(q.fam) ELSE {q}}

\* SIG_EVENT_CHECK: a call known to be down is not asked about, and for IPv6 it
\* is not noticed when asking fails.
Checked(f, r) ==
    IF r.status = "disconnected" THEN {r}
    ELSE UNION {IF f = 4 THEN Checked4(q) ELSE {q.fam} : q \in Query(r)}

\* SIG_EVENT_STOP.
LeftUp(f, r) == {r}
HungUp(f, r) == IF r.status = "connected" THEN Deactivate(r) ELSE {r}

-----------------------------------------------------------------------------
(***************************************************************************)
(* The interface                                                           *)
(***************************************************************************)
ConnectedIn(F) == {f \in Families : F[f].status = "connected"}
DownIn(F) == {f \in Families : F[f].status = "disconnected"}

\* The link CHECK decides on: an unknown status alone changes nothing.
LinkFor(F) ==
    IF DownIn(F) = Families THEN {} ELSE IF ConnectedIn(F) # {} THEN ConnectedIn(F) ELSE link

\* udhcpc_start gives the interface the address of the IPv4 call if there is one
\* and leaves what it has otherwise; udhcpc_stop flushes it.
OnlyWhenRaised(l, F) == IF l = {} THEN 0 ELSE IF link = {} /\ 4 \in l THEN F[4].addr ELSE conf
Configured(l, F) ==
    IF l = {} THEN 0 ELSE IF 4 \in l /\ F[4].addr # 0 THEN F[4].addr ELSE conf

\* usbnet_link_change(l): nothing if l is the link already.
LinkChange(l, F) ==
    /\ link' = l
    /\ conf' = IF l = link THEN conf ELSE Configured(l, F)
    /\ fam' = [f \in Families |-> IF l # link /\ f \notin l THEN [F[f] EXCEPT !.addr = 0] ELSE F[f]]

\* __main_quit.
Stays(F) == UNCHANGED phase /\ LinkChange({}, F)
Quit(F) == phase' = "quit" /\ LinkChange({}, F)

\* One record of each family out of those its handler may leave.
Choices(Op(_, _)) ==
    LET results(f) == IF f \in Families THEN Op(f, fam[f]) ELSE {NoCall}
    IN  {[f \in Families |-> IF f = 4 THEN four ELSE six] :
            four \in results(4), six \in results(6)}

-----------------------------------------------------------------------------
(***************************************************************************)
(* The program                                                             *)
(***************************************************************************)

\* quectel_CM: with a device found, qmi_main makes its sockets and its variables.
\* The new WDS clients of the round have no call.
Open ==
    /\ phase = "begin"
    /\ IF modem = "removed" THEN phase' = "quit" /\ UNCHANGED <<fam, modem>>
       ELSE /\ phase' = "init" /\ modem' = "ok"
            /\ fam' = [f \in Families |-> [Ended(fam[f]) EXCEPT !.status = "unknown"]]
    /\ sigq' = <<>> /\ evq' = <<>> /\ ready' = {}
    /\ attached' = FALSE /\ fails' = 0 /\ wait' = "none"
    /\ stop' = IF stop = "heard" THEN "lost" ELSE stop
    /\ UNCHANGED <<link, conf, alarm, again, reg, events>>

\* The reader is connected, the modem is asked for versions, SIM and profile.
InitDone ==
    /\ phase = "init"
    /\ phase' = "loop"
    /\ attached' \in Registration
    /\ sigq' = Append(sigq, "CHECK")
    /\ UNCHANGED <<stateVars, timeVars, evq, ready, again, stop, modemVars>>

\* qmi_main returns from the middle, without __main_quit.
InitFails ==
    /\ phase = "init"
    /\ phase' = "quit"
    /\ UNCHANGED <<stateVars, attached, timeVars, sigq, evq, ready, again, stop, modemVars>>

\* A delay longer than poll waits is over only after poll or a request has taken time.
TimePasses == wait' = IF wait = "long" THEN "short" ELSE wait

\* poll reports which descriptors have input.
Poll ==
    /\ phase = "loop" /\ ready = {}
    /\ ready' = When(sigq # <<>>, {"signo"}) \cup When(evq # <<>>, {"event"})
    /\ ready' # {}
    /\ UNCHANGED <<phase, stateVars, attached, timeVars, sigq, evq, again, stop, modemVars>>

\* After 15 s without input it times out.
PollTimeout ==
    /\ phase = "loop" /\ ready = {} /\ sigq = <<>> /\ evq = <<>>
    /\ sigq' = <<"CHECK">>
    /\ TimePasses
    /\ UNCHANGED <<phase, stateVars, attached, fails, alarm, evq, ready, again, stop, modemVars>>

\* The next signal number is s; reading it cancels the alarm.
Signo(s) == phase = "loop" /\ "signo" \in ready /\ Head(sigq) = s /\ ready' = ready \ {"signo"}

\* SIG_EVENT_START without a network, or before the delay is over.
StartNot ==
    /\ Signo("START") /\ (~attached \/ wait # "none")
    /\ alarm' = attached
    /\ sigq' = Tail(sigq)
    /\ UNCHANGED <<phase, stateVars, attached, fails, wait, evq, again, stop, modemVars>>

\* SetupCallFail indexes allow_time only within it.
Unbounded(a, b) == a
Lesser(a, b) == IF a < b THEN a ELSE b

Start ==
    /\ Signo("START") /\ attached /\ wait = "none"
    /\ \E F \in Choices(Started) :
         /\ fam' = F
         /\ alarm' = (DownIn(F) # {})
         /\ wait' = IF DownIn(F) = {} THEN "none" ELSE IF fails < Slow THEN "short" ELSE "long"
         /\ fails' = IF DownIn(F) # {} THEN Lesser(fails + 1, Slow)
                     ELSE IF ConnectedIn(F) # {} THEN 0 ELSE fails
    /\ sigq' = Tail(sigq)
    /\ UNCHANGED <<phase, link, conf, attached, evq, again, stop, modemVars>>

\* The START that CHECK queues for a family that is down.
NoRedial(F) == <<>>
Redial(F) == IF DownIn(F) # {} THEN <<"START">> ELSE <<>>

Check ==
    /\ Signo("CHECK")
    /\ attached' \in IF attached THEN {TRUE} ELSE Registration
    /\ \E F \in Choices(Checked) :
         /\ LinkChange(LinkFor(F), F)
         /\ sigq' = Tail(sigq) \o Redial(F)
    /\ alarm' = FALSE /\ TimePasses
    /\ UNCHANGED <<phase, fails, evq, again, stop, modemVars>>

\* Take down what is connected and quit; deinit releases the WDS clients, at
\* which the modem may end the calls they have.
Stop ==
    /\ Signo("STOP")
    /\ \E F \in Choices(HungUp) : Quit(F) \/ Quit([f \in Families |-> Ended(F[f])])
    /\ alarm' = FALSE
    /\ sigq' = Tail(sigq)
    /\ UNCHANGED <<attached, fails, wait, evq, again, stop, modemVars>>

\* The next event of the reader is e; a signal number reported with it goes first.
Event(e) == phase = "loop" /\ ready = {"event"} /\ Head(evq) = e /\ ready' = {} /\ evq' = Tail(evq)

Disconnected ==
    /\ Event("disconnected")
    /\ Quit(fam)
    /\ UNCHANGED <<attached, timeVars, sigq, again, stop, modemVars>>

NetworkChanged ==
    /\ Event("network")
    /\ attached' \in Registration
    /\ IF attached' THEN /\ sigq' = sigq \o Redial(fam)
                         /\ TimePasses
                    ELSE wait' = "none" /\ UNCHANGED sigq
    /\ UNCHANGED <<phase, stateVars, fails, alarm, again, stop, modemVars>>

DataCallChanged ==
    /\ Event("datacall")
    /\ IF ConnectedIn(fam) # {} THEN wait' = "short" ELSE TimePasses
    /\ sigq' = Append(sigq, "CHECK")
    /\ UNCHANGED <<phase, stateVars, attached, fails, alarm, again, stop, modemVars>>

ModemReset ==
    /\ Event("reset")
    /\ again' = TRUE
    /\ Quit(fam)
    /\ UNCHANGED <<attached, timeVars, sigq, stop, modemVars>>

\* The reader is joined and the sockets are closed; main starts over or returns.
RoundEnds ==
    /\ phase = "quit"
    /\ phase' = IF again THEN "begin" ELSE "exited"
    /\ UNCHANGED <<stateVars, attached, timeVars, sigq, evq, ready, again, stop, modemVars>>

Exited == phase = "exited" /\ UNCHANGED vars

-----------------------------------------------------------------------------
(***************************************************************************)
(* Signals, time and the modem                                             *)
(***************************************************************************)

\* ql_sigaction on SIGINT or SIGTERM.  Between two rounds, and before the first,
\* no socket takes what it writes.
SignalStop ==
    /\ phase # "exited" /\ stop # "heard"
    /\ again' = FALSE
    /\ IF phase = "begin" THEN stop' = "lost" /\ UNCHANGED sigq
                          ELSE stop' = "heard" /\ sigq' = Append(sigq, "STOP")
    /\ UNCHANGED <<phase, stateVars, attached, timeVars, evq, ready, modemVars>>

AlarmRings ==
    /\ alarm /\ wait # "long" /\ alarm' = FALSE
    /\ sigq' = IF phase \in {"init", "loop"} THEN Append(sigq, "START") ELSE sigq
    /\ UNCHANGED <<phase, stateVars, attached, fails, wait, evq, ready, again, stop, modemVars>>

DelayOver ==
    /\ wait = "short" /\ wait' = "none"
    /\ UNCHANGED <<phase, stateVars, attached, fails, alarm, sigq, evq, ready, again, stop, modemVars>>

\* Something happens at the modem, and it may report it by the events E.
Happens(E) ==
    /\ phase \in {"init", "loop"} /\ Serves
    /\ events < MaxEvents /\ events' = events + 1
    /\ evq' \in {evq \o e : e \in E}
    /\ UNCHANGED <<phase, link, conf, attached, timeVars, sigq, ready, again, stop>>

CallEnds(f) ==
    /\ fam[f].up
    /\ fam' = [fam EXCEPT ![f] = Ended(@)]
    /\ Happens({<<>>, <<"datacall">>})
    /\ UNCHANGED <<reg, modem>>

AddressChanges(f) ==
    /\ Fault("readdress") /\ f = 4 /\ fam[f].up
    /\ \E a \in Addrs : fam' = [fam EXCEPT ![f].ip = a]
    /\ Happens({<<>>, <<"datacall">>})
    /\ UNCHANGED <<reg, modem>>

RegistrationChanges ==
    /\ reg' = ~reg
    /\ Happens({<<"network">>})
    /\ UNCHANGED <<fam, modem>>

\* The modem resets, or is removed, and so its calls end.
Lost(how, event) ==
    /\ modem' = how
    /\ fam' = [f \in Families |-> Ended(fam[f])]
    /\ Happens({<<event>>})
    /\ UNCHANGED reg

Revokes == Fault("reset") /\ Lost("revoked", "reset")
Removed == Lost("removed", "disconnected")

BackAgain ==
    /\ modem = "removed" /\ phase \in {"begin", "quit"}
    /\ modem' = "ok"
    /\ UNCHANGED <<phase, stateVars, attached, timeVars, sigq, evq, ready, again, stop, reg, events>>

Handlers ==
    \/ StartNot \/ Start \/ Check \/ Stop
    \/ Disconnected \/ NetworkChanged \/ DataCallChanged \/ ModemReset

Environment ==
    \/ SignalStop \/ AlarmRings \/ DelayOver
    \/ \E f \in Families : CallEnds(f) \/ AddressChanges(f)
    \/ RegistrationChanges \/ Revokes \/ Removed \/ BackAgain

Next ==
    \/ Open \/ InitDone \/ InitFails \/ Poll \/ PollTimeout \/ Handlers \/ RoundEnds \/ Exited
    \/ Environment

Spec == Init /\ [][Next]_vars

\* The program runs and its delays end; nothing is assumed of the modem.
Fairness ==
    /\ WF_vars(Open) /\ WF_vars(InitDone) /\ WF_vars(RoundEnds)
    /\ WF_vars(Poll) /\ WF_vars(PollTimeout) /\ WF_vars(Handlers) /\ WF_vars(DelayOver)

FairSpec == Spec /\ Fairness

-----------------------------------------------------------------------------
(***************************************************************************)
(* Properties                                                              *)
(***************************************************************************)

\* While it is up for IPv4 the interface has the address in the profile, though
\* it is configured only when the link changes.
AddressConfigured == Serves /\ ~Aborts /\ 4 \in link => conf = fam[4].addr

\* After SIGTERM a call of which the program has the handle is left up only if its
\* STOP_NETWORK failed, whatever came before: losses, changes of address, restarts.
NoCallLeftUp == phase = "exited" /\ stop = "heard" => \A f \in Families :
    fam[f].up => fam[f].handle # "good"

\* The program ends after a SIGTERM it has heard unless a reset of the modem
\* restarts it.
StopEnds == stop = "heard" ~> (phase = "exited" \/ again)

\* The interface agrees with the modem again after a loss or a change of address,
\* even if the modem reports nothing.
Agrees(f) == f \in link => fam[f].up /\ (f = 4 => conf = fam[4].ip)
LossNoticed == \A f \in Families : []<>(Agrees(f))

\* A family known to be down is dialled again and again while the program knows
\* of a network.
Waiting(f) == phase = "loop" /\ attached /\ fam[f].status = "disconnected"
RedialsForever == \A f \in Families : []<>(~Waiting(f)) \/ []<><<Start>>_vars
=============================================================================
