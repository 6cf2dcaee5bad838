------------------------------- MODULE QmiProxy -------------------------------
(***************************************************************************)
(* quectel-qmi-proxy.c: one QMI channel (/dev/cdc-wdm0) shared by several  *)
(* clients on a local socket.  Requests of the control service (CTL) are   *)
(* put in one queue and go to the modem one at a time; a response belongs  *)
(* to the head of the queue.  From the responses the proxy learns which    *)
(* client ids the modem gave to which connection, sends messages of the    *)
(* other services by client id, and releases the ids of a client that      *)
(* leaves without releasing them.                                          *)
(*                                                                         *)
(* Two threads: main opens the device, sends SYNC until the modem answers  *)
(* and makes the server socket; qmi_proxy_loop polls the device, the       *)
(* server and the clients and handles one event after the other.  One      *)
(* service besides CTL stands for all of them.  A client has at most one   *)
(* unread request in its socket.  The modem takes CTL requests in order.   *)
(* "by" is the connection a message is really for, which the program does  *)
(* not know.                                                               *)
(***************************************************************************)
EXTENDS Integers, Sequences, SequencesExt

CONSTANTS
  Conns,        \* connections made to the socket, each used once
  None,
  Ids,          \* client ids the modem can grant
  MaxFd,        \* bound: descriptors for connections, 1..MaxFd
  MaxTid,       \* bound: CTL requests of a connection, its ids 1..MaxTid
  SyncTries,    \* SYNC requests main sends before it gives up (60)
  RxCap,        \* bound: messages of the modem not yet read by the proxy
  PendCap,      \* bound: requests at the modem when main sends a SYNC
  Faults        \* what else may happen, of FaultKinds

(* "kill": a client gives up or is killed while it waits for an answer;
   "stale": the modem's old answers are still there after the device was opened
   again; "early": the modem sends something else before it answers SYNC;
   "loss": a write to the device times out; "revoke": the modem takes all client
   ids back; "slow": it takes more than a second to answer a SYNC. *)
FaultKinds == {"kill", "stale", "early", "loss", "revoke", "slow"}

ASSUME ConstantsAssumption ==
  /\ None \notin Conns
  /\ MaxFd \in Nat \ {0} /\ MaxTid \in 1..254 /\ SyncTries \in Nat \ {0}
  /\ RxCap \in Nat /\ PendCap \in Nat
  /\ Ids \subseteq Nat \ {0}
  /\ Faults \subseteq FaultKinds

NoId == 0                       \* failed, or addressed to every client
Server == 0                     \* qmi_proxy_server_fd as sender of a request
ReleaseTid == 255
QMUX_TYPE_CTL == 0
QMICTL_CTL_FLAG_IND == 2

Askers == Conns \union {None}
CtlKinds == {"get", "release", "version"}
Kinds == CtlKinds \union {"sync", "revoke", "mux"}

Message == [kind : Kinds, tid : Nat, id : Ids \union {NoId}, by : Askers]
Queued == [fd : 0..MaxFd, msg : Message]

NoAsk == [kind |-> "version", tid |-> 0, id |-> NoId, by |-> None]

VARIABLES
  phase,        \* "shut", "syncing" (no server socket), "serving", "dead"
  syncs,        \* SYNC requests sent since the device was opened
  synced,       \* qmi_sync_done
  fd,           \* descriptor of a connection, 0 when the proxy has none
  backlog,      \* connections that wait for accept
  owned,        \* client ids recorded for a connection, in order
  queue,        \* qmi_proxy_ctl_msg
  peer,         \* the client's end of a connection
  tids,         \* last CTL transaction id used by a connection
  want,         \* the request a client waits for
  up,           \* the request in the socket, not read by the proxy
  mine,         \* client ids a client holds
  pend,         \* requests the modem has received, in order
  granted,      \* the connection that asked for a client id the modem granted
  rx,           \* messages of the modem, not read by the proxy
  got           \* whose messages were written to a connection (history)

mainVars == <<phase, syncs, synced>>
proxyVars == <<fd, backlog, owned, queue>>
clientVars == <<peer, tids, want, up, mine>>
vars == <<mainVars, proxyVars, clientVars, pend, granted, rx, got>>

Clients == {c \in Conns : fd[c] # 0}

TypeOK ==
  /\ phase \in {"shut", "syncing", "serving", "dead"}
  /\ syncs \in 0..SyncTries
  /\ synced \in BOOLEAN
  /\ fd \in [Conns -> 0..MaxFd]
  /\ \A c, d \in Clients : fd[c] = fd[d] => c = d
  /\ backlog \subseteq Conns
  /\ owned \in [Conns -> Seq(Ids)]
  /\ queue \in Seq(Queued)
  /\ peer \in [Conns -> {"new", "linked", "left"}]
  /\ tids \in [Conns -> 0..MaxTid]
  /\ want \in [Conns -> Message] /\ up \in [Conns -> Message]
  /\ mine \in [Conns -> SUBSET Ids]
  /\ pend \in Seq(Message)
  /\ granted \in [Ids -> Askers]
  /\ rx \in Seq(Message)
  /\ got \in [Conns -> SUBSET Askers]

Init ==
  /\ phase = "shut" /\ syncs = 0 /\ synced = FALSE
  /\ fd = [c \in Conns |-> 0]
  /\ backlog = {}
  /\ owned = [c \in Conns |-> <<>>]
  /\ queue = <<>>
  /\ peer = [c \in Conns |-> "new"]
  /\ tids = [c \in Conns |-> 0]
  /\ want = [c \in Conns |-> NoAsk]
  /\ up = [c \in Conns |-> NoAsk]
  /\ mine = [c \in Conns |-> {}]
  /\ pend = <<>>
  /\ granted = [x \in Ids |-> None]
  /\ rx = <<>>
  /\ got = [c \in Conns |-> {}]

-----------------------------------------------------------------------------
(* Operators of the program, some after a faulty variant that the properties
   are tested with. *)

QMIType(m) == IF m.kind = "mux" THEN 1 ELSE QMUX_TYPE_CTL

(* A response is the answer to a request of the queue: same id, same type. *)
Matches(q, m) == q.msg.tid = m.tid /\ q.msg.kind = m.kind

(* send_qmi_to_cdc_wdm: nobody looks at its result. *)
ToModem(m) == pend' = Append(pend, m) \/ ("loss" \in Faults /\ pend' = pend)

(* A request joins the queue; it is sent if the queue was empty. *)
SentAtOnce(q) == TRUE
SentIfFirst(q) == q = <<>>

(* What goes to the modem when the queue has become q by the loss of its head. *)
NothingNext(q) == UNCHANGED pend
SendNext(q) == IF q = <<>> THEN UNCHANGED pend ELSE ToModem(Head(q).msg)

(* RELEASE requests of the proxy itself for the ids of a connection. *)
NoReleases(c) == <<>>
Releases(c) ==
  [k \in 1..Len(owned[c]) |->
     [fd |-> Server,
      msg |-> [kind |-> "release", tid |-> ReleaseTid, id |-> owned[c][k], by |-> None]]]

(* get_client_id and release_client_id: the list of a connection follows the
   responses that report success. *)
FailureRecorded(c, m) ==
  CASE m.kind = "get"     -> Append(owned[c], m.id)
    [] m.kind = "release" -> RemoveFirst(owned[c], m.id)
    [] OTHER              -> owned[c]
ReleaseIgnored(c, m) ==
  IF m.kind = "get" /\ m.id # NoId THEN Append(owned[c], m.id) ELSE owned[c]
Recorded(c, m) ==
  IF m.id = NoId THEN owned[c]
  ELSE CASE m.kind = "get"     -> Append(owned[c], m.id)
         [] m.kind = "release" -> RemoveFirst(owned[c], m.id)
         [] OTHER              -> owned[c]

(* A connection gets the messages for its client ids and those for all ids. *)
HasAnyId(c, m) == owned[c] # <<>>
HasId(c, m) == \E k \in 1..Len(owned[c]) : m.id \in {NoId, owned[c][k]}

(* The test for QMI_CTL_REVOKE_CLIENT_ID_IND looks at the service type where
   the control flags are meant. *)
SeesRevoke(m) == QMIType(m) = QMICTL_CTL_FLAG_IND /\ m.kind = "revoke"

Hup(c) == peer[c] = "left"

(* The client side, QmiWwanCM.c: the answer to the request it waits for; a get
   gives it an id, a release takes one away. *)
Answers(c, m) == want[c] # NoAsk /\ want[c].tid = m.tid /\ want[c].kind = m.kind

Held(c, m) ==
  CASE m.kind = "get" /\ m.id # NoId -> mine[c] \union {m.id}
    [] m.kind = "release"            -> mine[c] \ {want[c].id}
    [] OTHER                         -> mine[c]

-----------------------------------------------------------------------------
(* The process ends by SIGPIPE: it wrote to a connection its client has closed. *)
Killed ==
  /\ phase' = "dead"
  /\ fd' = [c \in Conns |-> 0]
  /\ backlog' = {}
  /\ owned' = [c \in Conns |-> <<>>]
  /\ queue' = <<>>
  /\ UNCHANGED <<syncs, synced, clientVars, pend, granted, got>>

(* main: open the device, start the loop with empty lists. *)
OpenDevice ==
  /\ phase = "shut"
  /\ phase' = "syncing"
  /\ syncs' = 0 /\ synced' = FALSE
  /\ queue' = <<>>
  /\ UNCHANGED <<fd, backlog, owned, clientVars, pend, granted, rx, got>>

(* qmi_proxy_init: one more SYNC, every second until something was read. *)
SendSync ==
  /\ phase = "syncing"
  /\ ~synced /\ syncs < SyncTries /\ Len(pend) < PendCap
  /\ syncs = 0 \/ "slow" \in Faults \/ (pend = <<>> /\ rx = <<>>)
  /\ syncs' = syncs + 1
  /\ ToModem([kind |-> "sync", tid |-> syncs + 1, id |-> NoId, by |-> None])
  /\ UNCHANGED <<phase, synced, proxyVars, clientVars, granted, rx, got>>

(* main: the modem has answered, make the server. *)
Serve ==
  /\ phase = "syncing" /\ synced
  /\ phase' = "serving"
  /\ UNCHANGED <<syncs, synced, proxyVars, clientVars, pend, granted, rx, got>>

(* The end of a round: the loop closes every connection without releasing its
   ids, main closes the server and the device.  Reached when the device hangs
   up or a read of it fails, when no SYNC is answered, and when the server
   cannot be made. *)
EndRound ==
  /\ phase' = "shut"
  /\ fd' = [c \in Conns |-> 0]
  /\ backlog' = {}
  /\ owned' = [c \in Conns |-> <<>>]
  /\ UNCHANGED <<syncs, synced, queue, clientVars, granted, got>>

Restart ==
  /\ phase \in {"syncing", "serving"}
  /\ EndRound
  /\ \/ pend' = <<>> /\ rx' = <<>>
     \/ "stale" \in Faults /\ UNCHANGED <<pend, rx>>

(* accept_qmi_connection: the lowest free descriptor. *)
Accept(c) ==
  /\ phase = "serving"
  /\ c \in backlog
  /\ backlog' = backlog \ {c}
  /\ \E f \in 1..MaxFd :
       /\ \A d \in Conns : fd[d] # f
       /\ \A g \in 1..(f - 1) : \E d \in Conns : fd[d] = g
       /\ fd' = [fd EXCEPT ![c] = f]
  /\ UNCHANGED <<mainVars, owned, queue, clientVars, pend, granted, rx, got>>

(* cleanup_qmi_connection on POLLHUP: queue a release for each id recorded, then
   drop the first request of this descriptor from the queue, even if it is the
   one at the modem; nothing is sent in its place. *)
Disconnect(c) ==
  /\ phase = "serving"
  /\ c \in Clients /\ Hup(c)
  /\ queue' = RemoveFirstMatch(queue \o Releases(c), LAMBDA q : q.fd = fd[c])
  /\ IF SentIfFirst(queue) /\ Releases(c) # <<>> THEN ToModem(Releases(c)[1].msg) ELSE UNCHANGED pend
  /\ owned' = [owned EXCEPT ![c] = <<>>]
  /\ fd' = [fd EXCEPT ![c] = 0]
  /\ UNCHANGED <<mainVars, backlog, clientVars, granted, rx, got>>

(* recv_qmi_from_client for a CTL request. *)
Request(c) ==
  /\ phase = "serving"
  /\ c \in Clients /\ up[c] # NoAsk
  /\ queue' = Append(queue, [fd |-> fd[c], msg |-> up[c]])
  /\ IF SentIfFirst(queue) THEN ToModem(up[c]) ELSE UNCHANGED pend
  /\ up' = [up EXCEPT ![c] = NoAsk]
  /\ UNCHANGED <<mainVars, fd, backlog, owned, peer, tids, want, mine, granted, rx, got>>

(* recv_qmi_from_dev without a server: whatever was read ends the wait for SYNC. *)
FirstMessage ==
  /\ phase = "syncing"
  /\ rx # <<>>
  /\ rx' = Tail(rx)
  /\ synced' = TRUE
  /\ UNCHANGED <<phase, syncs, proxyVars, clientVars, pend, granted, got>>

(* send_qmi_to_client, and what the client does with an answer. *)
Give(c, m) ==
  /\ got' = [got EXCEPT ![c] = @ \union {m.by}]
  /\ IF Answers(c, m)
     THEN /\ want' = [want EXCEPT ![c] = NoAsk]
          /\ mine' = [mine EXCEPT ![c] = Held(c, m)]
     ELSE UNCHANGED <<want, mine>>

(* recv_qmi_from_dev for a CTL response: it is given to the sender of the head
   of the queue if it matches, and the head is dropped in any case. *)
CtlResponse ==
  /\ phase = "serving"
  /\ rx # <<>> /\ Head(rx).kind \in CtlKinds \union {"sync"}
  /\ rx' = Tail(rx)
  /\ LET m == Head(rx)
         receivers == {c \in Clients : fd[c] = Head(queue).fd}
     IN  \/ /\ queue = <<>>
            /\ UNCHANGED <<mainVars, proxyVars, clientVars, pend, granted, got>>
         \/ /\ queue # <<>> /\ (receivers = {} \/ ~Matches(Head(queue), m))
            /\ queue' = Tail(queue)
            /\ SendNext(queue')
            /\ UNCHANGED <<mainVars, fd, backlog, owned, clientVars, granted, got>>
         \/ /\ queue # <<>> /\ Matches(Head(queue), m)
            /\ \E c \in receivers :
                 \/ /\ peer[c] = "left"
                    /\ Killed
                 \/ /\ peer[c] # "left"
                    /\ Give(c, m)
                    /\ owned' = [owned EXCEPT ![c] = Recorded(c, m)]
                    /\ queue' = Tail(queue)
                    /\ SendNext(queue')
                    /\ UNCHANGED <<mainVars, fd, backlog, peer, tids, up, granted>>

(* A CTL indication: a revoke would end the loop if it were seen. *)
CtlIndication ==
  /\ phase = "serving"
  /\ rx # <<>> /\ Head(rx).kind = "revoke"
  /\ rx' = Tail(rx)
  /\ IF SeesRevoke(Head(rx))
     THEN EndRound /\ UNCHANGED pend
     ELSE UNCHANGED <<mainVars, proxyVars, clientVars, pend, granted, got>>

(* A message of another service goes to every connection that has its client
   id, or any id if it is for all. *)
MuxMessage ==
  /\ phase = "serving"
  /\ rx # <<>> /\ Head(rx).kind = "mux"
  /\ rx' = Tail(rx)
  /\ LET m == Head(rx)
         receivers == {c \in Clients : HasId(c, m)}
     IN  \/ /\ \E c \in receivers : peer[c] = "left"
            /\ Killed
         \/ /\ \A c \in receivers : peer[c] # "left"
            /\ got' = [c \in Conns |-> IF c \in receivers THEN got[c] \union {m.by} ELSE got[c]]
            /\ UNCHANGED <<mainVars, proxyVars, clientVars, pend, granted>>

-----------------------------------------------------------------------------
(* The modem takes the next CTL request: SYNC frees every client id, get grants
   a free one or fails, release frees one. *)
ModemAnswers ==
  /\ pend # <<>> /\ Len(rx) < RxCap
  /\ pend' = Tail(pend)
  /\ LET m == Head(pend) IN
       \/ /\ m.kind = "sync"
          /\ granted' = [x \in Ids |-> None]
          /\ rx' = Append(rx, m)
       \/ /\ m.kind = "get"
          /\ \/ \E x \in Ids : /\ granted[x] = None
                               /\ granted' = [granted EXCEPT ![x] = m.by]
                               /\ rx' = Append(rx, [m EXCEPT !.id = x])
             \/ /\ \A x \in Ids : granted[x] # None
                /\ rx' = Append(rx, m)
                /\ UNCHANGED granted
       \/ /\ m.kind = "release"
          /\ granted' = [granted EXCEPT ![m.id] = None]
          /\ rx' = Append(rx, IF granted[m.id] = None THEN [m EXCEPT !.id = NoId] ELSE m)
       \/ /\ m.kind = "version"
          /\ rx' = Append(rx, m)
          /\ UNCHANGED granted
  /\ UNCHANGED <<mainVars, proxyVars, clientVars, got>>

(* An answer or an indication of another service for a client id, or for all. *)
ModemSends(x) ==
  /\ phase = "serving" \/ "early" \in Faults
  /\ Len(rx) < RxCap
  /\ x # NoId => granted[x] # None
  /\ rx' = Append(rx, [kind |-> "mux", tid |-> 0, id |-> x,
                       by |-> IF x = NoId THEN None ELSE granted[x]])
  /\ UNCHANGED <<mainVars, proxyVars, clientVars, pend, granted, got>>

ModemRevokes ==
  /\ "revoke" \in Faults
  /\ Len(rx) < RxCap
  /\ rx' = Append(rx, [kind |-> "revoke", tid |-> 0, id |-> NoId, by |-> None])
  /\ granted' = [x \in Ids |-> None]
  /\ UNCHANGED <<mainVars, proxyVars, clientVars, pend, got>>

(* Clients connect, ask, give up after a timeout, and leave. *)
ClientConnects(c) ==
  /\ phase = "serving"
  /\ peer[c] = "new"
  /\ peer' = [peer EXCEPT ![c] = "linked"]
  /\ backlog' = backlog \union {c}
  /\ UNCHANGED <<mainVars, fd, owned, queue, tids, want, up, mine, pend, granted, rx, got>>

ClientAsks(c) ==
  /\ peer[c] = "linked" /\ c \in backlog \union Clients
  /\ want[c] = NoAsk /\ up[c] = NoAsk
  /\ tids[c] < MaxTid
  /\ tids' = [tids EXCEPT ![c] = @ + 1]
  /\ \E k \in CtlKinds, x \in Ids \union {NoId} :
       /\ x \in IF k = "release" THEN mine[c] ELSE {NoId}
       /\ want' = [want EXCEPT ![c] = [kind |-> k, tid |-> tids'[c], id |-> x, by |-> c]]
  /\ up' = [up EXCEPT ![c] = want'[c]]
  /\ UNCHANGED <<mainVars, proxyVars, peer, mine, pend, granted, rx, got>>

ClientGivesUp(c) ==
  /\ "kill" \in Faults
  /\ peer[c] = "linked" /\ want[c] # NoAsk
  /\ want' = [want EXCEPT ![c] = NoAsk]
  /\ UNCHANGED <<mainVars, proxyVars, peer, tids, up, mine, pend, granted, rx, got>>

ClientLeaves(c) ==
  /\ peer[c] = "linked"
  /\ "kill" \in Faults \/ want[c] = NoAsk
  /\ peer' = [peer EXCEPT ![c] = "left"]
  /\ UNCHANGED <<mainVars, proxyVars, tids, want, up, mine, pend, granted, rx, got>>

Dead == phase = "dead" /\ UNCHANGED vars

Main == OpenDevice \/ SendSync \/ Serve

Loop ==
  \/ FirstMessage \/ CtlResponse \/ CtlIndication \/ MuxMessage
  \/ \E c \in Conns : Accept(c) \/ Disconnect(c) \/ Request(c)

Environment ==
  \/ Restart \/ ModemAnswers \/ ModemRevokes
  \/ \E x \in Ids \union {NoId} : ModemSends(x)
  \/ \E c \in Conns : ClientConnects(c) \/ ClientAsks(c) \/ ClientGivesUp(c) \/ ClientLeaves(c)

Next == Main \/ Loop \/ Environment \/ Dead

Spec == Init /\ [][Next]_vars

(* poll reports every descriptor that is ready and the loop handles each one;
   the modem answers what it was sent. *)
Fairness ==
  /\ WF_vars(CtlResponse \/ CtlIndication \/ MuxMessage)
  /\ SF_vars(ModemAnswers)
  /\ \A c \in Conns : WF_vars(Accept(c)) /\ WF_vars(Disconnect(c)) /\ WF_vars(Request(c))

FairSpec == Spec /\ Fairness

-----------------------------------------------------------------------------
AtModem == ToSet(pend) \union ToSet(rx)
CtlAtModem == {m \in AtModem : m.kind \in CtlKinds}

(* While clients leave only when they wait for nothing, the modem has no more
   than one CTL request at a time and it is the head of the queue: the rule
   that recv_qmi_from_client, recv_qmi_from_dev and cleanup_qmi_connection keep
   between them. *)
OneAtATime ==
  phase = "serving" =>
    /\ queue = <<>> => CtlAtModem = {}
    /\ queue # <<>> => \E m \in CtlAtModem : CtlAtModem = {m} /\ Matches(Head(queue), m)
                                             /\ Head(queue).msg.by = m.by

(* A connection is given the answers to its own requests and the messages for
   its own client ids, whatever ids the clients chose. *)
AnswersKeptApart == \A c \in Conns : got[c] \subseteq {c, None}

(* The modem has granted no client id that nobody will release: each one is
   recorded for a client, about to be recorded, or to be released by the proxy. *)
Accounted(x) ==
  \/ \E c \in Clients : Contains(owned[c], x)
  \/ \E k \in 1..Len(rx) : rx[k].kind = "get" /\ rx[k].id = x
  \/ \E k \in 1..Len(queue) : queue[k].fd = Server /\ queue[k].msg.id = x

NoIdLeaks == phase = "serving" => \A x \in Ids : granted[x] # None => Accounted(x)

(* No client id is recorded for two connections, or twice for one. *)
OneOwner ==
  \A c, d \in Clients : \A j \in 1..Len(owned[c]), k \in 1..Len(owned[d]) :
    owned[c][j] = owned[d][k] => c = d /\ j = k

(* A connection that is closed while the proxy goes on leaves a release in the
   queue for each client id it had, whatever else is queued: what dropping the
   first request of its descriptor takes away is none of them. *)
CleanupReleasesIds ==
  [][\A c \in Conns : c \in Clients /\ fd'[c] = 0 /\ phase' = "serving" =>
       \A k \in 1..Len(owned[c]) :
         \E j \in 1..Len(queue') : queue'[j].fd = Server /\ queue'[j].msg.id = owned[c][k]]_vars

(* A client that waits for an answer gets it, or the round ends. *)
AskAnswered == \A c \in Conns : (c \in Clients /\ want[c] # NoAsk)
                                  ~> (c \notin Clients \/ want[c] = NoAsk)

=============================================================================
