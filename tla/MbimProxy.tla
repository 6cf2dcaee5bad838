------------------------------- MODULE MbimProxy -------------------------------
(***************************************************************************)
(* quectel-mbim-proxy.c: one MBIM control channel (/dev/cdc-wdm0) shared   *)
(* by several clients on a local socket.  The proxy keeps no table of      *)
(* outstanding requests: it writes the index of the client's slot in the   *)
(* top byte of the transaction id and reads it back from the response.     *)
(*                                                                         *)
(* The process is single threaded.  proxy_loop takes one poll snapshot and *)
(* handles its events one after the other; each handler is one action.  A  *)
(* peer may close after the snapshot, so a request may be read from a      *)
(* client that has left, and a response may be written to one: no handler  *)
(* of SIGPIPE is installed, so that write ends the process.                *)
(*                                                                         *)
(* A client has at most one unread command in its socket (mbim-cm.c sends  *)
(* the next one after the answer or the time-out of the last).  What a     *)
(* client has read is kept in "got" with the identity of the asker, which  *)
(* the program does not know.                                              *)
(***************************************************************************)
EXTENDS Integers, Sequences

CONSTANTS
  Conns,        \* connections made to the socket, each used once
  None,         \* a free slot, an empty socket, the proxy as asker
  CM_MAX_CLIENT,
  MaxTid,       \* commands a connection sends: its transaction ids 1..MaxTid
  RxCap,        \* bound: messages of the device not yet read by the proxy
  HalfClose     \* whether a client may shut down only its sending side

TID_RANGE == 16777216           \* TID_MASK + 1 = 2 ^ TID_SHIFT

ASSUME ConstantsAssumption ==
  /\ None \notin Conns
  /\ CM_MAX_CLIENT \in 1..32
  /\ MaxTid \in 1..(TID_RANGE - 1)
  /\ RxCap \in Nat
  /\ HalfClose \in BOOLEAN

Slots == 1..CM_MAX_CLIENT       \* client_idx, i + 1
Askers == Conns \union {None}

Message == [kind : {"open", "cmd", "ind"}, by : Askers, tid : 0..MaxTid, wire : Nat]
Ask     == [kind : {"open", "cmd"}, tid : 1..MaxTid]
NoAsk   == [kind |-> "none", tid |-> 0]
Reading == [by : Askers, asked : 0..MaxTid, seen : 0..(TID_RANGE - 1)]

VARIABLES
  phase,        \* "shut", "opening" (no server socket), "open", "dead"
  bound,        \* a server socket was left open by an early return of proxy_loop
  backlog,      \* connections that wait for accept
  slot,         \* cm_clients: the connection in each slot
  held,         \* accepted connections whose descriptor the process has open
  peer,         \* the client's end of a connection
  tids,         \* last transaction id used by a connection
  up,           \* command in the socket, not read by the proxy
  pend,         \* commands the device has received and not answered
  rx,           \* messages of the device, not read by the proxy
  got           \* responses and indications written to a connection

process == <<phase, bound, backlog, slot, held>>
vars == <<phase, bound, backlog, slot, held, peer, tids, up, pend, rx, got>>

Occupants == {slot[i] : i \in Slots} \ {None}

TypeOK ==
  /\ phase \in {"shut", "opening", "open", "dead"}
  /\ bound \in BOOLEAN
  /\ backlog \subseteq Conns
  /\ slot \in [Slots -> Askers]
  /\ held \subseteq Conns
  /\ peer \in [Conns -> {"new", "linked", "half", "left"}]
  /\ tids \in [Conns -> 0..MaxTid]
  /\ up \in [Conns -> Ask \union {NoAsk}]
  /\ pend \subseteq Message
  /\ rx \in Seq(Message)
  /\ got \in [Conns -> SUBSET Reading]

OpenMsg == [kind |-> "open", by |-> None, tid |-> 1, wire |-> 1]
Indication == [kind |-> "ind", by |-> None, tid |-> 0, wire |-> 0]

Init ==
  /\ phase = "shut"
  /\ bound = FALSE
  /\ backlog = {}
  /\ slot = [i \in Slots |-> None]
  /\ held = {}
  /\ peer = [c \in Conns |-> "new"]
  /\ tids = [c \in Conns |-> 0]
  /\ up = [c \in Conns |-> NoAsk]
  /\ pend = {}
  /\ rx = <<>>
  /\ got = [c \in Conns |-> {}]

-----------------------------------------------------------------------------
(* Operators of the program, some after a faulty variant that the properties
   are tested with. *)

(* Wire id of a command of slot i: the index goes in the top byte, which the
   client's own id does not use, so the bitwise or is a sum. *)
ZeroBasedWire(i, t) == t + (i - 1) * TID_RANGE
WireTid(i, t) == t + i * TID_RANGE

(* Slot and client id read back from a response. *)
SlotOf(w) == w \div TID_RANGE
UnmaskedTid(w) == w
ClientTid(w) == w % TID_RANGE

(* The slot that accept fills: the first one with no descriptor. *)
FirstFree(i) == slot[i] = None /\ \A j \in Slots : j < i => slot[j] # None

(* Clients closed when proxy_loop ends. *)
NothingClosed == {}
ClosedAtExit == Occupants

(* poll reports POLLHUP for a connection whose client has closed it. *)
Hup(c) == peer[c] = "left"

FreeSlotOf(c) == slot' = [i \in Slots |-> IF slot[i] = c THEN None ELSE slot[i]]

(* non_block_write of one message to each connection of C.  Writing to a client
   that has left raises SIGPIPE, which ends the process: the kernel closes all
   its descriptors.  A client that does not read for three seconds loses the
   message: the short write is logged and ignored. *)
Write(C, m) ==
  \/ /\ \A c \in C : peer[c] # "left"
     /\ \E R \in SUBSET C :
          got' = [c \in Conns |-> IF c \in R THEN got[c] \union {m} ELSE got[c]]
     /\ UNCHANGED process
  \/ /\ \E c \in C : peer[c] = "left"
     /\ phase' = "dead"
     /\ bound' = FALSE
     /\ backlog' = {}
     /\ slot' = [i \in Slots |-> None]
     /\ held' = {}
     /\ UNCHANGED got

Read(m) == [by |-> m.by, asked |-> m.tid, seen |-> ClientTid(m.wire)]

-----------------------------------------------------------------------------
(* main: open the device, forget every client, send MBIM_OPEN. *)
OpenDevice ==
  /\ phase = "shut"
  /\ phase' = "opening"
  /\ slot' = [i \in Slots |-> None]
  /\ pend' = pend \union {OpenMsg}
  /\ UNCHANGED <<bound, backlog, held, peer, tids, up, rx, got>>

(* proxy_loop, label error: close the server, so that the connections waiting
   for accept are refused, and the clients; main closes the device. *)
ExitLoop ==
  /\ phase' = "shut"
  /\ held' = held \ ClosedAtExit
  /\ slot' = [i \in Slots |-> None]
  /\ backlog' = IF bound THEN backlog ELSE {}
  /\ UNCHANGED <<bound, peer, tids, up, pend, got>>

(* The device hangs up, a read of it fails, or it says nothing for ten seconds
   while there is no server.  What the driver still holds may be lost. *)
DeviceFails ==
  /\ phase \in {"opening", "open"}
  /\ ExitLoop
  /\ rx' \in {rx, <<>>}

(* A message of the device while there is no server: only MBIM_OPEN_DONE counts.
   Success makes the server, unless its name is still bound; a refusal ends the
   loop. *)
OpenDone ==
  /\ phase = "opening"
  /\ rx # <<>>
  /\ rx' = Tail(rx)
  /\ \/ /\ phase' = IF Head(rx).kind = "open" /\ ~bound THEN "open" ELSE phase
        /\ UNCHANGED <<bound, backlog, slot, held, peer, tids, up, pend, got>>
     \/ /\ Head(rx).kind = "open"
        /\ ExitLoop

(* handle_client_connect: with every slot taken the connection is closed. *)
Connect(c) ==
  /\ phase = "open"
  /\ c \in backlog
  /\ backlog' = backlog \ {c}
  /\ \/ \E i \in Slots :
           /\ FirstFree(i)
           /\ slot' = [slot EXCEPT ![i] = c]
           /\ held' = held \union {c}
     \/ /\ \A i \in Slots : slot[i] # None
        /\ UNCHANGED <<slot, held>>
  /\ UNCHANGED <<phase, bound, peer, tids, up, pend, rx, got>>

(* handle_client_disconnect on POLLHUP: what the client sent last is not read. *)
Disconnect(c) ==
  /\ phase = "open"
  /\ c \in Occupants
  /\ Hup(c)
  /\ FreeSlotOf(c)
  /\ held' = held \ {c}
  /\ UNCHANGED <<phase, bound, backlog, peer, tids, up, pend, rx, got>>

(* read of a client returns 0: the client is closed and proxy_loop returns at
   once, which leaves the server and the other clients open. *)
EarlyReturn(c) ==
  /\ phase = "open"
  /\ c \in Occupants
  /\ peer[c] = "half" /\ up[c] = NoAsk
  /\ FreeSlotOf(c)
  /\ held' = held \ {c}
  /\ phase' = "shut"
  /\ bound' = TRUE
  /\ UNCHANGED <<backlog, peer, tids, up, pend, rx, got>>

(* handle_client_request: MBIM_OPEN and MBIM_CLOSE are answered here; a command
   is forwarded under its wire id, and a failed write is not noticed. *)
Request(i) ==
  /\ phase = "open"
  /\ slot[i] # None
  /\ LET c == slot[i]
         q == up[c]
     IN  /\ q # NoAsk
         /\ up' = [up EXCEPT ![c] = NoAsk]
         /\ \/ /\ q.kind = "open"
               /\ Write({c}, [by |-> c, asked |-> q.tid, seen |-> q.tid])
               /\ UNCHANGED pend
            \/ /\ q.kind = "cmd"
               /\ pend' \in {pend, pend \union {[kind |-> "cmd", by |-> c, tid |-> q.tid,
                                                  wire |-> WireTid(i, q.tid)]}}
               /\ UNCHANGED <<process, got>>
  /\ UNCHANGED <<peer, tids, rx>>

(* handle_device_response: id 0 goes to every client, another id to the client
   in the slot that its top byte names, if there is one. *)
Response ==
  /\ phase = "open"
  /\ rx # <<>>
  /\ LET m == Head(rx)
     IN  Write(IF m.wire = 0 THEN Occupants
               ELSE {slot[i] : i \in Slots \cap {SlotOf(m.wire)}} \ {None}, Read(m))
  /\ rx' = Tail(rx)
  /\ UNCHANGED <<peer, tids, up, pend>>

-----------------------------------------------------------------------------
(* The device answers a command it was sent, under the same id, in any order. *)
DeviceAnswers(m) ==
  /\ Len(rx) < RxCap
  /\ pend' = pend \ {m}
  /\ rx' = Append(rx, m)
  /\ UNCHANGED <<process, peer, tids, up, got>>

DeviceIndicates ==
  /\ Len(rx) < RxCap
  /\ rx' = Append(rx, Indication)
  /\ UNCHANGED <<process, peer, tids, up, pend, got>>

(* Clients: connect, send a command, shut down the sending side, close. *)
ClientConnects(c) ==
  /\ phase = "open" \/ bound
  /\ peer[c] = "new"
  /\ peer' = [peer EXCEPT ![c] = "linked"]
  /\ backlog' = backlog \union {c}
  /\ UNCHANGED <<phase, bound, slot, held, tids, up, pend, rx, got>>

ClientSends(c) ==
  /\ peer[c] = "linked"
  /\ c \in backlog \union held
  /\ up[c] = NoAsk
  /\ tids[c] < MaxTid
  /\ tids' = [tids EXCEPT ![c] = @ + 1]
  /\ \E k \in {"open", "cmd"} : up' = [up EXCEPT ![c] = [kind |-> k, tid |-> tids'[c]]]
  /\ UNCHANGED <<process, peer, pend, rx, got>>

ClientShuts(c) ==
  /\ HalfClose
  /\ peer[c] = "linked"
  /\ peer' = [peer EXCEPT ![c] = "half"]
  /\ UNCHANGED <<process, tids, up, pend, rx, got>>

ClientLeaves(c) ==
  /\ peer[c] \in {"linked", "half"}
  /\ peer' = [peer EXCEPT ![c] = "left"]
  /\ UNCHANGED <<process, tids, up, pend, rx, got>>

(* The process was ended by SIGPIPE. *)
Dead == phase = "dead" /\ UNCHANGED vars

Proxy ==
  \/ OpenDevice \/ OpenDone \/ Response
  \/ \E c \in Conns : Connect(c) \/ Disconnect(c) \/ EarlyReturn(c)
  \/ \E i \in Slots : Request(i)

Environment ==
  \/ DeviceFails \/ DeviceIndicates
  \/ \E m \in pend : DeviceAnswers(m)
  \/ \E c \in Conns : ClientConnects(c) \/ ClientSends(c) \/ ClientShuts(c) \/ ClientLeaves(c)

Next == Proxy \/ Environment \/ Dead

Spec == Init /\ [][Next]_vars

-----------------------------------------------------------------------------
(* A connection is never given what the proxy asked for itself, what another
   connection asked for while that one is still a client, or an answer under an
   id other than the one it used: handle_device_response, which finds the
   recipient by slot index alone. *)
Misdelivered(c, r) ==
  \/ r.by = None /\ r.seen # 0
  \/ r.by # None /\ r.seen # r.asked
  \/ r.by \notin {c, None} /\ r.by \in Occupants

AnswersKeptApart == \A c \in Conns : \A r \in got[c] : ~Misdelivered(c, r)

(* Every descriptor the process holds for a client is in a slot, so that it is
   polled and closed in the end: no handler and no way out of proxy_loop forgets
   one, except the early return, which leaves the server open as well. *)
NoClientForgotten == bound \/ held = Occupants
=============================================================================
