-------------------------------- MODULE Qmap --------------------------------
(***************************************************************************)
(* The QMAP network devices of qmi_wwan_q.c: one device per packet data    *)
(* network on top of one USB network device (the real device).  Packets    *)
(* are collected in a buffer per device and sent as one datagram; a queue  *)
(* is stopped while the real device's queue is stopped, and started again  *)
(* from its tasklet; a connection manager per network switches its link.   *)
(*                                                                         *)
(* A network device's transmit function is entered by one CPU at a time    *)
(* (no NETIF_F_LLTX).  It runs next to the 2 ms timer, the work item that  *)
(* sends the buffer, the tasklet and the writers of link_state.            *)
(*                                                                         *)
(* Left out: opening, closing and suspending the real device, registering  *)
(* and removing QMAP devices, bridge mode, NSS, statistics, contents.      *)
(***************************************************************************)
EXTENDS Naturals, Sequences

CONSTANTS
  Devs,          \* mpQmapNetDev
  Sizes,         \* lengths of packets with their QMAP header
  MaxDatagrams,  \* ul_data_aggregation_max_datagrams the modem grants
  MaxSize,       \* ul_data_aggregation_max_size it grants
  TxQLen,        \* TX_QLEN of usbnet
  MaxPackets,    \* bound: packets of all devices
  MaxChanges,    \* bound: how often links are switched and devices opened
  MaxEvents      \* bound: both together

ASSUME QmapAssumption ==
  /\ Sizes \subseteq Nat
  /\ MaxDatagrams \in Nat /\ MaxDatagrams > 1 /\ MaxSize \in Nat
  /\ TxQLen \in Nat \ {0} /\ MaxPackets \in Nat
  /\ MaxChanges \in Nat /\ MaxEvents \in Nat

VARIABLES
  max,          \* tx_ctx.ul_data_aggregation_max_datagrams
  pc, skb,      \* start_xmit of a device: where it is, its packet
  held,         \* agg_skb of start_xmit: the datagram it is about to send
  agg, count,   \* priv->agg_skb, priv->agg_count
  timer,        \* agg_hrtimer is queued
  work,         \* agg_wq is pending
  taken,        \* the datagram the work item is about to send
  packets,      \* packets accepted from a device so far
  stopped,      \* queue of a QMAP device is stopped
  carrier, up,  \* of a QMAP device
  backlog,      \* what was handed to the real device and not yet transmitted
  lost,         \* packets of a device in datagrams the real device refused
  sent,         \* what was transmitted
  flying,       \* URBs at the host controller
  realStopped,  \* queue of the real device is stopped
  realCarrier,  \* carrier of the real device
  bh, waking,   \* usbnet_bh is scheduled; its usbnet part has run
  linkState,    \* pQmapDev->link_state
  link,         \* priv->link_state
  user, old,    \* link_state_store of a network's connection manager; old_link
  wanted,       \* what it wrote last
  overlap,      \* two link_state_store have overlapped
  changes

xmitVars == <<pc, skb, held, packets>>
aggVars == <<agg, count>>
workVars == <<work, taken>>
realVars == <<backlog, lost, sent, flying, realStopped>>
tasklet == <<bh, waking>>
linkVars == <<realCarrier, carrier, up, linkState, link, user, old, wanted, overlap, changes>>
vars == <<max, xmitVars, aggVars, timer, workVars, stopped, realVars, tasklet, linkVars>>

None == [n |-> 0, len |-> 0]
Packet == [n : Nat, len : Nat]
Datagram == [of : Devs, pkts : Seq(Packet), len : Nat]
Empty(d) == [of |-> d, pkts |-> <<>>, len |-> 0]
Numbers(g) == {g.pkts[k].n : k \in DOMAIN g.pkts}

TypeOK ==
  /\ max \in {1, MaxDatagrams}
  /\ pc \in [Devs -> {"idle", "busy", "agg", "send", "direct", "timer"}]
  /\ skb \in [Devs -> Packet] /\ held \in [Devs -> Datagram]
  /\ agg \in [Devs -> Datagram] /\ count \in [Devs -> 0..MaxDatagrams]
  /\ timer \in [Devs -> BOOLEAN] /\ work \in [Devs -> BOOLEAN]
  /\ taken \in [Devs -> Datagram] /\ packets \in [Devs -> Nat]
  /\ stopped \in [Devs -> BOOLEAN] /\ carrier \in [Devs -> BOOLEAN] /\ up \in [Devs -> BOOLEAN]
  /\ backlog \in Seq(Datagram) /\ lost \in [Devs -> SUBSET Nat]
  /\ sent \in Seq(Datagram) /\ flying \in Nat
  /\ realStopped \in BOOLEAN /\ realCarrier \in BOOLEAN
  /\ bh \in BOOLEAN /\ waking \in BOOLEAN
  /\ linkState \subseteq Devs /\ link \in [Devs -> BOOLEAN]
  /\ user \in [Devs -> {"idle", "write", "effect"}] /\ old \in [Devs -> SUBSET Devs]
  /\ wanted \in [Devs -> BOOLEAN] /\ overlap \in BOOLEAN /\ changes \in 0..MaxChanges

(* The devices in S are open, with their links on. *)
InitWith(S) ==
  /\ max = 1
  /\ pc = [d \in Devs |-> "idle"] /\ skb = [d \in Devs |-> None]
  /\ held = [d \in Devs |-> Empty(d)] /\ agg = [d \in Devs |-> Empty(d)]
  /\ count = [d \in Devs |-> 0]
  /\ timer = [d \in Devs |-> FALSE] /\ work = [d \in Devs |-> FALSE]
  /\ taken = [d \in Devs |-> Empty(d)] /\ packets = [d \in Devs |-> 0]
  /\ stopped = [d \in Devs |-> FALSE]
  /\ carrier = [d \in Devs |-> d \in S] /\ up = [d \in Devs |-> d \in S]
  /\ backlog = <<>> /\ lost = [d \in Devs |-> {}] /\ sent = <<>> /\ flying = 0
  /\ realStopped = FALSE /\ realCarrier = (S # {})
  /\ bh = FALSE /\ waking = FALSE
  /\ linkState = S /\ link = [d \in Devs |-> d \in S] /\ user = [d \in Devs |-> "idle"] /\ old = [d \in Devs |-> {}]
  /\ wanted = [d \in Devs |-> d \in S] /\ overlap = FALSE /\ changes = 0

Init == \E S \in SUBSET Devs : InitWith(S)

-----------------------------------------------------------------------------
(* start_xmit. *)

Total(f) == LET S[D \in SUBSET Devs] ==
                  IF D = {} THEN 0
                  ELSE LET d == CHOOSE d \in D : TRUE IN f[d] + S[D \ {d}]
            IN S[Devs]

(* The queue of the real device is looked at ... *)
StartXmit(d) ==
  /\ pc[d] = "idle" /\ up[d] /\ carrier[d] /\ ~stopped[d]
  /\ Total(packets) < MaxPackets /\ Total(packets) + changes < MaxEvents
  /\ IF realStopped
       THEN pc' = [pc EXCEPT ![d] = "busy"] /\ UNCHANGED <<skb, packets>>
       ELSE \E len \in Sizes :
              /\ packets' = [packets EXCEPT ![d] = @ + 1]
              /\ skb' = [skb EXCEPT ![d] = [n |-> packets[d] + 1, len |-> len]]
              /\ pc' = [pc EXCEPT ![d] = "agg"]
  /\ UNCHANGED <<max, held, aggVars, timer, workVars, stopped, realVars, tasklet, linkVars>>

(* ... and the queue of this one stopped: NETDEV_TX_BUSY, the packet stays. *)
StopQueue(d) ==
  /\ pc[d] = "busy"
  /\ stopped' = [stopped EXCEPT ![d] = TRUE]
  /\ pc' = [pc EXCEPT ![d] = "idle"]
  /\ UNCHANGED <<max, skb, held, packets, aggVars, timer, workVars, realVars, tasklet, linkVars>>

Single(d) == [of |-> d, pkts |-> <<skb[d]>>, len |-> skb[d].len]
Joined(d) ==
  [of |-> d, pkts |-> Append(agg[d].pkts, skb[d]), len |-> agg[d].len + skb[d].len]

NoAggregation(d) ==
  /\ pc[d] = "agg" /\ max = 1
  /\ held' = [held EXCEPT ![d] = Single(d)]
  /\ skb' = [skb EXCEPT ![d] = None]
  /\ pc' = [pc EXCEPT ![d] = "direct"]
  /\ UNCHANGED <<max, packets, aggVars, timer, workVars, stopped, realVars, tasklet, linkVars>>

Fits(d) == agg[d].len + skb[d].len < MaxSize
FlushOver(d) == count[d] + 1 > max
FlushFull(d) == count[d] + 1 = max

(* The critical section of rmnet_usb_tx_agg.  ready: the packet must not wait
   (TCP push, ICMP), enough time has passed, or there is no memory. *)
Aggregate(d) ==
  /\ pc[d] = "agg" /\ max > 1
  /\ \E ready \in BOOLEAN :
       \/ /\ agg[d].pkts # <<>> /\ Fits(d) /\ (ready \/ FlushFull(d))
          /\ held' = [held EXCEPT ![d] = Joined(d)]
          /\ agg' = [agg EXCEPT ![d] = Empty(d)] /\ count' = [count EXCEPT ![d] = 0]
          /\ skb' = [skb EXCEPT ![d] = None]
          /\ pc' = [pc EXCEPT ![d] = "send"]
       \/ /\ agg[d].pkts # <<>> /\ Fits(d) /\ ~(ready \/ FlushFull(d))
          /\ agg' = [agg EXCEPT ![d] = Joined(d)]
          /\ count' = [count EXCEPT ![d] = @ + 1]
          /\ skb' = [skb EXCEPT ![d] = None]
          /\ pc' = [pc EXCEPT ![d] = "timer"]
          /\ UNCHANGED held
       \/ /\ agg[d].pkts # <<>> /\ ~Fits(d) /\ ready
          /\ held' = [held EXCEPT ![d] = agg[d]]
          /\ agg' = [agg EXCEPT ![d] = Empty(d)] /\ count' = [count EXCEPT ![d] = 0]
          /\ pc' = [pc EXCEPT ![d] = "send"]
          /\ UNCHANGED skb
       \/ /\ agg[d].pkts = <<>> /\ ready
          /\ held' = [held EXCEPT ![d] = Single(d)]
          /\ skb' = [skb EXCEPT ![d] = None]
          /\ pc' = [pc EXCEPT ![d] = "send"]
          /\ UNCHANGED aggVars
       \/ /\ agg[d].pkts = <<>> /\ ~ready
          /\ agg' = [agg EXCEPT ![d] = Single(d)]
          /\ count' = [count EXCEPT ![d] = @ + 1]
          /\ skb' = [skb EXCEPT ![d] = None]
          /\ pc' = [pc EXCEPT ![d] = "timer"]
          /\ UNCHANGED held
  /\ UNCHANGED <<max, packets, timer, workVars, stopped, realVars, tasklet, linkVars>>

(* dev_queue_xmit: a datagram the queue of the real device refuses (it is full, or
   the device is down) is gone; tx_errors counts it. *)
QueueXmit(d, g) ==
  \/ backlog' = Append(backlog, g) /\ UNCHANGED lost
  \/ lost' = [lost EXCEPT ![d] = @ \union Numbers(g)] /\ UNCHANGED backlog

(* Then the packet that did not fit, or the timer. *)
SendsNoMore(d) == FALSE
PacketLeft(d) == skb[d] # None
HandOver(d) ==
  /\ pc[d] \in {"send", "direct"}
  /\ QueueXmit(d, held[d])
  /\ held' = [held EXCEPT ![d] = Empty(d)]
  /\ pc' = [pc EXCEPT ![d] = CASE pc[d] = "direct" -> "idle"
                               [] pc[d] = "send" /\ PacketLeft(d) -> "agg"
                               [] OTHER -> "timer"]
  /\ UNCHANGED <<max, skb, packets, aggVars, timer, workVars, stopped, sent, flying, realStopped,
                 tasklet, linkVars>>

TimerIfMore(d) == count[d] > 1
TimerNeeded(d) == agg[d].pkts # <<>>

StartTimer(d) ==
  /\ pc[d] = "timer"
  /\ timer' = [timer EXCEPT ![d] = @ \/ TimerNeeded(d)]
  /\ pc' = [pc EXCEPT ![d] = "idle"]
  /\ UNCHANGED <<max, skb, held, packets, aggVars, workVars, stopped, realVars, tasklet, linkVars>>

Xmit(d) == StartXmit(d) \/ StopQueue(d) \/ NoAggregation(d) \/ Aggregate(d) \/ HandOver(d)
             \/ StartTimer(d)

(* rmnet_usb_tx_agg_timer_cb *)
TimerFires(d) ==
  /\ timer[d]
  /\ timer' = [timer EXCEPT ![d] = FALSE]
  /\ work' = [work EXCEPT ![d] = TRUE]
  /\ UNCHANGED <<max, xmitVars, aggVars, taken, stopped, realVars, tasklet, linkVars>>

(* rmnet_usb_tx_agg_work: take the buffer under the lock ... *)
KeepCount(d) == count[d]
ResetCount(d) == 0
WorkTakes(d) ==
  /\ work[d] /\ taken[d].pkts = <<>>
  /\ work' = [work EXCEPT ![d] = FALSE]
  /\ taken' = [taken EXCEPT ![d] = agg[d]]
  /\ agg' = [agg EXCEPT ![d] = Empty(d)]
  /\ count' = [count EXCEPT ![d] = IF agg[d].pkts = <<>> THEN @ ELSE ResetCount(d)]
  /\ UNCHANGED <<max, xmitVars, timer, stopped, realVars, tasklet, linkVars>>

(* ... and send it. *)
WorkSends(d) ==
  /\ taken[d].pkts # <<>>
  /\ QueueXmit(d, taken[d])
  /\ taken' = [taken EXCEPT ![d] = Empty(d)]
  /\ UNCHANGED <<max, xmitVars, aggVars, timer, work, stopped, sent, flying, realStopped, tasklet,
                 linkVars>>

(* ioctl 0x89F2: what the modem grants is taken once. *)
QmapSettings ==
  /\ max = 1
  /\ max' = MaxDatagrams
  /\ UNCHANGED <<xmitVars, aggVars, timer, workVars, stopped, realVars, tasklet, linkVars>>

-----------------------------------------------------------------------------
(* usbnet below, and the tasklet. *)

UsbnetStartXmit ==
  /\ backlog # <<>> /\ ~realStopped /\ realCarrier
  /\ sent' = Append(sent, Head(backlog)) /\ backlog' = Tail(backlog) /\ UNCHANGED lost
  /\ flying' = flying + 1
  /\ realStopped' = (flying + 1 >= TxQLen)
  /\ UNCHANGED <<max, xmitVars, aggVars, timer, workVars, stopped, tasklet, linkVars>>

TxComplete ==
  /\ flying > 0
  /\ flying' = flying - 1 /\ bh' = TRUE
  /\ UNCHANGED <<max, xmitVars, aggVars, timer, workVars, stopped, backlog, lost, sent,
                 realStopped, waking, linkVars>>

(* The tasklet is usbnet's own one: it runs when something is received as well. *)
RxComplete ==
  /\ realCarrier
  /\ bh' = TRUE
  /\ UNCHANGED <<max, xmitVars, aggVars, timer, workVars, stopped, realVars, waking, linkVars>>

(* usbnet_bh: usbnet's own tasklet function ... *)
UsbnetBh ==
  /\ bh /\ ~waking
  /\ bh' = FALSE /\ waking' = TRUE
  /\ realStopped' = (realStopped /\ ~(realCarrier /\ flying < TxQLen))
  /\ UNCHANGED <<max, xmitVars, aggVars, timer, workVars, stopped, backlog, lost, sent, flying,
                 linkVars>>

(* ... then qmap_wake_queue. *)
WakesUp(d) == carrier[d]
QmapWakeQueue ==
  /\ waking
  /\ waking' = FALSE
  /\ stopped' = [d \in Devs |-> stopped[d] /\ (realStopped \/ ~WakesUp(d))]
  /\ UNCHANGED <<max, xmitVars, aggVars, timer, workVars, realVars, bh, linkVars>>

-----------------------------------------------------------------------------
(* Links. *)

Change ==
  /\ changes < MaxChanges /\ Total(packets) + changes < MaxEvents
  /\ changes' = changes + 1

(* link_state_store reads link_state, writes it with one bit changed, and
   compares; nothing keeps two connection managers from doing so at once. *)
StoreReads(d) ==
  /\ user[d] = "idle" /\ Change
  /\ old' = [old EXCEPT ![d] = linkState]
  /\ wanted' = [wanted EXCEPT ![d] = ~@]
  /\ user' = [user EXCEPT ![d] = "write"]
  /\ overlap' = (overlap \/ \E u \in Devs : user[u] # "idle")
  /\ UNCHANGED <<max, xmitVars, aggVars, timer, workVars, stopped, realVars, tasklet,
                 realCarrier, carrier, up, linkState, link>>

StoreWrites(d) ==
  /\ user[d] = "write"
  /\ linkState' = IF wanted[d] THEN old[d] \union {d} ELSE old[d] \ {d}
  /\ user' = [user EXCEPT ![d] = "effect"]
  /\ UNCHANGED <<max, xmitVars, aggVars, timer, workVars, stopped, realVars, tasklet,
                 realCarrier, carrier, up, link, old, wanted, overlap, changes>>

WakeIfRealRuns(d, on) ==
  stopped' = [stopped EXCEPT ![d] = @ /\ (realStopped \/ ~on)]

OwnLink(d) == d \in linkState
RealCarrier(d) == linkState # {}
LinkChanged(d) == old[d] # linkState
StoreEffects(d) ==
  /\ user[d] = "effect"
  /\ user' = [user EXCEPT ![d] = "idle"]
  /\ IF LinkChanged(d)
       THEN /\ realCarrier' = RealCarrier(d)
            /\ link' = [link EXCEPT ![d] = d \in linkState]
            /\ carrier' = [carrier EXCEPT ![d] = up[d] /\ d \in linkState]
            /\ WakeIfRealRuns(d, carrier'[d])
       ELSE UNCHANGED <<realCarrier, link, carrier, stopped>>
  /\ UNCHANGED <<max, xmitVars, aggVars, timer, workVars, realVars, tasklet, up, linkState, old,
                 wanted, overlap, changes>>

(* qmap_open; qmap_stop, after the kernel has waited for start_xmit to end. *)
QmapOpen(d) ==
  /\ ~up[d] /\ user[d] = "idle" /\ Change
  /\ up' = [up EXCEPT ![d] = TRUE]
  /\ carrier' = [carrier EXCEPT ![d] = link[d]]
  /\ realCarrier' = (realCarrier \/ link[d])
  /\ WakeIfRealRuns(d, link[d])
  /\ UNCHANGED <<max, xmitVars, aggVars, timer, workVars, realVars, tasklet, linkState, link, user,
                 old, wanted, overlap>>

QmapStop(d) ==
  /\ up[d] /\ user[d] = "idle" /\ pc[d] = "idle" /\ Change
  /\ up' = [up EXCEPT ![d] = FALSE]
  /\ carrier' = [carrier EXCEPT ![d] = FALSE]
  /\ UNCHANGED <<max, xmitVars, aggVars, timer, workVars, stopped, realVars, tasklet, realCarrier,
                 linkState, link, user, old, wanted, overlap>>

LinkStep(d) == StoreReads(d) \/ StoreWrites(d) \/ StoreEffects(d) \/ QmapOpen(d) \/ QmapStop(d)
WorkStep(d) == TimerFires(d) \/ WorkTakes(d) \/ WorkSends(d)

Next ==
  \/ \E d \in Devs : Xmit(d) \/ WorkStep(d) \/ LinkStep(d)
  \/ QmapSettings \/ UsbnetStartXmit \/ TxComplete \/ RxComplete \/ UsbnetBh \/ QmapWakeQueue

Spec == Init /\ [][Next]_vars

(* start_xmit, timers and work items go on, usbnet sends what it has, the host
   controller completes URBs and tasklets run.  Nothing is assumed of the modem,
   nor of whether more packets or switches of links come. *)
Driver(d) ==
  StopQueue(d) \/ NoAggregation(d) \/ Aggregate(d) \/ HandOver(d) \/ StartTimer(d) \/ WorkStep(d)
FairSpec ==
  /\ Spec
  /\ \A d \in Devs : WF_vars(Driver(d))
  /\ WF_vars(UsbnetStartXmit) /\ WF_vars(TxComplete) /\ WF_vars(UsbnetBh) /\ WF_vars(QmapWakeQueue)

-----------------------------------------------------------------------------

(* No packet waits in a buffer for good: the timer is running, the work item is
   pending, or start_xmit is about to look at the timer.  The timer is looked at
   without the lock, while it fires and the work item takes the buffer. *)
NothingStranded ==
  \A d \in Devs : agg[d].pkts # <<>> => timer[d] \/ work[d] \/ pc[d] = "timer"

(* No datagram holds more packets than the modem grants, and none of several
   packets is as long as the buffer: agg_count is compared with = and is changed
   by start_xmit and by the work item. *)
WithinLimits(g) ==
  Len(g.pkts) <= MaxDatagrams /\ (Len(g.pkts) > 1 => g.len < MaxSize)
DatagramBounds ==
  \A d \in Devs : WithinLimits(held[d]) /\ WithinLimits(taken[d]) /\ WithinLimits(agg[d])

(* Every packet accepted from a device is in one place and once, unless its datagram
   was refused: then it is nowhere.  A datagram has consecutive packets of one
   device. *)
Places(d) ==
  <<taken[d], held[d], agg[d], IF skb[d] = None THEN Empty(d) ELSE Single(d)>> \o sent \o backlog
Copies(d, n) ==
  LET P == Places(d)
      At(i) == {k \in DOMAIN P[i].pkts : P[i].of = d /\ P[i].pkts[k].n = n}
  IN UNION { {i} \X At(i) : i \in DOMAIN P }
Consecutive(p) == \A j, k \in DOMAIN p : p[k].n + j = p[j].n + k
AcceptedOnce ==
  \A d \in Devs :
    /\ \A n \in (1..packets[d]) \ lost[d] : \E x \in Copies(d, n) : Copies(d, n) = {x}
    /\ \A n \in lost[d] : Copies(d, n) = {}
    /\ \A i \in DOMAIN Places(d) : Consecutive(Places(d)[i].pkts)

(* A queue that was stopped because the real device's was is started again by the
   tasklet. *)
QueueRestarts ==
  \A d \in Devs : stopped[d] ~> ~stopped[d] \/ ~carrier[d] \/ ~realCarrier

(* A device has a carrier when it is open and its connection manager has
   switched its link on, the real device when one has; as long as no two
   link_state_store overlapped. *)
CarrierFollowsLink ==
  overlap \/
  /\ \A d \in Devs : user[d] = "idle" => (carrier[d] <=> up[d] /\ wanted[d])
  /\ (\A d \in Devs : user[d] = "idle") => (realCarrier <=> \E d \in Devs : wanted[d])
=============================================================================
