----------------------------- MODULE QmapProofs -----------------------------
(***************************************************************************)
(* Proofs about Qmap, for every set of devices, of packet lengths, and     *)
(* every limit the modem may grant: its types, that no packet is stranded  *)
(* in a buffer, that datagrams keep the limits, that carriers follow the   *)
(* links, and that every accepted packet is in one place and once.         *)
(***************************************************************************)
EXTENDS Qmap, SequenceTheorems, TLAPS

\* agg_count is the number of packets in the buffer, and a buffer that stays
\* is not full.
BufferInv ==
  \A d \in Devs :
    /\ count[d] = Len(agg[d].pkts) /\ count[d] < MaxDatagrams
    /\ Len(agg[d].pkts) > 1 => agg[d].len < MaxSize

IInv == TypeOK /\ BufferInv

-----------------------------------------------------------------------------
\* Datagrams of no, one and one more packet.
LEMMA DatagramTypes ==
    ASSUME TypeOK, NEW d \in Devs
    PROVE  /\ Empty(d) \in Datagram /\ Empty(d).pkts = <<>> /\ Len(Empty(d).pkts) = 0
           /\ Empty(d).len = 0
           /\ Single(d) \in Datagram /\ Len(Single(d).pkts) = 1 /\ Single(d).pkts # <<>>
           /\ Joined(d) \in Datagram
           /\ Len(Joined(d).pkts) = Len(agg[d].pkts) + 1 /\ Joined(d).pkts # <<>>
           /\ Joined(d).len = agg[d].len + skb[d].len
           /\ None \in Packet
<1>1. skb[d] \in Packet /\ agg[d] \in Datagram
    BY DEF TypeOK
<1>2. /\ skb[d].len \in Nat /\ agg[d].pkts \in Seq(Packet) /\ agg[d].len \in Nat
      /\ agg[d].of \in Devs
    BY <1>1 DEF Datagram, Packet
<1>3. /\ Empty(d) \in Datagram /\ Empty(d).pkts = <<>> /\ Len(Empty(d).pkts) = 0
      /\ Empty(d).len = 0 /\ None \in Packet
    BY DEF Empty, Datagram, None, Packet
<1>4. Single(d) \in Datagram /\ Len(Single(d).pkts) = 1 /\ Single(d).pkts # <<>>
    BY <1>1, <1>2 DEF Single, Datagram
<1>5. /\ Append(agg[d].pkts, skb[d]) \in Seq(Packet)
      /\ Len(Append(agg[d].pkts, skb[d])) = Len(agg[d].pkts) + 1
      /\ Append(agg[d].pkts, skb[d]) # <<>>
    BY <1>1, <1>2
<1>6. QED
    <2>1. /\ Joined(d).pkts = Append(agg[d].pkts, skb[d]) /\ Joined(d) \in Datagram
          /\ Joined(d).len = agg[d].len + skb[d].len
        <3> DEFINE p == Append(agg[d].pkts, skb[d])
        <3>1. /\ Joined(d) = [of |-> d, pkts |-> p, len |-> agg[d].len + skb[d].len]
              /\ p \in Seq(Packet) /\ agg[d].len + skb[d].len \in Nat
            BY <1>2, <1>5 DEF Joined
        <3> HIDE DEF p
        <3>2. Joined(d).pkts = p /\ Joined(d) \in Datagram /\ Joined(d).len = agg[d].len + skb[d].len
            BY <3>1 DEF Datagram
        <3>3. QED
            BY <3>2 DEF p
    <2>2. Len(Joined(d).pkts) = Len(agg[d].pkts) + 1 /\ Joined(d).pkts # <<>>
        BY <1>5, <2>1, Zenon
    <2>3. QED
        BY <1>3, <1>4, <2>1, <2>2, Zenon

\* The queue of the real device takes a datagram or refuses it.
LEMMA QueueTypes ==
    ASSUME TypeOK, NEW d \in Devs, NEW g \in Datagram, QueueXmit(d, g)
    PROVE  backlog' \in Seq(Datagram) /\ lost' \in [Devs -> SUBSET Nat]
<1>1. backlog \in Seq(Datagram) /\ lost \in [Devs -> SUBSET Nat]
    BY DEF TypeOK
<1>2. Numbers(g) \in SUBSET Nat
    <2>1. g.pkts \in Seq(Packet)
        BY DEF Datagram
    <2>2. \A k \in DOMAIN g.pkts : g.pkts[k] \in Packet
        BY <2>1
    <2>3. \A k \in DOMAIN g.pkts : g.pkts[k].n \in Nat
        BY <2>2 DEF Packet
    <2>4. QED
        BY <2>3, Zenon DEF Numbers
<1>3. CASE backlog' = Append(backlog, g) /\ lost' = lost
    BY <1>1, <1>3
<1>4. CASE lost' = [lost EXCEPT ![d] = @ \union Numbers(g)] /\ backlog' = backlog
    BY <1>1, <1>2, <1>4
<1>5. QED
    BY <1>3, <1>4 DEF QueueXmit

LEMMA InitIInv == Init => IInv
<1> SUFFICES ASSUME NEW S \in SUBSET Devs, InitWith(S) PROVE IInv
    BY DEF Init
<1>1. \A d \in Devs : Empty(d) \in Datagram /\ Len(Empty(d).pkts) = 0 /\ Empty(d).len = 0
    BY DEF Empty, Datagram
<1>2. None \in Packet
    BY DEF None, Packet
<1>3. TypeOK
    <2>1. /\ carrier \in [Devs -> BOOLEAN] /\ up \in [Devs -> BOOLEAN]
          /\ link \in [Devs -> BOOLEAN] /\ wanted \in [Devs -> BOOLEAN]
        <3>1. \A d \in Devs : (d \in S) \in BOOLEAN
            OBVIOUS
        <3>2. [d \in Devs |-> d \in S] \in [Devs -> BOOLEAN]
            BY <3>1, Zenon
        <3>3. QED
            BY <3>2, Zenon DEF InitWith
    <2>2. /\ realStopped \in BOOLEAN /\ realCarrier \in BOOLEAN /\ linkState \subseteq Devs
          /\ timer \in [Devs -> BOOLEAN] /\ work \in [Devs -> BOOLEAN]
          /\ stopped \in [Devs -> BOOLEAN] /\ bh \in BOOLEAN /\ waking \in BOOLEAN
          /\ overlap \in BOOLEAN
        BY Zenon DEF InitWith
    <2>3. /\ max \in {1, MaxDatagrams} /\ skb \in [Devs -> Packet]
          /\ held \in [Devs -> Datagram] /\ agg \in [Devs -> Datagram]
          /\ taken \in [Devs -> Datagram] /\ old \in [Devs -> SUBSET Devs]
        BY <1>1, <1>2, Zenon DEF InitWith
    <2>4. /\ count = [d \in Devs |-> 0] /\ packets = [d \in Devs |-> 0]
          /\ backlog = <<>> /\ sent = <<>> /\ flying = 0 /\ changes = 0
          /\ lost = [d \in Devs |-> {}]
          /\ pc = [d \in Devs |-> "idle"] /\ user = [d \in Devs |-> "idle"]
        BY Zenon DEF InitWith
    <2>5. /\ count \in [Devs -> 0..MaxDatagrams] /\ packets \in [Devs -> Nat]
          /\ backlog \in Seq(Datagram) /\ sent \in Seq(Datagram) /\ flying \in Nat
          /\ changes \in 0..MaxChanges /\ lost \in [Devs -> SUBSET Nat]
        BY <2>4, QmapAssumption
    <2>6. /\ pc \in [Devs -> {"idle", "busy", "agg", "send", "direct", "timer"}]
          /\ user \in [Devs -> {"idle", "write", "effect"}]
        BY <2>4
    <2>7. QED
        BY <2>1, <2>2, <2>3, <2>5, <2>6, Zenon DEF TypeOK
<1>4. BufferInv
    <2>1. agg = [d \in Devs |-> Empty(d)] /\ count = [d \in Devs |-> 0]
        BY Zenon DEF InitWith
    <2>2. \A d \in Devs : agg[d] = Empty(d) /\ count[d] = 0
        BY <2>1, Zenon
    <2>3. \A d \in Devs : Len(agg[d].pkts) = 0 /\ count[d] = 0
        BY <1>1, <2>2, Zenon
    <2>4. 0 < MaxDatagrams
        BY QmapAssumption
    <2>5. \A d \in Devs : count[d] = Len(agg[d].pkts) /\ count[d] < MaxDatagrams
        BY <2>3, <2>4
    <2>6. \A d \in Devs : Len(agg[d].pkts) > 1 => agg[d].len < MaxSize
        BY <2>3
    <2>7. QED
        BY <2>5, <2>6 DEF BufferInv
<1>5. QED
    BY <1>3, <1>4 DEF IInv

\* One step of start_xmit keeps the types.
LEMMA XmitType ==
    ASSUME IInv, NEW d \in Devs, Xmit(d)
    PROVE  TypeOK'
<1> USE QmapAssumption
<1>0. TypeOK /\ BufferInv
    BY DEF IInv
<1>1. CASE StartXmit(d)
    <2>1. packets[d] + 1 \in Nat /\ \A len \in Sizes : [n |-> packets[d] + 1, len |-> len] \in Packet
        BY <1>0 DEF TypeOK, Packet
    <2>2. /\ pc' \in [Devs -> {"idle", "busy", "agg", "send", "direct", "timer"}]
          /\ skb' \in [Devs -> Packet] /\ packets' \in [Devs -> Nat]
        <3>1. CASE realStopped
            BY <1>0, <1>1, <3>1 DEF TypeOK, StartXmit
        <3>2. CASE ~realStopped
            <4>1. PICK len \in Sizes : /\ packets' = [packets EXCEPT ![d] = packets[d] + 1]
                                       /\ skb' = [skb EXCEPT ![d] = [n |-> packets[d] + 1,
                                                                     len |-> len]]
                                       /\ pc' = [pc EXCEPT ![d] = "agg"]
                BY <1>1, <3>2, Zenon DEF StartXmit
            <4>2. QED
                BY <1>0, <2>1, <4>1 DEF TypeOK
        <3>3. QED
            BY <3>1, <3>2
    <2>3. QED
        BY <1>0, <1>1, <2>2 DEF TypeOK, StartXmit, aggVars, workVars, realVars, tasklet, linkVars
<1>2. CASE StopQueue(d)
    BY <1>0, <1>2 DEF TypeOK, StopQueue, aggVars, workVars, realVars, tasklet, linkVars
<1>3. CASE NoAggregation(d)
    BY <1>0, <1>3, DatagramTypes
       DEF TypeOK, NoAggregation, aggVars, workVars, realVars, tasklet, linkVars
<1>4. CASE Aggregate(d)
    <2>1. count[d] + 1 \in 0..MaxDatagrams /\ 0 \in 0..MaxDatagrams
        BY <1>0 DEF TypeOK, BufferInv
    <2>2. /\ skb' \in [Devs -> Packet] /\ held' \in [Devs -> Datagram]
          /\ agg' \in [Devs -> Datagram] /\ count' \in [Devs -> 0..MaxDatagrams]
          /\ pc' \in [Devs -> {"idle", "busy", "agg", "send", "direct", "timer"}]
        <3>1. /\ skb' = skb \/ skb' = [skb EXCEPT ![d] = None]
              /\ \/ held' = held
                 \/ \E g \in {Joined(d), Single(d), agg[d]} : held' = [held EXCEPT ![d] = g]
              /\ \/ agg' = agg
                 \/ \E g \in {Joined(d), Single(d), Empty(d)} : agg' = [agg EXCEPT ![d] = g]
              /\ \/ count' = count
                 \/ count' = [count EXCEPT ![d] = 0]
                 \/ count' = [count EXCEPT ![d] = count[d] + 1]
              /\ \E x \in {"send", "timer"} : pc' = [pc EXCEPT ![d] = x]
            BY <1>4, Zenon DEF Aggregate, aggVars
        <3>2. agg[d] \in Datagram
            BY <1>0 DEF TypeOK
        <3>3. QED
            <4>1. /\ skb' \in [Devs -> Packet]
                  /\ pc' \in [Devs -> {"idle", "busy", "agg", "send", "direct", "timer"}]
                <5>1. None \in Packet /\ skb \in [Devs -> Packet]
                    BY <1>0, DatagramTypes DEF TypeOK
                <5>2. skb' \in [Devs -> Packet]
                    BY <3>1, <5>1
                <5>3. pc' \in [Devs -> {"idle", "busy", "agg", "send", "direct", "timer"}]
                    BY <1>0, <3>1 DEF TypeOK
                <5>4. QED
                    BY <5>2, <5>3
            <4>2. count' \in [Devs -> 0..MaxDatagrams]
                BY <1>0, <2>1, <3>1 DEF TypeOK
            <4>3. /\ \A g \in {Joined(d), Single(d), agg[d], Empty(d)} : g \in Datagram
                  /\ held \in [Devs -> Datagram] /\ agg \in [Devs -> Datagram]
                BY <1>0, <3>2, DatagramTypes DEF TypeOK
            <4>4. held' \in [Devs -> Datagram] /\ agg' \in [Devs -> Datagram]
                BY <3>1, <4>3
            <4>5. QED
                BY <4>1, <4>2, <4>4
    <2>3. QED
        BY <1>0, <1>4, <2>2 DEF TypeOK, Aggregate, workVars, realVars, tasklet, linkVars
<1>5. CASE HandOver(d)
    <2>1. backlog' \in Seq(Datagram) /\ lost' \in [Devs -> SUBSET Nat]
        <3>1. held[d] \in Datagram /\ QueueXmit(d, held[d])
            BY <1>0, <1>5 DEF TypeOK, HandOver
        <3>2. QED
            BY <1>0, <3>1, QueueTypes
    <2>2. QED
        BY <1>0, <1>5, <2>1, DatagramTypes
           DEF TypeOK, HandOver, aggVars, workVars, tasklet, linkVars
<1>6. CASE StartTimer(d)
    BY <1>0, <1>6 DEF TypeOK, StartTimer, aggVars, workVars, realVars, tasklet, linkVars
<1>7. QED
    BY <1>1, <1>2, <1>3, <1>4, <1>5, <1>6 DEF Xmit

LEMMA WorkType ==
    ASSUME IInv, NEW d \in Devs, WorkStep(d)
    PROVE  TypeOK'
<1> USE QmapAssumption
<1>0. TypeOK
    BY DEF IInv
<1>1. CASE TimerFires(d)
    BY <1>0, <1>1 DEF TypeOK, TimerFires, xmitVars, aggVars, realVars, tasklet, linkVars
<1>2. CASE WorkTakes(d)
    <2>1. 0 \in 0..MaxDatagrams
        OBVIOUS
    <2>2. QED
        BY <1>0, <1>2, <2>1, DatagramTypes
           DEF TypeOK, WorkTakes, ResetCount, xmitVars, realVars, tasklet, linkVars
<1>3. CASE WorkSends(d)
    <2>1. backlog' \in Seq(Datagram) /\ lost' \in [Devs -> SUBSET Nat]
        <3>1. taken[d] \in Datagram /\ QueueXmit(d, taken[d])
            BY <1>0, <1>3 DEF TypeOK, WorkSends
        <3>2. QED
            BY <1>0, <3>1, QueueTypes
    <2>2. QED
        BY <1>0, <1>3, <2>1, DatagramTypes
           DEF TypeOK, WorkSends, xmitVars, aggVars, tasklet, linkVars
<1>4. QED
    BY <1>1, <1>2, <1>3 DEF WorkStep

LEMMA LinkType ==
    ASSUME IInv, NEW d \in Devs, LinkStep(d)
    PROVE  TypeOK'
<1> USE QmapAssumption DEF xmitVars, aggVars, workVars, realVars, tasklet
<1>0. TypeOK
    BY DEF IInv
<1>1. CASE StoreReads(d)
    <2>1. changes' \in 0..MaxChanges
        BY <1>0, <1>1 DEF TypeOK, StoreReads, Change
    <2>2. QED
        BY <1>0, <1>1, <2>1 DEF TypeOK, StoreReads
<1>2. CASE StoreWrites(d)
    BY <1>0, <1>2 DEF TypeOK, StoreWrites
<1>3. CASE StoreEffects(d)
    <2>1. /\ realCarrier' \in BOOLEAN
          /\ link' = link \/ \E b \in BOOLEAN : link' = [link EXCEPT ![d] = b]
          /\ carrier' = carrier \/ \E b \in BOOLEAN : carrier' = [carrier EXCEPT ![d] = b]
          /\ stopped' = stopped \/ \E b \in BOOLEAN : stopped' = [stopped EXCEPT ![d] = b]
        <3>1. CASE LinkChanged(d)
            <4>1. /\ realCarrier' = (linkState # {})
                  /\ link' = [link EXCEPT ![d] = d \in linkState]
                  /\ carrier' = [carrier EXCEPT ![d] = up[d] /\ d \in linkState]
                  /\ stopped' = [stopped EXCEPT
                                   ![d] = stopped[d] /\ (realStopped \/ ~carrier'[d])]
                BY <1>3, <3>1, Zenon DEF StoreEffects, RealCarrier, WakeIfRealRuns
            <4>2. /\ (linkState # {}) \in BOOLEAN /\ (d \in linkState) \in BOOLEAN
                  /\ (up[d] /\ d \in linkState) \in BOOLEAN
                  /\ (stopped[d] /\ (realStopped \/ ~carrier'[d])) \in BOOLEAN
                OBVIOUS
            <4>3. QED
                BY <4>1, <4>2, Zenon
        <3>2. CASE ~LinkChanged(d)
            BY <1>0, <1>3, <3>2, Zenon DEF StoreEffects, TypeOK
        <3>3. QED
            BY <3>1, <3>2
    <2>2. /\ link' \in [Devs -> BOOLEAN] /\ carrier' \in [Devs -> BOOLEAN]
          /\ stopped' \in [Devs -> BOOLEAN]
        <3>1. /\ link \in [Devs -> BOOLEAN] /\ carrier \in [Devs -> BOOLEAN]
              /\ stopped \in [Devs -> BOOLEAN]
            BY <1>0 DEF TypeOK
        <3>2. \A f \in [Devs -> BOOLEAN] : \A b \in BOOLEAN : [f EXCEPT ![d] = b] \in [Devs -> BOOLEAN]
            OBVIOUS
        <3>3. QED
            BY <2>1, <3>1, <3>2, Zenon
    <2>3. user' \in [Devs -> {"idle", "write", "effect"}]
        BY <1>0, <1>3 DEF TypeOK, StoreEffects
    <2>4. UNCHANGED <<max, pc, skb, held, packets, agg, count, timer, work, taken, backlog, lost,
                      sent, flying, realStopped, bh, waking, up, linkState, old, wanted, overlap,
                      changes>>
        BY <1>3, Zenon DEF StoreEffects
    <2>5. QED
        BY <1>0, <2>1, <2>2, <2>3, <2>4, Zenon DEF TypeOK
<1>4. CASE QmapOpen(d)
    <2>1. changes' \in 0..MaxChanges
        BY <1>0, <1>4 DEF TypeOK, QmapOpen, Change
    <2>2. QED
        BY <1>0, <1>4, <2>1 DEF TypeOK, QmapOpen, WakeIfRealRuns
<1>5. CASE QmapStop(d)
    <2>1. changes' \in 0..MaxChanges
        BY <1>0, <1>5 DEF TypeOK, QmapStop, Change
    <2>2. QED
        BY <1>0, <1>5, <2>1 DEF TypeOK, QmapStop
<1>6. QED
    BY <1>1, <1>2, <1>3, <1>4, <1>5 DEF LinkStep

LEMMA RealType ==
    ASSUME IInv,
           QmapSettings \/ UsbnetStartXmit \/ TxComplete \/ RxComplete \/ UsbnetBh \/ QmapWakeQueue
    PROVE  TypeOK'
<1> USE QmapAssumption DEF xmitVars, aggVars, workVars, linkVars
<1>0. TypeOK
    BY DEF IInv
<1>1. CASE QmapSettings
    BY <1>0, <1>1 DEF TypeOK, QmapSettings, realVars, tasklet
<1>2. CASE UsbnetStartXmit
    <2>1. /\ Append(sent, Head(backlog)) \in Seq(Datagram) /\ Tail(backlog) \in Seq(Datagram)
          /\ flying + 1 \in Nat
        BY <1>0, <1>2 DEF TypeOK, UsbnetStartXmit
    <2>2. QED
        BY <1>0, <1>2, <2>1 DEF TypeOK, UsbnetStartXmit, tasklet
<1>3. CASE TxComplete
    BY <1>0, <1>3 DEF TypeOK, TxComplete
<1>4. CASE RxComplete
    BY <1>0, <1>4 DEF TypeOK, RxComplete, realVars
<1>5. CASE UsbnetBh
    BY <1>0, <1>5 DEF TypeOK, UsbnetBh
<1>6. CASE QmapWakeQueue
    BY <1>0, <1>6 DEF TypeOK, QmapWakeQueue, realVars
<1>7. QED
    BY <1>1, <1>2, <1>3, <1>4, <1>5, <1>6

\* Only the critical sections of rmnet_usb_tx_agg and of its work item change
\* the buffer and its count.
LEMMA AggChanges ==
    ASSUME [Next]_vars
    PROVE  \/ \E d \in Devs : Aggregate(d) \/ WorkTakes(d)
           \/ UNCHANGED <<agg, count>>
  BY DEF Next, vars, Xmit, WorkStep, LinkStep, StartXmit, StopQueue, NoAggregation, HandOver,
         StartTimer, TimerFires, WorkSends, StoreReads, StoreWrites, StoreEffects, QmapOpen,
         QmapStop, QmapSettings, UsbnetStartXmit, TxComplete, RxComplete, UsbnetBh, QmapWakeQueue,
         aggVars

LEMMA BufferStep ==
    ASSUME IInv, [Next]_vars
    PROVE  BufferInv'
<1> USE QmapAssumption
<1>0. TypeOK /\ BufferInv
    BY DEF IInv
<1>1. CASE UNCHANGED <<agg, count>>
    BY <1>0, <1>1 DEF BufferInv
<1>2. ASSUME NEW d \in Devs, WorkTakes(d) PROVE BufferInv'
    <2>1. agg' = [agg EXCEPT ![d] = Empty(d)] /\ count'[d] = 0 /\ DOMAIN count' = Devs
          /\ \A e \in Devs \ {d} : count'[e] = count[e]
        <3>1. agg[d].pkts = <<>> => count[d] = 0
            BY <1>0 DEF BufferInv
        <3>2. QED
            BY <1>0, <1>2, <3>1 DEF WorkTakes, ResetCount, TypeOK
    <2>2. /\ agg'[d] = Empty(d) /\ \A e \in Devs \ {d} : agg'[e] = agg[e]
          /\ Len(Empty(d).pkts) = 0
        BY <1>0, <2>1, DatagramTypes DEF TypeOK
    <2>3. \A e \in Devs \ {d} :
            /\ count'[e] = Len(agg'[e].pkts) /\ count'[e] < MaxDatagrams
            /\ Len(agg'[e].pkts) > 1 => agg'[e].len < MaxSize
        BY <1>0, <2>1, <2>2 DEF BufferInv
    <2>4. QED
        BY <2>1, <2>2, <2>3 DEF BufferInv
<1>3. ASSUME NEW d \in Devs, Aggregate(d) PROVE BufferInv'
    <2>1. max = MaxDatagrams
        BY <1>0, <1>3 DEF Aggregate, TypeOK
    <2>2. CASE agg' = [agg EXCEPT ![d] = Empty(d)] /\ count' = [count EXCEPT ![d] = 0]
        <3>1. /\ \A e \in Devs \ {d} : agg'[e] = agg[e] /\ count'[e] = count[e]
              /\ agg'[d] = Empty(d) /\ count'[d] = 0 /\ Len(Empty(d).pkts) = 0
            BY <1>0, <2>2, DatagramTypes DEF TypeOK
        <3>2. \A e \in Devs \ {d} :
                /\ count'[e] = Len(agg'[e].pkts) /\ count'[e] < MaxDatagrams
                /\ Len(agg'[e].pkts) > 1 => agg'[e].len < MaxSize
            BY <1>0, <3>1 DEF BufferInv
        <3>3. QED
            BY <3>1, <3>2 DEF BufferInv
    <2>3. CASE /\ agg[d].pkts # <<>> /\ Fits(d) /\ ~FlushFull(d)
               /\ agg' = [agg EXCEPT ![d] = Joined(d)] /\ count' = [count EXCEPT ![d] = @ + 1]
        <3>1. count[d] + 1 < MaxDatagrams
            BY <1>0, <2>1, <2>3 DEF FlushFull, BufferInv, TypeOK
        <3>2. Joined(d).len < MaxSize
            BY <1>0, <2>3, DatagramTypes DEF Fits
        <3>3. QED
            BY <1>0, <2>3, <3>1, <3>2, DatagramTypes DEF BufferInv, TypeOK
    <2>4. CASE /\ agg[d].pkts = <<>>
               /\ agg' = [agg EXCEPT ![d] = Single(d)] /\ count' = [count EXCEPT ![d] = @ + 1]
        <3>1. count[d] = 0
            BY <1>0, <2>4 DEF BufferInv
        <3>2. /\ agg'[d] = Single(d) /\ count'[d] = 1
              /\ \A e \in Devs \ {d} : agg'[e] = agg[e] /\ count'[e] = count[e]
            BY <1>0, <2>4, <3>1 DEF TypeOK
        <3>3. Len(Single(d).pkts) = 1
            BY <1>0, DatagramTypes
        <3>4. Len(agg'[d].pkts) = 1
            BY <3>2, <3>3, Zenon
        <3>5. 1 < MaxDatagrams
            OBVIOUS
        <3>6. \A e \in Devs : count'[e] = Len(agg'[e].pkts) /\ count'[e] < MaxDatagrams
            <4> SUFFICES ASSUME NEW e \in Devs
                         PROVE  count'[e] = Len(agg'[e].pkts) /\ count'[e] < MaxDatagrams
                OBVIOUS
            <4>1. CASE e = d
                BY <3>2, <3>4, <3>5, <4>1
            <4>2. CASE e # d
                BY <1>0, <3>2, <4>2 DEF BufferInv
            <4>3. QED
                BY <4>1, <4>2
        <3>7. \A e \in Devs : Len(agg'[e].pkts) > 1 => agg'[e].len < MaxSize
            <4> SUFFICES ASSUME NEW e \in Devs, Len(agg'[e].pkts) > 1
                         PROVE  agg'[e].len < MaxSize
                OBVIOUS
            <4>1. CASE e = d
                <5>1. Len(agg'[e].pkts) = 1
                    BY <3>4, <4>1, Zenon
                <5>2. FALSE
                    <6> DEFINE n == Len(agg'[e].pkts)
                    <6>1. n = 1 /\ n > 1
                        BY <5>1
                    <6> HIDE DEF n
                    <6>2. QED
                        BY <6>1
                <5>3. QED
                    BY <5>2
            <4>2. CASE e # d
                BY <1>0, <3>2, <4>2 DEF BufferInv
            <4>3. QED
                BY <4>1, <4>2
        <3>8. QED
            BY <3>6, <3>7 DEF BufferInv
    <2>5. QED
        BY <1>1, <1>3, <2>2, <2>3, <2>4 DEF Aggregate, aggVars
<1>4. QED
    BY <1>1, <1>2, <1>3, AggChanges

LEMMA StepIInv == IInv /\ [Next]_vars => IInv'
<1> SUFFICES ASSUME IInv, [Next]_vars PROVE IInv'
    OBVIOUS
<1>1. TypeOK'
    <2>1. CASE UNCHANGED vars
        BY <2>1 DEF IInv, TypeOK, vars, xmitVars, aggVars, workVars, realVars, tasklet, linkVars
    <2>2. QED
        BY <2>1, XmitType, WorkType, LinkType, RealType DEF Next
<1>2. QED
    BY <1>1, BufferStep DEF IInv

LEMMA InvariantI == Spec => []IInv
  BY InitIInv, StepIInv, PTL DEF Spec

-----------------------------------------------------------------------------
\* The types, agg_count within the granted number of datagrams among them.
THEOREM TypeCorrect == Spec => []TypeOK
<1>1. IInv => TypeOK
    BY DEF IInv
<1>2. QED
    BY <1>1, InvariantI, PTL

\* A packet in a buffer has a timer, a pending work item or start_xmit itself
\* to send it, however the timer and the work item fall between the steps of
\* start_xmit.
THEOREM NoPacketStranded == Spec => []NothingStranded
<1>1. Init => NothingStranded
    BY DEF Init, InitWith, NothingStranded, Empty
<1>2. IInv /\ NothingStranded /\ [Next]_vars => NothingStranded'
    <2> SUFFICES ASSUME IInv, NothingStranded, [Next]_vars,
                        NEW e \in Devs, agg'[e].pkts # <<>>
                 PROVE  timer'[e] \/ work'[e] \/ pc'[e] = "timer"
        BY DEF NothingStranded
    <2>0. TypeOK
        BY DEF IInv
    <2>1. ASSUME NEW d \in Devs, Aggregate(d)
          PROVE  timer'[e] \/ work'[e] \/ pc'[e] = "timer"
        <3>1. timer' = timer /\ work' = work
            BY <2>1 DEF Aggregate, workVars
        <3>2. CASE e # d
            <4>1. agg'[e] = agg[e] /\ pc'[e] = pc[e]
                BY <2>0, <2>1, <3>2 DEF Aggregate, aggVars, TypeOK
            <4>2. QED
                BY <3>1, <4>1 DEF NothingStranded
        <3>3. CASE e = d
            <4>1. pc'[d] = "timer" \/ agg'[d] = Empty(d) \/ (agg' = agg /\ agg[d].pkts = <<>>)
                BY <2>0, <2>1 DEF Aggregate, aggVars, TypeOK
            <4>2. QED
                BY <3>3, <4>1, <2>0, DatagramTypes
        <3>4. QED
            BY <3>2, <3>3
    <2>2. ASSUME NEW d \in Devs, WorkTakes(d)
          PROVE  timer'[e] \/ work'[e] \/ pc'[e] = "timer"
        <3>1. e # d
            BY <2>0, <2>2, DatagramTypes DEF WorkTakes, TypeOK
        <3>2. QED
            BY <2>0, <2>2, <3>1 DEF WorkTakes, xmitVars, NothingStranded, TypeOK
    <2>3. ASSUME NEW d \in Devs, StartTimer(d)
          PROVE  timer'[e] \/ work'[e] \/ pc'[e] = "timer"
        BY <2>0, <2>3 DEF StartTimer, TimerNeeded, aggVars, workVars, NothingStranded, TypeOK
    <2>4. ASSUME NEW d \in Devs, TimerFires(d)
          PROVE  timer'[e] \/ work'[e] \/ pc'[e] = "timer"
        BY <2>0, <2>4 DEF TimerFires, xmitVars, aggVars, NothingStranded, TypeOK
    <2>5. ASSUME NEW d \in Devs, StartXmit(d) \/ StopQueue(d) \/ NoAggregation(d) \/ HandOver(d)
          PROVE  timer'[e] \/ work'[e] \/ pc'[e] = "timer"
        <3>1. agg' = agg /\ timer' = timer /\ work' = work /\ pc[d] # "timer"
              /\ \A x \in Devs \ {d} : pc'[x] = pc[x]
            BY <2>0, <2>5
               DEF StartXmit, StopQueue, NoAggregation, HandOver, aggVars, workVars, TypeOK
        <3>2. QED
            BY <3>1 DEF NothingStranded
    <2>6. CASE UNCHANGED <<agg, timer, work, pc>>
        BY <2>6 DEF NothingStranded
    <2>7. \/ \E d \in Devs : \/ Aggregate(d) \/ WorkTakes(d) \/ StartTimer(d) \/ TimerFires(d)
                             \/ StartXmit(d) \/ StopQueue(d) \/ NoAggregation(d) \/ HandOver(d)
          \/ UNCHANGED <<agg, timer, work, pc>>
        BY DEF Next, vars, Xmit, WorkStep, LinkStep, WorkSends, StoreReads, StoreWrites,
               StoreEffects, QmapOpen, QmapStop, QmapSettings, UsbnetStartXmit, TxComplete,
               RxComplete, UsbnetBh, QmapWakeQueue, aggVars, xmitVars, workVars
    <2>8. QED
        BY <2>1, <2>2, <2>3, <2>4, <2>5, <2>6, <2>7
<1>3. QED
    BY <1>1, <1>2, InvariantI, PTL DEF Spec

\* Datagrams keep the number of packets and the length the modem granted, also
\* when the grant comes while packets are on their way.
THEOREM LimitsKept == Spec => []DatagramBounds
<1> USE QmapAssumption
<1>1. Init => DatagramBounds
    <2>1. \A d \in Devs : WithinLimits(Empty(d))
        BY DEF WithinLimits, Empty
    <2>2. Init => /\ agg = [d \in Devs |-> Empty(d)] /\ held = [d \in Devs |-> Empty(d)]
                  /\ taken = [d \in Devs |-> Empty(d)]
        BY Zenon DEF Init, InitWith
    <2>3. QED
        BY <2>1, <2>2 DEF DatagramBounds
<1>2. IInv /\ DatagramBounds /\ [Next]_vars => DatagramBounds'
    <2> SUFFICES ASSUME IInv, DatagramBounds, [Next]_vars PROVE DatagramBounds'
        OBVIOUS
    <2>0. TypeOK /\ BufferInv /\ BufferInv'
        BY BufferStep DEF IInv
    <2>1. \A e \in Devs : agg'[e].pkts \in Seq(Packet) /\ WithinLimits(agg'[e])
        <3>1. TypeOK'
            BY StepIInv DEF IInv
        <3>2. QED
            BY <2>0, <3>1 DEF BufferInv, WithinLimits, TypeOK, Datagram
    <2>2. \A d \in Devs : WithinLimits(Empty(d)) /\ WithinLimits(Single(d))
        <3> SUFFICES ASSUME NEW d \in Devs PROVE WithinLimits(Empty(d)) /\ WithinLimits(Single(d))
            OBVIOUS
        <3>1. Len(Empty(d).pkts) = 0 /\ Len(Single(d).pkts) = 1
            BY <2>0, DatagramTypes
        <3>2. QED
            BY <3>1 DEF WithinLimits
    <2>3. ASSUME NEW d \in Devs, Aggregate(d) PROVE DatagramBounds'
        <3>1. Fits(d) => WithinLimits(Joined(d))
            <4>1. count[d] = Len(agg[d].pkts) /\ count[d] < MaxDatagrams /\ count[d] \in Nat
                BY <2>0 DEF BufferInv, TypeOK
            <4>2. Len(Joined(d).pkts) <= MaxDatagrams
                BY <2>0, <4>1, DatagramTypes
            <4>3. Fits(d) => Joined(d).len < MaxSize
                BY <2>0, DatagramTypes DEF Fits
            <4>4. QED
                BY <4>2, <4>3 DEF WithinLimits
        <3>2. WithinLimits(held'[d])
            BY <2>0, <2>2, <2>3, <3>1 DEF Aggregate, DatagramBounds, TypeOK
        <3>3. taken' = taken /\ \A e \in Devs \ {d} : held'[e] = held[e]
            BY <2>0, <2>3 DEF Aggregate, workVars, TypeOK
        <3>4. QED
            BY <2>1, <3>2, <3>3 DEF DatagramBounds
    <2>4. ASSUME NEW d \in Devs, NoAggregation(d) \/ HandOver(d) PROVE DatagramBounds'
        <3>1. WithinLimits(held'[d]) /\ taken' = taken /\ \A e \in Devs \ {d} : held'[e] = held[e]
            BY <2>0, <2>2, <2>4 DEF NoAggregation, HandOver, workVars, TypeOK
        <3>2. QED
            BY <2>1, <3>1 DEF DatagramBounds
    <2>5. ASSUME NEW d \in Devs, WorkTakes(d) \/ WorkSends(d) PROVE DatagramBounds'
        <3>1. /\ taken'[d] = agg[d] \/ taken'[d] = Empty(d)
              /\ held' = held /\ \A e \in Devs \ {d} : taken'[e] = taken[e]
            BY <2>0, <2>5 DEF WorkTakes, WorkSends, xmitVars, TypeOK
        <3>2. QED
            BY <2>1, <2>2, <3>1 DEF DatagramBounds
    <2>6. CASE UNCHANGED <<held, taken>>
        BY <2>1, <2>6 DEF DatagramBounds
    <2>7. \/ \E d \in Devs : \/ Aggregate(d) \/ NoAggregation(d) \/ HandOver(d)
                             \/ WorkTakes(d) \/ WorkSends(d)
          \/ UNCHANGED <<held, taken>>
        BY DEF Next, vars, Xmit, WorkStep, LinkStep, StartXmit, StopQueue, StartTimer, TimerFires,
               StoreReads, StoreWrites, StoreEffects, QmapOpen, QmapStop, QmapSettings,
               UsbnetStartXmit, TxComplete, RxComplete, UsbnetBh, QmapWakeQueue, xmitVars, workVars
    <2>8. QED
        BY <2>3, <2>4, <2>5, <2>6, <2>7
<1>3. QED
    BY <1>1, <1>2, InvariantI, PTL DEF Spec
-----------------------------------------------------------------------------
\* One connection manager at a time switches its link.  Links whose manager is
\* not at it agree in link_state, priv->link_state and the carrier; the one
\* being switched still has, until its effects, what goes with the old mask.
Settled(d) ==
  /\ d \in linkState <=> wanted[d]
  /\ link[d] <=> wanted[d]
  /\ carrier[d] <=> up[d] /\ wanted[d]
Unsettled(d) ==
  /\ d \in old[d] <=> ~wanted[d]
  /\ carrier[d] <=> up[d] /\ ~wanted[d]
  /\ link[d] <=> ~wanted[d]
  /\ realCarrier <=> old[d] # {}
LinkInv ==
  overlap \/
  /\ \A d, e \in Devs : user[d] # "idle" /\ user[e] # "idle" => d = e
  /\ \A d \in Devs :
       /\ user[d] = "idle" => Settled(d)
       /\ user[d] = "write" => Unsettled(d) /\ linkState = old[d]
       /\ user[d] = "effect" =>
            /\ Unsettled(d)
            /\ linkState = IF wanted[d] THEN old[d] \union {d} ELSE old[d] \ {d}
  /\ (\A d \in Devs : user[d] = "idle") => (realCarrier <=> linkState # {})

-----------------------------------------------------------------------------
\* Only the links' own actions change what LinkInv speaks of.
LEMMA LinkChanges ==
    ASSUME [Next]_vars
    PROVE  (\E d \in Devs : LinkStep(d)) \/ UNCHANGED linkVars
  BY DEF Next, vars, Xmit, WorkStep, StartXmit, StopQueue, NoAggregation, Aggregate, HandOver,
         StartTimer, TimerFires, WorkTakes, WorkSends, QmapSettings, UsbnetStartXmit, TxComplete,
         RxComplete, UsbnetBh, QmapWakeQueue

LEMMA LinkStepInv ==
    ASSUME TypeOK, LinkInv, NEW d \in Devs, LinkStep(d), ~overlap'
    PROVE  LinkInv'
<1>1. /\ linkState \subseteq Devs
      /\ link \in [Devs -> BOOLEAN] /\ carrier \in [Devs -> BOOLEAN] /\ up \in [Devs -> BOOLEAN]
      /\ wanted \in [Devs -> BOOLEAN] /\ old \in [Devs -> SUBSET Devs]
      /\ user \in [Devs -> {"idle", "write", "effect"}] /\ realCarrier \in BOOLEAN
      /\ overlap \in BOOLEAN
    BY DEF TypeOK
<1>2. CASE StoreReads(d)
    <2>1. /\ ~overlap /\ \A u \in Devs : user[u] = "idle"
          /\ old' = [old EXCEPT ![d] = linkState] /\ wanted' = [wanted EXCEPT ![d] = ~@]
          /\ user' = [user EXCEPT ![d] = "write"]
          /\ UNCHANGED <<realCarrier, carrier, up, linkState, link>>
        BY <1>1, <1>2 DEF StoreReads
    <2>2. /\ \A u \in Devs : Settled(u)
          /\ realCarrier <=> linkState # {}
        BY <2>1 DEF LinkInv
    <2>3. /\ user'[d] = "write" /\ old'[d] = linkState /\ (wanted'[d] <=> ~wanted[d])
          /\ \A u \in Devs \ {d} : user'[u] = "idle" /\ wanted'[u] = wanted[u]
        BY <1>1, <2>1
    <2>4. Unsettled(d)'
        BY <2>1, <2>2, <2>3 DEF Settled, Unsettled
    <2>5. \A u \in Devs \ {d} : Settled(u)'
        BY <2>1, <2>2, <2>3 DEF Settled
    <2>6. QED
        BY <2>1, <2>3, <2>4, <2>5 DEF LinkInv
<1>3. CASE StoreWrites(d)
    <2>1. /\ ~overlap /\ user[d] = "write"
          /\ linkState' = IF wanted[d] THEN old[d] \union {d} ELSE old[d] \ {d}
          /\ user' = [user EXCEPT ![d] = "effect"]
          /\ UNCHANGED <<realCarrier, carrier, up, link, old, wanted>>
        BY <1>3 DEF StoreWrites
    <2>2. /\ \A u \in Devs \ {d} : user[u] = "idle" /\ Settled(u)
          /\ Unsettled(d) /\ linkState = old[d]
        BY <1>1, <2>1 DEF LinkInv
    <2>3. user'[d] = "effect" /\ \A u \in Devs \ {d} : user'[u] = "idle"
        BY <1>1, <2>1, <2>2
    <2>4. Unsettled(d)' /\ \A u \in Devs \ {d} : Settled(u)'
        BY <2>1, <2>2 DEF Settled, Unsettled
    <2>5. QED
        BY <2>1, <2>3, <2>4 DEF LinkInv
<1>4. CASE StoreEffects(d)
    <2>1. /\ ~overlap /\ user[d] = "effect" /\ user' = [user EXCEPT ![d] = "idle"]
          /\ UNCHANGED <<up, linkState, old, wanted>>
        BY <1>4 DEF StoreEffects
    <2>2. /\ \A u \in Devs \ {d} : user[u] = "idle" /\ Settled(u)
          /\ Unsettled(d)
          /\ linkState = IF wanted[d] THEN old[d] \union {d} ELSE old[d] \ {d}
        BY <1>1, <2>1 DEF LinkInv
    <2>3. LinkChanged(d) /\ (d \in linkState <=> wanted[d])
        BY <2>2 DEF LinkChanged, Unsettled
    <2>4. /\ realCarrier' = (linkState # {})
          /\ link' = [link EXCEPT ![d] = d \in linkState]
          /\ carrier' = [carrier EXCEPT ![d] = up[d] /\ d \in linkState]
        BY <1>4, <2>3 DEF StoreEffects, RealCarrier
    <2>5. /\ \A u \in Devs : user'[u] = "idle"
          /\ \A u \in Devs \ {d} : link'[u] = link[u] /\ carrier'[u] = carrier[u]
          /\ link'[d] = (d \in linkState) /\ carrier'[d] = (up[d] /\ d \in linkState)
        BY <1>1, <2>1, <2>2, <2>4
    <2>6. Settled(d)'
        BY <2>1, <2>3, <2>5 DEF Settled
    <2>7. \A u \in Devs \ {d} : Settled(u)'
        BY <2>1, <2>2, <2>5 DEF Settled
    <2>8. realCarrier' <=> linkState' # {}
        BY <2>1, <2>4
    <2>9. QED
        BY <2>5, <2>6, <2>7, <2>8 DEF LinkInv
<1>5. CASE QmapOpen(d)
    <2>1. /\ ~overlap /\ user[d] = "idle" /\ ~up[d]
          /\ up' = [up EXCEPT ![d] = TRUE] /\ carrier' = [carrier EXCEPT ![d] = link[d]]
          /\ realCarrier' = (realCarrier \/ link[d])
          /\ UNCHANGED <<linkState, link, user, old, wanted>>
        BY <1>5 DEF QmapOpen
    <2>2. /\ up'[d] = TRUE /\ carrier'[d] = link[d]
          /\ \A u \in Devs \ {d} : up'[u] = up[u] /\ carrier'[u] = carrier[u]
        BY <1>1, <2>1
    <2>3. Settled(d)
        BY <2>1 DEF LinkInv
    <2>4. Settled(d)'
        BY <2>1, <2>2, <2>3 DEF Settled
    <2>5. \A u \in Devs \ {d} : user[u] = "idle" => Settled(u)'
        BY <2>1, <2>2 DEF LinkInv, Settled
    <2>6. ASSUME NEW u \in Devs, user[u] # "idle"
          PROVE  Unsettled(u)'
        <3>1. u # d /\ Unsettled(u) /\ (d \in linkState => d \in old[u])
            BY <1>1, <2>1, <2>6 DEF LinkInv
        <3>2. link[d] => old[u] # {}
            BY <2>3, <3>1 DEF Settled
        <3>3. QED
            BY <2>1, <2>2, <3>1, <3>2 DEF Unsettled
    <2>7. (\A u \in Devs : user[u] = "idle") => (realCarrier' <=> linkState # {})
        BY <2>1, <2>3 DEF LinkInv, Settled
    <2>8. QED
        BY <1>1, <2>1, <2>4, <2>5, <2>6, <2>7 DEF LinkInv
<1>6. CASE QmapStop(d)
    <2>1. /\ ~overlap /\ user[d] = "idle"
          /\ up' = [up EXCEPT ![d] = FALSE] /\ carrier' = [carrier EXCEPT ![d] = FALSE]
          /\ UNCHANGED <<realCarrier, linkState, link, user, old, wanted>>
        BY <1>6 DEF QmapStop
    <2>2. /\ up'[d] = FALSE /\ carrier'[d] = FALSE
          /\ \A u \in Devs \ {d} : up'[u] = up[u] /\ carrier'[u] = carrier[u]
        BY <1>1, <2>1
    <2>3. \A u \in Devs : user[u] = "idle" => Settled(u)'
        BY <2>1, <2>2 DEF LinkInv, Settled
    <2>4. \A u \in Devs : user[u] # "idle" => Unsettled(u)'
        BY <1>1, <2>1, <2>2 DEF LinkInv, Unsettled
    <2>5. QED
        BY <1>1, <2>1, <2>3, <2>4 DEF LinkInv
<1>7. QED
    BY <1>2, <1>3, <1>4, <1>5, <1>6 DEF LinkStep

\* As long as no two connection managers wrote link_state at once, carriers
\* follow the links, whatever is opened and stopped meanwhile.
THEOREM CarriersFollow == Spec => []CarrierFollowsLink
<1>1. Init => LinkInv
    <2> SUFFICES ASSUME NEW S \in SUBSET Devs, InitWith(S) PROVE LinkInv
        BY DEF Init
    <2>1. /\ carrier = [d \in Devs |-> d \in S] /\ up = [d \in Devs |-> d \in S]
          /\ link = [d \in Devs |-> d \in S] /\ wanted = [d \in Devs |-> d \in S]
          /\ user = [d \in Devs |-> "idle"] /\ linkState = S /\ realCarrier = (S # {})
        BY Zenon DEF InitWith
    <2>2. \A d \in Devs : Settled(d) /\ user[d] = "idle"
        BY <2>1 DEF Settled
    <2>3. QED
        BY <2>1, <2>2 DEF LinkInv
<1>2. IInv /\ LinkInv /\ [Next]_vars => LinkInv'
    <2> SUFFICES ASSUME IInv, LinkInv, [Next]_vars PROVE LinkInv'
        OBVIOUS
    <2>1. CASE UNCHANGED linkVars
        BY <2>1 DEF linkVars, LinkInv, Settled, Unsettled
    <2>2. CASE overlap'
        BY <2>2 DEF LinkInv
    <2>3. QED
        BY <2>1, <2>2, LinkChanges, LinkStepInv DEF IInv
<1>3. IInv /\ LinkInv => CarrierFollowsLink
    <2> SUFFICES ASSUME IInv, LinkInv, ~overlap PROVE CarrierFollowsLink
        BY DEF CarrierFollowsLink
    <2>0. linkState \subseteq Devs
        BY DEF IInv, TypeOK
    <2>1. \A d \in Devs : user[d] = "idle" => Settled(d)
        BY DEF LinkInv
    <2>2. \A d \in Devs : user[d] = "idle" => (carrier[d] <=> up[d] /\ wanted[d])
        BY <2>1 DEF Settled
    <2>3. ASSUME \A d \in Devs : user[d] = "idle"
          PROVE  realCarrier <=> \E d \in Devs : wanted[d]
        BY <2>0, <2>1, <2>3 DEF LinkInv, Settled
    <2>4. QED
        BY <2>2, <2>3 DEF CarrierFollowsLink
<1>4. QED
    BY <1>1, <1>2, <1>3, InvariantI, PTL DEF Spec

-----------------------------------------------------------------------------
\* Where the packets of a device are; those in L, at 0, are lost.  A step of the device
\* takes the packets of some places together in one; what the real device takes goes
\* to a new place at the end, what it refuses to 0.
Spread(d, P, L) ==
  [i \in Nat |-> IF i = 0 THEN L
                 ELSE IF i \in DOMAIN P /\ P[i].of = d THEN Numbers(P[i]) ELSE {}]
Gathered(V, W, S, t) ==
  /\ t \notin S
  /\ \A n : n \in W[t] <=> n \in V[t] \/ \E s \in S : n \in V[s]
  /\ \A s \in S : W[s] = {}
  /\ \A i \in Nat : i = t \/ i \in S \/ W[i] = V[i]
Once(V, last) ==
  /\ \A n \in 1..last : \E i \in Nat : \A j \in Nat : n \in V[j] <=> j = i
  /\ \A j \in Nat : V[j] \subseteq 1..last

\* The number of the packet in start_xmit follows those in the buffer.
NumberInv ==
  \A d \in Devs :
    /\ taken[d].of = d /\ held[d].of = d /\ agg[d].of = d
    /\ skb[d] # None => pc[d] \in {"agg", "send"} /\ skb[d].n = packets[d]
    /\ pc[d] = "agg" => skb[d] # None
    /\ pc[d] \notin {"send", "direct"} => held[d].pkts = <<>>
    /\ agg[d].pkts # <<>> =>
         /\ max # 1
         /\ agg[d].pkts[Len(agg[d].pkts)].n + (IF skb[d] = None THEN 0 ELSE 1) = packets[d]

ConsecutiveInv ==
  /\ \A d \in Devs : /\ Consecutive(taken[d].pkts) /\ Consecutive(held[d].pkts)
                      /\ Consecutive(agg[d].pkts)
  /\ \A i \in 1..Len(sent) : Consecutive(sent[i].pkts)
  /\ \A i \in 1..Len(backlog) : Consecutive(backlog[i].pkts)

OnceInv == \A d \in Devs : Once(Spread(d, Places(d), lost[d]), packets[d])

PacketInv == NumberInv /\ ConsecutiveInv /\ OnceInv

LEMMA GatheredOnce ==
    ASSUME NEW V, NEW W, NEW S \in SUBSET Nat, NEW t \in Nat, Gathered(V, W, S, t),
           NEW last \in Nat, Once(V, last)
    PROVE  Once(W, last)
<1>1. ASSUME NEW n \in 1..last
      PROVE  \E i \in Nat : \A j \in Nat : n \in W[j] <=> j = i
    <2>1. PICK i \in Nat : \A j \in Nat : n \in V[j] <=> j = i
        BY DEF Once
    <2>2. CASE i \in S
        <3>1. \A j \in Nat : n \in W[j] <=> j = t
            BY <2>1, <2>2, Zenon DEF Gathered
        <3>2. QED
            BY <3>1
    <2>3. CASE i \notin S
        <3>1. \A j \in Nat : n \in W[j] <=> j = i
            BY <2>1, <2>3, Zenon DEF Gathered
        <3>2. QED
            BY <3>1
    <2>4. QED
        BY <2>2, <2>3
<1>2. ASSUME NEW j \in Nat PROVE W[j] \subseteq 1..last
    <2>1. \A i \in Nat : V[i] \subseteq 1..last
        BY DEF Once
    <2>2. QED
        BY <2>1, Zenon DEF Gathered
<1>3. QED
    BY <1>1, <1>2 DEF Once

LEMMA Associative ==
    ASSUME NEW x \in Seq(Datagram), NEW y \in Seq(Datagram), NEW z \in Seq(Datagram)
    PROVE  (x \o y) \o z = x \o (y \o z)
  BY ConcatAssociative

\* A sequence and what follows it.
LEMMA Concat ==
    ASSUME NEW p \in Seq(Datagram), NEW q \in Seq(Datagram)
    PROVE  /\ p \o q \in Seq(Datagram) /\ Len(p \o q) = Len(p) + Len(q)
           /\ DOMAIN (p \o q) = 1..(Len(p) + Len(q))
           /\ \A i \in 1..Len(p) : (p \o q)[i] = p[i]
           /\ \A i \in (Len(p) + 1)..(Len(p) + Len(q)) : (p \o q)[i] = q[i - Len(p)]
<1> DEFINE r == p \o q
           m == Len(p)
           l == Len(q)
<1>1. /\ r \in Seq(Datagram) /\ Len(r) = m + l
      /\ \A i \in 1..(m + l) : r[i] = IF i <= m THEN p[i] ELSE q[i - m]
    BY ConcatProperties
<1>2. m \in Nat /\ l \in Nat
    OBVIOUS
<1>3. DOMAIN r = 1..Len(r)
    BY <1>1
<1> HIDE DEF r, m, l
<1>4. /\ DOMAIN r = 1..(m + l)
      /\ \A i \in 1..m : r[i] = p[i]
      /\ \A i \in (m + 1)..(m + l) : r[i] = q[i - m]
    BY <1>1, <1>2, <1>3
<1>5. QED
    BY <1>1, <1>4, Zenon DEF r, m, l

\* Four places, and two sequences after them.
Row(r, x, p, q) ==
  /\ 4 + Len(p) \in Nat /\ 4 + Len(p) + Len(q) \in Nat
  /\ 4 + Len(p) >= 4 /\ 4 + Len(p) + Len(q) >= 4 + Len(p)
  /\ r \in Seq(Datagram) /\ Len(r) = 4 + Len(p) + Len(q)
  /\ DOMAIN r = 1..(4 + Len(p) + Len(q))
  /\ \A i \in 1..4 : r[i] = x[i]
  /\ \A i \in 5..(4 + Len(p)) : r[i] = p[i - 4]
  /\ \A i \in (4 + Len(p) + 1)..(4 + Len(p) + Len(q)) : r[i] = q[i - (4 + Len(p))]

LEMMA RowOf ==
    ASSUME NEW x \in Seq(Datagram), Len(x) = 4,
           NEW p \in Seq(Datagram), NEW q \in Seq(Datagram)
    PROVE  Row(x \o p \o q, x, p, q)
<1> DEFINE a == x \o p
           b == a \o q
           lp == Len(p)
           lq == Len(q)
           lx == Len(x)
           la == Len(a)
           m == 4 + Len(p)
           l == m + Len(q)
<1>1. lp \in Nat /\ lq \in Nat /\ m = 4 + lp /\ l = m + lq /\ lx = 4
    OBVIOUS
<1>2. /\ a \in Seq(Datagram) /\ la = lx + lp
      /\ \A i \in 1..lx : a[i] = x[i]
      /\ \A i \in (lx + 1)..(lx + lp) : a[i] = p[i - lx]
    <2>1. /\ x \o p \in Seq(Datagram) /\ Len(x \o p) = Len(x) + Len(p)
          /\ \A i \in 1..Len(x) : (x \o p)[i] = x[i]
          /\ \A i \in (Len(x) + 1)..(Len(x) + Len(p)) : (x \o p)[i] = p[i - Len(x)]
        BY Concat, Zenon
    <2>2. QED
        BY <2>1, Zenon
<1> HIDE DEF a
<1>3. /\ b \in Seq(Datagram) /\ DOMAIN b = 1..(la + lq) /\ Len(b) = la + lq
      /\ \A i \in 1..la : b[i] = a[i]
      /\ \A i \in (la + 1)..(la + lq) : b[i] = q[i - la]
    <2>1. /\ a \o q \in Seq(Datagram) /\ Len(a \o q) = Len(a) + Len(q)
          /\ DOMAIN (a \o q) = 1..(Len(a) + Len(q))
          /\ \A i \in 1..Len(a) : (a \o q)[i] = a[i]
          /\ \A i \in (Len(a) + 1)..(Len(a) + Len(q)) : (a \o q)[i] = q[i - Len(a)]
        <3>1. a \in Seq(Datagram)
            BY <1>2
        <3>2. QED
            BY <3>1, Concat
    <2>2. QED
        BY <2>1, Zenon
<1> HIDE DEF b, lp, lq, lx, la, m, l
<1>4. la = m /\ m \in Nat /\ l \in Nat /\ m >= 4 /\ l >= m
    <2>1. la = lx + lp
        BY <1>2
    <2>2. QED
        BY <1>1, <2>1
<1>5. /\ b \in Seq(Datagram) /\ DOMAIN b = 1..l /\ Len(b) = l
      /\ \A i \in 1..4 : b[i] = x[i]
      /\ \A i \in 5..m : b[i] = p[i - 4]
      /\ \A i \in (m + 1)..l : b[i] = q[i - m]
    <2>1. b \in Seq(Datagram) /\ DOMAIN b = 1..l /\ Len(b) = l
        BY <1>1, <1>3, <1>4
    <2>2. \A i \in 1..m : b[i] = a[i]
        BY <1>3, <1>4
    <2>3. \A i \in 1..4 : i \in 1..m /\ a[i] = x[i]
        BY <1>1, <1>2, <1>4
    <2>4. \A i \in 5..m : i \in 1..m /\ a[i] = p[i - 4]
        BY <1>1, <1>2, <1>4
    <2>5. \A i \in (m + 1)..l : b[i] = q[i - m]
        BY <1>1, <1>3, <1>4
    <2>6. QED
        BY <2>1, <2>2, <2>3, <2>4, <2>5
<1>6. QED
    BY <1>4, <1>5, Zenon DEF b, a, m, l, Row

\* The places of d when only its own four change.
SlotsShown(d, X, Y, p, q, L) ==
  /\ \A i \in 1..4 : Spread(d, X \o p \o q, L)[i] = Numbers(X[i])
  /\ \A i \in 1..4 : Spread(d, Y \o p \o q, L)[i] = Numbers(Y[i])
  /\ \A i \in Nat : i \in 1..4 \/ Spread(d, Y \o p \o q, L)[i] = Spread(d, X \o p \o q, L)[i]
LEMMA SlotsChange ==
    ASSUME NEW d \in Devs, NEW p \in Seq(Datagram), NEW q \in Seq(Datagram),
           NEW X \in Seq(Datagram), NEW Y \in Seq(Datagram), NEW L \in SUBSET Nat,
           Len(X) = 4, \A i \in 1..4 : X[i].of = d, Len(Y) = 4, \A i \in 1..4 : Y[i].of = d
    PROVE  SlotsShown(d, X, Y, p, q, L)
<1> DEFINE P == X \o p \o q
           Q == Y \o p \o q
           m == 4 + Len(p)
           l == m + Len(q)
<1>1. /\ l \in Nat /\ l >= 4 /\ DOMAIN P = 1..l /\ DOMAIN Q = 1..l
      /\ \A i \in 1..4 : P[i] = X[i] /\ Q[i] = Y[i]
      /\ \A i \in 5..l : Q[i] = P[i]
    <2>1. Row(X \o p \o q, X, p, q) /\ Row(Y \o p \o q, Y, p, q)
        BY RowOf, Zenon
    <2>2. Row(P, X, p, q) /\ Row(Q, Y, p, q)
        BY <2>1, Zenon
    <2> HIDE DEF P, Q
    <2>5. /\ m \in Nat /\ l \in Nat /\ m >= 4 /\ l >= m
          /\ DOMAIN P = 1..l
          /\ \A i \in 1..4 : P[i] = X[i]
          /\ \A i \in 5..m : P[i] = p[i - 4]
          /\ \A i \in (m + 1)..l : P[i] = q[i - m]
        BY <2>2, Zenon DEF Row
    <2>6. /\ DOMAIN Q = 1..l
          /\ \A i \in 1..4 : Q[i] = Y[i]
          /\ \A i \in 5..m : Q[i] = p[i - 4]
          /\ \A i \in (m + 1)..l : Q[i] = q[i - m]
        BY <2>2, Zenon DEF Row
    <2> HIDE DEF m, l
    <2>3. ASSUME NEW i \in 5..l PROVE Q[i] = P[i]
        <3>0. m \in Nat /\ l \in Nat /\ i \in 5..l
            BY <2>3, <2>5
        <3>1. CASE i <= m
            <4>1. i \in 5..m
                BY <3>0, <3>1
            <4>2. P[i] = p[i - 4] /\ Q[i] = p[i - 4]
                BY <2>5, <2>6, <4>1, Zenon
            <4>3. QED
                BY <4>2
        <3>2. CASE i > m
            <4>1. i \in (m + 1)..l
                BY <3>0, <3>2
            <4>2. P[i] = q[i - m] /\ Q[i] = q[i - m]
                BY <2>5, <2>6, <4>1, Zenon
            <4>3. QED
                BY <4>2
        <3>3. QED
            BY <3>0, <3>1, <3>2
    <2>4. QED
        BY <2>5, <2>6, <2>3
<1> HIDE DEF P, Q, m, l
<1>2. \A i \in Nat : i \in 1..4 \/ Spread(d, Q, L)[i] = Spread(d, P, L)[i]
    <2> SUFFICES ASSUME NEW i \in Nat, i \notin 1..4 PROVE Spread(d, Q, L)[i] = Spread(d, P, L)[i]
        OBVIOUS
    <2>1. (i \in DOMAIN P => P[i] = Q[i]) /\ DOMAIN P = DOMAIN Q
        BY <1>1
    <2>2. /\ Spread(d, P, L)[i] = IF i = 0 THEN L ELSE
               IF i \in DOMAIN P /\ P[i].of = d THEN Numbers(P[i]) ELSE {}
          /\ Spread(d, Q, L)[i] = IF i = 0 THEN L ELSE
               IF i \in DOMAIN Q /\ Q[i].of = d THEN Numbers(Q[i]) ELSE {}
        BY DEF Spread
    <2>3. QED
        BY <2>1, <2>2, Zenon
<1>3. \A i \in 1..4 : Spread(d, P, L)[i] = Numbers(X[i]) /\ Spread(d, Q, L)[i] = Numbers(Y[i])
    BY <1>1 DEF Spread
<1>4. QED
    BY <1>2, <1>3 DEF P, Q, SlotsShown

\* A datagram more at the end.
LEMMA SpreadAppend ==
    ASSUME NEW d \in Devs, NEW P \in Seq(Datagram), NEW g \in Datagram, NEW n \in Nat,
           NEW L \in SUBSET Nat, n = Len(P) + 1
    PROVE  /\ Spread(d, P, L)[n] = {}
           /\ Spread(d, Append(P, g), L)[n] = IF g.of = d THEN Numbers(g) ELSE {}
           /\ \A i \in Nat : i = n \/ Spread(d, Append(P, g), L)[i] = Spread(d, P, L)[i]
<1> DEFINE Q == Append(P, g)
<1>1. /\ DOMAIN P = 1..Len(P) /\ DOMAIN Q = 1..n /\ n \in DOMAIN Q /\ n \notin DOMAIN P
      /\ Q[n] = g /\ \A i \in DOMAIN P : Q[i] = P[i] /\ i \in DOMAIN Q
    OBVIOUS
<1>2. \A i \in Nat : i = n \/ (i \in DOMAIN P <=> i \in DOMAIN Q)
    BY <1>1
<1> HIDE DEF Q
<1>3. n \in Nat /\ n # 0
    OBVIOUS
<1>4. /\ \A i \in Nat : Spread(d, P, L)[i] = IF i = 0 THEN L ELSE
               IF i \in DOMAIN P /\ P[i].of = d THEN Numbers(P[i]) ELSE {}
      /\ \A i \in Nat : Spread(d, Q, L)[i] = IF i = 0 THEN L ELSE
               IF i \in DOMAIN Q /\ Q[i].of = d THEN Numbers(Q[i]) ELSE {}
    BY DEF Spread
<1>5. Spread(d, P, L)[n] = {}
    BY <1>1, <1>3, <1>4
<1>6. Spread(d, Q, L)[n] = IF g.of = d THEN Numbers(g) ELSE {}
    BY <1>1, <1>3, <1>4
<1>7. ASSUME NEW i \in Nat, i # n PROVE Spread(d, Q, L)[i] = Spread(d, P, L)[i]
    <2>1. CASE i \in DOMAIN P
        BY <1>1, <1>4, <2>1
    <2>2. CASE i \notin DOMAIN P
        BY <1>2, <1>4, <1>7, <2>2
    <2>3. QED
        BY <2>1, <2>2
<1>8. QED
    BY <1>5, <1>6, <1>7 DEF Q

LEMMA SpreadOther ==
    ASSUME NEW d \in Devs, NEW P \in Seq(Datagram), NEW g \in Datagram,
           NEW L \in SUBSET Nat, g.of # d
    PROVE  Spread(d, Append(P, g), L) = Spread(d, P, L)
<1>1. Len(P) + 1 \in Nat
    OBVIOUS
<1>2. \A i \in Nat : Spread(d, Append(P, g), L)[i] = Spread(d, P, L)[i]
    <2> DEFINE n == Len(P) + 1
    <2>1. n \in Nat /\ n = Len(P) + 1
        BY <1>1
    <2> HIDE DEF n
    <2>2. /\ Spread(d, P, L)[n] = {}
          /\ Spread(d, Append(P, g), L)[n] = IF g.of = d THEN Numbers(g) ELSE {}
          /\ \A i \in Nat : i = n \/ Spread(d, Append(P, g), L)[i] = Spread(d, P, L)[i]
        BY <2>1, SpreadAppend
    <2>3. QED
        BY <2>2, Zenon
<1>3. /\ Spread(d, Append(P, g), L) = [i \in Nat |-> Spread(d, Append(P, g), L)[i]]
      /\ Spread(d, P, L) = [i \in Nat |-> Spread(d, P, L)[i]]
    BY DEF Spread
<1>4. QED
    BY <1>2, <1>3, Zenon

LEMMA NumbersOf ==
    ASSUME TypeOK, NEW d \in Devs
    PROVE  /\ Numbers(Empty(d)) = {} /\ Numbers(Single(d)) = {skb[d].n}
           /\ Numbers(Joined(d)) = Numbers(agg[d]) \union {skb[d].n}
           /\ Empty(d).of = d /\ Single(d).of = d /\ Joined(d).of = d
           /\ Consecutive(<<>>) /\ Consecutive(Single(d).pkts)
<1>1. agg[d].pkts \in Seq(Packet) /\ skb[d] \in Packet /\ skb[d].n \in Nat
    BY DEF TypeOK, Datagram, Packet
<1>2. Empty(d).pkts = <<>> /\ Single(d).pkts = <<skb[d]>>
      /\ Joined(d).pkts = Append(agg[d].pkts, skb[d])
      /\ Empty(d).of = d /\ Single(d).of = d /\ Joined(d).of = d
    BY DEF Empty, Single, Joined
<1>3. Numbers(Empty(d)) = {} /\ Numbers(Single(d)) = {skb[d].n}
    BY <1>2 DEF Numbers
<1>4. Numbers(Joined(d)) = Numbers(agg[d]) \union {skb[d].n}
    <2> DEFINE p == agg[d].pkts
               q == Append(agg[d].pkts, skb[d])
    <2>1. /\ DOMAIN p = 1..Len(p) /\ DOMAIN q = 1..(Len(p) + 1) /\ Len(p) \in Nat
          /\ \A k \in 1..Len(p) : q[k] = p[k]
          /\ q[Len(p) + 1] = skb[d]
        BY <1>1
    <2>2. Numbers(Joined(d)) = {q[k].n : k \in DOMAIN q} /\ Numbers(agg[d]) = {p[k].n : k \in DOMAIN p}
        BY <1>2 DEF Numbers
    <2> HIDE DEF p, q
    <2>3. QED
        BY <2>1, <2>2
<1>5. Consecutive(<<>>) /\ Consecutive(Single(d).pkts)
    BY <1>1, <1>2 DEF Consecutive
<1>6. QED
    BY <1>2, <1>3, <1>4, <1>5

\* A packet is joined to the buffer when its number follows.
LEMMA JoinedConsecutive ==
    ASSUME TypeOK, NEW d \in Devs, Consecutive(agg[d].pkts), agg[d].pkts # <<>>,
           agg[d].pkts[Len(agg[d].pkts)].n + 1 = skb[d].n
    PROVE  Consecutive(Joined(d).pkts)
<1> DEFINE p == agg[d].pkts
           q == Append(agg[d].pkts, skb[d])
<1>1. /\ p \in Seq(Packet) /\ skb[d] \in Packet /\ skb[d].n \in Nat
      /\ \A x \in Packet : x.n \in Nat
    BY DEF TypeOK, Datagram, Packet
<1>2. /\ DOMAIN p = 1..Len(p) /\ DOMAIN q = 1..(Len(p) + 1) /\ Len(p) \in Nat /\ Len(p) # 0
      /\ \A k \in 1..Len(p) : q[k] = p[k] /\ p[k].n \in Nat
      /\ q[Len(p) + 1] = skb[d]
    <2>1. /\ DOMAIN p = 1..Len(p) /\ DOMAIN q = 1..(Len(p) + 1) /\ Len(p) \in Nat
          /\ \A k \in 1..Len(p) : q[k] = p[k] /\ p[k] \in Packet
          /\ q[Len(p) + 1] = skb[d]
        BY <1>1
    <2>2. Len(p) # 0
        BY <1>1
    <2> HIDE DEF p, q
    <2>3. QED
        BY <1>1, <2>1, <2>2
<1>3. \A j, k \in 1..Len(p) : p[k].n + j = p[j].n + k
    BY <1>2 DEF Consecutive
<1>4. p[Len(p)].n + 1 = skb[d].n
    OBVIOUS
<1>5. Joined(d).pkts = q
    BY DEF Joined
<1> HIDE DEF p, q
<1>6. \A k \in 1..Len(p) : p[k].n + (Len(p) + 1) = skb[d].n + k
    <2> SUFFICES ASSUME NEW k \in 1..Len(p) PROVE p[k].n + (Len(p) + 1) = skb[d].n + k
        OBVIOUS
    <2>1. p[k].n + Len(p) = p[Len(p)].n + k
        BY <1>2, <1>3
    <2>2. p[k].n \in Nat /\ p[Len(p)].n \in Nat /\ Len(p) \in Nat /\ k \in Nat
        BY <1>2
    <2>3. QED
        <3> DEFINE a == p[k].n
                   b == p[Len(p)].n
                   l == Len(p)
                   m == skb[d].n
        <3>1. a \in Nat /\ b \in Nat /\ l \in Nat /\ m \in Nat /\ k \in Nat
            BY <1>1, <2>2
        <3>2. a + l = b + k /\ b + 1 = m
            BY <1>4, <2>1
        <3> HIDE DEF a, b, l, m
        <3>3. a + (l + 1) = m + k
            BY <3>1, <3>2
        <3>4. QED
            BY <3>3 DEF a, l, m
<1>7. \A j, k \in DOMAIN q : q[k].n + j = q[j].n + k
    <2> SUFFICES ASSUME NEW j \in DOMAIN q, NEW k \in DOMAIN q PROVE q[k].n + j = q[j].n + k
        OBVIOUS
    <2>1. CASE j \in 1..Len(p) /\ k \in 1..Len(p)
        BY <1>2, <1>3, <2>1
    <2>2. CASE j = Len(p) + 1 \/ k = Len(p) + 1
        <3>1. j \in 1..Len(p) \/ j = Len(p) + 1
            BY <1>2
        <3>2. k \in 1..Len(p) \/ k = Len(p) + 1
            BY <1>2
        <3>3. QED
            BY <1>2, <1>6, <2>2, <3>1, <3>2
    <2>3. QED
        BY <1>2, <2>1, <2>2
<1>8. QED
    BY <1>5, <1>7 DEF Consecutive

\* What a step changes of the packets, and that it is one device's.
LEMMA PacketChanges ==
    ASSUME [Next]_vars
    PROVE  \/ \E d \in Devs : \/ StartXmit(d) \/ StopQueue(d) \/ NoAggregation(d) \/ Aggregate(d)
                             \/ HandOver(d) \/ StartTimer(d) \/ WorkTakes(d) \/ WorkSends(d)
           \/ /\ UNCHANGED <<pc, skb, held, packets, agg, taken, lost>>
              /\ UNCHANGED <<sent, backlog>> \/ UsbnetStartXmit
              /\ max' = max \/ max' # 1
  BY QmapAssumption DEF Next, vars, Xmit, WorkStep, LinkStep, TimerFires, StoreReads, StoreWrites, StoreEffects,
         QmapOpen, QmapStop, QmapSettings, UsbnetStartXmit, TxComplete, RxComplete, UsbnetBh,
         QmapWakeQueue, xmitVars, aggVars, workVars, realVars

LEMMA OtherDevices ==
    ASSUME TypeOK, NEW d \in Devs, NEW e \in Devs \ {d},
           \/ StartXmit(d) \/ StopQueue(d) \/ NoAggregation(d) \/ Aggregate(d)
           \/ HandOver(d) \/ StartTimer(d) \/ WorkTakes(d) \/ WorkSends(d)
    PROVE  /\ pc'[e] = pc[e] /\ skb'[e] = skb[e] /\ held'[e] = held[e] /\ packets'[e] = packets[e]
           /\ agg'[e] = agg[e] /\ taken'[e] = taken[e] /\ max' = max /\ lost'[e] = lost[e]
  BY DEF TypeOK, StartXmit, StopQueue, NoAggregation, Aggregate, HandOver, StartTimer, WorkTakes,
         WorkSends, QueueXmit, xmitVars, aggVars, workVars, realVars

Numbered(d) ==
  /\ taken[d].of = d /\ held[d].of = d /\ agg[d].of = d
  /\ skb[d] # None => pc[d] \in {"agg", "send"} /\ skb[d].n = packets[d]
  /\ pc[d] = "agg" => skb[d] # None
  /\ pc[d] \notin {"send", "direct"} => held[d].pkts = <<>>
  /\ agg[d].pkts # <<>> =>
       /\ max # 1
       /\ agg[d].pkts[Len(agg[d].pkts)].n + (IF skb[d] = None THEN 0 ELSE 1) = packets[d]

LEMMA NumberStep ==
    ASSUME TypeOK, NumberInv, [Next]_vars
    PROVE  NumberInv'
<1>1. \A d \in Devs : Numbered(d)
    BY DEF NumberInv, Numbered
<1>2. ASSUME NEW d \in Devs,
             \/ StartXmit(d) \/ StopQueue(d) \/ NoAggregation(d) \/ Aggregate(d)
             \/ HandOver(d) \/ StartTimer(d) \/ WorkTakes(d) \/ WorkSends(d)
      PROVE  Numbered(d)'
    <2>0. /\ Numbered(d) /\ packets[d] \in Nat /\ packets[d] + 1 # 0
          /\ Empty(d).of = d /\ Single(d).of = d /\ Joined(d).of = d
          /\ Empty(d).pkts = <<>> /\ Single(d).pkts = <<skb[d]>>
          /\ Joined(d).pkts = Append(agg[d].pkts, skb[d])
          /\ agg[d].pkts \in Seq(Packet) /\ skb[d] \in Packet /\ skb[d].n \in Nat
          /\ \A x \in Packet : x.n \in Nat
        <3>1. packets[d] \in Nat /\ agg[d] \in Datagram /\ skb[d] \in Packet
            BY DEF TypeOK
        <3>2. /\ agg[d].pkts \in Seq(Packet) /\ skb[d].n \in Nat
              /\ \A x \in Packet : x.n \in Nat
            BY <3>1 DEF Datagram, Packet
        <3>3. /\ Empty(d).of = d /\ Single(d).of = d /\ Joined(d).of = d
              /\ Empty(d).pkts = <<>> /\ Single(d).pkts = <<skb[d]>>
              /\ Joined(d).pkts = Append(agg[d].pkts, skb[d])
            BY DEF Empty, Single, Joined
        <3>4. QED
            BY <1>1, <3>1, <3>2, <3>3
    <2>a. agg[d].pkts # <<>> => agg[d].pkts[Len(agg[d].pkts)].n \in Nat
        <3>1. agg[d].pkts # <<>> => agg[d].pkts[Len(agg[d].pkts)] \in Packet
            BY <2>0
        <3>2. QED
            BY <2>0, <3>1
    <2>b. /\ Joined(d).pkts # <<>> /\ Joined(d).pkts[Len(Joined(d).pkts)] = skb[d]
          /\ Single(d).pkts # <<>> /\ Single(d).pkts[Len(Single(d).pkts)] = skb[d]
        BY <2>0
    <2>1. CASE StartXmit(d)
        <3>1. CASE realStopped
            BY <2>0, <2>1, <3>1 DEF TypeOK, StartXmit, Numbered, aggVars, workVars
        <3>2. CASE ~realStopped
            <4>1. PICK len \in Sizes : /\ packets' = [packets EXCEPT ![d] = packets[d] + 1]
                                       /\ skb' = [skb EXCEPT ![d] = [n |-> packets[d] + 1,
                                                                     len |-> len]]
                                       /\ pc' = [pc EXCEPT ![d] = "agg"]
                BY <2>1, <3>2, Zenon DEF StartXmit
            <4>2. /\ packets'[d] = packets[d] + 1 /\ skb'[d] = [n |-> packets[d] + 1, len |-> len]
                  /\ pc'[d] = "agg" /\ pc[d] = "idle" /\ UNCHANGED <<held, agg, taken, max>>
                BY <2>1, <4>1 DEF TypeOK, StartXmit, aggVars, workVars
            <4>3. skb'[d].n = packets[d] + 1 /\ skb'[d] # None
                BY <2>0, <4>2 DEF None
            <4>4. skb[d] = None
                BY <2>0, <4>2 DEF Numbered
            <4>5. agg[d].pkts # <<>> =>
                     max # 1 /\ agg[d].pkts[Len(agg[d].pkts)].n + 1 = packets[d] + 1
                <5> DEFINE x == agg[d].pkts[Len(agg[d].pkts)].n
                <5>1. agg[d].pkts # <<>> => max # 1 /\ x \in Nat /\ x + 0 = packets[d]
                    <6>1. agg[d].pkts # <<>> =>
                            max # 1 /\ x + (IF skb[d] = None THEN 0 ELSE 1) = packets[d]
                        BY <2>0, Zenon DEF Numbered
                    <6>2. (IF skb[d] = None THEN 0 ELSE 1) = 0
                        BY <4>4
                    <6>3. QED
                        BY <2>a, <6>1, <6>2, Zenon
                <5> HIDE DEF x
                <5>2. agg[d].pkts # <<>> => max # 1 /\ x + 1 = packets[d] + 1
                    BY <2>0, <5>1
                <5>3. QED
                    BY <5>2 DEF x
            <4>6. taken[d].of = d /\ held[d].of = d /\ agg[d].of = d /\ held[d].pkts = <<>>
                BY <2>0, <4>2 DEF Numbered
            <4>7. QED
                BY <4>2, <4>3, <4>5, <4>6 DEF Numbered
        <3>3. QED
            BY <3>1, <3>2
    <2>2. CASE StopQueue(d)
        BY <2>0, <2>2 DEF TypeOK, StopQueue, Numbered, aggVars, workVars
    <2>3. CASE NoAggregation(d)
        <3>1. /\ held'[d] = Single(d) /\ skb'[d] = None /\ pc'[d] = "direct" /\ pc[d] = "agg"
              /\ max = 1 /\ UNCHANGED <<packets, agg, taken, max>>
            BY <2>3 DEF TypeOK, NoAggregation, aggVars, workVars
        <3>2. QED
            BY <2>0, <3>1 DEF Numbered
    <2>4. CASE Aggregate(d)
        <3>1. /\ packets' = packets /\ taken' = taken /\ max' = max /\ max # 1 /\ pc[d] = "agg"
              /\ held[d].pkts = <<>> /\ skb[d] # None /\ skb[d].n = packets[d]
            BY <2>0, <2>4 DEF TypeOK, Aggregate, Numbered, workVars
        <3>2. \/ /\ held'[d] \in {Joined(d), Single(d)} /\ agg'[d] \in {Empty(d), agg[d]}
                 /\ agg'[d].pkts = <<>>
                 /\ skb'[d] = None /\ pc'[d] = "send"
              \/ /\ held'[d] = held[d] /\ agg'[d] \in {Joined(d), Single(d)}
                 /\ skb'[d] = None /\ pc'[d] = "timer"
              \/ /\ held'[d] = agg[d] /\ agg'[d] = Empty(d)
                 /\ skb'[d] = skb[d] /\ pc'[d] = "send"
            BY <2>0, <2>4 DEF TypeOK, Aggregate, aggVars
        <3>3. CASE /\ held'[d] \in {Joined(d), Single(d)} /\ agg'[d] \in {Empty(d), agg[d]}
                   /\ agg'[d].pkts = <<>>
                   /\ skb'[d] = None /\ pc'[d] = "send"
            BY <2>0, <3>1, <3>3 DEF Numbered
        <3>4. CASE /\ held'[d] = held[d] /\ agg'[d] \in {Joined(d), Single(d)}
                   /\ skb'[d] = None /\ pc'[d] = "timer"
            <4>1. agg'[d].pkts[Len(agg'[d].pkts)] = skb[d] /\ agg'[d].of = d
                BY <2>0, <2>b, <3>4
            <4>2. QED
                BY <2>0, <3>1, <3>4, <4>1 DEF Numbered
        <3>5. CASE /\ held'[d] = agg[d] /\ agg'[d] = Empty(d)
                   /\ skb'[d] = skb[d] /\ pc'[d] = "send"
            BY <2>0, <3>1, <3>5 DEF Numbered
        <3>6. QED
            BY <3>2, <3>3, <3>4, <3>5
    <2>5. CASE HandOver(d)
        BY <2>0, <2>5 DEF TypeOK, HandOver, PacketLeft, Numbered, aggVars, workVars
    <2>6. CASE StartTimer(d)
        BY <2>0, <2>6 DEF TypeOK, StartTimer, Numbered, aggVars, workVars
    <2>7. CASE WorkTakes(d)
        BY <2>0, <2>7 DEF TypeOK, WorkTakes, Numbered, xmitVars
    <2>8. CASE WorkSends(d)
        BY <2>0, <2>8 DEF TypeOK, WorkSends, Numbered, xmitVars, aggVars
    <2>9. QED
        BY <1>2, <2>1, <2>2, <2>3, <2>4, <2>5, <2>6, <2>7, <2>8
<1>3. ASSUME NEW d \in Devs,
             \/ StartXmit(d) \/ StopQueue(d) \/ NoAggregation(d) \/ Aggregate(d)
             \/ HandOver(d) \/ StartTimer(d) \/ WorkTakes(d) \/ WorkSends(d),
             NEW e \in Devs \ {d}
      PROVE  Numbered(e)'
    BY <1>1, <1>3, OtherDevices DEF Numbered
<1>4. CASE UNCHANGED <<pc, skb, held, packets, agg, taken>> /\ (max' = max \/ max' # 1)
    BY <1>1, <1>4 DEF Numbered, NumberInv
<1>5. (\A d \in Devs : Numbered(d)') => NumberInv'
    BY DEF Numbered, NumberInv
<1>6. QED
    BY <1>2, <1>3, <1>4, <1>5, PacketChanges

LEMMA ConsecutiveStep ==
    ASSUME IInv, NumberInv, ConsecutiveInv, [Next]_vars
    PROVE  ConsecutiveInv'
<1>0. TypeOK
    BY DEF IInv
<1>1. ASSUME NEW d \in Devs,
             \/ StartXmit(d) \/ StopQueue(d) \/ NoAggregation(d) \/ Aggregate(d)
             \/ HandOver(d) \/ StartTimer(d) \/ WorkTakes(d) \/ WorkSends(d)
      PROVE  /\ Consecutive(taken'[d].pkts) /\ Consecutive(held'[d].pkts) /\ Consecutive(agg'[d].pkts)
             /\ sent' = sent
             /\ backlog' = backlog \/ backlog' = Append(backlog, held[d])
                                   \/ backlog' = Append(backlog, taken[d])
    <2>1. /\ Consecutive(taken[d].pkts) /\ Consecutive(held[d].pkts) /\ Consecutive(agg[d].pkts)
          /\ Consecutive(Empty(d).pkts) /\ Consecutive(Single(d).pkts)
        BY <1>0, NumbersOf DEF ConsecutiveInv, Empty
    <2>2. CASE Aggregate(d)
        <3>1. agg[d].pkts # <<>> => Consecutive(Joined(d).pkts)
            <4> SUFFICES ASSUME agg[d].pkts # <<>> PROVE Consecutive(Joined(d).pkts)
                OBVIOUS
            <4>1. agg[d].pkts[Len(agg[d].pkts)].n + 1 = skb[d].n
                BY <2>2 DEF NumberInv, Aggregate
            <4>2. QED
                BY <1>0, <2>1, <4>1, JoinedConsecutive
        <3>2. /\ held'[d] \in {held[d], Single(d), agg[d]} \/ (held'[d] = Joined(d) /\ agg[d].pkts # <<>>)
              /\ agg'[d] \in {agg[d], Single(d), Empty(d)} \/ (agg'[d] = Joined(d) /\ agg[d].pkts # <<>>)
              /\ UNCHANGED <<taken, sent, backlog>>
            BY <1>0, <2>2 DEF TypeOK, Aggregate, aggVars, workVars, realVars
        <3>3. QED
            BY <2>1, <3>1, <3>2
    <2>3. CASE NoAggregation(d)
        <3>1. held'[d] = Single(d) /\ UNCHANGED <<agg, taken, sent, backlog>>
            BY <1>0, <2>3 DEF TypeOK, NoAggregation, aggVars, workVars, realVars
        <3>2. QED
            BY <2>1, <3>1
    <2>4. CASE HandOver(d)
        <3>1. /\ held'[d] = Empty(d) /\ UNCHANGED <<agg, taken, sent>>
              /\ backlog' = backlog \/ backlog' = Append(backlog, held[d])
            BY <1>0, <2>4 DEF TypeOK, HandOver, QueueXmit, aggVars, workVars
        <3>2. QED
            BY <2>1, <3>1
    <2>5. CASE WorkTakes(d)
        <3>1. taken'[d] = agg[d] /\ agg'[d] = Empty(d) /\ UNCHANGED <<held, sent, backlog>>
            BY <1>0, <2>5 DEF TypeOK, WorkTakes, xmitVars, realVars
        <3>2. QED
            BY <2>1, <3>1
    <2>6. CASE WorkSends(d)
        <3>1. /\ taken'[d] = Empty(d) /\ UNCHANGED <<held, agg, sent>>
              /\ backlog' = backlog \/ backlog' = Append(backlog, taken[d])
            BY <1>0, <2>6 DEF TypeOK, WorkSends, QueueXmit, xmitVars, aggVars
        <3>2. QED
            BY <2>1, <3>1
    <2>7. CASE StartXmit(d) \/ StopQueue(d) \/ StartTimer(d)
        <3>1. UNCHANGED <<held, agg, taken, sent, backlog>>
            BY <2>7 DEF StartXmit, StopQueue, StartTimer, aggVars, workVars, realVars
        <3>2. QED
            BY <2>1, <3>1
    <2>8. QED
        BY <1>1, <2>2, <2>3, <2>4, <2>5, <2>6, <2>7
<1>2. ASSUME NEW d \in Devs,
             \/ StartXmit(d) \/ StopQueue(d) \/ NoAggregation(d) \/ Aggregate(d)
             \/ HandOver(d) \/ StartTimer(d) \/ WorkTakes(d) \/ WorkSends(d)
      PROVE  ConsecutiveInv'
    <2>1. \A e \in Devs : /\ Consecutive(taken'[e].pkts) /\ Consecutive(held'[e].pkts)
                          /\ Consecutive(agg'[e].pkts)
        BY <1>0, <1>1, <1>2, OtherDevices DEF ConsecutiveInv
    <2>2. \A i \in 1..Len(sent') : Consecutive(sent'[i].pkts)
        BY <1>1, <1>2 DEF ConsecutiveInv
    <2>3. \A i \in 1..Len(backlog') : Consecutive(backlog'[i].pkts)
        <3>1. ASSUME NEW g \in Datagram, backlog' = Append(backlog, g), Consecutive(g.pkts)
              PROVE  \A i \in 1..Len(backlog') : Consecutive(backlog'[i].pkts)
            <4>1. /\ Len(backlog') = Len(backlog) + 1 /\ Len(backlog) \in Nat
                  /\ backlog'[Len(backlog) + 1] = g
                  /\ \A i \in 1..Len(backlog) : backlog'[i] = backlog[i]
                BY <1>0, <3>1 DEF TypeOK
            <4>2. QED
                BY <3>1, <4>1 DEF ConsecutiveInv
        <3>2. held[d] \in Datagram /\ taken[d] \in Datagram
            BY <1>0 DEF TypeOK
        <3>3. QED
            BY <1>1, <1>2, <3>1, <3>2 DEF ConsecutiveInv
    <2>4. QED
        BY <2>1, <2>2, <2>3 DEF ConsecutiveInv
<1>3. CASE UNCHANGED <<held, agg, taken, sent, backlog>>
    BY <1>3 DEF ConsecutiveInv
<1>4. CASE UNCHANGED <<held, agg, taken>> /\ UsbnetStartXmit
    <2>1. /\ sent' = Append(sent, Head(backlog)) /\ backlog' = Tail(backlog) /\ backlog # <<>>
          /\ sent \in Seq(Datagram) /\ backlog \in Seq(Datagram)
        BY <1>0, <1>4 DEF UsbnetStartXmit, TypeOK
    <2>2. /\ Len(sent') = Len(sent) + 1 /\ sent'[Len(sent) + 1] = backlog[1] /\ Len(sent) \in Nat
          /\ \A i \in 1..Len(sent) : sent'[i] = sent[i]
          /\ Len(backlog') = Len(backlog) - 1 /\ Len(backlog) \in Nat \ {0}
          /\ \A i \in 1..Len(backlog') : backlog'[i] = backlog[i + 1]
        BY <2>1
    <2>3. \A i \in 1..Len(sent') : Consecutive(sent'[i].pkts)
        BY <2>2 DEF ConsecutiveInv
    <2>4. \A i \in 1..Len(backlog') : Consecutive(backlog'[i].pkts)
        <3> SUFFICES ASSUME NEW i \in 1..Len(backlog') PROVE Consecutive(backlog'[i].pkts)
            OBVIOUS
        <3>1. i + 1 \in 1..Len(backlog) /\ backlog'[i] = backlog[i + 1]
            BY <2>2
        <3>2. QED
            BY <3>1 DEF ConsecutiveInv
    <2>5. QED
        BY <1>4, <2>3, <2>4 DEF ConsecutiveInv
<1>5. QED
    BY <1>2, <1>3, <1>4, PacketChanges

\* One step of one device, for its own places.
LEMMA OnceOwn ==
    ASSUME IInv, TypeOK', NumberInv, NumberInv', NEW d \in Devs, Once(Spread(d, Places(d), lost[d]), packets[d]),
           \/ StartXmit(d) \/ StopQueue(d) \/ NoAggregation(d) \/ Aggregate(d)
           \/ HandOver(d) \/ StartTimer(d) \/ WorkTakes(d) \/ WorkSends(d)
    PROVE  Once(Spread(d, Places(d), lost[d]), packets[d])'
<1> DEFINE s == IF skb[d] = None THEN Empty(d) ELSE Single(d)
           P == Places(d)
           V == Spread(d, P, lost[d])
           X == <<taken[d], held[d], agg[d], s>>
           Y == <<taken'[d], held'[d], agg'[d], s'>>
           R == Y \o sent \o backlog
           U == Spread(d, R, lost[d])
           n == Len(P) + 1
<1>0. TypeOK
    BY DEF IInv
<1>1. /\ taken[d] \in Datagram /\ held[d] \in Datagram /\ agg[d] \in Datagram /\ s \in Datagram
      /\ taken[d].of = d /\ held[d].of = d /\ agg[d].of = d /\ s.of = d
      /\ sent \in Seq(Datagram) /\ backlog \in Seq(Datagram) /\ packets[d] \in Nat
      /\ lost[d] \in SUBSET Nat
    <2>1. s \in Datagram /\ s.of = d
        BY <1>0, DatagramTypes, NumbersOf
    <2> HIDE DEF s
    <2>2. QED
        BY <1>0, <2>1 DEF NumberInv, TypeOK
<1>2. /\ taken'[d] \in Datagram /\ held'[d] \in Datagram /\ agg'[d] \in Datagram /\ s' \in Datagram
      /\ taken'[d].of = d /\ held'[d].of = d /\ agg'[d].of = d /\ s'.of = d
    <2>1. /\ taken'[d] \in Datagram /\ held'[d] \in Datagram /\ agg'[d] \in Datagram
          /\ taken'[d].of = d /\ held'[d].of = d /\ agg'[d].of = d /\ skb'[d] \in Packet
        BY DEF NumberInv, TypeOK
    <2>2. s' \in Datagram /\ s'.of = d
        BY <2>1 DEF Empty, Single, Datagram, Packet
    <2>3. QED
        BY <2>1, <2>2
<1>3. P = X \o sent \o backlog /\ Places(d)' = Y \o sent' \o backlog'
    BY DEF Places
<1>4. /\ X \in Seq(Datagram) /\ Len(X) = 4 /\ \A i \in 1..4 : X[i].of = d
      /\ Y \in Seq(Datagram) /\ Len(Y) = 4 /\ \A i \in 1..4 : Y[i].of = d
      /\ X[1] = taken[d] /\ X[2] = held[d] /\ X[3] = agg[d] /\ X[4] = s
      /\ Y[1] = taken'[d] /\ Y[2] = held'[d] /\ Y[3] = agg'[d] /\ Y[4] = s'
    <2> HIDE DEF s
    <2>1. /\ X \in Seq(Datagram) /\ Len(X) = 4
          /\ X[1] = taken[d] /\ X[2] = held[d] /\ X[3] = agg[d] /\ X[4] = s
        BY <1>1
    <2>2. /\ Y \in Seq(Datagram) /\ Len(Y) = 4
          /\ Y[1] = taken'[d] /\ Y[2] = held'[d] /\ Y[3] = agg'[d] /\ Y[4] = s'
        BY <1>2
    <2> HIDE DEF X, Y
    <2>3. (\A i \in 1..4 : X[i].of = d) /\ (\A i \in 1..4 : Y[i].of = d)
        BY <1>1, <1>2, <2>1, <2>2
    <2>4. QED
        BY <2>1, <2>2, <2>3
<1>5. /\ V[1] = Numbers(taken[d]) /\ V[2] = Numbers(held[d]) /\ V[3] = Numbers(agg[d])
      /\ V[4] = Numbers(s)
      /\ U[1] = Numbers(taken'[d]) /\ U[2] = Numbers(held'[d]) /\ U[3] = Numbers(agg'[d])
      /\ U[4] = Numbers(s')
      /\ \A i \in Nat : i \in 1..4 \/ U[i] = V[i]
    <2> HIDE DEF X, Y, s
    <2>1. /\ \A i \in 1..4 : V[i] = Numbers(X[i]) /\ U[i] = Numbers(Y[i])
          /\ \A i \in Nat : i \in 1..4 \/ U[i] = V[i]
        <3>1. V = Spread(d, X \o sent \o backlog, lost[d]) /\ U = Spread(d, Y \o sent \o backlog, lost[d])
            BY <1>3
        <3>2. /\ \A i \in 1..4 : Spread(d, X \o sent \o backlog, lost[d])[i] = Numbers(X[i])
              /\ \A i \in 1..4 : Spread(d, Y \o sent \o backlog, lost[d])[i] = Numbers(Y[i])
              /\ \A i \in Nat : \/ i \in 1..4
                               \/ Spread(d, Y \o sent \o backlog, lost[d])[i] = Spread(d, X \o sent \o backlog, lost[d])[i]
            <4> HIDE DEF P, R, U, V
            <4>1. /\ X \in Seq(Datagram) /\ Len(X) = 4 /\ \A i \in 1..4 : X[i].of = d
                  /\ Y \in Seq(Datagram) /\ Len(Y) = 4 /\ \A i \in 1..4 : Y[i].of = d
                BY <1>4
            <4>2. /\ sent \in Seq(Datagram) /\ backlog \in Seq(Datagram)
                  /\ lost[d] \in SUBSET Nat
                BY <1>1
            <4>3. SlotsShown(d, X, Y, sent, backlog, lost[d])
                BY <4>1, <4>2, SlotsChange, Zenon
            <4>4. QED
                BY <4>3, Zenon DEF SlotsShown
        <3> HIDE DEF V, U
        <3>3. QED
            BY <3>1, <3>2, Zenon
    <2> HIDE DEF V, U
    <2>2. QED
        BY <1>4, <2>1
<1>51. P \in Seq(Datagram) /\ R \in Seq(Datagram) /\ Len(R) = Len(P) /\ n \in Nat /\ n > 4
    <2> DEFINE m == 4 + Len(sent)
               l == m + Len(backlog)
    <2>1. P = X \o sent \o backlog /\ R = Y \o sent \o backlog /\ n = Len(P) + 1
        BY <1>3
    <2> HIDE DEF X, Y, P, R, n
    <2>2. Row(X \o sent \o backlog, X, sent, backlog) /\ Row(Y \o sent \o backlog, Y, sent, backlog)
        BY <1>1, <1>4, RowOf, Zenon
    <2>3. /\ X \o sent \o backlog \in Seq(Datagram) /\ Len(X \o sent \o backlog) = l
          /\ Y \o sent \o backlog \in Seq(Datagram) /\ Len(Y \o sent \o backlog) = l
          /\ l \in Nat /\ m >= 4 /\ l >= m /\ m \in Nat
        BY <2>2, Zenon DEF Row
    <2> HIDE DEF m, l
    <2>4. QED
        BY <2>1, <2>2, <2>3
<1>6. /\ Numbers(Empty(d)) = {} /\ Numbers(Single(d)) = {skb[d].n}
      /\ Numbers(Joined(d)) = Numbers(agg[d]) \union {skb[d].n}
      /\ Numbers(s) = IF skb[d] = None THEN {} ELSE {skb[d].n}
    BY <1>0, NumbersOf
<1>7. Numbers(s') = IF skb'[d] = None THEN {} ELSE {skb'[d].n}
    BY DEF Numbers, Empty, Single
<1>8. Once(V, packets[d])
    OBVIOUS
<1>9. \A g : g.pkts = <<>> => Numbers(g) = {}
    BY DEF Numbers
<1>10. ASSUME NEW g \in Datagram, g.of = d, sent' = sent, backlog' = Append(backlog, g),
              lost'[d] = lost[d]
       PROVE  LET W == Spread(d, Places(d)', lost'[d])
              IN  /\ U[n] = {} /\ W[n] = Numbers(g) /\ \A i \in Nat : i = n \/ W[i] = U[i]
    <2>1. Places(d)' = Append(R, g)
        <3> HIDE DEF Y
        <3>1. Append(backlog, g) = backlog \o <<g>> /\ <<g>> \in Seq(Datagram)
            <4>1. <<g>> \in Seq(Datagram)
                OBVIOUS
            <4>2. Append(backlog, g) = backlog \o <<g>>
                BY <1>1, AppendIsConcat
            <4>3. QED
                BY <4>1, <4>2
        <3>2. Y \o sent \in Seq(Datagram)
            BY <1>1, <1>4
        <3>3. (Y \o sent) \o (backlog \o <<g>>) = ((Y \o sent) \o backlog) \o <<g>>
            <4> DEFINE z == Y \o sent
            <4>1. z \in Seq(Datagram) /\ backlog \in Seq(Datagram) /\ <<g>> \in Seq(Datagram)
                BY <1>1, <3>1, <3>2
            <4> HIDE DEF z
            <4>2. z \o (backlog \o <<g>>) = (z \o backlog) \o <<g>>
                BY <4>1, Associative
            <4>3. QED
                BY <4>2 DEF z
        <3>4. (Y \o sent) \o backlog \in Seq(Datagram)
            BY <1>1, <3>2
        <3>5. ((Y \o sent) \o backlog) \o <<g>> = Append((Y \o sent) \o backlog, g)
            BY <3>4, AppendIsConcat, Zenon
        <3>6. QED
            BY <1>3, <1>10, <3>1, <3>3, <3>5, Zenon
    <2>2. n = Len(R) + 1
        BY <1>51
    <2> HIDE DEF R, n, U
    <2>21. R \in Seq(Datagram) /\ n \in Nat /\ lost[d] \in SUBSET Nat
        BY <1>1, <1>51
    <2>3. /\ Spread(d, R, lost[d])[n] = {}
          /\ Spread(d, Append(R, g), lost[d])[n] = IF g.of = d THEN Numbers(g) ELSE {}
          /\ \A i \in Nat : i = n \/ Spread(d, Append(R, g), lost[d])[i] = Spread(d, R, lost[d])[i]
        BY <2>2, <2>21, SpreadAppend
    <2>4. Spread(d, Places(d)', lost'[d]) = Spread(d, Append(R, g), lost[d])
        BY <1>10, <2>1
    <2>5. U = Spread(d, R, lost[d])
        BY DEF U
    <2>6. QED
        BY <1>10, <2>3, <2>4, <2>5
<1>11. sent' = sent /\ backlog' = backlog /\ lost'[d] = lost[d] =>
          Spread(d, Places(d)', lost'[d]) = U
    BY <1>3
<1>110. ASSUME sent' = sent, backlog' = backlog
        PROVE  LET W == Spread(d, Places(d)', lost'[d])
               IN  W[0] = lost'[d] /\ V[0] = lost[d] /\ \A i \in Nat : i = 0 \/ W[i] = U[i]
    <2>1. Places(d)' = R
        BY <1>3, <1>110
    <2> HIDE DEF P, R
    <2>2. \A L : \A Q : Spread(d, Q, L)[0] = L
        BY DEF Spread
    <2>3. \A i \in Nat : i = 0 \/ Spread(d, R, lost'[d])[i] = Spread(d, R, lost[d])[i]
        BY DEF Spread
    <2>4. QED
        BY <2>1, <2>2, <2>3
<1> HIDE DEF s, P, X, Y, R, V, U, n
<1>12. ASSUME NEW S \in SUBSET (1..4), NEW t \in 1..4, t \notin S,
              packets'[d] = packets[d], sent' = sent, backlog' = backlog, lost'[d] = lost[d],
              \A x : x \in U[t] <=> x \in V[t] \/ \E i \in S : x \in V[i],
              \A i \in S : U[i] = {},
              \A i \in 1..4 : i = t \/ i \in S \/ U[i] = V[i]
       PROVE  Once(Spread(d, Places(d)', lost'[d]), packets'[d])
    <2>1. Gathered(V, U, S, t)
        BY <1>5, <1>12 DEF Gathered
    <2>2. Once(U, packets[d])
        <3>1. S \in SUBSET Nat /\ t \in Nat
            OBVIOUS
        <3>2. QED
            BY <1>1, <1>8, <2>1, <3>1, GatheredOnce
    <2>3. QED
        BY <1>11, <1>12, <2>2
<1>121. ASSUME NEW i \in 1..4, NEW t \in 1..4, t # i,
               packets'[d] = packets[d], sent' = sent, backlog' = backlog, lost'[d] = lost[d],
               U[t] = V[t] \union V[i], U[i] = {},
               \A j \in 1..4 : j = t \/ j = i \/ U[j] = V[j]
        PROVE  Once(Spread(d, Places(d)', lost'[d]), packets'[d])
    <2>1. {i} \in SUBSET (1..4) /\ t \notin {i}
        BY <1>121
    <2>2. /\ \A x : x \in U[t] <=> x \in V[t] \/ \E j \in {i} : x \in V[j]
          /\ \A j \in {i} : U[j] = {}
          /\ \A j \in 1..4 : j = t \/ j \in {i} \/ U[j] = V[j]
        BY <1>121
    <2>3. QED
        BY <1>12, <1>121, <2>1, <2>2
<1>13. CASE StartXmit(d) /\ ~realStopped
    <2>1. /\ packets'[d] = packets[d] + 1 /\ skb'[d].n = packets[d] + 1 /\ pc[d] = "idle"
          /\ UNCHANGED <<held, agg, taken, sent, backlog, lost>>
        <3>1. PICK len \in Sizes : /\ packets' = [packets EXCEPT ![d] = packets[d] + 1]
                                   /\ skb' = [skb EXCEPT ![d] = [n |-> packets[d] + 1, len |-> len]]
            BY <1>13, Zenon DEF StartXmit
        <3>2. QED
            BY <1>0, <1>13, <3>1 DEF TypeOK, StartXmit, aggVars, workVars, realVars
    <2>2. skb[d] = None /\ skb'[d] # None
        BY <1>1, <2>1 DEF NumberInv, None
    <2>3. /\ U[1] = V[1] /\ U[2] = V[2] /\ U[3] = V[3] /\ V[4] = {} /\ U[4] = {packets[d] + 1}
        BY <1>5, <1>6, <1>7, <2>1, <2>2
    <2>4. \A i \in Nat : i = 4 \/ U[i] = V[i]
        BY <1>5, <2>3
    <2>5. ASSUME NEW k \in 1..(packets[d] + 1)
          PROVE  \E i \in Nat : \A j \in Nat : k \in U[j] <=> j = i
        <3>1. CASE k = packets[d] + 1
            <4>1. \A j \in Nat : k \notin V[j]
                BY <1>1, <1>8, <3>1 DEF Once
            <4>2. \A j \in Nat : k \in U[j] <=> j = 4
                BY <2>3, <2>4, <3>1, <4>1
            <4>3. QED
                BY <4>2, 4 \in Nat
        <3>2. CASE k # packets[d] + 1
            <4>1. k \in 1..packets[d]
                BY <1>1, <3>2
            <4>2. PICK i \in Nat : \A j \in Nat : k \in V[j] <=> j = i
                BY <1>8, <4>1 DEF Once
            <4>3. \A j \in Nat : k \in U[j] <=> k \in V[j]
                BY <2>3, <2>4, <3>2
            <4>4. QED
                BY <4>2, <4>3
        <3>3. QED
            BY <3>1, <3>2
    <2>6. ASSUME NEW j \in Nat PROVE U[j] \subseteq 1..(packets[d] + 1)
        <3>1. V[j] \subseteq 1..(packets[d] + 1) /\ packets[d] + 1 \in 1..(packets[d] + 1)
            BY <1>1, <1>8 DEF Once
        <3>2. QED
            BY <2>3, <2>4, <3>1
    <2>7. Once(U, packets[d] + 1)
        BY <2>5, <2>6 DEF Once
    <2>8. QED
        BY <1>11, <2>1, <2>7
<1>14. CASE (StartXmit(d) /\ realStopped) \/ StopQueue(d) \/ StartTimer(d)
    <2>1. UNCHANGED <<packets, skb, held, agg, taken, sent, backlog, lost>>
        BY <1>14 DEF StartXmit, StopQueue, StartTimer, aggVars, workVars, realVars
    <2>2. U[1] = V[1] /\ U[2] = V[2] /\ U[3] = V[3] /\ U[4] = V[4]
        BY <1>5, <1>6, <1>7, <2>1
    <2>3. \A i \in 1..4 : U[i] = V[i]
        BY <2>2
    <2>4. QED
        <3>1. /\ {} \in SUBSET (1..4) /\ 1 \in 1..4 /\ 1 \notin {}
              /\ \A x : x \in U[1] <=> x \in V[1] \/ \E i \in {} : x \in V[i]
              /\ \A i \in {} : U[i] = {}
              /\ \A i \in 1..4 : i = 1 \/ i \in {} \/ U[i] = V[i]
            BY <2>2, <2>3
        <3>2. QED
            BY <1>12, <2>1, <3>1
<1>15. CASE NoAggregation(d)
    <2>1. /\ held'[d] = Single(d) /\ skb'[d] = None /\ pc[d] = "agg"
          /\ UNCHANGED <<packets, agg, taken, sent, backlog, lost>>
        BY <1>0, <1>15 DEF TypeOK, NoAggregation, aggVars, workVars, realVars
    <2>2. skb[d] # None /\ held[d].pkts = <<>>
        BY <2>1 DEF NumberInv
    <2>3. /\ U[1] = V[1] /\ U[3] = V[3] /\ U[4] = {} /\ U[2] = V[4] /\ V[2] = {}
        BY <1>5, <1>6, <1>7, <1>9, <2>1, <2>2
    <2>4. QED
        <3>1. /\ 4 \in 1..4 /\ 2 \in 1..4 /\ 2 # 4
              /\ U[2] = V[2] \union V[4] /\ U[4] = {}
              /\ \A j \in 1..4 : j = 2 \/ j = 4 \/ U[j] = V[j]
            BY <2>3
        <3>2. QED
            BY <1>121, <2>1, <3>1
<1>16. CASE Aggregate(d)
    <2>1. /\ packets' = packets /\ taken' = taken /\ UNCHANGED <<sent, backlog, lost>> /\ pc[d] = "agg"
          /\ skb[d] # None /\ held[d].pkts = <<>>
        BY <1>0, <1>16 DEF TypeOK, Aggregate, NumberInv, workVars, realVars
    <2>2. U[1] = V[1] /\ V[2] = {} /\ V[4] = {skb[d].n}
        BY <1>5, <1>6, <1>9, <2>1
    <2>3. \/ held'[d] = Joined(d) /\ agg'[d] = Empty(d) /\ skb'[d] = None
          \/ agg'[d] = Joined(d) /\ held'[d] = held[d] /\ skb'[d] = None
          \/ held'[d] = agg[d] /\ agg'[d] = Empty(d) /\ skb'[d] = skb[d]
          \/ held'[d] = Single(d) /\ agg'[d] = agg[d] /\ skb'[d] = None
          \/ agg'[d] = Single(d) /\ agg[d].pkts = <<>> /\ held'[d] = held[d] /\ skb'[d] = None
        <3>1. skb \in [Devs -> Packet] /\ held \in [Devs -> Datagram] /\ agg \in [Devs -> Datagram]
            BY <1>0 DEF TypeOK
        <3>2. \/ /\ held' = [held EXCEPT ![d] = Joined(d)] /\ agg' = [agg EXCEPT ![d] = Empty(d)]
                 /\ skb' = [skb EXCEPT ![d] = None]
              \/ /\ agg' = [agg EXCEPT ![d] = Joined(d)] /\ skb' = [skb EXCEPT ![d] = None]
                 /\ held' = held
              \/ /\ held' = [held EXCEPT ![d] = agg[d]] /\ agg' = [agg EXCEPT ![d] = Empty(d)]
                 /\ skb' = skb
              \/ /\ held' = [held EXCEPT ![d] = Single(d)] /\ skb' = [skb EXCEPT ![d] = None]
                 /\ agg' = agg
              \/ /\ agg[d].pkts = <<>> /\ agg' = [agg EXCEPT ![d] = Single(d)]
                 /\ skb' = [skb EXCEPT ![d] = None] /\ held' = held
            BY <1>16, Zenon DEF Aggregate, aggVars
        <3>3. QED
            BY <3>1, <3>2
    <2>4. CASE held'[d] = Joined(d) /\ agg'[d] = Empty(d) /\ skb'[d] = None
        <3>1. U[2] = V[3] \union V[4] /\ U[3] = {} /\ U[4] = {}
            BY <1>5, <1>6, <1>7, <2>2, <2>4
        <3>2. QED
            <4>1. /\ {3, 4} \in SUBSET (1..4) /\ 2 \in 1..4 /\ 2 \notin {3, 4}
                  /\ \A x : x \in U[2] <=> x \in V[2] \/ \E i \in {3, 4} : x \in V[i]
                  /\ \A i \in {3, 4} : U[i] = {}
                  /\ \A i \in 1..4 : i = 2 \/ i \in {3, 4} \/ U[i] = V[i]
                BY <2>2, <3>1
            <4>2. QED
                BY <1>12, <2>1, <4>1
    <2>5. CASE agg'[d] = Joined(d) /\ held'[d] = held[d] /\ skb'[d] = None
        <3>1. U[3] = V[3] \union V[4] /\ U[2] = V[2] /\ U[4] = {}
            BY <1>5, <1>6, <1>7, <2>2, <2>5
        <3>2. QED
            <4>1. /\ 4 \in 1..4 /\ 3 \in 1..4 /\ 3 # 4
                  /\ U[3] = V[3] \union V[4] /\ U[4] = {}
                  /\ \A j \in 1..4 : j = 3 \/ j = 4 \/ U[j] = V[j]
                BY <2>2, <3>1
            <4>2. QED
                BY <1>121, <2>1, <4>1
    <2>6. CASE held'[d] = agg[d] /\ agg'[d] = Empty(d) /\ skb'[d] = skb[d]
        <3>1. U[2] = V[3] /\ U[3] = {} /\ U[4] = V[4]
            BY <1>5, <1>6, <1>7, <2>1, <2>2, <2>6
        <3>2. QED
            <4>1. /\ 3 \in 1..4 /\ 2 \in 1..4 /\ 2 # 3
                  /\ U[2] = V[2] \union V[3] /\ U[3] = {}
                  /\ \A j \in 1..4 : j = 2 \/ j = 3 \/ U[j] = V[j]
                BY <2>2, <3>1
            <4>2. QED
                BY <1>121, <2>1, <4>1
    <2>7. CASE held'[d] = Single(d) /\ agg'[d] = agg[d] /\ skb'[d] = None
        <3>1. U[2] = V[4] /\ U[3] = V[3] /\ U[4] = {}
            BY <1>5, <1>6, <1>7, <2>2, <2>7
        <3>2. QED
            <4>1. /\ 4 \in 1..4 /\ 2 \in 1..4 /\ 2 # 4
                  /\ U[2] = V[2] \union V[4] /\ U[4] = {}
                  /\ \A j \in 1..4 : j = 2 \/ j = 4 \/ U[j] = V[j]
                BY <2>2, <3>1
            <4>2. QED
                BY <1>121, <2>1, <4>1
    <2>8. CASE agg'[d] = Single(d) /\ agg[d].pkts = <<>> /\ held'[d] = held[d] /\ skb'[d] = None
        <3>1. U[3] = V[4] /\ V[3] = {} /\ U[2] = V[2] /\ U[4] = {}
            BY <1>5, <1>6, <1>7, <1>9, <2>2, <2>8
        <3>2. QED
            <4>1. /\ 4 \in 1..4 /\ 3 \in 1..4 /\ 3 # 4
                  /\ U[3] = V[3] \union V[4] /\ U[4] = {}
                  /\ \A j \in 1..4 : j = 3 \/ j = 4 \/ U[j] = V[j]
                BY <2>2, <3>1
            <4>2. QED
                BY <1>121, <2>1, <4>1
    <2>9. QED
        BY <2>3, <2>4, <2>5, <2>6, <2>7, <2>8
<1>17. CASE WorkTakes(d)
    <2>1. /\ taken'[d] = agg[d] /\ agg'[d] = Empty(d) /\ taken[d].pkts = <<>>
          /\ UNCHANGED <<packets, skb, held, sent, backlog, lost>>
        BY <1>0, <1>17 DEF TypeOK, WorkTakes, xmitVars, realVars
    <2>2. U[1] = V[3] /\ V[1] = {} /\ U[3] = {} /\ U[2] = V[2] /\ U[4] = V[4]
        BY <1>5, <1>6, <1>7, <1>9, <2>1
    <2>3. QED
        <3>1. /\ 3 \in 1..4 /\ 1 \in 1..4 /\ 1 # 3
              /\ U[1] = V[1] \union V[3] /\ U[3] = {}
              /\ \A j \in 1..4 : j = 1 \/ j = 3 \/ U[j] = V[j]
            BY <2>2
        <3>2. QED
            BY <1>121, <2>1, <3>1
<1>18. ASSUME NEW i \in 1..4, NEW g \in Datagram, g.of = d, packets'[d] = packets[d],
              sent' = sent, backlog' = Append(backlog, g), lost'[d] = lost[d],
              Numbers(g) = V[i], U[i] = {},
              \A j \in 1..4 : j = i \/ U[j] = V[j]
       PROVE  Once(Spread(d, Places(d)', lost'[d]), packets'[d])
    <2> DEFINE W == Spread(d, Places(d)', lost'[d])
    <2>1. U[n] = {} /\ W[n] = Numbers(g) /\ \A j \in Nat : j = n \/ W[j] = U[j]
        BY <1>10, <1>18
    <2> HIDE DEF W
    <2>2. n \notin 1..4 /\ n \in Nat /\ i \in Nat /\ n # i
        BY <1>51
    <2>3. V[n] = {} /\ \A j \in Nat : j = i \/ U[j] = V[j]
        BY <1>5, <1>18, <2>1, <2>2
    <2>4. Gathered(V, W, {i}, n)
        BY <1>18, <2>1, <2>2, <2>3 DEF Gathered
    <2>5. Once(W, packets[d])
        BY <1>1, <1>8, <2>2, <2>4, GatheredOnce
    <2>6. QED
        BY <1>18, <2>5 DEF W
<1>180. ASSUME NEW i \in 1..4, NEW g \in Datagram, packets'[d] = packets[d],
               sent' = sent, backlog' = backlog, lost'[d] = lost[d] \union Numbers(g),
               Numbers(g) = V[i], U[i] = {}, \A j \in 1..4 : j = i \/ U[j] = V[j]
        PROVE  Once(Spread(d, Places(d)', lost'[d]), packets'[d])
    <2> DEFINE W == Spread(d, Places(d)', lost'[d])
    <2>1. W[0] = lost'[d] /\ V[0] = lost[d] /\ \A j \in Nat : j = 0 \/ W[j] = U[j]
        BY <1>110, <1>180
    <2> HIDE DEF W
    <2>2. 0 \notin 1..4 /\ 0 \in Nat /\ i \in Nat /\ 0 # i
        OBVIOUS
    <2>3. \A j \in Nat : j = i \/ U[j] = V[j]
        BY <1>5, <1>180
    <2>4. Gathered(V, W, {i}, 0)
        BY <1>180, <2>1, <2>2, <2>3 DEF Gathered
    <2>5. Once(W, packets[d])
        BY <1>1, <1>8, <2>2, <2>4, GatheredOnce
    <2>6. QED
        BY <1>180, <2>5 DEF W
<1>181. ASSUME NEW g \in Datagram, QueueXmit(d, g)
        PROVE  \/ backlog' = Append(backlog, g) /\ lost'[d] = lost[d]
               \/ backlog' = backlog /\ lost'[d] = lost[d] \union Numbers(g)
    BY <1>0, <1>181 DEF QueueXmit, TypeOK
<1>19. CASE HandOver(d)
    <2>1. /\ held'[d] = Empty(d) /\ UNCHANGED <<packets, skb, agg, taken, sent>>
          /\ QueueXmit(d, held[d])
        BY <1>0, <1>19 DEF TypeOK, HandOver, aggVars, workVars
    <2>2. U[2] = {} /\ V[2] = Numbers(held[d]) /\ U[1] = V[1] /\ U[3] = V[3] /\ U[4] = V[4]
        BY <1>5, <1>6, <1>7, <2>1
    <2>3. CASE backlog' = Append(backlog, held[d]) /\ lost'[d] = lost[d]
        BY <1>1, <1>18, <2>1, <2>2, <2>3, 2 \in 1..4
    <2>4. CASE backlog' = backlog /\ lost'[d] = lost[d] \union Numbers(held[d])
        <3>1. /\ 2 \in 1..4 /\ held[d] \in Datagram /\ Numbers(held[d]) = V[2] /\ U[2] = {}
              /\ \A j \in 1..4 : j = 2 \/ U[j] = V[j]
            BY <1>1, <2>2
        <3>2. packets'[d] = packets[d] /\ sent' = sent
            BY <2>1
        <3>3. QED
            BY <1>180, <2>4, <3>1, <3>2, Zenon
    <2>5. held[d] \in Datagram /\ QueueXmit(d, held[d])
        BY <1>1, <2>1, Zenon
    <2>6. QED
        BY <1>181, <2>3, <2>4, <2>5, Zenon
<1>20. CASE WorkSends(d)
    <2>1. /\ taken'[d] = Empty(d) /\ UNCHANGED <<packets, skb, agg, held, sent>>
          /\ QueueXmit(d, taken[d])
        BY <1>0, <1>20 DEF TypeOK, WorkSends, aggVars, xmitVars
    <2>2. U[1] = {} /\ V[1] = Numbers(taken[d]) /\ U[2] = V[2] /\ U[3] = V[3] /\ U[4] = V[4]
        BY <1>5, <1>6, <1>7, <2>1
    <2>3. CASE backlog' = Append(backlog, taken[d]) /\ lost'[d] = lost[d]
        BY <1>1, <1>18, <2>1, <2>2, <2>3, 1 \in 1..4
    <2>4. CASE backlog' = backlog /\ lost'[d] = lost[d] \union Numbers(taken[d])
        <3>1. /\ 1 \in 1..4 /\ taken[d] \in Datagram /\ Numbers(taken[d]) = V[1] /\ U[1] = {}
              /\ \A j \in 1..4 : j = 1 \/ U[j] = V[j]
            BY <1>1, <2>2
        <3>2. packets'[d] = packets[d] /\ sent' = sent
            BY <2>1
        <3>3. QED
            BY <1>180, <2>4, <3>1, <3>2, Zenon
    <2>5. taken[d] \in Datagram /\ QueueXmit(d, taken[d])
        BY <1>1, <2>1, Zenon
    <2>6. QED
        BY <1>181, <2>3, <2>4, <2>5, Zenon
<1>21. Once(Spread(d, Places(d)', lost'[d]), packets'[d])
    BY <1>13, <1>14, <1>15, <1>16, <1>17, <1>19, <1>20
<1>22. QED
    BY <1>21 DEF Once, Spread

\* usbnet moves the datagram at the front of the queue behind those it has sent.
LEMMA SameRow ==
    ASSUME NEW x \in Seq(Datagram), NEW p \in Seq(Datagram), NEW q \in Seq(Datagram), q # <<>>
    PROVE  x \o Append(p, Head(q)) \o Tail(q) = x \o p \o q
<1> DEFINE h == <<Head(q)>>
           t == Tail(q)
<1>1. Append(p, Head(q)) = p \o h /\ h \in Seq(Datagram) /\ t \in Seq(Datagram)
    <2>1. Head(q) \in Datagram /\ t \in Seq(Datagram)
        BY HeadTailProperties
    <2>2. QED
        BY <2>1, AppendIsConcat
<1>2. h \o t = q
    BY HeadTailProperties, ConcatProperties
<1> HIDE DEF h, t
<1>3. (p \o h) \o t = p \o q /\ p \o h \in Seq(Datagram) /\ p \o q \in Seq(Datagram)
    <2>1. (p \o h) \o t = p \o (h \o t)
        <3>1. h \in Seq(Datagram) /\ t \in Seq(Datagram)
            BY <1>1
        <3>2. QED
            BY <3>1, Associative, Zenon
    <2>2. p \o h \in Seq(Datagram) /\ p \o q \in Seq(Datagram)
        BY <1>1, ConcatProperties
    <2>3. QED
        BY <1>2, <2>1, <2>2
<1>4. (x \o (p \o h)) \o t = x \o ((p \o h) \o t)
    <2> DEFINE u == p \o h
    <2>1. u \in Seq(Datagram)
        BY <1>3
    <2> HIDE DEF u
    <2>2. (x \o u) \o t = x \o (u \o t)
        <3>1. t \in Seq(Datagram)
            BY <1>1
        <3>2. QED
            BY <2>1, <3>1, Associative
    <2>3. QED
        BY <2>2 DEF u
<1>5. (x \o p) \o q = x \o (p \o q)
    BY Associative
<1>6. QED
    BY <1>1, <1>3, <1>4, <1>5 DEF t

Slots(d) == <<taken[d], held[d], agg[d], IF skb[d] = None THEN Empty(d) ELSE Single(d)>>

LEMMA OnceStep ==
    ASSUME IInv, TypeOK', PacketInv, NumberInv', [Next]_vars
    PROVE  OnceInv'
<1>0. TypeOK /\ NumberInv /\ OnceInv
    BY DEF IInv, PacketInv
<1>1. \A e \in Devs : Once(Spread(e, Places(e), lost[e]), packets[e])
    BY <1>0 DEF OnceInv
<1>2. \A e \in Devs : Places(e) = Slots(e) \o sent \o backlog
    BY DEF Places, Slots
<1>3. \A e \in Devs : Places(e)' = Slots(e)' \o sent' \o backlog'
    BY DEF Places, Slots
<1>4. sent \in Seq(Datagram) /\ backlog \in Seq(Datagram)
      /\ \A e \in Devs : Slots(e) \in Seq(Datagram) /\ Len(Slots(e)) = 4
    <2>1. ASSUME NEW e \in Devs PROVE Slots(e) \in Seq(Datagram) /\ Len(Slots(e)) = 4
        <3>1. /\ taken[e] \in Datagram /\ held[e] \in Datagram /\ agg[e] \in Datagram
              /\ (IF skb[e] = None THEN Empty(e) ELSE Single(e)) \in Datagram
            BY <1>0, DatagramTypes DEF TypeOK
        <3>2. QED
            BY <3>1 DEF Slots
    <2>2. QED
        BY <1>0, <2>1 DEF TypeOK
<1>5. ASSUME NEW d \in Devs,
             \/ StartXmit(d) \/ StopQueue(d) \/ NoAggregation(d) \/ Aggregate(d)
             \/ HandOver(d) \/ StartTimer(d) \/ WorkTakes(d) \/ WorkSends(d)
      PROVE  OnceInv'
    <2>1. Once(Spread(d, Places(d), lost[d]), packets[d])'
        BY <1>0, <1>1, <1>5, OnceOwn
    <2>2. ASSUME NEW e \in Devs \ {d}
          PROVE  Once(Spread(e, Places(e), lost[e]), packets[e])'
        <3>1. /\ taken'[e] = taken[e] /\ held'[e] = held[e] /\ agg'[e] = agg[e]
              /\ skb'[e] = skb[e] /\ packets'[e] = packets[e] /\ lost'[e] = lost[e]
            BY <1>0, <1>5, <2>2, OtherDevices
        <3>2. Slots(e)' = Slots(e)
            BY <3>1 DEF Slots, Empty, Single
        <3>3. sent' = sent /\ \/ backlog' = backlog
                              \/ \E g \in Datagram : g.of = d /\ backlog' = Append(backlog, g)
            <4>1. /\ held[d] \in Datagram /\ taken[d] \in Datagram
                  /\ held[d].of = d /\ taken[d].of = d
                BY <1>0 DEF TypeOK, NumberInv
            <4>2. CASE HandOver(d)
                BY <4>1, <4>2 DEF HandOver, QueueXmit
            <4>3. CASE WorkSends(d)
                BY <4>1, <4>3 DEF WorkSends, QueueXmit
            <4>4. CASE \/ StartXmit(d) \/ StopQueue(d) \/ NoAggregation(d) \/ Aggregate(d)
                       \/ StartTimer(d) \/ WorkTakes(d)
                BY <4>4 DEF StartXmit, StopQueue, NoAggregation, Aggregate, StartTimer, WorkTakes, realVars
            <4>5. QED
                BY <1>5, <4>2, <4>3, <4>4
        <3>4. Spread(e, Places(e)', lost'[e]) = Spread(e, Places(e), lost[e])
            <4>1. CASE backlog' = backlog
                BY <1>2, <1>3, <3>1, <3>2, <3>3, <4>1
            <4>2. ASSUME NEW g \in Datagram, g.of = d, backlog' = Append(backlog, g)
                  PROVE  Spread(e, Places(e)', lost'[e]) = Spread(e, Places(e), lost[e])
                <5> DEFINE z == Slots(e) \o sent
                <5>1. z \in Seq(Datagram)
                    BY <1>4
                <5>2. Places(e)' = z \o Append(backlog, g) /\ Places(e) = z \o backlog
                    BY <1>2, <1>3, <3>2, <3>3, <4>2
                <5> HIDE DEF z
                <5>3. z \o Append(backlog, g) = Append(z \o backlog, g)
                    <6>1. <<g>> \in Seq(Datagram) /\ z \o backlog \in Seq(Datagram)
                        BY <1>4, <5>1
                    <6>2. z \o (backlog \o <<g>>) = (z \o backlog) \o <<g>>
                        BY <1>4, <5>1, <6>1, Associative
                    <6>3. Append(backlog, g) = backlog \o <<g>>
                        BY <1>4, AppendIsConcat
                    <6>4. Append(z \o backlog, g) = (z \o backlog) \o <<g>>
                        BY <6>1, AppendIsConcat
                    <6>5. QED
                        BY <6>2, <6>3, <6>4, Zenon
                <5>4. z \o backlog \in Seq(Datagram) /\ g.of # e
                    BY <1>4, <5>1, <4>2, <2>2
                <5>5. QED
                    <6> DEFINE y == z \o backlog
                    <6>1. /\ y \in Seq(Datagram) /\ g.of # e /\ g \in Datagram /\ e \in Devs
                          /\ lost[e] \in SUBSET Nat
                        BY <5>4, <4>2, <1>0 DEF TypeOK
                    <6> HIDE DEF y
                    <6>2. Spread(e, Append(y, g), lost[e]) = Spread(e, y, lost[e])
                        BY <6>1, SpreadOther
                    <6>3. Places(e)' = Append(y, g) /\ Places(e) = y
                        BY <5>2, <5>3 DEF y
                    <6>4. QED
                        BY <3>1, <6>2, <6>3, Zenon
            <4>3. QED
                BY <3>3, <4>1, <4>2
        <3>5. Once(Spread(e, Places(e)', lost'[e]), packets'[e])
            BY <1>1, <3>1, <3>4
        <3>6. QED
            BY <3>5 DEF Once, Spread
    <2>3. QED
        BY <2>1, <2>2 DEF OnceInv
<1>6. CASE /\ UNCHANGED <<pc, skb, held, packets, agg, taken, lost>>
           /\ UNCHANGED <<sent, backlog>> \/ UsbnetStartXmit
    <2>1. ASSUME NEW e \in Devs PROVE Places(e)' = Places(e)
        <3>1. Slots(e)' = Slots(e)
            BY <1>6 DEF Slots, Empty, Single
        <3>2. CASE UNCHANGED <<sent, backlog>>
            BY <1>2, <1>3, <3>1, <3>2
        <3>3. CASE UsbnetStartXmit
            <4>1. sent' = Append(sent, Head(backlog)) /\ backlog' = Tail(backlog) /\ backlog # <<>>
                BY <3>3 DEF UsbnetStartXmit
            <4>2. Slots(e) \o sent' \o backlog' = Slots(e) \o sent \o backlog
                BY <1>4, <4>1, SameRow
            <4>3. QED
                BY <1>2, <1>3, <3>1, <4>2
        <3>4. QED
            BY <1>6, <3>2, <3>3
    <2>2. \A e \in Devs : Once(Spread(e, Places(e)', lost'[e]), packets'[e])
        BY <1>1, <1>6, <2>1
    <2>3. QED
        BY <2>2 DEF OnceInv, Once, Spread
<1>7. QED
    BY <1>5, <1>6, PacketChanges

LEMMA InitPacketInv == Init => PacketInv
<1> SUFFICES ASSUME NEW S \in SUBSET Devs, InitWith(S) PROVE PacketInv
    BY DEF Init
<1>1. /\ pc = [d \in Devs |-> "idle"] /\ skb = [d \in Devs |-> None]
      /\ held = [d \in Devs |-> Empty(d)] /\ agg = [d \in Devs |-> Empty(d)]
      /\ taken = [d \in Devs |-> Empty(d)] /\ packets = [d \in Devs |-> 0]
      /\ backlog = <<>> /\ sent = <<>> /\ lost = [d \in Devs |-> {}]
    BY DEF InitWith
<1>2. ASSUME NEW d \in Devs
      PROVE  /\ pc[d] = "idle" /\ skb[d] = None /\ held[d] = Empty(d) /\ agg[d] = Empty(d)
             /\ taken[d] = Empty(d) /\ packets[d] = 0 /\ lost[d] = {}
             /\ Empty(d).of = d /\ Empty(d).pkts = <<>> /\ Empty(d) \in Datagram
    BY <1>1 DEF Empty, Datagram
<1>3. NumberInv
    <2> SUFFICES ASSUME NEW d \in Devs PROVE Numbered(d)
        BY Zenon DEF NumberInv, Numbered
    <2>1. /\ pc[d] = "idle" /\ skb[d] = None
          /\ held[d].of = d /\ agg[d].of = d /\ taken[d].of = d
          /\ held[d].pkts = <<>> /\ agg[d].pkts = <<>>
        BY <1>2
    <2>2. QED
        BY <2>1 DEF Numbered
<1>4. ConsecutiveInv
    <2>1. Consecutive(<<>>) /\ Len(<<>>) = 0
        BY DEF Consecutive
    <2>2. QED
        BY <1>1, <1>2, <2>1 DEF ConsecutiveInv
<1>5. ASSUME NEW d \in Devs PROVE Once(Spread(d, Places(d), lost[d]), packets[d])
    <2> DEFINE g == Empty(d)
               P == <<g, g, g, g>> \o <<>> \o <<>>
    <2>1. Places(d) = P
        BY <1>1, <1>2 DEF Places
    <2>2. g.pkts = <<>> /\ g \in Datagram
        BY <1>2
    <2> HIDE DEF g
    <2>3. P = <<g, g, g, g>>
        BY <2>2, ConcatEmptySeq
    <2>4. \A i \in DOMAIN P : Numbers(P[i]) = {}
        BY <2>2, <2>3 DEF Numbers
    <2> HIDE DEF P
    <2>5. \A i \in Nat : Spread(d, P, lost[d])[i] = {}
        BY <1>2, <2>4 DEF Spread
    <2>6. packets[d] = 0
        BY <1>2
    <2>7. QED
        BY <2>1, <2>5, <2>6 DEF Once
<1>6. QED
    BY <1>3, <1>4, <1>5 DEF PacketInv, OnceInv

\* One place, and one position in its datagram.
LEMMA OneCopy ==
    ASSUME NEW d \in Devs, Places(d) \in Seq(Datagram),
           \A i \in DOMAIN Places(d) : Consecutive(Places(d)[i].pkts),
           NEW last \in Nat, Once(Spread(d, Places(d), lost[d]), last),
           NEW n \in (1..last) \ lost[d]
    PROVE  \E x \in Copies(d, n) : Copies(d, n) = {x}
<1> DEFINE P == Places(d)
           At(i) == {k \in DOMAIN P[i].pkts : P[i].of = d /\ P[i].pkts[k].n = n}
<1>1. Copies(d, n) = UNION { {i} \X At(i) : i \in DOMAIN P }
    BY DEF Copies
<1>2. PICK i \in Nat : \A j \in Nat : n \in Spread(d, P, lost[d])[j] <=> j = i
    BY DEF Once
<1>3. \A j \in DOMAIN P : n \in Spread(d, P, lost[d])[j] <=> At(j) # {}
    <2> SUFFICES ASSUME NEW j \in DOMAIN P PROVE n \in Spread(d, P, lost[d])[j] <=> At(j) # {}
        OBVIOUS
    <2>1. j \in Nat /\ j # 0
        OBVIOUS
    <2> HIDE DEF P
    <2>2. Spread(d, P, lost[d])[j] = IF P[j].of = d THEN Numbers(P[j]) ELSE {}
        BY <2>1 DEF Spread
    <2>3. QED
        BY <2>2 DEF Numbers
<1>4. i \in DOMAIN P
    <2> HIDE DEF P
    <2>1. n \in Spread(d, P, lost[d])[i]
        BY <1>2
    <2>2. QED
        BY <2>1 DEF Spread
<1>5. PICK k : k \in At(i)
    BY <1>2, <1>3, <1>4
<1>6. \A l \in At(i) : l = k
    <2> SUFFICES ASSUME NEW l \in At(i) PROVE l = k
        OBVIOUS
    <2>1. P[i] \in Datagram /\ P[i].pkts \in Seq(Packet)
        <3>1. P \in Seq(Datagram)
            OBVIOUS
        <3> HIDE DEF P
        <3>2. P[i] \in Datagram
            BY <1>4, <3>1
        <3>3. QED
            BY <3>2 DEF Datagram
    <2>2. /\ k \in DOMAIN P[i].pkts /\ P[i].pkts[k].n = n
          /\ l \in DOMAIN P[i].pkts /\ P[i].pkts[l].n = n
        BY <1>5
    <2>3. P[i].pkts[l].n + k = P[i].pkts[k].n + l
        BY <1>4, <2>2 DEF Consecutive
    <2>4. k \in Nat /\ l \in Nat /\ n \in Nat
        <3> DEFINE p == P[i].pkts
        <3>1. p \in Seq(Packet) /\ k \in DOMAIN p /\ l \in DOMAIN p
            BY <2>1, <2>2
        <3> HIDE DEF p, P, At
        <3>2. QED
            BY <3>1
    <2>5. n + k = n + l
        BY <2>2, <2>3
    <2>6. QED
        BY <2>4, <2>5
<1>7. \A j \in DOMAIN P : j # i => At(j) = {}
    <2>1. \A j \in DOMAIN P : j \in Nat
        OBVIOUS
    <2> HIDE DEF P, At
    <2>2. QED
        BY <1>2, <1>3, <2>1
<1> HIDE DEF P, At
<1>8. Copies(d, n) = {<<i, k>>}
    BY <1>1, <1>4, <1>5, <1>6, <1>7
<1>9. QED
    BY <1>8

\* A packet that is lost is in no place.
LEMMA NoCopy ==
    ASSUME NEW d \in Devs, Places(d) \in Seq(Datagram),
           NEW last \in Nat, Once(Spread(d, Places(d), lost[d]), last), NEW n \in lost[d]
    PROVE  Copies(d, n) = {}
<1> DEFINE P == Places(d)
           V == Spread(d, P, lost[d])
<1>1. /\ \A m \in 1..last : \E i \in Nat : \A j \in Nat : m \in V[j] <=> j = i
      /\ \A j \in Nat : V[j] \subseteq 1..last
    BY DEF Once
<1>2. n \in V[0] /\ 0 \in Nat
    BY DEF Spread
<1>3. \A j \in DOMAIN P : /\ j \in Nat /\ j # 0
                          /\ V[j] = IF P[j].of = d THEN Numbers(P[j]) ELSE {}
    <2> SUFFICES ASSUME NEW j \in DOMAIN P
                 PROVE  j \in Nat /\ j # 0 /\ V[j] = IF P[j].of = d THEN Numbers(P[j]) ELSE {}
        OBVIOUS
    <2>1. j \in Nat /\ j # 0
        OBVIOUS
    <2> HIDE DEF P
    <2>2. QED
        BY <2>1 DEF Spread
<1> HIDE DEF P, V
<1>4. \A j \in DOMAIN P : n \notin V[j]
    BY <1>1, <1>2, <1>3
<1>5. ASSUME NEW j \in DOMAIN P
      PROVE  {k \in DOMAIN P[j].pkts : P[j].of = d /\ P[j].pkts[k].n = n} = {}
    <2>1. CASE P[j].of = d
        <3>1. n \notin Numbers(P[j])
            BY <1>3, <1>4, <2>1
        <3>2. \A k \in DOMAIN P[j].pkts : P[j].pkts[k].n # n
            BY <3>1 DEF Numbers
        <3>3. QED
            BY <3>2
    <2>2. QED
        BY <2>1
<1>6. \A x : x \notin Copies(d, n)
    <2>1. SUFFICES ASSUME NEW x, x \in Copies(d, n) PROVE FALSE
        OBVIOUS
    <2>2. PICK j \in DOMAIN P :
              x \in {j} \X {k \in DOMAIN P[j].pkts : P[j].of = d /\ P[j].pkts[k].n = n}
        BY <2>1 DEF Copies, P
    <2>3. x \in {j} \X {}
        BY <1>5, <2>2
    <2>4. QED
        BY <2>3
<1>7. QED
    BY <1>6

\* Every packet accepted from a device is in one place and once, or its datagram was
\* refused and it is in none, and each datagram has consecutive packets, however
\* start_xmit, the timer and the work item interleave.
THEOREM PacketsOnce == Spec => []AcceptedOnce
<1>1. IInv /\ IInv' /\ PacketInv /\ [Next]_vars => PacketInv'
    <2> SUFFICES ASSUME IInv, IInv', PacketInv, [Next]_vars PROVE PacketInv'
        OBVIOUS
    <2>1. TypeOK /\ TypeOK' /\ NumberInv /\ ConsecutiveInv
        BY DEF IInv, PacketInv
    <2>2. NumberInv'
        BY <2>1, NumberStep
    <2>3. ConsecutiveInv'
        BY <2>1, ConsecutiveStep
    <2>4. OnceInv'
        BY <2>1, <2>2, OnceStep
    <2>5. QED
        BY <2>2, <2>3, <2>4 DEF PacketInv
<1>2. IInv /\ PacketInv => AcceptedOnce
    <2> SUFFICES ASSUME IInv, PacketInv, NEW d \in Devs
                 PROVE  /\ \A n \in (1..packets[d]) \ lost[d] :
                             \E x \in Copies(d, n) : Copies(d, n) = {x}
                        /\ \A n \in lost[d] : Copies(d, n) = {}
                        /\ \A i \in DOMAIN Places(d) : Consecutive(Places(d)[i].pkts)
        BY Zenon DEF AcceptedOnce
    <2> DEFINE s == IF skb[d] = None THEN Empty(d) ELSE Single(d)
               X == <<taken[d], held[d], agg[d], s>>
               P == Places(d)
    <2>0. TypeOK /\ NumberInv /\ ConsecutiveInv /\ OnceInv
        BY DEF IInv, PacketInv
    <2>1. /\ taken[d] \in Datagram /\ held[d] \in Datagram /\ agg[d] \in Datagram
          /\ s \in Datagram /\ Consecutive(s.pkts)
          /\ sent \in Seq(Datagram) /\ backlog \in Seq(Datagram) /\ packets[d] \in Nat
        <3>1. s \in Datagram /\ Consecutive(s.pkts)
            BY <2>0, DatagramTypes, NumbersOf
        <3> HIDE DEF s
        <3>2. QED
            BY <2>0, <3>1 DEF TypeOK
    <2>2. P = X \o sent \o backlog
        BY DEF Places
    <2>3. /\ X \in Seq(Datagram) /\ Len(X) = 4
          /\ X[1] = taken[d] /\ X[2] = held[d] /\ X[3] = agg[d] /\ X[4] = s
        <3> HIDE DEF s
        <3>1. QED
            BY <2>1
    <2> HIDE DEF s, X, P
    <2>4. Row(P, X, sent, backlog)
        BY <2>1, <2>2, <2>3, RowOf
    <2> DEFINE m == 4 + Len(sent)
               l == m + Len(backlog)
    <2>5. /\ m \in Nat /\ l \in Nat /\ P \in Seq(Datagram) /\ DOMAIN P = 1..l
          /\ \A i \in 1..4 : P[i] = X[i]
          /\ \A i \in 5..m : P[i] = sent[i - 4]
          /\ \A i \in (m + 1)..l : P[i] = backlog[i - m]
        BY <2>4, Zenon DEF Row
    <2>6. ASSUME NEW i \in DOMAIN P PROVE Consecutive(P[i].pkts)
        <3>1. CASE i \in 1..4
            BY <2>0, <2>1, <2>3, <2>5, <3>1 DEF ConsecutiveInv
        <3>2. CASE i \in 5..m
            <4>1. i - 4 \in 1..Len(sent)
                BY <2>1, <3>2
            <4>2. QED
                BY <2>0, <2>5, <3>2, <4>1 DEF ConsecutiveInv
        <3>3. CASE i \in (m + 1)..l
            <4>1. i - m \in 1..Len(backlog)
                BY <2>1, <2>5, <3>3
            <4>2. QED
                BY <2>0, <2>5, <3>3, <4>1 DEF ConsecutiveInv
        <3> HIDE DEF m, l
        <3>4. QED
            BY <2>5, <2>6, <3>1, <3>2, <3>3
    <2>7. ASSUME NEW n \in (1..packets[d]) \ lost[d]
          PROVE  \E x \in Copies(d, n) : Copies(d, n) = {x}
        BY <2>0, <2>1, <2>5, <2>6, <2>7, OneCopy DEF OnceInv, P
    <2>70. ASSUME NEW n \in lost[d] PROVE Copies(d, n) = {}
        BY <2>0, <2>1, <2>5, <2>70, NoCopy DEF OnceInv, P
    <2>8. QED
        BY <2>6, <2>7, <2>70 DEF P
<1>3. QED
    BY <1>1, <1>2, InitPacketInv, InvariantI, PTL DEF Spec
=============================================================================
