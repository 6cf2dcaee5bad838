--------------------------- MODULE MbimProxyProofs ---------------------------
(***************************************************************************)
(* Proofs about MbimProxy, for every set of connections, number of slots   *)
(* and range of transaction ids: its types, the separation of the clients' *)
(* answers, and that no descriptor of a client is forgotten.               *)
(***************************************************************************)
EXTENDS MbimProxy, TLAPS

\* A connection that the proxy has not accepted yet.
Fresh(c) == peer[c] = "new" \/ c \in backlog

\* Messages on their way: commands at the device and what it has said.
InFlight == pend \union {rx[k] : k \in 1..Len(rx)}

\* The slot in the wire id of a command is the one of its sender, as long as
\* the sender is a client; messages of no client name no slot.
Traced(m) ==
    /\ m.by = None => m.wire = m.tid /\ m.tid \in {0, 1}
    /\ m.by # None => \E i \in Slots : /\ m.wire = WireTid(i, m.tid)
                                       /\ slot[i] = m.by \/ m.by \notin Occupants

TraceInv == \A m \in InFlight : Traced(m)

\* Nothing in the system comes from a connection that is not accepted.
FreshInv ==
    \A c \in Conns : Fresh(c) =>
        /\ c \in backlog => peer[c] # "new"
        /\ c \notin Occupants
        /\ \A m \in InFlight : m.by # c
        /\ \A d \in Conns : \A r \in got[d] : r.by # c

\* Until an early return, descriptors and slots agree and there are none
\* outside proxy_loop.
HeldInv == bound \/ (held = Occupants /\ (phase # "open" => Occupants = {}))

IInv == TypeOK /\ TraceInv /\ FreshInv /\ AnswersKeptApart /\ HeldInv

-----------------------------------------------------------------------------
\* The range of a client's own ids, a number whose value only the next lemma uses.
LEMMA TidRange == TID_RANGE \in Nat \ {0}
  BY SMT DEF TID_RANGE

\* The index and the id put in a wire id are the ones read back from it, and
\* no command has the wire id of an indication.
LEMMA WireRoundTrip ==
    ASSUME NEW i \in Slots, NEW t \in 0..MaxTid
    PROVE  /\ SlotOf(WireTid(i, t)) = i
           /\ ClientTid(WireTid(i, t)) = t
           /\ WireTid(i, t) \in Nat \ {0}
<1>1. i \in Nat /\ i # 0 /\ t \in Nat /\ t < TID_RANGE
    BY ConstantsAssumption, TidRange DEF Slots
<1>2. t < 16777216
    BY <1>1, SMT DEF TID_RANGE
<1>3. (t + i * 16777216) \div 16777216 = i
    BY <1>1, <1>2, SMT
<1>4. (t + i * 16777216) % 16777216 = t
    BY <1>1, <1>2, SMT
<1>5. t + i * 16777216 \in Nat \ {0}
    BY <1>1, SMT
<1>6. QED
    BY <1>3, <1>4, <1>5, SMT DEF SlotOf, WireTid, ClientTid, TID_RANGE

\* A masked id fits in the bits left to the client, and is 0 for wire id 0.
LEMMA MaskedTid ==
    ASSUME NEW w \in Nat
    PROVE  ClientTid(w) \in 0..(TID_RANGE - 1) /\ ClientTid(0) = 0
  BY TidRange, SMT DEF ClientTid

\* The wire ids 0 and 1 name no slot.
LEMMA LowWireTid == SlotOf(0) \notin Slots /\ SlotOf(1) \notin Slots
<1>1. 0 \div 16777216 = 0 /\ 1 \div 16777216 = 0
    BY SMT
<1>2. QED
    BY <1>1, SMT DEF SlotOf, TID_RANGE, Slots

\* What Write does to the variables it may change.
LEMMA WriteEffect ==
    ASSUME TypeOK, NEW C \in SUBSET Conns, NEW m \in Reading, Write(C, m)
    PROVE  /\ got' \in [Conns -> SUBSET Reading]
           /\ \A c \in Conns : got'[c] \subseteq got[c] \union {m}
           /\ \A c \in Conns : c \notin C => got'[c] = got[c]
           /\ \/ UNCHANGED process
              \/ /\ phase' = "dead" /\ bound' = FALSE /\ backlog' = {} /\ held' = {}
                 /\ slot' = [i \in Slots |-> None]
<1>1. CASE UNCHANGED got
    BY <1>1 DEF Write, TypeOK
<1>2. ASSUME NEW R \in SUBSET C,
             got' = [c \in Conns |-> IF c \in R THEN got[c] \union {m} ELSE got[c]]
      PROVE  /\ got' \in [Conns -> SUBSET Reading]
             /\ \A c \in Conns : got'[c] \subseteq got[c] \union {m}
             /\ \A c \in Conns : c \notin C => got'[c] = got[c]
    BY <1>2 DEF TypeOK
<1>3. QED
    BY <1>1, <1>2 DEF Write

\* What Write gives to one connection.
LEMMA WriteGives ==
    ASSUME TypeOK, NEW C, NEW m, NEW c \in Conns, NEW r \in got'[c], Write(C, m)
    PROVE  r \in got[c] \/ (r = m /\ c \in C)
  BY DEF Write, TypeOK

\* The answers and indications are what the proxy may pass on.
LEMMA ReadTyped == ASSUME NEW m \in Message PROVE Read(m) \in Reading
  BY MaskedTid DEF Read, Message, Reading

-----------------------------------------------------------------------------
\* The initial state satisfies the inductive invariant.
LEMMA InitIInv == Init => IInv
<1> SUFFICES ASSUME Init PROVE IInv
    OBVIOUS
<1> USE DEF Init
<1>1. tids \in [Conns -> 0..MaxTid]
    BY ConstantsAssumption, TidRange
<1>2. rx \in Seq(Message) /\ Len(rx) = 0
    OBVIOUS
<1>3. TypeOK
    BY <1>1, <1>2 DEF TypeOK, Askers
<1>4. Occupants = {} /\ InFlight = {}
    BY <1>2 DEF Occupants, InFlight
<1>5. TraceInv /\ FreshInv /\ AnswersKeptApart /\ HeldInv
    BY <1>4 DEF TraceInv, FreshInv, AnswersKeptApart, HeldInv
<1>6. QED
    BY <1>3, <1>5 DEF IInv

\* Every step preserves the types.
LEMMA TypeStep == TypeOK /\ [Next]_vars => TypeOK'
<1> SUFFICES ASSUME TypeOK, [Next]_vars PROVE TypeOK'
    OBVIOUS
<1> USE DEF TypeOK, process, Askers
<1>a. Occupants \subseteq Conns
    BY DEF Occupants
<1>1. CASE OpenDevice
  <2>1. OpenMsg \in Message
      BY ConstantsAssumption, TidRange DEF OpenMsg, Message
  <2>2. QED
      BY <1>1, <2>1 DEF OpenDevice
<1>2. CASE OpenDone
  <2>1. rx' \in Seq(Message)
      BY <1>2 DEF OpenDone
  <2>2. QED
      BY <1>2, <2>1 DEF OpenDone, ExitLoop
<1>3. CASE Response
  <2>1. rx' \in Seq(Message) /\ Head(rx) \in Message
      BY <1>3 DEF Response
  <2>2. PICK C \in SUBSET Conns : Write(C, Read(Head(rx)))
      BY <1>3, <1>a DEF Response
  <2>3. got' \in [Conns -> SUBSET Reading]
      BY <2>1, <2>2, WriteEffect, ReadTyped
  <2>4. QED
      BY <1>3, <2>1, <2>2, <2>3, WriteEffect, ReadTyped DEF Response
<1>4. ASSUME NEW c \in Conns, Connect(c) PROVE TypeOK'
    BY <1>4 DEF Connect
<1>5. ASSUME NEW c \in Conns, Disconnect(c) PROVE TypeOK'
    BY <1>5 DEF Disconnect, FreeSlotOf
<1>6. ASSUME NEW c \in Conns, EarlyReturn(c) PROVE TypeOK'
    BY <1>6 DEF EarlyReturn, FreeSlotOf
<1>7. ASSUME NEW i \in Slots, Request(i) PROVE TypeOK'
  <2> DEFINE c == slot[i]
             q == up[c]
             forwarded == [kind |-> "cmd", by |-> c, tid |-> q.tid, wire |-> WireTid(i, q.tid)]
             local == [by |-> c, asked |-> q.tid, seen |-> q.tid]
  <2>1. c \in Conns /\ q \in Ask
      BY <1>7 DEF Request
  <2>2. forwarded \in Message
      BY <2>1, WireRoundTrip, TidRange, ConstantsAssumption DEF Message, Ask
  <2>3. local \in Reading
      BY <2>1, TidRange, ConstantsAssumption DEF Reading, Ask
  <2>4. up' \in [Conns -> Ask \union {NoAsk}] /\ UNCHANGED <<peer, tids, rx>>
      BY <1>7, <2>1 DEF Request
  <2>5. CASE Write({c}, local) /\ UNCHANGED pend
      BY <2>1, <2>3, <2>4, <2>5, WriteEffect
  <2>6. CASE pend' \in {pend, pend \union {forwarded}} /\ UNCHANGED <<process, got>>
      BY <2>2, <2>4, <2>6
  <2>7. QED
      BY <1>7, <2>5, <2>6 DEF Request
<1>8. CASE DeviceFails
  <2>0. <<>> \in Seq(Message)
      OBVIOUS
  <2>1. rx' \in Seq(Message)
      BY <1>8, <2>0 DEF DeviceFails
  <2>2. QED
      BY <1>8, <2>1 DEF DeviceFails, ExitLoop
<1>9. CASE DeviceIndicates
  <2>1. Indication \in Message
      BY ConstantsAssumption, TidRange DEF Indication, Message
  <2>2. rx' \in Seq(Message)
      BY <1>9, <2>1 DEF DeviceIndicates
  <2>3. QED
      BY <1>9, <2>2 DEF DeviceIndicates
<1>10. ASSUME NEW m \in pend, DeviceAnswers(m) PROVE TypeOK'
  <2>1. rx' \in Seq(Message)
      BY <1>10 DEF DeviceAnswers
  <2>2. QED
      BY <1>10, <2>1 DEF DeviceAnswers
<1>11. ASSUME NEW c \in Conns, ClientConnects(c) PROVE TypeOK'
    BY <1>11 DEF ClientConnects
<1>12. ASSUME NEW c \in Conns, ClientSends(c) PROVE TypeOK'
  <2>1. tids[c] + 1 \in 1..MaxTid
      BY <1>12, ConstantsAssumption, TidRange DEF ClientSends
  <2>2. tids' \in [Conns -> 0..MaxTid] /\ tids'[c] = tids[c] + 1
      BY <1>12, <2>1, ConstantsAssumption, TidRange DEF ClientSends
  <2>3. up' \in [Conns -> Ask \union {NoAsk}]
      BY <1>12, <2>1, <2>2 DEF ClientSends, Ask
  <2>4. QED
      BY <1>12, <2>2, <2>3 DEF ClientSends
<1>13. ASSUME NEW c \in Conns, ClientShuts(c) PROVE TypeOK'
    BY <1>13 DEF ClientShuts
<1>14. ASSUME NEW c \in Conns, ClientLeaves(c) PROVE TypeOK'
    BY <1>14 DEF ClientLeaves
<1>15. CASE UNCHANGED vars
    BY <1>15 DEF vars
<1>16. QED
    BY <1>1, <1>2, <1>3, <1>4, <1>5, <1>6, <1>7, <1>8, <1>9, <1>10, <1>11, <1>12, <1>13,
       <1>14, <1>15 DEF Next, Proxy, Environment, Dead

-----------------------------------------------------------------------------
\* What the queue of device messages adds to the messages in flight.
LEMMA QueueContents ==
    ASSUME NEW q \in Seq(Message), NEW m \in Message
    PROVE  /\ {Append(q, m)[k] : k \in 1..Len(Append(q, m))}
                \subseteq {q[k] : k \in 1..Len(q)} \union {m}
           /\ q # <<>> => /\ Head(q) \in {q[k] : k \in 1..Len(q)}
                          /\ {Tail(q)[k] : k \in 1..Len(Tail(q))} \subseteq {q[k] : k \in 1..Len(q)}
<1>1. ASSUME NEW k \in 1..Len(Append(q, m))
      PROVE  Append(q, m)[k] \in {q[j] : j \in 1..Len(q)} \union {m}
  <2>1. CASE k = Len(q) + 1
      BY <2>1
  <2>2. CASE k \in 1..Len(q)
      BY <2>2
  <2>3. QED
      BY <2>1, <2>2
<1>2. ASSUME q # <<>>, NEW k \in 1..Len(Tail(q))
      PROVE  Tail(q)[k] \in {q[j] : j \in 1..Len(q)}
  <2>1. k + 1 \in 1..Len(q) /\ Tail(q)[k] = q[k + 1]
      BY <1>2
  <2>2. QED
      BY <2>1
<1>3. ASSUME q # <<>> PROVE Head(q) \in {q[j] : j \in 1..Len(q)}
  <2>1. 1 \in 1..Len(q) /\ Head(q) = q[1]
      BY <1>3
  <2>2. QED
      BY <2>1
<1>4. QED
    BY <1>1, <1>2, <1>3

\* Freeing every slot of some connections keeps what is known of a message.
LEMMA TraceKept ==
    ASSUME TypeOK, NEW S \in SUBSET Conns,
           slot' = [i \in Slots |-> IF slot[i] \in S THEN None ELSE slot[i]]
    PROVE  /\ Occupants' = Occupants \ S
           /\ \A m \in Message : Traced(m) => Traced(m)'
<1>1. Occupants' = Occupants \ S
    BY DEF Occupants, TypeOK
<1>2. ASSUME NEW m \in Message, Traced(m) PROVE Traced(m)'
  <2>1. CASE m.by = None
      BY <1>2, <2>1 DEF Traced
  <2>2. CASE m.by # None
    <3>1. PICK i \in Slots : m.wire = WireTid(i, m.tid) /\ (slot[i] = m.by \/ m.by \notin Occupants)
        BY <1>2, <2>2 DEF Traced
    <3>2. CASE slot[i] = m.by /\ m.by \notin S
        BY <2>2, <3>1, <3>2 DEF Traced
    <3>3. CASE m.by \in S \/ m.by \notin Occupants
        BY <1>1, <2>2, <3>1, <3>3 DEF Traced
    <3>4. QED
        BY <3>1, <3>2, <3>3
  <2>3. QED
      BY <2>1, <2>2
<1>3. QED
    BY <1>1, <1>2

\* Every slot of the connections in S is freed.
Freed(S) == slot' = [i \in Slots |-> IF slot[i] \in S THEN None ELSE slot[i]]

\* One free slot is filled with a waiting connection.
Filled(c) ==
    /\ \E i \in Slots : slot[i] = None /\ slot' = [slot EXCEPT ![i] = c]
    /\ c \in backlog /\ backlog' = backlog \ {c}
    /\ UNCHANGED <<peer, pend, rx, got>>

\* Every step frees the slots of some connections or fills a free one.
LEMMA SlotStep ==
    ASSUME TypeOK, [Next]_vars
    PROVE  (\E S \in SUBSET Conns : Freed(S)) \/ (\E c \in Conns : Filled(c))
<1>1. UNCHANGED slot => Freed({})
    BY DEF Freed, TypeOK
<1>2. slot' = [i \in Slots |-> None] => Freed(Conns)
    BY DEF Freed, TypeOK, Askers
<1>3. ASSUME NEW C, NEW m, Write(C, m) PROVE Freed({}) \/ Freed(Conns)
    BY <1>1, <1>2, <1>3 DEF Write, process
<1>4. OpenDevice \/ OpenDone \/ DeviceFails => Freed({}) \/ Freed(Conns)
    BY <1>1, <1>2 DEF OpenDevice, OpenDone, DeviceFails, ExitLoop
<1>5. Response => Freed({}) \/ Freed(Conns)
    BY <1>3 DEF Response
<1>6. ASSUME NEW i \in Slots, Request(i) PROVE Freed({}) \/ Freed(Conns)
    BY <1>1, <1>3, <1>6 DEF Request, process
<1>7. ASSUME NEW c \in Conns, Connect(c) PROVE Freed({}) \/ Filled(c)
    BY <1>1, <1>7 DEF Connect, FirstFree, Filled
<1>8. ASSUME NEW c \in Conns, Disconnect(c) \/ EarlyReturn(c) PROVE Freed({c})
  <2>1. FreeSlotOf(c)
      BY <1>8 DEF Disconnect, EarlyReturn
  <2>2. QED
      BY <2>1 DEF FreeSlotOf, Freed
<1>9. DeviceIndicates \/ Dead \/ UNCHANGED vars => Freed({})
    BY <1>1 DEF DeviceIndicates, Dead, vars, process
<1>10. ASSUME NEW m \in pend, DeviceAnswers(m) PROVE Freed({})
    BY <1>1, <1>10 DEF DeviceAnswers, process
<1>11. ASSUME NEW c \in Conns,
              ClientConnects(c) \/ ClientSends(c) \/ ClientShuts(c) \/ ClientLeaves(c)
       PROVE  Freed({})
    BY <1>1, <1>11 DEF ClientConnects, ClientSends, ClientShuts, ClientLeaves, process
<1>12. QED
    BY <1>4, <1>5, <1>6, <1>7, <1>8, <1>9, <1>10, <1>11 DEF Next, Proxy, Environment

\* A message is in flight because it was, because the device or the proxy
\* itself began it, or because a client's command was forwarded.
Forwarded(m) ==
    /\ UNCHANGED slot
    /\ \E i \in Slots : slot[i] \in Conns /\ m.by = slot[i] /\ m.wire = WireTid(i, m.tid)

LEMMA FlightStep ==
    ASSUME TypeOK, [Next]_vars, NEW m \in InFlight'
    PROVE  m \in InFlight \/ m \in {OpenMsg, Indication} \/ Forwarded(m)
<1> DEFINE Old == m \in InFlight \/ m \in {OpenMsg, Indication}
<1>1. ASSUME UNCHANGED <<pend, rx>> PROVE Old
    BY <1>1 DEF InFlight
<1>2. ASSUME pend' \subseteq pend \union {OpenMsg}, rx' = rx \/ rx' = <<>> PROVE Old
    BY <1>2 DEF InFlight
<1>3. ASSUME UNCHANGED pend, rx # <<>>, rx' = Tail(rx) PROVE Old
    BY <1>3, QueueContents DEF InFlight, TypeOK
<1>4. OpenDevice \/ DeviceFails => Old
    BY <1>2 DEF OpenDevice, DeviceFails, ExitLoop
<1>5. OpenDone \/ Response => Old
    BY <1>3 DEF OpenDone, Response, ExitLoop
<1>6. ASSUME NEW i \in Slots, Request(i) PROVE Old \/ Forwarded(m)
  <2> DEFINE c == slot[i]
             f == [kind |-> "cmd", by |-> c, tid |-> up[c].tid, wire |-> WireTid(i, up[c].tid)]
  <2>1. UNCHANGED rx /\ c \in Conns
      BY <1>6 DEF Request, TypeOK, Askers
  <2>2. CASE UNCHANGED pend
      BY <1>1, <2>1, <2>2
  <2>3. CASE pend' = pend \union {f} /\ UNCHANGED process
    <3>1. m \in InFlight \/ m = f
        BY <2>1, <2>3 DEF InFlight
    <3>2. f.by = slot[i] /\ f.wire = WireTid(i, f.tid) /\ UNCHANGED slot
        BY <2>3 DEF process
    <3>3. QED
        BY <2>1, <3>1, <3>2 DEF Forwarded
  <2>4. QED
      BY <1>6, <2>2, <2>3 DEF Request
<1>7. DeviceIndicates => Old
  <2> SUFFICES ASSUME DeviceIndicates PROVE Old
      OBVIOUS
  <2>1. Indication \in Message
      BY ConstantsAssumption, TidRange DEF Indication, Message, Askers
  <2>2. rx' = Append(rx, Indication) /\ UNCHANGED pend
      BY DEF DeviceIndicates
  <2>3. QED
      BY <2>1, <2>2, QueueContents DEF InFlight, TypeOK
<1>8. ASSUME NEW d \in pend, DeviceAnswers(d) PROVE Old
  <2>1. d \in Message /\ rx' = Append(rx, d) /\ pend' \subseteq pend
      BY <1>8 DEF DeviceAnswers, TypeOK
  <2>2. QED
      BY <2>1, QueueContents DEF InFlight, TypeOK
<1>9. ASSUME NEW c \in Conns,
             \/ Connect(c) \/ Disconnect(c) \/ EarlyReturn(c)
             \/ ClientConnects(c) \/ ClientSends(c) \/ ClientShuts(c) \/ ClientLeaves(c)
      PROVE  Old
    BY <1>1, <1>9 DEF Connect, Disconnect, EarlyReturn, ClientConnects, ClientSends,
                     ClientShuts, ClientLeaves
<1>10. Dead \/ UNCHANGED vars => Old
    BY <1>1 DEF Dead, vars
<1>11. QED
    BY <1>4, <1>5, <1>6, <1>7, <1>8, <1>9, <1>10 DEF Next, Proxy, Environment

\* A reading of a connection is an old one, an answer of the proxy to its own
\* MBIM_OPEN, or a message of the device that names its slot or no slot.
Passed(c, r) ==
    \E m \in InFlight :
        /\ r = Read(m)
        /\ m.wire = 0 \/ (SlotOf(m.wire) \in Slots /\ slot[SlotOf(m.wire)] = c)

LEMMA GotStep ==
    ASSUME TypeOK, [Next]_vars, NEW c \in Conns, NEW r \in got'[c]
    PROVE  \/ r \in got[c]
           \/ r.by = c /\ c \in Occupants /\ r.seen = r.asked
           \/ Passed(c, r)
<1> DEFINE Goal == r \in got[c] \/ (r.by = c /\ c \in Occupants /\ r.seen = r.asked) \/ Passed(c, r)
<1>1. UNCHANGED got => Goal
    OBVIOUS
<1>2. CASE Response
  <2> DEFINE m == Head(rx)
             C == IF m.wire = 0 THEN Occupants
                  ELSE {slot[i] : i \in Slots \cap {SlotOf(m.wire)}} \ {None}
  <2>1. Write(C, Read(m)) /\ m \in Message /\ m \in InFlight
      BY <1>2, QueueContents DEF Response, TypeOK, InFlight
  <2>2. C \subseteq Conns
      BY DEF Occupants, TypeOK, Askers
  <2>3. r \in got[c] \/ (r = Read(m) /\ c \in C)
      BY <2>1, WriteGives
  <2>4. ASSUME c \in C, m.wire # 0 PROVE SlotOf(m.wire) \in Slots /\ slot[SlotOf(m.wire)] = c
    <3>1. c \in {slot[i] : i \in Slots \cap {SlotOf(m.wire)}}
        BY <2>4
    <3>2. QED
        BY <3>1
  <2>5. ASSUME r = Read(m), c \in C PROVE Passed(c, r)
      BY <2>1, <2>4, <2>5 DEF Passed
  <2>6. QED
      BY <2>3, <2>5
<1>3. ASSUME NEW i \in Slots, Request(i) PROVE Goal
  <2> DEFINE d == slot[i]
             m == [by |-> d, asked |-> up[d].tid, seen |-> up[d].tid]
  <2>1. d \in Conns /\ d \in Occupants /\ up[d] \in Ask
      BY <1>3, ConstantsAssumption DEF Request, TypeOK, Askers, Occupants
  <2>2. CASE Write({d}, m)
    <3>1. r \in got[c] \/ (r = m /\ c = d)
      BY <2>2, WriteGives
    <3>2. QED
        BY <2>1, <3>1
  <2>3. QED
      BY <1>1, <1>3, <2>2 DEF Request
<1>4. OpenDevice \/ OpenDone \/ DeviceFails \/ DeviceIndicates \/ Dead \/ UNCHANGED vars => Goal
    BY <1>1 DEF OpenDevice, OpenDone, DeviceFails, ExitLoop, DeviceIndicates, Dead, vars
<1>5. ASSUME NEW d \in Conns,
             \/ Connect(d) \/ Disconnect(d) \/ EarlyReturn(d)
             \/ ClientConnects(d) \/ ClientSends(d) \/ ClientShuts(d) \/ ClientLeaves(d)
      PROVE  Goal
    BY <1>1, <1>5 DEF Connect, Disconnect, EarlyReturn, ClientConnects, ClientSends,
                     ClientShuts, ClientLeaves
<1>6. ASSUME NEW m \in pend, DeviceAnswers(m) PROVE Goal
    BY <1>1, <1>6 DEF DeviceAnswers
<1>7. QED
    BY <1>2, <1>3, <1>4, <1>5, <1>6 DEF Next, Proxy, Environment

\* The effect of a step on the clients the proxy has.
LEMMA OccupantsStep ==
    ASSUME TypeOK, [Next]_vars
    PROVE  \/ Occupants' \subseteq Occupants
           \/ \E c \in Conns : Filled(c) /\ Occupants' = Occupants \union {c}
<1>1. ASSUME NEW S \in SUBSET Conns, Freed(S) PROVE Occupants' \subseteq Occupants
    BY <1>1, TraceKept DEF Freed
<1>2. ASSUME NEW c \in Conns, Filled(c) PROVE Occupants' = Occupants \union {c}
  <2>1. PICK i \in Slots : slot[i] = None /\ slot' = [slot EXCEPT ![i] = c]
      BY <1>2 DEF Filled
  <2>2. \A j \in Slots : slot'[j] = IF j = i THEN c ELSE slot[j]
      BY <2>1 DEF TypeOK
  <2>3. c # None
      BY ConstantsAssumption
  <2>4. QED
      BY <2>1, <2>2, <2>3 DEF Occupants
<1>3. QED
    BY <1>1, <1>2, SlotStep

\* No step makes a connection fresh, and an accepted one is fresh no more.
LEMMA FreshStep ==
    ASSUME TypeOK, FreshInv, [Next]_vars, NEW c \in Conns
    PROVE  /\ Fresh(c)' => Fresh(c)
           /\ Filled(c) => ~Fresh(c)'
           /\ c \in backlog' => peer'[c] # "new"
<1> USE DEF TypeOK, Fresh, FreshInv, process
<1>1. ASSUME NEW C, NEW m, Write(C, m), UNCHANGED peer
      PROVE  (Fresh(c)' => Fresh(c)) /\ (c \in backlog' => peer'[c] # "new")
    BY <1>1 DEF Write
<1>2. (Fresh(c)' => Fresh(c)) /\ (c \in backlog' => peer'[c] # "new")
  <2>1. CASE OpenDevice \/ OpenDone \/ DeviceFails \/ DeviceIndicates \/ Dead \/ UNCHANGED vars
      BY <2>1 DEF OpenDevice, OpenDone, DeviceFails, ExitLoop, DeviceIndicates, Dead, vars
  <2>2. CASE Response
      BY <1>1, <2>2 DEF Response
  <2>3. ASSUME NEW i \in Slots, Request(i)
        PROVE  (Fresh(c)' => Fresh(c)) /\ (c \in backlog' => peer'[c] # "new")
      BY <1>1, <2>3 DEF Request
  <2>4. ASSUME NEW d \in Conns, Connect(d) \/ Disconnect(d) \/ EarlyReturn(d)
        PROVE  (Fresh(c)' => Fresh(c)) /\ (c \in backlog' => peer'[c] # "new")
      BY <2>4 DEF Connect, Disconnect, EarlyReturn
  <2>5. ASSUME NEW d \in Conns,
               ClientConnects(d) \/ ClientSends(d) \/ ClientShuts(d) \/ ClientLeaves(d)
        PROVE  (Fresh(c)' => Fresh(c)) /\ (c \in backlog' => peer'[c] # "new")
      BY <2>5 DEF ClientConnects, ClientSends, ClientShuts, ClientLeaves
  <2>6. ASSUME NEW m \in pend, DeviceAnswers(m)
        PROVE  (Fresh(c)' => Fresh(c)) /\ (c \in backlog' => peer'[c] # "new")
      BY <2>6 DEF DeviceAnswers
  <2>7. QED
      BY <2>1, <2>2, <2>3, <2>4, <2>5, <2>6 DEF Next, Proxy, Environment
<1>3. Filled(c) => ~Fresh(c)'
    BY DEF Filled
<1>4. QED
    BY <1>2, <1>3

\* Every step keeps the wire ids of the messages in flight traceable.
LEMMA TraceStep ==
    ASSUME TypeOK, TypeOK', TraceInv, FreshInv, [Next]_vars
    PROVE  TraceInv'
<1> SUFFICES ASSUME NEW m \in InFlight' PROVE Traced(m)'
    BY DEF TraceInv
<1>1. m \in Message
    BY DEF InFlight, TypeOK
<1>2. CASE m \in {OpenMsg, Indication}
    BY <1>2 DEF OpenMsg, Indication, Traced
<1>3. CASE Forwarded(m)
  <2>1. PICK i \in Slots : slot'[i] = m.by /\ m.by # None /\ m.wire = WireTid(i, m.tid)
      BY <1>3, ConstantsAssumption DEF Forwarded
  <2>2. QED
      BY <2>1 DEF Traced
<1>4. CASE m \in InFlight
  <2>1. Traced(m)
      BY <1>4 DEF TraceInv
  <2>2. ASSUME NEW S \in SUBSET Conns, Freed(S) PROVE Traced(m)'
      BY <1>1, <2>1, <2>2, TraceKept DEF Freed
  <2>3. ASSUME NEW c \in Conns, Filled(c) PROVE Traced(m)'
    <3>1. PICK i \in Slots : slot[i] = None /\ slot' = [slot EXCEPT ![i] = c]
        BY <2>3 DEF Filled
    <3>2. \A j \in Slots : slot'[j] = IF j = i THEN c ELSE slot[j]
        BY <3>1 DEF TypeOK
    <3>3. m.by # c
        BY <1>4, <2>3 DEF FreshInv, Fresh, Filled
    <3>4. CASE m.by = None
        BY <2>1, <3>4 DEF Traced
    <3>5. CASE m.by # None
      <4>1. PICK j \in Slots : m.wire = WireTid(j, m.tid) /\ (slot[j] = m.by \/ m.by \notin Occupants)
          BY <2>1, <3>5 DEF Traced
      <4>2. slot[j] = m.by => slot'[j] = m.by
          BY <3>1, <3>2, <3>5
      <4>3. m.by \notin Occupants => m.by \notin Occupants'
          BY <3>2, <3>3 DEF Occupants
      <4>4. QED
          BY <3>5, <4>1, <4>2, <4>3 DEF Traced
    <3>6. QED
        BY <3>4, <3>5
  <2>4. QED
      BY <2>2, <2>3, SlotStep
<1>5. QED
    BY <1>2, <1>3, <1>4, FlightStep

\* Every step keeps the system free of what connections not yet accepted sent.
LEMMA FreshInvStep ==
    ASSUME TypeOK, TypeOK', FreshInv, [Next]_vars
    PROVE  FreshInv'
<1> SUFFICES ASSUME NEW c \in Conns, Fresh(c)'
             PROVE  /\ c \in backlog' => peer'[c] # "new"
                    /\ c \notin Occupants'
                    /\ \A m \in InFlight' : m.by # c
                    /\ \A d \in Conns : \A r \in got'[d] : r.by # c
    BY DEF FreshInv
<1>1. Fresh(c) /\ ~Filled(c) /\ (c \in backlog' => peer'[c] # "new")
    BY FreshStep
<1>2. c \notin Occupants /\ c # None
    BY <1>1, ConstantsAssumption DEF FreshInv
<1>3. c \notin Occupants'
    BY <1>1, <1>2, OccupantsStep
<1>4. ASSUME NEW m \in InFlight' PROVE m.by # c
  <2>1. CASE m \in InFlight
      BY <1>1, <2>1 DEF FreshInv
  <2>2. CASE m \in {OpenMsg, Indication}
      BY <1>2, <2>2 DEF OpenMsg, Indication
  <2>3. CASE Forwarded(m)
      BY <1>2, <2>3, ConstantsAssumption DEF Forwarded, Occupants
  <2>4. QED
      BY <2>1, <2>2, <2>3, FlightStep
<1>5. ASSUME NEW d \in Conns, NEW r \in got'[d] PROVE r.by # c
  <2>1. CASE r \in got[d]
      BY <1>1, <2>1 DEF FreshInv
  <2>2. CASE r.by = d /\ d \in Occupants
      BY <1>2, <2>2
  <2>3. CASE Passed(d, r)
      BY <1>1, <2>3 DEF FreshInv, Passed, Read
  <2>4. QED
      BY <2>1, <2>2, <2>3, GotStep
<1>6. QED
    BY <1>1, <1>3, <1>4, <1>5

\* Every step keeps the answers of the clients apart.
LEMMA ApartStep ==
    ASSUME TypeOK, TypeOK', TraceInv, FreshInv, AnswersKeptApart, [Next]_vars
    PROVE  AnswersKeptApart'
<1> SUFFICES ASSUME NEW c \in Conns, NEW r \in got'[c] PROVE ~Misdelivered(c, r)'
    BY DEF AnswersKeptApart
<1>1. ASSUME ~Misdelivered(c, r) PROVE ~Misdelivered(c, r)'
  <2>1. CASE r.by \in {c, None}
      BY <1>1, <2>1 DEF Misdelivered
  <2>2. CASE r.by \notin {c, None}
    <3>1. r.by \in Conns /\ r.by \notin Occupants
        BY <1>1, <2>2 DEF Misdelivered, TypeOK, Reading, Askers
    <3>2. r.by \notin Occupants'
      <4>1. ASSUME Filled(r.by) PROVE FALSE
        <5>1. Fresh(r.by) /\ ~Fresh(r.by)'
            BY <3>1, <4>1, FreshStep DEF Filled, Fresh
        <5>2. FreshInv'
            BY FreshInvStep
        <5>3. \A m \in got[c] : m.by # r.by
            BY <3>1, <5>1 DEF FreshInv
        <5>4. got' = got
            BY <4>1 DEF Filled
        <5>5. QED
            BY <5>3, <5>4
      <4>2. QED
          BY <3>1, <4>1, OccupantsStep
    <3>3. QED
        BY <1>1, <2>2, <3>2 DEF Misdelivered
  <2>3. QED
      BY <2>1, <2>2
<1>2. CASE r \in got[c]
    BY <1>1, <1>2 DEF AnswersKeptApart
<1>3. CASE r.by = c /\ c \in Occupants /\ r.seen = r.asked
    BY <1>3, ConstantsAssumption DEF Misdelivered
<1>4. CASE Passed(c, r)
  <2>1. PICK m \in InFlight :
            /\ r = Read(m)
            /\ m.wire = 0 \/ (SlotOf(m.wire) \in Slots /\ slot[SlotOf(m.wire)] = c)
      BY <1>4 DEF Passed
  <2>2. Traced(m) /\ m \in Message
      BY DEF TraceInv, InFlight, TypeOK
  <2>3. r.by = m.by /\ r.asked = m.tid /\ r.seen = ClientTid(m.wire)
      BY <2>1 DEF Read
  <2>4. CASE m.by = None
    <3>1. m.wire = 0
        BY <2>1, <2>2, <2>4, LowWireTid DEF Traced
    <3>2. r.seen = 0
        BY <2>3, <3>1, MaskedTid, TidRange
    <3>3. QED
        BY <1>1, <2>3, <2>4, <3>2 DEF Misdelivered
  <2>5. CASE m.by # None
    <3>1. PICK i \in Slots : m.wire = WireTid(i, m.tid) /\ (slot[i] = m.by \/ m.by \notin Occupants)
        BY <2>2, <2>5 DEF Traced
    <3>2. m.tid \in 0..MaxTid
        BY <2>2 DEF Message
    <3>3. SlotOf(m.wire) = i /\ ClientTid(m.wire) = m.tid /\ m.wire # 0
        BY <3>1, <3>2, WireRoundTrip
    <3>4. slot[i] = c /\ r.seen = r.asked
        BY <2>1, <2>3, <3>3
    <3>5. QED
        BY <1>1, <2>3, <2>5, <3>1, <3>4 DEF Misdelivered
  <2>6. QED
      BY <2>4, <2>5
<1>5. QED
    BY <1>2, <1>3, <1>4, GotStep

\* Every step keeps descriptors and slots in agreement.
LEMMA HeldStep == TypeOK /\ HeldInv /\ [Next]_vars => HeldInv'
<1> SUFFICES ASSUME TypeOK, HeldInv, [Next]_vars PROVE HeldInv'
    OBVIOUS
<1> USE DEF HeldInv, TypeOK, Askers, process
<1>1. ASSUME UNCHANGED <<phase, bound, held, slot>> PROVE HeldInv'
    BY <1>1 DEF Occupants
<1>2. ASSUME slot' = [i \in Slots |-> None], held' = {} PROVE HeldInv'
  <2>1. Occupants' = {}
      BY <1>2 DEF Occupants
  <2>2. QED
      BY <1>2, <2>1
<1>3. ASSUME NEW C, NEW m, Write(C, m) PROVE HeldInv'
    BY <1>1, <1>2, <1>3 DEF Write
<1>4. CASE OpenDevice
    BY <1>2, <1>4 DEF OpenDevice, Occupants
<1>5. CASE OpenDone
  <2>1. bound \/ Occupants = {}
      BY <1>5 DEF OpenDone
  <2>2. CASE ExitLoop
      BY <1>2, <2>1, <2>2 DEF ExitLoop, ClosedAtExit
  <2>3. CASE UNCHANGED <<bound, slot, held>>
      BY <2>1, <2>3 DEF Occupants
  <2>4. QED
      BY <1>5, <2>2, <2>3 DEF OpenDone
<1>6. CASE DeviceFails
    BY <1>2, <1>6 DEF DeviceFails, ExitLoop, ClosedAtExit
<1>7. CASE Response
    BY <1>3, <1>7 DEF Response
<1>8. ASSUME NEW i \in Slots, Request(i) PROVE HeldInv'
    BY <1>1, <1>3, <1>8 DEF Request
<1>9. ASSUME NEW c \in Conns, Connect(c) PROVE HeldInv'
  <2>1. CASE UNCHANGED <<slot, held>>
      BY <1>1, <1>9, <2>1 DEF Connect
  <2>2. ASSUME NEW i \in Slots, FirstFree(i), slot' = [slot EXCEPT ![i] = c], held' = held \union {c}
        PROVE  HeldInv'
    <3>1. \A j \in Slots : slot'[j] = IF j = i THEN c ELSE slot[j]
        BY <2>2
    <3>2. Occupants' = Occupants \union {c}
        BY <2>2, <3>1, ConstantsAssumption DEF Occupants, FirstFree
    <3>3. QED
        BY <1>9, <2>2, <3>2 DEF Connect
  <2>3. QED
      BY <1>9, <2>1, <2>2 DEF Connect
<1>10. ASSUME NEW c \in Conns, Disconnect(c) PROVE HeldInv'
  <2>1. Occupants' = Occupants \ {c}
      BY <1>10 DEF Disconnect, FreeSlotOf, Occupants
  <2>2. QED
      BY <1>10, <2>1 DEF Disconnect
<1>11. ASSUME NEW c \in Conns, EarlyReturn(c) PROVE HeldInv'
    BY <1>11 DEF EarlyReturn
<1>12. CASE DeviceIndicates \/ Dead \/ UNCHANGED vars
    BY <1>1, <1>12 DEF DeviceIndicates, Dead, vars
<1>13. ASSUME NEW m \in pend, DeviceAnswers(m) PROVE HeldInv'
    BY <1>1, <1>13 DEF DeviceAnswers
<1>14. ASSUME NEW c \in Conns,
              ClientConnects(c) \/ ClientSends(c) \/ ClientShuts(c) \/ ClientLeaves(c)
       PROVE  HeldInv'
    BY <1>1, <1>14 DEF ClientConnects, ClientSends, ClientShuts, ClientLeaves
<1>15. QED
    BY <1>4, <1>5, <1>6, <1>7, <1>8, <1>9, <1>10, <1>11, <1>12, <1>13, <1>14
       DEF Next, Proxy, Environment

-----------------------------------------------------------------------------
\* The inductive invariant holds in every reachable state.
THEOREM Inductive == Spec => []IInv
<1>1. IInv /\ [Next]_vars => IInv'
  <2> SUFFICES ASSUME IInv, [Next]_vars PROVE IInv'
      OBVIOUS
  <2>1. TypeOK'
      BY TypeStep DEF IInv
  <2>2. QED
      BY <2>1, TraceStep, FreshInvStep, ApartStep, HeldStep DEF IInv
<1>2. QED
    BY InitIInv, <1>1, PTL DEF Spec

\* The variables keep their types: an id given to a client is a masked one.
THEOREM TypeCorrect == Spec => []TypeOK
<1>1. IInv => TypeOK
    BY DEF IInv
<1>2. QED
    BY Inductive, <1>1, PTL

\* handle_device_response passes an answer to its asker, or to the connection
\* that took the asker's slot after it left, and never under a wrong id.
THEOREM ClientsKeptApart == Spec => []AnswersKeptApart
<1>1. IInv => AnswersKeptApart
    BY DEF IInv
<1>2. QED
    BY Inductive, <1>1, PTL

\* The descriptors held for clients are the ones in the slots, until an early
\* return has left the server open.
THEOREM NoneForgotten == Spec => []NoClientForgotten
<1>1. IInv => NoClientForgotten
    BY DEF IInv, HeldInv, NoClientForgotten
<1>2. QED
    BY Inductive, <1>1, PTL

=============================================================================
