--------------------------- MODULE QmiProxyProofs ---------------------------
(***************************************************************************)
(* Proofs about QmiProxy, for every set of connections and of client ids,  *)
(* and every bound.  Without faults: the queue holds at most one request   *)
(* of a client, its head is the one at the modem, recorded ids are granted *)
(* to the client they are recorded for, and a queued release is for an id  *)
(* that nobody has.  None of these is inductive alone, IInv is.  With all  *)
(* faults: the types, and what a connection that is closed leaves.         *)
(***************************************************************************)
EXTENDS QmiProxy, SequenceTheorems, WellFoundedInduction, TLAPS

\* What a client waits for, it has asked and it is still there for; it releases
\* client ids it holds.
AskInv ==
  \A c \in Conns :
    /\ want[c] # NoAsk => /\ peer[c] = "linked" /\ want[c].by = c /\ want[c].kind \in CtlKinds
                          /\ IF want[c].kind = "release" THEN want[c].id \in mine[c]
                                                         ELSE want[c].id = NoId
    /\ up[c] # NoAsk => want[c] = up[c]
    /\ peer[c] = "new" => fd[c] = 0
    /\ peer[c] = "new" \/ c \in backlog => mine[c] = {}
    /\ c \in backlog => fd[c] = 0 /\ peer[c] # "new"
    /\ fd[c] = 0 => owned[c] = <<>>

\* Without a server there are no connections, and the modem has a SYNC at most.
SyncInv ==
  /\ phase # "serving" => backlog = {} /\ Clients = {}
  /\ phase = "shut" => pend = <<>> /\ rx = <<>>
  /\ phase = "syncing" =>
       /\ queue = <<>>
       /\ synced => pend = <<>> /\ rx = <<>> /\ \A x \in Ids : granted[x] = None
       /\ syncs = 0 => pend = <<>> /\ rx = <<>>
       /\ \/ pend = <<>> /\ rx = <<>>
          \/ rx = <<>> /\ Len(pend) = 1 /\ pend[1].kind = "sync"
          \/ /\ pend = <<>> /\ Len(rx) = 1 /\ rx[1].kind = "sync"
             /\ \A x \in Ids : granted[x] = None

OfClient(q) ==
  /\ q.msg.by \in Conns /\ q.fd # Server /\ q.fd = fd[q.msg.by]
  /\ want[q.msg.by] = q.msg /\ up[q.msg.by] = NoAsk
OfServer(q) ==
  /\ q.fd = Server
  /\ q.msg.kind = "release" /\ q.msg.tid = ReleaseTid /\ q.msg.by = None /\ q.msg.id \in Ids

AnswerTo(m, r) ==
  /\ m.kind = r.kind /\ m.tid = r.tid /\ m.by = r.by
  /\ m.kind # "get" => m.id = r.id

NoCtl(s) == \A k \in 1..Len(s) : s[k].kind = "mux"

\* The modem has been sent the head of the queue, and has answered it or not.
Sent == pend = <<Head(queue).msg>> /\ NoCtl(rx)
Answered ==
  /\ pend = <<>>
  /\ \E k \in 1..Len(rx) : /\ AnswerTo(rx[k], Head(queue).msg)
                           /\ \A j \in 1..Len(rx) : j # k => rx[j].kind = "mux"

QueueInv ==
  /\ \A k \in 1..Len(queue) : OfClient(queue[k]) \/ OfServer(queue[k])
  /\ \A j, k \in 1..Len(queue) : queue[j].fd = queue[k].fd /\ queue[j].fd # Server => j = k
  /\ queue = <<>> => pend = <<>> /\ NoCtl(rx)
  /\ queue # <<>> => Sent \/ Answered

\* A client holds ids that are recorded for it; one that is recorded is granted to
\* that client, or just given back by it.
GivenBack(x, b) ==
  /\ queue # <<>> /\ pend = <<>>
  /\ Head(queue).msg.kind = "release" /\ Head(queue).msg.id = x /\ Head(queue).msg.by = b
Distinct(s) == \A j, k \in 1..Len(s) : s[j] = s[k] => j = k
OwnedInv ==
  \A c \in Clients :
    /\ Distinct(owned[c])
    /\ \A x \in mine[c] : Contains(owned[c], x)
    /\ \A x \in Ids : Contains(owned[c], x) =>
         granted[x] = c \/ (granted[x] = None /\ GivenBack(x, c))

Unowned(x) == \A c \in Clients : ~Contains(owned[c], x)

ReleaseInv ==
  /\ \A k \in 1..Len(queue) : queue[k].fd = Server =>
       /\ Unowned(queue[k].msg.id)
       /\ granted[queue[k].msg.id] # None \/ (k = 1 /\ pend = <<>>)
       /\ \A j \in 1..Len(queue) :
            queue[j].fd = Server /\ queue[j].msg.id = queue[k].msg.id => j = k
  /\ queue # <<>> /\ pend = <<>> /\ Head(queue).msg.kind = "release"
       => granted[Head(queue).msg.id] = None
  /\ \A k \in 1..Len(rx) : rx[k].kind = "get" /\ rx[k].id # NoId =>
       /\ granted[rx[k].id] = rx[k].by /\ Unowned(rx[k].id)
       /\ \A j \in 1..Len(queue) : queue[j].fd = Server => queue[j].msg.id # rx[k].id

\* Whoever has the id of a message, or is about to have it, is the one it is for.
MuxInv ==
  \A k \in 1..Len(rx) : rx[k].kind = "mux" =>
    /\ rx[k].id = NoId => rx[k].by = None
    /\ rx[k].id # NoId =>
         /\ \A c \in Clients : Contains(owned[c], rx[k].id) => rx[k].by = c
         /\ \A j \in 1..(k - 1) : rx[j].kind = "get" /\ rx[j].id = rx[k].id => rx[k].by = rx[j].by

IInv ==
  /\ AskInv /\ SyncInv
  /\ phase = "serving" => QueueInv /\ OwnedInv /\ ReleaseInv /\ MuxInv /\ NoIdLeaks
  /\ AnswersKeptApart

-----------------------------------------------------------------------------
\* Sequences from which one element is taken.
LEMMA MinProperty ==
    ASSUME NEW T \in SUBSET Nat, T # {}
    PROVE  Min(T) \in T
<1> DEFINE R == OpToRel(<, Nat)
<1>1. \E x \in T : \A y \in T : ~ (<<y, x>> \in R)
    BY WFMin, NatLessThanWellFounded, Zenon
<1>2. \A x, y \in Nat : y < x => <<y, x>> \in R
    BY DEF OpToRel
<1>3. \E x \in T : \A y \in T : x <= y
    <2> HIDE DEF R
    <2>1. PICK x \in T : \A y \in T : ~ (<<y, x>> \in R)
        BY <1>1
    <2>2. x \in Nat /\ \A y \in T : y \in Nat /\ ~ (y < x)
        BY <1>2, <2>1
    <2>3. QED
        BY <2>2
<1>4. QED
    BY <1>3 DEF Min

LEMMA RemoveAtProperties ==
    ASSUME NEW S, NEW s \in Seq(S), NEW i \in 1..Len(s)
    PROVE  /\ RemoveAt(s, i) \in Seq(S)
           /\ Len(RemoveAt(s, i)) = Len(s) - 1
           /\ \A j \in 1..(Len(s) - 1) : RemoveAt(s, i)[j] = IF j < i THEN s[j] ELSE s[j + 1]
<1> DEFINE a == SubSeq(s, 1, i - 1)
           b == SubSeq(s, i + 1, Len(s))
<1>1. /\ a \in Seq(S) /\ Len(a) = i - 1
      /\ \A j \in 1..(i - 1) : a[j] = s[j]
    <2>1. \A j \in 1..(i - 1) : s[j] \in S
        OBVIOUS
    <2>2. QED
        BY <2>1, SubSeqProperties
<1>2. /\ b \in Seq(S) /\ Len(b) = Len(s) - i
      /\ \A j \in 1..(Len(s) - i) : b[j] = s[i + j]
    <2>1. \A j \in (i + 1)..Len(s) : s[j] \in S
        OBVIOUS
    <2>2. /\ b \in Seq(S)
          /\ Len(b) = IF i + 1 <= Len(s) THEN Len(s) - (i + 1) + 1 ELSE 0
          /\ \A j \in 1..(Len(s) - (i + 1) + 1) : b[j] = s[i + 1 + j - 1]
        BY <2>1, SubSeqProperties
    <2>3. QED
        BY <2>2
<1>3. /\ a \o b \in Seq(S) /\ Len(a \o b) = Len(s) - 1
      /\ \A j \in 1..(Len(s) - 1) : (a \o b)[j] = IF j < i THEN s[j] ELSE s[j + 1]
    <2> HIDE DEF a, b
    <2>1. /\ a \o b \in Seq(S) /\ Len(a \o b) = Len(a) + Len(b)
          /\ \A j \in 1..(Len(a) + Len(b)) :
               (a \o b)[j] = IF j <= Len(a) THEN a[j] ELSE b[j - Len(a)]
        BY <1>1, <1>2, ConcatProperties
    <2>2. QED
        BY <1>1, <1>2, <2>1
<1>4. QED
    BY <1>3 DEF RemoveAt

LEMMA RemoveFirstProperties ==
    ASSUME NEW s \in Seq(Ids), NEW x
    PROVE  \/ RemoveFirst(s, x) = s /\ \A i \in 1..Len(s) : s[i] # x
           \/ \E i \in 1..Len(s) : s[i] = x /\ RemoveFirst(s, x) = RemoveAt(s, i)
<1> DEFINE I == {i \in 1..Len(s) : s[i] = x}
<1>1. CASE I = {}
    BY <1>1 DEF RemoveFirst
<1>2. CASE I # {}
    <2>1. Min(I) \in I
        <3>1. I \in SUBSET Nat
            OBVIOUS
        <3> HIDE DEF I
        <3>2. QED
            BY <1>2, <3>1, MinProperty
    <2>2. RemoveFirst(s, x) = RemoveAt(s, Min(I))
        BY <1>2 DEF RemoveFirst, SelectInSeq
    <2>3. QED
        BY <2>1, <2>2
<1>3. QED
    BY <1>1, <1>2

\* What is left of a queue when the first request of a descriptor is dropped.
Without(q, f) == RemoveFirstMatch(q, LAMBDA e : e.fd = f)

LEMMA WithoutProperties ==
    ASSUME NEW q \in Seq(Queued), NEW f
    PROVE  \/ Without(q, f) = q /\ \A i \in 1..Len(q) : q[i].fd # f
           \/ \E i \in 1..Len(q) : q[i].fd = f /\ Without(q, f) = RemoveAt(q, i)
<1> DEFINE I == {i \in 1..Len(q) : q[i].fd = f}
<1>1. CASE I = {}
    BY <1>1 DEF Without, RemoveFirstMatch
<1>2. CASE I # {}
    <2>1. Min(I) \in I
        <3>1. I \in SUBSET Nat
            OBVIOUS
        <3> HIDE DEF I
        <3>2. QED
            BY <1>2, <3>1, MinProperty
    <2>2. Without(q, f) = RemoveAt(q, Min(I))
        BY <1>2 DEF Without, RemoveFirstMatch, SelectInSeq
    <2>3. QED
        BY <2>1, <2>2
<1>3. QED
    BY <1>1, <1>2

-----------------------------------------------------------------------------
\* Types.
LEMMA ToModemType ==
    ASSUME pend \in Seq(Message), NEW m \in Message, ToModem(m)
    PROVE  pend' \in Seq(Message)
  BY AppendProperties DEF ToModem

LEMMA SendNextType ==
    ASSUME pend \in Seq(Message), NEW q \in Seq(Queued), SendNext(q)
    PROVE  pend' \in Seq(Message)
<1>1. CASE q = <<>>
    BY <1>1 DEF SendNext
<1>2. CASE q # <<>>
    <2>1. Head(q) \in Queued
        BY <1>2, HeadTailProperties
    <2>2. Head(q).msg \in Message
        BY <2>1 DEF Queued
    <2>3. QED
        BY <1>2, <2>2, ToModemType DEF SendNext
<1>3. QED
    BY <1>1, <1>2

LEMMA NoAskType == NoAsk \in Message
  BY DEF NoAsk, Message, Kinds, CtlKinds, Askers

\* The requests with which the proxy releases the client ids of a connection.
LEMMA ReleasesProperties ==
    ASSUME TypeOK, NEW c \in Conns
    PROVE  /\ Releases(c) \in Seq(Queued) /\ Len(Releases(c)) = Len(owned[c])
           /\ \A k \in 1..Len(owned[c]) :
                /\ Releases(c)[k].fd = Server
                /\ Releases(c)[k].msg = [kind |-> "release", tid |-> ReleaseTid,
                                         id |-> owned[c][k], by |-> None]
<1> DEFINE r(k) == [fd |-> Server, msg |-> [kind |-> "release", tid |-> ReleaseTid,
                                            id |-> owned[c][k], by |-> None]]
<1>1. owned[c] \in Seq(Ids)
    BY DEF TypeOK
<1>2. \A k \in 1..Len(owned[c]) : r(k) \in Queued
    BY <1>1, ConstantsAssumption
       DEF Queued, Message, Kinds, CtlKinds, Askers, ReleaseTid, Server
<1>3. Releases(c) = [k \in 1..Len(owned[c]) |-> r(k)]
    BY DEF Releases
<1>4. \A k \in 1..Len(owned[c]) :
        r(k).fd = Server /\ r(k).msg = [kind |-> "release", tid |-> ReleaseTid,
                                       id |-> owned[c][k], by |-> None]
    OBVIOUS
<1> HIDE DEF r
<1>5. Len(owned[c]) \in Nat
    BY <1>1
<1>6. Releases(c) \in Seq(Queued) /\ Len(Releases(c)) = Len(owned[c])
    BY <1>2, <1>3, <1>5
<1>7. \A k \in 1..Len(owned[c]) : Releases(c)[k] = r(k)
    BY <1>3
<1>8. QED
    BY <1>6, <1>7, <1>4

LEMMA InitType == Init => TypeOK
<1> SUFFICES ASSUME Init PROVE TypeOK
    OBVIOUS
<1> USE ConstantsAssumption
<1>0. /\ 0 \in 0..SyncTries /\ 0 \in 0..MaxFd /\ 0 \in 0..MaxTid /\ Clients = {}
    BY DEF Init, Clients
<1>1. /\ phase \in {"shut", "syncing", "serving", "dead"} /\ syncs \in 0..SyncTries
      /\ synced \in BOOLEAN /\ fd \in [Conns -> 0..MaxFd] /\ tids \in [Conns -> 0..MaxTid]
      /\ \A c, d \in Clients : fd[c] = fd[d] => c = d
    BY <1>0 DEF Init
<1>2. /\ backlog \subseteq Conns /\ owned \in [Conns -> Seq(Ids)] /\ queue \in Seq(Queued)
      /\ peer \in [Conns -> {"new", "linked", "left"}]
      /\ mine \in [Conns -> SUBSET Ids] /\ pend \in Seq(Message) /\ rx \in Seq(Message)
      /\ granted \in [Ids -> Askers] /\ got \in [Conns -> SUBSET Askers]
    BY DEF Init, Askers
<1>3. want \in [Conns -> Message] /\ up \in [Conns -> Message]
    BY NoAskType DEF Init
<1>4. QED
    BY <1>1, <1>2, <1>3 DEF TypeOK

\* What is recorded and what a client holds after a response.
LEMMA RecordedType ==
    ASSUME TypeOK, NEW c \in Conns, NEW m \in Message
    PROVE  /\ Recorded(c, m) \in Seq(Ids)
           /\ m.id # NoId => Held(c, m) \in SUBSET Ids
           /\ Held(c, m) \in SUBSET Ids
<1>1. owned[c] \in Seq(Ids) /\ mine[c] \in SUBSET Ids /\ m.id \in Ids \union {NoId}
    BY DEF TypeOK, Message
<1>2. RemoveFirst(owned[c], m.id) \in Seq(Ids)
    BY <1>1, RemoveFirstProperties, RemoveAtProperties
<1>3. m.id # NoId => Append(owned[c], m.id) \in Seq(Ids)
    BY <1>1
<1>4. QED
    BY <1>1, <1>2, <1>3 DEF Recorded, Held

LEMMA MainType ==
    ASSUME TypeOK, Main
    PROVE  TypeOK'
<1> USE ConstantsAssumption DEF TypeOK, proxyVars, clientVars, Clients
<1>1. CASE OpenDevice
    <2>1. syncs' \in 0..SyncTries /\ queue' \in Seq(Queued)
        BY <1>1 DEF OpenDevice
    <2>2. QED
        BY <1>1, <2>1 DEF OpenDevice
<1>2. CASE SendSync
    <2>1. /\ [kind |-> "sync", tid |-> syncs + 1, id |-> NoId, by |-> None] \in Message
          /\ syncs' \in 0..SyncTries
        BY <1>2 DEF SendSync, Message, Kinds, Askers
    <2>2. pend' \in Seq(Message)
        BY <1>2, <2>1, ToModemType DEF SendSync
    <2>3. QED
        BY <1>2, <2>1, <2>2 DEF SendSync
<1>3. CASE Serve
    BY <1>3 DEF Serve
<1>4. QED
    BY <1>1, <1>2, <1>3 DEF Main

LEMMA ConnType ==
    ASSUME TypeOK, NEW c \in Conns, Accept(c) \/ Disconnect(c) \/ Request(c)
    PROVE  TypeOK'
<1> USE ConstantsAssumption DEF mainVars, clientVars
<1>1. CASE Accept(c)
    <2>1. PICK f \in 1..MaxFd : /\ \A d \in Conns : fd[d] # f
                                /\ fd' = [fd EXCEPT ![c] = f]
        BY <1>1 DEF Accept
    <2>2. \A d, e \in Clients' : fd'[d] = fd'[e] => d = e
        BY <2>1 DEF TypeOK, Clients
    <2>3. fd' \in [Conns -> 0..MaxFd] /\ backlog' \subseteq Conns
        BY <1>1, <2>1 DEF TypeOK, Accept
    <2>4. QED
        BY <1>1, <2>2, <2>3 DEF TypeOK, Accept
<1>2. CASE Disconnect(c)
    <2>1. queue \o Releases(c) \in Seq(Queued) /\ queue' = Without(queue \o Releases(c), fd[c])
        BY <1>2, ReleasesProperties, ConcatProperties DEF TypeOK, Disconnect, Without
    <2>2. queue' \in Seq(Queued)
        <3> DEFINE q == queue \o Releases(c)
        <3>1. \/ queue' = q
              \/ \E i \in 1..Len(q) : queue' = RemoveAt(q, i)
            BY <2>1, WithoutProperties
        <3> HIDE DEF q
        <3>2. QED
            BY <2>1, <3>1, RemoveAtProperties DEF q
    <2>3. pend' \in Seq(Message)
        <3>1. CASE SentIfFirst(queue) /\ Releases(c) # <<>>
            <4>1. Releases(c)[1] \in Queued
                BY <3>1, ReleasesProperties
            <4>2. Releases(c)[1].msg \in Message
                BY <4>1 DEF Queued
            <4>3. ToModem(Releases(c)[1].msg)
                BY <1>2, <3>1 DEF Disconnect
            <4>4. QED
                BY <4>2, <4>3, ToModemType DEF TypeOK
        <3>2. CASE ~(SentIfFirst(queue) /\ Releases(c) # <<>>)
            BY <1>2, <3>2 DEF Disconnect, TypeOK
        <3>3. QED
            BY <3>1, <3>2
    <2>4. /\ fd' = [fd EXCEPT ![c] = 0] /\ owned' = [owned EXCEPT ![c] = <<>>]
          /\ UNCHANGED <<phase, syncs, synced, backlog, peer, tids, want, up, mine, granted, rx, got>>
        BY <1>2 DEF Disconnect
    <2>5. \A d, e \in Clients' : fd'[d] = fd'[e] => d = e
        BY <2>4 DEF TypeOK, Clients
    <2>6. fd' \in [Conns -> 0..MaxFd] /\ owned' \in [Conns -> Seq(Ids)]
        BY <2>4 DEF TypeOK
    <2>7. QED
        BY <2>2, <2>3, <2>4, <2>5, <2>6 DEF TypeOK
<1>3. CASE Request(c)
    <2>1. up[c] \in Message /\ fd[c] \in 0..MaxFd
        BY DEF TypeOK
    <2>2. pend' \in Seq(Message)
        BY <1>3, <2>1, ToModemType DEF Request, TypeOK
    <2>3. [fd |-> fd[c], msg |-> up[c]] \in Queued
        BY <2>1 DEF Queued
    <2>4. queue' \in Seq(Queued)
        BY <1>3, <2>3, AppendProperties DEF Request, TypeOK
    <2>5. QED
        BY <1>3, <2>2, <2>4, NoAskType DEF Request, TypeOK, Clients
<1>4. QED
    BY <1>1, <1>2, <1>3

\* Connections gone: by the end of a round, or of the process.
LEMMA AllClosedType ==
    ASSUME TypeOK, fd' = [c \in Conns |-> 0], owned' = [c \in Conns |-> <<>>], backlog' = {},
           queue' \in Seq(Queued), phase' \in {"shut", "dead"}, pend' \in Seq(Message),
           rx' \in Seq(Message), UNCHANGED <<syncs, synced, clientVars, granted, got>>
    PROVE  TypeOK'
<1>1. fd' \in [Conns -> 0..MaxFd] /\ Clients' = {}
    BY ConstantsAssumption DEF Clients
<1>2. QED
    BY <1>1 DEF TypeOK, clientVars

LEMMA DeviceType ==
    ASSUME TypeOK, FirstMessage \/ CtlResponse \/ CtlIndication \/ MuxMessage
    PROVE  TypeOK'
<1> DEFINE m == Head(rx)
<1>0. rx # <<>> /\ rx' = Tail(rx)
    BY DEF FirstMessage, CtlResponse, CtlIndication, MuxMessage
<1>1. /\ rx' \in Seq(Message) /\ m \in Message /\ <<>> \in Seq(Queued)
      /\ queue \in Seq(Queued) /\ pend \in Seq(Message)
      /\ queue # <<>> => Tail(queue) \in Seq(Queued)
    BY <1>0, HeadTailProperties DEF TypeOK
<1>2. CASE FirstMessage
    BY <1>1, <1>2 DEF FirstMessage, TypeOK, proxyVars, clientVars, Clients
<1>3. CASE /\ UNCHANGED <<mainVars, fd, backlog, owned, clientVars, granted, got>>
           /\ \/ UNCHANGED <<queue, pend>>
              \/ queue # <<>> /\ queue' = Tail(queue) /\ SendNext(queue')
    <2>1. queue' \in Seq(Queued) /\ pend' \in Seq(Message)
        BY <1>1, <1>3, SendNextType
    <2>2. QED
        BY <1>1, <1>3, <2>1 DEF TypeOK, mainVars, clientVars, Clients
<1>4. CASE Killed
    BY <1>1, <1>4, AllClosedType DEF Killed
<1>5. CASE EndRound /\ UNCHANGED pend
    BY <1>1, <1>5, AllClosedType DEF EndRound
<1>6. ASSUME NEW c \in Clients, queue # <<>>, Give(c, m),
             owned' = [owned EXCEPT ![c] = Recorded(c, m)], queue' = Tail(queue),
             SendNext(queue'), UNCHANGED <<mainVars, fd, backlog, peer, tids, up, granted>>
      PROVE  TypeOK'
    <2>1. c \in Conns
        BY DEF Clients
    <2>2. Recorded(c, m) \in Seq(Ids) /\ Held(c, m) \in SUBSET Ids
        BY <1>1, <2>1, RecordedType
    <2>3. m.by \in Askers
        BY <1>1 DEF Message
    <2>4. queue' \in Seq(Queued) /\ pend' \in Seq(Message)
        BY <1>1, <1>6, SendNextType
    <2>5. want' \in [Conns -> Message] /\ mine' \in [Conns -> SUBSET Ids]
        BY <1>6, <2>2, NoAskType DEF Give, TypeOK
    <2>6. got' \in [Conns -> SUBSET Askers]
        BY <1>6, <2>1, <2>3 DEF Give, TypeOK
    <2>7. owned' \in [Conns -> Seq(Ids)]
        BY <1>6, <2>2 DEF TypeOK
    <2>8. QED
        BY <1>1, <1>6, <2>4, <2>5, <2>6, <2>7 DEF TypeOK, mainVars, Clients
<1>7. CASE MuxMessage /\ UNCHANGED <<mainVars, proxyVars, clientVars, pend, granted>>
    <2>1. m.by \in Askers
        BY <1>1 DEF Message
    <2>2. Killed \/ \E R \in SUBSET Conns :
                    got' = [c \in Conns |-> IF c \in R THEN got[c] \union {m.by} ELSE got[c]]
        BY <1>7 DEF MuxMessage, Clients
    <2>3. got' \in [Conns -> SUBSET Askers] \/ Killed
        <3>1. got \in [Conns -> SUBSET Askers]
            BY DEF TypeOK
        <3>2. \A c \in Conns : got[c] \union {m.by} \in SUBSET Askers /\ got[c] \in SUBSET Askers
            BY <2>1, <3>1
        <3> HIDE DEF m
        <3>3. ASSUME NEW R \in SUBSET Conns,
                     got' = [c \in Conns |-> IF c \in R THEN got[c] \union {m.by} ELSE got[c]]
              PROVE  got' \in [Conns -> SUBSET Askers]
            BY <3>2, <3>3, Zenon
        <3>4. QED
            BY <2>2, <3>3
    <2>4. QED
        BY <1>1, <1>4, <1>7, <2>3 DEF TypeOK, mainVars, proxyVars, clientVars, Clients
<1>8. CASE CtlResponse
    BY <1>3, <1>4, <1>6, <1>8 DEF CtlResponse, proxyVars
<1>9. CASE CtlIndication
    BY <1>3, <1>5, <1>9 DEF CtlIndication, proxyVars
<1>10. CASE MuxMessage
    BY <1>4, <1>7, <1>10 DEF MuxMessage
<1>11. QED
    BY <1>2, <1>8, <1>9, <1>10

LEMMA EnvironmentType ==
    ASSUME TypeOK, Environment
    PROVE  TypeOK'
<1>1. CASE Restart
    <2>1. pend' \in Seq(Message) /\ rx' \in Seq(Message) /\ queue' \in Seq(Queued)
        <3>1. /\ <<>> \in Seq(Message)
              /\ pend \in Seq(Message) /\ rx \in Seq(Message) /\ queue \in Seq(Queued)
            BY DEF TypeOK
        <3>2. /\ pend' = <<>> \/ pend' = pend
              /\ rx' = <<>> \/ rx' = rx
              /\ queue' = queue
            BY <1>1 DEF Restart, EndRound
        <3>3. QED
            BY <3>1, <3>2, Zenon
    <2>2. QED
        BY <1>1, <2>1, AllClosedType DEF Restart, EndRound
<1>2. CASE ModemAnswers
    <2> DEFINE m == Head(pend)
    <2>1. m \in Message /\ Tail(pend) \in Seq(Message)
        BY <1>2, HeadTailProperties DEF ModemAnswers, TypeOK
    <2>2. m.by \in Askers /\ None \in Askers /\ \A x \in Ids \union {NoId} : [m EXCEPT !.id = x] \in Message
        BY <2>1 DEF Message, Askers
    <2>3. \E r \in Message : rx' = Append(rx, r)
        <3>1. NoId \in Ids \union {NoId} /\ Ids \subseteq Ids \union {NoId}
            OBVIOUS
        <3>2. \/ rx' = Append(rx, m)
              \/ \E x \in Ids : rx' = Append(rx, [m EXCEPT !.id = x])
              \/ rx' = Append(rx, [m EXCEPT !.id = NoId])
            BY <1>2 DEF ModemAnswers
        <3>3. QED
            BY <2>1, <2>2, <3>1, <3>2, Zenon
    <2>4. rx' \in Seq(Message)
        BY <2>3, AppendProperties DEF TypeOK
    <2>5. granted' \in [Ids -> Askers]
        BY <1>2, <2>2 DEF ModemAnswers, TypeOK
    <2>6. QED
        BY <1>2, <2>1, <2>4, <2>5
           DEF ModemAnswers, TypeOK, mainVars, proxyVars, clientVars, Clients
<1>3. CASE ModemRevokes
    <2>1. [kind |-> "revoke", tid |-> 0, id |-> NoId, by |-> None] \in Message
        BY DEF Message, Kinds, Askers
    <2>2. rx' \in Seq(Message) /\ granted' \in [Ids -> Askers]
        BY <1>3, <2>1, AppendProperties DEF ModemRevokes, TypeOK, Askers
    <2>3. QED
        BY <1>3, <2>2 DEF ModemRevokes, TypeOK, mainVars, proxyVars, clientVars, Clients
<1>4. ASSUME NEW x \in Ids \union {NoId}, ModemSends(x) PROVE TypeOK'
    <2>1. (IF x = NoId THEN None ELSE granted[x]) \in Askers
        BY DEF TypeOK, Askers
    <2>2. [kind |-> "mux", tid |-> 0, id |-> x, by |-> IF x = NoId THEN None ELSE granted[x]] \in Message
        BY <2>1 DEF Message, Kinds
    <2>3. rx' \in Seq(Message)
        BY <1>4, <2>2, AppendProperties DEF ModemSends, TypeOK
    <2>4. QED
        BY <1>4, <2>3 DEF ModemSends, TypeOK, mainVars, proxyVars, clientVars, Clients
<1>5. ASSUME NEW c \in Conns,
             ClientConnects(c) \/ ClientAsks(c) \/ ClientGivesUp(c) \/ ClientLeaves(c)
      PROVE  TypeOK'
    <2>1. CASE ClientConnects(c)
        BY <2>1 DEF ClientConnects, TypeOK, mainVars, Clients
    <2>2. CASE ClientAsks(c)
        <3>1. tids' \in [Conns -> 0..MaxTid] /\ tids'[c] \in Nat
            BY <2>2, ConstantsAssumption DEF ClientAsks, TypeOK
        <3>2. want' \in [Conns -> Message]
            <4>1. PICK k \in CtlKinds, x \in Ids \union {NoId} :
                    want' = [want EXCEPT ![c] = [kind |-> k, tid |-> tids'[c], id |-> x, by |-> c]]
                BY <2>2 DEF ClientAsks
            <4>2. [kind |-> k, tid |-> tids'[c], id |-> x, by |-> c] \in Message
                BY <3>1 DEF Message, Kinds, Askers
            <4>3. QED
                BY <4>1, <4>2 DEF TypeOK
        <3>3. up' \in [Conns -> Message]
            BY <2>2, <3>2 DEF ClientAsks, TypeOK
        <3>4. QED
            BY <2>2, <3>1, <3>2, <3>3 DEF ClientAsks, TypeOK, mainVars, proxyVars, Clients
    <2>3. CASE ClientGivesUp(c)
        BY <2>3, NoAskType DEF ClientGivesUp, TypeOK, mainVars, proxyVars, Clients
    <2>4. CASE ClientLeaves(c)
        BY <2>4 DEF ClientLeaves, TypeOK, mainVars, proxyVars, Clients
    <2>5. QED
        BY <1>5, <2>1, <2>2, <2>3, <2>4
<1>6. QED
    BY <1>1, <1>2, <1>3, <1>4, <1>5 DEF Environment

LEMMA StepType == TypeOK /\ [Next]_vars => TypeOK'
<1>1. ASSUME TypeOK, UNCHANGED vars PROVE TypeOK'
    BY <1>1 DEF vars, mainVars, proxyVars, clientVars, TypeOK, Clients
<1>2. QED
    BY <1>1, MainType, ConnType, DeviceType, EnvironmentType DEF Next, Loop, Dead

\* The types, no descriptor given to two connections among them, whatever may
\* go wrong.
THEOREM TypeCorrect == Spec => []TypeOK
  BY InitType, StepType, PTL DEF Spec

-----------------------------------------------------------------------------
\* A connection that is cleaned up leaves a release for each of its ids in the
\* queue, also when a request of a client that was killed is dropped from it:
\* the releases have no client's descriptor.
THEOREM CleanupReleases == Spec => CleanupReleasesIds
<1>1. ASSUME TypeOK, [Next]_vars, NEW c \in Conns, c \in Clients, fd'[c] = 0,
             phase' = "serving", NEW k \in 1..Len(owned[c])
      PROVE  \E j \in 1..Len(queue') : queue'[j].fd = Server /\ queue'[j].msg.id = owned[c][k]
    <2>1. fd[c] # 0 /\ fd \in [Conns -> 0..MaxFd] /\ queue \in Seq(Queued)
        BY <1>1 DEF Clients, TypeOK
    <2>2. fd' # fd
        BY <1>1, <2>1
    <2>3. \E d \in Conns : Accept(d) \/ Disconnect(d)
        BY <1>1, <2>2
           DEF Next, Main, Loop, Environment, Dead, OpenDevice, SendSync, Serve, FirstMessage,
               CtlResponse, CtlIndication, MuxMessage, Killed, EndRound, Restart, Request,
               ModemAnswers, ModemRevokes, ModemSends, ClientConnects, ClientAsks,
               ClientGivesUp, ClientLeaves, vars, mainVars, proxyVars
    <2>4. Disconnect(c)
        <3>1. ASSUME NEW d \in Conns, Accept(d) PROVE FALSE
            BY <1>1, <2>1, <3>1 DEF Accept
        <3>2. ASSUME NEW d \in Conns, Disconnect(d) PROVE d = c
            BY <1>1, <2>1, <3>2 DEF Disconnect
        <3>3. QED
            BY <2>3, <3>1, <3>2
    <2> DEFINE q == queue \o Releases(c)
               n == Len(queue) + k
    <2>5. /\ Releases(c) \in Seq(Queued) /\ Len(Releases(c)) = Len(owned[c])
          /\ Releases(c)[k].fd = Server
          /\ Releases(c)[k].msg = [kind |-> "release", tid |-> ReleaseTid, id |-> owned[c][k],
                                   by |-> None]
          /\ owned[c] \in Seq(Ids)
        BY <1>1, ReleasesProperties DEF TypeOK
    <2>6. /\ q \in Seq(Queued) /\ Len(q) = Len(queue) + Len(owned[c])
          /\ q[n] = Releases(c)[k] /\ n \in 1..Len(q)
        <3>1. /\ q \in Seq(Queued) /\ Len(q) = Len(queue) + Len(Releases(c))
              /\ \A i \in 1..Len(queue) + Len(Releases(c)) :
                    q[i] = IF i <= Len(queue) THEN queue[i] ELSE Releases(c)[i - Len(queue)]
            BY <2>1, <2>5, ConcatProperties
        <3>2. Len(queue) \in Nat /\ Len(owned[c]) \in Nat /\ k \in 1..Len(owned[c])
            BY <1>1, <2>1, <2>5
        <3>3. n \in 1..(Len(queue) + Len(owned[c])) /\ ~(n <= Len(queue)) /\ n - Len(queue) = k
            BY <3>2
        <3> HIDE DEF q, n
        <3>4. QED
            BY <2>5, <3>1, <3>3
    <2>7. q[n].fd = Server /\ q[n].msg.id = owned[c][k]
        BY <2>5, <2>6
    <2>8. queue' = Without(q, fd[c])
        BY <2>4 DEF Disconnect, Without
    <2> HIDE DEF q, n
    <2>9. CASE queue' = q
        BY <2>6, <2>7, <2>9
    <2>10. ASSUME NEW i \in 1..Len(q), q[i].fd = fd[c], queue' = RemoveAt(q, i)
          PROVE  \E j \in 1..Len(queue') : queue'[j].fd = Server /\ queue'[j].msg.id = owned[c][k]
        <3>1. i # n /\ Len(q) \in Nat
            BY <2>1, <2>6, <2>7, <2>10 DEF Server
        <3>2. /\ Len(queue') = Len(q) - 1
              /\ \A j \in 1..(Len(q) - 1) : queue'[j] = IF j < i THEN q[j] ELSE q[j + 1]
            BY <2>6, <2>10, RemoveAtProperties
        <3>3. CASE n < i
            <4>1. n \in 1..Len(queue') /\ queue'[n] = q[n]
                BY <2>6, <3>1, <3>2, <3>3
            <4>2. QED
                BY <2>7, <4>1
        <3>4. CASE i < n
            <4>1. n - 1 \in 1..Len(queue') /\ queue'[n - 1] = q[n]
                BY <2>6, <3>1, <3>2, <3>4
            <4>2. QED
                BY <2>7, <4>1
        <3>5. QED
            BY <2>6, <3>1, <3>3, <3>4
    <2>11. QED
        BY <2>6, <2>8, <2>9, <2>10, WithoutProperties
<1>2. TypeOK /\ [Next]_vars =>
        [\A c \in Conns : c \in Clients /\ fd'[c] = 0 /\ phase' = "serving" =>
           \A k \in 1..Len(owned[c]) :
             \E j \in 1..Len(queue') : queue'[j].fd = Server /\ queue'[j].msg.id = owned[c][k]]_vars
    BY <1>1
<1>3. QED
    BY <1>2, TypeCorrect, PTL DEF Spec, CleanupReleasesIds

-----------------------------------------------------------------------------
\* What the steps of the proxy and of the modem do while no fault occurs.
LEMMA NothingLost ==
    ASSUME Faults = {}, NEW m, ToModem(m)
    PROVE  pend' = Append(pend, m)
  BY DEF ToModem

LEMMA HeadIsFirst ==
    ASSUME TypeOK
    PROVE  /\ queue # <<>> => /\ Head(queue) = queue[1] /\ Len(queue) \in Nat \ {0}
                              /\ Head(queue) \in Queued /\ Head(queue).msg \in Message
           /\ rx # <<>> => Head(rx) = rx[1] /\ Len(rx) \in Nat \ {0} /\ Head(rx) \in Message
           /\ Len(queue) \in Nat /\ Len(rx) \in Nat
           /\ \A k \in 1..Len(queue) : queue[k] \in Queued /\ queue[k].msg \in Message
           /\ \A k \in 1..Len(rx) : rx[k] \in Message
<1>1. queue \in Seq(Queued) /\ rx \in Seq(Message)
    BY DEF TypeOK
<1>2. \A q \in Queued : q.msg \in Message
    BY DEF Queued
<1>3. queue # <<>> => /\ Head(queue) = queue[1] /\ Len(queue) \in Nat \ {0}
                      /\ Head(queue) \in Queued
    BY <1>1
<1>4. rx # <<>> => Head(rx) = rx[1] /\ Len(rx) \in Nat \ {0} /\ Head(rx) \in Message
    BY <1>1
<1>5. /\ Len(queue) \in Nat /\ Len(rx) \in Nat
      /\ \A k \in 1..Len(queue) : queue[k] \in Queued
      /\ \A k \in 1..Len(rx) : rx[k] \in Message
    BY <1>1
<1>6. QED
    BY <1>2, <1>3, <1>4, <1>5

\* A connection has no request in the queue unless its client waits for it.
LEMMA RequestsAwaited ==
    ASSUME TypeOK, QueueInv, NEW c \in Clients, NEW k \in 1..Len(queue), queue[k].fd = fd[c]
    PROVE  /\ OfClient(queue[k]) /\ queue[k].msg.by = c
           /\ want[c] = queue[k].msg /\ want[c] # NoAsk /\ up[c] = NoAsk
<1>1. c \in Conns /\ fd[c] # Server
    BY DEF Clients, Server
<1>2. OfClient(queue[k])
    BY <1>1 DEF QueueInv, OfServer
<1>3. queue[k].msg.by \in Clients /\ fd[queue[k].msg.by] = fd[c]
    BY <1>2 DEF OfClient, Clients, Server
<1>4. queue[k].msg.by = c
    BY <1>3 DEF TypeOK
<1>5. want[c] = queue[k].msg /\ up[c] = NoAsk
    BY <1>2, <1>4 DEF OfClient
<1>6. want[c] # NoAsk
    BY <1>1, <1>4, <1>5, ConstantsAssumption DEF NoAsk
<1>7. QED
    BY <1>2, <1>4, <1>5, <1>6

\* Nothing is dropped by cleanup_qmi_connection but its releases are added.
LEMMA DisconnectStep ==
    ASSUME Faults = {}, TypeOK, AskInv, QueueInv, NEW c \in Conns, Disconnect(c)
    PROVE  /\ Len(queue') = Len(queue) + Len(owned[c])
           /\ \A k \in 1..Len(queue) : queue'[k] = queue[k] /\ queue[k].fd # fd[c]
           /\ \A k \in 1..Len(owned[c]) :
                queue'[Len(queue) + k] =
                  [fd |-> Server, msg |-> [kind |-> "release", tid |-> ReleaseTid,
                                           id |-> owned[c][k], by |-> None]]
           /\ queue # <<>> => pend' = pend /\ queue' # <<>> /\ Head(queue') = Head(queue)
           /\ queue = <<>> /\ queue' # <<>> => pend' = Append(pend, Head(queue').msg)
           /\ queue' = <<>> => pend' = pend
           /\ Clients' = Clients \ {c} /\ c \in Clients
           /\ \A d \in Conns \ {c} : owned'[d] = owned[d] /\ fd'[d] = fd[d]
           /\ owned'[c] = <<>> /\ fd'[c] = 0
<1> DEFINE R == Releases(c)
           q == queue \o R
<1>1. /\ R \in Seq(Queued) /\ Len(R) = Len(owned[c])
      /\ \A k \in 1..Len(owned[c]) : R[k].fd = Server
      /\ queue \in Seq(Queued) /\ owned[c] \in Seq(Ids)
    BY ReleasesProperties DEF TypeOK
<1>2. /\ \A k \in 1..Len(owned[c]) :
           R[k] = [fd |-> Server, msg |-> [kind |-> "release", tid |-> ReleaseTid,
                                           id |-> owned[c][k], by |-> None]]
    BY DEF Releases
<1>3. c \in Clients /\ peer[c] = "left" /\ want[c] = NoAsk
    <2>1. c \in Clients /\ peer[c] = "left"
        BY DEF Disconnect, Hup
    <2>2. QED
        BY <2>1 DEF AskInv
<1>4. \A k \in 1..Len(queue) : queue[k].fd # fd[c]
    BY <1>3, RequestsAwaited
<1>5. fd[c] # Server
    BY <1>3 DEF Clients, Server
<1>6. /\ q \in Seq(Queued) /\ Len(q) = Len(queue) + Len(owned[c])
      /\ \A k \in 1..(Len(queue) + Len(owned[c])) :
           q[k] = IF k <= Len(queue) THEN queue[k] ELSE R[k - Len(queue)]
    <2>1. /\ q \in Seq(Queued) /\ Len(q) = Len(queue) + Len(R)
          /\ \A k \in 1..(Len(queue) + Len(R)) :
               q[k] = IF k <= Len(queue) THEN queue[k] ELSE R[k - Len(queue)]
        <3> HIDE DEF R
        <3>1. QED
            BY <1>1, ConcatProperties
    <2> HIDE DEF q, R
    <2>2. QED
        BY <1>1, <2>1
<1>7. \A k \in 1..Len(owned[c]) : q[Len(queue) + k] = R[k]
    <2> SUFFICES ASSUME NEW k \in 1..Len(owned[c]) PROVE q[Len(queue) + k] = R[k]
        OBVIOUS
    <2> HIDE DEF q, R
    <2>1. Len(queue) \in Nat /\ Len(owned[c]) \in Nat
        BY <1>1
    <2>2. /\ Len(queue) + k \in 1..(Len(queue) + Len(owned[c])) /\ ~(Len(queue) + k <= Len(queue))
          /\ (Len(queue) + k) - Len(queue) = k
        BY <2>1
    <2>3. QED
        BY <1>6, <2>2
<1>8. \A k \in 1..Len(queue) : q[k] = queue[k]
    <2> HIDE DEF q, R
    <2>1. QED
        BY <1>1, <1>6
<1>9. queue' = q
    <2>1. \A k \in 1..Len(q) : q[k].fd # fd[c]
        <3> SUFFICES ASSUME NEW k \in 1..Len(q) PROVE q[k].fd # fd[c]
            OBVIOUS
        <3> HIDE DEF q, R
        <3>1. Len(queue) \in Nat /\ Len(owned[c]) \in Nat
            BY <1>1
        <3>2. CASE k <= Len(queue)
            BY <1>4, <1>6, <3>1, <3>2
        <3>3. CASE ~(k <= Len(queue))
            <4>1. q[k] = R[k - Len(queue)] /\ k - Len(queue) \in 1..Len(owned[c])
                BY <1>6, <3>1, <3>3
            <4>2. QED
                BY <1>1, <1>5, <4>1
        <3>4. QED
            BY <3>2, <3>3
    <2>2. queue' = Without(q, fd[c])
        BY DEF Disconnect, Without
    <2> HIDE DEF q
    <2>3. QED
        BY <1>6, <2>1, <2>2, WithoutProperties
<1> HIDE DEF q
<1>10. queue # <<>> => queue' # <<>> /\ Head(queue') = Head(queue)
    BY <1>1, <1>6, <1>8, <1>9
<1>11. queue # <<>> => pend' = pend
    BY DEF Disconnect, SentIfFirst
<1>12. queue = <<>> => queue' = R
    BY <1>1, <1>9, ConcatEmptySeq DEF q
<1>13. queue = <<>> /\ queue' # <<>> => pend' = Append(pend, Head(queue').msg)
    <2> SUFFICES ASSUME queue = <<>>, queue' # <<>> PROVE pend' = Append(pend, Head(queue').msg)
        OBVIOUS
    <2>1. R # <<>> /\ Head(queue') = R[1]
        BY <1>1, <1>12
    <2>2. ToModem(R[1].msg)
        BY <2>1 DEF Disconnect, SentIfFirst
    <2>3. QED
        BY <2>1, <2>2, NothingLost
<1>14. queue' = <<>> => pend' = pend
    BY <1>10, <1>12 DEF Disconnect, SentIfFirst
<1>15. /\ fd' = [fd EXCEPT ![c] = 0] /\ owned' = [owned EXCEPT ![c] = <<>>]
    BY DEF Disconnect
<1>16. /\ \A d \in Conns \ {c} : owned'[d] = owned[d] /\ fd'[d] = fd[d]
       /\ owned'[c] = <<>> /\ fd'[c] = 0
    BY <1>15 DEF TypeOK
<1>17. Clients' = Clients \ {c}
    BY <1>16 DEF Clients
<1>18. QED
    BY <1>2, <1>3, <1>4, <1>6, <1>7, <1>8, <1>9, <1>10, <1>11, <1>13, <1>14, <1>16, <1>17

LEMMA RequestStep ==
    ASSUME Faults = {}, TypeOK, AskInv, QueueInv, NEW c \in Conns, Request(c)
    PROVE  /\ Len(queue') = Len(queue) + 1 /\ queue' # <<>>
           /\ \A k \in 1..Len(queue) : queue'[k] = queue[k] /\ queue[k].fd # fd[c]
           /\ queue'[Len(queue) + 1] = [fd |-> fd[c], msg |-> up[c]]
           /\ queue # <<>> => pend' = pend /\ Head(queue') = Head(queue)
           /\ queue = <<>> => pend' = Append(pend, Head(queue').msg)
           /\ c \in Clients /\ up[c] # NoAsk /\ want[c] = up[c] /\ up[c].by = c
<1> DEFINE e == [fd |-> fd[c], msg |-> up[c]]
<1>1. c \in Clients /\ up[c] # NoAsk /\ want[c] = up[c] /\ up[c].by = c
    BY DEF Request, AskInv
<1>2. e \in Queued /\ queue \in Seq(Queued) /\ e.msg = up[c]
    BY DEF TypeOK, Queued
<1>3. queue' = Append(queue, e)
    BY DEF Request
<1> HIDE DEF e
<1>4. /\ Len(queue') = Len(queue) + 1 /\ queue' # <<>>
      /\ \A k \in 1..Len(queue) : queue'[k] = queue[k]
      /\ queue'[Len(queue) + 1] = e
      /\ Head(queue') = IF queue = <<>> THEN e ELSE Head(queue)
    BY <1>2, <1>3, AppendProperties, HeadTailAppend
<1>5. \A k \in 1..Len(queue) : queue[k].fd # fd[c]
    BY <1>1, RequestsAwaited
<1>6. queue = <<>> => pend' = Append(pend, Head(queue').msg)
    <2>1. queue = <<>> => ToModem(e.msg)
        BY <1>2 DEF Request, SentIfFirst
    <2>2. QED
        BY <1>4, <2>1, NothingLost
<1>7. queue # <<>> => pend' = pend
    BY DEF Request, SentIfFirst
<1>8. QED
    BY <1>1, <1>4, <1>5, <1>6, <1>7 DEF e

\* The response that is read answers the head of the queue: one of a client,
\* which is given it, or one of the proxy itself.
LEMMA ResponseStep ==
    ASSUME Faults = {}, TypeOK, AskInv, QueueInv, CtlResponse, phase' = "serving"
    PROVE  /\ queue # <<>> /\ pend = <<>> /\ rx # <<>> /\ rx' = Tail(rx)
           /\ AnswerTo(Head(rx), Head(queue).msg) /\ NoCtl(rx')
           /\ queue' = Tail(queue)
           /\ queue' = <<>> => pend' = <<>>
           /\ queue' # <<>> => pend' = <<Head(queue').msg>>
           /\ UNCHANGED <<phase, fd, backlog, granted, up, peer>>
           /\ \/ OfServer(Head(queue)) /\ UNCHANGED <<owned, want, mine, got>>
              \/ LET c == Head(queue).msg.by
                 IN  /\ c \in Clients /\ OfClient(Head(queue)) /\ want[c] = Head(queue).msg
                     /\ want' = [want EXCEPT ![c] = NoAsk]
                     /\ mine' = [mine EXCEPT ![c] = Held(c, Head(rx))]
                     /\ owned' = [owned EXCEPT ![c] = Recorded(c, Head(rx))]
                     /\ got' = [got EXCEPT ![c] = @ \union {Head(rx).by}]
<1> DEFINE m == Head(rx)
<1>1. rx # <<>> /\ m.kind \in CtlKinds \union {"sync"} /\ rx' = Tail(rx)
    BY DEF CtlResponse
<1>2. m.kind # "mux" /\ m = rx[1] /\ 1 \in 1..Len(rx) /\ rx \in Seq(Message)
    BY <1>1, HeadIsFirst DEF CtlKinds, TypeOK
<1>3. queue # <<>> /\ Answered
    BY <1>2 DEF QueueInv, Sent, NoCtl
<1>4. AnswerTo(m, Head(queue).msg) /\ \A j \in 1..Len(rx) : j # 1 => rx[j].kind = "mux"
    BY <1>2, <1>3 DEF Answered
<1>5. NoCtl(rx') /\ pend = <<>>
    <2>1. /\ Len(rx') = Len(rx) - 1 /\ Len(rx) \in Nat
          /\ \A k \in 1..Len(rx') : rx'[k] = rx[k + 1]
        BY <1>1, <1>2, HeadTailProperties
    <2>2. QED
        BY <1>3, <1>4, <2>1 DEF NoCtl, Answered
<1>6. Matches(Head(queue), m)
    BY <1>4 DEF Matches, AnswerTo
<1>7. Head(queue) = queue[1] /\ 1 \in 1..Len(queue)
    BY <1>3, HeadIsFirst
<1>8. ~Killed
    BY DEF Killed
<1>9. /\ queue' = Tail(queue) /\ SendNext(queue')
      /\ UNCHANGED <<phase, fd, backlog, granted, up, peer>>
    BY <1>3, <1>6, <1>8 DEF CtlResponse, mainVars, clientVars
<1>10. /\ queue' = <<>> => pend' = <<>>
       /\ queue' # <<>> => pend' = <<Head(queue').msg>>
    <2>1. queue' # <<>> => ToModem(Head(queue').msg)
        BY <1>9 DEF SendNext
    <2>2. queue' # <<>> => pend' = Append(pend, Head(queue').msg)
        BY <2>1, NothingLost
    <2>3. QED
        BY <1>5, <1>9, <2>2 DEF SendNext
<1>11. CASE \E c \in Clients : fd[c] = Head(queue).fd
    <2>1. PICK c \in Clients : /\ fd[c] = Head(queue).fd /\ Give(c, m)
                               /\ owned' = [owned EXCEPT ![c] = Recorded(c, m)]
        BY <1>3, <1>6, <1>8, <1>11 DEF CtlResponse
    <2>2. /\ OfClient(Head(queue)) /\ Head(queue).msg.by = c /\ want[c] = Head(queue).msg
          /\ want[c] # NoAsk
        BY <1>7, <2>1, RequestsAwaited
    <2>3. Answers(c, m)
        BY <1>4, <2>2 DEF Answers, AnswerTo
    <2>4. QED
        BY <1>1, <1>3, <1>4, <1>5, <1>9, <1>10, <2>1, <2>2, <2>3 DEF Give
<1>12. CASE ~ \E c \in Clients : fd[c] = Head(queue).fd
    <2>1. OfServer(Head(queue))
        BY <1>7, <1>12 DEF QueueInv, OfClient, Clients, Server
    <2>2. UNCHANGED <<owned, want, mine, got>>
        BY <1>3, <1>12 DEF CtlResponse, clientVars
    <2>3. QED
        BY <1>1, <1>3, <1>4, <1>5, <1>9, <1>10, <2>1, <2>2
<1>13. QED
    BY <1>11, <1>12

\* What is in the queue is a CTL request.
LEMMA QueueKinds ==
    ASSUME TypeOK, AskInv, QueueInv, NEW k \in 1..Len(queue)
    PROVE  /\ queue[k].msg.kind \in CtlKinds
           /\ OfClient(queue[k]) =>
                LET m == queue[k].msg
                IN  /\ m.by \in Clients /\ m.by # None /\ want[m.by] # NoAsk
                    /\ peer[m.by] = "linked"
                    /\ IF m.kind = "release" THEN m.id \in mine[m.by] ELSE m.id = NoId
<1> DEFINE h == queue[k].msg
<1>1. OfClient(queue[k]) =>
        /\ h.by \in Clients /\ h.by # None /\ h.kind \in CtlKinds /\ want[h.by] # NoAsk
        /\ peer[h.by] = "linked"
        /\ IF h.kind = "release" THEN h.id \in mine[h.by] ELSE h.id = NoId
    <2> SUFFICES ASSUME OfClient(queue[k])
                 PROVE  /\ h.by \in Clients /\ h.by # None /\ h.kind \in CtlKinds
                        /\ want[h.by] # NoAsk /\ peer[h.by] = "linked"
                        /\ IF h.kind = "release" THEN h.id \in mine[h.by] ELSE h.id = NoId
        OBVIOUS
    <2>1. h.by \in Conns /\ fd[h.by] # 0 /\ want[h.by] = h
        BY DEF OfClient, Server
    <2>2. h.by # None /\ h # NoAsk
        BY <2>1, ConstantsAssumption DEF NoAsk
    <2>3. QED
        BY <2>1, <2>2 DEF AskInv, Clients
<1>2. OfServer(queue[k]) => h.kind \in CtlKinds
    BY DEF OfServer, CtlKinds
<1>3. QED
    BY <1>1, <1>2 DEF QueueInv

\* What the modem does for its answer r.
Done(r) ==
  \/ /\ r.kind = "get" /\ r.id # NoId /\ granted[r.id] = None
     /\ granted' = [granted EXCEPT ![r.id] = r.by]
  \/ /\ r.kind = "release" /\ r.id \in Ids
     /\ granted' = [granted EXCEPT ![r.id] = None]
     /\ OfServer(Head(queue)) \/ (r.by \in Clients /\ Contains(owned[r.by], r.id))
  \/ r.kind = "version" /\ granted' = granted
  \/ r.kind = "get" /\ r.id = NoId /\ granted' = granted

\* The modem answers the head of the queue.  What is to be released is granted:
\* to the client that releases it, or to one that has gone.
LEMMA AnswerStep ==
    ASSUME Faults = {}, TypeOK, AskInv, QueueInv, OwnedInv, ReleaseInv, ModemAnswers
    PROVE  /\ queue # <<>> /\ pend = <<Head(queue).msg>> /\ pend' = <<>> /\ NoCtl(rx)
           /\ \A c \in Clients : \A x \in Ids : Contains(owned[c], x) => granted[x] = c
           /\ \A k \in 1..Len(queue) : queue[k].fd = Server => granted[queue[k].msg.id] # None
           /\ UNCHANGED <<phase, fd, backlog, owned, queue, peer, want, up, mine, got>>
           /\ \E r \in Message : rx' = Append(rx, r) /\ AnswerTo(r, Head(queue).msg) /\ Done(r)
<1> DEFINE h == Head(queue).msg
<1>1. pend # <<>> /\ pend' = Tail(pend)
    BY DEF ModemAnswers
<1>2. queue # <<>> /\ pend = <<h>> /\ NoCtl(rx)
    BY <1>1 DEF QueueInv, Sent, Answered
<1>3. Head(pend) = h /\ pend' = <<>> /\ h \in Message /\ Head(queue) = queue[1] /\ 1 \in 1..Len(queue)
    BY <1>1, <1>2, HeadIsFirst
<1>4. \A c \in Clients : \A x \in Ids : Contains(owned[c], x) => granted[x] = c
    BY <1>1 DEF OwnedInv, GivenBack
<1>5. \A k \in 1..Len(queue) : queue[k].fd = Server => granted[queue[k].msg.id] # None
    BY <1>1 DEF ReleaseInv
<1>6. UNCHANGED <<phase, fd, backlog, owned, queue, peer, want, up, mine, got>>
    BY DEF ModemAnswers, mainVars, proxyVars, clientVars
<1>7. OfServer(Head(queue)) \/ OfClient(Head(queue))
    BY <1>3 DEF QueueInv
<1>8. OfClient(Head(queue)) =>
        /\ h.by \in Clients /\ h.by # None /\ h.kind \in CtlKinds
        /\ IF h.kind = "release" THEN h.id \in mine[h.by] ELSE h.id = NoId
    BY <1>3, QueueKinds
<1>9. ASSUME h.kind = "release"
      PROVE  \E r \in Message : rx' = Append(rx, r) /\ AnswerTo(r, h) /\ Done(r)
    <2>1. OfClient(Head(queue)) => Contains(owned[h.by], h.id) /\ h.by \in Clients
        BY <1>8, <1>9 DEF OwnedInv
    <2>2. h.id \in Ids /\ granted[h.id] # None
        <3>1. CASE OfServer(Head(queue))
            BY <1>3, <1>5, <3>1 DEF OfServer
        <3>2. CASE OfClient(Head(queue))
            <4>1. h.by \in Clients /\ h.id \in mine[h.by] /\ h.id \in Ids
                BY <1>8, <1>9, <3>2 DEF TypeOK, Clients
            <4>2. granted[h.id] = h.by
                BY <1>4, <2>1, <3>2, <4>1
            <4>3. QED
                BY <1>8, <3>2, <4>1, <4>2
        <3>3. QED
            BY <1>7, <3>1, <3>2
    <2>3. rx' = Append(rx, h) /\ granted' = [granted EXCEPT ![h.id] = None]
        BY <1>3, <1>9, <2>2 DEF ModemAnswers
    <2>4. AnswerTo(h, h) /\ Done(h)
        BY <1>7, <1>9, <2>1, <2>2, <2>3 DEF AnswerTo, Done
    <2>5. QED
        BY <1>3, <2>3, <2>4
<1>10. ASSUME h.kind = "get"
      PROVE  \E r \in Message : rx' = Append(rx, r) /\ AnswerTo(r, h) /\ Done(r)
    <2>1. h.id = NoId
        BY <1>7, <1>8, <1>10 DEF OfServer
    <2>2. \/ \E x \in Ids : /\ granted[x] = None /\ granted' = [granted EXCEPT ![x] = h.by]
                            /\ rx' = Append(rx, [h EXCEPT !.id = x])
          \/ rx' = Append(rx, h) /\ granted' = granted
        BY <1>3, <1>10 DEF ModemAnswers
    <2>3. CASE rx' = Append(rx, h) /\ granted' = granted
        <3>1. AnswerTo(h, h) /\ Done(h)
            BY <1>10, <2>1, <2>3 DEF AnswerTo, Done
        <3>2. QED
            BY <1>3, <2>3, <3>1
    <2>4. ASSUME NEW x \in Ids, granted[x] = None, granted' = [granted EXCEPT ![x] = h.by],
                 rx' = Append(rx, [h EXCEPT !.id = x])
          PROVE  \E r \in Message : rx' = Append(rx, r) /\ AnswerTo(r, h) /\ Done(r)
        <3> DEFINE r == [h EXCEPT !.id = x]
        <3>1. /\ r \in Message /\ r.kind = "get" /\ r.tid = h.tid /\ r.by = h.by /\ r.id = x
              /\ x # NoId
            BY <1>3, <1>10, ConstantsAssumption DEF Message, NoId
        <3> HIDE DEF r
        <3>2. AnswerTo(r, h) /\ Done(r)
            BY <1>10, <2>4, <3>1 DEF AnswerTo, Done
        <3>3. rx' = Append(rx, r)
            BY <2>4 DEF r
        <3>4. QED
            BY <3>1, <3>2, <3>3
    <2>5. QED
        BY <2>2, <2>3, <2>4
<1>11. ASSUME h.kind = "version"
      PROVE  \E r \in Message : rx' = Append(rx, r) /\ AnswerTo(r, h) /\ Done(r)
    <2>1. rx' = Append(rx, h) /\ granted' = granted
        BY <1>3, <1>11 DEF ModemAnswers
    <2>2. AnswerTo(h, h) /\ Done(h)
        BY <1>11, <2>1 DEF AnswerTo, Done
    <2>3. QED
        BY <1>3, <2>1, <2>2
<1>12. \E r \in Message : rx' = Append(rx, r) /\ AnswerTo(r, h) /\ Done(r)
    BY <1>7, <1>8, <1>9, <1>10, <1>11 DEF OfServer, CtlKinds
<1>13. QED
    BY <1>2, <1>3, <1>4, <1>5, <1>6, <1>12

-----------------------------------------------------------------------------
\* The parts of the invariant, one after the other.
LEMMA InitIInv == Faults = {} /\ Init => IInv
<1> SUFFICES ASSUME Init PROVE IInv
    OBVIOUS
<1>1. /\ \A c \in Conns : /\ want[c] = NoAsk /\ up[c] = NoAsk /\ mine[c] = {} /\ fd[c] = 0
                          /\ owned[c] = <<>> /\ got[c] = {}
      /\ Clients = {} /\ backlog = {} /\ phase = "shut" /\ pend = <<>> /\ rx = <<>>
    BY DEF Init, Clients
<1>2. AskInv
    BY <1>1 DEF AskInv
<1>3. SyncInv /\ AnswersKeptApart
    BY <1>1 DEF SyncInv, AnswersKeptApart
<1>4. QED
    BY <1>1, <1>2, <1>3 DEF IInv

\* What can happen without faults.  A revoke is not seen.
LEMMA Steps ==
    ASSUME Faults = {}, [Next]_vars
    PROVE  \/ OpenDevice \/ SendSync \/ Serve \/ FirstMessage
           \/ CtlResponse \/ MuxMessage \/ Restart \/ ModemAnswers
           \/ phase = "serving" /\ rx # <<>> /\ Head(rx).kind = "revoke"
           \/ \E x \in Ids \union {NoId} : ModemSends(x)
           \/ \E c \in Conns : \/ Accept(c) \/ Disconnect(c) \/ Request(c)
                               \/ ClientConnects(c) \/ ClientAsks(c) \/ ClientLeaves(c)
           \/ UNCHANGED vars
  BY DEF Next, Main, Loop, Environment, Dead, CtlIndication, ModemRevokes, ClientGivesUp

LEMMA AskStep ==
    ASSUME Faults = {}, TypeOK, AskInv, phase = "serving" => QueueInv, [Next]_vars
    PROVE  AskInv'
<1> USE DEF TypeOK
<1>1. CASE UNCHANGED <<want, up, mine, peer, fd, backlog, owned>>
    BY <1>1 DEF AskInv
<1>2. ASSUME /\ fd' = [c \in Conns |-> 0] /\ backlog' = {} /\ owned' = [c \in Conns |-> <<>>]
             /\ UNCHANGED <<want, up, mine, peer>>
      PROVE  AskInv'
    BY <1>2 DEF AskInv
<1>3. ASSUME NEW c \in Conns, Accept(c) PROVE AskInv'
    <2>1. /\ UNCHANGED <<want, up, mine, peer, owned>> /\ backlog' = backlog \ {c} /\ c \in backlog
          /\ \A d \in Conns \ {c} : fd'[d] = fd[d]
          /\ fd'[c] \in 1..MaxFd
        BY <1>3 DEF Accept, mainVars, clientVars
    <2>2. QED
        BY <2>1 DEF AskInv
<1>4. ASSUME NEW c \in Conns, Disconnect(c) PROVE AskInv'
    <2>1. /\ UNCHANGED <<want, up, mine, peer, backlog>> /\ peer[c] = "left"
          /\ \A d \in Conns \ {c} : fd'[d] = fd[d] /\ owned'[d] = owned[d]
          /\ fd'[c] = 0 /\ owned'[c] = <<>>
        BY <1>4 DEF Disconnect, mainVars, clientVars, Hup
    <2>2. QED
        BY <2>1 DEF AskInv
<1>5. ASSUME NEW c \in Conns, Request(c) PROVE AskInv'
    BY <1>5 DEF AskInv, Request, mainVars
<1>6. CASE CtlResponse /\ phase' = "serving"
    <2> DEFINE c == Head(queue).msg.by
    <2>1. /\ UNCHANGED <<fd, backlog, peer, up>>
          /\ \/ UNCHANGED <<owned, want, mine>>
             \/ /\ c \in Clients /\ OfClient(Head(queue)) /\ want[c] = Head(queue).msg
                /\ want' = [want EXCEPT ![c] = NoAsk]
                /\ mine' = [mine EXCEPT ![c] = Held(c, Head(rx))]
                /\ owned' = [owned EXCEPT ![c] = Recorded(c, Head(rx))]
        BY <1>6, ResponseStep DEF CtlResponse
    <2>2. ASSUME c \in Clients, OfClient(Head(queue)), want[c] = Head(queue).msg,
                 want' = [want EXCEPT ![c] = NoAsk],
                 mine' = [mine EXCEPT ![c] = Held(c, Head(rx))],
                 owned' = [owned EXCEPT ![c] = Recorded(c, Head(rx))]
          PROVE  AskInv'
        <3>1. c \in Conns /\ fd[c] # 0 /\ c \notin backlog /\ peer[c] # "new" /\ up[c] = NoAsk
            BY <2>2 DEF AskInv, Clients, OfClient
        <3> HIDE DEF c
        <3>2. \A d \in Conns \ {c} : want'[d] = want[d] /\ mine'[d] = mine[d] /\ owned'[d] = owned[d]
            BY <2>2
        <3>3. want'[c] = NoAsk
            BY <2>2, <3>1
        <3>4. QED
            BY <2>1, <3>1, <3>2, <3>3 DEF AskInv
    <2>3. QED
        BY <1>1, <2>1, <2>2
<1>7. CASE CtlResponse
    BY <1>1, <1>2, <1>6, <1>7 DEF CtlResponse, Killed, proxyVars, clientVars, mainVars
<1>8. CASE MuxMessage \/ Restart \/ CtlIndication
    BY <1>1, <1>2, <1>8 DEF MuxMessage, Killed, Restart, CtlIndication, EndRound, proxyVars, clientVars
<1>9. ASSUME NEW c \in Conns, ClientConnects(c) PROVE AskInv'
    BY <1>9 DEF AskInv, ClientConnects, mainVars
<1>10. ASSUME NEW c \in Conns, ClientAsks(c) PROVE AskInv'
    <2>1. PICK k \in CtlKinds, x \in Ids \union {NoId} :
            /\ x \in IF k = "release" THEN mine[c] ELSE {NoId}
            /\ want' = [want EXCEPT ![c] = [kind |-> k, tid |-> tids'[c], id |-> x, by |-> c]]
        BY <1>10 DEF ClientAsks
    <2>2. /\ peer[c] = "linked" /\ up'[c] = want'[c]
          /\ UNCHANGED <<peer, mine, fd, backlog, owned>>
          /\ \A d \in Conns \ {c} : want'[d] = want[d] /\ up'[d] = up[d]
        BY <1>10, <2>1 DEF ClientAsks, mainVars, proxyVars
    <2>3. /\ want'[c].by = c /\ want'[c].kind \in CtlKinds
          /\ IF want'[c].kind = "release" THEN want'[c].id \in mine'[c] ELSE want'[c].id = NoId
        BY <2>1, <2>2
    <2>4. SUFFICES ASSUME NEW d \in Conns
                   PROVE  /\ want'[d] # NoAsk =>
                               /\ peer'[d] = "linked" /\ want'[d].by = d /\ want'[d].kind \in CtlKinds
                               /\ IF want'[d].kind = "release" THEN want'[d].id \in mine'[d]
                                                              ELSE want'[d].id = NoId
                          /\ up'[d] # NoAsk => want'[d] = up'[d]
        BY <2>2 DEF AskInv
    <2>5. CASE d = c
        BY <2>2, <2>3, <2>5
    <2>6. CASE d # c
        BY <2>2, <2>6 DEF AskInv
    <2>7. QED
        BY <2>5, <2>6
<1>11. ASSUME NEW c \in Conns, ClientLeaves(c) PROVE AskInv'
    BY <1>11 DEF AskInv, ClientLeaves, mainVars, proxyVars
<1>12. CASE \/ OpenDevice \/ SendSync \/ Serve \/ FirstMessage \/ ModemAnswers \/ ModemRevokes
            \/ (\E x \in Ids \union {NoId} : ModemSends(x)) \/ UNCHANGED vars
    BY <1>1, <1>12 DEF OpenDevice, SendSync, Serve, FirstMessage, ModemAnswers, ModemRevokes,
                      ModemSends, vars, mainVars, proxyVars, clientVars
<1>13. ~ \E c \in Conns : ClientGivesUp(c)
    BY DEF ClientGivesUp
<1>14. QED
    BY <1>3, <1>4, <1>5, <1>7, <1>8, <1>9, <1>10, <1>11, <1>12, <1>13
       DEF Next, Main, Loop, Environment, Dead

LEMMA SyncStep ==
    ASSUME Faults = {}, TypeOK, SyncInv, [Next]_vars
    PROVE  SyncInv'
<1>1. CASE phase = "serving" /\ phase' = "serving"
    BY <1>1 DEF SyncInv
<1>2. ASSUME fd' = [c \in Conns |-> 0], backlog' = {}, phase' \in {"shut", "dead"},
             phase' = "shut" => pend' = <<>> /\ rx' = <<>>
      PROVE  SyncInv'
    BY <1>2 DEF SyncInv, Clients
<1>3. CASE OpenDevice
    <2>1. Clients' = {} /\ backlog' = {} /\ pend' = <<>> /\ rx' = <<>> /\ queue' = <<>> /\ ~synced'
          /\ phase' = "syncing"
        BY <1>3 DEF OpenDevice, SyncInv, Clients
    <2>2. QED
        BY <2>1 DEF SyncInv
<1>4. CASE SendSync
    <2> DEFINE s == [kind |-> "sync", tid |-> syncs + 1, id |-> NoId, by |-> None]
    <2>1. pend = <<>> /\ rx = <<>> /\ ~synced /\ phase = "syncing" /\ syncs' = syncs + 1
          /\ UNCHANGED <<phase, synced, fd, backlog, queue, granted, rx>> /\ pend' = Append(pend, s)
        BY <1>4, NothingLost DEF SendSync, SyncInv, proxyVars
    <2>2. pend' = <<s>> /\ Len(pend') = 1 /\ pend'[1].kind = "sync" /\ syncs' # 0
        BY <2>1 DEF TypeOK
    <2>3. Clients' = Clients
        BY <2>1 DEF Clients
    <2>4. QED
        BY <2>1, <2>2, <2>3 DEF SyncInv
<1>5. CASE FirstMessage
    <2>1. /\ phase = "syncing" /\ rx # <<>> /\ rx' = Tail(rx)
          /\ UNCHANGED <<phase, syncs, fd, backlog, queue, pend, granted>>
        BY <1>5 DEF FirstMessage, proxyVars
    <2>2. pend = <<>> /\ Len(rx) = 1 /\ \A x \in Ids : granted[x] = None
        BY <2>1 DEF SyncInv
    <2>3. rx' = <<>>
        <3>1. rx \in Seq(Message)
            BY DEF TypeOK
        <3>2. Tail(rx) \in Seq(Message) /\ Len(Tail(rx)) = 0
            BY <2>1, <2>2, <3>1, HeadTailProperties
        <3>3. QED
            BY <2>1, <3>2, EmptySeq
    <2>4. Clients' = Clients
        BY <2>1 DEF Clients
    <2>5. QED
        BY <2>1, <2>2, <2>3, <2>4 DEF SyncInv
<1>6. CASE ModemAnswers /\ phase = "syncing"
    <2>1. rx = <<>> /\ Len(pend) = 1 /\ pend[1].kind = "sync" /\ ~synced /\ pend # <<>> /\ syncs # 0
        BY <1>6 DEF ModemAnswers, SyncInv
    <2>2. Head(pend) = pend[1] /\ Tail(pend) = <<>>
        <3>1. pend \in Seq(Message)
            BY DEF TypeOK
        <3>2. Tail(pend) \in Seq(Message) /\ Len(Tail(pend)) = 0
            BY <2>1, <3>1, HeadTailProperties
        <3>3. Tail(pend) = <<>>
            BY <3>2, EmptySeq
        <3>4. Head(pend) = pend[1]
            BY <2>1, <3>1
        <3>5. QED
            BY <3>3, <3>4
    <2>3. /\ rx' = Append(rx, Head(pend)) /\ granted' = [x \in Ids |-> None] /\ pend' = <<>>
          /\ UNCHANGED <<phase, syncs, synced, fd, backlog, queue>>
        BY <1>6, <2>1, <2>2 DEF ModemAnswers, mainVars, proxyVars
    <2>4. Len(rx') = 1 /\ rx'[1].kind = "sync"
        BY <2>1, <2>2, <2>3
    <2>5. Clients' = Clients
        BY <2>3 DEF Clients
    <2>6. QED
        BY <1>6, <2>1, <2>3, <2>4, <2>5 DEF SyncInv
<1>7. CASE ModemAnswers /\ phase # "syncing"
    <2>1. phase # "shut" /\ UNCHANGED <<phase, fd, backlog>>
        BY <1>7 DEF ModemAnswers, SyncInv, mainVars, proxyVars
    <2>2. QED
        BY <1>7, <2>1 DEF SyncInv, Clients
<1>8. CASE Serve
    BY <1>8 DEF Serve, SyncInv
<1>9. CASE Restart
    BY <1>2, <1>9 DEF Restart, EndRound
<1>10. CASE CtlResponse \/ MuxMessage
    BY <1>1, <1>2, <1>10 DEF CtlResponse, MuxMessage, Killed, mainVars
<1>11. CASE CtlIndication
    BY <1>1, <1>11 DEF CtlIndication, mainVars, SeesRevoke, QMIType, QMICTL_CTL_FLAG_IND, QMUX_TYPE_CTL
<1>12. ASSUME NEW x \in Ids \union {NoId}, ModemSends(x) PROVE SyncInv'
    BY <1>1, <1>12 DEF ModemSends, mainVars
<1>13. ASSUME NEW c \in Conns, Accept(c) \/ Disconnect(c) \/ Request(c) \/ ClientConnects(c)
       PROVE  SyncInv'
    BY <1>1, <1>13 DEF Accept, Disconnect, Request, ClientConnects, mainVars
<1>14. ASSUME NEW c \in Conns, ClientAsks(c) \/ ClientLeaves(c) PROVE SyncInv'
    BY <1>14 DEF ClientAsks, ClientLeaves, mainVars, proxyVars, SyncInv, Clients
<1>15. CASE UNCHANGED vars
    BY <1>15 DEF vars, mainVars, proxyVars, SyncInv, Clients
<1>16. (~ \E c \in Conns : ClientGivesUp(c)) /\ ~ModemRevokes
    BY DEF ClientGivesUp, ModemRevokes
<1>17. QED
    BY <1>3, <1>4, <1>5, <1>6, <1>7, <1>8, <1>9, <1>10, <1>11, <1>12, <1>13, <1>14, <1>15, <1>16
       DEF Next, Main, Loop, Environment, Dead

\* The parts of the invariant while the proxy serves.
ServeInv == QueueInv /\ OwnedInv /\ ReleaseInv /\ MuxInv /\ NoIdLeaks

\* Steps that leave the queue and the requests at the modem alone.
LEMMA TailOfRx ==
    ASSUME TypeOK, rx # <<>>, rx' = Tail(rx)
    PROVE  /\ Len(rx') = Len(rx) - 1 /\ Len(rx) \in Nat \ {0}
           /\ \A k \in 1..Len(rx') : rx'[k] = rx[k + 1] /\ k + 1 \in 1..Len(rx)
           /\ rx' \in Seq(Message)
<1>1. /\ Len(rx') = Len(rx) - 1 /\ Len(rx) \in Nat \ {0} /\ rx' \in Seq(Message)
      /\ \A k \in 1..Len(rx') : rx'[k] = rx[k + 1]
    BY HeadTailProperties, HeadIsFirst DEF TypeOK
<1>2. QED
    BY <1>1

LEMMA TailOfQueue ==
    ASSUME TypeOK, queue # <<>>, queue' = Tail(queue)
    PROVE  /\ Len(queue') = Len(queue) - 1 /\ Len(queue) \in Nat \ {0}
           /\ \A k \in 1..Len(queue') : queue'[k] = queue[k + 1] /\ k + 1 \in 1..Len(queue)
           /\ queue' # <<>> => Head(queue') = queue'[1] /\ 1 \in 1..Len(queue')
           /\ queue' \in Seq(Queued)
<1>1. /\ Len(queue') = Len(queue) - 1 /\ Len(queue) \in Nat \ {0} /\ queue' \in Seq(Queued)
      /\ \A k \in 1..Len(queue') : queue'[k] = queue[k + 1]
    BY HeadTailProperties, HeadIsFirst DEF TypeOK
<1>2. queue' # <<>> => Head(queue') = queue'[1] /\ 1 \in 1..Len(queue')
    BY <1>1
<1>3. QED
    BY <1>1, <1>2

LEMMA MoreRx ==
    ASSUME TypeOK, NEW r \in Message, rx' = Append(rx, r)
    PROVE  /\ Len(rx') = Len(rx) + 1 /\ Len(rx) \in Nat /\ rx' # <<>>
           /\ \A k \in 1..Len(rx) : rx'[k] = rx[k] /\ k \in 1..Len(rx')
           /\ rx'[Len(rx) + 1] = r /\ Len(rx) + 1 \in 1..Len(rx')
           /\ \A k \in 1..Len(rx') : k \in 1..Len(rx) \/ k = Len(rx) + 1
<1>1. rx \in Seq(Message)
    BY DEF TypeOK
<1>2. /\ Len(rx') = Len(rx) + 1 /\ rx' # <<>>
      /\ \A k \in 1..Len(rx) : rx'[k] = rx[k]
      /\ rx'[Len(rx) + 1] = r
    BY <1>1, AppendProperties, Zenon
<1>3. Len(rx) \in Nat
    BY <1>1
<1>4. QED
    BY <1>2, <1>3

\* A message of another service that comes or goes leaves the answer, if there
\* is one, the only one.
LEMMA MuxKeepsQueue ==
    ASSUME TypeOK, AskInv, QueueInv, UNCHANGED <<queue, pend, fd, want, up>>,
           \/ rx # <<>> /\ Head(rx).kind = "mux" /\ rx' = Tail(rx)
           \/ \E r \in Message : r.kind = "mux" /\ rx' = Append(rx, r)
    PROVE  QueueInv'
<1>1. NoCtl(rx) => NoCtl(rx')
    <2>1. CASE rx # <<>> /\ rx' = Tail(rx)
        BY <2>1, TailOfRx DEF NoCtl
    <2>2. CASE \E r \in Message : r.kind = "mux" /\ rx' = Append(rx, r)
        BY <2>2, MoreRx DEF NoCtl
    <2>3. QED
        BY <2>1, <2>2
<1>2. Sent => Sent'
    BY <1>1 DEF Sent
<1>3. queue # <<>> /\ Answered => Answered'
    <2> SUFFICES ASSUME queue # <<>>, Answered PROVE Answered'
        OBVIOUS
    <2>1. PICK k \in 1..Len(rx) : /\ AnswerTo(rx[k], Head(queue).msg)
                                  /\ \A j \in 1..Len(rx) : j # k => rx[j].kind = "mux"
        BY DEF Answered
    <2>2. pend' = <<>> /\ Head(queue') = Head(queue)
        BY DEF Answered
    <2>3. CASE rx # <<>> /\ Head(rx).kind = "mux" /\ rx' = Tail(rx)
        <3>1. Head(queue).msg.kind # "mux"
            <4>1. Head(queue) = queue[1] /\ 1 \in 1..Len(queue)
                BY HeadIsFirst
            <4>2. QED
                BY <4>1, QueueKinds DEF CtlKinds
        <3>2. k # 1
            BY <2>1, <2>3, <3>1, HeadIsFirst DEF AnswerTo
        <3>3. /\ Len(rx') = Len(rx) - 1 /\ Len(rx) \in Nat \ {0}
              /\ \A j \in 1..Len(rx') : rx'[j] = rx[j + 1] /\ j + 1 \in 1..Len(rx)
            BY <2>3, TailOfRx
        <3>4. k - 1 \in 1..Len(rx') /\ (k - 1) + 1 = k
            BY <3>2, <3>3
        <3>5. rx'[k - 1] = rx[k]
            BY <3>3, <3>4
        <3>6. \A j \in 1..Len(rx') : j # k - 1 => rx'[j].kind = "mux"
            BY <2>1, <3>3, <3>4
        <3>7. QED
            BY <2>1, <2>2, <3>4, <3>5, <3>6 DEF Answered, AnswerTo
    <2>4. CASE \E r \in Message : r.kind = "mux" /\ rx' = Append(rx, r)
        <3>1. k \in 1..Len(rx') /\ rx'[k] = rx[k]
            BY <2>4, MoreRx
        <3>2. \A j \in 1..Len(rx') : j # k => rx'[j].kind = "mux"
            BY <2>1, <2>4, MoreRx
        <3>3. QED
            BY <2>1, <2>2, <3>1, <3>2 DEF Answered, AnswerTo
    <2>5. QED
        BY <2>3, <2>4
<1>4. QED
    BY <1>1, <1>2, <1>3 DEF QueueInv, OfClient, OfServer

\* The requests of the queue stay those their clients wait for.
LEMMA QueueStep ==
    ASSUME Faults = {}, TypeOK, AskInv, SyncInv, phase = "serving" => ServeInv,
           [Next]_vars, phase' = "serving"
    PROVE  QueueInv'
<1>1. CASE Serve
    <2>1. queue' = <<>> /\ pend' = <<>> /\ rx' = <<>>
        BY <1>1 DEF Serve, SyncInv, proxyVars
    <2>2. QED
        BY <2>1 DEF QueueInv, NoCtl
<1>2. CASE phase # "serving" /\ ~Serve
    BY <1>2, Steps
       DEF OpenDevice, SendSync, FirstMessage, CtlResponse, MuxMessage, Restart, EndRound,
           ModemAnswers, ModemSends, Accept, Disconnect, Request, ClientConnects, ClientAsks,
           ClientLeaves, vars, mainVars
<1> SUFFICES ASSUME phase = "serving" PROVE QueueInv'
    BY <1>1, <1>2
<1>3. QueueInv /\ OwnedInv /\ ReleaseInv
    BY DEF ServeInv
<1>4. ASSUME NEW c \in Conns, Accept(c) PROVE QueueInv'
    <2>1. /\ UNCHANGED <<queue, pend, rx, want, up>> /\ fd[c] = 0
          /\ \A d \in Conns \ {c} : fd'[d] = fd[d]
        BY <1>4 DEF Accept, AskInv, clientVars, TypeOK
    <2>2. \A k \in 1..Len(queue) : OfClient(queue[k]) => OfClient(queue[k])'
        BY <2>1 DEF OfClient, Server
    <2>3. QED
        BY <1>3, <2>1, <2>2 DEF QueueInv, OfServer, Sent, Answered
<1>5. ASSUME NEW c \in Conns, Disconnect(c) PROVE QueueInv'
    <2>1. /\ Len(queue') = Len(queue) + Len(owned[c])
          /\ \A k \in 1..Len(queue) : queue'[k] = queue[k] /\ queue[k].fd # fd[c]
          /\ \A k \in 1..Len(owned[c]) :
               queue'[Len(queue) + k] =
                 [fd |-> Server, msg |-> [kind |-> "release", tid |-> ReleaseTid,
                                          id |-> owned[c][k], by |-> None]]
          /\ queue # <<>> => pend' = pend /\ queue' # <<>> /\ Head(queue') = Head(queue)
          /\ queue = <<>> /\ queue' # <<>> => pend' = Append(pend, Head(queue').msg)
          /\ queue' = <<>> => pend' = pend
          /\ \A d \in Conns \ {c} : fd'[d] = fd[d]
          /\ UNCHANGED <<want, up, rx>>
        BY <1>3, <1>5, DisconnectStep DEF Disconnect, clientVars
    <2>2. Len(queue) \in Nat /\ Len(owned[c]) \in Nat /\ owned[c] \in Seq(Ids)
        BY HeadIsFirst DEF TypeOK
    <2>3. \A k \in 1..Len(queue') : k \in 1..Len(queue) \/ \E j \in 1..Len(owned[c]) : k = Len(queue) + j
        <3> SUFFICES ASSUME NEW k \in 1..Len(queue'), ~(k \in 1..Len(queue))
                     PROVE  \E j \in 1..Len(owned[c]) : k = Len(queue) + j
            OBVIOUS
        <3>1. k - Len(queue) \in 1..Len(owned[c]) /\ k = Len(queue) + (k - Len(queue))
            BY <2>1, <2>2
        <3>2. QED
            BY <3>1
    <2>4. \A k \in 1..Len(queue') : \/ k \in 1..Len(queue) /\ queue'[k] = queue[k]
                                    \/ OfServer(queue[k])'
        <3>1. ASSUME NEW k \in 1..Len(queue'), NEW j \in 1..Len(owned[c]), k = Len(queue) + j
              PROVE  OfServer(queue[k])'
            <4>1. queue'[k] = [fd |-> Server, msg |-> [kind |-> "release", tid |-> ReleaseTid,
                                                       id |-> owned[c][j], by |-> None]]
                BY <2>1, <3>1
            <4>2. owned[c][j] \in Ids
                BY <2>2
            <4>3. QED
                BY <4>1, <4>2 DEF OfServer
        <3>2. QED
            BY <2>1, <2>3, <3>1
    <2>5. \A k \in 1..Len(queue) : OfClient(queue[k]) => OfClient(queue[k])'
        <3> SUFFICES ASSUME NEW k \in 1..Len(queue), OfClient(queue[k]) PROVE OfClient(queue[k])'
            OBVIOUS
        <3>1. queue[k].msg.by # c
            BY <2>1 DEF OfClient
        <3>2. QED
            BY <2>1, <3>1 DEF OfClient
    <2>6. \A k \in 1..Len(queue') : OfClient(queue[k])' \/ OfServer(queue[k])'
        BY <1>3, <2>4, <2>5 DEF QueueInv, OfServer
    <2>7. \A j, k \in 1..Len(queue') : queue'[j].fd = queue'[k].fd /\ queue'[j].fd # Server => j = k
        BY <1>3, <2>4 DEF QueueInv, OfServer
    <2>8. queue' = <<>> => pend' = <<>> /\ NoCtl(rx')
        BY <1>3, <2>1 DEF QueueInv
    <2>9. queue' # <<>> => Sent' \/ Answered'
        <3>1. CASE queue # <<>>
            BY <1>3, <2>1, <3>1 DEF QueueInv, Sent, Answered
        <3>2. CASE queue = <<>> /\ queue' # <<>>
            BY <1>3, <2>1, <3>2 DEF QueueInv, Sent
        <3>3. QED
            BY <3>1, <3>2
    <2>10. QED
        BY <2>6, <2>7, <2>8, <2>9 DEF QueueInv
<1>6. ASSUME NEW c \in Conns, Request(c) PROVE QueueInv'
    <2>1. /\ Len(queue') = Len(queue) + 1 /\ queue' # <<>>
          /\ \A k \in 1..Len(queue) : queue'[k] = queue[k] /\ queue[k].fd # fd[c]
          /\ queue'[Len(queue) + 1] = [fd |-> fd[c], msg |-> up[c]]
          /\ queue # <<>> => pend' = pend /\ Head(queue') = Head(queue)
          /\ queue = <<>> => pend' = Append(pend, Head(queue').msg)
          /\ c \in Clients /\ up[c] # NoAsk /\ want[c] = up[c] /\ up[c].by = c
        BY <1>3, <1>6, RequestStep
    <2>2. /\ UNCHANGED <<fd, want, rx>> /\ fd[c] # Server /\ up'[c] = NoAsk
          /\ \A d \in Conns \ {c} : up'[d] = up[d]
        BY <1>6, <2>1 DEF Request, TypeOK, Clients, Server
    <2>3. Len(queue) \in Nat /\ \A k \in 1..Len(queue') : k \in 1..Len(queue) \/ k = Len(queue) + 1
        BY <2>1, HeadIsFirst
    <2>4. ASSUME NEW k \in 1..Len(queue'), k = Len(queue) + 1 PROVE OfClient(queue[k])'
        BY <2>1, <2>2, <2>4 DEF OfClient
    <2>5. \A k \in 1..Len(queue) : OfClient(queue[k]) => OfClient(queue[k])'
        <3> SUFFICES ASSUME NEW k \in 1..Len(queue), OfClient(queue[k]) PROVE OfClient(queue[k])'
            OBVIOUS
        <3>1. queue[k].msg.by # c
            BY <2>1 DEF OfClient
        <3>2. QED
            BY <2>1, <2>2, <3>1 DEF OfClient
    <2>6. \A k \in 1..Len(queue') : OfClient(queue[k])' \/ OfServer(queue[k])'
        BY <1>3, <2>1, <2>3, <2>4, <2>5 DEF QueueInv, OfServer
    <2>7. \A j, k \in 1..Len(queue') : queue'[j].fd = queue'[k].fd /\ queue'[j].fd # Server => j = k
        BY <1>3, <2>1, <2>3 DEF QueueInv
    <2>8. Sent' \/ Answered'
        <3>1. CASE queue # <<>>
            BY <1>3, <2>1, <2>2, <3>1 DEF QueueInv, Sent, Answered
        <3>2. CASE queue = <<>>
            BY <1>3, <2>1, <2>2, <3>2 DEF QueueInv, Sent, NoCtl
        <3>3. QED
            BY <3>1, <3>2
    <2>9. QED
        BY <2>1, <2>6, <2>7, <2>8 DEF QueueInv
<1>7. CASE CtlResponse
    <2>1. /\ queue # <<>> /\ NoCtl(rx') /\ queue' = Tail(queue)
          /\ queue' = <<>> => pend' = <<>>
          /\ queue' # <<>> => pend' = <<Head(queue').msg>>
          /\ UNCHANGED <<fd, up>>
          /\ \/ want' = want
             \/ LET c == Head(queue).msg.by
                IN  OfClient(Head(queue)) /\ want' = [want EXCEPT ![c] = NoAsk]
        BY <1>3, <1>7, ResponseStep
    <2>2. /\ Len(queue') = Len(queue) - 1 /\ Len(queue) \in Nat \ {0}
          /\ \A k \in 1..Len(queue') : queue'[k] = queue[k + 1] /\ k + 1 \in 1..Len(queue)
        BY <2>1, TailOfQueue
    <2>3. Head(queue) = queue[1] /\ 1 \in 1..Len(queue)
        BY <2>1, HeadIsFirst
    <2>4. ASSUME NEW k \in 1..Len(queue'), OfClient(queue[k + 1])
          PROVE  OfClient(queue[k])'
        <3> DEFINE d == queue[k + 1].msg.by
        <3>1. ASSUME OfClient(Head(queue)) PROVE Head(queue).msg.by # d
            <4>1. k + 1 # 1 /\ k + 1 \in 1..Len(queue)
                BY <2>2
            <4>2. queue[1].fd # queue[k + 1].fd
                BY <1>3, <2>3, <2>4, <4>1 DEF QueueInv, OfClient
            <4>3. QED
                BY <2>3, <2>4, <3>1, <4>2 DEF OfClient
        <3>2. want'[d] = want[d]
            BY <2>1, <2>4, <3>1 DEF OfClient, TypeOK
        <3>3. queue'[k] = queue[k + 1]
            BY <2>2
        <3>4. QED
            BY <2>1, <2>4, <3>2, <3>3 DEF OfClient
    <2>5. \A k \in 1..Len(queue') : OfClient(queue[k])' \/ OfServer(queue[k])'
        BY <1>3, <2>2, <2>4 DEF QueueInv, OfServer
    <2>6. \A j, k \in 1..Len(queue') : queue'[j].fd = queue'[k].fd /\ queue'[j].fd # Server => j = k
        <3> SUFFICES ASSUME NEW j \in 1..Len(queue'), NEW k \in 1..Len(queue'),
                            queue'[j].fd = queue'[k].fd, queue'[j].fd # Server
                     PROVE  j = k
            OBVIOUS
        <3>1. j + 1 = k + 1
            BY <1>3, <2>2 DEF QueueInv
        <3>2. QED
            BY <3>1
    <2>7. QED
        BY <2>1, <2>5, <2>6 DEF QueueInv, Sent
<1>8. CASE MuxMessage
    BY <1>3, <1>8, MuxKeepsQueue DEF MuxMessage, Killed, proxyVars, clientVars
<1>9. CASE ModemAnswers
    <2>1. /\ queue # <<>> /\ pend' = <<>> /\ NoCtl(rx)
          /\ UNCHANGED <<fd, queue, want, up>>
        BY <1>3, <1>9, AnswerStep
    <2>2. PICK r \in Message : rx' = Append(rx, r) /\ AnswerTo(r, Head(queue).msg)
        BY <1>3, <1>9, AnswerStep
    <2>3. /\ rx'[Len(rx) + 1] = r /\ Len(rx) + 1 \in 1..Len(rx')
          /\ \A k \in 1..Len(rx') : k # Len(rx) + 1 => k \in 1..Len(rx) /\ rx'[k] = rx[k]
        BY <2>2, MoreRx
    <2>4. AnswerTo(rx'[Len(rx) + 1], Head(queue').msg)
        BY <2>1, <2>2, <2>3
    <2>5. Answered'
        BY <2>1, <2>3, <2>4 DEF Answered, AnswerTo, NoCtl
    <2>6. QED
        BY <1>3, <2>1, <2>5 DEF QueueInv, OfClient, OfServer
<1>10. ASSUME NEW x \in Ids \union {NoId}, ModemSends(x) PROVE QueueInv'
    <2>1. /\ UNCHANGED <<queue, pend, fd, want, up>>
          /\ rx' = Append(rx, [kind |-> "mux", tid |-> 0, id |-> x,
                               by |-> IF x = NoId THEN None ELSE granted[x]])
        BY <1>10 DEF ModemSends, proxyVars, clientVars
    <2>2. [kind |-> "mux", tid |-> 0, id |-> x,
           by |-> IF x = NoId THEN None ELSE granted[x]] \in Message
        BY DEF Message, Kinds, Askers, TypeOK
    <2>3. QED
        BY <1>3, <2>1, <2>2, MuxKeepsQueue
<1>11. ASSUME NEW c \in Conns, ClientAsks(c) PROVE QueueInv'
    <2>1. /\ UNCHANGED <<queue, pend, rx, fd>> /\ want[c] = NoAsk
          /\ \A d \in Conns \ {c} : want'[d] = want[d] /\ up'[d] = up[d]
        BY <1>11 DEF ClientAsks, proxyVars, TypeOK
    <2>2. \A k \in 1..Len(queue) : OfClient(queue[k]) => OfClient(queue[k])'
        <3> SUFFICES ASSUME NEW k \in 1..Len(queue), OfClient(queue[k]) PROVE OfClient(queue[k])'
            OBVIOUS
        <3>1. queue[k].msg.by # c
            BY <1>3, <2>1, QueueKinds
        <3>2. QED
            BY <2>1, <3>1 DEF OfClient
    <2>3. QED
        BY <1>3, <2>1, <2>2 DEF QueueInv, OfServer, Sent, Answered
<1>12. CASE UNCHANGED <<queue, pend, rx, fd, want, up>>
    BY <1>3, <1>12 DEF QueueInv, OfServer, OfClient, Sent, Answered
<1>13. ~(rx # <<>> /\ Head(rx).kind = "revoke")
    <2> SUFFICES ASSUME rx # <<>>, Head(rx).kind = "revoke" PROVE FALSE
        OBVIOUS
    <2>1. Head(rx) = rx[1] /\ 1 \in 1..Len(rx)
        BY HeadIsFirst
    <2>2. queue # <<>> /\ Head(queue).msg.kind = "revoke"
        BY <1>3, <2>1 DEF QueueInv, Sent, Answered, NoCtl, AnswerTo
    <2>3. Head(queue) = queue[1] /\ 1 \in 1..Len(queue)
        BY <2>2, HeadIsFirst
    <2>4. QED
        BY <1>3, <2>2, <2>3, QueueKinds DEF CtlKinds
<1>14. QED
    BY <1>4, <1>5, <1>6, <1>7, <1>8, <1>9, <1>10, <1>11, <1>12, <1>13, Steps
       DEF OpenDevice, SendSync, FirstMessage, Serve, Restart, EndRound, ClientConnects,
           ClientLeaves, vars, proxyVars, clientVars

\* Ids recorded and no longer recorded.
LEMMA RecordOne ==
    ASSUME NEW s \in Seq(Ids), NEW x \in Ids
    PROVE  /\ \A y : Contains(Append(s, x), y) <=> Contains(s, y) \/ y = x
           /\ Distinct(s) /\ ~Contains(s, x) => Distinct(Append(s, x))
<1> DEFINE t == Append(s, x)
<1>1. /\ t \in Seq(Ids) /\ Len(t) = Len(s) + 1 /\ Len(s) \in Nat
      /\ \A i \in 1..Len(s) : t[i] = s[i]
      /\ t[Len(s) + 1] = x
    BY AppendProperties
<1> HIDE DEF t
<1>2. \A i \in 1..Len(t) : i \in 1..Len(s) \/ i = Len(s) + 1
    BY <1>1
<1>3. ASSUME NEW y PROVE Contains(t, y) <=> Contains(s, y) \/ y = x
    <2>1. Contains(t, y) => Contains(s, y) \/ y = x
        BY <1>1, <1>2 DEF Contains
    <2>2. Contains(s, y) => Contains(t, y)
        <3>1. \A i \in 1..Len(s) : i \in 1..Len(t)
            BY <1>1
        <3>2. QED
            BY <1>1, <3>1 DEF Contains
    <2>3. y = x => Contains(t, y)
        <3>1. Len(s) + 1 \in 1..Len(t)
            BY <1>1
        <3>2. QED
            BY <1>1, <3>1 DEF Contains
    <2>4. QED
        BY <2>1, <2>2, <2>3
<1>4. Distinct(s) /\ ~Contains(s, x) => Distinct(t)
    BY <1>1, <1>2 DEF Distinct, Contains
<1>5. QED
    BY <1>3, <1>4 DEF t

LEMMA RemoveOne ==
    ASSUME NEW s \in Seq(Ids), NEW i \in 1..Len(s), Distinct(s)
    PROVE  /\ \A y : Contains(RemoveAt(s, i), y) <=> Contains(s, y) /\ y # s[i]
           /\ Distinct(RemoveAt(s, i))
<1> DEFINE t == RemoveAt(s, i)
<1>1. /\ Len(t) = Len(s) - 1 /\ Len(s) \in Nat
      /\ \A j \in 1..(Len(s) - 1) : t[j] = IF j < i THEN s[j] ELSE s[j + 1]
    BY RemoveAtProperties
<1> HIDE DEF t
<1>2. ASSUME NEW j \in 1..Len(t)
      PROVE  \E k \in 1..Len(s) : k # i /\ t[j] = s[k] /\ k = IF j < i THEN j ELSE j + 1
    <2> DEFINE k == IF j < i THEN j ELSE j + 1
    <2>1. k \in 1..Len(s) /\ k # i /\ t[j] = s[k]
        BY <1>1
    <2>2. QED
        BY <2>1
<1>3. ASSUME NEW k \in 1..Len(s), k # i
      PROVE  \E j \in 1..Len(t) : t[j] = s[k]
    <2> DEFINE j == IF k < i THEN k ELSE k - 1
    <2>1. j \in 1..Len(t) /\ t[j] = s[k]
        <3>1. CASE k < i
            BY <1>1, <3>1
        <3>2. CASE ~(k < i)
            <4>1. k - 1 \in 1..Len(t) /\ ~(k - 1 < i) /\ (k - 1) + 1 = k
                BY <1>1, <1>3, <3>2
            <4>2. t[k - 1] = s[k]
                BY <1>1, <4>1
            <4>3. QED
                BY <3>2, <4>1, <4>2
        <3>3. QED
            BY <3>1, <3>2
    <2>2. QED
        BY <2>1
<1>4. ASSUME NEW y PROVE Contains(t, y) <=> Contains(s, y) /\ y # s[i]
    <2>1. Contains(t, y) => Contains(s, y) /\ y # s[i]
        BY <1>2 DEF Contains, Distinct
    <2>2. Contains(s, y) /\ y # s[i] => Contains(t, y)
        BY <1>3 DEF Contains
    <2>3. QED
        BY <2>1, <2>2
<1>5. Distinct(t)
    <2> SUFFICES ASSUME NEW j \in 1..Len(t), NEW k \in 1..Len(t), t[j] = t[k]
                 PROVE  j = k
        BY DEF Distinct
    <2>1. PICK a \in 1..Len(s) : t[j] = s[a] /\ a = IF j < i THEN j ELSE j + 1
        BY <1>2
    <2>2. PICK b \in 1..Len(s) : t[k] = s[b] /\ b = IF k < i THEN k ELSE k + 1
        BY <1>2
    <2>3. a = b
        BY <2>1, <2>2 DEF Distinct
    <2>4. QED
        BY <1>1, <2>1, <2>2, <2>3
<1>6. QED
    BY <1>4, <1>5 DEF t

\* Recorded follows what the modem granted and took back.
GetRecorded(c, x) ==
  /\ Head(queue).msg.kind = "get" /\ x # NoId
  /\ rx[1].kind = "get" /\ rx[1].id = x /\ rx[1].by = c /\ granted[x] = c /\ Unowned(x)
  /\ \A k \in 1..Len(queue) : queue[k].fd = Server => queue[k].msg.id # x
  /\ mine'[c] = mine[c] \union {x}
  /\ \A y : Contains(owned'[c], y) <=> Contains(owned[c], y) \/ y = x
ReleaseRecorded(c, x) ==
  /\ Head(queue).msg.kind = "release" /\ Head(queue).msg.id = x /\ Head(queue).msg.by = c
  /\ granted[x] = None
  /\ mine'[c] = mine[c] \ {x}
  /\ \A y : Contains(owned'[c], y) <=> Contains(owned[c], y) /\ y # x

LEMMA RecordStep ==
    ASSUME Faults = {}, TypeOK, AskInv, QueueInv, OwnedInv, ReleaseInv, CtlResponse, phase' = "serving"
    PROVE  \/ /\ UNCHANGED <<owned, mine>>
              /\ rx[1].kind = "get" => rx[1].id = NoId
              /\ \/ OfServer(Head(queue))
                 \/ OfClient(Head(queue)) /\ Head(queue).msg.kind # "release"
           \/ \E c \in Clients, x \in Ids :
                /\ GetRecorded(c, x) \/ ReleaseRecorded(c, x)
                /\ \A d \in Clients \ {c} : owned'[d] = owned[d] /\ mine'[d] = mine[d]
                /\ Distinct(owned'[c]) /\ OfClient(Head(queue)) /\ Head(queue).msg.by = c
<1> DEFINE m == Head(rx)
           h == Head(queue).msg
           c == h.by
<1>1. /\ queue # <<>> /\ pend = <<>> /\ rx # <<>> /\ AnswerTo(m, h)
      /\ \/ OfServer(Head(queue)) /\ UNCHANGED <<owned, mine>>
         \/ /\ c \in Clients /\ OfClient(Head(queue))
            /\ mine' = [mine EXCEPT ![c] = Held(c, m)]
            /\ owned' = [owned EXCEPT ![c] = Recorded(c, m)]
            /\ want[c] = h
    BY ResponseStep
<1>2. /\ m = rx[1] /\ 1 \in 1..Len(rx) /\ m \in Message
      /\ Head(queue) = queue[1] /\ 1 \in 1..Len(queue)
    BY <1>1, HeadIsFirst
<1>3. CASE OfServer(Head(queue)) /\ UNCHANGED <<owned, mine>>
    BY <1>1, <1>2, <1>3 DEF OfServer, AnswerTo
<1>4. CASE /\ c \in Clients /\ OfClient(Head(queue))
           /\ mine' = [mine EXCEPT ![c] = Held(c, m)]
           /\ owned' = [owned EXCEPT ![c] = Recorded(c, m)]
           /\ want[c] = h
    <2>1. /\ c \in Conns /\ owned[c] \in Seq(Ids) /\ mine[c] \subseteq Ids
          /\ \A d \in Clients \ {c} : owned'[d] = owned[d] /\ mine'[d] = mine[d]
          /\ mine'[c] = Held(c, m) /\ owned'[c] = Recorded(c, m)
        BY <1>4 DEF TypeOK, Clients
    <2>2. /\ h.kind \in CtlKinds
          /\ h.kind = "release" => h.id \in mine[c] /\ Contains(owned[c], h.id)
        BY <1>2, <1>4, QueueKinds DEF OwnedInv
    <2>3. Distinct(owned[c]) /\ m.kind = h.kind /\ m.by = c
        BY <1>1, <1>4 DEF OwnedInv, AnswerTo
    <2>4. CASE m.kind = "get" /\ m.id # NoId
        <3>1. m.id \in Ids
            BY <1>2, <2>4 DEF Message
        <3>2. /\ granted[m.id] = c /\ Unowned(m.id)
              /\ \A k \in 1..Len(queue) : queue[k].fd = Server => queue[k].msg.id # m.id
            BY <1>2, <2>3, <2>4 DEF ReleaseInv
        <3>3. mine'[c] = mine[c] \union {m.id} /\ owned'[c] = Append(owned[c], m.id)
            BY <2>1, <2>4 DEF Held, Recorded
        <3>4. ~Contains(owned[c], m.id)
            BY <1>4, <3>2 DEF Unowned
        <3>5. /\ Distinct(owned'[c])
              /\ \A y : Contains(owned'[c], y) <=> Contains(owned[c], y) \/ y = m.id
            <4>1. /\ Distinct(Append(owned[c], m.id))
                  /\ \A y : Contains(Append(owned[c], m.id), y) <=> Contains(owned[c], y) \/ y = m.id
                BY <2>1, <2>3, <3>1, <3>4, RecordOne
            <4>2. QED
                BY <3>3, <4>1
        <3>6. GetRecorded(c, m.id)
            BY <1>2, <2>3, <2>4, <3>2, <3>3, <3>5 DEF GetRecorded
        <3>7. QED
            BY <1>4, <2>1, <3>1, <3>5, <3>6
    <2>5. CASE m.kind = "release"
        <3>1. m.id = h.id /\ h.id \in Ids /\ h.id # NoId
            BY <1>1, <2>1, <2>2, <2>3, <2>5, ConstantsAssumption DEF AnswerTo, NoId
        <3>2. granted[h.id] = None
            BY <1>1, <2>3, <2>5 DEF ReleaseInv
        <3>3. mine'[c] = mine[c] \ {h.id} /\ owned'[c] = RemoveFirst(owned[c], h.id)
            BY <1>4, <2>1, <2>5, <3>1 DEF Held, Recorded
        <3>4. PICK i \in 1..Len(owned[c]) : owned[c][i] = h.id /\ owned'[c] = RemoveAt(owned[c], i)
            BY <2>1, <2>2, <2>3, <2>5, <3>3, RemoveFirstProperties DEF Contains
        <3>5. /\ Distinct(owned'[c])
              /\ \A y : Contains(owned'[c], y) <=> Contains(owned[c], y) /\ y # h.id
            BY <2>1, <2>3, <3>4, RemoveOne
        <3>6. ReleaseRecorded(c, h.id)
            BY <2>3, <2>5, <3>2, <3>3, <3>5 DEF ReleaseRecorded
        <3>7. QED
            BY <1>4, <2>1, <3>1, <3>5, <3>6
    <2>6. CASE m.kind # "release" /\ ~(m.kind = "get" /\ m.id # NoId)
        <3>1. Held(c, m) = mine[c] /\ Recorded(c, m) = owned[c]
            BY <2>2, <2>3, <2>6 DEF Held, Recorded, CtlKinds
        <3>2. UNCHANGED <<owned, mine>>
            BY <1>4, <3>1 DEF TypeOK
        <3>3. QED
            BY <1>2, <1>4, <2>3, <2>6, <3>2
    <2>7. QED
        BY <2>4, <2>5, <2>6
<1>5. QED
    BY <1>1, <1>3, <1>4

\* What happens while the proxy serves.
MuxLeaves ==
  /\ rx # <<>> /\ Head(rx).kind = "mux" /\ rx' = Tail(rx)
  /\ UNCHANGED <<queue, pend, fd, owned, mine, granted>>

Opened ==
  /\ Clients' = {} /\ queue' = <<>> /\ pend' = <<>> /\ rx' = <<>>
  /\ \A x \in Ids : granted'[x] = None

LEMMA ServingSteps ==
    ASSUME Faults = {}, TypeOK, AskInv, SyncInv, phase = "serving" => ServeInv,
           [Next]_vars, phase' = "serving"
    PROVE  \/ Opened
           \/ /\ phase = "serving" /\ ServeInv
              /\ \/ CtlResponse \/ MuxLeaves \/ ModemAnswers
                 \/ \E x \in Ids \union {NoId} : ModemSends(x)
                 \/ \E c \in Conns : Accept(c) \/ Disconnect(c) \/ Request(c)
                 \/ UNCHANGED <<queue, pend, rx, fd, owned, mine, granted>>
<1>1. CASE Serve
    <2>1. Opened
        BY <1>1 DEF Serve, SyncInv, Opened, proxyVars, Clients
    <2>2. QED
        BY <2>1
<1>2. CASE phase # "serving" /\ ~Serve
    BY <1>2, Steps
       DEF OpenDevice, SendSync, FirstMessage, CtlResponse, MuxMessage, Restart, EndRound,
           ModemAnswers, ModemSends, Accept, Disconnect, Request, ClientConnects, ClientAsks,
           ClientLeaves, vars, mainVars
<1> SUFFICES ASSUME phase = "serving", ServeInv
             PROVE  \/ CtlResponse \/ MuxLeaves \/ ModemAnswers
                    \/ \E x \in Ids \union {NoId} : ModemSends(x)
                    \/ \E c \in Conns : Accept(c) \/ Disconnect(c) \/ Request(c)
                    \/ UNCHANGED <<queue, pend, rx, fd, owned, mine, granted>>
    BY <1>1, <1>2
<1>3. MuxMessage => MuxLeaves
    BY DEF MuxMessage, MuxLeaves, Killed, proxyVars, clientVars
<1>4. ~(rx # <<>> /\ Head(rx).kind = "revoke")
    <2> SUFFICES ASSUME rx # <<>>, Head(rx).kind = "revoke" PROVE FALSE
        OBVIOUS
    <2>1. Head(rx) = rx[1] /\ 1 \in 1..Len(rx)
        BY HeadIsFirst
    <2>2. queue # <<>> /\ Head(queue).msg.kind = "revoke"
        BY <2>1 DEF ServeInv, QueueInv, Sent, Answered, NoCtl, AnswerTo
    <2>3. Head(queue) = queue[1] /\ 1 \in 1..Len(queue)
        BY <2>2, HeadIsFirst
    <2>4. QED
        BY <2>2, <2>3, QueueKinds DEF CtlKinds, ServeInv
<1>5. ~OpenDevice /\ ~SendSync /\ ~FirstMessage /\ ~Restart
    BY DEF OpenDevice, SendSync, FirstMessage, Restart, EndRound
<1>6. CASE \/ UNCHANGED vars
           \/ \E c \in Conns : ClientConnects(c) \/ ClientAsks(c) \/ ClientLeaves(c)
    BY <1>6 DEF ClientConnects, ClientAsks, ClientLeaves, vars, proxyVars, clientVars
<1>7. QED
    BY <1>3, <1>4, <1>5, <1>6, Steps DEF Serve

\* A client id that is recorded is granted to the client it is recorded for.
LEMMA OwnedStep ==
    ASSUME Faults = {}, TypeOK, AskInv, SyncInv, phase = "serving" => ServeInv,
           [Next]_vars, phase' = "serving"
    PROVE  OwnedInv'
<1>1. CASE Opened
    BY <1>1 DEF Opened, OwnedInv
<1> SUFFICES ASSUME ServeInv, phase = "serving", ~Opened
             PROVE  OwnedInv'
    BY <1>1, ServingSteps
<1>2. QueueInv /\ OwnedInv /\ ReleaseInv
    BY DEF ServeInv
<1>3. CASE UNCHANGED <<queue, pend, fd, owned, mine, granted>>
    BY <1>2, <1>3 DEF OwnedInv, GivenBack, Clients
<1>4. ASSUME NEW c \in Conns, Accept(c) PROVE OwnedInv'
    <2>1. /\ UNCHANGED <<queue, pend, owned, mine, granted>>
          /\ \A d \in Conns \ {c} : fd'[d] = fd[d]
          /\ mine[c] = {} /\ owned[c] = <<>>
        BY <1>4 DEF Accept, AskInv, clientVars, TypeOK
    <2>2. \A d \in Clients' : d \in Clients \/ d = c
        BY <2>1 DEF Clients
    <2>3. \A d \in Clients : /\ Distinct(owned'[d])
                             /\ \A x \in mine'[d] : Contains(owned'[d], x)
                             /\ \A x \in Ids : Contains(owned'[d], x) =>
                                  granted'[x] = d \/ (granted'[x] = None /\ GivenBack(x, d)')
        BY <1>2, <2>1 DEF OwnedInv, GivenBack
    <2>4. /\ Distinct(owned'[c]) /\ mine'[c] = {}
          /\ \A x \in Ids : ~Contains(owned'[c], x)
        BY <2>1 DEF Distinct, Contains
    <2>5. QED
        BY <2>2, <2>3, <2>4 DEF OwnedInv
<1>5. ASSUME NEW c \in Conns, Disconnect(c) PROVE OwnedInv'
    <2>1. /\ queue # <<>> => pend' = pend /\ queue' # <<>> /\ Head(queue') = Head(queue)
          /\ Clients' = Clients \ {c}
          /\ \A d \in Conns \ {c} : owned'[d] = owned[d]
          /\ UNCHANGED <<mine, granted>>
        BY <1>2, <1>5, DisconnectStep DEF Disconnect, clientVars
    <2>2. \A x, d : GivenBack(x, d) => GivenBack(x, d)'
        BY <2>1 DEF GivenBack
    <2>3. \A d \in Clients' : d \in Clients /\ owned'[d] = owned[d]
        BY <2>1 DEF Clients
    <2>4. QED
        BY <1>2, <2>1, <2>2, <2>3 DEF OwnedInv
<1>6. ASSUME NEW c \in Conns, Request(c) PROVE OwnedInv'
    <2>1. /\ queue # <<>> => pend' = pend /\ queue' # <<>> /\ Head(queue') = Head(queue)
          /\ UNCHANGED <<fd, owned, mine, granted>>
        BY <1>2, <1>6, RequestStep DEF Request
    <2>2. \A x, d : GivenBack(x, d) => GivenBack(x, d)'
        BY <2>1 DEF GivenBack
    <2>3. Clients' = Clients
        BY <2>1 DEF Clients
    <2>4. QED
        BY <1>2, <2>1, <2>2, <2>3 DEF OwnedInv
<1>7. CASE CtlResponse
    <2>1. UNCHANGED <<fd, granted>> /\ queue # <<>> /\ Clients' = Clients
        BY <1>2, <1>7, ResponseStep DEF Clients
    <2>2. Head(queue) = queue[1] /\ 1 \in 1..Len(queue) /\ \A d \in Clients : d # None
        BY <2>1, HeadIsFirst, ConstantsAssumption DEF Clients
    <2>3. CASE /\ UNCHANGED <<owned, mine>>
               /\ \/ OfServer(Head(queue))
                  \/ OfClient(Head(queue)) /\ Head(queue).msg.kind # "release"
        <3>1. \A x, d : d \in Clients => ~GivenBack(x, d)
            BY <2>2, <2>3 DEF GivenBack, OfServer
        <3>2. QED
            BY <1>2, <2>1, <2>3, <3>1 DEF OwnedInv
    <2>4. ASSUME NEW c \in Clients, NEW x \in Ids, GetRecorded(c, x) \/ ReleaseRecorded(c, x),
                 \A d \in Clients \ {c} : owned'[d] = owned[d] /\ mine'[d] = mine[d],
                 Distinct(owned'[c]), Head(queue).msg.by = c
          PROVE  OwnedInv'
        <3>1. \A d \in Clients \ {c} : \A y : ~GivenBack(y, d)
            BY <2>4 DEF GivenBack
        <3>2. \A d \in Clients \ {c} :
                /\ Distinct(owned'[d])
                /\ \A y \in mine'[d] : Contains(owned'[d], y)
                /\ \A y \in Ids : Contains(owned'[d], y) => granted'[y] = d
            BY <1>2, <2>1, <2>4, <3>1 DEF OwnedInv
        <3>3. CASE GetRecorded(c, x)
            <4>1. \A y : ~GivenBack(y, c)
                BY <3>3 DEF GivenBack, GetRecorded
            <4>2. \A y \in mine'[c] : Contains(owned'[c], y)
                BY <1>2, <3>3 DEF OwnedInv, GetRecorded
            <4>3. \A y \in Ids : Contains(owned'[c], y) => granted'[y] = c
                BY <1>2, <2>1, <3>3, <4>1 DEF OwnedInv, GetRecorded
            <4>4. QED
                BY <2>1, <2>4, <3>2, <4>2, <4>3 DEF OwnedInv
        <3>4. CASE ReleaseRecorded(c, x)
            <4>1. \A y : y # x => ~GivenBack(y, c)
                BY <3>4 DEF GivenBack, ReleaseRecorded
            <4>2. \A y \in mine'[c] : Contains(owned'[c], y)
                BY <1>2, <3>4 DEF OwnedInv, ReleaseRecorded
            <4>3. \A y \in Ids : Contains(owned'[c], y) => granted'[y] = c
                BY <1>2, <2>1, <3>4, <4>1 DEF OwnedInv, ReleaseRecorded
            <4>4. QED
                BY <2>1, <2>4, <3>2, <4>2, <4>3 DEF OwnedInv
        <3>5. QED
            BY <2>4, <3>3, <3>4
    <2>5. QED
        BY <1>2, <1>7, <2>3, <2>4, RecordStep
<1>8. CASE ModemAnswers
    <2> DEFINE h == Head(queue).msg
    <2>1. /\ queue # <<>> /\ pend' = <<>>
          /\ \A c \in Clients : \A x \in Ids : Contains(owned[c], x) => granted[x] = c
          /\ UNCHANGED <<fd, owned, queue, mine>>
        BY <1>2, <1>8, AnswerStep
    <2>2. PICK r \in Message : AnswerTo(r, h) /\ Done(r)
        BY <1>2, <1>8, AnswerStep
    <2>3. /\ Clients' = Clients /\ \A c \in Clients : c # None
          /\ Head(queue) = queue[1] /\ 1 \in 1..Len(queue)
        BY <2>1, HeadIsFirst, ConstantsAssumption DEF Clients
    <2>4. ASSUME NEW c \in Clients, NEW x \in Ids, Contains(owned[c], x)
          PROVE  granted'[x] = c \/ (granted'[x] = None /\ GivenBack(x, c)')
        <3>1. granted[x] = c /\ c # None
            BY <2>1, <2>3, <2>4
        <3>2. CASE granted'[x] = granted[x]
            BY <3>1, <3>2
        <3>3. CASE granted'[x] # granted[x]
            <4>1. r.kind = "release" /\ r.id = x /\ granted' = [granted EXCEPT ![r.id] = None]
                BY <2>2, <3>1, <3>3 DEF Done, TypeOK
            <4>2. h.kind = "release" /\ h.id = x /\ h.by = r.by
                BY <2>2, <4>1 DEF AnswerTo
            <4>3. ~OfServer(Head(queue))
                BY <1>2, <2>3, <2>4, <4>2 DEF ReleaseInv, Unowned, OfServer
            <4>4. r.by \in Clients /\ Contains(owned[r.by], r.id)
                BY <2>2, <4>1, <4>3 DEF Done
            <4>5. r.by = c
                BY <2>1, <3>1, <4>1, <4>4
            <4>6. GivenBack(x, c)'
                BY <2>1, <4>2, <4>5 DEF GivenBack
            <4>7. granted'[x] = None
                BY <4>1 DEF TypeOK
            <4>8. QED
                BY <4>6, <4>7
        <3>4. QED
            BY <3>2, <3>3
    <2>5. QED
        BY <1>2, <2>1, <2>3, <2>4 DEF OwnedInv
<1>9. QED
    BY <1>3, <1>4, <1>5, <1>6, <1>7, <1>8, ServingSteps
       DEF MuxLeaves, ModemSends, proxyVars, clientVars

StillUnowned(x) == \A d \in Clients' : ~Contains(owned'[d], x)

\* A release that the proxy has queued is for a client id that is granted and that
\* no client has.
LEMMA ReleaseStep ==
    ASSUME Faults = {}, TypeOK, AskInv, SyncInv, phase = "serving" => ServeInv,
           [Next]_vars, phase' = "serving"
    PROVE  ReleaseInv'
<1>1. CASE Opened
    BY <1>1 DEF Opened, ReleaseInv
<1> SUFFICES ASSUME ServeInv, phase = "serving", ~Opened
             PROVE  ReleaseInv'
    BY <1>1, ServingSteps
<1>2. QueueInv /\ OwnedInv /\ ReleaseInv
    BY DEF ServeInv
<1>3. ASSUME UNCHANGED <<queue, pend, granted>>,
             \A x : Unowned(x) => StillUnowned(x),
             \A k \in 1..Len(rx') : rx'[k].kind = "get" =>
               \E j \in 1..Len(rx) : rx[j] = rx'[k]
      PROVE  ReleaseInv'
    <2>1. ASSUME NEW k \in 1..Len(rx'), rx'[k].kind = "get", rx'[k].id # NoId
          PROVE  /\ granted'[rx'[k].id] = rx'[k].by /\ StillUnowned(rx'[k].id)
                 /\ \A j \in 1..Len(queue') : queue'[j].fd = Server => queue'[j].msg.id # rx'[k].id
        <3>1. PICK i \in 1..Len(rx) : rx[i] = rx'[k]
            BY <1>3, <2>1
        <3>2. /\ granted[rx[i].id] = rx[i].by /\ Unowned(rx[i].id)
              /\ \A j \in 1..Len(queue) : queue[j].fd = Server => queue[j].msg.id # rx[i].id
            BY <1>2, <2>1, <3>1 DEF ReleaseInv
        <3>3. StillUnowned(rx[i].id)
            BY <1>3, <3>2
        <3>4. QED
            BY <1>3, <3>1, <3>2, <3>3
    <2>2. ASSUME NEW k \in 1..Len(queue'), queue'[k].fd = Server
          PROVE  StillUnowned(queue'[k].msg.id)
        <3>1. Unowned(queue[k].msg.id)
            BY <1>2, <1>3, <2>2 DEF ReleaseInv
        <3>2. QED
            BY <1>3, <3>1
    <2>3. QED
        BY <1>2, <1>3, <2>1, <2>2 DEF ReleaseInv, Unowned, StillUnowned
<1>4. CASE MuxLeaves
    <2>1. \A x : Unowned(x) => StillUnowned(x)
        BY <1>4 DEF MuxLeaves, Unowned, StillUnowned, Clients
    <2>2. \A k \in 1..Len(rx') : \E j \in 1..Len(rx) : rx[j] = rx'[k]
        BY <1>4, TailOfRx DEF MuxLeaves
    <2>3. QED
        BY <1>3, <1>4, <2>1, <2>2 DEF MuxLeaves
<1>5. ASSUME NEW y \in Ids \union {NoId}, ModemSends(y) PROVE ReleaseInv'
    <2> DEFINE r == [kind |-> "mux", tid |-> 0, id |-> y,
                     by |-> IF y = NoId THEN None ELSE granted[y]]
    <2>1. r \in Message /\ r.kind # "get"
        BY DEF Message, Kinds, Askers, TypeOK
    <2>2. rx' = Append(rx, r) /\ UNCHANGED <<queue, pend, fd, owned, granted>>
        BY <1>5 DEF ModemSends, proxyVars
    <2> HIDE DEF r
    <2>3. \A k \in 1..Len(rx') : rx'[k].kind = "get" => \E j \in 1..Len(rx) : rx[j] = rx'[k]
        BY <2>1, <2>2, MoreRx
    <2>4. \A x : Unowned(x) => StillUnowned(x)
        BY <2>2 DEF Unowned, StillUnowned, Clients
    <2>5. QED
        BY <1>3, <2>2, <2>3, <2>4
<1>6. ASSUME NEW c \in Conns, Accept(c) PROVE ReleaseInv'
    <2>1. /\ UNCHANGED <<queue, pend, rx, owned, granted>>
          /\ \A d \in Conns \ {c} : fd'[d] = fd[d]
          /\ owned[c] = <<>>
        BY <1>6 DEF Accept, AskInv, TypeOK
    <2>2. \A d \in Clients' : d \in Clients \/ d = c
        BY <2>1 DEF Clients
    <2>3. \A x : Unowned(x) => StillUnowned(x)
        BY <2>1, <2>2 DEF Unowned, StillUnowned, Contains
    <2>4. QED
        BY <1>3, <2>1, <2>3
<1>7. ASSUME NEW c \in Conns, Disconnect(c) PROVE ReleaseInv'
    <2>1. /\ Len(queue') = Len(queue) + Len(owned[c])
          /\ \A k \in 1..Len(queue) : queue'[k] = queue[k] /\ queue[k].fd # fd[c]
          /\ \A k \in 1..Len(owned[c]) :
               queue'[Len(queue) + k] =
                 [fd |-> Server, msg |-> [kind |-> "release", tid |-> ReleaseTid,
                                          id |-> owned[c][k], by |-> None]]
          /\ queue # <<>> => pend' = pend /\ queue' # <<>> /\ Head(queue') = Head(queue)
          /\ queue = <<>> /\ queue' # <<>> => pend' = Append(pend, Head(queue').msg)
          /\ Clients' = Clients \ {c} /\ c \in Clients
          /\ \A d \in Conns \ {c} : owned'[d] = owned[d]
          /\ UNCHANGED <<rx, granted>>
        BY <1>2, <1>7, DisconnectStep DEF Disconnect
    <2>2. Len(queue) \in Nat /\ Len(owned[c]) \in Nat /\ owned[c] \in Seq(Ids) /\ c # None
        BY HeadIsFirst, ConstantsAssumption DEF TypeOK
    <2>3. ASSUME NEW k \in 1..Len(queue')
          PROVE  \/ k \in 1..Len(queue) /\ queue'[k] = queue[k]
                 \/ \E j \in 1..Len(owned[c]) :
                      /\ k = Len(queue) + j
                      /\ queue'[k].fd = Server /\ queue'[k].msg.id = owned[c][j]
        <3>1. CASE k \in 1..Len(queue)
            BY <2>1, <3>1
        <3>2. CASE ~(k \in 1..Len(queue))
            <4>1. k - Len(queue) \in 1..Len(owned[c]) /\ k = Len(queue) + (k - Len(queue))
                BY <2>1, <2>2, <3>2
            <4>2. queue'[k] = [fd |-> Server, msg |-> [kind |-> "release", tid |-> ReleaseTid,
                                          id |-> owned[c][k - Len(queue)], by |-> None]]
                BY <2>1, <4>1
            <4>3. QED
                BY <4>1, <4>2
        <3>3. QED
            BY <3>1, <3>2
    <2>4. \A x : Unowned(x) => StillUnowned(x)
        BY <2>1 DEF Unowned, StillUnowned, Clients
    <2>5. \A x : ~GivenBack(x, c)
        <3> SUFFICES ASSUME NEW x, GivenBack(x, c) PROVE FALSE
            OBVIOUS
        <3>1. queue # <<>> /\ Head(queue).msg.by = c
            BY DEF GivenBack
        <3>2. Head(queue) = queue[1] /\ 1 \in 1..Len(queue)
            BY <3>1, HeadIsFirst
        <3>3. OfClient(queue[1]) \/ OfServer(queue[1])
            BY <1>2, <3>2 DEF QueueInv
        <3>4. QED
            BY <2>1, <2>2, <3>1, <3>2, <3>3 DEF OfClient, OfServer
    <2>6. ASSUME NEW j \in 1..Len(owned[c])
          PROVE  /\ granted[owned[c][j]] = c /\ StillUnowned(owned[c][j]) /\ ~Unowned(owned[c][j])
                 /\ \A i \in 1..Len(owned[c]) : owned[c][i] = owned[c][j] => i = j
        <3> DEFINE x == owned[c][j]
        <3>1. x \in Ids /\ Contains(owned[c], x)
            BY <2>2 DEF Contains
        <3> HIDE DEF x
        <3>2. granted[x] = c
            BY <1>2, <2>1, <2>5, <3>1 DEF OwnedInv
        <3>3. \A d \in Clients \ {c} : ~Contains(owned[d], x)
            BY <1>2, <2>2, <3>1, <3>2 DEF OwnedInv
        <3>4. StillUnowned(x) /\ ~Unowned(x)
            BY <2>1, <3>1, <3>3 DEF Unowned, StillUnowned, Clients
        <3>5. \A i \in 1..Len(owned[c]) : owned[c][i] = owned[c][j] => i = j
            BY <1>2, <2>1 DEF OwnedInv, Distinct
        <3>6. QED
            BY <3>2, <3>4, <3>5 DEF x
    <2>7. ASSUME NEW k \in 1..Len(queue'), queue'[k].fd = Server
          PROVE  /\ StillUnowned(queue'[k].msg.id)
                 /\ granted'[queue'[k].msg.id] # None \/ (k = 1 /\ pend' = <<>>)
                 /\ \A j \in 1..Len(queue') :
                      queue'[j].fd = Server /\ queue'[j].msg.id = queue'[k].msg.id => j = k
        <3>1. CASE k \in 1..Len(queue) /\ queue'[k] = queue[k]
            <4>1. queue # <<>> /\ pend' = pend
                BY <2>1, <2>2, <3>1
            <4>2. /\ Unowned(queue[k].msg.id)
                  /\ granted[queue[k].msg.id] # None \/ (k = 1 /\ pend = <<>>)
                  /\ \A j \in 1..Len(queue) :
                       queue[j].fd = Server /\ queue[j].msg.id = queue[k].msg.id => j = k
                BY <1>2, <2>7, <3>1 DEF ReleaseInv
            <4>3. StillUnowned(queue'[k].msg.id)
                BY <2>4, <3>1, <4>2
            <4>4. \A j \in 1..Len(queue') :
                    queue'[j].fd = Server /\ queue'[j].msg.id = queue'[k].msg.id => j = k
                <5> SUFFICES ASSUME NEW j \in 1..Len(queue'), queue'[j].fd = Server,
                                    queue'[j].msg.id = queue'[k].msg.id
                             PROVE  j = k
                    OBVIOUS
                <5>1. CASE j \in 1..Len(queue) /\ queue'[j] = queue[j]
                    BY <3>1, <4>2, <5>1
                <5>2. ASSUME NEW n \in 1..Len(owned[c]), queue'[j].msg.id = owned[c][n]
                      PROVE  FALSE
                    <6>1. ~Unowned(owned[c][n])
                        BY <2>6
                    <6>2. QED
                        BY <3>1, <4>2, <5>2, <6>1
                <5>3. QED
                    BY <2>3, <5>1, <5>2
            <4>5. QED
                BY <2>1, <3>1, <4>1, <4>2, <4>3, <4>4
        <3>2. ASSUME NEW i \in 1..Len(owned[c]), k = Len(queue) + i, queue'[k].msg.id = owned[c][i]
              PROVE  /\ StillUnowned(queue'[k].msg.id)
                     /\ granted'[queue'[k].msg.id] # None
                     /\ \A j \in 1..Len(queue') :
                          queue'[j].fd = Server /\ queue'[j].msg.id = queue'[k].msg.id => j = k
            <4>1. granted[owned[c][i]] = c /\ StillUnowned(owned[c][i]) /\ ~Unowned(owned[c][i])
                  /\ \A j \in 1..Len(owned[c]) : owned[c][j] = owned[c][i] => j = i
                BY <2>6
            <4>2. StillUnowned(queue'[k].msg.id)
                BY <3>2, <4>1
            <4>3. ASSUME NEW j \in 1..Len(queue'), queue'[j].fd = Server,
                         queue'[j].msg.id = queue'[k].msg.id
                  PROVE  j = k
                <5>1. ~(j \in 1..Len(queue) /\ queue'[j] = queue[j])
                    BY <1>2, <3>2, <4>1, <4>3 DEF ReleaseInv
                <5>2. PICK n \in 1..Len(owned[c]) :
                        j = Len(queue) + n /\ queue'[j].msg.id = owned[c][n]
                    BY <2>3, <5>1
                <5>3. QED
                    BY <3>2, <4>1, <4>3, <5>2
            <4>4. QED
                BY <2>1, <2>2, <3>2, <4>1, <4>2, <4>3
        <3>3. QED
            BY <2>3, <3>1, <3>2
    <2>8. queue' # <<>> /\ pend' = <<>> /\ Head(queue').msg.kind = "release"
            => granted'[Head(queue').msg.id] = None
        <3>1. queue = <<>> /\ queue' # <<>> => pend' # <<>>
            BY <2>1 DEF TypeOK
        <3>2. QED
            BY <1>2, <2>1, <3>1 DEF ReleaseInv
    <2>9. ASSUME NEW k \in 1..Len(rx'), rx'[k].kind = "get", rx'[k].id # NoId
          PROVE  /\ granted'[rx'[k].id] = rx'[k].by /\ StillUnowned(rx'[k].id)
                 /\ \A j \in 1..Len(queue') : queue'[j].fd = Server => queue'[j].msg.id # rx'[k].id
        <3>1. /\ granted[rx[k].id] = rx[k].by /\ Unowned(rx[k].id)
              /\ \A j \in 1..Len(queue) : queue[j].fd = Server => queue[j].msg.id # rx[k].id
            BY <1>2, <2>1, <2>9 DEF ReleaseInv
        <3>2. StillUnowned(rx'[k].id)
            BY <2>1, <2>4, <3>1
        <3>3. \A j \in 1..Len(queue') : queue'[j].fd = Server => queue'[j].msg.id # rx[k].id
            <4> SUFFICES ASSUME NEW j \in 1..Len(queue'), queue'[j].fd = Server,
                                queue'[j].msg.id = rx[k].id
                         PROVE  FALSE
                OBVIOUS
            <4>1. CASE j \in 1..Len(queue) /\ queue'[j] = queue[j]
                BY <3>1, <4>1
            <4>2. ASSUME NEW n \in 1..Len(owned[c]), queue'[j].msg.id = owned[c][n]
                  PROVE  FALSE
                <5>1. ~Unowned(owned[c][n])
                    BY <2>6
                <5>2. QED
                    BY <3>1, <4>2, <5>1
            <4>3. QED
                BY <2>3, <4>1, <4>2
        <3>4. QED
            BY <2>1, <3>1, <3>2, <3>3
    <2>10. QED
        BY <2>7, <2>8, <2>9 DEF ReleaseInv, Unowned, StillUnowned
<1>8. ASSUME NEW c \in Conns, Request(c) PROVE ReleaseInv'
    <2>1. /\ Len(queue') = Len(queue) + 1 /\ queue' # <<>>
          /\ \A k \in 1..Len(queue) : queue'[k] = queue[k]
          /\ queue'[Len(queue) + 1] = [fd |-> fd[c], msg |-> up[c]]
          /\ queue # <<>> => pend' = pend /\ Head(queue') = Head(queue)
          /\ queue = <<>> => pend' = Append(pend, Head(queue').msg)
          /\ UNCHANGED <<rx, fd, owned, granted>> /\ c \in Clients
        BY <1>2, <1>8, RequestStep DEF Request
    <2>2. Len(queue) \in Nat /\ \A k \in 1..Len(queue') : k \in 1..Len(queue) \/ k = Len(queue) + 1
        BY <2>1, HeadIsFirst
    <2>3. queue'[Len(queue) + 1].fd # Server
        BY <2>1 DEF Clients, Server
    <2>4. \A k \in 1..Len(queue') : queue'[k].fd = Server => k \in 1..Len(queue) /\ queue'[k] = queue[k]
        BY <2>1, <2>2, <2>3
    <2>5. \A x : Unowned(x) => StillUnowned(x)
        BY <2>1 DEF Unowned, StillUnowned, Clients
    <2>6. queue = <<>> => pend' # <<>> /\ Len(queue) = 0
        BY <2>1 DEF TypeOK
    <2>7. ASSUME NEW k \in 1..Len(queue'), queue'[k].fd = Server
          PROVE  /\ StillUnowned(queue'[k].msg.id)
                 /\ granted'[queue'[k].msg.id] # None \/ (k = 1 /\ pend' = <<>>)
                 /\ \A j \in 1..Len(queue') :
                      queue'[j].fd = Server /\ queue'[j].msg.id = queue'[k].msg.id => j = k
        <3>1. k \in 1..Len(queue) /\ queue'[k] = queue[k] /\ queue # <<>> /\ pend' = pend
            BY <2>1, <2>4, <2>6, <2>7
        <3>2. Unowned(queue[k].msg.id)
            BY <1>2, <2>7, <3>1 DEF ReleaseInv
        <3>3. StillUnowned(queue[k].msg.id)
            BY <2>5, <3>2
        <3>4. \A j \in 1..Len(queue') :
                queue'[j].fd = Server /\ queue'[j].msg.id = queue'[k].msg.id => j = k
            BY <1>2, <2>4, <2>7, <3>1 DEF ReleaseInv
        <3>5. granted'[queue'[k].msg.id] # None \/ (k = 1 /\ pend' = <<>>)
            BY <1>2, <2>1, <2>7, <3>1 DEF ReleaseInv
        <3>6. QED
            BY <3>1, <3>3, <3>4, <3>5
    <2>8. ASSUME NEW k \in 1..Len(rx'), rx'[k].kind = "get", rx'[k].id # NoId
          PROVE  /\ granted'[rx'[k].id] = rx'[k].by /\ StillUnowned(rx'[k].id)
                 /\ \A j \in 1..Len(queue') : queue'[j].fd = Server => queue'[j].msg.id # rx'[k].id
        <3>1. /\ granted[rx[k].id] = rx[k].by /\ Unowned(rx[k].id)
              /\ \A j \in 1..Len(queue) : queue[j].fd = Server => queue[j].msg.id # rx[k].id
            BY <1>2, <2>1, <2>8 DEF ReleaseInv
        <3>2. StillUnowned(rx[k].id)
            BY <2>5, <3>1
        <3>3. QED
            BY <2>1, <2>4, <3>1, <3>2
    <2>9. queue' # <<>> /\ pend' = <<>> /\ Head(queue').msg.kind = "release"
            => granted'[Head(queue').msg.id] = None
        BY <1>2, <2>1, <2>6 DEF ReleaseInv
    <2>10. QED
        BY <2>7, <2>8, <2>9 DEF ReleaseInv, Unowned, StillUnowned
<1>9. CASE CtlResponse
    <2>1. /\ queue # <<>> /\ NoCtl(rx') /\ queue' = Tail(queue)
          /\ queue' # <<>> => pend' = <<Head(queue').msg>>
          /\ UNCHANGED <<fd, granted>> /\ Clients' = Clients
        BY <1>2, <1>9, ResponseStep DEF Clients
    <2>2. /\ Len(queue') = Len(queue) - 1 /\ Len(queue) \in Nat \ {0}
          /\ \A k \in 1..Len(queue') : queue'[k] = queue[k + 1] /\ k + 1 \in 1..Len(queue)
        BY <2>1, TailOfQueue
    <2>3. \A k \in 1..Len(queue) : queue[k].fd = Server => StillUnowned(queue[k].msg.id)
        <3> SUFFICES ASSUME NEW k \in 1..Len(queue), queue[k].fd = Server
                     PROVE  StillUnowned(queue[k].msg.id)
            OBVIOUS
        <3> DEFINE x == queue[k].msg.id
        <3>1. Unowned(x)
            BY <1>2 DEF ReleaseInv
        <3>2. \A c, y : GetRecorded(c, y) => x # y
            BY DEF GetRecorded
        <3> HIDE DEF x
        <3>3. ASSUME UNCHANGED <<owned, mine>>
              PROVE  StillUnowned(x)
            BY <2>1, <3>1, <3>3 DEF Unowned, StillUnowned
        <3>4. ASSUME NEW c \in Clients, NEW y \in Ids, GetRecorded(c, y) \/ ReleaseRecorded(c, y),
                     \A d \in Clients \ {c} : owned'[d] = owned[d]
              PROVE  StillUnowned(x)
            <4>1. ~Contains(owned'[c], x)
                BY <3>1, <3>2, <3>4 DEF GetRecorded, ReleaseRecorded, Unowned
            <4>2. QED
                BY <2>1, <3>1, <3>4, <4>1 DEF Unowned, StillUnowned
        <3>5. StillUnowned(x)
            BY <1>2, <1>9, <3>3, <3>4, RecordStep
        <3>6. QED
            BY <3>5 DEF x
    <2>4. ASSUME NEW k \in 1..Len(queue'), queue'[k].fd = Server
          PROVE  /\ StillUnowned(queue'[k].msg.id)
                 /\ granted'[queue'[k].msg.id] # None
                 /\ \A j \in 1..Len(queue') :
                      queue'[j].fd = Server /\ queue'[j].msg.id = queue'[k].msg.id => j = k
        <3>1. queue'[k] = queue[k + 1] /\ k + 1 \in 1..Len(queue) /\ k + 1 # 1
            BY <2>2
        <3>2. StillUnowned(queue'[k].msg.id)
            <4>1. queue[k + 1].fd = Server /\ k + 1 \in 1..Len(queue)
                BY <2>4, <3>1
            <4>2. StillUnowned(queue[k + 1].msg.id)
                BY <2>3, <4>1, Zenon
            <4>3. QED
                BY <3>1, <4>2
        <3>3. granted[queue[k + 1].msg.id] # None
            BY <1>2, <2>4, <3>1 DEF ReleaseInv
        <3>4. ASSUME NEW j \in 1..Len(queue'), queue'[j].fd = Server,
                     queue'[j].msg.id = queue'[k].msg.id
              PROVE  j = k
            <4>1. queue'[j] = queue[j + 1] /\ j + 1 \in 1..Len(queue)
                BY <2>2
            <4>2. j + 1 = k + 1
                BY <1>2, <2>4, <3>1, <3>4, <4>1 DEF ReleaseInv
            <4>3. QED
                BY <4>2
        <3>5. QED
            BY <2>1, <3>1, <3>2, <3>3, <3>4
    <2>5. QED
        <3>1. queue' # <<>> => pend' # <<>>
            <4>1. queue' # <<>> => Len(pend') = 1
                BY <2>1
            <4>2. QED
                BY <4>1
        <3>2. \A k \in 1..Len(rx') : rx'[k].kind # "get"
            BY <2>1 DEF NoCtl
        <3>3. QED
            BY <2>4, <3>1, <3>2 DEF ReleaseInv, Unowned, StillUnowned
<1>10. CASE ModemAnswers
    <2> DEFINE h == Head(queue).msg
    <2>1. /\ queue # <<>> /\ pend' = <<>> /\ NoCtl(rx)
          /\ \A c \in Clients : \A x \in Ids : Contains(owned[c], x) => granted[x] = c
          /\ \A k \in 1..Len(queue) : queue[k].fd = Server => granted[queue[k].msg.id] # None
          /\ UNCHANGED <<fd, owned, queue>>
        BY <1>2, <1>10, AnswerStep
    <2>2. PICK r \in Message : rx' = Append(rx, r) /\ AnswerTo(r, h) /\ Done(r)
        BY <1>2, <1>10, AnswerStep
    <2>3. /\ Clients' = Clients /\ \A c \in Clients : c # None
          /\ Head(queue) = queue[1] /\ 1 \in 1..Len(queue)
        BY <2>1, HeadIsFirst, ConstantsAssumption DEF Clients
    <2>4. \A x : Unowned(x) => StillUnowned(x)
        BY <2>1, <2>3 DEF Unowned, StillUnowned
    <2>5. ASSUME NEW k \in 1..Len(queue), queue[k].fd = Server, granted'[queue[k].msg.id] = None
          PROVE  k = 1
        <3> DEFINE x == queue[k].msg.id
        <3>1. granted[x] # None /\ x \in Ids /\ Unowned(x)
            <4>1. OfServer(queue[k])
                BY <1>2, <2>5 DEF QueueInv, OfClient
            <4>2. QED
                BY <1>2, <2>1, <2>5, <4>1 DEF ReleaseInv, OfServer
        <3>2. r.kind = "release" /\ r.id = x
            BY <2>2, <2>5, <3>1 DEF Done, TypeOK
        <3>3. OfServer(Head(queue))
            BY <2>2, <3>1, <3>2 DEF Done, Unowned
        <3>4. queue[1].fd = Server /\ queue[1].msg.id = x
            BY <2>2, <2>3, <3>2, <3>3 DEF OfServer, AnswerTo
        <3>5. QED
            BY <1>2, <2>3, <2>5, <3>4 DEF ReleaseInv
    <2>6. ASSUME NEW k \in 1..Len(queue'), queue'[k].fd = Server
          PROVE  /\ StillUnowned(queue'[k].msg.id)
                 /\ granted'[queue'[k].msg.id] # None \/ (k = 1 /\ pend' = <<>>)
                 /\ \A j \in 1..Len(queue') :
                      queue'[j].fd = Server /\ queue'[j].msg.id = queue'[k].msg.id => j = k
        <3>1. Unowned(queue[k].msg.id)
            BY <1>2, <2>1, <2>6 DEF ReleaseInv
        <3>2. StillUnowned(queue'[k].msg.id)
            BY <2>1, <2>3, <3>1 DEF Unowned, StillUnowned
        <3>3. QED
            BY <1>2, <2>1, <2>5, <2>6, <3>2 DEF ReleaseInv
    <2>7. h.kind = "release" => granted'[h.id] = None
        BY <2>2 DEF AnswerTo, Done, TypeOK
    <2>8. ASSUME NEW k \in 1..Len(rx'), rx'[k].kind = "get", rx'[k].id # NoId
          PROVE  /\ granted'[rx'[k].id] = rx'[k].by /\ StillUnowned(rx'[k].id)
                 /\ \A j \in 1..Len(queue') : queue'[j].fd = Server => queue'[j].msg.id # rx'[k].id
        <3>1. rx'[k] = r
            BY <2>1, <2>2, <2>8, MoreRx DEF NoCtl
        <3>2. r.id \in Ids /\ granted[r.id] = None /\ granted' = [granted EXCEPT ![r.id] = r.by]
            BY <2>2, <2>8, <3>1 DEF Done, Message
        <3>3. Unowned(r.id)
            BY <2>1, <2>3, <3>2 DEF Unowned
        <3>4. StillUnowned(rx'[k].id)
            <4>1. StillUnowned(r.id)
                BY <2>4, <3>3
            <4>2. QED
                BY <3>1, <4>1
        <3>5. granted'[r.id] = r.by
            BY <3>2 DEF TypeOK
        <3>6. \A j \in 1..Len(queue') : queue'[j].fd = Server => queue'[j].msg.id # r.id
            BY <2>1, <3>2
        <3>7. QED
            BY <3>1, <3>4, <3>5, <3>6
    <2>9. QED
        BY <2>1, <2>6, <2>7, <2>8 DEF ReleaseInv, Unowned, StillUnowned
<1>11. CASE UNCHANGED <<queue, pend, rx, fd, owned, mine, granted>>
    <2>1. \A x : Unowned(x) => StillUnowned(x)
        BY <1>11 DEF Unowned, StillUnowned, Clients
    <2>2. QED
        BY <1>3, <1>11, <2>1
<1>12. QED
    BY <1>4, <1>5, <1>6, <1>7, <1>8, <1>9, <1>10, <1>11, ServingSteps

\* A message of another service reaches nobody but the client it is for.
LEMMA MuxStep ==
    ASSUME Faults = {}, TypeOK, AskInv, SyncInv, phase = "serving" => ServeInv,
           [Next]_vars, phase' = "serving"
    PROVE  MuxInv'
<1>1. CASE Opened
    BY <1>1 DEF Opened, MuxInv
<1> SUFFICES ASSUME ServeInv, phase = "serving", ~Opened
             PROVE  MuxInv'
    BY <1>1, ServingSteps
<1>2. QueueInv /\ OwnedInv /\ ReleaseInv /\ MuxInv
    BY DEF ServeInv
<1>3. ASSUME rx' = rx, \A c \in Clients', x \in Ids :
                         Contains(owned'[c], x) => c \in Clients /\ Contains(owned[c], x)
      PROVE  MuxInv'
    <2>1. \A k \in 1..Len(rx) : rx[k].id # NoId => rx[k].id \in Ids
        BY HeadIsFirst DEF Message
    <2>2. QED
        BY <1>2, <1>3, <2>1 DEF MuxInv
<1>4. CASE UNCHANGED <<rx, owned, fd>>
    BY <1>3, <1>4 DEF Clients
<1>5. ASSUME NEW c \in Conns, Accept(c) PROVE MuxInv'
    <2>1. /\ UNCHANGED <<rx, owned>> /\ owned[c] = <<>>
          /\ \A d \in Conns \ {c} : fd'[d] = fd[d]
        BY <1>5 DEF Accept, AskInv, TypeOK
    <2>2. \A x : ~Contains(owned[c], x)
        BY <2>1 DEF Contains
    <2>3. QED
        BY <1>3, <2>1, <2>2 DEF Clients
<1>6. ASSUME NEW c \in Conns, Disconnect(c) PROVE MuxInv'
    <2>1. /\ Clients' = Clients \ {c} /\ rx' = rx
          /\ \A d \in Conns \ {c} : owned'[d] = owned[d]
        BY <1>2, <1>6, DisconnectStep DEF Disconnect
    <2>2. \A d \in Clients' : d \in Clients /\ owned'[d] = owned[d]
        BY <2>1 DEF Clients
    <2>3. QED
        BY <1>3, <2>1, <2>2
<1>7. ASSUME rx # <<>>, rx' = Tail(rx),
             \A k \in 1..Len(rx), c \in Clients' :
               k # 1 /\ rx[k].kind = "mux" /\ rx[k].id # NoId /\ Contains(owned'[c], rx[k].id)
                 => rx[k].by = c
      PROVE  MuxInv'
    <2>1. /\ Len(rx') = Len(rx) - 1 /\ Len(rx) \in Nat \ {0}
          /\ \A k \in 1..Len(rx') : rx'[k] = rx[k + 1] /\ k + 1 \in 1..Len(rx) /\ k + 1 # 1
        BY <1>7, TailOfRx
    <2>2. ASSUME NEW k \in 1..Len(rx'), rx'[k].kind = "mux"
          PROVE  /\ rx'[k].id = NoId => rx'[k].by = None
                 /\ rx'[k].id # NoId =>
                      /\ \A c \in Clients' : Contains(owned'[c], rx'[k].id) => rx'[k].by = c
                      /\ \A j \in 1..(k - 1) :
                           rx'[j].kind = "get" /\ rx'[j].id = rx'[k].id => rx'[k].by = rx'[j].by
        <3>1. rx'[k] = rx[k + 1] /\ k + 1 \in 1..Len(rx) /\ k + 1 # 1
            BY <2>1
        <3>2. rx[k + 1].id = NoId => rx[k + 1].by = None
            BY <1>2, <2>2, <3>1 DEF MuxInv
        <3>3. \A c \in Clients' :
                rx[k + 1].id # NoId /\ Contains(owned'[c], rx[k + 1].id) => rx[k + 1].by = c
            BY <1>7, <2>2, <3>1
        <3>4. \A j \in 1..((k + 1) - 1) :
                rx[k + 1].id # NoId /\ rx[j].kind = "get" /\ rx[j].id = rx[k + 1].id
                  => rx[k + 1].by = rx[j].by
            BY <1>2, <2>2, <3>1 DEF MuxInv
        <3>5. \A j \in 1..(k - 1) : rx'[j] = rx[j + 1] /\ j + 1 \in 1..((k + 1) - 1)
            BY <2>1
        <3>6. QED
            BY <3>1, <3>2, <3>3, <3>4, <3>5
    <2>3. QED
        BY <2>2 DEF MuxInv
<1>8. CASE MuxLeaves
    <2>1. rx # <<>> /\ rx' = Tail(rx) /\ Clients' = Clients /\ owned' = owned
        BY <1>8 DEF MuxLeaves, Clients
    <2>2. QED
        BY <1>2, <1>7, <2>1 DEF MuxInv
<1>9. CASE CtlResponse
    <2>1. /\ rx # <<>> /\ rx' = Tail(rx) /\ Clients' = Clients
        BY <1>2, <1>9, ResponseStep DEF Clients
    <2>2. ASSUME NEW k \in 1..Len(rx), NEW d \in Clients', k # 1, rx[k].kind = "mux",
                 rx[k].id # NoId, Contains(owned'[d], rx[k].id)
          PROVE  rx[k].by = d
        <3>1. /\ \A c \in Clients : Contains(owned[c], rx[k].id) => rx[k].by = c
              /\ \A j \in 1..(k - 1) : rx[j].kind = "get" /\ rx[j].id = rx[k].id
                                         => rx[k].by = rx[j].by
            BY <1>2, <2>2 DEF MuxInv
        <3>2. Contains(owned[d], rx[k].id) => rx[k].by = d
            BY <2>1, <3>1
        <3>3. CASE owned' = owned
            BY <2>2, <3>2, <3>3
        <3>4. ASSUME NEW c \in Clients, NEW x \in Ids, GetRecorded(c, x) \/ ReleaseRecorded(c, x),
                     \A e \in Clients \ {c} : owned'[e] = owned[e]
              PROVE  rx[k].by = d
            <4>1. CASE d # c
                BY <2>1, <2>2, <3>2, <3>4, <4>1
            <4>2. CASE d = c /\ Contains(owned[d], rx[k].id)
                BY <3>2, <4>2
            <4>3. CASE d = c /\ ~Contains(owned[d], rx[k].id)
                <5>1. GetRecorded(c, x) /\ rx[k].id = x
                    BY <2>2, <3>4, <4>3 DEF GetRecorded, ReleaseRecorded
                <5>2. rx[1].kind = "get" /\ rx[1].id = x /\ rx[1].by = c
                    BY <5>1 DEF GetRecorded
                <5>3. 1 \in 1..(k - 1)
                    BY <2>2
                <5>4. QED
                    BY <3>1, <4>3, <5>1, <5>2, <5>3
            <4>4. QED
                BY <4>1, <4>2, <4>3
        <3>5. QED
            BY <1>2, <1>9, <3>3, <3>4, RecordStep
    <2>3. QED
        BY <1>7, <2>1, <2>2
<1>10. ASSUME NEW r \in Message, rx' = Append(rx, r), Clients' = Clients, owned' = owned,
              r.kind = "mux" =>
                /\ r.id = NoId => r.by = None
                /\ r.id # NoId =>
                     /\ \A c \in Clients : Contains(owned[c], r.id) => r.by = c
                     /\ \A j \in 1..Len(rx) : rx[j].kind = "get" /\ rx[j].id = r.id => r.by = rx[j].by
       PROVE  MuxInv'
    <2>1. /\ Len(rx') = Len(rx) + 1 /\ Len(rx) \in Nat
          /\ \A k \in 1..Len(rx) : rx'[k] = rx[k]
          /\ rx'[Len(rx) + 1] = r
        BY <1>10, MoreRx
    <2>2. ASSUME NEW k \in 1..Len(rx'), rx'[k].kind = "mux"
          PROVE  /\ rx'[k].id = NoId => rx'[k].by = None
                 /\ rx'[k].id # NoId =>
                      /\ \A c \in Clients' : Contains(owned'[c], rx'[k].id) => rx'[k].by = c
                      /\ \A j \in 1..(k - 1) :
                           rx'[j].kind = "get" /\ rx'[j].id = rx'[k].id => rx'[k].by = rx'[j].by
        <3>1. \A j \in 1..(k - 1) : j \in 1..Len(rx) /\ rx'[j] = rx[j]
            BY <2>1
        <3>2. CASE k \in 1..Len(rx)
            <4>1. rx'[k] = rx[k]
                BY <2>1, <3>2
            <4>2. /\ rx[k].id = NoId => rx[k].by = None
                  /\ rx[k].id # NoId =>
                       /\ \A c \in Clients : Contains(owned[c], rx[k].id) => rx[k].by = c
                       /\ \A j \in 1..(k - 1) :
                            rx[j].kind = "get" /\ rx[j].id = rx[k].id => rx[k].by = rx[j].by
                BY <1>2, <2>2, <3>2, <4>1 DEF MuxInv
            <4>3. QED
                BY <1>10, <3>1, <4>1, <4>2
        <3>3. CASE k = Len(rx) + 1
            <4>1. rx'[k] = r
                BY <2>1, <3>3
            <4>2. QED
                BY <1>10, <2>2, <3>1, <4>1
        <3>4. QED
            BY <2>1, <3>2, <3>3
    <2>3. QED
        BY <2>2 DEF MuxInv
<1>11. ASSUME NEW x \in Ids \union {NoId}, ModemSends(x) PROVE MuxInv'
    <2> DEFINE r == [kind |-> "mux", tid |-> 0, id |-> x,
                     by |-> IF x = NoId THEN None ELSE granted[x]]
    <2>1. /\ r \in Message /\ r.id = x
          /\ x = NoId => r.by = None
          /\ x # NoId => r.by = granted[x] /\ granted[x] # None
        BY <1>11 DEF Message, Kinds, Askers, TypeOK, ModemSends
    <2>2. rx' = Append(rx, r) /\ Clients' = Clients /\ owned' = owned /\ r.id = x
        BY <1>11 DEF ModemSends, proxyVars, Clients
    <2> HIDE DEF r
    <2>3. x # NoId => \A c \in Clients : Contains(owned[c], x) => granted[x] = c
        BY <1>2, <2>1 DEF OwnedInv
    <2>4. x # NoId => \A j \in 1..Len(rx) : rx[j].kind = "get" /\ rx[j].id = x => granted[x] = rx[j].by
        BY <1>2 DEF ReleaseInv
    <2>5. r.kind = "mux" =>
            /\ r.id = NoId => r.by = None
            /\ r.id # NoId =>
                 /\ \A c \in Clients : Contains(owned[c], r.id) => r.by = c
                 /\ \A j \in 1..Len(rx) : rx[j].kind = "get" /\ rx[j].id = r.id => r.by = rx[j].by
        BY <2>1, <2>2, <2>3, <2>4
    <2>6. r \in Message
        BY <2>1
    <2>7. QED
        BY <1>10, <2>2, <2>5, <2>6
<1>12. CASE ModemAnswers
    <2>1. PICK r \in Message : rx' = Append(rx, r) /\ Done(r)
        BY <1>2, <1>12, AnswerStep
    <2>2. r.kind # "mux" /\ Clients' = Clients /\ owned' = owned
        BY <1>2, <1>12, <2>1, AnswerStep DEF Done, Clients
    <2>3. QED
        BY <1>10, <2>1, <2>2
<1>13. ASSUME NEW c \in Conns, Request(c) PROVE MuxInv'
    BY <1>4, <1>13 DEF Request
<1>14. QED
    BY <1>4, <1>5, <1>6, <1>8, <1>9, <1>11, <1>12, <1>13, ServingSteps

\* What becomes of a client id that the modem has granted.
LEMMA LeakStep ==
    ASSUME Faults = {}, TypeOK, AskInv, SyncInv, phase = "serving" => ServeInv,
           [Next]_vars, phase' = "serving"
    PROVE  NoIdLeaks'
<1>1. CASE Opened
    BY <1>1 DEF Opened, NoIdLeaks
<1> SUFFICES ASSUME ServeInv, phase = "serving", ~Opened, NEW x \in Ids, granted'[x] # None
             PROVE  Accounted(x)'
    BY <1>1, ServingSteps DEF NoIdLeaks
<1>2. QueueInv /\ OwnedInv /\ ReleaseInv /\ \A y \in Ids : granted[y] # None => Accounted(y)
    BY DEF ServeInv, NoIdLeaks
<1> DEFINE Waits == \E k \in 1..Len(rx) : rx[k].kind = "get" /\ rx[k].id = x
           Kept == \E k \in 1..Len(queue) : queue[k].fd = Server /\ queue[k].msg.id = x
<1>3. CASE UNCHANGED <<queue, rx, fd, owned, granted>>
    BY <1>2, <1>3 DEF Accounted, Clients
<1>4. ASSUME NEW c \in Conns, Accept(c) PROVE Accounted(x)'
    <2>1. UNCHANGED <<queue, rx, owned, granted>> /\ \A d \in Clients : d \in Clients'
        BY <1>4 DEF Accept, Clients, TypeOK
    <2>2. QED
        BY <1>2, <2>1 DEF Accounted
<1>5. ASSUME NEW c \in Conns, Disconnect(c) PROVE Accounted(x)'
    <2>1. /\ Len(queue') = Len(queue) + Len(owned[c])
          /\ \A k \in 1..Len(queue) : queue'[k] = queue[k]
          /\ \A k \in 1..Len(owned[c]) :
               queue'[Len(queue) + k] =
                 [fd |-> Server, msg |-> [kind |-> "release", tid |-> ReleaseTid,
                                          id |-> owned[c][k], by |-> None]]
          /\ Clients' = Clients \ {c}
          /\ \A d \in Conns \ {c} : owned'[d] = owned[d]
          /\ UNCHANGED <<rx, granted>>
        BY <1>2, <1>5, DisconnectStep DEF Disconnect
    <2>2. Len(queue) \in Nat /\ Len(owned[c]) \in Nat
        BY HeadIsFirst DEF TypeOK
    <2>3. ASSUME NEW d \in Clients, d # c, Contains(owned[d], x)
          PROVE  Accounted(x)'
        BY <2>1, <2>3 DEF Accounted, Clients
    <2>4. ASSUME Contains(owned[c], x) PROVE Accounted(x)'
        <3>1. PICK k \in 1..Len(owned[c]) : owned[c][k] = x
            BY <2>4 DEF Contains
        <3>2. Len(queue) + k \in 1..Len(queue')
            BY <2>1, <2>2
        <3>3. queue'[Len(queue) + k].fd = Server /\ queue'[Len(queue) + k].msg.id = x
            <4>1. queue'[Len(queue) + k] =
                    [fd |-> Server, msg |-> [kind |-> "release", tid |-> ReleaseTid, id |-> x,
                                             by |-> None]]
                BY <2>1, <3>1
            <4>2. QED
                BY <4>1
        <3>4. QED
            BY <3>2, <3>3 DEF Accounted
    <2>5. Waits => Accounted(x)'
        BY <2>1 DEF Accounted
    <2>6. Kept => Accounted(x)'
        <3>1. \A k \in 1..Len(queue) : k \in 1..Len(queue')
            BY <2>1, <2>2
        <3>2. QED
            BY <2>1, <3>1 DEF Accounted
    <2>7. QED
        BY <1>2, <2>1, <2>3, <2>4, <2>5, <2>6 DEF Accounted
<1>6. ASSUME NEW c \in Conns, Request(c) PROVE Accounted(x)'
    <2>1. /\ Len(queue') = Len(queue) + 1
          /\ \A k \in 1..Len(queue) : queue'[k] = queue[k]
          /\ UNCHANGED <<rx, fd, owned, granted>>
        BY <1>2, <1>6, RequestStep DEF Request
    <2>2. \A k \in 1..Len(queue) : k \in 1..Len(queue')
        BY <2>1, HeadIsFirst
    <2>3. Kept => Accounted(x)'
        BY <2>1, <2>2 DEF Accounted
    <2>4. QED
        BY <1>2, <2>1, <2>3 DEF Accounted, Clients
<1>7. CASE MuxLeaves
    <2>1. /\ rx # <<>> /\ Head(rx).kind = "mux" /\ rx' = Tail(rx)
          /\ UNCHANGED <<queue, fd, owned, granted>>
        BY <1>7 DEF MuxLeaves
    <2>2. Waits => Accounted(x)'
        <3> SUFFICES ASSUME NEW k \in 1..Len(rx), rx[k].kind = "get", rx[k].id = x
                     PROVE  Accounted(x)'
            OBVIOUS
        <3>1. k # 1
            BY <2>1, HeadIsFirst
        <3>2. k - 1 \in 1..Len(rx') /\ rx'[k - 1] = rx[k]
            <4>1. Len(rx') = Len(rx) - 1 /\ Len(rx) \in Nat
                BY <2>1, TailOfRx
            <4>2. k - 1 \in 1..Len(rx') /\ (k - 1) + 1 = k
                BY <3>1, <4>1
            <4>3. QED
                BY <2>1, <4>2, TailOfRx
        <3>3. QED
            BY <3>2 DEF Accounted
    <2>3. QED
        BY <1>2, <2>1, <2>2 DEF Accounted, Clients
<1>8. ASSUME NEW y \in Ids \union {NoId}, ModemSends(y) PROVE Accounted(x)'
    <2> DEFINE r == [kind |-> "mux", tid |-> 0, id |-> y,
                     by |-> IF y = NoId THEN None ELSE granted[y]]
    <2>1. r \in Message
        BY DEF Message, Kinds, Askers, TypeOK
    <2>2. rx' = Append(rx, r) /\ UNCHANGED <<queue, fd, owned, granted>>
        BY <1>8 DEF ModemSends, proxyVars
    <2> HIDE DEF r
    <2>3. Waits => Accounted(x)'
        BY <2>1, <2>2, MoreRx DEF Accounted
    <2>4. QED
        BY <1>2, <2>2, <2>3 DEF Accounted, Clients
<1>9. CASE ModemAnswers
    <2>1. UNCHANGED <<fd, owned, queue>>
        BY <1>2, <1>9, AnswerStep
    <2>2. PICK r \in Message : rx' = Append(rx, r) /\ Done(r)
        BY <1>2, <1>9, AnswerStep
    <2>3. CASE granted[x] # None
        <3>1. Waits => Accounted(x)'
            BY <2>2, MoreRx DEF Accounted
        <3>2. QED
            BY <1>2, <2>1, <2>3, <3>1 DEF Accounted, Clients
    <2>4. CASE granted[x] = None
        <3>1. r.kind = "get" /\ r.id = x
            BY <2>2, <2>4 DEF Done, TypeOK
        <3>2. QED
            BY <2>2, <3>1, MoreRx DEF Accounted
    <2>5. QED
        BY <2>3, <2>4
<1>10. CASE CtlResponse
    <2> DEFINE h == Head(queue).msg
    <2>1. /\ queue # <<>> /\ pend = <<>> /\ rx # <<>> /\ rx' = Tail(rx) /\ NoCtl(rx')
          /\ AnswerTo(Head(rx), h) /\ queue' = Tail(queue)
          /\ UNCHANGED <<fd, granted>> /\ Clients' = Clients
        BY <1>2, <1>10, ResponseStep DEF Clients
    <2>2. /\ Head(queue) = queue[1] /\ 1 \in 1..Len(queue)
          /\ Head(rx) = rx[1] /\ 1 \in 1..Len(rx) /\ x # NoId /\ granted[x] # None
        BY <2>1, HeadIsFirst, ConstantsAssumption DEF NoId
    <2>3. ASSUME NEW d \in Clients, Contains(owned[d], x) PROVE Accounted(x)'
        <3>1. Contains(owned'[d], x)
            <4>1. CASE owned' = owned
                BY <2>3, <4>1
            <4>2. ASSUME NEW c \in Clients, NEW y \in Ids, GetRecorded(c, y) \/ ReleaseRecorded(c, y),
                         \A e \in Clients \ {c} : owned'[e] = owned[e]
                  PROVE  Contains(owned'[d], x)
                <5>1. CASE d # c
                    BY <2>3, <4>2, <5>1
                <5>2. CASE d = c
                    BY <2>2, <2>3, <4>2, <5>2 DEF GetRecorded, ReleaseRecorded
                <5>3. QED
                    BY <5>1, <5>2
            <4>3. QED
                BY <1>2, <1>10, <4>1, <4>2, RecordStep
        <3>2. QED
            BY <2>1, <3>1 DEF Accounted
    <2>4. Waits => Accounted(x)'
        <3> SUFFICES ASSUME NEW k \in 1..Len(rx), rx[k].kind = "get", rx[k].id = x
                     PROVE  Accounted(x)'
            OBVIOUS
        <3>1. k = 1
            <4> SUFFICES ASSUME k # 1 PROVE FALSE
                OBVIOUS
            <4>1. Len(rx') = Len(rx) - 1 /\ Len(rx) \in Nat
                BY <2>1, TailOfRx
            <4>2. k - 1 \in 1..Len(rx') /\ (k - 1) + 1 = k
                BY <4>1
            <4>3. rx'[k - 1] = rx[k]
                BY <2>1, <4>2, TailOfRx
            <4>4. QED
                BY <2>1, <4>2, <4>3 DEF NoCtl
        <3>2. h.kind = "get" /\ rx[1].kind = "get" /\ rx[1].id = x
            BY <2>1, <2>2, <3>1 DEF AnswerTo
        <3>3. PICK c \in Clients, y \in Ids : GetRecorded(c, y) \/ ReleaseRecorded(c, y)
            BY <1>2, <1>10, <2>2, <3>2, RecordStep
        <3>4. GetRecorded(c, y) /\ y = x
            BY <3>2, <3>3 DEF GetRecorded, ReleaseRecorded
        <3>5. Contains(owned'[c], x)
            BY <3>4 DEF GetRecorded
        <3>6. QED
            BY <2>1, <3>5 DEF Accounted
    <2>5. Kept => Accounted(x)'
        <3> SUFFICES ASSUME NEW k \in 1..Len(queue), queue[k].fd = Server, queue[k].msg.id = x
                     PROVE  Accounted(x)'
            OBVIOUS
        <3>1. k # 1
            <4> SUFFICES ASSUME k = 1 PROVE FALSE
                OBVIOUS
            <4>1. OfServer(queue[1])
                BY <1>2, <2>2 DEF QueueInv, OfClient
            <4>2. granted[h.id] = None
                BY <1>2, <2>1, <2>2, <4>1 DEF ReleaseInv, OfServer
            <4>3. QED
                BY <2>2, <4>2
        <3>2. Len(queue') = Len(queue) - 1 /\ Len(queue) \in Nat
            BY <2>1, TailOfQueue
        <3>3. k - 1 \in 1..Len(queue') /\ (k - 1) + 1 = k
            BY <3>1, <3>2
        <3>4. queue'[k - 1] = queue[k]
            BY <2>1, <3>3, TailOfQueue
        <3>5. QED
            BY <3>3, <3>4 DEF Accounted
    <2>6. QED
        BY <1>2, <2>2, <2>3, <2>4, <2>5 DEF Accounted
<1>11. QED
    BY <1>3, <1>4, <1>5, <1>6, <1>7, <1>8, <1>9, <1>10, ServingSteps

\* A client is given nothing that is not for it.
LEMMA ApartStep ==
    ASSUME Faults = {}, TypeOK, AskInv, SyncInv, phase = "serving" => ServeInv,
           AnswersKeptApart, [Next]_vars
    PROVE  AnswersKeptApart'
<1>1. CASE got' = got
    BY <1>1 DEF AnswersKeptApart
<1>2. CASE CtlResponse /\ phase' = "serving"
    <2>1. phase = "serving" /\ QueueInv
        BY <1>2 DEF CtlResponse, ServeInv
    <2>2. /\ AnswerTo(Head(rx), Head(queue).msg)
          /\ \/ got' = got
             \/ LET c == Head(queue).msg.by
                IN  got' = [got EXCEPT ![c] = @ \union {Head(rx).by}]
        BY <1>2, <2>1, ResponseStep
    <2>3. CASE LET c == Head(queue).msg.by
               IN  got' = [got EXCEPT ![c] = @ \union {Head(rx).by}]
        BY <2>2, <2>3 DEF AnswersKeptApart, AnswerTo, TypeOK
    <2>4. QED
        BY <1>1, <2>2, <2>3
<1>3. CASE CtlResponse /\ phase' # "serving"
    BY <1>1, <1>3 DEF CtlResponse, Killed, mainVars
<1>4. CASE MuxMessage
    <2> DEFINE m == Head(rx)
    <2>1. phase = "serving" /\ MuxInv /\ rx # <<>> /\ m.kind = "mux" /\ m = rx[1] /\ 1 \in 1..Len(rx)
        BY <1>4, HeadIsFirst DEF MuxMessage, ServeInv
    <2>2. /\ m.id = NoId => m.by = None
          /\ m.id # NoId => \A c \in Clients : Contains(owned[c], m.id) => m.by = c
        BY <2>1 DEF MuxInv
    <2>3. CASE got' = [c \in Conns |-> IF c \in Clients /\ HasId(c, m) THEN got[c] \union {m.by}
                                                                     ELSE got[c]]
        <3>1. ASSUME NEW c \in Clients, HasId(c, m) PROVE m.by \in {c, None}
            BY <2>2, <3>1 DEF HasId, Contains
        <3>2. QED
            BY <2>3, <3>1 DEF AnswersKeptApart
    <2>4. QED
        BY <1>1, <1>4, <2>3 DEF MuxMessage, Killed
<1>5. QED
    BY <1>1, <1>2, <1>3, <1>4, Steps
       DEF OpenDevice, SendSync, Serve, FirstMessage, Restart, EndRound, ModemAnswers,
           ModemSends, Accept, Disconnect, Request, ClientConnects, ClientAsks, ClientLeaves,
           CtlIndication, Next, Main, Loop, Environment, Dead, ModemRevokes, ClientGivesUp, vars

LEMMA StepIInv ==
    ASSUME Faults = {}, TypeOK, IInv, [Next]_vars
    PROVE  IInv'
<1>1. /\ AskInv /\ SyncInv /\ AnswersKeptApart
      /\ phase = "serving" => ServeInv /\ QueueInv
    BY DEF IInv, ServeInv
<1>2. AskInv' /\ SyncInv' /\ AnswersKeptApart'
    BY <1>1, AskStep, SyncStep, ApartStep
<1>3. phase' = "serving" => QueueInv' /\ OwnedInv' /\ ReleaseInv' /\ MuxInv' /\ NoIdLeaks'
    BY <1>1, QueueStep, OwnedStep, ReleaseStep, MuxStep, LeakStep
<1>4. QED
    BY <1>2, <1>3 DEF IInv

-----------------------------------------------------------------------------
LEMMA Inductive == ASSUME Faults = {} PROVE Spec => [](TypeOK /\ IInv)
<1>1. Init => TypeOK /\ IInv
    BY InitType, InitIInv
<1>2. TypeOK /\ IInv /\ [Next]_vars => (TypeOK /\ IInv)'
    BY StepType, StepIInv
<1>3. QED
    BY <1>1, <1>2, PTL DEF Spec

\* Of the CTL requests one at a time is at the modem, the one at the head of the
\* queue: recv_qmi_from_client sends one that finds the queue empty, recv_qmi_from_dev
\* the next one when it drops the head, and cleanup_qmi_connection never drops one
\* that is at the modem.
THEOREM OneRequestAtATime == ASSUME Faults = {} PROVE Spec => []OneAtATime
<1>1. TypeOK /\ IInv => OneAtATime
    <2> SUFFICES ASSUME TypeOK, AskInv, QueueInv
                 PROVE  /\ queue = <<>> => CtlAtModem = {}
                        /\ queue # <<>> =>
                             \E m \in CtlAtModem :
                               /\ CtlAtModem = {m} /\ Matches(Head(queue), m)
                               /\ Head(queue).msg.by = m.by
        BY DEF IInv, OneAtATime
    <2>1. /\ DOMAIN pend = 1..Len(pend) /\ DOMAIN rx = 1..Len(rx)
          /\ queue # <<>> => Head(queue) = queue[1] /\ 1 \in 1..Len(queue)
        BY HeadIsFirst DEF TypeOK
    <2>2. /\ \A m : m \in CtlAtModem <=>
               /\ m.kind \in CtlKinds
               /\ (\E k \in 1..Len(pend) : m = pend[k]) \/ (\E k \in 1..Len(rx) : m = rx[k])
        BY <2>1 DEF CtlAtModem, AtModem, ToSet
    <2>3. "mux" \notin CtlKinds
        BY DEF CtlKinds
    <2>4. NoCtl(rx) => \A k \in 1..Len(rx) : rx[k].kind \notin CtlKinds
        BY <2>3 DEF NoCtl
    <2>5. pend = <<>> => \A k \in 1..Len(pend) : FALSE
        OBVIOUS
    <2>6. queue = <<>> => CtlAtModem = {}
        BY <2>2, <2>4, <2>5 DEF QueueInv
    <2>7. CASE queue # <<>> /\ Sent
        <3> DEFINE h == Head(queue).msg
        <3>1. h.kind \in CtlKinds
            BY <2>1, <2>7, QueueKinds
        <3>2. Len(pend) = 1 /\ pend[1] = h
            BY <2>7 DEF Sent
        <3>3. \A m : m \in CtlAtModem <=> m = h
            BY <2>2, <2>4, <2>7, <3>1, <3>2 DEF Sent
        <3> HIDE DEF h
        <3>4. CtlAtModem = {h} /\ h \in CtlAtModem
            BY <3>3
        <3>5. Matches(Head(queue), h) /\ Head(queue).msg.by = h.by
            BY DEF Matches, h
        <3>6. QED
            BY <2>7, <3>4, <3>5
    <2>8. CASE queue # <<>> /\ Answered
        <3> DEFINE h == Head(queue).msg
        <3>1. h.kind \in CtlKinds
            BY <2>1, <2>8, QueueKinds
        <3>2. PICK k \in 1..Len(rx) : /\ AnswerTo(rx[k], h)
                                      /\ \A j \in 1..Len(rx) : j # k => rx[j].kind = "mux"
            BY <2>8 DEF Answered
        <3>3. \A m : m \in CtlAtModem <=> m = rx[k]
            BY <2>2, <2>3, <2>5, <2>8, <3>1, <3>2 DEF Answered, AnswerTo
        <3>4. Matches(Head(queue), rx[k]) /\ h.by = rx[k].by
            BY <3>2 DEF Matches, AnswerTo
        <3>5. CtlAtModem = {rx[k]} /\ rx[k] \in CtlAtModem
            BY <3>3
        <3>6. QED
            BY <2>8, <3>4, <3>5
    <2>9. QED
        BY <2>6, <2>7, <2>8 DEF QueueInv
<1>2. QED
    BY <1>1, Inductive, PTL

\* A client is given the answers to its own requests and the messages for its own
\* client ids: Matches compares no more than a transaction id that several clients
\* use, and what makes it enough is that one request is at the modem at a time.
THEOREM AnswersApart == ASSUME Faults = {} PROVE Spec => []AnswersKeptApart
<1>1. TypeOK /\ IInv => AnswersKeptApart
    BY DEF IInv
<1>2. QED
    BY <1>1, Inductive, PTL

\* The proxy never records one client id for two connections, nor twice for one:
\* one is recorded only when the modem has just granted it, after whoever had it
\* has given it back.
THEOREM OneOwnerOfAnId == ASSUME Faults = {} PROVE Spec => []OneOwner
<1>1. TypeOK /\ IInv => OneOwner
    <2> SUFFICES ASSUME TypeOK, IInv, NEW c \in Clients, NEW d \in Clients,
                        NEW j \in 1..Len(owned[c]), NEW k \in 1..Len(owned[d]),
                        owned[c][j] = owned[d][k]
                 PROVE  c = d /\ j = k
        BY DEF OneOwner
    <2>1. OwnedInv
        BY DEF IInv, SyncInv
    <2>2. c \in Conns /\ d \in Conns /\ c # None /\ d # None
        BY ConstantsAssumption DEF Clients
    <2>3. /\ owned[c][j] \in Ids
          /\ Contains(owned[c], owned[c][j]) /\ Contains(owned[d], owned[c][j])
        BY <2>2 DEF TypeOK, Contains
    <2>4. c = d
        BY <2>1, <2>2, <2>3 DEF OwnedInv, GivenBack
    <2>5. QED
        BY <2>1, <2>4 DEF OwnedInv, Distinct
<1>2. QED
    BY <1>1, Inductive, PTL

\* A client id that the modem has granted is recorded for a client, is about to
\* be, or is to be released by the proxy: cleanup_qmi_connection and the clients
\* between them lose none.
THEOREM NoIdIsLost == ASSUME Faults = {} PROVE Spec => []NoIdLeaks
<1>1. TypeOK /\ IInv => NoIdLeaks
    BY DEF IInv, NoIdLeaks
<1>2. QED
    BY <1>1, Inductive, PTL
=============================================================================
