--------------------------- MODULE GobiInvariants ---------------------------
(***************************************************************************)
(* What the properties of GobiClient rest on: invariants that every step   *)
(* keeps, as GobiClientProofs shows, and the words the proofs use.         *)
(***************************************************************************)
EXTENDS GobiClient

\* What the types rest on.

Releasing == {"find", "notify", "up", "urbs"}

\* What a thread can be called with where it is.
CallInv(t) ==
  /\ call[t].op \in {"get", "rel", "write"} => t \in ReleaseThreads
  /\ call[t].op \in {"ready", "sync"} => t = SyncT
  /\ call[t].op \in CtlOps /\ pc[t] \notin Releasing => call[t].cid = CTL /\ call[t].rid # CTL
  /\ call[t].op \in {"write", "read"} => call[t].cid \in Ids /\ call[t].rid = NoId
  /\ pc[t] \in Writing => call[t].op \in CtlOps \union {"write"}
  /\ pc[t] \in {"try", "giveup"} => call[t].op \in {"sync", "get", "rel", "read"}
  /\ pc[t] = "asleep" => call[t].op \in {"ready", "sync", "get", "rel", "read"}
  /\ pc[t] = "giveup" => t \in UserThreads
  /\ pc[t] \in {"insert", "named"} => call[t].op = "get" /\ call[t].rid \in Ids
  /\ pc[t] \in Releasing => call[t].op = "rel"
  /\ call[t].op = "none" => pc[t] = "idle"

\* The start-up and where its thread is.
SyncInv ==
  /\ stage = "ready" => call[SyncT].op \in {"none", "ready"}
  /\ stage = "ready" /\ pc[SyncT] = "idle" => tries < MaxTries
  /\ stage = "done" => pc[SyncT] = "idle" /\ call[SyncT].op \in {"none", "ready"}
  /\ (call[SyncT].op = "get" /\ pc[SyncT] = "idle") \/ call[SyncT].op = "write"
        => id["driver"] \in Ids

\* A URB at the controller is the one its thread waits for.
UsbInv ==
  /\ \A k \in 1..Len(usb) :
       /\ usb[k] = MyUrb(usb[k].t)
       /\ pc[usb[k].t] = "written" /\ done[usb[k].t] = "no"
  /\ \A j, k \in 1..Len(usb) : usb[j].t = usb[k].t => j = k
  /\ \A t \in Threads : pc[t] = "submit" /\ t \notin freedUrb => done[t] = "no"

\* The read callback holds the lock while it is at a client.
WalkInv ==
  cb.pc = "walk" => /\ lock = NoThread
                    /\ \E i \in 1..Len(clients) : RefOf(clients[i]) = cb.at

TInv == TypeOK /\ (\A t \in Threads : CallInv(t)) /\ SyncInv /\ UsbInv /\ WalkInv

-----------------------------------------------------------------------------
\* What safety rests on, until clients are released under running calls.

Has(h, c) == \E i \in 1..Len(clients) : clients[i].id = c /\ clients[i].owner = h

\* QMICTL is the first client; no two clients have an id in common.
ListInv ==
  /\ Len(clients) > 0 /\ clients[1].id = CTL
  /\ \A i, j \in 1..Len(clients) : clients[i].id = clients[j].id => i = j

\* The client a thread works with is its file's; who releases one is the last
\* who knows it.
OwnOf(t) ==
  /\ pc[t] = "named" => Has(t[1], call[t].rid)
  /\ pc[t] # "idle" /\ call[t].op = "rel" =>
       Has(t[1], call[t].rid) /\ id[t[1]] = NoId /\ call[t].rid \in Ids
  /\ call[t].op \in {"write", "read"} => call[t].cid = id[t[1]]
  /\ t \in UserThreads => /\ pc[t] = "idle" => call[t] = NoCall
                          /\ call[t].op = "get" => id[t[1]] = NoId
  /\ t = ExitT => pc[t] = "idle" /\ call[t] = NoCall
OwnInv ==
  /\ \A h \in Holders : id[h] # NoId => Has(h, id[h])
  /\ \A t \in Threads : OwnOf(t)

\* The URB in the list of a client other than QMICTL is that of its one writer.
HasUrb(c, t) ==
  \E i \in 1..Len(clients) :
     clients[i].id = c /\ \E k \in 1..Len(clients[i].urbs) : clients[i].urbs[k].t = t
OneUrb == \A i \in 1..Len(clients) : clients[i].id # CTL => Len(clients[i].urbs) <= 1
UrbOf(t) ==
  \A c \in Ids : HasUrb(c, t) =>
     pc[t] \in {"submit", "written"} /\ call[t].op = "write" /\ call[t].cid = c
UrbInv == freedUrb = {} /\ OneUrb /\ \A t \in Threads : UrbOf(t)

\* A thread to notify sleeps on the client, was not notified yet and is not
\* about to be; only QMIReady may have left its entry behind.
Waiting(t) ==
  \/ pc[t] \in {"asleep", "giveup"}
  \/ call[t].op = "ready" /\ pc[t] \in Writing
CbFor(t) == cb.pc = "up" /\ cb.who = t
WdsDone == stage \in {"dms", "done"}
EntryOf(t) ==
  \A c \in Ids \union {CTL}, x \in 0..MaxTid : HasEntry(c, t, x) =>
    \/ Waiting(t) /\ call[t].cid = c /\ call[t].tid = x /\ ~woken[t] /\ ~CbFor(t)
    \/ t = SyncT /\ stage = "done" /\ c = CTL
Once(l) == \A j, k \in 1..Len(l) : l[j].t = l[k].t /\ l[j].t # WdsCb => j = k
OneEntry == \A i \in 1..Len(clients) : Once(clients[i].notify)
WdsEntry ==
  \A c \in Ids \union {CTL}, x \in 0..MaxTid : HasEntry(c, WdsCb, x) => c = wds /\ WdsDone
CbInv ==
  cb.pc = "up" =>
    /\ cb.who = WdsCb => WdsDone
    /\ cb.who \in Threads => \/ Waiting(cb.who) /\ ~woken[cb.who]
                             \/ cb.who = SyncT /\ stage = "done"
WaitInv == CbInv /\ OneEntry /\ WdsEntry /\ \A t \in Threads : EntryOf(t)

\* The driver's WDS client is never released.
WdsInv ==
  /\ wds # NoId => Has("driver", wds) /\ stage \in {"wds", "dms", "done"}
  /\ call[SyncT].op = "rel" /\ pc[SyncT] # "idle" => call[SyncT].rid # wds
  /\ call[SyncT].op = "read" => stage # "wds"
  /\ stage = "dms" /\ \/ call[SyncT].op = "get" /\ pc[SyncT] = "idle"
                      \/ call[SyncT].op \in {"write", "read"}
       => id["driver"] # wds
  /\ stage = "dms" /\ pc[SyncT] = "named" => call[SyncT].rid # wds

\* The start-up goes one way; files are used when it is over.
StartInv ==
  /\ call[SyncT].op = "ready" => stage \in {"ready", "done"}
  /\ call[SyncT].op = "sync" => stage = "sync"
  /\ stage # "done" => \A f \in Files : /\ id[f] = NoId
                                        /\ pc[Main(f)] = "idle" /\ pc[Reader(f)] = "idle"

\* ReleaseClientID keeps the lock from the look at the list to the change of it:
\* there is nobody to notify and no URB to kill.
DelOf(t) ==
  /\ pc[t] # "up"
  /\ pc[t] \in {"notify", "urbs"} =>
       /\ lock = t
       /\ \E i \in 1..Len(clients) :
            /\ clients[i].id = call[t].rid /\ RefOf(clients[i]) = del[t].this
            /\ At(i - 1) = del[t].prev /\ At(i + 1) = del[t].next
DelInv == \A t \in Threads : DelOf(t)

\* A sleeping reader's client is in the list.
MemOf(t) ==
  pc[t] \in {"asleep", "giveup"} /\ call[t].op # "ready" =>
    \E i \in 1..Len(clients) : RefOf(clients[i]) = mem[t] /\ clients[i].id = call[t].cid
MemInv == \A t \in Threads : MemOf(t)

Safe == /\ valid /\ ListInv /\ OwnInv /\ UrbInv /\ WaitInv /\ WdsInv /\ StartInv
        /\ DelInv /\ MemInv
SInv == Disturbed \/ Safe

\* The read callback is without the lock, its client named by cb.at: while
\* nothing has gone wrong the client is in the list, and the release of it, if
\* there is one, waits for the completion of its URB, which comes after this
\* callback.
Late(t) == pc[t] \in Writing /\ (pc[t] # "add" => done[t] = "no")
CbAt ==
  cb.pc \in {"up", "on"} =>
    /\ \E i \in 1..Len(clients) : RefOf(clients[i]) = cb.at
    /\ \A t \in Threads :
         pc[t] # "idle" /\ call[t].op = "rel" /\ call[t].rid = cb.at.id => Late(t)
CInv == Disturbed \/ (spent.fault = 0 => attached /\ CbAt)

-----------------------------------------------------------------------------
\* Whose answers are under way and stored, while transaction ids do not come
\* round too soon.

\* An answer to transaction x of thread b in the list of QMICTL.
Stored(cs, x, b) ==
  \E i \in 1..Len(cs) : /\ cs[i].id = CTL
                        /\ \E k \in 1..Len(cs[i].list) : /\ cs[i].list[k].tid = x
                                                         /\ cs[i].list[k].by = b
From(x, b) == AtModem(x, b) \/ AtCallback(x, b) \/ Stored(clients, x, b)

\* QMICTL is the first client or none; the callback is at it with messages to it
\* only; no release takes it for the next one.
CtlInv ==
  /\ \A i \in 1..Len(clients) : clients[i].id = CTL => i = 1
  /\ cb.pc = "walk" /\ cb.at.id = CTL => cb.msg.to = CTL
  /\ \A t \in Threads : pc[t] \in {"notify", "up", "urbs"} => del[t].next.id # CTL
TidInv == \A t, u \in Threads : Pend(t) /\ Pend(u) /\ call[t].tid = call[u].tid => t = u
\* What is under the id of a call is its own.
OwnFrom == \A t \in Threads, b \in Threads : Pend(t) /\ From(call[t].tid, b) => b = t
AInv == CtlInv /\ TidInv /\ OwnFrom

-----------------------------------------------------------------------------
\* Who waits for what, until clients are released under running calls, while
\* transaction ids do not come round too soon.

\* Reads are done by a file's reader and by qmi_sync_thread.
ReadersOnly == \A t \in Threads : call[t].op = "read" => t \notin ReleaseThreads \/ t = SyncT
\* What waits under the id of a call waits for that call.
PendTid == \A t \in Threads : Pend(t) => call[t].tid # 0
CtlEntries ==
  \A t \in Threads, x \in 0..MaxTid : HasEntry(CTL, t, x) =>
    x # 0 /\ \A u \in Threads : Pend(u) /\ call[u].tid = x => u = t
\* At a client other than QMICTL one reader at most waits, or QMIWDSCallback.
OneWaiter == \A i \in 1..Len(clients) : clients[i].id # CTL => Len(clients[i].notify) <= 1
WdsOnce ==
  cb.pc = "up" /\ cb.who = WdsCb =>
    \A c \in Ids \union {CTL}, x \in 0..MaxTid : ~HasEntry(c, WdsCb, x)
\* Nothing is stored that somebody waits for.
NoData ==
  \A i \in 1..Len(clients) :
    \A k \in 1..Len(clients[i].notify), j \in 1..Len(clients[i].list) :
      clients[i].notify[k].tid \notin {0, clients[i].list[j].tid}
\* Who waits, was not notified and is not about to be, is in the list.
ListedOf(t) ==
  Waiting(t) /\ ~woken[t] /\ ~CbFor(t) => HasEntry(call[t].cid, t, call[t].tid)
Listed == \A t \in Threads : ListedOf(t)

Heard == /\ ReadersOnly /\ PendTid /\ CtlEntries /\ OneWaiter /\ WdsOnce /\ NoData /\ Listed
DInv == Disturbed \/ Heard
-----------------------------------------------------------------------------
\* What the steps change and leave alone: the words the proofs are stated in.

\* What is left of a list without the messages of a transaction.
Left(l, x) == {m \in Msg : m.tid # x /\ \E j \in 1..Len(l) : l[j] = m}

\* What changes leave alone: the clients and their order, their readers, their
\* writes.
Same(cs, ds) ==
  /\ Len(ds) = Len(cs)
  /\ \A i \in 1..Len(cs) : ds[i].id = cs[i].id /\ ds[i].owner = cs[i].owner
SameNotify(cs, ds) == \A i \in 1..Len(cs) : ds[i].notify = cs[i].notify
SameUrbs(cs, ds) == \A i \in 1..Len(cs) : ds[i].urbs = cs[i].urbs
CallSet == [op : Ops, cid : Ids \union {CTL, NoId}, tid : 0..MaxTid,
            rid : Ids \union {CTL, NoId}]
Stages == {"ready", "sync", "wda", "wds", "dms", "done"}
Others(t) == Threads \ {t}
OnlyMoves(t) == \A u \in Others(t) : pc'[u] = pc[u] /\ call'[u] = call[u]

\* What a thread that was idle leaves alone when it begins a call to QMICTL.
Quietly(t) ==
  /\ UNCHANGED <<valid, dereg, attached, syncVars, writeVars, readVars, del, lock, cb>>
  /\ tid' \in 1..MaxTid /\ clients' \in Seq(ClientMem) /\ Same(clients, clients')
  /\ pc' \in [Threads -> Pcs] /\ call' \in [Threads -> CallSet] /\ OnlyMoves(t)
  /\ CallInv(t)' /\ pc'[t] # "submit"

\* What is common to every end of an attempt to write or to read.
Ends(t) ==
  /\ pc' \in [Threads -> Pcs] /\ call' \in [Threads -> CallSet] /\ stage' \in Stages
  /\ OnlyMoves(t) /\ (\A u \in Threads : CallInv(u)') /\ SyncInv'
  /\ t # SyncT => stage' = stage

\* What is on the lists of the clients only gets less.
LessUrbs == OneUrb' /\ \A c \in Ids, t \in Threads : HasUrb(c, t)' => HasUrb(c, t)
LessEntries ==
  /\ OneEntry'
  /\ \A c \in Ids \union {CTL}, t \in Threads \union {WdsCb}, x \in 0..MaxTid :
        HasEntry(c, t, x)' => HasEntry(c, t, x)

\* A thread goes on as one that waits, or its entries are gone.
Stays(t) ==
  \/ \A c \in Ids \union {CTL}, x \in 0..MaxTid : ~HasEntry(c, t, x)'
  \/ ~Waiting(t) \/ woken[t]
  \/ /\ Waiting(t)' /\ call'[t].cid = call[t].cid /\ call'[t].tid = call[t].tid /\ ~woken'[t]
  \/ t = SyncT /\ stage' = "done" /\ call[t].cid = CTL

\* How a call goes on, or comes back.
On(t) ==
  /\ OnlyMoves(t) /\ pc'[t] \notin {"idle", "named"} /\ stage' = stage
  /\ call'[t].op = call[t].op /\ call'[t].cid = call[t].cid /\ call'[t].tid = call[t].tid
  /\ call[t].op # "get" => call'[t].rid = call[t].rid
Back(t) == \E ok \in BOOLEAN : Return(t, ok) /\ ~(ok /\ call[t].op = "get")
CbOut == cb.pc \in {"up", "on"}
CbStill == CbOut' => CbOut /\ cb'.at = cb.at
Kept == CbOut => \E j \in 1..Len(clients') : RefOf(clients'[j]) = cb.at

\* What changes of the clients add nothing to the list of QMICTL.
Fewer(cs, ds) == \A x, b : Stored(ds, x, b) => Stored(cs, x, b)

\* The read callback goes on with what it has, or stops.
CbStays ==
  /\ cb'.pc # "idle" => cb.pc # "idle" /\ cb'.msg = cb.msg
  /\ cb'.pc = "walk" => cb.pc = "walk" /\ cb'.at = cb.at
Linking == {"notify", "up", "urbs"}
Calling == Writing \union {"try", "asleep", "giveup"}

\* What is stored in the clients only gets less.
LessData(cs, ds) ==
  \A i \in 1..Len(cs) : \A k \in 1..Len(ds[i].list) :
    \E j \in 1..Len(cs[i].list) : ds[i].list[k] = cs[i].list[j]
LessNotify(cs, ds) ==
  \A i \in 1..Len(cs) :
    /\ Len(ds[i].notify) <= Len(cs[i].notify)
    /\ \A k \in 1..Len(ds[i].notify) :
         \E j \in 1..Len(cs[i].notify) : ds[i].notify[k] = cs[i].notify[j]

\* A step puts entry w on the notify list of client i, which has nothing for it.
Registers(i, w) ==
  /\ Same(clients, clients') /\ LessData(clients, clients')
  /\ \A j \in 1..Len(clients) :
       clients'[j].notify = IF j = i THEN Append(clients[i].notify, w) ELSE clients[j].notify
  /\ clients[i].id = CTL \/ clients[i].notify = <<>>
  /\ \A j \in 1..Len(clients'[i].list) : w.tid \notin {0, clients'[i].list[j].tid}
Added(c, u, x) ==
  /\ \A d, v, y : HasEntry(d, v, y) => HasEntry(d, v, y)'
  /\ \A d, v, y : HasEntry(d, v, y)' => HasEntry(d, v, y) \/ (d = c /\ v = u /\ y = x)
  /\ HasEntry(c, u, x)'
=============================================================================
