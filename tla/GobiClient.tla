----------------------------- MODULE GobiClient -----------------------------
(***************************************************************************)
(* QMIDevice.c of the GobiNet driver: the memory it keeps for each QMI     *)
(* client (messages not yet read, readers to notify, write URBs), the      *)
(* synchronous and asynchronous reads and writes on it, how client ids are *)
(* asked from the modem and given back, the start-up of the device and its *)
(* removal.                                                                *)
(*                                                                         *)
(* Threads: for each open file one that calls open, ioctl, write and close *)
(* and one that reads; the driver's qmi_sync_thread; and the one that runs *)
(* DeregisterQMIDevice.  The completion callbacks of the USB host          *)
(* controller run one after the other, next to the threads.  A step is     *)
(* what happens between taking and dropping mClientMemLock; only the read  *)
(* callback keeps the lock from one step to the next.  A reference to a    *)
(* client's memory is the pair of its id and the one who asked for it.     *)
(*                                                                         *)
(* Left out: failing kmalloc, poll, autosuspend, contents of messages.     *)
(***************************************************************************)
EXTENDS Naturals, Sequences, SequencesExt, FiniteSets

CONSTANTS
  Files,        \* open file descriptions, each opened and closed once
  Ids,          \* client ids the modem can grant, QMIWDA | (1 << 8) among them
  WdaIds,       \* those of them that are of the service QMIWDA
  WDA,          \* QMIWDA | (1 << 8)
  MaxTid,       \* QMICTL transaction ids are 1..MaxTid (255)
  MaxTries,     \* attempts of QMIReady (15)
  MaxData,      \* bound: messages the modem sends unasked
  MaxGets,      \* bound: ioctls for a client id
  MaxFaults,    \* bound: how often something goes wrong: a signal interrupts a
                \* call, the controller refuses a URB, the modem is silent for
                \* long, the device is pulled out
  MaxEvents     \* bound: ioctls, messages and faults together

CTL == 0                        \* QMICTL
ALL == 255                      \* broadcast to every client of the service
NoId == 254                     \* (u16)-1

ASSUME ConstantsAssumption ==
  /\ Ids \subseteq 1..253 /\ WDA \in WdaIds /\ WdaIds \subseteq Ids
  /\ MaxTid \in 2..255 /\ MaxTries \in Nat \ {0}
  /\ MaxGets \in Nat /\ MaxData \in Nat /\ MaxFaults \in Nat /\ MaxEvents \in Nat
  /\ "driver" \notin Files

Holders == Files \union {"driver"}
Main(f) == <<f, "main">>
Reader(f) == <<f, "reader">>
SyncT == <<"driver", "sync">>
ExitT == <<"driver", "exit">>
WdsCb == <<"driver", "wds">>    \* QMIWDSCallback as one to notify
UserThreads == Files \X {"main", "reader"}
Threads == UserThreads \union {SyncT, ExitT}
ReleaseThreads == (Files \X {"main"}) \union {SyncT, ExitT}
NoThread == <<"driver", "none">>
Gone == <<"driver", "gone">>    \* one to notify whose semaphore is out of scope
Notified == Threads \union {WdsCb, NoThread, Gone}

Msg == [to : Ids \union {CTL, ALL}, tid : 0..MaxTid, by : Threads,
        op : {"ready", "sync", "get", "rel", "data"}, id : Ids \union {NoId}]
Waiter == [tid : 0..MaxTid, t : Threads \union {WdsCb}]
Urb == [t : Threads, n : BOOLEAN]
Ref == [id : Ids \union {CTL, NoId}, owner : Holders]
ClientMem == [id : Ids \union {CTL}, owner : Holders, list : Seq(Msg),
              notify : Seq(Waiter), urbs : Seq(Urb)]

VARIABLES
  valid,        \* mbQMIValid; with it the read URBs are alive
  dereg,        \* mbDeregisterQMIDevice
  attached,     \* udev->state
  wda,          \* how far a file's ioctl for QMIWDA is: its first GetClientID was
                \* begun, the forced release was begun
  forced,       \* such a release was begun at some time
  stage,        \* what qmi_sync_thread is at; "done" is mbQMIReady
  tries,        \* attempts of QMIReady so far
  wds,          \* id of the driver's WDS client
  clients,      \* mpClientMemList
  tid,          \* mQMICTLTransactionID
  id,           \* mClientID of a file; the driver's client of the moment
  closed,       \* files that were closed
  pc, call,     \* where a thread is and what it was called with
  done,         \* writeSem of a thread's write: "no", "ok", "err"
  woken,        \* readSem of a thread's read
  mem,          \* pClientMem of a thread's read
  urb,          \* which of its URBs a thread writes with
  freedUrb,     \* threads whose URB was freed by another thread
  del,          \* ReleaseClientID's pointers: previous, this, next
  usb,          \* URBs at the host controller, in order
  asked,        \* requests the modem has not answered
  granted,      \* client ids that are in use at the modem
  spent,        \* what was used of each bound
  lock,         \* thread that keeps mClientMemLock from one step to the next
  cb            \* the read callback

deviceVars == <<valid, dereg, attached, wda, forced>>
syncVars == <<stage, tries, wds>>
fileVars == <<id, closed>>
readVars == <<woken, mem>>
writeVars == <<done, urb, freedUrb, usb>>
modemVars == <<asked, granted, spent>>
vars == <<deviceVars, syncVars, clients, tid, fileVars, pc, call, readVars,
          writeVars, del, modemVars, lock, cb>>

NoCall == [op |-> "none", cid |-> CTL, tid |-> 0, rid |-> NoId]
NoRef == [id |-> NoId, owner |-> "driver"]
Head0 == [id |-> CTL, owner |-> "driver"]        \* the QMICTL client
NoMsg == [to |-> CTL, tid |-> 0, by |-> SyncT, op |-> "data", id |-> NoId]
NoDel == [prev |-> NoRef, this |-> NoRef, next |-> NoRef, who |-> SyncT]
CbIdle == [pc |-> "idle", msg |-> NoMsg, at |-> NoRef, who |-> SyncT]

Pcs == {"idle", "add", "submit", "written", "try", "asleep", "giveup", "insert", "named",
        "find", "notify", "up", "urbs"}
Ops == {"none", "ready", "sync", "get", "rel", "write", "read"}

TypeOK ==
  /\ valid \in BOOLEAN /\ dereg \in BOOLEAN /\ attached \in BOOLEAN
  /\ wda \in [Files -> {"no", "first", "again"}] /\ forced \in BOOLEAN
  /\ stage \in {"ready", "sync", "wda", "wds", "dms", "done"}
  /\ tries \in 0..MaxTries
  /\ wds \in Ids \union {NoId}
  /\ clients \in Seq(ClientMem)
  /\ tid \in 1..MaxTid
  /\ id \in [Holders -> Ids \union {NoId}] /\ closed \subseteq Files
  /\ pc \in [Threads -> Pcs]
  /\ call \in [Threads -> [op : Ops, cid : Ids \union {CTL, NoId}, tid : 0..MaxTid,
                           rid : Ids \union {CTL, NoId}]]
  /\ done \in [Threads -> {"no", "ok", "err"}] /\ woken \in [Threads -> BOOLEAN]
  /\ mem \in [Threads -> Ref] /\ urb \in [Threads -> BOOLEAN]
  /\ freedUrb \subseteq Threads
  /\ del \in [Threads -> [prev : Ref, this : Ref, next : Ref,
                         who : Notified]]
  /\ usb \in Seq(Urb)
  /\ asked \subseteq Msg /\ granted \subseteq Ids
  /\ spent \in [get : 0..MaxGets, data : 0..MaxData, fault : 0..MaxFaults]
  /\ lock \in ReleaseThreads \union {NoThread}
  /\ cb \in [pc : {"idle", "walk", "up", "on"}, msg : Msg, at : Ref,
             who : Notified]

(* RegisterQMIDevice up to the start of qmi_sync_thread: memory for QMICTL is
   set up and reading has started. *)
Init ==
  /\ valid = TRUE /\ dereg = FALSE /\ attached = TRUE
  /\ wda = [f \in Files |-> "no"] /\ forced = FALSE
  /\ stage = "ready" /\ tries = 0 /\ wds = NoId
  /\ clients = << [id |-> CTL, owner |-> "driver", list |-> <<>>,
                   notify |-> <<>>, urbs |-> <<>>] >>
  /\ tid = 1
  /\ id = [h \in Holders |-> NoId] /\ closed = {}
  /\ pc = [t \in Threads |-> "idle"] /\ call = [t \in Threads |-> NoCall]
  /\ done = [t \in Threads |-> "no"] /\ woken = [t \in Threads |-> FALSE]
  /\ mem = [t \in Threads |-> NoRef] /\ urb = [t \in Threads |-> FALSE]
  /\ freedUrb = {} /\ del = [t \in Threads |-> NoDel]
  /\ usb = <<>> /\ asked = {} /\ granted = {}
  /\ spent = [get |-> 0, data |-> 0, fault |-> 0]
  /\ lock = NoThread /\ cb = CbIdle

-----------------------------------------------------------------------------
(* Client memory. *)

LockFree == cb.pc # "walk" /\ lock = NoThread
LockFor(t) == LockFree \/ lock = t

FindClientMem(cs, c) == SelectInSeq(cs, LAMBDA m : m.id = c)     \* 0: none
RefOf(m) == [id |-> m.id, owner |-> m.owner]
Place(r) == SelectInSeq(clients, LAMBDA m : RefOf(m) = r)        \* 0: freed
At(i) == IF i \in DOMAIN clients THEN RefOf(clients[i]) ELSE NoRef

(* The message PopFromReadMemList takes: the first one with the transaction id. *)
FirstMessage(list, x) == SelectInSeq(list, LAMBDA m : x \in {0, m.tid})
(* The entry NotifyAndPopNotifyList takes. *)
FirstOfAll(list, x) == IF list = <<>> THEN 0 ELSE 1
FirstWaiter(list, x) == SelectInSeq(list, LAMBDA w : x = 0 \/ w.tid \in {0, x})

SetList(cs, i, l) == [cs EXCEPT ![i].list = l]
SetNotify(cs, i, l) == [cs EXCEPT ![i].notify = l]
SetUrbs(cs, i, l) == [cs EXCEPT ![i].urbs = l]

Live(r) == r = NoRef \/ Place(r) # 0
(* A thread is about to use memory that was freed.  Nothing is known of what
   follows: in the model it goes no further. *)
UsesFreed(t) ==
  \/ pc[t] \in {"submit", "written"} /\ t \in freedUrb
  \/ pc[t] \in {"giveup", "named"} /\ ~Live(mem[t])
  \/ pc[t] \in {"notify", "up", "urbs"} /\
        ~(Live(del[t].prev) /\ Live(del[t].this) /\ Live(del[t].next))

(* QMIXactionIDGet: the next id; answers still stored under it are freed. *)
NextTid == IF tid = MaxTid THEN 1 ELSE tid + 1
Without(list, x) ==
  LET kept[k \in 0..Len(list)] ==
        IF k = 0 THEN <<>>
        ELSE IF list[k].tid = x THEN kept[k - 1] ELSE Append(kept[k - 1], list[k])
  IN kept[Len(list)]
NoPurge(cs, x) == cs
Purged(cs, x) ==
  LET i == FindClientMem(cs, CTL) IN
  IF i = 0 THEN cs ELSE SetList(cs, i, Without(cs[i].list, x))

(* QMIWDSCallback reads what is there and registers itself again; when nothing
   is there it does not. *)
WdsRead(cs) ==
  LET i == FindClientMem(cs, wds) IN
  IF i = 0 \/ cs[i].list = <<>> THEN cs
  ELSE SetNotify(SetList(cs, i, <<>>), i,
                 Append(cs[i].notify, [tid |-> 0, t |-> WdsCb]))

Bound == [get |-> MaxGets, data |-> MaxData, fault |-> MaxFaults]
Spend(what) ==
  /\ spent[what] < Bound[what]
  /\ spent' = [spent EXCEPT ![what] = @ + 1]
  /\ spent'.get + spent'.data + spent'.fault <= MaxEvents
Fault == Spend("fault")

Goto(t, where) == pc' = [pc EXCEPT ![t] = where]

-----------------------------------------------------------------------------
(* Calls begin. *)

(* A QMICTL request: QMIXactionIDGet, then WriteSync and ReadSync. *)
BeginCtl(t, op, c) ==
  /\ LockFree
  /\ tid' = NextTid
  /\ clients' = Purged(clients, NextTid)
  /\ call' = [call EXCEPT ![t] = [op |-> op, cid |-> CTL, tid |-> NextTid, rid |-> c]]
  /\ Goto(t, "add")

(* ReleaseClientID begins: for QMICTL, or without the device, there is no
   request. *)
AskRelease(t, c) ==
  IF c # CTL /\ attached THEN BeginCtl(t, "rel", c)
  ELSE /\ call' = [call EXCEPT ![t] = [NoCall EXCEPT !.op = "rel", !.rid = c]]
       /\ Goto(t, "find")
       /\ UNCHANGED <<tid, clients>>

(* UserspaceOpen waits for mbQMIReady.  The file has no client: it asks for none
   yet, or GetClientID has failed. *)
Unserved(f) ==
  stage = "done" /\ f \notin closed /\ pc[Main(f)] = "idle" /\ id[f] = NoId
InIoctl(f) == wda[f] # "no" /\ id[f] = NoId

(* The ioctl for a service; of the services only QMIWDA is told apart.  The
   service asked for is the id in the request. *)
GetService(f) ==
  /\ Unserved(f) /\ valid /\ ~InIoctl(f)
  /\ Spend("get")
  /\ \E service \in {WDA, NoId} :
       /\ BeginCtl(Main(f), "get", service)
       /\ wda' = [wda EXCEPT ![f] = IF service = WDA THEN "first" ELSE "no"]
  /\ UNCHANGED <<valid, dereg, attached, forced, syncVars, fileVars, readVars, writeVars, del,
                 asked, granted, lock, cb>>

(* When GetClientID failed for QMIWDA, its first client is released, whoever's
   file it belongs to, ... *)
ForceRelease(f) ==
  /\ Unserved(f) /\ wda[f] = "first"
  /\ IF valid THEN /\ wda' = [wda EXCEPT ![f] = "again"] /\ forced' = TRUE
                   /\ AskRelease(Main(f), WDA)
     ELSE wda' = [wda EXCEPT ![f] = "no"] /\ UNCHANGED <<forced, tid, clients, call, pc>>
  /\ UNCHANGED <<valid, dereg, attached, syncVars, fileVars, readVars, writeVars, del, modemVars,
                 lock, cb>>

(* ... and GetClientID called again. *)
GetAgain(f) ==
  /\ Unserved(f) /\ wda[f] = "again"
  /\ wda' = [wda EXCEPT ![f] = "no"]
  /\ IF valid THEN BeginCtl(Main(f), "get", WDA) ELSE UNCHANGED <<tid, clients, call, pc>>
  /\ UNCHANGED <<valid, dereg, attached, forced, syncVars, fileVars, readVars, writeVars, del,
                 modemVars, lock, cb>>

BeginIo(t, op) ==
  /\ valid /\ pc[t] = "idle" /\ t[1] \notin closed /\ id[t[1]] # NoId
  /\ call' = [call EXCEPT ![t] = [op |-> op, cid |-> id[t[1]], tid |-> 0, rid |-> NoId]]
  /\ Goto(t, IF op = "write" THEN "add" ELSE "try")
  /\ UNCHANGED <<deviceVars, syncVars, clients, tid, fileVars, readVars, writeVars, del,
                 modemVars, lock, cb>>

UserspaceWrite(f) == BeginIo(Main(f), "write")
UserspaceRead(f) == BeginIo(Reader(f), "read")

(* Release comes when no call is in the file any more.  With a pending
   deregistration the client is left to it. *)
UserspaceClose(f) ==
  /\ stage = "done" /\ f \notin closed
  /\ pc[Main(f)] = "idle" /\ pc[Reader(f)] = "idle"
  /\ ~InIoctl(f)
  /\ closed' = closed \union {f} /\ id' = [id EXCEPT ![f] = NoId]
  /\ IF ~valid \/ dereg \/ id[f] = NoId
       THEN UNCHANGED <<tid, clients, call, pc>>
       ELSE AskRelease(Main(f), id[f])
  /\ UNCHANGED <<deviceVars, syncVars, readVars, writeVars, del, modemVars, lock, cb>>

(* The end of a call.  Only qmi_sync_thread goes on by the result. *)
StageAfter(op) ==
  CASE op = "ready" -> "sync"
    [] op = "sync" -> "wda"
    [] op = "rel" -> IF stage = "wda" THEN "wds" ELSE "done"
    [] OTHER -> stage

Return(t, ok) ==
  /\ Goto(t, "idle")
  /\ stage' = IF t # SyncT THEN stage ELSE IF ok THEN StageAfter(call[t].op) ELSE "done"
  /\ call' = IF t = SyncT /\ stage' = stage THEN call ELSE [call EXCEPT ![t] = NoCall]

-----------------------------------------------------------------------------
(* WriteSync. *)

MyUrb(t) == [t |-> t, n |-> urb[t]]

WriteOk(t) ==
  CASE call[t].op = "write" -> Return(t, TRUE)
    [] call[t].op = "ready" -> Goto(t, "asleep") /\ UNCHANGED <<stage, call>>
    [] OTHER -> Goto(t, "try") /\ UNCHANGED <<stage, call>>

(* A failed release request does not keep ReleaseClientID from cleaning up. *)
WriteFailed(t) ==
  IF call[t].op = "rel" THEN Goto(t, "find") /\ UNCHANGED <<stage, call>>
  ELSE Return(t, FALSE)

(* A new URB: not the one of an earlier write that is still in a list. *)
StillListed(t) ==
  \E i \in DOMAIN clients : [t |-> t, n |-> FALSE] \in ToSet(clients[i].urbs)

(* AddToURBList. *)
WriteAdd(t) ==
  /\ pc[t] = "add" /\ LockFree
  /\ LET i == FindClientMem(clients, call[t].cid)
         u == [t |-> t, n |-> StillListed(t)]
     IN IF valid /\ i # 0
          THEN /\ clients' = SetUrbs(clients, i, Append(clients[i].urbs, u))
               /\ urb' = [urb EXCEPT ![t] = u.n]
               /\ done' = [done EXCEPT ![t] = "no"]
               /\ freedUrb' = freedUrb \ {t}
               /\ Goto(t, "submit") /\ UNCHANGED <<stage, call>>
          ELSE WriteFailed(t) /\ UNCHANGED <<clients, urb, done, freedUrb>>
  /\ UNCHANGED <<deviceVars, tries, wds, tid, fileVars, readVars, usb, del, modemVars, lock, cb>>

(* PopFromURBList takes the head, whoever put it there. *)
UrbAt(t) ==
  LET i == FindClientMem(clients, call[t].cid) IN
  IF i = 0 \/ clients[i].urbs = <<>> THEN {} ELSE {clients[i].urbs[1]}
PopFromURBList(t) ==
  LET i == FindClientMem(clients, call[t].cid) IN
  IF UrbAt(t) = {} THEN UNCHANGED clients
  ELSE clients' = SetUrbs(clients, i, Tail(clients[i].urbs))

WriteSubmit(t) ==
  /\ pc[t] = "submit" /\ ~UsesFreed(t)
  /\ \/ /\ attached
        /\ usb' = Append(usb, MyUrb(t))
        /\ Goto(t, "written") /\ UNCHANGED <<stage, call, clients, spent>>
     \/ /\ IF attached THEN Fault ELSE UNCHANGED spent
        /\ LockFree
        /\ PopFromURBList(t)
        /\ WriteFailed(t)
        /\ UNCHANGED usb
  /\ UNCHANGED <<deviceVars, tries, wds, tid, fileVars, readVars, done, urb, freedUrb, del,
                 asked, granted, lock, cb>>

Request(t) == [to |-> CTL, tid |-> call[t].tid, by |-> t, op |-> call[t].op,
               id |-> call[t].rid]
(* What reaches the modem.  What it says to a file's client, asked or not, is
   Unasked. *)
Sent(t) ==
  asked' = asked \union
    CASE call[t].cid = CTL -> {Request(t)}
      [] call[t].cid # CTL /\ t = SyncT ->
           {[to |-> call[t].cid, tid |-> 1, by |-> t, op |-> "data", id |-> NoId]}
      [] OTHER -> {}

(* WriteSyncCallback for the URB at the head of the endpoint's queue. *)
WriteSyncCallback ==
  /\ usb # <<>> /\ cb.pc = "idle"
  /\ LET t == Head(usb).t IN
     /\ usb' = Tail(usb)
     /\ done' = [done EXCEPT ![t] = IF attached THEN "ok" ELSE "err"]
     /\ IF attached THEN Sent(t) ELSE UNCHANGED asked
  /\ UNCHANGED <<deviceVars, syncVars, clients, tid, fileVars, pc, call, readVars, urb,
                 freedUrb, del, granted, spent, lock, cb>>

(* usb_kill_urb: the URB is not at the controller any more; what it carried may
   have reached the modem. *)
KillUrb(t) ==
  /\ usb' = RemoveFirst(usb, MyUrb(t))
  /\ IF attached /\ MyUrb(t) \in ToSet(usb) THEN Sent(t) \/ UNCHANGED asked
     ELSE UNCHANGED asked

(* The wait ends with up() or, interrupted, 200 ms later. *)
WriteWake(t) ==
  /\ pc[t] = "written" /\ LockFree /\ ~UsesFreed(t)
  /\ IF done[t] # "no" THEN UNCHANGED spent ELSE t \in UserThreads /\ Fault
  /\ IF valid THEN PopFromURBList(t) ELSE UNCHANGED clients
  /\ IF valid /\ UrbAt(t) = {MyUrb(t)} /\ done[t] # "no"
       THEN /\ IF done[t] = "ok" THEN WriteOk(t) ELSE WriteFailed(t)
            /\ UNCHANGED <<usb, asked>>
       ELSE WriteFailed(t) /\ KillUrb(t)
  /\ done' = [done EXCEPT ![t] = "no"] /\ freedUrb' = freedUrb \ {t}
  /\ UNCHANGED <<deviceVars, tries, wds, tid, fileVars, readVars, urb, del, granted, lock, cb>>

-----------------------------------------------------------------------------
(* ReadSync. *)

ReadFailed(t) ==
  IF call[t].op = "rel" THEN Goto(t, "find") /\ UNCHANGED <<stage, call, id>>
  ELSE Return(t, FALSE) /\ UNCHANGED id

(* The answer of a get is the id to insert; that of a failed get has none. *)
ReadOk(t, m) ==
  CASE call[t].op = "get" /\ m.id # NoId ->
         /\ Goto(t, "insert")
         /\ call' = [call EXCEPT ![t].rid = m.id]
         /\ UNCHANGED stage
    [] call[t].op = "get" /\ m.id = NoId -> Return(t, FALSE)
    [] call[t].op = "rel" -> Goto(t, "find") /\ UNCHANGED <<stage, call>>
    [] OTHER -> Return(t, TRUE)

(* QMICTLSyncProc frees every answer still stored. *)
SyncFreesAnswers(t, cs) ==
  IF call[t].op # "sync" THEN cs
  ELSE SetList(cs, FindClientMem(cs, CTL), <<>>)

(* Take a message, or register and sleep: one critical section, also after a
   wake-up. *)
ReadTry(t) ==
  /\ pc[t] = "try" /\ LockFree
  /\ LET i == FindClientMem(clients, call[t].cid)
         k == FirstMessage(clients[i].list, call[t].tid)
     IN CASE ~valid \/ i = 0 ->
               ReadFailed(t) /\ UNCHANGED <<clients, readVars>>
          [] valid /\ i # 0 /\ k # 0 ->
               /\ clients' = SyncFreesAnswers(t,
                               SetList(clients, i, RemoveAt(clients[i].list, k)))
               /\ ReadOk(t, clients[i].list[k])
               /\ UNCHANGED <<readVars, id>>
          [] OTHER ->
               /\ clients' = SetNotify(clients, i, Append(clients[i].notify,
                                         [tid |-> call[t].tid, t |-> t]))
               /\ woken' = [woken EXCEPT ![t] = FALSE]
               /\ mem' = [mem EXCEPT ![t] = RefOf(clients[i])]
               /\ Goto(t, "asleep") /\ UNCHANGED <<stage, call, id>>
  /\ UNCHANGED <<deviceVars, tries, wds, tid, closed, writeVars, del, modemVars, lock, cb>>

Awake(t) == woken' = [woken EXCEPT ![t] = FALSE] /\ mem' = [mem EXCEPT ![t] = NoRef]

ReadWake(t) ==
  /\ pc[t] = "asleep" /\ woken[t] /\ call[t].op # "ready"
  /\ IF valid THEN Goto(t, "try") /\ UNCHANGED <<stage, call, id>> ELSE ReadFailed(t)
  /\ Awake(t)
  /\ UNCHANGED <<deviceVars, tries, wds, clients, tid, closed, writeVars, del, modemVars, lock,
                 cb>>

(* down_timeout after a signal fails ... *)
ReadInterrupted(t) ==
  /\ pc[t] = "asleep" /\ ~woken[t] /\ t \in UserThreads /\ Fault
  /\ Goto(t, "giveup")
  /\ UNCHANGED <<deviceVars, syncVars, clients, tid, fileVars, call, readVars, writeVars,
                 del, asked, granted, lock, cb>>

(* ... and the reader takes its entry from the list of the client memory it
   found when it began.  The semaphore is on its stack: when the entry was taken
   from the list before, a callback is about to use what is left of it. *)
WithoutWaiter(t) ==
  LET i == Place(mem[t])
      k == IF i = 0 THEN 0 ELSE SelectInSeq(clients[i].notify, LAMBDA w : w.t = t)
  IN IF k = 0 THEN clients
     ELSE SetNotify(clients, i, RemoveAt(clients[i].notify, k))
Instead(w, t, x) == IF w = t THEN x ELSE w
NotifyInstead(t, x) ==
  /\ cb' = IF cb.pc = "up" THEN [cb EXCEPT !.who = Instead(@, t, x)] ELSE cb
  /\ del' = [y \in Threads |-> [del[y] EXCEPT !.who = Instead(@, t, x)]]
ReadGiveUp(t) ==
  /\ pc[t] = "giveup" /\ LockFree /\ ~UsesFreed(t)
  /\ clients' = WithoutWaiter(t)
  /\ ReadFailed(t)
  /\ Awake(t)
  /\ NotifyInstead(t, Gone)
  /\ UNCHANGED <<deviceVars, tries, wds, tid, closed, writeVars, modemVars, lock>>

(* UpSem: a reader's semaphore, nothing when QMIReady has given it up (magic),
   or the WDS callback.  Nothing is known of what follows the use of a semaphore
   out of scope. *)
Up(w) ==
  /\ w # Gone
  /\ clients' = IF w = WdsCb THEN WdsRead(clients) ELSE clients
  /\ woken' = IF w \in Threads THEN [woken EXCEPT ![w] = TRUE] ELSE woken

-----------------------------------------------------------------------------
(* GetClientID: the new client goes to the end of the list.  The id to return
   is read through the pointer in the last client before it, without the lock. *)

ClientInsert(t) ==
  /\ pc[t] = "insert" /\ LockFree
  /\ LET c == call[t].rid IN
     IF FindClientMem(clients, c) # 0
       THEN Return(t, FALSE) /\ UNCHANGED <<clients, mem>>
       ELSE /\ clients' = Append(clients, [id |-> c, owner |-> t[1], list |-> <<>>,
                                           notify |-> <<>>, urbs |-> <<>>])
            /\ mem' = [mem EXCEPT ![t] = At(Len(clients))]
            /\ Goto(t, "named") /\ UNCHANGED <<stage, call>>
  /\ UNCHANGED <<deviceVars, tries, wds, tid, fileVars, woken, writeVars, del, modemVars, lock,
                 cb>>

ClientReturn(t) ==
  /\ pc[t] = "named" /\ ~UsesFreed(t)
  /\ id' = [id EXCEPT ![t[1]] = call[t].rid]
  /\ wds' = IF t = SyncT /\ stage = "wds" THEN call[t].rid ELSE wds
  /\ mem' = [mem EXCEPT ![t] = NoRef]
  /\ Return(t, TRUE)
  /\ UNCHANGED <<deviceVars, tries, clients, tid, closed, woken, writeVars, del, modemVars,
                 lock, cb>>

-----------------------------------------------------------------------------
(* ReleaseClientID after its request.  The lock is dropped to notify a reader
   and to kill a URB; the pointers in del were read before. *)

Found(t) == FindClientMem(clients, call[t].rid)

LetGo(t) == lock' = NoThread
KeepLock(t) == lock' = t

ReleaseFind(t) ==
  /\ pc[t] = "find" /\ LockFree
  /\ IF Found(t) = 0
       THEN Return(t, TRUE) /\ UNCHANGED <<del, lock>>
       ELSE /\ del' = [del EXCEPT ![t] = [prev |-> At(Found(t) - 1),
                                          this |-> At(Found(t)),
                                          next |-> At(Found(t) + 1), who |-> t]]
            /\ KeepLock(t)
            /\ Goto(t, "notify") /\ UNCHANGED <<stage, call>>
  /\ UNCHANGED <<deviceVars, tries, wds, clients, tid, fileVars, readVars, writeVars,
                 modemVars, cb>>

ReleaseNotify(t) ==
  /\ pc[t] = "notify" /\ LockFor(t) /\ ~UsesFreed(t)
  /\ IF Found(t) # 0 /\ clients[Found(t)].notify # <<>>
       THEN /\ clients' = SetNotify(clients, Found(t), Tail(clients[Found(t)].notify))
            /\ del' = [del EXCEPT ![t].who = Head(clients[Found(t)].notify).t]
            /\ lock' = NoThread
            /\ Goto(t, "up")
       ELSE KeepLock(t) /\ Goto(t, "urbs") /\ UNCHANGED <<clients, del>>
  /\ UNCHANGED <<deviceVars, syncVars, tid, fileVars, call, readVars, writeVars, modemVars, cb>>

ReleaseUp(t) ==
  /\ pc[t] = "up"
  /\ del[t].who = WdsCb => LockFree
  /\ Up(del[t].who)
  /\ Goto(t, "notify")
  /\ UNCHANGED <<deviceVars, syncVars, tid, fileVars, call, mem, writeVars, del, modemVars,
                 lock, cb>>

(* usb_kill_urb and usb_free_urb on what is left of a write. *)
ReleaseUrb(t) ==
  /\ pc[t] = "urbs" /\ LockFor(t) /\ ~UsesFreed(t)
  /\ lock' = NoThread
  /\ Found(t) # 0 /\ clients[Found(t)].urbs # <<>>
  /\ LET u == Head(clients[Found(t)].urbs) IN
     /\ clients' = SetUrbs(clients, Found(t), Tail(clients[Found(t)].urbs))
     /\ usb' = RemoveFirst(usb, u)
     /\ IF u = MyUrb(u.t) /\ pc[u.t] \in {"submit", "written"}
          THEN /\ freedUrb' = freedUrb \union {u.t}
               /\ done' = [done EXCEPT ![u.t] = IF @ = "no" THEN "err" ELSE @]
          ELSE UNCHANGED <<freedUrb, done>>
  /\ UNCHANGED <<deviceVars, syncVars, tid, fileVars, pc, call, readVars, urb, del,
                 modemVars, cb>>

(* *ppDelClientMem = pNextClientMem, as read when the client was found. *)
UnlinkedRest(t) ==
  SubSeq(clients, 1, IF del[t].prev = NoRef THEN 0 ELSE Place(del[t].prev))
Unlinked(t) ==
  LET p == IF del[t].prev = NoRef THEN 0 ELSE Place(del[t].prev)
      n == Place(del[t].next)
  IN SubSeq(clients, 1, p) \o IF n = 0 THEN <<>> ELSE SubSeq(clients, n, Len(clients))
ReleaseFree(t) ==
  /\ pc[t] = "urbs" /\ LockFor(t) /\ ~UsesFreed(t)
  /\ lock' = NoThread
  /\ Found(t) # 0 => clients[Found(t)].urbs = <<>>
  /\ clients' = Unlinked(t)
  /\ del' = [del EXCEPT ![t] = NoDel]
  /\ Return(t, TRUE)
  /\ UNCHANGED <<deviceVars, tries, wds, tid, fileVars, readVars, writeVars, modemVars, cb>>

-----------------------------------------------------------------------------
(* The modem and the read callback. *)

(* What the modem sends next: an answer, or a message for one client or all. *)
Lowest(S) == CHOOSE x \in S : \A y \in S : x <= y
Grant(q) ==
  LET free == (IF q.id = WDA THEN WdaIds ELSE Ids \ WdaIds) \ granted IN
  [q EXCEPT !.id = IF free = {} THEN NoId ELSE Lowest(free)]
Answers ==
  { Grant(q) : q \in {a \in asked : a.op = "get"} } \union { a \in asked : a.op # "get" }
Unasked == { [to |-> x, tid |-> 1, by |-> SyncT, op |-> "data", id |-> NoId] :
             x \in granted \union {ALL} }

For(m, msg) == m.id = msg.to \/ (msg.to = ALL /\ m.id # CTL)
(* The first client from position i on that the message is for. *)
NextFor(msg, i) ==
  LET S == {j \in i..Len(clients) : For(clients[j], msg)} IN
  IF S = {} THEN NoRef ELSE RefOf(clients[CHOOSE j \in S : \A k \in S : j <= k])

Continue(msg, i) ==
  cb' = IF NextFor(msg, i) = NoRef THEN CbIdle
        ELSE [CbIdle EXCEPT !.pc = "walk", !.msg = msg, !.at = NextFor(msg, i)]

ReadCallback ==
  /\ valid /\ attached /\ cb.pc = "idle" /\ LockFree
  /\ \/ \E m \in Answers :
          /\ asked' = {a \in asked : [a EXCEPT !.id = NoId] # [m EXCEPT !.id = NoId]}
          /\ granted' = CASE m.op = "get" -> granted \union ({m.id} \ {NoId})
                           [] m.op = "rel" -> granted \ {m.id}
                           [] OTHER -> granted
          /\ Continue(m, 1)
          /\ UNCHANGED spent
     \/ \E m \in Unasked :
          /\ Spend("data")
          /\ Continue(m, 1)
          /\ UNCHANGED <<asked, granted>>
  /\ UNCHANGED <<deviceVars, syncVars, clients, tid, fileVars, pc, call, readVars, writeVars, del,
                 lock>>

(* AddToReadMemList, NotifyAndPopNotifyList up to its callback. *)
CallbackDeliver ==
  /\ cb.pc = "walk"
  /\ LET i == Place(cb.at)
         k == FirstWaiter(clients[i].notify, cb.msg.tid)
         cs == SetList(clients, i, Append(clients[i].list, cb.msg))
     IN IF k = 0
          THEN /\ clients' = cs
               /\ Continue(cb.msg, IF cb.msg.to = ALL THEN i + 1 ELSE Len(clients) + 1)
          ELSE /\ clients' = SetNotify(cs, i, RemoveAt(cs[i].notify, k))
               /\ cb' = [cb EXCEPT !.pc = "up", !.who = clients[i].notify[k].t]
  /\ UNCHANGED <<deviceVars, syncVars, tid, fileVars, pc, call, readVars, writeVars, del,
                 modemVars, lock>>

(* The callback without the lock. *)
CallbackUp ==
  /\ cb.pc = "up"
  /\ cb.who = WdsCb => LockFree
  /\ Up(cb.who)
  /\ cb' = [cb EXCEPT !.pc = "on"]
  /\ UNCHANGED <<deviceVars, syncVars, tid, fileVars, pc, call, mem, writeVars, del, modemVars,
                 lock>>

(* Then with the lock again pClientMem->mWaitQueue and pClientMem->mpNext are
   used, if the client is still there; otherwise it goes no further. *)
CallbackOn ==
  /\ cb.pc = "on" /\ LockFree
  /\ Place(cb.at) # 0
  /\ Continue(cb.msg, IF cb.msg.to = ALL THEN Place(cb.at) + 1 ELSE Len(clients) + 1)
  /\ UNCHANGED <<deviceVars, syncVars, clients, tid, fileVars, pc, call, readVars, writeVars, del,
                 modemVars, lock>>

-----------------------------------------------------------------------------
(* Start-up: qmi_sync_thread. *)

SyncIdle == pc[SyncT] = "idle" /\ LockFree

(* QMIReady: ReadAsync with a semaphore, then the write. *)
SyncReady ==
  /\ SyncIdle /\ stage = "ready" /\ valid
  /\ tries' = tries + 1
  /\ tid' = NextTid
  /\ LET cs == Purged(clients, NextTid)
         i == FindClientMem(cs, CTL)
     IN IF i = 0 THEN stage' = "done" /\ UNCHANGED <<clients, call, pc, woken>>
        ELSE /\ clients' = SetNotify(cs, i, Append(cs[i].notify,
                                                   [tid |-> NextTid, t |-> SyncT]))
             /\ woken' = [woken EXCEPT ![SyncT] = FALSE]
             /\ call' = [call EXCEPT ![SyncT] = [op |-> "ready", cid |-> CTL,
                                                 tid |-> NextTid, rid |-> NoId]]
             /\ Goto(SyncT, "add")
             /\ UNCHANGED stage
  /\ UNCHANGED <<deviceVars, wds, fileVars, mem, writeVars, del, modemVars, lock, cb>>

ReadyGoesOn == dereg
ReadyGivesUp == dereg \/ tries = MaxTries

(* down_timeout: an answer came, or 2 seconds passed.  Then QMIReady notifies
   the first waiter for its transaction; its own semaphore is freed by UpSem. *)
SyncReadyEnd ==
  /\ pc[SyncT] = "asleep" /\ call[SyncT].op = "ready" /\ LockFree
  /\ IF woken[SyncT] THEN UNCHANGED spent ELSE Fault
  /\ LET i == FindClientMem(clients, CTL)
         k == IF i = 0 THEN 0 ELSE FirstMessage(clients[i].list, call[SyncT].tid)
         j == IF i = 0 THEN 0 ELSE FirstWaiter(clients[i].notify, call[SyncT].tid)
     IN IF woken[SyncT] /\ k # 0
          THEN /\ clients' = SetList(clients, i, RemoveAt(clients[i].list, k))
               /\ Return(SyncT, TRUE)
               /\ UNCHANGED <<woken, cb, del>>
          ELSE /\ IF woken[SyncT] THEN UNCHANGED <<clients, woken, cb, del>>
                  ELSE /\ IF j = 0 THEN UNCHANGED <<clients, woken>>
                          ELSE /\ clients' = SetNotify(clients, i, RemoveAt(clients[i].notify, j))
                               /\ woken' = [t \in Threads |->
                                            \/ woken[t]
                                            \/ t = clients[i].notify[j].t /\ t # SyncT]
                       /\ NotifyInstead(SyncT, NoThread)
               /\ Goto(SyncT, "idle")
               /\ stage' = IF ReadyGivesUp THEN "done" ELSE stage
               /\ UNCHANGED call
  /\ UNCHANGED <<deviceVars, tries, wds, tid, fileVars, mem, writeVars, asked, granted, lock>>

(* QMICTLSyncProc, and the ioctl's GetClientID for each of the driver's own
   clients: WDA, WDS, DMS in turn. *)
SyncCtl ==
  /\ SyncIdle /\ valid /\ call[SyncT] = NoCall
  /\ \/ stage = "sync" /\ BeginCtl(SyncT, "sync", NoId)
     \/ stage = "wda" /\ BeginCtl(SyncT, "get", WDA)
     \/ stage \in {"wds", "dms"} /\ BeginCtl(SyncT, "get", NoId)
  /\ UNCHANGED <<deviceVars, syncVars, fileVars, readVars, writeVars, del, modemVars, lock, cb>>

(* On with the client: a request (WDS: two, here one), its answer, release. *)
SyncIo ==
  /\ SyncIdle /\ valid
  /\ LET op == call[SyncT].op
         Io(next, x) == [op |-> next, cid |-> id["driver"], tid |-> x, rid |-> NoId]
     IN \/ /\ op = "get"
           /\ call' = [call EXCEPT ![SyncT] = Io("write", 0)]
           /\ Goto(SyncT, "add") /\ UNCHANGED <<clients, tid, id, stage>>
        \/ /\ op = "write" /\ stage # "wds"
           /\ call' = [call EXCEPT ![SyncT] = Io("read", 1)]
           /\ Goto(SyncT, "try") /\ UNCHANGED <<clients, tid, id, stage>>
        \/ /\ op = "read"
           /\ BeginCtl(SyncT, "rel", id["driver"])
           /\ id' = [id EXCEPT !["driver"] = NoId] /\ UNCHANGED stage
        \/ /\ op = "write" /\ stage = "wds"
           /\ LET i == FindClientMem(clients, wds) IN
              IF i = 0 THEN stage' = "done" /\ UNCHANGED clients
              ELSE /\ stage' = "dms"
                   /\ clients' = SetNotify(SetList(clients, i, <<>>), i,
                                    Append(clients[i].notify, [tid |-> 0, t |-> WdsCb]))
           /\ call' = [call EXCEPT ![SyncT] = NoCall]
           /\ UNCHANGED <<tid, id, pc>>
  /\ UNCHANGED <<deviceVars, tries, wds, closed, readVars, writeVars, del, modemVars, lock, cb>>

-----------------------------------------------------------------------------
(* Removal: the device is pulled out, or the driver only unbound; then
   DeregisterQMIDevice, which waits up to 30 s for qmi_sync_thread. *)

Unplug ==
  /\ attached /\ Fault
  /\ attached' = FALSE
  /\ UNCHANGED <<valid, dereg, wda, forced, syncVars, clients, tid, fileVars, pc, call, readVars,
                 writeVars, del, asked, granted, lock, cb>>

Unbind ==
  /\ ~dereg
  /\ IF attached THEN Fault ELSE UNCHANGED spent
  /\ dereg' = TRUE
  /\ UNCHANGED <<valid, attached, wda, forced, syncVars, clients, tid, fileVars, pc, call,
                 readVars,
                 writeVars, del, asked, granted, lock, cb>>

(* The first client is released next; after the last one the reads are killed. *)
Deregister ==
  /\ dereg /\ valid /\ pc[ExitT] = "idle" /\ LockFree
  /\ IF stage = "done" THEN UNCHANGED spent ELSE Fault
  /\ IF clients = <<>>
       THEN /\ cb.pc = "idle" /\ valid' = FALSE
            /\ UNCHANGED <<tid, clients, call, pc>>
       ELSE AskRelease(ExitT, clients[1].id) /\ UNCHANGED valid
  /\ UNCHANGED <<dereg, attached, wda, forced, syncVars, fileVars, readVars, writeVars, del,
                 asked, granted,
                 lock, cb>>

-----------------------------------------------------------------------------

FileStep(f) == \/ GetService(f) \/ ForceRelease(f) \/ GetAgain(f)
               \/ UserspaceWrite(f) \/ UserspaceRead(f) \/ UserspaceClose(f)
WriteStep(t) == WriteAdd(t) \/ WriteSubmit(t) \/ WriteWake(t)
ReadStep(t) == ReadTry(t) \/ ReadWake(t) \/ ReadInterrupted(t) \/ ReadGiveUp(t)
ReleaseStep(t) == \/ ReleaseFind(t) \/ ReleaseNotify(t) \/ ReleaseUp(t) \/ ReleaseUrb(t)
                  \/ ReleaseFree(t)
SyncStep == SyncReady \/ SyncReadyEnd \/ SyncCtl \/ SyncIo
CallbackStep == CallbackDeliver \/ CallbackUp \/ CallbackOn

Next ==
  \/ \E f \in Files : FileStep(f)
  \/ \E t \in Threads : WriteStep(t) \/ ReadStep(t) \/ ClientInsert(t) \/ ClientReturn(t)
                         \/ ReleaseStep(t)
  \/ WriteSyncCallback \/ ReadCallback \/ CallbackStep
  \/ SyncStep \/ Unplug \/ Unbind \/ Deregister

Spec == Init /\ [][Next]_vars

(* Transaction ids come round.  A request to QMICTL that is written or waits for
   its answer; a request or an answer to transaction x of thread b at the modem,
   and with the read callback; an entry in the notify list of client c. *)
CtlOps == {"ready", "sync", "get", "rel"}
Writing == {"add", "submit", "written"}
Pend(t) == call[t].op \in CtlOps /\ pc[t] \in Writing \union {"try", "asleep", "giveup"}
AtModem(x, b) == \E m \in asked : m.to = CTL /\ m.tid = x /\ m.by = b
AtCallback(x, b) == cb.pc # "idle" /\ cb.msg.to = CTL /\ cb.msg.tid = x /\ cb.msg.by = b
HasEntry(c, t, x) ==
  \E i \in 1..Len(clients) :
     /\ clients[i].id = c
     /\ \E k \in 1..Len(clients[i].notify) :
          clients[i].notify[k].t = t /\ clients[i].notify[k].tid = x

(* The next id is not that of a call, a request or an answer on its way; nor
   has it an entry that QMIReady left when its request could not be written.
   Answers nobody waits for may be stored under it. *)
NextIsFree ==
  /\ \A t \in Threads : Pend(t) => call[t].tid # NextTid
  /\ \A b \in Threads : ~AtModem(NextTid, b) /\ ~AtCallback(NextTid, b)
NextIsNew == NextIsFree /\ ~HasEntry(CTL, SyncT, NextTid)

(* The code does not look whether the id it takes is free; with 255 of them it
   is, unless a request is older than 254 others.  The specification with fewer
   ids says that it is. *)
TakesFree == tid' # tid => NextIsFree
TakesNew == tid' # tid => NextIsNew
TidSpec == Init /\ [][Next /\ TakesNew]_vars

-----------------------------------------------------------------------------
(* Properties.  Clients are released under running calls by
   DeregisterQMIDevice, and by the ioctl for QMIWDA that releases whoever has
   the first client of that service: of the time after that most properties say
   nothing (see README). *)

Disturbed == dereg \/ forced

Pending(t) == \/ cb.pc = "up" /\ cb.who = t
              \/ \E x \in ReleaseThreads : pc[x] = "up" /\ del[x].who = t

(* No reader sleeps on a message: a reader whose semaphore is not up is in a
   notify list, and its client has nothing stored for it.  AddToReadMemList and
   the notification on one side, the look at the list and the registration on
   the other, must not fall between each other. *)
WaiterHasNoData ==
  Disturbed \/
  /\ \A i \in DOMAIN clients : \A w \in ToSet(clients[i].notify) :
       FirstMessage(clients[i].list, w.tid) = 0
  /\ \A t \in Threads : pc[t] = "asleep" /\ ~woken[t] /\ ~Pending(t) =>
       \E i \in DOMAIN clients : [tid |-> call[t].tid, t |-> t] \in ToSet(clients[i].notify)

(* The id an open file keeps is that of a client in the list, and the client
   is its own: no release of another file takes it away, no second file gets
   the same id - until an ioctl for QMIWDA whose GetClientID failed releases
   that service's client from under the file that has it. *)
FileHasClient ==
  Disturbed \/
  /\ \A h \in Holders : id[h] # NoId =>
       \E i \in DOMAIN clients : clients[i].id = id[h] /\ clients[i].owner = h
  /\ \A i, j \in DOMAIN clients : clients[i].id = clients[j].id => i = j

(* An answer stored for the transaction a thread waits for is the answer to its
   own request: also when the transaction ids have come round and the id was
   that of an answer nobody waited for and that was still stored
   (QMIXactionIDGet frees it), and whoever releases clients meanwhile. *)
OwnAnswer ==
  \A t \in Threads : pc[t] \in {"try", "asleep"} /\ call[t].cid = CTL =>
    \A i \in DOMAIN clients : clients[i].id = CTL =>
      \A k \in DOMAIN clients[i].list :
         clients[i].list[k].tid = call[t].tid => clients[i].list[k].by = t

(* Nobody uses freed memory: not the reader that was interrupted, not the writer
   whose URB is at the controller; the place in the list ReleaseClientID found
   is still the place of the client; and the client the read callback goes on
   from, having notified its reader without the lock, is still there, as long as
   no call was interrupted or refused (a reader that was woken may close its
   file; when its release request then fails, the client is freed under the
   callback).  The id that GetClientID reads after dropping the lock is left
   out: another file's close may just have freed the client it is read through;
   so is the semaphore of a reader that gave up while a callback had its entry
   (Gone). *)
NoFreedMemory ==
  Disturbed \/
  /\ \A t \in Threads : pc[t] # "named" => ~UsesFreed(t)
  /\ \A t \in Threads : pc[t] \in {"up", "notify", "urbs"} =>
       LET i == Place(del[t].this) IN
       i # 0 /\ At(i - 1) = del[t].prev /\ At(i + 1) = del[t].next
  /\ spent.fault = 0 /\ cb.pc \in {"up", "on"} => Place(cb.at) # 0
=============================================================================
