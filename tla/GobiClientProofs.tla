-------------------------- MODULE GobiClientProofs --------------------------
(***************************************************************************)
(* The client memory of GobiClient, for all files, ids and bounds: its     *)
(* types; that an open file's client is in the list and its own; that      *)
(* nobody uses freed memory, until DeregisterQMIDevice or a forced release *)
(* of QMIWDA begins; while no transaction id is taken that is in use, that *)
(* what a reader of QMICTL finds is its answer, and that no reader sleeps  *)
(* on a message.                                                           *)
(***************************************************************************)
EXTENDS GobiInvariants, SequenceTheorems, WellFoundedInduction, TLAPS

-----------------------------------------------------------------------------
LEMMA ClientTypes ==
  ASSUME TInv
  PROVE  /\ clients \in Seq(ClientMem) /\ Len(clients) \in Nat /\ DOMAIN clients = 1..Len(clients)
         /\ \A j \in 1..Len(clients) : clients[j] \in ClientMem
BY DEF TInv, TypeOK

\* The first element of a sequence with some property, and removal.
LEMMA MinProperty ==
  ASSUME NEW T \in SUBSET Nat, T # {}
  PROVE  Min(T) \in T /\ \A x \in T : Min(T) <= x
<1> DEFINE R == OpToRel(<, Nat)
<1>1. \E x \in T : \A y \in T : ~ (<<y, x>> \in R) BY WFMin, NatLessThanWellFounded, Zenon
<1>2. \A x, y \in Nat : y < x => <<y, x>> \in R BY DEF OpToRel
<1>3. \E x \in T : \A y \in T : x <= y
  <2> HIDE DEF R
  <2>1. PICK x \in T : \A y \in T : ~ (<<y, x>> \in R) BY <1>1
  <2>2. x \in Nat /\ \A y \in T : y \in Nat /\ ~ (y < x) BY <1>2, <2>1
  <2> QED BY <2>2
<1> QED BY <1>3 DEF Min

LEMMA RemoveAtProperties ==
  ASSUME NEW S, NEW s \in Seq(S), NEW i \in 1..Len(s)
  PROVE  /\ RemoveAt(s, i) \in Seq(S)
         /\ Len(RemoveAt(s, i)) = Len(s) - 1
         /\ \A j \in 1..(Len(s) - 1) : RemoveAt(s, i)[j] = IF j < i THEN s[j] ELSE s[j + 1]
<1> DEFINE a == SubSeq(s, 1, i - 1)
           b == SubSeq(s, i + 1, Len(s))
<1>1. /\ a \in Seq(S) /\ Len(a) = i - 1
      /\ \A j \in 1..(i - 1) : a[j] = s[j]
  BY SubSeqProperties
<1>2. /\ b \in Seq(S) /\ Len(b) = Len(s) - i
      /\ \A j \in 1..(Len(s) - i) : b[j] = s[i + j]
  BY SubSeqProperties
<1>3. /\ a \o b \in Seq(S) /\ Len(a \o b) = Len(s) - 1
      /\ \A j \in 1..(Len(s) - 1) : (a \o b)[j] = IF j < i THEN s[j] ELSE s[j + 1]
  <2> HIDE DEF a, b
  <2>1. /\ a \o b \in Seq(S) /\ Len(a \o b) = Len(a) + Len(b)
        /\ \A j \in 1..(Len(a) + Len(b)) :
             (a \o b)[j] = IF j <= Len(a) THEN a[j] ELSE b[j - Len(a)]
    BY <1>1, <1>2, ConcatProperties
  <2> QED BY <1>1, <1>2, <2>1
<1> QED BY <1>3 DEF RemoveAt

LEMMA TailProperties ==
  ASSUME NEW S, NEW s \in Seq(S), s # <<>>
  PROVE  /\ Tail(s) \in Seq(S) /\ Len(Tail(s)) = Len(s) - 1 /\ Len(s) > 0
         /\ \A j \in 1..(Len(s) - 1) : Tail(s)[j] = s[j + 1]
         /\ Head(s) = s[1] /\ s[1] \in S
BY HeadTailProperties, EmptySeq

LEMMA FindProperties ==
  ASSUME NEW cs \in Seq(ClientMem), NEW c
  PROVE  /\ FindClientMem(cs, c) \in 0..Len(cs)
         /\ FindClientMem(cs, c) = 0 => \A i \in 1..Len(cs) : cs[i].id # c
         /\ FindClientMem(cs, c) # 0 => cs[FindClientMem(cs, c)].id = c
<1> DEFINE I == {i \in 1..Len(cs) : cs[i].id = c}
<1>1. I \in SUBSET Nat /\ I \subseteq 1..Len(cs) OBVIOUS
<1>2. I # {} => Min(I) \in I
  <2> HIDE DEF I
  <2> QED BY <1>1, MinProperty
<1>3. FindClientMem(cs, c) = IF I # {} THEN Min(I) ELSE 0 BY DEF FindClientMem, SelectInSeq
<1> QED BY <1>2, <1>3

LEMMA PlaceProperties ==
  ASSUME clients \in Seq(ClientMem), NEW r
  PROVE  /\ Place(r) \in 0..Len(clients)
         /\ Place(r) = 0 => \A i \in 1..Len(clients) : RefOf(clients[i]) # r
         /\ Place(r) # 0 => RefOf(clients[Place(r)]) = r
<1> DEFINE I == {i \in 1..Len(clients) : RefOf(clients[i]) = r}
<1>1. I \in SUBSET Nat /\ I \subseteq 1..Len(clients) OBVIOUS
<1>2. I # {} => Min(I) \in I
  <2> HIDE DEF I
  <2> QED BY <1>1, MinProperty
<1>3. Place(r) = IF I # {} THEN Min(I) ELSE 0 BY DEF Place, SelectInSeq
<1> QED BY <1>2, <1>3

LEMMA MessageProperties ==
  ASSUME NEW l \in Seq(Msg), NEW x
  PROVE  FirstMessage(l, x) \in 0..Len(l)
<1> DEFINE I == {i \in 1..Len(l) : x \in {0, l[i].tid}}
<1>1. I \in SUBSET Nat /\ I \subseteq 1..Len(l) OBVIOUS
<1>2. I # {} => Min(I) \in I
  <2> HIDE DEF I
  <2> QED BY <1>1, MinProperty
<1>3. FirstMessage(l, x) = IF I # {} THEN Min(I) ELSE 0 BY DEF FirstMessage, SelectInSeq
<1> QED BY <1>2, <1>3

LEMMA WaiterProperties ==
  ASSUME NEW l \in Seq(Waiter), NEW x
  PROVE  /\ FirstWaiter(l, x) \in 0..Len(l)
         /\ FirstWaiter(l, x) = 0 => \A i \in 1..Len(l) : x # 0 /\ l[i].tid # x
<1> DEFINE I == {i \in 1..Len(l) : x = 0 \/ l[i].tid \in {0, x}}
<1>1. I \in SUBSET Nat /\ I \subseteq 1..Len(l) OBVIOUS
<1>2. I # {} => Min(I) \in I
  <2> HIDE DEF I
  <2> QED BY <1>1, MinProperty
<1>3. FirstWaiter(l, x) = IF I # {} THEN Min(I) ELSE 0 BY DEF FirstWaiter, SelectInSeq
<1> QED BY <1>2, <1>3

LEMMA SubsetSeq ==
  ASSUME NEW S, NEW T, S \subseteq T, NEW s \in Seq(S)
  PROVE  s \in Seq(T)
OBVIOUS

LEMMA WithoutType ==
  ASSUME NEW l \in Seq(Msg), NEW x
  PROVE  Without(l, x) \in Seq(Left(l, x)) /\ Without(l, x) \in Seq(Msg)
<1> DEFINE n == Len(l)
           Step(f, k) == IF k = 0 THEN <<>>
                         ELSE IF l[k].tid = x THEN f[k - 1] ELSE Append(f[k - 1], l[k])
           Upto(f, m) == f = [k \in 0..m |-> Step(f, k)]
           Good(m) == \E f : Upto(f, m)
           kept == CHOOSE f : Upto(f, n)
<1>1. n \in Nat /\ \A k \in 1..n : l[k] \in Msg OBVIOUS
<1>2. Good(n)
  <2> DEFINE T == {m \in 0..n : ~Good(m)}
  <2> HIDE DEF Good
  <2>1. SUFFICES ASSUME T # {} PROVE FALSE BY <1>1
  <2>2. PICK m \in T : \A y \in T : m <= y
    <3>1. T \in SUBSET Nat BY <1>1
    <3> HIDE DEF T
    <3> QED BY <2>1, <3>1, MinProperty
  <2>3. CASE m = 0
    <3>1. Upto([k \in 0..0 |-> <<>>], 0) OBVIOUS
    <3>2. Good(0) BY <3>1 DEF Good
    <3> QED BY <2>2, <2>3, <3>2
  <2>4. CASE m # 0
    <3>1. m - 1 \in 0..n /\ m - 1 < m /\ m \in 1..n BY <2>2, <2>4, <1>1
    <3>2. Good(m - 1) BY <2>2, <3>1
    <3>3. PICK f : Upto(f, m - 1) BY <3>2 DEF Good
    <3> DEFINE g == [k \in 0..m |-> IF k = m THEN Step(f, m) ELSE f[k]]
    <3>4. \A k \in 0..m : g[k] = Step(g, k)
      <4>1. \A k \in 0..(m - 1) : f[k] = Step(f, k)
        <5> HIDE DEF Step
        <5> QED BY <3>1, <3>3
      <4>2. g[m] = Step(f, m) /\ \A k \in 0..(m - 1) : g[k] = f[k]
        <5> HIDE DEF Step
        <5> QED BY <3>1
      <4>3. \A k \in 0..m : Step(g, k) = Step(f, k)
        <5> HIDE DEF g
        <5>1. \A k \in 0..m : k = 0 \/ k - 1 \in 0..(m - 1) BY <3>1
        <5> QED BY <4>2, <5>1
      <4> HIDE DEF g, Step
      <4> QED BY <3>1, <4>1, <4>2, <4>3
    <3>5. Upto(g, m)
      <4> HIDE DEF Step
      <4>1. g = [k \in 0..m |-> g[k]] OBVIOUS
      <4> HIDE DEF g
      <4> QED BY <3>4, <4>1
    <3>6. Good(m) BY <3>5 DEF Good
    <3> QED BY <2>2, <3>6
  <2> QED BY <2>3, <2>4
<1>3. Upto(kept, n)
  <2> HIDE DEF Upto
  <2> QED BY <1>2
<1>4. \A k \in 0..n : kept[k] = Step(kept, k)
  <2> HIDE DEF kept
  <2> QED BY <1>3
<1>5. \A k \in 0..n : kept[k] \in Seq(Left(l, x))
  <2> HIDE DEF kept
  <2> DEFINE T == {m \in 0..n : kept[m] \notin Seq(Left(l, x))}
  <2>1. SUFFICES ASSUME T # {} PROVE FALSE OBVIOUS
  <2>2. PICK m \in T : \A y \in T : m <= y
    <3>1. T \in SUBSET Nat BY <1>1
    <3> HIDE DEF T
    <3> QED BY <2>1, <3>1, MinProperty
  <2>3. m # 0 BY <1>1, <1>4, EmptySeq, <2>2
  <2>4. m \in 1..n /\ m - 1 \in 0..n /\ m - 1 < m BY <2>2, <2>3, <1>1
  <2>5. kept[m - 1] \in Seq(Left(l, x)) BY <2>2, <2>4
  <2>6. kept[m] \in Seq(Left(l, x))
    <3>1. kept[m] = IF l[m].tid = x THEN kept[m - 1] ELSE Append(kept[m - 1], l[m])
      BY <1>4, <2>3, <2>4
    <3>2. CASE l[m].tid = x BY <2>5, <3>1, <3>2
    <3>3. CASE l[m].tid # x BY <1>1, <2>4, <3>3, <2>5, AppendProperties, <3>1 DEF Left
    <3> QED BY <3>2, <3>3
  <2> QED BY <2>2, <2>6
<1>6. Without(l, x) = kept[n] BY DEF Without
<1> QED
  <2> HIDE DEF kept
  <2>1. Without(l, x) \in Seq(Left(l, x)) /\ Left(l, x) \subseteq Msg
    BY <1>1, <1>5, <1>6 DEF Left
  <2> QED BY <2>1, SubsetSeq

\* A change of one field of one client.
LEMMA SetListProperties ==
  ASSUME NEW cs \in Seq(ClientMem), NEW i \in 0..Len(cs), NEW l \in Seq(Msg)
  PROVE  /\ SetList(cs, i, l) \in Seq(ClientMem) /\ Len(SetList(cs, i, l)) = Len(cs)
         /\ \A j \in 1..Len(cs) :
              SetList(cs, i, l)[j] = IF j = i THEN [cs[j] EXCEPT !.list = l] ELSE cs[j]
<1>1. \A j \in 1..Len(cs) : cs[j] \in ClientMem OBVIOUS
<1> DEFINE r == SetList(cs, i, l)
<1>2. r = [j \in 1..Len(cs) |-> IF j = i THEN [cs[j] EXCEPT !.list = l] ELSE cs[j]]
  BY DEF SetList
<1> HIDE DEF r
<1>3. ASSUME NEW j \in 1..Len(cs) PROVE r[j] \in ClientMem BY <1>1, <1>2 DEF ClientMem
<1>4. r \in Seq(ClientMem) /\ Len(r) = Len(cs) BY <1>2, <1>3
<1> QED BY <1>2, <1>4 DEF r

LEMMA SetNotifyProperties ==
  ASSUME NEW cs \in Seq(ClientMem), NEW i \in 0..Len(cs), NEW l \in Seq(Waiter)
  PROVE  /\ SetNotify(cs, i, l) \in Seq(ClientMem) /\ Len(SetNotify(cs, i, l)) = Len(cs)
         /\ \A j \in 1..Len(cs) :
              SetNotify(cs, i, l)[j] = IF j = i THEN [cs[j] EXCEPT !.notify = l] ELSE cs[j]
<1>1. \A j \in 1..Len(cs) : cs[j] \in ClientMem OBVIOUS
<1> DEFINE r == SetNotify(cs, i, l)
<1>2. r = [j \in 1..Len(cs) |-> IF j = i THEN [cs[j] EXCEPT !.notify = l] ELSE cs[j]]
  BY DEF SetNotify
<1> HIDE DEF r
<1>3. ASSUME NEW j \in 1..Len(cs) PROVE r[j] \in ClientMem BY <1>1, <1>2 DEF ClientMem
<1>4. r \in Seq(ClientMem) /\ Len(r) = Len(cs) BY <1>2, <1>3
<1> QED BY <1>2, <1>4 DEF r

LEMMA SetUrbsProperties ==
  ASSUME NEW cs \in Seq(ClientMem), NEW i \in 0..Len(cs), NEW l \in Seq(Urb)
  PROVE  /\ SetUrbs(cs, i, l) \in Seq(ClientMem) /\ Len(SetUrbs(cs, i, l)) = Len(cs)
         /\ \A j \in 1..Len(cs) :
              SetUrbs(cs, i, l)[j] = IF j = i THEN [cs[j] EXCEPT !.urbs = l] ELSE cs[j]
<1>1. \A j \in 1..Len(cs) : cs[j] \in ClientMem OBVIOUS
<1> DEFINE r == SetUrbs(cs, i, l)
<1>2. r = [j \in 1..Len(cs) |-> IF j = i THEN [cs[j] EXCEPT !.urbs = l] ELSE cs[j]]
  BY DEF SetUrbs
<1> HIDE DEF r
<1>3. ASSUME NEW j \in 1..Len(cs) PROVE r[j] \in ClientMem BY <1>1, <1>2 DEF ClientMem
<1>4. r \in Seq(ClientMem) /\ Len(r) = Len(cs) BY <1>2, <1>3
<1> QED BY <1>2, <1>4 DEF r

-----------------------------------------------------------------------------

LEMMA ConstantFacts ==
  /\ Ids \subseteq 1..253 /\ NoId \notin Ids /\ CTL \notin Ids /\ NoId # CTL
  /\ SyncT \in Threads /\ ExitT \in Threads /\ SyncT # ExitT
  /\ SyncT \in ReleaseThreads /\ ExitT \in ReleaseThreads
  /\ SyncT \notin UserThreads /\ ExitT \notin UserThreads
  /\ \A f \in Files : /\ Main(f) \in Threads /\ Main(f) # SyncT /\ Main(f) # ExitT
                      /\ Reader(f) \in Threads /\ Reader(f) # SyncT /\ Reader(f) # ExitT
                      /\ Main(f) # Reader(f) /\ Main(f) \in UserThreads
                      /\ Reader(f) \in UserThreads
                      /\ Main(f)[1] = f /\ Reader(f)[1] = f /\ f # "driver" /\ f \in Holders
                      /\ Main(f) \in ReleaseThreads /\ Reader(f) \notin ReleaseThreads
  /\ WdsCb \notin Threads /\ NoThread \notin Threads /\ Gone \notin Threads
  /\ Gone # WdsCb /\ NoThread # WdsCb /\ Gone # NoThread
  /\ \A t \in Threads : t[1] \in Holders
  /\ \A t \in ReleaseThreads : t \in Threads
  /\ \A t \in Threads : t = SyncT \/ t = ExitT \/ \E f \in Files : t = Main(f) \/ t = Reader(f)
  /\ \A t, u \in ReleaseThreads : t[1] = u[1] => t = u \/ {t, u} = {SyncT, ExitT}
<1>1. /\ Ids \subseteq 1..253 /\ NoId \notin Ids /\ CTL \notin Ids /\ NoId # CTL
      /\ "driver" \notin Files
  BY ConstantsAssumption DEF NoId, CTL
<1> QED
  BY <1>1, SMTT(60) DEF Threads, UserThreads, ReleaseThreads, Main, Reader, SyncT, ExitT, WdsCb, NoThread,
              Gone, Holders

LEMMA SetFieldSame ==
  ASSUME NEW cs \in Seq(ClientMem), NEW i \in 0..Len(cs)
  PROVE  /\ \A l \in Seq(Msg) : LET ds == SetList(cs, i, l) IN
              Same(cs, ds) /\ SameNotify(cs, ds) /\ SameUrbs(cs, ds) /\ ds \in Seq(ClientMem)
         /\ \A l \in Seq(Waiter) : LET ds == SetNotify(cs, i, l) IN
              Same(cs, ds) /\ SameUrbs(cs, ds) /\ ds \in Seq(ClientMem)
         /\ \A l \in Seq(Urb) : LET ds == SetUrbs(cs, i, l) IN
              Same(cs, ds) /\ SameNotify(cs, ds) /\ ds \in Seq(ClientMem)
<1>1. \A j \in 1..Len(cs) : cs[j] \in ClientMem OBVIOUS
<1>2. ASSUME NEW l \in Seq(Msg)
      PROVE  LET ds == SetList(cs, i, l) IN
               Same(cs, ds) /\ SameNotify(cs, ds) /\ SameUrbs(cs, ds) /\ ds \in Seq(ClientMem)
  <2> DEFINE ds == SetList(cs, i, l)
  <2>1. /\ ds \in Seq(ClientMem) /\ Len(ds) = Len(cs)
        /\ \A j \in 1..Len(cs) : ds[j] = IF j = i THEN [cs[j] EXCEPT !.list = l] ELSE cs[j]
    BY SetListProperties
  <2>2. Same(cs, ds) /\ SameNotify(cs, ds) /\ SameUrbs(cs, ds) /\ ds \in Seq(ClientMem)
    <3> HIDE DEF ds
    <3> QED BY <1>1, <2>1 DEF Same, SameNotify, SameUrbs, ClientMem
  <2> QED BY <2>2
<1>3. ASSUME NEW l \in Seq(Waiter)
      PROVE  LET ds == SetNotify(cs, i, l) IN
               Same(cs, ds) /\ SameUrbs(cs, ds) /\ ds \in Seq(ClientMem)
  <2> DEFINE ds == SetNotify(cs, i, l)
  <2>1. /\ ds \in Seq(ClientMem) /\ Len(ds) = Len(cs)
        /\ \A j \in 1..Len(cs) : ds[j] = IF j = i THEN [cs[j] EXCEPT !.notify = l] ELSE cs[j]
    BY SetNotifyProperties
  <2>2. Same(cs, ds) /\ SameUrbs(cs, ds) /\ ds \in Seq(ClientMem)
    <3> HIDE DEF ds
    <3> QED BY <1>1, <2>1 DEF Same, SameNotify, SameUrbs, ClientMem
  <2> QED BY <2>2
<1>4. ASSUME NEW l \in Seq(Urb)
      PROVE  LET ds == SetUrbs(cs, i, l) IN
               Same(cs, ds) /\ SameNotify(cs, ds) /\ ds \in Seq(ClientMem)
  <2> DEFINE ds == SetUrbs(cs, i, l)
  <2>1. /\ ds \in Seq(ClientMem) /\ Len(ds) = Len(cs)
        /\ \A j \in 1..Len(cs) : ds[j] = IF j = i THEN [cs[j] EXCEPT !.urbs = l] ELSE cs[j]
    BY SetUrbsProperties
  <2>2. Same(cs, ds) /\ SameNotify(cs, ds) /\ ds \in Seq(ClientMem)
    <3> HIDE DEF ds
    <3> QED BY <1>1, <2>1 DEF Same, SameNotify, SameUrbs, ClientMem
  <2> QED BY <2>2
<1> QED BY <1>2, <1>3, <1>4

LEMMA PurgedProperties ==
  ASSUME NEW cs \in Seq(ClientMem), NEW x
  PROVE  LET ds == Purged(cs, x) IN
         ds \in Seq(ClientMem) /\ Same(cs, ds) /\ SameNotify(cs, ds) /\ SameUrbs(cs, ds)
<1> DEFINE i == FindClientMem(cs, CTL)
<1>1. i \in 0..Len(cs) BY FindProperties
<1>2. CASE i = 0 BY <1>2 DEF Purged, Same, SameNotify, SameUrbs
<1>3. CASE i # 0
  <2>1. cs[i] \in ClientMem BY <1>1, <1>3
  <2>2. cs[i].list \in Seq(Msg) BY <2>1 DEF ClientMem
  <2>3. Without(cs[i].list, x) \in Seq(Msg) BY <2>2, WithoutType
  <2>4. Purged(cs, x) = SetList(cs, i, Without(cs[i].list, x)) BY <1>3 DEF Purged
  <2> QED BY <1>1, <2>3, <2>4, SetFieldSame
<1> QED BY <1>2, <1>3

LEMMA CallFrame ==
  ASSUME TInv, NEW t \in Threads, OnlyMoves(t), CallInv(t)'
  PROVE  \A u \in Threads : CallInv(u)'
BY DEF TInv, OnlyMoves, Others, CallInv

LEMMA UsbFrame ==
  ASSUME TInv, NEW t \in Threads, pc[t] # "written", usb' = usb,
         freedUrb \ {t} \subseteq freedUrb', pc'[t] = "submit" => done'[t] = "no",
         \A u \in Others(t) : pc'[u] = pc[u] /\ urb'[u] = urb[u] /\ done'[u] = done[u]
  PROVE  UsbInv'
<1>1. \A k \in 1..Len(usb) : usb[k].t \in Others(t)
  <2>1. usb \in Seq(Urb) BY DEF TInv, TypeOK
  <2>2. \A k \in 1..Len(usb) : usb[k] \in Urb BY <2>1
  <2> QED BY <2>2 DEF TInv, UsbInv, Others, Urb
<1> QED BY <1>1 DEF TInv, UsbInv, MyUrb, Others

LEMMA WalkFrame ==
  ASSUME TInv, cb' = cb, cb.pc = "walk" => lock' = lock /\ Same(clients, clients')
  PROVE  WalkInv'
BY DEF TInv, WalkInv, Same, RefOf

LEMMA SyncFrame ==
  ASSUME TInv, stage' = stage, pc'[SyncT] = pc[SyncT], call'[SyncT] = call[SyncT],
         tries' = tries, id'["driver"] = id["driver"]
  PROVE  SyncInv'
BY DEF TInv, SyncInv

LEMMA ReturnEffect ==
  ASSUME TInv, NEW t \in Threads, NEW ok \in BOOLEAN, Return(t, ok)
  PROVE  /\ pc' \in [Threads -> Pcs] /\ call' \in [Threads -> CallSet] /\ stage' \in Stages
         /\ OnlyMoves(t) /\ pc'[t] = "idle"
         /\ t # SyncT => call'[t] = NoCall /\ stage' = stage
         /\ t = SyncT => /\ stage' = IF ok THEN StageAfter(call[t].op) ELSE "done"
                         /\ call'[t] = IF stage' = stage THEN call[t] ELSE NoCall
<1>1. /\ pc \in [Threads -> Pcs] /\ call \in [Threads -> CallSet] /\ stage \in Stages
  BY DEF TInv, TypeOK, CallSet, Stages
<1>2. NoCall \in CallSet BY ConstantsAssumption DEF NoCall, CallSet, Ops
<1>3. stage' \in Stages BY <1>1 DEF Return, StageAfter, Stages
<1>4. pc' = [pc EXCEPT ![t] = "idle"] BY DEF Return, Goto
<1>5. /\ t # SyncT => call' = [call EXCEPT ![t] = NoCall] /\ stage' = stage
      /\ t = SyncT => /\ stage' = IF ok THEN StageAfter(call[t].op) ELSE "done"
                      /\ call' = IF stage' = stage THEN call ELSE [call EXCEPT ![t] = NoCall]
  BY DEF Return
<1> QED BY <1>1, <1>2, <1>3, <1>4, <1>5 DEF OnlyMoves, Others, Pcs

\* A thread that returns keeps to what calls can be.
LEMMA ReturnCall ==
  ASSUME TInv, NEW t \in Threads, NEW ok \in BOOLEAN, Return(t, ok)
  PROVE  CallInv(t)'
<1>1. pc'[t] = "idle" /\ call'[t] \in {call[t], NoCall} BY ReturnEffect
<1>2. CASE call'[t] = NoCall BY <1>1, <1>2 DEF CallInv, NoCall, CtlOps, Writing, Releasing
<1>3. CASE call'[t] = call[t] /\ call[t] # NoCall
  <2>1. t = SyncT /\ stage' = stage BY <1>3, ReturnEffect
  <2>2. CallInv(t) /\ (stage = "done" => pc[t] = "idle") BY <2>1 DEF TInv, SyncInv
  <2>3. pc[t] \notin Releasing BY <2>2, <2>1, ReturnEffect DEF CallInv, StageAfter, Releasing
  <2> QED BY <1>1, <1>3, <2>1, <2>2, <2>3 DEF CallInv, CtlOps, Writing, Releasing
<1> QED BY <1>1, <1>2, <1>3

\* Every step keeps the types, action by action.
LEMMA SpendType ==
  ASSUME TypeOK, NEW what \in {"get", "data", "fault"}, Spend(what)
  PROVE  spent' \in [get : 0..MaxGets, data : 0..MaxData, fault : 0..MaxFaults]
<1>1. /\ spent \in [get : 0..MaxGets, data : 0..MaxData, fault : 0..MaxFaults]
      /\ spent' = [spent EXCEPT ![what] = @ + 1]
      /\ spent[what] < Bound[what]
      /\ MaxGets \in Nat /\ MaxData \in Nat /\ MaxFaults \in Nat
  BY ConstantsAssumption DEF TypeOK, Spend
<1>2. CASE what = "get" BY <1>1, <1>2 DEF Bound
<1>3. CASE what = "data" BY <1>1, <1>3 DEF Bound
<1>4. CASE what = "fault" BY <1>1, <1>4 DEF Bound
<1> QED BY <1>2, <1>3, <1>4

LEMMA BeginCtlEffect ==
  ASSUME TInv, NEW t \in Threads, NEW op \in {"sync", "get", "rel"}, NEW c \in Ids \union {NoId},
         BeginCtl(t, op, c)
  PROVE  /\ tid' \in 1..MaxTid /\ clients' \in Seq(ClientMem)
         /\ Same(clients, clients') /\ SameNotify(clients, clients')
         /\ SameUrbs(clients, clients')
         /\ pc' \in [Threads -> Pcs] /\ call' \in [Threads -> CallSet]
         /\ OnlyMoves(t) /\ pc'[t] = "add"
         /\ call'[t] = [op |-> op, cid |-> CTL, tid |-> NextTid, rid |-> c]
BY ConstantsAssumption, PurgedProperties DEF TInv, TypeOK, CallSet, NextTid, Ops, BeginCtl,
   Goto, OnlyMoves, Others, Pcs

LEMMA BeginCtlCall ==
  ASSUME TInv, NEW t \in ReleaseThreads, NEW op \in {"sync", "get", "rel"},
         op = "sync" => t = SyncT, NEW c \in Ids \union {NoId}, BeginCtl(t, op, c)
  PROVE  CallInv(t)'
<1>1. t \in Threads BY ConstantFacts
<1>2. pc'[t] = "add" /\ call'[t] = [op |-> op, cid |-> CTL, tid |-> NextTid, rid |-> c]
  BY <1>1, BeginCtlEffect
<1> QED BY <1>2, ConstantFacts DEF CallInv, CtlOps, Writing, Releasing

LEMMA IdleMoves ==
  ASSUME TInv, NEW t \in Threads, t # SyncT, pc[t] = "idle", Quietly(t),
         id'["driver"] = id["driver"]
  PROVE  (\A u \in Threads : CallInv(u)') /\ UsbInv' /\ WalkInv' /\ SyncInv'
<1>1. UNCHANGED <<usb, urb, done, freedUrb, cb, lock, stage, tries>>
  BY DEF Quietly, syncVars, writeVars
<1>2. OnlyMoves(t) /\ CallInv(t)' /\ pc'[t] # "submit" /\ Same(clients, clients') BY DEF Quietly
<1>3. \A u \in Threads : CallInv(u)' BY <1>2, CallFrame
<1>4. UsbInv' BY <1>1, <1>2, UsbFrame DEF OnlyMoves
<1>5. WalkInv' BY <1>1, <1>2, WalkFrame
<1>6. SyncInv' BY <1>1, <1>2, SyncFrame, ConstantFacts DEF OnlyMoves, Others
<1> QED BY <1>3, <1>4, <1>5, <1>6

LEMMA AskReleaseEffect ==
  ASSUME TInv, NEW t \in ReleaseThreads, NEW c \in Ids \union {CTL}, pc[t] = "idle",
         AskRelease(t, c)
  PROVE  /\ tid' \in 1..MaxTid /\ clients' \in Seq(ClientMem) /\ Same(clients, clients')
         /\ pc' \in [Threads -> Pcs] /\ call' \in [Threads -> CallSet] /\ OnlyMoves(t)
         /\ CallInv(t)' /\ pc'[t] # "submit"
<1> DEFINE x == [NoCall EXCEPT !.op = "rel", !.rid = c]
<1>1. /\ t \in Threads /\ tid \in 1..MaxTid /\ clients \in Seq(ClientMem)
      /\ pc \in [Threads -> Pcs] /\ call \in [Threads -> CallSet] /\ CallInv(t)
  BY ConstantFacts DEF TInv, TypeOK, CallSet
<1>2. CASE c # CTL /\ BeginCtl(t, "rel", c)
  <2>1. c \in Ids \union {NoId} BY <1>2
  <2> QED BY <1>1, <1>2, <2>1, BeginCtlEffect, BeginCtlCall
<1>3. CASE call' = [call EXCEPT ![t] = x] /\ Goto(t, "find") /\ UNCHANGED <<tid, clients>>
  <2>1. NoCall \in CallSet BY ConstantsAssumption DEF NoCall, CallSet, Ops
  <2>2. x \in CallSet /\ x.op = "rel" /\ x.cid = CTL /\ x.rid = c
    BY <2>1 DEF CallSet, Ops, NoCall
  <2> HIDE DEF x
  <2>3. pc' = [pc EXCEPT ![t] = "find"] BY <1>3 DEF Goto
  <2>4. /\ pc' \in [Threads -> Pcs] /\ call' \in [Threads -> CallSet] /\ OnlyMoves(t)
        /\ pc'[t] = "find" /\ call'[t] = x
    BY <1>1, <1>3, <2>2, <2>3 DEF OnlyMoves, Others, Pcs
  <2>5. CallInv(t)' BY <1>1, <2>2, <2>4 DEF CallInv, CtlOps, Writing, Releasing
  <2> QED BY <1>1, <1>3, <2>4, <2>5 DEF Same
<1> QED BY <1>2, <1>3 DEF AskRelease

LEMMA NothingBegun ==
  ASSUME TInv, NEW t \in Threads, pc[t] = "idle", UNCHANGED <<tid, clients, call, pc>>
  PROVE  /\ tid' \in 1..MaxTid /\ clients' \in Seq(ClientMem) /\ Same(clients, clients')
         /\ pc' \in [Threads -> Pcs] /\ call' \in [Threads -> CallSet] /\ OnlyMoves(t)
         /\ CallInv(t)' /\ pc'[t] # "submit"
BY DEF TInv, TypeOK, CallSet, Same, OnlyMoves, CallInv

LEMMA IoctlTypes ==
  ASSUME TInv, NEW f \in Files, GetService(f) \/ ForceRelease(f) \/ GetAgain(f)
  PROVE  TInv'
<1> DEFINE t == Main(f)
<1>1. /\ pc[t] = "idle" /\ t \in Threads /\ t \in ReleaseThreads /\ t # SyncT
      /\ WDA \in Ids \union {NoId} /\ WDA \in Ids \union {CTL}
  BY ConstantFacts, ConstantsAssumption DEF GetService, ForceRelease, GetAgain, Unserved
<1>2. \/ UNCHANGED <<tid, clients, call, pc>>
      \/ \E c \in Ids \union {NoId} : BeginCtl(t, "get", c)
      \/ AskRelease(t, WDA)
  BY <1>1 DEF GetService, ForceRelease, GetAgain
<1>3. /\ tid' \in 1..MaxTid /\ clients' \in Seq(ClientMem) /\ Same(clients, clients')
      /\ pc' \in [Threads -> Pcs] /\ call' \in [Threads -> CallSet] /\ OnlyMoves(t)
      /\ CallInv(t)' /\ pc'[t] # "submit"
  <2> HIDE DEF t
  <2>1. CASE UNCHANGED <<tid, clients, call, pc>> BY <1>1, <2>1, NothingBegun
  <2>2. ASSUME NEW c \in Ids \union {NoId}, BeginCtl(t, "get", c)
        PROVE  /\ tid' \in 1..MaxTid /\ clients' \in Seq(ClientMem) /\ Same(clients, clients')
               /\ pc' \in [Threads -> Pcs] /\ call' \in [Threads -> CallSet] /\ OnlyMoves(t)
               /\ CallInv(t)' /\ pc'[t] # "submit"
    BY <1>1, <2>2, BeginCtlEffect, BeginCtlCall
  <2>3. CASE AskRelease(t, WDA) BY <1>1, <2>3, AskReleaseEffect
  <2> QED BY <1>2, <2>1, <2>2, <2>3
<1>4. /\ UNCHANGED <<valid, dereg, attached, syncVars, fileVars, writeVars, readVars, del, asked,
                     granted, lock, cb>>
      /\ spent' = spent \/ Spend("get")
  BY DEF GetService, ForceRelease, GetAgain, modemVars
<1>5. spent' \in [get : 0..MaxGets, data : 0..MaxData, fault : 0..MaxFaults]
  BY <1>4, SpendType DEF TInv, TypeOK
<1>6. wda' \in [Files -> {"no", "first", "again"}] /\ forced' \in BOOLEAN
  <2>1. wda \in [Files -> {"no", "first", "again"}] /\ forced \in BOOLEAN BY DEF TInv, TypeOK
  <2>2. CASE GetService(f)
    <3>1. PICK s \in {WDA, NoId} :
            wda' = [wda EXCEPT ![f] = IF s = WDA THEN "first" ELSE "no"] BY <2>2 DEF GetService
    <3> QED BY <2>1, <2>2, <3>1 DEF GetService
  <2>3. CASE ForceRelease(f) BY <2>1, <2>3 DEF ForceRelease
  <2>4. CASE GetAgain(f) BY <2>1, <2>4 DEF GetAgain
  <2> QED BY <2>2, <2>3, <2>4
<1> HIDE DEF t
<1>7. TypeOK'
  BY <1>3, <1>4, <1>5, <1>6 DEF TInv, TypeOK, CallSet, syncVars, fileVars, readVars, writeVars
<1>8. Quietly(t) BY <1>3, <1>4 DEF Quietly
<1>9. id'["driver"] = id["driver"] BY <1>4 DEF fileVars
<1> QED BY <1>1, <1>7, <1>8, <1>9, IdleMoves DEF TInv

LEMMA BeginIoTypes ==
  ASSUME TInv, NEW t \in UserThreads, NEW op \in {"write", "read"},
         op = "write" => t \in ReleaseThreads, BeginIo(t, op)
  PROVE  TInv'
<1>1. t \in Threads /\ t # SyncT /\ t[1] \in Holders BY ConstantFacts DEF Threads
<1>2. pc \in [Threads -> Pcs] /\ call \in [Threads -> CallSet] /\ id[t[1]] \in Ids
  BY <1>1 DEF TInv, TypeOK, CallSet, BeginIo
<1>3. /\ pc' = [pc EXCEPT ![t] = IF op = "write" THEN "add" ELSE "try"]
      /\ call' = [call EXCEPT ![t] = [op |-> op, cid |-> id[t[1]], tid |-> 0, rid |-> NoId]]
      /\ pc[t] = "idle"
  BY DEF BeginIo, Goto
<1>4. [op |-> op, cid |-> id[t[1]], tid |-> 0, rid |-> NoId] \in CallSet
  BY <1>2, ConstantsAssumption DEF CallSet, Ops
<1>5. /\ pc' \in [Threads -> Pcs] /\ call' \in [Threads -> CallSet] /\ OnlyMoves(t)
      /\ pc'[t] = (IF op = "write" THEN "add" ELSE "try")
      /\ call'[t] = [op |-> op, cid |-> id[t[1]], tid |-> 0, rid |-> NoId]
  BY <1>1, <1>2, <1>3, <1>4 DEF OnlyMoves, Others, Pcs
<1>6. TypeOK'
  BY <1>5 DEF TInv, TypeOK, CallSet, BeginIo, deviceVars, syncVars, fileVars, readVars,
                    writeVars, modemVars
<1>7. CallInv(t)' BY <1>2, <1>5, ConstantFacts DEF CallInv, CtlOps, Writing, Releasing
<1>8. \A u \in Threads : CallInv(u)' BY <1>1, <1>5, <1>7, CallFrame
<1>9. /\ usb' = usb /\ urb' = urb /\ done' = done /\ freedUrb' = freedUrb /\ cb' = cb /\ lock' = lock
      /\ stage' = stage /\ tries' = tries /\ id' = id /\ clients' = clients
  BY DEF BeginIo, writeVars, syncVars, fileVars
<1>10. UsbInv' BY <1>1, <1>3, <1>5, <1>9, UsbFrame DEF OnlyMoves
<1>11. WalkInv' BY <1>9, WalkFrame DEF Same
<1>12. SyncInv' BY <1>1, <1>5, <1>9, SyncFrame, ConstantFacts DEF OnlyMoves, Others
<1> QED BY <1>6, <1>8, <1>10, <1>11, <1>12 DEF TInv

LEMMA UserspaceCloseTypes ==
  ASSUME TInv, NEW f \in Files, UserspaceClose(f)
  PROVE  TInv'
<1> DEFINE t == Main(f)
<1>1. /\ pc[t] = "idle" /\ t \in Threads /\ t \in ReleaseThreads /\ t # SyncT /\ f \in Holders
      /\ f # "driver" /\ id[f] \in Ids \union {NoId}
  BY ConstantFacts DEF UserspaceClose, TInv, TypeOK
<1>2. /\ id' = [id EXCEPT ![f] = NoId] /\ closed' = closed \union {f}
      /\ \/ UNCHANGED <<tid, clients, call, pc>>
         \/ id[f] # NoId /\ AskRelease(t, id[f])
  BY DEF UserspaceClose
<1> HIDE DEF t
<1>3. /\ tid' \in 1..MaxTid /\ clients' \in Seq(ClientMem) /\ Same(clients, clients')
      /\ pc' \in [Threads -> Pcs] /\ call' \in [Threads -> CallSet] /\ OnlyMoves(t)
      /\ CallInv(t)' /\ pc'[t] # "submit"
  BY <1>1, <1>2, NothingBegun, AskReleaseEffect
<1>4. id' \in [Holders -> Ids \union {NoId}] /\ closed' \subseteq Files
      /\ id'["driver"] = id["driver"]
  BY <1>1, <1>2 DEF TInv, TypeOK, Holders
<1>5. TypeOK'
  BY <1>3, <1>4 DEF TInv, TypeOK, CallSet, UserspaceClose, deviceVars, syncVars, readVars,
                    writeVars, modemVars
<1>6. Quietly(t) BY <1>3 DEF UserspaceClose, Quietly, deviceVars
<1> QED BY <1>1, <1>4, <1>5, <1>6, IdleMoves DEF TInv

LEMMA SyncReturn ==
  ASSUME TInv, NEW t \in Threads, NEW ok \in BOOLEAN, Return(t, ok), pc[t] # "idle",
         tries' = tries, id'["driver"] = id["driver"], ~(ok /\ call[t].op = "get")
  PROVE  SyncInv'
<1>1. CASE t # SyncT BY <1>1, ReturnEffect, SyncFrame, ConstantFacts DEF OnlyMoves, Others
<1>2. CASE t = SyncT BY <1>2, ReturnEffect DEF TInv, SyncInv, StageAfter, NoCall, CallInv
<1> QED BY <1>1, <1>2

LEMMA GotoEnds ==
  ASSUME TInv, NEW t \in Threads, pc[t] # "idle", NEW where \in Pcs \ {"idle"}, Goto(t, where),
         UNCHANGED <<stage, call, tries>>, id'["driver"] = id["driver"], CallInv(t)'
  PROVE  Ends(t)
<1>1. /\ pc \in [Threads -> Pcs] /\ call \in [Threads -> CallSet] /\ stage \in Stages
  BY DEF TInv, TypeOK, CallSet, Stages
<1>2. pc' \in [Threads -> Pcs] /\ OnlyMoves(t) /\ pc'[t] = where
  BY <1>1 DEF Goto, OnlyMoves, Others
<1>3. \A u \in Threads : CallInv(u)' BY <1>2, CallFrame
<1>4. SyncInv'
  <2>1. CASE t # SyncT BY <1>2, <2>1, SyncFrame, ConstantFacts DEF OnlyMoves, Others
  <2>2. CASE t = SyncT BY <1>2, <2>2 DEF TInv, SyncInv
  <2> QED BY <2>1, <2>2
<1> QED BY <1>1, <1>2, <1>3, <1>4 DEF Ends

LEMMA ReturnEnds ==
  ASSUME TInv, NEW t \in Threads, NEW ok \in BOOLEAN, Return(t, ok), pc[t] # "idle",
         tries' = tries, id'["driver"] = id["driver"], ~(ok /\ call[t].op = "get")
  PROVE  Ends(t)
BY ReturnCall, ReturnEffect, CallFrame, SyncReturn DEF Ends

\* To where a call goes on, its arguments as before.
LEMMA GoesOn ==
  ASSUME TInv, NEW t \in Threads, pc[t] # "idle", NEW where \in Pcs \ {"idle"}, Goto(t, where),
         UNCHANGED <<stage, call, tries>>, id'["driver"] = id["driver"],
         \/ where \in {"submit", "written"} /\ pc[t] \in Writing
         \/ where = "try" /\ call[t].op \in {"sync", "get", "rel", "read"}
                          /\ pc[t] \notin Releasing
         \/ where = "asleep" /\ call[t].op \in {"ready", "sync", "get", "rel", "read"}
                          /\ pc[t] \notin Releasing
         \/ where = "giveup" /\ pc[t] = "asleep" /\ call[t].op # "ready" /\ t \in UserThreads
         \/ where \in Releasing /\ call[t].op = "rel"
  PROVE  Ends(t)
<1>1. pc'[t] = where /\ call'[t] = call[t] /\ CallInv(t) BY DEF TInv, TypeOK, Goto
<1>2. CallInv(t)' BY <1>1 DEF CallInv, CtlOps, Writing, Releasing
<1> QED BY <1>2, GotoEnds

LEMMA WriteFailedEnds ==
  ASSUME TInv, NEW t \in Threads, pc[t] # "idle", WriteFailed(t), tries' = tries,
         id'["driver"] = id["driver"]
  PROVE  Ends(t)
<1>1. CASE call[t].op = "rel" BY <1>1, GoesOn DEF WriteFailed, Pcs, Releasing
<1>2. CASE call[t].op # "rel" BY <1>2, ReturnEnds DEF WriteFailed
<1> QED BY <1>1, <1>2

LEMMA WriteOkEnds ==
  ASSUME TInv, NEW t \in Threads, pc[t] \in Writing, WriteOk(t), tries' = tries,
         id'["driver"] = id["driver"]
  PROVE  Ends(t)
<1>1. call[t].op \in CtlOps \union {"write"} /\ pc[t] # "idle" /\ pc[t] \notin Releasing
  BY DEF TInv, CallInv, Writing, Releasing
<1>2. CASE call[t].op = "write" BY <1>1, <1>2, ReturnEnds DEF WriteOk
<1>3. CASE call[t].op = "ready" BY <1>3, <1>1, GoesOn DEF WriteOk, Pcs
<1>4. CASE call[t].op \in {"sync", "get", "rel"} BY <1>4, <1>1, GoesOn DEF WriteOk, Pcs
<1> QED BY <1>1, <1>2, <1>3, <1>4 DEF CtlOps

LEMMA PopUrb ==
  ASSUME TInv, NEW t \in Threads, PopFromURBList(t)
  PROVE  /\ clients' \in Seq(ClientMem) /\ Same(clients, clients')
         /\ SameNotify(clients, clients')
<1> DEFINE i == FindClientMem(clients, call[t].cid)
<1>1. clients \in Seq(ClientMem) BY DEF TInv, TypeOK
<1>2. CASE clients' = clients BY <1>1, <1>2 DEF Same, SameNotify
<1>3. CASE UrbAt(t) # {}
  <2>1. /\ i \in 1..Len(clients) /\ clients[i].urbs # <<>>
        /\ clients' = SetUrbs(clients, i, Tail(clients[i].urbs))
    <3>1. i # 0 /\ clients[i].urbs # <<>> BY <1>3 DEF UrbAt
    <3>2. i \in 0..Len(clients) BY <1>1, FindProperties
    <3>3. clients' = SetUrbs(clients, i, Tail(clients[i].urbs)) BY <1>3 DEF PopFromURBList
    <3> QED BY <1>1, <3>1, <3>2, <3>3
  <2>2. clients[i] \in ClientMem BY <1>1, <2>1
  <2>3. clients[i].urbs \in Seq(Urb) BY <2>2 DEF ClientMem
  <2>4. Tail(clients[i].urbs) \in Seq(Urb) BY <2>1, <2>3, TailProperties
  <2> HIDE DEF i
  <2>5. i \in 0..Len(clients) BY <1>1, <2>1
  <2> QED BY <1>1, <2>1, <2>4, <2>5, SetFieldSame
<1> QED BY <1>2, <1>3 DEF PopFromURBList

LEMMA NewUrb ==
  ASSUME NEW t \in Threads
  PROVE  [t |-> t, n |-> StillListed(t)] \in Urb
<1>1. StillListed(t) \in BOOLEAN BY DEF StillListed
<1> QED BY <1>1 DEF Urb

LEMMA WriteAddTypes ==
  ASSUME TInv, NEW t \in Threads, WriteAdd(t)
  PROVE  TInv'
<1> DEFINE i == FindClientMem(clients, call[t].cid)
           u == [t |-> t, n |-> StillListed(t)]
<1>1. /\ pc[t] = "add" /\ clients \in Seq(ClientMem) /\ i \in 0..Len(clients)
      /\ done \in [Threads -> {"no", "ok", "err"}] /\ urb \in [Threads -> BOOLEAN]
  BY FindProperties DEF TInv, TypeOK, WriteAdd
<1>2. /\ id' = id /\ tries' = tries /\ usb' = usb /\ cb' = cb /\ lock' = lock
  BY DEF WriteAdd, fileVars
<1>3. /\ clients' \in Seq(ClientMem) /\ Same(clients, clients') /\ Ends(t)
      /\ urb' \in [Threads -> BOOLEAN] /\ done' \in [Threads -> {"no", "ok", "err"}]
      /\ freedUrb' \subseteq freedUrb /\ freedUrb \ {t} \subseteq freedUrb'
      /\ pc'[t] = "submit" => done'[t] = "no"
      /\ \A x \in Others(t) : urb'[x] = urb[x] /\ done'[x] = done[x]
  <2>1. CASE valid /\ i # 0
    <3>1. /\ clients' = SetUrbs(clients, i, Append(clients[i].urbs, u))
          /\ urb' = [urb EXCEPT ![t] = u.n] /\ done' = [done EXCEPT ![t] = "no"]
          /\ freedUrb' = freedUrb \ {t}
          /\ Goto(t, "submit") /\ UNCHANGED <<stage, call>>
      BY <2>1 DEF WriteAdd
    <3>2. clients[i] \in ClientMem /\ u \in Urb /\ u.n \in BOOLEAN BY <1>1, <2>1, NewUrb DEF Urb
    <3>3. Append(clients[i].urbs, u) \in Seq(Urb) BY <3>2, AppendProperties DEF ClientMem
    <3>4. clients' \in Seq(ClientMem) /\ Same(clients, clients')
      <4> HIDE DEF i, u
      <4> QED BY <1>1, <3>1, <3>3, SetFieldSame
    <3>5. Ends(t) BY <1>1, <1>2, <3>1, GoesOn DEF Pcs, Writing
    <3> QED BY <1>1, <3>1, <3>2, <3>4, <3>5 DEF Others
  <2>2. CASE ~(valid /\ i # 0)
    BY <2>2, <1>1, ReturnEffect, <1>2, WriteFailedEnds DEF WriteAdd, WriteFailed, Goto, TInv,
       TypeOK, Same
  <2> QED BY <2>1, <2>2
<1> HIDE DEF i, u
<1>4. TypeOK'
  BY <1>3 DEF Ends, CallSet, Stages, TInv, TypeOK, WriteAdd, deviceVars, fileVars, readVars, modemVars
<1>5. UsbInv' BY <1>1, <1>2, <1>3, UsbFrame DEF Ends, OnlyMoves
<1>6. WalkInv' BY <1>2, <1>3, WalkFrame
<1> QED BY <1>3, <1>4, <1>5, <1>6 DEF TInv, Ends

LEMMA RemoveFirstProperties ==
  ASSUME NEW S, NEW s \in Seq(S), NEW x
  PROVE  \/ RemoveFirst(s, x) = s /\ \A i \in 1..Len(s) : s[i] # x
         \/ \E i \in 1..Len(s) : s[i] = x /\ RemoveFirst(s, x) = RemoveAt(s, i)
<1> DEFINE I == {i \in 1..Len(s) : s[i] = x}
<1>1. CASE I = {} BY <1>1 DEF RemoveFirst
<1>2. CASE I # {}
  <2>1. Min(I) \in I
    <3>1. I \in SUBSET Nat OBVIOUS
    <3> HIDE DEF I
    <3> QED BY <1>2, <3>1, MinProperty
  <2>2. RemoveFirst(s, x) = RemoveAt(s, Min(I)) BY <1>2 DEF RemoveFirst, SelectInSeq
  <2> QED BY <2>1, <2>2
<1> QED BY <1>1, <1>2

\* A URB taken from the controller: when it is its thread's, nothing of the
\* thread is left there.
LEMMA UsbRemoved ==
  ASSUME TInv, NEW u \in Urb
  PROVE  LET q == RemoveFirst(usb, u) IN
         /\ q \in Seq(Urb)
         /\ \A k \in 1..Len(q) : /\ \E j \in 1..Len(usb) : q[k] = usb[j]
                                 /\ u = MyUrb(u.t) => q[k].t # u.t
         /\ \A j, k \in 1..Len(q) : q[j].t = q[k].t => j = k
<1> DEFINE q == RemoveFirst(usb, u)
<1>1. usb \in Seq(Urb) /\ UsbInv BY DEF TInv, TypeOK
<1>2. CASE q = usb /\ \A i \in 1..Len(usb) : usb[i] # u BY <1>1, <1>2 DEF UsbInv
<1>3. CASE \E i \in 1..Len(usb) : usb[i] = u /\ q = RemoveAt(usb, i)
  <2>1. PICK i \in 1..Len(usb) : usb[i] = u /\ q = RemoveAt(usb, i) BY <1>3
  <2>2. /\ q \in Seq(Urb) /\ Len(q) = Len(usb) - 1
        /\ \A j \in 1..(Len(usb) - 1) : q[j] = IF j < i THEN usb[j] ELSE usb[j + 1]
    BY <1>1, <2>1, RemoveAtProperties
  <2> HIDE DEF q
  <2>3. Len(usb) \in Nat /\ \A j \in 1..(Len(usb) - 1) : j \in 1..Len(usb) /\ j + 1 \in 1..Len(usb)
    BY <1>1
  <2>4. \A k \in 1..Len(q) : \E j \in 1..Len(usb) : j # i /\ q[k] = usb[j]
    <3> SUFFICES ASSUME NEW k \in 1..Len(q)
                 PROVE  \E j \in 1..Len(usb) : j # i /\ q[k] = usb[j]
      OBVIOUS
    <3>1. k \in 1..(Len(usb) - 1) /\ k \in 1..Len(usb) /\ k + 1 \in 1..Len(usb) BY <2>2, <2>3
    <3>2. CASE k < i BY <2>2, <3>1, <3>2
    <3>3. CASE ~(k < i) BY <2>2, <3>1, <3>3
    <3> QED BY <3>2, <3>3
  <2>5. \A k \in 1..Len(q) : q[k].t # u.t BY <1>1, <2>1, <2>4 DEF UsbInv
  <2>6. \A j, k \in 1..Len(q) : q[j].t = q[k].t => j = k
    <3> SUFFICES ASSUME NEW j \in 1..Len(q), NEW k \in 1..Len(q), q[j].t = q[k].t PROVE j = k
      OBVIOUS
    <3> DEFINE jj == IF j < i THEN j ELSE j + 1
               kk == IF k < i THEN k ELSE k + 1
    <3>1. jj \in 1..Len(usb) /\ kk \in 1..Len(usb) /\ q[j] = usb[jj] /\ q[k] = usb[kk]
      BY <2>2, <2>3
    <3>2. jj = kk
      <4> HIDE DEF jj, kk
      <4> QED BY <1>1, <3>1 DEF UsbInv
    <3> QED BY <3>2, <2>3
  <2> QED BY <2>2, <2>4, <2>5, <2>6 DEF q
<1> QED BY <1>1, <1>2, <1>3, RemoveFirstProperties

LEMMA SentType ==
  ASSUME TInv, NEW t \in Threads, pc[t] = "written", Sent(t)
  PROVE  asked' \subseteq Msg
<1>1. asked \subseteq Msg /\ call[t] \in CallSet /\ CallInv(t) /\ 1 \in 0..MaxTid
  BY ConstantsAssumption DEF TInv, TypeOK, CallSet
<1>2. CASE call[t].cid = CTL
  BY <1>1, <1>2, ConstantFacts DEF CallInv, Writing, CtlOps, Releasing, CallSet, Request, Msg,
     Sent
<1>3. CASE call[t].cid # CTL /\ t = SyncT
  BY <1>1, <1>3 DEF CallInv, Writing, CtlOps, Releasing, Msg, Sent
<1>4. CASE call[t].cid # CTL /\ t # SyncT BY <1>1, <1>4 DEF Sent
<1> QED BY <1>2, <1>3, <1>4

LEMMA WriteSubmitTypes ==
  ASSUME TInv, NEW t \in Threads, WriteSubmit(t)
  PROVE  TInv'
<1>1. /\ pc[t] = "submit" /\ clients \in Seq(ClientMem) /\ usb \in Seq(Urb)
      /\ MyUrb(t) \in Urb /\ UsbInv
  BY DEF TInv, TypeOK, WriteSubmit, MyUrb, Urb
<1>2. /\ id' = id /\ tries' = tries /\ cb' = cb /\ lock' = lock /\ urb' = urb /\ done' = done
  BY DEF WriteSubmit, fileVars
<1>3. /\ clients' \in Seq(ClientMem) /\ Same(clients, clients') /\ Ends(t)
      /\ spent' \in [get : 0..MaxGets, data : 0..MaxData, fault : 0..MaxFaults]
      /\ usb' \in Seq(Urb) /\ UsbInv'
  <2>1. CASE /\ usb' = Append(usb, MyUrb(t))
             /\ Goto(t, "written") /\ UNCHANGED <<stage, call, clients, spent>>
    <3>1. Ends(t) BY <1>1, <1>2, <2>1, GoesOn DEF Pcs, Writing
    <3>2. /\ usb' \in Seq(Urb) /\ Len(usb') = Len(usb) + 1 /\ Len(usb) \in Nat
          /\ \A k \in 1..Len(usb) : usb'[k] = usb[k]
          /\ usb'[Len(usb) + 1] = MyUrb(t)
      BY <1>1, <2>1, AppendProperties
    <3>3. \A k \in 1..Len(usb) : usb[k].t # t BY <1>1 DEF UsbInv
    <3>4. pc'[t] = "written" /\ \A x \in Threads : MyUrb(x)' = MyUrb(x)
      BY <1>2, <2>1 DEF Goto, TInv, TypeOK, MyUrb
    <3>5. done[t] = "no" BY <1>1 DEF UsbInv, WriteSubmit, UsesFreed
    <3>6. UsbInv'
      <4>1. \A k \in 1..Len(usb') : k \in 1..Len(usb) \/ k = Len(usb) + 1 BY <3>2
      <4>2. \A k \in 1..Len(usb) : pc'[usb[k].t] = "written"
        <5>1. \A k \in 1..Len(usb) : usb[k] \in Urb BY <1>1
        <5> QED BY <1>1, <3>1, <3>3, <5>1 DEF UsbInv, Ends, OnlyMoves, Others, Urb
      <4>3. MyUrb(t).t = t BY DEF MyUrb
      <4>4. \A x \in Others(t) : pc'[x] = pc[x] BY <3>1 DEF Ends, OnlyMoves
      <4>5. freedUrb' = freedUrb BY DEF WriteSubmit
      <4>6. /\ \A k \in 1..Len(usb') : /\ usb'[k].t \in Threads /\ usb'[k] = MyUrb(usb'[k].t)
                                      /\ pc'[usb'[k].t] = "written" /\ done[usb'[k].t] = "no"
        <5>1. \A k \in 1..Len(usb) : usb[k].t \in Threads
          <6>1. \A k \in 1..Len(usb) : usb[k] \in Urb BY <1>1
          <6> QED BY <6>1 DEF Urb
        <5>2. \A k \in 1..Len(usb) : usb[k] = MyUrb(usb[k].t) /\ done[usb[k].t] = "no"
          BY <1>1 DEF UsbInv
        <5> QED BY <3>2, <3>4, <3>5, <4>1, <4>2, <4>3, <5>1, <5>2
      <4>7. \A j, k \in 1..Len(usb') : usb'[j].t = usb'[k].t => j = k
        <5>1. \A j \in 1..Len(usb) : usb'[j].t = usb[j].t /\ usb'[j].t # t BY <3>2, <3>3
        <5>2. usb'[Len(usb) + 1].t = t BY <3>2, <4>3
        <5>3. \A j, k \in 1..Len(usb) : usb[j].t = usb[k].t => j = k BY <1>1 DEF UsbInv
        <5> QED BY <4>1, <5>1, <5>2, <5>3
      <4> QED BY <1>1, <1>2, <3>4, <4>4, <4>5, <4>6, <4>7 DEF UsbInv, Others
    <3> QED BY <1>1, <2>1, <3>1, <3>2, <3>6 DEF Same, TInv, TypeOK
  <2>2. CASE /\ IF attached THEN Fault ELSE UNCHANGED spent
             /\ PopFromURBList(t) /\ WriteFailed(t) /\ UNCHANGED usb
    <3>1. clients' \in Seq(ClientMem) /\ Same(clients, clients') BY <2>2, PopUrb
    <3>2. spent' \in [get : 0..MaxGets, data : 0..MaxData, fault : 0..MaxFaults]
      BY <2>2, SpendType DEF Fault, TInv, TypeOK
    <3>3. Ends(t) BY <1>1, <1>2, <2>2, WriteFailedEnds
    <3>4. pc'[t] # "submit" /\ freedUrb' = freedUrb
      BY <1>1, <2>2, ReturnEffect DEF WriteFailed, Goto, TInv, TypeOK, WriteSubmit
    <3>5. UsbInv' BY <1>1, <1>2, <2>2, <3>3, <3>4, UsbFrame DEF Ends, OnlyMoves
    <3> QED BY <1>1, <2>2, <3>1, <3>2, <3>3, <3>5
  <2> QED BY <2>1, <2>2 DEF WriteSubmit
<1>4. TypeOK'
  BY <1>3 DEF Ends, CallSet, Stages, TInv, TypeOK, WriteSubmit, deviceVars, fileVars, readVars
<1>5. WalkInv' BY <1>2, <1>3, WalkFrame
<1> QED BY <1>3, <1>4, <1>5 DEF TInv, Ends

LEMMA UsbLess ==
  ASSUME TInv,
         \A k \in 1..Len(usb') : \E j \in 1..Len(usb) :
            LET t == usb[j].t IN
            usb'[k] = usb[j] /\ pc'[t] = pc[t] /\ done'[t] = done[t] /\ urb'[t] = urb[t],
         \A j, k \in 1..Len(usb') : usb'[j].t = usb'[k].t => j = k,
         \A t \in Threads : pc'[t] = "submit" /\ t \notin freedUrb' => done'[t] = "no"
  PROVE  UsbInv'
<1>1. \A j \in 1..Len(usb) : /\ usb[j] = [t |-> usb[j].t, n |-> urb[usb[j].t]]
                             /\ pc[usb[j].t] = "written" /\ done[usb[j].t] = "no"
  BY DEF TInv, UsbInv, MyUrb
<1>2. \A k \in 1..Len(usb') : /\ usb'[k] = [t |-> usb'[k].t, n |-> urb'[usb'[k].t]]
                              /\ pc'[usb'[k].t] = "written" /\ done'[usb'[k].t] = "no"
  BY <1>1
<1> QED BY <1>2 DEF UsbInv, MyUrb

LEMMA WriteSyncCallbackTypes ==
  ASSUME TInv, WriteSyncCallback
  PROVE  TInv'
<1>1. usb \in Seq(Urb) /\ usb # <<>> /\ UsbInv /\ usb' = Tail(usb)
  BY DEF TInv, TypeOK, WriteSyncCallback
<1> DEFINE t == Head(usb).t
<1>2. /\ t \in Threads /\ t = usb[1].t /\ Len(usb) > 0 /\ Len(usb) \in Nat /\ usb' \in Seq(Urb)
      /\ Len(usb') = Len(usb) - 1
      /\ \A j \in 1..(Len(usb) - 1) : usb'[j] = usb[j + 1]
  <2>1. /\ usb' \in Seq(Urb) /\ Len(usb') = Len(usb) - 1 /\ Len(usb) > 0
        /\ \A j \in 1..(Len(usb) - 1) : usb'[j] = usb[j + 1]
        /\ Head(usb) = usb[1] /\ usb[1] \in Urb
    BY <1>1, TailProperties
  <2> QED BY <1>1, <2>1 DEF Urb
<1>3. /\ done' = [done EXCEPT ![t] = IF attached THEN "ok" ELSE "err"]
      /\ IF attached THEN Sent(t) ELSE UNCHANGED asked
  BY DEF WriteSyncCallback
<1> HIDE DEF t
<1>4. pc[t] = "written" /\ \A k \in 1..Len(usb) : usb[k].t = t => k = 1 BY <1>1, <1>2 DEF UsbInv
<1>5. asked' \subseteq Msg BY <1>2, <1>3, <1>4, SentType DEF TInv, TypeOK
<1>6. /\ done' \in [Threads -> {"no", "ok", "err"}]
      /\ \A x \in Others(t) : done'[x] = done[x]
  BY <1>2, <1>3 DEF TInv, TypeOK, Others
<1>7. /\ pc' = pc /\ call' = call /\ urb' = urb /\ freedUrb' = freedUrb /\ stage' = stage
      /\ tries' = tries /\ id' = id /\ cb' = cb /\ lock' = lock /\ clients' = clients
  BY DEF WriteSyncCallback, syncVars, fileVars
<1>8. TypeOK'
  BY <1>2, <1>5, <1>6 DEF TInv, TypeOK, WriteSyncCallback, deviceVars, syncVars, fileVars, readVars
<1>9. UsbInv'
  <2>1. \A k \in 1..Len(usb') : /\ k + 1 \in 1..Len(usb) /\ usb'[k] = usb[k + 1]
                                /\ usb[k + 1].t # t /\ usb[k + 1] \in Urb
    BY <1>2, <1>1, <1>4
  <2>2. \A k \in 1..Len(usb') : usb[k + 1].t \in Others(t) BY <2>1 DEF Urb, Others
  <2>3. \A j, k \in 1..Len(usb') : usb'[j].t = usb'[k].t => j = k
    <3> SUFFICES ASSUME NEW j \in 1..Len(usb'), NEW k \in 1..Len(usb'), usb'[j].t = usb'[k].t
                 PROVE j = k
      OBVIOUS
    <3>1. j + 1 = k + 1 BY <1>1, <2>1 DEF UsbInv
    <3> QED BY <3>1, <1>2
  <2>4. \A k \in 1..Len(usb') : \E j \in 1..Len(usb) :
            LET x == usb[j].t IN
            usb'[k] = usb[j] /\ pc'[x] = pc[x] /\ done'[x] = done[x] /\ urb'[x] = urb[x]
    BY <1>6, <1>7, <2>1, <2>2
  <2>5. \A x \in Threads : pc'[x] = "submit" /\ x \notin freedUrb' => done'[x] = "no"
    BY <1>1, <1>4, <1>6, <1>7 DEF UsbInv, Others
  <2> QED BY <2>3, <2>4, <2>5, UsbLess
<1>10. WalkInv' BY <1>7, WalkFrame DEF Same
<1>11. SyncInv' /\ \A x \in Threads : CallInv(x)' BY <1>7 DEF TInv, SyncInv, CallInv
<1> QED BY <1>8, <1>9, <1>10, <1>11 DEF TInv

LEMMA WriteWakeTypes ==
  ASSUME TInv, NEW t \in Threads, WriteWake(t)
  PROVE  TInv'
<1>1. /\ pc[t] = "written" /\ clients \in Seq(ClientMem) /\ usb \in Seq(Urb)
      /\ MyUrb(t) \in Urb /\ UsbInv
  BY DEF TInv, TypeOK, WriteWake, MyUrb, Urb
<1>2. /\ id' = id /\ tries' = tries /\ cb' = cb /\ lock' = lock /\ urb' = urb
      /\ done' = [done EXCEPT ![t] = "no"] /\ freedUrb' = freedUrb \ {t}
  BY DEF WriteWake, fileVars
<1>3. /\ done' \in [Threads -> {"no", "ok", "err"}] /\ done'[t] = "no"
      /\ \A x \in Others(t) : done'[x] = done[x]
  BY <1>2 DEF TInv, TypeOK, Others
<1>4. clients' \in Seq(ClientMem) /\ Same(clients, clients') BY <1>1, PopUrb DEF WriteWake, Same
<1>5. spent' \in [get : 0..MaxGets, data : 0..MaxData, fault : 0..MaxFaults]
  BY SpendType DEF WriteWake, Fault, TInv, TypeOK
<1>6. /\ Ends(t) /\ asked' \subseteq Msg /\ usb' \in Seq(Urb)
      /\ \A k \in 1..Len(usb') : /\ \E j \in 1..Len(usb) : usb'[k] = usb[j]
                                 /\ usb'[k].t # t
      /\ \A j, k \in 1..Len(usb') : usb'[j].t = usb'[k].t => j = k
  <2>1. CASE /\ done[t] # "no" /\ UNCHANGED <<usb, asked>>
             /\ IF done[t] = "ok" THEN WriteOk(t) ELSE WriteFailed(t)
    BY <1>1, <1>2, <2>1, WriteOkEnds, WriteFailedEnds DEF Writing, UsbInv, TInv, TypeOK
  <2>2. CASE WriteFailed(t) /\ KillUrb(t)
    <3>1. Ends(t) BY <1>1, <1>2, <2>2, WriteFailedEnds
    <3>2. asked' \subseteq Msg BY <1>1, <2>2, SentType DEF KillUrb, TInv, TypeOK
    <3>3. usb' = RemoveFirst(usb, MyUrb(t)) /\ MyUrb(t).t = t BY <2>2 DEF KillUrb, MyUrb
    <3> DEFINE q == RemoveFirst(usb, MyUrb(t))
    <3>4. /\ q \in Seq(Urb)
          /\ \A k \in 1..Len(q) : (\E j \in 1..Len(usb) : q[k] = usb[j]) /\ q[k].t # t
          /\ \A j, k \in 1..Len(q) : q[j].t = q[k].t => j = k
      <4> HIDE DEF q
      <4> QED BY <1>1, <3>3, UsbRemoved DEF q
    <3>5. usb' = q BY <3>3
    <3> HIDE DEF q
    <3> QED BY <3>1, <3>2, <3>4, <3>5
  <2> QED BY <2>1, <2>2 DEF WriteWake
<1>7. TypeOK'
  BY <1>2, <1>3, <1>4, <1>5, <1>6 DEF Ends, CallSet, Stages, TInv, TypeOK, WriteWake, deviceVars,
              fileVars, readVars
<1>8. UsbInv'
  <2>1. \A k \in 1..Len(usb') : usb'[k] \in Urb BY <1>6
  <2>2. \A k \in 1..Len(usb') : usb'[k].t \in Others(t) BY <1>6, <2>1 DEF Urb, Others
  <2>3. \A k \in 1..Len(usb') : \E j \in 1..Len(usb) :
            LET x == usb[j].t IN
            usb'[k] = usb[j] /\ pc'[x] = pc[x] /\ done'[x] = done[x] /\ urb'[x] = urb[x]
    <3> SUFFICES ASSUME NEW k \in 1..Len(usb')
                 PROVE  \E j \in 1..Len(usb) :
                          LET x == usb[j].t IN usb'[k] = usb[j] /\ pc'[x] = pc[x]
                                               /\ done'[x] = done[x] /\ urb'[x] = urb[x]
      OBVIOUS
    <3>1. PICK j \in 1..Len(usb) : usb'[k] = usb[j] BY <1>6
    <3>2. usb[j].t \in Others(t) BY <2>2, <3>1
    <3> QED BY <1>2, <1>3, <1>6, <3>1, <3>2 DEF Ends, OnlyMoves
  <2>4. \A x \in Threads : pc'[x] = "submit" /\ x \notin freedUrb' => done'[x] = "no"
    BY <1>1, <1>2, <1>3, <1>6 DEF UsbInv, Others, Ends, OnlyMoves
  <2> QED BY <1>6, <2>3, <2>4, UsbLess
<1>9. WalkInv' BY <1>2, <1>4, WalkFrame
<1> QED BY <1>6, <1>7, <1>8, <1>9 DEF TInv, Ends

LEMMA ReadFailedEnds ==
  ASSUME TInv, NEW t \in Threads, pc[t] # "idle", ReadFailed(t), tries' = tries
  PROVE  Ends(t) /\ id' = id
<1>1. CASE call[t].op = "rel" BY <1>1, GoesOn DEF ReadFailed, Pcs, Releasing
<1>2. CASE call[t].op # "rel" BY <1>2, ReturnEnds DEF ReadFailed
<1> QED BY <1>1, <1>2

LEMMA ReadOkEnds ==
  ASSUME TInv, NEW t \in Threads, pc[t] = "try", NEW m \in Msg, ReadOk(t, m), tries' = tries,
         id' = id
  PROVE  Ends(t)
<1>1. CallInv(t) /\ call[t].op \in {"sync", "get", "rel", "read"} BY DEF TInv, CallInv
<1>2. CASE call[t].op = "get" /\ m.id # NoId
  <2>1. /\ Goto(t, "insert") /\ call' = [call EXCEPT ![t].rid = m.id] /\ UNCHANGED stage
    BY <1>2 DEF ReadOk
  <2>2. m.id \in Ids BY <1>2 DEF Msg
  <2>3. /\ pc' \in [Threads -> Pcs] /\ call' \in [Threads -> CallSet] /\ stage' \in Stages
        /\ OnlyMoves(t) /\ pc'[t] = "insert" /\ call'[t].op = "get" /\ call'[t].rid = m.id
        /\ call'[t].cid = call[t].cid
    <3>1. /\ pc \in [Threads -> Pcs] /\ call \in [Threads -> CallSet] /\ stage \in Stages
      BY DEF TInv, TypeOK, CallSet, Stages
    <3>2. pc' \in [Threads -> Pcs] /\ pc'[t] = "insert" /\ \A u \in Others(t) : pc'[u] = pc[u]
      BY <2>1, <3>1 DEF Goto, Others, Pcs
    <3>3. [call[t] EXCEPT !.rid = m.id] \in CallSet BY <2>2, <3>1 DEF CallSet
    <3>4. call' = [call EXCEPT ![t] = [call[t] EXCEPT !.rid = m.id]] BY <2>1
    <3>5. /\ call' \in [Threads -> CallSet] /\ call'[t] = [call[t] EXCEPT !.rid = m.id]
          /\ \A u \in Others(t) : call'[u] = call[u]
      BY <3>1, <3>3, <3>4 DEF Others
    <3> QED BY <1>2, <2>1, <3>1, <3>2, <3>5 DEF OnlyMoves, CallSet
  <2>4. CallInv(t)'
    BY <1>1, <1>2, <2>2, <2>3, ConstantFacts DEF CallInv, CtlOps, Writing, Releasing
  <2>5. \A u \in Threads : CallInv(u)' BY <2>3, <2>4, CallFrame
  <2>6. SyncInv'
    <3>1. CASE t # SyncT BY <2>1, <2>3, <3>1, SyncFrame, ConstantFacts DEF OnlyMoves, Others
    <3>2. CASE t = SyncT BY <1>2, <2>1, <2>3, <3>2 DEF TInv, SyncInv
    <3> QED BY <3>1, <3>2
  <2> QED BY <2>1, <2>3, <2>5, <2>6 DEF Ends
<1>3. CASE call[t].op = "get" /\ m.id = NoId BY <1>3, ReturnEnds DEF ReadOk
<1>4. CASE call[t].op = "rel" BY <1>4, GoesOn DEF ReadOk, Pcs, Releasing
<1>5. CASE call[t].op \in {"sync", "read"} BY <1>5, ReturnEnds DEF ReadOk
<1> QED BY <1>1, <1>2, <1>3, <1>4, <1>5

\* A step of a thread that is not at its URB: what is left to show of TInv.
LEMMA ThreadStep ==
  ASSUME TInv, NEW t \in Threads, pc[t] # "written", Ends(t), pc'[t] # "submit",
         UNCHANGED <<usb, urb, done, freedUrb>>, TypeOK', WalkInv'
  PROVE  TInv'
BY UsbFrame DEF Ends, OnlyMoves, TInv

LEMMA ReadTryClients ==
  ASSUME TInv, NEW t \in Threads, ReadTry(t)
  PROVE  LET i == FindClientMem(clients, call[t].cid)
             k == FirstMessage(clients[i].list, call[t].tid)
         IN \/ (~valid \/ i = 0) /\ ReadFailed(t) /\ UNCHANGED <<clients, readVars>>
            \/ /\ i \in 1..Len(clients) /\ k \in 1..Len(clients[i].list)
               /\ clients[i].list[k] \in Msg
               /\ ReadOk(t, clients[i].list[k]) /\ UNCHANGED <<readVars, id>>
               /\ clients' \in Seq(ClientMem) /\ Same(clients, clients')
               /\ SameNotify(clients, clients') /\ SameUrbs(clients, clients')
            \/ /\ i \in 1..Len(clients)
               /\ clients' = SetNotify(clients, i, Append(clients[i].notify,
                                                          [tid |-> call[t].tid, t |-> t]))
               /\ Append(clients[i].notify, [tid |-> call[t].tid, t |-> t]) \in Seq(Waiter)
               /\ clients' \in Seq(ClientMem) /\ Same(clients, clients')
               /\ SameUrbs(clients, clients')
               /\ woken' = [woken EXCEPT ![t] = FALSE]
               /\ mem' = [mem EXCEPT ![t] = RefOf(clients[i])]
               /\ Goto(t, "asleep") /\ UNCHANGED <<stage, call, id>>
<1> DEFINE i == FindClientMem(clients, call[t].cid)
           k == FirstMessage(clients[i].list, call[t].tid)
<1>1. clients \in Seq(ClientMem) /\ i \in 0..Len(clients) /\ call[t] \in CallSet
  BY FindProperties DEF TInv, TypeOK, CallSet
<1>2. CASE ~valid \/ i = 0 BY <1>2 DEF ReadTry
<1>3. CASE valid /\ i # 0 /\ k # 0
  <2>1. /\ clients' = SyncFreesAnswers(t, SetList(clients, i, RemoveAt(clients[i].list, k)))
        /\ ReadOk(t, clients[i].list[k]) /\ UNCHANGED <<readVars, id>>
    BY <1>3 DEF ReadTry
  <2>2. clients[i] \in ClientMem /\ i \in 1..Len(clients) BY <1>1, <1>3
  <2>3. clients[i].list \in Seq(Msg) BY <2>2 DEF ClientMem
  <2>4. k \in 1..Len(clients[i].list) BY <1>3, <2>3, MessageProperties
  <2>5. clients[i].list[k] \in Msg /\ RemoveAt(clients[i].list, k) \in Seq(Msg)
    BY <2>3, <2>4, RemoveAtProperties
  <2> DEFINE cs == SetList(clients, i, RemoveAt(clients[i].list, k))
  <2>6. /\ cs \in Seq(ClientMem) /\ Same(clients, cs)
        /\ SameNotify(clients, cs) /\ SameUrbs(clients, cs)
    <3> HIDE DEF i, k
    <3> QED BY <1>1, <2>5, SetFieldSame
  <2>7. clients' = cs \/ clients' = SetList(cs, FindClientMem(cs, CTL), <<>>)
    BY <2>1 DEF SyncFreesAnswers
  <2>8. /\ clients' \in Seq(ClientMem) /\ Same(clients, clients')
        /\ SameNotify(clients, clients') /\ SameUrbs(clients, clients')
    <3> HIDE DEF cs
    <3>1. CASE clients' = cs BY <2>6, <3>1
    <3>2. CASE clients' = SetList(cs, FindClientMem(cs, CTL), <<>>)
      <4>1. /\ clients' \in Seq(ClientMem) /\ Same(cs, clients')
            /\ SameNotify(cs, clients') /\ SameUrbs(cs, clients')
        BY <2>6, FindProperties, EmptySeq, <3>2, SetFieldSame
      <4> QED BY <2>6, <4>1 DEF Same, SameNotify, SameUrbs
    <3> QED BY <2>7, <3>1, <3>2
  <2> QED BY <2>1, <2>2, <2>4, <2>5, <2>8
<1>4. CASE valid /\ i # 0 /\ k = 0
  <2>1. /\ clients' = SetNotify(clients, i, Append(clients[i].notify,
                                                   [tid |-> call[t].tid, t |-> t]))
        /\ woken' = [woken EXCEPT ![t] = FALSE]
        /\ mem' = [mem EXCEPT ![t] = RefOf(clients[i])]
        /\ Goto(t, "asleep") /\ UNCHANGED <<stage, call, id>>
    BY <1>4 DEF ReadTry
  <2>2. clients[i] \in ClientMem /\ i \in 1..Len(clients) BY <1>1, <1>4
  <2>3. clients[i].notify \in Seq(Waiter) /\ [tid |-> call[t].tid, t |-> t] \in Waiter
    BY <1>1, <2>2 DEF ClientMem, Waiter, CallSet
  <2>4. Append(clients[i].notify, [tid |-> call[t].tid, t |-> t]) \in Seq(Waiter)
    BY <2>3, AppendProperties
  <2>5. clients' \in Seq(ClientMem) /\ Same(clients, clients') /\ SameUrbs(clients, clients')
    <3> HIDE DEF i
    <3> QED BY <1>1, <2>1, <2>4, SetFieldSame
  <2> QED BY <2>1, <2>2, <2>4, <2>5
<1> QED BY <1>2, <1>3, <1>4

LEMMA ReadTryTypes ==
  ASSUME TInv, NEW t \in Threads, ReadTry(t)
  PROVE  TInv'
<1> DEFINE i == FindClientMem(clients, call[t].cid)
<1>1. /\ pc[t] = "try" /\ clients \in Seq(ClientMem) /\ call[t].op \in {"sync", "get", "rel", "read"}
  BY DEF TInv, TypeOK, CallInv, ReadTry
<1>2. /\ UNCHANGED <<usb, urb, done, freedUrb>> /\ tries' = tries /\ cb' = cb /\ lock' = lock
  BY DEF ReadTry, writeVars
<1>3. /\ clients' \in Seq(ClientMem) /\ Same(clients, clients') /\ Ends(t) /\ pc'[t] # "submit"
      /\ id' = id /\ woken' \in [Threads -> BOOLEAN] /\ mem' \in [Threads -> Ref]
  <2>1. CASE ReadFailed(t) /\ UNCHANGED <<clients, readVars>>
    BY <1>1, <2>1, ReturnEffect, <1>2, ReadFailedEnds DEF ReadFailed, Goto, TInv, TypeOK, Same,
       readVars
  <2>2. CASE /\ \E m \in Msg : ReadOk(t, m)
             /\ UNCHANGED <<readVars, id>>
             /\ clients' \in Seq(ClientMem) /\ Same(clients, clients')
    <3>1. PICK m \in Msg : ReadOk(t, m) BY <2>2
    <3>2. pc'[t] # "submit" BY <1>1, <3>1, ReturnEffect DEF ReadOk, Goto, TInv, TypeOK
    <3> QED BY <1>1, <1>2, <2>2, <3>1, <3>2, ReadOkEnds DEF readVars, TInv, TypeOK
  <2>3. CASE /\ i \in 1..Len(clients)
             /\ clients' \in Seq(ClientMem) /\ Same(clients, clients')
             /\ woken' = [woken EXCEPT ![t] = FALSE]
             /\ mem' = [mem EXCEPT ![t] = RefOf(clients[i])]
             /\ Goto(t, "asleep") /\ UNCHANGED <<stage, call, id>>
    <3>1. clients[i] \in ClientMem BY <1>1, <2>3
    <3>2. RefOf(clients[i]) \in Ref BY <3>1 DEF RefOf, Ref, ClientMem
    <3>3. Ends(t) BY <1>1, <1>2, <2>3, GoesOn DEF Pcs, Releasing
    <3>4. pc'[t] = "asleep" BY <2>3 DEF Goto, TInv, TypeOK
    <3> QED BY <2>3, <3>2, <3>3, <3>4 DEF TInv, TypeOK
  <2> HIDE DEF i
  <2> QED BY <2>1, <2>2, <2>3, ReadTryClients DEF i
<1>4. TypeOK'
  BY <1>2, <1>3 DEF Ends, CallSet, Stages, TInv, TypeOK, ReadTry, deviceVars, writeVars, modemVars
<1>5. WalkInv' BY <1>2, <1>3, WalkFrame
<1> QED BY <1>1, <1>2, <1>3, <1>4, <1>5, ThreadStep

LEMMA ReadWakeTypes ==
  ASSUME TInv, NEW t \in Threads, ReadWake(t)
  PROVE  TInv'
<1>1. /\ pc[t] = "asleep" /\ call[t].op \in {"sync", "get", "rel", "read"}
  BY DEF TInv, CallInv, ReadWake
<1>2. /\ UNCHANGED <<usb, urb, done, freedUrb>> /\ tries' = tries /\ cb' = cb /\ lock' = lock
      /\ clients' = clients /\ woken' = [woken EXCEPT ![t] = FALSE]
      /\ mem' = [mem EXCEPT ![t] = NoRef]
  BY DEF ReadWake, Awake, writeVars
<1>3. Ends(t) /\ pc'[t] # "submit" /\ id' = id
  <2>1. CASE Goto(t, "try") /\ UNCHANGED <<stage, call, id>>
    BY <1>1, <1>2, <2>1, GoesOn DEF Pcs, Releasing, Goto, TInv, TypeOK
  <2>2. CASE ReadFailed(t)
    BY <1>1, <2>2, ReturnEffect, <1>2, ReadFailedEnds DEF ReadFailed, Goto, TInv, TypeOK
  <2> QED BY <2>1, <2>2 DEF ReadWake
<1>4. woken' \in [Threads -> BOOLEAN] /\ mem' \in [Threads -> Ref]
  BY <1>2 DEF TInv, TypeOK, Ref, NoRef, Holders
<1>5. TypeOK'
  BY <1>2, <1>3, <1>4 DEF Ends, CallSet, Stages, TInv, TypeOK, ReadWake, deviceVars, writeVars, modemVars
<1>6. WalkInv' BY <1>2, WalkFrame DEF Same
<1> QED BY <1>1, <1>2, <1>3, <1>5, <1>6, ThreadStep

LEMMA ReadInterruptedTypes ==
  ASSUME TInv, NEW t \in Threads, ReadInterrupted(t)
  PROVE  TInv'
<1>1. /\ pc[t] = "asleep" /\ t \in UserThreads /\ call[t].op \in {"sync", "get", "rel", "read"}
  BY ConstantFacts DEF TInv, CallInv, ReadInterrupted
<1>2. /\ UNCHANGED <<usb, urb, done, freedUrb>> /\ tries' = tries /\ cb' = cb /\ lock' = lock
      /\ clients' = clients /\ id' = id /\ Goto(t, "giveup") /\ UNCHANGED <<stage, call>>
  BY DEF ReadInterrupted, writeVars, syncVars, fileVars
<1>3. Ends(t) BY <1>1, <1>2, GoesOn DEF Pcs
<1>4. pc'[t] # "submit" BY <1>2 DEF Goto, TInv, TypeOK
<1>5. spent' \in [get : 0..MaxGets, data : 0..MaxData, fault : 0..MaxFaults]
  BY SpendType DEF ReadInterrupted, Fault, TInv
<1>6. TypeOK'
  BY <1>3, <1>5 DEF Ends, CallSet, Stages, TInv, TypeOK, ReadInterrupted, deviceVars, syncVars,
                    fileVars, readVars, writeVars
<1>7. WalkInv' BY <1>2, WalkFrame DEF Same
<1> QED BY <1>1, <1>2, <1>3, <1>4, <1>6, <1>7, ThreadStep

LEMMA WithoutWaiterProperties ==
  ASSUME TInv, NEW t \in Threads
  PROVE  /\ WithoutWaiter(t) \in Seq(ClientMem) /\ Same(clients, WithoutWaiter(t))
         /\ SameUrbs(clients, WithoutWaiter(t))
         /\ \/ /\ WithoutWaiter(t) = clients
               /\ \A i \in 1..Len(clients) : i = Place(mem[t]) =>
                    \A k \in 1..Len(clients[i].notify) : clients[i].notify[k].t # t
            \/ \E i \in 1..Len(clients) : \E k \in 1..Len(clients[i].notify) :
                 /\ i = Place(mem[t]) /\ clients[i].notify[k].t = t
                 /\ WithoutWaiter(t) = SetNotify(clients, i, RemoveAt(clients[i].notify, k))
                 /\ RemoveAt(clients[i].notify, k) \in Seq(Waiter)
<1> DEFINE i == Place(mem[t])
           I == {k \in 1..Len(clients[i].notify) : clients[i].notify[k].t = t}
           n == SelectInSeq(clients[i].notify, LAMBDA w : w.t = t)
<1>1. clients \in Seq(ClientMem) /\ i \in 0..Len(clients) BY PlaceProperties DEF TInv, TypeOK
<1>2. CASE i = 0 BY <1>1, <1>2 DEF WithoutWaiter, Same, SameUrbs
<1>3. CASE i # 0
  <2>1. clients[i] \in ClientMem /\ i \in 1..Len(clients) BY <1>1, <1>3
  <2>2. clients[i].notify \in Seq(Waiter) BY <2>1 DEF ClientMem
  <2>3. n = IF I # {} THEN Min(I) ELSE 0 BY DEF SelectInSeq
  <2>4. I # {} => Min(I) \in I
    <3>1. I \in SUBSET Nat OBVIOUS
    <3> HIDE DEF I
    <3> QED BY <3>1, MinProperty
  <2>5. WithoutWaiter(t) = IF n = 0 THEN clients
                           ELSE SetNotify(clients, i, RemoveAt(clients[i].notify, n))
    BY <1>3 DEF WithoutWaiter
  <2>6. CASE I = {} BY <1>1, <2>3, <2>5, <2>6 DEF Same, SameUrbs
  <2>7. CASE I # {}
    <3> DEFINE k == Min(I)
    <3>1. k \in 1..Len(clients[i].notify) /\ clients[i].notify[k].t = t BY <2>4, <2>7
    <3>2. n = k BY <2>3, <2>7
    <3> HIDE DEF k, I, n
    <3>3. k # 0 BY <3>1
    <3>4. WithoutWaiter(t) = SetNotify(clients, i, RemoveAt(clients[i].notify, k))
      BY <2>5, <3>2, <3>3
    <3>5. RemoveAt(clients[i].notify, k) \in Seq(Waiter) BY <2>2, <3>1, RemoveAtProperties
    <3>6. /\ WithoutWaiter(t) \in Seq(ClientMem) /\ Same(clients, WithoutWaiter(t))
          /\ SameUrbs(clients, WithoutWaiter(t))
      <4> HIDE DEF i
      <4> QED BY <1>1, <3>4, <3>5, SetFieldSame
    <3> QED BY <2>1, <3>1, <3>4, <3>5, <3>6
  <2> QED BY <2>6, <2>7
<1> QED BY <1>2, <1>3

LEMMA InsteadType ==
  ASSUME TInv, NEW t \in Threads, NEW x \in Notified, NotifyInstead(t, x)
  PROVE  /\ del' \in [Threads -> [prev : Ref, this : Ref, next : Ref, who : Notified]]
         /\ cb' \in [pc : {"idle", "walk", "up", "on"}, msg : Msg, at : Ref, who : Notified]
         /\ cb'.pc = cb.pc /\ cb'.at = cb.at /\ cb'.msg = cb.msg
         /\ cb'.who = (IF cb.pc = "up" THEN Instead(cb.who, t, x) ELSE cb.who)
         /\ \A y \in Threads : /\ del'[y].prev = del[y].prev /\ del'[y].this = del[y].this
                               /\ del'[y].next = del[y].next
<1>1. /\ del \in [Threads -> [prev : Ref, this : Ref, next : Ref, who : Notified]]
      /\ cb \in [pc : {"idle", "walk", "up", "on"}, msg : Msg, at : Ref, who : Notified]
  BY DEF TInv, TypeOK
<1>2. \A w \in Notified : Instead(w, t, x) \in Notified BY DEF Instead
<1>3. /\ cb' = IF cb.pc = "up" THEN [cb EXCEPT !.who = Instead(cb.who, t, x)] ELSE cb
      /\ del' = [y \in Threads |-> [del[y] EXCEPT !.who = Instead(del[y].who, t, x)]]
  BY DEF NotifyInstead
<1> QED BY <1>1, <1>2, <1>3

LEMMA ReadGiveUpTypes ==
  ASSUME TInv, NEW t \in Threads, ReadGiveUp(t)
  PROVE  TInv'
<1>1. /\ pc[t] = "giveup" /\ call[t].op \in {"sync", "get", "rel", "read"}
  BY DEF TInv, CallInv, ReadGiveUp
<1>2. /\ UNCHANGED <<usb, urb, done, freedUrb>> /\ tries' = tries /\ lock' = lock
      /\ woken' = [woken EXCEPT ![t] = FALSE] /\ mem' = [mem EXCEPT ![t] = NoRef]
  BY DEF ReadGiveUp, Awake, writeVars
<1>3. Ends(t) /\ pc'[t] # "submit" /\ id' = id
  BY <1>1, ReturnEffect, <1>2, ReadFailedEnds DEF ReadGiveUp, ReadFailed, Goto, TInv, TypeOK
<1>4. woken' \in [Threads -> BOOLEAN] /\ mem' \in [Threads -> Ref]
  BY <1>2 DEF TInv, TypeOK, Ref, NoRef, Holders
<1>5. clients' \in Seq(ClientMem) /\ Same(clients, clients')
  BY WithoutWaiterProperties DEF ReadGiveUp
<1>6. /\ del' \in [Threads -> [prev : Ref, this : Ref, next : Ref, who : Notified]]
      /\ cb' \in [pc : {"idle", "walk", "up", "on"}, msg : Msg, at : Ref, who : Notified]
      /\ cb'.pc = cb.pc /\ cb'.at = cb.at
  BY InsteadType DEF ReadGiveUp, Notified
<1>7. TypeOK'
  BY <1>2, <1>3, <1>4, <1>5, <1>6 DEF Ends, CallSet, Stages, TInv, TypeOK, ReadGiveUp, deviceVars,
                                      writeVars, modemVars
<1>8. WalkInv' BY <1>2, <1>5, <1>6 DEF TInv, WalkInv, Same, RefOf
<1> QED BY <1>1, <1>2, <1>3, <1>7, <1>8, ThreadStep

LEMMA UpProperties ==
  ASSUME TInv, NEW w \in Notified, Up(w)
  PROVE  /\ clients' \in Seq(ClientMem) /\ Same(clients, clients') /\ SameUrbs(clients, clients')
         /\ woken' \in [Threads -> BOOLEAN]
         /\ \A t \in Threads : woken'[t] = (woken[t] \/ t = w)
         /\ \A i \in 1..Len(clients) :
              \/ clients'[i].notify = clients[i].notify
              \/ /\ clients[i].id = wds /\ w = WdsCb /\ wds # NoId
                 /\ clients'[i].notify = Append(clients[i].notify, [tid |-> 0, t |-> WdsCb])
<1>1. clients \in Seq(ClientMem) /\ woken \in [Threads -> BOOLEAN] BY DEF TInv, TypeOK
<1>2. /\ woken' \in [Threads -> BOOLEAN]
      /\ \A t \in Threads : woken'[t] = (woken[t] \/ t = w)
  <2>1. CASE w \in Threads BY <2>1, <1>1 DEF Up
  <2>2. CASE w \notin Threads BY <1>1, <2>2 DEF Up
  <2> QED BY <2>1, <2>2
<1>3. CASE clients' = clients BY <1>1, <1>2, <1>3 DEF Same, SameUrbs
<1> DEFINE i == FindClientMem(clients, wds)
<1>4. CASE w = WdsCb /\ i # 0 /\ clients[i].list # <<>>
  <2>1. i \in 0..Len(clients) /\ i \in 1..Len(clients) /\ clients[i].id = wds
    BY <1>1, <1>4, FindProperties
  <2>2. clients[i] \in ClientMem BY <1>1, <2>1
  <2> DEFINE n == Append(clients[i].notify, [tid |-> 0, t |-> WdsCb])
             cs == SetList(clients, i, <<>>)
  <2>3. n \in Seq(Waiter) BY ConstantsAssumption, <2>2, AppendProperties DEF Waiter, ClientMem
  <2>4. clients' = SetNotify(cs, i, n) BY <1>4 DEF Up, WdsRead
  <2>5. wds # NoId BY <2>1, <2>2, ConstantFacts DEF ClientMem
  <2> HIDE DEF i, n
  <2>6. /\ cs \in Seq(ClientMem) /\ Same(clients, cs) /\ SameUrbs(clients, cs)
        /\ SameNotify(clients, cs)
    BY EmptySeq, <1>1, <2>1, SetFieldSame
  <2> HIDE DEF cs
  <2>7. i \in 0..Len(cs) BY <2>1, <2>6 DEF Same
  <2>8. /\ clients' \in Seq(ClientMem) /\ Same(cs, clients') /\ SameUrbs(cs, clients')
    BY <2>3, <2>4, <2>6, <2>7, SetFieldSame
  <2>9. \A j \in 1..Len(cs) : clients'[j] = IF j = i THEN [cs[j] EXCEPT !.notify = n] ELSE cs[j]
    BY <2>6, <2>7, SetNotifyProperties, <2>3, <2>4
  <2>10. \A j \in 1..Len(cs) : cs[j] \in ClientMem BY <2>6
  <2>11. \A j \in 1..Len(clients) : clients'[j].notify = IF j = i THEN n ELSE clients[j].notify
    BY <2>6, <2>9, <2>10 DEF Same, SameNotify, ClientMem
  <2>12. Same(clients, clients') /\ SameUrbs(clients, clients') BY <2>6, <2>8 DEF Same, SameUrbs
  <2> QED BY <1>2, <1>4, <2>1, <2>5, <2>8, <2>11, <2>12 DEF n
<1> QED BY <1>3, <1>4 DEF Up, WdsRead

LEMMA ClientInsertTypes ==
  ASSUME TInv, NEW t \in Threads, ClientInsert(t)
  PROVE  TInv'
<1> DEFINE new == [id |-> call[t].rid, owner |-> t[1], list |-> <<>>, notify |-> <<>>, urbs |-> <<>>]
<1>1. /\ pc[t] = "insert" /\ call[t].op = "get" /\ call[t].rid \in Ids
      /\ clients \in Seq(ClientMem) /\ cb.pc # "walk"
  BY DEF TInv, TypeOK, CallInv, ClientInsert, LockFree
<1>2. /\ UNCHANGED <<usb, urb, done, freedUrb>> /\ tries' = tries /\ cb' = cb /\ id' = id
  BY DEF ClientInsert, writeVars, fileVars
<1>3. /\ clients' \in Seq(ClientMem) /\ mem' \in [Threads -> Ref] /\ Ends(t) /\ pc'[t] # "submit"
  <2>1. CASE Return(t, FALSE) /\ UNCHANGED <<clients, mem>>
    BY <2>1, ReturnEffect, <1>1, <1>2, ReturnEnds DEF TInv, TypeOK
  <2>2. CASE /\ clients' = Append(clients, new)
             /\ mem' = [mem EXCEPT ![t] = At(Len(clients))]
             /\ Goto(t, "named") /\ UNCHANGED <<stage, call>>
    <3>1. new \in ClientMem BY ConstantFacts, EmptySeq, <1>1 DEF ClientMem
    <3>2. At(Len(clients)) \in Ref
      <4>1. \A j \in DOMAIN clients : clients[j] \in ClientMem BY <1>1
      <4> QED BY <4>1 DEF At, RefOf, Ref, NoRef, ClientMem, Holders
    <3>3. clients' \in Seq(ClientMem) /\ mem' \in [Threads -> Ref]
      <4> HIDE DEF new
      <4> QED BY <1>1, <2>2, <3>1, <3>2, AppendProperties DEF TInv, TypeOK
    <3>4. pc'[t] = "named" /\ call'[t] = call[t] BY <2>2 DEF Goto, TInv, TypeOK
    <3>5. CallInv(t)' BY <1>1, <3>4 DEF TInv, CallInv, CtlOps, Writing, Releasing
    <3>6. Ends(t) BY <1>1, <1>2, <2>2, <3>5, GotoEnds DEF Pcs
    <3> QED BY <3>3, <3>4, <3>6
  <2> QED BY <2>1, <2>2 DEF ClientInsert
<1> HIDE DEF new
<1>4. TypeOK'
  BY <1>2, <1>3 DEF Ends, CallSet, Stages, TInv, TypeOK, ClientInsert, deviceVars, fileVars, writeVars,
              modemVars
<1>5. WalkInv' BY <1>1, <1>2, WalkFrame
<1> QED BY <1>1, <1>2, <1>3, <1>4, <1>5, ThreadStep

LEMMA ClientReturnTypes ==
  ASSUME TInv, NEW t \in Threads, ClientReturn(t)
  PROVE  TInv'
<1>1. /\ pc[t] = "named" /\ call[t].op = "get" /\ call[t].rid \in Ids /\ t[1] \in Holders
  BY ConstantFacts DEF TInv, CallInv, ClientReturn
<1>2. /\ UNCHANGED <<usb, urb, done, freedUrb>> /\ tries' = tries /\ cb' = cb /\ lock' = lock
      /\ clients' = clients /\ Return(t, TRUE) /\ id' = [id EXCEPT ![t[1]] = call[t].rid]
      /\ mem' = [mem EXCEPT ![t] = NoRef]
  BY DEF ClientReturn, writeVars
<1>3. /\ id' \in [Holders -> Ids \union {NoId}] /\ id'[t[1]] \in Ids
      /\ \A h \in Holders : id'[h] = id[h] \/ id'[h] \in Ids
      /\ wds' \in Ids \union {NoId} /\ mem' \in [Threads -> Ref]
  BY <1>1, <1>2 DEF ClientReturn, TInv, TypeOK, Ref, NoRef, Holders
<1>4. Ends(t) /\ pc'[t] # "submit"
  <2>1. /\ pc' \in [Threads -> Pcs] /\ call' \in [Threads -> CallSet] /\ stage' \in Stages
        /\ OnlyMoves(t) /\ pc'[t] = "idle" /\ (t # SyncT => stage' = stage)
        /\ t = SyncT => stage' = stage /\ call'[t] = call[t]
    BY <1>1, <1>2, ReturnEffect DEF StageAfter
  <2>2. \A u \in Threads : CallInv(u)' BY <1>2, <2>1, ReturnCall, CallFrame
  <2>3. SyncInv'
    <3>1. "driver" \in Holders /\ SyncT[1] = "driver" /\ SyncT \in Threads
      BY ConstantFacts DEF Holders, SyncT
    <3>2. CASE t # SyncT BY <1>2, <1>3, <2>1, <3>1, <3>2 DEF TInv, SyncInv, OnlyMoves, Others
    <3>3. CASE t = SyncT BY <1>1, <1>2, <1>3, <2>1, <3>1, <3>3 DEF TInv, SyncInv
    <3> QED BY <3>2, <3>3
  <2> QED BY <2>1, <2>2, <2>3 DEF Ends
<1>5. TypeOK'
  BY <1>2, <1>3, <1>4 DEF Ends, CallSet, Stages, TInv, TypeOK, ClientReturn, deviceVars, writeVars,
              modemVars
<1>6. WalkInv' BY <1>2, WalkFrame DEF Same
<1> QED BY <1>1, <1>2, <1>4, <1>5, <1>6, ThreadStep

LEMMA LockForNoWalk ==
  ASSUME TInv, NEW t \in Threads, LockFor(t)
  PROVE  cb.pc # "walk"
BY ConstantFacts DEF TInv, WalkInv, LockFor, LockFree

LEMMA AtType ==
  ASSUME TInv, NEW i
  PROVE  At(i) \in Ref
<1>1. \A j \in DOMAIN clients : clients[j] \in ClientMem BY DEF TInv, TypeOK
<1> QED BY <1>1 DEF At, RefOf, Ref, NoRef, ClientMem, Holders

LEMMA FoundProperties ==
  ASSUME TInv, NEW t \in Threads
  PROVE  /\ Found(t) \in 0..Len(clients)
         /\ Found(t) = 0 => \A i \in 1..Len(clients) : clients[i].id # call[t].rid
         /\ Found(t) # 0 => /\ Found(t) \in 1..Len(clients) /\ clients[Found(t)] \in ClientMem
                            /\ clients[Found(t)].id = call[t].rid
                            /\ clients[Found(t)].notify \in Seq(Waiter)
                            /\ clients[Found(t)].urbs \in Seq(Urb)
<1>1. clients \in Seq(ClientMem) BY DEF TInv, TypeOK
<1>2. /\ Found(t) \in 0..Len(clients)
      /\ Found(t) = 0 => \A i \in 1..Len(clients) : clients[i].id # call[t].rid
      /\ Found(t) # 0 => clients[Found(t)].id = call[t].rid
  BY <1>1, FindProperties DEF Found
<1>3. Found(t) # 0 => Found(t) \in 1..Len(clients) /\ clients[Found(t)] \in ClientMem
  <2> DEFINE n == Found(t)
  <2>1. n \in 0..Len(clients) BY <1>2
  <2> HIDE DEF n
  <2>2. n # 0 => n \in 1..Len(clients) /\ clients[n] \in ClientMem BY <1>1, <2>1
  <2> QED BY <2>2 DEF n
<1> QED BY <1>2, <1>3 DEF ClientMem

LEMMA ReleaseFindTypes ==
  ASSUME TInv, NEW t \in Threads, ReleaseFind(t)
  PROVE  TInv'
<1>1. /\ pc[t] = "find" /\ call[t].op = "rel" /\ t \in ReleaseThreads /\ cb.pc # "walk"
  BY DEF TInv, CallInv, ReleaseFind, Releasing, LockFree
<1>2. /\ UNCHANGED <<usb, urb, done, freedUrb>> /\ tries' = tries /\ cb' = cb
      /\ clients' = clients /\ id' = id
  BY DEF ReleaseFind, writeVars, fileVars
<1>3. /\ Ends(t) /\ pc'[t] # "submit" /\ lock' \in ReleaseThreads \union {NoThread}
      /\ del' \in [Threads -> [prev : Ref, this : Ref, next : Ref, who : Notified]]
  <2>1. CASE Return(t, TRUE) /\ UNCHANGED <<del, lock>>
    BY <1>1, <1>2, <2>1, ReturnEnds, ReturnEffect DEF TInv, TypeOK
  <2>2. CASE /\ del' = [del EXCEPT ![t] = [prev |-> At(Found(t) - 1), this |-> At(Found(t)),
                                           next |-> At(Found(t) + 1), who |-> t]]
             /\ KeepLock(t) /\ Goto(t, "notify") /\ UNCHANGED <<stage, call>>
    <3>1. Ends(t) BY <1>1, <1>2, <2>2, GoesOn DEF Pcs, Releasing
    <3>2. pc'[t] = "notify" BY <2>2 DEF Goto, TInv, TypeOK
    <3>3. /\ At(Found(t) - 1) \in Ref /\ At(Found(t)) \in Ref /\ At(Found(t) + 1) \in Ref
          /\ t \in Notified
      BY AtType DEF Notified
    <3>4. del' \in [Threads -> [prev : Ref, this : Ref, next : Ref, who : Notified]]
      BY <2>2, <3>3 DEF TInv, TypeOK
    <3> QED BY <1>1, <2>2, <3>1, <3>2, <3>4 DEF KeepLock
  <2> QED BY <2>1, <2>2 DEF ReleaseFind
<1>4. TypeOK'
  BY <1>2, <1>3 DEF Ends, CallSet, Stages, TInv, TypeOK, ReleaseFind, deviceVars, fileVars, readVars,
              writeVars, modemVars
<1>5. WalkInv' BY <1>1, <1>2, WalkFrame
<1> QED BY <1>1, <1>2, <1>3, <1>4, <1>5, ThreadStep

LEMMA ReleaseNotifyTypes ==
  ASSUME TInv, NEW t \in Threads, ReleaseNotify(t)
  PROVE  TInv'
<1>1. /\ pc[t] = "notify" /\ call[t].op = "rel" /\ t \in ReleaseThreads /\ cb.pc # "walk"
      /\ clients \in Seq(ClientMem)
  BY LockForNoWalk DEF TInv, TypeOK, CallInv, ReleaseNotify, Releasing
<1>2. /\ UNCHANGED <<usb, urb, done, freedUrb>> /\ tries' = tries /\ cb' = cb
      /\ id' = id /\ UNCHANGED <<stage, call>>
  BY DEF ReleaseNotify, writeVars, fileVars, syncVars
<1>3. /\ clients' \in Seq(ClientMem) /\ pc' \in [Threads -> Pcs]
      /\ Ends(t) /\ pc'[t] # "submit" /\ lock' \in ReleaseThreads \union {NoThread}
      /\ del' \in [Threads -> [prev : Ref, this : Ref, next : Ref, who : Notified]]
  <2>1. CASE /\ Found(t) # 0 /\ clients[Found(t)].notify # <<>>
             /\ clients' = SetNotify(clients, Found(t), Tail(clients[Found(t)].notify))
             /\ del' = [del EXCEPT ![t].who = Head(clients[Found(t)].notify).t]
             /\ lock' = NoThread /\ Goto(t, "up")
    <3> DEFINE l == clients[Found(t)].notify
    <3>1. Found(t) \in 0..Len(clients) /\ l \in Seq(Waiter) BY <2>1, FoundProperties
    <3>2. Tail(l) \in Seq(Waiter) /\ Head(l) \in Waiter BY <2>1, <3>1, TailProperties
    <3>3. Head(l).t \in Notified BY <3>2 DEF Waiter, Notified
    <3>4. clients' \in Seq(ClientMem) BY <1>1, <2>1, <3>1, <3>2, SetFieldSame
    <3>5. del' \in [Threads -> [prev : Ref, this : Ref, next : Ref, who : Notified]]
      <4> DEFINE h == Head(l).t
      <4>1. del' = [del EXCEPT ![t].who = h] /\ h \in Notified BY <2>1, <3>3
      <4>2. del \in [Threads -> [prev : Ref, this : Ref, next : Ref, who : Notified]]
        BY DEF TInv, TypeOK
      <4> HIDE DEF h
      <4> QED BY <4>1, <4>2
    <3>6. Ends(t) BY <1>1, <1>2, <2>1, GoesOn DEF Pcs, Releasing
    <3>7. pc'[t] = "up" BY <2>1 DEF Goto, TInv, TypeOK
    <3> QED BY <2>1, <3>4, <3>5, <3>6, <3>7 DEF Ends
  <2>2. CASE KeepLock(t) /\ Goto(t, "urbs") /\ UNCHANGED <<clients, del>>
    <3>1. Ends(t) BY <1>1, <1>2, <2>2, GoesOn DEF Pcs, Releasing
    <3>2. pc'[t] = "urbs" BY <2>2 DEF Goto, TInv, TypeOK
    <3> QED BY <1>1, <2>2, <3>1, <3>2 DEF KeepLock, Ends, TInv, TypeOK
  <2> QED BY <2>1, <2>2 DEF ReleaseNotify
<1>4. TypeOK'
  BY <1>2, <1>3 DEF Ends, CallSet, Stages, TInv, TypeOK, ReleaseNotify, deviceVars, syncVars, fileVars,
              readVars, writeVars, modemVars
<1>5. WalkInv' BY <1>1, <1>2, WalkFrame
<1> QED BY <1>1, <1>2, <1>3, <1>4, <1>5, ThreadStep

LEMMA ReleaseUpTypes ==
  ASSUME TInv, NEW t \in Threads, ReleaseUp(t)
  PROVE  TInv'
<1>1. /\ pc[t] = "up" /\ call[t].op = "rel" /\ del[t].who \in Notified
  BY DEF TInv, TypeOK, CallInv, ReleaseUp, Releasing
<1>2. /\ UNCHANGED <<usb, urb, done, freedUrb>> /\ tries' = tries /\ cb' = cb /\ lock' = lock
      /\ id' = id /\ UNCHANGED <<stage, call>> /\ Goto(t, "notify")
  BY DEF ReleaseUp, writeVars, fileVars, syncVars
<1>3. clients' \in Seq(ClientMem) /\ Same(clients, clients') /\ woken' \in [Threads -> BOOLEAN]
  BY <1>1, UpProperties DEF ReleaseUp
<1>4. Ends(t) BY <1>1, <1>2, GoesOn DEF Pcs, Releasing
<1>5. pc'[t] # "submit" BY <1>2 DEF Goto, TInv, TypeOK
<1>6. TypeOK'
  BY <1>2, <1>3, <1>4 DEF Ends, CallSet, Stages, TInv, TypeOK, ReleaseUp, deviceVars, syncVars, fileVars,
              writeVars, modemVars
<1>7. WalkInv' BY <1>2, <1>3, WalkFrame
<1> QED BY <1>1, <1>2, <1>4, <1>5, <1>6, <1>7, ThreadStep

LEMMA ReleaseUrbTypes ==
  ASSUME TInv, NEW t \in Threads, ReleaseUrb(t)
  PROVE  TInv'
<1> DEFINE u == Head(clients[Found(t)].urbs)
           l == clients[Found(t)].urbs
<1>1. /\ pc[t] = "urbs" /\ cb.pc # "walk" /\ Found(t) # 0 /\ l # <<>> /\ clients \in Seq(ClientMem)
  BY LockForNoWalk DEF TInv, TypeOK, ReleaseUrb
<1>2. /\ pc' = pc /\ call' = call /\ urb' = urb /\ stage' = stage /\ tries' = tries /\ id' = id
      /\ cb' = cb /\ lock' = NoThread
  BY DEF ReleaseUrb, syncVars, fileVars
<1>3. Found(t) \in 0..Len(clients) /\ l \in Seq(Urb) BY <1>1, FoundProperties
<1>4. Tail(l) \in Seq(Urb) /\ u \in Urb BY <1>1, <1>3, TailProperties
<1>5. clients' \in Seq(ClientMem) BY <1>1, <1>3, <1>4, SetFieldSame DEF ReleaseUrb
<1>6. /\ usb' = RemoveFirst(usb, u)
      /\ IF u = MyUrb(u.t) /\ pc[u.t] \in {"submit", "written"}
          THEN /\ freedUrb' = freedUrb \union {u.t}
               /\ done' = [done EXCEPT ![u.t] = IF @ = "no" THEN "err" ELSE @]
          ELSE UNCHANGED <<freedUrb, done>>
  BY DEF ReleaseUrb
<1> HIDE DEF u, l
<1>7. u.t \in Threads BY <1>4 DEF Urb
<1>8. /\ done' \in [Threads -> {"no", "ok", "err"}] /\ freedUrb' \subseteq Threads
      /\ freedUrb \subseteq freedUrb'
      /\ \A x \in Threads : done'[x] = done[x] \/ (x = u.t /\ u = MyUrb(u.t) /\ x \in freedUrb')
  <2>1. done \in [Threads -> {"no", "ok", "err"}] /\ freedUrb \subseteq Threads
    BY DEF TInv, TypeOK
  <2>2. CASE u = MyUrb(u.t) /\ pc[u.t] \in {"submit", "written"}
    <3>1. done[u.t] \in {"no", "ok", "err"} BY <1>7, <2>1
    <3> DEFINE d == IF done[u.t] = "no" THEN "err" ELSE done[u.t]
    <3>2. d \in {"no", "ok", "err"} /\ done' = [done EXCEPT ![u.t] = d] BY <1>6, <2>2, <3>1
    <3> HIDE DEF d
    <3>3. freedUrb' = freedUrb \union {u.t} BY <1>6, <2>2
    <3> QED BY <1>7, <2>1, <2>2, <3>2, <3>3
  <2>3. CASE ~(u = MyUrb(u.t) /\ pc[u.t] \in {"submit", "written"}) BY <1>6, <2>1, <2>3
  <2> QED BY <2>2, <2>3
<1> DEFINE q == RemoveFirst(usb, u)
<1>9. /\ q \in Seq(Urb)
      /\ \A k \in 1..Len(q) : /\ \E j \in 1..Len(usb) : q[k] = usb[j]
                              /\ u = MyUrb(u.t) => q[k].t # u.t
      /\ \A j, k \in 1..Len(q) : q[j].t = q[k].t => j = k
  BY <1>4, UsbRemoved
<1>10. usb' = q BY <1>6
<1> HIDE DEF q
<1>11. TypeOK'
  <2>1. UNCHANGED <<deviceVars, syncVars, tid, fileVars, pc, call, readVars, urb, del,
                   modemVars, cb>>
    BY DEF ReleaseUrb
  <2> QED BY <1>2, <1>5, <1>8, <1>9, <1>10, <2>1 DEF TInv, TypeOK, deviceVars, syncVars,
             fileVars, readVars, modemVars
<1>12. UsbInv'
  <2>1. \A k \in 1..Len(usb') : usb'[k] \in Urb BY <1>9, <1>10
  <2>2. \A k \in 1..Len(usb') : \E j \in 1..Len(usb) :
            LET x == usb[j].t IN
            usb'[k] = usb[j] /\ pc'[x] = pc[x] /\ done'[x] = done[x] /\ urb'[x] = urb[x]
    BY <1>2, <1>8, <1>9, <1>10, <2>1 DEF Urb
  <2>3. \A x \in Threads : pc'[x] = "submit" /\ x \notin freedUrb' => done'[x] = "no"
    BY <1>2, <1>8 DEF TInv, UsbInv
  <2> QED BY <1>9, <1>10, <2>2, <2>3, UsbLess
<1>13. WalkInv' BY <1>1, <1>2, WalkFrame
<1>14. SyncInv' /\ \A x \in Threads : CallInv(x)' BY <1>2 DEF TInv, SyncInv, CallInv
<1> QED BY <1>11, <1>12, <1>13, <1>14 DEF TInv

LEMMA UnlinkedType ==
  ASSUME TInv, NEW t \in Threads
  PROVE  Unlinked(t) \in Seq(ClientMem)
<1> DEFINE p == IF del[t].prev = NoRef THEN 0 ELSE Place(del[t].prev)
           n == Place(del[t].next)
           a == SubSeq(clients, 1, p)
           b == IF n = 0 THEN <<>> ELSE SubSeq(clients, n, Len(clients))
<1>1. clients \in Seq(ClientMem) BY DEF TInv, TypeOK
<1>2. p \in 0..Len(clients) /\ n \in 0..Len(clients) BY <1>1, PlaceProperties
<1>3. a \in Seq(ClientMem)
  <2> HIDE DEF p
  <2>1. \A j \in 1..p : clients[j] \in ClientMem BY <1>1, <1>2
  <2> QED BY <1>1, <1>2, <2>1, SubSeqProperties
<1>4. b \in Seq(ClientMem)
  <2> HIDE DEF n
  <2>1. n # 0 => \A j \in n..Len(clients) : clients[j] \in ClientMem BY <1>1, <1>2
  <2> QED BY <1>1, <1>2, <2>1, SubSeqProperties, EmptySeq
<1>5. Unlinked(t) = a \o b BY DEF Unlinked
<1> QED
  <2> HIDE DEF a, b
  <2> QED BY <1>3, <1>4, <1>5, ConcatProperties

LEMMA ReleaseFreeTypes ==
  ASSUME TInv, NEW t \in Threads, ReleaseFree(t)
  PROVE  TInv'
<1>1. /\ pc[t] = "urbs" /\ call[t].op = "rel" /\ cb.pc # "walk"
  BY LockForNoWalk DEF TInv, CallInv, ReleaseFree, Releasing
<1>2. /\ UNCHANGED <<usb, urb, done, freedUrb>> /\ tries' = tries /\ cb' = cb
      /\ id' = id /\ Return(t, TRUE) /\ lock' = NoThread
  BY DEF ReleaseFree, writeVars, fileVars
<1>3. clients' \in Seq(ClientMem) BY UnlinkedType DEF ReleaseFree
<1>4. Ends(t) BY <1>1, <1>2, ReturnEnds
<1>5. pc'[t] # "submit" BY <1>2, ReturnEffect
<1>6. del' \in [Threads -> [prev : Ref, this : Ref, next : Ref, who : Notified]]
  BY ConstantFacts DEF NoDel, NoRef, Ref, Notified, Holders, ReleaseFree, TInv, TypeOK
<1>7. TypeOK'
  BY <1>2, <1>3, <1>4, <1>6 DEF Ends, CallSet, Stages, TInv, TypeOK, ReleaseFree, deviceVars,
              fileVars, readVars, writeVars, modemVars
<1>8. WalkInv' BY <1>1, <1>2, WalkFrame
<1> QED BY <1>1, <1>2, <1>4, <1>5, <1>7, <1>8, ThreadStep

LEMMA ContinueType ==
  ASSUME TInv, NEW m \in Msg, NEW i \in Nat \ {0}, Continue(m, i)
  PROVE  /\ cb' \in [pc : {"idle", "walk", "up", "on"}, msg : Msg, at : Ref, who : Notified]
         /\ cb'.pc \in {"idle", "walk"}
         /\ cb'.pc = "walk" => \E j \in 1..Len(clients) : RefOf(clients[j]) = cb'.at
<1>1. clients \in Seq(ClientMem) /\ \A j \in 1..Len(clients) : clients[j] \in ClientMem
  BY DEF TInv, TypeOK
<1>2. CbIdle \in [pc : {"idle", "walk", "up", "on"}, msg : Msg, at : Ref, who : Notified]
  BY ConstantFacts, ConstantsAssumption DEF NoMsg, Msg, NoRef, Ref, Notified, Holders, CbIdle
<1> DEFINE S == {j \in i..Len(clients) : For(clients[j], m)}
<1>3. CASE NextFor(m, i) = NoRef BY <1>2, <1>3 DEF Continue, CbIdle
<1>4. CASE NextFor(m, i) # NoRef
  <2>1. S # {} BY <1>4 DEF NextFor
  <2>2. \E j \in S : \A k \in S : j <= k
    <3>1. S \in SUBSET Nat OBVIOUS
    <3> HIDE DEF S
    <3> QED BY <2>1, <3>1, MinProperty
  <2>3. NextFor(m, i) = RefOf(clients[CHOOSE j \in S : \A k \in S : j <= k]) BY <2>1 DEF NextFor
  <2>4. PICK j \in S : NextFor(m, i) = RefOf(clients[j])
    <3> HIDE DEF S
    <3> QED BY <2>2, <2>3
  <2>5. j \in 1..Len(clients) OBVIOUS
  <2>6. RefOf(clients[j]) \in Ref BY <1>1, <2>5 DEF RefOf, Ref, ClientMem
  <2>7. cb' = [CbIdle EXCEPT !.pc = "walk", !.msg = m, !.at = NextFor(m, i)]
    BY <1>4 DEF Continue
  <2> DEFINE r == NextFor(m, i)
  <2>8. r \in Ref /\ r = RefOf(clients[j]) BY <2>4, <2>6
  <2> HIDE DEF r, S
  <2>9. /\ cb' \in [pc : {"idle", "walk", "up", "on"}, msg : Msg, at : Ref, who : Notified]
        /\ cb'.pc = "walk" /\ cb'.at = r
    BY <1>2, <2>7, <2>8 DEF r
  <2> QED BY <2>5, <2>8, <2>9
<1> QED BY <1>3, <1>4

\* A step that moves no thread.
LEMMA NoThreadMoves ==
  ASSUME TInv, TypeOK', WalkInv', UNCHANGED <<pc, call, stage, tries, id, usb, urb, done, freedUrb>>
  PROVE  TInv'
BY DEF TInv, SyncInv, CallInv, UsbInv, MyUrb

LEMMA AnswerTypes ==
  ASSUME TInv
  PROVE  Answers \subseteq Msg /\ Unasked \subseteq Msg
<1>1. asked \subseteq Msg /\ granted \subseteq Ids /\ 1 \in 0..MaxTid
  BY ConstantsAssumption DEF TInv, TypeOK
<1>2. ASSUME NEW q \in asked PROVE \E x \in Ids \union {NoId} : Grant(q) = [q EXCEPT !.id = x]
  <2> DEFINE S == (IF q.id = WDA THEN WdaIds ELSE Ids \ WdaIds) \ granted
  <2>1. S \subseteq Ids BY ConstantsAssumption, Zenon
  <2>2. Grant(q) = [q EXCEPT !.id = IF S = {} THEN NoId ELSE Lowest(S)] BY DEF Grant
  <2> HIDE DEF S
  <2>3. S \in SUBSET Nat BY <2>1, ConstantsAssumption
  <2>4. S # {} => \E x \in S : \A y \in S : x <= y BY <2>3, MinProperty
  <2>5. S # {} => Lowest(S) \in S BY <2>4 DEF Lowest
  <2> QED BY <2>1, <2>2, <2>5
<1>3. Answers \subseteq Msg
  <2> SUFFICES ASSUME NEW m \in Answers PROVE m \in Msg OBVIOUS
  <2>1. m \in asked \/ \E q \in asked : m = Grant(q) BY DEF Answers
  <2>2. ASSUME NEW q \in asked, NEW x \in Ids \union {NoId}, m = [q EXCEPT !.id = x]
        PROVE  m \in Msg
    BY <1>1, <2>2 DEF Msg
  <2> QED BY <1>1, <1>2, <2>1, <2>2
<1>4. Unasked \subseteq Msg BY <1>1, ConstantFacts DEF Unasked, Msg, Threads
<1> QED BY <1>3, <1>4

LEMMA ReadCallbackTypes ==
  ASSUME TInv, ReadCallback
  PROVE  TInv'
<1>1. clients' = clients /\ lock' = lock /\ cb.pc = "idle" /\ lock = NoThread
  BY DEF ReadCallback, LockFree
<1>2. /\ asked' \subseteq Msg /\ granted' \subseteq Ids
      /\ spent' \in [get : 0..MaxGets, data : 0..MaxData, fault : 0..MaxFaults]
      /\ \E m \in Msg : Continue(m, 1)
  <2>1. /\ asked \subseteq Msg /\ granted \subseteq Ids
        /\ spent \in [get : 0..MaxGets, data : 0..MaxData, fault : 0..MaxFaults]
    BY DEF TInv, TypeOK
  <2>2. ASSUME NEW m \in Answers,
               asked' = {a \in asked : [a EXCEPT !.id = NoId] # [m EXCEPT !.id = NoId]},
               granted' = CASE m.op = "get" -> granted \union ({m.id} \ {NoId})
                            [] m.op = "rel" -> granted \ {m.id}
                            [] OTHER -> granted,
               Continue(m, 1), UNCHANGED spent
        PROVE  /\ asked' \subseteq Msg /\ granted' \subseteq Ids
               /\ spent' \in [get : 0..MaxGets, data : 0..MaxData, fault : 0..MaxFaults]
               /\ \E x \in Msg : Continue(x, 1)
    BY AnswerTypes, <2>1, <2>2 DEF Msg
  <2>3. ASSUME NEW m \in Unasked, Spend("data"), Continue(m, 1), UNCHANGED <<asked, granted>>
        PROVE  /\ asked' \subseteq Msg /\ granted' \subseteq Ids
               /\ spent' \in [get : 0..MaxGets, data : 0..MaxData, fault : 0..MaxFaults]
               /\ \E x \in Msg : Continue(x, 1)
    BY <2>1, <2>3, AnswerTypes, SpendType DEF TInv
  <2> QED BY <2>2, <2>3 DEF ReadCallback
<1>3. /\ cb' \in [pc : {"idle", "walk", "up", "on"}, msg : Msg, at : Ref, who : Notified]
      /\ cb'.pc = "walk" => \E j \in 1..Len(clients) : RefOf(clients[j]) = cb'.at
  <2>1. PICK m \in Msg : Continue(m, 1) BY <1>2
  <2> QED BY <2>1, ContinueType
<1>4. TypeOK'
  BY <1>2, <1>3 DEF TInv, TypeOK, ReadCallback, deviceVars, syncVars, fileVars, readVars, writeVars
<1>5. WalkInv' BY <1>1, <1>3 DEF WalkInv, RefOf
<1> QED BY <1>4, <1>5, NoThreadMoves DEF ReadCallback, syncVars, fileVars, writeVars

\* The client the read callback is at, and what it does there.
LEMMA DeliverProperties ==
  ASSUME TInv, CallbackDeliver
  PROVE  LET i == Place(cb.at)
             k == FirstWaiter(clients[i].notify, cb.msg.tid)
         IN /\ clients' \in Seq(ClientMem) /\ Same(clients, clients') /\ SameUrbs(clients, clients')
            /\ i \in 1..Len(clients) /\ clients[i] \in ClientMem
            /\ \/ /\ k = 0 /\ SameNotify(clients, clients')
                  /\ \E n \in Nat \ {0} : Continue(cb.msg, n)
               \/ /\ k \in 1..Len(clients[i].notify)
                  /\ cb' = [cb EXCEPT !.pc = "up", !.who = clients[i].notify[k].t]
                  /\ clients'[i].notify = RemoveAt(clients[i].notify, k)
                  /\ \A j \in 1..Len(clients) : j # i => clients'[j].notify = clients[j].notify
<1> DEFINE i == Place(cb.at)
           k == FirstWaiter(clients[i].notify, cb.msg.tid)
           cs == SetList(clients, i, Append(clients[i].list, cb.msg))
<1>1. /\ clients \in Seq(ClientMem) /\ cb.pc = "walk" /\ cb.msg \in Msg
      /\ \E j \in 1..Len(clients) : RefOf(clients[j]) = cb.at
  BY DEF TInv, TypeOK, WalkInv, CallbackDeliver
<1>2. i \in 1..Len(clients) BY <1>1, PlaceProperties
<1>3. clients[i] \in ClientMem /\ i \in 0..Len(clients) BY <1>1, <1>2
<1>4. clients[i].list \in Seq(Msg) /\ clients[i].notify \in Seq(Waiter) BY <1>3 DEF ClientMem
<1>5. k \in 0..Len(clients[i].notify) /\ Append(clients[i].list, cb.msg) \in Seq(Msg)
  BY <1>1, <1>4, WaiterProperties, AppendProperties
<1>6. /\ IF k = 0
         THEN /\ clients' = cs
              /\ Continue(cb.msg, IF cb.msg.to = ALL THEN i + 1 ELSE Len(clients) + 1)
         ELSE /\ clients' = SetNotify(cs, i, RemoveAt(cs[i].notify, k))
              /\ cb' = [cb EXCEPT !.pc = "up", !.who = clients[i].notify[k].t]
  BY DEF CallbackDeliver
<1> HIDE DEF i, k
<1>7. /\ cs \in Seq(ClientMem) /\ Same(clients, cs)
      /\ SameNotify(clients, cs) /\ SameUrbs(clients, cs)
  BY <1>1, <1>3, <1>5, SetFieldSame
<1> HIDE DEF cs
<1>8. CASE k = 0 BY <1>1, <1>2, <1>3, <1>6, <1>7, <1>8 DEF i, k
<1>9. CASE k # 0
  <2>1. cs[i].notify = clients[i].notify /\ Len(cs) = Len(clients)
    BY <1>2, <1>7 DEF SameNotify, Same
  <2> DEFINE l == RemoveAt(clients[i].notify, k)
  <2>2. l \in Seq(Waiter) /\ k \in 1..Len(clients[i].notify)
    BY <1>4, <1>5, <1>9, RemoveAtProperties
  <2>3. clients' = SetNotify(cs, i, l) /\ i \in 0..Len(cs) BY <1>3, <1>6, <1>9, <2>1
  <2> HIDE DEF l
  <2>4. /\ clients' \in Seq(ClientMem) /\ Same(cs, clients') /\ SameUrbs(cs, clients')
    BY <1>7, <2>2, <2>3, SetFieldSame
  <2>5. \A j \in 1..Len(cs) : clients'[j] = IF j = i THEN [cs[j] EXCEPT !.notify = l] ELSE cs[j]
    BY <1>7, <2>2, <2>3, SetNotifyProperties
  <2>6. \A j \in 1..Len(cs) : cs[j] \in ClientMem BY <1>7
  <2>7. clients'[i].notify = l /\ \A j \in 1..Len(clients) : j # i => clients'[j].notify = clients[j].notify
    BY <1>2, <1>7, <2>1, <2>5, <2>6 DEF Same, SameNotify, ClientMem
  <2>8. Same(clients, clients') /\ SameUrbs(clients, clients') BY <1>7, <2>4 DEF Same, SameUrbs
  <2> QED BY <1>2, <1>3, <1>6, <1>9, <2>2, <2>4, <2>7, <2>8 DEF i, k, l
<1> QED BY <1>8, <1>9

LEMMA CallbackDeliverTypes ==
  ASSUME TInv, CallbackDeliver
  PROVE  TInv'
<1> DEFINE i == Place(cb.at)
           k == FirstWaiter(clients[i].notify, cb.msg.tid)
<1>1. /\ clients' \in Seq(ClientMem) /\ Same(clients, clients')
      /\ i \in 1..Len(clients) /\ clients[i] \in ClientMem
      /\ \/ \E n \in Nat \ {0} : Continue(cb.msg, n)
         \/ /\ k \in 1..Len(clients[i].notify)
            /\ cb' = [cb EXCEPT !.pc = "up", !.who = clients[i].notify[k].t]
  BY DeliverProperties
<1>2. /\ cb \in [pc : {"idle", "walk", "up", "on"}, msg : Msg, at : Ref, who : Notified]
      /\ cb.pc = "walk" /\ lock' = lock /\ lock = NoThread
  BY DEF TInv, TypeOK, WalkInv, CallbackDeliver
<1>3. /\ cb' \in [pc : {"idle", "walk", "up", "on"}, msg : Msg, at : Ref, who : Notified]
      /\ cb'.pc = "walk" => \E j \in 1..Len(clients) : RefOf(clients[j]) = cb'.at
  <2>1. CASE \E n \in Nat \ {0} : Continue(cb.msg, n) BY <1>2, <2>1, ContinueType
  <2>2. CASE /\ k \in 1..Len(clients[i].notify)
             /\ cb' = [cb EXCEPT !.pc = "up", !.who = clients[i].notify[k].t]
    <3>1. clients[i].notify[k] \in Waiter BY <1>1, <2>2 DEF ClientMem
    <3> DEFINE w == clients[i].notify[k].t
    <3>2. w \in Notified BY <3>1 DEF Waiter, Notified
    <3>3. cb' = [cb EXCEPT !.pc = "up", !.who = w] BY <2>2
    <3> HIDE DEF w
    <3> QED BY <1>2, <3>2, <3>3
  <2> QED BY <1>1, <2>1, <2>2
<1>4. TypeOK'
  BY <1>1, <1>3 DEF TInv, TypeOK, CallbackDeliver, deviceVars, syncVars, fileVars, readVars, writeVars,
                    modemVars
<1>5. WalkInv' BY <1>1, <1>2, <1>3 DEF WalkInv, RefOf, Same
<1> QED BY <1>4, <1>5, NoThreadMoves DEF CallbackDeliver, syncVars, fileVars, writeVars

LEMMA CallbackUpTypes ==
  ASSUME TInv, CallbackUp
  PROVE  TInv'
<1>1. /\ lock' = lock /\ cb.who \in Notified /\ Up(cb.who)
      /\ cb \in [pc : {"idle", "walk", "up", "on"}, msg : Msg, at : Ref, who : Notified]
      /\ cb' = [cb EXCEPT !.pc = "on"]
  BY DEF TInv, TypeOK, CallbackUp
<1>2. /\ clients' \in Seq(ClientMem) /\ Same(clients, clients')
      /\ woken' \in [Threads -> BOOLEAN]
  BY <1>1, UpProperties
<1>3. /\ cb' \in [pc : {"idle", "walk", "up", "on"}, msg : Msg, at : Ref, who : Notified]
      /\ cb'.pc = "on"
  BY <1>1
<1>4. TypeOK'
  BY <1>2, <1>3 DEF TInv, TypeOK, CallbackUp, deviceVars, syncVars, fileVars, writeVars, modemVars
<1>5. WalkInv' BY <1>3 DEF WalkInv
<1> QED BY <1>4, <1>5, NoThreadMoves DEF CallbackUp, syncVars, fileVars, writeVars

LEMMA CallbackContinues ==
  ASSUME TInv, CallbackOn
  PROVE  \E n \in Nat \ {0} : Continue(cb.msg, n)
BY PlaceProperties DEF TInv, TypeOK, CallbackOn

LEMMA CallbackOnTypes ==
  ASSUME TInv, CallbackOn
  PROVE  TInv'
<1>1. lock' = lock /\ lock = NoThread /\ clients' = clients /\ cb.msg \in Msg
  BY DEF TInv, TypeOK, CallbackOn, LockFree
<1>2. /\ cb' \in [pc : {"idle", "walk", "up", "on"}, msg : Msg, at : Ref, who : Notified]
      /\ cb'.pc = "walk" => \E j \in 1..Len(clients) : RefOf(clients[j]) = cb'.at
  BY <1>1, CallbackContinues, ContinueType
<1>3. TypeOK'
  BY <1>2 DEF TInv, TypeOK, CallbackOn, deviceVars, syncVars, fileVars, readVars, writeVars,
     modemVars
<1>4. WalkInv' BY <1>1, <1>2 DEF WalkInv
<1> QED BY <1>3, <1>4, NoThreadMoves DEF CallbackOn, syncVars, fileVars, writeVars

LEMMA SyncReadyTypes ==
  ASSUME TInv, SyncReady
  PROVE  TInv' /\ Same(clients, clients') /\ OnlyMoves(SyncT) /\ pc'[SyncT] \in {"idle", "add"}
<1> DEFINE cs == Purged(clients, NextTid)
           i == FindClientMem(cs, CTL)
           w == [tid |-> NextTid, t |-> SyncT]
           c == [op |-> "ready", cid |-> CTL, tid |-> NextTid, rid |-> NoId]
<1>1. /\ stage = "ready" /\ pc[SyncT] = "idle" /\ tries' = tries + 1 /\ tid' = NextTid
      /\ clients \in Seq(ClientMem) /\ SyncT \in Threads
  BY ConstantFacts DEF TInv, TypeOK, SyncReady, SyncIdle
<1>2. tries' \in 0..MaxTries BY <1>1, ConstantsAssumption DEF TInv, TypeOK, SyncInv
<1>3. NextTid \in 1..MaxTid /\ NextTid \in 0..MaxTid
  BY ConstantsAssumption DEF TInv, TypeOK, NextTid
<1>4. cs \in Seq(ClientMem) /\ Same(clients, cs) /\ SameNotify(clients, cs) /\ SameUrbs(clients, cs)
  BY <1>1, PurgedProperties
<1>5. i \in 0..Len(cs) BY <1>4, FindProperties
<1>6. /\ UNCHANGED <<usb, urb, done, freedUrb>> /\ cb' = cb /\ lock' = lock /\ id' = id
  BY DEF SyncReady, writeVars, fileVars
<1>7. \/ stage' = "done" /\ UNCHANGED <<clients, call, pc, woken>>
      \/ /\ i # 0 /\ clients' = SetNotify(cs, i, Append(cs[i].notify, w))
         /\ woken' = [woken EXCEPT ![SyncT] = FALSE]
         /\ call' = [call EXCEPT ![SyncT] = c]
         /\ Goto(SyncT, "add") /\ UNCHANGED stage
  BY DEF SyncReady
<1> HIDE DEF cs, i
<1>8. /\ clients' \in Seq(ClientMem) /\ Same(clients, clients') /\ woken' \in [Threads -> BOOLEAN]
      /\ pc' \in [Threads -> Pcs] /\ call' \in [Threads -> CallSet] /\ stage' \in Stages
      /\ OnlyMoves(SyncT) /\ pc'[SyncT] \in {"idle", "add"} /\ CallInv(SyncT)' /\ SyncInv'
  <2>1. /\ pc \in [Threads -> Pcs] /\ call \in [Threads -> CallSet] /\ woken \in [Threads -> BOOLEAN]
        /\ CallInv(SyncT) /\ SyncInv
    BY <1>1 DEF TInv, TypeOK, CallSet
  <2>2. CASE stage' = "done" /\ UNCHANGED <<clients, call, pc, woken>>
    BY <1>1, <1>6, <2>1, <2>2 DEF Same, Stages, OnlyMoves, CallInv, SyncInv
  <2>3. CASE /\ i # 0 /\ clients' = SetNotify(cs, i, Append(cs[i].notify, w))
             /\ woken' = [woken EXCEPT ![SyncT] = FALSE]
             /\ call' = [call EXCEPT ![SyncT] = c]
             /\ Goto(SyncT, "add") /\ UNCHANGED stage
    <3>1. c \in CallSet BY <1>3 DEF CallSet, Ops
    <3>2. cs[i] \in ClientMem BY <1>4, <1>5, <2>3
    <3>3. Append(cs[i].notify, w) \in Seq(Waiter)
      BY <1>1, <1>3, <3>2, AppendProperties DEF Waiter, ClientMem
    <3>4. clients' \in Seq(ClientMem) /\ Same(cs, clients')
      <4> HIDE DEF w
      <4> QED BY <1>4, <1>5, <2>3, <3>3, SetFieldSame
    <3>5. pc' = [pc EXCEPT ![SyncT] = "add"] BY <2>3 DEF Goto
    <3>6. /\ pc' \in [Threads -> Pcs] /\ call' \in [Threads -> CallSet]
          /\ OnlyMoves(SyncT) /\ pc'[SyncT] = "add" /\ call'[SyncT] = c
          /\ woken' \in [Threads -> BOOLEAN] /\ stage' = stage
      <4> HIDE DEF c, w
      <4> QED BY <1>1, <2>1, <2>3, <3>1, <3>5 DEF OnlyMoves, Others, Pcs
    <3>7. CallInv(SyncT)' BY <3>6, ConstantFacts DEF CallInv, CtlOps, Writing, Releasing
    <3>8. SyncInv' BY <1>1, <3>6 DEF SyncInv
    <3>9. Same(clients, clients') BY <1>4, <3>4 DEF Same
    <3> QED BY <1>1, <3>4, <3>6, <3>7, <3>8, <3>9 DEF Stages
  <2> QED BY <1>7, <2>2, <2>3
<1>9. \A u \in Threads : CallInv(u)' BY <1>1, <1>8, CallFrame
<1>10. TypeOK'
  BY <1>1, <1>2, <1>3, <1>6, <1>8 DEF CallSet, Stages, TInv, TypeOK, SyncReady, deviceVars, fileVars,
                              writeVars, modemVars
<1>11. WalkInv' BY <1>6, <1>8, WalkFrame
<1>12. UsbInv' BY <1>1, <1>6, <1>8, UsbFrame DEF OnlyMoves
<1> QED BY <1>8, <1>9, <1>10, <1>11, <1>12 DEF TInv

LEMMA SyncReadyEndTypes ==
  ASSUME TInv, SyncReadyEnd
  PROVE  /\ TInv' /\ Same(clients, clients') /\ OnlyMoves(SyncT) /\ pc'[SyncT] = "idle"
         /\ cb'.pc = cb.pc /\ cb'.at = cb.at
<1> DEFINE i == FindClientMem(clients, CTL)
           k == IF i = 0 THEN 0 ELSE FirstMessage(clients[i].list, call[SyncT].tid)
           j == IF i = 0 THEN 0 ELSE FirstWaiter(clients[i].notify, call[SyncT].tid)
<1>1. /\ pc[SyncT] = "asleep" /\ call[SyncT].op = "ready" /\ SyncT \in Threads
      /\ clients \in Seq(ClientMem) /\ stage # "done"
  BY ConstantFacts DEF TInv, TypeOK, SyncInv, SyncReadyEnd
<1>2. /\ UNCHANGED <<usb, urb, done, freedUrb>> /\ lock' = lock /\ id' = id /\ tries' = tries
      /\ IF woken[SyncT] THEN UNCHANGED spent ELSE Fault
  BY DEF SyncReadyEnd, writeVars, fileVars
<1>3. spent' \in [get : 0..MaxGets, data : 0..MaxData, fault : 0..MaxFaults]
  BY <1>2, SpendType DEF Fault, TInv, TypeOK
<1>4. i \in 0..Len(clients) /\ (i # 0 => clients[i] \in ClientMem)
  <2>1. i \in 0..Len(clients) BY <1>1, FindProperties
  <2> HIDE DEF i
  <2> QED BY <1>1, <2>1
<1>5. (k # 0 => k \in 1..Len(clients[i].list)) /\ (j # 0 => j \in 1..Len(clients[i].notify))
  <2> HIDE DEF i
  <2>1. i # 0 => /\ FirstMessage(clients[i].list, call[SyncT].tid) \in 0..Len(clients[i].list)
                 /\ FirstWaiter(clients[i].notify, call[SyncT].tid) \in 0..Len(clients[i].notify)
    BY <1>4, MessageProperties, WaiterProperties DEF ClientMem
  <2>2. i # 0 => Len(clients[i].list) \in Nat /\ Len(clients[i].notify) \in Nat
    BY <1>4 DEF ClientMem
  <2> QED BY <2>1, <2>2
<1>6. \/ /\ k # 0 /\ clients' = SetList(clients, i, RemoveAt(clients[i].list, k))
         /\ Return(SyncT, TRUE) /\ UNCHANGED <<woken, cb, del>>
      \/ /\ \/ UNCHANGED <<clients, woken, cb, del>>
            \/ /\ \/ UNCHANGED <<clients, woken>>
                  \/ /\ j # 0 /\ clients' = SetNotify(clients, i, RemoveAt(clients[i].notify, j))
                     /\ woken' = [t \in Threads |-> \/ woken[t]
                                                    \/ t = clients[i].notify[j].t /\ t # SyncT]
               /\ NotifyInstead(SyncT, NoThread)
         /\ Goto(SyncT, "idle")
         /\ stage' = IF ReadyGivesUp THEN "done" ELSE stage
         /\ UNCHANGED call
  BY DEF SyncReadyEnd
<1>7. i # 0 => /\ k # 0 => RemoveAt(clients[i].list, k) \in Seq(Msg)
               /\ j # 0 => RemoveAt(clients[i].notify, j) \in Seq(Waiter)
  <2> HIDE DEF i, k, j
  <2> QED BY <1>4, <1>5, RemoveAtProperties DEF ClientMem
<1>8. (k # 0 \/ j # 0) => i # 0 OBVIOUS
<1> HIDE DEF i, k, j
<1>9. clients' \in Seq(ClientMem) /\ Same(clients, clients')
  <2>1. CASE UNCHANGED clients BY <1>1, <2>1 DEF Same
  <2>2. CASE k # 0 /\ clients' = SetList(clients, i, RemoveAt(clients[i].list, k))
    BY <1>1, <1>4, <1>7, <1>8, <2>2, SetFieldSame
  <2>3. CASE j # 0 /\ clients' = SetNotify(clients, i, RemoveAt(clients[i].notify, j))
    BY <1>1, <1>4, <1>7, <1>8, <2>3, SetFieldSame
  <2> QED BY <1>6, <2>1, <2>2, <2>3
<1>10. /\ woken' \in [Threads -> BOOLEAN]
       /\ del' \in [Threads -> [prev : Ref, this : Ref, next : Ref, who : Notified]]
       /\ cb' \in [pc : {"idle", "walk", "up", "on"}, msg : Msg, at : Ref, who : Notified]
       /\ cb'.pc = cb.pc /\ cb'.at = cb.at
  <2>1. /\ woken \in [Threads -> BOOLEAN]
        /\ del \in [Threads -> [prev : Ref, this : Ref, next : Ref, who : Notified]]
        /\ cb \in [pc : {"idle", "walk", "up", "on"}, msg : Msg, at : Ref, who : Notified]
    BY DEF TInv, TypeOK
  <2>2. woken' \in [Threads -> BOOLEAN] BY <1>6, <2>1
  <2>3. CASE UNCHANGED <<cb, del>> BY <2>1, <2>2, <2>3
  <2>4. CASE NotifyInstead(SyncT, NoThread) BY <1>1, <2>2, <2>4, InsteadType DEF Notified
  <2> QED BY <1>6, <2>3, <2>4
<1>11. /\ pc' \in [Threads -> Pcs] /\ call' \in [Threads -> CallSet] /\ stage' \in Stages
       /\ OnlyMoves(SyncT) /\ pc'[SyncT] = "idle" /\ CallInv(SyncT)' /\ SyncInv'
  <2>1. CASE Return(SyncT, TRUE) BY <1>1, <1>2, <2>1, ReturnEffect, ReturnCall, SyncReturn
  <2>2. CASE /\ Goto(SyncT, "idle") /\ stage' = (IF ReadyGivesUp THEN "done" ELSE stage)
             /\ UNCHANGED call
    BY <1>1, <2>2, <1>2, ConstantsAssumption DEF TInv, TypeOK, CallSet, Stages, Goto, OnlyMoves,
       Others, Pcs, CallInv, CtlOps, Writing, Releasing, SyncInv, ReadyGivesUp
  <2> QED BY <1>6, <2>1, <2>2
<1>12. \A u \in Threads : CallInv(u)' BY <1>1, <1>11, CallFrame
<1>13. TypeOK'
  BY <1>2, <1>3, <1>9, <1>10, <1>11 DEF CallSet, Stages, TInv, TypeOK, SyncReadyEnd, deviceVars, fileVars,
                              writeVars
<1>14. WalkInv' BY <1>2, <1>9, <1>10 DEF TInv, WalkInv, Same, RefOf
<1>15. UsbInv' BY <1>1, <1>2, <1>11, UsbFrame DEF OnlyMoves
<1> QED BY <1>9, <1>10, <1>11, <1>12, <1>13, <1>14, <1>15 DEF TInv

LEMMA SyncCtlTypes ==
  ASSUME TInv, SyncCtl
  PROVE  TInv'
<1>1. /\ SyncT \in Threads /\ SyncT \in ReleaseThreads /\ pc[SyncT] = "idle"
      /\ stage \notin {"ready", "done"}
  BY ConstantFacts DEF SyncCtl, SyncIdle
<1>2. PICK op \in {"sync", "get"}, c \in Ids \union {NoId} : BeginCtl(SyncT, op, c)
  BY ConstantsAssumption DEF SyncCtl
<1>3. /\ tid' \in 1..MaxTid /\ clients' \in Seq(ClientMem) /\ Same(clients, clients')
      /\ pc' \in [Threads -> Pcs] /\ call' \in [Threads -> CallSet] /\ OnlyMoves(SyncT)
      /\ pc'[SyncT] = "add"
      /\ call'[SyncT] = [op |-> op, cid |-> CTL, tid |-> NextTid, rid |-> c]
  BY <1>1, <1>2, BeginCtlEffect
<1>4. CallInv(SyncT)' BY <1>1, <1>2, BeginCtlCall
<1>5. TypeOK'
  BY <1>3 DEF TInv, TypeOK, CallSet, SyncCtl, deviceVars, syncVars, fileVars, readVars,
              writeVars, modemVars
<1>6. \A u \in Threads : CallInv(u)' BY <1>1, <1>3, <1>4, CallFrame
<1>7. /\ usb' = usb /\ urb' = urb /\ done' = done /\ freedUrb' = freedUrb /\ cb' = cb
      /\ lock' = lock /\ stage' = stage /\ tries' = tries /\ id' = id
  BY DEF SyncCtl, writeVars, syncVars, fileVars
<1>8. UsbInv' BY <1>1, <1>3, <1>7, UsbFrame DEF OnlyMoves
<1>9. WalkInv' BY <1>3, <1>7, WalkFrame
<1>10. call'[SyncT].op = op BY <1>3
<1>11. SyncInv' BY <1>1, <1>3, <1>7, <1>10 DEF SyncInv
<1> QED BY <1>5, <1>6, <1>8, <1>9, <1>11 DEF TInv

LEMMA SyncIoTypes ==
  ASSUME TInv, SyncIo
  PROVE  /\ TInv' /\ Same(clients, clients') /\ OnlyMoves(SyncT)
         /\ pc'[SyncT] \in {"idle", "add"} \/ call'[SyncT].op # "rel"
<1> DEFINE op == call[SyncT].op
           io(next, x) == [op |-> next, cid |-> id["driver"], tid |-> x, rid |-> NoId]
<1>1. /\ SyncT \in Threads /\ SyncT \in ReleaseThreads /\ pc[SyncT] = "idle"
      /\ pc \in [Threads -> Pcs] /\ call \in [Threads -> CallSet] /\ clients \in Seq(ClientMem)
      /\ CallInv(SyncT) /\ SyncInv /\ stage \in Stages /\ tid \in 1..MaxTid
      /\ id \in [Holders -> Ids \union {NoId}] /\ "driver" \in Holders /\ tries' = tries
  BY ConstantFacts DEF TInv, TypeOK, CallSet, Stages, SyncIo, SyncIdle, Holders
<1>2. /\ usb' = usb /\ urb' = urb /\ done' = done /\ freedUrb' = freedUrb /\ cb' = cb
      /\ lock' = lock
  BY DEF SyncIo, writeVars
<1> DEFINE Moves ==
        /\ clients' \in Seq(ClientMem) /\ Same(clients, clients') /\ tid' \in 1..MaxTid
        /\ pc' \in [Threads -> Pcs] /\ call' \in [Threads -> CallSet] /\ stage' \in Stages
        /\ id' \in [Holders -> Ids \union {NoId}]
        /\ OnlyMoves(SyncT) /\ pc'[SyncT] # "submit" /\ CallInv(SyncT)' /\ SyncInv'
        /\ pc'[SyncT] \in {"idle", "add"} \/ call'[SyncT].op # "rel"
<1>3. ASSUME NEW next \in {"write", "read"}, NEW x \in {0, 1}, NEW where \in {"add", "try"},
             next = "write" <=> where = "add", op \in {"get", "write"},
             call' = [call EXCEPT ![SyncT] = io(next, x)],
             Goto(SyncT, where), UNCHANGED <<clients, tid, id, stage>>
      PROVE  Moves
  <2>1. id["driver"] \in Ids /\ stage \notin {"ready", "done"} BY <1>1, <1>3 DEF SyncInv
  <2>2. io(next, x) \in CallSet BY <2>1, ConstantsAssumption DEF CallSet, Ops
  <2> DEFINE c == io(next, x)
  <2>3. c.op = next /\ c.cid = id["driver"] /\ c.rid = NoId OBVIOUS
  <2> HIDE DEF io, c
  <2>4. call' = [call EXCEPT ![SyncT] = c] /\ pc' = [pc EXCEPT ![SyncT] = where]
    BY <1>3 DEF c, Goto
  <2>5. /\ pc' \in [Threads -> Pcs] /\ call' \in [Threads -> CallSet] /\ OnlyMoves(SyncT)
        /\ pc'[SyncT] = where /\ call'[SyncT] = c
    BY <1>1, <2>2, <2>4 DEF OnlyMoves, Others, Pcs, c
  <2>6. CallInv(SyncT)'
    BY <1>1, <1>3, <2>1, <2>3, <2>5, ConstantFacts DEF CallInv, CtlOps, Writing, Releasing
  <2>7. SyncInv' BY <1>3, <2>1, <2>3, <2>5 DEF SyncInv
  <2>8. pc'[SyncT] = "add" \/ call'[SyncT].op # "rel" BY <1>3, <2>3, <2>5
  <2> QED BY <1>1, <1>3, <2>5, <2>6, <2>7, <2>8 DEF Same
<1>4. ASSUME op = "read", BeginCtl(SyncT, "rel", id["driver"]),
             id' = [id EXCEPT !["driver"] = NoId], stage' = stage
      PROVE  Moves
  <2>1. id["driver"] \in Ids \union {NoId} BY <1>1
  <2>2. /\ tid' \in 1..MaxTid /\ clients' \in Seq(ClientMem) /\ Same(clients, clients')
        /\ pc' \in [Threads -> Pcs] /\ call' \in [Threads -> CallSet] /\ OnlyMoves(SyncT)
        /\ pc'[SyncT] = "add"
        /\ call'[SyncT] = [op |-> "rel", cid |-> CTL, tid |-> NextTid, rid |-> id["driver"]]
    BY <1>1, <1>4, <2>1, BeginCtlEffect
  <2>3. CallInv(SyncT)' BY <1>1, <1>4, <2>1, BeginCtlCall
  <2>4. SyncInv' BY <2>2, <1>1, <1>4 DEF SyncInv
  <2> QED BY <1>1, <1>4, <2>2, <2>3, <2>4
<1> DEFINE i == FindClientMem(clients, wds)
           cs == SetList(clients, i, <<>>)
<1>5. ASSUME op = "write",
             \/ stage' = "done" /\ UNCHANGED clients
             \/ /\ i # 0 /\ stage' = "dms"
                /\ clients' = SetNotify(cs, i, Append(clients[i].notify, [tid |-> 0, t |-> WdsCb])),
             call' = [call EXCEPT ![SyncT] = NoCall], UNCHANGED <<tid, id, pc>>
      PROVE  Moves
  <2>1. NoCall \in CallSet BY ConstantsAssumption DEF NoCall, CallSet, Ops
  <2>2. call' \in [Threads -> CallSet] /\ OnlyMoves(SyncT) /\ call'[SyncT] = NoCall
    BY <1>1, <1>5, <2>1 DEF OnlyMoves, Others
  <2>3. CallInv(SyncT)' BY <1>1, <1>5, <2>2 DEF CallInv, NoCall, CtlOps, Writing, Releasing
  <2>4. SyncInv' /\ stage' \in Stages BY <1>1, <1>5, <2>2 DEF SyncInv, NoCall, Stages
  <2>5. clients' \in Seq(ClientMem) /\ Same(clients, clients')
    <3>1. CASE UNCHANGED clients BY <1>1, <3>1 DEF Same
    <3>2. CASE i # 0 /\ clients' = SetNotify(cs, i, Append(clients[i].notify,
                                                          [tid |-> 0, t |-> WdsCb]))
      <4>1. i \in 1..Len(clients) BY <1>1, <3>2, FindProperties
      <4> DEFINE a == Append(clients[i].notify, [tid |-> 0, t |-> WdsCb])
      <4> HIDE DEF i
      <4>2. a \in Seq(Waiter) /\ <<>> \in Seq(Msg)
        <5>1. clients[i] \in ClientMem /\ [tid |-> 0, t |-> WdsCb] \in Waiter
          BY <1>1, <4>1, ConstantsAssumption DEF Waiter
        <5>2. clients[i].notify \in Seq(Waiter) BY <5>1 DEF ClientMem
        <5> QED BY <5>1, <5>2, AppendProperties, EmptySeq
      <4>3. cs \in Seq(ClientMem) /\ Same(clients, cs)
        <5>1. i \in 0..Len(clients) BY <4>1
        <5>2. \A l \in Seq(Msg) : LET ds == SetList(clients, i, l) IN
                 Same(clients, ds) /\ ds \in Seq(ClientMem)
          BY <1>1, <5>1, SetFieldSame
        <5>3. cs = SetList(clients, i, <<>>) OBVIOUS
        <5> HIDE DEF cs
        <5> QED BY <4>2, <5>2, <5>3
      <4>4. i \in 0..Len(cs) BY <4>1, <4>3 DEF Same
      <4> HIDE DEF cs, a
      <4>5. clients' = SetNotify(cs, i, a) BY <3>2 DEF a
      <4>6. clients' \in Seq(ClientMem) /\ Same(cs, clients')
        BY <4>2, <4>3, <4>4, <4>5, SetFieldSame
      <4> QED BY <4>3, <4>6 DEF Same
    <3> QED BY <1>5, <3>1, <3>2
  <2> QED BY <1>1, <1>5, <2>2, <2>3, <2>4, <2>5
<1>6. \/ /\ op = "get" /\ call' = [call EXCEPT ![SyncT] = io("write", 0)]
         /\ Goto(SyncT, "add") /\ UNCHANGED <<clients, tid, id, stage>>
      \/ /\ op = "write" /\ call' = [call EXCEPT ![SyncT] = io("read", 1)]
         /\ Goto(SyncT, "try") /\ UNCHANGED <<clients, tid, id, stage>>
      \/ /\ op = "read" /\ BeginCtl(SyncT, "rel", id["driver"])
         /\ id' = [id EXCEPT !["driver"] = NoId] /\ stage' = stage
      \/ /\ op = "write"
         /\ \/ stage' = "done" /\ UNCHANGED clients
            \/ /\ i # 0 /\ stage' = "dms"
               /\ clients' = SetNotify(cs, i, Append(clients[i].notify, [tid |-> 0, t |-> WdsCb]))
         /\ call' = [call EXCEPT ![SyncT] = NoCall] /\ UNCHANGED <<tid, id, pc>>
  BY DEF SyncIo
<1> HIDE DEF op, io, i, cs
<1>7. Moves
  <2> HIDE DEF Moves
  <2> QED BY <1>3, <1>4, <1>5, <1>6
<1>8. \A u \in Threads : CallInv(u)' BY <1>1, <1>7, CallFrame
<1>9. TypeOK'
  BY <1>1, <1>2, <1>7 DEF CallSet, Stages, TInv, TypeOK, SyncIo, deviceVars, fileVars, readVars,
              writeVars, modemVars
<1>10. UsbInv' BY <1>1, <1>2, <1>7, UsbFrame DEF OnlyMoves
<1>11. WalkInv' BY <1>2, <1>7, WalkFrame
<1> QED BY <1>7, <1>8, <1>9, <1>10, <1>11 DEF TInv

LEMMA RemovalTypes ==
  ASSUME TInv, Unplug \/ Unbind
  PROVE  TInv'
<1>1. spent' = spent \/ Fault BY DEF Unplug, Unbind
<1>2. spent' \in [get : 0..MaxGets, data : 0..MaxData, fault : 0..MaxFaults]
  BY <1>1, SpendType DEF Fault, TInv, TypeOK
<1>3. TypeOK'
  <2>1. /\ valid' = valid /\ dereg' \in {dereg, TRUE} /\ attached' \in {attached, FALSE}
        /\ UNCHANGED <<wda, forced, syncVars, clients, tid, fileVars, pc, call, readVars,
                       writeVars, del, asked, granted, lock, cb>>
    BY DEF Unplug, Unbind
  <2>2. dereg' \in BOOLEAN /\ attached' \in BOOLEAN BY <2>1 DEF TInv, TypeOK
  <2>3. valid' = valid /\ UNCHANGED <<wda, forced, syncVars, clients, tid, fileVars, pc, call,
                              readVars, writeVars, del, asked, granted, lock, cb>>
    BY <2>1
  <2> QED BY <1>2, <2>2, <2>3 DEF TInv, TypeOK, syncVars, fileVars, readVars, writeVars
<1>4. UNCHANGED <<pc, call, stage, tries, id, usb, urb, done, freedUrb, cb, lock, clients>>
  BY DEF Unplug, Unbind, syncVars, fileVars, writeVars
<1>5. WalkInv' BY <1>4, WalkFrame DEF Same
<1> QED BY <1>3, <1>4, <1>5, NoThreadMoves

LEMMA DeregisterTypes ==
  ASSUME TInv, Deregister
  PROVE  TInv'
<1>1. /\ ExitT \in Threads /\ ExitT \in ReleaseThreads /\ ExitT # SyncT /\ pc[ExitT] = "idle"
      /\ clients \in Seq(ClientMem)
  BY ConstantFacts DEF TInv, TypeOK, Deregister
<1>2. clients # <<>> => clients[1].id \in Ids \union {CTL}
  <2>1. clients # <<>> => clients[1] \in ClientMem BY <1>1, TailProperties
  <2> QED BY <2>1 DEF ClientMem
<1>3. spent' \in [get : 0..MaxGets, data : 0..MaxData, fault : 0..MaxFaults]
  BY SpendType DEF Deregister, Fault, TInv, TypeOK
<1>4. /\ valid' \in BOOLEAN
      /\ \/ UNCHANGED <<tid, clients, call, pc>>
         \/ clients # <<>> /\ AskRelease(ExitT, clients[1].id)
  BY DEF Deregister, TInv, TypeOK
<1>5. /\ tid' \in 1..MaxTid /\ clients' \in Seq(ClientMem) /\ Same(clients, clients')
      /\ pc' \in [Threads -> Pcs] /\ call' \in [Threads -> CallSet] /\ OnlyMoves(ExitT)
      /\ CallInv(ExitT)' /\ pc'[ExitT] # "submit"
  BY <1>1, <1>2, <1>4, NothingBegun, AskReleaseEffect
<1>6. TypeOK'
  BY <1>3, <1>4, <1>5 DEF TInv, TypeOK, CallSet, Deregister, syncVars, fileVars, readVars,
              writeVars
<1>7. \A u \in Threads : CallInv(u)' BY <1>1, <1>5, CallFrame
<1>8. /\ usb' = usb /\ urb' = urb /\ done' = done /\ freedUrb' = freedUrb /\ cb' = cb /\ lock' = lock
      /\ stage' = stage /\ tries' = tries /\ id' = id
  BY DEF Deregister, writeVars, syncVars, fileVars
<1>9. UsbInv' BY <1>1, <1>5, <1>8, UsbFrame DEF OnlyMoves
<1>10. WalkInv' BY <1>5, <1>8, WalkFrame
<1>11. SyncInv' BY <1>1, <1>5, <1>8, SyncFrame, ConstantFacts DEF OnlyMoves, Others
<1> QED BY <1>6, <1>7, <1>9, <1>10, <1>11 DEF TInv

LEMMA InitTypes ==
  ASSUME Init
  PROVE  TInv
<1>1. /\ clients = << [id |-> CTL, owner |-> "driver", list |-> <<>>, notify |-> <<>>,
                       urbs |-> <<>>] >>
      /\ clients \in Seq(ClientMem)
  BY EmptySeq DEF Init, ClientMem, Holders
<1>2. NoCall \in CallSet /\ 0 \in 0..MaxTries /\ 0 < MaxTries /\ 1 \in 1..MaxTid
  BY ConstantsAssumption DEF NoCall, CallSet, Ops
<1>3. /\ NoRef \in Ref /\ NoMsg \in Msg /\ SyncT \in Notified
  BY ConstantFacts, ConstantsAssumption DEF NoRef, Ref, NoMsg, Msg, Notified, Holders
<1>4. NoDel \in [prev : Ref, this : Ref, next : Ref, who : Notified] BY <1>3 DEF NoDel
<1>5. CbIdle \in [pc : {"idle", "walk", "up", "on"}, msg : Msg, at : Ref, who : Notified]
      /\ CbIdle.pc = "idle"
  BY <1>3 DEF CbIdle
<1>6. spent \in [get : 0..MaxGets, data : 0..MaxData, fault : 0..MaxFaults]
  BY ConstantsAssumption DEF Init
<1>7. usb = <<>> /\ usb \in Seq(Urb) BY EmptySeq DEF Init
<1>8. TypeOK BY <1>1, <1>2, <1>3, <1>4, <1>5, <1>6, <1>7 DEF Init, TypeOK, CallSet, Pcs
<1>9. \A t \in Threads : CallInv(t) BY DEF Init, CallInv, NoCall, CtlOps, Writing, Releasing
<1>10. SyncInv BY <1>2, ConstantFacts DEF Init, SyncInv, NoCall
<1>11. UsbInv BY <1>7 DEF Init, UsbInv
<1>12. WalkInv BY <1>5 DEF Init, WalkInv
<1> QED BY <1>8, <1>9, <1>10, <1>11, <1>12 DEF TInv

LEMMA StepTypes ==
  ASSUME TInv, [Next]_vars
  PROVE  TInv'
<1>1. CASE UNCHANGED vars
  BY <1>1, WalkFrame, NoThreadMoves DEF vars, deviceVars, syncVars, fileVars, readVars,
     writeVars, modemVars, TInv, TypeOK, Same
<1>2. ASSUME NEW f \in Files, FileStep(f) PROVE TInv'
  BY ConstantFacts, <1>2, IoctlTypes, BeginIoTypes, UserspaceCloseTypes DEF FileStep,
     UserspaceWrite, UserspaceRead
<1>3. ASSUME NEW t \in Threads,
             WriteStep(t) \/ ReadStep(t) \/ ClientInsert(t) \/ ClientReturn(t)
      PROVE  TInv'
  BY <1>3, WriteAddTypes, WriteSubmitTypes, WriteWakeTypes, ReadTryTypes, ReadWakeTypes,
     ReadInterruptedTypes, ReadGiveUpTypes, ClientInsertTypes, ClientReturnTypes
     DEF WriteStep, ReadStep
<1>4. ASSUME NEW t \in Threads, ReleaseStep(t) PROVE TInv'
  BY <1>4, ReleaseFindTypes, ReleaseNotifyTypes, ReleaseUpTypes, ReleaseUrbTypes,
     ReleaseFreeTypes DEF ReleaseStep
<1>5. CASE WriteSyncCallback \/ ReadCallback \/ CallbackStep
  BY <1>5, WriteSyncCallbackTypes, ReadCallbackTypes, CallbackDeliverTypes, CallbackUpTypes,
     CallbackOnTypes DEF CallbackStep
<1>6. CASE SyncStep \/ Unplug \/ Unbind \/ Deregister
  BY <1>6, SyncReadyTypes, SyncReadyEndTypes, SyncCtlTypes, SyncIoTypes, RemovalTypes,
     DeregisterTypes DEF SyncStep
<1> QED BY <1>1, <1>2, <1>3, <1>4, <1>5, <1>6 DEF Next

\* Every variable keeps to its type: client memory, the call and the URB of
\* each thread, the callback and the pointers of a release, whatever files are
\* opened and closed, calls interrupted and answers late.
THEOREM TypeCorrect == Spec => []TypeOK
BY InitTypes, StepTypes, PTL DEF TInv, Spec

-----------------------------------------------------------------------------
\* What follows from it.

LEMMA HasSame ==
  ASSUME TInv, Same(clients, clients')
  PROVE  \A h, c : Has(h, c)' <=> Has(h, c)
BY DEF TInv, TypeOK, Same, Has

LEMMA OneOwner ==
  ASSUME ListInv, NEW h, NEW g, NEW c, Has(h, c), Has(g, c)
  PROVE  h = g
BY DEF ListInv, Has

\* A thread at a client other than QMICTL reads or writes for its file.
LEMMA OwnClient ==
  ASSUME TInv, Safe, NEW t \in Threads, pc[t] \notin Releasing \union {"idle"},
         call[t].cid # CTL
  PROVE  /\ call[t].op \in {"write", "read"} /\ call[t].cid = id[t[1]] /\ call[t].cid \in Ids
         /\ Has(t[1], call[t].cid) /\ t # ExitT
BY ConstantFacts DEF TInv, TypeOK, Safe, OwnInv, CallSet, CallInv, CtlOps, Ops, OwnOf

\* A client has one writer.
LEMMA WritersApart ==
  ASSUME TInv, Safe, NEW t \in Threads, NEW u \in Threads, call[t].op = "write",
         call[u].op = "write", call[t].cid = call[u].cid
  PROVE  t = u
<1>1. /\ CallInv(t) /\ OwnOf(t) /\ CallInv(u) /\ OwnOf(u) /\ ListInv BY DEF TInv, Safe, OwnInv
<1>2. /\ t \in ReleaseThreads /\ u \in ReleaseThreads
      /\ call[t].cid = id[t[1]] /\ call[u].cid = id[u[1]] /\ call[t].cid \in Ids
  BY <1>1 DEF CallInv, OwnOf
<1>3. /\ id[t[1]] # NoId /\ id[u[1]] # NoId /\ t[1] \in Holders /\ u[1] \in Holders
  <2>1. id[t[1]] \in Ids /\ id[u[1]] \in Ids BY <1>2
  <2> QED BY <2>1, ConstantFacts
<1>4. Has(t[1], call[t].cid) /\ Has(u[1], call[t].cid) BY <1>2, <1>3 DEF Safe, OwnInv
<1>5. t[1] = u[1] BY <1>1, <1>4, OneOwner
<1>6. t # ExitT /\ u # ExitT BY <1>1 DEF OwnOf, NoCall
<1>7. t = u \/ {t, u} = {SyncT, ExitT} BY <1>2, <1>5, ConstantFacts
<1> QED BY <1>6, <1>7

\* The client that is being released belongs to no one else: nobody reads,
\* writes, holds or releases it.
LEMMA Released ==
  ASSUME TInv, Safe, NEW t \in Threads, pc[t] # "idle", call[t].op = "rel"
  PROVE  LET c == call[t].rid IN
         /\ c \in Ids /\ c # CTL /\ c # wds /\ t \in ReleaseThreads /\ t # ExitT
         /\ \A h \in Holders : id[h] # c
         /\ \A u \in Others(t) : /\ pc[u] = "named" => call[u].rid # c
                                 /\ pc[u] # "idle" /\ call[u].op = "rel" => call[u].rid # c
         /\ \A u \in Threads : pc[u] \notin Releasing \union {"idle"} => call[u].cid # c
<1> DEFINE c == call[t].rid
<1>1. /\ CallInv(t) /\ OwnOf(t) /\ ListInv BY DEF TInv, Safe, OwnInv
<1>2. /\ t \in ReleaseThreads /\ Has(t[1], c) /\ id[t[1]] = NoId /\ c \in Ids /\ t # ExitT
  BY <1>1 DEF CallInv, OwnOf
<1> HIDE DEF c
<1>3. c # CTL /\ c # NoId /\ t[1] \in Holders BY <1>2, ConstantFacts
<1>4. \A h \in Holders : id[h] # c
  <2>1. SUFFICES ASSUME NEW h \in Holders, id[h] = c PROVE FALSE OBVIOUS
  <2>2. Has(h, c) BY <1>3, <2>1 DEF Safe, OwnInv
  <2>3. h = t[1] BY <1>1, <1>2, <2>2, OneOwner
  <2> QED BY <1>2, <1>3, <2>1, <2>3
<1>5. c # wds
  <2>1. SUFFICES ASSUME c = wds PROVE FALSE OBVIOUS
  <2>2. Has("driver", c) BY <1>3, <2>1 DEF Safe, WdsInv
  <2>3. t[1] = "driver" BY <1>1, <1>2, <2>2, OneOwner
  <2>4. t = SyncT BY ConstantFacts, <1>2, <2>3
  <2> QED BY <2>1, <2>4 DEF Safe, WdsInv, c
<1>6. ASSUME NEW u \in Others(t), Has(u[1], c), u \in ReleaseThreads
      PROVE  u = ExitT
  BY <1>1, <1>2, <1>6, OneOwner, ConstantFacts DEF Others
<1>7. \A u \in Others(t) : /\ pc[u] = "named" => call[u].rid # c
                           /\ pc[u] # "idle" /\ call[u].op = "rel" => call[u].rid # c
  <2>1. SUFFICES ASSUME NEW u \in Others(t), call[u].rid = c,
                        pc[u] = "named" \/ (pc[u] # "idle" /\ call[u].op = "rel")
                 PROVE FALSE
    OBVIOUS
  <2>2. CallInv(u) /\ OwnOf(u) BY DEF TInv, Safe, OwnInv, Others
  <2>3. u \in ReleaseThreads /\ Has(u[1], c) /\ pc[u] # "idle" BY <2>1, <2>2 DEF CallInv, OwnOf
  <2>4. u = ExitT BY <1>6, <2>3
  <2> QED BY <2>2, <2>3, <2>4 DEF OwnOf
<1>8. \A u \in Threads : pc[u] \notin Releasing \union {"idle"} => call[u].cid # c
  <2>1. SUFFICES ASSUME NEW u \in Threads, pc[u] \notin Releasing \union {"idle"},
                        call[u].cid = c
                 PROVE FALSE
    OBVIOUS
  <2>2. call[u].cid = id[u[1]] /\ u[1] \in Holders BY <1>3, <2>1, OwnClient, ConstantFacts
  <2> QED BY <1>4, <2>1, <2>2
<1> QED BY <1>2, <1>3, <1>4, <1>5, <1>7, <1>8 DEF c

\* What a step that leaves things alone keeps.

LEMMA OwnFrame ==
  ASSUME TInv, Safe, NEW t \in Threads, OnlyMoves(t), \A h \in Holders : id'[h] = id[h],
         Same(clients, clients'), OwnOf(t)'
  PROVE  OwnInv'
<1>1. \A h, c : Has(h, c)' <=> Has(h, c) BY HasSame
<1>2. \A h \in Holders : id'[h] # NoId => Has(h, id[h])' BY <1>1 DEF Safe, OwnInv
<1>3. ASSUME NEW u \in Others(t) PROVE OwnOf(u)'
  BY ConstantFacts, <1>1 DEF Safe, OwnInv, OnlyMoves, Others, OwnOf
<1>4. \A u \in Threads : OwnOf(u)' BY <1>3 DEF Others
<1> QED BY <1>2, <1>4 DEF OwnInv

LEMMA ListFrame ==
  ASSUME TInv, Safe, Same(clients, clients')
  PROVE  ListInv'
<1>1. Len(clients) \in Nat BY DEF TInv, TypeOK
<1> QED BY <1>1 DEF Safe, ListInv, Same

LEMMA SameLess ==
  ASSUME TInv, Safe, Same(clients, clients')
  PROVE  /\ SameUrbs(clients, clients') => LessUrbs
         /\ SameNotify(clients, clients') => LessEntries
<1>1. Len(clients) \in Nat /\ OneUrb /\ OneEntry BY DEF TInv, TypeOK, Safe, UrbInv, WaitInv
<1>2. SameUrbs(clients, clients') => LessUrbs
  BY <1>1 DEF Same, SameUrbs, LessUrbs, OneUrb, HasUrb
<1>3. SameNotify(clients, clients') => LessEntries
  <2>1. SUFFICES ASSUME SameNotify(clients, clients') PROVE LessEntries OBVIOUS
  <2>2. OneEntry' BY <1>1, <2>1 DEF Same, SameNotify, OneEntry, Once
  <2>3. \A c, t, x : HasEntry(c, t, x)' => HasEntry(c, t, x)
    BY <1>1, <2>1 DEF Same, SameNotify, HasEntry
  <2> QED BY <2>2, <2>3 DEF LessEntries
<1> QED BY <1>2, <1>3

LEMMA UrbFrame ==
  ASSUME TInv, Safe, NEW t \in Threads, OnlyMoves(t), freedUrb' = {}, LessUrbs,
         \/ pc[t] \notin {"submit", "written"} \/ call[t].op # "write"
         \/ \A c \in Ids : ~HasUrb(c, t)'
         \/ /\ pc'[t] \in {"submit", "written"} /\ call'[t].op = call[t].op
            /\ call'[t].cid = call[t].cid
  PROVE  UrbInv'
<1>1. ASSUME NEW u \in Threads, NEW c \in Ids, HasUrb(c, u)'
      PROVE  pc'[u] \in {"submit", "written"} /\ call'[u].op = "write" /\ call'[u].cid = c
  <2>1. HasUrb(c, u) BY <1>1 DEF LessUrbs
  <2>2. pc[u] \in {"submit", "written"} /\ call[u].op = "write" /\ call[u].cid = c
    BY <2>1 DEF Safe, UrbInv, UrbOf
  <2>3. CASE u # t BY <2>2, <2>3 DEF OnlyMoves, Others
  <2>4. CASE u = t BY <1>1, <2>2, <2>4
  <2> QED BY <2>3, <2>4
<1>2. \A u \in Threads : UrbOf(u)' BY <1>1 DEF UrbOf
<1> QED BY <1>2 DEF UrbInv, LessUrbs

\* After PopFromURBList no URB of the writer is left.
LEMMA UrbPop ==
  ASSUME TInv, Safe, NEW t \in Threads, pc[t] \in {"submit", "written"}, PopFromURBList(t)
  PROVE  LessUrbs /\ \A c \in Ids : ~HasUrb(c, t)'
<1> DEFINE i == FindClientMem(clients, call[t].cid)
<1>1. /\ clients \in Seq(ClientMem) /\ \A j \in 1..Len(clients) : clients[j] \in ClientMem
      /\ ListInv /\ OneUrb /\ UrbOf(t)
  BY ClientTypes DEF Safe, UrbInv
<1>2. /\ i \in 0..Len(clients)
      /\ i = 0 => \A j \in 1..Len(clients) : clients[j].id # call[t].cid
      /\ i # 0 => clients[i].id = call[t].cid
  BY <1>1, FindProperties
<1>3. \/ UNCHANGED clients /\ (i # 0 => clients[i].urbs = <<>>)
      \/ i # 0 /\ clients[i].urbs # <<>> /\ clients' = SetUrbs(clients, i, Tail(clients[i].urbs))
  BY DEF PopFromURBList, UrbAt
<1> HIDE DEF i
<1>4. ASSUME NEW j \in 1..Len(clients), clients[j].id # CTL, NEW k \in 1..Len(clients[j].urbs),
             clients[j].urbs[k].t = t
      PROVE  j = i
  <2>1. clients[j].id \in Ids BY <1>1, <1>4 DEF ClientMem
  <2>2. HasUrb(clients[j].id, t) BY <1>4 DEF HasUrb
  <2>3. call[t].cid = clients[j].id BY <1>1, <2>1, <2>2 DEF UrbOf
  <2>4. i # 0 /\ clients[i].id = clients[j].id /\ i \in 1..Len(clients) BY <1>2, <2>3
  <2> QED BY <1>1, <2>4 DEF ListInv
<1>5. CASE UNCHANGED clients /\ (i # 0 => clients[i].urbs = <<>>)
  <2>1. ASSUME NEW c \in Ids, HasUrb(c, t) PROVE FALSE
    <3>1. PICK j \in 1..Len(clients) : clients[j].id = c /\
             \E k \in 1..Len(clients[j].urbs) : clients[j].urbs[k].t = t
      BY <2>1 DEF HasUrb
    <3>2. c # CTL BY ConstantFacts
    <3>3. j = i /\ j # 0 BY <1>4, <3>1, <3>2
    <3> QED BY <1>5, <3>1, <3>3
  <2>2. LessUrbs BY <1>1, <1>5 DEF LessUrbs, OneUrb, HasUrb
  <2> QED BY <1>5, <2>1, <2>2 DEF HasUrb
<1>6. CASE i # 0 /\ clients[i].urbs # <<>> /\ clients' = SetUrbs(clients, i, Tail(clients[i].urbs))
  <2>1. i \in 1..Len(clients) BY <1>2, <1>6
  <2>2. clients[i].urbs \in Seq(Urb) BY <1>1, <2>1 DEF ClientMem
  <2> DEFINE l == Tail(clients[i].urbs)
  <2>3. /\ l \in Seq(Urb) /\ Len(l) = Len(clients[i].urbs) - 1 /\ Len(clients[i].urbs) \in Nat
        /\ clients' = SetUrbs(clients, i, l)
    BY <1>6, <2>2, TailProperties
  <2> HIDE DEF l
  <2>4. clients[i].id # CTL => Len(l) <= 0 /\ Len(l) \in Nat BY <1>1, <2>1, <2>3 DEF OneUrb
  <2>5. /\ Len(clients') = Len(clients)
        /\ \A j \in 1..Len(clients) :
             clients'[j] = IF j = i THEN [clients[j] EXCEPT !.urbs = l] ELSE clients[j]
    <3>1. i \in 0..Len(clients) BY <2>1
    <3> QED BY <1>1, <2>3, <3>1, SetUrbsProperties
  <2>6. \A j \in 1..Len(clients) : /\ clients'[j].id = clients[j].id
                                   /\ clients'[j].urbs = IF j = i THEN l ELSE clients[j].urbs
    BY <1>1, <2>5 DEF ClientMem
  <2>7. OneUrb' BY <1>1, <2>3, <2>4, <2>5, <2>6 DEF OneUrb
  <2>8. ASSUME NEW c \in Ids, NEW u \in Threads, HasUrb(c, u)'
        PROVE  HasUrb(c, u) /\ u # t
    <3>1. PICK j \in 1..Len(clients) : clients'[j].id = c /\
             \E k \in 1..Len(clients'[j].urbs) : clients'[j].urbs[k].t = u
      BY <2>5, <2>8 DEF HasUrb
    <3>2. c # CTL BY ConstantFacts
    <3>3. j # i BY <3>1, <2>4, <2>6, <3>2
    <3>4. clients[j].id = c /\ \E k \in 1..Len(clients[j].urbs) : clients[j].urbs[k].t = u
      BY <2>6, <3>1, <3>3
    <3> QED BY <1>4, <3>2, <3>3, <3>4 DEF HasUrb
  <2> QED BY <2>7, <2>8 DEF LessUrbs
<1> QED BY <1>3, <1>5, <1>6

\* What is known of threads other than the one that moves.
LEMMA EntryFrame ==
  ASSUME TInv, Safe, NEW t \in Threads, OnlyMoves(t),
         stage = "done" => stage' = "done", NEW u \in Others(t),
         \A c \in Ids \union {CTL}, x \in 0..MaxTid : HasEntry(c, u, x)' => HasEntry(c, u, x),
         woken'[u] = woken[u], CbFor(u)' => CbFor(u)
  PROVE  EntryOf(u)'
<1>1. EntryOf(u) /\ u \in Threads BY DEF Safe, WaitInv, Others
<1>2. ASSUME NEW c \in Ids \union {CTL}, NEW x \in 0..MaxTid, HasEntry(c, u, x)'
      PROVE  \/ Waiting(u)' /\ call'[u].cid = c /\ call'[u].tid = x /\ ~woken'[u] /\ ~CbFor(u)'
             \/ u = SyncT /\ stage' = "done" /\ c = CTL
  BY <1>2, <1>1 DEF EntryOf, OnlyMoves, Waiting
<1> QED BY <1>2 DEF EntryOf

LEMMA WaitFrame ==
  ASSUME TInv, Safe, NEW t \in Threads, OnlyMoves(t), LessEntries,
         stage = "done" => stage' = "done", WdsDone => WdsDone', wds' = wds \/ ~WdsDone,
         \A u \in Others(t) : woken'[u] = woken[u],
         cb'.pc = "up" => cb.pc = "up" /\ cb'.who \in {cb.who, Gone, NoThread},
         Stays(t),
         CbFor(t)' => \/ Waiting(t)' /\ ~woken'[t]
                      \/ ~Waiting(t) \/ woken[t]
                      \/ t = SyncT /\ stage' = "done"
  PROVE  WaitInv'
<1>1. CbInv /\ WdsEntry /\ EntryOf(t) BY DEF Safe, WaitInv
<1>2. \A u \in Threads : CbFor(u)' => CbFor(u) BY ConstantFacts DEF CbFor
<1>3. \A u \in Others(t) : EntryOf(u)' BY <1>2, EntryFrame DEF Others, LessEntries
<1>4. EntryOf(t)'
  <2>1. ASSUME NEW c \in Ids \union {CTL}, NEW x \in 0..MaxTid, HasEntry(c, t, x)'
        PROVE  \/ Waiting(t)' /\ call'[t].cid = c /\ call'[t].tid = x /\ ~woken'[t] /\ ~CbFor(t)'
               \/ t = SyncT /\ stage' = "done" /\ c = CTL
    BY <2>1, <1>1, <1>2 DEF LessEntries, EntryOf, Stays
  <2> QED BY <2>1 DEF EntryOf
<1>5. CbInv'
  <2>1. SUFFICES ASSUME cb'.pc = "up"
                 PROVE  /\ cb'.who = WdsCb => WdsDone'
                        /\ cb'.who \in Threads => \/ Waiting(cb.who)' /\ ~woken'[cb'.who]
                                                  \/ cb'.who = SyncT /\ stage' = "done"
    BY DEF CbInv
  <2>2. CASE cb'.who \in {Gone, NoThread} BY <2>2, ConstantFacts
  <2>3. CASE cb'.who = cb.who /\ cb.who = WdsCb BY <1>1, <2>1, <2>3, ConstantFacts DEF CbInv
  <2>4. ASSUME NEW u \in Threads, cb'.who = u, cb.who = u
        PROVE  (Waiting(u)' /\ ~woken'[u]) \/ (u = SyncT /\ stage' = "done")
    <3>1. cb.pc = "up" /\ CbFor(u)' BY <2>1, <2>4 DEF CbFor
    <3>2. (Waiting(u) /\ ~woken[u]) \/ (u = SyncT /\ stage = "done")
      BY <1>1, <2>4, <3>1 DEF CbInv
    <3>3. CASE u = t BY <3>1, <3>2, <3>3
    <3>4. CASE u # t BY <3>2, <3>4 DEF Waiting, OnlyMoves, Others
    <3> QED BY <3>3, <3>4
  <2>5. cb'.who \in {cb.who, Gone, NoThread} BY <2>1
  <2> QED BY <2>2, <2>3, <2>4, <2>5, ConstantFacts DEF Waiting
<1>6. WdsEntry'
  <2>1. ASSUME NEW c \in Ids \union {CTL}, NEW x \in 0..MaxTid, HasEntry(c, WdsCb, x)'
        PROVE  c = wds' /\ WdsDone'
    BY <2>1, <1>1 DEF LessEntries, WdsEntry
  <2> QED BY <2>1 DEF WdsEntry
<1>7. \A u \in Threads : EntryOf(u)' BY <1>3, <1>4 DEF Others
<1> QED BY <1>5, <1>6, <1>7 DEF WaitInv, LessEntries

LEMMA DelFrame ==
  ASSUME TInv, TInv', Safe, NEW t \in Threads, OnlyMoves(t), Same(clients, clients'), lock' = lock,
         pc'[t] \notin {"notify", "up", "urbs"},
         \A u \in Others(t) : /\ del'[u].prev = del[u].prev /\ del'[u].this = del[u].this
                              /\ del'[u].next = del[u].next
  PROVE  DelInv'
<1>1. /\ clients \in Seq(ClientMem) /\ Len(clients) \in Nat /\ Len(clients') = Len(clients)
      /\ clients' \in Seq(ClientMem)
  BY DEF TInv, TypeOK, Same
<1>2. \A i \in 1..Len(clients) : RefOf(clients[i])' = RefOf(clients[i]) BY DEF Same, RefOf
<1>3. \A i : At(i)' = At(i) BY <1>1, <1>2 DEF At
<1>4. ASSUME NEW u \in Others(t) PROVE DelOf(u)'
  <2>1. DelOf(u) /\ pc'[u] = pc[u] /\ call'[u] = call[u] BY DEF Safe, DelInv, Others, OnlyMoves
  <2> QED BY <1>1, <1>2, <1>3, <2>1 DEF DelOf, Same
<1>5. DelOf(t)' BY DEF DelOf
<1> QED BY <1>4, <1>5 DEF DelInv, Others

LEMMA MemFrame ==
  ASSUME TInv, Safe, NEW t \in Threads, OnlyMoves(t), Same(clients, clients'),
         \A u \in Others(t) : mem'[u] = mem[u], MemOf(t)'
  PROVE  MemInv'
<1>1. Len(clients) \in Nat /\ Len(clients') = Len(clients) BY DEF TInv, TypeOK, Same
<1>2. \A i \in 1..Len(clients) : /\ RefOf(clients[i])' = RefOf(clients[i])
                                 /\ clients'[i].id = clients[i].id
  BY DEF Same, RefOf
<1>3. ASSUME NEW u \in Others(t) PROVE MemOf(u)'
  BY <1>1, <1>2 DEF Safe, MemInv, Others, OnlyMoves, MemOf
<1> QED BY <1>3 DEF MemInv, Others

-----------------------------------------------------------------------------

LEMMA GotoOn ==
  ASSUME TInv, NEW t \in Threads, NEW where \in Pcs \ {"idle", "named"}, Goto(t, where),
         UNCHANGED <<stage, call>>
  PROVE  On(t) /\ pc'[t] = where
BY DEF TInv, TypeOK, On, Goto, OnlyMoves, Others

LEMMA WriteFailedMoves ==
  ASSUME TInv, NEW t \in Threads, WriteFailed(t)
  PROVE  \/ On(t) /\ pc'[t] = "find" /\ call[t].op = "rel"
         \/ Back(t) /\ (t = SyncT => stage' = "done")
<1>1. "find" \in Pcs \ {"idle", "named"} BY DEF Pcs
<1>2. CASE call[t].op = "rel" BY <1>1, <1>2, GotoOn DEF WriteFailed
<1>3. CASE call[t].op # "rel" BY <1>3, ReturnEffect DEF WriteFailed, Back
<1> QED BY <1>2, <1>3

LEMMA WriteOkMoves ==
  ASSUME TInv, NEW t \in Threads, WriteOk(t)
  PROVE  \/ On(t) /\ pc'[t] = "asleep" /\ call[t].op = "ready"
         \/ On(t) /\ pc'[t] = "try" /\ call[t].op # "write"
         \/ Back(t) /\ call[t].op = "write"
<1>1. "asleep" \in Pcs \ {"idle", "named"} /\ "try" \in Pcs \ {"idle", "named"} BY DEF Pcs
<1>2. CASE call[t].op = "write" BY <1>2 DEF WriteOk, Back
<1>3. CASE call[t].op = "ready" BY <1>1, <1>3, GotoOn DEF WriteOk
<1>4. CASE call[t].op \notin {"write", "ready"} BY <1>1, <1>4, GotoOn DEF WriteOk
<1> QED BY <1>2, <1>3, <1>4

LEMMA ReadFailedMoves ==
  ASSUME TInv, NEW t \in Threads, ReadFailed(t)
  PROVE  /\ id' = id
         /\ \/ On(t) /\ pc'[t] = "find" /\ call[t].op = "rel"
            \/ Back(t)
BY GotoOn DEF Pcs, ReadFailed, Back

LEMMA ReadOkMoves ==
  ASSUME TInv, NEW t \in Threads, NEW m \in Msg, ReadOk(t, m)
  PROVE  \/ On(t) /\ pc'[t] = "insert" /\ call[t].op = "get"
         \/ On(t) /\ pc'[t] = "find" /\ call[t].op = "rel"
         \/ Back(t)
<1>1. "find" \in Pcs \ {"idle", "named"} BY DEF Pcs
<1>2. CASE call[t].op = "get" /\ m.id # NoId
  <2>1. pc' = [pc EXCEPT ![t] = "insert"] /\ call' = [call EXCEPT ![t].rid = m.id] /\ stage' = stage
    BY <1>2 DEF ReadOk, Goto
  <2>2. pc \in [Threads -> Pcs] /\ call \in [Threads -> CallSet] BY DEF TInv, TypeOK, CallSet
  <2>3. pc'[t] = "insert" /\ OnlyMoves(t) BY <2>1, <2>2 DEF OnlyMoves, Others
  <2>4. /\ call'[t].op = call[t].op /\ call'[t].cid = call[t].cid /\ call'[t].tid = call[t].tid
    BY <2>1, <2>2 DEF CallSet
  <2> QED BY <1>2, <2>1, <2>3, <2>4 DEF On
<1>3. CASE call[t].op = "get" /\ m.id = NoId BY <1>3 DEF ReadOk, Back
<1>4. CASE call[t].op = "rel" BY <1>1, <1>4, GotoOn DEF ReadOk
<1>5. CASE call[t].op \notin {"get", "rel"} BY <1>5 DEF ReadOk, Back
<1> QED BY <1>2, <1>3, <1>4, <1>5

LEMMA BackEffect ==
  ASSUME TInv, NEW t \in Threads, pc[t] # "idle", Back(t)
  PROVE  /\ OnlyMoves(t) /\ pc'[t] = "idle"
         /\ t # SyncT => call'[t] = NoCall /\ stage' = stage
         /\ t = SyncT => /\ stage' \in {"done", stage, StageAfter(call[t].op)}
                         /\ stage' = stage => call'[t] = call[t] /\ call[t].op # "get"
                         /\ stage' # stage => call'[t] = NoCall
                         /\ stage # "done"
<1>1. PICK ok \in BOOLEAN : Return(t, ok) /\ ~(ok /\ call[t].op = "get") BY DEF Back
<1>2. t = SyncT => stage # "done" BY DEF TInv, SyncInv
<1> QED BY <1>1, <1>2, ReturnEffect

\* The start-up, the owners of clients and the driver's clients, when a call goes
\* on or comes back.
LEMMA MoveFrame ==
  ASSUME TInv, Safe, NEW t \in Threads, pc[t] # "idle", On(t) \/ Back(t), id' = id,
         wds' = wds, Same(clients, clients')
  PROVE  /\ OnlyMoves(t) /\ OwnInv' /\ WdsInv' /\ StartInv' /\ ListInv'
         /\ WdsDone => WdsDone'
         /\ stage = "done" => stage' = "done"
         /\ t = SyncT => stage # "done"
<1>1. /\ OnlyMoves(t) /\ OwnOf(t) /\ ListInv' /\ WdsInv /\ StartInv
      /\ \A h, c : Has(h, c)' <=> Has(h, c)
  BY HasSame, BackEffect, ListFrame DEF On, Safe, OwnInv
<1>2. t = SyncT => stage # "done" /\ t \notin UserThreads BY ConstantFacts DEF TInv, SyncInv
<1>3. t # ExitT BY <1>1 DEF OwnOf
<1>4. OwnOf(t)'
  <2>1. CASE On(t) BY <1>1, <1>3, <2>1 DEF OwnOf, On
  <2>2. CASE Back(t)
    <3>1. CASE t # SyncT BY <1>3, <2>2, <3>1, BackEffect DEF OwnOf, NoCall
    <3>2. CASE t = SyncT BY <2>2, <3>2, BackEffect, <1>1, <1>2, <1>3 DEF OwnOf, NoCall
    <3> QED BY <3>1, <3>2
  <2> QED BY <2>1, <2>2
<1>5. OwnInv' BY <1>1, <1>4, OwnFrame
<1>6. CASE t # SyncT
  <2>1. stage' = stage /\ pc'[SyncT] = pc[SyncT] /\ call'[SyncT] = call[SyncT]
    BY <1>1, <1>6, BackEffect, ConstantFacts DEF On, OnlyMoves, Others
  <2>2. WdsInv' BY <1>1, <2>1 DEF WdsInv
  <2>3. ASSUME stage # "done" PROVE FALSE BY <1>3, <1>6, ConstantFacts, <1>1, <2>3 DEF StartInv
  <2>4. StartInv' BY <1>1, <2>1, <2>3 DEF StartInv
  <2> QED BY <1>1, <1>2, <1>5, <1>6, <2>1, <2>2, <2>4 DEF WdsDone
<1>7. CASE t = SyncT
  <2>1. \A f \in Files : pc'[Main(f)] = pc[Main(f)] /\ pc'[Reader(f)] = pc[Reader(f)]
    BY <1>1, <1>7, ConstantFacts DEF OnlyMoves, Others
  <2>2. CASE On(t) BY <1>1, <1>7, <2>2, <2>1, <1>2, <1>5 DEF WdsInv, On, StartInv, WdsDone
  <2>3. CASE Back(t)
    BY <1>7, <2>3, BackEffect, <1>1, <1>2, <2>1, <1>5 DEF StageAfter, StartInv, WdsInv, NoCall,
       WdsDone
  <2> QED BY <2>2, <2>3
<1> QED BY <1>6, <1>7

\* Waiting, too: who did not wait, or waits on, or gives up as QMIReady.
LEMMA MoveWaits ==
  ASSUME TInv, Safe, NEW t \in Threads, pc[t] # "idle", On(t) \/ Back(t), id' = id,
         wds' = wds, Same(clients, clients'), LessEntries,
         \A u \in Others(t) : woken'[u] = woken[u],
         cb'.pc = "up" => cb.pc = "up" /\ cb'.who \in {cb.who, Gone, NoThread},
         \/ ~Waiting(t) \/ woken[t]
         \/ /\ \A c \in Ids \union {CTL}, x \in 0..MaxTid : ~HasEntry(c, t, x)'
            /\ ~CbFor(t)'
         \/ On(t) /\ Waiting(t)' /\ ~woken'[t]
         \/ t = SyncT /\ stage' = "done" /\ call[t].cid = CTL
  PROVE  WaitInv'
BY MoveFrame, WaitFrame DEF Stays, On

\* Every step is safe: calls that begin.

LEMMA BeginSafe ==
  ASSUME TInv, TInv', Safe, NEW t \in UserThreads, pc[t] = "idle", pc'[t] \in {"add", "try", "find"},
         OnlyMoves(t), stage = "done",
         UNCHANGED <<valid, stage, wds, woken, cb, lock, del, mem, freedUrb>>,
         id'["driver"] = id["driver"],
         Same(clients, clients'), SameUrbs(clients, clients'), SameNotify(clients, clients'), OwnInv'
  PROVE  Safe'
<1>1. t \in Threads /\ t # SyncT /\ SyncT \in Others(t) BY ConstantFacts DEF Threads, Others
<1>2. LessUrbs /\ LessEntries /\ ListInv' BY SameLess, ListFrame
<1>3. UrbInv' BY <1>1, <1>2, UrbFrame DEF Safe, UrbInv
<1>4. WaitInv' BY <1>1, <1>2, WaitFrame DEF Waiting, Writing, Stays, WdsDone
<1>5. pc'[SyncT] = pc[SyncT] /\ call'[SyncT] = call[SyncT] BY <1>1 DEF OnlyMoves
<1>6. WdsInv' BY HasSame, <1>5 DEF Safe, WdsInv
<1>7. StartInv' BY <1>5 DEF Safe, StartInv
<1>8. DelInv' BY <1>1, DelFrame
<1>9. MemInv' BY <1>1, MemFrame DEF MemOf
<1> QED BY <1>2, <1>3, <1>4, <1>6, <1>7, <1>8, <1>9 DEF Safe

LEMMA Untouched ==
  ASSUME TInv, Safe, UNCHANGED <<valid, clients, id, pc, call, stage, wds, woken, lock, del,
                                 mem, freedUrb>>,
         cb' = cb \/ cb'.pc # "up"
  PROVE  Safe'
<1>1. \A h, c : Has(h, c)' <=> Has(h, c) BY DEF Has
<1>2. ListInv' /\ OwnInv' BY <1>1 DEF Safe, ListInv, OwnInv, OwnOf
<1>3. UrbInv' BY DEF Safe, UrbInv, OneUrb, UrbOf, HasUrb
<1>4. WaitInv'
  <2>1. \A c, t, x : HasEntry(c, t, x)' <=> HasEntry(c, t, x) BY DEF HasEntry
  <2>2. CbInv' /\ OneEntry' /\ WdsEntry'
    BY <2>1 DEF Safe, WaitInv, CbInv, OneEntry, Once, WdsEntry, WdsDone, Waiting
  <2>3. \A t \in Threads : EntryOf(t)' BY <2>1 DEF Safe, WaitInv, EntryOf, CbFor, Waiting
  <2> QED BY <2>2, <2>3 DEF WaitInv
<1>5. WdsInv' /\ StartInv' BY <1>1 DEF Safe, WdsInv, StartInv
<1>6. DelInv' /\ MemInv' BY DEF Safe, DelInv, DelOf, MemInv, MemOf, RefOf, At
<1> QED BY <1>2, <1>3, <1>4, <1>5, <1>6 DEF Safe

LEMMA GetServiceSafe ==
  ASSUME TInv, TInv', Safe, NEW f \in Files, GetService(f) \/ GetAgain(f)
  PROVE  Safe'
<1> DEFINE t == Main(f)
<1>1. /\ pc[t] = "idle" /\ id[f] = NoId /\ stage = "done" /\ valid
      /\ t \in Threads /\ t \in UserThreads /\ t # ExitT /\ t[1] = f
      /\ WDA \in Ids \union {NoId}
  BY ConstantFacts, ConstantsAssumption DEF GetService, GetAgain, Unserved, Safe
<1>2. UNCHANGED <<valid, stage, wds, woken, cb, lock, del, mem, freedUrb, id>>
  BY DEF GetService, GetAgain, deviceVars, syncVars, readVars, writeVars, fileVars
<1> PICK c \in Ids \union {NoId} : BeginCtl(t, "get", c) BY <1>1 DEF GetService, GetAgain
<1> HIDE DEF t
<1>3. /\ Same(clients, clients') /\ SameNotify(clients, clients') /\ SameUrbs(clients, clients')
      /\ OnlyMoves(t) /\ pc'[t] = "add"
      /\ call'[t] = [op |-> "get", cid |-> CTL, tid |-> NextTid, rid |-> c]
  BY <1>1, BeginCtlEffect
<1>4. OwnOf(t)' BY <1>1, <1>2, <1>3 DEF OwnOf
<1>5. OwnInv' BY <1>1, <1>2, <1>3, <1>4, OwnFrame
<1> QED BY <1>1, <1>2, <1>3, <1>5, BeginSafe

LEMMA BeginIoSafe ==
  ASSUME TInv, TInv', Safe, NEW t \in UserThreads, NEW op \in {"write", "read"}, BeginIo(t, op)
  PROVE  Safe'
<1>1. /\ pc[t] = "idle" /\ t[1] \in Files /\ id[t[1]] # NoId
      /\ t \in Threads /\ t # ExitT /\ t[1] \in Holders
  BY ConstantFacts DEF BeginIo, UserThreads, Threads
<1>2. stage = "done" BY <1>1 DEF Safe, StartInv
<1>3. UNCHANGED <<valid, stage, wds, woken, cb, lock, del, mem, freedUrb, id, clients>>
  BY DEF BeginIo, deviceVars, syncVars, readVars, writeVars, fileVars
<1>4. /\ OnlyMoves(t) /\ pc'[t] \in {"add", "try"}
      /\ call'[t] = [op |-> op, cid |-> id[t[1]], tid |-> 0, rid |-> NoId]
  BY <1>1 DEF BeginIo, Goto, TInv, TypeOK, OnlyMoves, Others
<1>5. Same(clients, clients') /\ SameNotify(clients, clients') /\ SameUrbs(clients, clients')
  BY <1>3 DEF Same, SameNotify, SameUrbs
<1>6. OwnOf(t)' BY <1>1, <1>3, <1>4 DEF OwnOf
<1>7. OwnInv' BY <1>1, <1>3, <1>4, <1>5, <1>6, OwnFrame
<1> QED BY <1>1, <1>2, <1>3, <1>4, <1>5, <1>7, BeginSafe

LEMMA UserspaceCloseSafe ==
  ASSUME TInv, TInv', Safe, ~dereg, NEW f \in Files, UserspaceClose(f)
  PROVE  Safe'
<1> DEFINE t == Main(f)
           c == id[f]
<1>1. /\ pc[t] = "idle" /\ pc[Reader(f)] = "idle" /\ stage = "done"
      /\ t \in Threads /\ t \in UserThreads /\ t # ExitT /\ t # SyncT /\ t[1] = f /\ f \in Holders
      /\ f # "driver" /\ Reader(f) \in Threads /\ Reader(f) \in UserThreads
      /\ c \in Ids \union {NoId} /\ id \in [Holders -> Ids \union {NoId}]
  BY ConstantFacts DEF UserspaceClose, TInv, TypeOK
<1>2. /\ UNCHANGED <<valid, stage, wds, woken, cb, lock, del, mem, freedUrb>>
      /\ id' = [id EXCEPT ![f] = NoId]
      /\ \/ UNCHANGED <<clients, call, pc>> /\ (c = NoId \/ dereg)
         \/ c # NoId /\ BeginCtl(t, "rel", c)
         \/ /\ c # NoId /\ call' = [call EXCEPT ![t] = [NoCall EXCEPT !.op = "rel", !.rid = c]]
            /\ Goto(t, "find") /\ UNCHANGED clients
  BY DEF UserspaceClose, AskRelease, deviceVars, syncVars, readVars, writeVars, Safe
<1>3. id'[f] = NoId /\ \A h \in Holders : h # f => id'[h] = id[h] BY <1>1, <1>2
<1>4. id'["driver"] = id["driver"] BY <1>1, <1>3 DEF Holders
<1>5. CASE c = NoId /\ UNCHANGED <<clients, call, pc>> BY <1>1, <1>2, <1>5, Untouched
<1>6. ASSUME c # NoId, Same(clients, clients'), SameNotify(clients, clients'),
             SameUrbs(clients, clients'), OnlyMoves(t), pc'[t] \in {"add", "find"},
             call'[t].op = "rel", call'[t].rid = c
      PROVE  Safe'
  <2> HIDE DEF t, c
  <2>1. \A h, d : Has(h, d)' <=> Has(h, d) BY <1>6, HasSame
  <2>2. Has(f, c) /\ c \in Ids BY <1>1, <1>6 DEF Safe, OwnInv, c
  <2>3. \A h \in Holders : id'[h] # NoId => Has(h, id[h])' BY <1>3, <2>1 DEF Safe, OwnInv
  <2>4. OwnOf(t)' BY <1>1, <1>6, <2>2, <2>1, <1>3 DEF OwnOf
  <2>5. ASSUME NEW u \in Others(t) PROVE OwnOf(u)'
    <3>1. /\ OwnOf(u) /\ CallInv(u) /\ pc'[u] = pc[u] /\ call'[u] = call[u] /\ u \in Threads
          /\ u[1] \in Holders
      BY <1>6, ConstantFacts DEF Safe, OwnInv, OnlyMoves, Others, TInv
    <3>2. CASE u[1] # f BY <1>3, <2>1, <3>1, <3>2 DEF OwnOf
    <3>3. CASE u[1] = f
      <4>1. u = Reader(f) BY <3>1, ConstantFacts, <3>3, <1>1 DEF SyncT, ExitT, Others, t
      <4>2. call[u] = NoCall /\ pc[u] = "idle" /\ u # ExitT
        BY <1>1, <3>1, <4>1, ConstantFacts DEF OwnOf
      <4> QED BY <3>1, <4>2 DEF OwnOf, NoCall
    <3> QED BY <3>2, <3>3
  <2>6. OwnInv' BY <2>3, <2>4, <2>5 DEF OwnInv, Others
  <2> QED BY <1>1, <1>2, <1>4, <1>6, <2>6, BeginSafe
<1>7. CASE c # NoId /\ BeginCtl(t, "rel", c)
  <2>1. /\ Same(clients, clients') /\ SameNotify(clients, clients')
        /\ SameUrbs(clients, clients') /\ OnlyMoves(t) /\ pc'[t] = "add"
        /\ call'[t] = [op |-> "rel", cid |-> CTL, tid |-> NextTid, rid |-> c]
    <3> HIDE DEF t, c
    <3> QED BY <1>1, <1>7, BeginCtlEffect
  <2> QED BY <1>6, <1>7, <2>1
<1>8. CASE /\ c # NoId /\ call' = [call EXCEPT ![t] = [NoCall EXCEPT !.op = "rel", !.rid = c]]
           /\ Goto(t, "find") /\ UNCHANGED clients
  <2>1. Same(clients, clients') /\ SameNotify(clients, clients') /\ SameUrbs(clients, clients')
    BY <1>8 DEF Same, SameNotify, SameUrbs
  <2>2. pc \in [Threads -> Pcs] /\ call \in [Threads -> CallSet] BY DEF TInv, TypeOK, CallSet
  <2>3. pc' = [pc EXCEPT ![t] = "find"] BY <1>8 DEF Goto
  <2>4. pc'[t] = "find" /\ call'[t] = [NoCall EXCEPT !.op = "rel", !.rid = c] /\ OnlyMoves(t)
    <3> HIDE DEF t, c
    <3> QED BY <1>1, <1>8, <2>2, <2>3 DEF OnlyMoves, Others
  <2>5. call'[t].op = "rel" /\ call'[t].rid = c BY <2>4 DEF NoCall
  <2> QED BY <1>6, <1>8, <2>1, <2>4, <2>5
<1> QED BY <1>2, <1>5, <1>7, <1>8

-----------------------------------------------------------------------------
\* Writes.

LEMMA MoveSafe ==
  ASSUME TInv, TInv', Safe, NEW t \in Threads, pc[t] # "idle", On(t) \/ Back(t),
         pc'[t] \notin {"notify", "up", "urbs"}, UNCHANGED <<valid, id, wds, lock>>,
         Same(clients, clients'),
         \A u \in Others(t) : /\ mem'[u] = mem[u]
                              /\ del'[u].prev = del[u].prev /\ del'[u].this = del[u].this
                              /\ del'[u].next = del[u].next,
         UrbInv', WaitInv', MemOf(t)'
  PROVE  Safe'
BY MoveFrame, DelFrame, MemFrame DEF Safe

\* Only QMIReady waits while it writes.
LEMMA WaitingWriter ==
  ASSUME TInv, NEW t \in Threads, pc[t] \in Writing, Waiting(t)
  PROVE  t = SyncT /\ call[t].op = "ready" /\ call[t].cid = CTL
BY DEF TInv, Waiting, Writing, CallInv, CtlOps, Releasing

LEMMA WriteAddSafe ==
  ASSUME TInv, TInv', Safe, NEW t \in Threads, WriteAdd(t)
  PROVE  Safe'
<1> DEFINE i == FindClientMem(clients, call[t].cid)
           u == [t |-> t, n |-> StillListed(t)]
           l == Append(clients[i].urbs, u)
<1>1. /\ pc[t] = "add" /\ clients \in Seq(ClientMem) /\ CallInv(t) /\ urb \in [Threads -> BOOLEAN]
      /\ freedUrb = {} /\ \A j \in 1..Len(clients) : clients[j] \in ClientMem
  BY ClientTypes DEF TInv, TypeOK, WriteAdd, Safe, UrbInv
<1>2. UNCHANGED <<valid, id, wds, lock, woken, cb, mem, del>>
  BY DEF WriteAdd, deviceVars, fileVars, readVars
<1>3. CASE /\ i # 0 /\ clients' = SetUrbs(clients, i, l)
           /\ freedUrb' = freedUrb \ {t} /\ Goto(t, "submit") /\ UNCHANGED <<stage, call>>
  <2>1. On(t) /\ pc'[t] = "submit" BY <1>3, GotoOn DEF Pcs
  <2>2. i \in 1..Len(clients) /\ clients[i].id = call[t].cid BY <1>1, <1>3, FindProperties
  <2>3. l \in Seq(Urb) /\ clients[i].urbs \in Seq(Urb)
        /\ Len(l) = Len(clients[i].urbs) + 1
        /\ \A k \in 1..Len(l) : l[k] = IF k <= Len(clients[i].urbs) THEN clients[i].urbs[k] ELSE u
    <3> HIDE DEF i
    <3>1. u \in Urb BY NewUrb
    <3>2. clients[i].urbs \in Seq(Urb) BY <1>1, <2>2 DEF ClientMem
    <3> HIDE DEF u
    <3> QED BY <3>1, <3>2, AppendProperties
  <2> HIDE DEF i, l
  <2>4. /\ Same(clients, clients') /\ SameNotify(clients, clients')
        /\ \A j \in 1..Len(clients) : clients'[j].urbs = IF j = i THEN l ELSE clients[j].urbs
    <3>1. i \in 0..Len(clients) BY <2>2
    <3>2. Same(clients, clients') /\ SameNotify(clients, clients')
      BY <1>1, <1>3, <2>3, <3>1, SetFieldSame
    <3>3. \A j \in 1..Len(clients) :
             clients'[j] = IF j = i THEN [clients[j] EXCEPT !.urbs = l] ELSE clients[j]
      <4>1. clients \in Seq(ClientMem) /\ l \in Seq(Urb) /\ clients' = SetUrbs(clients, i, l)
        BY <1>1, <1>3, <2>3
      <4> QED BY <3>1, <4>1, SetUrbsProperties
    <3> QED BY <1>1, <3>2, <3>3 DEF ClientMem
  <2>5. LessEntries BY <2>4, SameLess
  <2>6. freedUrb' = {} /\ OnlyMoves(t) BY <1>1, <1>3, <2>1 DEF On
  <2>7. UrbInv'
    <3>1. Len(clients') = Len(clients) /\ Len(clients) \in Nat
          /\ \A j \in 1..Len(clients) : clients'[j].id = clients[j].id
      BY <1>1, <2>4 DEF Same
    <3>2. CASE call[t].cid = CTL
      <4>1. LessUrbs
        <5>1. OneUrb' BY <2>2, <2>4, <3>1, <3>2 DEF OneUrb, Safe, UrbInv
        <5>2. \A c \in Ids, v \in Threads : HasUrb(c, v)' => HasUrb(c, v)
          BY <2>2, <2>4, <3>1, <3>2, ConstantFacts DEF HasUrb
        <5> QED BY <5>1, <5>2 DEF LessUrbs
      <4> QED BY <1>1, <2>6, <4>1, UrbFrame
    <3>3. CASE call[t].cid # CTL
      <4>1. call[t].op = "write" /\ call[t].cid \in Ids
        BY <1>1, <3>3, OwnClient DEF Releasing, CallInv, Writing, CtlOps
      <4>2. clients[i].urbs = <<>>
        <5>1. SUFFICES ASSUME clients[i].urbs # <<>> PROVE FALSE OBVIOUS
        <5> DEFINE v == clients[i].urbs[1].t
        <5>2. 1 \in 1..Len(clients[i].urbs) /\ v \in Threads
          <6>1. Len(clients[i].urbs) > 0 /\ clients[i].urbs[1] \in Urb
            BY <2>3, <5>1, TailProperties
          <6> QED BY <2>3, <6>1 DEF Urb
        <5>3. HasUrb(call[t].cid, v) BY <2>2, <5>2 DEF HasUrb
        <5> HIDE DEF v
        <5>4. UrbOf(v) BY <5>2 DEF Safe, UrbInv
        <5>5. pc[v] \in {"submit", "written"} /\ call[v].op = "write" /\ call[v].cid = call[t].cid
          BY <4>1, <5>3, <5>4 DEF UrbOf
        <5>6. v = t BY <4>1, <5>2, <5>5, WritersApart
        <5> QED BY <1>1, <5>5, <5>6
      <4>3. Len(l) = 1 /\ l[1] = u BY <2>3, <4>2
      <4>4. OneUrb'
        <5>1. ASSUME NEW j \in 1..Len(clients), clients[j].id # CTL
              PROVE  Len(clients'[j].urbs) <= 1
          <6>1. Len(clients[j].urbs) <= 1 BY <5>1 DEF OneUrb, Safe, UrbInv
          <6>2. clients'[j].urbs = IF j = i THEN l ELSE clients[j].urbs BY <2>4
          <6>3. Len(l) = 1 BY <4>3
          <6>4. clients'[j].urbs = l \/ clients'[j].urbs = clients[j].urbs BY <6>2
          <6>5. Len(clients'[j].urbs) = Len(l) \/ Len(clients'[j].urbs) = Len(clients[j].urbs)
            BY <6>4
          <6>6. Len(clients[j].urbs) \in Nat BY <1>1 DEF ClientMem
          <6>7. CASE Len(clients'[j].urbs) = Len(l) BY <6>3, <6>7
          <6>8. CASE Len(clients'[j].urbs) = Len(clients[j].urbs) BY <6>1, <6>6, <6>8
          <6> QED BY <6>5, <6>7, <6>8
        <5> QED BY <3>1, <5>1 DEF OneUrb
      <4>5. ASSUME NEW c \in Ids, NEW v \in Threads, HasUrb(c, v)'
            PROVE  HasUrb(c, v) \/ (v = t /\ c = call[t].cid)
        <5>1. PICK j \in 1..Len(clients) : /\ clients[j].id = c
                 /\ \E k \in 1..Len(clients'[j].urbs) : clients'[j].urbs[k].t = v
          BY <3>1, <4>5 DEF HasUrb
        <5>2. CASE j = i BY <2>2, <2>4, <4>3, <5>1, <5>2
        <5>3. CASE j # i BY <2>4, <5>1, <5>3 DEF HasUrb
        <5> QED BY <5>2, <5>3
      <4>6. ASSUME NEW c \in Ids, NEW v \in Threads, HasUrb(c, v)'
            PROVE  pc'[v] \in {"submit", "written"} /\ call'[v].op = "write" /\ call'[v].cid = c
        <5>1. CASE v = t
          <6>1. c = call[t].cid BY <1>1, <4>5, <4>6, <5>1 DEF Safe, UrbInv, UrbOf
          <6> QED BY <2>1, <4>1, <5>1, <6>1 DEF On
        <5>2. CASE v # t BY <4>5, <4>6, <5>2, <2>6 DEF Safe, UrbInv, UrbOf, OnlyMoves, Others
        <5> QED BY <5>1, <5>2
      <4> QED BY <2>6, <4>4, <4>6 DEF UrbInv, UrbOf
    <3> QED BY <3>2, <3>3
  <2>8. WaitInv'
    BY <1>1, <2>1, WaitingWriter, <1>2, <2>4, <2>5, MoveWaits DEF Waiting, Writing, On
  <2>9. MemOf(t)' BY <2>1 DEF MemOf
  <2> QED BY <1>1, <1>2, <2>1, <2>4, <2>7, <2>8, <2>9, MoveSafe
<1>4. CASE WriteFailed(t) /\ UNCHANGED <<clients, freedUrb>>
  <2>1. \/ On(t) /\ pc'[t] = "find" /\ call[t].op = "rel"
        \/ Back(t) /\ (t = SyncT => stage' = "done")
    BY <1>4, WriteFailedMoves
  <2>2. pc'[t] \in {"find", "idle"} /\ OnlyMoves(t) BY <1>1, <2>1, BackEffect DEF On
  <2>3. Same(clients, clients') /\ SameUrbs(clients, clients') /\ SameNotify(clients, clients')
    BY <1>4 DEF Same, SameUrbs, SameNotify
  <2>4. LessEntries /\ LessUrbs BY <2>3, SameLess
  <2>5. UrbInv' BY <1>1, <1>4, <2>2, <2>4, UrbFrame
  <2>6. WaitInv' BY <1>1, <2>1, WaitingWriter, <1>2, <2>3, <2>4, MoveWaits DEF Writing
  <2>7. MemOf(t)' BY <2>2 DEF MemOf
  <2> QED BY <1>1, <1>2, <2>1, <2>2, <2>3, <2>5, <2>6, <2>7, MoveSafe
<1> QED BY <1>3, <1>4 DEF WriteAdd

LEMMA WriteSubmitSafe ==
  ASSUME TInv, TInv', Safe, NEW t \in Threads, WriteSubmit(t)
  PROVE  Safe'
<1>1. pc[t] = "submit" /\ freedUrb = {} BY DEF WriteSubmit, Safe, UrbInv
<1>2. UNCHANGED <<valid, id, wds, lock, woken, cb, mem, del, freedUrb>>
  BY DEF WriteSubmit, deviceVars, fileVars, readVars
<1>3. CASE Goto(t, "written") /\ UNCHANGED <<stage, call, clients>>
  <2>1. On(t) /\ pc'[t] = "written" BY <1>3, GotoOn DEF Pcs
  <2>2. Same(clients, clients') /\ SameUrbs(clients, clients') /\ SameNotify(clients, clients')
    BY <1>3 DEF Same, SameUrbs, SameNotify
  <2>3. LessEntries /\ LessUrbs BY <2>2, SameLess
  <2>4. UrbInv' BY <1>1, <1>2, <2>1, <2>3, UrbFrame DEF On
  <2>5. WaitInv'
    BY <1>1, <2>1, WaitingWriter, <1>2, <2>2, <2>3, MoveWaits DEF Waiting, Writing, On
  <2>6. MemOf(t)' BY <2>1 DEF MemOf
  <2> QED BY <1>1, <1>2, <2>1, <2>2, <2>4, <2>5, <2>6, MoveSafe
<1>4. CASE PopFromURBList(t) /\ WriteFailed(t)
  <2>1. \/ On(t) /\ pc'[t] = "find" /\ call[t].op = "rel"
        \/ Back(t) /\ (t = SyncT => stage' = "done")
    BY <1>4, WriteFailedMoves
  <2>2. pc'[t] \in {"find", "idle"} /\ OnlyMoves(t) BY <1>1, <2>1, BackEffect DEF On
  <2>3. Same(clients, clients') /\ SameNotify(clients, clients') BY <1>4, PopUrb
  <2>4. LessEntries /\ LessUrbs /\ \A c \in Ids : ~HasUrb(c, t)'
    BY <1>1, <1>4, <2>3, SameLess, UrbPop
  <2>5. UrbInv' BY <1>1, <1>2, <2>2, <2>4, UrbFrame
  <2>6. WaitInv' BY <1>1, <2>1, WaitingWriter, <1>2, <2>3, <2>4, MoveWaits DEF Writing
  <2>7. MemOf(t)' BY <2>2 DEF MemOf
  <2> QED BY <1>1, <1>2, <2>1, <2>2, <2>3, <2>5, <2>6, <2>7, MoveSafe
<1> QED BY <1>3, <1>4 DEF WriteSubmit

LEMMA WriteWakeSafe ==
  ASSUME TInv, TInv', Safe, NEW t \in Threads, WriteWake(t)
  PROVE  Safe'
<1>1. /\ pc[t] = "written" /\ freedUrb = {} /\ freedUrb' = {} /\ PopFromURBList(t)
      /\ WriteOk(t) \/ WriteFailed(t)
  BY DEF WriteWake, Safe, UrbInv
<1>2. UNCHANGED <<valid, id, wds, lock, woken, cb, mem, del>>
  BY DEF WriteWake, deviceVars, fileVars, readVars
<1>3. \/ On(t) /\ pc'[t] = "find" /\ call[t].op = "rel"
      \/ On(t) /\ pc'[t] = "asleep" /\ call[t].op = "ready"
      \/ On(t) /\ pc'[t] = "try" /\ call[t].op # "write" /\ call[t].op # "ready"
      \/ Back(t) /\ (call[t].op = "write" \/ (t = SyncT => stage' = "done"))
  <2>1. call[t].op = "ready" /\ WriteOk(t) => On(t) /\ pc'[t] = "asleep"
    BY GotoOn DEF Pcs, WriteOk
  <2> QED BY <1>1, <2>1, WriteFailedMoves, WriteOkMoves
<1>4. pc'[t] \in {"find", "idle", "asleep", "try"} /\ OnlyMoves(t)
  BY <1>1, <1>3, BackEffect DEF On
<1>5. Same(clients, clients') /\ SameNotify(clients, clients') BY <1>1, PopUrb
<1>6. LessEntries /\ LessUrbs /\ \A c \in Ids : ~HasUrb(c, t)' BY <1>1, <1>5, SameLess, UrbPop
<1>7. UrbInv' BY <1>1, <1>4, <1>6, UrbFrame
<1>8. WaitInv' BY <1>1, WaitingWriter, <1>3, <1>2, <1>5, <1>6, MoveWaits DEF Writing, Waiting
<1>9. MemOf(t)' BY <1>3, <1>4, BackEffect, <1>1 DEF MemOf, On
<1> QED BY <1>1, <1>2, <1>3, <1>4, <1>5, <1>7, <1>8, <1>9, MoveSafe

LEMMA WriteSyncCallbackSafe ==
  ASSUME TInv, TInv', Safe, WriteSyncCallback
  PROVE  Safe'
BY Untouched DEF WriteSyncCallback, deviceVars, syncVars, fileVars, readVars

\* Entries that come and go.

LEMMA AppendEntry ==
  ASSUME TInv, Safe, NEW i \in 1..Len(clients), NEW w \in Waiter, Same(clients, clients'),
         \A j \in 1..Len(clients) :
            clients'[j].notify = IF j = i THEN Append(clients[i].notify, w) ELSE clients[j].notify,
         w.t = WdsCb \/ \A x \in 0..MaxTid : ~HasEntry(clients[i].id, w.t, x)
  PROVE  /\ OneEntry'
         /\ \A c, u, x : HasEntry(c, u, x)' =>
              HasEntry(c, u, x) \/ (c = clients[i].id /\ u = w.t /\ x = w.tid)
<1> DEFINE s == clients[i].notify
           l == Append(s, w)
<1>1. s \in Seq(Waiter)
  <2>1. clients[i] \in ClientMem BY DEF TInv, TypeOK
  <2> QED BY <2>1 DEF ClientMem
<1>2. /\ Len(s) \in Nat /\ Len(l) = Len(s) + 1
      /\ \A k \in 1..Len(l) : l[k] = IF k <= Len(s) THEN s[k] ELSE w
  <2> HIDE DEF s
  <2> QED BY <1>1, AppendProperties
<1>3. /\ Len(clients') = Len(clients) /\ Len(clients) \in Nat
      /\ \A j \in 1..Len(clients) :
           /\ clients'[j].id = clients[j].id
           /\ clients'[j].notify = IF j = i THEN l ELSE clients[j].notify
  <2>1. Len(clients) \in Nat BY DEF TInv, TypeOK
  <2>2. \A j \in 1..Len(clients) : clients'[j].notify = IF j = i THEN l ELSE clients[j].notify
    OBVIOUS
  <2> HIDE DEF l
  <2> QED BY <2>1, <2>2 DEF Same
<1>4. Once(s) /\ \A j \in 1..Len(clients) : Once(clients[j].notify)
  BY DEF Safe, WaitInv, OneEntry
<1>5. w.t # WdsCb => \A k \in 1..Len(s) : s[k].t # w.t
  <2>1. SUFFICES ASSUME w.t # WdsCb, NEW k \in 1..Len(s), s[k].t = w.t PROVE FALSE OBVIOUS
  <2>2. HasEntry(clients[i].id, w.t, s[k].tid) BY <2>1 DEF HasEntry
  <2>3. s[k] \in Waiter BY <1>1
  <2>4. s[k].tid \in 0..MaxTid BY <2>3 DEF Waiter
  <2> QED BY <2>1, <2>2, <2>4
<1> HIDE DEF s, l
<1>6. Once(l)
  <2>1. SUFFICES ASSUME NEW j \in 1..Len(l), NEW k \in 1..Len(l), l[j].t = l[k].t, l[j].t # WdsCb
                 PROVE  j = k
    BY DEF Once
  <2>2. CASE j <= Len(s) /\ k <= Len(s) BY <1>2, <2>2, <1>4, <2>1 DEF Once
  <2>3. CASE j <= Len(s) /\ ~(k <= Len(s)) BY <1>2, <2>3, <1>5, <2>1
  <2>4. CASE ~(j <= Len(s)) /\ k <= Len(s) BY <1>2, <2>4, <1>5, <2>1
  <2>5. CASE ~(j <= Len(s)) /\ ~(k <= Len(s)) BY <1>2, <2>5
  <2> QED BY <2>2, <2>3, <2>4, <2>5
<1>7. OneEntry'
  <2>1. \A j \in 1..Len(clients) : Once(clients'[j].notify)
    <3>1. ASSUME NEW j \in 1..Len(clients) PROVE Once(clients'[j].notify)
      <4>1. CASE j = i BY <1>3, <4>1, <1>6
      <4>2. CASE j # i BY <1>3, <4>2, <1>4
      <4> QED BY <4>1, <4>2
    <3> QED BY <3>1
  <2> QED BY <1>3, <2>1 DEF OneEntry, Once
<1>8. ASSUME NEW c, NEW u, NEW x, HasEntry(c, u, x)'
      PROVE  HasEntry(c, u, x) \/ (c = clients[i].id /\ u = w.t /\ x = w.tid)
  <2>1. PICK j \in 1..Len(clients) : /\ clients[j].id = c
           /\ \E k \in 1..Len(clients'[j].notify) :
                 clients'[j].notify[k].t = u /\ clients'[j].notify[k].tid = x
    BY <1>3, <1>8 DEF HasEntry
  <2>2. CASE j # i BY <1>3, <2>1, <2>2 DEF HasEntry
  <2>3. CASE j = i
    <3>1. PICK k \in 1..Len(l) : l[k].t = u /\ l[k].tid = x BY <1>3, <2>1, <2>3
    <3>2. CASE k <= Len(s)
      <4>1. k \in 1..Len(s) /\ s[k].t = u /\ s[k].tid = x BY <1>2, <3>1, <3>2
      <4> QED BY <2>1, <2>3, <4>1 DEF HasEntry, s
    <3>3. CASE ~(k <= Len(s)) BY <1>2, <2>1, <2>3, <3>1, <3>3
    <3> QED BY <3>2, <3>3
  <2> QED BY <2>2, <2>3
<1> QED BY <1>7, <1>8

LEMMA RemoveEntry ==
  ASSUME TInv, Safe, NEW i \in 1..Len(clients), NEW k \in 1..Len(clients[i].notify),
         Same(clients, clients'),
         \A j \in 1..Len(clients) :
            clients'[j].notify = IF j = i THEN RemoveAt(clients[i].notify, k) ELSE clients[j].notify
  PROVE  /\ LessEntries
         /\ \A c, u, x : HasEntry(c, u, x)' =>
              c # clients[i].id \/ u # clients[i].notify[k].t \/ u = WdsCb
<1> DEFINE s == clients[i].notify
           l == RemoveAt(s, k)
<1>1. s \in Seq(Waiter)
  <2>1. clients[i] \in ClientMem BY DEF TInv, TypeOK
  <2> QED BY <2>1 DEF ClientMem
<1>2. /\ Len(s) \in Nat /\ Len(l) = Len(s) - 1 /\ k \in 1..Len(s)
      /\ \A j \in 1..(Len(s) - 1) : l[j] = IF j < k THEN s[j] ELSE s[j + 1]
  <2>1. k \in 1..Len(s) OBVIOUS
  <2> HIDE DEF s
  <2> QED BY <1>1, <2>1, RemoveAtProperties
<1>3. /\ Len(clients') = Len(clients) /\ Len(clients) \in Nat
      /\ \A j \in 1..Len(clients) :
           /\ clients'[j].id = clients[j].id
           /\ clients'[j].notify = IF j = i THEN l ELSE clients[j].notify
  <2>1. Len(clients) \in Nat BY DEF TInv, TypeOK
  <2>2. \A j \in 1..Len(clients) : clients'[j].notify = IF j = i THEN l ELSE clients[j].notify
    OBVIOUS
  <2> HIDE DEF l
  <2> QED BY <2>1, <2>2 DEF Same
<1>4. Once(s) /\ ListInv /\ \A j \in 1..Len(clients) : Once(clients[j].notify)
  BY DEF Safe, WaitInv, OneEntry
<1>5. s[k] = clients[i].notify[k] OBVIOUS
<1> HIDE DEF s, l
<1>6. \A j \in 1..Len(l) : \E m \in 1..Len(s) : m # k /\ l[j] = s[m] /\ m = IF j < k THEN j ELSE j + 1
  BY <1>2
<1>7. Once(l)
  <2>1. SUFFICES ASSUME NEW j \in 1..Len(l), NEW h \in 1..Len(l), l[j].t = l[h].t, l[j].t # WdsCb
                 PROVE  j = h
    BY DEF Once
  <2>2. PICK m \in 1..Len(s) : l[j] = s[m] /\ m = IF j < k THEN j ELSE j + 1 BY <1>6
  <2>3. PICK n \in 1..Len(s) : l[h] = s[n] /\ n = IF h < k THEN h ELSE h + 1 BY <1>6
  <2>4. m = n BY <1>4, <2>1, <2>2, <2>3 DEF Once
  <2> QED BY <1>2, <2>2, <2>3, <2>4
<1>8. OneEntry'
  <2>1. ASSUME NEW j \in 1..Len(clients) PROVE Once(clients'[j].notify) BY <1>3, <1>4, <1>7
  <2> QED BY <1>3, <2>1 DEF OneEntry, Once
<1>9. ASSUME NEW c, NEW u, NEW x, HasEntry(c, u, x)'
      PROVE  /\ HasEntry(c, u, x)
             /\ c # clients[i].id \/ u # s[k].t \/ u = WdsCb
  <2>1. PICK j \in 1..Len(clients) : /\ clients[j].id = c
           /\ \E h \in 1..Len(clients'[j].notify) :
                 clients'[j].notify[h].t = u /\ clients'[j].notify[h].tid = x
    BY <1>3, <1>9 DEF HasEntry
  <2>2. CASE j # i
    <3>1. HasEntry(c, u, x) BY <1>3, <2>1, <2>2 DEF HasEntry
    <3>2. c # clients[i].id BY <1>4, <2>1, <2>2 DEF ListInv
    <3> QED BY <3>1, <3>2
  <2>3. CASE j = i
    <3>1. PICK h \in 1..Len(l) : l[h].t = u /\ l[h].tid = x BY <1>3, <2>1, <2>3
    <3>2. PICK m \in 1..Len(s) : m # k /\ l[h] = s[m] BY <1>6
    <3>3. HasEntry(c, u, x) BY <2>1, <2>3, <3>1, <3>2 DEF HasEntry, s
    <3>4. u # s[k].t \/ u = WdsCb BY <1>2, <1>4, <3>1, <3>2 DEF Once
    <3> QED BY <3>3, <3>4
  <2> QED BY <2>2, <2>3
<1>10. LessEntries BY <1>8, <1>9 DEF LessEntries
<1> QED BY <1>5, <1>9, <1>10

LEMMA EntryAdded ==
  ASSUME TInv, Safe, NEW t \in Threads, OnlyMoves(t), NEW i \in 1..Len(clients),
         NEW x \in 0..MaxTid, Same(clients, clients'),
         \A j \in 1..Len(clients) :
            clients'[j].notify = IF j = i THEN Append(clients[i].notify, [tid |-> x, t |-> t])
                                 ELSE clients[j].notify,
         ~Waiting(t) \/ woken[t], ~(t = SyncT /\ stage = "done"),
         \A u \in Others(t) : woken'[u] = woken[u], UNCHANGED <<cb, stage, wds>>,
         Waiting(t)', call'[t].cid = clients[i].id, call'[t].tid = x, ~woken'[t]
  PROVE  WaitInv'
<1> DEFINE w == [tid |-> x, t |-> t]
<1>1. CbInv /\ WdsEntry /\ EntryOf(t) /\ clients[i] \in ClientMem
  BY DEF Safe, WaitInv, TInv, TypeOK
<1>2. clients[i].id \in Ids \union {CTL} BY <1>1 DEF ClientMem
<1>3. \A c \in Ids \union {CTL}, y \in 0..MaxTid : ~HasEntry(c, t, y) BY <1>1 DEF EntryOf
<1>4. w \in Waiter /\ w.t = t /\ w.tid = x BY DEF Waiter
<1> HIDE DEF w
<1>5. \A y \in 0..MaxTid : ~HasEntry(clients[i].id, w.t, y) BY <1>2, <1>3, <1>4
<1>6. \A j \in 1..Len(clients) :
        clients'[j].notify = IF j = i THEN Append(clients[i].notify, w) ELSE clients[j].notify
  BY DEF w
<1>7. /\ OneEntry'
      /\ \A c, u, y : HasEntry(c, u, y)' =>
           HasEntry(c, u, y) \/ (c = clients[i].id /\ u = w.t /\ y = w.tid)
  BY <1>4, <1>5, <1>6, AppendEntry
<1>8. ~CbFor(t) BY <1>1 DEF CbInv, CbFor
<1>9. CbInv' BY <1>8, <1>1 DEF CbFor, Others, CbInv, WdsDone, Waiting, OnlyMoves
<1>10. WdsEntry' BY <1>4, <1>7, ConstantFacts, <1>1 DEF WdsEntry, WdsDone
<1>11. ASSUME NEW u \in Others(t) PROVE EntryOf(u)' BY <1>4, <1>7, EntryFrame DEF Others, CbFor
<1>12. EntryOf(t)'
  <2>1. ASSUME NEW c \in Ids \union {CTL}, NEW y \in 0..MaxTid, HasEntry(c, t, y)'
        PROVE  Waiting(t)' /\ call'[t].cid = c /\ call'[t].tid = y /\ ~woken'[t] /\ ~CbFor(t)'
    BY <1>3, <1>4, <1>7, <2>1, <1>8 DEF CbFor
  <2> QED BY <2>1 DEF EntryOf
<1> QED BY <1>7, <1>9, <1>10, <1>11, <1>12 DEF WaitInv, Others

-----------------------------------------------------------------------------
\* Reads.

LEMMA ReadTrySafe ==
  ASSUME TInv, TInv', Safe, NEW t \in Threads, ReadTry(t)
  PROVE  Safe'
<1> DEFINE i == FindClientMem(clients, call[t].cid)
           k == FirstMessage(clients[i].list, call[t].tid)
           w == [tid |-> call[t].tid, t |-> t]
           l == Append(clients[i].notify, w)
<1>1. /\ pc[t] = "try" /\ freedUrb = {} /\ freedUrb' = {} /\ CallInv(t)
      /\ UNCHANGED <<valid, wds, lock, cb, del>>
  BY DEF TInv, ReadTry, Safe, UrbInv, deviceVars, writeVars
<1>2. ~Waiting(t) /\ call[t].op # "ready" BY <1>1 DEF Waiting, Writing, CallInv
<1>3. \/ ReadFailed(t) /\ UNCHANGED <<clients, readVars>>
      \/ /\ clients[i].list[k] \in Msg /\ ReadOk(t, clients[i].list[k]) /\ UNCHANGED <<readVars, id>>
         /\ Same(clients, clients') /\ SameNotify(clients, clients') /\ SameUrbs(clients, clients')
      \/ /\ i \in 1..Len(clients) /\ clients' = SetNotify(clients, i, l) /\ l \in Seq(Waiter)
         /\ Same(clients, clients') /\ SameUrbs(clients, clients')
         /\ woken' = [woken EXCEPT ![t] = FALSE] /\ mem' = [mem EXCEPT ![t] = RefOf(clients[i])]
         /\ Goto(t, "asleep") /\ UNCHANGED <<stage, call, id>>
  BY ReadTryClients
<1>4. ASSUME (On(t) /\ pc'[t] \in {"find", "insert"}) \/ Back(t), id' = id, UNCHANGED readVars,
             Same(clients, clients'), SameNotify(clients, clients'), SameUrbs(clients, clients')
      PROVE  Safe'
  BY <1>1, <1>4, BackEffect, SameLess, UrbFrame, <1>2, MoveWaits, MoveSafe DEF On, readVars,
     MemOf
<1>5. CASE ReadFailed(t) /\ UNCHANGED <<clients, readVars>>
  BY <1>5, <1>4, ReadFailedMoves DEF Same, SameUrbs, SameNotify
<1>6. CASE /\ clients[i].list[k] \in Msg /\ ReadOk(t, clients[i].list[k]) /\ UNCHANGED <<readVars, id>>
           /\ Same(clients, clients') /\ SameNotify(clients, clients') /\ SameUrbs(clients, clients')
  <2> HIDE DEF i, k
  <2>1. (On(t) /\ pc'[t] \in {"find", "insert"}) \/ Back(t) BY <1>6, ReadOkMoves
  <2> QED BY <1>4, <1>6, <2>1
<1>7. CASE /\ i \in 1..Len(clients) /\ clients' = SetNotify(clients, i, l) /\ l \in Seq(Waiter)
           /\ Same(clients, clients') /\ SameUrbs(clients, clients')
           /\ woken' = [woken EXCEPT ![t] = FALSE] /\ mem' = [mem EXCEPT ![t] = RefOf(clients[i])]
           /\ Goto(t, "asleep") /\ UNCHANGED <<stage, call, id>>
  <2>1. On(t) /\ pc'[t] = "asleep" /\ OnlyMoves(t) BY <1>7, GotoOn DEF Pcs, On
  <2>2. /\ clients \in Seq(ClientMem) /\ clients[i].id = call[t].cid /\ i \in 0..Len(clients)
        /\ \A j \in 1..Len(clients) : clients[j] \in ClientMem
        /\ woken \in [Threads -> BOOLEAN] /\ mem \in [Threads -> Ref] /\ call[t] \in CallSet
        /\ call[t].tid \in 0..MaxTid
    <3>1. call \in [Threads -> CallSet] /\ woken \in [Threads -> BOOLEAN] /\ mem \in [Threads -> Ref]
      BY DEF TInv, TypeOK, CallSet
    <3>2. call[t] \in CallSet BY <3>1
    <3>3. call[t].tid \in 0..MaxTid BY <3>2 DEF CallSet
    <3>4. i # 0 /\ i \in 0..Len(clients) BY <1>7
    <3>5. clients[i].id = call[t].cid BY <3>4, ClientTypes, FindProperties
    <3> QED BY <3>1, <3>2, <3>3, <3>4, <3>5, ClientTypes
  <2> HIDE DEF i, l
  <2>3. \A j \in 1..Len(clients) : clients'[j].notify = IF j = i THEN l ELSE clients[j].notify
    <3>1. \A j \in 1..Len(clients) :
             clients'[j] = IF j = i THEN [clients[j] EXCEPT !.notify = l] ELSE clients[j]
      BY <1>7, <2>2, SetNotifyProperties
    <3> QED BY <2>2, <3>1 DEF ClientMem
  <2>4. /\ woken'[t] = FALSE /\ mem'[t] = RefOf(clients[i])
        /\ \A u \in Others(t) : woken'[u] = woken[u] /\ mem'[u] = mem[u]
    BY <1>7, <2>2 DEF Others
  <2>5. LessUrbs BY <1>7, SameLess
  <2>6. UrbInv' BY <1>1, <2>1, <2>5, UrbFrame
  <2>7. WaitInv'
    <3>1. \A j \in 1..Len(clients) :
             clients'[j].notify = IF j = i THEN Append(clients[i].notify, [tid |-> call[t].tid, t |-> t])
                                  ELSE clients[j].notify
      BY <2>3 DEF l
    <3>2. ~(t = SyncT /\ stage = "done") BY <1>1 DEF TInv, SyncInv
    <3>3. Waiting(t)' /\ call'[t].cid = clients[i].id /\ call'[t].tid = call[t].tid
      BY <2>1, <2>2 DEF Waiting, On
    <3>4. UNCHANGED <<cb, stage, wds>> BY <1>1, <1>7
    <3>5. i \in 1..Len(clients) /\ Same(clients, clients') BY <1>7
    <3> HIDE DEF w
    <3> QED BY <1>2, <2>1, <2>2, <2>4, <3>1, <3>2, <3>3, <3>4, <3>5, EntryAdded
  <2>8. MemOf(t)' BY <1>7, <2>1, <2>2, <2>4 DEF Same, RefOf, On, MemOf
  <2> QED BY <1>1, <1>7, <2>1, <2>4, <2>6, <2>7, <2>8, MoveSafe
<1> QED BY <1>3, <1>5, <1>6, <1>7

LEMMA ReadWakeSafe ==
  ASSUME TInv, TInv', Safe, NEW t \in Threads, ReadWake(t)
  PROVE  Safe'
<1>1. /\ pc[t] = "asleep" /\ woken[t] /\ freedUrb = {} /\ freedUrb' = {}
      /\ UNCHANGED <<valid, id, stage, call, wds, lock, cb, del, clients>> /\ Goto(t, "try") /\ Awake(t)
  BY DEF ReadWake, Safe, UrbInv, deviceVars, writeVars
<1>2. On(t) /\ pc'[t] = "try" /\ OnlyMoves(t) BY <1>1, GotoOn DEF Pcs, On
<1>3. \A u \in Others(t) : woken'[u] = woken[u] /\ mem'[u] = mem[u]
  BY <1>1 DEF Awake, Others, TInv, TypeOK
<1>4. Same(clients, clients') /\ SameUrbs(clients, clients') /\ SameNotify(clients, clients')
  BY <1>1 DEF Same, SameUrbs, SameNotify
<1>5. LessEntries /\ LessUrbs BY <1>4, SameLess
<1>6. UrbInv' BY <1>1, <1>2, <1>5, UrbFrame
<1>7. WaitInv' BY <1>1, <1>2, <1>3, <1>4, <1>5, MoveWaits
<1>8. MemOf(t)' BY <1>2 DEF MemOf
<1> QED BY <1>1, <1>2, <1>3, <1>4, <1>6, <1>7, <1>8, MoveSafe

LEMMA ReadInterruptedSafe ==
  ASSUME TInv, TInv', Safe, NEW t \in Threads, ReadInterrupted(t)
  PROVE  Safe'
<1>1. /\ pc[t] = "asleep" /\ ~woken[t] /\ t \in UserThreads /\ freedUrb = {} /\ freedUrb' = {}
      /\ UNCHANGED <<valid, id, stage, call, wds, lock, cb, del, clients, woken, mem>>
      /\ Goto(t, "giveup") /\ CallInv(t)
  BY DEF ReadInterrupted, Safe, UrbInv, deviceVars, writeVars, syncVars, fileVars, readVars, TInv
<1>2. On(t) /\ pc'[t] = "giveup" /\ OnlyMoves(t) BY <1>1, GotoOn DEF Pcs, On
<1>3. call[t].op # "ready" BY <1>1, ConstantFacts DEF CallInv
<1>4. Same(clients, clients') /\ SameUrbs(clients, clients') /\ SameNotify(clients, clients')
  BY <1>1 DEF Same, SameUrbs, SameNotify
<1>5. LessEntries /\ LessUrbs BY <1>4, SameLess
<1>6. UrbInv' BY <1>1, <1>2, <1>5, UrbFrame
<1>7. WaitInv' BY <1>1, <1>2, <1>4, <1>5, MoveWaits DEF Waiting
<1>8. MemOf(t)' BY <1>1, <1>3 DEF Safe, MemInv, MemOf, RefOf
<1> QED BY <1>1, <1>2, <1>4, <1>6, <1>7, <1>8, MoveSafe

LEMMA ReadGiveUpSafe ==
  ASSUME TInv, TInv', Safe, NEW t \in Threads, ReadGiveUp(t)
  PROVE  Safe'
<1>1. /\ pc[t] = "giveup" /\ freedUrb = {} /\ freedUrb' = {} /\ CallInv(t)
      /\ UNCHANGED <<valid, wds, lock>> /\ clients' = WithoutWaiter(t) /\ ReadFailed(t)
      /\ Awake(t) /\ NotifyInstead(t, Gone)
  BY DEF ReadGiveUp, Safe, UrbInv, deviceVars, writeVars, TInv
<1>2. /\ t \in UserThreads /\ t # SyncT /\ call[t].op # "ready" /\ Gone \in Notified
  BY <1>1, ConstantFacts DEF CallInv, Notified
<1>3. /\ On(t) \/ Back(t)
      /\ id' = id /\ pc'[t] \in {"find", "idle"} /\ OnlyMoves(t)
  BY <1>1, ReadFailedMoves, BackEffect DEF On
<1>4. \A u \in Others(t) : woken'[u] = woken[u] /\ mem'[u] = mem[u]
  BY <1>1 DEF Awake, Others, TInv, TypeOK
<1>5. /\ cb'.pc = cb.pc
      /\ cb.pc = "up" => cb'.who = Instead(cb.who, t, Gone)
      /\ \A y \in Threads : /\ del'[y].prev = del[y].prev /\ del'[y].this = del[y].this
                            /\ del'[y].next = del[y].next
  BY <1>1, <1>2, InsteadType
<1>6. cb'.pc = "up" => cb.pc = "up" /\ cb'.who \in {cb.who, Gone, NoThread} /\ cb'.who # t
  BY <1>5, ConstantFacts DEF Instead
<1>7. /\ Same(clients, clients') /\ SameUrbs(clients, clients')
      /\ \/ /\ clients' = clients
            /\ \A i \in 1..Len(clients) : i = Place(mem[t]) =>
                 \A k \in 1..Len(clients[i].notify) : clients[i].notify[k].t # t
         \/ \E i \in 1..Len(clients) : \E k \in 1..Len(clients[i].notify) :
              /\ i = Place(mem[t]) /\ clients[i].notify[k].t = t
              /\ clients' = SetNotify(clients, i, RemoveAt(clients[i].notify, k))
              /\ RemoveAt(clients[i].notify, k) \in Seq(Waiter)
  BY <1>1, WithoutWaiterProperties
<1>8. PICK p \in 1..Len(clients) : p = Place(mem[t]) /\ clients[p].id = call[t].cid
  <2>1. PICK j \in 1..Len(clients) : RefOf(clients[j]) = mem[t] /\ clients[j].id = call[t].cid
    BY <1>1, <1>2 DEF Safe, MemInv, MemOf
  <2>2. clients \in Seq(ClientMem) BY DEF TInv, TypeOK
  <2>3. Place(mem[t]) \in 1..Len(clients) /\ RefOf(clients[Place(mem[t])]) = mem[t]
    BY <2>1, <2>2, PlaceProperties
  <2> QED BY <2>1, <2>3 DEF RefOf
<1>9. ASSUME NEW c \in Ids \union {CTL}, NEW x \in 0..MaxTid, HasEntry(c, t, x) PROVE c = call[t].cid
  BY <1>2, <1>9 DEF Safe, WaitInv, EntryOf
<1>10. LessEntries /\ \A c \in Ids \union {CTL}, x \in 0..MaxTid : ~HasEntry(c, t, x)'
  <2>1. ListInv /\ clients \in Seq(ClientMem) /\ \A j \in 1..Len(clients) : clients[j] \in ClientMem
    BY ClientTypes DEF Safe
  <2>2. CASE /\ clients' = clients
             /\ \A i \in 1..Len(clients) : i = Place(mem[t]) =>
                  \A k \in 1..Len(clients[i].notify) : clients[i].notify[k].t # t
    <3>1. SameNotify(clients, clients') BY <2>2 DEF SameNotify
    <3>2. \A k \in 1..Len(clients[p].notify) : clients[p].notify[k].t # t BY <1>8, <2>2
    <3>3. ASSUME NEW c \in Ids \union {CTL}, NEW x \in 0..MaxTid, HasEntry(c, t, x)' PROVE FALSE
      <4>1. HasEntry(c, t, x) BY <2>2, <3>3 DEF HasEntry
      <4>2. c = call[t].cid BY <1>9, <4>1
      <4> QED BY <1>8, <2>1, <3>2, <4>1, <4>2 DEF HasEntry, ListInv
    <3> QED BY <1>7, <3>1, <3>3, SameLess
  <2>3. CASE \E i \in 1..Len(clients) : \E k \in 1..Len(clients[i].notify) :
            /\ i = Place(mem[t]) /\ clients[i].notify[k].t = t
            /\ clients' = SetNotify(clients, i, RemoveAt(clients[i].notify, k))
            /\ RemoveAt(clients[i].notify, k) \in Seq(Waiter)
    <3>1. PICK k \in 1..Len(clients[p].notify) :
             /\ clients[p].notify[k].t = t
             /\ clients' = SetNotify(clients, p, RemoveAt(clients[p].notify, k))
             /\ RemoveAt(clients[p].notify, k) \in Seq(Waiter)
      BY <1>8, <2>3
    <3>2. \A j \in 1..Len(clients) :
            clients'[j].notify = IF j = p THEN RemoveAt(clients[p].notify, k) ELSE clients[j].notify
      <4> DEFINE l == RemoveAt(clients[p].notify, k)
      <4>1. p \in 0..Len(clients) /\ l \in Seq(Waiter) /\ clients' = SetNotify(clients, p, l)
        BY <3>1
      <4> HIDE DEF l
      <4>2. \A j \in 1..Len(clients) :
               clients'[j] = IF j = p THEN [clients[j] EXCEPT !.notify = l] ELSE clients[j]
        <5>1. clients \in Seq(ClientMem) BY <2>1
        <5>2. \A j \in 1..Len(clients) : SetNotify(clients, p, l)[j] =
                 IF j = p THEN [clients[j] EXCEPT !.notify = l] ELSE clients[j]
          BY <4>1, <5>1, SetNotifyProperties
        <5> QED BY <4>1, <5>2
      <4>3. \A j \in 1..Len(clients) : clients'[j].notify = IF j = p THEN l ELSE clients[j].notify
        BY <2>1, <4>2 DEF ClientMem
      <4> QED BY <4>3 DEF l
    <3>3. /\ LessEntries
          /\ \A c, u, x : HasEntry(c, u, x)' =>
               c # clients[p].id \/ u # clients[p].notify[k].t \/ u = WdsCb
      BY <1>7, <3>2, RemoveEntry
    <3>4. ASSUME NEW c \in Ids \union {CTL}, NEW x \in 0..MaxTid, HasEntry(c, t, x)' PROVE FALSE
      BY <3>3, <3>4, <1>8, <1>9, <3>1, ConstantFacts DEF LessEntries
    <3> QED BY <3>3, <3>4
  <2> QED BY <1>7, <2>2, <2>3
<1>11. LessUrbs BY <1>7, SameLess
<1>12. UrbInv' BY <1>1, <1>3, <1>11, UrbFrame
<1>13. WaitInv' BY <1>6, <1>1, <1>3, <1>4, <1>7, <1>10, MoveWaits DEF CbFor
<1>14. MemOf(t)' BY <1>3 DEF MemOf
<1>15. \A u \in Others(t) : /\ mem'[u] = mem[u]
                            /\ del'[u].prev = del[u].prev /\ del'[u].this = del[u].this
                            /\ del'[u].next = del[u].next
  BY <1>4, <1>5 DEF Others
<1> QED BY <1>1, <1>3, <1>7, <1>12, <1>13, <1>14, <1>15, MoveSafe

\* A client comes, and its id goes to who asked for it.

LEMMA NobodyReleases ==
  ASSUME TInv, Safe, lock = NoThread
  PROVE  \A u \in Threads : pc[u] \notin {"notify", "up", "urbs"}
BY ConstantFacts DEF Safe, DelInv, DelOf

\* Who asked for an id has none.
LEMMA OtherOwners ==
  ASSUME TInv, Safe, NEW t \in Threads, call[t].op = "get", pc[t] # "idle", NEW u \in Others(t),
         u[1] = t[1]
  PROVE  /\ call[u].op \notin {"write", "read"}
         /\ ~(pc[u] # "idle" /\ call[u].op = "rel")
         /\ ~(u \in UserThreads /\ call[u].op = "get")
<1>1. /\ CallInv(t) /\ CallInv(u) /\ OwnOf(t) /\ OwnOf(u) /\ u \in Threads /\ u # t
  BY DEF TInv, Safe, OwnInv, Others
<1>2. t \in ReleaseThreads /\ t # ExitT BY <1>1 DEF CallInv, OwnOf
<1>3. CASE t = SyncT BY <1>1, ConstantFacts, <1>3 DEF SyncT, OwnOf, NoCall
<1>4. CASE t # SyncT BY <1>2, <1>4, <1>1, ConstantFacts DEF Threads, OwnOf, CallInv
<1> QED BY <1>3, <1>4

LEMMA ClientInsertSafe ==
  ASSUME TInv, TInv', Safe, NEW t \in Threads, ClientInsert(t)
  PROVE  Safe'
<1> DEFINE c == call[t].rid
           m == [id |-> c, owner |-> t[1], list |-> <<>>, notify |-> <<>>, urbs |-> <<>>]
           n == Len(clients)
<1>1. /\ pc[t] = "insert" /\ lock = NoThread /\ freedUrb = {} /\ freedUrb' = {} /\ CallInv(t)
      /\ UNCHANGED <<valid, wds, lock, cb, del, id, woken>> /\ OwnOf(t)
  BY DEF ClientInsert, LockFree, Safe, UrbInv, OwnInv, deviceVars, writeVars, fileVars, TInv
<1>2. call[t].op = "get" /\ c \in Ids /\ ~Waiting(t) BY <1>1 DEF CallInv, Waiting, Writing
<1>3. CASE Return(t, FALSE) /\ UNCHANGED <<clients, mem>>
  BY <1>3, ReturnEffect, <1>1, SameLess, BackEffect, UrbFrame, <1>2, MoveWaits, MoveSafe
     DEF Back, Same, SameUrbs, SameNotify, MemOf
<1>4. CASE /\ FindClientMem(clients, c) = 0 /\ clients' = Append(clients, m)
           /\ mem' = [mem EXCEPT ![t] = At(Len(clients))]
           /\ Goto(t, "named") /\ UNCHANGED <<stage, call>>
  <2>1. /\ clients \in Seq(ClientMem) /\ n \in Nat /\ \A j \in 1..n : clients[j] \in ClientMem
        /\ pc \in [Threads -> Pcs] /\ mem \in [Threads -> Ref]
    BY ClientTypes DEF TInv, TypeOK
  <2>2. m \in ClientMem /\ m.id = c /\ m.owner = t[1] /\ m.notify = <<>> /\ m.urbs = <<>>
    BY <1>2, ConstantFacts DEF ClientMem
  <2>3. \A j \in 1..n : clients[j].id # c BY <1>4, <2>1, FindProperties
  <2> HIDE DEF m, c
  <2>4. /\ Len(clients') = n + 1 /\ clients'[n + 1] = m
        /\ \A j \in 1..n : clients'[j] = clients[j]
    BY <1>4, <2>1, <2>2, AppendProperties
  <2> HIDE DEF n
  <2>5. /\ OnlyMoves(t) /\ pc'[t] = "named" /\ call' = call
        /\ \A u \in Others(t) : pc'[u] = pc[u] /\ mem'[u] = mem[u]
    BY <1>4, <2>1 DEF Goto, OnlyMoves, Others
  <2>6. /\ \A h, d : Has(h, d) => Has(h, d)'
        /\ Has(t[1], c)'
    BY <2>1, <2>4, <2>2, <2>5 DEF Has, n, c
  <2>7. ListInv /\ WdsInv /\ StartInv /\ MemInv BY DEF Safe
  <2>8. ListInv'
    <3>1. n > 0 /\ clients'[1].id = CTL BY <2>1, <2>4, <2>7 DEF ListInv, n
    <3>2. ASSUME NEW i \in 1..(n + 1), NEW j \in 1..(n + 1), clients'[i].id = clients'[j].id
          PROVE  i = j
      <4>1. CASE i \in 1..n /\ j \in 1..n BY <2>4, <2>7, <3>2, <4>1 DEF ListInv, n
      <4>2. CASE i = n + 1 /\ j \in 1..n BY <2>2, <2>3, <2>4, <3>2, <4>2
      <4>3. CASE j = n + 1 /\ i \in 1..n BY <2>2, <2>3, <2>4, <3>2, <4>3
      <4> QED BY <2>1, <4>1, <4>2, <4>3
    <3> QED BY <2>1, <2>4, <3>1, <3>2 DEF ListInv
  <2>9. OwnInv'
    <3>1. OwnOf(t)' BY <1>1, <1>2, <2>5, <2>6 DEF OwnOf, NoCall, c
    <3>2. ASSUME NEW u \in Others(t) PROVE OwnOf(u)'
      BY <1>1, <2>5, <2>6 DEF Safe, OwnInv, Others, OwnOf
    <3>3. \A h \in Holders : id'[h] # NoId => Has(h, id[h])' BY <1>1, <2>6 DEF Safe, OwnInv
    <3> QED BY <3>1, <3>2, <3>3 DEF OwnInv, Others
  <2>10. \A j \in 1..(n + 1) : \/ j \in 1..n /\ clients'[j] = clients[j]
                               \/ clients'[j].urbs = <<>> /\ clients'[j].notify = <<>>
    BY <2>1, <2>2, <2>4
  <2>11. LessUrbs
    <3>1. OneUrb' BY <2>4, <2>10 DEF Safe, UrbInv, OneUrb, n
    <3>2. \A d, u : HasUrb(d, u)' => HasUrb(d, u) BY <2>4, <2>10 DEF HasUrb, n
    <3> QED BY <3>1, <3>2 DEF LessUrbs
  <2>12. LessEntries
    <3>1. OneEntry' BY <2>4, <2>10 DEF Safe, WaitInv, OneEntry, Once, n
    <3>2. \A d, u, x : HasEntry(d, u, x)' => HasEntry(d, u, x) BY <2>4, <2>10 DEF HasEntry, n
    <3> QED BY <3>1, <3>2 DEF LessEntries
  <2>13. UrbInv' BY <1>1, <2>5, <2>11, UrbFrame
  <2>14. WaitInv' BY <1>2, <1>4, <1>1, <2>5, <2>12, WaitFrame DEF Stays, WdsDone
  <2>15. WdsInv'
    <3>1. c # wds BY <2>7, <1>2, ConstantFacts, <2>3 DEF WdsInv, c, Has, n
    <3>2. wds # NoId => Has("driver", wds)'
      <4>1. \A d : d = wds /\ d # NoId => Has("driver", d)' BY <2>6, <2>7 DEF WdsInv
      <4>2. wds' = wds BY <1>1
      <4> QED BY <4>1, <4>2 DEF Has
    <3>3. CASE t = SyncT BY <1>1, <1>2, <1>4, <2>5, <2>7, <3>1, <3>2, <3>3 DEF WdsInv, c
    <3>4. CASE t # SyncT BY <2>5, <3>4, ConstantFacts, <1>1, <1>4, <2>7, <3>2 DEF Others, WdsInv
    <3> QED BY <3>3, <3>4
  <2>16. StartInv'
    <3>1. ASSUME stage # "done" PROVE \A f \in Files : Main(f) # t /\ Reader(f) # t
      BY <1>1, <2>7, <3>1 DEF StartInv
    <3>2. stage # "done" =>
            \A f \in Files : pc'[Main(f)] = pc[Main(f)] /\ pc'[Reader(f)] = pc[Reader(f)]
      BY <2>5, <3>1, ConstantFacts DEF Others
    <3> QED BY <1>1, <1>4, <2>5, <2>7, <3>2 DEF StartInv
  <2>17. DelInv' BY <1>1, <2>5, NobodyReleases DEF Others, DelInv, DelOf
  <2>18. MemInv'
    <3>1. MemOf(t)' BY <2>5 DEF MemOf
    <3>2. ASSUME NEW u \in Others(t) PROVE MemOf(u)'
      <4>1. MemOf(u) /\ pc'[u] = pc[u] /\ call'[u] = call[u] /\ mem'[u] = mem[u]
        BY <2>5, <2>7 DEF MemInv, Others
      <4>2. \A j \in 1..n : j \in 1..Len(clients') /\ clients'[j] = clients[j] BY <2>1, <2>4
      <4> QED BY <4>1, <4>2 DEF MemOf, RefOf, n
    <3> QED BY <3>1, <3>2 DEF MemInv, Others
  <2> QED BY <1>1, <2>8, <2>9, <2>13, <2>14, <2>15, <2>16, <2>17, <2>18 DEF Safe
<1> QED BY <1>3, <1>4 DEF ClientInsert

LEMMA ClientReturnSafe ==
  ASSUME TInv, TInv', Safe, NEW t \in Threads, ClientReturn(t)
  PROVE  Safe'
<1> DEFINE c == call[t].rid
<1>1. /\ pc[t] = "named" /\ freedUrb = {} /\ freedUrb' = {} /\ CallInv(t) /\ OwnOf(t)
      /\ UNCHANGED <<valid, lock, cb, del, woken, clients>> /\ Return(t, TRUE)
      /\ id' = [id EXCEPT ![t[1]] = c] /\ mem' = [mem EXCEPT ![t] = NoRef]
      /\ wds' = IF t = SyncT /\ stage = "wds" THEN c ELSE wds
  BY DEF ClientReturn, Safe, UrbInv, OwnInv, deviceVars, writeVars, TInv
<1>2. /\ call[t].op = "get" /\ c \in Ids /\ ~Waiting(t) /\ Has(t[1], c) /\ t # ExitT
      /\ t \in ReleaseThreads
  BY <1>1 DEF CallInv, Waiting, Writing, OwnOf, NoCall
<1>3. /\ OnlyMoves(t) /\ pc'[t] = "idle" /\ stage' = stage
      /\ t # SyncT => call'[t] = NoCall
      /\ t = SyncT => call'[t] = call[t]
  BY <1>1, <1>2, ReturnEffect DEF StageAfter
<1>4. /\ Same(clients, clients') /\ SameUrbs(clients, clients') /\ SameNotify(clients, clients')
      /\ \A h, d : Has(h, d)' <=> Has(h, d)
  BY <1>1, HasSame DEF Same, SameUrbs, SameNotify
<1>5. LessEntries /\ LessUrbs /\ ListInv' BY <1>4, SameLess, ListFrame
<1>6. /\ id'[t[1]] = c /\ \A h \in Holders : h # t[1] => id'[h] = id[h]
      /\ \A u \in Others(t) : mem'[u] = mem[u]
  <2>1. id \in [Holders -> Ids \union {NoId}] /\ mem \in [Threads -> Ref] /\ t[1] \in Holders
    BY ConstantFacts DEF TInv, TypeOK
  <2> HIDE DEF c
  <2> QED BY <1>1, <2>1 DEF Others
<1> HIDE DEF c
<1>7. WdsInv /\ StartInv BY DEF Safe
<1>8. OwnInv'
  <2>1. \A h \in Holders : id'[h] # NoId => Has(h, id[h])'
    <3>1. ASSUME NEW h \in Holders, id'[h] # NoId, NEW d, d = id'[h] PROVE Has(h, d)
      BY <1>2, <1>6, <3>1 DEF Safe, OwnInv
    <3>2. \A h \in Holders : \A d : id'[h] # NoId /\ d = id'[h] => Has(h, d)' BY <1>4, <3>1
    <3> QED BY <3>2 DEF Has
  <2>2. OwnOf(t)' BY <1>1, <1>2, <1>3, ConstantFacts DEF OwnOf, NoCall
  <2>3. ASSUME NEW u \in Others(t) PROVE OwnOf(u)'
    <3>1. OwnOf(u) /\ pc'[u] = pc[u] /\ call'[u] = call[u] /\ u[1] \in Holders
      BY <1>3, ConstantFacts DEF Safe, OwnInv, Others, OnlyMoves
    <3>2. CASE u[1] # t[1] BY <1>4, <1>6, <3>1, <3>2 DEF OwnOf
    <3>3. CASE u[1] = t[1] BY <1>1, <1>2, <3>3, OtherOwners, <1>4, <3>1 DEF OwnOf
    <3> QED BY <3>2, <3>3
  <2> QED BY <2>1, <2>2, <2>3 DEF OwnInv, Others
<1>9. UrbInv' BY <1>1, <1>3, <1>5, UrbFrame
<1>10. WaitInv' BY <1>2, <1>3, <1>1, <1>5, WaitFrame DEF Stays, WdsDone
<1>11. WdsInv'
  <2>1. CASE t = SyncT
    <3>1. /\ call'[SyncT].op = "get" /\ pc'[SyncT] = "idle" /\ id'["driver"] = c
          /\ Has("driver", c) /\ wds' = IF stage = "wds" THEN c ELSE wds
      BY <1>1, <1>2, <1>3, <1>6, <2>1 DEF SyncT
    <3>2. wds' # NoId => Has("driver", wds)'
      <4>1. wds # NoId => Has("driver", wds) BY <1>7 DEF WdsInv
      <4>2. CASE stage = "wds" BY <3>1, <1>4, <4>2 DEF Has
      <4>3. CASE stage # "wds"
        <5>1. \A d : d = wds /\ d # NoId => Has("driver", d)' BY <1>4, <4>1
        <5>2. wds' = wds BY <3>1, <4>3
        <5> QED BY <5>1, <5>2 DEF Has
      <4> QED BY <4>2, <4>3
    <3>3. stage = "dms" => c # wds BY <1>1, <1>7, <2>1 DEF WdsInv, c
    <3>4. wds' # NoId => stage' \in {"wds", "dms", "done"} BY <1>3, <1>7, <3>1 DEF WdsInv
    <3> QED BY <1>3, <3>1, <3>2, <3>3, <3>4 DEF WdsInv
  <2>2. CASE t # SyncT
    <3>1. /\ call'[SyncT] = call[SyncT] /\ pc'[SyncT] = pc[SyncT] /\ wds' = wds
      BY <1>1, <1>3, <2>2, ConstantFacts DEF OnlyMoves, Others
    <3>2. id'["driver"] = id["driver"]
      <4>1. t[1] # "driver"
        <5>1. PICK f \in Files : t = Main(f) \/ t = Reader(f) BY <1>2, <2>2, ConstantFacts
        <5> QED BY <5>1, ConstantFacts
      <4> QED BY <1>6, <4>1 DEF Holders
    <3>3. wds' # NoId => Has("driver", wds)' BY <1>4, <1>7, <3>1 DEF WdsInv, Has
    <3> QED BY <1>3, <1>7, <3>1, <3>2, <3>3 DEF WdsInv
  <2> QED BY <2>1, <2>2
<1>12. StartInv'
  <2>1. CASE t = SyncT
    <3>1. \A f \in Files : /\ id'[f] = id[f] /\ pc'[Main(f)] = pc[Main(f)]
                           /\ pc'[Reader(f)] = pc[Reader(f)]
      BY <2>1, ConstantFacts, <1>3, <1>6 DEF SyncT, OnlyMoves, Others
    <3> QED BY <1>2, <1>3, <1>7, <2>1, <3>1 DEF StartInv
  <2>2. CASE t # SyncT
    <3>1. stage = "done"
      <4>1. PICK f \in Files : t = Main(f) \/ t = Reader(f) BY <1>2, <2>2, ConstantFacts
      <4> QED BY <1>1, <1>7, <4>1 DEF StartInv
    <3>2. call'[SyncT] = call[SyncT] BY <1>3, <2>2, ConstantFacts DEF OnlyMoves, Others
    <3> QED BY <1>3, <1>7, <3>1, <3>2 DEF StartInv
  <2> QED BY <2>1, <2>2
<1>13. DelInv' BY <1>1, <1>3, <1>4, DelFrame
<1>14. MemInv' BY <1>3, <1>4, <1>6, MemFrame DEF MemOf
<1> QED BY <1>1, <1>5, <1>8, <1>9, <1>10, <1>11, <1>12, <1>13, <1>14 DEF Safe

-----------------------------------------------------------------------------
\* Releases.

LEMMA NothingLeft ==
  ASSUME TInv, Safe, NEW t \in Threads, pc[t] # "idle", call[t].op = "rel",
         NEW i \in 1..Len(clients), clients[i].id = call[t].rid
  PROVE  clients[i].notify = <<>> /\ clients[i].urbs = <<>>
<1> DEFINE c == call[t].rid
<1>1. /\ c \in Ids /\ c # CTL /\ c # wds
      /\ \A u \in Threads : pc[u] \notin Releasing \union {"idle"} => call[u].cid # c
  BY Released
<1>2. /\ clients[i] \in ClientMem /\ clients[i].id = c BY DEF TInv, TypeOK
<1>3. clients[i].notify \in Seq(Waiter) /\ clients[i].urbs \in Seq(Urb) BY <1>2 DEF ClientMem
<1> HIDE DEF c
<1>4. ASSUME clients[i].notify # <<>> PROVE FALSE
  <2>1. PICK w \in Waiter : w = clients[i].notify[1] /\ 1 \in 1..Len(clients[i].notify)
    BY <1>3, <1>4, TailProperties
  <2>2. w.t \in Threads \union {WdsCb} /\ w.tid \in 0..MaxTid BY DEF Waiter
  <2>3. HasEntry(c, w.t, w.tid) BY <1>2, <2>1 DEF HasEntry
  <2>4. CASE w.t = WdsCb BY <1>1, <2>2, <2>3, <2>4 DEF Safe, WaitInv, WdsEntry
  <2>5. CASE w.t \in Threads
    BY <2>5, <1>1, <2>2, <2>3 DEF Safe, WaitInv, EntryOf, Waiting, Writing, Releasing
  <2> QED BY <2>2, <2>4, <2>5
<1>5. ASSUME clients[i].urbs # <<>> PROVE FALSE
  <2>1. PICK u \in Urb : u = clients[i].urbs[1] /\ 1 \in 1..Len(clients[i].urbs)
    BY <1>3, <1>5, TailProperties
  <2>2. u.t \in Threads BY DEF Urb
  <2>3. HasUrb(c, u.t) BY <1>2, <2>1 DEF HasUrb
  <2>4. UrbOf(u.t) BY <2>2 DEF Safe, UrbInv
  <2>5. pc[u.t] \in {"submit", "written"} /\ call[u.t].cid = c BY <1>1, <2>3, <2>4 DEF UrbOf
  <2> QED BY <1>1, <2>2, <2>5 DEF Releasing
<1> QED BY <1>4, <1>5

LEMMA FoundClient ==
  ASSUME TInv, Safe, NEW t \in Threads, pc[t] # "idle", call[t].op = "rel"
  PROVE  /\ Found(t) \in 1..Len(clients) /\ clients[Found(t)].id = call[t].rid
         /\ clients[Found(t)].notify = <<>> /\ clients[Found(t)].urbs = <<>>
BY FoundProperties, NothingLeft DEF Safe, OwnInv, OwnOf, Has

\* On with a release that keeps the lock.
LEMMA ReleaseOn ==
  ASSUME TInv, TInv', Safe, NEW t \in Threads, pc[t] \in Releasing, On(t),
         UNCHANGED <<valid, id, wds, clients, mem, woken, cb, freedUrb, stage>>, DelInv',
         pc'[t] \in Releasing
  PROVE  Safe'
<1>1. Same(clients, clients') /\ SameUrbs(clients, clients') /\ SameNotify(clients, clients')
  BY DEF Same, SameUrbs, SameNotify
<1>2. OnlyMoves(t) /\ OwnInv' /\ WdsInv' /\ StartInv' /\ ListInv' /\ pc[t] # "idle"
  BY <1>1, MoveFrame DEF Releasing
<1>3. LessEntries /\ LessUrbs BY <1>1, SameLess
<1>4. UrbInv' BY <1>2, <1>3, UrbFrame DEF Releasing, Safe, UrbInv
<1>5. ~Waiting(t) BY DEF Waiting, Writing, Releasing
<1>6. WaitInv' BY <1>1, <1>2, <1>3, <1>5, MoveWaits
<1>7. MemInv' BY <1>1, <1>2, MemFrame DEF MemOf, Releasing
<1> QED BY <1>2, <1>4, <1>6, <1>7 DEF Safe

LEMMA ReleaseFindSafe ==
  ASSUME TInv, TInv', Safe, NEW t \in Threads, ReleaseFind(t)
  PROVE  Safe'
<1>1. /\ pc[t] = "find" /\ lock = NoThread /\ CallInv(t)
      /\ UNCHANGED <<valid, id, wds, clients, mem, woken, cb, freedUrb>>
  BY DEF ReleaseFind, LockFree, TInv, deviceVars, fileVars, readVars, writeVars
<1>2. pc[t] # "idle" /\ call[t].op = "rel" /\ pc[t] \in Releasing BY <1>1 DEF CallInv, Releasing
<1>3. Found(t) \in 1..Len(clients) /\ clients[Found(t)].id = call[t].rid BY <1>2, FoundClient
<1>4. /\ del' = [del EXCEPT ![t] = [prev |-> At(Found(t) - 1), this |-> At(Found(t)),
                                     next |-> At(Found(t) + 1), who |-> t]]
      /\ lock' = t /\ Goto(t, "notify") /\ UNCHANGED <<stage, call>>
  <2>1. Found(t) # 0 BY <1>3
  <2> QED BY <2>1, Zenon DEF ReleaseFind, KeepLock
<1>5. On(t) /\ pc'[t] = "notify" /\ OnlyMoves(t) BY <1>4, GotoOn DEF Pcs, On
<1>6. DelOf(t)'
  <2> DEFINE n == Found(t)
  <2>1. /\ del'[t].prev = At(n - 1) /\ del'[t].this = At(n) /\ del'[t].next = At(n + 1)
    BY <1>4 DEF TInv, TypeOK
  <2> HIDE DEF n
  <2>2. n \in 1..Len(clients) /\ n \in DOMAIN clients BY <1>3, ClientTypes DEF n
  <2>3. RefOf(clients[n]) = del'[t].this BY <2>1, <2>2 DEF At
  <2>4. \A j : At(j)' = At(j) BY <1>1 DEF At, RefOf
  <2>5. clients[n].id = call[t].rid BY <1>3 DEF n
  <2>6. \E j \in 1..Len(clients) :
          /\ clients[j].id = call[t].rid /\ RefOf(clients[j]) = del'[t].this
          /\ At(j - 1) = del'[t].prev /\ At(j + 1) = del'[t].next
    BY <2>1, <2>2, <2>3, <2>5
  <2> QED BY <1>1, <1>4, <1>5, <2>4, <2>6 DEF DelOf, RefOf
<1>7. DelInv' BY <1>1, <1>5, NobodyReleases, <1>6 DEF OnlyMoves, Others, DelInv, DelOf
<1> QED BY <1>1, <1>2, <1>4, <1>5, <1>7, ReleaseOn DEF Releasing

LEMMA ReleaseNotifySafe ==
  ASSUME TInv, TInv', Safe, NEW t \in Threads, ReleaseNotify(t)
  PROVE  Safe'
<1>1. /\ pc[t] = "notify" /\ CallInv(t) /\ DelOf(t)
      /\ UNCHANGED <<valid, id, wds, stage, call, mem, woken, cb, freedUrb>>
  BY DEF ReleaseNotify, TInv, deviceVars, fileVars, readVars, writeVars, syncVars, Safe, DelInv
<1>2. pc[t] # "idle" /\ call[t].op = "rel" /\ pc[t] \in Releasing /\ lock = t
  BY <1>1 DEF CallInv, Releasing, DelOf
<1>3. clients[Found(t)].notify = <<>> BY <1>2, FoundClient
<1>4. lock' = t /\ Goto(t, "urbs") /\ UNCHANGED <<clients, del>>
  BY <1>3 DEF ReleaseNotify, KeepLock
<1>5. On(t) /\ pc'[t] = "urbs" /\ OnlyMoves(t) BY <1>1, <1>4, GotoOn DEF Pcs, On
<1>6. DelInv' BY <1>5, <1>4, <1>1, <1>2 DEF OnlyMoves, Safe, DelInv, Others, At, RefOf, DelOf
<1> QED BY <1>1, <1>2, <1>4, <1>5, <1>6, ReleaseOn DEF Releasing

LEMMA NoReleaseUp ==
  ASSUME TInv, Safe, NEW t \in Threads
  PROVE  ~ReleaseUp(t) /\ ~ReleaseUrb(t)
<1>1. ~ReleaseUp(t) BY DEF ReleaseUp, Safe, DelInv, DelOf
<1>2. ~ReleaseUrb(t)
  <2>1. SUFFICES ASSUME ReleaseUrb(t) PROVE FALSE OBVIOUS
  <2>2. pc[t] = "urbs" /\ CallInv(t) /\ clients[Found(t)].urbs # <<>>
    BY <2>1 DEF ReleaseUrb, TInv
  <2>3. call[t].op = "rel" /\ pc[t] # "idle" BY <2>2 DEF CallInv, Releasing
  <2> QED BY <2>2, <2>3, FoundClient
<1> QED BY <1>1, <1>2

\* The pointers read when the client was found still lead around it.
LEMMA UnlinkedRemoves ==
  ASSUME TInv, Safe, NEW t \in Threads, pc[t] = "urbs", NEW i \in 1..Len(clients),
         clients[i].id = call[t].rid
  PROVE  Unlinked(t) = RemoveAt(clients, i) /\ i # 1
<1> DEFINE n == Len(clients)
<1>1. /\ clients \in Seq(ClientMem) /\ n \in Nat /\ ListInv /\ DelOf(t) /\ CallInv(t)
      /\ \A j \in 1..n : clients[j] \in ClientMem
  BY ClientTypes DEF TInv, Safe, DelInv
<1>2. call[t].op = "rel" /\ pc[t] # "idle" BY <1>1 DEF CallInv, Releasing
<1>3. call[t].rid # CTL BY <1>2, Released
<1>4. i # 1 BY <1>1, <1>3 DEF ListInv
<1>5. At(i - 1) = del[t].prev /\ At(i + 1) = del[t].next
  <2>1. PICK j \in 1..n : /\ clients[j].id = call[t].rid
                          /\ At(j - 1) = del[t].prev /\ At(j + 1) = del[t].next
    BY <1>1 DEF DelOf
  <2>2. j = i BY <1>1, <2>1 DEF ListInv
  <2> QED BY <2>1, <2>2
<1>6. ASSUME NEW j \in 1..n PROVE At(j) = RefOf(clients[j]) /\ At(j) # NoRef /\ Place(At(j)) = j
  <2>1. At(j) = RefOf(clients[j]) BY <1>1 DEF At
  <2>2. At(j) # NoRef
    <3>1. clients[j].id \in Ids \union {CTL} BY <1>1 DEF ClientMem
    <3> QED BY <2>1, <3>1, ConstantFacts DEF RefOf, NoRef
  <2>3. Place(At(j)) \in 1..n /\ RefOf(clients[Place(At(j))]) = RefOf(clients[j])
    BY <1>1, <2>1, PlaceProperties
  <2>4. clients[Place(At(j))].id = clients[j].id BY <2>3 DEF RefOf
  <2>5. Place(At(j)) = j BY <1>1, <2>3, <2>4 DEF ListInv
  <2> QED BY <2>1, <2>2, <2>5
<1>7. del[t].prev # NoRef /\ Place(del[t].prev) = i - 1 BY <1>1, <1>4, <1>5, <1>6
<1>8. Unlinked(t) = SubSeq(clients, 1, i - 1)
                      \o (IF Place(del[t].next) = 0 THEN <<>>
                          ELSE SubSeq(clients, Place(del[t].next), n))
  BY <1>7, Zenon DEF Unlinked
<1>9. CASE i = n
  <2>1. i + 1 \notin DOMAIN clients BY <1>1, <1>9
  <2>2. del[t].next = NoRef BY <1>5, <2>1 DEF At
  <2>3. Place(NoRef) = 0 BY <1>6, <1>1, PlaceProperties
  <2>4. SubSeq(clients, i + 1, n) = <<>> BY <1>1, <1>9
  <2> QED BY <1>4, <1>8, <2>2, <2>3, <2>4 DEF RemoveAt
<1>10. CASE i # n
  <2>1. i + 1 \in 1..n /\ i + 1 # 0 BY <1>1, <1>10
  <2>2. Place(del[t].next) = i + 1 BY <1>5, <1>6, <2>1
  <2> QED BY <1>4, <1>8, <2>1, <2>2 DEF RemoveAt
<1> QED BY <1>9, <1>10

LEMMA ReleaseFreeSafe ==
  ASSUME TInv, TInv', Safe, NEW t \in Threads, ReleaseFree(t)
  PROVE  Safe'
<1> DEFINE c == call[t].rid
           n == Len(clients)
<1>1. /\ pc[t] = "urbs" /\ CallInv(t) /\ DelOf(t) /\ Return(t, TRUE) /\ clients' = Unlinked(t)
      /\ UNCHANGED <<valid, id, wds, mem, woken, cb, freedUrb>>
  BY DEF ReleaseFree, TInv, deviceVars, fileVars, readVars, writeVars, Safe, DelInv
<1>2. pc[t] # "idle" /\ call[t].op = "rel" /\ pc[t] \in Releasing /\ lock = t /\ ~Waiting(t)
  BY <1>1 DEF CallInv, Releasing, DelOf, Waiting, Writing
<1>3. /\ c \in Ids /\ c # CTL /\ c # wds /\ t # ExitT
      /\ \A h \in Holders : id[h] # c
      /\ \A u \in Others(t) : /\ pc[u] = "named" => call[u].rid # c
                              /\ pc[u] # "idle" /\ call[u].op = "rel" => call[u].rid # c
      /\ \A u \in Threads : pc[u] \notin Releasing \union {"idle"} => call[u].cid # c
  BY <1>2, Released
<1>4. PICK i \in 1..n : clients[i].id = c BY <1>2, FoundClient
<1>5. clients' = RemoveAt(clients, i) /\ i # 1 BY <1>1, <1>4, UnlinkedRemoves
<1>6. clients \in Seq(ClientMem) /\ n \in Nat /\ \A j \in 1..n : clients[j] \in ClientMem
  BY ClientTypes
<1>7. /\ Len(clients') = n - 1
      /\ \A j \in 1..(n - 1) : clients'[j] = IF j < i THEN clients[j] ELSE clients[j + 1]
  BY <1>5, <1>6, RemoveAtProperties
<1>8. /\ OnlyMoves(t) /\ pc'[t] = "idle" /\ call'[t] = NoCall
      /\ t # SyncT => stage' = stage
      /\ t = SyncT => stage' \in {"wds", "done"} /\ stage # "done" /\ (stage' = "wds" => stage = "wda")
  BY <1>2, <1>1, ReturnEffect DEF TInv, SyncInv, StageAfter
<1> HIDE DEF c, n
<1>9. \A j \in 1..Len(clients') : \E k \in 1..n : k # i /\ clients'[j] = clients[k]
                                                 /\ k = IF j < i THEN j ELSE j + 1
  BY <1>6, <1>7
<1>10. \A k \in 1..n : k # i => \E j \in 1..Len(clients') : clients'[j] = clients[k]
  <2>1. ASSUME NEW k \in 1..n, k # i PROVE \E j \in 1..Len(clients') : clients'[j] = clients[k]
    <3>1. CASE k < i BY <1>6, <1>7, <3>1
    <3>2. CASE ~(k < i)
      <4>1. k - 1 \in 1..(n - 1) /\ ~(k - 1 < i) /\ (k - 1) + 1 = k BY <1>6, <2>1, <3>2
      <4>2. k - 1 \in 1..Len(clients') /\ clients'[k - 1] = clients[k] BY <1>7, <4>1
      <4> QED BY <4>2
    <3> QED BY <3>1, <3>2
  <2> QED BY <2>1
<1>11. ListInv BY DEF Safe
<1>12. ListInv'
  <2>1. n > 1 /\ clients'[1] = clients[1] BY <1>5, <1>6, <1>7
  <2>2. Len(clients') > 0 /\ clients'[1].id = CTL BY <1>6, <1>7, <1>11, <2>1 DEF ListInv, n
  <2>3. ASSUME NEW j \in 1..Len(clients'), NEW h \in 1..Len(clients'),
               clients'[j].id = clients'[h].id
        PROVE  j = h
    <3>1. PICK k \in 1..n : clients'[j] = clients[k] /\ k = IF j < i THEN j ELSE j + 1 BY <1>9
    <3>2. PICK l \in 1..n : clients'[h] = clients[l] /\ l = IF h < i THEN h ELSE h + 1 BY <1>9
    <3>3. k = l BY <1>11, <2>3, <3>1, <3>2 DEF ListInv, n
    <3> QED BY <1>6, <1>7, <3>1, <3>2, <3>3
  <2> QED BY <2>2, <2>3 DEF ListInv
<1>13. ASSUME NEW h, NEW d, d # c, Has(h, d) PROVE Has(h, d)'
  <2>1. PICK k \in 1..n : clients[k].id = d /\ clients[k].owner = h BY <1>13 DEF Has, n
  <2>2. k # i BY <1>4, <1>13, <2>1
  <2> QED BY <1>10, <2>1, <2>2 DEF Has
<1>14. OwnInv'
  <2>1. ASSUME NEW h \in Holders, id'[h] # NoId PROVE Has(h, id[h])'
    <3>1. \A d : d = id[h] => Has(h, d)' BY <1>1, <1>3, <1>13, <2>1 DEF Safe, OwnInv
    <3> QED BY <1>1, <3>1 DEF Has
  <2>2. OwnOf(t)' BY <1>3, <1>8 DEF OwnOf, NoCall
  <2>3. ASSUME NEW u \in Others(t) PROVE OwnOf(u)'
    <3>1. OwnOf(u) /\ pc'[u] = pc[u] /\ call'[u] = call[u] /\ id' = id
      BY <1>1, <1>8 DEF Safe, OwnInv, Others, OnlyMoves
    <3>2. pc[u] = "named" \/ (pc[u] # "idle" /\ call[u].op = "rel") => call[u].rid # c BY <1>3
    <3>3. \A d : d = call[u].rid /\ d # c /\ Has(u[1], d) => Has(u[1], d)' BY <1>13
    <3>4. call[u].rid # c /\ Has(u[1], call[u].rid) => Has(u[1], call[u].rid)'
      BY <3>1, <3>3 DEF Has
    <3> QED BY <3>1, <3>2, <3>4 DEF OwnOf
  <2> QED BY <2>1, <2>2, <2>3 DEF OwnInv, Others
<1>15. LessUrbs
  <2>1. OneUrb'
    <3>1. OneUrb BY DEF Safe, UrbInv
    <3>2. ASSUME NEW j \in 1..Len(clients'), clients'[j].id # CTL
          PROVE  Len(clients'[j].urbs) <= 1
      <4>1. PICK k \in 1..n : clients'[j] = clients[k] BY <1>9
      <4> QED BY <3>1, <3>2, <4>1 DEF OneUrb, n
    <3> QED BY <3>2 DEF OneUrb
  <2>2. ASSUME NEW d, NEW u, HasUrb(d, u)' PROVE HasUrb(d, u)
    <3>1. PICK j \in 1..Len(clients') :
             /\ clients'[j].id = d
             /\ \E k \in 1..Len(clients'[j].urbs) : clients'[j].urbs[k].t = u
      BY <2>2 DEF HasUrb
    <3>2. PICK k \in 1..n : clients'[j] = clients[k] BY <1>9
    <3> QED BY <3>1, <3>2 DEF HasUrb, n
  <2> QED BY <2>1, <2>2 DEF LessUrbs
<1>16. LessEntries
  <2>1. OneEntry'
    <3>1. OneEntry BY DEF Safe, WaitInv
    <3>2. ASSUME NEW j \in 1..Len(clients') PROVE Once(clients'[j].notify)
      <4>1. PICK k \in 1..n : clients'[j] = clients[k] BY <1>9
      <4>2. Once(clients[k].notify) BY <3>1 DEF OneEntry, n
      <4> QED BY <4>1, <4>2
    <3> QED BY <3>2 DEF OneEntry
  <2>2. ASSUME NEW d, NEW u, NEW x, HasEntry(d, u, x)' PROVE HasEntry(d, u, x)
    <3>1. PICK j \in 1..Len(clients') :
             /\ clients'[j].id = d
             /\ \E k \in 1..Len(clients'[j].notify) :
                  clients'[j].notify[k].t = u /\ clients'[j].notify[k].tid = x
      BY <2>2 DEF HasEntry
    <3>2. PICK k \in 1..n : clients'[j] = clients[k] BY <1>9
    <3> QED BY <3>1, <3>2 DEF HasEntry, n
  <2> QED BY <2>1, <2>2 DEF LessEntries
<1>17. UrbInv' BY <1>1, <1>8, <1>15, UrbFrame DEF Safe, UrbInv
<1>18. WaitInv' BY <1>2, <1>8, <1>1, <1>16, WaitFrame DEF Stays, WdsDone
<1>19. WdsInv /\ StartInv BY DEF Safe
<1>20. WdsInv'
  <2>1. wds # NoId => Has("driver", wds)'
    <3>1. \A d : d = wds /\ d # NoId => Has("driver", d)' BY <1>3, <1>13, <1>19 DEF WdsInv
    <3>2. wds' = wds BY <1>1
    <3> QED BY <3>1, <3>2 DEF Has
  <2>2. CASE t = SyncT BY <1>1, <1>8, <1>19, <2>1, <2>2 DEF WdsInv, NoCall
  <2>3. CASE t # SyncT
    BY <1>8, <2>3, ConstantFacts, <1>1, <1>19, <2>1 DEF OnlyMoves, Others, WdsInv
  <2> QED BY <2>2, <2>3
<1>21. StartInv'
  <2>1. CASE t = SyncT
    BY <1>8, <2>1, ConstantFacts, <1>1, <1>19 DEF OnlyMoves, Others, StartInv, NoCall
  <2>2. CASE t # SyncT
    <3>1. stage = "done"
      <4>1. PICK f \in Files : t = Main(f) \/ t = Reader(f) BY <1>3, <2>2, ConstantFacts
      <4> QED BY <1>2, <1>19, <4>1 DEF StartInv
    <3>2. call'[SyncT] = call[SyncT] BY <1>8, <2>2, ConstantFacts DEF OnlyMoves, Others
    <3> QED BY <1>8, <1>19, <2>2, <3>1, <3>2 DEF StartInv
  <2> QED BY <2>1, <2>2
<1>22. DelInv'
  <2>1. \A u \in Threads : pc'[u] \notin {"notify", "up", "urbs"}
    BY <1>2, <1>8 DEF OnlyMoves, Others, Safe, DelInv, DelOf
  <2> QED BY <2>1 DEF DelInv, DelOf
<1>23. MemInv'
  <2>1. MemOf(t)' BY <1>8 DEF MemOf
  <2>2. ASSUME NEW u \in Others(t) PROVE MemOf(u)'
    <3>1. MemOf(u) /\ pc'[u] = pc[u] /\ call'[u] = call[u] /\ mem' = mem
      BY <1>1, <1>8 DEF Safe, MemInv, Others, OnlyMoves
    <3>2. SUFFICES ASSUME pc[u] \in {"asleep", "giveup"}, call[u].op # "ready"
                   PROVE  \E j \in 1..Len(clients') : RefOf(clients'[j]) = mem[u]
                                                      /\ clients'[j].id = call[u].cid
      BY <3>1 DEF MemOf, RefOf
    <3>3. PICK k \in 1..n : RefOf(clients[k]) = mem[u] /\ clients[k].id = call[u].cid
      BY <3>1, <3>2 DEF MemOf, n
    <3>4. call[u].cid # c BY <1>3, <3>2 DEF Releasing, Others
    <3>5. k # i BY <1>4, <3>3, <3>4
    <3>6. PICK j \in 1..Len(clients') : clients'[j] = clients[k] BY <1>10, <3>5
    <3> QED BY <3>3, <3>6
  <2> QED BY <2>1, <2>2 DEF MemInv, Others
<1> QED BY <1>1, <1>12, <1>14, <1>17, <1>18, <1>20, <1>21, <1>22, <1>23 DEF Safe

\* The callbacks.

LEMMA NobodyMoves ==
  ASSUME TInv, TInv', Safe, UNCHANGED <<valid, id, pc, call, stage, wds, lock, del, mem, freedUrb>>,
         Same(clients, clients'), SameUrbs(clients, clients'), WaitInv'
  PROVE  Safe'
<1>1. SyncT \in Threads /\ OnlyMoves(SyncT) BY ConstantFacts DEF OnlyMoves
<1>2. LessUrbs /\ ListInv' /\ \A h, c : Has(h, c)' <=> Has(h, c) BY SameLess, ListFrame, HasSame
<1>3. OwnInv' BY <1>1, <1>2, OwnFrame DEF Safe, OwnInv, OwnOf
<1>4. UrbInv' BY <1>1, <1>2, UrbFrame DEF Safe, UrbInv
<1>5. WdsInv' /\ StartInv' BY <1>2 DEF Safe, WdsInv, Has, StartInv
<1>6. DelInv'
  <2>1. \A i : At(i)' = At(i)
    <3>1. /\ clients \in Seq(ClientMem) /\ clients' \in Seq(ClientMem)
          /\ Len(clients') = Len(clients)
      BY DEF TInv, TypeOK, Same
    <3>2. DOMAIN clients = 1..Len(clients) /\ DOMAIN clients' = 1..Len(clients) BY <3>1
    <3>3. \A i \in 1..Len(clients) : RefOf(clients[i])' = RefOf(clients[i]) BY DEF Same, RefOf
    <3> QED BY <3>2, <3>3 DEF At
  <2>2. Len(clients') = Len(clients) /\ \A i \in 1..Len(clients) :
           RefOf(clients[i])' = RefOf(clients[i]) /\ clients'[i].id = clients[i].id
    BY DEF Same, RefOf
  <2> QED BY <2>1, <2>2 DEF Safe, DelInv, DelOf
<1>7. MemInv'
  <2>1. MemOf(SyncT)' BY <1>1 DEF Safe, MemInv, Same, RefOf, MemOf
  <2> QED BY <1>1, <2>1, MemFrame
<1> QED BY <1>2, <1>3, <1>4, <1>5, <1>6, <1>7 DEF Safe

LEMMA ReadCallbackSafe ==
  ASSUME TInv, TInv', Safe, ReadCallback
  PROVE  Safe'
<1>1. UNCHANGED <<valid, clients, id, pc, call, stage, wds, woken, lock, del, mem, freedUrb>>
  BY DEF ReadCallback, deviceVars, syncVars, fileVars, readVars, writeVars
<1>2. PICK m \in Msg : Continue(m, 1) BY AnswerTypes DEF ReadCallback
<1>3. cb'.pc # "up" BY <1>2, ContinueType
<1> QED BY <1>1, <1>3, Untouched

LEMMA CallbackDeliverSafe ==
  ASSUME TInv, TInv', Safe, CallbackDeliver
  PROVE  Safe'
<1> DEFINE i == Place(cb.at)
           k == FirstWaiter(clients[i].notify, cb.msg.tid)
           v == clients[i].notify[k].t
<1>1. /\ cb.pc = "walk" /\ cb.msg \in Msg
      /\ UNCHANGED <<valid, id, pc, call, stage, wds, woken, lock, del, mem, freedUrb>>
  BY DEF CallbackDeliver, deviceVars, syncVars, fileVars, readVars, writeVars, TInv, TypeOK
<1>2. /\ Same(clients, clients') /\ SameUrbs(clients, clients')
      /\ i \in 1..Len(clients) /\ clients[i] \in ClientMem
      /\ \/ /\ k = 0 /\ SameNotify(clients, clients')
            /\ \E n \in Nat \ {0} : Continue(cb.msg, n)
         \/ /\ k \in 1..Len(clients[i].notify)
            /\ cb' = [cb EXCEPT !.pc = "up", !.who = v]
            /\ clients'[i].notify = RemoveAt(clients[i].notify, k)
            /\ \A j \in 1..Len(clients) : j # i => clients'[j].notify = clients[j].notify
  BY DeliverProperties
<1> HIDE DEF i, k
<1>3. SyncT \in Threads /\ OnlyMoves(SyncT) /\ (WdsDone' <=> WdsDone)
  BY <1>1, ConstantFacts DEF OnlyMoves, WdsDone
<1>4. CASE SameNotify(clients, clients') /\ \E n \in Nat \ {0} : Continue(cb.msg, n)
  <2>1. LessEntries BY <1>2, <1>4, SameLess
  <2>2. cb'.pc # "up" BY <1>1, <1>4, ContinueType
  <2>3. Stays(SyncT) BY <1>1 DEF Stays, Waiting
  <2>4. WaitInv' BY <1>1, <1>3, <2>1, <2>2, <2>3, WaitFrame DEF CbFor
  <2> QED BY <1>1, <1>2, <2>4, NobodyMoves
<1>5. CASE /\ k \in 1..Len(clients[i].notify)
           /\ cb' = [cb EXCEPT !.pc = "up", !.who = v]
           /\ clients'[i].notify = RemoveAt(clients[i].notify, k)
           /\ \A j \in 1..Len(clients) : j # i => clients'[j].notify = clients[j].notify
  <2>1. /\ cb'.pc = "up" /\ cb'.who = v BY <1>5 DEF TInv, TypeOK
  <2>2. /\ v \in Threads \union {WdsCb} /\ clients[i].id \in Ids \union {CTL}
        /\ \E x \in 0..MaxTid : HasEntry(clients[i].id, v, x)
    <3>1. clients[i].notify \in Seq(Waiter) /\ clients[i].id \in Ids \union {CTL}
      BY <1>2 DEF ClientMem
    <3>2. clients[i].notify[k] \in Waiter BY <1>5, <3>1
    <3>3. v \in Threads \union {WdsCb} /\ clients[i].notify[k].tid \in 0..MaxTid
      BY <3>2 DEF Waiter
    <3>4. HasEntry(clients[i].id, v, clients[i].notify[k].tid) BY <1>2, <1>5 DEF HasEntry
    <3> QED BY <3>1, <3>3, <3>4
  <2>3. /\ LessEntries
        /\ \A c, u, x : HasEntry(c, u, x)' => c # clients[i].id \/ u # v \/ u = WdsCb
    BY <1>5, <1>2, RemoveEntry
  <2> HIDE DEF v
  <2>4. CbInv'
    <3>1. v = WdsCb => WdsDone BY <2>2 DEF Safe, WaitInv, WdsEntry
    <3>2. ASSUME v \in Threads PROVE (Waiting(v) /\ ~woken[v]) \/ (v = SyncT /\ stage = "done")
      BY <2>2, <3>2 DEF Safe, WaitInv, EntryOf
    <3>3. \A u \in Threads : Waiting(u)' <=> Waiting(u) BY <1>1 DEF Waiting
    <3>4. \A u \in Threads : u = v => (Waiting(u)' /\ ~woken'[u]) \/ (u = SyncT /\ stage' = "done")
      BY <1>1, <3>2, <3>3
    <3>5. cb'.who = WdsCb => WdsDone' BY <1>3, <2>1, <3>1
    <3>6. cb'.who \in Threads => \/ Waiting(cb.who)' /\ ~woken'[cb'.who]
                                 \/ cb'.who = SyncT /\ stage' = "done"
      BY <2>1, <3>4 DEF Waiting
    <3> QED BY <3>5, <3>6 DEF CbInv
  <2>5. WdsEntry' BY <1>1, <1>3, <2>3 DEF Safe, WaitInv, WdsEntry, LessEntries
  <2>6. ASSUME NEW u \in Threads, NEW c \in Ids \union {CTL}, NEW x \in 0..MaxTid, HasEntry(c, u, x)'
        PROVE  \/ Waiting(u) /\ call[u].cid = c /\ call[u].tid = x /\ ~woken[u] /\ u # v
               \/ u = SyncT /\ stage = "done" /\ c = CTL
    <3>1. EntryOf(u) /\ HasEntry(c, u, x) BY <2>3, <2>6 DEF Safe, WaitInv, LessEntries
    <3>2. \/ Waiting(u) /\ call[u].cid = c /\ call[u].tid = x /\ ~woken[u]
          \/ u = SyncT /\ stage = "done" /\ c = CTL
      BY <3>1 DEF EntryOf
    <3>3. ASSUME u = v, Waiting(u), call[u].cid = c PROVE FALSE
      <4>1. c # clients[i].id BY <2>3, <2>6, <3>3, ConstantFacts
      <4>2. ~(u = SyncT /\ stage = "done") BY <3>3 DEF TInv, SyncInv, Waiting, Writing
      <4>3. PICK y \in 0..MaxTid : HasEntry(clients[i].id, u, y) BY <2>2, <3>3
      <4>4. call[u].cid = clients[i].id BY <2>2, <3>1, <4>2, <4>3 DEF EntryOf
      <4> QED BY <3>3, <4>1, <4>4
    <3> QED BY <3>2, <3>3
  <2>7. \A u \in Threads : EntryOf(u)' BY <1>1, <2>1, <2>6 DEF EntryOf, CbFor, Waiting
  <2>8. WaitInv' BY <2>3, <2>4, <2>5, <2>7 DEF WaitInv, LessEntries
  <2> QED BY <1>1, <1>2, <2>8, NobodyMoves
<1> QED BY <1>2, <1>4, <1>5

LEMMA CallbackUpSafe ==
  ASSUME TInv, TInv', Safe, CallbackUp
  PROVE  Safe'
<1> DEFINE w == cb.who
           d == [tid |-> 0, t |-> WdsCb]
<1>1. /\ cb.pc = "up" /\ cb.msg \in Msg /\ Up(w) /\ w \in Notified
      /\ UNCHANGED <<valid, id, pc, call, stage, wds, lock, del, mem, freedUrb>>
  BY DEF CallbackUp, deviceVars, syncVars, fileVars, writeVars, TInv, TypeOK
<1>2. cb'.pc # "up" BY DEF CallbackUp, TInv, TypeOK
<1>3. /\ Same(clients, clients') /\ SameUrbs(clients, clients')
      /\ \A t \in Threads : woken'[t] = (woken[t] \/ t = w)
      /\ \A i \in 1..Len(clients) :
           \/ clients'[i].notify = clients[i].notify
           \/ /\ clients[i].id = wds /\ w = WdsCb /\ wds # NoId
              /\ clients'[i].notify = Append(clients[i].notify, d)
  BY <1>1, UpProperties
<1>4. ListInv /\ CbInv /\ OneEntry /\ WdsEntry BY DEF Safe, WaitInv
<1>5. d \in Waiter /\ d.t = WdsCb BY ConstantsAssumption DEF Waiter
<1> HIDE DEF w, d
<1>6. /\ OneEntry'
      /\ \A c, u, x : HasEntry(c, u, x)' => HasEntry(c, u, x) \/ (c = wds /\ u = WdsCb /\ WdsDone)
  <2>1. CASE \A i \in 1..Len(clients) : clients'[i].notify = clients[i].notify
    <3>1. Len(clients') = Len(clients)
          /\ \A i \in 1..Len(clients) : clients'[i].id = clients[i].id
      BY <1>3 DEF Same
    <3>2. OneEntry' BY <1>4, <2>1, <3>1 DEF OneEntry, Once
    <3>3. \A c, u, x : HasEntry(c, u, x)' => HasEntry(c, u, x) BY <2>1, <3>1 DEF HasEntry
    <3> QED BY <3>2, <3>3
  <2>2. ASSUME NEW i \in 1..Len(clients), clients[i].id = wds, w = WdsCb,
               clients'[i].notify = Append(clients[i].notify, d)
        PROVE  /\ OneEntry'
               /\ \A c, u, x : HasEntry(c, u, x)' =>
                    HasEntry(c, u, x) \/ (c = wds /\ u = WdsCb /\ WdsDone)
    <3>1. \A j \in 1..Len(clients) : j # i => clients'[j].notify = clients[j].notify
      BY <1>3, <1>4, <2>2 DEF ListInv
    <3>2. \A j \in 1..Len(clients) :
            clients'[j].notify = IF j = i THEN Append(clients[i].notify, d) ELSE clients[j].notify
      BY <2>2, <3>1
    <3>3. /\ OneEntry'
          /\ \A c, u, x : HasEntry(c, u, x)' =>
               HasEntry(c, u, x) \/ (c = clients[i].id /\ u = d.t /\ x = d.tid)
      BY <1>3, <1>5, <3>2, AppendEntry
    <3>4. WdsDone BY <1>1, <1>4, <2>2 DEF CbInv, w
    <3> QED BY <1>5, <2>2, <3>3, <3>4
  <2> QED BY <1>3, <2>1, <2>2
<1>7. WaitInv'
  <2>1. CbInv' BY <1>2 DEF CbInv
  <2>2. WdsEntry' BY <1>1, <1>4, <1>6 DEF WdsEntry, WdsDone
  <2>3. ASSUME NEW u \in Threads PROVE EntryOf(u)'
    <3>1. EntryOf(u) /\ \A c, x : HasEntry(c, u, x)' => HasEntry(c, u, x)
      BY <1>6, ConstantFacts DEF Safe, WaitInv
    <3>2. ~CbFor(u) /\ ~woken[u] => ~woken'[u] BY <1>1, <1>3 DEF CbFor, w
    <3>3. ~CbFor(u)' BY <1>2 DEF CbFor
    <3> QED BY <1>1, <3>1, <3>2, <3>3 DEF EntryOf, Waiting
  <2> QED BY <1>6, <2>1, <2>2, <2>3 DEF WaitInv
<1> QED BY <1>1, <1>3, <1>7, NobodyMoves

LEMMA CallbackOnSafe ==
  ASSUME TInv, TInv', Safe, CallbackOn
  PROVE  Safe'
<1>1. UNCHANGED <<valid, clients, id, pc, call, stage, wds, woken, lock, del, mem, freedUrb>>
  BY DEF CallbackOn, deviceVars, syncVars, fileVars, readVars, writeVars
<1>2. cb.msg \in Msg BY DEF TInv, TypeOK
<1>3. cb'.pc # "up" BY <1>2, CallbackContinues, ContinueType
<1> QED BY <1>1, <1>3, Untouched

-----------------------------------------------------------------------------
\* The start-up.

LEMMA SyncSafe ==
  ASSUME TInv, TInv', Safe, OnlyMoves(SyncT), UNCHANGED <<valid, lock, freedUrb, mem>>,
         pc[SyncT] \notin {"submit", "written"},
         pc'[SyncT] \notin {"notify", "up", "urbs", "asleep", "giveup"},
         Same(clients, clients'), SameUrbs(clients, clients'),
         \A u \in Threads : /\ del'[u].prev = del[u].prev /\ del'[u].this = del[u].this
                            /\ del'[u].next = del[u].next,
         OwnInv', WaitInv', WdsInv', StartInv'
  PROVE  Safe'
<1>1. LessUrbs /\ ListInv' /\ SyncT \in Threads BY SameLess, ListFrame, ConstantFacts
<1>2. UrbInv' BY <1>1, UrbFrame DEF Safe, UrbInv
<1>3. DelInv' BY <1>1, DelFrame DEF Others
<1>4. MemInv' BY <1>1, MemFrame DEF MemOf
<1> QED BY <1>1, <1>2, <1>3, <1>4 DEF Safe

\* What is waited for at QMICTL while the driver starts is qmi_sync_thread's.
LEMMA OnlySync ==
  ASSUME TInv, Safe, stage = "ready", NEW i \in 1..Len(clients), clients[i].id = CTL,
         NEW k \in 1..Len(clients[i].notify)
  PROVE  /\ clients[i].notify[k].t = SyncT /\ clients[i].notify[k].tid = call[SyncT].tid
<1> DEFINE w == clients[i].notify[k]
<1>1. w \in Waiter
  <2>1. clients[i] \in ClientMem BY DEF TInv, TypeOK
  <2>2. clients[i].notify \in Seq(Waiter) BY <2>1 DEF ClientMem
  <2> QED BY <2>2
<1>2. HasEntry(CTL, w.t, w.tid) BY DEF HasEntry
<1> HIDE DEF w
<1>3. w.tid \in 0..MaxTid /\ w.t \in Threads \union {WdsCb} BY <1>1 DEF Waiter
<1>4. w.t # WdsCb BY <1>2, <1>3 DEF Safe, WaitInv, WdsEntry, WdsDone
<1>5. Waiting(w.t) /\ call[w.t].tid = w.tid BY <1>2, <1>3, <1>4 DEF Safe, WaitInv, EntryOf
<1>6. pc[w.t] # "idle" BY <1>5 DEF Waiting, Writing
<1>7. w.t = SyncT BY <1>3, <1>4, <1>6, ConstantFacts DEF Safe, OwnInv, OwnOf, StartInv
<1> QED BY <1>5, <1>7 DEF w

LEMMA SyncReadySafe ==
  ASSUME TInv, TInv', Safe, SyncReady
  PROVE  Safe'
<1> DEFINE t == SyncT
           cs == Purged(clients, NextTid)
           i == FindClientMem(cs, CTL)
           w == [tid |-> NextTid, t |-> t]
           l == Append(cs[i].notify, w)
<1>1. /\ pc[t] = "idle" /\ stage = "ready" /\ lock = NoThread
      /\ UNCHANGED <<valid, lock, freedUrb, mem, cb, wds, id, del>>
  BY DEF SyncReady, SyncIdle, LockFree, deviceVars, fileVars, writeVars
<1>2. /\ cs \in Seq(ClientMem) /\ Same(clients, cs) /\ SameNotify(clients, cs) /\ SameUrbs(clients, cs)
      /\ clients \in Seq(ClientMem) /\ ListInv /\ t \in Threads
  BY PurgedProperties, ConstantFacts DEF TInv, TypeOK, Safe
<1>3. Len(cs) = Len(clients) /\ Len(clients) \in Nat /\ cs[1].id = CTL /\ Len(clients) > 0
      /\ \A j \in 1..Len(clients) : cs[j].id = clients[j].id
  BY <1>2 DEF Same, ListInv
<1>4. i \in 1..Len(clients) /\ cs[i].id = CTL /\ i # 0
  <2> HIDE DEF cs
  <2>1. /\ i \in 0..Len(cs)
        /\ i = 0 => \A j \in 1..Len(cs) : cs[j].id # CTL
        /\ i # 0 => cs[i].id = CTL
    BY <1>2, FindProperties
  <2> HIDE DEF i
  <2> QED BY <1>3, <2>1
<1>5. /\ clients' = SetNotify(cs, i, l)
      /\ woken' = [woken EXCEPT ![t] = FALSE]
      /\ call' = [call EXCEPT ![t] = [op |-> "ready", cid |-> CTL, tid |-> NextTid, rid |-> NoId]]
      /\ Goto(t, "add") /\ stage' = stage
  BY <1>4, Zenon DEF SyncReady
<1>6. NextTid \in 0..MaxTid /\ w \in Waiter
  BY ConstantsAssumption, <1>2 DEF NextTid, TInv, TypeOK, Waiter
<1> HIDE DEF cs, i
<1>7. cs[i].notify \in Seq(Waiter) /\ cs[i] \in ClientMem /\ \A j \in 1..Len(cs) : cs[j] \in ClientMem
  <2>1. \A j \in 1..Len(cs) : cs[j] \in ClientMem BY <1>2
  <2> QED BY <1>3, <1>4, <2>1 DEF ClientMem
<1>8. l \in Seq(Waiter)
  <2> HIDE DEF w
  <2> QED BY <1>6, <1>7, AppendProperties
<1> HIDE DEF w, l
<1>9. /\ Same(cs, clients') /\ SameUrbs(cs, clients')
      /\ \A j \in 1..Len(cs) : clients'[j] = IF j = i THEN [cs[j] EXCEPT !.notify = l] ELSE cs[j]
  <2>1. i \in 0..Len(cs) BY <1>3, <1>4
  <2>2. \A j \in 1..Len(cs) :
           SetNotify(cs, i, l)[j] = IF j = i THEN [cs[j] EXCEPT !.notify = l] ELSE cs[j]
    BY <1>2, <1>8, <2>1, SetNotifyProperties
  <2> QED BY <1>2, <1>5, <1>8, <2>1, <2>2, SetFieldSame
<1>10. /\ Same(clients, clients') /\ SameUrbs(clients, clients')
       /\ \A j \in 1..Len(clients) :
            clients'[j].notify = IF j = i THEN l ELSE clients[j].notify
  BY <1>3, <1>7, <1>9, <1>2 DEF ClientMem, Same, SameUrbs, SameNotify
<1>11. /\ OnlyMoves(t) /\ pc'[t] = "add"
       /\ call'[t] = [op |-> "ready", cid |-> CTL, tid |-> NextTid, rid |-> NoId]
       /\ woken'[t] = FALSE /\ \A u \in Others(t) : woken'[u] = woken[u]
  <2>1. pc \in [Threads -> Pcs] /\ call \in [Threads -> CallSet] /\ woken \in [Threads -> BOOLEAN]
    BY DEF TInv, TypeOK, CallSet
  <2> HIDE DEF t
  <2> QED BY <1>2, <1>5, <2>1 DEF OnlyMoves, Others, Goto
<1>12. WaitInv'
  <2>1. \A j \in 1..Len(clients) :
          clients'[j].notify = IF j = i THEN Append(clients[i].notify, [tid |-> NextTid, t |-> t])
                               ELSE clients[j].notify
    BY <1>2, <1>4, <1>10 DEF SameNotify, l, w
  <2>2. ~Waiting(t) BY <1>1 DEF Waiting, Writing
  <2>3. Waiting(t)' BY <1>11 DEF Waiting, Writing
  <2>4. clients[i].id = CTL BY <1>3, <1>4
  <2>5. call'[t].cid = clients[i].id /\ call'[t].tid = NextTid BY <1>11, <2>4
  <2> HIDE DEF t
  <2> QED BY <1>1, <1>2, <1>4, <1>5, <1>6, <1>10, <1>11, <2>1, <2>2, <2>3, <2>5, EntryAdded
<1>13. OwnInv' BY <1>11, ConstantFacts, <1>1, <1>2, <1>10, OwnFrame DEF OwnOf
<1>14. WdsInv' BY <1>1, <1>5, <1>11 DEF Safe, WdsInv
<1>15. StartInv' BY <1>11, ConstantFacts, <1>1, <1>5 DEF OnlyMoves, Others, StartInv, Safe
<1> QED BY <1>1, <1>10, <1>11, <1>12, <1>13, <1>14, <1>15, SyncSafe

LEMMA SyncReadyEndSafe ==
  ASSUME TInv, TInv', Safe, SyncReadyEnd
  PROVE  Safe'
<1> DEFINE t == SyncT
           i == FindClientMem(clients, CTL)
           k == FirstMessage(clients[i].list, call[t].tid)
           j == FirstWaiter(clients[i].notify, call[t].tid)
           r == RemoveAt(clients[i].list, k)
           l == RemoveAt(clients[i].notify, j)
<1>1. /\ pc[t] = "asleep" /\ call[t].op = "ready" /\ lock = NoThread /\ t \in Threads
      /\ UNCHANGED <<valid, lock, freedUrb, mem, wds, id>> /\ freedUrb = {}
  BY ConstantFacts DEF SyncReadyEnd, LockFree, deviceVars, fileVars, writeVars, Safe, UrbInv
<1>2. stage = "ready" /\ call[t].cid = CTL
  BY <1>1 DEF TInv, SyncInv, Safe, StartInv, CallInv, CtlOps, Releasing
<1>3. /\ clients \in Seq(ClientMem) /\ ListInv /\ Len(clients) \in Nat
      /\ \A h \in 1..Len(clients) : clients[h] \in ClientMem
      /\ i \in 1..Len(clients) /\ clients[i].id = CTL /\ i # 0
  <2>1. clients \in Seq(ClientMem) /\ ListInv /\ Len(clients) \in Nat BY DEF TInv, TypeOK, Safe
  <2>2. /\ i \in 0..Len(clients)
        /\ i = 0 => \A h \in 1..Len(clients) : clients[h].id # CTL
        /\ i # 0 => clients[i].id = CTL
    BY <2>1, FindProperties
  <2> HIDE DEF i
  <2> QED BY <2>1, <2>2 DEF ListInv
<1>4. clients[i].list \in Seq(Msg) /\ clients[i].notify \in Seq(Waiter)
  <2> HIDE DEF i
  <2> QED BY <1>3 DEF ClientMem
<1>5. \/ /\ woken[t] /\ k # 0 /\ clients' = SetList(clients, i, r)
         /\ Return(t, TRUE) /\ UNCHANGED <<woken, cb, del>>
      \/ /\ Goto(t, "idle") /\ stage' \in {"done", stage} /\ UNCHANGED call
         /\ \/ woken[t] /\ UNCHANGED <<clients, woken, cb, del>>
            \/ ~woken[t] /\ j = 0 /\ UNCHANGED <<clients, woken>> /\ NotifyInstead(t, NoThread)
            \/ /\ ~woken[t] /\ j # 0 /\ clients' = SetNotify(clients, i, l)
               /\ woken' = [u \in Threads |-> woken[u] \/ (u = clients[i].notify[j].t /\ u # t)]
               /\ NotifyInstead(t, NoThread)
  <2>1. i # 0 BY <1>3
  <2> HIDE DEF i
  <2> QED BY <2>1, Zenon DEF SyncReadyEnd, i
<1> HIDE DEF i
<1>6. k \in 0..Len(clients[i].list) BY <1>4, MessageProperties
<1>7. /\ j \in 0..Len(clients[i].notify)
      /\ j = 0 => \A h \in 1..Len(clients[i].notify) : clients[i].notify[h].tid # call[t].tid
  BY <1>4, WaiterProperties
<1> HIDE DEF t, k, j
<1>8. CASE /\ woken[t] /\ k # 0 /\ clients' = SetList(clients, i, r)
           /\ Return(t, TRUE) /\ UNCHANGED <<woken, cb, del>>
  <2>1. Back(t) /\ pc'[t] = "idle" BY <1>1, <1>8, ReturnEffect DEF Back
  <2>2. k \in 1..Len(clients[i].list) /\ i \in 0..Len(clients) BY <1>3, <1>4, <1>6, <1>8
  <2>3. r \in Seq(Msg) BY <1>4, <2>2, RemoveAtProperties
  <2> HIDE DEF r
  <2>4. Same(clients, clients') /\ SameUrbs(clients, clients') /\ SameNotify(clients, clients')
    BY <1>3, <1>8, <2>2, <2>3, SetFieldSame
  <2>5. LessEntries /\ LessUrbs /\ OnlyMoves(t) BY <1>1, <2>1, <2>4, SameLess, BackEffect
  <2>6. UrbInv' BY <1>1, <2>5, UrbFrame
  <2>7. WaitInv' BY <1>1, <1>8, <2>1, <2>4, <2>5, MoveWaits
  <2>8. MemOf(t)' BY <2>1 DEF MemOf
  <2> QED BY <1>1, <1>8, <2>1, <2>4, <2>6, <2>7, <2>8, MoveSafe
<1>9. ASSUME Goto(t, "idle"), stage' \in {"done", stage}, UNCHANGED call, Same(clients, clients'),
             SameUrbs(clients, clients'), LessEntries, \A u \in Others(t) : woken'[u] = woken[u],
             \A u \in Threads : /\ del'[u].prev = del[u].prev /\ del'[u].this = del[u].this
                                /\ del'[u].next = del[u].next,
             cb'.pc = "up" => cb.pc = "up" /\ cb'.who \in {cb.who, Gone, NoThread},
             \/ woken[t]
             \/ (\A c \in Ids \union {CTL}, x \in 0..MaxTid : ~HasEntry(c, t, x)') /\ ~CbFor(t)'
      PROVE  Safe'
  <2>1. OnlyMoves(t) /\ pc'[t] = "idle" BY <1>9, <1>1 DEF Goto, TInv, TypeOK, OnlyMoves, Others
  <2>2. OwnInv' BY <1>1, <1>9, <2>1, ConstantFacts, OwnFrame DEF OwnOf, t
  <2>3. WaitInv' BY <1>9, <1>2, <1>1, <2>1, WaitFrame DEF Stays, WdsDone
  <2>4. WdsInv' BY <1>2, <1>1, <1>9, <2>1 DEF Safe, WdsInv, t
  <2>5. StartInv'
    BY <2>1, ConstantFacts, <1>1, <1>2, <1>9 DEF OnlyMoves, Others, t, StartInv, Safe
  <2> QED BY <1>1, <1>9, <2>1, <2>2, <2>3, <2>4, <2>5, SyncSafe DEF t
<1>10. ASSUME NotifyInstead(t, NoThread)
       PROVE  /\ \A u \in Threads : /\ del'[u].prev = del[u].prev /\ del'[u].this = del[u].this
                                    /\ del'[u].next = del[u].next
              /\ cb'.pc = "up" => cb.pc = "up" /\ cb'.who \in {cb.who, Gone, NoThread}
              /\ ~CbFor(t)'
  BY <1>1, ConstantFacts, <1>10, InsteadType DEF Notified, Instead, CbFor, t
<1>11. ASSUME NEW c \in Ids \union {CTL}, NEW x \in 0..MaxTid, HasEntry(c, t, x) PROVE c = CTL
  BY <1>1, <1>2, <1>11 DEF Safe, WaitInv, EntryOf
<1>12. CASE Goto(t, "idle") /\ stage' \in {"done", stage} /\ UNCHANGED call
            /\ woken[t] /\ UNCHANGED <<clients, woken, cb, del>>
  BY <1>12, SameLess, <1>9 DEF Same, SameUrbs, SameNotify
<1>13. CASE Goto(t, "idle") /\ stage' \in {"done", stage} /\ UNCHANGED call
            /\ j = 0 /\ UNCHANGED <<clients, woken>> /\ NotifyInstead(t, NoThread)
  <2>1. Same(clients, clients') /\ SameUrbs(clients, clients') /\ SameNotify(clients, clients')
    BY <1>13 DEF Same, SameUrbs, SameNotify
  <2>2. LessEntries BY <2>1, SameLess
  <2>3. ASSUME NEW c \in Ids \union {CTL}, NEW x \in 0..MaxTid, HasEntry(c, t, x)' PROVE FALSE
    <3>1. HasEntry(c, t, x) /\ c = CTL BY <1>1, <1>11, <2>2, <2>3 DEF LessEntries
    <3>2. PICK p \in 1..Len(clients) : clients[p].id = CTL /\
             \E h \in 1..Len(clients[p].notify) : clients[p].notify[h].t = t
      BY <3>1 DEF HasEntry
    <3>3. p = i BY <1>3, <3>2 DEF ListInv
    <3>4. PICK h \in 1..Len(clients[i].notify) : clients[i].notify[h].t = t BY <3>2, <3>3
    <3>5. clients[i].notify[h].tid = call[t].tid BY <1>2, <1>3, <3>4, OnlySync DEF t
    <3> QED BY <1>7, <1>13, <3>4, <3>5
  <2> QED BY <1>9, <1>10, <1>13, <2>1, <2>2, <2>3
<1>14. CASE /\ Goto(t, "idle") /\ stage' \in {"done", stage} /\ UNCHANGED call
            /\ j # 0 /\ clients' = SetNotify(clients, i, l)
            /\ woken' = [u \in Threads |-> woken[u] \/ (u = clients[i].notify[j].t /\ u # t)]
            /\ NotifyInstead(t, NoThread)
  <2>1. j \in 1..Len(clients[i].notify) /\ i \in 0..Len(clients) BY <1>3, <1>4, <1>7, <1>14
  <2>2. clients[i].notify[j].t = t BY <1>2, <1>3, <2>1, OnlySync DEF t
  <2>3. \A u \in Others(t) : woken'[u] = woken[u] BY <1>14, <2>2 DEF Others, TInv, TypeOK
  <2>4. l \in Seq(Waiter) BY <1>4, <2>1, RemoveAtProperties
  <2> HIDE DEF l
  <2>5. /\ Same(clients, clients') /\ SameUrbs(clients, clients')
        /\ \A h \in 1..Len(clients) : clients'[h].notify = IF h = i THEN l ELSE clients[h].notify
    <3>1. Same(clients, clients') /\ SameUrbs(clients, clients')
      BY <1>3, <1>14, <2>1, <2>4, SetFieldSame
    <3>2. \A h \in 1..Len(clients) :
             SetNotify(clients, i, l)[h] = IF h = i THEN [clients[h] EXCEPT !.notify = l] ELSE clients[h]
      BY <1>3, <2>1, <2>4, SetNotifyProperties
    <3> QED BY <1>3, <1>14, <3>1, <3>2 DEF ClientMem
  <2>6. /\ LessEntries
        /\ \A c, u, x : HasEntry(c, u, x)' =>
             c # clients[i].id \/ u # clients[i].notify[j].t \/ u = WdsCb
    BY <1>3, <2>1, <2>5, RemoveEntry DEF l
  <2>7. ASSUME NEW c \in Ids \union {CTL}, NEW x \in 0..MaxTid, HasEntry(c, t, x)' PROVE FALSE
    BY <1>1, <1>11, <2>6, <2>7, <1>3, <2>2, ConstantFacts DEF LessEntries, t
  <2> QED BY <1>9, <1>10, <1>14, <2>3, <2>5, <2>6, <2>7
<1> QED BY <1>5, <1>8, <1>12, <1>13, <1>14

LEMMA SyncCtlSafe ==
  ASSUME TInv, TInv', Safe, SyncCtl
  PROVE  Safe'
<1>1. /\ pc[SyncT] = "idle" /\ SyncT \in Threads
      /\ UNCHANGED <<valid, lock, freedUrb, mem, cb, wds, id, del, stage, woken>>
  BY ConstantFacts DEF SyncCtl, SyncIdle, deviceVars, fileVars, writeVars, syncVars, readVars
<1>2. PICK op \in {"sync", "get"}, c \in Ids \union {NoId} :
        BeginCtl(SyncT, op, c) /\ (op = "sync" => stage = "sync")
  BY ConstantsAssumption DEF SyncCtl
<1>3. /\ Same(clients, clients') /\ SameNotify(clients, clients') /\ SameUrbs(clients, clients')
      /\ OnlyMoves(SyncT) /\ pc'[SyncT] = "add"
      /\ call'[SyncT] = [op |-> op, cid |-> CTL, tid |-> NextTid, rid |-> c]
  BY <1>1, <1>2, BeginCtlEffect
<1>4. OwnInv' BY <1>3, ConstantFacts, <1>1, OwnFrame DEF OwnOf
<1>5. WaitInv' BY <1>1, <1>3, SameLess, WaitFrame DEF Waiting, Writing, Stays, WdsDone
<1>6. WdsInv' BY <1>3, HasSame, <1>1 DEF Safe, WdsInv, Has
<1>7. StartInv' BY <1>3, ConstantFacts, <1>1, <1>2 DEF OnlyMoves, Others, StartInv, Safe
<1> QED BY <1>1, <1>3, <1>4, <1>5, <1>6, <1>7, SyncSafe

\* The driver registers QMIWDSCallback.
LEMMA WdsRegistered ==
  ASSUME TInv, TInv', Safe, pc[SyncT] = "idle", stage = "wds", stage' \in {"dms", "done"},
         OnlyMoves(SyncT), pc'[SyncT] = "idle", call'[SyncT] = NoCall,
         UNCHANGED <<valid, lock, freedUrb, mem, cb, wds, id, del, woken>>,
         LET i == FindClientMem(clients, wds) IN
         \/ i = 0 /\ UNCHANGED clients
         \/ /\ i # 0
            /\ clients' = SetNotify(SetList(clients, i, <<>>), i,
                                    Append(clients[i].notify, [tid |-> 0, t |-> WdsCb]))
  PROVE  Safe'
<1> DEFINE i == FindClientMem(clients, wds)
           cs == SetList(clients, i, <<>>)
           d == [tid |-> 0, t |-> WdsCb]
           l == Append(clients[i].notify, d)
<1>1. /\ clients \in Seq(ClientMem) /\ \A j \in 1..Len(clients) : clients[j] \in ClientMem
      /\ CbInv /\ OneEntry /\ WdsEntry /\ StartInv /\ WdsInv /\ SyncT \in Threads
  BY ClientTypes, ConstantFacts DEF Safe, WaitInv
<1>2. i \in 0..Len(clients) /\ (i # 0 => clients[i].id = wds) BY <1>1, FindProperties
<1>3. d \in Waiter /\ d.t = WdsCb BY ConstantsAssumption DEF Waiter
<1>4. /\ Same(clients, clients') /\ SameUrbs(clients, clients') /\ OneEntry'
      /\ \A c, u, x : HasEntry(c, u, x)' => HasEntry(c, u, x) \/ (c = wds /\ u = WdsCb)
  <2>1. CASE UNCHANGED clients BY <1>1, <2>1 DEF Same, SameUrbs, OneEntry, Once, HasEntry
  <2>2. CASE i # 0 /\ clients' = SetNotify(cs, i, l)
    <3>1. i \in 1..Len(clients) BY <1>2, <2>2
    <3> HIDE DEF i
    <3>2. clients[i].notify \in Seq(Waiter) /\ clients[i].id = wds
      BY <1>1, <1>2, <2>2, <3>1 DEF ClientMem
    <3> HIDE DEF d
    <3>3. l \in Seq(Waiter) BY <1>3, <3>2, AppendProperties
    <3>4. <<>> \in Seq(Msg) BY EmptySeq
    <3>5. Same(clients, cs) /\ SameNotify(clients, cs) /\ SameUrbs(clients, cs) /\ cs \in Seq(ClientMem)
      <4>1. i \in 0..Len(clients) BY <3>1
      <4> QED BY <1>1, <3>4, <4>1, SetFieldSame
    <3> HIDE DEF cs, l
    <3>6. i \in 0..Len(cs) /\ Len(cs) = Len(clients) /\ \A j \in 1..Len(cs) : cs[j] \in ClientMem
      BY <3>1, <3>5 DEF Same
    <3>7. Same(cs, clients') /\ SameUrbs(cs, clients') BY <2>2, <3>3, <3>5, <3>6, SetFieldSame
    <3>8. \A j \in 1..Len(cs) :
             SetNotify(cs, i, l)[j] = IF j = i THEN [cs[j] EXCEPT !.notify = l] ELSE cs[j]
      BY <3>3, <3>5, <3>6, SetNotifyProperties
    <3>9. \A j \in 1..Len(clients) : clients'[j].notify = IF j = i THEN l ELSE clients[j].notify
      BY <2>2, <3>6, <3>8, <3>5 DEF ClientMem, SameNotify
    <3>10. Same(clients, clients') /\ SameUrbs(clients, clients')
      BY <3>5, <3>6, <3>7 DEF Same, SameUrbs
    <3>11. /\ OneEntry'
           /\ \A c, u, x : HasEntry(c, u, x)' =>
                HasEntry(c, u, x) \/ (c = clients[i].id /\ u = d.t /\ x = d.tid)
      BY <1>3, <3>1, <3>9, <3>10, AppendEntry DEF l
    <3> QED BY <1>3, <3>2, <3>10, <3>11
  <2> QED BY <2>1, <2>2
<1> HIDE DEF i
<1>5. ~WdsDone /\ WdsDone' /\ ~Waiting(SyncT) BY DEF WdsDone, Waiting, Writing
<1>6. WaitInv'
  <2>1. CbInv' BY <1>1, <1>5 DEF CbInv, Others, Waiting, OnlyMoves
  <2>2. WdsEntry' BY <1>1, <1>4, <1>5 DEF WdsEntry
  <2>3. ASSUME NEW u \in Threads PROVE EntryOf(u)'
    BY <1>4, ConstantFacts, <1>5 DEF Safe, WaitInv, Others, EntryOf, CbFor, Waiting, OnlyMoves
  <2> QED BY <1>4, <2>1, <2>2, <2>3 DEF WaitInv
<1>7. OwnInv' BY ConstantFacts, <1>1, <1>4, OwnFrame DEF OwnOf, NoCall
<1>8. WdsInv'
  <2>1. \A e : e = wds /\ e # NoId => Has("driver", e)' BY <1>1, <1>4, HasSame DEF WdsInv
  <2>2. wds # NoId => Has("driver", wds)' BY <2>1 DEF Has
  <2> QED BY <2>2 DEF WdsInv, NoCall
<1>9. StartInv' BY ConstantFacts, <1>1 DEF OnlyMoves, Others, StartInv, NoCall
<1> QED BY <1>4, <1>6, <1>7, <1>8, <1>9, SyncSafe

LEMMA SyncIoSafe ==
  ASSUME TInv, TInv', Safe, SyncIo
  PROVE  Safe'
<1> DEFINE t == SyncT
           c == id["driver"]
           Io(op, x) == [op |-> op, cid |-> c, tid |-> x, rid |-> NoId]
<1>1. /\ pc[t] = "idle" /\ t \in Threads /\ call[t].op # "ready" /\ ~Waiting(t)
      /\ UNCHANGED <<valid, lock, freedUrb, mem, cb, wds, del, woken>>
      /\ \/ /\ call[t].op = "get" /\ call' = [call EXCEPT ![t] = Io("write", 0)]
            /\ Goto(t, "add") /\ UNCHANGED <<clients, id, stage>>
         \/ /\ call[t].op = "write" /\ stage # "wds" /\ call' = [call EXCEPT ![t] = Io("read", 1)]
            /\ Goto(t, "try") /\ UNCHANGED <<clients, id, stage>>
         \/ /\ call[t].op = "read" /\ BeginCtl(t, "rel", c)
            /\ id' = [id EXCEPT !["driver"] = NoId] /\ UNCHANGED stage
         \/ /\ call[t].op = "write" /\ stage = "wds" /\ stage' \in {"dms", "done"}
            /\ LET i == FindClientMem(clients, wds) IN
               \/ i = 0 /\ UNCHANGED clients
               \/ /\ i # 0
                  /\ clients' = SetNotify(SetList(clients, i, <<>>), i,
                                          Append(clients[i].notify, [tid |-> 0, t |-> WdsCb]))
            /\ call' = [call EXCEPT ![t] = NoCall] /\ UNCHANGED <<id, pc>>
  BY ConstantFacts DEF SyncIo, SyncIdle, Waiting, Writing, deviceVars, writeVars, readVars
<1> HIDE DEF c
<1>2. pc \in [Threads -> Pcs] /\ call \in [Threads -> CallSet] /\ OwnInv /\ WdsInv /\ StartInv
  BY DEF TInv, TypeOK, CallSet, Safe
<1>3. \A f \in Files : Main(f) # t /\ Reader(f) # t /\ Main(f) \in Threads /\ Reader(f) \in Threads
  BY ConstantFacts
<1>4. ASSUME OnlyMoves(t), pc'[t] \in {"add", "try"}, UNCHANGED stage,
             Same(clients, clients'), SameNotify(clients, clients'), SameUrbs(clients, clients'),
             call'[t].op \in {"write", "read", "rel"}, \A f \in Files : id'[f] = id[f], OwnInv',
             call'[t].op = "rel" => call'[t].rid # wds,
             call'[t].op = "read" => stage # "wds",
             call'[t].op # "rel" /\ stage = "dms" => id'["driver"] # wds
      PROVE  Safe'
  <2>1. WaitInv' BY <1>1, <1>4, SameLess, WaitFrame DEF Stays, WdsDone
  <2>2. WdsInv'
    <3>1. \A d : d = wds /\ d # NoId => Has("driver", d)' BY <1>2, <1>4, HasSame DEF WdsInv
    <3>2. wds # NoId => Has("driver", wds)' BY <1>1, <3>1 DEF Has
    <3> QED BY <1>1, <1>2, <1>4, <3>2 DEF WdsInv
  <2>3. StartInv' BY <1>2, <1>3, <1>4 DEF StartInv, OnlyMoves, Others
  <2> QED BY <1>1, <1>4, <2>1, <2>2, <2>3, SyncSafe
<1>5. ASSUME UNCHANGED <<clients, id, stage>>, NEW op \in {"write", "read"}, NEW x \in {0, 1},
             call' = [call EXCEPT ![t] = Io(op, x)], NEW where \in {"add", "try"}, Goto(t, where),
             op = "read" => stage # "wds", stage = "dms" => c # wds
      PROVE  Safe'
  <2>1. /\ OnlyMoves(t) /\ pc'[t] = where
        /\ call'[t].op = op /\ call'[t].cid = c
    <3>1. pc' = [pc EXCEPT ![t] = where] BY <1>5 DEF Goto
    <3> HIDE DEF t
    <3> QED BY <1>1, <1>2, <1>5, <3>1 DEF OnlyMoves, Others
  <2>2. Same(clients, clients') /\ SameUrbs(clients, clients') /\ SameNotify(clients, clients')
    BY <1>5 DEF Same, SameUrbs, SameNotify
  <2>3. OwnInv'
    <3>1. OwnOf(t)' BY <1>5, <2>1, ConstantFacts DEF t, SyncT, c, OwnOf
    <3> QED BY <1>1, <1>5, <2>1, <2>2, <3>1, OwnFrame
  <2>4. id'["driver"] = c BY <1>5 DEF c
  <2> QED BY <1>4, <1>5, <2>1, <2>2, <2>3, <2>4
<1>6. CASE /\ call[t].op = "get" /\ call' = [call EXCEPT ![t] = Io("write", 0)]
           /\ Goto(t, "add") /\ UNCHANGED <<clients, id, stage>>
  BY <1>1, <1>2, <1>6, <1>5 DEF WdsInv, c
<1>7. CASE /\ call[t].op = "write" /\ stage # "wds" /\ call' = [call EXCEPT ![t] = Io("read", 1)]
           /\ Goto(t, "try") /\ UNCHANGED <<clients, id, stage>>
  BY <1>1, <1>2, <1>7, <1>5 DEF WdsInv, c
<1>8. CASE /\ call[t].op = "read" /\ BeginCtl(t, "rel", c)
           /\ id' = [id EXCEPT !["driver"] = NoId] /\ UNCHANGED stage
  <2>1. c = call[t].cid /\ c \in Ids
    BY <1>1, <1>2, <1>8 DEF OwnInv, TInv, OwnOf, CallInv, SyncT, c
  <2>2. c # wds
    <3>1. stage \in {"wda", "sync", "dms", "wds"} BY <1>8 DEF TInv, SyncInv, TypeOK
    <3>2. c # NoId BY <2>1, ConstantFacts
    <3> QED BY <1>2, <1>8, <3>1, <3>2 DEF WdsInv, c
  <2>3. /\ Same(clients, clients') /\ SameNotify(clients, clients') /\ SameUrbs(clients, clients')
        /\ OnlyMoves(t) /\ pc'[t] = "add"
        /\ call'[t] = [op |-> "rel", cid |-> CTL, tid |-> NextTid, rid |-> c]
    BY <1>1, <1>8, <2>1, BeginCtlEffect
  <2>4. /\ id'["driver"] = NoId /\ \A h \in Holders : h # "driver" => id'[h] = id[h]
        /\ \A f \in Files : id'[f] = id[f]
    BY ConstantFacts, <1>8 DEF Holders, TInv, TypeOK
  <2>5. \A h, d : Has(h, d)' <=> Has(h, d) BY <2>3, HasSame
  <2>6. OwnInv'
    <3>1. ASSUME NEW h \in Holders, id'[h] # NoId PROVE Has(h, id[h])'
      <4>1. id'[h] = id[h] BY <2>4, <3>1
      <4>2. \A d : d = id[h] => Has(h, d)' BY <1>2, <2>5, <3>1, <4>1 DEF OwnInv
      <4> QED BY <4>1, <4>2 DEF Has
    <3>2. OwnOf(t)'
      <4>1. \A d : d = c => Has("driver", d)'
        BY <2>1, ConstantFacts, <1>2, <2>5 DEF Holders, OwnInv, c
      <4>2. call'[t].op = "rel" /\ call'[t].rid = c BY <2>3
      <4>3. Has(t[1], call[t].rid)' BY <4>1, <4>2 DEF Has, t, SyncT
      <4>4. id'[t[1]] = NoId BY <2>4 DEF t, SyncT
      <4> QED BY <2>1, <2>3, <4>2, <4>3, <4>4, ConstantFacts DEF OwnOf
    <3>3. ASSUME NEW u \in Others(t) PROVE OwnOf(u)'
      <4>1. OwnOf(u) /\ pc'[u] = pc[u] /\ call'[u] = call[u] /\ u \in Threads /\ u[1] \in Holders
        BY <1>2, <2>3, ConstantFacts DEF OwnInv, OnlyMoves, Others
      <4>2. CASE u = ExitT BY <2>5, <4>1, <4>2, ConstantFacts DEF OwnOf, NoCall
      <4>3. CASE u # ExitT
        <5>1. PICK f \in Files : u = Main(f) \/ u = Reader(f)
          BY <4>1, <4>3, ConstantFacts DEF Others
        <5>2. u[1] # "driver" BY <5>1, ConstantFacts
        <5>3. id'[u[1]] = id[u[1]] BY <2>4, <4>1, <5>2
        <5> QED BY <2>5, <4>1, <5>3 DEF OwnOf
      <4> QED BY <4>2, <4>3
    <3> QED BY <3>1, <3>2, <3>3 DEF OwnInv, Others
  <2>7. call'[t].op = "rel" /\ call'[t].rid # wds BY <2>2, <2>3
  <2> QED BY <1>4, <1>8, <2>3, <2>4, <2>6, <2>7
<1>9. CASE /\ call[t].op = "write" /\ stage = "wds" /\ stage' \in {"dms", "done"}
           /\ LET i == FindClientMem(clients, wds) IN
              \/ i = 0 /\ UNCHANGED clients
              \/ /\ i # 0
                 /\ clients' = SetNotify(SetList(clients, i, <<>>), i,
                                         Append(clients[i].notify, [tid |-> 0, t |-> WdsCb]))
           /\ call' = [call EXCEPT ![t] = NoCall] /\ UNCHANGED <<id, pc>>
  <2>1. OnlyMoves(t) /\ pc'[t] = "idle" /\ call'[t] = NoCall
    <3> HIDE DEF t
    <3> QED BY <1>1, <1>2, <1>9 DEF OnlyMoves, Others
  <2> QED BY <1>1, <1>9, <2>1, WdsRegistered
<1> QED BY <1>1, <1>6, <1>7, <1>8, <1>9

LEMMA InitSafe ==
  ASSUME Init, TInv
  PROVE  Safe
<1>1. clients = << [id |-> CTL, owner |-> "driver", list |-> <<>>, notify |-> <<>>,
                    urbs |-> <<>>] >>
  BY DEF Init
<1>2. /\ Len(clients) = 1 /\ clients[1].id = CTL /\ clients[1].notify = <<>>
      /\ clients[1].urbs = <<>>
  BY <1>1
<1>3. /\ valid /\ stage = "ready" /\ wds = NoId /\ freedUrb = {} /\ cb.pc = "idle"
      /\ id = [h \in Holders |-> NoId]
      /\ \A t \in Threads : pc[t] = "idle" /\ call[t] = NoCall
  BY DEF Init, CbIdle
<1>4. ListInv BY <1>2 DEF ListInv
<1>5. OwnInv BY <1>3 DEF OwnInv, OwnOf, NoCall
<1>6. UrbInv BY <1>2, <1>3 DEF UrbInv, OneUrb, UrbOf, HasUrb
<1>7. WaitInv BY <1>2, <1>3 DEF WaitInv, CbInv, OneEntry, Once, WdsEntry, EntryOf, HasEntry
<1>8. WdsInv /\ StartInv BY <1>3, ConstantFacts DEF WdsInv, StartInv, NoCall
<1>9. DelInv /\ MemInv BY <1>3 DEF DelInv, DelOf, MemInv, MemOf
<1> QED BY <1>3, <1>4, <1>5, <1>6, <1>7, <1>8, <1>9 DEF Safe

\* Neither DeregisterQMIDevice nor a forced release is undone.
LEMMA DisturbedStays ==
  ASSUME Disturbed, [Next]_vars
  PROVE  Disturbed'
<1>1. ASSUME NEW f \in Files, FileStep(f) PROVE Disturbed'
  BY <1>1 DEF Disturbed, FileStep, GetService, ForceRelease, GetAgain, UserspaceWrite,
     UserspaceRead, BeginIo, UserspaceClose, deviceVars
<1>2. ASSUME NEW t \in Threads,
             WriteStep(t) \/ ReadStep(t) \/ ClientInsert(t) \/ ClientReturn(t)
      PROVE  Disturbed'
  BY <1>2 DEF Disturbed, WriteStep, WriteAdd, WriteSubmit, WriteWake, ReadStep, ReadTry, ReadWake,
     ReadInterrupted, ReadGiveUp, ClientInsert, ClientReturn, deviceVars
<1>3. ASSUME NEW t \in Threads, ReleaseStep(t) PROVE Disturbed'
  BY <1>3 DEF Disturbed, ReleaseStep, ReleaseFind, ReleaseNotify, ReleaseUp, ReleaseUrb,
     ReleaseFree, deviceVars
<1>4. CASE WriteSyncCallback \/ ReadCallback \/ CallbackStep
  BY <1>4 DEF Disturbed, WriteSyncCallback, ReadCallback, CallbackStep, CallbackDeliver,
     CallbackUp, CallbackOn, deviceVars
<1>5. CASE SyncStep \/ Unplug \/ Unbind \/ Deregister
  BY <1>5 DEF Disturbed, SyncStep, SyncReady, SyncReadyEnd, SyncCtl, SyncIo, Unplug, Unbind,
     Deregister, deviceVars
<1>6. CASE UNCHANGED vars BY <1>6 DEF Disturbed, vars, deviceVars
<1> QED BY <1>1, <1>2, <1>3, <1>4, <1>5, <1>6 DEF Next

LEMMA StepSafe ==
  ASSUME TInv, TInv', SInv, [Next]_vars
  PROVE  SInv'
<1>1. CASE Disturbed BY <1>1, DisturbedStays DEF SInv
<1>2. CASE ~Disturbed
  <2>1. Safe BY <1>2 DEF SInv
  <2>2. CASE UNCHANGED vars
    BY <2>1, <2>2, Untouched
       DEF vars, deviceVars, syncVars, fileVars, readVars, writeVars, modemVars, SInv
  <2>3. ASSUME NEW f \in Files, FileStep(f) PROVE SInv'
    <3>1. CASE ForceRelease(f) BY <2>1, <3>1 DEF ForceRelease, Safe, SInv, Disturbed
    <3>2. CASE ~ForceRelease(f)
      BY ConstantFacts, <1>2, <2>1, <2>3, <3>2, GetServiceSafe, BeginIoSafe, UserspaceCloseSafe
         DEF FileStep, UserspaceWrite, UserspaceRead, Disturbed, SInv
    <3> QED BY <3>1, <3>2
  <2>4. ASSUME NEW t \in Threads,
               WriteStep(t) \/ ReadStep(t) \/ ClientInsert(t) \/ ClientReturn(t)
        PROVE  Safe'
    BY <2>1, <2>4, WriteAddSafe, WriteSubmitSafe, WriteWakeSafe, ReadTrySafe, ReadWakeSafe,
       ReadInterruptedSafe, ReadGiveUpSafe, ClientInsertSafe, ClientReturnSafe
       DEF WriteStep, ReadStep
  <2>5. ASSUME NEW t \in Threads, ReleaseStep(t) PROVE Safe'
    BY <2>1, <2>5, ReleaseFindSafe, ReleaseNotifySafe, NoReleaseUp, ReleaseFreeSafe
       DEF ReleaseStep
  <2>6. CASE WriteSyncCallback \/ ReadCallback \/ CallbackStep
    BY <2>1, <2>6, WriteSyncCallbackSafe, ReadCallbackSafe, CallbackDeliverSafe,
       CallbackUpSafe, CallbackOnSafe DEF CallbackStep, SInv
  <2>7. CASE SyncStep
    BY <2>1, <2>7, SyncReadySafe, SyncReadyEndSafe, SyncCtlSafe, SyncIoSafe
       DEF SyncStep, SInv
  <2>8. CASE Unplug
    BY <2>1, <2>8, Untouched DEF Unplug, syncVars, fileVars, readVars, writeVars, SInv
  <2>9. CASE Unbind \/ Deregister BY <1>2, <2>9 DEF Unbind, Deregister, SInv, Disturbed
  <2> QED BY <2>2, <2>3, <2>4, <2>5, <2>6, <2>7, <2>8, <2>9 DEF Next, SInv
<1> QED BY <1>1, <1>2

\* The id an open file keeps is that of a client in the list, the client is its
\* own and the only one with that id, whatever other files are opened, closed
\* or interrupted meanwhile, until DeregisterQMIDevice begins or an ioctl for
\* QMIWDA that failed begins to release that service's client.
THEOREM FilesHaveClients == Spec => []FileHasClient
<1>1. TInv /\ SInv => FileHasClient
  <2>1. SUFFICES ASSUME TInv, Safe PROVE FileHasClient BY DEF SInv, FileHasClient
  <2>2. DOMAIN clients = 1..Len(clients) BY <2>1, ClientTypes
  <2> QED BY <2>1, <2>2 DEF Safe, OwnInv, ListInv, Has, FileHasClient
<1>2. Init => TInv /\ SInv BY InitTypes, InitSafe DEF SInv
<1>3. TInv /\ SInv /\ [Next]_vars => (TInv /\ SInv)' BY StepTypes, StepSafe
<1> QED BY <1>1, <1>2, <1>3, PTL DEF Spec

LEMMA PlaceOfClient ==
  ASSUME TInv, Safe, NEW i \in 1..Len(clients)
  PROVE  Place(RefOf(clients[i])) = i
<1>1. clients \in Seq(ClientMem) BY DEF TInv, TypeOK
<1> DEFINE r == RefOf(clients[i])
<1>2. /\ Place(r) \in 1..Len(clients) /\ RefOf(clients[Place(r)]) = r BY <1>1, PlaceProperties
<1>3. clients[Place(r)].id = clients[i].id BY <1>2 DEF RefOf
<1> QED BY <1>2, <1>3 DEF Safe, ListInv

LEMMA NothingFreed ==
  ASSUME TInv, Safe, NEW t \in Threads, pc[t] # "named"
  PROVE  /\ ~UsesFreed(t)
         /\ pc[t] \in {"up", "notify", "urbs"} =>
              LET i == Place(del[t].this) IN
              i # 0 /\ At(i - 1) = del[t].prev /\ At(i + 1) = del[t].next
<1>1. DOMAIN clients = 1..Len(clients) BY ClientTypes
<1>2. \A j : Live(At(j))
  <2>1. SUFFICES ASSUME NEW j PROVE Live(At(j)) OBVIOUS
  <2>2. CASE j \in 1..Len(clients) BY <1>1, <2>2, PlaceOfClient DEF At, Live
  <2>3. CASE j \notin 1..Len(clients) BY <1>1, <2>3 DEF At, Live
  <2> QED BY <2>2, <2>3
<1>3. CASE pc[t] \in {"notify", "up", "urbs"}
  <2>1. PICK i \in 1..Len(clients) : /\ RefOf(clients[i]) = del[t].this
                                     /\ At(i - 1) = del[t].prev /\ At(i + 1) = del[t].next
    BY <1>3 DEF Safe, DelInv, DelOf
  <2>2. Place(del[t].this) = i BY <2>1, PlaceOfClient
  <2>3. Live(del[t].prev) /\ Live(del[t].this) /\ Live(del[t].next) BY <1>2, <2>1, <2>2 DEF Live
  <2> QED BY <1>3, <2>1, <2>2, <2>3 DEF UsesFreed
<1>4. CASE pc[t] \in {"submit", "written"} BY <1>4 DEF UsesFreed, Safe, UrbInv
<1>5. CASE pc[t] = "giveup"
  <2>1. call[t].op # "ready" BY <1>5 DEF TInv, CallInv
  <2>2. PICK i \in 1..Len(clients) : RefOf(clients[i]) = mem[t]
    BY <1>5, <2>1 DEF Safe, MemInv, MemOf
  <2>3. Live(mem[t]) BY <2>2, PlaceOfClient DEF Live
  <2> QED BY <1>5, <2>3 DEF UsesFreed
<1> QED BY <1>3, <1>4, <1>5 DEF UsesFreed

\* The client the read callback goes on from.

LEMMA FaultSpent ==
  ASSUME TInv, Fault
  PROVE  spent'.fault # 0
BY ConstantsAssumption DEF TInv, TypeOK, Fault, Spend

LEMMA KeptSame ==
  ASSUME CbAt, Same(clients, clients')
  PROVE  Kept
BY DEF CbAt, CbOut, Kept, Same, RefOf

LEMMA CbMove ==
  ASSUME CbAt, NEW t \in Threads, OnlyMoves(t), CbStill, Kept,
         \A u \in Others(t) : done'[u] = done[u],
         CbOut /\ pc'[t] # "idle" /\ call'[t].op = "rel" /\ call'[t].rid = cb.at.id => Late(t)'
  PROVE  CbAt'
<1>1. SUFFICES ASSUME CbOut' PROVE CbAt' BY DEF CbAt, CbOut
<1>2. CbOut /\ cb'.at = cb.at BY <1>1 DEF CbStill
<1>3. ASSUME NEW u \in Threads, pc'[u] # "idle", call'[u].op = "rel", call'[u].rid = cb'.at.id
      PROVE  Late(u)'
  BY <1>2, <1>3 DEF OnlyMoves, Others, CbAt, CbOut, Late
<1> QED BY <1>2, <1>3 DEF Kept, CbAt

\* A call that begins asks the modem for the release first.
LEMMA CbBegin ==
  ASSUME CbAt, NEW t \in Threads, OnlyMoves(t), UNCHANGED <<cb, done>>, Same(clients, clients'),
         pc'[t] \in {"idle", "add"} \/ call'[t].op # "rel"
  PROVE  CbAt'
BY CbMove, KeptSame DEF CbStill, Late, Writing, CbOut

\* Who is not at its request does not release the client.
LEMMA CbCalm ==
  ASSUME TInv, CbAt, NEW t \in Threads, On(t) \/ Back(t), pc[t] # "idle",
         CbOut /\ call[t].op = "rel" /\ call[t].rid = cb.at.id => ~Late(t),
         Kept, CbStill, \A u \in Others(t) : done'[u] = done[u]
  PROVE  CbAt'
<1>1. OnlyMoves(t) BY BackEffect DEF On
<1>2. On(t) \/ pc'[t] = "idle" BY BackEffect
<1> QED BY <1>1, <1>2, CbMove DEF On, CbAt, CbOut

LEMMA NoChange ==
  ASSUME UNCHANGED clients
  PROVE  Same(clients, clients')
BY DEF Same

LEMMA WriteCb ==
  ASSUME TInv, TInv', Safe, CbAt, attached, spent'.fault = 0, NEW t \in Threads, WriteStep(t)
  PROVE  CbAt'
<1> USE DEF CbStill, CbOut
<1>1. ~Fault /\ ListInv /\ CallInv(t) /\ valid /\ done \in [Threads -> {"no", "ok", "err"}]
  BY FaultSpent DEF Safe, TInv, TypeOK
<1>2. CASE WriteAdd(t)
  <2>1. pc[t] = "add" /\ pc[t] # "idle" /\ cb' = cb BY <1>2 DEF WriteAdd
  <2>2. CASE FindClientMem(clients, call[t].cid) # 0
    <3> DEFINE i == FindClientMem(clients, call[t].cid)
               u == [t |-> t, n |-> StillListed(t)]
    <3>1. /\ clients' = SetUrbs(clients, i, Append(clients[i].urbs, u))
          /\ done' = [done EXCEPT ![t] = "no"] /\ Goto(t, "submit") /\ UNCHANGED <<stage, call>>
      BY <1>1, <1>2, <2>2, Zenon DEF WriteAdd
    <3>2. On(t) /\ pc'[t] = "submit" /\ OnlyMoves(t) BY <3>1, GotoOn DEF Pcs, On
    <3>3. Same(clients, clients')
      <4>1. u \in Urb BY DEF Urb, StillListed
      <4> HIDE DEF u
      <4>2. i \in 1..Len(clients) /\ i \in 0..Len(clients) BY <2>2, ClientTypes, FindProperties
      <4> HIDE DEF i
      <4>3. clients[i].urbs \in Seq(Urb) BY <4>2, ClientTypes DEF ClientMem
      <4>4. Append(clients[i].urbs, u) \in Seq(Urb) BY <4>1, <4>3, AppendProperties
      <4> QED BY <3>1, <4>2, <4>4, ClientTypes, SetFieldSame
    <3>4. Late(t)' /\ \A v \in Others(t) : done'[v] = done[v]
      BY <1>1, <3>1, <3>2 DEF Late, Writing, Others
    <3> QED BY <2>1, <3>2, <3>3, <3>4, KeptSame, CbMove
  <2>3. CASE FindClientMem(clients, call[t].cid) = 0
    <3>1. WriteFailed(t) /\ UNCHANGED <<clients, done>> BY <1>2, <2>3 DEF WriteAdd
    <3>2. call[t].cid # CTL BY <1>1, <2>3, ClientTypes, FindProperties DEF ListInv
    <3>3. call[t].op # "rel" BY <1>1, <2>1, <3>2 DEF CallInv, CtlOps, Releasing
    <3> QED BY <2>1, <3>1, <3>3, WriteFailedMoves, NoChange, KeptSame, CbCalm
  <2> QED BY <2>2, <2>3
<1>3. CASE WriteSubmit(t)
  <2>1. /\ pc[t] = "submit" /\ Goto(t, "written") /\ UNCHANGED <<stage, call, clients, done, cb>>
    BY <1>1, <1>3 DEF WriteSubmit
  <2>2. On(t) /\ pc'[t] = "written" /\ OnlyMoves(t) BY <2>1, GotoOn DEF Pcs, On
  <2>3. CbOut /\ call[t].op = "rel" /\ call[t].rid = cb.at.id => Late(t)'
    BY <2>1, <2>2 DEF CbAt, Late, Writing
  <2> QED BY <2>1, <2>2, <2>3, NoChange, KeptSame, CbMove
<1>4. CASE WriteWake(t)
  <2>1. /\ pc[t] = "written" /\ done[t] # "no" /\ cb' = cb /\ ~Late(t)
        /\ PopFromURBList(t) /\ (WriteOk(t) \/ WriteFailed(t))
        /\ done' = [done EXCEPT ![t] = "no"]
    BY <1>1, <1>4 DEF WriteWake, Late
  <2>2. Same(clients, clients') BY <2>1, PopUrb
  <2>3. \A u \in Others(t) : done'[u] = done[u] BY <1>1, <2>1 DEF Others
  <2>4. On(t) \/ Back(t) BY <2>1, WriteOkMoves, WriteFailedMoves
  <2> QED BY <2>1, <2>2, <2>3, <2>4, KeptSame, CbCalm
<1> QED BY <1>2, <1>3, <1>4 DEF WriteStep

LEMMA ReadCb ==
  ASSUME TInv, TInv', Safe, CbAt, NEW t \in Threads,
         ReadStep(t) \/ ClientInsert(t) \/ ClientReturn(t)
  PROVE  CbAt'
<1> USE DEF CbStill, CbOut
<1>1. CASE pc[t] \in {"try", "asleep", "giveup"}
  <2>1. ~Late(t) /\ pc[t] # "idle" BY <1>1 DEF Late, Writing
  <2>2. done' = done BY DEF ReadStep, ReadTry, ReadWake, ReadInterrupted, ReadGiveUp, ClientInsert,
     ClientReturn, writeVars
  <2>3. CbStill
    BY DEF ReadStep, ReadTry, ReadWake, ReadInterrupted, ReadGiveUp, ClientInsert,
       ClientReturn, NotifyInstead, TInv, TypeOK
  <2>4. Same(clients, clients') /\ (On(t) \/ Back(t))
    <3>1. CASE ReadTry(t)
      <4> DEFINE i == FindClientMem(clients, call[t].cid)
                 m == clients[i].list[FirstMessage(clients[i].list, call[t].tid)]
      <4>1. \/ ReadFailed(t) /\ UNCHANGED clients
            \/ m \in Msg /\ ReadOk(t, m) /\ Same(clients, clients')
            \/ Goto(t, "asleep") /\ UNCHANGED <<stage, call>> /\ Same(clients, clients')
        BY <3>1, ReadTryClients
      <4> HIDE DEF m
      <4> QED BY <4>1, ReadFailedMoves, ReadOkMoves, GotoOn, NoChange DEF Pcs
    <3>2. CASE ReadWake(t) \/ ReadInterrupted(t)
      BY <3>2, NoChange, GotoOn DEF ReadWake, ReadInterrupted, Safe, syncVars, Pcs
    <3>3. CASE ReadGiveUp(t)
      BY <3>3, WithoutWaiterProperties, ReadFailedMoves DEF ReadGiveUp
    <3> QED BY <1>1, <3>1, <3>2, <3>3 DEF ReadStep, ClientInsert, ClientReturn
  <2> QED BY <2>1, <2>2, <2>3, <2>4, KeptSame, CbCalm
<1>2. CASE pc[t] \in {"insert", "named"}
  <2>1. call[t].op = "get" /\ pc[t] # "idle" BY <1>2 DEF TInv, CallInv
  <2>2. UNCHANGED <<cb, done>>
    BY <1>2 DEF ReadStep, ReadTry, ReadWake, ReadInterrupted, ReadGiveUp, ClientInsert,
       ClientReturn, writeVars
  <2>3. OnlyMoves(t) /\ (pc'[t] = "idle" \/ call'[t].op # "rel")
    <3>1. CASE \E ok \in BOOLEAN : Return(t, ok) BY <3>1, ReturnEffect
    <3>2. CASE Goto(t, "named") /\ UNCHANGED <<stage, call>>
      BY <2>1, <3>2 DEF Goto, OnlyMoves, Others, TInv, TypeOK
    <3> QED BY <1>2, <3>1, <3>2
      DEF ReadStep, ReadTry, ReadWake, ReadInterrupted, ReadGiveUp, ClientInsert, ClientReturn
  <2>4. Kept
    <3>1. CASE UNCHANGED clients BY <3>1, NoChange, KeptSame
    <3>2. CASE \E m : clients' = Append(clients, m)
      <4>1. PICK m : clients' = Append(clients, m) BY <3>2
      <4>2. /\ Len(clients) \in Nat /\ Len(clients') = Len(clients) + 1
            /\ \A j \in 1..Len(clients) : clients'[j] = clients[j]
        BY <4>1, ClientTypes
      <4> QED BY <4>2 DEF CbAt, Kept
    <3> QED BY <1>2, <3>1, <3>2
      DEF ReadStep, ReadTry, ReadWake, ReadInterrupted, ReadGiveUp, ClientInsert, ClientReturn
  <2> QED BY <2>2, <2>3, <2>4, CbMove
<1> QED BY <1>1, <1>2 DEF ReadStep, ReadTry, ReadWake, ReadInterrupted, ReadGiveUp, ClientInsert,
  ClientReturn

LEMMA ReleaseCb ==
  ASSUME TInv, TInv', Safe, CbAt, NEW t \in Threads, ReleaseStep(t)
  PROVE  CbAt'
<1> USE DEF CbStill, CbOut
<1>1. /\ pc[t] \in Releasing /\ pc[t] # "idle" /\ ~Late(t) /\ UNCHANGED <<cb, done>>
      /\ ReleaseFind(t) \/ ReleaseNotify(t) \/ ReleaseFree(t)
  BY NoReleaseUp DEF ReleaseStep, ReleaseFind, ReleaseNotify, ReleaseFree, Releasing, Late, Writing,
     writeVars
<1>2. call[t].op = "rel" /\ (CbOut => call[t].rid # cb.at.id) BY <1>1 DEF TInv, CallInv, CbAt
<1>3. CASE ReleaseFind(t)
  <2>1. Return(t, TRUE) \/ (Goto(t, "notify") /\ UNCHANGED <<stage, call>>)
    BY <1>3 DEF ReleaseFind
  <2>2. On(t) \/ Back(t) BY <1>2, <2>1, GotoOn DEF Back, Pcs
  <2>3. Same(clients, clients') BY <1>3, NoChange DEF ReleaseFind
  <2> QED BY <1>1, <2>2, <2>3, KeptSame, CbCalm
<1>4. CASE ReleaseNotify(t)
  <2>1. clients[Found(t)].notify = <<>> BY <1>1, <1>2, FoundClient
  <2>2. Goto(t, "urbs") /\ UNCHANGED <<clients, stage, call>>
    BY <1>4, <2>1 DEF ReleaseNotify, syncVars
  <2> QED BY <1>1, <2>2, GotoOn, NoChange, KeptSame, CbCalm DEF Pcs
<1>5. CASE ReleaseFree(t)
  <2>1. pc[t] = "urbs" /\ Return(t, TRUE) /\ clients' = Unlinked(t) BY <1>5 DEF ReleaseFree
  <2>2. PICK i \in 1..Len(clients) : clients[i].id = call[t].rid BY <1>1, <1>2, FoundClient
  <2>3. clients' = RemoveAt(clients, i) BY <2>1, <2>2, UnlinkedRemoves
  <2>4. /\ Len(clients) \in Nat /\ Len(clients') = Len(clients) - 1
        /\ \A j \in 1..Len(clients') : clients'[j] = IF j < i THEN clients[j] ELSE clients[j + 1]
    BY <2>2, <2>3, ClientTypes, RemoveAtProperties
  <2>5. Kept
    <3>1. SUFFICES ASSUME CbOut PROVE Kept BY DEF Kept
    <3>2. PICK j \in 1..Len(clients) : RefOf(clients[j]) = cb.at BY <3>1 DEF CbAt
    <3>3. j # i BY <1>2, <2>2, <3>1, <3>2 DEF RefOf
    <3>4. CASE j < i
      <4>1. j \in 1..Len(clients') /\ clients'[j] = clients[j] BY <2>4, <3>4
      <4> QED BY <3>2, <4>1 DEF Kept
    <3>5. CASE j > i
      <4>1. j - 1 \in 1..Len(clients') /\ ~(j - 1 < i) /\ (j - 1) + 1 = j BY <2>4, <3>5
      <4>2. clients'[j - 1] = clients[j] BY <2>4, <4>1
      <4> QED BY <3>2, <4>1, <4>2 DEF Kept, RefOf
    <3> QED BY <3>3, <3>4, <3>5
  <2>6. Back(t) BY <1>2, <2>1 DEF Back
  <2> QED BY <1>1, <1>2, <2>5, <2>6, CbCalm
<1> QED BY <1>1, <1>3, <1>4, <1>5

\* When a reader was taken from the list, nobody releases its client.
LEMMA DeliverCb ==
  ASSUME TInv, Safe, CallbackDeliver
  PROVE  CbAt'
<1> DEFINE i == Place(cb.at)
           k == FirstWaiter(clients[i].notify, cb.msg.tid)
<1>1. /\ cb.pc = "walk" /\ cb.msg \in Msg /\ UNCHANGED <<pc, call, done>>
  BY DEF CallbackDeliver, writeVars, TInv, TypeOK
<1>2. /\ Same(clients, clients') /\ i \in 1..Len(clients)
      /\ \/ \E n \in Nat \ {0} : Continue(cb.msg, n)
         \/ /\ k \in 1..Len(clients[i].notify)
            /\ cb' = [cb EXCEPT !.pc = "up", !.who = clients[i].notify[k].t]
  BY DeliverProperties
<1>3. RefOf(clients[i]) = cb.at BY <1>1, <1>2, ClientTypes, PlaceProperties DEF TInv, WalkInv
<1> HIDE DEF i, k
<1>4. CASE \E n \in Nat \ {0} : Continue(cb.msg, n) BY <1>1, <1>4, ContinueType DEF CbAt
<1>5. CASE /\ k \in 1..Len(clients[i].notify)
           /\ cb' = [cb EXCEPT !.pc = "up", !.who = clients[i].notify[k].t]
  <2>1. cb'.at = cb.at BY <1>5 DEF TInv, TypeOK
  <2>2. \E j \in 1..Len(clients') : RefOf(clients'[j]) = cb'.at
    BY <1>2, <1>3, <2>1 DEF Same, RefOf
  <2>3. ASSUME NEW t \in Threads, pc[t] # "idle", call[t].op = "rel", call[t].rid = cb.at.id
        PROVE  FALSE
    <3>1. /\ Found(t) \in 1..Len(clients) /\ clients[Found(t)].id = call[t].rid
          /\ clients[Found(t)].notify = <<>>
      BY <2>3, FoundClient
    <3>2. Found(t) = i BY <1>2, <1>3, <2>3, <3>1 DEF Safe, ListInv, RefOf
    <3> QED BY <1>5, <3>1, <3>2
  <2> QED BY <1>1, <2>1, <2>2, <2>3 DEF CbAt
<1> QED BY <1>2, <1>4, <1>5

LEMMA BeginCb ==
  ASSUME TInv, TInv', Safe, CbAt, attached, ~Disturbed,
         (\E f \in Files : FileStep(f) /\ ~ForceRelease(f)) \/ SyncStep
  PROVE  CbAt'
<1> USE DEF CbStill, CbOut
<1> DEFINE Begun(t) == /\ OnlyMoves(t) /\ Same(clients, clients')
                       /\ pc'[t] \in {"idle", "add"} \/ call'[t].op # "rel"
<1>1. \A t \in Threads : Begun(t) /\ UNCHANGED <<cb, done>> => CbAt' BY CbBegin
<1>2. ASSUME NEW t \in Threads, NEW op \in {"sync", "get", "rel"}, NEW c \in Ids \union {NoId},
             BeginCtl(t, op, c)
      PROVE  Begun(t)
  BY <1>2, BeginCtlEffect
<1>3. ASSUME NEW t \in Threads, pc[t] = "idle", UNCHANGED <<clients, call, pc>> PROVE Begun(t)
  BY <1>3, NoChange DEF OnlyMoves
<1>4. ASSUME NEW t \in Threads, NEW where \in {"add", "try"}, NEW c, c.op # "rel",
             call' = [call EXCEPT ![t] = c], Goto(t, where), UNCHANGED clients
      PROVE  Begun(t)
  BY <1>4, NoChange DEF OnlyMoves, Others, Goto, TInv, TypeOK
<1>5. ASSUME NEW f \in Files, FileStep(f), ~ForceRelease(f) PROVE CbAt'
  <2>1. /\ Main(f) \in Threads /\ Reader(f) \in Threads /\ WDA \in Ids /\ f \in Holders
        /\ id[f] \in Ids \union {NoId}
    BY ConstantFacts, ConstantsAssumption DEF TInv, TypeOK
  <2>2. CASE GetService(f) \/ GetAgain(f)
    <3>1. /\ UNCHANGED <<cb, done>>
          /\ \E c \in Ids \union {NoId} : BeginCtl(Main(f), "get", c)
      BY <2>1, <2>2 DEF GetService, GetAgain, writeVars, Safe
    <3> HIDE DEF Begun
    <3> QED BY <1>1, <1>2, <2>1, <3>1
  <2>3. CASE UserspaceWrite(f) \/ UserspaceRead(f)
    <3>1. PICK t \in Threads, op \in {"write", "read"} : BeginIo(t, op)
      BY <2>1, <2>3 DEF UserspaceWrite, UserspaceRead
    <3> DEFINE c == [op |-> op, cid |-> id[t[1]], tid |-> 0, rid |-> NoId]
    <3>2. /\ UNCHANGED <<cb, done, clients>> /\ call' = [call EXCEPT ![t] = c]
          /\ \E where \in {"add", "try"} : Goto(t, where)
      BY <3>1 DEF BeginIo, writeVars
    <3>3. c.op # "rel" OBVIOUS
    <3> HIDE DEF c, Begun
    <3> QED BY <1>1, <1>4, <3>2, <3>3
  <2>4. CASE UserspaceClose(f)
    <3>1. /\ UNCHANGED <<cb, done>> /\ pc[Main(f)] = "idle"
          /\ \/ UNCHANGED <<clients, call, pc>>
             \/ id[f] # NoId /\ AskRelease(Main(f), id[f])
      BY <2>4 DEF UserspaceClose, writeVars
    <3>2. CASE id[f] # NoId /\ AskRelease(Main(f), id[f])
      <4>1. id[f] \in Ids /\ id[f] # CTL BY <2>1, <3>2, ConstantFacts
      <4>2. BeginCtl(Main(f), "rel", id[f]) BY <3>2, <4>1 DEF AskRelease
      <4> HIDE DEF Begun
      <4> QED BY <1>1, <1>2, <2>1, <3>1, <4>2
    <3> HIDE DEF Begun
    <3> QED BY <1>1, <1>3, <2>1, <3>1, <3>2
  <2> QED BY <1>5, <2>2, <2>3, <2>4 DEF FileStep
<1>6. CASE SyncStep
  <2>1. SyncT \in Threads /\ id["driver"] \in Ids \union {NoId} /\ WDA \in Ids
    BY ConstantFacts, ConstantsAssumption DEF TInv, TypeOK, Holders
  <2>2. CASE SyncReady
    <3>1. Same(clients, clients') /\ OnlyMoves(SyncT) /\ pc'[SyncT] \in {"idle", "add"}
      BY <2>2, SyncReadyTypes
    <3>2. UNCHANGED <<cb, done>> BY <2>2 DEF SyncReady, writeVars
    <3> QED BY <1>1, <2>1, <3>1, <3>2
  <2>3. CASE SyncReadyEnd
    <3>1. /\ Same(clients, clients') /\ OnlyMoves(SyncT) /\ pc'[SyncT] = "idle" /\ CbStill
          /\ done' = done
      BY <2>3, SyncReadyEndTypes DEF SyncReadyEnd, writeVars
    <3> QED BY <2>1, <3>1, KeptSame, CbMove
  <2>4. CASE SyncCtl
    <3>1. /\ UNCHANGED <<cb, done>>
          /\ \E op \in {"sync", "get"}, c \in Ids \union {NoId} : BeginCtl(SyncT, op, c)
      BY <2>1, <2>4 DEF SyncCtl, writeVars
    <3> HIDE DEF Begun
    <3> QED BY <1>1, <1>2, <2>1, <3>1
  <2>5. CASE SyncIo
    <3>1. /\ Same(clients, clients') /\ OnlyMoves(SyncT)
          /\ pc'[SyncT] \in {"idle", "add"} \/ call'[SyncT].op # "rel"
      BY <2>5, SyncIoTypes
    <3>2. UNCHANGED <<cb, done>> BY <2>5 DEF SyncIo, writeVars
    <3> QED BY <1>1, <2>1, <3>1, <3>2
  <2> QED BY <1>6, <2>2, <2>3, <2>4, <2>5 DEF SyncStep
<1> QED BY <1>5, <1>6

LEMMA NoFault ==
  ASSUME TInv, [Next]_vars, spent'.fault = 0
  PROVE  ~Fault /\ spent.fault = 0 /\ attached' = attached
<1> DEFINE Past == spent'.fault = spent.fault /\ attached' = attached
<1>1. ~Fault BY FaultSpent
<1>2. ASSUME Spend("get") \/ Spend("data") PROVE spent'.fault = spent.fault
  BY <1>2 DEF Spend, TInv, TypeOK
<1>3. ASSUME NEW f \in Files, FileStep(f) PROVE Past
  BY <1>2, <1>3 DEF FileStep, GetService, ForceRelease, GetAgain, UserspaceWrite, UserspaceRead,
     BeginIo, UserspaceClose, deviceVars, modemVars
<1>4. ASSUME NEW t \in Threads, WriteStep(t) \/ ReadStep(t) \/ ClientInsert(t) \/ ClientReturn(t)
      PROVE  Past
  BY <1>1, <1>4 DEF WriteStep, WriteAdd, WriteSubmit, WriteWake, ReadStep, ReadTry, ReadWake,
     ReadInterrupted, ReadGiveUp, ClientInsert, ClientReturn, deviceVars, modemVars
<1>5. ASSUME NEW t \in Threads, ReleaseStep(t) PROVE Past
  BY <1>5 DEF ReleaseStep, ReleaseFind, ReleaseNotify, ReleaseUp, ReleaseUrb, ReleaseFree,
     deviceVars, modemVars
<1>6. ASSUME WriteSyncCallback \/ CallbackStep PROVE Past
  BY <1>6 DEF WriteSyncCallback, CallbackStep, CallbackDeliver, CallbackUp, CallbackOn, deviceVars,
     modemVars
<1>7. ASSUME ReadCallback PROVE Past
  <2>1. attached' = attached /\ (UNCHANGED spent \/ Spend("data"))
    BY <1>7 DEF ReadCallback, deviceVars
  <2> QED BY <1>2, <2>1
<1>8. ASSUME SyncStep \/ Unplug \/ Unbind \/ Deregister PROVE Past
  BY <1>1, <1>8 DEF SyncStep, SyncReady, SyncReadyEnd, SyncCtl, SyncIo, Unplug, Unbind, Deregister,
     deviceVars, modemVars
<1>9. UNCHANGED vars => Past BY DEF vars, deviceVars, modemVars
<1>10. Past BY <1>3, <1>4, <1>5, <1>6, <1>7, <1>8, <1>9 DEF Next
<1> QED BY <1>1, <1>10

LEMMA StepCb ==
  ASSUME TInv, TInv', SInv, CInv, [Next]_vars
  PROVE  CInv'
<1>1. CASE Disturbed BY <1>1, DisturbedStays DEF CInv
<1>2. CASE ~Disturbed
  <2>1. SUFFICES ASSUME ~Disturbed', spent'.fault = 0 PROVE attached' /\ CbAt' BY DEF CInv
  <2>2. /\ ~Fault /\ attached /\ attached' /\ Safe /\ CbAt
    BY <1>2, <2>1, NoFault DEF SInv, CInv
  <2>3. CASE UNCHANGED vars
    BY <2>2, <2>3 DEF vars, writeVars, CbAt, Late, RefOf
  <2>4. ASSUME NEW f \in Files, FileStep(f) PROVE CbAt'
    <3>1. ~ForceRelease(f) BY <2>1, <2>2 DEF ForceRelease, Safe, Disturbed
    <3> QED BY <1>2, <2>2, <2>4, <3>1, BeginCb
  <2>5. ASSUME NEW t \in Threads,
               \/ WriteStep(t) \/ ReadStep(t) \/ ClientInsert(t) \/ ClientReturn(t)
               \/ ReleaseStep(t)
        PROVE  CbAt'
    BY <2>1, <2>2, <2>5, WriteCb, ReadCb, ReleaseCb
  <2>6. CASE WriteSyncCallback BY <2>2, <2>6 DEF WriteSyncCallback, CbAt
  <2>7. CASE ReadCallback \/ CallbackOn
    <3>1. \E m \in Msg, n \in Nat \ {0} : Continue(m, n)
      <4>1. CASE ReadCallback
        <5>1. PICK m \in Msg : Continue(m, 1) BY <4>1, AnswerTypes DEF ReadCallback
        <5> QED BY <5>1
      <4>2. CASE CallbackOn BY <4>2, CallbackContinues DEF TInv, TypeOK
      <4> QED BY <2>7, <4>1, <4>2
    <3> QED BY <2>2, <3>1, ContinueType DEF CbAt
  <2>8. CASE CallbackDeliver BY <2>2, <2>8, DeliverCb
  <2>9. CASE CallbackUp
    <3>1. /\ CbOut /\ cb'.at = cb.at /\ UNCHANGED <<pc, call, done>>
      BY <2>9 DEF CallbackUp, CbOut, writeVars, TInv, TypeOK
    <3>2. Same(clients, clients') BY <2>9, UpProperties DEF CallbackUp, TInv, TypeOK
    <3>3. Kept BY <2>2, <3>2, KeptSame
    <3> QED BY <2>2, <3>1, <3>3 DEF CbAt, CbOut, Kept, Late
  <2>10. CASE SyncStep BY <1>2, <2>2, <2>10, BeginCb
  <2>11. CASE Unplug \/ Unbind \/ Deregister
    BY <1>2, <2>1, <2>2, <2>11 DEF Unplug, Unbind, Deregister, Disturbed
  <2> QED BY <2>2, <2>3, <2>4, <2>5, <2>6, <2>7, <2>8, <2>9, <2>10, <2>11 DEF Next, CallbackStep
<1> QED BY <1>1, <1>2

\* Until DeregisterQMIDevice or a forced release of QMIWDA begins nobody uses
\* freed memory: not the reader that was interrupted, not the writer whose URB is
\* at the controller; the place in the list ReleaseClientID found is still the
\* place of the client when it unlinks it; and while nothing has gone wrong the
\* client from which the read callback goes on, after it notified a reader
\* without the lock, is still there.  What GetClientID reads after dropping the
\* lock is left out, as in the property.
THEOREM NoUseAfterFree == Spec => []NoFreedMemory
<1>1. TInv /\ SInv /\ CInv => NoFreedMemory
  <2>1. SUFFICES ASSUME TInv, Safe, spent.fault = 0 => CbAt PROVE NoFreedMemory
    BY DEF SInv, CInv, NoFreedMemory
  <2>2. spent.fault = 0 /\ cb.pc \in {"up", "on"} => Place(cb.at) # 0
    BY <2>1, PlaceOfClient DEF CbAt
  <2> QED BY <2>1, <2>2, NothingFreed DEF NoFreedMemory
<1>2. Init => TInv /\ SInv /\ CInv
  <2>1. Init => attached /\ cb.pc = "idle" BY DEF Init, CbIdle
  <2> QED BY <2>1, InitTypes, InitSafe DEF SInv, CInv, CbAt
<1>3. TInv /\ SInv /\ CInv /\ [Next]_vars => (TInv /\ SInv /\ CInv)'
  BY StepTypes, StepSafe, StepCb
<1> QED BY <1>1, <1>2, <1>3, PTL DEF Spec

-----------------------------------------------------------------------------

LEMMA SetFewer ==
  ASSUME NEW cs \in Seq(ClientMem), NEW i \in 0..Len(cs)
  PROVE  /\ \A l \in Seq(Waiter) : Fewer(cs, SetNotify(cs, i, l))
         /\ \A l \in Seq(Urb) : Fewer(cs, SetUrbs(cs, i, l))
         /\ \A l \in Seq(Msg) :
              (\A k \in 1..Len(l) : \E j \in 1..Len(cs[i].list) : l[k] = cs[i].list[j])
                => Fewer(cs, SetList(cs, i, l))
<1>1. \A j \in 1..Len(cs) : cs[j] \in ClientMem OBVIOUS
<1>2. ASSUME NEW ds \in Seq(ClientMem), Len(ds) = Len(cs),
             \A j \in 1..Len(cs) : ds[j].id = cs[j].id /\ ds[j].list = cs[j].list
      PROVE  Fewer(cs, ds)
  BY <1>2 DEF Fewer, Stored
<1>3. ASSUME NEW l \in Seq(Waiter) PROVE Fewer(cs, SetNotify(cs, i, l))
  <2> DEFINE ds == SetNotify(cs, i, l)
  <2>1. /\ ds \in Seq(ClientMem) /\ Len(ds) = Len(cs)
        /\ \A j \in 1..Len(cs) : ds[j] = IF j = i THEN [cs[j] EXCEPT !.notify = l] ELSE cs[j]
    BY SetNotifyProperties
  <2> HIDE DEF ds
  <2>2. \A j \in 1..Len(cs) : ds[j].id = cs[j].id /\ ds[j].list = cs[j].list
    BY <1>1, <2>1 DEF ClientMem
  <2>3. Fewer(cs, ds) BY <1>2, <2>1, <2>2
  <2> QED BY <2>3 DEF ds
<1>4. ASSUME NEW l \in Seq(Urb) PROVE Fewer(cs, SetUrbs(cs, i, l))
  <2> DEFINE ds == SetUrbs(cs, i, l)
  <2>1. /\ ds \in Seq(ClientMem) /\ Len(ds) = Len(cs)
        /\ \A j \in 1..Len(cs) : ds[j] = IF j = i THEN [cs[j] EXCEPT !.urbs = l] ELSE cs[j]
    BY SetUrbsProperties
  <2> HIDE DEF ds
  <2>2. \A j \in 1..Len(cs) : ds[j].id = cs[j].id /\ ds[j].list = cs[j].list
    BY <1>1, <2>1 DEF ClientMem
  <2>3. Fewer(cs, ds) BY <1>2, <2>1, <2>2
  <2> QED BY <2>3 DEF ds
<1>5. ASSUME NEW l \in Seq(Msg),
             \A k \in 1..Len(l) : \E j \in 1..Len(cs[i].list) : l[k] = cs[i].list[j]
      PROVE  Fewer(cs, SetList(cs, i, l))
  <2> DEFINE ds == SetList(cs, i, l)
  <2>1. /\ ds \in Seq(ClientMem) /\ Len(ds) = Len(cs)
        /\ \A j \in 1..Len(cs) : ds[j] = IF j = i THEN [cs[j] EXCEPT !.list = l] ELSE cs[j]
    BY SetListProperties
  <2> HIDE DEF ds
  <2>2. \A j \in 1..Len(cs) : /\ ds[j].id = cs[j].id
                              /\ ds[j].list = IF j = i THEN l ELSE cs[j].list
    BY <1>1, <2>1 DEF ClientMem
  <2>3. ASSUME NEW x, NEW b, Stored(ds, x, b) PROVE Stored(cs, x, b)
    <3>1. PICK j \in 1..Len(cs) : /\ ds[j].id = CTL
                                  /\ \E k \in 1..Len(ds[j].list) : /\ ds[j].list[k].tid = x
                                                                   /\ ds[j].list[k].by = b
      BY <2>1, <2>3 DEF Stored
    <3>2. \E k \in 1..Len(cs[j].list) : cs[j].list[k].tid = x /\ cs[j].list[k].by = b
      <4>1. CASE j = i
        <5>1. PICK k \in 1..Len(l) : l[k].tid = x /\ l[k].by = b BY <2>2, <3>1, <4>1
        <5>2. PICK n \in 1..Len(cs[i].list) : l[k] = cs[i].list[n] BY <1>5
        <5> QED BY <4>1, <5>1, <5>2
      <4>2. CASE j # i BY <2>2, <3>1, <4>2
      <4> QED BY <4>1, <4>2
    <3> QED BY <2>2, <3>1, <3>2 DEF Stored
  <2>4. Fewer(cs, ds) BY <2>3 DEF Fewer
  <2> QED BY <2>4 DEF ds
<1> QED BY <1>3, <1>4, <1>5

LEMMA EmptiedFewer ==
  ASSUME NEW cs \in Seq(ClientMem), NEW i \in 0..Len(cs)
  PROVE  Fewer(cs, SetList(cs, i, <<>>))
<1>1. <<>> \in Seq(Msg) /\ Len(<<>>) = 0 BY EmptySeq
<1>2. \A k \in 1..Len(<<>>) : FALSE BY <1>1
<1> DEFINE l == <<>>
<1>3. l \in Seq(Msg) /\ \A k \in 1..Len(l) : \E j \in 1..Len(cs[i].list) : l[k] = cs[i].list[j]
  BY <1>1, <1>2
<1> HIDE DEF l
<1>4. Fewer(cs, SetList(cs, i, l)) BY <1>3, SetFewer
<1> QED BY <1>4 DEF l

LEMMA RemovedFewer ==
  ASSUME NEW cs \in Seq(ClientMem), NEW i \in 1..Len(cs), NEW k \in 1..Len(cs[i].list)
  PROVE  Fewer(cs, SetList(cs, i, RemoveAt(cs[i].list, k)))
<1> DEFINE s == cs[i].list
<1>1. s \in Seq(Msg)
  <2>1. cs[i] \in ClientMem OBVIOUS
  <2> QED BY <2>1 DEF ClientMem
<1>2. k \in 1..Len(s) OBVIOUS
<1>3. s = cs[i].list OBVIOUS
<1> HIDE DEF s
<1> DEFINE l == RemoveAt(s, k)
<1>4. /\ l \in Seq(Msg) /\ Len(l) = Len(s) - 1
      /\ \A j \in 1..(Len(s) - 1) : l[j] = IF j < k THEN s[j] ELSE s[j + 1]
  BY <1>1, <1>2, RemoveAtProperties
<1> HIDE DEF l
<1>5. \A m \in 1..Len(l) : \E j \in 1..Len(s) : l[m] = s[j] BY <1>1, <1>2, <1>4
<1>6. Fewer(cs, SetList(cs, i, l)) BY <1>3, <1>4, <1>5, SetFewer
<1> QED BY <1>3, <1>6 DEF l

LEMMA FewerTrans ==
  ASSUME NEW cs, NEW ds, NEW es, Fewer(cs, ds), Fewer(ds, es)
  PROVE  Fewer(cs, es)
BY DEF Fewer

\* QMIXactionIDGet frees what is stored under the new id.
LEMMA PurgedFewer ==
  ASSUME NEW cs \in Seq(ClientMem), NEW x, \A i \in 1..Len(cs) : cs[i].id = CTL => i = 1
  PROVE  Fewer(cs, Purged(cs, x)) /\ \A b : ~Stored(Purged(cs, x), x, b)
<1> DEFINE i == FindClientMem(cs, CTL)
<1>1. /\ i \in 0..Len(cs)
      /\ i # 0 => cs[i].id = CTL
      /\ i = 0 => \A j \in 1..Len(cs) : cs[j].id # CTL
  BY FindProperties
<1>2. CASE i = 0 BY <1>1, <1>2 DEF Purged, Fewer, Stored
<1>3. CASE i # 0
  <2> DEFINE s == cs[i].list
             l == Without(s, x)
             ds == SetList(cs, i, l)
  <2>1. cs[i] \in ClientMem BY <1>1, <1>3
  <2>2. s \in Seq(Msg) BY <2>1 DEF ClientMem
  <2>3. ds = Purged(cs, x) BY <1>3 DEF Purged
  <2>4. l \in Seq(Left(s, x)) /\ l \in Seq(Msg) BY <2>2, WithoutType
  <2>5. \A k \in 1..Len(l) : l[k] \in Left(s, x)
    <3> HIDE DEF l, s
    <3> QED BY <2>4
  <2>6. /\ \A k \in 1..Len(l) : \E j \in 1..Len(s) : l[k] = s[j]
        /\ \A k \in 1..Len(l) : l[k].tid # x
    <3> HIDE DEF l, s
    <3> QED BY <2>5 DEF Left
  <2> HIDE DEF l
  <2>7. /\ ds \in Seq(ClientMem) /\ Len(ds) = Len(cs)
        /\ \A j \in 1..Len(cs) : ds[j] = IF j = i THEN [cs[j] EXCEPT !.list = l] ELSE cs[j]
    <3> HIDE DEF i
    <3> QED BY <1>1, <2>4, SetListProperties
  <2>8. Fewer(cs, ds)
    <3>1. \A k \in 1..Len(l) : \E j \in 1..Len(cs[i].list) : l[k] = cs[i].list[j] BY <2>6
    <3> HIDE DEF i, s
    <3> QED BY <1>1, <2>4, <3>1, SetFewer
  <2> HIDE DEF ds
  <2>9. ASSUME NEW b PROVE ~Stored(ds, x, b)
    <3>1. SUFFICES ASSUME NEW j \in 1..Len(cs), ds[j].id = CTL,
                          NEW k \in 1..Len(ds[j].list), ds[j].list[k].tid = x
                   PROVE  FALSE
      BY <2>7 DEF Stored
    <3>2. cs[j] \in ClientMem /\ cs[j].id = CTL
      <4>1. cs[j] \in ClientMem OBVIOUS
      <4> QED BY <2>7, <3>1, <4>1 DEF ClientMem
    <3>3. j = i BY <1>1, <1>3, <3>2
    <3>4. ds[j].list = l BY <2>7, <3>2, <3>3 DEF ClientMem
    <3> QED BY <2>6, <3>1, <3>4
  <2> QED BY <2>3, <2>8, <2>9
<1> QED BY <1>2, <1>3

LEMMA WdsReadFewer ==
  ASSUME NEW cs \in Seq(ClientMem)
  PROVE  Fewer(cs, WdsRead(cs))
<1> DEFINE i == FindClientMem(cs, wds)
<1>1. i \in 0..Len(cs) BY FindProperties
<1>2. CASE i = 0 \/ cs[i].list = <<>> BY <1>2 DEF WdsRead, Fewer
<1>3. CASE ~(i = 0 \/ cs[i].list = <<>>)
  <2> DEFINE ds == SetList(cs, i, <<>>)
             l == Append(cs[i].notify, [tid |-> 0, t |-> WdsCb])
  <2>1. WdsRead(cs) = SetNotify(ds, i, l) BY <1>3 DEF WdsRead
  <2>2. cs[i] \in ClientMem /\ i # 0 BY <1>1, <1>3
  <2>3. l \in Seq(Waiter)
    <3>1. cs[i].notify \in Seq(Waiter) /\ [tid |-> 0, t |-> WdsCb] \in Waiter
      BY ConstantsAssumption, <2>2 DEF ClientMem, Waiter
    <3> QED BY <3>1, AppendProperties
  <2>4. ds \in Seq(ClientMem) /\ Len(ds) = Len(cs)
    <3>1. <<>> \in Seq(Msg) BY EmptySeq
    <3> HIDE DEF i
    <3> QED BY <1>1, <3>1, SetListProperties
  <2>5. Fewer(cs, ds)
    <3> HIDE DEF i
    <3> QED BY <1>1, EmptiedFewer
  <2> HIDE DEF ds, l, i
  <2>6. Fewer(ds, SetNotify(ds, i, l)) BY <1>1, <2>3, <2>4, SetFewer
  <2> QED BY <2>1, <2>5, <2>6, FewerTrans
<1> QED BY <1>2, <1>3

\* Nothing new under the ids of the calls under way.
LEMMA AnswerFrame ==
  ASSUME AInv, NEW t \in Threads, OnlyMoves(t), Pend(t)' => Pend(t) /\ call'[t].tid = call[t].tid,
         \A x, b : From(x, b)' => From(x, b) \/ (b \in Threads /\ Pend(b) /\ x = call[b].tid)
  PROVE  TidInv' /\ OwnFrom'
<1>1. \A u \in Threads : Pend(u)' => Pend(u) /\ call'[u].tid = call[u].tid
  BY DEF OnlyMoves, Others, Pend
<1>2. TidInv' BY <1>1 DEF AInv, TidInv
<1>3. ASSUME NEW u \in Threads, NEW b \in Threads, Pend(u)', NEW x, x = call'[u].tid, From(x, b)'
      PROVE  b = u
  BY <1>1, <1>3 DEF AInv, TidInv, OwnFrom
<1>4. OwnFrom' BY <1>3 DEF OwnFrom
<1> QED BY <1>2, <1>4

\* A request gets its id.
LEMMA BeginFrame ==
  ASSUME AInv, NextIsFree, NEW t \in Threads, OnlyMoves(t), call'[t].tid = NextTid,
         UNCHANGED <<asked, cb>>, Fewer(clients, clients'),
         \A b : ~Stored(clients', NextTid, b)
  PROVE  TidInv' /\ OwnFrom'
<1>1. \A x, b : From(x, b)' => From(x, b) BY DEF From, AtModem, AtCallback, Fewer
<1>2. \A b \in Threads : \A x : x = NextTid => ~From(x, b)'
  BY DEF NextIsFree, From, AtModem, AtCallback
<1>3. \A u \in Others(t) : Pend(u)' => /\ Pend(u) /\ call'[u].tid = call[u].tid
                                       /\ call'[u].tid # NextTid
  BY DEF OnlyMoves, Others, Pend, NextIsFree
<1>4. TidInv' BY <1>3 DEF AInv, TidInv, Others
<1>5. ASSUME NEW u \in Threads, NEW b \in Threads, Pend(u)', NEW x, x = call'[u].tid, From(x, b)'
      PROVE  b = u
  BY <1>2, <1>5, <1>3, <1>1 DEF Others, AInv, OwnFrom
<1>6. OwnFrom' BY <1>5 DEF OwnFrom
<1> QED BY <1>4, <1>6

LEMMA CtlFrame ==
  ASSUME AInv, NEW t \in Threads, OnlyMoves(t), CbStays,
         \A i \in 1..Len(clients') : clients'[i].id = CTL => i = 1,
         pc'[t] \in Linking => del'[t].next.id # CTL,
         \A u \in Others(t) : del'[u].next = del[u].next
  PROVE  CtlInv'
BY DEF OnlyMoves, Others, AInv, CtlInv, Linking, CbStays

LEMMA OneCtl ==
  ASSUME AInv, clients \in Seq(ClientMem), Same(clients, clients')
  PROVE  \A i \in 1..Len(clients') : clients'[i].id = CTL => i = 1
BY DEF AInv, CtlInv, Same

\* A step that adds nothing to the list of QMICTL and asks nothing, but as the
\* request of a call.
LEMMA Quiet ==
  ASSUME TInv, AInv, NEW t \in Threads, OnlyMoves(t),
         Pend(t)' => Pend(t) /\ call'[t].tid = call[t].tid,
         pc'[t] \in Linking => pc[t] \in Linking,
         \A u \in Threads : del'[u].next = del[u].next,
         Same(clients, clients'), Fewer(clients, clients'), CbStays,
         \A x, b : AtModem(x, b)' => AtModem(x, b) \/ (b \in Threads /\ Pend(b) /\ x = call[b].tid)
  PROVE  AInv'
BY ClientTypes, OneCtl, CtlFrame, AnswerFrame DEF AInv, CtlInv, Linking, Others, From,
   AtCallback, CbStays, Fewer

\* A call that goes on or comes back.
LEMMA QuietMove ==
  ASSUME TInv, AInv, NEW t \in Threads, On(t) \/ Back(t), pc[t] # "idle",
         pc'[t] \in Writing \union {"try", "asleep", "giveup"} =>
           pc[t] \in Writing \union {"try", "asleep", "giveup"},
         pc'[t] \in Linking => pc[t] \in Linking,
         \A u \in Threads : del'[u].next = del[u].next,
         Same(clients, clients'), Fewer(clients, clients'), CbStays,
         \A x, b : AtModem(x, b)' => AtModem(x, b) \/ (b \in Threads /\ Pend(b) /\ x = call[b].tid)
  PROVE  AInv'
<1>1. OnlyMoves(t) BY BackEffect DEF On
<1>2. Pend(t)' => Pend(t) /\ call'[t].tid = call[t].tid
  <2>1. CASE On(t) BY <2>1 DEF On, Pend
  <2>2. CASE Back(t) BY <2>2, BackEffect DEF Pend, Writing
  <2> QED BY <2>1, <2>2
<1> QED BY <1>1, <1>2, Quiet

\* What a call of its own asks.
LEMMA SentFrom ==
  ASSUME TInv, NEW t \in Threads, pc[t] = "written", Sent(t) \/ UNCHANGED asked
  PROVE  \A x, b : AtModem(x, b)' => AtModem(x, b) \/ (b \in Threads /\ Pend(b) /\ x = call[b].tid)
<1>1. CallInv(t) BY DEF TInv
<1>2. CASE UNCHANGED asked BY <1>2 DEF AtModem
<1>3. CASE Sent(t) /\ call[t].cid = CTL
  BY <1>3, <1>1, ConstantFacts DEF Sent, CallInv, Pend, Writing, Request, AtModem
<1>4. CASE Sent(t) /\ call[t].cid # CTL BY <1>4 DEF Sent, AtModem
<1> QED BY <1>2, <1>3, <1>4

\* The next id is another one.
LEMMA NewId ==
  ASSUME TInv, tid' = NextTid
  PROVE  tid' # tid
BY ConstantsAssumption DEF NextTid, TInv, TypeOK

LEMMA BeginCtlAnswers ==
  ASSUME TInv, AInv, TakesFree, NEW t \in Threads, NEW op \in {"sync", "get", "rel"},
         NEW c \in Ids \union {NoId}, BeginCtl(t, op, c), UNCHANGED <<del, asked, cb>>
  PROVE  AInv'
<1>1. NextIsFree BY NewId DEF BeginCtl, TakesFree
<1> QED
BY <1>1, BeginCtlEffect, ClientTypes, PurgedFewer, OneCtl, CtlFrame, BeginFrame DEF BeginCtl, AInv,
   CtlInv, CbStays, Linking, Others

\* Each step.

\* A call that goes on or comes back and has nothing to do with the modem.
LEMMA CalmMove ==
  ASSUME TInv, AInv, NEW t \in Threads, On(t) \/ Back(t), pc[t] # "idle",
         pc'[t] \in Calling => pc[t] \in Calling,
         pc'[t] \in Linking => pc[t] \in Linking,
         Same(clients, clients'), Fewer(clients, clients'), UNCHANGED <<asked, cb, del>>
  PROVE  AInv'
BY QuietMove DEF CbStays, AtModem, Calling

LEMMA SameFewer ==
  ASSUME UNCHANGED clients
  PROVE  Same(clients, clients') /\ Fewer(clients, clients')
BY DEF Same, Fewer

LEMMA NothingNew ==
  ASSUME AInv, UNCHANGED <<pc, call, clients, asked, cb, del>>
  PROVE  AInv'
BY DEF AInv, CtlInv, TidInv, Pend, From, AtModem, AtCallback, OwnFrom

LEMMA BeginIoAnswers ==
  ASSUME TInv, AInv, NEW t \in Threads, NEW op \in {"write", "read"}, BeginIo(t, op)
  PROVE  AInv'
BY SameFewer, Quiet DEF BeginIo, Goto, modemVars, TInv, TypeOK, CallSet, OnlyMoves, Others,
   Pend, CtlOps, Linking, CbStays, AtModem

LEMMA WriteAddAnswers ==
  ASSUME TInv, AInv, NEW t \in Threads, WriteAdd(t)
  PROVE  AInv'
<1> DEFINE i == FindClientMem(clients, call[t].cid)
           u == [t |-> t, n |-> StillListed(t)]
           l == Append(clients[i].urbs, u)
<1>1. /\ pc[t] = "add" /\ clients \in Seq(ClientMem) /\ i \in 0..Len(clients)
      /\ urb \in [Threads -> BOOLEAN] /\ UNCHANGED <<asked, cb, del>>
  BY FindProperties DEF TInv, TypeOK, WriteAdd, modemVars
<1>2. CASE valid /\ i # 0
  <2>1. /\ clients' = SetUrbs(clients, i, l)
        /\ Goto(t, "submit") /\ UNCHANGED <<stage, call>>
    BY <1>2 DEF WriteAdd
  <2>2. clients[i] \in ClientMem /\ u \in Urb BY <1>1, <1>2, NewUrb
  <2>3. l \in Seq(Urb) BY <2>2, AppendProperties DEF ClientMem
  <2>4. Same(clients, clients') /\ Fewer(clients, clients')
    <3> HIDE DEF i, l
    <3> QED BY <1>1, <2>1, <2>3, SetFieldSame, SetFewer
  <2>5. On(t) /\ pc'[t] = "submit" BY <2>1, GotoOn DEF Pcs
  <2> QED BY <1>1, <2>4, <2>5, CalmMove DEF Calling, Linking, Writing
<1>3. CASE ~(valid /\ i # 0)
  BY <1>3, <1>1, WriteFailedMoves, BackEffect, SameFewer, CalmMove DEF WriteAdd, Calling,
     Linking, Writing
<1> QED BY <1>2, <1>3

LEMMA PopFewer ==
  ASSUME TInv, NEW t \in Threads, PopFromURBList(t)
  PROVE  Same(clients, clients') /\ Fewer(clients, clients')
<1> DEFINE i == FindClientMem(clients, call[t].cid)
           l == Tail(clients[i].urbs)
<1>1. clients \in Seq(ClientMem) /\ i \in 0..Len(clients) /\ Same(clients, clients')
  BY FindProperties, PopUrb DEF TInv, TypeOK
<1>2. CASE UrbAt(t) = {} BY <1>1, <1>2, SameFewer DEF PopFromURBList
<1>3. CASE UrbAt(t) # {}
  <2>1. i # 0 /\ clients[i].urbs # <<>> /\ clients' = SetUrbs(clients, i, l)
    BY <1>3 DEF UrbAt, PopFromURBList
  <2>2. clients[i] \in ClientMem BY <1>1, <2>1
  <2>3. l \in Seq(Urb) BY <2>2, <2>1, TailProperties DEF ClientMem
  <2>4. Fewer(clients, clients')
    <3> HIDE DEF i, l
    <3> QED BY <1>1, <2>1, <2>3, SetFewer
  <2> QED BY <1>1, <2>4
<1> QED BY <1>2, <1>3

LEMMA WriteSubmitAnswers ==
  ASSUME TInv, AInv, NEW t \in Threads, WriteSubmit(t)
  PROVE  AInv'
<1>1. pc[t] = "submit" /\ UNCHANGED <<asked, cb, del>> BY DEF WriteSubmit
<1>2. CASE Goto(t, "written") /\ UNCHANGED <<stage, call, clients, spent>>
  BY <1>2, GotoOn, <1>1, SameFewer, CalmMove DEF Pcs, Calling, Linking, Writing
<1>3. CASE PopFromURBList(t) /\ WriteFailed(t)
  BY <1>1, <1>3, WriteFailedMoves, BackEffect, PopFewer, CalmMove DEF Calling, Linking, Writing
<1> QED BY <1>2, <1>3 DEF WriteSubmit

LEMMA WriteSyncCallbackAnswers ==
  ASSUME TInv, AInv, WriteSyncCallback
  PROVE  AInv'
<1>1. /\ UNCHANGED <<pc, call, clients, cb, del>>
      /\ Sent(Head(usb).t) \/ UNCHANGED asked
  BY DEF WriteSyncCallback
<1>2. PICK t \in Threads : t = Head(usb).t /\ pc[t] = "written"
  <2>1. usb \in Seq(Urb) /\ usb # <<>> /\ UsbInv BY DEF TInv, TypeOK, WriteSyncCallback
  <2>2. Head(usb) = usb[1] /\ usb[1] \in Urb /\ Len(usb) > 0 /\ Len(usb) \in Nat
    BY <2>1, TailProperties
  <2> QED BY <2>1, <2>2 DEF UsbInv, Urb
<1>3. /\ CbStays /\ OnlyMoves(t) /\ \A u \in Threads : del'[u].next = del[u].next
  BY <1>1 DEF CbStays, OnlyMoves
<1>4. Pend(t)' => Pend(t) /\ call'[t].tid = call[t].tid BY <1>1 DEF Pend
<1>5. \A x, b : AtModem(x, b)' => AtModem(x, b) \/ (b \in Threads /\ Pend(b) /\ x = call[b].tid)
  BY <1>1, <1>2, SentFrom
<1> QED BY <1>1, <1>2, <1>3, <1>4, <1>5, SameFewer, Quiet

LEMMA WriteWakeAnswers ==
  ASSUME TInv, AInv, NEW t \in Threads, WriteWake(t)
  PROVE  AInv'
BY SameFewer, PopFewer, WriteFailedMoves, WriteOkMoves, BackEffect, SentFrom, QuietMove
   DEF WriteWake, KillUrb, CbStays, Linking, Writing

\* A thread that neither calls nor releases after the step.
LEMMA DoneMove ==
  ASSUME TInv, AInv, NEW t \in Threads, OnlyMoves(t), pc'[t] \notin Calling \union Linking,
         \A i \in 1..Len(clients') : clients'[i].id = CTL => i = 1,
         Fewer(clients, clients'), asked' = asked, CbStays,
         \A u \in Others(t) : del'[u].next = del[u].next
  PROVE  AInv'
BY CtlFrame, AnswerFrame DEF From, AtModem, AtCallback, CbStays, Fewer, Pend, Calling, AInv

LEMMA ReadTryFewer ==
  ASSUME TInv, NEW t \in Threads, ReadTry(t)
  PROVE  Same(clients, clients') /\ Fewer(clients, clients')
<1> DEFINE i == FindClientMem(clients, call[t].cid)
           k == FirstMessage(clients[i].list, call[t].tid)
           x == [tid |-> call[t].tid, t |-> t]
           a == Append(clients[i].notify, x)
           cs == SetList(clients, i, RemoveAt(clients[i].list, k))
<1>1. clients \in Seq(ClientMem) /\ i \in 0..Len(clients) /\ call[t] \in CallSet
  BY FindProperties DEF TInv, TypeOK, CallSet
<1>2. Same(clients, clients') BY ReadTryClients, SameFewer DEF readVars
<1>3. CASE ~valid \/ i = 0 BY <1>2, <1>3, SameFewer DEF ReadTry
<1>4. CASE valid /\ i # 0 /\ k # 0
  <2>1. clients' = SyncFreesAnswers(t, cs) BY <1>4 DEF ReadTry
  <2>2. clients[i] \in ClientMem /\ i \in 1..Len(clients) BY <1>1, <1>4
  <2>3. clients[i].list \in Seq(Msg) BY <2>2 DEF ClientMem
  <2>4. k \in 1..Len(clients[i].list) BY <1>4, <2>3, MessageProperties
  <2>5. cs \in Seq(ClientMem) /\ Fewer(clients, cs)
    <3>1. RemoveAt(clients[i].list, k) \in Seq(Msg) BY <2>3, <2>4, RemoveAtProperties
    <3> HIDE DEF i, k
    <3> QED BY <1>1, <2>2, <2>4, <3>1, SetFieldSame, RemovedFewer
  <2> HIDE DEF cs
  <2>6. CASE clients' = cs BY <1>2, <2>5, <2>6
  <2>7. CASE clients' = SetList(cs, FindClientMem(cs, CTL), <<>>)
    BY <2>5, FindProperties, <2>7, EmptiedFewer, <1>2, FewerTrans
  <2> QED BY <2>1, <2>6, <2>7 DEF SyncFreesAnswers
<1>5. CASE valid /\ i # 0 /\ k = 0
  <2>1. clients' = SetNotify(clients, i, a) BY <1>5 DEF ReadTry
  <2>2. clients[i] \in ClientMem BY <1>1, <1>5
  <2>3. a \in Seq(Waiter)
    <3>1. clients[i].notify \in Seq(Waiter) /\ x \in Waiter
      BY <1>1, <2>2 DEF ClientMem, Waiter, CallSet
    <3> HIDE DEF x
    <3> QED BY <3>1, AppendProperties
  <2>4. Fewer(clients, clients')
    <3> HIDE DEF i, a
    <3> QED BY <1>1, <2>1, <2>3, SetFewer
  <2> QED BY <1>2, <2>4
<1> QED BY <1>3, <1>4, <1>5

LEMMA ReadTryAnswers ==
  ASSUME TInv, AInv, NEW t \in Threads, ReadTry(t)
  PROVE  AInv'
<1>1. pc[t] = "try" /\ UNCHANGED <<asked, cb, del>> /\ Same(clients, clients')
      /\ Fewer(clients, clients')
  BY ReadTryFewer DEF ReadTry, modemVars
<1>2. (On(t) \/ Back(t)) /\ pc'[t] \in {"find", "insert", "asleep", "idle"}
  <2>1. CASE ReadFailed(t) BY <1>1, <2>1, ReadFailedMoves, BackEffect
  <2>2. CASE \E m \in Msg : ReadOk(t, m) BY <1>1, <2>2, ReadOkMoves, BackEffect
  <2>3. CASE Goto(t, "asleep") /\ UNCHANGED <<stage, call>> BY <2>3, GotoOn DEF Pcs
  <2> QED BY <2>1, <2>2, <2>3, ReadTryClients
<1> QED BY <1>1, <1>2, CalmMove DEF Calling, Linking

LEMMA ReadWakeAnswers ==
  ASSUME TInv, AInv, NEW t \in Threads, ReadWake(t)
  PROVE  AInv'
<1>1. pc[t] = "asleep" /\ UNCHANGED <<clients, asked, cb, del>> BY DEF ReadWake, modemVars
<1>2. (On(t) \/ Back(t)) /\ pc'[t] \in {"find", "try", "idle"}
  <2>1. CASE ReadFailed(t) BY <1>1, <2>1, ReadFailedMoves, BackEffect
  <2>2. CASE Goto(t, "try") /\ UNCHANGED <<stage, call>> BY <2>2, GotoOn DEF Pcs
  <2> QED BY <2>1, <2>2 DEF ReadWake
<1> QED BY <1>1, <1>2, SameFewer, CalmMove DEF Calling, Linking

LEMMA ReadInterruptedAnswers ==
  ASSUME TInv, AInv, NEW t \in Threads, ReadInterrupted(t)
  PROVE  AInv'
BY GotoOn, SameFewer, CalmMove DEF ReadInterrupted, Pcs, syncVars, Calling, Linking

LEMMA WithoutFewer ==
  ASSUME TInv, NEW t \in Threads
  PROVE  Same(clients, WithoutWaiter(t)) /\ Fewer(clients, WithoutWaiter(t))
<1>1. clients \in Seq(ClientMem) BY ClientTypes
<1>2. CASE WithoutWaiter(t) = clients BY <1>2 DEF Same, Fewer
<1>3. ASSUME NEW i \in 1..Len(clients), NEW l \in Seq(Waiter),
             WithoutWaiter(t) = SetNotify(clients, i, l)
      PROVE  Fewer(clients, WithoutWaiter(t))
  BY <1>1, <1>3, SetFewer
<1> QED BY <1>2, <1>3, WithoutWaiterProperties

LEMMA ReadGiveUpAnswers ==
  ASSUME TInv, AInv, NEW t \in Threads, ReadGiveUp(t)
  PROVE  AInv'
BY WithoutFewer, ReadFailedMoves, BackEffect, InsteadType, QuietMove DEF ReadGiveUp, modemVars,
   CbStays, Notified, AtModem, Linking, Writing

LEMMA ClientInsertAnswers ==
  ASSUME TInv, AInv, NEW t \in Threads, ClientInsert(t)
  PROVE  AInv'
<1> DEFINE new == [id |-> call[t].rid, owner |-> t[1], list |-> <<>>, notify |-> <<>>, urbs |-> <<>>]
           n == Len(clients)
<1>1. /\ pc[t] = "insert" /\ call[t].rid \in Ids
      /\ clients \in Seq(ClientMem) /\ n \in Nat /\ UNCHANGED <<asked, cb, del>>
  BY DEF TInv, TypeOK, CallInv, ClientInsert, modemVars
<1>2. CbStays BY <1>1 DEF CbStays
<1>3. CASE Return(t, FALSE) /\ UNCHANGED clients
  BY <1>3, ReturnEffect, SameFewer, <1>1, <1>2, DoneMove DEF AInv, CtlInv, Calling, Linking,
     Writing
<1>4. CASE clients' = Append(clients, new) /\ Goto(t, "named") /\ UNCHANGED <<stage, call>>
  <2>1. OnlyMoves(t) /\ pc'[t] = "named" BY <1>4 DEF Goto, OnlyMoves, Others, TInv, TypeOK
  <2>2. new.id = call[t].rid /\ new.list = <<>> /\ new.id # CTL BY <1>1, ConstantFacts
  <2> HIDE DEF new
  <2>3. /\ Len(clients') = n + 1 /\ clients'[n + 1] = new
        /\ \A i \in 1..n : clients'[i] = clients[i]
    BY <1>1, <1>4, AppendProperties
  <2>4. \A i \in 1..Len(clients') : clients'[i].id = CTL => i \in 1..n /\ clients'[i] = clients[i]
    BY <1>1, <2>2, <2>3
  <2>5. Fewer(clients, clients') BY <2>4 DEF Fewer, Stored
  <2>6. \A i \in 1..Len(clients') : clients'[i].id = CTL => i = 1 BY <2>4 DEF AInv, CtlInv
  <2> QED BY <1>1, <1>2, <2>1, <2>5, <2>6, DoneMove DEF Calling, Linking, Writing
<1> QED BY <1>3, <1>4 DEF ClientInsert

LEMMA ClientReturnAnswers ==
  ASSUME TInv, AInv, NEW t \in Threads, ClientReturn(t)
  PROVE  AInv'
BY ReturnEffect, SameFewer, DoneMove DEF ClientReturn, modemVars, AInv, CtlInv, CbStays,
   Calling, Linking, Writing

LEMMA ReleaseFindAnswers ==
  ASSUME TInv, AInv, NEW t \in Threads, ReleaseFind(t)
  PROVE  AInv'
<1>1. /\ UNCHANGED <<clients, asked, cb>> /\ CbStays
      /\ clients \in Seq(ClientMem) /\ Len(clients) \in Nat /\ DOMAIN clients = 1..Len(clients)
  BY ClientTypes DEF ReleaseFind, modemVars, CbStays
<1>2. /\ Fewer(clients, clients')
      /\ \A i \in 1..Len(clients') : clients'[i].id = CTL => i = 1
  BY <1>1, SameFewer DEF AInv, CtlInv
<1>3. CASE Return(t, TRUE) /\ UNCHANGED del
  BY <1>3, ReturnEffect, <1>1, <1>2, DoneMove DEF Calling, Linking, Writing
<1>4. CASE /\ Found(t) # 0 /\ Goto(t, "notify") /\ UNCHANGED <<stage, call>>
           /\ del' = [del EXCEPT ![t] = [prev |-> At(Found(t) - 1), this |-> At(Found(t)),
                                         next |-> At(Found(t) + 1), who |-> t]]
  <2>1. OnlyMoves(t) /\ pc'[t] = "notify" BY <1>4 DEF Goto, OnlyMoves, Others, TInv, TypeOK
  <2>2. Found(t) \in Nat /\ Found(t) + 1 # 1 BY <1>1, <1>4, FoundProperties
  <2>3. At(Found(t) + 1).id # CTL
    BY ConstantFacts, <1>1, <2>2 DEF NoRef, AInv, CtlInv, At, RefOf
  <2>4. del'[t].next = At(Found(t) + 1) /\ \A u \in Others(t) : del'[u].next = del[u].next
    BY <1>4 DEF TInv, TypeOK, Others
  <2>5. CtlInv' BY <1>1, <1>2, <2>1, <2>3, <2>4, CtlFrame
  <2>6. \A x, b : From(x, b)' => From(x, b) BY <1>1 DEF From, AtModem, AtCallback
  <2>7. ~Pend(t)' BY <2>1 DEF Pend, Writing
  <2> QED BY <2>1, <2>5, <2>6, <2>7, AnswerFrame DEF AInv
<1> QED BY <1>3, <1>4 DEF ReleaseFind

LEMMA ReleaseNotifyAnswers ==
  ASSUME TInv, AInv, NEW t \in Threads, ReleaseNotify(t)
  PROVE  AInv'
<1>1. /\ pc[t] = "notify" /\ UNCHANGED <<asked, cb, call, stage>> /\ clients \in Seq(ClientMem)
  BY ClientTypes DEF ReleaseNotify, modemVars, syncVars
<1>2. CASE /\ Found(t) # 0 /\ clients[Found(t)].notify # <<>>
           /\ clients' = SetNotify(clients, Found(t), Tail(clients[Found(t)].notify))
           /\ del' = [del EXCEPT ![t].who = Head(clients[Found(t)].notify).t]
           /\ Goto(t, "up")
  <2> DEFINE l == clients[Found(t)].notify
  <2>1. Found(t) \in 0..Len(clients) /\ l \in Seq(Waiter) BY <1>2, FoundProperties
  <2>2. Tail(l) \in Seq(Waiter) BY <1>2, <2>1, TailProperties
  <2>3. Same(clients, clients') /\ Fewer(clients, clients')
    BY <1>1, <1>2, <2>1, <2>2, SetFieldSame, SetFewer
  <2>4. \A u \in Threads : del'[u].next = del[u].next
    <3> DEFINE h == Head(l).t
    <3>1. del' = [del EXCEPT ![t].who = h] BY <1>2
    <3> HIDE DEF h
    <3> QED BY <3>1 DEF TInv, TypeOK
  <2>5. On(t) /\ pc'[t] = "up" BY <1>1, <1>2, GotoOn DEF Pcs
  <2>6. CbStays /\ \A x, b : AtModem(x, b)' => AtModem(x, b) BY <1>1 DEF CbStays, AtModem
  <2> QED BY <1>1, <2>3, <2>4, <2>5, <2>6, QuietMove DEF Linking, Writing
<1>3. CASE Goto(t, "urbs") /\ UNCHANGED <<clients, del>>
  BY <1>1, <1>3, GotoOn, SameFewer, CalmMove DEF Pcs, Calling, Linking, Writing
<1> QED BY <1>2, <1>3 DEF ReleaseNotify

LEMMA UpFewer ==
  ASSUME TInv, NEW w \in Notified, Up(w)
  PROVE  Same(clients, clients') /\ Fewer(clients, clients')
BY UpProperties, ClientTypes, WdsReadFewer, SameFewer DEF Up

LEMMA ReleaseUpAnswers ==
  ASSUME TInv, AInv, NEW t \in Threads, ReleaseUp(t)
  PROVE  AInv'
<1>1. /\ pc[t] = "up" /\ UNCHANGED <<asked, cb, call, stage, del>> /\ Goto(t, "notify")
      /\ del[t].who \in Notified /\ Up(del[t].who)
  BY DEF ReleaseUp, modemVars, syncVars, TInv, TypeOK
<1>2. On(t) /\ pc'[t] = "notify" BY <1>1, GotoOn DEF Pcs
<1> QED BY <1>1, <1>2, UpFewer, CalmMove DEF Calling, Linking, Writing

LEMMA ReleaseUrbAnswers ==
  ASSUME TInv, AInv, NEW t \in Threads, ReleaseUrb(t)
  PROVE  AInv'
<1> DEFINE l == clients[Found(t)].urbs
<1>1. /\ UNCHANGED <<pc, call, asked, cb, del>> /\ Found(t) # 0 /\ l # <<>>
      /\ clients' = SetUrbs(clients, Found(t), Tail(l)) /\ clients \in Seq(ClientMem)
  BY ClientTypes DEF ReleaseUrb, modemVars
<1>2. Found(t) \in 0..Len(clients) /\ l \in Seq(Urb) BY <1>1, FoundProperties
<1>3. Tail(l) \in Seq(Urb) BY <1>1, <1>2, TailProperties
<1>4. Same(clients, clients') /\ Fewer(clients, clients')
  BY <1>1, <1>2, <1>3, SetFieldSame, SetFewer
<1>5. /\ OnlyMoves(t) /\ CbStays /\ \A u \in Threads : del'[u].next = del[u].next
      /\ \A x, b : AtModem(x, b)' => AtModem(x, b)
  BY <1>1 DEF OnlyMoves, CbStays, AtModem
<1>6. Pend(t)' => Pend(t) /\ call'[t].tid = call[t].tid BY <1>1 DEF Pend
<1> QED BY <1>1, <1>4, <1>5, <1>6, Quiet

\* What a release leaves: of QMICTL only the first client.
LEMMA UnlinkedFewer ==
  ASSUME TInv, AInv, NEW t \in Threads, pc[t] = "urbs"
  PROVE  /\ Fewer(clients, Unlinked(t))
         /\ \A i \in 1..Len(Unlinked(t)) : Unlinked(t)[i].id = CTL => i = 1
<1> DEFINE p == IF del[t].prev = NoRef THEN 0 ELSE Place(del[t].prev)
           n == Place(del[t].next)
           a == SubSeq(clients, 1, p)
           b == IF n = 0 THEN <<>> ELSE SubSeq(clients, n, Len(clients))
<1>1. clients \in Seq(ClientMem) /\ Len(clients) \in Nat BY ClientTypes
<1>2. /\ p \in 0..Len(clients) /\ n \in 0..Len(clients)
      /\ n # 0 => RefOf(clients[n]) = del[t].next
  BY <1>1, PlaceProperties
<1>3. del[t].next.id # CTL /\ \A i \in 1..Len(clients) : clients[i].id = CTL => i = 1
  BY DEF AInv, CtlInv
<1>4. n # 0 => clients[n].id # CTL BY <1>2, <1>3 DEF RefOf
<1>5. Unlinked(t) = a \o b BY DEF Unlinked
<1> HIDE DEF p, n
<1>6. a \in Seq(ClientMem) /\ Len(a) = p /\ \A j \in 1..p : a[j] = clients[j]
  BY <1>1, <1>2, SubSeqProperties
<1>7. b \in Seq(ClientMem) /\ \A j \in 1..Len(b) : b[j].id # CTL
  <2>1. CASE n = 0
    <3>1. b = <<>> /\ Len(b) = 0 BY <2>1, EmptySeq
    <3>2. <<>> \in Seq(ClientMem) BY EmptySeq
    <3> HIDE DEF b
    <3> QED BY <3>1, <3>2
  <2>2. CASE n # 0
    <3>1. b = SubSeq(clients, n, Len(clients)) /\ n \in 1..Len(clients) BY <1>2, <2>2
    <3>2. \A j \in n..Len(clients) : clients[j] \in ClientMem BY <1>1, <3>1
    <3> HIDE DEF b
    <3>3. /\ b \in Seq(ClientMem) /\ Len(b) = Len(clients) - n + 1
          /\ \A j \in 1..(Len(clients) - n + 1) : b[j] = clients[n + j - 1]
      BY <1>1, <3>1, <3>2, SubSeqProperties
    <3>4. ASSUME NEW j \in 1..Len(b) PROVE b[j].id # CTL
      <4>1. b[j] = clients[n + j - 1] /\ n + j - 1 \in 1..Len(clients) BY <1>1, <3>1, <3>3
      <4>2. CASE n + j - 1 = 1
        <5>1. n + j - 1 = n BY <3>1, <4>2
        <5> QED BY <1>4, <2>2, <4>1, <5>1
      <4>3. CASE n + j - 1 # 1 BY <1>3, <4>1, <4>3
      <4> QED BY <4>2, <4>3
    <3> QED BY <3>3, <3>4
  <2> QED BY <2>1, <2>2
<1> HIDE DEF a, b
<1> DEFINE c == a \o b
<1>8. /\ Len(c) = p + Len(b) /\ Len(b) \in Nat /\ p \in Nat
      /\ \A i \in 1..p : c[i] = clients[i]
      /\ \A i \in (p + 1)..(p + Len(b)) : c[i] = b[i - p]
  <2>1. a \in Seq(ClientMem) /\ b \in Seq(ClientMem) BY <1>6, <1>7
  <2>2. Len(a) \in Nat /\ Len(b) \in Nat BY <2>1
  <2>3. /\ Len(c) = Len(a) + Len(b)
        /\ \A i \in 1..(Len(a) + Len(b)) : c[i] = IF i <= Len(a) THEN a[i] ELSE b[i - Len(a)]
    BY <2>1, ConcatProperties
  <2> HIDE DEF c
  <2> QED BY <1>6, <2>2, <2>3
<1> HIDE DEF c
<1>9. \A i \in 1..Len(c) : c[i].id = CTL => i \in 1..Len(clients) /\ c[i] = clients[i]
  <2> SUFFICES ASSUME NEW i \in 1..Len(c), c[i].id = CTL
               PROVE  i \in 1..Len(clients) /\ c[i] = clients[i]
    OBVIOUS
  <2>1. CASE i \in 1..p BY <1>1, <1>2, <1>8, <2>1
  <2>2. CASE i \notin 1..p
    <3>1. i \in (p + 1)..(p + Len(b)) /\ i - p \in 1..Len(b) BY <1>8, <2>2
    <3> QED BY <1>7, <1>8, <3>1
  <2> QED BY <2>1, <2>2
<1>10. Fewer(clients, c) /\ \A i \in 1..Len(c) : c[i].id = CTL => i = 1
  BY <1>3, <1>9 DEF Fewer, Stored
<1> QED BY <1>5, <1>10 DEF c

LEMMA ReleaseFreeAnswers ==
  ASSUME TInv, AInv, NEW t \in Threads, ReleaseFree(t)
  PROVE  AInv'
<1>1. /\ pc[t] = "urbs" /\ UNCHANGED <<asked, cb>> /\ Return(t, TRUE)
      /\ clients' = Unlinked(t) /\ del' = [del EXCEPT ![t] = NoDel]
  BY DEF ReleaseFree, modemVars
<1>2. OnlyMoves(t) /\ pc'[t] = "idle" BY <1>1, ReturnEffect
<1>3. /\ CbStays /\ \A u \in Others(t) : del'[u].next = del[u].next
  BY <1>1 DEF CbStays, Others, TInv, TypeOK
<1>4. /\ Fewer(clients, clients')
      /\ \A i \in 1..Len(clients') : clients'[i].id = CTL => i = 1
  BY <1>1, UnlinkedFewer
<1> QED BY <1>1, <1>2, <1>3, <1>4, DoneMove DEF Calling, Linking, Writing

\* The message the read callback goes on with, and that it takes to QMICTL only
\* what is for QMICTL.
LEMMA ContinueTo ==
  ASSUME TInv, NEW m \in Msg, NEW i \in Nat \ {0}, Continue(m, i)
  PROVE  /\ cb'.pc # "idle" => cb'.msg = m
         /\ cb'.pc = "walk" /\ cb'.at.id = CTL => cb'.msg.to = CTL
<1>1. clients \in Seq(ClientMem) /\ \A j \in 1..Len(clients) : clients[j] \in ClientMem
  BY DEF TInv, TypeOK
<1> DEFINE S == {j \in i..Len(clients) : For(clients[j], m)}
           r == NextFor(m, i)
<1>2. CASE r = NoRef BY <1>2 DEF Continue, CbIdle
<1>3. CASE r # NoRef
  <2>1. S # {} BY <1>3 DEF NextFor
  <2>2. \E j \in S : \A k \in S : j <= k
    <3>1. S \in SUBSET Nat OBVIOUS
    <3> HIDE DEF S
    <3> QED BY <2>1, <3>1, MinProperty
  <2>3. r = RefOf(clients[CHOOSE j \in S : \A k \in S : j <= k]) BY <2>1 DEF NextFor
  <2>4. PICK j \in S : r = RefOf(clients[j])
    <3> HIDE DEF S, r
    <3> QED BY <2>2, <2>3
  <2>5. For(clients[j], m) OBVIOUS
  <2>6. cb' = [CbIdle EXCEPT !.pc = "walk", !.msg = m, !.at = r] BY <1>3 DEF Continue
  <2>7. r.id = CTL => m.to = CTL BY <2>4, <2>5 DEF RefOf, For
  <2> HIDE DEF r
  <2>8. cb'.msg = m /\ cb'.at = r BY <2>6 DEF CbIdle
  <2> QED BY <2>7, <2>8
<1> QED BY <1>2, <1>3

LEMMA CallbackFrame ==
  ASSUME AInv, UNCHANGED <<pc, call, del>>, Same(clients, clients'), clients \in Seq(ClientMem),
         cb'.pc = "walk" /\ cb'.at.id = CTL => cb'.msg.to = CTL,
         \A x, b : From(x, b)' => From(x, b)
  PROVE  AInv'
BY OneCtl, ConstantFacts, AnswerFrame DEF AInv, CtlInv, OnlyMoves, Pend

LEMMA ReadCallbackAnswers ==
  ASSUME TInv, AInv, ReadCallback
  PROVE  AInv'
<1>1. UNCHANGED <<pc, call, clients, del>> /\ clients \in Seq(ClientMem)
  BY ClientTypes DEF ReadCallback, syncVars
<1>2. CASE \E m \in Answers :
             /\ asked' = {a \in asked : [a EXCEPT !.id = NoId] # [m EXCEPT !.id = NoId]}
             /\ Continue(m, 1)
  <2>1. PICK m \in Answers :
           /\ asked' = {a \in asked : [a EXCEPT !.id = NoId] # [m EXCEPT !.id = NoId]}
           /\ Continue(m, 1)
    BY <1>2
  <2>2. m \in Msg BY AnswerTypes
  <2>3. \E q \in asked : m.to = q.to /\ m.tid = q.tid /\ m.by = q.by
    <3>1. \A q \in asked : q \in Msg BY DEF TInv, TypeOK
    <3>2. m \in asked \/ \E q \in asked : \E x : m = [q EXCEPT !.id = x] BY DEF Answers, Grant
    <3> QED BY <3>1, <3>2 DEF Msg
  <2>4. /\ cb'.pc # "idle" => cb'.msg = m
        /\ cb'.pc = "walk" /\ cb'.at.id = CTL => cb'.msg.to = CTL
    BY <2>1, <2>2, ContinueTo
  <2>5. \A x, b : From(x, b)' => From(x, b)
    BY <1>1, <2>1, <2>3, <2>4 DEF From, AtModem, AtCallback
  <2> QED BY <1>1, <2>4, <2>5, SameFewer, CallbackFrame
<1>3. CASE \E m \in Unasked : Continue(m, 1) /\ UNCHANGED asked
  <2>1. PICK m \in Unasked : Continue(m, 1) /\ UNCHANGED asked BY <1>3
  <2>2. m \in Msg /\ m.to # CTL
    <3>1. m.to \in Ids \union {ALL} BY DEF Unasked, TInv, TypeOK
    <3> QED BY <3>1, AnswerTypes, ConstantFacts DEF ALL, CTL
  <2>3. /\ cb'.pc # "idle" => cb'.msg = m
        /\ cb'.pc = "walk" /\ cb'.at.id = CTL => cb'.msg.to = CTL
    BY <2>1, <2>2, ContinueTo
  <2>4. \A x, b : From(x, b)' => From(x, b)
    BY <1>1, <2>1, <2>2, <2>3 DEF From, AtModem, AtCallback
  <2> QED BY <1>1, <2>3, <2>4, SameFewer, CallbackFrame
<1> QED BY <1>2, <1>3 DEF ReadCallback

LEMMA CallbackDeliverAnswers ==
  ASSUME TInv, AInv, CallbackDeliver
  PROVE  AInv'
<1> DEFINE i == Place(cb.at)
           k == FirstWaiter(clients[i].notify, cb.msg.tid)
           s == clients[i].list
           l == Append(s, cb.msg)
           cs == SetList(clients, i, l)
<1>1. /\ UNCHANGED <<pc, call, asked, del>> /\ clients \in Seq(ClientMem) /\ cb.pc = "walk"
      /\ cb.msg \in Msg /\ \A j \in 1..Len(clients) : clients[j] \in ClientMem
  BY ClientTypes DEF CallbackDeliver, syncVars, modemVars, TInv, TypeOK
<1>2. /\ i \in 1..Len(clients) /\ clients[i] \in ClientMem /\ Same(clients, clients')
  BY DeliverProperties
<1>3. RefOf(clients[i]) = cb.at BY <1>2, <1>1, PlaceProperties
<1>4. clients[i].id = CTL => cb.msg.to = CTL BY <1>1, <1>3 DEF RefOf, AInv, CtlInv
<1>5. s \in Seq(Msg) /\ clients[i].notify \in Seq(Waiter) BY <1>2 DEF ClientMem
<1>6. /\ IF k = 0
         THEN clients' = cs /\ \E n \in Nat \ {0} : Continue(cb.msg, n)
         ELSE /\ clients' = SetNotify(cs, i, RemoveAt(cs[i].notify, k))
              /\ cb' = [cb EXCEPT !.pc = "up", !.who = clients[i].notify[k].t]
  <2>1. i + 1 \in Nat \ {0} /\ Len(clients) + 1 \in Nat \ {0}
    <3> HIDE DEF i
    <3> QED BY <1>1, <1>2
  <2> QED BY <2>1 DEF CallbackDeliver
<1> HIDE DEF i, k
<1>7. i \in 0..Len(clients) BY <1>2
<1>8. /\ l \in Seq(Msg) /\ Len(l) = Len(s) + 1 /\ l[Len(s) + 1] = cb.msg /\ Len(s) \in Nat
      /\ \A j \in 1..Len(s) : l[j] = s[j]
  <2> HIDE DEF s
  <2> QED BY <1>1, <1>5, AppendProperties
<1> HIDE DEF l
<1>9. /\ cs \in Seq(ClientMem) /\ Len(cs) = Len(clients)
      /\ \A j \in 1..Len(clients) : cs[j] = IF j = i THEN [clients[j] EXCEPT !.list = l] ELSE clients[j]
  BY <1>1, <1>7, <1>8, SetListProperties
<1> HIDE DEF cs
<1>10. ASSUME NEW x, NEW b, Stored(cs, x, b)
       PROVE  Stored(clients, x, b) \/ AtCallback(x, b)
  <2>0. PICK j \in 1..Len(clients) :
           /\ cs[j].id = CTL
           /\ \E n \in 1..Len(cs[j].list) : cs[j].list[n].tid = x /\ cs[j].list[n].by = b
    BY <1>9, <1>10 DEF Stored
  <2>1. PICK n \in 1..Len(cs[j].list) : /\ cs[j].id = CTL
                                        /\ cs[j].list[n].tid = x /\ cs[j].list[n].by = b
    BY <2>0
  <2>2. clients[j].id = CTL /\ cs[j].list = IF j = i THEN l ELSE clients[j].list
    BY <1>1, <1>9, <2>1 DEF ClientMem
  <2>3. CASE j # i BY <2>1, <2>2, <2>3 DEF Stored
  <2>4. CASE j = i /\ n = Len(s) + 1 BY <1>1, <1>4, <1>8, <2>1, <2>2, <2>4 DEF AtCallback
  <2>5. CASE j = i /\ n # Len(s) + 1
    <3>1. n \in 1..Len(s) BY <1>8, <2>1, <2>2, <2>5
    <3>2. l[n] = s[n] BY <1>8, <3>1
    <3> QED BY <2>1, <2>2, <2>5, <3>1, <3>2 DEF Stored
  <2> QED BY <2>3, <2>4, <2>5
<1>11. Fewer(cs, clients')
  <2>1. CASE k = 0 BY <1>6, <2>1 DEF Fewer
  <2>2. CASE k # 0
    <3>1. /\ cs[i].notify = clients[i].notify /\ clients' = SetNotify(cs, i, RemoveAt(cs[i].notify, k))
      BY <1>2, <1>6, <1>9, <2>2 DEF ClientMem
    <3>2. k \in 1..Len(clients[i].notify) BY <1>5, <2>2, WaiterProperties DEF k
    <3>3. RemoveAt(cs[i].notify, k) \in Seq(Waiter) BY <1>5, <3>1, <3>2, RemoveAtProperties
    <3>4. i \in 0..Len(cs) BY <1>7, <1>9
    <3> QED BY <1>9, <3>1, <3>3, <3>4, SetFewer
  <2> QED BY <2>1, <2>2
<1>12. /\ cb'.pc # "idle" => cb'.msg = cb.msg
       /\ cb'.pc = "walk" /\ cb'.at.id = CTL => cb'.msg.to = CTL
  <2>1. CASE \E n \in Nat \ {0} : Continue(cb.msg, n) BY <1>1, <2>1, ContinueTo
  <2>2. CASE cb' = [cb EXCEPT !.pc = "up", !.who = clients[i].notify[k].t]
    BY <2>2 DEF TInv, TypeOK
  <2> QED BY <1>6, <2>1, <2>2
<1>13. \A x, b : AtCallback(x, b)' => AtCallback(x, b) BY <1>1, <1>12 DEF AtCallback
<1>14. \A x, b : From(x, b)' => From(x, b) BY <1>1, <1>10, <1>11, <1>13 DEF From, AtModem, Fewer
<1> QED BY <1>1, <1>2, <1>12, <1>14, CallbackFrame

LEMMA CallbackUpAnswers ==
  ASSUME TInv, AInv, CallbackUp
  PROVE  AInv'
<1>1. /\ UNCHANGED <<pc, call, asked, del>> /\ clients \in Seq(ClientMem)
      /\ cb.pc = "up" /\ cb.who \in Notified /\ Up(cb.who)
      /\ cb'.pc = "on" /\ cb'.msg = cb.msg
  BY ClientTypes DEF CallbackUp, modemVars, TInv, TypeOK
<1>2. Same(clients, clients') /\ Fewer(clients, clients') BY <1>1, UpFewer
<1>3. \A x, b : From(x, b)' => From(x, b)
  BY <1>1, <1>2 DEF From, AtModem, AtCallback, Fewer
<1> QED BY <1>1, <1>2, <1>3, CallbackFrame

LEMMA CallbackOnAnswers ==
  ASSUME TInv, AInv, CallbackOn
  PROVE  AInv'
<1>1. /\ UNCHANGED <<pc, call, asked, del, clients>> /\ clients \in Seq(ClientMem)
      /\ cb.pc = "on" /\ cb.msg \in Msg
  BY ClientTypes DEF CallbackOn, modemVars, TInv, TypeOK
<1>2. /\ cb'.pc # "idle" => cb'.msg = cb.msg
      /\ cb'.pc = "walk" /\ cb'.at.id = CTL => cb'.msg.to = CTL
  BY <1>1, CallbackContinues, ContinueTo
<1>3. \A x, b : From(x, b)' => From(x, b) BY <1>1, <1>2 DEF From, AtModem, AtCallback
<1> QED BY <1>1, <1>2, <1>3, SameFewer, CallbackFrame

\* ReleaseClientID without a request.
LEMMA FindAnswers ==
  ASSUME TInv, AInv, NEW t \in Threads, NEW c, call' = [call EXCEPT ![t] = c], Goto(t, "find"),
         UNCHANGED <<clients, del, asked, cb>>
  PROVE  AInv'
BY SameFewer, DoneMove DEF TInv, TypeOK, CallSet, Goto, OnlyMoves, Others, CbStays, AInv,
   CtlInv, Calling, Linking, Writing

LEMMA AskReleaseAnswers ==
  ASSUME TInv, AInv, TakesFree, NEW t \in Threads, NEW c \in Ids \union {CTL, NoId},
         AskRelease(t, c), UNCHANGED <<del, asked, cb>>
  PROVE  AInv'
<1>1. CASE c # CTL /\ BeginCtl(t, "rel", c)
  <2>1. c \in Ids \union {NoId} BY <1>1
  <2> QED BY <1>1, <2>1, BeginCtlAnswers
<1>2. CASE /\ call' = [call EXCEPT ![t] = [NoCall EXCEPT !.op = "rel", !.rid = c]]
           /\ Goto(t, "find") /\ UNCHANGED <<tid, clients>>
  BY <1>2, FindAnswers
<1> QED BY <1>1, <1>2 DEF AskRelease

LEMMA IoctlAnswers ==
  ASSUME TInv, AInv, TakesFree, NEW f \in Files, GetService(f) \/ ForceRelease(f) \/ GetAgain(f)
  PROVE  AInv'
<1>1. Main(f) \in Threads /\ WDA \in Ids BY ConstantFacts, ConstantsAssumption
<1>2. UNCHANGED <<del, asked, cb>> BY DEF GetService, ForceRelease, GetAgain, modemVars
<1>3. \/ UNCHANGED <<tid, clients, call, pc>>
      \/ \E c \in Ids \union {NoId} : BeginCtl(Main(f), "get", c)
      \/ AskRelease(Main(f), WDA)
  BY <1>1 DEF GetService, ForceRelease, GetAgain
<1>4. CASE UNCHANGED <<tid, clients, call, pc>> BY <1>2, <1>4, NothingNew
<1> QED BY <1>1, <1>2, <1>3, <1>4, BeginCtlAnswers, AskReleaseAnswers

LEMMA UserspaceCloseAnswers ==
  ASSUME TInv, AInv, TakesFree, NEW f \in Files, UserspaceClose(f)
  PROVE  AInv'
<1>1. Main(f) \in Threads /\ id[f] \in Ids \union {NoId} BY ConstantFacts DEF TInv, TypeOK
<1>2. UNCHANGED <<del, asked, cb>> BY DEF UserspaceClose, modemVars
<1>3. CASE UNCHANGED <<tid, clients, call, pc>> BY <1>2, <1>3, NothingNew
<1>4. CASE AskRelease(Main(f), id[f]) BY <1>1, <1>2, <1>4, AskReleaseAnswers
<1> QED BY <1>3, <1>4 DEF UserspaceClose

LEMMA DeregisterAnswers ==
  ASSUME TInv, AInv, TakesFree, Deregister
  PROVE  AInv'
<1> DEFINE c == clients[1].id
<1>1. ExitT \in Threads /\ clients \in Seq(ClientMem) BY ConstantFacts, ClientTypes
<1>2. clients # <<>> => c \in Ids \union {CTL}
  <2>1. clients # <<>> => clients[1] \in ClientMem BY <1>1, TailProperties
  <2> QED BY <2>1 DEF ClientMem
<1>3. UNCHANGED <<del, asked, cb>> BY DEF Deregister
<1>4. CASE UNCHANGED <<tid, clients, call, pc>> BY <1>3, <1>4, NothingNew
<1>5. CASE clients # <<>> /\ AskRelease(ExitT, c) BY <1>1, <1>2, <1>3, <1>5, AskReleaseAnswers
<1> QED BY <1>4, <1>5 DEF Deregister

LEMMA RemovalAnswers ==
  ASSUME TInv, AInv, Unplug \/ Unbind
  PROVE  AInv'
BY NothingNew DEF Unplug, Unbind

LEMMA SyncReadyAnswers ==
  ASSUME TInv, AInv, TakesFree, SyncReady
  PROVE  AInv'
<1> DEFINE cs == Purged(clients, NextTid)
           i == FindClientMem(cs, CTL)
           w == [tid |-> NextTid, t |-> SyncT]
           c == [op |-> "ready", cid |-> CTL, tid |-> NextTid, rid |-> NoId]
<1>1. clients \in Seq(ClientMem) /\ SyncT \in Threads /\ UNCHANGED <<asked, cb, del>>
  BY ConstantFacts, ClientTypes DEF SyncReady, modemVars
<1>2. NextTid \in 0..MaxTid BY ConstantsAssumption DEF TInv, TypeOK, NextTid
<1>3. cs \in Seq(ClientMem) /\ Same(clients, cs) BY <1>1, PurgedProperties
<1>4. Fewer(clients, cs) /\ \A b : ~Stored(cs, NextTid, b) BY <1>1, PurgedFewer DEF AInv, CtlInv
<1>5. i \in 0..Len(cs) BY <1>3, FindProperties
<1>6. \/ UNCHANGED <<clients, call, pc>>
      \/ /\ i # 0 /\ clients' = SetNotify(cs, i, Append(cs[i].notify, w))
         /\ call' = [call EXCEPT ![SyncT] = c]
         /\ Goto(SyncT, "add")
  BY DEF SyncReady
<1> HIDE DEF cs, i
<1>7. CASE UNCHANGED <<clients, call, pc>> BY <1>1, <1>7, NothingNew
<1>8. CASE /\ i # 0 /\ clients' = SetNotify(cs, i, Append(cs[i].notify, w))
           /\ call' = [call EXCEPT ![SyncT] = c]
           /\ Goto(SyncT, "add")
  <2>1. cs[i] \in ClientMem BY <1>3, <1>5, <1>8
  <2>2. Append(cs[i].notify, w) \in Seq(Waiter)
    <3>1. w \in Waiter BY <1>1, <1>2 DEF Waiter
    <3> HIDE DEF w
    <3> QED BY <2>1, <3>1, AppendProperties DEF ClientMem
  <2> HIDE DEF w
  <2>3. Same(cs, clients') /\ Fewer(cs, clients')
    BY <1>3, <1>5, <1>8, <2>2, SetFieldSame, SetFewer
  <2>4. Same(clients, clients') BY <1>3, <2>3 DEF Same
  <2>5. Fewer(clients, clients') BY <1>4, <2>3, FewerTrans
  <2>6. \A b : ~Stored(clients', NextTid, b) BY <1>4, <2>3 DEF Fewer
  <2>7. OnlyMoves(SyncT) /\ pc'[SyncT] = "add" /\ call'[SyncT].tid = NextTid
    <3>1. pc \in [Threads -> Pcs] /\ call \in [Threads -> CallSet] BY DEF TInv, TypeOK, CallSet
    <3>2. c.tid = NextTid OBVIOUS
    <3> HIDE DEF c
    <3> QED BY <1>1, <1>8, <3>1, <3>2 DEF Goto, OnlyMoves, Others
  <2>8. NextIsFree BY NewId DEF SyncReady, TakesFree
  <2>9. TidInv' /\ OwnFrom' BY <1>1, <2>5, <2>6, <2>7, <2>8, BeginFrame
  <2>10. \A j \in 1..Len(clients') : clients'[j].id = CTL => j = 1 BY <1>1, <2>4, OneCtl
  <2>11. CbStays BY <1>1 DEF CbStays
  <2>12. CtlInv' BY <1>1, <2>7, <2>10, <2>11, CtlFrame DEF Linking, Others
  <2> QED BY <2>9, <2>12 DEF AInv
<1> QED BY <1>6, <1>7, <1>8

LEMMA SyncReadyEndAnswers ==
  ASSUME TInv, AInv, SyncReadyEnd
  PROVE  AInv'
<1> DEFINE i == FindClientMem(clients, CTL)
           k == IF i = 0 THEN 0 ELSE FirstMessage(clients[i].list, call[SyncT].tid)
           j == IF i = 0 THEN 0 ELSE FirstWaiter(clients[i].notify, call[SyncT].tid)
<1>1. SyncT \in Threads /\ clients \in Seq(ClientMem) /\ asked' = asked
  BY ConstantFacts, ClientTypes DEF SyncReadyEnd
<1>2. i \in 0..Len(clients) /\ (i # 0 => clients[i] \in ClientMem)
  <2>1. i \in 0..Len(clients) BY <1>1, FindProperties
  <2> HIDE DEF i
  <2> QED BY <1>1, <2>1
<1>3. (k # 0 => k \in 1..Len(clients[i].list)) /\ (j # 0 => j \in 1..Len(clients[i].notify))
  <2> HIDE DEF i
  <2>1. i # 0 => /\ FirstMessage(clients[i].list, call[SyncT].tid) \in 0..Len(clients[i].list)
                 /\ FirstWaiter(clients[i].notify, call[SyncT].tid) \in 0..Len(clients[i].notify)
    BY <1>2, MessageProperties, WaiterProperties DEF ClientMem
  <2>2. i # 0 => Len(clients[i].list) \in Nat /\ Len(clients[i].notify) \in Nat
    BY <1>2 DEF ClientMem
  <2> QED BY <2>1, <2>2
<1>4. \/ /\ k # 0 /\ clients' = SetList(clients, i, RemoveAt(clients[i].list, k))
         /\ Return(SyncT, TRUE) /\ UNCHANGED <<cb, del>>
      \/ /\ \/ UNCHANGED <<clients, cb, del>>
            \/ /\ \/ UNCHANGED clients
                  \/ j # 0 /\ clients' = SetNotify(clients, i, RemoveAt(clients[i].notify, j))
               /\ NotifyInstead(SyncT, NoThread)
         /\ Goto(SyncT, "idle") /\ UNCHANGED call
  BY DEF SyncReadyEnd
<1>5. i # 0 => (j # 0 => RemoveAt(clients[i].notify, j) \in Seq(Waiter))
  <2> HIDE DEF i, k, j
  <2> QED BY <1>2, <1>3, RemoveAtProperties DEF ClientMem
<1>6. i # 0 => (k # 0 => RemoveAt(clients[i].list, k) \in Seq(Msg))
  <2> HIDE DEF i, k, j
  <2> QED BY <1>2, <1>3, RemoveAtProperties DEF ClientMem
<1>7. (k # 0 \/ j # 0) => i # 0 OBVIOUS
<1> HIDE DEF i, k, j
<1>8. Same(clients, clients') /\ Fewer(clients, clients')
  <2>1. CASE UNCHANGED clients BY <2>1, SameFewer
  <2>2. CASE k # 0 /\ clients' = SetList(clients, i, RemoveAt(clients[i].list, k))
    BY <1>1, <1>2, <1>3, <1>6, <1>7, <2>2, SetFieldSame, RemovedFewer
  <2>3. CASE j # 0 /\ clients' = SetNotify(clients, i, RemoveAt(clients[i].notify, j))
    BY <1>1, <1>2, <1>5, <1>7, <2>3, SetFieldSame, SetFewer
  <2> QED BY <1>4, <2>1, <2>2, <2>3
<1>9. CbStays /\ \A u \in Others(SyncT) : del'[u].next = del[u].next
  <2>1. CASE UNCHANGED <<cb, del>> BY <2>1 DEF CbStays
  <2>2. CASE NotifyInstead(SyncT, NoThread)
    BY <1>1, <2>2, InsteadType DEF CbStays, Notified, Others
  <2> QED BY <1>4, <2>1, <2>2
<1>10. OnlyMoves(SyncT) /\ pc'[SyncT] = "idle"
  <2>1. CASE Return(SyncT, TRUE) BY <1>1, <2>1, ReturnEffect
  <2>2. CASE Goto(SyncT, "idle") /\ UNCHANGED call
    BY <1>1, <2>2 DEF Goto, OnlyMoves, Others, TInv, TypeOK
  <2> QED BY <1>4, <2>1, <2>2
<1>11. \A m \in 1..Len(clients') : clients'[m].id = CTL => m = 1 BY <1>1, <1>8, OneCtl
<1> QED BY <1>1, <1>8, <1>9, <1>10, <1>11, DoneMove DEF Calling, Linking, Writing

LEMMA SyncCtlAnswers ==
  ASSUME TInv, AInv, TakesFree, SyncCtl
  PROVE  AInv'
BY ConstantFacts, ConstantsAssumption, BeginCtlAnswers DEF SyncCtl, modemVars

LEMMA SyncIoAnswers ==
  ASSUME TInv, AInv, TakesFree, SyncIo
  PROVE  AInv'
<1> DEFINE op == call[SyncT].op
           io(next, x) == [op |-> next, cid |-> id["driver"], tid |-> x, rid |-> NoId]
           i == FindClientMem(clients, wds)
           cs == SetList(clients, i, <<>>)
           l == Append(clients[i].notify, [tid |-> 0, t |-> WdsCb])
<1>1. /\ SyncT \in Threads /\ pc[SyncT] = "idle" /\ clients \in Seq(ClientMem)
      /\ pc \in [Threads -> Pcs] /\ call \in [Threads -> CallSet]
      /\ id["driver"] \in Ids \union {NoId} /\ UNCHANGED <<asked, cb, del>>
  BY ConstantFacts DEF TInv, TypeOK, CallSet, SyncIo, SyncIdle, Holders, modemVars
<1>2. \/ \E next \in {"write", "read"}, x \in {0, 1}, where \in {"add", "try"} :
            /\ call' = [call EXCEPT ![SyncT] = io(next, x)]
            /\ Goto(SyncT, where) /\ UNCHANGED clients
      \/ BeginCtl(SyncT, "rel", id["driver"])
      \/ /\ UNCHANGED clients \/ (i # 0 /\ clients' = SetNotify(cs, i, l))
         /\ call' = [call EXCEPT ![SyncT] = NoCall] /\ UNCHANGED pc
  BY DEF SyncIo
<1>3. /\ CbStays /\ \A u \in Threads : del'[u].next = del[u].next
      /\ \A x, b : AtModem(x, b)' => AtModem(x, b)
  BY <1>1 DEF CbStays, AtModem
<1>4. ASSUME NEW next \in {"write", "read"}, NEW x \in {0, 1}, NEW where \in {"add", "try"},
             call' = [call EXCEPT ![SyncT] = io(next, x)],
             Goto(SyncT, where), UNCHANGED clients
      PROVE  AInv'
  <2>1. io(next, x).op = next OBVIOUS
  <2> HIDE DEF io
  <2>2. OnlyMoves(SyncT) /\ pc'[SyncT] = where /\ call'[SyncT].op = next
    BY <1>1, <1>4, <2>1 DEF Goto, OnlyMoves, Others
  <2>3. ~Pend(SyncT)' /\ pc'[SyncT] \notin Linking BY <2>2 DEF Pend, CtlOps, Linking
  <2> QED BY <1>1, <1>3, <1>4, <2>2, <2>3, SameFewer, Quiet
<1>5. CASE BeginCtl(SyncT, "rel", id["driver"]) BY <1>1, <1>5, BeginCtlAnswers
<1>6. CASE /\ UNCHANGED clients \/ (i # 0 /\ clients' = SetNotify(cs, i, l))
           /\ call' = [call EXCEPT ![SyncT] = NoCall] /\ UNCHANGED pc
  <2>1. OnlyMoves(SyncT) /\ pc'[SyncT] = "idle" BY <1>1, <1>6 DEF OnlyMoves, Others
  <2>2. ~Pend(SyncT)' /\ pc'[SyncT] \notin Linking BY <2>1 DEF Pend, Linking, Writing
  <2>3. Same(clients, clients') /\ Fewer(clients, clients')
    <3>1. CASE UNCHANGED clients BY <3>1, SameFewer
    <3>2. CASE i # 0 /\ clients' = SetNotify(cs, i, l)
      <4>1. i \in 1..Len(clients) /\ i \in 0..Len(clients) BY <1>1, <3>2, FindProperties
      <4> HIDE DEF i
      <4>2. l \in Seq(Waiter) /\ <<>> \in Seq(Msg)
        <5>1. clients[i] \in ClientMem /\ [tid |-> 0, t |-> WdsCb] \in Waiter
          BY <1>1, <4>1, ConstantsAssumption DEF Waiter
        <5>2. clients[i].notify \in Seq(Waiter) BY <5>1 DEF ClientMem
        <5> QED BY <5>1, <5>2, AppendProperties, EmptySeq
      <4>3. cs \in Seq(ClientMem) /\ Same(clients, cs)
        <5>1. \A m \in Seq(Msg) : LET ds == SetList(clients, i, m) IN
                 Same(clients, ds) /\ ds \in Seq(ClientMem)
          BY <1>1, <4>1, SetFieldSame
        <5>2. cs = SetList(clients, i, <<>>) OBVIOUS
        <5> HIDE DEF cs
        <5> QED BY <4>2, <5>1, <5>2
      <4>4. Fewer(clients, cs) BY <1>1, <4>1, EmptiedFewer
      <4>5. i \in 0..Len(cs) BY <4>1, <4>3 DEF Same
      <4> HIDE DEF cs, l
      <4>6. Same(cs, clients') /\ Fewer(cs, clients')
        BY <3>2, <4>2, <4>3, <4>5, SetFieldSame, SetFewer
      <4>7. Same(clients, clients') BY <4>3, <4>6 DEF Same
      <4> QED BY <4>4, <4>6, <4>7, FewerTrans
    <3> QED BY <1>6, <3>1, <3>2
  <2> QED BY <1>1, <1>3, <2>1, <2>2, <2>3, Quiet
<1> QED BY <1>2, <1>4, <1>5, <1>6

LEMMA InitAnswers ==
  ASSUME Init
  PROVE  AInv
BY DEF Init, CbIdle, CtlInv, Pend, Writing, TidInv, OwnFrom, AInv

LEMMA StepAnswers ==
  ASSUME TInv, AInv, TakesFree, [Next]_vars
  PROVE  AInv'
<1>1. CASE UNCHANGED vars BY <1>1, NothingNew DEF vars, modemVars
<1>2. ASSUME NEW f \in Files, FileStep(f) PROVE AInv'
  BY ConstantFacts, <1>2, IoctlAnswers, BeginIoAnswers, UserspaceCloseAnswers DEF FileStep,
     UserspaceWrite, UserspaceRead
<1>3. ASSUME NEW t \in Threads,
             WriteStep(t) \/ ReadStep(t) \/ ClientInsert(t) \/ ClientReturn(t)
      PROVE  AInv'
  BY <1>3, WriteAddAnswers, WriteSubmitAnswers, WriteWakeAnswers, ReadTryAnswers,
     ReadWakeAnswers, ReadInterruptedAnswers, ReadGiveUpAnswers, ClientInsertAnswers,
     ClientReturnAnswers DEF WriteStep, ReadStep
<1>4. ASSUME NEW t \in Threads, ReleaseStep(t) PROVE AInv'
  BY <1>4, ReleaseFindAnswers, ReleaseNotifyAnswers, ReleaseUpAnswers, ReleaseUrbAnswers,
     ReleaseFreeAnswers DEF ReleaseStep
<1>5. CASE WriteSyncCallback \/ ReadCallback \/ CallbackStep
  BY <1>5, WriteSyncCallbackAnswers, ReadCallbackAnswers, CallbackDeliverAnswers,
     CallbackUpAnswers, CallbackOnAnswers DEF CallbackStep
<1>6. CASE SyncStep \/ Unplug \/ Unbind \/ Deregister
  BY <1>6, SyncReadyAnswers, SyncReadyEndAnswers, SyncCtlAnswers, SyncIoAnswers,
     RemovalAnswers, DeregisterAnswers DEF SyncStep
<1> QED BY <1>1, <1>2, <1>3, <1>4, <1>5, <1>6 DEF Next

\* As long as no new transaction id is that of a request or an answer still on
\* its way, what a reader of QMICTL finds stored under its id answers its own
\* request: QMIXactionIDGet frees what older requests left under the id, no two
\* calls under way share an id, and the read callback stores nothing under it
\* but the answer it waits for.
THEOREM AnswersOwn == Spec /\ [][TakesFree]_vars => []OwnAnswer
<1>1. TInv /\ AInv => OwnAnswer
  <2> SUFFICES ASSUME TInv, AInv, NEW t \in Threads, pc[t] \in {"try", "asleep"},
                      call[t].cid = CTL, NEW i \in DOMAIN clients, clients[i].id = CTL,
                      NEW k \in DOMAIN clients[i].list, clients[i].list[k].tid = call[t].tid
               PROVE  clients[i].list[k].by = t
    BY DEF OwnAnswer
  <2>1. CallInv(t) /\ i \in 1..Len(clients) /\ clients[i] \in ClientMem BY ClientTypes DEF TInv
  <2>2. Pend(t) BY <2>1, ConstantFacts DEF CallInv, Pend, CtlOps
  <2>3. clients[i].list \in Seq(Msg) BY <2>1 DEF ClientMem
  <2>4. k \in 1..Len(clients[i].list) /\ clients[i].list[k] \in Msg BY <2>3
  <2>5. clients[i].list[k].by \in Threads BY <2>4 DEF Msg
  <2>6. From(call[t].tid, clients[i].list[k].by) BY <2>1, <2>4 DEF From, Stored
  <2> QED BY <2>2, <2>5, <2>6 DEF AInv, OwnFrom
<1>2. Init => TInv /\ AInv BY InitTypes, InitAnswers
<1>3. TInv /\ AInv /\ [TakesFree]_vars /\ [Next]_vars => (TInv /\ AInv)'
  BY StepTypes, StepAnswers DEF TakesFree, vars
<1> QED BY <1>1, <1>2, <1>3, PTL DEF Spec

-----------------------------------------------------------------------------
\* What is found in the lists.

LEMMA NothingFor ==
  ASSUME NEW l \in Seq(Msg), NEW x
  PROVE  FirstMessage(l, x) = 0 <=> \A j \in 1..Len(l) : x \notin {0, l[j].tid}
<1> DEFINE I == {i \in 1..Len(l) : x \in {0, l[i].tid}}
<1>1. I \in SUBSET Nat /\ 0 \notin I OBVIOUS
<1>2. I # {} => Min(I) \in I
  <2> HIDE DEF I
  <2> QED BY <1>1, MinProperty
<1>3. FirstMessage(l, x) = IF I # {} THEN Min(I) ELSE 0 BY DEF FirstMessage, SelectInSeq
<1>4. FirstMessage(l, x) = 0 <=> I = {}
  <2> HIDE DEF I
  <2> QED BY <1>1, <1>2, <1>3
<1> QED BY <1>4

LEMMA WaiterFound ==
  ASSUME NEW l \in Seq(Waiter), NEW x
  PROVE  LET k == FirstWaiter(l, x) IN
         /\ k = 0 => \A j \in 1..Len(l) : l[j].tid \notin {0, x}
         /\ k # 0 => k \in 1..Len(l) /\ (x = 0 \/ l[k].tid \in {0, x})
<1> DEFINE I == {i \in 1..Len(l) : x = 0 \/ l[i].tid \in {0, x}}
<1>1. I \in SUBSET Nat /\ 0 \notin I OBVIOUS
<1>2. I # {} => Min(I) \in I
  <2> HIDE DEF I
  <2> QED BY <1>1, MinProperty
<1>3. FirstWaiter(l, x) = IF I # {} THEN Min(I) ELSE 0 BY DEF FirstWaiter, SelectInSeq
<1>4. /\ FirstWaiter(l, x) = 0 => I = {}
      /\ FirstWaiter(l, x) # 0 => FirstWaiter(l, x) \in I
  <2> HIDE DEF I
  <2> QED BY <1>1, <1>2, <1>3
<1> QED BY <1>4

LEMMA SetLessData ==
  ASSUME NEW cs \in Seq(ClientMem), NEW i \in 0..Len(cs)
  PROVE  /\ \A l \in Seq(Waiter) : LessData(cs, SetNotify(cs, i, l))
         /\ \A l \in Seq(Urb) : LessData(cs, SetUrbs(cs, i, l))
         /\ \A l \in Seq(Msg) :
              (i # 0 => \A k \in 1..Len(l) : \E j \in 1..Len(cs[i].list) : l[k] = cs[i].list[j])
                => LessData(cs, SetList(cs, i, l))
<1>1. \A j \in 1..Len(cs) : cs[j] \in ClientMem OBVIOUS
<1>2. ASSUME NEW ds, \A j \in 1..Len(cs) : ds[j].list = cs[j].list
      PROVE  LessData(cs, ds)
  BY <1>2 DEF LessData
<1>3. ASSUME NEW l \in Seq(Waiter) PROVE LessData(cs, SetNotify(cs, i, l))
  <2> DEFINE ds == SetNotify(cs, i, l)
  <2>1. \A j \in 1..Len(cs) : ds[j] = IF j = i THEN [cs[j] EXCEPT !.notify = l] ELSE cs[j]
    BY SetNotifyProperties
  <2> HIDE DEF ds
  <2>2. \A j \in 1..Len(cs) : ds[j].list = cs[j].list BY <1>1, <2>1 DEF ClientMem
  <2>3. LessData(cs, ds) BY <1>2, <2>2
  <2> QED BY <2>3 DEF ds
<1>4. ASSUME NEW l \in Seq(Urb) PROVE LessData(cs, SetUrbs(cs, i, l))
  <2> DEFINE ds == SetUrbs(cs, i, l)
  <2>1. \A j \in 1..Len(cs) : ds[j] = IF j = i THEN [cs[j] EXCEPT !.urbs = l] ELSE cs[j]
    BY SetUrbsProperties
  <2> HIDE DEF ds
  <2>2. \A j \in 1..Len(cs) : ds[j].list = cs[j].list BY <1>1, <2>1 DEF ClientMem
  <2>3. LessData(cs, ds) BY <1>2, <2>2
  <2> QED BY <2>3 DEF ds
<1>5. ASSUME NEW l \in Seq(Msg),
             i # 0 => \A k \in 1..Len(l) : \E j \in 1..Len(cs[i].list) : l[k] = cs[i].list[j]
      PROVE  LessData(cs, SetList(cs, i, l))
  <2> DEFINE ds == SetList(cs, i, l)
  <2>1. \A j \in 1..Len(cs) : ds[j] = IF j = i THEN [cs[j] EXCEPT !.list = l] ELSE cs[j]
    BY SetListProperties
  <2> HIDE DEF ds
  <2>2. \A j \in 1..Len(cs) : ds[j].list = IF j = i THEN l ELSE cs[j].list
    BY <1>1, <2>1 DEF ClientMem
  <2>3. ASSUME NEW j \in 1..Len(cs), NEW k \in 1..Len(ds[j].list)
        PROVE  \E m \in 1..Len(cs[j].list) : ds[j].list[k] = cs[j].list[m]
    <3>1. CASE j = i BY <1>5, <2>2, <2>3, <3>1
    <3>2. CASE j # i BY <2>2, <2>3, <3>2
    <3> QED BY <3>1, <3>2
  <2>4. LessData(cs, ds) BY <2>3 DEF LessData
  <2> QED BY <2>4 DEF ds
<1> QED BY <1>3, <1>4, <1>5

LEMMA LessDataTrans ==
  ASSUME NEW cs, NEW ds, NEW es, Len(ds) = Len(cs), LessData(cs, ds), LessData(ds, es)
  PROVE  LessData(cs, es)
<1>1. SUFFICES ASSUME NEW i \in 1..Len(cs), NEW k \in 1..Len(es[i].list)
               PROVE  \E j \in 1..Len(cs[i].list) : es[i].list[k] = cs[i].list[j]
  BY DEF LessData
<1>2. PICK m \in 1..Len(ds[i].list) : es[i].list[k] = ds[i].list[m] BY DEF LessData
<1>3. PICK j \in 1..Len(cs[i].list) : ds[i].list[m] = cs[i].list[j] BY DEF LessData
<1> QED BY <1>2, <1>3

LEMMA EmptiedLess ==
  ASSUME NEW cs \in Seq(ClientMem), NEW i \in 0..Len(cs)
  PROVE  LessData(cs, SetList(cs, i, <<>>))
<1>1. <<>> \in Seq(Msg) /\ Len(<<>>) = 0 BY EmptySeq
<1>2. \A k \in 1..Len(<<>>) : FALSE BY <1>1
<1> DEFINE l == <<>>
<1>3. l \in Seq(Msg) /\ \A k \in 1..Len(l) : \E j \in 1..Len(cs[i].list) : l[k] = cs[i].list[j]
  BY <1>1, <1>2
<1> HIDE DEF l
<1>4. LessData(cs, SetList(cs, i, l)) BY <1>3, SetLessData
<1> QED BY <1>4 DEF l

LEMMA RemovedLess ==
  ASSUME NEW cs \in Seq(ClientMem), NEW i \in 1..Len(cs), NEW k \in 1..Len(cs[i].list)
  PROVE  LessData(cs, SetList(cs, i, RemoveAt(cs[i].list, k)))
<1> DEFINE s == cs[i].list
<1>1. s \in Seq(Msg)
  <2>1. cs[i] \in ClientMem OBVIOUS
  <2> QED BY <2>1 DEF ClientMem
<1>2. k \in 1..Len(s) /\ s = cs[i].list OBVIOUS
<1> HIDE DEF s
<1> DEFINE l == RemoveAt(s, k)
<1>3. /\ l \in Seq(Msg) /\ Len(l) = Len(s) - 1
      /\ \A j \in 1..(Len(s) - 1) : l[j] = IF j < k THEN s[j] ELSE s[j + 1]
  BY <1>1, <1>2, RemoveAtProperties
<1> HIDE DEF l
<1>4. \A m \in 1..Len(l) : \E j \in 1..Len(s) : l[m] = s[j]
  <2>1. Len(s) \in Nat BY <1>1
  <2> QED BY <1>2, <1>3, <2>1
<1>5. LessData(cs, SetList(cs, i, l))
  <2>1. i \in 0..Len(cs) OBVIOUS
  <2> QED BY <1>2, <1>3, <1>4, <2>1, SetLessData
<1> QED BY <1>2, <1>5 DEF l

\* QMIXactionIDGet leaves nothing under the new id.
LEMMA PurgedLess ==
  ASSUME NEW cs \in Seq(ClientMem), NEW x
  PROVE  /\ LessData(cs, Purged(cs, x))
         /\ LET i == FindClientMem(cs, CTL) IN
            i # 0 => \A k \in 1..Len(Purged(cs, x)[i].list) : Purged(cs, x)[i].list[k].tid # x
<1> DEFINE i == FindClientMem(cs, CTL)
<1>1. i \in 0..Len(cs) BY FindProperties
<1>2. CASE i = 0 BY <1>2 DEF Purged, LessData
<1>3. CASE i # 0
  <2> DEFINE s == cs[i].list
             l == Without(s, x)
             ds == SetList(cs, i, l)
  <2>1. cs[i] \in ClientMem BY <1>1, <1>3
  <2>2. s \in Seq(Msg) BY <2>1 DEF ClientMem
  <2>3. ds = Purged(cs, x) BY <1>3 DEF Purged
  <2>4. l \in Seq(Left(s, x)) /\ l \in Seq(Msg) BY <2>2, WithoutType
  <2>5. \A k \in 1..Len(l) : l[k] \in Left(s, x)
    <3> HIDE DEF l, s
    <3> QED BY <2>4
  <2>6. /\ \A k \in 1..Len(l) : \E j \in 1..Len(s) : l[k] = s[j]
        /\ \A k \in 1..Len(l) : l[k].tid # x
    <3> HIDE DEF l, s
    <3> QED BY <2>5 DEF Left
  <2> HIDE DEF l
  <2>7. ds[i].list = l
    <3>1. ds[i] = [cs[i] EXCEPT !.list = l]
      <4>1. i \in 0..Len(cs) /\ i \in 1..Len(cs) BY <1>1, <1>3
      <4> HIDE DEF i, s
      <4> QED BY <2>4, <4>1, SetListProperties
    <3> HIDE DEF ds, i
    <3> QED BY <2>1, <3>1 DEF ClientMem
  <2>8. LessData(cs, ds)
    <3>1. \A k \in 1..Len(l) : \E j \in 1..Len(cs[i].list) : l[k] = cs[i].list[j] BY <2>6
    <3> HIDE DEF i, s
    <3> QED BY <1>1, <2>4, <3>1, SetLessData
  <2> HIDE DEF ds, i
  <2> QED BY <2>3, <2>6, <2>7, <2>8 DEF i
<1> QED BY <1>2, <1>3

\* Registering QMIWDSCallback after reading everything.
LEMMA RegisteredLess ==
  ASSUME NEW cs \in Seq(ClientMem), NEW i \in 1..Len(cs)
  PROVE  LET w == [tid |-> 0, t |-> WdsCb]
             ds == SetNotify(SetList(cs, i, <<>>), i, Append(cs[i].notify, w))
         IN /\ LessData(cs, ds) /\ ds[i].list = <<>> /\ w \in Waiter
            /\ ds \in Seq(ClientMem) /\ Same(cs, ds)
            /\ \A j \in 1..Len(cs) :
                 ds[j].notify = IF j = i THEN Append(cs[i].notify, w) ELSE cs[j].notify
<1> DEFINE w == [tid |-> 0, t |-> WdsCb]
           l == Append(cs[i].notify, w)
           es == SetList(cs, i, <<>>)
           ds == SetNotify(es, i, l)
<1>1. i \in 0..Len(cs) /\ cs[i] \in ClientMem /\ Len(cs) \in Nat OBVIOUS
<1>2. w \in Waiter BY ConstantsAssumption DEF Waiter
<1>3. l \in Seq(Waiter) BY <1>1, <1>2, AppendProperties DEF ClientMem
<1>4. <<>> \in Seq(Msg) BY EmptySeq
<1>5. /\ es \in Seq(ClientMem) /\ Len(es) = Len(cs)
      /\ \A j \in 1..Len(cs) : es[j] = IF j = i THEN [cs[j] EXCEPT !.list = <<>>] ELSE cs[j]
  BY <1>1, <1>4, SetListProperties
<1>6. LessData(cs, es) BY <1>1, EmptiedLess
<1> HIDE DEF es, l
<1>7. /\ ds \in Seq(ClientMem) /\ Len(ds) = Len(es)
      /\ \A j \in 1..Len(es) : ds[j] = IF j = i THEN [es[j] EXCEPT !.notify = l] ELSE es[j]
  BY <1>1, <1>3, <1>5, SetNotifyProperties
<1>8. LessData(es, ds) BY <1>1, <1>3, <1>5, SetLessData
<1> HIDE DEF ds
<1>9. LessData(cs, ds) BY <1>5, <1>6, <1>8, LessDataTrans
<1>10. \A j \in 1..Len(cs) : /\ es[j].id = cs[j].id /\ es[j].owner = cs[j].owner
                             /\ es[j].notify = cs[j].notify /\ es[j] \in ClientMem
  <2>1. \A j \in 1..Len(cs) : cs[j] \in ClientMem OBVIOUS
  <2>2. \A j \in 1..Len(cs) : es[j] \in ClientMem BY <1>5
  <2> QED BY <1>5, <2>1, <2>2 DEF ClientMem
<1>11. \A j \in 1..Len(cs) : /\ ds[j].id = es[j].id /\ ds[j].owner = es[j].owner
                             /\ ds[j].list = es[j].list
                             /\ ds[j].notify = IF j = i THEN l ELSE es[j].notify
  BY <1>5, <1>7, <1>10 DEF ClientMem
<1>12. es[i].list = <<>> BY <1>1, <1>5 DEF ClientMem
<1>13. Same(cs, ds) /\ ds[i].list = <<>> BY <1>5, <1>7, <1>10, <1>11, <1>12 DEF Same
<1>14. \A j \in 1..Len(cs) : ds[j].notify = IF j = i THEN l ELSE cs[j].notify BY <1>10, <1>11
<1> QED BY <1>2, <1>7, <1>9, <1>13, <1>14 DEF ds, l, es

\* QMIWDSCallback reads everything before it registers again.
LEMMA WdsReadLess ==
  ASSUME NEW cs \in Seq(ClientMem)
  PROVE  /\ LessData(cs, WdsRead(cs))
         /\ LET i == FindClientMem(cs, wds) IN
            \/ WdsRead(cs) = cs
            \/ /\ i \in 1..Len(cs) /\ WdsRead(cs)[i].list = <<>>
               /\ WdsRead(cs) = SetNotify(SetList(cs, i, <<>>), i,
                                          Append(cs[i].notify, [tid |-> 0, t |-> WdsCb]))
<1> DEFINE i == FindClientMem(cs, wds)
<1>1. i \in 0..Len(cs) BY FindProperties
<1>2. CASE i = 0 \/ cs[i].list = <<>> BY <1>2 DEF WdsRead, LessData
<1>3. CASE ~(i = 0 \/ cs[i].list = <<>>)
  <2>1. WdsRead(cs) = SetNotify(SetList(cs, i, <<>>), i,
                                Append(cs[i].notify, [tid |-> 0, t |-> WdsCb]))
    BY <1>3 DEF WdsRead
  <2>2. i \in 1..Len(cs) BY <1>1, <1>3
  <2> HIDE DEF i
  <2>3. LET ds == SetNotify(SetList(cs, i, <<>>), i, Append(cs[i].notify, [tid |-> 0, t |-> WdsCb]))
        IN LessData(cs, ds) /\ ds[i].list = <<>>
    BY <2>2, RegisteredLess
  <2> QED BY <2>1, <2>2, <2>3 DEF i
<1> QED BY <1>2, <1>3

\* Steps after which no more is waited for and no more is stored.

LEMMA NotifyLength ==
  ASSUME TInv
  PROVE  /\ Len(clients) \in Nat
         /\ \A i \in 1..Len(clients) : /\ clients[i] \in ClientMem
                                       /\ clients[i].notify \in Seq(Waiter)
                                       /\ Len(clients[i].notify) \in Nat
                                       /\ clients[i].list \in Seq(Msg)
                                       /\ clients[i].id \in Ids \union {CTL}
<1>1. Len(clients) \in Nat /\ \A i \in 1..Len(clients) : clients[i] \in ClientMem BY ClientTypes
<1>2. ASSUME NEW i \in 1..Len(clients)
      PROVE  /\ clients[i].notify \in Seq(Waiter) /\ Len(clients[i].notify) \in Nat
             /\ clients[i].list \in Seq(Msg) /\ clients[i].id \in Ids \union {CTL}
  BY <1>1 DEF ClientMem
<1> QED BY <1>1, <1>2

LEMMA SameLessNotify ==
  ASSUME TInv, SameNotify(clients, clients')
  PROVE  LessNotify(clients, clients')
BY NotifyLength DEF SameNotify, LessNotify

LEMMA RemovedNotify ==
  ASSUME TInv, NEW i \in 1..Len(clients), NEW k \in 1..Len(clients[i].notify),
         \A j \in 1..Len(clients) :
            clients'[j].notify = IF j = i THEN RemoveAt(clients[i].notify, k) ELSE clients[j].notify
  PROVE  LessNotify(clients, clients')
<1> DEFINE s == clients[i].notify
           l == RemoveAt(s, k)
<1>1. s \in Seq(Waiter) /\ Len(s) \in Nat /\ k \in 1..Len(s) BY NotifyLength
<1>2. /\ \A j \in 1..Len(clients) : clients'[j].notify = IF j = i THEN l ELSE clients[j].notify
      /\ s = clients[i].notify
  OBVIOUS
<1> HIDE DEF s
<1>3. Len(l) = Len(s) - 1 /\ \A j \in 1..(Len(s) - 1) : l[j] = IF j < k THEN s[j] ELSE s[j + 1]
  BY <1>1, RemoveAtProperties
<1> HIDE DEF l
<1>4. Len(l) <= Len(s) /\ \A m \in 1..Len(l) : \E j \in 1..Len(s) : l[m] = s[j] BY <1>1, <1>3
<1>5. ASSUME NEW j \in 1..Len(clients)
      PROVE  /\ Len(clients'[j].notify) <= Len(clients[j].notify)
             /\ \A m \in 1..Len(clients'[j].notify) :
                  \E n \in 1..Len(clients[j].notify) : clients'[j].notify[m] = clients[j].notify[n]
  <2>1. CASE j = i
    <3>1. clients'[j].notify = l /\ clients[j].notify = s BY <1>2, <2>1
    <3> QED BY <1>4, <3>1
  <2>2. CASE j # i
    <3>1. clients'[j].notify = clients[j].notify /\ Len(clients[j].notify) \in Nat
      BY <1>2, <2>2, NotifyLength
    <3> QED BY <3>1
  <2> QED BY <2>1, <2>2
<1> QED BY <1>5 DEF LessNotify

LEMMA LessWaits ==
  ASSUME TInv, Heard, Same(clients, clients'), LessNotify(clients, clients')
  PROVE  /\ OneWaiter'
         /\ \A c, u, x : HasEntry(c, u, x)' => HasEntry(c, u, x)
<1>1. /\ Len(clients') = Len(clients)
      /\ \A i \in 1..Len(clients) : /\ clients'[i].id = clients[i].id
                                    /\ Len(clients[i].notify) \in Nat
  BY NotifyLength DEF Same
<1>2. OneWaiter'
  <2>1. SUFFICES ASSUME NEW i \in 1..Len(clients), clients[i].id # CTL
                 PROVE  Len(clients'[i].notify) <= 1
    BY <1>1 DEF OneWaiter
  <2>2. Len(clients[i].notify) <= 1 /\ Len(clients'[i].notify) <= Len(clients[i].notify)
    BY <2>1 DEF Heard, OneWaiter, LessNotify
  <2>3. CASE Len(clients[i].notify) = 0 BY <2>2, <2>3
  <2>4. CASE Len(clients[i].notify) = 1 BY <2>2, <2>4
  <2> QED BY <1>1, <2>2, <2>3, <2>4
<1>3. ASSUME NEW c, NEW u, NEW x, HasEntry(c, u, x)' PROVE HasEntry(c, u, x)
  <2>1. PICK i \in 1..Len(clients) :
           /\ clients[i].id = c
           /\ \E k \in 1..Len(clients'[i].notify) :
                clients'[i].notify[k].t = u /\ clients'[i].notify[k].tid = x
    BY <1>1, <1>3 DEF HasEntry
  <2>2. PICK k \in 1..Len(clients'[i].notify) :
           clients'[i].notify[k].t = u /\ clients'[i].notify[k].tid = x
    BY <2>1
  <2>3. PICK m \in 1..Len(clients[i].notify) : clients'[i].notify[k] = clients[i].notify[m]
    BY DEF LessNotify
  <2> QED BY <2>1, <2>2, <2>3 DEF HasEntry
<1> QED BY <1>2, <1>3

LEMMA LessHeard ==
  ASSUME TInv, Heard, Same(clients, clients'), LessData(clients, clients'),
         LessNotify(clients, clients')
  PROVE  /\ OneWaiter' /\ NoData'
         /\ \A c, u, x : HasEntry(c, u, x)' => HasEntry(c, u, x)
<1>1. NoData'
  <2>1. SUFFICES ASSUME NEW i \in 1..Len(clients), NEW k \in 1..Len(clients'[i].notify),
                        NEW j \in 1..Len(clients'[i].list)
                 PROVE  clients'[i].notify[k].tid \notin {0, clients'[i].list[j].tid}
    BY DEF NoData, Same
  <2>2. PICK m \in 1..Len(clients[i].notify) : clients'[i].notify[k] = clients[i].notify[m]
    BY DEF LessNotify
  <2>3. PICK n \in 1..Len(clients[i].list) : clients'[i].list[j] = clients[i].list[n]
    BY DEF LessData
  <2> QED BY <2>2, <2>3 DEF Heard, NoData
<1> QED BY <1>1, LessWaits

LEMMA ListedFrame ==
  ASSUME Heard, NEW t \in Threads, OnlyMoves(t),
         \A u \in Others(t) : /\ woken'[u] = woken[u]
                              /\ CbFor(u) => CbFor(u)'
                              /\ \A c, x : HasEntry(c, u, x) => HasEntry(c, u, x)',
         ListedOf(t)'
  PROVE  Listed'
<1>1. ASSUME NEW u \in Others(t) PROVE ListedOf(u)'
  BY DEF Heard, Listed, Others, OnlyMoves, ListedOf, Waiting
<1> QED BY <1>1 DEF Listed, Others

\* A thread's part in it.
LEMMA HeardFrame ==
  ASSUME Heard, NEW t \in Threads, OnlyMoves(t),
         call'[t].op = "read" => call[t].op = "read" \/ t \notin ReleaseThreads \/ t = SyncT,
         Pend(t)' => Pend(t) /\ call'[t].tid = call[t].tid,
         \A c, u, x : HasEntry(c, u, x)' => HasEntry(c, u, x),
         cb'.pc = "up" /\ cb'.who = WdsCb => cb.pc = "up" /\ cb.who = WdsCb,
         OneWaiter', NoData', Listed'
  PROVE  Heard'
BY DEF OnlyMoves, Pend, Others, Heard, ReadersOnly, PendTid, CtlEntries, WdsOnce

\* A step that leaves the notify lists and the callback alone.
LEMMA CalmHeard ==
  ASSUME TInv, Heard, NEW t \in Threads, OnlyMoves(t),
         call'[t].op = "read" => call[t].op = "read" \/ t \notin ReleaseThreads \/ t = SyncT,
         Pend(t)' => Pend(t) /\ call'[t].tid = call[t].tid,
         Same(clients, clients'), SameNotify(clients, clients'), LessData(clients, clients'),
         cb' = cb, \A u \in Others(t) : woken'[u] = woken[u],
         Waiting(t)' => /\ Waiting(t) /\ woken'[t] = woken[t]
                        /\ call'[t].cid = call[t].cid /\ call'[t].tid = call[t].tid
  PROVE  Heard'
<1>1. /\ OneWaiter' /\ NoData'
      /\ \A c, u, x : HasEntry(c, u, x)' => HasEntry(c, u, x)
  BY SameLessNotify, LessHeard
<1>2. ASSUME NEW c, NEW u, NEW x, HasEntry(c, u, x) PROVE HasEntry(c, u, x)'
  BY NotifyLength, <1>2 DEF HasEntry, Same, SameNotify
<1>3. \A u \in Threads : CbFor(u)' <=> CbFor(u) BY DEF CbFor
<1>4. ListedOf(t)' BY <1>2, <1>3 DEF Heard, Listed, ListedOf
<1>5. Listed' BY <1>2, <1>3, <1>4, ListedFrame DEF Others
<1> QED BY <1>1, <1>5, HeardFrame

LEMMA MoveHeard ==
  ASSUME TInv, Heard, NEW t \in Threads, pc[t] # "idle", On(t) \/ Back(t),
         pc'[t] \in Calling => pc[t] \in Calling,
         Same(clients, clients'), SameNotify(clients, clients'), LessData(clients, clients'),
         cb' = cb, \A u \in Others(t) : woken'[u] = woken[u],
         Waiting(t)' => Waiting(t) /\ woken'[t] = woken[t]
  PROVE  Heard'
<1>1. CASE On(t) BY <1>1, CalmHeard DEF On, Pend, Calling
<1>2. CASE Back(t) BY <1>2, BackEffect, CalmHeard DEF Waiting, Pend, Writing, NoCall
<1> QED BY <1>1, <1>2

\* Nobody moves.
LEMMA StillHeard ==
  ASSUME TInv, Heard, UNCHANGED <<pc, call, clients, woken>>,
         cb' = cb \/ (cb.pc # "up" /\ cb'.pc # "up")
  PROVE  Heard'
<1>1. \A c, u, x : HasEntry(c, u, x)' <=> HasEntry(c, u, x) BY DEF HasEntry
<1>2. \A u \in Threads : CbFor(u)' <=> CbFor(u) BY DEF CbFor
<1>3. /\ ReadersOnly' /\ PendTid' /\ CtlEntries' /\ OneWaiter' /\ NoData' /\ WdsOnce'
  BY <1>1 DEF Heard, ReadersOnly, PendTid, CtlEntries, OneWaiter, NoData, WdsOnce, Pend
<1>4. ASSUME NEW u \in Threads PROVE ListedOf(u)'
  BY <1>1, <1>2 DEF Heard, Listed, ListedOf, Waiting
<1> QED BY <1>3, <1>4 DEF Heard, Listed

-----------------------------------------------------------------------------
\* Each step that is not DeregisterQMIDevice's.

LEMMA SameLess2 ==
  ASSUME UNCHANGED clients
  PROVE  Same(clients, clients') /\ SameNotify(clients, clients') /\ LessData(clients, clients')
BY DEF Same, SameNotify, LessData

LEMMA WritingHeard ==
  ASSUME TInv, Heard, NEW t \in Threads, pc[t] \in Writing, On(t) \/ Back(t),
         \/ pc'[t] \in Writing \union {"try", "find", "idle"}
         \/ pc'[t] = "asleep" /\ call[t].op = "ready",
         Same(clients, clients'), SameNotify(clients, clients'), LessData(clients, clients'),
         UNCHANGED <<cb, woken>>
  PROVE  Heard'
<1>1. pc[t] # "idle" /\ pc[t] \in Calling BY DEF Writing, Calling
<1>2. Waiting(t)' => Waiting(t)
  <2>1. SUFFICES ASSUME Waiting(t)' PROVE call[t].op = "ready" BY DEF Waiting
  <2>2. CASE On(t) BY <2>1, <2>2 DEF On, Waiting, Writing
  <2>3. CASE Back(t) BY <1>1, <2>3, BackEffect, <2>1 DEF Waiting, Writing
  <2> QED BY <2>2, <2>3
<1> QED BY <1>1, <1>2, MoveHeard

LEMMA WriteAddHeard ==
  ASSUME TInv, Heard, NEW t \in Threads, WriteAdd(t)
  PROVE  Heard'
<1> DEFINE i == FindClientMem(clients, call[t].cid)
           u == [t |-> t, n |-> StillListed(t)]
           l == Append(clients[i].urbs, u)
<1>1. /\ pc[t] = "add" /\ clients \in Seq(ClientMem) /\ i \in 0..Len(clients)
      /\ urb \in [Threads -> BOOLEAN] /\ UNCHANGED <<cb, woken>>
  BY FindProperties DEF TInv, TypeOK, WriteAdd, readVars
<1>2. CASE valid /\ i # 0
  <2>1. /\ clients' = SetUrbs(clients, i, l)
        /\ Goto(t, "submit") /\ UNCHANGED <<stage, call>>
    BY <1>2 DEF WriteAdd
  <2>2. clients[i] \in ClientMem /\ u \in Urb BY <1>1, <1>2, NewUrb
  <2>3. l \in Seq(Urb) BY <2>2, AppendProperties DEF ClientMem
  <2>4. Same(clients, clients') /\ SameNotify(clients, clients') /\ LessData(clients, clients')
    <3> HIDE DEF i, l
    <3> QED BY <1>1, <2>1, <2>3, SetFieldSame, SetLessData
  <2>5. On(t) /\ pc'[t] = "submit" BY <2>1, GotoOn DEF Pcs
  <2> QED BY <1>1, <2>4, <2>5, WritingHeard DEF Writing
<1>3. CASE ~(valid /\ i # 0)
  BY <1>3, <1>1, WriteFailedMoves, BackEffect, SameLess2, WritingHeard DEF WriteAdd, Writing
<1> QED BY <1>2, <1>3

LEMMA PopLess ==
  ASSUME TInv, NEW t \in Threads, PopFromURBList(t)
  PROVE  Same(clients, clients') /\ SameNotify(clients, clients') /\ LessData(clients, clients')
<1> DEFINE i == FindClientMem(clients, call[t].cid)
           l == Tail(clients[i].urbs)
<1>1. /\ clients \in Seq(ClientMem) /\ i \in 0..Len(clients)
      /\ Same(clients, clients') /\ SameNotify(clients, clients')
  BY FindProperties, PopUrb DEF TInv, TypeOK
<1>2. CASE UrbAt(t) = {} BY <1>1, <1>2, SameLess2 DEF PopFromURBList
<1>3. CASE UrbAt(t) # {}
  <2>1. i # 0 /\ clients[i].urbs # <<>> /\ clients' = SetUrbs(clients, i, l)
    BY <1>3 DEF UrbAt, PopFromURBList
  <2>2. clients[i] \in ClientMem BY <1>1, <2>1
  <2>3. l \in Seq(Urb) BY <2>2, <2>1, TailProperties DEF ClientMem
  <2>4. LessData(clients, clients')
    <3> HIDE DEF i, l
    <3> QED BY <1>1, <2>1, <2>3, SetLessData
  <2> QED BY <1>1, <2>4
<1> QED BY <1>2, <1>3

LEMMA WriteSubmitHeard ==
  ASSUME TInv, Heard, NEW t \in Threads, WriteSubmit(t)
  PROVE  Heard'
<1>1. pc[t] = "submit" /\ UNCHANGED <<cb, woken>> BY DEF WriteSubmit, readVars
<1>2. CASE Goto(t, "written") /\ UNCHANGED <<stage, call, clients, spent>>
  BY <1>2, GotoOn, <1>1, SameLess2, WritingHeard DEF Pcs, Writing
<1>3. CASE PopFromURBList(t) /\ WriteFailed(t)
  BY <1>1, <1>3, WriteFailedMoves, BackEffect, PopLess, WritingHeard DEF Writing
<1> QED BY <1>2, <1>3 DEF WriteSubmit

LEMMA WriteWakeHeard ==
  ASSUME TInv, Heard, NEW t \in Threads, WriteWake(t)
  PROVE  Heard'
BY SameLess2, PopLess, WriteFailedMoves, WriteOkMoves, BackEffect, WritingHeard DEF WriteWake,
   readVars, Writing

LEMMA WriteSyncCallbackHeard ==
  ASSUME TInv, Heard, WriteSyncCallback
  PROVE  Heard'
BY StillHeard DEF WriteSyncCallback, readVars

LEMMA BeginIoHeard ==
  ASSUME TInv, Heard, NEW t \in Threads, NEW op \in {"write", "read"}, BeginIo(t, op),
         op = "read" => t \notin ReleaseThreads
  PROVE  Heard'
BY SameLess2, CalmHeard DEF BeginIo, Goto, readVars, TInv, TypeOK, CallSet, OnlyMoves, Others,
   Pend, CtlOps, Waiting

LEMMA ReadWakeHeard ==
  ASSUME TInv, Heard, NEW t \in Threads, ReadWake(t)
  PROVE  Heard'
<1>1. /\ pc[t] = "asleep" /\ call[t].op # "ready" /\ UNCHANGED <<clients, cb>>
      /\ \A u \in Others(t) : woken'[u] = woken[u]
  BY DEF ReadWake, Awake, Others, TInv, TypeOK
<1>2. (On(t) \/ Back(t)) /\ pc'[t] \in {"find", "try", "idle"}
  <2>1. CASE ReadFailed(t) BY <1>1, <2>1, ReadFailedMoves, BackEffect
  <2>2. CASE Goto(t, "try") /\ UNCHANGED <<stage, call>> BY <2>2, GotoOn DEF Pcs
  <2> QED BY <2>1, <2>2 DEF ReadWake
<1>3. ~Waiting(t)' BY <1>2 DEF Waiting, Writing
<1> QED BY <1>1, <1>2, <1>3, SameLess2, MoveHeard DEF Calling

LEMMA ReadInterruptedHeard ==
  ASSUME TInv, Heard, NEW t \in Threads, ReadInterrupted(t)
  PROVE  Heard'
BY GotoOn, SameLess2, MoveHeard DEF ReadInterrupted, readVars, Pcs, syncVars, Waiting, Calling

LEMMA ClientReturnHeard ==
  ASSUME TInv, Heard, NEW t \in Threads, ClientReturn(t)
  PROVE  Heard'
<1>1. pc[t] = "named" /\ Return(t, TRUE) /\ UNCHANGED <<clients, cb, woken>> BY DEF ClientReturn
<1>2. OnlyMoves(t) /\ pc'[t] = "idle" /\ call'[t] \in {NoCall, call[t]} BY <1>1, ReturnEffect
<1>3. ~Waiting(t)' /\ ~Pend(t)' /\ (call'[t].op = "read" => call[t].op = "read")
  BY <1>2 DEF Waiting, Pend, Writing, NoCall
<1> QED BY <1>1, <1>2, <1>3, SameLess2, CalmHeard

LEMMA ReleaseFindHeard ==
  ASSUME TInv, Heard, NEW t \in Threads, ReleaseFind(t)
  PROVE  Heard'
<1>1. pc[t] = "find" /\ UNCHANGED <<clients, cb, woken>> /\ call[t].op = "rel"
  BY DEF ReleaseFind, readVars, TInv, CallInv, Releasing
<1>2. (On(t) \/ Back(t)) /\ pc'[t] \in {"notify", "idle"}
  <2>1. CASE Return(t, TRUE) BY <1>1, <2>1, ReturnEffect DEF Back
  <2>2. CASE Goto(t, "notify") /\ UNCHANGED <<stage, call>> BY <2>2, GotoOn DEF Pcs
  <2> QED BY <2>1, <2>2 DEF ReleaseFind
<1>3. ~Waiting(t)' BY <1>2 DEF Waiting, Writing
<1> QED BY <1>1, <1>2, <1>3, SameLess2, MoveHeard DEF Calling, Writing

LEMMA ReleaseNotifyHeard ==
  ASSUME TInv, Safe, Heard, NEW t \in Threads, ReleaseNotify(t)
  PROVE  Heard'
BY FoundClient, GotoOn, SameLess2, MoveHeard DEF ReleaseNotify, readVars, TInv, CallInv,
   Releasing, syncVars, Pcs, Waiting, Writing, Calling

LEMMA ReadCallbackHeard ==
  ASSUME TInv, Heard, ReadCallback
  PROVE  Heard'
<1>1. UNCHANGED <<pc, call, clients, woken>> /\ cb.pc = "idle" BY DEF ReadCallback, readVars
<1>2. PICK m : Continue(m, 1) BY DEF ReadCallback
<1>3. cb'.pc # "up" BY <1>2 DEF Continue, CbIdle
<1> QED BY <1>1, <1>3, StillHeard

LEMMA UnplugHeard ==
  ASSUME TInv, Heard, Unplug
  PROVE  Heard'
BY StillHeard DEF Unplug, readVars

\* Who waits at QMICTL has a request under way; only QMIReady may have left its
\* entry behind.
LEMMA CtlWaiter ==
  ASSUME TInv, Safe, NEW u \in Threads, NEW x \in 0..MaxTid, HasEntry(CTL, u, x)
  PROVE  (Pend(u) /\ call[u].tid = x) \/ (u = SyncT /\ stage = "done")
<1>1. CallInv(u) /\ EntryOf(u) BY DEF TInv, Safe, WaitInv
<1>2. \/ Waiting(u) /\ call[u].cid = CTL /\ call[u].tid = x
      \/ u = SyncT /\ stage = "done"
  BY <1>1 DEF EntryOf
<1>3. ASSUME Waiting(u), call[u].cid = CTL PROVE Pend(u)
  BY <1>1, <1>3, ConstantFacts DEF CallInv, Waiting, Pend, CtlOps
<1> QED BY <1>2, <1>3

LEMMA NewTid ==
  ASSUME TInv, Safe, NextIsNew, NEW u \in Threads
  PROVE  NextTid \in 1..MaxTid /\ ~HasEntry(CTL, u, NextTid)
<1>1. NextTid \in 1..MaxTid /\ NextTid \in 0..MaxTid
  BY ConstantsAssumption DEF NextTid, TInv, TypeOK
<1> QED BY <1>1, CtlWaiter DEF NextIsNew, NextIsFree

\* A request to QMICTL begins.
LEMMA BeginHeard ==
  ASSUME TInv, Safe, Heard, NextIsNew, NEW t \in Threads, OnlyMoves(t),
         pc'[t] = "add", call'[t].op \in {"sync", "get", "rel"}, call'[t].tid = NextTid,
         Same(clients, clients'), SameNotify(clients, clients'), LessData(clients, clients'),
         UNCHANGED <<cb, woken>>
  PROVE  Heard'
<1>1. /\ OneWaiter' /\ NoData'
      /\ \A c, u, x : HasEntry(c, u, x)' => HasEntry(c, u, x)
  BY SameLessNotify, LessHeard
<1>2. ASSUME NEW c, NEW u, NEW x, HasEntry(c, u, x) PROVE HasEntry(c, u, x)'
  BY NotifyLength, <1>2 DEF HasEntry, Same, SameNotify
<1>3. \A u \in Others(t) : pc'[u] = pc[u] /\ call'[u] = call[u] BY DEF OnlyMoves
<1>4. ReadersOnly' BY <1>3 DEF Heard, ReadersOnly, Others
<1>5. NextTid \in 1..MaxTid /\ \A u \in Threads : ~HasEntry(CTL, u, NextTid)
  BY NewTid, ConstantFacts
<1>6. PendTid' BY <1>3, <1>5 DEF Heard, PendTid, Pend, Others
<1>7. CtlEntries'
  <2>1. SUFFICES ASSUME NEW u \in Threads, NEW x \in 0..MaxTid, HasEntry(CTL, u, x)'
                 PROVE  x # 0 /\ \A v \in Threads : Pend(v)' /\ call'[v].tid = x => v = u
    BY DEF CtlEntries
  <2>2. x # 0 /\ \A v \in Threads : Pend(v) /\ call[v].tid = x => v = u
    BY <1>1, <2>1 DEF Heard, CtlEntries
  <2>3. x # NextTid BY <1>1, <1>5, <2>1
  <2> QED BY <1>3, <2>2, <2>3 DEF Pend, Others
<1>8. WdsOnce' BY <1>1 DEF Heard, WdsOnce
<1>9. \A u \in Threads : CbFor(u)' <=> CbFor(u) BY DEF CbFor
<1>10. ListedOf(t)' BY DEF ListedOf, Waiting
<1>11. Listed' BY <1>2, <1>9, <1>10, ListedFrame DEF Others
<1> QED BY <1>1, <1>4, <1>6, <1>7, <1>8, <1>11 DEF Heard

LEMMA BeginCtlHeard ==
  ASSUME TInv, Safe, Heard, TakesNew, NEW t \in Threads, NEW op \in {"sync", "get", "rel"},
         NEW c \in Ids \union {NoId}, BeginCtl(t, op, c), UNCHANGED <<cb, woken>>
  PROVE  Heard'
<1>1. NextIsNew BY NewId DEF BeginCtl, TakesNew
<1> QED BY <1>1, BeginCtlEffect, ClientTypes, PurgedLess, BeginHeard DEF BeginCtl

LEMMA GetServiceHeard ==
  ASSUME TInv, Safe, Heard, TakesNew, NEW f \in Files, GetService(f) \/ GetAgain(f)
  PROVE  Heard'
<1>1. Main(f) \in Threads /\ UNCHANGED <<cb, woken>> /\ WDA \in Ids /\ valid
  BY ConstantFacts, ConstantsAssumption DEF GetService, GetAgain, readVars, Safe
<1>2. PICK c \in Ids \union {NoId} : BeginCtl(Main(f), "get", c) BY <1>1 DEF GetService, GetAgain
<1> QED BY <1>1, <1>2, BeginCtlHeard

LEMMA UserspaceCloseHeard ==
  ASSUME TInv, Safe, Heard, TakesNew, NEW f \in Files, UserspaceClose(f)
  PROVE  Heard'
<1>1. Main(f) \in Threads /\ f \in Holders BY ConstantFacts
<1>2. UNCHANGED <<cb, woken>> BY DEF UserspaceClose, readVars
<1>3. CASE UNCHANGED <<tid, clients, call, pc>> BY <1>2, <1>3, StillHeard
<1>4. CASE BeginCtl(Main(f), "rel", id[f]) BY <1>1, <1>2, <1>4, BeginCtlHeard DEF TInv, TypeOK
<1>5. CASE /\ call' = [call EXCEPT ![Main(f)] = [NoCall EXCEPT !.op = "rel", !.rid = id[f]]]
           /\ Goto(Main(f), "find") /\ UNCHANGED <<tid, clients>>
  BY <1>1, <1>5, <1>2, SameLess2, CalmHeard DEF TInv, TypeOK, CallSet, Goto, OnlyMoves, Others,
     NoCall, Pend, Waiting, Writing
<1> QED BY <1>3, <1>4, <1>5 DEF UserspaceClose, AskRelease

LEMMA SyncCtlHeard ==
  ASSUME TInv, Safe, Heard, TakesNew, SyncCtl
  PROVE  Heard'
BY ConstantFacts, ConstantsAssumption, BeginCtlHeard DEF SyncCtl, readVars

\* Steps that put an entry on a notify list.

LEMMA AddHeard ==
  ASSUME TInv, Heard, NEW i \in 1..Len(clients), NEW w \in Waiter, Registers(i, w)
  PROVE  OneWaiter' /\ NoData' /\ Added(clients[i].id, w.t, w.tid)
<1> DEFINE s == clients[i].notify
           l == Append(s, w)
<1>1. /\ Len(clients') = Len(clients) /\ Len(clients) \in Nat
      /\ \A j \in 1..Len(clients) : /\ clients'[j].id = clients[j].id
                                    /\ Len(clients[j].notify) \in Nat
  BY NotifyLength DEF Registers, Same
<1>2. s \in Seq(Waiter) /\ Len(s) \in Nat /\ s = clients[i].notify BY NotifyLength
<1>3. /\ clients'[i].notify = l
      /\ \A j \in 1..Len(clients) : j # i => clients'[j].notify = clients[j].notify
  BY DEF Registers
<1> HIDE DEF s
<1>4. /\ Len(l) = Len(s) + 1 /\ l[Len(s) + 1] = w
      /\ \A k \in 1..Len(s) : l[k] = s[k]
  BY <1>2, AppendProperties
<1> HIDE DEF l
<1>5. OneWaiter'
  <2>1. SUFFICES ASSUME NEW j \in 1..Len(clients), clients[j].id # CTL
                 PROVE  Len(clients'[j].notify) <= 1
    BY <1>1 DEF OneWaiter
  <2>2. CASE j = i
    <3>1. s = <<>> BY <1>2, <2>1, <2>2 DEF Registers
    <3>2. Len(s) = 0 BY <3>1, EmptySeq
    <3>3. Len(l) = 1 BY <1>4, <3>2
    <3>4. clients'[j].notify = l BY <1>3, <2>2
    <3>5. Len(clients'[j].notify) = 1 BY <3>3, <3>4, Zenon
    <3> QED BY <3>5
  <2>3. CASE j # i BY <1>3, <2>1, <2>3 DEF Heard, OneWaiter
  <2> QED BY <2>2, <2>3
<1>6. NoData'
  <2>1. SUFFICES ASSUME NEW j \in 1..Len(clients), NEW k \in 1..Len(clients'[j].notify),
                        NEW m \in 1..Len(clients'[j].list)
                 PROVE  clients'[j].notify[k].tid \notin {0, clients'[j].list[m].tid}
    BY <1>1 DEF NoData
  <2>2. PICK n \in 1..Len(clients[j].list) : clients'[j].list[m] = clients[j].list[n]
    BY DEF Registers, LessData
  <2>3. CASE j # i BY <1>3, <2>2, <2>3 DEF Heard, NoData
  <2>4. CASE j = i /\ k \in 1..Len(s)
    <3>1. clients'[j].notify[k] = clients[j].notify[k] /\ k \in 1..Len(clients[j].notify)
      BY <1>2, <1>3, <1>4, <2>4
    <3> QED BY <2>2, <3>1 DEF Heard, NoData
  <2>5. CASE j = i /\ k = Len(s) + 1 BY <1>3, <1>4, <2>5 DEF Registers
  <2>6. j = i => k \in 1..Len(s) \/ k = Len(s) + 1 BY <1>2, <1>3, <1>4
  <2> QED BY <2>3, <2>4, <2>5, <2>6
<1>7. ASSUME NEW c, NEW u, NEW x, HasEntry(c, u, x) PROVE HasEntry(c, u, x)'
  <2>1. PICK j \in 1..Len(clients) :
           /\ clients[j].id = c
           /\ \E k \in 1..Len(clients[j].notify) :
                clients[j].notify[k].t = u /\ clients[j].notify[k].tid = x
    BY <1>7 DEF HasEntry
  <2>2. PICK k \in 1..Len(clients[j].notify) :
           clients[j].notify[k].t = u /\ clients[j].notify[k].tid = x
    BY <2>1
  <2>3. k \in 1..Len(clients'[j].notify) /\ clients'[j].notify[k] = clients[j].notify[k]
    <3>1. CASE j = i BY <1>2, <1>3, <3>1, <1>4
    <3>2. CASE j # i BY <1>3, <3>2
    <3> QED BY <3>1, <3>2
  <2> QED BY <1>1, <2>1, <2>2, <2>3 DEF HasEntry
<1>8. ASSUME NEW c, NEW u, NEW x, HasEntry(c, u, x)'
      PROVE  HasEntry(c, u, x) \/ (c = clients[i].id /\ u = w.t /\ x = w.tid)
  <2>1. PICK j \in 1..Len(clients) :
           /\ clients[j].id = c
           /\ \E k \in 1..Len(clients'[j].notify) :
                clients'[j].notify[k].t = u /\ clients'[j].notify[k].tid = x
    BY <1>1, <1>8 DEF HasEntry
  <2>2. PICK k \in 1..Len(clients'[j].notify) :
           clients'[j].notify[k].t = u /\ clients'[j].notify[k].tid = x
    BY <2>1
  <2>3. CASE j # i BY <1>3, <2>1, <2>2, <2>3 DEF HasEntry
  <2>4. CASE j = i
    <3>1. clients'[j].notify = l /\ clients[j].notify = s BY <1>2, <1>3, <2>4
    <3>2. k \in 1..Len(s) \/ k = Len(s) + 1 BY <1>2, <1>4, <3>1
    <3>3. CASE k \in 1..Len(s) BY <1>4, <2>1, <2>2, <3>1, <3>3 DEF HasEntry
    <3>4. CASE k = Len(s) + 1 BY <1>4, <2>1, <2>2, <2>4, <3>1, <3>4
    <3> QED BY <3>2, <3>3, <3>4
  <2> QED BY <2>3, <2>4
<1>9. HasEntry(clients[i].id, w.t, w.tid)' BY <1>2, <1>3, <1>4, <1>1 DEF HasEntry
<1> QED BY <1>5, <1>6, <1>7, <1>8, <1>9 DEF Added

\* Who waits at a client other than QMICTL.
LEMMA WaitsAt ==
  ASSUME TInv, Safe, Heard, NEW i \in 1..Len(clients), clients[i].id # CTL,
         clients[i].notify # <<>>
  PROVE  \/ clients[i].id = wds /\ WdsDone /\ \E x \in 0..MaxTid : HasEntry(wds, WdsCb, x)
         \/ \E u \in Threads : /\ pc[u] \in {"asleep", "giveup"} /\ call[u].op = "read"
                               /\ call[u].cid = clients[i].id
<1> DEFINE c == clients[i].id
           w == clients[i].notify[1]
<1>1. clients[i].notify \in Seq(Waiter) /\ c \in Ids \union {CTL} BY NotifyLength
<1>2. 1 \in 1..Len(clients[i].notify) /\ w \in Waiter
  <2> DEFINE s == clients[i].notify
  <2>1. s \in Seq(Waiter) /\ s # <<>> BY <1>1
  <2> HIDE DEF s
  <2>2. Len(s) \in Nat /\ Len(s) # 0 BY <2>1
  <2>3. 1 \in 1..Len(s) /\ s[1] \in Waiter BY <2>1, <2>2
  <2> QED BY <2>3 DEF s
<1>3. w.tid \in 0..MaxTid /\ w.t \in Threads \union {WdsCb} BY <1>2 DEF Waiter
<1>4. HasEntry(c, w.t, w.tid) BY <1>2 DEF HasEntry
<1> HIDE DEF c, w
<1>5. CASE w.t = WdsCb BY <1>1, <1>3, <1>4, <1>5 DEF Safe, WaitInv, WdsEntry, c
<1>6. CASE w.t \in Threads
  BY <1>6, <1>1, <1>3, <1>4 DEF TInv, Safe, WaitInv, EntryOf, c, Waiting, CallInv, Writing,
     Releasing, CtlOps
<1> QED BY <1>3, <1>5, <1>6

\* A client has one reader.
LEMMA ReadersApart ==
  ASSUME TInv, Safe, Heard, NEW t \in Threads, NEW u \in Threads,
         call[t].op = "read", pc[t] \in {"try", "asleep", "giveup"},
         call[u].op = "read", pc[u] \in {"try", "asleep", "giveup"}, call[t].cid = call[u].cid
  PROVE  t = u
<1>1. CallInv(t) /\ CallInv(u) /\ ListInv BY DEF TInv, Safe
<1>2. call[t].cid # CTL BY <1>1, ConstantFacts DEF CallInv
<1>3. Has(t[1], call[t].cid) /\ Has(u[1], call[t].cid) BY <1>2, OwnClient DEF Releasing
<1>4. t[1] = u[1] BY <1>1, <1>3, OneOwner
<1>5. /\ t \notin ReleaseThreads \/ t = SyncT
      /\ u \notin ReleaseThreads \/ u = SyncT
  BY DEF Heard, ReadersOnly
<1>6. /\ t = SyncT \/ \E f \in Files : t = Reader(f)
      /\ u = SyncT \/ \E f \in Files : u = Reader(f)
  BY <1>5, ConstantFacts
<1>7. SyncT[1] = "driver" BY DEF SyncT
<1> QED BY <1>4, <1>6, <1>7, ConstantFacts

\* Once QMIWDSCallback is registered nobody else reads from its client.
LEMMA WdsReader ==
  ASSUME TInv, Safe, Heard, NEW t \in Threads,
         call[t].op = "read", pc[t] \in {"try", "asleep", "giveup"}, call[t].cid = wds
  PROVE  t = SyncT /\ ~WdsDone
<1>1. CallInv(t) /\ OwnOf(t) /\ ListInv /\ WdsInv /\ SyncInv BY DEF TInv, Safe, OwnInv
<1>2. wds # CTL /\ wds # NoId /\ call[t].cid = id[t[1]]
  BY <1>1, ConstantFacts DEF CallInv, OwnOf
<1>3. Has(t[1], wds) /\ Has("driver", wds) BY <1>1, <1>2, OwnClient DEF Releasing, WdsInv
<1>4. t[1] = "driver" BY <1>1, <1>3, OneOwner
<1>5. t = SyncT BY <1>4, ConstantFacts DEF Heard, ReadersOnly
<1>6. stage # "done" BY <1>1, <1>5 DEF SyncInv
<1>7. stage # "dms" BY <1>1, <1>2, <1>4, <1>5 DEF WdsInv
<1> QED BY <1>5, <1>6, <1>7 DEF WdsDone

\* At QMICTL only threads wait.
LEMMA CtlEntry ==
  ASSUME TInv, Safe, NEW u, NEW x, HasEntry(CTL, u, x)
  PROVE  u \in Threads /\ x \in 0..MaxTid
<1>1. PICK i \in 1..Len(clients) :
         /\ clients[i].id = CTL
         /\ \E k \in 1..Len(clients[i].notify) :
              clients[i].notify[k].t = u /\ clients[i].notify[k].tid = x
  BY DEF HasEntry
<1>2. PICK k \in 1..Len(clients[i].notify) :
         clients[i].notify[k].t = u /\ clients[i].notify[k].tid = x
  BY <1>1
<1>3. clients[i].notify \in Seq(Waiter) BY NotifyLength
<1>4. clients[i].notify[k] \in Waiter BY <1>3
<1>5. u \in Threads \union {WdsCb} /\ x \in 0..MaxTid BY <1>2, <1>4 DEF Waiter
<1>6. u # WdsCb
  <2>1. SUFFICES ASSUME u = WdsCb PROVE FALSE OBVIOUS
  <2>2. wds = CTL BY <1>5, <2>1 DEF Safe, WaitInv, WdsEntry
  <2> QED BY <2>2, ConstantFacts DEF TInv, TypeOK
<1> QED BY <1>5, <1>6

\* A thread registers to wait for the answer of its call, or for data.
LEMMA RegisteredHeard ==
  ASSUME TInv, AInv', Heard, NEW t \in Threads, OnlyMoves(t), NEW c, NEW y,
         Added(c, t, y), call'[t].cid = c, call'[t].tid = y,
         c = CTL => Pend(t)',
         OneWaiter', NoData', ReadersOnly', PendTid',
         \A x, u : HasEntry(CTL, u, x) /\ Pend(t)' /\ call'[t].tid = x => u = t,
         cb' = cb, \A u \in Others(t) : woken'[u] = woken[u]
  PROVE  Heard'
<1>1. \A u \in Others(t) : pc'[u] = pc[u] /\ call'[u] = call[u] BY DEF OnlyMoves
<1>2. CtlEntries'
  <2>1. SUFFICES ASSUME NEW u \in Threads, NEW x \in 0..MaxTid, HasEntry(CTL, u, x)'
                 PROVE  x # 0 /\ \A v \in Threads : Pend(v)' /\ call'[v].tid = x => v = u
    BY DEF CtlEntries
  <2>2. CASE HasEntry(CTL, u, x) BY <2>2, <1>1 DEF Heard, CtlEntries, Pend, Others
  <2>3. CASE c = CTL /\ u = t /\ x = y BY <2>3 DEF PendTid, AInv, TidInv
  <2> QED BY <2>1, <2>2, <2>3 DEF Added
<1>3. WdsOnce' BY ConstantFacts DEF Heard, WdsOnce, Added
<1>4. Listed' BY ListedFrame DEF ListedOf, CbFor, Others, Added
<1> QED BY <1>2, <1>3, <1>4 DEF Heard

LEMMA ReadTryHeard ==
  ASSUME TInv, TInv', Safe, AInv, AInv', Heard, NEW t \in Threads, ReadTry(t)
  PROVE  Heard'
<1> DEFINE i == FindClientMem(clients, call[t].cid)
           k == FirstMessage(clients[i].list, call[t].tid)
           cs == SetList(clients, i, RemoveAt(clients[i].list, k))
           w == [tid |-> call[t].tid, t |-> t]
           l == Append(clients[i].notify, w)
<1>1. /\ pc[t] = "try" /\ cb' = cb /\ CallInv(t)
      /\ clients \in Seq(ClientMem) /\ i \in 0..Len(clients) /\ call[t] \in CallSet
  BY FindProperties DEF TInv, TypeOK, CallSet, ReadTry
<1>2. ASSUME ReadFailed(t) \/ (\E m \in Msg : ReadOk(t, m)), UNCHANGED woken,
             Same(clients, clients'), SameNotify(clients, clients'), LessData(clients, clients')
      PROVE  Heard'
  BY <1>1, <1>2, ReadFailedMoves, ReadOkMoves, BackEffect, MoveHeard DEF Waiting, Writing,
     Calling
<1>3. CASE ReadFailed(t) /\ UNCHANGED <<clients, readVars>>
  BY <1>2, <1>3, SameLess2 DEF readVars
<1>4. CASE valid /\ i # 0 /\ k # 0
  <2>1. clients' = SyncFreesAnswers(t, cs) BY <1>4 DEF ReadTry
  <2>2. clients[i] \in ClientMem /\ i \in 1..Len(clients) BY <1>1, <1>4
  <2>3. clients[i].list \in Seq(Msg) BY <2>2 DEF ClientMem
  <2>4. k \in 1..Len(clients[i].list) BY <1>4, <2>3, MessageProperties
  <2>5. cs \in Seq(ClientMem) /\ LessData(clients, cs) /\ Len(cs) = Len(clients)
    <3>1. RemoveAt(clients[i].list, k) \in Seq(Msg) BY <2>3, <2>4, RemoveAtProperties
    <3> HIDE DEF i, k
    <3> QED BY <1>1, <2>2, <2>4, <3>1, SetListProperties, RemovedLess
  <2> HIDE DEF cs
  <2>6. LessData(clients, clients')
    <3>1. CASE clients' = cs BY <2>5, <3>1
    <3>2. CASE clients' = SetList(cs, FindClientMem(cs, CTL), <<>>)
      BY <2>5, FindProperties, <3>2, EmptiedLess, LessDataTrans
    <3> QED BY <2>1, <3>1, <3>2 DEF SyncFreesAnswers
  <2>7. /\ ReadOk(t, clients[i].list[k]) /\ clients[i].list[k] \in Msg /\ UNCHANGED readVars
        /\ Same(clients, clients') /\ SameNotify(clients, clients')
    <3>1. valid /\ k # 0 /\ i # 0 /\ pc'[t] # "asleep"
      <4>1. ReadOk(t, clients[i].list[k]) /\ clients[i].list[k] \in Msg
        BY <1>4, <2>3, <2>4 DEF ReadTry
      <4>2. pc'[t] \in {"find", "insert", "idle"}
        <5> HIDE DEF i, k
        <5> QED BY <1>1, <4>1, ReadOkMoves, BackEffect
      <4> QED BY <1>4, <4>2
    <3>2. pc \in [Threads -> Pcs] BY DEF TInv, TypeOK
    <3> HIDE DEF i, k
    <3> QED BY <1>1, <3>1, <3>2, ReadTryClients DEF Goto, i, k
  <2> HIDE DEF i, k
  <2> QED BY <1>2, <2>6, <2>7 DEF readVars
<1>5. CASE valid /\ i # 0 /\ k = 0
  <2>1. /\ clients' = SetNotify(clients, i, l) /\ Goto(t, "asleep") /\ UNCHANGED <<stage, call>>
        /\ woken' = [woken EXCEPT ![t] = FALSE]
    BY <1>5 DEF ReadTry
  <2>2. clients[i] \in ClientMem /\ i \in 1..Len(clients) /\ clients[i].id = call[t].cid
    BY <1>1, <1>5, FindProperties
  <2>3. w \in Waiter /\ w.t = t /\ w.tid = call[t].tid BY <1>1 DEF Waiter, CallSet
  <2>4. l \in Seq(Waiter)
    <3>1. clients[i].notify \in Seq(Waiter) BY <2>2 DEF ClientMem
    <3> HIDE DEF w
    <3> QED BY <2>3, <3>1, AppendProperties
  <2>5. \A j \in 1..Len(clients[i].list) : w.tid \notin {0, clients[i].list[j].tid}
    BY <2>2, <1>5, <2>3, NothingFor DEF ClientMem
  <2> HIDE DEF i, k, w, l
  <2>6. LessData(clients, clients') /\ Same(clients, clients')
    BY <1>1, <2>1, <2>4, SetLessData, SetFieldSame
  <2>7. \A j \in 1..Len(clients) :
          /\ clients'[j].notify = IF j = i THEN Append(clients[i].notify, w) ELSE clients[j].notify
          /\ clients'[j].list = clients[j].list
    <3>1. \A j \in 1..Len(clients) :
             clients'[j] = IF j = i THEN [clients[j] EXCEPT !.notify = l] ELSE clients[j]
      BY <1>1, <2>1, <2>4, SetNotifyProperties
    <3>2. \A j \in 1..Len(clients) : clients[j] \in ClientMem BY <1>1
    <3>3. \A j \in 1..Len(clients) :
             /\ clients'[j].notify = IF j = i THEN l ELSE clients[j].notify
             /\ clients'[j].list = clients[j].list
      BY <3>1, <3>2 DEF ClientMem
    <3> QED BY <3>3 DEF l
  <2>8. clients[i].id = CTL \/ clients[i].notify = <<>>
    <3>1. SUFFICES ASSUME clients[i].id # CTL, clients[i].notify # <<>> PROVE FALSE OBVIOUS
    <3>2. call[t].op = "read" BY <1>1, <2>2, <3>1 DEF CallInv, CtlOps, Releasing
    <3>3. CASE clients[i].id = wds /\ WdsDone BY <1>1, <2>2, <3>2, <3>3, WdsReader
    <3>4. CASE \E u \in Threads : /\ pc[u] \in {"asleep", "giveup"} /\ call[u].op = "read"
                                  /\ call[u].cid = clients[i].id
      BY <1>1, <2>2, <3>2, <3>4, ReadersApart
    <3> QED BY <2>2, <3>1, <3>3, <3>4, WaitsAt
  <2>9. \A j \in 1..Len(clients'[i].list) : w.tid \notin {0, clients'[i].list[j].tid}
    BY <2>2, <2>5, <2>7
  <2>10. OneWaiter' /\ NoData' /\ Added(call[t].cid, t, call[t].tid)
    BY <2>6, <2>7, <2>8, <2>9, <2>2, <2>3, AddHeard DEF Registers
  <2>11. On(t) /\ pc'[t] = "asleep" /\ OnlyMoves(t) /\ call' = call BY <2>1, GotoOn DEF On, Pcs
  <2>12. ReadersOnly' /\ PendTid' /\ (Pend(t)' => Pend(t))
    BY <1>1, <2>11 DEF Pend, OnlyMoves, Others, Heard, ReadersOnly, PendTid
  <2>13. call[t].cid = CTL => Pend(t)'
    BY <1>1, <2>2, <2>11, ConstantFacts DEF CallInv, Pend, CtlOps
  <2>14. \A x, u : HasEntry(CTL, u, x) /\ Pend(t)' /\ call'[t].tid = x => u = t
    <3>1. SUFFICES ASSUME NEW u, HasEntry(CTL, u, call[t].tid), Pend(t) PROVE u = t
      BY <2>11, <2>12
    <3>2. u \in Threads BY <3>1, CtlEntry
    <3> QED BY <1>1, <3>1, <3>2 DEF Heard, CtlEntries, CallSet
  <2>15. \A u \in Others(t) : woken'[u] = woken[u] BY <2>1 DEF Others, TInv, TypeOK
  <2> QED BY <1>1, <2>10, <2>11, <2>12, <2>13, <2>14, <2>15, RegisteredHeard
<1> QED BY <1>3, <1>4, <1>5 DEF ReadTry

-----------------------------------------------------------------------------
\* Steps after which a thread does not wait any more.

LEMMA LeaveHeard ==
  ASSUME Heard, NEW t \in Threads, OnlyMoves(t), ~Pend(t)', ~Waiting(t)',
         call'[t].op = "read" => call[t].op = "read",
         \A c, u, x : HasEntry(c, u, x)' => HasEntry(c, u, x),
         \A u \in Others(t) : /\ woken'[u] = woken[u]
                              /\ CbFor(u) => CbFor(u)'
                              /\ \A c, x : HasEntry(c, u, x) => HasEntry(c, u, x)',
         cb'.pc = "up" /\ cb'.who = WdsCb => cb.pc = "up" /\ cb.who = WdsCb,
         OneWaiter', NoData'
  PROVE  Heard'
BY ListedFrame, HeardFrame DEF ListedOf

\* Who is not taken off a list stays on it.
LEMMA RemovalKeeps ==
  ASSUME TInv, NEW i \in 1..Len(clients), NEW k \in 1..Len(clients[i].notify),
         Same(clients, clients'),
         \A j \in 1..Len(clients) :
            clients'[j].notify = IF j = i THEN RemoveAt(clients[i].notify, k) ELSE clients[j].notify,
         NEW c, NEW u, NEW x, HasEntry(c, u, x), u # clients[i].notify[k].t
  PROVE  HasEntry(c, u, x)'
<1> DEFINE s == clients[i].notify
           l == RemoveAt(s, k)
<1>1. s \in Seq(Waiter) /\ Len(s) \in Nat /\ k \in 1..Len(s) /\ s = clients[i].notify
  BY NotifyLength
<1>2. /\ clients'[i].notify = l
      /\ \A j \in 1..Len(clients) : j # i => clients'[j].notify = clients[j].notify
  OBVIOUS
<1> HIDE DEF s
<1>3. Len(l) = Len(s) - 1 /\ \A j \in 1..(Len(s) - 1) : l[j] = IF j < k THEN s[j] ELSE s[j + 1]
  BY <1>1, RemoveAtProperties
<1> HIDE DEF l
<1>4. /\ Len(clients') = Len(clients)
      /\ \A j \in 1..Len(clients) : clients'[j].id = clients[j].id
  BY DEF Same
<1>5. PICK j \in 1..Len(clients) :
         /\ clients[j].id = c
         /\ \E m \in 1..Len(clients[j].notify) :
              clients[j].notify[m].t = u /\ clients[j].notify[m].tid = x
  BY DEF HasEntry
<1>6. PICK m \in 1..Len(clients[j].notify) :
         clients[j].notify[m].t = u /\ clients[j].notify[m].tid = x
  BY <1>5
<1>7. CASE j # i BY <1>2, <1>4, <1>5, <1>6, <1>7 DEF HasEntry
<1>8. CASE j = i
  <2>1. m \in 1..Len(s) /\ s[m].t = u /\ s[m].tid = x /\ m # k BY <1>1, <1>6, <1>8
  <2>2. PICK n \in 1..Len(l) : l[n] = s[m]
    <3>1. CASE m < k
      <4>1. m \in 1..Len(l) /\ l[m] = s[m] BY <1>1, <1>3, <2>1, <3>1
      <4> QED BY <4>1
    <3>2. CASE m > k
      <4>1. m - 1 \in 1..Len(l) /\ l[m - 1] = s[m] BY <1>1, <1>3, <2>1, <3>2
      <4> QED BY <4>1
    <3>3. m < k \/ m > k BY <1>1, <2>1
    <3> QED BY <3>1, <3>2, <3>3
  <2>3. n \in 1..Len(clients'[j].notify) /\ clients'[j].notify[n] = s[m] BY <1>2, <1>8, <2>2
  <2> QED BY <1>4, <1>5, <2>1, <2>3 DEF HasEntry
<1> QED BY <1>7, <1>8

LEMMA TakenLess ==
  ASSUME NEW cs \in Seq(ClientMem), NEW i \in 1..Len(cs), NEW k \in 1..Len(cs[i].notify)
  PROVE  LET l == RemoveAt(cs[i].notify, k)
             ds == SetNotify(cs, i, l)
         IN /\ Same(cs, ds) /\ LessData(cs, ds)
            /\ \A j \in 1..Len(cs) : ds[j].notify = IF j = i THEN l ELSE cs[j].notify
<1> DEFINE l == RemoveAt(cs[i].notify, k)
           ds == SetNotify(cs, i, l)
<1>1. i \in 0..Len(cs) /\ \A j \in 1..Len(cs) : cs[j] \in ClientMem OBVIOUS
<1>2. l \in Seq(Waiter) BY <1>1, RemoveAtProperties DEF ClientMem
<1> HIDE DEF l
<1>3. /\ Same(cs, ds) /\ LessData(cs, ds)
      /\ \A j \in 1..Len(cs) : ds[j] = IF j = i THEN [cs[j] EXCEPT !.notify = l] ELSE cs[j]
  BY <1>1, <1>2, SetFieldSame, SetLessData, SetNotifyProperties
<1> HIDE DEF ds
<1>4. \A j \in 1..Len(cs) : ds[j].notify = IF j = i THEN l ELSE cs[j].notify
  BY <1>1, <1>3 DEF ClientMem
<1> QED BY <1>3, <1>4 DEF l, ds

\* A thread takes its entry off a list.
LEMMA TakenHeard ==
  ASSUME TInv, Heard, NEW t \in Threads, OnlyMoves(t), ~Pend(t)', ~Waiting(t)',
         call'[t].op = "read" => call[t].op = "read",
         NEW i \in 1..Len(clients), NEW k \in 1..Len(clients[i].notify),
         clients[i].notify[k].t = t,
         clients' = SetNotify(clients, i, RemoveAt(clients[i].notify, k)),
         \A u \in Others(t) : woken'[u] = woken[u] /\ (CbFor(u) => CbFor(u)'),
         cb'.pc = "up" /\ cb'.who = WdsCb => cb.pc = "up" /\ cb.who = WdsCb
  PROVE  Heard'
<1>1. /\ Same(clients, clients') /\ LessData(clients, clients')
      /\ \A j \in 1..Len(clients) :
           clients'[j].notify = IF j = i THEN RemoveAt(clients[i].notify, k) ELSE clients[j].notify
  <2> DEFINE ds == SetNotify(clients, i, RemoveAt(clients[i].notify, k))
  <2>1. /\ Same(clients, ds) /\ LessData(clients, ds)
        /\ \A j \in 1..Len(clients) :
             ds[j].notify = IF j = i THEN RemoveAt(clients[i].notify, k) ELSE clients[j].notify
    BY ClientTypes, TakenLess
  <2>2. clients' = ds OBVIOUS
  <2> HIDE DEF ds
  <2> QED BY <2>1, <2>2
<1>2. LessNotify(clients, clients') BY <1>1, RemovedNotify
<1>3. /\ OneWaiter' /\ NoData'
      /\ \A c, u, x : HasEntry(c, u, x)' => HasEntry(c, u, x)
  BY <1>1, <1>2, LessHeard
<1>4. \A u \in Others(t) : \A c, x : HasEntry(c, u, x) => HasEntry(c, u, x)'
  BY <1>1, RemovalKeeps DEF Others
<1> QED BY <1>3, <1>4, LeaveHeard

LEMMA ReadGiveUpHeard ==
  ASSUME TInv, Heard, NEW t \in Threads, ReadGiveUp(t)
  PROVE  Heard'
<1>1. /\ pc[t] = "giveup" /\ clients' = WithoutWaiter(t) /\ ReadFailed(t)
      /\ Awake(t) /\ NotifyInstead(t, Gone) /\ Gone \in Notified
  BY DEF ReadGiveUp, Notified
<1>2. /\ On(t) \/ Back(t)
      /\ pc'[t] \in {"find", "idle"} /\ OnlyMoves(t)
      /\ call'[t].op = "read" => call[t].op = "read"
  BY <1>1, ReadFailedMoves, BackEffect DEF On, NoCall
<1>3. \A u \in Others(t) : woken'[u] = woken[u] BY <1>1 DEF Awake, Others, TInv, TypeOK
<1>4. /\ cb'.pc = cb.pc
      /\ cb'.who = IF cb.pc = "up" THEN Instead(cb.who, t, Gone) ELSE cb.who
  BY <1>1, InsteadType
<1>5. /\ cb'.pc = "up" /\ cb'.who = WdsCb => cb.pc = "up" /\ cb.who = WdsCb
      /\ \A u \in Others(t) : CbFor(u) => CbFor(u)'
  BY <1>4, ConstantFacts DEF Instead, CbFor, Others
<1>6. ~Pend(t)' /\ ~Waiting(t)' BY <1>2 DEF Pend, Waiting, Writing
<1>7. CASE clients' = clients
  <2>1. /\ OneWaiter' /\ NoData'
        /\ \A c, u, x : HasEntry(c, u, x)' <=> HasEntry(c, u, x)
    BY <1>7 DEF Heard, OneWaiter, NoData, HasEntry
  <2> QED BY <1>2, <1>3, <1>5, <1>6, <2>1, LeaveHeard
<1>8. CASE \E i \in 1..Len(clients) : \E k \in 1..Len(clients[i].notify) :
              /\ clients[i].notify[k].t = t
              /\ clients' = SetNotify(clients, i, RemoveAt(clients[i].notify, k))
  <2>1. PICK i \in 1..Len(clients) : \E k \in 1..Len(clients[i].notify) :
            /\ clients[i].notify[k].t = t
            /\ clients' = SetNotify(clients, i, RemoveAt(clients[i].notify, k))
    BY <1>8
  <2>2. PICK k \in 1..Len(clients[i].notify) :
            /\ clients[i].notify[k].t = t
            /\ clients' = SetNotify(clients, i, RemoveAt(clients[i].notify, k))
    BY <2>1
  <2> QED BY <1>2, <1>3, <1>5, <1>6, <2>2, TakenHeard
<1> QED BY <1>1, <1>7, <1>8, WithoutWaiterProperties

LEMMA SyncReadyEndHeard ==
  ASSUME TInv, Safe, Heard, SyncReadyEnd
  PROVE  Heard'
<1> DEFINE t == SyncT
           i == FindClientMem(clients, CTL)
           k == FirstMessage(clients[i].list, call[t].tid)
           j == FirstWaiter(clients[i].notify, call[t].tid)
           r == RemoveAt(clients[i].list, k)
<1>1. pc[t] = "asleep" /\ call[t].op = "ready" /\ t \in Threads
  BY ConstantFacts DEF SyncReadyEnd
<1>2. stage = "ready" BY <1>1 DEF TInv, SyncInv, Safe, StartInv
<1>3. /\ clients \in Seq(ClientMem) /\ i \in 1..Len(clients) /\ clients[i].id = CTL /\ i # 0
  <2>1. clients \in Seq(ClientMem) /\ ListInv /\ Len(clients) \in Nat BY DEF TInv, TypeOK, Safe
  <2>2. /\ i \in 0..Len(clients)
        /\ i = 0 => \A h \in 1..Len(clients) : clients[h].id # CTL
        /\ i # 0 => clients[i].id = CTL
    BY <2>1, FindProperties
  <2> HIDE DEF i
  <2> QED BY <2>1, <2>2 DEF ListInv
<1>4. \/ /\ woken[t] /\ k # 0 /\ clients' = SetList(clients, i, r)
         /\ Return(t, TRUE) /\ UNCHANGED <<woken, cb>>
      \/ /\ Goto(t, "idle") /\ UNCHANGED call
         /\ \/ woken[t] /\ UNCHANGED <<clients, woken, cb>>
            \/ ~woken[t] /\ j = 0 /\ UNCHANGED <<clients, woken>> /\ NotifyInstead(t, NoThread)
            \/ /\ ~woken[t] /\ j # 0
               /\ clients' = SetNotify(clients, i, RemoveAt(clients[i].notify, j))
               /\ woken' = [u \in Threads |-> woken[u] \/ (u = clients[i].notify[j].t /\ u # t)]
               /\ NotifyInstead(t, NoThread)
  <2>1. i # 0 BY <1>3
  <2> HIDE DEF i
  <2> QED BY <2>1, Zenon DEF SyncReadyEnd, i
<1> HIDE DEF i
<1>5. clients[i].list \in Seq(Msg) /\ clients[i].notify \in Seq(Waiter) BY <1>3, NotifyLength
<1>6. k \in 0..Len(clients[i].list) /\ (j # 0 => j \in 1..Len(clients[i].notify))
  BY <1>5, MessageProperties, WaiterFound
<1> HIDE DEF t, k, j
<1>7. CASE /\ woken[t] /\ k # 0 /\ clients' = SetList(clients, i, r)
           /\ Return(t, TRUE) /\ UNCHANGED <<woken, cb>>
  <2>1. OnlyMoves(t) /\ pc'[t] = "idle" /\ call'[t] \in {NoCall, call[t]}
    BY <1>1, <1>7, ReturnEffect
  <2>2. k \in 1..Len(clients[i].list) /\ i \in 0..Len(clients) BY <1>3, <1>5, <1>6, <1>7
  <2>3. r \in Seq(Msg) BY <1>5, <2>2, RemoveAtProperties
  <2>4. LessData(clients, clients') BY <1>3, <1>7, <2>2, RemovedLess
  <2> HIDE DEF r
  <2>5. Same(clients, clients') /\ SameNotify(clients, clients')
    BY <1>3, <1>7, <2>2, <2>3, SetFieldSame
  <2>6. ~Waiting(t)' /\ ~Pend(t)' /\ (call'[t].op = "read" => call[t].op = "read")
    BY <2>1 DEF Waiting, Pend, Writing, NoCall
  <2> QED BY <1>1, <1>7, <2>1, <2>4, <2>5, <2>6, CalmHeard
<1>8. ASSUME Goto(t, "idle"), UNCHANGED call
      PROVE  /\ OnlyMoves(t) /\ ~Waiting(t)' /\ ~Pend(t)' /\ call'[t].op # "read"
  BY <1>1, <1>8 DEF Goto, OnlyMoves, Others, TInv, TypeOK, Waiting, Pend, Writing
<1>9. ASSUME NotifyInstead(t, NoThread)
      PROVE  /\ cb'.pc = "up" /\ cb'.who = WdsCb => cb.pc = "up" /\ cb.who = WdsCb
             /\ \A u \in Others(t) : CbFor(u) => CbFor(u)'
  BY <1>1, <1>9, InsteadType, ConstantFacts DEF Notified, Instead, CbFor, Others
<1>10. CASE Goto(t, "idle") /\ UNCHANGED call /\ woken[t] /\ UNCHANGED <<clients, woken, cb>>
  BY <1>1, <1>8, <1>10, SameLess2, CalmHeard
<1>11. CASE /\ Goto(t, "idle") /\ UNCHANGED call /\ UNCHANGED <<clients, woken>>
            /\ NotifyInstead(t, NoThread)
  <2>1. /\ OneWaiter' /\ NoData'
        /\ \A c, u, x : HasEntry(c, u, x)' <=> HasEntry(c, u, x)
    BY <1>11 DEF Heard, OneWaiter, NoData, HasEntry
  <2> QED BY <1>1, <1>8, <1>9, <1>11, <2>1, LeaveHeard
<1>12. CASE /\ Goto(t, "idle") /\ UNCHANGED call /\ j # 0
            /\ clients' = SetNotify(clients, i, RemoveAt(clients[i].notify, j))
            /\ woken' = [u \in Threads |-> woken[u] \/ (u = clients[i].notify[j].t /\ u # t)]
            /\ NotifyInstead(t, NoThread)
  <2>1. clients[i].notify[j].t = t BY <1>2, <1>3, <1>6, <1>12, OnlySync DEF t
  <2>2. \A u \in Others(t) : woken'[u] = woken[u] BY <1>12, <2>1 DEF Others, TInv, TypeOK
  <2> QED BY <1>1, <1>3, <1>6, <1>8, <1>9, <1>12, <2>1, <2>2, TakenHeard
<1> QED BY <1>4, <1>7, <1>10, <1>11, <1>12

\* Steps that change the list of clients.

LEMMA ClientInsertHeard ==
  ASSUME TInv, Heard, NEW t \in Threads, ClientInsert(t)
  PROVE  Heard'
<1> DEFINE new == [id |-> call[t].rid, owner |-> t[1], list |-> <<>>, notify |-> <<>>, urbs |-> <<>>]
           n == Len(clients)
<1>1. /\ pc[t] = "insert" /\ clients \in Seq(ClientMem) /\ n \in Nat /\ UNCHANGED <<woken, cb>>
  BY DEF TInv, TypeOK, ClientInsert
<1>2. CASE Return(t, FALSE) /\ UNCHANGED clients
  <2>1. OnlyMoves(t) /\ pc'[t] = "idle" /\ call'[t] \in {NoCall, call[t]} BY <1>2, ReturnEffect
  <2>2. ~Waiting(t)' /\ ~Pend(t)' /\ (call'[t].op = "read" => call[t].op = "read")
    BY <2>1 DEF Waiting, Pend, Writing, NoCall
  <2> QED BY <1>1, <1>2, <2>1, <2>2, SameLess2, CalmHeard
<1>3. CASE clients' = Append(clients, new) /\ Goto(t, "named") /\ UNCHANGED <<stage, call>>
  <2>1. OnlyMoves(t) /\ pc'[t] = "named" /\ call'[t] = call[t]
    BY <1>3 DEF Goto, OnlyMoves, Others, TInv, TypeOK
  <2>2. ~Waiting(t)' /\ ~Pend(t)' BY <2>1, <1>1 DEF Waiting, Pend, Writing
  <2>3. new.notify = <<>> /\ Len(new.notify) = 0 BY EmptySeq
  <2> HIDE DEF new
  <2>4. /\ Len(clients') = n + 1 /\ clients'[n + 1] = new
        /\ \A i \in 1..n : clients'[i] = clients[i]
    BY <1>1, <1>3, AppendProperties
  <2>5. \A i \in 1..Len(clients') : (i \in 1..n /\ clients'[i] = clients[i]) \/ clients'[i] = new
    BY <1>1, <2>4
  <2>6. OneWaiter' BY <2>3, <2>5 DEF Heard, OneWaiter
  <2>7. NoData' BY <2>3, <2>5 DEF Heard, NoData
  <2>8. \A c, u, x : HasEntry(c, u, x)' => HasEntry(c, u, x) BY <2>3, <2>5 DEF HasEntry
  <2>9. \A i \in 1..n : i \in 1..Len(clients') /\ clients'[i] = clients[i] BY <1>1, <2>4
  <2>10. \A c, u, x : HasEntry(c, u, x) => HasEntry(c, u, x)' BY <2>9 DEF HasEntry
  <2>11. \A u \in Threads : CbFor(u)' <=> CbFor(u) BY <1>1 DEF CbFor
  <2> QED BY <1>1, <2>1, <2>2, <2>6, <2>7, <2>8, <2>10, <2>11, LeaveHeard DEF Others
<1> QED BY <1>2, <1>3 DEF ClientInsert

LEMMA ReleaseFreeHeard ==
  ASSUME TInv, Safe, Heard, NEW t \in Threads, ReleaseFree(t)
  PROVE  Heard'
<1>1. /\ pc[t] = "urbs" /\ clients' = Unlinked(t) /\ Return(t, TRUE) /\ UNCHANGED <<woken, cb>>
  BY DEF ReleaseFree, readVars
<1>2. call[t].op = "rel" BY <1>1 DEF TInv, CallInv, Releasing
<1>3. PICK i \in 1..Len(clients) : clients[i].id = call[t].rid /\ clients[i].notify = <<>>
  BY <1>1, <1>2, FoundClient
<1>4. clients \in Seq(ClientMem) /\ Len(clients) \in Nat /\ Len(clients[i].notify) = 0
  BY <1>3, ClientTypes, EmptySeq
<1>5. /\ Len(clients') = Len(clients) - 1
      /\ \A j \in 1..(Len(clients) - 1) : clients'[j] = IF j < i THEN clients[j] ELSE clients[j + 1]
  <2>1. clients' = RemoveAt(clients, i) BY <1>1, <1>3, UnlinkedRemoves
  <2> DEFINE ds == RemoveAt(clients, i)
  <2>2. /\ Len(ds) = Len(clients) - 1
        /\ \A j \in 1..(Len(clients) - 1) : ds[j] = IF j < i THEN clients[j] ELSE clients[j + 1]
    BY <1>4, RemoveAtProperties
  <2>3. clients' = ds BY <2>1
  <2> HIDE DEF ds
  <2> QED BY <2>2, <2>3
<1>6. OnlyMoves(t) /\ pc'[t] = "idle" /\ call'[t] \in {NoCall, call[t]} BY <1>1, ReturnEffect
<1>7. ~Waiting(t)' /\ ~Pend(t)' /\ (call'[t].op = "read" => call[t].op = "read")
  BY <1>6 DEF Waiting, Pend, Writing, NoCall
<1>8. \A j \in 1..Len(clients') : \E m \in 1..Len(clients) : clients'[j] = clients[m]
  BY <1>4, <1>5
<1>9. OneWaiter' BY <1>8 DEF Heard, OneWaiter
<1>10. NoData' BY <1>8 DEF Heard, NoData
<1>11. \A c, u, x : HasEntry(c, u, x)' => HasEntry(c, u, x) BY <1>8 DEF HasEntry
<1>12. \A m \in 1..Len(clients) : m # i => \E j \in 1..Len(clients') : clients'[j] = clients[m]
  <2>1. SUFFICES ASSUME NEW m \in 1..Len(clients), m # i
                 PROVE  \E j \in 1..Len(clients') : clients'[j] = clients[m]
    OBVIOUS
  <2>2. CASE m < i BY <1>4, <2>2, <1>5
  <2>3. CASE m > i
    <3>1. m - 1 \in 1..(Len(clients) - 1) /\ ~(m - 1 < i) /\ (m - 1) + 1 = m BY <1>4, <2>3
    <3> QED BY <1>5, <3>1
  <2> QED BY <1>4, <2>1, <2>2, <2>3
<1>13. ASSUME NEW c, NEW u, NEW x, HasEntry(c, u, x) PROVE HasEntry(c, u, x)'
  <2>1. PICK m \in 1..Len(clients) :
           /\ clients[m].id = c
           /\ \E k \in 1..Len(clients[m].notify) :
                clients[m].notify[k].t = u /\ clients[m].notify[k].tid = x
    BY <1>13 DEF HasEntry
  <2>2. m # i BY <1>4, <2>1
  <2>3. PICK j \in 1..Len(clients') : clients'[j] = clients[m] BY <1>12, <2>2
  <2> QED BY <2>1, <2>3 DEF HasEntry
<1>14. \A u \in Threads : CbFor(u)' <=> CbFor(u) BY <1>1 DEF CbFor
<1> QED BY <1>1, <1>6, <1>7, <1>9, <1>10, <1>11, <1>13, <1>14, LeaveHeard DEF Others

-----------------------------------------------------------------------------
\* The read callback.

\* No request begins, and nobody else waits at QMICTL.
LEMMA EntriesFrame ==
  ASSUME Heard, ReadersOnly', OneWaiter', NoData', WdsOnce', Listed',
         \A u \in Threads : Pend(u)' => Pend(u) /\ call'[u].tid = call[u].tid,
         \A u \in Threads : \A x : HasEntry(CTL, u, x)' => HasEntry(CTL, u, x)
  PROVE  Heard'
BY DEF Heard, PendTid, CtlEntries

\* No thread moves.
LEMMA StillFrame ==
  ASSUME Heard, UNCHANGED <<pc, call>>, OneWaiter', NoData', WdsOnce', Listed',
         \A u \in Threads : \A x : HasEntry(CTL, u, x)' => HasEntry(CTL, u, x)
  PROVE  Heard'
BY EntriesFrame DEF Pend, Heard, ReadersOnly

LEMMA DeliverLists ==
  ASSUME TInv, CallbackDeliver
  PROVE  \A j \in 1..Len(clients) :
           clients'[j].list = IF j = Place(cb.at) THEN Append(clients[j].list, cb.msg)
                              ELSE clients[j].list
<1> DEFINE i == Place(cb.at)
           k == FirstWaiter(clients[i].notify, cb.msg.tid)
           l == Append(clients[i].list, cb.msg)
           cs == SetList(clients, i, l)
           r == RemoveAt(cs[i].notify, k)
<1>1. /\ clients \in Seq(ClientMem) /\ cb.msg \in Msg /\ i \in 1..Len(clients)
      /\ k = 0 \/ k \in 1..Len(clients[i].notify)
  BY ClientTypes, DeliverProperties DEF TInv, TypeOK
<1>2. clients' = cs \/ (k # 0 /\ clients' = SetNotify(cs, i, r)) BY DEF CallbackDeliver
<1> HIDE DEF i, k
<1>3. i \in 0..Len(clients) /\ \A j \in 1..Len(clients) : clients[j] \in ClientMem BY <1>1
<1>4. clients[i].list \in Seq(Msg) /\ clients[i].notify \in Seq(Waiter)
  BY <1>1, <1>3 DEF ClientMem
<1>5. l \in Seq(Msg) BY <1>1, <1>4, AppendProperties
<1> HIDE DEF l
<1>6. /\ cs \in Seq(ClientMem) /\ Len(cs) = Len(clients) /\ SameNotify(clients, cs)
      /\ \A j \in 1..Len(clients) :
           cs[j] = IF j = i THEN [clients[j] EXCEPT !.list = l] ELSE clients[j]
  BY <1>1, <1>3, <1>5, SetListProperties, SetFieldSame
<1> HIDE DEF cs
<1>7. \A j \in 1..Len(clients) : cs[j].list = IF j = i THEN l ELSE clients[j].list
  BY <1>3, <1>6 DEF ClientMem
<1>8. \A j \in 1..Len(clients) : clients'[j].list = cs[j].list
  <2>1. CASE clients' = cs BY <2>1
  <2>2. CASE k # 0 /\ clients' = SetNotify(cs, i, r)
    <3>1. cs[i].notify = clients[i].notify BY <1>1, <1>6 DEF SameNotify
    <3>2. r \in Seq(Waiter) BY <1>1, <1>4, <2>2, <3>1, RemoveAtProperties
    <3> DEFINE ds == SetNotify(cs, i, r)
    <3> HIDE DEF r
    <3>3. \A j \in 1..Len(cs) : ds[j] = IF j = i THEN [cs[j] EXCEPT !.notify = r] ELSE cs[j]
      BY <1>3, <1>6, <3>2, SetNotifyProperties
    <3>4. clients' = ds BY <2>2
    <3> HIDE DEF ds
    <3>5. \A j \in 1..Len(cs) : cs[j] \in ClientMem BY <1>6
    <3> QED BY <1>6, <3>3, <3>4, <3>5 DEF ClientMem
  <2> QED BY <1>2, <2>1, <2>2
<1> QED BY <1>7, <1>8 DEF l, i

\* Of those who wait at a client at most one is waiting for a message.
LEMMA OneIsTold ==
  ASSUME TInv, Safe, Heard, NEW i \in 1..Len(clients),
         NEW k \in 1..Len(clients[i].notify), NEW m \in 1..Len(clients[i].notify), m # k,
         NEW x, x = 0 \/ clients[i].notify[k].tid \in {0, x}
  PROVE  clients[i].notify[m].tid \notin {0, x}
<1> DEFINE a == clients[i].notify[k]
           b == clients[i].notify[m]
<1>1. clients[i].notify \in Seq(Waiter) /\ Len(clients[i].notify) \in Nat BY NotifyLength
<1>2. a.tid \in 0..MaxTid /\ b.tid \in 0..MaxTid
  <2>1. a \in Waiter /\ b \in Waiter BY <1>1
  <2> QED BY <2>1 DEF Waiter
<1>3. clients[i].id = CTL
  <2>1. SUFFICES ASSUME clients[i].id # CTL PROVE FALSE OBVIOUS
  <2>2. Len(clients[i].notify) <= 1 BY <2>1 DEF Heard, OneWaiter
  <2> QED BY <1>1, <2>2
<1>4. HasEntry(CTL, a.t, a.tid) /\ HasEntry(CTL, b.t, b.tid) BY <1>3 DEF HasEntry
<1>5. a.t # b.t
  <2>1. a.t \in Threads /\ Once(clients[i].notify) BY <1>4, CtlEntry DEF Safe, WaitInv, OneEntry
  <2> QED BY <2>1, ConstantFacts DEF Once
<1>6. x = 0 \/ a.tid \in {0, x} OBVIOUS
<1> HIDE DEF a, b
<1>7. a.t \in Threads /\ b.t \in Threads BY <1>4, CtlEntry
<1>8. /\ a.tid # 0 /\ \A u \in Threads : Pend(u) /\ call[u].tid = a.tid => u = a.t
      /\ b.tid # 0 /\ \A u \in Threads : Pend(u) /\ call[u].tid = b.tid => u = b.t
  BY <1>2, <1>4, <1>7 DEF Heard, CtlEntries
<1>9. /\ (Pend(a.t) /\ call[a.t].tid = a.tid) \/ a.t = SyncT
      /\ (Pend(b.t) /\ call[b.t].tid = b.tid) \/ b.t = SyncT
  BY <1>2, <1>4, <1>7, CtlWaiter
<1>10. a.tid # b.tid BY <1>5, <1>7, <1>8, <1>9
<1>11. b.tid \notin {0, x} BY <1>6, <1>8, <1>10
<1> QED BY <1>11 DEF b

LEMMA CallbackDeliverHeard ==
  ASSUME TInv, Safe, Heard, CallbackDeliver
  PROVE  Heard'
<1> DEFINE i == Place(cb.at)
           x == cb.msg.tid
           s == clients[i].notify
           k == FirstWaiter(s, x)
<1>1. UNCHANGED <<pc, call, woken>> /\ cb.pc = "walk" /\ cb.msg \in Msg
  BY DEF CallbackDeliver, readVars, TInv, TypeOK
<1>2. /\ Same(clients, clients') /\ i \in 1..Len(clients)
      /\ \/ /\ k = 0 /\ SameNotify(clients, clients')
            /\ \E n \in Nat \ {0} : Continue(cb.msg, n)
         \/ /\ k \in 1..Len(s)
            /\ cb' = [cb EXCEPT !.pc = "up", !.who = s[k].t]
            /\ clients'[i].notify = RemoveAt(s, k)
            /\ \A j \in 1..Len(clients) : j # i => clients'[j].notify = clients[j].notify
  BY DeliverProperties
<1>3. \A j \in 1..Len(clients) :
         clients'[j].list = IF j = i THEN Append(clients[j].list, cb.msg) ELSE clients[j].list
  BY DeliverLists
<1>4. /\ Len(clients') = Len(clients) /\ Len(clients) \in Nat /\ s \in Seq(Waiter) /\ Len(s) \in Nat
      /\ \A j \in 1..Len(clients) : clients'[j].id = clients[j].id
  BY <1>2, NotifyLength DEF Same
<1>5. /\ k = 0 => \A j \in 1..Len(s) : s[j].tid \notin {0, x}
      /\ k # 0 => k \in 1..Len(s) /\ (x = 0 \/ s[k].tid \in {0, x})
  BY <1>4, WaiterFound
<1>6. \A m \in 1..Len(s) : m # k => s[m].tid \notin {0, x}
  <2>1. CASE k = 0 BY <1>5, <2>1
  <2>2. CASE k # 0
    <3>1. k \in 1..Len(s) /\ (x = 0 \/ s[k].tid \in {0, x}) BY <1>5, <2>2
    <3> HIDE DEF k, x, i
    <3> QED BY <1>2, <3>1, OneIsTold
  <2> QED BY <2>1, <2>2
<1> HIDE DEF i, x, k
<1>7. /\ LessNotify(clients, clients')
      /\ \A n \in 1..Len(clients'[i].notify) :
           \E m \in 1..Len(s) : clients'[i].notify[n] = s[m] /\ s[m].tid \notin {0, x}
  <2>1. CASE k = 0 /\ SameNotify(clients, clients')
    <3>1. clients'[i].notify = s BY <1>2, <2>1 DEF SameNotify
    <3>2. \A m \in 1..Len(s) : m # k BY <2>1
    <3> HIDE DEF s
    <3> QED BY <1>6, <2>1, <3>1, <3>2, SameLessNotify
  <2>2. CASE /\ k \in 1..Len(s) /\ clients'[i].notify = RemoveAt(s, k)
             /\ \A j \in 1..Len(clients) : j # i => clients'[j].notify = clients[j].notify
    <3>1. LessNotify(clients, clients') BY <1>2, <2>2, RemovedNotify
    <3> HIDE DEF s
    <3> DEFINE l == RemoveAt(s, k)
    <3>2. Len(l) = Len(s) - 1 /\ \A j \in 1..(Len(s) - 1) : l[j] = IF j < k THEN s[j] ELSE s[j + 1]
      BY <1>4, <2>2, RemoveAtProperties
    <3>3. clients'[i].notify = l BY <2>2
    <3> HIDE DEF l
    <3>4. ASSUME NEW n \in 1..Len(l) PROVE \E m \in 1..Len(s) : l[n] = s[m] /\ m # k
      <4>1. CASE n < k BY <1>4, <2>2, <3>2, <4>1
      <4>2. CASE ~(n < k) BY <1>4, <2>2, <3>2, <4>2
      <4> QED BY <4>1, <4>2
    <3> QED BY <1>6, <3>1, <3>3, <3>4
  <2> QED BY <1>2, <2>1, <2>2
<1>8. OneWaiter' /\ \A c, u, y : HasEntry(c, u, y)' => HasEntry(c, u, y)
  BY <1>2, <1>7, LessWaits
<1>9. NoData'
  <2>1. SUFFICES ASSUME NEW j \in 1..Len(clients), NEW n \in 1..Len(clients'[j].notify),
                        NEW h \in 1..Len(clients'[j].list)
                 PROVE  clients'[j].notify[n].tid \notin {0, clients'[j].list[h].tid}
    BY <1>4 DEF NoData
  <2>2. PICK m \in 1..Len(clients[j].notify) : clients'[j].notify[n] = clients[j].notify[m]
    BY <1>7 DEF LessNotify
  <2>3. CASE h \in 1..Len(clients[j].list) /\ clients'[j].list[h] = clients[j].list[h]
    BY <2>2, <2>3 DEF Heard, NoData
  <2>4. CASE j = i /\ clients'[j].list[h] = cb.msg BY <1>7, <2>4 DEF x
  <2>5. clients[j].list \in Seq(Msg) BY NotifyLength
  <2>6. CASE j = i
    <3> DEFINE o == clients[j].list
    <3>1. clients'[j].list = Append(o, cb.msg) /\ o \in Seq(Msg) BY <1>3, <2>5, <2>6
    <3> HIDE DEF o
    <3>2. /\ Len(Append(o, cb.msg)) = Len(o) + 1 /\ Append(o, cb.msg)[Len(o) + 1] = cb.msg
          /\ \A g \in 1..Len(o) : Append(o, cb.msg)[g] = o[g]
      BY <1>1, <3>1, AppendProperties
    <3>3. Len(o) \in Nat /\ h \in 1..(Len(o) + 1) BY <3>1, <3>2
    <3>4. (h \in 1..Len(o) /\ clients'[j].list[h] = o[h]) \/ clients'[j].list[h] = cb.msg
      BY <3>1, <3>2, <3>3
    <3> QED BY <2>3, <2>4, <2>6, <3>4 DEF o
  <2>7. CASE j # i BY <1>3, <2>3, <2>7
  <2> QED BY <2>6, <2>7
<1>10. CASE SameNotify(clients, clients') /\ \E n \in Nat \ {0} : Continue(cb.msg, n)
  <2>1. cb'.pc # "up" BY <1>1, <1>10, ContinueType
  <2>2. WdsOnce' /\ \A u \in Threads : ~CbFor(u) /\ ~CbFor(u)' BY <1>1, <2>1 DEF WdsOnce, CbFor
  <2>3. \A c, u, y : HasEntry(c, u, y) => HasEntry(c, u, y)'
    BY <1>4, <1>10 DEF HasEntry, SameNotify
  <2>4. ASSUME NEW u \in Threads PROVE ListedOf(u)'
    BY <1>1, <2>2, <2>3 DEF Heard, Listed, ListedOf, Waiting
  <2> QED BY <1>1, <1>8, <1>9, <2>2, <2>4, StillFrame DEF Listed
<1>11. CASE /\ k \in 1..Len(s)
            /\ cb' = [cb EXCEPT !.pc = "up", !.who = s[k].t]
            /\ clients'[i].notify = RemoveAt(s, k)
            /\ \A j \in 1..Len(clients) : j # i => clients'[j].notify = clients[j].notify
  <2>1. cb'.pc = "up" /\ cb'.who = s[k].t /\ \A u \in Threads : ~CbFor(u)
    BY <1>1, <1>11 DEF TInv, TypeOK, CbFor
  <2>2. \A j \in 1..Len(clients) :
           clients'[j].notify = IF j = i THEN RemoveAt(clients[i].notify, k) ELSE clients[j].notify
    BY <1>11
  <2>3. WdsOnce'
    <3>1. SUFFICES ASSUME s[k].t = WdsCb, NEW c \in Ids \union {CTL}, NEW y \in 0..MaxTid,
                          HasEntry(c, WdsCb, y)'
                   PROVE  FALSE
      BY <2>1 DEF WdsOnce
    <3>2. s[k].tid \in 0..MaxTid /\ clients[i].id \in Ids \union {CTL}
      <4>1. s[k] \in Waiter BY <1>4, <1>11
      <4> QED BY <1>2, <4>1, NotifyLength DEF Waiter
    <3>3. HasEntry(clients[i].id, WdsCb, s[k].tid) /\ HasEntry(c, WdsCb, y)
      <4>1. clients[i].notify[k].t = WdsCb /\ k \in 1..Len(clients[i].notify) BY <1>11, <3>1
      <4>2. HasEntry(clients[i].id, WdsCb, s[k].tid) BY <1>2, <4>1 DEF HasEntry
      <4> QED BY <1>8, <3>1, <4>2
    <3>4. clients[i].id = wds /\ c = wds BY <3>2, <3>3 DEF Safe, WaitInv, WdsEntry
    <3>5. wds # CTL BY ConstantFacts DEF TInv, TypeOK
    <3>6. Len(s) <= 1 BY <1>2, <3>4, <3>5 DEF Heard, OneWaiter
    <3>7. Len(clients'[i].notify) = 0 BY <1>4, <1>11, RemoveAtProperties, <3>6
    <3>8. PICK j \in 1..Len(clients) : clients[j].id = c /\ Len(clients'[j].notify) # 0
      <4>1. PICK j \in 1..Len(clients) :
               clients[j].id = c /\ \E n \in 1..Len(clients'[j].notify) : TRUE
        BY <1>4, <3>1 DEF HasEntry
      <4> QED BY <4>1
    <3>9. j = i BY <1>2, <3>4, <3>8 DEF Safe, ListInv
    <3> QED BY <3>7, <3>8, <3>9
  <2>4. ASSUME NEW u \in Threads PROVE ListedOf(u)'
    <3>1. ListedOf(u) BY DEF Heard, Listed
    <3>2. SUFFICES ASSUME Waiting(u), ~woken[u], u # s[k].t
                   PROVE  HasEntry(call[u].cid, u, call[u].tid)'
      BY <1>1, <2>1 DEF ListedOf, Waiting, CbFor
    <3>3. \A c, y : HasEntry(c, u, y) => HasEntry(c, u, y)'
      BY <1>2, <1>11, <2>2, <3>2, RemovalKeeps
    <3>4. HasEntry(call[u].cid, u, call[u].tid) BY <2>1, <3>1, <3>2 DEF ListedOf
    <3>5. \A c, y : c = call[u].cid /\ y = call[u].tid => HasEntry(c, u, y)' BY <3>3, <3>4
    <3> QED BY <1>1, <3>5 DEF HasEntry
  <2> QED BY <1>1, <1>8, <1>9, <2>3, <2>4, StillFrame DEF Listed
<1> QED BY <1>2, <1>10, <1>11

\* QMIWDSCallback registers itself, and qmi_sync_thread.

LEMMA WdsAdded ==
  ASSUME TInv, Safe, Heard, NEW i \in 1..Len(clients), clients[i].id = wds,
         clients' = SetNotify(SetList(clients, i, <<>>), i,
                              Append(clients[i].notify, [tid |-> 0, t |-> WdsCb])),
         \/ WdsDone /\ \A x \in 0..MaxTid : ~HasEntry(wds, WdsCb, x)
         \/ ~WdsDone /\ pc[SyncT] = "idle"
  PROVE  OneWaiter' /\ NoData' /\ Added(wds, WdsCb, 0)
<1> DEFINE w == [tid |-> 0, t |-> WdsCb]
<1>1. /\ LessData(clients, clients') /\ clients'[i].list = <<>> /\ w \in Waiter
      /\ Same(clients, clients')
      /\ \A j \in 1..Len(clients) :
           clients'[j].notify = IF j = i THEN Append(clients[i].notify, w) ELSE clients[j].notify
  <2> DEFINE ds == SetNotify(SetList(clients, i, <<>>), i, Append(clients[i].notify, w))
  <2>1. /\ LessData(clients, ds) /\ ds[i].list = <<>> /\ w \in Waiter
        /\ Same(clients, ds)
        /\ \A j \in 1..Len(clients) :
             ds[j].notify = IF j = i THEN Append(clients[i].notify, w) ELSE clients[j].notify
    BY ClientTypes, RegisteredLess
  <2>2. clients' = ds OBVIOUS
  <2> HIDE DEF ds, w
  <2> QED BY <2>1, <2>2
<1>2. w.t = WdsCb /\ w.tid = 0 OBVIOUS
<1> HIDE DEF w
<1>3. clients[i].id # CTL BY ConstantFacts DEF TInv, TypeOK
<1>4. clients[i].notify = <<>>
  <2>1. SUFFICES ASSUME clients[i].notify # <<>> PROVE FALSE OBVIOUS
  <2>2. PICK u \in Threads : /\ pc[u] \in {"asleep", "giveup"} /\ call[u].op = "read"
                             /\ call[u].cid = wds
    BY <1>3, <2>1, WaitsAt
  <2>3. u = SyncT /\ ~WdsDone BY <2>2, WdsReader
  <2> QED BY <2>2, <2>3
<1>5. Registers(i, w)
  <2>1. \A j \in 1..Len(clients'[i].list) : FALSE BY <1>1, EmptySeq
  <2> QED BY <1>1, <1>4, <2>1 DEF Registers
<1> QED BY <1>1, <1>2, <1>5, AddHeard

LEMMA CallbackUpHeard ==
  ASSUME TInv, Safe, Heard, CallbackUp
  PROVE  Heard'
<1>1. /\ cb.pc = "up" /\ cb.msg \in Msg /\ Up(cb.who) /\ cb.who \in Notified
      /\ UNCHANGED <<pc, call>>
  BY DEF CallbackUp, TInv, TypeOK
<1>2. cb'.pc # "up" BY DEF CallbackUp, TInv, TypeOK
<1>3. \A u \in Threads : woken'[u] = (woken[u] \/ u = cb.who) BY <1>1, UpProperties
<1>4. WdsOnce' BY <1>2 DEF WdsOnce
<1>5. ASSUME OneWaiter', NoData',
             \A c, u, x : HasEntry(c, u, x) => HasEntry(c, u, x)',
             \A u \in Threads : \A x : HasEntry(CTL, u, x)' => HasEntry(CTL, u, x)
      PROVE  Heard'
  <2>1. ASSUME NEW u \in Threads PROVE ListedOf(u)'
    BY <1>3, <1>1, <1>5 DEF Heard, Listed, CbFor, ListedOf, Waiting
  <2>2. Listed' BY <2>1 DEF Listed
  <2> QED BY <1>1, <1>4, <1>5, <2>2, StillFrame
<1>6. CASE UNCHANGED clients
  <2>1. \A c, u, x : HasEntry(c, u, x)' <=> HasEntry(c, u, x) BY <1>6 DEF HasEntry
  <2>2. OneWaiter' /\ NoData' BY <1>6 DEF Heard, OneWaiter, NoData
  <2> QED BY <1>5, <2>1, <2>2
<1>7. CASE cb.who = WdsCb /\ clients' = WdsRead(clients) /\ clients' # clients
  <2> DEFINE i == FindClientMem(clients, wds)
  <2>1. /\ i \in 1..Len(clients)
        /\ clients' = SetNotify(SetList(clients, i, <<>>), i,
                                Append(clients[i].notify, [tid |-> 0, t |-> WdsCb]))
    BY <1>7, ClientTypes, WdsReadLess
  <2>2. clients[i].id = wds BY <2>1, ClientTypes, FindProperties
  <2> HIDE DEF i
  <2>3. WdsDone /\ wds \in Ids \union {CTL}
    BY <1>1, <1>7, <2>1, <2>2, NotifyLength DEF Safe, WaitInv, CbInv
  <2>4. \A x \in 0..MaxTid : ~HasEntry(wds, WdsCb, x) BY <1>1, <1>7, <2>3 DEF Heard, WdsOnce
  <2>5. OneWaiter' /\ NoData' /\ Added(wds, WdsCb, 0) BY <2>1, <2>2, <2>3, <2>4, WdsAdded
  <2>6. WdsCb \notin Threads BY ConstantFacts
  <2> QED BY <1>5, <2>5, <2>6 DEF Added
<1> QED BY <1>1, <1>6, <1>7 DEF Up

LEMMA CallbackOnHeard ==
  ASSUME TInv, Heard, CallbackOn
  PROVE  Heard'
<1>1. /\ UNCHANGED <<pc, call, clients, woken>> /\ cb.pc # "up" /\ cb.msg \in Msg
  BY DEF CallbackOn, readVars, TInv, TypeOK
<1>2. cb'.pc # "up" BY <1>1, CallbackContinues, ContinueType
<1> QED BY <1>1, <1>2, StillHeard

LEMMA SyncIoHeard ==
  ASSUME TInv, Safe, Heard, TakesNew, SyncIo
  PROVE  Heard'
<1> DEFINE t == SyncT
           c == id["driver"]
           Io(op, x) == [op |-> op, cid |-> c, tid |-> x, rid |-> NoId]
           i == FindClientMem(clients, wds)
<1>1. /\ pc[t] = "idle" /\ t \in Threads /\ c \in Ids \union {NoId}
      /\ UNCHANGED <<cb, woken, wds>>
      /\ pc \in [Threads -> Pcs] /\ call \in [Threads -> CallSet]
  BY ConstantFacts DEF SyncIo, SyncIdle, readVars, TInv, TypeOK, CallSet, Holders
<1>2. \/ \E op \in {"write", "read"}, x \in {0, 1}, where \in {"add", "try"} :
            call' = [call EXCEPT ![t] = Io(op, x)] /\ Goto(t, where) /\ UNCHANGED clients
      \/ BeginCtl(t, "rel", c)
      \/ /\ stage = "wds" /\ call' = [call EXCEPT ![t] = NoCall] /\ UNCHANGED pc
         /\ \/ UNCHANGED clients
            \/ /\ i # 0
               /\ clients' = SetNotify(SetList(clients, i, <<>>), i,
                                       Append(clients[i].notify, [tid |-> 0, t |-> WdsCb]))
  BY DEF SyncIo
<1>3. ASSUME NEW op \in {"write", "read"}, NEW x \in {0, 1}, NEW where \in {"add", "try"},
             call' = [call EXCEPT ![t] = Io(op, x)], Goto(t, where), UNCHANGED clients
      PROVE  Heard'
  <2>1. Io(op, x).op = op OBVIOUS
  <2> HIDE DEF Io
  <2>2. OnlyMoves(t) /\ pc'[t] = where /\ call'[t].op = op
    <3> HIDE DEF t
    <3> QED BY <1>1, <1>3, <2>1 DEF OnlyMoves, Others, Goto
  <2>3. ~Pend(t)' /\ ~Waiting(t)' BY <2>2 DEF Pend, CtlOps, Waiting
  <2>4. call'[t].op = "read" => t = SyncT OBVIOUS
  <2> HIDE DEF t
  <2> QED BY <1>1, <1>3, <2>2, <2>3, <2>4, SameLess2, CalmHeard
<1>4. CASE BeginCtl(t, "rel", c) BY <1>1, <1>4, BeginCtlHeard
<1>5. CASE /\ stage = "wds" /\ call' = [call EXCEPT ![t] = NoCall] /\ UNCHANGED pc
           /\ \/ UNCHANGED clients
              \/ /\ i # 0
                 /\ clients' = SetNotify(SetList(clients, i, <<>>), i,
                                         Append(clients[i].notify, [tid |-> 0, t |-> WdsCb]))
  <2>1. OnlyMoves(t) /\ pc'[t] = "idle" /\ call'[t].op = "none"
    <3>1. NoCall.op = "none" BY DEF NoCall
    <3> HIDE DEF t
    <3> QED BY <1>1, <1>5, <3>1 DEF OnlyMoves, Others
  <2>2. ~Pend(t)' /\ ~Waiting(t)' BY <2>1 DEF Pend, Waiting, Writing
  <2>3. CASE UNCHANGED clients
    <3> HIDE DEF t
    <3> QED BY <1>1, <2>1, <2>2, <2>3, SameLess2, CalmHeard
  <2>4. CASE /\ i # 0
             /\ clients' = SetNotify(SetList(clients, i, <<>>), i,
                                     Append(clients[i].notify, [tid |-> 0, t |-> WdsCb]))
    <3>1. i \in 1..Len(clients) /\ clients[i].id = wds BY <2>4, ClientTypes, FindProperties
    <3>2. ~WdsDone BY <1>5 DEF WdsDone
    <3> HIDE DEF i
    <3>3. OneWaiter' /\ NoData' /\ Added(wds, WdsCb, 0) BY <1>1, <2>4, <3>1, <3>2, WdsAdded
    <3>4. WdsOnce' BY <1>1, <3>2 DEF Safe, WaitInv, CbInv, WdsOnce
    <3> HIDE DEF t
    <3>5. \A u \in Others(t) : pc'[u] = pc[u] /\ call'[u] = call[u] BY <2>1 DEF OnlyMoves
    <3>6. ReadersOnly' BY <2>1, <3>5 DEF Heard, ReadersOnly, Others
    <3>7. \A u \in Threads : Pend(u)' => Pend(u) /\ call'[u].tid = call[u].tid
      BY <2>2, <3>5 DEF Pend, Others
    <3>8. Listed' BY <2>2, <1>1, <3>3, <2>1, ListedFrame DEF ListedOf, CbFor, Added, Others
    <3>9. \A u \in Threads : \A x : HasEntry(CTL, u, x)' => HasEntry(CTL, u, x)
      BY <3>3, ConstantFacts DEF Added
    <3> QED BY <3>3, <3>4, <3>6, <3>7, <3>8, <3>9, EntriesFrame
  <2> QED BY <1>5, <2>3, <2>4
<1> QED BY <1>2, <1>3, <1>4, <1>5

LEMMA SyncReadyHeard ==
  ASSUME TInv, Safe, AInv', Heard, TakesNew, SyncReady
  PROVE  Heard'
<1> DEFINE t == SyncT
           cs == Purged(clients, NextTid)
           i == FindClientMem(cs, CTL)
           w == [tid |-> NextTid, t |-> t]
           l == Append(cs[i].notify, w)
           o == [op |-> "ready", cid |-> CTL, tid |-> NextTid, rid |-> NoId]
<1>1. /\ cs \in Seq(ClientMem) /\ Same(clients, cs) /\ SameNotify(clients, cs)
      /\ LessData(clients, cs) /\ ListInv /\ t \in Threads /\ cb' = cb
  BY ClientTypes, PurgedProperties, PurgedLess, ConstantFacts DEF SyncReady, Safe
<1>2. /\ Len(cs) = Len(clients) /\ Len(clients) \in Nat /\ cs[1].id = CTL /\ Len(clients) > 0
      /\ \A j \in 1..Len(clients) : cs[j].id = clients[j].id
  BY <1>1, NotifyLength DEF Same, ListInv
<1>3. i \in 1..Len(clients) /\ cs[i].id = CTL /\ i # 0 /\ i \in 0..Len(cs)
  <2> HIDE DEF cs
  <2>1. /\ i \in 0..Len(cs)
        /\ i = 0 => \A j \in 1..Len(cs) : cs[j].id # CTL
        /\ i # 0 => cs[i].id = CTL
    BY <1>1, FindProperties
  <2> HIDE DEF i
  <2> QED BY <1>2, <2>1
<1>4. /\ clients' = SetNotify(cs, i, l) /\ woken' = [woken EXCEPT ![t] = FALSE]
      /\ call' = [call EXCEPT ![t] = o] /\ Goto(t, "add")
  BY <1>3, Zenon DEF SyncReady
<1>5. NextTid \in 1..MaxTid /\ NextTid # 0 /\ w \in Waiter /\ w.t = t /\ w.tid = NextTid
  BY ConstantsAssumption, <1>1 DEF NextTid, TInv, TypeOK, Waiter
<1>6. \A k \in 1..Len(cs[i].list) : cs[i].list[k].tid # NextTid
  <2> DEFINE h == FindClientMem(clients, CTL)
  <2>1. h # 0 => \A k \in 1..Len(cs[h].list) : cs[h].list[k].tid # NextTid
    BY ClientTypes, PurgedLess
  <2>2. /\ h \in 0..Len(clients)
        /\ h = 0 => \A j \in 1..Len(clients) : clients[j].id # CTL
        /\ h # 0 => clients[h].id = CTL
    BY ClientTypes, FindProperties
  <2> HIDE DEF h, cs, i
  <2>3. clients[i].id = CTL BY <1>2, <1>3
  <2>4. h # 0 /\ h \in 1..Len(clients) BY <1>2, <1>3, <2>2, <2>3
  <2>5. h = i BY <1>1, <1>3, <2>2, <2>3, <2>4 DEF ListInv
  <2> QED BY <2>1, <2>4, <2>5
<1> HIDE DEF cs, i
<1>7. l \in Seq(Waiter)
  <2>1. cs[i].notify \in Seq(Waiter)
    <3>1. cs[i] \in ClientMem BY <1>1, <1>2, <1>3
    <3> QED BY <3>1 DEF ClientMem
  <2> HIDE DEF w
  <2> QED BY <1>5, <2>1, AppendProperties
<1> HIDE DEF w, l
<1>8. /\ LessData(cs, clients') /\ Same(cs, clients')
      /\ \A j \in 1..Len(cs) : /\ clients'[j].list = cs[j].list
                               /\ clients'[j].notify = IF j = i THEN l ELSE cs[j].notify
  <2> DEFINE ds == SetNotify(cs, i, l)
  <2>1. LessData(cs, ds) /\ Same(cs, ds) BY <1>1, <1>3, <1>7, SetLessData, SetFieldSame
  <2>2. \A j \in 1..Len(cs) : ds[j] = IF j = i THEN [cs[j] EXCEPT !.notify = l] ELSE cs[j]
    BY <1>1, <1>3, <1>7, SetNotifyProperties
  <2>3. clients' = ds /\ \A j \in 1..Len(cs) : cs[j] \in ClientMem BY <1>1, <1>4
  <2> HIDE DEF ds
  <2> QED BY <2>1, <2>2, <2>3 DEF ClientMem
<1>9. Registers(i, w) /\ clients[i].id = CTL
  BY <1>1, <1>2, <1>8, LessDataTrans, <1>3, <1>5, <1>6 DEF Same, SameNotify, l, Registers
<1>10. OneWaiter' /\ NoData' /\ Added(CTL, t, NextTid)
  <2> HIDE DEF t
  <2> QED BY <1>3, <1>5, <1>9, AddHeard
<1>11. /\ OnlyMoves(t) /\ pc'[t] = "add" /\ call'[t].op = "ready" /\ call'[t].cid = CTL
       /\ call'[t].tid = NextTid /\ \A u \in Others(t) : woken'[u] = woken[u]
  <2>1. pc \in [Threads -> Pcs] /\ call \in [Threads -> CallSet] /\ woken \in [Threads -> BOOLEAN]
    BY DEF TInv, TypeOK, CallSet
  <2>2. o.op = "ready" /\ o.cid = CTL /\ o.tid = NextTid OBVIOUS
  <2> HIDE DEF t, o
  <2> QED BY <1>1, <1>4, <2>1, <2>2 DEF OnlyMoves, Others, Goto
<1>12. Pend(t)' BY <1>11 DEF Pend, CtlOps, Writing
<1>13. ReadersOnly' /\ PendTid'
  BY <1>11, <1>5 DEF OnlyMoves, Heard, ReadersOnly, Others, PendTid, Pend
<1>14. \A x, u : HasEntry(CTL, u, x) /\ Pend(t)' /\ call'[t].tid = x => u = t
  <2>1. SUFFICES ASSUME NEW u, HasEntry(CTL, u, NextTid) PROVE FALSE BY <1>11
  <2>2. u \in Threads BY <2>1, CtlEntry
  <2>3. NextIsNew BY NewId DEF SyncReady, TakesNew
  <2> QED BY <2>1, <2>2, <2>3, NewTid
<1> HIDE DEF t
<1> QED BY <1>1, <1>10, <1>11, <1>12, <1>13, <1>14, RegisteredHeard

-----------------------------------------------------------------------------
\* All steps.

LEMMA InitHeard ==
  ASSUME Init
  PROVE  DInv
<1>1. /\ clients = << [id |-> CTL, owner |-> "driver", list |-> <<>>, notify |-> <<>>,
                       urbs |-> <<>>] >>
      /\ cb.pc = "idle"
      /\ \A t \in Threads : pc[t] = "idle" /\ call[t].op = "none"
  BY DEF Init, CbIdle, NoCall
<1>2. Len(clients) = 1 /\ Len(clients[1].notify) = 0 /\ clients[1].id = CTL BY <1>1
<1>3. \A t \in Threads : ~Pend(t) /\ ~Waiting(t) BY <1>1 DEF Pend, Waiting, Writing
<1>4. \A c, u, x : ~HasEntry(c, u, x) BY <1>2 DEF HasEntry
<1>5. ReadersOnly /\ PendTid /\ CtlEntries /\ WdsOnce /\ Listed
  BY <1>1, <1>3, <1>4 DEF ReadersOnly, PendTid, CtlEntries, WdsOnce, Listed, ListedOf
<1>6. OneWaiter /\ NoData BY <1>2 DEF OneWaiter, NoData
<1> QED BY <1>5, <1>6 DEF DInv, Heard

LEMMA StepHeard ==
  ASSUME TInv, TInv', SInv, AInv, AInv', DInv, TakesNew, [Next]_vars
  PROVE  DInv'
<1>1. CASE Disturbed BY <1>1, DisturbedStays DEF DInv
<1>2. CASE ~Disturbed
  <2>1. Safe /\ Heard BY <1>2 DEF SInv, DInv
  <2>2. CASE UNCHANGED vars BY <2>1, <2>2, StillHeard DEF vars, readVars, DInv
  <2>3. ASSUME NEW f \in Files, FileStep(f) PROVE DInv'
    <3>1. CASE ForceRelease(f) BY <2>1, <3>1 DEF ForceRelease, Safe, DInv, Disturbed
    <3>2. CASE ~ForceRelease(f)
      BY ConstantFacts, <2>1, <2>3, <3>2, GetServiceHeard, BeginIoHeard, UserspaceCloseHeard
         DEF FileStep, UserspaceWrite, UserspaceRead, DInv
    <3> QED BY <3>1, <3>2
  <2>4. ASSUME NEW t \in Threads,
               WriteStep(t) \/ ReadStep(t) \/ ClientInsert(t) \/ ClientReturn(t)
        PROVE  Heard'
    BY <2>1, <2>4, WriteAddHeard, WriteSubmitHeard, WriteWakeHeard, ReadTryHeard,
       ReadWakeHeard, ReadInterruptedHeard, ReadGiveUpHeard, ClientInsertHeard,
       ClientReturnHeard DEF WriteStep, ReadStep
  <2>5. ASSUME NEW t \in Threads, ReleaseStep(t) PROVE Heard'
    BY <2>1, <2>5, ReleaseFindHeard, ReleaseNotifyHeard, NoReleaseUp, ReleaseFreeHeard
       DEF ReleaseStep
  <2>6. CASE WriteSyncCallback \/ ReadCallback \/ CallbackStep
    BY <2>1, <2>6, WriteSyncCallbackHeard, ReadCallbackHeard, CallbackDeliverHeard,
       CallbackUpHeard, CallbackOnHeard DEF CallbackStep, DInv
  <2>7. CASE SyncStep
    BY <2>1, <2>7, SyncReadyHeard, SyncReadyEndHeard, SyncCtlHeard, SyncIoHeard
       DEF SyncStep, DInv
  <2>8. CASE Unplug BY <2>1, <2>8, UnplugHeard DEF DInv
  <2>9. CASE Unbind \/ Deregister BY <1>2, <2>9 DEF Unbind, Deregister, DInv, Disturbed
  <2> QED BY <2>2, <2>3, <2>4, <2>5, <2>6, <2>7, <2>8, <2>9 DEF Next, DInv
<1> QED BY <1>1, <1>2

\* No reader sleeps on a message: who waits in a notify list finds nothing
\* stored for it, and who sleeps without having been notified is in a list.
\* AddToReadMemList with NotifyAndPopNotifyList on one side, the look at the
\* list with the registration on the other, do not fall between each other.  As
\* long as no new transaction id is that of a request or an answer still on its
\* way, nor of the entry QMIReady left when its request could not be written,
\* and until DeregisterQMIDevice or a forced release of QMIWDA begins.
THEOREM WaitersHeard == Spec /\ [][TakesNew]_vars => []WaiterHasNoData
<1>1. TInv /\ SInv /\ DInv => WaiterHasNoData
  <2>1. SUFFICES ASSUME TInv, Safe, Heard PROVE WaiterHasNoData
    BY DEF SInv, DInv, WaiterHasNoData
  <2>2. DOMAIN clients = 1..Len(clients) BY <2>1, ClientTypes
  <2>3. ASSUME NEW i \in 1..Len(clients), NEW w \in ToSet(clients[i].notify)
        PROVE  FirstMessage(clients[i].list, w.tid) = 0
    <3>1. clients[i].notify \in Seq(Waiter) /\ clients[i].list \in Seq(Msg)
      BY <2>1, NotifyLength
    <3>2. PICK k \in 1..Len(clients[i].notify) : w = clients[i].notify[k]
      BY <2>3, <3>1 DEF ToSet
    <3>3. \A j \in 1..Len(clients[i].list) : w.tid \notin {0, clients[i].list[j].tid}
      BY <2>1, <3>2 DEF Heard, NoData
    <3> QED BY <3>1, <3>3, NothingFor
  <2>4. ASSUME NEW t \in Threads, pc[t] = "asleep", ~woken[t], ~Pending(t)
        PROVE  \E i \in 1..Len(clients) :
                 [tid |-> call[t].tid, t |-> t] \in ToSet(clients[i].notify)
    <3>1. Waiting(t) /\ ~CbFor(t) BY <2>4 DEF Waiting, CbFor, Pending
    <3>2. HasEntry(call[t].cid, t, call[t].tid) BY <2>1, <2>4, <3>1 DEF Heard, Listed, ListedOf
    <3>3. PICK i \in 1..Len(clients) : \E k \in 1..Len(clients[i].notify) :
             clients[i].notify[k].t = t /\ clients[i].notify[k].tid = call[t].tid
      BY <3>2 DEF HasEntry
    <3>4. PICK k \in 1..Len(clients[i].notify) :
             clients[i].notify[k].t = t /\ clients[i].notify[k].tid = call[t].tid
      BY <3>3
    <3>5. clients[i].notify \in Seq(Waiter) BY <2>1, NotifyLength
    <3>6. clients[i].notify[k] \in Waiter /\ DOMAIN clients[i].notify = 1..Len(clients[i].notify)
      BY <3>5
    <3>7. clients[i].notify[k] = [tid |-> call[t].tid, t |-> t] BY <3>4, <3>6 DEF Waiter
    <3>8. clients[i].notify[k] \in ToSet(clients[i].notify) BY <3>6 DEF ToSet
    <3> QED BY <3>7, <3>8
  <2> QED BY <2>2, <2>3, <2>4 DEF WaiterHasNoData
<1>2. Init => TInv /\ SInv /\ AInv /\ DInv
  BY InitTypes, InitSafe, InitAnswers, InitHeard DEF SInv
<1>3. TInv /\ SInv /\ AInv /\ DInv /\ [TakesNew]_vars /\ [Next]_vars
        => (TInv /\ SInv /\ AInv /\ DInv)'
  BY StepTypes, StepSafe, StepAnswers, StepHeard DEF TakesNew, TakesFree, NextIsNew, vars
<1> QED BY <1>1, <1>2, <1>3, PTL DEF Spec
=============================================================================
