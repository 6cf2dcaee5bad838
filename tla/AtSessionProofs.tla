--------------------------- MODULE AtSessionProofs ---------------------------
(***************************************************************************)
(* Proofs about AtSession, for every number of tries and bound: its types,  *)
(* and that a command is ended by its own final line unless one slipped.    *)
(***************************************************************************)
EXTENDS AtSession, SequenceTheorems, TLAPS

\* Main waits in a command only; what waits longest was sent for nothing else.
WaitInv ==
    /\ IF at \in {"waiting", "woken"}
       THEN ~sRsp.null /\ todo # <<>> /\ Head(todo) \in Commands
       ELSE sRsp = Null
    /\ at = "woken" => sRsp.final # "none" \/ closed

\* Tries are counted in the two commands that are sent again only.
TriesInv ==
    tries > 0 => /\ todo # <<>>
                 /\ \/ Head(todo) = "hello" /\ tries < HelloTries
                    \/ Head(todo) = "poll" /\ tries < PollTries

\* While nothing has slipped, the modem has the command main waits for and no other,
\* and it has that one no more when its final line has come.
SlipInv ==
    ~slipped =>
        IF sRsp.null THEN rdr = "run" => pend = <<>>
        ELSE /\ Len(pend) <= 1 /\ \A i \in 1..Len(pend) : pend[i].own
             /\ sRsp.final # "none" => sRsp.own /\ pend = <<>>

\* The pending command is ended from outside only when the modem or the watcher is gone.
CloseInv ==
    /\ closed => net = "unplugged" \/ rdr = "gone"
    /\ net = "unplugged" => pend = <<>>

IInv == WaitInv /\ TriesInv /\ SlipInv /\ CloseInv

-----------------------------------------------------------------------------
\* Lists: what is left to do, and what waits for main.
Signals == {"START", "CHECK", "STOP"}
EventKinds == {"gone", "network", "datacall"}
Pending == [cmd : Commands, kind : Prefixes, own : BOOLEAN]

LEMMA TodoType ==
    ASSUME todo \in Seq(Steps), todo # <<>>, NEW s \in Seq(Steps)
    PROVE  s \o Tail(todo) \in Seq(Steps)
  BY HeadTailProperties, ConcatProperties

LEMMA PutType ==
    ASSUME NEW T, NEW q \in Seq(T), NEW e \in T, NEW c
    PROVE  Put(q, e) \in Seq(T) /\ PutIf(c, q, e) \in Seq(T)
  BY AppendProperties DEF Put, PutIf

LEMMA NullType == Null \in Response /\ Empty \in Response /\ Null.null /\ Null.final = "none"
                  /\ ~Empty.null /\ Empty.final = "none"
<1>1. NoLine \in 0..NoLine
    BY AtAssumption DEF NoLine
<1>2. Empty \in Response
    BY <1>1 DEF Empty, Response
<1>3. Null \in Response
    BY <1>2 DEF Null, Response
<1>4. QED
    BY <1>2, <1>3 DEF Null, Empty, Response

LEMMA InitInv == Init => TypeOK /\ IInv
<1> SUFFICES ASSUME Init PROVE TypeOK /\ IInv
    OBVIOUS
<1> USE AtAssumption DEF Init
<1>1. todo \in Seq(Steps)
    BY DEF Steps, Commands
<1>2. /\ tries \in 0..(HelloTries + PollTries) /\ addr \in Addrs /\ lease \in Addrs /\ ip \in Addrs
      /\ events \in 0..MaxEvents /\ pend \in Seq(Pending) /\ Len(pend) <= MaxPend
    BY DEF Addrs
<1>3. /\ sigq \in Seq(Signals) /\ evq \in Seq(EventKinds) /\ ctl \subseteq {"stop", "quit"}
    OBVIOUS
<1>4. /\ text \in BOOLEAN /\ slipped \in BOOLEAN /\ asr \in BOOLEAN /\ attached \in BOOLEAN
      /\ link \in BOOLEAN /\ wait \in BOOLEAN /\ alarm \in BOOLEAN /\ stopping \in BOOLEAN
      /\ closed \in BOOLEAN /\ stop \in BOOLEAN /\ sRsp \in Response
    BY NullType
<1>5. /\ at = "run" /\ status = "unknown" /\ rdr = "run" /\ net \in {"none", "registered", "unplugged"}
    OBVIOUS
<1>6. TypeOK
    BY <1>1, <1>2, <1>3, <1>4, <1>5, Zenon DEF TypeOK, Signals, EventKinds, Pending
<1>7. IInv
    BY NullType DEF IInv, WaitInv, TriesInv, SlipInv, CloseInv
<1>8. QED
    BY <1>6, <1>7

-----------------------------------------------------------------------------
\* What the code makes of a result.
Results == [err : BOOLEAN, ok : BOOLEAN, val : Addrs]
Outcomes == [tries : Nat, status : {"unknown", "connected", "disconnected"}, asr : BOOLEAN,
             attached : BOOLEAN, addr : Addrs, more : Seq(Steps), event : BOOLEAN,
             failed : BOOLEAN]

\* It goes on trying a command only when tries are left.
Tried(c, o) ==
    o.tries > 0 => /\ ~o.failed /\ o.more = <<c>>
                   /\ \/ c = "hello" /\ o.tries < HelloTries
                      \/ c = "poll" /\ o.tries < PollTries

LEMMA ResultType ==
    /\ Failed \in Results
    /\ \A ok \in BOOLEAN, l \in 0..NoLine : Result(FALSE, ok, l) \in Results
<1>1. \A l \in 0..NoLine : (IF l = NoLine THEN 0 ELSE l) \in Addrs
    BY AtAssumption DEF NoLine, Addrs
<1>2. 0 \in Addrs
    BY AtAssumption DEF Addrs
<1>3. QED
    BY <1>1, <1>2 DEF Failed, Result, Results

LEMMA MoreType ==
    /\ <<>> \in Seq(Steps)
    /\ \A s \in Steps : <<s>> \in Seq(Steps) /\ \A c \in BOOLEAN : If(c, <<s>>) \in Seq(Steps)
<1>1. <<>> \in Seq(Steps) /\ \A s \in Steps : <<s>> \in Seq(Steps)
    OBVIOUS
<1>2. QED
    BY <1>1, Zenon DEF If

\* Results that count no tries, however they are put together.
Calm == {o \in Outcomes : o.tries = 0}

LEMMA CalmType ==
    ASSUME NEW o \in Calm
    PROVE  /\ \A b \in BOOLEAN : /\ [o EXCEPT !.asr = b] \in Calm
                                 /\ [o EXCEPT !.failed = b] \in Calm
                                 /\ [o EXCEPT !.attached = b] \in Calm
                                 /\ [o EXCEPT !.event = b] \in Calm
           /\ \A x \in {"connected", "disconnected"} : [o EXCEPT !.status = x] \in Calm
           /\ \A a \in Addrs : [o EXCEPT !.addr = a] \in Calm
           /\ \A n \in Nat : /\ [o EXCEPT !.tries = n] \in Outcomes
                             /\ [o EXCEPT !.tries = n].tries = n
                             /\ [o EXCEPT !.tries = n].more = o.more
                             /\ [o EXCEPT !.tries = n].failed = o.failed
  BY DEF Calm, Outcomes

LEMMA OutcomeType ==
    ASSUME TypeOK, TriesInv, todo # <<>>, NEW c \in Commands, c = Head(todo), NEW r \in Results
    PROVE  Outcome(c, r) \in Outcomes /\ Tried(c, Outcome(c, r))
<1>1. /\ status \in {"unknown", "connected", "disconnected"} /\ asr \in BOOLEAN
      /\ attached \in BOOLEAN /\ addr \in Addrs
    BY DEF TypeOK
<1>2. Same \in Calm
    BY <1>1, MoreType DEF Same, Outcomes, Calm
<1>3. \A s \in Seq(Steps) : Then(s) \in Calm /\ Then(s).more = s /\ ~Then(s).failed
    BY <1>2 DEF Then, Outcomes, Calm, Same
<1>4. r.err \in BOOLEAN /\ r.ok \in BOOLEAN /\ r.val \in Addrs
    BY DEF Results
<1>5. \A b \in BOOLEAN : Connected(b) \in {"connected", "disconnected"}
    BY DEF Connected
<1>6. Commands \subseteq Steps
    BY DEF Steps
<1>7. \A s \in Commands : Then(<<s>>) \in Calm /\ \A b \in BOOLEAN : Then(If(b, <<s>>)) \in Calm
    BY <1>3, <1>6, MoreType
<1>8. Outcome(c, r) \in Calm => Outcome(c, r) \in Outcomes /\ Tried(c, Outcome(c, r))
    BY DEF Calm, Tried
<1>9. ASSUME NEW n \in Nat, c \in {"hello", "poll"}, Outcome(c, r) = [Then(<<c>>) EXCEPT !.tries = n],
             n < IF c = "hello" THEN HelloTries ELSE PollTries
      PROVE  Outcome(c, r) \in Outcomes /\ Tried(c, Outcome(c, r))
    <2>1. /\ Outcome(c, r) \in Outcomes /\ Outcome(c, r).tries = n
          /\ Outcome(c, r).more = <<c>> /\ ~Outcome(c, r).failed
        <3> DEFINE o == Then(<<c>>)
        <3>1. o \in Calm /\ o.more = <<c>> /\ ~o.failed
            BY <1>3, <1>6, MoreType
        <3> HIDE DEF o
        <3>2. Outcome(c, r) = [o EXCEPT !.tries = n]
            BY <1>9 DEF o
        <3>3. /\ [o EXCEPT !.tries = n] \in Outcomes /\ [o EXCEPT !.tries = n].tries = n
              /\ [o EXCEPT !.tries = n].more = o.more /\ [o EXCEPT !.tries = n].failed = o.failed
            BY <3>1, CalmType
        <3>4. QED
            BY <3>1, <3>2, <3>3
    <2>2. QED
        BY <1>9, <2>1 DEF Tried
<1>10. tries \in Nat
    BY AtAssumption DEF TypeOK
<1>11. CASE c = "hello"
    <2>1. Outcome(c, r) = Shaken(r)
        BY <1>11 DEF Outcome
    <2>2. CASE r.err /\ tries + 1 < HelloTries
        BY <1>9, <1>10, <1>11, <2>1, <2>2 DEF Shaken
    <2>3. CASE ~(r.err /\ tries + 1 < HelloTries)
        BY <1>2, <1>8, <2>1, <2>3, CalmType DEF Shaken
    <2>4. QED
        BY <2>2, <2>3
<1>12. CASE c = "poll"
    <2>1. Outcome(c, r) = Polled(r) /\ <<"ip">> \in Seq(Steps)
        BY <1>6, <1>12, MoreType DEF Outcome, Commands
    <2>2. CASE r.err \/ r.ok \/ tries + 1 = PollTries
        BY <1>2, <1>3, <1>8, <2>1, <2>2, CalmType DEF Polled
    <2>3. CASE ~(r.err \/ r.ok \/ tries + 1 = PollTries)
        <3>1. tries + 1 < PollTries
            BY <1>10, <1>12, <2>3, AtAssumption DEF TriesInv
        <3>2. QED
            BY <1>9, <1>10, <1>12, <2>1, <2>3, <3>1 DEF Polled
    <2>4. QED
        BY <2>2, <2>3
<1>13. ASSUME NEW b \in BOOLEAN PROVE Found(b) \in Calm
    <2>1. /\ Then(<<>>) \in Calm /\ Then(<<"down">>) \in Calm /\ Then(<<"addr">>) \in Calm
          /\ \A x \in BOOLEAN : Then(If(x, <<"check">>)) \in Calm
        BY <1>3, <1>7, MoreType DEF Commands
    <2>2. (lease # 0) \in BOOLEAN
        OBVIOUS
    <2>3. Then(IF ~b THEN <<>> ELSE IF Starting THEN <<"down">>
               ELSE IF addr = 0 THEN <<"addr">> ELSE If(lease # 0, <<"check">>)) \in Calm
        BY <2>1, <2>2
    <2>4. QED
        BY <1>5, <2>3, CalmType DEF Found
<1>14. /\ Then(<<"acted">>) \in Calm /\ Then(<<"act">>) \in Calm /\ Then(<<"dial">>) \in Calm
       /\ Then(<<"ip">>) \in Calm /\ Then(<<"poll">>) \in Calm /\ Then(<<>>) \in Calm
       /\ \A b \in BOOLEAN : /\ Then(If(b, <<"ip">>)) \in Calm /\ Then(If(b, <<"reg">>)) \in Calm
                             /\ Then(If(b, <<"check">>)) \in Calm /\ Then(If(b, <<"down">>)) \in Calm
    BY <1>3, <1>7, MoreType DEF Commands
<1>15. Probed(r) \in Calm /\ NatKnown(r) \in Calm /\ RegistrationKnown(r) \in Calm
    <2>1. (~r.ok) \in BOOLEAN /\ (r.ok /\ r.val # 0) \in BOOLEAN
        OBVIOUS
    <2>2. QED
        BY <1>2, <1>4, <2>1, CalmType DEF Probed, NatKnown, RegistrationKnown
<1>16. OperatorKnown(r) \in Calm
    <2>1. (r.ok /\ r.val # 0) \in BOOLEAN
        OBVIOUS
    <2>2. Then(If(r.ok /\ r.val # 0, <<"reg">>)) \in Calm
        BY <1>14, <2>1
    <2>3. QED
        BY <2>2, CalmType DEF OperatorKnown
<1>17. Queried(r) \in Calm /\ ActiveKnown(r) \in Calm
    <2>1. (r.ok /\ r.val # 0) \in BOOLEAN /\ (~asr /\ r.ok /\ r.val # 0) \in BOOLEAN
        OBVIOUS
    <2>2. Found(r.ok /\ r.val # 0) \in Calm /\ Found(~asr /\ r.ok /\ r.val # 0) \in Calm
        BY <1>13, <2>1
    <2>3. [Then(<<"acted">>) EXCEPT !.status = "disconnected"] \in Calm
        BY <1>14, CalmType
    <2>4. QED
        BY <2>2, <2>3 DEF Queried, ActiveKnown
<1>18. ContextKnown(r) \in Calm /\ ContextActive(r) \in Calm
    <2>1. Then(If(~r.err, <<"ip">>)) \in Calm
        BY <1>14, <1>4
    <2>2. QED
        BY <1>14, <2>1 DEF ContextKnown, ContextActive
<1>19. Dialled(r) \in Calm
    <2>1. Then(If(~r.err, <<"ip">>)) \in Calm
        BY <1>14, <1>4
    <2>2. Then(IF asr THEN <<"ip">> ELSE <<"poll">>) \in Calm
        BY <1>14
    <2>3. QED
        BY <1>1, <2>1, <2>2, CalmType DEF Dialled
<1>20. Addressed(r) \in Calm
    <2>1. [Same EXCEPT !.addr = r.val] \in Calm
        BY <1>2, <1>4, CalmType
    <2>2. [[Same EXCEPT !.addr = r.val] EXCEPT !.status = "connected"] \in Calm
        BY <2>1, CalmType
    <2>3. QED
        BY <1>2, <2>2 DEF Addressed
<1>21. AddressFetched(r) \in Calm
    <2>1. Then(If(lease # 0, <<"check">>)) \in Calm
        BY <1>14
    <2>2. QED
        BY <1>2, <1>4, <2>1, CalmType DEF AddressFetched
<1>22. Compared(r) \in Calm
    <2> DEFINE o == Then(If(r.val # lease, <<"down">>))
               a == IF r.val = 0 THEN addr ELSE r.val
               b == r.val = lease
    <2>1. o \in Calm /\ a \in Addrs /\ Connected(b) \in {"connected", "disconnected"}
        BY <1>1, <1>4, <1>5, <1>14
    <2> HIDE DEF o, a, b
    <2>2. [[o EXCEPT !.addr = a] EXCEPT !.status = Connected(b)] \in Calm
        BY <2>1, CalmType
    <2>3. [o EXCEPT !.addr = a, !.status = Connected(b)]
            = [[o EXCEPT !.addr = a] EXCEPT !.status = Connected(b)]
        OBVIOUS
    <2>4. QED
        BY <2>2, <2>3 DEF Compared, o, a, b
<1>23. CASE c \notin {"hello", "poll"}
    <2>1. Outcome(c, r) \in Calm
        BY <1>2, <1>15, <1>16, <1>17, <1>18, <1>19, <1>20, <1>21, <1>22, <1>23 DEF Outcome
    <2>2. QED
        BY <1>8, <2>1
<1>24. QED
    BY <1>11, <1>12, <1>23

-----------------------------------------------------------------------------
\* What a command leaves behind when it ends, however it ends.
Returned ==
    /\ at' \in {"run", "failed"} /\ todo' \in Seq(Steps)
    /\ tries' \in 0..(HelloTries + PollTries) /\ TriesInv'
    /\ status' \in {"unknown", "connected", "disconnected"}
    /\ asr' \in BOOLEAN /\ attached' \in BOOLEAN /\ addr' \in Addrs
    /\ evq' \in Seq(EventKinds)
    /\ UNCHANGED <<linkVars, timeVars, sigq, watcherVars, ctl, stop, net, ip, events>>

LEMMA ReturnsType ==
    ASSUME TypeOK, TriesInv, todo # <<>>, Head(todo) \in Commands, NEW r \in Results, Returns(r)
    PROVE  Returned
<1> DEFINE o == Outcome(Head(todo), r)
<1>1. o \in Outcomes /\ Tried(Head(todo), o)
    BY OutcomeType
<1>2. /\ at' = IF o.failed THEN "failed" ELSE "run"
      /\ todo' = IF o.failed THEN <<>> ELSE o.more \o Tail(todo)
      /\ tries' = o.tries /\ status' = o.status /\ asr' = o.asr
      /\ attached' = o.attached /\ addr' = o.addr
      /\ evq' = PutIf(o.event, evq, "datacall")
      /\ UNCHANGED <<linkVars, timeVars, sigq, watcherVars, ctl, stop, net, ip, events>>
    BY DEF Returns
<1> HIDE DEF o
<1>3. /\ o.tries \in Nat /\ o.status \in {"unknown", "connected", "disconnected"}
      /\ o.asr \in BOOLEAN /\ o.attached \in BOOLEAN /\ o.addr \in Addrs /\ o.more \in Seq(Steps)
    BY <1>1 DEF Outcomes
<1>4. todo' \in Seq(Steps)
    BY <1>2, <1>3, MoreType, TodoType DEF TypeOK
<1>5. evq' \in Seq(EventKinds)
    BY <1>2, PutType DEF TypeOK, EventKinds
<1>6. tries' > 0 => /\ todo' # <<>> /\ Head(todo') = Head(todo)
                    /\ \/ Head(todo) = "hello" /\ tries' < HelloTries
                       \/ Head(todo) = "poll" /\ tries' < PollTries
    <2> SUFFICES ASSUME tries' > 0
                 PROVE  /\ todo' # <<>> /\ Head(todo') = Head(todo)
                        /\ \/ Head(todo) = "hello" /\ tries' < HelloTries
                           \/ Head(todo) = "poll" /\ tries' < PollTries
        OBVIOUS
    <2>1. /\ ~o.failed /\ o.more = <<Head(todo)>>
          /\ \/ Head(todo) = "hello" /\ o.tries < HelloTries
             \/ Head(todo) = "poll" /\ o.tries < PollTries
        BY <1>1, <1>2 DEF Tried
    <2>2. todo' = <<Head(todo)>> \o Tail(todo) /\ Tail(todo) \in Seq(Steps)
        BY <1>2, <2>1, HeadTailProperties DEF TypeOK
    <2>3. todo' # <<>> /\ Head(todo') = Head(todo)
        BY <2>2, <1>4
    <2>4. QED
        BY <1>2, <2>1, <2>3
<1>7. tries' \in 0..(HelloTries + PollTries)
    BY <1>2, <1>3, <1>6, AtAssumption
<1>8. TriesInv'
    BY <1>6 DEF TriesInv
<1>9. QED
    BY <1>2, <1>3, <1>4, <1>5, <1>7, <1>8 DEF Returned

LEMMA SendStep ==
    ASSUME TypeOK, IInv, Send
    PROVE  TypeOK' /\ IInv'
<1>1. at = "run" /\ todo # <<>> /\ Head(todo) \in Commands /\ sRsp.null /\ sRsp = Null
    BY DEF Send, IInv, WaitInv
<1>2. CASE Cannot
    <2>1. Returned /\ UNCHANGED <<callVars, pend>>
        BY <1>1, <1>2, ReturnsType, ResultType DEF Send, IInv
    <2>2. TypeOK'
        BY <2>1 DEF TypeOK, Returned, callVars, linkVars, timeVars, watcherVars, EventKinds
    <2>3. IInv'
        BY <1>1, <2>1 DEF IInv, WaitInv, SlipInv, CloseInv, Returned, callVars, watcherVars
    <2>4. QED
        BY <2>2, <2>3
<1>3. CASE ~Cannot
    <2> DEFINE old == NotOwn(pend)
               kept == IF Len(old) = MaxPend THEN Tail(old) ELSE old
               c == [cmd |-> Head(todo), kind |-> Prefix(Head(todo)), own |-> TRUE]
    <2>1. /\ at' = "waiting" /\ sRsp' = Empty /\ slipped' = (slipped /\ pend # <<>>)
          /\ pend' = Append(kept, c)
          /\ UNCHANGED <<todo, text, stateVars, linkVars, timeVars, queues, watcherVars, ctl, stop,
                         net, ip, events>>
        BY <1>3 DEF Send
    <2>2. c \in Pending /\ c.own
        BY <1>1 DEF Pending, Prefix, Prefixes
    <2>3. old \in Seq(Pending) /\ Len(old) = Len(pend) /\ Len(pend) <= MaxPend /\ Len(pend) \in Nat
        <3>1. pend \in Seq(Pending) /\ Len(pend) <= MaxPend
            BY DEF TypeOK, Pending
        <3>2. \A p \in Pending : [p EXCEPT !.own = FALSE] \in Pending
            BY DEF Pending
        <3>3. \A i \in 1..Len(pend) : [pend[i] EXCEPT !.own = FALSE] \in Pending
            BY <3>1, <3>2
        <3>4. QED
            BY <3>1, <3>3 DEF NotOwn
    <2> HIDE DEF old, c
    <2>4. /\ kept \in Seq(Pending) /\ Len(kept) < MaxPend
          /\ pend = <<>> => Len(kept) = 0
        BY <2>3, HeadTailProperties, AtAssumption
    <2> HIDE DEF kept
    <2>5. /\ pend' \in Seq(Pending) /\ Len(pend') = Len(kept) + 1 /\ pend'[Len(kept) + 1] = c
          /\ Len(pend') <= MaxPend
        BY <2>1, <2>2, <2>4, AppendProperties, AtAssumption
    <2>6. Empty \in Response /\ ~Empty.null /\ Empty.final = "none"
        BY NullType
    <2>7. slipped' \in BOOLEAN
        BY <2>1, Zenon DEF TypeOK
    <2>8. TypeOK'
        BY <2>1, <2>5, <2>6, <2>7
           DEF TypeOK, Pending, stateVars, linkVars, timeVars, queues, watcherVars
    <2>9. WaitInv' /\ TriesInv'
        BY <1>1, <2>1, <2>6 DEF IInv, WaitInv, TriesInv, stateVars
    <2>10. SlipInv'
        <3>1. CASE pend # <<>>
            <4>1. rdr = "run" /\ (~slipped' => ~slipped)
                BY <1>3, <2>1, <3>1 DEF Cannot
            <4>2. slipped'
                BY <1>1, <2>1, <3>1, <4>1 DEF IInv, SlipInv
            <4>3. QED
                BY <4>2 DEF SlipInv
        <3>2. CASE pend = <<>>
            <4>1. Len(pend') = 1 /\ \A i \in 1..Len(pend') : pend'[i].own
                BY <2>2, <2>4, <2>5, <3>2
            <4>2. QED
                BY <2>1, <2>6, <4>1 DEF SlipInv
        <3>3. QED
            BY <3>1, <3>2
    <2>11. CloseInv'
        BY <1>3, <2>1 DEF Cannot, CloseInv, watcherVars
    <2>12. QED
        BY <2>8, <2>9, <2>10, <2>11 DEF IInv
<1>4. QED
    BY <1>2, <1>3

LEMMA EndStep ==
    ASSUME TypeOK, IInv, GiveUp \/ Woken
    PROVE  TypeOK' /\ IInv'
<1>1. ~sRsp.null /\ todo # <<>> /\ Head(todo) \in Commands /\ sRsp \in Response
    BY DEF GiveUp, Woken, IInv, WaitInv, TypeOK
<1>2. /\ sRsp' = Null /\ UNCHANGED <<text, pend>> /\ \E r \in Results : Returns(r)
    <2>1. CASE GiveUp
        BY <2>1, ResultType DEF GiveUp
    <2>2. CASE Woken
        <3> DEFINE ok == sRsp.final = "ok"
                   l == IF ok THEN sRsp.line ELSE NoLine
        <3>1. ok \in BOOLEAN /\ l \in 0..NoLine
            BY <1>1, AtAssumption DEF Response, NoLine
        <3>2. Failed \in Results /\ Result(FALSE, ok, l) \in Results
            BY <3>1, ResultType
        <3>3. QED
            BY <2>2, <3>2 DEF Woken
    <2>3. QED
        BY <2>1, <2>2
<1>3. Returned
    BY <1>1, <1>2, ReturnsType DEF IInv
<1>4. slipped' \in BOOLEAN /\ (slipped => slipped')
    BY DEF GiveUp, Woken, TypeOK
<1>5. TypeOK'
    BY <1>2, <1>3, <1>4, NullType DEF TypeOK, Returned, linkVars, timeVars, watcherVars, EventKinds
<1>6. WaitInv' /\ TriesInv' /\ CloseInv'
    BY <1>2, <1>3 DEF IInv, WaitInv, CloseInv, Returned, watcherVars
<1>7. SlipInv'
    <2> SUFFICES ASSUME ~slipped', rdr = "run" PROVE pend = <<>>
        BY <1>2, <1>3, NullType DEF SlipInv, Returned, watcherVars
    <2>1. CASE sRsp.final # "none"
        BY <1>1, <1>4, <2>1 DEF IInv, SlipInv
    <2>2. CASE sRsp.final = "none"
        <3>1. Woken
            BY <2>2 DEF GiveUp
        <3>2. closed
            BY <2>2, <3>1 DEF Woken, IInv, WaitInv
        <3>3. QED
            BY <3>2 DEF IInv, CloseInv
    <2>3. QED
        BY <2>1, <2>2
<1>8. QED
    BY <1>5, <1>6, <1>7 DEF IInv

-----------------------------------------------------------------------------
\* qmi_main between its commands: the channel and the modem are left alone.
LEMMA LinkType ==
    ASSUME TypeOK, NEW l \in BOOLEAN, LinkChange(l)
    PROVE  link' \in BOOLEAN /\ lease' \in Addrs /\ addr' \in Addrs
<1>1. 0 \in Addrs /\ ip \in Addrs /\ lease \in Addrs /\ addr \in Addrs
    BY AtAssumption DEF Addrs, TypeOK
<1>2. QED
    BY <1>1 DEF LinkChange

LEMMA HandlerStep ==
    ASSUME TypeOK, IInv, Poll \/ PollTimeout \/ Handlers \/ Joined
    PROVE  TypeOK' /\ IInv'
<1>1. /\ Local /\ at' \in {"run", "joining", "exited"} /\ at \notin {"waiting", "woken"}
      /\ Handlers => todo # <<>> /\ Head(todo) \notin {"hello", "poll"}
      /\ Poll \/ PollTimeout => todo = <<>>
      /\ Joined => todo' = todo
    BY DEF Poll, PollTimeout, Handlers, Joined, Ready, Start, Check, Stop, Started, Checked,
           Unlink, Quit, Disconnected, NetworkChanged, NetworkKnown, DataCallChanged, Doing,
           Signo, Event
<1>2. tries' = tries /\ (tries = 0 \/ todo' = todo) /\ tries \in Nat
    BY <1>1, AtAssumption DEF TypeOK, IInv, TriesInv, Local
<1>3. TriesInv'
    BY <1>2 DEF IInv, TriesInv
<1>4. WaitInv' /\ SlipInv' /\ CloseInv'
    BY <1>1 DEF IInv, WaitInv, SlipInv, CloseInv, Local, callVars, modemVars, watcherVars
<1>5. /\ todo \in Seq(Steps) /\ <<>> \in Seq(Steps) /\ sigq \in Seq(Signals) /\ evq \in Seq(EventKinds)
      /\ attached \in BOOLEAN /\ wait \in BOOLEAN
      /\ sigq # <<>> => Tail(sigq) \in Seq(Signals)
      /\ evq # <<>> => Tail(evq) \in Seq(EventKinds)
    BY HeadTailProperties DEF TypeOK, Signals, EventKinds
<1>6. todo' \in Seq(Steps)
    <2>1. /\ {"signo", "event", "active", "dial", "started", "cops", "query", "checked", "down",
              "unlink", "quit", "network"} \subseteq Steps
        BY DEF Steps, Commands
    <2>2. Poll => todo' \in Seq(Steps)
        <3>1. If(sigq # <<>>, <<"signo">>) \in Seq(Steps) /\ If(evq # <<>>, <<"event">>) \in Seq(Steps)
            BY <2>1, MoreType
        <3>2. QED
            BY <3>1, ConcatProperties DEF Poll
    <2>3. Start => todo' \in Seq(Steps)
        <3> DEFINE call == IF asr THEN <<"active">> ELSE <<"dial">>
        <3>1. <<"started">> \in Seq(Steps) /\ call \in Seq(Steps)
            BY <2>1, MoreType
        <3> HIDE DEF call
        <3>2. If(status # "connected", call) \in Seq(Steps)
            BY <1>5, <3>1, Zenon DEF If
        <3>3. If(status # "connected", call) \o <<"started">> \in Seq(Steps)
            BY <3>1, <3>2, ConcatProperties
        <3>4. If(attached /\ ~wait, If(status # "connected", call) \o <<"started">>) \in Seq(Steps)
            BY <1>5, <3>3, Zenon DEF If
        <3>5. QED
            BY <1>5, <3>4, TodoType DEF Start, Signo, Doing, First, call
    <2>4. Check => todo' \in Seq(Steps)
        <3>1. /\ If(~attached, <<"cops">>) \in Seq(Steps) /\ <<"checked">> \in Seq(Steps)
              /\ If(status # "disconnected", <<"query">>) \in Seq(Steps)
            BY <1>5, <2>1 DEF If
        <3>2. If(~attached, <<"cops">>) \o If(status # "disconnected", <<"query">>) \o <<"checked">>
                \in Seq(Steps)
            BY <3>1, ConcatProperties
        <3>3. QED
            BY <1>5, <3>2, TodoType DEF Check, Signo, Doing, First
    <2>5. Stop => todo' \in Seq(Steps)
        <3>1. If(status = "connected", <<"down">>) \in Seq(Steps) /\ <<"unlink", "quit">> \in Seq(Steps)
            BY <2>1 DEF If
        <3>2. If(status = "connected", <<"down">>) \o <<"unlink", "quit">> \in Seq(Steps)
            BY <3>1, ConcatProperties
        <3>3. QED
            BY <1>5, <3>2, TodoType DEF Stop, Signo, Doing, First
    <2>6. NetworkChanged => todo' \in Seq(Steps)
        <3>1. <<"cops", "network">> \in Seq(Steps)
            BY <2>1
        <3>2. QED
            BY <1>5, <3>1, TodoType DEF NetworkChanged, Event, Doing, First
    <2>7. (Doing("ready") \/ Doing("started") \/ Doing("checked") \/ Doing("unlink")
             \/ Doing("network") \/ Doing("event")) /\ First(<<>>) => todo' \in Seq(Steps)
        BY <1>5, TodoType DEF Doing, First
    <2>8. QED
        BY <1>5, <2>2, <2>3, <2>4, <2>5, <2>6, <2>7
           DEF PollTimeout, Handlers, Joined, Ready, Started, Checked, Unlink, Quit,
               Disconnected, NetworkKnown, DataCallChanged, Event
<1>7. /\ status' = status /\ addr' \in Addrs /\ link' \in BOOLEAN /\ lease' \in Addrs
    <2>1. (IF status = "unknown" THEN link ELSE status = "connected") \in BOOLEAN
        BY DEF TypeOK
    <2>2. UNCHANGED <<addr, linkVars>> => addr' \in Addrs /\ link' \in BOOLEAN /\ lease' \in Addrs
        BY DEF TypeOK, linkVars
    <2>3. QED
        BY <2>1, <2>2, LinkType
           DEF Poll, PollTimeout, Handlers, Joined, Ready, Start, Check, Stop, Started, Checked,
               Unlink, Quit, Disconnected, NetworkChanged, NetworkKnown, DataCallChanged
<1>8. wait' \in BOOLEAN /\ alarm' \in BOOLEAN /\ ctl' \subseteq {"stop", "quit"}
    BY DEF Poll, PollTimeout, Handlers, Joined, Ready, Start, Check, Stop, Started, Checked,
           Unlink, Quit, Disconnected, NetworkChanged, NetworkKnown, DataCallChanged, TypeOK,
           timeVars
<1>9. sigq' \in Seq(Signals) /\ evq' \in Seq(EventKinds)
    <2>1. /\ Put(sigq, "CHECK") \in Seq(Signals) /\ Put(sigq, "START") \in Seq(Signals)
          /\ <<"CHECK">> \in Seq(Signals)
        <3>1. {"START", "CHECK"} \subseteq Signals
            BY DEF Signals
        <3>2. QED
            BY <1>5, <3>1, PutType
    <2>2. Start \/ Check \/ Stop => sigq' = Tail(sigq) /\ sigq # <<>>
        BY DEF Start, Check, Stop, Signo
    <2>3. Disconnected \/ NetworkChanged \/ DataCallChanged => evq' = Tail(evq) /\ evq # <<>>
        BY DEF Disconnected, NetworkChanged, DataCallChanged, Event
    <2>4. QED
        BY <1>5, <2>1, <2>2, <2>3
           DEF Poll, PollTimeout, Handlers, Joined, Ready, Start, Check, Stop, Started, Checked,
               Unlink, Quit, Disconnected, NetworkChanged, NetworkKnown, DataCallChanged, queues,
               PutIf
<1>10. TypeOK'
    BY <1>1, <1>6, <1>7, <1>8, <1>9
       DEF TypeOK, Local, callVars, watcherVars, modemVars, Signals, EventKinds
<1>11. QED
    BY <1>3, <1>4, <1>10 DEF IInv

-----------------------------------------------------------------------------
\* readerLoop: what it makes of a line.
Lines == [kind : Prefixes \cup {"sms"}, val : Addrs, final : {"none", "ok", "error"}, own : BOOLEAN]

\* A line main hears of: its response stays a response, and only a final line ends one.
Heard(l) ==
    /\ sRsp' \in Response /\ sRsp'.null = sRsp.null /\ (sRsp.null => sRsp' = sRsp)
    /\ \/ at' = at /\ sRsp'.final = sRsp.final /\ sRsp'.own = sRsp.own
       \/ at' \in {at, "woken"} /\ (at' # at => at = "waiting") /\ ~sRsp.null
          /\ l.final # "none" /\ sRsp'.final = l.final /\ sRsp'.own = l.own
    /\ evq' \in Seq(EventKinds)

LEMMA ProcessType ==
    ASSUME TypeOK, NEW l \in Lines, Process(l)
    PROVE  Heard(l)
<1> USE AtAssumption
<1>1. sRsp \in Response /\ l.val \in 0..NoLine /\ l.own \in BOOLEAN /\ l.final \in {"none", "ok", "error"}
    BY DEF TypeOK, Lines, Addrs, NoLine
<1>2. /\ WithLine(l) \in Response /\ WithLine(l).null = sRsp.null /\ WithLine(l).final = sRsp.final
      /\ WithLine(l).own = sRsp.own /\ (sRsp.null => WithLine(l) = sRsp)
    BY <1>1 DEF WithLine, Takes, Response
<1>3. evq' \in Seq(EventKinds)
    <2>1. evq \in Seq(EventKinds)
        BY DEF TypeOK, EventKinds
    <2>2. Put(evq, "datacall") \in Seq(EventKinds) /\ Put(evq, "network") \in Seq(EventKinds)
        <3>1. {"datacall", "network"} \subseteq EventKinds
            BY DEF EventKinds
        <3>2. QED
            BY <2>1, <3>1, PutType
    <2>3. QED
        BY <2>1, <2>2 DEF Process, Unsolicited, PutIf
<1>4. CASE sRsp.null \/ l.final = "none"
    BY <1>2, <1>3, <1>4 DEF Process, Heard
<1>5. CASE ~(sRsp.null \/ l.final = "none")
    <2> DEFINE w == WithLine(l)
    <2>1. sRsp' = [w EXCEPT !.final = l.final, !.own = l.own] /\ Signal
        BY <1>5 DEF Process
    <2> HIDE DEF w
    <2>2. /\ w \in Response /\ w.null = sRsp.null
        BY <1>2 DEF w
    <2>3. /\ sRsp' \in Response /\ sRsp'.null = w.null /\ sRsp'.final = l.final /\ sRsp'.own = l.own
        BY <1>1, <2>1, <2>2 DEF Response
    <2>4. at' \in {at, "woken"} /\ (at' # at => at = "waiting")
        BY <2>1 DEF Signal
    <2>5. QED
        BY <1>3, <1>5, <2>2, <2>3, <2>4 DEF Heard
<1>6. QED
    BY <1>4, <1>5

LEMMA ReceiveType ==
    ASSUME TypeOK, NEW l \in Lines, Receive(l)
    PROVE  /\ Heard(l) /\ text' \in BOOLEAN
           /\ UNCHANGED <<todo, stateVars, linkVars, timeVars, sigq, watcherVars, ctl, stop>>
<1>1. CASE l.kind = "sms"
    BY <1>1 DEF Receive, Heard, TypeOK, EventKinds
<1>2. CASE l.kind # "sms"
    <2>1. /\ WithoutFirst(l) \in Lines /\ WithoutFirst(l).own = l.own
          /\ WithoutFirst(l).final \in {"none", l.final}
        BY DEF WithoutFirst, Lines, Prefixes
    <2>2. Process(IF text THEN WithoutFirst(l) ELSE l) /\ text' = FALSE
          /\ UNCHANGED <<todo, stateVars, linkVars, timeVars, sigq, watcherVars, ctl, stop>>
        BY <1>2 DEF Receive
    <2>3. CASE text
        <3>1. Heard(WithoutFirst(l))
            BY <2>1, <2>2, <2>3, ProcessType
        <3>2. QED
            BY <2>1, <2>2, <3>1 DEF Heard
    <2>4. CASE ~text
        BY <2>2, <2>4, ProcessType
    <2>5. QED
        BY <2>3, <2>4
<1>3. QED
    BY <1>1, <1>2

\* A line the modem sends: of the command it answers, or of none.
LEMMA LineStep ==
    ASSUME TypeOK, IInv, NEW l \in Lines, Receive(l), Plugged,
           net' \in {"none", "registered"}, ip' \in Addrs, events' \in 0..MaxEvents,
           slipped' \in BOOLEAN, slipped => slipped',
           \/ /\ pend # <<>> /\ pend' = Tail(pend) /\ l.own = Head(pend).own
           \/ /\ pend' = pend /\ (l.final # "none" => slipped')
    PROVE  TypeOK' /\ IInv'
<1>1. /\ Heard(l) /\ text' \in BOOLEAN
      /\ UNCHANGED <<todo, stateVars, linkVars, timeVars, sigq, watcherVars, ctl, stop>>
    BY ReceiveType
<1>2. pend \in Seq(Pending) /\ Len(pend) <= MaxPend
    BY DEF TypeOK, Pending
<1>3. /\ pend' \in Seq(Pending) /\ Len(pend') <= MaxPend /\ Len(pend') <= Len(pend)
      /\ pend # <<>> /\ pend' = Tail(pend) => Len(pend') = Len(pend) - 1 /\ Head(pend) = pend[1]
                                              /\ 1 \in 1..Len(pend)
    BY <1>2, HeadTailProperties, AtAssumption
<1>4. at' \in {"run", "waiting", "woken", "joining", "exited", "failed"}
    BY <1>1 DEF Heard, TypeOK
<1>5. TypeOK'
    <2>1. sRsp' \in Response /\ evq' \in Seq(EventKinds)
        BY <1>1 DEF Heard
    <2>2. net' \in {"none", "registered", "unplugged"}
        OBVIOUS
    <2>3. QED
        BY <1>1, <1>3, <1>4, <2>1, <2>2
           DEF TypeOK, stateVars, linkVars, timeVars, watcherVars, Pending, EventKinds
<1>6. WaitInv'
    BY <1>1, NullType DEF IInv, WaitInv, Heard, watcherVars
<1>7. TriesInv' /\ CloseInv'
    BY <1>1 DEF IInv, TriesInv, CloseInv, stateVars, watcherVars, Plugged
<1>8. SlipInv'
    <2> SUFFICES ASSUME ~slipped' PROVE SlipInv'
        BY DEF SlipInv
    <2>1. ~slipped
        OBVIOUS
    <2>2. CASE sRsp.null
        <3>1. pend = <<>> /\ pend' = pend
            BY <2>1, <2>2 DEF IInv, SlipInv, Plugged
        <3>2. QED
            BY <1>1, <2>2, <3>1 DEF SlipInv, Heard
    <2>3. CASE ~sRsp.null
        <3>1. /\ Len(pend) <= 1 /\ \A i \in 1..Len(pend) : pend[i].own
              /\ sRsp.final # "none" => sRsp.own /\ pend = <<>>
            BY <2>1, <2>3 DEF IInv, SlipInv
        <3>2. /\ Len(pend') <= 1 /\ \A i \in 1..Len(pend') : pend'[i].own
            BY <1>2, <1>3, <3>1
        <3>3. sRsp'.final # "none" => sRsp'.own /\ pend' = <<>>
            <4>1. CASE sRsp'.final = sRsp.final /\ sRsp'.own = sRsp.own
                BY <1>3, <3>1, <4>1
            <4>2. CASE l.final # "none" /\ sRsp'.final = l.final /\ sRsp'.own = l.own
                BY <1>2, <1>3, <3>1, <4>2
            <4>3. QED
                BY <1>1, <4>1, <4>2 DEF Heard
        <3>4. QED
            BY <1>1, <2>3, <3>2, <3>3 DEF SlipInv, Heard
    <2>4. QED
        BY <2>2, <2>3
<1>9. QED
    BY <1>5, <1>6, <1>7, <1>8 DEF IInv

-----------------------------------------------------------------------------
\* The threads besides main.
LEMMA WatcherStep ==
    ASSUME TypeOK, IInv, Threads \/ Shut
    PROVE  TypeOK' /\ IInv'
<1>1. /\ Watches /\ UNCHANGED callVars
      /\ at' \in {at, "woken"} /\ (at' # at => at = "waiting" /\ closed')
      /\ closed => closed'
      /\ rdr' # rdr => rdr = "run" \/ (rdr = "shut" /\ rdr' = "gone")
    BY DEF Threads, Eof, Control, Shut, WatcherEnds, Signal
<1>2. /\ rdr' \in {"run", "shut", "gone"} /\ stopping' \in BOOLEAN /\ closed' \in BOOLEAN
      /\ ctl' \subseteq {"stop", "quit"}
    BY DEF Threads, Eof, Control, Shut, WatcherEnds, TypeOK
<1>3. evq' \in Seq(EventKinds)
    <2>1. evq \in Seq(EventKinds) /\ "gone" \in EventKinds
        BY DEF TypeOK, EventKinds
    <2>2. QED
        BY <2>1, AppendProperties DEF Threads, Eof, Control, Shut, WatcherEnds
<1>4. TypeOK'
    <2>1. at' \in {"run", "waiting", "woken", "joining", "exited", "failed"}
        BY <1>1 DEF TypeOK
    <2>2. QED
        BY <1>1, <1>2, <1>3, <2>1
           DEF TypeOK, Watches, callVars, stateVars, linkVars, timeVars, modemVars, EventKinds
<1>5. WaitInv' /\ TriesInv'
    BY <1>1 DEF IInv, WaitInv, TriesInv, Watches, callVars, stateVars
<1>6. SlipInv'
    BY <1>1 DEF IInv, SlipInv, Watches, callVars, modemVars
<1>7. CloseInv'
    <2>1. closed' => net' = "unplugged" \/ rdr' = "gone"
        BY DEF Threads, Eof, Control, Shut, WatcherEnds, Watches, modemVars, IInv, CloseInv
    <2>2. QED
        BY <1>1, <2>1 DEF IInv, CloseInv, Watches, modemVars
<1>8. QED
    BY <1>4, <1>5, <1>6, <1>7 DEF IInv

-----------------------------------------------------------------------------
LEMMA SaysType ==
    ASSUME TypeOK, NEW k
    PROVE  Says(k) \subseteq Addrs
<1>1. 0 \in Addrs /\ 1 \in Addrs /\ ip \in Addrs
    BY AtAssumption DEF Addrs, TypeOK
<1>2. QED
    BY <1>1 DEF Says, Bit

LEMMA AnswerStep ==
    ASSUME TypeOK, IInv, Answer
    PROVE  TypeOK' /\ IInv'
<1> DEFINE c == Head(pend)
<1>1. /\ Plugged /\ pend # <<>> /\ pend' = Tail(pend) /\ UNCHANGED <<slipped, net, events>>
    BY DEF Answer
<1>2. c \in Pending /\ c.kind \in Prefixes /\ c.own \in BOOLEAN
    <2>1. pend \in Seq(Pending)
        BY DEF TypeOK, Pending
    <2>2. c \in Pending
        BY <1>1, <2>1, HeadTailProperties
    <2> HIDE DEF c
    <2>3. QED
        BY <2>2 DEF Pending
<1>3. /\ net' \in {"none", "registered"} /\ events' \in 0..MaxEvents /\ slipped' \in BOOLEAN
      /\ slipped => slipped'
    BY <1>1 DEF TypeOK, Plugged
<1>4. PICK v \in Addrs, k \in Prefixes, f \in {"ok", "error"} :
        ip' \in Addrs /\ Receive([kind |-> k, val |-> v, final |-> f, own |-> c.own])
    <2>1. Says(c.kind) \subseteq Addrs /\ 0 \in Addrs /\ ip \in Addrs /\ 1..MaxAddr \subseteq Addrs
        BY SaysType, AtAssumption DEF Addrs, TypeOK
    <2>2. CASE Served(c.cmd) /\ \E v \in Says(c.kind) :
                 Receive([kind |-> c.kind, val |-> v, final |-> "ok", own |-> c.own])
        <3>1. ip' \in Addrs
            BY <2>1, <2>2 DEF Served
        <3>2. QED
            BY <1>2, <2>1, <2>2, <3>1
    <2>3. CASE UNCHANGED ip /\ Receive([kind |-> "none", val |-> 0, final |-> "error", own |-> c.own])
        <3>1. "none" \in Prefixes
            BY DEF Prefixes
        <3>2. QED
            BY <2>1, <2>3, <3>1
    <2>4. QED
        BY <2>2, <2>3 DEF Answer
<1> DEFINE l == [kind |-> k, val |-> v, final |-> f, own |-> c.own]
<1>5. l \in Lines /\ l.own = c.own
    BY <1>2, <1>4 DEF Lines
<1>6. Receive(l) /\ ip' \in Addrs
    BY <1>4
<1> HIDE DEF l
<1>7. QED
    BY <1>1, <1>3, <1>5, <1>6, LineStep

\* A line of no command: a final one has slipped.
LEMMA UnaskedStep ==
    ASSUME TypeOK, IInv, Happens, pend' = pend, NEW k \in Prefixes \cup {"sms"}, NEW v \in Addrs,
           NEW f \in {"none", "ok", "error"}, Unasked(k, v, f),
           net' \in {"none", "registered"}, ip' \in Addrs, slipped' \in BOOLEAN,
           slipped => slipped', f # "none" => slipped'
    PROVE  TypeOK' /\ IInv'
<1> DEFINE l == [kind |-> k, val |-> v, final |-> f, own |-> FALSE]
<1>1. l \in Lines /\ l.final = f
    BY DEF Lines
<1>2. Receive(l)
    BY DEF Unasked
<1> HIDE DEF l
<1>3. Plugged /\ events' \in 0..MaxEvents
    BY AtAssumption DEF Happens, TypeOK
<1>4. QED
    BY <1>1, <1>2, <1>3, LineStep

\* What happens without a line: only time, signals and the modem change.
LEMMA SilentStep ==
    ASSUME TypeOK, IInv, Outside, UNCHANGED <<text, slipped>>,
           wait' \in BOOLEAN, alarm' \in BOOLEAN, sigq' \in Seq(Signals),
           ctl' \subseteq {"stop", "quit"}, stop' \in BOOLEAN,
           net' \in {"none", "registered", "unplugged"}, ip' \in Addrs, events' \in 0..MaxEvents,
           \/ pend' = pend /\ net' = net
           \/ pend' = <<>> /\ net' = "unplugged"
    PROVE  TypeOK' /\ IInv'
<1>1. pend' \in Seq(Pending) /\ Len(pend') <= MaxPend
    <2>1. pend \in Seq(Pending) /\ Len(pend) <= MaxPend /\ <<>> \in Seq(Pending) /\ Len(<<>>) <= MaxPend
        BY AtAssumption DEF TypeOK, Pending
    <2>2. QED
        BY <2>1
<1>2. TypeOK'
    BY <1>1 DEF TypeOK, Outside, stateVars, linkVars, watcherVars, Pending, Signals
<1>3. WaitInv' /\ TriesInv'
    BY DEF IInv, WaitInv, TriesInv, Outside, stateVars, watcherVars
<1>4. SlipInv'
    <2>1. CASE pend' = pend
        BY <2>1 DEF IInv, SlipInv, Outside, watcherVars
    <2>2. CASE pend' = <<>>
        BY <2>2 DEF IInv, SlipInv, Outside, watcherVars
    <2>3. QED
        BY <2>1, <2>2
<1>5. closed => net = "unplugged" \/ rdr = "gone"
    BY DEF IInv, CloseInv
<1>6. QED
    BY <1>2, <1>3, <1>4, <1>5 DEF IInv, CloseInv, Outside, watcherVars

LEMMA EnvironmentStep ==
    ASSUME TypeOK, IInv, Environment
    PROVE  TypeOK' /\ IInv'
<1>1. /\ sigq \in Seq(Signals) /\ wait \in BOOLEAN /\ alarm \in BOOLEAN /\ stop \in BOOLEAN
      /\ ctl \subseteq {"stop", "quit"} /\ net \in {"none", "registered", "unplugged"}
      /\ ip \in Addrs /\ events \in 0..MaxEvents /\ slipped \in BOOLEAN
    BY DEF TypeOK, Signals
<1>2. 0 \in Addrs /\ 1 \in Addrs
    BY AtAssumption DEF Addrs
<1>3. CASE SignalStop \/ AlarmRings \/ DelayOver
    <2>1. Append(sigq, "STOP") \in Seq(Signals) /\ Put(sigq, "START") \in Seq(Signals)
        <3>1. {"STOP", "START"} \subseteq Signals
            BY DEF Signals
        <3>2. QED
            BY <1>1, <3>1, PutType, AppendProperties
    <2>2. /\ Outside /\ UNCHANGED <<text, slipped, net, ip, pend>>
          /\ wait' \in BOOLEAN /\ alarm' \in BOOLEAN /\ stop' \in BOOLEAN
          /\ sigq' \in Seq(Signals) /\ ctl' \subseteq {"stop", "quit"}
        BY <1>1, <1>3, <2>1 DEF SignalStop, AlarmRings, DelayOver, timeVars, modemVars
    <2>3. events' \in 0..MaxEvents
        BY <1>1, <1>3, AtAssumption DEF SignalStop, AlarmRings, DelayOver, modemVars
    <2>4. QED
        BY <1>1, <2>2, <2>3, SilentStep
<1>4. ASSUME Silent, Happens, slipped' = slipped, ip' \in Addrs,
             \/ pend' = pend /\ net' = net
             \/ pend' = <<>> /\ net' = "unplugged"
      PROVE  TypeOK' /\ IInv'
    <2>1. /\ Outside /\ UNCHANGED <<text, slipped, wait, alarm, sigq, ctl, stop>>
          /\ events' \in 0..MaxEvents /\ net' \in {"none", "registered", "unplugged"}
        BY <1>1, <1>4, AtAssumption DEF Silent, Happens, timeVars
    <2>2. QED
        BY <1>1, <1>4, <2>1, SilentStep
<1>5. CASE Answer
    BY <1>5, AnswerStep
<1>6. CASE CallChanges
    <2>1. /\ Happens /\ ip' \in Addrs /\ slipped' = slipped /\ net' = net /\ pend' = pend
          /\ net \in {"none", "registered"}
        BY <1>1, <1>6 DEF CallChanges, Happens, Plugged
    <2>2. CASE Silent
        BY <1>4, <2>1, <2>2
    <2>3. CASE \E v \in Addrs : Unasked("status", v, "none")
        <3>1. "status" \in Prefixes
            BY DEF Prefixes
        <3>2. QED
            BY <1>1, <2>1, <2>3, <3>1, UnaskedStep
    <2>4. QED
        BY <1>6, <2>2, <2>3 DEF CallChanges
<1>7. CASE NetChanges
    <2>1. /\ Happens /\ ip' \in Addrs /\ UNCHANGED <<slipped, pend>> /\ net' \in {"none", "registered"}
        BY <1>2, <1>7 DEF NetChanges
    <2>2. Bit(net = "none") \in Addrs /\ "creg" \in Prefixes
        BY <1>2 DEF Bit, Prefixes
    <2>3. Unasked("creg", Bit(net = "none"), "none")
        BY <1>7 DEF NetChanges
    <2>4. QED
        BY <1>1, <2>1, <2>2, <2>3, UnaskedStep
<1>8. CASE Interjects
    <2>1. Happens /\ UNCHANGED <<net, ip, pend>> /\ net \in {"none", "registered"}
        BY <1>1, <1>8 DEF Interjects, Happens, Plugged
    <2>2. CASE Unasked("sms", 0, "none") /\ UNCHANGED slipped
        BY <1>1, <1>2, <2>1, <2>2, UnaskedStep
    <2>3. CASE slipped' = TRUE /\ \E f \in {"ok", "error"} : Unasked("none", 0, f)
        <3>1. "none" \in Prefixes
            BY DEF Prefixes
        <3>2. QED
            BY <1>1, <1>2, <2>1, <2>3, <3>1, UnaskedStep
    <2>4. QED
        BY <1>8, <2>2, <2>3 DEF Interjects
<1>9. CASE Unplug
    BY <1>2, <1>4, <1>9 DEF Unplug
<1>10. QED
    BY <1>3, <1>5, <1>6, <1>7, <1>8, <1>9 DEF Environment

LEMMA StepInv == TypeOK /\ IInv /\ [Next]_vars => (TypeOK /\ IInv)'
<1> SUFFICES ASSUME TypeOK, IInv, [Next]_vars PROVE TypeOK' /\ IInv'
    OBVIOUS
<1>1. CASE UNCHANGED vars
    <2>1. TypeOK'
        BY <1>1 DEF TypeOK, vars, callVars, stateVars, linkVars, timeVars, queues, watcherVars,
                    modemVars
    <2>2. IInv'
        BY <1>1 DEF vars, callVars, stateVars, watcherVars, modemVars,
                    IInv, WaitInv, TriesInv, SlipInv, CloseInv
    <2>3. QED
        BY <2>1, <2>2
<1>2. QED
    BY <1>1, SendStep, EndStep, HandlerStep, WatcherStep, EnvironmentStep DEF Next, Main

-----------------------------------------------------------------------------
LEMMA Inductive == Spec => [](TypeOK /\ IInv)
  BY InitInv, StepInv, PTL DEF Spec

\* The variables of the connection manager over AT commands, of its threads and of the
\* modem keep their types and bounds; in particular no count of tries passes its limit.
THEOREM TypeCorrect == Spec => []TypeOK
  BY Inductive, PTL

\* at_send_command_full_nolock is ended by the final line of its own command, though
\* lines carry no id, unless an earlier command gave up first, or a final line came
\* unasked, and the modem still had commands to answer ever since.
THEOREM FinalsOwn == Spec => []OwnFinal
<1>1. TypeOK /\ IInv => OwnFinal
    <2> SUFFICES ASSUME IInv, ~slipped, sRsp.final # "none" PROVE sRsp.own
        BY DEF OwnFinal
    <2>1. ~sRsp.null
        BY NullType DEF IInv, WaitInv
    <2>2. QED
        BY <2>1 DEF IInv, SlipInv
<1>2. QED
    BY <1>1, Inductive, PTL
=============================================================================
