---------------------------- MODULE CmMainProofs ----------------------------
(***************************************************************************)
(* Proofs about CmMain, for every set of addresses and every bound: its     *)
(* types, that the interface has the address of the call it is up for, and  *)
(* that SIGTERM leaves no call up.  The last two need what the theorems'    *)
(* hypotheses say of the modem.                                             *)
(***************************************************************************)
EXTENDS CmMain, SequenceTheorems, TLAPS

\* poll has reported only what is still to be read.
ReadyInv ==
    /\ "signo" \in ready => sigq # <<>>
    /\ "event" \in ready => evq # <<>>

\* A call has an address and a modem that serves; a good handle has a call.
CallInv == \A f \in Families :
    /\ fam[f].handle = "good" => fam[f].up
    /\ fam[f].up => Serves
    /\ fam[f].up /\ f = 4 => fam[f].ip # 0

\* What a round begins with, and what the events that end one say.
InRound == phase \in {"init", "loop"}
RoundInv ==
    /\ phase = "init" => \A f \in Families : ~fam[f].up
    /\ InRound => \A i \in 1..Len(evq) : evq[i] \in {"disconnected", "reset"} => ~Serves

\* Only the loop has the interface up; down, it has no address.
LinkInv ==
    /\ link # {} => phase = "loop"
    /\ link = {} => conf = 0

IInv == ReadyInv /\ CallInv /\ RoundInv /\ LinkInv

\* While requests are carried out: the interface is up for connected calls only, with
\* the IPv4 call's address in the profile; a connected IPv4 call has one, unless it was
\* set up behind the program's back, and then the interface has none either.
AddressInv == InRound /\ Serves /\ ~Aborts /\ 4 \in Families =>
    /\ fam[4].status = "unknown" => conf = 0
    /\ fam[4].status = "connected" => fam[4].addr # 0 \/ (fam[4].handle = "none" /\ conf = 0)
    /\ 4 \in link => fam[4].status = "connected" /\ conf = fam[4].addr

\* In the loop a call the program has a handle of is connected, so that STOP takes it
\* down; after the loop there is none.
HandleInv == \A f \in Families : fam[f].up /\ fam[f].handle = "good" =>
    /\ phase = "loop" => fam[f].status = "connected"
    /\ phase \notin {"quit", "exited"}

-----------------------------------------------------------------------------
(***************************************************************************)
(* The record of a family, and what the requests make of it.               *)
(***************************************************************************)
Sound(f, r) ==
    /\ r \in Family
    /\ r.handle = "good" => r.up
    /\ r.up => Serves
    /\ r.up /\ f = 4 => r.ip # 0

LEMMA FamilyFields ==
    ASSUME NEW r \in Family
    PROVE  /\ r.status \in {"unknown", "connected", "disconnected"}
           /\ r.handle \in {"none", "good", "kept", "stale"} /\ r.up \in BOOLEAN
           /\ r.ip \in Addrs \cup {0} /\ r.addr \in Addrs \cup {0}
  BY DEF Family

\* What replacing a field leaves of the record of a family.
LEMMA SetStatus ==
    ASSUME NEW r \in Family, NEW s \in {"unknown", "connected", "disconnected"},
           NEW x, x = [r EXCEPT !.status = s]
    PROVE  /\ x \in Family /\ x.status = s /\ x.handle = r.handle /\ x.up = r.up
           /\ x.ip = r.ip /\ x.addr = r.addr
  BY DEF Family

LEMMA SetHandle ==
    ASSUME NEW r \in Family, NEW h \in {"none", "good", "kept", "stale"},
           NEW x, x = [r EXCEPT !.handle = h]
    PROVE  /\ x \in Family /\ x.status = r.status /\ x.handle = h /\ x.up = r.up
           /\ x.ip = r.ip /\ x.addr = r.addr
  BY DEF Family

LEMMA SetAddr ==
    ASSUME NEW r \in Family, NEW a \in Addrs \cup {0}, NEW x, x = [r EXCEPT !.addr = a]
    PROVE  /\ x \in Family /\ x.status = r.status /\ x.handle = r.handle /\ x.up = r.up
           /\ x.ip = r.ip /\ x.addr = a
  BY DEF Family

LEMMA EndedFacts ==
    ASSUME NEW r \in Family
    PROVE  /\ Ended(r) \in Family /\ ~Ended(r).up /\ Ended(r).status = r.status
           /\ Ended(r).addr = r.addr /\ Ended(r).handle = IF r.handle = "none" THEN "none" ELSE "stale"
           /\ \A f : Sound(f, Ended(r))
<1>1. /\ Ended(r) \in Family /\ ~Ended(r).up /\ Ended(r).status = r.status
      /\ Ended(r).addr = r.addr /\ Ended(r).handle = IF r.handle = "none" THEN "none" ELSE "stale"
    BY DEF Ended, Family
<1>2. QED
    BY <1>1 DEF Sound

LEMMA DialledFacts ==
    ASSUME NEW f \in Families, NEW r, Sound(f, r), NEW c \in Dialled(f, r)
    PROVE  /\ Sound(f, c) /\ c.up /\ c.status = r.status /\ c.addr = r.addr /\ c.handle = r.handle
<1>1. r \in Family /\ reg /\ Serves
    BY DEF Dialled, When, Sound
<1>2. CASE r.up
    BY <1>1, <1>2 DEF Dialled, When
<1>3. CASE ~r.up
    <2>1. PICK a \in IF f = 4 THEN Addrs ELSE {0} : c = [r EXCEPT !.up = TRUE, !.ip = a]
        BY <1>1, <1>3 DEF Dialled, When
    <2>2. a \in Addrs \cup {0} /\ (f = 4 => a # 0)
        BY ConstantsAssumption
    <2>3. /\ c \in Family /\ c.status = r.status /\ c.handle = r.handle /\ c.up = TRUE
          /\ c.ip = a /\ c.addr = r.addr
        <3>1. r \in Family /\ a \in Addrs \cup {0} /\ c = [r EXCEPT !.up = TRUE, !.ip = a]
            BY <1>1, <2>1, <2>2
        <3>2. QED
            BY <3>1 DEF Family
    <2>4. QED
        BY <1>1, <2>2, <2>3 DEF Sound
<1>4. QED
    BY <1>2, <1>3 DEF Sound, Family

LEMMA ResultFields == \A e, r : Result(e, r).err = e /\ Result(e, r).fam = r
  BY DEF Result

\* The set-up of a call.
IsSetup(f, r, o) ==
    /\ o.err \in {0, 1} /\ Sound(f, o.fam)
    /\ o.fam.status = r.status /\ o.fam.addr = r.addr
    /\ o.err = 1 => o.fam.handle = r.handle
    /\ o.err = 0 => Aborts \/ o.fam.handle = "good"

LEMMA SetupFacts ==
    ASSUME NEW f \in Families, NEW r, Sound(f, r), NEW o \in Setup(f, r)
    PROVE  IsSetup(f, r, o)
<1>1. ASSUME NEW c, c = r \/ c \in Dialled(f, r)
      PROVE  /\ Sound(f, c) /\ c.status = r.status /\ c.addr = r.addr /\ c.handle = r.handle
             /\ c # r => c.up
    BY <1>1, DialledFacts
<1>2. CASE \E c \in Dialled(f, r) : o = Result(0, [c EXCEPT !.handle = "good"])
    <2>1. PICK c \in Dialled(f, r) : o = Result(0, [c EXCEPT !.handle = "good"])
        BY <1>2
    <2>2. Sound(f, c) /\ c.up /\ c.status = r.status /\ c.addr = r.addr /\ c \in Family
        BY DialledFacts DEF Sound
    <2> DEFINE x == [c EXCEPT !.handle = "good"]
    <2>3. /\ x \in Family /\ x.status = c.status /\ x.handle = "good" /\ x.up = c.up
          /\ x.ip = c.ip /\ x.addr = c.addr
        BY <2>2, SetHandle
    <2>4. o.err = 0 /\ o.fam = x
        BY <2>1, ResultFields
    <2> HIDE DEF x
    <2>5. Sound(f, x)
        BY <2>2, <2>3 DEF Sound
    <2>6. QED
        BY <2>2, <2>3, <2>4, <2>5 DEF IsSetup
<1>3. CASE \E c : (c = r \/ c \in Dialled(f, r)) /\ o = Result(1, c)
    BY <1>1, <1>3, ResultFields DEF IsSetup
<1>4. CASE Aborts /\ \E c : (c = r \/ c \in Dialled(f, r)) /\ o = Result(0, c)
    BY <1>1, <1>4, ResultFields DEF IsSetup
<1>5. QED
    BY <1>2, <1>3, <1>4 DEF Setup, When

\* Asking for the address.
IsAddress(f, r, i) ==
    /\ i.err \in {0, 1} /\ Sound(f, i.fam)
    /\ i.fam.status = r.status /\ i.fam.handle = r.handle /\ i.fam.up = r.up
    /\ r.handle = "none" => i.err = 0 /\ i.fam.addr = 0
    /\ i.err = 0 => Aborts \/ r.handle = "none" \/ (r.up /\ i.fam.addr = r.ip)
    /\ r.handle = "good" => Fault("noip") \/ i.err = 0

LEMMA AddressFacts ==
    ASSUME NEW f \in Families, NEW r, Sound(f, r), NEW i \in GetIP(r)
    PROVE  IsAddress(f, r, i)
<1> DEFINE z == [r EXCEPT !.addr = 0]
           y == [r EXCEPT !.addr = r.ip]
<1>1. r \in Family
    BY DEF Sound
<1>2. /\ z \in Family /\ z.status = r.status /\ z.handle = r.handle /\ z.up = r.up
      /\ z.ip = r.ip /\ z.addr = 0
    BY <1>1, SetAddr
<1>3. /\ y \in Family /\ y.status = r.status /\ y.handle = r.handle /\ y.up = r.up
      /\ y.ip = r.ip /\ y.addr = r.ip
    <2>1. r.ip \in Addrs \cup {0}
        BY <1>1, FamilyFields
    <2>2. QED
        BY <1>1, <2>1, SetAddr
<1>4. \/ i = Result(0, z) /\ (r.handle = "none" \/ Aborts)
      \/ r.handle # "none" /\ Serves /\ i = Result(0, y) /\ r.up
      \/ r.handle # "none" /\ i = Result(1, z) /\ (~r.up \/ Fault("noip") \/ ~Serves)
    BY DEF GetIP, When
<1> HIDE DEF z, y
<1>5. Sound(f, z) /\ Sound(f, y)
    BY <1>2, <1>3 DEF Sound
<1>6. CASE i = Result(0, z) /\ (r.handle = "none" \/ Aborts)
    BY <1>2, <1>5, <1>6, ResultFields DEF IsAddress
<1>7. CASE r.handle # "none" /\ Serves /\ i = Result(0, y) /\ r.up
    BY <1>3, <1>5, <1>7, ResultFields DEF IsAddress
<1>8. CASE r.handle # "none" /\ i = Result(1, z) /\ (~r.up \/ Fault("noip") \/ ~Serves)
    BY <1>2, <1>5, <1>8, ResultFields DEF IsAddress, Sound
<1>9. QED
    BY <1>4, <1>6, <1>7, <1>8

\* Asking for the status.
LEMMA DroppedFacts ==
    ASSUME NEW r \in Family
    PROVE  /\ Dropped(r) \in Family /\ Dropped(r).status = "disconnected"
           /\ Dropped(r).handle = "none" /\ Dropped(r).up = r.up /\ Dropped(r).ip = r.ip
  BY DEF Dropped, Family

IsQuery(f, r, q) ==
    /\ q.err \in {0, 1} /\ Sound(f, q.fam)
    /\ q.err = 1 => q.fam = r /\ (~Serves \/ Fault("noquery"))
    /\ q.err = 0 => \/ q.fam.status = "disconnected" /\ q.fam.handle = "none"
                    \/ /\ q.fam.status = "connected" /\ q.fam.handle = r.handle
                       /\ q.fam.addr = r.addr /\ q.fam.up
                    \/ Aborts /\ q.fam = r

LEMMA QueryFacts ==
    ASSUME NEW f \in Families, NEW r, Sound(f, r), NEW q \in Query(r)
    PROVE  IsQuery(f, r, q)
<1> DEFINE x == [r EXCEPT !.status = "connected"]
<1>1. r \in Family
    BY DEF Sound
<1>2. /\ x \in Family /\ x.status = "connected" /\ x.handle = r.handle /\ x.up = r.up
      /\ x.ip = r.ip /\ x.addr = r.addr
    BY <1>1, SetStatus
<1>3. \/ q = Result(0, x) /\ r.up
      \/ q = Result(0, Dropped(r))
      \/ q = Result(1, r) /\ (~Serves \/ Fault("noquery"))
      \/ q = Result(0, r) /\ Aborts
    BY DEF Query, When
<1> HIDE DEF x
<1>4. Sound(f, x) /\ Sound(f, Dropped(r))
    BY <1>1, <1>2, DroppedFacts DEF Sound
<1>5. QED
    BY <1>1, <1>2, <1>3, <1>4, DroppedFacts, ResultFields DEF IsQuery

LEMMA OffFacts ==
    ASSUME NEW f, NEW r, Sound(f, r)
    PROVE  /\ Sound(f, Off(r)) /\ Off(r).status = "disconnected" /\ Off(r).handle = r.handle
           /\ Off(r).up = r.up
<1> DEFINE x == [r EXCEPT !.status = "disconnected"]
<1>1. /\ x \in Family /\ x.status = "disconnected" /\ x.handle = r.handle /\ x.up = r.up
      /\ x.ip = r.ip
    BY SetStatus DEF Sound
<1>2. Off(r) = x
    BY DEF Off
<1> HIDE DEF x
<1>3. QED
    BY <1>1, <1>2 DEF Sound

\* Taking a call down leaves none the program has a handle of, or has failed.
LEMMA DeactivateFacts ==
    ASSUME NEW f, NEW r, Sound(f, r), NEW d \in Deactivate(r)
    PROVE  Sound(f, d) /\ ~(d.up /\ d.handle = "good")
<1>1. r \in Family
    BY DEF Sound
<1>2. CASE d = r /\ (~Serves \/ r.handle \notin {"good", "kept"})
    BY <1>2 DEF Sound
<1>20. CASE d = [r EXCEPT !.handle = "kept"]
    <2>1. d \in Family /\ d.handle = "kept" /\ d.up = r.up /\ d.ip = r.ip
        BY <1>1, <1>20, SetHandle
    <2>2. QED
        BY <2>1 DEF Sound
<1>3. CASE d = Ended(r)
    BY <1>1, <1>3, EndedFacts
<1>4. CASE d = [Ended(r) EXCEPT !.handle = "none"]
    <2>1. d \in Family /\ d.handle = "none" /\ ~d.up
        <3> DEFINE e == Ended(r)
        <3>1. e \in Family /\ ~e.up
            BY <1>1, EndedFacts
        <3> HIDE DEF e
        <3>2. d = [e EXCEPT !.handle = "none"]
            BY <1>4 DEF e
        <3>3. QED
            BY <3>1, <3>2, SetHandle
    <2>2. QED
        BY <2>1 DEF Sound
<1>5. QED
    BY <1>2, <1>20, <1>3, <1>4 DEF Deactivate, When

-----------------------------------------------------------------------------
(***************************************************************************)
(* What the handlers make of a family.                                     *)
(***************************************************************************)
LEMMA AttemptsFacts ==
    ASSUME NEW f \in Families, NEW r, Sound(f, r), NEW o \in Attempts(f, r)
    PROVE  IsSetup(f, r, o)
<1>1. CASE o \in Setup(f, r)
    BY <1>1, SetupFacts
<1>2. CASE \E p \in Setup(f, r) : p.err # 0 /\ o \in Setup(f, p.fam)
    <2>1. PICK p \in Setup(f, r) : p.err # 0 /\ o \in Setup(f, p.fam)
        BY <1>2
    <2>2. IsSetup(f, r, p)
        BY SetupFacts
    <2>3. IsSetup(f, p.fam, o)
        BY <2>1, <2>2, SetupFacts DEF IsSetup
    <2>4. QED
        BY <2>1, <2>2, <2>3 DEF IsSetup
<1>3. QED
    BY <1>1, <1>2 DEF Attempts, When

\* START leaves a connected family alone; a call it takes for connected has an address
\* unless requests are aborted, and one it sets up and has a handle of it takes for
\* connected unless asking for the address fails.
IsStarted(f, r, o) ==
    /\ Sound(f, o)
    /\ r.status = "connected" => o = r
    /\ o.status \in {r.status, "connected"}
    /\ o.status = "connected" /\ r.status # "connected" /\ f = 4 => Aborts \/ o.addr # 0
    /\ ~Fault("noip") /\ o.up /\ o.handle = "good" =>
         o.status = "connected" \/ (r.up /\ r.handle = "good")

LEMMA StartedFacts ==
    ASSUME NEW f \in Families, NEW r, Sound(f, r), NEW o \in Started(f, r)
    PROVE  IsStarted(f, r, o)
<1>1. CASE r.status = "connected"
    BY <1>1 DEF Started, IsStarted
<1>2. CASE r.status # "connected"
    <2>1. PICK s \in Attempts(f, r) :
            o \in IF s.err = 0 THEN {Addressed(i) : i \in GetIP(s.fam)} ELSE {s.fam}
        BY <1>2 DEF Started
    <2>2. IsSetup(f, r, s)
        BY AttemptsFacts
    <2>3. CASE s.err # 0
        <3>1. o = s.fam /\ s.fam.handle = r.handle
            BY <2>1, <2>2, <2>3 DEF IsSetup
        <3>2. r.handle = "good" => r.up
            BY DEF Sound
        <3>3. QED
            BY <1>2, <2>2, <3>1, <3>2 DEF IsSetup, IsStarted
    <2>4. CASE s.err = 0
        <3>1. PICK i \in GetIP(s.fam) : o = Addressed(i)
            BY <2>1, <2>4
        <3>2. Sound(f, s.fam)
            BY <2>2 DEF IsSetup
        <3>3. IsAddress(f, s.fam, i)
            BY <3>2, AddressFacts
        <3>4. CASE i.err # 0
            <4>1. o = i.fam
                BY <3>1, <3>4 DEF Addressed
            <4>2. s.fam.handle # "good" \/ Fault("noip")
                BY <3>3, <3>4 DEF IsAddress
            <4>3. QED
                BY <1>2, <2>2, <3>3, <4>1, <4>2 DEF IsSetup, IsAddress, IsStarted
        <3>5. CASE i.err = 0
            <4>1. o = [i.fam EXCEPT !.status = "connected"] /\ i.fam \in Family
                BY <3>1, <3>3, <3>5 DEF Addressed, IsAddress, Sound
            <4>2. /\ o \in Family /\ o.status = "connected" /\ o.handle = i.fam.handle
                  /\ o.up = i.fam.up /\ o.ip = i.fam.ip /\ o.addr = i.fam.addr
                BY <4>1, SetStatus
            <4>3. Sound(f, o)
                BY <3>3, <4>2 DEF IsAddress, Sound
            <4>4. Aborts \/ f # 4 \/ o.addr # 0
                BY <2>2, <2>4, <3>2, <3>3, <3>5, <4>2 DEF IsSetup, IsAddress, Sound
            <4>5. QED
                BY <1>2, <4>2, <4>3, <4>4 DEF IsStarted
        <3>6. QED
            BY <3>4, <3>5
    <2>5. QED
        BY <2>3, <2>4
<1>3. QED
    BY <1>1, <1>2

\* CHECK: while it can ask, it knows the state of a family afterwards; a connected IPv4
\* call has kept its address, or it has got one now or has none it can ask for.
Knows(f) == Serves /\ ~Aborts /\ (Fault("noquery") => f = 4)

Held(r) == r.up /\ r.handle = "good" => r.status = "connected"

IsChecked(f, r, o) ==
    /\ Sound(f, o)
    /\ r.status = "disconnected" => o = r
    /\ Knows(f) => o.status \in {"connected", "disconnected"}
    /\ Knows(f) /\ f = 4 /\ o.status = "connected" =>
         /\ r.addr # 0 => o.addr = r.addr
         /\ o.addr = 0 <=> r.handle = "none" /\ r.addr = 0
         /\ o.handle = r.handle
    /\ ~Fault("noip") /\ ~Fault("noquery") /\ Held(r) => Held(o)

\* check_ipv4_address.
LEMMA ComparedFacts ==
    ASSUME NEW f \in Families, NEW r, Sound(f, r), NEW o \in AddressChecked(r)
    PROVE  /\ Sound(f, o)
           /\ \/ o.status = r.status /\ o.handle = r.handle /\ o.addr = r.addr
              \/ o.status = "disconnected" /\ ~(o.up /\ o.handle = "good")
<1>1. PICK i \in GetIP(r) : o \in IF i.err = 0 /\ i.fam.addr = r.addr THEN {i.fam}
                                  ELSE {Off(d) : d \in Deactivate(i.fam)}
    BY DEF AddressChecked
<1>2. IsAddress(f, r, i)
    BY AddressFacts
<1>3. CASE i.err = 0 /\ i.fam.addr = r.addr
    BY <1>1, <1>2, <1>3 DEF IsAddress
<1>4. CASE ~(i.err = 0 /\ i.fam.addr = r.addr)
    <2>1. PICK d \in Deactivate(i.fam) : o = Off(d)
        BY <1>1, <1>4
    <2>2. Sound(f, d) /\ ~(d.up /\ d.handle = "good")
        BY <1>2, DeactivateFacts DEF IsAddress
    <2>3. QED
        BY <2>1, <2>2, OffFacts
<1>5. QED
    BY <1>3, <1>4

LEMMA CheckedFourFacts ==
    ASSUME NEW f \in Families, f = 4, NEW r, Sound(f, r), NEW q, IsQuery(f, r, q),
           r.status # "disconnected", NEW o \in Checked4(q)
    PROVE  IsChecked(f, r, o)
<1>1. Sound(f, q.fam) /\ q.fam \in Family /\ q.err \in {0, 1}
    BY DEF IsQuery, Sound
<1>2. ~Fault("noip") /\ ~Fault("noquery") /\ Held(r) => Held(q.fam) \/ (q.err = 1 /\ ~q.fam.up)
    BY DEF IsQuery, Held, Sound
<1>3. CASE q.err # 0
    <2>1. o = Off(q.fam)
        BY <1>3 DEF Checked4
    <2>2. /\ Sound(f, o) /\ o.status = "disconnected" /\ o.handle = q.fam.handle /\ o.up = q.fam.up
        BY <1>1, <2>1, OffFacts
    <2>3. ~Fault("noquery") => ~q.fam.up
        BY <1>1, <1>3 DEF IsQuery, Sound
    <2>4. QED
        BY <2>2, <2>3 DEF IsChecked, Held
<1>4. CASE q.err = 0 /\ q.fam.status # "connected"
    <2>1. o = q.fam
        BY <1>4 DEF Checked4
    <2>2. QED
        BY <1>1, <1>2, <1>4, <2>1 DEF IsQuery, IsChecked, Knows
<1>5. CASE q.err = 0 /\ q.fam.status = "connected"
    <2>1. /\ q.fam.handle = r.handle /\ q.fam.addr = r.addr
          /\ Aborts \/ q.fam.up
        BY <1>5 DEF IsQuery
    <2>2. PICK i \in IF q.fam.addr = 0 THEN GetIP(q.fam) ELSE {q} :
            o \in IF i.err = 0 THEN AddressChecked(i.fam) ELSE {Off(i.fam)}
        BY <1>5 DEF Checked4
    <2>3. /\ Sound(f, i.fam) /\ i.fam.status = "connected" /\ i.fam.handle = r.handle
          /\ i.fam.up = q.fam.up
          /\ r.addr # 0 => i.fam.addr = r.addr /\ i.err = 0
          /\ i.err # 0 /\ r.handle = "good" => Fault("noip")
          /\ i.err = 0 /\ i.fam.addr = 0 => Aborts \/ r.handle = "none"
          /\ r.addr = 0 /\ r.handle = "none" => i.fam.addr = 0
        <3>1. CASE q.fam.addr = 0
            <4>1. IsAddress(f, q.fam, i)
                BY <1>1, <2>2, <3>1, AddressFacts
            <4>2. QED
                BY <1>1, <1>5, <2>1, <3>1, <4>1 DEF IsAddress, Sound
        <3>2. CASE q.fam.addr # 0
            BY <1>1, <1>5, <2>1, <2>2, <3>2
        <3>3. QED
            BY <3>1, <3>2
    <2>4. CASE i.err # 0
        <3>1. o = Off(i.fam)
            BY <2>2, <2>4
        <3>2. Sound(f, o) /\ o.status = "disconnected" /\ o.handle = r.handle
            BY <2>3, <3>1, OffFacts
        <3>3. QED
            BY <2>3, <2>4, <3>2 DEF IsChecked, Held
    <2>5. CASE i.err = 0
        <3>1. o \in AddressChecked(i.fam)
            BY <2>2, <2>5
        <3>2. /\ Sound(f, o)
              /\ \/ o.status = "connected" /\ o.handle = r.handle /\ o.addr = i.fam.addr
                 \/ o.status = "disconnected" /\ ~(o.up /\ o.handle = "good")
            BY <2>3, <3>1, ComparedFacts
        <3>3. QED
            BY <2>3, <2>5, <3>2 DEF IsChecked, Held, Knows
    <2>6. QED
        BY <2>4, <2>5
<1>6. QED
    BY <1>1, <1>3, <1>4, <1>5

LEMMA CheckedFacts ==
    ASSUME NEW f \in Families, NEW r, Sound(f, r), NEW o \in Checked(f, r)
    PROVE  IsChecked(f, r, o)
<1>1. CASE r.status = "disconnected"
    BY <1>1 DEF Checked, IsChecked
<1>2. CASE r.status # "disconnected"
    <2>1. PICK q \in Query(r) : o \in IF f = 4 THEN Checked4(q) ELSE {q.fam}
        BY <1>2 DEF Checked
    <2>2. IsQuery(f, r, q)
        BY QueryFacts
    <2>3. CASE f = 4
        BY <1>2, <2>1, <2>2, <2>3, CheckedFourFacts
    <2>4. CASE f # 4
        <3>1. o = q.fam /\ Sound(f, o)
            BY <2>1, <2>2, <2>4 DEF IsQuery
        <3>2. Knows(f) => o.status \in {"connected", "disconnected"}
            BY <2>2, <2>4, <3>1 DEF IsQuery, Knows
        <3>3. ~Fault("noip") /\ ~Fault("noquery") /\ Held(r) => Held(o)
            BY <2>2, <3>1 DEF IsQuery, Held, Sound
        <3>4. QED
            BY <1>2, <2>4, <3>1, <3>2, <3>3 DEF IsChecked
    <2>5. QED
        BY <2>3, <2>4
<1>3. QED
    BY <1>1, <1>2

\* STOP.
LEMMA HungUpFacts ==
    ASSUME NEW f \in Families, NEW r, Sound(f, r), NEW o \in HungUp(f, r)
    PROVE  Sound(f, o) /\ (Held(r) => ~(o.up /\ o.handle = "good"))
<1>1. CASE r.status = "connected"
    BY <1>1, DeactivateFacts DEF HungUp
<1>2. CASE r.status # "connected"
    BY <1>2 DEF HungUp, Held
<1>3. QED
    BY <1>1, <1>2

-----------------------------------------------------------------------------
(***************************************************************************)
(* Types, and the part of the invariant that needs no hypothesis.          *)
(***************************************************************************)
LEMMA FamiliesSound ==
    ASSUME TypeOK, CallInv
    PROVE  /\ fam \in [Families -> Family]
           /\ \A f \in Families : Sound(f, fam[f])
  BY DEF TypeOK, CallInv, Sound

\* All families after a step that leaves the modem serving or not as it was.
AllSound(F) == F = [f \in Families |-> F[f]] /\ \A f \in Families : Sound(f, F[f])

LEMMA SoundStep ==
    ASSUME AllSound(fam'), modem' = modem
    PROVE  fam' \in [Families -> Family] /\ CallInv'
<1>1. \A f \in Families : Sound(f, fam'[f])
    BY DEF AllSound
<1>2. \A f \in Families : fam'[f] \in Family
    BY <1>1 DEF Sound
<1>3. fam' \in [Families -> Family]
    BY <1>2 DEF AllSound
<1>4. CallInv'
    BY <1>1 DEF CallInv, Sound, Serves
<1>5. QED
    BY <1>3, <1>4

LEMMA ChoicesStarted ==
    ASSUME TypeOK, CallInv, NEW F \in Choices(Started)
    PROVE  AllSound(F) /\ \A f \in Families : IsStarted(f, fam[f], F[f])
<1>1. /\ F = [f \in Families |-> F[f]]
      /\ \A f \in Families : F[f] \in Started(f, fam[f])
    BY ConstantsAssumption DEF Choices
<1>2. \A f \in Families : IsStarted(f, fam[f], F[f])
    BY <1>1, FamiliesSound, StartedFacts
<1>3. QED
    BY <1>1, <1>2 DEF AllSound, IsStarted

LEMMA ChoicesChecked ==
    ASSUME TypeOK, CallInv, NEW F \in Choices(Checked)
    PROVE  AllSound(F) /\ \A f \in Families : IsChecked(f, fam[f], F[f])
<1>1. /\ F = [f \in Families |-> F[f]]
      /\ \A f \in Families : F[f] \in Checked(f, fam[f])
    BY ConstantsAssumption DEF Choices
<1>2. \A f \in Families : IsChecked(f, fam[f], F[f])
    BY <1>1, FamiliesSound, CheckedFacts
<1>3. QED
    BY <1>1, <1>2 DEF AllSound, IsChecked

LEMMA ChoicesHungUp ==
    ASSUME TypeOK, CallInv, NEW F \in Choices(HungUp)
    PROVE  /\ AllSound(F)
           /\ \A f \in Families : Held(fam[f]) => ~(F[f].up /\ F[f].handle = "good")
<1>1. /\ F = [f \in Families |-> F[f]]
      /\ \A f \in Families : F[f] \in HungUp(f, fam[f])
    BY ConstantsAssumption DEF Choices
<1>2. \A f \in Families : Sound(f, F[f]) /\ (Held(fam[f]) => ~(F[f].up /\ F[f].handle = "good"))
    BY <1>1, FamiliesSound, HungUpFacts
<1>3. QED
    BY <1>1, <1>2 DEF AllSound

\* usbnet_link_change clears the address of a family the link goes down for, and no more.
LEMMA LinkStep ==
    ASSUME TypeOK, LinkInv, NEW l \in SUBSET Families, NEW F, AllSound(F), LinkChange(l, F)
    PROVE  /\ link' = l /\ conf' \in Addrs \cup {0} /\ (l = {} => conf' = 0)
           /\ AllSound(fam')
           /\ \A f \in Families : /\ fam'[f].status = F[f].status /\ fam'[f].handle = F[f].handle
                                  /\ fam'[f].up = F[f].up
                                  /\ f \in l => fam'[f] = F[f]
<1>1. \A f \in Families : Sound(f, F[f]) /\ F[f] \in Family /\ F[f].addr \in Addrs \cup {0}
    BY FamilyFields DEF AllSound, Sound
<1>2. link' = l /\ conf' \in Addrs \cup {0} /\ (l = {} => conf' = 0)
    <2>1. Configured(l, F) \in Addrs \cup {0} /\ (l = {} => Configured(l, F) = 0)
        BY <1>1 DEF Configured, TypeOK
    <2>2. QED
        BY <2>1 DEF LinkChange, LinkInv, TypeOK
<1>3. ASSUME NEW f \in Families
      PROVE  /\ Sound(f, fam'[f]) /\ fam'[f].status = F[f].status /\ fam'[f].handle = F[f].handle
             /\ fam'[f].up = F[f].up
             /\ f \in l => fam'[f] = F[f]
    <2>1. fam'[f] = IF l # link /\ f \notin l THEN [F[f] EXCEPT !.addr = 0] ELSE F[f]
        BY DEF LinkChange
    <2>2. CASE l # link /\ f \notin l
        <3> DEFINE x == fam'[f]
        <3>1. x = [F[f] EXCEPT !.addr = 0] /\ F[f] \in Family /\ 0 \in Addrs \cup {0}
            BY <1>1, <2>1, <2>2
        <3>2. /\ x \in Family /\ x.status = F[f].status /\ x.handle = F[f].handle
              /\ x.up = F[f].up /\ x.ip = F[f].ip
            BY <3>1, SetAddr
        <3> HIDE DEF x
        <3>3. Sound(f, x)
            BY <1>1, <3>2 DEF Sound
        <3>4. QED
            BY <2>2, <3>2, <3>3 DEF x
    <2>3. CASE ~(l # link /\ f \notin l)
        BY <1>1, <2>1, <2>3
    <2>4. QED
        BY <2>2, <2>3
<1>4. fam' = [f \in Families |-> fam'[f]]
    BY DEF LinkChange
<1>5. QED
    BY <1>2, <1>3, <1>4 DEF AllSound

LEMMA QueueTypes ==
    ASSUME TypeOK
    PROVE  /\ sigq \in Seq(Signos) /\ evq \in Seq(Events)
           /\ \A s \in Signos : Append(sigq, s) \in Seq(Signos) /\ Append(sigq, s) # <<>>
           /\ sigq # <<>> => Tail(sigq) \in Seq(Signos)
           /\ evq # <<>> => /\ Tail(evq) \in Seq(Events) /\ Len(Tail(evq)) = Len(evq) - 1
                            /\ \A i \in 1..Len(Tail(evq)) : Tail(evq)[i] = evq[i + 1] /\ i + 1 \in 1..Len(evq)
<1>1. sigq \in Seq(Signos) /\ evq \in Seq(Events)
    BY DEF TypeOK
<1>2. \A s \in Signos : Append(sigq, s) \in Seq(Signos) /\ Append(sigq, s) # <<>>
    BY <1>1, AppendProperties
<1>3. QED
    BY <1>1, <1>2, HeadTailProperties

LEMMA RedialType ==
    ASSUME NEW q \in Seq(Signos), NEW F
    PROVE  q \o Redial(F) \in Seq(Signos) /\ (q # <<>> => q \o Redial(F) # <<>>)
<1>1. Redial(F) \in Seq(Signos)
    <2>1. <<"START">> \in Seq(Signos) /\ <<>> \in Seq(Signos)
        BY DEF Signos
    <2>2. QED
        BY <2>1 DEF Redial
<1>2. q \o Redial(F) \in Seq(Signos) /\ Len(q \o Redial(F)) = Len(q) + Len(Redial(F))
    BY <1>1, ConcatProperties
<1>3. Len(Redial(F)) \in Nat /\ Len(q) \in Nat /\ (q # <<>> => Len(q) > 0)
    BY <1>1
<1>4. QED
    BY <1>2, <1>3

LEMMA InitInv == Init => TypeOK /\ IInv
<1> SUFFICES ASSUME Init PROVE TypeOK /\ IInv
    OBVIOUS
<1>1. NoCall \in Family
    BY DEF NoCall, Family
<1>2. TypeOK
    BY <1>1, ConstantsAssumption DEF Init, TypeOK, Slow
<1>3. IInv
    BY DEF Init, IInv, ReadyInv, CallInv, RoundInv, LinkInv, InRound, NoCall
<1>4. QED
    BY <1>2, <1>3

\* The beginning and the end of a round.
LEMMA RoundStep ==
    ASSUME TypeOK, IInv, Open \/ InitDone \/ InitFails \/ RoundEnds
    PROVE  TypeOK' /\ IInv'
<1>1. /\ sigq \in Seq(Signos) /\ evq \in Seq(Events) /\ Append(sigq, "CHECK") \in Seq(Signos)
      /\ <<>> \in Seq(Signos) /\ <<>> \in Seq(Events) /\ Append(sigq, "CHECK") # <<>>
    BY QueueTypes DEF Signos
<1>2. CASE Open
    <2> /\ sigq' = <<>> /\ evq' = <<>> /\ ready' = {} /\ attached' = FALSE /\ wait' = "none"
        /\ fails' \in 0..Slow /\ stop' \in {"no", "heard", "lost"}
        BY <1>2 DEF Open, TypeOK, Slow
    <2>1. CASE modem = "removed"
        <3>1. UNCHANGED <<fam, link, conf, alarm, again, reg, events, modem>> /\ phase' = "quit"
            BY <1>2, <2>1 DEF Open
        <3>2. TypeOK'
            BY <1>1, <3>1 DEF TypeOK
        <3>3. IInv'
            BY <1>2, <3>1 DEF Open, IInv, ReadyInv, CallInv, RoundInv, LinkInv, InRound, Serves
        <3>4. QED
            BY <3>2, <3>3
    <2>2. CASE modem # "removed"
        <3>1. /\ UNCHANGED <<link, conf, alarm, again, reg, events>> /\ phase' = "init"
              /\ modem' = "ok" /\ evq' = <<>> /\ sigq' = <<>> /\ ready' = {}
              /\ fam' = [f \in Families |-> [Ended(fam[f]) EXCEPT !.status = "unknown"]]
            BY <1>2, <2>2 DEF Open
        <3>2. \A f \in Families : fam'[f] \in Family /\ ~fam'[f].up /\ fam'[f].handle # "good"
            <4> TAKE f \in Families
            <4> DEFINE e == Ended(fam[f])
                       x == [e EXCEPT !.status = "unknown"]
            <4>1. e \in Family /\ ~e.up /\ e.handle # "good"
                BY EndedFacts DEF TypeOK
            <4> HIDE DEF e
            <4>2. x \in Family /\ ~x.up /\ x.handle # "good"
                BY <4>1, SetStatus
            <4>3. fam'[f] = x
                BY <3>1 DEF e
            <4> HIDE DEF x
            <4>4. QED
                BY <4>2, <4>3
        <3>3. fam' \in [Families -> Family]
            BY <3>1, <3>2
        <3>4. TypeOK'
            BY <1>1, <3>1, <3>3 DEF TypeOK
        <3>5. IInv'
            BY <1>2, <3>1, <3>2 DEF Open, IInv, ReadyInv, CallInv, RoundInv, LinkInv, InRound
        <3>6. QED
            BY <3>4, <3>5
    <2>3. QED
        BY <2>1, <2>2
<1>3. CASE InitDone
    <2>1. attached' \in BOOLEAN
        BY <1>3 DEF InitDone, Registration, When, TypeOK
    <2>2. TypeOK'
        BY <1>1, <1>3, <2>1 DEF InitDone, TypeOK, stateVars, timeVars, modemVars
    <2>3. IInv'
        BY <1>1, <1>3 DEF InitDone, IInv, ReadyInv, CallInv, RoundInv, LinkInv, InRound, Serves,
                          stateVars, modemVars
    <2>4. QED
        BY <2>2, <2>3
<1>4. CASE InitFails \/ RoundEnds
    <2>1. /\ UNCHANGED <<stateVars, attached, timeVars, sigq, evq, ready, again, stop, modemVars>>
          /\ phase' \in {"begin", "quit", "exited"} /\ phase \in {"init", "quit"}
        BY <1>4 DEF InitFails, RoundEnds
    <2>2. TypeOK'
        BY <2>1 DEF TypeOK, stateVars, timeVars, modemVars
    <2>3. IInv'
        BY <2>1 DEF IInv, ReadyInv, CallInv, RoundInv, LinkInv, InRound, Serves, stateVars, modemVars
    <2>4. QED
        BY <2>2, <2>3
<1>5. QED
    BY <1>2, <1>3, <1>4

\* Steps of the loop that leave the calls and the interface alone.
LEMMA QuietStep ==
    ASSUME TypeOK, IInv, UNCHANGED <<stateVars, modemVars>>, ReadyInv',
           phase' = phase, evq' = evq \/ (evq # <<>> /\ evq' = Tail(evq)),
           attached' \in BOOLEAN, alarm' \in BOOLEAN, fails' \in 0..Slow,
           wait' \in {"none", "short", "long"}, sigq' \in Seq(Signos), ready' \subseteq {"signo", "event"},
           again' \in BOOLEAN, stop' \in {"no", "heard", "lost"}
    PROVE  TypeOK' /\ IInv'
<1>1. evq' \in Seq(Events)
    BY QueueTypes
<1>2. TypeOK'
    BY <1>1 DEF TypeOK, stateVars, modemVars
<1>3. CallInv' /\ LinkInv'
    BY <1>1 DEF IInv, CallInv, LinkInv, Serves, stateVars, modemVars
<1>4. \A i \in 1..Len(evq') : \E j \in 1..Len(evq) : evq'[i] = evq[j]
    <2>1. CASE evq' = evq
        BY <2>1
    <2>2. CASE evq' = Tail(evq) /\ evq # <<>>
        BY <2>2, QueueTypes
    <2>3. QED
        BY <2>1, <2>2
<1>5. RoundInv'
    BY <1>1, <1>4 DEF IInv, RoundInv, InRound, Serves, stateVars, modemVars
<1>6. QED
    BY <1>2, <1>3, <1>5 DEF IInv

LEMMA PollStep ==
    ASSUME TypeOK, IInv, Poll \/ PollTimeout \/ StartNot \/ NetworkChanged \/ DataCallChanged
                         \/ SignalStop \/ AlarmRings \/ DelayOver
    PROVE  TypeOK' /\ IInv'
<1>1. /\ sigq \in Seq(Signos) /\ evq \in Seq(Events) /\ <<"CHECK">> \in Seq(Signos)
      /\ \A s \in {"CHECK", "STOP", "START"} : Append(sigq, s) \in Seq(Signos) /\ Append(sigq, s) # <<>>
      /\ sigq # <<>> => Tail(sigq) \in Seq(Signos)
      /\ sigq \o Redial(fam) \in Seq(Signos) /\ (sigq # <<>> => sigq \o Redial(fam) # <<>>)
    BY QueueTypes, RedialType DEF Signos
<1>2. /\ attached \in BOOLEAN /\ alarm \in BOOLEAN /\ fails \in 0..Slow
      /\ wait \in {"none", "short", "long"} /\ ready \subseteq {"signo", "event"}
      /\ again \in BOOLEAN /\ stop \in {"no", "heard", "lost"}
      /\ ReadyInv
    BY DEF TypeOK, IInv
<1>3. CASE Poll \/ PollTimeout
    <2>1. ready' \subseteq {"signo", "event"} /\ ReadyInv'
        BY <1>1, <1>3 DEF Poll, PollTimeout, When, ReadyInv
    <2>2. wait' \in {"none", "short", "long"} /\ sigq' \in Seq(Signos)
        BY <1>1, <1>2, <1>3 DEF Poll, PollTimeout, TimePasses, timeVars
    <2>3. /\ UNCHANGED <<phase, stateVars, modemVars, evq, attached, fails, alarm, again, stop>>
        BY <1>3 DEF Poll, PollTimeout, timeVars
    <2>4. QED
        BY <1>2, <2>1, <2>2, <2>3, QuietStep
<1>4. CASE StartNot
    <2>1. /\ UNCHANGED <<phase, stateVars, modemVars, evq, attached, fails, wait, again, stop>>
          /\ ready' = ready \ {"signo"} /\ "signo" \in ready /\ sigq' = Tail(sigq) /\ alarm' = attached
        BY <1>4 DEF StartNot, Signo
    <2>2. ReadyInv' /\ sigq' \in Seq(Signos)
        BY <1>1, <1>2, <2>1 DEF ReadyInv
    <2>3. QED
        BY <1>2, <2>1, <2>2, QuietStep
<1>5. CASE NetworkChanged \/ DataCallChanged
    <2>1. /\ UNCHANGED <<phase, stateVars, modemVars, fails, alarm, again, stop>>
          /\ phase = "loop" /\ evq # <<>> /\ evq' = Tail(evq) /\ ready' = {}
        BY <1>2, <1>5 DEF NetworkChanged, DataCallChanged, Event, ReadyInv
    <2>2. /\ attached' \in BOOLEAN /\ wait' \in {"none", "short", "long"} /\ sigq' \in Seq(Signos)
        BY <1>1, <1>2, <1>5
           DEF NetworkChanged, DataCallChanged, TimePasses, Registration, When, TypeOK
    <2>3. ReadyInv'
        BY <2>1 DEF ReadyInv
    <2>4. QED
        BY <1>2, <2>1, <2>2, <2>3, QuietStep
<1>6. CASE SignalStop \/ AlarmRings \/ DelayOver
    <2>1. /\ UNCHANGED <<phase, stateVars, modemVars, evq, attached, fails, ready>>
          /\ again' \in BOOLEAN /\ stop' \in {"no", "heard", "lost"} /\ alarm' \in BOOLEAN
          /\ wait' \in {"none", "short", "long"}
        BY <1>2, <1>6 DEF SignalStop, AlarmRings, DelayOver, timeVars
    <2>2. sigq' \in Seq(Signos) /\ (sigq # <<>> => sigq' # <<>>)
        BY <1>1, <1>6 DEF SignalStop, AlarmRings, DelayOver
    <2>3. ReadyInv'
        BY <1>2, <2>1, <2>2 DEF ReadyInv
    <2>4. QED
        BY <1>2, <2>1, <2>2, <2>3, QuietStep
<1>7. QED
    BY <1>3, <1>4, <1>5, <1>6

LEMMA StartStep ==
    ASSUME TypeOK, IInv, Start
    PROVE  TypeOK' /\ IInv'
<1>1. PICK F \in Choices(Started) :
        /\ fam' = F
        /\ alarm' = (DownIn(F) # {})
        /\ wait' = IF DownIn(F) = {} THEN "none" ELSE IF fails < Slow THEN "short" ELSE "long"
        /\ fails' = IF DownIn(F) # {} THEN Lesser(fails + 1, Slow)
                    ELSE IF ConnectedIn(F) # {} THEN 0 ELSE fails
    BY DEF Start
<1>2. /\ phase = "loop" /\ "signo" \in ready /\ ready' = ready \ {"signo"} /\ sigq' = Tail(sigq)
      /\ UNCHANGED <<phase, link, conf, attached, evq, again, stop, modemVars>>
    BY DEF Start, Signo
<1>3. AllSound(fam')
    BY <1>1, ChoicesStarted DEF IInv
<1>4. fam' \in [Families -> Family] /\ CallInv'
    BY <1>2, <1>3, SoundStep DEF modemVars
<1>5. /\ alarm' \in BOOLEAN /\ wait' \in {"none", "short", "long"} /\ fails' \in 0..Slow
      /\ ready' \subseteq {"signo", "event"} /\ sigq' \in Seq(Signos)
    <2>1. fails \in 0..Slow /\ sigq # <<>>
        BY <1>2 DEF TypeOK, IInv, ReadyInv
    <2>2. fails' \in 0..Slow
        BY <1>1, <2>1 DEF Lesser, Slow
    <2>3. sigq' \in Seq(Signos)
        BY <1>2, <2>1, QueueTypes
    <2>4. QED
        BY <1>1, <1>2, <2>2, <2>3 DEF TypeOK
<1>6. TypeOK'
    BY <1>2, <1>4, <1>5 DEF TypeOK, modemVars
<1>7. ReadyInv' /\ RoundInv' /\ LinkInv'
    BY <1>2 DEF IInv, ReadyInv, RoundInv, LinkInv, InRound, Serves, modemVars
<1>8. QED
    BY <1>4, <1>6, <1>7 DEF IInv

LEMMA CheckStep ==
    ASSUME TypeOK, IInv, Check
    PROVE  TypeOK' /\ IInv'
<1>1. PICK F \in Choices(Checked) : LinkChange(LinkFor(F), F) /\ sigq' = Tail(sigq) \o Redial(F)
    BY DEF Check
<1>2. /\ phase = "loop" /\ "signo" \in ready /\ ready' = ready \ {"signo"}
      /\ attached' \in IF attached THEN {TRUE} ELSE Registration
      /\ alarm' = FALSE /\ TimePasses
      /\ UNCHANGED <<phase, fails, evq, again, stop, modemVars>>
    BY DEF Check, Signo
<1>3. LinkFor(F) \in SUBSET Families
    BY DEF LinkFor, ConnectedIn, TypeOK
<1>4. /\ link' \subseteq Families /\ conf' \in Addrs \cup {0} /\ (link' = {} => conf' = 0)
      /\ AllSound(fam')
    <2>1. AllSound(F) /\ LinkInv
        BY ChoicesChecked DEF IInv
    <2>2. QED
        BY <1>1, <1>3, <2>1, LinkStep
<1>5. fam' \in [Families -> Family] /\ CallInv'
    BY <1>2, <1>4, SoundStep DEF modemVars
<1>6. /\ attached' \in BOOLEAN /\ wait' \in {"none", "short", "long"} /\ sigq' \in Seq(Signos)
      /\ ready' \subseteq {"signo", "event"}
    <2>1. sigq' \in Seq(Signos)
        <3>1. Tail(sigq) \in Seq(Signos)
            BY <1>2, QueueTypes DEF IInv, ReadyInv
        <3>2. QED
            BY <1>1, <3>1, RedialType
    <2>2. attached' \in BOOLEAN
        BY <1>2 DEF Registration, When, TypeOK
    <2>3. wait' \in {"none", "short", "long"}
        BY <1>2 DEF TimePasses, TypeOK
    <2>4. QED
        BY <1>2, <2>1, <2>2, <2>3 DEF TypeOK
<1>7. TypeOK'
    BY <1>2, <1>4, <1>5, <1>6 DEF TypeOK, modemVars
<1>8. ReadyInv' /\ RoundInv' /\ LinkInv'
    BY <1>2, <1>4 DEF IInv, ReadyInv, RoundInv, LinkInv, InRound, Serves, modemVars
<1>9. QED
    BY <1>5, <1>7, <1>8 DEF IInv

\* The ways out of the loop.
LEMMA QuitStep ==
    ASSUME TypeOK, IInv, Stop \/ Disconnected \/ ModemReset
    PROVE  TypeOK' /\ IInv'
<1>1. \E F : AllSound(F) /\ Quit(F)
    <2>1. CASE Stop
        <3>1. PICK F \in Choices(HungUp) : Quit(F) \/ Quit([f \in Families |-> Ended(F[f])])
            BY <2>1 DEF Stop
        <3>2. AllSound(F)
            BY <3>1, ChoicesHungUp DEF IInv
        <3>3. AllSound([f \in Families |-> Ended(F[f])])
            BY <3>2, EndedFacts DEF AllSound, Sound
        <3>4. QED
            BY <3>1, <3>2, <3>3
    <2>2. CASE Disconnected \/ ModemReset
        <3>1. AllSound(fam) /\ Quit(fam)
            BY <2>2, FamiliesSound DEF Disconnected, ModemReset, AllSound, IInv
        <3>2. QED
            BY <3>1
    <2>3. QED
        BY <2>1, <2>2
<1>2. PICK F : AllSound(F) /\ Quit(F)
    BY <1>1
<1>3. /\ phase' = "quit" /\ link' = {} /\ conf' = 0 /\ AllSound(fam')
    BY <1>2, LinkStep DEF Quit, IInv
<1>4. /\ UNCHANGED <<attached, fails, wait, stop, modemVars>>
      /\ alarm' \in BOOLEAN /\ again' \in BOOLEAN
      /\ \/ "signo" \in ready /\ ready' = ready \ {"signo"} /\ sigq' = Tail(sigq) /\ evq' = evq
         \/ "event" \in ready /\ ready' = {} /\ evq' = Tail(evq) /\ sigq' = sigq
    BY DEF Stop, Disconnected, ModemReset, Signo, Event, timeVars, TypeOK
<1>5. /\ sigq' \in Seq(Signos) /\ evq' \in Seq(Events) /\ ready' \subseteq {"signo", "event"}
      /\ ReadyInv'
    BY <1>4, QueueTypes DEF IInv, ReadyInv, TypeOK
<1>6. fam' \in [Families -> Family] /\ CallInv'
    BY <1>3, <1>4, SoundStep DEF modemVars
<1>7. TypeOK'
    BY <1>3, <1>4, <1>5, <1>6 DEF TypeOK, modemVars
<1>8. RoundInv' /\ LinkInv'
    BY <1>3 DEF RoundInv, LinkInv, InRound
<1>9. QED
    BY <1>5, <1>6, <1>7, <1>8 DEF IInv

\* What happens at the modem.
LEMMA HappensType ==
    ASSUME TypeOK, IInv, NEW E, Happens(E),
           \A e \in E : e = <<>> \/ \E x \in Events : e = <<x>>
    PROVE  /\ UNCHANGED <<phase, link, conf, attached, timeVars, sigq, ready, again, stop>>
           /\ InRound /\ Serves /\ events' \in 0..MaxEvents /\ evq' \in Seq(Events)
           /\ Len(evq') >= Len(evq) /\ Len(evq') <= Len(evq) + 1
           /\ \A i \in 1..Len(evq) : evq'[i] = evq[i]
           /\ Len(evq') = Len(evq) + 1 => <<evq'[Len(evq')]>> \in E
           /\ ReadyInv'
<1>1. /\ UNCHANGED <<phase, link, conf, attached, timeVars, sigq, ready, again, stop>>
      /\ InRound /\ Serves /\ events' \in 0..MaxEvents
    BY ConstantsAssumption DEF Happens, InRound, TypeOK
<1>2. PICK e \in E : evq' = evq \o e
    BY DEF Happens
<1>3. evq \in Seq(Events)
    BY QueueTypes
<1>4. CASE e = <<>>
    <2>1. evq' = evq
        BY <1>2, <1>3, <1>4, ConcatEmptySeq
    <2>2. QED
        BY <1>1, <1>3, <2>1 DEF IInv, ReadyInv
<1>5. ASSUME NEW x \in Events, e = <<x>> PROVE
           /\ evq' \in Seq(Events) /\ Len(evq') = Len(evq) + 1 /\ evq'[Len(evq')] = x
           /\ \A i \in 1..Len(evq) : evq'[i] = evq[i]
    BY <1>2, <1>3, <1>5, ConcatProperties
<1>6. CASE \E x \in Events : e = <<x>>
    <2>1. PICK x \in Events : e = <<x>>
        BY <1>6
    <2>2. /\ evq' \in Seq(Events) /\ Len(evq') = Len(evq) + 1 /\ evq'[Len(evq')] = x
          /\ \A i \in 1..Len(evq) : evq'[i] = evq[i]
        BY <1>5, <2>1
    <2>3. Len(evq) \in Nat /\ evq' # <<>>
        BY <1>3, <2>2
    <2>4. ReadyInv'
        BY <1>1, <2>3 DEF IInv, ReadyInv
    <2>5. QED
        BY <1>1, <1>2, <2>1, <2>2, <2>3, <2>4
<1>7. QED
    BY <1>4, <1>6

LEMMA ModemStep ==
    ASSUME TypeOK, IInv,
           \/ \E f \in Families : CallEnds(f) \/ AddressChanges(f)
           \/ RegistrationChanges \/ Revokes \/ Removed \/ BackAgain
    PROVE  TypeOK' /\ IInv'
<1>1. \A f \in Families : Sound(f, fam[f]) /\ fam[f] \in Family
    BY FamiliesSound DEF IInv, Sound
<1>2. fam = [f \in Families |-> fam[f]]
    BY DEF TypeOK
<1>3. {"datacall", "network", "reset", "disconnected"} \subseteq Events
    BY DEF Events
<1>4. ASSUME NEW f \in Families, CallEnds(f) \/ AddressChanges(f)
      PROVE  TypeOK' /\ IInv'
    <2>1. Happens({<<>>, <<"datacall">>}) /\ UNCHANGED <<reg, modem>> /\ fam[f].up
        BY <1>4 DEF CallEnds, AddressChanges
    <2>2. AllSound(fam')
        <3>1. PICK x : fam' = [fam EXCEPT ![f] = x] /\ Sound(f, x)
            <4>1. CASE CallEnds(f)
                BY <1>1, <4>1, EndedFacts DEF CallEnds
            <4>2. CASE AddressChanges(f)
                <5>1. PICK a \in Addrs : fam' = [fam EXCEPT ![f].ip = a]
                    BY <4>2 DEF AddressChanges
                <5> DEFINE x == [fam[f] EXCEPT !.ip = a]
                <5>2. fam' = [fam EXCEPT ![f] = x]
                    BY <5>1
                <5>3. /\ x \in Family /\ x.handle = fam[f].handle /\ x.up = fam[f].up /\ x.ip = a /\ a # 0
                    BY <1>1, ConstantsAssumption DEF Family
                <5> HIDE DEF x
                <5>4. Sound(f, x)
                    BY <1>1, <5>3 DEF Sound
                <5>5. QED
                    BY <5>2, <5>4
            <4>3. QED
                BY <1>4, <4>1, <4>2
        <3>2. QED
            BY <1>1, <1>2, <3>1 DEF AllSound
    <2>3. fam' \in [Families -> Family] /\ CallInv'
        BY <2>1, <2>2, SoundStep
    <2>4. \A g \in Families : ~fam[g].up /\ g # f => ~fam'[g].up
        BY <1>2, <1>4 DEF CallEnds, AddressChanges
    <2>5. /\ UNCHANGED <<phase, link, conf, attached, timeVars, sigq, ready, again, stop>>
          /\ InRound /\ Serves /\ events' \in 0..MaxEvents /\ evq' \in Seq(Events)
          /\ Len(evq') >= Len(evq) /\ Len(evq') <= Len(evq) + 1
          /\ \A i \in 1..Len(evq) : evq'[i] = evq[i]
          /\ Len(evq') = Len(evq) + 1 => <<evq'[Len(evq')]>> \in {<<>>, <<"datacall">>}
          /\ ReadyInv'
        BY <1>3, <2>1, HappensType
    <2>6. TypeOK'
        BY <2>1, <2>3, <2>5 DEF TypeOK, timeVars
    <2>7. RoundInv'
        <3>1. Len(evq') = Len(evq) + 1 => evq'[Len(evq')] = "datacall"
            BY <2>5
        <3>2. Len(evq) \in Nat /\ Len(evq') \in Nat
            BY <2>5, QueueTypes
        <3>3. \A i \in 1..Len(evq') : evq'[i] \notin {"disconnected", "reset"}
            BY <2>5, <3>1, <3>2 DEF IInv, RoundInv
        <3>4. phase # "init"
            BY <2>1 DEF IInv, RoundInv
        <3>5. QED
            BY <2>5, <3>3, <3>4 DEF RoundInv
    <2>8. LinkInv'
        BY <2>5 DEF IInv, LinkInv
    <2>9. QED
        BY <2>3, <2>5, <2>6, <2>7, <2>8 DEF IInv
<1>5. CASE RegistrationChanges
    <2>1. Happens({<<"network">>}) /\ UNCHANGED <<fam, modem>> /\ reg' \in BOOLEAN
        BY <1>5 DEF RegistrationChanges, TypeOK
    <2>2. /\ UNCHANGED <<phase, link, conf, attached, timeVars, sigq, ready, again, stop>>
          /\ InRound /\ Serves /\ events' \in 0..MaxEvents /\ evq' \in Seq(Events)
          /\ Len(evq') >= Len(evq) /\ Len(evq') <= Len(evq) + 1
          /\ \A i \in 1..Len(evq) : evq'[i] = evq[i]
          /\ Len(evq') = Len(evq) + 1 => <<evq'[Len(evq')]>> \in {<<"network">>}
          /\ ReadyInv'
        BY <1>3, <2>1, HappensType
    <2>3. TypeOK'
        BY <2>1, <2>2 DEF TypeOK, timeVars
    <2>4. RoundInv'
        <3>1. Len(evq') = Len(evq) + 1 => evq'[Len(evq')] = "network"
            BY <2>2
        <3>2. Len(evq) \in Nat /\ Len(evq') \in Nat
            BY <2>2, QueueTypes
        <3>3. \A i \in 1..Len(evq') : evq'[i] \notin {"disconnected", "reset"}
            BY <2>2, <3>1, <3>2 DEF IInv, RoundInv
        <3>4. QED
            BY <2>1, <2>2, <3>3 DEF IInv, RoundInv
    <2>5. CallInv' /\ LinkInv'
        BY <2>1, <2>2 DEF IInv, CallInv, LinkInv, Serves
    <2>6. QED
        BY <2>2, <2>3, <2>4, <2>5 DEF IInv
<1>6. CASE Revokes \/ Removed
    <2>1. PICK event \in {"reset", "disconnected"} :
            /\ Happens({<<event>>}) /\ UNCHANGED reg /\ modem' \in {"revoked", "removed"}
            /\ fam' = [f \in Families |-> Ended(fam[f])]
        BY <1>6 DEF Revokes, Removed, Lost
    <2>2. /\ UNCHANGED <<phase, link, conf, attached, timeVars, sigq, ready, again, stop>>
          /\ InRound /\ Serves /\ events' \in 0..MaxEvents /\ evq' \in Seq(Events)
          /\ ReadyInv'
        BY <1>3, <2>1, HappensType
    <2>3. \A f \in Families : fam'[f] \in Family /\ ~fam'[f].up /\ fam'[f].handle # "good"
        BY <1>1, <2>1, EndedFacts
    <2>4. fam' \in [Families -> Family]
        BY <2>1, <2>3
    <2>5. TypeOK'
        BY <2>1, <2>2, <2>4 DEF TypeOK, timeVars
    <2>6. CallInv' /\ LinkInv' /\ RoundInv'
        BY <2>1, <2>2, <2>3 DEF IInv, CallInv, LinkInv, RoundInv, Serves
    <2>7. QED
        BY <2>2, <2>5, <2>6 DEF IInv
<1>7. CASE BackAgain
    <2>1. /\ modem = "removed" /\ modem' = "ok" /\ phase \in {"begin", "quit"}
          /\ UNCHANGED <<phase, stateVars, attached, timeVars, sigq, evq, ready, again, stop, reg, events>>
        BY <1>7 DEF BackAgain
    <2>2. TypeOK'
        BY <2>1 DEF TypeOK, stateVars, timeVars
    <2>3. IInv'
        BY <2>1 DEF IInv, ReadyInv, CallInv, RoundInv, LinkInv, InRound, Serves, stateVars
    <2>4. QED
        BY <2>2, <2>3
<1>8. QED
    BY <1>4, <1>5, <1>6, <1>7

LEMMA StepInv == TypeOK /\ IInv /\ [Next]_vars => (TypeOK /\ IInv)'
<1> SUFFICES ASSUME TypeOK, IInv, [Next]_vars PROVE TypeOK' /\ IInv'
    OBVIOUS
<1>1. CASE UNCHANGED vars
    <2>1. TypeOK'
        BY <1>1 DEF TypeOK, vars, stateVars, timeVars, modemVars
    <2>2. IInv'
        BY <1>1 DEF vars, stateVars, modemVars, IInv, ReadyInv, CallInv, RoundInv, LinkInv, InRound, Serves
    <2>3. QED
        BY <2>1, <2>2
<1>2. QED
    BY <1>1, RoundStep, PollStep, StartStep, CheckStep, QuitStep, ModemStep
       DEF Next, Handlers, Environment, Exited

LEMMA Inductive == Spec => [](TypeOK /\ IInv)
  BY InitInv, StepInv, PTL DEF Spec

\* The variables of qmi_main and of the modem keep their types; in particular every
\* handler leaves a record of each family, and SetupCallFail stays within allow_time.
THEOREM TypeCorrect == Spec => []TypeOK
  BY Inductive, PTL

-----------------------------------------------------------------------------
(***************************************************************************)
(* The address of the interface.  Asking for the status of an IPv6 call     *)
(* must not fail: qmi_main does not notice that, its status stays unknown,  *)
(* and an interface is not taken down for one family while another is       *)
(* unknown.                                                                 *)
(***************************************************************************)
StatusAnswered == Fault("noquery") => Families = {4}

LEMMA AddressStart ==
    ASSUME TypeOK, IInv, AddressInv, Start
    PROVE  AddressInv'
<1>1. PICK F \in Choices(Started) : fam' = F
    BY DEF Start
<1>2. phase = "loop" /\ UNCHANGED <<phase, link, conf, stop, modem>>
    BY DEF Start, Signo, modemVars
<1> SUFFICES ASSUME InRound', Serves', ~Aborts', 4 \in Families
    PROVE /\ fam'[4].status = "unknown" => conf' = 0
          /\ fam'[4].status = "connected" => fam'[4].addr # 0 \/ (fam'[4].handle = "none" /\ conf' = 0)
          /\ 4 \in link' => fam'[4].status = "connected" /\ conf' = fam'[4].addr
    BY DEF AddressInv
<1>3. Serves /\ ~Aborts /\ InRound
    BY <1>2 DEF Serves, Aborts, InRound
<1>4. IsStarted(4, fam[4], fam'[4])
    BY <1>1, ChoicesStarted DEF IInv
<1>5. QED
    BY <1>2, <1>3, <1>4 DEF AddressInv, IsStarted

LEMMA AddressCheck ==
    ASSUME StatusAnswered, TypeOK, IInv, AddressInv, Check
    PROVE  AddressInv'
<1>1. PICK F \in Choices(Checked) : LinkChange(LinkFor(F), F)
    BY DEF Check
<1>2. phase = "loop" /\ UNCHANGED <<phase, stop, modem>>
    BY DEF Check, Signo, modemVars
<1> SUFFICES ASSUME InRound', Serves', ~Aborts', 4 \in Families
    PROVE /\ fam'[4].status = "unknown" => conf' = 0
          /\ fam'[4].status = "connected" => fam'[4].addr # 0 \/ (fam'[4].handle = "none" /\ conf' = 0)
          /\ 4 \in link' => fam'[4].status = "connected" /\ conf' = fam'[4].addr
    BY DEF AddressInv
<1>3. Serves /\ ~Aborts /\ InRound
    BY <1>2 DEF Serves, Aborts, InRound
<1>4. AllSound(F) /\ \A f \in Families : IsChecked(f, fam[f], F[f])
    BY ChoicesChecked DEF IInv
<1>5. \A f \in Families : F[f].status \in {"connected", "disconnected"}
    BY <1>3, <1>4 DEF IsChecked, Knows, StatusAnswered
<1> DEFINE l == LinkFor(F)
           r == fam[4]
           o == F[4]
<1>6. l = ConnectedIn(F) /\ l \in SUBSET Families
    BY <1>5 DEF LinkFor, ConnectedIn, DownIn
<1>7. 4 \in l <=> o.status = "connected"
    BY <1>6 DEF ConnectedIn
<1>8. /\ link' = l /\ conf' = IF l = link THEN conf ELSE Configured(l, F)
      /\ fam'[4].status = o.status /\ fam'[4].handle = o.handle
      /\ 4 \in l => fam'[4] = o
    BY <1>1, <1>4, <1>6, LinkStep DEF LinkChange, IInv
<1>9. /\ r.status = "unknown" => conf = 0
      /\ r.status = "connected" => r.addr # 0 \/ (r.handle = "none" /\ conf = 0)
      /\ 4 \in link => r.status = "connected" /\ conf = r.addr
    BY <1>3 DEF AddressInv
<1>10. CASE o.status = "connected"
    <2>1. /\ r.status # "disconnected"
          /\ r.addr # 0 => o.addr = r.addr
          /\ o.addr = 0 <=> r.handle = "none" /\ r.addr = 0
          /\ o.handle = r.handle
        BY <1>3, <1>4, <1>10 DEF IsChecked, Knows
    <2>2. r.status \in {"unknown", "connected"}
        BY <2>1 DEF TypeOK, Family
    <2>3. o.addr = 0 => conf = 0
        BY <1>9, <2>1, <2>2
    <2>4. conf' = o.addr
        <3>1. CASE l = link
            <4>1. r.status = "connected" /\ conf = r.addr
                BY <1>7, <1>9, <1>10, <3>1
            <4>2. QED
                BY <1>8, <2>1, <2>3, <3>1, <4>1, <1>9
        <3>2. CASE l # link
            BY <1>7, <1>8, <1>10, <2>3, <3>2 DEF Configured
        <3>3. QED
            BY <3>1, <3>2
    <2>5. QED
        BY <1>7, <1>8, <1>10, <2>1, <2>4
<1>11. CASE o.status = "disconnected"
    BY <1>7, <1>8, <1>11
<1>12. QED
    BY <1>5, <1>10, <1>11

LEMMA AddressStep ==
    ASSUME StatusAnswered, TypeOK, IInv, AddressInv, [Next]_vars
    PROVE  AddressInv'
<1>1. CASE phase' \notin {"init", "loop"} \/ modem' # "ok"
    BY <1>1 DEF AddressInv, InRound, Serves
<1>2. CASE Open
    <2>1. \A f \in Families : fam[f] \in Family
        BY DEF TypeOK
    <2>2. CASE modem # "removed" /\ 4 \in Families
        <3> DEFINE e == Ended(fam[4])
        <3>1. e \in Family
            BY <2>1, <2>2, EndedFacts
        <3>2. fam'[4] = [e EXCEPT !.status = "unknown"]
            BY <1>2, <2>2 DEF Open
        <3> HIDE DEF e
        <3>3. fam'[4].status = "unknown"
            BY <3>1, <3>2, SetStatus
        <3>4. link' = {} /\ conf' = 0
            BY <1>2 DEF Open, IInv, LinkInv
        <3>5. QED
            BY <3>3, <3>4 DEF AddressInv
    <2>3. CASE 4 \notin Families
        BY <2>3 DEF AddressInv
    <2>4. CASE modem = "removed"
        BY <1>1, <1>2, <2>4 DEF Open
    <2>5. QED
        BY <2>2, <2>3, <2>4
<1>3. CASE UNCHANGED <<fam, link, conf>> /\ (InRound' /\ Serves' /\ ~Aborts' => InRound /\ Serves /\ ~Aborts)
    BY <1>3 DEF AddressInv
<1>4. CASE \E f \in Families : CallEnds(f) \/ AddressChanges(f)
    <2>1. PICK f \in Families : CallEnds(f) \/ AddressChanges(f)
        BY <1>4
    <2>2. UNCHANGED <<phase, link, conf, stop, modem>> /\ fam[f] \in Family /\ fam \in [Families -> Family]
        BY <2>1 DEF CallEnds, AddressChanges, Happens, TypeOK
    <2>3. \A g \in Families : /\ fam'[g].status = fam[g].status /\ fam'[g].addr = fam[g].addr
                              /\ fam[g].handle = "none" => fam'[g].handle = "none"
        <3>1. CASE CallEnds(f)
            BY <2>2, <3>1, EndedFacts DEF CallEnds
        <3>2. CASE AddressChanges(f)
            <4>1. PICK a \in Addrs : fam' = [fam EXCEPT ![f].ip = a]
                BY <3>2 DEF AddressChanges
            <4>2. \A g \in Families : fam'[g] = IF g = f THEN [fam[f] EXCEPT !.ip = a] ELSE fam[g]
                BY <2>2, <4>1
            <4>3. LET x == [fam[f] EXCEPT !.ip = a]
                  IN  x.status = fam[f].status /\ x.addr = fam[f].addr /\ x.handle = fam[f].handle
                BY <2>2 DEF Family
            <4>4. QED
                BY <4>2, <4>3
        <3>3. QED
            BY <2>1, <3>1, <3>2
    <2>4. QED
        BY <2>2, <2>3 DEF AddressInv, InRound, Serves, Aborts
<1>5. CASE \/ InitDone \/ Poll \/ PollTimeout \/ StartNot \/ NetworkChanged \/ DataCallChanged
           \/ SignalStop \/ AlarmRings \/ DelayOver \/ RegistrationChanges \/ UNCHANGED vars
    <2>1. UNCHANGED <<fam, link, conf, modem>>
        BY <1>5 DEF InitDone, Poll, PollTimeout, StartNot, NetworkChanged, DataCallChanged, Happens,
                    SignalStop, AlarmRings, DelayOver, RegistrationChanges, vars, stateVars, modemVars
    <2>2. (phase' = phase \/ phase = "init") /\ (stop' = stop \/ stop' \in {"heard", "lost"})
        BY <1>5 DEF InitDone, Poll, PollTimeout, StartNot, NetworkChanged, DataCallChanged, Happens,
                    SignalStop, AlarmRings, DelayOver, RegistrationChanges, vars
    <2>3. stop' = "lost" /\ stop' # stop => ~InRound' \/ stop # "heard"
        BY <1>5 DEF InitDone, Poll, PollTimeout, StartNot, NetworkChanged, DataCallChanged, Happens,
                    SignalStop, AlarmRings, DelayOver, RegistrationChanges, vars, InRound
    <2>4. QED
        BY <1>3, <2>1, <2>2, <2>3 DEF InRound, Serves, Aborts
<1>6. CASE Stop \/ Disconnected \/ ModemReset \/ InitFails \/ RoundEnds \/ BackAgain
    <2>1. phase' \notin {"init", "loop"}
        BY <1>6 DEF Stop, Disconnected, ModemReset, InitFails, RoundEnds, BackAgain, Quit
    <2>2. QED
        BY <1>1, <2>1
<1>7. CASE Revokes \/ Removed
    BY <1>1, <1>7 DEF Revokes, Removed, Lost
<1>8. QED
    BY <1>2, <1>4, <1>5, <1>6, <1>7, AddressStart, AddressCheck
       DEF Next, Handlers, Environment, Exited

\* While it is up for IPv4 and the modem answers, the interface has the address in the
\* profile, though udhcpc_start runs only when the link changes: CHECK takes a call
\* down whose address is another one now, and START dials only what is down.
THEOREM AddressIsConfigured ==
    ASSUME StatusAnswered
    PROVE  Spec => []AddressConfigured
<1>1. Init => AddressInv
    BY DEF Init, AddressInv, NoCall
<1>2. TypeOK /\ IInv /\ AddressInv /\ [Next]_vars => AddressInv'
    BY AddressStep
<1>3. TypeOK /\ IInv /\ AddressInv => AddressConfigured
    BY DEF TypeOK, IInv, LinkInv, AddressInv, AddressConfigured, InRound
<1>4. QED
    BY <1>1, <1>2, <1>3, Inductive, PTL DEF Spec

-----------------------------------------------------------------------------
(***************************************************************************)
(* STOP.  When asking for the address or the status fails, a call with a    *)
(* handle is taken for one that is down, and STOP leaves it up.             *)
(***************************************************************************)
Answered == ~Fault("noip") /\ ~Fault("noquery")

LEMMA HandleStep ==
    ASSUME Answered, TypeOK, IInv, HandleInv, [Next]_vars
    PROVE  HandleInv'
<1>1. \A f \in Families : Sound(f, fam[f]) /\ fam[f] \in Family
    BY FamiliesSound DEF IInv, Sound
<1>2. CASE Open
    <2>1. CASE modem = "removed"
        BY <1>2, <2>1 DEF Open, IInv, CallInv, Serves, HandleInv
    <2>2. CASE modem # "removed"
        <3>1. \A f \in Families : ~fam'[f].up
            <4> TAKE f \in Families
            <4> DEFINE e == Ended(fam[f])
            <4>1. e \in Family /\ ~e.up
                BY <1>1, EndedFacts
            <4>2. fam'[f] = [e EXCEPT !.status = "unknown"]
                BY <1>2, <2>2 DEF Open
            <4> HIDE DEF e
            <4>3. QED
                BY <4>1, <4>2, SetStatus
        <3>2. QED
            BY <3>1 DEF HandleInv
    <2>3. QED
        BY <2>1, <2>2
<1>3. CASE Start
    <2>1. PICK F \in Choices(Started) : fam' = F
        BY <1>3 DEF Start
    <2>2. phase = "loop" /\ phase' = "loop"
        BY <1>3 DEF Start, Signo
    <2>3. \A f \in Families : IsStarted(f, fam[f], F[f])
        BY ChoicesStarted DEF IInv
    <2>4. QED
        BY <2>1, <2>2, <2>3 DEF HandleInv, IsStarted, Answered
<1>4. CASE Check
    <2>1. PICK F \in Choices(Checked) : LinkChange(LinkFor(F), F)
        BY <1>4 DEF Check
    <2>2. phase = "loop" /\ phase' = "loop"
        BY <1>4 DEF Check, Signo
    <2>3. AllSound(F) /\ \A f \in Families : IsChecked(f, fam[f], F[f])
        BY ChoicesChecked DEF IInv
    <2>4. \A f \in Families : Held(F[f])
        BY <2>2, <2>3 DEF HandleInv, Held, IsChecked, Answered
    <2>5. LinkFor(F) \in SUBSET Families
        BY DEF LinkFor, ConnectedIn, TypeOK
    <2>6. \A f \in Families : /\ fam'[f].status = F[f].status /\ fam'[f].handle = F[f].handle
                              /\ fam'[f].up = F[f].up
        BY <2>1, <2>3, <2>5, LinkStep DEF IInv
    <2>7. QED
        BY <2>2, <2>4, <2>6 DEF HandleInv, Held
<1>5. CASE Stop \/ Disconnected \/ ModemReset
    <2>1. PICK F : /\ AllSound(F) /\ Quit(F)
                   /\ \A f \in Families : ~(F[f].up /\ F[f].handle = "good")
        <3>1. CASE Stop
            <4>1. PICK F \in Choices(HungUp) : Quit(F) \/ Quit([f \in Families |-> Ended(F[f])])
                BY <3>1 DEF Stop
            <4>2. phase = "loop"
                BY <3>1 DEF Stop, Signo
            <4>3. AllSound(F) /\ \A f \in Families : ~(F[f].up /\ F[f].handle = "good")
                BY <4>2, ChoicesHungUp DEF IInv, HandleInv, Held
            <4>4. LET G == [f \in Families |-> Ended(F[f])]
                  IN  AllSound(G) /\ \A f \in Families : ~(G[f].up /\ G[f].handle = "good")
                BY <4>3, EndedFacts DEF AllSound, Sound
            <4>5. QED
                BY <4>1, <4>3, <4>4
        <3>2. CASE Disconnected \/ ModemReset
            <4>1. AllSound(fam) /\ Quit(fam)
                BY <3>2, FamiliesSound DEF Disconnected, ModemReset, AllSound, IInv
            <4>2. phase = "loop" /\ evq # <<>> /\ Head(evq) \in {"disconnected", "reset"}
                BY <3>2 DEF Disconnected, ModemReset, Event, IInv, ReadyInv
            <4>3. 1 \in 1..Len(evq) /\ Head(evq) = evq[1]
                BY <4>2, QueueTypes
            <4>4. ~Serves
                BY <4>2, <4>3 DEF IInv, RoundInv, InRound
            <4>5. QED
                BY <4>1, <4>4 DEF IInv, CallInv
        <3>3. QED
            BY <1>5, <3>1, <3>2
    <2>2. \A f \in Families : fam'[f].handle = F[f].handle /\ fam'[f].up = F[f].up
        BY <2>1, LinkStep DEF Quit, IInv
    <2>3. QED
        BY <2>1, <2>2 DEF HandleInv
<1>6. CASE \E f \in Families : CallEnds(f) \/ AddressChanges(f)
    <2>1. PICK f \in Families : CallEnds(f) \/ AddressChanges(f)
        BY <1>6
    <2>2. phase' = phase /\ fam \in [Families -> Family]
        BY <2>1 DEF CallEnds, AddressChanges, Happens, TypeOK
    <2>3. \A g \in Families : \/ ~fam'[g].up
                              \/ /\ fam'[g].status = fam[g].status /\ fam'[g].handle = fam[g].handle
                                 /\ fam'[g].up = fam[g].up
        <3>1. CASE CallEnds(f)
            BY <1>1, <2>2, <3>1, EndedFacts DEF CallEnds
        <3>2. CASE AddressChanges(f)
            <4>1. PICK a \in Addrs : fam' = [fam EXCEPT ![f].ip = a]
                BY <3>2 DEF AddressChanges
            <4>2. \A g \in Families : fam'[g] = IF g = f THEN [fam[f] EXCEPT !.ip = a] ELSE fam[g]
                BY <2>2, <4>1
            <4>3. LET x == [fam[f] EXCEPT !.ip = a]
                  IN  x.status = fam[f].status /\ x.up = fam[f].up /\ x.handle = fam[f].handle
                BY <1>1 DEF Family
            <4>4. QED
                BY <4>2, <4>3
        <3>3. QED
            BY <2>1, <3>1, <3>2
    <2>4. QED
        BY <2>2, <2>3 DEF HandleInv
<1>7. CASE Revokes \/ Removed
    <2>1. fam' = [f \in Families |-> Ended(fam[f])]
        BY <1>7 DEF Revokes, Removed, Lost
    <2>2. QED
        BY <1>1, <2>1, EndedFacts DEF HandleInv
<1>8. CASE InitDone \/ InitFails
    <2>1. phase = "init" /\ fam' = fam
        BY <1>8 DEF InitDone, InitFails, stateVars
    <2>2. QED
        BY <2>1 DEF IInv, RoundInv, HandleInv
<1>9. CASE RoundEnds \/ BackAgain
    BY <1>9 DEF RoundEnds, BackAgain, HandleInv, stateVars
<1>10. CASE \/ Poll \/ PollTimeout \/ StartNot \/ NetworkChanged \/ DataCallChanged
            \/ SignalStop \/ AlarmRings \/ DelayOver \/ RegistrationChanges \/ UNCHANGED vars
    <2>1. UNCHANGED <<fam, phase>>
        BY <1>10 DEF Poll, PollTimeout, StartNot, NetworkChanged, DataCallChanged, Happens,
                     SignalStop, AlarmRings, DelayOver, RegistrationChanges, vars, stateVars
    <2>2. QED
        BY <2>1 DEF HandleInv
<1>11. QED
    BY <1>2, <1>3, <1>4, <1>5, <1>6, <1>7, <1>8, <1>9, <1>10
       DEF Next, Handlers, Environment, Exited

\* After SIGTERM no call is left up of which the program has the handle, unless its
\* STOP_NETWORK failed, whatever it was doing when the signal came: START leaves none
\* behind that it does not take for connected, and the other ways out of the loop are
\* taken only when the calls are gone.
THEOREM StopHangsUp ==
    ASSUME Answered
    PROVE  Spec => []NoCallLeftUp
<1>1. Init => HandleInv
    BY DEF Init, HandleInv, NoCall
<1>2. TypeOK /\ IInv /\ HandleInv /\ [Next]_vars => HandleInv'
    BY HandleStep
<1>3. HandleInv => NoCallLeftUp
    BY DEF HandleInv, NoCallLeftUp
<1>4. QED
    BY <1>1, <1>2, <1>3, Inductive, PTL DEF Spec
=============================================================================
