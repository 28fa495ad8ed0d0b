---------------------------- MODULE StackProofs -----------------------------
\* What is proved of the parts around the network driver.  Of the
\* observers, for any number of changes of iwd's and the kernel's, of
\* failures and of tries at a gateway: what the driver is told of the
\* station, of the link and its address, of a scan and of a gateway, and
\* what a client's scan answers; every part takes its steps among those of
\* the others.  Of rendering and probing, for any documents, selections
\* and radios: that what is offered is accepted, what is accepted is
\* rendered, and what is rendered is sound.  Of the applier, for any
\* renderings and wherever its applies end: what is recorded runs.
EXTENDS NetworkObserve, NetworkProbe, NetworkApply, SequenceTheorems, FiniteSetTheorems, TLAPS

\* What iwd is, and the two streams of news of it.
IwdRecs == [up : BOOLEAN, life : Nat, station : BOOLEAN, state : States, scanning : BOOLEAN, scans : Nat]
SignalRecs == [kind : {"state", "added", "removed"}, value : States, life : Nat]
WatchRecs == [at : {"idle", "registering", "resyncing", "joining"}, known : BOOLEAN, agent : Nat, fails : Nat,
              crossed : BOOLEAN]

IwdType ==
    /\ iwd \in IwdRecs /\ signals \in Seq(SignalRecs) /\ owners \in Seq({"gone", "here"})
    /\ watch \in WatchRecs /\ told \in States

\* A station is one of an iwd that is up, and none is joined to nothing.
IwdSound ==
    /\ ~iwd.up => ~iwd.station
    /\ ~iwd.station => iwd.state = "disconnected"

\* The signals come in the order of the lives they are of.
InOrderOfLives ==
    /\ \A i \in 1..Len(signals) : signals[i].life <= iwd.life /\ (signals[i].kind # "state" => signals[i].value = "disconnected")
    /\ \A i, j \in 1..Len(signals) : i < j => signals[i].life <= signals[j].life

\* The last change of owner is how iwd stands.
NewsIsOfNow ==
    /\ owners # <<>> => (owners[Len(owners)] = "here" <=> iwd.up)
    /\ owners = <<>> /\ watch.at \in {"registering", "resyncing"} => iwd.up
    /\ owners = <<>> /\ iwd.up /\ watch.at # "registering" => watch.agent = iwd.life

\* What the observer says of a station it does not know of.
UnknownIsOff ==
    /\ watch.at \in {"registering", "resyncing"} => ~watch.known
    /\ watch.at = "joining" => watch.known
    /\ ~watch.known => told = "disconnected"

\* What the signals of this life end in is how iwd stands.
EndInNow ==
    iwd.up =>
        /\ \A i \in 1..Len(signals) : signals[i].life = iwd.life =>
              /\ signals[i].kind = "added" => iwd.station \/ \E j \in (i + 1)..Len(signals) : signals[j].kind = "removed"
              /\ signals[i].kind = "removed" => ~iwd.station \/ \E j \in (i + 1)..Len(signals) : signals[j].kind = "added"
        /\ signals # <<>> /\ signals[Len(signals)].life = iwd.life => signals[Len(signals)].value = iwd.state

\* The news taken, what the observer knows is how iwd stands, or a signal
\* of this life has yet to tell it.
Informed == iwd.up /\ owners = <<>> /\ ~watch.crossed /\ watch.fails = 0
KnowsOrWillHear ==
    /\ Informed /\ watch.at \in {"idle", "joining"} =>
          \/ watch.known = iwd.station
          \/ \E i \in 1..Len(signals) : signals[i].life = iwd.life /\ signals[i].kind # "state"
    /\ Informed =>
          \/ /\ watch.at = "idle" => told = iwd.state
             /\ watch.at = "joining" => iwd.state = "connected"
          \/ \E i \in 1..Len(signals) : signals[i].life = iwd.life

IwdInv == IwdType /\ IwdSound /\ InOrderOfLives /\ NewsIsOfNow /\ UnknownIsOff /\ EndInNow /\ KnowsOrWillHear

\* A scan: what it waits for.
ScanRecs ==
    [at : {"none", "matched", "checking", "waiting", "answered", "timed out", "refused"}, seen : BOOLEAN,
     asked : Nat, ended : Nat]
ScanInv ==
    /\ scan \in ScanRecs
    /\ scan.at \in {"checking", "waiting"} /\ ~scan.seen => iwd.scans = scan.asked
    /\ ScanIsHeard

\* The kernel's events.
LinkEvents == {"new link", "del link"}
AddressEvents == {"new tentative", "new address", "del address"}
KernelRecs == [link : BOOLEAN, address : {"none", "tentative", "ready"}]
RtnlRecs == [at : {"links", "addresses", "following"}, known : BOOLEAN, up : BOOLEAN, address : BOOLEAN]
Later(q, i) == (i + 1)..Len(q)

RtnlType(k, q, r) ==
    /\ k \in KernelRecs /\ q \in Seq(LinkEvents \cup AddressEvents) /\ r \in RtnlRecs
    /\ k.address # "none" => k.link
    /\ r.up = r.known
    /\ r.at # "following" => ~r.address

\* The link: the events end in how it is, and with none left it is known.
LinkEnds(k, q, r) ==
    /\ \A i \in 1..Len(q) :
          /\ q[i] = "new link" => k.link \/ \E j \in Later(q, i) : q[j] = "del link"
          /\ q[i] = "del link" => ~k.link \/ \E j \in Later(q, i) : q[j] = "new link"
    /\ r.at = "links" \/ r.known = k.link \/ \E i \in 1..Len(q) : q[i] \in LinkEvents

\* An address is of a link that was there: it is reported after the link,
\* and one that the observer knows of is not ignored.
AddressAfterLink(k, q, r) ==
    /\ \A i \in 1..Len(q) : \A j \in Later(q, i) :
          q[i] = "del link" /\ q[j] \in AddressEvents => \E l \in (i + 1)..(j - 1) : q[l] = "new link"
    /\ \/ r.known \/ ~r.address
       \/ \A j \in 1..Len(q) : q[j] \in AddressEvents => \E i \in 1..(j - 1) : q[i] \in LinkEvents

\* The address: the events end in how it is.
AddressEnds(k, q, r) ==
    /\ \A i \in 1..Len(q) :
          /\ q[i] = "new address" => k.address = "ready" \/ \E j \in Later(q, i) : q[j] = "del address"
          /\ q[i] = "del address" => k.address # "ready" \/ \E j \in Later(q, i) : q[j] = "new address"
          /\ q[i] = "new address" /\ k.address = "ready" =>
                \/ \E j \in Later(q, i) : q[j] = "del address"
                \/ \A j \in Later(q, i) : q[j] \notin LinkEvents
    /\ \/ \E i \in 1..Len(q) : q[i] \in {"new address", "del address"}
       \/ IF r.at = "following" THEN r.address = (k.address = "ready") ELSE k.address # "ready"

RtnlHolds(k, q, r) ==
    RtnlType(k, q, r) /\ LinkEnds(k, q, r) /\ AddressAfterLink(k, q, r) /\ AddressEnds(k, q, r)
RtnlInv == RtnlHolds(kernel, events, rtnl)

\* Two gateways asked.
AskRecs ==
    [by : {"arp", "echo"}, at : {"none", "asking", "waiting", "answered", "failed"}, left : Nat, replied : BOOLEAN,
     beside : BOOLEAN]
GatewayInv ==
    /\ asks \in [1..2 -> AskRecs]
    /\ asks[1].at = "waiting" /\ asks[2].at = "waiting" => asks[1].beside /\ asks[2].beside
    /\ GatewayAnswered

\* A scan's parts.
GatherRecs ==
    [at : {"none", "scanning", "done"}, part : 0..3, held : SUBSET Parts, ended : Nat, got : SUBSET Parts,
     behind : BOOLEAN]
HeardInv ==
    /\ gather \in GatherRecs
    /\ gather.at = "none" => gather.part = 0
    /\ gather.at = "done" => gather.part = 3 /\ gather.ended = 0
    /\ ~gather.behind =>
          /\ gather.ended \in {0, 1}
          /\ gather.ended = 1 => gather.part > 0 /\ gather.held = {gather.part}
          /\ gather.got = 1..(gather.part - gather.ended)
    /\ gather.part > 0 => gather.held = {gather.part}

ObserveInv == IwdInv /\ ScanInv /\ RtnlInv /\ GatewayInv /\ HeardInv

-----------------------------------------------------------------------------
\* Streams.

\* A stream with something put at its end.
LEMMA Put ==
    ASSUME NEW S, NEW q \in Seq(S), NEW e \in S
    PROVE  /\ Append(q, e) \in Seq(S) /\ Append(q, e) # <<>>
           /\ Len(q) \in Nat /\ Len(Append(q, e)) = Len(q) + 1
           /\ Append(q, e)[Len(q) + 1] = e
           /\ \A i \in 1..Len(q) : Append(q, e)[i] = q[i] /\ q[i] \in S
  BY AppendProperties, ElementOfSeq, LenProperties

\* A stream whose first is taken.
LEMMA Taken ==
    ASSUME NEW S, NEW q \in Seq(S), q # <<>>
    PROVE  /\ Tail(q) \in Seq(S) /\ Head(q) \in S /\ Head(q) = q[1]
           /\ Len(q) \in Nat \ {0} /\ Len(Tail(q)) = Len(q) - 1
           /\ \A i \in 1..Len(Tail(q)) : Tail(q)[i] = q[i + 1] /\ q[i + 1] \in S
           /\ Tail(q) # <<>> => Len(Tail(q)) \in Nat \ {0}
           /\ Tail(q) = <<>> => Len(Tail(q)) = 0
<1>1. Tail(q) \in Seq(S) /\ Head(q) \in S /\ Len(Tail(q)) = Len(q) - 1
      /\ \A i \in 1..Len(Tail(q)) : Tail(q)[i] = q[i + 1]
  BY HeadTailProperties
<1>2. Len(q) \in Nat \ {0} /\ Head(q) = q[1]
  BY EmptySeq
<1>3. \A i \in 1..Len(Tail(q)) : q[i + 1] \in S
  BY <1>1, <1>2, ElementOfSeq
<1>4. (Tail(q) # <<>> => Len(Tail(q)) \in Nat \ {0}) /\ (Tail(q) = <<>> => Len(Tail(q)) = 0)
  BY <1>1, EmptySeq
<1>5. QED
  BY <1>1, <1>2, <1>3, <1>4

-----------------------------------------------------------------------------
\* iwd and its observer.

LEMMA IwdAtFirst == ASSUME ObserveInit PROVE IwdInv
<1>1. iwd \in IwdRecs /\ iwd.up /\ iwd.life = 1 /\ iwd.station /\ iwd.state = "disconnected"
  BY DEF ObserveInit, IwdRecs, States
<1>2. watch \in WatchRecs /\ watch.at = "registering" /\ ~watch.known /\ told = "disconnected"
  BY DEF ObserveInit, WatchRecs
<1>3. signals = <<>> /\ owners = <<>> /\ Len(signals) = 0
      /\ signals \in Seq(SignalRecs) /\ owners \in Seq({"gone", "here"})
  BY EmptySeq DEF ObserveInit
<1>4. IwdType
  BY <1>1, <1>2, <1>3 DEF IwdType, States
<1>5. IwdSound /\ InOrderOfLives /\ NewsIsOfNow /\ UnknownIsOff /\ EndInNow /\ KnowsOrWillHear
  BY <1>1, <1>2, <1>3 DEF IwdSound, InOrderOfLives, NewsIsOfNow, UnknownIsOff, EndInNow, KnowsOrWillHear, Informed
<1>6. QED
  BY <1>4, <1>5 DEF IwdInv

\* A station that changes says so: what is read of it, and what it was
\* before, being the same, its signals still end in how it is.
LEMMA Emitted ==
    ASSUME IwdInv, iwd.up, NEW kind \in {"state", "added", "removed"}, NEW value \in States,
           signals' = Append(signals, [kind |-> kind, value |-> value, life |-> iwd.life]),
           NEW there \in BOOLEAN, NEW scanning \in BOOLEAN,
           iwd' = [iwd EXCEPT !.station = there, !.state = value, !.scanning = scanning],
           ~there => value = "disconnected",
           kind # "state" => value = "disconnected",
           kind = "added" => there, kind = "removed" => ~there, kind = "state" => there = iwd.station,
           UNCHANGED <<owners, watch, told>>
    PROVE  IwdInv'
<1> DEFINE n == Len(signals)  s == [kind |-> kind, value |-> value, life |-> iwd.life]
<1>1. iwd \in IwdRecs /\ signals \in Seq(SignalRecs) /\ owners \in Seq({"gone", "here"}) /\ watch \in WatchRecs
      /\ told \in States
  BY DEF IwdInv, IwdType
<1>2. s \in SignalRecs /\ s.kind = kind /\ s.value = value /\ s.life = iwd.life
  BY <1>1 DEF SignalRecs, IwdRecs
<1>3. iwd' \in IwdRecs /\ iwd'.up = iwd.up /\ iwd'.life = iwd.life /\ iwd'.station = there /\ iwd'.state = value
  BY <1>1 DEF IwdRecs
<1>4. /\ signals' \in Seq(SignalRecs) /\ signals' # <<>> /\ n \in Nat /\ Len(signals') = n + 1
      /\ signals'[n + 1] = s
      /\ \A i \in 1..n : signals'[i] = signals[i] /\ signals[i] \in SignalRecs
  BY <1>1, <1>2, Put
<1>5. iwd.life \in Nat /\ \A i \in 1..n : signals[i].life \in Nat
  BY <1>1, <1>4 DEF IwdRecs, SignalRecs
<1> HIDE DEF n, s
<1>6. IwdType' /\ IwdSound'
  BY <1>1, <1>3, <1>4 DEF IwdType, IwdSound
<1>7. InOrderOfLives'
  BY <1>2, <1>3, <1>4, <1>5 DEF IwdInv, InOrderOfLives, n
<1>8. NewsIsOfNow' /\ UnknownIsOff'
  BY <1>3 DEF IwdInv, NewsIsOfNow, UnknownIsOff
<1>9. EndInNow'
  <2> DEFINE FollowsIt(i) ==
               /\ signals'[i].kind = "added" => there \/ \E j \in (i + 1)..(n + 1) : signals'[j].kind = "removed"
               /\ signals'[i].kind = "removed" => ~there \/ \E j \in (i + 1)..(n + 1) : signals'[j].kind = "added"
  <2>1. FollowsIt(n + 1)
    BY <1>2, <1>4
  <2>2. ASSUME NEW i \in 1..n, signals'[i].life = iwd.life PROVE FollowsIt(i)
    <3>1. signals'[i] = signals[i] /\ signals[i].life = iwd.life
      BY <2>2, <1>4
    <3>2. CASE kind = "state"
      <4>1. /\ signals[i].kind = "added" => iwd.station \/ \E j \in (i + 1)..n : signals[j].kind = "removed"
            /\ signals[i].kind = "removed" => ~iwd.station \/ \E j \in (i + 1)..n : signals[j].kind = "added"
        BY <3>1 DEF IwdInv, EndInNow, n
      <4>2. \A j \in (i + 1)..n : j \in (i + 1)..(n + 1) /\ signals'[j] = signals[j]
        BY <1>4
      <4>3. QED
        BY <3>1, <3>2, <4>1, <4>2
    <3>3. CASE kind # "state"
      <4>1. n + 1 \in (i + 1)..(n + 1) /\ signals'[n + 1].kind = kind
        BY <1>2, <1>4
      <4>2. QED
        BY <4>1, <3>3
    <3>4. QED
      BY <3>2, <3>3
  <2>3. \A i \in 1..Len(signals') : signals'[i].life = iwd'.life => FollowsIt(i)
    BY <2>1, <2>2, <1>3, <1>4
  <2>4. signals'[Len(signals')].value = iwd'.state
    BY <1>2, <1>3, <1>4
  <2>5. QED
    BY <2>3, <2>4, <1>3, <1>4 DEF EndInNow
<1>10. KnowsOrWillHear'
  <2>1. n + 1 \in 1..Len(signals') /\ signals'[n + 1].life = iwd'.life /\ signals'[n + 1].kind = kind
    BY <1>2, <1>3, <1>4
  <2>2. \A i \in 1..n : i \in 1..Len(signals') /\ signals'[i] = signals[i]
    BY <1>4
  <2>3. Informed' => Informed
    BY <1>3 DEF Informed
  <2>4. CASE kind = "state"
    BY <2>1, <2>2, <2>3, <2>4, <1>3 DEF IwdInv, KnowsOrWillHear, n
  <2>5. CASE kind # "state"
    BY <2>1, <2>5 DEF KnowsOrWillHear
  <2>6. QED
    BY <2>4, <2>5
<1>11. QED
  BY <1>6, <1>7, <1>8, <1>9, <1>10 DEF IwdInv

LEMMA IwdMovesKeeps == IwdInv /\ IwdMoves => IwdInv'
<1> SUFFICES ASSUME IwdInv, NEW s \in States \ {iwd.state}, iwd.up, iwd.station,
                    iwd' = [iwd EXCEPT !.state = s], signals' = Append(signals, Signal("state", s)),
                    UNCHANGED <<owners, watch, told>>
             PROVE  IwdInv'
  BY DEF IwdMoves, Emits
<1>1. iwd \in IwdRecs
  BY DEF IwdInv, IwdType
<1>2. iwd' = [iwd EXCEPT !.station = iwd.station, !.state = s, !.scanning = iwd.scanning]
      /\ iwd.scanning \in BOOLEAN /\ iwd.station \in BOOLEAN
  BY <1>1 DEF IwdRecs
<1>3. QED
  BY <1>2, Emitted DEF Signal

LEMMA StationGoesKeeps == IwdInv /\ StationGoes => IwdInv'
  BY Emitted DEF StationGoes, Emits, Signal, States

LEMMA StationComesKeeps == IwdInv /\ StationComes => IwdInv'
<1> SUFFICES ASSUME IwdInv, StationComes PROVE IwdInv'
  OBVIOUS
<1>1. iwd \in IwdRecs /\ iwd.up /\ iwd.state = "disconnected"
  BY DEF IwdInv, IwdType, IwdSound, StationComes
<1>2. iwd' = [iwd EXCEPT !.station = TRUE, !.state = "disconnected", !.scanning = iwd.scanning]
      /\ iwd.scanning \in BOOLEAN
  BY <1>1 DEF IwdRecs, StationComes
<1>3. QED
  BY <1>1, <1>2, Emitted DEF StationComes, Emits, Signal, States

\* What the observer and its streams are left as they were by.
LEMMA IwdDiesKeeps == ASSUME IwdInv, IwdDies PROVE IwdInv'
<1>1. iwd \in IwdRecs /\ signals \in Seq(SignalRecs) /\ owners \in Seq({"gone", "here"}) /\ watch \in WatchRecs
      /\ told \in States
  BY DEF IwdInv, IwdType
<1>2. iwd' \in IwdRecs /\ ~iwd'.up /\ iwd'.life = iwd.life /\ ~iwd'.station /\ iwd'.state = "disconnected"
  BY <1>1 DEF IwdDies, IwdRecs, States
<1>3. /\ owners' \in Seq({"gone", "here"}) /\ owners' # <<>> /\ owners'[Len(owners')] = "gone"
  <2>1. "gone" \in {"gone", "here"}
    OBVIOUS
  <2>2. owners' = Append(owners, "gone")
    BY DEF IwdDies
  <2>3. QED
    BY <1>1, <2>1, <2>2, Put
<1>4. UNCHANGED <<signals, watch, told>>
  BY DEF IwdDies
<1>5. IwdType' /\ IwdSound'
  BY <1>1, <1>2, <1>3, <1>4 DEF IwdType, IwdSound
<1>6. InOrderOfLives'
  BY <1>2, <1>4 DEF IwdInv, InOrderOfLives
<1>7. NewsIsOfNow' /\ UnknownIsOff' /\ EndInNow' /\ KnowsOrWillHear'
  BY <1>2, <1>3, <1>4 DEF IwdInv, NewsIsOfNow, UnknownIsOff, EndInNow, KnowsOrWillHear, Informed
<1>8. QED
  BY <1>5, <1>6, <1>7 DEF IwdInv

LEMMA IwdStartsAgain == ASSUME IwdInv, IwdStarts PROVE IwdInv'
<1>1. iwd \in IwdRecs /\ signals \in Seq(SignalRecs) /\ owners \in Seq({"gone", "here"}) /\ watch \in WatchRecs
      /\ told \in States
  BY DEF IwdInv, IwdType
<1>2. iwd' \in IwdRecs /\ iwd'.up /\ iwd'.life = iwd.life + 1 /\ ~iwd'.station /\ iwd'.state = "disconnected"
      /\ iwd.life \in Nat
  <2>1. iwd.life \in Nat /\ ~iwd.station /\ iwd.state = "disconnected"
    BY <1>1 DEF IwdStarts, IwdRecs, IwdInv, IwdSound
  <2>2. iwd' = [iwd EXCEPT !.up = TRUE, !.life = iwd.life + 1]
    BY DEF IwdStarts
  <2>3. iwd.life + 1 \in Nat
    BY <2>1
  <2>4. QED
    BY <1>1, <2>1, <2>2, <2>3 DEF IwdRecs
<1>3. /\ owners' \in Seq({"gone", "here"}) /\ owners' # <<>> /\ owners'[Len(owners')] = "here"
  <2>1. "here" \in {"gone", "here"}
    OBVIOUS
  <2>2. owners' = Append(owners, "here")
    BY DEF IwdStarts
  <2>3. QED
    BY <1>1, <2>1, <2>2, Put
<1>4. UNCHANGED <<signals, watch, told>>
  BY DEF IwdStarts
<1>5. \A i \in 1..Len(signals) : signals[i].life \in Nat /\ signals[i].life <= iwd.life
  <2>1. \A i \in 1..Len(signals) : signals[i] \in SignalRecs
    BY <1>1, ElementOfSeq
  <2>2. QED
    BY <2>1 DEF SignalRecs, IwdInv, InOrderOfLives
<1>6. IwdType' /\ IwdSound'
  BY <1>1, <1>2, <1>3, <1>4 DEF IwdType, IwdSound
<1>7. InOrderOfLives'
  BY <1>2, <1>4, <1>5 DEF IwdInv, InOrderOfLives
<1>8. signals # <<>> => Len(signals) \in 1..Len(signals)
  BY <1>1, EmptySeq
<1>9. EndInNow'
  BY <1>2, <1>4, <1>5, <1>8 DEF EndInNow
<1>10. NewsIsOfNow' /\ UnknownIsOff' /\ KnowsOrWillHear'
  BY <1>2, <1>3, <1>4 DEF IwdInv, NewsIsOfNow, UnknownIsOff, KnowsOrWillHear, Informed
<1>11. QED
  BY <1>6, <1>7, <1>9, <1>10 DEF IwdInv

\* A scan of iwd's own is nothing to its observer.
LEMMA ScanningKeeps ==
    ASSUME IwdInv, NEW b \in BOOLEAN, NEW n \in Nat, iwd' = [iwd EXCEPT !.scanning = b, !.scans = n],
           UNCHANGED <<signals, owners, watch, told>>
    PROVE  IwdInv'
<1>1. iwd \in IwdRecs
  BY DEF IwdInv, IwdType
<1>2. iwd' \in IwdRecs /\ iwd'.up = iwd.up /\ iwd'.life = iwd.life /\ iwd'.station = iwd.station /\ iwd'.state = iwd.state
  BY <1>1 DEF IwdRecs
<1>3. IwdType' /\ IwdSound' /\ InOrderOfLives'
  BY <1>2 DEF IwdInv, IwdType, IwdSound, InOrderOfLives
<1>4. NewsIsOfNow' /\ UnknownIsOff' /\ EndInNow' /\ KnowsOrWillHear'
  BY <1>2 DEF IwdInv, NewsIsOfNow, UnknownIsOff, EndInNow, KnowsOrWillHear, Informed
<1>5. QED
  BY <1>3, <1>4 DEF IwdInv

\* The observer alone takes a step.
LEMMA JoinsKeeps == ASSUME IwdInv, Joins \/ JoinFails PROVE IwdInv'
<1>1. iwd \in IwdRecs /\ signals \in Seq(SignalRecs) /\ owners \in Seq({"gone", "here"}) /\ watch \in WatchRecs
      /\ told \in States
  BY DEF IwdInv, IwdType
<1>2. UNCHANGED <<iwd, signals, owners>> /\ watch.at = "joining" /\ watch.known
  BY DEF Joins, JoinFails, IwdInv, UnknownIsOff
<1>3. /\ watch' \in WatchRecs /\ watch'.at = "idle" /\ watch'.known = watch.known /\ watch'.agent = watch.agent
      /\ watch'.crossed = watch.crossed /\ told' \in States
      /\ watch'.fails = 0 => watch.fails = 0 /\ told' = IF iwd.state = "connected" THEN "connected" ELSE "busy"
  <2>1. CASE Joins
    <3>1. watch' = [watch EXCEPT !.at = "idle"] /\ told' = IF iwd.state = "connected" THEN "connected" ELSE "busy"
      BY <2>1 DEF Joins
    <3>2. told' \in States
      BY <3>1 DEF States
    <3>3. QED
      BY <3>1, <3>2, <1>1 DEF WatchRecs
  <2>2. CASE JoinFails
    <3>1. watch' = [watch EXCEPT !.at = "idle", !.fails = @ + 1] /\ told' = "busy"
      BY <2>2 DEF JoinFails
    <3>2. told' \in States /\ watch.fails \in Nat
      BY <3>1, <1>1 DEF States, WatchRecs
    <3>3. watch.fails + 1 \in Nat /\ watch.fails + 1 # 0
      BY <3>2
    <3>4. watch' \in WatchRecs /\ watch'.at = "idle" /\ watch'.known = watch.known /\ watch'.agent = watch.agent
          /\ watch'.crossed = watch.crossed /\ watch'.fails = watch.fails + 1
      BY <3>1, <3>3, <1>1 DEF WatchRecs
    <3>5. QED
      BY <3>2, <3>3, <3>4
  <2>3. QED
    BY <2>1, <2>2
<1>4. IwdType' /\ IwdSound' /\ InOrderOfLives'
  BY <1>1, <1>2, <1>3 DEF IwdInv, IwdType, IwdSound, InOrderOfLives
<1>5. NewsIsOfNow' /\ UnknownIsOff' /\ EndInNow'
  BY <1>2, <1>3 DEF IwdInv, NewsIsOfNow, UnknownIsOff, EndInNow
<1>6. KnowsOrWillHear'
  BY <1>2, <1>3 DEF IwdInv, KnowsOrWillHear, Informed
<1>7. QED
  BY <1>4, <1>5, <1>6 DEF IwdInv

LEMMA RegistersKeeps == ASSUME IwdInv, Registers PROVE IwdInv'
<1>1. iwd \in IwdRecs /\ watch \in WatchRecs
  BY DEF IwdInv, IwdType
<1>2. UNCHANGED <<iwd, signals, owners, told>> /\ watch.at = "registering" /\ ~watch.known
  BY DEF Registers, IwdInv, UnknownIsOff
<1>3. /\ watch' \in WatchRecs /\ watch'.at = "resyncing" /\ watch'.known = watch.known /\ watch'.crossed = watch.crossed
      /\ watch'.fails = watch.fails /\ (iwd.up => watch'.agent = iwd.life)
  BY <1>1 DEF Registers, WatchRecs, IwdRecs
<1>4. IwdType' /\ IwdSound' /\ InOrderOfLives'
  BY <1>2, <1>3 DEF IwdInv, IwdType, IwdSound, InOrderOfLives
<1>5. NewsIsOfNow' /\ UnknownIsOff' /\ EndInNow' /\ KnowsOrWillHear'
  BY <1>2, <1>3 DEF IwdInv, NewsIsOfNow, UnknownIsOff, EndInNow, KnowsOrWillHear, Informed
<1>6. QED
  BY <1>4, <1>5 DEF IwdInv

LEMMA ResyncFailsKeeps == ASSUME IwdInv, ResyncFails PROVE IwdInv'
<1>1. iwd \in IwdRecs /\ watch \in WatchRecs
  BY DEF IwdInv, IwdType
<1>2. UNCHANGED <<iwd, signals, owners, told>> /\ watch.at = "resyncing" /\ ~watch.known
  BY DEF ResyncFails, IwdInv, UnknownIsOff
<1>3. /\ watch' \in WatchRecs /\ watch'.at = "idle" /\ watch'.known = watch.known /\ watch'.crossed = watch.crossed
      /\ watch'.fails # 0 /\ watch'.agent = watch.agent
  <2>1. watch' = [watch EXCEPT !.at = "idle", !.fails = @ + 1] /\ watch.fails \in Nat
    BY <1>1 DEF ResyncFails, WatchRecs
  <2>2. watch.fails + 1 \in Nat /\ watch.fails + 1 # 0
    BY <2>1
  <2>3. QED
    BY <2>1, <2>2, <1>1 DEF WatchRecs
<1>4. IwdType' /\ IwdSound' /\ InOrderOfLives'
  BY <1>2, <1>3 DEF IwdInv, IwdType, IwdSound, InOrderOfLives
<1>5. NewsIsOfNow' /\ UnknownIsOff' /\ EndInNow' /\ KnowsOrWillHear'
  BY <1>2, <1>3 DEF IwdInv, NewsIsOfNow, UnknownIsOff, EndInNow, KnowsOrWillHear, Informed
<1>6. QED
  BY <1>4, <1>5 DEF IwdInv

LEMMA ResyncsKeeps == ASSUME IwdInv, Resyncs PROVE IwdInv'
<1>1. iwd \in IwdRecs /\ watch \in WatchRecs /\ told \in States
  BY DEF IwdInv, IwdType
<1>2. UNCHANGED <<iwd, signals, owners>> /\ watch.at = "resyncing" /\ ~watch.known /\ told = "disconnected"
  BY DEF Resyncs, IwdInv, UnknownIsOff
<1>3. /\ watch' \in WatchRecs /\ watch'.crossed = watch.crossed /\ watch'.fails = watch.fails /\ watch'.agent = watch.agent
      /\ watch'.known = iwd.station
      /\ watch'.at = IF iwd.station /\ iwd.state = "connected" THEN "joining" ELSE "idle"
  <2>1. CASE iwd.station /\ iwd.state = "connected"
    <3>1. watch' = [watch EXCEPT !.known = TRUE, !.at = "joining"]
      BY <2>1 DEF Resyncs
    <3>2. QED
      BY <2>1, <3>1, <1>1 DEF WatchRecs
  <2>2. CASE iwd.station /\ iwd.state # "connected"
    <3>1. watch' = [watch EXCEPT !.known = TRUE, !.at = "idle"]
      BY <2>2 DEF Resyncs
    <3>2. QED
      BY <2>2, <3>1, <1>1 DEF WatchRecs
  <2>3. CASE ~iwd.station
    <3>1. watch' = [watch EXCEPT !.at = "idle"]
      BY <2>3 DEF Resyncs
    <3>2. iwd.station = FALSE /\ watch.known = FALSE
      BY <2>3, <1>1, <1>2 DEF IwdRecs, WatchRecs
    <3>3. QED
      BY <2>3, <3>1, <3>2, <1>1 DEF WatchRecs
  <2>4. QED
    BY <2>1, <2>2, <2>3
<1>4. told' = IF iwd.station /\ iwd.state # "connected" THEN iwd.state ELSE told
  BY DEF Resyncs
<1>5. ~iwd.station => iwd.state = "disconnected"
  BY DEF IwdInv, IwdSound
<1>6. IwdType' /\ IwdSound' /\ InOrderOfLives'
  BY <1>1, <1>2, <1>3, <1>4 DEF IwdInv, IwdType, IwdSound, InOrderOfLives, IwdRecs
<1>7. NewsIsOfNow' /\ EndInNow'
  BY <1>2, <1>3 DEF IwdInv, NewsIsOfNow, EndInNow
<1>8. UnknownIsOff'
  BY <1>2, <1>3, <1>4, <1>5 DEF UnknownIsOff
<1>9. KnowsOrWillHear'
  BY <1>2, <1>3, <1>4, <1>5 DEF KnowsOrWillHear, Informed
<1>10. QED
  BY <1>6, <1>7, <1>8, <1>9 DEF IwdInv

LEMMA TakesOwnerKeeps == ASSUME IwdInv, TakesOwner PROVE IwdInv'
<1> DEFINE o == Head(owners)
<1>1. iwd \in IwdRecs /\ signals \in Seq(SignalRecs) /\ owners \in Seq({"gone", "here"}) /\ watch \in WatchRecs
      /\ told \in States
  BY DEF IwdInv, IwdType
<1>2. UNCHANGED <<iwd, signals>> /\ watch.at = "idle" /\ owners # <<>> /\ owners' = Tail(owners)
  BY DEF TakesOwner, AtRest
<1>3. /\ owners' \in Seq({"gone", "here"}) /\ o = owners[1] /\ Len(owners) \in Nat \ {0}
      /\ Len(owners') = Len(owners) - 1 /\ \A i \in 1..Len(owners') : owners'[i] = owners[i + 1]
      /\ owners' # <<>> => Len(owners') \in Nat \ {0}
      /\ owners' = <<>> => Len(owners') = 0
  BY <1>1, <1>2, Taken
<1>4. /\ owners' # <<>> => owners'[Len(owners')] = owners[Len(owners)]
      /\ owners' = <<>> => o = owners[Len(owners)]
  BY <1>3
<1>5. owners[Len(owners)] = "here" <=> iwd.up
  BY <1>2 DEF IwdInv, NewsIsOfNow
<1>6. /\ watch' \in WatchRecs /\ ~watch'.known /\ watch'.at = IF o = "here" THEN "registering" ELSE "idle"
      /\ told' = "disconnected"
  <2>1. told' = "disconnected"
    BY DEF TakesOwner, IwdInv, UnknownIsOff
  <2>2. watch' = [watch EXCEPT !.known = FALSE, !.at = IF o = "here" THEN "registering" ELSE "idle"]
    BY DEF TakesOwner, Forgets
  <2>3. QED
    BY <1>1, <2>1, <2>2 DEF WatchRecs
<1> HIDE DEF o
<1>7. IwdType' /\ IwdSound' /\ InOrderOfLives'
  BY <1>1, <1>2, <1>3, <1>6 DEF IwdInv, IwdType, IwdSound, InOrderOfLives, States
<1>8. NewsIsOfNow' /\ UnknownIsOff' /\ EndInNow'
  BY <1>2, <1>4, <1>5, <1>6 DEF IwdInv, NewsIsOfNow, UnknownIsOff, EndInNow
<1>9. KnowsOrWillHear'
  BY <1>2, <1>4, <1>5, <1>6 DEF KnowsOrWillHear, Informed
<1>10. QED
  BY <1>7, <1>8, <1>9 DEF IwdInv

\* A signal taken, the news of iwd's owner not counting: what is left of
\* the stream ends as it did.
LEMMA LeftOfSignals ==
    ASSUME IwdInv, signals # <<>>
    PROVE  LET q == Tail(signals) s == Head(signals) IN
           /\ q \in Seq(SignalRecs) /\ s \in SignalRecs /\ s.life \in Nat /\ iwd.life \in Nat /\ s.life <= iwd.life
           /\ s.kind # "state" => s.value = "disconnected"
           /\ \A i \in 1..Len(q) : q[i].life <= iwd.life /\ (q[i].kind # "state" => q[i].value = "disconnected")
           /\ \A i, j \in 1..Len(q) : i < j => q[i].life <= q[j].life
           /\ iwd.up =>
                 /\ \A i \in 1..Len(q) : q[i].life = iwd.life =>
                       /\ q[i].kind = "added" => iwd.station \/ \E j \in (i + 1)..Len(q) : q[j].kind = "removed"
                       /\ q[i].kind = "removed" => ~iwd.station \/ \E j \in (i + 1)..Len(q) : q[j].kind = "added"
                 /\ q # <<>> /\ q[Len(q)].life = iwd.life => q[Len(q)].value = iwd.state
           /\ (\E i \in 1..Len(signals) : signals[i].life = iwd.life) /\ s.life # iwd.life =>
                 \E i \in 1..Len(q) : q[i].life = iwd.life
           /\ (\E i \in 1..Len(signals) : signals[i].life = iwd.life /\ signals[i].kind # "state")
              /\ (s.life # iwd.life \/ s.kind = "state") =>
                 \E i \in 1..Len(q) : q[i].life = iwd.life /\ q[i].kind # "state"
           /\ iwd.up /\ s.life = iwd.life /\ ~(\E i \in 1..Len(q) : q[i].life = iwd.life) => s.value = iwd.state
           /\ iwd.up /\ s.life = iwd.life /\ s.kind = "added" =>
                 iwd.station \/ \E i \in 1..Len(q) : q[i].life = iwd.life /\ q[i].kind # "state"
           /\ iwd.up /\ s.life = iwd.life /\ s.kind = "removed" =>
                 ~iwd.station \/ \E i \in 1..Len(q) : q[i].life = iwd.life /\ q[i].kind # "state"
<1> DEFINE q == Tail(signals)  s == Head(signals)  n == Len(signals)
<1>1. iwd \in IwdRecs /\ signals \in Seq(SignalRecs)
  BY DEF IwdInv, IwdType
<1>2. /\ q \in Seq(SignalRecs) /\ s \in SignalRecs /\ s = signals[1] /\ n \in Nat \ {0} /\ Len(q) = n - 1
      /\ \A i \in 1..(n - 1) : q[i] = signals[i + 1] /\ signals[i + 1] \in SignalRecs
      /\ q # <<>> => n > 1
  BY <1>1, Taken
<1>3. s.life \in Nat /\ iwd.life \in Nat /\ \A i \in 1..(n - 1) : q[i].life \in Nat
  BY <1>1, <1>2 DEF IwdRecs, SignalRecs
<1> HIDE DEF q, s
<1>4. /\ \A i \in 1..n : signals[i].life <= iwd.life /\ (signals[i].kind # "state" => signals[i].value = "disconnected")
      /\ \A i, j \in 1..n : i < j => signals[i].life <= signals[j].life
  BY DEF IwdInv, InOrderOfLives
<1> HIDE DEF n
<1>5. 1 \in 1..n /\ \A i \in 1..(n - 1) : i + 1 \in 1..n
  BY <1>2
<1>6. /\ \A i \in 1..Len(q) : q[i].life <= iwd.life /\ (q[i].kind # "state" => q[i].value = "disconnected")
      /\ \A i, j \in 1..Len(q) : i < j => q[i].life <= q[j].life
      /\ s.life <= iwd.life /\ (s.kind # "state" => s.value = "disconnected")
      /\ \A i \in 1..Len(q) : s.life <= q[i].life
  <2>1. \A i \in 1..Len(q) : i \in 1..(n - 1) /\ i + 1 \in 1..n /\ 1 < i + 1 /\ q[i] = signals[i + 1]
    BY <1>2, <1>5
  <2>2. \A i, j \in 1..Len(q) : i < j => i + 1 < j + 1
    BY <1>2
  <2>3. \A i \in 1..Len(q) : q[i].life <= iwd.life /\ (q[i].kind # "state" => q[i].value = "disconnected")
    BY <2>1, <1>4
  <2>4. \A i, j \in 1..Len(q) : i < j => q[i].life <= q[j].life
    BY <2>1, <2>2, <1>4
  <2>5. s.life <= iwd.life /\ (s.kind # "state" => s.value = "disconnected")
    BY <1>2, <1>4, <1>5
  <2>6. \A i \in 1..Len(q) : s.life <= q[i].life
    BY <2>1, <1>2, <1>4, <1>5
  <2>7. QED
    BY <2>3, <2>4, <2>5, <2>6
<1>7. \A i \in 1..n : i = 1 \/ (i - 1 \in 1..(n - 1) /\ q[i - 1] = signals[i])
  BY <1>2
<1>8. ASSUME iwd.up, NEW i \in 1..n, signals[i].life = iwd.life
      PROVE  /\ signals[i].kind = "added" => iwd.station \/ \E j \in i..Len(q) : q[j].kind = "removed"
             /\ signals[i].kind = "removed" => ~iwd.station \/ \E j \in i..Len(q) : q[j].kind = "added"
  <2>1. /\ signals[i].kind = "added" => iwd.station \/ \E j \in (i + 1)..n : signals[j].kind = "removed"
        /\ signals[i].kind = "removed" => ~iwd.station \/ \E j \in (i + 1)..n : signals[j].kind = "added"
    BY <1>8 DEF IwdInv, EndInNow, n
  <2>2. \A j \in (i + 1)..n : j - 1 \in i..Len(q) /\ q[j - 1] = signals[j]
    BY <1>2
  <2>3. QED
    BY <2>1, <2>2
<1>9. iwd.up => \A i \in 1..Len(q) : q[i].life = iwd.life =>
                       /\ q[i].kind = "added" => iwd.station \/ \E j \in (i + 1)..Len(q) : q[j].kind = "removed"
                       /\ q[i].kind = "removed" => ~iwd.station \/ \E j \in (i + 1)..Len(q) : q[j].kind = "added"
  BY <1>2, <1>5, <1>8
<1>10. iwd.up /\ q # <<>> /\ q[Len(q)].life = iwd.life => q[Len(q)].value = iwd.state
  <2>1. q # <<>> => q[Len(q)] = signals[n]
    BY <1>2
  <2>2. QED
    BY <2>1 DEF IwdInv, EndInNow, n, q
<1>11. iwd.up /\ s.life = iwd.life /\ ~(\E i \in 1..Len(q) : q[i].life = iwd.life) => s.value = iwd.state
  <2> SUFFICES ASSUME iwd.up, s.life = iwd.life, ~(\E i \in 1..Len(q) : q[i].life = iwd.life) PROVE s.value = iwd.state
    OBVIOUS
  <2>1. \A i \in 1..Len(q) : q[i].life = iwd.life
    BY <1>2, <1>3, <1>6
  <2>2. n = 1
    BY <2>1, <1>2
  <2>3. QED
    BY <2>2, <1>2 DEF IwdInv, EndInNow, n
<1>12. s.life = iwd.life => \A i \in 1..Len(q) : q[i].life = iwd.life
  BY <1>2, <1>3, <1>6
<1>13. iwd.up /\ s.life = iwd.life =>
            /\ s.kind = "added" => iwd.station \/ \E i \in 1..Len(q) : q[i].life = iwd.life /\ q[i].kind # "state"
            /\ s.kind = "removed" => ~iwd.station \/ \E i \in 1..Len(q) : q[i].life = iwd.life /\ q[i].kind # "state"
  BY <1>2, <1>5, <1>8, <1>12
<1>14. \A i \in 1..n : signals[i] = s \/ \E j \in 1..Len(q) : q[j] = signals[i]
  BY <1>2, <1>7
<1>15. /\ (\E i \in 1..n : signals[i].life = iwd.life) /\ s.life # iwd.life => \E i \in 1..Len(q) : q[i].life = iwd.life
       /\ (\E i \in 1..n : signals[i].life = iwd.life /\ signals[i].kind # "state")
          /\ (s.life # iwd.life \/ s.kind = "state") => \E i \in 1..Len(q) : q[i].life = iwd.life /\ q[i].kind # "state"
  BY <1>14
<1>16. QED
  BY <1>2, <1>3, <1>6, <1>9, <1>10, <1>11, <1>13, <1>15 DEF q, s, n

\* What is told of a signal, and what is known after it, is of this life
\* or has the rest of the stream to put it right.
LEMMA TakesSignalKeeps == ASSUME IwdInv, TakesSignal PROVE IwdInv'
<1> DEFINE q == Tail(signals)  s == Head(signals)  late == s.life < iwd.life /\ owners = <<>>
           Ahead == \E i \in 1..Len(q) : q[i].life = iwd.life
           ComesOrGoes == \E i \in 1..Len(q) : q[i].life = iwd.life /\ q[i].kind # "state"
<1>1. iwd \in IwdRecs /\ signals \in Seq(SignalRecs) /\ owners \in Seq({"gone", "here"}) /\ watch \in WatchRecs
      /\ told \in States
  BY DEF IwdInv, IwdType
<1>2. UNCHANGED <<iwd, owners>> /\ watch.at = "idle" /\ signals # <<>> /\ signals' = q
  BY DEF TakesSignal, AtRest
<1>3. /\ q \in Seq(SignalRecs) /\ s \in SignalRecs /\ s.life \in Nat /\ iwd.life \in Nat /\ s.life <= iwd.life
      /\ s.kind # "state" => s.value = "disconnected"
      /\ \A i \in 1..Len(q) : q[i].life <= iwd.life /\ (q[i].kind # "state" => q[i].value = "disconnected")
      /\ \A i, j \in 1..Len(q) : i < j => q[i].life <= q[j].life
  BY <1>2, LeftOfSignals
<1>4. iwd.up =>
         /\ \A i \in 1..Len(q) : q[i].life = iwd.life =>
               /\ q[i].kind = "added" => iwd.station \/ \E j \in (i + 1)..Len(q) : q[j].kind = "removed"
               /\ q[i].kind = "removed" => ~iwd.station \/ \E j \in (i + 1)..Len(q) : q[j].kind = "added"
         /\ q # <<>> /\ q[Len(q)].life = iwd.life => q[Len(q)].value = iwd.state
  BY <1>2, LeftOfSignals
<1>5. /\ (\E i \in 1..Len(signals) : signals[i].life = iwd.life) /\ s.life # iwd.life => Ahead
      /\ (\E i \in 1..Len(signals) : signals[i].life = iwd.life /\ signals[i].kind # "state")
         /\ (s.life # iwd.life \/ s.kind = "state") => ComesOrGoes
      /\ iwd.up /\ s.life = iwd.life =>
            /\ ~Ahead => s.value = iwd.state
            /\ s.kind = "added" => iwd.station \/ ComesOrGoes
            /\ s.kind = "removed" => ~iwd.station \/ ComesOrGoes
  BY <1>2, LeftOfSignals
<1>6. ComesOrGoes => Ahead
  OBVIOUS
<1>7. s.kind \in {"state", "added", "removed"} /\ s.value \in States
  BY <1>3 DEF SignalRecs
<1>8. \/ s.kind = "state" /\ ~watch.known /\ UNCHANGED <<watch, told>>
      \/ /\ s.kind = "state" /\ watch.known
         /\ told' = IF s.value = "connected" THEN told ELSE s.value
         /\ watch' = [watch EXCEPT !.at = IF s.value = "connected" THEN "joining" ELSE "idle",
                                   !.crossed = watch.crossed \/ late]
      \/ /\ s.kind = "added"
         /\ told' = s.value /\ watch' = [watch EXCEPT !.known = TRUE, !.crossed = watch.crossed \/ late]
      \/ /\ s.kind = "removed"
         /\ told' = IF watch.known THEN "disconnected" ELSE told
         /\ watch' = [watch EXCEPT !.known = FALSE, !.crossed = watch.crossed \/ (late /\ watch.known)]
  BY DEF TakesSignal
<1>9. late \in BOOLEAN /\ (~late /\ owners = <<>> => s.life = iwd.life)
  BY <1>3
<1>10. watch.known \in BOOLEAN /\ watch.crossed \in BOOLEAN /\ iwd.station \in BOOLEAN
  BY <1>1 DEF WatchRecs, IwdRecs
<1> HIDE DEF late, s, q
<1>11. /\ watch' \in WatchRecs /\ watch'.agent = watch.agent /\ watch'.fails = watch.fails /\ told' \in States
       /\ \/ s.kind = "state" /\ ~watch.known /\ watch'.at = "idle" /\ ~watch'.known /\ watch'.crossed = watch.crossed
             /\ told' = told
          \/ /\ s.kind = "state" /\ watch.known /\ watch'.known
             /\ told' = IF s.value = "connected" THEN told ELSE s.value
             /\ watch'.at = IF s.value = "connected" THEN "joining" ELSE "idle"
             /\ watch'.crossed = (watch.crossed \/ late)
          \/ /\ s.kind = "added" /\ told' = s.value
             /\ watch'.at = "idle" /\ watch'.known /\ watch'.crossed = (watch.crossed \/ late)
          \/ /\ s.kind = "removed" /\ told' = IF watch.known THEN "disconnected" ELSE told
             /\ watch'.at = "idle" /\ ~watch'.known /\ watch'.crossed = (watch.crossed \/ (late /\ watch.known))
  <2>1. CASE s.kind = "state" /\ ~watch.known
    <3>1. UNCHANGED <<watch, told>>
      BY <2>1, <1>8
    <3>2. QED
      BY <2>1, <3>1, <1>1, <1>2
  <2>2. CASE s.kind = "state" /\ watch.known
    <3>1. /\ told' = IF s.value = "connected" THEN told ELSE s.value
          /\ watch' = [watch EXCEPT !.at = IF s.value = "connected" THEN "joining" ELSE "idle",
                                   !.crossed = watch.crossed \/ late]
      BY <2>2, <1>8
    <3>2. (watch.crossed \/ late) \in BOOLEAN /\ (IF s.value = "connected" THEN "joining" ELSE "idle") \in {"idle", "joining"}
      BY <1>9, <1>10
    <3>3. /\ watch' \in WatchRecs /\ watch'.agent = watch.agent /\ watch'.fails = watch.fails /\ watch'.known = watch.known
          /\ watch'.at = (IF s.value = "connected" THEN "joining" ELSE "idle") /\ watch'.crossed = (watch.crossed \/ late)
      BY <3>1, <3>2, <1>1 DEF WatchRecs
    <3>4. told' \in States
      BY <3>1, <1>1, <1>7
    <3>5. QED
      BY <2>2, <3>1, <3>3, <3>4
  <2>3. CASE s.kind = "added"
    <3>1. told' = s.value /\ watch' = [watch EXCEPT !.known = TRUE, !.crossed = watch.crossed \/ late]
      BY <2>3, <1>8
    <3>2. (watch.crossed \/ late) \in BOOLEAN
      BY <1>9, <1>10
    <3>3. /\ watch' \in WatchRecs /\ watch'.agent = watch.agent /\ watch'.fails = watch.fails /\ watch'.known = TRUE
          /\ watch'.at = watch.at /\ watch'.crossed = (watch.crossed \/ late)
      BY <3>1, <3>2, <1>1 DEF WatchRecs
    <3>4. QED
      BY <2>3, <3>1, <3>3, <1>2, <1>7
  <2>4. CASE s.kind = "removed"
    <3>1. /\ told' = IF watch.known THEN "disconnected" ELSE told
          /\ watch' = [watch EXCEPT !.known = FALSE, !.crossed = watch.crossed \/ (late /\ watch.known)]
      BY <2>4, <1>8
    <3>2. (watch.crossed \/ (late /\ watch.known)) \in BOOLEAN
      BY <1>9, <1>10
    <3>3. /\ watch' \in WatchRecs /\ watch'.agent = watch.agent /\ watch'.fails = watch.fails /\ watch'.known = FALSE
          /\ watch'.at = watch.at /\ watch'.crossed = (watch.crossed \/ (late /\ watch.known))
      BY <3>1, <3>2, <1>1 DEF WatchRecs
    <3>4. told' \in States
      BY <3>1, <1>1 DEF States
    <3>5. QED
      BY <2>4, <3>1, <3>3, <3>4, <1>2
  <2>5. QED
    BY <2>1, <2>2, <2>3, <2>4, <1>7, <1>10
<1>12. IwdType'
  BY <1>1, <1>2, <1>3, <1>11 DEF IwdType
<1>13. IwdSound' /\ InOrderOfLives' /\ EndInNow'
  BY <1>2, <1>3, <1>4 DEF IwdInv, IwdSound, InOrderOfLives, EndInNow
<1>14. NewsIsOfNow'
  BY <1>2, <1>11 DEF IwdInv, NewsIsOfNow
<1>15. UnknownIsOff'
  BY <1>3, <1>11 DEF IwdInv, UnknownIsOff
<1> DEFINE Settled(w, t) == \/ /\ w.at = "idle" => t = iwd.state
                               /\ w.at = "joining" => iwd.state = "connected"
                            \/ Ahead
<1>16. ASSUME iwd.up, owners = <<>>, ~watch'.crossed, watch.fails = 0
       PROVE  (watch'.known = iwd.station \/ ComesOrGoes) /\ Settled(watch', told')
  <2>1. ~watch.crossed /\ Informed
    BY <1>11, <1>16 DEF Informed
  <2>2. watch.known = iwd.station \/ \E i \in 1..Len(signals) : signals[i].life = iwd.life /\ signals[i].kind # "state"
    BY <2>1, <1>2 DEF IwdInv, KnowsOrWillHear
  <2>3. told = iwd.state \/ \E i \in 1..Len(signals) : signals[i].life = iwd.life
    BY <2>1, <1>2 DEF IwdInv, KnowsOrWillHear
  <2>4. /\ ~watch.known => told = "disconnected"
        /\ ~iwd.station => iwd.state = "disconnected"
    BY DEF IwdInv, UnknownIsOff, IwdSound
  <2> HIDE DEF Ahead, ComesOrGoes
  <2>5. CASE s.kind = "state" /\ ~watch.known
    <3>1. watch'.at = "idle" /\ ~watch'.known /\ told' = told
      BY <2>5, <1>11
    <3>2. ~iwd.station \/ ComesOrGoes
      BY <2>2, <2>5, <1>5, <1>10
    <3>3. told = iwd.state \/ Ahead
      BY <3>2, <2>4, <2>5, <1>6
    <3>4. watch'.known = FALSE
      BY <3>1, <1>11 DEF WatchRecs
    <3>5. QED
      BY <3>1, <3>2, <3>3, <3>4, <1>10
  <2>6. CASE s.kind = "state" /\ watch.known
    <3>1. ~late /\ s.life = iwd.life
      BY <2>6, <1>9, <1>11, <1>16
    <3>2. watch.known = iwd.station \/ ComesOrGoes
      BY <2>2, <2>6, <1>5
    <3>3. s.value = iwd.state \/ Ahead
      BY <3>1, <1>5, <1>16
    <3>4. watch'.known = watch.known
      BY <2>6, <1>10, <1>11 DEF WatchRecs
    <3>5. QED
      BY <2>6, <3>2, <3>3, <3>4, <1>11
  <2>7. CASE s.kind = "added"
    <3>1. s.life = iwd.life
      BY <2>7, <1>9, <1>11, <1>16
    <3>2. (iwd.station \/ ComesOrGoes) /\ (s.value = iwd.state \/ Ahead)
      BY <2>7, <3>1, <1>5, <1>16
    <3>3. watch'.known = TRUE /\ watch'.at = "idle" /\ told' = s.value
      BY <2>7, <1>11 DEF WatchRecs
    <3>4. QED
      BY <3>2, <3>3, <1>10
  <2>8. CASE s.kind = "removed"
    <3>1. watch'.known = FALSE /\ watch'.at = "idle" /\ told' = "disconnected"
      BY <2>4, <2>8, <1>11 DEF WatchRecs
    <3>2. CASE s.life = iwd.life
      <4>1. (~iwd.station \/ ComesOrGoes) /\ (s.value = iwd.state \/ Ahead) /\ s.value = "disconnected"
        BY <2>8, <3>2, <1>3, <1>5, <1>16
      <4>2. QED
        BY <3>1, <4>1, <1>10
    <3>3. CASE s.life # iwd.life
      <4>1. late /\ ~watch.known
        BY <2>8, <3>3, <1>9, <1>11, <1>16
      <4>2. ~iwd.station \/ ComesOrGoes
        BY <2>2, <3>3, <4>1, <1>5, <1>10
      <4>3. told = iwd.state \/ Ahead
        BY <4>1, <4>2, <2>4, <1>6
      <4>4. QED
        BY <3>1, <4>1, <4>2, <4>3, <2>4, <1>10
    <3>4. QED
      BY <3>2, <3>3
  <2>9. QED
    BY <2>5, <2>6, <2>7, <2>8, <1>7
<1>17. KnowsOrWillHear'
  BY <1>2, <1>11, <1>16 DEF KnowsOrWillHear, Informed
<1>18. QED
  BY <1>12, <1>13, <1>14, <1>15, <1>17 DEF IwdInv

LEMMA IwdNextKeeps == ASSUME IwdInv, IwdNext PROVE IwdInv'
  BY IwdMovesKeeps, StationGoesKeeps, StationComesKeeps, IwdDiesKeeps, IwdStartsAgain, TakesSignalKeeps, JoinsKeeps,
     TakesOwnerKeeps, RegistersKeeps, ResyncsKeeps, ResyncFailsKeeps DEF IwdNext

LEMMA IwdLeft == ASSUME IwdInv, UNCHANGED <<iwd, signals, owners, watch, told>> PROVE IwdInv'
<1>1. IwdType' /\ IwdSound' /\ InOrderOfLives'
  BY DEF IwdInv, IwdType, IwdSound, InOrderOfLives
<1>2. NewsIsOfNow' /\ UnknownIsOff' /\ EndInNow' /\ KnowsOrWillHear'
  BY DEF IwdInv, NewsIsOfNow, UnknownIsOff, EndInNow, KnowsOrWillHear, Informed
<1>3. QED
  BY <1>1, <1>2 DEF IwdInv

\* What the invariant says of a stream with nothing left in it.
LEMMA IwdTold == ASSUME IwdInv PROVE ToldAsItIs
<1> SUFFICES ASSUME watch.at = "idle", signals = <<>>, owners = <<>>, watch.fails = 0, ~watch.crossed, iwd.up
             PROVE  told = iwd.state /\ watch.known = iwd.station /\ watch.agent = iwd.life
  BY DEF ToldAsItIs, AtRest
<1>1. Informed /\ ~(\E i \in 1..Len(signals) : TRUE)
  BY EmptySeq DEF Informed
<1>2. watch.agent = iwd.life
  BY DEF IwdInv, NewsIsOfNow
<1>3. QED
  BY <1>1, <1>2 DEF IwdInv, KnowsOrWillHear

-----------------------------------------------------------------------------
\* A scan.

LEMMA ScanAtFirst == ASSUME ObserveInit PROVE ScanInv
  BY DEF ObserveInit, ScanInv, ScanRecs, ScanIsHeard

LEMMA ScanLeft == ASSUME ScanInv, UNCHANGED scan, iwd'.scans = iwd.scans PROVE ScanInv'
  BY DEF ScanInv, ScanIsHeard

LEMMA ScansAreIwds == ASSUME IwdInv, IwdNext PROVE UNCHANGED scan /\ iwd'.scans = iwd.scans
<1>1. iwd \in IwdRecs
  BY DEF IwdInv, IwdType
<1>2. CASE IwdMoves \/ StationGoes \/ StationComes \/ IwdDies \/ IwdStarts
  BY <1>1, <1>2 DEF IwdRecs, IwdMoves, StationGoes, StationComes, IwdDies, IwdStarts
<1>3. CASE TakesSignal \/ Joins \/ JoinFails \/ TakesOwner \/ Registers \/ Resyncs \/ ResyncFails
  BY <1>3 DEF TakesSignal, Joins, JoinFails, TakesOwner, Registers, Resyncs, ResyncFails
<1>4. QED
  BY <1>2, <1>3 DEF IwdNext

LEMMA ScanNextKeeps == ASSUME IwdInv, ScanInv, ScanNext PROVE IwdInv' /\ ScanInv'
<1>1. iwd \in IwdRecs /\ iwd.scans \in Nat /\ scan \in ScanRecs
  BY DEF IwdInv, IwdType, IwdRecs, ScanInv
<1>2. CASE IwdMoves
  <2>1. IwdNext
    BY <1>2 DEF IwdNext
  <2>2. QED
    BY <2>1, IwdNextKeeps, ScansAreIwds, ScanLeft
<1>3. CASE IwdScans
  <2>1. iwd' = [iwd EXCEPT !.scanning = TRUE, !.scans = iwd.scans] /\ iwd'.scans = iwd.scans
        /\ UNCHANGED <<signals, owners, watch, told, scan>>
    BY <1>1, <1>3 DEF IwdScans, IwdRecs
  <2>2. QED
    BY <1>1, <2>1, ScanningKeeps, ScanLeft
<1>4. CASE IwdScanned
  <2>1. iwd' = [iwd EXCEPT !.scanning = FALSE, !.scans = iwd.scans + 1] /\ iwd.scans + 1 \in Nat
        /\ UNCHANGED <<signals, owners, watch, told>>
    BY <1>1, <1>4 DEF IwdScanned
  <2>2. IwdInv'
    BY <2>1, ScanningKeeps
  <2>3. /\ scan' \in ScanRecs /\ scan'.at = scan.at /\ scan'.asked = scan.asked /\ scan'.ended = scan.ended
        /\ scan'.seen = (scan.at \in {"matched", "checking", "waiting"})
    <3> DEFINE b == scan.at \in {"matched", "checking", "waiting"}
    <3>1. scan' = [scan EXCEPT !.seen = b] /\ b \in BOOLEAN
      BY <1>4 DEF IwdScanned
    <3> HIDE DEF b
    <3>2. scan' \in ScanRecs /\ scan'.at = scan.at /\ scan'.asked = scan.asked /\ scan'.ended = scan.ended
          /\ scan'.seen = b
      BY <1>1, <3>1 DEF ScanRecs
    <3>3. QED
      BY <3>2 DEF b
  <2>4. QED
    BY <2>2, <2>3 DEF ScanInv, ScanIsHeard
<1>5. CASE ScanMatches
  <2>1. scan' \in ScanRecs /\ scan'.at = "matched" /\ UNCHANGED <<iwd, signals, owners, watch, told>>
    BY <1>1, <1>5 DEF ScanMatches, ScanRecs
  <2>2. QED
    BY <2>1, IwdLeft DEF ScanInv, ScanIsHeard
<1>6. CASE ScanAsks
  <2>1. \/ iwd' = iwd
        \/ iwd' = [iwd EXCEPT !.scanning = TRUE, !.scans = iwd.scans]
    BY <1>1, <1>6 DEF ScanAsks, IwdRecs
  <2>2. UNCHANGED <<signals, owners, watch, told>>
    BY <1>6 DEF ScanAsks
  <2>3. IwdInv' /\ iwd'.scans = iwd.scans
    BY <1>1, <2>1, <2>2, IwdLeft, ScanningKeeps DEF IwdRecs
  <2>4. \/ scan' = [scan EXCEPT !.at = "refused"]
        \/ scan' = [scan EXCEPT !.at = "waiting", !.asked = iwd.scans]
        \/ scan' = [scan EXCEPT !.at = "checking", !.asked = iwd.scans]
    BY <1>6 DEF ScanAsks, Waits
  <2>5. scan' \in ScanRecs /\ scan'.at \in {"refused", "waiting", "checking"}
        /\ (scan'.at # "refused" => scan'.asked = iwd.scans)
    BY <1>1, <2>4 DEF ScanRecs
  <2>6. QED
    BY <2>3, <2>5 DEF ScanInv, ScanIsHeard
<1>7. CASE ScanChecks
  <2>1. UNCHANGED <<iwd, signals, owners, watch, told>> /\ scan.at = "checking"
        /\ \/ scan' = [scan EXCEPT !.at = "waiting"]
           \/ scan' = [scan EXCEPT !.at = "answered", !.ended = iwd.scans]
    BY <1>7 DEF ScanChecks, ChecksOf
  <2>2. scan' \in ScanRecs /\ scan'.asked = scan.asked /\ scan'.seen = scan.seen /\ scan'.at \in {"waiting", "answered"}
    BY <1>1, <2>1 DEF ScanRecs
  <2>3. QED
    BY <2>1, <2>2, IwdLeft DEF ScanInv, ScanIsHeard
<1>8. CASE ScanHears
  <2>1. scan' \in ScanRecs /\ scan'.at = "answered" /\ UNCHANGED <<iwd, signals, owners, watch, told>>
    BY <1>1, <1>8 DEF ScanHears, ScanRecs
  <2>2. QED
    BY <2>1, IwdLeft DEF ScanInv, ScanIsHeard
<1>9. CASE ScanTimesOut
  <2>1. /\ scan' \in ScanRecs /\ scan'.at = "timed out" /\ scan'.ended = iwd.scans /\ scan'.asked = scan.asked
        /\ UNCHANGED <<iwd, signals, owners, watch, told>>
    BY <1>1, <1>9 DEF ScanTimesOut, ScanRecs
  <2>2. iwd.scans = scan.asked
    BY <1>9 DEF ScanInv, ScanTimesOut
  <2>3. QED
    BY <2>1, <2>2, IwdLeft DEF ScanInv, ScanIsHeard
<1>10. QED
  BY <1>2, <1>3, <1>4, <1>5, <1>6, <1>7, <1>8, <1>9 DEF ScanNext

-----------------------------------------------------------------------------
\* The kernel's events and their observer.

LEMMA RtnlAtFirst == ASSUME ObserveInit PROVE RtnlInv
<1>1. /\ kernel = [link |-> TRUE, address |-> "none"]
      /\ rtnl = [at |-> "links", known |-> FALSE, up |-> FALSE, address |-> FALSE]
      /\ events = <<>> /\ events \in Seq(LinkEvents \cup AddressEvents) /\ Len(events) = 0
  BY EmptySeq DEF ObserveInit
<1>2. RtnlType(kernel, events, rtnl)
  BY <1>1 DEF RtnlType, KernelRecs, RtnlRecs
<1>3. LinkEnds(kernel, events, rtnl) /\ AddressAfterLink(kernel, events, rtnl) /\ AddressEnds(kernel, events, rtnl)
  BY <1>1 DEF LinkEnds, AddressAfterLink, AddressEnds
<1>4. QED
  BY <1>2, <1>3 DEF RtnlInv, RtnlHolds

\* One event of the kernel's, told at the end of the stream.
Turns(k, e, k2) ==
    /\ e \in LinkEvents \cup AddressEvents /\ k2 \in KernelRecs
    /\ k2.address # "none" => k2.link
    /\ e = "new link" => k2.link
    /\ e = "del link" => ~k2.link
    /\ e \in AddressEvents => k.link /\ k2.link
    /\ e = "new address" => k2.address = "ready"
    /\ e # "new address" => k2.address # "ready"
    /\ k.address = "ready" => e = "del address"

LEMMA Published ==
    ASSUME NEW k, NEW q, NEW r, NEW k2, NEW e, RtnlHolds(k, q, r), Turns(k, e, k2)
    PROVE  RtnlHolds(k2, Append(q, e), r)
<1> DEFINE n == Len(q)  p == Append(q, e)
<1>1. k \in KernelRecs /\ q \in Seq(LinkEvents \cup AddressEvents) /\ r \in RtnlRecs
      /\ e \in LinkEvents \cup AddressEvents
  BY DEF RtnlHolds, RtnlType, Turns
<1>2. /\ p \in Seq(LinkEvents \cup AddressEvents) /\ n \in Nat /\ Len(p) = n + 1 /\ p[n + 1] = e
      /\ \A i \in 1..n : p[i] = q[i]
  <2> DEFINE S == LinkEvents \cup AddressEvents
  <2>1. q \in Seq(S) /\ e \in S
    BY <1>1
  <2> HIDE DEF S
  <2>2. /\ p \in Seq(S) /\ n \in Nat /\ Len(p) = n + 1 /\ p[n + 1] = e
        /\ \A i \in 1..n : p[i] = q[i]
    BY <2>1, Put
  <2>3. QED
    BY <2>2 DEF S
<1>len. n \in Nat /\ Len(q) = n /\ Len(p) = n + 1
  BY <1>2
<1>nat. n \in Nat
  BY <1>len
<1> HIDE DEF p, n
<1>3. /\ \A i \in 1..n : \A j \in Later(q, i) : j \in 1..n /\ j \in Later(p, i)
      /\ \A i \in 1..n : n + 1 \in Later(p, i) /\ i \in 1..(n + 1)
      /\ \A i \in 1..n : \A j \in Later(p, i) : j = n + 1 \/ j \in Later(q, i)
      /\ Later(p, n + 1) = {}
      /\ \A i \in 1..(n + 1) : i \in 1..n \/ i = n + 1
      /\ n + 1 \in 1..(n + 1)
  BY <1>len DEF Later
<1>4. LinkEnds(k, q, r) /\ AddressAfterLink(k, q, r) /\ AddressEnds(k, q, r)
  BY DEF RtnlHolds
<1>5. RtnlType(k2, p, r)
  BY <1>1, <1>2 DEF RtnlHolds, RtnlType, Turns
<1>6. LinkEnds(k2, p, r)
  <2>1. ASSUME NEW i \in 1..n
        PROVE  /\ p[i] = "new link" => k2.link \/ \E j \in Later(p, i) : p[j] = "del link"
               /\ p[i] = "del link" => ~k2.link \/ \E j \in Later(p, i) : p[j] = "new link"
    <3>1. /\ q[i] = "new link" => k.link \/ \E j \in Later(q, i) : q[j] = "del link"
          /\ q[i] = "del link" => ~k.link \/ \E j \in Later(q, i) : q[j] = "new link"
      BY <1>4 DEF LinkEnds, n
    <3>2. CASE e \in LinkEvents
      BY <3>2, <1>2, <1>3 DEF LinkEvents, Turns
    <3>3. CASE e \in AddressEvents
      BY <3>1, <3>3, <1>2, <1>3 DEF Turns
    <3>4. QED
      BY <1>1, <3>2, <3>3
  <2>2. (p[n + 1] = "new link" => k2.link) /\ (p[n + 1] = "del link" => ~k2.link)
    BY <1>2 DEF Turns
  <2>3. r.at = "links" \/ r.known = k2.link \/ \E i \in 1..(n + 1) : p[i] \in LinkEvents
    <3>1. CASE e \in LinkEvents
      BY <3>1, <1>2, <1>3
    <3>2. CASE e \in AddressEvents
      <4>1. r.at = "links" \/ r.known = k.link \/ \E i \in 1..n : q[i] \in LinkEvents
        BY <1>4 DEF LinkEnds, n
      <4>2. k2.link = k.link
        BY <3>2, <1>1 DEF KernelRecs, Turns
      <4>3. QED
        BY <4>1, <4>2, <1>2, <1>3
    <3>3. QED
      BY <1>1, <3>1, <3>2
  <2>4. QED
    BY <2>1, <2>2, <2>3, <1>2, <1>3 DEF LinkEnds
<1>7. AddressAfterLink(k2, p, r)
  <2>1. ASSUME NEW i \in 1..n, NEW j \in (i + 1)..(n + 1), p[i] = "del link", p[j] \in AddressEvents
        PROVE  \E l \in (i + 1)..(j - 1) : p[l] = "new link"
    <3>1. CASE j # n + 1
      <4>1. j \in (i + 1)..n /\ j \in 1..n
        BY <3>1, <1>len
      <4>2. q[i] = "del link" /\ q[j] \in AddressEvents
        BY <2>1, <4>1, <1>2
      <4>3. Later(q, i) = (i + 1)..n
        BY <1>len DEF Later
      <4>4. PICK l \in (i + 1)..(j - 1) : q[l] = "new link"
        BY <4>1, <4>2, <4>3, <1>4 DEF AddressAfterLink, n
      <4>5. l \in 1..n
        BY <4>1, <1>nat
      <4>6. QED
        BY <4>4, <4>5, <1>2
    <3>2. CASE j = n + 1
      <4>1. k.link /\ q[i] = "del link"
        BY <2>1, <3>2, <1>2 DEF Turns
      <4>2. Later(q, i) = (i + 1)..n
        BY <1>len DEF Later
      <4>3. PICK l \in (i + 1)..n : q[l] = "new link"
        BY <4>1, <4>2, <1>4 DEF LinkEnds, n
      <4>4. l \in 1..n /\ l \in (i + 1)..(j - 1)
        BY <3>2, <1>nat
      <4>5. QED
        BY <4>3, <4>4, <1>2
    <3>3. QED
      BY <3>1, <3>2
  <2>2. \/ r.known \/ ~r.address
        \/ \A j \in 1..(n + 1) : p[j] \in AddressEvents => \E i \in 1..(j - 1) : p[i] \in LinkEvents
    <3> SUFFICES ASSUME ~r.known, r.address, NEW j \in 1..(n + 1), p[j] \in AddressEvents
                 PROVE  \E i \in 1..(j - 1) : p[i] \in LinkEvents
      OBVIOUS
    <3>1. CASE j \in 1..n
      <4>1. PICK i \in 1..(j - 1) : q[i] \in LinkEvents
        BY <3>1, <1>2, <1>4 DEF AddressAfterLink, n
      <4>2. i \in 1..n
        BY <4>1, <3>1, <1>len
      <4>3. QED
        BY <4>1, <4>2, <1>2
    <3>2. CASE j = n + 1
      <4>1. k.link /\ r.at # "links"
        BY <3>2, <1>2 DEF RtnlHolds, RtnlType, Turns
      <4>2. PICK i \in 1..n : q[i] \in LinkEvents
        BY <4>1, <1>1, <1>4 DEF LinkEnds, n, RtnlRecs, KernelRecs
      <4>3. i \in 1..(j - 1)
        BY <4>2, <3>2, <1>len
      <4>4. QED
        BY <4>2, <4>3, <1>2
    <3>3. QED
      BY <3>1, <3>2, <1>3
  <2>3. \A i \in 1..(n + 1) : i \in 1..n \/ Later(p, i) = {}
    BY <1>3
  <2>4. \A i \in 1..n : Later(p, i) = (i + 1)..(n + 1)
    BY <1>len DEF Later
  <2>5. QED
    BY <2>1, <2>2, <2>3, <2>4, <1>len DEF AddressAfterLink
<1>8. AddressEnds(k2, p, r)
  <2>1. ASSUME NEW i \in 1..n
        PROVE  /\ p[i] = "new address" => k2.address = "ready" \/ \E j \in Later(p, i) : p[j] = "del address"
               /\ p[i] = "del address" => k2.address # "ready" \/ \E j \in Later(p, i) : p[j] = "new address"
               /\ p[i] = "new address" /\ k2.address = "ready" =>
                     \/ \E j \in Later(p, i) : p[j] = "del address"
                     \/ \A j \in Later(p, i) : p[j] \notin LinkEvents
    <3>1. q[i] = "new address" => k.address = "ready" \/ \E j \in Later(q, i) : q[j] = "del address"
      BY <1>4 DEF AddressEnds, n
    <3>2. \A j \in Later(q, i) : j \in Later(p, i) /\ p[j] = q[j]
      BY <1>2, <1>3
    <3>3. n + 1 \in Later(p, i) /\ p[n + 1] = e /\ p[i] = q[i]
      BY <1>2, <1>3
    <3>4. QED
      BY <3>1, <3>2, <3>3 DEF Turns
  <2>2. /\ e = "new address" => k2.address = "ready"
        /\ e = "del address" => k2.address # "ready"
    BY DEF Turns
  <2>3. \/ \E i \in 1..(n + 1) : p[i] \in {"new address", "del address"}
        \/ IF r.at = "following" THEN r.address = (k2.address = "ready") ELSE k2.address # "ready"
    <3>1. CASE e \in {"new address", "del address"}
      BY <3>1, <1>2, <1>3
    <3>2. CASE e \notin {"new address", "del address"}
      <4>1. k.address # "ready" /\ k2.address # "ready"
        BY <3>2 DEF Turns
      <4>2. \/ \E i \in 1..n : q[i] \in {"new address", "del address"}
            \/ IF r.at = "following" THEN r.address = (k.address = "ready") ELSE k.address # "ready"
        BY <1>4 DEF AddressEnds, n
      <4>3. QED
        BY <4>1, <4>2, <1>2, <1>3
    <3>3. QED
      BY <3>1, <3>2
  <2>4. \A i \in 1..(n + 1) :
           /\ p[i] = "new address" => k2.address = "ready" \/ \E j \in Later(p, i) : p[j] = "del address"
           /\ p[i] = "del address" => k2.address # "ready" \/ \E j \in Later(p, i) : p[j] = "new address"
           /\ p[i] = "new address" /\ k2.address = "ready" =>
                 \/ \E j \in Later(p, i) : p[j] = "del address"
                 \/ \A j \in Later(p, i) : p[j] \notin LinkEvents
    <3>1. /\ p[n + 1] = "new address" => k2.address = "ready"
          /\ p[n + 1] = "del address" => k2.address # "ready"
          /\ \A j \in Later(p, n + 1) : p[j] \notin LinkEvents
      BY <2>2, <1>2, <1>3
    <3>2. \A i \in 1..(n + 1) : i \in 1..n \/ i = n + 1
      BY <1>3
    <3> DEFINE Stands(i) ==
           /\ p[i] = "new address" => k2.address = "ready" \/ \E j \in Later(p, i) : p[j] = "del address"
           /\ p[i] = "del address" => k2.address # "ready" \/ \E j \in Later(p, i) : p[j] = "new address"
           /\ p[i] = "new address" /\ k2.address = "ready" =>
                 \/ \E j \in Later(p, i) : p[j] = "del address"
                 \/ \A j \in Later(p, i) : p[j] \notin LinkEvents
    <3>3. (\A i \in 1..n : Stands(i)) /\ Stands(n + 1)
      BY <2>1, <3>1
    <3> HIDE DEF Stands
    <3>4. \A i \in 1..(n + 1) : Stands(i)
      BY <3>2, <3>3
    <3>5. QED
      BY <3>4 DEF Stands
  <2>5. QED
    BY <2>3, <2>4, <1>len DEF AddressEnds
<1>9. QED
  BY <1>5, <1>6, <1>7, <1>8 DEF RtnlHolds, p

\* The first event followed.
LEMMA Followed == ASSUME RtnlInv, FollowsEvents PROVE RtnlInv'
<1> DEFINE q == events  p == Tail(events)  n == Len(events)  e == Head(events)
<1>1. kernel \in KernelRecs /\ q \in Seq(LinkEvents \cup AddressEvents) /\ rtnl \in RtnlRecs
      /\ (kernel.address # "none" => kernel.link) /\ rtnl.up = rtnl.known
  BY DEF RtnlInv, RtnlHolds, RtnlType
<1>2. q # <<>> /\ rtnl.at = "following" /\ events' = p /\ UNCHANGED kernel /\ rtnl' = Observed(e)
  BY DEF FollowsEvents
<1>3. /\ p \in Seq(LinkEvents \cup AddressEvents) /\ e \in LinkEvents \cup AddressEvents /\ e = q[1] /\ n \in Nat \ {0}
      /\ Len(p) = n - 1 /\ \A i \in 1..(n - 1) : p[i] = q[i + 1]
  BY <1>1, <1>2, Taken
<1>4. LinkEnds(kernel, q, rtnl) /\ AddressAfterLink(kernel, q, rtnl) /\ AddressEnds(kernel, q, rtnl)
  BY DEF RtnlInv, RtnlHolds
<1>5. /\ rtnl' \in RtnlRecs /\ rtnl'.at = "following" /\ rtnl'.up = rtnl'.known
      /\ rtnl'.known = IF e = "new link" THEN TRUE ELSE IF e = "del link" THEN FALSE ELSE rtnl.known
      /\ rtnl'.address = IF e = "new address" /\ rtnl.known THEN TRUE
                         ELSE IF e = "del address" /\ rtnl.known THEN FALSE ELSE rtnl.address
  <2>1. CASE e = "new link"
    <3>1. rtnl' = [rtnl EXCEPT !.known = TRUE, !.up = TRUE]
      BY <2>1, <1>2 DEF Observed
    <3>2. QED
      BY <2>1, <3>1, <1>1, <1>2 DEF RtnlRecs
  <2>2. CASE e = "del link"
    <3>1. rtnl' = [rtnl EXCEPT !.known = FALSE, !.up = FALSE]
      BY <2>2, <1>2 DEF Observed
    <3>2. QED
      BY <2>2, <3>1, <1>1, <1>2 DEF RtnlRecs
  <2>3. CASE e = "new address" /\ rtnl.known
    <3>1. rtnl' = [rtnl EXCEPT !.address = TRUE]
      BY <2>3, <1>2 DEF Observed
    <3>2. QED
      BY <2>3, <3>1, <1>1, <1>2 DEF RtnlRecs
  <2>4. CASE e = "del address" /\ rtnl.known
    <3>1. rtnl' = [rtnl EXCEPT !.address = FALSE]
      BY <2>4, <1>2 DEF Observed
    <3>2. QED
      BY <2>4, <3>1, <1>1, <1>2 DEF RtnlRecs
  <2>5. CASE e \notin LinkEvents /\ ~(e \in {"new address", "del address"} /\ rtnl.known)
    <3>1. e # "new link" /\ e # "del link" /\ ~(e = "new address" /\ rtnl.known) /\ ~(e = "del address" /\ rtnl.known)
      BY <2>5 DEF LinkEvents
    <3>2. rtnl' = rtnl
      BY <3>1, <1>2, Zenon DEF Observed
    <3>3. QED
      BY <3>1, <3>2, <1>1, <1>2
  <2>6. QED
    BY <2>1, <2>2, <2>3, <2>4, <2>5 DEF LinkEvents
<1> HIDE DEF q, p, n, e
<1>6. Len(q) = n /\ 1 \in 1..n
  BY <1>3 DEF q, n
<1>7. /\ \A i \in 1..(n - 1) : i + 1 \in 1..n /\ p[i] = q[i + 1]
      /\ \A i \in 1..(n - 1) : \A j \in Later(p, i) : j \in 1..(n - 1) /\ j + 1 \in Later(q, i + 1)
      /\ \A i \in 1..n : \A j \in Later(q, i) : j - 1 \in 1..(n - 1) /\ p[j - 1] = q[j] /\ (i > 1 => j - 1 \in Later(p, i - 1))
      /\ \A i \in 1..n : i = 1 \/ (i - 1 \in 1..(n - 1) /\ p[i - 1] = q[i])
  BY <1>3, <1>6 DEF Later
<1>8. RtnlType(kernel, p, rtnl')
  BY <1>1, <1>3, <1>5 DEF RtnlType
\* Where the first is of an address, the observer knows of the link or has
\* no address to be wrong about.
<1>9. e \in AddressEvents => rtnl.known \/ ~rtnl.address
  <2>1. 1..(1 - 1) = {}
    OBVIOUS
  <2>2. q[1] \in AddressEvents =>
           rtnl.known \/ ~rtnl.address \/ \E i \in 1..(1 - 1) : q[i] \in LinkEvents
    BY <1>4, <1>6 DEF AddressAfterLink
  <2>3. QED
    BY <2>1, <2>2, <1>3
<1>10. LinkEnds(kernel, p, rtnl')
  <2>1. ASSUME NEW i \in 1..(n - 1)
        PROVE  /\ p[i] = "new link" => kernel.link \/ \E j \in Later(p, i) : p[j] = "del link"
               /\ p[i] = "del link" => ~kernel.link \/ \E j \in Later(p, i) : p[j] = "new link"
    <3>1. /\ q[i + 1] = "new link" => kernel.link \/ \E j \in Later(q, i + 1) : q[j] = "del link"
          /\ q[i + 1] = "del link" => ~kernel.link \/ \E j \in Later(q, i + 1) : q[j] = "new link"
      BY <1>4, <1>6, <1>7 DEF LinkEnds
    <3>2. \A j \in Later(q, i + 1) : j - 1 \in Later(p, i) /\ p[j - 1] = q[j]
      BY <1>3, <1>6 DEF Later
    <3>3. QED
      BY <3>1, <3>2, <1>7
  <2>2. rtnl'.known = kernel.link \/ \E i \in 1..(n - 1) : p[i] \in LinkEvents
    <3>1. /\ e = "new link" => kernel.link \/ \E j \in Later(q, 1) : q[j] = "del link"
          /\ e = "del link" => ~kernel.link \/ \E j \in Later(q, 1) : q[j] = "new link"
      BY <1>3, <1>4, <1>6 DEF LinkEnds
    <3>2. CASE e \in LinkEvents
      <4>1. kernel.link \in BOOLEAN
        BY <1>1 DEF KernelRecs
      <4>2. \/ e = "new link" /\ kernel.link /\ rtnl'.known = TRUE
            \/ e = "del link" /\ ~kernel.link /\ rtnl'.known = FALSE
            \/ \E j \in Later(q, 1) : q[j] \in LinkEvents
        BY <3>1, <3>2, <1>5 DEF LinkEvents
      <4>3. (\E j \in Later(q, 1) : q[j] \in LinkEvents) => \E i \in 1..(n - 1) : p[i] \in LinkEvents
        BY <1>6, <1>7
      <4>4. CASE e = "new link" /\ kernel.link /\ rtnl'.known = TRUE
        BY <4>1, <4>4
      <4>5. CASE e = "del link" /\ ~kernel.link /\ rtnl'.known = FALSE
        BY <4>1, <4>5
      <4>6. QED
        BY <4>2, <4>3, <4>4, <4>5
    <3>3. CASE e \notin LinkEvents
      <4>1. rtnl'.known = rtnl.known
        BY <3>3, <1>5 DEF LinkEvents
      <4>2. rtnl.known = kernel.link \/ \E i \in 1..n : q[i] \in LinkEvents
        BY <1>2, <1>4, <1>6 DEF LinkEnds
      <4>3. QED
        BY <4>1, <4>2, <3>3, <1>3, <1>7
    <3>4. QED
      BY <3>2, <3>3
  <2>3. QED
    BY <2>1, <2>2, <1>3 DEF LinkEnds
<1>11. AddressAfterLink(kernel, p, rtnl')
  <2>1. ASSUME NEW i \in 1..n, NEW j \in Later(q, i), q[i] = "del link", q[j] \in AddressEvents
        PROVE  \E l \in i..(j - 2) : p[l] = "new link"
    <3>1. PICK l \in (i + 1)..(j - 1) : q[l] = "new link"
      BY <2>1, <1>4, <1>6 DEF AddressAfterLink
    <3>2. l - 1 \in i..(j - 2) /\ l \in 1..n /\ l # 1
      BY <1>3, <1>6 DEF Later
    <3>3. QED
      BY <3>1, <3>2, <1>7
  <2>2. ASSUME NEW i \in 1..(n - 1), NEW j \in Later(p, i), p[i] = "del link", p[j] \in AddressEvents
        PROVE  \E l \in (i + 1)..(j - 1) : p[l] = "new link"
    <3>1. i + 1 \in 1..n /\ j + 1 \in Later(q, i + 1) /\ q[i + 1] = "del link" /\ q[j + 1] \in AddressEvents
      BY <2>2, <1>7
    <3>2. PICK l \in (i + 1)..((j + 1) - 2) : p[l] = "new link"
      BY <3>1, <2>1
    <3>3. (j + 1) - 2 = j - 1
      BY <1>3 DEF Later
    <3>4. QED
      BY <3>2, <3>3
  <2>3. ASSUME ~rtnl'.known, rtnl'.address, NEW j \in 1..(n - 1), p[j] \in AddressEvents
        PROVE  \E i \in 1..(j - 1) : p[i] \in LinkEvents
    <3>1. CASE e = "del link"
      <4>1. j + 1 \in Later(q, 1) /\ q[j + 1] \in AddressEvents
        BY <2>3, <1>3, <1>6, <1>7 DEF Later
      <4>2. PICK l \in 1..((j + 1) - 2) : p[l] = "new link"
        BY <4>1, <3>1, <2>1, <1>3, <1>6
      <4>3. (j + 1) - 2 = j - 1
        BY <1>3
      <4>4. QED
        BY <4>2, <4>3 DEF LinkEvents
    <3>2. CASE e # "del link"
      <4>1. e # "new link" /\ ~rtnl.known /\ rtnl.address
        BY <2>3, <3>2, <1>5
      <4>2. FALSE
        BY <4>1, <3>2, <1>3, <1>9 DEF LinkEvents
      <4>3. QED
        BY <4>2
    <3>3. QED
      BY <3>1, <3>2
  <2>4. QED
    BY <2>2, <2>3, <1>3 DEF AddressAfterLink
<1>12. AddressEnds(kernel, p, rtnl')
  <2>1. ASSUME NEW i \in 1..(n - 1)
        PROVE  /\ p[i] = "new address" => kernel.address = "ready" \/ \E j \in Later(p, i) : p[j] = "del address"
               /\ p[i] = "del address" => kernel.address # "ready" \/ \E j \in Later(p, i) : p[j] = "new address"
               /\ p[i] = "new address" /\ kernel.address = "ready" =>
                     \/ \E j \in Later(p, i) : p[j] = "del address"
                     \/ \A j \in Later(p, i) : p[j] \notin LinkEvents
    <3>1. /\ q[i + 1] = "new address" => kernel.address = "ready" \/ \E j \in Later(q, i + 1) : q[j] = "del address"
          /\ q[i + 1] = "del address" => kernel.address # "ready" \/ \E j \in Later(q, i + 1) : q[j] = "new address"
          /\ q[i + 1] = "new address" /\ kernel.address = "ready" =>
                \/ \E j \in Later(q, i + 1) : q[j] = "del address"
                \/ \A j \in Later(q, i + 1) : q[j] \notin LinkEvents
      BY <1>4, <1>6, <1>7 DEF AddressEnds
    <3>2. \A j \in Later(q, i + 1) : j - 1 \in Later(p, i) /\ p[j - 1] = q[j]
      BY <1>3, <1>6 DEF Later
    <3>3. \A j \in Later(p, i) : j + 1 \in Later(q, i + 1) /\ p[j] = q[j + 1]
      BY <1>7
    <3>4. p[i] = q[i + 1]
      BY <1>7
    <3>5. QED
      BY <3>1, <3>2, <3>3, <3>4
  <2>2. \/ \E i \in 1..(n - 1) : p[i] \in {"new address", "del address"}
        \/ rtnl'.address = (kernel.address = "ready")
    <3>1. /\ e = "new address" => kernel.address = "ready" \/ \E j \in Later(q, 1) : q[j] = "del address"
          /\ e = "del address" => kernel.address # "ready" \/ \E j \in Later(q, 1) : q[j] = "new address"
          /\ e = "new address" /\ kernel.address = "ready" =>
                \/ \E j \in Later(q, 1) : q[j] = "del address"
                \/ \A j \in Later(q, 1) : q[j] \notin LinkEvents
      BY <1>3, <1>4, <1>6 DEF AddressEnds
    <3>2. (\E j \in Later(q, 1) : q[j] \in {"new address", "del address"}) =>
             \E i \in 1..(n - 1) : p[i] \in {"new address", "del address"}
      BY <1>6, <1>7
    <3>3. CASE e = "new address" /\ rtnl.known
      BY <3>1, <3>2, <3>3, <1>5
    <3>4. CASE e = "new address" /\ ~rtnl.known
      <4>1. rtnl'.address = FALSE
        BY <3>4, <1>1, <1>5, <1>9 DEF AddressEvents, RtnlRecs
      <4>2. ASSUME kernel.address = "ready", \A j \in Later(q, 1) : q[j] \notin LinkEvents PROVE FALSE
        <5>1. kernel.link /\ rtnl.known # kernel.link
          BY <3>4, <4>2, <1>1
        <5>2. PICK i \in 1..n : q[i] \in LinkEvents
          BY <5>1, <1>2, <1>4, <1>6 DEF LinkEnds
        <5>3. i # 1
          BY <5>2, <3>4, <1>3 DEF LinkEvents
        <5>4. i \in Later(q, 1)
          BY <5>3, <1>3, <1>6 DEF Later
        <5>5. QED
          BY <5>2, <5>4, <4>2
      <4>3. QED
        BY <4>1, <4>2, <3>1, <3>2, <3>4
    <3>5. CASE e = "del address"
      <4>1. rtnl'.address = FALSE
        BY <3>5, <1>1, <1>5, <1>9 DEF AddressEvents, RtnlRecs
      <4>2. QED
        BY <4>1, <3>1, <3>2, <3>5
    <3>6. CASE e \notin {"new address", "del address"}
      <4>1. rtnl'.address = rtnl.address
        BY <3>6, <1>5
      <4>2. (\E i \in 1..n : q[i] \in {"new address", "del address"}) \/ rtnl.address = (kernel.address = "ready")
        BY <1>2, <1>4, <1>6 DEF AddressEnds
      <4>3. QED
        BY <4>1, <4>2, <3>6, <1>3, <1>7
    <3>7. QED
      BY <3>3, <3>4, <3>5, <3>6
  <2>3. QED
    BY <2>1, <2>2, <1>3, <1>5 DEF AddressEnds
<1>13. QED
  BY <1>2, <1>8, <1>10, <1>11, <1>12 DEF RtnlInv, RtnlHolds

\* An event put at the end of a stream, and two.
LEMMA PutTogether ==
    ASSUME NEW S, NEW q \in Seq(S), NEW d \in S, NEW e \in S
    PROVE  /\ q \o <<e>> = Append(q, e) /\ q \o (<<>> \o <<e>>) = Append(q, e)
           /\ q \o (<<d>> \o <<e>>) = Append(Append(q, d), e)
<1>1. q \o <<e>> = Append(q, e) /\ q \o <<d>> = Append(q, d)
  BY AppendIsConcat
<1>2. Append(q, d) \in Seq(S) /\ <<d>> \in Seq(S) /\ <<e>> \in Seq(S) /\ <<>> \o <<e>> = <<e>>
  BY AppendProperties, ConcatEmptySeq
<1>3. q \o (<<d>> \o <<e>>) = (q \o <<d>>) \o <<e>>
  BY <1>2, ConcatAssociative
<1>4. Append(q, d) \o <<e>> = Append(Append(q, d), e)
  BY <1>2, AppendIsConcat
<1>5. QED
  BY <1>1, <1>2, <1>3, <1>4

LEMMA RtnlNextKeeps == ASSUME RtnlInv, RtnlNext PROVE RtnlInv'
<1>1. /\ kernel \in KernelRecs /\ events \in Seq(LinkEvents \cup AddressEvents) /\ rtnl \in RtnlRecs
      /\ kernel.address # "none" => kernel.link
      /\ rtnl.at # "following" => ~rtnl.address
      /\ RtnlHolds(kernel, events, rtnl)
  BY DEF RtnlInv, RtnlHolds, RtnlType
<1> DEFINE E == LinkEvents \cup AddressEvents
<1>puts. /\ \A e \in E : events \o <<e>> = Append(events, e) /\ events \o (<<>> \o <<e>>) = Append(events, e)
      /\ \A d, e \in E : events \o (<<d>> \o <<e>>) = Append(Append(events, d), e)
  <2>1. events \in Seq(E)
    BY <1>1
  <2> HIDE DEF E
  <2>2. QED
    BY <2>1, PutTogether
<1>events. "new link" \in E /\ "del link" \in E /\ "new tentative" \in E /\ "new address" \in E /\ "del address" \in E
  BY DEF LinkEvents, AddressEvents
<1> HIDE DEF E
<1>2. CASE LinkGoes
  <2> DEFINE off == [link |-> FALSE, address |-> "none"]  bare == [kernel EXCEPT !.address = "none"]
  <2>1. kernel' = off /\ UNCHANGED rtnl /\ kernel.link
        /\ events' = events \o ((IF kernel.address = "none" THEN <<>> ELSE <<"del address">>) \o <<"del link">>)
    BY <1>2 DEF LinkGoes, Publishes
  <2>2. CASE kernel.address = "none"
    <3>1. events' = Append(events, "del link")
      BY <2>1, <2>2, <1>puts, <1>events
    <3>2. Turns(kernel, "del link", off)
      BY <2>1, <2>2, <1>1 DEF Turns, KernelRecs, LinkEvents, AddressEvents
    <3>3. QED
      BY <2>1, <3>1, <3>2, <1>1, Published DEF RtnlInv
  <2>3. CASE kernel.address # "none"
    <3>1. events' = Append(Append(events, "del address"), "del link")
      BY <2>1, <2>3, <1>puts, <1>events
    <3>2. Turns(kernel, "del address", bare) /\ Turns(bare, "del link", off)
      BY <2>1, <2>3, <1>1 DEF Turns, KernelRecs, LinkEvents, AddressEvents
    <3> HIDE DEF off, bare
    <3>3. RtnlHolds(bare, Append(events, "del address"), rtnl)
      BY <3>2, <1>1, Published
    <3>4. RtnlHolds(off, Append(Append(events, "del address"), "del link"), rtnl)
      BY <3>2, <3>3, Published
    <3>5. QED
      BY <2>1, <3>1, <3>4 DEF RtnlInv
  <2>4. QED
    BY <2>2, <2>3
<1>3. CASE LinkComes
  <2>1. kernel' = [kernel EXCEPT !.link = TRUE] /\ UNCHANGED rtnl /\ ~kernel.link /\ events' = events \o <<"new link">>
    BY <1>3 DEF LinkComes, Publishes
  <2>2. events' = Append(events, "new link")
    BY <2>1, <1>puts, <1>events
  <2>3. Turns(kernel, "new link", kernel')
    BY <2>1, <1>1 DEF Turns, KernelRecs, LinkEvents, AddressEvents
  <2>4. QED
    BY <2>1, <2>2, <2>3, <1>1, Published DEF RtnlInv
<1>4. CASE AddressMoves
  <2>1. UNCHANGED rtnl /\ kernel.link
        /\ \/ /\ kernel.address = "none" /\ kernel' = [kernel EXCEPT !.address = "tentative"]
              /\ events' = events \o <<"new tentative">>
           \/ /\ kernel.address = "tentative" /\ kernel' = [kernel EXCEPT !.address = "ready"]
              /\ events' = events \o <<"new address">>
           \/ /\ kernel.address # "none" /\ kernel' = [kernel EXCEPT !.address = "none"]
              /\ events' = events \o <<"del address">>
    BY <1>4 DEF AddressMoves, Publishes
  <2>2. \/ events' = Append(events, "new tentative") /\ Turns(kernel, "new tentative", kernel')
        \/ events' = Append(events, "new address") /\ Turns(kernel, "new address", kernel')
        \/ events' = Append(events, "del address") /\ Turns(kernel, "del address", kernel')
    <3>1. CASE kernel.address = "none" /\ events' = events \o <<"new tentative">>
               /\ kernel' = [kernel EXCEPT !.address = "tentative"]
      <4>1. events' = Append(events, "new tentative")
        BY <3>1, <1>puts, <1>events
      <4>2. Turns(kernel, "new tentative", kernel')
        BY <2>1, <3>1, <1>1 DEF Turns, KernelRecs, LinkEvents, AddressEvents
      <4>3. QED
        BY <4>1, <4>2
    <3>2. CASE kernel.address = "tentative" /\ events' = events \o <<"new address">>
               /\ kernel' = [kernel EXCEPT !.address = "ready"]
      <4>1. events' = Append(events, "new address")
        BY <3>2, <1>puts, <1>events
      <4>2. Turns(kernel, "new address", kernel')
        BY <2>1, <3>2, <1>1 DEF Turns, KernelRecs, LinkEvents, AddressEvents
      <4>3. QED
        BY <4>1, <4>2
    <3>3. CASE kernel.address # "none" /\ events' = events \o <<"del address">>
               /\ kernel' = [kernel EXCEPT !.address = "none"]
      <4>1. events' = Append(events, "del address")
        BY <3>3, <1>puts, <1>events
      <4>2. Turns(kernel, "del address", kernel')
        BY <2>1, <3>3, <1>1 DEF Turns, KernelRecs, LinkEvents, AddressEvents
      <4>3. QED
        BY <4>1, <4>2
    <3>4. QED
      BY <2>1, <3>1, <3>2, <3>3
  <2>3. QED
    <3>1. PICK e \in {"new tentative", "new address", "del address"} :
                 events' = Append(events, e) /\ Turns(kernel, e, kernel')
      BY <2>2
    <3>2. RtnlHolds(kernel', Append(events, e), rtnl)
      BY <3>1, <1>1, Published
    <3>3. QED
      BY <2>1, <3>1, <3>2 DEF RtnlInv
<1>5. CASE ListsLinks
  <2>1. UNCHANGED <<kernel, events>> /\ rtnl.at = "links"
        /\ rtnl' = [rtnl EXCEPT !.at = "addresses", !.known = kernel.link, !.up = kernel.link]
    BY <1>5 DEF ListsLinks
  <2>2. kernel.link \in BOOLEAN
    BY <1>1 DEF KernelRecs
  <2>3. /\ rtnl' \in RtnlRecs /\ rtnl'.at = "addresses" /\ rtnl'.known = kernel.link /\ rtnl'.up = kernel.link
        /\ rtnl'.address = rtnl.address
    BY <2>1, <2>2, <1>1 DEF RtnlRecs
  <2>4. RtnlType(kernel, events, rtnl') /\ LinkEnds(kernel, events, rtnl')
    BY <2>1, <2>3, <1>1 DEF RtnlHolds, RtnlType, LinkEnds
  <2>5. AddressAfterLink(kernel, events, rtnl')
    BY <2>1, <2>3, <1>1 DEF RtnlHolds, AddressAfterLink
  <2>6. AddressEnds(kernel, events, rtnl')
    BY <2>1, <2>3, <1>1 DEF RtnlHolds, AddressEnds
  <2>7. QED
    BY <2>1, <2>4, <2>5, <2>6 DEF RtnlInv, RtnlHolds
<1>6. CASE Lists
  <2> DEFINE there == rtnl.known /\ kernel.address = "ready"
  <2>1. UNCHANGED <<kernel, events>> /\ rtnl.at = "addresses"
        /\ rtnl' = [rtnl EXCEPT !.at = "following", !.address = there]
    BY <1>6 DEF Lists, ListsAddresses
  <2>2. there \in BOOLEAN /\ (there => rtnl.known) /\ (kernel.address # "ready" => there = FALSE)
    OBVIOUS
  <2> HIDE DEF there
  <2>3. /\ rtnl' \in RtnlRecs /\ rtnl'.at = "following" /\ rtnl'.known = rtnl.known /\ rtnl'.up = rtnl.up
        /\ rtnl'.address = there
    BY <2>1, <2>2, <1>1 DEF RtnlRecs
  <2>4. RtnlType(kernel, events, rtnl') /\ LinkEnds(kernel, events, rtnl')
    BY <2>1, <2>3, <1>1 DEF RtnlHolds, RtnlType, LinkEnds
  <2>5. AddressAfterLink(kernel, events, rtnl')
    BY <2>1, <2>2, <2>3, <1>1 DEF RtnlHolds, AddressAfterLink
  <2>6. AddressEnds(kernel, events, rtnl')
    BY <2>1, <2>2, <2>3, <1>1 DEF RtnlHolds, AddressEnds
  <2>7. QED
    BY <2>1, <2>4, <2>5, <2>6 DEF RtnlInv, RtnlHolds
<1>7. QED
  BY <1>2, <1>3, <1>4, <1>5, <1>6, Followed DEF RtnlNext

\* With no event left, the observer has the link and its address as they
\* are.
LEMMA RtnlTold == ASSUME RtnlInv PROVE LinkAsItIs
<1> SUFFICES ASSUME rtnl.at = "following", events = <<>>
             PROVE  rtnl.up = kernel.link /\ rtnl.address = (kernel.address = "ready")
  BY DEF LinkAsItIs
<1>1. ~(\E i \in 1..Len(events) : TRUE)
  BY EmptySeq
<1>2. rtnl.known = kernel.link /\ rtnl.up = rtnl.known
  BY <1>1 DEF RtnlInv, RtnlHolds, RtnlType, LinkEnds
<1>3. rtnl.address = (kernel.address = "ready")
  BY <1>1 DEF RtnlInv, RtnlHolds, AddressEnds
<1>4. QED
  BY <1>2, <1>3

-----------------------------------------------------------------------------
\* Gateways.

LEMMA GatewaysAtFirst == ASSUME ObserveInit PROVE GatewayInv
<1>1. asks \in [1..2 -> [by : {"arp", "echo"}, at : {"none"}, left : {Tries}, replied : {FALSE}, beside : {FALSE}]]
  BY DEF ObserveInit
<1>2. \A p \in 1..2 : asks[p] \in AskRecs /\ asks[p].at = "none"
  BY <1>1, TriesAssumption DEF AskRecs
<1>3. asks \in [1..2 -> AskRecs] /\ 1 \in 1..2 /\ 2 \in 1..2
  BY <1>1, <1>2
<1>4. QED
  BY <1>2, <1>3 DEF GatewayInv, GatewayAnswered

\* What is to hold of one that was asked.
Truly(a) == a.at = "answered" => a.replied \/ (a.by = "echo" /\ a.beside)

LEMMA OneAndTheOther ==
    ASSUME NEW p \in 1..2, NEW x \in AskRecs, NEW y \in AskRecs, asks' = [q \in 1..2 |-> IF q = p THEN x ELSE y],
           x.at = "waiting" /\ y.at = "waiting" => x.beside /\ y.beside, Truly(x), Truly(y)
    PROVE  GatewayInv'
<1>1. asks' \in [1..2 -> AskRecs]
  OBVIOUS
<1>2. (asks'[1] = x /\ asks'[2] = y) \/ (asks'[1] = y /\ asks'[2] = x)
  OBVIOUS
<1>3. \A q \in 1..2 : asks'[q] = x \/ asks'[q] = y
  OBVIOUS
<1>4. GatewayAnswered'
  BY <1>3 DEF GatewayAnswered, Truly
<1>5. QED
  BY <1>1, <1>2, <1>4 DEF GatewayInv

LEMMA GatewayNextKeeps == ASSUME GatewayInv, GatewayNext PROVE GatewayInv'
<1>1. PICK p \in 1..2 : AsksGateway(p) \/ GatewayReplies(p) \/ WaitEnds(p)
  BY DEF GatewayNext
<1> DEFINE x == asks[p]  y == asks[3 - p]
<1>2. 3 - p \in 1..2 /\ 3 - p # p /\ \A q \in 1..2 : q = p \/ q = 3 - p
  OBVIOUS
<1>3. x \in AskRecs /\ y \in AskRecs /\ asks \in [1..2 -> AskRecs]
  BY <1>2 DEF GatewayInv
<1>4. (x.at = "waiting" /\ y.at = "waiting" => x.beside /\ y.beside) /\ Truly(x) /\ Truly(y)
  <2>1. p = 1 \/ p = 2
    OBVIOUS
  <2>2. x.at = "waiting" /\ y.at = "waiting" => x.beside /\ y.beside
    BY <2>1 DEF GatewayInv
  <2>3. QED
    BY <2>2, <1>2 DEF GatewayInv, GatewayAnswered, Truly
<1>5. CASE AsksGateway(p)
  <2> DEFINE a == x.beside \/ y.at = "waiting"  b == y.beside \/ y.at = "waiting"
             x2 == [x EXCEPT !.at = "waiting", !.left = x.left - 1, !.beside = a]  y2 == [y EXCEPT !.beside = b]
  <2>1. x.at \in {"none", "asking"} /\ x.left > 0
        /\ asks' = [q \in 1..2 |-> IF q = p THEN [x EXCEPT !.at = "waiting", !.left = @ - 1, !.beside = @ \/ y.at = "waiting"]
                                   ELSE [asks[q] EXCEPT !.beside = @ \/ asks[q].at = "waiting"]]
    BY <1>5 DEF AsksGateway
  <2>2. asks' = [q \in 1..2 |-> IF q = p THEN x2 ELSE y2]
    BY <2>1, <1>2
  <2>3. a \in BOOLEAN /\ b \in BOOLEAN /\ (y.at = "waiting" => a /\ b) /\ (y.beside => b)
    BY <1>3 DEF AskRecs
  <2>4. x.left - 1 \in Nat
    BY <2>1, <1>3 DEF AskRecs
  <2> HIDE DEF x, y, a, b
  <2>5. x2 \in AskRecs /\ x2.at = "waiting" /\ x2.beside = a
    BY <2>3, <2>4, <1>3 DEF AskRecs
  <2>6. y2 \in AskRecs /\ y2.at = y.at /\ y2.by = y.by /\ y2.replied = y.replied /\ y2.beside = b
    BY <2>3, <1>3 DEF AskRecs
  <2> HIDE DEF x2, y2
  <2>7. Truly(x2) /\ Truly(y2) /\ (x2.at = "waiting" /\ y2.at = "waiting" => x2.beside /\ y2.beside)
    BY <2>3, <2>5, <2>6, <1>4 DEF Truly
  <2>8. QED
    BY <2>2, <2>5, <2>6, <2>7, OneAndTheOther
<1>6. CASE GatewayReplies(p)
  <2> DEFINE heard == y.at = "waiting" /\ Answers(3 - p, p)
             x2 == [x EXCEPT !.replied = TRUE, !.at = "answered"]
             y2 == [y EXCEPT !.replied = y.replied, !.at = IF heard THEN "answered" ELSE y.at]
  <2>1. x.at = "waiting"
        /\ asks' = [q \in 1..2 |-> [asks[q] EXCEPT !.replied = @ \/ q = p,
                                                  !.at = IF @ = "waiting" /\ Answers(q, p) THEN "answered" ELSE @]]
    BY <1>6 DEF GatewayReplies
  <2>2. Answers(p, p) /\ (Answers(3 - p, p) => y.by = "echo")
    BY <1>2 DEF Answers
  <2>3. x.replied \in BOOLEAN /\ y.replied \in BOOLEAN
    BY <1>3 DEF AskRecs
  <2>4. [asks[p] EXCEPT !.replied = @ \/ p = p, !.at = IF @ = "waiting" /\ Answers(p, p) THEN "answered" ELSE @] = x2
    BY <2>1, <2>2, <2>3, <1>3 DEF AskRecs
  <2>5. [y EXCEPT !.replied = @ \/ 3 - p = p, !.at = IF @ = "waiting" /\ Answers(3 - p, p) THEN "answered" ELSE @] = y2
    <3>1. (y.replied \/ 3 - p = p) = y.replied
      BY <2>3, <1>2
    <3>2. QED
      BY <3>1
  <2>6. asks' = [q \in 1..2 |-> IF q = p THEN x2 ELSE y2]
    BY <2>1, <2>4, <2>5, <1>2
  <2>7. heard \in BOOLEAN /\ (heard => y.by = "echo" /\ y.at = "waiting")
    BY <2>2
  <2> HIDE DEF x, y, heard
  <2>8. x2 \in AskRecs /\ x2.at = "answered" /\ x2.replied
    BY <1>3 DEF AskRecs
  <2>9. /\ y2 \in AskRecs /\ y2.by = y.by /\ y2.replied = y.replied /\ y2.beside = y.beside
        /\ y2.at = IF heard THEN "answered" ELSE y.at
    BY <2>7, <1>3 DEF AskRecs
  <2> HIDE DEF x2, y2
  <2>10. Truly(x2) /\ Truly(y2) /\ (x2.at = "waiting" /\ y2.at = "waiting" => x2.beside /\ y2.beside)
    BY <2>1, <2>7, <2>8, <2>9, <1>4 DEF Truly
  <2>11. QED
    BY <2>6, <2>8, <2>9, <2>10, OneAndTheOther
<1>7. CASE WaitEnds(p)
  <2> DEFINE x2 == [x EXCEPT !.at = IF x.left = 0 THEN "failed" ELSE "asking"]
  <2>1. asks' = [asks EXCEPT ![p] = x2]
    BY <1>7 DEF WaitEnds
  <2>2. asks' = [q \in 1..2 |-> IF q = p THEN x2 ELSE y]
    BY <2>1, <1>2, <1>3
  <2> HIDE DEF x, y
  <2>3. x2 \in AskRecs /\ x2.at \in {"failed", "asking"}
    BY <1>3 DEF AskRecs
  <2> HIDE DEF x2
  <2>4. Truly(x2) /\ ~(x2.at = "waiting")
    BY <2>3 DEF Truly
  <2>5. QED
    BY <2>2, <2>3, <2>4, <1>3, <1>4, OneAndTheOther
<1>8. QED
  BY <1>1, <1>5, <1>6, <1>7

-----------------------------------------------------------------------------
\* A client's scan.

LEMMA HeardAtFirst == ASSUME ObserveInit PROVE HeardInv
  BY DEF ObserveInit, HeardInv, GatherRecs, Parts

LEMMA ThreeParts == Cardinality(Parts) = 3
<1>1. Cardinality(1..3) = IF 1 > 3 THEN 0 ELSE 3 - 1 + 1
  BY FS_Interval, 1 \in Int, 3 \in Int
<1>2. QED
  BY <1>1 DEF Parts

LEMMA HeardNextKeeps == ASSUME HeardInv, HeardNext PROVE HeardInv'
<1>1. /\ gather \in GatherRecs /\ gather.part \in 0..3 /\ gather.ended \in Nat /\ gather.held \in SUBSET Parts
      /\ gather.got \in SUBSET Parts /\ gather.behind \in BOOLEAN
  BY DEF HeardInv, GatherRecs
<1>2. CASE GatherBegins
  <2>1. /\ gather' \in GatherRecs /\ gather'.at = "scanning" /\ gather'.part = gather.part /\ gather'.held = gather.held
        /\ gather'.ended = gather.ended /\ gather'.got = gather.got /\ gather'.behind = gather.behind
    BY <1>1, <1>2 DEF GatherBegins, Listens, GatherRecs
  <2>2. QED
    BY <2>1 DEF HeardInv
<1>3. CASE PartEnds
  <2> DEFINE late == gather.behind \/ gather.ended > 0
  <2>1. gather.at = "scanning" /\ gather.part < 3
        /\ gather' = [gather EXCEPT !.part = gather.part + 1, !.held = {gather.part + 1}, !.ended = gather.ended + 1,
                                    !.behind = late]
    BY <1>3, ThreeParts DEF PartEnds
  <2>2. late \in BOOLEAN /\ gather.part + 1 \in 1..3 /\ gather.part + 1 \in 0..3 /\ gather.ended + 1 \in Nat
    BY <2>1, <1>1
  <2> HIDE DEF late
  <2>3. {gather.part + 1} \in SUBSET Parts
    BY <2>2 DEF Parts
  <2>4. /\ gather' \in GatherRecs /\ gather'.at = "scanning" /\ gather'.part = gather.part + 1
        /\ gather'.held = {gather.part + 1} /\ gather'.ended = gather.ended + 1 /\ gather'.got = gather.got
        /\ gather'.behind = late
    <3> DEFINE n == gather.part + 1  m == gather.ended + 1
    <3>1. n \in 0..3 /\ m \in Nat /\ {n} \in SUBSET Parts
      BY <2>2, <2>3
    <3>2. gather' = [gather EXCEPT !.part = n, !.held = {n}, !.ended = m, !.behind = late]
      BY <2>1
    <3> HIDE DEF n, m
    <3>3. /\ gather' \in GatherRecs /\ gather'.at = gather.at /\ gather'.part = n /\ gather'.held = {n}
          /\ gather'.ended = m /\ gather'.got = gather.got /\ gather'.behind = late
      BY <1>1, <2>2, <3>1, <3>2 DEF GatherRecs
    <3>4. QED
      BY <2>1, <3>3 DEF n, m
  <2>5. ASSUME ~late PROVE gather.ended = 0 /\ ~gather.behind /\ gather.got = 1..((gather.part + 1) - (gather.ended + 1))
    <3>1. gather.ended = 0 /\ ~gather.behind
      BY <2>5, <1>1 DEF late
    <3>2. gather.got = 1..(gather.part - gather.ended)
      BY <3>1 DEF HeardInv
    <3>3. QED
      BY <3>1, <3>2, <1>1
  <2>6. QED
    BY <2>2, <2>4, <2>5 DEF HeardInv
<1>4. CASE ReadsPart
  <2>1. gather.at = "scanning" /\ gather.ended > 0
        /\ gather' = [gather EXCEPT !.ended = gather.ended - 1, !.got = gather.got \cup gather.held]
    BY <1>4 DEF ReadsPart
  <2>2. gather.ended - 1 \in Nat /\ (gather.got \cup gather.held) \in SUBSET Parts
    BY <2>1, <1>1
  <2>3. /\ gather' \in GatherRecs /\ gather'.at = "scanning" /\ gather'.part = gather.part /\ gather'.held = gather.held
        /\ gather'.ended = gather.ended - 1 /\ gather'.got = gather.got \cup gather.held
        /\ gather'.behind = gather.behind
    BY <1>1, <2>1, <2>2 DEF GatherRecs
  <2>4. ASSUME ~gather.behind PROVE gather.ended = 1 /\ gather.got \cup gather.held = 1..gather.part
    <3>1. gather.ended = 1 /\ gather.part > 0 /\ gather.held = {gather.part} /\ gather.got = 1..(gather.part - 1)
      BY <2>1, <2>4, <1>1 DEF HeardInv
    <3>2. QED
      BY <3>1, <1>1
  <2>5. 1 - 1 = 0 /\ gather.part - 0 = gather.part
    BY <1>1
  <2>6. QED
    BY <2>3, <2>4, <2>5 DEF HeardInv
<1>5. CASE GatherEnds
  <2>1. gather.at = "scanning" /\ gather.ended = 0 /\ gather.part = 3
        /\ gather' = [gather EXCEPT !.at = "done", !.got = gather.got \cup gather.held]
    BY <1>5, ThreeParts DEF GatherEnds
  <2>2. (gather.got \cup gather.held) \in SUBSET Parts
    BY <1>1
  <2>3. /\ gather' \in GatherRecs /\ gather'.at = "done" /\ gather'.part = gather.part /\ gather'.held = gather.held
        /\ gather'.ended = gather.ended /\ gather'.got = gather.got \cup gather.held
        /\ gather'.behind = gather.behind
    BY <1>1, <2>1, <2>2 DEF GatherRecs
  <2>4. ASSUME ~gather.behind PROVE gather.got \cup gather.held = 1..(gather.part - gather.ended)
    <3>1. gather.held = {3} /\ gather.got = 1..3
      BY <2>1, <2>4 DEF HeardInv
    <3>2. QED
      BY <3>1, <2>1
  <2>5. QED
    BY <2>1, <2>3, <2>4 DEF HeardInv
<1>6. QED
  BY <1>2, <1>3, <1>4, <1>5 DEF HeardNext

LEMMA HeardTold == ASSUME HeardInv PROVE HeardInParts
  BY DEF HeardInv, HeardInParts, Parts

-----------------------------------------------------------------------------
\* The observers together: each leaves the others as they were.

LEMMA ObserveAtFirst == ASSUME ObserveInit PROVE ObserveInv
  BY IwdAtFirst, ScanAtFirst, RtnlAtFirst, GatewaysAtFirst, HeardAtFirst DEF ObserveInv

LEMMA RtnlLeft == ASSUME RtnlInv, UNCHANGED <<kernel, events, rtnl>> PROVE RtnlInv'
  BY DEF RtnlInv
LEMMA GatewayLeft == ASSUME GatewayInv, UNCHANGED asks PROVE GatewayInv'
  BY DEF GatewayInv, GatewayAnswered
LEMMA HeardLeft == ASSUME HeardInv, UNCHANGED gather PROVE HeardInv'
  BY DEF HeardInv

LEMMA ObserveNextKeeps ==
    ASSUME ObserveInv, [IwdNext \/ ScanNext \/ GatewayNext \/ RtnlNext \/ HeardNext]_observeVars PROVE ObserveInv'
<1>1. IwdInv /\ ScanInv /\ RtnlInv /\ GatewayInv /\ HeardInv
  BY DEF ObserveInv
<1>2. CASE IwdNext
  <2>1. UNCHANGED <<kernel, events, rtnl, asks, gather>>
    BY <1>2 DEF IwdNext, IwdMoves, StationGoes, StationComes, IwdDies, IwdStarts, TakesSignal, Joins, JoinFails,
                TakesOwner, Registers, Resyncs, ResyncFails
  <2>2. QED
    BY <1>1, <1>2, <2>1, IwdNextKeeps, ScansAreIwds, ScanLeft, RtnlLeft, GatewayLeft, HeardLeft DEF ObserveInv
<1>3. CASE ScanNext
  <2>1. UNCHANGED <<kernel, events, rtnl, asks, gather>>
    BY <1>3 DEF ScanNext, IwdMoves, IwdScans, IwdScanned, ScanMatches, ScanAsks, ScanChecks, ScanHears, ScanTimesOut
  <2>2. QED
    BY <1>1, <1>3, <2>1, ScanNextKeeps, RtnlLeft, GatewayLeft, HeardLeft DEF ObserveInv
<1>4. CASE GatewayNext
  <2>1. UNCHANGED Others
    BY <1>4 DEF GatewayNext, AsksGateway, GatewayReplies, WaitEnds
  <2>2. QED
    BY <1>1, <1>4, <2>1, IwdLeft, ScanLeft, RtnlLeft, GatewayNextKeeps, HeardLeft DEF ObserveInv, Others
<1>5. CASE RtnlNext
  <2>1. UNCHANGED <<iwd, signals, owners, watch, told, scan, asks, gather>>
    BY <1>5 DEF RtnlNext, LinkGoes, LinkComes, AddressMoves, ListsLinks, Lists, FollowsEvents
  <2>2. QED
    BY <1>1, <1>5, <2>1, IwdLeft, ScanLeft, RtnlNextKeeps, GatewayLeft, HeardLeft DEF ObserveInv
<1>6. CASE HeardNext
  <2>1. UNCHANGED Elsewhere
    BY <1>6 DEF HeardNext, GatherBegins, PartEnds, ReadsPart, GatherEnds
  <2>2. QED
    BY <1>1, <1>6, <2>1, IwdLeft, ScanLeft, RtnlLeft, GatewayLeft, HeardNextKeeps DEF ObserveInv, Elsewhere
<1>7. CASE UNCHANGED observeVars
  BY <1>1, <1>7, IwdLeft, ScanLeft, RtnlLeft, GatewayLeft, HeardLeft DEF ObserveInv, observeVars
<1>8. QED
  BY <1>2, <1>3, <1>4, <1>5, <1>6, <1>7

\* With nothing left to take, the driver has been told of the station, of
\* the link and of its address as they are; a scan said not to finish did
\* not; a gateway found to answer answered; and a client's scan answers
\* what every part of it heard: the observers' order of subscribing, of
\* reading and of following (observe/iwd.rs, observe/rtnl.rs, probe).
THEOREM ObservedAlways == ObserveSpec => []ObservedAsItIs
<1>1. ObserveInit => ObserveInv
  BY ObserveAtFirst
<1>2. ObserveInv /\ [IwdNext \/ ScanNext \/ GatewayNext \/ RtnlNext \/ HeardNext]_observeVars => ObserveInv'
  BY ObserveNextKeeps
<1>3. ObserveInv => ObservedAsItIs
  BY IwdTold, RtnlTold, HeardTold DEF ObserveInv, ObservedAsItIs, ScanInv, GatewayInv
<1>4. QED
  BY <1>1, <1>2, <1>3, PTL DEF ObserveSpec

-----------------------------------------------------------------------------
\* Rendering.

\* The interfaces a selection is of are there, and none is an access
\* point's.
LEMMA LinksAreThere ==
    ASSUME NEW doc, NEW sel, ~DocumentFault(doc), Fits(doc, sel)
    PROVE  /\ DOMAIN sel.links \subseteq Wired \cup Stations
           /\ \A i \in Indexed(doc.attachments) : doc.attachments[i].kind # "wireless" => doc.attachments[i].interface \in Wired
           /\ \A x \in DOMAIN sel.links : ~CandidateFault(doc.attachments[sel.links[x]], x)
<1>1. \A i \in Indexed(doc.attachments) : ~CandidateFault(doc.attachments[i], CheckedOn(doc.attachments[i]))
  BY DEF DocumentFault
<1>2. \A i \in Indexed(doc.attachments) : doc.attachments[i].kind # "wireless" => doc.attachments[i].interface \in Wired
  BY <1>1 DEF CandidateFault
<1>3. ASSUME NEW x \in DOMAIN sel.links
      PROVE  x \in Wired \cup Stations /\ ~CandidateFault(doc.attachments[sel.links[x]], x)
  <2> DEFINE i == sel.links[x]  a == doc.attachments[i]
  <2>1. i \in Indexed(doc.attachments)
        /\ IF a.kind = "wireless" THEN x \in Stations ELSE a.interface = x
    BY <1>3 DEF Fits, LinkFits
  <2>2. ~CandidateFault(a, CheckedOn(a))
    BY <1>1, <2>1
  <2>3. None \notin Stations
    BY RadiosAssumption DEF Stations
  <2> HIDE DEF a
  <2>4. x \in Wired \cup Stations
    BY <2>1, <2>2 DEF CandidateFault
  <2>5. ~CandidateFault(a, x)
    BY <2>1, <2>2, <2>3 DEF CandidateFault
  <2>6. QED
    BY <2>4, <2>5 DEF a
<1>4. QED
  BY <1>2, <1>3

\* An access point has an interface made for it (probe.rs).
LEMMA ApIsItsOwn ==
    ASSUME NEW station \in Stations
    PROVE  Radio(station).ap \notin Wired \cup Stations
<1>1. PICK i \in Indexed(Radios) : Radios[i].station = station
  BY DEF Stations
<1>2. (CHOOSE j \in Indexed(Radios) : Radios[j].station = station) \in Indexed(Radios)
  BY <1>1
<1>3. QED
  BY <1>2, RadiosAssumption DEF Radio, Stations

\* What is found of a selection was found of the document.
LEMMA NothingNewIsFound ==
    ASSUME NEW doc, NEW sel, ~DocumentFault(doc), Fits(doc, sel)
    PROVE  ~SelectedFault(doc, sel)
<1>1. \A x \in DOMAIN sel.links : ~CandidateFault(doc.attachments[sel.links[x]], x)
  BY LinksAreThere
<1>2. ASSUME HasHotspot(doc), NEW ap, NEW station PROVE ~ConfFault(doc.hotspot, ap, station)
  <2> DEFINE h == doc.hotspot  other == ApOf(FirstAp(h.interface))
  <2>1. ~ConfFault(h, other, NoChannel)
    BY <1>2 DEF DocumentFault, HotspotFault
  <2>2. ~Follows(other, NoChannel)
    BY DEF Follows
  <2> HIDE DEF h, other
  <2>3. CASE Follows(ap, station)
    <3>1. Operating(h, ap, station) = [band |-> station.band, channel |-> station.number, width |-> 20]
      BY <2>3, Zenon DEF Operating
    <3>2. Operating(h, ap, station).width = 20
      BY <3>1
    <3>3. h.ssid # "" /\ h.secret # "bad"
      BY <2>1 DEF ConfFault
    <3>4. QED
      BY <2>3, <3>2, <3>3 DEF ConfFault, WidthFault, h
  <2>4. CASE ~Follows(ap, station)
    <3>1. Operating(h, ap, station) = Operating(h, other, NoChannel)
      BY <2>2, <2>4 DEF Operating
    <3>2. QED
      BY <2>1, <2>2, <2>4, <3>1 DEF ConfFault, h
  <2>5. QED
    BY <2>3, <2>4
<1>3. QED
  BY <1>1, <1>2 DEF SelectedFault

\* Networks that share a file say the same of it.
LEMMA NetworksAgree ==
    ASSUME NEW doc, Indexed(doc.attachments) \subseteq Nat \ {0}, ~DocumentFault(doc),
           NEW f \in Networks(doc), NEW g \in Networks(doc), f.path = g.path
    PROVE  f = g
<1> DEFINE Nth(i) == doc.attachments[i]
<1>1. PICK i \in Indexed(doc.attachments) :
         Nth(i).kind = "wireless" /\ Nth(i).enabled
         /\ f = File(KnownPath(Nth(i)), [security |-> Nth(i).security, hidden |-> Nth(i).hidden])
  BY DEF Networks
<1>2. PICK j \in Indexed(doc.attachments) :
         Nth(j).kind = "wireless" /\ Nth(j).enabled
         /\ g = File(KnownPath(Nth(j)), [security |-> Nth(j).security, hidden |-> Nth(j).hidden])
  BY DEF Networks
<1>3. f.path = KnownPath(Nth(i)) /\ g.path = KnownPath(Nth(j))
  BY <1>1, <1>2 DEF File
<1>4. Shares(Nth(i), Nth(j)) /\ Shares(Nth(j), Nth(i))
  BY <1>1, <1>2, <1>3 DEF Shares
<1>5. \A k \in Indexed(doc.attachments) : \A l \in 1..(k - 1) :
         Nth(k).kind = "wireless" /\ Shares(Nth(k), Nth(l)) => Nth(l).security = Nth(k).security /\ Nth(l).hidden = Nth(k).hidden
  BY DEF DocumentFault, NetworksFault
<1>6. i = j \/ i \in 1..(j - 1) \/ j \in 1..(i - 1)
  OBVIOUS
<1> HIDE DEF Nth
<1>7. Nth(i).security = Nth(j).security /\ Nth(i).hidden = Nth(j).hidden
  BY <1>1, <1>2, <1>4, <1>5, <1>6
<1>8. QED
  BY <1>1, <1>2, <1>3, <1>7

\* What the files that are rendered are, by their paths.
Kinds(doc, sel, f) ==
    \/ f \in Networks(doc) /\ f.path[1] = "iwd" /\ f.path[3] \in {"8021x", "psk"}
    \/ \E x \in DOMAIN sel.links :
          f = File(NetworkPath(x),
                   [kind |-> doc.attachments[sel.links[x]].kind, addr |-> doc.attachments[sel.links[x]].addr,
                    ns |-> doc.attachments[sel.links[x]].ns, metric |-> METRIC_BASE + sel.links[x]])
    \/ \E x \in DOMAIN sel.links : f = File(DelegatePath(x), [ns |-> doc.attachments[sel.links[x]].ns])
    \/ sel.hotspot \in Stations /\ f = HotspotNetwork(doc.hotspot, Radio(sel.hotspot).ap)
    \/ f = Conf(doc.hotspot, Radio(sel.hotspot), sel.channels[sel.hotspot])
    \/ \E x \in Wired \ DOMAIN sel.links : f = Idle(x)
    \/ f = File(<<"iwd", "main", "conf">>, [domain |-> doc.domain])
    \/ f = File(<<"regdom", "bliti", "conf">>, [domain |-> doc.domain])

\* What is rendered is one of those kinds (render.rs).
LEMMA RenderedKinds ==
    ASSUME NEW doc, NEW sel, ~DocumentFault(doc), Fits(doc, sel), NEW f \in Render(doc, sel)
    PROVE  Kinds(doc, sel, f)
<1> DEFINE Links == UNION {CandidateFiles(doc.attachments[sel.links[x]], sel.links[x], x) : x \in DOMAIN sel.links}
           Hosted == IF ~HasHotspot(doc) \/ sel.hotspot = None THEN {}
                     ELSE {HotspotNetwork(doc.hotspot, Radio(sel.hotspot).ap),
                           Conf(doc.hotspot, Radio(sel.hotspot), sel.channels[sel.hotspot])}
           Idles == {Idle(x) : x \in {doc.attachments[i].interface :
                                          i \in {k \in Indexed(doc.attachments) : doc.attachments[k].kind # "wireless"}}
                                     \ DOMAIN sel.links}
           Own == IF Radios = <<>> THEN {}
                  ELSE {File(<<"iwd", "main", "conf">>, [domain |-> doc.domain]),
                        File(<<"regdom", "bliti", "conf">>, [domain |-> doc.domain])}
<1>1. CASE f \in Networks(doc)
  BY <1>1 DEF Networks, File, KnownPath, Kinds
<1>2. CASE f \in Links
  <2>1. PICK x \in DOMAIN sel.links : f \in CandidateFiles(doc.attachments[sel.links[x]], sel.links[x], x)
    BY <1>2
  <2>2. QED
    BY <2>1 DEF CandidateFiles, Kinds
<1>3. CASE f \in Hosted
  BY <1>3 DEF Fits, Kinds
<1>4. CASE f \in Idles
  <2>1. PICK i \in Indexed(doc.attachments) :
           /\ doc.attachments[i].kind # "wireless" /\ doc.attachments[i].interface \notin DOMAIN sel.links
           /\ f = Idle(doc.attachments[i].interface)
    BY <1>4
  <2>2. doc.attachments[i].interface \in Wired
    BY <2>1, LinksAreThere
  <2>3. QED
    BY <2>1, <2>2 DEF Kinds
<1>5. CASE f \in Own
  BY <1>5 DEF Kinds
<1>6. Render(doc, sel) = Networks(doc) \cup Links \cup Hosted \cup Idles \cup Own
  BY DEF Render
<1> HIDE DEF Links, Hosted, Idles, Own
<1>7. QED
  BY <1>1, <1>2, <1>3, <1>4, <1>5, <1>6

\* No file is rendered twice, and differently (render.rs).
LEMMA EachFileOnce ==
    ASSUME NEW doc, Indexed(doc.attachments) \subseteq Nat \ {0}, NEW sel, ~DocumentFault(doc), Fits(doc, sel),
           NEW f \in Render(doc, sel), NEW g \in Render(doc, sel), f.path = g.path
    PROVE  f = g
<1> DEFINE LinkBody(x) == [kind |-> doc.attachments[sel.links[x]].kind, addr |-> doc.attachments[sel.links[x]].addr,
                           ns |-> doc.attachments[sel.links[x]].ns, metric |-> METRIC_BASE + sel.links[x]]
           NsBody(x) == [ns |-> doc.attachments[sel.links[x]].ns]
           ap == Radio(sel.hotspot).ap
           Host == HotspotNetwork(doc.hotspot, ap)
           Conf1 == Conf(doc.hotspot, Radio(sel.hotspot), sel.channels[sel.hotspot])
           Main == File(<<"iwd", "main", "conf">>, [domain |-> doc.domain])
           Regdom == File(<<"regdom", "bliti", "conf">>, [domain |-> doc.domain])
           K1(h) == h \in Networks(doc) /\ h.path[1] = "iwd" /\ h.path[3] \in {"8021x", "psk"}
           K2(h) == \E x \in DOMAIN sel.links : h.path = <<"networkd", x, "network">> /\ h = File(NetworkPath(x), LinkBody(x))
           K3(h) == \E x \in DOMAIN sel.links : h.path = <<"resolved", x, "dns-delegate">> /\ h = File(DelegatePath(x), NsBody(x))
           K4(h) == sel.hotspot \in Stations /\ h.path = <<"networkd", ap, "network">> /\ h = Host
           K5(h) == h.path = <<"hostapd", ap, "conf">> /\ h = Conf1
           K6(h) == \E x \in Wired \ DOMAIN sel.links : h.path = <<"networkd", x, "network">> /\ h = Idle(x)
           K7(h) == h.path = <<"iwd", "main", "conf">> /\ h = Main
           K8(h) == h.path = <<"regdom", "bliti", "conf">> /\ h = Regdom
<1>1. Kinds(doc, sel, f) /\ Kinds(doc, sel, g)
  BY RenderedKinds
<1>2. DOMAIN sel.links \subseteq Wired \cup Stations
  BY LinksAreThere
<1>3. sel.hotspot \in Stations => ap \notin Wired \cup Stations
  BY ApIsItsOwn
<1>4. f \in Networks(doc) /\ g \in Networks(doc) => f = g
  BY NetworksAgree
<1>5. ASSUME NEW h, Kinds(doc, sel, h)
      PROVE  K1(h) \/ K2(h) \/ K3(h) \/ K4(h) \/ K5(h) \/ K6(h) \/ K7(h) \/ K8(h)
  BY <1>5 DEF Kinds, File, NetworkPath, DelegatePath, HotspotNetwork, Conf, Idle
<1>6. f.path = g.path
  OBVIOUS
<1> HIDE DEF LinkBody, NsBody, ap, Host, Conf1, Main, Regdom
<1>7. ASSUME NEW h, NEW k, h.path = k.path, K1(h) PROVE ~(K2(k) \/ K3(k) \/ K4(k) \/ K5(k) \/ K6(k) \/ K7(k) \/ K8(k))
  BY <1>7
<1>8. ASSUME NEW h, NEW k, h.path = k.path, K2(h) \/ K4(h) \/ K6(h)
      PROVE  ~(K3(k) \/ K5(k) \/ K7(k) \/ K8(k)) /\ (K2(k) \/ K4(k) \/ K6(k) => h = k)
  BY <1>2, <1>3, <1>8
<1>9. ASSUME NEW h, NEW k, h.path = k.path, K3(h) \/ K5(h) \/ K7(h) \/ K8(h)
      PROVE  K3(k) \/ K5(k) \/ K7(k) \/ K8(k) => h = k
  BY <1>9
<1>10. K1(f) \/ K2(f) \/ K3(f) \/ K4(f) \/ K5(f) \/ K6(f) \/ K7(f) \/ K8(f)
  BY <1>1, <1>5
<1>11. K1(g) \/ K2(g) \/ K3(g) \/ K4(g) \/ K5(g) \/ K6(g) \/ K7(g) \/ K8(g)
  BY <1>1, <1>5
<1>12. K1(f) /\ K1(g) => f = g
  BY <1>4
<1> HIDE DEF K1, K2, K3, K4, K5, K6, K7, K8
<1>13. QED
  BY <1>6, <1>7, <1>8, <1>9, <1>10, <1>11, <1>12

\* An enterprise network that is rendered was found to carry what its
\* method needs.
LEMMA Authenticated ==
    ASSUME NEW doc, NEW sel, ~DocumentFault(doc), Fits(doc, sel), NEW f \in Render(doc, sel),
           f.path[3] = "8021x", f.body.security.eap # "pwd"
    PROVE  {"ca-certificate", "domain"} \subseteq f.body.security.given
<1>1. f \in Networks(doc)
  BY RenderedKinds DEF Kinds, File, NetworkPath, DelegatePath, HotspotNetwork, Conf, Idle
<1>2. PICK i \in Indexed(doc.attachments) :
         /\ doc.attachments[i].kind = "wireless"
         /\ f = File(KnownPath(doc.attachments[i]),
                     [security |-> doc.attachments[i].security, hidden |-> doc.attachments[i].hidden])
  BY <1>1 DEF Networks
<1> DEFINE s == doc.attachments[i].security
<1>3. s.kind = "enterprise" /\ f.body.security = s
  BY <1>2 DEF File, KnownPath
<1>4. ~EnterpriseFault(s)
  BY <1>2, <1>3 DEF DocumentFault, NetworksFault, SecurityFault
<1> HIDE DEF s
<1>5. {"ca-certificate", "domain"} \subseteq Uses(s.eap)
  BY <1>3 DEF Uses
<1>6. QED
  BY <1>3, <1>4, <1>5 DEF EnterpriseFault, Optional

\* What is rendered is of a document that was found to have no fault.
Accepted == asked \subseteq Documents /\ \A doc \in asked : accepted = {TRUE} => ~DocumentFault(doc)
RenderInv == Accepted /\ RefusedAlike /\ AuthenticatesServer

\* Nothing is accepted or rendered before it is asked for.
LEMMA RenderStarts == RenderInit => RenderInv
BY DEF RenderInit, RenderInv, Accepted, RefusedAlike, AuthenticatesServer

\* A document is accepted where it was found to have no fault (render.rs,
\* check).
LEMMA CheckedFirst == RenderInv /\ Checks => RenderInv'
<1> SUFFICES ASSUME RenderInv, Checks PROVE RenderInv'
  OBVIOUS
<1>1. asked' = asked /\ rendered' = rendered /\ accepted' = {~DocumentFault(doc) : doc \in asked}
  BY DEF Checks
<1>2. RefusedAlike' /\ AuthenticatesServer'
  BY <1>1 DEF RenderInv, RefusedAlike, AuthenticatesServer
<1>3. ASSUME NEW doc \in asked, {~DocumentFault(d) : d \in asked} = {TRUE} PROVE ~DocumentFault(doc)
  <2>1. (~DocumentFault(doc)) \in {~DocumentFault(d) : d \in asked}
    OBVIOUS
  <2>2. (~DocumentFault(doc)) \in {TRUE}
    BY <2>1, <1>3, Zenon
  <2>3. QED
    BY <2>2, Zenon
<1>4. Accepted'
  BY <1>1, <1>3 DEF RenderInv, Accepted
<1>5. QED
  BY <1>2, <1>4 DEF RenderInv

\* What was accepted is rendered whatever is selected (render.rs).
LEMMA RenderedAsAccepted == RenderInv /\ Renders => RenderInv'
<1> SUFFICES ASSUME RenderInv, Renders PROVE RenderInv'
  OBVIOUS
<1>1. PICK doc \in asked, sel \in Selections :
         accepted = {TRUE} /\ Fits(doc, sel) /\ rendered' = {Rendered(doc, sel)} /\ UNCHANGED <<asked, accepted>>
  BY DEF Renders
<1>2. doc \in Documents /\ ~DocumentFault(doc)
  BY <1>1 DEF RenderInv, Accepted
<1>3. ~SelectedFault(doc, sel)
  BY <1>1, <1>2, NothingNewIsFound
<1> DEFINE r == Rendered(doc, sel)
<1>4. ~r.fault /\ r.files = Render(doc, sel)
  BY <1>3 DEF Rendered
<1>5. \A f, g \in Render(doc, sel) : f.path = g.path => f = g
  BY <1>1, <1>2, EachFileOnce, DocumentsAssumption
<1>6. \A f \in Render(doc, sel) :
         f.path[3] = "8021x" /\ f.body.security.eap # "pwd" => {"ca-certificate", "domain"} \subseteq f.body.security.given
  BY <1>1, <1>2, Authenticated
<1>7. rendered' = {r}
  BY <1>1
<1> HIDE DEF r
<1>8. RefusedAlike' /\ AuthenticatesServer'
  BY <1>4, <1>5, <1>6, <1>7 DEF RefusedAlike, AuthenticatesServer
<1>9. Accepted'
  BY <1>1 DEF RenderInv, Accepted
<1>10. QED
  BY <1>8, <1>9 DEF RenderInv

\* Every step keeps what is rendered of what was accepted.
LEMMA RenderMoves == RenderInv /\ [RenderNext]_renderVars => RenderInv'
<1>1. RenderInv /\ UNCHANGED renderVars => RenderInv'
  BY DEF RenderInv, Accepted, RefusedAlike, AuthenticatesServer, renderVars
<1>2. QED
  BY <1>1, CheckedFirst, RenderedAsAccepted DEF RenderNext

-----------------------------------------------------------------------------
\* Widths.

\* A channel widens to the group it is in.
LEMMA Grouped ==
    ASSUME NEW starts \in SUBSET Int, NEW size \in Nat, NEW n \in Int, Group(starts, size, n) # {}
    PROVE  \E s \in starts : /\ n \in s..(s + 4 * size - 1) /\ (n - s) % 4 = 0
                             /\ Group(starts, size, n) = {s + 4 * k : k \in 0..(size - 1)}
<1> DEFINE of == {s \in starts : n \in s..(s + 4 * size - 1) /\ (n - s) % 4 = 0}
           t == CHOOSE s \in of : TRUE
<1>1. Group(starts, size, n) = IF of = {} THEN {} ELSE {t + 4 * k : k \in 0..(size - 1)}
  BY Zenon DEF Group
<1>2. of # {}
  BY <1>1
<1>3. t \in of
  BY <1>2
<1>4. QED
  BY <1>1, <1>2, <1>3

\* A 40 MHz channel is a start and the channel above it (hostapd.rs,
\* span).
LEMMA Wide40 ==
    ASSUME NEW n \in 1..177, Span("5ghz", n, 40) # {}
    PROVE  \E s \in Starts40 : n \in {s, s + 4} /\ Span("5ghz", n, 40) = {s, s + 4}
<1>1. Span("5ghz", n, 40) = Group(Starts40, 2, n)
  BY DEF Span
<1>2. Starts40 \in SUBSET Int
  BY DEF Starts40
<1>3. PICK s \in Starts40 : /\ n \in s..(s + 4 * 2 - 1) /\ (n - s) % 4 = 0
                       /\ Group(Starts40, 2, n) = {s + 4 * k : k \in 0..(2 - 1)}
  <2>1. 2 \in Nat /\ n \in Int /\ Group(Starts40, 2, n) # {}
    BY <1>1
  <2>2. QED
    BY <1>2, <2>1, Grouped, Zenon
<1>4. s \in Int
  BY <1>2
<1>5. n \in {s, s + 4}
  BY <1>3, <1>4
<1>6. {s + 4 * k : k \in 0..(2 - 1)} = {s, s + 4}
  BY <1>4
<1>7. QED
  BY <1>1, <1>3, <1>5, <1>6

\* An 80 MHz channel is a start and the three channels above it
\* (hostapd.rs, span).
LEMMA Wide80 ==
    ASSUME NEW n \in 1..177, Span("5ghz", n, 80) # {}
    PROVE  \E s \in Starts80 : n \in {s, s + 4, s + 8, s + 12} /\ Span("5ghz", n, 80) = {s, s + 4, s + 8, s + 12}
<1>1. Span("5ghz", n, 80) = Group(Starts80, 4, n)
  BY DEF Span
<1>2. Starts80 \in SUBSET Int
  BY DEF Starts80
<1>3. PICK s \in Starts80 : /\ n \in s..(s + 4 * 4 - 1) /\ (n - s) % 4 = 0
                       /\ Group(Starts80, 4, n) = {s + 4 * k : k \in 0..(4 - 1)}
  <2>1. 4 \in Nat /\ n \in Int /\ Group(Starts80, 4, n) # {}
    BY <1>1
  <2>2. QED
    BY <1>2, <2>1, Grouped, Zenon
<1>4. s \in Int
  BY <1>2
<1>5. n \in {s, s + 4, s + 8, s + 12}
  BY <1>3, <1>4
<1>6. {s + 4 * k : k \in 0..(4 - 1)} = {s, s + 4, s + 8, s + 12}
  BY <1>4
<1>7. QED
  BY <1>1, <1>3, <1>5, <1>6

\* The side and the centre that are told, of every start there is.
LEMMA Sides ==
    \A s \in Starts40 : /\ Widen("5ghz", s, 40).secondary = 1 /\ Widen("5ghz", s + 4, 40).secondary = 2
                   /\ Exists("5ghz", s) /\ Exists("5ghz", s + 4)
BY DEF Starts40, Widen, Base, Exists

\* The same of 80 MHz, with the centre (hostapd.rs, widen).
LEMMA Sides80 ==
    \A s \in Starts80 : \A n \in {s, s + 4, s + 8, s + 12} :
        /\ Widen("5ghz", n, 80).secondary = (IF n \in {s, s + 8} THEN 1 ELSE 2)
        /\ Widen("5ghz", n, 80).centre = s + 6
        /\ Exists("5ghz", n)
BY DEF Starts80, Widen, Base, Exists

\* The 2.4 GHz band, where the side is a matter of the channel
\* (hostapd.rs).
LEMMA Low40 ==
    ASSUME NEW n \in 1..14
    PROVE  /\ Span("2ghz", n, 40) = (IF n <= 7 THEN {n, n + 4} ELSE {n - 4, n})
           /\ Widen("2ghz", n, 40).secondary = (IF n <= 7 THEN 1 ELSE 2)
           /\ \A width \in {80, 160} : Span("2ghz", n, width) = {}
<1>1. n <= 7 => Span("2ghz", n, 40) = {n, n + 4}
  BY DEF Span
<1>2. n > 7 => Span("2ghz", n, 40) = {n - 4, n}
  BY DEF Span
<1>3. \A width \in {80, 160} : Span("2ghz", n, width) = {}
  BY DEF Span
<1>4. QED
  BY <1>1, <1>2, <1>3 DEF Widen

\* The secondary channel and the centre that are told are of the span.
OfSpan(band, n, width, span, w) ==
    /\ n \in span
    /\ (IF w.secondary = 1 THEN n + 4 ELSE n - 4) \in span
    /\ w.secondary \in {1, 2}
    /\ \A c \in span : Exists(band, c)
    /\ width = 80 => /\ w.centre \in Int /\ w.centre > 0
                     /\ \A c \in span : c \in Int /\ c - w.centre \in {0 - 6, 0 - 2, 2, 6}

\* So of every channel and width there is (hostapd.rs, widen).
LEMMA Widens ==
    ASSUME NEW band \in {"2ghz", "5ghz"}, NEW n \in 1..177, NEW width \in {40, 80},
           Exists(band, n), Span(band, n, width) # {}
    PROVE  OfSpan(band, n, width, Span(band, n, width), Widen(band, n, width))
<1> DEFINE span == Span(band, n, width)
           w == Widen(band, n, width)
<1>1. CASE band = "2ghz"
  <2>1. n \in 1..14
    BY <1>1 DEF Exists
  <2>2. width = 40
    BY <1>1, <2>1, Low40
  <2>3. span = (IF n <= 7 THEN {n, n + 4} ELSE {n - 4, n}) /\ w.secondary = (IF n <= 7 THEN 1 ELSE 2)
    BY <1>1, <2>1, <2>2, Low40
  <2>4. \A c \in span : Exists("2ghz", c)
    BY <2>1, <2>3 DEF Exists
  <2> HIDE DEF span, w
  <2>5. /\ n \in span /\ w.secondary \in {1, 2}
        /\ (IF w.secondary = 1 THEN n + 4 ELSE n - 4) \in span
    BY <2>1, <2>3
  <2>6. QED
    BY <1>1, <2>2, <2>4, <2>5 DEF span, w, OfSpan
<1>2. CASE band = "5ghz" /\ width = 40
  <2>1. PICK s \in Starts40 : n \in {s, s + 4} /\ span = {s, s + 4}
    BY <1>2, Wide40
  <2>2. s \in Int
    BY DEF Starts40
  <2>3. w.secondary = IF n = s THEN 1 ELSE 2
    BY <1>2, <2>1, <2>2, Sides
  <2>4. \A c \in span : Exists("5ghz", c)
    BY <2>1, Sides
  <2> HIDE DEF span, w
  <2>5. /\ n \in span /\ w.secondary \in {1, 2}
        /\ (IF w.secondary = 1 THEN n + 4 ELSE n - 4) \in span
    BY <2>1, <2>2, <2>3
  <2>6. QED
    BY <1>2, <2>4, <2>5 DEF span, w, OfSpan
<1>3. CASE band = "5ghz" /\ width = 80
  <2>1. PICK s \in Starts80 : n \in {s, s + 4, s + 8, s + 12} /\ span = {s, s + 4, s + 8, s + 12}
    BY <1>3, Wide80
  <2>2. s \in Int /\ s > 0
    BY DEF Starts80
  <2>3. w.secondary = (IF n \in {s, s + 8} THEN 1 ELSE 2) /\ w.centre = s + 6
    BY <1>3, <2>1, Sides80
  <2>4. \A c \in span : Exists("5ghz", c)
    BY <2>1, Sides80
  <2> HIDE DEF span, w
  <2>5. /\ n \in span /\ w.secondary \in {1, 2}
        /\ (IF w.secondary = 1 THEN n + 4 ELSE n - 4) \in span
    BY <2>1, <2>2, <2>3
  <2>6. /\ w.centre \in Int /\ w.centre > 0
        /\ \A c \in span : c \in Int /\ c - w.centre \in {0 - 6, 0 - 2, 2, 6}
    BY <2>1, <2>2, <2>3
  <2>7. QED
    BY <1>3, <2>4, <2>5, <2>6 DEF span, w, OfSpan
<1>4. QED
  BY <1>1, <1>2, <1>3

\* hostapd's secondary channel and centre are of the span that was checked
\* (hostapd.rs).
LEMMA WidensAlways == WidensToItsSpan
<1>1. ASSUME NEW band \in {"2ghz", "5ghz"}, NEW n \in 1..177, NEW width \in {40, 80}
      PROVE  LET span == Span(band, n, width)
                 w == Widen(band, n, width)
             IN  Exists(band, n) /\ span # {} =>
                     /\ \A c \in span \cup {n, IF w.secondary = 1 THEN n + 4 ELSE n - 4} : c \in span /\ Exists(band, c)
                     /\ width = 80 => \A c \in span : c - w.centre \in {0 - 6, 0 - 2, 2, 6}
  <2> DEFINE span == Span(band, n, width)
             w == Widen(band, n, width)
  <2> SUFFICES ASSUME Exists(band, n), span # {}
               PROVE  /\ \A c \in span \cup {n, IF w.secondary = 1 THEN n + 4 ELSE n - 4} : c \in span /\ Exists(band, c)
                      /\ width = 80 => \A c \in span : c - w.centre \in {0 - 6, 0 - 2, 2, 6}
    BY Zenon
  <2>1. OfSpan(band, n, width, span, w)
    BY Widens
  <2> HIDE DEF span, w
  <2>2. QED
    BY <2>1 DEF OfSpan
<1>2. QED
  BY <1>1, Zenon DEF WidensToItsSpan

\* The pool leaves out the device's own address and the broadcast one
\* (networkd.rs).
LEMMA PoolAlways == PoolFits
<1> SUFFICES ASSUME NEW prefix \in 2..32, ~DhcpFault(prefix)
             PROVE  LET p == Pool(prefix) IN p.server < p.offset /\ p.size > 0 /\ p.offset + p.size - 1 = Hosts(prefix)
  BY DEF PoolFits
<1>1. 32 - prefix \in 2..30
  BY DEF DhcpFault
<1>2. 2^(32 - prefix) \in Int /\ 2^(32 - prefix) >= 4
  BY <1>1, PowersOfTwo
<1>3. Hosts(prefix) \in Int /\ Hosts(prefix) >= 2
  BY <1>2 DEF Hosts
<1>4. QED
  BY <1>3 DEF Pool

\* A beacon is read back as what it was sent for (hostapd.rs, bss.rs).
LEMMA ReadBack ==
    ASSUME NEW band \in {"2ghz", "5ghz"}, NEW n \in 1..177, NEW width \in {20, 40, 80},
           Exists(band, n), Span(band, n, width) # {}
    PROVE  /\ BssWidth(BeaconHt(Widen(band, n, width)), BeaconVht(Widen(band, n, width))) = width
           /\ width # 20 => BssSecondary(BeaconHt(Widen(band, n, width)), n) \in Span(band, n, width) \ {n}
<1> DEFINE wide == Widen(band, n, width)
           ht == BeaconHt(wide)
           vht == BeaconVht(wide)
<1>1. width \in {20, 40} => wide.centre = 0
  BY DEF Widen
<1>2. width = 80 => wide.centre \in Int /\ wide.centre > 0
  <2>1. ASSUME width = 80 PROVE OfSpan(band, n, width, Span(band, n, width), wide)
    <3>1. width \in {40, 80}
      BY <2>1
    <3>2. QED
      BY <3>1, Widens
  <2> HIDE DEF wide
  <2>2. QED
    BY <2>1 DEF OfSpan
<1>3. width = 20 => wide.secondary = 0
  BY DEF Widen
<1>4. ASSUME width # 20
      PROVE  /\ wide.secondary \in {1, 2}
             /\ (IF wide.secondary = 1 THEN n + 4 ELSE n - 4) \in Span(band, n, width)
  <2>1. width \in {40, 80}
    BY <1>4
  <2>2. OfSpan(band, n, width, Span(band, n, width), wide)
    BY <2>1, Widens
  <2> HIDE DEF wide
  <2>3. QED
    BY <2>2 DEF OfSpan
<1> HIDE DEF wide
<1>5. /\ vht.width = (IF width = 80 THEN 1 ELSE 0) /\ vht.seg1 = 0
  BY <1>1, <1>2 DEF BeaconVht
<1>6. width = 20 => ~ht.any
  BY <1>3 DEF BeaconHt
<1>7. ASSUME width # 20 PROVE ht.any
  <2>1. wide.secondary # 0
    BY <1>4, <1>7
  <2>2. QED
    BY <2>1 DEF BeaconHt
<1>8. wide.secondary = 1 => ht.offset = 1
  BY DEF BeaconHt
<1>9. wide.secondary = 2 => ht.offset = 3
  BY DEF BeaconHt
<1> HIDE DEF ht, vht
<1>10. BssWidth(ht, vht) = width
  BY <1>4, <1>5, <1>6, <1>7, <1>8, <1>9 DEF BssWidth
<1>11. width # 20 => BssSecondary(ht, n) = IF wide.secondary = 1 THEN n + 4 ELSE n - 4
  BY <1>4, <1>7, <1>8, <1>9 DEF BssSecondary
<1>12. width # 20 => BssSecondary(ht, n) \in Span(band, n, width) \ {n}
  BY <1>4, <1>11
<1>13. QED
  BY <1>10, <1>12 DEF ht, vht, wide

\* Of every channel and width there is (bss.rs).
LEMMA ReadsBack == WidthsReadBack
BY ReadBack DEF WidthsReadBack

-----------------------------------------------------------------------------
\* Probing.

\* The combination of a radio holds a station and an access point at once
\* only where its limits have room for both (wiphy.rs).
LEMMA BothAreHeld ==
    ASSUME NEW limits, \A i \in Indexed(limits) : limits[i].max \in Nat
    PROVE  StationBesideAp(limits) <=>
               \E place \in [{"station", "ap"} -> Indexed(limits)] :
                   /\ \A kind \in {"station", "ap"} : kind \in limits[place[kind]].types
                   /\ \A i \in Indexed(limits) :
                          Cardinality({kind \in {"station", "ap"} : place[kind] = i}) <= limits[i].max
<1>1. Cardinality({"station", "ap"}) = 2
  <2>1. {"station", "ap"} = {"ap"} \cup {"station"} /\ "station" \notin {"ap"}
    OBVIOUS
  <2>2. IsFiniteSet({"ap"}) /\ Cardinality({"ap"}) = 1
    BY FS_Singleton
  <2>3. Cardinality({"ap"} \cup {"station"}) = Cardinality({"ap"}) + 1
    BY <2>1, <2>2, FS_AddElement, Zenon
  <2>4. QED
    BY <2>1, <2>2, <2>3
<1>2. Cardinality({"station"}) = 1 /\ Cardinality({"ap"}) = 1
  BY FS_Singleton
<1>3. Cardinality({}) = 0
  BY FS_EmptySet
<1>4. ASSUME StationBesideAp(limits)
      PROVE  \E place \in [{"station", "ap"} -> Indexed(limits)] :
                 /\ \A kind \in {"station", "ap"} : kind \in limits[place[kind]].types
                 /\ \A i \in Indexed(limits) :
                        Cardinality({kind \in {"station", "ap"} : place[kind] = i}) <= limits[i].max
  <2>1. PICK i, j \in Indexed(limits) :
           /\ "station" \in limits[i].types /\ limits[i].max >= 1
           /\ "ap" \in limits[j].types /\ limits[j].max >= (IF i = j THEN 2 ELSE 1)
    BY <1>4 DEF StationBesideAp
  <2> DEFINE place == [kind \in {"station", "ap"} |-> IF kind = "station" THEN i ELSE j]
             Held(l) == {kind \in {"station", "ap"} : place[kind] = l}
  <2>2. place \in [{"station", "ap"} -> Indexed(limits)] /\ place["station"] = i /\ place["ap"] = j
    OBVIOUS
  <2> HIDE DEF place
  <2>3. \A kind \in {"station", "ap"} : kind \in limits[place[kind]].types
    BY <2>1, <2>2
  <2>4. ASSUME NEW l \in Indexed(limits) PROVE Cardinality(Held(l)) <= limits[l].max
    <3>1. CASE l = i /\ l = j
      <4>1. Held(l) = {"station", "ap"}
        BY <2>2, <3>1
      <4>2. limits[l].max \in Nat /\ limits[l].max >= 2
        BY <2>1, <3>1
      <4> HIDE DEF Held
      <4>3. QED
        BY <1>1, <4>1, <4>2
    <3>2. CASE l = i /\ l # j
      <4>1. Held(l) = {"station"}
        BY <2>2, <3>2
      <4>2. limits[l].max \in Nat /\ limits[l].max >= 1
        BY <2>1, <3>2
      <4> HIDE DEF Held
      <4>3. QED
        BY <1>2, <4>1, <4>2
    <3>3. CASE l # i /\ l = j
      <4>1. Held(l) = {"ap"}
        BY <2>2, <3>3
      <4>2. limits[l].max \in Nat /\ limits[l].max >= 1
        BY <2>1, <3>3
      <4> HIDE DEF Held
      <4>3. QED
        BY <1>2, <4>1, <4>2
    <3>4. CASE l # i /\ l # j
      <4>1. Held(l) = {}
        BY <2>2, <3>4
      <4>2. limits[l].max \in Nat
        OBVIOUS
      <4> HIDE DEF Held
      <4>3. QED
        BY <1>3, <4>1, <4>2
    <3>5. QED
      BY <3>1, <3>2, <3>3, <3>4
  <2>5. QED
    BY <2>2, <2>3, <2>4
<1>5. ASSUME NEW place \in [{"station", "ap"} -> Indexed(limits)],
             \A kind \in {"station", "ap"} : kind \in limits[place[kind]].types,
             \A i \in Indexed(limits) : Cardinality({kind \in {"station", "ap"} : place[kind] = i}) <= limits[i].max
      PROVE  StationBesideAp(limits)
  <2> DEFINE Held(l) == {kind \in {"station", "ap"} : place[kind] = l}
             i == place["station"]
             j == place["ap"]
  <2>1. i \in Indexed(limits) /\ j \in Indexed(limits) /\ "station" \in limits[i].types /\ "ap" \in limits[j].types
    BY <1>5
  <2>2. Cardinality(Held(i)) <= limits[i].max /\ Cardinality(Held(j)) <= limits[j].max
    BY <1>5, <2>1
  <2>3. limits[i].max \in Nat /\ limits[j].max \in Nat
    BY <2>1
  <2>4. IF i = j THEN Held(i) = {"station", "ap"} ELSE Held(i) = {"station"} /\ Held(j) = {"ap"}
    OBVIOUS
  <2> HIDE DEF Held, i, j
  <2>5. IF i = j THEN Cardinality(Held(i)) = 2 ELSE Cardinality(Held(i)) = 1 /\ Cardinality(Held(j)) = 1
    BY <1>1, <1>2, <2>4, Zenon
  <2>6. limits[i].max >= 1 /\ limits[j].max >= (IF i = j THEN 2 ELSE 1)
    BY <2>2, <2>3, <2>5
  <2>7. QED
    BY <2>1, <2>6 DEF StationBesideAp
<1>6. QED
  BY <1>4, <1>5

\* The bands there are to offer are the two hostapd is rendered on.
LEMMA CarriedBands ==
    ASSUME NEW band, Carried(band) # {}
    PROVE  band \in {"2ghz", "5ghz"} /\ Carried(band) \subseteq {20, 40, 80}
BY DEF Carried

\* What is asked for of a hotspot is what it was offered.
LEMMA OfferedOn ==
    ASSUME NEW station, NEW band, NEW n, NEW width
    PROVE  LET h == Offer(PlainHotspot, station, band, n, width)
           IN  /\ h.interface = station /\ h.band = band /\ h.channel = n /\ h.width = width
               /\ h.ssid = "h" /\ h.secret = "good"
BY DEF Offer, PlainHotspot

\* The channels of the two bands are numbered so (hostapd.rs, exists).
LEMMA ChannelsExist ==
    ASSUME NEW band \in {"2ghz", "5ghz"}, NEW n, Exists(band, n)
    PROVE  n \in 1..177
BY DEF Exists

\* A channel offered is one that is accepted by itself.
LEMMA OfferedFits ==
    ASSUME NEW radio, OffersHotspot(radio), NEW band \in OfferedBands(radio), NEW c \in OfferedChannels(radio, band)
    PROVE  HotspotFits({radio}, Offer(PlainHotspot, radio.station, band, c.number, 20))
<1> DEFINE h == Offer(PlainHotspot, radio.station, band, c.number, 20)
<1>1. h.interface = radio.station /\ h.band = band /\ h.channel = c.number /\ h.width = 20
  BY OfferedOn
<1>2. band \in {"2ghz", "5ghz"} /\ band \in DOMAIN radio.bands
  BY CarriedBands DEF OfferedBands
<1>3. c \in radio.bands[band].channels /\ c.starts /\ Exists(band, c.number)
  BY DEF OfferedChannels
<1>4. Span(band, c.number, 20) = {c.number}
  BY DEF Span
<1>5. radio.ap /\ band # None
  BY <1>2 DEF OffersHotspot, None
<1> HIDE DEF h
<1>6. radio \in {r \in {radio} : r.ap /\ h.interface \in {None, r.station}}
  BY <1>1, <1>5
<1>7. \A n \in Span(band, c.number, 20) : \E x \in radio.bands[band].channels : x.number = n /\ x.starts
  BY <1>3, <1>4
<1>8. HotspotFits({radio}, h)
  BY <1>1, <1>2, <1>3, <1>4, <1>5, <1>6, <1>7 DEF HotspotFits
<1>9. QED
  BY <1>8 DEF h

\* A hotspot on the air was asked for of what was offered, and was
\* rendered as it was asked for.
BodyOf(h) ==
    [ssid |-> h.ssid, secret |-> h.secret, on |-> [band |-> h.band, channel |-> h.channel, width |-> h.width],
     wide |-> Widen(h.band, h.channel, h.width)]
WellAired(a) ==
    /\ a.h.band \in {"2ghz", "5ghz"} /\ a.h.channel \in 1..177 /\ a.h.width \in {20, 40, 80}
    /\ Exists(a.h.band, a.h.channel) /\ Span(a.h.band, a.h.channel, a.h.width) # {}
    /\ a.conf = {BodyOf(a.h)}
StartsOn(radio, a) ==
    \A n \in Span(a.h.band, a.h.channel, a.h.width) : \E x \in radio.bands[a.h.band].channels : x.number = n /\ x.starts
ProbeInv ==
    /\ probed \subseteq Wiphys /\ \A v, w \in probed : v = w
    /\ \A r, s \in abilities : r = s
    /\ \A a, b \in aired : a = b
    /\ \A a \in aired : WellAired(a) /\ \A radio \in abilities : StartsOn(radio, a)
    /\ \A b \in beacon : \E a \in aired : b = AccessPoint(BodyOf(a.h))
    /\ aired # {} => abilities # {}

\* A hotspot of what was offered is accepted, and rendered as asked for
\* (hostapd.rs).
LEMMA AiredAsAsked ==
    ASSUME NEW radio, NEW band \in OfferedBands(radio), NEW c \in OfferedChannels(radio, band),
           NEW width \in OfferedWidths(radio, band),
           HotspotFits({radio}, Offer(PlainHotspot, radio.station, band, c.number, width))
    PROVE  LET h == Offer(PlainHotspot, radio.station, band, c.number, width)
               a == [h |-> h, conf |-> IF ConfFault(h, Alone, NoChannel) THEN {} ELSE {Conf(h, Alone, NoChannel).body}]
           IN  WellAired(a) /\ StartsOn(radio, a)
<1> DEFINE h == Offer(PlainHotspot, radio.station, band, c.number, width)
           o == Operating(h, Alone, NoChannel)
           conf == IF ConfFault(h, Alone, NoChannel) THEN {} ELSE {Conf(h, Alone, NoChannel).body}
           a == [h |-> h, conf |-> conf]
<1>1. /\ h.interface = radio.station /\ h.band = band /\ h.channel = c.number /\ h.width = width
      /\ h.ssid = "h" /\ h.secret = "good"
  BY OfferedOn
<1>2. band \in {"2ghz", "5ghz"} /\ width \in {20, 40, 80}
  BY CarriedBands DEF OfferedBands, OfferedWidths
<1>3. Exists(band, c.number) /\ c.number \in 1..177
  BY <1>2, ChannelsExist DEF OfferedChannels
<1>4. HotspotFits({radio}, h)
  OBVIOUS
<1> HIDE DEF h
<1>5. band # None
  BY <1>2 DEF None
<1>6. /\ Span(band, c.number, width) # {}
      /\ \A n \in Span(band, c.number, width) : \E x \in radio.bands[band].channels : x.number = n /\ x.starts
  BY <1>1, <1>2, <1>3, <1>4, <1>5 DEF HotspotFits
<1>7. ~Follows(Alone, NoChannel)
  BY DEF Follows
<1>8. h.channel # 0
  BY <1>1, <1>3
<1>9. o = [band |-> band, channel |-> c.number, width |-> width]
  BY <1>1, <1>5, <1>7, <1>8 DEF Operating
<1> HIDE DEF o
<1>10. o.band = band /\ o.channel = c.number /\ o.width = width
  BY <1>9
<1>11. ~WidthFault(o.band, o.channel, o.width)
  BY <1>6, <1>10 DEF WidthFault
<1>12. ~ConfFault(h, Alone, NoChannel)
  BY <1>1, <1>2, <1>3, <1>7, <1>10, <1>11 DEF ConfFault, o
<1>13. Conf(h, Alone, NoChannel).body = [ssid |-> h.ssid, secret |-> h.secret, on |-> o, wide |-> Widen(o.band, o.channel, o.width)]
  BY DEF Conf, File, o
<1>14. BodyOf(h) = [ssid |-> h.ssid, secret |-> h.secret, on |-> o, wide |-> Widen(o.band, o.channel, o.width)]
  BY <1>1, <1>9, <1>10 DEF BodyOf
<1>15. conf = {BodyOf(h)}
  BY <1>12, <1>13, <1>14
<1> HIDE DEF conf
<1>16. a.h = h /\ a.conf = conf
  OBVIOUS
<1> HIDE DEF a
<1>17. WellAired(a)
  BY <1>1, <1>2, <1>3, <1>6, <1>15, <1>16 DEF WellAired
<1>18. StartsOn(radio, a)
  BY <1>1, <1>6, <1>16 DEF StartsOn
<1>19. QED
  BY <1>17, <1>18 DEF a, conf, h

\* Nothing is found before the radio is probed.
LEMMA ProbeStarts == ProbeInit => ProbeInv
BY DEF ProbeInit, ProbeInv

\* A radio is probed before a hotspot is asked for (probe.rs).
LEMMA Probed == ProbeInv /\ Probes => ProbeInv'
<1> SUFFICES ASSUME ProbeInv, Probes PROVE ProbeInv'
  OBVIOUS
<1>1. /\ abilities = {} /\ abilities' = {RadioInfo(w) : w \in probed}
      /\ probed' = probed /\ aired' = aired /\ beacon' = beacon
  BY DEF Probes
<1>2. aired = {}
  BY <1>1 DEF ProbeInv
<1>3. \A r, s \in abilities' : r = s
  BY <1>1 DEF ProbeInv
<1>4. QED
  BY <1>1, <1>2, <1>3 DEF ProbeInv

\* A hotspot is asked for of what was offered (capabilities.rs).
LEMMA AiredFits == ProbeInv /\ Airs => ProbeInv'
<1> SUFFICES ASSUME ProbeInv, Airs PROVE ProbeInv'
  OBVIOUS
<1>1. PICK radio \in abilities : \E band \in OfferedBands(radio) :
        \E c \in OfferedChannels(radio, band), width \in OfferedWidths(radio, band) :
            LET h == Offer(PlainHotspot, radio.station, band, c.number, width)
            IN  /\ aired = {} /\ OffersHotspot(radio) /\ HotspotFits({radio}, h)
                /\ aired' = {[h |-> h, conf |-> IF ConfFault(h, Alone, NoChannel) THEN {}
                                               ELSE {Conf(h, Alone, NoChannel).body}]}
                /\ UNCHANGED <<probed, abilities, beacon>>
  BY Zenon DEF Airs
<1>2. PICK band \in OfferedBands(radio) :
        \E c \in OfferedChannels(radio, band), width \in OfferedWidths(radio, band) :
            LET h == Offer(PlainHotspot, radio.station, band, c.number, width)
            IN  /\ aired = {} /\ OffersHotspot(radio) /\ HotspotFits({radio}, h)
                /\ aired' = {[h |-> h, conf |-> IF ConfFault(h, Alone, NoChannel) THEN {}
                                               ELSE {Conf(h, Alone, NoChannel).body}]}
                /\ UNCHANGED <<probed, abilities, beacon>>
  BY <1>1
<1>8. PICK c \in OfferedChannels(radio, band), width \in OfferedWidths(radio, band) :
            LET h == Offer(PlainHotspot, radio.station, band, c.number, width)
            IN  /\ aired = {} /\ OffersHotspot(radio) /\ HotspotFits({radio}, h)
                /\ aired' = {[h |-> h, conf |-> IF ConfFault(h, Alone, NoChannel) THEN {}
                                               ELSE {Conf(h, Alone, NoChannel).body}]}
                /\ UNCHANGED <<probed, abilities, beacon>>
  BY <1>2
<1> DEFINE h == Offer(PlainHotspot, radio.station, band, c.number, width)
           a == [h |-> h, conf |-> IF ConfFault(h, Alone, NoChannel) THEN {} ELSE {Conf(h, Alone, NoChannel).body}]
<1>3. /\ aired = {} /\ aired' = {a} /\ probed' = probed /\ abilities' = abilities /\ beacon' = beacon
      /\ HotspotFits({radio}, h)
  BY <1>8
<1>4. WellAired(a) /\ StartsOn(radio, a)
  BY <1>3, AiredAsAsked, Zenon
<1> HIDE DEF a
<1>5. \A r \in abilities : r = radio
  BY DEF ProbeInv
<1>6. beacon' = {}
  BY <1>3 DEF ProbeInv
<1>7. QED
  BY <1>3, <1>4, <1>5, <1>6 DEF ProbeInv

\* A beacon is of what was rendered (bss.rs).
LEMMA HeardAsAired == ProbeInv /\ HearsItself => ProbeInv'
<1> SUFFICES ASSUME ProbeInv, HearsItself PROVE ProbeInv'
  OBVIOUS
<1>1. /\ beacon' = {AccessPoint(body) : body \in UNION {a.conf : a \in aired}}
      /\ probed' = probed /\ abilities' = abilities /\ aired' = aired
  BY DEF HearsItself
<1>2. ASSUME NEW b \in beacon' PROVE \E a \in aired : b = AccessPoint(BodyOf(a.h))
  <2>1. PICK body \in UNION {a.conf : a \in aired} : b = AccessPoint(body)
    BY <1>1
  <2>2. PICK a \in aired : body \in a.conf
    BY <2>1
  <2>3. a.conf = {BodyOf(a.h)}
    BY <2>2 DEF ProbeInv, WellAired
  <2>4. body = BodyOf(a.h)
    BY <2>2, <2>3
  <2>5. QED
    BY <2>1, <2>2, <2>4
<1>3. QED
  BY <1>1, <1>2 DEF ProbeInv

\* Every step keeps what is on the air to what was offered.
LEMMA ProbeMoves == ProbeInv /\ [ProbeNext]_probeVars => ProbeInv'
<1>1. ProbeInv /\ UNCHANGED probeVars => ProbeInv'
  BY DEF ProbeInv, probeVars
<1>2. QED
  BY <1>1, Probed, AiredFits, HeardAsAired DEF ProbeNext

\* What is on the air is read back (bss.rs).
LEMMA BeaconsRead == ProbeInv => BeaconReadsBack
<1> SUFFICES ASSUME ProbeInv, NEW a \in aired, NEW b \in beacon
             PROVE  /\ b.security = {"psk"} /\ b.width = a.h.width
                    /\ b.width # 20 => b.secondary \in Span(a.h.band, a.h.channel, a.h.width) \ {a.h.channel}
  BY ReadsBack DEF BeaconReadsBack
<1>1. WellAired(a) /\ b = AccessPoint(BodyOf(a.h))
  BY DEF ProbeInv
<1> DEFINE wide == Widen(a.h.band, a.h.channel, a.h.width)
<1>2. BodyOf(a.h).wide = wide /\ BodyOf(a.h).on.channel = a.h.channel
  BY DEF BodyOf
<1>3. /\ BssWidth(BeaconHt(wide), BeaconVht(wide)) = a.h.width
      /\ a.h.width # 20 => BssSecondary(BeaconHt(wide), a.h.channel) \in Span(a.h.band, a.h.channel, a.h.width) \ {a.h.channel}
  <2> DEFINE band == a.h.band  n == a.h.channel  width == a.h.width
  <2>1. /\ band \in {"2ghz", "5ghz"} /\ n \in 1..177 /\ width \in {20, 40, 80}
        /\ Exists(band, n) /\ Span(band, n, width) # {}
    BY <1>1 DEF WellAired
  <2> HIDE DEF band, n, width
  <2>2. /\ BssWidth(BeaconHt(Widen(band, n, width)), BeaconVht(Widen(band, n, width))) = width
        /\ width # 20 => BssSecondary(BeaconHt(Widen(band, n, width)), n) \in Span(band, n, width) \ {n}
    BY <2>1, ReadBack
  <2>3. QED
    BY <2>2 DEF band, n, width
<1> HIDE DEF wide
<1>4. BssSecurity(BeaconSecurity) = {"psk"}
  BY DEF BssSecurity, BeaconSecurity
<1>5. /\ b.security = BssSecurity(BeaconSecurity)
      /\ b.width = BssWidth(BeaconHt(wide), BeaconVht(wide))
      /\ b.secondary = BssSecondary(BeaconHt(wide), a.h.channel)
  BY <1>1, <1>2 DEF AccessPoint
<1>6. QED
  BY <1>3, <1>4, <1>5

\* What is offered is on the air as offered (capabilities.rs).
LEMMA OffersRender == ProbeInv => OfferedRenders
<1> SUFFICES ASSUME ProbeInv, NEW radio \in abilities PROVE
        /\ OffersHotspot(radio) =>
               \A band \in OfferedBands(radio) : \A c \in OfferedChannels(radio, band) :
                   HotspotFits({radio}, Offer(PlainHotspot, radio.station, band, c.number, 20))
        /\ \A a \in aired :
               /\ a.conf # {}
               /\ \A n \in Span(a.h.band, a.h.channel, a.h.width) :
                      \E x \in radio.bands[a.h.band].channels : x.number = n /\ x.starts
  BY Zenon DEF OfferedRenders
<1>1. ASSUME OffersHotspot(radio), NEW band \in OfferedBands(radio), NEW c \in OfferedChannels(radio, band)
      PROVE  HotspotFits({radio}, Offer(PlainHotspot, radio.station, band, c.number, 20))
  BY <1>1, OfferedFits, Zenon
<1>2. ASSUME NEW a \in aired
      PROVE  /\ a.conf # {}
             /\ \A n \in Span(a.h.band, a.h.channel, a.h.width) :
                    \E x \in radio.bands[a.h.band].channels : x.number = n /\ x.starts
  <2>1. WellAired(a) /\ StartsOn(radio, a)
    BY DEF ProbeInv
  <2>2. QED
    BY <2>1 DEF WellAired, StartsOn
<1>3. QED
  BY <1>1, <1>2

\* What runs alongside what has room for both (wiphy.rs).
LEMMA AlongsideAlways == ProbeInv => AlongsideIsAllowed
<1>1. ASSUME ProbeInv, NEW w \in probed, NEW combination \in w.combinations
      PROVE  \A i \in Indexed(combination.limits) : combination.limits[i].max \in Nat
  BY <1>1, LimitsAssumption DEF ProbeInv
<1>2. QED
  BY <1>1, BothAreHeld, Zenon DEF AlongsideIsAllowed

\* Of every radio and every document: what is offered of a radio is
\* accepted and started on every channel it takes up, its beacon is read
\* back as what was rendered; a document that was accepted is rendered
\* whatever is selected, each file once, on channels that are there, with
\* a pool that leaves the device its own address, and with what
\* authenticates the server of an enterprise network (render.rs, probe.rs,
\* hostapd.rs, networkd.rs, iwd.rs, bss.rs).
THEOREM OfferedAlways == OfferSpec => []OfferedIsRendered
<1>1. RenderInit /\ ProbeInit => RenderInv /\ ProbeInv
  BY RenderStarts, ProbeStarts
<1>2. RenderInv /\ UNCHANGED renderVars => RenderInv'
  BY RenderMoves
<1>3. ProbeInv /\ UNCHANGED probeVars => ProbeInv'
  BY ProbeMoves
<1>4. RenderInv /\ ProbeInv /\ [OfferNext]_<<renderVars, probeVars>> => (RenderInv /\ ProbeInv)'
  BY <1>2, <1>3, RenderMoves, ProbeMoves DEF OfferNext
<1>5. RenderInv /\ ProbeInv => OfferedIsRendered
  BY WidensAlways, PoolAlways, BeaconsRead, OffersRender, AlongsideAlways
  DEF OfferedIsRendered, RenderSound, ProbeSound, RenderInv
<1>6. QED
  BY <1>1, <1>4, <1>5, PTL DEF OfferSpec

-----------------------------------------------------------------------------
\* Applying.

\* What any of the renderings puts on disk.
Wanteds == {Render(r.doc, r.sel) : r \in Renderings}
AllFiles == UNION Wanteds
Known == PathsOf(AllFiles)
OnePerPath(set) == \A f, g \in set : f.path = g.path => f = g

ApplyType ==
    /\ files \in SUBSET AllFiles /\ record \in SUBSET AllFiles /\ beacons \in SUBSET AllFiles
    /\ live \in [Backends -> SUBSET AllFiles] /\ IsFiniteSet(files) /\ IsFiniteSet(record)
    /\ OnePerPath(files) /\ OnePerPath(record) /\ OnePerPath(beacons)
    /\ moving \in SUBSET Known /\ at \in 0..5
    /\ wanted \in Wanteds \cup {{}}

Resting ==
    IF at = 0 THEN todo = <<>> /\ moving = {}
    ELSE /\ wanted \in Wanteds /\ result = "none"
         /\ \A p \in moving : p[1] = Order[at]

\* iwd knows the networks on disk: it watches for them itself.
ByItself(p) == p[1] = "iwd" /\ p # MainConf
IwdReads == {f \in live["iwd"] : ByItself(f.path)} = {f \in files : ByItself(f.path)}

\* A path that no step ended in the middle of is as the record says, but
\* for what has vanished since, and so is what its daemon last read.
LastRead(p) == LiveAt(p) = At(p, IF ByItself(p) THEN files ELSE record)
SureAre == \A p \in Known \ unsure : At(p, files) \subseteq At(p, record) /\ LastRead(p)

\* And it is as wanted once the apply is done with its backend.
Settled(p) == At(p, files) = At(p, wanted) /\ At(p, record) = At(p, wanted)
Behind(p) == IF at = 0 THEN result = "ok" ELSE \E i \in 1..at : Order[i] = p[1]
DoneWith == \A p \in Known \ unsure : Behind(p) => Settled(p)

\* One hotspot at most, which has its interface and is let through, and
\* which the next apply will find.
HostServed ==
    /\ \A f \in beacons : f.path[1] = "hostapd" /\ f.path[2] \in opened \cap aps
    /\ \A f, g \in beacons : f.path = g.path
    /\ PathsOf(beacons) \subseteq PathsOf(files) \cup PathsOf(record)

\* The calls of a step, and the order they come in.
Downs == {"stop", "close", "delete"}
PutOps == {"write", "remove"}
Ups == {"create", "open", "start"}
Phase(op) == IF op \in Downs THEN 1 ELSE IF op \in PutOps THEN 2 ELSE IF op = "record" THEN 4 ELSE 3
IsCall(c, b, w, m) ==
    \/ \E f \in w : f.path \in m /\ c = Call("write", f.path, {f})
    \/ c.path \in m \ PathsOf(w) /\ c = Call("remove", c.path, {})
    \/ b = "hostapd" /\ c.op \in Downs /\ c.path \in m \ PathsOf(w) /\ c = Call(c.op, c.path, {})
    \/ b = "hostapd" /\ c.op \in Ups /\ c.path \in m \cap PathsOf(w) /\ c = Call(c.op, c.path, {})
    \/ b # "hostapd" /\ c = Call("pick up", <<b>>, {})
    \/ c = Call("record", <<b>>, {})
CallRecs == [op : Downs \cup PutOps \cup Ups \cup {"pick up", "record"},
             path : Known \cup {<<b>> : b \in Backends}, body : SUBSET AllFiles]
InTurn(t) == \A i, j \in 1..Len(t) : i < j => Phase(t[i].op) <= Phase(t[j].op)
RecordsLast(t) == Len(t) > 0 /\ \A i \in 1..Len(t) : t[i].op = "record" <=> i = Len(t)
IsPlan(t, b, w, m) ==
    /\ t \in Seq(CallRecs) /\ \A i \in 1..Len(t) : IsCall(t[i], b, w, m)
    /\ InTurn(t) /\ RecordsLast(t)

\* What the calls left of a step still do.
Calls(t, op, p) == \E i \in 1..Len(t) : t[i].op = op /\ t[i].path = p
CallsBefore(t, j, op, p) == \E i \in 1..(j - 1) : t[i].op = op /\ t[i].path = p
Stopped(t, on) ==
    \A j \in 1..Len(t) : t[j].op = "close" => t[j].path \notin PathsOf(on) \/ CallsBefore(t, j, "stop", t[j].path)
Opened(t, through) ==
    \A j \in 1..Len(t) : t[j].op = "start" => t[j].path[2] \in through \/ CallsBefore(t, j, "open", t[j].path)
WillPut(p) == At(p, files) = At(p, wanted) \/ Calls(todo, "write", p) \/ Calls(todo, "remove", p)
WillRead(p) ==
    \/ ByItself(p) \/ p \in unread \/ LiveAt(p) = At(p, wanted)
    \/ Calls(todo, "pick up", <<p[1]>>) \/ Calls(todo, "start", p) \/ Calls(todo, "stop", p)
WillStop == Order[at] = "hostapd" => \A p \in PathsOf(beacons) : p \in PathsOf(wanted) \/ Calls(todo, "stop", p)
GoesOn ==
    todo # <<>> =>
        /\ at # 0 /\ IsPlan(todo, Order[at], wanted, moving) /\ moving \subseteq unsure
        /\ Stopped(todo, beacons) /\ Opened(todo, opened) /\ WillStop
        /\ \A p \in moving : WillPut(p) /\ WillRead(p)

ApplyInv == ApplyType /\ Resting /\ IwdReads /\ SureAre /\ DoneWith /\ HostServed /\ GoesOn

\* Sequences.

LEMMA LeastOfNats ==
    ASSUME NEW S, S \subseteq Nat, S # {}
    PROVE  \E s \in S : \A t \in S : s <= t
<1> DEFINE R == {ss \in Nat \X Nat : ss[1] < ss[2]}
<1>1. IsWellFoundedOn(R, Nat)
  BY NatLessThanWellFounded DEF OpToRel
<1> HIDE DEF R
<1>2. PICK x \in S : \A y \in S : ~(<<y, x>> \in R)
  BY <1>1, WFMin
<1>3. \A y \in S : ~(y < x)
  BY <1>2 DEF R
<1> QED
  BY <1>3

\* A set laid out in a sequence is all of it.
LEMMA LaidOut ==
    ASSUME NEW S, IsFiniteSet(S)
    PROVE  /\ SetToSeq(S) \in Seq(S)
           /\ \A x \in S : \E i \in 1..Len(SetToSeq(S)) : SetToSeq(S)[i] = x
<1>1. PICK n : n = Cardinality(S)
  OBVIOUS
<1>2. n \in Nat /\ ExistsBijection(1..n, S)
  BY <1>1, FS_CardinalityType
<1>3. PICK f \in Bijection(1..n, S) : TRUE
  BY <1>2 DEF ExistsBijection
<1>4. f \in [1..n -> S] /\ IsInjective(f)
  BY <1>3 DEF Bijection, Injection
<1>5. PICK s : s = SetToSeq(S)
  OBVIOUS
<1>6. s \in [1..n -> S] /\ IsInjective(s)
  BY <1>1, <1>4, <1>5 DEF SetToSeq
<1>7. s \in Injection(1..n, S)
  BY <1>6 DEF Injection
<1>8. IsFiniteSet(1..n) /\ Cardinality(1..n) = n
  BY <1>2, FS_Interval
<1>9. s \in Surjection(1..n, S)
  BY <1>1, <1>7, <1>8, FS_Injection
<1>10. \A x \in S : \E i \in 1..n : s[i] = x
  BY <1>9 DEF Surjection
<1>11. s \in Seq(S) /\ Len(s) = n
  BY <1>2, <1>6
<1> QED
  BY <1>5, <1>10, <1>11

LEMMA Joined ==
    ASSUME NEW X, NEW s \in Seq(X), NEW t \in Seq(X)
    PROVE  /\ s \o t \in Seq(X) /\ Len(s \o t) = Len(s) + Len(t)
           /\ \A i \in 1..Len(s) : (s \o t)[i] = s[i]
           /\ \A i \in 1..Len(t) : (s \o t)[Len(s) + i] = t[i]
OBVIOUS

LEMMA OneCall ==
    ASSUME NEW X, NEW c \in X
    PROVE  <<c>> \in Seq(X) /\ Len(<<c>>) = 1 /\ <<c>>[1] = c
OBVIOUS

LEMMA SeqMade ==
    ASSUME NEW X, NEW n \in Nat, NEW t, t = [i \in 1..n |-> t[i]], \A i \in 1..n : t[i] \in X
    PROVE  t \in Seq(X) /\ Len(t) = n
OBVIOUS

\* Where what is at a place of two sequences joined comes from.
LEMMA JoinedFrom ==
    ASSUME NEW X, NEW s \in Seq(X), NEW t \in Seq(X), NEW i \in 1..Len(s \o t)
    PROVE  \/ i \in 1..Len(s) /\ (s \o t)[i] = s[i]
           \/ \E j \in 1..Len(t) : i = Len(s) + j /\ (s \o t)[i] = t[j]
<1>1. Len(s) \in Nat /\ Len(t) \in Nat /\ Len(s \o t) = Len(s) + Len(t)
  OBVIOUS
<1>2. CASE i <= Len(s)
  BY <1>1, <1>2
<1>3. CASE ~(i <= Len(s))
  <2>1. i - Len(s) \in 1..Len(t) /\ i = Len(s) + (i - Len(s))
    BY <1>1, <1>3
  <2>2. (s \o t)[i] = t[i - Len(s)]
    BY <2>1, Joined
  <2> QED
    BY <2>1, <2>2
<1> QED
  BY <1>2, <1>3

\* What is flattened is the parts in their order: t is the first n of s.
Flat(t, s, n) ==
    /\ \A i \in 1..Len(t) : \E k \in 1..n : \E j \in 1..Len(s[k]) :
         /\ t[i] = s[k][j]
         /\ \A l \in 1..(j - 1) : \E h \in 1..(i - 1) : t[h] = s[k][l]
    /\ \A k \in 1..n : \A j \in 1..Len(s[k]) : \E i \in 1..Len(t) : t[i] = s[k][j]

LEMMA FlatNext ==
    ASSUME NEW X, NEW s \in Seq(Seq(X)), NEW n \in Nat, n + 1 \in 1..Len(s), NEW t \in Seq(X), Flat(t, s, n),
           NEW u, u = t \o s[n + 1]
    PROVE  u \in Seq(X) /\ Flat(u, s, n + 1)
<1>1. PICK p : p = s[n + 1]
  OBVIOUS
<1>2. p \in Seq(X) /\ u = t \o p
  BY <1>1
<1>3. /\ u \in Seq(X) /\ Len(u) = Len(t) + Len(p) /\ Len(t) \in Nat /\ Len(p) \in Nat
      /\ \A i \in 1..Len(t) : u[i] = t[i]
      /\ \A i \in 1..Len(p) : u[Len(t) + i] = p[i]
  BY <1>2, Joined
<1>4. ASSUME NEW i \in 1..Len(u)
      PROVE  \E k \in 1..(n + 1) : \E j \in 1..Len(s[k]) :
                /\ u[i] = s[k][j]
                /\ \A l \in 1..(j - 1) : \E h \in 1..(i - 1) : u[h] = s[k][l]
  <2>1. CASE i \in 1..Len(t)
    <3>1. PICK k \in 1..n : \E j \in 1..Len(s[k]) :
             t[i] = s[k][j] /\ \A l \in 1..(j - 1) : \E h \in 1..(i - 1) : t[h] = s[k][l]
      BY <2>1 DEF Flat
    <3>2. PICK j \in 1..Len(s[k]) : t[i] = s[k][j] /\ \A l \in 1..(j - 1) : \E h \in 1..(i - 1) : t[h] = s[k][l]
      BY <3>1
    <3>3. \A h \in 1..(i - 1) : u[h] = t[h]
      BY <1>3, <2>1
    <3>4. \A l \in 1..(j - 1) : \E h \in 1..(i - 1) : u[h] = s[k][l]
      BY <3>2, <3>3
    <3>5. u[i] = s[k][j] /\ k \in 1..(n + 1)
      BY <1>3, <2>1, <3>2
    <3> QED
      BY <3>4, <3>5
  <2>2. CASE i \notin 1..Len(t)
    <3>1. PICK j : j = i - Len(t)
      OBVIOUS
    <3>2. j \in 1..Len(p) /\ i = Len(t) + j /\ u[i] = p[j]
      <4>1. i \in 1..(Len(t) + Len(p)) /\ Len(t) \in Nat /\ Len(p) \in Nat
        BY <1>3
      <4>2. j \in 1..Len(p) /\ i = Len(t) + j
        BY <2>2, <3>1, <4>1
      <4> QED
        BY <1>3, <4>2
    <3>3. ASSUME NEW l \in 1..(j - 1) PROVE \E h \in 1..(i - 1) : u[h] = p[l]
      <4>1. Len(t) + l \in 1..(i - 1) /\ l \in 1..Len(p)
        BY <1>3, <3>2
      <4>2. u[Len(t) + l] = p[l]
        BY <1>3, <4>1
      <4> QED
        BY <4>1, <4>2
    <3>4. n + 1 \in 1..(n + 1)
      OBVIOUS
    <3> QED
      BY <1>1, <3>2, <3>3, <3>4
  <2> QED
    BY <2>1, <2>2
<1>5. ASSUME NEW k \in 1..(n + 1), NEW j \in 1..Len(s[k])
      PROVE  \E i \in 1..Len(u) : u[i] = s[k][j]
  <2>1. CASE k = n + 1
    <3>1. Len(t) + j \in 1..Len(u) /\ u[Len(t) + j] = s[k][j]
      BY <1>1, <1>3, <2>1
    <3> QED
      BY <3>1
  <2>2. CASE k # n + 1
    <3>1. PICK i \in 1..Len(t) : t[i] = s[k][j]
      BY <2>2 DEF Flat
    <3>2. i \in 1..Len(u) /\ u[i] = t[i]
      BY <1>3
    <3> QED
      BY <3>1, <3>2
  <2> QED
    BY <2>1, <2>2
<1> QED
  BY <1>3, <1>4, <1>5 DEF Flat

\* Flattening goes from the first part on.
FlatBody(s, g, n) == [i \in 1..n |-> IF i = 1 THEN s[i] ELSE g[i - 1] \o s[i]]

LEMMA FlatteningExists ==
    ASSUME NEW s, NEW n \in Nat PROVE \E g : g = FlatBody(s, g, n)
<1> DEFINE without == {k \in Nat : ~\E g : g = FlatBody(s, g, k)}
<1>1. without = {}
  <2> SUFFICES ASSUME without # {} PROVE FALSE
    OBVIOUS
  <2>1. PICK k \in without : \A j \in without : k <= j
    <3>1. without \subseteq Nat
      OBVIOUS
    <3> HIDE DEF without
    <3> QED
      BY <3>1, LeastOfNats
  <2>2. k \in Nat /\ ~\E g : g = FlatBody(s, g, k)
    OBVIOUS
  <2>3. CASE k = 0
    <3>1. 1..0 = {}
      OBVIOUS
    <3>2. PICK g : g = [i \in 1..0 |-> <<>>]
      OBVIOUS
    <3>3. g = FlatBody(s, g, 0)
      BY <3>1, <3>2 DEF FlatBody
    <3> QED
      BY <2>2, <2>3, <3>3
  <2>4. CASE k # 0
    <3>1. k - 1 \in Nat /\ ~(k <= k - 1)
      BY <2>2, <2>4
    <3>2. k - 1 \notin without
      <4> HIDE DEF without
      <4> QED
        BY <2>1, <3>1
    <3>3. PICK g : g = FlatBody(s, g, k - 1)
      BY <3>1, <3>2
    <3>4. PICK h : h = [i \in 1..k |-> IF i = k THEN (IF k = 1 THEN s[1] ELSE g[k - 1] \o s[k]) ELSE g[i]]
      OBVIOUS
    <3>5. ASSUME NEW i \in 1..k PROVE h[i] = IF i = 1 THEN s[i] ELSE h[i - 1] \o s[i]
      <4>1. CASE i = k
        <5>1. k # 1 => h[k - 1] = g[k - 1]
          BY <2>2, <2>4, <3>4
        <5> QED
          BY <2>2, <3>4, <4>1, <5>1
      <4>2. CASE i # k
        <5>1. h[i] = g[i] /\ i \in 1..(k - 1)
          BY <2>2, <3>4, <4>2
        <5>2. g[i] = IF i = 1 THEN s[i] ELSE g[i - 1] \o s[i]
          BY <3>3, <5>1 DEF FlatBody
        <5>3. i # 1 => h[i - 1] = g[i - 1]
          BY <2>2, <3>4, <4>2
        <5> QED
          BY <5>1, <5>2, <5>3
      <4> QED
        BY <4>1, <4>2
    <3>6. h = FlatBody(s, h, k)
      BY <3>4, <3>5 DEF FlatBody
    <3> QED
      BY <2>2, <3>6
  <2> QED
    BY <2>3, <2>4
<1> QED
  BY <1>1

LEMMA Flattened ==
    ASSUME NEW X, NEW s \in Seq(Seq(X)), NEW t, t = FlattenSeq(s)
    PROVE  t \in Seq(X) /\ Flat(t, s, Len(s))
<1>1. PICK N : N = Len(s)
  OBVIOUS
<1>2. N \in Nat
  BY <1>1
<1>3. CASE N = 0
  <2>1. Len(s) = 0 /\ t = s
    BY <1>1, <1>3, Zenon DEF FlattenSeq
  <2>2. s = <<>>
    BY <2>1, EmptySeq
  <2>3. t \in Seq(X) /\ Len(t) = 0
    BY <2>1, <2>2, EmptySeq
  <2> QED
    BY <1>1, <1>3, <2>3 DEF Flat
<1>4. CASE N # 0
  <2>1. PICK f : f = CHOOSE g : g = FlatBody(s, g, N)
    OBVIOUS
  <2>2. f = FlatBody(s, f, N)
    BY <1>2, <2>1, FlatteningExists, Zenon
  <2>3. t = f[N]
    BY <1>1, <1>4, <2>1 DEF FlattenSeq, FlatBody
  <2>4. \A i \in 1..N : f[i] = IF i = 1 THEN s[i] ELSE f[i - 1] \o s[i]
    BY <2>2 DEF FlatBody
  <2> DEFINE off == {n \in 1..N : ~(f[n] \in Seq(X) /\ Flat(f[n], s, n))}
  <2>5. off = {}
    <3> SUFFICES ASSUME off # {} PROVE FALSE
      OBVIOUS
    <3>1. PICK n \in off : \A j \in off : n <= j
      <4>1. off \subseteq Nat
        OBVIOUS
      <4> HIDE DEF off
      <4> QED
        BY <4>1, LeastOfNats
    <3>2. n \in 1..N /\ ~(f[n] \in Seq(X) /\ Flat(f[n], s, n))
      OBVIOUS
    <3>3. CASE n = 1
      <4>1. f[1] = s[1] /\ s[1] \in Seq(X)
        BY <1>1, <2>4, <3>2, <3>3
      <4>2. PICK e \in Seq(X) : e = <<>>
        BY EmptySeq
      <4>3. Flat(e, s, 0)
        BY <4>2 DEF Flat
      <4>4. f[1] = e \o s[0 + 1] /\ 0 + 1 \in 1..Len(s) /\ 0 \in Nat
        BY <1>1, <3>2, <3>3, <4>1, <4>2
      <4>5. f[1] \in Seq(X) /\ Flat(f[1], s, 0 + 1)
        BY <4>3, <4>4, FlatNext
      <4> QED
        BY <3>2, <3>3, <4>5
    <3>4. CASE n # 1
      <4>1. PICK m : m = n - 1
        OBVIOUS
      <4>2. m \in 1..N /\ m \in Nat /\ m + 1 = n /\ ~(n <= m)
        BY <1>2, <3>2, <3>4, <4>1
      <4>3. m \notin off
        <5> HIDE DEF off
        <5> QED
          BY <3>1, <4>2
      <4>4. f[m] \in Seq(X) /\ Flat(f[m], s, m)
        BY <4>2, <4>3
      <4>5. f[n] = f[m] \o s[m + 1] /\ m + 1 \in 1..Len(s)
        BY <1>1, <2>4, <3>2, <3>4, <4>1, <4>2
      <4>6. f[n] \in Seq(X) /\ Flat(f[n], s, m + 1)
        BY <4>2, <4>4, <4>5, FlatNext
      <4> QED
        BY <3>2, <4>2, <4>6
    <3> QED
      BY <3>3, <3>4
  <2>6. N \in 1..N
    BY <1>2, <1>4
  <2> QED
    BY <1>1, <2>3, <2>5, <2>6
<1> QED
  BY <1>3, <1>4

\* The calls of a step.

\* A sequence of calls in the phases from lo to hi, each of which has what
\* it needs before it.
Led(t, op, earlier) == \A j \in 1..Len(t) : t[j].op = op => CallsBefore(t, j, earlier, t[j].path)
RunOf(t, lo, hi, b, w, m) ==
    /\ t \in Seq(CallRecs)
    /\ \A i \in 1..Len(t) : IsCall(t[i], b, w, m) /\ Phase(t[i].op) \in lo..hi
    /\ InTurn(t) /\ Led(t, "close", "stop") /\ Led(t, "start", "open")

LEMMA PhasesAre ==
    /\ \A op \in Downs : Phase(op) = 1
    /\ \A op \in PutOps : Phase(op) = 2
    /\ \A op \in Ups \cup {"pick up"} : Phase(op) = 3
    /\ Phase("record") = 4 /\ Phase("pick up") = 3
BY DEF Phase, Downs, PutOps, Ups

LEMMA CallsJoin ==
    ASSUME NEW X, NEW s \in Seq(X), NEW t \in Seq(X), NEW op, NEW p
    PROVE  Calls(s \o t, op, p) <=> Calls(s, op, p) \/ Calls(t, op, p)
<1>1. ASSUME NEW i \in 1..Len(s) PROVE i \in 1..Len(s \o t) /\ (s \o t)[i] = s[i]
  BY Joined
<1>2. ASSUME NEW i \in 1..Len(t) PROVE Len(s) + i \in 1..Len(s \o t) /\ (s \o t)[Len(s) + i] = t[i]
  BY Joined
<1>3. Calls(s, op, p) => Calls(s \o t, op, p)
  BY <1>1 DEF Calls
<1>4. Calls(t, op, p) => Calls(s \o t, op, p)
  BY <1>2 DEF Calls
<1>5. Calls(s \o t, op, p) => Calls(s, op, p) \/ Calls(t, op, p)
  BY JoinedFrom DEF Calls
<1> QED
  BY <1>3, <1>4, <1>5

LEMMA LedJoins ==
    ASSUME NEW X, NEW s \in Seq(X), NEW t \in Seq(X), NEW op, NEW earlier, Led(s, op, earlier), Led(t, op, earlier)
    PROVE  Led(s \o t, op, earlier)
<1>1. PICK u : u = s \o t
  OBVIOUS
<1>2. /\ Len(u) = Len(s) + Len(t) /\ Len(s) \in Nat /\ Len(t) \in Nat
      /\ \A i \in 1..Len(s) : u[i] = s[i]
      /\ \A i \in 1..Len(t) : u[Len(s) + i] = t[i]
  BY <1>1, Joined
<1>3. ASSUME NEW j \in 1..Len(u), u[j].op = op PROVE CallsBefore(u, j, earlier, u[j].path)
  <2>1. CASE j \in 1..Len(s)
    <3>1. PICK i \in 1..(j - 1) : s[i].op = earlier /\ s[i].path = s[j].path
      BY <1>2, <1>3, <2>1 DEF Led, CallsBefore
    <3>2. u[i] = s[i] /\ u[j] = s[j]
      BY <1>2, <2>1
    <3> QED
      BY <3>1, <3>2 DEF CallsBefore
  <2>2. CASE j \notin 1..Len(s)
    <3>1. PICK k : k = j - Len(s)
      OBVIOUS
    <3>2. k \in 1..Len(t) /\ j = Len(s) + k /\ u[j] = t[k]
      BY <1>2, <2>2, <3>1
    <3>3. PICK i \in 1..(k - 1) : t[i].op = earlier /\ t[i].path = t[k].path
      BY <1>3, <3>2 DEF Led, CallsBefore
    <3>4. Len(s) + i \in 1..(j - 1) /\ i \in 1..Len(t)
      BY <1>2, <3>2
    <3>5. u[Len(s) + i] = t[i]
      BY <1>2, <3>4
    <3> QED
      BY <3>2, <3>3, <3>4, <3>5 DEF CallsBefore
  <2> QED
    BY <2>1, <2>2
<1> QED
  BY <1>1, <1>3 DEF Led

LEMMA RunsJoin ==
    ASSUME NEW a \in Int, NEW c \in Int, NEW e \in Int, NEW h \in Int, a <= c, c <= e, e <= h,
           NEW b, NEW w, NEW m, NEW s, NEW t, RunOf(s, a, c, b, w, m), RunOf(t, e, h, b, w, m)
    PROVE  RunOf(s \o t, a, h, b, w, m)
<1>1. PICK u : u = s \o t
  OBVIOUS
<1>2. s \in Seq(CallRecs) /\ t \in Seq(CallRecs)
  BY DEF RunOf
<1>3. /\ u \in Seq(CallRecs) /\ Len(u) = Len(s) + Len(t) /\ Len(s) \in Nat /\ Len(t) \in Nat
      /\ \A i \in 1..Len(s) : u[i] = s[i]
      /\ \A i \in 1..Len(t) : u[Len(s) + i] = t[i]
  BY <1>1, <1>2, Joined
<1>4. ASSUME NEW i \in 1..Len(u)
      PROVE  \/ i \in 1..Len(s) /\ u[i] = s[i]
             \/ \E j \in 1..Len(t) : i = Len(s) + j /\ u[i] = t[j]
  BY <1>1, <1>2, JoinedFrom
<1> DEFINE P(r) == Phase(r.op)
<1>5. \A i \in 1..Len(s) : IsCall(s[i], b, w, m) /\ P(s[i]) \in a..c
  BY DEF RunOf
<1>6. \A i \in 1..Len(t) : IsCall(t[i], b, w, m) /\ P(t[i]) \in e..h
  BY DEF RunOf
<1> HIDE DEF P
<1>7. \A i \in 1..Len(u) : IsCall(u[i], b, w, m) /\ P(u[i]) \in a..h
  <2>1. a..c \subseteq a..h /\ e..h \subseteq a..h
    OBVIOUS
  <2> QED
    BY <1>4, <1>5, <1>6, <2>1
<1>8. ASSUME NEW i \in 1..Len(u), NEW j \in 1..Len(u), i < j PROVE P(u[i]) <= P(u[j])
  <2>1. CASE i \in 1..Len(s) /\ j \in 1..Len(s)
    BY <1>3, <1>8, <2>1 DEF RunOf, InTurn, P
  <2>2. CASE i \in 1..Len(s) /\ j \notin 1..Len(s)
    <3>1. P(u[i]) \in a..c
      BY <1>3, <1>5, <2>2
    <3>2. PICK l \in 1..Len(t) : u[j] = t[l]
      BY <1>4, <2>2
    <3>3. P(u[j]) \in e..h
      BY <1>6, <3>2
    <3> QED
      BY <3>1, <3>3
  <2>3. CASE i \notin 1..Len(s)
    <3>1. PICK k \in 1..Len(t) : i = Len(s) + k /\ u[i] = t[k]
      BY <1>4, <2>3
    <3>2. j \notin 1..Len(s)
      BY <1>3, <1>8, <3>1
    <3>3. PICK l \in 1..Len(t) : j = Len(s) + l /\ u[j] = t[l]
      BY <1>4, <3>2
    <3>4. k < l
      BY <1>3, <1>8, <3>1, <3>3
    <3>5. P(t[k]) <= P(t[l])
      BY <3>4 DEF RunOf, InTurn, P
    <3> QED
      BY <3>1, <3>3, <3>5
  <2> QED
    BY <2>1, <2>2, <2>3
<1>9. Led(u, "close", "stop") /\ Led(u, "start", "open")
  BY <1>1, <1>2, LedJoins DEF RunOf
<1> QED
  BY <1>1, <1>3, <1>7, <1>8, <1>9 DEF RunOf, InTurn, P

\* Calls all of one phase.
LEMMA RunOfOnePhase ==
    ASSUME NEW t \in Seq(CallRecs), NEW k \in Int, NEW b, NEW w, NEW m,
           \A i \in 1..Len(t) : IsCall(t[i], b, w, m) /\ Phase(t[i].op) = k,
           Led(t, "close", "stop"), Led(t, "start", "open")
    PROVE  RunOf(t, k, k, b, w, m)
BY DEF RunOf, InTurn

LEMMA EachIs ==
    ASSUME NEW op \in PutOps, NEW paths \in SUBSET Known, IsFiniteSet(paths), NEW t, t = Each(op, paths)
    PROVE  /\ t \in Seq(CallRecs) /\ \A i \in 1..Len(t) : \E p \in paths : t[i] = Call(op, p, {})
           /\ \A p \in paths : \E i \in 1..Len(t) : t[i] = Call(op, p, {})
<1>1. PICK s : s = SetToSeq(paths)
  OBVIOUS
<1>2. s \in Seq(paths) /\ \A p \in paths : \E i \in 1..Len(s) : s[i] = p
  BY <1>1, LaidOut
<1>3. PICK n \in Nat : n = Len(s)
  BY <1>2
<1>4. t = [i \in 1..n |-> Call(op, s[i], {})]
  BY <1>1, <1>2, <1>3 DEF Each
<1>5. \A p \in paths : Call(op, p, {}) \in CallRecs
  BY DEF Call, CallRecs, PutOps
<1>6. \A i \in 1..n : s[i] \in paths
  BY <1>2, <1>3
<1>7. t \in Seq(CallRecs) /\ Len(t) = n
  BY <1>4, <1>5, <1>6
<1> QED
  BY <1>2, <1>3, <1>4, <1>6, <1>7

\* What is put in place: files written, and files taken away.
LEMMA PutsAre ==
    ASSUME NEW b, NEW w \in SUBSET AllFiles, NEW m, NEW written \in SUBSET w, NEW removed \in SUBSET Known,
           IsFiniteSet(written), IsFiniteSet(removed),
           PathsOf(written) \subseteq m, removed \subseteq m \ PathsOf(w), NEW t, t = Puts(written, removed)
    PROVE  /\ RunOf(t, 2, 2, b, w, m)
           /\ \A f \in written : Calls(t, "write", f.path)
           /\ \A p \in removed : Calls(t, "remove", p)
<1>1. PICK s : s = SetToSeq(written)
  OBVIOUS
<1>2. s \in Seq(written) /\ \A f \in written : \E i \in 1..Len(s) : s[i] = f
  BY <1>1, LaidOut
<1>3. PICK n \in Nat : n = Len(s)
  BY <1>2
<1>4. PICK ws : ws = [i \in 1..n |-> Call("write", s[i].path, {s[i]})]
  OBVIOUS
<1>5. PICK rs : rs = Each("remove", removed)
  OBVIOUS
<1>6. t = ws \o rs
  <2>1. DOMAIN s = 1..n
    BY <1>2, <1>3
  <2>2. ws = [i \in DOMAIN s |-> Call("write", s[i].path, {s[i]})]
    BY <1>4, <2>1
  <2> QED
    BY <1>1, <1>5, <2>2 DEF Puts
<1>7. ASSUME NEW f \in written
      PROVE  Call("write", f.path, {f}) \in CallRecs /\ IsCall(Call("write", f.path, {f}), b, w, m)
  <2>1. f \in AllFiles /\ f.path \in Known /\ f.path \in m /\ f \in w
    BY DEF PathsOf, Known
  <2> QED
    BY <2>1 DEF Call, CallRecs, PutOps, IsCall
<1>8. \A i \in 1..n : s[i] \in written
  BY <1>2, <1>3
<1>9. ws \in Seq(CallRecs) /\ Len(ws) = n
  <2>1. \A i \in 1..n : ws[i] \in CallRecs
    BY <1>4, <1>7, <1>8
  <2>2. ws = [i \in 1..n |-> ws[i]]
    BY <1>4
  <2> QED
    BY <2>1, <2>2, SeqMade
<1>10. \A i \in 1..n : IsCall(ws[i], b, w, m) /\ ws[i].op = "write"
  BY <1>4, <1>7, <1>8 DEF Call
<1>11. /\ rs \in Seq(CallRecs) /\ \A i \in 1..Len(rs) : \E p \in removed : rs[i] = Call("remove", p, {})
       /\ \A p \in removed : \E i \in 1..Len(rs) : rs[i] = Call("remove", p, {})
  <2>1. "remove" \in PutOps
    BY DEF PutOps
  <2> QED
    BY <1>5, <2>1, EachIs
<1>12. \A p \in removed : IsCall(Call("remove", p, {}), b, w, m) /\ Call("remove", p, {}).op = "remove"
                          /\ Call("remove", p, {}).path = p
  BY DEF IsCall, Call
<1>13. \A i \in 1..Len(rs) : IsCall(rs[i], b, w, m) /\ rs[i].op = "remove"
  BY <1>11, <1>12
<1>14. RunOf(ws, 2, 2, b, w, m)
  <2>1. Phase("write") = 2 /\ "write" # "close" /\ "write" # "start"
    BY PhasesAre DEF PutOps
  <2>2. Led(ws, "close", "stop") /\ Led(ws, "start", "open")
    BY <1>9, <1>10, <2>1 DEF Led
  <2> QED
    BY <1>9, <1>10, <2>1, <2>2, RunOfOnePhase
<1>15. RunOf(rs, 2, 2, b, w, m)
  <2>1. Phase("remove") = 2 /\ "remove" # "close" /\ "remove" # "start"
    BY PhasesAre DEF PutOps
  <2>2. Led(rs, "close", "stop") /\ Led(rs, "start", "open")
    BY <1>13, <2>1 DEF Led
  <2> QED
    BY <1>11, <1>13, <2>1, <2>2, RunOfOnePhase
<1>16. RunOf(t, 2, 2, b, w, m)
  BY <1>6, <1>14, <1>15, RunsJoin
<1>17. ASSUME NEW f \in written PROVE Calls(t, "write", f.path)
  <2>1. PICK i \in 1..n : s[i] = f
    BY <1>2, <1>3
  <2>2. ws[i].op = "write" /\ ws[i].path = f.path
    BY <1>4, <2>1 DEF Call
  <2>3. Calls(ws, "write", f.path)
    BY <1>9, <2>2 DEF Calls
  <2> QED
    BY <1>6, <1>9, <1>11, <2>3, CallsJoin
<1>18. ASSUME NEW p \in removed PROVE Calls(t, "remove", p)
  <2>1. PICK i \in 1..Len(rs) : rs[i] = Call("remove", p, {})
    BY <1>11
  <2>2. Calls(rs, "remove", p)
    BY <1>12, <2>1 DEF Calls
  <2> QED
    BY <1>6, <1>9, <1>11, <2>2, CallsJoin
<1> QED
  BY <1>16, <1>17, <1>18

\* The hotspots that go: each is stopped before anything of it is taken.
LEMMA TakesDownIs ==
    ASSUME NEW w, NEW m, NEW removed \in SUBSET Known, IsFiniteSet(removed), removed \subseteq m \ PathsOf(w),
           NEW t, t = TakesDown(removed)
    PROVE  RunOf(t, 1, 1, "hostapd", w, m) /\ \A p \in removed : Calls(t, "stop", p)
<1>1. PICK s : s = SetToSeq(removed)
  OBVIOUS
<1>2. s \in Seq(removed) /\ \A p \in removed : \E i \in 1..Len(s) : s[i] = p
  BY <1>1, LaidOut
<1>3. PICK n \in Nat : n = Len(s)
  BY <1>2
<1> DEFINE Three(p) == <<Call("stop", p, {}), Call("close", p, {}), Call("delete", p, {})>>
<1>4. PICK q : q = [i \in 1..n |-> Three(s[i])]
  OBVIOUS
<1>5. t = FlattenSeq(q)
  <2>1. DOMAIN s = 1..n
    BY <1>2, <1>3
  <2>2. q = [i \in DOMAIN s |-> <<Call("stop", s[i], {}), Call("close", s[i], {}), Call("delete", s[i], {})>>]
    BY <1>4, <2>1
  <2> QED
    BY <1>1, <2>2 DEF TakesDown
<1>6. ASSUME NEW p \in removed, NEW op \in Downs
      PROVE  /\ Call(op, p, {}) \in CallRecs /\ IsCall(Call(op, p, {}), "hostapd", w, m)
             /\ Call(op, p, {}).op = op /\ Call(op, p, {}).path = p
  BY DEF Call, CallRecs, IsCall
<1>7. ASSUME NEW p \in removed
      PROVE  /\ Three(p) \in Seq(CallRecs) /\ Len(Three(p)) = 3
             /\ Three(p)[1] = Call("stop", p, {}) /\ Three(p)[2] = Call("close", p, {}) /\ Three(p)[3] = Call("delete", p, {})
  <2>1. {Call("stop", p, {}), Call("close", p, {}), Call("delete", p, {})} \subseteq CallRecs
    BY <1>6 DEF Downs
  <2> QED
    BY <2>1
<1>8. \A i \in 1..n : s[i] \in removed /\ q[i] = Three(s[i])
  BY <1>2, <1>3, <1>4
<1> HIDE DEF Three
<1>9. q \in Seq(Seq(CallRecs)) /\ Len(q) = n
  BY <1>4, <1>7, <1>8
<1>10. t \in Seq(CallRecs) /\ Flat(t, q, n)
  BY <1>5, <1>9, Flattened
<1>11. ASSUME NEW i \in 1..Len(t)
       PROVE  /\ \E p \in removed, op \in Downs : t[i] = Call(op, p, {})
              /\ t[i].op = "close" => CallsBefore(t, i, "stop", t[i].path)
  <2>1. PICK k \in 1..n : \E j \in 1..Len(q[k]) :
           t[i] = q[k][j] /\ \A l \in 1..(j - 1) : \E h \in 1..(i - 1) : t[h] = q[k][l]
    BY <1>10 DEF Flat
  <2>2. PICK j \in 1..Len(q[k]) : t[i] = q[k][j] /\ \A l \in 1..(j - 1) : \E h \in 1..(i - 1) : t[h] = q[k][l]
    BY <2>1
  <2>3. PICK p \in removed : q[k] = Three(p)
    BY <1>8
  <2>4. /\ j \in {1, 2, 3} /\ q[k][1] = Call("stop", p, {}) /\ q[k][2] = Call("close", p, {})
        /\ q[k][3] = Call("delete", p, {})
    <3>1. j \in 1..3
      BY <1>7, <2>2, <2>3
    <3> QED
      BY <1>7, <2>3, <3>1
  <2>5. \E op \in Downs : t[i] = Call(op, p, {})
    BY <2>2, <2>4 DEF Downs
  <2>6. ASSUME t[i].op = "close" PROVE CallsBefore(t, i, "stop", t[i].path)
    <3>1. j = 2
      BY <2>2, <2>4, <2>6 DEF Call
    <3>2. PICK h \in 1..(i - 1) : t[h] = Call("stop", p, {})
      BY <2>2, <2>4, <3>1
    <3>3. t[i].path = p /\ t[h].op = "stop" /\ t[h].path = p
      BY <2>2, <2>4, <3>1, <3>2 DEF Call
    <3> QED
      BY <3>3 DEF CallsBefore
  <2> QED
    BY <2>5, <2>6
<1>12. Led(t, "close", "stop")
  BY <1>11 DEF Led
<1>13. ASSUME NEW i \in 1..Len(t) PROVE IsCall(t[i], "hostapd", w, m) /\ t[i].op \in Downs
  BY <1>6, <1>11
<1>14. Led(t, "start", "open")
  BY <1>13 DEF Led, Downs
<1>15. RunOf(t, 1, 1, "hostapd", w, m)
  <2>1. \A i \in 1..Len(t) : IsCall(t[i], "hostapd", w, m) /\ Phase(t[i].op) = 1
    BY <1>13, PhasesAre
  <2> QED
    BY <1>10, <1>12, <1>14, <2>1, RunOfOnePhase
<1>16. ASSUME NEW p \in removed PROVE Calls(t, "stop", p)
  <2>1. PICK k \in 1..n : s[k] = p
    BY <1>2, <1>3
  <2>2. Len(q[k]) = 3 /\ q[k][1] = Call("stop", p, {})
    BY <1>7, <1>8, <2>1
  <2>3. PICK i \in 1..Len(t) : t[i] = Call("stop", p, {})
    <3>1. 1 \in 1..Len(q[k])
      BY <2>2
    <3>2. \E i \in 1..Len(t) : t[i] = q[k][1]
      BY <1>10, <3>1 DEF Flat
    <3> QED
      BY <2>2, <3>2
  <2> QED
    BY <2>3 DEF Calls, Call
<1> QED
  BY <1>15, <1>16

\* The hotspots that come: each is let through before it is started.
LEMMA BringsUpIs ==
    ASSUME NEW w \in SUBSET AllFiles, NEW m, NEW written \in SUBSET w, IsFiniteSet(written), PathsOf(written) \subseteq m,
           NEW t, t = BringsUp(written)
    PROVE  RunOf(t, 3, 3, "hostapd", w, m) /\ \A f \in written : Calls(t, "start", f.path)
<1>1. PICK s : s = SetToSeq(written)
  OBVIOUS
<1>2. s \in Seq(written) /\ \A f \in written : \E i \in 1..Len(s) : s[i] = f
  BY <1>1, LaidOut
<1>3. PICK n \in Nat : n = Len(s)
  BY <1>2
<1> DEFINE Two(p) == <<Call("open", p, {}), Call("start", p, {})>>
           Three(p) == <<Call("create", p, {}), Call("open", p, {}), Call("start", p, {})>>
<1>4. PICK q : q = [i \in 1..n |-> IF s[i].path \in PathsOf(record) THEN Two(s[i].path) ELSE Three(s[i].path)]
  OBVIOUS
<1>5. t = FlattenSeq(q)
  <2>1. DOMAIN s = 1..n
    BY <1>2, <1>3
  <2>2. q = [i \in DOMAIN s |->
               IF s[i].path \in PathsOf(record)
               THEN <<Call("open", s[i].path, {}), Call("start", s[i].path, {})>>
               ELSE <<Call("create", s[i].path, {}), Call("open", s[i].path, {}), Call("start", s[i].path, {})>>]
    BY <1>4, <2>1
  <2> QED
    BY <1>1, <2>2 DEF BringsUp
<1>6. PICK ps : ps = PathsOf(written)
  OBVIOUS
<1>7. ps \subseteq Known /\ ps \subseteq m \cap PathsOf(w)
  BY <1>6 DEF PathsOf, Known
<1>8. ASSUME NEW p \in ps, NEW op \in Ups
      PROVE  /\ Call(op, p, {}) \in CallRecs /\ IsCall(Call(op, p, {}), "hostapd", w, m)
             /\ Call(op, p, {}).op = op /\ Call(op, p, {}).path = p
  BY <1>7 DEF Call, CallRecs, IsCall
<1>9. ASSUME NEW p \in ps
      PROVE  /\ Two(p) \in Seq(CallRecs) /\ Len(Two(p)) = 2 /\ Three(p) \in Seq(CallRecs) /\ Len(Three(p)) = 3
             /\ Two(p)[1] = Call("open", p, {}) /\ Two(p)[2] = Call("start", p, {})
             /\ Three(p)[1] = Call("create", p, {}) /\ Three(p)[2] = Call("open", p, {}) /\ Three(p)[3] = Call("start", p, {})
  <2>1. {Call("create", p, {}), Call("open", p, {}), Call("start", p, {})} \subseteq CallRecs
    BY <1>8 DEF Ups
  <2> QED
    BY <2>1
<1>10. \A i \in 1..n : s[i].path \in ps /\ (q[i] = Two(s[i].path) \/ q[i] = Three(s[i].path))
  BY <1>2, <1>3, <1>4, <1>6 DEF PathsOf
<1> HIDE DEF Two, Three
<1>11. q \in Seq(Seq(CallRecs)) /\ Len(q) = n
  BY <1>4, <1>9, <1>10
<1>12. t \in Seq(CallRecs) /\ Flat(t, q, n)
  BY <1>5, <1>11, Flattened
<1>13. ASSUME NEW i \in 1..Len(t)
       PROVE  /\ \E p \in ps, op \in Ups : t[i] = Call(op, p, {})
              /\ t[i].op = "start" => CallsBefore(t, i, "open", t[i].path)
  <2>1. PICK k \in 1..n : \E j \in 1..Len(q[k]) :
           t[i] = q[k][j] /\ \A l \in 1..(j - 1) : \E h \in 1..(i - 1) : t[h] = q[k][l]
    BY <1>12 DEF Flat
  <2>2. PICK j \in 1..Len(q[k]) : t[i] = q[k][j] /\ \A l \in 1..(j - 1) : \E h \in 1..(i - 1) : t[h] = q[k][l]
    BY <2>1
  <2>3. PICK p \in ps : q[k] = Two(p) \/ q[k] = Three(p)
    BY <1>10
  <2>4. /\ q[k] = Two(p) => /\ j \in {1, 2} /\ q[k][1] = Call("open", p, {}) /\ q[k][2] = Call("start", p, {})
        /\ q[k] = Three(p) => /\ j \in {1, 2, 3} /\ q[k][1] = Call("create", p, {}) /\ q[k][2] = Call("open", p, {})
                              /\ q[k][3] = Call("start", p, {})
    <3>1. q[k] = Two(p) => j \in 1..2
      BY <1>9, <2>2
    <3>2. q[k] = Three(p) => j \in 1..3
      BY <1>9, <2>2
    <3> QED
      BY <1>9, <3>1, <3>2
  <2>5. \E op \in Ups : t[i] = Call(op, p, {})
    BY <2>2, <2>3, <2>4 DEF Ups
  <2>6. ASSUME t[i].op = "start" PROVE CallsBefore(t, i, "open", t[i].path)
    <3>1. t[i] = Call("start", p, {}) /\ j > 1 /\ q[k][j - 1] = Call("open", p, {}) /\ j \in Nat
      <4>1. Call("open", p, {}).op = "open" /\ Call("create", p, {}).op = "create"
        BY DEF Call
      <4> QED
        BY <2>2, <2>3, <2>4, <2>6, <4>1
    <3>2. PICK h \in 1..(i - 1) : t[h] = Call("open", p, {})
      <4>1. j - 1 \in 1..(j - 1)
        BY <3>1
      <4> QED
        BY <2>2, <3>1, <4>1
    <3>3. t[i].path = p /\ t[h].op = "open" /\ t[h].path = p
      BY <3>1, <3>2 DEF Call
    <3> QED
      BY <3>3 DEF CallsBefore
  <2> QED
    BY <2>5, <2>6
<1>14. Led(t, "start", "open")
  BY <1>13 DEF Led
<1>15. ASSUME NEW i \in 1..Len(t) PROVE IsCall(t[i], "hostapd", w, m) /\ t[i].op \in Ups
  BY <1>8, <1>13
<1>16. Led(t, "close", "stop")
  BY <1>15 DEF Led, Ups
<1>17. RunOf(t, 3, 3, "hostapd", w, m)
  <2>1. \A i \in 1..Len(t) : IsCall(t[i], "hostapd", w, m) /\ Phase(t[i].op) = 3
    BY <1>15, PhasesAre
  <2> QED
    BY <1>12, <1>14, <1>16, <2>1, RunOfOnePhase
<1>18. ASSUME NEW f \in written PROVE Calls(t, "start", f.path)
  <2>1. PICK k \in 1..n : s[k] = f
    BY <1>2, <1>3
  <2>2. PICK j \in 1..Len(q[k]) : q[k][j] = Call("start", f.path, {})
    BY <1>9, <1>10, <2>1
  <2>3. PICK i \in 1..Len(t) : t[i] = Call("start", f.path, {})
    BY <1>12, <2>2 DEF Flat
  <2> QED
    BY <2>3 DEF Calls, Call
<1> QED
  BY <1>17, <1>18

LEMMA LastPhases == \A op \in {"pick up", "record"} : Phase(op) \in 3..4 /\ Phase(op) \in Int
<1>1. \A k \in {3, 4} : k \in 3..4 /\ k \in Int
  OBVIOUS
<1>2. Phase("pick up") = 3 /\ Phase("record") = 4
  BY PhasesAre, Zenon
<1> QED
  BY <1>1, <1>2, Zenon

LEMMA OnlyPlace == ASSUME NEW n, n = 1 PROVE 1 \in 1..n /\ \A i \in 1..n : i = 1
OBVIOUS

LEMMA SingleIs ==
    ASSUME NEW b \in Backends, NEW w, NEW m, NEW op \in {"pick up", "record"}, op = "pick up" => b # "hostapd",
           NEW t, t = <<Call(op, <<b>>, {})>>
    PROVE  /\ RunOf(t, Phase(op), Phase(op), b, w, m) /\ Phase(op) \in 3..4
           /\ Len(t) = 1 /\ t[1].op = op /\ t[1].path = <<b>>
<1>1. PICK c : c = Call(op, <<b>>, {})
  OBVIOUS
<1>2. c \in CallRecs /\ IsCall(c, b, w, m) /\ c.op = op /\ c.path = <<b>>
  BY <1>1 DEF Call, CallRecs, IsCall
<1>3. t \in Seq(CallRecs) /\ Len(t) = 1 /\ t[1] = c
  <2>1. t = <<c>> /\ c \in CallRecs
    BY <1>1, <1>2
  <2> QED
    BY <2>1, OneCall
<1>4. Led(t, "close", "stop") /\ Led(t, "start", "open")
  <2>1. \A i \in 1..Len(t) : i = 1
    BY <1>3, OnlyPlace
  <2> QED
    BY <1>2, <1>3, <2>1 DEF Led
<1>5. Phase(op) \in 3..4 /\ Phase(op) \in Int
  BY LastPhases, Zenon
<1>6. Phase(op) \in Int
  BY <1>5
<1>7. RunOf(t, Phase(op), Phase(op), b, w, m)
  <2>1. \A i \in 1..Len(t) : i = 1
    BY <1>3, OnlyPlace
  <2>2. \A i \in 1..Len(t) : IsCall(t[i], b, w, m) /\ Phase(t[i].op) = Phase(op)
    BY <1>2, <1>3, <2>1
  <2> QED
    BY <1>3, <1>4, <1>6, <2>2, RunOfOnePhase
<1> QED
  BY <1>2, <1>3, <1>5, <1>7

\* A step records itself last.
LEMMA RecordsAfter ==
    ASSUME NEW b \in Backends, NEW w, NEW m, NEW s, RunOf(s, 1, 3, b, w, m), NEW t, t = s \o Saves(b)
    PROVE  /\ IsPlan(t, b, w, m) /\ Led(t, "close", "stop") /\ Led(t, "start", "open")
           /\ \A op, p : Calls(s, op, p) => Calls(t, op, p)
<1>1. PICK r : r = Saves(b)
  OBVIOUS
<1>2. RunOf(r, 4, 4, b, w, m) /\ Len(r) = 1 /\ r[1].op = "record"
  <2>1. r = <<Call("record", <<b>>, {})>>
    BY <1>1 DEF Saves
  <2>2. RunOf(r, Phase("record"), Phase("record"), b, w, m) /\ Len(r) = 1 /\ r[1].op = "record"
    BY <2>1, SingleIs
  <2> QED
    BY <2>2, PhasesAre
<1>3. RunOf(t, 1, 4, b, w, m)
  BY <1>1, <1>2, RunsJoin
<1>4. s \in Seq(CallRecs) /\ r \in Seq(CallRecs)
  BY <1>2 DEF RunOf
<1>5. /\ Len(t) = Len(s) + 1 /\ Len(s) \in Nat /\ t[Len(s) + 1] = r[1]
      /\ \A i \in 1..Len(s) : t[i] = s[i]
  <2>1. /\ Len(t) = Len(s) + Len(r) /\ Len(s) \in Nat
        /\ \A i \in 1..Len(s) : t[i] = s[i]
        /\ \A i \in 1..Len(r) : t[Len(s) + i] = r[i]
    BY <1>1, <1>4, Joined
  <2>2. 1 \in 1..Len(r)
    BY <1>2
  <2> QED
    BY <1>2, <2>1, <2>2
<1>6. ASSUME NEW i \in 1..Len(t) PROVE t[i].op = "record" <=> i = Len(t)
  <2>1. CASE i = Len(t)
    BY <1>2, <1>5, <2>1
  <2>2. CASE i # Len(t)
    <3>1. i \in 1..Len(s) /\ t[i] = s[i]
      BY <1>5, <2>2
    <3>2. Phase(t[i].op) \in 1..3
      BY <3>1 DEF RunOf
    <3>3. t[i].op # "record"
      <4>1. t[i].op = "record" => Phase(t[i].op) = 4
        BY PhasesAre
      <4> QED
        BY <3>2, <4>1
    <3> QED
      BY <2>2, <3>3
  <2> QED
    BY <2>1, <2>2
<1>7. RecordsLast(t)
  BY <1>5, <1>6 DEF RecordsLast
<1>8. \A op, p : Calls(s, op, p) => Calls(t, op, p)
  BY <1>1, <1>4, CallsJoin
<1> QED
  BY <1>3, <1>7, <1>8 DEF IsPlan, RunOf

\* What a step of the applier is to do, with b its backend and w what is
\* applied.
IsStep(t, b, w, written, removed) ==
    /\ IsPlan(t, b, w, PathsOf(written) \cup removed) /\ Led(t, "close", "stop") /\ Led(t, "start", "open")
    /\ \A f \in written : Calls(t, "write", f.path)
    /\ \A p \in removed : Calls(t, "remove", p)
    /\ b = "hostapd" => /\ \A f \in written : Calls(t, "start", f.path)
                        /\ \A p \in removed : Calls(t, "stop", p)
    /\ \/ b \in {"networkd", "resolved"}
       \/ b = "regdom" /\ written # {}
       \/ b = "iwd" /\ MainConf \in PathsOf(written) \cup removed
       => Calls(t, "pick up", <<b>>)

LEMMA PicksUpIs ==
    ASSUME NEW b \in Backends, b # "hostapd", NEW w, NEW m, NEW written, NEW removed, NEW t, t = PicksUp(b, written, removed)
    PROVE  /\ RunOf(t, 3, 3, b, w, m)
           /\ \/ b \in {"networkd", "resolved"}
              \/ b = "regdom" /\ written # {}
              \/ b = "iwd" /\ MainConf \in PathsOf(written) \cup removed
              => Calls(t, "pick up", <<b>>)
<1>1. PICK one : one = <<Call("pick up", <<b>>, {})>>
  OBVIOUS
<1>2. RunOf(one, 3, 3, b, w, m) /\ Len(one) = 1 /\ one[1].op = "pick up" /\ one[1].path = <<b>>
  <2>1. /\ RunOf(one, Phase("pick up"), Phase("pick up"), b, w, m)
        /\ Len(one) = 1 /\ one[1].op = "pick up" /\ one[1].path = <<b>>
    BY <1>1, SingleIs, Zenon
  <2> QED
    BY <2>1, PhasesAre, Zenon
<1>3. Calls(one, "pick up", <<b>>)
  <2>1. 1 \in 1..Len(one)
    BY <1>2, OnlyPlace
  <2> QED
    BY <1>2, <2>1 DEF Calls
<1>4. RunOf(<<>>, 3, 3, b, w, m)
  <2>1. <<>> \in Seq(CallRecs) /\ Len(<<>>) = 0
    BY EmptySeq
  <2>2. \A i \in 1..Len(<<>>) : FALSE
    BY <2>1
  <2> QED
    BY <2>1, <2>2 DEF RunOf, InTurn, Led
<1>5. t = one \/ t = <<>>
  BY <1>1 DEF PicksUp
<1>6. \/ b \in {"networkd", "resolved"}
      \/ b = "regdom" /\ written # {}
      \/ b = "iwd" /\ MainConf \in PathsOf(written) \cup removed
      => t = one
  BY <1>1 DEF PicksUp
<1> QED
  BY <1>2, <1>3, <1>4, <1>5, <1>6

LEMMA SmallInts == 1 \in Int /\ 2 \in Int /\ 3 \in Int /\ 1 <= 1 /\ 1 <= 2 /\ 2 <= 2 /\ 2 <= 3 /\ 3 <= 3
OBVIOUS

LEMMA StepIs ==
    ASSUME NEW b \in Backends, NEW w \in SUBSET AllFiles, NEW written \in SUBSET w, NEW removed \in SUBSET Known,
           IsFiniteSet(written), IsFiniteSet(removed), removed \cap PathsOf(w) = {}, NEW t, t = StepOf(b, written, removed)
    PROVE  IsStep(t, b, w, written, removed)
<1>1. PICK m : m = PathsOf(written) \cup removed
  OBVIOUS
<1>2. PathsOf(written) \subseteq m /\ removed \subseteq m \ PathsOf(w)
  BY <1>1
<1>3. PICK ps : ps = Puts(written, removed)
  OBVIOUS
<1>4. RunOf(ps, 2, 2, b, w, m) /\ (\A f \in written : Calls(ps, "write", f.path)) /\ (\A p \in removed : Calls(ps, "remove", p))
  BY <1>2, <1>3, PutsAre
<1>5. CASE b = "hostapd"
  <2>1. PICK ds : ds = TakesDown(removed)
    OBVIOUS
  <2>2. RunOf(ds, 1, 1, b, w, m) /\ \A p \in removed : Calls(ds, "stop", p)
    BY <1>2, <1>5, <2>1, TakesDownIs
  <2>3. PICK us : us = BringsUp(written)
    OBVIOUS
  <2>4. RunOf(us, 3, 3, b, w, m) /\ \A f \in written : Calls(us, "start", f.path)
    BY <1>2, <1>5, <2>3, BringsUpIs
  <2>5. PICK dp : dp = ds \o ps
    OBVIOUS
  <2>6. PICK s : s = dp \o us
    OBVIOUS
  <2>7. t = s \o Saves(b)
    BY <1>3, <1>5, <2>1, <2>3, <2>5, <2>6 DEF StepOf
  <2>8. RunOf(dp, 1, 2, b, w, m)
    BY <1>4, <2>2, <2>5, SmallInts, RunsJoin, Zenon
  <2>9. RunOf(s, 1, 3, b, w, m)
    BY <2>4, <2>6, <2>8, SmallInts, RunsJoin, Zenon
  <2>10. ds \in Seq(CallRecs) /\ ps \in Seq(CallRecs) /\ us \in Seq(CallRecs) /\ dp \in Seq(CallRecs)
    BY <1>4, <2>2, <2>4, <2>8 DEF RunOf
  <2>11. \A op, p : Calls(ds, op, p) \/ Calls(ps, op, p) \/ Calls(us, op, p) => Calls(s, op, p)
    BY <2>5, <2>6, <2>10, CallsJoin
  <2>12. /\ IsPlan(t, b, w, m) /\ Led(t, "close", "stop") /\ Led(t, "start", "open")
         /\ \A op, p : Calls(s, op, p) => Calls(t, op, p)
    BY <2>7, <2>9, RecordsAfter
  <2> QED
    BY <1>1, <1>4, <1>5, <2>2, <2>4, <2>11, <2>12 DEF IsStep
<1>6. CASE b # "hostapd"
  <2>1. PICK us : us = PicksUp(b, written, removed)
    OBVIOUS
  <2>2. /\ RunOf(us, 3, 3, b, w, m)
        /\ \/ b \in {"networkd", "resolved"}
           \/ b = "regdom" /\ written # {}
           \/ b = "iwd" /\ MainConf \in PathsOf(written) \cup removed
           => Calls(us, "pick up", <<b>>)
    BY <1>6, <2>1, PicksUpIs
  <2>3. PICK s : s = ps \o us
    OBVIOUS
  <2>4. t = s \o Saves(b)
    BY <1>3, <1>6, <2>1, <2>3 DEF StepOf
  <2>5. RunOf(s, 2, 3, b, w, m)
    BY <1>4, <2>2, <2>3, SmallInts, RunsJoin, Zenon
  <2>6. RunOf(s, 1, 3, b, w, m)
    <3>1. 2..3 \subseteq 1..3
      OBVIOUS
    <3> QED
      BY <2>5, <3>1 DEF RunOf
  <2>7. ps \in Seq(CallRecs) /\ us \in Seq(CallRecs)
    BY <1>4, <2>2 DEF RunOf
  <2>8. \A op, p : Calls(ps, op, p) \/ Calls(us, op, p) => Calls(s, op, p)
    BY <2>3, <2>7, CallsJoin
  <2>9. /\ IsPlan(t, b, w, m) /\ Led(t, "close", "stop") /\ Led(t, "start", "open")
        /\ \A op, p : Calls(s, op, p) => Calls(t, op, p)
    BY <2>4, <2>6, RecordsAfter
  <2> QED
    BY <1>1, <1>4, <1>6, <2>2, <2>8, <2>9 DEF IsStep
<1> QED
  BY <1>5, <1>6

-----------------------------------------------------------------------------
\* What is applied.

LEMMA ImageIsFinite ==
    ASSUME NEW S, IsFiniteSet(S), NEW f PROVE IsFiniteSet({f[x] : x \in S})
<1>1. PICK T : T = {f[x] : x \in S}
  OBVIOUS
<1>2. PICK g : g = [x \in S |-> f[x]]
  OBVIOUS
<1>3. g \in [S -> T] /\ \A t \in T : \E x \in S : g[x] = t
  BY <1>1, <1>2
<1>4. g \in Surjection(S, T)
  BY <1>3 DEF Surjection
<1> QED
  BY <1>1, <1>4, FS_Surjection

LEMMA PairIsFinite == ASSUME NEW e, NEW f PROVE IsFiniteSet({e, f})
<1>1. IsFiniteSet({e} \cup {f})
  BY FS_Singleton, FS_AddElement
<1>2. {e, f} = {e} \cup {f}
  OBVIOUS
<1> QED
  BY <1>1, <1>2

LEMMA RenderIsFinite ==
    ASSUME NEW doc, NEW sel, IsFiniteSet(Indexed(doc.attachments)), IsFiniteSet(DOMAIN sel.links)
    PROVE  IsFiniteSet(Render(doc, sel))
<1> DEFINE Att == {doc.attachments[i] : i \in Indexed(doc.attachments)}
           On == {b \in Att : b.kind = "wireless" /\ b.enabled}
           Net == [a \in On |-> File(KnownPath(a), [security |-> a.security, hidden |-> a.hidden])]
           Link == [x \in DOMAIN sel.links |-> CandidateFiles(doc.attachments[sel.links[x]], sel.links[x], x)]
           Links == UNION {CandidateFiles(doc.attachments[sel.links[x]], sel.links[x], x) : x \in DOMAIN sel.links}
           Hosted == IF ~HasHotspot(doc) \/ sel.hotspot = None THEN {}
                     ELSE {HotspotNetwork(doc.hotspot, Radio(sel.hotspot).ap),
                           Conf(doc.hotspot, Radio(sel.hotspot), sel.channels[sel.hotspot])}
           WiredIx == {k \in Indexed(doc.attachments) : doc.attachments[k].kind # "wireless"}
           IfOf == [i \in WiredIx |-> doc.attachments[i].interface]
           Ifs == {doc.attachments[i].interface : i \in WiredIx}
           IdleOf == [x \in Ifs \ DOMAIN sel.links |-> Idle(x)]
           Idles == {Idle(x) : x \in Ifs \ DOMAIN sel.links}
           Own == IF Radios = <<>> THEN {}
                  ELSE {File(<<"iwd", "main", "conf">>, [domain |-> doc.domain]),
                        File(<<"regdom", "bliti", "conf">>, [domain |-> doc.domain])}
<1>1. IsFiniteSet(Networks(doc))
  <2>1. IsFiniteSet(Att)
    BY ImageIsFinite DEF Indexed
  <2>2. IsFiniteSet(On)
    BY <2>1, FS_Subset
  <2>3. Networks(doc) = {Net[a] : a \in On}
    BY DEF Networks
  <2> HIDE DEF On, Net
  <2> QED
    BY <2>2, <2>3, ImageIsFinite
<1>2. IsFiniteSet(Links)
  <2>1. PICK ls : ls = {Link[x] : x \in DOMAIN sel.links}
    OBVIOUS
  <2>2. IsFiniteSet(ls)
    <3> HIDE DEF Link
    <3> QED
      BY <2>1, ImageIsFinite
  <2>3. \A l \in ls : IsFiniteSet(l)
    <3>1. ASSUME NEW a, NEW rank, NEW x PROVE IsFiniteSet(CandidateFiles(a, rank, x))
      <4>1. \A e, f : IsFiniteSet({e} \cup {f})
        BY FS_Singleton, FS_AddElement
      <4>2. \A e : IsFiniteSet({e} \cup {})
        BY FS_Singleton, FS_EmptySet, FS_AddElement
      <4> QED
        BY <4>1, <4>2 DEF CandidateFiles
    <3> QED
      BY <2>1, <3>1
  <2>4. Links = UNION ls
    BY <2>1
  <2> HIDE DEF Links
  <2> QED
    BY <2>2, <2>3, <2>4, FS_UNION
<1>3. IsFiniteSet(Hosted)
  BY PairIsFinite, FS_EmptySet
<1>4. IsFiniteSet(Idles)
  <2>1. IsFiniteSet(WiredIx)
    BY FS_Subset
  <2>2. Ifs = {IfOf[i] : i \in WiredIx}
    OBVIOUS
  <2>3. IsFiniteSet(Ifs)
    <3> HIDE DEF IfOf, WiredIx, Ifs
    <3> QED
      BY <2>1, <2>2, ImageIsFinite
  <2>4. PICK D : D = Ifs \ DOMAIN sel.links
    OBVIOUS
  <2>5. IsFiniteSet(D)
    <3> HIDE DEF Ifs
    <3>1. D \in SUBSET Ifs
      BY <2>4
    <3> QED
      BY <2>3, <3>1, FS_Subset
  <2>6. Idles = {IdleOf[x] : x \in D}
    BY <2>4
  <2> HIDE DEF IdleOf, Idles, Ifs
  <2> QED
    BY <2>5, <2>6, ImageIsFinite
<1>5. IsFiniteSet(Own)
  BY PairIsFinite, FS_EmptySet
<1>6. Render(doc, sel) = Networks(doc) \cup Links \cup Hosted \cup Idles \cup Own
  BY DEF Render
<1> HIDE DEF Links, Hosted, Idles, Own
<1>7. IsFiniteSet(Networks(doc) \cup Links) /\ IsFiniteSet(Hosted \cup Idles)
  BY <1>1, <1>2, <1>3, <1>4, FS_Union
<1>8. IsFiniteSet((Networks(doc) \cup Links) \cup (Hosted \cup Idles))
  BY <1>7, FS_Union
<1>9. IsFiniteSet(((Networks(doc) \cup Links) \cup (Hosted \cup Idles)) \cup Own)
  BY <1>5, <1>8, FS_Union
<1>10. Render(doc, sel) = ((Networks(doc) \cup Links) \cup (Hosted \cup Idles)) \cup Own
  BY <1>6
<1> QED
  BY <1>9, <1>10

\* Each file of a rendering is of a backend; of hostapd there is one, and
\* the regulatory domain's is in every rendering or in none.
PathIs(p) ==
    /\ p[1] \in Backends
    /\ p[1] = "hostapd" => p = <<"hostapd", p[2], "conf">>
    /\ p[1] = "regdom" => \A w \in Wanteds : p \in PathsOf(w)

LEMMA BackendsAre == Backends = {"regdom", "hostapd", "iwd", "networkd", "resolved"}
BY DEF Backends, Order

LEMMA WantedsAre ==
    ASSUME NEW w \in Wanteds
    PROVE  /\ IsFiniteSet(w) /\ OnePerPath(w) /\ w \subseteq AllFiles /\ PathsOf(w) \subseteq Known
           /\ \A f \in w : PathIs(f.path)
           /\ \A f, g \in w : f.path[1] = "hostapd" /\ g.path[1] = "hostapd" => f = g
<1>1. PICK r \in Renderings : w = Render(r.doc, r.sel)
  BY DEF Wanteds
<1> DEFINE doc == r.doc  sel == r.sel
<1>2. /\ ~DocumentFault(doc) /\ Fits(doc, sel) /\ Indexed(doc.attachments) \subseteq Nat \ {0}
      /\ IsFiniteSet(Indexed(doc.attachments)) /\ IsFiniteSet(DOMAIN sel.links)
  BY RenderingsAssumption
<1>3. IsFiniteSet(w)
  BY <1>1, <1>2, RenderIsFinite
<1>4. OnePerPath(w)
  BY <1>1, <1>2, EachFileOnce DEF OnePerPath
<1>5. w \subseteq AllFiles /\ PathsOf(w) \subseteq Known
  BY DEF AllFiles, Known, PathsOf
<1>6. \A f \in w : Kinds(doc, sel, f)
  BY <1>1, <1>2, RenderedKinds
<1>7. ASSUME NEW f, Kinds(doc, sel, f)
      PROVE  /\ f.path[1] \in {"regdom", "hostapd", "iwd", "networkd", "resolved"}
             /\ f.path[1] = "hostapd" => /\ f.path = <<"hostapd", f.path[2], "conf">>
                                         /\ f = Conf(doc.hotspot, Radio(sel.hotspot), sel.channels[sel.hotspot])
             /\ f.path[1] = "regdom" => f.path = <<"regdom", "bliti", "conf">>
  <2> DEFINE Fit(h) ==
             /\ h.path[1] \in {"regdom", "hostapd", "iwd", "networkd", "resolved"}
             /\ h.path[1] = "hostapd" => /\ h.path = <<"hostapd", h.path[2], "conf">>
                                         /\ h = Conf(doc.hotspot, Radio(sel.hotspot), sel.channels[sel.hotspot])
             /\ h.path[1] = "regdom" => h.path = <<"regdom", "bliti", "conf">>
  <2>1. \A h : h.path[1] \in {"iwd", "networkd", "resolved"} => Fit(h)
    OBVIOUS
  <2>2. \A x, body : /\ File(NetworkPath(x), body).path[1] = "networkd"
                     /\ File(DelegatePath(x), body).path[1] = "resolved"
    BY DEF File, NetworkPath, DelegatePath
  <2>3. \A h, ap : HotspotNetwork(h, ap).path[1] = "networkd" /\ Idle(ap).path[1] = "networkd"
    BY DEF HotspotNetwork, Idle, File, NetworkPath
  <2>4. File(<<"iwd", "main", "conf">>, [domain |-> doc.domain]).path[1] = "iwd"
    BY DEF File
  <2>5. Fit(File(<<"regdom", "bliti", "conf">>, [domain |-> doc.domain]))
    BY DEF File
  <2>6. Fit(Conf(doc.hotspot, Radio(sel.hotspot), sel.channels[sel.hotspot]))
    <3>1. PICK h : h = Conf(doc.hotspot, Radio(sel.hotspot), sel.channels[sel.hotspot])
      OBVIOUS
    <3>2. h.path = <<"hostapd", Radio(sel.hotspot).ap, "conf">>
      BY <3>1 DEF Conf, File
    <3>3. h.path[1] = "hostapd" /\ h.path[2] = Radio(sel.hotspot).ap
      BY <3>2
    <3> QED
      BY <3>1, <3>2, <3>3
  <2> HIDE DEF Fit
  <2>7. Fit(f)
    <3>1. CASE f.path[1] = "iwd"
      BY <2>1, <3>1
    <3>2. CASE \E x, body : f = File(NetworkPath(x), body) \/ f = File(DelegatePath(x), body)
      BY <2>1, <2>2, <3>2
    <3>3. CASE \E h, ap : f = HotspotNetwork(h, ap) \/ f = Idle(ap)
      BY <2>1, <2>3, <3>3
    <3>4. CASE f = Conf(doc.hotspot, Radio(sel.hotspot), sel.channels[sel.hotspot])
      BY <2>6, <3>4
    <3>5. CASE f = File(<<"iwd", "main", "conf">>, [domain |-> doc.domain])
      BY <2>1, <2>4, <3>5
    <3>6. CASE f = File(<<"regdom", "bliti", "conf">>, [domain |-> doc.domain])
      BY <2>5, <3>6
    <3> QED
      BY <1>7, <3>1, <3>2, <3>3, <3>4, <3>5, <3>6 DEF Kinds
  <2> QED
    BY <2>7 DEF Fit
<1>8. Backends = {"regdom", "hostapd", "iwd", "networkd", "resolved"}
  BY BackendsAre
<1>9. ASSUME NEW f \in w, f.path[1] = "regdom", NEW v \in Wanteds PROVE f.path \in PathsOf(v)
  <2>1. f.path = <<"regdom", "bliti", "conf">>
    BY <1>6, <1>7, <1>9
  <2>2. Radios # <<>>
    <3> SUFFICES ASSUME Radios = <<>> PROVE FALSE
      OBVIOUS
    <3>1. f \in Render(doc, sel) /\ f.path[1] = "regdom"
      BY <1>1, <1>9
    <3>2. CASE f \in Networks(doc)
      BY <3>1, <3>2 DEF Networks, KnownPath, File
    <3>3. ASSUME NEW x \in DOMAIN sel.links, f \in CandidateFiles(doc.attachments[sel.links[x]], sel.links[x], x) PROVE FALSE
      BY <3>1, <3>3 DEF CandidateFiles, File, NetworkPath, DelegatePath
    <3>4. CASE f \in {HotspotNetwork(doc.hotspot, Radio(sel.hotspot).ap),
                      Conf(doc.hotspot, Radio(sel.hotspot), sel.channels[sel.hotspot])}
      BY <3>1, <3>4 DEF HotspotNetwork, Conf, File, NetworkPath
    <3>5. ASSUME NEW x, f = Idle(x) PROVE FALSE
      BY <3>1, <3>5 DEF Idle, File, NetworkPath
    <3> QED
      BY <3>1, <3>2, <3>3, <3>4, <3>5 DEF Render
  <2>3. PICK q \in Renderings : v = Render(q.doc, q.sel)
    BY DEF Wanteds
  <2>4. File(<<"regdom", "bliti", "conf">>, [domain |-> q.doc.domain]) \in v
    BY <2>2, <2>3 DEF Render
  <2> QED
    BY <2>1, <2>4 DEF PathsOf, File
<1> HIDE DEF doc, sel
<1> QED
  BY <1>3, <1>4, <1>5, <1>6, <1>7, <1>8, <1>9 DEF PathIs

LEMMA KnownAre ==
    /\ \A p \in Known : PathIs(p)
    /\ \A f \in AllFiles : f.path \in Known
<1>1. ASSUME NEW f \in AllFiles PROVE f.path \in Known /\ PathIs(f.path)
  <2>1. PICK w \in Wanteds : f \in w
    BY DEF AllFiles
  <2> QED
    BY <2>1, WantedsAre DEF PathsOf
<1>2. ASSUME NEW p \in Known PROVE PathIs(p)
  <2>1. PICK f \in AllFiles : p = f.path
    BY DEF Known, PathsOf
  <2> QED
    BY <1>1, <2>1
<1> QED
  BY <1>1, <1>2

-----------------------------------------------------------------------------
\* The calls that are left, one by one.
LEMMA TailIs ==
    ASSUME NEW X, NEW t \in Seq(X), Len(t) > 0, NEW u, u = Tail(t)
    PROVE  /\ Len(t) \in Nat /\ Len(u) = Len(t) - 1 /\ u \in Seq(X) /\ Head(t) = t[1] /\ t[1] \in X
           /\ \A i \in 1..Len(u) : u[i] = t[i + 1] /\ i + 1 \in 1..Len(t)
           /\ \A i \in 1..Len(t) : i # 1 => i - 1 \in 1..Len(u) /\ t[i] = u[i - 1]
<1>1. /\ Len(t) \in Nat /\ Len(u) = Len(t) - 1 /\ u \in Seq(X) /\ Head(t) = t[1] /\ t[1] \in X
      /\ \A i \in 1..Len(u) : u[i] = t[i + 1] /\ i + 1 \in 1..Len(t)
  OBVIOUS
<1>2. ASSUME NEW i \in 1..Len(t), i # 1 PROVE i - 1 \in 1..Len(u) /\ t[i] = u[i - 1]
  <2>1. i - 1 \in 1..Len(u) /\ (i - 1) + 1 = i
    BY <1>1, <1>2
  <2>2. u[i - 1] = t[(i - 1) + 1]
    BY <1>1, <2>1
  <2> QED
    BY <2>1, <2>2
<1> QED
  BY <1>1, <1>2

LEMMA EmptyIs == ASSUME NEW X, NEW u \in Seq(X) PROVE Len(u) = 0 <=> u = <<>>
BY EmptySeq

LEMMA PhasesInt == ASSUME NEW c \in CallRecs PROVE Phase(c.op) \in 1..4
<1>1. c.op \in Downs \cup PutOps \cup Ups \cup {"pick up", "record"}
  BY DEF CallRecs
<1>2. \A k \in {1, 2, 3, 4} : k \in 1..4
  OBVIOUS
<1>3. Phase(c.op) \in {1, 2, 3, 4}
  BY <1>1 DEF Phase
<1> QED
  BY <1>2, <1>3

GoesPast(t, c, u) ==
    /\ \A op, p : Calls(t, op, p) <=> (c.op = op /\ c.path = p) \/ Calls(u, op, p)
    /\ \A op, p : Calls(t, op, p) => Phase(c.op) <= Phase(op)
    /\ \A j \in 1..Len(u) : \A op, p :
          CallsBefore(t, j + 1, op, p) => (c.op = op /\ c.path = p) \/ CallsBefore(u, j, op, p)
    /\ \A j \in 1..Len(u) : /\ u[j] = t[j + 1] /\ j + 1 \in 1..Len(t)
                             /\ Calls(t, u[j].op, u[j].path)
FirstOf(t, c) == t[1] = c /\ 1 \in 1..Len(t) /\ \A op, p : ~ CallsBefore(t, 1, op, p)

LEMMA PlanGoesOn ==
    ASSUME NEW b, NEW w, NEW m, NEW t, IsPlan(t, b, w, m), NEW c, c = Head(t), NEW u, u = Tail(t)
    PROVE  /\ c \in CallRecs /\ IsCall(c, b, w, m) /\ (c.op = "record" <=> u = <<>>)
           /\ c.op # "record" => IsPlan(u, b, w, m)
           /\ GoesPast(t, c, u) /\ FirstOf(t, c)
<1>1. t \in Seq(CallRecs) /\ Len(t) > 0
  BY DEF IsPlan, RecordsLast
<1>2. /\ Len(t) \in Nat /\ Len(u) = Len(t) - 1 /\ u \in Seq(CallRecs) /\ c = t[1] /\ c \in CallRecs
      /\ \A i \in 1..Len(u) : u[i] = t[i + 1] /\ i + 1 \in 1..Len(t)
      /\ \A i \in 1..Len(t) : i # 1 => i - 1 \in 1..Len(u) /\ t[i] = u[i - 1]
  BY <1>1, TailIs
<1>3. 1 \in 1..Len(t) /\ Len(u) \in Nat
  BY <1>1, <1>2
<1>4. IsCall(c, b, w, m) /\ (c.op = "record" <=> 1 = Len(t))
  BY <1>2, <1>3 DEF IsPlan, RecordsLast
<1>5. c.op = "record" <=> u = <<>>
  <2>1. 1 = Len(t) <=> Len(u) = 0
    BY <1>2, <1>3
  <2>2. Len(u) = 0 <=> u = <<>>
    BY <1>2, EmptyIs
  <2> QED
    BY <1>4, <2>1, <2>2
<1>6. ASSUME c.op # "record" PROVE IsPlan(u, b, w, m)
  <2>1. Len(u) > 0
    BY <1>2, <1>3, <1>4, <1>6
  <2>2. \A i \in 1..Len(u) : IsCall(u[i], b, w, m)
    BY <1>2 DEF IsPlan
  <2>3. ASSUME NEW i \in 1..Len(u), NEW j \in 1..Len(u), i < j PROVE Phase(u[i].op) <= Phase(u[j].op)
    <3>1. i + 1 \in 1..Len(t) /\ j + 1 \in 1..Len(t) /\ i + 1 < j + 1
      BY <1>2, <2>3
    <3>2. Phase(t[i + 1].op) <= Phase(t[j + 1].op)
      BY <3>1 DEF IsPlan, InTurn
    <3> QED
      BY <1>2, <3>2
  <2>4. ASSUME NEW i \in 1..Len(u) PROVE u[i].op = "record" <=> i = Len(u)
    <3>1. i + 1 \in 1..Len(t) /\ u[i] = t[i + 1]
      BY <1>2
    <3>2. t[i + 1].op = "record" <=> i + 1 = Len(t)
      BY <3>1 DEF IsPlan, RecordsLast
    <3> QED
      BY <1>2, <3>1, <3>2
  <2> QED
    BY <1>2, <2>1, <2>2, <2>3, <2>4 DEF IsPlan, InTurn, RecordsLast
<1>7. ASSUME NEW op, NEW p PROVE Calls(t, op, p) <=> (c.op = op /\ c.path = p) \/ Calls(u, op, p)
  <2>1. ASSUME Calls(t, op, p) PROVE (c.op = op /\ c.path = p) \/ Calls(u, op, p)
    <3>1. PICK i \in 1..Len(t) : t[i].op = op /\ t[i].path = p
      BY <2>1 DEF Calls
    <3> QED
      BY <1>2, <3>1 DEF Calls
  <2>2. Calls(u, op, p) => Calls(t, op, p)
    BY <1>2 DEF Calls
  <2>3. c.op = op /\ c.path = p => Calls(t, op, p)
    BY <1>2, <1>3 DEF Calls
  <2> QED
    BY <2>1, <2>2, <2>3
<1>8. ASSUME NEW op, NEW p, Calls(t, op, p) PROVE Phase(c.op) <= Phase(op)
  <2>1. PICK i \in 1..Len(t) : t[i].op = op /\ t[i].path = p
    BY <1>8 DEF Calls
  <2>2. CASE i = 1
    <3>1. Phase(c.op) \in 1..4
      BY <1>2, PhasesInt
    <3>2. c.op = op
      BY <1>2, <2>1, <2>2
    <3> QED
      BY <3>1, <3>2
  <2>3. CASE i # 1
    <3>1. 1 < i
      BY <2>3
    <3>2. Phase(t[1].op) <= Phase(t[i].op)
      BY <1>3, <3>1 DEF IsPlan, InTurn
    <3> QED
      BY <1>2, <2>1, <3>2
  <2> QED
    BY <2>2, <2>3
<1>9. ASSUME NEW j \in 1..Len(u), NEW op, NEW p, CallsBefore(t, j + 1, op, p)
      PROVE  (c.op = op /\ c.path = p) \/ CallsBefore(u, j, op, p)
  <2>1. PICK i \in 1..(j + 1 - 1) : t[i].op = op /\ t[i].path = p
    BY <1>9 DEF CallsBefore
  <2>2. i \in 1..Len(t) /\ j \in Nat
    BY <1>2, <2>1
  <2>3. CASE i = 1
    BY <1>2, <2>1, <2>3
  <2>4. CASE i # 1
    <3>1. i - 1 \in 1..(j - 1) /\ u[i - 1] = t[i]
      BY <1>2, <2>1, <2>2, <2>4
    <3> QED
      BY <2>1, <3>1 DEF CallsBefore
  <2> QED
    BY <2>3, <2>4
<1>10. ASSUME NEW j \in 1..Len(u)
       PROVE  /\ u[j] = t[j + 1] /\ j + 1 \in 1..Len(t) /\ u[j] \in CallRecs /\ IsCall(u[j], b, w, m)
              /\ Calls(t, u[j].op, u[j].path)
  <2>1. u[j] = t[j + 1] /\ j + 1 \in 1..Len(t) /\ u[j] \in CallRecs
    BY <1>2
  <2> QED
    BY <2>1 DEF IsPlan, Calls
<1>11. \A op, p : ~ CallsBefore(t, 1, op, p)
  BY DEF CallsBefore
<1>12. GoesPast(t, c, u)
  BY <1>7, <1>8, <1>9, <1>10 DEF GoesPast
<1>13. FirstOf(t, c)
  BY <1>2, <1>3, <1>11 DEF FirstOf
<1> QED
  BY <1>2, <1>4, <1>5, <1>6, <1>12, <1>13

LEMMA PlanHead ==
    ASSUME NEW b, NEW w, NEW m, NEW t, IsPlan(t, b, w, m), NEW c, c = Head(t)
    PROVE  c \in CallRecs /\ IsCall(c, b, w, m) /\ \A op, p : Calls(t, op, p) => Phase(c.op) <= Phase(op)
<1>1. PICK u : u = Tail(t)
  OBVIOUS
<1>2. c \in CallRecs
  BY <1>1, PlanGoesOn
<1>3. IsCall(c, b, w, m)
  BY <1>1, PlanGoesOn
<1>4. \A op, p : Calls(t, op, p) => Phase(c.op) <= Phase(op)
  <2>1. GoesPast(t, c, u)
    BY <1>1, PlanGoesOn
  <2> QED
    BY <2>1 DEF GoesPast
<1> QED
  BY <1>2, <1>3, <1>4

-----------------------------------------------------------------------------
\* Which call it is says what it is of.
IsOf(c, b, w, m) ==
    /\ c.op = "remove" => c.path \in m \ PathsOf(w) /\ c.body = {}
    /\ c.op = "write" => c.path \in m \cap PathsOf(w) /\ c.body = At(c.path, w)
    /\ c.op \in Downs => b = "hostapd" /\ c.path \in m \ PathsOf(w)
    /\ c.op \in Ups => b = "hostapd" /\ c.path \in m \cap PathsOf(w)
    /\ c.op \in {"pick up", "record"} => c.path = <<b>> /\ (c.op = "pick up" => b # "hostapd")
    /\ c.op \in Downs \cup PutOps \cup Ups \cup {"pick up", "record"}

LEMMA CallIs ==
    ASSUME NEW b, NEW w, OnePerPath(w), NEW m, NEW c, IsCall(c, b, w, m)
    PROVE  IsOf(c, b, w, m)
<1>1. ASSUME NEW f \in w PROVE At(f.path, w) = {f} /\ f.path \in PathsOf(w)
  BY DEF At, PathsOf, OnePerPath
<1>2. PICK op, p, body : c = Call(op, p, body)
  BY DEF IsCall
<1>3. c.op = op /\ c.path = p /\ c.body = body
  BY <1>2 DEF Call
<1>4. \/ \E f \in w : f.path \in m /\ op = "write" /\ p = f.path /\ body = {f}
      \/ p \in m \ PathsOf(w) /\ op = "remove" /\ body = {}
      \/ b = "hostapd" /\ op \in Downs /\ p \in m \ PathsOf(w)
      \/ b = "hostapd" /\ op \in Ups /\ p \in m \cap PathsOf(w)
      \/ b # "hostapd" /\ op = "pick up" /\ p = <<b>>
      \/ op = "record" /\ p = <<b>>
  <2>1. \A o, q, z : c = Call(o, q, z) => op = o /\ p = q /\ body = z
    BY <1>3 DEF Call
  <2> QED
    BY <1>3, <2>1 DEF IsCall
<1>5. /\ {"write", "remove", "pick up", "record"} \cap (Downs \cup Ups) = {} /\ PutOps = {"write", "remove"}
      /\ Downs \cap Ups = {} /\ "pick up" # "record" /\ "write" # "remove" /\ "pick up" \notin PutOps /\ "record" \notin PutOps
  BY DEF PutOps, Downs, Ups
<1> QED
  BY <1>1, <1>3, <1>4, <1>5 DEF IsOf

LEMMA HeadIs ==
    ASSUME ApplyInv, todo # <<>>, NEW c, c = Head(todo)
    PROVE  /\ at \in 1..5 /\ Order[at] \in Backends /\ wanted \in Wanteds /\ result = "none"
           /\ IsPlan(todo, Order[at], wanted, moving) /\ c \in CallRecs /\ IsCall(c, Order[at], wanted, moving)
           /\ moving \subseteq Known /\ moving \subseteq unsure /\ \A p \in moving : p[1] = Order[at]
           /\ \A op, p : Calls(todo, op, p) => Phase(c.op) <= Phase(op)
           /\ wanted \subseteq AllFiles /\ OnePerPath(wanted) /\ IsOf(c, Order[at], wanted, moving)
<1>1. at # 0 /\ IsPlan(todo, Order[at], wanted, moving) /\ moving \subseteq unsure
  BY DEF ApplyInv, GoesOn
<1>2. at \in 1..5 /\ wanted \in Wanteds /\ result = "none" /\ moving \subseteq Known /\ \A p \in moving : p[1] = Order[at]
  BY <1>1 DEF ApplyInv, Resting, ApplyType
<1>3. Order[at] \in Backends
  BY <1>2 DEF Backends, Order
<1>4. /\ c \in CallRecs /\ IsCall(c, Order[at], wanted, moving)
      /\ \A op, p : Calls(todo, op, p) => Phase(c.op) <= Phase(op)
  <2>1. PICK b, w, m : b = Order[at] /\ w = wanted /\ m = moving
    OBVIOUS
  <2>2. PICK t, u : t = todo /\ u = Tail(t)
    OBVIOUS
  <2>3. IsPlan(t, b, w, m) /\ c = Head(t)
    BY <1>1, <2>1, <2>2
  <2>4. c \in CallRecs /\ IsCall(c, b, w, m) /\ \A op, p : Calls(t, op, p) => Phase(c.op) <= Phase(op)
    BY <2>3, PlanHead, Zenon
  <2> QED
    BY <2>1, <2>2, <2>4
<1>5. wanted \subseteq AllFiles /\ OnePerPath(wanted)
  BY <1>2, WantedsAre
<1>6. IsOf(c, Order[at], wanted, moving)
  BY <1>4, <1>5, CallIs
<1> QED
  BY <1>1, <1>2, <1>3, <1>4, <1>5, <1>6

LEMMA FirstIs == \A b : <<b>>[1] = b
OBVIOUS

LEMMA PutTakes ==
    ASSUME ApplyInv, todo # <<>>, NEW c, c = Head(todo), c.op \in PutOps, Effect(c)
    PROVE  /\ c.path \in moving /\ files' = Without(c.path, files) \cup At(c.path, wanted)
           /\ live' \in [Backends -> SUBSET AllFiles] /\ IwdReads'
           /\ \A b \in Backends \ {"iwd"} : live'[b] = live[b]
           /\ At(MainConf, live'["iwd"]) = At(MainConf, live["iwd"])
           /\ record' = record /\ unsure' = unsure /\ unread' = unread /\ beacons' = beacons /\ opened' = opened /\ aps' = aps
<1>1. /\ IsOf(c, Order[at], wanted, moving) /\ OnePerPath(wanted) /\ wanted \subseteq AllFiles
      /\ \A p \in moving : p[1] = Order[at]
  BY HeadIs
<1>2. /\ c.path \in moving /\ (c.op = "write" => c.body = At(c.path, wanted))
      /\ c.op = "remove" => c.path \notin PathsOf(wanted)
  BY <1>1 DEF IsOf, PutOps
<1>3. files' = Without(c.path, files) \cup At(c.path, wanted)
  <2>1. CASE c.op = "write"
    BY <1>2, <2>1 DEF Effect
  <2>2. CASE c.op = "remove"
    <3>1. At(c.path, wanted) = {}
      BY <1>2, <2>2 DEF At, PathsOf
    <3> QED
      BY <2>2, <3>1 DEF Effect
  <2> QED
    BY <2>1, <2>2 DEF PutOps
<1>4. /\ files' \subseteq AllFiles /\ files \subseteq AllFiles /\ live \in [Backends -> SUBSET AllFiles]
      /\ "iwd" \in Backends
  BY <1>1, <1>3 DEF ApplyInv, ApplyType, Without, At, Backends, Order
<1>5. record' = record /\ unsure' = unsure /\ unread' = unread /\ beacons' = beacons /\ opened' = opened /\ aps' = aps
  BY DEF Effect, PutOps
<1>6. CASE c.path[1] = "iwd" /\ c.path # MainConf
  <2> DEFINE now == {f \in files' : f.path[1] = "iwd" /\ f.path # MainConf} \cup {f \in live["iwd"] : f.path = MainConf}
  <2>1. live' = [live EXCEPT !["iwd"] = now]
    BY <1>4, <1>6 DEF Effect, PutOps
  <2>2. now \subseteq AllFiles
    BY <1>4
  <2>3. At(MainConf, now) = At(MainConf, live["iwd"])
    BY DEF At
  <2>4. {f \in now : ByItself(f.path)} = {f \in files' : ByItself(f.path)}
    BY DEF ByItself
  <2> HIDE DEF now
  <2>5. live' \in [Backends -> SUBSET AllFiles] /\ live'["iwd"] = now /\ \A b \in Backends \ {"iwd"} : live'[b] = live[b]
    BY <1>4, <2>1, <2>2
  <2> QED
    BY <1>2, <1>3, <1>5, <2>3, <2>4, <2>5 DEF IwdReads
<1>7. CASE ~(c.path[1] = "iwd" /\ c.path # MainConf)
  <2>1. live' = live
    BY <1>7 DEF Effect, PutOps
  <2>2. {f \in files' : ByItself(f.path)} = {f \in files : ByItself(f.path)}
    BY <1>3, <1>7 DEF Without, At, ByItself
  <2> QED
    BY <1>2, <1>3, <1>4, <1>5, <2>1, <2>2 DEF IwdReads, ApplyInv
<1> QED
  BY <1>6, <1>7

LEMMA PickUpTakes ==
    ASSUME ApplyInv, todo # <<>>, NEW c, c = Head(todo), c.op = "pick up", Effect(c), NEW b, b = Order[at]
    PROVE  /\ b \in Backends \ {"hostapd"} /\ files' = files
           /\ live' \in [Backends -> SUBSET AllFiles] /\ IwdReads'
           /\ live'[b] = Of(b, files) /\ \A a \in Backends \ {b} : live'[a] = live[a]
           /\ record' = record /\ unsure' = unsure /\ unread' = unread /\ beacons' = beacons /\ opened' = opened /\ aps' = aps
<1>1. b \in Backends \ {"hostapd"} /\ c.path = <<b>>
  <2>1. b \in Backends /\ IsOf(c, b, wanted, moving)
    BY HeadIs
  <2> QED
    BY <2>1 DEF IsOf
<1>2. c.path[1] = b
  BY <1>1, FirstIs, Zenon
<1>3. live' = [live EXCEPT ![b] = Of(b, files)]
  BY <1>2 DEF Effect
<1>4. /\ files' = files /\ record' = record /\ unsure' = unsure /\ unread' = unread /\ beacons' = beacons /\ opened' = opened /\ aps' = aps
  BY DEF Effect
<1>5. files \subseteq AllFiles /\ live \in [Backends -> SUBSET AllFiles]
  BY DEF ApplyInv, ApplyType
<1>6. Of(b, files) \subseteq AllFiles
  BY <1>5 DEF Of
<1>7. /\ live' \in [Backends -> SUBSET AllFiles] /\ live'[b] = Of(b, files)
      /\ \A a \in Backends \ {b} : live'[a] = live[a]
  BY <1>1, <1>3, <1>5, <1>6
<1>8. IwdReads'
  <2>1. CASE b = "iwd"
    BY <1>4, <1>7, <2>1 DEF IwdReads, Of, ByItself
  <2>2. CASE b # "iwd"
    <3>1. "iwd" \in Backends
      BY BackendsAre
    <3>2. live'["iwd"] = live["iwd"]
      BY <1>7, <2>2, <3>1
    <3> QED
      BY <1>4, <3>2 DEF ApplyInv, IwdReads
  <2> QED
    BY <2>1, <2>2
<1> QED
  BY <1>1, <1>4, <1>7, <1>8

LEMMA HostTakes ==
    ASSUME ApplyInv, todo # <<>>, NEW c, c = Head(todo), c.op \in Downs \cup Ups, Effect(c)
    PROVE  /\ files' = files /\ live' = live /\ record' = record /\ unsure' = unsure /\ IwdReads'
           /\ beacons' = CASE c.op = "start" /\ ReadsAnew(c.path) -> Without(c.path, beacons) \cup At(c.path, files)
                           [] c.op \in {"stop", "delete"} -> Without(c.path, beacons)
                           [] OTHER -> beacons
           /\ unread \subseteq unread'
           /\ c.op = "start" /\ At(c.path, beacons') # At(c.path, files) => c.path \in unread'
           /\ opened' = CASE c.op = "open" -> opened \cup {c.path[2]}
                          [] c.op = "close" -> opened \ {c.path[2]}
                          [] OTHER -> opened
           /\ aps' = CASE c.op = "create" -> aps \cup {c.path[2]}
                       [] c.op = "delete" -> aps \ {c.path[2]}
                       [] OTHER -> aps
<1>1. files' = files /\ live' = live /\ record' = record /\ unsure' = unsure
  BY DEF Effect, Downs, Ups
<1>2. IwdReads'
  BY <1>1 DEF IwdReads, ApplyInv
<1>3. unread' = IF c.op = "start" /\ At(c.path, beacons') # At(c.path, files) THEN unread \cup {c.path} ELSE unread
  BY DEF Effect
<1> QED
  BY <1>1, <1>2, <1>3 DEF Effect

-----------------------------------------------------------------------------
\* What the calls after one still need.
LEMMA StoppedOn ==
    ASSUME NEW b, NEW w, NEW m, NEW t, IsPlan(t, b, w, m), NEW c, c = Head(t), NEW u, u = Tail(t),
           NEW on, NEW on2, Stopped(t, on), PathsOf(on2) \subseteq PathsOf(on) \/ Phase(c.op) = 3,
           c.op = "stop" => c.path \notin PathsOf(on2)
    PROVE  Stopped(u, on2)
<1>0. GoesPast(t, c, u)
  BY PlanGoesOn, Zenon
<1>1. ASSUME NEW j \in 1..Len(u), u[j].op = "close"
      PROVE  u[j].path \notin PathsOf(on2) \/ CallsBefore(u, j, "stop", u[j].path)
  <2>1. u[j] = t[j + 1] /\ j + 1 \in 1..Len(t) /\ Calls(t, "close", u[j].path)
    BY <1>0, <1>1 DEF GoesPast
  <2>2. Phase(c.op) <= Phase("close") /\ Phase("close") = 1
    <3>1. Phase(c.op) <= Phase("close")
      BY <2>1, PlanHead
    <3> QED
      BY <3>1, PhasesAre DEF Downs
  <2>3. PathsOf(on2) \subseteq PathsOf(on)
    BY <2>2
  <2>4. u[j].path \notin PathsOf(on) \/ CallsBefore(t, j + 1, "stop", u[j].path)
    BY <1>1, <2>1 DEF Stopped
  <2>5. CallsBefore(t, j + 1, "stop", u[j].path) => (c.op = "stop" /\ c.path = u[j].path) \/ CallsBefore(u, j, "stop", u[j].path)
    BY <1>0 DEF GoesPast
  <2> QED
    BY <2>3, <2>4, <2>5
<1> QED
  BY <1>1 DEF Stopped

LEMMA OpenedOn ==
    ASSUME NEW b, NEW w, NEW m, NEW t, IsPlan(t, b, w, m), NEW c, c = Head(t), NEW u, u = Tail(t),
           NEW through, NEW through2, Opened(t, through), c.op = "open" => c.path[2] \in through2,
           \A p : Calls(t, "start", p) /\ p[2] \in through => p[2] \in through2
    PROVE  Opened(u, through2)
<1>0. GoesPast(t, c, u)
  BY PlanGoesOn, Zenon
<1>1. ASSUME NEW j \in 1..Len(u), u[j].op = "start"
      PROVE  u[j].path[2] \in through2 \/ CallsBefore(u, j, "open", u[j].path)
  <2>1. u[j] = t[j + 1] /\ j + 1 \in 1..Len(t) /\ Calls(t, "start", u[j].path)
    BY <1>0, <1>1 DEF GoesPast
  <2>2. u[j].path[2] \in through \/ CallsBefore(t, j + 1, "open", u[j].path)
    BY <1>1, <2>1 DEF Opened
  <2>3. CallsBefore(t, j + 1, "open", u[j].path) => (c.op = "open" /\ c.path = u[j].path) \/ CallsBefore(u, j, "open", u[j].path)
    BY <1>0 DEF GoesPast
  <2> QED
    BY <2>1, <2>2, <2>3
<1> QED
  BY <1>1 DEF Opened

LEMMA StepsOn ==
    ASSUME ApplyInv, todo # <<>>, NEW c, c = Head(todo), NEW u, u = Tail(todo)
    PROVE  /\ (c.op = "record" <=> u = <<>>)
           /\ c.op # "record" => IsPlan(u, Order[at], wanted, moving)
           /\ \A op, p : Calls(todo, op, p) /\ ~(c.op = op /\ c.path = p) => Calls(u, op, p)
<1>1. PICK b, w, m : b = Order[at] /\ w = wanted /\ m = moving
  OBVIOUS
<1>2. PICK t : t = todo
  OBVIOUS
<1>3. IsPlan(t, b, w, m)
  <2>1. IsPlan(todo, Order[at], wanted, moving)
    BY HeadIs
  <2> QED
    BY <1>1, <1>2, <2>1
<1>4. c = Head(t) /\ u = Tail(t)
  BY <1>2
<1>5. c.op = "record" <=> u = <<>>
  BY <1>3, <1>4, PlanGoesOn, Zenon
<1>6. c.op # "record" => IsPlan(u, b, w, m)
  BY <1>3, <1>4, PlanGoesOn, Zenon
<1>7. \A op, p : Calls(t, op, p) /\ ~(c.op = op /\ c.path = p) => Calls(u, op, p)
  <2>1. GoesPast(t, c, u)
    BY <1>3, <1>4, PlanGoesOn, Zenon
  <2> QED
    BY <2>1 DEF GoesPast
<1> QED
  BY <1>1, <1>2, <1>5, <1>6, <1>7

\* A path the apply is sure of, of the backend it is at, is as wanted.
LEMMA SureIsSettled ==
    ASSUME ApplyInv, todo # <<>>, NEW p \in Known \ unsure, p[1] = Order[at]
    PROVE  Settled(p)
<1>1. at \in 1..5 /\ at \in 1..at
  <2>1. at \in 1..5
    BY HeadIs
  <2> QED
    BY <2>1
<1>2. Behind(p)
  BY <1>1 DEF Behind
<1> QED
  BY <1>2 DEF ApplyInv, DoneWith

\* The hotspots whose time to stop is past are wanted.
LEMMA OnesLeft ==
    ASSUME ApplyInv, todo # <<>>, NEW c, c = Head(todo), Phase(c.op) \in 2..4, Order[at] = "hostapd"
    PROVE  PathsOf(beacons) \subseteq PathsOf(wanted)
<1>1. ASSUME NEW p \in PathsOf(beacons) PROVE p \in PathsOf(wanted)
  <2>1. p \in PathsOf(wanted) \/ Calls(todo, "stop", p)
    BY DEF ApplyInv, GoesOn, WillStop
  <2>2. Calls(todo, "stop", p) => Phase(c.op) <= Phase("stop")
    BY HeadIs
  <2>3. Phase("stop") = 1
    BY PhasesAre DEF Downs
  <2> QED
    BY <2>1, <2>2, <2>3
<1> QED
  BY <1>1

LEMMA PutsLeft ==
    ASSUME ApplyInv, todo # <<>>, NEW c, c = Head(todo), Phase(c.op) \in 3..4, NEW p \in moving
    PROVE  At(p, files) = At(p, wanted)
<1>1. WillPut(p)
  BY DEF ApplyInv, GoesOn
<1>2. \A op \in PutOps : ~Calls(todo, op, p)
  <2>1. \A op : Calls(todo, op, p) => Phase(c.op) <= Phase(op)
    BY HeadIs
  <2>2. \A op \in PutOps : Phase(op) = 2
    BY PhasesAre
  <2> QED
    BY <2>1, <2>2
<1> QED
  BY <1>1, <1>2 DEF WillPut, PutOps

LEMMA HostPaths ==
    ASSUME NEW p \in Known, NEW q \in Known, p[1] = "hostapd", q[1] = "hostapd", p[2] = q[2]
    PROVE  p = q
<1>1. p = <<"hostapd", p[2], "conf">> /\ q = <<"hostapd", q[2], "conf">>
  BY KnownAre DEF PathIs
<1> QED
  BY <1>1

LEMMA OneWanted ==
    ASSUME ApplyInv, todo # <<>>, NEW p \in PathsOf(wanted), NEW q \in PathsOf(wanted), p[1] = "hostapd", q[1] = "hostapd"
    PROVE  p = q
<1>1. wanted \in Wanteds
  BY HeadIs
<1> QED
  BY <1>1, WantedsAre DEF PathsOf

LEMMA BeaconsKnown ==
    ASSUME ApplyInv PROVE PathsOf(beacons) \subseteq Known /\ \A p \in PathsOf(beacons) : p[1] = "hostapd"
BY KnownAre DEF ApplyInv, ApplyType, HostServed, PathsOf

-----------------------------------------------------------------------------
\* What a call keeps, whether the apply goes on after it or not, and what
\* it leaves to the calls after it.
Typed ==
    /\ files \in SUBSET AllFiles /\ beacons \in SUBSET AllFiles /\ live \in [Backends -> SUBSET AllFiles]
    /\ OnePerPath(files) /\ OnePerPath(beacons) /\ IsFiniteSet(files)
SameAt(p) == At(p, files') = At(p, files) /\ (ByItself(p) \/ LiveAt(p)' = LiveAt(p))
Keeps ==
    /\ Typed' /\ IwdReads' /\ HostServed' /\ record' = record /\ unsure' = unsure
    /\ \A p \in Known \ unsure : SameAt(p)

StillPuts(p, u) == At(p, files) = At(p, wanted) \/ Calls(u, "write", p) \/ Calls(u, "remove", p)
StillReads(p, u) ==
    \/ ByItself(p) \/ p \in unread \/ LiveAt(p) = At(p, wanted)
    \/ Calls(u, "pick up", <<p[1]>>) \/ Calls(u, "start", p) \/ Calls(u, "stop", p)
StillStops(u) == Order[at] = "hostapd" => \A p \in PathsOf(beacons) : p \in PathsOf(wanted) \/ Calls(u, "stop", p)
Leaves(u) ==
    /\ \A p \in moving : StillPuts(p, u)' /\ StillReads(p, u)'
    /\ Stopped(u, beacons') /\ Opened(u, opened') /\ StillStops(u)'

LEMMA PutKeeps ==
    ASSUME ApplyInv, todo # <<>>, NEW c, c = Head(todo), c.op \in PutOps, Effect(c)
    PROVE  Keeps
<1>1. /\ c.path \in moving /\ files' = Without(c.path, files) \cup At(c.path, wanted)
      /\ live' \in [Backends -> SUBSET AllFiles] /\ IwdReads'
      /\ \A b \in Backends \ {"iwd"} : live'[b] = live[b]
      /\ At(MainConf, live'["iwd"]) = At(MainConf, live["iwd"])
      /\ record' = record /\ unsure' = unsure /\ unread' = unread /\ beacons' = beacons /\ opened' = opened /\ aps' = aps
  BY PutTakes
<1>2. /\ moving \subseteq unsure /\ wanted \subseteq AllFiles /\ OnePerPath(wanted) /\ IsOf(c, Order[at], wanted, moving)
      /\ \A p \in moving : p[1] = Order[at]
  BY HeadIs
<1>3. /\ files \subseteq AllFiles /\ beacons \subseteq AllFiles /\ OnePerPath(files) /\ OnePerPath(beacons)
      /\ HostServed
  BY DEF ApplyInv, ApplyType
<1>4. Typed'
  <2>1. files' \subseteq AllFiles
    BY <1>1, <1>2, <1>3 DEF Without, At
  <2>2. OnePerPath(files')
    BY <1>1, <1>2, <1>3 DEF Without, At, OnePerPath
  <2>3. IsFiniteSet(files')
    <3>1. IsFiniteSet(files) /\ IsFiniteSet(wanted)
      BY HeadIs, WantedsAre DEF ApplyInv, ApplyType
    <3>2. PICK S, T : S = Without(c.path, files) /\ T = At(c.path, wanted)
      OBVIOUS
    <3>3. S \in SUBSET files /\ T \in SUBSET wanted
      BY <3>2 DEF Without, At
    <3>4. IsFiniteSet(S) /\ IsFiniteSet(T)
      BY <3>1, <3>3, FS_Subset
    <3>5. IsFiniteSet(S \cup T)
      BY <3>4, FS_Union
    <3> QED
      BY <1>1, <3>2, <3>5
  <2> QED
    BY <1>1, <1>3, <2>1, <2>2, <2>3 DEF Typed
<1>5. \A q : q # c.path => At(q, files') = At(q, files)
  BY <1>1 DEF Without, At
<1>6. ASSUME NEW p \in Known \ unsure PROVE SameAt(p)
  <2>1. p # c.path /\ p[1] \in Backends
    BY <1>1, <1>2, KnownAre DEF PathIs
  <2>2. CASE p[1] = "hostapd"
    BY <1>1, <1>5, <2>1, <2>2 DEF SameAt, LiveAt
  <2>3. CASE p[1] \notin {"hostapd", "iwd"}
    <3>1. live'[p[1]] = live[p[1]]
      BY <1>1, <2>1, <2>3
    <3> QED
      BY <1>5, <2>1, <2>3, <3>1 DEF SameAt, LiveAt
  <2>4. CASE p[1] = "iwd"
    <3>1. ByItself(p) \/ p = MainConf
      BY <2>4 DEF ByItself
    <3>2. p = MainConf => LiveAt(p)' = LiveAt(p)
      <4>1. p = MainConf => At(p, live'["iwd"]) = At(p, live["iwd"])
        BY <1>1
      <4> HIDE DEF MainConf
      <4> QED
        BY <2>4, <4>1 DEF LiveAt
    <3> QED
      BY <1>5, <2>1, <3>1, <3>2 DEF SameAt
  <2> QED
    BY <2>2, <2>3, <2>4
<1>7. PathsOf(beacons) \subseteq PathsOf(files') \cup PathsOf(record)
  <2>1. ASSUME NEW q \in PathsOf(beacons) PROVE q \in PathsOf(files') \cup PathsOf(record)
    <3>1. q \in PathsOf(files) \cup PathsOf(record) /\ q[1] = "hostapd"
      BY <1>3, BeaconsKnown DEF HostServed
    <3>2. CASE q # c.path
      BY <1>1, <3>1, <3>2 DEF PathsOf, Without
    <3>3. CASE q = c.path
      <4>1. Order[at] = "hostapd"
        BY <1>1, <1>2, <3>1, <3>3
      <4>2. Phase(c.op) \in 2..4
        <5>1. Phase(c.op) = 2
          BY PhasesAre
        <5> QED
          BY <5>1
      <4>3. q \in PathsOf(wanted)
        BY <4>1, <4>2, OnesLeft
      <4> QED
        BY <1>1, <3>3, <4>3 DEF PathsOf, At
    <3> QED
      BY <3>2, <3>3
  <2> QED
    BY <2>1
<1>8. HostServed'
  BY <1>1, <1>3, <1>7 DEF HostServed
<1> QED
  BY <1>1, <1>4, <1>6, <1>8 DEF Keeps

LEMMA PutLeaves ==
    ASSUME ApplyInv, todo # <<>>, NEW c, c = Head(todo), c.op \in PutOps, Effect(c), NEW u, u = Tail(todo),
           wanted' = wanted, at' = at
    PROVE  Leaves(u)
<1>1. /\ c.path \in moving /\ files' = Without(c.path, files) \cup At(c.path, wanted)
      /\ \A b \in Backends \ {"iwd"} : live'[b] = live[b]
      /\ At(MainConf, live'["iwd"]) = At(MainConf, live["iwd"])
      /\ beacons' = beacons /\ opened' = opened /\ unread' = unread
  BY PutTakes
<1>2. \A op, p : Calls(todo, op, p) /\ ~(c.op = op /\ c.path = p) => Calls(u, op, p)
  BY StepsOn
<1>3. moving \subseteq Known
  BY HeadIs
<1>4. GoesOn
  BY DEF ApplyInv
<1>5. ASSUME NEW p \in moving PROVE StillPuts(p, u)'
  <2>1. CASE p = c.path
    <3>1. At(p, files') = At(p, wanted)
      BY <1>1, <2>1 DEF At, Without
    <3> QED
      BY <3>1 DEF StillPuts
  <2>2. CASE p # c.path
    <3>1. At(p, files') = At(p, files)
      BY <1>1, <2>2 DEF At, Without
    <3>2. WillPut(p)
      BY <1>4 DEF GoesOn
    <3> QED
      BY <1>2, <2>2, <3>1, <3>2 DEF StillPuts, WillPut
  <2> QED
    BY <2>1, <2>2
<1>6. ASSUME NEW p \in moving PROVE StillReads(p, u)'
  <2>1. p[1] \in Backends
    BY <1>3, KnownAre DEF PathIs
  <2>2. LiveAt(p)' = LiveAt(p) \/ ByItself(p)
    <3>1. CASE p[1] = "hostapd"
      BY <1>1, <3>1 DEF LiveAt
    <3>2. CASE p[1] \notin {"hostapd", "iwd"}
      <4>1. live'[p[1]] = live[p[1]]
        BY <1>1, <2>1, <3>2
      <4> QED
        BY <3>2, <4>1 DEF LiveAt
    <3>3. CASE p[1] = "iwd"
      <4>1. ByItself(p) \/ p = MainConf
        BY <3>3 DEF ByItself
      <4>2. p = MainConf => At(p, live'["iwd"]) = At(p, live["iwd"])
        BY <1>1
      <4> HIDE DEF MainConf
      <4> QED
        BY <3>3, <4>1, <4>2 DEF LiveAt
    <3> QED
      BY <3>1, <3>2, <3>3
  <2>3. WillRead(p)
    BY <1>4 DEF GoesOn
  <2>4. c.op \notin {"pick up", "start", "stop"}
    BY DEF PutOps
  <2>5. \A op \in {"pick up", "start", "stop"} : \A q : Calls(todo, op, q) => Calls(u, op, q)
    BY <1>2, <2>4
  <2>6. \/ ByItself(p) \/ p \in unread \/ LiveAt(p) = At(p, wanted)
        \/ Calls(u, "pick up", <<p[1]>>) \/ Calls(u, "start", p) \/ Calls(u, "stop", p)
    BY <2>3, <2>5 DEF WillRead
  <2> QED
    BY <1>1, <2>2, <2>6 DEF StillReads
<1>7. StillStops(u)'
  <2>1. c.op # "stop"
    BY DEF PutOps
  <2>2. WillStop
    BY <1>4 DEF GoesOn
  <2> QED
    BY <1>1, <1>2, <2>1, <2>2 DEF StillStops, WillStop
<1>8. Stopped(u, beacons') /\ Opened(u, opened')
  <2>1. PICK b, w, m, t : b = Order[at] /\ w = wanted /\ m = moving /\ t = todo
    OBVIOUS
  <2>2. IsPlan(t, b, w, m) /\ c = Head(t) /\ u = Tail(t)
    BY <2>1, HeadIs
  <2>3. PICK on, through : on = beacons /\ through = opened
    OBVIOUS
  <2>4. Stopped(t, on) /\ Opened(t, through)
    BY <1>4, <2>1, <2>3 DEF GoesOn
  <2>5. c.op \notin {"stop", "open"}
    BY DEF PutOps
  <2>6. Stopped(u, on)
    BY <2>2, <2>4, <2>5, StoppedOn
  <2>7. Opened(u, through)
    BY <2>2, <2>4, <2>5, OpenedOn
  <2> QED
    BY <1>1, <2>3, <2>6, <2>7
<1> QED
  BY <1>5, <1>6, <1>7, <1>8 DEF Leaves

LEMMA PhaseInts == 3 \in 3..4 /\ 4 \in 3..4 /\ 4 \in 2..4 /\ ~(4 <= 3) /\ ~(4 <= 1)
OBVIOUS

LEMMA PickUpKeeps ==
    ASSUME ApplyInv, todo # <<>>, NEW c, c = Head(todo), c.op = "pick up", Effect(c)
    PROVE  Keeps
<1>1. PICK b : b = Order[at]
  OBVIOUS
<1>2. /\ b \in Backends \ {"hostapd"} /\ files' = files
      /\ live' \in [Backends -> SUBSET AllFiles] /\ IwdReads'
      /\ live'[b] = Of(b, files) /\ \A a \in Backends \ {b} : live'[a] = live[a]
      /\ record' = record /\ unsure' = unsure /\ unread' = unread /\ beacons' = beacons /\ opened' = opened /\ aps' = aps
  BY <1>1, PickUpTakes
<1>3. Typed'
  BY <1>2 DEF Typed, ApplyInv, ApplyType
<1>4. HostServed'
  BY <1>2 DEF HostServed, ApplyInv
<1>5. ASSUME NEW p \in Known \ unsure PROVE SameAt(p)
  <2>1. p[1] \in Backends
    BY KnownAre DEF PathIs
  <2>2. CASE p[1] = b
    <3>1. Settled(p)
      BY <1>1, <2>2, SureIsSettled
    <3>2. LastRead(p)
      BY DEF ApplyInv, SureAre
    <3>3. At(p, Of(b, files)) = At(p, files)
      BY <2>2 DEF At, Of
    <3>4. LiveAt(p)' = At(p, files)
      BY <1>2, <2>2, <3>3 DEF LiveAt
    <3> QED
      BY <1>2, <3>1, <3>2, <3>4 DEF SameAt, Settled, LastRead
  <2>3. CASE p[1] # b
    <3>1. p[1] # "hostapd" => live'[p[1]] = live[p[1]]
      BY <1>2, <2>1, <2>3
    <3> QED
      BY <1>2, <3>1 DEF SameAt, LiveAt
  <2> QED
    BY <2>2, <2>3
<1> QED
  BY <1>2, <1>3, <1>4, <1>5 DEF Keeps

LEMMA PickUpLeaves ==
    ASSUME ApplyInv, todo # <<>>, NEW c, c = Head(todo), c.op = "pick up", Effect(c), NEW u, u = Tail(todo),
           wanted' = wanted, at' = at
    PROVE  Leaves(u)
<1>1. PICK b : b = Order[at]
  OBVIOUS
<1>2. /\ b \in Backends \ {"hostapd"} /\ files' = files
      /\ live'[b] = Of(b, files) /\ beacons' = beacons /\ opened' = opened
  BY <1>1, PickUpTakes
<1>3. \A op, p : Calls(todo, op, p) /\ ~(c.op = op /\ c.path = p) => Calls(u, op, p)
  BY StepsOn
<1>4. \A p \in moving : p[1] = b
  BY <1>1, HeadIs
<1>5. GoesOn
  BY DEF ApplyInv
<1>6. Phase(c.op) = 3 /\ Phase(c.op) \in 3..4
  <2>1. Phase("pick up") = 3
    BY PhasesAre
  <2> QED
    BY <2>1, PhaseInts
<1>7. ASSUME NEW p \in moving PROVE StillPuts(p, u)' /\ StillReads(p, u)'
  <2>1. At(p, files) = At(p, wanted)
    BY <1>6, PutsLeft
  <2>2. p[1] = b
    BY <1>4
  <2>3. LiveAt(p)' = At(p, files)
    <3>1. At(p, Of(b, files)) = At(p, files)
      BY <2>2 DEF At, Of
    <3> QED
      BY <1>2, <2>2, <3>1 DEF LiveAt
  <2> QED
    BY <1>2, <2>1, <2>3 DEF StillPuts, StillReads
<1>8. StillStops(u)'
  BY <1>1, <1>2 DEF StillStops
<1>9. Stopped(u, beacons') /\ Opened(u, opened')
  <2>1. PICK w, m, t : w = wanted /\ m = moving /\ t = todo
    OBVIOUS
  <2>2. IsPlan(t, b, w, m) /\ c = Head(t) /\ u = Tail(t)
    BY <1>1, <2>1, HeadIs
  <2>3. PICK on, through : on = beacons /\ through = opened
    OBVIOUS
  <2>4. Stopped(t, on) /\ Opened(t, through)
    BY <1>5, <2>1, <2>3 DEF GoesOn
  <2>5. c.op \notin {"stop", "open"}
    OBVIOUS
  <2>6. Stopped(u, on)
    BY <2>2, <2>4, <2>5, StoppedOn
  <2>7. Opened(u, through)
    BY <2>2, <2>4, <2>5, OpenedOn
  <2> QED
    BY <1>2, <2>3, <2>6, <2>7
<1> QED
  BY <1>7, <1>8, <1>9 DEF Leaves

\* The calls that take a hotspot down and bring one up.
LEMMA HostHead ==
    ASSUME ApplyInv, todo # <<>>, NEW c, c = Head(todo), c.op \in Downs \cup Ups
    PROVE  /\ c.path \in moving /\ Order[at] = "hostapd" /\ c.path[1] = "hostapd" /\ c.path \in Known \cap unsure
           /\ c.op \in Downs => c.path \notin PathsOf(wanted)
           /\ c.op \in Ups => c.path \in PathsOf(wanted) /\ Phase(c.op) = 3 /\ Phase(c.op) \in 2..4 /\ Phase(c.op) \in 3..4
           /\ c.op = "close" => c.path \notin PathsOf(beacons)
           /\ c.op = "start" => c.path[2] \in opened
<1>1. /\ IsOf(c, Order[at], wanted, moving) /\ moving \subseteq Known /\ moving \subseteq unsure
      /\ \A p \in moving : p[1] = Order[at]
  BY HeadIs
<1>2. /\ c.path \in moving /\ Order[at] = "hostapd"
      /\ c.op \in Downs => c.path \notin PathsOf(wanted)
      /\ c.op \in Ups => c.path \in PathsOf(wanted)
  BY <1>1 DEF IsOf
<1>3. c.op \in Ups => Phase(c.op) = 3 /\ Phase(c.op) \in 2..4 /\ Phase(c.op) \in 3..4
  <2>1. c.op \in Ups => Phase(c.op) = 3
    BY PhasesAre
  <2> QED
    BY <2>1
<1>4. PICK b, w, m, t : b = Order[at] /\ w = wanted /\ m = moving /\ t = todo
  OBVIOUS
<1>5. IsPlan(t, b, w, m) /\ c = Head(t)
  BY <1>4, HeadIs
<1>6. FirstOf(t, c)
  BY <1>5, PlanGoesOn, Zenon
<1>7. c.op = "close" => c.path \notin PathsOf(beacons)
  <2>1. Stopped(t, beacons)
    BY <1>4 DEF ApplyInv, GoesOn
  <2> QED
    BY <1>6, <2>1 DEF Stopped, FirstOf
<1>8. c.op = "start" => c.path[2] \in opened
  <2>1. Opened(t, opened)
    BY <1>4 DEF ApplyInv, GoesOn
  <2> QED
    BY <1>6, <2>1 DEF Opened, FirstOf
<1> QED
  BY <1>1, <1>2, <1>3, <1>7, <1>8

LEMMA HostKeeps ==
    ASSUME ApplyInv, todo # <<>>, NEW c, c = Head(todo), c.op \in Downs \cup Ups, Effect(c), Works(c)
    PROVE  Keeps
<1>1. /\ files' = files /\ live' = live /\ record' = record /\ unsure' = unsure /\ IwdReads'
      /\ beacons' = CASE c.op = "start" /\ ReadsAnew(c.path) -> Without(c.path, beacons) \cup At(c.path, files)
                      [] c.op \in {"stop", "delete"} -> Without(c.path, beacons)
                      [] OTHER -> beacons
      /\ opened' = CASE c.op = "open" -> opened \cup {c.path[2]}
                     [] c.op = "close" -> opened \ {c.path[2]}
                     [] OTHER -> opened
      /\ aps' = CASE c.op = "create" -> aps \cup {c.path[2]}
                  [] c.op = "delete" -> aps \ {c.path[2]}
                  [] OTHER -> aps
  BY HostTakes
<1>2. /\ c.path \in moving /\ Order[at] = "hostapd" /\ c.path[1] = "hostapd" /\ c.path \in Known \cap unsure
      /\ c.op \in Ups => c.path \in PathsOf(wanted) /\ Phase(c.op) \in 2..4
      /\ c.op = "close" => c.path \notin PathsOf(beacons)
      /\ c.op = "start" => c.path[2] \in opened
  BY HostHead
<1>3. /\ files \subseteq AllFiles /\ beacons \subseteq AllFiles /\ OnePerPath(files) /\ OnePerPath(beacons)
      /\ live \in [Backends -> SUBSET AllFiles] /\ HostServed
  BY DEF ApplyInv, ApplyType
<1>4. PathsOf(beacons) \subseteq Known /\ \A p \in PathsOf(beacons) : p[1] = "hostapd"
  BY BeaconsKnown
<1>5. c.op = "start" => PathsOf(beacons) \subseteq {c.path}
  <2> SUFFICES ASSUME c.op = "start", NEW q \in PathsOf(beacons) PROVE q = c.path
    OBVIOUS
  <2>1. c.op \in Ups
    BY DEF Ups
  <2>2. q \in PathsOf(wanted)
    BY <1>2, <2>1, OnesLeft
  <2> QED
    BY <1>2, <1>4, <2>1, <2>2, OneWanted
<1> DEFINE anew == c.op = "start" /\ ReadsAnew(c.path)
<1>6. anew => beacons' = At(c.path, files)
  BY <1>1, <1>5 DEF PathsOf, Without
<1>7. ~anew => beacons' \subseteq beacons
  BY <1>1 DEF Without
<1>8. Typed'
  <2>1. IsFiniteSet(files')
    BY <1>1 DEF ApplyInv, ApplyType
  <2> QED
    BY <1>1, <1>3, <1>6, <1>7, <2>1 DEF Typed, At, OnePerPath
<1>9. ASSUME NEW p \in Known \ unsure PROVE SameAt(p)
  <2>1. p # c.path
    BY <1>2
  <2>2. At(p, beacons') = At(p, beacons)
    BY <1>1, <2>1 DEF At, Without
  <2> QED
    BY <1>1, <2>2 DEF SameAt, LiveAt
<1>10. ASSUME NEW f \in beacons' PROVE f.path[1] = "hostapd" /\ f.path[2] \in opened' \cap aps'
  <2>1. CASE anew
    <3>1. f.path = c.path /\ c.path[2] \in aps
      BY <1>6, <2>1 DEF At, Works
    <3> QED
      BY <1>1, <1>2, <2>1, <3>1
  <2>2. CASE ~anew
    <3>1. f \in beacons /\ f.path \in PathsOf(beacons)
      BY <1>7, <2>2 DEF PathsOf
    <3>2. f.path[1] = "hostapd" /\ f.path[2] \in opened \cap aps
      BY <1>3, <3>1 DEF HostServed
    <3>3. c.op \in {"close", "delete"} => f.path # c.path
      BY <1>1, <1>2, <3>1 DEF Without
    <3>4. c.op \in {"close", "delete"} => f.path[2] # c.path[2]
      BY <1>2, <1>4, <3>1, <3>2, <3>3, HostPaths
    <3>5. f.path[2] \in opened'
      BY <1>1, <3>2, <3>4
    <3>6. f.path[2] \in aps'
      BY <1>1, <3>2, <3>4
    <3> QED
      BY <3>2, <3>5, <3>6
  <2> QED
    BY <2>1, <2>2
<1>11. HostServed'
  <2>1. \A f, g \in beacons' : f.path = g.path
    BY <1>3, <1>6, <1>7 DEF HostServed, At
  <2>2. PathsOf(beacons') \subseteq PathsOf(files') \cup PathsOf(record')
    <3>1. CASE anew
      BY <1>1, <1>6, <3>1 DEF PathsOf, At
    <3>2. CASE ~anew
      <4>1. PathsOf(beacons') \subseteq PathsOf(beacons)
        BY <1>7, <3>2 DEF PathsOf
      <4> QED
        BY <1>1, <1>3, <4>1 DEF HostServed
    <3> QED
      BY <3>1, <3>2
  <2> QED
    BY <1>10, <2>1, <2>2 DEF HostServed
<1> QED
  BY <1>1, <1>8, <1>9, <1>11 DEF Keeps

LEMMA HostLeaves ==
    ASSUME ApplyInv, todo # <<>>, NEW c, c = Head(todo), c.op \in Downs \cup Ups, Effect(c), NEW u, u = Tail(todo),
           wanted' = wanted, at' = at
    PROVE  Leaves(u)
<1>1. /\ files' = files /\ live' = live
      /\ beacons' = CASE c.op = "start" /\ ReadsAnew(c.path) -> Without(c.path, beacons) \cup At(c.path, files)
                      [] c.op \in {"stop", "delete"} -> Without(c.path, beacons)
                      [] OTHER -> beacons
      /\ opened' = CASE c.op = "open" -> opened \cup {c.path[2]}
                     [] c.op = "close" -> opened \ {c.path[2]}
                     [] OTHER -> opened
      /\ unread \subseteq unread'
      /\ c.op = "start" /\ At(c.path, beacons') # At(c.path, files) => c.path \in unread'
  BY HostTakes
<1>2. /\ c.path \in moving /\ Order[at] = "hostapd" /\ c.path[1] = "hostapd" /\ c.path \in Known
      /\ c.op \in Downs => c.path \notin PathsOf(wanted)
      /\ c.op \in Ups => c.path \in PathsOf(wanted) /\ Phase(c.op) = 3 /\ Phase(c.op) \in 3..4
  BY HostHead
<1>3. \A op, p : Calls(todo, op, p) /\ ~(c.op = op /\ c.path = p) => Calls(u, op, p)
  BY StepsOn
<1>4. GoesOn
  BY DEF ApplyInv
<1>5. /\ c.op = "start" => c.op \in Ups
      /\ c.op \in {"stop", "close", "delete"} => c.op \in Downs
      /\ c.op \notin {"write", "remove", "pick up"}
  BY DEF Ups, Downs
<1>6. ASSUME NEW p \in moving PROVE StillPuts(p, u)' /\ StillReads(p, u)'
  <2>1. StillPuts(p, u)'
    <3>1. WillPut(p)
      BY <1>4 DEF GoesOn
    <3> QED
      BY <1>1, <1>3, <1>5, <3>1 DEF StillPuts, WillPut
  <2>2. p[1] = "hostapd"
    BY <1>2, HeadIs
  <2>3. LiveAt(p)' = At(p, beacons')
    BY <2>2 DEF LiveAt
  <2>4. CASE p = c.path /\ c.op = "start"
    <3>1. At(p, files) = At(p, wanted)
      BY <1>2, <1>5, <2>4, PutsLeft
    <3>2. p \in unread' \/ At(p, beacons') = At(p, files)
      BY <1>1, <2>4
    <3> QED
      BY <2>1, <2>3, <3>1, <3>2 DEF StillReads
  <2>5. CASE p = c.path /\ c.op \in {"stop", "delete"}
    <3>1. At(p, beacons') = {}
      BY <1>1, <2>5 DEF At, Without
    <3>2. At(p, wanted) = {}
      BY <1>2, <1>5, <2>5 DEF At, PathsOf
    <3> QED
      BY <2>1, <2>3, <3>1, <3>2 DEF StillReads
  <2>6. CASE p # c.path \/ c.op \notin {"start", "stop", "delete"}
    <3>1. At(p, beacons') = At(p, beacons)
      BY <1>1, <2>6 DEF At, Without
    <3>2. LiveAt(p)' = LiveAt(p)
      BY <2>2, <2>3, <3>1 DEF LiveAt
    <3>3. WillRead(p) /\ (p \in unread => p \in unread')
      BY <1>1, <1>4 DEF GoesOn
    <3>4. /\ Calls(todo, "start", p) => Calls(u, "start", p)
          /\ Calls(todo, "stop", p) => Calls(u, "stop", p)
          /\ \A q : Calls(todo, "pick up", q) => Calls(u, "pick up", q)
      BY <1>3, <1>5, <2>6
    <3>5. \/ ByItself(p) \/ p \in unread \/ LiveAt(p) = At(p, wanted)
          \/ Calls(u, "pick up", <<p[1]>>) \/ Calls(u, "start", p) \/ Calls(u, "stop", p)
      BY <3>3, <3>4 DEF WillRead
    <3> QED
      BY <2>1, <3>2, <3>3, <3>5 DEF StillReads
  <2> QED
    BY <2>4, <2>5, <2>6
<1>7. StillStops(u)'
  <2>1. ASSUME NEW q \in PathsOf(beacons') PROVE q \in PathsOf(wanted) \/ Calls(u, "stop", q)
    <3>1. CASE q = c.path
      <4>1. c.op \notin {"stop", "delete"}
        BY <1>1, <3>1 DEF PathsOf, Without
      <4>2. CASE c.op \in Ups
        BY <1>2, <3>1, <4>2
      <4>3. CASE c.op \notin Ups
        <5>1. q \in PathsOf(beacons) /\ c.op # "stop"
          BY <1>1, <1>5, <4>1, <4>3
        <5>2. q \in PathsOf(wanted) \/ Calls(todo, "stop", q)
          BY <1>2, <1>4, <5>1 DEF GoesOn, WillStop
        <5> QED
          BY <1>3, <5>1, <5>2
      <4> QED
        BY <4>2, <4>3
    <3>2. CASE q # c.path
      <4>1. q \in PathsOf(beacons)
        BY <1>1, <3>2 DEF PathsOf, Without, At
      <4>2. q \in PathsOf(wanted) \/ Calls(todo, "stop", q)
        BY <1>2, <1>4, <4>1 DEF GoesOn, WillStop
      <4> QED
        BY <1>3, <3>2, <4>2
    <3> QED
      BY <3>1, <3>2
  <2> QED
    BY <2>1 DEF StillStops
<1>8. Stopped(u, beacons') /\ Opened(u, opened')
  <2>1. PICK b, w, m, t : b = Order[at] /\ w = wanted /\ m = moving /\ t = todo
    OBVIOUS
  <2>2. IsPlan(t, b, w, m) /\ c = Head(t) /\ u = Tail(t)
    BY <2>1, HeadIs
  <2>3. PICK on, through, on2, through2 : on = beacons /\ through = opened /\ on2 = beacons' /\ through2 = opened'
    OBVIOUS
  <2>4. Stopped(t, on) /\ Opened(t, through)
    BY <1>4, <2>1, <2>3 DEF GoesOn
  <2>5. Stopped(u, on2)
    <3>1. PathsOf(on2) \subseteq PathsOf(on) \/ Phase(c.op) = 3
      BY <1>1, <1>2, <1>5, <2>3 DEF PathsOf, Without
    <3>2. c.op = "stop" => c.path \notin PathsOf(on2)
      BY <1>1, <2>3 DEF PathsOf, Without
    <3> QED
      BY <2>2, <2>4, <3>1, <3>2, StoppedOn
  <2>6. ASSUME NEW p, Calls(t, "start", p), p[2] \in through PROVE p[2] \in through2
    <3>1. p \in PathsOf(wanted) /\ p \in Known /\ p[1] = "hostapd"
      <4>1. PICK i \in 1..Len(t) : t[i].op = "start" /\ t[i].path = p
        BY <2>6 DEF Calls
      <4>2. IsCall(t[i], b, w, m) /\ OnePerPath(w)
        BY <2>1, <2>2, HeadIs DEF IsPlan
      <4>3. IsOf(t[i], b, w, m)
        BY <4>2, CallIs
      <4>4. p \in m \cap PathsOf(w)
        BY <4>1, <4>3 DEF IsOf, Ups
      <4>5. m \subseteq Known /\ \A q \in m : q[1] = "hostapd"
        BY <1>2, <2>1, HeadIs
      <4> QED
        BY <2>1, <4>4, <4>5
    <3>2. c.op = "close" => p # c.path
      BY <1>2, <1>5, <3>1
    <3>3. c.op = "close" => p[2] # c.path[2]
      BY <1>2, <3>1, <3>2, HostPaths
    <3> QED
      BY <1>1, <2>3, <2>6, <3>3
  <2>7. c.op = "open" => c.path[2] \in through2
    BY <1>1, <2>3
  <2>8. Opened(u, through2)
    BY <2>2, <2>4, <2>6, <2>7, OpenedOn
  <2> QED
    BY <2>3, <2>5, <2>8
<1> QED
  BY <1>6, <1>7, <1>8 DEF Leaves

-----------------------------------------------------------------------------
\* The steps.
LEMMA CallKeeps ==
    ASSUME ApplyInv, todo # <<>>, NEW c, c = Head(todo), c.op # "record", Effect(c), Works(c)
    PROVE  Keeps
<1>1. c.op \in Downs \cup PutOps \cup Ups \cup {"pick up", "record"}
  BY HeadIs DEF IsOf
<1> QED
  BY <1>1, PutKeeps, PickUpKeeps, HostKeeps

LEMMA CallLeaves ==
    ASSUME ApplyInv, todo # <<>>, NEW c, c = Head(todo), c.op # "record", Effect(c), NEW u, u = Tail(todo),
           wanted' = wanted, at' = at
    PROVE  Leaves(u)
<1>1. c.op \in Downs \cup PutOps \cup Ups \cup {"pick up", "record"}
  BY HeadIs DEF IsOf
<1> QED
  BY <1>1, PutLeaves, PickUpLeaves, HostLeaves

LEMMA SureStay ==
    ASSUME ApplyInv, Keeps, wanted' = wanted
    PROVE  SureAre' /\ \A p \in Known \ unsure : Settled(p) => Settled(p)'
<1>1. ASSUME NEW p \in Known \ unsure PROVE At(p, files') = At(p, files) /\ LiveAt(p)' = At(p, IF ByItself(p) THEN files' ELSE record)
  <2>1. SameAt(p) /\ LastRead(p)
    BY DEF ApplyInv, SureAre, Keeps
  <2>2. CASE ByItself(p)
    <3>1. p[1] = "iwd"
      BY <2>2 DEF ByItself
    <3>2. At(p, {f \in live'["iwd"] : ByItself(f.path)}) = At(p, {f \in files' : ByItself(f.path)})
      BY DEF Keeps, IwdReads
    <3>3. At(p, live'["iwd"]) = At(p, files')
      BY <2>2, <3>2 DEF At
    <3> QED
      BY <2>1, <2>2, <3>1, <3>3 DEF SameAt, LiveAt
  <2>3. CASE ~ByItself(p)
    BY <2>1, <2>3 DEF SameAt, LastRead
  <2> QED
    BY <2>2, <2>3
<1>2. record' = record /\ unsure' = unsure
  BY DEF Keeps
<1>3. SureAre'
  <2>1. ASSUME NEW p \in Known \ unsure PROVE At(p, files') \subseteq At(p, record') /\ LastRead(p)'
    <3>1. At(p, files) \subseteq At(p, record)
      BY DEF ApplyInv, SureAre
    <3> QED
      BY <1>1, <1>2, <3>1 DEF LastRead
  <2> QED
    BY <1>2, <2>1 DEF SureAre
<1>4. ASSUME NEW p \in Known \ unsure, Settled(p) PROVE Settled(p)'
  BY <1>1, <1>2, <1>4 DEF Settled
<1> QED
  BY <1>3, <1>4

LEMMA KeepsOn ==
    ASSUME ApplyInv, todo # <<>>, DoesCall, Head(todo).op # "record"
    PROVE  ApplyInv'
<1>1. PICK c : c = Head(todo)
  OBVIOUS
<1>2. PICK u : u = Tail(todo)
  OBVIOUS
<1>3. /\ at # 0 /\ todo # <<>> /\ Works(c) /\ Effect(c) /\ todo' = u /\ c.op # "record"
      /\ at' = at /\ wanted' = wanted /\ result' = result /\ moving' = moving
  BY <1>1, <1>2 DEF DoesCall
<1>4. Keeps
  BY <1>1, <1>3, CallKeeps
<1>5. Leaves(u)
  BY <1>1, <1>2, <1>3, CallLeaves
<1>6. u # <<>> /\ IsPlan(u, Order[at], wanted, moving)
  BY <1>1, <1>2, <1>3, StepsOn
<1>7. SureAre' /\ \A p \in Known \ unsure : Settled(p) => Settled(p)'
  BY <1>3, <1>4, SureStay
<1>8. ApplyType' /\ Resting'
  BY <1>3, <1>4 DEF ApplyInv, ApplyType, Resting, Keeps, Typed
<1>9. DoneWith'
  <2>1. \A p : Behind(p)' <=> Behind(p)
    BY <1>3 DEF Behind
  <2>2. unsure' = unsure
    BY <1>4 DEF Keeps
  <2> QED
    BY <1>7, <2>1, <2>2 DEF ApplyInv, DoneWith
<1>10. GoesOn'
  <2>1. moving \subseteq unsure
    BY HeadIs
  <2>2. unsure' = unsure
    BY <1>4 DEF Keeps
  <2>3. Stopped(todo', beacons') /\ Opened(todo', opened')
    BY <1>3, <1>5 DEF Leaves
  <2>4. WillStop'
    BY <1>3, <1>5 DEF Leaves, StillStops, WillStop
  <2>5. \A p \in moving : WillPut(p)' /\ WillRead(p)'
    BY <1>3, <1>5 DEF Leaves, StillPuts, WillPut, StillReads, WillRead
  <2> QED
    BY <1>3, <1>6, <2>1, <2>2, <2>3, <2>4, <2>5 DEF GoesOn
<1>11. IwdReads' /\ HostServed'
  BY <1>4 DEF Keeps
<1> QED
  BY <1>7, <1>8, <1>9, <1>10, <1>11 DEF ApplyInv

\* A step that records itself has done all it had to.
Recorded ==
    /\ Typed' /\ record' \in SUBSET AllFiles /\ OnePerPath(record') /\ IsFiniteSet(record')
    /\ IwdReads' /\ SureAre' /\ HostServed'
    /\ \A p \in Known \ unsure' :
          Settled(p)' \/ (p[1] # Order[at] /\ p \in Known \ unsure /\ (Settled(p) => Settled(p)'))

LEMMA RecordTakes ==
    ASSUME ApplyInv, todo # <<>>, NEW c, c = Head(todo), c.op = "record", Effect(c), wanted' = wanted
    PROVE  Recorded
<1>2. PICK b : b = Order[at]
  OBVIOUS
<1>4. c.path = <<b>>
  BY <1>2, HeadIs DEF IsOf
<1>5. c.path[1] = b
  BY <1>4, FirstIs, Zenon
<1>6. /\ files' = files /\ live' = live /\ aps' = aps /\ opened' = opened /\ beacons' = beacons
      /\ record' = (record \ Of(b, record)) \cup Of(b, wanted) /\ unsure' = unsure \ (moving \ unread)
  BY <1>5 DEF Effect
<1>7. /\ at \in 1..5 /\ b \in Backends /\ wanted \subseteq AllFiles /\ OnePerPath(wanted) /\ wanted \in Wanteds
      /\ moving \subseteq Known /\ moving \subseteq unsure /\ \A p \in moving : p[1] = b
  BY <1>2, HeadIs
<1>9. Phase(c.op) = 4 /\ Phase(c.op) \in 3..4 /\ Phase(c.op) \in 2..4
  <2>1. Phase("record") = 4
    BY PhasesAre
  <2> QED
    BY <2>1, PhaseInts
<1>10. ASSUME NEW p, p[1] = b PROVE At(p, record') = At(p, wanted)
  BY <1>6, <1>10 DEF At, Of
<1>11. ASSUME NEW p, p[1] # b PROVE At(p, record') = At(p, record)
  BY <1>6, <1>11 DEF At, Of
<1>12. Typed' /\ record' \in SUBSET AllFiles /\ OnePerPath(record') /\ IsFiniteSet(record')
  <2>1. record \subseteq AllFiles /\ OnePerPath(record)
    BY DEF ApplyInv, ApplyType
  <2>2. record' \subseteq AllFiles
    BY <1>6, <1>7, <2>1 DEF Of
  <2>3. OnePerPath(record')
    BY <1>6, <1>7, <2>1 DEF Of, OnePerPath
  <2>4. IsFiniteSet(record')
    <3>1. IsFiniteSet(record) /\ IsFiniteSet(wanted)
      BY <1>7, WantedsAre DEF ApplyInv, ApplyType
    <3>2. PICK S, T : S = record \ Of(b, record) /\ T = Of(b, wanted)
      OBVIOUS
    <3>3. S \in SUBSET record /\ T \in SUBSET wanted
      BY <3>2 DEF Of
    <3>4. IsFiniteSet(S) /\ IsFiniteSet(T)
      BY <3>1, <3>3, FS_Subset
    <3>5. IsFiniteSet(S \cup T)
      BY <3>4, FS_Union
    <3> QED
      BY <1>6, <3>2, <3>5
  <2>5. Typed'
    BY <1>6 DEF ApplyInv, ApplyType, Typed
  <2> QED
    BY <2>2, <2>3, <2>4, <2>5
<1>13. IwdReads'
  BY <1>6 DEF ApplyInv, IwdReads
<1>14. ASSUME NEW p \in moving \ unread PROVE At(p, files) = At(p, wanted) /\ (ByItself(p) \/ LiveAt(p) = At(p, wanted))
  <2>1. At(p, files) = At(p, wanted)
    BY <1>9, PutsLeft
  <2>2. WillRead(p)
    BY DEF ApplyInv, GoesOn
  <2>3. \A op, q : Calls(todo, op, q) => Phase(c.op) <= Phase(op)
    BY HeadIs
  <2>4. Phase("pick up") = 3 /\ Phase("start") = 3 /\ Phase("stop") = 1
    BY PhasesAre DEF Ups, Downs
  <2>5. \A q : ~Calls(todo, "pick up", q) /\ ~Calls(todo, "start", q) /\ ~Calls(todo, "stop", q)
    BY <1>9, <2>3, <2>4, PhaseInts, Zenon
  <2> QED
    BY <2>1, <2>2, <2>5 DEF WillRead
<1>15. ASSUME NEW p \in Known \ unsure', p[1] = b
       PROVE  At(p, files) = At(p, wanted) /\ LiveAt(p) = At(p, IF ByItself(p) THEN files ELSE wanted)
  <2>1. CASE p \in moving
    <3>0. p \notin unread
      BY <1>6, <1>7, <2>1
    <3>1. CASE ByItself(p)
      <4>1. p[1] = "iwd" /\ IwdReads
        BY <3>1 DEF ByItself, ApplyInv
      <4>2. At(p, {f \in live["iwd"] : ByItself(f.path)}) = At(p, {f \in files : ByItself(f.path)})
        BY <4>1 DEF IwdReads
      <4>3. At(p, live["iwd"]) = At(p, files)
        BY <3>1, <4>2 DEF At
      <4> QED
        BY <1>14, <2>1, <3>0, <3>1, <4>1, <4>3 DEF LiveAt
    <3>2. CASE ~ByItself(p)
      BY <1>14, <2>1, <3>0, <3>2
    <3> QED
      BY <3>1, <3>2
  <2>2. CASE p \notin moving
    <3>1. p \in Known \ unsure
      BY <1>6, <2>2
    <3>2. Settled(p)
      BY <1>2, <1>15, <3>1, SureIsSettled
    <3>3. LastRead(p)
      BY <3>1 DEF ApplyInv, SureAre
    <3> QED
      BY <3>2, <3>3 DEF Settled, LastRead
  <2> QED
    BY <2>1, <2>2
<1>16. ASSUME NEW p \in Known \ unsure', p[1] # b PROVE p \in Known \ unsure
  BY <1>6, <1>7, <1>16
<1>17. SureAre'
  <2>1. ASSUME NEW p \in Known \ unsure' PROVE At(p, files') \subseteq At(p, record') /\ LastRead(p)'
    <3>1. LiveAt(p)' = LiveAt(p)
      BY <1>6 DEF LiveAt
    <3>2. CASE p[1] = b
      <4>1. At(p, files) = At(p, wanted) /\ LiveAt(p) = At(p, IF ByItself(p) THEN files ELSE wanted)
        BY <1>15, <3>2
      <4>2. At(p, record') = At(p, wanted)
        BY <1>10, <3>2
      <4> QED
        BY <1>6, <3>1, <4>1, <4>2 DEF LastRead
    <3>3. CASE p[1] # b
      <4>1. At(p, files) \subseteq At(p, record) /\ LastRead(p)
        BY <1>16, <3>3 DEF ApplyInv, SureAre
      <4>2. At(p, record') = At(p, record)
        BY <1>11, <3>3
      <4> QED
        BY <1>6, <3>1, <4>1, <4>2 DEF LastRead
    <3> QED
      BY <3>2, <3>3
  <2> QED
    BY <2>1 DEF SureAre
<1>18. ASSUME NEW p \in Known \ unsure'
       PROVE  Settled(p)' \/ (p[1] # Order[at] /\ p \in Known \ unsure /\ (Settled(p) => Settled(p)'))
  <2>1. CASE p[1] = b
    <3>1. At(p, files) = At(p, wanted) /\ At(p, record') = At(p, wanted)
      BY <1>10, <1>15, <2>1
    <3> QED
      BY <1>6, <3>1 DEF Settled
  <2>2. CASE p[1] # b
    <3>1. At(p, record') = At(p, record)
      BY <1>11, <2>2
    <3>2. Settled(p) => Settled(p)'
      BY <1>6, <3>1 DEF Settled
    <3> QED
      BY <1>2, <1>16, <2>2, <3>2
  <2> QED
    BY <2>1, <2>2
<1>19. HostServed'
  <2>1. ASSUME NEW p \in PathsOf(beacons) PROVE p \in PathsOf(files) \cup PathsOf(record')
    <3>1. p[1] = "hostapd"
      BY BeaconsKnown
    <3>2. CASE b = "hostapd"
      <4>1. p \in PathsOf(wanted)
        BY <1>2, <1>9, <3>2, OnesLeft
      <4> QED
        BY <1>6, <3>1, <3>2, <4>1 DEF PathsOf, Of
    <3>3. CASE b # "hostapd"
      <4>1. p \in PathsOf(files) \cup PathsOf(record)
        BY DEF ApplyInv, HostServed
      <4> QED
        BY <1>6, <3>1, <3>3, <4>1 DEF PathsOf, Of
    <3> QED
      BY <3>2, <3>3
  <2>2. HostServed
    BY DEF ApplyInv
  <2> QED
    BY <1>6, <2>1, <2>2 DEF HostServed
<1> QED
  BY <1>12, <1>13, <1>17, <1>18, <1>19 DEF Recorded

LEMMA RecordKeeps ==
    ASSUME ApplyInv, todo # <<>>, DoesCall, Head(todo).op = "record"
    PROVE  ApplyInv'
<1>1. PICK c : c = Head(todo)
  OBVIOUS
<1>2. /\ at # 0 /\ Effect(c) /\ c.op = "record" /\ todo' = Tail(todo)
      /\ at' = at /\ wanted' = wanted /\ result' = result /\ moving' = moving
  BY <1>1 DEF DoesCall
<1>3. Recorded
  BY <1>1, <1>2, RecordTakes
<1>4. todo' = <<>>
  BY <1>1, <1>2, StepsOn
<1>5. ApplyType' /\ Resting'
  <2>1. ApplyType'
    BY <1>2, <1>3 DEF ApplyInv, ApplyType, Recorded, Typed
  <2> QED
    BY <1>2, <2>1 DEF ApplyInv, Resting
<1>6. DoneWith'
  <2>1. ASSUME NEW p \in Known \ unsure', Behind(p)' PROVE Settled(p)'
    <3>1. Behind(p)
      BY <1>2, <2>1 DEF Behind
    <3>2. Settled(p)' \/ (p \in Known \ unsure /\ (Settled(p) => Settled(p)'))
      BY <1>3 DEF Recorded
    <3> QED
      BY <3>1, <3>2 DEF ApplyInv, DoneWith
  <2> QED
    BY <2>1 DEF DoneWith
<1>7. GoesOn'
  BY <1>4 DEF GoesOn
<1> QED
  BY <1>3, <1>5, <1>6, <1>7 DEF ApplyInv, Recorded

\* A call that fails ends the apply.
LEMMA EndsKeeps ==
    ASSUME ApplyInv, Keeps, Ends, record' = record
    PROVE  ApplyInv'
<1>1. /\ at' = 0 /\ todo' = <<>> /\ result' = "failed" /\ moving' = {} /\ wanted' = wanted
  BY DEF Ends
<1>2. SureAre'
  BY <1>1, SureStay
<1>3. ApplyType' /\ Resting'
  <2>1. 0 \in 0..5
    OBVIOUS
  <2>2. at' \in 0..5
    BY <1>1, <2>1
  <2> QED
    BY <1>1, <2>2 DEF ApplyInv, ApplyType, Resting, Keeps, Typed
<1>4. DoneWith'
  BY <1>1 DEF DoneWith, Behind
<1>5. GoesOn'
  BY <1>1 DEF GoesOn
<1> QED
  BY <1>2, <1>3, <1>4, <1>5 DEF ApplyInv, Keeps

LEMMA FailsKeeps ==
    ASSUME ApplyInv, CallFails PROVE ApplyInv'
<1>1. /\ files' = files /\ record' = record /\ live' = live /\ aps' = aps /\ beacons' = beacons /\ opened' = opened
      /\ unsure' = unsure /\ Ends
  BY DEF CallFails
<1>2. Typed' /\ IwdReads' /\ HostServed'
  BY <1>1 DEF ApplyInv, ApplyType, Typed, IwdReads, HostServed
<1>3. \A p : SameAt(p)
  BY <1>1 DEF SameAt, LiveAt
<1>4. Keeps
  BY <1>1, <1>2, <1>3 DEF Keeps
<1> QED
  BY <1>1, <1>4, EndsKeeps

LEMMA FailsLateKeeps ==
    ASSUME ApplyInv, CallFailsLate PROVE ApplyInv'
<1>1. PICK c : c = Head(todo)
  OBVIOUS
<1>2. todo # <<>> /\ Works(c) /\ Ends /\ Effect(c)
  BY <1>1 DEF CallFailsLate
<1>3. CASE c.op # "record"
  <2>1. Keeps
    BY <1>1, <1>2, <1>3, CallKeeps
  <2> QED
    BY <1>2, <2>1, EndsKeeps DEF Keeps
<1>4. CASE c.op = "record"
  <2>1. at' = 0 /\ todo' = <<>> /\ result' = "failed" /\ moving' = {} /\ wanted' = wanted
    BY <1>2 DEF Ends
  <2>2. Recorded
    BY <1>1, <1>2, <1>4, <2>1, RecordTakes
  <2>3. at' \in 0..5
    <3>1. 0 \in 0..5
      OBVIOUS
    <3> QED
      BY <2>1, <3>1
  <2>4. ApplyType' /\ Resting'
    BY <2>1, <2>2, <2>3 DEF ApplyInv, ApplyType, Recorded, Typed, Resting
  <2>5. DoneWith' /\ GoesOn'
    BY <2>1 DEF DoneWith, Behind, GoesOn
  <2> QED
    BY <2>2, <2>4, <2>5 DEF ApplyInv, Recorded
<1> QED
  BY <1>3, <1>4

LEMMA VanishKeeps ==
    ASSUME ApplyInv, FileVanishes PROVE ApplyInv'
<1>1. PICK f \in files \cap record :
         /\ at = 0 /\ result' = "none" /\ f.path \notin unsure /\ files' = files \ {f}
         /\ live' = IF f.path[1] = "iwd" /\ f.path # MainConf
                    THEN [live EXCEPT !["iwd"] = @ \ {f}] ELSE live
         /\ UNCHANGED <<record, aps, beacons, opened, todo, at, wanted, moving, unread, unsure, applies>>
  BY DEF FileVanishes
<1>2. /\ record' = record /\ aps' = aps /\ beacons' = beacons /\ opened' = opened /\ todo' = todo /\ at' = at
      /\ wanted' = wanted /\ moving' = moving /\ unsure' = unsure
  BY <1>1
<1>3. todo = <<>> /\ moving = {}
  BY <1>1 DEF ApplyInv, Resting
<1>4. /\ live \in [Backends -> SUBSET AllFiles] /\ "iwd" \in Backends
      /\ {g \in live["iwd"] : ByItself(g.path)} = {g \in files : ByItself(g.path)}
  BY BackendsAre DEF ApplyInv, ApplyType, IwdReads
<1>5. /\ live' \in [Backends -> SUBSET AllFiles] /\ \A b \in Backends \ {"iwd"} : live'[b] = live[b]
      /\ live'["iwd"] = IF ByItself(f.path) THEN live["iwd"] \ {f} ELSE live["iwd"]
  <2>1. CASE ByItself(f.path)
    <3>1. live' = [live EXCEPT !["iwd"] = live["iwd"] \ {f}]
      BY <1>1, <2>1 DEF ByItself
    <3>2. live["iwd"] \ {f} \in SUBSET AllFiles
      BY <1>4
    <3> QED
      BY <1>4, <2>1, <3>1, <3>2
  <2>2. CASE ~ByItself(f.path)
    <3>1. live' = live
      BY <1>1, <2>2 DEF ByItself
    <3> QED
      BY <1>4, <2>2, <3>1
  <2> QED
    BY <2>1, <2>2
<1>6. IwdReads'
  <2>1. {g \in live'["iwd"] : ByItself(g.path)} = {g \in files' : ByItself(g.path)}
    BY <1>1, <1>4, <1>5
  <2> QED
    BY <2>1 DEF IwdReads
<1>7. ApplyType' /\ Resting'
  <2>1. files' \in SUBSET files /\ IsFiniteSet(files')
    <3>1. files' \in SUBSET files
      BY <1>1
    <3> QED
      BY <3>1, FS_Subset DEF ApplyInv, ApplyType
  <2>2. OnePerPath(files')
    BY <2>1 DEF ApplyInv, ApplyType, OnePerPath
  <2> QED
    BY <1>1, <1>2, <1>3, <1>5, <2>1, <2>2 DEF ApplyInv, ApplyType, Resting
<1>8. SureAre'
  <2>1. ASSUME NEW p \in Known \ unsure PROVE At(p, files') \subseteq At(p, record) /\ LastRead(p)'
    <3>1. At(p, files) \subseteq At(p, record) /\ LastRead(p) /\ p[1] \in Backends
      BY KnownAre DEF ApplyInv, SureAre, PathIs
    <3>2. CASE ByItself(p)
      <4>1. p[1] = "iwd"
        BY <3>2 DEF ByItself
      <4>2. At(p, {g \in live'["iwd"] : ByItself(g.path)}) = At(p, {g \in files' : ByItself(g.path)})
        BY <1>6 DEF IwdReads
      <4>3. At(p, live'["iwd"]) = At(p, files')
        BY <3>2, <4>2 DEF At
      <4> QED
        BY <1>1, <3>1, <3>2, <4>1, <4>3 DEF LastRead, LiveAt, At
    <3>3. CASE ~ByItself(p)
      <4>1. LiveAt(p)' = LiveAt(p)
        <5>1. CASE p[1] = "hostapd"
          BY <1>2, <5>1 DEF LiveAt
        <5>2. CASE p[1] \notin {"hostapd", "iwd"}
          <6>1. live'[p[1]] = live[p[1]]
            BY <1>5, <3>1, <5>2
          <6> QED
            BY <5>2, <6>1 DEF LiveAt
        <5>3. CASE p[1] = "iwd"
          <6>1. At(p, live'["iwd"]) = At(p, live["iwd"])
            BY <1>5, <3>3 DEF At
          <6> QED
            BY <5>3, <6>1 DEF LiveAt
        <5> QED
          BY <5>1, <5>2, <5>3
      <4> QED
        BY <1>1, <1>2, <3>1, <3>3, <4>1 DEF LastRead, At
    <3> QED
      BY <3>2, <3>3
  <2> QED
    BY <1>2, <2>1 DEF SureAre
<1>9. DoneWith'
  BY <1>1, <1>2 DEF DoneWith, Behind
<1>10. HostServed'
  <2>1. PathsOf(files) \cup PathsOf(record) = PathsOf(files') \cup PathsOf(record)
    BY <1>1 DEF PathsOf
  <2> QED
    BY <1>2, <2>1 DEF ApplyInv, HostServed
<1>11. GoesOn'
  BY <1>2, <1>3 DEF GoesOn
<1> QED
  BY <1>6, <1>7, <1>8, <1>9, <1>10, <1>11 DEF ApplyInv

LEMMA RebootKeeps ==
    ASSUME ApplyInv, Reboots PROVE ApplyInv'
<1>1. /\ files' = {} /\ record' = {} /\ live' = [b \in Backends |-> {}]
      /\ aps' = {} /\ beacons' = {} /\ todo' = <<>> /\ at' = 0 /\ result' = "none" /\ moving' = {} /\ wanted' = wanted
  BY DEF Reboots
<1>2. 0 \in 0..5 /\ "iwd" \in Backends
  BY BackendsAre
<1>3. ApplyType' /\ Resting' /\ IwdReads'
  <2>1. live' \in [Backends -> SUBSET AllFiles] /\ live'["iwd"] = {}
    BY <1>1, <1>2
  <2>2. \A S : S = {} => OnePerPath(S) /\ IsFiniteSet(S)
    BY FS_EmptySet DEF OnePerPath
  <2>3. ApplyType'
    BY <1>1, <1>2, <2>1, <2>2 DEF ApplyInv, ApplyType
  <2> QED
    BY <1>1, <2>1, <2>3 DEF Resting, IwdReads
<1>4. SureAre'
  <2>1. ASSUME NEW p \in Known PROVE At(p, files') \subseteq At(p, record') /\ LastRead(p)'
    <3>1. p[1] \in Backends
      BY <2>1, KnownAre DEF PathIs
    <3>2. live'[p[1]] = {}
      BY <1>1, <3>1
    <3>3. At(p, {}) = {}
      BY DEF At
    <3>4. LiveAt(p)' = {}
      BY <1>1, <3>2, <3>3 DEF LiveAt
    <3> QED
      BY <1>1, <3>3, <3>4 DEF LastRead
  <2> QED
    BY <2>1 DEF SureAre
<1>5. DoneWith' /\ GoesOn'
  BY <1>1 DEF DoneWith, Behind, GoesOn
<1>6. HostServed'
  BY <1>1 DEF HostServed, PathsOf
<1> QED
  BY <1>3, <1>4, <1>5, <1>6 DEF ApplyInv

LEMMA ApplyInvBegins == ASSUME ApplyInit PROVE ApplyInv
<1>1. /\ files = {} /\ record = {} /\ live = [b \in Backends |-> {}]
      /\ aps = {} /\ beacons = {} /\ todo = <<>> /\ at = 0 /\ result = "none" /\ moving = {} /\ wanted = {}
  BY DEF ApplyInit
<1>2. 0 \in 0..5 /\ "iwd" \in Backends
  BY BackendsAre
<1>3. ApplyType /\ Resting /\ IwdReads
  <2>1. live \in [Backends -> SUBSET AllFiles] /\ live["iwd"] = {}
    BY <1>1, <1>2
  <2>2. \A S : S = {} => OnePerPath(S) /\ IsFiniteSet(S)
    BY FS_EmptySet DEF OnePerPath
  <2>3. ApplyType
    BY <1>1, <1>2, <2>1, <2>2 DEF ApplyType
  <2> QED
    BY <1>1, <2>1, <2>3 DEF Resting, IwdReads
<1>4. SureAre
  <2>1. ASSUME NEW p \in Known PROVE At(p, files) \subseteq At(p, record) /\ LastRead(p)
    <3>1. p[1] \in Backends
      BY <2>1, KnownAre DEF PathIs
    <3>2. live[p[1]] = {}
      BY <1>1, <3>1
    <3>3. At(p, {}) = {}
      BY DEF At
    <3>4. LiveAt(p) = {}
      BY <1>1, <3>2, <3>3 DEF LiveAt
    <3> QED
      BY <1>1, <3>3, <3>4 DEF LastRead
  <2> QED
    BY <2>1 DEF SureAre
<1>5. DoneWith /\ GoesOn
  BY <1>1 DEF DoneWith, Behind, GoesOn
<1>6. HostServed
  BY <1>1 DEF HostServed, PathsOf
<1> QED
  BY <1>3, <1>4, <1>5, <1>6 DEF ApplyInv

\* The step an apply goes on to.
LEMMA OrderIs == Len(Order) = 5 /\ 5 \in Nat /\ Backends = {Order[i] : i \in 1..5}
<1>1. Len(Order) = 5
  BY DEF Order
<1> QED
  BY <1>1 DEF Backends

LEMMA NextIs ==
    ASSUME NEW i \in 0..5, NEW w, NEW n, n = NextAt(i, w)
    PROVE  \/ n = 0 /\ \A j \in (i + 1)..5 : ~Changed(Order[j], w)
           \/ n \in (i + 1)..5 /\ Changed(Order[n], w) /\ \A j \in (i + 1)..5 : j < n => ~Changed(Order[j], w)
<1>1. PICK on : on = {j \in (i + 1)..5 : Changed(Order[j], w)}
  OBVIOUS
<1>2. n = IF on = {} THEN 0 ELSE CHOOSE j \in on : \A k \in on : j <= k
  BY <1>1, OrderIs DEF NextAt
<1>3. on \subseteq Nat
  BY <1>1
<1>4. CASE on = {}
  BY <1>1, <1>2, <1>4
<1>5. CASE on # {}
  <2>1. \E j \in on : \A k \in on : j <= k
    BY <1>3, <1>5, LeastOfNats
  <2>2. n \in on /\ \A k \in on : n <= k
    BY <1>2, <1>5, <2>1
  <2> QED
    BY <1>1, <2>2
<1> QED
  BY <1>4, <1>5

LEMMA LeftAlone ==
    ASSUME ApplyInv, NEW w \in Wanteds, NEW p \in Known \ unsure, NEW b, p[1] = b,
           p \notin PathsOf(WrittenOf(b, w)), p \notin RemovedOf(b, w)
    PROVE  At(p, files) = At(p, w) /\ At(p, record) = At(p, w)
<1>1. OnePerPath(w)
  BY WantedsAre
<1>2. OnePerPath(record) /\ At(p, files) \subseteq At(p, record)
  BY DEF ApplyInv, ApplyType, SureAre
<1>3. CASE p \in PathsOf(w)
  <2>1. PICK f \in w : f.path = p
    BY <1>3 DEF PathsOf
  <2>2. f \in record /\ p \in PathsOf(files)
    BY <2>1 DEF WrittenOf, Of, PathsOf
  <2>3. At(p, w) = {f} /\ At(p, record) = {f}
    BY <1>1, <1>2, <2>1, <2>2 DEF At, OnePerPath
  <2>4. At(p, files) # {}
    BY <2>2 DEF At, PathsOf
  <2> QED
    BY <1>2, <2>3, <2>4
<1>4. CASE p \notin PathsOf(w)
  <2>1. p \notin PathsOf(record)
    BY <1>4 DEF RemovedOf, Stale
  <2>2. At(p, record) = {} /\ At(p, w) = {}
    BY <1>4, <2>1 DEF At, PathsOf
  <2> QED
    BY <1>2, <2>2
<1> QED
  BY <1>3, <1>4

LEMMA StepOfIs ==
    ASSUME ApplyInv, NEW w \in Wanteds, NEW b \in Backends, NEW t, t = StepOf(b, WrittenOf(b, w), RemovedOf(b, w))
    PROVE  /\ IsStep(t, b, w, WrittenOf(b, w), RemovedOf(b, w))
           /\ PathsOf(WrittenOf(b, w)) \cup RemovedOf(b, w) \subseteq Known
           /\ \A p \in PathsOf(WrittenOf(b, w)) \cup RemovedOf(b, w) : p[1] = b
           /\ RemovedOf(b, w) \cap PathsOf(w) = {}
<1>1. PICK written, removed : written = WrittenOf(b, w) /\ removed = RemovedOf(b, w)
  OBVIOUS
<1>2. IsFiniteSet(w) /\ w \subseteq AllFiles /\ PathsOf(w) \subseteq Known
  BY WantedsAre
<1>3. written \in SUBSET w /\ IsFiniteSet(written)
  <2>1. written \in SUBSET w
    BY <1>1 DEF WrittenOf, Of
  <2> QED
    BY <1>2, <2>1, FS_Subset
<1>4. /\ removed \cap PathsOf(w) = {} /\ removed \subseteq PathsOf(files) \cup PathsOf(record)
      /\ \A p \in removed : p[1] = b
  BY <1>1 DEF RemovedOf, Stale, Owned, PathsOf
<1>5. files \subseteq AllFiles /\ record \subseteq AllFiles /\ IsFiniteSet(files) /\ IsFiniteSet(record)
  BY DEF ApplyInv, ApplyType
<1>6. removed \in SUBSET Known
  BY <1>4, <1>5 DEF Known, PathsOf
<1>7. IsFiniteSet(removed)
  <2>1. \A S : IsFiniteSet(S) => IsFiniteSet(PathsOf(S))
    <3> SUFFICES ASSUME NEW S, IsFiniteSet(S) PROVE IsFiniteSet(PathsOf(S))
      OBVIOUS
    <3>1. PICK g : g = [f \in S |-> f.path]
      OBVIOUS
    <3>2. IsFiniteSet({g[f] : f \in S})
      BY ImageIsFinite
    <3>3. PathsOf(S) = {g[f] : f \in S}
      BY <3>1 DEF PathsOf
    <3> QED
      BY <3>2, <3>3
  <2>2. PICK S, T : S = PathsOf(files) /\ T = PathsOf(record)
    OBVIOUS
  <2>3. IsFiniteSet(S) /\ IsFiniteSet(T)
    BY <1>5, <2>1, <2>2
  <2>4. IsFiniteSet(S \cup T)
    BY <2>3, FS_Union
  <2>5. removed \in SUBSET (S \cup T)
    BY <1>4, <2>2
  <2> QED
    BY <2>4, <2>5, FS_Subset
<1>8. w \in SUBSET AllFiles /\ t = StepOf(b, written, removed)
  BY <1>1, <1>2
<1>9. IsStep(t, b, w, written, removed)
  BY <1>3, <1>4, <1>6, <1>7, <1>8, StepIs
<1>10. PathsOf(written) \subseteq Known /\ \A p \in PathsOf(written) : p[1] = b
  BY <1>1, <1>2 DEF WrittenOf, Of, PathsOf
<1> QED
  BY <1>1, <1>4, <1>6, <1>9, <1>10

\* The invariant through the step an apply goes on to, or the end it comes
\* to, with all before it done.
LEMMA StartsKeeps ==
    ASSUME ApplyInv, NEW w \in Wanteds, wanted' = w, NEW n, n = NextAt(at, w), StartsStep(n, w),
           UNCHANGED <<files, record, live, aps, beacons, opened>>,
           \A p \in Known \ unsure : (\E i \in 1..at : Order[i] = p[1]) => At(p, files) = At(p, w) /\ At(p, record) = At(p, w)
    PROVE  ApplyInv'
<1>1. /\ files' = files /\ record' = record /\ live' = live /\ aps' = aps /\ beacons' = beacons /\ opened' = opened
  OBVIOUS
<1>2. at \in 0..5
  BY DEF ApplyInv, ApplyType
<1>3. PICK i \in 0..5 : i = at
  BY <1>2
<1>4. \/ n = 0 /\ \A j \in (i + 1)..5 : ~Changed(Order[j], w)
      \/ n \in (i + 1)..5 /\ Changed(Order[n], w) /\ \A j \in (i + 1)..5 : j < n => ~Changed(Order[j], w)
  BY <1>3, NextIs
<1>5. unsure \subseteq unsure'
  BY DEF StartsStep
<1>6. IwdReads' /\ HostServed'
  BY <1>1 DEF ApplyInv, IwdReads, HostServed
<1>7. SureAre'
  <2>1. \A p : LastRead(p)' <=> LastRead(p)
    BY <1>1 DEF LastRead, LiveAt
  <2> QED
    BY <1>1, <1>5, <2>1 DEF ApplyInv, SureAre
<1>8. ASSUME NEW p \in Known \ unsure, NEW j \in 1..5, Order[j] = p[1],
             j <= i \/ ~Changed(Order[j], w) \/ p \notin PathsOf(WrittenOf(Order[j], w)) \cup RemovedOf(Order[j], w)
      PROVE  At(p, files) = At(p, w) /\ At(p, record) = At(p, w)
  <2>1. CASE j <= i
    BY <1>3, <1>8, <2>1
  <2>2. CASE ~(j <= i)
    <3>1. p \notin PathsOf(WrittenOf(Order[j], w)) /\ p \notin RemovedOf(Order[j], w)
      BY <1>8, <2>2 DEF Changed, PathsOf
    <3> QED
      BY <1>8, <3>1, LeftAlone
  <2> QED
    BY <2>1, <2>2
<1>9. CASE n = 0
  <2>1. at' = 0 /\ todo' = <<>> /\ result' = "ok" /\ moving' = {} /\ unsure' = unsure
    BY <1>9 DEF StartsStep
  <2>2. \A j \in (i + 1)..5 : ~Changed(Order[j], w)
    BY <1>4, <1>9
  <2>3. ASSUME NEW p \in Known \ unsure PROVE Settled(p)'
    <3>1. p[1] \in Backends
      BY <2>3, KnownAre DEF PathIs
    <3>2. PICK j \in 1..5 : Order[j] = p[1]
      BY <3>1, OrderIs
    <3>3. j <= i \/ ~Changed(Order[j], w)
      <4>1. j <= i \/ j \in (i + 1)..5
        OBVIOUS
      <4> QED
        BY <2>2, <4>1
    <3> QED
      BY <1>1, <1>8, <3>2, <3>3 DEF Settled
  <2>4. DoneWith'
    BY <2>1, <2>3 DEF DoneWith
  <2>5. ApplyType'
    <3>1. 0 \in 0..5
      OBVIOUS
    <3> QED
      BY <1>1, <2>1, <3>1 DEF ApplyInv, ApplyType
  <2>6. Resting' /\ GoesOn'
    BY <2>1 DEF Resting, GoesOn
  <2> QED
    BY <1>6, <1>7, <2>4, <2>5, <2>6 DEF ApplyInv
<1>10. CASE n # 0
  <2>1. n \in (i + 1)..5 /\ \A j \in (i + 1)..5 : j < n => ~Changed(Order[j], w)
    BY <1>4, <1>10
  <2>2. n \in 1..5 /\ n \in 0..5
    BY <2>1
  <2>3. PICK b \in Backends : b = Order[n]
    BY <2>2, OrderIs
  <2>4. PICK written, removed : written = WrittenOf(b, w) /\ removed = RemovedOf(b, w)
    OBVIOUS
  <2>5. PICK m : m = PathsOf(written) \cup removed
    OBVIOUS
  <2>6. PICK t : t = StepOf(b, WrittenOf(b, w), RemovedOf(b, w))
    OBVIOUS
  <2>7. at' = n /\ result' = "none" /\ todo' = t /\ moving' = m /\ unsure' = unsure \cup m
    <3>1. /\ at' = n /\ result' = "none" /\ todo' = StepOf(Order[n], WrittenOf(Order[n], w), RemovedOf(Order[n], w))
          /\ moving' = PathsOf(WrittenOf(Order[n], w)) \cup RemovedOf(Order[n], w) /\ unsure' = unsure \cup moving'
      BY <1>10 DEF StartsStep
    <3> QED
      BY <2>3, <2>4, <2>5, <2>6, <3>1
  <2>8. IsStep(t, b, w, written, removed) /\ m \subseteq Known /\ (\A p \in m : p[1] = b) /\ removed \cap PathsOf(w) = {}
    BY <2>4, <2>5, <2>6, StepOfIs
  <2>9. DoneWith'
    <3>1. ASSUME NEW p \in Known \ unsure', Behind(p)' PROVE Settled(p)'
      <4>1. PICK j \in 1..n : Order[j] = p[1]
        BY <1>10, <2>7, <3>1 DEF Behind
      <4>2. j \in 1..5 /\ (j <= i \/ j = n \/ ~Changed(Order[j], w))
        <5>1. j \in 1..5 /\ (j <= i \/ j = n \/ (j \in (i + 1)..5 /\ j < n))
          BY <2>1
        <5> QED
          BY <2>1, <5>1
      <4>3. p \in Known \ unsure /\ p \notin m
        BY <2>7, <3>1
      <4>4. j = n => p \notin PathsOf(WrittenOf(Order[j], w)) \cup RemovedOf(Order[j], w)
        BY <2>3, <2>4, <2>5, <4>3
      <4>5. At(p, files) = At(p, w) /\ At(p, record) = At(p, w)
        BY <1>8, <4>1, <4>2, <4>3, <4>4
      <4> QED
        BY <1>1, <4>5 DEF Settled
    <3> QED
      BY <3>1 DEF DoneWith
  <2>10. ApplyType'
    BY <1>1, <2>2, <2>7, <2>8 DEF ApplyInv, ApplyType
  <2>11. Resting'
    BY <1>10, <2>3, <2>7, <2>8 DEF Resting
  <2>12. IsPlan(t, b, w, m) /\ Led(t, "close", "stop") /\ Led(t, "start", "open")
    BY <2>5, <2>8 DEF IsStep
  <2>13. Stopped(t, beacons) /\ Opened(t, opened)
    BY <2>12 DEF Led, Stopped, Opened
  <2>14. ASSUME b = "hostapd", NEW q \in PathsOf(beacons), q \notin PathsOf(w) PROVE Calls(t, "stop", q)
    <3>1. q[1] = "hostapd" /\ q \in PathsOf(files) \cup PathsOf(record)
      BY <2>14, BeaconsKnown DEF ApplyInv, HostServed
    <3>2. q \in PathsOf(Owned) \cup PathsOf(record)
      BY <3>1 DEF Owned, PathsOf
    <3>3. q \in removed
      BY <2>4, <2>14, <3>1, <3>2 DEF RemovedOf, Stale
    <3> QED
      BY <2>8, <2>14, <3>3 DEF IsStep
  <2>15. ASSUME NEW p \in m PROVE Calls(t, "write", p) \/ Calls(t, "remove", p)
    BY <2>5, <2>8, <2>15 DEF IsStep, PathsOf
  <2>16. ASSUME NEW p \in m, ~ByItself(p)
         PROVE  Calls(t, "pick up", <<p[1]>>) \/ Calls(t, "start", p) \/ Calls(t, "stop", p)
    <3>1. p[1] = b
      BY <2>8
    <3>2. CASE b = "hostapd"
      BY <2>5, <2>8, <3>2 DEF IsStep, PathsOf
    <3>3. CASE b # "hostapd"
      <4>1. \/ b \in {"networkd", "resolved"}
            \/ b = "regdom" /\ written # {}
            \/ b = "iwd" /\ MainConf \in PathsOf(written) \cup removed
        <5>1. CASE b = "regdom"
          <6>1. p \in PathsOf(w)
            BY <2>8, <3>1, <5>1, KnownAre DEF PathIs
          <6>2. p \in PathsOf(written)
            BY <2>5, <2>8, <6>1
          <6> QED
            BY <5>1, <6>2 DEF PathsOf
        <5>2. CASE b = "iwd"
          <6>1. p = MainConf
            BY <2>16, <3>1, <5>2 DEF ByItself
          <6> QED
            BY <2>5, <5>2, <6>1
        <5> QED
          BY <3>3, <5>1, <5>2, BackendsAre
      <4>2. Calls(t, "pick up", <<b>>)
        BY <2>8, <4>1 DEF IsStep
      <4> QED
        BY <3>1, <4>2
    <3> QED
      BY <3>2, <3>3
  <2>17. GoesOn'
    <3>1. WillStop'
      BY <1>1, <2>3, <2>7, <2>14 DEF WillStop
    <3>2. ASSUME NEW p \in m PROVE WillPut(p)' /\ WillRead(p)'
      <4>1. WillPut(p)'
        BY <2>7, <2>15 DEF WillPut
      <4>2. WillRead(p)'
        BY <2>7, <2>16 DEF WillRead
      <4> QED
        BY <4>1, <4>2
    <3>3. moving' \subseteq unsure'
      BY <2>7
    <3>4. IsPlan(todo', Order[at'], wanted', moving')
      BY <2>3, <2>7, <2>12
    <3>5. Stopped(todo', beacons') /\ Opened(todo', opened') /\ at' # 0
      BY <1>1, <1>10, <2>7, <2>13
    <3> QED
      BY <2>7, <3>1, <3>2, <3>3, <3>4, <3>5 DEF GoesOn
  <2> QED
    BY <1>6, <1>7, <2>9, <2>10, <2>11, <2>17 DEF ApplyInv
<1> QED
  BY <1>9, <1>10

LEMMA AppliesKeeps ==
    ASSUME ApplyInv, NEW w \in Wanteds, Applies(w) PROVE ApplyInv'
<1>1. /\ at = 0 /\ wanted' = w /\ UNCHANGED <<files, record, live, aps, beacons, opened>>
      /\ StartsStep(NextAt(0, w), w)
  BY DEF Applies
<1>2. PICK n : n = NextAt(at, w)
  OBVIOUS
<1>3. StartsStep(n, w)
  BY <1>1, <1>2
<1>4. \A i \in 1..at : FALSE
  BY <1>1
<1> QED
  BY <1>1, <1>2, <1>3, <1>4, StartsKeeps

LEMMA StepDoneKeeps ==
    ASSUME ApplyInv, StepDone PROVE ApplyInv'
<1>1. /\ at # 0 /\ wanted' = wanted /\ UNCHANGED <<files, record, live, aps, beacons, opened>>
      /\ StartsStep(NextAt(at, wanted), wanted)
  BY DEF StepDone
<1>2. wanted \in Wanteds
  BY <1>1 DEF ApplyInv, Resting
<1>3. PICK w \in Wanteds : w = wanted
  BY <1>2
<1>4. PICK n : n = NextAt(at, w)
  OBVIOUS
<1>5. StartsStep(n, w)
  BY <1>1, <1>3, <1>4
<1>6. \A p \in Known \ unsure : (\E i \in 1..at : Order[i] = p[1]) => At(p, files) = At(p, w) /\ At(p, record) = At(p, w)
  BY <1>1, <1>3 DEF ApplyInv, DoneWith, Behind, Settled
<1> QED
  BY <1>1, <1>3, <1>4, <1>5, <1>6, StartsKeeps

LEMMA ApplyInvStays ==
    ASSUME ApplyInv, [ApplyNext]_applyVars PROVE ApplyInv'
<1>1. ASSUME NEW r \in Renderings, Applies(Render(r.doc, r.sel)) PROVE ApplyInv'
  <2>1. Render(r.doc, r.sel) \in Wanteds
    BY DEF Wanteds
  <2> QED
    BY <1>1, <2>1, AppliesKeeps
<1>2. CASE DoesCall
  <2>1. todo # <<>>
    BY <1>2 DEF DoesCall
  <2> QED
    BY <1>2, <2>1, KeepsOn, RecordKeeps
<1>3. CASE StepDone
  BY <1>3, StepDoneKeeps
<1>4. CASE CallFails
  BY <1>4, FailsKeeps
<1>5. CASE CallFailsLate
  BY <1>5, FailsLateKeeps
<1>6. CASE FileVanishes
  BY <1>6, VanishKeeps
<1>7. CASE Reboots
  BY <1>7, RebootKeeps
<1>8. CASE UNCHANGED applyVars
  BY <1>8 DEF applyVars, ApplyInv, ApplyType, Resting, IwdReads, SureAre, LastRead, LiveAt, DoneWith, Behind, Settled,
              HostServed, GoesOn, WillStop, WillPut, WillRead
<1> QED
  BY <1>1, <1>2, <1>3, <1>4, <1>5, <1>6, <1>7, <1>8 DEF ApplyNext

LEMMA ApplyInvServes == ASSUME ApplyInv PROVE AppliedIsServed
<1>1. PickedUp
  <2> SUFFICES ASSUME result = "ok", NEW p \in AllPaths \ unsure PROVE Runs(p)
    BY DEF PickedUp
  <2>1. at = 0
    BY DEF ApplyInv, Resting
  <2>2. files \subseteq AllFiles /\ beacons \subseteq AllFiles /\ live \in [Backends -> SUBSET AllFiles] /\ wanted \subseteq AllFiles
    BY DEF ApplyInv, ApplyType, AllFiles
  <2>3. p \in Known
    <3>1. UNION {live[b] : b \in Backends} \subseteq AllFiles
      BY <2>2
    <3> QED
      BY <2>2, <3>1 DEF AllPaths, PathsOf, Known
  <2>4. Settled(p) /\ LastRead(p)
    BY <2>1, <2>3 DEF ApplyInv, DoneWith, Behind, SureAre
  <2> QED
    BY <2>4 DEF Settled, LastRead, Runs
<1>2. OneHotspotServed
  <2>1. \A f, g \in beacons : f = g
    BY DEF ApplyInv, ApplyType, HostServed, OnePerPath
  <2>2. Cardinality(beacons) <= 1
    <3>1. CASE beacons = {}
      <4>1. Cardinality({}) = 0
        BY FS_EmptySet
      <4> QED
        BY <3>1, <4>1
    <3>2. CASE beacons # {}
      <4>1. PICK f \in beacons : TRUE
        BY <3>2
      <4>2. beacons = {f}
        BY <2>1, <4>1
      <4>3. Cardinality({f}) = 1
        BY FS_Singleton
      <4> QED
        BY <4>2, <4>3
    <3> QED
      BY <3>1, <3>2
  <2> QED
    BY <2>2 DEF OneHotspotServed, ApplyInv, HostServed
<1> QED
  BY <1>1, <1>2 DEF AppliedIsServed

\* However an apply ends, what it recorded is running, but for a hotspot
\* started where one was running, and the hotspot is one and served
\* (Step::run, Step::hostapd, Record::save).
THEOREM ServedAlways == ApplySpec => []AppliedIsServed
<1>1. ApplyInit => ApplyInv
  BY ApplyInvBegins
<1>2. ApplyInv /\ [ApplyNext]_applyVars => ApplyInv'
  BY ApplyInvStays
<1>3. ApplyInv => AppliedIsServed
  BY ApplyInvServes
<1> QED
  BY <1>1, <1>2, <1>3, PTL DEF ApplySpec
=============================================================================
