---------------------------- MODULE DeviceProofs ----------------------------
\* What is proved of the parts of the device that face its clients and its
\* operator, for any values of their constants.  Of DeviceLink: a client
\* that leaves ends no channel but its own, a session reads what its
\* client writes, and the device comes back on the air.  Of Pacing: the
\* sessions together keep to the rate.  Of WebPage: a page holds what it
\* says it does.  Of FrontPanel, ProvisionConsole and ProvisionSteps: the
\* panel is honest, the console asks of what is, the board is safe.
EXTENDS DeviceLink, Pacing, WebPage, FrontPanel, ProvisionConsole, ProvisionSteps,
        FiniteSetTheorems, WellFoundedInduction, TLAPS

Stages == {"subscribed", "open", "draining", "ending", "closing"}
SessionRecs ==
    [id : Nat \ {0}, client : Clients, conn : Nat \ {0}, slot : SlotSet, open : BOOLEAN, at : Stages,
     queued : Nat, ended : BOOLEAN, missed : BOOLEAN]

ConnType == conn \in [Clients -> Nat] /\ told \in [Clients -> 0..SlotCount] /\ sink \in [Clients -> Nat]
SlotType ==
    /\ held \in [SlotSet -> Clients \cup {"none"}]
    /\ alloc \in [client : Clients \cup {"none"}, conn : Nat, at : Nat, gone : BOOLEAN]
    /\ alloc # NoAlloc => alloc.client \in Clients /\ alloc.conn # 0
    /\ alloc.gone => alloc.at \in SlotSet
AdvType ==
    /\ adv \in {"registering", "registered", "failed", "settling", "stopping", "down", "starting"}
    /\ onAir \in BOOLEAN /\ permit \in BOOLEAN /\ offBy \in Nat /\ seen \in SUBSET Nat
    /\ linkMade \in [connects : Nat, sessions : Nat, writes : Nat, faults : Nat]
LinkType == ConnType /\ SlotType /\ AdvType /\ sessions \subseteq SessionRecs

\* Connections and sessions are numbered as they are made.
Numbered ==
    /\ \A s, t \in sessions : s.id = t.id => s = t
    /\ \A s \in sessions : s.id <= linkMade.sessions /\ s.conn <= linkMade.connects
    /\ \A c \in Clients : conn[c] <= linkMade.connects
    /\ alloc.conn <= linkMade.connects
    /\ \A n \in seen : n <= linkMade.connects

\* A client told a slot on its connection holds it.
ToldIsHeld == \A c \in Clients : told[c] # 0 => conn[c] # 0 /\ held[told[c]] = c

\* A client subscribed is connected and holds the slot, and is so once.
Subscribed ==
    /\ \A s \in sessions : s.open => conn[s.client] # 0 /\ held[s.slot] = s.client
    /\ \A s, t \in sessions : s.open /\ t.open /\ s.client = t.client => s = t
    /\ \A s \in sessions : s.at \in {"ending", "closing"} => ~s.open

\* A holder found gone has been told no slot since, for the lock is held.
GoneIsGone ==
    alloc.gone => \A c \in Clients :
        held[alloc.at] = c => told[c] = 0 /\ \A s \in sessions : s.client = c => ~s.open

\* What a client's writes are delivered to is the one session of it that
\* reads on.
ReadOn ==
    /\ \A c \in Clients : sink[c] # 0 =>
         \E s \in sessions : s.id = sink[c] /\ s.client = c /\ s.at = "open" /\ ~s.ended
    /\ \A s \in sessions : (s.missed => s.ended) /\ (s.at = "subscribed" => ~s.ended)
    /\ IsHeard

\* Nothing is served while the daemon is down.
DownIsEmpty ==
    ~Serving => sessions = {} /\ alloc = NoAlloc /\ \A c \in Clients : told[c] = 0

LinkInv ==
    LinkType /\ Numbered /\ ToldIsHeld /\ Subscribed /\ GoneIsGone /\ ReadOn /\ DownIsEmpty /\ ComesBackOnAir

\* The link starts within its invariant.
LEMMA LinkInitInv == LinkInit => LinkInv
<1> SUFFICES ASSUME LinkInit PROVE LinkInv
  OBVIOUS
<1>1. SlotCount \in Nat \ {0} /\ "none" \notin Clients
  BY LinkAssumption
<1>2. ConnType /\ SlotType
  BY <1>1 DEF LinkInit, ConnType, SlotType, NoAlloc
<1>3. AdvType
  BY DEF LinkInit, AdvType
<1>4. sessions = {} /\ alloc = NoAlloc /\ NoAlloc.conn = 0 /\ NoAlloc.gone = FALSE
  BY DEF LinkInit, NoAlloc
<1>5. Numbered
  BY <1>4 DEF LinkInit, Numbered
<1>6. ToldIsHeld /\ Subscribed /\ GoneIsGone /\ ReadOn /\ DownIsEmpty /\ ComesBackOnAir
  BY <1>4 DEF LinkInit, ToldIsHeld, Subscribed, GoneIsGone, ReadOn, IsHeard, DownIsEmpty, Serving, ComesBackOnAir
<1> QED
  BY <1>2, <1>3, <1>4, <1>5, <1>6 DEF LinkInv, LinkType
-----------------------------------------------------------------------------
\* What may become of the sessions in a step that opens none: each goes on
\* as itself, no more subscribed than it was, or goes.
Follows(t, s) ==
    t.id = s.id /\ t.client = s.client /\ t.conn = s.conn /\ t.slot = s.slot /\ (t.open => s.open)

Narrows ==
    /\ sessions' \subseteq SessionRecs
    /\ \A t \in sessions' : \E s \in sessions : Follows(t, s)
    /\ \A t, u \in sessions' : t.id = u.id => t = u
    /\ \A t \in sessions' : t.at \in {"ending", "closing"} => ~t.open

\* A step that only narrows what sessions are open to keeps the relations.
LEMMA NarrowsKeep ==
    ASSUME LinkInv, Narrows, UNCHANGED <<conn, told, held, alloc>>,
           linkMade'.sessions = linkMade.sessions, linkMade'.connects = linkMade.connects,
           \A n \in seen' : n \in seen \/ \E s \in sessions : n = s.conn
    PROVE  Numbered' /\ ToldIsHeld' /\ Subscribed' /\ GoneIsGone'
<1>1. Numbered /\ ToldIsHeld /\ Subscribed /\ GoneIsGone
  BY DEF LinkInv
<1>2. Numbered'
  BY <1>1 DEF Narrows, Follows, Numbered
<1>3. ToldIsHeld'
  BY <1>1 DEF ToldIsHeld
<1>4. Subscribed'
  <2>1. \A t, u \in sessions' : t.open /\ u.open /\ t.client = u.client => t = u
    <3> SUFFICES ASSUME NEW t \in sessions', NEW u \in sessions', t.open, u.open, t.client = u.client
                 PROVE  t.id = u.id
      BY DEF Narrows
    <3>1. PICK s \in sessions : Follows(t, s)
      BY DEF Narrows
    <3>2. PICK r \in sessions : Follows(u, r)
      BY DEF Narrows
    <3>3. s = r
      BY <1>1, <3>1, <3>2 DEF Follows, Subscribed
    <3> QED
      BY <3>1, <3>2, <3>3 DEF Follows
  <2>2. \A t \in sessions' : t.open => conn'[t.client] # 0 /\ held'[t.slot] = t.client
    BY <1>1 DEF Narrows, Follows, Subscribed
  <2> QED
    BY <2>1, <2>2 DEF Subscribed, Narrows
<1>5. GoneIsGone'
  BY <1>1 DEF GoneIsGone, Narrows, Follows
<1> QED
  BY <1>2, <1>3, <1>4, <1>5

\* One session becoming another of its number.
LEMMA BecomesNarrows ==
    ASSUME LinkInv, NEW s \in sessions, NEW t \in SessionRecs, Becomes(s, t), Follows(t, s),
           t.at \in {"ending", "closing"} => ~t.open
    PROVE  Narrows
<1>1. sessions \subseteq SessionRecs /\ Numbered /\ Subscribed
  BY DEF LinkInv, LinkType
<1>2. \A u \in sessions' : u = t \/ (u \in sessions /\ u # s)
  BY DEF Becomes
<1>3. \A u \in sessions' : u \in SessionRecs
  BY <1>1, <1>2
<1>4. \A u \in sessions' : \E r \in sessions : Follows(u, r)
  BY <1>2 DEF Follows
<1>5. \A u, v \in sessions' : u.id = v.id => u = v
  BY <1>1, <1>2 DEF Follows, Numbered
<1>6. \A u \in sessions' : u.at \in {"ending", "closing"} => ~u.open
  BY <1>1, <1>2 DEF Subscribed
<1> QED
  BY <1>3, <1>4, <1>5, <1>6 DEF Narrows

\* Sessions closed are as they were, but for what they hear of.
LEMMA ClosedIs ==
    ASSUME NEW ss, ss \subseteq SessionRecs, NEW closing
    PROVE  /\ Closed(ss, closing) \subseteq SessionRecs
           /\ \A t \in Closed(ss, closing) : \E s \in ss :
                /\ Follows(t, s) /\ (t.open => s \notin closing)
                /\ t.at = s.at /\ t.ended = s.ended /\ t.missed = s.missed
           /\ \A s \in ss : \E t \in Closed(ss, closing) :
                t.id = s.id /\ t.client = s.client /\ t.at = s.at /\ t.ended = s.ended
           /\ (\A s, r \in ss : s.id = r.id => s = r) =>
                \A t, u \in Closed(ss, closing) : t.id = u.id => t = u
<1> DEFINE shut(s) == IF s \in closing THEN [s EXCEPT !.open = FALSE] ELSE s
<1>1. \A s \in ss : /\ shut(s) \in SessionRecs /\ Follows(shut(s), s) /\ (shut(s).open => s \notin closing)
                    /\ shut(s).at = s.at /\ shut(s).ended = s.ended /\ shut(s).missed = s.missed
  BY DEF SessionRecs, Follows
<1>2. Closed(ss, closing) = {shut(s) : s \in ss}
  BY DEF Closed
<1> HIDE DEF shut
<1>3. \A t \in Closed(ss, closing) : \E s \in ss : t = shut(s)
  BY <1>2
<1>4. \A s \in ss : shut(s) \in Closed(ss, closing)
  BY <1>2
<1>5. Closed(ss, closing) \subseteq SessionRecs
  BY <1>1, <1>3
<1>6. \A t \in Closed(ss, closing) : \E s \in ss :
        /\ Follows(t, s) /\ (t.open => s \notin closing)
        /\ t.at = s.at /\ t.ended = s.ended /\ t.missed = s.missed
  BY <1>1, <1>3
<1>7. \A s \in ss : \E t \in Closed(ss, closing) : t.id = s.id /\ t.client = s.client /\ t.at = s.at /\ t.ended = s.ended
  BY <1>1, <1>4 DEF Follows
<1>8. ASSUME \A s, r \in ss : s.id = r.id => s = r, NEW t \in Closed(ss, closing), NEW u \in Closed(ss, closing), t.id = u.id
      PROVE  t = u
  <2>1. PICK s \in ss : t = shut(s)
    BY <1>3
  <2>2. PICK r \in ss : u = shut(r)
    BY <1>3
  <2>3. s.id = r.id
    BY <1>1, <1>8, <2>1, <2>2 DEF Follows
  <2> QED
    BY <1>8, <2>1, <2>2, <2>3
<1> QED
  BY <1>5, <1>6, <1>7, <1>8

\* A closing of some sessions, and the going of one that no longer reads.
LEMMA ClosedNarrows ==
    ASSUME LinkInv, NEW ss \in SUBSET sessions, NEW closing, sessions' = Closed(ss, closing), UNCHANGED sink,
           \A s \in sessions \ ss : s.at \in {"ending", "closing"}
    PROVE  Narrows /\ ReadOn' /\ \A t \in sessions' : t.open => \E s \in ss : Follows(t, s) /\ s \notin closing
<1>1. ss \subseteq SessionRecs /\ Numbered /\ Subscribed /\ ReadOn
  BY DEF LinkInv, LinkType
<1>2. \A s, r \in ss : s.id = r.id => s = r
  BY <1>1 DEF Numbered
<1>3. \A t \in sessions' : \E s \in ss :
        /\ Follows(t, s) /\ (t.open => s \notin closing)
        /\ t.at = s.at /\ t.ended = s.ended /\ t.missed = s.missed
  BY <1>1, ClosedIs
<1>4. \A s \in ss : \E t \in sessions' : t.id = s.id /\ t.client = s.client /\ t.at = s.at /\ t.ended = s.ended
  BY <1>1, ClosedIs
<1>5. sessions' \subseteq SessionRecs /\ \A t, u \in sessions' : t.id = u.id => t = u
  BY <1>1, <1>2, ClosedIs
<1>6. \A t \in sessions' : t.at \in {"ending", "closing"} => ~t.open
  BY <1>1, <1>3 DEF Subscribed, Follows
<1>7. Narrows
  BY <1>3, <1>5, <1>6 DEF Narrows
<1>8. ReadOn'
  <2>1. \A c \in Clients : sink'[c] # 0 => \E t \in sessions' : t.id = sink'[c] /\ t.client = c /\ t.at = "open" /\ ~t.ended
    <3> SUFFICES ASSUME NEW c \in Clients, sink[c] # 0
                 PROVE  \E t \in sessions' : t.id = sink[c] /\ t.client = c /\ t.at = "open" /\ ~t.ended
      OBVIOUS
    <3>1. PICK s \in sessions : s.id = sink[c] /\ s.client = c /\ s.at = "open" /\ ~s.ended
      BY <1>1 DEF ReadOn
    <3>2. s \in ss
      BY <3>1
    <3> QED
      BY <1>4, <3>1, <3>2
  <2>2. \A t \in sessions' : (t.missed => t.ended) /\ (t.at = "subscribed" => ~t.ended)
    BY <1>1, <1>3 DEF ReadOn
  <2>3. IsHeard'
    BY <1>1, <1>3 DEF ReadOn, IsHeard, Follows
  <2> QED
    BY <2>1, <2>2, <2>3 DEF ReadOn
<1> QED
  BY <1>3, <1>7, <1>8

\* A session that reads on, or did not, still does or does not.
LEMMA BecomesReadsOn ==
    ASSUME LinkInv, NEW s \in sessions, NEW t \in SessionRecs, Becomes(s, t), UNCHANGED sink,
           t.id = s.id, t.client = s.client, t.missed => t.ended, t.at # "subscribed",
           (t.at = "open" /\ ~t.ended) <=> (s.at = "open" /\ ~s.ended)
    PROVE  ReadOn'
<1>1. ReadOn /\ t \in sessions' /\ \A u \in sessions' : u = t \/ u \in sessions
  BY DEF LinkInv, Becomes
<1>2. \A r \in sessions : r = s \/ r \in sessions'
  BY DEF Becomes
<1>3. \A c \in Clients : sink'[c] # 0 => \E u \in sessions' : u.id = sink'[c] /\ u.client = c /\ u.at = "open" /\ ~u.ended
  BY <1>1, <1>2 DEF ReadOn
<1>4. IsHeard'
  BY <1>1 DEF ReadOn, IsHeard
<1> QED
  BY <1>1, <1>3, <1>4 DEF ReadOn

\* A session that stops reading is delivered nothing more, and no other
\* session of its client is the worse for it (gatt.rs, remove).
LEMMA StopsReading ==
    ASSUME LinkInv, NEW s \in sessions, NEW t \in SessionRecs, Becomes(s, t), sink' = Removed(s),
           t.id = s.id, t.client = s.client, t.missed => t.ended, t.at # "subscribed", ~(t.at = "open" /\ ~t.ended)
    PROVE  ReadOn' /\ sink' \in [Clients -> Nat]
<1>1. ReadOn /\ Numbered /\ sink \in [Clients -> Nat] /\ s.client \in Clients
  BY DEF LinkInv, LinkType, ConnType, SessionRecs
<1>2. t \in sessions' /\ \A u \in sessions' : u = t \/ (u \in sessions /\ u # s)
  BY DEF Becomes
<1>3. \A r \in sessions : r = s \/ r \in sessions'
  BY DEF Becomes
<1>4. /\ sink' \in [Clients -> Nat]
      /\ \A c \in Clients : sink'[c] = IF c = s.client /\ sink[c] = s.id THEN 0 ELSE sink[c]
  BY <1>1 DEF Removed
<1>5. ASSUME NEW c \in Clients, sink'[c] # 0
      PROVE  \E u \in sessions' : u.id = sink'[c] /\ u.client = c /\ u.at = "open" /\ ~u.ended
  <2>1. sink'[c] = sink[c] /\ ~(c = s.client /\ sink[c] = s.id)
    BY <1>4, <1>5
  <2>2. PICK r \in sessions : r.id = sink[c] /\ r.client = c /\ r.at = "open" /\ ~r.ended
    BY <1>1, <1>5, <2>1 DEF ReadOn
  <2> QED
    BY <1>3, <2>1, <2>2
<1>6. IsHeard'
  <2> SUFFICES ASSUME NEW u \in sessions', u.at = "open", ~u.ended
               PROVE  sink'[u.client] = u.id
    BY DEF IsHeard
  <2>1. u \in sessions /\ u # s /\ u.client \in Clients
    BY <1>2 DEF LinkInv, LinkType, SessionRecs
  <2> QED
    BY <1>1, <1>4, <2>1 DEF ReadOn, IsHeard, Numbered
<1> QED
  BY <1>1, <1>2, <1>4, <1>5, <1>6 DEF ReadOn

\* A client gone, and its subscription with it, its own and no other: the
\* head of the slot it is subscribed to is its own.
LEMMA HeadsAreItsOwn ==
    ASSUME LinkInv, NEW c \in Clients
    PROVE  \A s \in sessions : s \in Heads(c) <=> s.open /\ s.client = c
<1> SUFFICES ASSUME NEW s \in sessions PROVE s \in Heads(c) <=> s.open /\ s.client = c
  OBVIOUS
<1>1. Subscribed
  BY DEF LinkInv
<1>2. ASSUME s \in Heads(c) PROVE s.open /\ s.client = c
  BY <1>1, <1>2 DEF Heads, Subscribed
<1>3. ASSUME s.open, s.client = c PROVE s \in Heads(c)
  <2>1. \A t \in sessions : (t.open /\ t.slot = s.slot) => t = s
    BY <1>1, <1>3 DEF Subscribed
  <2>2. s.id \in Nat
    BY DEF LinkInv, LinkType, SessionRecs
  <2>3. \A t \in sessions : (t.open /\ t.slot = s.slot) => s.id <= t.id
    BY <2>1, <2>2
  <2> QED
    BY <1>3, <2>3 DEF Heads
<1> QED
  BY <1>2, <1>3

\* A connection dropped closes its heads, and no other session.
LEMMA DropKeeps ==
    ASSUME LinkInv, NEW c \in Clients, NEW ss \in SUBSET sessions, Dropped(c, ss), UNCHANGED <<held, alloc, sink>>,
           \A s \in sessions \ ss : s.at \in {"ending", "closing"},
           linkMade' = linkMade, seen' = seen
    PROVE  ConnType' /\ (sessions \subseteq SessionRecs)' /\ Numbered' /\ ToldIsHeld' /\ Subscribed' /\ GoneIsGone' /\ ReadOn'
<1>1. /\ Narrows /\ ReadOn'
      /\ \A t \in sessions' : t.open => \E s \in ss : Follows(t, s) /\ s \notin Heads(c)
  BY ClosedNarrows DEF Dropped
<1>2. ConnType /\ Numbered /\ ToldIsHeld /\ Subscribed /\ GoneIsGone
  BY DEF LinkInv, LinkType
<1>3. ConnType' /\ conn' = [conn EXCEPT ![c] = 0] /\ told' = [told EXCEPT ![c] = 0]
  <2>1. conn' = [conn EXCEPT ![c] = 0] /\ told' = [told EXCEPT ![c] = 0] /\ sink' = sink
    BY DEF Dropped
  <2>2. 0 \in Nat /\ 0 \in 0..SlotCount
    BY LinkAssumption
  <2>3. conn' \in [Clients -> Nat] /\ told' \in [Clients -> 0..SlotCount] /\ sink' \in [Clients -> Nat]
    BY <1>2, <2>1, <2>2 DEF ConnType
  <2> QED
    BY <2>1, <2>3 DEF ConnType
<1>4. \A t \in sessions' : t.open => t.client # c /\ \E s \in sessions : Follows(t, s) /\ s.open
  BY <1>1, HeadsAreItsOwn DEF Follows
<1>5. Numbered'
  <2>1. \A t \in sessions' : t.id <= linkMade'.sessions /\ t.conn <= linkMade'.connects
    BY <1>1, <1>2 DEF Narrows, Follows, Numbered
  <2>2. 0 <= linkMade.connects
    BY DEF LinkInv, LinkType, AdvType
  <2>3. \A d \in Clients : conn'[d] <= linkMade'.connects
    BY <1>2, <1>3, <2>2 DEF Numbered, ConnType
  <2> QED
    BY <1>1, <1>2, <2>1, <2>3 DEF Narrows, Numbered
<1>6. ToldIsHeld'
  BY <1>2, <1>3 DEF ToldIsHeld, ConnType
<1>7. Subscribed'
  <2>1. \A t \in sessions' : t.open => conn'[t.client] # 0 /\ held'[t.slot] = t.client
    <3> SUFFICES ASSUME NEW t \in sessions', t.open PROVE conn'[t.client] # 0 /\ held'[t.slot] = t.client
      OBVIOUS
    <3>1. t.client \in Clients /\ t.client # c
      BY <1>1, <1>4 DEF Narrows, SessionRecs
    <3>2. conn'[t.client] = conn[t.client]
      BY <1>2, <1>3, <3>1 DEF ConnType
    <3> QED
      BY <1>2, <1>4, <3>2 DEF Subscribed, Follows
  <2>2. \A t, u \in sessions' : t.open /\ u.open /\ t.client = u.client => t = u
    <3> SUFFICES ASSUME NEW t \in sessions', NEW u \in sessions', t.open, u.open, t.client = u.client PROVE t.id = u.id
      BY <1>1 DEF Narrows
    <3>1. PICK s \in sessions : Follows(t, s) /\ s.open
      BY <1>4
    <3>2. PICK r \in sessions : Follows(u, r) /\ r.open
      BY <1>4
    <3> QED
      BY <1>2, <3>1, <3>2 DEF Subscribed, Follows
  <2> QED
    BY <1>1, <2>1, <2>2 DEF Subscribed, Narrows
<1>8. GoneIsGone'
  <2> SUFFICES ASSUME alloc.gone, NEW d \in Clients, held[alloc.at] = d
               PROVE  told'[d] = 0 /\ \A t \in sessions' : t.client = d => ~t.open
    BY DEF GoneIsGone
  <2>1. told[d] = 0 /\ \A s \in sessions : s.client = d => ~s.open
    BY <1>2 DEF GoneIsGone
  <2>2. told'[d] = 0
    BY <1>2, <1>3, <2>1 DEF ConnType
  <2> QED
    BY <1>1, <2>1, <2>2 DEF Narrows, Follows
<1> QED
  BY <1>1, <1>3, <1>5, <1>6, <1>7, <1>8 DEF Narrows

\* A step that leaves the air alone, and notifies the loop of whatever it
\* serves or turns away.
LEMMA AirSame ==
    ASSUME LinkInv, UNCHANGED <<adv, onAir, offBy, linkMade>>, permit' \in BOOLEAN, seen' \in SUBSET Nat,
           permit' = TRUE \/ (permit' = permit /\ seen' = seen)
    PROVE  AdvType' /\ ComesBackOnAir' /\ (Serving <=> Serving')
BY DEF LinkInv, LinkType, AdvType, ComesBackOnAir, Serving

\* A step of a session that leaves the slots and the connections alone.
LEMMA SessionStep ==
    ASSUME LinkInv, Narrows, ReadOn', sink' \in [Clients -> Nat],
           UNCHANGED <<conn, told, held, alloc, adv, onAir, offBy, linkMade>>,
           permit' = TRUE \/ permit' = permit,
           seen' = seen \/ (permit' = TRUE /\ \E s \in sessions : seen' = seen \cup {s.conn})
    PROVE  LinkInv'
<1>1. LinkType /\ DownIsEmpty
  BY DEF LinkInv
<1>2. \A s \in sessions : s.conn \in Nat
  BY <1>1 DEF LinkType, SessionRecs
<1>3. permit' \in BOOLEAN /\ seen' \in SUBSET Nat /\ (permit' = TRUE \/ (permit' = permit /\ seen' = seen))
  BY <1>1, <1>2 DEF LinkType, AdvType
<1>4. AdvType' /\ ComesBackOnAir' /\ (Serving <=> Serving')
  BY <1>3, AirSame
<1>5. Numbered' /\ ToldIsHeld' /\ Subscribed' /\ GoneIsGone'
  <2>1. \A n \in seen' : n \in seen \/ \E s \in sessions : n = s.conn
    OBVIOUS
  <2> QED
    BY <2>1, NarrowsKeep
<1>6. DownIsEmpty'
  BY <1>1, <1>4 DEF DownIsEmpty, Narrows
<1>7. ConnType' /\ SlotType'
  BY <1>1 DEF LinkType, ConnType, SlotType, NoAlloc
<1> QED
  BY <1>4, <1>5, <1>6, <1>7 DEF LinkInv, LinkType, Narrows

\* A session that no longer reads, or has yet to, going.
LEMMA GoingNarrows ==
    ASSUME LinkInv, NEW s \in sessions, sessions' = sessions \ {s}, UNCHANGED sink, s.at # "open"
    PROVE  Narrows /\ ReadOn'
<1>1. sessions \subseteq SessionRecs /\ Numbered /\ Subscribed /\ ReadOn
  BY DEF LinkInv, LinkType
<1>2. Narrows
  BY <1>1 DEF Narrows, Follows, Numbered, Subscribed
<1>3. \A c \in Clients : sink'[c] # 0 => \E u \in sessions' : u.id = sink'[c] /\ u.client = c /\ u.at = "open" /\ ~u.ended
  BY <1>1 DEF ReadOn
<1>4. IsHeard'
  BY <1>1 DEF ReadOn, IsHeard
<1> QED
  BY <1>1, <1>2, <1>3, <1>4 DEF ReadOn
-----------------------------------------------------------------------------
\* The steps of a session keep the invariant.
LEMMA OpensKeeps == ASSUME LinkInv, NEW s \in sessions, Opens(s) PROVE LinkInv'
<1>1. sessions \subseteq SessionRecs /\ Numbered /\ Subscribed /\ ReadOn /\ sink \in [Clients -> Nat]
  BY DEF LinkInv, LinkType, ConnType
<1>2. CASE held[s.slot] # s.client
  <2>1. sessions' = sessions \ {s} /\ UNCHANGED sink /\ s.at # "open" /\ UNCHANGED <<permit, seen>>
    BY <1>2 DEF Opens
  <2>2. Narrows /\ ReadOn'
    BY <2>1, GoingNarrows
  <2> QED
    BY <1>1, <2>1, <2>2, SessionStep DEF Opens
<1>3. CASE held[s.slot] = s.client
  <2> DEFINE next(t) == IF t = s THEN [s EXCEPT !.at = "open"]
                        ELSE IF t.id = sink[s.client] THEN [t EXCEPT !.ended = TRUE] ELSE t
  <2>1. /\ sessions' = {next(t) : t \in sessions}
        /\ sink' = [sink EXCEPT ![s.client] = s.id]
        /\ permit' = TRUE /\ seen' = seen \cup {s.conn} /\ s.at = "subscribed"
        /\ UNCHANGED <<conn, told, held, alloc, adv, onAir, linkMade, offBy>>
    BY <1>3 DEF Opens
  <2>2. s.client \in Clients /\ s.id \in Nat \ {0}
    BY <1>1 DEF SessionRecs
  <2>3. sink' \in [Clients -> Nat] /\ \A c \in Clients : sink'[c] = IF c = s.client THEN s.id ELSE sink[c]
    BY <1>1, <2>1, <2>2
  <2>4. \A t \in sessions : next(t) \in SessionRecs
    BY <1>1 DEF SessionRecs, Stages
  <2>5. \A t \in sessions : Follows(next(t), t) /\ (next(t).missed => t.missed) /\ (t.ended => next(t).ended)
    BY <1>1 DEF Follows, SessionRecs
  <2>6. \A t \in sessions : t # s => next(t).at = t.at
    BY <1>1 DEF SessionRecs
  <2>7. next(s).at = "open" /\ next(s).ended = s.ended /\ next(s).missed = s.missed
    BY <1>1 DEF SessionRecs
  <2>8. \A t \in sessions : t # s /\ t.id = sink[s.client] => next(t).ended
    BY <1>1 DEF SessionRecs
  <2>9. \A t \in sessions : t # s /\ t.id # sink[s.client] => next(t) = t
    OBVIOUS
  <2>10. ~s.ended /\ next(s).id = s.id /\ next(s).client = s.client
    BY <1>1, <2>1, <2>5 DEF ReadOn, Follows
  <2> HIDE DEF next
  <2>11. \A t \in sessions' : \E r \in sessions : t = next(r)
    BY <2>1
  <2>12. \A r \in sessions : next(r) \in sessions'
    BY <2>1
  <2>13. Narrows
    <3>1. sessions' \subseteq SessionRecs /\ \A t \in sessions' : \E r \in sessions : Follows(t, r)
      BY <2>4, <2>5, <2>11
    <3>2. \A t, u \in sessions' : t.id = u.id => t = u
      <4> SUFFICES ASSUME NEW t \in sessions', NEW u \in sessions', t.id = u.id PROVE t = u
        OBVIOUS
      <4>1. PICK r \in sessions : t = next(r)
        BY <2>11
      <4>2. PICK q \in sessions : u = next(q)
        BY <2>11
      <4>3. r.id = q.id
        BY <2>5, <4>1, <4>2 DEF Follows
      <4> QED
        BY <1>1, <4>1, <4>2, <4>3 DEF Numbered
    <3>3. \A t \in sessions' : t.at \in {"ending", "closing"} => ~t.open
      <4> SUFFICES ASSUME NEW t \in sessions', t.at \in {"ending", "closing"} PROVE ~t.open
        OBVIOUS
      <4>1. PICK r \in sessions : t = next(r)
        BY <2>11
      <4>2. r.at = t.at /\ (t.open => r.open)
        BY <2>5, <2>6, <2>7, <4>1 DEF Follows
      <4> QED
        BY <1>1, <4>2 DEF Subscribed
    <3> QED
      BY <3>1, <3>2, <3>3 DEF Narrows
  <2>14. ReadOn'
    <3>1. ASSUME NEW c \in Clients, sink'[c] # 0
          PROVE  \E u \in sessions' : u.id = sink'[c] /\ u.client = c /\ u.at = "open" /\ ~u.ended
      <4>1. CASE c = s.client
        BY <2>3, <2>7, <2>10, <2>12, <4>1
      <4>2. CASE c # s.client
        <5>1. PICK r \in sessions : r.id = sink[c] /\ r.client = c /\ r.at = "open" /\ ~r.ended
          BY <1>1, <2>3, <3>1, <4>2 DEF ReadOn
        <5>2. r # s /\ r.id # sink[s.client]
          <6> SUFFICES ASSUME r.id = sink[s.client] PROVE FALSE
            BY <4>2, <5>1
          <6>1. sink[s.client] # 0
            BY <5>1, <2>3, <3>1, <4>2
          <6>2. PICK q \in sessions : q.id = sink[s.client] /\ q.client = s.client
            BY <1>1, <2>2, <6>1 DEF ReadOn
          <6> QED
            BY <1>1, <4>2, <5>1, <6>2 DEF Numbered
        <5>3. next(r) = r
          BY <2>9, <5>2
        <5> QED
          BY <2>3, <2>12, <4>2, <5>1, <5>3
      <4> QED
        BY <4>1, <4>2
    <3>2. ASSUME NEW u \in sessions'
          PROVE  (u.missed => u.ended) /\ (u.at = "subscribed" => ~u.ended)
      <4>1. PICK r \in sessions : u = next(r)
        BY <2>11
      <4>2. u.missed => u.ended
        BY <1>1, <2>5, <4>1 DEF ReadOn
      <4>3. CASE r = s
        BY <2>7, <4>1, <4>2, <4>3
      <4>4. CASE r # s /\ r.id = sink[s.client]
        <5>1. PICK q \in sessions : q.id = r.id /\ q.at = "open"
          BY <1>1, <2>2, <4>4 DEF ReadOn, SessionRecs
        <5>2. r.at = "open"
          BY <1>1, <5>1 DEF Numbered
        <5> QED
          BY <2>6, <4>1, <4>2, <4>4, <5>2
      <4>5. CASE r # s /\ r.id # sink[s.client]
        BY <1>1, <2>9, <4>1, <4>2, <4>5 DEF ReadOn
      <4> QED
        BY <4>3, <4>4, <4>5
    <3>3. ASSUME NEW u \in sessions', u.at = "open", ~u.ended
          PROVE  sink'[u.client] = u.id
      <4>1. PICK r \in sessions : u = next(r)
        BY <2>11
      <4>2. CASE r = s
        BY <2>2, <2>3, <2>10, <4>1, <4>2
      <4>3. CASE r # s
        <5>1. r.id # sink[s.client] /\ u = r
          BY <2>8, <2>9, <3>3, <4>1, <4>3
        <5>2. sink[r.client] = r.id /\ r.client \in Clients
          BY <1>1, <3>3, <5>1 DEF ReadOn, IsHeard, SessionRecs
        <5> QED
          BY <2>3, <5>1, <5>2
      <4> QED
        BY <4>2, <4>3
    <3> QED
      BY <3>1, <3>2, <3>3 DEF ReadOn, IsHeard
  <2> QED
    BY <2>1, <2>3, <2>13, <2>14, SessionStep
<1> QED
  BY <1>2, <1>3

\* A session ending of itself (transport.rs, the session task).
LEMMA SessionEndsKeeps == ASSUME LinkInv, NEW s \in sessions, SessionEnds(s) PROVE LinkInv'
<1> DEFINE t == [s EXCEPT !.at = "draining", !.queued = 0]
<1>1. sessions \subseteq SessionRecs /\ ReadOn
  BY DEF LinkInv, LinkType
<1>2. t \in SessionRecs /\ Follows(t, s) /\ t.at = "draining" /\ t.missed = s.missed /\ t.ended = s.ended
  BY <1>1 DEF SessionRecs, Stages, Follows
<1>3. Becomes(s, t) /\ sink' = Removed(s)
  BY DEF SessionEnds
<1> HIDE DEF t
<1>4. Narrows
  BY <1>2, <1>3, BecomesNarrows
<1>5. ReadOn' /\ sink' \in [Clients -> Nat]
  BY <1>1, <1>2, <1>3, StopsReading DEF Follows, ReadOn
<1> QED
  BY <1>4, <1>5, SessionStep DEF SessionEnds

\* What a session last wrote has had its time to go out.
LEMMA DrainedKeeps == ASSUME LinkInv, NEW s \in sessions, Drained(s) PROVE LinkInv'
<1> DEFINE t == [s EXCEPT !.at = "ending", !.open = FALSE]
<1>1. sessions \subseteq SessionRecs /\ ReadOn /\ sink \in [Clients -> Nat]
  BY DEF LinkInv, LinkType, ConnType
<1>2. /\ t \in SessionRecs /\ Follows(t, s) /\ t.at = "ending" /\ ~t.open
      /\ t.missed = s.missed /\ t.ended = s.ended
  BY <1>1 DEF SessionRecs, Stages, Follows
<1>3. Becomes(s, t) /\ sink' = sink /\ s.at = "draining"
  BY DEF Drained
<1> HIDE DEF t
<1>4. Narrows
  BY <1>2, <1>3, BecomesNarrows
<1>5. ReadOn'
  BY <1>1, <1>2, <1>3, BecomesReadsOn DEF Follows, ReadOn
<1> QED
  BY <1>1, <1>4, <1>5, SessionStep DEF Drained

\* The pump notices that the client has gone.
LEMMA LeavesKeeps == ASSUME LinkInv, NEW s \in sessions, Leaves(s) PROVE LinkInv'
<1> DEFINE t == [s EXCEPT !.at = "ending", !.queued = 0]
<1>1. sessions \subseteq SessionRecs /\ ReadOn
  BY DEF LinkInv, LinkType
<1>2. /\ t \in SessionRecs /\ Follows(t, s) /\ t.at = "ending" /\ t.open = s.open
      /\ t.missed = s.missed /\ t.ended = s.ended
  BY <1>1 DEF SessionRecs, Stages, Follows
<1>3. Becomes(s, t) /\ sink' = Removed(s) /\ ~s.open
  BY DEF Leaves
<1> HIDE DEF t
<1>4. Narrows
  BY <1>2, <1>3, BecomesNarrows
<1>5. ReadOn' /\ sink' \in [Clients -> Nat]
  BY <1>1, <1>2, <1>3, StopsReading DEF Follows, ReadOn
<1> QED
  BY <1>4, <1>5, SessionStep DEF Leaves

\* A session that is over looks whether its client is still connected.
LEMMA LooksKeeps == ASSUME LinkInv, NEW s \in sessions, Looks(s) PROVE LinkInv'
<1> DEFINE t == [s EXCEPT !.at = "closing"]
<1>1. sessions \subseteq SessionRecs /\ Subscribed /\ ReadOn /\ sink \in [Clients -> Nat]
  BY DEF LinkInv, LinkType, ConnType
<1>2. /\ t \in SessionRecs /\ Follows(t, s) /\ t.at = "closing" /\ t.open = s.open
      /\ t.missed = s.missed /\ t.ended = s.ended
  BY <1>1 DEF SessionRecs, Stages, Follows
<1>3. s.at = "ending" /\ ~s.open /\ sink' = sink
  BY <1>1 DEF Looks, Subscribed
<1>4. CASE conn[s.client] # 0
  <2>1. Becomes(s, t) /\ UNCHANGED permit
    BY <1>4 DEF Looks
  <2> HIDE DEF t
  <2>2. Narrows
    BY <1>2, <1>3, <2>1, BecomesNarrows
  <2>3. ReadOn'
    BY <1>1, <1>2, <1>3, <2>1, BecomesReadsOn DEF Follows, ReadOn
  <2> QED
    BY <1>1, <2>1, <2>2, <2>3, SessionStep DEF Looks
<1>5. CASE conn[s.client] = 0
  <2>1. sessions' = sessions \ {s} /\ permit' = TRUE
    BY <1>5 DEF Looks
  <2>2. Narrows /\ ReadOn'
    BY <1>3, <2>1, GoingNarrows
  <2> QED
    BY <1>1, <2>1, <2>2, SessionStep DEF Looks
<1> QED
  BY <1>4, <1>5

\* A session reads a chunk from its queue.
LEMMA ReadsChunkKeeps == ASSUME LinkInv, NEW s \in sessions, ReadsChunk(s) PROVE LinkInv'
<1> DEFINE t == [s EXCEPT !.queued = @ - 1]
<1>1. sessions \subseteq SessionRecs /\ ReadOn /\ sink \in [Clients -> Nat]
  BY DEF LinkInv, LinkType, ConnType
<1>2. Becomes(s, t) /\ sink' = sink /\ s.at = "open" /\ s.queued > 0
  BY DEF ReadsChunk
<1>3. /\ t \in SessionRecs /\ Follows(t, s) /\ t.at = s.at /\ t.open = s.open
      /\ t.missed = s.missed /\ t.ended = s.ended
  BY <1>1, <1>2 DEF SessionRecs, Stages, Follows
<1> HIDE DEF t
<1>4. Narrows
  BY <1>2, <1>3, BecomesNarrows
<1>5. ReadOn'
  BY <1>1, <1>2, <1>3, BecomesReadsOn DEF Follows, ReadOn
<1> QED
  BY <1>1, <1>4, <1>5, SessionStep DEF ReadsChunk

\* A step that drops a client leaves everything but the air in order.
LEMMA DropStep ==
    ASSUME LinkInv, NEW c \in Clients, NEW ss \in SUBSET sessions, Dropped(c, ss),
           UNCHANGED <<held, alloc, sink, adv, onAir, linkMade, offBy, seen>>,
           \A s \in sessions \ ss : s.at \in {"ending", "closing"},
           permit' = TRUE \/ permit' = permit
    PROVE  LinkInv'
<1>1. ConnType' /\ (sessions \subseteq SessionRecs)' /\ Numbered' /\ ToldIsHeld' /\ Subscribed' /\ GoneIsGone' /\ ReadOn'
  BY DropKeeps
<1>2. LinkType /\ DownIsEmpty
  BY DEF LinkInv
<1>3. AdvType' /\ ComesBackOnAir' /\ (Serving <=> Serving')
  <2>1. permit' \in BOOLEAN /\ seen' \in SUBSET Nat
    BY <1>2 DEF LinkType, AdvType
  <2> QED
    BY <2>1, AirSame
<1>4. SlotType'
  BY <1>2 DEF LinkType, SlotType, NoAlloc
<1>5. DownIsEmpty'
  <2> SUFFICES ASSUME ~Serving PROVE sessions' = {} /\ alloc' = NoAlloc /\ \A d \in Clients : told'[d] = 0
    BY <1>3 DEF DownIsEmpty, NoAlloc
  <2>1. sessions = {} /\ alloc = NoAlloc /\ \A d \in Clients : told[d] = 0
    BY <1>2 DEF DownIsEmpty
  <2>2. sessions' = {}
    BY <2>1 DEF Dropped, Closed
  <2>3. \A d \in Clients : told'[d] = 0
    BY <1>2, <2>1 DEF Dropped, LinkType, ConnType
  <2> QED
    BY <2>1, <2>2, <2>3
<1> QED
  BY <1>1, <1>3, <1>4, <1>5 DEF LinkInv, LinkType

\* A session that is over disconnects its client, and is gone.
LEMMA EndsKeeps == ASSUME LinkInv, NEW s \in sessions, Ends(s) PROVE LinkInv'
<1>1. s.client \in Clients
  BY DEF LinkInv, LinkType, SessionRecs
<1>2. \A r \in sessions \ (sessions \ {s}) : r.at \in {"ending", "closing"}
  BY DEF Ends
<1>3. sessions \ {s} \in SUBSET sessions
  OBVIOUS
<1> QED
  BY <1>1, <1>2, <1>3, DropStep DEF Ends

\* A connection is lost, and the heads of its sessions close.
LEMMA DisconnectsKeeps == ASSUME LinkInv, NEW c \in Clients, Disconnects(c) PROVE LinkInv'
<1>1. \A r \in sessions \ sessions : r.at \in {"ending", "closing"}
  OBVIOUS
<1> QED
  BY <1>1, DropStep DEF Disconnects

\* A client that unsubscribes.
LEMMA UnsubscribesKeeps == ASSUME LinkInv, NEW c \in Clients, Unsubscribes(c) PROVE LinkInv'
<1>1. \A r \in sessions \ sessions : r.at \in {"ending", "closing"}
  OBVIOUS
<1>2. Narrows /\ ReadOn'
  BY <1>1, ClosedNarrows DEF Unsubscribes
<1>3. sink \in [Clients -> Nat]
  BY DEF LinkInv, LinkType, ConnType
<1> QED
  BY <1>2, <1>3, SessionStep DEF Unsubscribes
-----------------------------------------------------------------------------
\* The first of some slots is one of them.
LEMMA FirstIsOne == ASSUME NEW ns \in SUBSET SlotSet, ns # {} PROVE First(ns) \in ns /\ First(ns) \in SlotSet
<1> DEFINE R == {ss \in Nat \X Nat : ss[1] < ss[2]}
<1>1. ns \subseteq Nat
  BY LinkAssumption DEF SlotSet
<1>2. IsWellFoundedOn(R, Nat)
  BY NatLessThanWellFounded DEF OpToRel
<1> HIDE DEF R
<1>3. PICK m \in ns : \A k \in ns : ~(<<k, m>> \in R)
  BY <1>1, <1>2, WFMin
<1>4. \A k \in ns : ~(k < m)
  BY <1>1, <1>3 DEF R
<1>5. \A k \in ns : m <= k
  BY <1>1, <1>4
<1> QED
  BY <1>5 DEF First

\* A step of the allocation, or of a client in it, that touches neither
\* sessions nor connections: the parts it leaves as they are.
LEMMA SessionsSame ==
    ASSUME LinkInv, UNCHANGED <<conn, sessions, sink, linkMade>>,
           \A n \in seen' : n <= linkMade.connects, alloc'.conn <= linkMade.connects
    PROVE  Numbered' /\ ReadOn' /\ (sessions \subseteq SessionRecs)'
<1>1. Numbered /\ ReadOn /\ sessions \subseteq SessionRecs
  BY DEF LinkInv, LinkType
<1>2. Numbered'
  BY <1>1 DEF Numbered
<1>3. ReadOn'
  BY <1>1 DEF ReadOn, IsHeard
<1> QED
  BY <1>1, <1>2, <1>3
-----------------------------------------------------------------------------
\* The steps of the allocation keep the invariant.
LEMMA AsksKeeps == ASSUME LinkInv, Asks PROVE LinkInv'
<1>1. LinkType /\ Numbered /\ ToldIsHeld /\ Subscribed /\ GoneIsGone /\ DownIsEmpty
  BY DEF LinkInv
<1>2. /\ alloc # NoAlloc /\ alloc.at \in SlotSet /\ ~alloc.gone
      /\ alloc' = IF conn[held[alloc.at]] = 0 THEN [alloc EXCEPT !.gone = TRUE] ELSE [alloc EXCEPT !.at = @ + 1]
      /\ UNCHANGED <<conn, told, held, sessions, sink, adv, onAir, permit, linkMade, offBy, seen>>
  BY DEF Asks
<1>3. /\ alloc'.client = alloc.client /\ alloc'.conn = alloc.conn /\ alloc'.conn # 0
      /\ alloc'.client \in Clients
      /\ alloc' \in [client : Clients \cup {"none"}, conn : Nat, at : Nat, gone : BOOLEAN]
      /\ alloc'.gone => alloc'.at = alloc.at /\ conn[held[alloc.at]] = 0
  <2>1. /\ alloc \in [client : Clients \cup {"none"}, conn : Nat, at : Nat, gone : BOOLEAN]
        /\ alloc.client \in Clients /\ alloc.conn # 0 /\ alloc.at + 1 \in Nat
    BY <1>1, <1>2 DEF LinkType, SlotType
  <2>2. CASE conn[held[alloc.at]] = 0
    <3>1. alloc' = [alloc EXCEPT !.gone = TRUE]
      BY <1>2, <2>2
    <3> QED
      BY <2>1, <2>2, <3>1
  <2>3. CASE conn[held[alloc.at]] # 0
    <3>1. alloc' = [alloc EXCEPT !.at = @ + 1]
      BY <1>2, <2>3
    <3> QED
      BY <1>2, <2>1, <3>1
  <2> QED
    BY <2>2, <2>3
<1>4. SlotType'
  BY <1>1, <1>2, <1>3 DEF LinkType, SlotType, NoAlloc
<1>5. Numbered' /\ ReadOn' /\ (sessions \subseteq SessionRecs)'
  <2>1. \A n \in seen' : n <= linkMade.connects
    BY <1>1, <1>2 DEF Numbered
  <2>2. alloc'.conn <= linkMade.connects
    BY <1>1, <1>3 DEF Numbered
  <2> QED
    BY <1>2, <2>1, <2>2, SessionsSame
<1>6. ConnType' /\ ToldIsHeld' /\ Subscribed'
  BY <1>1, <1>2 DEF LinkType, ConnType, ToldIsHeld, Subscribed
<1>7. AdvType' /\ ComesBackOnAir' /\ (Serving <=> Serving')
  BY <1>1, <1>2, AirSame DEF LinkType, AdvType
<1>8. GoneIsGone'
  <2> SUFFICES ASSUME alloc'.gone, NEW c \in Clients, held[alloc.at] = c
               PROVE  told[c] = 0 /\ \A s \in sessions : s.client = c => ~s.open
    BY <1>2, <1>3 DEF GoneIsGone
  <2> QED
    BY <1>1, <1>3 DEF ToldIsHeld, Subscribed
<1>9. DownIsEmpty'
  BY <1>1, <1>2, <1>7 DEF DownIsEmpty
<1> QED
  BY <1>4, <1>5, <1>6, <1>7, <1>8, <1>9 DEF LinkInv, LinkType

\* A slot whose holder has gone is freed (slots.rs, allocate).
LEMMA FreesKeeps == ASSUME LinkInv, Frees PROVE LinkInv'
<1>1. LinkType /\ Numbered /\ ToldIsHeld /\ Subscribed /\ GoneIsGone /\ DownIsEmpty
  BY DEF LinkInv
<1>2. /\ alloc # NoAlloc /\ alloc.gone
      /\ held' = [held EXCEPT ![alloc.at] = "none"]
      /\ alloc' = [alloc EXCEPT !.at = @ + 1, !.gone = FALSE]
      /\ UNCHANGED <<conn, told, sessions, sink, adv, onAir, permit, linkMade, offBy, seen>>
  BY DEF Frees
<1>3. /\ alloc'.client = alloc.client /\ alloc'.conn = alloc.conn /\ alloc'.conn # 0
      /\ alloc'.client \in Clients /\ ~alloc'.gone
      /\ alloc' \in [client : Clients \cup {"none"}, conn : Nat, at : Nat, gone : BOOLEAN]
  <2>1. /\ alloc \in [client : Clients \cup {"none"}, conn : Nat, at : Nat, gone : BOOLEAN]
        /\ alloc.client \in Clients /\ alloc.conn # 0 /\ alloc.at + 1 \in Nat
    BY <1>1, <1>2 DEF LinkType, SlotType
  <2> QED
    BY <1>2, <2>1
<1>4. /\ held' \in [SlotSet -> Clients \cup {"none"}] /\ alloc.at \in SlotSet
      /\ \A n \in SlotSet : held'[n] = IF n = alloc.at THEN "none" ELSE held[n]
  BY <1>1, <1>2 DEF LinkType, SlotType
<1>5. SlotType'
  BY <1>3, <1>4 DEF SlotType, NoAlloc
<1>6. Numbered' /\ ReadOn' /\ (sessions \subseteq SessionRecs)'
  <2>1. \A n \in seen' : n <= linkMade.connects
    BY <1>1, <1>2 DEF Numbered
  <2>2. alloc'.conn <= linkMade.connects
    BY <1>1, <1>3 DEF Numbered
  <2> QED
    BY <1>2, <2>1, <2>2, SessionsSame
<1>7. ToldIsHeld'
  <2> SUFFICES ASSUME NEW c \in Clients, told[c] # 0 PROVE conn[c] # 0 /\ held'[told[c]] = c
    BY <1>2 DEF ToldIsHeld
  <2>1. conn[c] # 0 /\ held[told[c]] = c /\ told[c] \in SlotSet
    BY <1>1, LinkAssumption DEF ToldIsHeld, LinkType, ConnType, SlotSet
  <2> QED
    BY <1>1, <1>2, <1>4, <2>1 DEF GoneIsGone
<1>8. Subscribed'
  <2>1. \A s \in sessions : s.open => conn[s.client] # 0 /\ held'[s.slot] = s.client
    <3> SUFFICES ASSUME NEW s \in sessions, s.open PROVE conn[s.client] # 0 /\ held'[s.slot] = s.client
      OBVIOUS
    <3>1. s.slot \in SlotSet /\ s.client \in Clients /\ conn[s.client] # 0 /\ held[s.slot] = s.client
      BY <1>1 DEF LinkType, SessionRecs, Subscribed
    <3> QED
      BY <1>1, <1>2, <1>4, <3>1 DEF GoneIsGone
  <2> QED
    BY <1>1, <1>2, <2>1 DEF Subscribed
<1>9. AdvType' /\ ComesBackOnAir' /\ (Serving <=> Serving')
  BY <1>1, <1>2, AirSame DEF LinkType, AdvType
<1>10. GoneIsGone' /\ DownIsEmpty' /\ ConnType'
  BY <1>1, <1>2, <1>3, <1>9 DEF GoneIsGone, DownIsEmpty, LinkType, ConnType
<1> QED
  BY <1>5, <1>6, <1>7, <1>8, <1>9, <1>10 DEF LinkInv, LinkType

\* A slot nobody holds is given to a client, who is told it if it is still
\* on the connection it asked on.
LEMMA GivenKeeps ==
    ASSUME LinkInv, NEW c \in Clients, NEW n \in SlotSet, held[n] = "none",
           held' = [held EXCEPT ![n] = c],
           told' = told \/ (conn[c] # 0 /\ told' = [told EXCEPT ![c] = n]),
           UNCHANGED <<conn, sessions, sink>>
    PROVE  ConnType' /\ ToldIsHeld' /\ Subscribed' /\ held' \in [SlotSet -> Clients \cup {"none"}]
<1>1. LinkType /\ ToldIsHeld /\ Subscribed
  BY DEF LinkInv
<1>2. "none" \notin Clients /\ n \in 0..SlotCount /\ n # 0
  BY LinkAssumption DEF SlotSet
<1>3. /\ held' \in [SlotSet -> Clients \cup {"none"}]
      /\ \A m \in SlotSet : held'[m] = IF m = n THEN c ELSE held[m]
  BY <1>1 DEF LinkType, SlotType
<1>4. told' \in [Clients -> 0..SlotCount] /\ \A d \in Clients : told'[d] = told[d] \/ (d = c /\ told'[d] = n /\ conn[c] # 0)
  BY <1>1, <1>2 DEF LinkType, ConnType
<1>5. ToldIsHeld'
  <2> SUFFICES ASSUME NEW d \in Clients, told'[d] # 0 PROVE conn[d] # 0 /\ held'[told'[d]] = d
    BY DEF ToldIsHeld
  <2>1. told'[d] \in SlotSet
    BY <1>4, LinkAssumption DEF SlotSet
  <2>2. CASE told'[d] = told[d]
    BY <1>1, <1>2, <1>3, <2>1, <2>2 DEF ToldIsHeld
  <2>3. CASE d = c /\ told'[d] = n /\ conn[c] # 0
    BY <1>3, <2>3
  <2> QED
    BY <1>4, <2>2, <2>3
<1>6. Subscribed'
  <2>1. \A s \in sessions : s.open => conn[s.client] # 0 /\ held'[s.slot] = s.client
    <3> SUFFICES ASSUME NEW s \in sessions, s.open PROVE conn[s.client] # 0 /\ held'[s.slot] = s.client
      OBVIOUS
    <3>1. s.slot \in SlotSet /\ s.client \in Clients /\ conn[s.client] # 0 /\ held[s.slot] = s.client
      BY <1>1 DEF LinkType, SessionRecs, Subscribed
    <3> QED
      BY <1>2, <1>3, <3>1
  <2> QED
    BY <1>1, <2>1 DEF Subscribed
<1> QED
  BY <1>1, <1>3, <1>4, <1>5, <1>6 DEF LinkType, ConnType

\* A slot free by now is given, or the client turned away (slots.rs).
LEMMA GivesKeeps == ASSUME LinkInv, Gives PROVE LinkInv'
<1>1. LinkType /\ Numbered /\ ToldIsHeld /\ Subscribed /\ DownIsEmpty
  BY DEF LinkInv
<1>2. /\ alloc # NoAlloc /\ alloc' = NoAlloc
      /\ UNCHANGED <<conn, sessions, sink, adv, onAir, linkMade, offBy>>
  BY DEF Gives
<1>3. alloc.client \in Clients /\ alloc.conn # 0 /\ alloc.conn \in Nat
  BY <1>1, <1>2 DEF LinkType, SlotType
<1>4. /\ alloc'.conn = 0 /\ ~alloc'.gone
      /\ alloc' \in [client : Clients \cup {"none"}, conn : Nat, at : Nat, gone : BOOLEAN]
  BY <1>2 DEF NoAlloc
<1>5. ConnType' /\ ToldIsHeld' /\ Subscribed' /\ held' \in [SlotSet -> Clients \cup {"none"}]
  <2>1. CASE Find("none") # {}
    <3> DEFINE n == First(Find("none"))
    <3>1. n \in SlotSet /\ held[n] = "none"
      BY <2>1, FirstIsOne DEF Find
    <3>2. held' = [held EXCEPT ![n] = alloc.client] /\ Answers(alloc.client, n)
      BY <2>1 DEF Gives
    <3> HIDE DEF n
    <3>3. told' = told \/ (conn[alloc.client] # 0 /\ told' = [told EXCEPT ![alloc.client] = n])
      BY <1>1, <1>3, <3>2 DEF Answers, LinkType, ConnType
    <3> QED
      BY <1>2, <1>3, <3>1, <3>2, <3>3, GivenKeeps
  <2>2. CASE Find("none") = {}
    <3>1. UNCHANGED <<held, told>>
      BY <2>2 DEF Gives
    <3> QED
      BY <1>1, <1>2, <3>1 DEF LinkType, ConnType, SlotType, ToldIsHeld, Subscribed
  <2> QED
    BY <2>1, <2>2
<1>6. /\ seen' = seen \/ (permit' = TRUE /\ seen' = seen \cup {alloc.conn})
      /\ permit' = permit \/ permit' = TRUE
  BY DEF Gives, Refuses
<1>7. AdvType' /\ ComesBackOnAir' /\ (Serving <=> Serving')
  <2>1. permit' \in BOOLEAN /\ seen' \in SUBSET Nat /\ (permit' = TRUE \/ (permit' = permit /\ seen' = seen))
    BY <1>1, <1>3, <1>6 DEF LinkType, AdvType
  <2> QED
    BY <1>2, <2>1, AirSame
<1>8. Numbered' /\ ReadOn' /\ (sessions \subseteq SessionRecs)'
  <2>1. \A n \in seen' : n <= linkMade.connects
    BY <1>1, <1>6 DEF Numbered
  <2>2. alloc'.conn <= linkMade.connects
    BY <1>1, <1>4 DEF LinkType, AdvType
  <2> QED
    BY <1>2, <2>1, <2>2, SessionsSame
<1>9. SlotType' /\ GoneIsGone'
  BY <1>2, <1>4, <1>5 DEF SlotType, NoAlloc, GoneIsGone
<1>10. DownIsEmpty'
  BY <1>1, <1>2, <1>7 DEF DownIsEmpty
<1> QED
  BY <1>5, <1>7, <1>8, <1>9, <1>10 DEF LinkInv, LinkType

\* A client reads the allocation, which gives it a slot or asks round.
LEMMA ReadsKeeps == ASSUME LinkInv, NEW c \in Clients, Reads(c) PROVE LinkInv'
<1>1. LinkType /\ Numbered /\ ToldIsHeld /\ Subscribed /\ DownIsEmpty
  BY DEF LinkInv
<1>2. /\ conn[c] # 0 /\ alloc = NoAlloc /\ Serving
      /\ UNCHANGED <<conn, sessions, sink, adv, onAir, permit, linkMade, offBy, seen>>
  BY DEF Reads
<1>3. /\ alloc' = NoAlloc \/ alloc' = [client |-> c, conn |-> conn[c], at |-> 1, gone |-> FALSE]
      /\ conn[c] \in Nat /\ conn[c] <= linkMade.connects /\ 0 <= linkMade.connects
  BY <1>1, <1>2 DEF Reads, LinkType, ConnType, AdvType, Numbered
<1>4. /\ alloc' \in [client : Clients \cup {"none"}, conn : Nat, at : Nat, gone : BOOLEAN]
      /\ ~alloc'.gone /\ (alloc' # NoAlloc => alloc'.client \in Clients /\ alloc'.conn # 0)
      /\ alloc'.conn <= linkMade.connects
  <2>1. CASE alloc' = NoAlloc
    BY <1>3, <2>1 DEF NoAlloc
  <2>2. CASE alloc' = [client |-> c, conn |-> conn[c], at |-> 1, gone |-> FALSE]
    BY <1>2, <1>3, <2>2
  <2> QED
    BY <1>3, <2>1, <2>2
<1>5. ConnType' /\ ToldIsHeld' /\ Subscribed' /\ held' \in [SlotSet -> Clients \cup {"none"}]
  <2>1. CASE Find(c) # {}
    <3> DEFINE n == First(Find(c))
    <3>1. n \in SlotSet /\ held[n] = c
      BY <2>1, FirstIsOne DEF Find
    <3>2. told' = [told EXCEPT ![c] = n] /\ held' = held
      BY <2>1 DEF Reads
    <3> HIDE DEF n
    <3>3. n \in 0..SlotCount
      BY <3>1, LinkAssumption DEF SlotSet
    <3>4. told' \in [Clients -> 0..SlotCount] /\ \A d \in Clients : told'[d] = IF d = c THEN n ELSE told[d]
      BY <1>1, <3>2, <3>3 DEF LinkType, ConnType
    <3>5. ToldIsHeld'
      BY <1>1, <1>2, <3>1, <3>2, <3>4 DEF ToldIsHeld
    <3> QED
      BY <1>1, <1>2, <3>2, <3>4, <3>5 DEF LinkType, ConnType, SlotType, Subscribed
  <2>2. CASE Find(c) = {} /\ Find("none") # {}
    <3> DEFINE n == First(Find("none"))
    <3>1. n \in SlotSet /\ held[n] = "none"
      BY <2>2, FirstIsOne DEF Find
    <3>2. held' = [held EXCEPT ![n] = c] /\ told' = [told EXCEPT ![c] = n]
      BY <2>2 DEF Reads
    <3> HIDE DEF n
    <3> QED
      BY <1>2, <3>1, <3>2, GivenKeeps
  <2>3. CASE Find(c) = {} /\ Find("none") = {}
    <3>1. UNCHANGED <<held, told>>
      BY <2>3 DEF Reads
    <3> QED
      BY <1>1, <1>2, <3>1 DEF LinkType, ConnType, SlotType, ToldIsHeld, Subscribed
  <2> QED
    BY <2>1, <2>2, <2>3
<1>6. AdvType' /\ ComesBackOnAir' /\ (Serving <=> Serving')
  BY <1>1, <1>2, AirSame DEF LinkType, AdvType
<1>7. Numbered' /\ ReadOn' /\ (sessions \subseteq SessionRecs)'
  <2>1. \A n \in seen' : n <= linkMade.connects
    BY <1>1, <1>2 DEF Numbered
  <2> QED
    BY <1>2, <1>4, <2>1, SessionsSame
<1>8. SlotType' /\ GoneIsGone'
  BY <1>4, <1>5 DEF SlotType, NoAlloc, GoneIsGone
<1>9. DownIsEmpty'
  BY <1>2, <1>6 DEF DownIsEmpty
<1> QED
  BY <1>5, <1>6, <1>7, <1>8, <1>9 DEF LinkInv, LinkType
-----------------------------------------------------------------------------
\* The other steps of a client keep the invariant.
LEMMA ConnectsKeeps == ASSUME LinkInv, NEW c \in Clients, Connects(c) PROVE LinkInv'
<1>1. LinkType /\ Numbered /\ ToldIsHeld /\ Subscribed /\ GoneIsGone /\ ReadOn /\ DownIsEmpty
  BY DEF LinkInv
<1>2. /\ conn' = [conn EXCEPT ![c] = linkMade.connects + 1]
      /\ linkMade' = [linkMade EXCEPT !.connects = @ + 1]
      /\ onAir' = FALSE /\ offBy' = linkMade.connects + 1
      /\ UNCHANGED <<told, held, alloc, sessions, sink, adv, permit, seen>>
  BY DEF Connects
<1>3. linkMade.connects \in Nat /\ linkMade \in [connects : Nat, sessions : Nat, writes : Nat, faults : Nat]
  BY <1>1 DEF LinkType, AdvType
<1>4. /\ linkMade' \in [connects : Nat, sessions : Nat, writes : Nat, faults : Nat]
      /\ linkMade'.connects = linkMade.connects + 1 /\ linkMade'.sessions = linkMade.sessions
  BY <1>2, <1>3
<1>5. /\ conn' \in [Clients -> Nat]
      /\ \A d \in Clients : conn'[d] = IF d = c THEN linkMade.connects + 1 ELSE conn[d]
  BY <1>1, <1>2, <1>3 DEF LinkType, ConnType
<1>6. ConnType' /\ SlotType' /\ (sessions \subseteq SessionRecs)'
  BY <1>1, <1>2, <1>5 DEF LinkType, ConnType, SlotType, NoAlloc
<1>7. AdvType'
  BY <1>1, <1>2, <1>3, <1>4 DEF LinkType, AdvType
<1>8. \A d \in Clients : conn'[d] # 0 <=> (d = c \/ conn[d] # 0)
  BY <1>3, <1>5
<1>9. Numbered'
  <2>1. \A d \in Clients : conn'[d] <= linkMade'.connects
    BY <1>1, <1>3, <1>4, <1>5 DEF Numbered, LinkType, ConnType
  <2>2. \A s \in sessions' : s.id <= linkMade'.sessions /\ s.conn <= linkMade'.connects
    BY <1>1, <1>2, <1>3, <1>4 DEF Numbered, LinkType, SessionRecs
  <2>3. alloc'.conn <= linkMade'.connects
    BY <1>1, <1>2, <1>3, <1>4 DEF Numbered, LinkType, SlotType
  <2>4. \A n \in seen' : n <= linkMade'.connects
    BY <1>1, <1>2, <1>3, <1>4 DEF Numbered, LinkType, AdvType
  <2> QED
    BY <1>1, <1>2, <2>1, <2>2, <2>3, <2>4 DEF Numbered
<1>10. ToldIsHeld' /\ GoneIsGone'
  BY <1>1, <1>2, <1>8 DEF ToldIsHeld, GoneIsGone
<1>11. Subscribed'
  BY <1>1, <1>2, <1>8 DEF Subscribed, LinkType, SessionRecs
<1>12. ReadOn' /\ DownIsEmpty'
  BY <1>1, <1>2 DEF ReadOn, IsHeard, DownIsEmpty, Serving, NoAlloc
<1>13. offBy' \notin seen'
  BY <1>1, <1>2, <1>3 DEF Numbered, LinkType, AdvType
<1> QED
  BY <1>6, <1>7, <1>9, <1>10, <1>11, <1>12, <1>13 DEF LinkInv, LinkType, ComesBackOnAir

\* A client told its slot subscribes, which makes a session.
LEMMA SubscribesKeeps == ASSUME LinkInv, NEW c \in Clients, Subscribes(c) PROVE LinkInv'
<1> DEFINE new == [id |-> linkMade.sessions + 1, client |-> c, conn |-> conn[c], slot |-> told[c], open |-> TRUE,
                   at |-> "subscribed", queued |-> 0, ended |-> FALSE, missed |-> FALSE]
<1>1. LinkType /\ Numbered /\ ToldIsHeld /\ Subscribed /\ GoneIsGone /\ ReadOn /\ DownIsEmpty /\ ComesBackOnAir
  BY DEF LinkInv
<1>2. /\ conn[c] # 0 /\ told[c] # 0 /\ Serving /\ ~\E s \in sessions : s.client = c /\ s.open
      /\ linkMade' = [linkMade EXCEPT !.sessions = @ + 1]
      /\ sessions' = sessions \cup {new}
      /\ UNCHANGED <<conn, told, held, alloc, sink, adv, onAir, permit, offBy, seen>>
  BY DEF Subscribes
<1>3. linkMade.sessions \in Nat /\ linkMade \in [connects : Nat, sessions : Nat, writes : Nat, faults : Nat]
  BY <1>1 DEF LinkType, AdvType
<1>4. /\ linkMade' \in [connects : Nat, sessions : Nat, writes : Nat, faults : Nat]
      /\ linkMade'.connects = linkMade.connects /\ linkMade'.sessions = linkMade.sessions + 1
  BY <1>2, <1>3
<1>5. conn[c] \in Nat \ {0} /\ told[c] \in SlotSet /\ held[told[c]] = c
  BY <1>1, <1>2, LinkAssumption DEF LinkType, ConnType, SlotSet, ToldIsHeld
<1>6. new \in SessionRecs
  BY <1>3, <1>5 DEF SessionRecs, Stages
<1>7. /\ new.id = linkMade.sessions + 1 /\ new.client = c /\ new.conn = conn[c] /\ new.slot = told[c]
      /\ new.open /\ new.at = "subscribed" /\ ~new.ended /\ ~new.missed
  OBVIOUS
<1> HIDE DEF new
<1>8. \A s \in sessions : s.id \in Nat /\ s.id <= linkMade.sessions /\ s.id # new.id /\ s.client \in Clients
  BY <1>1, <1>3, <1>7 DEF LinkType, SessionRecs, Numbered
<1>9. ConnType' /\ SlotType' /\ (sessions \subseteq SessionRecs)'
  BY <1>1, <1>2, <1>6 DEF LinkType, ConnType, SlotType, NoAlloc
<1>10. AdvType'
  BY <1>1, <1>2, <1>4 DEF LinkType, AdvType
<1>11. Numbered'
  <2>1. \A s, t \in sessions' : s.id = t.id => s = t
    BY <1>1, <1>2, <1>8 DEF Numbered
  <2>2. \A s \in sessions' : s.id <= linkMade'.sessions /\ s.conn <= linkMade'.connects
    BY <1>1, <1>2, <1>3, <1>4, <1>7, <1>8 DEF Numbered
  <2> QED
    BY <1>1, <1>2, <1>4, <2>1, <2>2 DEF Numbered
<1>12. ToldIsHeld' /\ DownIsEmpty' /\ ComesBackOnAir'
  BY <1>1, <1>2 DEF ToldIsHeld, DownIsEmpty, Serving, ComesBackOnAir
<1>13. Subscribed'
  <2>1. \A s \in sessions' : s.open => conn'[s.client] # 0 /\ held'[s.slot] = s.client
    BY <1>1, <1>2, <1>5, <1>7 DEF Subscribed
  <2>2. \A s, t \in sessions' : s.open /\ t.open /\ s.client = t.client => s = t
    BY <1>1, <1>2, <1>7 DEF Subscribed
  <2>3. \A s \in sessions' : s.at \in {"ending", "closing"} => ~s.open
    BY <1>1, <1>2, <1>7 DEF Subscribed
  <2> QED
    BY <2>1, <2>2, <2>3 DEF Subscribed
<1>14. GoneIsGone'
  BY <1>1, <1>2, <1>7 DEF GoneIsGone
<1>15. ReadOn'
  <2>1. \A d \in Clients : sink'[d] # 0 => \E s \in sessions' : s.id = sink'[d] /\ s.client = d /\ s.at = "open" /\ ~s.ended
    BY <1>1, <1>2 DEF ReadOn
  <2>2. \A s \in sessions' : (s.missed => s.ended) /\ (s.at = "subscribed" => ~s.ended)
    BY <1>1, <1>2, <1>7 DEF ReadOn
  <2>3. IsHeard'
    BY <1>1, <1>2, <1>7 DEF ReadOn, IsHeard
  <2> QED
    BY <2>1, <2>2, <2>3 DEF ReadOn
<1> QED
  BY <1>9, <1>10, <1>11, <1>12, <1>13, <1>14, <1>15 DEF LinkInv, LinkType

\* A chunk for a full queue ends its channel there: the session is sent no
\* more, and reads end of stream.
LEMMA DeliversKeeps == ASSUME LinkInv, NEW c \in Clients, Delivers(c) PROVE LinkInv'
<1>1. LinkType /\ Numbered /\ ToldIsHeld /\ Subscribed /\ GoneIsGone /\ ReadOn /\ DownIsEmpty /\ ComesBackOnAir
  BY DEF LinkInv
<1>2. /\ Serving /\ linkMade' = [linkMade EXCEPT !.writes = @ + 1]
      /\ UNCHANGED <<conn, told, held, alloc, adv, onAir, permit, offBy, seen>>
  BY DEF Delivers
<1>3. linkMade.writes \in Nat /\ linkMade \in [connects : Nat, sessions : Nat, writes : Nat, faults : Nat]
  BY <1>1 DEF LinkType, AdvType
<1>4. /\ linkMade' \in [connects : Nat, sessions : Nat, writes : Nat, faults : Nat]
      /\ linkMade'.connects = linkMade.connects /\ linkMade'.sessions = linkMade.sessions
  BY <1>2, <1>3
<1>5. AdvType' /\ ComesBackOnAir' /\ Serving'
  BY <1>1, <1>2, <1>4 DEF LinkType, AdvType, ComesBackOnAir, Serving
<1>6. SlotType' /\ DownIsEmpty'
  BY <1>1, <1>2, <1>5 DEF LinkType, SlotType, NoAlloc, DownIsEmpty
<1>7. sink[c] # 0
  BY DEF Delivers
<1>8. (sessions \subseteq SessionRecs)' /\ Numbered' /\ ToldIsHeld' /\ Subscribed' /\ GoneIsGone' /\ ReadOn' /\ ConnType'
  <2> DEFINE s == SessionOf(sink[c])
  <2>1. s \in sessions /\ s.id = sink[c] /\ s.client = c /\ s.at = "open" /\ ~s.ended
    <3>1. PICK r \in sessions : r.id = sink[c] /\ r.client = c /\ r.at = "open" /\ ~r.ended
      BY <1>1, <1>7 DEF ReadOn
    <3>2. s \in sessions /\ s.id = sink[c]
      BY <3>1 DEF SessionOf
    <3>3. s = r
      BY <1>1, <3>1, <3>2 DEF Numbered
    <3> QED
      BY <3>1, <3>3
  <2>2. \/ s.queued = QueueDepth /\ Overflows(s)
        \/ Becomes(s, [s EXCEPT !.queued = @ + 1]) /\ UNCHANGED sink
    BY DEF Delivers
  <2> HIDE DEF s
  <2>3. Narrows /\ ReadOn' /\ sink' \in [Clients -> Nat]
    <3>1. CASE Overflows(s)
      <4> DEFINE t == [s EXCEPT !.missed = TRUE, !.ended = TRUE]
      <4>1. /\ t \in SessionRecs /\ Follows(t, s) /\ t.at = "open" /\ t.ended
        BY <1>1, <2>1 DEF LinkType, SessionRecs, Follows
      <4>2. Becomes(s, t) /\ sink' = [sink EXCEPT ![s.client] = 0]
        BY <3>1 DEF Overflows
      <4> HIDE DEF t
      <4>3. sink' = Removed(s)
        BY <2>1, <4>2 DEF Removed
      <4>4. Narrows
        BY <2>1, <4>1, <4>2, BecomesNarrows
      <4>5. ReadOn' /\ sink' \in [Clients -> Nat]
        BY <2>1, <4>1, <4>2, <4>3, StopsReading DEF Follows
      <4> QED
        BY <4>4, <4>5
    <3>2. CASE Becomes(s, [s EXCEPT !.queued = @ + 1]) /\ UNCHANGED sink
      <4> DEFINE t == [s EXCEPT !.queued = @ + 1]
      <4>1. /\ t \in SessionRecs /\ Follows(t, s) /\ t.at = "open" /\ ~t.ended /\ t.missed = s.missed
        BY <1>1, <2>1 DEF LinkType, SessionRecs, Follows
      <4>2. Becomes(s, t) /\ UNCHANGED sink
        BY <3>2
      <4> HIDE DEF t
      <4>3. Narrows
        BY <2>1, <4>1, <4>2, BecomesNarrows
      <4>4. ReadOn'
        BY <1>1, <2>1, <4>1, <4>2, BecomesReadsOn DEF Follows, ReadOn
      <4> QED
        BY <1>1, <4>2, <4>3, <4>4 DEF LinkType, ConnType
    <3> QED
      BY <2>2, <3>1, <3>2
  <2>4. Numbered' /\ ToldIsHeld' /\ Subscribed' /\ GoneIsGone'
    BY <1>2, <1>4, <2>3, NarrowsKeep
  <2>5. ConnType'
    BY <1>1, <1>2, <2>3 DEF LinkType, ConnType
  <2> QED
    BY <2>3, <2>4, <2>5 DEF Narrows
<1> QED
  BY <1>5, <1>6, <1>8 DEF LinkInv, LinkType
-----------------------------------------------------------------------------
\* A step of the advertising loop that leaves clients and sessions alone.
LEMMA AirMoved ==
    ASSUME LinkInv, UNCHANGED <<conn, told, held, alloc, sessions, sink, offBy, seen>>,
           adv' \in {"registering", "registered", "failed", "settling", "stopping", "starting"},
           adv' = "starting" => ~Serving,
           onAir' \in BOOLEAN, permit' \in BOOLEAN, adv' = "registered" => onAir' = TRUE,
           linkMade' = linkMade \/ Fault
    PROVE  LinkInv'
<1>1. LinkType /\ Numbered /\ ToldIsHeld /\ Subscribed /\ GoneIsGone /\ ReadOn /\ DownIsEmpty
  BY DEF LinkInv
<1>2. linkMade \in [connects : Nat, sessions : Nat, writes : Nat, faults : Nat]
  BY <1>1 DEF LinkType, AdvType
<1>3. /\ linkMade' \in [connects : Nat, sessions : Nat, writes : Nat, faults : Nat]
      /\ linkMade'.connects = linkMade.connects /\ linkMade'.sessions = linkMade.sessions
  <2>1. CASE linkMade' = linkMade
    BY <1>2, <2>1
  <2>2. CASE Fault
    BY <1>2, <2>2 DEF Fault
  <2> QED
    BY <2>1, <2>2
<1>4. AdvType' /\ ComesBackOnAir'
  BY <1>1, <1>3 DEF LinkType, AdvType, ComesBackOnAir
<1>5. ConnType' /\ SlotType' /\ (sessions \subseteq SessionRecs)'
  BY <1>1 DEF LinkType, ConnType, SlotType, NoAlloc
<1>6. Numbered'
  BY <1>1, <1>3 DEF Numbered
<1>7. ToldIsHeld' /\ Subscribed' /\ GoneIsGone' /\ ReadOn'
  BY <1>1 DEF ToldIsHeld, Subscribed, GoneIsGone, ReadOn, IsHeard
<1>8. DownIsEmpty'
  BY <1>1 DEF DownIsEmpty, Serving, NoAlloc
<1> QED
  BY <1>4, <1>5, <1>6, <1>7, <1>8 DEF LinkInv, LinkType

\* The daemon going, with the connections or without them.
LEMMA GoneKeeps ==
    ASSUME LinkInv, Gone, UNCHANGED <<offBy, seen>>, linkMade' = linkMade \/ Fault,
           conn' = conn \/ conn' = [c \in Clients |-> 0]
    PROVE  LinkInv'
<1>1. LinkType /\ Numbered
  BY DEF LinkInv
<1>2. linkMade \in [connects : Nat, sessions : Nat, writes : Nat, faults : Nat]
  BY <1>1 DEF LinkType, AdvType
<1>3. /\ linkMade' \in [connects : Nat, sessions : Nat, writes : Nat, faults : Nat]
      /\ linkMade'.connects = linkMade.connects /\ linkMade'.sessions = linkMade.sessions
  <2>1. CASE linkMade' = linkMade
    BY <1>2, <2>1
  <2>2. CASE Fault
    BY <1>2, <2>2 DEF Fault
  <2> QED
    BY <2>1, <2>2
<1>4. /\ told' = [c \in Clients |-> 0] /\ held' = [n \in SlotSet |-> "none"] /\ alloc' = NoAlloc
      /\ sessions' = {} /\ sink' = [c \in Clients |-> 0] /\ adv' = "down" /\ onAir' = FALSE /\ permit' = FALSE
  BY DEF Gone
<1>5. ConnType'
  BY <1>1, <1>4, LinkAssumption DEF LinkType, ConnType
<1>6. SlotType' /\ (sessions \subseteq SessionRecs)'
  BY <1>4 DEF SlotType, NoAlloc
<1>7. AdvType' /\ ComesBackOnAir' /\ ~Serving'
  BY <1>1, <1>3, <1>4 DEF LinkType, AdvType, ComesBackOnAir, Serving
<1>8. \A c \in Clients : conn'[c] <= linkMade'.connects
  BY <1>1, <1>2, <1>3 DEF Numbered
<1>9. Numbered'
  BY <1>1, <1>2, <1>3, <1>4, <1>8 DEF Numbered, NoAlloc
<1>10. ToldIsHeld' /\ Subscribed' /\ GoneIsGone' /\ ReadOn' /\ DownIsEmpty'
  BY <1>4 DEF ToldIsHeld, Subscribed, GoneIsGone, NoAlloc, ReadOn, IsHeard, DownIsEmpty
<1> QED
  BY <1>5, <1>6, <1>7, <1>9, <1>10 DEF LinkInv, LinkType

\* The daemon started again has ended every connection.
LEMMA EndsConnectionsKeeps == ASSUME LinkInv, EndsConnections PROVE LinkInv'
<1>1. LinkType /\ Numbered /\ ToldIsHeld /\ Subscribed /\ GoneIsGone /\ ReadOn /\ DownIsEmpty
  BY DEF LinkInv
<1>2. /\ conn' = [c \in Clients |-> 0] /\ adv' = "registering"
      /\ UNCHANGED <<told, held, alloc, sessions, sink, onAir, permit, linkMade, offBy, seen>>
  BY DEF EndsConnections
<1>3. sessions = {} /\ alloc = NoAlloc /\ \A c \in Clients : told[c] = 0
  BY <1>1 DEF DownIsEmpty, Serving, EndsConnections
<1>4. ConnType' /\ SlotType' /\ AdvType' /\ (sessions \subseteq SessionRecs)'
  BY <1>1, <1>2 DEF LinkType, ConnType, SlotType, AdvType, NoAlloc
<1>5. 0 <= linkMade.connects
  BY <1>1 DEF LinkType, AdvType
<1>6. Numbered'
  BY <1>1, <1>2, <1>5 DEF Numbered
<1>7. ToldIsHeld' /\ Subscribed' /\ GoneIsGone'
  BY <1>2, <1>3 DEF ToldIsHeld, Subscribed, GoneIsGone, NoAlloc
<1>8. ReadOn' /\ DownIsEmpty' /\ ComesBackOnAir'
  BY <1>1, <1>2 DEF ReadOn, IsHeard, DownIsEmpty, Serving, ComesBackOnAir
<1> QED
  BY <1>4, <1>6, <1>7, <1>8 DEF LinkInv, LinkType
-----------------------------------------------------------------------------
\* The loop and the daemon keep the invariant.
LEMMA LoopKeeps ==
    ASSUME LinkInv, \/ Registers \/ RegistrationFails \/ RetriesRegistration \/ Readvertises \/ Settled
                    \/ Stops \/ Starts
    PROVE  LinkInv'
<1>1. onAir \in BOOLEAN /\ permit \in BOOLEAN
  BY DEF LinkInv, LinkType, AdvType
<1>2. CASE Registers
  BY <1>1, <1>2, AirMoved DEF Registers, AirMoves
<1>3. CASE RegistrationFails
  BY <1>1, <1>3, AirMoved DEF RegistrationFails, AirMoves
<1>4. CASE RetriesRegistration
  BY <1>1, <1>4, AirMoved DEF RetriesRegistration, AirMoves
<1>5. CASE Readvertises
  BY <1>1, <1>5, AirMoved DEF Readvertises, AirMoves
<1>6. CASE Settled
  BY <1>1, <1>6, AirMoved DEF Settled, AirMoves
<1>7. CASE Stops
  BY <1>1, <1>7, AirMoved DEF Stops
<1>8. CASE Starts
  BY <1>1, <1>8, AirMoved DEF Starts, Serving
<1> QED
  BY <1>2, <1>3, <1>4, <1>5, <1>6, <1>7, <1>8

\* Every step keeps the invariant.
LEMMA LinkNextInv == LinkInv /\ [LinkNext]_linkVars => LinkInv'
<1> SUFFICES ASSUME LinkInv, [LinkNext]_linkVars PROVE LinkInv'
  OBVIOUS
<1>1. CASE Asks
  BY <1>1, AsksKeeps
<1>2. CASE Frees
  BY <1>2, FreesKeeps
<1>3. CASE Gives
  BY <1>3, GivesKeeps
<1>4. ASSUME NEW s \in sessions,
             Opens(s) \/ Drained(s) \/ Leaves(s) \/ Looks(s) \/ Ends(s) \/ ReadsChunk(s) \/ SessionEnds(s)
      PROVE  LinkInv'
  BY <1>4, OpensKeeps, DrainedKeeps, LeavesKeeps, LooksKeeps, EndsKeeps, ReadsChunkKeeps, SessionEndsKeeps
<1>5. ASSUME NEW c \in Clients,
             Connects(c) \/ Disconnects(c) \/ Reads(c) \/ Subscribes(c) \/ Unsubscribes(c) \/ Delivers(c)
      PROVE  LinkInv'
  BY <1>5, ConnectsKeeps, DisconnectsKeeps, ReadsKeeps, SubscribesKeeps, UnsubscribesKeeps, DeliversKeeps
<1>6. CASE \/ Registers \/ RegistrationFails \/ RetriesRegistration \/ Readvertises \/ Settled \/ Stops \/ Starts
  BY <1>6, LoopKeeps
<1>7. CASE Stopped
  BY <1>7, GoneKeeps DEF Stopped
<1>8. CASE Dies
  BY <1>8, GoneKeeps DEF Dies
<1>9. CASE EndsConnections
  BY <1>9, EndsConnectionsKeeps
<1>10. CASE UNCHANGED linkVars
  BY <1>10 DEF linkVars, LinkInv, LinkType, ConnType, SlotType, NoAlloc, AdvType, Numbered, ToldIsHeld, Subscribed,
     GoneIsGone, ReadOn, IsHeard, DownIsEmpty, Serving, ComesBackOnAir
<1> QED
  BY <1>1, <1>2, <1>3, <1>4, <1>5, <1>6, <1>7, <1>8, <1>9, <1>10 DEF LinkNext, LinkDevice

\* The invariant holds of every state the link can be in.
LEMMA LinkInvariant == LinkSpec => []LinkInv
<1> QED
  BY LinkInitInv, LinkNextInv, PTL DEF LinkSpec
-----------------------------------------------------------------------------
\* As a client disconnects BlueZ closes what is at the head of each slot
\* it had subscribed to; by the slots being given out one to a client and
\* freed only when the holder is gone (slots.rs, allocate), that is its
\* own subscription and no other client's.
THEOREM LeavingAlone == LinkSpec => []LeavesOthersAlone
<1>1. LinkInv => LeavesOthersAlone
  <2> SUFFICES ASSUME LinkInv, NEW c \in Clients, NEW s \in Heads(c) PROVE s.client = c
    BY DEF LeavesOthersAlone
  <2>1. s \in sessions
    BY DEF Heads
  <2> QED
    BY <2>1, HeadsAreItsOwn
<1> QED
  BY <1>1, LinkInvariant, PTL

\* What a client writes its own session reads, all of it or none after the
\* first chunk lost, however sessions are replaced, overflow, end and are
\* removed (gatt.rs, install, deliver and remove).
THEOREM WritesRead == LinkSpec => []WritesAreRead
<1>1. LinkInv => WritesAreRead
  <2> SUFFICES ASSUME LinkInv PROVE NoHole /\ IsHeard
    BY DEF WritesAreRead
  <2>1. ReadOn /\ Numbered /\ sessions \subseteq SessionRecs
    BY DEF LinkInv, LinkType
  <2>2. ASSUME NEW s \in sessions, s.missed, sink[s.client] = s.id PROVE FALSE
    <3>1. s.client \in Clients /\ s.id # 0 /\ s.ended
      BY <2>1, <2>2 DEF SessionRecs, ReadOn
    <3>2. PICK r \in sessions : r.id = sink[s.client] /\ ~r.ended
      BY <2>1, <2>2, <3>1 DEF ReadOn
    <3> QED
      BY <2>1, <2>2, <3>1, <3>2 DEF Numbered
  <2> QED
    BY <2>1, <2>2 DEF NoHole, ReadOn
<1> QED
  BY <1>1, LinkInvariant, PTL

\* A client served or turned away leaves the device on the air, or the
\* loop notified to put it back (device.rs, run; server.rs, allocation).
THEOREM BackOnAir == LinkSpec => []ComesBackOnAir
<1>1. LinkInv => ComesBackOnAir
  BY DEF LinkInv
<1> QED
  BY <1>1, LinkInvariant, PTL
-----------------------------------------------------------------------------
\* The send rate.

HoldRecs == [len : 0..MaxLen, due : Nat]
PacingType ==
    /\ clock \in Nat /\ nextSend \in Nat
    /\ holds \in [Pumps -> HoldRecs] /\ since \in [1..Window -> Nat]

\* What the pumps of a set hold back together.
Loads(load, h) ==
    /\ load \in [SUBSET Pumps -> Nat]
    /\ \A S \in SUBSET Pumps : \A q \in Pumps \ S : load[S \cup {q}] = load[S] + h[q].len
    /\ \A S \in SUBSET Pumps : load[S] <= MaxLen * Cardinality(S)

UpTo(cum, x) == {q \in Pumps : cum[q] <= x}

\* What was granted up to x beyond the b of t times ago is on the schedule
\* up to s.
Paced(x, b, s, t, clk) == x <= b \/ x + clk + 1 <= b + s + t

\* An account of what was let through: `total' bytes were sent of the
\* `granted', `before' had been granted as each window began; the chunk a
\* pump holds, or held last, begins at `start' on the schedule and brings
\* what was granted to `cum'; and no chunk sent brought it past `top'.
AccountRecs ==
    [total : Nat, granted : Nat, top : Nat, cum : [Pumps -> Nat], start : [Pumps -> Nat],
     load : [SUBSET Pumps -> Nat], before : [1..Window -> Nat]]
Full == MaxLen * Cardinality(Pumps)
Totals(a) == a.granted = a.total + a.load[Pumps] /\ a.top <= a.granted
Sent(a) == \A x \in Nat : x >= a.top => a.total + a.load[UpTo(a.cum, x)] <= x
Begun(a, snc, nxt, clk) ==
    \A t \in 1..Window :
        /\ a.before[t] + snc[t] <= a.total + Full
        /\ Paced(a.granted, a.before[t], nxt, t, clk)
        /\ a.top <= a.before[t] + t + Slack + MaxLen
Granted(a) == \A q \in Pumps : a.cum[q] <= a.granted
Ahead(a, h, clk) ==
    \A q \in Pumps : h[q].len > 0 =>
        /\ a.start[q] < h[q].due + Slack
        /\ \A t \in 1..Window : Paced(a.cum[q], a.before[t], a.start[q] + h[q].len, t, clk)
Accounts(a, h, snc, nxt, clk) ==
    Loads(a.load, h) /\ Totals(a) /\ Sent(a) /\ Begun(a, snc, nxt, clk) /\ Granted(a) /\ Ahead(a, h, clk)
PacingInv == PacingType /\ \E a \in AccountRecs : Accounts(a, holds, since, nextSend, clock)

\* What is assumed of the bounds, a pump for each of finitely many.
LEMMA Bounds == {MaxLen, Slack, Window} \subseteq Nat \ {0} /\ Cardinality(Pumps) \in Nat /\ Full \in Nat
BY PacingAssumption, FS_CardinalityType DEF Full

\* What a set holds back as one pump of it takes a chunk or sends one.
LoadOf(load, p, n) == [S \in SUBSET Pumps |-> load[S \ {p}] + (IF p \in S THEN n ELSE 0)]

\* Such loads are then again the loads of what is held back.
LEMMA LoadMoves ==
    ASSUME NEW load, NEW h, NEW p \in Pumps, NEW n \in 0..MaxLen, NEW d \in Nat,
           h \in [Pumps -> HoldRecs], Loads(load, h)
    PROVE  Loads(LoadOf(load, p, n), [h EXCEPT ![p] = [len |-> n, due |-> d]])
<1> DEFINE l == LoadOf(load, p, n)
           k == [h EXCEPT ![p] = [len |-> n, due |-> d]]
<1>1. \A S \in SUBSET Pumps : S \ {p} \in SUBSET Pumps /\ load[S \ {p}] \in Nat
  BY DEF Loads
<1>2. n \in Nat /\ MaxLen \in Nat /\ n <= MaxLen
  BY Bounds
<1>3. l \in [SUBSET Pumps -> Nat]
  <2>1. ASSUME NEW S \in SUBSET Pumps PROVE load[S \ {p}] + (IF p \in S THEN n ELSE 0) \in Nat
    <3> DEFINE x == load[S \ {p}]
    <3>1. x \in Nat
      BY <1>1
    <3> HIDE DEF x
    <3>2. x + n \in Nat /\ x + 0 \in Nat
      BY <1>2, <3>1
    <3>3. QED
      BY <3>2 DEF x
  <2>2. QED
    BY <2>1, Zenon DEF LoadOf
<1>4. \A S \in SUBSET Pumps : l[S] = load[S \ {p}] + (IF p \in S THEN n ELSE 0)
  BY DEF LoadOf
<1>5. \A q \in Pumps : k[q].len = IF q = p THEN n ELSE h[q].len
  BY DEF HoldRecs
<1>6. \A q \in Pumps : h[q].len \in Nat
  BY Bounds DEF HoldRecs
<1> HIDE DEF l, k
<1>7. ASSUME NEW S \in SUBSET Pumps, NEW q \in Pumps \ S PROVE l[S \cup {q}] = l[S] + k[q].len
  <2>1. S \cup {q} \in SUBSET Pumps
    OBVIOUS
  <2>2. CASE q = p
    <3>1. (S \cup {q}) \ {p} = S /\ S \ {p} = S
      BY <2>2
    <3>2. l[S \cup {q}] = load[S] + n
      BY <1>4, <2>1, <2>2, <3>1
    <3>3. l[S] = load[S] + 0
      BY <1>4, <2>2, <3>1
    <3>4. load[S] \in Nat
      BY DEF Loads
    <3>5. k[q].len = n
      BY <1>5, <2>2
    <3>6. QED
      BY <1>2, <3>2, <3>3, <3>4, <3>5
  <2>3. CASE q # p
    <3>1. (S \cup {q}) \ {p} = (S \ {p}) \cup {q} /\ q \in Pumps \ (S \ {p})
      BY <2>3
    <3>2. load[(S \ {p}) \cup {q}] = load[S \ {p}] + h[q].len
      BY <1>1, <3>1 DEF Loads
    <3>3. l[S \cup {q}] = load[S \ {p}] + h[q].len + (IF p \in S THEN n ELSE 0)
      <4>1. l[S \cup {q}] = load[(S \ {p}) \cup {q}] + (IF p \in S \cup {q} THEN n ELSE 0)
        BY <1>4, <2>1, <3>1
      <4>2. (p \in S \cup {q}) <=> p \in S
        BY <2>3
      <4>3. QED
        BY <3>2, <4>1, <4>2
    <3>4. l[S] = load[S \ {p}] + (IF p \in S THEN n ELSE 0)
      BY <1>4
    <3>5. k[q].len = h[q].len /\ h[q].len \in Nat
      BY <1>5, <1>6, <2>3
    <3> DEFINE x == load[S \ {p}]  y == IF p \in S THEN n ELSE 0
    <3>6. x \in Nat /\ y \in Nat
      BY <1>1, <1>2
    <3>7. l[S \cup {q}] = x + h[q].len + y /\ l[S] = x + y
      BY <3>3, <3>4
    <3> HIDE DEF x, y
    <3>8. QED
      BY <3>5, <3>6, <3>7
  <2>4. QED
    BY <2>2, <2>3
<1>8. ASSUME NEW S \in SUBSET Pumps PROVE l[S] <= MaxLen * Cardinality(S)
  <2>1. IsFiniteSet(S) /\ Cardinality(S) \in Nat
    BY PacingAssumption, FS_Subset, FS_CardinalityType
  <2>2. load[S \ {p}] <= MaxLen * Cardinality(S \ {p})
    BY <1>1 DEF Loads
  <2>3. CASE p \in S
    <3>1. Cardinality(S \ {p}) = Cardinality(S) - 1
      BY <2>1, <2>3, FS_RemoveElement
    <3>2. MaxLen * (Cardinality(S) - 1) = MaxLen * Cardinality(S) - MaxLen
      BY <1>2, <2>1
    <3>3. MaxLen * Cardinality(S) \in Nat
      BY <1>2, <2>1
    <3>4. l[S] = load[S \ {p}] + n
      BY <1>4, <2>3
    <3> DEFINE x == load[S \ {p}]
    <3>5. x \in Nat /\ l[S] = x + n
      BY <1>1, <3>4
    <3>6. x <= MaxLen * Cardinality(S) - MaxLen
      BY <2>2, <3>1, <3>2
    <3> HIDE DEF x
    <3>7. QED
      BY <1>2, <3>3, <3>5, <3>6
  <2>4. CASE p \notin S
    <3>1. S \ {p} = S
      BY <2>4
    <3>2. l[S] = load[S] + 0 /\ load[S] \in Nat
      BY <1>1, <1>4, <2>4, <3>1
    <3>3. load[S] <= MaxLen * Cardinality(S)
      BY DEF Loads
    <3>4. QED
      BY <3>2, <3>3
  <2>5. QED
    BY <2>3, <2>4
<1>9. QED
  BY <1>3, <1>7, <1>8 DEF Loads, l, k

\* Nothing has been sent or granted as the pumps begin (pacing.rs, new).
LEMMA PacingStarts == PacingInit => PacingInv
<1> SUFFICES ASSUME PacingInit PROVE PacingInv
  OBVIOUS
<1>1. PacingType
  BY Bounds DEF PacingInit, PacingType, HoldRecs
<1> DEFINE load == [S \in SUBSET Pumps |-> 0]
           zero == [q \in Pumps |-> 0]
           before == [t \in 1..Window |-> 0]
           a == [total |-> 0, granted |-> 0, top |-> 0, cum |-> zero, start |-> zero, load |-> load, before |-> before]
<1>2. zero \in [Pumps -> Nat] /\ load \in [SUBSET Pumps -> Nat] /\ before \in [1..Window -> Nat]
  OBVIOUS
<1>3. Loads(load, holds)
  <2>1. ASSUME NEW S \in SUBSET Pumps PROVE load[S] <= MaxLen * Cardinality(S)
    <3>1. Cardinality(S) \in Nat /\ MaxLen \in Nat
      BY PacingAssumption, Bounds, FS_Subset, FS_CardinalityType
    <3>2. MaxLen * Cardinality(S) \in Nat
      BY <3>1
    <3>3. QED
      BY <3>2
  <2>2. \A q \in Pumps : holds[q].len = 0
    BY DEF PacingInit
  <2>3. \A S \in SUBSET Pumps : \A q \in Pumps \ S : load[S \cup {q}] = load[S] + holds[q].len
    BY <2>2
  <2>4. QED
    BY <1>2, <2>1, <2>3 DEF Loads
<1>4. /\ \A q \in Pumps : zero[q] = 0
      /\ \A t \in 1..Window : before[t] = 0
      /\ \A S \in SUBSET Pumps : load[S] = 0
  OBVIOUS
<1>5. a \in AccountRecs
  BY <1>2 DEF AccountRecs
<1>6. /\ a.total = 0 /\ a.granted = 0 /\ a.top = 0 /\ a.cum = zero /\ a.start = zero
      /\ a.load = load /\ a.before = before
  OBVIOUS
<1> HIDE DEF load, zero, before, a
<1>7. Totals(a)
  BY <1>4, <1>6 DEF Totals
<1>8. Sent(a)
  <2>1. \A x : UpTo(a.cum, x) \in SUBSET Pumps
    BY DEF UpTo
  <2>2. QED
    BY <1>4, <1>6, <2>1 DEF Sent
<1>9. Begun(a, since, nextSend, clock)
  <2>1. \A t \in 1..Window : since[t] = 0 /\ before[t] = 0
    BY <1>4 DEF PacingInit
  <2>2. ASSUME NEW t \in 1..Window
        PROVE  0 + 0 <= 0 + Full /\ 0 <= 0 + t + Slack + MaxLen
    BY Bounds
  <2>3. \A t \in 1..Window : Paced(0, 0, nextSend, t, clock)
    BY DEF Paced
  <2>4. QED
    BY <1>6, <2>1, <2>2, <2>3 DEF Begun
<1>10. Granted(a) /\ Ahead(a, holds, clock)
  <2>1. \A q \in Pumps : holds[q].len = 0
    BY DEF PacingInit
  <2>2. QED
    BY <1>4, <1>6, <2>1 DEF Granted, Ahead
<1>11. QED
  BY <1>1, <1>3, <1>5, <1>6, <1>7, <1>8, <1>9, <1>10 DEF PacingInv, Accounts

\* A pump takes a chunk, at the end of what was granted (pacing.rs,
\* wait_for).
LEMMA ChunkTaken ==
    ASSUME NEW p \in Pumps, NEW len \in 1..MaxLen, PacingInv, Takes(p, len) PROVE PacingInv'
<1>1. /\ holds[p].len = 0 /\ holds' = [holds EXCEPT ![p] = [len |-> len, due |-> Due]]
      /\ nextSend' = Resumes + len /\ clock' = clock /\ since' = since
  BY DEF Takes
<1>2. PacingType
  BY DEF PacingInv
<1>3. clock \in Nat /\ nextSend \in Nat /\ Slack \in Nat /\ Slack > 0 /\ MaxLen \in Nat
  BY <1>2, Bounds DEF PacingType
<1>4. /\ Resumes \in Nat /\ Resumes >= clock /\ Resumes >= nextSend
      /\ Due \in Nat /\ Resumes < Due + Slack
  BY <1>3 DEF Resumes, Due
<1>5. len \in 0..MaxLen /\ len \in Nat /\ len > 0 /\ len <= MaxLen
  BY <1>3
<1>6. PacingType'
  <2>1. [len |-> len, due |-> Due] \in HoldRecs
    BY <1>4, <1>5 DEF HoldRecs
  <2>2. QED
    BY <1>1, <1>2, <1>4, <1>5, <2>1 DEF PacingType
<1>7. PICK a \in AccountRecs : Accounts(a, holds, since, nextSend, clock)
  BY DEF PacingInv
<1> DEFINE g == a.granted + len
           load == LoadOf(a.load, p, len)
           cum == [a.cum EXCEPT ![p] = g]
           start == [a.start EXCEPT ![p] = Resumes]
           b == [total |-> a.total, granted |-> g, top |-> a.top, cum |-> cum, start |-> start,
                 load |-> load, before |-> a.before]
<1>8. /\ a.total \in Nat /\ a.granted \in Nat /\ a.top \in Nat /\ a.cum \in [Pumps -> Nat] /\ a.start \in [Pumps -> Nat]
      /\ a.before \in [1..Window -> Nat] /\ a.load \in [SUBSET Pumps -> Nat]
  BY <1>7 DEF AccountRecs
<1>9. /\ Loads(a.load, holds) /\ Totals(a) /\ Sent(a) /\ Begun(a, since, nextSend, clock)
      /\ Granted(a) /\ Ahead(a, holds, clock)
  BY <1>7 DEF Accounts
<1>10. Loads(load, holds')
  BY <1>1, <1>2, <1>4, <1>5, <1>9, LoadMoves DEF PacingType
<1>11. g \in Nat /\ cum \in [Pumps -> Nat] /\ start \in [Pumps -> Nat] /\ load \in [SUBSET Pumps -> Nat]
  BY <1>4, <1>5, <1>8, <1>10 DEF Loads
<1>12. b \in AccountRecs
  BY <1>8, <1>11 DEF AccountRecs
<1>13. /\ b.total = a.total /\ b.granted = g /\ b.top = a.top /\ b.cum = cum /\ b.start = start
       /\ b.load = load /\ b.before = a.before
  OBVIOUS
<1>14. /\ cum[p] = g /\ start[p] = Resumes
       /\ \A q \in Pumps \ {p} : cum[q] = a.cum[q] /\ start[q] = a.start[q] /\ holds'[q] = holds[q]
       /\ holds'[p].len = len /\ holds'[p].due = Due
  BY <1>1, <1>2, <1>8 DEF PacingType
<1>15. \A S \in SUBSET Pumps : load[S] = a.load[S \ {p}] + (IF p \in S THEN len ELSE 0)
  BY DEF LoadOf
<1>16. \A S \in SUBSET Pumps : a.load[S \ {p}] = a.load[S] /\ a.load[S] \in Nat
  <2>1. ASSUME NEW S \in SUBSET Pumps, p \in S PROVE a.load[S \ {p}] = a.load[S]
    <3>1. (S \ {p}) \cup {p} = S /\ S \ {p} \in SUBSET Pumps /\ p \in Pumps \ (S \ {p})
      BY <2>1
    <3>2. a.load[(S \ {p}) \cup {p}] = a.load[S \ {p}] + holds[p].len
      BY <1>9, <3>1 DEF Loads
    <3>3. a.load[S \ {p}] \in Nat
      BY <1>8, <3>1
    <3>4. QED
      BY <1>1, <3>1, <3>2, <3>3
  <2>2. ASSUME NEW S \in SUBSET Pumps, p \notin S PROVE a.load[S \ {p}] = a.load[S]
    <3>1. S \ {p} = S
      BY <2>2
    <3>2. QED
      BY <3>1
  <2>3. QED
    BY <1>8, <2>1, <2>2
<1> HIDE DEF g, load, cum, start, b
<1>17. g = a.granted + len
  BY DEF g
<1>18. Totals(b)
  <2>1. load[Pumps] = a.load[Pumps] + len
    BY <1>15, <1>16
  <2>2. a.granted = a.total + a.load[Pumps] /\ a.top <= a.granted /\ a.load[Pumps] \in Nat
    BY <1>9, <1>16 DEF Totals
  <2>3. QED
    BY <1>5, <1>8, <1>13, <1>17, <2>1, <2>2 DEF Totals
<1>19. Sent(b)
  <2> SUFFICES ASSUME NEW x \in Nat, x >= a.top PROVE a.total + load[UpTo(cum, x)] <= x
    BY <1>13 DEF Sent
  <2>1. UpTo(cum, x) \in SUBSET Pumps /\ UpTo(a.cum, x) \in SUBSET Pumps
    BY DEF UpTo
  <2>2. CASE x >= g
    <3>1. \A q \in Pumps : cum[q] <= x
      <4>1. \A q \in Pumps : a.cum[q] <= a.granted /\ a.cum[q] \in Nat
        BY <1>8, <1>9 DEF Granted
      <4>2. \A q \in Pumps : cum[q] = g \/ cum[q] = a.cum[q]
        BY <1>14
      <4>3. ASSUME NEW q \in Pumps PROVE cum[q] <= x
        <5>1. cum[q] = g \/ cum[q] <= a.granted
          BY <4>1, <4>2
        <5>2. cum[q] \in Nat /\ g = a.granted + len /\ g <= x
          BY <1>11, <1>17, <2>2
        <5>3. QED
          BY <1>5, <1>8, <1>11, <5>1, <5>2
      <4>4. QED
        BY <4>3
    <3>2. UpTo(cum, x) = Pumps
      BY <3>1 DEF UpTo
    <3>3. g = a.total + load[Pumps]
      BY <1>13, <1>18 DEF Totals
    <3>4. QED
      BY <2>2, <3>2, <3>3
  <2>3. CASE ~(x >= g)
    <3>1. ~(cum[p] <= x)
      BY <1>11, <1>14, <2>3
    <3>2. UpTo(cum, x) \ {p} = UpTo(a.cum, x) \ {p} /\ p \notin UpTo(cum, x)
      BY <1>14, <3>1 DEF UpTo
    <3>3. load[UpTo(cum, x)] = a.load[UpTo(cum, x) \ {p}] + 0
      BY <1>15, <2>1, <3>2
    <3>4. a.load[UpTo(a.cum, x) \ {p}] = a.load[UpTo(a.cum, x)] /\ a.load[UpTo(a.cum, x)] \in Nat
      BY <1>16, <2>1
    <3>5. a.total + a.load[UpTo(a.cum, x)] <= x
      BY <1>9 DEF Sent
    <3>6. QED
      BY <3>2, <3>3, <3>4, <3>5
  <2>4. QED
    BY <2>2, <2>3
<1>20. ASSUME NEW t \in 1..Window PROVE Paced(g, a.before[t], Resumes + len, t, clock)
  <2> DEFINE n == a.before[t]
  <2>1. n \in Nat /\ t \in Nat /\ t >= 1
    BY <1>8, Bounds
  <2>2. a.granted <= n \/ a.granted + clock + 1 <= n + nextSend + t
    BY <1>9 DEF Begun, Paced
  <2> HIDE DEF n
  <2>3. g <= n \/ g + clock + 1 <= n + (Resumes + len) + t
    BY <1>3, <1>4, <1>5, <1>8, <1>17, <2>1, <2>2
  <2>4. QED
    BY <2>3 DEF n, Paced
<1>21. Begun(b, since', nextSend', clock')
  BY <1>1, <1>9, <1>13, <1>20 DEF Begun
<1>22. Granted(b)
  <2>1. ASSUME NEW q \in Pumps PROVE cum[q] <= g
    <3>1. cum[q] = g \/ cum[q] <= a.granted
      BY <1>9, <1>14 DEF Granted
    <3>2. cum[q] \in Nat
      BY <1>11
    <3>3. QED
      BY <1>5, <1>8, <1>11, <1>17, <3>1, <3>2
  <2>2. QED
    BY <1>13, <2>1 DEF Granted
<1>23. Ahead(b, holds', clock')
  <2>1. ASSUME NEW q \in Pumps, holds'[q].len > 0
        PROVE  /\ start[q] < holds'[q].due + Slack
               /\ \A t \in 1..Window : Paced(cum[q], a.before[t], start[q] + holds'[q].len, t, clock)
    <3>1. CASE q = p
      BY <1>4, <1>14, <1>20, <3>1
    <3>2. CASE q # p
      <4>1. cum[q] = a.cum[q] /\ start[q] = a.start[q] /\ holds'[q] = holds[q]
        BY <1>14, <3>2
      <4>2. QED
        BY <1>9, <2>1, <4>1 DEF Ahead
    <3>3. QED
      BY <3>1, <3>2
  <2>2. QED
    BY <1>1, <1>13, <2>1 DEF Ahead
<1>24. Accounts(b, holds', since', nextSend', clock')
  BY <1>10, <1>13, <1>18, <1>19, <1>21, <1>22, <1>23 DEF Accounts
<1>25. QED
  BY <1>6, <1>12, <1>24 DEF PacingInv

\* A chunk goes no sooner than its time: what it brought the whole to is
\* then on the schedule short of the slack (sessions.rs, pump).
LEMMA ChunkSent ==
    ASSUME NEW p \in Pumps, PacingInv, Sends(p) PROVE PacingInv'
<1> DEFINE len == holds[p].len
<1>1. /\ len > 0 /\ clock >= holds[p].due /\ holds' = [holds EXCEPT ![p] = [len |-> 0, due |-> 0]]
      /\ nextSend' = nextSend /\ clock' = clock /\ since' = [t \in 1..Window |-> since[t] + len]
  BY DEF Sends
<1>2. PacingType
  BY DEF PacingInv
<1>3. clock \in Nat /\ nextSend \in Nat /\ Slack \in Nat /\ Slack > 0 /\ MaxLen \in Nat
  BY <1>2, Bounds DEF PacingType
<1>4. holds[p] \in HoldRecs /\ len \in Nat /\ len <= MaxLen /\ holds[p].due \in Nat
  BY <1>2, Bounds DEF PacingType, HoldRecs
<1>5. \A t \in 1..Window : since[t] \in Nat /\ since'[t] = since[t] + len
  BY <1>1, <1>2 DEF PacingType
<1> HIDE DEF len
<1>6. PacingType'
  <2>1. [len |-> 0, due |-> 0] \in HoldRecs
    BY <1>3 DEF HoldRecs
  <2>2. since' \in [1..Window -> Nat]
    BY <1>1, <1>4, <1>5
  <2>3. QED
    BY <1>1, <1>2, <2>1, <2>2 DEF PacingType
<1>7. PICK a \in AccountRecs : Accounts(a, holds, since, nextSend, clock)
  BY DEF PacingInv
<1> DEFINE total == a.total + len
           top == IF a.top >= a.cum[p] THEN a.top ELSE a.cum[p]
           load == LoadOf(a.load, p, 0)
           b == [total |-> total, granted |-> a.granted, top |-> top, cum |-> a.cum, start |-> a.start,
                 load |-> load, before |-> a.before]
<1>8. /\ a.total \in Nat /\ a.granted \in Nat /\ a.top \in Nat /\ a.cum \in [Pumps -> Nat] /\ a.start \in [Pumps -> Nat]
      /\ a.before \in [1..Window -> Nat] /\ a.load \in [SUBSET Pumps -> Nat]
  BY <1>7 DEF AccountRecs
<1>9. /\ Loads(a.load, holds) /\ Totals(a) /\ Sent(a) /\ Begun(a, since, nextSend, clock)
      /\ Granted(a) /\ Ahead(a, holds, clock)
  BY <1>7 DEF Accounts
<1>10. Loads(load, holds')
  <2>1. 0 \in 0..MaxLen
    BY <1>3
  <2>2. QED
    BY <1>1, <1>2, <1>9, <2>1, LoadMoves DEF PacingType
<1>11. a.cum[p] \in Nat /\ a.start[p] \in Nat
  BY <1>8
<1>12. total \in Nat /\ top \in Nat /\ load \in [SUBSET Pumps -> Nat]
  BY <1>4, <1>8, <1>10, <1>11 DEF Loads
<1>13. b \in AccountRecs
  BY <1>8, <1>12 DEF AccountRecs
<1>14. /\ b.total = total /\ b.granted = a.granted /\ b.top = top /\ b.cum = a.cum /\ b.start = a.start
       /\ b.load = load /\ b.before = a.before
  OBVIOUS
<1>15. ASSUME NEW S \in SUBSET Pumps, p \in S
       PROVE  load[S] \in Nat /\ a.load[S] = load[S] + len
  <2>1. (S \ {p}) \cup {p} = S /\ S \ {p} \in SUBSET Pumps /\ p \in Pumps \ (S \ {p})
    BY <1>15
  <2> DEFINE x == a.load[S \ {p}]
  <2>2. a.load[(S \ {p}) \cup {p}] = x + holds[p].len
    BY <1>9, <2>1 DEF Loads
  <2>3. load[S] = x + 0
    BY <1>15 DEF LoadOf
  <2>4. x \in Nat
    BY <1>8, <2>1
  <2> HIDE DEF x
  <2>5. a.load[S] = x + len
    BY <2>1, <2>2 DEF len
  <2> HIDE DEF load
  <2>6. QED
    BY <2>3, <2>4, <2>5
<1> HIDE DEF load, b
<1>16. total = a.total + len /\ top >= a.top /\ top >= a.cum[p] /\ (top = a.top \/ top = a.cum[p])
  BY <1>8, <1>11
<1> HIDE DEF total, top
<1>17. Totals(b)
  <2>1. a.load[Pumps] = load[Pumps] + len /\ load[Pumps] \in Nat
    BY <1>15
  <2>2. a.granted = a.total + a.load[Pumps] /\ a.top <= a.granted /\ a.cum[p] <= a.granted
    BY <1>9 DEF Totals, Granted
  <2>3. a.granted = total + load[Pumps]
    BY <1>4, <1>8, <1>16, <2>1, <2>2
  <2>4. top <= a.granted
    BY <1>16, <2>2
  <2>5. QED
    BY <1>14, <2>3, <2>4 DEF Totals
<1>18. Sent(b)
  <2> SUFFICES ASSUME NEW x \in Nat, x >= top PROVE total + load[UpTo(a.cum, x)] <= x
    BY <1>14 DEF Sent
  <2> DEFINE U == UpTo(a.cum, x)
  <2>1. a.cum[p] <= x /\ a.top <= x
    BY <1>8, <1>11, <1>12, <1>16
  <2>2. U \in SUBSET Pumps /\ p \in U
    BY <2>1 DEF UpTo
  <2>3. a.total + a.load[U] <= x
    BY <1>9, <2>1 DEF Sent
  <2> HIDE DEF U
  <2>4. load[U] \in Nat /\ a.load[U] = load[U] + len
    BY <1>15, <2>2
  <2>5. total + load[U] <= x
    BY <1>4, <1>8, <1>16, <2>3, <2>4
  <2>6. QED
    BY <2>5 DEF U
<1>19. Begun(b, since', nextSend', clock')
  <2>1. ASSUME NEW t \in 1..Window
        PROVE  a.before[t] + since'[t] <= total + Full /\ top <= a.before[t] + t + Slack + MaxLen
    <3> DEFINE n == a.before[t]  s == since[t]
    <3>1. n \in Nat /\ s \in Nat /\ since'[t] = s + len /\ t \in Nat
      BY <1>5, <1>8, Bounds
    <3>2. n + s <= a.total + Full /\ a.top <= n + t + Slack + MaxLen
      BY <1>9 DEF Begun
    <3>3. a.start[p] < holds[p].due + Slack /\ Paced(a.cum[p], n, a.start[p] + len, t, clock)
      BY <1>1, <1>9 DEF Ahead, len
    <3> HIDE DEF n, s
    <3>4. n + (s + len) <= total + Full
      <4>1. Full \in Nat /\ n \in Nat /\ s \in Nat /\ len \in Nat /\ a.total \in Nat /\ total = a.total + len
        BY <1>4, <1>8, <1>16, <3>1, Bounds
      <4>2. n + s <= a.total + Full
        BY <3>2
      <4>3. QED
        BY <4>1, <4>2
    <3>5. a.cum[p] <= n + t + Slack + MaxLen
      <4>1. a.cum[p] <= n \/ a.cum[p] + clock + 1 <= n + (a.start[p] + len) + t
        BY <3>3 DEF Paced
      <4> DEFINE c == a.cum[p]  due == holds[p].due  st == a.start[p]
      <4>2. c \in Nat /\ due \in Nat /\ st \in Nat /\ due <= clock /\ st < due + Slack
        BY <1>1, <1>3, <1>4, <1>11, <3>3
      <4>3. c <= n \/ c + clock + 1 <= n + (st + len) + t
        BY <4>1
      <4>4. n \in Nat /\ t \in Nat /\ len \in Nat /\ len <= MaxLen
        BY <1>4, <3>1
      <4> HIDE DEF c, due, st
      <4>5. c <= n + t + Slack + MaxLen
        BY <1>3, <4>2, <4>3, <4>4
      <4>6. QED
        BY <4>5 DEF c
    <3>6. QED
      BY <1>16, <3>1, <3>2, <3>4, <3>5 DEF n
  <2>2. QED
    BY <1>1, <1>9, <1>14, <2>1 DEF Begun
<1>20. Granted(b)
  BY <1>9, <1>14 DEF Granted
<1>21. Ahead(b, holds', clock')
  <2>1. \A q \in Pumps : holds'[q].len > 0 => holds'[q] = holds[q]
    BY <1>1, <1>2 DEF PacingType
  <2>2. QED
    BY <1>1, <1>9, <1>14, <2>1 DEF Ahead
<1>22. Accounts(b, holds', since', nextSend', clock')
  BY <1>10, <1>14, <1>17, <1>18, <1>19, <1>20, <1>21 DEF Accounts
<1>23. QED
  BY <1>6, <1>13, <1>22 DEF PacingInv

\* Every window moves on by one, and one begins with what is held then.
LEMMA PacingTicks == PacingInv /\ Ticks => PacingInv'
<1> SUFFICES ASSUME PacingInv, Ticks PROVE PacingInv'
  OBVIOUS
<1>1. /\ clock' = clock + 1 /\ nextSend' = nextSend /\ holds' = holds
      /\ since' = [t \in 1..Window |-> IF t = 1 THEN 0 ELSE since[t - 1]]
  BY DEF Ticks
<1>2. PacingType
  BY DEF PacingInv
<1>3. clock \in Nat /\ nextSend \in Nat /\ Slack \in Nat /\ MaxLen \in Nat
  BY <1>2, Bounds DEF PacingType
<1>4. \A t \in 1..Window : t \in Nat /\ (t # 1 => t - 1 \in 1..Window)
  BY Bounds
<1>5. \A t \in 1..Window : since'[t] \in Nat /\ (t = 1 => since'[t] = 0) /\ (t # 1 => since'[t] = since[t - 1])
  BY <1>1, <1>2, <1>4 DEF PacingType
<1>6. PacingType'
  <2>1. since' \in [1..Window -> Nat]
    BY <1>1, <1>5
  <2>2. QED
    BY <1>1, <1>2, <1>3, <2>1 DEF PacingType
<1>7. PICK a \in AccountRecs : Accounts(a, holds, since, nextSend, clock)
  BY DEF PacingInv
<1> DEFINE before == [t \in 1..Window |-> IF t = 1 THEN a.granted ELSE a.before[t - 1]]
           b == [total |-> a.total, granted |-> a.granted, top |-> a.top, cum |-> a.cum, start |-> a.start,
                 load |-> a.load, before |-> before]
<1>8. /\ a.total \in Nat /\ a.granted \in Nat /\ a.top \in Nat /\ a.cum \in [Pumps -> Nat] /\ a.start \in [Pumps -> Nat]
      /\ a.before \in [1..Window -> Nat] /\ a.load \in [SUBSET Pumps -> Nat]
  BY <1>7 DEF AccountRecs
<1>9. /\ Loads(a.load, holds) /\ Totals(a) /\ Sent(a) /\ Begun(a, since, nextSend, clock)
      /\ Granted(a) /\ Ahead(a, holds, clock)
  BY <1>7 DEF Accounts
<1>10. \A t \in 1..Window : (t = 1 => before[t] = a.granted) /\ (t # 1 => before[t] = a.before[t - 1])
  OBVIOUS
<1>11. before \in [1..Window -> Nat]
  <2>1. \A t \in 1..Window : before[t] \in Nat
    BY <1>4, <1>8
  <2>2. QED
    BY <2>1
<1>12. b \in AccountRecs
  BY <1>8, <1>11 DEF AccountRecs
<1>13. /\ b.total = a.total /\ b.granted = a.granted /\ b.top = a.top /\ b.cum = a.cum /\ b.start = a.start
       /\ b.load = a.load /\ b.before = before
  OBVIOUS
<1> HIDE DEF before, b
<1>14. Totals(b) /\ Sent(b) /\ Granted(b)
  BY <1>9, <1>13 DEF Totals, Sent, Granted
<1>15. ASSUME NEW t \in 1..Window, t # 1, NEW x \in Nat, NEW s \in Nat, Paced(x, a.before[t - 1], s, t - 1, clock)
       PROVE  Paced(x, before[t], s, t, clock + 1)
  <2> DEFINE n == a.before[t - 1]
  <2>1. n \in Nat /\ t \in Nat /\ before[t] = n
    BY <1>4, <1>8, <1>10, <1>15
  <2>2. x <= n \/ x + clock + 1 <= n + s + (t - 1)
    BY <1>15 DEF Paced
  <2> HIDE DEF n
  <2>3. x <= n \/ x + (clock + 1) + 1 <= n + s + t
    BY <1>3, <2>1, <2>2
  <2>4. QED
    BY <2>1, <2>3 DEF Paced
<1>16. Begun(b, since', nextSend', clock')
  <2>1. ASSUME NEW t \in 1..Window
        PROVE  /\ before[t] + since'[t] <= a.total + Full
               /\ Paced(a.granted, before[t], nextSend, t, clock + 1)
               /\ a.top <= before[t] + t + Slack + MaxLen
    <3>1. CASE t = 1
      <4>1. before[t] = a.granted /\ since'[t] = 0
        BY <1>5, <1>10, <3>1
      <4>2. a.granted = a.total + a.load[Pumps] /\ a.top <= a.granted /\ a.load[Pumps] <= Full
        BY <1>9 DEF Totals, Loads, Full
      <4>3. a.load[Pumps] \in Nat
        BY <1>8
      <4>4. a.granted + 0 <= a.total + Full
        BY <1>8, <4>2, <4>3, Bounds
      <4>5. Paced(a.granted, a.granted, nextSend, t, clock + 1)
        BY <1>8 DEF Paced
      <4>6. a.top <= a.granted + t + Slack + MaxLen
        BY <1>3, <1>8, <3>1, <4>2
      <4>7. QED
        BY <4>1, <4>4, <4>5, <4>6
    <3>2. CASE t # 1
      <4> DEFINE n == a.before[t - 1]
      <4>1. t - 1 \in 1..Window /\ t \in Nat /\ n \in Nat /\ before[t] = n /\ since'[t] = since[t - 1]
        BY <1>4, <1>5, <1>8, <1>10, <3>2
      <4>2. /\ n + since[t - 1] <= a.total + Full
            /\ Paced(a.granted, n, nextSend, t - 1, clock)
            /\ a.top <= n + (t - 1) + Slack + MaxLen
        BY <1>9, <4>1 DEF Begun
      <4>3. Paced(a.granted, before[t], nextSend, t, clock + 1)
        BY <1>3, <1>8, <1>15, <3>2, <4>2
      <4> HIDE DEF n
      <4>4. a.top <= n + t + Slack + MaxLen
        BY <1>3, <1>8, <4>1, <4>2
      <4>5. QED
        BY <4>1, <4>2, <4>3, <4>4
    <3>3. QED
      BY <3>1, <3>2
  <2>2. QED
    BY <1>1, <1>13, <2>1 DEF Begun
<1>17. Ahead(b, holds', clock')
  <2>1. ASSUME NEW q \in Pumps, holds[q].len > 0, NEW t \in 1..Window
        PROVE  Paced(a.cum[q], before[t], a.start[q] + holds[q].len, t, clock + 1)
    <3>1. a.cum[q] \in Nat /\ a.start[q] \in Nat /\ holds[q].len \in Nat
      BY <1>2, <1>3, <1>8 DEF PacingType, HoldRecs
    <3>2. CASE t = 1
      BY <1>9, <1>10, <3>2 DEF Paced, Granted
    <3>3. CASE t # 1
      <4>1. Paced(a.cum[q], a.before[t - 1], a.start[q] + holds[q].len, t - 1, clock)
        BY <1>4, <1>9, <2>1, <3>3 DEF Ahead
      <4>2. a.start[q] + holds[q].len \in Nat
        BY <3>1
      <4>3. QED
        BY <1>15, <3>1, <3>3, <4>1, <4>2
    <3>4. QED
      BY <3>2, <3>3
  <2>2. \A q \in Pumps : holds[q].len > 0 => a.start[q] < holds[q].due + Slack
    BY <1>9 DEF Ahead
  <2>3. QED
    BY <1>1, <1>13, <2>1, <2>2 DEF Ahead
<1>18. Accounts(b, holds', since', nextSend', clock')
  BY <1>1, <1>9, <1>13, <1>14, <1>16, <1>17 DEF Accounts
<1>19. QED
  BY <1>6, <1>12, <1>18 DEF PacingInv

\* No step of the pacer leaves more sent than the schedule allows.
LEMMA PacingKept == PacingInv /\ [PacingNext]_pacingVars => PacingInv'
<1> SUFFICES ASSUME PacingInv, [PacingNext]_pacingVars PROVE PacingInv'
  OBVIOUS
<1>1. CASE UNCHANGED pacingVars
  BY <1>1 DEF pacingVars, PacingInv, PacingType
<1>2. CASE \E p \in Pumps : Sends(p)
  BY <1>2, ChunkSent
<1>3. CASE \E p \in Pumps : \E len \in 1..MaxLen : Takes(p, len)
  BY <1>3, ChunkTaken
<1>4. CASE Ticks
  BY <1>4, PacingTicks
<1>5. QED
  BY <1>1, <1>2, <1>3, <1>4 DEF PacingNext

\* What was sent is no more than the account's last chunk brought it to.
LEMMA RateBounded == PacingInv => WithinRate
<1> SUFFICES ASSUME PacingInv, NEW t \in 1..Window
             PROVE  since[t] <= t + Slack + (Cardinality(Pumps) + 1) * MaxLen
  BY DEF WithinRate
<1>1. PICK a \in AccountRecs : Accounts(a, holds, since, nextSend, clock)
  BY DEF PacingInv
<1> DEFINE U == UpTo(a.cum, a.top)  n == a.before[t]  s == since[t]
<1>2. U \in SUBSET Pumps /\ a.total \in Nat /\ a.top \in Nat /\ a.load \in [SUBSET Pumps -> Nat] /\ n \in Nat
  BY <1>1 DEF AccountRecs, UpTo
<1>3. s \in Nat /\ t \in Nat /\ MaxLen \in Nat /\ Slack \in Nat
  BY Bounds DEF PacingInv, PacingType
<1>4. a.total + a.load[U] <= a.top
  BY <1>1, <1>2 DEF Accounts, Sent
<1>5. a.load[U] \in Nat
  BY <1>2
<1>6. n + s <= a.total + Full /\ a.top <= n + t + Slack + MaxLen
  BY <1>1 DEF Accounts, Begun
<1>7. (Cardinality(Pumps) + 1) * MaxLen = Full + MaxLen
  BY <1>3, Bounds DEF Full
<1> HIDE DEF U, n, s
<1>8. s <= t + Slack + (Full + MaxLen)
  BY <1>2, <1>3, <1>4, <1>5, <1>6, Bounds
<1>9. QED
  BY <1>7, <1>8 DEF s

\* Over any window all the sessions together put no more on the air than
\* its allowance, the slack, and what each pump and the schedule may have
\* had in hand as it began (pacing.rs, wait_for).
THEOREM RateHeld == PacingSpec => []WithinRate
<1>1. PacingSpec => []PacingInv
  BY PacingStarts, PacingKept, PTL DEF PacingSpec
<1>2. QED
  BY <1>1, RateBounded, PTL
-----------------------------------------------------------------------------
\* The page's hold on a device: the link alone, the page beside it, and
\* then each step of the page.

Awaits == {"none", "dropping", "connecting", "asking", "slot", "starting", "shaking", "failing", "cut", "hung"}
LinkRecs ==
    [device : BOOLEAN, channel : Nat, generation : Nat, attached : Nat, notifying : BOOLEAN, up : BOOLEAN,
     session : BOOLEAN, stops : SUBSET Nat, opens : [OpenIds -> Awaits]]

\* What a link is to a page, whatever the page does: listeners are those
\* of the last open, one that asks of the device is the last and has it,
\* and a session not the device's has its notifications being turned off.
Listens(l) == l.attached # 0 => l.attached = l.generation /\ l.channel = l.attached /\ l.device /\ l.up
AsksLast(l) ==
    \A n \in OpenIds :
        /\ n > l.generation => l.opens[n] = "none"
        /\ l.opens[n] \in {"asking", "slot", "starting"} => n = l.generation /\ ~l.notifying /\ l.up /\ l.device
        /\ l.opens[n] = "shaking" => l.up
        /\ n = l.generation /\ l.opens[n] \in {"dropping", "connecting"} => l.device /\ ~l.notifying
        /\ n = l.generation /\ l.opens[n] \in {"dropping", "connecting", "asking", "slot"} => l.attached = 0
Stopping(l) ==
    \A g \in l.stops : /\ g <= l.generation
                       /\ g = l.generation => l.attached = 0
                       /\ g \in OpenIds => l.opens[g] = "none"
Sessions(l) ==
    /\ l.session => l.up
    /\ l.session /\ ~l.device => l.stops # {}
    /\ l.notifying => l.device
LinkHeld(l) == l \in LinkRecs /\ Listens(l) /\ AsksLast(l) /\ Stopping(l) /\ Sessions(l)

Shook(l) == \A n \in OpenIds : n = l.generation /\ l.opens[n] \in {"starting", "shaking"} => l.attached = n

\* An await left as it was, or failed with the connection.
Fell(a, b) ==
    \/ b = a
    \/ a \in {"asking", "slot", "starting"} /\ b = "failing"
    \/ a = "shaking" /\ b = "cut"
FellFrom(l, m) == \A n \in OpenIds : Fell(l.opens[n], m.opens[n])

\* Opens are numbered from one.
LEMMA Ids == OpenIds \subseteq Nat \ {0} /\ MaxGenerations \in Nat
BY WebLinkAssumption DEF OpenIds

\* The connection gone (link.js, the gattserverdisconnected listener).
LEMMA DownIs ==
    ASSUME NEW l \in LinkRecs, AsksLast(l), Stopping(l), Sessions(l)
    PROVE  /\ LinkHeld(Down(l)) /\ Shook(Down(l)) /\ FellFrom(l, Down(l))
           /\ Down(l).generation = l.generation /\ Down(l).attached = 0 /\ Down(l).device = l.device
           /\ Down(l).stops = l.stops /\ Down(l).notifying = l.notifying
<1> DEFINE m == Down(l)
<1>1. /\ m.generation = l.generation /\ m.attached = 0 /\ m.device = l.device /\ m.stops = l.stops
      /\ m.notifying = l.notifying /\ m.channel = l.channel /\ m.up = FALSE /\ m.session = FALSE
      /\ \A n \in OpenIds : m.opens[n] = IF l.up THEN Fails(l.opens[n]) ELSE l.opens[n]
  BY DEF Down, LinkRecs
<1>2. \A n \in OpenIds : l.opens[n] \in Awaits
  BY DEF LinkRecs
<1>3. \A pc \in Awaits : Fails(pc) \in Awaits /\ Fell(pc, Fails(pc))
                         /\ Fails(pc) \notin {"asking", "slot", "starting", "shaking"}
                         /\ (pc \in {"none", "dropping", "connecting"} => Fails(pc) = pc)
                         /\ (Fails(pc) \in {"none", "dropping", "connecting"} => Fails(pc) = pc)
  BY DEF Fails, Awaits, Fell
<1>4. m \in LinkRecs
  <2>1. [n \in OpenIds |-> IF l.up THEN Fails(l.opens[n]) ELSE l.opens[n]] \in [OpenIds -> Awaits]
    BY <1>2, <1>3
  <2>2. QED
    BY <2>1 DEF Down, LinkRecs
<1> HIDE DEF m
<1>5. \A n \in OpenIds : Fell(l.opens[n], m.opens[n])
  BY <1>1, <1>2, <1>3 DEF Fell
<1>6. AsksLast(m)
  BY <1>1, <1>2, <1>3 DEF AsksLast
<1>7. Stopping(m)
  BY <1>1, <1>2, <1>3 DEF Stopping
<1>8. Listens(m) /\ Sessions(m)
  BY <1>1 DEF Listens, Sessions
<1>9. Shook(m)
  BY <1>1, <1>2, <1>3 DEF Shook, AsksLast
<1>10. QED
  BY <1>1, <1>4, <1>5, <1>6, <1>7, <1>8, <1>9 DEF LinkHeld, FellFrom, m

\* A device let go of (link.js, disconnect).
LEMMA LetGoIs ==
    ASSUME NEW l, LinkHeld(l)
    PROVE  /\ LinkHeld(letGoOf(l)) /\ Shook(letGoOf(l)) /\ FellFrom(l, letGoOf(l))
           /\ letGoOf(l).generation = l.generation + 1 /\ letGoOf(l).attached = 0
<1> DEFINE g == l.generation + 1
           k == [l EXCEPT !.generation = g, !.attached = 0, !.device = FALSE, !.channel = 0, !.notifying = FALSE]
           m == [k EXCEPT !.stops = @ \cup {g}]
<1>1. l \in LinkRecs /\ g \in Nat
  BY DEF LinkHeld, LinkRecs
<1>2. k \in LinkRecs /\ m \in LinkRecs
  BY <1>1 DEF LinkRecs
<1>3. /\ k.generation = g /\ k.attached = 0 /\ k.device = FALSE /\ k.channel = 0 /\ k.notifying = FALSE
      /\ k.up = l.up /\ k.session = l.session /\ k.stops = l.stops /\ k.opens = l.opens
  BY <1>1 DEF LinkRecs
<1>4. /\ m.generation = g /\ m.attached = 0 /\ m.device = FALSE /\ m.channel = 0 /\ m.notifying = FALSE
      /\ m.up = l.up /\ m.session = l.session /\ m.stops = l.stops \cup {g} /\ m.opens = l.opens
  BY <1>1 DEF LinkRecs
<1>5. letGoOf(l) = IF ~l.device \/ ~l.up THEN k ELSE IF l.notifying THEN m ELSE Down(k)
  BY DEF letGoOf
<1>6. /\ l.generation \in Nat /\ g > l.generation /\ l.stops \subseteq Nat /\ l.device \in BOOLEAN /\ l.up \in BOOLEAN
      /\ \A n \in OpenIds : l.opens[n] \in Awaits
  BY <1>1 DEF LinkRecs
<1>7. /\ \A n \in OpenIds : n \in Nat /\ (n > l.generation => l.opens[n] = "none")
      /\ \A n \in OpenIds : l.opens[n] \in {"asking", "slot", "starting"} => ~l.notifying /\ l.up /\ l.device
      /\ \A n \in OpenIds : l.opens[n] = "shaking" => l.up
  BY Ids DEF LinkHeld, AsksLast
<1>8. /\ \A h \in l.stops : h <= l.generation /\ (h \in OpenIds => l.opens[h] = "none")
      /\ l.session => l.up
      /\ l.session /\ ~l.device => l.stops # {}
  BY DEF LinkHeld, Stopping, Sessions
<1> HIDE DEF g, k, m
<1>9. Stopping(k) /\ Stopping(m)
  <2>1. \A h \in l.stops : h <= g /\ h # g
    BY <1>1, <1>6, <1>8
  <2>2. g \in OpenIds => l.opens[g] = "none"
    BY <1>6, <1>7
  <2>3. QED
    BY <1>1, <1>3, <1>4, <1>8, <2>1, <2>2 DEF Stopping
<1>10. CASE ~l.device \/ ~l.up
  <2>1. \A n \in OpenIds : l.opens[n] \notin {"asking", "slot", "starting"}
    BY <1>7, <1>10
  <2>2. AsksLast(k)
    <3>1. \A n \in OpenIds : n > g => l.opens[n] = "none"
      BY <1>1, <1>6, <1>7
    <3>2. \A n \in OpenIds : n = g => l.opens[n] = "none"
      BY <1>6, <1>7
    <3>3. QED
      BY <1>3, <1>7, <2>1, <3>1, <3>2 DEF AsksLast
  <2>3. Shook(k)
    BY <1>3, <1>6, <1>7 DEF Shook
  <2>4. Sessions(k) /\ Listens(k)
    BY <1>3, <1>8, <1>10 DEF Sessions, Listens
  <2>5. FellFrom(l, k)
    BY <1>3 DEF FellFrom, Fell
  <2>6. QED
    BY <1>2, <1>3, <1>5, <1>9, <1>10, <2>2, <2>3, <2>4, <2>5 DEF LinkHeld, g
<1>11. CASE l.device /\ l.up /\ l.notifying
  <2>1. \A n \in OpenIds : l.opens[n] \notin {"asking", "slot", "starting"}
    BY <1>7, <1>11
  <2>2. AsksLast(m)
    <3>1. \A n \in OpenIds : n > g => l.opens[n] = "none"
      BY <1>1, <1>6, <1>7
    <3>2. \A n \in OpenIds : n = g => l.opens[n] = "none"
      BY <1>6, <1>7
    <3>3. QED
      BY <1>4, <1>7, <2>1, <3>1, <3>2 DEF AsksLast
  <2>3. Shook(m)
    BY <1>4, <1>6, <1>7 DEF Shook
  <2>4. Sessions(m) /\ Listens(m)
    BY <1>4, <1>8, <1>11 DEF Sessions, Listens
  <2>5. FellFrom(l, m)
    BY <1>4 DEF FellFrom, Fell
  <2>6. QED
    BY <1>2, <1>4, <1>5, <1>9, <1>11, <2>2, <2>3, <2>4, <2>5 DEF LinkHeld, g
<1>12. CASE l.device /\ l.up /\ ~l.notifying
  <2> DEFINE x == Down(k)
  <2>1. \A n \in OpenIds : x.opens[n] = Fails(l.opens[n])
    BY <1>3, <1>2, <1>12 DEF Down, LinkRecs
  <2>2. /\ x \in LinkRecs /\ x.generation = g /\ x.attached = 0 /\ x.device = FALSE /\ x.notifying = FALSE
        /\ x.up = FALSE /\ x.session = FALSE /\ x.stops = l.stops
    <3>1. \A pc \in Awaits : Fails(pc) \in Awaits
      BY DEF Fails, Awaits
    <3>2. [n \in OpenIds |-> IF k.up THEN Fails(k.opens[n]) ELSE k.opens[n]] \in [OpenIds -> Awaits]
      BY <1>3, <1>6, <3>1
    <3>3. QED
      BY <1>2, <1>3, <3>2 DEF Down, LinkRecs
  <2>3. \A pc \in Awaits : Fell(pc, Fails(pc)) /\ Fails(pc) \notin {"asking", "slot", "starting", "shaking"}
                           /\ (pc = "none" => Fails(pc) = "none")
    BY DEF Fails, Awaits, Fell
  <2> HIDE DEF x
  <2>4. \A n \in OpenIds : n > g \/ n = g => x.opens[n] = "none"
    BY <1>1, <1>6, <1>7, <2>1, <2>3
  <2>5. AsksLast(x) /\ Shook(x)
    BY <1>6, <2>1, <2>2, <2>3, <2>4 DEF AsksLast, Shook
  <2>6. Stopping(x)
    BY <1>3, <1>6, <1>9, <2>1, <2>2, <2>3 DEF Stopping
  <2>7. Sessions(x) /\ Listens(x)
    BY <2>2 DEF Sessions, Listens
  <2>8. FellFrom(l, x)
    BY <1>6, <2>1, <2>3 DEF FellFrom
  <2>9. QED
    BY <1>5, <1>12, <2>2, <2>5, <2>6, <2>7, <2>8 DEF LinkHeld, g, x
<1>13. QED
  BY <1>6, <1>10, <1>11, <1>12 DEF LinkHeld, Sessions, LinkRecs

\* Notifications off (link.js, drop).
LEMMA OffIs ==
    ASSUME NEW l, LinkHeld(l), NEW g \in Nat
    PROVE  /\ LinkHeld(NotificationsOff(l, g)) /\ FellFrom(l, NotificationsOff(l, g))
           /\ Shook(l) => Shook(NotificationsOff(l, g))
           /\ NotificationsOff(l, g).generation = l.generation /\ NotificationsOff(l, g).device = l.device
           /\ NotificationsOff(l, g).notifying = l.notifying
           /\ IF g = l.generation THEN NotificationsOff(l, g).attached = 0
              ELSE NotificationsOff(l, g).attached = l.attached /\ NotificationsOff(l, g).opens = l.opens
<1> DEFINE m == [l EXCEPT !.stops = @ \ {g}, !.session = @ /\ l.notifying]
<1>1. l \in LinkRecs
  BY DEF LinkHeld
<1>2. m \in LinkRecs
  <2>1. (l.session /\ l.notifying) \in BOOLEAN /\ l.stops \ {g} \in SUBSET Nat
    BY <1>1 DEF LinkRecs
  <2>2. QED
    BY <1>1, <2>1 DEF LinkRecs
<1>3. /\ m.generation = l.generation /\ m.attached = l.attached /\ m.device = l.device /\ m.channel = l.channel
      /\ m.notifying = l.notifying /\ m.up = l.up /\ m.stops = l.stops \ {g} /\ m.opens = l.opens
      /\ m.session = (l.session /\ l.notifying)
  BY <1>1 DEF LinkRecs
<1>4. NotificationsOff(l, g) = IF g = l.generation THEN Down(m) ELSE m
  BY DEF NotificationsOff
<1> HIDE DEF m
<1>5. Listens(m) /\ AsksLast(m) /\ Stopping(m)
  BY <1>3 DEF LinkHeld, Listens, AsksLast, Stopping
<1>6. Sessions(m)
  BY <1>3 DEF LinkHeld, Sessions
<1>7. FellFrom(l, m) /\ (Shook(l) => Shook(m))
  BY <1>3 DEF FellFrom, Fell, Shook
<1>8. CASE g = l.generation
  <2>1. LinkHeld(Down(m)) /\ Shook(Down(m)) /\ FellFrom(m, Down(m)) /\ Down(m).generation = m.generation
        /\ Down(m).attached = 0 /\ Down(m).device = m.device /\ Down(m).notifying = m.notifying
    BY <1>2, <1>5, <1>6, DownIs
  <2>2. FellFrom(l, Down(m))
    BY <1>3, <2>1 DEF FellFrom
  <2>3. QED
    BY <1>3, <1>4, <1>8, <2>1, <2>2
<1>9. CASE g # l.generation
  BY <1>2, <1>3, <1>4, <1>5, <1>6, <1>7, <1>9 DEF LinkHeld
<1>10. QED
  BY <1>8, <1>9

\* An open begun (link.js, open).
LEMMA OpenBeginsIs ==
    ASSUME NEW l, LinkHeld(l), CanOpen(l), l.device
    PROVE  /\ LinkHeld(OpenBegins(l)) /\ Shook(OpenBegins(l))
           /\ OpenBegins(l).generation = l.generation + 1 /\ OpenBegins(l).attached = 0
           /\ l.generation + 1 \in OpenIds
           /\ OpenBegins(l).opens[l.generation + 1] \in {"dropping", "connecting"}
           /\ \A n \in OpenIds : n # l.generation + 1 => Fell(l.opens[n], OpenBegins(l).opens[n])
<1> DEFINE g == l.generation + 1
           m == [l EXCEPT !.generation = g, !.attached = 0, !.notifying = FALSE]
<1>1. l \in LinkRecs
  BY DEF LinkHeld
<1>2. /\ l.generation \in Nat /\ g \in Nat /\ g > l.generation /\ g \in OpenIds
      /\ l.stops \subseteq Nat /\ \A n \in OpenIds : l.opens[n] \in Awaits
  BY <1>1, Ids DEF LinkRecs, CanOpen, OpenIds
<1>3. m \in LinkRecs
  BY <1>1, <1>2 DEF LinkRecs
<1>4. /\ m.generation = g /\ m.attached = 0 /\ m.device = l.device /\ m.notifying = FALSE /\ m.up = l.up
      /\ m.session = l.session /\ m.stops = l.stops /\ m.opens = l.opens
  BY <1>1 DEF LinkRecs
<1>5. OpenBegins(l) = IF l.up /\ l.notifying THEN [m EXCEPT !.opens[g] = "dropping"]
                      ELSE [Down(m) EXCEPT !.opens[g] = "connecting"]
  BY DEF OpenBegins
<1>6. /\ \A n \in OpenIds : n \in Nat /\ (n > l.generation => l.opens[n] = "none")
      /\ \A n \in OpenIds : l.opens[n] \in {"asking", "slot", "starting"} => ~l.notifying /\ l.up
      /\ \A n \in OpenIds : l.opens[n] = "shaking" => l.up
      /\ \A h \in l.stops : h <= l.generation /\ (h \in OpenIds => l.opens[h] = "none")
  BY Ids DEF LinkHeld, AsksLast, Stopping
<1> HIDE DEF g, m
<1>7. \A h \in l.stops : h <= g /\ h # g
  BY <1>2, <1>6
<1>8. \A n \in OpenIds : n > g => l.opens[n] = "none"
  BY <1>2, <1>6
<1>9. CASE l.up /\ l.notifying
  <2> DEFINE x == [m EXCEPT !.opens[g] = "dropping"]
  <2>1. x \in LinkRecs
    BY <1>2, <1>3 DEF LinkRecs, Awaits
  <2>2. /\ x.generation = g /\ x.attached = 0 /\ x.device = l.device /\ x.notifying = FALSE /\ x.up = l.up
        /\ x.session = l.session /\ x.stops = l.stops /\ x.opens[g] = "dropping"
        /\ \A n \in OpenIds : n # g => x.opens[n] = l.opens[n]
    BY <1>2, <1>3, <1>4 DEF LinkRecs
  <2> HIDE DEF x
  <2>3. AsksLast(x)
    BY <1>6, <1>8, <1>9, <2>2 DEF AsksLast
  <2>4. Stopping(x)
    BY <1>6, <1>7, <2>2 DEF Stopping
  <2>5. Listens(x) /\ Sessions(x) /\ Shook(x)
    BY <1>9, <2>2 DEF Listens, Sessions, Shook
  <2>6. QED
    BY <1>2, <1>5, <1>9, <2>1, <2>2, <2>3, <2>4, <2>5 DEF LinkHeld, Fell, x, g
<1>10. CASE ~(l.up /\ l.notifying)
  <2> DEFINE y == Down(m)  x == [y EXCEPT !.opens[g] = "connecting"]
  <2>1. /\ y.generation = g /\ y.attached = 0 /\ y.device = l.device /\ y.stops = l.stops /\ y.notifying = FALSE
        /\ y.up = FALSE /\ y.session = FALSE
        /\ \A n \in OpenIds : y.opens[n] = IF l.up THEN Fails(l.opens[n]) ELSE l.opens[n]
    BY <1>3, <1>4 DEF Down, LinkRecs
  <2>2. \A pc \in Awaits : Fails(pc) \in Awaits /\ Fell(pc, Fails(pc))
                           /\ Fails(pc) \notin {"asking", "slot", "starting", "shaking"}
                           /\ (pc \in {"none", "dropping", "connecting"} => Fails(pc) = pc)
    BY DEF Fails, Awaits, Fell
  <2>3. y \in LinkRecs
    <3>1. [n \in OpenIds |-> IF m.up THEN Fails(m.opens[n]) ELSE m.opens[n]] \in [OpenIds -> Awaits]
      BY <1>2, <1>4, <2>2
    <3>2. QED
      BY <1>3, <3>1 DEF Down, LinkRecs
  <2> HIDE DEF y
  <2>4. x \in LinkRecs
    BY <1>2, <2>3 DEF LinkRecs, Awaits
  <2>5. /\ x.generation = g /\ x.attached = 0 /\ x.device = l.device /\ x.notifying = FALSE /\ x.up = FALSE
        /\ x.session = FALSE /\ x.stops = l.stops /\ x.opens[g] = "connecting"
        /\ \A n \in OpenIds : n # g => x.opens[n] = y.opens[n]
    BY <1>2, <2>1, <2>3 DEF LinkRecs
  <2> HIDE DEF x
  <2>6. \A n \in OpenIds : n # g => /\ Fell(l.opens[n], x.opens[n])
                                    /\ x.opens[n] \notin {"asking", "slot", "starting", "shaking"}
                                    /\ l.opens[n] = "none" => x.opens[n] = "none"
    BY <1>2, <1>6, <2>1, <2>2, <2>5 DEF Fell
  <2>7. AsksLast(x)
    <3>1. \A n \in OpenIds : n # g => x.opens[n] \notin {"asking", "slot", "starting", "shaking"}
      BY <2>6
    <3>2. \A n \in OpenIds : n > g => x.opens[n] = "none"
      <4>1. \A n \in OpenIds : n > g => n # g
        BY <1>2, <1>6
      <4>2. QED
        BY <1>8, <2>6, <4>1
    <3>3. QED
      BY <2>5, <3>1, <3>2 DEF AsksLast
  <2>8. Stopping(x)
    BY <1>6, <1>7, <2>5, <2>6 DEF Stopping
  <2>9. Listens(x) /\ Sessions(x) /\ Shook(x)
    BY <2>5 DEF Listens, Sessions, Shook
  <2>10. QED
    BY <1>2, <1>5, <1>10, <2>4, <2>5, <2>6, <2>7, <2>8, <2>9 DEF LinkHeld, x, y, g
<1>11. QED
  BY <1>9, <1>10

\* An open moved on to another await, and nothing else.
May(l, n, pc) ==
    /\ pc \in {"asking", "slot", "starting"} => n = l.generation /\ ~l.notifying /\ l.up /\ l.device
    /\ pc = "shaking" => l.up
    /\ n = l.generation /\ pc \in {"dropping", "connecting"} => l.device /\ ~l.notifying
    /\ n = l.generation /\ pc \in {"dropping", "connecting", "asking", "slot"} => l.attached = 0
\* What that leaves of the link.
LEMMA AtIs ==
    ASSUME NEW l \in LinkRecs, NEW n \in OpenIds, NEW pc \in Awaits
    PROVE  /\ At(l, n, pc) \in LinkRecs
           /\ At(l, n, pc).device = l.device /\ At(l, n, pc).channel = l.channel
           /\ At(l, n, pc).generation = l.generation /\ At(l, n, pc).attached = l.attached
           /\ At(l, n, pc).notifying = l.notifying /\ At(l, n, pc).up = l.up
           /\ At(l, n, pc).session = l.session /\ At(l, n, pc).stops = l.stops
           /\ At(l, n, pc).opens[n] = pc
           /\ \A m \in OpenIds : m # n => At(l, n, pc).opens[m] = l.opens[m]
BY DEF LinkRecs, At

\* It is still all that a link is to a page.
LEMMA AtHeld ==
    ASSUME NEW l, LinkHeld(l), NEW n \in OpenIds, NEW pc \in Awaits, n <= l.generation, n \notin l.stops, May(l, n, pc)
    PROVE  LinkHeld(At(l, n, pc))
<1> DEFINE x == At(l, n, pc)
<1>1. l \in LinkRecs /\ Listens(l) /\ AsksLast(l) /\ Stopping(l) /\ Sessions(l)
  BY DEF LinkHeld
<1>2. /\ x \in LinkRecs /\ x.device = l.device /\ x.channel = l.channel /\ x.generation = l.generation
      /\ x.attached = l.attached /\ x.notifying = l.notifying /\ x.up = l.up /\ x.session = l.session
      /\ x.stops = l.stops /\ x.opens[n] = pc /\ \A m \in OpenIds : m # n => x.opens[m] = l.opens[m]
  BY <1>1, AtIs
<1>3. ~(n > l.generation)
  BY <1>1, Ids DEF LinkRecs
<1> HIDE DEF x
<1>4. AsksLast(x)
  BY <1>1, <1>2, <1>3 DEF AsksLast, May
<1>5. Stopping(x)
  BY <1>1, <1>2 DEF Stopping
<1>6. Listens(x) /\ Sessions(x)
  BY <1>1, <1>2 DEF Listens, Sessions
<1>7. QED
  BY <1>2, <1>4, <1>5, <1>6 DEF LinkHeld, x

\* What a step of an open does to the link and tells the page.
Underway == {"dropping", "connecting", "asking", "slot", "starting", "shaking"}
StepDone(l, n, r) ==
    /\ LinkHeld(r.link) /\ (Shook(l) => Shook(r.link)) /\ r.link.generation = l.generation
    /\ r.out \in {"on", "rejected", "resolved"} /\ l.opens[n] \notin {"none", "hung"}
    /\ \A m \in OpenIds : m # n => Fell(l.opens[m], r.link.opens[m])
    /\ \A m \in OpenIds : m # n => r.link.opens[m] = l.opens[m] \/ r.link.attached = 0
    /\ r.out = "on" => /\ ~r.told /\ l.opens[n] # "failing"
                       /\ r.link.opens[n] \in IF l.opens[n] = "cut" THEN {"hung"} ELSE Underway
    /\ r.out # "on" => r.link.opens[n] = "none"
    /\ r.out = "resolved" => n = l.generation /\ l.opens[n] = "shaking" /\ ~r.told /\ r.link.attached = l.attached
    /\ IF r.told THEN r.out = "rejected" /\ l.attached # 0 /\ r.link.attached = 0
       ELSE r.link.attached = l.attached \/ (l.attached = 0 /\ r.link.attached = n)

\* An open that fails without taking the link with it.
LEMMA RejectedIs ==
    ASSUME NEW l, LinkHeld(l), NEW n \in OpenIds, l.opens[n] \notin {"none", "hung"}
    PROVE  StepDone(l, n, Rejected(l, n))
<1> DEFINE x == At(l, n, "none")  r == Rejected(l, n)
<1>1. l \in LinkRecs /\ Listens(l) /\ AsksLast(l) /\ Stopping(l) /\ Sessions(l)
  BY DEF LinkHeld
<1>2. "none" \in Awaits
  BY DEF Awaits
<1>3. n <= l.generation /\ n \notin l.stops
  BY <1>1, Ids DEF AsksLast, Stopping, LinkRecs
<1>4. LinkHeld(x)
  BY <1>2, <1>3, AtHeld DEF May
<1>5. /\ x.generation = l.generation /\ x.attached = l.attached /\ x.opens[n] = "none"
      /\ \A m \in OpenIds : m # n => x.opens[m] = l.opens[m]
  BY <1>1, <1>2, AtIs
<1>6. r.link = x /\ r.out = "rejected" /\ r.told = FALSE
  BY DEF Rejected, Result
<1> HIDE DEF x, r
<1>7. Shook(l) => Shook(x)
  BY <1>5 DEF Shook
<1>8. StepDone(l, n, r)
  BY <1>4, <1>5, <1>6, <1>7 DEF StepDone, Fell
<1>9. QED
  BY <1>8 DEF r

\* An open overtaken, which takes the connection there is with it.
LEMMA OvertakenIs ==
    ASSUME NEW l, LinkHeld(l), NEW n \in OpenIds, l.opens[n] \notin {"none", "hung"}, n # l.generation
    PROVE  StepDone(l, n, [Rejected(Down(l), n) EXCEPT !.told = l.attached # 0])
<1> DEFINE d == Down(l)  x == At(d, n, "none")  r == [Rejected(d, n) EXCEPT !.told = l.attached # 0]
<1>1. l \in LinkRecs /\ Listens(l) /\ AsksLast(l) /\ Stopping(l) /\ Sessions(l)
  BY DEF LinkHeld
<1>2. /\ LinkHeld(d) /\ Shook(d) /\ FellFrom(l, d) /\ d.generation = l.generation /\ d.attached = 0 /\ d.stops = l.stops
      /\ d \in LinkRecs
  BY <1>1, DownIs DEF LinkHeld
<1> HIDE DEF d
<1>3. "none" \in Awaits
  BY DEF Awaits
<1>4. n <= d.generation /\ n \notin d.stops
  BY <1>1, <1>2, Ids DEF AsksLast, Stopping, LinkRecs
<1>5. LinkHeld(x)
  BY <1>2, <1>3, <1>4, AtHeld DEF May
<1>6. /\ x.generation = d.generation /\ x.attached = 0 /\ x.opens[n] = "none"
      /\ \A m \in OpenIds : m # n => x.opens[m] = d.opens[m]
  BY <1>2, <1>3, AtIs
<1>7. r.link = x /\ r.out = "rejected" /\ r.told = (l.attached # 0)
  BY DEF Rejected, Result
<1> HIDE DEF x, r
<1>8. Shook(x)
  BY <1>2, <1>6 DEF Shook
<1>9. \A m \in OpenIds : m # n => Fell(l.opens[m], x.opens[m])
  BY <1>2, <1>6 DEF FellFrom
<1>10. StepDone(l, n, r)
  BY <1>2, <1>5, <1>6, <1>7, <1>8, <1>9 DEF StepDone
<1>11. QED
  BY <1>10 DEF r, d

\* An open that goes on to its next await.
LEMMA OnIs ==
    ASSUME NEW l, LinkHeld(l), NEW n \in OpenIds, l.opens[n] \in Underway, NEW pc \in Underway \ {"starting", "shaking"},
           May(l, n, pc)
    PROVE  StepDone(l, n, Result(At(l, n, pc), "on", FALSE))
<1> DEFINE x == At(l, n, pc)  r == Result(x, "on", FALSE)
<1>1. l \in LinkRecs /\ Listens(l) /\ AsksLast(l) /\ Stopping(l) /\ Sessions(l)
  BY DEF LinkHeld
<1>2. pc \in Awaits /\ l.opens[n] \notin {"none", "hung", "cut", "failing"}
  BY DEF Awaits, Underway
<1>3. n <= l.generation /\ n \notin l.stops
  BY <1>1, <1>2, Ids DEF AsksLast, Stopping, LinkRecs
<1>4. LinkHeld(x)
  BY <1>2, <1>3, AtHeld
<1>5. /\ x.generation = l.generation /\ x.attached = l.attached /\ x.opens[n] = pc
      /\ \A m \in OpenIds : m # n => x.opens[m] = l.opens[m]
  BY <1>1, <1>2, AtIs
<1>6. r.link = x /\ r.out = "on" /\ r.told = FALSE
  BY DEF Result
<1> HIDE DEF x, r
<1>7. Shook(l) => Shook(x)
  BY <1>5 DEF Shook
<1>8. StepDone(l, n, r)
  BY <1>2, <1>4, <1>5, <1>6, <1>7 DEF StepDone, Fell
<1>9. QED
  BY <1>8 DEF r, x

\* The await an open is at, and what can have overtaken it.
LEMMA DroppingStep ==
    ASSUME NEW l, LinkHeld(l), NEW n \in OpenIds, l.opens[n] = "dropping", NEW r \in Resolves(l, n)
    PROVE  StepDone(l, n, r)
<1> DEFINE m == NotificationsOff(l, n)
<1>1. l \in LinkRecs /\ AsksLast(l) /\ n \in Nat
  BY Ids DEF LinkHeld
<1>2. /\ LinkHeld(m) /\ FellFrom(l, m) /\ (Shook(l) => Shook(m)) /\ m.generation = l.generation /\ m.device = l.device
      /\ m.notifying = l.notifying
      /\ IF n = l.generation THEN m.attached = 0 ELSE m.attached = l.attached /\ m.opens = l.opens
  BY <1>1, OffIs
<1>3. r = IF l.device THEN Result(At(m, n, "connecting"), "on", FALSE) ELSE Rejected(m, n)
  BY DEF Resolves
<1> HIDE DEF m
<1>4. m.opens[n] = "dropping"
  BY <1>2 DEF FellFrom, Fell
<1>5. May(m, n, "connecting")
  BY <1>1, <1>2 DEF May, AsksLast
<1>6. StepDone(m, n, r)
  <2>1. CASE l.device
    <3>1. m.opens[n] \in Underway /\ "connecting" \in Underway \ {"starting", "shaking"}
      BY <1>4 DEF Underway
    <3>2. QED
      BY <1>2, <1>3, <1>5, <2>1, <3>1, OnIs
  <2>2. CASE ~l.device
    BY <1>2, <1>3, <1>4, <2>2, RejectedIs
  <2>3. QED
    BY <2>1, <2>2
<1>7. n = l.generation => l.attached = 0
  BY <1>1 DEF AsksLast
<1>8. \A k \in OpenIds : k # n => Fell(l.opens[k], r.link.opens[k])
                               /\ (r.link.opens[k] = l.opens[k] \/ r.link.attached = 0)
  <2>1. CASE n = l.generation
    <3>1. r.link.attached = 0 \/ r.link.attached = n
      BY <1>2, <1>6, <2>1 DEF StepDone
    <3>2. r.told = FALSE /\ r.link.attached = m.attached
      <4>1. r.told = FALSE /\ (r.link = At(m, n, "connecting") \/ r.link = At(m, n, "none"))
        BY <1>3 DEF Result, Rejected
      <4>2. "none" \in Awaits /\ "connecting" \in Awaits
        BY DEF Awaits
      <4>3. QED
        BY <1>2, <4>1, <4>2, AtIs DEF LinkHeld
    <3>3. \A k \in OpenIds : k # n => r.link.opens[k] = m.opens[k]
      <4>1. r.link = At(m, n, "connecting") \/ r.link = At(m, n, "none")
        BY <1>3 DEF Result, Rejected
      <4>2. "none" \in Awaits /\ "connecting" \in Awaits
        BY DEF Awaits
      <4>3. QED
        BY <1>2, <4>1, <4>2, AtIs DEF LinkHeld
    <3>4. QED
      BY <1>2, <2>1, <3>2, <3>3 DEF FellFrom
  <2>2. CASE n # l.generation
    BY <1>2, <1>6, <2>2 DEF StepDone
  <2>3. QED
    BY <2>1, <2>2
<1>9. QED
  BY <1>2, <1>4, <1>6, <1>7, <1>8 DEF StepDone

\* Connected, or overtaken meanwhile.
LEMMA ConnectingStep ==
    ASSUME NEW l, LinkHeld(l), NEW n \in OpenIds, l.opens[n] = "connecting"
    PROVE  StepDone(l, n, GattConnects(l, n))
<1> DEFINE m == [l EXCEPT !.up = TRUE]
<1>1. l \in LinkRecs /\ Listens(l) /\ AsksLast(l) /\ Stopping(l) /\ Sessions(l)
  BY DEF LinkHeld
<1>2. m \in LinkRecs
  BY <1>1 DEF LinkRecs
<1>3. /\ m.device = l.device /\ m.channel = l.channel /\ m.generation = l.generation /\ m.attached = l.attached
      /\ m.notifying = l.notifying /\ m.up = TRUE /\ m.session = l.session /\ m.stops = l.stops /\ m.opens = l.opens
  BY <1>1 DEF LinkRecs
<1>4. GattConnects(l, n) = current(m, n, "asking")
  BY DEF GattConnects
<1> HIDE DEF m
<1>5. LinkHeld(m)
  BY <1>1, <1>2, <1>3 DEF LinkHeld, Listens, AsksLast, Stopping, Sessions
<1>6. m.opens[n] \in Underway /\ m.opens[n] \notin {"none", "hung"} /\ "asking" \in Underway \ {"starting", "shaking"}
  BY <1>3 DEF Underway
<1>7. StepDone(m, n, current(m, n, "asking"))
  <2>1. CASE n = m.generation
    <3>1. May(m, n, "asking")
      BY <1>1, <1>3, <2>1 DEF May, AsksLast
    <3>2. QED
      BY <1>5, <1>6, <2>1, <3>1, OnIs DEF current
  <2>2. CASE n # m.generation /\ m.device /\ m.up
    BY <1>5, <1>6, <2>2, OvertakenIs DEF current
  <2>3. CASE n # m.generation /\ ~(m.device /\ m.up)
    <3>1. current(m, n, "asking") = Rejected(m, n)
      BY <2>3 DEF current
    <3>2. QED
      BY <1>5, <1>6, <3>1, RejectedIs
  <2>4. QED
    BY <2>1, <2>2, <2>3
<1>8. QED
  BY <1>3, <1>4, <1>7 DEF StepDone, Shook

\* The slot asked for (link.js, open).
LEMMA AskingStep ==
    ASSUME NEW l, LinkHeld(l), NEW n \in OpenIds, l.opens[n] = "asking", NEW r \in SlotRead(l, n)
    PROVE  StepDone(l, n, r)
<1>1. l \in LinkRecs /\ Listens(l) /\ AsksLast(l) /\ Stopping(l) /\ Sessions(l)
  BY DEF LinkHeld
<1>2. n = l.generation /\ ~l.notifying /\ l.up /\ l.device /\ l.attached = 0
  BY <1>1 DEF AsksLast
<1>3. current(l, n, "slot") = Result(At(l, n, "slot"), "on", FALSE)
  BY <1>2 DEF current
<1>4. r = current(l, n, "slot") \/ r = Rejected(Down(l), n)
  BY DEF SlotRead
<1>5. CASE r = current(l, n, "slot")
  <2>1. May(l, n, "slot") /\ l.opens[n] \in Underway /\ "slot" \in Underway \ {"starting", "shaking"}
    BY <1>2 DEF May, Underway
  <2>2. QED
    BY <1>3, <1>5, <2>1, OnIs
<1>6. CASE r = Rejected(Down(l), n)
  <2> DEFINE d == Down(l)
  <2>1. /\ LinkHeld(d) /\ Shook(d) /\ FellFrom(l, d) /\ d.generation = l.generation /\ d.attached = 0
    BY <1>1, DownIs
  <2>2. d.opens[n] = "asking" \/ d.opens[n] = "failing"
    BY <2>1 DEF FellFrom, Fell
  <2>3. StepDone(d, n, r)
    BY <1>6, <2>1, <2>2, RejectedIs
  <2>4. r.told = FALSE /\ r.out = "rejected" /\ r.link = At(d, n, "none")
    BY <1>6 DEF Rejected, Result
  <2>5. "none" \in Awaits /\ d \in LinkRecs
    BY <2>1 DEF LinkHeld, Awaits
  <2>6. r.link.attached = 0 /\ \A m \in OpenIds : m # n => r.link.opens[m] = d.opens[m]
    BY <2>1, <2>4, <2>5, AtIs
  <2> HIDE DEF d
  <2>7. \A m \in OpenIds : m # n => Fell(l.opens[m], r.link.opens[m])
    BY <2>1, <2>6 DEF FellFrom
  <2>8. QED
    BY <1>2, <2>1, <2>3, <2>4, <2>6, <2>7 DEF StepDone
<1>7. QED
  BY <1>4, <1>5, <1>6

\* The slot opened, and listeners put on the device.
LEMMA SlotStep ==
    ASSUME NEW l, LinkHeld(l), NEW n \in OpenIds, l.opens[n] = "slot"
    PROVE  StepDone(l, n, Attaches(l, n))
<1> DEFINE m == At(l, n, "starting")
           x == [m EXCEPT !.channel = n, !.attached = n]
           r == Attaches(l, n)
<1>1. l \in LinkRecs /\ Listens(l) /\ AsksLast(l) /\ Stopping(l) /\ Sessions(l) /\ n \in Nat /\ n # 0
  BY Ids DEF LinkHeld
<1>2. n = l.generation /\ ~l.notifying /\ l.up /\ l.device /\ l.attached = 0
  BY <1>1 DEF AsksLast
<1>3. r = Result(x, "on", FALSE)
  BY <1>2 DEF Attaches, current, Result
<1>4. "starting" \in Awaits
  BY DEF Awaits
<1>5. /\ m \in LinkRecs /\ m.device = l.device /\ m.generation = l.generation /\ m.notifying = l.notifying /\ m.up = l.up
      /\ m.session = l.session /\ m.stops = l.stops /\ m.opens[n] = "starting"
      /\ \A k \in OpenIds : k # n => m.opens[k] = l.opens[k]
  BY <1>1, <1>4, AtIs
<1> HIDE DEF m
<1>6. /\ x \in LinkRecs /\ x.device = m.device /\ x.generation = m.generation /\ x.notifying = m.notifying /\ x.up = m.up
      /\ x.session = m.session /\ x.stops = m.stops /\ x.opens = m.opens /\ x.channel = n /\ x.attached = n
  BY <1>1, <1>5 DEF LinkRecs
<1> HIDE DEF x, r
<1>7. AsksLast(x)
  BY <1>1, <1>2, <1>5, <1>6 DEF AsksLast
<1>8. Stopping(x)
  <2>1. n \notin l.stops
    BY <1>1 DEF Stopping
  <2>2. \A g \in l.stops : g <= l.generation /\ g # l.generation /\ (g \in OpenIds => x.opens[g] = "none")
    BY <1>1, <1>2, <1>5, <1>6, <2>1 DEF Stopping
  <2>3. x.stops = l.stops /\ x.generation = l.generation
    BY <1>5, <1>6
  <2>4. QED
    BY <2>2, <2>3 DEF Stopping
<1>9. Sessions(x) /\ Listens(x) /\ Shook(x)
  BY <1>1, <1>2, <1>5, <1>6 DEF Sessions, Listens, Shook
<1>10. LinkHeld(x)
  BY <1>6, <1>7, <1>8, <1>9 DEF LinkHeld
<1>11. r.link = x /\ r.out = "on" /\ r.told = FALSE
  BY <1>3 DEF Result
<1>12. StepDone(l, n, r)
  BY <1>2, <1>5, <1>6, <1>9, <1>10, <1>11 DEF StepDone, Fell, Underway
<1>13. QED
  BY <1>12 DEF r

\* Notifications on.
LEMMA StartingStep ==
    ASSUME NEW l, LinkHeld(l), NEW n \in OpenIds, l.opens[n] = "starting"
    PROVE  StepDone(l, n, NotificationsOn(l, n))
<1> DEFINE k == [l EXCEPT !.session = TRUE, !.notifying = TRUE]
           x == At(k, n, "shaking")
           r == NotificationsOn(l, n)
<1>1. l \in LinkRecs /\ Listens(l) /\ AsksLast(l) /\ Stopping(l) /\ Sessions(l)
  BY DEF LinkHeld
<1>2. n = l.generation /\ l.up /\ l.device /\ \A m \in OpenIds : m # n => l.opens[m] \notin {"asking", "slot", "starting"}
  BY <1>1 DEF AsksLast
<1>3. /\ k \in LinkRecs /\ k.device = l.device /\ k.channel = l.channel /\ k.generation = l.generation
      /\ k.attached = l.attached /\ k.notifying = TRUE /\ k.up = l.up /\ k.session = TRUE /\ k.stops = l.stops
      /\ k.opens = l.opens
  BY <1>1 DEF LinkRecs
<1>4. r = Result(x, "on", FALSE)
  BY <1>2, <1>3 DEF NotificationsOn, current
<1> HIDE DEF k
<1>5. "shaking" \in Awaits
  BY DEF Awaits
<1>6. /\ x \in LinkRecs /\ x.device = l.device /\ x.channel = l.channel /\ x.generation = l.generation
      /\ x.attached = l.attached /\ x.notifying = TRUE /\ x.up = l.up /\ x.session = TRUE /\ x.stops = l.stops
      /\ x.opens[n] = "shaking" /\ \A m \in OpenIds : m # n => x.opens[m] = l.opens[m]
  BY <1>3, <1>5, AtIs
<1> HIDE DEF x, r
<1>7. AsksLast(x)
  BY <1>1, <1>2, <1>6 DEF AsksLast
<1>8. Stopping(x)
  BY <1>1, <1>6 DEF Stopping
<1>9. Sessions(x) /\ Listens(x) /\ (Shook(l) => Shook(x))
  BY <1>1, <1>2, <1>6 DEF Sessions, Listens, Shook
<1>10. LinkHeld(x)
  BY <1>6, <1>7, <1>8, <1>9 DEF LinkHeld
<1>11. r.link = x /\ r.out = "on" /\ r.told = FALSE
  BY <1>4 DEF Result
<1>12. StepDone(l, n, r)
  BY <1>6, <1>9, <1>10, <1>11 DEF StepDone, Fell, Underway
<1>13. QED
  BY <1>12 DEF r

\* The handshake and hello, done or failed.
LEMMA ShakingStep ==
    ASSUME NEW l, LinkHeld(l), NEW n \in OpenIds, l.opens[n] = "shaking", NEW r \in Shakes(l, n)
    PROVE  StepDone(l, n, r)
<1>1. l \in LinkRecs /\ Listens(l) /\ AsksLast(l) /\ Stopping(l) /\ Sessions(l) /\ n \in Nat /\ n # 0
  BY Ids DEF LinkHeld
<1> DEFINE c == current(l, n, "none")
           s == [c EXCEPT !.out = IF @ = "on" THEN "resolved" ELSE @]
           k == [l EXCEPT !.attached = 0]
           t == [Rejected(k, n) EXCEPT !.told = TRUE]
<1>2. r = s \/ (r = t /\ l.attached = n)
  BY DEF Shakes
<1>3. CASE r = s /\ n = l.generation
  <2>1. StepDone(l, n, Rejected(l, n))
    BY RejectedIs
  <2>2. r.link = Rejected(l, n).link /\ r.out = "resolved" /\ r.told = FALSE /\ r.link = At(l, n, "none")
    BY <1>3 DEF current, Result, Rejected
  <2>3. r.link.attached = l.attached
    <3>1. "none" \in Awaits
      BY DEF Awaits
    <3>2. QED
      BY <1>1, <2>2, <3>1, AtIs
  <2>4. Rejected(l, n).out = "rejected" /\ Rejected(l, n).told = FALSE
    BY DEF Rejected, Result
  <2>5. QED
    BY <1>3, <2>1, <2>2, <2>3, <2>4 DEF StepDone
<1>4. CASE r = s /\ n # l.generation
  <2>1. l.opens[n] \notin {"none", "hung"}
    OBVIOUS
  <2>2. CASE l.device /\ l.up
    <3>1. c = [Rejected(Down(l), n) EXCEPT !.told = l.attached # 0]
      BY <1>4, <2>2 DEF current
    <3>2. r = c
      BY <1>4, <3>1 DEF Rejected, Result
    <3>3. QED
      BY <1>4, <2>1, <3>1, <3>2, OvertakenIs
  <2>3. CASE ~(l.device /\ l.up)
    <3>1. c = Rejected(l, n)
      BY <1>4, <2>3 DEF current
    <3>2. r = c
      BY <1>4, <3>1 DEF Rejected, Result
    <3>3. QED
      BY <2>1, <3>1, <3>2, RejectedIs
  <2>4. QED
    BY <2>2, <2>3
<1>5. CASE r = t /\ l.attached = n
  <2>1. n = l.generation
    BY <1>1, <1>5 DEF Listens
  <2>2. /\ k \in LinkRecs /\ k.device = l.device /\ k.channel = l.channel /\ k.generation = l.generation
        /\ k.attached = 0 /\ k.notifying = l.notifying /\ k.up = l.up /\ k.session = l.session /\ k.stops = l.stops
        /\ k.opens = l.opens
    BY <1>1 DEF LinkRecs
  <2>3. r.link = Rejected(k, n).link /\ r.out = "rejected" /\ r.told = TRUE /\ r.link = At(k, n, "none")
    BY <1>5 DEF Rejected, Result
  <2>4. Rejected(k, n).told = FALSE /\ Rejected(k, n).out = "rejected"
    BY DEF Rejected, Result
  <2> HIDE DEF k
  <2>5. LinkHeld(k)
    BY <1>1, <2>2 DEF LinkHeld, Listens, AsksLast, Stopping, Sessions
  <2>6. StepDone(k, n, Rejected(k, n))
    BY <2>2, <2>5, RejectedIs
  <2>7. /\ r.link.attached = 0 /\ r.link.generation = l.generation /\ r.link.opens[n] = "none"
        /\ \A m \in OpenIds : m # n => r.link.opens[m] = l.opens[m]
    <3>1. "none" \in Awaits
      BY DEF Awaits
    <3>2. QED
      BY <2>2, <2>3, <3>1, AtIs
  <2>8. Shook(r.link)
    BY <2>1, <2>7 DEF Shook
  <2>9. LinkHeld(r.link)
    BY <2>3, <2>6 DEF StepDone
  <2>10. QED
    BY <1>1, <1>5, <2>3, <2>7, <2>8, <2>9 DEF StepDone, Fell
<1>6. QED
  BY <1>2, <1>3, <1>4, <1>5

\* Every step of an open (link.js, open).
LEMMA StepIs ==
    ASSUME NEW l, LinkHeld(l), NEW n \in OpenIds, NEW r \in Steps(l, n)
    PROVE  StepDone(l, n, r)
<1>1. l.opens[n] \in Awaits
  BY DEF LinkHeld, LinkRecs
<1>2. CASE r \in Resolves(l, n)
  <2>1. CASE l.opens[n] = "dropping"
    BY <1>2, <2>1, DroppingStep
  <2>2. CASE l.opens[n] = "connecting"
    <3>1. r = GattConnects(l, n)
      BY <1>2, <2>2 DEF Resolves
    <3>2. QED
      BY <2>2, <3>1, ConnectingStep
  <2>3. CASE l.opens[n] = "asking"
    <3>1. r \in SlotRead(l, n)
      BY <1>2, <2>3 DEF Resolves
    <3>2. QED
      BY <2>3, <3>1, AskingStep
  <2>4. CASE l.opens[n] = "slot"
    <3>1. r = Attaches(l, n)
      BY <1>2, <2>4 DEF Resolves
    <3>2. QED
      BY <2>4, <3>1, SlotStep
  <2>5. CASE l.opens[n] = "starting"
    <3>1. r = NotificationsOn(l, n)
      BY <1>2, <2>5 DEF Resolves
    <3>2. QED
      BY <2>5, <3>1, StartingStep
  <2>6. CASE l.opens[n] = "shaking"
    <3>1. r \in Shakes(l, n)
      BY <1>2, <2>6 DEF Resolves
    <3>2. QED
      BY <2>6, <3>1, ShakingStep
  <2>7. CASE l.opens[n] = "cut"
    <3> DEFINE x == At(l, n, "hung")
    <3>1. l \in LinkRecs /\ AsksLast(l) /\ Stopping(l) /\ "hung" \in Awaits
      BY DEF LinkHeld, Awaits
    <3>2. n <= l.generation /\ n \notin l.stops
      BY <2>7, <3>1, Ids DEF AsksLast, Stopping, LinkRecs
    <3>3. LinkHeld(x)
      BY <3>1, <3>2, AtHeld DEF May
    <3>4. /\ x.generation = l.generation /\ x.attached = l.attached /\ x.opens[n] = "hung"
          /\ \A m \in OpenIds : m # n => x.opens[m] = l.opens[m]
      BY <3>1, AtIs
    <3>5. r = Result(x, "on", FALSE)
      BY <1>2, <2>7 DEF Resolves
    <3>6. r.link = x /\ r.out = "on" /\ r.told = FALSE
      BY <3>5 DEF Result
    <3> HIDE DEF x
    <3>7. Shook(l) => Shook(x)
      BY <3>4 DEF Shook
    <3>8. QED
      BY <2>7, <3>3, <3>4, <3>6, <3>7 DEF StepDone, Fell
  <2>8. CASE l.opens[n] \in {"none", "failing", "hung"}
    BY <1>2, <2>8 DEF Resolves
  <2>9. QED
    BY <1>1, <2>1, <2>2, <2>3, <2>4, <2>5, <2>6, <2>7, <2>8 DEF Awaits
<1>3. CASE r = Rejected(l, n) /\ l.opens[n] \notin {"none", "dropping", "hung"}
  BY <1>3, RejectedIs
<1>4. QED
  BY <1>2, <1>3 DEF Steps
-----------------------------------------------------------------------------
PageRecs ==
    [phase : {"none", "choosing", "connecting"}, attempt : Nat, connected : BOOLEAN,
     going : {"none", "restart", "power-off"}, away : {"none", "hidden", "reconnecting"}, returning : Nat,
     kind : {"none", "restart", "away"}, reach : {"none", "first", "again", "open"}, holding : BOOLEAN,
     fresh : BOOLEAN, made : Nat, stray : BOOLEAN]
Owners == [OpenIds -> [kind : {"none", "connect", "restart", "away"}, id : Nat]]

\* Attempts are numbered as they are made, each of one kind.
Attempts(l, p, own) ==
    /\ p.attempt <= p.made /\ p.returning <= p.made /\ (p.attempt # 0 => p.attempt # p.returning)
    /\ p.phase # "none" => p.attempt # 0
    /\ p.reach # "none" => p.returning # 0
    /\ \A n \in OpenIds :
          /\ own[n].id <= p.made
          /\ l.opens[n] # "none" => own[n].id # 0
          /\ own[n].id # 0 /\ own[n].id = p.returning => own[n].kind = p.kind
          /\ own[n].id # 0 /\ own[n].id = p.attempt => own[n].kind = "connect"
          /\ p.phase = "choosing" => own[n].id # p.attempt

\* Connected, the page has its listeners on the device and nothing else
\* under way.
HasDevice(l, p) ==
    p.connected =>
        /\ l.attached # 0 /\ p.phase = "none" /\ p.reach = "none" /\ p.away = "none"
        /\ \A n \in OpenIds : n = l.generation => l.opens[n] = "none"
Choosing(p) ==
    p.phase # "none" => ~p.connected /\ p.reach = "none" /\ p.going = "none" /\ p.away = "none"

\* A loop is of what the page says it is reaching; the last open is its
\* own while it waits on one, and can come to it, `X' aside.
Loops(p, hid) ==
    /\ p.reach # "none" =>
          /\ ~p.connected
          /\ \/ p.kind = "restart" /\ p.going = "restart"
             \/ p.kind = "away" /\ p.away # "none"
    /\ p.away # "none" => p.going = "none"
    /\ p.away = "reconnecting" => p.reach # "none"
    /\ p.going = "restart" /\ ~p.connected => p.reach # "none"
    /\ p.away = "hidden" => hid
    /\ p.going = "power-off" /\ ~p.connected => p.holding
    /\ p.holding => p.going = "power-off" /\ ~p.connected
Waits(l, p, own, X) ==
    p.reach = "open" =>
        \E n \in OpenIds :
            /\ n = l.generation /\ own[n].kind = p.kind /\ own[n].id = p.returning
            /\ p.away = "hidden" \/ n \in X \/ l.opens[n] \notin {"none", "hung", "cut"}

\* An open that may yet come to the attempt held is the last, or fails.
Owned(l, p, own) ==
    \A n \in OpenIds : l.opens[n] \notin {"none", "hung"} =>
        /\ own[n].id = p.returning => p.reach = "open" /\ n = l.generation
        /\ own[n].id = p.attempt =>
              \/ p.phase = "connecting" /\ n = l.generation
              \/ l.opens[n] \in {"failing", "cut"} /\ p.reach # "open" /\ ~p.connected
Kept(l, p, own, hid, X) ==
    ~p.stray => Shook(l) /\ HasDevice(l, p) /\ Choosing(p) /\ Loops(p, hid) /\ Waits(l, p, own, X) /\ Owned(l, p, own)

\* The feed of a page hidden is not one it resumed.
Feeds ==
    [held : {"none", "pushed", "resumed"}, resuming : Nat, cancelled : BOOLEAN, coming : BOOLEAN,
     open : SUBSET {"pushed", "resumed"}]
Fed(p, f, hid) ==
    ~p.stray /\ p.connected =>
        /\ "resumed" \in f.open => f.held = "resumed"
        /\ hid => f.held # "resumed" /\ (f.resuming # 0 => f.cancelled)

PageHeld ==
    /\ LinkHeld(link) /\ page \in PageRecs /\ owner \in Owners /\ feed \in Feeds /\ hidden \in BOOLEAN
    /\ Attempts(link, page, owner) /\ Kept(link, page, owner, hidden, {}) /\ Fed(page, feed, hidden)

\* An attempt begun: a loop about to try (App.jsx, reachAgain).
LEMMA ReachesIs ==
    ASSUME NEW p \in PageRecs, NEW k \in {"restart", "away"}
    PROVE  LET q == Reaches(p, k, "first")
           IN /\ q \in PageRecs
              /\ q.made = p.made + 1 /\ q.returning = p.made + 1 /\ q.kind = k /\ q.reach = "first"
              /\ q.phase = p.phase /\ q.attempt = p.attempt /\ q.connected = p.connected /\ q.going = p.going
              /\ q.away = p.away /\ q.holding = p.holding /\ q.fresh = p.fresh /\ q.stray = p.stray
<1> DEFINE n == p.made + 1
           a == [p EXCEPT !.made = n]
           b == [a EXCEPT !.returning = n]
           c == [b EXCEPT !.kind = k]
           d == [c EXCEPT !.reach = "first"]
<1>1. n \in Nat
  BY DEF PageRecs
<1>2. Reaches(p, k, "first") = d
  BY DEF Reaches, PageRecs
<1> HIDE DEF n
<1>3. /\ a \in PageRecs /\ a.made = n /\ a.returning = p.returning /\ a.kind = p.kind /\ a.reach = p.reach
      /\ a.phase = p.phase /\ a.attempt = p.attempt /\ a.connected = p.connected /\ a.going = p.going
      /\ a.away = p.away /\ a.holding = p.holding /\ a.fresh = p.fresh /\ a.stray = p.stray
  BY <1>1 DEF PageRecs
<1> HIDE DEF a
<1>4. /\ b \in PageRecs /\ b.made = a.made /\ b.returning = n /\ b.kind = a.kind /\ b.reach = a.reach
      /\ b.phase = a.phase /\ b.attempt = a.attempt /\ b.connected = a.connected /\ b.going = a.going
      /\ b.away = a.away /\ b.holding = a.holding /\ b.fresh = a.fresh /\ b.stray = a.stray
  BY <1>1, <1>3 DEF PageRecs
<1> HIDE DEF b
<1>5. /\ c \in PageRecs /\ c.made = b.made /\ c.returning = b.returning /\ c.kind = k /\ c.reach = b.reach
      /\ c.phase = b.phase /\ c.attempt = b.attempt /\ c.connected = b.connected /\ c.going = b.going
      /\ c.away = b.away /\ c.holding = b.holding /\ c.fresh = b.fresh /\ c.stray = b.stray
  BY <1>4 DEF PageRecs
<1> HIDE DEF c
<1>6. /\ d \in PageRecs /\ d.made = c.made /\ d.returning = c.returning /\ d.kind = c.kind /\ d.reach = "first"
      /\ d.phase = c.phase /\ d.attempt = c.attempt /\ d.connected = c.connected /\ d.going = c.going
      /\ d.away = c.away /\ d.holding = c.holding /\ d.fresh = c.fresh /\ d.stray = c.stray
  BY <1>5 DEF PageRecs
<1> HIDE DEF d
<1>7. QED
  BY <1>2, <1>3, <1>4, <1>5, <1>6 DEF n

\* What the page does of a channel closing (App.jsx, closed).
ClosedTo(p, q) ==
    /\ q \in PageRecs /\ ~q.connected /\ q.phase = "none" /\ q.attempt = p.attempt /\ q.going = p.going
    /\ q.stray = (p.stray \/ (p.reach # "none" /\ p.going = "none" /\ ~hidden /\ ~p.fresh))
    /\ \/ /\ p.going = "restart" \/ (p.going = "none" /\ ~hidden /\ p.fresh)
          /\ q.made = p.made + 1 /\ q.returning = p.made + 1 /\ q.reach = "first" /\ q.holding = p.holding
          /\ q.kind = IF p.going = "restart" THEN "restart" ELSE "away"
          /\ q.away = IF p.going = "restart" THEN p.away ELSE "reconnecting"
       \/ /\ p.going = "power-off" \/ (p.going = "none" /\ (hidden \/ ~p.fresh))
          /\ q.made = p.made /\ q.returning = p.returning /\ q.reach = p.reach /\ q.kind = p.kind
          /\ q.holding = (p.holding \/ p.going = "power-off")
          /\ q.away = IF p.going = "power-off" THEN p.away ELSE IF hidden THEN "hidden" ELSE "none"
\* It comes to one of five ways of standing.
LEMMA PageClosedIs ==
    ASSUME NEW p \in PageRecs, hidden \in BOOLEAN PROVE ClosedTo(p, closed(p))
<1> DEFINE q == [p EXCEPT !.connected = FALSE, !.phase = "none"]
<1>1. q \in PageRecs
  BY DEF PageRecs
<1>2. /\ q.connected = FALSE /\ q.phase = "none" /\ q.attempt = p.attempt /\ q.going = p.going /\ q.stray = p.stray
      /\ q.made = p.made /\ q.returning = p.returning /\ q.reach = p.reach /\ q.holding = p.holding /\ q.kind = p.kind
      /\ q.away = p.away /\ q.fresh = p.fresh
  BY DEF PageRecs
<1>3. p.going \in {"none", "restart", "power-off"} /\ p.fresh \in BOOLEAN /\ p.stray \in BOOLEAN /\ p.holding \in BOOLEAN
      /\ p.made \in Nat
  BY DEF PageRecs
<1> DEFINE c == closed(p)
<1>4. CASE p.going = "power-off"
  <2>1. c = [q EXCEPT !.holding = TRUE]
    BY <1>4 DEF closed
  <2> HIDE DEF q
  <2>2. /\ c \in PageRecs /\ c.connected = q.connected /\ c.phase = q.phase /\ c.attempt = q.attempt /\ c.going = q.going
        /\ c.stray = q.stray /\ c.made = q.made /\ c.returning = q.returning /\ c.reach = q.reach /\ c.kind = q.kind
        /\ c.away = q.away /\ c.holding = TRUE
    BY <1>1, <2>1 DEF PageRecs
  <2> HIDE DEF c
  <2>3. ClosedTo(p, c)
    BY <1>2, <1>3, <1>4, <2>2 DEF ClosedTo
  <2>4. QED
    BY <2>3 DEF c
<1>5. CASE p.going = "restart"
  <2>1. c = Reaches(q, "restart", "first")
    BY <1>5 DEF closed, comeBack
  <2> HIDE DEF q
  <2>3. /\ c \in PageRecs /\ c.connected = q.connected /\ c.phase = q.phase /\ c.attempt = q.attempt /\ c.going = q.going
        /\ c.stray = q.stray /\ c.made = q.made + 1 /\ c.returning = q.made + 1 /\ c.reach = "first" /\ c.kind = "restart"
        /\ c.away = q.away /\ c.holding = q.holding
    BY <1>1, <2>1, ReachesIs
  <2> HIDE DEF c
  <2>4. ClosedTo(p, c)
    BY <1>2, <1>3, <1>5, <2>3 DEF ClosedTo
  <2>5. QED
    BY <2>4 DEF c
<1>6. CASE p.going = "none" /\ hidden
  <2>1. c = [q EXCEPT !.away = "hidden"]
    BY <1>6 DEF closed
  <2> HIDE DEF q
  <2>2. /\ c \in PageRecs /\ c.connected = q.connected /\ c.phase = q.phase /\ c.attempt = q.attempt /\ c.going = q.going
        /\ c.stray = q.stray /\ c.made = q.made /\ c.returning = q.returning /\ c.reach = q.reach /\ c.kind = q.kind
        /\ c.away = "hidden" /\ c.holding = q.holding
    BY <1>1, <2>1 DEF PageRecs
  <2> HIDE DEF c
  <2>3. ClosedTo(p, c)
    BY <1>2, <1>3, <1>6, <2>2 DEF ClosedTo
  <2>4. QED
    BY <2>3 DEF c
<1>7. CASE p.going = "none" /\ ~hidden /\ p.fresh
  <2> DEFINE d == Reaches(q, "away", "first")
  <2>1. c = [d EXCEPT !.away = "reconnecting"]
    BY <1>7 DEF closed, reconnectAway
  <2> HIDE DEF q
  <2>2. /\ d \in PageRecs /\ d.connected = q.connected /\ d.phase = q.phase /\ d.attempt = q.attempt /\ d.going = q.going
        /\ d.stray = q.stray /\ d.made = q.made + 1 /\ d.returning = q.made + 1 /\ d.reach = "first" /\ d.kind = "away"
        /\ d.holding = q.holding
    BY <1>1, ReachesIs
  <2> HIDE DEF d
  <2>3. /\ c \in PageRecs /\ c.connected = d.connected /\ c.phase = d.phase /\ c.attempt = d.attempt /\ c.going = d.going
        /\ c.stray = d.stray /\ c.made = d.made /\ c.returning = d.returning /\ c.reach = d.reach /\ c.kind = d.kind
        /\ c.away = "reconnecting" /\ c.holding = d.holding
    BY <2>1, <2>2 DEF PageRecs
  <2> HIDE DEF c
  <2>4. ClosedTo(p, c)
    BY <1>2, <1>3, <1>7, <2>2, <2>3 DEF ClosedTo
  <2>5. QED
    BY <2>4 DEF c
<1>8. CASE p.going = "none" /\ ~hidden /\ ~p.fresh
  <2>1. c = [[q EXCEPT !.away = "none"] EXCEPT !.stray = @ \/ p.reach # "none"]
    BY <1>8 DEF closed, letGo
  <2> HIDE DEF q
  <2>2. (q.stray \/ p.reach # "none") \in BOOLEAN
    OBVIOUS
  <2>3. /\ c \in PageRecs /\ c.connected = q.connected /\ c.phase = q.phase /\ c.attempt = q.attempt /\ c.going = q.going
        /\ c.stray = (q.stray \/ p.reach # "none") /\ c.made = q.made /\ c.returning = q.returning /\ c.reach = q.reach
        /\ c.kind = q.kind /\ c.away = "none" /\ c.holding = q.holding
    BY <1>1, <2>1, <2>2 DEF PageRecs
  <2> HIDE DEF c
  <2>4. ClosedTo(p, c)
    BY <1>2, <1>3, <1>8, <2>3 DEF ClosedTo
  <2>5. QED
    BY <2>4 DEF c
<1>9. QED
  BY <1>3, <1>4, <1>5, <1>6, <1>7, <1>8

\* Facts of a page's fields, for what is said of it by cases.
LEMMA PageIs ==
    ASSUME NEW p \in PageRecs
    PROVE  /\ p.phase \in {"none", "choosing", "connecting"} /\ p.going \in {"none", "restart", "power-off"}
           /\ p.away \in {"none", "hidden", "reconnecting"} /\ p.kind \in {"none", "restart", "away"}
           /\ p.reach \in {"none", "first", "again", "open"} /\ p.connected \in BOOLEAN /\ p.holding \in BOOLEAN
           /\ p.fresh \in BOOLEAN /\ p.stray \in BOOLEAN
           /\ p.attempt \in Nat /\ p.returning \in Nat /\ p.made \in Nat
BY DEF PageRecs

\* A link moved on under a page that is told nothing: an await fails with
\* the connection, an open in X ends, or one goes on.
Moved(l, k, X) ==
    /\ k.generation = l.generation /\ (k.attached = l.attached \/ l.attached = 0) /\ (Shook(l) => Shook(k))
    /\ \A m \in OpenIds :
          \/ k.opens[m] = l.opens[m]
          \/ l.attached = 0 /\ Fell(l.opens[m], k.opens[m])
          \/ m \in X /\ l.opens[m] \notin {"none", "hung"} /\ k.opens[m] = "none"
          \/ /\ l.opens[m] \notin {"none", "hung", "failing"}
             /\ k.opens[m] \in IF l.opens[m] = "cut" THEN {"hung"} ELSE Underway
\* The page and its link stay as they are said to be.
LEMMA MovedKeeps ==
    ASSUME NEW l, NEW k, NEW X, NEW p \in PageRecs, NEW own, NEW hid, Moved(l, k, X), Attempts(l, p, own),
           LinkHeld(l), Kept(l, p, own, hid, {})
    PROVE  Attempts(k, p, own) /\ Kept(k, p, own, hid, X)
<1>1. \A m \in OpenIds : k.opens[m] # "none" => l.opens[m] # "none"
  BY DEF Moved, Fell, Underway
<1>2. Attempts(k, p, own)
  BY <1>1 DEF Attempts
<1>3. SUFFICES ASSUME ~p.stray PROVE Kept(k, p, own, hid, X)
  BY <1>2 DEF Kept
<1>4. Shook(l) /\ HasDevice(l, p) /\ Choosing(p) /\ Loops(p, hid) /\ Waits(l, p, own, {}) /\ Owned(l, p, own)
  BY <1>3 DEF Kept
<1>5. Shook(k)
  BY <1>4 DEF Moved
<1>6. HasDevice(k, p)
  <2>1. SUFFICES ASSUME p.connected PROVE HasDevice(k, p)
    BY DEF HasDevice
  <2>2. l.attached # 0 /\ k.attached = l.attached /\ k.generation = l.generation
    BY <1>4, <2>1 DEF HasDevice, Moved
  <2>3. \A m \in OpenIds : m = l.generation => k.opens[m] = "none"
    BY <1>4, <2>1, <2>2 DEF HasDevice, Moved
  <2>4. QED
    BY <1>4, <2>1, <2>2, <2>3 DEF HasDevice
<1>7. Waits(k, p, own, X)
  <2>1. SUFFICES ASSUME p.reach = "open" PROVE Waits(k, p, own, X)
    BY DEF Waits
  <2>2. PICK m \in OpenIds : /\ m = l.generation /\ own[m].kind = p.kind /\ own[m].id = p.returning
                             /\ p.away = "hidden" \/ l.opens[m] \notin {"none", "hung", "cut"}
    BY <1>4, <2>1 DEF Waits
  <2>3. m \in X \/ l.opens[m] \in {"none", "hung", "cut"} \/ k.opens[m] \notin {"none", "hung", "cut"}
    <3>1. CASE l.attached = 0
      <4>1. l.opens[m] # "shaking"
        BY <1>4, <2>2, <3>1, Ids DEF Shook
      <4>2. QED
        BY <4>1 DEF Moved, Fell, Underway
    <3>2. CASE l.attached # 0
      BY <3>2 DEF Moved, Underway
    <3>3. QED
      BY <3>1, <3>2
  <2>4. m = k.generation
    BY <2>2 DEF Moved
  <2>5. QED
    BY <2>2, <2>3, <2>4 DEF Waits
<1>8. Owned(k, p, own)
  <2>1. SUFFICES ASSUME NEW m \in OpenIds, k.opens[m] \notin {"none", "hung"}
                 PROVE  /\ own[m].id = p.returning => p.reach = "open" /\ m = k.generation
                        /\ own[m].id = p.attempt =>
                              \/ p.phase = "connecting" /\ m = k.generation
                              \/ k.opens[m] \in {"failing", "cut"} /\ p.reach # "open" /\ ~p.connected
    BY DEF Owned
  <2>2. l.opens[m] \notin {"none", "hung"} /\ k.generation = l.generation
    BY <2>1 DEF Moved, Fell
  <2>3. l.opens[m] \in {"failing", "cut"} => k.opens[m] \in {"failing", "cut"}
    BY <2>1 DEF Moved, Fell
  <2>4. QED
    BY <1>4, <2>2, <2>3 DEF Owned
<1>9. QED
  BY <1>4, <1>5, <1>6, <1>7, <1>8 DEF Kept

\* Attempts stay numbered as a channel closes.
LEMMA ClosedNumbered ==
    ASSUME NEW l, NEW k, NEW p \in PageRecs, NEW own \in Owners, hidden \in BOOLEAN, Attempts(l, p, own),
           \A m \in OpenIds : k.opens[m] # "none" => l.opens[m] # "none"
    PROVE  Attempts(k, closed(p), own)
<1> DEFINE q == closed(p)
<1>1. ClosedTo(p, q)
  BY PageClosedIs
<1> HIDE DEF q
<1>2. q \in PageRecs /\ p.made \in Nat /\ \A m \in OpenIds : own[m].id \in Nat /\ own[m].id <= p.made
  BY <1>1 DEF ClosedTo, PageRecs, Owners, Attempts
<1>3. CASE q.made = p.made + 1 /\ q.returning = p.made + 1
  <2>1. /\ q.attempt = p.attempt /\ q.phase = "none" /\ p.attempt \in Nat /\ p.attempt <= p.made
    BY <1>1 DEF ClosedTo, Attempts, PageRecs
  <2>2. /\ q.attempt <= q.made /\ q.returning <= q.made /\ q.attempt # q.returning /\ q.returning # 0
        /\ \A m \in OpenIds : own[m].id <= q.made /\ own[m].id # q.returning
    BY <1>2, <1>3, <2>1
  <2>3. Attempts(k, q, own)
    BY <2>1, <2>2 DEF Attempts
  <2>4. QED
    BY <2>3 DEF q
<1>4. CASE q.made = p.made /\ q.returning = p.returning /\ q.kind = p.kind
  <2>1. Attempts(k, q, own)
    BY <1>1, <1>4 DEF ClosedTo, Attempts
  <2>2. QED
    BY <2>1 DEF q
<1>5. QED
  BY <1>1, <1>3, <1>4 DEF ClosedTo

\* A channel closed, and the page told of it: every await of the last open
\* is failing, or X's and over.
Cut(l, k, X) ==
    /\ k.generation = l.generation /\ l.attached # 0 /\ k.attached = 0 /\ Shook(k)
    /\ \A m \in OpenIds : Fell(l.opens[m], k.opens[m]) \/ (m \in X /\ k.opens[m] = "none")
\* The page and its link stay as they are said to be, and so does what it awaits.
LEMMA ToldKeeps ==
    ASSUME NEW l, NEW k, NEW X, NEW p \in PageRecs, NEW own \in Owners, hidden \in BOOLEAN, Cut(l, k, X),
           Attempts(l, p, own), LinkHeld(l), Kept(l, p, own, hidden, {})
    PROVE  LET q == closed(p)
           IN /\ Attempts(k, q, own) /\ Kept(k, q, own, hidden, X)
              /\ ~q.stray => \A m \in OpenIds : l.opens[m] \notin {"none", "hung"} =>
                    /\ own[m].id = q.returning => q.reach = "open" /\ m = k.generation
                    /\ own[m].id = q.attempt => ~q.connected /\ q.reach # "open"
<1> DEFINE q == closed(p)
<1>1. ClosedTo(p, q)
  BY PageClosedIs
<1> HIDE DEF q
<1>2. q \in PageRecs /\ p.made \in Nat /\ \A m \in OpenIds : own[m].id \in Nat /\ own[m].id <= p.made
  BY <1>1 DEF ClosedTo, PageRecs, Owners, Attempts
<1>3. \A m \in OpenIds : k.opens[m] # "none" => l.opens[m] # "none"
  BY DEF Cut, Fell
<1>4. Attempts(k, q, own)
  BY <1>3, ClosedNumbered DEF q
<1>5. SUFFICES ASSUME ~q.stray
      PROVE  /\ Kept(k, q, own, hidden, X)
             /\ \A m \in OpenIds : l.opens[m] \notin {"none", "hung"} =>
                    /\ own[m].id = q.returning => q.reach = "open" /\ m = k.generation
                    /\ own[m].id = q.attempt => ~q.connected /\ q.reach # "open"
  BY <1>4 DEF Kept, q
<1>6. ~p.stray /\ (p.going = "none" /\ ~hidden /\ ~p.fresh => p.reach = "none")
  BY <1>1, <1>5, PageIs DEF ClosedTo
<1>7. Shook(l) /\ HasDevice(l, p) /\ Choosing(p) /\ Loops(p, hidden) /\ Waits(l, p, own, {}) /\ Owned(l, p, own)
  BY <1>6 DEF Kept
<1>8. Shook(k) /\ HasDevice(k, q) /\ Choosing(q)
  BY <1>1 DEF Cut, HasDevice, Choosing, ClosedTo
<1>9. Loops(q, hidden)
  <2>1. p.made + 1 # 0
    BY <1>2
  <2>2. QED
    BY <1>1, <1>6, <1>7, <2>1, PageIs DEF ClosedTo, Loops
<1>10. Waits(k, q, own, X)
  <2>1. SUFFICES ASSUME q.reach = "open" PROVE Waits(k, q, own, X)
    BY DEF Waits
  <2>2. p.reach = "open" /\ q.kind = p.kind /\ q.returning = p.returning /\ q.away = "hidden"
    BY <1>1, <1>6, <1>7, <2>1, PageIs DEF ClosedTo, Loops
  <2>3. k.generation = l.generation
    BY DEF Cut
  <2>4. QED
    BY <1>7, <2>2, <2>3 DEF Waits
<1>11. ASSUME NEW m \in OpenIds, l.opens[m] \notin {"none", "hung"}
       PROVE  /\ own[m].id = q.returning => q.reach = "open" /\ m = k.generation
              /\ own[m].id = q.attempt => ~q.connected /\ q.reach # "open"
  <2>1. own[m].id # p.made + 1
    BY <1>2
  <2>2. own[m].id = p.returning => p.reach = "open" /\ m = k.generation
    BY <1>7, <1>11 DEF Owned, Cut
  <2>3. own[m].id = p.attempt => p.reach # "open"
    BY <1>7, <1>11 DEF Owned, Choosing
  <2>4. q.reach = "first" \/ q.reach = p.reach
    BY <1>1 DEF ClosedTo
  <2>5. QED
    BY <1>1, <2>1, <2>2, <2>3, <2>4 DEF ClosedTo
<1>12. Owned(k, q, own)
  <2>1. SUFFICES ASSUME NEW m \in OpenIds, k.opens[m] \notin {"none", "hung"}
                 PROVE  own[m].id = q.attempt => k.opens[m] \in {"failing", "cut"}
    <3>1. \A m \in OpenIds : k.opens[m] \notin {"none", "hung"} => l.opens[m] \notin {"none", "hung"}
      BY DEF Cut, Fell
    <3>2. QED
      BY <1>11, <2>1, <3>1 DEF Owned
  <2>2. Fell(l.opens[m], k.opens[m]) /\ l.opens[m] \notin {"none", "hung"} /\ l.opens[m] \in Awaits
        /\ k.generation = l.generation
    BY <2>1 DEF Cut, Fell, LinkHeld, LinkRecs
  <2>3. CASE m = l.generation
    <3>1. l.opens[m] \notin {"dropping", "connecting", "asking", "slot"}
      BY <2>3 DEF LinkHeld, AsksLast, Cut
    <3>2. k.opens[m] \notin {"starting", "shaking"}
      BY <2>2, <2>3, Ids DEF Cut, Shook
    <3>3. QED
      BY <2>1, <2>2, <3>1, <3>2 DEF Fell, Awaits
  <2>4. CASE m # l.generation
    <3>1. own[m].id = p.attempt => l.opens[m] \in {"failing", "cut"}
      BY <1>7, <2>2, <2>4 DEF Owned
    <3>2. QED
      BY <1>1, <2>2, <3>1 DEF Fell, ClosedTo
  <2>5. QED
    BY <2>3, <2>4
<1>13. QED
  BY <1>8, <1>9, <1>10, <1>11, <1>12 DEF Kept

\* A device let go of by a page that neither connects nor waits on an open.
LEMMA LetGoKeeps ==
    ASSUME NEW l, NEW X, NEW p \in PageRecs, NEW own, NEW hid, Attempts(l, p, own), LinkHeld(l),
           Kept(l, p, own, hid, X), ~p.stray => ~p.connected /\ p.reach # "open" /\ p.phase # "connecting"
    PROVE  /\ LinkHeld(letGoOf(l)) /\ Attempts(letGoOf(l), p, own) /\ Kept(letGoOf(l), p, own, hid, {})
<1> DEFINE k == letGoOf(l)
<1>1. LinkHeld(k) /\ Shook(k) /\ FellFrom(l, k)
  BY LetGoIs
<1> HIDE DEF k
<1>2. \A m \in OpenIds : /\ k.opens[m] # "none" => l.opens[m] # "none"
                         /\ k.opens[m] \notin {"none", "hung"} => l.opens[m] \notin {"none", "hung"}
                         /\ l.opens[m] \in {"failing", "cut"} => k.opens[m] \in {"failing", "cut"}
  BY <1>1 DEF FellFrom, Fell
<1>3. Attempts(k, p, own)
  BY <1>2 DEF Attempts
<1>4. Kept(k, p, own, hid, {})
  <2>1. SUFFICES ASSUME ~p.stray PROVE Kept(k, p, own, hid, {})
    BY DEF Kept
  <2>2. Choosing(p) /\ Loops(p, hid) /\ Owned(l, p, own)
    BY <2>1 DEF Kept
  <2>3. HasDevice(k, p) /\ Waits(k, p, own, {})
    BY <2>1 DEF HasDevice, Waits
  <2>4. Owned(k, p, own)
    BY <1>2, <2>1, <2>2 DEF Owned
  <2>5. QED
    BY <1>1, <2>2, <2>3, <2>4 DEF Kept
<1>5. QED
  BY <1>1, <1>3, <1>4 DEF k

\* The end of an open taken by the attempt that began it, as failed.
LEMMA FailedIs ==
    ASSUME NEW p \in PageRecs, NEW o
    PROVE  LET q == TakesFailed(p, o)
           IN /\ q \in PageRecs /\ q.made = p.made /\ q.returning = p.returning /\ q.kind = p.kind /\ q.going = p.going
              /\ q.away = p.away /\ q.connected = p.connected /\ q.holding = p.holding /\ q.stray = p.stray
              /\ IF o.kind = "connect" /\ p.attempt = o.id THEN q.attempt = 0 /\ q.phase = "none" /\ q.reach = p.reach
                 ELSE /\ q.attempt = p.attempt /\ q.phase = p.phase
                      /\ q.reach = IF o.kind # "connect" /\ p.returning = o.id THEN "again" ELSE p.reach
<1>1. CASE o.kind = "connect" /\ p.attempt = o.id
  <2>1. TakesFailed(p, o) = [p EXCEPT !.attempt = 0, !.phase = "none"]
    BY <1>1 DEF TakesFailed
  <2> DEFINE x == [p EXCEPT !.attempt = 0, !.phase = "none"]
  <2>2. /\ x \in PageRecs /\ x.phase = "none" /\ x.attempt = 0 /\ x.connected = p.connected /\ x.going = p.going
        /\ x.away = p.away /\ x.returning = p.returning /\ x.kind = p.kind /\ x.reach = p.reach /\ x.holding = p.holding
        /\ x.fresh = p.fresh /\ x.made = p.made /\ x.stray = p.stray
    BY DEF PageRecs
  <2> HIDE DEF x
  <2>3. TakesFailed(p, o) = x
    BY <2>1 DEF x
  <2>4. QED
    BY <1>1, <2>2, <2>3
<1>2. CASE o.kind # "connect" /\ p.returning = o.id
  <2>1. TakesFailed(p, o) = [p EXCEPT !.reach = "again"]
    BY <1>2 DEF TakesFailed
  <2>2. QED
    BY <1>2, <2>1 DEF PageRecs
<1>3. CASE ~(o.kind = "connect" /\ p.attempt = o.id) /\ ~(o.kind # "connect" /\ p.returning = o.id)
  <2>1. TakesFailed(p, o) = p
    BY <1>3 DEF TakesFailed
  <2>2. QED
    BY <1>3, <2>1
<1>4. QED
  BY <1>1, <1>2, <1>3

\* The page and its link stay as they are said to be as one fails.
LEMMA FailedKeeps ==
    ASSUME NEW l, NEW n \in OpenIds, NEW p \in PageRecs, NEW own \in Owners, NEW hid, Attempts(l, p, own), LinkHeld(l),
           Kept(l, p, own, hid, {n}), l.opens[n] = "none", own[n].id # 0,
           ~p.stray => /\ own[n].id = p.returning => p.reach = "open" /\ n = l.generation
                       /\ own[n].id = p.attempt => ~p.connected /\ p.reach # "open"
    PROVE  LET q == TakesFailed(p, own[n])
               k == IF LetsGo(p, own[n], "rejected") THEN letGoOf(l) ELSE l
           IN /\ q \in PageRecs /\ (q.connected => p.connected) /\ q.stray = p.stray
              /\ LinkHeld(k) /\ Attempts(k, q, own) /\ Kept(k, q, own, hid, {})
<1> DEFINE q == TakesFailed(p, own[n])
           k == IF LetsGo(p, own[n], "rejected") THEN letGoOf(l) ELSE l
<1>1. /\ q \in PageRecs /\ q.made = p.made /\ q.returning = p.returning /\ q.kind = p.kind /\ q.going = p.going
      /\ q.away = p.away /\ q.connected = p.connected /\ q.holding = p.holding /\ q.stray = p.stray
      /\ IF own[n].kind = "connect" /\ p.attempt = own[n].id THEN q.attempt = 0 /\ q.phase = "none" /\ q.reach = p.reach
         ELSE /\ q.attempt = p.attempt /\ q.phase = p.phase
              /\ q.reach = IF own[n].kind # "connect" /\ p.returning = own[n].id THEN "again" ELSE p.reach
  BY FailedIs
<1> HIDE DEF q
<1>2. /\ \A m \in OpenIds : own[m].id \in Nat
      /\ own[n].kind \in {"none", "connect", "restart", "away"}
      /\ p.made \in Nat /\ p.attempt \in Nat /\ p.returning \in Nat
  BY DEF Owners, PageRecs
<1>3. Attempts(l, q, own)
  <2>1. q.attempt <= q.made
    BY <1>1, <1>2 DEF Attempts
  <2>2. QED
    BY <1>1, <2>1 DEF Attempts
<1>4. ~p.stray => Kept(l, q, own, hid, {}) /\ (LetsGo(p, own[n], "rejected") => ~q.connected /\ q.reach # "open" /\ q.phase # "connecting")
  <2>1. SUFFICES ASSUME ~p.stray
        PROVE  Kept(l, q, own, hid, {}) /\ (LetsGo(p, own[n], "rejected") => ~q.connected /\ q.reach # "open" /\ q.phase # "connecting")
    OBVIOUS
  <2>2. Shook(l) /\ HasDevice(l, p) /\ Choosing(p) /\ Loops(p, hid) /\ Waits(l, p, own, {n}) /\ Owned(l, p, own)
    BY <2>1 DEF Kept
  <2>3. CASE own[n].kind = "connect" /\ p.attempt = own[n].id
    <3>1. q.attempt = 0 /\ q.phase = "none" /\ q.reach = p.reach /\ ~p.connected /\ p.reach # "open"
      BY <1>1, <2>1, <2>3
    <3>2. HasDevice(l, q) /\ Choosing(q) /\ Loops(q, hid) /\ Waits(l, q, own, {})
      BY <1>1, <2>2, <3>1 DEF HasDevice, Choosing, Loops, Waits
    <3>3. Owned(l, q, own)
      <4>1. \A m \in OpenIds : l.opens[m] # "none" => own[m].id # 0
        BY DEF Attempts
      <4>2. QED
        BY <1>1, <2>2, <3>1, <4>1 DEF Owned
    <3>4. QED
      BY <1>1, <2>2, <3>1, <3>2, <3>3 DEF Kept
  <2>4. CASE own[n].kind # "connect" /\ p.returning = own[n].id
    <3>1. q.attempt = p.attempt /\ q.phase = p.phase /\ q.reach = "again" /\ p.reach = "open" /\ n = l.generation
      BY <1>1, <2>1, <2>4
    <3>2. HasDevice(l, q) /\ Choosing(q) /\ Loops(q, hid) /\ Waits(l, q, own, {})
      BY <1>1, <2>2, <3>1 DEF HasDevice, Choosing, Loops, Waits
    <3>3. Owned(l, q, own)
      BY <1>1, <2>2, <3>1 DEF Owned, Choosing
    <3>4. ~LetsGo(p, own[n], "rejected")
      BY <2>4 DEF LetsGo
    <3>5. QED
      BY <1>1, <2>1, <2>2, <3>2, <3>3, <3>4 DEF Kept
  <2>5. CASE ~(own[n].kind = "connect" /\ p.attempt = own[n].id) /\ ~(own[n].kind # "connect" /\ p.returning = own[n].id)
    <3>1. q.attempt = p.attempt /\ q.phase = p.phase /\ q.reach = p.reach
      BY <1>1, <2>5
    <3>2. HasDevice(l, q) /\ Choosing(q) /\ Loops(q, hid) /\ Owned(l, q, own)
      BY <1>1, <2>2, <3>1 DEF HasDevice, Choosing, Loops, Owned
    <3>3. Waits(l, q, own, {})
      <4>1. SUFFICES ASSUME p.reach = "open" PROVE Waits(l, q, own, {})
        BY <3>1 DEF Waits
      <4>2. PICK m \in OpenIds : /\ m = l.generation /\ own[m].kind = p.kind /\ own[m].id = p.returning
                                 /\ p.away = "hidden" \/ m \in {n} \/ l.opens[m] \notin {"none", "hung", "cut"}
        BY <2>2, <4>1 DEF Waits
      <4>3. p.kind # "connect"
        BY PageIs
      <4>4. m # n
        BY <2>5, <4>2, <4>3
      <4>5. QED
        BY <1>1, <3>1, <4>2, <4>4 DEF Waits
    <3>4. ~LetsGo(p, own[n], "rejected")
      BY <2>5 DEF LetsGo
    <3>5. QED
      BY <1>1, <2>1, <2>2, <3>2, <3>3, <3>4 DEF Kept
  <2>6. QED
    BY <2>3, <2>4, <2>5
<1>5. Kept(l, q, own, hid, {})
  BY <1>1, <1>4 DEF Kept
<1>6. CASE LetsGo(p, own[n], "rejected")
  <2>1. k = letGoOf(l)
    BY <1>6
  <2> HIDE DEF k
  <2>2. LinkHeld(k) /\ Attempts(k, q, own) /\ Kept(k, q, own, hid, {})
    BY <1>1, <1>3, <1>4, <1>5, <1>6, <2>1, LetGoKeeps
  <2>3. QED
    BY <1>1, <2>2 DEF q, k
<1>7. CASE ~LetsGo(p, own[n], "rejected")
  BY <1>1, <1>3, <1>5, <1>7 DEF q
<1>8. QED
  BY <1>6, <1>7

\* And as come through.
LEMMA OpenedIs ==
    ASSUME NEW p \in PageRecs, NEW o, o.id # 0, o.id = p.attempt => o.kind = "connect",
           o.kind \in {"none", "connect", "restart", "away"}
    PROVE  LET q == TakesOpened(p, o)
           IN /\ q \in PageRecs /\ q.made = p.made /\ q.kind = p.kind /\ q.holding = p.holding /\ q.stray = p.stray
              /\ \/ /\ o.kind = "connect" /\ p.attempt = o.id /\ q.attempt = 0 /\ q.phase = "none" /\ q.connected
                    /\ q.returning = p.returning /\ q.reach = p.reach /\ q.going = p.going /\ q.away = p.away
                 \/ /\ o.kind \in {"restart", "away"} /\ p.returning = o.id /\ q.returning = 0 /\ q.reach = "none" /\ q.connected
                    /\ q.going = (IF o.kind = "restart" THEN "none" ELSE p.going)
                    /\ q.away = (IF o.kind = "away" THEN "none" ELSE p.away)
                    /\ q.attempt = p.attempt /\ q.phase = p.phase
                 \/ /\ o.kind = "connect" => p.attempt # o.id
                    /\ o.kind \in {"restart", "away"} => p.returning # o.id
                    /\ q = p
<1>1. CASE o.kind = "connect" /\ p.attempt = o.id
  <2>1. TakesOpened(p, o) = [p EXCEPT !.attempt = 0, !.phase = "none", !.connected = TRUE]
    BY <1>1 DEF TakesOpened
  <2> DEFINE x == [p EXCEPT !.attempt = 0, !.phase = "none", !.connected = TRUE]
  <2>2. /\ x \in PageRecs /\ x.phase = "none" /\ x.attempt = 0 /\ x.connected = TRUE /\ x.going = p.going
        /\ x.away = p.away /\ x.returning = p.returning /\ x.kind = p.kind /\ x.reach = p.reach /\ x.holding = p.holding
        /\ x.fresh = p.fresh /\ x.made = p.made /\ x.stray = p.stray
    BY DEF PageRecs
  <2> HIDE DEF x
  <2>3. TakesOpened(p, o) = x
    BY <2>1 DEF x
  <2>4. QED
    BY <1>1, <2>2, <2>3
<1>2. CASE o.kind = "restart" /\ p.returning = o.id
  <2>1. TakesOpened(p, o) = [p EXCEPT !.returning = 0, !.reach = "none", !.going = "none", !.connected = TRUE]
    BY <1>2 DEF TakesOpened
  <2> DEFINE x == [p EXCEPT !.returning = 0, !.reach = "none", !.going = "none", !.connected = TRUE]
  <2>2. /\ x \in PageRecs /\ x.phase = p.phase /\ x.attempt = p.attempt /\ x.connected = TRUE /\ x.going = "none"
        /\ x.away = p.away /\ x.returning = 0 /\ x.kind = p.kind /\ x.reach = "none" /\ x.holding = p.holding
        /\ x.fresh = p.fresh /\ x.made = p.made /\ x.stray = p.stray
    BY DEF PageRecs
  <2> HIDE DEF x
  <2>3. TakesOpened(p, o) = x
    BY <2>1 DEF x
  <2>4. QED
    BY <1>2, <2>2, <2>3
<1>3. CASE o.kind = "away" /\ p.returning = o.id
  <2>1. TakesOpened(p, o) = [p EXCEPT !.returning = 0, !.reach = "none", !.away = "none", !.connected = TRUE]
    BY <1>3 DEF TakesOpened
  <2> DEFINE x == [p EXCEPT !.returning = 0, !.reach = "none", !.away = "none", !.connected = TRUE]
  <2>2. /\ x \in PageRecs /\ x.phase = p.phase /\ x.attempt = p.attempt /\ x.connected = TRUE /\ x.going = p.going
        /\ x.away = "none" /\ x.returning = 0 /\ x.kind = p.kind /\ x.reach = "none" /\ x.holding = p.holding
        /\ x.fresh = p.fresh /\ x.made = p.made /\ x.stray = p.stray
    BY DEF PageRecs
  <2> HIDE DEF x
  <2>3. TakesOpened(p, o) = x
    BY <2>1 DEF x
  <2>4. QED
    BY <1>3, <2>2, <2>3
<1>4. CASE /\ ~(o.kind = "connect" /\ p.attempt = o.id) /\ ~(o.kind = "restart" /\ p.returning = o.id)
           /\ ~(o.kind = "away" /\ p.returning = o.id)
  <2>1. TakesOpened(p, o) = p
    BY <1>4 DEF TakesOpened
  <2>2. QED
    BY <1>4, <2>1
<1>5. QED
  BY <1>1, <1>2, <1>3, <1>4

\* The page and its link stay as they are said to be as one comes through.
LEMMA OpenedKeeps ==
    ASSUME NEW l, NEW n \in OpenIds, NEW p \in PageRecs, NEW own \in Owners, NEW hid, Attempts(l, p, own), LinkHeld(l),
           Kept(l, p, own, hid, {n}), l.opens[n] = "none", own[n].id # 0, n = l.generation,
           own[n].id = p.returning => own[n].kind = p.kind, own[n].id = p.attempt => own[n].kind = "connect",
           ~p.stray => /\ ~p.connected /\ l.attached = n
                       /\ own[n].id = p.returning => p.reach = "open"
                       /\ own[n].id = p.attempt => p.phase = "connecting"
    PROVE  LET q == TakesOpened(p, own[n])
               k == IF LetsGo(p, own[n], "resolved") THEN letGoOf(l) ELSE l
           IN /\ q \in PageRecs /\ q.stray = p.stray
              /\ LinkHeld(k) /\ Attempts(k, q, own) /\ Kept(k, q, own, hid, {})
<1> DEFINE q == TakesOpened(p, own[n])
           k == IF LetsGo(p, own[n], "resolved") THEN letGoOf(l) ELSE l
           o == own[n]
<1>1. /\ \A m \in OpenIds : own[m].id \in Nat
      /\ o.kind \in {"none", "connect", "restart", "away"}
      /\ p.made \in Nat /\ p.attempt \in Nat /\ p.returning \in Nat
  BY DEF Owners, PageRecs
<1>2. /\ q \in PageRecs /\ q.made = p.made /\ q.kind = p.kind /\ q.holding = p.holding /\ q.stray = p.stray
      /\ \/ /\ o.kind = "connect" /\ p.attempt = o.id /\ q.attempt = 0 /\ q.phase = "none" /\ q.connected
            /\ q.returning = p.returning /\ q.reach = p.reach /\ q.going = p.going /\ q.away = p.away
         \/ /\ o.kind \in {"restart", "away"} /\ p.returning = o.id /\ q.returning = 0 /\ q.reach = "none" /\ q.connected
            /\ q.going = (IF o.kind = "restart" THEN "none" ELSE p.going)
            /\ q.away = (IF o.kind = "away" THEN "none" ELSE p.away)
            /\ q.attempt = p.attempt /\ q.phase = p.phase
         \/ /\ o.kind = "connect" => p.attempt # o.id
            /\ o.kind \in {"restart", "away"} => p.returning # o.id
            /\ q = p
  <2>1. o.id # 0 /\ (o.id = p.attempt => o.kind = "connect")
    OBVIOUS
  <2> HIDE DEF o
  <2>2. QED
    BY <1>1, <2>1, OpenedIs DEF o
<1> HIDE DEF q
<1>3. /\ p.attempt <= p.made /\ p.returning <= p.made
      /\ \A m \in OpenIds : l.opens[m] # "none" => own[m].id # 0
  BY DEF Attempts
<1>4. Attempts(l, q, own)
  <2>1. q.attempt <= q.made /\ q.returning <= q.made
    BY <1>1, <1>2, <1>3
  <2>2. (q.attempt = p.attempt \/ q.attempt = 0) /\ (q.returning = p.returning \/ q.returning = 0)
        /\ (q.phase = p.phase \/ q.phase = "none")
    BY <1>2
  <2>3. q.attempt # 0 => q.attempt = p.attempt /\ q.attempt # q.returning
    BY <2>2 DEF Attempts
  <2>4. q.phase = "choosing" => p.phase = "choosing" /\ q.attempt = p.attempt
    BY <1>2
  <2>5. QED
    BY <1>2, <1>3, <2>1, <2>2, <2>3, <2>4 DEF Attempts
<1>5. ~p.stray => Kept(l, q, own, hid, {}) /\ (LetsGo(p, o, "resolved") => ~q.connected /\ q.reach # "open" /\ q.phase # "connecting")
  <2>1. SUFFICES ASSUME ~p.stray
        PROVE  Kept(l, q, own, hid, {}) /\ (LetsGo(p, o, "resolved") => ~q.connected /\ q.reach # "open" /\ q.phase # "connecting")
    OBVIOUS
  <2>2. Shook(l) /\ HasDevice(l, p) /\ Choosing(p) /\ Loops(p, hid) /\ Waits(l, p, own, {n}) /\ Owned(l, p, own)
    BY <2>1 DEF Kept
  <2>3. /\ ~p.connected /\ l.attached # 0 /\ \A m \in OpenIds : m = l.generation => l.opens[m] = "none"
        /\ o.id = p.returning => p.reach = "open"
        /\ o.id = p.attempt => p.phase = "connecting"
    BY <2>1, Ids
  <2>4. CASE /\ o.kind = "connect" /\ p.attempt = o.id /\ q.attempt = 0 /\ q.phase = "none" /\ q.connected
             /\ q.returning = p.returning /\ q.reach = p.reach /\ q.going = p.going /\ q.away = p.away
    <3>1. p.phase = "connecting" /\ p.reach = "none" /\ p.going = "none" /\ p.away = "none"
      BY <2>2, <2>3, <2>4 DEF Choosing
    <3>2. HasDevice(l, q) /\ Choosing(q) /\ Waits(l, q, own, {})
      BY <2>3, <2>4, <3>1 DEF HasDevice, Choosing, Waits
    <3>3. Loops(q, hid)
      BY <1>2, <2>2, <2>4, <3>1 DEF Loops
    <3>4. Owned(l, q, own)
      BY <1>3, <2>2, <2>4, <3>1 DEF Owned
    <3>5. ~LetsGo(p, o, "resolved")
      BY <2>4 DEF LetsGo
    <3>6. QED
      BY <1>2, <2>2, <3>2, <3>3, <3>4, <3>5 DEF Kept
  <2>5. CASE /\ o.kind \in {"restart", "away"} /\ p.returning = o.id /\ q.returning = 0 /\ q.reach = "none" /\ q.connected
             /\ q.going = (IF o.kind = "restart" THEN "none" ELSE p.going)
             /\ q.away = (IF o.kind = "away" THEN "none" ELSE p.away)
             /\ q.attempt = p.attempt /\ q.phase = p.phase
    <3>1. p.reach = "open" /\ p.kind = o.kind
      BY <2>3, <2>5
    <3>2. p.phase = "none" /\ q.going = "none" /\ q.away = "none" /\ ~p.holding
      BY <2>2, <2>5, <3>1 DEF Choosing, Loops
    <3>3. HasDevice(l, q) /\ Choosing(q) /\ Waits(l, q, own, {})
      BY <2>3, <2>5, <3>2 DEF HasDevice, Choosing, Waits
    <3>4. Loops(q, hid)
      BY <1>2, <2>5, <3>2 DEF Loops
    <3>5. Owned(l, q, own)
      BY <1>3, <2>2, <2>5, <3>1, <3>2 DEF Owned
    <3>6. ~LetsGo(p, o, "resolved")
      BY <2>5 DEF LetsGo
    <3>7. QED
      BY <1>2, <2>2, <3>3, <3>4, <3>5, <3>6 DEF Kept
  <2>6. CASE /\ o.kind = "connect" => p.attempt # o.id
             /\ o.kind \in {"restart", "away"} => p.returning # o.id
             /\ q = p
    <3>1. p.reach # "open"
      <4>1. SUFFICES ASSUME p.reach = "open" PROVE FALSE
        OBVIOUS
      <4>2. PICK m \in OpenIds : m = l.generation /\ own[m].kind = p.kind /\ own[m].id = p.returning
        BY <2>2, <4>1 DEF Waits
      <4>3. p.kind \in {"restart", "away"}
        BY <2>2, <4>1 DEF Loops
      <4>4. QED
        BY <2>6, <4>2, <4>3
    <3>2. LetsGo(p, o, "resolved") => p.phase # "connecting"
      BY DEF LetsGo, Attempts
    <3>3. Waits(l, q, own, {})
      BY <2>6, <3>1 DEF Waits
    <3>4. QED
      BY <2>2, <2>3, <2>6, <3>1, <3>2, <3>3 DEF Kept
  <2>7. QED
    BY <1>2, <2>4, <2>5, <2>6
<1>6. Kept(l, q, own, hid, {})
  BY <1>2, <1>5 DEF Kept
<1>7. CASE LetsGo(p, o, "resolved")
  <2>1. k = letGoOf(l)
    BY <1>7
  <2> HIDE DEF k
  <2>2. LinkHeld(k) /\ Attempts(k, q, own) /\ Kept(k, q, own, hid, {})
    BY <1>2, <1>4, <1>5, <1>6, <1>7, <2>1, LetGoKeeps
  <2>3. QED
    BY <1>2, <2>2 DEF q, k
<1>8. CASE ~LetsGo(p, o, "resolved")
  BY <1>2, <1>4, <1>6, <1>8 DEF q
<1>9. QED
  BY <1>7, <1>8

\* The feed, paused, pushed or let go of with its channel.
LEMMA FeedIs ==
    ASSUME NEW f \in Feeds
    PROVE  /\ pauseFeed(f) \in Feeds /\ Pushed(f) \in Feeds /\ [f EXCEPT !.held = "none"] \in Feeds
           /\ "resumed" \in pauseFeed(f).open => "resumed" \in f.open /\ f.held # "resumed"
           /\ pauseFeed(f).held = "none" /\ (pauseFeed(f).resuming # 0 => pauseFeed(f).cancelled)
           /\ Pushed(f).open = {}
<1> DEFINE c == f.cancelled \/ f.resuming # 0
           o == f.open \ {f.held}
           a == [f EXCEPT !.cancelled = c]
           b == [a EXCEPT !.held = "none"]
           d == [b EXCEPT !.open = o]
<1>1. c \in BOOLEAN /\ o \in SUBSET {"pushed", "resumed"} /\ f.cancelled \in BOOLEAN
  BY DEF Feeds
<1>2. pauseFeed(f) = d
  BY DEF pauseFeed, Feeds
<1>3. (f.resuming # 0 => c) /\ ("resumed" \in o => "resumed" \in f.open /\ f.held # "resumed")
  OBVIOUS
<1> HIDE DEF c, o
<1>4. d \in Feeds /\ d.cancelled = c /\ d.held = "none" /\ d.open = o /\ d.resuming = f.resuming
  BY <1>1 DEF Feeds
<1> HIDE DEF d
<1>5. Pushed(f) \in Feeds /\ Pushed(f).open = {} /\ [f EXCEPT !.held = "none"] \in Feeds
  BY DEF Pushed, Feeds
<1>6. QED
  BY <1>2, <1>3, <1>4, <1>5
\* The feed is left alone while the page is connected.
LEMMA FeedOfIs ==
    ASSUME NEW f \in Feeds, NEW p
    PROVE  FeedOf(p, f) \in Feeds /\ (p.connected => FeedOf(p, f) = f)
<1>1. pauseFeed(f) \in Feeds
  BY FeedIs
<1> DEFINE g == pauseFeed(f)
<1>2. FeedOf(p, f) = IF p.connected THEN f ELSE [g EXCEPT !.coming = FALSE, !.open = {}]
  BY DEF FeedOf
<1> HIDE DEF g
<1>3. [g EXCEPT !.coming = FALSE, !.open = {}] \in Feeds
  BY <1>1 DEF Feeds, g
<1>4. QED
  BY <1>2, <1>3

\* An open moving on (App.jsx, as an open settles; link.js, open).
LEMMA OpenStepsKeeps ==
    ASSUME PageHeld, NEW n \in OpenIds, OpenSteps(n)
    PROVE  PageHeld'
<1>1. /\ LinkHeld(link) /\ page \in PageRecs /\ owner \in Owners /\ feed \in Feeds /\ hidden \in BOOLEAN
      /\ Attempts(link, page, owner) /\ Kept(link, page, owner, hidden, {}) /\ Fed(page, feed, hidden)
  BY DEF PageHeld
<1>2. PICK r \in Steps(link, n) :
        LET p == Told(page, r.told)
            q == CASE r.out = "resolved" -> TakesOpened(p, owner[n])
                   [] r.out = "rejected" -> TakesFailed(p, owner[n])
                   [] OTHER -> p
            f == IF r.out = "resolved" THEN Pushed(feed) ELSE FeedOf(p, feed)
        IN /\ page' = q
           /\ link' = IF r.out # "on" /\ LetsGo(p, owner[n], r.out) THEN letGoOf(r.link) ELSE r.link
           /\ feed' = IF q.connected /\ hidden /\ r.out = "resolved" THEN pauseFeed(f)
                      ELSE IF q.connected \/ r.out # "resolved" THEN f ELSE FeedOf(q, f)
           /\ UNCHANGED <<owner, hidden, losses, hides>>
  BY DEF OpenSteps
<1> DEFINE p == Told(page, r.told)
           k == r.link
<1>3. StepDone(link, n, r)
  BY <1>1, StepIs
<1>4. owner' = owner /\ hidden' = hidden
  BY <1>2
<1>5. LinkHeld(k) /\ r.out \in {"on", "rejected", "resolved"} /\ link.opens[n] \notin {"none", "hung"} /\ owner[n].id # 0
      /\ k.generation = link.generation
  BY <1>1, <1>3 DEF StepDone, Attempts
<1>6. CASE r.out = "on"
  <2>1. page' = page /\ link' = k /\ feed' = FeedOf(page, feed)
    BY <1>2, <1>3, <1>6 DEF StepDone, Told
  <2>2. Moved(link, k, {})
    <3>1. /\ k.attached = link.attached \/ link.attached = 0
          /\ Shook(link) => Shook(k)
          /\ link.opens[n] \notin {"none", "hung", "failing"}
          /\ k.opens[n] \in IF link.opens[n] = "cut" THEN {"hung"} ELSE Underway
          /\ \A m \in OpenIds : m # n => Fell(link.opens[m], k.opens[m]) /\ (k.opens[m] = link.opens[m] \/ k.attached = 0)
      BY <1>3, <1>6 DEF StepDone
    <3> HIDE DEF k
    <3>2. QED
      BY <1>5, <3>1 DEF Moved
  <2>3. Attempts(k, page, owner) /\ Kept(k, page, owner, hidden, {})
    BY <1>1, <2>2, MovedKeeps
  <2>4. feed' \in Feeds /\ Fed(page, feed', hidden)
    BY <1>1, <2>1, FeedOfIs DEF Fed
  <2>5. QED
    BY <1>1, <1>4, <1>5, <2>1, <2>3, <2>4 DEF PageHeld
<1>7. ASSUME r.out # "on" PROVE k.opens[n] = "none"
  BY <1>3, <1>7 DEF StepDone
<1>8. ASSUME ~r.told, r.out # "on"
      PROVE  /\ Moved(link, k, {n}) /\ p = page
             /\ Attempts(k, page, owner) /\ Kept(k, page, owner, hidden, {n})
  <2>1. /\ k.attached = link.attached \/ link.attached = 0
        /\ Shook(link) => Shook(k)
        /\ \A m \in OpenIds : m # n => Fell(link.opens[m], k.opens[m]) /\ (k.opens[m] = link.opens[m] \/ k.attached = 0)
    BY <1>3, <1>8 DEF StepDone
  <2>2. k.opens[n] = "none"
    BY <1>7, <1>8
  <2>3. p = page
    BY <1>8 DEF Told
  <2> HIDE DEF k, p
  <2>4. Moved(link, k, {n})
    BY <1>5, <2>1, <2>2 DEF Moved
  <2>5. QED
    BY <1>1, <2>3, <2>4, MovedKeeps
<1>9. CASE r.out = "rejected"
  <2> DEFINE q == TakesFailed(p, owner[n])
  <2>1. /\ page' = q /\ feed' = FeedOf(p, feed)
        /\ link' = IF LetsGo(p, owner[n], "rejected") THEN letGoOf(k) ELSE k
    BY <1>2, <1>9
  <2>2. /\ p \in PageRecs /\ Attempts(k, p, owner) /\ Kept(k, p, owner, hidden, {n})
        /\ p.connected => p = page
        /\ ~p.stray => /\ owner[n].id = p.returning => p.reach = "open" /\ n = k.generation
                       /\ owner[n].id = p.attempt => ~p.connected /\ p.reach # "open"
    <3>1. CASE r.told
      <4>1. p = closed(page) /\ ClosedTo(page, closed(page))
        BY <1>1, <3>1, PageClosedIs DEF Told
      <4>2. k.generation = link.generation /\ k.attached = 0 /\ link.attached # 0
            /\ \A m \in OpenIds : m # n => Fell(link.opens[m], k.opens[m])
        BY <1>3, <3>1 DEF StepDone
      <4>3. k.opens[n] = "none"
        BY <1>7, <1>9
      <4>4. ~page.stray => Shook(k)
        BY <1>1, <1>3 DEF StepDone, Kept
      <4> HIDE DEF k, p
      <4>5. CASE page.stray
        <5>1. p.stray /\ p \in PageRecs /\ ~p.connected
          BY <4>1, <4>5 DEF ClosedTo
        <5>2. Attempts(k, p, owner)
          <6>1. \A m \in OpenIds : k.opens[m] # "none" => link.opens[m] # "none"
            BY <1>5, <4>2 DEF Fell
          <6>2. QED
            BY <1>1, <4>1, <6>1, ClosedNumbered
        <5>3. QED
          BY <5>1, <5>2 DEF Kept
      <4>6. CASE ~page.stray
        <5>1. Cut(link, k, {n})
          BY <4>2, <4>3, <4>4, <4>6 DEF Cut
        <5>2. /\ Attempts(k, p, owner) /\ Kept(k, p, owner, hidden, {n})
              /\ ~p.stray => \A m \in OpenIds : link.opens[m] \notin {"none", "hung"} =>
                    /\ owner[m].id = p.returning => p.reach = "open" /\ m = k.generation
                    /\ owner[m].id = p.attempt => ~p.connected /\ p.reach # "open"
          BY <1>1, <4>1, <5>1, ToldKeeps
        <5>3. QED
          BY <1>5, <4>1, <5>2 DEF ClosedTo
      <4>7. QED
        BY <4>5, <4>6
    <3>2. CASE ~r.told
      <4>1. p = page /\ Attempts(k, page, owner) /\ Kept(k, page, owner, hidden, {n}) /\ k.generation = link.generation
        BY <1>5, <1>8, <1>9, <3>2
      <4> HIDE DEF k, p
      <4>2. ASSUME ~page.stray
            PROVE  /\ owner[n].id = page.returning => page.reach = "open" /\ n = link.generation
                   /\ owner[n].id = page.attempt => ~page.connected /\ page.reach # "open"
        <5>1. Choosing(page) /\ Owned(link, page, owner)
          BY <1>1, <4>2 DEF Kept
        <5>2. QED
          BY <1>5, <5>1 DEF Choosing, Owned
      <4>3. QED
        BY <1>1, <4>1, <4>2
    <3>3. QED
      BY <3>1, <3>2
  <2>3. k.opens[n] = "none"
    BY <1>7, <1>9
  <2> HIDE DEF k, p
  <2>4. /\ q \in PageRecs /\ (q.connected => p.connected) /\ q.stray = p.stray
        /\ LinkHeld(link') /\ Attempts(link', q, owner) /\ Kept(link', q, owner, hidden, {})
    BY <1>1, <1>5, <2>1, <2>2, <2>3, FailedKeeps
  <2> HIDE DEF q
  <2>5. feed' \in Feeds /\ Fed(q, feed', hidden)
    <3>1. feed' \in Feeds /\ (p.connected => feed' = feed)
      BY <1>1, <2>1, FeedOfIs
    <3>2. QED
      BY <1>1, <2>2, <2>4, <3>1 DEF Fed
  <2>6. QED
    BY <1>1, <1>4, <2>1, <2>4, <2>5 DEF PageHeld
<1>10. CASE r.out = "resolved"
  <2> DEFINE q == TakesOpened(page, owner[n])
             f == Pushed(feed)
  <2>1. ~r.told /\ n = link.generation /\ link.opens[n] = "shaking" /\ k.attached = link.attached
    BY <1>3, <1>10 DEF StepDone
  <2>2. p = page /\ Attempts(k, page, owner) /\ Kept(k, page, owner, hidden, {n}) /\ k.opens[n] = "none"
    BY <1>7, <1>8, <1>10, <2>1
  <2>3. /\ page' = q
        /\ feed' = IF q.connected /\ hidden THEN pauseFeed(f) ELSE IF q.connected THEN f ELSE FeedOf(q, f)
        /\ link' = IF LetsGo(page, owner[n], "resolved") THEN letGoOf(k) ELSE k
    BY <1>2, <1>10, <2>2
  <2> HIDE DEF k, p
  <2>4. ASSUME ~page.stray
        PROVE  /\ ~page.connected /\ k.attached = n
               /\ owner[n].id = page.returning => page.reach = "open"
               /\ owner[n].id = page.attempt => page.phase = "connecting"
    <3>1. Shook(link) /\ HasDevice(link, page) /\ Owned(link, page, owner)
      BY <1>1, <2>4 DEF Kept
    <3>2. QED
      BY <2>1, <3>1 DEF Shook, HasDevice, Owned
  <2>5. /\ owner[n].id = page.returning => owner[n].kind = page.kind
        /\ owner[n].id = page.attempt => owner[n].kind = "connect"
    BY <1>1, <1>5 DEF Attempts
  <2>6. /\ q \in PageRecs /\ q.stray = page.stray
        /\ LinkHeld(link') /\ Attempts(link', q, owner) /\ Kept(link', q, owner, hidden, {})
    BY <1>1, <1>5, <2>1, <2>2, <2>3, <2>4, <2>5, OpenedKeeps
  <2>7. feed' \in Feeds /\ Fed(q, feed', hidden)
    <3>1. f \in Feeds /\ f.open = {}
      BY <1>1, FeedIs
    <3> HIDE DEF q, f
    <3>2. /\ pauseFeed(f) \in Feeds /\ FeedOf(q, f) \in Feeds
          /\ "resumed" \in pauseFeed(f).open => "resumed" \in f.open
          /\ pauseFeed(f).held = "none" /\ (pauseFeed(f).resuming # 0 => pauseFeed(f).cancelled)
      BY <3>1, FeedIs, FeedOfIs
    <3>3. CASE q.connected /\ hidden
      BY <2>3, <3>1, <3>2, <3>3 DEF Fed
    <3>4. CASE q.connected /\ ~hidden
      BY <2>3, <3>1, <3>4 DEF Fed
    <3>5. CASE ~q.connected
      BY <2>3, <3>2, <3>5 DEF Fed
    <3>6. QED
      BY <3>3, <3>4, <3>5
  <2> HIDE DEF q, f
  <2>8. QED
    BY <1>1, <1>4, <2>3, <2>6, <2>7 DEF PageHeld
<1>11. QED
  BY <1>5, <1>6, <1>9, <1>10

\* A page that is done with the device it was going back to.
LEMMA GoingEndIs ==
    ASSUME NEW p \in PageRecs
    PROVE  LET q == endGoing(p)
           IN /\ q \in PageRecs /\ q.phase = "none" /\ q.connected = FALSE /\ q.going = "none" /\ q.away = "none"
              /\ q.returning = 0 /\ q.reach = "none" /\ q.holding = FALSE
              /\ q.attempt = p.attempt /\ q.made = p.made /\ q.stray = p.stray /\ q.kind = p.kind
<1> DEFINE a == [p EXCEPT !.away = "none"]
           b == [a EXCEPT !.returning = 0, !.reach = "none", !.holding = FALSE, !.going = "none", !.connected = FALSE,
                          !.phase = "none"]
<1>1. endGoing(p) = b
  BY DEF endGoing, letGo
<1>2. /\ a \in PageRecs /\ a.away = "none" /\ a.attempt = p.attempt /\ a.made = p.made /\ a.stray = p.stray
      /\ a.kind = p.kind
  BY DEF PageRecs
<1> HIDE DEF a
<1>3. /\ b \in PageRecs /\ b.phase = "none" /\ b.connected = FALSE /\ b.going = "none" /\ b.returning = 0
      /\ b.reach = "none" /\ b.holding = FALSE /\ b.away = a.away /\ b.attempt = a.attempt /\ b.made = a.made
      /\ b.stray = a.stray /\ b.kind = a.kind
  BY <1>2 DEF PageRecs
<1> HIDE DEF b
<1>4. QED
  BY <1>1, <1>2, <1>3
\* It lets the device go, and nothing of its own is left under way.
LEMMA GoingEndKeeps ==
    ASSUME NEW l, NEW p \in PageRecs, NEW own \in Owners, NEW hid, LinkHeld(l), Attempts(l, p, own),
           Kept(l, p, own, hid, {}), ~p.stray => p.phase # "connecting"
    PROVE  LET q == endGoing(p)
           IN /\ q \in PageRecs /\ ~q.connected /\ LinkHeld(letGoOf(l)) /\ Attempts(letGoOf(l), q, own)
              /\ Kept(letGoOf(l), q, own, hid, {})
<1> DEFINE q == endGoing(p)
<1>1. /\ q \in PageRecs /\ q.phase = "none" /\ q.connected = FALSE /\ q.going = "none" /\ q.away = "none"
      /\ q.returning = 0 /\ q.reach = "none" /\ q.holding = FALSE
      /\ q.attempt = p.attempt /\ q.made = p.made /\ q.stray = p.stray /\ q.kind = p.kind
  BY GoingEndIs
<1> HIDE DEF q
<1>2. p.made \in Nat /\ p.attempt \in Nat
  BY DEF PageRecs
<1>3. Attempts(l, q, own)
  BY <1>1, <1>2 DEF Attempts
<1> DEFINE k == letGoOf(l)
<1>4. LinkHeld(k) /\ Shook(k) /\ FellFrom(l, k)
  BY LetGoIs
<1> HIDE DEF k
<1>5. \A m \in OpenIds : /\ k.opens[m] # "none" => l.opens[m] # "none"
                         /\ k.opens[m] \notin {"none", "hung"} => l.opens[m] \notin {"none", "hung"}
                         /\ l.opens[m] \in {"failing", "cut"} => k.opens[m] \in {"failing", "cut"}
  BY <1>4 DEF FellFrom, Fell
<1>6. Attempts(k, q, own)
  BY <1>3, <1>5 DEF Attempts
<1>7. Kept(k, q, own, hid, {})
  <2>1. SUFFICES ASSUME ~p.stray PROVE Kept(k, q, own, hid, {})
    BY <1>1 DEF Kept
  <2>2. HasDevice(k, q) /\ Choosing(q) /\ Loops(q, hid) /\ Waits(k, q, own, {})
    BY <1>1 DEF HasDevice, Choosing, Loops, Waits
  <2>3. \A m \in OpenIds : l.opens[m] # "none" => own[m].id # 0
    BY DEF Attempts
  <2>4. Owned(l, p, own)
    BY <2>1 DEF Kept
  <2>5. Owned(k, q, own)
    BY <1>1, <1>5, <2>1, <2>3, <2>4 DEF Owned
  <2>6. QED
    BY <1>4, <2>2, <2>5 DEF Kept
<1>8. QED
  BY <1>1, <1>4, <1>6, <1>7 DEF q, k

\* connect (App.jsx, connect).
LEMMA ConnectKeeps ==
    ASSUME PageHeld, Connect
    PROVE  PageHeld'
<1>1. /\ LinkHeld(link) /\ page \in PageRecs /\ owner \in Owners /\ feed \in Feeds /\ hidden \in BOOLEAN
      /\ Attempts(link, page, owner) /\ Kept(link, page, owner, hidden, {}) /\ Fed(page, feed, hidden)
  BY DEF PageHeld
<1>2. /\ page' = [page EXCEPT !.phase = "choosing", !.made = @ + 1, !.attempt = page.made + 1]
      /\ page.phase = "none" /\ ~page.connected /\ page.going = "none" /\ page.away = "none"
      /\ UNCHANGED <<link, owner, feed, hidden>>
  BY DEF Connect, Finding
<1> DEFINE a == page.made + 1
<1>3. page.made \in Nat /\ a \in Nat /\ a > page.made /\ \A n \in OpenIds : owner[n].id \in Nat
  BY <1>1 DEF PageRecs, Owners
<1>4. page' = [page EXCEPT !.phase = "choosing", !.made = a, !.attempt = a]
  BY <1>1, <1>2 DEF PageRecs
<1> HIDE DEF a
<1>5. /\ page' \in PageRecs /\ page'.phase = "choosing" /\ page'.made = a /\ page'.attempt = a
      /\ page'.connected = page.connected /\ page'.going = page.going /\ page'.away = page.away
      /\ page'.returning = page.returning /\ page'.reach = page.reach /\ page'.kind = page.kind
      /\ page'.holding = page.holding /\ page'.stray = page.stray
  BY <1>1, <1>3, <1>4 DEF PageRecs
<1>6. \A n \in OpenIds : owner[n].id # a /\ owner[n].id <= a
  BY <1>1, <1>3 DEF Attempts
<1>7. page.returning <= a /\ a # page.returning /\ a # 0
  BY <1>1, <1>3 DEF Attempts, PageRecs
<1> DEFINE p == page'
<1> HIDE DEF p
<1>8. Attempts(link, p, owner)
  BY <1>1, <1>3, <1>5, <1>6, <1>7 DEF Attempts, p
<1>9. Kept(link, p, owner, hidden, {})
  <2>1. SUFFICES ASSUME ~page.stray PROVE Kept(link, p, owner, hidden, {})
    BY <1>5 DEF Kept, p
  <2>2. Shook(link) /\ HasDevice(link, page) /\ Loops(page, hidden) /\ Owned(link, page, owner)
    BY <1>1, <2>1 DEF Kept
  <2>3. page.reach = "none"
    BY <1>2, <2>2 DEF Loops
  <2>4. HasDevice(link, p) /\ Choosing(p) /\ Waits(link, p, owner, {})
    BY <1>2, <1>5, <1>7, <2>3 DEF HasDevice, Choosing, Waits, p
  <2>5. Loops(p, hidden)
    BY <1>2, <1>5, <2>2, <2>3 DEF Loops, p
  <2>6. Owned(link, p, owner)
    BY <1>5, <1>6, <2>2, <2>3 DEF Owned, p
  <2>7. QED
    BY <2>2, <2>4, <2>5, <2>6 DEF Kept
<1>10. Fed(p, feed, hidden)
  BY <1>2, <1>5 DEF Fed, p
<1>11. QED
  BY <1>1, <1>2, <1>5, <1>8, <1>9, <1>10 DEF PageHeld, p

\* The chooser closing (App.jsx, connect; link.js, choose).
LEMMA PicksKeeps ==
    ASSUME PageHeld, NEW what, Picks(what)
    PROVE  PageHeld'
<1>1. /\ LinkHeld(link) /\ page \in PageRecs /\ owner \in Owners /\ feed \in Feeds /\ hidden \in BOOLEAN
      /\ Attempts(link, page, owner) /\ Kept(link, page, owner, hidden, {}) /\ Fed(page, feed, hidden)
  BY DEF PageHeld
<1>2. page.phase = "choosing" /\ feed' = feed /\ hidden' = hidden
  BY DEF Picks
<1>3. ~page.stray => ~page.connected /\ page.reach = "none" /\ page.going = "none" /\ page.away = "none"
  BY <1>1, <1>2 DEF Kept, Choosing
<1>4. \A n \in OpenIds : link.opens[n] # "none" => owner[n].id # 0 /\ owner[n].id # page.attempt
  BY <1>1, <1>2 DEF Attempts
<1> DEFINE p == page'
           k == link'
           w == owner'
<1>5. CASE /\ what = "device" /\ CanOpen(link)
           /\ link' = OpenBegins([link EXCEPT !.device = TRUE])
           /\ owner' = [owner EXCEPT ![link'.generation] = [kind |-> "connect", id |-> page.attempt]]
           /\ page' = [page EXCEPT !.phase = "connecting"]
  <2> DEFINE l == [link EXCEPT !.device = TRUE]
             g == link.generation + 1
  <2>1. /\ l \in LinkRecs /\ l.device /\ l.generation = link.generation /\ l.attached = link.attached
        /\ l.channel = link.channel /\ l.notifying = link.notifying /\ l.up = link.up /\ l.session = link.session
        /\ l.stops = link.stops /\ l.opens = link.opens
    BY <1>1 DEF LinkHeld, LinkRecs
  <2>2. k = OpenBegins(l)
    BY <1>5
  <2> HIDE DEF l, k
  <2>3. LinkHeld(l) /\ CanOpen(l)
    BY <1>1, <1>5, <2>1 DEF LinkHeld, Listens, AsksLast, Stopping, Sessions, CanOpen
  <2>4. /\ LinkHeld(k) /\ Shook(k) /\ k.generation = g /\ k.attached = 0 /\ g \in OpenIds
        /\ k.opens[g] \in {"dropping", "connecting"}
        /\ \A n \in OpenIds : n # g => Fell(link.opens[n], k.opens[n])
    BY <2>1, <2>2, <2>3, OpenBeginsIs
  <2>5. /\ p \in PageRecs /\ p.phase = "connecting" /\ p.attempt = page.attempt /\ p.made = page.made
        /\ p.returning = page.returning /\ p.kind = page.kind /\ p.reach = page.reach /\ p.connected = page.connected
        /\ p.going = page.going /\ p.away = page.away /\ p.holding = page.holding /\ p.stray = page.stray
    BY <1>1, <1>5 DEF PageRecs
  <2>6. page.attempt \in Nat
    BY <1>1 DEF PageRecs
  <2>7. w = [owner EXCEPT ![g] = [kind |-> "connect", id |-> page.attempt]]
    BY <1>5, <2>4 DEF k
  <2> HIDE DEF g
  <2>8. /\ w \in Owners /\ w[g].kind = "connect" /\ w[g].id = page.attempt
        /\ \A n \in OpenIds : n # g => w[n] = owner[n]
    BY <1>1, <2>4, <2>6, <2>7 DEF Owners
  <2> HIDE DEF p, w
  <2>9. page.attempt # 0 => page.attempt # page.returning /\ page.attempt <= page.made
    BY <1>1 DEF Attempts
  <2>10. page.attempt # 0 /\ \A n \in OpenIds : k.opens[n] # "none" => n = g \/ link.opens[n] # "none"
    BY <1>1, <1>2, <2>4 DEF Attempts, Fell
  <2>11. Attempts(k, p, w)
    BY <1>1, <2>5, <2>8, <2>9, <2>10 DEF Attempts
  <2>12. Kept(k, p, w, hidden, {})
    <3>1. SUFFICES ASSUME ~page.stray PROVE Kept(k, p, w, hidden, {})
      BY <2>5 DEF Kept
    <3>2. Loops(page, hidden) /\ Owned(link, page, owner)
      BY <1>1, <3>1 DEF Kept
    <3>3. HasDevice(k, p) /\ Choosing(p) /\ Loops(p, hidden) /\ Waits(k, p, w, {})
      BY <1>3, <2>5, <3>1, <3>2 DEF HasDevice, Choosing, Loops, Waits
    <3>4. \A n \in OpenIds : n # g /\ k.opens[n] \notin {"none", "hung"} =>
             w[n].id # page.returning /\ w[n].id # page.attempt
      <4>1. \A n \in OpenIds : n # g /\ k.opens[n] \notin {"none", "hung"} => link.opens[n] \notin {"none", "hung"}
        BY <2>4 DEF Fell
      <4>2. QED
        BY <1>3, <1>4, <2>8, <3>1, <3>2, <4>1 DEF Owned
    <3>5. w[g].id # page.returning
      BY <2>8, <2>9, <2>10
    <3>6. Owned(k, p, w)
      BY <2>4, <2>5, <3>4, <3>5 DEF Owned
    <3>7. QED
      BY <2>4, <3>3, <3>6 DEF Kept
  <2>13. Fed(p, feed, hidden)
    BY <1>3, <2>5 DEF Fed
  <2>14. QED
    BY <1>1, <1>2, <2>4, <2>5, <2>8, <2>11, <2>12, <2>13 DEF PageHeld, k, p, w
<1>6. CASE /\ what = "none" /\ link' = letGoOf(link)
           /\ page' = [page EXCEPT !.phase = "none", !.attempt = 0] /\ owner' = owner
  <2>1. /\ p \in PageRecs /\ p.phase = "none" /\ p.attempt = 0 /\ p.made = page.made
        /\ p.returning = page.returning /\ p.kind = page.kind /\ p.reach = page.reach /\ p.connected = page.connected
        /\ p.going = page.going /\ p.away = page.away /\ p.holding = page.holding /\ p.stray = page.stray
    BY <1>1, <1>6 DEF PageRecs
  <2>2. page.made \in Nat
    BY <1>1 DEF PageRecs
  <2> HIDE DEF p
  <2>3. Attempts(link, p, owner)
    BY <1>1, <2>1, <2>2 DEF Attempts
  <2>4. Kept(link, p, owner, hidden, {})
    BY <1>1, <1>3, <1>4, <2>1 DEF Kept, HasDevice, Choosing, Loops, Waits, Owned
  <2>5. LinkHeld(letGoOf(link)) /\ Attempts(letGoOf(link), p, owner) /\ Kept(letGoOf(link), p, owner, hidden, {})
    BY <1>1, <1>3, <2>1, <2>3, <2>4, LetGoKeeps
  <2>6. Fed(p, feed, hidden)
    BY <1>3, <2>1 DEF Fed
  <2>7. QED
    BY <1>1, <1>2, <1>6, <2>1, <2>5, <2>6 DEF PageHeld, p
<1>7. QED
  BY <1>5, <1>6 DEF Picks

\* cancelConnect (App.jsx).
LEMMA CancelKeeps ==
    ASSUME PageHeld, cancelConnect
    PROVE  PageHeld'
<1>1. /\ LinkHeld(link) /\ page \in PageRecs /\ owner \in Owners /\ feed \in Feeds /\ hidden \in BOOLEAN
      /\ Attempts(link, page, owner) /\ Kept(link, page, owner, hidden, {}) /\ Fed(page, feed, hidden)
  BY DEF PageHeld
<1>2. /\ page.phase = "connecting" /\ page' = [page EXCEPT !.attempt = 0, !.phase = "none"]
      /\ link' = letGoOf(link) /\ feed' = [feed EXCEPT !.held = "none"] /\ owner' = owner /\ hidden' = hidden
  BY DEF cancelConnect
<1>3. ~page.stray => ~page.connected /\ page.reach = "none" /\ page.going = "none" /\ page.away = "none"
  BY <1>1, <1>2 DEF Kept, Choosing
<1> DEFINE p == page'
<1>4. /\ p \in PageRecs /\ p.phase = "none" /\ p.attempt = 0 /\ p.made = page.made
      /\ p.returning = page.returning /\ p.kind = page.kind /\ p.reach = page.reach /\ p.connected = page.connected
      /\ p.going = page.going /\ p.away = page.away /\ p.holding = page.holding /\ p.stray = page.stray
  BY <1>1, <1>2 DEF PageRecs
<1>5. page.made \in Nat /\ \A n \in OpenIds : link.opens[n] # "none" => owner[n].id # 0
  BY <1>1 DEF PageRecs, Attempts
<1> HIDE DEF p
<1>6. Attempts(link, p, owner)
  BY <1>1, <1>4, <1>5 DEF Attempts
<1>7. Kept(link, p, owner, hidden, {})
  BY <1>1, <1>3, <1>4, <1>5 DEF Kept, HasDevice, Choosing, Loops, Waits, Owned
<1>8. LinkHeld(letGoOf(link)) /\ Attempts(letGoOf(link), p, owner) /\ Kept(letGoOf(link), p, owner, hidden, {})
  BY <1>1, <1>3, <1>4, <1>6, <1>7, LetGoKeeps
<1>9. feed' \in Feeds /\ Fed(p, feed', hidden)
  BY <1>1, <1>2, <1>3, <1>4, FeedIs DEF Fed
<1>10. QED
  BY <1>1, <1>2, <1>4, <1>8, <1>9 DEF PageHeld, p

\* disconnect (App.jsx).
LEMMA DisconnectKeeps ==
    ASSUME PageHeld, disconnect
    PROVE  PageHeld'
<1>1. /\ LinkHeld(link) /\ page \in PageRecs /\ owner \in Owners /\ feed \in Feeds /\ hidden \in BOOLEAN
      /\ Attempts(link, page, owner) /\ Kept(link, page, owner, hidden, {}) /\ Fed(page, feed, hidden)
  BY DEF PageHeld
<1>2. /\ page.connected \/ page.going # "none" \/ page.away # "none"
      /\ page' = endGoing(page) /\ link' = letGoOf(link) /\ feed' = FeedOf(page', [feed EXCEPT !.held = "none"])
      /\ owner' = owner /\ hidden' = hidden
  BY DEF disconnect
<1>3. ~page.stray => page.phase # "connecting"
  BY <1>1, <1>2 DEF Kept, Choosing
<1> DEFINE p == endGoing(page)
<1>4. /\ p \in PageRecs /\ ~p.connected /\ LinkHeld(letGoOf(link)) /\ Attempts(letGoOf(link), p, owner)
      /\ Kept(letGoOf(link), p, owner, hidden, {})
  BY <1>1, <1>3, GoingEndKeeps
<1>5. p = page'
  BY <1>2
<1> HIDE DEF p
<1>6. feed' \in Feeds /\ Fed(p, feed', hidden)
  <2>1. [feed EXCEPT !.held = "none"] \in Feeds
    BY <1>1, FeedIs
  <2>2. feed' \in Feeds
    BY <1>2, <2>1, FeedOfIs
  <2>3. QED
    BY <1>4, <2>2 DEF Fed
<1>7. QED
  BY <1>1, <1>2, <1>4, <1>5, <1>6 DEF PageHeld

\* A loop's attempt begun (App.jsx, reachAgain).
LEMMA TriesKeeps ==
    ASSUME PageHeld, Tries, Failing(link) = {}
    PROVE  PageHeld'
<1>1. /\ LinkHeld(link) /\ page \in PageRecs /\ owner \in Owners /\ feed \in Feeds /\ hidden \in BOOLEAN
      /\ Attempts(link, page, owner) /\ Kept(link, page, owner, hidden, {}) /\ Fed(page, feed, hidden)
  BY DEF PageHeld
<1> DEFINE g == link.generation + 1
           p == page'
           k == link'
           w == owner'
<1>2. /\ page.reach \in {"first", "again"} /\ k = OpenBegins(link) /\ p = [page EXCEPT !.reach = "open"]
      /\ owner' = [owner EXCEPT ![link'.generation] = [kind |-> page.kind, id |-> page.returning]]
      /\ feed' = feed /\ hidden' = hidden /\ link.device /\ CanOpen(link)
  BY DEF Tries
<1>3. /\ LinkHeld(k) /\ Shook(k) /\ k.generation = g /\ k.attached = 0 /\ g \in OpenIds
      /\ k.opens[g] \in {"dropping", "connecting"}
      /\ \A n \in OpenIds : n # g => Fell(link.opens[n], k.opens[n])
  BY <1>1, <1>2, OpenBeginsIs
<1>4. /\ p \in PageRecs /\ p.phase = page.phase /\ p.attempt = page.attempt /\ p.made = page.made
      /\ p.returning = page.returning /\ p.kind = page.kind /\ p.reach = "open" /\ p.connected = page.connected
      /\ p.going = page.going /\ p.away = page.away /\ p.holding = page.holding /\ p.stray = page.stray
  BY <1>1, <1>2 DEF PageRecs
<1>5. page.returning \in Nat /\ page.kind \in {"none", "restart", "away"}
  BY <1>1 DEF PageRecs
<1>6. w = [owner EXCEPT ![g] = [kind |-> page.kind, id |-> page.returning]]
  BY <1>2, <1>3 DEF k
<1> HIDE DEF k, g
<1>7. /\ w \in Owners /\ w[g].kind = page.kind /\ w[g].id = page.returning
      /\ \A n \in OpenIds : n # g => w[n] = owner[n]
  BY <1>1, <1>3, <1>5, <1>6 DEF Owners
<1> HIDE DEF p, w
<1>8. ASSUME page.returning # 0 PROVE Attempts(k, p, w)
  <2>1. \A n \in OpenIds : n # g /\ k.opens[n] # "none" => link.opens[n] # "none"
    BY <1>3 DEF Fell
  <2>2. page.attempt # 0 => page.attempt # page.returning
    BY <1>1 DEF Attempts
  <2>3. page.phase = "choosing" => page.attempt # page.returning
    BY <1>1 DEF Attempts
  <2>4. QED
    BY <1>1, <1>4, <1>7, <1>8, <2>1, <2>2, <2>3 DEF Attempts
<1>9. page.returning # 0
  BY <1>1, <1>2 DEF Attempts
<1>10. Kept(k, p, w, hidden, {})
  <2>1. SUFFICES ASSUME ~page.stray PROVE Kept(k, p, w, hidden, {})
    BY <1>4 DEF Kept
  <2>2. HasDevice(link, page) /\ Choosing(page) /\ Loops(page, hidden) /\ Owned(link, page, owner)
    BY <1>1, <2>1 DEF Kept
  <2>3. ~page.connected /\ page.phase = "none" /\ page.returning # 0
    BY <1>2, <1>9, <2>2 DEF Loops, Choosing
  <2>4. HasDevice(k, p) /\ Choosing(p) /\ Loops(p, hidden)
    BY <1>2, <1>4, <2>2, <2>3 DEF HasDevice, Choosing, Loops
  <2>5. Waits(k, p, w, {})
    BY <1>3, <1>4, <1>7 DEF Waits
  <2>6. \A n \in OpenIds : n # g /\ k.opens[n] \notin {"none", "hung"} =>
           w[n].id # page.returning /\ w[n].id # page.attempt
    <3>1. \A n \in OpenIds : n # g /\ k.opens[n] \notin {"none", "hung"} => link.opens[n] \notin {"none", "hung"}
      BY <1>3 DEF Fell
    <3>2. \A n \in OpenIds : link.opens[n] \notin {"failing", "cut"}
      BY DEF Failing
    <3>3. QED
      BY <1>2, <1>7, <2>2, <2>3, <3>1, <3>2 DEF Owned
  <2>7. page.attempt # page.returning
    BY <1>1, <2>3 DEF Attempts
  <2>8. Owned(k, p, w)
    BY <1>3, <1>4, <1>7, <2>6, <2>7 DEF Owned
  <2>9. QED
    BY <1>3, <2>4, <2>5, <2>8 DEF Kept
<1>11. Fed(p, feed, hidden)
  BY <1>1, <1>4 DEF Fed
<1>12. QED
  BY <1>1, <1>2, <1>3, <1>4, <1>7, <1>8, <1>9, <1>10, <1>11 DEF PageHeld, k, p, w

\* The end of a loop (App.jsx, reachAgain).
LEMMA GivesUpKeeps ==
    ASSUME PageHeld, GivesUp
    PROVE  PageHeld'
<1>1. /\ LinkHeld(link) /\ page \in PageRecs /\ owner \in Owners /\ feed \in Feeds /\ hidden \in BOOLEAN
      /\ Attempts(link, page, owner) /\ Kept(link, page, owner, hidden, {}) /\ Fed(page, feed, hidden)
  BY DEF PageHeld
<1>2. /\ page.reach \in {"first", "again"}
      /\ page' = IF page.kind = "restart" THEN endGoing(page) ELSE [letGo(page) EXCEPT !.reach = "none"]
      /\ link' = letGoOf(link) /\ owner' = owner /\ feed' = feed /\ hidden' = hidden
  BY DEF GivesUp
<1>3. ~page.stray => page.phase = "none" /\ ~page.connected
  BY <1>1, <1>2, PageIs DEF Kept, Choosing, Loops
<1>4. CASE page.kind = "restart"
  <2> DEFINE p == endGoing(page)
  <2>1. /\ p \in PageRecs /\ ~p.connected /\ LinkHeld(letGoOf(link)) /\ Attempts(letGoOf(link), p, owner)
        /\ Kept(letGoOf(link), p, owner, hidden, {})
    BY <1>1, <1>3, GoingEndKeeps
  <2>2. p = page'
    BY <1>2, <1>4
  <2> HIDE DEF p
  <2>3. Fed(p, feed, hidden)
    BY <2>1 DEF Fed
  <2>4. QED
    BY <1>1, <1>2, <2>1, <2>2, <2>3 DEF PageHeld
<1>5. CASE page.kind # "restart"
  <2> DEFINE a == [page EXCEPT !.away = "none"]
             p == [a EXCEPT !.reach = "none"]
  <2>1. p = page'
    BY <1>2, <1>5 DEF letGo
  <2>2. /\ p \in PageRecs /\ p.reach = "none" /\ p.away = "none" /\ p.phase = page.phase /\ p.attempt = page.attempt
        /\ p.made = page.made /\ p.returning = page.returning /\ p.kind = page.kind /\ p.connected = page.connected
        /\ p.going = page.going /\ p.holding = page.holding /\ p.stray = page.stray
    BY <1>1 DEF PageRecs
  <2> HIDE DEF p
  <2>3. Attempts(link, p, owner)
    BY <1>1, <2>2 DEF Attempts
  <2>4. Kept(link, p, owner, hidden, {})
    <3>1. SUFFICES ASSUME ~page.stray PROVE Kept(link, p, owner, hidden, {})
      BY <2>2 DEF Kept
    <3>2. Shook(link) /\ Loops(page, hidden) /\ Owned(link, page, owner)
      BY <1>1, <3>1 DEF Kept
    <3>3. page.going = "none" /\ ~page.holding
      BY <1>2, <1>5, <3>2 DEF Loops
    <3>4. HasDevice(link, p) /\ Choosing(p) /\ Loops(p, hidden) /\ Waits(link, p, owner, {})
      BY <1>3, <2>2, <3>1, <3>3 DEF HasDevice, Choosing, Loops, Waits
    <3>5. Owned(link, p, owner)
      BY <1>2, <1>3, <2>2, <3>1, <3>2 DEF Owned
    <3>6. QED
      BY <3>2, <3>4, <3>5 DEF Kept
  <2>5. LinkHeld(letGoOf(link)) /\ Attempts(letGoOf(link), p, owner) /\ Kept(letGoOf(link), p, owner, hidden, {})
    BY <1>1, <1>3, <2>2, <2>3, <2>4, LetGoKeeps
  <2>6. Fed(p, feed, hidden)
    BY <1>3, <2>2 DEF Fed
  <2>7. QED
    BY <1>1, <1>2, <2>1, <2>2, <2>5, <2>6 DEF PageHeld
<1>6. QED
  BY <1>4, <1>5

\* Held until the device is off (App.jsx, endGoing).
LEMMA HoldEndsKeeps ==
    ASSUME PageHeld, HoldEnds
    PROVE  PageHeld'
<1>1. /\ LinkHeld(link) /\ page \in PageRecs /\ owner \in Owners /\ feed \in Feeds /\ hidden \in BOOLEAN
      /\ Attempts(link, page, owner) /\ Kept(link, page, owner, hidden, {}) /\ Fed(page, feed, hidden)
  BY DEF PageHeld
<1>2. /\ page.holding /\ page' = endGoing(page) /\ link' = letGoOf(link)
      /\ owner' = owner /\ feed' = feed /\ hidden' = hidden
  BY DEF HoldEnds
<1>3. ~page.stray => page.phase # "connecting"
  BY <1>1, <1>2 DEF Kept, Choosing, Loops
<1> DEFINE p == endGoing(page)
<1>4. /\ p \in PageRecs /\ ~p.connected /\ LinkHeld(letGoOf(link)) /\ Attempts(letGoOf(link), p, owner)
      /\ Kept(letGoOf(link), p, owner, hidden, {})
  BY <1>1, <1>3, GoingEndKeeps
<1>5. p = page'
  BY <1>2
<1> HIDE DEF p
<1>6. Fed(p, feed, hidden)
  BY <1>4 DEF Fed
<1>7. QED
  BY <1>1, <1>2, <1>4, <1>5, <1>6 DEF PageHeld

\* Notifications off (link.js, drop).
LEMMA DropEndsKeeps ==
    ASSUME PageHeld, NEW g \in link.stops, DropEnds(g)
    PROVE  PageHeld'
<1>1. /\ LinkHeld(link) /\ page \in PageRecs /\ owner \in Owners /\ feed \in Feeds /\ hidden \in BOOLEAN
      /\ Attempts(link, page, owner) /\ Kept(link, page, owner, hidden, {}) /\ Fed(page, feed, hidden)
  BY DEF PageHeld
<1> DEFINE k == NotificationsOff(link, g)
<1>2. link' = k /\ page' = page /\ owner' = owner /\ feed' = feed /\ hidden' = hidden
  BY DEF DropEnds
<1>3. g \in Nat /\ (g = link.generation => link.attached = 0)
  BY <1>1 DEF LinkHeld, LinkRecs, Stopping
<1>4. /\ LinkHeld(k) /\ FellFrom(link, k) /\ (Shook(link) => Shook(k)) /\ k.generation = link.generation
      /\ IF g = link.generation THEN k.attached = 0 ELSE k.attached = link.attached /\ k.opens = link.opens
  BY <1>1, <1>3, OffIs
<1> HIDE DEF k
<1>5. Moved(link, k, {})
  BY <1>3, <1>4 DEF Moved, FellFrom
<1>6. Attempts(k, page, owner) /\ Kept(k, page, owner, hidden, {})
  BY <1>1, <1>5, MovedKeeps
<1>7. QED
  BY <1>1, <1>2, <1>4, <1>6 DEF PageHeld

\* The connection gone, or the channel ended under it (link.js).
LEMMA LostKeeps ==
    ASSUME PageHeld, NEW gone \in BOOLEAN, Lost(gone)
    PROVE  PageHeld'
<1>1. /\ LinkHeld(link) /\ page \in PageRecs /\ owner \in Owners /\ feed \in Feeds /\ hidden \in BOOLEAN
      /\ Attempts(link, page, owner) /\ Kept(link, page, owner, hidden, {}) /\ Fed(page, feed, hidden)
  BY DEF PageHeld
<1>2. /\ gone \/ (page.connected /\ link.attached # 0)
      /\ link' = IF gone THEN Down(link) ELSE [link EXCEPT !.attached = 0]
      /\ page' = Told(page, link.attached # 0) /\ feed' = FeedOf(page', feed)
      /\ owner' = owner /\ hidden' = hidden
  BY DEF Lost
<1> DEFINE k == link'
<1>3. /\ LinkHeld(k) /\ (~page.stray => Shook(k)) /\ FellFrom(link, k) /\ k.generation = link.generation /\ k.attached = 0
  <2>1. CASE gone
    <3>1. k = Down(link)
      BY <1>2, <2>1
    <3>2. QED
      BY <1>1, <3>1, DownIs DEF LinkHeld
  <2>2. CASE ~gone
    <3>1. k = [link EXCEPT !.attached = 0] /\ page.connected
      BY <1>2, <2>2
    <3> HIDE DEF k
    <3>2. /\ k \in LinkRecs /\ k.attached = 0 /\ k.generation = link.generation /\ k.opens = link.opens
          /\ k.device = link.device /\ k.channel = link.channel /\ k.notifying = link.notifying /\ k.up = link.up
          /\ k.session = link.session /\ k.stops = link.stops
      BY <1>1, <3>1 DEF LinkHeld, LinkRecs
    <3>3. LinkHeld(k)
      BY <1>1, <3>2 DEF LinkHeld, Listens, AsksLast, Stopping, Sessions
    <3>4. FellFrom(link, k)
      BY <3>2 DEF FellFrom, Fell
    <3>5. ~page.stray => Shook(k)
      BY <1>1, <3>1, <3>2 DEF Kept, HasDevice, Shook
    <3>6. QED
      BY <3>2, <3>3, <3>4, <3>5
  <2>3. QED
    BY <2>1, <2>2
<1> HIDE DEF k
<1>4. feed' \in Feeds /\ (page'.connected => feed' = feed)
  BY <1>1, <1>2, FeedOfIs
<1> DEFINE p == page'
<1>5. CASE link.attached # 0
  <2>1. p = closed(page) /\ ClosedTo(page, closed(page))
    BY <1>1, <1>2, <1>5, PageClosedIs DEF Told
  <2>2. \A m \in OpenIds : k.opens[m] # "none" => link.opens[m] # "none"
    BY <1>3 DEF FellFrom, Fell
  <2>3. p \in PageRecs /\ ~p.connected /\ (page.stray => p.stray)
    BY <2>1 DEF ClosedTo
  <2>4. Attempts(k, closed(page), owner)
    BY <1>1, <2>2, ClosedNumbered
  <2>5. Kept(k, closed(page), owner, hidden, {})
    <3>1. CASE page.stray
      BY <2>1, <2>3, <3>1 DEF Kept
    <3>2. CASE ~page.stray
      <4>1. Cut(link, k, {})
        BY <1>3, <1>5, <3>2 DEF Cut, FellFrom
      <4>2. QED
        BY <1>1, <4>1, ToldKeeps
    <3>3. QED
      BY <3>1, <3>2
  <2> HIDE DEF p
  <2>6. Fed(p, feed', hidden)
    BY <2>3 DEF Fed
  <2>7. QED
    BY <1>1, <1>2, <1>3, <1>4, <2>1, <2>3, <2>4, <2>5, <2>6 DEF PageHeld, k, p
<1>6. CASE link.attached = 0
  <2>1. p = page
    BY <1>2, <1>6 DEF Told
  <2>2. CASE page.stray
    <3>1. \A m \in OpenIds : k.opens[m] # "none" => link.opens[m] # "none"
      BY <1>3 DEF FellFrom, Fell
    <3>2. Attempts(k, page, owner)
      BY <1>1, <3>1 DEF Attempts
    <3>3. Kept(k, page, owner, hidden, {}) /\ Fed(page, feed', hidden)
      BY <2>2 DEF Kept, Fed
    <3>4. QED
      BY <1>1, <1>2, <1>3, <1>4, <2>1, <3>2, <3>3 DEF PageHeld, k
  <2>3. CASE ~page.stray
    <3>1. Moved(link, k, {})
      BY <1>3, <1>6, <2>3 DEF Moved, FellFrom
    <3>2. Attempts(k, page, owner) /\ Kept(k, page, owner, hidden, {})
      BY <1>1, <3>1, MovedKeeps
    <3>3. Fed(page, feed', hidden)
      BY <1>1, <1>4, <2>1 DEF Fed
    <3>4. QED
      BY <1>1, <1>2, <1>3, <1>4, <2>1, <3>2, <3>3 DEF PageHeld, k
  <2>4. QED
    BY <2>2, <2>3
<1>7. QED
  BY <1>5, <1>6

\* startGoing (App.jsx).
LEMMA GoingKeeps ==
    ASSUME PageHeld, NEW deed \in {"restart", "power-off"}, startGoing(deed)
    PROVE  PageHeld'
<1>1. /\ LinkHeld(link) /\ page \in PageRecs /\ owner \in Owners /\ feed \in Feeds /\ hidden \in BOOLEAN
      /\ Attempts(link, page, owner) /\ Kept(link, page, owner, hidden, {}) /\ Fed(page, feed, hidden)
  BY DEF PageHeld
<1> DEFINE p == page'
<1>2. /\ page.connected /\ page.going = "none" /\ p = [page EXCEPT !.going = deed]
      /\ link' = link /\ owner' = owner /\ feed' = feed /\ hidden' = hidden
  BY DEF startGoing
<1>3. /\ p \in PageRecs /\ p.going = deed /\ p.reach = page.reach /\ p.away = page.away /\ p.phase = page.phase
      /\ p.attempt = page.attempt /\ p.made = page.made /\ p.returning = page.returning /\ p.kind = page.kind
      /\ p.connected = page.connected /\ p.holding = page.holding /\ p.stray = page.stray
  BY <1>1, <1>2 DEF PageRecs
<1> HIDE DEF p
<1>4. Attempts(link, p, owner)
  BY <1>1, <1>3 DEF Attempts
<1>5. Kept(link, p, owner, hidden, {})
  <2>1. SUFFICES ASSUME ~page.stray PROVE Kept(link, p, owner, hidden, {})
    BY <1>3 DEF Kept
  <2>2. Shook(link) /\ HasDevice(link, page) /\ Loops(page, hidden) /\ Owned(link, page, owner)
    BY <1>1, <2>1 DEF Kept
  <2>3. page.phase = "none" /\ page.reach = "none" /\ page.away = "none" /\ ~page.holding
    BY <1>2, <2>2 DEF HasDevice, Loops
  <2>4. HasDevice(link, p) /\ Choosing(p) /\ Loops(p, hidden) /\ Waits(link, p, owner, {})
    BY <1>2, <1>3, <2>2, <2>3 DEF HasDevice, Choosing, Loops, Waits
  <2>5. Owned(link, p, owner)
    BY <1>3, <2>2 DEF Owned
  <2>6. QED
    BY <2>2, <2>4, <2>5 DEF Kept
<1>6. Fed(p, feed, hidden)
  BY <1>1, <1>3 DEF Fed
<1>7. QED
  BY <1>1, <1>2, <1>3, <1>4, <1>5, <1>6 DEF PageHeld, p

\* The page hidden (App.jsx, visibilitychange; client.js, pauseFeed).
LEMMA HideKeeps ==
    ASSUME PageHeld, Hide
    PROVE  PageHeld'
<1>1. /\ LinkHeld(link) /\ page \in PageRecs /\ owner \in Owners /\ feed \in Feeds /\ hidden \in BOOLEAN
      /\ Attempts(link, page, owner) /\ Kept(link, page, owner, hidden, {}) /\ Fed(page, feed, hidden)
  BY DEF PageHeld
<1>2. /\ link' = link /\ page' = page /\ owner' = owner /\ hidden' = TRUE
      /\ feed' = IF page.connected THEN pauseFeed(feed) ELSE feed
  BY DEF Hide
<1>3. Kept(link, page, owner, TRUE, {})
  BY <1>1 DEF Kept, Loops
<1>4. feed' \in Feeds /\ Fed(page, feed', TRUE)
  BY <1>1, <1>2, FeedIs DEF Fed
<1>5. QED
  BY <1>1, <1>2, <1>3, <1>4 DEF PageHeld

\* And shown again.
LEMMA ShowKeeps ==
    ASSUME PageHeld, Show
    PROVE  PageHeld'
<1>1. /\ LinkHeld(link) /\ page \in PageRecs /\ owner \in Owners /\ feed \in Feeds /\ hidden \in BOOLEAN
      /\ Attempts(link, page, owner) /\ Kept(link, page, owner, hidden, {}) /\ Fed(page, feed, hidden)
  BY DEF PageHeld
<1> DEFINE r == Reaches(page, "away", "first")
           a == IF page.away = "hidden" THEN reconnectAway(page) ELSE page
           p == page'
<1>2. /\ link' = link /\ owner' = owner /\ hidden' = FALSE
      /\ p = [a EXCEPT !.fresh = TRUE]
      /\ feed' = IF page.connected THEN resumeFeed(feed) ELSE feed
  BY DEF Show
<1>3. /\ r \in PageRecs
      /\ r.made = page.made + 1 /\ r.returning = page.made + 1 /\ r.kind = "away" /\ r.reach = "first"
      /\ r.phase = page.phase /\ r.attempt = page.attempt /\ r.connected = page.connected /\ r.going = page.going
      /\ r.holding = page.holding /\ r.stray = page.stray
  BY <1>1, ReachesIs
<1>4. reconnectAway(page) = [r EXCEPT !.away = "reconnecting"]
  BY DEF reconnectAway
<1>5. /\ feed' \in Feeds /\ feed'.open = feed.open /\ feed'.held = feed.held
  <2>1. link.channel \in Nat
    BY <1>1 DEF LinkHeld, LinkRecs
  <2>2. [feed EXCEPT !.resuming = link.channel, !.cancelled = FALSE] \in Feeds
    BY <1>1, <2>1 DEF Feeds
  <2>3. /\ [feed EXCEPT !.resuming = link.channel, !.cancelled = FALSE].open = feed.open
        /\ [feed EXCEPT !.resuming = link.channel, !.cancelled = FALSE].held = feed.held
    BY <1>1 DEF Feeds
  <2>4. QED
    BY <1>1, <1>2, <2>2, <2>3 DEF resumeFeed
<1> HIDE DEF r
<1>6. CASE page.away = "hidden"
  <2> DEFINE b == [r EXCEPT !.away = "reconnecting"]
  <2>1. p = [b EXCEPT !.fresh = TRUE]
    BY <1>2, <1>4, <1>6
  <2>2. /\ b \in PageRecs /\ b.away = "reconnecting" /\ b.made = r.made /\ b.returning = r.returning /\ b.kind = r.kind
        /\ b.reach = r.reach /\ b.phase = r.phase /\ b.attempt = r.attempt /\ b.connected = r.connected
        /\ b.going = r.going /\ b.holding = r.holding /\ b.stray = r.stray
    BY <1>3 DEF PageRecs
  <2> HIDE DEF b, a, p
  <2>3. /\ p \in PageRecs /\ p.away = b.away /\ p.made = b.made /\ p.returning = b.returning /\ p.kind = b.kind
        /\ p.reach = b.reach /\ p.phase = b.phase /\ p.attempt = b.attempt /\ p.connected = b.connected
        /\ p.going = b.going /\ p.holding = b.holding /\ p.stray = b.stray
    BY <2>1, <2>2 DEF PageRecs
  <2>4. /\ page.made \in Nat /\ page.attempt \in Nat /\ page.attempt <= page.made
        /\ \A m \in OpenIds : owner[m].id \in Nat /\ owner[m].id <= page.made
    BY <1>1 DEF PageRecs, Owners, Attempts
  <2>5. /\ p.made = page.made + 1 /\ p.returning = page.made + 1 /\ p.kind = "away" /\ p.reach = "first"
        /\ p.phase = page.phase /\ p.attempt = page.attempt /\ p.connected = page.connected /\ p.going = page.going
        /\ p.holding = page.holding /\ p.stray = page.stray /\ p.away = "reconnecting"
    BY <1>3, <2>2, <2>3
  <2>6. /\ p.attempt <= p.made /\ p.returning <= p.made /\ p.attempt # p.returning /\ p.returning # 0
        /\ \A m \in OpenIds : owner[m].id <= p.made /\ owner[m].id # p.returning
    BY <2>4, <2>5
  <2>7. Attempts(link, p, owner)
    BY <1>1, <2>5, <2>6 DEF Attempts
  <2>8. Kept(link, p, owner, FALSE, {})
    <3>1. SUFFICES ASSUME ~page.stray PROVE Kept(link, p, owner, FALSE, {})
      BY <2>5 DEF Kept
    <3>2. Shook(link) /\ HasDevice(link, page) /\ Choosing(page) /\ Loops(page, hidden) /\ Owned(link, page, owner)
      BY <1>1, <3>1 DEF Kept
    <3>3. page.phase = "none" /\ page.going = "none" /\ ~page.connected /\ ~page.holding
      BY <1>6, <3>2 DEF HasDevice, Choosing, Loops
    <3>4. HasDevice(link, p) /\ Choosing(p) /\ Loops(p, FALSE) /\ Waits(link, p, owner, {})
      BY <2>5, <3>3 DEF HasDevice, Choosing, Loops, Waits
    <3>5. Owned(link, p, owner)
      BY <2>5, <2>6, <3>2, <3>3 DEF Owned
    <3>6. QED
      BY <3>2, <3>4, <3>5 DEF Kept
  <2>9. Fed(p, feed', FALSE)
    BY <1>1, <1>5, <2>5 DEF Fed
  <2>10. QED
    BY <1>1, <1>2, <1>5, <2>3, <2>2, <2>7, <2>8, <2>9 DEF PageHeld, p
<1>7. CASE page.away # "hidden"
  <2>1. p = [page EXCEPT !.fresh = TRUE]
    BY <1>2, <1>7
  <2> HIDE DEF p
  <2>2. /\ p \in PageRecs /\ p.away = page.away /\ p.made = page.made /\ p.returning = page.returning /\ p.kind = page.kind
        /\ p.reach = page.reach /\ p.phase = page.phase /\ p.attempt = page.attempt /\ p.connected = page.connected
        /\ p.going = page.going /\ p.holding = page.holding /\ p.stray = page.stray
    BY <1>1, <2>1 DEF PageRecs
  <2>3. Attempts(link, p, owner)
    BY <1>1, <2>2 DEF Attempts
  <2>4. Kept(link, p, owner, FALSE, {})
    BY <1>1, <1>7, <2>2 DEF Kept, HasDevice, Choosing, Loops, Waits, Owned
  <2>5. Fed(p, feed', FALSE)
    BY <1>1, <1>5, <2>2 DEF Fed
  <2>6. QED
    BY <1>1, <1>2, <1>5, <2>2, <2>3, <2>4, <2>5 DEF PageHeld, p
<1>8. QED
  BY <1>6, <1>7

\* The moments after the page is shown, over (App.jsx).
LEMMA GraceEndsKeeps ==
    ASSUME PageHeld, GraceEnds
    PROVE  PageHeld'
<1>1. /\ LinkHeld(link) /\ page \in PageRecs /\ owner \in Owners /\ feed \in Feeds /\ hidden \in BOOLEAN
      /\ Attempts(link, page, owner) /\ Kept(link, page, owner, hidden, {}) /\ Fed(page, feed, hidden)
  BY DEF PageHeld
<1> DEFINE p == page'
<1>2. p = [page EXCEPT !.fresh = FALSE] /\ link' = link /\ owner' = owner /\ feed' = feed /\ hidden' = hidden
  BY DEF GraceEnds
<1>3. /\ p \in PageRecs /\ p.away = page.away /\ p.made = page.made /\ p.returning = page.returning /\ p.kind = page.kind
      /\ p.reach = page.reach /\ p.phase = page.phase /\ p.attempt = page.attempt /\ p.connected = page.connected
      /\ p.going = page.going /\ p.holding = page.holding /\ p.stray = page.stray
  BY <1>1, <1>2 DEF PageRecs
<1> HIDE DEF p
<1>4. Attempts(link, p, owner) /\ Fed(p, feed, hidden)
  BY <1>1, <1>3 DEF Attempts, Fed
<1>5. Kept(link, p, owner, hidden, {})
  BY <1>1, <1>3 DEF Kept, HasDevice, Choosing, Loops, Waits, Owned
<1>6. QED
  BY <1>1, <1>2, <1>3, <1>4, <1>5 DEF PageHeld, p

\* What the device answers of the feed (client.js).
LEMMA FeedKeeps ==
    ASSUME PageHeld, Resumed \/ PushArrives
    PROVE  PageHeld'
<1>1. /\ LinkHeld(link) /\ page \in PageRecs /\ owner \in Owners /\ feed \in Feeds /\ hidden \in BOOLEAN
      /\ Attempts(link, page, owner) /\ Kept(link, page, owner, hidden, {}) /\ Fed(page, feed, hidden)
  BY DEF PageHeld
<1>2. link' = link /\ page' = page /\ owner' = owner /\ hidden' = hidden
  BY DEF Resumed, PushArrives
<1> DEFINE f == feed'
<1>3. CASE Resumed /\ feed.cancelled
  <2>1. f = [feed EXCEPT !.resuming = 0]
    BY <1>3 DEF Resumed
  <2>2. f \in Feeds /\ f.resuming = 0 /\ f.held = feed.held /\ f.open = feed.open
    BY <1>1, <2>1 DEF Feeds
  <2> HIDE DEF f
  <2>3. Fed(page, f, hidden)
    BY <1>1, <2>2 DEF Fed
  <2>4. QED
    BY <1>1, <1>2, <2>2, <2>3 DEF PageHeld, f
<1>4. CASE Resumed /\ ~feed.cancelled
  <2>1. f = [feed EXCEPT !.resuming = 0, !.held = "resumed", !.open = @ \cup {"resumed"}] /\ feed.resuming # 0
    BY <1>4 DEF Resumed
  <2>2. f \in Feeds /\ f.resuming = 0 /\ f.held = "resumed"
    BY <1>1, <2>1 DEF Feeds
  <2> HIDE DEF f
  <2>3. Fed(page, f, hidden)
    BY <1>1, <1>4, <2>1, <2>2 DEF Fed
  <2>4. QED
    BY <1>1, <1>2, <2>2, <2>3 DEF PageHeld, f
<1>5. CASE PushArrives
  <2>1. f = [feed EXCEPT !.coming = FALSE, !.open = @ \cup {"pushed"}]
    BY <1>5 DEF PushArrives
  <2>2. /\ f \in Feeds /\ f.resuming = feed.resuming /\ f.held = feed.held /\ f.open = feed.open \cup {"pushed"}
        /\ f.cancelled = feed.cancelled
    BY <1>1, <2>1 DEF Feeds
  <2> HIDE DEF f
  <2>3. Fed(page, f, hidden)
    BY <1>1, <2>2 DEF Fed
  <2>4. QED
    BY <1>1, <1>2, <2>2, <2>3 DEF PageHeld, f
<1>6. QED
  BY <1>3, <1>4, <1>5

\* Every step of the page.
LEMMA PageStep ==
    ASSUME PageHeld, [PageNext]_pageVars
    PROVE  PageHeld'
<1>1. CASE PageNext /\ Failing(link) # {}
  <2>1. PICK n \in Failing(link) : OpenSteps(n)
    BY <1>1 DEF PageNext
  <2>2. n \in OpenIds
    BY <2>1 DEF Failing
  <2>3. QED
    BY <2>1, <2>2, OpenStepsKeeps
<1>2. CASE PageNext /\ Failing(link) = {}
  <2>1. PageActs
    BY <1>2 DEF PageNext
  <2>2. CASE \E n \in OpenIds : OpenSteps(n)
    BY <2>2, OpenStepsKeeps
  <2>3. CASE \E what \in {"device", "none"} : Picks(what)
    BY <2>3, PicksKeeps
  <2>4. CASE \E g \in link.stops : DropEnds(g)
    BY <2>4, DropEndsKeeps
  <2>5. CASE \E gone \in BOOLEAN : Lost(gone)
    BY <2>5, LostKeeps
  <2>6. CASE \E deed \in {"restart", "power-off"} : startGoing(deed)
    BY <2>6, GoingKeeps
  <2>7. CASE Tries
    BY <1>2, <2>7, TriesKeeps
  <2>8. CASE Connect \/ cancelConnect \/ disconnect \/ GivesUp \/ HoldEnds
    BY <2>8, ConnectKeeps, CancelKeeps, DisconnectKeeps, GivesUpKeeps, HoldEndsKeeps
  <2>9. CASE Hide \/ Show \/ GraceEnds \/ Resumed \/ PushArrives
    BY <2>9, HideKeeps, ShowKeeps, GraceEndsKeeps, FeedKeeps
  <2>10. QED
    BY <2>1, <2>2, <2>3, <2>4, <2>5, <2>6, <2>7, <2>8, <2>9 DEF PageActs
<1>3. CASE UNCHANGED pageVars
  BY <1>3 DEF pageVars, PageHeld
<1>4. QED
  BY <1>1, <1>2, <1>3

\* The page as it is opened.
LEMMA PageStart == PageInit => PageHeld
<1>1. SUFFICES ASSUME PageInit PROVE PageHeld
  OBVIOUS
<1>2. link \in LinkRecs /\ link.generation = 0 /\ link.attached = 0 /\ link.session = FALSE /\ link.notifying = FALSE
      /\ link.stops = {} /\ \A n \in OpenIds : link.opens[n] = "none"
  BY <1>1 DEF PageInit, createLink, LinkRecs, Awaits
<1>3. LinkHeld(link) /\ Shook(link)
  BY <1>2, Ids DEF LinkHeld, Listens, AsksLast, Stopping, Sessions, Shook
<1>4. page \in PageRecs /\ feed \in Feeds /\ hidden = FALSE
  BY <1>1 DEF PageInit, PageRecs, Feeds, NoFeed
<1>5. /\ page.connected = FALSE /\ page.phase = "none" /\ page.reach = "none" /\ page.going = "none" /\ page.away = "none"
      /\ page.attempt = 0 /\ page.returning = 0 /\ page.made = 0 /\ page.holding = FALSE
  BY <1>1 DEF PageInit
<1>6. owner \in Owners /\ \A n \in OpenIds : owner[n].id = 0
  BY <1>1 DEF PageInit, Owners, Nobody
<1>7. Attempts(link, page, owner)
  BY <1>2, <1>5, <1>6 DEF Attempts
<1>8. Kept(link, page, owner, hidden, {}) /\ Fed(page, feed, hidden)
  BY <1>2, <1>3, <1>5 DEF Kept, HasDevice, Choosing, Loops, Waits, Owned, Fed
<1>9. QED
  BY <1>3, <1>4, <1>6, <1>7, <1>8 DEF PageHeld

\* What is kept gives what the page says.
LEMMA HeldIsSaid == PageHeld => LinkIsAsSaid
<1>1. SUFFICES ASSUME PageHeld PROVE LinkIsAsSaid
  OBVIOUS
<1>2. /\ LinkHeld(link) /\ page \in PageRecs /\ owner \in Owners
      /\ Kept(link, page, owner, hidden, {}) /\ Fed(page, feed, hidden)
  BY <1>1 DEF PageHeld
<1>3. LetGoIsLetGo
  BY <1>2 DEF LetGoIsLetGo, LinkHeld, Sessions
<1>4. SUFFICES ASSUME ~page.stray PROVE ConnectedIsHeard /\ ReachingGoesOn /\ FeedIsLetGo
  BY <1>3 DEF LinkIsAsSaid
<1>5. HasDevice(link, page) /\ Loops(page, hidden) /\ Waits(link, page, owner, {})
  BY <1>2, <1>4 DEF Kept
<1>6. ConnectedIsHeard
  BY <1>2, <1>5 DEF ConnectedIsHeard, HasDevice, LinkHeld, Listens
<1>7. ReachingGoesOn
  <2>1. SUFFICES ASSUME (page.going = "restart" /\ ~page.connected) \/ page.away = "reconnecting", page.reach = "open"
                 PROVE  \E n \in OpenIds : /\ owner[n].id = page.returning /\ owner[n].kind = page.kind
                                           /\ link.opens[n] # "none" /\ ~Hung(link, n)
    BY <1>2, <1>5, PageIs DEF ReachingGoesOn, Loops
  <2>2. page.away # "hidden"
    BY <1>5, <2>1 DEF Loops
  <2>3. QED
    BY <1>5, <2>1, <2>2 DEF Waits, Hung
<1>8. FeedIsLetGo
  BY <1>2, <1>4 DEF FeedIsLetGo, Fed
<1>9. QED
  BY <1>6, <1>7, <1>8

\* What a page says it holds, it holds, and what it let go of it holds no
\* more (App.jsx, reachAgain; link.js, generation and detach): whatever
\* order the page's own acts, its opens and the browser's events come in,
\* and however many of each.
THEOREM HoldsAsSaid == PageSpec => []LinkIsAsSaid
<1>1. PageInit => PageHeld
  BY PageStart
<1>2. PageHeld /\ [PageNext]_pageVars => PageHeld'
  BY PageStep
<1>3. PageHeld => LinkIsAsSaid
  BY HeldIsSaid
<1>4. QED
  BY <1>1, <1>2, <1>3, PTL DEF PageSpec
-----------------------------------------------------------------------------
\* The front panel.
ButtonType ==
    /\ debounce \in [held : BOOLEAN, disagreeing : 0..(Stable - 1)]
    /\ reads \in [held : 0..Stable, released : 0..Stable, letGo : BOOLEAN, made : Nat]

KeepType ==
    /\ window \in {"silent", "open", "connected"} /\ expired \in BOOLEAN
    /\ act \in {"none", "advertise", "withdraw"}
    /\ registered \in BOOLEAN /\ retry \in {"none", "waiting", "due"}
    /\ events \in Seq({"connect", "disconnect"})

AirType == air \in [on : BOOLEAN, seen : BOOLEAN]
RunType == run \in [state : RunStates \cup {"idle"}, provisioned : BOOLEAN, seen : BOOLEAN]
ClientsType == clients \in [open : Nat, opened : Nat]
LedType == led \in [shown : [run : RunStates \cup {"idle"}, provisioned : BOOLEAN, onAir : BOOLEAN],
                    half : {1, 2}, lit : SUBSET {"red", "green"}]

PanelType == ButtonType /\ KeepType /\ AirType /\ RunType /\ ClientsType /\ LedType

\* The air is kept on only in an open window, or until the withdrawal in
\* hand is done.
AirInv ==
    /\ act = "advertise" => window = "open"
    /\ (registered \/ retry # "none") => window = "open" \/ act = "withdraw"

\* The count of reads that disagree is of reads in a row, and a button
\* settled as let go was let go.
PressInv ==
    /\ debounce.held => debounce.disagreeing <= reads.released
    /\ ~debounce.held => debounce.disagreeing <= reads.held /\ reads.letGo

PanelInv == PanelType /\ AirInv /\ PressInv /\ LedFollows

\* The front panel starts within its invariant (button.rs; led.rs).
LEMMA PanelInitInv == PanelInit => PanelInv
<1> SUFFICES ASSUME PanelInit PROVE PanelInv
  OBVIOUS
<1>1. Stable \in Nat \ {0}
  BY PanelAssumption
<1>2. ButtonType /\ KeepType
  <2>1. 0 \in 0..(Stable - 1) /\ 0 \in 0..Stable
    BY <1>1
  <2>2. ButtonType
    BY <2>1 DEF PanelInit, ButtonType
  <2>3. events \in Seq({"connect", "disconnect"})
    BY DEF PanelInit
  <2> QED
    BY <2>2, <2>3, Zenon DEF PanelInit, KeepType
<1>3. AirType /\ RunType /\ ClientsType /\ LedType
  BY DEF PanelInit, AirType, RunType, ClientsType, LedType
<1>4. AirInv /\ PressInv /\ LedFollows
  BY DEF PanelInit, AirInv, PressInv, LedFollows, Shown
<1> QED
  BY <1>2, <1>3, <1>4 DEF PanelInv, PanelType

\* A read of the line, and the press it may make (button.rs, settle).
LEMMA ReadsKeep ==
    ASSUME PanelInv, NEW pressed \in BOOLEAN, ReadsLine(pressed)
    PROVE  PanelInv' /\ (debounce'.held /\ ~debounce.held => reads'.held = Stable /\ reads.letGo)
<1>1. ButtonType /\ KeepType /\ AirInv /\ PressInv /\ LedFollows /\ Stable \in Nat \ {0}
  BY PanelAssumption DEF PanelInv, PanelType
<1>2. \A n \in 0..Stable : Counted(n) \in 1..Stable /\ (Counted(n) = n + 1 \/ Counted(n) = Stable)
  BY <1>1 DEF Counted
<1>3. debounce' \in [held : BOOLEAN, disagreeing : 0..(Stable - 1)]
  BY <1>1 DEF ButtonType, ReadsLine, Settles
<1>4. reads' \in [held : 0..Stable, released : 0..Stable, letGo : BOOLEAN, made : Nat]
  <2>1. /\ (IF pressed THEN Counted(reads.held) ELSE 0) \in 0..Stable
        /\ (IF pressed THEN 0 ELSE Counted(reads.released)) \in 0..Stable
        /\ reads.made + 1 \in Nat
    BY <1>1, <1>2 DEF ButtonType
  <2>2. reads.letGo \in BOOLEAN
    BY <1>1 DEF ButtonType
  <2> QED
    BY <2>1, <2>2 DEF ReadsLine
<1>5. debounce'.held /\ ~debounce.held => reads'.held = Stable /\ reads.letGo
  BY <1>1 DEF ButtonType, PressInv, ReadsLine, Settles, Counted
<1>6. PressInv'
  BY <1>1 DEF ButtonType, PressInv, ReadsLine, Settles, Counted
<1>7. KeepType' /\ AirInv'
  BY <1>1 DEF KeepType, AirInv, ReadsLine, Handles, Handled
<1>8. LedFollows' /\ AirType' /\ RunType' /\ ClientsType' /\ LedType'
  BY DEF PanelInv, PanelType, AirType, RunType, ClientsType, LedType, LedFollows, ReadsLine, Shown
<1> QED
  BY <1>3, <1>4, <1>5, <1>6, <1>7, <1>8 DEF PanelInv, PanelType, ButtonType

\* What the keeping loop does with what it hears and with the time, and
\* about the air (daemon.rs, keep).
LEMMA KeepKeeps ==
    ASSUME PanelInv,
           Hears \/ TimePasses \/ TimesOut \/ RetriesNow \/ TakesOff \/ PutsOn \/ Withdraws
    PROVE  PanelInv' /\ UNCHANGED debounce
<1>1. KeepType /\ AirType /\ AirInv /\ LedFollows
  BY DEF PanelInv, PanelType
<1>2. UNCHANGED <<debounce, reads, clients, led, run>>
  BY DEF Hears, TimePasses, TimesOut, RetriesNow, TakesOff, PutsOn, Withdraws
<1>3. ButtonType' /\ PressInv' /\ RunType' /\ ClientsType' /\ LedType'
  BY <1>2 DEF PanelInv, PanelType, ButtonType, PressInv, RunType, ClientsType, LedType
<1>4. KeepType' /\ AirInv'
  <2>1. CASE Hears
    <3>1. Head(events) \in {"connect", "disconnect"} /\ events' \in Seq({"connect", "disconnect"})
      BY <2>1, <1>1 DEF KeepType, Hears
    <3> QED
      BY <2>1, <3>1, <1>1 DEF KeepType, AirInv, Hears, Handles, Handled
  <2>2. CASE TimePasses
    BY <2>2, <1>1 DEF KeepType, AirInv, TimePasses
  <2>3. CASE TimesOut
    BY <2>3, <1>1 DEF KeepType, AirInv, TimesOut, Handles, Handled
  <2>4. CASE RetriesNow
    BY <2>4, <1>1 DEF KeepType, AirInv, RetriesNow
  <2>5. CASE TakesOff \/ PutsOn \/ Withdraws
    BY <2>5, <1>1 DEF KeepType, AirInv, TakesOff, PutsOn, Withdraws
  <2> QED
    BY <2>1, <2>2, <2>3, <2>4, <2>5
<1>5. air' = air \/ (\E on \in BOOLEAN : Tells(on))
  BY DEF Hears, TimePasses, TimesOut, RetriesNow, TakesOff, PutsOn, Withdraws
<1>6. AirType' /\ LedFollows'
  BY <1>1, <1>2, <1>5 DEF AirType, LedFollows, Shown, Tells
<1> QED
  BY <1>2, <1>3, <1>4, <1>6 DEF PanelInv, PanelType

\* The clients, the LED and the run go their own ways.
LEMMA OthersKeep ==
    ASSUME PanelInv, SessionOpens \/ SessionCloses \/ Blinks \/ LedSees \/ RunMoves
    PROVE  PanelInv' /\ UNCHANGED debounce
<1>1. UNCHANGED <<debounce, reads, window, expired, act, registered, retry>>
  BY DEF SessionOpens, SessionCloses, Blinks, LedSees, RunMoves
<1>2. ButtonType' /\ PressInv' /\ AirInv'
  BY <1>1 DEF PanelInv, PanelType, ButtonType, PressInv, AirInv
<1>3. KeepType'
  <2>1. events' \in Seq({"connect", "disconnect"})
    BY DEF PanelInv, PanelType, KeepType, SessionOpens, SessionCloses, Blinks, LedSees, RunMoves
  <2> QED
    BY <1>1, <2>1 DEF PanelInv, PanelType, KeepType
<1>4. AirType' /\ RunType' /\ ClientsType'
  <2>1. CASE SessionOpens \/ SessionCloses
    BY <2>1 DEF PanelInv, PanelType, AirType, RunType, ClientsType, SessionOpens, SessionCloses
  <2>2. CASE Blinks \/ LedSees
    BY <2>2 DEF PanelInv, PanelType, AirType, RunType, ClientsType, Blinks, LedSees
  <2>3. CASE RunMoves
    <3>1. PICK s \in RunStates, p \in BOOLEAN : run' = [state |-> s, provisioned |-> run.provisioned \/ p, seen |-> FALSE]
      BY <2>3 DEF RunMoves
    <3>2. (run.provisioned \/ p) \in BOOLEAN
      OBVIOUS
    <3>3. RunType'
      BY <3>1, <3>2 DEF RunType
    <3> QED
      BY <2>3, <3>3 DEF PanelInv, PanelType, AirType, ClientsType, RunMoves
  <2> QED
    BY <2>1, <2>2, <2>3
<1>5. LedType'
  <2>1. Pattern(led.shown)[led.half] \in SUBSET {"red", "green"}
    BY DEF PanelInv, PanelType, LedType, Pattern, Red, Green, Amber
  <2>2. Shown(run, air) \in [run : RunStates \cup {"idle"}, provisioned : BOOLEAN, onAir : BOOLEAN]
    BY DEF PanelInv, PanelType, AirType, RunType, Shown
  <2>3. CASE Blinks
    <3>1. 3 - led.half \in {1, 2}
      BY DEF PanelInv, PanelType, LedType
    <3> QED
      BY <2>1, <2>3, <3>1 DEF PanelInv, PanelType, LedType, Blinks
  <2>4. CASE LedSees
    BY <2>2, <2>4 DEF PanelInv, PanelType, LedType, LedSees, NextShown
  <2>5. CASE SessionOpens \/ SessionCloses \/ RunMoves
    BY <2>5 DEF PanelInv, PanelType, LedType, SessionOpens, SessionCloses, RunMoves
  <2> QED
    BY <2>3, <2>4, <2>5
<1>6. LedFollows'
  <2>1. CASE Blinks
    BY <2>1 DEF PanelInv, PanelType, LedType, LedFollows, Blinks
  <2>2. CASE LedSees
    <3>1. led'.shown = Shown(run, air)
      BY <2>2 DEF PanelInv, PanelType, LedType, LedSees, NextShown
    <3>2. Shown(run', air') = Shown(run, air)
      BY <2>2 DEF PanelInv, PanelType, AirType, RunType, LedSees, Shown
    <3> QED
      BY <3>1, <3>2 DEF LedFollows
  <2>3. CASE SessionOpens \/ SessionCloses \/ RunMoves
    BY <2>3 DEF PanelInv, LedFollows, SessionOpens, SessionCloses, RunMoves
  <2> QED
    BY <2>1, <2>2, <2>3
<1> QED
  BY <1>1, <1>2, <1>3, <1>4, <1>5, <1>6 DEF PanelInv, PanelType

\* Every step of the panel keeps its invariant.
LEMMA PanelNextInv ==
    ASSUME PanelInv, [PanelNext]_panelVars
    PROVE  PanelInv' /\ (debounce'.held /\ ~debounce.held => reads'.held = Stable /\ reads.letGo)
<1>1. CASE \E pressed \in BOOLEAN : ReadsLine(pressed)
  BY <1>1, ReadsKeep
<1>2. CASE UNCHANGED panelVars
  BY <1>2 DEF panelVars, PanelInv, PanelType, ButtonType, KeepType, AirType, RunType, ClientsType, LedType,
              AirInv, PressInv, LedFollows, Shown
<1> QED
  BY <1>1, <1>2, KeepKeeps, OthersKeep DEF PanelNext

\* The device is on the air, or is to be again, only in the window a press
\* opened, and its LED is never left showing what is no longer so
\* (window.rs, keep; led.rs).
THEOREM PanelHonest == PanelSpec => []PanelIsHonest
<1>1. PanelInv => PanelIsHonest
  BY DEF PanelInv, AirInv, PanelIsHonest, OnAirByInvitation
<1> QED
  BY <1>1, PanelInitInv, PanelNextInv, PTL DEF PanelSpec

\* A press is a button held long enough, that had been let go as surely
\* since the press before (button.rs, settle).
THEOREM PressHeld == PanelSpec => PressIsHeld
BY PanelInitInv, PanelNextInv, PTL DEF PanelSpec, PressIsHeld
-----------------------------------------------------------------------------
\* The console.
States == [run : {"idle", "running", "waiting", "failed", "finished"},
           prompt : Prompts \cup {NoPrompt}, done : [RunSteps -> BOOLEAN]]
Questions == Prompts \cup {"none", "choose", "waiting", "failed", "finished", NoPrompt}
ConMessages == [is : {"state"}, snap : States, version : Nat] \cup [is : {"accepted", "cannot"}]

DevType ==
    /\ dev \in States /\ version \in Nat /\ actedAt \in Nat /\ actedAt <= version
    /\ unsent \in BOOLEAN
    /\ toDev \in Seq(Acts)
ToConType == toCon \in Seq(ConMessages)
ConType ==
    con \in [snap : States \cup {NoSnap}, heard : Nat, asking : Questions, sentAt : States \cup {NoSnap},
             accepted : BOOLEAN, answered : SUBSET (Prompts \cup {NoPrompt}),
             skipped : SUBSET (Prompts \cup {NoPrompt}),
             ticks : [RunSteps -> {"none", "on", "off"}], left : BOOLEAN]

IsState(i) == toCon[i].is = "state"
OnItsWay == 1..Len(toCon)

\* What the device said comes in the order it said it.
InOrder ==
    /\ con.heard <= version
    /\ \A i \in OnItsWay : IsState(i) => con.heard <= toCon[i].version /\ toCon[i].version <= version
    /\ \A i, j \in OnItsWay : IsState(i) /\ IsState(j) /\ i < j => toCon[i].version <= toCon[j].version

\* Asking, the console has heard some state and waits for nothing.
Asking == con.asking # "none" => con.sentAt = NoSnap /\ con.snap # NoSnap

\* Where the console's act is: not sent, on its way, answered and the
\* answer on its way, or heard to be accepted. At most one is out.
NoneOut ==
    /\ con.sentAt = NoSnap /\ ~con.accepted /\ toDev = << >>
    /\ \A i \in OnItsWay : IsState(i)
    /\ con.heard >= actedAt
OnTheWay ==
    /\ con.sentAt # NoSnap /\ ~con.accepted /\ Len(toDev) = 1
    /\ \A i \in OnItsWay : IsState(i)
    /\ con.heard >= actedAt
Answered ==
    /\ con.sentAt # NoSnap /\ ~con.accepted /\ toDev = << >>
    /\ \E k \in OnItsWay :
         /\ ~IsState(k) /\ \A i \in OnItsWay : i # k => IsState(i)
         /\ toCon[k].is = "cannot" => con.heard >= actedAt
         /\ toCon[k].is = "accepted" => \A i \in OnItsWay : i > k => toCon[i].version >= actedAt
Accepted ==
    /\ con.sentAt # NoSnap /\ con.accepted /\ toDev = << >>
    /\ \A i \in OnItsWay : IsState(i) /\ toCon[i].version >= actedAt

ConInv == DevType /\ ToConType /\ ConType /\ InOrder /\ Asking /\ (NoneOut \/ OnTheWay \/ Answered \/ Accepted)

\* The console starts within its invariant (console.rs).
LEMMA ConInitInv == ConInit => ConInv
<1> SUFFICES ASSUME ConInit PROVE ConInv
  OBVIOUS
<1>1. dev \in States
  BY DEF ConInit, States
<1>2. DevType
  BY <1>1 DEF ConInit, DevType
<1>3. con.ticks \in [RunSteps -> {"none", "on", "off"}]
  BY DEF ConInit, Unticked
<1>4. ConType
  BY DEF ConInit, ConType, Questions, Unticked
<1>5. toCon = << >> /\ ToConType
  BY DEF ConInit, ToConType
<1>6. InOrder /\ Asking /\ NoneOut
  BY <1>5 DEF ConInit, InOrder, Asking, NoneOut, OnItsWay, IsState
<1> QED
  BY <1>2, <1>4, <1>5, <1>6 DEF ConInv

\* An act leaves the run in one of its states.
LEMMA ActedType ==
    ASSUME dev \in States, NEW a \in Acts
    PROVE  Acted(a) \in States
<1>1. a.act \in {"start", "answer", "retry", "stop", "acknowledge"}
  BY DEF Acts
<1> QED
  BY <1>1 DEF Acted, States, NoPrompt

\* What the run does of itself, and by another front end.
LEMMA RunKeeps ==
    ASSUME ConInv, RunGoesOn \/ OtherActs
    PROVE  ConInv'
<1>1. dev' \in States /\ version' = version + 1 /\ unsent' = TRUE
  <2>1. CASE RunGoesOn
    <3>1. dev \in States
      BY DEF ConInv, DevType
    <3>2. PICK d \in States : Changes(d)
      <4>1. \A p \in Prompts : [dev EXCEPT !.run = "waiting", !.prompt = p] \in States
        BY <3>1 DEF States
      <4>2. [dev EXCEPT !.run = "failed"] \in States
        BY <3>1 DEF States
      <4>3. [dev EXCEPT !.run = "finished", !.done = [x \in RunSteps |-> TRUE]] \in States
        BY <3>1 DEF States
      <4>4. \A x \in RunSteps : [dev EXCEPT !.done[x] = ~@] \in States
        <5> SUFFICES ASSUME NEW x \in RunSteps PROVE [dev EXCEPT !.done[x] = ~@] \in States
          OBVIOUS
        <5>1. [dev.done EXCEPT ![x] = ~@] \in [RunSteps -> BOOLEAN]
          BY <3>1 DEF States
        <5> QED
          BY <3>1, <5>1 DEF States
      <4> QED
        BY <2>1, <4>1, <4>2, <4>3, <4>4 DEF RunGoesOn
    <3> QED
      BY <3>2, Zenon DEF Changes
  <2>2. CASE OtherActs
    BY <2>2, ActedType DEF ConInv, DevType, OtherActs, Changes
  <2> QED
    BY <2>1, <2>2
<1>2. UNCHANGED <<toDev, toCon, con, actedAt>>
  BY DEF RunGoesOn, OtherActs
<1>3. DevType'
  BY <1>1, <1>2 DEF ConInv, DevType
<1>4. InOrder'
  <2>1. \A i \in OnItsWay : IsState(i) => toCon[i].version \in Nat
    BY DEF ConInv, ToConType, ConMessages, OnItsWay, IsState
  <2> QED
    BY <1>1, <1>2, <2>1 DEF ConInv, DevType, ConType, InOrder, OnItsWay, IsState
<1> QED
  BY <1>2, <1>3, <1>4 DEF ConInv, ToConType, ConType, Asking, NoneOut, OnTheWay, Answered, Accepted, OnItsWay, IsState

\* The stream sends what changed.
LEMMA SendsKeep ==
    ASSUME ConInv, StreamSends
    PROVE  ConInv'
<1> DEFINE m == [is |-> "state", snap |-> dev, version |-> version]
<1>1. m \in ConMessages /\ toCon' = Append(toCon, m)
  BY DEF ConInv, DevType, ConMessages, StreamSends
<1>2. toCon \in Seq(ConMessages)
  BY DEF ConInv, ToConType
<1>3. /\ ToConType' /\ Len(toCon') = Len(toCon) + 1 /\ Len(toCon) \in Nat
      /\ toCon'[Len(toCon) + 1] = m
      /\ \A i \in OnItsWay : toCon'[i] = toCon[i]
  BY <1>1, <1>2 DEF ToConType, OnItsWay
<1>4. UNCHANGED <<dev, version, toDev, con, actedAt>> /\ unsent' \in BOOLEAN
  BY DEF StreamSends
<1>5. \A i \in OnItsWay' : i \in OnItsWay \/ i = Len(toCon) + 1
  BY <1>3 DEF OnItsWay
<1>6. \A i \in OnItsWay : IsState(i) => toCon[i].version \in Nat
  BY DEF ConInv, ToConType, ConMessages, OnItsWay, IsState
<1>7. con.heard \in Nat /\ con.heard <= version /\ version >= actedAt /\ version \in Nat /\ actedAt \in Nat
  BY DEF ConInv, DevType, ConType, InOrder
<1>8. DevType' /\ ConType' /\ Asking'
  BY <1>4 DEF ConInv, DevType, ConType, Asking
<1>9. InOrder'
  <2>1. \A i \in OnItsWay' : \/ i \in OnItsWay /\ toCon'[i] = toCon[i]
                             \/ i = Len(toCon) + 1 /\ toCon'[i].version = version
    <3>1. m.version = version
      OBVIOUS
    <3> HIDE DEF m
    <3> QED
      BY <1>3, <1>5, <3>1
  <2>2. \A i, j \in OnItsWay' : i < j => i \in OnItsWay
    BY <1>3, <1>5 DEF OnItsWay
  <2>3. InOrder
    BY DEF ConInv
  <2> QED
    BY <1>3, <1>4, <1>6, <1>7, <2>1, <2>2, <2>3 DEF InOrder, IsState
<1>11. NoneOut => NoneOut'
  BY <1>3, <1>4, <1>5 DEF NoneOut, OnItsWay, IsState
<1>12. OnTheWay => OnTheWay'
  BY <1>3, <1>4, <1>5 DEF OnTheWay, OnItsWay, IsState
<1>13. Answered => Answered'
  BY <1>3, <1>4, <1>5, <1>7 DEF Answered, OnItsWay, IsState
<1>14. Accepted => Accepted'
  BY <1>3, <1>4, <1>5, <1>7 DEF Accepted, OnItsWay, IsState
<1> QED
  BY <1>3, <1>8, <1>9, <1>11, <1>12, <1>13, <1>14 DEF ConInv

\* The stream takes the console's act, and answers it before it sends what
\* the act made.
LEMMA ActsKeep ==
    ASSUME ConInv, StreamActs
    PROVE  ConInv'
<1>1. toDev \in Seq(Acts) /\ toDev # << >> /\ OnTheWay
  BY DEF ConInv, DevType, StreamActs, NoneOut, Answered, Accepted
<1>2. Head(toDev) \in Acts /\ toDev' = << >> /\ toDev' \in Seq(Acts)
  BY <1>1 DEF StreamActs, OnTheWay
<1>3. PICK m \in ConMessages : toCon' = Append(toCon, m) /\ m.is \in {"accepted", "cannot"}
  BY DEF StreamActs, ConMessages
<1>4. toCon \in Seq(ConMessages)
  BY DEF ConInv, ToConType
<1>5. /\ ToConType' /\ Len(toCon') = Len(toCon) + 1 /\ Len(toCon) \in Nat
      /\ toCon'[Len(toCon) + 1] = m
      /\ \A i \in OnItsWay : toCon'[i] = toCon[i]
  BY <1>3, <1>4 DEF ToConType, OnItsWay
<1>6. \A i \in OnItsWay' : i \in OnItsWay \/ i = Len(toCon) + 1
  BY <1>5 DEF OnItsWay
<1>7. UNCHANGED con
  BY DEF StreamActs
<1>8. \A i \in OnItsWay : IsState(i) => toCon[i].version \in Nat
  BY DEF ConInv, ToConType, ConMessages, OnItsWay, IsState
<1>9. DevType /\ InOrder /\ ConType
  BY DEF ConInv
<1>10. DevType' /\ version' \in Nat /\ version' >= version /\ (m.is = "cannot" => actedAt' = actedAt)
  <2>1. CASE Accepts(Head(toDev))
    <3>1. Acted(Head(toDev)) \in States
      BY <1>2, <1>9, ActedType DEF DevType
    <3>2. dev' = Acted(Head(toDev)) /\ version' = version + 1 /\ unsent' = TRUE /\ actedAt' = version + 1
      BY <2>1 DEF StreamActs, Changes
    <3>3. m.is = "accepted"
      BY <2>1, <1>3, <1>4, <1>5 DEF StreamActs
    <3> QED
      BY <1>2, <1>9, <3>1, <3>2, <3>3 DEF DevType
  <2>2. CASE ~Accepts(Head(toDev))
    BY <2>2, <1>2, <1>9 DEF DevType, StreamActs
  <2> QED
    BY <2>1, <2>2
<1>11. InOrder'
  BY <1>3, <1>5, <1>6, <1>7, <1>8, <1>9, <1>10 DEF InOrder, OnItsWay, IsState, ConType, DevType
<1>12. Answered'
  <2>1. Len(toCon) + 1 \in OnItsWay'
    BY <1>5 DEF OnItsWay
  <2> QED
    BY <2>1, <1>1, <1>2, <1>3, <1>5, <1>6, <1>7, <1>10 DEF OnTheWay, Answered, IsState, OnItsWay
<1>13. ConType' /\ Asking'
  BY <1>7 DEF ConInv, ConType, Asking
<1> QED
  BY <1>5, <1>10, <1>11, <1>12, <1>13 DEF ConInv

\* The console asks, with nothing out.
LEMMA AsksKeep ==
    ASSUME ConInv, ConAsks
    PROVE  ConInv'
<1>1. ConType /\ NoneOut
  BY DEF ConInv, ConAsks, OnTheWay, Answered, Accepted
<1>2. UNCHANGED <<dev, version, unsent, toDev, toCon, actedAt>>
  BY DEF ConAsks
<1>3. Want(con) \in Questions /\ (Want(con) # "none" => con.snap # NoSnap)
  <2>1. CASE con.snap = NoSnap
    BY <2>1 DEF Want, Questions
  <2>2. CASE con.snap # NoSnap
    <3>1. con.snap \in States
      BY <1>1, <2>2 DEF ConType
    <3> QED
      BY <2>2, <3>1 DEF Want, Questions, States
  <2> QED
    BY <2>1, <2>2
<1>4. [x \in RunSteps |-> TickedByDefault(con.snap.done[x])] \in [RunSteps -> {"none", "on", "off"}]
  BY DEF TickedByDefault
<1>5. PICK t \in [RunSteps -> {"none", "on", "off"}] : con' = [con EXCEPT !.asking = Want(con), !.ticks = t]
  <2>1. Unticked \in [RunSteps -> {"none", "on", "off"}] /\ con.ticks \in [RunSteps -> {"none", "on", "off"}]
    BY <1>1 DEF Unticked, ConType
  <2> QED
    BY <2>1, <1>4, <1>1 DEF ConAsks, ConType
<1>6. ConType' /\ con'.snap = con.snap /\ con'.sentAt = con.sentAt /\ con'.heard = con.heard /\ con'.accepted = con.accepted
  BY <1>1, <1>3, <1>5 DEF ConType
<1>7. Asking' /\ NoneOut'
  BY <1>1, <1>2, <1>3, <1>5, <1>6 DEF Asking, NoneOut, OnItsWay, IsState, ConType
<1> QED
  BY <1>2, <1>6, <1>7 DEF ConInv, DevType, ToConType, InOrder, OnItsWay, IsState

\* A line typed says something to the console, sends one act, or leaves.
LEMMA TypesKeep ==
    ASSUME ConInv, Types
    PROVE  ConInv'
<1>1. ConType /\ NoneOut /\ con.snap \in States
  BY DEF ConInv, ConType, Asking, Types, OnTheWay, Answered, Accepted
<1>2. UNCHANGED <<dev, version, unsent, toCon, actedAt>>
  BY DEF Types
<1> DEFINE Same(c) == /\ c \in [snap : States \cup {NoSnap}, heard : Nat, asking : Questions,
                                 sentAt : States \cup {NoSnap}, accepted : BOOLEAN,
                                 answered : SUBSET (Prompts \cup {NoPrompt}),
                                 skipped : SUBSET (Prompts \cup {NoPrompt}),
                                 ticks : [RunSteps -> {"none", "on", "off"}], left : BOOLEAN]
                      /\ c.snap = con.snap /\ c.heard = con.heard /\ c.sentAt = NoSnap /\ ~c.accepted
<1>3. \/ \E c : Same(c) /\ Says(c)
      \/ \E c, a : Same(c) /\ a \in Acts /\ ConSends(c, a)
      \/ ConLeaves
  <2>1. Same(con)
    BY <1>1 DEF ConType, NoneOut
  <2>2. CASE con.asking = "choose" /\ Chosen
    <3>1. ASSUME NEW x \in RunSteps PROVE Same([con EXCEPT !.ticks[x] = IF @ = "on" THEN "off" ELSE "on"])
      <4>1. [con.ticks EXCEPT ![x] = IF @ = "on" THEN "off" ELSE "on"] \in [RunSteps -> {"none", "on", "off"}]
        BY <1>1 DEF ConType
      <4> QED
        BY <2>1, <4>1
    <3>2. ASSUME NEW t \in {"on", "off"} PROVE Same([con EXCEPT !.ticks = [x \in RunSteps |-> t]])
      <4>1. [x \in RunSteps |-> t] \in [RunSteps -> {"none", "on", "off"}]
        OBVIOUS
      <4> QED
        BY <2>1, <4>1
    <3>3. \A xs \in SUBSET RunSteps : [act |-> "start", steps |-> xs] \in Acts
      BY DEF Acts
    <3> HIDE DEF Same
    <3> QED
      BY <2>1, <2>2, <3>1, <3>2, <3>3 DEF Chosen
  <2>3. CASE con.asking \in Prompts /\ TypedAtPrompt(con.asking)
    <3> DEFINE p == con.asking
    <3>1. Same([con EXCEPT !.answered = @ \cup {p}]) /\ Same([con EXCEPT !.skipped = @ \cup {p}])
      BY <2>1, <2>3
    <3>2. [act |-> "answer", prompt |-> p] \in Acts /\ \A v \in {"stop", "retry"} : [act |-> v] \in Acts
      BY <2>3 DEF Acts
    <3> HIDE DEF Same
    <3> QED
      BY <2>1, <2>3, <3>1, <3>2 DEF TypedAtPrompt
  <2>4. CASE con.asking \in {"waiting", "failed", "finished"} /\ TypedAtMenu(con.asking)
    <3>1. \A v \in {"stop", "retry", "acknowledge"} : [act |-> v] \in Acts
      BY DEF Acts
    <3> HIDE DEF Same
    <3> QED
      BY <2>1, <2>4, <3>1 DEF TypedAtMenu
  <2>5. Says(con) => \E c : Same(c) /\ Says(c)
    BY <2>1
  <2> HIDE DEF Same
  <2> QED
    BY <2>2, <2>3, <2>4, <2>5 DEF Types
<1>4. ASSUME NEW c, Same(c), Says(c) PROVE ConInv'
  <2>1. ConType' /\ con'.asking = "none" /\ con'.snap = con.snap /\ con'.heard = con.heard /\ con'.sentAt = NoSnap
        /\ ~con'.accepted /\ toDev' = toDev
    BY <1>4 DEF Says, ConType, Questions
  <2> QED
    BY <1>1, <1>2, <2>1 DEF ConInv, DevType, ToConType, InOrder, Asking, NoneOut, OnItsWay, IsState
<1>5. ASSUME NEW c, NEW a, Same(c), a \in Acts, ConSends(c, a) PROVE ConInv'
  <2>1. ConType' /\ con'.asking = "none" /\ con'.heard = con.heard /\ con'.sentAt = con.snap /\ ~con'.accepted
    BY <1>1, <1>5 DEF ConSends, ConType, Questions
  <2>2. toDev' \in Seq(Acts) /\ Len(toDev') = 1
    BY <1>1, <1>5 DEF ConSends, NoneOut
  <2>3. con.snap # NoSnap
    BY <1>1 DEF States, NoSnap
  <2>4. OnTheWay'
    BY <1>1, <1>2, <2>1, <2>2, <2>3 DEF NoneOut, OnTheWay, OnItsWay, IsState
  <2> QED
    BY <1>2, <2>1, <2>2, <2>4 DEF ConInv, DevType, ToConType, InOrder, Asking, OnItsWay, IsState
<1>6. ASSUME ConLeaves PROVE ConInv'
  <2>1. ConType' /\ con'.asking = "none" /\ con'.heard = con.heard /\ con'.sentAt = NoSnap /\ ~con'.accepted
        /\ toDev' = toDev
    BY <1>1, <1>6 DEF ConLeaves, ConType, Questions, NoneOut
  <2> QED
    BY <1>1, <1>2, <2>1 DEF ConInv, DevType, ToConType, InOrder, Asking, NoneOut, OnItsWay, IsState
<1> QED
  BY <1>3, <1>4, <1>5, <1>6

\* What the console makes of what it hears.
LEMMA HearsKeep ==
    ASSUME ConInv, ConHears
    PROVE  ConInv'
<1> DEFINE m == Head(toCon)
<1>1. ConType /\ InOrder /\ DevType /\ toCon \in Seq(ConMessages) /\ toCon # << >>
  BY DEF ConInv, ToConType, ConHears
<1>2. UNCHANGED <<dev, version, unsent, toDev, actedAt>> /\ toCon' = Tail(toCon)
  BY DEF ConHears
<1>3. m \in ConMessages /\ m = toCon[1] /\ 1 \in OnItsWay
  BY <1>1 DEF OnItsWay
<1>4. /\ toCon' \in Seq(ConMessages) /\ Len(toCon') = Len(toCon) - 1 /\ Len(toCon) \in Nat
      /\ \A i \in OnItsWay' : i \in Nat \ {0} /\ i + 1 \in OnItsWay /\ toCon'[i] = toCon[i + 1]
      /\ \A i \in OnItsWay : i = 1 \/ (i - 1 \in OnItsWay' /\ toCon'[i - 1] = toCon[i])
  BY <1>1, <1>2 DEF OnItsWay
<1> HIDE DEF m
<1>5. DevType' /\ ToConType'
  BY <1>1, <1>2, <1>4 DEF DevType, ToConType
<1>6. CASE m.is = "state"
  <2>1. m \in [is : {"state"}, snap : States, version : Nat] /\ m.snap # NoSnap
    BY <1>3, <1>6 DEF ConMessages, States, NoSnap
  <2>2. HearsState(m)
    BY <1>6 DEF ConHears, m
  <2>3. con.heard <= m.version /\ m.version <= version /\ IsState(1)
    BY <1>1, <1>3, <1>6 DEF InOrder, IsState
  <2>4. con'.snap = m.snap /\ con'.heard = m.version /\ con'.asking = con.asking
        /\ con'.sentAt = (IF con.accepted /\ con.sentAt # m.snap THEN NoSnap ELSE con.sentAt)
        /\ con'.accepted = (con.accepted /\ con.sentAt = m.snap)
    BY <1>1, <2>2, <2>1 DEF HearsState, ConType
  <2>5. ConType'
    <3>1. \A b, n : Refreshed(con.ticks, b, n) \in [RunSteps -> {"none", "on", "off"}]
      BY <1>1 DEF Refreshed, ConType, TickedByDefault
    <3> QED
      BY <1>1, <2>1, <2>2, <3>1 DEF HearsState, ConType
  <2>6. InOrder'
    <3>1. ASSUME NEW i \in OnItsWay', IsState(i)'
          PROVE  con'.heard <= toCon'[i].version /\ toCon'[i].version <= version'
      <4>1. i + 1 \in OnItsWay /\ toCon'[i] = toCon[i + 1] /\ 1 < i + 1 /\ 1 \in OnItsWay
        BY <1>3, <1>4
      <4>2. IsState(i + 1)
        BY <3>1, <4>1 DEF IsState
      <4>3. toCon[1].version <= toCon[i + 1].version /\ toCon[i + 1].version <= version
        BY <1>1, <2>3, <4>1, <4>2 DEF InOrder
      <4> QED
        BY <1>2, <1>3, <2>4, <4>1, <4>3
    <3>2. ASSUME NEW i \in OnItsWay', NEW j \in OnItsWay', IsState(i)', IsState(j)', i < j
          PROVE  toCon'[i].version <= toCon'[j].version
      <4>1. /\ i + 1 \in OnItsWay /\ toCon'[i] = toCon[i + 1]
            /\ j + 1 \in OnItsWay /\ toCon'[j] = toCon[j + 1] /\ i + 1 < j + 1
        BY <1>4, <3>2
      <4>2. IsState(i + 1) /\ IsState(j + 1)
        BY <3>2, <4>1 DEF IsState
      <4> QED
        BY <1>1, <4>1, <4>2 DEF InOrder
    <3>3. con'.heard <= version'
      BY <1>2, <2>3, <2>4
    <3> QED
      BY <3>1, <3>2, <3>3 DEF InOrder
  <2>7. Asking'
    BY <2>1, <2>4 DEF ConInv, Asking
  <2>8. con.heard >= actedAt => con'.heard >= actedAt
    BY <1>1, <2>1, <2>3, <2>4 DEF DevType, ConType
  <2>9. NoneOut => NoneOut'
    BY <1>2, <1>4, <2>4, <2>8 DEF NoneOut, IsState
  <2>10. OnTheWay => OnTheWay'
    BY <1>2, <1>4, <2>4, <2>8 DEF OnTheWay, IsState
  <2>11. Answered => Answered'
    <3> SUFFICES ASSUME Answered PROVE Answered'
      OBVIOUS
    <3>1. PICK k \in OnItsWay :
            /\ ~IsState(k) /\ \A i \in OnItsWay : i # k => IsState(i)
            /\ toCon[k].is = "cannot" => con.heard >= actedAt
            /\ toCon[k].is = "accepted" => \A i \in OnItsWay : i > k => toCon[i].version >= actedAt
      BY DEF Answered
    <3>2. k # 1
      BY <2>3, <3>1
    <3>3. k \in Nat /\ k - 1 \in OnItsWay' /\ toCon'[k - 1] = toCon[k]
      BY <1>4, <3>2 DEF OnItsWay
    <3>4. con'.sentAt # NoSnap /\ ~con'.accepted /\ toDev' = << >>
      BY <1>2, <2>4 DEF Answered
    <3>5. \A i \in OnItsWay' : i # k - 1 => IsState(i)'
      BY <1>4, <3>1, <3>3 DEF IsState
    <3>6. toCon[k].is = "accepted" => \A i \in OnItsWay' : i > k - 1 => toCon'[i].version >= actedAt
      BY <1>4, <3>1, <3>3
    <3> QED
      <4>1. ~IsState(k - 1)' /\ toCon'[k - 1] = toCon[k]
        BY <3>1, <3>3 DEF IsState
      <4>2. toCon'[k - 1].is = "cannot" => con'.heard >= actedAt'
        BY <1>2, <2>8, <3>1, <4>1
      <4>3. toCon'[k - 1].is = "accepted" => \A i \in OnItsWay' : i > k - 1 => toCon'[i].version >= actedAt'
        BY <1>2, <3>6, <4>1
      <4> QED
        BY <3>3, <3>4, <3>5, <4>1, <4>2, <4>3 DEF Answered
  <2>12. Accepted => Accepted' \/ NoneOut'
    <3> SUFFICES ASSUME Accepted PROVE Accepted' \/ NoneOut'
      OBVIOUS
    <3>1. m.version >= actedAt
      BY <1>3 DEF Accepted
    <3>2. \A i \in OnItsWay' : IsState(i)' /\ toCon'[i].version >= actedAt'
      <4> SUFFICES ASSUME NEW i \in OnItsWay' PROVE toCon'[i].is = "state" /\ toCon'[i].version >= actedAt'
        BY DEF IsState
      <4>1. i + 1 \in OnItsWay /\ toCon'[i] = toCon[i + 1]
        BY <1>4
      <4>2. toCon[i + 1].is = "state" /\ toCon[i + 1].version >= actedAt
        BY <4>1 DEF Accepted, IsState
      <4>3. actedAt' = actedAt
        BY <1>2
      <4> QED
        BY <4>1, <4>2, <4>3
    <3> QED
      BY <1>2, <2>4, <3>1, <3>2 DEF Accepted, NoneOut
  <2> QED
    BY <1>5, <2>5, <2>6, <2>7, <2>9, <2>10, <2>11, <2>12 DEF ConInv
<1>7. CASE m.is # "state"
  <2>1. m.is \in {"accepted", "cannot"} /\ Answered /\ ~IsState(1)
    BY <1>3, <1>7 DEF ConInv, ConMessages, NoneOut, OnTheWay, Accepted, IsState
  <2>2. \A i \in OnItsWay' : IsState(i)'
    BY <1>3, <1>4, <2>1 DEF Answered, IsState, OnItsWay
  <2>3. con'.heard = con.heard /\ con'.snap = con.snap /\ con'.asking = con.asking /\ ConType'
    <3>1. con' = (IF m.is = "accepted" THEN IF con.sentAt = NoSnap THEN con ELSE Acknowledges(con)
                  ELSE [con EXCEPT !.sentAt = NoSnap, !.accepted = FALSE])
      BY <2>1 DEF ConHears, m
    <3> QED
      BY <1>1, <3>1 DEF Acknowledges, ConType
  <2>4. Asking'
    BY <1>1, <1>7, <2>1, <2>3 DEF Asking, ConInv, Answered
  <2>5. InOrder'
    <3>1. ASSUME NEW i \in OnItsWay', IsState(i)'
          PROVE  con'.heard <= toCon'[i].version /\ toCon'[i].version <= version'
      <4>1. i + 1 \in OnItsWay /\ toCon'[i] = toCon[i + 1]
        BY <1>4
      <4>2. IsState(i + 1)
        BY <3>1, <4>1 DEF IsState
      <4>3. con.heard <= toCon[i + 1].version /\ toCon[i + 1].version <= version
        BY <1>1, <4>1, <4>2 DEF InOrder
      <4> QED
        BY <1>2, <2>3, <4>1, <4>3
    <3>2. ASSUME NEW i \in OnItsWay', NEW j \in OnItsWay', IsState(i)', IsState(j)', i < j
          PROVE  toCon'[i].version <= toCon'[j].version
      <4>1. /\ i + 1 \in OnItsWay /\ toCon'[i] = toCon[i + 1]
            /\ j + 1 \in OnItsWay /\ toCon'[j] = toCon[j + 1] /\ i + 1 < j + 1
        BY <1>4, <3>2
      <4>2. IsState(i + 1) /\ IsState(j + 1)
        BY <3>2, <4>1 DEF IsState
      <4> QED
        BY <1>1, <4>1, <4>2 DEF InOrder
    <3> QED
      BY <1>1, <1>2, <2>3, <3>1, <3>2 DEF InOrder
  <2>6. CASE m.is = "cannot"
    <3>1. con'.sentAt = NoSnap /\ ~con'.accepted /\ con.heard >= actedAt
      BY <1>1, <1>3, <2>1, <2>6 DEF ConHears, m, ConType, Answered, IsState
    <3>2. NoneOut'
      BY <1>2, <2>1, <2>2, <2>3, <3>1 DEF NoneOut, Answered
    <3> QED
      BY <1>5, <2>3, <2>4, <2>5, <3>2 DEF ConInv
  <2>7. CASE m.is = "accepted"
    <3>1. con'.sentAt = con.sentAt /\ con'.accepted
      BY <1>1, <2>1, <2>7 DEF ConHears, m, ConType, Answered, Acknowledges
    <3>2. \A i \in OnItsWay' : toCon'[i].version >= actedAt
      <4>1. \A i \in OnItsWay : i > 1 => toCon[i].version >= actedAt
        BY <1>3, <2>1, <2>7 DEF Answered, IsState
      <4> QED
        BY <1>4, <4>1
    <3>3. Accepted'
      BY <1>2, <2>1, <2>2, <3>1, <3>2 DEF Accepted, Answered
    <3> QED
      BY <1>5, <2>3, <2>4, <2>5, <3>3 DEF ConInv
  <2> QED
    BY <2>1, <2>6, <2>7
<1> QED
  BY <1>6, <1>7

\* The operator is never asked about a state their own act has since
\* changed: a question is of a state as new as what the console's last
\* accepted act made (console.rs, Pending).
THEOREM AsksOfNow == ConSpec => []AsksOfWhatIs
<1>1. ConInv /\ [ConNext]_conVars => ConInv'
  <2>1. ConInv /\ ConNext => ConInv'
    BY RunKeeps, SendsKeep, ActsKeep, AsksKeep, HearsKeep, TypesKeep DEF ConNext
  <2>2. ConInv /\ UNCHANGED conVars => ConInv'
    BY DEF conVars, ConInv, DevType, ToConType, ConType, InOrder, Asking, NoneOut, OnTheWay, Answered, Accepted,
           OnItsWay, IsState
  <2> QED
    BY <2>1, <2>2
<1>2. ConInv => AsksOfWhatIs
  BY DEF ConInv, Asking, NoneOut, OnTheWay, Answered, Accepted, AsksOfWhatIs
<1> QED
  BY <1>1, <1>2, ConInitInv, PTL DEF ConSpec
-----------------------------------------------------------------------------
\* The board.
Parts == Software \cup {"overlay", "signed", "crypttab", "initrd"}
Writing == {"write fw", "write rt", "sync", "mark"}
Encrypting == {"rotate", "clear", "add", "enrol", "rewire", "record", "replace"}
Works == Writing \cup Encrypting \cup {"none", "unmark", "overlay", "software", "tailscale", "eeprom", "bootloader"}

FwType == fw \in [image : Contents, marker : {"none", "earlier", "medium"}, has : SUBSET Parts]
RtType ==
    rt \in [image : Contents, own : BOOLEAN, reencrypting : BOOLEAN, uuid : BOOLEAN, empty : BOOLEAN,
            tpm : BOOLEAN, phrases : SUBSET Nat, has : SUBSET Parts]
BoardType ==
    /\ FwType /\ RtType
    /\ dirty \subseteq {"fw", "rt"} /\ records \subseteq Nat /\ tries \in Nat /\ work \in Works

\* What each write leaves for the next of its step: the marker gone before
\* the disk is written, the whole of it on the disk before it is marked,
\* and the TPM, the system and the record there before the empty
\* passphrase goes.
WorkInv ==
    /\ dirty # {} => work \in {"write rt", "sync"}
    /\ work = "write rt" => "rt" \notin dirty
    /\ work \in Writing => fw.marker = "none"
    /\ work = "sync" /\ "rt" \notin dirty => rt.empty
    /\ work = "mark" => Verified /\ rt.empty
    /\ work \in Encrypting => rt.empty
    /\ work \in {"record", "replace"} => "crypttab" \in rt.has /\ "initrd" \in fw.has
    /\ work = "replace" => rt.tpm /\ tries \in rt.phrases \cap records

MarkedInv ==
    DiskDone => Verified /\ (~rt.empty => "initrd" \in fw.has /\ "crypttab" \in rt.has)

BoardInv == BoardType /\ WorkInv /\ MarkedInv /\ NeverLockedOut

\* A board as it leaves the factory is within the invariant.
LEMMA BoardInitInv == StepsInit => BoardInv
BY DEF StepsInit, Firmware, Root, BoardInv, BoardType, FwType, RtType, WorkInv, MarkedInv, NeverLockedOut, DiskDone,
       Verified, Volume, Works, Writing, Encrypting, Contents

\* The step disk (disk.rs, carry_out).
LEMMA DiskKeeps ==
    ASSUME BoardInv, DiskBegins \/ RemovesMarker \/ WritesDisk \/ Verifies \/ Marks
    PROVE  BoardInv'
<1>1. CASE DiskBegins
  <2>1. BoardType'
    BY <1>1 DEF BoardInv, BoardType, FwType, RtType, Works, Writing, Encrypting, DiskBegins, Carries, To, boardVars
  <2>2. WorkInv'
    BY <1>1 DEF BoardInv, BoardType, FwType, RtType, WorkInv, Works, Writing, Encrypting, Verified, DiskBegins,
       Carries, To, boardVars
  <2>3. MarkedInv' /\ NeverLockedOut'
    BY <1>1 DEF BoardInv, BoardType, FwType, RtType, WorkInv, MarkedInv, NeverLockedOut, DiskDone, Verified, Volume,
       Writing, Encrypting, DiskBegins, Carries, To, boardVars
  <2> QED
    BY <2>1, <2>2, <2>3 DEF BoardInv
<1>2. CASE RemovesMarker
  <2>1. BoardType'
    BY <1>2 DEF BoardInv, BoardType, FwType, RtType, Works, Writing, Encrypting, RemovesMarker, To
  <2>2. WorkInv'
    BY <1>2 DEF BoardInv, BoardType, FwType, RtType, WorkInv, Works, Writing, Encrypting, Verified, RemovesMarker, To
  <2>3. MarkedInv' /\ NeverLockedOut'
    BY <1>2 DEF BoardInv, BoardType, FwType, RtType, WorkInv, MarkedInv, NeverLockedOut, DiskDone, Verified, Volume,
       Writing, Encrypting, RemovesMarker, To
  <2> QED
    BY <2>1, <2>2, <2>3 DEF BoardInv
<1>3. CASE WritesDisk
  <2>1. BoardType'
    BY <1>3 DEF BoardInv, BoardType, FwType, RtType, Works, Writing, Encrypting, WritesDisk, To
  <2>2. WorkInv'
    BY <1>3 DEF BoardInv, BoardType, FwType, RtType, WorkInv, Works, Writing, Encrypting, Verified, WritesDisk, To
  <2>3. MarkedInv' /\ NeverLockedOut'
    BY <1>3 DEF BoardInv, BoardType, FwType, RtType, WorkInv, MarkedInv, NeverLockedOut, DiskDone, Verified, Volume,
       Writing, Encrypting, WritesDisk, To
  <2> QED
    BY <2>1, <2>2, <2>3 DEF BoardInv
<1>4. CASE Verifies
  <2>1. BoardType'
    BY <1>4 DEF BoardInv, BoardType, FwType, RtType, Works, Writing, Encrypting, Verifies, To, Verified, boardVars
  <2>2. WorkInv'
    BY <1>4 DEF BoardInv, BoardType, FwType, RtType, WorkInv, Works, Writing, Encrypting, Verified, Verifies, To,
       boardVars
  <2>3. MarkedInv' /\ NeverLockedOut'
    BY <1>4 DEF BoardInv, BoardType, FwType, RtType, WorkInv, MarkedInv, NeverLockedOut, DiskDone, Verified, Volume,
       Writing, Encrypting, Verifies, To, boardVars
  <2> QED
    BY <2>1, <2>2, <2>3 DEF BoardInv
<1>5. CASE Marks
  <2>1. BoardType'
    BY <1>5 DEF BoardInv, BoardType, FwType, RtType, Works, Writing, Encrypting, Marks, Over
  <2>2. WorkInv'
    BY <1>5 DEF BoardInv, BoardType, FwType, RtType, WorkInv, Works, Writing, Encrypting, Verified, Marks, Over
  <2>3. MarkedInv' /\ NeverLockedOut'
    BY <1>5 DEF BoardInv, BoardType, FwType, RtType, WorkInv, MarkedInv, NeverLockedOut, DiskDone, Verified, Volume,
       Writing, Encrypting, Marks, Over
  <2> QED
    BY <2>1, <2>2, <2>3 DEF BoardInv
<1> QED
  BY <1>1, <1>2, <1>3, <1>4, <1>5

\* What was written reaches the disk, in either order.
LEMMA ReachKeeps ==
    ASSUME BoardInv, ReachesDisk
    PROVE  BoardInv'
<1>1. work \in {"write rt", "sync"} /\ fw.marker = "none" /\ fw.marker # "medium"
  BY DEF BoardInv, BoardType, WorkInv, ReachesDisk, Writing
<1>2. UNCHANGED <<records, tries, work>>
  BY DEF ReachesDisk
<1>3. PICK image \in {"medium", "bad"} :
        \/ "fw" \in dirty /\ fw' = Firmware(image) /\ dirty' = dirty \ {"fw"} /\ UNCHANGED rt
        \/ "rt" \in dirty /\ rt' = Root(image) /\ dirty' = dirty \ {"rt"} /\ UNCHANGED fw
  BY DEF ReachesDisk
<1>4. Firmware(image) \in [image : Contents, marker : {"none", "earlier", "medium"}, has : SUBSET Parts]
  BY DEF Firmware, Contents
<1>5. Root(image) \in [image : Contents, own : BOOLEAN, reencrypting : BOOLEAN, uuid : BOOLEAN, empty : BOOLEAN,
                       tpm : BOOLEAN, phrases : SUBSET Nat, has : SUBSET Parts]
  BY DEF Root, Contents
<1>6. BoardType'
  BY <1>2, <1>3, <1>4, <1>5 DEF BoardInv, BoardType, FwType, RtType
<1>7. fw'.marker = "none" /\ Root(image).empty
  <2>1. Firmware(image).marker = "none"
    BY DEF Firmware
  <2>2. Root(image).empty
    BY DEF Root
  <2> QED
    BY <1>1, <1>3, <2>1, <2>2
<1>8. WorkInv'
  BY <1>1, <1>2, <1>3, <1>7 DEF BoardInv, BoardType, WorkInv, Writing, Encrypting
<1>9. MarkedInv'
  BY <1>7 DEF MarkedInv, DiskDone
<1>10. NeverLockedOut'
  BY <1>2, <1>3, <1>7 DEF BoardInv, NeverLockedOut, Volume
<1> QED
  BY <1>6, <1>8, <1>9, <1>10 DEF BoardInv

\* The steps in the mounted root.
LEMMA RootKeeps ==
    ASSUME BoardInv, (\E step \in {"overlay", "software", "tailscale"} : OpensRoot(step)) \/ Installs \/ InstallsSoftware \/ SignsIn
    PROVE  BoardInv'
<1>1. CASE (\E step \in {"overlay", "software", "tailscale"} : OpensRoot(step))
  <2>1. BoardType'
    BY <1>1 DEF BoardInv, BoardType, FwType, RtType, Works, Writing, Encrypting, OpensRoot, Carries, To, boardVars
  <2>2. WorkInv'
    BY <1>1 DEF BoardInv, BoardType, FwType, RtType, WorkInv, Works, Writing, Encrypting, Verified, OpensRoot,
       Carries, To, boardVars
  <2>3. MarkedInv' /\ NeverLockedOut'
    BY <1>1 DEF BoardInv, BoardType, FwType, RtType, WorkInv, MarkedInv, NeverLockedOut, DiskDone, Verified, Volume,
       Writing, Encrypting, OpensRoot, Carries, To, boardVars
  <2> QED
    BY <2>1, <2>2, <2>3 DEF BoardInv
<1>2. CASE Installs
  <2>1. BoardType'
    <3>1. /\ fw.has \cup {"overlay"} \in SUBSET Parts /\ rt.has \cup {"overlay"} \in SUBSET Parts
      BY DEF BoardInv, BoardType, FwType, RtType, Parts
    <3>2. UNCHANGED <<dirty, records, tries>> /\ work' \in {work, "none"} /\ "none" \in Works
      BY <1>2 DEF Installs, Over, Works
    <3>3. FwType' /\ RtType'
      BY <1>2, <3>1 DEF BoardInv, BoardType, FwType, RtType, Installs
    <3> QED
      BY <3>2, <3>3 DEF BoardInv, BoardType
  <2>2. WorkInv'
    BY <1>2 DEF BoardInv, BoardType, FwType, RtType, WorkInv, Works, Writing, Encrypting, Verified, Installs, Over,
       Parts
  <2>3. MarkedInv' /\ NeverLockedOut'
    BY <1>2 DEF BoardInv, BoardType, FwType, RtType, WorkInv, MarkedInv, NeverLockedOut, DiskDone, Verified, Volume,
       Writing, Encrypting, Installs, Over, Parts
  <2> QED
    BY <2>1, <2>2, <2>3 DEF BoardInv
<1>3. CASE InstallsSoftware
  <2>1. BoardType'
    <3>1. \A i \in DOMAIN SoftwareOrder : rt.has \cup {SoftwareOrder[i]} \in SUBSET Parts
      BY DEF BoardInv, BoardType, RtType, Parts, Software
    <3>2. UNCHANGED <<fw, dirty, records, tries>> /\ work' \in {work, "none"} /\ "none" \in Works
      BY <1>3 DEF InstallsSoftware, Over, Works
    <3>3. RtType'
      BY <1>3, <3>1 DEF BoardInv, BoardType, RtType, InstallsSoftware
    <3> QED
      BY <3>2, <3>3 DEF BoardInv, BoardType, FwType
  <2>2. WorkInv'
    BY <1>3 DEF BoardInv, BoardType, FwType, RtType, WorkInv, Works, Writing, Encrypting, Verified, InstallsSoftware,
       Over, Parts, Software, SoftwareOrder
  <2>3. MarkedInv' /\ NeverLockedOut'
    BY <1>3 DEF BoardInv, BoardType, FwType, RtType, WorkInv, MarkedInv, NeverLockedOut, DiskDone, Verified, Volume,
       Writing, Encrypting, InstallsSoftware, Over, Parts, Software, SoftwareOrder
  <2> QED
    BY <2>1, <2>2, <2>3 DEF BoardInv
<1>4. CASE SignsIn
  <2>1. BoardType'
    BY <1>4 DEF BoardInv, BoardType, FwType, RtType, Works, Writing, Encrypting, SignsIn, Over, Parts
  <2>2. WorkInv'
    BY <1>4 DEF BoardInv, BoardType, FwType, RtType, WorkInv, Works, Writing, Encrypting, Verified, SignsIn, Over,
       Parts
  <2>3. MarkedInv' /\ NeverLockedOut'
    BY <1>4 DEF BoardInv, BoardType, FwType, RtType, WorkInv, MarkedInv, NeverLockedOut, DiskDone, Verified, Volume,
       Writing, Encrypting, SignsIn, Over, Parts
  <2> QED
    BY <2>1, <2>2, <2>3 DEF BoardInv
<1> QED
  BY <1>1, <1>2, <1>3, <1>4

\* The step encryption: the order of its writes (encryption.rs).
LEMMA EncryptionKeeps ==
    ASSUME BoardInv, EncryptionBegins \/ Rotates \/ ClearsSlots \/ AddsPassphrase \/ EnrolsTpm \/ Rewires \/ SavesRecord \/ RemovesEmpty
    PROVE  BoardInv'
<1>1. CASE EncryptionBegins
  <2>1. BoardType'
    BY <1>1 DEF BoardInv, BoardType, FwType, RtType, Works, Writing, Encrypting, EncryptionBegins, Carries, To,
       boardVars
  <2>2. WorkInv'
    BY <1>1 DEF BoardInv, BoardType, FwType, RtType, WorkInv, Works, Writing, Encrypting, Verified, EncryptionBegins,
       Carries, To, boardVars
  <2>3. MarkedInv' /\ NeverLockedOut'
    BY <1>1 DEF BoardInv, BoardType, FwType, RtType, WorkInv, MarkedInv, NeverLockedOut, DiskDone, Verified, Volume,
       Writing, Encrypting, EncryptionBegins, Carries, To, boardVars
  <2> QED
    BY <2>1, <2>2, <2>3 DEF BoardInv
<1>2. CASE Rotates
  <2>1. BoardType'
    BY <1>2 DEF BoardInv, BoardType, FwType, RtType, Works, Writing, Encrypting, Rotates, To
  <2>2. WorkInv'
    BY <1>2 DEF BoardInv, BoardType, FwType, RtType, WorkInv, Works, Writing, Encrypting, Verified, Rotates, To
  <2>3. MarkedInv' /\ NeverLockedOut'
    BY <1>2 DEF BoardInv, BoardType, FwType, RtType, WorkInv, MarkedInv, NeverLockedOut, DiskDone, Verified, Volume,
       Writing, Encrypting, Rotates, To
  <2> QED
    BY <2>1, <2>2, <2>3 DEF BoardInv
<1>3. CASE ClearsSlots
  <2>1. BoardType'
    <3>1. \A p \in Nat : rt.phrases \ {p} \in SUBSET Nat
      BY DEF BoardInv, BoardType, RtType
    <3>2. UNCHANGED <<fw, dirty, records, tries>> /\ work' \in {work, "add"} /\ "add" \in Works
      BY <1>3 DEF ClearsSlots, To, Works, Encrypting
    <3>3. RtType'
      <4>1. rt' = rt \/ rt' = [rt EXCEPT !.tpm = FALSE] \/ \E p \in rt.phrases : rt' = [rt EXCEPT !.phrases = @ \ {p}]
        BY <1>3 DEF ClearsSlots
      <4> QED
        BY <4>1, <3>1 DEF BoardInv, BoardType, RtType
    <3> QED
      BY <3>2, <3>3 DEF BoardInv, BoardType, FwType
  <2>2. WorkInv'
    BY <1>3 DEF BoardInv, BoardType, FwType, RtType, WorkInv, Works, Writing, Encrypting, Verified, ClearsSlots, To
  <2>3. MarkedInv' /\ NeverLockedOut'
    BY <1>3 DEF BoardInv, BoardType, FwType, RtType, WorkInv, MarkedInv, NeverLockedOut, DiskDone, Verified, Volume,
       Writing, Encrypting, ClearsSlots, To
  <2> QED
    BY <2>1, <2>2, <2>3 DEF BoardInv
<1>4. CASE AddsPassphrase
  <2>1. BoardType'
    BY <1>4 DEF BoardInv, BoardType, FwType, RtType, Works, Writing, Encrypting, AddsPassphrase, To
  <2>2. WorkInv'
    BY <1>4 DEF BoardInv, BoardType, FwType, RtType, WorkInv, Works, Writing, Encrypting, Verified, AddsPassphrase, To
  <2>3. MarkedInv' /\ NeverLockedOut'
    BY <1>4 DEF BoardInv, BoardType, FwType, RtType, WorkInv, MarkedInv, NeverLockedOut, DiskDone, Verified, Volume,
       Writing, Encrypting, AddsPassphrase, To
  <2> QED
    BY <2>1, <2>2, <2>3 DEF BoardInv
<1>5. CASE EnrolsTpm
  <2>1. BoardType'
    BY <1>5 DEF BoardInv, BoardType, FwType, RtType, Works, Writing, Encrypting, EnrolsTpm, To
  <2>2. WorkInv'
    BY <1>5 DEF BoardInv, BoardType, FwType, RtType, WorkInv, Works, Writing, Encrypting, Verified, EnrolsTpm, To
  <2>3. MarkedInv' /\ NeverLockedOut'
    BY <1>5 DEF BoardInv, BoardType, FwType, RtType, WorkInv, MarkedInv, NeverLockedOut, DiskDone, Verified, Volume,
       Writing, Encrypting, EnrolsTpm, To
  <2> QED
    BY <2>1, <2>2, <2>3 DEF BoardInv
<1>6. CASE Rewires
  <2>1. BoardType'
    <3>1. rt.has \cup {"crypttab"} \in SUBSET Parts /\ fw.has \cup {"initrd"} \in SUBSET Parts
      BY DEF BoardInv, BoardType, FwType, RtType, Parts
    <3>2. UNCHANGED <<dirty, records, tries>> /\ work' \in {work, "record"} /\ "record" \in Works
      BY <1>6 DEF Rewires, To, Works, Encrypting
    <3>3. FwType' /\ RtType'
      BY <1>6, <3>1 DEF BoardInv, BoardType, FwType, RtType, Rewires
    <3> QED
      BY <3>2, <3>3 DEF BoardInv, BoardType
  <2>2. WorkInv'
    <3>1. CASE "crypttab" \notin rt.has
      BY <1>6, <3>1 DEF BoardInv, BoardType, FwType, RtType, WorkInv, Writing, Encrypting, Verified, Rewires
    <3>2. CASE "crypttab" \in rt.has
      <4>1. fw' = [fw EXCEPT !.has = @ \cup {"initrd"}] /\ work' = "record" /\ UNCHANGED <<rt, dirty>> /\ work = "rewire"
        BY <1>6, <3>2 DEF Rewires, To
      <4>2. "initrd" \in fw'.has
        BY <4>1 DEF BoardInv, BoardType, FwType
      <4> QED
        BY <3>2, <4>1, <4>2 DEF BoardInv, WorkInv, Writing, Encrypting
    <3> QED
      BY <3>1, <3>2
  <2>3. MarkedInv' /\ NeverLockedOut'
    BY <1>6 DEF BoardInv, BoardType, FwType, RtType, WorkInv, MarkedInv, NeverLockedOut, DiskDone, Verified, Volume,
       Writing, Encrypting, Rewires, To, Parts
  <2> QED
    BY <2>1, <2>2, <2>3 DEF BoardInv
<1>7. CASE SavesRecord
  <2>1. BoardType'
    BY <1>7 DEF BoardInv, BoardType, FwType, RtType, Works, Writing, Encrypting, SavesRecord, To
  <2>2. WorkInv'
    BY <1>7 DEF BoardInv, BoardType, FwType, RtType, WorkInv, Works, Writing, Encrypting, Verified, SavesRecord, To
  <2>3. MarkedInv' /\ NeverLockedOut'
    BY <1>7 DEF BoardInv, BoardType, FwType, RtType, WorkInv, MarkedInv, NeverLockedOut, DiskDone, Verified, Volume,
       Writing, Encrypting, SavesRecord, To
  <2> QED
    BY <2>1, <2>2, <2>3 DEF BoardInv
<1>8. CASE RemovesEmpty
  <2>1. BoardType'
    BY <1>8 DEF BoardInv, BoardType, FwType, RtType, Works, Writing, Encrypting, RemovesEmpty, Over
  <2>2. WorkInv'
    BY <1>8 DEF BoardInv, BoardType, FwType, RtType, WorkInv, Works, Writing, Encrypting, Verified, RemovesEmpty, Over
  <2>3. MarkedInv' /\ NeverLockedOut'
    BY <1>8 DEF BoardInv, BoardType, FwType, RtType, WorkInv, MarkedInv, NeverLockedOut, DiskDone, Verified, Volume,
       Writing, Encrypting, RemovesEmpty, Over
  <2> QED
    BY <2>1, <2>2, <2>3 DEF BoardInv
<1> QED
  BY <1>1, <1>2, <1>3, <1>4, <1>5, <1>6, <1>7, <1>8

\* The other writes, a failure, a power cut and a look at the root.
LEMMA ElseKeeps ==
    ASSUME BoardInv, EepromBegins \/ WritesEeprom \/ BootloaderBegins \/ WritesFlash \/ StepFails \/ PowerCut \/ LooksAtRoot
    PROVE  BoardInv'
<1>1. CASE EepromBegins
  <2>1. BoardType'
    BY <1>1 DEF BoardInv, BoardType, FwType, RtType, Works, Writing, Encrypting, EepromBegins, Carries, To, boardVars
  <2>2. WorkInv'
    BY <1>1 DEF BoardInv, BoardType, FwType, RtType, WorkInv, Works, Writing, Encrypting, Verified, EepromBegins,
       Carries, To, boardVars
  <2>3. MarkedInv' /\ NeverLockedOut'
    BY <1>1 DEF BoardInv, BoardType, FwType, RtType, WorkInv, MarkedInv, NeverLockedOut, DiskDone, Verified, Volume,
       Writing, Encrypting, EepromBegins, Carries, To, boardVars
  <2> QED
    BY <2>1, <2>2, <2>3 DEF BoardInv
<1>2. CASE WritesEeprom
  <2>1. BoardType'
    BY <1>2 DEF BoardInv, BoardType, FwType, RtType, Works, Writing, Encrypting, WritesEeprom, Over
  <2>2. WorkInv'
    BY <1>2 DEF BoardInv, BoardType, FwType, RtType, WorkInv, Works, Writing, Encrypting, Verified, WritesEeprom, Over
  <2>3. MarkedInv' /\ NeverLockedOut'
    BY <1>2 DEF BoardInv, BoardType, FwType, RtType, WorkInv, MarkedInv, NeverLockedOut, DiskDone, Verified, Volume,
       Writing, Encrypting, WritesEeprom, Over
  <2> QED
    BY <2>1, <2>2, <2>3 DEF BoardInv
<1>3. CASE BootloaderBegins
  <2>1. BoardType'
    BY <1>3 DEF BoardInv, BoardType, FwType, RtType, Works, Writing, Encrypting, BootloaderBegins, Carries, To,
       boardVars
  <2>2. WorkInv'
    BY <1>3 DEF BoardInv, BoardType, FwType, RtType, WorkInv, Works, Writing, Encrypting, Verified, BootloaderBegins,
       Carries, To, boardVars
  <2>3. MarkedInv' /\ NeverLockedOut'
    BY <1>3 DEF BoardInv, BoardType, FwType, RtType, WorkInv, MarkedInv, NeverLockedOut, DiskDone, Verified, Volume,
       Writing, Encrypting, BootloaderBegins, Carries, To, boardVars
  <2> QED
    BY <2>1, <2>2, <2>3 DEF BoardInv
<1>4. CASE WritesFlash
  <2>1. BoardType'
    BY <1>4 DEF BoardInv, BoardType, FwType, RtType, Works, Writing, Encrypting, WritesFlash, Over
  <2>2. WorkInv'
    BY <1>4 DEF BoardInv, BoardType, FwType, RtType, WorkInv, Works, Writing, Encrypting, Verified, WritesFlash, Over
  <2>3. MarkedInv' /\ NeverLockedOut'
    BY <1>4 DEF BoardInv, BoardType, FwType, RtType, WorkInv, MarkedInv, NeverLockedOut, DiskDone, Verified, Volume,
       Writing, Encrypting, WritesFlash, Over
  <2> QED
    BY <2>1, <2>2, <2>3 DEF BoardInv
<1>5. CASE StepFails
  <2>1. BoardType'
    BY <1>5 DEF BoardInv, BoardType, FwType, RtType, Works, Writing, Encrypting, StepFails, Over, boardVars
  <2>2. WorkInv'
    BY <1>5 DEF BoardInv, BoardType, FwType, RtType, WorkInv, Works, Writing, Encrypting, Verified, StepFails, Over,
       boardVars
  <2>3. MarkedInv' /\ NeverLockedOut'
    BY <1>5 DEF BoardInv, BoardType, FwType, RtType, WorkInv, MarkedInv, NeverLockedOut, DiskDone, Verified, Volume,
       Writing, Encrypting, StepFails, Over, boardVars
  <2> QED
    BY <2>1, <2>2, <2>3 DEF BoardInv
<1>6. CASE PowerCut
  <2>1. BoardType'
    BY <1>6 DEF BoardInv, BoardType, FwType, RtType, Works, Writing, Encrypting, PowerCut
  <2>2. WorkInv'
    BY <1>6 DEF BoardInv, BoardType, FwType, RtType, WorkInv, Works, Writing, Encrypting, Verified, PowerCut
  <2>3. MarkedInv' /\ NeverLockedOut'
    BY <1>6 DEF BoardInv, BoardType, FwType, RtType, WorkInv, MarkedInv, NeverLockedOut, DiskDone, Verified, Volume,
       Writing, Encrypting, PowerCut
  <2> QED
    BY <2>1, <2>2, <2>3 DEF BoardInv
<1>7. CASE LooksAtRoot
  <2>1. BoardType'
    BY <1>7 DEF BoardInv, BoardType, FwType, RtType, Works, Writing, Encrypting, LooksAtRoot, boardVars
  <2>2. WorkInv'
    BY <1>7 DEF BoardInv, BoardType, FwType, RtType, WorkInv, Works, Writing, Encrypting, Verified, LooksAtRoot,
       boardVars
  <2>3. MarkedInv' /\ NeverLockedOut'
    BY <1>7 DEF BoardInv, BoardType, FwType, RtType, WorkInv, MarkedInv, NeverLockedOut, DiskDone, Verified, Volume,
       Writing, Encrypting, LooksAtRoot, boardVars
  <2> QED
    BY <2>1, <2>2, <2>3 DEF BoardInv
<1> QED
  BY <1>1, <1>2, <1>3, <1>4, <1>5, <1>6, <1>7

\* Cut off at any write and begun again, the steps leave a board that is
\* what it is reported to be and that its holder can open.
THEOREM BoardSafe == StepsSpec => []BoardIsSafe
<1>1. BoardInv /\ [StepsNext]_stepVars => BoardInv'
  <2>1. BoardInv /\ StepsNext => BoardInv'
    BY DiskKeeps, ReachKeeps, RootKeeps, EncryptionKeeps, ElseKeeps DEF StepsNext
  <2>2. BoardInv /\ UNCHANGED stepVars => BoardInv'
    BY DEF stepVars, BoardInv, BoardType, FwType, RtType, WorkInv, MarkedInv, NeverLockedOut, DiskDone, Verified,
       Volume
  <2> QED
    BY <2>1, <2>2
<1>2. BoardInv => BoardIsSafe
  BY DEF BoardInv, BoardType, RtType, MarkedInv, NeverLockedOut, BoardIsSafe, DoneIsTrue, Encrypted
<1> QED
  BY <1>1, <1>2, BoardInitInv, PTL DEF StepsSpec
=============================================================================
