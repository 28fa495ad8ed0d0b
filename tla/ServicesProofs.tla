---------------------------- MODULE ServicesProofs ----------------------------
\* What is proved of the daemon's services, for any number of clients,
\* streams, entries and services, any tailnet and any voltages and times:
\* going away, the default feed, Tailscale's acts and Tamanu's, and the
\* backup supply.  Each part has an invariant of its own, kept by each of
\* its steps.
EXTENDS MCServices, SequenceTheorems, FiniteSetTheorems, TLAPS

\* Going away.
Given == [act : {"none", "restart", "reboot", "power-off"}, cause : {"none", "manual-control", "low-battery"}]
ClientRecs ==
    [at : {"none", "open", "closing"}, feed : {"none", "first", "live", "told", "closed"}, counted : BOOLEAN,
     after : SUBSET {"session", "feed"}, stream : {"none", "asking", "taken", "closed"},
     asks : Given]
GoerRecs ==
    [at : {"idle", "begun", "telling", "told", "closing", "carrying", "gone"}, does : Given,
     late : SUBSET {"tell", "close"}]
PowerType == accepted \in Given /\ client \in [Clients -> ClientRecs] /\ goer \in GoerRecs /\ ending \in BOOLEAN

\* A session alone has a feed or a power stream, and a feed is counted
\* until it is told or closed.
Attached(r) ==
    /\ r.feed # "none" => r.at = "open"
    /\ r.counted => r.feed \in {"first", "live"}
    /\ r.stream # "none" => r.at = "open"

\* The sets that are counted.
Feeds(cs) == {c \in Clients : cs[c].counted}
Sessions(cs) == {c \in Clients : cs[c].at # "none"}
Counts ==
    /\ IsFiniteSet(Feeds(client)) /\ untold = Cardinality(Feeds(client))
    /\ IsFiniteSet(Sessions(client)) /\ open = Cardinality(Sessions(client))

\* One act at a time: taken by one stream, which is to begin the task, or
\* being done by the task, or left by a stream that could not say so.
OneAct ==
    /\ \A c \in Clients : client[c].stream = "taken" =>
           accepted # Nothing /\ accepted = client[c].asks /\ goer.at = "idle"
    /\ \A c, d \in Clients : client[c].stream = "taken" /\ client[d].stream = "taken" => c = d
    /\ goer.at # "idle" => accepted # Nothing /\ accepted = goer.does
    /\ goer.at = "idle" => goer = Idle

\* What the feeds and the sessions are told of, by how far the task is.
Announced ==
    /\ goer.at \in {"idle", "begun"} => going = Nothing
    /\ goer.at \notin {"idle", "begun"} => going = goer.does
    /\ ending <=> goer.at \in {"closing", "carrying", "gone"}

\* What is still counted once a wait has ended in time began after it.
AllWaitedFor ==
    /\ Waited /\ "tell" \notin goer.late => \A c \in Clients : client[c].counted => "feed" \in client[c].after
    /\ goer.at \in {"carrying", "gone"} /\ "close" \notin goer.late =>
           \A c \in Clients : client[c].at # "none" => "session" \in client[c].after

PowerInv ==
    /\ PowerType /\ (\A c \in Clients : Attached(client[c])) /\ Counts
    /\ OneAct /\ Announced /\ AllWaitedFor

\* No act is an act a record may hold (power.rs).
LEMMA NothingGiven == Nothing \in Given
BY DEF Nothing, Given

\* A daemon starts with nobody connected and nothing accepted.
LEMMA PowerStarts == PowerInit => PowerInv
<1> SUFFICES ASSUME PowerInit PROVE PowerInv
  OBVIOUS
<1>0. Nothing \in Given
  BY NothingGiven
<1>1. NoSession \in ClientRecs /\ NoSession.at = "none" /\ NoSession.feed = "none" /\ NoSession.stream = "none"
      /\ ~NoSession.counted /\ \A c \in Clients : client[c] = NoSession
  BY <1>0 DEF PowerInit, NoSession, ClientRecs
<1>2. PowerType
  BY <1>0, <1>1 DEF PowerInit, PowerType, GoerRecs, Idle
<1>3. \A c \in Clients : Attached(client[c])
  BY <1>1 DEF Attached
<1>4. Counts
  <2>1. Feeds(client) = {} /\ Sessions(client) = {}
    BY <1>1 DEF Feeds, Sessions
  <2> QED
    BY <2>1, FS_EmptySet DEF Counts, PowerInit
<1>5. OneAct /\ Announced /\ AllWaitedFor
  BY <1>1 DEF OneAct, Announced, AllWaitedFor, PowerInit, Idle
<1> QED
  BY <1>2, <1>3, <1>4, <1>5 DEF PowerInv

\* One client's record becoming another.
Turns(c, r) == client' = [client EXCEPT ![c] = r]

\* The counts after a client's record has changed.
Change(before, after) == (IF after THEN 1 ELSE 0) - (IF before THEN 1 ELSE 0)
\* One session or feed counted in or out changes its count by one
\* (session.rs, the guards' drops).
LEMMA CountsChange ==
    ASSUME PowerType, Counts, NEW c \in Clients, NEW r \in ClientRecs, Turns(c, r),
           untold' = untold + Change(client[c].counted, r.counted),
           open' = open + Change(client[c].at # "none", r.at # "none")
    PROVE  Counts'
<1>1. client \in [Clients -> ClientRecs] /\ r.counted \in BOOLEAN /\ client[c].counted \in BOOLEAN
  BY DEF PowerType, ClientRecs
<1>2. Feeds(client') = IF r.counted THEN Feeds(client) \cup {c} ELSE Feeds(client) \ {c}
  BY <1>1 DEF Turns, Feeds
<1>3. Sessions(client') = IF r.at # "none" THEN Sessions(client) \cup {c} ELSE Sessions(client) \ {c}
  BY <1>1 DEF Turns, Sessions
<1>4. (c \in Feeds(client) <=> client[c].counted) /\ (c \in Sessions(client) <=> client[c].at # "none")
  BY DEF Feeds, Sessions
<1>5. IsFiniteSet(Feeds(client)) /\ Cardinality(Feeds(client)) \in Nat
      /\ IsFiniteSet(Sessions(client)) /\ Cardinality(Sessions(client)) \in Nat
  BY FS_CardinalityType DEF Counts
<1>6. IsFiniteSet(Feeds(client')) /\ untold' = Cardinality(Feeds(client'))
  <2> DEFINE S == Feeds(client)
  <2>1. untold = Cardinality(S)
    BY DEF Counts
  <2> HIDE DEF S
  <2>2. CASE r.counted
    <3>1. IsFiniteSet(S \cup {c}) /\ Cardinality(S \cup {c}) = IF c \in S THEN Cardinality(S) ELSE Cardinality(S) + 1
      BY <1>5, FS_AddElement DEF S
    <3> QED
      BY <3>1, <2>1, <2>2, <1>1, <1>2, <1>4, <1>5 DEF Change, S
  <2>3. CASE ~r.counted
    <3>1. IsFiniteSet(S \ {c}) /\ Cardinality(S \ {c}) = IF c \in S THEN Cardinality(S) - 1 ELSE Cardinality(S)
      BY <1>5, FS_RemoveElement DEF S
    <3> QED
      BY <3>1, <2>1, <2>3, <1>1, <1>2, <1>4, <1>5 DEF Change, S
  <2> QED
    BY <2>2, <2>3
<1>7. IsFiniteSet(Sessions(client')) /\ open' = Cardinality(Sessions(client'))
  <2> DEFINE S == Sessions(client)
  <2>1. open = Cardinality(S)
    BY DEF Counts
  <2> HIDE DEF S
  <2>2. CASE r.at # "none"
    <3>1. IsFiniteSet(S \cup {c}) /\ Cardinality(S \cup {c}) = IF c \in S THEN Cardinality(S) ELSE Cardinality(S) + 1
      BY <1>5, FS_AddElement DEF S
    <3> QED
      BY <3>1, <2>1, <2>2, <1>3, <1>4, <1>5 DEF Change, S
  <2>3. CASE r.at = "none"
    <3>1. IsFiniteSet(S \ {c}) /\ Cardinality(S \ {c}) = IF c \in S THEN Cardinality(S) - 1 ELSE Cardinality(S)
      BY <1>5, FS_RemoveElement DEF S
    <3> QED
      BY <3>1, <2>1, <2>3, <1>3, <1>4, <1>5 DEF Change, S
  <2> QED
    BY <2>2, <2>3
<1> QED
  BY <1>6, <1>7 DEF Counts

\* A client's record may change so, whatever the task is doing: what it
\* asked for it goes on asking for or has let go of, and what it opens
\* once sessions are to end is marked so.
LEMMA ClientMoves ==
    ASSUME PowerInv, NEW c \in Clients, NEW r \in ClientRecs, Turns(c, r), Attached(r),
           UNCHANGED <<accepted, going, ending, goer>>,
           untold' = untold + Change(client[c].counted, r.counted),
           open' = open + Change(client[c].at # "none", r.at # "none"),
           r.stream = "taken" => client[c].stream = "taken" /\ r.asks = client[c].asks,
           r.counted => (client[c].counted /\ client[c].after \subseteq r.after) \/ (Waited => "feed" \in r.after),
           r.at # "none" =>
               (client[c].at # "none" /\ client[c].after \subseteq r.after) \/ (ending => "session" \in r.after)
    PROVE  PowerInv'
<1>1. PowerType /\ Counts /\ OneAct /\ Announced /\ AllWaitedFor /\ \A d \in Clients : Attached(client[d])
  BY DEF PowerInv
<1>2. client'[c] = r /\ \A d \in Clients : d # c => client'[d] = client[d]
  BY <1>1 DEF Turns, PowerType
<1>3. PowerType'
  BY <1>1 DEF Turns, PowerType
<1>4. \A d \in Clients : Attached(client'[d])
  BY <1>1, <1>2
<1>5. Counts'
  BY <1>1, CountsChange
<1>6. OneAct'
  BY <1>1, <1>2 DEF OneAct
<1>7. Announced'
  BY <1>1 DEF Announced
<1>8. AllWaitedFor'
  <2>1. goer.at \in {"carrying", "gone"} => ending
    BY <1>1 DEF Announced
  <2> QED
    BY <2>1, <1>1, <1>2 DEF AllWaitedFor, Waited
<1> QED
  BY <1>3, <1>4, <1>5, <1>6, <1>7, <1>8 DEF PowerInv

\* Sessions and feeds come and go.
LEMMA SessionsCome == ASSUME PowerInv, NEW c \in Clients, Opens(c) \/ FeedOpens(c) PROVE PowerInv'
<1> DEFINE o == client[c]
<1>1. o \in ClientRecs /\ Attached(o) /\ open \in Nat /\ untold \in Nat
  BY FS_CardinalityType DEF PowerInv, PowerType, Counts
<1>2. CASE Opens(c)
  <2> DEFINE r == [NoSession EXCEPT !.at = "open", !.after = OnceEnding]
  <2>1. r \in ClientRecs /\ r.at = "open" /\ r.feed = "none" /\ ~r.counted /\ r.stream = "none"
        /\ (ending => "session" \in r.after)
    BY NothingGiven DEF NoSession, ClientRecs, OnceEnding
  <2>2. o.at = "none" /\ ~o.counted /\ Turns(c, r)
    BY <1>1, <1>2 DEF Opens, Turns, Attached
  <2>3. open' = open + Change(o.at # "none", r.at # "none") /\ untold' = untold + Change(o.counted, r.counted)
    BY <1>1, <1>2, <2>1, <2>2 DEF Opens, Change
  <2> HIDE DEF r
  <2>4. Attached(r)
    BY <2>1 DEF Attached
  <2> QED
    BY <2>1, <2>2, <2>3, <2>4, <1>2, ClientMoves DEF Opens
<1>3. CASE FeedOpens(c)
  <2> DEFINE r == [o EXCEPT !.feed = "first", !.counted = TRUE, !.after = @ \cup OnceWaited]
  <2>1. r \in ClientRecs /\ r.at = o.at /\ r.feed = "first" /\ r.counted /\ r.stream = o.stream /\ r.asks = o.asks
        /\ (Waited => "feed" \in r.after) /\ o.after \subseteq r.after
    BY <1>1 DEF ClientRecs, OnceWaited
  <2>2. o.at = "open" /\ ~o.counted /\ Turns(c, r)
    BY <1>1, <1>3 DEF FeedOpens, Turns, Attached
  <2>3. open' = open + Change(o.at # "none", r.at # "none") /\ untold' = untold + Change(o.counted, r.counted)
    BY <1>1, <1>3, <2>1, <2>2 DEF FeedOpens, Change
  <2> HIDE DEF r
  <2>4. Attached(r)
    BY <1>1, <2>1, <2>2 DEF Attached
  <2> QED
    BY <2>1, <2>2, <2>3, <2>4, <1>3, ClientMoves DEF FeedOpens
<1> QED
  BY <1>2, <1>3

\* A feed is written first, told of the act, or closed (session.rs).
LEMMA FeedsGo == ASSUME PowerInv, NEW c \in Clients, FirstWritten(c) \/ FeedTold(c) \/ FeedCloses(c) PROVE PowerInv'
<1> DEFINE o == client[c]
<1>1. o \in ClientRecs /\ Attached(o) /\ open \in Nat /\ untold \in Nat
  BY FS_CardinalityType DEF PowerInv, PowerType, Counts
<1>2. CASE FirstWritten(c)
  <2> DEFINE r == [o EXCEPT !.feed = "live"]
  <2>1. r \in ClientRecs /\ r.at = o.at /\ r.feed = "live" /\ r.counted = o.counted /\ r.stream = o.stream
        /\ r.asks = o.asks /\ r.after = o.after
    BY <1>1 DEF ClientRecs
  <2>2. o.feed = "first" /\ Turns(c, r)
    BY <1>2 DEF FirstWritten, Turns
  <2>3. open' = open + Change(o.at # "none", r.at # "none") /\ untold' = untold + Change(o.counted, r.counted)
    BY <1>1, <1>2, <2>1 DEF FirstWritten, Change
  <2> HIDE DEF r
  <2>4. Attached(r)
    BY <1>1, <2>1, <2>2 DEF Attached
  <2> QED
    BY <2>1, <2>2, <2>3, <2>4, <1>1, <1>2, ClientMoves DEF FirstWritten, Attached
<1>3. CASE FeedTold(c) \/ FeedCloses(c)
  <2>1. PICK w \in {"told", "closed"} : Turns(c, [o EXCEPT !.feed = w, !.counted = FALSE])
    BY <1>3 DEF FeedTold, FeedCloses, Turns
  <2> DEFINE r == [o EXCEPT !.feed = w, !.counted = FALSE]
  <2>2. r \in ClientRecs /\ r.at = o.at /\ r.feed = w /\ ~r.counted /\ r.stream = o.stream
        /\ r.asks = o.asks /\ r.after = o.after
    BY <1>1 DEF ClientRecs
  <2>3. o.feed # "none" /\ untold' = Uncounted(c) /\ open' = open /\ UNCHANGED <<accepted, going, ending, goer>>
    BY <1>3 DEF FeedTold, FeedCloses
  <2>4. open' = open + Change(o.at # "none", r.at # "none") /\ untold' = untold + Change(o.counted, r.counted)
    BY <1>1, <2>2, <2>3 DEF Change, Uncounted
  <2> HIDE DEF r
  <2>5. Attached(r)
    BY <1>1, <2>2, <2>3 DEF Attached
  <2>6. Turns(c, r)
    BY <2>1 DEF r
  <2> QED
    BY <2>2, <2>3, <2>4, <2>5, <2>6, <1>1, ClientMoves DEF Attached
<1> QED
  BY <1>2, <1>3

\* A session ends once told to, or by itself (session.rs).
LEMMA SessionsGo == ASSUME PowerInv, NEW c \in Clients, SessionEnds(c) \/ SessionGone(c) PROVE PowerInv'
<1> DEFINE o == client[c]
<1>1. o \in ClientRecs /\ Attached(o) /\ open \in Nat /\ untold \in Nat
  BY FS_CardinalityType DEF PowerInv, PowerType, Counts
<1>2. CASE SessionEnds(c)
  <2> DEFINE r == [NoSession EXCEPT !.at = "closing", !.after = o.after]
  <2>1. r \in ClientRecs /\ r.at = "closing" /\ r.feed = "none" /\ ~r.counted /\ r.stream = "none" /\ r.after = o.after
    BY <1>1, NothingGiven DEF NoSession, ClientRecs
  <2>2. o.at = "open" /\ Turns(c, r)
    BY <1>2 DEF SessionEnds, Turns
  <2>3. open' = open + Change(o.at # "none", r.at # "none") /\ untold' = untold + Change(o.counted, r.counted)
    BY <1>1, <1>2, <2>1, <2>2 DEF SessionEnds, Change, Uncounted
  <2> HIDE DEF r
  <2>4. Attached(r)
    BY <2>1 DEF Attached
  <2> QED
    BY <2>1, <2>2, <2>3, <2>4, <1>2, ClientMoves DEF SessionEnds
<1>3. CASE SessionGone(c)
  <2> DEFINE r == NoSession
  <2>1. r \in ClientRecs /\ r.at = "none" /\ r.feed = "none" /\ ~r.counted /\ r.stream = "none"
    BY NothingGiven DEF NoSession, ClientRecs
  <2>2. o.at = "closing" /\ ~o.counted /\ Turns(c, r)
    BY <1>1, <1>3 DEF SessionGone, Turns, Attached
  <2>3. open' = open + Change(o.at # "none", r.at # "none") /\ untold' = untold + Change(o.counted, r.counted)
    BY <1>1, <1>3, <2>1, <2>2 DEF SessionGone, Change
  <2> HIDE DEF r
  <2>4. Attached(r)
    BY <2>1 DEF Attached
  <2> QED
    BY <2>1, <2>2, <2>3, <2>4, <1>3, ClientMoves DEF SessionGone
<1> QED
  BY <1>2, <1>3

\* A power stream comes and goes.
LEMMA StreamsMove ==
    ASSUME PowerInv, NEW c \in Clients, StreamOpens(c) \/ StreamCloses(c) \/ AcceptedNotSent(c)
    PROVE  PowerInv'
<1> DEFINE o == client[c]
<1>1. o \in ClientRecs /\ Attached(o) /\ open \in Nat /\ untold \in Nat
  BY FS_CardinalityType DEF PowerInv, PowerType, Counts
<1>2. PICK w \in {"asking", "closed"}, a \in {o.asks, Nothing} :
        /\ Turns(c, [o EXCEPT !.stream = w, !.asks = a])
        /\ o.at = "open"
  <2>1. CASE StreamOpens(c) \/ StreamCloses(c)
    <3>1. \A w \in {"asking", "closed"} : [o EXCEPT !.stream = w] = [o EXCEPT !.stream = w, !.asks = o.asks]
      BY <1>1 DEF ClientRecs
    <3> QED
      BY <3>1, <2>1, <1>1 DEF StreamOpens, StreamCloses, Turns, Attached
  <2>2. CASE AcceptedNotSent(c)
    BY <2>2, <1>1 DEF AcceptedNotSent, Turns, Attached
  <2> QED
    BY <2>1, <2>2
<1> DEFINE r == [o EXCEPT !.stream = w, !.asks = a]
<1>3. r \in ClientRecs /\ r.at = o.at /\ r.feed = o.feed /\ r.counted = o.counted /\ r.stream = w /\ r.after = o.after
  BY <1>1, NothingGiven DEF ClientRecs
<1>4. UNCHANGED <<accepted, going, untold, ending, open, goer>>
  BY DEF StreamOpens, StreamCloses, AcceptedNotSent
<1>5. open' = open + Change(o.at # "none", r.at # "none") /\ untold' = untold + Change(o.counted, r.counted)
  BY <1>1, <1>3, <1>4 DEF Change
<1>6. Turns(c, r)
  BY <1>2
<1> HIDE DEF r
<1>7. Attached(r)
  BY <1>1, <1>2, <1>3 DEF Attached
<1> QED
  BY <1>1, <1>3, <1>4, <1>5, <1>6, <1>7, ClientMoves DEF Attached

\* One act is taken at a time, and a task begun for it alone.
LEMMA ActTaken ==
    ASSUME PowerInv, NEW c \in Clients, NEW what \in {"restart", "reboot", "power-off"}, Asks(c, what)
    PROVE  PowerInv'
<1> DEFINE o == client[c]
<1>0. PowerType /\ Counts /\ OneAct /\ Announced /\ AllWaitedFor /\ \A d \in Clients : Attached(client[d])
  BY DEF PowerInv
<1>1. o \in ClientRecs /\ Attached(o)
  BY <1>0 DEF PowerType
<1>2. CASE UNCHANGED <<accepted, client>>
  <2>1. PowerType' /\ (\A d \in Clients : Attached(client'[d]))
    BY <1>0, <1>2 DEF PowerType, Asks
  <2>2. Counts'
    BY <1>0, <1>2 DEF Counts, Feeds, Sessions, Asks
  <2>3. OneAct' /\ Announced' /\ AllWaitedFor'
    BY <1>0, <1>2 DEF OneAct, Announced, AllWaitedFor, Waited, Asks
  <2> QED
    BY <2>1, <2>2, <2>3 DEF PowerInv
<1>3. CASE ~UNCHANGED <<accepted, client>>
  <2> DEFINE g == [act |-> what, cause |-> "manual-control"]  r == [o EXCEPT !.stream = "taken", !.asks = g]
  <2>1. accepted = Nothing /\ accepted' = g /\ Turns(c, r) /\ UNCHANGED <<going, untold, ending, open, goer>>
    BY <1>3 DEF Asks, Take, Turns
  <2>2. g \in Given /\ g # Nothing
    BY DEF Given, Nothing
  <2>3. r \in ClientRecs /\ r.at = o.at /\ r.feed = o.feed /\ r.counted = o.counted /\ r.stream = "taken"
        /\ r.after = o.after /\ r.asks = g /\ o.stream = "asking"
    BY <1>1, <2>2 DEF ClientRecs, Asks
  <2> HIDE DEF g, r
  <2>4. client'[c] = r /\ \A d \in Clients : d # c => client'[d] = client[d]
    BY <1>0, <2>1 DEF Turns, PowerType
  <2>5. PowerType'
    BY <1>0, <2>1, <2>2, <2>3 DEF PowerType, Turns
  <2>6. \A d \in Clients : Attached(client'[d])
    BY <1>0, <1>1, <2>3, <2>4 DEF Attached
  <2>7. Counts'
    <3>1. \A d \in Clients : client'[d].counted = client[d].counted /\ client'[d].at = client[d].at
      BY <2>3, <2>4
    <3>2. Feeds(client') = Feeds(client) /\ Sessions(client') = Sessions(client)
      BY <3>1 DEF Feeds, Sessions
    <3> QED
      BY <3>2, <1>0, <2>1 DEF Counts
  <2>8. goer.at = "idle" /\ \A d \in Clients : client[d].stream # "taken"
    BY <1>0, <2>1 DEF OneAct
  <2>9. OneAct'
    BY <2>1, <2>2, <2>3, <2>4, <2>8, <1>0 DEF OneAct
  <2>10. Announced'
    BY <1>0, <2>1 DEF Announced
  <2>11. AllWaitedFor'
    BY <1>0, <2>1, <2>3, <2>4 DEF AllWaitedFor, Waited
  <2> QED
    BY <2>5, <2>6, <2>7, <2>9, <2>10, <2>11 DEF PowerInv
<1> QED
  BY <1>2, <1>3

\* The stream that was answered begins the task (power.rs, go).
LEMMA TaskBegun ==
    ASSUME PowerInv, NEW c \in Clients, AcceptedSent(c)
    PROVE  PowerInv'
<1> DEFINE o == client[c]  r == [o EXCEPT !.stream = "asking", !.asks = Nothing]
           n == [at |-> "begun", does |-> o.asks, late |-> {}]
<1>0. PowerType /\ Counts /\ OneAct /\ Announced /\ AllWaitedFor /\ \A d \in Clients : Attached(client[d])
  BY DEF PowerInv
<1>1. o \in ClientRecs /\ Attached(o) /\ o.stream = "taken"
  BY <1>0 DEF PowerType, AcceptedSent
<1>2. goer' = n /\ Turns(c, r) /\ UNCHANGED <<accepted, going, untold, ending, open>>
  BY DEF AcceptedSent, Goes, Turns
<1>3. r \in ClientRecs /\ r.at = o.at /\ r.feed = o.feed /\ r.counted = o.counted /\ r.stream = "asking"
      /\ r.after = o.after
  BY <1>1, NothingGiven DEF ClientRecs
<1>4. n \in GoerRecs /\ n.at = "begun" /\ n.does = o.asks
  BY <1>1 DEF ClientRecs, GoerRecs
<1> HIDE DEF r, n
<1>5. client'[c] = r /\ \A d \in Clients : d # c => client'[d] = client[d]
  BY <1>0, <1>2 DEF Turns, PowerType
<1>6. PowerType'
  BY <1>0, <1>2, <1>3, <1>4 DEF PowerType, Turns
<1>7. \A d \in Clients : Attached(client'[d])
  BY <1>0, <1>1, <1>3, <1>5 DEF Attached
<1>8. Counts'
  <2>1. \A d \in Clients : client'[d].counted = client[d].counted /\ client'[d].at = client[d].at
    BY <1>3, <1>5
  <2>2. Feeds(client') = Feeds(client) /\ Sessions(client') = Sessions(client)
    BY <2>1 DEF Feeds, Sessions
  <2> QED
    BY <2>2, <1>0, <1>2 DEF Counts
<1>9. OneAct'
  BY <1>0, <1>1, <1>2, <1>3, <1>4, <1>5 DEF OneAct
<1>10. Announced' /\ AllWaitedFor'
  BY <1>0, <1>1, <1>2, <1>4 DEF OneAct, Announced, AllWaitedFor, Waited
<1> QED
  BY <1>6, <1>7, <1>8, <1>9, <1>10 DEF PowerInv

\* What moves no client and no count.
LEMMA TaskMoves ==
    ASSUME PowerInv, UNCHANGED <<client, untold, open>>, accepted' \in Given, goer' \in GoerRecs, ending' \in BOOLEAN,
           OneAct', Announced', AllWaitedFor'
    PROVE  PowerInv'
<1>1. Counts /\ PowerType /\ \A c \in Clients : Attached(client[c])
  BY DEF PowerInv
<1>2. Counts'
  BY <1>1 DEF Counts, Feeds, Sessions
<1>3. PowerType' /\ \A c \in Clients : Attached(client'[c])
  BY <1>1 DEF PowerType
<1> QED
  BY <1>2, <1>3 DEF PowerInv

\* The backup supply has the device power off as a client would
\* (power.rs).
LEMMA BatteryTaken == ASSUME PowerInv, LowBattery PROVE PowerInv'
<1> DEFINE g == [act |-> "power-off", cause |-> "low-battery"]  n == [at |-> "begun", does |-> g, late |-> {}]
<1>0. PowerType /\ OneAct /\ Announced /\ AllWaitedFor
  BY DEF PowerInv
<1>1. CASE UNCHANGED <<accepted, goer>>
  <2>1. OneAct' /\ Announced' /\ AllWaitedFor'
    BY <1>0, <1>1 DEF OneAct, Announced, AllWaitedFor, Waited, LowBattery
  <2> QED
    BY <2>1, <1>0, <1>1, TaskMoves DEF PowerType, LowBattery
<1>2. CASE ~UNCHANGED <<accepted, goer>>
  <2>1. accepted = Nothing /\ accepted' = g /\ goer' = n /\ UNCHANGED <<going, untold, ending, open, client>>
    BY <1>2 DEF LowBattery, Take, Goes
  <2>2. g \in Given /\ g # Nothing
    BY DEF Given, Nothing
  <2>3. n \in GoerRecs /\ n.at = "begun" /\ n.does = g
    BY <2>2 DEF GoerRecs
  <2> HIDE DEF g, n
  <2>4. OneAct'
    BY <1>0, <2>1, <2>2, <2>3 DEF OneAct
  <2>5. goer.at = "idle"
    BY <1>0, <2>1 DEF OneAct
  <2>6. Announced' /\ AllWaitedFor'
    BY <1>0, <2>1, <2>3, <2>5 DEF Announced, AllWaitedFor, Waited
  <2> QED
    BY <1>0, <2>1, <2>2, <2>3, <2>4, <2>6, TaskMoves DEF PowerType
<1> QED
  BY <1>1, <1>2

\* The task tells every feed, ends every session, and has the act done.
LEMMA TaskTells ==
    ASSUME PowerInv, Tells \/ EndsSessions \/ \E late \in BOOLEAN : Told(late) \/ Closed(late)
    PROVE  PowerInv'
<1>0. PowerType /\ OneAct /\ Announced /\ AllWaitedFor /\ Counts
  BY DEF PowerInv
<1>1. CASE Tells
  <2> DEFINE n == [goer EXCEPT !.at = "telling"]
  <2>1. goer' = n /\ going' = goer.does /\ goer.at = "begun" /\ UNCHANGED <<accepted, untold, ending, open, client>>
    BY <1>1 DEF Tells
  <2>2. n \in GoerRecs /\ n.at = "telling" /\ n.does = goer.does /\ n.late = goer.late
    BY <1>0 DEF PowerType, GoerRecs
  <2> HIDE DEF n
  <2>3. OneAct' /\ Announced' /\ AllWaitedFor'
    BY <1>0, <2>1, <2>2 DEF OneAct, Announced, AllWaitedFor, Waited
  <2> QED
    BY <1>0, <2>1, <2>2, <2>3, TaskMoves DEF PowerType
<1>2. ASSUME NEW late \in BOOLEAN, Told(late) PROVE PowerInv'
  <2> DEFINE n == [goer EXCEPT !.at = "told", !.late = IF late THEN {"tell"} ELSE {}]
  <2>1. goer' = n /\ goer.at = "telling" /\ UNCHANGED <<accepted, going, untold, ending, open, client>>
    BY <1>2 DEF Told
  <2>2. n \in GoerRecs /\ n.at = "told" /\ n.does = goer.does /\ n.late = IF late THEN {"tell"} ELSE {}
    BY <1>0 DEF PowerType, GoerRecs
  <2> HIDE DEF n
  <2>3. "tell" \notin n.late => \A c \in Clients : ~client[c].counted
    <3> SUFFICES ASSUME "tell" \notin n.late PROVE Feeds(client) = {}
      BY DEF Feeds
    <3>1. untold = 0
      BY <1>2, <2>2 DEF Told, NoneUntold
    <3> QED
      BY <3>1, <1>0, FS_EmptySet DEF Counts
  <2>4. OneAct' /\ Announced' /\ AllWaitedFor'
    BY <1>0, <2>1, <2>2, <2>3 DEF OneAct, Announced, AllWaitedFor, Waited
  <2> QED
    BY <1>0, <2>1, <2>2, <2>4, TaskMoves DEF PowerType
<1>3. ASSUME NEW late \in BOOLEAN, Closed(late) PROVE PowerInv'
  <2> DEFINE n == [goer EXCEPT !.at = "carrying", !.late = @ \cup IF late THEN {"close"} ELSE {}]
  <2>1. goer' = n /\ goer.at = "closing" /\ UNCHANGED <<accepted, going, untold, ending, open, client>>
    BY <1>3 DEF Closed
  <2>2. n \in GoerRecs /\ n.at = "carrying" /\ n.does = goer.does
        /\ n.late = goer.late \cup IF late THEN {"close"} ELSE {}
    BY <1>0 DEF PowerType, GoerRecs
  <2> HIDE DEF n
  <2>3. "close" \notin n.late => \A c \in Clients : client[c].at = "none"
    <3> SUFFICES ASSUME "close" \notin n.late PROVE Sessions(client) = {}
      BY DEF Sessions
    <3>1. open = 0
      BY <1>3, <2>2 DEF Closed
    <3> QED
      BY <3>1, <1>0, FS_EmptySet DEF Counts
  <2>4. OneAct' /\ Announced'
    BY <1>0, <2>1, <2>2 DEF OneAct, Announced
  <2>5. AllWaitedFor'
    BY <1>0, <2>1, <2>2, <2>3 DEF AllWaitedFor, Waited
  <2> QED
    BY <1>0, <2>1, <2>2, <2>4, <2>5, TaskMoves DEF PowerType
<1>4. CASE EndsSessions
  <2> DEFINE n == [goer EXCEPT !.at = "closing"]
  <2>1. goer' = n /\ ending' = TRUE /\ goer.at = "told" /\ UNCHANGED <<accepted, going, untold, open, client>>
    BY <1>4 DEF EndsSessions
  <2>2. n \in GoerRecs /\ n.at = "closing" /\ n.does = goer.does /\ n.late = goer.late
    BY <1>0 DEF PowerType, GoerRecs
  <2> HIDE DEF n
  <2>3. OneAct' /\ Announced' /\ AllWaitedFor'
    BY <1>0, <2>1, <2>2 DEF OneAct, Announced, AllWaitedFor, Waited
  <2> QED
    BY <1>0, <2>1, <2>2, <2>3, TaskMoves DEF PowerType
<1> QED
  BY <1>1, <1>2, <1>3, <1>4

\* The act is carried out, or cannot be and is given up (power.rs).
LEMMA TaskEnds == ASSUME PowerInv, CarriedOut \/ NotCarriedOut PROVE PowerInv'
<1>0. PowerType /\ OneAct /\ Announced /\ AllWaitedFor
  BY DEF PowerInv
<1>1. CASE CarriedOut
  <2> DEFINE n == [goer EXCEPT !.at = "gone"]
  <2>1. goer' = n /\ goer.at = "carrying" /\ UNCHANGED <<accepted, going, untold, ending, open, client>>
    BY <1>1 DEF CarriedOut
  <2>2. n \in GoerRecs /\ n.at = "gone" /\ n.does = goer.does /\ n.late = goer.late
    BY <1>0 DEF PowerType, GoerRecs
  <2> HIDE DEF n
  <2>3. OneAct' /\ Announced' /\ AllWaitedFor'
    BY <1>0, <2>1, <2>2 DEF OneAct, Announced, AllWaitedFor, Waited
  <2> QED
    BY <1>0, <2>1, <2>2, <2>3, TaskMoves DEF PowerType
<1>2. CASE NotCarriedOut
  <2>1. goer.at = "carrying" /\ goer' = Idle /\ going' = Nothing /\ ending' = FALSE /\ accepted' = Nothing
        /\ UNCHANGED <<untold, open, client>>
    BY <1>2 DEF NotCarriedOut
  <2>2. Idle \in GoerRecs /\ Idle.at = "idle"
    BY NothingGiven DEF Idle, GoerRecs
  <2>3. \A c \in Clients : client[c].stream # "taken"
    BY <1>0, <2>1 DEF OneAct
  <2>4. OneAct' /\ Announced' /\ AllWaitedFor'
    BY <2>1, <2>2, <2>3 DEF OneAct, Announced, AllWaitedFor, Waited
  <2> QED
    BY <2>1, <2>2, <2>4, NothingGiven, TaskMoves
<1> QED
  BY <1>1, <1>2

\* Every step of going away keeps its invariant.
LEMMA PowerStep == PowerInv /\ [PowerNext]_powerVars => PowerInv'
<1> SUFFICES ASSUME PowerInv, [PowerNext]_powerVars PROVE PowerInv'
  OBVIOUS
<1>1. CASE UNCHANGED powerVars
  <2>1. PowerType /\ OneAct /\ Announced /\ AllWaitedFor
    BY DEF PowerInv
  <2>2. UNCHANGED <<accepted, going, untold, ending, open, goer, client>>
    BY <1>1 DEF powerVars
  <2>3. OneAct' /\ Announced' /\ AllWaitedFor'
    BY <2>1, <2>2 DEF OneAct, Announced, AllWaitedFor, Waited
  <2> QED
    BY <2>1, <2>2, <2>3, TaskMoves DEF PowerType
<1>2. CASE PowerNext
  BY <1>2, SessionsCome, SessionsGo, FeedsGo, StreamsMove, ActTaken, TaskBegun, BatteryTaken, TaskTells, TaskEnds
  DEF PowerNext
<1> QED
  BY <1>1, <1>2

\* What GoesAsTold says follows from the invariant.
LEMMA PowerHolds == PowerInv => GoesAsTold
<1> SUFFICES ASSUME PowerInv PROVE GoesAsTold
  OBVIOUS
<1>1. PowerType /\ Counts /\ OneAct /\ Announced /\ AllWaitedFor
  BY DEF PowerInv
<1>2. CountsHold
  BY <1>1 DEF Counts, Feeds, Sessions, CountsHold
<1>3. goer.at # "idle" => accepted = goer.does /\ going \in {Nothing, goer.does}
  BY <1>1 DEF OneAct, Announced
<1>4. accepted = Nothing => goer = Idle /\ going = Nothing /\ ~ending
  BY <1>1 DEF OneAct, Announced
<1> QED
  BY <1>1, <1>2, <1>3, <1>4 DEF GoesAsTold, AllWaitedFor

\* power.rs and session.rs, for any number of clients: one act is accepted
\* at a time, every feed is told of it and every session ended before it
\* is carried out but those waited for too long, and the numbers waited
\* for are those there are.
THEOREM GoneAsTold == PowerSpec => []GoesAsTold
<1> QED
  BY PowerStarts, PowerStep, PowerHolds, PTL DEF PowerSpec

\* The default feed.
Batches == [slow : BOOLEAN, entries : SUBSET Sampled, ended : SUBSET Sampled]
FeedRecs ==
    [at : {"none", "first", "live"}, last : SUBSET FactNames, holds : SUBSET (FactNames \cup Sampled),
     live : Seq(Batches), missed : SUBSET {"entries", "ended"}]

FeedType == current \subseteq Sampled /\ here \subseteq FactNames /\ feeds \in [Streams -> FeedRecs]

\* The last batch of a queue to say anything of an entry has it, or ends
\* it, and is the one numbered.
LastHas(q, j, k) == k \in q[j].entries /\ \A l \in 1..Len(q) : l >= j => k \notin q[l].ended
LastEnds(q, j, k) == k \in q[j].ended /\ \A l \in 1..Len(q) : l >= j => k \notin q[l].entries

\* A reader that takes in its queue will hold the entry; it may hold it on
\* the way.
WillHold(h, q, k) ==
    \/ k \in h /\ \A l \in 1..Len(q) : k \notin q[l].ended
    \/ \E j \in 1..Len(q) : LastHas(q, j, k)
MayHold(h, q, k) == k \in h \/ \E i \in 1..Len(q) : k \in q[i].entries
WillDrop(h, q, k) == MayHold(h, q, k) => \E j \in 1..Len(q) : LastEnds(q, j, k)

\* What a queue holds: nothing a batch both has and ends, and all there is
\* from each slow batch on.
QueueIs(q, cur) ==
    /\ \A i \in 1..Len(q) : q[i].entries \cap q[i].ended = {}
    /\ \A i \in 1..Len(q) : q[i].slow => \A k \in cur : \E j \in i..Len(q) : LastHas(q, j, k)
FeedIs(f, cur) ==
    /\ f.at # "live" => f.live = <<>>
    /\ f.holds \cap FactNames = f.last
    /\ QueueIs(f.live, cur)
    /\ f.at # "none" /\ "entries" \notin f.missed => \A k \in cur : WillHold(f.holds, f.live, k)
    /\ f.at # "none" /\ "ended" \notin f.missed => \A k \in Sampled \ cur : WillDrop(f.holds, f.live, k)

OneServed ==
    /\ \A s \in Streams : feeds[s].at # "none" => s \in served
    /\ \A s, t \in served : SessionOf[s] = SessionOf[t] => s = t

FeedInv == FeedType /\ (\A s \in Streams : FeedIs(feeds[s], current)) /\ OneServed

\* No feed is there, and nothing has been sampled (sampler.rs).
LEMMA FeedStarts == FeedInit => FeedInv
<1> SUFFICES ASSUME FeedInit PROVE FeedInv
  OBVIOUS
<1>1. NoFeed \in FeedRecs
  <2>1. <<>> \in Seq(Batches)
    OBVIOUS
  <2> QED
    BY <2>1 DEF NoFeed, FeedRecs
<1>2. FeedType
  BY <1>1 DEF FeedInit, FeedType
<1>3. \A s \in Streams : FeedIs(feeds[s], current)
  BY DEF FeedInit, NoFeed, FeedIs, QueueIs, WillDrop, MayHold
<1>4. OneServed
  BY DEF FeedInit, NoFeed, OneServed
<1> QED
  BY <1>2, <1>3, <1>4 DEF FeedInv

\* A batch a tick sends, and what the sampler holds after it.
TickOf(b, cur, next) ==
    /\ b \in Batches /\ cur \subseteq Sampled /\ next \subseteq Sampled
    /\ b.slow => b.entries = next /\ b.ended = cur \ next
    /\ ~b.slow => next = cur \cup b.entries /\ b.ended = {}

\* A batch at the end of a queue says the last of what it says.
LEMMA QueuePushed ==
    ASSUME NEW q \in Seq(Batches), NEW b, NEW cur, NEW next, TickOf(b, cur, next), QueueIs(q, cur), NEW h
    PROVE  /\ QueueIs(Append(q, b), next)
           /\ (\A k \in cur : WillHold(h, q, k)) => \A k \in next : WillHold(h, Append(q, b), k)
           /\ (\A k \in Sampled \ cur : WillDrop(h, q, k)) =>
                  \A k \in Sampled \ next : WillDrop(h, Append(q, b), k)
<1> DEFINE r == Append(q, b)  n == Len(q)
<1>1. b \in Batches /\ n \in Nat
  BY DEF TickOf
<1>2. Len(r) = n + 1 /\ (\A i \in 1..n : r[i] = q[i]) /\ r[n + 1] = b
  BY <1>1, AppendProperties
<1> HIDE DEF r, n
<1>3. b.entries \cap b.ended = {}
  BY DEF TickOf, Batches
<1>4. \A k \in b.entries : LastHas(r, n + 1, k)
  BY <1>1, <1>2, <1>3 DEF LastHas
<1>5. \A k \in next : k \in b.entries \/ (k \in cur /\ ~b.slow /\ b.ended = {})
  BY DEF TickOf, Batches
<1>6. ASSUME NEW k, NEW j \in 1..n, LastHas(q, j, k), k \notin b.ended
      PROVE  LastHas(r, j, k)
  BY <1>1, <1>2, <1>6 DEF LastHas, n
<1>7. QueueIs(r, next)
  <2>1. \A i \in 1..Len(r) : r[i].entries \cap r[i].ended = {}
    BY <1>1, <1>2, <1>3 DEF QueueIs, n
  <2>2. ASSUME NEW i \in 1..Len(r), r[i].slow, NEW k \in next
        PROVE  \E j \in i..Len(r) : LastHas(r, j, k)
    <3>1. CASE k \in b.entries
      BY <3>1, <1>1, <1>2, <1>4
    <3>2. CASE k \in cur /\ ~b.slow /\ b.ended = {}
      <4>1. i \in 1..n /\ q[i].slow
        BY <3>2, <2>2, <1>1, <1>2
      <4>2. PICK j \in i..n : LastHas(q, j, k)
        BY <3>2, <4>1 DEF QueueIs, n
      <4>3. j \in 1..n /\ j \in i..Len(r)
        BY <4>1, <4>2, <1>1, <1>2
      <4> QED
        BY <4>2, <4>3, <3>2, <1>6
    <3> QED
      BY <3>1, <3>2, <1>5
  <2> QED
    BY <2>1, <2>2 DEF QueueIs
<1>8. ASSUME \A k \in cur : WillHold(h, q, k), NEW k \in next
      PROVE  WillHold(h, r, k)
  <2>1. CASE k \in b.entries
    BY <2>1, <1>1, <1>2, <1>4 DEF WillHold
  <2>2. CASE k \in cur /\ b.ended = {}
    <3>1. CASE k \in h /\ \A l \in 1..n : k \notin q[l].ended
      BY <3>1, <2>2, <1>1, <1>2 DEF WillHold
    <3>2. CASE \E j \in 1..n : LastHas(q, j, k)
      BY <3>2, <2>2, <1>1, <1>2, <1>6 DEF WillHold
    <3> QED
      BY <1>8, <2>2, <3>1, <3>2 DEF WillHold, n
  <2> QED
    BY <2>1, <2>2, <1>5
<1>9. ASSUME \A k \in Sampled \ cur : WillDrop(h, q, k), NEW k \in Sampled \ next
      PROVE  WillDrop(h, r, k)
  <2>1. k \notin b.entries
    BY <1>9 DEF TickOf, Batches
  <2>2. CASE k \in cur
    <3>1. k \in b.ended
      BY <1>9, <2>2 DEF TickOf, Batches
    <3>2. LastEnds(r, n + 1, k)
      BY <3>1, <2>1, <1>1, <1>2 DEF LastEnds
    <3> QED
      BY <3>2, <1>1, <1>2 DEF WillDrop
  <2>3. CASE k \notin cur /\ MayHold(h, r, k)
    <3>1. MayHold(h, q, k)
      BY <2>1, <2>3, <1>1, <1>2 DEF MayHold, n
    <3>2. PICK j \in 1..n : LastEnds(q, j, k)
      BY <1>9, <2>3, <3>1 DEF WillDrop, n
    <3>3. LastEnds(r, j, k)
      BY <3>2, <2>1, <1>1, <1>2 DEF LastEnds, n
    <3> QED
      BY <3>3, <1>1, <1>2 DEF WillDrop
  <2> QED
    BY <2>2, <2>3 DEF WillDrop
<1> QED
  BY <1>7, <1>8, <1>9 DEF r

\* What is said last of an entry is said last in what follows the head.
LEMMA TailSays ==
    ASSUME NEW q \in Seq(Batches), q # <<>>, NEW j \in 2..Len(q), NEW k
    PROVE  /\ j - 1 \in 1..Len(Tail(q))
           /\ LastHas(q, j, k) => LastHas(Tail(q), j - 1, k)
           /\ LastEnds(q, j, k) => LastEnds(Tail(q), j - 1, k)
<1> DEFINE r == Tail(q)  n == Len(q)
<1>1. n \in Nat \ {0} /\ Len(r) = n - 1 /\ (\A i \in 1..Len(r) : r[i] = q[i + 1])
  BY HeadTailProperties
<1> HIDE DEF r
<1>2. j - 1 \in 1..Len(r) /\ r[j - 1] = q[j]
  BY <1>1
<1>3. \A l \in 1..Len(r) : l >= j - 1 => l + 1 \in 1..n /\ l + 1 >= j /\ r[l] = q[l + 1]
  BY <1>1
<1>4. /\ LastHas(q, j, k) => LastHas(r, j - 1, k)
      /\ LastEnds(q, j, k) => LastEnds(r, j - 1, k)
  BY <1>2, <1>3 DEF LastHas, LastEnds
<1> QED
  BY <1>2, <1>4 DEF r

\* A queue without its head, which is written or lost, is as it should be.
LEMMA QueueGoesOn ==
    ASSUME NEW q \in Seq(Batches), q # <<>>, NEW cur, QueueIs(q, cur)
    PROVE  /\ QueueIs(Tail(q), cur)
           /\ Tail(q) \in Seq(Batches) /\ Head(q) \in Batches /\ Head(q).entries \cap Head(q).ended = {}
           /\ Len(q) \in Nat \ {0} /\ Len(Tail(q)) = Len(q) - 1 /\ Head(q) = q[1]
           /\ \A i \in 1..Len(Tail(q)) : Tail(q)[i] = q[i + 1]
<1> DEFINE r == Tail(q)  n == Len(q)
<1>1. n \in Nat \ {0} /\ r \in Seq(Batches) /\ Len(r) = n - 1 /\ (\A i \in 1..Len(r) : r[i] = q[i + 1])
      /\ Head(q) = q[1] /\ Head(q) \in Batches
  BY HeadTailProperties
<1>2. \A i \in 1..Len(r) : i + 1 \in 1..n /\ r[i] = q[i + 1]
  BY <1>1
<1>3. \A i \in 1..Len(r) : r[i].entries \cap r[i].ended = {}
  BY <1>2 DEF QueueIs
<1>4. ASSUME NEW i \in 1..Len(r), r[i].slow, NEW k \in cur
      PROVE  \E j \in i..Len(r) : LastHas(r, j, k)
  <2>1. PICK j \in (i + 1)..n : LastHas(q, j, k)
    BY <1>2, <1>4 DEF QueueIs
  <2>2. j \in 2..n /\ j - 1 \in i..Len(r)
    BY <2>1, <1>1
  <2>3. LastHas(r, j - 1, k)
    BY <2>1, <2>2, TailSays
  <2> QED
    BY <2>2, <2>3
<1>5. Head(q).entries \cap Head(q).ended = {}
  BY <1>1 DEF QueueIs
<1>6. QueueIs(r, cur)
  BY <1>3, <1>4 DEF QueueIs
<1> QED
  BY <1>1, <1>5, <1>6 DEF r

\* Taking in the head of its queue, a reader will hold what it would have
\* held, and drop what it would have dropped.
LEMMA QueueWritten ==
    ASSUME NEW q \in Seq(Batches), q # <<>>, NEW cur, QueueIs(q, cur), NEW h, NEW k
    PROVE  /\ WillHold(h, q, k) \/ (Head(q).slow /\ k \in cur) => WillHold(TakesIn(h, Head(q)), Tail(q), k)
           /\ WillDrop(h, q, k) => WillDrop(TakesIn(h, Head(q)), Tail(q), k)
<1> DEFINE r == Tail(q)  n == Len(q)  m == TakesIn(h, Head(q))
<1>1. n \in Nat \ {0} /\ Len(r) = n - 1 /\ (\A i \in 1..Len(r) : r[i] = q[i + 1]) /\ Head(q) = q[1]
  BY QueueGoesOn
<1>2. k \in m <=> (k \in h \/ k \in q[1].entries) /\ k \notin q[1].ended
  BY <1>1 DEF TakesIn
<1>3. ASSUME NEW j \in 1..n, LastHas(q, j, k) PROVE WillHold(m, r, k)
  <2>1. CASE j = 1
    <3>1. k \in q[1].entries /\ \A l \in 1..n : k \notin q[l].ended
      BY <2>1, <1>3 DEF LastHas
    <3>2. k \in m /\ \A l \in 1..Len(r) : k \notin r[l].ended
      BY <3>1, <1>1, <1>2
    <3> QED
      BY <3>2 DEF WillHold
  <2>2. CASE j # 1
    <3>1. j \in 2..n
      BY <2>2, <1>1
    <3>2. j - 1 \in 1..Len(r) /\ LastHas(r, j - 1, k)
      BY <3>1, <1>3, TailSays
    <3> QED
      BY <3>2 DEF WillHold
  <2> QED
    BY <2>1, <2>2
<1>4. ASSUME WillHold(h, q, k) PROVE WillHold(m, r, k)
  <2>1. CASE k \in h /\ \A l \in 1..n : k \notin q[l].ended
    <3>1. k \in m /\ \A l \in 1..Len(r) : k \notin r[l].ended
      BY <2>1, <1>1, <1>2
    <3> QED
      BY <3>1 DEF WillHold
  <2> QED
    BY <2>1, <1>3, <1>4 DEF WillHold
<1>5. ASSUME Head(q).slow, k \in cur PROVE WillHold(m, r, k)
  <2>1. \E j \in 1..n : LastHas(q, j, k)
    BY <1>1, <1>5 DEF QueueIs
  <2> QED
    BY <2>1, <1>3
<1>6. ASSUME WillDrop(h, q, k), MayHold(m, r, k) PROVE \E j \in 1..Len(r) : LastEnds(r, j, k)
  <2>1. MayHold(h, q, k)
    BY <1>1, <1>2, <1>6 DEF MayHold
  <2>2. PICK j \in 1..n : LastEnds(q, j, k)
    BY <2>1, <1>6 DEF WillDrop
  <2>3. j # 1
    <3> SUFFICES ASSUME j = 1 PROVE FALSE
      OBVIOUS
    <3>1. k \in q[1].ended /\ \A l \in 1..n : k \notin q[l].entries
      BY <2>2 DEF LastEnds
    <3> QED
      BY <3>1, <1>1, <1>2, <1>6 DEF MayHold
  <2>4. j \in 2..n
    BY <2>3, <1>1
  <2> QED
    BY <2>2, <2>4, TailSays
<1> QED
  BY <1>4, <1>5, <1>6 DEF WillDrop

\* What was lost at the head of a queue is missed, and nothing else is.
LEMMA QueueLost ==
    ASSUME NEW q \in Seq(Batches), q # <<>>, NEW cur, QueueIs(q, cur), NEW h, NEW k,
           Head(q).ended = {}, WillDrop(h, q, k)
    PROVE  WillDrop(h, Tail(q), k)
<1> DEFINE r == Tail(q)  n == Len(q)
<1>1. n \in Nat \ {0} /\ Len(r) = n - 1 /\ (\A i \in 1..Len(r) : r[i] = q[i + 1]) /\ Head(q) = q[1]
  BY QueueGoesOn
<1>2. SUFFICES ASSUME MayHold(h, r, k) PROVE \E j \in 1..Len(r) : LastEnds(r, j, k)
  BY DEF WillDrop
<1>3. MayHold(h, q, k)
  BY <1>1, <1>2 DEF MayHold
<1>4. PICK j \in 1..n : LastEnds(q, j, k)
  BY <1>3 DEF WillDrop
<1>5. j \in 2..n
  BY <1>1, <1>4 DEF LastEnds
<1> QED
  BY <1>4, <1>5, TailSays
-----------------------------------------------------------------------------
\* A batch added to a queue that has not fallen too far behind.
LEMMA FeedPushed ==
    ASSUME NEW f \in FeedRecs, NEW b, NEW cur, NEW next, TickOf(b, cur, next), FeedIs(f, cur), f.at = "live",
           NEW g, g = [f EXCEPT !.live = Append(@, b)]
    PROVE  g \in FeedRecs /\ FeedIs(g, next)
<1>1. f.live \in Seq(Batches) /\ b \in Batches /\ Append(f.live, b) \in Seq(Batches)
  BY DEF FeedRecs, TickOf
<1>2. g \in FeedRecs /\ g.at = f.at /\ g.last = f.last /\ g.holds = f.holds /\ g.live = Append(f.live, b)
      /\ g.missed = f.missed
  BY <1>1 DEF FeedRecs
<1>3. QueueIs(f.live, cur)
  BY DEF FeedIs
<1>4. /\ QueueIs(g.live, next)
      /\ (\A k \in cur : WillHold(f.holds, f.live, k)) => \A k \in next : WillHold(g.holds, g.live, k)
      /\ (\A k \in Sampled \ cur : WillDrop(f.holds, f.live, k)) =>
             \A k \in Sampled \ next : WillDrop(g.holds, g.live, k)
  BY <1>1, <1>2, <1>3, QueuePushed
<1> QED
  BY <1>2, <1>4 DEF FeedIs

\* The oldest batch lost by one that has.
LEMMA FeedLoses ==
    ASSUME NEW f \in FeedRecs, NEW cur, FeedIs(f, cur), f.at = "live", f.live # <<>>,
           NEW g, g = [f EXCEPT !.live = Tail(@), !.missed = @ \cup Lost(Head(f.live))]
    PROVE  g \in FeedRecs /\ FeedIs(g, cur)
<1>1. f.live \in Seq(Batches) /\ QueueIs(f.live, cur)
  BY DEF FeedRecs, FeedIs
<1>2. QueueIs(Tail(f.live), cur) /\ Tail(f.live) \in Seq(Batches)
  BY <1>1, QueueGoesOn
<1>3. g \in FeedRecs /\ g.at = f.at /\ g.last = f.last /\ g.holds = f.holds /\ g.live = Tail(f.live)
      /\ g.missed = f.missed \cup Lost(Head(f.live))
  BY <1>2 DEF FeedRecs, Lost
<1>4. "entries" \in g.missed
  BY <1>3 DEF Lost
<1>5. ASSUME "ended" \notin g.missed, NEW k \in Sampled \ cur
      PROVE  WillDrop(g.holds, g.live, k)
  <2>1. Head(f.live).ended = {} /\ "ended" \notin f.missed
    BY <1>3, <1>5 DEF Lost
  <2>2. WillDrop(f.holds, f.live, k)
    BY <2>1, <1>5 DEF FeedIs
  <2> QED
    BY <2>1, <2>2, <1>1, <1>3, QueueLost
<1> QED
  BY <1>2, <1>3, <1>4, <1>5 DEF FeedIs

\* A subscriber receives a batch; one serving what it sends first, or
\* serving nothing, does not.
Receiving(f, b) ==
    CASE f.at = "live" -> Receives(f, b)
      [] f.at = "first" -> [f EXCEPT !.missed = @ \cup Lost(b)]
      [] OTHER -> f
\* A feed takes in a batch sent to all of them, or loses its oldest
\* (session.rs, the live broadcast).
LEMMA FeedReceives ==
    ASSUME NEW f \in FeedRecs, NEW b, NEW cur, NEW next, TickOf(b, cur, next), FeedIs(f, cur)
    PROVE  Receiving(f, b) \in FeedRecs /\ FeedIs(Receiving(f, b), next)
<1> DEFINE g == Receiving(f, b)
<1>1. CASE f.at = "live" /\ ~Lags(f)
  <2>1. g = [f EXCEPT !.live = Append(@, b)]
    BY <1>1 DEF Receiving, Receives
  <2> QED
    BY <2>1, <1>1, FeedPushed
<1>2. CASE f.at = "live" /\ Lags(f)
  <2> DEFINE e == [f EXCEPT !.live = Tail(@), !.missed = @ \cup Lost(Head(f.live))]
  <2>1. f.live # <<>>
    BY <1>2, FeedAssumption DEF Lags
  <2>2. e \in FeedRecs /\ FeedIs(e, cur)
    BY <2>1, <1>2, FeedLoses
  <2>3. e.at = "live" /\ g = [e EXCEPT !.live = Append(@, b)]
    BY <1>2 DEF Receiving, Receives, FeedRecs
  <2> HIDE DEF e, g
  <2>4. g \in FeedRecs /\ FeedIs(g, next)
    BY <2>2, <2>3, FeedPushed
  <2> QED
    BY <2>4 DEF g
<1>3. CASE f.at = "first"
  <2>1. g = [f EXCEPT !.missed = @ \cup Lost(b)]
    BY <1>3 DEF Receiving
  <2>2. g \in FeedRecs /\ g.at = "first" /\ g.last = f.last /\ g.holds = f.holds /\ g.live = <<>> /\ f.live = <<>>
        /\ g.missed = f.missed \cup Lost(b)
    BY <2>1, <1>3 DEF FeedRecs, Lost, FeedIs
  <2> HIDE DEF g
  <2>3. "entries" \in g.missed
    BY <2>2 DEF Lost
  <2>4. ASSUME "ended" \notin g.missed PROVE cur \subseteq next /\ "ended" \notin f.missed
    BY <2>2, <2>4 DEF Lost, TickOf, Batches
  <2>5. ASSUME "ended" \notin g.missed, NEW k \in Sampled \ next PROVE WillDrop(g.holds, <<>>, k)
    <3>1. WillDrop(f.holds, <<>>, k)
      BY <2>2, <2>4, <2>5, <1>3 DEF FeedIs
    <3> QED
      BY <3>1, <2>2
  <2>6. FeedIs(g, next)
    <3>1. QueueIs(<<>>, next) /\ f.holds \cap FactNames = f.last
      BY DEF QueueIs, FeedIs
    <3> QED
      BY <3>1, <2>2, <2>3, <2>5 DEF FeedIs
  <2> QED
    BY <2>2, <2>6 DEF g
<1>4. CASE f.at \notin {"live", "first"}
  <2>1. g = f /\ f.at = "none" /\ f.live = <<>>
    BY <1>4 DEF Receiving, FeedRecs, FeedIs
  <2> QED
    BY <2>1 DEF FeedIs, QueueIs
<1> QED
  BY <1>1, <1>2, <1>3, <1>4
-----------------------------------------------------------------------------
\* A tick: what it sends is received by every feed.
LEMMA TickKeeps == ASSUME FeedInv, NEW found \in SUBSET Sampled, Ticks(found) PROVE FeedInv'
<1> DEFINE b == [slow |-> IsSlow, entries |-> found, ended |-> EndedAt(IsSlow, found)]
<1>1. FeedType /\ OneServed /\ \A s \in Streams : FeedIs(feeds[s], current)
  BY DEF FeedInv
<1>2. TickOf(b, current, current')
  <2>1. IsSlow \in BOOLEAN
    BY DEF IsSlow
  <2>2. current' = (current \ Before(IsSlow)) \cup found
    BY DEF Ticks, Samples
  <2> QED
    BY <2>1, <2>2, <1>1 DEF TickOf, Batches, EndedAt, Before, FeedType
<1>3. feeds' = [s \in Streams |-> Receiving(feeds[s], b)]
  BY DEF Ticks, Samples, Sends, Receiving
<1> HIDE DEF b
<1>4. ASSUME NEW s \in Streams
      PROVE  feeds'[s] \in FeedRecs /\ FeedIs(feeds'[s], current')
  <2>1. feeds[s] \in FeedRecs /\ FeedIs(feeds[s], current)
    BY <1>1 DEF FeedType
  <2> QED
    BY <2>1, <1>2, <1>3, FeedReceives
<1>5. FeedType'
  BY <1>1, <1>2, <1>3, <1>4 DEF FeedType, TickOf, Ticks
<1>6. \A s \in Streams : feeds'[s].at = feeds[s].at
  BY <1>1, <1>3 DEF Receiving, Receives, FeedType, FeedRecs
<1>7. OneServed'
  BY <1>1, <1>6 DEF OneServed, Ticks
<1> QED
  BY <1>4, <1>5, <1>7 DEF FeedInv

\* What is forgotten is missed by every feed, for none of it is sent.
LEMMA ResumeKeeps == ASSUME FeedInv, Resumes PROVE FeedInv'
<1>1. FeedType /\ OneServed /\ \A s \in Streams : FeedIs(feeds[s], current)
  BY DEF FeedInv
<1>2. ASSUME NEW s \in Streams
      PROVE  feeds'[s] \in FeedRecs /\ FeedIs(feeds'[s], current') /\ feeds'[s].at = feeds[s].at
  <2> DEFINE f == feeds[s]  g == [f EXCEPT !.missed = @ \cup {"ended"}]
  <2>1. f \in FeedRecs /\ FeedIs(f, current) /\ current' = {}
    BY <1>1 DEF FeedType, Resumes
  <2>2. feeds'[s] = IF f.at = "none" THEN f ELSE g
    BY DEF Resumes
  <2>3. g \in FeedRecs /\ g.at = f.at /\ g.last = f.last /\ g.holds = f.holds /\ g.live = f.live
        /\ g.missed = f.missed \cup {"ended"}
    BY <2>1 DEF FeedRecs
  <2> HIDE DEF f, g
  <2>4. FeedIs(g, {}) /\ (f.at = "none" => FeedIs(f, {}))
    BY <2>1, <2>3 DEF FeedIs, QueueIs
  <2> QED
    BY <2>1, <2>2, <2>3, <2>4 DEF f
<1>3. FeedType'
  BY <1>1, <1>2 DEF FeedType, Resumes
<1>4. OneServed'
  BY <1>1, <1>2 DEF OneServed, Resumes
<1> QED
  BY <1>2, <1>3, <1>4 DEF FeedInv

\* A step that moves one feed, and leaves the sampler and the facts as
\* they are.
LEMMA FeedMoves ==
    ASSUME FeedInv, NEW s \in Streams, NEW g \in FeedRecs, feeds' = [feeds EXCEPT ![s] = g],
           UNCHANGED <<current, here>>, FeedIs(g, current), OneServed'
    PROVE  FeedInv'
<1>1. FeedType /\ \A t \in Streams : FeedIs(feeds[t], current)
  BY DEF FeedInv
<1>2. feeds'[s] = g /\ \A t \in Streams : t # s => feeds'[t] = feeds[t]
  BY <1>1 DEF FeedType
<1>3. FeedType'
  BY <1>1 DEF FeedType
<1> QED
  BY <1>1, <1>2, <1>3 DEF FeedInv

\* A stream without a feed keeps nothing.
LEMMA NoFeedIs == NoFeed \in FeedRecs /\ NoFeed.at = "none" /\ FeedIs(NoFeed, current)
<1>1. <<>> \in Seq(Batches)
  OBVIOUS
<1> QED
  BY <1>1 DEF NoFeed, FeedRecs, FeedIs, QueueIs

\* A topic is claimed, with what there is; subscribed to; and released.
LEMMA ClaimKeeps == ASSUME FeedInv, NEW s \in Streams, TopicClaimed(s) PROVE FeedInv'
<1> DEFINE g == [NoFeed EXCEPT !.at = "first", !.last = here, !.holds = here \cup current]
<1>1. FeedType /\ OneServed
  BY DEF FeedInv
<1>2. g \in FeedRecs /\ g.at = "first" /\ g.last = here /\ g.holds = here \cup current /\ g.live = <<>>
  BY <1>1, NoFeedIs DEF FeedType, FeedRecs, NoFeed
<1>3. feeds' = [feeds EXCEPT ![s] = g]
  BY DEF TopicClaimed
<1> HIDE DEF g
<1>4. \A k \in current : k \in g.holds
  BY <1>2
<1>5. \A k \in Sampled \ current : k \notin g.holds
  BY <1>1, <1>2, FeedAssumption DEF FeedType, Sampled
<1>6. g.holds \cap FactNames = g.last
  BY <1>1, <1>2, FeedAssumption DEF FeedType, Sampled
<1>7. FeedIs(g, current)
  BY <1>2, <1>4, <1>5, <1>6 DEF FeedIs, QueueIs, WillHold, WillDrop, MayHold
<1>8. OneServed'
  <2>1. \A t \in Streams : t # s => feeds'[t] = feeds[t]
    BY <1>1, <1>3 DEF FeedType
  <2>2. served' = served \cup {s} /\ \A t \in served : SessionOf[t] # SessionOf[s]
    BY DEF TopicClaimed, Claimed
  <2> QED
    BY <2>1, <2>2, <1>1 DEF OneServed
<1> QED
  BY <1>2, <1>3, <1>7, <1>8, FeedMoves DEF TopicClaimed

\* The first batch is written, of what was there when the topic was
\* claimed (session.rs).
LEMMA SubscribeKeeps == ASSUME FeedInv, NEW s \in Streams, FirstBatchWritten(s) PROVE FeedInv'
<1> DEFINE f == feeds[s]  g == [f EXCEPT !.at = "live"]
<1>1. FeedType /\ OneServed /\ f \in FeedRecs /\ FeedIs(f, current) /\ f.at = "first"
  BY DEF FeedInv, FeedType, FirstBatchWritten
<1>2. g \in FeedRecs /\ g.at = "live" /\ g.last = f.last /\ g.holds = f.holds /\ g.live = f.live /\ g.missed = f.missed
  BY <1>1 DEF FeedRecs
<1>3. feeds' = [feeds EXCEPT ![s] = g]
  BY DEF FirstBatchWritten
<1> HIDE DEF f, g
<1>4. FeedIs(g, current)
  BY <1>1, <1>2 DEF FeedIs
<1>5. OneServed'
  BY <1>1, <1>3 DEF OneServed, FirstBatchWritten, FeedType, f
<1> QED
  BY <1>2, <1>3, <1>4, <1>5, FeedMoves DEF FirstBatchWritten

\* The topic is given back for the next stream to claim.
LEMMA ReleaseKeeps == ASSUME FeedInv, NEW s \in Streams, TopicReleased(s) PROVE FeedInv'
<1>1. FeedType /\ OneServed
  BY DEF FeedInv
<1>2. \A t \in Streams : t # s => feeds'[t] = feeds[t]
  BY <1>1 DEF FeedType, TopicReleased
<1>3. feeds'[s].at = "none" /\ served' = served \ {s}
  BY <1>1, NoFeedIs DEF FeedType, TopicReleased
<1>4. OneServed'
  BY <1>1, <1>2, <1>3 DEF OneServed
<1> QED
  BY <1>4, NoFeedIs, FeedMoves DEF TopicReleased

\* A batch written, and the facts of a feed sent anew.
LEMMA WriteKeeps == ASSUME FeedInv, NEW s \in Streams, Writes(s) PROVE FeedInv'
<1> DEFINE f == feeds[s]  q == f.live  b == Head(q)
           g == [f EXCEPT !.live = Tail(@), !.holds = TakesIn(@, b),
                          !.missed = IF b.slow THEN @ \ {"entries"} ELSE @]
<1>1. FeedType /\ OneServed /\ f \in FeedRecs /\ FeedIs(f, current) /\ f.at = "live" /\ q # <<>>
  BY DEF FeedInv, FeedType, Writes, FeedIs
<1>2. q \in Seq(Batches) /\ QueueIs(q, current)
  BY <1>1 DEF FeedRecs, FeedIs
<1>3. Tail(q) \in Seq(Batches) /\ b \in Batches /\ QueueIs(Tail(q), current)
  BY <1>1, <1>2, QueueGoesOn
<1>4. g.at = "live" /\ g.last = f.last /\ g.holds = TakesIn(f.holds, b) /\ g.live = Tail(q)
      /\ g.missed = IF b.slow THEN f.missed \ {"entries"} ELSE f.missed
  BY <1>1 DEF FeedRecs
<1>5. b.entries \subseteq Sampled /\ b.ended \subseteq Sampled
  BY <1>3 DEF Batches
<1>6. g \in FeedRecs
  BY <1>1, <1>3, <1>5 DEF FeedRecs, TakesIn
<1>7. feeds' = [feeds EXCEPT ![s] = g]
  BY DEF Writes
<1>8. ASSUME "entries" \notin g.missed, NEW k \in current PROVE WillHold(g.holds, g.live, k)
  <2>1. b.slow \/ WillHold(f.holds, q, k)
    BY <1>1, <1>4, <1>8 DEF FeedIs
  <2>2. WillHold(TakesIn(f.holds, b), Tail(q), k)
    BY <2>1, <1>1, <1>2, <1>8, QueueWritten
  <2> QED
    BY <2>2, <1>4
<1>9. ASSUME "ended" \notin g.missed, NEW k \in Sampled \ current PROVE WillDrop(g.holds, g.live, k)
  <2>1. WillDrop(f.holds, q, k)
    BY <1>1, <1>4, <1>9 DEF FeedIs
  <2> QED
    BY <2>1, <1>1, <1>2, <1>4, QueueWritten
<1>10. g.holds \cap FactNames = g.last
  BY <1>1, <1>4, <1>5, FeedAssumption DEF FeedIs, TakesIn, Sampled
<1>11. f = feeds[s]
  OBVIOUS
<1> HIDE DEF f, g, q
<1>12. FeedIs(g, current)
  BY <1>3, <1>4, <1>8, <1>9, <1>10 DEF FeedIs
<1>13. OneServed'
  BY <1>1, <1>4, <1>7, <1>11 DEF OneServed, Writes, FeedType
<1> QED
  BY <1>6, <1>7, <1>12, <1>13, FeedMoves DEF Writes

\* The facts that changed are sent, and no others (session.rs).
LEMMA FactsKeep == ASSUME FeedInv, NEW s \in Streams, FactsDue(s) PROVE FeedInv'
<1> DEFINE f == feeds[s]  m == TakesIn(f.holds, ChangedFacts(s))  g == [f EXCEPT !.last = here, !.holds = m]
<1>1. FeedType /\ OneServed /\ f \in FeedRecs /\ FeedIs(f, current) /\ f.at = "live"
  BY DEF FeedInv, FeedType, FactsDue
<1>2. m = (f.holds \cup here) \ (f.last \ here)
  BY DEF TakesIn, ChangedFacts
<1>3. g.at = "live" /\ g.last = here /\ g.holds = m /\ g.live = f.live /\ g.missed = f.missed
  BY <1>1 DEF FeedRecs
<1>4. g \in FeedRecs
  BY <1>1, <1>2 DEF FeedRecs, FeedType
<1>5. feeds' = [feeds EXCEPT ![s] = g]
  BY DEF FactsDue
<1>6. \A k \in Sampled : k \in m <=> k \in f.holds
  BY <1>1, <1>2, FeedAssumption DEF FeedType, FeedRecs, Sampled
<1>7. m \cap FactNames = here
  BY <1>1, <1>2 DEF FeedType, FeedIs
<1>8. f = feeds[s] /\ current \subseteq Sampled
  BY <1>1 DEF FeedType
<1> HIDE DEF f, g, m
<1>9. \A k \in Sampled : /\ WillHold(f.holds, f.live, k) => WillHold(g.holds, g.live, k)
                         /\ WillDrop(f.holds, f.live, k) => WillDrop(g.holds, g.live, k)
  BY <1>3, <1>6 DEF WillHold, WillDrop, MayHold
<1>10. FeedIs(g, current)
  BY <1>1, <1>3, <1>7, <1>8, <1>9 DEF FeedIs
<1>11. OneServed'
  BY <1>1, <1>3, <1>5, <1>8 DEF OneServed, FactsDue, FeedType
<1> QED
  BY <1>4, <1>5, <1>10, <1>11, FeedMoves DEF FactsDue

\* A session's streams close with it.
LEMMA CloseKeeps == ASSUME FeedInv, NEW n, SessionCloses(n) PROVE FeedInv'
<1>1. FeedType /\ OneServed /\ \A s \in Streams : FeedIs(feeds[s], current)
  BY DEF FeedInv
<1>2. \A s \in Streams : feeds'[s] = IF SessionOf[s] = n THEN NoFeed ELSE feeds[s]
  BY DEF SessionCloses
<1>3. FeedType'
  BY <1>1, NoFeedIs DEF FeedType, SessionCloses
<1>4. \A s \in Streams : FeedIs(feeds'[s], current')
  BY <1>1, <1>2, NoFeedIs DEF SessionCloses
<1>5. OneServed'
  BY <1>1, <1>2, NoFeedIs DEF OneServed, SessionCloses
<1> QED
  BY <1>3, <1>4, <1>5 DEF FeedInv

\* What touches no feed and no entry keeps the invariant.
LEMMA FeedQuiet ==
    ASSUME FeedInv, UNCHANGED <<current, served, feeds>>, here' \subseteq FactNames
    PROVE  FeedInv'
<1>1. \A s \in Streams : FeedIs(feeds[s], current)
  BY DEF FeedInv
<1>2. \A s \in Streams : FeedIs(feeds'[s], current')
  BY <1>1
<1> QED
  BY <1>2 DEF FeedInv, FeedType, OneServed

\* Every step of the sampler and its feeds keeps the invariant.
LEMMA FeedStep == FeedInv /\ [FeedNext]_feedVars => FeedInv'
<1> SUFFICES ASSUME FeedInv, [FeedNext]_feedVars PROVE FeedInv'
  OBVIOUS
<1>1. here \subseteq FactNames
  BY DEF FeedInv, FeedType
<1>2. CASE UNCHANGED feedVars \/ Stops \/ \E n \in {SessionOf[s] : s \in Streams} : SessionOpens(n)
  BY <1>1, <1>2, FeedQuiet DEF feedVars, Stops, SessionOpens
<1>3. CASE \E f \in FactNames : FactChanges(f)
  BY <1>1, <1>3, FeedQuiet DEF FactChanges
<1> QED
  BY <1>2, <1>3, TickKeeps, ResumeKeeps, CloseKeeps, ClaimKeeps, SubscribeKeeps, WriteKeeps, FactsKeep, ReleaseKeeps
  DEF FeedNext

\* What ReaderHolds says follows: a feed with nothing left to write has
\* told its reader what there is.
LEMMA FeedHolds == FeedInv => ReaderHolds
<1> SUFFICES ASSUME FeedInv PROVE ReaderHolds
  OBVIOUS
<1>1. \A s \in Streams : FeedIs(feeds[s], current)
  BY DEF FeedInv
<1>2. FeedType /\ OneServed
  BY DEF FeedInv
<1>3. ASSUME NEW s \in Streams, CaughtUp(s), "entries" \notin feeds[s].missed PROVE current \subseteq Kept(s)
  <2>1. \A k \in current : WillHold(feeds[s].holds, <<>>, k)
    BY <1>1, <1>3 DEF FeedIs, CaughtUp
  <2>2. \A k \in current : k \in feeds[s].holds
    BY <2>1 DEF WillHold
  <2> QED
    BY <2>2, <1>2 DEF Kept, FeedType
<1>4. ASSUME NEW s \in Streams, CaughtUp(s), "ended" \notin feeds[s].missed PROVE Kept(s) \subseteq current
  <2>1. \A k \in Sampled \ current : WillDrop(feeds[s].holds, <<>>, k)
    BY <1>1, <1>4 DEF FeedIs, CaughtUp
  <2>2. \A k \in Sampled \ current : k \notin feeds[s].holds
    BY <2>1 DEF WillDrop, MayHold
  <2> QED
    BY <2>2 DEF Kept
<1>5. \A s \in Streams : feeds[s].at = "live" => feeds[s].holds \cap FactNames = feeds[s].last
  BY <1>1 DEF FeedIs
<1>6. \A s, t \in Streams : feeds[s].at # "none" /\ feeds[t].at # "none" /\ SessionOf[s] = SessionOf[t] => s = t
  BY <1>2 DEF OneServed
<1> QED
  BY <1>3, <1>4, <1>5, <1>6 DEF ReaderHolds

\* session.rs:452 and sampler.rs, for any streams, entries and facts: once
\* it has read what was sent, a reader holds all the sampler holds where
\* it missed none of it, and nothing more where it missed no ending; it
\* holds the facts last looked at; and a session's topic is served on one
\* stream.
THEOREM ReaderHeld == FeedSpec => []ReaderHolds
<1> QED
  BY FeedStarts, FeedStep, FeedHolds, PTL DEF FeedSpec

\* Tailscale.
Names == {"sign-in", "turn-on", "turn-off", "log-out", "netcheck", "ping"}
Tailnets == {NotAny, "ours", "other"}
DaemonRecs == [state : Known, tailnet : Tailnets, joined : Tailnets, asked : BOOLEAN]
SeenRecs == [state : Known \cup {"broken"}, tailnet : Tailnets]
ActRecs ==
    [at : {NotAny, "accepting", "calling", "waiting", "refusing"}, act : Names \cup {NotAny},
     method : {NotAny, "auth-key", "login-link"}, by : Watchers \cup {NotAny, "gone"}]
TailscaleType ==
    /\ ts \in DaemonRecs /\ seen \in SeenRecs /\ act \in ActRecs /\ stray \in BOOLEAN
    /\ watching \in [Watchers -> [open : BOOLEAN, listed : SUBSET Names]]

\* The act under way holds the slot, and one without its stream waits on
\* no one outside.
SlotHeld ==
    /\ slot = act.act
    /\ act.at = NotAny <=> act.act = NotAny
    /\ act.at = NotAny => act = NoAct
    /\ act.by = "gone" => ~WaitsOnSomeone(act) /\ act.at # "accepting"
    /\ act.by \in Watchers => watching[act.by].open

\* A sign-in begins on a device signed out, and nothing but it joins a
\* tailnet: so what is named of one while it waits is what it joined.
SigningIn == act.at = "waiting" /\ act.act = "sign-in"
SignedOut == {"needs-login", "expired"}
InSignIn == act.act = "sign-in" /\ act.at \in {"waiting", "refusing"}
SignInOnly ==
    /\ Elsewhere => InSignIn
    /\ ts.asked => SigningIn /\ ts.state = "needs-login"
    /\ ~InSignIn /\ seen.state \in SignedOut => ts.state \in SignedOut
    /\ act.act = "sign-in" /\ act.at \in {"accepting", "calling"} =>
           ts.state \in SignedOut /\ seen.state \in SignedOut \cup {"broken"}
    /\ SigningIn /\ seen.state \in {"running", "needs-approval"} =>
           ts.state # "needs-login" /\ seen.tailnet \in {NotAny, ts.joined}
    /\ ts.tailnet \in {NotAny, ts.joined}

TailscaleInv == TailscaleType /\ SlotHeld /\ (~stray => SignInOnly)

LEMMA LoggedOutIs ==
    /\ LoggedOut \in DaemonRecs /\ LoggedOut.state = "needs-login"
    /\ LoggedOut.tailnet = NotAny /\ LoggedOut.joined = NotAny /\ ~LoggedOut.asked
BY DEF LoggedOut, DaemonRecs, Known, Tailnets

\* The daemon starts beside a tailscaled signed out, or in the tailnet it
\* may be in (state.rs).
LEMMA TailscaleStarts == TailscaleInit => TailscaleInv
<1> SUFFICES ASSUME TailscaleInit PROVE TailscaleInv
  OBVIOUS
<1>1. ts \in {LoggedOut} \cup {[state |-> s, tailnet |-> "ours", joined |-> "ours", asked |-> FALSE] : s \in {"stopped", "running"}}
  BY DEF TailscaleInit
<1>2. ts \in DaemonRecs /\ ~ts.asked /\ ts.tailnet = ts.joined
  <2>1. CASE ts = LoggedOut
    BY <2>1, LoggedOutIs
  <2>2. ASSUME NEW s \in {"stopped", "running"}, ts = [state |-> s, tailnet |-> "ours", joined |-> "ours", asked |-> FALSE]
        PROVE  ts \in DaemonRecs /\ ~ts.asked /\ ts.tailnet = ts.joined
    BY <2>2 DEF DaemonRecs, Known, Tailnets
  <2> QED
    BY <1>1, <2>1, <2>2
<1>3. seen = [state |-> ts.state, tailnet |-> ts.tailnet] /\ seen \in SeenRecs /\ seen.state = ts.state
  BY <1>2 DEF TailscaleInit, SeenRecs, DaemonRecs
<1>4. act = NoAct /\ NoAct \in ActRecs /\ act.at = NotAny /\ act.act = NotAny /\ act.by = NotAny
  BY DEF TailscaleInit, NoAct, ActRecs
<1>5. NotAny \notin Watchers /\ NotAny # "gone"
  BY TailscaleAssumption DEF NotAny
<1>6. TailscaleType
  BY <1>2, <1>3, <1>4 DEF TailscaleInit, TailscaleType
<1>7. SlotHeld
  BY <1>4, <1>5 DEF TailscaleInit, SlotHeld
<1>8. SignInOnly
  BY <1>2, <1>3, <1>4 DEF TailscaleInit, SignInOnly, Elsewhere, MayStart, InSignIn, SigningIn, NotAny
<1> QED
  BY <1>6, <1>7, <1>8 DEF TailscaleInv

\* What tailscaled does by itself, or has done to it.
LEMMA DaemonMoves ==
    ASSUME TailscaleInv, NEW net \in {"ours", "other"}, NEW s \in {"running", "needs-approval"},
           NEW named \in {"ours", "other", NotAny}, Joins(net, s, named) \/ ComesUp \/ Meddles
    PROVE  TailscaleInv'
<1>1. TailscaleType /\ SlotHeld /\ (~stray => SignInOnly)
  BY DEF TailscaleInv
<1>2. UNCHANGED <<seen, bus, slot, act, watching, stray>>
  BY DEF Joins, ComesUp, Meddles
<1>3. ts \in DaemonRecs
  BY <1>1 DEF TailscaleType
<1>4. CASE Joins(net, s, named)
  <2>1. ts' = [state |-> s, tailnet |-> named, joined |-> net, asked |-> FALSE] /\ ts.asked /\ named \in {NotAny, net}
    BY <1>4 DEF Joins
  <2>2. ts' \in DaemonRecs /\ ts'.state = s /\ ~ts'.asked /\ ts'.tailnet \in {NotAny, ts'.joined}
    BY <2>1 DEF DaemonRecs, Known, Tailnets
  <2>3. ~stray => SigningIn /\ ts.state = "needs-login"
    BY <1>1, <2>1 DEF SignInOnly
  <2>4. ~stray => seen.state \notin {"running", "needs-approval"}
    BY <1>1, <2>3 DEF SignInOnly
  <2>5. ~stray => SignInOnly'
    BY <1>1, <1>2, <2>2, <2>3, <2>4 DEF SignInOnly, SigningIn, InSignIn, Elsewhere
  <2>6. TailscaleType' /\ SlotHeld'
    BY <1>1, <1>2, <2>2 DEF TailscaleType, SlotHeld, WaitsOnSomeone
  <2> QED
    BY <1>2, <2>5, <2>6 DEF TailscaleInv
<1>5. CASE ComesUp \/ Meddles
  <2>1. PICK t \in Known \ {"needs-login"} :
            ts' = [ts EXCEPT !.state = t] \/ ts' = [ts EXCEPT !.state = t, !.tailnet = ts.joined]
    BY <1>5 DEF ComesUp, Meddles, Known
  <2>2. ts' \in DaemonRecs /\ ts'.state = t /\ ts'.joined = ts.joined /\ ts'.asked = ts.asked
        /\ ts'.tailnet \in {ts.tailnet, ts.joined}
    BY <1>3, <2>1 DEF DaemonRecs, Known
  <2>3. ts.state \notin SignedOut
    BY <1>5 DEF ComesUp, Meddles, SignedOut
  <2>4. ~stray => SignInOnly'
    BY <1>1, <1>2, <2>1, <2>2, <2>3 DEF SignInOnly, SigningIn, InSignIn, Elsewhere, SignedOut
  <2>5. TailscaleType' /\ SlotHeld'
    BY <1>1, <1>2, <2>2 DEF TailscaleType, SlotHeld, WaitsOnSomeone
  <2> QED
    BY <1>2, <2>4, <2>5 DEF TailscaleInv
<1> QED
  BY <1>4, <1>5

\* What the watcher publishes.
LEMMA WatcherMoves == ASSUME TailscaleInv, WatcherSees \/ BusCloses \/ Reconnects PROVE TailscaleInv'
<1>1. TailscaleType /\ SlotHeld /\ (~stray => SignInOnly) /\ ts \in DaemonRecs
  BY DEF TailscaleInv, TailscaleType
<1>2. UNCHANGED <<ts, slot, act, watching, stray>>
  BY DEF WatcherSees, BusCloses, Reconnects, Published
<1>3. seen' \in {BusLost, [state |-> ts.state, tailnet |-> ts.tailnet]}
  BY DEF WatcherSees, BusCloses, Reconnects, Published
<1>4. seen' \in SeenRecs /\ (seen'.state = "broken" \/ (seen'.state = ts.state /\ seen'.tailnet = ts.tailnet))
  BY <1>1, <1>3 DEF BusLost, SeenRecs, DaemonRecs, Tailnets
<1>5. ~stray => SignInOnly'
  BY <1>1, <1>2, <1>4 DEF SignInOnly, SigningIn, InSignIn, Elsewhere, SignedOut
<1>6. TailscaleType' /\ SlotHeld'
  BY <1>1, <1>2, <1>4 DEF TailscaleType, SlotHeld, WaitsOnSomeone
<1> QED
  BY <1>2, <1>5, <1>6 DEF TailscaleInv

\* Streams open, are told the acts there are, and ask for one.
LEMMA ListedNames == ASSUME NEW s PROVE Listed(s) \subseteq Names
BY DEF Listed, Names

\* A stream lists the acts of the state last published (acts.rs).
LEMMA StreamLists == ASSUME TailscaleInv, NEW w \in Watchers, TailscaleOpens(w) \/ Relists(w) PROVE TailscaleInv'
<1>1. TailscaleType /\ SlotHeld /\ (~stray => SignInOnly)
  BY DEF TailscaleInv
<1>2. UNCHANGED <<ts, seen, slot, act, stray>>
  BY DEF TailscaleOpens, Relists
<1>a. Listed(seen.state) \in SUBSET Names
  BY ListedNames
<1>b. TailscaleOpens(w) => watching' \in [Watchers -> [open : BOOLEAN, listed : SUBSET Names]]
  BY <1>1, <1>a DEF TailscaleOpens, TailscaleType
<1>c. Relists(w) => watching' \in [Watchers -> [open : BOOLEAN, listed : SUBSET Names]]
  <2> SUFFICES ASSUME Relists(w) PROVE watching' \in [Watchers -> [open : BOOLEAN, listed : SUBSET Names]]
    OBVIOUS
  <2>1. watching[w] \in [open : BOOLEAN, listed : SUBSET Names]
    BY <1>1 DEF TailscaleType
  <2>2. [watching[w] EXCEPT !.listed = Listed(seen.state)] \in [open : BOOLEAN, listed : SUBSET Names]
    BY <2>1, <1>a
  <2>3. watching' = [watching EXCEPT ![w] = [watching[w] EXCEPT !.listed = Listed(seen.state)]]
    BY DEF Relists
  <2> QED
    BY <1>1, <2>2, <2>3 DEF TailscaleType
<1>3. watching' \in [Watchers -> [open : BOOLEAN, listed : SUBSET Names]]
  BY <1>b, <1>c
<1>4. \A v \in Watchers : watching[v].open => watching'[v].open
  BY <1>1 DEF TailscaleOpens, Relists, TailscaleType
<1>5. ~stray => SignInOnly'
  BY <1>1, <1>2 DEF SignInOnly, SigningIn, InSignIn, Elsewhere
<1>6. TailscaleType' /\ SlotHeld'
  BY <1>1, <1>2, <1>3, <1>4 DEF TailscaleType, SlotHeld, WaitsOnSomeone
<1> QED
  BY <1>2, <1>5, <1>6 DEF TailscaleInv

\* An act is taken where it is listed and none is under way (acts.rs,
\* decide; Slot).
LEMMA StreamAsks ==
    ASSUME TailscaleInv, NEW w \in Watchers, NEW name \in Names, NEW m \in {NotAny, "auth-key", "login-link"},
           AsksTailscale(w, name, m)
    PROVE  TailscaleInv'
<1>1. TailscaleType /\ SlotHeld /\ (~stray => SignInOnly)
  BY DEF TailscaleInv
<1>2. UNCHANGED <<ts, seen, watching, stray>>
  BY DEF AsksTailscale
<1>3. CASE UNCHANGED <<slot, act>>
  BY <1>1, <1>2, <1>3 DEF TailscaleInv, TailscaleType, SlotHeld, WaitsOnSomeone, SignInOnly, SigningIn, InSignIn,
     Elsewhere
<1>4. CASE ~UNCHANGED <<slot, act>>
  <2>1. name \in Listed(seen.state) /\ slot = NotAny /\ slot' = name
        /\ act' = [at |-> "accepting", act |-> name, method |-> m, by |-> w]
    BY <1>4 DEF AsksTailscale
  <2>2. act' \in ActRecs /\ act'.at = "accepting" /\ act'.act = name /\ act'.by = w
    BY <2>1 DEF ActRecs
  <2>3. name # NotAny /\ w # "gone" /\ watching[w].open
    BY TailscaleAssumption DEF Names, NotAny, AsksTailscale
  <2>4. SlotHeld'
    BY <1>2, <2>1, <2>2, <2>3 DEF SlotHeld, NotAny
  <2>5. name = "sign-in" => seen.state \in SignedOut
    BY <2>1 DEF Listed, SignedOut
  <2>6. ~InSignIn /\ ~InSignIn' /\ ~SigningIn /\ ~SigningIn'
    BY <1>1, <2>1, <2>2 DEF SlotHeld, InSignIn, SigningIn, NotAny
  <2>7. ~stray => SignInOnly'
    BY <1>1, <1>2, <2>2, <2>5, <2>6 DEF SignInOnly, Elsewhere
  <2>8. TailscaleType'
    BY <1>1, <1>2, <2>2 DEF TailscaleType
  <2> QED
    BY <1>2, <2>4, <2>7, <2>8 DEF TailscaleInv
<1> QED
  BY <1>3, <1>4

\* The slot given back, by an act that leaves nothing signed in elsewhere,
\* or is said to have.
LEMMA GivenBack ==
    ASSUME TailscaleInv, GivesBack, UNCHANGED seen, stray' \in BOOLEAN, ts' \in DaemonRecs,
           watching' \in [Watchers -> [open : BOOLEAN, listed : SUBSET Names]],
           ~stray' => /\ ~Elsewhere' /\ ~ts'.asked /\ ts'.tailnet \in {NotAny, ts'.joined}
                      /\ seen.state \in SignedOut => ts'.state \in SignedOut
    PROVE  TailscaleInv'
<1>1. act' = NoAct /\ NoAct \in ActRecs /\ act'.at = NotAny /\ act'.act = NotAny /\ act'.by = NotAny /\ slot' = NotAny
  BY DEF GivesBack, NoAct, ActRecs
<1>2. NotAny \notin Watchers /\ NotAny # "gone"
  BY TailscaleAssumption DEF NotAny
<1>3. TailscaleType'
  BY <1>1 DEF TailscaleType, TailscaleInv
<1>4. SlotHeld'
  BY <1>1, <1>2 DEF SlotHeld
<1>5. ~stray' => SignInOnly'
  BY <1>1 DEF SignInOnly, InSignIn, SigningIn, NotAny
<1> QED
  BY <1>3, <1>4, <1>5 DEF TailscaleInv

\* The act moving on where it is, tailscaled and what is seen as they are.
LEMMA ActMoves ==
    ASSUME TailscaleInv, NEW at \in {"calling", "refusing"}, act' = [act EXCEPT !.at = at],
           UNCHANGED <<ts, seen, slot, watching, stray>>,
           \/ at = "calling" /\ act.at = "accepting"
           \/ at = "refusing" /\ SigningIn /\ seen.state \in {"running", "needs-approval"}
    PROVE  TailscaleInv'
<1>1. TailscaleType /\ SlotHeld /\ (~stray => SignInOnly)
  BY DEF TailscaleInv
<1>2. act' \in ActRecs /\ act'.at = at /\ act'.act = act.act /\ act'.method = act.method /\ act'.by = act.by
      /\ act.at # NotAny
  BY <1>1 DEF TailscaleType, ActRecs, SigningIn, NotAny
<1>3. TailscaleType'
  BY <1>1, <1>2 DEF TailscaleType
<1>4. SlotHeld'
  BY <1>1, <1>2 DEF SlotHeld, WaitsOnSomeone, NotAny
<1>5. ~stray => SignInOnly'
  BY <1>1, <1>2 DEF SignInOnly, InSignIn, SigningIn, Elsewhere, SignedOut
<1> QED
  BY <1>3, <1>4, <1>5 DEF TailscaleInv

\* An act that waits on someone outside ends with its stream; any other
\* goes on without it (run.rs).
LEMMA ActOutlivesStream ==
    ASSUME TailscaleInv, NEW w \in Watchers, TailscaleCloses(w) PROVE TailscaleInv'
<1>1. TailscaleType /\ SlotHeld /\ (~stray => SignInOnly)
  BY DEF TailscaleInv
<1>2. watching' \in [Watchers -> [open : BOOLEAN, listed : SUBSET Names]]
      /\ \A v \in Watchers : v # w => watching'[v] = watching[v]
  BY <1>1 DEF TailscaleCloses, TailscaleType
<1>3. UNCHANGED <<ts, seen>>
  BY DEF TailscaleCloses
<1>4. CASE act.by = w /\ (act.at = "accepting" \/ WaitsOnSomeone(act))
  <2>1. GivesBack /\ stray' = (stray \/ (act.act = "sign-in" /\ act.at # "accepting"))
    BY <1>4 DEF TailscaleCloses
  <2>2. ~stray' => ~stray /\ ~InSignIn /\ ~SigningIn
    BY <2>1 DEF InSignIn, SigningIn
  <2>3. ~stray' => ~Elsewhere' /\ ~ts'.asked /\ ts'.tailnet \in {NotAny, ts'.joined} /\ (seen.state \in SignedOut => ts'.state \in SignedOut)
    BY <1>1, <1>3, <2>2 DEF SignInOnly, Elsewhere
  <2>4. stray' \in BOOLEAN /\ ts' \in DaemonRecs
    BY <1>1, <1>3, <2>1 DEF TailscaleType
  <2> QED
    BY <1>2, <1>3, <2>1, <2>3, <2>4, GivenBack
<1>5. CASE act.by = w /\ ~(act.at = "accepting" \/ WaitsOnSomeone(act))
  <2>1. act' = [act EXCEPT !.by = "gone"] /\ UNCHANGED <<slot, stray>>
    BY <1>5 DEF TailscaleCloses
  <2>2. act' \in ActRecs /\ act'.at = act.at /\ act'.act = act.act /\ act'.method = act.method /\ act'.by = "gone"
    BY <1>1, <2>1 DEF TailscaleType, ActRecs
  <2>3. act.at # NotAny /\ "gone" \notin Watchers /\ NotAny \notin Watchers
    BY <1>1, <1>5, TailscaleAssumption DEF SlotHeld, NoAct, NotAny
  <2>4. SlotHeld'
    BY <1>1, <1>5, <2>1, <2>2, <2>3 DEF SlotHeld, WaitsOnSomeone
  <2>5. ~stray => SignInOnly'
    BY <1>1, <1>3, <2>2 DEF SignInOnly, InSignIn, SigningIn, Elsewhere
  <2> QED
    BY <1>1, <1>2, <1>3, <2>1, <2>2, <2>4, <2>5 DEF TailscaleInv, TailscaleType
<1>6. CASE act.by # w
  <2>1. UNCHANGED <<act, slot, stray>>
    BY <1>6 DEF TailscaleCloses
  <2>2. SlotHeld'
    BY <1>1, <1>2, <1>6, <2>1 DEF SlotHeld, WaitsOnSomeone
  <2>3. ~stray => SignInOnly'
    BY <1>1, <1>3, <2>1 DEF SignInOnly, InSignIn, SigningIn, Elsewhere
  <2> QED
    BY <1>1, <1>2, <1>3, <2>1, <2>2, <2>3 DEF TailscaleInv, TailscaleType
<1> QED
  BY <1>4, <1>5, <1>6

\* What a call does where it has its effect.
LEMMA DoesWhat ==
    ASSUME ts \in DaemonRecs, NEW name, NEW t, t = Does(name)
    PROVE  /\ t \in DaemonRecs
           /\ name = "sign-in" => t = [LoggedOut EXCEPT !.asked = TRUE]
           /\ name = "log-out" => t = LoggedOut
           /\ name \notin {"sign-in", "log-out"} =>
                  /\ t.tailnet = ts.tailnet /\ t.joined = ts.joined /\ t.asked = ts.asked
                  /\ ts.state \in SignedOut => t.state = ts.state
<1>1. CASE name = "sign-in"
  <2>1. t = [LoggedOut EXCEPT !.asked = TRUE]
    BY <1>1, Zenon DEF Does
  <2>2. t \in DaemonRecs
    BY <2>1, LoggedOutIs DEF DaemonRecs
  <2> QED
    BY <1>1, <2>1, <2>2
<1>2. CASE name = "log-out"
  <2>1. t = LoggedOut
    BY <1>2, Zenon DEF Does
  <2> QED
    BY <1>2, <2>1, LoggedOutIs
<1>3. CASE name \notin {"sign-in", "log-out"}
  <2>1. t \in {[ts EXCEPT !.state = IF @ = "stopped" THEN "starting" ELSE @],
               [ts EXCEPT !.state = IF @ \in {"running", "starting"} THEN "stopped" ELSE @], ts}
    BY <1>3, Zenon DEF Does
  <2>2. t \in DaemonRecs /\ t.tailnet = ts.tailnet /\ t.joined = ts.joined /\ t.asked = ts.asked
        /\ (ts.state \in SignedOut => t.state = ts.state)
    BY <2>1 DEF DaemonRecs, Known, SignedOut
  <2> QED
    BY <1>3, <2>2
<1> QED
  BY <1>1, <1>2, <1>3

\* What was asked of tailscaled, and what becomes of it.
LEMMA ActGoesOn ==
    ASSUME TailscaleInv, NEW ok \in BOOLEAN, ActAccepted \/ Called(ok) \/ TargetSeen \/ Refuses(ok) \/ TimesOut
    PROVE  TailscaleInv'
<1>1. TailscaleType /\ SlotHeld /\ (~stray => SignInOnly)
  BY DEF TailscaleInv
<1>2. ts \in DaemonRecs /\ seen \in SeenRecs /\ act \in ActRecs /\ stray \in BOOLEAN
      /\ watching \in [Watchers -> [open : BOOLEAN, listed : SUBSET Names]]
  BY <1>1 DEF TailscaleType
<1>3. CASE ActAccepted
  <2>1. act' = [act EXCEPT !.at = "calling"] /\ act.at = "accepting" /\ UNCHANGED <<ts, seen, slot, watching, stray>>
    BY <1>3 DEF ActAccepted
  <2> QED
    BY <2>1, ActMoves
<1>4. CASE Called(ok) /\ ~ok
  <2>1. GivesBack /\ act.at = "calling" /\ UNCHANGED <<seen, watching>>
    BY <1>4 DEF Called
  <2>2. CASE UNCHANGED <<ts, stray>>
    <3>1. ~stray => ~Elsewhere' /\ ~ts'.asked /\ ts'.tailnet \in {NotAny, ts'.joined} /\ (seen.state \in SignedOut => ts'.state \in SignedOut)
      BY <1>1, <2>1, <2>2 DEF SignInOnly, InSignIn, SigningIn, Elsewhere
    <3> QED
      BY <1>2, <2>1, <2>2, <3>1, GivenBack
  <2>3. CASE ~UNCHANGED <<ts, stray>>
    <3>1. ts' = Does(act.act) /\ stray' = (act.act = "sign-in" \/ (stray /\ act.act # "log-out"))
      BY <1>4, <2>3 DEF Called
    <3>2. stray' \in BOOLEAN /\ ts' \in DaemonRecs
      BY <1>2, <3>1, DoesWhat
    <3>3. CASE act.act = "log-out"
      <4>1. ts' = LoggedOut
        BY <1>2, <3>1, <3>3, DoesWhat
      <4>2. ~Elsewhere' /\ ~ts'.asked /\ ts'.tailnet \in {NotAny, ts'.joined} /\ (seen.state \in SignedOut => ts'.state \in SignedOut)
        BY <4>1, LoggedOutIs DEF Elsewhere, SignedOut
      <4> QED
        BY <1>2, <2>1, <3>2, <4>2, GivenBack
    <3>4. CASE act.act # "log-out"
      <4>1. ~stray' => ~stray /\ act.act \notin {"sign-in", "log-out"}
        BY <3>1, <3>4
      <4>2. ~stray' => ts'.tailnet = ts.tailnet /\ ts'.joined = ts.joined /\ ts'.asked = ts.asked
                       /\ (ts.state \in SignedOut => ts'.state = ts.state)
        BY <1>2, <3>1, <4>1, DoesWhat
      <4>3. ~stray' => ~Elsewhere' /\ ~ts'.asked /\ ts'.tailnet \in {NotAny, ts'.joined} /\ (seen.state \in SignedOut => ts'.state \in SignedOut)
        BY <1>1, <2>1, <4>1, <4>2 DEF SignInOnly, InSignIn, SigningIn, Elsewhere
      <4> QED
        BY <1>2, <2>1, <3>2, <4>3, GivenBack
    <3> QED
      BY <3>3, <3>4
  <2> QED
    BY <2>2, <2>3
<1>5. CASE Called(ok) /\ ok
  <2>1. act.at = "calling" /\ ts' = Does(act.act) /\ act' = [act EXCEPT !.at = "waiting"]
        /\ UNCHANGED <<seen, slot, watching>>
        /\ stray' = IF act.act = "sign-in" THEN stray ELSE stray /\ act.act # "log-out"
    BY <1>5 DEF Called
  <2>2. act' \in ActRecs /\ act'.at = "waiting" /\ act'.act = act.act /\ act'.method = act.method /\ act'.by = act.by
    BY <1>2, <2>1 DEF ActRecs
  <2>3. SlotHeld'
    BY <1>1, <2>1, <2>2 DEF SlotHeld, WaitsOnSomeone, NotAny
  <2>4. ts' \in DaemonRecs /\ stray' \in BOOLEAN /\ (~stray' => SignInOnly')
    <3>0. ts' \in DaemonRecs /\ stray' \in BOOLEAN
      BY <1>2, <2>1, DoesWhat
    <3>1. CASE act.act = "sign-in"
      <4>1. ts' = [LoggedOut EXCEPT !.asked = TRUE] /\ stray' = stray
        BY <1>2, <2>1, <3>1, DoesWhat
      <4>2. ts'.state = "needs-login" /\ ts'.tailnet = NotAny /\ ts'.joined = NotAny
        BY <4>1 DEF LoggedOut
      <4>3. ~stray => seen.state \in SignedOut \cup {"broken"}
        BY <1>1, <2>1, <3>1 DEF SignInOnly
      <4> QED
        BY <2>1, <2>2, <3>0, <3>1, <4>1, <4>2, <4>3 DEF SignInOnly, InSignIn, SigningIn, Elsewhere, SignedOut
    <3>2. CASE act.act = "log-out"
      <4>1. ts' = LoggedOut
        BY <1>2, <2>1, <3>2, DoesWhat
      <4> QED
        BY <2>1, <2>2, <3>0, <3>2, <4>1, LoggedOutIs DEF SignInOnly, InSignIn, SigningIn, Elsewhere, SignedOut
    <3>3. CASE act.act \notin {"sign-in", "log-out"}
      <4>1. ts'.tailnet = ts.tailnet /\ ts'.joined = ts.joined /\ ts'.asked = ts.asked /\ stray' = stray
            /\ (ts.state \in SignedOut => ts'.state = ts.state)
        BY <1>2, <2>1, <3>3, DoesWhat
      <4> QED
        BY <1>1, <2>1, <2>2, <3>0, <3>3, <4>1 DEF SignInOnly, InSignIn, SigningIn, Elsewhere
    <3> QED
      BY <3>1, <3>2, <3>3
  <2>5. TailscaleType'
    BY <1>2, <2>1, <2>2, <2>4 DEF TailscaleType
  <2> QED
    BY <2>3, <2>4, <2>5 DEF TailscaleInv
<1>6. CASE TargetSeen /\ act.act = "sign-in"
  <2>1. seen.state \in {"running", "needs-approval"} /\ act.at = "waiting" /\ SigningIn
    BY <1>6 DEF TargetSeen, Target, SigningIn
  <2>2. UNCHANGED <<ts, seen, watching>>
    BY <1>6 DEF TargetSeen
  <2>3. CASE Unaccepted(seen.tailnet)
    <3>1. act' = [act EXCEPT !.at = "refusing"] /\ UNCHANGED <<slot, stray>>
      BY <1>6, <2>3 DEF TargetSeen
    <3> QED
      BY <2>1, <2>2, <3>1, ActMoves
  <2>4. CASE ~Unaccepted(seen.tailnet)
    <3>1. GivesBack /\ stray' = (stray \/ (act.act = "sign-in" /\ seen.tailnet = NotAny))
      BY <1>6, <2>4 DEF TargetSeen
    <3>2. ~stray' => ts.state # "needs-login" /\ seen.tailnet = ts.joined /\ ~ts.asked /\ ts.tailnet \in {NotAny, ts.joined}
      BY <1>1, <1>6, <2>1, <3>1 DEF SignInOnly
    <3>3. ~stray' => ~Elsewhere' /\ ~ts'.asked /\ ts'.tailnet \in {NotAny, ts'.joined} /\ (seen.state \in SignedOut => ts'.state \in SignedOut)
      BY <2>1, <2>2, <2>4, <3>2 DEF Elsewhere, Unaccepted, SignedOut
    <3>4. stray' \in BOOLEAN
      BY <1>2, <3>1
    <3> QED
      BY <1>2, <2>2, <3>1, <3>3, <3>4, GivenBack
  <2> QED
    BY <2>3, <2>4
<1>7. CASE TargetSeen /\ act.act # "sign-in"
  <2>0. GivesBack /\ stray' = (stray \/ (act.act = "sign-in" /\ seen.tailnet = NotAny)) /\ UNCHANGED <<ts, seen, watching>>
    BY <1>7 DEF TargetSeen
  <2>1. GivesBack /\ UNCHANGED <<ts, seen, watching, stray>>
    BY <1>2, <1>7, <2>0
  <2>2. ~stray => ~Elsewhere' /\ ~ts'.asked /\ ts'.tailnet \in {NotAny, ts'.joined} /\ (seen.state \in SignedOut => ts'.state \in SignedOut)
    BY <1>1, <1>7, <2>1 DEF SignInOnly, InSignIn, SigningIn, Elsewhere
  <2> QED
    BY <1>2, <2>1, <2>2, GivenBack
<1>8. CASE Refuses(ok)
  <2>1. GivesBack /\ UNCHANGED <<seen, watching>>
    BY <1>8 DEF Refuses
  <2>2. CASE ok /\ ts' = LoggedOut /\ stray' = FALSE
    <3>1. ts' \in DaemonRecs /\ ts'.state = "needs-login" /\ ts'.tailnet = NotAny /\ ts'.joined = NotAny /\ ~ts'.asked
      BY <2>2, LoggedOutIs
    <3>2. ~Elsewhere' /\ ts'.state \in SignedOut
      BY <3>1 DEF Elsewhere, SignedOut
    <3> QED
      BY <1>2, <2>1, <2>2, <3>1, <3>2, GivenBack
  <2>3. CASE stray' = TRUE /\ UNCHANGED ts
    BY <1>2, <2>1, <2>3, GivenBack
  <2> QED
    BY <1>8, <2>2, <2>3 DEF Refuses
<1>9. CASE TimesOut
  <2>1. GivesBack /\ stray' = (stray \/ act.act = "sign-in") /\ UNCHANGED <<ts, seen, watching>>
    BY <1>9 DEF TimesOut
  <2>2. ~stray' => ~stray /\ act.act # "sign-in"
    BY <2>1
  <2>3. ~stray' => ~Elsewhere' /\ ~ts'.asked /\ ts'.tailnet \in {NotAny, ts'.joined} /\ (seen.state \in SignedOut => ts'.state \in SignedOut)
    BY <1>1, <2>1, <2>2 DEF SignInOnly, InSignIn, SigningIn, Elsewhere
  <2>4. stray' \in BOOLEAN
    BY <1>2, <2>1
  <2> QED
    BY <1>2, <2>1, <2>3, <2>4, GivenBack
<1> QED
  BY <1>3, <1>4, <1>5, <1>6, <1>7, <1>8, <1>9

\* Every step of tailscaled, the watcher and the acts keeps the invariant.
LEMMA TailscaleGoesOn == TailscaleInv /\ [TailscaleNext]_tailscaleVars => TailscaleInv'
<1> SUFFICES ASSUME TailscaleInv, [TailscaleNext]_tailscaleVars PROVE TailscaleInv'
  OBVIOUS
<1>1. ASSUME NEW net \in {"ours", "other"}, NEW s \in {"running", "needs-approval"},
             NEW named \in {"ours", "other", NotAny}, Joins(net, s, named)
      PROVE  TailscaleInv'
  BY <1>1, DaemonMoves
<1>2. CASE ComesUp \/ Meddles
  <2>1. "ours" \in {"ours", "other"} /\ "running" \in {"running", "needs-approval"} /\ NotAny \in {"ours", "other", NotAny}
    OBVIOUS
  <2> QED
    BY <1>2, <2>1, DaemonMoves
<1>3. CASE WatcherSees \/ BusCloses \/ Reconnects
  BY <1>3, WatcherMoves
<1>4. ASSUME NEW w \in Watchers, TailscaleOpens(w) \/ Relists(w) \/ TailscaleCloses(w) PROVE TailscaleInv'
  BY <1>4, StreamLists, ActOutlivesStream
<1>5. ASSUME NEW w \in Watchers, NEW name \in Names, NEW m \in {NotAny, "auth-key", "login-link"},
             AsksTailscale(w, name, m)
      PROVE  TailscaleInv'
  BY <1>5, StreamAsks
<1>6. ASSUME NEW ok \in BOOLEAN, ActAccepted \/ TargetSeen \/ TimesOut \/ Called(ok) \/ Refuses(ok) PROVE TailscaleInv'
  BY <1>6, ActGoesOn
<1>7. CASE ActAccepted \/ TargetSeen \/ TimesOut
  BY <1>6, <1>7
<1>8. CASE UNCHANGED tailscaleVars
  BY <1>8 DEF tailscaleVars, TailscaleInv, TailscaleType, SlotHeld, WaitsOnSomeone, SignInOnly, SigningIn, InSignIn,
     Elsewhere
<1> QED
  BY <1>1, <1>2, <1>3, <1>4, <1>5, <1>6, <1>7, <1>8 DEF TailscaleNext, Names

\* What OneActToItsEnd says follows from the invariant.
LEMMA TailscaleKeeps == TailscaleInv => OneActToItsEnd
BY DEF TailscaleInv, SlotHeld, SignInOnly, InSignIn, OneActToItsEnd, NotLeftInOther

\* tailscale.rs:249 and run.rs:150, for any streams and any tailnet: one
\* act is under way from its acceptance to its end, and one waiting on
\* someone outside has its stream. And the device is in a tailnet other
\* than the one accepted only while a sign-in is there to sign it out
\* again, or after one that ended before the tailnet it joined was named,
\* or that could not sign out, with no log-out since (run.rs:226).
THEOREM TailscaleSeenThrough == TailscaleSpec => []OneActToItsEnd
<1>1. TailscaleInit => TailscaleInv
  BY TailscaleStarts
<1>2. TailscaleInv /\ [TailscaleNext]_tailscaleVars => TailscaleInv'
  BY TailscaleGoesOn
<1>3. TailscaleInv => OneActToItsEnd
  BY TailscaleKeeps
<1> QED
  BY <1>1, <1>2, <1>3, PTL DEF TailscaleSpec

\* Tamanu.
TamanuSights == {"pending", "running", "stopped", "degraded", "broken", "absent"}
AskedActs == {"start", "restart"}
TaskRecs ==
    [at : {"none", "deciding", "accepting", "running", "settling", "done", "failed"}, act : AskedActs \cup {"none"}, ran : BOOLEAN]
AskerRecs == [open : {"closed", "subscribed", "open"}, listed : SUBSET AskedActs, stale : BOOLEAN, task : TaskRecs]
ViewRecs == [seen : TamanuSights, acting : AskedActs \cup {"none"}, since : BOOLEAN]
TamanuLooks == [by : {Nobody, "poll"} \cup TamanuStreams, saw : TamanuSights \cup {"none"}, since : BOOLEAN]
TamanuType ==
    /\ tamanu \in ViewRecs /\ look \in TamanuLooks
    /\ askers \in [TamanuStreams -> AskerRecs]

\* One act is under way, from its acceptance to its end, and the view says
\* which.
TaskHeld ==
    /\ \A s, t \in TamanuStreams : UnderWay(askers[s].task) /\ UnderWay(askers[t].task) => s = t
    /\ \A s \in TamanuStreams : UnderWay(askers[s].task) => tamanu.acting = askers[s].task.act
    /\ tamanu.acting # "none" => \E s \in TamanuStreams : UnderWay(askers[s].task)
    /\ \A s \in TamanuStreams : askers[s].task.at # "none" => askers[s].task.act # "none"

\* What was seen before a command ended is held, or being published, only
\* while its act looks for itself: it looks once the lock is free.
Settling == \E s \in TamanuStreams : askers[s].task.at = "settling"
LooksSince ==
    /\ look.by \in TamanuStreams => askers[look.by].task.at = "settling"
    /\ look.by # Nobody /\ look.saw # "none" /\ ~look.since => look.by = "poll" /\ Settling
    /\ ~tamanu.since => Settling

FollowsView(a, view) == a.open = "open" /\ ~a.stale => a.listed = ListedFor(StateOf(view))
ListsFollow == \A s \in TamanuStreams : FollowsView(askers[s], tamanu)

TamanuInv == TamanuType /\ TaskHeld /\ LooksSince /\ ListsFollow /\ result.true

\* What is listed can be asked for (acts.rs).
LEMMA ListedActs == ASSUME NEW s PROVE ListedFor(s) \in SUBSET AskedActs
BY DEF ListedFor, AskedActs

\* What a look sees is something a view may hold (status.rs).
LEMMA Reported == ASSUME NEW what \in Sights PROVE what \in TamanuSights /\ what # "none"
<1>1. FromReport(up) \in {"running", "stopped", "degraded"}
  BY Zenon DEF FromReport
<1> QED
  BY <1>1 DEF Sights, TamanuSights

\* The daemon starts with nothing seen and nothing under way (state.rs).
LEMMA TamanuStarts == TamanuInit => TamanuInv
<1> SUFFICES ASSUME TamanuInit PROVE TamanuInv
  OBVIOUS
<1>1. NoTask \in TaskRecs /\ NoTask.at = "none" /\ NoTask.act = "none"
  BY DEF NoTask, TaskRecs
<1>2. NoAsker \in AskerRecs /\ NoAsker.task = NoTask /\ NoAsker.open = "closed"
  BY <1>1 DEF NoAsker, AskerRecs
<1>3. tamanu \in ViewRecs /\ tamanu.acting = "none" /\ tamanu.since
  BY DEF TamanuInit, ViewRecs, TamanuSights
<1>4. look \in TamanuLooks /\ look.by = Nobody /\ Nobody \notin TamanuStreams
  BY TamanuAssumption DEF TamanuInit, TamanuLooks, Nobody
<1>5. \A s \in TamanuStreams : askers[s] = NoAsker
  BY DEF TamanuInit
<1>6. TamanuType
  BY <1>2, <1>3, <1>4 DEF TamanuInit, TamanuType
<1>7. TaskHeld /\ LooksSince /\ ListsFollow
  BY <1>1, <1>2, <1>3, <1>4, <1>5 DEF TaskHeld, LooksSince, ListsFollow, FollowsView, UnderWay
<1>8. result.true
  BY DEF TamanuInit
<1> QED
  BY <1>6, <1>7, <1>8 DEF TamanuInv

\* A view published is told to every stream that has subscribed.
LEMMA ToldOfView ==
    ASSUME NEW view \in ViewRecs, NEW tasks \in [TamanuStreams -> AskerRecs], Publishes(view, tasks), tamanu \in ViewRecs,
           \A s \in TamanuStreams : FollowsView(tasks[s], tamanu)
    PROVE  /\ tamanu' = view /\ askers' \in [TamanuStreams -> AskerRecs] /\ ListsFollow'
           /\ \A s \in TamanuStreams : askers'[s].task = tasks[s].task
<1>1. tamanu' = view /\ askers' = [s \in TamanuStreams |->
           [tasks[s] EXCEPT !.stale = @ \/ (tasks[s].open # "closed" /\ view # tamanu)]]
  BY DEF Publishes
<1>2. ASSUME NEW s \in TamanuStreams
      PROVE  askers'[s] \in AskerRecs /\ askers'[s].task = tasks[s].task /\ FollowsView(askers'[s], tamanu')
  <2> DEFINE told == tasks[s].stale \/ (tasks[s].open # "closed" /\ view # tamanu)
  <2>1. askers'[s] = [tasks[s] EXCEPT !.stale = told]
    BY <1>1
  <2>2. tasks[s] \in AskerRecs /\ told \in BOOLEAN
    BY DEF AskerRecs
  <2>3. told <=> tasks[s].stale \/ (tasks[s].open # "closed" /\ view # tamanu)
    OBVIOUS
  <2> HIDE DEF told
  <2>4. askers'[s] \in AskerRecs /\ askers'[s].task = tasks[s].task /\ askers'[s].open = tasks[s].open
        /\ askers'[s].listed = tasks[s].listed /\ askers'[s].stale = told
    BY <2>1, <2>2 DEF AskerRecs
  <2>5. ASSUME askers'[s].open = "open", ~askers'[s].stale PROVE askers'[s].listed = ListedFor(StateOf(tamanu'))
    <3>1. tasks[s].open = "open" /\ ~tasks[s].stale /\ view = tamanu
      BY <2>3, <2>4, <2>5
    <3> QED
      BY <1>1, <2>4, <3>1 DEF FollowsView
  <2> QED
    BY <2>4, <2>5 DEF FollowsView
<1>3. askers' \in [TamanuStreams -> AskerRecs]
  BY <1>1, <1>2
<1> QED
  BY <1>1, <1>2, <1>3 DEF ListsFollow

\* A step that moves no task keeps the one act there is; one that moves
\* one from its acceptance towards its end does too.
LEMMA TasksAsTheyAre ==
    ASSUME TaskHeld, \A s \in TamanuStreams : askers'[s].task = askers[s].task, tamanu'.acting = tamanu.acting
    PROVE  TaskHeld'
<1>1. \A s \in TamanuStreams : UnderWay(askers'[s].task) <=> UnderWay(askers[s].task)
  OBVIOUS
<1> QED
  BY <1>1 DEF TaskHeld

\* One that moves a task from its acceptance towards its end keeps it too
\* (run.rs).
LEMMA TaskAdvances ==
    ASSUME TaskHeld, NEW s \in TamanuStreams, UnderWay(askers[s].task), UnderWay(askers'[s].task),
           askers'[s].task.act = askers[s].task.act, tamanu'.acting = tamanu.acting,
           \A t \in TamanuStreams : t # s => askers'[t].task = askers[t].task
    PROVE  TaskHeld'
<1>1. \A t \in TamanuStreams : UnderWay(askers'[t].task) <=> UnderWay(askers[t].task)
  OBVIOUS
<1>2. askers'[s].task.act # "none"
  BY DEF TaskHeld, UnderWay
<1> QED
  BY <1>1, <1>2 DEF TaskHeld

\* Looking.
LEMMA LooksGoOn ==
    ASSUME TamanuInv, PollLooks \/ (\E what \in Sights : Looks(what)) \/ PollPublishes \/ PollStops \/ PollResumes
    PROVE  TamanuInv'
<1>1. TamanuType /\ TaskHeld /\ LooksSince /\ ListsFollow /\ result.true
      /\ tamanu \in ViewRecs /\ look \in TamanuLooks /\ askers \in [TamanuStreams -> AskerRecs]
  BY DEF TamanuInv, TamanuType
<1>2. "poll" \notin TamanuStreams /\ Nobody \notin TamanuStreams /\ Nobody # "poll"
  BY TamanuAssumption DEF Nobody
<1>3. CASE PollLooks
  <2>1. look' = [by |-> "poll", saw |-> "none", since |-> FALSE] /\ UNCHANGED <<tamanu, askers, result>>
    BY <1>3 DEF PollLooks, TakesLock
  <2>2. look' \in TamanuLooks /\ look'.by = "poll" /\ look'.saw = "none"
    BY <2>1 DEF TamanuLooks
  <2> QED
    BY <1>1, <1>2, <2>1, <2>2 DEF TamanuInv, TamanuType, TaskHeld, LooksSince, Settling, ListsFollow
<1>4. ASSUME NEW what \in Sights, Looks(what) PROVE TamanuInv'
  <2>1. look' = [look EXCEPT !.saw = what, !.since = TRUE] /\ UNCHANGED <<tamanu, askers, result>>
    BY <1>4 DEF Looks
  <2>2. look' \in TamanuLooks /\ look'.by = look.by /\ look'.since
    BY <1>1, <2>1, Reported DEF TamanuLooks
  <2> QED
    BY <1>1, <1>2, <2>1, <2>2 DEF TamanuInv, TamanuType, TaskHeld, LooksSince, Settling, ListsFollow
<1>5. CASE PollPublishes
  <2> DEFINE view == [tamanu EXCEPT !.seen = look.saw, !.since = look.since]
  <2>1. look.by = "poll" /\ look.saw # "none" /\ look' = [look EXCEPT !.by = Nobody] /\ Publishes(view, askers) /\ UNCHANGED result
    BY <1>5 DEF PollPublishes
  <2>2. look' \in TamanuLooks /\ look'.by = Nobody /\ look.saw \in TamanuSights /\ look.since \in BOOLEAN
    BY <1>1, <2>1 DEF TamanuLooks
  <2>3. view \in ViewRecs /\ view.acting = tamanu.acting /\ view.since = look.since
    BY <1>1, <2>2 DEF ViewRecs
  <2> HIDE DEF view
  <2>4. tamanu' = view /\ askers' \in [TamanuStreams -> AskerRecs] /\ ListsFollow'
        /\ \A s \in TamanuStreams : askers'[s].task = askers[s].task
    BY <1>1, <2>1, <2>3, ToldOfView DEF ListsFollow
  <2>5. TaskHeld'
    BY <1>1, <2>3, <2>4, TasksAsTheyAre
  <2>6. ~look.since => Settling
    BY <1>1, <1>2, <2>1 DEF LooksSince
  <2>7. LooksSince'
    BY <1>2, <2>2, <2>3, <2>4, <2>6 DEF LooksSince, Settling
  <2> QED
    BY <1>1, <2>1, <2>2, <2>3, <2>4, <2>5, <2>7 DEF TamanuInv, TamanuType
<1>6. CASE PollStops
  <2> DEFINE view == [tamanu EXCEPT !.seen = "pending"]
  <2>1. Publishes(view, askers) /\ UNCHANGED <<look, result>>
    BY <1>6 DEF PollStops
  <2>2. view \in ViewRecs /\ view.acting = tamanu.acting /\ view.since = tamanu.since
    BY <1>1 DEF ViewRecs, TamanuSights
  <2> HIDE DEF view
  <2>3. tamanu' = view /\ askers' \in [TamanuStreams -> AskerRecs] /\ ListsFollow'
        /\ \A s \in TamanuStreams : askers'[s].task = askers[s].task
    BY <1>1, <2>1, <2>2, ToldOfView DEF ListsFollow
  <2>4. TaskHeld'
    BY <1>1, <2>2, <2>3, TasksAsTheyAre
  <2>5. LooksSince'
    BY <1>1, <2>1, <2>2, <2>3 DEF LooksSince, Settling
  <2> QED
    BY <1>1, <2>1, <2>2, <2>3, <2>4, <2>5 DEF TamanuInv, TamanuType
<1>7. CASE PollResumes
  BY <1>1, <1>7 DEF PollResumes, TamanuInv, TamanuType, TaskHeld, LooksSince, Settling, ListsFollow
<1> QED
  BY <1>3, <1>4, <1>5, <1>6, <1>7

\* A stream subscribes, lists and hears, its act as it is.
LEMMA StreamFollows ==
    ASSUME TamanuInv, NEW s \in TamanuStreams, Subscribes(s) \/ Lists(s) \/ Hears(s) PROVE TamanuInv'
<1>1. TamanuType /\ TaskHeld /\ LooksSince /\ ListsFollow /\ result.true
      /\ tamanu \in ViewRecs /\ look \in TamanuLooks /\ askers \in [TamanuStreams -> AskerRecs]
  BY DEF TamanuInv, TamanuType
<1>2. UNCHANGED <<tamanu, look, result>>
  BY DEF Subscribes, Lists, Hears
<1>3. ListedFor(StateOf(tamanu)) \in SUBSET AskedActs
  BY ListedActs
<1>4. askers[s] \in AskerRecs
  BY <1>1
<1>5. PICK a \in AskerRecs : askers' = [askers EXCEPT ![s] = a] /\ a.task = askers[s].task /\ FollowsView(a, tamanu)
  <2> DEFINE l == ListedFor(StateOf(tamanu))
             a1 == [askers[s] EXCEPT !.open = "subscribed", !.stale = FALSE]
             a2 == [askers[s] EXCEPT !.open = "open", !.listed = l]
             a3 == [askers[s] EXCEPT !.stale = FALSE, !.listed = l]
  <2>1. Subscribes(s) => askers' = [askers EXCEPT ![s] = a1]
    BY <1>1 DEF Subscribes
  <2>2. Lists(s) => askers' = [askers EXCEPT ![s] = a2]
    BY <1>1 DEF Lists
  <2>3. Hears(s) => askers' = [askers EXCEPT ![s] = a3]
    BY <1>1 DEF Hears
  <2>4. l = ListedFor(StateOf(tamanu)) /\ l \in SUBSET AskedActs
    BY <1>3
  <2> HIDE DEF l
  <2>5. /\ a1 \in AskerRecs /\ a1.task = askers[s].task /\ a1.open = "subscribed"
        /\ a2 \in AskerRecs /\ a2.task = askers[s].task /\ a2.listed = l
        /\ a3 \in AskerRecs /\ a3.task = askers[s].task /\ a3.listed = l
    BY <1>4, <2>4 DEF AskerRecs
  <2> HIDE DEF a1, a2, a3
  <2> QED
    BY <2>1, <2>2, <2>3, <2>4, <2>5 DEF FollowsView
<1>6. askers' \in [TamanuStreams -> AskerRecs] /\ askers'[s] = a
      /\ \A t \in TamanuStreams : t # s => askers'[t] = askers[t]
  BY <1>1, <1>5
<1>7. \A t \in TamanuStreams : askers'[t].task = askers[t].task
  BY <1>5, <1>6
<1>8. TaskHeld'
  BY <1>1, <1>2, <1>7, TasksAsTheyAre
<1>9. LooksSince'
  BY <1>1, <1>2, <1>7 DEF LooksSince, Settling
<1>10. ListsFollow'
  BY <1>1, <1>2, <1>5, <1>6 DEF ListsFollow
<1> QED
  BY <1>1, <1>2, <1>6, <1>8, <1>9, <1>10 DEF TamanuInv, TamanuType

\* A task on a stream set, and the stream else as it was.
LEMMA TaskSet ==
    ASSUME askers \in [TamanuStreams -> AskerRecs], NEW s \in TamanuStreams, NEW task \in TaskRecs,
           NEW tasks, tasks = [askers EXCEPT ![s] = [askers[s] EXCEPT !.task = task]], ListsFollow
    PROVE  /\ tasks \in [TamanuStreams -> AskerRecs] /\ tasks[s].task = task
           /\ \A t \in TamanuStreams : t # s => tasks[t] = askers[t]
           /\ \A t \in TamanuStreams : FollowsView(tasks[t], tamanu)
<1>1. askers[s] \in AskerRecs
  OBVIOUS
<1>2. [askers[s] EXCEPT !.task = task] \in AskerRecs /\ [askers[s] EXCEPT !.task = task].task = task
      /\ [askers[s] EXCEPT !.task = task].open = askers[s].open /\ [askers[s] EXCEPT !.task = task].stale = askers[s].stale
      /\ [askers[s] EXCEPT !.task = task].listed = askers[s].listed
  BY <1>1 DEF AskerRecs
<1>3. tasks \in [TamanuStreams -> AskerRecs] /\ tasks[s] = [askers[s] EXCEPT !.task = task]
      /\ \A t \in TamanuStreams : t # s => tasks[t] = askers[t]
  BY <1>2
<1>4. FollowsView(tasks[s], tamanu)
  BY <1>2, <1>3 DEF FollowsView, ListsFollow
<1> QED
  BY <1>2, <1>3, <1>4 DEF ListsFollow

\* Deciding, and the slot taken.
LEMMA StreamDecides ==
    ASSUME TamanuInv, NEW s \in TamanuStreams, NEW name \in AskedActs, Decides(s, name) PROVE TamanuInv'
<1>1. TamanuType /\ TaskHeld /\ LooksSince /\ ListsFollow /\ result.true
      /\ tamanu \in ViewRecs /\ look \in TamanuLooks /\ askers \in [TamanuStreams -> AskerRecs]
  BY DEF TamanuInv, TamanuType
<1>2. askers[s].task = NoTask /\ UNCHANGED <<tamanu, look, result>>
  BY DEF Decides
<1> DEFINE task == [at |-> "deciding", act |-> name, ran |-> FALSE]
<1>3. askers' = [askers EXCEPT ![s] = [askers[s] EXCEPT !.task = task]]
  BY <1>1 DEF Decides
<1>4. task \in TaskRecs /\ task.at = "deciding" /\ task.act = name /\ name # "none"
  BY DEF TaskRecs, AskedActs
<1> HIDE DEF task
<1>5. askers' \in [TamanuStreams -> AskerRecs] /\ askers'[s].task = task
      /\ \A t \in TamanuStreams : t # s => askers'[t] = askers[t]
  BY <1>1, <1>3, <1>4, TaskSet
<1>6. \A t \in TamanuStreams : FollowsView(askers'[t], tamanu)
  BY <1>1, <1>3, <1>4, TaskSet
<1>7. askers[s].task.at = "none"
  BY <1>2 DEF NoTask
<1>8. \A t \in TamanuStreams : UnderWay(askers'[t].task) <=> UnderWay(askers[t].task)
  BY <1>4, <1>5, <1>7 DEF UnderWay
<1>9. TaskHeld'
  BY <1>1, <1>2, <1>4, <1>5, <1>7, <1>8 DEF TaskHeld, UnderWay
<1>10. LooksSince'
  BY <1>1, <1>2, <1>4, <1>5, <1>7 DEF LooksSince, Settling
<1>11. ListsFollow'
  BY <1>2, <1>6 DEF ListsFollow
<1> QED
  BY <1>1, <1>2, <1>5, <1>9, <1>10, <1>11 DEF TamanuInv, TamanuType

\* The slot is taken where it is still free, and the act let go where it
\* is not (acts.rs, Slot).
LEMMA StreamTakes == ASSUME TamanuInv, NEW s \in TamanuStreams, Takes(s) PROVE TamanuInv'
<1>1. TamanuType /\ TaskHeld /\ LooksSince /\ ListsFollow /\ result.true
      /\ tamanu \in ViewRecs /\ look \in TamanuLooks /\ askers \in [TamanuStreams -> AskerRecs]
  BY DEF TamanuInv, TamanuType
<1>2. askers[s].task.at = "deciding" /\ UNCHANGED <<look, result>>
  BY DEF Takes
<1>3. askers[s].task \in TaskRecs /\ askers[s].task.act \in AskedActs
  BY <1>1, <1>2 DEF AskerRecs, TaskRecs, TaskHeld
<1>4. CASE tamanu.acting = "none"
  <2> DEFINE view == [tamanu EXCEPT !.acting = askers[s].task.act]
             task == [askers[s].task EXCEPT !.at = "accepting"]
             tasks == [askers EXCEPT ![s] = [askers[s] EXCEPT !.task = task]]
  <2>1. Publishes(view, tasks)
    BY <1>1, <1>4 DEF Takes, TakesSlot
  <2>2. view \in ViewRecs /\ view.acting = askers[s].task.act /\ view.since = tamanu.since
    BY <1>1, <1>3 DEF ViewRecs
  <2>3. task \in TaskRecs /\ task.at = "accepting" /\ task.act = askers[s].task.act
    BY <1>3 DEF TaskRecs
  <2>a. tasks = [askers EXCEPT ![s] = [askers[s] EXCEPT !.task = task]]
    OBVIOUS
  <2> HIDE DEF view, task, tasks
  <2>4. tasks \in [TamanuStreams -> AskerRecs] /\ tasks[s].task = task
        /\ (\A t \in TamanuStreams : t # s => tasks[t] = askers[t])
        /\ \A t \in TamanuStreams : FollowsView(tasks[t], tamanu)
    BY <1>1, <2>3, <2>a, TaskSet
  <2>5. tamanu' = view /\ askers' \in [TamanuStreams -> AskerRecs] /\ ListsFollow'
        /\ \A t \in TamanuStreams : askers'[t].task = tasks[t].task
    BY <1>1, <2>1, <2>2, <2>4, ToldOfView
  <2>6. askers'[s].task = task /\ \A t \in TamanuStreams : t # s => askers'[t].task = askers[t].task
    BY <2>4, <2>5
  <2>7. \A t \in TamanuStreams : ~UnderWay(askers[t].task)
    BY <1>1, <1>4 DEF TaskHeld, UnderWay
  <2>8. UnderWay(askers'[s].task) /\ \A t \in TamanuStreams : t # s => ~UnderWay(askers'[t].task)
    BY <2>3, <2>6, <2>7 DEF UnderWay
  <2>9. TaskHeld'
    BY <1>1, <1>3, <2>2, <2>3, <2>5, <2>6, <2>8 DEF TaskHeld, AskedActs
  <2>10. ~Settling
    BY <2>7 DEF Settling, UnderWay
  <2>11. LooksSince'
    BY <1>1, <1>2, <2>2, <2>3, <2>5, <2>6, <2>7, <2>10 DEF LooksSince, UnderWay
  <2> QED
    BY <1>1, <1>2, <2>2, <2>5, <2>9, <2>11 DEF TamanuInv, TamanuType
<1>5. CASE tamanu.acting # "none"
  <2>1. askers' = [askers EXCEPT ![s] = [askers[s] EXCEPT !.task = NoTask]] /\ UNCHANGED tamanu
    BY <1>1, <1>5 DEF Takes, TakesSlot
  <2>2. NoTask \in TaskRecs /\ NoTask.at = "none"
    BY DEF NoTask, TaskRecs
  <2>3. askers' \in [TamanuStreams -> AskerRecs] /\ askers'[s].task = NoTask
        /\ (\A t \in TamanuStreams : t # s => askers'[t] = askers[t])
        /\ \A t \in TamanuStreams : FollowsView(askers'[t], tamanu)
    BY <1>1, <2>1, <2>2, TaskSet
  <2>4. \A t \in TamanuStreams : UnderWay(askers'[t].task) <=> UnderWay(askers[t].task)
    BY <1>2, <2>2, <2>3 DEF UnderWay
  <2>5. TaskHeld'
    BY <1>1, <1>2, <2>1, <2>2, <2>3, <2>4 DEF TaskHeld, UnderWay
  <2>6. LooksSince'
    BY <1>1, <1>2, <2>1, <2>2, <2>3 DEF LooksSince, Settling
  <2> QED
    BY <1>1, <1>2, <2>1, <2>3, <2>5, <2>6 DEF TamanuInv, TamanuType, ListsFollow
<1> QED
  BY <1>4, <1>5

\* An act accepted begins, and its command ends.
LEMMA ActBegins ==
    ASSUME TamanuInv, NEW s \in TamanuStreams, Accepts(s) \/ (\E ok \in BOOLEAN, left \in SUBSET Services : CommandEnds(s, ok, left))
    PROVE  TamanuInv'
<1>1. TamanuType /\ TaskHeld /\ LooksSince /\ ListsFollow /\ result.true
      /\ tamanu \in ViewRecs /\ look \in TamanuLooks /\ askers \in [TamanuStreams -> AskerRecs]
  BY DEF TamanuInv, TamanuType
<1>2. askers[s].task \in TaskRecs
  BY <1>1 DEF AskerRecs
<1>3. CASE Accepts(s)
  <2> DEFINE task == [askers[s].task EXCEPT !.at = "running"]
  <2>1. askers[s].task.at = "accepting" /\ UNCHANGED <<tamanu, look, result>>
        /\ askers' = [askers EXCEPT ![s] = [askers[s] EXCEPT !.task = task]]
    BY <1>1, <1>3 DEF Accepts
  <2>2. task \in TaskRecs /\ task.at = "running" /\ task.act = askers[s].task.act
    BY <1>2 DEF TaskRecs
  <2> HIDE DEF task
  <2>3. askers' \in [TamanuStreams -> AskerRecs] /\ askers'[s].task = task
        /\ (\A t \in TamanuStreams : t # s => askers'[t] = askers[t])
        /\ \A t \in TamanuStreams : FollowsView(askers'[t], tamanu)
    BY <1>1, <2>1, <2>2, TaskSet
  <2>4. UnderWay(askers[s].task) /\ UnderWay(askers'[s].task)
    BY <2>1, <2>2, <2>3 DEF UnderWay
  <2>5. TaskHeld'
    BY <1>1, <2>1, <2>2, <2>3, <2>4, TaskAdvances
  <2>6. LooksSince'
    BY <1>1, <2>1, <2>2, <2>3 DEF LooksSince, Settling
  <2> QED
    BY <1>1, <2>1, <2>3, <2>5, <2>6 DEF TamanuInv, TamanuType, ListsFollow
<1>4. ASSUME NEW ok \in BOOLEAN, NEW left \in SUBSET Services, CommandEnds(s, ok, left) PROVE TamanuInv'
  <2> DEFINE task == [askers[s].task EXCEPT !.at = "settling", !.ran = ok]
  <2>a. askers' = [askers EXCEPT ![s].task.at = "settling", ![s].task.ran = ok]
    BY <1>4 DEF CommandEnds
  <2>b. askers' = [askers EXCEPT ![s] = [[askers[s] EXCEPT !.task = [askers[s].task EXCEPT !.at = "settling"]]
                                            EXCEPT !.task = [@ EXCEPT !.ran = ok]]]
    BY <1>1, <2>a
  <2>c. askers[s] \in AskerRecs
    BY <1>1
  <2>d. [[askers[s] EXCEPT !.task = [askers[s].task EXCEPT !.at = "settling"]] EXCEPT !.task = [@ EXCEPT !.ran = ok]]
        = [askers[s] EXCEPT !.task = task]
    BY <1>2, <2>c DEF AskerRecs, TaskRecs
  <2>1. askers[s].task.at = "running" /\ UNCHANGED result
        /\ askers' = [askers EXCEPT ![s] = [askers[s] EXCEPT !.task = task]]
        /\ tamanu' = [tamanu EXCEPT !.since = FALSE] /\ look' = [look EXCEPT !.since = FALSE]
    BY <1>4, <2>b, <2>d DEF CommandEnds
  <2>2. task \in TaskRecs /\ task.at = "settling" /\ task.act = askers[s].task.act
    BY <1>2 DEF TaskRecs
  <2> HIDE DEF task
  <2>3. askers' \in [TamanuStreams -> AskerRecs] /\ askers'[s].task = task
        /\ (\A t \in TamanuStreams : t # s => askers'[t] = askers[t])
        /\ \A t \in TamanuStreams : FollowsView(askers'[t], tamanu)
    BY <1>1, <2>1, <2>2, TaskSet
  <2>4. tamanu' \in ViewRecs /\ tamanu'.acting = tamanu.acting /\ tamanu'.seen = tamanu.seen
    BY <1>1, <2>1 DEF ViewRecs
  <2>5. look' \in TamanuLooks /\ look'.by = look.by /\ look'.saw = look.saw
    BY <1>1, <2>1 DEF TamanuLooks
  <2>6. UnderWay(askers[s].task) /\ UnderWay(askers'[s].task)
    BY <2>1, <2>2, <2>3 DEF UnderWay
  <2>7. TaskHeld'
    BY <1>1, <2>2, <2>3, <2>4, <2>6, TaskAdvances
  <2>8. Settling'
    BY <2>2, <2>3 DEF Settling
  <2>9. look.by \notin TamanuStreams
    <3>1. ASSUME look.by \in TamanuStreams PROVE FALSE
      <4>1. askers[look.by].task.at = "settling" /\ UnderWay(askers[look.by].task)
        BY <1>1, <3>1 DEF LooksSince, UnderWay
      <4>2. look.by = s
        BY <1>1, <2>6, <3>1, <4>1 DEF TaskHeld
      <4> QED
        BY <2>1, <4>1, <4>2
    <3> QED
      BY <3>1
  <2>10. look.by # Nobody => look.by = "poll"
    BY <1>1, <2>9 DEF TamanuLooks
  <2>11. LooksSince'
    BY <2>5, <2>8, <2>9, <2>10 DEF LooksSince
  <2>12. ListsFollow'
    BY <2>3, <2>4 DEF ListsFollow, FollowsView, StateOf
  <2> QED
    BY <1>1, <2>1, <2>3, <2>4, <2>5, <2>7, <2>11, <2>12 DEF TamanuInv, TamanuType
<1> QED
  BY <1>3, <1>4

\* A stream ends, and takes an act not yet begun with it.
LEMMA StreamEnds == ASSUME TamanuInv, NEW s \in TamanuStreams, TamanuStreamEnds(s) PROVE TamanuInv'
<1>1. TamanuType /\ TaskHeld /\ LooksSince /\ ListsFollow /\ result.true
      /\ tamanu \in ViewRecs /\ look \in TamanuLooks /\ askers \in [TamanuStreams -> AskerRecs]
  BY DEF TamanuInv, TamanuType
<1>2. NoTask \in TaskRecs /\ NoTask.at = "none"
  BY DEF NoTask, TaskRecs
<1>3. NoAsker \in AskerRecs /\ NoAsker.task = NoTask /\ NoAsker.open = "closed"
  BY <1>2 DEF NoAsker, AskerRecs
<1>4. UNCHANGED <<look, result>> /\ askers[s].task.at # "deciding" /\ askers[s].task \in TaskRecs
  BY <1>1 DEF TamanuStreamEnds, AskerRecs
<1>5. CASE askers[s].task.at = "accepting"
  <2> DEFINE view == Released(tamanu, askers[s].task.act)
             tasks == [askers EXCEPT ![s] = NoAsker]
  <2>1. Publishes(view, tasks)
    BY <1>5 DEF TamanuStreamEnds
  <2>2. UnderWay(askers[s].task) /\ tamanu.acting = askers[s].task.act
    BY <1>1, <1>5 DEF UnderWay, TaskHeld
  <2>3. view = [tamanu EXCEPT !.acting = "none"]
    BY <2>2 DEF Released
  <2>4. view \in ViewRecs /\ view.acting = "none" /\ view.since = tamanu.since
    BY <1>1, <2>3 DEF ViewRecs
  <2>5. tasks \in [TamanuStreams -> AskerRecs] /\ tasks[s] = NoAsker /\ \A t \in TamanuStreams : t # s => tasks[t] = askers[t]
    BY <1>1, <1>3
  <2> HIDE DEF view, tasks
  <2>6. \A t \in TamanuStreams : FollowsView(tasks[t], tamanu)
    BY <1>1, <1>3, <2>5 DEF ListsFollow, FollowsView
  <2>7. tamanu' = view /\ askers' \in [TamanuStreams -> AskerRecs] /\ ListsFollow'
        /\ \A t \in TamanuStreams : askers'[t].task = tasks[t].task
    BY <1>1, <2>1, <2>4, <2>5, <2>6, ToldOfView
  <2>8. askers'[s].task = NoTask /\ \A t \in TamanuStreams : t # s => askers'[t].task = askers[t].task
    BY <1>3, <2>5, <2>7
  <2>9. \A t \in TamanuStreams : ~UnderWay(askers'[t].task)
    <3>1. \A t \in TamanuStreams : t # s => ~UnderWay(askers[t].task)
      BY <1>1, <2>2 DEF TaskHeld
    <3> QED
      BY <1>2, <2>8, <3>1 DEF UnderWay
  <2>10. TaskHeld'
    BY <1>1, <1>2, <2>4, <2>7, <2>8, <2>9 DEF TaskHeld
  <2>11. LooksSince'
    BY <1>1, <1>2, <1>4, <1>5, <2>4, <2>7, <2>8 DEF LooksSince, Settling
  <2> QED
    BY <1>1, <1>4, <2>4, <2>7, <2>10, <2>11 DEF TamanuInv, TamanuType
<1>6. CASE askers[s].task.at # "accepting"
  <2> DEFINE asker == [NoAsker EXCEPT !.task = askers[s].task]
  <2>1. askers' = [askers EXCEPT ![s] = asker] /\ UNCHANGED tamanu
    BY <1>6 DEF TamanuStreamEnds
  <2>2. asker \in AskerRecs /\ asker.task = askers[s].task /\ asker.open = "closed"
    BY <1>3, <1>4 DEF AskerRecs
  <2> HIDE DEF asker
  <2>3. askers' \in [TamanuStreams -> AskerRecs] /\ askers'[s] = asker /\ \A t \in TamanuStreams : t # s => askers'[t] = askers[t]
    BY <1>1, <2>1, <2>2
  <2>4. \A t \in TamanuStreams : askers'[t].task = askers[t].task
    BY <2>2, <2>3
  <2>5. TaskHeld'
    BY <1>1, <2>1, <2>4, TasksAsTheyAre
  <2>6. LooksSince'
    BY <1>1, <1>4, <2>1, <2>4 DEF LooksSince, Settling
  <2>7. ListsFollow'
    BY <1>1, <2>1, <2>2, <2>3 DEF ListsFollow, FollowsView
  <2> QED
    BY <1>1, <1>4, <2>1, <2>3, <2>5, <2>6, <2>7 DEF TamanuInv, TamanuType
<1> QED
  BY <1>5, <1>6

\* The act looks for itself until it is over, and gives its slot back.
LEMMA ActSettles ==
    ASSUME TamanuInv, NEW s \in TamanuStreams, Settles(s) \/ Refreshes(s) \/ ActEnds(s) PROVE TamanuInv'
<1>1. TamanuType /\ TaskHeld /\ LooksSince /\ ListsFollow /\ result.true
      /\ tamanu \in ViewRecs /\ look \in TamanuLooks /\ askers \in [TamanuStreams -> AskerRecs]
  BY DEF TamanuInv, TamanuType
<1>2. "poll" \notin TamanuStreams /\ Nobody \notin TamanuStreams /\ Nobody # "poll"
  BY TamanuAssumption DEF Nobody
<1>3. askers[s].task \in TaskRecs
  BY <1>1 DEF AskerRecs
<1>4. CASE Settles(s)
  <2>1. look' = [by |-> s, saw |-> "none", since |-> FALSE] /\ askers[s].task.at = "settling" /\ UNCHANGED <<tamanu, askers, result>>
    BY <1>4 DEF Settles, TakesLock
  <2>2. look' \in TamanuLooks /\ look'.by = s /\ look'.saw = "none"
    BY <2>1 DEF TamanuLooks
  <2> QED
    BY <1>1, <1>2, <2>1, <2>2 DEF TamanuInv, TamanuType, TaskHeld, LooksSince, Settling, ListsFollow
<1>5. CASE Refreshes(s)
  <2>1. PICK at \in {"settling", "done", "failed"} :
          /\ at = "done" <=> DoneAsSeen(askers[s].task, look.saw)
          /\ Publishes([tamanu EXCEPT !.seen = look.saw, !.since = look.since], [askers EXCEPT ![s].task.at = at])
          /\ result' = IF at = "settling" THEN result
                       ELSE [how |-> at, true |-> at = "done" => askers[s].task.ran /\ look.saw = "running"]
    BY <1>5 DEF Refreshes
  <2>2. look.by = s /\ look.saw # "none" /\ askers[s].task.at = "settling" /\ look' = [look EXCEPT !.by = Nobody]
    BY <1>5 DEF Refreshes
  <2>3. look' \in TamanuLooks /\ look'.by = Nobody /\ look.saw \in TamanuSights /\ look.since \in BOOLEAN /\ look.since
    BY <1>1, <1>2, <2>2 DEF TamanuLooks, LooksSince
  <2> DEFINE view == [tamanu EXCEPT !.seen = look.saw, !.since = look.since]
             task == [askers[s].task EXCEPT !.at = at]
             tasks == [askers EXCEPT ![s] = [askers[s] EXCEPT !.task = task]]
  <2>4. view \in ViewRecs /\ view.acting = tamanu.acting /\ view.since
    BY <1>1, <2>3 DEF ViewRecs
  <2>5. task \in TaskRecs /\ task.at = at /\ task.act = askers[s].task.act
    BY <1>3 DEF TaskRecs
  <2>6. Publishes(view, tasks)
    BY <1>1, <2>1
  <2>7. tasks = [askers EXCEPT ![s] = [askers[s] EXCEPT !.task = task]]
    OBVIOUS
  <2> HIDE DEF view, task, tasks
  <2>8. tasks \in [TamanuStreams -> AskerRecs] /\ tasks[s].task = task
        /\ (\A t \in TamanuStreams : t # s => tasks[t] = askers[t])
        /\ \A t \in TamanuStreams : FollowsView(tasks[t], tamanu)
    BY <1>1, <2>5, <2>7, TaskSet
  <2>9. tamanu' = view /\ askers' \in [TamanuStreams -> AskerRecs] /\ ListsFollow'
        /\ \A t \in TamanuStreams : askers'[t].task = tasks[t].task
    BY <1>1, <2>4, <2>6, <2>8, ToldOfView
  <2>10. askers'[s].task = task /\ \A t \in TamanuStreams : t # s => askers'[t].task = askers[t].task
    BY <2>8, <2>9
  <2>11. UnderWay(askers[s].task) /\ UnderWay(askers'[s].task)
    BY <2>2, <2>5, <2>10 DEF UnderWay
  <2>12. TaskHeld'
    BY <1>1, <2>4, <2>5, <2>9, <2>10, <2>11, TaskAdvances
  <2>13. LooksSince'
    BY <1>2, <2>3, <2>4, <2>9 DEF LooksSince
  <2>14. result'.true
    BY <1>1, <2>1 DEF DoneAsSeen
  <2> QED
    BY <2>3, <2>4, <2>9, <2>12, <2>13, <2>14 DEF TamanuInv, TamanuType
<1>6. CASE ActEnds(s)
  <2> DEFINE view == Released(tamanu, askers[s].task.act)
             tasks == [askers EXCEPT ![s] = [askers[s] EXCEPT !.task = NoTask]]
  <2>1. Publishes(view, tasks) /\ UNCHANGED <<look, result>> /\ askers[s].task.at \in {"done", "failed"}
    BY <1>1, <1>6 DEF ActEnds
  <2>2. UnderWay(askers[s].task) /\ tamanu.acting = askers[s].task.act
    BY <1>1, <2>1 DEF UnderWay, TaskHeld
  <2>3. view = [tamanu EXCEPT !.acting = "none"]
    BY <2>2 DEF Released
  <2>4. view \in ViewRecs /\ view.acting = "none" /\ view.since = tamanu.since
    BY <1>1, <2>3 DEF ViewRecs
  <2>5. NoTask \in TaskRecs /\ NoTask.at = "none"
    BY DEF NoTask, TaskRecs
  <2>6. tasks = [askers EXCEPT ![s] = [askers[s] EXCEPT !.task = NoTask]]
    OBVIOUS
  <2> HIDE DEF view, tasks
  <2>7. tasks \in [TamanuStreams -> AskerRecs] /\ tasks[s].task = NoTask
        /\ (\A t \in TamanuStreams : t # s => tasks[t] = askers[t])
        /\ \A t \in TamanuStreams : FollowsView(tasks[t], tamanu)
    BY <1>1, <2>5, <2>6, TaskSet
  <2>8. tamanu' = view /\ askers' \in [TamanuStreams -> AskerRecs] /\ ListsFollow'
        /\ \A t \in TamanuStreams : askers'[t].task = tasks[t].task
    BY <1>1, <2>1, <2>4, <2>7, ToldOfView
  <2>9. askers'[s].task = NoTask /\ \A t \in TamanuStreams : t # s => askers'[t].task = askers[t].task
    BY <2>7, <2>8
  <2>10. \A t \in TamanuStreams : ~UnderWay(askers'[t].task)
    <3>1. \A t \in TamanuStreams : t # s => ~UnderWay(askers[t].task)
      BY <1>1, <2>2 DEF TaskHeld
    <3> QED
      BY <2>5, <2>9, <3>1 DEF UnderWay
  <2>11. TaskHeld'
    BY <1>1, <2>4, <2>5, <2>8, <2>9, <2>10 DEF TaskHeld
  <2>12. LooksSince'
    BY <1>1, <2>1, <2>4, <2>8, <2>9 DEF LooksSince, Settling
  <2> QED
    BY <1>1, <2>1, <2>4, <2>8, <2>11, <2>12 DEF TamanuInv, TamanuType
<1> QED
  BY <1>4, <1>5, <1>6

\* Every step of the poll, the streams and the acts keeps the invariant.
LEMMA TamanuGoesOn == TamanuInv /\ [TamanuNext]_tamanuVars => TamanuInv'
<1> SUFFICES ASSUME TamanuInv, [TamanuNext]_tamanuVars PROVE TamanuInv'
  OBVIOUS
<1>1. CASE PollLooks \/ PollPublishes \/ PollStops \/ PollResumes \/ \E what \in Sights : Looks(what)
  BY <1>1, LooksGoOn
<1>2. ASSUME NEW s \in TamanuStreams, Subscribes(s) \/ Lists(s) \/ Hears(s) PROVE TamanuInv'
  BY <1>2, StreamFollows
<1>3. ASSUME NEW s \in TamanuStreams, Takes(s) \/ TamanuStreamEnds(s) PROVE TamanuInv'
  BY <1>3, StreamTakes, StreamEnds
<1>4. ASSUME NEW s \in TamanuStreams, Accepts(s) \/ \E ok \in BOOLEAN, left \in SUBSET Services : CommandEnds(s, ok, left)
      PROVE  TamanuInv'
  BY <1>4, ActBegins
<1>5. ASSUME NEW s \in TamanuStreams, Settles(s) \/ Refreshes(s) \/ ActEnds(s) PROVE TamanuInv'
  BY <1>5, ActSettles
<1>6. ASSUME NEW s \in TamanuStreams, NEW name \in AskedActs, Decides(s, name) PROVE TamanuInv'
  BY <1>6, StreamDecides
<1>7. CASE (\E service \in Services : ServiceDrifts(service)) \/ UNCHANGED tamanuVars
  <2>1. UNCHANGED <<tamanu, look, askers, result>>
    BY <1>7 DEF ServiceDrifts, tamanuVars
  <2> QED
    BY <2>1 DEF TamanuInv, TamanuType, TaskHeld, LooksSince, Settling, ListsFollow
<1> QED
  BY <1>1, <1>2, <1>3, <1>4, <1>5, <1>6, <1>7 DEF TamanuNext, AskedActs

\* What ActsAreSeenThrough says follows from the invariant.
LEMMA TamanuKeeps == TamanuInv => ActsAreSeenThrough
<1> SUFFICES ASSUME TamanuInv PROVE ActsAreSeenThrough
  OBVIOUS
<1>1. tamanu.acting = "none" => tamanu.since
  <2>1. Settling => tamanu.acting # "none"
    BY DEF TamanuInv, TaskHeld, Settling, UnderWay
  <2> QED
    BY <2>1 DEF TamanuInv, LooksSince
<1> QED
  BY <1>1 DEF TamanuInv, TaskHeld, ListsFollow, FollowsView, ActsAreSeenThrough

\* tamanu/state.rs:160 and run.rs, for any services and streams: one act
\* is under way at a time and the view says which; what is reported once
\* it has ended was seen after its command did, and it is done only where
\* that succeeded and Tamanu was seen running; a stream told of every
\* change lists what can be asked.
THEOREM TamanuSeenThrough == TamanuSpec => []ActsAreSeenThrough
<1>1. TamanuInit => TamanuInv
  BY TamanuStarts
<1>2. TamanuInv /\ [TamanuNext]_tamanuVars => TamanuInv'
  BY TamanuGoesOn
<1>3. TamanuInv => ActsAreSeenThrough
  BY TamanuKeeps
<1> QED
  BY <1>1, <1>2, <1>3, PTL DEF TamanuSpec

\* The backup supply.
FullRecs ==
    [at : {"charging", "terminating", "holding", "finished"}, since : Nat, low : Nat, high : Nat, relaxed : BOOLEAN]
Taken == [at : Nat, look : LookSet]
WatchType ==
    /\ now \in Nat /\ power \in {"unknown", "there", "gone"} /\ low \in Nat \cup {-1} /\ full \in FullRecs
    /\ run \in [on : BOOLEAN, full : BOOLEAN] /\ charge \in BOOLEAN /\ held \in BOOLEAN /\ timed \in BOOLEAN
    /\ window \subseteq Taken /\ asked \in Nat

\* The floor has been held since the look `low` names, and was last asked
\* about before it.
FloorSince ==
    /\ low # -1 => asked <= low /\ low <= now /\ \A x \in window : x.at >= low => IsLow(x.look)
    /\ held => low # -1 /\ now - low >= Confirm
    /\ held /\ timed => now >= Grace
    /\ \A x \in window : x.at <= now
    /\ asked <= now

\* A cell is watched towards full only while external power is there, and
\* has been still since the look `full` names.
StillSince ==
    /\ full.at # "charging" => power = "there"
    /\ full.since <= now
    /\ full.at = "holding" => /\ full.low <= full.high /\ full.high - full.low <= Still
                              /\ \A x \in window : x.at >= full.since =>
                                     /\ x.look.ext # "gone"
                                     /\ x.look.ext = "there" => full.low <= x.look.volts /\ x.look.volts <= full.high
    /\ full.at = "finished" /\ full.since = now => StillFor(LooksWithin(Hold))

\* A run is one without external power, and a charge one with it that has
\* not finished.
RunOrCharge ==
    /\ run.on => power = "gone"
    /\ charge => power = "there"
    /\ full.at = "finished" => ~charge

WatchInv == WatchType /\ FloorSince /\ StillSince /\ RunOrCharge
SupplyInv == WatchInv /\ CurvesAreKept

\* The greater and the lesser of two.
LEMMA MaxMin ==
    ASSUME NEW a \in Int, NEW b \in Int
    PROVE  /\ Max({a, b}) = IF a >= b THEN a ELSE b
           /\ Min({a, b}) = IF a <= b THEN a ELSE b
<1>1. \E x \in {a, b} : \A y \in {a, b} : x >= y
  <2>1. CASE a >= b
    BY <2>1
  <2>2. CASE b >= a
    BY <2>2
  <2> QED
    BY <2>1, <2>2
<1>2. \E x \in {a, b} : \A y \in {a, b} : x <= y
  <2>1. CASE a >= b
    BY <2>1
  <2>2. CASE b >= a
    BY <2>2
  <2> QED
    BY <2>1, <2>2
<1>3. Max({a, b}) \in {a, b} /\ \A y \in {a, b} : Max({a, b}) >= y
  BY <1>1 DEF Max
<1>4. Min({a, b}) \in {a, b} /\ \A y \in {a, b} : Min({a, b}) <= y
  BY <1>2 DEF Min
<1> QED
  BY <1>3, <1>4

\* The watch starts with no look taken and no run or charge (watch.rs).
LEMMA SupplyStarts == SupplyInit => SupplyInv
<1> SUFFICES ASSUME SupplyInit PROVE SupplyInv
  OBVIOUS
<1>1. full = Charging /\ Charging \in FullRecs /\ full.at = "charging" /\ full.since = 0
  BY DEF SupplyInit, Charging, FullRecs
<1>2. WatchType
  BY <1>1 DEF SupplyInit, WatchType, NoRun
<1>3. FloorSince
  BY DEF SupplyInit, FloorSince
<1>4. StillSince /\ RunOrCharge
  BY <1>1 DEF SupplyInit, StillSince, RunOrCharge, NoRun
<1>5. CurvesAreKept
  BY DEF SupplyInit, CurvesAreKept
<1> QED
  BY <1>2, <1>3, <1>4, <1>5 DEF SupplyInv, WatchInv

\* The curves: a change leaves them kept, whatever it was and however its
\* save went.
LEMMA ReplaceKeeps ==
    ASSUME CurvesAreKept, NEW doc, NEW how \in Outcomes, NEW file \in {disk, Managed}, Puts(file, doc, how)
    PROVE  CurvesAreKept'
<1>1. CASE how = "failed"
  <2>1. behind' = behind /\ acked' = acked /\ mem' = mem /\ disk' = file
    BY <1>1 DEF Puts, SavesOver
  <2>2. ~behind => file = disk
    BY DEF CurvesAreKept, Managed
  <2> QED
    BY <2>1, <2>2 DEF CurvesAreKept
<1>2. CASE how = "saved"
  BY <1>2 DEF CurvesAreKept, Puts, SavesOver
<1>3. CASE how = "renamed"
  BY <1>3 DEF CurvesAreKept, Puts, SavesOver
<1> QED
  BY <1>1, <1>2, <1>3 DEF Outcomes

\* The curve in force and the one in the file, as either is changed
\* (store.rs).
LEMMA CurveStep ==
    ASSUME CurvesAreKept, [WatchNext \/ CurveNext]_supplyVars
    PROVE  CurvesAreKept'
<1>1. CASE UNCHANGED supplyVars
  BY <1>1 DEF CurvesAreKept, supplyVars
<1>2. ASSUME NEW l \in LookSet, NEW how \in Outcomes, NEW known, NEW long, Observe(l, how, known, long) PROVE CurvesAreKept'
  <2>1. CASE \E file \in {disk, Managed} : \E doc : Puts(file, doc, how)
    BY <2>1, ReplaceKeeps
  <2>2. CASE mem' = Managed /\ disk' \in {disk, Managed} /\ UNCHANGED <<acked, behind>>
    BY <2>2 DEF CurvesAreKept, Managed
  <2>3. CASE mem' \in {Managed, mem} /\ UNCHANGED <<disk, acked, behind>>
    BY <2>3 DEF CurvesAreKept, Managed
  <2> QED
    BY <1>2, <2>1, <2>2, <2>3 DEF Observe, LearnsCharge
<1>3. CASE Stalls
  BY <1>3 DEF CurvesAreKept, Stalls, curveVars
<1>4. ASSUME NEW taken \in BOOLEAN, NEW how \in Outcomes, PowersOff(taken, how) PROVE CurvesAreKept'
  <2>1. CASE \E doc : Replaces(doc, how)
    BY <2>1, ReplaceKeeps DEF Replaces
  <2>2. CASE UNCHANGED <<mem, disk, acked, behind>>
    BY <2>2 DEF CurvesAreKept
  <2> QED
    BY <1>4, <2>1, <2>2 DEF PowersOff
<1>5. ASSUME NEW s \in CurveStreams, NEW how \in Outcomes, Loads(s, how) PROVE CurvesAreKept'
  BY <1>5, ReplaceKeeps DEF Loads, Replaces
<1>6. ASSUME NEW how \in Outcomes, CommandAnswered(how) PROVE CurvesAreKept'
  <2>1. CASE UNCHANGED <<mem, disk, acked, behind>>
    BY <2>1 DEF CurvesAreKept
  <2>2. CASE Puts(disk, cli.doc, how)
    BY <2>2, ReplaceKeeps
  <2> QED
    BY <1>6, <2>1, <2>2 DEF CommandAnswered
<1>7. CASE SocketOpens \/ CommandAsks \/ \E s \in CurveStreams : SendsCurve(s)
  BY <1>7 DEF CurvesAreKept, SocketOpens, CommandAsks, SendsCurve, curveVars
<1>8. ASSUME NEW how \in Outcomes, WritesDirectly(how) PROVE CurvesAreKept'
  <2>1. CASE how = "failed"
    <3>1. UNCHANGED <<mem, disk, acked, behind>>
      BY <1>8, <2>1 DEF WritesDirectly
    <3> QED
      BY <3>1 DEF CurvesAreKept
  <2>2. CASE how \in {"saved", "renamed"}
    BY <1>8, <2>2 DEF CurvesAreKept, WritesDirectly
  <2> QED
    BY <2>1, <2>2 DEF Outcomes
<1>9. CASE Restarts
  BY <1>9 DEF CurvesAreKept, Restarts
<1> QED
  BY <1>1, <1>2, <1>3, <1>4, <1>5, <1>6, <1>7, <1>8, <1>9 DEF WatchNext, CurveNext

\* A look moves the time on by one, and is the last there is.
LEMMA LookTaken ==
    ASSUME WatchType, FloorSince, NEW l \in LookSet, NEW how, NEW known, NEW long, Observe(l, how, known, long)
    PROVE  /\ now' = now + 1 /\ now' \in Nat
           /\ window' \subseteq Taken
           /\ \A x \in window' : (x.at = now' /\ x.look = l) \/ (x \in window /\ x.at <= now)
<1>1. now' = now + 1 /\ now' \in Nat
  BY DEF WatchType, Observe
<1>2. [at |-> now', look |-> l] \in Taken
  BY <1>1 DEF Taken
<1>3. window' \subseteq window \cup {[at |-> now', look |-> l]}
  BY DEF Observe, Latest
<1> QED
  BY <1>1, <1>2, <1>3 DEF WatchType, FloorSince

\* A look at the gauge, and what it says of the floor (low.rs, observe).
LEMMA FloorLook ==
    ASSUME WatchType, FloorSince, NEW l \in LookSet, NEW how, NEW known, NEW long, Observe(l, how, known, long)
    PROVE  FloorSince' /\ low' \in Nat \cup {-1} /\ held' \in BOOLEAN /\ timed' \in BOOLEAN
<1>1. now' = now + 1 /\ now' \in Nat /\ low' = LowAfter(l) /\ held' = Holds(l, known) /\ asked' = asked /\ now \in Nat
      /\ low \in Nat \cup {-1} /\ asked \in Nat
  BY LookTaken DEF Observe, WatchType
<1>2. window' \subseteq Taken /\ \A x \in window' : (x.at = now' /\ x.look = l) \/ (x \in window /\ x.at <= now)
  BY LookTaken
<1>3. low' \in Nat \cup {-1} /\ (low' # -1 => IsLow(l) /\ (low' = now' \/ (low # -1 /\ low' = low)))
  BY <1>1 DEF LowAfter
<1>4. low' # -1 => asked' <= low' /\ low' <= now'
  BY <1>1, <1>3 DEF FloorSince
<1>5. ASSUME low' # -1, NEW x \in window', x.at >= low' PROVE IsLow(x.look)
  <2>1. CASE x.at = now' /\ x.look = l
    BY <2>1, <1>3, <1>5
  <2>2. CASE x \in window /\ x.at <= now
    <3>1. x.at \in Nat
      BY <1>2 DEF Taken
    <3>2. low # -1 /\ low' = low
      BY <3>1, <2>2, <1>1, <1>3, <1>5
    <3> QED
      BY <3>2, <2>2, <1>5 DEF FloorSince
  <2> QED
    BY <2>1, <2>2, <1>2
<1>6. /\ held' \in BOOLEAN /\ (held' => low' # -1 /\ now' - low' >= Confirm)
      /\ timed' \in BOOLEAN /\ (held' /\ timed' => now' >= Grace)
  <2>1. Holds(l, known) \in BOOLEAN
    BY DEF Holds, IsLow
  <2>2. IsLow(l) => LowAfter(l) # -1
    BY <1>1 DEF LowAfter
  <2>3. timed' = (Holds(l, known) /\ known)
    BY DEF Observe
  <2>4. timed' \in BOOLEAN
    BY <2>3
  <2>5. held' => low' # -1 /\ now' - low' >= Confirm
    BY <2>2, <1>1 DEF Holds
  <2>6. held' /\ timed' => now' >= Grace
    BY <2>3, <1>1 DEF Holds
  <2> QED
    BY <2>1, <2>4, <2>5, <2>6, <1>1
<1>7. \A x \in window' : x.at <= now'
  <2> SUFFICES ASSUME NEW x \in window' PROVE x.at <= now'
    OBVIOUS
  <2>1. x.at \in Nat
    BY <1>2 DEF Taken
  <2> QED
    BY <2>1, <1>1, <1>2
<1>8. asked' <= now'
  BY <1>1 DEF FloorSince
<1> QED
  BY <1>3, <1>4, <1>5, <1>6, <1>7, <1>8 DEF FloorSince

\* The floor is held as LowIsHeld says of the looks kept.
LEMMA FloorHeld == ASSUME WatchType, FloorSince PROVE LowIsHeld
<1>1. ASSUME held, NEW l \in LooksWithin(Confirm) PROVE IsLow(l)
  <2>1. PICK x \in window : x.at + Confirm >= now /\ l = x.look
    BY <1>1 DEF LooksWithin
  <2>2. x.at \in Nat /\ Confirm \in Nat /\ now \in Nat /\ low \in Nat
    BY <1>1, SupplyAssumption DEF WatchType, Taken, FloorSince
  <2>3. x.at >= low
    BY <1>1, <2>1, <2>2 DEF FloorSince
  <2> QED
    BY <1>1, <2>1, <2>3 DEF FloorSince
<1>2. (held => now - asked >= Confirm) /\ (held /\ timed => now >= Grace)
  BY SupplyAssumption DEF WatchType, FloorSince
<1> QED
  BY <1>1, <1>2 DEF LowIsHeld

\* A look at the cell: what it is watched towards full as, after it.
StillAfter(l, f) ==
    /\ f \in FullRecs
    /\ f.at # "charging" => power' = "there"
    /\ f.since <= now'
    /\ f.at = "holding" => /\ f.low <= f.high /\ f.high - f.low <= Still
                           /\ \A x \in window' : x.at >= f.since =>
                                  /\ x.look.ext # "gone"
                                  /\ x.look.ext = "there" => f.low <= x.look.volts /\ x.look.volts <= f.high
    /\ f.at = "finished" /\ f.since = now' => StillFor({x.look : x \in {x \in window' : x.at + Hold >= now'}})

\* A cell at rest is watched from this look on.
LEMMA HoldBegins ==
    ASSUME WatchInv, NEW l \in LookSet, NEW how, NEW known, NEW long, Observe(l, how, known, long), l.answer = "gauge", l.ext = "there",
           NEW relaxed \in BOOLEAN
    PROVE  StillAfter(l, Holding(l.volts, relaxed))
<1> DEFINE f == Holding(l.volts, relaxed)
<1>1. now' = now + 1 /\ now' \in Nat /\ window' \subseteq Taken
      /\ \A x \in window' : (x.at = now' /\ x.look = l) \/ (x \in window /\ x.at <= now)
  BY LookTaken DEF WatchInv
<1>2. l.volts \in Nat /\ now \in Nat /\ power' = "there"
  BY SupplyAssumption DEF LookSet, WatchInv, WatchType, Observe
<1>3. f \in FullRecs /\ f.at = "holding" /\ f.since = now' /\ f.low = l.volts /\ f.high = l.volts
  BY <1>1, <1>2 DEF Holding, FullRecs
<1> HIDE DEF f
<1>4. ASSUME NEW x \in window', x.at >= now' PROVE x.look = l
  <2>1. x.at \in Nat
    BY <1>1 DEF Taken
  <2> QED
    BY <2>1, <1>1, <1>2, <1>4
<1>5. Still \in Nat
  BY SupplyAssumption
<1>6. ASSUME NEW x \in window', x.at >= f.since
      PROVE  x.look.ext # "gone" /\ f.low <= x.look.volts /\ x.look.volts <= f.high
  BY <1>2, <1>3, <1>4, <1>6
<1>7. f.low <= f.high /\ f.high - f.low <= Still /\ f.since <= now' /\ f.at # "finished"
  BY <1>1, <1>2, <1>3, <1>5
<1>8. StillAfter(l, f)
  BY <1>2, <1>3, <1>6, <1>7 DEF StillAfter
<1> QED
  BY <1>8 DEF f

\* A cell that goes on being still is watched on, and one that has been
\* for long enough has finished charging.
LEMMA HoldGoesOn ==
    ASSUME WatchInv, NEW l \in LookSet, NEW how, NEW known, NEW long, Observe(l, how, known, long), l.answer = "gauge", l.ext = "there",
           full.at = "holding", Spread(l.volts) <= Still
    PROVE  /\ StillAfter(l, [full EXCEPT !.low = Min({@, l.volts}), !.high = Max({@, l.volts})])
           /\ now' - full.since >= Hold => StillAfter(l, [Charging EXCEPT !.at = "finished", !.since = now'])
<1> DEFINE lo == Min({full.low, l.volts})  hi == Max({full.high, l.volts})
<1>1. now' = now + 1 /\ now' \in Nat /\ window' \subseteq Taken
      /\ \A x \in window' : (x.at = now' /\ x.look = l) \/ (x \in window /\ x.at <= now)
  BY LookTaken DEF WatchInv
<1>2. l.volts \in Nat /\ now \in Nat /\ power' = "there" /\ full \in FullRecs
  BY SupplyAssumption DEF LookSet, WatchInv, WatchType, Observe
<1>3. full.low \in Nat /\ full.high \in Nat /\ full.since \in Nat /\ full.since <= now
  BY <1>2 DEF FullRecs, WatchInv, StillSince
<1>4. /\ lo = IF full.low <= l.volts THEN full.low ELSE l.volts
      /\ hi = IF full.high >= l.volts THEN full.high ELSE l.volts
  <2>1. full.low \in Int /\ full.high \in Int /\ l.volts \in Int
    BY <1>2, <1>3
  <2>2. lo = IF full.low <= l.volts THEN full.low ELSE l.volts
    BY <2>1, MaxMin
  <2>3. hi = IF full.high >= l.volts THEN full.high ELSE l.volts
    BY <2>1, MaxMin
  <2> QED
    BY <2>2, <2>3
<1>5. Spread(l.volts) = hi - lo
  BY DEF Spread
<1> HIDE DEF lo, hi
<1>6. lo \in Nat /\ hi \in Nat /\ lo <= full.low /\ lo <= l.volts /\ full.high <= hi /\ l.volts <= hi /\ hi - lo <= Still
  BY <1>2, <1>3, <1>4, <1>5
<1>7. full.low <= full.high
  BY DEF WatchInv, StillSince
<1>8. ASSUME NEW x \in window', x.at >= full.since
      PROVE  x.look.ext # "gone" /\ (x.look.ext = "there" => lo <= x.look.volts /\ x.look.volts <= hi)
  <2>1. CASE x.look = l
    BY <2>1, <1>6
  <2>2. CASE x \in window
    <3>1. x.look.ext # "gone" /\ (x.look.ext = "there" => full.low <= x.look.volts /\ x.look.volts <= full.high)
      BY <2>2, <1>8 DEF WatchInv, StillSince
    <3>2. x.look.ext = "there" => x.look.volts \in Nat
      BY <2>2, SupplyAssumption DEF WatchInv, WatchType, Taken, LookSet
    <3> QED
      BY <3>1, <3>2, <1>3, <1>6
  <2> QED
    BY <2>1, <2>2, <1>1
<1>9. StillAfter(l, [full EXCEPT !.low = lo, !.high = hi])
  <2> DEFINE f == [full EXCEPT !.low = lo, !.high = hi]
  <2>1. f \in FullRecs /\ f.at = "holding" /\ f.since = full.since /\ f.low = lo /\ f.high = hi
    BY <1>2, <1>6 DEF FullRecs
  <2> HIDE DEF f
  <2>2. f.low <= f.high /\ f.since <= now'
    BY <2>1, <1>1, <1>2, <1>3, <1>6, <1>7
  <2>3. StillAfter(l, f)
    BY <2>1, <2>2, <1>2, <1>6, <1>8 DEF StillAfter
  <2> QED
    BY <2>3 DEF f
<1>10. ASSUME now' - full.since >= Hold PROVE StillAfter(l, [Charging EXCEPT !.at = "finished", !.since = now'])
  <2> DEFINE f == [Charging EXCEPT !.at = "finished", !.since = now']
             L == {x.look : x \in {x \in window' : x.at + Hold >= now'}}
  <2>1. f \in FullRecs /\ f.at = "finished" /\ f.since = now'
    BY <1>1 DEF Charging, FullRecs
  <2>2. ASSUME NEW m \in L
        PROVE  m.ext # "gone" /\ (m.ext = "there" => lo <= m.volts /\ m.volts <= hi /\ m.volts \in Nat)
    <3>1. PICK x \in window' : x.at + Hold >= now' /\ m = x.look
      OBVIOUS
    <3>2. x.at \in Nat /\ Hold \in Nat /\ (m.ext = "there" => m.volts \in Nat)
      BY <3>1, <1>1, SupplyAssumption DEF Taken, LookSet
    <3>3. x.at >= full.since
      BY <3>1, <3>2, <1>1, <1>3, <1>10
    <3> QED
      BY <3>1, <3>2, <3>3, <1>8
  <2> HIDE DEF L
  <2>3. StillFor(L)
    BY <2>2, <1>6, SupplyAssumption DEF StillFor
  <2> HIDE DEF f
  <2>4. StillAfter(l, f)
    BY <2>1, <2>3, <1>1, <1>2 DEF StillAfter, L
  <2> QED
    BY <2>4 DEF f
<1> QED
  BY <1>9, <1>10 DEF lo, hi

\* The voltages below termination are those not at it.
LEMMA Below ==
    ASSUME NEW v \in Nat
    PROVE  /\ v < Termination <=> ~(v >= Termination)
           /\ \A h \in Nat : v > h - Relax <=> ~(v <= h - Relax)
<1>1. Termination \in Nat /\ Relax \in Nat
  BY SupplyAssumption
<1> QED
  BY <1>1

\* What a look is: of the gauge and the power line, or of neither.
LEMMA LookIs ==
    ASSUME NEW l \in LookSet
    PROVE  /\ l.answer \in {"gauge", "failed", "none"} /\ l.ext \in {"there", "gone", "unread"}
           /\ l.answer # "gauge" => l.ext = "unread"
           /\ l.volts \in Nat
<1>1. CASE l \in [answer : {"gauge"}, volts : Volts, ext : {"there", "gone", "unread"}]
  BY <1>1, SupplyAssumption
<1>2. CASE l \in [answer : {"failed", "none"}, volts : {0}, ext : {"unread"}]
  BY <1>2
<1> QED
  BY <1>1, <1>2 DEF LookSet

\* A cell not watched, or waiting to come to rest.
LEMMA NotHeldStill ==
    ASSUME NEW l, NEW f \in FullRecs, f.at \in {"charging", "terminating"}, f.since <= now',
           f.at = "terminating" => power' = "there"
    PROVE  StillAfter(l, f)
BY DEF StillAfter

\* A cell being charged is not watched towards full.
LEMMA ChargingIs == Charging \in FullRecs /\ Charging.at = "charging" /\ Charging.since = 0
BY DEF Charging, FullRecs

\* What a look makes of a cell near its termination (full.rs, observe).
LEMMA FullNextIs ==
    ASSUME WatchInv, NEW l \in LookSet, NEW how, NEW known, NEW long, Observe(l, how, known, long), l.answer = "gauge", l.ext = "there"
    PROVE  StillAfter(l, FullNext(l.volts))
<1> DEFINE v == l.volts
<1>1. now' = now + 1 /\ now' \in Nat /\ now \in Nat /\ v \in Nat /\ power' = "there" /\ full \in FullRecs
      /\ full.since \in Nat /\ full.since <= now /\ v \in Int
  <2>1. now' = now + 1 /\ now' \in Nat /\ now \in Nat /\ full \in FullRecs /\ full.since <= now /\ power' = "there"
    BY LookTaken DEF WatchInv, WatchType, Observe, StillSince
  <2>2. v \in Nat /\ v \in Int
    BY LookIs
  <2>3. full.since \in Nat
    BY <2>1 DEF FullRecs
  <2> QED
    BY <2>1, <2>2, <2>3
<1>a. full.high \in Nat
  BY <1>1 DEF FullRecs
<1>b. (v < Termination <=> ~(v >= Termination)) /\ (v > full.high - Relax <=> ~(v <= full.high - Relax))
  BY <1>1, <1>a, Below
<1>2. CASE full.at = "finished"
  <2>1. FullNext(v) = full /\ full.since # now' /\ full.since <= now'
    BY <1>1, <1>2 DEF FullNext
  <2> QED
    BY <2>1, <1>1, <1>2 DEF StillAfter
<1>3. CASE full.at # "finished" /\ v >= Termination
  <2> DEFINE h == IF full.at = "terminating" THEN Max({full.high, v}) ELSE v
             f == [Charging EXCEPT !.at = "terminating", !.high = h]
  <2>1. full.high \in Int /\ full.high \in Nat
    BY <1>1 DEF FullRecs
  <2>2. h \in Nat
    BY <2>1, <1>1, MaxMin
  <2> HIDE DEF h
  <2>3. f \in FullRecs /\ f.at = "terminating" /\ f.since = 0
    BY <2>2 DEF Charging, FullRecs
  <2>4. FullNext(v) = f
    BY <1>3, <1>b, Zenon DEF FullNext, h
  <2> HIDE DEF f
  <2> QED
    BY <2>3, <2>4, <1>1, NotHeldStill
<1>4. CASE full.at = "terminating" /\ ~(v >= Termination) /\ v <= full.high - Relax
  <2>1. FullNext(v) = Holding(v, TRUE)
    BY <1>4, <1>b, Zenon DEF FullNext
  <2> QED
    BY <2>1, HoldBegins
<1>5. CASE full.at = "terminating" /\ ~(v >= Termination) /\ ~(v <= full.high - Relax)
  <2>1. FullNext(v) = full
    BY <1>5, <1>b, Zenon DEF FullNext
  <2> QED
    BY <2>1, <1>1, <1>5, NotHeldStill
<1>6. CASE full.at = "holding" /\ ~(v >= Termination)
  <2>1. FullNext(v) = IF Spread(v) > Still THEN Holding(v, full.relaxed)
                      ELSE IF now' - full.since >= Hold THEN [Charging EXCEPT !.at = "finished", !.since = now']
                      ELSE [full EXCEPT !.low = Min({@, v}), !.high = Max({@, v})]
    BY <1>6, <1>b, Zenon DEF FullNext
  <2>2. full.relaxed \in BOOLEAN
    BY <1>1 DEF FullRecs
  <2>3. Spread(v) \in Int
    <3>1. full.low \in Int /\ full.high \in Int
      BY <1>1 DEF FullRecs
    <3>2. v \in Int
      BY <1>1
    <3>3. Max({full.high, v}) \in Int
      BY <3>1, <3>2, MaxMin
    <3>4. Min({full.low, v}) \in Int
      BY <3>1, <3>2, MaxMin
    <3> QED
      BY <3>3, <3>4 DEF Spread
  <2>4. Spread(v) > Still \/ Spread(v) <= Still
    BY <2>3, SupplyAssumption
  <2> QED
    BY <2>1, <2>2, <2>4, <1>6, HoldBegins, HoldGoesOn
<1>7. CASE full.at = "charging" /\ ~(v >= Termination)
  <2>1. FullNext(v) = IF v >= Resting THEN Holding(v, FALSE) ELSE Charging
    BY <1>7, <1>b, Zenon DEF FullNext
  <2>2. StillAfter(l, Charging)
    BY <1>1, ChargingIs, NotHeldStill
  <2> QED
    BY <2>1, <2>2, HoldBegins
<1> QED
  BY <1>1, <1>2, <1>3, <1>4, <1>5, <1>6, <1>7 DEF FullRecs

\* A look keeps what is known of a cell that is still.
LEMMA FullLook ==
    ASSUME WatchInv, NEW l \in LookSet, NEW how, NEW known, NEW long, Observe(l, how, known, long)
    PROVE  StillAfter(l, FullSeen(l))
<1>1. now' = now + 1 /\ now' \in Nat /\ now \in Nat /\ window' \subseteq Taken
      /\ \A x \in window' : (x.at = now' /\ x.look = l) \/ (x \in window /\ x.at <= now)
  BY LookTaken DEF WatchInv, WatchType
<1>2. StillAfter(l, Charging)
  BY <1>1, ChargingIs, NotHeldStill
<1>3. CASE l.answer = "gauge" /\ l.ext = "there"
  <2>1. FullSeen(l) \in {Charging, FullNext(l.volts)}
    BY <1>3 DEF FullSeen, FullAfter
  <2> QED
    BY <2>1, <1>2, <1>3, FullNextIs
<1>4. CASE l.answer = "gauge" /\ l.ext = "gone"
  BY <1>2, <1>4 DEF FullSeen
<1>5. CASE l.answer # "gauge" \/ l.ext \notin {"there", "gone"}
  <2>1. FullSeen(l) = full /\ power' = power /\ l.ext = "unread" /\ full \in FullRecs
    BY <1>5 DEF FullSeen, Observe, LookSet, WatchInv, WatchType
  <2>2. full.since \in Nat /\ full.since <= now
    BY <2>1 DEF FullRecs, WatchInv, StillSince
  <2>3. full.since <= now' /\ full.since # now'
    BY <2>2, <1>1
  <2> QED
    BY <2>1, <2>3, <1>1 DEF StillAfter, WatchInv, StillSince
<1> QED
  BY <1>3, <1>4, <1>5

\* A look taken keeps the watch's invariant (watch.rs, observe).
LEMMA WatchLook ==
    ASSUME WatchInv, NEW l \in LookSet, NEW how, NEW known, NEW long, Observe(l, how, known, long)
    PROVE  WatchInv'
<1>1. WatchType /\ FloorSince /\ StillSince /\ RunOrCharge
  BY DEF WatchInv
<1>2. FloorSince' /\ low' \in Nat \cup {-1} /\ held' \in BOOLEAN /\ timed' \in BOOLEAN
  BY <1>1, FloorLook
<1>3. StillAfter(l, full') /\ full' = FullSeen(l)
  BY FullLook DEF Observe
<1>4. StillSince'
  BY <1>3 DEF StillAfter, StillSince, LooksWithin
<1>5. /\ l.answer \in {"gauge", "failed", "none"} /\ l.ext \in {"there", "gone", "unread"}
      /\ l.answer # "gauge" => l.ext = "unread"
      /\ power' = IF l.answer = "gauge" /\ l.ext # "unread" THEN l.ext ELSE power
      /\ run' = RunAfter(l, long) /\ charge' = ChargeAfter(l, long)
  <2>1. power' = IF l.answer = "gauge" /\ l.ext # "unread" THEN l.ext ELSE power
    BY DEF Observe
  <2>2. run' = RunAfter(l, long) /\ charge' = ChargeAfter(l, long)
    BY DEF Observe
  <2> QED
    BY <2>1, <2>2, LookIs
<1>6. power' \in {"unknown", "there", "gone"} /\ run' \in [on : BOOLEAN, full : BOOLEAN] /\ charge' \in BOOLEAN
  <2>1. run' \in [on : BOOLEAN, full : BOOLEAN]
    BY <1>1, <1>5 DEF RunAfter, WatchType, NoRun
  <2>2. charge' \in BOOLEAN
    BY <1>1, <1>5 DEF ChargeAfter, WatchType, Finishes
  <2> QED
    BY <2>1, <2>2, <1>1, <1>5 DEF WatchType
<1>7. run'.on => power' = "gone"
  BY <1>1, <1>5 DEF RunAfter, PowerEvent, NoRun, RunOrCharge, WatchType
<1>8. charge' => power' = "there"
  BY <1>1, <1>5 DEF ChargeAfter, PowerEvent, RunOrCharge, WatchType
<1>9. full'.at = "finished" => ~charge'
  <2> SUFFICES ASSUME full'.at = "finished", charge' PROVE FALSE
    OBVIOUS
  <2>1. CASE PowerEvent(l) = "restored"
    <3>1. power = "gone" /\ l.answer = "gauge" /\ l.ext = "there" /\ full.at = "charging"
      BY <2>1, <1>1, <1>5 DEF PowerEvent, StillSince, WatchType, FullRecs
    <3>2. full' \in {Charging, FullNext(l.volts)}
      BY <3>1, <1>3 DEF FullSeen, FullAfter
    <3>3. FullNext(l.volts).at # "finished"
      <4>1. l.volts < Termination <=> ~(l.volts >= Termination)
        BY LookIs, Below
      <4>2. CASE l.volts >= Termination
        <5>1. FullNext(l.volts) = [Charging EXCEPT !.at = "terminating", !.high = l.volts]
          BY <3>1, <4>1, <4>2, Zenon DEF FullNext
        <5> QED
          BY <5>1 DEF Charging
      <4>3. CASE ~(l.volts >= Termination)
        <5>1. FullNext(l.volts) = IF l.volts >= Resting THEN Holding(l.volts, FALSE) ELSE Charging
          BY <3>1, <4>1, <4>3, Zenon DEF FullNext
        <5> QED
          BY <5>1 DEF Charging, Holding
      <4> QED
        BY <4>2, <4>3
    <3> QED
      BY <3>2, <3>3, ChargingIs
  <2>2. CASE PowerEvent(l) # "restored"
    BY <2>2, <1>1, <1>3, <1>5 DEF ChargeAfter, Finishes, RunOrCharge
  <2> QED
    BY <2>1, <2>2
<1>10. WatchType'
  <2>1. full' \in FullRecs
    BY <1>3 DEF StillAfter
  <2>2. now' \in Nat /\ window' \subseteq Taken
    BY <1>1, LookTaken
  <2> QED
    BY <1>1, <1>2, <1>6, <2>1, <2>2 DEF WatchType, Observe
<1> QED
  BY <1>2, <1>4, <1>7, <1>8, <1>9, <1>10 DEF WatchInv, RunOrCharge

\* A look not taken, a shutdown asked for, and a restart.
LEMMA WatchStep ==
    ASSUME WatchInv, [WatchNext \/ CurveNext]_supplyVars
    PROVE  WatchInv'
<1>1. WatchType /\ FloorSince /\ StillSince /\ RunOrCharge
  BY DEF WatchInv
<1>2. CASE UNCHANGED watchVars
  <2>1. UNCHANGED <<now, power, low, full, run, charge, held, timed, window, asked>>
    BY <1>2 DEF watchVars
  <2>2. WatchType' /\ FloorSince' /\ RunOrCharge'
    BY <1>1, <2>1 DEF WatchType, FloorSince, RunOrCharge
  <2>3. StillSince'
    BY <1>1, <2>1 DEF StillSince, StillFor, LooksWithin
  <2> QED
    BY <2>2, <2>3 DEF WatchInv
<1>3. CASE Stalls
  <2>1. now' = now + 1 /\ ~held /\ UNCHANGED <<power, low, full, run, charge, held, timed, window, asked>> /\ now \in Nat
        /\ full \in FullRecs /\ window \subseteq Taken /\ asked \in Nat /\ low \in Nat \cup {-1}
    BY <1>1, <1>3 DEF Stalls, WatchType
  <2>2. WatchType' /\ RunOrCharge'
    BY <1>1, <2>1 DEF WatchType, RunOrCharge
  <2>3. \A x \in window : x.at \in Nat
    BY <2>1 DEF Taken
  <2>4. FloorSince'
    BY <1>1, <2>1, <2>3 DEF FloorSince
  <2>5. full.since \in Nat /\ full.since <= now
    BY <1>1, <2>1 DEF FullRecs, StillSince
  <2>6. full'.since <= now' /\ full'.since # now'
    BY <2>1, <2>5
  <2>7. StillSince'
    BY <1>1, <2>1, <2>6 DEF StillSince
  <2> QED
    BY <2>2, <2>4, <2>7 DEF WatchInv
<1>4. ASSUME NEW taken \in BOOLEAN, NEW how, PowersOff(taken, how) PROVE WatchInv'
  <2>1. UNCHANGED <<now, power, full, charge, window>> /\ held' = FALSE /\ timed' = FALSE /\ low' = -1 /\ asked' = now
        /\ run' \in {run, NoRun}
    BY <1>4 DEF PowersOff
  <2>2. NoRun \in [on : BOOLEAN, full : BOOLEAN] /\ ~NoRun.on
    BY DEF NoRun
  <2>3. WatchType' /\ RunOrCharge'
    BY <1>1, <2>1, <2>2 DEF WatchType, RunOrCharge
  <2>4. FloorSince'
    BY <1>1, <2>1 DEF FloorSince, WatchType
  <2>5. StillSince'
    BY <1>1, <2>1 DEF StillSince, StillFor, LooksWithin
  <2> QED
    BY <2>3, <2>4, <2>5 DEF WatchInv
<1>5. CASE Restarts
  <2>1. now' = 0 /\ power' = "unknown" /\ low' = -1 /\ full' = Charging /\ run' = NoRun /\ charge' = FALSE
        /\ held' = FALSE /\ timed' = FALSE /\ window' = {} /\ asked' = 0
    BY <1>5 DEF Restarts
  <2>2. WatchType' /\ RunOrCharge'
    BY <2>1, ChargingIs DEF WatchType, RunOrCharge, NoRun
  <2>3. FloorSince' /\ StillSince'
    BY <2>1, ChargingIs DEF FloorSince, StillSince
  <2> QED
    BY <2>2, <2>3 DEF WatchInv
<1>6. CASE WatchNext
  BY <1>3, <1>4, <1>6, WatchLook DEF WatchNext
<1>7. CASE CurveNext
  BY <1>2, <1>5, <1>7 DEF CurveNext, SendsCurve, Loads, CommandAnswered, SocketOpens, CommandAsks, WritesDirectly
<1>8. CASE UNCHANGED supplyVars
  BY <1>2, <1>8 DEF supplyVars, watchVars
<1> QED
  BY <1>6, <1>7, <1>8

\* What SeenAsItIs says follows from the invariant.
LEMMA WatchHolds == WatchInv => SeenAsItIs
<1> SUFFICES ASSUME WatchInv PROVE SeenAsItIs
  OBVIOUS
<1>1. LowIsHeld
  BY FloorHeld DEF WatchInv
<1>2. full.at = "finished" => power = "there" /\ ~charge
  BY DEF WatchInv, StillSince, RunOrCharge
<1>3. full.at = "finished" /\ full.since = now => StillFor(LooksWithin(Hold))
  BY DEF WatchInv, StillSince
<1>4. (run.on => power = "gone") /\ (charge => power = "there")
  BY DEF WatchInv, RunOrCharge
<1> QED
  BY <1>1, <1>2, <1>3, <1>4 DEF SeenAsItIs

\* low.rs:28 and full.rs:63, for any voltages and times: the floor is
\* held, and a charge finished, only where every look within the time it
\* takes said so, and the floor past the grace where the time was read;
\* and runs and charges are as external power was last seen.
THEOREM SeenAsItWas == SupplySpec => []SeenAsItIs
<1>1. SupplyInit => WatchInv
  BY SupplyStarts DEF SupplyInv
<1>2. WatchInv /\ [WatchNext \/ CurveNext]_supplyVars => WatchInv'
  BY WatchStep
<1> QED
  BY <1>1, <1>2, WatchHolds, PTL DEF SupplySpec

\* store.rs:103, for any voltages and times: the curve in force is the one
\* in the file, and the one in the file the last that was learnt or
\* answered as accepted, however saves fail.
THEOREM CurvesKept == SupplySpec => []CurvesAreKept
<1>1. SupplyInit => CurvesAreKept
  BY SupplyStarts DEF SupplyInv
<1>2. CurvesAreKept /\ [WatchNext \/ CurveNext]_supplyVars => CurvesAreKept'
  BY CurveStep
<1> QED
  BY <1>1, <1>2, PTL DEF SupplySpec

\* The parts together.

\* tailscale.rs:249, run.rs:150 and tamanu/state.rs:160, in whatever order
\* the daemon's parts take their steps: Tailscale's acts and Tamanu's are
\* each one at a time, from its acceptance to its end, whichever stream
\* asked and however that stream ended.
THEOREM ActsSeenThrough == Spec => []ActsRunToTheirEnd
<1>1. Init => TailscaleInit /\ TamanuInit
  BY DEF Init
<1>2. [Next]_vars => [TailscaleNext]_tailscaleVars /\ [TamanuNext]_tamanuVars
  BY DEF Next, vars
<1>3. Spec => TailscaleSpec /\ TamanuSpec
  BY <1>1, <1>2, PTL DEF Spec, TailscaleSpec, TamanuSpec
<1>4. OneActToItsEnd /\ ActsAreSeenThrough => ActsRunToTheirEnd
  BY DEF ActsRunToTheirEnd
<1> QED
  BY <1>3, <1>4, TailscaleSeenThrough, TamanuSeenThrough, PTL

\* power.rs and sampler.rs, in whatever order the daemon's parts take
\* their steps: an act of power is done as it was told, and a reader of
\* the default feed holds what there is.
THEOREM SessionsServed == Spec => [](GoesAsTold /\ ReaderHolds)
<1>1. Init => PowerInit /\ FeedInit
  BY DEF Init
<1>2. [Next]_vars => [PowerNext]_powerVars /\ [FeedNext]_feedVars
  BY DEF Next, vars
<1>3. Spec => PowerSpec /\ FeedSpec
  BY <1>1, <1>2, PTL DEF Spec, PowerSpec, FeedSpec
<1> QED
  BY <1>3, GoneAsTold, ReaderHeld, PTL
=============================================================================
