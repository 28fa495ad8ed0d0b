--------------------------- MODULE SessionProofs ---------------------------
\* What is proved of NetworkSession, for any number of sessions and any
\* documents, capabilities and bounds: what is held is what was told, what
\* is verified and what runs; sessions and the task agree; and a
\* verification is always against the configuration last judged.
EXTENDS NetworkSession, TLAPS

Outcomes == {"applied", "verifying", "failed"}
Docs == Documents \cup {NoDoc}
Stores == [doc : Docs, outcome : Outcomes, replaced : Docs]
Entries == States \cup {Unknown}
Snapshots == [revision : Nat, doc : Documents, outcome : Outcomes, caps : Nat, entries : Entries]
Waits == {"none", "propose", "act", "acting", "saved", "refused", "done"}
Reports == [busy : BOOLEAN, outcome : Outcomes \cup {"none"}, entries : Entries]
Sesses == [open : BOOLEAN, unseen : BOOLEAN, woken : BOOLEAN, told : Int, knows : Int, revision : Int,
           doc : Docs, reported : Reports, hand : Snapshots \cup {NoHand}, waits : Waits]

Confs == [doc : Documents, outcome : Outcomes, replaced : Docs, revision : Nat]
Jobs == [doc : Docs, against : Docs, asked : BOOLEAN, verdict : {"none", "applied", "failed"}]
Tasks == [pc : {"idle", "saving", "settling"}, doc : Docs, by : Sessions \cup {"gone"}, wrote : {"no", "ok", "err"}]
Commands == [kind : {"propose", "act"}, doc : Docs, by : Sessions \cup {"gone"}]
Backends == [states : States, unseen : BOOLEAN, caps : 0..MaxCaps, asked : Seq(Documents)]

DiskType == disk \in Stores /\ (disk.doc = NoDoc => disk = NoFile)
ConfType == conf \in Confs
JobType ==
    /\ job \in Jobs
    /\ job # NoJob => job.doc \in Documents
    /\ job.verdict # "none" => job.asked
TaskType ==
    /\ task \in Tasks
    /\ task.pc = "saving" => task.doc \in Documents
    /\ task.pc # "saving" => task.by = "gone"
QueueType == queue \in Seq(Commands)
PublishedType == published \in Snapshots
BackendType == backend \in Backends
HoldersType == holders \in Seq(Sessions)
SessType == sess \in [Sessions -> Sesses]
SessionType ==
    /\ DiskType /\ ConfType /\ JobType /\ TaskType /\ QueueType /\ PublishedType /\ BackendType
    /\ HoldersType /\ SessType /\ up \in BOOLEAN

\* What a write under way asked for is in the file, and a verification
\* under way is there with what it is against.
Recorded ==
    /\ (task.pc = "saving" /\ task.wrote = "ok") => disk = Recording
    /\ (up /\ ~SyncFails) => \/ Load.doc = conf.doc
                             \/ task.pc = "saving" /\ task.wrote = "ok" /\ Load.doc = task.doc
    /\ disk.outcome = "verifying" => disk.replaced \in Documents
    /\ conf.outcome = "verifying" =>
         disk.outcome = "verifying" /\ disk.replaced = conf.replaced /\ conf.replaced \in Documents

\* A verification runs exactly while one is owed.
Judged ==
    /\ up => /\ conf.outcome = "verifying" <=> job # NoJob
             /\ job # NoJob => job.doc = conf.doc /\ job.against = conf.replaced /\ job.against # NoDoc
    /\ (up /\ task.pc = "settling") => job = NoJob

\* The last the backend was asked to run, or is running.
Latest(b) == IF b.asked = <<>> THEN b.states.of ELSE b.asked[Len(b.asked)]
AsksLatest == (up /\ (job = NoJob \/ job.asked)) => Latest(backend) = conf.doc

\* What is published is what is held, and what was last heard of it.
PublishedIsHeld ==
    up => /\ published.revision = conf.revision /\ published.doc = conf.doc
          /\ task.pc # "settling" => published.outcome = conf.outcome
          /\ ~backend.unseen => published.entries = CountAs(backend.states, conf.doc)

\* A session with nothing unseen told its client what is published, but
\* for a `state` it has in hand to send.
Tells(x, p) ==
    /\ x.revision <= p.revision /\ (x.revision = p.revision => x.doc = p.doc)
    /\ ~x.unseen =>
         /\ x.revision = p.revision
         /\ x.hand # NoHand => x.hand.outcome = p.outcome /\ x.hand.entries = p.entries
         /\ (x.hand = NoHand /\ p.entries # Unknown) =>
              x.reported.outcome = p.outcome /\ x.reported.entries = p.entries

\* One not woken told it who holds the configuration.
TellsWho(x, p, busy) ==
    (~x.unseen /\ ~x.woken /\ x.hand = NoHand /\ p.entries # Unknown) => x.reported.busy = busy

Told ==
    \A s \in Sessions : sess[s].open =>
        Tells(sess[s], published) /\ TellsWho(sess[s], published, Busy(holders, s))

\* Every open session is among the holders, and only the first waits.
Held ==
    \A s \in Sessions :
        /\ sess[s].open => \E n \in DOMAIN holders : holders[n] = s
        /\ sess[s].waits # "none" => sess[s].open /\ ~Busy(holders, s)

\* What the task has been sent by a session is what that session waits
\* for, and is one thing at a time.
Pending ==
    /\ \A n \in DOMAIN queue : queue[n].by # "gone" =>
         sess[queue[n].by].waits = queue[n].kind /\ task.by # queue[n].by
    /\ \A n, m \in DOMAIN queue : (queue[n].by # "gone" /\ queue[n].by = queue[m].by) => n = m
    /\ task.by # "gone" => sess[task.by].waits = "propose"

DownIsIdle ==
    ~up => /\ job = NoJob /\ task = Idle /\ queue = <<>> /\ holders = <<>>
           /\ sess = [s \in Sessions |-> Closed]
           /\ backend.asked = <<>> /\ ~backend.unseen

SessionInv ==
    /\ SessionType /\ Recorded /\ Judged /\ AsksLatest /\ PublishedIsHeld
    /\ Told /\ Held /\ Pending /\ DownIsIdle

\* What stands for nothing is told apart from what is something.
LEMMA Sentinels ==
    /\ NoDoc \notin Documents /\ "unknown" \notin Docs /\ "gone" \notin Sessions
    /\ NoHand \notin Snapshots /\ Unknown \notin States /\ Unobserved \in States
    /\ NoFile \in Stores /\ NoJob \in Jobs /\ Idle \in Tasks /\ Closed \in Sesses
<1>1. NoDoc \notin Documents /\ "unknown" \notin Docs /\ "gone" \notin Sessions
  BY SessionAssumption DEF NoDoc, Docs
<1>2. NoHand \notin Snapshots
  BY DEF NoHand, Snapshots
<1>3. Unknown \notin States
  BY <1>1 DEF Unknown, States, Docs
<1>4. Unobserved \in States
  BY SessionAssumption DEF Unobserved, States
<1>5. NoFile \in Stores /\ NoJob \in Jobs /\ Idle \in Tasks
  BY DEF NoFile, Stores, NoJob, Jobs, Idle, Tasks, Docs, Outcomes
<1>6. NoReport \in Reports
  BY <1>4 DEF NoReport, Reports, Entries
<1>7. Closed \in Sesses
  BY <1>6 DEF Closed, Sesses, Docs, Waits
<1> QED
  BY <1>1, <1>2, <1>3, <1>4, <1>5, <1>7

\* Entries are some configuration's, or unknown (task.rs, snapshot).
LEMMA CountAsType == ASSUME NEW st \in States, NEW doc PROVE CountAs(st, doc) \in Entries
BY Sentinels DEF CountAs, Entries

\* A snapshot carries the revision, document and outcome it is made of.
LEMMA SnapshotType ==
    ASSUME NEW c \in Confs, NEW b \in Backends
    PROVE  /\ Snapshot(c, b) \in Snapshots
           /\ Snapshot(c, b).revision = c.revision /\ Snapshot(c, b).doc = c.doc
           /\ Snapshot(c, b).outcome = c.outcome /\ Snapshot(c, b).entries = CountAs(b.states, c.doc)
<1>1. c.revision \in Nat /\ c.doc \in Documents /\ c.outcome \in Outcomes /\ b.states \in States /\ b.caps \in 0..MaxCaps
  BY DEF Confs, Backends
<1>2. b.caps \in Nat /\ CountAs(b.states, c.doc) \in Entries
  BY <1>1, CountAsType, SessionAssumption
<1> QED
  BY <1>1, <1>2 DEF Snapshot, Snapshots

\* What is left of a queue once its head is taken.
LEMMA TailIs ==
    ASSUME NEW S, NEW q \in Seq(S), q # <<>>
    PROVE  /\ Tail(q) \in Seq(S) /\ Head(q) = q[1] /\ 1 \in DOMAIN q /\ Head(q) \in S
           /\ \A n \in DOMAIN Tail(q) : n \in Nat /\ n # 0 /\ n + 1 \in DOMAIN q /\ Tail(q)[n] = q[n + 1]
OBVIOUS

\* A queue that its head empties held one thing.
LEMMA TailOfOne == ASSUME NEW S, NEW q \in Seq(S), q # <<>>, Tail(q) = <<>> PROVE Len(q) = 1
<1> DEFINE t == Tail(q)
<1>1. t \in Seq(S) /\ t = <<>> /\ Len(t) = Len(q) - 1
  OBVIOUS
<1> HIDE DEF t
<1>2. Len(t) = 0
  BY <1>1
<1> QED
  BY <1>1, <1>2

\* A queue that something joins: its head stays, its last is new.
LEMMA AppendIs ==
    ASSUME NEW S, NEW q \in Seq(S), NEW e \in S
    PROVE  /\ Append(q, e) \in Seq(S)
           /\ \A n \in DOMAIN Append(q, e) : (n \in DOMAIN q /\ Append(q, e)[n] = q[n]) \/ (n = Len(q) + 1 /\ Append(q, e)[n] = e)
           /\ \A n \in DOMAIN q : n \in DOMAIN Append(q, e) /\ Append(q, e)[n] = q[n] /\ n # Len(q) + 1
           /\ Len(q) + 1 \in DOMAIN Append(q, e) /\ Append(q, e)[Len(q) + 1] = e
           /\ Append(q, e) # <<>> /\ (q # <<>> => Head(Append(q, e)) = Head(q))
OBVIOUS

\* A registration dropped leaves the first the first, and every other in.
KeepsOrder(w, h, s, S) ==
    /\ w \in Seq(S)
    /\ Head(h) # s => w # <<>> /\ Head(w) = Head(h)
    /\ \A t : t # s /\ (\E n \in DOMAIN h : h[n] = t) => \E n \in DOMAIN w : w[n] = t

\* A registration dropped: those left keep their order (holders.rs).
LEMMA WithoutIs ==
    ASSUME NEW S, NEW h \in Seq(S), NEW s, \E k \in DOMAIN h : h[k] = s
    PROVE  KeepsOrder(Without(h, s), h, s, S)
<1> DEFINE at == Place(h, s)
           w == Without(h, s)
<1>1. at \in 1..Len(h) /\ h[at] = s /\ Len(h) \in Nat \ {0}
  BY DEF Place
<1>2. w = [n \in 1..(Len(h) - 1) |-> h[IF n < at THEN n ELSE n + 1]]
  BY DEF Without
<1> HIDE DEF at, w
<1>3. \A n \in 1..(Len(h) - 1) : (IF n < at THEN n ELSE n + 1) \in 1..Len(h)
  BY <1>1
<1>4. w \in Seq(S)
  <2>1. \A n \in 1..(Len(h) - 1) : w[n] \in S
    BY <1>1, <1>2, <1>3
  <2>2. Len(h) - 1 \in Nat
    BY <1>1
  <2> QED
    BY <1>2, <2>1, <2>2
<1>5. DOMAIN w = 1..(Len(h) - 1) /\ Len(w) = Len(h) - 1
  BY <1>1, <1>2, <1>4
<1>6. \A t : t # s /\ (\E n \in DOMAIN h : h[n] = t) => \E n \in DOMAIN w : w[n] = t
  <2> SUFFICES ASSUME NEW t, t # s, NEW n \in DOMAIN h, h[n] = t
               PROVE  \E m \in DOMAIN w : w[m] = t
    OBVIOUS
  <2>1. CASE n < at
    <3>1. n \in 1..(Len(h) - 1)
      BY <1>1, <2>1
    <3> QED
      BY <1>2, <1>5, <2>1, <3>1
  <2>2. CASE n > at
    <3>1. n - 1 \in 1..(Len(h) - 1) /\ ~(n - 1 < at) /\ (n - 1) + 1 = n
      BY <1>1, <2>2
    <3> QED
      BY <1>2, <1>5, <3>1
  <2> QED
    BY <1>1, <2>1, <2>2
<1>7. Head(h) # s => w # <<>> /\ Head(w) = Head(h)
  <2> SUFFICES ASSUME Head(h) # s PROVE w # <<>> /\ Head(w) = Head(h)
    OBVIOUS
  <2>1. h # <<>> /\ Head(h) = h[1] /\ at # 1
    BY <1>1
  <2>2. 1 \in 1..(Len(h) - 1) /\ 1 < at
    BY <1>1, <2>1
  <2>3. w[1] = h[1] /\ Len(w) # 0
    BY <1>1, <1>2, <1>5, <2>2
  <2> QED
    BY <1>4, <2>1, <2>3
<1> QED
  BY <1>4, <1>6, <1>7 DEF w, KeepsOrder

\* The initial state.
LEMMA SessionInitInv == Init => SessionInv
<1> SUFFICES ASSUME Init PROVE SessionInv
  OBVIOUS
<1> USE DEF Init
<1>1. disk = NoFile /\ conf = [doc |-> Default, outcome |-> "applied", replaced |-> NoDoc, revision |-> 0]
  BY DEF Load
<1>2. Default \in Documents /\ 0 \in 0..MaxCaps /\ 0 \in 0..MaxChanges
  BY SessionAssumption
<1>3. conf \in Confs
  BY <1>1, <1>2 DEF Confs, Outcomes, Docs
<1>4. backend \in Backends /\ Latest(backend) = Default
  BY <1>2 DEF Backends, States, Docs, Latest
<1>5. DiskType /\ JobType /\ TaskType
  BY <1>1, Sentinels DEF DiskType, JobType, TaskType, NoJob, Idle
<1>6. QueueType /\ HoldersType /\ SessType
  BY Sentinels DEF QueueType, HoldersType, SessType
<1>7. PublishedType /\ PublishedIsHeld
  BY <1>3, <1>4, SnapshotType DEF PublishedType, PublishedIsHeld
<1>8. Recorded
  BY <1>1 DEF Recorded, Load, Idle, NoFile
<1>9. Judged /\ AsksLatest
  BY <1>1, <1>4 DEF Judged, AsksLatest, Idle
<1>10. Told /\ Held /\ Pending /\ DownIsIdle
  BY DEF Told, Held, Pending, DownIsIdle, Closed, Idle
<1> QED
  BY <1>3, <1>4, <1>5, <1>6, <1>7, <1>8, <1>9, <1>10 DEF SessionInv, SessionType, ConfType, BackendType
-----------------------------------------------------------------------------
\* What a session tells its client as it wakes, and as it sends what it
\* has in hand.
CarriesTo(x, me, snap, busy) ==
    /\ x \in Sesses
    /\ x.open = me.open /\ x.unseen = me.unseen /\ x.woken = me.woken /\ x.waits = me.waits
    /\ x.revision = me.revision /\ x.doc = me.doc /\ x.hand = me.hand
    /\ snap.entries # Unknown =>
         x.reported.busy = busy /\ x.reported.outcome = snap.outcome /\ x.reported.entries = snap.entries

\* What a report carries once its entries are known (open.rs, sync).
LEMMA CarriedIs ==
    ASSUME NEW me \in Sesses, NEW snap \in Snapshots, NEW caps \in BOOLEAN, NEW busy \in BOOLEAN
    PROVE  CarriesTo(Carried(me, snap, caps, busy), me, snap, busy)
<1> DEFINE r == [busy |-> busy, outcome |-> snap.outcome, entries |-> snap.entries]
           k == IF caps THEN snap.caps ELSE me.knows
<1>1. r \in Reports /\ k \in Int /\ r.busy = busy /\ r.outcome = snap.outcome /\ r.entries = snap.entries
  BY DEF Reports, Snapshots, Sesses
<1> HIDE DEF r, k
<1>2. [me EXCEPT !.reported = r, !.knows = k] \in Sesses
  BY <1>1 DEF Sesses
<1>3. Carried(me, snap, caps, busy) =
        IF snap.entries = Unknown THEN me ELSE [me EXCEPT !.reported = r, !.knows = k]
  BY DEF Carried, r, k
<1> QED
  BY <1>1, <1>2, <1>3 DEF Sesses, CarriesTo

SyncsTo(x, me) ==
    x \in Sesses /\ x.open = me.open /\ x.woken = me.woken /\ x.waits = me.waits /\ Tells(x, published)

\* What a session knows once it has synchronised (open.rs, sync).
LEMMA SyncIs ==
    ASSUME NEW me \in Sesses, me.hand = NoHand, published \in Snapshots, NEW busy \in BOOLEAN, NEW resend \in BOOLEAN,
           me.revision = published.revision => me.doc = published.doc
    PROVE  /\ SyncsTo(Sync(me, busy, resend), me)
           /\ \A b : (resend \/ b = busy) => TellsWho(Sync(me, busy, resend), published, b)
<1> DEFINE caps == me.told # published.caps
           seen == [me EXCEPT !.unseen = FALSE, !.told = published.caps]
           k == IF caps THEN published.caps ELSE seen.knows
           sent == [seen EXCEPT !.revision = published.revision, !.doc = published.doc, !.knows = k, !.hand = published]
           carried == Carried(seen, published, caps, busy)
<1>1. /\ published.caps \in Int /\ published.revision \in Nat /\ published.doc \in Docs /\ caps \in BOOLEAN
      /\ published # NoHand
  BY Sentinels DEF Snapshots, Docs
<1>2. /\ seen \in Sesses /\ seen.open = me.open /\ seen.woken = me.woken /\ seen.waits = me.waits /\ ~seen.unseen
      /\ seen.revision = me.revision /\ seen.doc = me.doc /\ seen.hand = NoHand
  BY <1>1 DEF Sesses
<1>3. Sync(me, busy, resend) = IF resend \/ me.revision # published.revision THEN sent ELSE carried
  BY DEF Sync
<1> HIDE DEF caps, seen
<1>4. k \in Int
  BY <1>1, <1>2 DEF Sesses
<1> HIDE DEF k
<1>5. /\ sent \in Sesses /\ sent.open = me.open /\ sent.woken = me.woken /\ sent.waits = me.waits /\ ~sent.unseen
      /\ sent.revision = published.revision /\ sent.doc = published.doc /\ sent.hand = published
  <2>1. published \in Snapshots \cup {NoHand} /\ published.revision \in Int
    BY <1>1
  <2>2. sent \in Sesses
    BY <1>1, <1>2, <1>4, <2>1 DEF Sesses
  <2> QED
    BY <1>2, <2>2 DEF Sesses
<1> HIDE DEF sent
<1>6. CASE resend \/ me.revision # published.revision
  BY <1>1, <1>3, <1>5, <1>6 DEF Tells, TellsWho, SyncsTo
<1>7. CASE ~(resend \/ me.revision # published.revision)
  <2>1. /\ carried \in Sesses
        /\ carried.open = me.open /\ ~carried.unseen /\ carried.woken = me.woken /\ carried.waits = me.waits
        /\ carried.revision = published.revision /\ carried.doc = published.doc /\ carried.hand = NoHand
        /\ published.entries # Unknown =>
             /\ carried.reported.busy = busy /\ carried.reported.outcome = published.outcome
             /\ carried.reported.entries = published.entries
    <3>1. CarriesTo(carried, seen, published, busy)
      BY <1>1, <1>2, CarriedIs
    <3> HIDE DEF carried
    <3> QED
      BY <1>2, <1>7, <3>1 DEF CarriesTo
  <2> HIDE DEF carried
  <2> QED
    BY <1>1, <1>3, <1>7, <2>1 DEF Tells, TellsWho, SyncsTo
<1> QED
  BY <1>6, <1>7

\* A session as it was, but for what it waits for.
SameTold(x, y) ==
    /\ y.open = x.open /\ y.unseen = x.unseen /\ y.woken = x.woken /\ y.revision = x.revision /\ y.doc = x.doc
    /\ y.hand = x.hand /\ y.reported = x.reported

\* An answer reaches the session that asked, and nobody else.
LEMMA AnswerIs ==
    ASSUME SessType, NEW by, by \in Sessions \cup {"gone"}, NEW answer \in Waits
    PROVE  /\ Answer(sess, by, answer) \in [Sessions -> Sesses]
           /\ \A s \in Sessions : SameTold(sess[s], Answer(sess, by, answer)[s])
           /\ \A s \in Sessions : Answer(sess, by, answer)[s].waits = IF s = by THEN answer ELSE sess[s].waits
<1>1. "gone" \notin Sessions /\ sess \in [Sessions -> Sesses]
  BY Sentinels DEF SessType
<1>2. CASE by = "gone"
  BY <1>1, <1>2 DEF Answer, SameTold
<1>3. CASE by # "gone"
  <2>1. by \in Sessions /\ Answer(sess, by, answer) = [sess EXCEPT ![by] = [sess[by] EXCEPT !.waits = answer]]
    BY <1>1, <1>3 DEF Answer
  <2>2. /\ [sess[by] EXCEPT !.waits = answer] \in Sesses
        /\ SameTold(sess[by], [sess[by] EXCEPT !.waits = answer])
        /\ [sess[by] EXCEPT !.waits = answer].waits = answer
    BY <1>1, <2>1 DEF Sesses, SameTold
  <2> QED
    BY <1>1, <2>1, <2>2 DEF SameTold
<1> QED
  BY <1>2, <1>3

\* The task publishing wakes every open session where anything changed,
\* and otherwise none has anything to be told.
LEMMA PublishKeeps ==
    ASSUME SessionInv, up, NEW c \in Confs, c.revision >= conf.revision,
           c.revision = conf.revision => c.doc = conf.doc,
           NEW ss \in [Sessions -> Sesses], \A s \in Sessions : SameTold(sess[s], ss[s]),
           Publish(c, backend, ss), UNCHANGED holders
    PROVE  /\ PublishedType' /\ SessType' /\ Told'
           /\ \A s \in Sessions : sess'[s].open = sess[s].open /\ sess'[s].waits = ss[s].waits
           /\ published'.revision = c.revision /\ published'.doc = c.doc /\ published'.outcome = c.outcome
           /\ published'.entries = CountAs(backend.states, c.doc)
<1> DEFINE next == Snapshot(c, backend)
<1>1. published \in Snapshots /\ sess \in [Sessions -> Sesses] /\ backend \in Backends /\ Told /\ PublishedIsHeld
  BY DEF SessionInv, SessionType, PublishedType, SessType, BackendType
<1>2. /\ next \in Snapshots /\ next.revision = c.revision /\ next.doc = c.doc /\ next.outcome = c.outcome
      /\ next.entries = CountAs(backend.states, c.doc)
  BY <1>1, SnapshotType
<1>3. published' = next /\ sess' = Wakes(ss, next)
  BY DEF Publish
<1> HIDE DEF next
<1>4. published.revision <= next.revision /\ (published.revision = next.revision => next.doc = published.doc)
  BY <1>1, <1>2 DEF PublishedIsHeld, Snapshots, Confs
<1>5. CASE next = published
  <2>1. sess' = ss
    BY <1>3, <1>5 DEF Wakes
  <2>2. Told'
    BY <1>1, <1>3, <1>5, <2>1 DEF Told, SameTold, Tells, TellsWho
  <2> QED
    BY <1>1, <1>2, <1>3, <1>5, <2>1, <2>2 DEF PublishedType, SessType, SameTold
<1>6. CASE next # published
  <2>1. sess' = [s \in Sessions |-> [ss[s] EXCEPT !.unseen = @ \/ ss[s].open]]
    BY <1>3, <1>6 DEF Wakes
  <2>2. ASSUME NEW s \in Sessions
        PROVE  LET x == [ss[s] EXCEPT !.unseen = @ \/ ss[s].open] IN
               /\ x \in Sesses /\ x.open = ss[s].open /\ x.waits = ss[s].waits
               /\ x.revision = ss[s].revision /\ x.doc = ss[s].doc /\ (x.open => x.unseen)
    <3>1. ss[s] \in Sesses /\ (ss[s].unseen \/ ss[s].open) \in BOOLEAN
      BY DEF Sesses
    <3> QED
      BY <3>1 DEF Sesses
  <2>3. SessType'
    BY <2>1, <2>2 DEF SessType
  <2>4. Told'
    <3> SUFFICES ASSUME NEW s \in Sessions, sess'[s].open
                 PROVE  Tells(sess'[s], next) /\ TellsWho(sess'[s], next, Busy(holders, s))
      BY <1>3 DEF Told
    <3>1. sess'[s].unseen /\ sess'[s].revision = sess[s].revision /\ sess'[s].doc = sess[s].doc /\ sess[s].open
      BY <2>1, <2>2 DEF SameTold
    <3>2. sess[s].revision \in Int /\ published.revision \in Nat /\ next.revision \in Nat
      BY <1>1, <1>2 DEF Sesses, Snapshots
    <3>3. sess[s].revision <= published.revision /\ (sess[s].revision = published.revision => sess[s].doc = published.doc)
      BY <1>1, <3>1 DEF Told, Tells
    <3>4. sess[s].revision <= next.revision /\ (sess[s].revision = next.revision => sess[s].doc = next.doc)
      BY <1>4, <3>2, <3>3
    <3> QED
      BY <3>1, <3>4 DEF Tells, TellsWho
  <2> QED
    BY <1>2, <1>3, <2>1, <2>2, <2>3, <2>4 DEF PublishedType, SameTold
<1> QED
  BY <1>5, <1>6
-----------------------------------------------------------------------------
\* A step of a session alone leaves the task's part of the invariant.
LEMMA OwnStep ==
    ASSUME SessionInv, up, UNCHANGED <<disk, conf, job, task, published, backend, up>>,
           QueueType', HoldersType', SessType', Told', Held', Pending'
    PROVE  SessionInv'
<1>1. /\ SessionType /\ Recorded /\ Judged /\ AsksLatest /\ PublishedIsHeld
  BY DEF SessionInv
<1>2. SessionType'
  BY <1>1 DEF SessionType, DiskType, ConfType, JobType, TaskType, PublishedType, BackendType, NoFile, NoJob
<1>3. Recorded' /\ Judged' /\ AsksLatest' /\ PublishedIsHeld' /\ DownIsIdle'
  BY <1>1 DEF Recorded, Recording, Load, StoredNow, Replaced, NoFile, Judged, NoJob, AsksLatest, Latest,
     PublishedIsHeld,
     CountAs, DownIsIdle
<1> QED
  BY <1>2, <1>3 DEF SessionInv

\* What one session came to tell its client.
LEMMA TellsOn ==
    ASSUME SessionInv, NEW s \in Sessions, NEW x \in Sesses, sess' = [sess EXCEPT ![s] = x],
           UNCHANGED <<published, holders>>, x.open = sess[s].open,
           x.open => Tells(x, published) /\ TellsWho(x, published, Busy(holders, s)),
           x.waits # "none" => x.open /\ ~Busy(holders, s)
    PROVE  /\ SessType' /\ Told' /\ Held' /\ HoldersType'
           /\ \A t \in Sessions : sess'[t] = IF t = s THEN x ELSE sess[t]
<1>1. sess \in [Sessions -> Sesses] /\ Told /\ Held /\ HoldersType
  BY DEF SessionInv, SessionType, SessType
<1>2. sess' \in [Sessions -> Sesses] /\ \A t \in Sessions : sess'[t] = IF t = s THEN x ELSE sess[t]
  BY <1>1
<1>3. Told'
  BY <1>1, <1>2 DEF Told
<1>4. Held'
  BY <1>1, <1>2 DEF Held
<1> QED
  BY <1>1, <1>2, <1>3, <1>4 DEF SessType, HoldersType

\* Nothing sent to the task comes to be waited for otherwise.
LEMMA WaitsSame ==
    ASSUME SessionInv, UNCHANGED <<queue, task>>,
           \A t \in Sessions : sess'[t].waits = sess[t].waits \/ sess[t].waits \notin {"propose", "act"}
    PROVE  Pending' /\ QueueType'
<1>1. Pending /\ queue \in Seq(Commands) /\ task \in Tasks
  BY DEF SessionInv, SessionType, QueueType, TaskType
<1>2. \A n \in DOMAIN queue : queue[n] \in Commands
  BY <1>1
<1>3. \A n \in DOMAIN queue : queue[n].kind \in {"propose", "act"} /\ (queue[n].by # "gone" => queue[n].by \in Sessions)
  BY <1>2 DEF Commands
<1>4. task.by # "gone" => task.by \in Sessions
  BY <1>1 DEF Tasks
<1>5. Pending'
  BY <1>1, <1>3, <1>4 DEF Pending
<1> QED
  BY <1>1, <1>5 DEF QueueType

\* Somebody else is the oldest, or nobody is.
LEMMA BusyType == ASSUME NEW hs, NEW s PROVE Busy(hs, s) \in BOOLEAN
BY DEF Busy

\* What is known of an open session as one of its steps begins.
LEMMA OpenIs ==
    ASSUME SessionInv, NEW s \in Sessions, sess[s].open
    PROVE  /\ up /\ sess[s] \in Sesses /\ published \in Snapshots
           /\ Tells(sess[s], published) /\ TellsWho(sess[s], published, Busy(holders, s))
           /\ sess[s].waits # "none" => ~Busy(holders, s)
           /\ sess[s].revision = published.revision => sess[s].doc = published.doc
<1>1. SessType /\ PublishedType /\ Told /\ Held /\ DownIsIdle /\ up \in BOOLEAN
  BY DEF SessionInv, SessionType
<1>2. up
  BY <1>1 DEF DownIsIdle, Closed
<1>3. sess[s] \in Sesses /\ published \in Snapshots
  BY <1>1 DEF SessType, PublishedType
<1> QED
  BY <1>1, <1>2, <1>3 DEF Told, Held, Tells

\* A session writes out what it found to tell (open.rs, sync).
LEMMA SendsStateKeeps == ASSUME SessionInv, NEW s \in Sessions, SendsState(s) PROVE SessionInv'
<1> DEFINE me == [sess[s] EXCEPT !.hand = NoHand]
           x == Carried(me, sess[s].hand, FALSE, Busy(holders, s))
<1>1. /\ up /\ sess[s].open /\ sess[s].hand # NoHand
      /\ sess' = [sess EXCEPT ![s] = x]
      /\ UNCHANGED <<queue, holders, disk, conf, job, task, published, backend, up>>
  BY DEF SendsState, OnlySession
<1>2. /\ sess[s] \in Sesses /\ published \in Snapshots /\ Tells(sess[s], published)
      /\ sess[s].waits # "none" => ~Busy(holders, s)
  BY <1>1, OpenIs
<1>3. sess[s].hand \in Snapshots
  BY <1>1, <1>2 DEF Sesses
<1>4. /\ me \in Sesses /\ me.open = sess[s].open /\ me.unseen = sess[s].unseen /\ me.woken = sess[s].woken
      /\ me.waits = sess[s].waits /\ me.revision = sess[s].revision /\ me.doc = sess[s].doc /\ me.hand = NoHand
  BY <1>2 DEF Sesses
<1> HIDE DEF me
<1>5. CarriesTo(x, me, sess[s].hand, Busy(holders, s))
  BY <1>3, <1>4, CarriedIs, BusyType
<1> HIDE DEF x
<1>6. Tells(x, published) /\ TellsWho(x, published, Busy(holders, s))
  BY <1>1, <1>2, <1>4, <1>5 DEF CarriesTo, Tells, TellsWho
<1>7. x \in Sesses /\ x.open = sess[s].open /\ x.waits = sess[s].waits
  BY <1>4, <1>5 DEF CarriesTo
<1>8. /\ SessType' /\ Told' /\ Held' /\ HoldersType'
      /\ \A t \in Sessions : sess'[t] = IF t = s THEN x ELSE sess[t]
  BY <1>1, <1>2, <1>6, <1>7, TellsOn
<1>9. Pending' /\ QueueType'
  BY <1>1, <1>7, <1>8, WaitsSame
<1> QED
  BY <1>1, <1>8, <1>9, OwnStep

\* A session that takes in what is published.
LEMMA SyncStep ==
    ASSUME SessionInv, NEW s \in Sessions, sess[s].open, NEW me \in Sesses, me.open, me.hand = NoHand,
           me.revision = sess[s].revision, me.doc = sess[s].doc,
           me.waits = sess[s].waits \/ (me.waits = "none" /\ sess[s].waits \notin {"propose", "act"}),
           NEW busy \in BOOLEAN, NEW resend \in BOOLEAN, resend \/ busy = Busy(holders, s),
           sess' = [sess EXCEPT ![s] = Sync(me, busy, resend)],
           UNCHANGED <<queue, holders, disk, conf, job, task, published, backend, up>>
    PROVE  SessionInv'
<1> DEFINE x == Sync(me, busy, resend)
<1>1. /\ up /\ published \in Snapshots
      /\ sess[s].waits # "none" => ~Busy(holders, s)
      /\ me.revision = published.revision => me.doc = published.doc
  BY OpenIs
<1>2. SyncsTo(x, me) /\ TellsWho(x, published, Busy(holders, s))
  BY <1>1, SyncIs
<1>3. sess' = [sess EXCEPT ![s] = x]
  OBVIOUS
<1> HIDE DEF x
<1>4. x \in Sesses /\ x.open = sess[s].open /\ x.waits = me.waits /\ Tells(x, published)
  BY <1>2 DEF SyncsTo
<1>5. x.waits # "none" => x.open /\ ~Busy(holders, s)
  BY <1>1, <1>4
<1>6. /\ SessType' /\ Told' /\ Held' /\ HoldersType'
      /\ \A t \in Sessions : sess'[t] = IF t = s THEN x ELSE sess[t]
  BY <1>2, <1>3, <1>4, <1>5, TellsOn
<1>7. Pending' /\ QueueType'
  BY <1>4, <1>6, WaitsSame
<1> QED
  BY <1>1, <1>6, <1>7, OwnStep

\* A session between messages wakes to a change (open.rs, changed).
LEMMA WakeKeeps == ASSUME SessionInv, NEW s \in Sessions, Wake(s) PROVE SessionInv'
<1>1. /\ sess[s].open /\ sess[s].hand = NoHand
      /\ UNCHANGED <<queue, holders, disk, conf, job, task, published, backend, up>>
  BY DEF Wake, Between, OnlySession
<1>2. sess[s] \in Sesses /\ Busy(holders, s) \in BOOLEAN
  BY <1>1, OpenIs, BusyType
<1>3. CASE sess' = [sess EXCEPT ![s] = Sync(sess[s], Busy(holders, s), FALSE)]
  BY <1>1, <1>2, <1>3, SyncStep
<1>4. CASE sess' = [sess EXCEPT ![s] = Sync([sess[s] EXCEPT !.woken = FALSE], Busy(holders, s), FALSE)]
  <2> DEFINE me == [sess[s] EXCEPT !.woken = FALSE]
  <2>1. /\ me \in Sesses /\ me.open = sess[s].open /\ me.hand = sess[s].hand
        /\ me.revision = sess[s].revision /\ me.doc = sess[s].doc /\ me.waits = sess[s].waits
    BY <1>2 DEF Sesses
  <2>2. sess' = [sess EXCEPT ![s] = Sync(me, Busy(holders, s), FALSE)]
    BY <1>4
  <2> HIDE DEF me
  <2> QED
    BY <1>1, <1>2, <2>1, <2>2, SyncStep
<1> QED
  BY <1>3, <1>4 DEF Wake

\* A client asks how the device is configured (open.rs, handle).
LEMMA ConfigureKeeps == ASSUME SessionInv, NEW s \in Sessions, Configure(s) PROVE SessionInv'
<1> DEFINE me == [sess[s] EXCEPT !.told = -1]
<1>1. /\ sess[s].open /\ sess[s].hand = NoHand
      /\ sess' = [sess EXCEPT ![s] = Sync(me, FALSE, TRUE)]
      /\ UNCHANGED <<queue, holders, disk, conf, job, task, published, backend, up>>
  BY DEF Configure, Reads, Between, OnlySession
<1>2. sess[s] \in Sesses
  BY <1>1, OpenIs
<1>3. /\ me \in Sesses /\ me.open = sess[s].open /\ me.hand = sess[s].hand
      /\ me.revision = sess[s].revision /\ me.doc = sess[s].doc /\ me.waits = sess[s].waits
  BY <1>2 DEF Sesses
<1> HIDE DEF me
<1> QED
  BY <1>1, <1>3, SyncStep

\* A session that asks the task for something is the first of the holders,
\* and waits for nothing else.
LEMMA SendsKeeps ==
    ASSUME SessionInv, NEW s \in Sessions, sess[s].open, sess[s].waits = "none", ~Busy(holders, s),
           NEW kind \in {"propose", "act"}, NEW doc \in Docs, Sends(s, kind, doc),
           UNCHANGED <<holders, disk, conf, job, task, published, backend, up>>
    PROVE  SessionInv'
<1> DEFINE x == [sess[s] EXCEPT !.waits = kind]
           e == [kind |-> kind, doc |-> doc, by |-> s]
<1>1. /\ up /\ sess[s] \in Sesses
      /\ Tells(sess[s], published) /\ TellsWho(sess[s], published, Busy(holders, s))
  BY OpenIs
<1>2. /\ x \in Sesses /\ x.open = sess[s].open /\ x.unseen = sess[s].unseen /\ x.woken = sess[s].woken
      /\ x.revision = sess[s].revision /\ x.doc = sess[s].doc /\ x.hand = sess[s].hand
      /\ x.reported = sess[s].reported /\ x.waits = kind
  BY <1>1 DEF Sesses, Waits
<1>3. sess' = [sess EXCEPT ![s] = x] /\ queue' = Append(queue, e)
  BY DEF Sends
<1>4. e \in Commands /\ e.by = s /\ e.kind = kind
  BY DEF Commands
<1> HIDE DEF x, e
<1>5. Tells(x, published) /\ TellsWho(x, published, Busy(holders, s))
  BY <1>1, <1>2 DEF Tells, TellsWho
<1>6. /\ SessType' /\ Told' /\ Held' /\ HoldersType'
      /\ \A t \in Sessions : sess'[t] = IF t = s THEN x ELSE sess[t]
  BY <1>2, <1>3, <1>5, TellsOn
<1>7. queue \in Seq(Commands) /\ task \in Tasks /\ Pending
  BY DEF SessionInv, SessionType, QueueType, TaskType
<1>8. \A n \in DOMAIN queue : queue[n].kind \in {"propose", "act"} /\ (queue[n].by # "gone" => queue[n].by \in Sessions)
  <2>1. \A n \in DOMAIN queue : queue[n] \in Commands
    BY <1>7
  <2> QED
    BY <2>1 DEF Commands
<1>9. /\ queue' \in Seq(Commands)
      /\ \A n \in DOMAIN queue' : (n \in DOMAIN queue /\ queue'[n] = queue[n]) \/ (n = Len(queue) + 1 /\ queue'[n] = e)
  BY <1>3, <1>4, <1>7, AppendIs
<1>10. (\A n \in DOMAIN queue : queue[n].by # s) /\ task.by # s
  BY <1>7, <1>8, Sentinels DEF Pending
<1>11. task.by # "gone" => task.by \in Sessions
  BY <1>7 DEF Tasks
<1>12. Pending'
  <2>1. ASSUME NEW n \in DOMAIN queue', queue'[n].by # "gone"
        PROVE  sess'[queue'[n].by].waits = queue'[n].kind /\ task'.by # queue'[n].by
    BY <1>2, <1>4, <1>6, <1>7, <1>8, <1>9, <1>10, <2>1 DEF Pending
  <2>2. ASSUME NEW n \in DOMAIN queue', NEW m \in DOMAIN queue', queue'[n].by # "gone", queue'[n].by = queue'[m].by
        PROVE  n = m
    BY <1>4, <1>7, <1>9, <1>10, <2>2 DEF Pending
  <2>3. task'.by # "gone" => sess'[task'.by].waits = "propose"
    BY <1>6, <1>7, <1>10, <1>11 DEF Pending
  <2> QED
    BY <2>1, <2>2, <2>3 DEF Pending
<1> QED
  BY <1>1, <1>6, <1>9, <1>12, OwnStep DEF QueueType

\* A client proposes a document (open.rs, propose).
LEMMA ProposeKeeps == ASSUME SessionInv, NEW s \in Sessions, NEW doc \in Documents, Propose(s, doc) PROVE SessionInv'
<1>1. /\ sess[s].open /\ sess[s].hand = NoHand /\ sess[s].waits = "none"
      /\ UNCHANGED <<holders, disk, conf, job, task, published, backend, up>>
  BY DEF Propose, Reads, Between, OnlySession
<1>2. sess[s] \in Sesses
  BY <1>1, OpenIs
<1>3. CASE Busy(holders, s)
  <2>1. UNCHANGED queue /\ sess' = [sess EXCEPT ![s] = Sync(sess[s], FALSE, TRUE)]
    BY <1>3 DEF Propose, Refuses
  <2> QED
    BY <1>1, <1>2, <2>1, SyncStep
<1>4. CASE ~Busy(holders, s)
  BY <1>1, <1>4, SendsKeeps DEF Propose, Docs
<1> QED
  BY <1>3, <1>4

\* A client asks for an act of the oldest session (open.rs, act).
LEMMA ActKeeps == ASSUME SessionInv, NEW s \in Sessions, Act(s) PROVE SessionInv'
<1>1. /\ sess[s].open /\ sess[s].waits = "none" /\ ~Busy(holders, s) /\ Sends(s, "act", NoDoc)
      /\ UNCHANGED <<holders, disk, conf, job, task, published, backend, up>>
  BY DEF Act, Reads, Between, OnlySession
<1> QED
  BY <1>1, SendsKeeps DEF Docs

\* A session takes the task's answer (open.rs, answered).
LEMMA TakesAnswerKeeps == ASSUME SessionInv, NEW s \in Sessions, TakesAnswer(s) PROVE SessionInv'
<1> DEFINE me == [sess[s] EXCEPT !.waits = "none"]
<1>1. /\ sess[s].open /\ sess[s].hand = NoHand /\ sess[s].waits \in {"saved", "refused", "done"}
      /\ sess' = [sess EXCEPT ![s] = IF sess[s].waits = "refused" THEN Sync(me, FALSE, TRUE) ELSE me]
      /\ UNCHANGED <<queue, holders, disk, conf, job, task, published, backend, up>>
  BY DEF TakesAnswer, Between, Answered, OnlySession
<1>2. /\ up /\ sess[s] \in Sesses /\ Tells(sess[s], published) /\ TellsWho(sess[s], published, Busy(holders, s))
  BY <1>1, OpenIs
<1>3. /\ me \in Sesses /\ me.open = sess[s].open /\ me.unseen = sess[s].unseen /\ me.woken = sess[s].woken
      /\ me.revision = sess[s].revision /\ me.doc = sess[s].doc /\ me.hand = sess[s].hand
      /\ me.reported = sess[s].reported /\ me.waits = "none"
  BY <1>2 DEF Sesses, Waits
<1> HIDE DEF me
<1>4. CASE sess[s].waits = "refused"
  BY <1>1, <1>3, <1>4, SyncStep
<1>5. CASE sess[s].waits # "refused"
  <2>1. sess' = [sess EXCEPT ![s] = me]
    BY <1>1, <1>5
  <2>2. Tells(me, published) /\ TellsWho(me, published, Busy(holders, s))
    BY <1>2, <1>3 DEF Tells, TellsWho
  <2>3. /\ SessType' /\ Told' /\ Held' /\ HoldersType'
        /\ \A t \in Sessions : sess'[t] = IF t = s THEN me ELSE sess[t]
    BY <1>1, <1>3, <2>1, <2>2, TellsOn
  <2>4. Pending' /\ QueueType'
    BY <1>1, <2>3, WaitsSame
  <2> QED
    BY <1>1, <1>2, <2>3, <2>4, OwnStep
<1> QED
  BY <1>4, <1>5

\* An act of a session is over (task.rs, carry_out).
LEMMA ActEndsKeeps == ASSUME SessionInv, NEW s \in Sessions, ActEnds(s) PROVE SessionInv'
<1> DEFINE me == [sess[s] EXCEPT !.waits = "done"]
<1>1. /\ up /\ sess[s].waits = "acting" /\ sess' = [sess EXCEPT ![s] = me]
      /\ UNCHANGED <<queue, holders, disk, conf, job, task, published, backend, up>>
  BY DEF ActEnds
<1>2. sess[s] \in Sesses /\ Told /\ Held
  BY DEF SessionInv, SessionType, SessType
<1>3. /\ me \in Sesses /\ me.open = sess[s].open /\ me.unseen = sess[s].unseen /\ me.woken = sess[s].woken
      /\ me.revision = sess[s].revision /\ me.doc = sess[s].doc /\ me.hand = sess[s].hand
      /\ me.reported = sess[s].reported /\ me.waits = "done"
  BY <1>2 DEF Sesses, Waits
<1> HIDE DEF me
<1>4. me.open => Tells(me, published) /\ TellsWho(me, published, Busy(holders, s))
  BY <1>2, <1>3 DEF Told, Tells, TellsWho
<1>5. me.open /\ ~Busy(holders, s)
  BY <1>1, <1>2, <1>3 DEF Held
<1>6. /\ SessType' /\ Told' /\ Held' /\ HoldersType'
      /\ \A t \in Sessions : sess'[t] = IF t = s THEN me ELSE sess[t]
  BY <1>1, <1>3, <1>4, <1>5, TellsOn
<1>7. Pending' /\ QueueType'
  BY <1>1, <1>6, WaitsSame
<1> QED
  BY <1>1, <1>6, <1>7, OwnStep
-----------------------------------------------------------------------------
\* Sessions opening and closing: the others are woken.
WokenTo(y, x) ==
    /\ y \in Sesses
    /\ y.open = x.open /\ y.unseen = x.unseen /\ y.revision = x.revision /\ y.doc = x.doc
    /\ y.hand = x.hand /\ y.reported = x.reported /\ y.waits = x.waits
    /\ y.open => y.woken

\* A session woken is as it was but for that (holders.rs, register).
LEMMA WokenIs ==
    ASSUME NEW ss \in [Sessions -> Sesses], NEW s
    PROVE  /\ Woken(ss, s) \in [Sessions -> Sesses]
           /\ \A t \in Sessions : IF t = s THEN Woken(ss, s)[t] = ss[t] ELSE WokenTo(Woken(ss, s)[t], ss[t])
<1>1. ASSUME NEW t \in Sessions PROVE WokenTo([ss[t] EXCEPT !.woken = @ \/ ss[t].open], ss[t])
  <2>1. ss[t] \in Sesses /\ (ss[t].woken \/ ss[t].open) \in BOOLEAN
    BY DEF Sesses
  <2> QED
    BY <2>1 DEF WokenTo, Sesses
<1>2. \A t \in Sessions : WokenTo([ss[t] EXCEPT !.woken = @ \/ ss[t].open], ss[t])
  BY <1>1
<1>3. \A t \in Sessions : [ss[t] EXCEPT !.woken = @ \/ ss[t].open] \in Sesses
  BY <1>2 DEF WokenTo
<1> QED
  BY <1>2, <1>3 DEF Woken

\* Those beyond the one that comes or goes are at most woken.
LEMMA OthersWoken ==
    ASSUME SessionInv, NEW t \in Sessions, WokenTo(sess'[t], sess[t]), UNCHANGED published
    PROVE  sess'[t].open => Tells(sess'[t], published) /\ \A b : TellsWho(sess'[t], published, b)
BY DEF SessionInv, Told, WokenTo, Tells, TellsWho

\* A session opens and registers (open.rs, serve).
LEMMA OpensKeeps == ASSUME SessionInv, NEW s \in Sessions, Opens(s) PROVE SessionInv'
<1> DEFINE me == [Closed EXCEPT !.open = TRUE]
           x == Sync(me, FALSE, TRUE)
           ss == [sess EXCEPT ![s] = x]
<1>1. /\ up /\ ~sess[s].open /\ holders' = Append(holders, s) /\ sess' = Woken(ss, s)
      /\ UNCHANGED <<queue, disk, conf, job, task, published, backend, up>>
  BY DEF Opens, OnlySession
<1>2. /\ sess \in [Sessions -> Sesses] /\ published \in Snapshots /\ holders \in Seq(Sessions) /\ Told /\ Held /\ Pending
      /\ queue \in Seq(Commands) /\ task \in Tasks
  BY DEF SessionInv, SessionType, SessType, PublishedType, HoldersType, QueueType, TaskType
<1>3. /\ me \in Sesses /\ me.open /\ me.waits = "none" /\ me.revision = -1 /\ me.hand = NoHand
  BY Sentinels DEF Closed, Sesses
<1> HIDE DEF me
<1>4. SyncsTo(x, me) /\ \A b : TellsWho(x, published, b)
  <2>1. me.revision # published.revision
    BY <1>2, <1>3 DEF Snapshots
  <2> QED
    BY <1>2, <1>3, <2>1, SyncIs
<1>5. x \in Sesses /\ x.open /\ x.waits = "none" /\ Tells(x, published)
  BY <1>3, <1>4 DEF SyncsTo
<1> HIDE DEF x
<1>6. ss \in [Sessions -> Sesses] /\ \A t \in Sessions : ss[t] = IF t = s THEN x ELSE sess[t]
  BY <1>2, <1>5
<1> HIDE DEF ss
<1>7. /\ SessType' /\ sess'[s] = x
      /\ \A t \in Sessions : t # s => WokenTo(sess'[t], sess[t])
  BY <1>1, <1>6, WokenIs DEF SessType
<1>8. /\ holders' \in Seq(Sessions) /\ holders' # <<>> /\ (holders # <<>> => Head(holders') = Head(holders))
      /\ \A n \in DOMAIN holders : n \in DOMAIN holders' /\ holders'[n] = holders[n]
      /\ Len(holders) + 1 \in DOMAIN holders' /\ holders'[Len(holders) + 1] = s
  BY <1>1, <1>2, AppendIs
<1>9. Told'
  <2> SUFFICES ASSUME NEW t \in Sessions, sess'[t].open
               PROVE  Tells(sess'[t], published') /\ TellsWho(sess'[t], published', Busy(holders', t))
    BY DEF Told
  <2>1. CASE t = s
    BY <1>1, <1>4, <1>5, <1>7, <2>1
  <2>2. CASE t # s
    BY <1>1, <1>7, <2>2, OthersWoken
  <2> QED
    BY <2>1, <2>2
<1>10. Held'
  <2> SUFFICES ASSUME NEW t \in Sessions
               PROVE  /\ sess'[t].open => \E n \in DOMAIN holders' : holders'[n] = t
                      /\ sess'[t].waits # "none" => sess'[t].open /\ ~Busy(holders', t)
    BY DEF Held
  <2>1. CASE t = s
    BY <1>5, <1>7, <1>8, <2>1
  <2>2. CASE t # s
    <3>1. sess'[t].open = sess[t].open /\ sess'[t].waits = sess[t].waits
      BY <1>7, <2>2 DEF WokenTo
    <3> QED
      BY <1>2, <1>8, <3>1 DEF Held, Busy
  <2> QED
    BY <2>1, <2>2
<1>11. Pending' /\ QueueType'
  <2>1. sess[s].waits \notin {"propose", "act"}
    BY <1>1, <1>2 DEF Held
  <2> QED
    BY <1>1, <1>7, <2>1, WaitsSame DEF WokenTo
<1> QED
  BY <1>1, <1>7, <1>8, <1>9, <1>10, <1>11, OwnStep DEF HoldersType

\* A client goes, at any point: what its session asked the task for is
\* still carried out, for nobody.
LEMMA ClosesKeeps == ASSUME SessionInv, NEW s \in Sessions, Closes(s) PROVE SessionInv'
<1> DEFINE ss == [sess EXCEPT ![s] = Closed]
<1>1. /\ up /\ sess[s].open /\ holders' = Without(holders, s) /\ sess' = Woken(ss, s)
      /\ queue' = [n \in DOMAIN queue |-> IF queue[n].by = s THEN [queue[n] EXCEPT !.by = "gone"] ELSE queue[n]]
      /\ task' = IF task.by = s THEN [task EXCEPT !.by = "gone"] ELSE task
      /\ UNCHANGED <<disk, conf, job, published, backend, up, spent>>
  BY DEF Closes
<1>2. /\ sess \in [Sessions -> Sesses] /\ holders \in Seq(Sessions) /\ Told /\ Held /\ Pending
      /\ queue \in Seq(Commands) /\ task \in Tasks
      /\ SessionType /\ Recorded /\ Judged /\ AsksLatest /\ PublishedIsHeld
  BY DEF SessionInv, SessionType, SessType, HoldersType, QueueType, TaskType
<1>3. ss \in [Sessions -> Sesses] /\ \A t \in Sessions : ss[t] = IF t = s THEN Closed ELSE sess[t]
  BY <1>2, Sentinels
<1> HIDE DEF ss
<1>4. /\ SessType' /\ sess'[s] = Closed
      /\ \A t \in Sessions : t # s => WokenTo(sess'[t], sess[t])
  BY <1>1, <1>3, WokenIs DEF SessType
<1>5. /\ holders' \in Seq(Sessions)
      /\ Head(holders) # s => holders' # <<>> /\ Head(holders') = Head(holders)
      /\ \A t : t # s /\ (\E n \in DOMAIN holders : holders[n] = t) => \E n \in DOMAIN holders' : holders'[n] = t
  <2>1. holders \in Seq(Sessions) /\ \E k \in DOMAIN holders : holders[k] = s
    BY <1>1, <1>2 DEF Held
  <2>2. KeepsOrder(Without(holders, s), holders, s, Sessions)
    BY <2>1, WithoutIs
  <2>3. KeepsOrder(holders', holders, s, Sessions)
    BY <1>1, <2>2
  <2> QED
    BY <2>3 DEF KeepsOrder
<1>6. Told'
  <2> SUFFICES ASSUME NEW t \in Sessions, sess'[t].open
               PROVE  Tells(sess'[t], published') /\ TellsWho(sess'[t], published', Busy(holders', t))
    BY DEF Told
  <2>1. t # s
    BY <1>4 DEF Closed
  <2> QED
    BY <1>1, <1>4, <2>1, OthersWoken
<1>7. Held'
  <2> SUFFICES ASSUME NEW t \in Sessions
               PROVE  /\ sess'[t].open => \E n \in DOMAIN holders' : holders'[n] = t
                      /\ sess'[t].waits # "none" => sess'[t].open /\ ~Busy(holders', t)
    BY DEF Held
  <2>1. CASE t = s
    BY <1>4, <2>1 DEF Closed
  <2>2. CASE t # s
    <3>1. sess'[t].open = sess[t].open /\ sess'[t].waits = sess[t].waits
      BY <1>4, <2>2 DEF WokenTo
    <3> QED
      BY <1>2, <1>5, <2>2, <3>1 DEF Held, Busy
  <2> QED
    BY <2>1, <2>2
<1>8. /\ task' \in Tasks /\ task'.pc = task.pc /\ task'.doc = task.doc /\ task'.wrote = task.wrote
      /\ task'.by = IF task.by = s THEN "gone" ELSE task.by
  BY <1>1, <1>2 DEF Tasks
<1>9. \A n \in DOMAIN queue :
        queue[n] \in Commands /\ queue[n].kind \in {"propose", "act"} /\ (queue[n].by # "gone" => queue[n].by \in Sessions)
  <2>1. \A n \in DOMAIN queue : queue[n] \in Commands
    BY <1>2
  <2> QED
    BY <2>1 DEF Commands
<1>10. /\ DOMAIN queue' = DOMAIN queue
       /\ \A n \in DOMAIN queue : /\ queue'[n] \in Commands /\ queue'[n].kind = queue[n].kind
                                  /\ queue'[n].by = IF queue[n].by = s THEN "gone" ELSE queue[n].by
  <2>1. \A n \in DOMAIN queue : [queue[n] EXCEPT !.by = "gone"] \in Commands
    BY <1>9 DEF Commands
  <2> QED
    BY <1>1, <1>9, <2>1 DEF Commands
<1>11. QueueType'
  <2>1. queue' \in Seq(Commands)
    BY <1>1, <1>2, <1>10
  <2> QED
    BY <2>1 DEF QueueType
<1>12. Pending'
  <2>1. \A t \in Sessions : t # s => sess'[t].waits = sess[t].waits
    BY <1>4 DEF WokenTo
  <2>2. task.by # "gone" => task.by \in Sessions
    BY <1>2 DEF Tasks
  <2> QED
    BY <1>2, <1>8, <1>9, <1>10, <2>1, <2>2 DEF Pending
<1>13. SessionType'
  BY <1>1, <1>2, <1>4, <1>5, <1>8, <1>11 DEF SessionType, DiskType, ConfType, JobType, TaskType, PublishedType,
     BackendType,
     HoldersType, NoFile, NoJob
<1>14. Recorded'
  BY <1>1, <1>2, <1>8 DEF Recorded, Recording, Load, StoredNow, Replaced, NoFile
<1>15. Judged' /\ AsksLatest' /\ PublishedIsHeld' /\ DownIsIdle'
  BY <1>1, <1>2, <1>8 DEF Judged, NoJob, AsksLatest, Latest, PublishedIsHeld, CountAs, DownIsIdle
<1> QED
  BY <1>6, <1>7, <1>12, <1>13, <1>14, <1>15 DEF SessionInv
-----------------------------------------------------------------------------
\* The backend's steps.
LEMMA BackendStep ==
    ASSUME SessionInv, up, UNCHANGED <<disk, conf, task, queue, published, holders, sess, up>>,
           JobType', BackendType', Judged', AsksLatest',
           backend'.unseen = TRUE \/ (backend'.unseen = backend.unseen /\ backend'.states = backend.states)
    PROVE  SessionInv'
<1>1. /\ SessionType /\ Recorded /\ PublishedIsHeld /\ Told /\ Held /\ Pending
  BY DEF SessionInv
<1>2. SessionType'
  BY <1>1 DEF SessionType, DiskType, ConfType, TaskType, PublishedType, QueueType, HoldersType, SessType, NoFile
<1>3. Recorded' /\ PublishedIsHeld' /\ DownIsIdle'
  BY <1>1 DEF Recorded, Recording, Load, StoredNow, Replaced, NoFile, PublishedIsHeld, CountAs, DownIsIdle
<1>4. Told' /\ Held' /\ Pending'
  BY <1>1 DEF Told, Tells, TellsWho, Busy, Held, Pending
<1> QED
  BY <1>2, <1>3, <1>4 DEF SessionInv

\* The verification asks the backend to run what it judges (stack.rs).
LEMMA NetAsksKeeps == ASSUME SessionInv, Asks PROVE SessionInv'
<1>1. /\ up /\ job # NoJob /\ ~job.asked /\ job' = [job EXCEPT !.asked = TRUE]
      /\ backend' = [backend EXCEPT !.asked = Append(@, job.doc)]
      /\ UNCHANGED <<disk, conf, task, queue, published, holders, sess, up>>
  BY DEF Asks
<1>2. /\ job \in Jobs /\ job.doc \in Documents /\ Judged /\ backend \in Backends /\ job.verdict = "none"
  BY <1>1 DEF SessionInv, SessionType, JobType, BackendType, Jobs
<1>3. /\ job' \in Jobs /\ job'.doc = job.doc /\ job'.against = job.against /\ job'.asked /\ job'.verdict = "none"
  BY <1>1, <1>2 DEF Jobs
<1>4. backend.asked \in Seq(Documents)
  BY <1>2 DEF Backends
<1>5. /\ Append(backend.asked, job.doc) \in Seq(Documents) /\ Append(backend.asked, job.doc) # <<>>
      /\ Append(backend.asked, job.doc)[Len(Append(backend.asked, job.doc))] = job.doc
  BY <1>2, <1>4
<1>6. /\ backend' \in Backends /\ backend'.asked = Append(backend.asked, job.doc)
      /\ backend'.states = backend.states /\ backend'.unseen = backend.unseen
  BY <1>1, <1>2, <1>5 DEF Backends
<1>7. JobType' /\ BackendType'
  BY <1>2, <1>3, <1>6 DEF JobType, BackendType
<1>8. job' # NoJob
  BY <1>3 DEF NoJob
<1>9. Judged'
  BY <1>1, <1>2, <1>3, <1>8 DEF Judged, NoJob
<1>10. AsksLatest'
  BY <1>1, <1>2, <1>5, <1>6 DEF AsksLatest, Latest, Judged
<1> QED
  BY <1>1, <1>6, <1>7, <1>9, <1>10, BackendStep

\* The driver takes up the next it was asked to run (driver.rs).
LEMMA ConfiguresKeeps == ASSUME SessionInv, Configures PROVE SessionInv'
<1>1. /\ up /\ backend.asked # <<>>
      /\ backend' = [backend EXCEPT !.states = [of |-> Head(backend.asked), at |-> 0],
                                    !.unseen = TRUE, !.asked = Tail(@)]
      /\ UNCHANGED <<disk, conf, job, task, queue, published, holders, sess, up>>
  BY DEF Configures
<1>2. JobType /\ Judged /\ AsksLatest /\ backend \in Backends /\ backend.asked \in Seq(Documents)
  BY DEF SessionInv, SessionType, BackendType, Backends
<1>3. [of |-> Head(backend.asked), at |-> 0] \in States
  BY <1>1, <1>2, TailIs, SessionAssumption DEF States
<1>4. Tail(backend.asked) \in Seq(Documents)
  BY <1>1, <1>2
<1>5. /\ backend' \in Backends /\ backend'.asked = Tail(backend.asked) /\ backend'.unseen = TRUE
      /\ backend'.states.of = Head(backend.asked)
  BY <1>1, <1>2, <1>3, <1>4 DEF Backends
<1>6. Latest(backend') = Latest(backend)
  <2>1. CASE Tail(backend.asked) = <<>>
    <3>1. Len(backend.asked) = 1
      BY <1>1, <1>2, <2>1, TailOfOne
    <3>2. Head(backend.asked) = backend.asked[1]
      BY <1>1, <1>2
    <3> QED
      BY <1>1, <1>5, <2>1, <3>1, <3>2 DEF Latest
  <2>2. CASE Tail(backend.asked) # <<>>
    <3>1. Tail(backend.asked)[Len(Tail(backend.asked))] = backend.asked[Len(backend.asked)]
      BY <1>1, <1>2, <2>2
    <3> QED
      BY <1>1, <1>5, <2>2, <3>1 DEF Latest
  <2> QED
    BY <2>1, <2>2
<1>7. JobType' /\ BackendType' /\ Judged' /\ AsksLatest'
  BY <1>1, <1>2, <1>5, <1>6 DEF JobType, BackendType, Judged, AsksLatest, NoJob
<1> QED
  BY <1>1, <1>5, <1>7, BackendStep

\* The driver answers the verification asked of it (driver.rs, answer).
LEMMA VerifiesKeeps == ASSUME SessionInv, Verifies PROVE SessionInv'
<1>1. /\ up /\ job.asked
      /\ UNCHANGED <<disk, conf, task, queue, published, backend, holders, sess, up>>
  BY DEF Verifies
<1>2. PICK verdict \in {"applied", "failed"} : job' = [job EXCEPT !.verdict = verdict]
  BY DEF Verifies
<1>3. job \in Jobs /\ JobType /\ BackendType /\ Judged /\ AsksLatest /\ job # NoJob
  BY <1>1 DEF SessionInv, SessionType, JobType, NoJob
<1>4. job' \in Jobs /\ job'.doc = job.doc /\ job'.against = job.against /\ job'.asked
  BY <1>1, <1>2, <1>3 DEF Jobs
<1>5. job' # NoJob
  BY <1>1, <1>4 DEF NoJob
<1>6. JobType' /\ BackendType' /\ Judged' /\ AsksLatest'
  BY <1>1, <1>3, <1>4, <1>5 DEF JobType, BackendType, Judged, AsksLatest, NoJob, Latest
<1> QED
  BY <1>1, <1>6, BackendStep

\* A candidate's state changes (driver.rs, follow).
LEMMA CandidateChangesKeeps == ASSUME SessionInv, CandidateChanges PROVE SessionInv'
<1>1. /\ up /\ backend.states.at < MaxChanges
      /\ backend' = [backend EXCEPT !.states.at = @ + 1, !.unseen = TRUE]
      /\ UNCHANGED <<disk, conf, job, task, queue, published, holders, sess, up>>
  BY DEF CandidateChanges
<1>2. JobType /\ Judged /\ AsksLatest /\ backend \in Backends /\ backend.states \in States
  BY DEF SessionInv, SessionType, BackendType, Backends
<1>3. backend.states.at + 1 \in 0..MaxChanges
  BY <1>1, <1>2, SessionAssumption DEF States
<1>4. /\ [backend.states EXCEPT !.at = @ + 1] \in States
      /\ [backend.states EXCEPT !.at = @ + 1].of = backend.states.of
  BY <1>2, <1>3 DEF States
<1>5. /\ backend' \in Backends /\ backend'.asked = backend.asked /\ backend'.unseen = TRUE
      /\ backend'.states.of = backend.states.of
  BY <1>1, <1>2, <1>4 DEF Backends
<1>6. JobType' /\ BackendType' /\ Judged' /\ AsksLatest'
  BY <1>1, <1>2, <1>5 DEF JobType, BackendType, Judged, AsksLatest, NoJob, Latest
<1> QED
  BY <1>1, <1>5, <1>6, BackendStep

\* The capabilities are probed again (driver.rs, internal).
LEMMA ReprobedKeeps == ASSUME SessionInv, Reprobed PROVE SessionInv'
<1>1. /\ up /\ backend.caps < MaxCaps
      /\ backend' = [backend EXCEPT !.caps = @ + 1, !.unseen = TRUE]
      /\ UNCHANGED <<disk, conf, job, task, queue, published, holders, sess, up>>
  BY DEF Reprobed
<1>2. JobType /\ Judged /\ AsksLatest /\ backend \in Backends
  BY DEF SessionInv, SessionType, BackendType
<1>3. backend.caps + 1 \in 0..MaxCaps
  BY <1>1, <1>2, SessionAssumption DEF Backends
<1>4. /\ backend' \in Backends /\ backend'.asked = backend.asked /\ backend'.unseen = TRUE
      /\ backend'.states = backend.states
  BY <1>1, <1>2, <1>3 DEF Backends
<1>5. JobType' /\ BackendType' /\ Judged' /\ AsksLatest'
  BY <1>1, <1>2, <1>4 DEF JobType, BackendType, Judged, AsksLatest, NoJob, Latest
<1> QED
  BY <1>1, <1>4, <1>5, BackendStep
-----------------------------------------------------------------------------
\* The task's steps. What is waited for changes only by its answer.
LEMMA HeldSame ==
    ASSUME SessionInv, UNCHANGED holders,
           \A t \in Sessions : sess'[t].open = sess[t].open /\ (sess'[t].waits # "none" => sess[t].waits # "none")
    PROVE  Held' /\ HoldersType'
BY DEF SessionInv, SessionType, Held, HoldersType

\* The command at the head of the queue, and those behind it.
LEMMA HeadTaken ==
    ASSUME SessionInv, queue # <<>>, queue' = Tail(queue)
    PROVE  /\ QueueType' /\ Head(queue) \in Commands
           /\ Head(queue).by # "gone" =>
                /\ Head(queue).by \in Sessions /\ sess[Head(queue).by].waits = Head(queue).kind
                /\ task.by # Head(queue).by
           /\ \A n \in DOMAIN queue' : queue'[n].by # "gone" =>
                /\ queue'[n].by \in Sessions /\ queue'[n].by # Head(queue).by
                /\ sess[queue'[n].by].waits = queue'[n].kind /\ task.by # queue'[n].by
           /\ \A n, m \in DOMAIN queue' : (queue'[n].by # "gone" /\ queue'[n].by = queue'[m].by) => n = m
<1>1. queue \in Seq(Commands) /\ Pending
  BY DEF SessionInv, SessionType, QueueType
<1>2. /\ queue' \in Seq(Commands) /\ Head(queue) = queue[1] /\ 1 \in DOMAIN queue /\ Head(queue) \in Commands
      /\ \A n \in DOMAIN queue' : n \in Nat /\ n # 0 /\ n + 1 \in DOMAIN queue /\ queue'[n] = queue[n + 1]
  BY <1>1, TailIs
<1>3. \A n \in DOMAIN queue : queue[n].by # "gone" => queue[n].by \in Sessions
  <2>1. \A n \in DOMAIN queue : queue[n] \in Commands
    BY <1>1
  <2> QED
    BY <2>1 DEF Commands
<1>4. ASSUME NEW n \in DOMAIN queue', queue'[n].by # "gone"
      PROVE  /\ queue'[n].by \in Sessions /\ queue'[n].by # Head(queue).by
             /\ sess[queue'[n].by].waits = queue'[n].kind /\ task.by # queue'[n].by
  <2>1. n + 1 \in DOMAIN queue /\ queue'[n] = queue[n + 1] /\ n + 1 # 1
    BY <1>2
  <2> QED
    BY <1>1, <1>2, <1>3, <1>4, <2>1 DEF Pending
<1>5. ASSUME NEW n \in DOMAIN queue', NEW m \in DOMAIN queue', queue'[n].by # "gone", queue'[n].by = queue'[m].by
      PROVE  n = m
  <2>1. /\ n + 1 \in DOMAIN queue /\ queue'[n] = queue[n + 1] /\ m + 1 \in DOMAIN queue /\ queue'[m] = queue[m + 1]
        /\ n \in Nat /\ m \in Nat
    BY <1>2
  <2>2. n + 1 = m + 1
    BY <1>1, <1>5, <2>1 DEF Pending
  <2> QED
    BY <2>1, <2>2
<1> QED
  BY <1>1, <1>2, <1>3, <1>4, <1>5 DEF QueueType, Pending

\* What holds of the configuration holds while none of it changes.
LEMMA ConfSame ==
    ASSUME SessionInv, UNCHANGED <<disk, conf, job, up>>,
           task' = task \/ (task.pc = "idle" /\ task'.pc = "saving" /\ task'.wrote = "no"),
           backend'.asked = backend.asked, backend'.states = backend.states
    PROVE  Recorded' /\ Judged' /\ AsksLatest'
<1>1. Recorded /\ Judged /\ AsksLatest
  BY DEF SessionInv
<1>2. Load' = Load
  BY DEF Load, NoFile
<1>3. Recorded'
  BY <1>1, <1>2 DEF Recorded, Recording, StoredNow, Replaced
<1>4. Judged' /\ AsksLatest'
  BY <1>1 DEF Judged, AsksLatest, Latest, NoJob
<1> QED
  BY <1>3, <1>4

\* The task takes a proposal from its queue (task.rs, run).
LEMMA TakesProposalKeeps == ASSUME SessionInv, TakesProposal PROVE SessionInv'
<1> DEFINE c == Head(queue)
<1>1. /\ up /\ task.pc = "idle" /\ queue # <<>> /\ c.kind = "propose" /\ queue' = Tail(queue)
      /\ UNCHANGED <<disk, conf, job, backend, holders, up>>
  BY DEF TakesProposal
<1>2. /\ QueueType' /\ c \in Commands
      /\ c.by # "gone" => c.by \in Sessions /\ sess[c.by].waits = "propose"
      /\ \A n \in DOMAIN queue' : queue'[n].by # "gone" =>
           /\ queue'[n].by \in Sessions /\ queue'[n].by # c.by
           /\ sess[queue'[n].by].waits = queue'[n].kind /\ task.by # queue'[n].by
      /\ \A n, m \in DOMAIN queue' : (queue'[n].by # "gone" /\ queue'[n].by = queue'[m].by) => n = m
  BY <1>1, HeadTaken
<1>3. c.by \in Sessions \cup {"gone"} /\ c.doc \in Docs
  BY <1>2 DEF Commands
<1> HIDE DEF c
<1>4. /\ SessionType /\ PublishedIsHeld /\ Told /\ Pending /\ task.by = "gone" /\ backend \in Backends
      /\ conf \in Confs /\ sess \in [Sessions -> Sesses] /\ task \in Tasks
  BY <1>1 DEF SessionInv, SessionType, TaskType, ConfType, BackendType, SessType
<1>5. CASE c.doc \notin Admitted[backend.caps] /\ Publish(conf, backend, Answer(sess, c.by, "refused")) /\ UNCHANGED task
  <2> DEFINE ss == Answer(sess, c.by, "refused")
  <2>1. /\ ss \in [Sessions -> Sesses] /\ \A s \in Sessions : SameTold(sess[s], ss[s])
        /\ \A s \in Sessions : ss[s].waits = IF s = c.by THEN "refused" ELSE sess[s].waits
    BY <1>3, <1>4, AnswerIs DEF SessType, Waits
  <2> HIDE DEF ss
  <2>2. conf.revision >= conf.revision
    BY <1>4 DEF Confs
  <2>3. Publish(conf, backend, ss)
    BY <1>5 DEF ss
  <2>4. /\ PublishedType' /\ SessType' /\ Told'
        /\ \A s \in Sessions : sess'[s].open = sess[s].open /\ sess'[s].waits = ss[s].waits
        /\ published'.revision = conf.revision /\ published'.doc = conf.doc /\ published'.outcome = conf.outcome
        /\ published'.entries = CountAs(backend.states, conf.doc)
    BY <1>1, <1>4, <2>1, <2>2, <2>3, PublishKeeps
  <2>5. Held' /\ HoldersType'
    <3>1. \A s \in Sessions : s = c.by => sess[s].waits = "propose"
      BY <1>2, Sentinels
    <3>2. \A s \in Sessions : sess'[s].waits # "none" => sess[s].waits # "none"
      BY <2>1, <2>4, <3>1
    <3> QED
      BY <1>1, <2>4, <3>2, HeldSame
  <2>6. Pending'
    BY <1>2, <1>4, <1>5, <2>1, <2>4 DEF Pending
  <2>7. Recorded' /\ Judged' /\ AsksLatest'
    BY <1>1, <1>5, ConfSame
  <2>8. PublishedIsHeld' /\ DownIsIdle'
    BY <1>1, <2>4 DEF PublishedIsHeld, DownIsIdle, CountAs
  <2>9. SessionType'
    BY <1>1, <1>2, <1>4, <1>5, <2>4, <2>5 DEF SessionType, DiskType, ConfType, JobType, TaskType, BackendType,
       NoFile, NoJob
  <2> QED
    BY <2>4, <2>5, <2>6, <2>7, <2>8, <2>9 DEF SessionInv
<1>6. CASE /\ c.doc \in Admitted[backend.caps]
           /\ task' = [pc |-> "saving", doc |-> c.doc, by |-> c.by, wrote |-> "no"]
           /\ UNCHANGED <<published, sess>>
  <2>1. c.doc \in Documents
    BY <1>4, <1>6, SessionAssumption DEF Backends
  <2>2. TaskType' /\ task'.pc = "saving" /\ task'.wrote = "no" /\ task'.by = c.by
    BY <1>3, <1>6, <2>1 DEF TaskType, Tasks
  <2>3. Held' /\ HoldersType'
    BY <1>1, <1>6, HeldSame
  <2>4. Pending'
    BY <1>2, <1>6, <2>2 DEF Pending
  <2>5. Recorded' /\ Judged' /\ AsksLatest'
    BY <1>1, <2>2, ConfSame
  <2>6. PublishedIsHeld' /\ DownIsIdle' /\ Told'
    BY <1>1, <1>4, <1>6 DEF PublishedIsHeld, DownIsIdle, CountAs, Told, Tells, TellsWho, Busy
  <2>7. SessionType'
    BY <1>1, <1>2, <1>4, <1>6, <2>2, <2>3
       DEF SessionType, DiskType, ConfType, JobType, PublishedType, BackendType, SessType, NoFile, NoJob
  <2> QED
    BY <2>3, <2>4, <2>5, <2>6, <2>7 DEF SessionInv
<1> QED
  BY <1>5, <1>6 DEF TakesProposal, c

\* The task takes an act from its queue (task.rs, run).
LEMMA TakesActKeeps == ASSUME SessionInv, TakesAct PROVE SessionInv'
<1> DEFINE c == Head(queue)
           ss == Answer(sess, c.by, "acting")
<1>1. /\ up /\ task.pc = "idle" /\ queue # <<>> /\ c.kind = "act" /\ queue' = Tail(queue) /\ sess' = ss
      /\ UNCHANGED <<disk, conf, job, task, published, backend, holders, up>>
  BY DEF TakesAct
<1>2. /\ QueueType' /\ c \in Commands
      /\ c.by # "gone" => c.by \in Sessions /\ sess[c.by].waits = "act"
      /\ \A n \in DOMAIN queue' : queue'[n].by # "gone" =>
           /\ queue'[n].by \in Sessions /\ queue'[n].by # c.by
           /\ sess[queue'[n].by].waits = queue'[n].kind /\ task.by # queue'[n].by
      /\ \A n, m \in DOMAIN queue' : (queue'[n].by # "gone" /\ queue'[n].by = queue'[m].by) => n = m
  BY <1>1, HeadTaken
<1>3. c.by \in Sessions \cup {"gone"}
  BY <1>2 DEF Commands
<1>4. SessType /\ Told /\ task.by = "gone"
  BY <1>1 DEF SessionInv, SessionType, TaskType
<1>5. /\ ss \in [Sessions -> Sesses] /\ \A s \in Sessions : SameTold(sess[s], ss[s])
      /\ \A s \in Sessions : ss[s].waits = IF s = c.by THEN "acting" ELSE sess[s].waits
  BY <1>3, <1>4, AnswerIs DEF Waits
<1> HIDE DEF c, ss
<1>6. Told'
  BY <1>1, <1>4, <1>5 DEF Told, SameTold, Tells, TellsWho, Busy
<1>7. Held' /\ HoldersType'
  <2>1. \A s \in Sessions : s = c.by => sess[s].waits = "act"
    BY <1>2, Sentinels
  <2>2. \A s \in Sessions : sess'[s].open = sess[s].open /\ (sess'[s].waits # "none" => sess[s].waits # "none")
    BY <1>1, <1>5, <2>1 DEF SameTold
  <2> QED
    BY <1>1, <2>2, HeldSame
<1>8. Pending'
  BY <1>1, <1>2, <1>4, <1>5 DEF Pending
<1> QED
  BY <1>1, <1>2, <1>5, <1>6, <1>7, <1>8, OwnStep DEF SessType

\* What a write asks the file to hold.
LEMMA RecordingIs ==
    ASSUME SessionInv, task.pc \in {"saving", "settling"}
    PROVE  /\ Recording \in Stores /\ Recording.doc \in Documents
           /\ Recording.doc = IF task.pc = "saving" THEN task.doc ELSE conf.doc
           /\ Recording.outcome = "verifying" => Recording.replaced \in Documents
           /\ conf.outcome = "verifying" => Recording.outcome = "verifying" /\ Recording.replaced = conf.replaced
           /\ task.pc = "saving" => Recording.outcome = "verifying" /\ Recording.replaced = Replaced(conf)
<1>1. conf \in Confs /\ Recorded /\ task \in Tasks /\ (task.pc = "saving" => task.doc \in Documents) /\ NoDoc \notin Documents
  BY Sentinels DEF SessionInv, SessionType, ConfType, TaskType
<1>2. Replaced(conf) \in Documents /\ (conf.outcome = "verifying" => Replaced(conf) = conf.replaced)
  BY <1>1 DEF Replaced, Confs, Docs, Recorded
<1>3. CASE task.pc = "saving"
  <2>1. Recording = [doc |-> task.doc, outcome |-> "verifying", replaced |-> Replaced(conf)]
    BY <1>3 DEF Recording
  <2> QED
    BY <1>1, <1>2, <1>3, <2>1 DEF Stores, Docs, Outcomes
<1>4. CASE task.pc = "settling"
  <2>1. Recording = [doc |-> conf.doc, outcome |-> conf.outcome, replaced |-> conf.replaced]
    BY <1>4 DEF Recording, StoredNow
  <2> QED
    BY <1>1, <1>4, <2>1 DEF Stores, Docs, Confs, Recorded
<1> QED
  BY <1>3, <1>4

\* The file is written, or not, or the sync after it fails (store.rs).
LEMMA WritesKeeps == ASSUME SessionInv, Writes PROVE SessionInv'
<1>1. /\ up /\ task.pc \in {"saving", "settling"} /\ task.wrote = "no"
      /\ UNCHANGED <<conf, job, queue, published, backend, holders, sess, up>>
  BY DEF Writes
<1>2. PICK wrote \in {"ok", "err"} :
        /\ task' = [task EXCEPT !.wrote = wrote]
        /\ wrote = "ok" => disk' = Recording
        /\ disk' # disk => disk' = Recording /\ (wrote = "ok" \/ SyncFails)
  BY DEF Writes
<1>3. /\ SessionType /\ Recorded /\ Judged /\ AsksLatest /\ PublishedIsHeld /\ Told /\ Held /\ Pending
      /\ task \in Tasks
  BY DEF SessionInv, SessionType, TaskType
<1>4. /\ task' \in Tasks /\ task'.pc = task.pc /\ task'.doc = task.doc /\ task'.by = task.by /\ task'.wrote = wrote
  BY <1>2, <1>3 DEF Tasks
<1>5. Recording' = Recording
  BY <1>1, <1>4 DEF Recording, StoredNow, Replaced
<1>6. /\ Recording \in Stores /\ Recording.doc \in Documents
      /\ Recording.doc = IF task.pc = "saving" THEN task.doc ELSE conf.doc
      /\ Recording.outcome = "verifying" => Recording.replaced \in Documents
      /\ conf.outcome = "verifying" => Recording.outcome = "verifying" /\ Recording.replaced = conf.replaced
  BY <1>1, RecordingIs
<1>7. DiskType'
  BY <1>2, <1>3, <1>6, Sentinels DEF DiskType, SessionType, NoFile
<1>8. Recorded'
  <2>1. (task'.pc = "saving" /\ task'.wrote = "ok") => disk' = Recording'
    BY <1>2, <1>4, <1>5
  <2>2. disk' = Recording => Load'.doc = Recording.doc
    <3>1. Recording # NoFile
      BY <1>6, Sentinels DEF NoFile
    <3> QED
      BY <3>1 DEF Load, NoFile
  <2>3. disk' = disk => Load' = Load
    BY DEF Load, NoFile
  <2>4. (up' /\ ~SyncFails) => \/ Load'.doc = conf'.doc
                               \/ task'.pc = "saving" /\ task'.wrote = "ok" /\ Load'.doc = task'.doc
    <3> SUFFICES ASSUME ~SyncFails
                 PROVE  \/ Load'.doc = conf'.doc
                        \/ task'.pc = "saving" /\ task'.wrote = "ok" /\ Load'.doc = task'.doc
      OBVIOUS
    <3>1. CASE wrote = "ok"
      BY <1>1, <1>2, <1>4, <1>6, <2>2, <3>1
    <3>2. CASE wrote = "err"
      <4>1. disk' = disk
        BY <1>2, <3>2
      <4> QED
        BY <1>1, <1>3, <2>3, <4>1 DEF Recorded
    <3> QED
      BY <3>1, <3>2
  <2>5. disk'.outcome = "verifying" => disk'.replaced \in Documents
    BY <1>2, <1>3, <1>6 DEF Recorded
  <2>6. conf'.outcome = "verifying" =>
          disk'.outcome = "verifying" /\ disk'.replaced = conf'.replaced /\ conf'.replaced \in Documents
    BY <1>1, <1>2, <1>3, <1>6 DEF Recorded
  <2> QED
    BY <2>1, <2>4, <2>5, <2>6 DEF Recorded
<1>9. SessionType'
  BY <1>1, <1>3, <1>4, <1>7 DEF SessionType, ConfType, JobType, TaskType, PublishedType, BackendType, QueueType,
     HoldersType,
     SessType, NoJob
<1>10. Judged' /\ AsksLatest' /\ PublishedIsHeld' /\ DownIsIdle'
  BY <1>1, <1>3, <1>4 DEF Judged, NoJob, AsksLatest, Latest, PublishedIsHeld, CountAs, DownIsIdle
<1>11. Told' /\ Held' /\ Pending'
  BY <1>1, <1>3, <1>4 DEF Told, Tells, TellsWho, Busy, Held, Pending
<1> QED
  BY <1>8, <1>9, <1>10, <1>11 DEF SessionInv

\* What the task answers whoever it was recording for.
LEMMA AnswersTask ==
    ASSUME SessionInv, NEW answer \in Waits \ {"none"}
    PROVE  LET ss == Answer(sess, task.by, answer) IN
           /\ ss \in [Sessions -> Sesses] /\ \A s \in Sessions : SameTold(sess[s], ss[s])
           /\ \A s \in Sessions : ss[s].waits = IF s = task.by THEN answer ELSE sess[s].waits
           /\ \A s \in Sessions : ss[s].waits # "none" => sess[s].waits # "none"
           /\ \A n \in DOMAIN queue : queue[n].by # "gone" => ss[queue[n].by].waits = queue[n].kind
<1> DEFINE ss == Answer(sess, task.by, answer)
<1>1. SessType /\ Pending /\ task \in Tasks /\ queue \in Seq(Commands)
  BY DEF SessionInv, SessionType, TaskType, QueueType
<1>2. task.by \in Sessions \cup {"gone"} /\ answer \in Waits
  BY <1>1 DEF Tasks
<1>3. /\ ss \in [Sessions -> Sesses] /\ \A s \in Sessions : SameTold(sess[s], ss[s])
      /\ \A s \in Sessions : ss[s].waits = IF s = task.by THEN answer ELSE sess[s].waits
  <2>1. SessType /\ task.by \in Sessions \cup {"gone"} /\ answer \in Waits
    BY <1>1, <1>2
  <2> QED
    BY <2>1, AnswerIs DEF SessType
<1> HIDE DEF ss
<1>4. \A s \in Sessions : ss[s].waits # "none" => sess[s].waits # "none"
  BY <1>1, <1>3, Sentinels DEF Pending
<1>5. \A n \in DOMAIN queue : queue[n].by # "gone" => queue[n].by \in Sessions
  <2>1. \A n \in DOMAIN queue : queue[n] \in Commands
    BY <1>1
  <2> QED
    BY <2>1 DEF Commands
<1>6. \A n \in DOMAIN queue : queue[n].by # "gone" => ss[queue[n].by].waits = queue[n].kind
  BY <1>1, <1>3, <1>5 DEF Pending
<1> QED
  BY <1>3, <1>4, <1>6 DEF ss

\* What the task publishes is what it holds (task.rs, publish).
LEMMA TaskPublishes ==
    ASSUME SessionInv, up, NEW c \in Confs, conf' = c, c.revision >= conf.revision,
           c.revision = conf.revision => c.doc = conf.doc,
           NEW ss \in [Sessions -> Sesses], \A s \in Sessions : SameTold(sess[s], ss[s]),
           \A s \in Sessions : ss[s].waits # "none" => sess[s].waits # "none",
           \A n \in DOMAIN queue : queue[n].by # "gone" => ss[queue[n].by].waits = queue[n].kind,
           Publish(c, backend, ss), UNCHANGED <<queue, holders, up>>, task'.by = "gone",
           backend'.states = backend.states
    PROVE  /\ PublishedType' /\ SessType' /\ HoldersType' /\ QueueType'
           /\ Told' /\ Held' /\ Pending' /\ PublishedIsHeld' /\ DownIsIdle'
<1>1. /\ PublishedType' /\ SessType' /\ Told'
      /\ \A s \in Sessions : sess'[s].open = sess[s].open /\ sess'[s].waits = ss[s].waits
      /\ published'.revision = c.revision /\ published'.doc = c.doc /\ published'.outcome = c.outcome
      /\ published'.entries = CountAs(backend.states, c.doc)
  BY PublishKeeps
<1>2. Held' /\ HoldersType'
  BY <1>1, HeldSame
<1>3. queue \in Seq(Commands) /\ Pending
  BY DEF SessionInv, SessionType, QueueType
<1>4. \A n \in DOMAIN queue : queue[n].by # "gone" => queue[n].by \in Sessions
  <2>1. \A n \in DOMAIN queue : queue[n] \in Commands
    BY <1>3
  <2> QED
    BY <2>1 DEF Commands
<1>5. Pending'
  BY <1>1, <1>3, <1>4 DEF Pending
<1>6. PublishedIsHeld' /\ DownIsIdle'
  BY <1>1 DEF PublishedIsHeld, CountAs, DownIsIdle
<1> QED
  BY <1>1, <1>2, <1>3, <1>5, <1>6 DEF QueueType

\* The proposal written becomes the one held (held.rs, State::save).
LEMMA SavedKeeps == ASSUME SessionInv, Saved PROVE SessionInv'
<1> DEFINE c == [doc |-> task.doc, outcome |-> "verifying", replaced |-> Replaced(conf), revision |-> conf.revision + 1]
           ss == Answer(sess, task.by, "saved")
<1>1. /\ up /\ task.pc = "saving" /\ task.wrote = "ok" /\ conf' = c
      /\ job' = [doc |-> c.doc, against |-> c.replaced, asked |-> FALSE, verdict |-> "none"]
      /\ Publish(c, backend, ss) /\ task' = Idle
      /\ UNCHANGED <<disk, queue, backend, holders, up>>
  BY DEF Saved
<1>2. /\ SessionType /\ Recorded /\ conf \in Confs /\ task.doc \in Documents /\ DiskType /\ backend \in Backends
  BY <1>1 DEF SessionInv, SessionType, ConfType, TaskType, BackendType
<1>3. disk = Recording /\ Recording.outcome = "verifying" /\ Recording.replaced = Replaced(conf)
      /\ Recording.doc = task.doc /\ Replaced(conf) \in Documents
  BY <1>1, <1>2, RecordingIs DEF Recorded
<1>4. /\ c \in Confs /\ c.revision = conf.revision + 1 /\ c.revision >= conf.revision /\ c.revision # conf.revision
      /\ c.doc = task.doc /\ c.outcome = "verifying" /\ c.replaced = Replaced(conf)
  BY <1>2, <1>3 DEF Confs, Outcomes, Docs
<1>5. /\ ss \in [Sessions -> Sesses] /\ \A s \in Sessions : SameTold(sess[s], ss[s])
      /\ \A s \in Sessions : ss[s].waits # "none" => sess[s].waits # "none"
      /\ \A n \in DOMAIN queue : queue[n].by # "gone" => ss[queue[n].by].waits = queue[n].kind
  <2>1. "saved" \in Waits \ {"none"}
    BY DEF Waits
  <2> QED
    BY <2>1, AnswersTask
<1> HIDE DEF c, ss
<1>6. task'.by = "gone" /\ task'.pc = "idle" /\ TaskType'
  BY <1>1, Sentinels DEF Idle, TaskType
<1>7. /\ PublishedType' /\ SessType' /\ HoldersType' /\ QueueType'
      /\ Told' /\ Held' /\ Pending' /\ PublishedIsHeld' /\ DownIsIdle'
  BY <1>1, <1>4, <1>5, <1>6, TaskPublishes
<1>8. /\ job' \in Jobs /\ job'.doc \in Documents /\ job'.doc = c.doc /\ job'.against = c.replaced /\ job'.verdict = "none"
      /\ ~job'.asked
  BY <1>1, <1>2, <1>3, <1>4 DEF Jobs, Docs
<1>9. job' # NoJob
  BY <1>8, Sentinels DEF NoJob
<1>10. Load'.doc = conf'.doc
  BY <1>1, <1>2, <1>3, <1>4, Sentinels DEF Load, NoFile
<1>11. Recorded'
  BY <1>1, <1>2, <1>3, <1>4, <1>6, <1>10 DEF Recorded
<1>12. Judged' /\ AsksLatest'
  BY <1>1, <1>3, <1>4, <1>6, <1>8, <1>9, Sentinels DEF Judged, AsksLatest, NoJob
<1>13. SessionType'
  BY <1>1, <1>2, <1>4, <1>6, <1>7, <1>8 DEF SessionType, DiskType, ConfType, JobType, BackendType, NoFile, NoJob
<1> QED
  BY <1>7, <1>11, <1>12, <1>13 DEF SessionInv

\* The other steps after which the task is between two commands, what it
\* holds being what it was.
LEMMA BackToIdle ==
    ASSUME SessionInv, up, UNCHANGED <<disk, conf, job, queue, holders, up>>, task' = Idle,
           NEW ss \in [Sessions -> Sesses], \A s \in Sessions : SameTold(sess[s], ss[s]),
           \A s \in Sessions : ss[s].waits # "none" => sess[s].waits # "none",
           \A n \in DOMAIN queue : queue[n].by # "gone" => ss[queue[n].by].waits = queue[n].kind,
           Publish(conf, backend, ss), ~SyncFails => Load.doc = conf.doc,
           BackendType', backend'.states = backend.states, backend'.asked = backend.asked
    PROVE  SessionInv'
<1>1. SessionType /\ Recorded /\ Judged /\ AsksLatest /\ conf \in Confs
  BY DEF SessionInv, SessionType, ConfType
<1>2. conf.revision >= conf.revision
  BY <1>1 DEF Confs
<1>3. task'.by = "gone" /\ task'.pc = "idle" /\ TaskType'
  BY Sentinels DEF Idle, TaskType
<1>4. /\ PublishedType' /\ SessType' /\ HoldersType' /\ QueueType'
      /\ Told' /\ Held' /\ Pending' /\ PublishedIsHeld' /\ DownIsIdle'
  BY <1>1, <1>2, <1>3, TaskPublishes
<1>5. Load' = Load
  BY DEF Load, NoFile
<1>6. Recorded'
  BY <1>1, <1>3, <1>5 DEF Recorded
<1>7. Judged' /\ AsksLatest'
  BY <1>1, <1>3 DEF Judged, AsksLatest, Latest, NoJob
<1>8. SessionType'
  BY <1>1, <1>3, <1>4 DEF SessionType, DiskType, ConfType, JobType, NoFile, NoJob
<1> QED
  BY <1>4, <1>6, <1>7, <1>8 DEF SessionInv

\* Sessions untouched by a step are told what they were told.
LEMMA SameSess ==
    ASSUME SessionInv, task.by = "gone"
    PROVE  /\ sess \in [Sessions -> Sesses] /\ \A s \in Sessions : SameTold(sess[s], sess[s])
           /\ \A n \in DOMAIN queue : queue[n].by # "gone" => sess[queue[n].by].waits = queue[n].kind
BY DEF SessionInv, SessionType, SessType, SameTold, Pending

\* A proposal that could not be written is refused (held.rs, save).
LEMMA NotSavedKeeps == ASSUME SessionInv, NotSaved PROVE SessionInv'
<1> DEFINE ss == Answer(sess, task.by, "refused")
<1>1. /\ up /\ task.pc = "saving" /\ task.wrote = "err" /\ Publish(conf, backend, ss) /\ task' = Idle
      /\ UNCHANGED <<disk, conf, job, queue, backend, holders, up>>
  BY DEF NotSaved
<1>2. /\ ss \in [Sessions -> Sesses] /\ \A s \in Sessions : SameTold(sess[s], ss[s])
      /\ \A s \in Sessions : ss[s].waits # "none" => sess[s].waits # "none"
      /\ \A n \in DOMAIN queue : queue[n].by # "gone" => ss[queue[n].by].waits = queue[n].kind
  <2>1. "refused" \in Waits \ {"none"}
    BY DEF Waits
  <2> QED
    BY <2>1, AnswersTask
<1> HIDE DEF ss
<1>3. (~SyncFails => Load.doc = conf.doc) /\ BackendType'
  BY <1>1 DEF SessionInv, SessionType, Recorded, BackendType
<1> QED
  BY <1>1, <1>2, <1>3, BackToIdle

\* The verdict has been recorded (task.rs, run).
LEMMA SettledKeeps == ASSUME SessionInv, Settled PROVE SessionInv'
<1>1. /\ up /\ task.pc = "settling" /\ Publish(conf, backend, sess) /\ task' = Idle
      /\ UNCHANGED <<disk, conf, job, queue, backend, holders, up>>
  BY DEF Settled
<1>2. (~SyncFails => Load.doc = conf.doc) /\ BackendType' /\ task.by = "gone"
  BY <1>1 DEF SessionInv, SessionType, Recorded, BackendType, TaskType
<1> QED
  BY <1>1, <1>2, SameSess, BackToIdle

\* The task sees the backend's states change (task.rs, run).
LEMMA SeesStatesKeeps == ASSUME SessionInv, SeesStates PROVE SessionInv'
<1>1. /\ up /\ task.pc = "idle" /\ Publish(conf, backend, sess) /\ backend' = [backend EXCEPT !.unseen = FALSE]
      /\ UNCHANGED <<disk, conf, job, task, queue, holders, up>>
  BY DEF SeesStates
<1>2. /\ SessionType /\ Recorded /\ Judged /\ AsksLatest /\ conf \in Confs /\ backend \in Backends /\ task.by = "gone"
  BY <1>1 DEF SessionInv, SessionType, ConfType, BackendType, TaskType
<1>3. /\ backend' \in Backends /\ backend'.states = backend.states /\ backend'.asked = backend.asked
  BY <1>1, <1>2 DEF Backends
<1>4. conf.revision >= conf.revision
  BY <1>2 DEF Confs
<1>5. /\ PublishedType' /\ SessType' /\ HoldersType' /\ QueueType'
      /\ Told' /\ Held' /\ Pending' /\ PublishedIsHeld' /\ DownIsIdle'
  BY <1>1, <1>2, <1>3, <1>4, SameSess, TaskPublishes
<1>6. Recorded' /\ Judged' /\ AsksLatest'
  BY <1>1, <1>3, ConfSame
<1>7. SessionType'
  BY <1>1, <1>2, <1>3, <1>5 DEF SessionType, DiskType, ConfType, JobType, TaskType, BackendType, NoFile, NoJob
<1> QED
  BY <1>5, <1>6, <1>7 DEF SessionInv

\* The verdict is recorded and held (held.rs, State::settle).
LEMMA TakesVerdictKeeps == ASSUME SessionInv, TakesVerdict PROVE SessionInv'
<1>1. /\ up /\ task.pc = "idle" /\ job.verdict # "none"
      /\ conf' = [conf EXCEPT !.outcome = job.verdict, !.replaced = NoDoc]
      /\ job' = NoJob /\ task' = [Idle EXCEPT !.pc = "settling"]
      /\ UNCHANGED <<disk, queue, published, backend, holders, sess, up>>
  BY DEF TakesVerdict
<1>2. /\ SessionType /\ Recorded /\ Judged /\ AsksLatest /\ PublishedIsHeld /\ Told /\ Held /\ Pending
      /\ conf \in Confs /\ job \in Jobs /\ job.asked
  BY <1>1 DEF SessionInv, SessionType, ConfType, JobType
<1>3. job.verdict \in {"applied", "failed"}
  BY <1>1, <1>2 DEF Jobs
<1>4. /\ conf' \in Confs /\ conf'.doc = conf.doc /\ conf'.revision = conf.revision /\ conf'.outcome # "verifying"
  BY <1>1, <1>2, <1>3 DEF Confs, Outcomes, Docs
<1>5. task' \in Tasks /\ task'.pc = "settling" /\ task'.by = "gone" /\ TaskType'
  BY <1>1, Sentinels DEF Idle, Tasks, TaskType
<1>6. JobType'
  BY <1>1, Sentinels DEF JobType, NoJob
<1>7. Load' = Load
  BY <1>1 DEF Load, NoFile
<1>8. Recorded'
  BY <1>1, <1>2, <1>4, <1>5, <1>7 DEF Recorded
<1>9. Judged'
  BY <1>1, <1>4 DEF Judged, NoJob
<1>10. AsksLatest'
  BY <1>1, <1>2, <1>4 DEF AsksLatest, Latest
<1>11. PublishedIsHeld' /\ DownIsIdle'
  BY <1>1, <1>2, <1>4, <1>5 DEF PublishedIsHeld, CountAs, DownIsIdle
<1>12. Told' /\ Held' /\ Pending'
  BY <1>1, <1>2, <1>5 DEF Told, Tells, TellsWho, Busy, Held, Pending
<1>13. SessionType'
  BY <1>1, <1>2, <1>4, <1>5, <1>6 DEF SessionType, DiskType, ConfType, PublishedType, BackendType, QueueType,
     HoldersType,
     SessType, NoFile
<1> QED
  BY <1>8, <1>9, <1>10, <1>11, <1>12, <1>13 DEF SessionInv
-----------------------------------------------------------------------------
\* A restart takes everything but the file, and starts from it.
LEMMA CrashKeeps == ASSUME SessionInv, Crash PROVE SessionInv'
<1>1. /\ up' = FALSE /\ job' = NoJob /\ task' = Idle /\ queue' = <<>> /\ holders' = <<>>
      /\ sess' = [s \in Sessions |-> Closed]
      /\ backend' = [backend EXCEPT !.states = Unobserved, !.unseen = FALSE, !.asked = <<>>]
      /\ UNCHANGED <<disk, conf, published>>
  BY DEF Crash
<1>2. SessionType /\ Recorded /\ backend \in Backends
  BY DEF SessionInv, SessionType, BackendType
<1>3. <<>> \in Seq(Documents) /\ Unobserved \in States
  BY Sentinels
<1>4. backend' \in Backends /\ backend'.asked = <<>> /\ ~backend'.unseen
  BY <1>1, <1>2, <1>3 DEF Backends
<1>5. JobType' /\ TaskType' /\ QueueType' /\ HoldersType' /\ SessType' /\ BackendType'
  BY <1>1, <1>4, Sentinels DEF JobType, TaskType, QueueType, HoldersType, SessType, BackendType, NoJob, Idle
<1>6. SessionType'
  BY <1>1, <1>2, <1>5 DEF SessionType, DiskType, ConfType, PublishedType, NoFile
<1>7. task'.pc = "idle" /\ task'.by = "gone"
  BY <1>1 DEF Idle
<1>8. Recorded' /\ Judged' /\ AsksLatest' /\ PublishedIsHeld'
  BY <1>1, <1>2, <1>7 DEF Recorded, Judged, AsksLatest, PublishedIsHeld
<1>9. Told' /\ Held' /\ Pending'
  BY <1>1, <1>7 DEF Told, Held, Pending, Closed
<1>10. DownIsIdle'
  BY <1>1, <1>4 DEF DownIsIdle, NoJob, Idle, Closed, NoReport, Unobserved, NoHand
<1> QED
  BY <1>6, <1>8, <1>9, <1>10 DEF SessionInv

\* The device starts from its file, or from none (session.rs, start).
LEMMA StartKeeps == ASSUME SessionInv, Start PROVE SessionInv'
<1>1. /\ ~up /\ up' = TRUE /\ disk' \in {disk, NoFile}
      /\ published' = Snapshot(conf', backend')
      /\ UNCHANGED <<task, queue, holders, sess>>
  BY DEF Start
<1>2. /\ SessionType /\ Recorded /\ disk \in Stores /\ backend \in Backends
      /\ job = NoJob /\ task = Idle /\ queue = <<>> /\ holders = <<>>
      /\ sess = [s \in Sessions |-> Closed] /\ backend.asked = <<>> /\ ~backend.unseen
  BY <1>1 DEF SessionInv, SessionType, DiskType, BackendType, DownIsIdle
<1>3. /\ disk' \in Stores /\ (disk'.doc = NoDoc => disk' = NoFile)
      /\ disk'.outcome = "verifying" => disk'.replaced \in Documents
  BY <1>1, <1>2, Sentinels DEF SessionType, DiskType, Recorded, NoFile
<1>4. /\ Load' \in Confs
      /\ Load'.outcome = "verifying" => disk'.outcome = "verifying" /\ disk'.replaced = Load'.replaced
  <2>1. CASE disk' = NoFile
    <3>1. Load' = [doc |-> Default, outcome |-> "applied", replaced |-> NoDoc, revision |-> 0]
      BY <2>1 DEF Load, NoFile
    <3> QED
      BY <3>1, SessionAssumption DEF Confs, Outcomes, Docs
  <2>2. CASE disk' # NoFile
    <3>1. Load' = [doc |-> disk'.doc, outcome |-> disk'.outcome, replaced |-> disk'.replaced, revision |-> 0]
      BY <2>2 DEF Load, NoFile
    <3>2. disk'.doc \in Documents
      BY <1>3, <2>2 DEF Stores, Docs
    <3> QED
      BY <1>3, <3>1, <3>2 DEF Confs, Stores
  <2> QED
    BY <2>1, <2>2
<1>5. /\ conf' \in Confs /\ conf'.doc = Load'.doc /\ backend' \in Backends
      /\ conf'.outcome = "verifying" <=> Load'.outcome = "verifying"
      /\ conf'.replaced = Load'.replaced
      /\ backend'.asked = <<>> /\ ~backend'.unseen
      /\ IF Load'.outcome = "verifying"
         THEN job' = [doc |-> conf'.doc, against |-> conf'.replaced, asked |-> FALSE, verdict |-> "none"]
         ELSE job' = NoJob /\ backend'.states.of = conf'.doc
  <2>1. CASE Load'.outcome = "verifying"
    BY <1>2, <1>4, <2>1 DEF Start
  <2>2. CASE Load'.outcome # "verifying"
    <3>1. PICK runs \in BOOLEAN : conf' = [Load' EXCEPT !.outcome = IF runs THEN @ ELSE "failed"]
      BY <2>2 DEF Start
    <3>2. backend' = [backend EXCEPT !.states = [of |-> Load'.doc, at |-> 0]] /\ job' = job
      BY <2>2 DEF Start
    <3>3. (IF runs THEN Load'.outcome ELSE "failed") \in Outcomes /\ (IF runs THEN Load'.outcome ELSE "failed") # "verifying"
      BY <1>4, <2>2 DEF Confs, Outcomes
    <3>4. /\ conf' \in Confs /\ conf'.doc = Load'.doc /\ conf'.replaced = Load'.replaced /\ conf'.outcome # "verifying"
      BY <1>4, <3>1, <3>3 DEF Confs
    <3>5. [of |-> Load'.doc, at |-> 0] \in States
      BY <1>4, SessionAssumption DEF States, Confs
    <3>6. /\ backend' \in Backends /\ backend'.asked = <<>> /\ ~backend'.unseen /\ backend'.states.of = Load'.doc
      BY <1>2, <3>2, <3>5 DEF Backends
    <3> QED
      BY <1>2, <2>2, <3>2, <3>4, <3>6
  <2> QED
    BY <2>1, <2>2
<1>6. conf'.doc \in Documents /\ conf'.replaced \in Docs /\ (conf'.outcome = "verifying" => conf'.replaced \in Documents)
  BY <1>3, <1>4, <1>5 DEF Confs
<1>7. JobType' /\ (conf'.outcome = "verifying" <=> job' # NoJob)
  <2>1. CASE conf'.outcome = "verifying"
    <3>1. job' = [doc |-> conf'.doc, against |-> conf'.replaced, asked |-> FALSE, verdict |-> "none"]
      BY <1>5, <2>1
    <3> QED
      BY <1>6, <2>1, <3>1, Sentinels DEF JobType, Jobs, NoJob, Docs
  <2>2. CASE conf'.outcome # "verifying"
    <3>1. job' = NoJob
      BY <1>5, <2>2
    <3> QED
      BY <2>2, <3>1, Sentinels DEF JobType, NoJob
  <2> QED
    BY <2>1, <2>2
<1>8. /\ published' \in Snapshots /\ published'.revision = conf'.revision /\ published'.doc = conf'.doc
      /\ published'.outcome = conf'.outcome /\ published'.entries = CountAs(backend'.states, conf'.doc)
  BY <1>1, <1>5, SnapshotType
<1>9. SessionType'
  BY <1>1, <1>2, <1>3, <1>5, <1>7, <1>8 DEF SessionType, DiskType, ConfType, BackendType, PublishedType, TaskType,
     QueueType,
     HoldersType, SessType, NoFile
<1>10. Recorded'
  BY <1>1, <1>2, <1>3, <1>4, <1>5, <1>6 DEF Recorded, Idle
<1>11. Judged'
  <2>1. ASSUME job' # NoJob PROVE job'.doc = conf'.doc /\ job'.against = conf'.replaced /\ job'.against # NoDoc
    <3>1. job' = [doc |-> conf'.doc, against |-> conf'.replaced, asked |-> FALSE, verdict |-> "none"]
      BY <1>5, <1>7, <2>1
    <3> QED
      BY <1>6, <1>7, <2>1, <3>1, Sentinels
  <2> QED
    BY <1>1, <1>2, <1>7, <2>1 DEF Judged, Idle, NoJob
<1>12. AsksLatest'
  <2> SUFFICES ASSUME job' = NoJob \/ job'.asked PROVE Latest(backend') = conf'.doc
    BY DEF AsksLatest, Latest, NoJob
  <2>1. Load'.outcome # "verifying"
    <3> SUFFICES ASSUME Load'.outcome = "verifying" PROVE FALSE
      OBVIOUS
    <3>1. job' = [doc |-> conf'.doc, against |-> conf'.replaced, asked |-> FALSE, verdict |-> "none"] /\ job' # NoJob
      BY <1>5, <1>7
    <3> QED
      BY <3>1
  <2> QED
    BY <1>5, <2>1 DEF Latest
<1>13. PublishedIsHeld' /\ DownIsIdle'
  BY <1>1, <1>8 DEF PublishedIsHeld, CountAs, DownIsIdle
<1>14. Told' /\ Held' /\ Pending'
  BY <1>1, <1>2 DEF Told, Held, Pending, Closed, Idle
<1> QED
  BY <1>9, <1>10, <1>11, <1>12, <1>13, <1>14 DEF SessionInv
-----------------------------------------------------------------------------
\* Every step keeps the invariant.
LEMMA SessionNextInv == SessionInv /\ [Next]_vars => SessionInv'
<1> SUFFICES ASSUME SessionInv, [Next]_vars PROVE SessionInv'
  OBVIOUS
<1>1. CASE TaskSteps
  BY <1>1, TakesProposalKeeps, TakesActKeeps, WritesKeeps, SavedKeeps, NotSavedKeeps, TakesVerdictKeeps, SettledKeeps,
     SeesStatesKeeps DEF TaskSteps
<1>2. CASE BackendSteps
  BY <1>2, NetAsksKeeps, ConfiguresKeeps, VerifiesKeeps DEF BackendSteps
<1>3. CASE CandidateChanges \/ Reprobed \/ Crash \/ Start
  BY <1>3, CandidateChangesKeeps, ReprobedKeeps, CrashKeeps, StartKeeps
<1>4. ASSUME NEW s \in Sessions, SessionSteps(s) PROVE SessionInv'
  BY <1>4, SendsStateKeeps, WakeKeeps, TakesAnswerKeeps, ActEndsKeeps DEF SessionSteps
<1>5. ASSUME NEW s \in Sessions, Clients(s) PROVE SessionInv'
  BY <1>5, OpensKeeps, ClosesKeeps, ConfigureKeeps, ActKeeps, ProposeKeeps DEF Clients
<1>6. CASE UNCHANGED vars
  <2>1. UNCHANGED <<disk, conf, job, task, queue, published, backend, holders, sess, up>>
    BY <1>6 DEF vars
  <2>2. JobType' /\ BackendType' /\ Judged' /\ AsksLatest'
    BY <2>1 DEF SessionInv, SessionType, JobType, BackendType, Judged, AsksLatest, Latest, NoJob
  <2>3. CASE up
    BY <2>1, <2>2, <2>3, BackendStep
  <2>4. CASE ~up
    <3>1. SessionType'
      BY <2>1, <2>2 DEF SessionInv, SessionType, DiskType, ConfType, TaskType, QueueType, PublishedType, HoldersType,
         SessType, NoFile
    <3>2. Recorded' /\ PublishedIsHeld' /\ DownIsIdle'
      BY <2>1 DEF SessionInv, Recorded, Recording, Load, StoredNow, Replaced, NoFile, PublishedIsHeld, CountAs,
         DownIsIdle,
         Idle, NoJob, Closed, NoReport, Unobserved, NoHand
    <3>3. Told' /\ Held' /\ Pending'
      BY <2>1 DEF SessionInv, Told, Tells, TellsWho, Busy, Held, Pending
    <3> QED
      BY <2>2, <3>1, <3>2, <3>3 DEF SessionInv
  <2> QED
    BY <2>3, <2>4
<1> QED
  BY <1>1, <1>2, <1>3, <1>4, <1>5, <1>6 DEF Next

\* The invariant holds of every state the session and its task can be in.
LEMMA SessionInvariant == Spec => []SessionInv
<1> QED
  BY SessionInitInv, SessionNextInv, PTL DEF Spec
-----------------------------------------------------------------------------
\* No wake-up is lost and only the oldest session has the task do anything
\* (open.rs sync, changed and propose; task.rs publish; holders.rs).
THEOREM SessionsAgreeing == Spec => []SessionsAgree
<1>1. SessionInv => QuietKnows
  <2> SUFFICES ASSUME SessionInv, NEW s \in Sessions, Quiet(s), task.pc = "idle", ~backend.unseen
               PROVE  /\ sess[s].revision = conf.revision /\ sess[s].doc = conf.doc
                      /\ CountAs(backend.states, conf.doc) # Unknown =>
                           sess[s].reported = [busy |-> Busy(holders, s), outcome |-> conf.outcome,
                                               entries |-> CountAs(backend.states, conf.doc)]
    BY DEF QuietKnows
  <2>1. up /\ sess[s].open /\ sess[s].hand = NoHand /\ ~sess[s].unseen /\ ~sess[s].woken
    BY DEF Quiet, Between
  <2>2. /\ published.revision = conf.revision /\ published.doc = conf.doc /\ published.outcome = conf.outcome
        /\ published.entries = CountAs(backend.states, conf.doc)
    BY <2>1 DEF SessionInv, PublishedIsHeld
  <2>3. Tells(sess[s], published) /\ TellsWho(sess[s], published, Busy(holders, s)) /\ sess[s] \in Sesses
    BY <2>1, OpenIs
  <2>4. sess[s].reported \in Reports
    BY <2>3 DEF Sesses
  <2>5. sess[s].reported = [busy |-> sess[s].reported.busy, outcome |-> sess[s].reported.outcome,
                            entries |-> sess[s].reported.entries]
    BY <2>4 DEF Reports
  <2>6. /\ sess[s].revision = conf.revision /\ sess[s].doc = conf.doc
        /\ CountAs(backend.states, conf.doc) # Unknown =>
             /\ sess[s].reported.busy = Busy(holders, s) /\ sess[s].reported.outcome = conf.outcome
             /\ sess[s].reported.entries = CountAs(backend.states, conf.doc)
    BY <2>1, <2>2, <2>3 DEF Tells, TellsWho
  <2> QED
    BY <2>5, <2>6
<1>2. SessionInv => OnlyHolderAsks
  BY DEF SessionInv, Held, OnlyHolderAsks
<1>3. SessionInv => SessionsAgree
  BY <1>1, <1>2 DEF SessionsAgree
<1> QED
  BY <1>3, SessionInvariant, PTL

\* What is held is what was told, what is verified and what runs, through
\* restarts, failing files and proposals overtaking each other, wherever
\* an error recording means nothing was recorded (held.rs State::save;
\* task.rs run and verifying; session.rs Configurator::start).
THEOREM HeldToldAndRun == ASSUME ~SyncFails PROVE Spec => []HeldIsToldAndRun
<1>1. SessionInv => ToldIsDurable
  <2> SUFFICES ASSUME SessionInv, NEW s \in Sessions, sess[s].open, sess[s].revision = conf.revision
               PROVE  Load.doc \in {sess[s].doc} \cup (IF task.pc = "saving" THEN {task.doc} ELSE {})
    BY DEF ToldIsDurable
  <2>1. up /\ Tells(sess[s], published)
    BY OpenIs
  <2>2. sess[s].doc = conf.doc
    BY <2>1 DEF SessionInv, PublishedIsHeld, Tells
  <2> QED
    BY <2>1, <2>2 DEF SessionInv, Recorded
<1>2. SessionInv => VerifyingIsRun
  BY DEF SessionInv, Judged, VerifyingIsRun
<1>3. SessionInv => RunsHeld
  BY DEF SessionInv, AsksLatest, Latest, RunsHeld
<1>4. SessionInv => HeldIsToldAndRun
  BY <1>1, <1>2, <1>3 DEF HeldIsToldAndRun
<1> QED
  BY <1>4, SessionInvariant, PTL

\* However many proposals are saved before one is judged, and across
\* restarts, each is judged against what was last judged (held.rs
\* State::save, replaced).
THEOREM BaselineIsKept == Spec => BaselineKept
<1>1. SessionInv /\ [Next]_vars =>
        [(conf.outcome = "verifying" /\ conf'.outcome = "verifying") => conf'.replaced = conf.replaced]_vars
  <2> SUFFICES ASSUME SessionInv, Next, conf.outcome = "verifying", conf'.outcome = "verifying"
               PROVE  conf'.replaced = conf.replaced
    OBVIOUS
  <2>1. CASE UNCHANGED conf
    BY <2>1
  <2>2. CASE Saved
    <3>1. conf'.replaced = Replaced(conf)
      BY <2>2 DEF Saved
    <3> QED
      BY <3>1, Sentinels DEF Replaced, SessionInv, Recorded
  <2>3. CASE TakesVerdict
    <3>1. conf'.outcome = job.verdict /\ job.verdict # "none"
      BY <2>3 DEF TakesVerdict, SessionInv, SessionType, ConfType, Confs
    <3> QED
      BY <3>1 DEF SessionInv, SessionType, JobType, Jobs
  <2>4. CASE Start
    <3>1. disk' \in {disk, NoFile} /\ disk.outcome = "verifying" /\ disk.replaced = conf.replaced
      BY <2>4 DEF Start, SessionInv, Recorded
    <3>2. Load'.outcome = "verifying" /\ conf'.replaced = Load'.replaced
      <4>1. CASE Load'.outcome = "verifying"
        BY <2>4, <4>1 DEF Start
      <4>2. CASE Load'.outcome # "verifying"
        <5>1. PICK runs \in BOOLEAN : conf' = [Load' EXCEPT !.outcome = IF runs THEN @ ELSE "failed"]
          BY <2>4, <4>2 DEF Start
        <5>2. conf'.outcome \in {Load'.outcome, "failed"}
          BY <5>1 DEF Load
        <5> QED
          BY <4>2, <5>2
      <4> QED
        BY <4>1, <4>2
    <3>3. disk' # NoFile
      BY <3>2 DEF Load
    <3>4. Load'.replaced = disk.replaced
      BY <3>1, <3>3 DEF Load
    <3> QED
      BY <3>1, <3>2, <3>4
  <2>5. UNCHANGED conf \/ Saved \/ TakesVerdict \/ Start
    BY DEF Next, TaskSteps, BackendSteps, SessionSteps, Clients, TakesProposal, TakesAct, Writes, NotSaved, Settled,
       SeesStates,
       Asks, Configures, Verifies, CandidateChanges, Reprobed, Crash, SendsState, Wake, TakesAnswer, ActEnds, Opens, Closes,
       Configure, Act, Propose, OnlySession
  <2> QED
    BY <2>1, <2>2, <2>3, <2>4, <2>5
<1> QED
  BY <1>1, SessionInvariant, PTL DEF Spec, BaselineKept
=============================================================================
