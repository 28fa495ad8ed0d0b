---------------------------- MODULE SessionFeed -----------------------------
(***************************************************************************)
(* The default feed: crates/bliti/src/sampler.rs, which samples the device *)
(* and broadcasts what it finds, and crates/bliti/src/session.rs, which    *)
(* serves it on the streams of each session with the facts beside it.      *)
(*                                                                         *)
(* Entries are told apart by identity_key and abstracted to it. Slow ones  *)
(* are gathered every few ticks and the rest at each. What a source finds  *)
(* is the world's to choose.                                               *)
(***************************************************************************)
EXTENDS Naturals, Sequences, FiniteSets

CONSTANTS
    Fast, Slow,   \* the entries sampled at every tick, and at slow ticks only
    FactNames,    \* the facts the session looks at for itself
    Streams,      \* those a feed may be served on, two to a session
    SessionOf,    \* the session of each
    LiveLag,      \* LIVE_LAG: batches a subscriber may fall behind
    SlowEvery,    \* SLOW_EVERY: ticks from one slow one to the next
    IdleStop,     \* IDLE_STOP, in ticks
    MaxTicks      \* bound: ticks taken

ASSUME FeedAssumption ==
    /\ Fast \cap Slow = {} /\ FactNames \cap (Fast \cup Slow) = {}
    /\ {LiveLag, SlowEvery, IdleStop} \subseteq Nat \ {0} /\ MaxTicks \in Nat

VARIABLES
    current,    \* Sampler::current: the entries held, by key
    here,       \* the facts there are
    sampling,   \* whether sampling goes on, or has stopped for want of a session
    ticks,      \* the ticks taken, and how many of them were idle
    sessions,   \* the sessions open
    served,     \* the streams a session's `default` has been claimed for
    feeds       \* each stream's feed: where it is, what its reader holds, and what it has yet to write

feedVars == <<current, here, sampling, ticks, sessions, served, feeds>>

Sampled == Fast \cup Slow
NoFeed == [at |-> "none", last |-> {}, holds |-> {}, live |-> <<>>, missed |-> {}]

FeedInit ==
    /\ current = {} /\ here = {} /\ sampling = TRUE
    /\ ticks = [all |-> 0, idle |-> 0]
    /\ sessions = {} /\ served = {}
    /\ feeds = [s \in Streams |-> NoFeed]

(***************************************************************************)
(* Sampling: Sampler::run.                                                 *)
(***************************************************************************)

(* A batch reaches every subscriber, and pushes the oldest out of the      *)
(* queue of one that has fallen too far behind. What a feed missed is what *)
(* was sent before it subscribed, or pushed out before it was written.     *)
Lost(batch) == {"entries"} \cup IF batch.ended = {} THEN {} ELSE {"ended"}
Lags(f) == Len(f.live) = LiveLag
Receives(f, batch) ==
    IF Lags(f)
    THEN [f EXCEPT !.live = Append(Tail(@), batch), !.missed = @ \cup Lost(Head(f.live))]
    ELSE [f EXCEPT !.live = Append(@, batch)]
Sends(batch) ==
    feeds' = [s \in Streams |->
        CASE feeds[s].at = "live" -> Receives(feeds[s], batch)
          [] feeds[s].at = "first" -> [feeds[s] EXCEPT !.missed = @ \cup Lost(batch)]
          [] OTHER -> feeds[s]]

(* A tick adds what it finds, and a slow one first forgets what was held,  *)
(* so that what it no longer finds has ended.                              *)
Before(slow) == IF slow THEN current ELSE {}
EndsNothing(slow, found) == IF slow THEN {} ELSE Before(slow) \ found
EndedAt(slow, found) == Before(slow) \ found
Samples(slow, found) ==
    /\ current' = (current \ Before(slow)) \cup found
    /\ Sends([slow |-> slow, entries |-> found, ended |-> EndedAt(slow, found)])

IdleFor == IF sessions = {} THEN ticks.idle + 1 ELSE 0
IsSlow == (ticks.all + 1) % SlowEvery = 0
Ticks(found) ==
    /\ sampling /\ ticks.all < MaxTicks /\ IdleFor < IdleStop
    /\ ticks' = [all |-> ticks.all + 1, idle |-> IdleFor]
    /\ IsSlow \/ found \cap Slow = {}
    /\ Samples(IsSlow, found)
    /\ UNCHANGED <<here, sampling, sessions, served>>

(* No session has been open for long enough, and sampling stops.           *)
Stops ==
    /\ sampling /\ IdleFor >= IdleStop
    /\ sampling' = FALSE
    /\ UNCHANGED <<current, here, ticks, sessions, served, feeds>>

(* A session has opened since sampling stopped, and a tick of the stopped  *)
(* sampler finds it: what was held is stale, and is forgotten.             *)
Resumes ==
    /\ ~sampling /\ sessions # {}
    /\ sampling' = TRUE
    /\ current' = {}
    /\ ticks' = [ticks EXCEPT !.idle = 0]
    /\ feeds' = [s \in Streams |->
           IF feeds[s].at = "none" THEN feeds[s] ELSE [feeds[s] EXCEPT !.missed = @ \cup {"ended"}]]
    /\ UNCHANGED <<here, sessions, served>>

(***************************************************************************)
(* Serving: serve_default.                                                 *)
(***************************************************************************)

SessionOpens(n) ==
    /\ n \notin sessions /\ sessions' = sessions \cup {n}
    /\ UNCHANGED <<current, here, sampling, ticks, served, feeds>>

(* A session ends with every task of it.                                   *)
SessionCloses(n) ==
    /\ n \in sessions /\ sessions' = sessions \ {n}
    /\ feeds' = [s \in Streams |-> IF SessionOf[s] = n THEN NoFeed ELSE feeds[s]]
    /\ served' = {s \in served : SessionOf[s] # n}
    /\ UNCHANGED <<current, here, sampling, ticks>>

(* The topic is claimed for one stream of a session at a time. What is     *)
(* sent first is taken as the feed opens.                                  *)
Claimed(s) == \E t \in served : SessionOf[t] = SessionOf[s]
TopicClaimed(s) ==
    /\ SessionOf[s] \in sessions /\ feeds[s].at = "none"
    /\ ~Claimed(s)
    /\ served' = served \cup {s}
    /\ feeds' = [feeds EXCEPT ![s] = [NoFeed EXCEPT !.at = "first", !.last = here, !.holds = here \cup current]]
    /\ UNCHANGED <<current, here, sampling, ticks, sessions>>

(* The first batch has been written, and the feed subscribes to the rest.  *)
FirstBatchWritten(s) ==
    /\ feeds[s].at = "first"
    /\ feeds' = [feeds EXCEPT ![s].at = "live"]
    /\ UNCHANGED <<current, here, sampling, ticks, sessions, served>>

(* A batch is written, and its reader drops what has ended. A slow one     *)
(* carries everything there is.                                            *)
TakesIn(holds, batch) == (holds \cup batch.entries) \ batch.ended
Writes(s) ==
    /\ feeds[s].live # <<>>
    /\ feeds' = [feeds EXCEPT ![s].live = Tail(@), ![s].holds = TakesIn(@, Head(feeds[s].live)),
                             ![s].missed = IF Head(feeds[s].live).slow THEN @ \ {"entries"} ELSE @]
    /\ UNCHANGED <<current, here, sampling, ticks, sessions, served>>

(* The facts are looked at again, and where they are no longer the same,   *)
(* all of them are sent with the ones that have ended.                     *)
ChangedFacts(s) == [entries |-> here, ended |-> feeds[s].last \ here]
FactsDue(s) ==
    /\ feeds[s].at = "live" /\ feeds[s].last # here
    /\ feeds' = [feeds EXCEPT ![s].last = here, ![s].holds = TakesIn(@, ChangedFacts(s))]
    /\ UNCHANGED <<current, here, sampling, ticks, sessions, served>>

(* The reader ends the stream, or the device cannot write to it: the feed  *)
(* is over, and the topic may be claimed again.                            *)
TopicReleased(s) ==
    /\ feeds[s].at # "none"
    /\ feeds' = [feeds EXCEPT ![s] = NoFeed]
    /\ served' = served \ {s}
    /\ UNCHANGED <<current, here, sampling, ticks, sessions>>

FactChanges(f) ==
    /\ here' = (here \ {f}) \cup ({f} \ here)
    /\ UNCHANGED <<current, sampling, ticks, sessions, served, feeds>>

FeedNext ==
    \/ \E found \in SUBSET Sampled : Ticks(found)
    \/ Stops \/ Resumes
    \/ \E n \in {SessionOf[s] : s \in Streams} : SessionOpens(n) \/ SessionCloses(n)
    \/ \E s \in Streams : TopicClaimed(s) \/ FirstBatchWritten(s) \/ Writes(s) \/ FactsDue(s) \/ TopicReleased(s)
    \/ \E f \in FactNames : FactChanges(f)

FeedSpec == FeedInit /\ [][FeedNext]_feedVars

(***************************************************************************)
(* Properties.                                                             *)
(***************************************************************************)

CaughtUp(s) == feeds[s].at = "live" /\ feeds[s].live = <<>>
Kept(s) == feeds[s].holds \cap Sampled

(* device-info.md:169. A reader that has had all there is to have holds    *)
(* what the device reports and nothing it has stopped reporting.           *)
EndedIsSent == \A s \in Streams : CaughtUp(s) => Kept(s) \subseteq current

(* session.rs:452. Once it has read what was sent, a reader holds all the  *)
(* sampler holds, from the first slow batch on where it missed some; and   *)
(* nothing the sampler does not, where it missed none that ended           *)
(* something. It holds the facts last looked at and no others, and a       *)
(* session's topic is served on one stream.                                *)
ReaderHolds ==
    /\ \A s \in Streams : CaughtUp(s) /\ "entries" \notin feeds[s].missed => current \subseteq Kept(s)
    /\ \A s \in Streams : CaughtUp(s) /\ "ended" \notin feeds[s].missed => Kept(s) \subseteq current
    /\ \A s \in Streams : feeds[s].at = "live" => feeds[s].holds \cap FactNames = feeds[s].last
    /\ \A s, t \in Streams : feeds[s].at # "none" /\ feeds[t].at # "none" /\ SessionOf[s] = SessionOf[t] => s = t
=============================================================================
