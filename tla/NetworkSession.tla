--------------------------- MODULE NetworkSession ---------------------------
(***************************************************************************)
(* The network configuration a device holds and the sessions reading and   *)
(* changing it: crates/bliti/src/network/session/.                         *)
(*                                                                         *)
(* One task owns the configuration (task.rs, held.rs). It records a        *)
(* proposal, hands it to the backend to apply and verify, records how that *)
(* went, and publishes a snapshot of it all on a watch channel. Sessions   *)
(* (open.rs) wake when the snapshot or the set of open sessions            *)
(* (holders.rs) changes, and tell their client what it has not been told.  *)
(* The backend runs beside them and publishes its candidates' states on a  *)
(* watch channel of its own. A restart takes everything but the file.      *)
(***************************************************************************)
EXTENDS Integers, Sequences

CONSTANTS
    Sessions,    \* the streams a session may be opened on
    Documents,   \* the configurations proposed
    Default,     \* the one held before any proposal is saved
    Size,        \* how many attachments each document has
    MaxCaps,     \* bound: changes of the device's capabilities
    Admitted,    \* the documents each capabilities admit and the backend accepts
    MaxProposals,  \* bound: proposals the task is sent
    MaxOpens,    \* bound: sessions opened
    MaxChanges,  \* bound: changes of a candidate's state
    MaxFaults,   \* bound: failures of the file
    MaxCrashes,  \* bound: restarts
    SyncFails    \* whether syncing the directory, after the rename, may be what fails

ASSUME SessionAssumption ==
    /\ Default \in Documents
    /\ Size \in [Documents -> Nat]
    /\ Admitted \in [0..MaxCaps -> SUBSET Documents]
    /\ {MaxCaps, MaxProposals, MaxOpens, MaxChanges, MaxFaults, MaxCrashes} \subseteq Nat
    /\ SyncFails \in BOOLEAN
    /\ "none" \notin Documents /\ "unknown" \notin Documents /\ "gone" \notin Sessions

VARIABLES
    disk,       \* the file: Stored, or NoFile
    conf,       \* the task's State: what it holds, how it fares, what it replaced
    job,        \* the verification the task is running
    task,       \* what the task is in the middle of recording, and for whom
    queue,      \* the commands sent to the task
    published,  \* the snapshot on the watch channel
    backend,    \* the backend: its candidates' states, its capabilities, what it is asked
    holders,    \* the open sessions, oldest first
    sess,       \* each session
    up,         \* the daemon is running
    spent       \* how much of each bound is spent

vars == <<disk, conf, job, task, queue, published, backend, holders, sess, up, spent>>

NoDoc == "none"
NoFile == [doc |-> NoDoc, outcome |-> "applied", replaced |-> NoDoc]
NoJob == [doc |-> NoDoc, against |-> NoDoc, asked |-> FALSE, verdict |-> "none"]
Idle == [pc |-> "idle", doc |-> NoDoc, by |-> "gone", wrote |-> "no"]

(* The candidates' states a backend publishes: whose they are, and which   *)
(* of the states those candidates have been in.                            *)
Unobserved == [of |-> NoDoc, at |-> 0]
Unknown == [of |-> "unknown", at |-> 0]
States == [of : Documents \cup {NoDoc}, at : 0..MaxChanges]

NoReport == [busy |-> FALSE, outcome |-> "none", entries |-> Unobserved]
NoHand == [revision |-> -1]
Closed == [open |-> FALSE, unseen |-> FALSE, woken |-> FALSE, told |-> -1, knows |-> -1,
           revision |-> -1, doc |-> NoDoc, reported |-> NoReport, hand |-> NoHand,
           waits |-> "none"]
-----------------------------------------------------------------------------
(* State::load: what the file holds, or the default where there is none.   *)
Load == IF disk = NoFile
        THEN [doc |-> Default, outcome |-> "applied", replaced |-> NoDoc, revision |-> 0]
        ELSE [doc |-> disk.doc, outcome |-> disk.outcome, replaced |-> disk.replaced, revision |-> 0]

StoredNow(c) == [doc |-> c.doc, outcome |-> c.outcome, replaced |-> c.replaced]

(* The backend's entries are taken as the held configuration's wherever    *)
(* there are as many of them as it has candidates.                         *)
CountAs(states, doc) ==
    IF states.of = NoDoc THEN Unobserved
    ELSE IF Size[states.of] = Size[doc] THEN states ELSE Unknown

Snapshot(c, b) == [revision |-> c.revision, doc |-> c.doc, outcome |-> c.outcome,
                   caps |-> b.caps, entries |-> CountAs(b.states, c.doc)]

ReplacedAlwaysHeld(c) == c.doc

(* The baseline a proposal is judged against: what the last judged         *)
(* configuration was, through however many proposals since.                *)
Replaced(c) == IF c.outcome = "verifying" /\ c.replaced # NoDoc THEN c.replaced ELSE c.doc

Busy(hs, s) == hs = <<>> \/ Head(hs) # s

(* A registration dropped: the others keep their order.                    *)
Place(hs, s) == CHOOSE n \in DOMAIN hs : hs[n] = s
Without(hs, s) == [n \in 1..(Len(hs) - 1) |-> hs[IF n < Place(hs, s) THEN n ELSE n + 1]]

(* The task publishes: sessions wake where the snapshot differs.           *)
Wakes(ss, next) ==
    IF next = published THEN ss
    ELSE [s \in Sessions |-> [ss[s] EXCEPT !.unseen = @ \/ ss[s].open]]

Publish(c, b, ss) ==
    /\ published' = Snapshot(c, b)
    /\ sess' = Wakes(ss, Snapshot(c, b))

Answer(ss, by, answer) == IF by = "gone" THEN ss ELSE [ss EXCEPT ![by].waits = answer]

Spends(what, bound) == spent[what] < bound /\ spent' = [spent EXCEPT ![what] = @ + 1]
-----------------------------------------------------------------------------
(* The task.                                                               *)

(* A proposal is parsed and checked against the capabilities of the moment *)
(* and by the backend. One refused changes nothing, and is answered.       *)
TakesProposal ==
    /\ up /\ task.pc = "idle" /\ queue # <<>> /\ Head(queue).kind = "propose"
    /\ queue' = Tail(queue)
    /\ LET c == Head(queue) IN
        \/ /\ c.doc \notin Admitted[backend.caps]
           /\ Publish(conf, backend, Answer(sess, c.by, "refused"))
           /\ UNCHANGED task
        \/ /\ c.doc \in Admitted[backend.caps]
           /\ task' = [pc |-> "saving", doc |-> c.doc, by |-> c.by, wrote |-> "no"]
           /\ UNCHANGED <<published, sess>>
    /\ UNCHANGED <<disk, conf, job, backend, holders, up, spent>>

TakesAct ==
    /\ up /\ task.pc = "idle" /\ queue # <<>> /\ Head(queue).kind = "act"
    /\ queue' = Tail(queue)
    /\ sess' = Answer(sess, Head(queue).by, "acting")
    /\ UNCHANGED <<disk, conf, job, task, published, backend, holders, up, spent>>

ActEnds(s) ==
    /\ up /\ task.pc = "idle" /\ sess[s].waits = "acting"
    /\ sess' = [sess EXCEPT ![s].waits = "done"]
    /\ UNCHANGED <<disk, conf, job, task, queue, published, backend, holders, up, spent>>

(* What a record asks the file to hold.                                    *)
Recording ==
    IF task.pc = "saving"
    THEN [doc |-> task.doc, outcome |-> "verifying", replaced |-> Replaced(conf)]
    ELSE StoredNow(conf)

(* Store::record: all of it or none of it reaches the file, and an error   *)
(* may come of either.                                                     *)
Writes ==
    /\ up /\ task.pc \in {"saving", "settling"} /\ task.wrote = "no"
    /\ \/ /\ disk' = Recording
          /\ task' = [task EXCEPT !.wrote = "ok"]
          /\ UNCHANGED spent
       \/ /\ Spends("faults", MaxFaults)
          /\ task' = [task EXCEPT !.wrote = "err"]
          /\ disk' \in {disk} \cup (IF SyncFails THEN {Recording} ELSE {})
    /\ UNCHANGED <<conf, job, queue, published, backend, holders, sess, up>>

(* The proposal held, published, and its verification begun in place of    *)
(* the one running, which is dropped with whatever it had come to.         *)
Saved ==
    /\ up /\ task.pc = "saving" /\ task.wrote = "ok"
    /\ LET c == [doc |-> task.doc, outcome |-> "verifying", replaced |-> Replaced(conf),
                 revision |-> conf.revision + 1]
       IN /\ conf' = c
          /\ job' = [doc |-> c.doc, against |-> c.replaced, asked |-> FALSE, verdict |-> "none"]
          /\ Publish(c, backend, Answer(sess, task.by, "saved"))
    /\ task' = Idle
    /\ UNCHANGED <<disk, queue, backend, holders, up, spent>>

NotSavedSilently ==
    /\ up /\ task.pc = "saving" /\ task.wrote = "err"
    /\ Publish(conf, backend, sess)
    /\ task' = Idle
    /\ UNCHANGED <<disk, conf, job, queue, backend, holders, up, spent>>

NotSaved ==
    /\ up /\ task.pc = "saving" /\ task.wrote = "err"
    /\ Publish(conf, backend, Answer(sess, task.by, "refused"))
    /\ task' = Idle
    /\ UNCHANGED <<disk, conf, job, queue, backend, holders, up, spent>>

TakesVerdict ==
    /\ up /\ task.pc = "idle" /\ job.verdict # "none"
    /\ conf' = [conf EXCEPT !.outcome = job.verdict, !.replaced = NoDoc]
    /\ job' = NoJob
    /\ task' = [Idle EXCEPT !.pc = "settling"]
    /\ UNCHANGED <<disk, queue, published, backend, holders, sess, up, spent>>

Settled ==
    /\ up /\ task.pc = "settling" /\ task.wrote # "no"
    /\ Publish(conf, backend, sess)
    /\ task' = Idle
    /\ UNCHANGED <<disk, conf, job, queue, backend, holders, up, spent>>

SeesStates ==
    /\ up /\ task.pc = "idle" /\ backend.unseen
    /\ backend' = [backend EXCEPT !.unseen = FALSE]
    /\ Publish(conf, backend, sess)
    /\ UNCHANGED <<disk, conf, job, task, queue, holders, up, spent>>
-----------------------------------------------------------------------------
(* The backend.                                                            *)

(* The verification's first poll sends the backend what to apply.          *)
Asks ==
    /\ up /\ task.pc = "idle" /\ job # NoJob /\ ~job.asked
    /\ job' = [job EXCEPT !.asked = TRUE]
    /\ backend' = [backend EXCEPT !.asked = Append(@, job.doc)]
    /\ UNCHANGED <<disk, conf, task, queue, published, holders, sess, up, spent>>

ConfiguresNewestFirst ==
    /\ up /\ backend.asked # <<>>
    /\ backend' = [backend EXCEPT !.states = [of |-> backend.asked[Len(backend.asked)], at |-> 0],
                                  !.unseen = TRUE, !.asked = SubSeq(@, 1, Len(@) - 1)]
    /\ UNCHANGED <<disk, conf, job, task, queue, published, holders, sess, up, spent>>

(* It configures what it is asked, in order, publishing its states.        *)
Configures ==
    /\ up /\ backend.asked # <<>>
    /\ backend' = [backend EXCEPT !.states = [of |-> Head(backend.asked), at |-> 0],
                                  !.unseen = TRUE, !.asked = Tail(@)]
    /\ UNCHANGED <<disk, conf, job, task, queue, published, holders, sess, up, spent>>

(* It answers the last it was asked, once that is verified.                *)
Verifies ==
    /\ up /\ job.asked /\ backend.asked = <<>> /\ job.verdict = "none"
    /\ \E verdict \in {"applied", "failed"} : job' = [job EXCEPT !.verdict = verdict]
    /\ UNCHANGED <<disk, conf, task, queue, published, backend, holders, sess, up, spent>>

CandidateChanges ==
    /\ up /\ backend.states.of # NoDoc /\ backend.states.at < MaxChanges
    /\ Spends("changes", MaxChanges)
    /\ backend' = [backend EXCEPT !.states.at = @ + 1, !.unseen = TRUE]
    /\ UNCHANGED <<disk, conf, job, task, queue, published, holders, sess, up>>

(* The radios probed again found other capabilities, and the session is    *)
(* woken through the states, which are what they were.                     *)
Reprobed ==
    /\ up /\ backend.caps < MaxCaps
    /\ backend' = [backend EXCEPT !.caps = @ + 1, !.unseen = TRUE]
    /\ UNCHANGED <<disk, conf, job, task, queue, published, holders, sess, up, spent>>
-----------------------------------------------------------------------------
(* A session. Sync is what it does each time it wakes: the snapshot is     *)
(* taken and marked seen, and `configuration` goes out where the client    *)
(* lacks it. Sending waits on the stream, so `state` follows as a step of  *)
(* its own, with who is busy read only then.                               *)

Carried(me, snap, caps, busy) ==
    LET r == [busy |-> busy, outcome |-> snap.outcome, entries |-> snap.entries] IN
    IF snap.entries = Unknown THEN me
    ELSE [me EXCEPT !.reported = r, !.knows = IF caps THEN snap.caps ELSE @]

Sync(me, busy, resend) ==
    LET caps == me.told # published.caps
        seen == [me EXCEPT !.unseen = FALSE, !.told = published.caps]
    IN IF resend \/ me.revision # published.revision
       THEN [seen EXCEPT !.revision = published.revision, !.doc = published.doc,
                         !.knows = IF caps THEN published.caps ELSE @, !.hand = published]
       ELSE Carried(seen, published, caps, busy)

OnlySession == UNCHANGED <<disk, conf, job, task, published, backend, up>>

(* Who else is open has changed.                                           *)
Woken(ss, s) == [x \in Sessions |-> IF x = s THEN ss[x] ELSE [ss[x] EXCEPT !.woken = @ \/ ss[x].open]]

Opens(s) ==
    /\ up /\ ~sess[s].open /\ Spends("opens", MaxOpens)
    /\ holders' = Append(holders, s)
    /\ sess' = Woken([sess EXCEPT ![s] = Sync([Closed EXCEPT !.open = TRUE], FALSE, TRUE)], s)
    /\ UNCHANGED queue /\ OnlySession

ClosesQuietly(s) ==
    /\ up /\ sess[s].open
    /\ holders' = Without(holders, s)
    /\ sess' = [sess EXCEPT ![s] = Closed]
    /\ queue' = [n \in DOMAIN queue |->
                    IF queue[n].by = s THEN [queue[n] EXCEPT !.by = "gone"] ELSE queue[n]]
    /\ task' = IF task.by = s THEN [task EXCEPT !.by = "gone"] ELSE task
    /\ UNCHANGED <<disk, conf, job, published, backend, up, spent>>

(* The client goes, or the stream fails, at any point. What the session    *)
(* asked the task for is still carried out, its answer dropped.            *)
Closes(s) ==
    /\ up /\ sess[s].open
    /\ holders' = Without(holders, s)
    /\ sess' = Woken([sess EXCEPT ![s] = Closed], s)
    /\ queue' = [n \in DOMAIN queue |->
                    IF queue[n].by = s THEN [queue[n] EXCEPT !.by = "gone"] ELSE queue[n]]
    /\ task' = IF task.by = s THEN [task EXCEPT !.by = "gone"] ELSE task
    /\ UNCHANGED <<disk, conf, job, published, backend, up, spent>>

SendsState(s) ==
    /\ up /\ sess[s].open /\ sess[s].hand # NoHand
    /\ sess' = [sess EXCEPT ![s] =
                    Carried([sess[s] EXCEPT !.hand = NoHand], sess[s].hand, FALSE, Busy(holders, s))]
    /\ UNCHANGED <<queue, holders, spent>> /\ OnlySession

Between(s) == up /\ sess[s].open /\ sess[s].hand = NoHand
Answered(s) == sess[s].waits \in {"saved", "refused", "done"}

(* Open::changed resolves for one of the two, and marks that one seen.     *)
Wake(s) ==
    /\ Between(s) /\ ~Answered(s)
    /\ \/ /\ sess[s].unseen
          /\ sess' = [sess EXCEPT ![s] = Sync(sess[s], Busy(holders, s), FALSE)]
       \/ /\ sess[s].woken
          /\ sess' = [sess EXCEPT ![s] = Sync([sess[s] EXCEPT !.woken = FALSE], Busy(holders, s), FALSE)]
    /\ UNCHANGED <<queue, holders, spent>> /\ OnlySession

(* A change is told before a message is taken.                             *)
Reads(s) == Between(s) /\ sess[s].waits = "none" /\ ~sess[s].unseen /\ ~sess[s].woken

Configure(s) ==
    /\ Reads(s)
    /\ sess' = [sess EXCEPT ![s] = Sync([sess[s] EXCEPT !.told = -1], FALSE, TRUE)]
    /\ UNCHANGED <<queue, holders, spent>> /\ OnlySession

Sends(s, kind, doc) ==
    /\ queue' = Append(queue, [kind |-> kind, doc |-> doc, by |-> s])
    /\ sess' = [sess EXCEPT ![s].waits = kind]

Refuses(s) == UNCHANGED queue /\ sess' = [sess EXCEPT ![s] = Sync(sess[s], FALSE, TRUE)]

Propose(s, doc) ==
    /\ Reads(s)
    /\ IF Busy(holders, s) THEN Refuses(s) /\ UNCHANGED spent
       ELSE Sends(s, "propose", doc) /\ Spends("proposals", MaxProposals)
    /\ UNCHANGED holders /\ OnlySession

Act(s) ==
    /\ Reads(s) /\ ~Busy(holders, s)
    /\ Sends(s, "act", NoDoc)
    /\ UNCHANGED <<holders, spent>> /\ OnlySession

TakesAnswer(s) ==
    /\ Between(s) /\ Answered(s)
    /\ LET me == [sess[s] EXCEPT !.waits = "none"]
       IN sess' = [sess EXCEPT ![s] =
                    IF sess[s].waits = "refused" THEN Sync(me, FALSE, TRUE) ELSE me]
    /\ UNCHANGED <<queue, holders, spent>> /\ OnlySession
-----------------------------------------------------------------------------
Crash ==
    /\ up /\ Spends("crashes", MaxCrashes)
    /\ up' = FALSE /\ job' = NoJob /\ task' = Idle /\ queue' = <<>> /\ holders' = <<>>
    /\ sess' = [s \in Sessions |-> Closed]
    /\ backend' = [backend EXCEPT !.states = Unobserved, !.unseen = FALSE, !.asked = <<>>]
    /\ UNCHANGED <<disk, conf, published>>

StartWithoutVerifying ==
    /\ ~up /\ up' = TRUE
    /\ conf' = Load
    /\ backend' = [backend EXCEPT !.states = [of |-> conf'.doc, at |-> 0]]
    /\ published' = Snapshot(conf', backend')
    /\ UNCHANGED <<disk, job, task, queue, holders, sess, spent>>

(* Configurator::start: a settled configuration is put back in force, one  *)
(* whose verification was interrupted is verified again. The file may have *)
(* become unreadable, which leaves the default.                            *)
Start ==
    /\ ~up /\ up' = TRUE
    /\ \/ UNCHANGED <<disk, spent>>
       \/ disk' = NoFile /\ Spends("faults", MaxFaults)
    /\ LET c == Load' IN
       IF c.outcome = "verifying"
       THEN /\ conf' = c
            /\ job' = [doc |-> c.doc, against |-> c.replaced, asked |-> FALSE, verdict |-> "none"]
            /\ UNCHANGED backend
       ELSE /\ \E runs \in BOOLEAN : conf' = [c EXCEPT !.outcome = IF runs THEN @ ELSE "failed"]
            /\ backend' = [backend EXCEPT !.states = [of |-> c.doc, at |-> 0]]
            /\ UNCHANGED job
    /\ published' = Snapshot(conf', backend')
    /\ UNCHANGED <<task, queue, holders, sess>>

Init ==
    /\ disk = NoFile /\ conf = Load /\ job = NoJob /\ task = Idle /\ queue = <<>>
    /\ backend = [states |-> [of |-> Default, at |-> 0], unseen |-> FALSE, caps |-> 0, asked |-> <<>>]
    /\ published = Snapshot(conf, backend)
    /\ holders = <<>> /\ sess = [s \in Sessions |-> Closed] /\ up = TRUE
    /\ spent = [w \in {"proposals", "opens", "changes", "faults", "crashes"} |-> 0]

TaskSteps == \/ TakesProposal \/ TakesAct \/ Writes \/ Saved \/ NotSaved \/ TakesVerdict
             \/ Settled \/ SeesStates
BackendSteps == Asks \/ Configures \/ Verifies
SessionSteps(s) == SendsState(s) \/ Wake(s) \/ TakesAnswer(s) \/ ActEnds(s)
Clients(s) == \/ Opens(s) \/ Closes(s) \/ Configure(s) \/ Act(s)
              \/ \E doc \in Documents : Propose(s, doc)

Next == \/ TaskSteps \/ BackendSteps \/ CandidateChanges \/ Reprobed \/ Crash \/ Start
        \/ \E s \in Sessions : SessionSteps(s) \/ Clients(s)

Spec == Init /\ [][Next]_vars

(* Tokio polls a woken task again and its select arms at random, so a step *)
(* that stays ready is taken. A write to a stream ends or fails it. The    *)
(* backend answers: every stage of a verification has a deadline. The      *)
(* service manager starts the daemon again.                                *)
Fairness ==
    /\ WF_vars(TakesProposal) /\ WF_vars(TakesAct) /\ WF_vars(Writes) /\ WF_vars(Saved)
    /\ WF_vars(NotSaved) /\ WF_vars(TakesVerdict) /\ WF_vars(Settled) /\ WF_vars(SeesStates)
    /\ WF_vars(Asks) /\ WF_vars(Configures) /\ WF_vars(Verifies) /\ WF_vars(Start)
    /\ \A s \in Sessions : WF_vars(SendsState(s)) /\ WF_vars(Wake(s))
                          /\ WF_vars(TakesAnswer(s)) /\ WF_vars(ActEnds(s))

FairSpec == Spec /\ Fairness
-----------------------------------------------------------------------------
(* A configuration a client has been told of is the one a restart at that  *)
(* moment would hold, or else the one being recorded just then             *)
(* (held.rs State::save, which records before it holds).                   *)
ToldIsDurable ==
    \A s \in Sessions : (sess[s].open /\ sess[s].revision = conf.revision) =>
        Load.doc \in {sess[s].doc} \cup (IF task.pc = "saving" THEN {task.doc} ELSE {})

(* Whenever the task is between two commands, a verification runs exactly  *)
(* where the outcome is `verifying`, and it is of the configuration held,  *)
(* against the one that was replaced, a restart in its middle included     *)
(* (task.rs run, held.rs save and settle, session.rs Configurator::start). *)
VerifyingIsRun ==
    (up /\ task.pc = "idle") =>
        /\ conf.outcome = "verifying" <=> job # NoJob
        /\ job # NoJob => job.doc = conf.doc /\ job.against = conf.replaced /\ job.against # NoDoc

(* However many proposals are saved before one is judged, and across       *)
(* restarts, each is judged against the configuration last judged          *)
(* (held.rs State::save).                                                  *)
BaselineKept ==
    [][(conf.outcome = "verifying" /\ conf'.outcome = "verifying") =>
            conf'.replaced = conf.replaced]_vars

(* Once the backend has done what it was asked it runs the configuration   *)
(* held, however proposals overtook each other (task.rs verifying).        *)
RunsHeld ==
    (up /\ task.pc = "idle" /\ (job = NoJob \/ job.asked) /\ backend.asked = <<>>) =>
        backend.states.of = conf.doc

Quiet(s) == Between(s) /\ ~sess[s].unseen /\ ~sess[s].woken

(* No wake-up is lost: when neither the task nor a session has anything    *)
(* left to take in, the client was told the configuration held, how it     *)
(* fares, whether another session holds it and what the backend last said  *)
(* of its candidates (open.rs sync and changed, task.rs publish).          *)
QuietKnows ==
    \A s \in Sessions : (Quiet(s) /\ task.pc = "idle" /\ ~backend.unseen) =>
        /\ sess[s].revision = conf.revision /\ sess[s].doc = conf.doc
        /\ CountAs(backend.states, conf.doc) # Unknown =>
             sess[s].reported = [busy |-> Busy(holders, s), outcome |-> conf.outcome,
                                 entries |-> CountAs(backend.states, conf.doc)]

(* A session behind another never has the task change anything: what it    *)
(* proposes is refused, and one that holds the configuration goes on       *)
(* holding it until it closes (holders.rs, open.rs propose).               *)
OnlyHolderAsks ==
    \A s \in Sessions : sess[s].waits # "none" => ~Busy(holders, s)

(* The sessions and the task agree, whoever opens and closes: nothing a    *)
(* session waits for is lost, and only the oldest has the task do anything.*)
SessionsAgree == QuietKnows /\ OnlyHolderAsks

(* What is held is what was told, what is verified and what runs, through  *)
(* restarts, failing files and proposals that overtake each other.         *)
HeldIsToldAndRun == ToldIsDurable /\ VerifyingIsRun /\ RunsHeld

(* Capabilities that changed reach every client (session.md: a device MUST *)
(* carry `capabilities` on the next `configuration` or `state` it sends    *)
(* whenever they differ from those it last sent).                          *)
CapabilitiesTold ==
    \A s \in Sessions : (Quiet(s) /\ task.pc = "idle" /\ ~backend.unseen
                            /\ backend.states.of = conf.doc) => sess[s].knows = backend.caps

(* A proposal refused leaves the configuration held as it was, which is    *)
(* what a restart would hold (session.md: "cannot-configure", then the     *)
(* configuration it holds, unchanged; held.rs State::save).                *)
RefusedIsNotHeld ==
    [][\A s \in Sessions : (sess[s].waits = "propose" /\ sess'[s].waits = "refused") =>
            Load'.doc = conf'.doc]_vars

(* A proposal under way is judged, or a restart or another takes its place *)
(* (task.rs run).                                                          *)
VerdictComes == (up /\ conf.outcome = "verifying") ~> (~up \/ conf.outcome # "verifying")

(* A session's request to the task is answered unless it closes            *)
(* (open.rs answered).                                                     *)
AskedIsAnswered ==
    \A s \in Sessions : (sess[s].waits # "none") ~> (sess[s].waits = "none")

(* Every client that stays is in the end told the configuration held, its  *)
(* outcome and whether it is busy, and stays so told (open.rs converse).   *)
AllAreTold ==
    <>[](\A s \in Sessions : sess[s].open =>
            /\ sess[s].revision = conf.revision
            /\ sess[s].reported.outcome = conf.outcome
            /\ sess[s].reported.busy = Busy(holders, s))

(* Nothing a client waits for stays out: its requests are answered, and it *)
(* comes to know what is held (open.rs, answered and converse).            *)
ClientsAreServed == AskedIsAnswered /\ AllAreTold
=============================================================================
