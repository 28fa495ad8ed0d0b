----------------------------- MODULE TamanuActs -----------------------------
(***************************************************************************)
(* Tamanu: crates/bliti/src/tamanu.rs, with acts.rs, run.rs, state.rs and  *)
(* status.rs.                                                              *)
(*                                                                         *)
(* A poll looks at Tamanu while someone is connected, and an act looks at  *)
(* it once its command has ended; one view holds what was last seen and    *)
(* the act under way, and each stream is told the acts that follow.        *)
(*                                                                         *)
(* bestool and the services it reports on are external: a service comes up *)
(* and goes down by itself, and a command does all, part or none of what   *)
(* it says.                                                                *)
(***************************************************************************)
EXTENDS Naturals, FiniteSets

CONSTANTS
    Services,       \* what Tamanu is configured to run
    TamanuStreams,  \* the Tamanu streams there may be
    MaxCommands,    \* bound: acts asked for
    MaxDrifts       \* bound: services that come up or go down by themselves

ASSUME TamanuAssumption == TamanuStreams \cap {"nobody", "poll"} = {} /\ {MaxCommands, MaxDrifts} \subseteq Nat

VARIABLES
    up,        \* the services up
    tamanu,    \* View: what was observed, the act under way, and whether it was seen since the last command ended
    look,      \* Looking: who holds the lock, and what they saw
    poll,      \* whether the poll looks, or waits for someone to be connected
    wanted,    \* whether anyone is connected
    askers,    \* each stream: where it is, the acts it has listed, the changes it has yet to hear of, its act
    result,    \* how the last act ended, and whether it was as its outcome says
    drawn      \* what the bounds count

tamanuVars == <<up, tamanu, look, poll, wanted, askers, result, drawn>>

Nobody == "nobody"
NoTask == [at |-> "none", act |-> "none", ran |-> FALSE]
NoAsker == [open |-> "closed", listed |-> {}, stale |-> FALSE, task |-> NoTask]

TamanuInit ==
    /\ up \in {Services, {}}
    /\ tamanu = [seen |-> "pending", acting |-> "none", since |-> TRUE]
    /\ look = [by |-> Nobody, saw |-> "none", since |-> TRUE]
    /\ poll = "looking" /\ wanted = FALSE
    /\ askers = [s \in TamanuStreams |-> NoAsker]
    /\ result = [how |-> "none", true |-> TRUE] /\ drawn = [commands |-> 0, drifts |-> 0]

(***************************************************************************)
(* What is seen: status.rs and View::state.                                *)
(***************************************************************************)

FromReport(running) ==
    IF running = Services THEN "running" ELSE IF running = {} THEN "stopped" ELSE "degraded"

StateOf(view) ==
    CASE view.acting = "start" -> "starting"
      [] view.acting = "restart" -> "restarting"
      [] OTHER -> view.seen

ListedFor(state) ==
    CASE state = "stopped" -> {"start"}
      [] state \in {"running", "degraded"} -> {"restart"}
      [] OTHER -> {}

(* Every stream subscribed hears that the view has changed.                *)
Publishes(view, tasks) ==
    /\ tamanu' = view
    /\ askers' = [s \in TamanuStreams |->
           [tasks[s] EXCEPT !.stale = @ \/ (tasks[s].open # "closed" /\ view # tamanu)]]

(***************************************************************************)
(* Looking: state::poll, Inner::refresh and observe.                       *)
(***************************************************************************)

(* A look is published before the next one begins.                         *)
TakesLock(who) == look.by = Nobody /\ look' = [by |-> who, saw |-> "none", since |-> FALSE]

PollLooks ==
    /\ poll = "looking" /\ TakesLock("poll")
    /\ UNCHANGED <<up, tamanu, poll, wanted, askers, result, drawn>>

(* bestool reports, or cannot; or there is no installation to report on.   *)
Sights == {FromReport(up), "broken"} \cup IF up = {} THEN {"absent"} ELSE {}
Looks(what) ==
    /\ look.by # Nobody /\ look.saw = "none"
    /\ look' = [look EXCEPT !.saw = what, !.since = TRUE]
    /\ UNCHANGED <<up, tamanu, poll, wanted, askers, result, drawn>>

PollPublishes ==
    /\ look.by = "poll" /\ look.saw # "none"
    /\ Publishes([tamanu EXCEPT !.seen = look.saw, !.since = look.since], askers)
    /\ look' = [look EXCEPT !.by = Nobody]
    /\ UNCHANGED <<up, poll, wanted, result, drawn>>

(* Nobody has been connected for IDLE_STOP: what was seen is withdrawn.    *)
PollStops ==
    /\ poll = "looking" /\ look.by # "poll" /\ ~wanted
    /\ poll' = "stopped"
    /\ Publishes([tamanu EXCEPT !.seen = "pending"], askers)
    /\ UNCHANGED <<up, look, wanted, result, drawn>>

PollResumes ==
    /\ poll = "stopped" /\ wanted
    /\ poll' = "looking"
    /\ UNCHANGED <<up, tamanu, look, wanted, askers, result, drawn>>

(***************************************************************************)
(* Streams: serve, decide and Slot.                                        *)
(***************************************************************************)

(* A stream subscribes, then lists the acts there are.                     *)
Subscribes(s) ==
    /\ askers[s].open = "closed" /\ askers[s].task = NoTask
    /\ askers' = [askers EXCEPT ![s].open = "subscribed", ![s].stale = FALSE]
    /\ wanted' = TRUE
    /\ UNCHANGED <<up, tamanu, look, poll, result, drawn>>

Lists(s) ==
    /\ askers[s].open = "subscribed"
    /\ askers' = [askers EXCEPT ![s].open = "open", ![s].listed = ListedFor(StateOf(tamanu))]
    /\ UNCHANGED <<up, tamanu, look, poll, wanted, result, drawn>>

(* A stream writing its acceptance, or deciding, hears nothing meanwhile.  *)
Listens(s) == askers[s].open = "open" /\ askers[s].task.at \notin {"deciding", "accepting"}

Hears(s) ==
    /\ Listens(s) /\ askers[s].stale
    /\ askers' = [askers EXCEPT ![s].stale = FALSE, ![s].listed = ListedFor(StateOf(tamanu))]
    /\ UNCHANGED <<up, tamanu, look, poll, wanted, result, drawn>>

(* What was decided on is read again as the slot is taken.                 *)
Decides(s, name) ==
    /\ Listens(s) /\ askers[s].task = NoTask /\ drawn.commands < MaxCommands
    /\ drawn' = [drawn EXCEPT !.commands = @ + 1]
    /\ tamanu.acting = "none" /\ name \in ListedFor(StateOf(tamanu))
    /\ askers' = [askers EXCEPT ![s].task = [at |-> "deciding", act |-> name, ran |-> FALSE]]
    /\ UNCHANGED <<up, tamanu, look, poll, wanted, result>>

TakesAnyway(s, free) ==
    Publishes([tamanu EXCEPT !.acting = askers[s].task.act], [askers EXCEPT ![s].task.at = "accepting"])
TakesSlot(s, free) ==
    IF free THEN Publishes([tamanu EXCEPT !.acting = askers[s].task.act], [askers EXCEPT ![s].task.at = "accepting"])
    ELSE askers' = [askers EXCEPT ![s].task = NoTask] /\ UNCHANGED tamanu
Takes(s) ==
    /\ askers[s].task.at = "deciding"
    /\ TakesSlot(s, tamanu.acting = "none")
    /\ UNCHANGED <<up, look, poll, wanted, result, drawn>>

(* The slot is given back, and the view is what it was but for it.         *)
Released(view, name) == [view EXCEPT !.acting = IF @ = name THEN "none" ELSE @]

Accepts(s) ==
    /\ askers[s].task.at = "accepting"
    /\ askers' = [askers EXCEPT ![s].task.at = "running"]
    /\ UNCHANGED <<up, tamanu, look, poll, wanted, result, drawn>>

(* The stream ends, by its client or as it cannot be written to: an act    *)
(* not yet begun goes with it, and one begun goes on.                      *)
TamanuStreamEnds(s) ==
    /\ askers[s].open # "closed" /\ askers[s].task.at # "deciding"
    /\ wanted' = (\E t \in TamanuStreams \ {s} : askers[t].open # "closed")
    /\ IF askers[s].task.at = "accepting"
       THEN Publishes(Released(tamanu, askers[s].task.act), [askers EXCEPT ![s] = NoAsker])
       ELSE askers' = [askers EXCEPT ![s] = [NoAsker EXCEPT !.task = askers[s].task]] /\ UNCHANGED tamanu
    /\ UNCHANGED <<up, look, poll, result, drawn>>

(***************************************************************************)
(* Carrying out: Inner::carry_out.                                         *)
(***************************************************************************)

(* The command ends, or ACT has passed and it is killed. Nothing seen so   *)
(* far was seen since.                                                     *)
CommandEnds(s, ok, left) ==
    /\ askers[s].task.at = "running"
    /\ up' = left
    /\ askers' = [askers EXCEPT ![s].task.at = "settling", ![s].task.ran = ok]
    /\ tamanu' = [tamanu EXCEPT !.since = FALSE] /\ look' = [look EXCEPT !.since = FALSE]
    /\ UNCHANGED <<poll, wanted, result, drawn>>

Settles(s) ==
    /\ askers[s].task.at = "settling" /\ TakesLock(s)
    /\ UNCHANGED <<up, tamanu, poll, wanted, askers, result, drawn>>

(* What is seen is published; the act is over where it is what was asked   *)
(* for, where the command failed, or where SETTLE has passed. Its slot is  *)
(* given back once the lock has been.                                      *)
DoneAsSeen(task, saw) == saw = "running" /\ task.ran
Refreshes(s) ==
    /\ look.by = s /\ look.saw # "none" /\ askers[s].task.at = "settling"
    /\ look' = [look EXCEPT !.by = Nobody]
    /\ \E at \in {"settling", "done", "failed"} :
        /\ at = "done" <=> DoneAsSeen(askers[s].task, look.saw)
        /\ at = "settling" => askers[s].task.ran
        /\ Publishes([tamanu EXCEPT !.seen = look.saw, !.since = look.since], [askers EXCEPT ![s].task.at = at])
        /\ result' = IF at = "settling" THEN result
                     ELSE [how |-> at, true |-> at = "done" => askers[s].task.ran /\ look.saw = "running"]
    /\ UNCHANGED <<up, poll, wanted, drawn>>

ActEnds(s) ==
    /\ askers[s].task.at \in {"done", "failed"}
    /\ Publishes(Released(tamanu, askers[s].task.act), [askers EXCEPT ![s].task = NoTask])
    /\ UNCHANGED <<up, look, poll, wanted, result, drawn>>

ServiceDrifts(service) ==
    /\ drawn.drifts < MaxDrifts /\ drawn' = [drawn EXCEPT !.drifts = @ + 1]
    /\ up' = (up \ {service}) \cup ({service} \ up)
    /\ UNCHANGED <<tamanu, look, poll, wanted, askers, result>>

TamanuNext ==
    \/ PollLooks \/ PollPublishes \/ PollStops \/ PollResumes
    \/ \E what \in Sights : Looks(what)
    \/ \E s \in TamanuStreams :
        \/ Subscribes(s) \/ Lists(s) \/ Hears(s) \/ Takes(s) \/ Accepts(s) \/ TamanuStreamEnds(s)
        \/ Settles(s) \/ Refreshes(s) \/ ActEnds(s)
        \/ \E name \in {"start", "restart"} : Decides(s, name)
        \/ \E ok \in BOOLEAN, left \in SUBSET Services : CommandEnds(s, ok, left)
    \/ \E service \in Services : ServiceDrifts(service)

TamanuSpec == TamanuInit /\ [][TamanuNext]_tamanuVars

(***************************************************************************)
(* Properties.                                                             *)
(***************************************************************************)

UnderWay(task) == task.at \in {"accepting", "running", "settling", "done", "failed"}

(* control/tamanu.md:56, :72, :74; state.rs:160. One act is under way at a *)
(* time, and the view says which from its acceptance to its end. Once it   *)
(* has ended, what is reported of Tamanu was seen after its command ended, *)
(* whatever look began before; it is done only where the command succeeded *)
(* and Tamanu was seen running. A stream with nothing left to hear lists   *)
(* what can be asked.                                                      *)
ActsAreSeenThrough ==
    /\ \A s, t \in TamanuStreams : UnderWay(askers[s].task) /\ UnderWay(askers[t].task) => s = t
    /\ \A s \in TamanuStreams : UnderWay(askers[s].task) => tamanu.acting = askers[s].task.act
    /\ tamanu.acting # "none" => \E s \in TamanuStreams : UnderWay(askers[s].task)
    /\ tamanu.acting = "none" /\ tamanu.seen # "pending" => tamanu.since
    /\ result.true
    /\ \A s \in TamanuStreams :
           askers[s].open = "open" /\ ~askers[s].stale => askers[s].listed = ListedFor(StateOf(tamanu))
=============================================================================
