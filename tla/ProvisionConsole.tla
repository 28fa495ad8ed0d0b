-------------------------- MODULE ProvisionConsole --------------------------
(***************************************************************************)
(* The console of a device in provisioning mode, and the provisioning      *)
(* stream it speaks: crates/bliti/src/provision/console.rs, console/,      *)
(* stream.rs and socket.rs.                                                *)
(*                                                                         *)
(* The stream sends the run's state on opening and each time it changed,   *)
(* the changes in between run together, and answers each act before the    *)
(* state it brought about. The console asks the operator one question at a *)
(* time, of the state it last heard, and having sent an act asks nothing   *)
(* until the device has acted on it.                                       *)
(*                                                                         *)
(* The run itself is ProvisionRun's; here it is any run that takes the     *)
(* acts it offers, with another front end acting beside the console.       *)
(***************************************************************************)
EXTENDS Naturals, Sequences

CONSTANTS
    Prompts,     \* the prompts a run may ask
    RunSteps,    \* the steps offered
    MaxVersion   \* bound: changes of the run's state

ASSUME ConsoleAssumption == MaxVersion \in Nat

VARIABLES
    dev,      \* the run's state
    version,  \* ghost: the changes of it so far
    unsent,   \* whether it changed since the stream last sent it
    toDev, toCon,
    con,      \* the console
    actedAt   \* ghost: the version the console's last accepted act made

conVars == <<dev, version, unsent, toDev, toCon, con, actedAt>>

NoPrompt == "none"
NoSnap == [run |-> "none"]
Unticked == [s \in RunSteps |-> "none"]

ConInit ==
    /\ dev = [run |-> "idle", prompt |-> NoPrompt, done |-> [s \in RunSteps |-> FALSE]]
    /\ version = 0 /\ unsent = TRUE
    /\ toDev = << >> /\ toCon = << >>
    /\ con = [snap |-> NoSnap, heard |-> 0, asking |-> "none", sentAt |-> NoSnap, accepted |-> FALSE,
              answered |-> {}, skipped |-> {}, ticks |-> Unticked, left |-> FALSE]
    /\ actedAt = 0
-----------------------------------------------------------------------------
(* The run, as every front end sees it (run.rs; external to this module).  *)
Changes(d) ==
    /\ version < MaxVersion
    /\ dev' = d /\ version' = version + 1 /\ unsent' = TRUE

Accepts(a) ==
    CASE a.act = "start" -> dev.run = "idle" /\ a.steps # {}
      [] a.act = "answer" -> dev.prompt = a.prompt
      [] a.act = "retry" -> dev.run = "failed"
      [] a.act = "stop" -> dev.run \in {"waiting", "failed"}
      [] a.act = "acknowledge" -> dev.run = "finished"

Acted(a) ==
    CASE a.act \in {"start", "retry"} -> [dev EXCEPT !.run = "running"]
      [] a.act = "answer" -> [dev EXCEPT !.run = "running", !.prompt = NoPrompt]
      [] a.act \in {"stop", "acknowledge"} -> [dev EXCEPT !.run = "idle", !.prompt = NoPrompt]

Acts ==
    [act : {"start"}, steps : SUBSET RunSteps] \cup [act : {"answer"}, prompt : Prompts]
        \cup [act : {"retry", "stop", "acknowledge"}]

RunGoesOn ==
    /\ \/ dev.run = "running" /\ dev.prompt = NoPrompt
          /\ \/ \E p \in Prompts : Changes([dev EXCEPT !.run = "waiting", !.prompt = p])
             \/ Changes([dev EXCEPT !.run = "failed"])
             \/ Changes([dev EXCEPT !.run = "finished", !.done = [s \in RunSteps |-> TRUE]])
       \/ dev.run = "idle" /\ \E s \in RunSteps : Changes([dev EXCEPT !.done[s] = ~@])
    /\ UNCHANGED <<toDev, toCon, con, actedAt>>

OtherActs ==
    /\ \E a \in Acts : Accepts(a) /\ Changes(Acted(a))
    /\ UNCHANGED <<toDev, toCon, con, actedAt>>
-----------------------------------------------------------------------------
(* serve: what changed is sent before an act is taken.                     *)
StreamSends ==
    /\ unsent
    /\ unsent' = FALSE
    /\ toCon' = Append(toCon, [is |-> "state", snap |-> dev, version |-> version])
    /\ UNCHANGED <<dev, version, toDev, con, actedAt>>

StreamActs ==
    /\ ~unsent /\ toDev # << >>
    /\ toDev' = Tail(toDev)
    /\ IF Accepts(Head(toDev))
       THEN /\ Changes(Acted(Head(toDev)))
            /\ actedAt' = version + 1
            /\ toCon' = Append(toCon, [is |-> "accepted"])
       ELSE /\ toCon' = Append(toCon, [is |-> "cannot"])
            /\ UNCHANGED <<dev, version, unsent, actedAt>>
    /\ UNCHANGED con
-----------------------------------------------------------------------------
(* next: what the console should ask, given where the run stands.          *)
Want(c) ==
    IF c.snap = NoSnap THEN "none"
    ELSE IF c.snap.run # "idle" /\ c.snap.prompt \notin c.answered \cup c.skipped \cup {NoPrompt}
    THEN c.snap.prompt
    ELSE CASE c.snap.run = "idle" -> "choose"
           [] c.snap.run = "running" -> "none"
           [] OTHER -> c.snap.run

TickedByDefault(done) == IF done THEN "off" ELSE "on"

(* Selection::refresh: a step whose done-state changed is ticked afresh.   *)
Refreshed(ticks, before, now) ==
    [s \in RunSteps |-> IF ticks[s] = "none" \/ before.done[s] = now.done[s] THEN ticks[s]
                        ELSE TickedByDefault(now.done[s])]

(* ask: unless a question is asked, or the device is yet to act. Where     *)
(* there is nothing to ask, the steps are ticked afresh the next time.     *)
ConAsks ==
    /\ ~con.left /\ con.asking = "none" /\ con.sentAt = NoSnap
    /\ Want(con) # "none" \/ con.ticks # Unticked
    /\ con' = [con EXCEPT !.asking = Want(con),
                          !.ticks = IF Want(con) # "choose" THEN Unticked
                                    ELSE IF @ # Unticked THEN @
                                    ELSE [s \in RunSteps |-> TickedByDefault(con.snap.done[s])]]
    /\ UNCHANGED <<dev, version, unsent, toDev, toCon, actedAt>>

(* Mutant of Acknowledges: an act accepted is an act done.                      *)
AcknowledgesAtOnce(c) == [c EXCEPT !.accepted = FALSE, !.sentAt = NoSnap]

(* What the device accepted is done once a state other than the one it was *)
(* sent against is heard.                                                  *)
Acknowledges(c) == [c EXCEPT !.accepted = TRUE]

HearsState(m) ==
    LET settled == con.accepted /\ con.sentAt # m.snap IN
    con' = [con EXCEPT !.snap = m.snap, !.heard = m.version,
                       !.answered = @ \cap {m.snap.prompt}, !.skipped = @ \cap {m.snap.prompt},
                       !.sentAt = IF settled THEN NoSnap ELSE @,
                       !.accepted = @ /\ ~settled,
                       !.ticks = IF con.snap = NoSnap THEN @ ELSE Refreshed(@, con.snap, m.snap)]

ConHears ==
    /\ ~con.left /\ toCon # << >>
    /\ toCon' = Tail(toCon)
    /\ CASE Head(toCon).is = "state" -> HearsState(Head(toCon))
         [] Head(toCon).is = "accepted" -> con' = IF con.sentAt = NoSnap THEN con ELSE Acknowledges(con)
         [] Head(toCon).is = "cannot" -> con' = [con EXCEPT !.sentAt = NoSnap, !.accepted = FALSE]
    /\ UNCHANGED <<dev, version, unsent, toDev, actedAt>>

ConSends(c, a) ==
    /\ con' = [c EXCEPT !.asking = "none", !.sentAt = c.snap, !.accepted = FALSE]
    /\ toDev' = Append(toDev, a)

Says(c) == con' = [c EXCEPT !.asking = "none"] /\ UNCHANGED toDev
ConLeaves == con' = [con EXCEPT !.asking = "none", !.left = TRUE] /\ UNCHANGED toDev

(* A line typed at the list of steps.                                      *)
Chosen ==
    \/ \E s \in RunSteps : Says([con EXCEPT !.ticks[s] = IF @ = "on" THEN "off" ELSE "on"])
    \/ \E t \in {"on", "off"} : Says([con EXCEPT !.ticks = [s \in RunSteps |-> t]])
    \/ LET steps == {s \in RunSteps : con.ticks[s] = "on"} IN
       IF steps = {} THEN Says(con) ELSE ConSends(con, [act |-> "start", steps |-> steps])

(* Lines typed at a prompt, and at a menu.                                 *)
TypedAtPrompt(p) ==
    \/ ConSends([con EXCEPT !.answered = @ \cup {p}], [act |-> "answer", prompt |-> p])
    \/ Says([con EXCEPT !.skipped = @ \cup {p}])
    \/ \E v \in {"stop", "retry"} : ConSends(con, [act |-> v])
    \/ Says(con)

TypedAtMenu(menu) ==
    \/ menu \in {"waiting", "failed"} /\ ConSends(con, [act |-> "stop"])
    \/ menu = "failed" /\ ConSends(con, [act |-> "retry"])
    \/ menu = "finished" /\ ConSends(con, [act |-> "acknowledge"])
    \/ Says(con)

(* typed: a line for a question that was settled before is ignored.        *)
Types ==
    /\ ~con.left /\ con.asking # "none"
    /\ \/ ConLeaves
       \/ Want(con) # con.asking /\ Says(con)
       \/ Want(con) = con.asking /\ con.asking = "choose" /\ Chosen
       \/ Want(con) = con.asking /\ con.asking \in Prompts /\ TypedAtPrompt(con.asking)
       \/ Want(con) = con.asking /\ con.asking \in {"waiting", "failed", "finished"} /\ TypedAtMenu(con.asking)
    /\ UNCHANGED <<dev, version, unsent, toCon, actedAt>>
-----------------------------------------------------------------------------
ConNext == RunGoesOn \/ OtherActs \/ StreamSends \/ StreamActs \/ ConAsks \/ ConHears \/ Types
ConSpec == ConInit /\ [][ConNext]_conVars
-----------------------------------------------------------------------------
(* The operator is never asked about a state their own act has since       *)
(* changed: whatever else changes meanwhile, a question is of a state as   *)
(* new as what the last accepted act made (console.rs, Pending).           *)
AsksOfWhatIs == con.asking # "none" => con.heard >= actedAt

(* What PCON says, that a retry and a stop are offered where the run       *)
(* accepts them: with nothing on its way, the console asks.                *)
RetryIsOffered ==
    (dev.run = "failed" /\ ~con.left /\ ~unsent /\ toDev = << >> /\ toCon = << >>) => con.sentAt = NoSnap
=============================================================================
