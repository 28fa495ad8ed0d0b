---------------------------- MODULE ProvisionRun ----------------------------
(***************************************************************************)
(* The engine that carries a provisioning run out:                         *)
(* crates/bliti/src/provision/run.rs, with what a step does through        *)
(* context.rs and what is kept on the medium by store.rs.                  *)
(*                                                                         *)
(* Front ends (the Bluetooth client, the console) act on one shared model  *)
(* under a lock. Each run, and each retry, has a generation and a spawned  *)
(* task, its driver, named here by that generation. Writes to the medium   *)
(* run on blocking threads that outlive the driver that asked for them.    *)
(* A crash takes everything but the medium and the board.                  *)
(***************************************************************************)
EXTENDS ProvisionModel

CONSTANTS
    FrontEnds,      \* who may ask for an act
    Uses,           \* for each step, the answers it may need or ask for
    Notices,        \* for each step, the notices it may hold open
    Changing,       \* the steps that change the board
    MaxGeneration,  \* bound: runs and retries between two restarts
    MaxCrashes,     \* bound: restarts
    MaxFaults,      \* bound: failures of the medium
    MaxAttaches     \* bound: front ends attaching

ASSUME RunAssumption ==
    /\ FrontEnds # {}
    /\ Uses \in [Steps -> SUBSET AnswerKeys]
    /\ Notices \in [Steps -> SUBSET NoticeKeys]
    /\ Changing \subseteq Steps
    /\ MaxGeneration \in Nat \ {0}
    /\ {MaxCrashes, MaxFaults, MaxAttaches} \subseteq Nat

VARIABLES
    model,    \* Inner::model
    drivers,  \* the spawned tasks, by generation, each with its blocking write
    task,     \* Inner::task: the generation of the task held, 0 for none
    acting,   \* what each front end is in the middle of
    medium,   \* the run kept on the medium
    queued,   \* determinations spawned and not begun
    reading,  \* the determination under way
    board,    \* what each step's check finds on the board
    up,       \* the daemon is running
    before,   \* history: the run a crash took, until the device is back
    crashes, faults, attaches  \* how much of each bound is spent

vars == <<model, drivers, task, acting, medium, queued, reading, board, up,
          before, crashes, faults, attaches>>

Generations == 1..MaxGeneration
NothingLost == [state |-> "idle", chosen |-> {}, passed |-> {}]
NoRun == [chosen |-> {}, passed |-> {}, failed |-> NoStep]
Stored == [chosen : SUBSET Steps, passed : SUBSET Steps, failed : 0..N]

(* Where a driver is. The ones in Parked are await points: an aborted task *)
(* goes no further from one of them, and runs on to the next from others.  *)
Parked == {"recordBegin", "exec", "need", "notice", "recordPass", "recordFail"}
Carrying == {"exec", "need", "notice"}
DriverPcs == Parked \cup {"none", "top", "begin", "pass", "fail", "forget", "clear", "done"}
JobPcs == {"none", "queued", "saving", "ok", "err"}
Drivers == [pc : DriverPcs, step : 0..N, key : Keys \cup {"none"}, aborted : BOOLEAN,
            job : JobPcs, snap : Stored]
NoDriver == [pc |-> "none", step |-> NoStep, key |-> "none", aborted |-> FALSE,
             job |-> "none", snap |-> NoRun]

ActingPcs == {"idle", "spawn", "store", "abort", "forget", "clear"}
Idle == [pc |-> "idle", generation |-> 0]
NotReading == [pc |-> "idle", found |-> [s \in Steps |-> "unread"]]

Init ==
    /\ model = New
    /\ drivers = [g \in Generations |-> NoDriver]
    /\ task = 0
    /\ acting = [a \in FrontEnds |-> Idle]
    /\ medium = NoRun
    /\ queued = 1
    /\ reading = NotReading
    /\ board \in [Steps -> {"done", "notdone"}]
    /\ \A s \in Steps \ Changing : board[s] = "notdone"
    /\ up = TRUE
    /\ before = NothingLost
    /\ crashes = 0 /\ faults = 0 /\ attaches = 0
-----------------------------------------------------------------------------
(* Mutant of DiskFree: no lock is taken around the medium.                 *)
DiskUnlocked == TRUE

(* Inner::disk is held while the medium is written or cleared.             *)
DiskFree ==
    /\ \A g \in Generations : drivers[g].job # "saving" /\ drivers[g].pc # "clear"
    /\ \A a \in FrontEnds : acting[a].pc # "clear"

Move(g, pc) == drivers' = [drivers EXCEPT ![g].pc = pc]

(* The driver returns, or is dropped at an await point: only its write,    *)
(* if one is on its way, is left of it.                                    *)
Ended(g) ==
    [drivers EXCEPT ![g] = [NoDriver EXCEPT !.pc = "done", !.job = drivers[g].job,
                                            !.snap = drivers[g].snap]]

ActingMoves(a, pc) == acting' = [acting EXCEPT ![a].pc = pc]

(* The run as Inner::record keeps it.                                      *)
Snap(m) ==
    [chosen |-> Chosen(m), passed |-> Passed(m),
     failed |-> IF InState(m, "failed") = {} THEN NoStep
                ELSE CHOOSE s \in InState(m, "failed") :
                        \A t \in InState(m, "failed") : s <= t]

outside == <<up, before, crashes, attaches>>
-----------------------------------------------------------------------------
(* The acts. The change to the model is made under its lock; spawning the  *)
(* driver, keeping its handle, aborting and clearing the medium follow     *)
(* after the lock is dropped.                                              *)
Begins(a, m) ==
    /\ up /\ acting[a].pc = "idle"
    /\ model.generation < MaxGeneration
    /\ model' = m
    /\ acting' = [acting EXCEPT ![a] = [pc |-> "spawn", generation |-> m.generation]]
    /\ UNCHANGED <<drivers, task, medium, queued, reading, board, faults, outside>>

ActStart(a, chosen) ==
    /\ RunState(model) \in {"idle", "finished"}
    /\ chosen # {}
    /\ Begins(a, BeginRun(model, chosen))

ActRetry(a) ==
    /\ RunState(model) = "failed"
    /\ Begins(a, Retry(model))

(* drive_soon: the task is spawned and may run before its handle is kept.  *)
DriveSoon(a) ==
    /\ acting[a].pc = "spawn"
    /\ drivers' = [drivers EXCEPT ![acting[a].generation].pc = "top"]
    /\ ActingMoves(a, "store")
    /\ UNCHANGED <<model, task, medium, queued, reading, board, faults, outside>>

KeepTask(a) ==
    /\ acting[a].pc = "store"
    /\ task' = acting[a].generation
    /\ acting' = [acting EXCEPT ![a] = Idle]
    /\ UNCHANGED <<model, drivers, medium, queued, reading, board, faults, outside>>

(* stop and acknowledge.                                                   *)
ActEnd(a) ==
    /\ up /\ acting[a].pc = "idle"
    /\ model.generation < MaxGeneration
    /\ RunState(model) \in {"waiting", "failed", "finished"}
    /\ model' = EndRun(model)
    /\ acting' = [acting EXCEPT ![a] = [pc |-> "abort", generation |-> model'.generation]]
    /\ UNCHANGED <<drivers, task, medium, queued, reading, board, faults, outside>>

AbortTask(a) ==
    /\ acting[a].pc = "abort"
    /\ drivers' = IF task = 0 THEN drivers
                  ELSE IF drivers[task].pc \in Parked THEN Ended(task)
                  ELSE [drivers EXCEPT ![task].aborted = TRUE]
    /\ task' = 0
    /\ ActingMoves(a, "forget")
    /\ UNCHANGED <<model, medium, queued, reading, board, faults, outside>>

(* forget_run, then determine_soon: under the disk lock the generation is  *)
(* read, and the medium cleared only where it is still the one ended.      *)
ForgetRun(a) ==
    /\ acting[a].pc = "forget"
    /\ DiskFree
    /\ IF model.generation = acting[a].generation
       THEN ActingMoves(a, "clear") /\ queued' = queued
       ELSE acting' = [acting EXCEPT ![a] = Idle] /\ queued' = queued + 1
    /\ UNCHANGED <<model, drivers, task, medium, reading, board, faults, outside>>

(* Store::clear: it may fail, which is only logged.                        *)
Clears ==
    \/ medium' = NoRun /\ UNCHANGED faults
    \/ faults < MaxFaults /\ faults' = faults + 1 /\ UNCHANGED medium

ClearMedium(a) ==
    /\ acting[a].pc = "clear"
    /\ Clears
    /\ queued' = queued + 1
    /\ acting' = [acting EXCEPT ![a] = Idle]
    /\ UNCHANGED <<model, drivers, task, reading, board, outside>>

(* Mutant of ActAnswer: the answer is held and not handed to the waiter.   *)
AnswerUnsent(a, p) ==
    /\ up /\ acting[a].pc = "idle"
    /\ RunState(model) \in {"running", "waiting", "failed"}
    /\ p \in model.prompts /\ p.key \in AnswerKeys
    /\ model' = AnswerPrompt(model, p)
    /\ UNCHANGED <<drivers, task, acting, medium, queued, reading, board, faults, outside>>

(* An answer wakes the driver waiting for it, where one still does.        *)
ActAnswer(a, p) ==
    /\ up /\ acting[a].pc = "idle"
    /\ RunState(model) \in {"running", "waiting", "failed"}
    /\ p \in model.prompts /\ p.key \in AnswerKeys
    /\ model' = AnswerPrompt(model, p)
    /\ drivers' = [g \in Generations |->
                     IF g = p.waiter /\ drivers[g].pc = "need"
                     THEN [drivers[g] EXCEPT !.pc = "exec", !.key = "none"]
                     ELSE drivers[g]]
    /\ UNCHANGED <<task, acting, medium, queued, reading, board, faults, outside>>

Attach(a) ==
    /\ up /\ acting[a].pc = "idle"
    /\ attaches < MaxAttaches /\ attaches' = attaches + 1
    /\ queued' = queued + 1
    /\ UNCHANGED <<model, drivers, task, acting, medium, reading, board, up,
                   before, crashes, faults>>
-----------------------------------------------------------------------------
(* The driver g, between await points whatever became of its run.          *)

(* ask_ahead: every pending step whose gate has passed asks.               *)
Due == {s \in Steps : model.steps[s] = "pending" /\ PassedThrough(model, AsksAfter[s])}

Asked(s) == AskLater(model, s, AheadKeys[s]).prompts

AskAhead(g) ==
    /\ drivers[g].pc = "top"
    /\ model' = IF model.generation = g
                THEN [model EXCEPT !.prompts = @ \cup UNION {Asked(s) : s \in Due}]
                ELSE model
    /\ Move(g, "begin")
    /\ UNCHANGED <<task, acting, medium, queued, reading, board, faults, outside>>

DriverBegins(g) ==
    /\ drivers[g].pc = "begin"
    /\ IF model.generation # g
       THEN drivers' = Ended(g) /\ UNCHANGED model
       ELSE IF NextStep(model) = NoStep
            THEN model' = Finish(model) /\ Move(g, "forget")
            ELSE /\ model' = BeginNext(model)
                 /\ drivers' = [drivers EXCEPT ![g].pc = "recordBegin",
                                               ![g].step = NextStep(model),
                                               ![g].job = "queued"]
    /\ UNCHANGED <<task, acting, medium, queued, reading, board, faults, outside>>

(* finish: forget the run and determine again, in the same poll.           *)
DriverForgets(g) ==
    /\ drivers[g].pc = "forget"
    /\ DiskFree
    /\ IF model.generation = g
       THEN Move(g, "clear") /\ queued' = queued
       ELSE drivers' = Ended(g) /\ queued' = queued + 1
    /\ UNCHANGED <<model, task, acting, medium, reading, board, faults, outside>>

(* Mutant of DriverClears: a finished run is not determined again.         *)
ClearsUndetermined(g) ==
    /\ drivers[g].pc = "clear"
    /\ Clears
    /\ drivers' = Ended(g)
    /\ UNCHANGED <<model, task, acting, queued, reading, board, outside>>

DriverClears(g) ==
    /\ drivers[g].pc = "clear"
    /\ Clears
    /\ queued' = queued + 1
    /\ drivers' = Ended(g)
    /\ UNCHANGED <<model, task, acting, reading, board, outside>>

(* record, on a blocking thread: the model is read and written out with    *)
(* the disk lock held, unless the run has since ended.                     *)
RecordReads(g) ==
    /\ drivers[g].job = "queued"
    /\ DiskFree
    /\ drivers' = IF model.generation = g
                  THEN [drivers EXCEPT ![g].job = "saving", ![g].snap = Snap(model)]
                  ELSE [drivers EXCEPT ![g].job = IF drivers[g].pc = "done" THEN "none" ELSE "ok"]
    /\ UNCHANGED <<model, task, acting, medium, queued, reading, board, faults, outside>>

(* Store::save replaces the file by a rename. An error may be reported     *)
(* before the rename or, from the sync that follows it, after.             *)
RecordSaves(g) ==
    /\ drivers[g].job = "saving"
    /\ \/ /\ medium' = drivers[g].snap
          /\ drivers' = [drivers EXCEPT ![g].job = "ok", ![g].snap = NoRun]
          /\ UNCHANGED faults
       \/ /\ faults < MaxFaults /\ faults' = faults + 1
          /\ medium' \in {medium, drivers[g].snap}
          /\ drivers' = [drivers EXCEPT ![g].job = "err", ![g].snap = NoRun]
    /\ UNCHANGED <<model, task, acting, queued, reading, board, outside>>

(* The driver awaits its write. Beginning to carry step s out undoes, on   *)
(* the board, the later steps that say s undoes them.                      *)
Undoes(s) == {t \in Steps : s \in UndoneBy[t]}

DriverRecorded(g) ==
    /\ ~drivers[g].aborted
    /\ drivers[g].job \in {"ok", "err"}
    /\ LET d == drivers[g]
           on == CASE d.pc = "recordBegin" /\ d.job = "ok" -> "exec"
                   [] d.pc = "recordBegin" /\ d.job = "err" -> "fail"
                   [] d.pc = "recordPass" -> "top"
                   [] d.pc = "recordFail" -> "done"
       IN /\ d.pc \in {"recordBegin", "recordPass", "recordFail"}
          /\ drivers' = [drivers EXCEPT ![g] =
                            IF on = "done" THEN [NoDriver EXCEPT !.pc = "done"]
                            ELSE [d EXCEPT !.pc = on, !.job = "none"]]
          /\ board' = [t \in Steps |-> IF on = "exec" /\ t \in Undoes(d.step)
                                       THEN "notdone" ELSE board[t]]
    /\ UNCHANGED <<model, task, acting, medium, queued, reading, faults, outside>>

(* Context: what a step being carried out asks of the engine. Each goes    *)
(* through mutate, and does nothing once the run has ended.                *)
InStep(g) == drivers[g].pc = "exec" /\ ~drivers[g].aborted
Mutates(g, m) == model' = IF model.generation = g THEN m ELSE model
context == <<task, acting, medium, queued, reading, board, faults, outside>>

StepNeeds(g, k) ==
    /\ InStep(g) /\ k \in Uses[drivers[g].step]
    /\ ~(model.generation = g /\ Held(model, k))
    /\ Mutates(g, Need(model, drivers[g].step, k, g))
    /\ drivers' = [drivers EXCEPT ![g].pc = "need", ![g].key = k]
    /\ UNCHANGED context

StepAsksLater(g, k) ==
    /\ InStep(g) /\ k \in Uses[drivers[g].step]
    /\ Mutates(g, AskLater(model, drivers[g].step, {k}))
    /\ UNCHANGED <<drivers, context>>

(* take_text with a default, where no answer is held.                      *)
StepTakesDefault(g, k) ==
    /\ InStep(g) /\ k \in Uses[drivers[g].step]
    /\ ~Held(model, k)
    /\ Mutates(g, CloseKey(model, k))
    /\ UNCHANGED <<drivers, context>>

StepForgets(g, k) ==
    /\ InStep(g) /\ k \in Uses[drivers[g].step]
    /\ Mutates(g, Forget(model, k))
    /\ UNCHANGED <<drivers, context>>

StepNotices(g, k) ==
    /\ InStep(g) /\ k \in Notices[drivers[g].step]
    /\ Mutates(g, Notice(model, drivers[g].step, k))
    /\ drivers' = [drivers EXCEPT ![g].pc = "notice", ![g].key = k]
    /\ UNCHANGED context

(* The step sees the thing done and closes its notice.                     *)
NoticeCloses(g) ==
    /\ drivers[g].pc = "notice" /\ ~drivers[g].aborted
    /\ Mutates(g, CloseKey(model, drivers[g].key))
    /\ drivers' = [drivers EXCEPT ![g].pc = "exec", ![g].key = "none"]
    /\ UNCHANGED context

(* The step returns or panics, and the prompts it was waiting on are       *)
(* released. A step that passed has left its product on the board.         *)
StepEnds(g, ok) ==
    /\ InStep(g)
    /\ Mutates(g, Release(model, drivers[g].step))
    /\ Move(g, IF ok THEN "pass" ELSE "fail")
    /\ board' = IF ok /\ drivers[g].step \in Changing
                THEN [board EXCEPT ![drivers[g].step] = "done"] ELSE board
    /\ UNCHANGED <<task, acting, medium, queued, reading, faults, outside>>

Settles(g, m, pc) ==
    /\ model' = IF model.generation = g THEN m ELSE model
    /\ drivers' = IF model.generation = g
                  THEN [drivers EXCEPT ![g].pc = pc, ![g].job = "queued"]
                  ELSE Ended(g)
    /\ UNCHANGED context

DriverPasses(g) ==
    drivers[g].pc = "pass" /\ Settles(g, Pass(model, drivers[g].step), "recordPass")

DriverFails(g) ==
    drivers[g].pc = "fail" /\ Settles(g, Fail(model, drivers[g].step), "recordFail")
-----------------------------------------------------------------------------
(* determine: one at a time, each step's check in turn, and the whole set  *)
(* applied only where the device is still at rest.                         *)
DetermineBegins ==
    /\ up /\ queued > 0 /\ reading.pc = "idle"
    /\ queued' = queued - 1
    /\ reading' = IF AtRest(model) THEN [NotReading EXCEPT !.pc = "reading"] ELSE reading
    /\ UNCHANGED <<model, drivers, task, acting, medium, board, faults, outside>>

DetermineReads(s) ==
    /\ reading.pc = "reading"
    /\ reading.found[s] = "unread"
    /\ \A t \in 1..(s - 1) : reading.found[t] # "unread"
    /\ reading' = [reading EXCEPT !.found[s] = board[s]]
    /\ UNCHANGED <<model, drivers, task, acting, medium, queued, board, faults, outside>>

(* Mutant of DetermineApplies: what was found is not marked as determined. *)
AppliesUnchecked ==
    /\ reading.pc = "reading"
    /\ \A s \in Steps : reading.found[s] # "unread"
    /\ model' = IF AtRest(model) THEN [model EXCEPT !.done = Undone(reading.found)] ELSE model
    /\ reading' = NotReading
    /\ UNCHANGED <<drivers, task, acting, medium, queued, board, faults, outside>>

DetermineApplies ==
    /\ reading.pc = "reading"
    /\ \A s \in Steps : reading.found[s] # "unread"
    /\ model' = IF AtRest(model)
                THEN [model EXCEPT !.done = Undone(reading.found), !.checked = TRUE]
                ELSE model
    /\ reading' = NotReading
    /\ UNCHANGED <<drivers, task, acting, medium, queued, board, faults, outside>>
-----------------------------------------------------------------------------
(* The power fails, or a step reboots the board.                           *)
Crash ==
    /\ up /\ crashes < MaxCrashes
    /\ crashes' = crashes + 1
    /\ up' = FALSE
    /\ before' = [state |-> model.state, chosen |-> Chosen(model), passed |-> Passed(model)]
    /\ model' = New
    /\ drivers' = [g \in Generations |-> NoDriver]
    /\ task' = 0
    /\ acting' = [a \in FrontEnds |-> Idle]
    /\ queued' = 0
    /\ reading' = NotReading
    /\ UNCHANGED <<medium, board, faults, attaches>>

(* Mutant of Adopted: the steps that passed are pending again.             *)
AdoptedFromScratch(s) ==
    LET m == BeginRun(New, s.chosen) IN
    [m EXCEPT !.steps = [t \in Steps |-> IF t = s.failed THEN "failed" ELSE m.steps[t]],
              !.state = IF s.failed = NoStep THEN "running" ELSE "failed"]

(* adopt: the run the medium holds, held again.                            *)
Adopted(s) ==
    LET m == BeginRun(New, s.chosen) IN
    [m EXCEPT !.steps = [t \in Steps |-> IF t = s.failed THEN "failed"
                                         ELSE IF t \in s.passed THEN "passed"
                                         ELSE m.steps[t]],
              !.state = IF s.failed = NoStep THEN "running" ELSE "failed"]

(* resume: nothing else runs until it is over, so the driver is spawned    *)
(* and its handle kept as one.                                             *)
Resume ==
    /\ ~up /\ up' = TRUE
    /\ IF medium = NoRun
       THEN /\ queued' = 1
            /\ UNCHANGED <<model, drivers, task>>
       ELSE /\ model' = Adopted(medium)
            /\ queued' = 0
            /\ IF medium.failed = NoStep
               THEN /\ drivers' = [drivers EXCEPT ![1].pc = "top"]
                    /\ task' = 1
               ELSE UNCHANGED <<drivers, task>>
    /\ before' = NothingLost
    /\ UNCHANGED <<acting, medium, reading, board, crashes, faults, attaches>>

(* The medium cannot be read, which counts as no run; or it was written    *)
(* for an image with other steps, and is discarded.                        *)
ResumeWithout ==
    /\ ~up /\ up' = TRUE
    /\ medium # NoRun
    /\ faults < MaxFaults /\ faults' = faults + 1
    /\ medium' \in {medium, NoRun}
    /\ queued' = 1
    /\ before' = NothingLost
    /\ UNCHANGED <<model, drivers, task, acting, reading, board, crashes, attaches>>
-----------------------------------------------------------------------------
Act(a) ==
    \/ \E chosen \in SUBSET Steps : ActStart(a, chosen)
    \/ ActRetry(a) \/ ActEnd(a) \/ Attach(a)
    \/ \E p \in model.prompts : ActAnswer(a, p)

ActGoesOn(a) == DriveSoon(a) \/ KeepTask(a) \/ AbortTask(a) \/ ForgetRun(a) \/ ClearMedium(a)

Drive(g) ==
    \/ AskAhead(g) \/ DriverBegins(g) \/ DriverRecorded(g)
    \/ DriverPasses(g) \/ DriverFails(g) \/ DriverForgets(g) \/ DriverClears(g)

Record(g) == RecordReads(g) \/ RecordSaves(g)

CarryOut(g) ==
    \/ \E k \in AnswerKeys : StepNeeds(g, k) \/ StepAsksLater(g, k) \/
                             StepTakesDefault(g, k) \/ StepForgets(g, k)
    \/ \E k \in NoticeKeys : StepNotices(g, k)
    \/ NoticeCloses(g)

Determine == DetermineBegins \/ DetermineApplies \/ \E s \in Steps : DetermineReads(s)

Restart == Crash \/ Resume \/ ResumeWithout

Next ==
    \/ \E a \in FrontEnds : Act(a) \/ ActGoesOn(a)
    \/ \E g \in Generations : \/ Drive(g) \/ Record(g) \/ CarryOut(g)
                              \/ \E ok \in BOOLEAN : StepEnds(g, ok)
    \/ Determine
    \/ Restart

Spec == Init /\ [][Next]_vars

(* The runtime polls every woken task, blocking threads finish, and a step *)
(* that is carried out does not go on for ever. Operators owe nothing.     *)
Fairness ==
    /\ \A a \in FrontEnds : WF_vars(ActGoesOn(a))
    /\ \A g \in Generations :
         WF_vars(Drive(g)) /\ WF_vars(Record(g)) /\ SF_vars(\E ok \in BOOLEAN : StepEnds(g, ok))
    /\ WF_vars(Determine)
    /\ WF_vars(Resume)

FairSpec == Spec /\ Fairness
-----------------------------------------------------------------------------
TypeOK ==
    /\ model \in Models
    /\ model.generation <= MaxGeneration
    /\ drivers \in [Generations -> Drivers]
    /\ task \in 0..MaxGeneration
    /\ acting \in [FrontEnds -> [pc : ActingPcs, generation : 0..MaxGeneration]]
    /\ medium \in Stored
    /\ queued \in Nat
    /\ reading \in [pc : {"idle", "reading"}, found : [Steps -> DoneStates \cup {"unread"}]]
    /\ board \in [Steps -> {"done", "notdone"}]
    /\ up \in BOOLEAN
    /\ before \in [state : RunStates, chosen : SUBSET Steps, passed : SUBSET Steps]
    /\ {crashes, faults, attaches} \subseteq Nat

Settled == \A a \in FrontEnds : acting[a].pc = "idle"

(* A driver that can still do something to the board.                      *)
Live(g) == drivers[g].pc \notin {"none", "done"} /\
           ~(drivers[g].aborted /\ drivers[g].pc \in Parked)

(* While a step is carried out for the run held, the medium already holds  *)
(* that run: the steps chosen, the steps passed, and no failure. So a power *)
(* cut at any point of the step resumes at that step (run.rs, drive: record *)
(* before step.run; record and forget_run serialised by Inner::disk).      *)
RecordedBeforeBegun ==
    \A g \in Generations :
        (drivers[g].pc \in Carrying /\ g = model.generation) => medium = Snap(model)

(* The step the held run's driver carries out is the only one running, all *)
(* chosen steps before it have passed and none after it has begun, however *)
(* acts, retries and restarts interleave (run.rs, drive).                  *)
InOrder ==
    \A g \in Generations :
        (drivers[g].pc \in Carrying /\ g = model.generation) =>
            \A s \in Steps :
                /\ s = drivers[g].step => model.steps[s] = "running"
                /\ s < drivers[g].step => model.steps[s] \in {"passed", "unchosen"}
                /\ s > drivers[g].step => model.steps[s] \in {"pending", "unchosen"}

(* A run that was ended is not left on the medium: with no act under way   *)
(* and no driver still ending, an idle or finished device that met no      *)
(* failure of its medium keeps no run, so a restart resumes none           *)
(* (run.rs, forget_run and the generation it checks).                      *)
EndedRunForgotten ==
    (up /\ AtRest(model) /\ Settled /\ faults = 0 /\ ~\E g \in Generations : Live(g))
        => medium = NoRun

(* Once nothing is under way and no determination is outstanding, an idle  *)
(* or finished device reports the done-states of the board as it stands,   *)
(* although a determination begun before a run may be applied after it     *)
(* (run.rs, determine and every determine_soon).                           *)
DoneStatesSettle ==
    (up /\ AtRest(model) /\ Settled /\ queued = 0 /\ reading.pc = "idle"
        /\ ~\E g \in Generations : Live(g))
        => model.checked /\ model.done = Undone(board)

(* A running run has a task carrying it out, whose handle the device       *)
(* holds (run.rs, Inner::task and drive_soon).                             *)
RunIsCarried ==
    (up /\ model.state = "running" /\ Settled)
        => task = model.generation /\ Live(task)

(* A running run has a task carrying it out, whoever holds its handle      *)
(* (specs/provisioning/run.md, Run states: a run is under way).            *)
RunHasDriver ==
    (up /\ model.state = "running" /\ Settled) => Live(model.generation)

(* No step goes on, or can go on, for a run that was stopped: the task of  *)
(* an ended run has been aborted (run.rs, act, stop).                      *)
StoppedStepDropped ==
    Settled => \A g \in Generations : (Live(g) /\ drivers[g].pc \in Carrying) => g = model.generation

(* However the acts of two front ends interleave, the steps of the run     *)
(* held are carried out in their order, and a run that was ended is not    *)
(* resumed by a restart.                                                   *)
RunIsOrderly == InOrder /\ EndedRunForgotten

(* Acts taken one at a time leave a run its task and nothing else: the run *)
(* held is carried out, a run that was stopped is not, and a device at     *)
(* rest reports what the run left on the board (run.rs, act, drive and     *)
(* determine).                                                             *)
RunIsHeldToItsEnd == RunIsCarried /\ StoppedStepDropped /\ DoneStatesSettle

(* A restart loses at most the step that had just passed. Of a run that    *)
(* had got past a step, the run resumed has the same steps, every step     *)
(* that had passed but for at most one is still passed, and none is passed *)
(* that had not been (run.rs, record and adopt).                           *)
RestartLosesAtMostOneStep ==
    [][(~up /\ up' /\ faults' = 0 /\ before.state \in {"running", "failed"} /\ before.passed # {})
        => /\ Chosen(model') = before.chosen
           /\ Passed(model') \subseteq before.passed
           /\ Cardinality(before.passed \ Passed(model')) <= 1]_vars

(* A run under way gets somewhere: it comes to wait on a person, fails or  *)
(* finishes, or the device restarts.                                       *)
RunProgresses ==
    (up /\ model.state = "running") ~> (~up \/ RunState(model) # "running")

(* A device at rest eventually reports done-states it has determined.      *)
EventuallyChecked == (up /\ AtRest(model)) ~> (~up \/ model.checked \/ ~AtRest(model))
=============================================================================
