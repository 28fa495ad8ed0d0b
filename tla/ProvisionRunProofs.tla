-------------------------- MODULE ProvisionRunProofs -------------------------
\* What is proved of ProvisionRun, for any number of steps, front ends,
\* prompts, runs, restarts and failures of the medium: type correctness,
\* and that no step is carried out before the medium holds the run; that
\* the steps of the run held are carried out in order, that a run that was
\* ended is not left on the medium, and that a restart loses at most the
\* step that had just passed. And, where acts are taken one at a time, so
\* with one front end: the run held is carried out, a run that was stopped
\* is not, and a device at rest reports what is on its board. With two, an
\* act may abort the task of a run begun after it.
EXTENDS ProvisionRun, FiniteSetTheorems, WellFoundedInduction, TLAPS

-----------------------------------------------------------------------------
\* A non-empty set of numbers has a least one.
LEMMA LeastExists ==
    ASSUME NEW S, S \subseteq Nat, S # {}
    PROVE  \E s \in S : \A t \in S : s <= t
<1> DEFINE R == {ss \in Nat \X Nat : ss[1] < ss[2]}
<1>1. IsWellFoundedOn(R, Nat)
  BY NatLessThanWellFounded DEF OpToRel
<1> HIDE DEF R
<1>2. PICK x \in S : \A y \in S : ~(<<y, x>> \in R)
  BY <1>1, WFMin
<1>3. \A y \in S : ~(y < x)
  BY <1>2 DEF R
<1> QED
  BY <1>3

\* The next step is a pending one, and none where no step is pending.
LEMMA NextStepType ==
    ASSUME NEW m \in Models
    PROVE  /\ NextStep(m) \in 0..N
           /\ NextStep(m) # NoStep => NextStep(m) \in InState(m, "pending")
<1>1. N \in Nat /\ InState(m, "pending") \subseteq Steps /\ Steps \subseteq Nat
  BY StepsAssumption DEF InState, Steps
<1>2. CASE InState(m, "pending") = {}
  BY <1>1, <1>2 DEF NextStep, NoStep
<1>3. CASE InState(m, "pending") # {}
  <2>1. \E s \in InState(m, "pending") : \A t \in InState(m, "pending") : s <= t
    BY <1>1, <1>3, LeastExists
  <2> QED
    BY <2>1, <1>1, <1>3 DEF NextStep, Steps
<1> QED
  BY <1>2, <1>3

\* What is kept on the medium is a stored run.
LEMMA SnapType ==
    ASSUME NEW m \in Models
    PROVE  Snap(m) \in Stored
<1> DEFINE F == InState(m, "failed")
<1>1. N \in Nat /\ F \subseteq Steps /\ Steps \subseteq Nat
  BY StepsAssumption DEF InState, Steps
<1>2. Snap(m).failed \in 0..N
  <2>1. CASE F = {}
    BY <1>1, <2>1 DEF Snap, NoStep
  <2>2. CASE F # {}
    <3>1. \E s \in F : \A t \in F : s <= t
      BY <1>1, <2>2, LeastExists
    <3> QED
      BY <3>1, <1>1, <2>2 DEF Snap, Steps
  <2> QED
    BY <2>1, <2>2
<1>3. Chosen(m) \in SUBSET Steps /\ Passed(m) \in SUBSET Steps
  BY DEF Chosen, Passed, InState
<1> QED
  BY <1>2, <1>3 DEF Snap, Stored
-----------------------------------------------------------------------------
\* No step is 0, and holding no answer is a way of holding answers.
LEMMA NoStepType ==
    /\ NoStep \in 0..N /\ 0 \in 0..N /\ NoStep = 0
    /\ Steps \subseteq 0..N
    /\ [k \in AnswerKeys |-> NoStep] \in [AnswerKeys -> 0..N]
BY StepsAssumption DEF NoStep, Steps

\* Every rule of the model leaves a model (model.rs).
LEMMA NewType == New \in Models /\ New.generation = 0
BY NoStepType DEF New, Models, RunStates, StepStates, DoneStates

LEMMA ClearRunType ==
    ASSUME NEW m \in Models
    PROVE  ClearRun(m) \in Models /\ ClearRun(m).generation = m.generation
BY NoStepType DEF ClearRun, Models, RunStates, StepStates

LEMMA BeginRunType ==
    ASSUME NEW m \in Models, NEW chosen \in SUBSET Steps
    PROVE  BeginRun(m, chosen) \in Models /\ BeginRun(m, chosen).generation = m.generation + 1
<1> DEFINE n == ClearRun(m)
           steps == [s \in Steps |-> IF s \in chosen THEN "pending" ELSE "unchosen"]
           g == n.generation + 1
<1>1. n \in Models /\ g = m.generation + 1
  BY ClearRunType
<1>2. g \in Nat
  BY <1>1 DEF Models
<1>3. steps \in [Steps -> StepStates]
  BY DEF StepStates
<1>4. BeginRun(m, chosen) = [n EXCEPT !.state = "running", !.steps = steps, !.generation = g]
  BY DEF BeginRun
<1> HIDE DEF n, g, steps
<1> QED
  BY <1>1, <1>2, <1>3, <1>4 DEF Models, RunStates

LEMMA EndRunType ==
    ASSUME NEW m \in Models
    PROVE  EndRun(m) \in Models /\ EndRun(m).generation = m.generation + 1
<1> DEFINE n == ClearRun(m)
<1>1. n \in Models /\ n.generation = m.generation
  BY ClearRunType
<1> HIDE DEF n
<1>2. EndRun(m) = [n EXCEPT !.generation = @ + 1]
  BY DEF EndRun, n
<1> QED
  BY <1>1, <1>2 DEF Models

LEMMA RetryType ==
    ASSUME NEW m \in Models
    PROVE  Retry(m) \in Models /\ Retry(m).generation = m.generation + 1
<1> DEFINE failed == InState(m, "failed")
           steps == [s \in Steps |-> IF s \in failed THEN "pending" ELSE m.steps[s]]
           by == [k \in AnswerKeys |-> IF m.by[k] \in failed THEN NoStep ELSE m.by[k]]
           g == m.generation + 1
<1>1. steps \in [Steps -> StepStates] /\ g \in Nat
  BY DEF StepStates, Models
<1>2. by \in [AnswerKeys -> 0..N]
  BY NoStepType DEF Models
<1>3. Retry(m) = [m EXCEPT !.steps = steps, !.by = by, !.state = "running", !.generation = g]
  BY DEF Retry
<1>4. g = m.generation + 1
  OBVIOUS
<1> HIDE DEF steps, by, g
<1> QED
  BY <1>1, <1>2, <1>3, <1>4 DEF Models, RunStates

LEMMA StepStateTypes ==
    ASSUME NEW m \in Models, NEW s
    PROVE  /\ Pass(m, s) \in Models /\ Pass(m, s).generation = m.generation
           /\ Fail(m, s) \in Models /\ Fail(m, s).generation = m.generation
BY DEF Pass, Fail, Models, RunStates, StepStates

LEMMA BeginNextType ==
    ASSUME NEW m \in Models
    PROVE  BeginNext(m) \in Models /\ BeginNext(m).generation = m.generation
BY DEF BeginNext, Models, RunStates, StepStates

LEMMA FinishType ==
    ASSUME NEW m \in Models
    PROVE  Finish(m) \in Models /\ Finish(m).generation = m.generation
BY NoStepType DEF Finish, Models, RunStates

\* The rules that change only prompts and answers leave the run as it is.
SameRun(m, n) ==
    /\ n \in Models
    /\ n.generation = m.generation /\ n.steps = m.steps /\ n.state = m.state

LEMMA ReleaseType ==
    ASSUME NEW m \in Models, NEW s
    PROVE  SameRun(m, Release(m, s))
<1> DEFINE P == Release(m, s).prompts
<1>1. ASSUME NEW p \in P PROVE p \in Prompts
  <2>1. PICK q \in m.prompts : p = IF q.blocks = s THEN [q EXCEPT !.blocks = NoStep, !.waiter = 0] ELSE q
    BY <1>1 DEF Release, Models
  <2>2. q \in Prompts
    BY DEF Models
  <2> QED
    BY <2>1, <2>2, NoStepType DEF Prompts
<1> QED
  BY <1>1 DEF Release, SameRun, Models

LEMMA PromptTypes ==
    ASSUME NEW m \in Models, NEW s \in Steps, NEW k \in Keys, NEW g \in Nat
    PROVE  /\ SameRun(m, Need(m, s, k, g))
           /\ SameRun(m, Notice(m, s, k))
<1>1. s \in 0..N /\ 0 \in 0..N /\ 0 \in Nat
  BY StepsAssumption DEF Steps
<1>2. [key |-> k, step |-> s, blocks |-> s, waiter |-> g] \in Prompts
  BY <1>1 DEF Prompts
<1>3. [key |-> k, step |-> s, blocks |-> s, waiter |-> 0] \in Prompts
  BY <1>1 DEF Prompts
<1>4. \A p \in m.prompts : [p EXCEPT !.blocks = s, !.waiter = g] \in Prompts
  BY <1>1 DEF Models, Prompts
<1>5. SameRun(m, Need(m, s, k, g))
  BY <1>2, <1>4 DEF Need, OpenUnder, SameRun, Models
<1>6. SameRun(m, Notice(m, s, k))
  BY <1>3 DEF Notice, SameRun, Models
<1> QED
  BY <1>5, <1>6

LEMMA CloseKeyType ==
    ASSUME NEW m \in Models, NEW k
    PROVE  SameRun(m, CloseKey(m, k))
BY DEF CloseKey, SameRun, Models

LEMMA AskLaterType ==
    ASSUME NEW m \in Models, NEW s \in Steps, NEW ks \in SUBSET AnswerKeys
    PROVE  SameRun(m, AskLater(m, s, ks))
<1>1. \A k \in ks : [key |-> k, step |-> s, blocks |-> NoStep, waiter |-> 0] \in Prompts
  BY NoStepType DEF Prompts, Keys
<1> QED
  BY <1>1 DEF AskLater, SameRun, Models

LEMMA AnswerTypes ==
    ASSUME NEW m \in Models, NEW k \in AnswerKeys
    PROVE  /\ SameRun(m, Forget(m, k))
           /\ \A p \in m.prompts : p.key = k => SameRun(m, AnswerPrompt(m, p))
<1>1. SameRun(m, Forget(m, k))
  BY NoStepType DEF Forget, SameRun, Models
<1>2. ASSUME NEW p \in m.prompts, p.key = k PROVE SameRun(m, AnswerPrompt(m, p))
  <2>1. p.step \in 0..N
    BY StepsAssumption DEF Models, Prompts, Steps
  <2> QED
    BY <1>2, <2>1 DEF AnswerPrompt, SameRun, Models
<1> QED
  BY <1>1, <1>2

LEMMA AdoptedType ==
    ASSUME NEW s \in Stored
    PROVE  Adopted(s) \in Models /\ Adopted(s).generation = 1
<1>1. BeginRun(New, s.chosen) \in Models /\ BeginRun(New, s.chosen).generation = 1
  BY NewType, BeginRunType DEF Stored
<1> QED
  BY <1>1 DEF Adopted, Models, StepStates, RunStates
-----------------------------------------------------------------------------
\* A driver past its first write knows its step, which TypeOK leaves out.
StepKnown ==
    \A g \in Generations :
        drivers[g].pc \in Parked \cup {"pass", "fail"} => drivers[g].step \in Steps

TypeInv == TypeOK /\ StepKnown

\* Every change made to a driver leaves a driver.
LEMMA DriverTypes ==
    ASSUME NEW d \in Drivers
    PROVE  /\ \A pc \in DriverPcs : [d EXCEPT !.pc = pc] \in Drivers
           /\ \A j \in JobPcs : [d EXCEPT !.job = j] \in Drivers
           /\ \A pc \in DriverPcs, j \in JobPcs : [d EXCEPT !.pc = pc, !.job = j] \in Drivers
           /\ \A pc \in DriverPcs, j \in JobPcs, s \in 0..N :
                 [d EXCEPT !.pc = pc, !.step = s, !.job = j] \in Drivers
           /\ \A pc \in DriverPcs, k \in Keys \cup {"none"} : [d EXCEPT !.pc = pc, !.key = k] \in Drivers
           /\ \A j \in JobPcs, s \in Stored : [d EXCEPT !.job = j, !.snap = s] \in Drivers
           /\ [d EXCEPT !.aborted = TRUE] \in Drivers
BY DEF Drivers

LEMMA NoDriverType ==
    /\ NoRun \in Stored
    /\ NoDriver \in Drivers
    /\ \A j \in JobPcs, s \in Stored :
          [NoDriver EXCEPT !.pc = "done", !.job = j, !.snap = s] \in Drivers
    /\ [NoDriver EXCEPT !.pc = "done"] \in Drivers
<1>1. NoRun \in Stored
  BY NoStepType DEF NoRun, Stored
<1>2. NoDriver \in Drivers
  BY <1>1, NoStepType DEF NoDriver, Drivers, DriverPcs, JobPcs
<1>3. "done" \in DriverPcs
  BY DEF DriverPcs
<1> QED
  BY <1>1, <1>2, <1>3 DEF Drivers

LEMMA EndedType ==
    ASSUME TypeInv, NEW g \in Generations
    PROVE  /\ Ended(g) \in [Generations -> Drivers]
           /\ Ended(g)[g].pc = "done"
           /\ Ended(g)[g].job = drivers[g].job
           /\ \A h \in Generations : h # g => Ended(g)[h] = drivers[h]
<1>1. drivers[g] \in Drivers
  BY DEF TypeInv, TypeOK
<1>2. drivers[g].job \in JobPcs /\ drivers[g].snap \in Stored
  BY <1>1 DEF Drivers
<1>3. [NoDriver EXCEPT !.pc = "done", !.job = drivers[g].job, !.snap = drivers[g].snap] \in Drivers
  BY <1>2, NoDriverType
<1>4. Ended(g) \in [Generations -> Drivers]
  BY <1>3 DEF Ended, TypeInv, TypeOK
<1> QED
  BY <1>4 DEF Ended, TypeInv, TypeOK, NoDriver

LEMMA UndoneType ==
    ASSUME NEW found \in [Steps -> DoneStates]
    PROVE  Undone(found) \in [Steps -> DoneStates]
BY DEF Undone, DoneStates

LEMMA TypeInit == Init => TypeInv
<1> SUFFICES ASSUME Init PROVE TypeInv
  OBVIOUS
<1>1. model \in Models /\ model.generation <= MaxGeneration
  BY NewType, RunAssumption DEF Init
<1>2. drivers \in [Generations -> Drivers] /\ StepKnown
  BY NoDriverType DEF Init, StepKnown, Parked, NoDriver
<1>3. acting \in [FrontEnds -> [pc : ActingPcs, generation : 0..MaxGeneration]]
  BY RunAssumption DEF Init, Idle, ActingPcs
<1>4. reading \in [pc : {"idle", "reading"}, found : [Steps -> DoneStates \cup {"unread"}]]
  BY DEF Init, NotReading
<1>5. before \in [state : RunStates, chosen : SUBSET Steps, passed : SUBSET Steps]
  BY DEF Init, NothingLost, RunStates
<1>6. task \in 0..MaxGeneration
  BY RunAssumption DEF Init
<1>7. medium \in Stored /\ queued \in Nat /\ board \in [Steps -> {"done", "notdone"}]
  BY NoDriverType DEF Init
<1>8. up \in BOOLEAN /\ {crashes, faults, attaches} \subseteq Nat
  BY DEF Init
<1> QED
  BY <1>1, <1>2, <1>3, <1>4, <1>5, <1>6, <1>7, <1>8 DEF TypeInv, TypeOK

\* The parts of TypeInv, for steps that touch few of them.
ModelOK == model \in Models /\ model.generation <= MaxGeneration
DriversOK == drivers \in [Generations -> Drivers] /\ StepKnown
ActingOK == acting \in [FrontEnds -> [pc : ActingPcs, generation : 0..MaxGeneration]]
RestOK ==
    /\ task \in 0..MaxGeneration
    /\ medium \in Stored
    /\ queued \in Nat
    /\ reading \in [pc : {"idle", "reading"}, found : [Steps -> DoneStates \cup {"unread"}]]
    /\ board \in [Steps -> {"done", "notdone"}]
    /\ up \in BOOLEAN
    /\ before \in [state : RunStates, chosen : SUBSET Steps, passed : SUBSET Steps]
    /\ {crashes, faults, attaches} \subseteq Nat

LEMMA TypeParts == TypeInv <=> ModelOK /\ DriversOK /\ ActingOK /\ RestOK
BY DEF TypeInv, TypeOK, ModelOK, DriversOK, ActingOK, RestOK

LEMMA TypeActs ==
    ASSUME TypeInv, NEW a \in FrontEnds, Act(a)
    PROVE  TypeInv'
<1>0. ModelOK /\ DriversOK /\ ActingOK /\ RestOK
  BY TypeParts
<1>1. ASSUME NEW m \in Models, m.generation = model.generation + 1, Begins(a, m) PROVE TypeInv'
  <2>1. ModelOK'
    BY <1>0, <1>1, RunAssumption DEF Begins, ModelOK, Models
  <2>2. ActingOK'
    BY <1>0, <1>1, <2>1, RunAssumption DEF Begins, ActingOK, ActingPcs, ModelOK, Models
  <2>3. DriversOK' /\ RestOK'
    BY <1>0, <1>1 DEF Begins, DriversOK, StepKnown, RestOK, outside
  <2> QED
    BY <2>1, <2>2, <2>3, TypeParts DEF TypeInv, TypeOK, ModelOK, DriversOK, ActingOK, RestOK
<1>2. ASSUME NEW chosen \in SUBSET Steps, ActStart(a, chosen) PROVE TypeInv'
  BY <1>0, <1>1, <1>2, BeginRunType DEF ActStart, ModelOK
<1>3. ASSUME ActRetry(a) PROVE TypeInv'
  BY <1>0, <1>1, <1>3, RetryType DEF ActRetry, ModelOK
<1>4. ASSUME ActEnd(a) PROVE TypeInv'
  <2>1. ModelOK'
    BY <1>0, <1>4, EndRunType, RunAssumption DEF ActEnd, ModelOK, Models
  <2>2. ActingOK'
    BY <1>0, <1>4, <2>1, RunAssumption DEF ActEnd, ActingOK, ActingPcs, ModelOK, Models
  <2>3. DriversOK' /\ RestOK'
    BY <1>0, <1>4 DEF ActEnd, DriversOK, StepKnown, RestOK, outside
  <2> QED
    BY <2>1, <2>2, <2>3 DEF TypeInv, TypeOK, ModelOK, DriversOK, ActingOK, RestOK
<1>5. ASSUME Attach(a) PROVE TypeInv'
  BY <1>5 DEF Attach, TypeInv, TypeOK, StepKnown
<1>6. ASSUME NEW p \in model.prompts, ActAnswer(a, p) PROVE TypeInv'
  <2>1. ModelOK'
    BY <1>0, <1>6, AnswerTypes DEF ActAnswer, ModelOK, SameRun
  <2>2. \A g \in Generations : drivers[g] \in Drivers
    BY <1>0 DEF DriversOK
  <2>3. \A g \in Generations : [drivers[g] EXCEPT !.pc = "exec", !.key = "none"] \in Drivers
    BY <2>2, DriverTypes DEF DriverPcs, Parked
  <2>4. DriversOK'
    BY <1>0, <1>6, <2>2, <2>3 DEF ActAnswer, DriversOK, StepKnown, Parked, Drivers
  <2>5. ActingOK' /\ RestOK'
    BY <1>0, <1>6 DEF ActAnswer, ActingOK, RestOK, outside
  <2> QED
    BY <2>1, <2>4, <2>5 DEF TypeInv, TypeOK, ModelOK, DriversOK, ActingOK, RestOK
<1> QED
  BY <1>2, <1>3, <1>4, <1>5, <1>6 DEF Act

LEMMA TypeActGoesOn ==
    ASSUME TypeInv, NEW a \in FrontEnds, ActGoesOn(a)
    PROVE  TypeInv'
<1>0. ModelOK /\ DriversOK /\ ActingOK /\ RestOK
  BY TypeParts
<1>1. ASSUME DriveSoon(a) PROVE TypeInv'
  <2>1. \A g \in Generations : [drivers[g] EXCEPT !.pc = "top"] \in Drivers
    BY <1>0, DriverTypes DEF DriversOK, DriverPcs
  <2>2. DriversOK'
    BY <1>0, <1>1, <2>1 DEF DriveSoon, DriversOK, StepKnown, Parked, Drivers
  <2>3. ActingOK'
    BY <1>0, <1>1 DEF DriveSoon, ActingMoves, ActingOK, ActingPcs
  <2>4. ModelOK' /\ RestOK'
    BY <1>0, <1>1 DEF DriveSoon, ModelOK, RestOK, outside
  <2> QED
    BY <2>2, <2>3, <2>4 DEF TypeInv, TypeOK, ModelOK, DriversOK, ActingOK, RestOK
<1>2. ASSUME KeepTask(a) PROVE TypeInv'
  <2>1. ActingOK' /\ RestOK'
    BY <1>0, <1>2, RunAssumption DEF KeepTask, ActingOK, ActingPcs, Idle, RestOK, outside
  <2> QED
    BY <1>0, <1>2, <2>1 DEF KeepTask, TypeInv, TypeOK, ModelOK, DriversOK, StepKnown, ActingOK, RestOK
<1>3. ASSUME AbortTask(a) PROVE TypeInv'
  <2>1. \A g \in Generations : [drivers[g] EXCEPT !.aborted = TRUE] \in Drivers
    BY <1>0, DriverTypes DEF DriversOK
  <2>2. task # 0 => task \in Generations
    BY <1>0, RunAssumption DEF RestOK, Generations
  <2>3. DriversOK'
    <3>1. CASE task = 0
      BY <1>0, <1>3, <3>1 DEF AbortTask, DriversOK, StepKnown
    <3>2. CASE task # 0 /\ drivers[task].pc \in Parked
      <4>1. drivers' = Ended(task)
        BY <1>3, <3>2 DEF AbortTask
      <4>2. Ended(task) \in [Generations -> Drivers]
        BY <2>2, <3>2, EndedType
      <4>3. \A h \in Generations : Ended(task)[h] = drivers[h] \/ Ended(task)[h].pc = "done"
        BY <2>2, <3>2, EndedType
      <4> QED
        BY <1>0, <4>1, <4>2, <4>3 DEF DriversOK, StepKnown, Parked
    <3>3. CASE task # 0 /\ ~(drivers[task].pc \in Parked)
      BY <1>0, <1>3, <2>1, <2>2, <3>3 DEF AbortTask, DriversOK, StepKnown, Drivers
    <3> QED
      BY <3>1, <3>2, <3>3
  <2>4. ActingOK' /\ RestOK' /\ ModelOK'
    BY <1>0, <1>3, RunAssumption DEF AbortTask, ActingMoves, ActingOK, ActingPcs, RestOK, ModelOK, outside
  <2> QED
    BY <2>3, <2>4 DEF TypeInv, TypeOK, ModelOK, DriversOK, ActingOK, RestOK
<1>4. ASSUME ForgetRun(a) PROVE TypeInv'
  <2>1. ActingOK' /\ RestOK'
    BY <1>0, <1>4, RunAssumption DEF ForgetRun, ActingMoves, ActingOK, ActingPcs, Idle, RestOK, outside
  <2> QED
    BY <1>0, <1>4, <2>1 DEF ForgetRun, TypeInv, TypeOK, ModelOK, DriversOK, StepKnown, ActingOK, RestOK
<1>5. ASSUME ClearMedium(a) PROVE TypeInv'
  <2>1. ActingOK'
    BY <1>0, <1>5, RunAssumption DEF ClearMedium, ActingOK, ActingPcs, Idle
  <2>2. medium' \in Stored /\ faults' \in Nat /\ queued' \in Nat
    <3>1. medium \in Stored /\ faults \in Nat /\ queued \in Nat /\ NoRun \in Stored
      BY <1>0, NoDriverType DEF RestOK
    <3> QED
      BY <3>1, <1>5 DEF ClearMedium, Clears
  <2>3. RestOK'
    BY <1>0, <1>5, <2>2 DEF ClearMedium, RestOK, outside
  <2> QED
    BY <1>0, <1>5, <2>1, <2>3 DEF ClearMedium, TypeInv, TypeOK, ModelOK, DriversOK, StepKnown, ActingOK, RestOK
<1> QED
  BY <1>1, <1>2, <1>3, <1>4, <1>5 DEF ActGoesOn

\* What a step changes of the drivers, one driver at a time.
LEMMA DriverMoves ==
    ASSUME TypeInv, NEW g \in Generations, NEW d \in Drivers,
           drivers' = [drivers EXCEPT ![g] = d],
           d.pc \in Parked \cup {"pass", "fail"} => d.step \in Steps
    PROVE  DriversOK'
BY DEF DriversOK, TypeInv, TypeOK, StepKnown

LEMMA TypeDrive ==
    ASSUME TypeInv, NEW g \in Generations, Drive(g)
    PROVE  TypeInv'
<1>0. ModelOK /\ DriversOK /\ ActingOK /\ RestOK
  BY TypeParts
<1>d. drivers[g] \in Drivers
  BY <1>0 DEF DriversOK
<1>e. ASSUME drivers' = Ended(g) PROVE DriversOK'
  BY <1>0, <1>e, EndedType DEF DriversOK, StepKnown, Parked
<1>q. ASSUME ModelOK', DriversOK', ActingOK', RestOK' PROVE TypeInv'
  BY <1>q DEF TypeInv, TypeOK, ModelOK, DriversOK, ActingOK, RestOK
<1>1. ASSUME AskAhead(g) PROVE TypeInv'
  <2>1. \A s \in Due : Asked(s) \in SUBSET Prompts
    BY <1>0, AskLaterType, StepsAssumption DEF Asked, Due, ModelOK, SameRun, Models
  <2>2. (UNION {Asked(s) : s \in Due}) \in SUBSET Prompts
    BY <2>1
  <2>3. ModelOK'
    BY <1>0, <1>1, <2>2 DEF AskAhead, ModelOK, Models
  <2>4. DriversOK'
    <3>1. [drivers[g] EXCEPT !.pc = "begin"] \in Drivers
      BY <1>d, DriverTypes DEF DriverPcs
    <3>2. drivers' = [drivers EXCEPT ![g] = [drivers[g] EXCEPT !.pc = "begin"]]
      BY <1>1 DEF AskAhead, Move
    <3> QED
      BY <1>d, <3>1, <3>2, DriverMoves DEF Parked, Drivers
  <2>5. ActingOK' /\ RestOK'
    BY <1>0, <1>1 DEF AskAhead, ActingOK, RestOK, outside
  <2> QED
    BY <1>q, <2>3, <2>4, <2>5
<1>2. ASSUME DriverBegins(g) PROVE TypeInv'
  <2>1. ActingOK' /\ RestOK'
    BY <1>0, <1>2 DEF DriverBegins, ActingOK, RestOK, outside
  <2>2. CASE model.generation # g
    BY <1>0, <1>e, <1>q, <1>2, <2>1, <2>2 DEF DriverBegins, ModelOK
  <2>3. CASE model.generation = g /\ NextStep(model) = NoStep
    <3>1. ModelOK'
      BY <1>0, <1>2, <2>3, FinishType DEF DriverBegins, ModelOK
    <3>2. [drivers[g] EXCEPT !.pc = "forget"] \in Drivers
      BY <1>d, DriverTypes DEF DriverPcs
    <3>3. drivers' = [drivers EXCEPT ![g] = [drivers[g] EXCEPT !.pc = "forget"]]
      BY <1>2, <2>3 DEF DriverBegins, Move
    <3>4. DriversOK'
      BY <1>d, <3>2, <3>3, DriverMoves DEF Parked, Drivers
    <3> QED
      BY <1>q, <2>1, <3>1, <3>4
  <2>4. CASE model.generation = g /\ NextStep(model) # NoStep
    <3> DEFINE s == NextStep(model)
               d == [drivers[g] EXCEPT !.pc = "recordBegin", !.step = s, !.job = "queued"]
    <3>1. ModelOK'
      BY <1>0, <1>2, <2>4, BeginNextType DEF DriverBegins, ModelOK
    <3>2. s \in Steps
      BY <1>0, <2>4, NextStepType DEF ModelOK, InState
    <3>3. d \in Drivers
      BY <1>d, <3>2, NoStepType, DriverTypes DEF DriverPcs, Parked, JobPcs
    <3>4. drivers' = [drivers EXCEPT ![g] = d]
      BY <1>2, <2>4 DEF DriverBegins
    <3>5. d.step = s
      BY <1>d DEF Drivers
    <3> HIDE DEF d, s
    <3>6. DriversOK'
      BY <3>2, <3>3, <3>4, <3>5, DriverMoves
    <3> QED
      BY <1>q, <2>1, <3>1, <3>6
  <2> QED
    BY <2>2, <2>3, <2>4
<1>3. ASSUME DriverRecorded(g) PROVE TypeInv'
  <2>1. ModelOK' /\ ActingOK' /\ RestOK'
    BY <1>0, <1>3 DEF DriverRecorded, ModelOK, ActingOK, RestOK, outside
  <2>2. PICK pc \in {"exec", "fail", "top", "done"} :
           /\ drivers[g].pc = "recordBegin" \/ pc \in {"top", "done"}
           /\ drivers' = [drivers EXCEPT ![g] =
                            IF pc = "done" THEN [NoDriver EXCEPT !.pc = "done"]
                            ELSE [drivers[g] EXCEPT !.pc = pc, !.job = "none"]]
    BY <1>3 DEF DriverRecorded
  <2>3. [drivers[g] EXCEPT !.pc = pc, !.job = "none"] \in Drivers
    BY <1>d, DriverTypes DEF DriverPcs, Parked, JobPcs
  <2>4. drivers[g].pc = "recordBegin" => drivers[g].step \in Steps
    BY <1>0 DEF DriversOK, StepKnown, Parked
  <2>5. CASE pc = "done"
    BY <1>q, <2>1, <2>2, <2>5, NoDriverType, DriverMoves DEF NoDriver, Parked
  <2>6. CASE pc # "done"
    <3> DEFINE d == [drivers[g] EXCEPT !.pc = pc, !.job = "none"]
    <3>1. d.pc = pc /\ d.step = drivers[g].step
      BY <1>d DEF Drivers
    <3>2. drivers' = [drivers EXCEPT ![g] = d]
      BY <2>2, <2>6
    <3>3. d.pc \in Parked \cup {"pass", "fail"} => d.step \in Steps
      BY <2>2, <2>4, <3>1 DEF Parked
    <3> HIDE DEF d
    <3> QED
      BY <1>q, <2>1, <2>3, <3>2, <3>3, DriverMoves DEF d
  <2> QED
    BY <2>5, <2>6
<1>4. ASSUME NEW m \in Models, m.generation = model.generation,
             NEW pc \in {"recordPass", "recordFail"},
             drivers[g].pc \in {"pass", "fail"}, Settles(g, m, pc)
      PROVE  TypeInv'
  <2>1. ModelOK' /\ ActingOK' /\ RestOK'
    BY <1>0, <1>4 DEF Settles, context, ModelOK, ActingOK, RestOK, outside
  <2>2. CASE model.generation # g
    BY <1>e, <1>q, <1>4, <2>1, <2>2 DEF Settles
  <2>3. CASE model.generation = g
    <3> DEFINE d == [drivers[g] EXCEPT !.pc = pc, !.job = "queued"]
    <3>1. d \in Drivers
      BY <1>d, DriverTypes DEF DriverPcs, Parked, JobPcs
    <3>2. d.step = drivers[g].step /\ d.step \in Steps
      BY <1>0, <1>d, <1>4 DEF DriversOK, StepKnown, Drivers
    <3>3. drivers' = [drivers EXCEPT ![g] = d]
      BY <1>4, <2>3 DEF Settles
    <3> HIDE DEF d
    <3> QED
      BY <1>q, <2>1, <3>1, <3>2, <3>3, DriverMoves
  <2> QED
    BY <2>2, <2>3
<1>5. ASSUME DriverPasses(g) PROVE TypeInv'
  BY <1>0, <1>4, <1>5, StepStateTypes DEF DriverPasses, ModelOK
<1>6. ASSUME DriverFails(g) PROVE TypeInv'
  BY <1>0, <1>4, <1>6, StepStateTypes DEF DriverFails, ModelOK
<1>7. ASSUME DriverForgets(g) PROVE TypeInv'
  <2>1. ModelOK' /\ ActingOK' /\ RestOK'
    BY <1>0, <1>7 DEF DriverForgets, ModelOK, ActingOK, RestOK, outside
  <2>2. [drivers[g] EXCEPT !.pc = "clear"] \in Drivers
    BY <1>d, DriverTypes DEF DriverPcs
  <2>3. drivers' = Ended(g) \/ drivers' = [drivers EXCEPT ![g] = [drivers[g] EXCEPT !.pc = "clear"]]
    BY <1>7 DEF DriverForgets, Move
  <2>4. DriversOK'
    BY <1>d, <1>e, <2>2, <2>3, DriverMoves DEF Parked, Drivers
  <2> QED
    BY <1>q, <2>1, <2>4
<1>8. ASSUME DriverClears(g) PROVE TypeInv'
  <2>1. ModelOK' /\ ActingOK' /\ DriversOK'
    BY <1>0, <1>e, <1>8 DEF DriverClears, ModelOK, ActingOK
  <2>2. medium' \in Stored /\ faults' \in Nat /\ queued' \in Nat
    <3>1. medium \in Stored /\ faults \in Nat /\ queued \in Nat /\ NoRun \in Stored
      BY <1>0, NoDriverType DEF RestOK
    <3> QED
      BY <3>1, <1>8 DEF DriverClears, Clears
  <2>3. RestOK'
    BY <1>0, <1>8, <2>2 DEF DriverClears, RestOK, outside
  <2> QED
    BY <1>q, <2>1, <2>3
<1> QED
  BY <1>1, <1>2, <1>3, <1>5, <1>6, <1>7, <1>8 DEF Drive

LEMMA TypeRecord ==
    ASSUME TypeInv, NEW g \in Generations, Record(g)
    PROVE  TypeInv'
<1>0. ModelOK /\ DriversOK /\ ActingOK /\ RestOK
  BY TypeParts
<1>d. drivers[g] \in Drivers
  BY <1>0 DEF DriversOK
<1>k. drivers[g].pc \in Parked \cup {"pass", "fail"} => drivers[g].step \in Steps
  BY <1>0 DEF DriversOK, StepKnown
<1>q. ASSUME ModelOK', DriversOK', ActingOK', RestOK' PROVE TypeInv'
  BY <1>q DEF TypeInv, TypeOK, ModelOK, DriversOK, ActingOK, RestOK
<1>1. ASSUME NEW j \in JobPcs, NEW s \in Stored,
             drivers' = [drivers EXCEPT ![g] = [drivers[g] EXCEPT !.job = j, !.snap = s]]
      PROVE  DriversOK'
  <2> DEFINE d == [drivers[g] EXCEPT !.job = j, !.snap = s]
  <2>1. d \in Drivers
    BY <1>d, DriverTypes
  <2>2. d.pc = drivers[g].pc /\ d.step = drivers[g].step
    BY <1>d DEF Drivers
  <2>3. drivers' = [drivers EXCEPT ![g] = d]
    BY <1>1
  <2> HIDE DEF d
  <2> QED
    BY <1>k, <2>1, <2>2, <2>3, DriverMoves
<1>2. ASSUME RecordReads(g) PROVE TypeInv'
  <2>1. ModelOK' /\ ActingOK' /\ RestOK'
    BY <1>0, <1>2 DEF RecordReads, ModelOK, ActingOK, RestOK, outside
  <2>2. CASE model.generation = g
    <3>1. drivers' = [drivers EXCEPT ![g] = [drivers[g] EXCEPT !.job = "saving", !.snap = Snap(model)]]
      BY <1>2, <2>2 DEF RecordReads
    <3> QED
      BY <1>0, <1>1, <1>q, <2>1, <3>1, SnapType DEF ModelOK, JobPcs
  <2>3. CASE model.generation # g
    <3>1. PICK j \in JobPcs : drivers' = [drivers EXCEPT ![g] = [drivers[g] EXCEPT !.job = j]]
      BY <1>2, <2>3 DEF RecordReads, JobPcs
    <3> DEFINE d == [drivers[g] EXCEPT !.job = j]
    <3>2. d \in Drivers
      BY <1>d, DriverTypes
    <3>3. d.pc = drivers[g].pc /\ d.step = drivers[g].step
      BY <1>d DEF Drivers
    <3>4. drivers' = [drivers EXCEPT ![g] = d]
      BY <3>1
    <3> HIDE DEF d
    <3> QED
      BY <1>k, <1>q, <2>1, <3>2, <3>3, <3>4, DriverMoves
  <2> QED
    BY <2>2, <2>3
<1>3. ASSUME RecordSaves(g) PROVE TypeInv'
  <2>1. ModelOK' /\ ActingOK'
    BY <1>0, <1>3 DEF RecordSaves, ModelOK, ActingOK
  <2>2. medium' \in Stored /\ faults' \in Nat
    <3>1. medium \in Stored /\ faults \in Nat /\ drivers[g].snap \in Stored
      BY <1>0, <1>d DEF RestOK, Drivers
    <3> QED
      BY <3>1, <1>3 DEF RecordSaves
  <2>3. RestOK'
    BY <1>0, <1>3, <2>2 DEF RecordSaves, RestOK, outside
  <2>4. PICK j \in JobPcs :
          drivers' = [drivers EXCEPT ![g] = [drivers[g] EXCEPT !.job = j, !.snap = NoRun]]
    BY <1>3 DEF RecordSaves, JobPcs
  <2> QED
    BY <1>1, <1>q, <2>1, <2>3, <2>4, NoDriverType
<1> QED
  BY <1>2, <1>3 DEF Record

LEMMA TypeCarryOut ==
    ASSUME TypeInv, NEW g \in Generations, CarryOut(g) \/ \E ok \in BOOLEAN : StepEnds(g, ok)
    PROVE  TypeInv'
<1>0. ModelOK /\ DriversOK /\ ActingOK /\ RestOK
  BY TypeParts
<1>d. drivers[g] \in Drivers /\ g \in Nat
  BY <1>0, RunAssumption DEF DriversOK, Generations
<1>q. ASSUME ModelOK', DriversOK', ActingOK', RestOK' PROVE TypeInv'
  BY <1>q DEF TypeInv, TypeOK, ModelOK, DriversOK, ActingOK, RestOK
<1>s. ASSUME drivers[g].pc \in {"exec", "notice"} PROVE drivers[g].step \in Steps
  BY <1>0, <1>s DEF DriversOK, StepKnown, Parked
<1>m. ASSUME NEW m, SameRun(model, m), Mutates(g, m) PROVE ModelOK'
  BY <1>0, <1>m DEF Mutates, SameRun, ModelOK
<1>c. ASSUME UNCHANGED context PROVE ActingOK' /\ RestOK'
  BY <1>0, <1>c DEF context, outside, ActingOK, RestOK
<1>u. ASSUME UNCHANGED drivers PROVE DriversOK'
  BY <1>0, <1>u DEF DriversOK, StepKnown
<1>v. ASSUME NEW pc \in DriverPcs, NEW k \in Keys \cup {"none"}, drivers[g].step \in Steps,
             drivers' = [drivers EXCEPT ![g] = [drivers[g] EXCEPT !.pc = pc, !.key = k]]
      PROVE  DriversOK'
  <2> DEFINE d == [drivers[g] EXCEPT !.pc = pc, !.key = k]
  <2>1. d \in Drivers /\ d.step = drivers[g].step
    BY <1>d, DriverTypes DEF Drivers
  <2>2. drivers' = [drivers EXCEPT ![g] = d]
    BY <1>v
  <2> HIDE DEF d
  <2> QED
    BY <1>v, <2>1, <2>2, DriverMoves
<1>1. ASSUME NEW k \in AnswerKeys, StepNeeds(g, k) PROVE TypeInv'
  <2>1. drivers[g].step \in Steps /\ k \in Keys
    BY <1>s, <1>1 DEF StepNeeds, InStep, Keys
  <2>2. ModelOK'
    BY <1>0, <1>d, <1>m, <1>1, <2>1, PromptTypes DEF StepNeeds, ModelOK
  <2>3. drivers' = [drivers EXCEPT ![g] = [drivers[g] EXCEPT !.pc = "need", !.key = k]]
    BY <1>1 DEF StepNeeds
  <2> QED
    BY <1>c, <1>q, <1>v, <1>1, <2>1, <2>2, <2>3 DEF StepNeeds, DriverPcs, Parked
<1>2. ASSUME NEW k \in AnswerKeys, StepAsksLater(g, k) PROVE TypeInv'
  <2>1. drivers[g].step \in Steps
    BY <1>s, <1>2 DEF StepAsksLater, InStep
  <2>2. ModelOK'
    BY <1>0, <1>m, <1>2, <2>1, AskLaterType DEF StepAsksLater, ModelOK
  <2> QED
    BY <1>c, <1>q, <1>u, <1>2, <2>2 DEF StepAsksLater
<1>3. ASSUME NEW k \in AnswerKeys, StepTakesDefault(g, k) PROVE TypeInv'
  <2>1. ModelOK'
    BY <1>0, <1>m, <1>3, CloseKeyType DEF StepTakesDefault, ModelOK
  <2> QED
    BY <1>c, <1>q, <1>u, <1>3, <2>1 DEF StepTakesDefault
<1>4. ASSUME NEW k \in AnswerKeys, StepForgets(g, k) PROVE TypeInv'
  <2>1. ModelOK'
    BY <1>0, <1>m, <1>4, AnswerTypes DEF StepForgets, ModelOK
  <2> QED
    BY <1>c, <1>q, <1>u, <1>4, <2>1 DEF StepForgets
<1>5. ASSUME NEW k \in NoticeKeys, StepNotices(g, k) PROVE TypeInv'
  <2>1. drivers[g].step \in Steps /\ k \in Keys
    BY <1>s, <1>5 DEF StepNotices, InStep, Keys
  <2>2. ModelOK'
    BY <1>0, <1>d, <1>m, <1>5, <2>1, PromptTypes DEF StepNotices, ModelOK
  <2>3. drivers' = [drivers EXCEPT ![g] = [drivers[g] EXCEPT !.pc = "notice", !.key = k]]
    BY <1>5 DEF StepNotices
  <2> QED
    BY <1>c, <1>q, <1>v, <1>5, <2>1, <2>2, <2>3 DEF StepNotices, DriverPcs, Parked
<1>6. ASSUME NoticeCloses(g) PROVE TypeInv'
  <2>1. drivers[g].step \in Steps
    BY <1>s, <1>6 DEF NoticeCloses
  <2>2. ModelOK'
    BY <1>0, <1>m, <1>6, CloseKeyType DEF NoticeCloses, ModelOK
  <2>3. drivers' = [drivers EXCEPT ![g] = [drivers[g] EXCEPT !.pc = "exec", !.key = "none"]]
    BY <1>6 DEF NoticeCloses
  <2> QED
    BY <1>c, <1>q, <1>v, <1>6, <2>1, <2>2, <2>3 DEF NoticeCloses, DriverPcs, Parked
<1>7. ASSUME NEW ok \in BOOLEAN, StepEnds(g, ok) PROVE TypeInv'
  <2>1. ModelOK'
    BY <1>0, <1>m, <1>7, ReleaseType DEF StepEnds, ModelOK
  <2>2. drivers[g].step \in Steps
    BY <1>s, <1>7 DEF StepEnds, InStep
  <2> DEFINE pc == IF ok THEN "pass" ELSE "fail"
             d == [drivers[g] EXCEPT !.pc = pc]
  <2>p. pc \in DriverPcs
    BY DEF DriverPcs
  <2> HIDE DEF pc
  <2>3. d \in Drivers /\ d.step = drivers[g].step
    BY <1>d, <2>p, DriverTypes DEF Drivers
  <2>4. drivers' = [drivers EXCEPT ![g] = d]
    BY <1>7 DEF StepEnds, Move, pc
  <2> HIDE DEF d
  <2>5. DriversOK'
    BY <2>2, <2>3, <2>4, DriverMoves
  <2>6. ActingOK' /\ RestOK'
    BY <1>0, <1>7 DEF StepEnds, ActingOK, RestOK, outside
  <2> QED
    BY <1>q, <2>1, <2>5, <2>6
<1> QED
  BY <1>1, <1>2, <1>3, <1>4, <1>5, <1>6, <1>7 DEF CarryOut

LEMMA TypeDetermine ==
    ASSUME TypeInv, Determine
    PROVE  TypeInv'
<1>0. ModelOK /\ DriversOK /\ ActingOK /\ RestOK
  BY TypeParts
<1>r. NotReading \in [pc : {"idle", "reading"}, found : [Steps -> DoneStates \cup {"unread"}]]
  BY DEF NotReading
<1>q. ASSUME ModelOK', DriversOK', ActingOK', RestOK' PROVE TypeInv'
  BY <1>q DEF TypeInv, TypeOK, ModelOK, DriversOK, ActingOK, RestOK
<1>1. ASSUME DetermineBegins PROVE TypeInv'
  <2>1. ModelOK' /\ DriversOK' /\ ActingOK'
    BY <1>0, <1>1 DEF DetermineBegins, ModelOK, DriversOK, StepKnown, ActingOK
  <2>2. reading' \in [pc : {"idle", "reading"}, found : [Steps -> DoneStates \cup {"unread"}]]
    BY <1>0, <1>r, <1>1 DEF DetermineBegins, RestOK
  <2>3. RestOK'
    BY <1>0, <1>1, <2>2 DEF DetermineBegins, RestOK, outside
  <2> QED
    BY <1>q, <2>1, <2>3
<1>2. ASSUME NEW s \in Steps, DetermineReads(s) PROVE TypeInv'
  <2>1. ModelOK' /\ DriversOK' /\ ActingOK'
    BY <1>0, <1>2 DEF DetermineReads, ModelOK, DriversOK, StepKnown, ActingOK
  <2>2. board[s] \in DoneStates
    BY <1>0 DEF RestOK, DoneStates
  <2>3. reading' \in [pc : {"idle", "reading"}, found : [Steps -> DoneStates \cup {"unread"}]]
    BY <1>0, <1>2, <2>2 DEF DetermineReads, RestOK
  <2>4. RestOK'
    BY <1>0, <1>2, <2>3 DEF DetermineReads, RestOK, outside
  <2> QED
    BY <1>q, <2>1, <2>4
<1>3. ASSUME DetermineApplies PROVE TypeInv'
  <2>1. reading.found \in [Steps -> DoneStates]
    BY <1>0, <1>3 DEF DetermineApplies, RestOK
  <2>2. Undone(reading.found) \in [Steps -> DoneStates]
    BY <2>1, UndoneType
  <2>3. ModelOK'
    BY <1>0, <1>3, <2>2 DEF DetermineApplies, ModelOK, Models
  <2>4. DriversOK' /\ ActingOK' /\ RestOK'
    BY <1>0, <1>r, <1>3 DEF DetermineApplies, DriversOK, StepKnown, ActingOK, RestOK, outside
  <2> QED
    BY <1>q, <2>3, <2>4
<1> QED
  BY <1>1, <1>2, <1>3 DEF Determine

LEMMA TypeRestart ==
    ASSUME TypeInv, Restart
    PROVE  TypeInv'
<1>0. ModelOK /\ DriversOK /\ ActingOK /\ RestOK
  BY TypeParts
<1>q. ASSUME ModelOK', DriversOK', ActingOK', RestOK' PROVE TypeInv'
  BY <1>q DEF TypeInv, TypeOK, ModelOK, DriversOK, ActingOK, RestOK
<1>n. NothingLost \in [state : RunStates, chosen : SUBSET Steps, passed : SUBSET Steps]
  BY DEF NothingLost, RunStates
<1>1. ASSUME Crash PROVE TypeInv'
  <2>1. ModelOK'
    BY <1>1, NewType, RunAssumption DEF Crash, ModelOK
  <2>2. DriversOK'
    BY <1>1, NoDriverType DEF Crash, DriversOK, StepKnown, NoDriver, Parked
  <2>3. ActingOK'
    BY <1>1, RunAssumption DEF Crash, ActingOK, Idle, ActingPcs
  <2>4. before' \in [state : RunStates, chosen : SUBSET Steps, passed : SUBSET Steps]
    BY <1>0, <1>1 DEF Crash, ModelOK, Models, Chosen, Passed, InState
  <2>5. reading' \in [pc : {"idle", "reading"}, found : [Steps -> DoneStates \cup {"unread"}]]
    BY <1>1 DEF Crash, NotReading
  <2>6. task' \in 0..MaxGeneration /\ queued' \in Nat /\ up' \in BOOLEAN
    <3>1. task' = 0 /\ queued' = 0 /\ up' = FALSE
      BY <1>1 DEF Crash
    <3>2. 0 \in 0..MaxGeneration
      BY RunAssumption
    <3> QED
      BY <3>1, <3>2
  <2>c. {crashes', faults', attaches'} \subseteq Nat
    <3>1. crashes \in Nat /\ faults \in Nat /\ attaches \in Nat
      BY <1>0 DEF RestOK
    <3> QED
      BY <1>1, <3>1 DEF Crash
  <2>7. RestOK'
    BY <1>0, <1>1, <2>4, <2>5, <2>6, <2>c DEF Crash, RestOK
  <2> QED
    BY <1>q, <2>1, <2>2, <2>3, <2>7
<1>2. ASSUME Resume PROVE TypeInv'
  <2>1. ModelOK'
    BY <1>0, <1>2, AdoptedType, RunAssumption DEF Resume, ModelOK, RestOK
  <2>2. DriversOK'
    <3>1. CASE UNCHANGED drivers
      BY <1>0, <3>1 DEF DriversOK, StepKnown
    <3>2. CASE drivers' = [drivers EXCEPT ![1].pc = "top"]
      <4>1. 1 \in Generations
        BY RunAssumption DEF Generations
      <4>2. drivers[1] \in Drivers
        BY <1>0, <4>1 DEF DriversOK
      <4>3. [drivers[1] EXCEPT !.pc = "top"] \in Drivers
        BY <4>2, DriverTypes DEF DriverPcs
      <4> QED
        BY <3>2, <4>1, <4>2, <4>3, DriverMoves DEF Parked, Drivers
    <3> QED
      BY <1>2, <3>1, <3>2 DEF Resume
  <2>3. task' \in 0..MaxGeneration
    BY <1>0, <1>2, RunAssumption DEF Resume, RestOK
  <2>4. ActingOK' /\ RestOK'
    BY <1>0, <1>n, <1>2, <2>3 DEF Resume, ActingOK, RestOK
  <2> QED
    BY <1>q, <2>1, <2>2, <2>4
<1>3. ASSUME ResumeWithout PROVE TypeInv'
  <2>1. ModelOK' /\ DriversOK' /\ ActingOK'
    BY <1>0, <1>3 DEF ResumeWithout, ModelOK, DriversOK, StepKnown, ActingOK
  <2>2. faults' \in Nat /\ medium' \in Stored
    <3>1. faults \in Nat /\ medium \in Stored /\ NoRun \in Stored
      BY <1>0, NoDriverType DEF RestOK
    <3> QED
      BY <1>3, <3>1 DEF ResumeWithout
  <2>3. RestOK'
    BY <1>0, <1>n, <1>3, <2>2 DEF ResumeWithout, RestOK
  <2> QED
    BY <1>q, <2>1, <2>3
<1> QED
  BY <1>1, <1>2, <1>3 DEF Restart

LEMMA TypeStep == TypeInv /\ [Next]_vars => TypeInv'
<1> SUFFICES ASSUME TypeInv, [Next]_vars PROVE TypeInv'
  OBVIOUS
<1>1. CASE UNCHANGED vars
  BY <1>1 DEF vars, TypeInv, TypeOK, StepKnown
<1>2. CASE Next
  BY <1>2, TypeActs, TypeActGoesOn, TypeDrive, TypeRecord, TypeCarryOut, TypeDetermine, TypeRestart
     DEF Next
<1> QED
  BY <1>1, <1>2

\* The engine's state always has its type: in particular the state kept is
\* never `waiting', which is read from the prompts, and no generation is
\* driven beyond those begun.
THEOREM TypeCorrect == Spec => []TypeOK
<1>1. TypeInv => TypeOK
  BY DEF TypeInv
<1> QED
  BY <1>1, TypeInit, TypeStep, PTL DEF Spec
-----------------------------------------------------------------------------
\* The inductive invariant behind RecordedBeforeBegun.

\* A driver that was not spawned, and has written nothing.
IsBlank(d) == d.pc = "none" /\ d.job = "none"

\* A driver that has recorded the step it begins.
IsReady(d) == d.pc \in Carrying \/ (d.pc = "recordBegin" /\ d.job = "ok")

\* A driver whose write is on the medium, or that clears it.
HoldsDisk(d) == d.job = "saving" \/ d.pc = "clear"

MayWrite(d) == d.job # "none" => d.pc \in {"recordBegin", "recordPass", "recordFail", "done"}

\* Only a driver that records, or is over, has a write on its way.
WritesOnlyRecording == \A g \in Generations : MayWrite(drivers[g])

\* Generations to come, and those an act is about to spawn, are untouched;
\* an act that ends a run begins a generation nothing is spawned for.
FutureBlank ==
    /\ \A g \in Generations : g > model.generation => IsBlank(drivers[g])
    /\ \A a \in FrontEnds :
          /\ acting[a].generation <= model.generation
          /\ acting[a].pc # "idle" => acting[a].generation \in Generations
          /\ acting[a].pc \notin {"idle", "store"} => IsBlank(drivers[acting[a].generation])

\* Two acts under way began generations of their own.
ActsApart ==
    \A a, b \in FrontEnds :
        (a # b /\ acting[a].pc # "idle" /\ acting[b].pc # "idle")
            => acting[a].generation # acting[b].generation

\* Inner::disk excludes: one writer or clearer at a time.
OneOnDisk ==
    /\ \A g, h \in Generations : HoldsDisk(drivers[g]) /\ HoldsDisk(drivers[h]) => g = h
    /\ \A g \in Generations, a \in FrontEnds : ~(HoldsDisk(drivers[g]) /\ acting[a].pc = "clear")
    /\ \A a, b \in FrontEnds : acting[a].pc = "clear" /\ acting[b].pc = "clear" => a = b

\* What the driver of the run held is writing, and what it has written.
WritesTheRun ==
    \A g \in Generations :
        g = model.generation =>
            /\ (drivers[g].pc = "recordBegin" /\ drivers[g].job = "saving")
                    => drivers[g].snap = Snap(model)
            /\ IsReady(drivers[g]) => DiskFree /\ medium = Snap(model)

\* With the power off there is only the medium and the board.
OffIsBlank ==
    ~up => /\ \A g \in Generations : IsBlank(drivers[g])
           /\ \A a \in FrontEnds : acting[a].pc = "idle" /\ acting[a].generation = 0

RecordInv ==
    /\ WritesOnlyRecording
    /\ FutureBlank
    /\ ActsApart
    /\ OneOnDisk
    /\ WritesTheRun
    /\ OffIsBlank

IInv == TypeInv /\ RecordInv

\* What is recorded depends on the states of the steps alone.
LEMMA SnapOfSteps ==
    ASSUME NEW m, NEW n, m.steps = n.steps
    PROVE  Snap(m) = Snap(n)
BY DEF Snap, Chosen, Passed, InState

LEMMA DiskFreeIs ==
    DiskFree <=> /\ \A g \in Generations : ~HoldsDisk(drivers[g])
                 /\ \A a \in FrontEnds : acting[a].pc # "clear"
BY DEF DiskFree, HoldsDisk

LEMMA GenerationsAreNat == Generations \subseteq Nat /\ 0 \notin Generations
BY RunAssumption DEF Generations

\* A step that leaves the drivers, the acts, the medium and the steps of
\* the model as they are.
LEMMA QuietStep ==
    ASSUME RecordInv, UNCHANGED <<drivers, acting, medium, up>>,
           model'.generation = model.generation, Snap(model') = Snap(model)
    PROVE  RecordInv'
BY DEF RecordInv, WritesOnlyRecording, FutureBlank, ActsApart, OneOnDisk, WritesTheRun,
       OffIsBlank, DiskFree

\* A step of one driver that comes no nearer to the medium: it does not
\* take the disk, and is not made ready by it.
LEMMA DriverAlone ==
    ASSUME RecordInv, NEW g \in Generations, drivers[g].pc # "none",
           \A h \in Generations : h # g => drivers'[h] = drivers[h],
           UNCHANGED <<acting, medium, up>>,
           model.generation \in Nat, model'.generation = model.generation,
           MayWrite(drivers'[g]),
           HoldsDisk(drivers'[g]) => HoldsDisk(drivers[g]),
           drivers'[g].job = "saving" => drivers'[g].pc # "recordBegin",
           g = model.generation => (IsReady(drivers'[g]) => IsReady(drivers[g])),
           \/ Snap(model') = Snap(model)
           \/ g = model.generation /\ ~IsReady(drivers'[g])
    PROVE  RecordInv'
<1>1. WritesOnlyRecording'
  BY DEF RecordInv, WritesOnlyRecording
<1>2. up /\ ~IsBlank(drivers[g]) /\ g <= model.generation
  BY GenerationsAreNat DEF RecordInv, OffIsBlank, FutureBlank, IsBlank
<1>3. FutureBlank'
  BY <1>2, GenerationsAreNat DEF RecordInv, FutureBlank
<1>4. ActsApart' /\ OffIsBlank'
  BY <1>2 DEF RecordInv, ActsApart, OffIsBlank
<1>5. OneOnDisk'
  BY DEF RecordInv, OneOnDisk
<1>6. DiskFree => DiskFree'
  BY DiskFreeIs DEF DiskFree, HoldsDisk
<1>7. WritesTheRun'
  BY <1>6 DEF RecordInv, WritesTheRun
<1> QED
  BY <1>1, <1>3, <1>4, <1>5, <1>7 DEF RecordInv

LEMMA RecordInit == Init => RecordInv
<1> SUFFICES ASSUME Init PROVE RecordInv
  OBVIOUS
<1>1. \A g \in Generations : drivers[g] = NoDriver
  BY DEF Init
<1>2. \A a \in FrontEnds : acting[a].pc = "idle" /\ acting[a].generation = 0
  BY DEF Init, Idle
<1>3. model.generation = 0 /\ up
  BY NewType DEF Init
<1>4. \A g \in Generations : ~HoldsDisk(drivers[g]) /\ IsBlank(drivers[g]) /\ MayWrite(drivers[g])
  BY <1>1 DEF NoDriver, HoldsDisk, IsBlank, MayWrite
<1>5. WritesTheRun
  BY <1>3, GenerationsAreNat DEF WritesTheRun
<1> QED
  BY <1>2, <1>3, <1>4, <1>5
     DEF RecordInv, WritesOnlyRecording, FutureBlank, ActsApart, OneOnDisk, OffIsBlank

\* An act that begins a generation: nothing of it exists yet.
LEMMA RecordNewGeneration ==
    ASSUME IInv, NEW a \in FrontEnds, NEW pc \in {"spawn", "abort"}, up,
           model.generation < MaxGeneration,
           model'.generation = model.generation + 1,
           acting' = [acting EXCEPT ![a] = [pc |-> pc, generation |-> model'.generation]],
           UNCHANGED <<drivers, medium, up>>
    PROVE  RecordInv'
<1>1. model.generation \in Nat /\ model'.generation \in Generations
  BY RunAssumption DEF IInv, TypeInv, TypeOK, Models, Generations
<1>2. \A b \in FrontEnds : b # a => acting'[b] = acting[b]
  BY DEF IInv, TypeInv, TypeOK
<1>3. acting'[a] = [pc |-> pc, generation |-> model'.generation]
  BY DEF IInv, TypeInv, TypeOK
<1>4. IsBlank(drivers[model'.generation])
  BY <1>1, GenerationsAreNat DEF IInv, RecordInv, FutureBlank
<1>5. WritesOnlyRecording' /\ OffIsBlank'
  BY DEF IInv, RecordInv, WritesOnlyRecording, OffIsBlank
<1>6. FutureBlank'
  <2>1. \A g \in Generations : g > model'.generation => IsBlank(drivers'[g])
    BY <1>1, GenerationsAreNat DEF IInv, RecordInv, FutureBlank
  <2>2. ASSUME NEW b \in FrontEnds
        PROVE  /\ acting'[b].generation <= model'.generation
               /\ acting'[b].pc # "idle" => acting'[b].generation \in Generations
               /\ acting'[b].pc \notin {"idle", "store"} => IsBlank(drivers'[acting'[b].generation])
    <3>1. CASE b = a
      BY <1>1, <1>3, <1>4, <3>1
    <3>2. CASE b # a
      <4>1. acting[b].generation \in Nat
        BY RunAssumption DEF IInv, TypeInv, TypeOK
      <4> QED
        BY <1>1, <1>2, <3>2, <4>1 DEF IInv, RecordInv, FutureBlank
    <3> QED
      BY <3>1, <3>2
  <2> QED
    BY <2>1, <2>2 DEF FutureBlank
<1>7. ActsApart'
  <2>1. \A b \in FrontEnds : acting[b].generation \in Nat /\ acting[b].generation <= model.generation
    BY RunAssumption DEF IInv, RecordInv, FutureBlank, TypeInv, TypeOK
  <2>2. \A b \in FrontEnds : b # a => acting'[b].generation # acting'[a].generation
    BY <1>1, <1>2, <1>3, <2>1
  <2> QED
    BY <1>2, <2>2 DEF IInv, RecordInv, ActsApart
<1>8. OneOnDisk'
  BY <1>2, <1>3 DEF IInv, RecordInv, OneOnDisk
<1>9. WritesTheRun'
  BY <1>1, <1>4 DEF WritesTheRun, IsBlank, IsReady, Carrying
<1> QED
  BY <1>5, <1>6, <1>7, <1>8, <1>9 DEF RecordInv

LEMMA RecordActs ==
    ASSUME IInv, NEW a \in FrontEnds, Act(a)
    PROVE  RecordInv'
<1>0. model \in Models /\ RecordInv /\ TypeInv
  BY DEF IInv, TypeInv, TypeOK
<1>1. ASSUME NEW chosen \in SUBSET Steps, ActStart(a, chosen) PROVE RecordInv'
  <2>1. model'.generation = model.generation + 1
    BY <1>0, <1>1, BeginRunType DEF ActStart, Begins
  <2> QED
    BY <1>1, <2>1, RecordNewGeneration DEF ActStart, Begins, outside
<1>2. ASSUME ActRetry(a) PROVE RecordInv'
  <2>1. model'.generation = model.generation + 1
    BY <1>0, <1>2, RetryType DEF ActRetry, Begins
  <2> QED
    BY <1>2, <2>1, RecordNewGeneration DEF ActRetry, Begins, outside
<1>3. ASSUME ActEnd(a) PROVE RecordInv'
  <2>1. model'.generation = model.generation + 1
    BY <1>0, <1>3, EndRunType DEF ActEnd
  <2> QED
    BY <1>3, <2>1, RecordNewGeneration DEF ActEnd, outside
<1>4. ASSUME Attach(a) PROVE RecordInv'
  BY <1>0, <1>4, QuietStep DEF Attach
<1>5. ASSUME NEW p \in model.prompts, ActAnswer(a, p) PROVE RecordInv'
  <2>1. SameRun(model, model')
    BY <1>0, <1>5, AnswerTypes DEF ActAnswer
  <2>2. Snap(model') = Snap(model) /\ model'.generation = model.generation
    BY <2>1, SnapOfSteps DEF SameRun
  <2>3. UNCHANGED <<acting, medium, up>>
    BY <1>5 DEF ActAnswer, outside
  <2>4. CASE p.waiter \in Generations /\ drivers[p.waiter].pc = "need"
    <3> DEFINE g == p.waiter
    <3>1. drivers'[g] = [drivers[g] EXCEPT !.pc = "exec", !.key = "none"]
      BY <1>5, <2>4 DEF ActAnswer
    <3>2. drivers[g] \in Drivers
      BY <1>0, <2>4 DEF TypeInv, TypeOK
    <3>3. drivers'[g].pc = "exec" /\ drivers'[g].job = drivers[g].job
      BY <3>1, <3>2 DEF Drivers
    <3>4. drivers[g].job = "none"
      BY <1>0, <2>4 DEF RecordInv, WritesOnlyRecording, MayWrite
    <3>5. \A h \in Generations : h # g => drivers'[h] = drivers[h]
      BY <1>5 DEF ActAnswer
    <3> QED
      BY <1>0, <2>2, <2>3, <2>4, <3>3, <3>4, <3>5, DriverAlone
         DEF MayWrite, HoldsDisk, IsReady, Carrying, Models
  <2>5. CASE ~(p.waiter \in Generations /\ drivers[p.waiter].pc = "need")
    <3>1. \A h \in Generations : drivers'[h] = drivers[h]
      BY <1>5, <2>5 DEF ActAnswer
    <3>2. drivers' = drivers
      BY <1>0, <1>5, <3>1 DEF ActAnswer, TypeInv, TypeOK
    <3> QED
      BY <1>0, <2>2, <2>3, <3>2, QuietStep
  <2> QED
    BY <2>4, <2>5
<1> QED
  BY <1>1, <1>2, <1>3, <1>4, <1>5 DEF Act

\* An act that goes on: the only act under way whose place changes.
LEMMA RecordActGoesOn ==
    ASSUME IInv, NEW a \in FrontEnds, ActGoesOn(a)
    PROVE  RecordInv'
<1>0. RecordInv /\ TypeInv /\ model.generation \in Nat
  BY DEF IInv, TypeInv, TypeOK, Models
<1>a. acting \in [FrontEnds -> [pc : ActingPcs, generation : 0..MaxGeneration]]
  BY DEF IInv, TypeInv, TypeOK
<1>u. ASSUME acting[a].pc # "idle" PROVE up
  BY <1>u DEF IInv, RecordInv, OffIsBlank
<1>1. ASSUME DriveSoon(a) PROVE RecordInv'
  <2> DEFINE g == acting[a].generation
  <2>1. acting[a].pc = "spawn" /\ up /\ UNCHANGED <<medium, up, model>>
    BY <1>u, <1>1 DEF DriveSoon, outside
  <2>2. g \in Generations /\ IsBlank(drivers[g]) /\ g <= model.generation
    BY <1>0, <2>1 DEF RecordInv, FutureBlank
  <2>3. drivers[g] \in Drivers
    BY <1>0, <2>2 DEF TypeInv, TypeOK
  <2>4. drivers'[g] = [drivers[g] EXCEPT !.pc = "top"]
    BY <1>0, <1>1, <2>2 DEF DriveSoon, TypeInv, TypeOK
  <2>5. drivers'[g].pc = "top" /\ drivers'[g].job = "none"
    BY <2>2, <2>3, <2>4 DEF Drivers, IsBlank
  <2>6. \A h \in Generations : h # g => drivers'[h] = drivers[h]
    BY <1>0, <1>1, <2>2 DEF DriveSoon, TypeInv, TypeOK
  <2>7. /\ acting'[a].pc = "store" /\ acting'[a].generation = g
        /\ \A b \in FrontEnds : b # a => acting'[b] = acting[b]
    BY <1>a, <1>1 DEF DriveSoon, ActingMoves
  <2>8. WritesOnlyRecording'
    BY <1>0, <2>5, <2>6 DEF RecordInv, WritesOnlyRecording, MayWrite
  <2>9. FutureBlank'
    <3>1. \A h \in Generations : h > model'.generation => IsBlank(drivers'[h])
      BY <1>0, <2>1, <2>2, <2>6, GenerationsAreNat DEF RecordInv, FutureBlank
    <3>2. ASSUME NEW b \in FrontEnds, b # a, acting[b].pc \notin {"idle", "store"}
          PROVE  IsBlank(drivers'[acting[b].generation])
      <4>1. acting[b].generation \in Generations /\ IsBlank(drivers[acting[b].generation])
        BY <1>0, <3>2 DEF RecordInv, FutureBlank
      <4>2. acting[b].generation # g
        BY <1>0, <2>1, <3>2 DEF RecordInv, ActsApart
      <4> QED
        BY <2>6, <4>1, <4>2
    <3> QED
      BY <1>0, <2>1, <2>2, <2>7, <3>1, <3>2 DEF RecordInv, FutureBlank
  <2>10. ActsApart'
    BY <1>0, <2>1, <2>7 DEF RecordInv, ActsApart
  <2>11. OneOnDisk'
    BY <1>0, <2>5, <2>6, <2>7 DEF RecordInv, OneOnDisk, HoldsDisk
  <2>12. DiskFree => DiskFree'
    BY <2>5, <2>6, <2>7 DEF DiskFree
  <2>13. WritesTheRun'
    BY <1>0, <2>1, <2>5, <2>6, <2>12 DEF RecordInv, WritesTheRun, IsReady, Carrying
  <2> QED
    BY <2>1, <2>8, <2>9, <2>10, <2>11, <2>13 DEF RecordInv, OffIsBlank
<1>2. ASSUME UNCHANGED <<drivers, up, model>>, acting[a].pc # "idle",
             acting'[a] = Idle \/ (/\ acting'[a].pc \in {"forget", "clear"}
                                   /\ acting[a].pc \in {"abort", "forget"}
                                   /\ acting'[a].generation = acting[a].generation),
             \A b \in FrontEnds : b # a => acting'[b] = acting[b]
      PROVE  /\ WritesOnlyRecording' /\ FutureBlank' /\ ActsApart' /\ OffIsBlank'
             /\ acting'[a].pc # "clear" => OneOnDisk' /\ (DiskFree => DiskFree')
  <2>1. WritesOnlyRecording' /\ OffIsBlank'
    BY <1>0, <1>u, <1>2 DEF RecordInv, WritesOnlyRecording, OffIsBlank
  <2>2. FutureBlank'
    <3>1. \A g \in Generations : g > model'.generation => IsBlank(drivers'[g])
      BY <1>0, <1>2 DEF RecordInv, FutureBlank
    <3>2. /\ acting'[a].generation <= model'.generation
          /\ acting'[a].pc # "idle" => acting'[a].generation \in Generations
          /\ acting'[a].pc \notin {"idle", "store"} => IsBlank(drivers'[acting'[a].generation])
      BY <1>0, <1>2 DEF RecordInv, FutureBlank, Idle
    <3> QED
      BY <1>0, <1>2, <3>1, <3>2 DEF RecordInv, FutureBlank
  <2>3. ActsApart'
    BY <1>0, <1>2 DEF RecordInv, ActsApart, Idle
  <2>4. ASSUME acting'[a].pc # "clear" PROVE OneOnDisk'
    BY <1>0, <1>2, <2>4 DEF RecordInv, OneOnDisk
  <2>5. ASSUME acting'[a].pc # "clear" PROVE DiskFree => DiskFree'
    BY <1>2, <2>5 DEF DiskFree
  <2> QED
    BY <2>1, <2>2, <2>3, <2>4, <2>5
<1>3. ASSUME KeepTask(a) PROVE RecordInv'
  <2>1. acting'[a] = Idle /\ acting'[a].pc # "clear" /\ \A b \in FrontEnds : b # a => acting'[b] = acting[b]
    BY <1>3, <1>a DEF KeepTask, Idle
  <2>2. UNCHANGED <<drivers, up, model, medium>> /\ acting[a].pc # "idle"
    BY <1>3 DEF KeepTask, outside
  <2>3. WritesTheRun'
    BY <1>0, <1>2, <2>1, <2>2 DEF RecordInv, WritesTheRun
  <2> QED
    BY <1>2, <2>1, <2>2, <2>3 DEF RecordInv
<1>4. ASSUME AbortTask(a) PROVE RecordInv'
  <2>1. /\ acting[a].pc = "abort" /\ acting'[a].pc = "forget"
        /\ acting'[a].generation = acting[a].generation
        /\ \A b \in FrontEnds : b # a => acting'[b] = acting[b]
    BY <1>a, <1>4 DEF AbortTask, ActingMoves
  <2>2. up /\ UNCHANGED <<up, model, medium>>
    BY <1>u, <1>4, <2>1 DEF AbortTask, outside
  <2>3. \A h \in Generations :
           /\ drivers'[h].job = drivers[h].job /\ drivers'[h].snap = drivers[h].snap
           /\ drivers'[h].pc = drivers[h].pc \/ (drivers'[h].pc = "done" /\ drivers[h].pc \in Parked)
    <3>1. task # 0 => task \in Generations
      BY <1>0, RunAssumption DEF TypeInv, TypeOK, Generations
    <3>2. CASE task = 0
      BY <1>4, <3>2 DEF AbortTask
    <3>3. CASE task # 0 /\ drivers[task].pc \in Parked
      <4>1. drivers' = Ended(task)
        BY <1>4, <3>3 DEF AbortTask
      <4> QED
        BY <1>0, <3>1, <3>3, <4>1 DEF Ended, NoDriver, TypeInv, TypeOK
    <3>4. CASE task # 0 /\ ~(drivers[task].pc \in Parked)
      <4>1. drivers' = [drivers EXCEPT ![task].aborted = TRUE]
        BY <1>4, <3>4 DEF AbortTask
      <4>2. drivers[task] \in Drivers
        BY <1>0, <3>1, <3>4 DEF TypeInv, TypeOK
      <4> QED
        BY <1>0, <3>1, <3>4, <4>1, <4>2 DEF TypeInv, TypeOK, Drivers
    <3> QED
      BY <3>2, <3>3, <3>4
  <2>4. \A h \in Generations :
           /\ IsBlank(drivers[h]) => IsBlank(drivers'[h])
           /\ HoldsDisk(drivers'[h]) => HoldsDisk(drivers[h])
           /\ IsReady(drivers'[h]) => IsReady(drivers[h])
           /\ MayWrite(drivers[h]) => MayWrite(drivers'[h])
    BY <2>3 DEF IsBlank, HoldsDisk, IsReady, MayWrite, Parked, Carrying
  <2>5. WritesOnlyRecording' /\ OffIsBlank'
    BY <1>0, <2>2, <2>4 DEF RecordInv, WritesOnlyRecording, OffIsBlank
  <2>6. FutureBlank'
    BY <1>0, <2>1, <2>2, <2>4 DEF RecordInv, FutureBlank
  <2>7. ActsApart'
    BY <1>0, <2>1 DEF RecordInv, ActsApart
  <2>8. OneOnDisk'
    BY <1>0, <2>1, <2>4 DEF RecordInv, OneOnDisk
  <2>9. DiskFree => DiskFree'
    BY <2>1, <2>4 DEF DiskFree, HoldsDisk
  <2>10. WritesTheRun'
    BY <1>0, <2>2, <2>3, <2>4, <2>9 DEF RecordInv, WritesTheRun
  <2> QED
    BY <2>5, <2>6, <2>7, <2>8, <2>10 DEF RecordInv
<1>5. ASSUME ForgetRun(a) PROVE RecordInv'
  <2>1. acting[a].pc = "forget" /\ DiskFree /\ UNCHANGED <<drivers, up, model, medium>>
    BY <1>5 DEF ForgetRun, outside
  <2>2. CASE model.generation # acting[a].generation
    <3>1. acting'[a] = Idle /\ acting'[a].pc # "clear" /\ \A b \in FrontEnds : b # a => acting'[b] = acting[b]
      BY <1>5, <1>a, <2>2 DEF ForgetRun, Idle
    <3>2. WritesTheRun'
      BY <1>0, <1>2, <2>1, <3>1 DEF RecordInv, WritesTheRun
    <3> QED
      BY <1>2, <2>1, <3>1, <3>2 DEF RecordInv
  <2>3. CASE model.generation = acting[a].generation
    <3>1. /\ acting'[a].pc = "clear" /\ acting'[a].generation = acting[a].generation
          /\ \A b \in FrontEnds : b # a => acting'[b] = acting[b]
      BY <1>a, <1>5, <2>3 DEF ForgetRun, ActingMoves
    <3>2. IsBlank(drivers[model.generation])
      BY <1>0, <2>1, <2>3 DEF RecordInv, FutureBlank
    <3>3. WritesTheRun'
      BY <2>1, <3>2 DEF WritesTheRun, IsBlank, IsReady, Carrying
    <3>4. OneOnDisk'
      BY <1>0, <2>1, <3>1, DiskFreeIs DEF RecordInv, OneOnDisk
    <3> QED
      BY <1>2, <2>1, <3>1, <3>3, <3>4 DEF RecordInv
  <2> QED
    BY <2>2, <2>3
<1>6. ASSUME ClearMedium(a) PROVE RecordInv'
  <2>1. acting[a].pc = "clear" /\ UNCHANGED <<drivers, up, model>>
    BY <1>6 DEF ClearMedium, outside
  <2>2. acting'[a] = Idle /\ acting'[a].pc # "clear" /\ \A b \in FrontEnds : b # a => acting'[b] = acting[b]
    <3>1. acting' = [acting EXCEPT ![a] = Idle]
      BY <1>6 DEF ClearMedium
    <3> QED
      BY <1>a, <3>1 DEF Idle
  <2>3. ~DiskFree
    BY <2>1 DEF DiskFree
  <2>4. WritesTheRun'
    BY <1>0, <2>1, <2>3 DEF RecordInv, WritesTheRun
  <2> QED
    BY <1>2, <2>1, <2>2, <2>4 DEF RecordInv
<1> QED
  BY <1>1, <1>3, <1>4, <1>5, <1>6 DEF ActGoesOn

LEMMA EndedPlaces ==
    ASSUME TypeInv, NEW g \in Generations, drivers' = Ended(g)
    PROVE  /\ drivers'[g].pc = "done" /\ drivers'[g].job = drivers[g].job
           /\ \A h \in Generations : h # g => drivers'[h] = drivers[h]
BY EndedType

LEMMA RecordDrive ==
    ASSUME IInv, NEW g \in Generations, Drive(g)
    PROVE  RecordInv'
<1>0. RecordInv /\ TypeInv /\ model \in Models /\ model.generation \in Nat
  BY DEF IInv, TypeInv, TypeOK, Models
<1>d. drivers[g] \in Drivers
  BY <1>0 DEF TypeInv, TypeOK
<1>w. MayWrite(drivers[g])
  BY <1>0 DEF RecordInv, WritesOnlyRecording
<1>e. ASSUME drivers' = Ended(g), drivers[g].pc # "none", drivers[g].pc # "clear",
             UNCHANGED <<acting, medium, up, model>>
      PROVE  RecordInv'
  BY <1>0, <1>e, EndedPlaces, DriverAlone DEF MayWrite, HoldsDisk, IsReady, Carrying
<1>p. drivers \in [Generations -> Drivers]
  BY <1>0 DEF TypeInv, TypeOK
<1>1. ASSUME AskAhead(g) PROVE RecordInv'
  <2>1. drivers' = [drivers EXCEPT ![g] = [drivers[g] EXCEPT !.pc = "begin"]]
    BY <1>1 DEF AskAhead, Move
  <2>2. drivers'[g].pc = "begin" /\ drivers'[g].job = drivers[g].job
    BY <1>d, <1>p, <2>1 DEF Drivers
  <2>3. drivers[g].pc = "top" /\ drivers[g].job = "none"
    BY <1>w, <1>1 DEF AskAhead, MayWrite
  <2>4. model'.generation = model.generation /\ model'.steps = model.steps
    BY <1>0, <1>1 DEF AskAhead, Models
  <2>5. UNCHANGED <<acting, medium, up>>
    BY <1>1 DEF AskAhead, outside
  <2> QED
    BY <1>0, <1>p, <2>1, <2>2, <2>3, <2>4, <2>5, SnapOfSteps, DriverAlone
       DEF MayWrite, HoldsDisk, IsReady, Carrying
<1>2. ASSUME DriverBegins(g) PROVE RecordInv'
  <2>1. drivers[g].pc = "begin" /\ drivers[g].job = "none" /\ UNCHANGED <<acting, medium, up>>
    BY <1>w, <1>2 DEF DriverBegins, MayWrite, outside
  <2>2. CASE model.generation # g
    BY <1>e, <1>2, <2>1, <2>2 DEF DriverBegins
  <2>3. CASE model.generation = g /\ NextStep(model) = NoStep
    <3>1. drivers' = [drivers EXCEPT ![g] = [drivers[g] EXCEPT !.pc = "forget"]]
      BY <1>2, <2>3 DEF DriverBegins, Move
    <3>2. drivers'[g].pc = "forget" /\ drivers'[g].job = "none"
      BY <1>d, <1>p, <2>1, <3>1 DEF Drivers
    <3>3. model'.generation = model.generation
      BY <1>0, <1>2, <2>3, FinishType DEF DriverBegins
    <3> QED
      BY <1>0, <1>p, <2>1, <2>3, <3>1, <3>2, <3>3, DriverAlone DEF MayWrite, HoldsDisk, IsReady, Carrying
  <2>4. CASE model.generation = g /\ NextStep(model) # NoStep
    <3>1. drivers' = [drivers EXCEPT ![g] = [drivers[g] EXCEPT !.pc = "recordBegin",
                                                 !.step = NextStep(model), !.job = "queued"]]
      BY <1>2, <2>4 DEF DriverBegins
    <3>2. drivers'[g].pc = "recordBegin" /\ drivers'[g].job = "queued"
      BY <1>d, <1>p, <3>1 DEF Drivers
    <3>3. model'.generation = model.generation
      BY <1>0, <1>2, <2>4, BeginNextType DEF DriverBegins
    <3> QED
      BY <1>0, <1>p, <2>1, <2>4, <3>1, <3>2, <3>3, DriverAlone DEF MayWrite, HoldsDisk, IsReady, Carrying
  <2> QED
    BY <2>2, <2>3, <2>4
<1>3. ASSUME DriverRecorded(g) PROVE RecordInv'
  <2>1. UNCHANGED <<acting, medium, up, model>>
    BY <1>3 DEF DriverRecorded, outside
  <2>2. PICK pc \in {"exec", "fail", "top", "done"} :
           /\ pc = "exec" => drivers[g].pc = "recordBegin" /\ drivers[g].job = "ok"
           /\ drivers' = [drivers EXCEPT ![g] =
                            IF pc = "done" THEN [NoDriver EXCEPT !.pc = "done"]
                            ELSE [drivers[g] EXCEPT !.pc = pc, !.job = "none"]]
    BY <1>3 DEF DriverRecorded
  <2>3. drivers'[g].pc = pc /\ drivers'[g].job = "none"
    <3>1. [NoDriver EXCEPT !.pc = "done"].pc = "done" /\ [NoDriver EXCEPT !.pc = "done"].job = "none"
      BY DEF NoDriver
    <3>2. /\ [drivers[g] EXCEPT !.pc = pc, !.job = "none"].pc = pc
          /\ [drivers[g] EXCEPT !.pc = pc, !.job = "none"].job = "none"
      BY <1>d DEF Drivers
    <3> QED
      BY <1>p, <2>2, <3>1, <3>2
  <2>4. drivers[g].pc \in {"recordBegin", "recordPass", "recordFail"}
    BY <1>3 DEF DriverRecorded
  <2> QED
    BY <1>0, <1>p, <2>1, <2>2, <2>3, <2>4, DriverAlone DEF MayWrite, HoldsDisk, IsReady, Carrying
<1>4. ASSUME NEW m \in Models, m.generation = model.generation,
             NEW pc \in {"recordPass", "recordFail"},
             drivers[g].pc \in {"pass", "fail"}, Settles(g, m, pc)
      PROVE  RecordInv'
  <2>1. UNCHANGED <<acting, medium, up>>
    BY <1>4 DEF Settles, context, outside
  <2>2. CASE model.generation # g
    BY <1>e, <1>4, <2>1, <2>2 DEF Settles
  <2>3. CASE model.generation = g
    <3>1. drivers' = [drivers EXCEPT ![g] = [drivers[g] EXCEPT !.pc = pc, !.job = "queued"]]
      BY <1>4, <2>3 DEF Settles
    <3>2. drivers'[g].pc = pc /\ drivers'[g].job = "queued"
      BY <1>d, <1>p, <3>1 DEF Drivers
    <3>3. model'.generation = model.generation
      BY <1>4, <2>3 DEF Settles
    <3> QED
      BY <1>0, <1>p, <1>4, <2>1, <2>3, <3>1, <3>2, <3>3, DriverAlone
         DEF MayWrite, HoldsDisk, IsReady, Carrying
  <2> QED
    BY <2>2, <2>3
<1>5. ASSUME DriverPasses(g) PROVE RecordInv'
  BY <1>0, <1>4, <1>5, StepStateTypes DEF DriverPasses
<1>6. ASSUME DriverFails(g) PROVE RecordInv'
  BY <1>0, <1>4, <1>6, StepStateTypes DEF DriverFails
<1>7. ASSUME DriverForgets(g) PROVE RecordInv'
  <2>1. /\ drivers[g].pc = "forget" /\ drivers[g].job = "none" /\ DiskFree
        /\ UNCHANGED <<acting, medium, up, model>>
    BY <1>w, <1>7 DEF DriverForgets, MayWrite, outside
  <2>2. CASE model.generation # g
    BY <1>e, <1>7, <2>1, <2>2 DEF DriverForgets
  <2>3. CASE model.generation = g
    <3>1. drivers' = [drivers EXCEPT ![g] = [drivers[g] EXCEPT !.pc = "clear"]]
      BY <1>7, <2>3 DEF DriverForgets, Move
    <3>2. drivers'[g].pc = "clear" /\ drivers'[g].job = "none"
      BY <1>d, <1>p, <2>1, <3>1 DEF Drivers
    <3>3. \A h \in Generations : h # g => drivers'[h] = drivers[h]
      BY <1>p, <3>1
    <3>4. OneOnDisk'
      BY <1>0, <2>1, <3>3, DiskFreeIs DEF RecordInv, OneOnDisk
    <3>5. WritesOnlyRecording' /\ ActsApart'
      BY <1>0, <2>1, <3>2, <3>3 DEF RecordInv, WritesOnlyRecording, ActsApart, MayWrite
    <3>6. FutureBlank' /\ OffIsBlank'
      <4>1. up /\ ~IsBlank(drivers[g])
        BY <1>0, <2>1 DEF RecordInv, OffIsBlank, IsBlank
      <4> QED
        BY <1>0, <2>1, <2>3, <3>3, <4>1, GenerationsAreNat DEF RecordInv, FutureBlank, OffIsBlank
    <3>7. WritesTheRun'
      BY <2>1, <2>3, <3>2 DEF WritesTheRun, IsReady, Carrying
    <3> QED
      BY <3>4, <3>5, <3>6, <3>7 DEF RecordInv
  <2> QED
    BY <2>2, <2>3
<1>8. ASSUME DriverClears(g) PROVE RecordInv'
  <2>1. /\ drivers[g].pc = "clear" /\ drivers[g].job = "none"
        /\ drivers' = Ended(g) /\ UNCHANGED <<acting, up, model>>
    <3>1. drivers[g].pc = "clear" /\ drivers' = Ended(g) /\ UNCHANGED <<acting, up, model>>
      BY <1>8 DEF DriverClears, outside
    <3> QED
      BY <1>w, <3>1 DEF MayWrite
  <2>2. /\ drivers'[g].pc = "done" /\ drivers'[g].job = "none"
        /\ \A h \in Generations : h # g => drivers'[h] = drivers[h]
    BY <1>0, <2>1, EndedPlaces
  <2>3. ~DiskFree
    BY <2>1 DEF DiskFree
  <2>4. WritesTheRun'
    BY <1>0, <2>1, <2>2, <2>3 DEF RecordInv, WritesTheRun, IsReady, Carrying
  <2>5. OneOnDisk'
    BY <1>0, <2>1, <2>2 DEF RecordInv, OneOnDisk, HoldsDisk
  <2>6. up /\ ~IsBlank(drivers[g])
    BY <1>0, <2>1 DEF RecordInv, OffIsBlank, IsBlank
  <2>7. FutureBlank' /\ OffIsBlank'
    BY <1>0, <2>1, <2>2, <2>6, GenerationsAreNat DEF RecordInv, FutureBlank, OffIsBlank
  <2>8. WritesOnlyRecording' /\ ActsApart'
    BY <1>0, <2>1, <2>2 DEF RecordInv, WritesOnlyRecording, ActsApart, MayWrite
  <2> QED
    BY <2>4, <2>5, <2>7, <2>8 DEF RecordInv
<1> QED
  BY <1>1, <1>2, <1>3, <1>5, <1>6, <1>7, <1>8 DEF Drive

LEMMA RecordRecord ==
    ASSUME IInv, NEW g \in Generations, Record(g)
    PROVE  RecordInv'
<1>0. RecordInv /\ TypeInv /\ model \in Models /\ model.generation \in Nat
  BY DEF IInv, TypeInv, TypeOK, Models
<1>d. drivers[g] \in Drivers
  BY <1>0 DEF TypeInv, TypeOK
<1>w. /\ drivers[g].job # "none"
      /\ drivers[g].pc \in {"recordBegin", "recordPass", "recordFail", "done"}
  BY <1>0 DEF Record, RecordReads, RecordSaves, RecordInv, WritesOnlyRecording, MayWrite
<1>p. drivers \in [Generations -> Drivers]
  BY <1>0 DEF TypeInv, TypeOK
<1>u. up /\ ~IsBlank(drivers[g])
  BY <1>0, <1>w DEF RecordInv, OffIsBlank, IsBlank
<1>f. ASSUME UNCHANGED <<acting, up, model>>, drivers'[g].pc = drivers[g].pc,
             \A h \in Generations : h # g => drivers'[h] = drivers[h]
      PROVE  WritesOnlyRecording' /\ FutureBlank' /\ ActsApart' /\ OffIsBlank'
  <2>1. WritesOnlyRecording' /\ ActsApart'
    BY <1>0, <1>f, <1>w DEF RecordInv, WritesOnlyRecording, ActsApart, MayWrite
  <2> QED
    BY <1>0, <1>f, <1>u, <2>1, GenerationsAreNat DEF RecordInv, FutureBlank, OffIsBlank
<1>1. ASSUME RecordReads(g) PROVE RecordInv'
  <2>1. drivers[g].job = "queued" /\ DiskFree /\ UNCHANGED <<acting, medium, up, model>>
    BY <1>1 DEF RecordReads, outside
  <2>2. CASE model.generation = g
    <3>1. drivers' = [drivers EXCEPT ![g] = [drivers[g] EXCEPT !.job = "saving", !.snap = Snap(model)]]
      BY <1>1, <2>2 DEF RecordReads
    <3>2. /\ drivers'[g].pc = drivers[g].pc /\ drivers'[g].job = "saving"
          /\ drivers'[g].snap = Snap(model)
      BY <1>d, <1>p, <3>1 DEF Drivers
    <3>3. \A h \in Generations : h # g => drivers'[h] = drivers[h]
      BY <1>p, <3>1
    <3>4. OneOnDisk'
      BY <1>0, <2>1, <3>3, DiskFreeIs DEF RecordInv, OneOnDisk
    <3>5. WritesTheRun'
      BY <1>w, <2>1, <2>2, <3>2 DEF WritesTheRun, IsReady, Carrying
    <3> QED
      BY <1>f, <2>1, <3>2, <3>3, <3>4, <3>5 DEF RecordInv
  <2>3. CASE model.generation # g
    <3>1. PICK j \in {"none", "ok"} : drivers' = [drivers EXCEPT ![g] = [drivers[g] EXCEPT !.job = j]]
      BY <1>1, <2>3 DEF RecordReads
    <3>2. drivers'[g].pc = drivers[g].pc /\ drivers'[g].job = j
      BY <1>d, <1>p, <3>1 DEF Drivers
    <3> QED
      BY <1>0, <1>p, <1>w, <2>1, <2>3, <3>1, <3>2, DriverAlone DEF MayWrite, HoldsDisk
  <2> QED
    BY <2>2, <2>3
<1>2. ASSUME RecordSaves(g) PROVE RecordInv'
  <2>1. drivers[g].job = "saving" /\ UNCHANGED <<acting, up, model>>
    BY <1>2 DEF RecordSaves, outside
  <2>2. PICK j \in {"ok", "err"} :
          /\ drivers' = [drivers EXCEPT ![g] = [drivers[g] EXCEPT !.job = j, !.snap = NoRun]]
          /\ j = "ok" => medium' = drivers[g].snap
    BY <1>2 DEF RecordSaves
  <2>3. drivers'[g].pc = drivers[g].pc /\ drivers'[g].job = j
    BY <1>d, <1>p, <2>2 DEF Drivers
  <2>4. \A h \in Generations : h # g => drivers'[h] = drivers[h]
    BY <1>p, <2>2
  <2>5. ~HoldsDisk(drivers'[g]) /\ HoldsDisk(drivers[g])
    BY <1>w, <2>1, <2>3 DEF HoldsDisk
  <2>6. OneOnDisk'
    BY <1>0, <2>1, <2>4, <2>5 DEF RecordInv, OneOnDisk
  <2>7. ~DiskFree
    BY <2>5, DiskFreeIs
  <2>8. DiskFree'
    <3>1. \A h \in Generations : ~HoldsDisk(drivers'[h])
      BY <1>0, <2>4, <2>5 DEF RecordInv, OneOnDisk
    <3>2. \A a \in FrontEnds : acting'[a].pc # "clear"
      BY <1>0, <2>1, <2>5 DEF RecordInv, OneOnDisk
    <3> QED
      BY <3>1, <3>2 DEF DiskFree, HoldsDisk
  <2>9. WritesTheRun'
    <3> SUFFICES ASSUME NEW h \in Generations, h = model.generation
                 PROVE  /\ (drivers'[h].pc = "recordBegin" /\ drivers'[h].job = "saving")
                              => drivers'[h].snap = Snap(model)
                        /\ IsReady(drivers'[h]) => medium' = Snap(model)
      BY <2>1, <2>8 DEF WritesTheRun
    <3>1. CASE h = g
      <4>1. IsReady(drivers'[g]) => drivers[g].pc = "recordBegin" /\ j = "ok"
        BY <1>w, <2>3 DEF IsReady, Carrying
      <4>2. drivers[g].pc = "recordBegin" => drivers[g].snap = Snap(model)
        BY <1>0, <2>1, <3>1 DEF RecordInv, WritesTheRun
      <4> QED
        BY <2>2, <2>3, <3>1, <4>1, <4>2
    <3>2. CASE h # g
      BY <1>0, <2>4, <2>7, <3>2 DEF RecordInv, WritesTheRun
    <3> QED
      BY <3>1, <3>2
  <2> QED
    BY <1>f, <2>1, <2>3, <2>4, <2>6, <2>9 DEF RecordInv
<1> QED
  BY <1>1, <1>2 DEF Record

LEMMA RecordCarryOut ==
    ASSUME IInv, NEW g \in Generations, CarryOut(g) \/ \E ok \in BOOLEAN : StepEnds(g, ok)
    PROVE  RecordInv'
<1>0. RecordInv /\ TypeInv /\ model \in Models /\ model.generation \in Nat
  BY DEF IInv, TypeInv, TypeOK, Models
<1>d. drivers \in [Generations -> Drivers] /\ drivers[g] \in Drivers /\ g \in Nat
  BY <1>0, GenerationsAreNat DEF TypeInv, TypeOK
<1>w. drivers[g].pc \in {"exec", "notice"} => drivers[g].job = "none"
  BY <1>0 DEF RecordInv, WritesOnlyRecording, MayWrite
<1>s. drivers[g].pc \in {"exec", "notice"} => drivers[g].step \in Steps
  BY <1>0 DEF TypeInv, StepKnown, Parked
<1>m. ASSUME NEW ACTION m, SameRun(model, m), Mutates(g, m)
      PROVE  model'.generation = model.generation /\ Snap(model') = Snap(model)
  BY <1>m, SnapOfSteps DEF Mutates, SameRun
<1>c. UNCHANGED context => UNCHANGED <<acting, medium, up>>
  BY DEF context, outside
<1>v. ASSUME NEW pc \in {"exec", "need", "notice", "pass", "fail"},
             drivers[g].pc \in {"exec", "notice"},
             drivers'[g].pc = pc, drivers'[g].job = drivers[g].job,
             \A h \in Generations : h # g => drivers'[h] = drivers[h],
             model'.generation = model.generation, Snap(model') = Snap(model),
             UNCHANGED <<acting, medium, up>>
      PROVE  RecordInv'
  BY <1>0, <1>w, <1>v, DriverAlone DEF MayWrite, HoldsDisk, IsReady, Carrying
<1>1. ASSUME NEW k \in AnswerKeys, StepNeeds(g, k) PROVE RecordInv'
  <2>1. drivers[g].pc = "exec" /\ drivers[g].step \in Steps /\ k \in Keys
    BY <1>s, <1>1 DEF StepNeeds, InStep, Keys
  <2>2. SameRun(model, Need(model, drivers[g].step, k, g))
    BY <1>0, <1>d, <2>1, PromptTypes
  <2>3. model'.generation = model.generation /\ Snap(model') = Snap(model)
    BY <1>m, <1>1, <2>2 DEF StepNeeds
  <2>4. drivers' = [drivers EXCEPT ![g] = [drivers[g] EXCEPT !.pc = "need", !.key = k]]
    BY <1>1 DEF StepNeeds
  <2>5. /\ drivers'[g].pc = "need" /\ drivers'[g].job = drivers[g].job
        /\ \A h \in Generations : h # g => drivers'[h] = drivers[h]
    BY <1>d, <2>4 DEF Drivers
  <2> QED
    BY <1>c, <1>v, <1>1, <2>1, <2>3, <2>5 DEF StepNeeds
<1>2. ASSUME NEW k \in AnswerKeys, StepAsksLater(g, k) PROVE RecordInv'
  <2>1. drivers[g].step \in Steps
    BY <1>s, <1>2 DEF StepAsksLater, InStep
  <2>2. SameRun(model, AskLater(model, drivers[g].step, {k}))
    BY <1>0, <2>1, AskLaterType
  <2>3. model'.generation = model.generation /\ Snap(model') = Snap(model)
    BY <1>m, <1>2, <2>2 DEF StepAsksLater
  <2> QED
    BY <1>0, <1>c, <1>2, <2>3, QuietStep DEF StepAsksLater
<1>3. ASSUME NEW k \in AnswerKeys, StepTakesDefault(g, k) PROVE RecordInv'
  <2>1. SameRun(model, CloseKey(model, k))
    BY <1>0, CloseKeyType
  <2>2. model'.generation = model.generation /\ Snap(model') = Snap(model)
    BY <1>m, <1>3, <2>1 DEF StepTakesDefault
  <2> QED
    BY <1>0, <1>c, <1>3, <2>2, QuietStep DEF StepTakesDefault
<1>4. ASSUME NEW k \in AnswerKeys, StepForgets(g, k) PROVE RecordInv'
  <2>1. SameRun(model, Forget(model, k))
    BY <1>0, AnswerTypes
  <2>2. model'.generation = model.generation /\ Snap(model') = Snap(model)
    BY <1>m, <1>4, <2>1 DEF StepForgets
  <2> QED
    BY <1>0, <1>c, <1>4, <2>2, QuietStep DEF StepForgets
<1>5. ASSUME NEW k \in NoticeKeys, StepNotices(g, k) PROVE RecordInv'
  <2>1. drivers[g].pc = "exec" /\ drivers[g].step \in Steps /\ k \in Keys
    BY <1>s, <1>5 DEF StepNotices, InStep, Keys
  <2>2. SameRun(model, Notice(model, drivers[g].step, k))
    BY <1>0, <1>d, <2>1, PromptTypes
  <2>3. model'.generation = model.generation /\ Snap(model') = Snap(model)
    BY <1>m, <1>5, <2>2 DEF StepNotices
  <2>4. drivers' = [drivers EXCEPT ![g] = [drivers[g] EXCEPT !.pc = "notice", !.key = k]]
    BY <1>5 DEF StepNotices
  <2>5. /\ drivers'[g].pc = "notice" /\ drivers'[g].job = drivers[g].job
        /\ \A h \in Generations : h # g => drivers'[h] = drivers[h]
    BY <1>d, <2>4 DEF Drivers
  <2> QED
    BY <1>c, <1>v, <1>5, <2>1, <2>3, <2>5 DEF StepNotices
<1>6. ASSUME NoticeCloses(g) PROVE RecordInv'
  <2>1. SameRun(model, CloseKey(model, drivers[g].key))
    BY <1>0, CloseKeyType
  <2>2. model'.generation = model.generation /\ Snap(model') = Snap(model)
    BY <1>m, <1>6, <2>1 DEF NoticeCloses
  <2>3. drivers' = [drivers EXCEPT ![g] = [drivers[g] EXCEPT !.pc = "exec", !.key = "none"]]
    BY <1>6 DEF NoticeCloses
  <2>4. /\ drivers'[g].pc = "exec" /\ drivers'[g].job = drivers[g].job
        /\ \A h \in Generations : h # g => drivers'[h] = drivers[h]
    BY <1>d, <2>3 DEF Drivers
  <2> QED
    BY <1>c, <1>v, <1>6, <2>2, <2>4 DEF NoticeCloses
<1>7. ASSUME NEW ok \in BOOLEAN, StepEnds(g, ok) PROVE RecordInv'
  <2>1. SameRun(model, Release(model, drivers[g].step))
    BY <1>0, ReleaseType
  <2>2. model'.generation = model.generation /\ Snap(model') = Snap(model)
    BY <1>m, <1>7, <2>1 DEF StepEnds
  <2>3. PICK pc \in {"pass", "fail"} : drivers' = [drivers EXCEPT ![g] = [drivers[g] EXCEPT !.pc = pc]]
    BY <1>7 DEF StepEnds, Move
  <2>4. /\ drivers'[g].pc = pc /\ drivers'[g].job = drivers[g].job
        /\ \A h \in Generations : h # g => drivers'[h] = drivers[h]
    BY <1>d, <2>3 DEF Drivers
  <2>5. UNCHANGED <<acting, medium, up>> /\ drivers[g].pc = "exec"
    BY <1>7 DEF StepEnds, InStep, outside
  <2> QED
    BY <1>v, <2>2, <2>4, <2>5
<1> QED
  BY <1>1, <1>2, <1>3, <1>4, <1>5, <1>6, <1>7 DEF CarryOut

LEMMA RecordDetermine ==
    ASSUME IInv, Determine
    PROVE  RecordInv'
<1>0. RecordInv /\ model \in Models
  BY DEF IInv, TypeInv, TypeOK
<1>1. UNCHANGED <<drivers, acting, medium, up>>
  BY DEF Determine, DetermineBegins, DetermineReads, DetermineApplies, outside
<1>2. model'.generation = model.generation /\ model'.steps = model.steps
  BY <1>0 DEF Determine, DetermineBegins, DetermineReads, DetermineApplies, Models
<1> QED
  BY <1>0, <1>1, <1>2, SnapOfSteps, QuietStep

LEMMA RecordRestart ==
    ASSUME IInv, Restart
    PROVE  RecordInv'
<1>0. RecordInv /\ TypeInv /\ model.generation \in Nat /\ medium \in Stored
  BY DEF IInv, TypeInv, TypeOK, Models
<1>n. ASSUME \A g \in Generations : IsBlank(drivers'[g]),
             \A a \in FrontEnds : acting'[a].pc = "idle" /\ acting'[a].generation = 0,
             model'.generation \in Nat
      PROVE  RecordInv'
  <2>1. \A g \in Generations : ~HoldsDisk(drivers'[g]) /\ ~IsReady(drivers'[g]) /\ MayWrite(drivers'[g])
    BY <1>n DEF IsBlank, HoldsDisk, IsReady, MayWrite, Carrying
  <2>2. \A g \in Generations : drivers'[g].pc # "recordBegin"
    BY <1>n DEF IsBlank
  <2>3. WritesTheRun'
    BY <2>1, <2>2 DEF WritesTheRun
  <2>4. FutureBlank'
    BY <1>n DEF FutureBlank
  <2>5. OffIsBlank' /\ ActsApart'
    BY <1>n DEF OffIsBlank, ActsApart
  <2>6. OneOnDisk' /\ WritesOnlyRecording'
    BY <1>n, <2>1 DEF OneOnDisk, WritesOnlyRecording
  <2> QED
    BY <2>3, <2>4, <2>5, <2>6 DEF RecordInv
<1>b. ASSUME ~up
      PROVE  /\ \A g \in Generations : IsBlank(drivers[g])
             /\ \A a \in FrontEnds : acting[a].pc = "idle" /\ acting[a].generation = 0
  BY <1>0, <1>b DEF RecordInv, OffIsBlank
<1>1. ASSUME Crash PROVE RecordInv'
  <2>1. \A g \in Generations : IsBlank(drivers'[g])
    BY <1>1 DEF Crash, NoDriver, IsBlank
  <2>2. \A a \in FrontEnds : acting'[a].pc = "idle" /\ acting'[a].generation = 0
    BY <1>1 DEF Crash, Idle
  <2>3. model'.generation \in Nat
    BY <1>1, NewType DEF Crash
  <2> QED
    BY <1>n, <2>1, <2>2, <2>3
<1>2. ASSUME ResumeWithout PROVE RecordInv'
  BY <1>0, <1>b, <1>n, <1>2 DEF ResumeWithout
<1>3. ASSUME Resume PROVE RecordInv'
  <2>1. ~up /\ up' /\ UNCHANGED acting
    BY <1>3 DEF Resume
  <2>2. model'.generation \in Nat
    BY <1>0, <1>3, AdoptedType DEF Resume
  <2>3. CASE UNCHANGED drivers
    BY <1>b, <1>n, <2>1, <2>2, <2>3
  <2>4. CASE drivers' = [drivers EXCEPT ![1].pc = "top"] /\ model' = Adopted(medium)
    <3>1. 1 \in Generations /\ model'.generation = 1
      BY <1>0, <2>4, AdoptedType, RunAssumption DEF Generations
    <3>2. drivers[1] \in Drivers /\ IsBlank(drivers[1])
      BY <1>0, <1>b, <2>1, <3>1 DEF TypeInv, TypeOK
    <3>3. drivers'[1] = [drivers[1] EXCEPT !.pc = "top"]
      BY <1>0, <2>4, <3>1 DEF TypeInv, TypeOK
    <3>4. drivers'[1].pc = "top" /\ drivers'[1].job = "none"
      BY <3>2, <3>3 DEF Drivers, IsBlank
    <3>5. \A g \in Generations : g # 1 => IsBlank(drivers'[g])
      BY <1>0, <1>b, <2>1, <2>4 DEF TypeInv, TypeOK
    <3>6. \A g \in Generations : ~HoldsDisk(drivers'[g]) /\ ~IsReady(drivers'[g]) /\ MayWrite(drivers'[g])
      BY <3>4, <3>5 DEF IsBlank, HoldsDisk, IsReady, MayWrite, Carrying
    <3>7. \A g \in Generations : drivers'[g].pc # "recordBegin"
      BY <3>4, <3>5 DEF IsBlank
    <3>8. \A a \in FrontEnds : acting'[a].pc = "idle" /\ acting'[a].generation = 0
      BY <1>b, <2>1
    <3>9. FutureBlank' /\ ActsApart'
      BY <3>1, <3>5, <3>8, GenerationsAreNat DEF FutureBlank, ActsApart
    <3>10. WritesTheRun' /\ OneOnDisk' /\ WritesOnlyRecording' /\ OffIsBlank'
      BY <2>1, <3>6, <3>7, <3>8 DEF WritesTheRun, OneOnDisk, WritesOnlyRecording, OffIsBlank
    <3> QED
      BY <3>9, <3>10 DEF RecordInv
  <2> QED
    BY <1>3, <2>3, <2>4 DEF Resume
<1> QED
  BY <1>1, <1>2, <1>3 DEF Restart

LEMMA RecordStep == IInv /\ [Next]_vars => IInv'
<1> SUFFICES ASSUME IInv, [Next]_vars PROVE IInv'
  OBVIOUS
<1>1. TypeInv'
  BY TypeStep DEF IInv
<1>2. CASE UNCHANGED vars
  BY <1>1, <1>2, QuietStep DEF vars, IInv
<1>3. CASE Next
  BY <1>1, <1>3, RecordActs, RecordActGoesOn, RecordDrive, RecordRecord, RecordCarryOut,
     RecordDetermine, RecordRestart DEF Next, IInv
<1> QED
  BY <1>2, <1>3

\* No step of the held run is carried out before the medium holds that run
\* as it stands, whatever writes of ended runs are still on their way, and
\* however often the medium fails or the device restarts (run.rs, record,
\* forget_run and drive).
THEOREM RecordedFirst == Spec => []RecordedBeforeBegun
<1>1. Init => IInv
  BY TypeInit, RecordInit DEF IInv
<1>2. IInv => RecordedBeforeBegun
  BY DEF IInv, RecordInv, WritesTheRun, RecordedBeforeBegun, IsReady
<1> QED
  BY <1>1, <1>2, RecordStep, PTL DEF Spec
-----------------------------------------------------------------------------
\* The steps that are being carried out, or were and failed.
Begun(m) == InState(m, "running") \cup InState(m, "failed")

\* No step has begun before every chosen step ahead of it had passed.
Ordered(m) ==
    \A s, t \in Steps :
        (s < t /\ m.steps[t] \in {"running", "passed", "failed"}) => m.steps[s] \in {"passed", "unchosen"}

StoredInOrder(r) ==
    /\ r.passed \subseteq r.chosen
    /\ r.failed \notin r.passed
    /\ r.failed \in r.chosen \cup {NoStep}
    /\ \A s, t \in Steps :
          (s < t /\ t \in r.passed \cup {r.failed} /\ s \in r.chosen) => s \in r.passed

\* What is held, written and kept is in order.
OrderKept ==
    /\ Ordered(model)
    /\ StoredInOrder(medium)
    /\ \A g \in Generations : StoredInOrder(drivers[g].snap)

InHand == {"recordBegin", "pass", "fail"} \cup Carrying
Clearing == {"forget", "clear"}
BetweenSteps == {"top", "begin", "recordPass"} \cup Clearing

\* The driver d of the run held, against that run.
OnStep(d) ==
    /\ d.pc \in InHand => /\ d.step \in Steps /\ Begun(model) = {d.step}
                          /\ model.steps[d.step] = "running"
    /\ d.pc \in BetweenSteps => Begun(model) = {}
    /\ d.pc \in Clearing => model.state = "finished"
    /\ d.pc \in (InHand \cup BetweenSteps) \ Clearing => model.state = "running"
    /\ AtRest(model) => d.pc \in {"none", "done"} \cup Clearing /\ d.job = "none"

DriverOnStep == \A g \in Generations : g = model.generation => OnStep(drivers[g])

\* An act under way e, where it is of the run held, against that run.
OfHeld(e) ==
    /\ e.pc = "spawn" => Begun(model) = {} /\ model.state = "running"
    /\ e.pc \in {"abort", "forget", "clear"} => model.state = "idle"

ActsOfHeld ==
    /\ model.state = "failed" => InState(model, "running") = {}
    /\ \A a \in FrontEnds : acting[a].generation = model.generation => OfHeld(acting[a])

\* Where nobody has yet to clear the medium of a run that is over, it is
\* clear, and nothing is about to be written to it.
ToBeCleared ==
    \/ \E a \in FrontEnds : acting[a].pc \in {"abort", "forget", "clear"} /\ acting[a].generation = model.generation
    \/ \E g \in Generations : drivers[g].pc \in Clearing /\ g = model.generation

Cleared == medium = NoRun /\ \A g \in Generations : drivers[g].job # "saving"

OverIsCleared == (up /\ AtRest(model) /\ faults = 0) => Cleared \/ ToBeCleared

\* A run that got past a step is on the medium, but for at most the step
\* that passed last, and what is about to be written is that run.
IsOf(r, chosen, passed) == r.chosen = chosen /\ r.passed = passed

IsNearly(r, chosen, passed) ==
    r.chosen = chosen /\ r.passed \subseteq passed /\ \E s \in Steps : passed \ r.passed \subseteq {s}

UnderWay(state, passed) == state \in {"running", "failed"} /\ passed # {}

PassedIsKept ==
    (up /\ UnderWay(model.state, Passed(model))) =>
        /\ \A g \in Generations : /\ drivers[g].pc # "clear"
                                  /\ drivers[g].job = "saving" => IsOf(drivers[g].snap, Chosen(model), Passed(model))
        /\ \A a \in FrontEnds : acting[a].pc # "clear"
        /\ faults = 0 => IsNearly(medium, Chosen(model), Passed(model))

\* A step about to pass was recorded as it began.
PassingIsRecorded ==
    \A g \in Generations :
        (g = model.generation /\ drivers[g].pc = "pass") => DiskFree /\ medium = Snap(model)

LostIsKept ==
    ~up => /\ model.state = "idle" /\ before.passed \subseteq before.chosen
           /\ (faults = 0 /\ UnderWay(before.state, before.passed)) => IsNearly(medium, before.chosen, before.passed)

OrderInv ==
    OrderKept /\ DriverOnStep /\ ActsOfHeld /\ OverIsCleared /\ PassedIsKept /\ PassingIsRecorded /\ LostIsKept
-----------------------------------------------------------------------------
\* The order of a run depends on the states of its steps alone.
LEMMA OfSteps ==
    ASSUME NEW m, NEW n, n.steps = m.steps
    PROVE  /\ Ordered(n) <=> Ordered(m)
           /\ Begun(n) = Begun(m) /\ Chosen(n) = Chosen(m) /\ Passed(n) = Passed(m) /\ Snap(n) = Snap(m)
           /\ \A st : InState(n, st) = InState(m, st)
BY DEF Ordered, Begun, Chosen, Passed, Snap, InState

\* Steps are numbers, and none is the number of no step.
LEMMA StepsAreNat == Steps \subseteq Nat /\ NoStep \notin Steps
BY StepsAssumption DEF Steps, NoStep

\* Where nothing has begun, or only one step has, nothing else has.
LEMMA NewInOrder ==
    /\ Ordered(New) /\ Begun(New) = {} /\ Passed(New) = {} /\ New.state = "idle"
    /\ InState(New, "running") = {}
BY DEF New, Ordered, Begun, Passed, InState

\* A run that begins has no step begun, so it is in order.
LEMMA BeginRunInOrder ==
    ASSUME NEW m \in Models, NEW chosen \in SUBSET Steps
    PROVE  LET n == BeginRun(m, chosen) IN
           /\ Ordered(n) /\ Begun(n) = {} /\ Passed(n) = {} /\ Chosen(n) = chosen /\ n.state = "running"
           /\ n.steps = [s \in Steps |-> IF s \in chosen THEN "pending" ELSE "unchosen"]
<1> DEFINE n == BeginRun(m, chosen)
<1>1. n.steps = [s \in Steps |-> IF s \in chosen THEN "pending" ELSE "unchosen"] /\ n.state = "running"
  <2>1. ClearRun(m) \in Models
    BY ClearRunType
  <2> QED
    BY <2>1 DEF BeginRun, Models
<1> HIDE DEF n
<1>2. Ordered(n) /\ Begun(n) = {} /\ Passed(n) = {} /\ Chosen(n) = chosen
  BY <1>1 DEF Ordered, Begun, Passed, Chosen, InState
<1> QED
  BY <1>1, <1>2 DEF n

\* A run that was ended has no steps.
LEMMA EndRunInOrder ==
    ASSUME NEW m \in Models
    PROVE  Ordered(EndRun(m)) /\ Begun(EndRun(m)) = {} /\ EndRun(m).state = "idle"
<1>1. EndRun(m).steps = [s \in Steps |-> "unchosen"] /\ EndRun(m).state = "idle"
  BY DEF EndRun, ClearRun, Models
<1> HIDE DEF EndRun
<1> QED
  BY <1>1 DEF Ordered, Begun, InState

\* A retry makes what failed pending again, and nothing had begun after it.
LEMMA RetryInOrder ==
    ASSUME NEW m \in Models, Ordered(m), InState(m, "running") = {}
    PROVE  /\ Ordered(Retry(m)) /\ Begun(Retry(m)) = {} /\ Retry(m).state = "running"
           /\ Chosen(Retry(m)) = Chosen(m) /\ Passed(Retry(m)) = Passed(m)
<1> DEFINE n == Retry(m)
<1>1. n.steps = [s \in Steps |-> IF s \in InState(m, "failed") THEN "pending" ELSE m.steps[s]] /\ n.state = "running"
  BY DEF Retry, Models
<1> HIDE DEF n
<1>2. \A s \in Steps : n.steps[s] = IF m.steps[s] = "failed" THEN "pending" ELSE m.steps[s]
  BY <1>1 DEF InState
<1>3. Begun(n) = {} /\ Chosen(n) = Chosen(m) /\ Passed(n) = Passed(m)
  BY <1>2 DEF Begun, Chosen, Passed, InState
<1>4. Ordered(n)
  BY <1>2 DEF Ordered
<1> QED
  BY <1>1, <1>3, <1>4 DEF n

\* Nothing before the next step is pending (model.rs, next).
LEMMA NextStepLeast ==
    ASSUME NEW m \in Models, NextStep(m) # NoStep
    PROVE  \A t \in InState(m, "pending") : NextStep(m) <= t
<1>1. InState(m, "pending") # {} /\ InState(m, "pending") \subseteq Nat
  BY StepsAreNat DEF NextStep, InState
<1>2. \E s \in InState(m, "pending") : \A t \in InState(m, "pending") : s <= t
  BY <1>1, LeastExists
<1> QED
  BY <1>1, <1>2 DEF NextStep

\* The next step is the first pending one, so beginning it keeps order.
LEMMA BeginNextInOrder ==
    ASSUME NEW m \in Models, Ordered(m), Begun(m) = {}, NextStep(m) # NoStep
    PROVE  LET n == BeginNext(m) IN
           /\ Ordered(n) /\ NextStep(m) \in Steps /\ Begun(n) = {NextStep(m)} /\ n.steps[NextStep(m)] = "running"
           /\ n.state = m.state /\ Chosen(n) = Chosen(m) /\ Passed(n) = Passed(m)
<1> DEFINE n == BeginNext(m)
           k == NextStep(m)
<1>1. k \in Steps /\ m.steps[k] = "pending" /\ \A t \in Steps : m.steps[t] = "pending" => k <= t
  BY NextStepType, NextStepLeast DEF InState
<1>2. n.steps = [m.steps EXCEPT ![k] = "running"] /\ n.state = m.state /\ m.steps \in [Steps -> StepStates]
  BY DEF BeginNext, Models
<1> HIDE DEF n, k
<1>3. \A s \in Steps : n.steps[s] = IF s = k THEN "running" ELSE m.steps[s]
  BY <1>2
<1>4. \A s \in Steps : m.steps[s] \in {"pending", "unchosen", "passed"}
  BY <1>2 DEF Begun, InState, StepStates
<1>5. Begun(n) = {k} /\ Chosen(n) = Chosen(m) /\ Passed(n) = Passed(m)
  BY <1>1, <1>3, <1>4 DEF Begun, Chosen, Passed, InState
<1>6. Ordered(n)
  <2> SUFFICES ASSUME NEW s \in Steps, NEW t \in Steps, s < t, n.steps[t] \in {"running", "passed", "failed"}
               PROVE  n.steps[s] \in {"passed", "unchosen"}
    BY DEF Ordered
  <2>1. CASE t = k
    <3>1. s \in Nat /\ k \in Nat /\ s < k
      BY <1>1, <2>1, StepsAreNat
    <3>2. m.steps[s] # "pending" /\ s # k
      BY <1>1, <3>1
    <3> QED
      BY <1>3, <1>4, <3>2
  <2>2. CASE t # k
    <3>1. m.steps[s] \in {"passed", "unchosen"}
      BY <1>3, <2>2 DEF Ordered
    <3>2. s # k
      BY <1>1, <3>1
    <3> QED
      BY <1>3, <3>1, <3>2
  <2> QED
    BY <2>1, <2>2
<1> QED
  BY <1>1, <1>2, <1>3, <1>5, <1>6 DEF n, k

\* The one step that has begun passes, or fails.
LEMMA SettlesInOrder ==
    ASSUME NEW m \in Models, Ordered(m), NEW s \in Steps, Begun(m) = {s}, m.steps[s] = "running"
    PROVE  /\ Ordered(Pass(m, s)) /\ Begun(Pass(m, s)) = {} /\ Pass(m, s).state = m.state
           /\ Chosen(Pass(m, s)) = Chosen(m) /\ Passed(Pass(m, s)) = Passed(m) \cup {s}
           /\ Ordered(Fail(m, s)) /\ InState(Fail(m, s), "running") = {} /\ Fail(m, s).state = "failed"
           /\ Chosen(Fail(m, s)) = Chosen(m) /\ Passed(Fail(m, s)) = Passed(m)
<1> DEFINE p == Pass(m, s)
           f == Fail(m, s)
<1>1. /\ p.steps = [m.steps EXCEPT ![s] = "passed"] /\ p.state = m.state
      /\ f.steps = [m.steps EXCEPT ![s] = "failed"] /\ f.state = "failed"
      /\ m.steps \in [Steps -> StepStates]
  BY DEF Pass, Fail, Models
<1> HIDE DEF p, f
<1>2. \A t \in Steps : /\ p.steps[t] = IF t = s THEN "passed" ELSE m.steps[t]
                       /\ f.steps[t] = IF t = s THEN "failed" ELSE m.steps[t]
                       /\ t # s => m.steps[t] \notin {"running", "failed"}
  BY <1>1 DEF Begun, InState
<1>3. Begun(p) = {} /\ Chosen(p) = Chosen(m) /\ Passed(p) = Passed(m) \cup {s}
  BY <1>2 DEF Begun, Chosen, Passed, InState
<1>4. InState(f, "running") = {} /\ Chosen(f) = Chosen(m) /\ Passed(f) = Passed(m)
  BY <1>2 DEF Begun, Chosen, Passed, InState
<1>5. Ordered(p) /\ Ordered(f)
  BY <1>2 DEF Ordered
<1> QED
  BY <1>1, <1>3, <1>4, <1>5 DEF p, f

\* What is kept of a run in order is in order, and is that run.
LEMMA SnapInOrder ==
    ASSUME NEW m \in Models, Ordered(m)
    PROVE  StoredInOrder(Snap(m)) /\ IsOf(Snap(m), Chosen(m), Passed(m))
<1> DEFINE F == InState(m, "failed")
           f == Snap(m).failed
<1>1. Snap(m).chosen = Chosen(m) /\ Snap(m).passed = Passed(m)
  BY DEF Snap
<1>2. f = NoStep \/ f \in F
  <2>1. CASE F = {}
    BY <2>1 DEF Snap
  <2>2. CASE F # {}
    <3>1. \E s \in F : \A t \in F : s <= t
      BY <2>2, LeastExists, StepsAreNat DEF InState
    <3> QED
      BY <2>2, <3>1 DEF Snap
  <2> QED
    BY <2>1, <2>2
<1> HIDE DEF f
<1>3. f \notin Passed(m) /\ f \in Chosen(m) \cup {NoStep} /\ Passed(m) \subseteq Chosen(m)
  BY <1>2, StepsAreNat DEF Passed, Chosen, InState
<1>4. ASSUME NEW s \in Steps, NEW t \in Steps, s < t, t \in Passed(m) \cup {f}, s \in Chosen(m)
      PROVE  s \in Passed(m)
  <2>1. m.steps[t] \in {"passed", "failed"}
    BY <1>2, <1>4, StepsAreNat DEF Passed, InState
  <2>2. m.steps[s] \in {"passed", "unchosen"}
    BY <1>4, <2>1 DEF Ordered
  <2> QED
    BY <1>4, <2>2 DEF Chosen, Passed, InState
<1> QED
  BY <1>1, <1>3, <1>4 DEF StoredInOrder, IsOf, f

\* The run adopted is the one kept (run.rs, adopt).
LEMMA AdoptedInOrder ==
    ASSUME NEW r \in Stored, StoredInOrder(r)
    PROVE  LET n == Adopted(r) IN
           /\ Ordered(n) /\ InState(n, "running") = {} /\ Passed(n) = r.passed
           /\ Chosen(n) = r.chosen
           /\ n.state = IF r.failed = NoStep THEN "running" ELSE "failed"
           /\ r.failed = NoStep => Begun(n) = {}
<1> DEFINE n == Adopted(r)
           b == BeginRun(New, r.chosen)
<1>1. b.steps = [s \in Steps |-> IF s \in r.chosen THEN "pending" ELSE "unchosen"] /\ b \in Models
  BY NewType, BeginRunInOrder, BeginRunType DEF Stored
<1>2. /\ n.steps = [t \in Steps |-> IF t = r.failed THEN "failed" ELSE IF t \in r.passed THEN "passed" ELSE b.steps[t]]
      /\ n.state = IF r.failed = NoStep THEN "running" ELSE "failed"
  BY <1>1 DEF Adopted, Models
<1> HIDE DEF n, b
<1>3. \A t \in Steps : n.steps[t] = IF t = r.failed THEN "failed" ELSE IF t \in r.passed THEN "passed"
                                    ELSE IF t \in r.chosen THEN "pending" ELSE "unchosen"
  BY <1>1, <1>2
<1>4. InState(n, "running") = {} /\ Passed(n) = r.passed /\ Chosen(n) = r.chosen
  <2>1. r.passed \subseteq Steps /\ r.chosen \subseteq Steps /\ r.passed \subseteq r.chosen /\ r.failed \notin r.passed
    BY DEF Stored, StoredInOrder
  <2>2. \A t \in Steps : t = r.failed => t \in r.chosen
    BY StepsAreNat DEF StoredInOrder
  <2>3. InState(n, "running") = {}
    BY <1>3 DEF InState
  <2>4. Passed(n) = r.passed
    BY <1>3, <2>1 DEF InState, Passed
  <2>5. Chosen(n) = r.chosen
    BY <1>3, <2>1, <2>2 DEF InState, Chosen
  <2> QED
    BY <2>3, <2>4, <2>5
<1>5. r.failed = NoStep => Begun(n) = {}
  BY <1>3, StepsAreNat DEF InState, Begun
<1>6. Ordered(n)
  <2> SUFFICES ASSUME NEW s \in Steps, NEW t \in Steps, s < t, n.steps[t] \in {"running", "passed", "failed"}
               PROVE  n.steps[s] \in {"passed", "unchosen"}
    BY DEF Ordered
  <2>1. t \in r.passed \cup {r.failed}
    BY <1>3
  <2>2. CASE s \in r.chosen
    <3>1. s \in r.passed /\ s # r.failed
      BY <2>1, <2>2 DEF StoredInOrder
    <3> QED
      BY <1>3, <3>1
  <2>3. CASE s \notin r.chosen
    <3>1. s \notin r.passed /\ s # r.failed
      BY <2>3, StepsAreNat DEF StoredInOrder
    <3> QED
      BY <1>3, <2>3, <3>1
  <2> QED
    BY <2>2, <2>3
<1> QED
  BY <1>2, <1>4, <1>5, <1>6 DEF n
-----------------------------------------------------------------------------
\* Steps that leave the run held as it is, but for its prompts and what is
\* known of the board.
SameHeld ==
    model'.steps = model.steps /\ model'.state = model.state /\ model'.generation = model.generation

\* A driver goes on, or ends, no nearer to the medium.
DriverGoesOn(g) ==
    /\ drivers'[g].snap \in {drivers[g].snap, NoRun}
    /\ drivers'[g].pc = "clear" => drivers[g].pc = "clear" \/ model.state = "finished"
    /\ drivers'[g].job = "saving" => drivers[g].job = "saving" /\ drivers'[g].snap = drivers[g].snap
    /\ g = model.generation =>
          /\ OnStep(drivers'[g])
          /\ drivers[g].pc \in Clearing => drivers'[g].pc \in Clearing
          /\ drivers'[g].pc = "pass" => drivers[g].pc \in Carrying \cup {"pass"}

\* An act goes on, and clears the medium only of a run that is over.
GoesOn(a) ==
    /\ acting'[a].pc = "clear" => acting[a].pc = "clear" \/ model.state = "idle"
    /\ acting'[a].generation = model.generation => OfHeld(acting'[a])
    /\ (acting[a].pc \in {"abort", "forget", "clear"} /\ acting[a].generation = model.generation) =>
          acting'[a].pc \in {"abort", "forget", "clear"} /\ acting'[a].generation = model.generation

\* A driver or an act left as it is goes on.
LEMMA Unmoved ==
    ASSUME OrderInv
    PROVE  /\ \A g \in Generations : drivers'[g] = drivers[g] => DriverGoesOn(g)
           /\ \A a \in FrontEnds : acting'[a] = acting[a] => GoesOn(a)
<1>1. ASSUME NEW g \in Generations, drivers'[g] = drivers[g] PROVE DriverGoesOn(g)
  <2>1. g = model.generation => OnStep(drivers'[g])
    BY <1>1 DEF OrderInv, DriverOnStep
  <2> QED
    BY <1>1, <2>1 DEF DriverGoesOn
<1>2. ASSUME NEW a \in FrontEnds, acting'[a] = acting[a] PROVE GoesOn(a)
  <2>1. acting'[a].generation = model.generation => OfHeld(acting'[a])
    BY <1>2 DEF OrderInv, ActsOfHeld
  <2> QED
    BY <1>2, <2>1 DEF GoesOn
<1> QED
  BY <1>1, <1>2

\* A run held as it was, with its drivers and acts going on, keeps the
\* invariant.
LEMMA HeldRunKeeps ==
    ASSUME IInv, OrderInv, SameHeld, UNCHANGED <<medium, up, before, faults>>,
           \A g \in Generations : DriverGoesOn(g),
           \A a \in FrontEnds : GoesOn(a)
    PROVE  OrderInv'
<1>1. /\ Ordered(model') <=> Ordered(model)
      /\ Begun(model') = Begun(model) /\ Chosen(model') = Chosen(model) /\ Passed(model') = Passed(model)
      /\ Snap(model') = Snap(model) /\ InState(model', "running") = InState(model, "running")
  BY OfSteps DEF SameHeld
<1>2. AtRest(model') <=> AtRest(model)
  BY DEF SameHeld, AtRest
<1>3. OrderKept'
  <2>1. StoredInOrder(NoRun)
    BY StepsAreNat DEF StoredInOrder, NoRun
  <2>2. \A g \in Generations : StoredInOrder(drivers'[g].snap)
    BY <2>1 DEF OrderInv, OrderKept, DriverGoesOn
  <2> QED
    BY <1>1, <2>2 DEF OrderInv, OrderKept
<1>4. \A d : OnStep(d) => /\ d.pc \in InHand => d.step \in Steps /\ Begun(model') = {d.step} /\ model'.steps[d.step] = "running"
                          /\ d.pc \in BetweenSteps => Begun(model') = {}
                          /\ d.pc \in Clearing => model'.state = "finished"
                          /\ d.pc \in (InHand \cup BetweenSteps) \ Clearing => model'.state = "running"
                          /\ AtRest(model') => d.pc \in {"none", "done"} \cup Clearing /\ d.job = "none"
  BY <1>1, <1>2 DEF OnStep, SameHeld
<1>5. DriverOnStep'
  <2> SUFFICES ASSUME NEW g \in Generations, g = model'.generation PROVE OnStep(drivers[g])'
    BY DEF DriverOnStep
  <2>1. OnStep(drivers'[g])
    BY DEF DriverGoesOn, SameHeld
  <2> QED
    BY <1>4, <2>1 DEF OnStep
<1>6. ActsOfHeld'
  <2> SUFFICES ASSUME NEW a \in FrontEnds, acting'[a].generation = model'.generation PROVE OfHeld(acting[a])'
    BY <1>1 DEF ActsOfHeld, OrderInv, SameHeld
  <2>1. OfHeld(acting'[a])
    BY DEF GoesOn, SameHeld
  <2> QED
    BY <1>1, <2>1 DEF OfHeld, SameHeld
<1>7. OverIsCleared'
  <2> SUFFICES ASSUME up', AtRest(model'), faults' = 0 PROVE Cleared' \/ ToBeCleared'
    BY DEF OverIsCleared
  <2>1. Cleared \/ ToBeCleared
    BY <1>2 DEF OrderInv, OverIsCleared
  <2>2. Cleared => Cleared'
    BY DEF Cleared, DriverGoesOn
  <2>3. ToBeCleared => ToBeCleared'
    BY DEF ToBeCleared, DriverGoesOn, GoesOn, SameHeld
  <2> QED
    BY <2>1, <2>2, <2>3
<1>8. PassedIsKept'
  <2> SUFFICES ASSUME up', UnderWay(model'.state, Passed(model'))
               PROVE  /\ \A g \in Generations : /\ drivers'[g].pc # "clear"
                                                /\ drivers'[g].job = "saving" => IsOf(drivers'[g].snap, Chosen(model'), Passed(model'))
                      /\ \A a \in FrontEnds : acting'[a].pc # "clear"
                      /\ faults' = 0 => IsNearly(medium', Chosen(model'), Passed(model'))
    BY DEF PassedIsKept
  <2>1. up /\ UnderWay(model.state, Passed(model)) /\ model.state \notin {"idle", "finished"}
    BY <1>1 DEF SameHeld, UnderWay
  <2>2. /\ \A g \in Generations : /\ drivers[g].pc # "clear"
                                  /\ drivers[g].job = "saving" => IsOf(drivers[g].snap, Chosen(model), Passed(model))
        /\ \A a \in FrontEnds : acting[a].pc # "clear"
        /\ faults = 0 => IsNearly(medium, Chosen(model), Passed(model))
    BY <2>1 DEF OrderInv, PassedIsKept
  <2>3. \A g \in Generations : drivers'[g].pc # "clear" /\ (drivers'[g].job = "saving" => drivers[g].job = "saving" /\ drivers'[g].snap = drivers[g].snap)
    BY <2>1, <2>2 DEF DriverGoesOn
  <2>4. \A a \in FrontEnds : acting'[a].pc # "clear"
    BY <2>1, <2>2 DEF GoesOn
  <2> QED
    BY <1>1, <2>2, <2>3, <2>4
<1>9. PassingIsRecorded'
  <2> SUFFICES ASSUME NEW g \in Generations, g = model'.generation, drivers'[g].pc = "pass" PROVE DiskFree' /\ medium' = Snap(model')
    BY DEF PassingIsRecorded
  <2>1. g = model.generation /\ drivers[g].pc \in Carrying \cup {"pass"} /\ OnStep(drivers'[g])
    BY DEF SameHeld, DriverGoesOn
  <2>2. DiskFree /\ medium = Snap(model)
    BY <2>1 DEF IInv, RecordInv, WritesTheRun, IsReady, OrderInv, PassingIsRecorded
  <2>3. model.state \notin {"idle", "finished"}
    BY <2>1 DEF OnStep, AtRest, Clearing
  <2>4. \A h \in Generations : drivers'[h].job # "saving" /\ drivers'[h].pc # "clear"
    BY <2>2, <2>3 DEF DiskFree, DriverGoesOn
  <2>5. \A a \in FrontEnds : acting'[a].pc # "clear"
    BY <2>2, <2>3 DEF DiskFree, GoesOn
  <2> QED
    BY <1>1, <2>2, <2>4, <2>5 DEF DiskFree
<1>10. LostIsKept'
  BY DEF OrderInv, LostIsKept, SameHeld
<1> QED
  BY <1>3, <1>5, <1>6, <1>7, <1>8, <1>9, <1>10 DEF OrderInv
-----------------------------------------------------------------------------
\* At the start there is no run, and none on the medium.
LEMMA OrderInit == Init => OrderInv
<1> SUFFICES ASSUME Init PROVE OrderInv
  OBVIOUS
<1>1. /\ model = New /\ medium = NoRun /\ up /\ before = NothingLost
      /\ drivers = [g \in Generations |-> NoDriver] /\ acting = [a \in FrontEnds |-> Idle]
  BY DEF Init
<1>2. model.generation = 0 /\ model.state = "idle" /\ Ordered(model) /\ Begun(model) = {} /\ InState(model, "running") = {}
  BY <1>1, NewType, NewInOrder
<1>3. StoredInOrder(NoRun)
  BY StepsAreNat DEF StoredInOrder, NoRun
<1>4. OrderKept
  BY <1>1, <1>2, <1>3 DEF OrderKept, NoDriver
<1>5. DriverOnStep /\ PassingIsRecorded
  BY <1>1, <1>2, GenerationsAreNat DEF DriverOnStep, PassingIsRecorded
<1>6. ActsOfHeld
  BY <1>1, <1>2 DEF ActsOfHeld, OfHeld, Idle
<1>7. OverIsCleared
  BY <1>1 DEF OverIsCleared, Cleared, NoDriver
<1>8. PassedIsKept /\ LostIsKept
  BY <1>1, <1>2 DEF PassedIsKept, LostIsKept, UnderWay
<1> QED
  BY <1>4, <1>5, <1>6, <1>7, <1>8 DEF OrderInv

\* An act that begins a generation: of a run all of whose steps are yet to
\* begin, of a failed one that goes on, or of none.
LEMMA OrderNewGeneration ==
    ASSUME IInv, OrderInv, NEW a \in FrontEnds, NEW pc \in {"spawn", "abort"}, up,
           model.generation < MaxGeneration,
           model'.generation = model.generation + 1,
           acting' = [acting EXCEPT ![a] = [pc |-> pc, generation |-> model'.generation]],
           UNCHANGED <<drivers, medium, up, before, faults>>,
           Ordered(model'), Begun(model') = {},
           pc = "spawn" => model'.state = "running",
           pc = "abort" => model'.state = "idle",
           \/ ~UnderWay(model'.state, Passed(model'))
           \/ UnderWay(model.state, Passed(model)) /\ Chosen(model') = Chosen(model) /\ Passed(model') = Passed(model)
    PROVE  OrderInv'
<1>1. model.generation \in Nat /\ model'.generation \in Generations
  BY RunAssumption DEF IInv, TypeInv, TypeOK, Models, Generations
<1>2. IsBlank(drivers[model'.generation])
  BY <1>1, GenerationsAreNat DEF IInv, RecordInv, FutureBlank
<1>3. /\ acting'[a] = [pc |-> pc, generation |-> model'.generation]
      /\ \A b \in FrontEnds : b # a => acting'[b] = acting[b]
  BY DEF IInv, TypeInv, TypeOK
<1>4. \A b \in FrontEnds : b # a => acting'[b].generation # model'.generation
  <2>1. \A b \in FrontEnds : acting[b].generation \in Nat /\ acting[b].generation <= model.generation
    BY RunAssumption DEF IInv, RecordInv, FutureBlank, TypeInv, TypeOK
  <2> QED
    BY <1>1, <1>3, <2>1
<1>5. model'.state \in {"running", "idle"}
  OBVIOUS
<1>6. OrderKept'
  BY DEF OrderInv, OrderKept
<1>7. DriverOnStep' /\ PassingIsRecorded'
  <2>1. drivers'[model'.generation].pc = "none" /\ drivers'[model'.generation].job = "none"
    BY <1>2 DEF IsBlank
  <2> QED
    BY <2>1 DEF DriverOnStep, OnStep, PassingIsRecorded, InHand, Carrying, BetweenSteps, Clearing
<1>8. ActsOfHeld'
  <2>1. OfHeld(acting[a])'
    BY <1>3 DEF OfHeld
  <2> QED
    BY <1>4, <1>5, <2>1 DEF ActsOfHeld
<1>9. OverIsCleared'
  <2>1. CASE pc = "spawn"
    BY <2>1 DEF OverIsCleared, AtRest
  <2>2. CASE pc = "abort"
    BY <1>3, <2>2 DEF OverIsCleared, ToBeCleared
  <2> QED
    BY <2>1, <2>2
<1>10. PassedIsKept'
  BY <1>3 DEF PassedIsKept, OrderInv
<1>11. LostIsKept'
  BY DEF LostIsKept
<1> QED
  BY <1>6, <1>7, <1>8, <1>9, <1>10, <1>11 DEF OrderInv

\* What the front ends ask for.
LEMMA OrderActs ==
    ASSUME IInv, OrderInv, NEW a \in FrontEnds, Act(a)
    PROVE  OrderInv'
<1>0. model \in Models /\ Ordered(model)
  BY DEF IInv, TypeInv, TypeOK, OrderInv, OrderKept
<1>1. CASE \E chosen \in SUBSET Steps : ActStart(a, chosen)
  <2>1. PICK chosen \in SUBSET Steps : ActStart(a, chosen)
    BY <1>1
  <2>2. /\ up /\ model.generation < MaxGeneration /\ model' = BeginRun(model, chosen)
        /\ acting' = [acting EXCEPT ![a] = [pc |-> "spawn", generation |-> model'.generation]]
        /\ UNCHANGED <<drivers, medium, up, before, faults>>
    BY <2>1 DEF ActStart, Begins, outside
  <2>3. /\ Ordered(model') /\ Begun(model') = {} /\ Passed(model') = {} /\ model'.state = "running"
        /\ model'.generation = model.generation + 1
    BY <1>0, <2>2, BeginRunInOrder, BeginRunType
  <2> QED
    BY <2>2, <2>3, OrderNewGeneration DEF UnderWay
<1>2. CASE ActRetry(a)
  <2>1. /\ up /\ model.generation < MaxGeneration /\ model' = Retry(model)
        /\ acting' = [acting EXCEPT ![a] = [pc |-> "spawn", generation |-> model'.generation]]
        /\ UNCHANGED <<drivers, medium, up, before, faults>>
    BY <1>2 DEF ActRetry, Begins, outside
  <2>2. model.state = "failed"
    BY <1>2 DEF ActRetry, RunState
  <2>3. InState(model, "running") = {}
    BY <2>2 DEF OrderInv, ActsOfHeld
  <2>4. /\ Ordered(model') /\ Begun(model') = {} /\ Chosen(model') = Chosen(model) /\ Passed(model') = Passed(model)
        /\ model'.state = "running" /\ model'.generation = model.generation + 1
    BY <1>0, <2>1, <2>3, RetryInOrder, RetryType
  <2> QED
    BY <2>1, <2>2, <2>4, OrderNewGeneration DEF UnderWay
<1>3. CASE ActEnd(a)
  <2>1. /\ up /\ model.generation < MaxGeneration /\ model' = EndRun(model)
        /\ acting' = [acting EXCEPT ![a] = [pc |-> "abort", generation |-> model'.generation]]
        /\ UNCHANGED <<drivers, medium, up, before, faults>>
    BY <1>3 DEF ActEnd, outside
  <2>2. Ordered(model') /\ Begun(model') = {} /\ model'.state = "idle" /\ model'.generation = model.generation + 1
    BY <1>0, <2>1, EndRunInOrder, EndRunType
  <2> QED
    BY <2>1, <2>2, OrderNewGeneration DEF UnderWay
<1>4. CASE Attach(a)
  <2>1. SameHeld /\ UNCHANGED <<drivers, acting, medium, up, before, faults>>
    BY <1>4 DEF Attach, SameHeld
  <2> QED
    BY <2>1, HeldRunKeeps, Unmoved
<1>5. CASE \E p \in model.prompts : ActAnswer(a, p)
  <2>1. PICK p \in model.prompts : ActAnswer(a, p)
    BY <1>5
  <2>2. /\ p.key \in AnswerKeys /\ model' = AnswerPrompt(model, p) /\ ~AtRest(model)
        /\ UNCHANGED <<acting, medium, up, before, faults>>
    BY <2>1 DEF ActAnswer, outside, RunState, AtRest
  <2>3. SameHeld
    BY <1>0, <2>2, AnswerTypes DEF SameRun, SameHeld
  <2>4. ASSUME NEW g \in Generations PROVE DriverGoesOn(g)
    <3>1. drivers[g] \in Drivers
      BY DEF IInv, TypeInv, TypeOK
    <3>2. CASE drivers'[g] = drivers[g]
      BY <3>2, Unmoved
    <3>3. CASE drivers'[g] # drivers[g]
      <4>1. drivers[g].pc = "need" /\ drivers'[g] = [drivers[g] EXCEPT !.pc = "exec", !.key = "none"]
        BY <2>1, <3>3 DEF ActAnswer
      <4>2. /\ drivers'[g].pc = "exec" /\ drivers'[g].step = drivers[g].step
            /\ drivers'[g].snap = drivers[g].snap /\ drivers'[g].job = drivers[g].job
        BY <3>1, <4>1 DEF Drivers
      <4>3. g = model.generation => OnStep(drivers'[g])
        BY <2>2, <4>1, <4>2 DEF OrderInv, DriverOnStep, OnStep, InHand, Carrying, BetweenSteps, Clearing
      <4> QED
        BY <4>1, <4>2, <4>3 DEF DriverGoesOn, Clearing
    <3> QED
      BY <3>2, <3>3
  <2> QED
    BY <2>2, <2>3, <2>4, HeldRunKeeps, Unmoved
<1> QED
  BY <1>1, <1>2, <1>3, <1>4, <1>5 DEF Act
-----------------------------------------------------------------------------
\* A driver that ends keeps only its write.
LEMMA EndedIs ==
    ASSUME IInv, OrderInv, NEW g \in Generations, drivers' = Ended(g),
           g = model.generation => drivers[g].pc \notin Clearing
    PROVE  \A h \in Generations : DriverGoesOn(h)
<1>1. /\ drivers[g] \in Drivers
      /\ drivers' = [drivers EXCEPT ![g] = [NoDriver EXCEPT !.pc = "done", !.job = drivers[g].job, !.snap = drivers[g].snap]]
  BY DEF Ended, IInv, TypeInv, TypeOK
<1>2. /\ drivers'[g].pc = "done" /\ drivers'[g].job = drivers[g].job /\ drivers'[g].snap = drivers[g].snap
      /\ \A h \in Generations : h # g => drivers'[h] = drivers[h]
  BY <1>1 DEF NoDriver, IInv, TypeInv, TypeOK
<1>3. g = model.generation => OnStep(drivers'[g])
  BY <1>2 DEF OrderInv, DriverOnStep, OnStep, InHand, Carrying, BetweenSteps, Clearing
<1>4. DriverGoesOn(g)
  BY <1>2, <1>3 DEF DriverGoesOn
<1> QED
  BY <1>2, <1>4, Unmoved

\* A driver elsewhere than it was, with the write and the step it had.
LEMMA MovedIs ==
    ASSUME IInv, OrderInv, NEW g \in Generations, NEW d, drivers' = [drivers EXCEPT ![g] = d],
           d.snap = drivers[g].snap,
           d.job = "saving" => drivers[g].job = "saving",
           d.pc = "clear" => drivers[g].pc = "clear" \/ model.state = "finished",
           g = model.generation =>
              /\ OnStep(d)
              /\ drivers[g].pc \in Clearing => d.pc \in Clearing
              /\ d.pc = "pass" => drivers[g].pc \in Carrying \cup {"pass"}
    PROVE  \A h \in Generations : DriverGoesOn(h)
<1>1. drivers'[g] = d /\ \A h \in Generations : h # g => drivers'[h] = drivers[h]
  BY DEF IInv, TypeInv, TypeOK
<1>2. DriverGoesOn(g)
  BY <1>1 DEF DriverGoesOn
<1> QED
  BY <1>1, <1>2, Unmoved

\* What an act does once the lock is dropped.
LEMMA OrderActGoesOn ==
    ASSUME IInv, OrderInv, NEW a \in FrontEnds, ActGoesOn(a)
    PROVE  OrderInv'
<1>0. /\ acting[a] \in [pc : ActingPcs, generation : 0..MaxGeneration]
      /\ drivers \in [Generations -> Drivers] /\ acting \in [FrontEnds -> [pc : ActingPcs, generation : 0..MaxGeneration]]
  BY DEF IInv, TypeInv, TypeOK
<1>f. acting[a].pc # "idle" => acting[a].generation \in Generations
  BY DEF IInv, RecordInv, FutureBlank
<1>a. ASSUME NEW e, acting' = [acting EXCEPT ![a] = e],
             e.pc = "clear" => acting[a].pc = "clear" \/ model.state = "idle",
             e.generation = model.generation => OfHeld(e),
             (acting[a].pc \in {"abort", "forget", "clear"} /\ acting[a].generation = model.generation) =>
                e.pc \in {"abort", "forget", "clear"} /\ e.generation = model.generation
      PROVE  \A b \in FrontEnds : GoesOn(b)
  <2>1. acting'[a] = e /\ \A b \in FrontEnds : b # a => acting'[b] = acting[b]
    BY <1>0, <1>a
  <2>2. GoesOn(a)
    BY <1>a, <2>1 DEF GoesOn
  <2> QED
    BY <2>1, <2>2, Unmoved
<1>h. acting[a].generation = model.generation => OfHeld(acting[a])
  BY DEF OrderInv, ActsOfHeld
<1>1. CASE DriveSoon(a)
  <2> DEFINE g == acting[a].generation
             e == [acting[a] EXCEPT !.pc = "store"]
             d == [drivers[g] EXCEPT !.pc = "top"]
  <2>1. /\ acting[a].pc = "spawn" /\ g \in Generations /\ IsBlank(drivers[g])
        /\ drivers' = [drivers EXCEPT ![g] = d] /\ acting' = [acting EXCEPT ![a] = e]
        /\ SameHeld /\ UNCHANGED <<medium, up, before, faults>>
    BY <1>1 DEF DriveSoon, ActingMoves, SameHeld, outside, IInv, RecordInv, FutureBlank
  <2>2. /\ e.pc = "store" /\ e.generation = g
        /\ d.pc = "top" /\ d.job = drivers[g].job /\ d.snap = drivers[g].snap /\ d.job = "none"
    BY <1>0, <2>1 DEF Drivers, IsBlank
  <2>3. g = model.generation => Begun(model) = {} /\ model.state = "running"
    BY <1>h, <2>1 DEF OfHeld
  <2> HIDE DEF d, e, g
  <2>4. g = model.generation => OnStep(d)
    BY <2>2, <2>3 DEF OnStep, InHand, Carrying, BetweenSteps, Clearing, AtRest
  <2>5. \A h \in Generations : DriverGoesOn(h)
    BY <2>1, <2>2, <2>4, MovedIs DEF IsBlank, Clearing
  <2>6. \A b \in FrontEnds : GoesOn(b)
    BY <1>a, <2>1, <2>2 DEF OfHeld
  <2> QED
    BY <2>1, <2>5, <2>6, HeldRunKeeps
<1>2. CASE KeepTask(a)
  <2>1. /\ acting[a].pc = "store" /\ acting' = [acting EXCEPT ![a] = Idle]
        /\ SameHeld /\ UNCHANGED <<drivers, medium, up, before, faults>>
    BY <1>2 DEF KeepTask, SameHeld, outside
  <2>2. \A b \in FrontEnds : GoesOn(b)
    BY <1>a, <2>1 DEF OfHeld, Idle
  <2> QED
    BY <2>1, <2>2, HeldRunKeeps, Unmoved
<1>3. CASE AbortTask(a)
  <2> DEFINE e == [acting[a] EXCEPT !.pc = "forget"]
  <2>1. /\ acting[a].pc = "abort" /\ acting' = [acting EXCEPT ![a] = e]
        /\ SameHeld /\ UNCHANGED <<medium, up, before, faults>>
        /\ drivers' = IF task = 0 THEN drivers
                      ELSE IF drivers[task].pc \in Parked THEN Ended(task)
                      ELSE [drivers EXCEPT ![task].aborted = TRUE]
    BY <1>3 DEF AbortTask, ActingMoves, SameHeld, outside
  <2>2. e.pc = "forget" /\ e.generation = acting[a].generation
    BY <1>0
  <2> HIDE DEF e
  <2>3. \A b \in FrontEnds : GoesOn(b)
    BY <1>a, <1>h, <2>1, <2>2 DEF OfHeld
  <2>4. \A h \in Generations : DriverGoesOn(h)
    <3>1. CASE task = 0
      BY <2>1, <3>1, Unmoved
    <3>2. CASE task # 0 /\ drivers[task].pc \in Parked
      <4>1. task \in Generations /\ drivers' = Ended(task)
        BY <2>1, <3>2, RunAssumption DEF IInv, TypeInv, TypeOK, Generations
      <4> QED
        BY <3>2, <4>1, EndedIs DEF Parked, Clearing
    <3>3. CASE task # 0 /\ drivers[task].pc \notin Parked
      <4> DEFINE d == [drivers[task] EXCEPT !.aborted = TRUE]
      <4>1. task \in Generations /\ drivers' = [drivers EXCEPT ![task] = d]
        BY <2>1, <3>3, RunAssumption DEF IInv, TypeInv, TypeOK, Generations
      <4>2. d.pc = drivers[task].pc /\ d.job = drivers[task].job /\ d.snap = drivers[task].snap /\ d.step = drivers[task].step
        BY <1>0, <4>1 DEF Drivers
      <4> HIDE DEF d
      <4>3. task = model.generation => OnStep(d)
        BY <4>1, <4>2 DEF OnStep, OrderInv, DriverOnStep
      <4> QED
        BY <4>1, <4>2, <4>3, MovedIs
    <3> QED
      BY <3>1, <3>2, <3>3
  <2> QED
    BY <2>1, <2>3, <2>4, HeldRunKeeps
<1>4. CASE ForgetRun(a)
  <2> DEFINE e == IF model.generation = acting[a].generation THEN [acting[a] EXCEPT !.pc = "clear"] ELSE Idle
  <2>1. /\ acting[a].pc = "forget" /\ acting' = [acting EXCEPT ![a] = e]
        /\ SameHeld /\ UNCHANGED <<drivers, medium, up, before, faults>>
    BY <1>4 DEF ForgetRun, ActingMoves, SameHeld, outside
  <2>2. /\ model.generation = acting[a].generation => e.pc = "clear" /\ e.generation = acting[a].generation
        /\ model.generation # acting[a].generation => e.pc = "idle"
    BY <1>0 DEF Idle
  <2> HIDE DEF e
  <2>3. \A b \in FrontEnds : GoesOn(b)
    BY <1>a, <1>h, <2>1, <2>2 DEF OfHeld
  <2> QED
    BY <2>1, <2>3, HeldRunKeeps, Unmoved
<1>5. CASE ClearMedium(a)
  <2>1. /\ acting[a].pc = "clear" /\ acting' = [acting EXCEPT ![a] = Idle]
        /\ UNCHANGED <<model, drivers, up, before>>
        /\ medium' \in {medium, NoRun} /\ faults \in Nat
        /\ faults' = 0 => medium' = NoRun /\ faults = 0
    BY <1>5 DEF ClearMedium, Clears, outside, IInv, TypeInv, TypeOK
  <2>2. /\ acting'[a] = Idle /\ \A b \in FrontEnds : b # a => acting'[b] = acting[b]
    BY <1>0, <2>1
  <2>3. ~DiskFree /\ \A g \in Generations : ~HoldsDisk(drivers[g])
    BY <2>1 DEF DiskFree, IInv, RecordInv, OneOnDisk
  <2>4. ~UnderWay(model.state, Passed(model)) \/ ~up
    BY <2>1 DEF OrderInv, PassedIsKept
  <2>5. up
    BY <2>1 DEF IInv, RecordInv, OffIsBlank
  <2>6. OrderKept'
    <3>1. StoredInOrder(NoRun)
      BY StepsAreNat DEF StoredInOrder, NoRun
    <3> QED
      BY <2>1, <3>1 DEF OrderInv, OrderKept
  <2>7. DriverOnStep'
    BY <2>1 DEF OrderInv, DriverOnStep, OnStep, AtRest
  <2>8. ActsOfHeld'
    BY <2>1, <2>2 DEF OrderInv, ActsOfHeld, OfHeld, Idle
  <2>9. OverIsCleared'
    BY <2>1, <2>3 DEF OverIsCleared, Cleared, HoldsDisk
  <2>10. PassedIsKept' /\ LostIsKept'
    BY <2>1, <2>4, <2>5 DEF PassedIsKept, LostIsKept
  <2>11. PassingIsRecorded'
    BY <2>1, <2>3 DEF OrderInv, PassingIsRecorded
  <2> QED
    BY <2>6, <2>7, <2>8, <2>9, <2>10, <2>11 DEF OrderInv
<1> QED
  BY <1>1, <1>2, <1>3, <1>4, <1>5 DEF ActGoesOn
-----------------------------------------------------------------------------
\* The driver of the run held takes it from one step to another.
LEMMA HeldRunMoves ==
    ASSUME IInv, OrderInv, NEW g \in Generations, g = model.generation, NEW d,
           drivers' = [drivers EXCEPT ![g] = d], model'.generation = model.generation,
           UNCHANGED <<acting, medium, up, before, faults>>,
           drivers[g].pc \in {"begin", "pass", "fail"},
           d.snap = drivers[g].snap, d.job # "saving", d.pc \notin {"clear", "pass"},
           Ordered(model'),
           model'.state = "failed" => InState(model', "running") = {},
           d.pc \in InHand => d.step \in Steps /\ Begun(model') = {d.step} /\ model'.steps[d.step] = "running",
           d.pc \in BetweenSteps => Begun(model') = {},
           d.pc \in Clearing => model'.state = "finished",
           d.pc \in (InHand \cup BetweenSteps) \ Clearing => model'.state = "running",
           AtRest(model') => d.pc \in Clearing /\ d.job = "none",
           \/ ~UnderWay(model'.state, Passed(model'))
           \/ UnderWay(model.state, Passed(model)) /\ Chosen(model') = Chosen(model) /\ Passed(model') = Passed(model)
           \/ DiskFree /\ IsNearly(medium, Chosen(model'), Passed(model'))
    PROVE  OrderInv'
<1>1. drivers'[g] = d /\ \A h \in Generations : h # g => drivers'[h] = drivers[h]
  BY DEF IInv, TypeInv, TypeOK
<1>2. up
  BY DEF IInv, RecordInv, OffIsBlank, IsBlank
<1>3. OrderKept'
  BY <1>1 DEF OrderInv, OrderKept
<1>4. DriverOnStep'
  <2> SUFFICES ASSUME NEW h \in Generations, h = model'.generation PROVE OnStep(drivers[h])'
    BY DEF DriverOnStep
  <2>1. drivers'[h] = d
    BY <1>1
  <2> QED
    BY <2>1 DEF OnStep
<1>5. ActsOfHeld'
  <2>1. \A a \in FrontEnds : acting[a].generation = g => acting[a].pc \in {"idle", "store"}
    BY DEF IInv, RecordInv, FutureBlank, IsBlank
  <2> QED
    BY <2>1 DEF ActsOfHeld, OfHeld
<1>6. OverIsCleared'
  BY <1>1 DEF OverIsCleared, ToBeCleared
<1>7. PassedIsKept'
  <2> SUFFICES ASSUME UnderWay(model'.state, Passed(model'))
               PROVE  /\ \A h \in Generations : /\ drivers'[h].pc # "clear"
                                                /\ drivers'[h].job = "saving" => IsOf(drivers'[h].snap, Chosen(model'), Passed(model'))
                      /\ \A a \in FrontEnds : acting'[a].pc # "clear"
                      /\ faults' = 0 => IsNearly(medium', Chosen(model'), Passed(model'))
    BY DEF PassedIsKept
  <2>1. CASE UnderWay(model.state, Passed(model)) /\ Chosen(model') = Chosen(model) /\ Passed(model') = Passed(model)
    BY <1>1, <1>2, <2>1 DEF OrderInv, PassedIsKept
  <2>2. CASE DiskFree /\ IsNearly(medium, Chosen(model'), Passed(model'))
    BY <1>1, <2>2 DEF DiskFree
  <2> QED
    BY <2>1, <2>2
<1>8. PassingIsRecorded'
  BY <1>1 DEF PassingIsRecorded
<1>9. LostIsKept'
  BY <1>2 DEF LostIsKept
<1> QED
  BY <1>3, <1>4, <1>5, <1>6, <1>7, <1>8, <1>9 DEF OrderInv

\* A driver goes from step to step (run.rs, drive).
LEMMA OrderDrive ==
    ASSUME IInv, OrderInv, NEW g \in Generations, Drive(g)
    PROVE  OrderInv'
<1>0. /\ model \in Models /\ Ordered(model) /\ drivers[g] \in Drivers /\ g # NoStep
      /\ drivers \in [Generations -> Drivers]
  BY GenerationsAreNat DEF IInv, TypeInv, TypeOK, OrderInv, OrderKept, NoStep
<1>m. MayWrite(drivers[g])
  BY DEF IInv, RecordInv, WritesOnlyRecording
<1>h. g = model.generation => OnStep(drivers[g])
  BY DEF OrderInv, DriverOnStep
<1>e. ASSUME NEW d, drivers' = [drivers EXCEPT ![g] = d], d.snap = drivers[g].snap, d.job = drivers[g].job,
             d.pc # "clear", d.pc # "pass",
             g = model.generation => OnStep(d) /\ (drivers[g].pc \in Clearing => d.pc \in Clearing),
             SameHeld, UNCHANGED <<acting, medium, up, before, faults>>
      PROVE  OrderInv'
  BY <1>e, MovedIs, HeldRunKeeps, Unmoved
<1>1. CASE AskAhead(g)
  <2> DEFINE d == [drivers[g] EXCEPT !.pc = "begin"]
  <2>1. /\ drivers[g].pc = "top" /\ drivers' = [drivers EXCEPT ![g] = d]
        /\ UNCHANGED <<acting, medium, up, before, faults>>
    BY <1>1 DEF AskAhead, Move, outside
  <2>2. SameHeld
    BY <1>0, <1>1 DEF AskAhead, SameHeld, Models
  <2>3. d.pc = "begin" /\ d.snap = drivers[g].snap /\ d.job = drivers[g].job
    BY <1>0 DEF Drivers
  <2> HIDE DEF d
  <2>4. g = model.generation => OnStep(d)
    BY <1>h, <2>1, <2>3 DEF OnStep, InHand, Carrying, BetweenSteps, Clearing
  <2> QED
    BY <1>e, <2>1, <2>2, <2>3, <2>4 DEF Clearing
<1>2. CASE DriverBegins(g)
  <2>1. drivers[g].pc = "begin" /\ UNCHANGED <<acting, medium, up, before, faults>> /\ drivers[g].job = "none"
    BY <1>2, <1>m DEF DriverBegins, outside, MayWrite
  <2>2. CASE model.generation # g
    <3>1. drivers' = Ended(g) /\ SameHeld
      BY <1>2, <2>2 DEF DriverBegins, SameHeld
    <3> QED
      BY <2>1, <2>2, <3>1, EndedIs, HeldRunKeeps, Unmoved
  <2>3. CASE model.generation = g /\ NextStep(model) = NoStep
    <3> DEFINE d == [drivers[g] EXCEPT !.pc = "forget"]
    <3>1. model' = Finish(model) /\ drivers' = [drivers EXCEPT ![g] = d]
      BY <1>2, <2>3 DEF DriverBegins, Move
    <3>2. model'.steps = model.steps /\ model'.state = "finished" /\ model'.generation = model.generation
      BY <1>0, <3>1 DEF Finish, Models
    <3>3. Ordered(model') /\ Begun(model') = Begun(model)
      BY <1>0, <3>2, OfSteps
    <3>4. Begun(model) = {}
      BY <1>h, <2>1, <2>3 DEF OnStep, BetweenSteps
    <3>5. d.pc = "forget" /\ d.snap = drivers[g].snap /\ d.job = "none"
      BY <1>0, <2>1 DEF Drivers
    <3> HIDE DEF d
    <3> QED
      BY <2>1, <2>3, <3>1, <3>2, <3>3, <3>4, <3>5, HeldRunMoves DEF InHand, Carrying, Clearing, UnderWay
  <2>4. CASE model.generation = g /\ NextStep(model) # NoStep
    <3> DEFINE d == [drivers[g] EXCEPT !.pc = "recordBegin", !.step = NextStep(model), !.job = "queued"]
    <3>1. model' = BeginNext(model) /\ drivers' = [drivers EXCEPT ![g] = d]
      BY <1>2, <2>4 DEF DriverBegins
    <3>2. Begun(model) = {} /\ ~AtRest(model)
      BY <1>h, <2>1, <2>4 DEF OnStep, BetweenSteps, Clearing
    <3>3. /\ Ordered(model') /\ NextStep(model) \in Steps /\ Begun(model') = {NextStep(model)}
          /\ model'.steps[NextStep(model)] = "running" /\ model'.state = model.state
          /\ Chosen(model') = Chosen(model) /\ Passed(model') = Passed(model) /\ model'.generation = model.generation
      BY <1>0, <2>4, <3>1, <3>2, BeginNextInOrder, BeginNextType
    <3>4. d.pc = "recordBegin" /\ d.step = NextStep(model) /\ d.job = "queued" /\ d.snap = drivers[g].snap
      BY <1>0 DEF Drivers
    <3>5. model.state = "running"
      BY <1>h, <2>1, <2>4 DEF OnStep, BetweenSteps, Clearing
    <3> HIDE DEF d
    <3> QED
      BY <2>1, <2>4, <3>1, <3>2, <3>3, <3>4, <3>5, HeldRunMoves DEF AtRest, BetweenSteps, Clearing
  <2> QED
    BY <2>2, <2>3, <2>4
<1>3. CASE DriverRecorded(g)
  <2> DEFINE on == CASE drivers[g].pc = "recordBegin" /\ drivers[g].job = "ok" -> "exec"
                     [] drivers[g].pc = "recordBegin" /\ drivers[g].job = "err" -> "fail"
                     [] drivers[g].pc = "recordPass" -> "top"
                     [] drivers[g].pc = "recordFail" -> "done"
             d == IF on = "done" THEN [NoDriver EXCEPT !.pc = "done"] ELSE [drivers[g] EXCEPT !.pc = on, !.job = "none"]
  <2>1. /\ drivers[g].pc \in {"recordBegin", "recordPass", "recordFail"} /\ drivers[g].job \in {"ok", "err"}
        /\ drivers' = [drivers EXCEPT ![g] = d]
        /\ SameHeld /\ UNCHANGED <<acting, medium, up, before, faults>>
    BY <1>3 DEF DriverRecorded, SameHeld, outside
  <2>2. \/ drivers[g].pc = "recordBegin" /\ on \in {"exec", "fail"}
        \/ drivers[g].pc = "recordPass" /\ on = "top"
        \/ drivers[g].pc = "recordFail" /\ on = "done"
    BY <2>1
  <2> HIDE DEF on
  <2>3. /\ d.pc = on /\ d.job = "none" /\ d.snap \in {drivers[g].snap, NoRun}
        /\ on # "done" => d.step = drivers[g].step
    BY <1>0 DEF Drivers, NoDriver
  <2> HIDE DEF d
  <2>4. g = model.generation => OnStep(d)
    BY <1>h, <2>1, <2>2, <2>3 DEF OnStep, InHand, Carrying, BetweenSteps, Clearing
  <2>5. drivers'[g] = d /\ \A h \in Generations : h # g => drivers'[h] = drivers[h]
    BY <1>0, <2>1
  <2>6. DriverGoesOn(g)
    BY <2>1, <2>2, <2>3, <2>4, <2>5 DEF DriverGoesOn, Clearing
  <2> QED
    BY <2>1, <2>5, <2>6, HeldRunKeeps, Unmoved
<1>4. CASE DriverPasses(g)
  <2>1. drivers[g].pc = "pass" /\ UNCHANGED <<acting, medium, up, before, faults>>
    BY <1>4 DEF DriverPasses, Settles, context, outside
  <2>2. CASE model.generation # g
    <3>1. drivers' = Ended(g) /\ SameHeld
      BY <1>4, <2>2 DEF DriverPasses, Settles, SameHeld
    <3> QED
      BY <2>1, <2>2, <3>1, EndedIs, HeldRunKeeps, Unmoved
  <2>3. CASE model.generation = g
    <3> DEFINE d == [drivers[g] EXCEPT !.pc = "recordPass", !.job = "queued"]
               s == drivers[g].step
    <3>1. model' = Pass(model, s) /\ drivers' = [drivers EXCEPT ![g] = d]
      BY <1>4, <2>3 DEF DriverPasses, Settles
    <3>2. s \in Steps /\ Begun(model) = {s} /\ model.steps[s] = "running" /\ model.state = "running"
      BY <1>h, <2>1, <2>3 DEF OnStep, InHand, Clearing
    <3>3. /\ Ordered(model') /\ Begun(model') = {} /\ model'.state = "running" /\ model'.generation = model.generation
          /\ Chosen(model') = Chosen(model) /\ Passed(model') = Passed(model) \cup {s}
      BY <1>0, <3>1, <3>2, SettlesInOrder, StepStateTypes
    <3>4. DiskFree /\ medium = Snap(model)
      BY <2>1, <2>3 DEF OrderInv, PassingIsRecorded
    <3>5. IsNearly(medium, Chosen(model'), Passed(model'))
      <4>1. medium.chosen = Chosen(model) /\ medium.passed = Passed(model)
        BY <3>4 DEF Snap
      <4> HIDE DEF s
      <4> QED
        BY <3>2, <3>3, <4>1 DEF IsNearly
    <3>6. d.pc = "recordPass" /\ d.job = "queued" /\ d.snap = drivers[g].snap
      BY <1>0 DEF Drivers
    <3> HIDE DEF d, s
    <3> QED
      BY <2>1, <2>3, <3>1, <3>3, <3>4, <3>5, <3>6, HeldRunMoves DEF InHand, Carrying, Clearing, AtRest
  <2> QED
    BY <2>2, <2>3
<1>5. CASE DriverFails(g)
  <2>1. drivers[g].pc = "fail" /\ UNCHANGED <<acting, medium, up, before, faults>>
    BY <1>5 DEF DriverFails, Settles, context, outside
  <2>2. CASE model.generation # g
    <3>1. drivers' = Ended(g) /\ SameHeld
      BY <1>5, <2>2 DEF DriverFails, Settles, SameHeld
    <3> QED
      BY <2>1, <2>2, <3>1, EndedIs, HeldRunKeeps, Unmoved
  <2>3. CASE model.generation = g
    <3> DEFINE d == [drivers[g] EXCEPT !.pc = "recordFail", !.job = "queued"]
               s == drivers[g].step
    <3>1. model' = Fail(model, s) /\ drivers' = [drivers EXCEPT ![g] = d]
      BY <1>5, <2>3 DEF DriverFails, Settles
    <3>2. s \in Steps /\ Begun(model) = {s} /\ model.steps[s] = "running" /\ model.state = "running"
      BY <1>h, <2>1, <2>3 DEF OnStep, InHand, Clearing
    <3>3. /\ Ordered(model') /\ InState(model', "running") = {} /\ model'.state = "failed"
          /\ Chosen(model') = Chosen(model) /\ Passed(model') = Passed(model) /\ model'.generation = model.generation
      BY <1>0, <3>1, <3>2, SettlesInOrder, StepStateTypes
    <3>4. d.pc = "recordFail" /\ d.job = "queued" /\ d.snap = drivers[g].snap
      BY <1>0 DEF Drivers
    <3>5. ~UnderWay(model'.state, Passed(model')) \/ UnderWay(model.state, Passed(model))
      BY <3>2, <3>3 DEF UnderWay
    <3> HIDE DEF d, s
    <3> QED
      BY <2>1, <2>3, <3>1, <3>3, <3>4, <3>5, HeldRunMoves DEF InHand, Carrying, BetweenSteps, Clearing, AtRest
  <2> QED
    BY <2>2, <2>3
<1>6. CASE DriverForgets(g)
  <2>1. drivers[g].pc = "forget" /\ SameHeld /\ UNCHANGED <<acting, medium, up, before, faults>>
    BY <1>6 DEF DriverForgets, SameHeld, outside
  <2>2. CASE model.generation # g
    <3>1. drivers' = Ended(g)
      BY <1>6, <2>2 DEF DriverForgets
    <3> QED
      BY <2>1, <2>2, <3>1, EndedIs, HeldRunKeeps, Unmoved
  <2>3. CASE model.generation = g
    <3> DEFINE d == [drivers[g] EXCEPT !.pc = "clear"]
    <3>1. drivers' = [drivers EXCEPT ![g] = d]
      BY <1>6, <2>3 DEF DriverForgets, Move
    <3>2. d.pc = "clear" /\ d.job = drivers[g].job /\ d.snap = drivers[g].snap
      BY <1>0 DEF Drivers
    <3>3. OnStep(d) /\ model.state = "finished"
      BY <1>h, <2>1, <2>3, <3>2 DEF OnStep, InHand, Carrying, BetweenSteps, Clearing
    <3> HIDE DEF d
    <3> QED
      BY <2>1, <2>3, <3>1, <3>2, <3>3, MovedIs, HeldRunKeeps, Unmoved DEF Clearing
  <2> QED
    BY <2>2, <2>3
<1>7. CASE DriverClears(g)
  <2>1. /\ drivers[g].pc = "clear" /\ drivers' = Ended(g)
        /\ UNCHANGED <<model, acting, up, before>>
        /\ medium' \in {medium, NoRun} /\ faults \in Nat
        /\ faults' = 0 => medium' = NoRun /\ faults = 0
    BY <1>7 DEF DriverClears, Clears, outside, IInv, TypeInv, TypeOK
  <2>2. /\ drivers'[g].pc = "done" /\ drivers'[g].job = drivers[g].job /\ drivers'[g].snap = drivers[g].snap
        /\ \A h \in Generations : h # g => drivers'[h] = drivers[h]
    BY <1>0, <2>1 DEF Ended, NoDriver
  <2>3. /\ ~DiskFree /\ drivers[g].job = "none"
        /\ \A h \in Generations : drivers[h].job # "saving"
        /\ \A a \in FrontEnds : acting[a].pc # "clear"
    BY <1>m, <2>1 DEF DiskFree, IInv, RecordInv, OneOnDisk, HoldsDisk, MayWrite
  <2>4. up /\ ~UnderWay(model.state, Passed(model))
    BY <2>1 DEF OrderInv, PassedIsKept, IInv, RecordInv, OffIsBlank, IsBlank
  <2>5. OrderKept'
    <3>1. StoredInOrder(NoRun)
      BY StepsAreNat DEF StoredInOrder, NoRun
    <3>2. \A h \in Generations : drivers'[h].snap = drivers[h].snap
      BY <2>2
    <3> QED
      BY <2>1, <3>1, <3>2 DEF OrderInv, OrderKept
  <2>6. DriverOnStep'
    <3> SUFFICES ASSUME NEW h \in Generations, h = model.generation PROVE OnStep(drivers[h])'
      BY <2>1 DEF DriverOnStep
    <3>1. OnStep(drivers[h])
      BY DEF OrderInv, DriverOnStep
    <3> QED
      BY <2>1, <2>2, <3>1 DEF OnStep, InHand, Carrying, BetweenSteps, Clearing, AtRest
  <2>7. ActsOfHeld'
    BY <2>1 DEF OrderInv, ActsOfHeld, OfHeld
  <2>8. OverIsCleared'
    <3>1. \A h \in Generations : drivers'[h].job # "saving"
      BY <2>2, <2>3
    <3> QED
      BY <2>1, <3>1 DEF OverIsCleared, Cleared
  <2>9. PassedIsKept' /\ LostIsKept'
    BY <2>1, <2>4 DEF PassedIsKept, LostIsKept
  <2>10. PassingIsRecorded'
    BY <2>1, <2>2, <2>3 DEF OrderInv, PassingIsRecorded
  <2> QED
    BY <2>5, <2>6, <2>7, <2>8, <2>9, <2>10 DEF OrderInv
<1> QED
  BY <1>1, <1>2, <1>3, <1>4, <1>5, <1>6, <1>7 DEF Drive
-----------------------------------------------------------------------------
\* A write of the run, begun and done on its own thread (run.rs, record).
LEMMA OrderRecord ==
    ASSUME IInv, OrderInv, NEW g \in Generations, Record(g)
    PROVE  OrderInv'
<1>0. /\ model \in Models /\ Ordered(model) /\ drivers[g] \in Drivers /\ faults \in Nat
      /\ drivers \in [Generations -> Drivers]
  BY DEF IInv, TypeInv, TypeOK, OrderInv, OrderKept
<1>m. MayWrite(drivers[g])
  BY DEF IInv, RecordInv, WritesOnlyRecording
<1>h. g = model.generation => OnStep(drivers[g])
  BY DEF OrderInv, DriverOnStep
<1>u. drivers[g].job # "none" => up
  BY DEF IInv, RecordInv, OffIsBlank, IsBlank
<1>1. CASE RecordReads(g)
  <2>1. drivers[g].job = "queued" /\ DiskFree /\ UNCHANGED <<model, acting, medium, up, before, faults>> /\ up
    BY <1>1, <1>u DEF RecordReads, outside
  <2>2. CASE model.generation # g
    <3> DEFINE d == [drivers[g] EXCEPT !.job = IF drivers[g].pc = "done" THEN "none" ELSE "ok"]
    <3>1. drivers' = [drivers EXCEPT ![g] = d] /\ SameHeld
      BY <1>1, <2>1, <2>2 DEF RecordReads, SameHeld
    <3>2. d.job \in {"none", "ok"} /\ d.pc = drivers[g].pc /\ d.snap = drivers[g].snap
      BY <1>0 DEF Drivers
    <3> HIDE DEF d
    <3> QED
      BY <2>1, <2>2, <3>1, <3>2, MovedIs, HeldRunKeeps, Unmoved
  <2>3. CASE model.generation = g
    <3> DEFINE d == [drivers[g] EXCEPT !.job = "saving", !.snap = Snap(model)]
    <3>1. drivers' = [drivers EXCEPT ![g] = d]
      BY <1>1, <2>3 DEF RecordReads
    <3>2. d.job = "saving" /\ d.pc = drivers[g].pc /\ d.step = drivers[g].step /\ d.snap = Snap(model)
      BY <1>0 DEF Drivers
    <3> HIDE DEF d
    <3>3. drivers'[g] = d /\ \A h \in Generations : h # g => drivers'[h] = drivers[h]
      BY <1>0, <3>1
    <3>4. ~AtRest(model) /\ drivers[g].pc # "pass"
      BY <1>h, <1>m, <2>1, <2>3 DEF OnStep, MayWrite
    <3>5. StoredInOrder(d.snap) /\ IsOf(d.snap, Chosen(model), Passed(model))
      BY <1>0, <3>2, SnapInOrder
    <3>6. OrderKept'
      BY <2>1, <3>3, <3>5 DEF OrderInv, OrderKept
    <3>7. DriverOnStep'
      <4> SUFFICES ASSUME NEW h \in Generations, h = model.generation PROVE OnStep(drivers[h])'
        BY <2>1 DEF DriverOnStep
      <4>1. OnStep(drivers[h]) /\ drivers'[h] = d
        BY <2>3, <3>3 DEF OrderInv, DriverOnStep
      <4> QED
        BY <2>1, <2>3, <3>2, <3>4, <4>1 DEF OnStep, AtRest
    <3>8. ActsOfHeld' /\ OverIsCleared' /\ LostIsKept'
      BY <2>1, <3>4 DEF OrderInv, ActsOfHeld, OfHeld, OverIsCleared, AtRest, LostIsKept
    <3>9. PassedIsKept'
      BY <2>1, <3>2, <3>3, <3>5 DEF OrderInv, PassedIsKept
    <3>10. PassingIsRecorded'
      BY <2>1, <2>3, <3>2, <3>3, <3>4 DEF PassingIsRecorded
    <3> QED
      BY <3>6, <3>7, <3>8, <3>9, <3>10 DEF OrderInv
  <2> QED
    BY <2>2, <2>3
<1>2. CASE RecordSaves(g)
  <2>1. PICK j \in {"ok", "err"} : drivers' = [drivers EXCEPT ![g] = [drivers[g] EXCEPT !.job = j, !.snap = NoRun]]
    BY <1>2 DEF RecordSaves
  <2> DEFINE d == [drivers[g] EXCEPT !.job = j, !.snap = NoRun]
  <2>2. /\ drivers[g].job = "saving" /\ up /\ UNCHANGED <<model, acting, up, before>>
        /\ medium' \in {medium, drivers[g].snap}
        /\ faults' = 0 => medium' = drivers[g].snap /\ faults = 0
    BY <1>0, <1>2, <1>u DEF RecordSaves, outside
  <2>3. d.job = j /\ d.pc = drivers[g].pc /\ d.step = drivers[g].step /\ d.snap = NoRun
    BY <1>0 DEF Drivers
  <2> HIDE DEF d
  <2>4. drivers'[g] = d /\ \A h \in Generations : h # g => drivers'[h] = drivers[h]
    BY <1>0, <2>1 DEF d
  <2>5. ~DiskFree /\ \A h \in Generations : h # g => drivers[h].job # "saving"
    BY <2>2 DEF DiskFree, IInv, RecordInv, OneOnDisk, HoldsDisk
  <2>6. OrderKept'
    <3>1. StoredInOrder(NoRun)
      BY StepsAreNat DEF StoredInOrder, NoRun
    <3> QED
      BY <2>2, <2>3, <2>4, <3>1 DEF OrderInv, OrderKept
  <2>7. DriverOnStep'
    <3> SUFFICES ASSUME NEW h \in Generations, h = model.generation PROVE OnStep(drivers[h])'
      BY <2>2 DEF DriverOnStep
    <3>1. OnStep(drivers[h])
      BY DEF OrderInv, DriverOnStep
    <3>2. CASE h # g
      BY <2>2, <2>4, <3>1, <3>2 DEF OnStep, AtRest
    <3>3. CASE h = g
      <4>1. ~AtRest(model)
        BY <2>2, <3>1, <3>3 DEF OnStep
      <4> QED
        BY <2>2, <2>3, <2>4, <3>1, <3>3, <4>1 DEF OnStep, AtRest
    <3> QED
      BY <3>2, <3>3
  <2>8. ActsOfHeld' /\ LostIsKept'
    BY <2>2 DEF OrderInv, ActsOfHeld, OfHeld, LostIsKept
  <2>9. OverIsCleared'
    <3> SUFFICES ASSUME AtRest(model), faults' = 0 PROVE ToBeCleared'
      BY <2>2 DEF OverIsCleared, AtRest
    <3>1. ToBeCleared
      BY <2>2 DEF OrderInv, OverIsCleared, Cleared
    <3> QED
      BY <2>2, <2>3, <2>4, <3>1 DEF ToBeCleared
  <2>10. PassedIsKept'
    <3> SUFFICES ASSUME UnderWay(model.state, Passed(model))
                 PROVE  /\ \A h \in Generations : /\ drivers'[h].pc # "clear"
                                                  /\ drivers'[h].job = "saving" => IsOf(drivers'[h].snap, Chosen(model), Passed(model))
                        /\ \A a \in FrontEnds : acting[a].pc # "clear"
                        /\ faults' = 0 => IsNearly(medium', Chosen(model), Passed(model))
      BY <2>2 DEF PassedIsKept
    <3>1. /\ \A h \in Generations : drivers[h].pc # "clear"
          /\ \A a \in FrontEnds : acting[a].pc # "clear"
          /\ IsOf(drivers[g].snap, Chosen(model), Passed(model))
      BY <2>2 DEF OrderInv, PassedIsKept
    <3>2. faults' = 0 => IsNearly(medium', Chosen(model), Passed(model))
      <4>1. PICK s \in Passed(model) : s \in Steps
        BY DEF UnderWay, Passed, InState
      <4> QED
        BY <2>2, <3>1, <4>1 DEF IsOf, IsNearly
    <3> QED
      BY <2>3, <2>4, <2>5, <3>1, <3>2
  <2>11. PassingIsRecorded'
    BY <2>2, <2>3, <2>4, <2>5 DEF OrderInv, PassingIsRecorded
  <2> QED
    BY <2>6, <2>7, <2>8, <2>9, <2>10, <2>11 DEF OrderInv
<1> QED
  BY <1>1, <1>2 DEF Record

\* What a step asks of the engine, and its end (context.rs).
LEMMA CarriedOut ==
    ASSUME IInv, NEW g \in Generations, CarryOut(g) \/ \E ok \in BOOLEAN : StepEnds(g, ok)
    PROVE  /\ drivers[g].pc \in Carrying /\ SameHeld
           /\ UNCHANGED <<task, acting, medium, queued, reading, up, before, faults>>
           /\ \E d : /\ drivers' = [drivers EXCEPT ![g] = d]
                     /\ d.pc \in Carrying \cup {"pass", "fail"}
                     /\ d.step = drivers[g].step /\ d.job = drivers[g].job /\ d.snap = drivers[g].snap
                     /\ d.aborted = drivers[g].aborted
<1>0. /\ model \in Models /\ drivers[g] \in Drivers /\ drivers \in [Generations -> Drivers] /\ g \in Nat
  BY GenerationsAreNat DEF IInv, TypeInv, TypeOK
<1>c. drivers[g].pc \in Carrying /\ UNCHANGED <<task, acting, medium, queued, reading, up, before, faults>>
  BY DEF CarryOut, StepNeeds, StepAsksLater, StepTakesDefault, StepForgets, StepNotices, NoticeCloses, StepEnds,
         InStep, Carrying, context, outside
<1>s. drivers[g].step \in Steps
  BY <1>c DEF IInv, TypeInv, StepKnown, Carrying, Parked
<1>1. SameHeld
  <2>1. ASSUME NEW m, SameRun(model, m), Mutates(g, m) PROVE SameHeld
    BY <2>1 DEF SameRun, Mutates, SameHeld
  <2>2. \A k \in Keys : /\ SameRun(model, Need(model, drivers[g].step, k, g))
                        /\ SameRun(model, Notice(model, drivers[g].step, k))
    BY <1>0, <1>s, PromptTypes
  <2>3. \A k : SameRun(model, CloseKey(model, k))
    BY <1>0, CloseKeyType
  <2>4. \A k \in AnswerKeys : /\ SameRun(model, AskLater(model, drivers[g].step, {k}))
                              /\ SameRun(model, Forget(model, k))
    BY <1>0, <1>s, AskLaterType, AnswerTypes
  <2>5. SameRun(model, Release(model, drivers[g].step))
    BY <1>0, ReleaseType
  <2> QED
    BY <2>1, <2>2, <2>3, <2>4, <2>5 DEF CarryOut, StepNeeds, StepAsksLater, StepTakesDefault, StepForgets,
       StepNotices,
       NoticeCloses, StepEnds, Keys
<1>2. \E d : /\ drivers' = [drivers EXCEPT ![g] = d]
             /\ d.pc \in Carrying \cup {"pass", "fail"}
             /\ d.step = drivers[g].step /\ d.job = drivers[g].job /\ d.snap = drivers[g].snap
             /\ d.aborted = drivers[g].aborted
  <2>1. CASE drivers' = drivers
    <3>1. drivers' = [drivers EXCEPT ![g] = drivers[g]]
      BY <1>0, <2>1
    <3> QED
      BY <1>c, <3>1
  <2>2. CASE \E pc \in Carrying : \E k : drivers' = [drivers EXCEPT ![g].pc = pc, ![g].key = k]
    <3>1. PICK pc, k :
                pc \in Carrying /\ drivers' = [drivers EXCEPT ![g] = [drivers[g] EXCEPT !.pc = pc, !.key = k]]
      BY <1>0, <2>2
    <3> DEFINE d == [drivers[g] EXCEPT !.pc = pc, !.key = k]
    <3>2. d.pc = pc /\ d.step = drivers[g].step /\ d.job = drivers[g].job /\ d.snap = drivers[g].snap
          /\ d.aborted = drivers[g].aborted
      BY <1>0 DEF Drivers
    <3> QED
      BY <3>1, <3>2
  <2>3. CASE \E pc \in {"pass", "fail"} : drivers' = [drivers EXCEPT ![g].pc = pc]
    <3>1. PICK pc \in {"pass", "fail"} : drivers' = [drivers EXCEPT ![g] = [drivers[g] EXCEPT !.pc = pc]]
      BY <1>0, <2>3
    <3> DEFINE d == [drivers[g] EXCEPT !.pc = pc]
    <3>2. d.pc = pc /\ d.step = drivers[g].step /\ d.job = drivers[g].job /\ d.snap = drivers[g].snap
          /\ d.aborted = drivers[g].aborted
      BY <1>0 DEF Drivers
    <3> QED
      BY <3>1, <3>2
  <2>4. \/ drivers' = drivers
        \/ \E pc \in Carrying : \E k : drivers' = [drivers EXCEPT ![g].pc = pc, ![g].key = k]
        \/ \E pc \in {"pass", "fail"} : drivers' = [drivers EXCEPT ![g].pc = pc]
    BY DEF CarryOut, StepNeeds, StepAsksLater, StepTakesDefault, StepForgets, StepNotices, NoticeCloses, StepEnds,
       Move,
           Carrying
  <2> QED
    BY <2>1, <2>2, <2>3, <2>4
<1> QED
  BY <1>c, <1>1, <1>2

\* A step carried out keeps the run in order (context.rs).
LEMMA OrderCarryOut ==
    ASSUME IInv, OrderInv, NEW g \in Generations, CarryOut(g) \/ \E ok \in BOOLEAN : StepEnds(g, ok)
    PROVE  OrderInv'
<1>1. /\ drivers[g].pc \in Carrying /\ SameHeld
      /\ UNCHANGED <<acting, medium, up, before, faults>>
  BY CarriedOut
<1>2. PICK d : /\ drivers' = [drivers EXCEPT ![g] = d]
               /\ d.pc \in Carrying \cup {"pass", "fail"}
               /\ d.step = drivers[g].step /\ d.job = drivers[g].job /\ d.snap = drivers[g].snap
  BY CarriedOut
<1>3. g = model.generation => OnStep(drivers[g])
  BY DEF OrderInv, DriverOnStep
<1>4. g = model.generation => OnStep(d)
  BY <1>1, <1>2, <1>3 DEF OnStep, InHand, Carrying, BetweenSteps, Clearing
<1>5. \A h \in Generations : DriverGoesOn(h)
  BY <1>1, <1>2, <1>4, MovedIs DEF Carrying, Clearing
<1> QED
  BY <1>1, <1>5, HeldRunKeeps, Unmoved

\* A determination leaves the run as it is.
LEMMA OrderDetermine ==
    ASSUME IInv, OrderInv, Determine
    PROVE  OrderInv'
<1>1. UNCHANGED <<drivers, acting, medium, up, before, faults>>
  BY DEF Determine, DetermineBegins, DetermineReads, DetermineApplies, outside
<1>2. SameHeld
  BY DEF Determine, DetermineBegins, DetermineReads, DetermineApplies, SameHeld, IInv, TypeInv, TypeOK, Models
<1> QED
  BY <1>1, <1>2, HeldRunKeeps, Unmoved

\* A crash leaves the medium, and a restart adopts what it holds.
LEMMA OrderRestart ==
    ASSUME IInv, OrderInv, Restart
    PROVE  OrderInv'
<1>0. /\ model \in Models /\ Ordered(model) /\ faults \in Nat /\ medium \in Stored
      /\ drivers \in [Generations -> Drivers]
  BY DEF IInv, TypeInv, TypeOK, OrderInv, OrderKept
<1>n. StoredInOrder(NoRun)
  BY StepsAreNat DEF StoredInOrder, NoRun
<1>1. CASE Crash
  <2>1. /\ up /\ ~up' /\ model' = New
        /\ before' = [state |-> model.state, chosen |-> Chosen(model), passed |-> Passed(model)]
        /\ drivers' = [g \in Generations |-> NoDriver] /\ acting' = [a \in FrontEnds |-> Idle]
        /\ UNCHANGED <<medium, faults>>
    BY <1>1 DEF Crash
  <2>2. model'.generation = 0 /\ model'.state = "idle" /\ Ordered(model') /\ InState(model', "running") = {}
    BY <2>1, NewType, NewInOrder
  <2>3. OrderKept'
    BY <1>n, <2>1, <2>2 DEF OrderKept, OrderInv, NoDriver
  <2>4. DriverOnStep' /\ PassingIsRecorded'
    BY <2>2, GenerationsAreNat DEF DriverOnStep, PassingIsRecorded
  <2>5. ActsOfHeld'
    BY <2>1, <2>2 DEF ActsOfHeld, OfHeld, Idle
  <2>6. OverIsCleared' /\ PassedIsKept'
    BY <2>1 DEF OverIsCleared, PassedIsKept
  <2>7. LostIsKept'
    <3>1. before'.state = model.state /\ before'.chosen = Chosen(model) /\ before'.passed = Passed(model)
      BY <2>1
    <3>2. Passed(model) \subseteq Chosen(model)
      BY DEF Passed, Chosen, InState
    <3> QED
      BY <2>1, <2>2, <3>1, <3>2 DEF LostIsKept, OrderInv, PassedIsKept
  <2> QED
    BY <2>3, <2>4, <2>5, <2>6, <2>7 DEF OrderInv
<1>2. ASSUME ~up, up' PROVE
        /\ \A g \in Generations : drivers[g].pc = "none" /\ drivers[g].job = "none"
        /\ \A a \in FrontEnds : acting[a].pc = "idle" /\ acting[a].generation = 0
        /\ model.state = "idle" /\ LostIsKept'
  BY <1>2 DEF IInv, RecordInv, OffIsBlank, IsBlank, OrderInv, LostIsKept
<1>3. CASE ResumeWithout \/ (Resume /\ medium = NoRun)
  <2>1. /\ ~up /\ up' /\ UNCHANGED <<model, drivers, acting>> /\ medium' \in {medium, NoRun}
        /\ faults' = 0 => medium' = NoRun
    BY <1>0, <1>3 DEF ResumeWithout, Resume
  <2>2. /\ \A g \in Generations : drivers[g].pc = "none" /\ drivers[g].job = "none"
        /\ \A a \in FrontEnds : acting[a].pc = "idle" /\ acting[a].generation = 0
        /\ model.state = "idle" /\ LostIsKept'
    BY <1>2, <2>1
  <2>3. OrderKept'
    BY <1>n, <2>1 DEF OrderInv, OrderKept
  <2>4. DriverOnStep'
    BY <2>1, <2>2 DEF DriverOnStep, OnStep, InHand, Carrying, BetweenSteps, Clearing
  <2>5. ActsOfHeld'
    BY <2>1, <2>2 DEF ActsOfHeld, OfHeld
  <2>6. OverIsCleared'
    BY <2>1, <2>2 DEF OverIsCleared, Cleared
  <2>7. PassedIsKept' /\ PassingIsRecorded'
    BY <2>1, <2>2 DEF PassedIsKept, UnderWay, PassingIsRecorded
  <2> QED
    BY <2>2, <2>3, <2>4, <2>5, <2>6, <2>7 DEF OrderInv
<1>4. CASE Resume /\ medium # NoRun
  <2>1. /\ ~up /\ up' /\ UNCHANGED <<acting, medium, faults>> /\ model' = Adopted(medium)
        /\ medium.failed = NoStep => drivers' = [drivers EXCEPT ![1].pc = "top"]
        /\ medium.failed # NoStep => drivers' = drivers
    BY <1>4 DEF Resume
  <2>2. /\ \A g \in Generations : drivers[g].pc = "none" /\ drivers[g].job = "none"
        /\ \A a \in FrontEnds : acting[a].pc = "idle" /\ acting[a].generation = 0
        /\ LostIsKept'
    BY <1>2, <2>1
  <2>3. /\ Ordered(model') /\ InState(model', "running") = {} /\ Passed(model') = medium.passed
        /\ Chosen(model') = medium.chosen /\ model'.generation = 1
        /\ model'.state = IF medium.failed = NoStep THEN "running" ELSE "failed"
        /\ medium.failed = NoStep => Begun(model') = {}
    BY <1>0, <2>1, AdoptedInOrder, AdoptedType DEF OrderInv, OrderKept
  <2>4. \A g \in Generations : /\ drivers'[g].job = "none" /\ drivers'[g].snap = drivers[g].snap
                               /\ drivers'[g].pc \in {"none", "top"}
                               /\ drivers'[g].pc = "top" => medium.failed = NoStep
    <3>1. CASE medium.failed # NoStep
      BY <2>1, <2>2, <3>1
    <3>2. CASE medium.failed = NoStep
      <4> SUFFICES ASSUME NEW g \in Generations
                   PROVE  drivers'[g].job = "none" /\ drivers'[g].snap = drivers[g].snap /\ drivers'[g].pc \in {"none", "top"}
        BY <3>2
      <4>1. drivers[g] \in Drivers
        BY <1>0
      <4>2. drivers'[g] = drivers[g] \/ drivers'[g] = [drivers[g] EXCEPT !.pc = "top"]
        BY <1>0, <2>1, <3>2
      <4>3. [drivers[g] EXCEPT !.pc = "top"].job = drivers[g].job /\ [drivers[g] EXCEPT !.pc = "top"].snap = drivers[g].snap
            /\ [drivers[g] EXCEPT !.pc = "top"].pc = "top"
        BY <4>1 DEF Drivers
      <4> QED
        BY <2>2, <4>2, <4>3
    <3> QED
      BY <3>1, <3>2
  <2>5. OrderKept'
    BY <2>1, <2>3, <2>4 DEF OrderInv, OrderKept
  <2>6. DriverOnStep'
    BY <2>3, <2>4 DEF DriverOnStep, OnStep, InHand, Carrying, BetweenSteps, Clearing, AtRest
  <2>7. ActsOfHeld'
    BY <2>1, <2>2, <2>3 DEF ActsOfHeld
  <2>8. OverIsCleared' /\ PassingIsRecorded'
    BY <2>3, <2>4 DEF OverIsCleared, AtRest, PassingIsRecorded
  <2>9. PassedIsKept'
    <3>1. UnderWay(model'.state, Passed(model')) => IsNearly(medium', Chosen(model'), Passed(model'))
      <4> SUFFICES ASSUME Passed(model') # {} PROVE IsNearly(medium', Chosen(model'), Passed(model'))
        BY DEF UnderWay
      <4>1. PICK s \in Passed(model') : s \in Steps
        BY DEF Passed, InState
      <4> QED
        BY <2>1, <2>3, <4>1 DEF IsNearly
    <3> QED
      BY <2>1, <2>2, <2>4, <3>1 DEF PassedIsKept
  <2> QED
    BY <2>2, <2>5, <2>6, <2>7, <2>8, <2>9 DEF OrderInv
<1> QED
  BY <1>1, <1>3, <1>4 DEF Restart

\* Every step keeps the invariant.
LEMMA OrderStep == IInv /\ OrderInv /\ [Next]_vars => OrderInv'
<1> SUFFICES ASSUME IInv, OrderInv, [Next]_vars PROVE OrderInv'
  OBVIOUS
<1>1. CASE UNCHANGED vars
  <2>1. SameHeld /\ UNCHANGED <<drivers, acting, medium, up, before, faults>>
    BY <1>1 DEF vars, SameHeld
  <2> QED
    BY <2>1, HeldRunKeeps, Unmoved
<1>2. CASE Next
  BY <1>2, OrderActs, OrderActGoesOn, OrderDrive, OrderRecord, OrderCarryOut, OrderDetermine, OrderRestart DEF Next
<1> QED
  BY <1>1, <1>2

\* The engine is always within both invariants.
LEMMA OrderInvariant == Spec => [](IInv /\ OrderInv)
<1>1. Init => IInv /\ OrderInv
  BY TypeInit, RecordInit, OrderInit DEF IInv
<1>2. IInv /\ OrderInv /\ [Next]_vars => (IInv /\ OrderInv)'
  BY RecordStep, OrderStep
<1> QED
  BY <1>1, <1>2, PTL DEF Spec
-----------------------------------------------------------------------------
\* However the acts of two front ends interleave, the steps of the run
\* held are carried out in their order, and a run that was ended is not
\* left on the medium (run.rs, drive, record and forget_run).
THEOREM Orderly == Spec => []RunIsOrderly
<1>1. IInv /\ OrderInv => InOrder
  <2> SUFFICES ASSUME IInv, OrderInv, NEW g \in Generations, drivers[g].pc \in Carrying, g = model.generation,
                      NEW s \in Steps
               PROVE  /\ s = drivers[g].step => model.steps[s] = "running"
                      /\ s < drivers[g].step => model.steps[s] \in {"passed", "unchosen"}
                      /\ s > drivers[g].step => model.steps[s] \in {"pending", "unchosen"}
    BY DEF InOrder
  <2> DEFINE k == drivers[g].step
  <2>1. k \in Steps /\ model.steps[k] = "running"
    BY DEF OrderInv, DriverOnStep, OnStep, InHand
  <2>2. Ordered(model) /\ model.steps[s] \in StepStates
    BY DEF OrderInv, OrderKept, IInv, TypeInv, TypeOK, Models
  <2>3. s \in Nat /\ k \in Nat
    BY <2>1, StepsAreNat
  <2> HIDE DEF k
  <2>4. s < k => model.steps[s] \in {"passed", "unchosen"}
    BY <2>1, <2>2 DEF Ordered
  <2>5. s > k => model.steps[s] \in {"pending", "unchosen"}
    <3> SUFFICES ASSUME k < s PROVE model.steps[s] \in {"pending", "unchosen"}
      BY <2>3
    <3>1. model.steps[s] \notin {"running", "passed", "failed"}
      BY <2>1, <2>2 DEF Ordered
    <3> QED
      BY <2>2, <3>1 DEF StepStates
  <2> QED
    BY <2>1, <2>4, <2>5 DEF k
<1>2. IInv /\ OrderInv => EndedRunForgotten
  <2> SUFFICES ASSUME OrderInv, up, AtRest(model), Settled, faults = 0, ~\E g \in Generations : Live(g)
               PROVE  medium = NoRun
    BY DEF EndedRunForgotten
  <2>1. ~ToBeCleared
    BY DEF ToBeCleared, Settled, Live, Clearing, Parked
  <2> QED
    BY <2>1 DEF OrderInv, OverIsCleared, Cleared
<1> QED
  BY <1>1, <1>2, OrderInvariant, PTL DEF RunIsOrderly

\* A restart that meets no failure of the medium resumes the run the power
\* cut short with the steps it had, and repeats at most the step that had
\* passed last (run.rs, record and adopt).
THEOREM LosesAtMostOneStep == Spec => RestartLosesAtMostOneStep
<1>1. IInv /\ OrderInv /\ [Next]_vars =>
        [(~up /\ up' /\ faults' = 0 /\ before.state \in {"running", "failed"} /\ before.passed # {})
           => /\ Chosen(model') = before.chosen
              /\ Passed(model') \subseteq before.passed
              /\ Cardinality(before.passed \ Passed(model')) <= 1]_vars
  <2> SUFFICES ASSUME IInv, OrderInv, Next, ~up, up', faults' = 0, before.state \in {"running", "failed"},
                      before.passed # {}
               PROVE  /\ Chosen(model') = before.chosen
                      /\ Passed(model') \subseteq before.passed
                      /\ Cardinality(before.passed \ Passed(model')) <= 1
    OBVIOUS
  <2>1. Resume \/ ResumeWithout
    <3>1. /\ \A g \in Generations : drivers[g].pc = "none" /\ drivers[g].job = "none"
          /\ \A a \in FrontEnds : acting[a].pc = "idle"
      BY DEF IInv, RecordInv, OffIsBlank, IsBlank
    <3>2. ASSUME NEW a \in FrontEnds PROVE ~Act(a) /\ ~ActGoesOn(a)
      BY <3>1 DEF Act, ActStart, ActRetry, Begins, ActEnd, Attach, ActAnswer, ActGoesOn, DriveSoon, KeepTask, AbortTask,
         ForgetRun, ClearMedium
    <3>3. ASSUME NEW g \in Generations PROVE ~Drive(g) /\ ~Record(g)
      BY <3>1 DEF Drive, AskAhead, DriverBegins, DriverRecorded, DriverPasses, DriverFails, DriverForgets, DriverClears,
         Record, RecordReads, RecordSaves
    <3>4. ASSUME NEW g \in Generations PROVE ~CarryOut(g) /\ ~\E ok \in BOOLEAN : StepEnds(g, ok)
      BY <3>1 DEF CarryOut, StepNeeds, StepAsksLater, StepTakesDefault, StepForgets, StepNotices, NoticeCloses, InStep,
         StepEnds
    <3>5. ~Determine /\ ~Crash
      BY DEF Determine, DetermineBegins, DetermineReads, DetermineApplies, Crash, outside
    <3> QED
      BY <3>2, <3>3, <3>4, <3>5 DEF Next, Restart
  <2>2. faults \in Nat /\ medium \in Stored /\ StoredInOrder(medium)
    BY DEF IInv, TypeInv, TypeOK, OrderInv, OrderKept
  <2>3. Resume /\ faults = 0
    BY <2>1, <2>2 DEF Resume, ResumeWithout
  <2>4. IsNearly(medium, before.chosen, before.passed)
    BY <2>3 DEF OrderInv, LostIsKept, UnderWay
  <2>5. PICK s \in Steps : before.passed \ medium.passed \subseteq {s}
    BY <2>4 DEF IsNearly
  <2>6. Chosen(model') = medium.chosen /\ Passed(model') = medium.passed
    <3>1. medium # NoRun
      <4> SUFFICES ASSUME medium = NoRun PROVE FALSE
        OBVIOUS
      <4>1. before.chosen = {} /\ before.passed \subseteq before.chosen
        BY <2>3, <2>4 DEF NoRun, IsNearly, OrderInv, LostIsKept
      <4> QED
        BY <4>1
    <3>2. model' = Adopted(medium)
      BY <2>3, <3>1 DEF Resume
    <3> QED
      BY <2>2, <3>2, AdoptedInOrder
  <2>7. Cardinality(before.passed \ medium.passed) <= 1
    <3>1. IsFiniteSet({s}) /\ Cardinality({s}) = 1
      BY FS_Singleton
    <3> QED
      BY <2>5, <3>1, FS_Subset
  <2> QED
    BY <2>4, <2>6, <2>7 DEF IsNearly
<1> QED
  BY <1>1, OrderInvariant, PTL DEF Spec, RestartLosesAtMostOneStep

-----------------------------------------------------------------------------
Alone == \A a, b \in FrontEnds : a = b

Ending == {"abort", "forget", "clear"}

InAct == \E a \in FrontEnds : acting[a].pc # "idle"

\* An act under way is of the generation held.
ActIsLatest == \A a \in FrontEnds : acting[a].pc # "idle" => acting[a].generation = model.generation

\* The task held is the latest's, or while an act is under way an earlier
\* one's, so that an abort never reaches the driver of the run held.
TaskIsEarlier == task <= model.generation /\ (InAct => task < model.generation)

NotAborted == \A g \in Generations : g >= model.generation => ~drivers[g].aborted

\* A running run is about to be given its driver, or has it and its handle
\* is held or about to be.
IsCarried ==
    (up /\ model.state = "running") =>
        /\ model.generation \in Generations
        /\ \/ \E a \in FrontEnds : acting[a].pc = "spawn"
           \/ /\ drivers[model.generation].pc \notin {"none", "done"}
              /\ task = model.generation \/ \E a \in FrontEnds : acting[a].pc = "store"

FailureIsHeld ==
    \A g \in Generations : (g = model.generation /\ drivers[g].pc = "recordFail") => model.state = "failed"

\* A driver of an earlier run comes to carry out no further step.
Spent == {"none", "done", "recordFail"} \cup Clearing

EarlierIsSpent ==
    \A g \in Generations : g < model.generation =>
        \/ drivers[g].aborted \/ drivers[g].pc \in Spent
        \/ task = g /\ \E a \in FrontEnds : acting[a].pc = "abort"

OffIsNew == ~up => model.generation = 0

HoldInv ==
    ActIsLatest /\ TaskIsEarlier /\ NotAborted /\ IsCarried /\ FailureIsHeld /\ EarlierIsSpent /\ OffIsNew

\* A device at rest has determined the board as it is, is about to, or has
\* something under way that ends with its being determined.
Determined ==
    (up /\ AtRest(model)) =>
        \/ queued > 0
        \/ \E a \in FrontEnds : acting[a].pc \in Ending
        \/ \E g \in Generations : drivers[g].pc \in Clearing
        \/ reading.pc = "reading" /\ \A s \in Steps : reading.found[s] \in {"unread", board[s]}
        \/ reading.pc = "idle" /\ model.checked /\ model.done = Undone(board)
-----------------------------------------------------------------------------
\* Generations are numbers, and the task held is none or one of them.
LEMMA GenerationIsNat ==
    ASSUME IInv
    PROVE  /\ model.generation \in Nat /\ model.generation <= MaxGeneration /\ MaxGeneration \in Nat
           /\ task \in Nat /\ (task = 0 \/ task \in Generations)
BY RunAssumption DEF IInv, TypeInv, TypeOK, Models, Generations

\* What a driver's step, or a write, does to the driver g of a run.
HeldOn(g) ==
    /\ drivers'[g].aborted => drivers[g].aborted
    /\ (g = model.generation /\ model'.state = "running" /\ drivers[g].pc \notin {"none", "done"}) =>
          drivers'[g].pc \notin {"none", "done"}
    /\ (g = model.generation /\ drivers'[g].pc = "recordFail") =>
          drivers[g].pc = "recordFail" \/ model'.state = "failed"
    /\ g < model.generation =>
          /\ drivers[g].aborted => drivers'[g].aborted \/ drivers'[g].pc \in Spent
          /\ drivers[g].pc \in Spent => drivers'[g].pc \in Spent

\* The run held goes on: it may finish or fail, and no act moves.
RunGoesOn ==
    /\ model'.generation = model.generation
    /\ model'.state = "running" => model.state = "running"
    /\ model.state = "failed" => model'.state = "failed"

\* A run that goes on, with the acts and the task held as they were, keeps
\* the invariant.
LEMMA HoldKeeps ==
    ASSUME IInv, HoldInv, RunGoesOn, UNCHANGED <<acting, task, up>>,
           \A g \in Generations : HeldOn(g)
    PROVE  HoldInv'
<1>1. ActIsLatest' /\ TaskIsEarlier' /\ OffIsNew'
  BY DEF HoldInv, ActIsLatest, TaskIsEarlier, InAct, OffIsNew, RunGoesOn
<1>2. NotAborted'
  BY DEF HoldInv, NotAborted, HeldOn, RunGoesOn
<1>3. IsCarried'
  BY DEF HoldInv, IsCarried, HeldOn, RunGoesOn
<1>4. FailureIsHeld'
  BY DEF HoldInv, FailureIsHeld, HeldOn, RunGoesOn
<1>5. EarlierIsSpent'
  <2> SUFFICES ASSUME NEW g \in Generations, g < model.generation,
                      ~(task = g /\ \E a \in FrontEnds : acting[a].pc = "abort")
               PROVE  drivers'[g].aborted \/ drivers'[g].pc \in Spent
    BY DEF EarlierIsSpent, RunGoesOn
  <2>1. drivers[g].aborted \/ drivers[g].pc \in Spent
    BY DEF HoldInv, EarlierIsSpent
  <2> QED
    BY <2>1 DEF HeldOn
<1> QED
  BY <1>1, <1>2, <1>3, <1>4, <1>5 DEF HoldInv

\* One driver is elsewhere than it was.
LEMMA HeldMoves ==
    ASSUME IInv, HoldInv, RunGoesOn, UNCHANGED <<acting, task, up>>, NEW g \in Generations, NEW d,
           drivers' = [drivers EXCEPT ![g] = d],
           d.aborted = drivers[g].aborted \/ (d.pc = "done" /\ ~d.aborted),
           (g = model.generation /\ model'.state = "running") => d.pc \notin {"none", "done"},
           d.pc = "recordFail" => drivers[g].pc = "recordFail" \/ model'.state = "failed" \/ g # model.generation,
           drivers[g].pc \in Spent => d.pc \in Spent
    PROVE  HoldInv'
<1>1. drivers'[g] = d /\ \A h \in Generations : h # g => drivers'[h] = drivers[h]
  BY DEF IInv, TypeInv, TypeOK
<1>2. HeldOn(g)
  BY <1>1 DEF HeldOn, Spent
<1>3. \A h \in Generations : h # g => HeldOn(h)
  BY <1>1 DEF HeldOn
<1> QED
  BY <1>2, <1>3, HoldKeeps
-----------------------------------------------------------------------------
\* A driver carries its run on, ends, fails or finishes (run.rs, drive).
LEMMA HoldDrive ==
    ASSUME IInv, OrderInv, HoldInv, NEW g \in Generations, Drive(g)
    PROVE  HoldInv'
<1>0. model \in Models /\ drivers[g] \in Drivers /\ drivers \in [Generations -> Drivers]
  BY DEF IInv, TypeInv, TypeOK
<1>h. g = model.generation => OnStep(drivers[g])
  BY DEF OrderInv, DriverOnStep
<1>u. UNCHANGED <<acting, task, up>>
  BY DEF Drive, AskAhead, DriverBegins, DriverRecorded, DriverPasses, DriverFails, Settles, DriverForgets,
     DriverClears,
         context, outside
<1>e. ASSUME drivers' = Ended(g), RunGoesOn, g = model.generation => model'.state # "running"
      PROVE  HoldInv'
  <2> DEFINE d == [NoDriver EXCEPT !.pc = "done", !.job = drivers[g].job, !.snap = drivers[g].snap]
  <2>1. drivers' = [drivers EXCEPT ![g] = d]
    BY <1>e DEF Ended
  <2>2. d.pc = "done" /\ ~d.aborted
    BY DEF NoDriver
  <2> HIDE DEF d
  <2> QED
    BY <1>e, <1>u, <2>1, <2>2, HeldMoves DEF Spent
<1>m. ASSUME NEW d, drivers' = [drivers EXCEPT ![g] = d], RunGoesOn, d.aborted = drivers[g].aborted,
             d.pc \notin {"none", "done"}, d.pc = "recordFail" => model'.state = "failed" \/ g # model.generation,
             drivers[g].pc \in Spent => d.pc \in Spent
      PROVE  HoldInv'
  BY <1>m, <1>u, HeldMoves
<1>1. CASE AskAhead(g)
  <2> DEFINE d == [drivers[g] EXCEPT !.pc = "begin"]
  <2>1. drivers[g].pc = "top" /\ drivers' = [drivers EXCEPT ![g] = d] /\ RunGoesOn
    BY <1>0, <1>1 DEF AskAhead, Move, RunGoesOn, Models
  <2>2. d.pc = "begin" /\ d.aborted = drivers[g].aborted
    BY <1>0 DEF Drivers
  <2> HIDE DEF d
  <2> QED
    BY <1>m, <2>1, <2>2 DEF Spent, Clearing
<1>2. CASE DriverBegins(g)
  <2>1. CASE model.generation # g
    <3>1. drivers' = Ended(g) /\ RunGoesOn
      BY <1>2, <2>1 DEF DriverBegins, RunGoesOn
    <3> QED
      BY <1>e, <2>1, <3>1
  <2>2. CASE model.generation = g /\ NextStep(model) = NoStep
    <3> DEFINE d == [drivers[g] EXCEPT !.pc = "forget"]
    <3>1. drivers[g].pc = "begin" /\ drivers' = [drivers EXCEPT ![g] = d] /\ model' = Finish(model)
      BY <1>2, <2>2 DEF DriverBegins, Move
    <3>2. model.state = "running"
      BY <1>h, <2>2, <3>1 DEF OnStep, BetweenSteps, Clearing
    <3>3. RunGoesOn
      BY <1>0, <3>1, <3>2 DEF Finish, Models, RunGoesOn
    <3>4. d.pc = "forget" /\ d.aborted = drivers[g].aborted
      BY <1>0 DEF Drivers
    <3> HIDE DEF d
    <3> QED
      BY <1>m, <3>1, <3>3, <3>4 DEF Spent, Clearing
  <2>3. CASE model.generation = g /\ NextStep(model) # NoStep
    <3> DEFINE d == [drivers[g] EXCEPT !.pc = "recordBegin", !.step = NextStep(model), !.job = "queued"]
    <3>1. drivers[g].pc = "begin" /\ drivers' = [drivers EXCEPT ![g] = d] /\ model' = BeginNext(model)
      BY <1>2, <2>3 DEF DriverBegins
    <3>2. RunGoesOn
      BY <1>0, <3>1 DEF BeginNext, Models, RunGoesOn
    <3>3. d.pc = "recordBegin" /\ d.aborted = drivers[g].aborted
      BY <1>0 DEF Drivers
    <3> HIDE DEF d
    <3> QED
      BY <1>m, <3>1, <3>2, <3>3 DEF Spent, Clearing
  <2> QED
    BY <2>1, <2>2, <2>3
<1>3. CASE DriverRecorded(g)
  <2> DEFINE on == CASE drivers[g].pc = "recordBegin" /\ drivers[g].job = "ok" -> "exec"
                     [] drivers[g].pc = "recordBegin" /\ drivers[g].job = "err" -> "fail"
                     [] drivers[g].pc = "recordPass" -> "top"
                     [] drivers[g].pc = "recordFail" -> "done"
             d == IF on = "done" THEN [NoDriver EXCEPT !.pc = "done"] ELSE [drivers[g] EXCEPT !.pc = on, !.job = "none"]
  <2>1. /\ drivers[g].pc \in {"recordBegin", "recordPass", "recordFail"} /\ drivers[g].job \in {"ok", "err"}
        /\ drivers' = [drivers EXCEPT ![g] = d] /\ UNCHANGED model /\ RunGoesOn
    BY <1>3 DEF DriverRecorded, RunGoesOn
  <2>2. \/ drivers[g].pc = "recordBegin" /\ on \in {"exec", "fail"}
        \/ drivers[g].pc = "recordPass" /\ on = "top"
        \/ drivers[g].pc = "recordFail" /\ on = "done"
    BY <2>1
  <2> HIDE DEF on
  <2>3. d.pc = on /\ (on = "done" => ~d.aborted) /\ (on # "done" => d.aborted = drivers[g].aborted)
    BY <1>0 DEF Drivers, NoDriver
  <2> HIDE DEF d
  <2>4. g = model.generation /\ on = "done" => model'.state # "running"
    BY <2>1, <2>2 DEF HoldInv, FailureIsHeld
  <2> QED
    BY <1>u, <2>1, <2>2, <2>3, <2>4, HeldMoves DEF Spent, Clearing
<1>4. ASSUME NEW m, NEW pc \in {"recordPass", "recordFail"}, Settles(g, m, pc), drivers[g].pc \in {"pass", "fail"},
             m.generation = model.generation,
             (m.state = model.state /\ pc = "recordPass") \/ m.state = "failed"
      PROVE  HoldInv'
  <2>1. CASE model.generation # g
    <3>1. drivers' = Ended(g) /\ RunGoesOn
      BY <1>4, <2>1 DEF Settles, RunGoesOn
    <3> QED
      BY <1>e, <2>1, <3>1
  <2>2. CASE model.generation = g
    <3> DEFINE d == [drivers[g] EXCEPT !.pc = pc, !.job = "queued"]
    <3>1. drivers' = [drivers EXCEPT ![g] = d] /\ model' = m
      BY <1>4, <2>2 DEF Settles
    <3>2. RunGoesOn
      BY <1>4, <3>1 DEF RunGoesOn
    <3>3. d.pc = pc /\ d.aborted = drivers[g].aborted
      BY <1>0 DEF Drivers
    <3> HIDE DEF d
    <3> QED
      BY <1>m, <1>4, <3>1, <3>2, <3>3 DEF Spent, Clearing
  <2> QED
    BY <2>1, <2>2
<1>5. CASE DriverPasses(g)
  <2>1. Pass(model, drivers[g].step).generation = model.generation /\ Pass(model, drivers[g].step).state = model.state
    BY <1>0 DEF Pass, Models
  <2> QED
    BY <1>4, <1>5, <2>1 DEF DriverPasses
<1>6. CASE DriverFails(g)
  <2>1. Fail(model, drivers[g].step).generation = model.generation /\ Fail(model, drivers[g].step).state = "failed"
    BY <1>0 DEF Fail, Models
  <2> QED
    BY <1>4, <1>6, <2>1 DEF DriverFails
<1>7. CASE DriverForgets(g)
  <2>1. drivers[g].pc = "forget" /\ RunGoesOn
    BY <1>7 DEF DriverForgets, RunGoesOn
  <2>2. CASE model.generation # g
    BY <1>e, <1>7, <2>1, <2>2 DEF DriverForgets
  <2>3. CASE model.generation = g
    <3> DEFINE d == [drivers[g] EXCEPT !.pc = "clear"]
    <3>1. drivers' = [drivers EXCEPT ![g] = d]
      BY <1>7, <2>3 DEF DriverForgets, Move
    <3>2. d.pc = "clear" /\ d.aborted = drivers[g].aborted
      BY <1>0 DEF Drivers
    <3> HIDE DEF d
    <3> QED
      BY <1>m, <2>1, <3>1, <3>2 DEF Spent, Clearing
  <2> QED
    BY <2>2, <2>3
<1>8. CASE DriverClears(g)
  <2>1. drivers[g].pc = "clear" /\ drivers' = Ended(g) /\ UNCHANGED model /\ RunGoesOn
    BY <1>8 DEF DriverClears, RunGoesOn
  <2>2. g = model.generation => model'.state # "running"
    BY <1>h, <2>1 DEF OnStep, Clearing
  <2> QED
    BY <1>e, <2>1, <2>2
<1> QED
  BY <1>1, <1>2, <1>3, <1>5, <1>6, <1>7, <1>8 DEF Drive
-----------------------------------------------------------------------------
\* A driver's write, a step carried out, and a determination leave who
\* carries which run out as it is.
LEMMA HoldRecord ==
    ASSUME IInv, HoldInv, NEW g \in Generations, Record(g)
    PROVE  HoldInv'
<1>0. drivers[g] \in Drivers /\ drivers \in [Generations -> Drivers]
  BY DEF IInv, TypeInv, TypeOK
<1>a. PICK j \in JobPcs : \E r : drivers' = [drivers EXCEPT ![g] = [drivers[g] EXCEPT !.job = j, !.snap = r]]
  <2>1. CASE RecordReads(g) /\ model.generation = g
    BY <2>1 DEF RecordReads, JobPcs
  <2>2. CASE RecordReads(g) /\ model.generation # g
    <3> DEFINE j == IF drivers[g].pc = "done" THEN "none" ELSE "ok"
    <3>1. drivers' = [drivers EXCEPT ![g] = [drivers[g] EXCEPT !.job = j]]
      BY <2>2 DEF RecordReads
    <3>2. [drivers[g] EXCEPT !.job = j] = [drivers[g] EXCEPT !.job = j, !.snap = drivers[g].snap]
      BY <1>0 DEF Drivers
    <3> QED
      BY <3>1, <3>2 DEF JobPcs
  <2>3. CASE RecordSaves(g)
    BY <2>3 DEF RecordSaves, JobPcs
  <2> QED
    BY <2>1, <2>2, <2>3 DEF Record
<1>1. PICK r : drivers' = [drivers EXCEPT ![g] = [drivers[g] EXCEPT !.job = j, !.snap = r]]
  BY <1>a
<1> DEFINE d == [drivers[g] EXCEPT !.job = j, !.snap = r]
<1>2. d.pc = drivers[g].pc /\ d.aborted = drivers[g].aborted
  BY <1>0 DEF Drivers
<1>3. UNCHANGED <<model, acting, task, up>> /\ RunGoesOn
  BY DEF Record, RecordReads, RecordSaves, outside, RunGoesOn
<1>4. drivers' = [drivers EXCEPT ![g] = d]
  BY <1>1
<1> HIDE DEF d
<1>5. drivers'[g] = d /\ \A h \in Generations : h # g => drivers'[h] = drivers[h]
  BY <1>0, <1>4
<1>6. \A h \in Generations : HeldOn(h)
  BY <1>2, <1>5 DEF HeldOn
<1> QED
  BY <1>3, <1>6, HoldKeeps

\* A step carried out moves only its own driver, to no nearer its end.
LEMMA HoldCarryOut ==
    ASSUME IInv, HoldInv, NEW g \in Generations, CarryOut(g) \/ \E ok \in BOOLEAN : StepEnds(g, ok)
    PROVE  HoldInv'
<1>1. drivers[g].pc \in Carrying /\ RunGoesOn /\ UNCHANGED <<acting, task, up>>
  BY CarriedOut DEF SameHeld, RunGoesOn
<1>2. PICK d : /\ drivers' = [drivers EXCEPT ![g] = d]
               /\ d.pc \in Carrying \cup {"pass", "fail"} /\ d.aborted = drivers[g].aborted
  BY CarriedOut
<1> QED
  BY <1>1, <1>2, HeldMoves DEF Carrying, Spent, Clearing

\* What touches no driver, act or task keeps the invariant.
LEMMA HoldQuiet ==
    ASSUME IInv, HoldInv, RunGoesOn, UNCHANGED <<acting, drivers, task, up>>
    PROVE  HoldInv'
<1>1. \A g \in Generations : HeldOn(g)
  BY DEF HeldOn
<1> QED
  BY <1>1, HoldKeeps

\* A determination leaves the run with its driver (run.rs, determine).
LEMMA HoldDetermine ==
    ASSUME IInv, HoldInv, Determine
    PROVE  HoldInv'
<1>1. UNCHANGED <<acting, drivers, task, up>>
  BY DEF Determine, DetermineBegins, DetermineReads, DetermineApplies, outside
<1>2. RunGoesOn
  BY DEF Determine, DetermineBegins, DetermineReads, DetermineApplies, RunGoesOn, IInv, TypeInv, TypeOK, Models
<1> QED
  BY <1>1, <1>2, HoldQuiet

\* An act that begins a generation finds the run before it over, failed or
\* waiting, with its driver spent or its handle held.
LEMMA HoldNewGeneration ==
    ASSUME Alone, IInv, OrderInv, HoldInv, NEW a \in FrontEnds, NEW pc \in {"spawn", "abort"},
           up, acting[a].pc = "idle", model.generation < MaxGeneration,
           model'.generation = model.generation + 1,
           acting' = [acting EXCEPT ![a] = [pc |-> pc, generation |-> model'.generation]],
           UNCHANGED <<drivers, task, up>>,
           pc = "spawn" => model.state \in {"idle", "finished", "failed"},
           pc = "abort" => model'.state = "idle" /\ model.state \in {"running", "failed", "finished"}
    PROVE  HoldInv'
<1>1. /\ model.generation \in Nat /\ model'.generation \in Generations /\ task \in Nat
      /\ task = 0 \/ task \in Generations
  BY GenerationIsNat DEF Generations
<1>2. /\ acting'[a] = [pc |-> pc, generation |-> model'.generation]
      /\ \A b \in FrontEnds : b = a
  BY DEF IInv, TypeInv, TypeOK, Alone
<1>3. ~InAct /\ task <= model.generation
  BY <1>2 DEF InAct, HoldInv, TaskIsEarlier
<1>4. IsBlank(drivers[model'.generation])
  BY <1>1 DEF IInv, RecordInv, FutureBlank
<1>5. ActIsLatest'
  BY <1>2 DEF ActIsLatest
<1>6. TaskIsEarlier' /\ OffIsNew'
  BY <1>1, <1>3 DEF TaskIsEarlier, OffIsNew
<1>7. NotAborted'
  BY <1>1, GenerationsAreNat DEF HoldInv, NotAborted
<1>8. IsCarried'
  BY <1>1, <1>2 DEF IsCarried
<1>9. FailureIsHeld'
  BY <1>4 DEF FailureIsHeld, IsBlank
<1>10. EarlierIsSpent'
  <2> SUFFICES ASSUME NEW g \in Generations, g < model.generation + 1
               PROVE  \/ drivers[g].aborted \/ drivers[g].pc \in Spent
                      \/ task = g /\ pc = "abort"
    BY <1>2 DEF EarlierIsSpent
  <2>1. g < model.generation \/ g = model.generation
    BY <1>1, GenerationsAreNat
  <2>2. CASE g < model.generation
    BY <1>3, <2>2 DEF HoldInv, EarlierIsSpent, InAct
  <2>3. CASE g = model.generation /\ model.state # "running"
    <3>1. OnStep(drivers[g]) /\ drivers[g].pc \in DriverPcs
      BY <2>3 DEF OrderInv, DriverOnStep, IInv, TypeInv, TypeOK, Drivers
    <3> QED
      BY <2>3, <3>1 DEF OnStep, InHand, BetweenSteps, Carrying, Clearing, Spent, DriverPcs, Parked
  <2>4. CASE g = model.generation /\ model.state = "running"
    BY <1>3, <2>4 DEF HoldInv, IsCarried, InAct
  <2> QED
    BY <2>1, <2>2, <2>3, <2>4
<1> QED
  BY <1>5, <1>6, <1>7, <1>8, <1>9, <1>10 DEF HoldInv

\* What the front end asks for (run.rs, act).
LEMMA HoldActs ==
    ASSUME Alone, IInv, OrderInv, HoldInv, NEW a \in FrontEnds, Act(a)
    PROVE  HoldInv'
<1>0. model \in Models
  BY DEF IInv, TypeInv, TypeOK
<1>1. CASE \E chosen \in SUBSET Steps : ActStart(a, chosen)
  <2>1. PICK chosen \in SUBSET Steps : ActStart(a, chosen)
    BY <1>1
  <2>2. /\ up /\ acting[a].pc = "idle" /\ model.generation < MaxGeneration /\ model' = BeginRun(model, chosen)
        /\ acting' = [acting EXCEPT ![a] = [pc |-> "spawn", generation |-> model'.generation]]
        /\ UNCHANGED <<drivers, task, up>>
    BY <2>1 DEF ActStart, Begins, outside
  <2>3. model.state \in {"idle", "finished", "failed"}
    BY <1>0, <2>1 DEF ActStart, RunState, Models
  <2>4. model'.generation = model.generation + 1
    BY <1>0, <2>2, BeginRunType
  <2> QED
    BY <2>2, <2>3, <2>4, HoldNewGeneration
<1>2. CASE ActRetry(a)
  <2>1. /\ up /\ acting[a].pc = "idle" /\ model.generation < MaxGeneration /\ model' = Retry(model)
        /\ acting' = [acting EXCEPT ![a] = [pc |-> "spawn", generation |-> model'.generation]]
        /\ UNCHANGED <<drivers, task, up>>
    BY <1>2 DEF ActRetry, Begins, outside
  <2>2. model.state = "failed"
    BY <1>2 DEF ActRetry, RunState
  <2>3. model'.generation = model.generation + 1
    BY <1>0, <2>1, RetryType
  <2> QED
    BY <2>1, <2>2, <2>3, HoldNewGeneration
<1>3. CASE ActEnd(a)
  <2>1. /\ up /\ acting[a].pc = "idle" /\ model.generation < MaxGeneration /\ model' = EndRun(model)
        /\ acting' = [acting EXCEPT ![a] = [pc |-> "abort", generation |-> model'.generation]]
        /\ UNCHANGED <<drivers, task, up>>
    BY <1>3 DEF ActEnd, outside
  <2>2. model.state \in {"running", "failed", "finished"}
    BY <1>0, <1>3 DEF ActEnd, RunState, Models, RunStates
  <2>3. model'.generation = model.generation + 1 /\ model'.state = "idle"
    BY <1>0, <2>1, EndRunType, EndRunInOrder
  <2> QED
    BY <2>1, <2>2, <2>3, HoldNewGeneration
<1>4. CASE Attach(a)
  <2>1. RunGoesOn /\ UNCHANGED <<acting, drivers, task, up>>
    BY <1>4 DEF Attach, RunGoesOn
  <2> QED
    BY <2>1, HoldQuiet
<1>5. CASE \E p \in model.prompts : ActAnswer(a, p)
  <2>1. PICK p \in model.prompts : ActAnswer(a, p)
    BY <1>5
  <2>2. p.key \in AnswerKeys /\ model' = AnswerPrompt(model, p) /\ UNCHANGED <<acting, task, up>>
    BY <2>1 DEF ActAnswer, outside
  <2>3. RunGoesOn
    BY <1>0, <2>2, AnswerTypes DEF SameRun, RunGoesOn
  <2>4. ASSUME NEW g \in Generations PROVE HeldOn(g)
    <3>1. drivers[g] \in Drivers
      BY DEF IInv, TypeInv, TypeOK
    <3>2. \/ drivers'[g] = drivers[g]
          \/ drivers[g].pc = "need" /\ drivers'[g] = [drivers[g] EXCEPT !.pc = "exec", !.key = "none"]
      BY <2>1 DEF ActAnswer
    <3>3. LET d == [drivers[g] EXCEPT !.pc = "exec", !.key = "none"]
          IN  d.pc = "exec" /\ d.aborted = drivers[g].aborted
      BY <3>1 DEF Drivers
    <3> QED
      BY <3>2, <3>3 DEF HeldOn, Spent, Clearing
  <2> QED
    BY <2>2, <2>3, <2>4, HoldKeeps
<1> QED
  BY <1>1, <1>2, <1>3, <1>4, <1>5 DEF Act
-----------------------------------------------------------------------------
\* What an act does once the lock is dropped.
LEMMA HoldActGoesOn ==
    ASSUME Alone, IInv, OrderInv, HoldInv, NEW a \in FrontEnds, ActGoesOn(a)
    PROVE  HoldInv'
<1>0. /\ drivers \in [Generations -> Drivers] /\ acting \in [FrontEnds -> [pc : ActingPcs, generation : 0..MaxGeneration]]
      /\ \A b \in FrontEnds : b = a
  BY DEF IInv, TypeInv, TypeOK, Alone
<1>n. /\ model.generation \in Nat /\ task \in Nat
      /\ task = 0 \/ task \in Generations
  BY GenerationIsNat
<1>1. /\ acting[a].pc # "idle" /\ acting[a].generation = model.generation /\ model.generation \in Generations
      /\ InAct /\ task < model.generation /\ UNCHANGED <<model, up>>
  <2>1. acting[a].pc # "idle" /\ UNCHANGED <<model, up>>
    BY DEF ActGoesOn, DriveSoon, KeepTask, AbortTask, ForgetRun, ClearMedium, outside
  <2> QED
    BY <2>1 DEF HoldInv, ActIsLatest, TaskIsEarlier, InAct, IInv, RecordInv, FutureBlank
<1>2. OfHeld(acting[a])
  BY <1>1 DEF OrderInv, ActsOfHeld
<1>3. CASE DriveSoon(a)
  <2> DEFINE g == model.generation
             e == [acting[a] EXCEPT !.pc = "store"]
             d == [drivers[g] EXCEPT !.pc = "top"]
  <2>1. /\ acting[a].pc = "spawn" /\ UNCHANGED task
        /\ drivers' = [drivers EXCEPT ![g] = d] /\ acting' = [acting EXCEPT ![a] = e]
    BY <1>1, <1>3 DEF DriveSoon, ActingMoves
  <2>2. /\ e.pc = "store" /\ e.generation = g /\ d.pc = "top" /\ d.aborted = drivers[g].aborted
    BY <1>0, <1>1 DEF Drivers
  <2> HIDE DEF d, e
  <2>3. acting'[a] = e /\ drivers'[g] = d /\ \A h \in Generations : h # g => drivers'[h] = drivers[h]
    BY <1>0, <1>1, <2>1
  <2>4. ActIsLatest' /\ TaskIsEarlier' /\ OffIsNew'
    BY <1>0, <1>1, <2>1, <2>2, <2>3 DEF HoldInv, ActIsLatest, TaskIsEarlier, OffIsNew
  <2>5. NotAborted' /\ FailureIsHeld'
    BY <1>1, <2>2, <2>3 DEF HoldInv, NotAborted, FailureIsHeld
  <2>6. IsCarried'
    BY <1>1, <2>2, <2>3 DEF IsCarried
  <2>7. EarlierIsSpent'
    BY <1>0, <1>1, <2>1, <2>3 DEF HoldInv, EarlierIsSpent
  <2> QED
    BY <2>4, <2>5, <2>6, <2>7 DEF HoldInv
<1>4. CASE KeepTask(a)
  <2>1. /\ acting[a].pc = "store" /\ task' = model.generation /\ acting' = [acting EXCEPT ![a] = Idle]
        /\ UNCHANGED drivers
    BY <1>1, <1>4 DEF KeepTask
  <2>2. acting'[a].pc = "idle" /\ ~InAct'
    BY <1>0, <2>1 DEF Idle, InAct
  <2>3. ActIsLatest' /\ TaskIsEarlier' /\ OffIsNew'
    BY <1>1, <1>n, <2>1, <2>2 DEF ActIsLatest, TaskIsEarlier, InAct, HoldInv, OffIsNew
  <2>4. NotAborted' /\ FailureIsHeld'
    BY <1>1, <2>1 DEF HoldInv, NotAborted, FailureIsHeld
  <2>5. IsCarried'
    BY <1>0, <1>1, <2>1 DEF HoldInv, IsCarried
  <2>6. EarlierIsSpent'
    BY <1>0, <1>1, <2>1 DEF HoldInv, EarlierIsSpent
  <2> QED
    BY <2>3, <2>4, <2>5, <2>6 DEF HoldInv
<1>5. CASE AbortTask(a)
  <2> DEFINE e == [acting[a] EXCEPT !.pc = "forget"]
  <2>1. /\ acting[a].pc = "abort" /\ task' = 0 /\ acting' = [acting EXCEPT ![a] = e]
        /\ drivers' = IF task = 0 THEN drivers
                      ELSE IF drivers[task].pc \in Parked THEN Ended(task)
                      ELSE [drivers EXCEPT ![task].aborted = TRUE]
    BY <1>5 DEF AbortTask, ActingMoves
  <2>2. e.pc = "forget" /\ e.generation = model.generation
    BY <1>0, <1>1
  <2> HIDE DEF e
  <2>3. acting'[a] = e /\ model.state = "idle"
    BY <1>0, <1>2, <2>1 DEF OfHeld
  <2>4. \A h \in Generations : h # task => drivers'[h] = drivers[h]
    BY <1>0, <2>1 DEF Ended
  <2>5. task \in Generations => drivers'[task].aborted \/ drivers'[task].pc = "done"
    <3> SUFFICES ASSUME task \in Generations PROVE drivers'[task].aborted \/ drivers'[task].pc = "done"
      OBVIOUS
    <3>1. task # 0 /\ drivers[task] \in Drivers
      BY <1>0, GenerationsAreNat
    <3>2. CASE drivers[task].pc \in Parked
      BY <1>0, <2>1, <3>1, <3>2 DEF Ended, NoDriver
    <3>3. CASE drivers[task].pc \notin Parked
      BY <1>0, <2>1, <3>1, <3>3 DEF Drivers
    <3> QED
      BY <3>2, <3>3
  <2>6. ActIsLatest' /\ TaskIsEarlier' /\ OffIsNew'
    BY <1>0, <1>1, <1>n, <2>1, <2>2, <2>3 DEF ActIsLatest, TaskIsEarlier, HoldInv, OffIsNew
  <2>7. NotAborted' /\ FailureIsHeld'
    BY <1>1, <1>n, <2>4, GenerationsAreNat DEF HoldInv, NotAborted, FailureIsHeld
  <2>8. IsCarried'
    BY <1>1, <2>3 DEF IsCarried
  <2>9. EarlierIsSpent'
    BY <1>1, <2>4, <2>5 DEF HoldInv, EarlierIsSpent, Spent
  <2> QED
    BY <2>6, <2>7, <2>8, <2>9 DEF HoldInv
<1>6. CASE ForgetRun(a) \/ ClearMedium(a)
  <2>1. acting[a].pc \in {"forget", "clear"} /\ UNCHANGED <<drivers, task>> /\ acting[a].pc # "abort"
    BY <1>6 DEF ForgetRun, ClearMedium
  <2>2. acting'[a].pc # "idle" => acting'[a].generation = model.generation
    <3>1. [acting[a] EXCEPT !.pc = "clear"].generation = model.generation
      BY <1>0, <1>1
    <3>2. acting' = [acting EXCEPT ![a] = [acting[a] EXCEPT !.pc = "clear"]] \/ acting' = [acting EXCEPT ![a] = Idle]
      BY <1>6 DEF ForgetRun, ClearMedium, ActingMoves
    <3> QED
      BY <1>0, <3>1, <3>2 DEF Idle
  <2>3. model.state = "idle"
    BY <1>2, <2>1 DEF OfHeld
  <2>4. ActIsLatest' /\ TaskIsEarlier' /\ OffIsNew'
    BY <1>0, <1>1, <1>n, <2>1, <2>2 DEF ActIsLatest, TaskIsEarlier, HoldInv, OffIsNew
  <2>5. NotAborted' /\ FailureIsHeld' /\ IsCarried'
    BY <1>1, <2>1, <2>3 DEF HoldInv, NotAborted, FailureIsHeld, IsCarried
  <2>6. EarlierIsSpent'
    BY <1>0, <1>1, <2>1 DEF HoldInv, EarlierIsSpent
  <2> QED
    BY <2>4, <2>5, <2>6 DEF HoldInv
<1> QED
  BY <1>3, <1>4, <1>5, <1>6 DEF ActGoesOn

\* A restart holds the task of the run it adopts.
LEMMA HoldRestart ==
    ASSUME IInv, OrderInv, HoldInv, Restart
    PROVE  HoldInv'
<1>0. /\ drivers \in [Generations -> Drivers] /\ acting \in [FrontEnds -> [pc : ActingPcs, generation : 0..MaxGeneration]]
      /\ medium \in Stored
  BY DEF IInv, TypeInv, TypeOK
<1>1. CASE Crash
  <2>1. /\ ~up' /\ model' = New /\ drivers' = [g \in Generations |-> NoDriver] /\ task' = 0
        /\ acting' = [a \in FrontEnds |-> Idle]
    BY <1>1 DEF Crash
  <2>2. model'.generation = 0 /\ ~InAct'
    BY <2>1, NewType DEF InAct, Idle
  <2> QED
    BY <2>1, <2>2, GenerationsAreNat
    DEF HoldInv, ActIsLatest, TaskIsEarlier, InAct, NotAborted, IsCarried, FailureIsHeld, EarlierIsSpent, OffIsNew, NoDriver, Idle
<1>2. ASSUME ~up
      PROVE  /\ \A g \in Generations : drivers[g].pc = "none" /\ ~drivers[g].aborted
             /\ \A a \in FrontEnds : acting[a].pc = "idle"
             /\ model.generation = 0 /\ model.state = "idle" /\ task = 0
  <2>1. model.generation = 0 /\ task <= 0 /\ task \in Nat
    BY <1>2, GenerationIsNat DEF HoldInv, OffIsNew, TaskIsEarlier
  <2>2. \A g \in Generations : g >= model.generation
    BY <2>1, GenerationsAreNat
  <2> QED
    BY <1>2, <2>1, <2>2 DEF IInv, RecordInv, OffIsBlank, IsBlank, OrderInv, LostIsKept, HoldInv, NotAborted
<1>3. CASE ResumeWithout \/ (Resume /\ medium = NoRun)
  <2>1. ~up /\ UNCHANGED <<model, drivers, acting, task>>
    BY <1>3 DEF ResumeWithout, Resume
  <2>2. /\ \A g \in Generations : drivers[g].pc = "none" /\ ~drivers[g].aborted
        /\ \A a \in FrontEnds : acting[a].pc = "idle"
        /\ model.generation = 0 /\ model.state = "idle" /\ task = 0
    BY <1>2, <2>1
  <2> QED
    BY <2>1, <2>2, GenerationsAreNat
    DEF HoldInv, ActIsLatest, TaskIsEarlier, InAct, NotAborted, IsCarried, FailureIsHeld, EarlierIsSpent, OffIsNew, Spent
<1>4. CASE Resume /\ medium # NoRun
  <2>1. /\ ~up /\ up' /\ UNCHANGED acting /\ model' = Adopted(medium)
        /\ medium.failed = NoStep => drivers' = [drivers EXCEPT ![1] = [drivers[1] EXCEPT !.pc = "top"]] /\ task' = 1
        /\ medium.failed # NoStep => drivers' = drivers /\ task' = task
    BY <1>4 DEF Resume
  <2>2. /\ \A g \in Generations : drivers[g].pc = "none" /\ ~drivers[g].aborted
        /\ \A a \in FrontEnds : acting[a].pc = "idle"
        /\ task = 0
    BY <1>2, <2>1
  <2>3. model'.generation = 1 /\ model'.state = IF medium.failed = NoStep THEN "running" ELSE "failed"
    BY <1>0, <2>1, AdoptedInOrder, AdoptedType DEF OrderInv, OrderKept
  <2>4. 1 \in Generations
    BY RunAssumption DEF Generations
  <2>5. /\ \A g \in Generations : drivers'[g].pc \in {"none", "top"} /\ ~drivers'[g].aborted
        /\ medium.failed = NoStep => drivers'[1].pc = "top"
    <3>1. LET d == [drivers[1] EXCEPT !.pc = "top"] IN d.pc = "top" /\ ~d.aborted
      BY <1>0, <2>2, <2>4 DEF Drivers
    <3>2. medium.failed = NoStep =>
            drivers'[1] = [drivers[1] EXCEPT !.pc = "top"] /\ \A g \in Generations : g # 1 => drivers'[g] = drivers[g]
      BY <1>0, <2>1, <2>4
    <3> QED
      BY <2>1, <2>2, <3>1, <3>2
  <2>6. ActIsLatest' /\ TaskIsEarlier' /\ OffIsNew'
    BY <2>1, <2>2, <2>3 DEF ActIsLatest, TaskIsEarlier, InAct, OffIsNew
  <2>7. NotAborted' /\ FailureIsHeld'
    BY <2>5 DEF NotAborted, FailureIsHeld
  <2>8. IsCarried'
    BY <2>1, <2>3, <2>4, <2>5 DEF IsCarried
  <2>9. EarlierIsSpent'
    BY <2>3, GenerationsAreNat DEF EarlierIsSpent
  <2> QED
    BY <2>6, <2>7, <2>8, <2>9 DEF HoldInv
<1> QED
  BY <1>1, <1>3, <1>4 DEF Restart

\* Every step keeps who carries which run out.
LEMMA HoldStep == Alone /\ IInv /\ OrderInv /\ HoldInv /\ [Next]_vars => HoldInv'
<1> SUFFICES ASSUME Alone, IInv, OrderInv, HoldInv, [Next]_vars PROVE HoldInv'
  OBVIOUS
<1>1. CASE UNCHANGED vars
  <2>1. RunGoesOn /\ UNCHANGED <<acting, drivers, task, up>>
    BY <1>1 DEF vars, RunGoesOn
  <2> QED
    BY <2>1, HoldQuiet
<1>2. CASE Next
  BY <1>2, HoldActs, HoldActGoesOn, HoldDrive, HoldRecord, HoldCarryOut, HoldDetermine, HoldRestart DEF Next
<1> QED
  BY <1>1, <1>2
-----------------------------------------------------------------------------
\* A device that stays at rest, with the board as it was or an act about
\* to have it determined.
LEMMA RestKeeps ==
    ASSUME Determined,
           (up' /\ AtRest(model')) =>
              /\ up /\ AtRest(model) /\ model'.checked = model.checked /\ model'.done = model.done
              /\ UNCHANGED <<queued, reading>>
              /\ \A a \in FrontEnds : acting[a].pc \in Ending => acting'[a].pc \in Ending
              /\ \A g \in Generations : drivers[g].pc \in Clearing => drivers'[g].pc \in Clearing
              /\ board' = board \/ \E a \in FrontEnds : acting[a].pc \in Ending
    PROVE  Determined'
<1> SUFFICES ASSUME up', AtRest(model'), ~(queued' > 0),
                    ~\E a \in FrontEnds : acting'[a].pc \in Ending,
                    ~\E g \in Generations : drivers'[g].pc \in Clearing
             PROVE  \/ reading'.pc = "reading" /\ \A s \in Steps : reading'.found[s] \in {"unread", board'[s]}
                    \/ reading'.pc = "idle" /\ model'.checked /\ model'.done = Undone(board')
  BY DEF Determined
<1>1. board' = board
  OBVIOUS
<1>2. \/ reading.pc = "reading" /\ \A s \in Steps : reading.found[s] \in {"unread", board[s]}
      \/ reading.pc = "idle" /\ model.checked /\ model.done = Undone(board)
  BY DEF Determined
<1> QED
  BY <1>1, <1>2

\* At rest only what is over is carried out for the run held, and an
\* earlier run's driver changes the board only if an act is about to abort
\* it.
LEMMA AtRestIdle ==
    ASSUME IInv, OrderInv, HoldInv, AtRest(model), NEW g \in Generations,
           drivers[g].pc \notin {"none", "done"} \cup Clearing
    PROVE  /\ g # model.generation
           /\ (~drivers[g].aborted /\ drivers[g].pc # "recordFail") =>
                 \E a \in FrontEnds : acting[a].pc \in Ending
<1>1. g # model.generation
  BY DEF OrderInv, DriverOnStep, OnStep
<1>2. g < model.generation
  <2>1. ~(g > model.generation)
    BY DEF IInv, RecordInv, FutureBlank, IsBlank
  <2> QED
    BY <1>1, <2>1, GenerationIsNat, GenerationsAreNat
<1> QED
  BY <1>1, <1>2 DEF HoldInv, EarlierIsSpent, Spent, Ending

\* A driver that ends its run has the board determined again, and one of
\* an earlier run leaves the board alone (run.rs, drive and finish).
LEMMA DeterminedDrive ==
    ASSUME IInv, OrderInv, HoldInv, Determined, NEW g \in Generations, Drive(g)
    PROVE  Determined'
<1>0. model \in Models /\ drivers[g] \in Drivers /\ drivers \in [Generations -> Drivers] /\ queued \in Nat
  BY DEF IInv, TypeInv, TypeOK
<1>h. g = model.generation => OnStep(drivers[g])
  BY DEF OrderInv, DriverOnStep
<1>1. CASE DriverBegins(g) /\ g = model.generation /\ NextStep(model) = NoStep
  <2> DEFINE d == [drivers[g] EXCEPT !.pc = "forget"]
  <2>1. drivers' = [drivers EXCEPT ![g] = d]
    BY <1>1 DEF DriverBegins, Move
  <2>2. d.pc = "forget"
    BY <1>0 DEF Drivers
  <2> HIDE DEF d
  <2>3. drivers'[g].pc = "forget"
    BY <1>0, <2>1, <2>2
  <2> QED
    BY <2>3 DEF Determined, Clearing
<1>2. CASE DriverForgets(g)
  <2>1. CASE model.generation = g
    <3> DEFINE d == [drivers[g] EXCEPT !.pc = "clear"]
    <3>1. drivers' = [drivers EXCEPT ![g] = d]
      BY <1>2, <2>1 DEF DriverForgets, Move
    <3>2. d.pc = "clear"
      BY <1>0 DEF Drivers
    <3> HIDE DEF d
    <3>3. drivers'[g].pc = "clear"
      BY <1>0, <3>1, <3>2
    <3> QED
      BY <3>3 DEF Determined, Clearing
  <2>2. CASE model.generation # g
    BY <1>0, <1>2, <2>2 DEF DriverForgets, Determined
  <2> QED
    BY <2>1, <2>2
<1>3. CASE DriverClears(g)
  BY <1>0, <1>3 DEF DriverClears, Determined
<1>4. ASSUME drivers[g].pc \notin {"none", "done"} \cup Clearing,
             AtRest(model') => AtRest(model), AtRest(model) => UNCHANGED model,
             UNCHANGED <<acting, queued, reading, up>>,
             \A h \in Generations : h # g => drivers'[h] = drivers[h],
             (AtRest(model) /\ board' # board) => drivers[g].pc # "recordFail" /\ ~drivers[g].aborted
      PROVE  Determined'
  <2>1. AtRest(model) => board' = board \/ \E a \in FrontEnds : acting[a].pc \in Ending
    BY <1>4, AtRestIdle
  <2> QED
    BY <1>4, <2>1, RestKeeps
<1>5. ~DriverForgets(g) /\ ~DriverClears(g) => drivers[g].pc \notin {"none", "done"} \cup Clearing
  BY DEF Drive, AskAhead, DriverBegins, DriverRecorded, DriverPasses, DriverFails, Clearing
<1>6. (AtRest(model) /\ drivers[g].pc \notin {"none", "done"} \cup Clearing) => g # model.generation
  BY AtRestIdle
<1>7. \A h \in Generations : h # g => drivers'[h] = drivers[h]
  BY <1>0 DEF Drive, AskAhead, DriverBegins, DriverRecorded, DriverPasses, DriverFails, Settles, DriverForgets,
              DriverClears, Move, Ended
<1>8. CASE AskAhead(g)
  <2>1. AtRest(model') => AtRest(model)
    BY <1>0, <1>8 DEF AskAhead, AtRest, Models
  <2>2. UNCHANGED <<acting, queued, reading, board, up>> /\ (g # model.generation => UNCHANGED model)
    BY <1>8 DEF AskAhead, outside
  <2>3. drivers[g].pc \notin {"none", "done"} \cup Clearing
    BY <1>8 DEF AskAhead, Clearing
  <2> QED
    BY <1>4, <1>6, <1>7, <2>1, <2>2, <2>3
<1>9. CASE DriverBegins(g) /\ ~(g = model.generation /\ NextStep(model) = NoStep)
  <2>1. AtRest(model') => AtRest(model)
    BY <1>0, <1>9 DEF DriverBegins, BeginNext, AtRest, Models
  <2>2. UNCHANGED <<acting, queued, reading, board, up>> /\ (g # model.generation => UNCHANGED model)
    BY <1>9 DEF DriverBegins, outside
  <2>3. drivers[g].pc \notin {"none", "done"} \cup Clearing
    BY <1>9 DEF DriverBegins, Clearing
  <2> QED
    BY <1>4, <1>6, <1>7, <2>1, <2>2, <2>3
<1>10. CASE DriverRecorded(g)
  <2>1. UNCHANGED <<model, acting, queued, reading, up>> /\ ~drivers[g].aborted
    BY <1>10 DEF DriverRecorded, outside
  <2>2. drivers[g].pc \in {"recordBegin", "recordPass", "recordFail"} /\ drivers[g].job \in {"ok", "err"}
    BY <1>10 DEF DriverRecorded
  <2>3. drivers[g].pc = "recordFail" => board' = board
    <3> SUFFICES ASSUME drivers[g].pc = "recordFail" PROVE board' = board
      OBVIOUS
    <3>1. board' = [t \in Steps |-> board[t]]
      BY <1>10, <2>2 DEF DriverRecorded
    <3> QED
      BY <3>1 DEF IInv, TypeInv, TypeOK
  <2> QED
    BY <1>4, <1>7, <2>1, <2>2, <2>3 DEF Clearing
<1>11. CASE DriverPasses(g) \/ DriverFails(g)
  <2>1. UNCHANGED <<acting, queued, reading, board, up>> /\ (g # model.generation => UNCHANGED model)
    BY <1>11 DEF DriverPasses, DriverFails, Settles, context, outside
  <2>2. drivers[g].pc \in {"pass", "fail"}
    BY <1>11 DEF DriverPasses, DriverFails
  <2>3. AtRest(model') => AtRest(model)
    BY <1>0, <1>11 DEF DriverPasses, DriverFails, Settles, Pass, Fail, AtRest, Models
  <2> QED
    BY <1>4, <1>6, <1>7, <2>1, <2>2, <2>3 DEF Clearing
<1> QED
  BY <1>1, <1>2, <1>3, <1>8, <1>9, <1>10, <1>11 DEF Drive

\* No step is carried out behind the back of a device at rest.
LEMMA DeterminedCarryOut ==
    ASSUME IInv, OrderInv, HoldInv, Determined, NEW g \in Generations,
           CarryOut(g) \/ \E ok \in BOOLEAN : StepEnds(g, ok)
    PROVE  Determined'
<1>1. /\ drivers[g].pc \in Carrying /\ SameHeld
      /\ UNCHANGED <<acting, queued, reading, up>>
  BY CarriedOut
<1>2. PICK d : /\ drivers' = [drivers EXCEPT ![g] = d]
  BY CarriedOut
<1>3. \A h \in Generations : h # g => drivers'[h] = drivers[h]
  BY <1>2 DEF IInv, TypeInv, TypeOK
<1>4. drivers[g].pc \notin {"none", "done", "recordFail"} \cup Clearing
  BY <1>1 DEF Carrying, Clearing
<1>5. AtRest(model') <=> AtRest(model)
  BY <1>1 DEF SameHeld, AtRest
<1>6. g # model.generation => UNCHANGED model
  BY DEF CarryOut, StepNeeds, StepAsksLater, StepTakesDefault, StepForgets, StepNotices, NoticeCloses, StepEnds,
     Mutates
<1>7. board' = board \/ ~drivers[g].aborted
  BY DEF CarryOut, StepNeeds, StepAsksLater, StepTakesDefault, StepForgets, StepNotices, NoticeCloses, StepEnds,
     InStep,
         context
<1>8. AtRest(model) => g # model.generation /\ (board' = board \/ \E a \in FrontEnds : acting[a].pc \in Ending)
  BY <1>4, <1>7, AtRestIdle
<1> QED
  BY <1>1, <1>3, <1>4, <1>5, <1>6, <1>8, RestKeeps

\* A write to the medium is none of the determination's business.
LEMMA DeterminedRecord ==
    ASSUME IInv, Determined, NEW g \in Generations, Record(g)
    PROVE  Determined'
<1>1. UNCHANGED <<model, acting, queued, reading, board, up>>
  BY DEF Record, RecordReads, RecordSaves, outside
<1>2. drivers \in [Generations -> Drivers] /\ drivers[g] \in Drivers
  BY DEF IInv, TypeInv, TypeOK
<1>3. \A h \in Generations : drivers'[h].pc = drivers[h].pc
  BY <1>2 DEF Record, RecordReads, RecordSaves, Drivers
<1> QED
  BY <1>1, <1>3, RestKeeps

\* A determination that is applied is of the board as it stands.
LEMMA DeterminedDetermine ==
    ASSUME IInv, Determined, Determine
    PROVE  Determined'
<1>0. model \in Models /\ queued \in Nat /\ board \in [Steps -> {"done", "notdone"}]
      /\ reading \in [pc : {"idle", "reading"}, found : [Steps -> DoneStates \cup {"unread"}]]
  BY DEF IInv, TypeInv, TypeOK
<1>u. UNCHANGED <<drivers, acting, board, up>> /\ AtRest(model') = AtRest(model)
  BY <1>0 DEF Determine, DetermineBegins, DetermineReads, DetermineApplies, outside, AtRest, Models
<1>1. CASE DetermineBegins
  <2> SUFFICES ASSUME AtRest(model) PROVE Determined'
    BY <1>u DEF Determined
  <2>1. reading'.pc = "reading" /\ \A s \in Steps : reading'.found[s] = "unread"
    BY <1>1 DEF DetermineBegins, NotReading
  <2> QED
    BY <2>1 DEF Determined
<1>2. CASE \E s \in Steps : DetermineReads(s)
  <2>1. PICK s \in Steps : DetermineReads(s)
    BY <1>2
  <2>2. reading.pc = "reading" /\ UNCHANGED <<model, queued>>
    BY <2>1 DEF DetermineReads
  <2>3. /\ reading'.pc = "reading" /\ reading'.found[s] = board[s]
        /\ \A t \in Steps : t # s => reading'.found[t] = reading.found[t]
    BY <1>0, <2>1 DEF DetermineReads
  <2> QED
    BY <1>u, <2>2, <2>3 DEF Determined
<1>3. CASE DetermineApplies
  <2> SUFFICES ASSUME up, AtRest(model), ~(queued > 0),
                      ~\E a \in FrontEnds : acting[a].pc \in Ending,
                      ~\E g \in Generations : drivers[g].pc \in Clearing
               PROVE  reading'.pc = "idle" /\ model'.checked /\ model'.done = Undone(board')
    BY <1>u, <1>3 DEF Determined, DetermineApplies
  <2>1. reading.pc = "reading" /\ \A s \in Steps : reading.found[s] # "unread"
    BY <1>3 DEF DetermineApplies
  <2>2. \A s \in Steps : reading.found[s] = board[s]
    BY <2>1 DEF Determined
  <2>3. reading.found = board
    BY <1>0, <2>2
  <2>4. reading' = NotReading /\ model' = [model EXCEPT !.done = Undone(reading.found), !.checked = TRUE]
    BY <1>3 DEF DetermineApplies
  <2> DEFINE u == Undone(reading.found)
  <2>5. u = Undone(board)
    BY <2>3
  <2> HIDE DEF u
  <2>6. model'.done = u /\ model'.checked
    BY <1>0, <2>4 DEF Models, u
  <2> QED
    BY <1>u, <2>4, <2>5, <2>6 DEF NotReading
<1> QED
  BY <1>1, <1>2, <1>3 DEF Determine

\* Acts determine again what they leave at rest.
LEMMA DeterminedActs ==
    ASSUME Alone, IInv, OrderInv, HoldInv, Determined, NEW a \in FrontEnds, Act(a) \/ ActGoesOn(a)
    PROVE  Determined'
<1>0. /\ model \in Models /\ queued \in Nat
      /\ drivers \in [Generations -> Drivers] /\ acting \in [FrontEnds -> [pc : ActingPcs, generation : 0..MaxGeneration]]
      /\ \A b \in FrontEnds : b = a
  BY DEF IInv, TypeInv, TypeOK, Alone
<1>h. acting[a].pc # "idle" => OfHeld(acting[a])
  BY DEF HoldInv, ActIsLatest, OrderInv, ActsOfHeld
<1>1. CASE (\E chosen \in SUBSET Steps : ActStart(a, chosen)) \/ ActRetry(a)
  <2>1. (\E chosen \in SUBSET Steps : model' = BeginRun(model, chosen)) \/ model' = Retry(model)
    BY <1>1 DEF ActStart, ActRetry, Begins
  <2>2. ASSUME NEW chosen \in SUBSET Steps PROVE BeginRun(model, chosen).state = "running"
    BY <1>0, BeginRunInOrder
  <2>3. model' = Retry(model) => model'.state = "running"
    BY <1>0 DEF Retry, Models
  <2> QED
    BY <2>1, <2>2, <2>3 DEF Determined, AtRest
<1>2. CASE ActEnd(a)
  <2>1. acting' = [acting EXCEPT ![a] = [pc |-> "abort", generation |-> model'.generation]]
    BY <1>2 DEF ActEnd
  <2>2. acting'[a].pc = "abort"
    BY <1>0, <2>1
  <2> QED
    BY <2>2 DEF Determined, Ending
<1>3. CASE Attach(a) \/ ClearMedium(a)
  <2>1. queued' = queued + 1
    BY <1>3 DEF Attach, ClearMedium
  <2>2. queued' > 0
    BY <1>0, <2>1
  <2> QED
    BY <2>2 DEF Determined
<1>4. CASE \E p \in model.prompts : ActAnswer(a, p)
  <2>1. PICK p \in model.prompts : ActAnswer(a, p)
    BY <1>4
  <2>2. p.key \in AnswerKeys /\ model' = AnswerPrompt(model, p) /\ ~AtRest(model)
    BY <2>1 DEF ActAnswer, RunState, AtRest
  <2>3. ~AtRest(model')
    BY <1>0, <2>2, AnswerTypes DEF SameRun, AtRest
  <2> QED
    BY <2>3 DEF Determined
<1>5. CASE DriveSoon(a)
  BY <1>5, <1>h DEF DriveSoon, OfHeld, Determined, AtRest
<1>6. CASE KeepTask(a)
  <2>1. UNCHANGED <<model, drivers, queued, reading, board, up>> /\ acting[a].pc = "store"
    BY <1>6 DEF KeepTask, outside
  <2> QED
    BY <1>0, <2>1, RestKeeps DEF Ending
<1>7. CASE AbortTask(a)
  <2>1. acting' = [acting EXCEPT ![a].pc = "forget"]
    BY <1>7 DEF AbortTask, ActingMoves
  <2>2. acting'[a].pc = "forget"
    BY <1>0, <2>1
  <2> QED
    BY <2>2 DEF Determined, Ending
<1>8. CASE ForgetRun(a)
  <2>1. CASE model.generation = acting[a].generation
    <3>1. acting' = [acting EXCEPT ![a].pc = "clear"]
      BY <1>8, <2>1 DEF ForgetRun, ActingMoves
    <3>2. acting'[a].pc = "clear"
      BY <1>0, <3>1
    <3> QED
      BY <3>2 DEF Determined, Ending
  <2>2. CASE model.generation # acting[a].generation
    BY <1>0, <1>8, <2>2 DEF ForgetRun, Determined
  <2> QED
    BY <2>1, <2>2
<1> QED
  BY <1>1, <1>2, <1>3, <1>4, <1>5, <1>6, <1>7, <1>8 DEF Act, ActGoesOn

\* Every step keeps a device at rest on its way to being determined.
LEMMA DeterminedStep == Alone /\ IInv /\ OrderInv /\ HoldInv /\ Determined /\ [Next]_vars => Determined'
<1> SUFFICES ASSUME Alone, IInv, OrderInv, HoldInv, Determined, [Next]_vars PROVE Determined'
  OBVIOUS
<1>1. CASE UNCHANGED vars
  BY <1>1, RestKeeps DEF vars
<1>2. CASE Restart
  <2>1. CASE Crash
    BY <2>1 DEF Crash, Determined
  <2>2. CASE ResumeWithout \/ (Resume /\ medium = NoRun)
    BY <2>2 DEF ResumeWithout, Resume, Determined
  <2>3. CASE Resume /\ medium # NoRun
    <3>1. model' = Adopted(medium) /\ medium \in Stored
      BY <2>3 DEF Resume, IInv, TypeInv, TypeOK
    <3>2. model'.state \in {"running", "failed"}
      BY <3>1, AdoptedInOrder DEF OrderInv, OrderKept
    <3> QED
      BY <3>2 DEF Determined, AtRest
  <2> QED
    BY <1>2, <2>1, <2>2, <2>3 DEF Restart
<1>3. CASE Next /\ ~Restart
  BY <1>3, DeterminedActs, DeterminedDrive, DeterminedRecord, DeterminedCarryOut, DeterminedDetermine DEF Next
<1> QED
  BY <1>1, <1>2, <1>3
-----------------------------------------------------------------------------
\* At the start nothing is carried out and a determination is queued.
LEMMA HoldInit == Init => HoldInv /\ Determined
<1> SUFFICES ASSUME Init PROVE HoldInv /\ Determined
  OBVIOUS
<1>1. /\ model.generation = 0 /\ model.state = "idle" /\ task = 0 /\ up /\ queued = 1
      /\ \A a \in FrontEnds : acting[a].pc = "idle"
      /\ \A g \in Generations : drivers[g].pc = "none" /\ ~drivers[g].aborted
  BY NewType, NewInOrder DEF Init, Idle, NoDriver
<1>2. ActIsLatest /\ TaskIsEarlier /\ NotAborted /\ IsCarried /\ FailureIsHeld /\ OffIsNew
  BY <1>1 DEF ActIsLatest, TaskIsEarlier, InAct, NotAborted, IsCarried, FailureIsHeld, OffIsNew
<1>3. EarlierIsSpent
  BY <1>1 DEF EarlierIsSpent, Spent
<1>4. Determined
  BY <1>1 DEF Determined
<1> QED
  BY <1>2, <1>3, <1>4 DEF HoldInv

\* With one front end, once no act is under way: a run under way is
\* carried out by the task whose handle is held, so that stopping it stops
\* it; nothing is carried out for a run that was stopped; and a device at
\* rest reports what its steps' checks find on the board, though the
\* determination was begun before a run changed it (run.rs, act, drive,
\* determine).
THEOREM HeldToItsEnd ==
    ASSUME Alone
    PROVE  Spec => []RunIsHeldToItsEnd
<1>1. Init => IInv /\ OrderInv /\ HoldInv /\ Determined
  BY TypeInit, RecordInit, OrderInit, HoldInit DEF IInv
<1>2. IInv /\ OrderInv /\ HoldInv /\ Determined /\ [Next]_vars => (IInv /\ OrderInv /\ HoldInv /\ Determined)'
  BY RecordStep, OrderStep, HoldStep, DeterminedStep
<1>3. IInv /\ OrderInv /\ HoldInv /\ Determined => RunIsHeldToItsEnd
  <2> SUFFICES ASSUME IInv, OrderInv, HoldInv, Determined, Settled
               PROVE  RunIsCarried /\ StoppedStepDropped /\ DoneStatesSettle
    BY DEF RunIsHeldToItsEnd, RunIsCarried, StoppedStepDropped, DoneStatesSettle
  <2>1. \A a \in FrontEnds : acting[a].pc = "idle"
    BY DEF Settled
  <2>2. RunIsCarried
    BY <2>1, GenerationIsNat DEF HoldInv, IsCarried, NotAborted, RunIsCarried, Live
  <2>3. StoppedStepDropped
    <3> SUFFICES ASSUME NEW g \in Generations, Live(g), drivers[g].pc \in Carrying, g # model.generation
                 PROVE  FALSE
      BY DEF StoppedStepDropped
    <3>1. ~drivers[g].aborted /\ drivers[g].pc \notin Spent /\ drivers[g].pc # "none"
      BY DEF Live, Carrying, Parked, Spent, Clearing
    <3>2. ~(g > model.generation)
      BY <3>1 DEF IInv, RecordInv, FutureBlank, IsBlank
    <3>3. g < model.generation
      BY <3>2, GenerationIsNat, GenerationsAreNat
    <3> QED
      BY <2>1, <3>1, <3>3 DEF HoldInv, EarlierIsSpent
  <2>4. DoneStatesSettle
    <3> SUFFICES ASSUME up, AtRest(model), queued = 0, reading.pc = "idle", ~\E g \in Generations : Live(g)
                 PROVE  model.checked /\ model.done = Undone(board)
      BY DEF DoneStatesSettle
    <3>1. ~\E g \in Generations : drivers[g].pc \in Clearing
      BY DEF Live, Clearing, Parked
    <3> QED
      BY <2>1, <3>1 DEF Determined, Ending
  <2> QED
    BY <2>2, <2>3, <2>4
<1> QED
  BY <1>1, <1>2, <1>3, PTL DEF Spec
=============================================================================
