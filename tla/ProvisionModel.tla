--------------------------- MODULE ProvisionModel ---------------------------
(***************************************************************************)
(* The state of a provisioning run as plain data, and the rules that       *)
(* change it: crates/bliti/src/provision/model.rs.                         *)
(*                                                                         *)
(* Every operator takes the model as it stands and returns the model the   *)
(* method of the same name leaves behind. Titles, reasons, progress,       *)
(* results and the text of prompts are left out; the identity of a prompt  *)
(* is the key it was asked under, as in the code.                          *)
(***************************************************************************)
EXTENDS Integers, FiniteSets

CONSTANTS
    N,           \* how many steps the device offers; a step is its index
    AnswerKeys,  \* keys of the prompts that take an answer
    NoticeKeys,  \* keys of the prompts that only ask for something to be done
    UndoneBy,    \* for each step, the earlier steps that undo what it produces
    AsksAfter,   \* for each step, the step after which it asks ahead, or 0
    AheadKeys    \* for each step, the keys it asks under ahead of its turn

Steps == 1..N
Keys == AnswerKeys \cup NoticeKeys
NoStep == 0

ASSUME StepsAssumption ==
    /\ N \in Nat \ {0}
    /\ AnswerKeys \cap NoticeKeys = {}
    /\ UndoneBy \in [Steps -> SUBSET Steps]
    /\ \A s \in Steps : \A u \in UndoneBy[s] : u < s
    /\ AsksAfter \in [Steps -> 0..N]
    /\ AheadKeys \in [Steps -> SUBSET AnswerKeys]

RunStates == {"idle", "running", "failed", "finished"}
StepStates == {"unchosen", "pending", "running", "passed", "failed"}
DoneStates == {"unknown", "done", "notdone"}

(* An open prompt: the step that asked it, the step it blocks (0 where it  *)
(* blocks none) and the run whose task waits for the answer (0 for none).  *)
Prompts == [key : Keys, step : Steps, blocks : 0..N, waiter : Nat]

(* `by' is asked_by, and its non-zero entries are the keys of `answers':   *)
(* the two maps are always written and cleared together.                   *)
Models ==
    [state : RunStates, steps : [Steps -> StepStates], prompts : SUBSET Prompts,
     by : [AnswerKeys -> 0..N], generation : Nat,
     done : [Steps -> DoneStates], checked : BOOLEAN]

New ==
    [state |-> "idle", steps |-> [s \in Steps |-> "unchosen"], prompts |-> {},
     by |-> [k \in AnswerKeys |-> NoStep], generation |-> 0,
     done |-> [s \in Steps |-> "unknown"], checked |-> FALSE]
-----------------------------------------------------------------------------
Blocking(m) == {p \in m.prompts : p.blocks # NoStep}

(* Model::run: waiting is read from the prompts and never stored.          *)
RunState(m) ==
    IF m.state = "running" /\ Blocking(m) # {} THEN "waiting" ELSE m.state

AtRest(m) == m.state \in {"idle", "finished"}

InState(m, st) == {s \in Steps : m.steps[s] = st}

Chosen(m) == Steps \ InState(m, "unchosen")

Passed(m) == InState(m, "passed")

(* Mutant of NextStep: the last pending step is taken.                     *)
NextStepLast(m) ==
    IF InState(m, "pending") = {} THEN NoStep
    ELSE CHOOSE s \in InState(m, "pending") :
            \A t \in InState(m, "pending") : s >= t

(* Model::next: the first pending step, 0 where there is none.             *)
NextStep(m) ==
    IF InState(m, "pending") = {} THEN NoStep
    ELSE CHOOSE s \in InState(m, "pending") :
            \A t \in InState(m, "pending") : s <= t

PassedThrough(m, last) ==
    /\ last # NoStep
    /\ \A s \in 1..last : m.steps[s] \in {"unchosen", "passed"}

Held(m, k) == m.by[k] # NoStep

OpenUnder(m, k) == {p \in m.prompts : p.key = k}
-----------------------------------------------------------------------------
ClearRun(m) ==
    [m EXCEPT !.state = "idle", !.prompts = {},
              !.by = [k \in AnswerKeys |-> NoStep],
              !.steps = [s \in Steps |-> "unchosen"]]

BeginRun(m, chosen) ==
    [ClearRun(m) EXCEPT !.state = "running",
                        !.steps = [s \in Steps |->
                                     IF s \in chosen THEN "pending" ELSE "unchosen"],
                        !.generation = @ + 1]

(* Stop and acknowledge: hold no run, and end the generation.              *)
EndRun(m) == [ClearRun(m) EXCEPT !.generation = @ + 1]

BeginNext(m) == [m EXCEPT !.steps[NextStep(m)] = "running"]

Pass(m, s) == [m EXCEPT !.steps[s] = "passed"]

Fail(m, s) == [m EXCEPT !.steps[s] = "failed", !.state = "failed"]

(* Model::retry: the failed step is pending again, and what it asked and   *)
(* was answered is forgotten; prompts left open stay open.                 *)
Retry(m) ==
    LET failed == InState(m, "failed") IN
    [m EXCEPT !.steps = [s \in Steps |->
                            IF s \in failed THEN "pending" ELSE m.steps[s]],
              !.by = [k \in AnswerKeys |->
                            IF m.by[k] \in failed THEN NoStep ELSE m.by[k]],
              !.state = "running",
              !.generation = @ + 1]

Finish(m) ==
    [m EXCEPT !.state = "finished", !.prompts = {},
              !.by = [k \in AnswerKeys |-> NoStep]]

(* Model::release: a prompt the step asked only to wait on is closed, one  *)
(* it waited on for another step stops blocking.                           *)
Release(m, s) ==
    LET kept == {p \in m.prompts : ~(p.blocks = s /\ p.step = s)} IN
    [m EXCEPT !.prompts =
        {IF p.blocks = s THEN [p EXCEPT !.blocks = NoStep, !.waiter = 0] ELSE p :
            p \in kept}]

CloseKey(m, k) == [m EXCEPT !.prompts = {p \in @ : p.key # k}]

Forget(m, k) == [m EXCEPT !.by[k] = NoStep]

(* Mutant of Need: waiting is stored rather than read from the prompts.    *)
NeedStoresWaiting(m, s, k, g) == [m EXCEPT !.state = "waiting"]

(* Model::need where no answer is held: the prompt open under the key is   *)
(* made to block the step, and where none is, a blocking one is opened.    *)
Need(m, s, k, g) ==
    LET open == OpenUnder(m, k)
        taken == {[p EXCEPT !.blocks = s, !.waiter = g] : p \in open}
        asked == {[key |-> k, step |-> s, blocks |-> s, waiter |-> g]}
    IN [m EXCEPT !.prompts = (@ \ open) \cup
                    (IF open # {} THEN taken ELSE asked)]

(* Model::ask_later for each of a set of keys.                             *)
AskLater(m, s, ks) ==
    LET unknown == {k \in ks : ~Held(m, k) /\ OpenUnder(m, k) = {}} IN
    [m EXCEPT !.prompts = @ \cup
        {[key |-> k, step |-> s, blocks |-> NoStep, waiter |-> 0] : k \in unknown}]

(* Model::notice.                                                          *)
Notice(m, s, k) ==
    [m EXCEPT !.prompts = @ \cup
        {[key |-> k, step |-> s, blocks |-> s, waiter |-> 0]}]

(* Model::answer: the prompt is closed and its answer held.                *)
AnswerPrompt(m, p) ==
    [m EXCEPT !.prompts = @ \ {p}, !.by[p.key] = p.step]

(* run.rs, undone: a step is not done while an earlier one undoing it is   *)
(* not, the earlier one as itself corrected. The steps found not done, and *)
(* all that follows from them, are in every set Spreads accepts.           *)
Spreads(found, T) ==
    \A s \in Steps : (found[s] = "notdone" \/ UndoneBy[s] \cap T # {}) => s \in T

Undone(found) ==
    [s \in Steps |-> IF \A T \in SUBSET Steps : Spreads(found, T) => s \in T
                    THEN "notdone" ELSE found[s]]
=============================================================================
