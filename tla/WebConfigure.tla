---------------------------- MODULE WebConfigure ----------------------------
(***************************************************************************)
(* The network settings screen of the web page and the session a device    *)
(* serves it: bliti-web/app/src/network.js and Network.jsx, against        *)
(* bliti/src/network/session/open.rs.                                      *)
(*                                                                         *)
(* A document is its ordering of candidates, which is what keys follow;    *)
(* its other members take part in nothing but the comparison of two        *)
(* documents. `said` and `asked` are the two directions of the stream.     *)
(* What is sent passes the page's own checks; the device may still refuse  *)
(* it. NetworkSession models what the device does with a proposal.         *)
(* `crossed` is history: another session's proposal was saved under this   *)
(* one, or a configuration came before the answer the page awaited.        *)
(***************************************************************************)
EXTENDS Integers, SequencesExt

CONSTANTS
    Candidates,
    MaxCandidates,   \* bound: candidates of a document
    MaxSaves,        \* bound: proposals saved
    MaxTyped,        \* bound: edits
    MaxSetbacks,     \* bound: sessions ended under the page, and proposals refused
    FirstHeld, Others   \* the document first held, and those another session proposes

ASSUME WebConfigureAssumption ==
    /\ MaxCandidates \in Nat \ {0} /\ MaxSaves \in Nat /\ MaxTyped \in Nat /\ MaxSetbacks \in Nat
    /\ "none" \notin Candidates /\ FirstHeld \in Seq(Candidates) /\ Others \subseteq Seq(Candidates)

VARIABLES scr, server, said, asked, typed, setbacks, kept

configureVars == <<scr, server, said, asked, typed, setbacks, kept>>

None == [none |-> TRUE]
NoDocument == <<"none">>
-----------------------------------------------------------------------------
(* Edits: a document and the key of each of its candidates. *)
fromDocument(d) == [doc |-> d, keys |-> [i \in 1..Len(d) |-> <<"f", i>>]]
addCandidate(e, c, k) == [doc |-> Append(e.doc, c), keys |-> Append(e.keys, k)]
updateCandidate(e, i, c) == [e EXCEPT !.doc[i] = c]
removeCandidate(e, i) == [doc |-> RemoveAt(e.doc, i), keys |-> RemoveAt(e.keys, i)]
moveCandidate(e, from, to) ==
    LET Moved(s) == InsertAt(RemoveAt(s, from), to, s[from])
    IN [doc |-> Moved(e.doc), keys |-> Moved(e.keys)]

(* Whether changes counts any: candidates are compared under their keys. *)
changes(e, d, ks) ==
    LET Unaltered(i) == \E j \in DOMAIN ks : ks[j] = e.keys[i] /\ j <= Len(d) /\ d[j] = e.doc[i]
        Common(s, t) == SelectSeq(s, LAMBDA k : k \in ToSet(t))
    IN \/ \E i \in DOMAIN e.keys : ~Unaltered(i)
       \/ ~(ToSet(ks) \subseteq ToSet(e.keys))
       \/ Common(e.keys, ks) # Common(ks, e.keys)

Edits(e) ==
    {addCandidate(e, c, <<"n", typed + 1>>) : c \in {c \in Candidates : Len(e.doc) < MaxCandidates}}
    \cup {updateCandidate(e, i, c) : i \in DOMAIN e.doc, c \in Candidates}
    \cup {removeCandidate(e, i) : i \in DOMAIN e.doc}
    \cup {moveCandidate(e, i, j) : i \in DOMAIN e.doc, j \in DOMAIN e.doc}
-----------------------------------------------------------------------------
opening(k) ==
    [status |-> "opening", stage |-> "editing", inForce |-> NoDocument, inForceKeys |-> <<>>,
     edit |-> fromDocument(<<>>), proposed |-> None, awaiting |-> FALSE, runningKeys |-> <<>>,
     busy |-> FALSE, outcome |-> "none", refused |-> FALSE, kept |-> k, crossed |-> FALSE]

writable(s) == s.status = "open" /\ s.stage \in {"editing", "errored"}

(* The stage the device's outcome puts the operator in. *)
settled(s) ==
    CASE s.busy -> [s EXCEPT !.stage = "watching", !.refused = FALSE, !.proposed = None]
      [] ~s.busy /\ s.outcome = "verifying" -> [s EXCEPT !.stage = "applying", !.refused = FALSE]
      [] ~s.busy /\ s.outcome = "failed" ->
            [s EXCEPT !.stage = "errored", !.refused = FALSE, !.proposed = IF @ = None THEN s.edit ELSE @]
      [] OTHER -> [s EXCEPT !.stage = "editing", !.refused = FALSE, !.proposed = None]

(* The fields filled from what the device holds. *)
editing(s) ==
    LET e == fromDocument(s.inForce)
    IN settled([s EXCEPT !.edit = e, !.inForceKeys = e.keys, !.runningKeys = e.keys,
                         !.awaiting = FALSE, !.proposed = None])

refusal(s) ==
    IF s.awaiting THEN [s EXCEPT !.stage = "errored", !.edit = s.proposed, !.awaiting = FALSE, !.refused = TRUE]
    ELSE s

(* A proposal saved: the candidates in force are the fields', in their     *)
(* order, and how they fare is not known yet.                              *)
OutcomeKept(s, d) ==
    [s EXCEPT !.inForce = d, !.awaiting = FALSE, !.inForceKeys = s.proposed.keys, !.runningKeys = s.proposed.keys]
saved(s, d) ==
    [s EXCEPT !.inForce = d, !.awaiting = FALSE, !.inForceKeys = s.proposed.keys, !.runningKeys = s.proposed.keys,
              !.outcome = "none"]

(* A configuration: the first after a proposal says whether it was saved.  *)
(* Any other moves an operator with nothing in hand onto it.               *)
configuration(s, d) ==
    LET h == [s EXCEPT !.inForce = d]
    IN CASE s.status = "opening" -> [h EXCEPT !.edit = fromDocument(d)]
         [] s.status # "opening" /\ s.awaiting /\ d # s.proposed.doc ->
                [h EXCEPT !.stage = "errored", !.awaiting = FALSE, !.refused = TRUE]
         [] s.status # "opening" /\ s.awaiting /\ d = s.proposed.doc -> saved(s, d)
         [] s.status # "opening" /\ ~s.awaiting
              /\ (s.stage = "watching" \/ (s.stage = "editing" /\ ~changes(s.edit, s.inForce, s.inForceKeys))) ->
                editing(h)
         [] OTHER -> h

(* A state: the first opens the session, and puts back the edits kept from *)
(* the one before. One that comes while a proposal is awaited speaks of    *)
(* the configuration before it.                                            *)
reported(s, m) ==
    LET t == [s EXCEPT !.busy = m.busy, !.outcome = m.outcome]
        o == editing([t EXCEPT !.status = "open", !.kept = None])
    IN CASE s.status = "opening" /\ s.inForce = NoDocument -> t
         [] s.status = "opening" /\ s.inForce # NoDocument ->
                IF s.kept # None /\ writable(o)
                THEN [o EXCEPT !.edit = s.kept.edit, !.inForceKeys = s.kept.inForceKeys] ELSE o
         [] s.status # "opening" /\ s.awaiting -> t
         [] s.status # "opening" /\ ~s.awaiting /\ t.busy # s.busy -> editing(t)
         [] s.status # "opening" /\ ~s.awaiting /\ t.busy = s.busy ->
                IF t.outcome = s.outcome THEN t ELSE settled(t)

fromDevice(s, m) ==
    CASE m.type = "configuration" -> configuration(s, m.doc)
      [] m.type = "state" -> reported(s, m)
      [] m.type = "cannot-configure" -> refusal(s)

(* The edits a session opened again begins with. *)
resumed(s) ==
    LET edited == /\ s.stage \in {"editing", "errored"} /\ s.inForce # NoDocument
                  /\ changes(s.edit, s.inForce, s.inForceKeys)
    IN opening(IF edited THEN [edit |-> s.edit, inForceKeys |-> s.inForceKeys] ELSE None)
-----------------------------------------------------------------------------
(* The device: what it holds, how many candidates the backend last gave    *)
(* the states of, and what this session's client was told. The states are  *)
(* taken to be of the configuration held where their number is.            *)
Known(d) == d.states = Len(d.held)
sync(d, resend) ==
    LET configured == resend \/ d.told # d.revision
        now == [type |-> "state", busy |-> d.busy, outcome |-> d.outcome, count |-> d.states]
        tells == Known(d) /\ (configured \/ d.reported # now)
    IN [server |-> [d EXCEPT !.told = d.revision, !.reported = IF tells THEN now ELSE @],
        out |-> (IF configured THEN <<[type |-> "configuration", doc |-> d.held]>> ELSE <<>>)
                \o (IF tells THEN <<now>> ELSE <<>>)]

Holds(d, doc) ==
    [d EXCEPT !.held = doc, !.revision = @ + 1, !.outcome = "verifying"]
Saves == server.revision < MaxSaves

(* The session opens, behind another that holds the configuration or not. *)
Configures(busy, s) ==
    LET y == sync([server EXCEPT !.open = TRUE, !.busy = busy], TRUE)
    IN /\ server' = y.server /\ said' = y.out /\ asked' = <<>> /\ scr' = s

Syncs ==
    LET y == sync(server, FALSE)
    IN /\ server.open /\ y.out # <<>>
       /\ server' = y.server /\ said' = said \o y.out
       /\ UNCHANGED <<scr, asked, typed, setbacks, kept>>

(* A proposal taken: saved, or refused with what is held sent after it. *)
TakesProposal ==
    /\ asked # <<>> /\ asked' = Tail(asked)
    /\ \/ /\ ~server.busy /\ Saves /\ server' = Holds(server, Head(asked))
          /\ UNCHANGED <<said, setbacks>>
       \/ /\ setbacks < MaxSetbacks /\ setbacks' = setbacks + 1
          /\ LET y == sync(server, TRUE)
             IN server' = y.server /\ said' = said \o <<[type |-> "cannot-configure"]>> \o y.out
    /\ UNCHANGED <<scr, typed, kept>>

BackendReports ==
    /\ ~Known(server) /\ server' = [server EXCEPT !.states = Len(server.held)]
    /\ UNCHANGED <<scr, said, asked, typed, setbacks, kept>>
OutcomeKnown(o) ==
    /\ server.outcome = "verifying" /\ server' = [server EXCEPT !.outcome = o]
    /\ UNCHANGED <<scr, said, asked, typed, setbacks, kept>>

(* Another session, which holds the configuration before this one does;    *)
(* what it asked last may be taken after it has ended.                     *)
OtherProposes(doc) ==
    /\ Saves /\ (server.busy \/ ~server.open \/ server.late)
    /\ server' = [Holds(server, doc) EXCEPT !.late = FALSE]
    /\ scr' = [scr EXCEPT !.crossed = @ \/ (server.open /\ ~server.busy)]
    /\ UNCHANGED <<said, asked, typed, setbacks, kept>>
OtherLeaves ==
    /\ server.busy /\ \E late \in BOOLEAN : server' = [server EXCEPT !.busy = FALSE, !.late = late]
    /\ UNCHANGED <<scr, said, asked, typed, setbacks, kept>>
-----------------------------------------------------------------------------
(* A configuration that comes before the answer to the proposal awaited.   *)
Crosses ==
    /\ scr.awaiting /\ Head(said).type = "configuration"
    /\ asked # <<>> \/ server.told # server.revision \/ \E m \in ToSet(Tail(said)) : m.type # "state"
Receives ==
    /\ server.open /\ said # <<>>
    /\ scr' = [fromDevice(scr, Head(said)) EXCEPT !.crossed = @ \/ Crosses]
    /\ said' = Tail(said)
    /\ UNCHANGED <<server, asked, typed, setbacks, kept>>

Edit ==
    /\ writable(scr) /\ typed < MaxTyped /\ typed' = typed + 1
    /\ \E e \in Edits(scr.edit) : scr' = [scr EXCEPT !.edit = e]
    /\ kept' = None
    /\ UNCHANGED <<server, said, asked, setbacks>>
Nothing == scr.stage = "editing" /\ ~changes(scr.edit, scr.inForce, scr.inForceKeys)
Reset ==
    /\ writable(scr) /\ ~Nothing /\ scr' = editing(scr)
    /\ kept' = None
    /\ UNCHANGED <<server, said, asked, typed, setbacks>>
propose ==
    /\ writable(scr) /\ server.open /\ ~Nothing
    /\ scr' = [scr EXCEPT !.stage = "applying", !.proposed = scr.edit, !.awaiting = TRUE, !.refused = FALSE]
    /\ asked' = Append(asked, scr.edit.doc)
    /\ kept' = None
    /\ UNCHANGED <<server, said, typed, setbacks>>

(* The session ends under the page, with what was in flight; and begins    *)
(* again, at the operator's asking or on a channel reconnected. `kept` is  *)
(* history: the edits the operator had when the session ended.             *)
StreamEnds ==
    /\ server.open /\ setbacks < MaxSetbacks /\ setbacks' = setbacks + 1
    /\ server' = [server EXCEPT !.open = FALSE, !.told = -1, !.reported = None, !.late = FALSE]
    /\ said' = <<>> /\ asked' = <<>> /\ scr' = [scr EXCEPT !.status = "closed"]
    /\ kept' = IF writable(scr) /\ changes(scr.edit, scr.inForce, scr.inForceKeys) THEN scr.edit ELSE kept
    /\ UNCHANGED typed
restart ==
    /\ ~server.open /\ \E busy \in BOOLEAN : Configures(busy, opening(None))
    /\ kept' = None /\ UNCHANGED <<typed, setbacks>>
Resume ==
    /\ ~server.open /\ \E busy \in BOOLEAN : Configures(busy, resumed(scr))
    /\ UNCHANGED <<typed, setbacks, kept>>

ConfigureInit ==
    /\ scr = [opening(None) EXCEPT !.status = "closed"]
    /\ server = [open |-> FALSE, held |-> FirstHeld, revision |-> 0, outcome |-> "applied",
                 states |-> Len(FirstHeld), busy |-> FALSE, told |-> -1, reported |-> None, late |-> FALSE]
    /\ said = <<>> /\ asked = <<>> /\ typed = 0 /\ setbacks = 0 /\ kept = None

ConfigureNext ==
    \/ Syncs \/ TakesProposal \/ BackendReports \/ OtherLeaves \/ Receives \/ Edit \/ Reset \/ propose
    \/ StreamEnds \/ restart \/ Resume
    \/ \E o \in {"applied", "failed"} : OutcomeKnown(o)
    \/ \E d \in Others : OtherProposes(d)

ConfigureSpec == ConfigureInit /\ [][ConfigureNext]_configureVars
-----------------------------------------------------------------------------
(* Everything said has been heard. *)
Heard == server.open /\ said = <<>> /\ asked = <<>> /\ Known(server) /\ sync(server, FALSE).out = <<>>

(* A screen that has heard everything says what the device is on: it holds *)
(* the document held, waits for nothing, and is at the stage the outcome   *)
(* and the holder of the configuration have it at. It says "The device is  *)
(* on these settings" of those settings only, where its keys are still     *)
(* those of the configuration in force. A refusal stands over an outcome   *)
(* that has not changed since. A page that a configuration crossed is set  *)
(* aside: AnswersAreOwn says which.                                        *)
ScreenFollows ==
    Heard /\ ~scr.crossed =>
        /\ scr.status = "open" /\ ~scr.awaiting /\ scr.inForce = server.held
        /\ (scr.stage = "watching") <=> server.busy
        /\ (scr.stage = "applying") <=> (~server.busy /\ server.outcome = "verifying")
        /\ scr.stage = "errored" => scr.refused \/ server.outcome = "failed"
        /\ scr.stage = "editing" => server.outcome = "applied"
        /\ Len(scr.runningKeys) = Len(server.held)
        /\ Nothing /\ Len(scr.inForceKeys) = Len(server.held) => scr.edit.doc = server.held

(* What network.js takes for granted: the first configuration after a      *)
(* proposal answers it. That of a session since ended, or the one that     *)
(* follows a refusal, may come first.                                      *)
AnswersAreOwn == ~scr.crossed
(* What open.rs says of a state not known yet: it is sent once it is.      *)
StateComes == Heard => scr.outcome = server.outcome
(* What the screen says, whatever its keys: "Applied. The device is on     *)
(* these settings." (Network.jsx).                                         *)
AppliedIsHeld == Heard /\ Nothing => scr.edit.doc = server.held
(* What screen.md asks of a reconnection: the operator's edits are kept    *)
(* where the session lets the operator edit.                               *)
EditsAreKept == Heard /\ kept # None /\ writable(scr) => scr.edit = kept
(* What the keys are for: each candidate the operator has not altered is   *)
(* shown the state of itself (stateFor).                                   *)
StatesAreTheirs ==
    Heard /\ writable(scr) =>
        \A i \in DOMAIN scr.edit.keys, j \in DOMAIN scr.runningKeys :
            scr.edit.keys[i] = scr.runningKeys[j] /\ scr.edit.doc[i] \in ToSet(server.held) =>
                server.held[j] = scr.edit.doc[i]
=============================================================================
