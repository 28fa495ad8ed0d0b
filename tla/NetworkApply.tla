----------------------------- MODULE NetworkApply ---------------------------
(***************************************************************************)
(* The applier (network/apply.rs and below it): rendered files put in      *)
(* place and picked up, backend by backend, against a record of what was   *)
(* last put in place.                                                      *)
(*                                                                         *)
(* An apply is the calls it makes, one action each, so that any of them    *)
(* can fail, with or without having had its effect, and end the apply      *)
(* there: the record on disk is the only thing the next apply learns from. *)
(* A daemon that dies in the middle of an apply is the same.  The files    *)
(* and the record are under /run and go with a reboot.                     *)
(***************************************************************************)
EXTENDS NetworkRender, SequencesExt

CONSTANTS Renderings,   \* the states applied: a document and a selection of it
          MaxApplies,   \* how many applies are begun,
          MaxFaults     \* and how many calls fail, files vanish and reboots happen

(* What is applied has passed the check and fits what is selected, and     *)
(* both are finite.                                                        *)
ASSUME RenderingsAssumption ==
    \A r \in Renderings :
        /\ ~DocumentFault(r.doc) /\ Fits(r.doc, r.sel)
        /\ Indexed(r.doc.attachments) \subseteq Nat \ {0}
        /\ IsFiniteSet(Indexed(r.doc.attachments)) /\ IsFiniteSet(DOMAIN r.sel.links)

VARIABLES files,      \* the files of bliti's on disk, a set of files
          record,     \* the files the record says were put in place
          live,       \* per backend, the files its daemon last read
          aps,        \* the access point interfaces that exist
          beacons,    \* the hotspots hostapd runs: path and body, as it read them
          opened,     \* the interfaces the firewall lets DHCP through on
          todo,       \* the calls left of the backend the apply is at
          at,         \* that backend's place in Order, 0 with no apply under way
          wanted,     \* what is being applied
          result,     \* how the last apply ended
          moving,     \* the paths the step under way writes or takes away
          unread,     \* those of them hostapd was started for and did not read
          unsure,     \* those so left, and those of steps not recorded
          applies, faults

applyVars == <<files, record, live, aps, beacons, opened, todo, at, wanted, result, moving, unread, unsure, applies, faults>>

Order == <<"regdom", "hostapd", "iwd", "networkd", "resolved">>
Backends == {Order[i] : i \in 1..Len(Order)}

Of(backend, set) == {f \in set : f.path[1] = backend}
PathsOf(set) == {f.path : f \in set}
At(path, set) == {f \in set : f.path = path}

ApplyInit ==
    /\ files = {} /\ record = {} /\ live = [b \in Backends |-> {}]
    /\ aps = {} /\ beacons = {} /\ opened = {}
    /\ todo = <<>> /\ at = 0 /\ wanted = {} /\ result = "none"
    /\ moving = {} /\ unread = {} /\ unsure = {} /\ applies = 0 /\ faults = 0

-----------------------------------------------------------------------------
(* What a backend's step writes, takes away and calls.                     *)

(* The delegates of resolved are not looked for on disk, only in the       *)
(* record.                                                                 *)
Owned == {f \in files : f.path[1] # "resolved"}
Stale(w) == (PathsOf(Owned) \cup PathsOf(record)) \ PathsOf(w)

WrittenOf(b, w) == {f \in Of(b, w) : ~(f \in record /\ f.path \in PathsOf(files))}
RemovedOf(b, w) == {p \in Stale(w) : p[1] = b}

Call(op, path, body) == [op |-> op, path |-> path, body |-> body]
Each(op, paths) == LET s == SetToSeq(paths) IN [i \in DOMAIN s |-> Call(op, s[i], {})]
Puts(written, removed) ==
    LET w == SetToSeq(written)
    IN  [i \in DOMAIN w |-> Call("write", w[i].path, {w[i]})] \o Each("remove", removed)

TakesDown(removed) ==
    LET s == SetToSeq(removed)
    IN  FlattenSeq([i \in DOMAIN s |-> <<Call("stop", s[i], {}), Call("close", s[i], {}), Call("delete", s[i], {})>>])
BringsUp(written) ==
    LET s == SetToSeq(written)
    IN  FlattenSeq([i \in DOMAIN s |->
            IF s[i].path \in PathsOf(record)
            THEN <<Call("open", s[i].path, {}), Call("start", s[i].path, {})>>
            ELSE <<Call("create", s[i].path, {}), Call("open", s[i].path, {}), Call("start", s[i].path, {})>>])

MainConf == <<"iwd", "main", "conf">>
PicksUp(b, written, removed) ==
    IF CASE b = "regdom" -> written # {}
         [] b = "iwd" -> MainConf \in PathsOf(written) \cup removed
         [] OTHER -> TRUE
    THEN <<Call("pick up", <<b>>, {})>> ELSE <<>>

Saves(b) == <<Call("record", <<b>>, {})>>

StartsBeforeStops(b, written, removed) ==
    IF b = "hostapd" THEN Puts(written, removed) \o BringsUp(written) \o TakesDown(removed) \o Saves(b)
    ELSE Puts(written, removed) \o PicksUp(b, written, removed) \o Saves(b)
StepOf(b, written, removed) ==
    IF b = "hostapd" THEN TakesDown(removed) \o Puts(written, removed) \o BringsUp(written) \o Saves(b)
    ELSE Puts(written, removed) \o PicksUp(b, written, removed) \o Saves(b)

-----------------------------------------------------------------------------
(* The calls.                                                              *)

Without(path, set) == {f \in set : f.path # path}

(* The access point interface a hostapd configuration is named for; hostapd *)
(* comes up only on one that exists, with what is on disk.                 *)
Works(call) == call.op = "start" => call.path[2] \in aps

(* A configuration the record has is restarted on, and one it has not is   *)
(* started: hostapd already running is left as it is by a start, and does  *)
(* not read its configuration again.                                       *)
ReadsAnew(path) == path \in PathsOf(record) \/ path \notin PathsOf(beacons)

Effect(call) ==
    /\ files' = CASE call.op = "write" -> Without(call.path, files) \cup call.body
                  [] call.op = "remove" -> Without(call.path, files)
                  [] OTHER -> files
    /\ live' = CASE call.op = "pick up" -> [live EXCEPT ![call.path[1]] = Of(call.path[1], files)]
                 [] call.op \in {"write", "remove"} /\ call.path[1] = "iwd" /\ call.path # MainConf ->
                        [live EXCEPT !["iwd"] = {f \in files' : f.path[1] = "iwd" /\ f.path # MainConf}
                                                \cup {f \in @ : f.path = MainConf}]
                 [] OTHER -> live
    /\ aps' = CASE call.op = "create" -> aps \cup {call.path[2]}
                [] call.op = "delete" -> aps \ {call.path[2]}
                [] OTHER -> aps
    /\ opened' = CASE call.op = "open" -> opened \cup {call.path[2]}
                   [] call.op = "close" -> opened \ {call.path[2]}
                   [] OTHER -> opened
    /\ beacons' = CASE call.op = "start" /\ ReadsAnew(call.path) -> Without(call.path, beacons) \cup At(call.path, files)
                    [] call.op \in {"stop", "delete"} -> Without(call.path, beacons)
                    [] OTHER -> beacons
    /\ record' = IF call.op = "record"
                 THEN (record \ Of(call.path[1], record)) \cup Of(call.path[1], wanted)
                 ELSE record
    /\ unread' = IF call.op = "start" /\ At(call.path, beacons') # At(call.path, files)
                 THEN unread \cup {call.path} ELSE unread
    /\ unsure' = IF call.op = "record" THEN unsure \ (moving \ unread) ELSE unsure

(* Apply goes on to the next backend whose files changed, if there is one. *)
Changed(b, w) == WrittenOf(b, w) # {} \/ RemovedOf(b, w) # {}
NextAt(i, w) ==
    LET on == {j \in (i + 1)..Len(Order) : Changed(Order[j], w)}
    IN  IF on = {} THEN 0 ELSE CHOOSE j \in on : \A k \in on : j <= k

StartsStep(i, w) ==
    /\ unread' = {}
    /\ IF i = 0 THEN at' = 0 /\ todo' = <<>> /\ result' = "ok" /\ moving' = {} /\ UNCHANGED unsure
       ELSE /\ at' = i /\ result' = "none"
            /\ todo' = StepOf(Order[i], WrittenOf(Order[i], w), RemovedOf(Order[i], w))
            /\ moving' = PathsOf(WrittenOf(Order[i], w)) \cup RemovedOf(Order[i], w)
            /\ unsure' = unsure \cup moving'

Applies(w) ==
    /\ at = 0 /\ applies < MaxApplies
    /\ applies' = applies + 1 /\ wanted' = w
    /\ StartsStep(NextAt(0, w), w)
    /\ UNCHANGED <<files, record, live, aps, beacons, opened, faults>>

DoesCall ==
    /\ at # 0 /\ todo # <<>> /\ Works(Head(todo))
    /\ Effect(Head(todo)) /\ todo' = Tail(todo)
    /\ UNCHANGED <<at, wanted, result, moving, applies, faults>>

StepDone ==
    /\ at # 0 /\ todo = <<>>
    /\ StartsStep(NextAt(at, wanted), wanted)
    /\ UNCHANGED <<files, record, live, aps, beacons, opened, wanted, applies, faults>>

(* A call that fails ends the apply, whether or not it had its effect: a   *)
(* record saved too may have its directory's sync fail.                    *)
Faulty == faults < MaxFaults /\ faults' = faults + 1
Ends == Faulty /\ at' = 0 /\ todo' = <<>> /\ result' = "failed" /\ moving' = {} /\ UNCHANGED <<wanted, applies>>
CallFails ==
    /\ at # 0 /\ todo # <<>> /\ Ends
    /\ UNCHANGED <<files, record, live, aps, beacons, opened, unread, unsure>>
CallFailsLate ==
    /\ at # 0 /\ todo # <<>> /\ Works(Head(todo)) /\ Ends
    /\ Effect(Head(todo))

(* Someone takes away a file of bliti's that the record holds.             *)
FileVanishes ==
    \E f \in files \cap record :
        /\ Faulty /\ at = 0 /\ result' = "none" /\ f.path \notin unsure
        /\ files' = files \ {f}
        /\ live' = IF f.path[1] = "iwd" /\ f.path # MainConf
                   THEN [live EXCEPT !["iwd"] = @ \ {f}] ELSE live
        /\ UNCHANGED <<record, aps, beacons, opened, todo, at, wanted, moving, unread, unsure, applies>>

Reboots ==
    /\ Faulty
    /\ files' = {} /\ record' = {} /\ live' = [b \in Backends |-> {}]
    /\ aps' = {} /\ beacons' = {} /\ todo' = <<>> /\ at' = 0 /\ result' = "none"
    /\ moving' = {} /\ unread' = {} /\ unsure' = {}
    /\ UNCHANGED <<opened, wanted, applies>>

ApplyNext ==
    \/ \E r \in Renderings : Applies(Render(r.doc, r.sel))
    \/ DoesCall \/ StepDone \/ CallFails \/ CallFailsLate \/ FileVanishes \/ Reboots

ApplySpec == ApplyInit /\ [][ApplyNext]_applyVars

-----------------------------------------------------------------------------
(* Properties.                                                             *)

(* The file at a path and what its daemon runs on are what was applied.    *)
LiveAt(p) == IF p[1] = "hostapd" THEN At(p, beacons) ELSE At(p, live[p[1]])
Runs(p) == At(p, files) = At(p, wanted) /\ LiveAt(p) = At(p, wanted)
AllPaths == PathsOf(files) \cup PathsOf(wanted) \cup PathsOf(beacons) \cup PathsOf(UNION {live[b] : b \in Backends})

(* An apply that succeeds has every daemon running what was applied, at    *)
(* every path but those a step put in place and then failed, or for which  *)
(* it started a hostapd already running on something else, and that no     *)
(* step has carried out since: a step is recorded when it is picked up and *)
(* no sooner (Step::run, Record::save).                                    *)
PickedUp == result = "ok" => \A p \in AllPaths \ unsure : Runs(p)

(* An apply that succeeds has every daemon running what was applied: "A    *)
(* backend that fails ... is left out of the record, so the next apply     *)
(* writes its files and picks them up again" (network/apply.rs, Error).    *)
AppliedIsRunning == result = "ok" => \A p \in AllPaths : Runs(p)

(* After an apply that succeeds, a hotspot that runs and whose             *)
(* configuration is in place and recorded runs on that one: "the next      *)
(* apply writes its files and picks them up again" (network/apply.rs,      *)
(* Error).  It does not, where the apply that started hostapd could not    *)
(* save its record: the next one starts it again, which leaves it as it is.*)
RecordedIsRunning ==
    result = "ok" => \A f \in record \cap files : At(f.path, beacons) \in {{}, {f}}

(* However an apply ends, at most one hotspot runs, and the firewall lets  *)
(* its clients reach DHCP for as long as it does (Step::hostapd).          *)
OneHotspotServed ==
    /\ Cardinality(beacons) <= 1
    /\ \A f \in beacons : f.path[2] \in opened \cap aps

(* However an apply ends, what it recorded is running, and the hotspot is  *)
(* one and served.                                                         *)
AppliedIsServed == PickedUp /\ OneHotspotServed
=============================================================================
