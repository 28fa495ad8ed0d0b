---------------------------- MODULE BackupSupply ----------------------------
(***************************************************************************)
(* The backup supply: crates/bliti/src/facts/power/supply.rs with low.rs   *)
(* and full.rs, record.rs, curve/store.rs, and battery.rs with its socket  *)
(* and command line.                                                       *)
(*                                                                         *)
(* A thread looks at the gauge and the power line at a steady pace. From   *)
(* what it sees it tells a low battery and a finished charge, follows the  *)
(* run on battery or the charge under way, and learns the curves from each *)
(* as it ends. Clients on curve streams and the command line change the    *)
(* same curves. What a curve holds is in BatteryCurve; here one is known   *)
(* by the number of the change that made it, 0 being the one shipped.      *)
(***************************************************************************)
EXTENDS Integers, FiniteSetsExt

CONSTANTS
    Volts,         \* the voltages read
    Floor,         \* FLOOR_VOLTS
    Termination,   \* TERMINATION_VOLTS
    Relax,         \* RELAX_VOLTS
    Still,         \* STILL_VOLTS
    Resting,       \* RESTING_VOLTS
    Confirm,       \* CONFIRM, in looks
    Grace,         \* BOOT_GRACE, in looks
    Hold,          \* HOLD, in looks
    CurveStreams,  \* curve streams open
    MaxLooks,      \* bound: looks taken
    MaxChanges     \* bound: curves made

ASSUME SupplyAssumption ==
    /\ Volts \cup {Floor, Termination, Relax, Still, Resting} \subseteq Nat
    /\ {Confirm, Hold} \subseteq Nat \ {0} /\ Grace \in Nat
    /\ Floor <= Resting /\ Resting <= Termination

VARIABLES
    now,       \* looks taken since the system started
    power,     \* Record::external: whether external power was there when last told
    low,       \* Low::since, and -1 where the floor is not held
    full,      \* Full: how far the charge is
    run,       \* State::run: the run on battery under way
    charge,    \* State::charge: the charge under way
    held,      \* whether the last look found the floor held, and the recorder is about to ask
    timed,     \* history: whether the look that found it held could read how long the system has been up
    window,    \* history: the latest looks, and when each was taken
    asked,     \* when a low-battery power-off was last asked for
    mem,       \* State::stored: the curve in force, -1 before the supply is managed
    disk,      \* the curve in the file
    acked,     \* the latest curve learnt, or answered as accepted
    behind,    \* whether the file has been changed without the daemon since it last made a change
    listening, \* whether the daemon answers on its socket
    cli,       \* the command line: where it is, and the curve it loads
    sent,      \* the curve each stream was last sent, -2 where the stream is not open
    changes    \* curves made

supplyVars == <<now, power, low, full, run, charge, held, timed, window, asked, mem, disk, acked, behind, listening, cli, sent, changes>>
watchVars == <<now, power, low, full, run, charge, held, timed, window, asked>>
curveVars == <<mem, disk, acked, behind, sent, changes>>

Charging == [at |-> "charging", since |-> 0, low |-> 0, high |-> 0, relaxed |-> FALSE]
NoRun == [on |-> FALSE, full |-> FALSE]

SupplyInit ==
    /\ now = 0 /\ power = "unknown" /\ low = -1 /\ full = Charging /\ run = NoRun /\ charge = FALSE
    /\ held = FALSE /\ timed = FALSE /\ window = {} /\ asked = 0
    /\ mem = -1 /\ disk = 0 /\ acked = 0 /\ behind = FALSE /\ listening = FALSE
    /\ cli = [at |-> "idle", doc |-> 0]
    /\ sent = [s \in CurveStreams |-> -2] /\ changes = 0

(***************************************************************************)
(* The curves: State::replace over Store::save, which renames a file into  *)
(* place. A save fails before the rename, or after it as the directory is  *)
(* synced.                                                                 *)
(***************************************************************************)

NewCurve == changes + 1
Outcomes == {"saved", "failed", "renamed"}
SavesOver(file, doc, how) ==
    /\ disk' = IF how = "failed" THEN file ELSE doc
    /\ acked' = IF how = "saved" THEN doc ELSE acked
    /\ behind' = IF how = "failed" THEN behind ELSE how = "renamed"
PutsAnyway(file, doc, how) == SavesOver(file, doc, how) /\ mem' = doc
Puts(file, doc, how) == SavesOver(file, doc, how) /\ mem' = IF how = "saved" THEN doc ELSE mem
Replaces(doc, how) == Puts(disk, doc, how) /\ changes' = NewCurve

(* Store::load at the first look the gauge answers, which only the         *)
(* supply's own save writes over.                                          *)
Managed == IF mem = -1 THEN disk ELSE mem

(***************************************************************************)
(* Looking: State::observe.                                                *)
(***************************************************************************)

LookSet == [answer : {"gauge"}, volts : Volts, ext : {"there", "gone", "unread"}]
         \cup [answer : {"failed", "none"}, volts : {0}, ext : {"unread"}]

(* Low::observe, `known` being whether how long the system has been up     *)
(* could be read: where it could not, no grace is given.                   *)
IsLow(l) == l.answer = "gauge" /\ l.ext = "gone" /\ l.volts < Floor
LowKeptUnread(l) ==
    IF l.answer = "gauge" /\ l.ext # "unread" /\ ~IsLow(l) THEN -1 ELSE IF low = -1 THEN now' ELSE low
LowAfter(l) == IF ~IsLow(l) THEN -1 ELSE IF low = -1 THEN now' ELSE low
Holds(l, known) == IsLow(l) /\ now' - LowAfter(l) >= Confirm /\ (known => now' >= Grace)

(* Full::observe.                                                          *)
Holding(v, relaxed) == [at |-> "holding", since |-> now', low |-> v, high |-> v, relaxed |-> relaxed]
Spread(v) == Max({full.high, v}) - Min({full.low, v})
FullNext(v) ==
    CASE full.at = "finished" -> full
      [] full.at # "finished" /\ v >= Termination ->
            [Charging EXCEPT !.at = "terminating", !.high = IF full.at = "terminating" THEN Max({full.high, v}) ELSE v]
      [] full.at = "terminating" /\ v < Termination /\ v <= full.high - Relax -> Holding(v, TRUE)
      [] full.at = "terminating" /\ v < Termination /\ v > full.high - Relax -> full
      [] full.at = "holding" /\ v < Termination ->
            IF Spread(v) > Still THEN Holding(v, full.relaxed)
            ELSE IF now' - full.since >= Hold THEN [Charging EXCEPT !.at = "finished", !.since = now']
            ELSE [full EXCEPT !.low = Min({@, v}), !.high = Max({@, v})]
      [] full.at = "charging" /\ v < Termination -> IF v >= Resting THEN Holding(v, FALSE) ELSE Charging
FullAfter(v) ==
    IF FullNext(v).at = "holding" /\ ~FullNext(v).relaxed /\ v < Resting THEN Charging ELSE FullNext(v)
FullSeen(l) ==
    CASE l.answer = "gauge" /\ l.ext = "there" -> FullAfter(l.volts)
      [] l.answer = "gauge" /\ l.ext = "gone" -> Charging
      [] OTHER -> full
Finishes(l) == FullSeen(l).at = "finished" /\ full.at # "finished"

(* Record::observe, and the run or the charge its event begins: follow. A  *)
(* run carries whether the charge before it had finished; either is        *)
(* dropped where its recording is too `long` already.                      *)
PowerEvent(l) ==
    CASE l.answer # "gauge" \/ l.ext = "unread" -> "none"
      [] power = "unknown" -> IF l.ext = "gone" THEN "found away" ELSE "found"
      [] power = "there" /\ l.ext = "gone" -> "lost"
      [] power = "gone" /\ l.ext = "there" -> "restored"
      [] OTHER -> "none"
RunAfter(l, long) ==
    CASE PowerEvent(l) = "found away" -> [on |-> TRUE, full |-> FALSE]
      [] PowerEvent(l) = "lost" -> [on |-> TRUE, full |-> full.at = "finished"]
      [] PowerEvent(l) = "restored" \/ (PowerEvent(l) = "none" /\ l.ext = "gone" /\ long) -> NoRun
      [] OTHER -> run
ChargeAfter(l, long) ==
    CASE PowerEvent(l) = "lost" -> FALSE
      [] PowerEvent(l) = "restored" -> TRUE
      [] OTHER -> charge /\ ~Finishes(l) /\ ~(l.ext = "there" /\ long)

Latest(l) == {x \in window \cup {[at |-> now', look |-> l]} : x.at + Hold >= now' \/ x.at + Confirm >= now'}

(* A finished charge records the gauge's figure for a full cell, which     *)
(* saves the curve in force where that does not fail, and is learnt from   *)
(* where it began at a known charge.                                       *)
LearnsCharge(l, how) ==
    IF Finishes(l)
    THEN \E file \in {disk, Managed} :
         \/ charge /\ changes < MaxChanges /\ changes' = NewCurve /\ Puts(file, NewCurve, how)
         \/ /\ how = "saved" /\ mem' = Managed /\ disk' = file
            /\ UNCHANGED <<acked, behind, changes>>
    ELSE /\ how = "saved" /\ mem' = IF l.answer = "gauge" THEN Managed ELSE mem
         /\ UNCHANGED <<disk, acked, behind, changes>>

(* The time is asked after where the cell is low, and a recording is of    *)
(* the run or the charge under way.                                        *)
Observe(l, how, known, long) ==
    /\ ~held /\ now < MaxLooks
    /\ (known \/ IsLow(l)) /\ (long => run.on \/ charge)
    /\ now' = now + 1
    /\ LearnsCharge(l, how)
    /\ low' = LowAfter(l)
    /\ held' = Holds(l, known) /\ timed' = (Holds(l, known) /\ known)
    /\ full' = FullSeen(l)
    /\ power' = IF l.answer = "gauge" /\ l.ext # "unread" THEN l.ext ELSE power
    /\ run' = RunAfter(l, long) /\ charge' = ChargeAfter(l, long)
    /\ window' = Latest(l)
    /\ UNCHANGED <<asked, listening, cli, sent>>

(* The recorder was held up by a read, and the next look is late.          *)
Stalls ==
    /\ ~held /\ now < MaxLooks
    /\ now' = now + 1
    /\ UNCHANGED <<power, low, full, run, charge, held, timed, window, asked, listening, cli, curveVars>>

(* record.rs, power_off. The controller takes the shutdown, and what the   *)
(* run taught is recorded before it is begun; or the controller refuses,   *)
(* and nothing is recorded. The sixty seconds start again.                 *)
PowersOff(taken, how) ==
    /\ held
    /\ held' = FALSE /\ timed' = FALSE /\ low' = -1 /\ asked' = now
    /\ IF taken /\ run.on
       THEN /\ run' = NoRun
            /\ \/ changes < MaxChanges /\ Replaces(NewCurve, how)
               \/ how = "saved" /\ UNCHANGED <<mem, disk, acked, behind, changes>>
       ELSE how = "saved" /\ UNCHANGED <<run, mem, disk, acked, behind, changes>>
    /\ UNCHANGED <<now, power, full, charge, window, listening, cli, sent>>

(***************************************************************************)
(* Changing the curves: battery.rs, its socket and its command line.       *)
(***************************************************************************)

(* A stream is sent the curve in force as it opens, and each it is         *)
(* replaced by.                                                            *)
SendsCurve(s) ==
    /\ sent[s] # mem
    /\ sent' = [sent EXCEPT ![s] = mem]
    /\ UNCHANGED <<watchVars, mem, disk, acked, behind, changes, listening, cli>>

Loads(s, how) ==
    /\ sent[s] # -2 /\ mem # -1 /\ changes < MaxChanges
    /\ Replaces(NewCurve, how)
    /\ UNCHANGED <<watchVars, sent, listening, cli>>

SocketOpens ==
    /\ ~listening /\ listening' = TRUE
    /\ UNCHANGED <<watchVars, curveVars, cli>>

(* The command line loads a curve through the daemon where one answers,    *)
(* and otherwise into the file itself.                                     *)
CommandAsks ==
    /\ cli.at = "idle" /\ changes < MaxChanges
    /\ cli' = [at |-> IF listening THEN "asking" ELSE "direct", doc |-> NewCurve]
    /\ changes' = NewCurve
    /\ UNCHANGED <<watchVars, mem, disk, acked, behind, listening, sent>>

CommandAnswered(how) ==
    /\ cli.at = "asking"
    /\ IF mem = -1 \/ ~listening THEN UNCHANGED <<mem, disk, acked, behind>> /\ how = "saved"
       ELSE Puts(disk, cli.doc, how)
    /\ cli' = [at |-> "idle", doc |-> 0]
    /\ UNCHANGED <<watchVars, changes, listening, sent>>

WritesDirectly(how) ==
    /\ cli.at = "direct"
    /\ disk' = IF how = "failed" THEN disk ELSE cli.doc
    /\ acked' = IF how = "saved" THEN cli.doc ELSE acked
    /\ behind' = IF how = "failed" THEN behind ELSE how = "renamed" \/ mem # -1
    /\ cli' = [at |-> "idle", doc |-> 0]
    /\ UNCHANGED <<watchVars, mem, changes, listening, sent>>

(* The device loses power, and what it holds is in the file.               *)
Restarts ==
    /\ mem # -1 /\ now < MaxLooks
    /\ now' = 0 /\ power' = "unknown" /\ low' = -1 /\ full' = Charging /\ run' = NoRun /\ charge' = FALSE
    /\ held' = FALSE /\ timed' = FALSE /\ window' = {} /\ asked' = 0
    /\ mem' = -1 /\ behind' = FALSE /\ listening' = FALSE
    /\ acked' = IF behind THEN disk ELSE acked
    /\ sent' = [s \in CurveStreams |-> -2]
    /\ cli' = IF cli.at = "asking" THEN [at |-> "idle", doc |-> 0] ELSE cli
    /\ UNCHANGED <<disk, changes>>

WatchNext ==
    \/ \E l \in LookSet, how \in Outcomes, known, long \in BOOLEAN : Observe(l, how, known, long)
    \/ Stalls
    \/ \E taken \in BOOLEAN, how \in Outcomes : PowersOff(taken, how)
CurveNext ==
    \/ \E s \in CurveStreams : SendsCurve(s) \/ \E how \in Outcomes : Loads(s, how)
    \/ \E how \in Outcomes : CommandAnswered(how) \/ WritesDirectly(how)
    \/ SocketOpens \/ CommandAsks \/ Restarts

SupplySpec == SupplyInit /\ [][WatchNext \/ CurveNext]_supplyVars

(***************************************************************************)
(* Properties.                                                             *)
(***************************************************************************)

LooksWithin(n) == {x.look : x \in {x \in window : x.at + n >= now}}

(* low.rs:28 and full.rs:63. The floor is held only where every look taken *)
(* for as long as it takes to confirm read below it without external       *)
(* power, past the grace where how long the system has been up could be    *)
(* read (low.rs:45), and one that goes on being held is asked about again. *)
(* A charge has finished only where external power was never seen to go    *)
(* and the cell was still for as long as it takes; it is a charge no more  *)
(* once it has, and a run is one without external power.                   *)
LowIsHeld ==
    /\ held => \A l \in LooksWithin(Confirm) : IsLow(l)
    /\ held /\ timed => now >= Grace
    /\ held => now - asked >= Confirm
StillFor(L) ==
    /\ \A l \in L : l.ext # "gone"
    /\ \A l, m \in L : l.ext = "there" /\ m.ext = "there" => l.volts - m.volts <= Still
SeenAsItIs ==
    /\ LowIsHeld
    /\ full.at = "finished" => power = "there" /\ ~charge
    /\ full.at = "finished" /\ full.since = now => StillFor(LooksWithin(Hold))
    /\ run.on => power = "gone"
    /\ charge => power = "there"

(* shutdown.md:34. No shutdown is begun within two minutes of the system   *)
(* starting. The code begins one where the time cannot be read: low.rs:45. *)
HeldPastGrace == held => now >= Grace

(* store.rs:103. The curve in force is the one in the file, but where the  *)
(* file was changed behind the daemon, and the one in the file is the last *)
(* that was learnt or answered as accepted: a power cut loses none.        *)
CurvesAreKept ==
    /\ ~behind => disk = acked
    /\ ~behind /\ mem # -1 => mem = disk

(* curve.md:84. A load from the command line takes effect in a running     *)
(* daemon.                                                                 *)
CommandTakesEffect == mem # -1 /\ cli.at = "idle" => mem = acked
=============================================================================
