----------------------------- MODULE FrontPanel -----------------------------
(***************************************************************************)
(* What a device in provisioning mode does with its USER button, its       *)
(* advertising window and its status LED: crates/bliti/src/provision/      *)
(* button.rs, window.rs, led.rs, and daemon.rs, which ties them together.  *)
(*                                                                         *)
(* One loop, keep, takes presses, the comings and goings of clients, the   *)
(* window's time and the retry of a failed registration, one at a time,    *)
(* and is not listening while it puts the device on the air or takes it    *)
(* off. The LED is driven by a task of its own, from what it is told of    *)
(* the run and of the air.                                                 *)
(***************************************************************************)
EXTENDS Naturals, Sequences

CONSTANTS
    Stable,       \* STABLE: the reads in a row that settle the line
    RunStates,    \* RunState, as the LED tells them apart
    MaxSessions,  \* bound: sessions opened
    MaxReads      \* bound: reads of the line

ASSUME PanelAssumption ==
    /\ Stable \in Nat \ {0} /\ {MaxSessions, MaxReads} \subseteq Nat
    /\ RunStates \subseteq {"idle", "running", "waiting", "failed", "passed"}

VARIABLES
    debounce,    \* Debounce: what the line settled at, and the reads that disagree with it
    reads,       \* what the line was read as: reads in a row, whether let go since a press, and in all
    window,      \* State: "silent", "open" or "connected"
    expired,     \* whether the open window's time is up
    act,         \* what keep is doing about the air: "none" while it listens
    registered,
    retry,       \* the registration to try again: "none", "waiting" or "due"
    events,      \* the clients' comings and goings, on their way to keep
    clients,     \* sessions open, and those opened in all
    air,         \* the on_air channel: its value, and whether the LED has seen it
    run,         \* the run's watch: its state, whether provisioned, and whether the LED has seen it
    led          \* what the LED shows, its half of a cycle, and whether it is lit as it should be

panelVars == <<debounce, reads, window, expired, act, registered, retry, events, clients, air, run, led>>

Shown(r, a) == [run |-> r.state, provisioned |-> r.provisioned, onAir |-> a.on]

(* The button is taken for held as the daemon starts, so one that is down  *)
(* is not a press until it has been let go.                                *)
PanelInit ==
    /\ debounce = [held |-> TRUE, disagreeing |-> 0]
    /\ reads = [held |-> 0, released |-> 0, letGo |-> FALSE, made |-> 0]
    /\ window = "silent" /\ expired = FALSE /\ act = "none"
    /\ registered = FALSE /\ retry = "none" /\ events = << >>
    /\ clients = [open |-> 0, opened |-> 0]
    /\ air = [on |-> FALSE, seen |-> TRUE]
    /\ run = [state |-> "idle", provisioned |-> FALSE, seen |-> TRUE]
    /\ led = [shown |-> [run |-> "idle", provisioned |-> FALSE, onAir |-> FALSE], half |-> 1, lit |-> {}]
-----------------------------------------------------------------------------
(* Debounce::settle.                                                       *)
(* Mutant of Settles: reads that agree between leave the count as it is.   *)
SettlesLoosely(d, held) ==
    IF held = d.held THEN d
    ELSE IF d.disagreeing + 1 < Stable THEN [d EXCEPT !.disagreeing = @ + 1]
    ELSE [held |-> held, disagreeing |-> 0]

Settles(d, held) ==
    IF held = d.held THEN [d EXCEPT !.disagreeing = 0]
    ELSE IF d.disagreeing + 1 < Stable THEN [d EXCEPT !.disagreeing = @ + 1]
    ELSE [held |-> held, disagreeing |-> 0]

Counted(n) == IF n < Stable THEN n + 1 ELSE n

(* Window::handle.                                                         *)
Handled(event) ==
    CASE event = "press" /\ window # "connected" -> [state |-> "open", action |-> "advertise"]
      [] event = "timer" /\ window = "open" /\ expired -> [state |-> "silent", action |-> "withdraw"]
      [] event = "connect" /\ window = "open" -> [state |-> "connected", action |-> "withdraw"]
      [] event = "connect" /\ window = "silent" -> [state |-> "connected", action |-> "none"]
      [] event = "disconnect" /\ window = "connected" -> [state |-> "silent", action |-> "none"]
      [] OTHER -> [state |-> window, action |-> "none"]

Handles(event) ==
    /\ window' = Handled(event).state
    /\ act' = Handled(event).action
    /\ expired' = (expired /\ event # "press" /\ window' = "open")

(* Polled::pressed: a read while keep listens, and a press where it settles *)
(* at held. A line that cannot be read is read again.                      *)
ReadsLine(held) ==
    /\ act = "none" /\ reads.made < MaxReads
    /\ debounce' = Settles(debounce, held)
    /\ reads' = [held |-> IF held THEN Counted(reads.held) ELSE 0,
                 released |-> IF held THEN 0 ELSE Counted(reads.released),
                 letGo |-> IF debounce'.held /\ ~debounce.held THEN FALSE
                           ELSE reads.letGo \/ (~held /\ Counted(reads.released) = Stable),
                 made |-> reads.made + 1]
    /\ IF debounce'.held /\ ~debounce.held THEN Handles("press") ELSE UNCHANGED <<window, expired, act>>
    /\ UNCHANGED <<registered, retry, events, clients, air, run, led>>

Hears ==
    /\ act = "none" /\ events # << >>
    /\ Handles(Head(events))
    /\ events' = Tail(events)
    /\ UNCHANGED <<debounce, reads, registered, retry, clients, air, run, led>>

TimePasses ==
    /\ \/ window = "open" /\ ~expired /\ expired' = TRUE /\ UNCHANGED retry
       \/ retry = "waiting" /\ retry' = "due" /\ UNCHANGED expired
    /\ UNCHANGED <<debounce, reads, window, act, registered, events, clients, air, run, led>>

TimesOut ==
    /\ act = "none" /\ window = "open" /\ expired
    /\ Handles("timer")
    /\ UNCHANGED <<debounce, reads, registered, retry, events, clients, air, run, led>>

RetriesNow ==
    /\ act = "none" /\ retry = "due"
    /\ act' = "advertise"
    /\ UNCHANGED <<debounce, reads, window, expired, registered, retry, events, clients, air, run, led>>
-----------------------------------------------------------------------------
(* What keep does about the air. Radio::on and Radio::off tell the LED.    *)
Tells(on) == air' = [on |-> on, seen |-> (on = air.on /\ air.seen)]

(* Registered afresh on every press, so first taken off the air.           *)
TakesOff ==
    /\ act = "advertise" /\ registered
    /\ registered' = FALSE
    /\ Tells(FALSE)
    /\ UNCHANGED <<debounce, reads, window, expired, act, retry, events, clients, run, led>>

PutsOn ==
    /\ act = "advertise" /\ ~registered
    /\ act' = "none"
    /\ \/ registered' = TRUE /\ retry' = "none" /\ Tells(TRUE)
       \/ retry' = "waiting" /\ UNCHANGED <<registered, air>>
    /\ UNCHANGED <<debounce, reads, window, expired, events, clients, run, led>>

(* Mutant of Withdraws: a retry is left to come.                           *)
WithdrawsOnce ==
    /\ act = "withdraw"
    /\ act' = "none"
    /\ IF registered THEN registered' = FALSE /\ Tells(FALSE) ELSE UNCHANGED <<registered, air>>
    /\ UNCHANGED <<debounce, reads, window, expired, retry, events, clients, run, led>>

Withdraws ==
    /\ act = "withdraw"
    /\ act' = "none" /\ retry' = "none"
    /\ IF registered THEN registered' = FALSE /\ Tells(FALSE) ELSE UNCHANGED <<registered, air>>
    /\ UNCHANGED <<debounce, reads, window, expired, events, clients, run, led>>

(* A session opens on a connection made while the device was on the air,   *)
(* and ends (sessions.rs; DeviceLink is the detail).                       *)
SessionOpens ==
    /\ air.on /\ clients.opened < MaxSessions
    /\ clients' = [open |-> clients.open + 1, opened |-> clients.opened + 1]
    /\ events' = Append(events, "connect")
    /\ UNCHANGED <<debounce, reads, window, expired, act, registered, retry, air, run, led>>

SessionCloses ==
    /\ clients.open > 0
    /\ clients' = [clients EXCEPT !.open = @ - 1]
    /\ events' = Append(events, "disconnect")
    /\ UNCHANGED <<debounce, reads, window, expired, act, registered, retry, air, run, led>>
-----------------------------------------------------------------------------
(* led.rs. A pattern is the two halves of its cycle.                       *)
Red == {"red"}
Green == {"green"}
Amber == {"red", "green"}

Pattern(s) ==
    CASE s.run = "running" -> <<Green, {}>>
      [] s.run = "waiting" -> <<Amber, {}>>
      [] s.run \notin {"running", "waiting"} /\ s.onAir -> <<Red, Green>>
      [] s.run = "failed" /\ ~s.onAir -> <<Red, {}>>
      [] OTHER -> IF s.provisioned THEN <<Green, Green>> ELSE <<Amber, Amber>>

(* show, and the time of the half. A steady colour is shown once. A write  *)
(* that fails leaves the LED as it was.                                    *)
Blinks ==
    /\ led.half = 1 \/ Pattern(led.shown)[1] # Pattern(led.shown)[2]
    /\ \/ led' = [led EXCEPT !.lit = Pattern(led.shown)[led.half], !.half = 3 - @]
       \/ led' = [led EXCEPT !.half = 3 - @]
    /\ UNCHANGED <<debounce, reads, window, expired, act, registered, retry, events, clients, air, run>>

(* next_shown: both watches are read and marked as seen, whichever of them *)
(* changed.                                                                *)
NextShown(s) == IF s # led.shown THEN [led EXCEPT !.shown = s, !.half = 1] ELSE led

LedSees ==
    /\ ~run.seen \/ ~air.seen
    /\ led' = NextShown(Shown(run, air))
    /\ run' = [run EXCEPT !.seen = TRUE] /\ air' = [air EXCEPT !.seen = TRUE]
    /\ UNCHANGED <<debounce, reads, window, expired, act, registered, retry, events, clients>>

RunMoves ==
    /\ \E s \in RunStates, p \in BOOLEAN :
         run' = [state |-> s, provisioned |-> run.provisioned \/ p, seen |-> FALSE]
    /\ UNCHANGED <<debounce, reads, window, expired, act, registered, retry, events, clients, air, led>>
-----------------------------------------------------------------------------
PanelNext ==
    \/ \E held \in BOOLEAN : ReadsLine(held)
    \/ Hears \/ TimePasses \/ TimesOut \/ RetriesNow
    \/ TakesOff \/ PutsOn \/ Withdraws
    \/ SessionOpens \/ SessionCloses
    \/ Blinks \/ LedSees \/ RunMoves

PanelSpec == PanelInit /\ [][PanelNext]_panelVars
-----------------------------------------------------------------------------
(* The device is on the air, or is to be again, only in the window a press *)
(* opened: nothing a window that closed left behind puts it back on the    *)
(* air (window.rs, keep).                                                  *)
OnAirByInvitation ==
    (act = "none" /\ (registered \/ retry # "none")) => window = "open"

(* A press is the button's being held for a number of reads in a row, once *)
(* it had been let go as surely since the press before, or since the       *)
(* daemon started (button.rs, settle).                                     *)
PressIsHeld ==
    [][(debounce'.held /\ ~debounce.held) => reads'.held = Stable /\ reads.letGo]_panelVars

(* The LED is never left showing what is no longer so: where it shows      *)
(* something else, a change it has yet to see will tell it (led.rs).       *)
LedFollows ==
    Shown(run, air) # led.shown => ~run.seen \/ ~air.seen

(* What the device does and shows is what was last asked of it: it is on   *)
(* the air by a press and no other way, and the LED says so.               *)
PanelIsHonest == OnAirByInvitation /\ LedFollows
=============================================================================
