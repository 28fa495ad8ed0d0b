--------------------------- MODULE TailscaleActs ----------------------------
(***************************************************************************)
(* Tailscale: crates/bliti/src/tailscale.rs, with acts.rs, run.rs,         *)
(* state.rs, restriction.rs and ping.rs.                                   *)
(*                                                                         *)
(* Clients ask for acts on streams, one at a time between them all. A      *)
(* watcher publishes what tailscaled says of itself, and an act waits for  *)
(* what it asked of tailscaled to be seen there. An act waiting on someone *)
(* outside the device ends with the stream that asked.                     *)
(*                                                                         *)
(* tailscaled is external: it takes or refuses what it is asked, or takes  *)
(* it and is not heard to, changes state in its own time, and goes on with *)
(* a sign-in whether or not anyone waits for it.                           *)
(***************************************************************************)
EXTENDS Naturals, FiniteSets

CONSTANTS
    Tailnet,    \* Options::tailnet: the one tailnet accepted, or "any"
    Watchers,    \* the Tailscale watching there may be
    MaxActs,     \* bound: acts asked for
    MaxTroubles  \* bound: buses closed, and states changed by someone else

ASSUME TailscaleAssumption == Watchers \cap {"none", "gone"} = {} /\ {MaxActs, MaxTroubles} \subseteq Nat

VARIABLES
    ts,          \* tailscaled: its state, the tailnet it names, the one it joined, and
                 \* whether a link it issued or a key it has may sign it in yet
    seen,        \* what the watcher last published
    bus,         \* whether the watcher has tailscaled's bus
    slot,        \* Inner::slot: the act under way
    act,         \* the act accepted: where it is, how it signs in, and the stream that asked
    watching,     \* each stream: whether it is open, and the acts listed on it
    stray,       \* whether a sign-in ended before what it joined was named, or could not be
                 \* undone, and the device has not logged out since
    actMade      \* what the bounds count

tailscaleVars == <<ts, seen, bus, slot, act, watching, stray, actMade>>

NotAny == "none"
NoAct == [at |-> NotAny, act |-> NotAny, method |-> NotAny, by |-> NotAny]
BusLost == [state |-> "broken", tailnet |-> NotAny]
LoggedOut == [state |-> "needs-login", tailnet |-> NotAny, joined |-> NotAny, asked |-> FALSE]
Known == {"running", "starting", "stopped", "needs-login", "expired", "needs-approval"}

(* restriction.rs: a device signed in elsewhere does not start.            *)
MayStart(joined) == Tailnet = "any" \/ joined \in {NotAny, Tailnet}

TailscaleInit ==
    /\ ts \in {LoggedOut} \cup {[state |-> s, tailnet |-> "ours", joined |-> "ours", asked |-> FALSE] :
                                    s \in {"stopped", "running"}}
    /\ MayStart(ts.tailnet)
    /\ seen = [state |-> ts.state, tailnet |-> ts.tailnet]
    /\ bus = TRUE /\ slot = NotAny /\ act = NoAct
    /\ watching = [w \in Watchers |-> [open |-> FALSE, listed |-> {}]]
    /\ stray = FALSE
    /\ actMade = [acts |-> 0, troubles |-> 0]

(***************************************************************************)
(* tailscaled.                                                             *)
(***************************************************************************)

(* An approved link or a key joins whichever tailnet it is of. One that    *)
(* must be approved there may not name it yet.                             *)
Joins(net, state, named) ==
    /\ ts.asked /\ ts' = [state |-> state, tailnet |-> named, joined |-> net, asked |-> FALSE]
    /\ named = net \/ (state = "needs-approval" /\ named = NotAny)
    /\ UNCHANGED <<seen, bus, slot, act, watching, stray, actMade>>

(* It connects, or an administrator of the tailnet has approved it.        *)
ComesUp ==
    /\ ts.state \in {"starting", "needs-approval"}
    /\ ts' = [ts EXCEPT !.state = "running", !.tailnet = ts.joined]
    /\ UNCHANGED <<seen, bus, slot, act, watching, stray, actMade>>

(* Someone at the device runs tailscale, or a key expires.                 *)
Meddles ==
    /\ actMade.troubles < MaxTroubles
    /\ actMade' = [actMade EXCEPT !.troubles = @ + 1]
    /\ \/ ts.state = "running" /\ ts' = [ts EXCEPT !.state = "stopped"]
       \/ ts.state = "stopped" /\ ts' = [ts EXCEPT !.state = "starting"]
       \/ ts.state = "running" /\ ts' = [ts EXCEPT !.state = "expired"]
    /\ UNCHANGED <<seen, bus, slot, act, watching, stray>>

(***************************************************************************)
(* The watcher: state::watch and publish.                                  *)
(***************************************************************************)

Published(what) ==
    /\ seen # what /\ seen' = what
    /\ UNCHANGED <<ts, slot, act, watching, stray>>
WatcherSees == bus /\ Published([state |-> ts.state, tailnet |-> ts.tailnet]) /\ UNCHANGED <<bus, actMade>>
BusCloses ==
    /\ bus /\ bus' = FALSE
    /\ actMade.troubles < MaxTroubles /\ actMade' = [actMade EXCEPT !.troubles = @ + 1]
    /\ Published(BusLost)
Reconnects == ~bus /\ bus' = TRUE /\ Published([state |-> ts.state, tailnet |-> ts.tailnet]) /\ UNCHANGED actMade

(***************************************************************************)
(* Asking: serve, decide and Slot.                                         *)
(***************************************************************************)

Listed(state) ==
    {"netcheck"}
    \cup (IF state \in {"needs-login", "expired"} THEN {"sign-in"} ELSE {})
    \cup (IF state = "stopped" THEN {"turn-on"} ELSE {})
    \cup (IF state \in {"running", "starting"} THEN {"turn-off"} ELSE {})
    \cup (IF state \in {"running", "starting", "stopped", "needs-approval"} THEN {"log-out"} ELSE {})
    \cup (IF state = "running" THEN {"ping"} ELSE {})

TailscaleOpens(w) ==
    /\ ~watching[w].open
    /\ watching' = [watching EXCEPT ![w] = [open |-> TRUE, listed |-> Listed(seen.state)]]
    /\ UNCHANGED <<ts, seen, bus, slot, act, stray, actMade>>

Relists(w) ==
    /\ watching[w].open /\ watching[w].listed # Listed(seen.state)
    /\ watching' = [watching EXCEPT ![w].listed = Listed(seen.state)]
    /\ UNCHANGED <<ts, seen, bus, slot, act, stray, actMade>>

AsksTailscale(w, name, method) ==
    /\ watching[w].open /\ actMade.acts < MaxActs
    /\ name = "sign-in" <=> method # NotAny
    /\ actMade' = [actMade EXCEPT !.acts = @ + 1]
    /\ \/ /\ name \in Listed(seen.state) /\ slot = NotAny
          /\ slot' = name
          /\ act' = [at |-> "accepting", act |-> name, method |-> method, by |-> w]
       \/ (name \notin Listed(seen.state) \/ slot # NotAny) /\ UNCHANGED <<slot, act>>
    /\ UNCHANGED <<ts, seen, bus, watching, stray>>

ActAccepted ==
    /\ act.at = "accepting"
    /\ act' = [act EXCEPT !.at = "calling"]
    /\ UNCHANGED <<ts, seen, bus, slot, watching, stray, actMade>>

(* Slot::drop, as whatever holds the slot is dropped.                      *)
GivesBack == slot' = NotAny /\ act' = NoAct

(* The stream ends, or can no longer be written to: what it was accepting  *)
(* is dropped, and so is an act waiting on someone outside.                *)
WaitsOnSomeone(a) == a.act \in {"netcheck", "ping"} \/ a.method = "login-link"
TailscaleCloses(w) ==
    /\ watching[w].open
    /\ watching' = [watching EXCEPT ![w] = [open |-> FALSE, listed |-> {}]]
    /\ IF act.by = w /\ (act.at = "accepting" \/ WaitsOnSomeone(act))
       THEN GivesBack /\ stray' = (stray \/ (act.act = "sign-in" /\ act.at # "accepting"))
       ELSE act' = (IF act.by = w THEN [act EXCEPT !.by = "gone"] ELSE act) /\ UNCHANGED <<slot, stray>>
    /\ UNCHANGED <<ts, seen, bus, actMade>>

(***************************************************************************)
(* Carrying out: run.rs.                                                   *)
(***************************************************************************)

Target(name) ==
    CASE name = "turn-on" -> {"running", "starting"}
      [] name = "turn-off" -> {"stopped"}
      [] name = "log-out" -> {"needs-login"}
      [] name = "sign-in" -> {"running", "needs-approval"}
      [] OTHER -> Known \cup {"broken"}

Does(name) ==
    CASE name = "turn-on" -> [ts EXCEPT !.state = IF @ = "stopped" THEN "starting" ELSE @]
      [] name = "turn-off" -> [ts EXCEPT !.state = IF @ \in {"running", "starting"} THEN "stopped" ELSE @]
      [] name = "log-out" -> LoggedOut
      [] name = "sign-in" -> [LoggedOut EXCEPT !.asked = TRUE]
      [] OTHER -> ts

(* The call is answered, or fails with or without having had its effect: a *)
(* sign-in has its key taken by one call and its login begun by the next.  *)
Called(ok) ==
    /\ act.at = "calling"
    /\ \/ ok /\ act' = [act EXCEPT !.at = "waiting"] /\ UNCHANGED slot
       \/ ~ok /\ GivesBack
    /\ \/ /\ ts' = Does(act.act)
          /\ stray' = IF ok /\ act.act = "sign-in" THEN stray
                      ELSE act.act = "sign-in" \/ (stray /\ act.act # "log-out")
       \/ ~ok /\ UNCHANGED <<ts, stray>>
    /\ UNCHANGED <<seen, bus, watching, actMade>>

(* What was asked is seen. A sign-in that joined another tailnet than the  *)
(* one accepted is signed out again, where the tailnet is named by then.   *)
Unaccepted(net) == Tailnet # "any" /\ net \notin {NotAny, Tailnet}
TargetSeen ==
    /\ act.at = "waiting" /\ seen.state \in Target(act.act)
    /\ IF act.act = "sign-in" /\ Unaccepted(seen.tailnet)
       THEN act' = [act EXCEPT !.at = "refusing"] /\ UNCHANGED <<slot, stray>>
       ELSE GivesBack /\ stray' = (stray \/ (act.act = "sign-in" /\ seen.tailnet = NotAny))
    /\ UNCHANGED <<ts, seen, bus, watching, actMade>>

Refuses(ok) ==
    /\ act.at = "refusing"
    /\ \/ ok /\ ts' = LoggedOut /\ stray' = FALSE
       \/ ~ok /\ stray' = TRUE /\ UNCHANGED ts
    /\ GivesBack
    /\ UNCHANGED <<seen, bus, watching, actMade>>

(* TRANSITION or SIGN_IN has passed, or tailscaled says the sign-in has    *)
(* failed.                                                                 *)
TimesOut ==
    /\ act.at = "waiting" /\ GivesBack
    /\ stray' = (stray \/ act.act = "sign-in")
    /\ UNCHANGED <<ts, seen, bus, watching, actMade>>

TailscaleNext ==
    \/ \E net \in {"ours", "other"}, s \in {"running", "needs-approval"}, named \in {"ours", "other", NotAny} :
           Joins(net, s, named)
    \/ ComesUp \/ Meddles \/ WatcherSees \/ BusCloses \/ Reconnects
    \/ \E w \in Watchers : TailscaleOpens(w) \/ Relists(w) \/ TailscaleCloses(w)
           \/ \E name \in {"sign-in", "turn-on", "turn-off", "log-out", "netcheck", "ping"}, m \in {NotAny, "auth-key", "login-link"} :
                  AsksTailscale(w, name, m)
    \/ ActAccepted \/ TargetSeen \/ TimesOut
    \/ \E ok \in BOOLEAN : Called(ok) \/ Refuses(ok)

TailscaleSpec == TailscaleInit /\ [][TailscaleNext]_tailscaleVars

(***************************************************************************)
(* Properties.                                                             *)
(***************************************************************************)

Elsewhere == Tailnet # "any" /\ ts.joined \notin {NotAny, Tailnet}

(* control/tailscale.md:116. A device restricted to one tailnet is never   *)
(* left signed in to another: while it is, an act is there to sign it out. *)
NotLeftInOther == Elsewhere => act.at \in {"waiting", "refusing"}

(* tailscale.rs:249, run.rs:150, run.rs:226. One act is under way from its *)
(* acceptance to its end, whichever stream asked and however that stream   *)
(* ended, and one waiting on someone outside has its stream. A device is   *)
(* left in another tailnet only by a sign-in given up or failed part way   *)
(* before what it joined was seen, by one that ended awaiting approval in  *)
(* a tailnet not yet named, or by one that could not be signed out again.  *)
OneActToItsEnd ==
    /\ slot = act.act
    /\ act.by = "gone" => ~WaitsOnSomeone(act) /\ act.at # "accepting"
    /\ act.by \in Watchers => watching[act.by].open
    /\ ~stray => NotLeftInOther
=============================================================================
