------------------------------ MODULE WebLink ------------------------------
(***************************************************************************)
(* A web page's link to one device over Web Bluetooth, as operators on its *)
(* state: bliti-web/app/src/link.js.                                       *)
(*                                                                         *)
(* A page runs one task at a time, so what happens between two awaits is   *)
(* one step.  An open is known by the generation it began, and is at the   *)
(* await it has reached; `attached` is the open whose listeners are on the *)
(* device, which is the one whose closing the page is told of; `up` and    *)
(* `session` are the browser's connection, and the notifications by which  *)
(* the device serves a session.                                            *)
(***************************************************************************)
EXTENDS Naturals

CONSTANT MaxGenerations   \* bound: opens and lettings go

ASSUME WebLinkAssumption == MaxGenerations \in Nat \ {0}

OpenIds == 1..MaxGenerations

createLink ==
    [device |-> FALSE, channel |-> 0, generation |-> 0, attached |-> 0, notifying |-> FALSE,
     up |-> FALSE, session |-> FALSE, stops |-> {}, opens |-> [n \in OpenIds |-> "none"]]

(* The connection gone: every listener still on the device hears of it,    *)
(* and then what was asked over it fails. A handshake waiting to read      *)
(* never settles: nothing ends the bytes it reads.                         *)
Fails(pc) ==
    CASE pc \in {"asking", "slot", "starting"} -> "failing"
      [] pc = "shaking" -> "cut"
      [] OTHER -> pc
Down(l) ==
    [l EXCEPT !.up = FALSE, !.session = FALSE, !.attached = 0,
              !.opens = [n \in OpenIds |-> IF l.up THEN Fails(@[n]) ELSE @[n]]]

(* disconnect, and the drop it begins: notifications are turned off first, *)
(* which is awaited.                                                       *)
ForgetsNotLink(l) ==
    LET m == [l EXCEPT !.attached = 0, !.device = FALSE, !.channel = 0, !.notifying = FALSE]
    IN CASE ~l.device \/ ~l.up -> m
         [] l.device /\ l.up /\ l.notifying -> [m EXCEPT !.stops = @ \cup {l.generation}]
         [] OTHER -> Down(m)

letGoOf(l) ==
    LET g == l.generation + 1
        m == [l EXCEPT !.generation = g, !.attached = 0, !.device = FALSE, !.channel = 0, !.notifying = FALSE]
    IN CASE ~l.device \/ ~l.up -> m
         [] l.device /\ l.up /\ l.notifying -> [m EXCEPT !.stops = @ \cup {g}]
         [] OTHER -> Down(m)

(* What drop does once notifications are off, begun at generation g. Those *)
(* an open has turned on since are not the ones turned off.                *)
NotificationsOff(l, g) ==
    LET m == [l EXCEPT !.stops = @ \ {g}, !.session = @ /\ l.notifying]
    IN IF g = l.generation THEN Down(m) ELSE m

(* open, as far as its first await. *)
CanOpen(l) == l.generation < MaxGenerations
OpenBegins(l) ==
    LET g == l.generation + 1
        m == [l EXCEPT !.generation = g, !.attached = 0, !.notifying = FALSE]
    IN IF l.up /\ l.notifying THEN [m EXCEPT !.opens[g] = "dropping"]
       ELSE [Down(m) EXCEPT !.opens[g] = "connecting"]

(* Where a step leaves an open: the link, how the open stands, and whether *)
(* the page was told of a channel closing on the way.                      *)
Result(l, out, told) == [link |-> l, out |-> out, told |-> told]
At(l, n, pc) == [l EXCEPT !.opens[n] = pc]
Rejected(l, n) == Result(At(l, n, "none"), "rejected", FALSE)

(* current: an open overtaken drops the connection and stops. *)
current(l, n, pc) ==
    CASE n = l.generation -> Result(At(l, n, pc), "on", FALSE)
      [] n # l.generation /\ l.device /\ l.up -> [Rejected(Down(l), n) EXCEPT !.told = l.attached # 0]
      [] OTHER -> Rejected(l, n)

GattConnects(l, n) == current([l EXCEPT !.up = TRUE], n, "asking")

(* The slot read: none, where the device serves as many as it can. *)
SlotRead(l, n) ==
    LET c == current(l, n, "slot")
    IN {c} \cup {r \in {Rejected(Down(l), n)} : c.out = "on"}

Attaches(l, n) ==
    LET c == current(l, n, "starting")
    IN IF c.out = "on" THEN [c EXCEPT !.link.channel = n, !.link.attached = n] ELSE c

NotificationsOn(l, n) == current([l EXCEPT !.session = TRUE, !.notifying = TRUE], n, "shaking")

(* The handshake and the hello: done, or failed with the channel under it, *)
(* which the page is told of as well.                                      *)
Shakes(l, n) ==
    LET c == current(l, n, "none")
    IN {[c EXCEPT !.out = IF @ = "on" THEN "resolved" ELSE @]}
       \cup {r \in {[Rejected([l EXCEPT !.attached = 0], n) EXCEPT !.told = TRUE]} : l.attached = n}

(* What an open's await may come to. *)
Resolves(l, n) ==
    CASE l.opens[n] = "dropping" ->
            LET m == NotificationsOff(l, n) IN {IF l.device THEN Result(At(m, n, "connecting"), "on", FALSE) ELSE Rejected(m, n)}
      [] l.opens[n] = "connecting" -> {GattConnects(l, n)}
      [] l.opens[n] = "asking" -> SlotRead(l, n)
      [] l.opens[n] = "slot" -> {Attaches(l, n)}
      [] l.opens[n] = "starting" -> {NotificationsOn(l, n)}
      [] l.opens[n] = "shaking" -> Shakes(l, n)
      [] l.opens[n] = "cut" -> {Result(At(l, n, "hung"), "on", FALSE)}
      [] OTHER -> {}
Steps(l, n) ==
    Resolves(l, n) \cup {r \in {Rejected(l, n)} : l.opens[n] \notin {"none", "dropping", "hung"}}

(* The browser fails what was asked over a connection as it says it went. *)
Failing(l) == {n \in OpenIds : l.opens[n] \in {"failing", "cut"}}

(* An open whose handshake waits on a connection that has gone. *)
Hung(l, n) == l.opens[n] = "hung"
=============================================================================
