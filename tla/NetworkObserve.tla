---------------------------- MODULE NetworkObserve --------------------------
(***************************************************************************)
(* The observers of the network stack: iwd over D-Bus                      *)
(* (network/observe/iwd.rs, with its agent), and the kernel over rtnetlink *)
(* (network/observe/rtnl.rs).  Each turns a stream of changes and a        *)
(* reading of what is there into what the driver is told.                  *)
(*                                                                         *)
(* One station and one wired interface.  iwd dies and is started again, as *)
(* the applier has it, and its object paths are the same after.  Its       *)
(* signals and the changes of its name's owner come in two streams, and    *)
(* the observer takes from either, whichever came first.                   *)
(***************************************************************************)
EXTENDS Naturals, Sequences, FiniteSets

CONSTANTS Tries,       \* how often a gateway is asked
          MaxMoves,    \* changes of iwd's and the kernel's
          MaxFails     \* calls to iwd that fail while it is there

ASSUME TriesAssumption == Tries \in Nat

VARIABLES iwd,         \* iwd itself: its life, station, state and scans
          signals,     \* its signals not yet taken, each with the life it is of
          owners,      \* the changes of its name's owner not yet taken
          watch,       \* the observer: what it awaits, what it knows
          told,        \* the station as the driver was last told of it
          scan,        \* a scan the driver asked for
          kernel,      \* the interface and its address
          events,      \* rtnetlink's messages not yet taken
          rtnl,        \* the rtnetlink observer, and what it told
          asks,        \* two probes of gateways on one interface
          gather,      \* a scan's parts, and what has been read of them
          moves

observeVars == <<iwd, signals, owners, watch, told, scan, kernel, events, rtnl, asks, gather, moves>>

States == {"disconnected", "busy", "connected"}

ObserveInit ==
    /\ iwd = [up |-> TRUE, life |-> 1, station |-> TRUE, state |-> "disconnected", scanning |-> FALSE, scans |-> 0]
    /\ signals = <<>> /\ owners = <<>>
    /\ watch = [at |-> "registering", known |-> FALSE, agent |-> 0, fails |-> 0, crossed |-> FALSE]
    /\ told = "disconnected"
    /\ scan = [at |-> "none", seen |-> FALSE, asked |-> 0, ended |-> 0]
    /\ kernel = [link |-> TRUE, address |-> "none"]
    /\ events = <<>>
    /\ rtnl = [at |-> "links", known |-> FALSE, up |-> FALSE, address |-> FALSE]
    /\ asks \in [1..2 -> [by : {"arp", "echo"}, at : {"none"}, left : {Tries}, replied : {FALSE}, beside : {FALSE}]]
    /\ gather = [at |-> "none", part |-> 0, held |-> {}, ended |-> 0, got |-> {}, behind |-> FALSE]
    /\ moves = 0

Moves == moves < MaxMoves /\ moves' = moves + 1

-----------------------------------------------------------------------------
(* iwd.                                                                    *)

Signal(kind, value) == [kind |-> kind, value |-> value, life |-> iwd.life]
Emits(s) == signals' = Append(signals, s)

IwdMoves ==
    \E s \in States \ {iwd.state} :
        /\ Moves /\ iwd.up /\ iwd.station
        /\ iwd' = [iwd EXCEPT !.state = s] /\ Emits(Signal("state", s))
        /\ UNCHANGED <<owners, watch, told, scan, kernel, events, rtnl, asks, gather>>

(* The station goes, with the device or with iwd stopping in good order.   *)
StationGoes ==
    /\ Moves /\ iwd.up /\ iwd.station
    /\ iwd' = [iwd EXCEPT !.station = FALSE, !.state = "disconnected", !.scanning = FALSE]
    /\ Emits(Signal("removed", "disconnected"))
    /\ UNCHANGED <<owners, watch, told, scan, kernel, events, rtnl, asks, gather>>

StationComes ==
    /\ iwd.up /\ ~iwd.station
    /\ iwd' = [iwd EXCEPT !.station = TRUE] /\ Emits(Signal("added", "disconnected"))
    /\ UNCHANGED <<owners, watch, told, scan, kernel, events, rtnl, asks, gather, moves>>

IwdDies ==
    /\ Moves /\ iwd.up
    /\ iwd' = [iwd EXCEPT !.up = FALSE, !.station = FALSE, !.state = "disconnected", !.scanning = FALSE]
    /\ owners' = Append(owners, "gone")
    /\ UNCHANGED <<signals, watch, told, scan, kernel, events, rtnl, asks, gather>>

IwdStarts ==
    /\ ~iwd.up
    /\ iwd' = [iwd EXCEPT !.up = TRUE, !.life = @ + 1]
    /\ owners' = Append(owners, "here")
    /\ UNCHANGED <<signals, watch, told, scan, kernel, events, rtnl, asks, gather, moves>>

IwdScans ==
    /\ Moves /\ iwd.station /\ ~iwd.scanning
    /\ iwd' = [iwd EXCEPT !.scanning = TRUE]
    /\ UNCHANGED <<signals, owners, watch, told, scan, kernel, events, rtnl, asks, gather>>

IwdScanned ==
    /\ iwd.scanning
    /\ iwd' = [iwd EXCEPT !.scanning = FALSE, !.scans = @ + 1]
    /\ scan' = [scan EXCEPT !.seen = scan.at \in {"matched", "checking", "waiting"}]
    /\ UNCHANGED <<signals, owners, watch, told, kernel, events, rtnl, asks, gather, moves>>

-----------------------------------------------------------------------------
(* The iwd observer.                                                       *)

AtRest == watch.at = "idle"

(* The station's state as it is put to the driver: what it is joined to is *)
(* asked of iwd then, and a station that cannot say is busy.               *)
TakesSignal ==
    /\ AtRest /\ signals # <<>> /\ signals' = Tail(signals)
    /\ LET s == Head(signals)
           late == s.life < iwd.life /\ owners = <<>>   \* of an iwd that has gone, the news of it taken
       IN  \/ /\ s.kind = "state" /\ ~watch.known /\ UNCHANGED <<watch, told>>
           \/ /\ s.kind = "state" /\ watch.known
              /\ told' = IF s.value = "connected" THEN told ELSE s.value
              /\ watch' = [watch EXCEPT !.at = IF s.value = "connected" THEN "joining" ELSE "idle",
                                        !.crossed = @ \/ late]
           \/ /\ s.kind = "added"
              /\ told' = s.value /\ watch' = [watch EXCEPT !.known = TRUE, !.crossed = @ \/ late]
           \/ /\ s.kind = "removed"
              /\ told' = IF watch.known THEN "disconnected" ELSE told
              /\ watch' = [watch EXCEPT !.known = FALSE, !.crossed = @ \/ (late /\ watch.known)]
    /\ UNCHANGED <<iwd, owners, scan, kernel, events, rtnl, asks, gather, moves>>

Joins ==
    /\ watch.at = "joining" /\ watch' = [watch EXCEPT !.at = "idle"]
    /\ told' = IF iwd.state = "connected" THEN "connected" ELSE "busy"
    /\ UNCHANGED <<iwd, signals, owners, scan, kernel, events, rtnl, asks, gather, moves>>

JoinFails ==
    /\ watch.at = "joining" /\ watch.fails < MaxFails
    /\ watch' = [watch EXCEPT !.at = "idle", !.fails = @ + 1] /\ told' = "busy"
    /\ UNCHANGED <<iwd, signals, owners, scan, kernel, events, rtnl, asks, gather, moves>>

(* iwd going takes every station with it; one that is there is registered  *)
(* with as its agent and read afresh.                                      *)
ForgetsOnly(o) == watch' = [watch EXCEPT !.known = FALSE]
Forgets(o) ==
    watch' = [watch EXCEPT !.known = FALSE, !.at = IF o = "here" THEN "registering" ELSE "idle"]

TakesOwner ==
    /\ AtRest /\ owners # <<>> /\ owners' = Tail(owners)
    /\ told' = IF watch.known THEN "disconnected" ELSE told
    /\ Forgets(Head(owners))
    /\ UNCHANGED <<iwd, signals, scan, kernel, events, rtnl, asks, gather, moves>>

Registers ==
    /\ watch.at = "registering"
    /\ watch' = [watch EXCEPT !.at = "resyncing", !.agent = IF iwd.up THEN iwd.life ELSE @]
    /\ UNCHANGED <<iwd, signals, owners, told, scan, kernel, events, rtnl, asks, gather, moves>>

Resyncs ==
    /\ watch.at = "resyncing"
    /\ IF iwd.station
       THEN /\ told' = IF iwd.state = "connected" THEN told ELSE iwd.state
            /\ watch' = [watch EXCEPT !.known = TRUE, !.at = IF iwd.state = "connected" THEN "joining" ELSE "idle"]
       ELSE watch' = [watch EXCEPT !.at = "idle"] /\ UNCHANGED told
    /\ UNCHANGED <<iwd, signals, owners, scan, kernel, events, rtnl, asks, gather, moves>>

(* iwd does not answer, and what it has is not asked for again.            *)
ResyncFails ==
    /\ watch.at = "resyncing" /\ watch.fails < MaxFails
    /\ watch' = [watch EXCEPT !.at = "idle", !.fails = @ + 1]
    /\ UNCHANGED <<iwd, signals, owners, told, scan, kernel, events, rtnl, asks, gather, moves>>

-----------------------------------------------------------------------------
(* A scan: its end is listened for before it is asked for.                 *)

ScanMatches ==
    /\ scan.at = "none" /\ iwd.station
    /\ scan' = [scan EXCEPT !.at = "matched", !.seen = FALSE]
    /\ UNCHANGED <<iwd, signals, owners, watch, told, kernel, events, rtnl, asks, gather, moves>>

Waits == [scan EXCEPT !.at = "waiting", !.asked = iwd.scans]

ScanAsks ==
    /\ scan.at = "matched"
    /\ \/ /\ ~iwd.up /\ scan' = [scan EXCEPT !.at = "refused"] /\ UNCHANGED iwd
       \/ /\ iwd.station /\ ~iwd.scanning /\ iwd.state # "busy"
          /\ iwd' = [iwd EXCEPT !.scanning = TRUE] /\ scan' = Waits
       \/ /\ iwd.station /\ (iwd.scanning \/ iwd.state = "busy")
          /\ scan' = [scan EXCEPT !.at = "checking", !.asked = iwd.scans] /\ UNCHANGED iwd
    /\ UNCHANGED <<signals, owners, watch, told, kernel, events, rtnl, asks, gather, moves>>

(* iwd was busy: with a scan, which is waited for, or without.             *)
ChecksOf == IF iwd.scanning THEN [scan EXCEPT !.at = "waiting"] ELSE [scan EXCEPT !.at = "answered", !.ended = iwd.scans]
ScanChecks ==
    /\ scan.at = "checking" /\ scan' = ChecksOf
    /\ UNCHANGED <<iwd, signals, owners, watch, told, kernel, events, rtnl, asks, gather, moves>>

ScanHears ==
    /\ scan.at = "waiting" /\ scan.seen
    /\ scan' = [scan EXCEPT !.at = "answered", !.ended = iwd.scans]
    /\ UNCHANGED <<iwd, signals, owners, watch, told, kernel, events, rtnl, asks, gather, moves>>

ScanTimesOut ==
    /\ scan.at = "waiting" /\ ~scan.seen
    /\ scan' = [scan EXCEPT !.at = "timed out", !.ended = iwd.scans]
    /\ UNCHANGED <<iwd, signals, owners, watch, told, kernel, events, rtnl, asks, gather, moves>>

-----------------------------------------------------------------------------
(* rtnetlink: subscribed first, then listed, then followed.                *)

Publishes(k, e) == kernel' = k /\ events' = events \o e

LinkGoes ==
    /\ Moves /\ kernel.link
    /\ Publishes([link |-> FALSE, address |-> "none"],
                 (IF kernel.address = "none" THEN <<>> ELSE <<"del address">>) \o <<"del link">>)
    /\ UNCHANGED <<iwd, signals, owners, watch, told, scan, rtnl, asks, gather>>
LinkComes ==
    /\ Moves /\ ~kernel.link /\ Publishes([kernel EXCEPT !.link = TRUE], <<"new link">>)
    /\ UNCHANGED <<iwd, signals, owners, watch, told, scan, rtnl, asks, gather>>
AddressMoves ==
    /\ Moves /\ kernel.link
    /\ \/ kernel.address = "none" /\ Publishes([kernel EXCEPT !.address = "tentative"], <<"new tentative">>)
       \/ kernel.address = "tentative" /\ Publishes([kernel EXCEPT !.address = "ready"], <<"new address">>)
       \/ kernel.address # "none" /\ Publishes([kernel EXCEPT !.address = "none"], <<"del address">>)
    /\ UNCHANGED <<iwd, signals, owners, watch, told, scan, rtnl, asks, gather>>

ListsLinks ==
    /\ rtnl.at = "links"
    /\ rtnl' = [rtnl EXCEPT !.at = "addresses", !.known = kernel.link, !.up = kernel.link]
    /\ UNCHANGED <<iwd, signals, owners, watch, told, scan, kernel, events, asks, gather, moves>>
ListsAddresses == rtnl' = [rtnl EXCEPT !.at = "following", !.address = rtnl.known /\ kernel.address = "ready"] /\ UNCHANGED events
Lists ==
    /\ rtnl.at = "addresses" /\ ListsAddresses
    /\ UNCHANGED <<iwd, signals, owners, watch, told, scan, kernel, asks, gather, moves>>

Observed(e) ==
    CASE e = "new link" -> [rtnl EXCEPT !.known = TRUE, !.up = TRUE]
      [] e = "del link" -> [rtnl EXCEPT !.known = FALSE, !.up = FALSE]
      [] e = "new address" /\ rtnl.known -> [rtnl EXCEPT !.address = TRUE]
      [] e = "del address" /\ rtnl.known -> [rtnl EXCEPT !.address = FALSE]
      [] OTHER -> rtnl
FollowsEvents ==
    /\ rtnl.at = "following" /\ events # <<>>
    /\ events' = Tail(events) /\ rtnl' = Observed(Head(events))
    /\ UNCHANGED <<iwd, signals, owners, watch, told, scan, kernel, asks, gather, moves>>

-----------------------------------------------------------------------------
(* A gateway probed: asked, and waited for, a few times over.  An ARP      *)
(* answer names its sender; an echo answer is told by the process alone.   *)

Others == <<iwd, signals, owners, watch, told, scan, kernel, events, rtnl, gather>>

AsksGateway(p) ==
    /\ asks[p].at \in {"none", "asking"} /\ asks[p].left > 0
    /\ asks' = [q \in 1..2 |->
                   IF q = p THEN [asks[p] EXCEPT !.at = "waiting", !.left = @ - 1,
                                                 !.beside = @ \/ asks[3 - p].at = "waiting"]
                   ELSE [asks[q] EXCEPT !.beside = @ \/ asks[q].at = "waiting"]]
    /\ UNCHANGED <<Others, moves>>

Answers(p, q) == q = p \/ (asks[p].by = "echo" /\ asks[q].by = "echo")

(* Gateway q answers, and every socket on the interface hears it.          *)
GatewayReplies(q) ==
    /\ Moves /\ asks[q].at = "waiting"
    /\ asks' = [p \in 1..2 |->
                   [asks[p] EXCEPT !.replied = @ \/ p = q,
                                   !.at = IF @ = "waiting" /\ Answers(p, q) THEN "answered" ELSE @]]
    /\ UNCHANGED Others

WaitEnds(p) ==
    /\ asks[p].at = "waiting"
    /\ asks' = [asks EXCEPT ![p].at = IF asks[p].left = 0 THEN "failed" ELSE "asking"]
    /\ UNCHANGED <<Others, moves>>

-----------------------------------------------------------------------------
(* A client's scan: iwd scans in parts, each of which replaces what the    *)
(* kernel holds, and what it holds is read after every part.               *)

Parts == 1..3
Elsewhere == <<iwd, signals, owners, watch, told, scan, kernel, events, rtnl, asks, moves>>

Listens(g) == [g EXCEPT !.at = "scanning"]
GatherBegins == gather.at = "none" /\ gather' = Listens(gather) /\ UNCHANGED Elsewhere

PartEnds ==
    /\ gather.at = "scanning" /\ gather.part < Cardinality(Parts)
    /\ gather' = [gather EXCEPT !.part = @ + 1, !.held = {gather.part + 1}, !.ended = @ + 1,
                                !.behind = @ \/ gather.ended > 0]
    /\ UNCHANGED Elsewhere

ReadsPart ==
    /\ gather.at = "scanning" /\ gather.ended > 0
    /\ gather' = [gather EXCEPT !.ended = @ - 1, !.got = @ \cup gather.held]
    /\ UNCHANGED Elsewhere

GatherEnds ==
    /\ gather.at = "scanning" /\ gather.ended = 0 /\ gather.part = Cardinality(Parts)
    /\ gather' = [gather EXCEPT !.at = "done", !.got = @ \cup gather.held]
    /\ UNCHANGED Elsewhere

-----------------------------------------------------------------------------
HeardNext == GatherBegins \/ PartEnds \/ ReadsPart \/ GatherEnds
IwdNext ==
    \/ IwdMoves \/ StationGoes \/ StationComes \/ IwdDies \/ IwdStarts
    \/ TakesSignal \/ Joins \/ JoinFails \/ TakesOwner \/ Registers \/ Resyncs \/ ResyncFails
ScanNext == IwdMoves \/ IwdScans \/ IwdScanned \/ ScanMatches \/ ScanAsks \/ ScanChecks \/ ScanHears \/ ScanTimesOut
GatewayNext == \E p \in 1..2 : AsksGateway(p) \/ GatewayReplies(p) \/ WaitEnds(p)
RtnlNext == LinkGoes \/ LinkComes \/ AddressMoves \/ ListsLinks \/ Lists \/ FollowsEvents

ObserveSpec == ObserveInit /\ [][IwdNext \/ ScanNext \/ GatewayNext \/ RtnlNext \/ HeardNext]_observeVars

-----------------------------------------------------------------------------
(* Properties.                                                             *)

(* With nothing left to take, the driver has been told of the station as   *)
(* it is and iwd has its agent, whatever iwd did meanwhile: unless a call  *)
(* to it failed, or a signal of an iwd that has gone was taken after the   *)
(* news that it went (watch, resync, added).                               *)
ToldAsItIs ==
    AtRest /\ signals = <<>> /\ owners = <<>> /\ watch.fails = 0 /\ ~watch.crossed /\ iwd.up =>
        told = iwd.state /\ watch.known = iwd.station /\ watch.agent = iwd.life

(* A scan that finished after it was asked for is heard: it is reported as *)
(* not finishing only where it did not (scan_on).                          *)
ScanIsHeard == scan.at = "timed out" => scan.ended = scan.asked

(* With nothing left to take, the driver has been told of the link and its *)
(* address as they are, changes while they were being listed included.     *)
LinkAsItIs ==
    rtnl.at = "following" /\ events = <<>> =>
        rtnl.up = kernel.link /\ rtnl.address = (kernel.address = "ready")

(* A gateway that is found to answer answered: unless two were being asked *)
(* by echo at once, where the one's answer is taken for the other's (ask). *)
GatewayAnswered == \A p \in 1..2 : asks[p].at = "answered" => asks[p].replied \/ (asks[p].by = "echo" /\ asks[p].beside)

(* What a client's scan answers is what every part of it heard, where each *)
(* was read before the next ended (acts::heard).                           *)
HeardInParts == gather.at = "done" /\ ~gather.behind => gather.got = Parts

(* The driver is told the truth, in the end, and so is a client.           *)
ObservedAsItIs == ToldAsItIs /\ ScanIsHeard /\ LinkAsItIs /\ GatewayAnswered /\ HeardInParts
=============================================================================
