---------------------------- MODULE PowerControl ----------------------------
(***************************************************************************)
(* Going away: crates/bliti/src/power.rs and the sessions it ends,         *)
(* crates/bliti/src/session.rs.                                            *)
(*                                                                         *)
(* A client asks on a power stream for the device to go, or the recorder   *)
(* asks for a low battery. The act is taken in one place, the client is    *)
(* told, and a task then tells every feed, ends every session, ends every  *)
(* connection, and has systemd carry the act out. Each wait is bounded.    *)
(***************************************************************************)
EXTENDS Naturals, FiniteSets

CONSTANTS
    Clients,    \* those that may have a session
    Acts,       \* the acts this device offers
    MaxOpens,   \* bound: sessions opened
    MaxAsks     \* bound: acts asked for

Nothing == [act |-> "none", cause |-> "none"]

ASSUME PowerAssumption ==
    /\ Acts \subseteq {"restart", "reboot", "power-off"}
    /\ {MaxOpens, MaxAsks} \subseteq Nat

VARIABLES
    accepted,   \* Inner::accepted: the one act taken
    going,      \* Inner::going: the act the feeds are told of
    untold,     \* Inner::untold: feeds not told
    ending,     \* Inner::ending: whether sessions are to end
    open,       \* Inner::sessions: sessions open
    goer,       \* the task going away: where it is, its act, and the waits that ran out
    client,     \* each client's session, its feed and its power stream
    powerMade   \* what the bounds count

powerVars == <<accepted, going, untold, ending, open, goer, client, powerMade>>

NoSession == [at |-> "none", feed |-> "none", counted |-> FALSE, after |-> {}, stream |-> "none", asks |-> Nothing]
Idle == [at |-> "idle", does |-> Nothing, late |-> {}]

PowerInit ==
    /\ accepted = Nothing /\ going = Nothing /\ untold = 0 /\ ending = FALSE /\ open = 0
    /\ goer = Idle
    /\ client = [c \in Clients |-> NoSession]
    /\ powerMade = [opens |-> 0, asks |-> 0]

(***************************************************************************)
(* Sessions: session.rs.                                                   *)
(***************************************************************************)

(* A session opened once sessions were to end, and a feed once the wait    *)
(* for those to tell was over, are marked so.                              *)
Waited == goer.at \in {"told", "closing", "carrying", "gone"}
OnceEnding == IF ending THEN {"session"} ELSE {}
OnceWaited == IF Waited THEN {"feed"} ELSE {}

(* A session's guard and its feed are each counted once, and each given    *)
(* back once, as they are dropped.                                         *)
Opens(c) ==
    /\ client[c].at = "none" /\ powerMade.opens < MaxOpens
    /\ client' = [client EXCEPT ![c] = [NoSession EXCEPT !.at = "open", !.after = OnceEnding]]
    /\ open' = open + 1
    /\ powerMade' = [powerMade EXCEPT !.opens = @ + 1]
    /\ UNCHANGED <<accepted, going, untold, ending, goer>>

FeedOpens(c) ==
    /\ client[c].at = "open" /\ client[c].feed = "none"
    /\ client' = [client EXCEPT ![c].feed = "first", ![c].counted = TRUE, ![c].after = @ \cup OnceWaited]
    /\ untold' = untold + 1
    /\ UNCHANGED <<accepted, going, ending, open, goer, powerMade>>

(* The first batch is written before the feed is told anything.            *)
FirstWritten(c) ==
    /\ client[c].feed = "first"
    /\ client' = [client EXCEPT ![c].feed = "live"]
    /\ UNCHANGED <<accepted, going, untold, ending, open, goer, powerMade>>

Uncounted(c) == untold - IF client[c].counted THEN 1 ELSE 0

FeedTold(c) ==
    /\ client[c].feed = "live" /\ going # Nothing
    /\ client' = [client EXCEPT ![c].feed = "told", ![c].counted = FALSE]
    /\ untold' = Uncounted(c)
    /\ UNCHANGED <<accepted, going, ending, open, goer, powerMade>>

(* The client ends the feed, or the device cannot write to it.             *)
FeedCloses(c) ==
    /\ client[c].feed \in {"first", "live", "told"}
    /\ client' = [client EXCEPT ![c].feed = "closed", ![c].counted = FALSE]
    /\ untold' = Uncounted(c)
    /\ UNCHANGED <<accepted, going, ending, open, goer, powerMade>>

(* A session leaves its loop as its client goes, or as sessions are to     *)
(* end. Its tasks are aborted with it, and its guard is given back once    *)
(* its channel has been closed.                                            *)
SessionEnds(c) ==
    /\ client[c].at = "open"
    /\ client' = [client EXCEPT ![c] = [NoSession EXCEPT !.at = "closing", !.after = client[c].after]]
    /\ untold' = Uncounted(c)
    /\ UNCHANGED <<accepted, going, ending, open, goer, powerMade>>

SessionGone(c) ==
    /\ client[c].at = "closing"
    /\ client' = [client EXCEPT ![c] = NoSession]
    /\ open' = open - 1
    /\ UNCHANGED <<accepted, going, untold, ending, goer, powerMade>>

(***************************************************************************)
(* Asking: serve and Controller::ask; record.rs, power_off.                *)
(***************************************************************************)

StreamOpens(c) ==
    /\ client[c].at = "open" /\ client[c].stream = "none"
    /\ client' = [client EXCEPT ![c].stream = "asking"]
    /\ UNCHANGED <<accepted, going, untold, ending, open, goer, powerMade>>

Take(g) == accepted = Nothing /\ accepted' = g

(* An act is taken where it is offered and no other has been.              *)
Asks(c, act) ==
    /\ client[c].stream = "asking" /\ powerMade.asks < MaxAsks
    /\ powerMade' = [powerMade EXCEPT !.asks = @ + 1]
    /\ \/ /\ act \in Acts /\ Take([act |-> act, cause |-> "manual-control"])
          /\ client' = [client EXCEPT ![c].stream = "taken", ![c].asks = accepted']
       \/ (act \notin Acts \/ accepted # Nothing) /\ UNCHANGED <<accepted, client>>
    /\ UNCHANGED <<going, untold, ending, open, goer>>

(* `accepted` is on its way, and the task is begun.                        *)
Goes(g) == goer' = [at |-> "begun", does |-> g, late |-> {}]
AcceptedSent(c) ==
    /\ client[c].stream = "taken"
    /\ Goes(client[c].asks)
    /\ client' = [client EXCEPT ![c].stream = "asking", ![c].asks = Nothing]
    /\ UNCHANGED <<accepted, going, untold, ending, open, powerMade>>

(* The stream or the channel fails as `accepted` is written.               *)
AcceptedNotSent(c) ==
    /\ client[c].stream = "taken"
    /\ client' = [client EXCEPT ![c].stream = "closed", ![c].asks = Nothing]
    /\ UNCHANGED <<accepted, going, untold, ending, open, goer, powerMade>>

StreamCloses(c) ==
    /\ client[c].stream = "asking"
    /\ client' = [client EXCEPT ![c].stream = "closed"]
    /\ UNCHANGED <<accepted, going, untold, ending, open, goer, powerMade>>

LowBattery ==
    /\ "power-off" \in Acts /\ powerMade.asks < MaxAsks
    /\ powerMade' = [powerMade EXCEPT !.asks = @ + 1]
    /\ \/ /\ Take([act |-> "power-off", cause |-> "low-battery"])
          /\ Goes(accepted')
       \/ accepted # Nothing /\ UNCHANGED <<accepted, goer>>
    /\ UNCHANGED <<going, untold, ending, open, client>>

(***************************************************************************)
(* Going: Controller::going_away.                                          *)
(***************************************************************************)

Tells ==
    /\ goer.at = "begun"
    /\ going' = goer.does
    /\ goer' = [goer EXCEPT !.at = "telling"]
    /\ UNCHANGED <<accepted, untold, ending, open, client, powerMade>>

(* Every feed has been told, or TELL_TIMEOUT has passed.                   *)
TellsNoneLeft == open = 0 \/ untold < 2
NoneUntold == untold = 0
Told(late) ==
    /\ goer.at = "telling" /\ (late \/ NoneUntold)
    /\ goer' = [goer EXCEPT !.at = "told", !.late = IF late THEN {"tell"} ELSE {}]
    /\ UNCHANGED <<accepted, going, untold, ending, open, client, powerMade>>

EndsSessions ==
    /\ goer.at = "told"
    /\ ending' = TRUE
    /\ goer' = [goer EXCEPT !.at = "closing"]
    /\ UNCHANGED <<accepted, going, untold, open, client, powerMade>>

(* Every session has ended, or CLOSE_TIMEOUT has passed; device.rs then    *)
(* has BlueZ disconnect whoever is left.                                   *)
Closed(late) ==
    /\ goer.at = "closing" /\ (late \/ open = 0)
    /\ goer' = [goer EXCEPT !.at = "carrying", !.late = @ \cup IF late THEN {"close"} ELSE {}]
    /\ UNCHANGED <<accepted, going, untold, ending, open, client, powerMade>>

(* systemd takes the job, and the device goes down under the daemon; or it *)
(* refuses, and the device is as it was.                                   *)
CarriedOut ==
    /\ goer.at = "carrying"
    /\ goer' = [goer EXCEPT !.at = "gone"]
    /\ UNCHANGED <<accepted, going, untold, ending, open, client, powerMade>>

NotCarriedOut ==
    /\ goer.at = "carrying"
    /\ going' = Nothing /\ ending' = FALSE /\ accepted' = Nothing
    /\ goer' = Idle
    /\ UNCHANGED <<untold, open, client, powerMade>>

PowerNext ==
    \/ \E c \in Clients :
        \/ Opens(c) \/ FeedOpens(c) \/ FirstWritten(c) \/ FeedTold(c) \/ FeedCloses(c) \/ SessionEnds(c)
        \/ SessionGone(c) \/ StreamOpens(c) \/ AcceptedSent(c) \/ AcceptedNotSent(c) \/ StreamCloses(c)
        \/ \E act \in {"restart", "reboot", "power-off"} : Asks(c, act)
    \/ LowBattery \/ Tells \/ EndsSessions \/ CarriedOut \/ NotCarriedOut
    \/ \E late \in BOOLEAN : Told(late) \/ Closed(late)

PowerSpec == PowerInit /\ [][PowerNext]_powerVars

(***************************************************************************)
(* Properties.                                                             *)
(***************************************************************************)

(* The feeds and sessions counted are those there are: what the task waits *)
(* on reaches zero, and never runs below it.                               *)
CountsHold ==
    /\ untold = Cardinality({c \in Clients : client[c].counted})
    /\ open = Cardinality({c \in Clients : client[c].at # "none"})

(* power.rs:341. A device does what it accepted and told, one act at a     *)
(* time; every feed open as the wait for them ended had been told, and     *)
(* every session open by then has ended before the act is carried out,     *)
(* unless the wait for it ran out; and an act that failed leaves the       *)
(* device as one never asked for.                                          *)
GoesAsTold ==
    /\ CountsHold
    /\ goer.at # "idle" => accepted = goer.does /\ going \in {Nothing, goer.does}
    /\ accepted = Nothing => goer = Idle /\ going = Nothing /\ ~ending
    /\ Waited /\ "tell" \notin goer.late => \A c \in Clients : client[c].counted => "feed" \in client[c].after
    /\ goer.at \in {"carrying", "gone"} /\ "close" \notin goer.late =>
           \A c \in Clients : client[c].at # "none" => "session" \in client[c].after

(* battery/shutdown.md: an act accepted is carried out. Once one is taken, *)
(* the task carrying it out is running or is about to be begun, so that    *)
(* the device either goes or will take another.                            *)
AcceptedIsCarried == accepted # Nothing => goer.at # "idle" \/ \E c \in Clients : client[c].stream = "taken"
=============================================================================
