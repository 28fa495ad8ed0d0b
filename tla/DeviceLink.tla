----------------------------- MODULE DeviceLink -----------------------------
(***************************************************************************)
(* Clients on the air: crates/bliti/src/device/ and gatt.rs.               *)
(*                                                                         *)
(* A client connects, reads the allocation to be given a transmit slot,    *)
(* and subscribes to it, which opens a session in a task of its own. The   *)
(* device pumps the session's bytes out until the client or the session    *)
(* goes, and then ends the connection. Beside the sessions, a loop keeps   *)
(* the device advertising: a client connecting takes it off the air, and   *)
(* only registering the advertisement again puts it back.                  *)
(*                                                                         *)
(* BlueZ is external and taken as the code says it is: as a client         *)
(* disconnects it closes the notification socket at the head of each       *)
(* characteristic that client had subscribed to. Clients are those of CHN: *)
(* they subscribe to the slot they were given.                             *)
(***************************************************************************)
EXTENDS Naturals, FiniteSets

CONSTANTS
    Clients,      \* by address
    SlotCount,    \* how many slots are given out
    QueueDepth,   \* chunks buffered for a session
    MaxConnects,  \* bound: connections made
    MaxWrites,    \* bound: chunks written
    MaxFaults     \* bound: registrations failed and daemons gone

ASSUME LinkAssumption ==
    /\ SlotCount \in Nat \ {0} /\ QueueDepth \in Nat \ {0}
    /\ {MaxConnects, MaxWrites, MaxFaults} \subseteq Nat
    /\ "none" \notin Clients

VARIABLES
    conn,      \* the number of each client's connection, 0 where it has none
    told,      \* the slot each client was told on its connection, 0 where none
    held,      \* Slots: the client holding each
    alloc,     \* the allocation in progress, which has the lock
    sessions,  \* the tasks serving a subscription
    sink,      \* InboundSink: the session each client's writes are delivered to, 0 where none
    adv,       \* where the advertising loop is
    onAir,     \* whether the controller advertises
    permit,    \* whether the loop has been notified
    offBy,     \* the connection that took the controller off the air
    seen,      \* the connections served or turned away
    linkMade   \* what the bounds count

linkVars == <<conn, told, held, alloc, sessions, sink, adv, onAir, permit, offBy, seen, linkMade>>

SlotSet == 1..SlotCount
NoAlloc == [client |-> "none", conn |-> 0, at |-> 0, gone |-> FALSE]
SessionOf(id) == CHOOSE s \in sessions : s.id = id

LinkInit ==
    /\ conn = [c \in Clients |-> 0]
    /\ told = [c \in Clients |-> 0]
    /\ held = [n \in SlotSet |-> "none"]
    /\ alloc = NoAlloc
    /\ sessions = {}
    /\ sink = [c \in Clients |-> 0]
    /\ adv = "registering" /\ onAir = FALSE /\ permit = FALSE /\ offBy = 0 /\ seen = {}
    /\ linkMade = [connects |-> 0, sessions |-> 0, writes |-> 0, faults |-> 0]

(* Daemon tasks run between its starting to serve and its going.           *)
Serving == adv \notin {"down", "starting"}
-----------------------------------------------------------------------------
(* The clients, and the connection under them.                             *)
Connects(c) ==
    /\ onAir /\ conn[c] = 0 /\ linkMade.connects < MaxConnects
    /\ conn' = [conn EXCEPT ![c] = linkMade.connects + 1]
    /\ linkMade' = [linkMade EXCEPT !.connects = @ + 1]
    /\ onAir' = FALSE /\ offBy' = linkMade.connects + 1
    /\ UNCHANGED <<told, held, alloc, sessions, sink, adv, permit, seen>>

(* BlueZ: the socket at the head of each characteristic is closed.         *)
Heads(c) ==
    {s \in sessions : /\ s.open
                      /\ \E own \in sessions : own.open /\ own.client = c /\ own.slot = s.slot
                      /\ \A t \in sessions : (t.open /\ t.slot = s.slot) => s.id <= t.id}

Closed(ss, closing) == {IF s \in closing THEN [s EXCEPT !.open = FALSE] ELSE s : s \in ss}

Dropped(c, ss) ==
    /\ conn' = [conn EXCEPT ![c] = 0]
    /\ told' = [told EXCEPT ![c] = 0]
    /\ sessions' = Closed(ss, Heads(c))

Disconnects(c) ==
    /\ conn[c] # 0
    /\ Dropped(c, sessions)
    /\ UNCHANGED <<held, alloc, sink, adv, onAir, permit, linkMade, offBy, seen>>

Subscribes(c) ==
    /\ conn[c] # 0 /\ told[c] # 0 /\ Serving
    /\ ~\E s \in sessions : s.client = c /\ s.open
    /\ linkMade.sessions < MaxConnects
    /\ linkMade' = [linkMade EXCEPT !.sessions = @ + 1]
    /\ sessions' = sessions \cup
         {[id |-> linkMade.sessions + 1, client |-> c, conn |-> conn[c], slot |-> told[c], open |-> TRUE,
           at |-> "subscribed", queued |-> 0, ended |-> FALSE, missed |-> FALSE]}
    /\ UNCHANGED <<conn, told, held, alloc, sink, adv, onAir, permit, offBy, seen>>

Unsubscribes(c) ==
    /\ \E s \in sessions : s.client = c /\ s.open
    /\ sessions' = Closed(sessions, {s \in sessions : s.client = c})
    /\ UNCHANGED <<conn, told, held, alloc, sink, adv, onAir, permit, linkMade, offBy, seen>>
-----------------------------------------------------------------------------
(* Slots::allocate, answering a read of the allocation. The holders are    *)
(* asked after one by one, the lock held across the asking.                *)
Find(holder) == {n \in SlotSet : held[n] = holder}
First(ns) == CHOOSE n \in ns : \A m \in ns : n <= m

Answers(c, n) == told' = [told EXCEPT ![c] = IF conn[c] = alloc.conn THEN n ELSE @]

(* Mutant of Refuses: only sessions have the device advertise again.      *)
RefusesQuietly == seen' = seen \cup {alloc.conn} /\ UNCHANGED permit

(* A client turned away opens no session whose opening would have the      *)
(* device advertise again.                                                 *)
Refuses == permit' = TRUE /\ seen' = seen \cup {alloc.conn}

Reads(c) ==
    /\ conn[c] # 0 /\ alloc = NoAlloc /\ Serving
    /\ IF Find(c) # {} THEN told' = [told EXCEPT ![c] = First(Find(c))] /\ UNCHANGED <<held, alloc>>
       ELSE IF Find("none") # {}
       THEN /\ held' = [held EXCEPT ![First(Find("none"))] = c]
            /\ told' = [told EXCEPT ![c] = First(Find("none"))]
            /\ UNCHANGED alloc
       ELSE alloc' = [client |-> c, conn |-> conn[c], at |-> 1, gone |-> FALSE] /\ UNCHANGED <<held, told>>
    /\ UNCHANGED <<conn, sessions, sink, adv, onAir, permit, linkMade, offBy, seen>>

(* Mutant of Asks: every holder is taken for gone.                         *)
AsksNobody ==
    /\ alloc # NoAlloc /\ alloc.at \in SlotSet /\ ~alloc.gone
    /\ alloc' = [alloc EXCEPT !.gone = TRUE]
    /\ UNCHANGED <<conn, told, held, sessions, sink, adv, onAir, permit, linkMade, offBy, seen>>

(* is_connected, and what is done about it, are two steps: the holder may  *)
(* connect again between them.                                             *)
Asks ==
    /\ alloc # NoAlloc /\ alloc.at \in SlotSet /\ ~alloc.gone
    /\ alloc' = IF conn[held[alloc.at]] = 0 THEN [alloc EXCEPT !.gone = TRUE]
                ELSE [alloc EXCEPT !.at = @ + 1]
    /\ UNCHANGED <<conn, told, held, sessions, sink, adv, onAir, permit, linkMade, offBy, seen>>

Frees ==
    /\ alloc # NoAlloc /\ alloc.gone
    /\ held' = [held EXCEPT ![alloc.at] = "none"]
    /\ alloc' = [alloc EXCEPT !.at = @ + 1, !.gone = FALSE]
    /\ UNCHANGED <<conn, told, sessions, sink, adv, onAir, permit, linkMade, offBy, seen>>

Gives ==
    /\ alloc # NoAlloc /\ alloc.at > SlotCount
    /\ IF Find("none") # {}
       THEN /\ held' = [held EXCEPT ![First(Find("none"))] = alloc.client]
            /\ Answers(alloc.client, First(Find("none")))
            /\ UNCHANGED <<permit, seen>>
       ELSE Refuses /\ UNCHANGED <<held, told>>
    /\ alloc' = NoAlloc
    /\ UNCHANGED <<conn, sessions, sink, adv, onAir, linkMade, offBy>>
-----------------------------------------------------------------------------
(* serve_session, one task to a subscription. Each step is what runs       *)
(* between two awaits.                                                     *)
Becomes(s, t) == sessions' = (sessions \ {s}) \cup {t}

(* A session opening replaces its client's earlier one, which then reads   *)
(* end of stream once it has read what it was sent. One on a slot its      *)
(* client does not hold drops its own socket.                              *)
Opens(s) ==
    /\ s.at = "subscribed" /\ alloc = NoAlloc /\ Serving
    /\ IF held[s.slot] # s.client
       THEN /\ sessions' = sessions \ {s}
            /\ UNCHANGED <<sink, permit, seen>>
       ELSE /\ sessions' = {IF t = s THEN [s EXCEPT !.at = "open"]
                            ELSE IF t.id = sink[s.client] THEN [t EXCEPT !.ended = TRUE] ELSE t : t \in sessions}
            /\ sink' = [sink EXCEPT ![s.client] = s.id]
            /\ permit' = TRUE /\ seen' = seen \cup {s.conn}
    /\ UNCHANGED <<conn, told, held, alloc, adv, onAir, linkMade, offBy>>

(* Mutant of Removed: a session ending stops delivery to its client.       *)
RemovedAny(s) == [sink EXCEPT ![s.client] = 0]

(* InboundSink::remove, as the transport is dropped.                       *)
Removed(s) == [sink EXCEPT ![s.client] = IF @ = s.id THEN 0 ELSE @]

(* The session ends of itself, or reads end of stream, and what it last    *)
(* wrote is given a time to go out.                                        *)
SessionEnds(s) ==
    /\ s.at = "open"
    /\ sink' = Removed(s)
    /\ Becomes(s, [s EXCEPT !.at = "draining", !.queued = 0])
    /\ UNCHANGED <<conn, told, held, alloc, adv, onAir, permit, linkMade, offBy, seen>>

Drained(s) ==
    /\ s.at = "draining"
    /\ Becomes(s, [s EXCEPT !.at = "ending", !.open = FALSE])
    /\ UNCHANGED <<conn, told, held, alloc, sink, adv, onAir, permit, linkMade, offBy, seen>>

(* The pump notices the client has gone.                                   *)
Leaves(s) ==
    /\ s.at = "open" /\ ~s.open
    /\ sink' = Removed(s)
    /\ Becomes(s, [s EXCEPT !.at = "ending", !.queued = 0])
    /\ UNCHANGED <<conn, told, held, alloc, adv, onAir, permit, linkMade, offBy, seen>>

(* A client still connected is disconnected, whichever connection it has   *)
(* by now.                                                                 *)
Looks(s) ==
    /\ s.at = "ending"
    /\ IF conn[s.client] # 0
       THEN Becomes(s, [s EXCEPT !.at = "closing"]) /\ UNCHANGED permit
       ELSE sessions' = sessions \ {s} /\ permit' = TRUE
    /\ UNCHANGED <<conn, told, held, alloc, sink, adv, onAir, linkMade, offBy, seen>>

Ends(s) ==
    /\ s.at = "closing"
    /\ Dropped(s.client, sessions \ {s})
    /\ permit' = TRUE
    /\ UNCHANGED <<held, alloc, sink, adv, onAir, linkMade, offBy, seen>>
-----------------------------------------------------------------------------
(* InboundSink::deliver: a chunk for a session whose queue is full ends    *)
(* its channel. Each connection has a reader of its own, and a chunk read  *)
(* from an earlier connection may come to the session of a later one. One  *)
(* that finds no session is dropped.                                       *)
Overflows(s) ==
    /\ Becomes(s, [s EXCEPT !.missed = TRUE, !.ended = TRUE])
    /\ sink' = [sink EXCEPT ![s.client] = 0]

Delivers(c) ==
    /\ sink[c] # 0 /\ Serving /\ linkMade.writes < MaxWrites
    /\ linkMade' = [linkMade EXCEPT !.writes = @ + 1]
    /\ LET s == SessionOf(sink[c]) IN
       IF s.queued = QueueDepth THEN Overflows(s)
       ELSE Becomes(s, [s EXCEPT !.queued = @ + 1]) /\ UNCHANGED sink
    /\ UNCHANGED <<conn, told, held, alloc, adv, onAir, permit, offBy, seen>>

ReadsChunk(s) ==
    /\ s.at = "open" /\ s.queued > 0
    /\ Becomes(s, [s EXCEPT !.queued = @ - 1])
    /\ UNCHANGED <<conn, told, held, alloc, sink, adv, onAir, permit, linkMade, offBy, seen>>
-----------------------------------------------------------------------------
(* The loop of device::run, and the daemon under it.                       *)
AirMoves(from, to, air) == adv = from /\ adv' = to /\ onAir' = air

Registers ==
    /\ AirMoves("registering", "registered", TRUE)
    /\ UNCHANGED <<conn, told, held, alloc, sessions, sink, permit, linkMade, offBy, seen>>

Fault == linkMade.faults < MaxFaults /\ linkMade' = [linkMade EXCEPT !.faults = @ + 1]

RegistrationFails ==
    /\ AirMoves("registering", "failed", onAir)
    /\ Fault
    /\ UNCHANGED <<conn, told, held, alloc, sessions, sink, permit, offBy, seen>>

RetriesRegistration ==
    /\ AirMoves("failed", "registering", onAir)
    /\ UNCHANGED <<conn, told, held, alloc, sessions, sink, permit, linkMade, offBy, seen>>

Readvertises ==
    /\ permit
    /\ AirMoves("registered", "settling", FALSE)
    /\ permit' = FALSE
    /\ UNCHANGED <<conn, told, held, alloc, sessions, sink, linkMade, offBy, seen>>

Settled ==
    /\ AirMoves("settling", "registering", FALSE)
    /\ UNCHANGED <<conn, told, held, alloc, sessions, sink, permit, linkMade, offBy, seen>>

(* Asked to stop, the device goes off the air and ends every connection    *)
(* before its service is withdrawn.                                        *)
Stops ==
    /\ adv \in {"registered", "failed"}
    /\ adv' = "stopping" /\ onAir' = FALSE
    /\ Fault
    /\ UNCHANGED <<conn, told, held, alloc, sessions, sink, permit, offBy, seen>>

Gone ==
    /\ told' = [c \in Clients |-> 0]
    /\ held' = [n \in SlotSet |-> "none"]
    /\ alloc' = NoAlloc
    /\ sessions' = {}
    /\ sink' = [c \in Clients |-> 0]
    /\ adv' = "down" /\ onAir' = FALSE /\ permit' = FALSE

Stopped ==
    /\ adv = "stopping"
    /\ Gone
    /\ conn' = [c \in Clients |-> 0]
    /\ UNCHANGED <<linkMade, offBy, seen>>

(* The daemon dies, and the connections outlive it.                        *)
Dies ==
    /\ Serving
    /\ Fault
    /\ Gone
    /\ UNCHANGED <<conn, offBy, seen>>

(* end_connections as the device starts, once its service is registered    *)
(* again and before it advertises.                                         *)
Starts ==
    /\ adv = "down"
    /\ adv' = "starting"
    /\ UNCHANGED <<conn, told, held, alloc, sessions, sink, onAir, permit, linkMade, offBy, seen>>

EndsConnections ==
    /\ adv = "starting"
    /\ conn' = [c \in Clients |-> 0]
    /\ adv' = "registering"
    /\ UNCHANGED <<told, held, alloc, sessions, sink, onAir, permit, linkMade, offBy, seen>>
-----------------------------------------------------------------------------
LinkDevice ==
    \/ Asks \/ Frees \/ Gives
    \/ \E s \in sessions : Opens(s) \/ Drained(s) \/ Leaves(s) \/ Looks(s) \/ Ends(s) \/ ReadsChunk(s)
    \/ Registers \/ RetriesRegistration \/ Readvertises \/ Settled \/ Stopped \/ Starts \/ EndsConnections

LinkNext ==
    \/ LinkDevice
    \/ \E s \in sessions : SessionEnds(s)
    \/ \E c \in Clients :
         Connects(c) \/ Disconnects(c) \/ Reads(c) \/ Subscribes(c) \/ Unsubscribes(c) \/ Delivers(c)
    \/ RegistrationFails \/ Stops \/ Dies

LinkSpec == LinkInit /\ [][LinkNext]_linkVars
-----------------------------------------------------------------------------
(* A client leaving ends no channel but its own: whatever BlueZ closes as  *)
(* it disconnects is its own subscription, for no two clients are ever     *)
(* subscribed to a slot together (slots.rs, allocate).                     *)
LeavesOthersAlone ==
    \A c \in Clients : \A s \in Heads(c) : s.client = c

(* A channel never has a hole in it: a session that missed a chunk is sent *)
(* no later one (gatt.rs, deliver).                                        *)
NoHole == \A s \in sessions : (s.missed /\ s.at = "open") => sink[s.client] # s.id

(* A session whose client is subscribed hears it: its writes are delivered *)
(* to it until it ends, however sessions before it end (gatt.rs, install   *)
(* and remove).                                                            *)
IsHeard ==
    \A s \in sessions : (s.at = "open" /\ ~s.ended) => sink[s.client] = s.id

(* What a client writes, its own session reads: all of it, or none after   *)
(* the first chunk lost.                                                   *)
WritesAreRead == NoHole /\ IsHeard

(* A client served or turned away leaves the device on the air: it is off  *)
(* the air only while the loop is to put it back, or for a client that has *)
(* yet to be either (device.rs, run; server.rs, allocation).               *)
ComesBackOnAir == (adv = "registered" /\ ~onAir) => permit \/ offBy \notin seen

(* What ADV says, that a device advertises whenever it is running: off the *)
(* air with no client connected, something is to put it back.              *)
AdvertisesWhenFree ==
    (adv = "registered" /\ ~onAir) => permit \/ sessions # {} \/ \E c \in Clients : conn[c] # 0
=============================================================================
