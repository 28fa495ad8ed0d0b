---------------------------- MODULE NetworkSelect ----------------------------
(***************************************************************************)
(* Selecting among the candidates of a network document: the selector of   *)
(* crates/bliti/src/network/select.rs and select/place.rs as plain data    *)
(* and the operators that change it, one per event.                        *)
(*                                                                         *)
(* A candidate is the rank it has in the document. Of a candidate only     *)
(* what selection reads is kept: its kind, the interface it names, its     *)
(* network and whether it is turned on; `body' stands for the rest of it,  *)
(* which only tells two candidates apart. Reasons are left out, and the    *)
(* member a failure is laid at, which follows its stage.                   *)
(***************************************************************************)
EXTENDS Integers, Sequences, FiniteSets

CONSTANTS
    WiredOrder,  \* the wired interfaces, in name order
    RadioOrder,  \* the station interfaces of the radios, in the order of Hardware::radios
    Alongside,   \* for each radio, how it runs a hotspot beside a client, or "none"
    Ssids,       \* the wireless networks
    MaxSignal,   \* bound: signals are 1..MaxSignal, 0 where a network is not heard
    Channels,    \* the channels a client may be on
    Configurations  \* the documents proposed

WiredSet == {WiredOrder[i] : i \in DOMAIN WiredOrder}
RadioSet == {RadioOrder[i] : i \in DOMAIN RadioOrder}
Interfaces == WiredSet \cup RadioSet

ASSUME HardwareAssumption ==
    /\ WiredOrder \in Seq(WiredSet) /\ RadioOrder \in Seq(RadioSet) /\ WiredSet \cap RadioSet = {}
    /\ Alongside \in [RadioSet -> {"none", "independent", "shared", "one"}]
    /\ MaxSignal \in Nat \ {0}
    /\ "none" \notin Interfaces \cup Channels
    /\ "any" \notin Interfaces

(* The hardware names each interface once.                                 *)
ASSUME OrderAssumption ==
    \A order \in {WiredOrder, RadioOrder} : \A m, n \in DOMAIN order : order[m] = order[n] => m = n

(* The stages of LINK in their order; an attempt past the last is          *)
(* established.                                                            *)
Carrier == 1
Association == 2
Addressing == 3
Gateway == 4
Established == 5
NextStage(stage, wireless) ==
    IF stage = Carrier /\ wireless THEN Association
    ELSE IF stage \in {Carrier, Association} THEN Addressing
    ELSE stage + 1

Candidates ==
    [kind : {"wired", "wireless"}, on : Interfaces \cup {"any"}, ssid : Ssids \cup {"none"},
     hidden : BOOLEAN, enabled : BOOLEAN, body : Nat]

NoHotspot == [enabled |-> FALSE, on |-> "any", chooses |-> FALSE]
Hotspots == [enabled : BOOLEAN, on : RadioSet \cup {"any"}, chooses : BOOLEAN]

EmptyDocument == [attachments |-> << >>, hotspot |-> NoHotspot]

IsWireless(c) == c.kind = "wireless"

ASSUME ConfigurationsAssumption ==
    /\ Configurations \subseteq [attachments : Seq(Candidates), hotspot : Hotspots]
    /\ \A doc \in Configurations : \A n \in DOMAIN doc.attachments :
         IsWireless(doc.attachments[n]) => doc.attachments[n].ssid \in Ssids

(* radios_for: the radio named, else every one.                            *)
RadiosFor(on) == {r \in RadioSet : on \in {"any", r}}

HotspotRadios(hotspot) == {r \in RadiosFor(hotspot.on) : Alongside[r] # "none"}

(* A shared-channel radio some candidate turned on may go on.              *)
MayShare(doc, r) ==
    /\ Alongside[r] = "shared"
    /\ \E n \in DOMAIN doc.attachments :
         LET c == doc.attachments[n] IN IsWireless(c) /\ c.enabled /\ c.on \in {"any", r}

HotspotHosts(doc) ==
    {r \in HotspotRadios(doc.hotspot) : ~(doc.hotspot.chooses /\ MayShare(doc, r))}

(* select::check: each candidate has an interface to go on, and a hotspot  *)
(* a radio able to run one.                                                *)
Check(doc) ==
    /\ \A n \in DOMAIN doc.attachments :
         LET c == doc.attachments[n] IN
         IF IsWireless(c) THEN RadiosFor(c.on) # {} ELSE c.on \in WiredSet
    /\ doc.hotspot # NoHotspot => HotspotRadios(doc.hotspot) # {}

(* capabilities::admits, as far as the radios go: no candidate that only   *)
(* the hotspot's one-at-a-time radio could carry, and a hotspot choosing   *)
(* its own channel has a radio to choose it on.                            *)
Admits(doc) ==
    doc.hotspot.enabled =>
        /\ \A n \in DOMAIN doc.attachments :
             LET c == doc.attachments[n] IN
             (IsWireless(c) /\ c.enabled) =>
                \E r \in RadiosFor(c.on), ap \in HotspotRadios(doc.hotspot) :
                    ap # r \/ Alongside[ap] # "one"
        /\ HotspotHosts(doc) # {}
-----------------------------------------------------------------------------
(* The selector.                                                           *)
NoHeld == [candidate |-> 0, attempt |-> 0, at |-> Carrier]
NoPlacement == [radio |-> "none", follows |-> 0, channel |-> "none"]

NewSelector ==
    [doc |-> EmptyDocument,
     carrier |-> {},                                                \* wired interfaces with carrier
     heard |-> [r \in RadioSet |-> [s \in Ssids |-> 0]],
     channels |-> [r \in RadioSet |-> "none"],
     failures |-> << >>,                                            \* by rank, 0 where not failed
     held |-> [i \in Interfaces |-> NoHeld],
     hotspot |-> NoPlacement,                                       \* Decision::hotspot
     next |-> 0]                                                    \* next_attempt

Candidate(sel, rank) == sel.doc.attachments[rank]
Ranks(sel) == DOMAIN sel.doc.attachments

(* The radios a wireless candidate could go on and hears it, a hidden one  *)
(* being taken to be in range.                                             *)
Hearing(sel, c) == {r \in RadiosFor(c.on) : sel.heard[r][c.ssid] > 0 \/ c.hidden}

HasCarrier(sel, rank) ==
    LET c == Candidate(sel, rank) IN
    IF IsWireless(c) THEN Hearing(sel, c) # {} ELSE c.on \in sel.carrier

Available(sel, rank) ==
    Candidate(sel, rank).enabled /\ HasCarrier(sel, rank) /\ sel.failures[rank] = 0

(* Mutant of SparesHotspot: no radio is kept for the hotspot.              *)
SparesNothing(sel, r, links) == TRUE

SparesHotspot(sel, r, links) ==
    \/ ~sel.doc.hotspot.enabled
    \/ Alongside[r] # "one"
    \/ \E other \in HotspotHosts(sel.doc) \ {r} :
         ~(Alongside[other] = "one" /\ links[other] # 0)

FirstOf(radios) ==
    RadioOrder[CHOOSE n \in DOMAIN RadioOrder :
        RadioOrder[n] \in radios /\ \A m \in 1..(n - 1) : RadioOrder[m] \notin radios]

(* The first in the order of the hardware among the radios hearing the     *)
(* network best.                                                           *)
BestHearing(sel, c, free) ==
    FirstOf({r \in free : \A q \in free : sel.heard[q][c.ssid] <= sel.heard[r][c.ssid]})

Current(sel, rank) == {i \in Interfaces : sel.held[i].candidate = rank}

(* The interfaces a candidate could go on, given what the ones above took. *)
Could(sel, rank, links) ==
    IF ~IsWireless(Candidate(sel, rank)) THEN {Candidate(sel, rank).on}
    ELSE {r \in Hearing(sel, Candidate(sel, rank)) : SparesHotspot(sel, r, links)}

(* Mutant of GoesAmong: the radio hearing it best is taken, whatever it is *)
(* on.                                                                     *)
GoesBest(sel, rank, free) ==
    IF ~Available(sel, rank) \/ free = {} THEN "none"
    ELSE IF ~IsWireless(Candidate(sel, rank)) THEN Candidate(sel, rank).on
    ELSE BestHearing(sel, Candidate(sel, rank), free)

GoesAmong(sel, rank, free) ==
    IF ~Available(sel, rank) \/ free = {} THEN "none"
    ELSE IF ~IsWireless(Candidate(sel, rank)) THEN Candidate(sel, rank).on
    ELSE IF Current(sel, rank) \cap free # {} THEN CHOOSE i \in Current(sel, rank) : i \in free
    ELSE BestHearing(sel, Candidate(sel, rank), free)

(* Where the candidate goes, given what the ones above it took: "none"     *)
(* where it is brought up nowhere.                                         *)
Goes(sel, rank, links) ==
    GoesAmong(sel, rank, {i \in Could(sel, rank, links) : links[i] = 0})

PutOn(links, on, rank) == IF on = "none" THEN links ELSE [links EXCEPT ![on] = rank]

(* place: the candidates in order, each on an interface carrying none      *)
(* above it. The rank each interface carries, 0 for none.                  *)
Place(sel) ==
    LET links[rank \in 0..Len(sel.doc.attachments)] ==
            IF rank = 0 THEN [i \in Interfaces |-> 0]
            ELSE PutOn(links[rank - 1], Goes(sel, rank, links[rank - 1]), rank)
    IN links[Len(sel.doc.attachments)]

(* The channel the client on a radio is associated on, once it is.         *)
Associated(sel, r) ==
    IF sel.held[r].candidate = 0 \/ sel.held[r].at <= Association THEN "none"
    ELSE sel.channels[r]

(* place_hotspot: by tier, staying where it is among the best.             *)
Tier(sel, r) ==
    IF sel.held[r].candidate = 0 THEN 0
    ELSE IF Alongside[r] = "independent" THEN 1
    ELSE IF Alongside[r] = "shared" THEN 2
    ELSE 3

Best(sel, options) == {r \in options : \A q \in options : Tier(sel, r) <= Tier(sel, q)}

PlacedOn(sel, r) ==
    IF sel.held[r].candidate # 0 /\ Alongside[r] = "shared"
    THEN [radio |-> r, follows |-> sel.held[r].candidate, channel |-> Associated(sel, r)]
    ELSE [radio |-> r, follows |-> 0, channel |-> "none"]

PlaceAmong(sel, best) ==
    IF ~sel.doc.hotspot.enabled \/ best = {} THEN NoPlacement
    ELSE PlacedOn(sel, IF sel.hotspot.radio \in best THEN sel.hotspot.radio ELSE FirstOf(best))

PlaceHotspot(sel) ==
    PlaceAmong(sel, Best(sel, {r \in HotspotHosts(sel.doc) : Tier(sel, r) < 3}))

WithHotspot(sel) == [sel EXCEPT !.hotspot = PlaceHotspot(sel)]

(* settle: what is carried over keeps its attempt, and a client that is    *)
(* not carried over takes its channel with it. Attempts are numbered in    *)
(* the order of the interfaces' names.                                     *)
NameOrder == WiredOrder \o RadioOrder
Stays(sel, links, i) == links[i] # 0 /\ sel.held[i].candidate = links[i]
Fresh(sel, links, i) == links[i] # 0 /\ sel.held[i].candidate # links[i]
AttemptNumber(sel, links, i) ==
    sel.next + Cardinality({n \in DOMAIN NameOrder :
        Fresh(sel, links, NameOrder[n]) /\ \E m \in n..Len(NameOrder) : NameOrder[m] = i})

HeldOn(sel, links) ==
    [i \in Interfaces |->
        IF links[i] = 0 THEN NoHeld
        ELSE IF Stays(sel, links, i) THEN sel.held[i]
        ELSE [candidate |-> links[i], attempt |-> AttemptNumber(sel, links, i),
              at |-> NextStage(Carrier, IsWireless(Candidate(sel, links[i])))]]

SettleOn(sel, links) ==
    WithHotspot([sel EXCEPT !.held = HeldOn(sel, links),
                            !.next = @ + Cardinality({i \in Interfaces : Fresh(sel, links, i)}),
                            !.channels = [r \in RadioSet |->
                                             IF Stays(sel, links, r) THEN @[r] ELSE "none"]])

Settle(sel) == SettleOn(sel, Place(sel))

(* The state of each candidate, as Decision::states.                       *)
DefaultRoute(sel) ==
    LET up == {sel.held[i].candidate : i \in {j \in Interfaces : sel.held[j].at = Established}}
    IN IF up = {} THEN 0 ELSE CHOOSE c \in up : \A d \in up : c <= d

StateOf(sel, rank) ==
    LET on == Current(sel, rank) IN
    IF on # {}
    THEN LET at == sel.held[CHOOSE i \in on : TRUE].at IN
         IF at # Established THEN [is |-> "verifying", at |-> at]
         ELSE [is |-> IF rank = DefaultRoute(sel) THEN "default-route" ELSE "up", at |-> 0]
    ELSE IF ~Candidate(sel, rank).enabled THEN [is |-> "off", at |-> 0]
    ELSE IF ~HasCarrier(sel, rank) THEN [is |-> "unavailable", at |-> Carrier]
    ELSE IF sel.failures[rank] # 0 THEN [is |-> "unavailable", at |-> sel.failures[rank]]
    ELSE [is |-> "standby", at |-> 0]
-----------------------------------------------------------------------------
(* The old rank whose candidate each new rank carries over, 0 for none:    *)
(* each old candidate in order takes the first equal one not yet taken.    *)
CarriedFrom(old, new) ==
    LET same(a, b) == old.attachments[a] = new.attachments[b]
        before(a, b) == {c \in 1..(a - 1) : same(c, b)}
        earlier(a, b) == {d \in 1..(b - 1) : same(a, d)}
    IN [b \in DOMAIN new.attachments |->
          LET match == {a \in DOMAIN old.attachments :
                          same(a, b) /\ Cardinality(before(a, b)) = Cardinality(earlier(a, b))}
          IN IF match = {} THEN 0 ELSE CHOOSE a \in match : TRUE]

Configure(sel, doc) ==
    LET from == CarriedFrom(sel.doc, doc)
        now(a) == {b \in DOMAIN doc.attachments : from[b] = a}
        carried(h) == IF h.candidate = 0 \/ now(h.candidate) = {} THEN NoHeld
                      ELSE [h EXCEPT !.candidate = CHOOSE b \in now(h.candidate) : TRUE]
    IN IF doc = sel.doc THEN sel
       ELSE Settle([sel EXCEPT !.doc = doc,
                               !.failures = [b \in DOMAIN doc.attachments |->
                                   IF from[b] = 0 THEN 0 ELSE sel.failures[from[b]]],
                               !.held = [i \in Interfaces |-> carried(sel.held[i])]])

Anew(sel, ranks) ==
    [sel EXCEPT !.failures = [rank \in Ranks(sel) |-> IF rank \in ranks THEN 0 ELSE @[rank]]]

(* Carrier returning makes every candidate on the interface available.     *)
CarrierUp(sel, i) ==
    LET up == [sel EXCEPT !.carrier = @ \cup {i}] IN
    Settle(IF i \in sel.carrier THEN up
           ELSE Anew(up, {rank \in Ranks(sel) : ~IsWireless(Candidate(sel, rank))
                                                /\ Candidate(sel, rank).on = i}))

CarrierDown(sel, i) == Settle([sel EXCEPT !.carrier = @ \ {i}])

(* A network coming into range makes every candidate for it that the radio *)
(* could carry available.                                                  *)
InRange(sel, r, ssid, signal) ==
    LET hears == [sel EXCEPT !.heard[r][ssid] = signal] IN
    Settle(IF sel.heard[r][ssid] > 0 THEN hears
           ELSE Anew(hears, {rank \in Ranks(sel) :
                                LET c == Candidate(sel, rank) IN
                                IsWireless(c) /\ c.ssid = ssid /\ c.on \in {"any", r}}))

OutOfRange(sel, r, ssid) == Settle([sel EXCEPT !.heard[r][ssid] = 0])

On(sel, attempt) == {i \in Interfaces : sel.held[i].candidate # 0 /\ sel.held[i].attempt = attempt}

PassedStage(sel, attempt, stage) ==
    Settle([sel EXCEPT !.held = [i \in Interfaces |->
        IF i \in On(sel, attempt) /\ @[i].at = stage
        THEN [@[i] EXCEPT !.at = NextStage(stage, IsWireless(Candidate(sel, sel.held[i].candidate)))]
        ELSE @[i]]])

FailedStage(sel, attempt, stage) ==
    Settle([sel EXCEPT !.failures = [rank \in Ranks(sel) |->
        IF \E i \in On(sel, attempt) : sel.held[i].candidate = rank THEN stage ELSE @[rank]]])

StationChannel(sel, r, channel) == Settle([sel EXCEPT !.channels[r] = channel])

Retried(sel, rank) == Settle(Anew(sel, {rank}))
=============================================================================
