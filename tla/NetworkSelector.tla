--------------------------- MODULE NetworkSelector ---------------------------
(***************************************************************************)
(* The selector of crates/bliti/src/network/select.rs fed every event its  *)
(* caller may feed it, in any order: reports against attempts already      *)
(* superseded, networks coming and going on several radios, carrier lost   *)
(* and regained, and another document configured at any point.             *)
(***************************************************************************)
EXTENDS NetworkSelect

CONSTANT MaxAttempts  \* bound: attempts begun

VARIABLE sel  \* the Selector

SelectorInit == sel = NewSelector

Selects(s) == s.next <= MaxAttempts /\ sel' = s

(* The configurator admits a document before the selector sees it.         *)
Configures(doc) == Check(doc) /\ Admits(doc) /\ Selects(Configure(sel, doc))

Senses ==
    \/ \E i \in WiredSet : Selects(CarrierUp(sel, i)) \/ Selects(CarrierDown(sel, i))
    \/ \E r \in RadioSet, ssid \in Ssids :
         \/ \E signal \in 1..MaxSignal : Selects(InRange(sel, r, ssid, signal))
         \/ Selects(OutOfRange(sel, r, ssid))
    \/ \E r \in RadioSet, channel \in Channels \cup {"none"} :
         Selects(StationChannel(sel, r, channel))

(* A report may be against any attempt ever made.                          *)
Reports ==
    \E attempt \in 1..sel.next, stage \in Association..Gateway :
        \/ Selects(PassedStage(sel, attempt, stage))
        \/ Selects(FailedStage(sel, attempt, stage))

TriesAgain == \E rank \in Ranks(sel) : Selects(Retried(sel, rank))

SelectorNext == (\E doc \in Configurations : Configures(doc)) \/ Senses \/ Reports \/ TriesAgain

SelectorSpec == SelectorInit /\ [][SelectorNext]_sel
-----------------------------------------------------------------------------
(* Selecting again with nothing new observed changes nothing: no candidate *)
(* hops between radios and the hotspot does not move by itself             *)
(* (place.rs, the preference for where a candidate and the hotspot are).   *)
SettledIsStable == Settle(sel) = sel

(* A hotspot the document turns on always has a radio to run on, however   *)
(* the candidates are placed, and never one that its one-at-a-time radio's *)
(* client has taken (place.rs, spares_hotspot and place_hotspot).          *)
HotspotHasRadio ==
    sel.doc.hotspot.enabled =>
        /\ sel.hotspot.radio \in HotspotHosts(sel.doc)
        /\ Alongside[sel.hotspot.radio] = "one" => sel.held[sel.hotspot.radio].candidate = 0

(* Standby means what CFG says: every interface the candidate could be     *)
(* brought up on carries a candidate above it, or is kept for the hotspot, *)
(* being the last radio left to it (place.rs, place).                      *)
StandbyIsJustified ==
    \A rank \in Ranks(sel) : StateOf(sel, rank).is = "standby" =>
        LET c == Candidate(sel, rank)
            could == IF IsWireless(c) THEN Hearing(sel, c) ELSE {c.on}
            taken(i) == sel.held[i].candidate # 0 /\ sel.held[i].candidate < rank
            kept(i) == /\ sel.doc.hotspot.enabled /\ Alongside[i] = "one"
                       /\ \A other \in HotspotHosts(sel.doc) \ {i} :
                            Alongside[other] = "one" /\ taken(other)
        IN \A i \in could : taken(i) \/ (IsWireless(c) /\ kept(i))

(* Where candidates and the hotspot are placed leaves neither out without  *)
(* cause, and is where they would be placed again.                         *)
PlacementIsSound == SettledIsStable /\ StandbyIsJustified /\ HotspotHasRadio

(* A candidate that is up is taken down only for a reason: it failed or    *)
(* lost its carrier, a candidate above it took the interface or the last   *)
(* radio beside the hotspot's, or another document was configured          *)
(* (select.rs, settle keeping an attempt).                                 *)
TakenDownForCause ==
    [][\A i \in Interfaces :
        LET rank == sel.held[i].candidate IN
        (rank # 0 /\ sel'.doc = sel.doc /\ sel'.held[i].attempt # sel.held[i].attempt) =>
            \/ ~Available(sel', rank)
            \/ sel'.held[i].candidate \in 1..(rank - 1)
            \/ i \in RadioSet /\ ~SparesHotspot(sel', i, [j \in Interfaces |->
                    IF sel'.held[j].candidate < rank THEN sel'.held[j].candidate ELSE 0])
            \/ i \in RadioSet /\ i \notin Hearing(sel', Candidate(sel, rank))]_sel
=============================================================================
