----------------------------- MODULE NetworkProbe ---------------------------
(***************************************************************************)
(* What a radio is found able to do and what of it is offered a client     *)
(* (network/probe.rs and below it), and what an access point's beacon is   *)
(* read as (network/observe/bss.rs).  The code is pure: a behaviour probes *)
(* one radio, renders a hotspot of what it is offered, and scans for it.   *)
(***************************************************************************)
EXTENDS NetworkRender

CONSTANT Wiphys    \* the radios probed, as nl80211 describes them

(* The kernel counts the interfaces that a combination allows.             *)
ASSUME LimitsAssumption ==
    \A w \in Wiphys : \A combination \in w.combinations :
        \A i \in Indexed(combination.limits) : combination.limits[i].max \in Nat

VARIABLES
    probed,     \* the radio this behaviour probes, if any
    abilities,  \* what it was found able to do
    aired,      \* the hotspot a client asked for of what it was offered
    beacon      \* what the beacon of that was read as

probeVars == <<probed, abilities, aired, beacon>>

-----------------------------------------------------------------------------
(* wiphy: channels, widths, and what runs beside what.                     *)

Number(band, mhz) ==
    CASE band = "2ghz" /\ mhz = 2484 -> 14
      [] band = "2ghz" /\ mhz \in 2412..2472 -> (mhz - 2407) \div 5
      [] band = "5ghz" /\ mhz \in 4910..4999 -> (mhz - 4000) \div 5
      [] band = "5ghz" /\ mhz \in 5000..5949 -> (mhz - 5000) \div 5
      [] OTHER -> 0

(* A channel as nl80211 lists it: the frequency and the flags it carries.  *)
MaxWidth(flags) ==
    IF {"no40-", "no40+"} \subseteq flags THEN 20
    ELSE IF "no80" \in flags THEN 40
    ELSE IF "no160" \in flags THEN 80 ELSE 160

ChannelsOf(band, listed) ==
    {[number |-> Number(band, c.mhz), max |-> MaxWidth(c.flags), starts |-> c.flags \cap {"no-ir", "radar"} = {}] :
        c \in {x \in listed : "disabled" \notin x.flags /\ Number(band, x.mhz) # 0}}

WidthsOf(band, can, channels) ==
    {w \in {20} \cup (can \cap {40}) \cup (IF band = "5ghz" THEN can \cap {80, 160} ELSE {}) :
        \E c \in channels : c.max >= w}

(* A station and an access point at once, of the interfaces a combination  *)
(* allows: a limit counts both where they share it.                        *)
StationBesideAp(limits) ==
    \E i, j \in Indexed(limits) :
        /\ "station" \in limits[i].types /\ limits[i].max >= 1
        /\ "ap" \in limits[j].types /\ limits[j].max >= (IF i = j THEN 2 ELSE 1)

BesideRank(a) == CASE a = "one-at-a-time" -> 0 [] a = "shared-channel" -> 1 [] OTHER -> 2

Found(combination) ==
    IF combination.total < 2 \/ ~StationBesideAp(combination.limits) THEN "one-at-a-time"
    ELSE IF combination.channels > 1 THEN "independent" ELSE "shared-channel"
AlongsideFor(combinations) ==
    LET found == {Found(c) : c \in combinations} \cup {"one-at-a-time"}
    IN  CHOOSE a \in found : \A b \in found : BesideRank(a) >= BesideRank(b)

(* SAE wants its AKM, someone to run it, and the ciphers; brcmfmac is kept *)
(* off it.                                                                 *)
SAE_DISABLED == {"brcmfmac"}
Sae(w) ==
    /\ w.driver \notin SAE_DISABLED
    /\ w.akms = {} \/ "sae" \in w.akms
    /\ w.features \cap {"sae", "sae-offload"} # {}
    /\ {"ccmp", "bip-cmac"} \subseteq w.ciphers

RadioInfo(w) ==
    [station |-> w.station,
     bands |-> [b \in {x \in DOMAIN w.bands : ChannelsOf(x, w.bands[x]) # {}} |->
                   [channels |-> ChannelsOf(b, w.bands[b]),
                    widths |-> WidthsOf(b, w.can, ChannelsOf(b, w.bands[b]))]],
     ap |-> w.ap, alongside |-> IF w.ap THEN AlongsideFor(w.combinations) ELSE None,
     sae |-> Sae(w), scan |-> w.ssids > 0]

-----------------------------------------------------------------------------
(* capabilities: what a client is offered.                                 *)

(* The widths hostapd is rendered on.                                      *)
Carried(band) == CASE band = "2ghz" -> {20, 40} [] band = "5ghz" -> {20, 40, 80} [] OTHER -> {}

OfferedChannels(radio, band) == {c \in radio.bands[band].channels : c.starts /\ Exists(band, c.number)}
OfferedWidths(radio, band) ==
    {w \in radio.bands[band].widths \cap Carried(band) : \E c \in OfferedChannels(radio, band) : c.max >= w}
OfferedBands(radio) == {b \in DOMAIN radio.bands : Carried(b) # {} /\ OfferedChannels(radio, b) # {}}
OffersHotspot(radio) == radio.ap /\ (OfferedBands(radio) # {} \/ radio.alongside = "shared-channel")

OfferedSecurity(radio) == {"psk", "enterprise"} \cup (IF radio.sae THEN {"sae", "psk-sae"} ELSE {})

(* A channel and a width asked for together have to be ones an access      *)
(* point can start on, all the way across.                                 *)
HotspotFits(radios, h) ==
    \/ h.channel = 0 \/ h.width = 0
    \/ LET band == IF h.band # None THEN h.band ELSE IF h.channel <= 14 THEN "2ghz" ELSE "5ghz"
           span == IF Exists(band, h.channel) THEN Span(band, h.channel, h.width) ELSE {}
       IN  /\ span # {}
           /\ \E radio \in {r \in radios : r.ap /\ h.interface \in {None, r.station}} :
                 /\ band \in DOMAIN radio.bands
                 /\ \A n \in span : \E c \in radio.bands[band].channels : c.number = n /\ c.starts

-----------------------------------------------------------------------------
(* bss: the security and the width of an access point, of its elements.    *)

BssSecurity(b) ==
    CASE "rsn" \in DOMAIN b.elements -> b.elements["rsn"]
      [] "rsn" \notin DOMAIN b.elements /\ "wpa" \in DOMAIN b.elements -> b.elements["wpa"]
      [] OTHER -> IF b.privacy THEN {"wep"} ELSE {"open"}

Abs(n) == IF n < 0 THEN 0 - n ELSE n
BssWidth(ht, vht) ==
    CASE vht.width = 1 /\ vht.seg1 # 0 /\ (Abs(vht.seg0 - vht.seg1) = 8 \/ Abs(vht.seg0 - vht.seg1) > 16) -> 160
      [] vht.width = 1 /\ (vht.seg1 = 0 \/ Abs(vht.seg0 - vht.seg1) \in (0..16) \ {8}) -> 80
      [] vht.width \in {2, 3} -> 160
      [] vht.width \notin 1..3 /\ ht.any /\ ht.offset # 0 -> 40
      [] OTHER -> 20
BssSecondary(ht, n) == IF ~ht.any THEN 0 ELSE CASE ht.offset = 1 -> n + 4 [] ht.offset = 3 -> n - 4 [] OTHER -> 0

(* hostapd's own beacon, of the configuration rendered for it.             *)
BeaconHt(wide) == [any |-> wide.secondary # 0, offset |-> CASE wide.secondary = 1 -> 1 [] wide.secondary = 2 -> 3 [] OTHER -> 0]
BeaconSecurity == [elements |-> [e \in {"rsn"} |-> {"psk"}], privacy |-> TRUE]
BeaconVht(wide) == [width |-> IF wide.centre = 0 THEN 0 ELSE 1, seg0 |-> wide.centre, seg1 |-> 0]

ProbeInit == probed \in {{w} : w \in Wiphys} /\ abilities = {} /\ aired = {} /\ beacon = {}

Probes ==
    /\ probed # {} /\ abilities = {}
    /\ abilities' = {RadioInfo(w) : w \in probed}
    /\ UNCHANGED <<probed, aired, beacon>>

(* A client asks for a hotspot of what it is offered, and it is rendered   *)
(* on a radio with no client on.                                           *)
Offer(h, station, band, n, width) ==
    [h EXCEPT !.interface = station, !.band = band, !.channel = n, !.width = width]
PlainHotspot ==
    [ssid |-> "h", secret |-> "good", interface |-> None, band |-> None, channel |-> 0, width |-> 20,
     enabled |-> TRUE, prefix |-> 24]
Alone == [ap |-> "ap0", shared |-> FALSE]
Airs ==
    \E radio \in abilities : \E band \in OfferedBands(radio) :
        \E c \in OfferedChannels(radio, band), width \in OfferedWidths(radio, band) :
            LET h == Offer(PlainHotspot, radio.station, band, c.number, width)
            IN  /\ aired = {} /\ OffersHotspot(radio) /\ HotspotFits({radio}, h)
                /\ aired' = {[h |-> h, conf |-> IF ConfFault(h, Alone, NoChannel) THEN {}
                                               ELSE {Conf(h, Alone, NoChannel).body}]}
                /\ UNCHANGED <<probed, abilities, beacon>>

(* And it is scanned for.                                                  *)
AccessPoint(body) ==
    [security |-> BssSecurity(BeaconSecurity), width |-> BssWidth(BeaconHt(body.wide), BeaconVht(body.wide)),
     secondary |-> BssSecondary(BeaconHt(body.wide), body.on.channel)]
HearsItself ==
    /\ aired # {} /\ beacon = {}
    /\ beacon' = {AccessPoint(body) : body \in UNION {a.conf : a \in aired}}
    /\ beacon' # {}
    /\ UNCHANGED <<probed, abilities, aired>>

ProbeNext == Probes \/ Airs \/ HearsItself

(* Rendering and probing side by side.                                     *)
OfferNext == (RenderNext /\ UNCHANGED probeVars) \/ (ProbeNext /\ UNCHANGED renderVars)
OfferSpec == RenderInit /\ ProbeInit /\ [][OfferNext]_<<renderVars, probeVars>>

-----------------------------------------------------------------------------
(* Properties.                                                             *)

(* What is offered of a radio's hotspot is rendered, and an access point   *)
(* can start on every channel it takes up; every channel offered is one by *)
(* itself (capabilities::hotspot, hotspot_fits).                           *)
OfferedRenders ==
    \A radio \in abilities :
        /\ OffersHotspot(radio) =>
               \A band \in OfferedBands(radio) : \A c \in OfferedChannels(radio, band) :
                   HotspotFits({radio}, Offer(PlainHotspot, radio.station, band, c.number, 20))
        /\ \A a \in aired :
               /\ a.conf # {}
               /\ \A n \in Span(a.h.band, a.h.channel, a.h.width) :
                      \E x \in radio.bands[a.h.band].channels : x.number = n /\ x.starts

WidthsReadBack ==
    \A band \in {"2ghz", "5ghz"}, n \in 1..177, width \in {20, 40, 80} :
        Exists(band, n) /\ Span(band, n, width) # {} =>
            LET wide == Widen(band, n, width)
                second == BssSecondary(BeaconHt(wide), n)
            IN  /\ BssWidth(BeaconHt(wide), BeaconVht(wide)) = width
                /\ width # 20 => second \in Span(band, n, width) \ {n}

(* A hotspot's beacon is read back as what the hotspot was rendered on:    *)
(* hostapd::conf and bss::width, bss::secondary and AccessPoint::read      *)
(* agree.                                                                  *)
BeaconReadsBack ==
    /\ WidthsReadBack
    /\ \A a \in aired, b \in beacon :
           /\ b.security = {"psk"} /\ b.width = a.h.width
           /\ b.width # 20 => b.secondary \in Span(a.h.band, a.h.channel, a.h.width) \ {a.h.channel}

(* What runs alongside what is what the combination can hold: its two      *)
(* interfaces each in a limit of its type, and no limit over its count.    *)
AlongsideIsAllowed ==
    \A w \in probed : \A combination \in w.combinations :
        StationBesideAp(combination.limits) <=>
            \E place \in [{"station", "ap"} -> Indexed(combination.limits)] :
                /\ \A kind \in {"station", "ap"} : kind \in combination.limits[place[kind]].types
                /\ \A i \in Indexed(combination.limits) :
                       Cardinality({kind \in {"station", "ap"} : place[kind] = i}) <= combination.limits[i].max

(* What a radio is offered for is what it, and hostapd on it, can do.      *)
ProbeSound == OfferedRenders /\ BeaconReadsBack /\ AlongsideIsAllowed

(* What is offered, what is accepted and what is written agree.            *)
OfferedIsRendered == RenderSound /\ ProbeSound
=============================================================================
