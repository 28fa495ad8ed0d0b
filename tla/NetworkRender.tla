---------------------------- MODULE NetworkRender ---------------------------
(***************************************************************************)
(* A configuration document rendered as the files that iwd, hostapd,       *)
(* systemd-networkd and systemd-resolved read (network/render.rs and below *)
(* it): checked as it is proposed, and rendered in each state it is        *)
(* applied in.                                                             *)
(*                                                                         *)
(* A file is a path and a body.  A path is <<backend, name, suffix>>; a    *)
(* body keeps the settings a daemon acts on and drops their layout.  What  *)
(* a string has to look like is kept as whether it does ("good", "bad").   *)
(***************************************************************************)
EXTENDS Integers, Sequences, FiniteSets

CONSTANTS Wired,        \* the wired interfaces
          Radios,       \* the radios, in the order the probe found them
          Documents,    \* the documents rendered,
          Selections    \* and what is up when they are

VARIABLES
    asked,      \* the document this behaviour is asked to render, if any
    accepted,   \* whether it was accepted, once it has been checked
    rendered    \* what it was rendered as, in the selection it last was

renderVars == <<asked, accepted, rendered>>

None == "none"

Indexed(seq) == DOMAIN seq

(* None is no interface's name, an access point's interface is one made    *)
(* for it (probe), and a document's attachments come in their order.       *)
ASSUME RadiosAssumption ==
    \A i \in Indexed(Radios) :
        /\ Radios[i].station # None
        /\ Radios[i].ap \notin Wired \cup {Radios[j].station : j \in Indexed(Radios)}
ASSUME DocumentsAssumption == \A doc \in Documents : Indexed(doc.attachments) \subseteq Nat \ {0}
Stations == {Radios[i].station : i \in Indexed(Radios)}
Radio(station) == Radios[CHOOSE i \in Indexed(Radios) : Radios[i].station = station]

(* The access point interface of the first radio that can run one, of      *)
(* those a pin leaves; None where there is none.                           *)
FirstAp(pin) ==
    LET able == {i \in Indexed(Radios) : Radios[i].ap # None /\ pin \in {None, Radios[i].station}}
    IN  IF able = {} THEN None
        ELSE Radios[CHOOSE i \in able : \A j \in able : i <= j].ap

File(path, body) == [path |-> path, body |-> body]

-----------------------------------------------------------------------------
(* networkd: a link's addressing and the resolvers that go with it.        *)

METRIC_BASE == 100

NetworkPath(interface) == <<"networkd", interface, "network">>
DelegatePath(interface) == <<"resolved", interface, "dns-delegate">>

CandidateFault(a, station) ==
    \/ a.ns = "bad"
    \/ a.kind = "wireless" /\ station = None
    \/ a.kind # "wireless" /\ a.interface \notin Wired
    \/ a.kind = "static" /\ a.addr = "bad"

CandidateFiles(a, rank, interface) ==
    {File(NetworkPath(interface),
          [kind |-> a.kind, addr |-> a.addr, ns |-> a.ns, metric |-> METRIC_BASE + rank])}
    \cup (IF a.kind # "static" /\ a.ns # None
          THEN {File(DelegatePath(interface), [ns |-> a.ns])} ELSE {})

(* An interface none of whose candidates is up is up itself, so that its   *)
(* carrier can be seen.                                                    *)
Idle(interface) ==
    File(NetworkPath(interface), [kind |-> "idle", addr |-> None, ns |-> None, metric |-> 0])

(* The hotspot's addresses, of a subnet whose prefix length is `prefix`:   *)
(* the device holds the first host and leases the rest.                    *)
ASSUME PowersOfTwo == \A k \in 2..30 : 2^k \in Int /\ 2^k >= 4
Hosts(prefix) == 2^(32 - prefix) - 2
DhcpFault(prefix) == prefix > 30
Pool(prefix) == [server |-> 1, offset |-> 2, size |-> Hosts(prefix) - 1]

HotspotNetwork(h, ap) ==
    File(NetworkPath(ap), [kind |-> "hotspot", addr |-> None, ns |-> None, metric |-> 0, pool |-> Pool(h.prefix)])

-----------------------------------------------------------------------------
(* hostapd: the channel the hotspot runs on, and how it is widened.        *)

Exists(band, n) ==
    IF band = "2ghz" THEN n \in 1..14
    ELSE \/ n % 4 = 0 /\ n \in (36..64) \cup (100..144)
         \/ n % 4 = 1 /\ n \in 149..177

Starts40 == {36, 44, 52, 60, 100, 108, 116, 124, 132, 140, 149, 157}
Starts80 == {36, 52, 100, 116, 132, 149}
Group(starts, size, n) ==
    LET of == {s \in starts : n \in s..(s + 4 * size - 1) /\ (n - s) % 4 = 0}
    IN  IF of = {} THEN {} ELSE {(CHOOSE s \in of : TRUE) + 4 * k : k \in 0..(size - 1)}

(* The 20 MHz channels spanned, none where the channel does not widen so.  *)
Span(band, n, width) ==
    CASE width = 20 -> {n}
      [] band = "2ghz" /\ width = 40 /\ n <= 7 -> {n, n + 4}
      [] band = "2ghz" /\ width = 40 /\ n > 7 -> {n - 4, n}
      [] band = "5ghz" /\ width = 40 -> Group(Starts40, 2, n)
      [] band = "5ghz" /\ width = 80 -> Group(Starts80, 4, n)
      [] OTHER -> {}

WidthFault(band, n, width) == width # 20 /\ Span(band, n, width) = {}

Base(n) == IF n >= 149 THEN 149 ELSE 36

(* The secondary channel's side, and the centre of an 80 MHz channel.      *)
Widen(band, n, width) ==
    [secondary |-> IF width = 20 THEN 0
                   ELSE IF band = "2ghz" THEN (IF n <= 7 THEN 1 ELSE 2)
                   ELSE IF ((n - Base(n)) \div 4) % 2 = 0 THEN 1 ELSE 2,
     centre |-> IF width = 80 THEN Base(n) + ((n - Base(n)) \div 16) * 16 + 6 ELSE 0]

(* The channel and width a hotspot runs on: its station's, sharing it.     *)
NoChannel == [band |-> None, number |-> 0]
Follows(ap, station) == ap.shared /\ station # NoChannel
Operating(h, ap, station) ==
    CASE Follows(ap, station) -> [band |-> station.band, channel |-> station.number, width |-> 20]
      [] ~Follows(ap, station) /\ h.channel = 0 ->
            [band |-> IF h.band = "5ghz" THEN "5ghz" ELSE "2ghz",
             channel |-> IF h.band = "5ghz" THEN 36 ELSE 6, width |-> h.width]
      [] OTHER -> [band |-> IF h.band # None THEN h.band ELSE IF h.channel <= 14 THEN "2ghz" ELSE "5ghz",
                   channel |-> h.channel, width |-> h.width]

ConfFault(h, ap, station) ==
    \/ h.ssid = "" \/ h.secret = "bad"
    \/ ~Follows(ap, station) /\ h.band \notin {None, "2ghz", "5ghz"}
    \/ LET o == Operating(h, ap, station)
       IN  \/ ~Follows(ap, station) /\ ~Exists(o.band, o.channel)
           \/ WidthFault(o.band, o.channel, o.width)

Conf(h, ap, station) ==
    LET o == Operating(h, ap, station)
    IN  File(<<"hostapd", ap.ap, "conf">>,
             [ssid |-> h.ssid, secret |-> h.secret, on |-> o, wide |-> Widen(o.band, o.channel, o.width)])

-----------------------------------------------------------------------------
(* iwd: what an 802.1X candidate has to carry, and one file per network.   *)

Methods == {"peap", "ttls", "tls", "pwd"}

Uses(method) ==
    {"identity"} \cup
    (IF method \in {"peap", "ttls"} THEN {"anonymous-identity", "phase2"} ELSE {}) \cup
    (IF method # "tls" THEN {"password"} ELSE {}) \cup
    (IF method # "pwd" THEN {"ca-certificate", "domain"} ELSE {}) \cup
    (IF method = "tls" THEN {"client-certificate", "client-key", "client-key-passphrase"} ELSE {})

Optional(member) == member \in {"anonymous-identity", "client-key-passphrase"}

(* The faults of an enterprise candidate: a method nobody knows, a member  *)
(* the method does not use, one it lacks, and one that is ill-formed.      *)
EnterpriseFault(s) ==
    \/ s.eap \notin Methods
    \/ s.given \ Uses(s.eap) # {}
    \/ \E member \in Uses(s.eap) \ s.given : ~Optional(member)
    \/ s.ill \in s.given

SecurityFault(s) == IF s.kind = "enterprise" THEN EnterpriseFault(s) ELSE s.secret = "bad"

KnownPath(a) == <<"iwd", a.ssid, IF a.security.kind = "enterprise" THEN "8021x" ELSE "psk">>

(* Candidates turned on that share a network's file have to say the same.  *)
Shares(a, b) == a.kind = "wireless" /\ b.kind = "wireless" /\ a.enabled /\ b.enabled /\ KnownPath(a) = KnownPath(b)

NetworksFault(doc) ==
    \E i \in Indexed(doc.attachments) :
        LET a == doc.attachments[i]
        IN  /\ a.kind = "wireless"
            /\ \/ Radios = <<>>
               \/ a.ssid = ""
               \/ SecurityFault(a.security)
               \/ \E j \in 1..(i - 1) :
                      LET b == doc.attachments[j]
                      IN  Shares(a, b) /\ (b.security # a.security \/ b.hidden # a.hidden)

Networks(doc) ==
    {File(KnownPath(a), [security |-> a.security, hidden |-> a.hidden]) :
        a \in {b \in {doc.attachments[i] : i \in Indexed(doc.attachments)} : b.kind = "wireless" /\ b.enabled}}

-----------------------------------------------------------------------------
(* render: every candidate and the hotspot checked whatever is selected.   *)

CheckedOn(a) ==
    IF a.kind # "wireless" THEN None
    ELSE IF a.interface # None THEN a.interface
    ELSE IF Radios # <<>> THEN Radios[1].station ELSE None

HasHotspot(doc) == doc.hotspot.ssid # "unset"

RadiosFault(doc) ==
    \/ \E i \in Indexed(doc.attachments) :
          LET a == doc.attachments[i]
          IN  a.kind = "wireless" /\ a.interface # None /\ a.interface \notin Stations
    \/ /\ HasHotspot(doc) /\ doc.hotspot.interface # None
       /\ \/ doc.hotspot.interface \notin Stations
          \/ Radio(doc.hotspot.interface).ap = None

ApOf(name) == Radios[CHOOSE i \in Indexed(Radios) : Radios[i].ap = name]

HotspotCheckedWhereItRuns(doc) == FALSE
HotspotFault(doc) ==
    /\ HasHotspot(doc)
    /\ \/ FirstAp(doc.hotspot.interface) = None
       \/ DhcpFault(doc.hotspot.prefix)
       \/ ConfFault(doc.hotspot, ApOf(FirstAp(doc.hotspot.interface)), NoChannel)

(* The faults found whatever the selection is.                             *)
DocumentFault(doc) ==
    \/ doc.domain = "bad"
    \/ RadiosFault(doc)
    \/ NetworksFault(doc)
    \/ \E i \in Indexed(doc.attachments) : CandidateFault(doc.attachments[i], CheckedOn(doc.attachments[i]))
    \/ HotspotFault(doc)

(* The selection is the caller's, and has to fit the document.             *)
LinkFits(doc, interface, i) ==
    /\ i \in Indexed(doc.attachments)
    /\ LET a == doc.attachments[i]
       IN  /\ a.enabled
           /\ IF a.kind = "wireless" THEN interface \in Stations /\ a.interface \in {None, interface}
              ELSE a.interface = interface
Fits(doc, sel) ==
    /\ \A interface \in DOMAIN sel.links : LinkFits(doc, interface, sel.links[interface])
    /\ \A x, y \in DOMAIN sel.links : sel.links[x] = sel.links[y] => x = y
    /\ HasHotspot(doc) /\ sel.hotspot # None =>
           /\ doc.hotspot.enabled
           /\ sel.hotspot \in Stations /\ Radio(sel.hotspot).ap # None
           /\ doc.hotspot.interface \in {None, sel.hotspot}

(* The faults met only in carrying the selection out.                      *)
SelectedFault(doc, sel) ==
    \/ \E interface \in DOMAIN sel.links : CandidateFault(doc.attachments[sel.links[interface]], interface)
    \/ /\ HasHotspot(doc) /\ sel.hotspot # None
       /\ ConfFault(doc.hotspot, Radio(sel.hotspot), sel.channels[sel.hotspot])

Render(doc, sel) ==
    Networks(doc)
    \cup (UNION {CandidateFiles(doc.attachments[sel.links[x]], sel.links[x], x) : x \in DOMAIN sel.links})
    \cup (IF ~HasHotspot(doc) \/ sel.hotspot = None THEN {}
          ELSE {HotspotNetwork(doc.hotspot, Radio(sel.hotspot).ap),
                Conf(doc.hotspot, Radio(sel.hotspot), sel.channels[sel.hotspot])})
    \cup {Idle(x) : x \in {doc.attachments[i].interface :
                               i \in {k \in Indexed(doc.attachments) : doc.attachments[k].kind # "wireless"}}
                          \ DOMAIN sel.links}
    \cup (IF Radios = <<>> THEN {}
          ELSE {File(<<"iwd", "main", "conf">>, [domain |-> doc.domain]),
                File(<<"regdom", "bliti", "conf">>, [domain |-> doc.domain])})

RenderInit == asked \in {{doc} : doc \in Documents} /\ accepted = {} /\ rendered = {}

(* check: the document is rendered with nothing selected, and accepted     *)
(* where that has no fault.                                                *)
Checks ==
    /\ accepted = {} /\ accepted' = {~DocumentFault(doc) : doc \in asked}
    /\ UNCHANGED <<asked, rendered>>

(* apply: it is rendered with what is selected then.                       *)
Rendered(doc, sel) ==
    [fault |-> SelectedFault(doc, sel), files |-> IF SelectedFault(doc, sel) THEN {} ELSE Render(doc, sel)]
Renders ==
    \E doc \in asked, sel \in Selections :
        /\ accepted = {TRUE} /\ rendered = {} /\ Fits(doc, sel)
        /\ rendered' = {Rendered(doc, sel)}
        /\ UNCHANGED <<asked, accepted>>

RenderNext == Checks \/ Renders

-----------------------------------------------------------------------------
(* Properties.                                                             *)

(* A document accepted in one state is rendered in every state: what is    *)
(* checked on the radio named, or the first, stands for every radio, and   *)
(* each file is rendered once.                                             *)
RefusedAlike ==
    \A r \in rendered :
        /\ ~r.fault
        /\ \A f, g \in r.files : f.path = g.path => f = g

(* The secondary channel and the centre hostapd is told are of the span    *)
(* the capabilities and the domain were checked for.                       *)
WidensToItsSpan ==
    \A band \in {"2ghz", "5ghz"}, n \in 1..177, width \in {40, 80} :
        LET span == Span(band, n, width)
            w == Widen(band, n, width)
        IN  Exists(band, n) /\ span # {} =>
                /\ \A c \in span \cup {n, IF w.secondary = 1 THEN n + 4 ELSE n - 4} : c \in span /\ Exists(band, c)
                /\ width = 80 => \A c \in span : c - w.centre \in {0 - 6, 0 - 2, 2, 6}

(* The device's own address is not leased, nor the broadcast address.      *)
PoolFits ==
    \A prefix \in 2..32 : ~DhcpFault(prefix) =>
        LET p == Pool(prefix) IN p.server < p.offset /\ p.size > 0 /\ p.offset + p.size - 1 = Hosts(prefix)

(* An enterprise candidate authenticates its access point (WLAN): by the   *)
(* server's certificate and name, or by the password itself.               *)
AuthenticatesServer ==
    \A r \in rendered : \A f \in r.files :
        f.path[3] = "8021x" /\ f.body.security.eap # "pwd"
        => {"ca-certificate", "domain"} \subseteq f.body.security.given

(* What is rendered is sound: of every document accepted, in every state.  *)
RenderSound == RefusedAlike /\ WidensToItsSpan /\ PoolFits /\ AuthenticatesServer
=============================================================================
