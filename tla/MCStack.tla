------------------------------ MODULE MCStack -------------------------------
(***************************************************************************)
(* The parts of the network stack around the driver, each on its own: what *)
(* is selected, what is applied and what is observed, and the documents    *)
(* and messages that come to it.                                           *)
(***************************************************************************)
EXTENDS NetworkSelector, NetworkApply, NetworkObserve, ConfigDocument

VARIABLE part  \* the part this behaviour is of

(* Selecting: a wall port and two radios, one of which cannot carry a      *)
(* hotspot beside a client; candidates contending with the hotspot for     *)
(* them, and a network that each radio hears in its own strength.          *)
Joining(on, hidden) ==
    [kind |-> "wireless", on |-> on, ssid |-> "clinic", hidden |-> hidden, enabled |-> TRUE, body |-> 0]
Hosting(on, chooses) == [enabled |-> TRUE, on |-> on, chooses |-> chooses]
MCSelectable ==
    {[attachments |-> <<Joining("any", FALSE), Joining("wlan0", FALSE)>>, hotspot |-> Hosting("any", FALSE)],
     [attachments |-> <<Joining("wlan0", FALSE)>>, hotspot |-> Hosting("any", TRUE)],
     [attachments |-> <<Joining("any", TRUE), Joining("any", FALSE)>>, hotspot |-> Hosting("wlan0", FALSE)]}
MCWired == <<"eth0">>
MCStationed == <<"wlan0", "wlan1">>
MCAlongside == [x \in {"wlan0", "wlan1"} |-> IF x = "wlan0" THEN "one" ELSE "shared"]

(* A radio whose hotspot shares its client's channel, and one whose does   *)
(* not.                                                                    *)
MCRadios ==
    <<[station |-> "wlan0", ap |-> "ap0", shared |-> TRUE],
      [station |-> "wlan1", ap |-> "ap1", shared |-> FALSE],
      [station |-> "wlan2", ap |-> None, shared |-> FALSE]>>

Psk(secret) == [kind |-> "psk", secret |-> secret, eap |-> None, given |-> {}, ill |-> None]
Eap(method, given, ill) == [kind |-> "enterprise", secret |-> "good", eap |-> method, given |-> given, ill |-> ill]

WiredTo(kind, interface, ns, addr) ==
    [kind |-> kind, interface |-> interface, ssid |-> "", security |-> Psk("good"), hidden |-> FALSE,
     enabled |-> TRUE, ns |-> ns, addr |-> addr]
Attaches(ssid, interface, security, hidden, enabled) ==
    [kind |-> "wireless", interface |-> interface, ssid |-> ssid, security |-> security, hidden |-> hidden,
     enabled |-> enabled, ns |-> "good", addr |-> None]
Spot(ssid, pin, band, channel, width) ==
    [ssid |-> ssid, secret |-> "good", interface |-> pin, band |-> band, channel |-> channel, width |-> width,
     enabled |-> TRUE, prefix |-> 24]
Unset == Spot("unset", None, None, 0, 20)
Doc(attachments, hotspot, domain) == [attachments |-> attachments, hotspot |-> hotspot, domain |-> domain]

MCAttachments ==
    {WiredTo("dynamic", "eth0", "good", None), WiredTo("static", "eth0", "good", "good"),
     WiredTo("static", "eth0", "good", "bad"), WiredTo("dynamic", "eth9", None, None),
     WiredTo("dynamic", "eth0", "bad", None)}
    \cup {Attaches("s", pin, Psk("good"), hidden, TRUE) : pin \in {None, "wlan1", "wlan9"}, hidden \in BOOLEAN}
    \cup {Attaches("s", None, Psk("bad"), FALSE, FALSE), Attaches("", None, Psk("good"), FALSE, TRUE)}
    \cup {Attaches("e", None, Eap(m, Uses(m) \ lacking, ill), FALSE, TRUE) :
              m \in {"peap", "tls", "pwd"}, lacking \in {{}, {"ca-certificate"}, {"anonymous-identity"}},
              ill \in {None, "domain"}}
MCHotspots ==
    {Unset, [Spot("h", None, None, 0, 20) EXCEPT !.secret = "bad"],
     [Spot("h", None, None, 0, 20) EXCEPT !.prefix = 31]}
    \cup {Spot("h", pin, None, 0, 20) : pin \in {None, "wlan1", "wlan2"}}
    \cup {Spot("h", None, band, channel, width) :
              band \in {None, "5ghz"}, channel \in {0, 11, 36, 165}, width \in {20, 80}}
MCDocuments ==
    {Doc(<<a>>, h, "NZ") : a \in MCAttachments, h \in MCHotspots}
    \cup {Doc(<<a, b>>, Unset, "NZ") : a \in MCAttachments, b \in MCAttachments}

Sel(links, hotspot, channel) ==
    [links |-> links, hotspot |-> hotspot,
     channels |-> [s \in Stations |-> IF s = "wlan0" THEN channel ELSE NoChannel]]
Joined == [band |-> "2ghz", number |-> 11]
MCSelections ==
    {Sel(links, hotspot, channel) :
        links \in UNION {[on -> {1, 2}] : on \in SUBSET {"eth0", "wlan0", "wlan1"}},
        hotspot \in {None, "wlan0", "wlan1"}, channel \in {NoChannel, Joined}}

(* What is applied: the hotspot on one radio and on another, with its      *)
(* client's channel and its own, and none; the link dynamic with resolvers *)
(* of its own, static, and idle.                                           *)
Up == [x \in {"eth0"} |-> 1]
MCRenderings ==
    {[doc |-> Doc(<<WiredTo("dynamic", "eth0", "good", None)>>, Spot("h", None, None, 0, 20), "NZ"),
      sel |-> Sel(Up, "wlan0", NoChannel)],
     [doc |-> Doc(<<WiredTo("static", "eth0", "good", "good")>>, Spot("h", None, None, 0, 20), "NZ"),
      sel |-> Sel(Up, "wlan1", NoChannel)],
     [doc |-> Doc(<<WiredTo("dynamic", "eth0", "good", None), Attaches("s", None, Psk("good"), FALSE, TRUE)>>,
                  Spot("h", None, None, 0, 20), "FJ"),
      sel |-> Sel([x \in {"wlan0"} |-> 2], "wlan0", Joined)]}


(* Radios as nl80211 describes them: one of both bands whose upper         *)
(* channels are radar's, and one whose regulatory domain leaves it little. *)
Chan(mhz, flags) == [mhz |-> mhz, flags |-> flags]
MCLimits == {<<[max |-> m, types |-> {"station", "ap"}]>> : m \in 1..2}
            \cup {<<[max |-> 1, types |-> {"station"}], [max |-> m, types |-> {"ap", "p2p"}]>> : m \in 0..1}
            \cup {<<[max |-> 1, types |-> {"station"}]>>}
MCCombinations == [total : 1..2, channels : 1..2, limits : MCLimits]
Wiphy(bands, can, combinations, driver) ==
    [station |-> "wlan0", bands |-> bands, can |-> can, ap |-> TRUE, combinations |-> combinations,
     driver |-> driver, akms |-> {}, features |-> {"sae"}, ciphers |-> {"ccmp", "bip-cmac"}, ssids |-> 4]
Low == {Chan(2412, {}), Chan(2437, {"no40-"}), Chan(2452, {"no40-", "no40+"}), Chan(2472, {"no-ir"}), Chan(2484, {"disabled"})}
High(flags) == {Chan(5180, {}), Chan(5200, {}), Chan(5220, flags), Chan(5240, flags), Chan(5500, {"radar"}), Chan(5955, {})}
MCWiphys ==
    {Wiphy(bands, can, {c}, "brcmfmac") :
        bands \in {[b \in {"2ghz"} |-> Low], [b \in {"2ghz", "5ghz"} |-> IF b = "2ghz" THEN Low ELSE High({"no-ir"})],
                   [b \in {"5ghz"} |-> High({})]},
        can \in {{}, {40}, {40, 80, 160}}, c \in MCCombinations}

-----------------------------------------------------------------------------
(* Messages: each with all its members, and off that by one of them.       *)
RECURSIVE Good(_)
FullOf(fields) ==
    LET names == Listing(DOMAIN fields) IN [i \in DOMAIN names |-> Member(names[i], "lower", Good(fields[names[i]].kind))]
Good(kind) ==
    CASE kind \in {"string", "any"} -> Str("x") [] kind = "bool" -> Flag(TRUE) [] kind = "number" -> Num(1)
      [] kind = "object" -> Sent(<<Member("inner", "lower", Str("x"))>>) [] kind = "array" -> Arr(<<Str("x")>>)
      [] kind \in {"outcome", "run", "done", "step-state"} -> Str(CHOOSE n \in Names(kind) : TRUE)
      [] kind \in DOMAIN ListsOf -> Arr(<<Good(ListsOf[kind])>>)
      [] OTHER -> Sent(FullOf(Fields(kind)))
FullMessage(type) ==
    <<Member("type", "lower", Str(type))>>
        \o [i \in DOMAIN FullOf(Reads(type)) |-> Pinned([type |-> type], FullOf(Reads(type))[i])]
Unheard(case) == Member("unheard-of", case, Str("x"))
RECURSIVE Widened(_, _)
Widened(v, case) ==
    CASE v.is = "sent" -> {Sent(Append(v.entries, Unheard(case)))}
      [] v.is = "array" -> {Arr(<<x>>) : x \in Widened(v.items[1], case)}
      [] OTHER -> {}
Variants(full) ==
    {Sent(full), Sent(full \o <<full[1]>>)}
    \cup {Sent(Append(full, Unheard(case))) : case \in {"lower", "upper", "mixed"}}
    \cup {Sent([full EXCEPT ![i].case = case]) : i \in DOMAIN full, case \in {"lower", "upper", "mixed"}}
    \cup {Sent([full EXCEPT ![i].value = v]) : i \in DOMAIN full, v \in {Nil, Arr(<<Num(1)>>)}}
    \cup {Sent(SelectSeq(full, LAMBDA e : e.name # full[i].name)) : i \in DOMAIN full}
    \cup UNION {{Sent([full EXCEPT ![i].value = x]) : x \in Widened(full[i].value, case)} :
                    i \in DOMAIN full, case \in {"lower", "upper"}}
MCSendable ==
    (UNION {Variants(FullMessage(type)) : type \in known_types})
    \cup {Sent(<<Member("type", case, Str("unheard-of"))>>) : case \in {"lower", "upper"}} \cup {Str("x")}

(* Proposals: candidates and hotspots of each kind off by a member, to a   *)
(* device of no radio, of one of the lower band, and of one of both beside *)
(* it.                                                                     *)
Adapter(station, bands, driver) == RadioInfo([Wiphy(bands, {40, 80}, {}, driver) EXCEPT !.station = station])
Lower == Adapter("wlan0", [b \in {"2ghz"} |-> {Chan(2412, {}), Chan(2437, {})}], "brcmfmac")
Dual == Adapter("wlan1", [b \in {"2ghz", "5ghz"} |->
                             IF b = "2ghz" THEN {Chan(2437, {})} ELSE {Chan(5180, {}), Chan(5200, {})}], "mt76")
MCAlphabet ==
    <<"2ghz", "5ghz", "addresses", "attachments", "band", "bands", "channel", "channel-width", "dhcp-range", "eap",
      "enabled", "enterprise", "gateway", "hidden", "hotspot", "identity", "interface", "isolate-clients", "kind",
      "label", "nameservers", "passphrase", "psk", "psk-sae", "regulatory-domain", "sae", "security", "share-upstream",
      "ssid", "unheard-of", "verify", "wired-dynamic", "wired-static", "wireless", "wlan0", "wlan1">>
Labelled == [label |-> Str("x"), enabled |-> Flag(TRUE), verify |-> Flag(FALSE)]
Secured(m) == Labelled @@ [kind |-> Str("wireless"), ssid |-> Str("x"), security |-> Obj(m)]
Passphrase(kind) == [kind |-> Str(kind), passphrase |-> Str("x")]
Method(eap) == [kind |-> Str("enterprise"), eap |-> Str(eap), identity |-> Str("x")]
Fixed == Labelled @@ [kind |-> Str("wired-static"), interface |-> Str("eth0"), addresses |-> Arr(<<Str("x")>>),
                      gateway |-> Str("x")]
Plugged == Labelled @@ [kind |-> Str("wired-dynamic"), interface |-> Str("eth0")]
OffByOne(m) ==
    {m, ("unheard-of" :> Str("x")) @@ m}
    \cup {[n \in DOMAIN m \ {x} |-> m[n]] : x \in DOMAIN m}
    \cup {[m EXCEPT ![x] = v] : x \in DOMAIN m, v \in {Nil, Num(7)}}
MCCandidates ==
    OffByOne(Plugged) \cup OffByOne(Fixed) \cup OffByOne(Secured(Passphrase("psk")))
    \cup {Secured(s) : s \in OffByOne(Passphrase("psk")) \cup OffByOne(Method("pwd")) \cup {Method("fast")}}
    \cup {Secured(Passphrase(k)) @@ ("interface" :> Str(x)) : k \in {"sae", "psk-sae"}, x \in {"wlan0", "wlan1", "wlan9"}}
    \cup {extra @@ Secured(Passphrase("psk")) : extra \in
            {"bands" :> Arr(<<>>), "bands" :> Arr(<<Str("5ghz"), Str("5ghz")>>), "hidden" :> Flag(TRUE),
             "hidden" :> Str("x"), "nameservers" :> Arr(<<>>), "nameservers" :> Arr(<<Str("x")>>),
             "nameservers" :> Arr(<<Num(1)>>)}}
Spotted == [enabled |-> Flag(TRUE), ssid |-> Str("x"), passphrase |-> Str("x")]
Where(n, v) == IF v = Nil THEN <<>> ELSE n :> v
MCSpots ==
    {Spotted @@ Where("interface", i) @@ Where("band", b) @@ Where("channel", c) @@ Where("channel-width", x) :
        i \in {Nil, Str("wlan0"), Str("wlan1"), Str("wlan9")}, b \in {Nil, Str("2ghz"), Str("5ghz"), Num(7)},
        c \in {Nil, Num(6), Num(36)}, x \in {Nil, Num(20), Num(80)}}
    \cup OffByOne(Spotted @@ ("dhcp-range" :> Str("x")) @@ ("share-upstream" :> Flag(TRUE)))
Proposes(attachments, rest) == ("attachments" :> Arr(attachments)) @@ rest
MCProposable ==
    [document : {Proposes(<<Obj(c)>>, <<>>) : c \in MCCandidates}
                \cup {Proposes(<<>>, "hotspot" :> Obj(h)) : h \in MCSpots}
                \cup {Proposes(<<Obj(Plugged), Obj(Plugged)>>, <<>>),
                      Proposes(<<Obj(Plugged), Obj(Secured(Passphrase("psk")))>>, "hotspot" :> Nil),
                      Proposes(<<Str("x")>>, <<>>), "attachments" :> Nil, Proposes(<<>>, "hotspot" :> Str("x")),
                      Proposes(<<>>, "regulatory-domain" :> Str("NZ"))},
     radios : {{}, {Lower}, {Lower, Dual}}, wired : {{"eth0"}}]

-----------------------------------------------------------------------------
documents == <<renderVars, probeVars, wireVars, documentVars>>
vars == <<part, sel, documents, applyVars, observeVars>>

Init ==
    /\ part \in {"select", "render", "probe", "message", "document", "apply", "iwd", "scan", "rtnl", "gateway", "heard"}
    /\ IF part = "render" THEN RenderInit ELSE asked = {} /\ accepted = {} /\ rendered = {}
    /\ IF part = "probe" THEN ProbeInit ELSE probed = {} /\ abilities = {} /\ aired = {} /\ beacon = {}
    /\ IF part = "message" THEN MessagesInit ELSE sent = {} /\ taken = {} /\ relayed = {}
    /\ IF part = "document" THEN ProposeInit ELSE proposed = {} /\ judged = {} /\ again = {}
    /\ SelectorInit /\ ApplyInit /\ ObserveInit
    /\ part # "gateway" => \A p \in 1..2 : asks[p].by = "arp"

Asking ==
    \/ part = "render" /\ RenderNext /\ UNCHANGED <<probeVars, wireVars, documentVars>>
    \/ part = "probe" /\ ProbeNext /\ UNCHANGED <<renderVars, wireVars, documentVars>>
    \/ part = "message" /\ MessagesNext /\ UNCHANGED <<renderVars, probeVars, documentVars>>
    \/ part = "document" /\ DocumentsNext /\ UNCHANGED <<renderVars, probeVars, wireVars>>
Observing ==
    \/ part = "iwd" /\ IwdNext
    \/ part = "scan" /\ ScanNext
    \/ part = "rtnl" /\ RtnlNext
    \/ part = "gateway" /\ GatewayNext
    \/ part = "heard" /\ HeardNext

Next ==
    /\ UNCHANGED part
    /\ \/ Asking /\ UNCHANGED <<sel, applyVars, observeVars>>
       \/ part = "select" /\ SelectorNext /\ UNCHANGED <<documents, applyVars, observeVars>>
       \/ part = "apply" /\ ApplyNext /\ UNCHANGED <<sel, documents, observeVars>>
       \/ Observing /\ UNCHANGED <<sel, documents, applyVars>>

Spec == Init /\ [][Next]_vars
=============================================================================
