--------------------------- MODULE ConfigDocument ---------------------------
(***************************************************************************)
(* A document proposed to a device: read (channel/config.rs), and held     *)
(* against the mirror of documents the device offers of its radios         *)
(* (channel/capabilities.rs, probe/capabilities.rs), before anything is    *)
(* made of it.  The rules relating the hotspot to the candidates are       *)
(* NetworkSelect's.                                                        *)
(***************************************************************************)
EXTENDS NetworkProbe, WireMessages

CONSTANTS Proposable,   \* the documents proposed, and to a device of which radios
          Alphabet      \* every name in a document, in its order

VARIABLES
    proposed,   \* the document proposed, and to a device of which radios, if any
    judged,     \* what came of it, once it has been taken or refused
    again       \* what came of the one before it, written out and proposed again

documentVars == <<proposed, judged, again>>

Sorted(names) == SelectSeq(Alphabet, LAMBDA n : n \in names)
Lacks(m, n) == n \notin DOMAIN m \/ m[n].is = "null"
Is(m, n, kind) == n \in DOMAIN m /\ m[n].is = kind
MayBe(m, n, kind) == Lacks(m, n) \/ m[n].is = kind
Named(m, n, names) == Is(m, n, "string") /\ m[n].s \in names
StringsOf(m, n) == IF Lacks(m, n) THEN <<>> ELSE m[n].items
AreStrings(m, n) == Lacks(m, n) \/ IsA("strings", m[n])

-----------------------------------------------------------------------------
(* Document::parse: the faults of a document in the order they are looked  *)
(* for, each where it is; and what is kept of one that has none.           *)

Looked(at, n, ok) == [at |-> Append(at, n), ok |-> ok]

SecurityLooks(m, at) ==
    <<Looked(at, "kind", Named(m, "kind", {"psk", "sae", "psk-sae", "enterprise"})),
      Looked(at, "passphrase", Named(m, "kind", {"psk", "sae", "psk-sae"}) => Is(m, "passphrase", "string"))>>

BandsNamed(m) ==
    /\ AreStrings(m, "bands")
    /\ "bands" \in DOMAIN m => StringsOf(m, "bands") # <<>>
    /\ \A i, j \in DOMAIN StringsOf(m, "bands") : StringsOf(m, "bands")[i] = StringsOf(m, "bands")[j] => i = j

WirelessLooks(m, at) ==
    <<Looked(at, "ssid", Is(m, "ssid", "string")), Looked(at, "security", Is(m, "security", "object"))>>
    \o (IF Is(m, "security", "object") THEN SecurityLooks(m["security"].m, Append(at, "security")) ELSE <<>>)
    \o <<Looked(at, "hidden", MayBe(m, "hidden", "bool")), Looked(at, "interface", MayBe(m, "interface", "string")),
         Looked(at, "bands", BandsNamed(m))>>

DynamicLooks(m, at) == <<Looked(at, "interface", Is(m, "interface", "string"))>>
StaticLooks(m, at) ==
    <<Looked(at, "interface", Is(m, "interface", "string")),
      Looked(at, "addresses", AreStrings(m, "addresses") /\ StringsOf(m, "addresses") # <<>>),
      Looked(at, "gateway", Is(m, "gateway", "string"))>>

AttachmentLooks(m, at) ==
    <<Looked(at, "label", Is(m, "label", "string")), Looked(at, "enabled", Is(m, "enabled", "bool")),
      Looked(at, "verify", Is(m, "verify", "bool")), Looked(at, "nameservers", AreStrings(m, "nameservers")),
      Looked(at, "kind", Named(m, "kind", {"wireless", "wired-dynamic", "wired-static"}))>>
    \o CASE Named(m, "kind", {"wireless"}) -> WirelessLooks(m, at)
         [] Named(m, "kind", {"wired-dynamic"}) -> DynamicLooks(m, at)
         [] Named(m, "kind", {"wired-static"}) -> StaticLooks(m, at)
         [] OTHER -> <<>>

WholeNumber(m, n) == MayBe(m, n, "number")
HotspotLooks(m, at) ==
    <<Looked(at, "enabled", Is(m, "enabled", "bool")), Looked(at, "ssid", Is(m, "ssid", "string")),
      Looked(at, "passphrase", Is(m, "passphrase", "string")), Looked(at, "interface", MayBe(m, "interface", "string")),
      Looked(at, "share-upstream", MayBe(m, "share-upstream", "bool")),
      Looked(at, "isolate-clients", MayBe(m, "isolate-clients", "bool")),
      Looked(at, "dhcp-range", MayBe(m, "dhcp-range", "string")), Looked(at, "band", MayBe(m, "band", "string")),
      Looked(at, "channel", WholeNumber(m, "channel")), Looked(at, "channel-width", WholeNumber(m, "channel-width"))>>

(* A wired interface has one dynamic candidate.                            *)
OneDynamic(items, i) ==
    ~\E j \in 1..(i - 1) :
        /\ \A k \in {i, j} : Named(items[k].m, "kind", {"wired-dynamic"})
        /\ items[i].m["interface"] = items[j].m["interface"]

RECURSIVE CandidateLooks(_, _)
CandidateLooks(items, i) ==
    IF i > Len(items) THEN <<>>
    ELSE IF items[i].is # "object" THEN <<Looked(<<"attachments">>, ToString(i), FALSE)>>
    ELSE AttachmentLooks(items[i].m, <<"attachments", ToString(i)>>)
             \o <<Looked(<<"attachments", ToString(i)>>, "interface", OneDynamic(items, i))>>
             \o CandidateLooks(items, i + 1)

DocumentLooks(m) ==
    <<Looked(<<>>, "attachments", Is(m, "attachments", "array"))>>
    \o (IF Is(m, "attachments", "array") THEN CandidateLooks(m["attachments"].items, 1) ELSE <<>>)
    \o <<Looked(<<>>, "hotspot", MayBe(m, "hotspot", "object"))>>
    \o (IF Is(m, "hotspot", "object") THEN HotspotLooks(m["hotspot"].m, <<"hotspot">>) ELSE <<>>)
    \o <<Looked(<<>>, "regulatory-domain", MayBe(m, "regulatory-domain", "string"))>>

Parses(m) == \A i \in DOMAIN DocumentLooks(m) : DocumentLooks(m)[i].ok

(* What the parsed document has, as its to_json writes it.                 *)
Only(m, names) == [n \in {x \in names \cap DOMAIN m : m[x].is # "null" /\ m[x] # Arr(<<>>)} |-> m[n]]
SecurityKept(m) == IF Named(m, "kind", {"enterprise"}) THEN m ELSE Only(m, {"kind", "passphrase"})
WirelessKept(m) ==
    Only(m, {"kind", "label", "enabled", "verify", "nameservers", "ssid", "hidden", "interface", "bands"})
        @@ ("security" :> Obj(SecurityKept(m["security"].m)))
KindKept(m) ==
    CASE m["kind"].s = "wireless" -> WirelessKept(m)
      [] m["kind"].s = "wired-dynamic" -> Only(m, {"kind", "label", "enabled", "verify", "nameservers", "interface"})
      [] OTHER -> Only(m, {"kind", "label", "enabled", "verify", "nameservers", "interface", "addresses", "gateway"})
HotspotKept(m) ==
    Only(m, {"enabled", "ssid", "passphrase", "interface", "share-upstream", "isolate-clients", "dhcp-range", "band",
             "channel", "channel-width"})
DocumentKept(m) ==
    ("attachments" :> Arr([i \in DOMAIN m["attachments"].items |-> Obj(KindKept(m["attachments"].items[i].m))]))
    @@ (IF Lacks(m, "hotspot") THEN <<>> ELSE "hotspot" :> Obj(HotspotKept(m["hotspot"].m)))
    @@ Only(m, {"regulatory-domain"})

-----------------------------------------------------------------------------
(* probe: the mirror of documents a device offers.                         *)

AnyValue == Flag(TRUE)
OneOf(values) == [is |-> "one-of", of |-> values]

SecurityMirror(radio) ==
    Obj([k \in OfferedSecurity(radio) |->
            IF k = "enterprise" THEN Obj("eap" :> OneOf({Str(e) : e \in {"peap", "ttls", "tls", "pwd"}})) ELSE Obj(<<>>)])

HotspotMirror(radio) ==
    IF OfferedBands(radio) = {} THEN Obj(<<>>)
    ELSE Obj("band" :> Obj([b \in OfferedBands(radio) |->
                Obj(("channel" :> OneOf({Num(c.number) : c \in OfferedChannels(radio, b)}))
                    @@ ("channel-width" :> OneOf({Num(w) : w \in OfferedWidths(radio, b)})))]))

ByStation(of) == Obj([s \in {r.station : r \in DOMAIN of} |-> of[CHOOSE r \in DOMAIN of : r.station = s]])

WirelessMirror(radio) == Obj([security |-> Obj("kind" :> SecurityMirror(radio)), hidden |-> AnyValue])
KindMirrors(radios, wired) ==
    (IF radios = {} THEN <<>>
     ELSE "wireless" :> Obj([interface |-> ByStation([r \in radios |-> WirelessMirror(r)]), nameservers |-> AnyValue]))
    @@ [k \in IF wired = {} THEN {} ELSE {"wired-dynamic", "wired-static"} |->
           Obj([interface |-> OneOf({Str(w) : w \in wired}), nameservers |-> AnyValue])]
Mirror(radios, wired) ==
    ("attachments" :> Obj("kind" :> Obj(KindMirrors(radios, wired))))
    @@ (IF {r \in radios : OffersHotspot(r)} = {} THEN <<>>
        ELSE "hotspot" :> Obj(("interface" :> ByStation([r \in {r \in radios : OffersHotspot(r)} |-> HotspotMirror(r)]))
                              @@ [n \in {"share-upstream", "isolate-clients", "dhcp-range"} |-> AnyValue]))
    @@ (IF radios = {} THEN <<>> ELSE "regulatory-domain" :> AnyValue)

-----------------------------------------------------------------------------
(* check: a document held against the mirror.                              *)

Selectors == <<"kind", "interface", "band">>
Child(context, n) ==
    CASE context = "document" /\ n = "attachments" -> "attachment"
      [] context = "document" /\ n = "hotspot" -> "hotspot"
      [] context = "attachment" /\ n = "security" -> "security"
      [] OTHER -> "other"

Required(context, m) ==
    CASE context = "document" -> {"attachments"}
      [] context = "attachment" /\ Named(m, "kind", {"wireless"}) -> {"label", "enabled", "verify", "ssid", "security"}
      [] context = "attachment" /\ Named(m, "kind", {"wired-dynamic"}) -> {"label", "enabled", "verify", "interface"}
      [] context = "attachment" /\ Named(m, "kind", {"wired-static"}) ->
            {"label", "enabled", "verify", "interface", "addresses", "gateway"}
      [] context = "security" /\ Named(m, "kind", {"psk", "sae", "psk-sae"}) -> {"passphrase"}
      [] context = "security" /\ Named(m, "kind", {"enterprise"}) -> DOMAIN m \ {"eap"}
      [] context = "hotspot" -> {"enabled", "ssid", "passphrase"}
      [] OTHER -> {}

Merged(c, sel, under) == under @@ [n \in DOMAIN c \ {sel} |-> c[n]]
KeyOf(v) == IF v.is = "string" THEN v.s ELSE ""
HoldsObjects(v) == v.is = "object" \/ (v.is = "array" /\ \E i \in DOMAIN v.items : v.items[i].is = "object")

AtSelector(at, sel) == {[at |-> Append(at, sel), progress |-> 2 * (Len(at) + 1)]}
AtMember(at) == {[at |-> at, progress |-> 2 * Len(at) + 1]}

KeyedBy(c, consumed) == SelectSeq(Selectors, LAMBDA s : s \notin consumed /\ Is(c, s, "object"))
Unresolved(faults) == [faults |-> faults, all |-> <<>>]
RECURSIVE AllFound(_)
AllFound(found) ==   \* the first fault among them, or all of what they found
    IF found = <<>> THEN Unresolved({})
    ELSE IF Head(found).faults # {} THEN Head(found)
    ELSE IF AllFound(Tail(found)).faults # {} THEN AllFound(Tail(found))
    ELSE [faults |-> {}, all |-> Head(found).all \o AllFound(Tail(found)).all]

RECURSIVE Resolve(_, _, _, _)
ResolveKeys(m, c, sel, consumed, at) ==
    [i \in DOMAIN Sorted(DOMAIN c[sel].m) |->
        Resolve(m, Merged(c, sel, c[sel].m[Sorted(DOMAIN c[sel].m)[i]].m), consumed \cup {sel}, at)]
ResolveBy(m, c, sel, consumed, at) ==
    IF Lacks(m, sel)
    THEN IF DOMAIN c[sel].m = {} THEN Unresolved(AtSelector(at, sel)) ELSE AllFound(ResolveKeys(m, c, sel, consumed, at))
    ELSE IF KeyOf(m[sel]) \in DOMAIN c[sel].m
    THEN Resolve(m, Merged(c, sel, c[sel].m[KeyOf(m[sel])].m), consumed \cup {sel}, at)
    ELSE Unresolved(AtSelector(at, sel))
Resolve(m, c, consumed, at) ==
    IF KeyedBy(c, consumed) = <<>> THEN [faults |-> {}, all |-> <<[c |-> c, consumed |-> consumed]>>]
    ELSE ResolveBy(m, c, Head(KeyedBy(c, consumed)), consumed, at)

First(faults) ==
    IF \A i \in DOMAIN faults : faults[i] = {} THEN {}
    ELSE faults[CHOOSE i \in DOMAIN faults : faults[i] # {} /\ \A j \in 1..(i - 1) : faults[j] = {}]

RECURSIVE ValueFault(_, _, _, _)
MemberAnyway(m, n, c, context, at) ==
    IF n \in DOMAIN c THEN ValueFault(m[n], c[n], Child(context, n), Append(at, n)) ELSE {}
MemberFault(m, n, c, context, at) ==
    CASE n \in DOMAIN c -> ValueFault(m[n], c[n], Child(context, n), Append(at, n))
      [] n \in Required(context, m) \ DOMAIN c ->
            IF HoldsObjects(m[n]) THEN ValueFault(m[n], Obj(<<>>), Child(context, n), Append(at, n)) ELSE {}
      [] OTHER -> AtMember(Append(at, n))
AsksOf(m, consumed) == {n \in DOMAIN m : m[n].is # "null" /\ n \notin consumed}
MemberFaults(m, r, context, at) ==
    First([i \in DOMAIN Sorted(AsksOf(m, r.consumed)) |->
              MemberFault(m, Sorted(AsksOf(m, r.consumed))[i], r.c, context, at)])

(* One resolution with no fault will do; else the one that got furthest.   *)
Deepest(faults) == faults[CHOOSE i \in DOMAIN faults :
    \A f \in faults[i] : /\ \A j \in DOMAIN faults : \A g \in faults[j] : f.progress >= g.progress
                         /\ \A j \in 1..(i - 1) : \A g \in faults[j] : f.progress > g.progress]
ObjectFaults(m, found, context, at) ==
    IF found.faults # {} THEN found.faults
    ELSE IF \E i \in DOMAIN found.all : MemberFaults(m, found.all[i], context, at) = {} THEN {}
    ELSE Deepest([i \in DOMAIN found.all |-> MemberFaults(m, found.all[i], context, at)])
ObjectFault(m, c, context, at) == ObjectFaults(m, Resolve(m, c, {}, at), context, at)

ValueFault(v, c, context, at) ==
    IF c = AnyValue THEN {}
    ELSE CASE c.is # "bool" /\ v.is = "array" ->
                 First([i \in DOMAIN v.items |-> ValueFault(v.items[i], c, context, Append(at, ToString(i)))])
           [] v.is = "object" /\ c.is = "object" -> ObjectFault(v.m, c.m, context, at)
           [] c.is = "one-of" /\ v.is # "array" /\ v \in c.of -> {}
           [] OTHER -> AtMember(at)

check(m, mirror) == ObjectFault(m, mirror, "document", <<>>)

ProposeInit == proposed \in {{p} : p \in Proposable} /\ judged = {} /\ again = {}
Faults(p) == check(p.document, Mirror(p.radios, p.wired))

(* save: a document is parsed, and what was parsed held, where it is       *)
(* within the capabilities.                                                *)
FirstFault(looks) == looks[CHOOSE i \in DOMAIN looks : ~looks[i].ok /\ \A j \in 1..(i - 1) : looks[j].ok].at
Invalid(m) == [as |-> "invalid", at |-> {FirstFault(DocumentLooks(m))}]
Outside(p, faults) == [as |-> "outside", at |-> {f.at : f \in faults}, document |-> DocumentKept(p.document)]
Held(p) == [as |-> "held", at |-> {}, document |-> DocumentKept(p.document)]
Judged(p) ==
    IF ~Parses(p.document) THEN Invalid(p.document)
    ELSE IF Faults(p) # {} THEN Outside(p, Faults(p)) ELSE Held(p)

SavesProposal ==
    \E p \in proposed :
        /\ judged = {} /\ judged' = {Judged(p)}
        /\ UNCHANGED <<proposed, again>>

(* What was parsed is written out (to_json) and comes as a proposal.       *)
ProposesAgain ==
    \E p \in proposed, j \in judged :
        /\ again = {} /\ j.as # "invalid"
        /\ proposed' = {[p EXCEPT !.document = j.document]} /\ judged' = {} /\ again' = {j}

DocumentsNext == SavesProposal \/ ProposesAgain

-----------------------------------------------------------------------------
(* What the mirror covers, said outright: a keyed member takes one of its  *)
(* keys, its own where it is set and any where it is not, and the rest of  *)
(* the object is covered under that key.                                   *)
RECURSIVE Covers(_, _, _, _)
CoversItem(v, c, context) ==
    (v.is = "object" /\ c.is = "object" /\ Covers(v.m, {}, c.m, context)) \/ (c.is = "one-of" /\ v \in c.of)
CoversValue(v, c, context) ==
    \/ c = AnyValue
    \/ IF v.is = "array" THEN \A i \in DOMAIN v.items : CoversItem(v.items[i], c, context) ELSE CoversItem(v, c, context)
CoversMember(m, n, c, context) ==
    IF n \in DOMAIN c THEN CoversValue(m[n], c[n], Child(context, n))
    ELSE n \in Required(context, m) /\ (HoldsObjects(m[n]) => CoversValue(m[n], Obj(<<>>), Child(context, n)))
StillKeyed(c, done) == {s \in {"kind", "interface", "band"} \ done : Is(c, s, "object")}
Covers(m, done, c, context) ==
    IF StillKeyed(c, done) = {} THEN \A n \in AsksOf(m, done) : CoversMember(m, n, c, context)
    ELSE \E s \in StillKeyed(c, done) : \E k \in DOMAIN c[s].m :
             (Lacks(m, s) \/ KeyOf(m[s]) = k) /\ Covers(m, done \cup {s}, Merged(c, s, c[s].m[k].m), context)
Offered(p) == Covers(p.document, {}, Mirror(p.radios, p.wired), "document")

(* A document leaving a keyed member unset is within capabilities where    *)
(* any of that member's keys admits the rest of the document               *)
(* (network/overview.md:83).                                               *)
AnyKeyAdmits == \A p \in proposed, j \in judged : Offered(p) => j.as # "outside"

(* What the check admits the mirror covers, under one key of each keyed    *)
(* member throughout.                                                      *)
AdmittedIsOffered ==
    \A p \in proposed, j \in judged :
        j.as = "held" \/ (j.as = "invalid" /\ Faults(p) = {}) => Offered(p)

(* And a document naming its radios and its band is admitted where it is   *)
(* covered.                                                                *)
Pins(m) ==
    /\ ~Lacks(m, "hotspot") => ~Lacks(m["hotspot"].m, "interface") /\ ~Lacks(m["hotspot"].m, "band")
    /\ \A i \in DOMAIN m["attachments"].items : ~Lacks(m["attachments"].items[i].m, "interface")
PinnedIsAdmitted ==
    \A p \in proposed, j \in judged : j.as # "invalid" /\ Pins(p.document) /\ Offered(p) => j.as = "held"

(* A document that is read and admitted is kept whole: the device holds    *)
(* and applies nothing other than what was proposed, and drops no member   *)
(* of it unsaid (network/overview.md:55).                                  *)
RECURSIVE Meant(_)
Meant(v) ==
    CASE v.is = "object" -> Obj([n \in {x \in DOMAIN v.m : v.m[x].is # "null" /\ v.m[x] # Arr(<<>>)} |-> Meant(v.m[n])])
      [] v.is = "array" -> Arr([i \in DOMAIN v.items |-> Meant(v.items[i])])
      [] OTHER -> v
AdmittedIsWhole ==
    \A p \in proposed, j \in judged : j.as = "held" => Meant(Obj(j.document)) = Meant(Obj(p.document))

(* And what is written of a document that was read is read again as the    *)
(* same, and admitted where that was (config/tests.rs, to_json).           *)
KeptIsReadAgain ==
    \A j \in judged, before \in again :
        /\ j.as # "invalid" /\ j.document = before.document
        /\ before.as = "held" => j.as = "held"

DocumentsAreKept == AdmittedIsOffered /\ PinnedIsAdmitted /\ AdmittedIsWhole /\ KeptIsReadAgain
=============================================================================
