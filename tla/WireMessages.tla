---------------------------- MODULE WireMessages ----------------------------
(***************************************************************************)
(* What one end writes and the other reads of it: the envelope             *)
(* (channel/envelope.rs), the messages it carries (channel/messages.rs)    *)
(* and the entries and reports within them.  A member named in upper case  *)
(* is critical: a receiver that does not read it must not act.             *)
(*                                                                         *)
(* JSON is tagged by what it is.  What a member's text says is left out,   *)
(* but for the names a member takes from a closed list.                    *)
(***************************************************************************)
EXTENDS Sequences, Naturals, FiniteSets, TLC

CONSTANT Sendable   \* the objects a peer may send, as their bytes have them

VARIABLES
    sent,   \* the object on its way from one end to the other, if any
    taken,  \* what the other end read of it, once it has
    relayed    \* what an end read that it has written to the other since

wireVars == <<sent, taken, relayed>>

Str(s) == [is |-> "string", s |-> s]
Flag(b) == [is |-> "bool", b |-> b]
Num(n) == [is |-> "number", n |-> n]
Nil == [is |-> "null"]
Arr(items) == [is |-> "array", items |-> items]
Obj(m) == [is |-> "object", m |-> m]

(* An object as it was sent: its members in their order, each with its     *)
(* name lowered and the case it was in.                                    *)
Sent(entries) == [is |-> "sent", entries |-> entries]
Member(name, case, value) == [name |-> name, case |-> case, value |-> value]

-----------------------------------------------------------------------------
(* The members each object has, by the kind of it.                         *)

Must(kind) == [kind |-> kind, need |-> "must"]
May(kind) == [kind |-> kind, need |-> "may"]       \* null is as good as absent
AsIs(kind) == [kind |-> kind, need |-> "as-is"]    \* absent, or whatever it is
Bare == [n \in {} |-> Must("any")]

EntryFields(name) ==
    ("at" :> Must("number")) @@ (name :> Must("string")) @@ ("traits" :> Must("object"))
        @@ ("kind" :> Must("string")) @@ ("unit" :> May("string")) @@ ("value" :> AsIs("any"))

ChannelRead ==
    [hello |-> [name |-> Must("string"), version |-> Must("string")],
     subscribe |-> [topic |-> Must("string")],
     fact |-> EntryFields("fact"), reading |-> EntryFields("measurement")]
    @@ ("end-of-batch" :> Bare)

ConfigureRead ==
    [configure |-> Bare,
     configuration |-> [document |-> Must("object"), capabilities |-> May("object")],
     state |-> [busy |-> Must("bool"), outcome |-> Must("outcome"), failure |-> May("failure"),
                attachments |-> Must("array"), capabilities |-> May("object")],
     scan |-> [interface |-> May("string")], survey |-> [interface |-> May("string")],
     networks |-> ("access-points" :> Must("array")), spectrum |-> [spectrum |-> Must("object")]]
    @@ ("cannot-act" :> [act |-> Must("string"), at |-> Must("string"), reason |-> Must("string")])
    @@ ("cannot-configure" :> [at |-> Must("string"), reason |-> Must("string")])

PowerRead ==
    [power |-> Bare, acts |-> [acts |-> Must("strings")], act |-> [act |-> Must("string")], accepted |-> Bare,
     curve |-> Bare, curves |-> [document |-> May("any"), lasts |-> May("span"), recharge |-> May("span")],
     load |-> [document |-> Must("any")], reset |-> Bare]
    @@ ("going-away" :> [act |-> Must("string"), cause |-> Must("string")])

TailscaleRead ==
    [tailscale |-> Bare]
    @@ ("tailscale-acts" :> [acts |-> Must("strings")])
    @@ ("tailscale-act" :> [act |-> Must("string"), method |-> May("string"), key |-> May("string"),
                            name |-> May("string"), peer |-> May("string")])
    @@ ("tailscale-accepted" :> Bare) @@ ("tailscale-login-link" :> [url |-> Must("string")])
    @@ ("tailscale-result" :> [result |-> Must("object")]) @@ ("tailscale-failed" :> [reason |-> Must("string")])

TamanuRead ==
    [tamanu |-> Bare]
    @@ ("tamanu-acts" :> [acts |-> Must("strings")]) @@ ("tamanu-act" :> [act |-> Must("string")])
    @@ ("tamanu-accepted" :> Bare) @@ ("tamanu-failed" :> [reason |-> Must("string")])

ProvisionRead ==
    [provision |-> Bare]
    @@ ("provision-state" :> [revision |-> Must("number"), built |-> Must("string"), run |-> Must("run"),
                              checked |-> Must("bool"), provisioned |-> Must("bool"),
                              steps |-> Must("steps"), prompts |-> Must("prompts")])
    @@ ("provision-act" :> [act |-> Must("string"), steps |-> May("strings"), prompt |-> May("string"),
                            value |-> May("any")])
    @@ ("provision-accepted" :> Bare)

Reads(type) ==
    (ChannelRead @@ ConfigureRead @@ PowerRead @@ TailscaleRead @@ TamanuRead @@ ProvisionRead)[type]

known_types ==
    {"hello", "subscribe", "fact", "reading", "end-of-batch", "configure", "configuration", "state", "cannot-act",
     "cannot-configure", "scan", "survey", "networks", "spectrum", "power", "acts", "act", "accepted", "going-away",
     "curve", "curves", "load", "reset", "tailscale", "tailscale-acts", "tailscale-act", "tailscale-accepted",
     "tailscale-login-link", "tailscale-result", "tailscale-failed", "tamanu", "tamanu-acts", "tamanu-act",
     "tamanu-accepted", "tamanu-failed", "provision", "provision-state", "provision-act", "provision-accepted"}

FailureFields == [at |-> Must("string"), reason |-> Must("string"), reached |-> May("string")]
SpanFields == [duration |-> Must("number"), margin |-> Must("number")]
StepFields ==
    [id |-> Must("string"), title |-> Must("string"), done |-> Must("done"), why |-> May("string"),
     state |-> Must("step-state"), progress |-> May("number"), reason |-> May("string"), result |-> May("object")]
PromptFields ==
    [id |-> Must("string"), step |-> Must("string"), kind |-> Must("string"), text |-> Must("string"),
     blocking |-> Must("bool"), default |-> May("string")]
Fields(kind) ==
    CASE kind = "failure" -> FailureFields [] kind = "span" -> SpanFields
      [] kind = "step" -> StepFields [] kind = "prompt" -> PromptFields

OutcomeNames == {"verifying", "applied", "failed"}
RunNames == {"idle", "running", "waiting", "failed", "finished"}
DoneNames == {"done", "not-done", "unknown"}
StepNames == {"unchosen", "pending", "running", "waiting", "passed", "failed"}
Names(kind) ==
    CASE kind = "outcome" -> OutcomeNames [] kind = "run" -> RunNames
      [] kind = "done" -> DoneNames [] kind = "step-state" -> StepNames
ListsOf == [steps |-> "step", prompts |-> "prompt", strings |-> "string"]

Given(fields, m, n) == n \in DOMAIN m /\ ~(fields[n].need = "may" /\ m[n].is = "null")

(* Whether a member is what its reader takes, and what is left of it once  *)
(* read: an object keeps the members its reader has.                       *)
RECURSIVE IsA(_, _)
HasAll(fields, m) ==
    \A n \in DOMAIN fields :
        IF Given(fields, m, n) THEN IsA(fields[n].kind, m[n]) ELSE fields[n].need # "must"
IsA(kind, v) ==
    CASE kind = "any" -> TRUE
      [] kind \in {"string", "bool", "number", "object", "array"} -> v.is = kind
      [] kind \in {"outcome", "run", "done", "step-state"} -> v.is = "string" /\ v.s \in Names(kind)
      [] kind \in DOMAIN ListsOf -> v.is = "array" /\ \A i \in DOMAIN v.items : IsA(ListsOf[kind], v.items[i])
      [] OTHER -> v.is = "object" /\ HasAll(Fields(kind), v.m)

RECURSIVE Kept(_, _)
KeptAll(fields, m) ==
    [n \in {x \in DOMAIN fields : Given(fields, m, x)} |-> Kept(fields[n].kind, m[n])]
Kept(kind, v) ==
    CASE kind \in {"steps", "prompts"} -> Arr([i \in DOMAIN v.items |-> Kept(ListsOf[kind], v.items[i])])
      [] kind \in {"failure", "span", "step", "prompt"} -> Obj(KeptAll(Fields(kind), v.m))
      [] OTHER -> v

-----------------------------------------------------------------------------
(* to_map: the members each message writes, where it has them.             *)

EntryWritten(name) == {"at", name, "traits", "kind", "unit", "value"}
ChannelWritten ==
    [hello |-> {"name", "version"}, subscribe |-> {"topic"},
     fact |-> EntryWritten("fact"), reading |-> EntryWritten("measurement")] @@ ("end-of-batch" :> {})
ConfigureWritten ==
    [configure |-> {}, configuration |-> {"document", "capabilities"},
     state |-> {"busy", "outcome", "failure", "attachments", "capabilities"},
     scan |-> {"interface"}, survey |-> {"interface"}, networks |-> {"access-points"}, spectrum |-> {"spectrum"}]
    @@ ("cannot-act" :> {"act", "at", "reason"}) @@ ("cannot-configure" :> {"at", "reason"})
PowerWritten ==
    [power |-> {}, acts |-> {"acts"}, act |-> {"act"}, accepted |-> {}, curve |-> {},
     curves |-> {"document", "lasts", "recharge"}, load |-> {"document"}, reset |-> {}]
    @@ ("going-away" :> {"act", "cause"})
TailscaleForgetsPeer ==
    [tailscale |-> {}] @@ ("tailscale-acts" :> {"acts"})
    @@ ("tailscale-act" :> {"act", "method", "key", "name"}) @@ ("tailscale-accepted" :> {})
    @@ ("tailscale-login-link" :> {"url"}) @@ ("tailscale-result" :> {"result"}) @@ ("tailscale-failed" :> {"reason"})
TailscaleWritten ==
    [tailscale |-> {}] @@ ("tailscale-acts" :> {"acts"})
    @@ ("tailscale-act" :> {"act", "method", "key", "name", "peer"}) @@ ("tailscale-accepted" :> {})
    @@ ("tailscale-login-link" :> {"url"}) @@ ("tailscale-result" :> {"result"}) @@ ("tailscale-failed" :> {"reason"})
TamanuWritten ==
    [tamanu |-> {}] @@ ("tamanu-acts" :> {"acts"}) @@ ("tamanu-act" :> {"act"})
    @@ ("tamanu-accepted" :> {}) @@ ("tamanu-failed" :> {"reason"})
ProvisionWritten ==
    [provision |-> {}]
    @@ ("provision-state" :> {"revision", "built", "run", "checked", "provisioned", "steps", "prompts"})
    @@ ("provision-act" :> {"act", "steps", "prompt", "value"}) @@ ("provision-accepted" :> {})
Writes(type) ==
    (ChannelWritten @@ ConfigureWritten @@ PowerWritten @@ TailscaleWritten @@ TamanuWritten @@ ProvisionWritten)[type]

to_map(message) ==
    ("type" :> Str(message.type)) @@ [n \in Writes(message.type) \cap DOMAIN message.m |-> message.m[n]]

critical_members(type) ==
    CASE type = "subscribe" -> {"topic"} [] type = "configuration" -> {"document"}
      [] type = "act" -> {"act"} [] type = "tailscale-act" -> {"act", "method", "key", "name", "peer"}
      [] type = "tamanu-act" -> {"act"} [] type = "provision-act" -> {"act", "steps", "prompt", "value"}
      [] OTHER -> {}

(* The critical members a message may have, where it is held to some.      *)
Exactly(type) == CASE type = "hello" -> {{}} [] type = "subscribe" -> {{"topic"}} [] OTHER -> {}

-----------------------------------------------------------------------------
(* The envelope: what was sent is lowered, its critical members noted by   *)
(* their paths, its message read and written again, and what is not        *)
(* written again was not read.                                             *)

Distinct(entries) == \A i, j \in DOMAIN entries : entries[i].name = entries[j].name => i = j

RECURSIVE WellNamed(_)
WellNamed(v) ==
    CASE v.is = "sent" ->
            /\ Distinct(v.entries)
            /\ \A i \in DOMAIN v.entries : v.entries[i].case # "mixed" /\ WellNamed(v.entries[i].value)
      [] v.is = "array" -> \A i \in DOMAIN v.items : WellNamed(v.items[i])
      [] OTHER -> TRUE

RECURSIVE Lowered(_)
EntryOf(entries, n) == entries[CHOOSE i \in DOMAIN entries : entries[i].name = n]
Lowered(v) ==
    CASE v.is = "sent" ->
            Obj([n \in {v.entries[i].name : i \in DOMAIN v.entries} |-> Lowered(EntryOf(v.entries, n).value)])
      [] v.is = "array" -> Arr([i \in DOMAIN v.items |-> Lowered(v.items[i])])
      [] OTHER -> v

RECURSIVE Critical(_, _)
Critical(v, path) ==
    CASE v.is = "sent" ->
            (UNION {Critical(v.entries[i].value, Append(path, v.entries[i].name)) : i \in DOMAIN v.entries})
                \cup {Append(path, v.entries[i].name) : i \in {j \in DOMAIN v.entries : v.entries[j].case = "upper"}}
      [] v.is = "array" -> UNION {Critical(v.items[i], Append(path, ToString(i))) : i \in DOMAIN v.items}
      [] OTHER -> {}

(* collect_unknown: the members the message written again does not have.   *)
RECURSIVE Unknown(_, _, _)
Unknown(input, round, path) ==
    CASE input.is = "object" /\ round.is = "object" ->
            {Append(path, n) : n \in DOMAIN input.m \ DOMAIN round.m}
                \cup UNION {Unknown(input.m[n], round.m[n], Append(path, n)) : n \in DOMAIN input.m \cap DOMAIN round.m}
      [] input.is = "array" /\ round.is = "array" ->
            UNION {Unknown(input.items[i], round.items[i], Append(path, ToString(i))) :
                       i \in DOMAIN input.items \cap DOMAIN round.items}
      [] OTHER -> {}

Fault == [is |-> "fault"]
Skipped == [is |-> "skipped"]
Refused(members) == [is |-> "refused", members |-> members]
Acted(message) == [is |-> "message", message |-> message]

CriticalAsPinned(type, object, critical) ==
    \A required \in Exactly(type) :
        /\ critical \subseteq {<<n>> : n \in required}
        /\ {<<n>> : n \in required \cap DOMAIN object} \subseteq critical

MessageOf(type, object) == [type |-> type, m |-> KeptAll(Reads(type), object)]
ReadAs(type, object, critical) ==
    IF type \notin known_types THEN IF <<"type">> \in critical THEN Refused({<<"type">>}) ELSE Skipped
    ELSE IF ~CriticalAsPinned(type, object, critical) \/ ~HasAll(Reads(type), object) THEN Fault
    ELSE IF critical \cap Unknown(Obj(object), Obj(to_map(MessageOf(type, object))), <<>>) = {}
         THEN Acted(MessageOf(type, object))
         ELSE Refused(critical \cap Unknown(Obj(object), Obj(to_map(MessageOf(type, object))), <<>>))
read(raw) ==
    IF ~WellNamed(raw) \/ raw.is # "sent" THEN Fault
    ELSE IF "type" \notin DOMAIN Lowered(raw).m \/ Lowered(raw).m["type"].is # "string" THEN Fault
    ELSE ReadAs(Lowered(raw).m["type"].s, Lowered(raw).m, Critical(raw, <<>>))

(* A message written: the members in some order, what it pins critical in  *)
(* upper case.                                                             *)
RECURSIVE AsSent(_)
RECURSIVE Listing(_)
Listing(names) == IF names = {} THEN <<>> ELSE LET n == CHOOSE x \in names : TRUE IN <<n>> \o Listing(names \ {n})
AsSent(v) ==
    CASE v.is = "object" ->
            Sent([i \in 1..Cardinality(DOMAIN v.m) |->
                     Member(Listing(DOMAIN v.m)[i], "lower", AsSent(v.m[Listing(DOMAIN v.m)[i]]))])
      [] v.is = "array" -> Arr([i \in DOMAIN v.items |-> AsSent(v.items[i])])
      [] OTHER -> v
Pinned(message, e) == IF e.name \in critical_members(message.type) THEN [e EXCEPT !.case = "upper"] ELSE e
write(message) ==
    LET plain == AsSent(Obj(to_map(message)))
    IN  Sent([i \in DOMAIN plain.entries |-> Pinned(message, plain.entries[i])])

MessagesInit == sent \in {{s} : s \in Sendable} /\ taken = {} /\ relayed = {}

(* An end reads what has come.                                             *)
Receives ==
    /\ sent # {} /\ taken = {}
    /\ taken' = {read(s) : s \in sent}
    /\ UNCHANGED <<sent, relayed>>

(* And writes the message it has read to the other.                        *)
TellsOn ==
    \E t \in taken :
        /\ relayed = {} /\ t.is = "message"
        /\ sent' = {write(t.message)} /\ taken' = {} /\ relayed' = {t}

MessagesNext == Receives \/ TellsOn

-----------------------------------------------------------------------------
(* Whether a reader came to a member by its path.                          *)
RECURSIVE HasPath(_, _)
HasPath(v, path) ==
    \/ path = <<>>
    \/ v.is = "object" /\ Head(path) \in DOMAIN v.m /\ HasPath(v.m[Head(path)], Tail(path))
    \/ v.is = "array" /\ \E i \in DOMAIN v.items : ToString(i) = Head(path) /\ HasPath(v.items[i], Tail(path))

(* What a device acts on it has read every critical member of, however     *)
(* deep (envelope.rs, read).                                               *)
CriticalIsRead ==
    \A s \in sent, t \in taken : t.is = "message" =>
        \A path \in Critical(s, <<>>) : HasPath(Obj(to_map(t.message)), path)

(* A member nobody here knows, in lower case, changes nothing of what is   *)
(* read: not whether it is acted on, nor as what.                          *)
LeavingOut(s, name) == Sent(SelectSeq(s.entries, LAMBDA e : e.name # name))
UnknownIsIgnored ==
    \A s \in sent, t \in taken : s.is = "sent" =>
        \A i \in DOMAIN s.entries :
            s.entries[i].name = "unheard-of" /\ s.entries[i].case = "lower" /\ WellNamed(s)
            => t = read(LeavingOut(s, "unheard-of"))

(* A message one end writes the other reads as the message it was, under   *)
(* whatever it pins critical (messages.rs, round_trip_omissions).          *)
WrittenIsRead == \A t \in taken, m \in relayed : t = m

MessagesAreUnderstood == CriticalIsRead /\ UnknownIsIgnored /\ WrittenIsRead

(* A critical member not recognised within a part of a message leaves that *)
(* part unusable and the rest read (messages.md:134).                      *)
NestedIsPartial ==
    \A t \in taken : t.is = "refused" => \E path \in t.members : Len(path) = 1
=============================================================================
