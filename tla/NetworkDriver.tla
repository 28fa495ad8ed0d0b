---------------------------- MODULE NetworkDriver ----------------------------
(***************************************************************************)
(* The task driving the running system: crates/bliti/src/network/stack/.   *)
(*                                                                         *)
(* The driver owns the selector of NetworkSelect. It takes a command, an   *)
(* observation or the result of something it started, feeds the selector,  *)
(* follows what changed, and before it takes the next renders and applies  *)
(* the decision (kick), answers the command waiting (settle) and starts or *)
(* stops looking for better networks (sweep). What it starts runs beside   *)
(* it and comes back in any order: an apply, scans, joins, gateway probes, *)
(* deadlines, retries and a probe of the radios.                           *)
(*                                                                         *)
(* The counts of renders wanted, taken and done are only compared, so they *)
(* are kept as what the comparisons say. Durations are left out: whatever  *)
(* waits comes about at some time. What the code drops where it takes it   *)
(* in (a result against an attempt no longer checked, a deadline           *)
(* superseded, the wait of a sweep stopped) is not kept here.              *)
(***************************************************************************)
EXTENDS NetworkSelect, FiniteSetsExt

CONSTANTS
    Body,         \* by a candidate's body: its address, whether it is verified, what it puts on its link
    Domain,       \* the regulatory domain of each document
    Found,        \* what may be up already: each link, the carriers and what each radio hears
    Barred,       \* the channels no access point may start on
    MaxCommands,  \* bound: commands taken
    MaxHappens    \* bound: changes observed, applies failed and candidates tried again

ASSUME DriverAssumption ==
    /\ \A doc \in Configurations : Check(doc) /\ \A n \in DOMAIN doc.attachments :
         doc.attachments[n].body \in DOMAIN Body
    /\ \A b \in DOMAIN Body : "gateway" # Body[b].address
    /\ Barred \subseteq Channels
    /\ DOMAIN Domain = Configurations
    /\ {MaxCommands, MaxHappens} \subseteq Nat
    /\ IsFiniteSet(Ssids)
    /\ \A found \in Found : found.carrier \subseteq WiredSet

VARIABLES
    d,      \* the Driver, what it has started and what it has answered
    happened  \* how much of MaxHappens is spent

vars == <<d, happened>>

(* What a link may hold: addresses, "lease" standing for any with a        *)
(* lifetime, and a default gateway.                                        *)
Addresses == {Body[b].address : b \in DOMAIN Body} \cup {"lease"}

NoCandidate == [kind |-> "none", on |-> "none", ssid |-> "none", hidden |-> FALSE,
                enabled |-> FALSE, body |-> 0]
NoPending == [kind |-> "none", generation |-> 0, changed |-> {}, render |-> "wanted"]
NoLinks == [i \in Interfaces |-> [candidate |-> 0, attempt |-> 0]]
NoApply == [runs |-> FALSE, generation |-> 0, links |-> NoLinks,
            domain |-> "none"]
NoConf == [radio |-> "none", channel |-> "none"]
Unanswered == [is |-> "none", render |-> 0]
NotConnected == [ssid |-> "none", channel |-> "none"]

NewDriver ==
    [sel |-> NewSelector,
     configured |-> FALSE,
     generation |-> 0,
     wants |-> FALSE,                                \* taken < wanted
     apply |-> NoApply,                              \* the apply running, which has the system
     inPlace |-> NoApply,                            \* the last apply that ended well
     reprobing |-> FALSE, again |-> FALSE,
     scanning |-> [r \in RadioSet |-> 0],            \* scans the pending proposal waits on
     hotspotScanning |-> "none",
     conf |-> NoConf,                                \* hostapd's configuration as last rendered
     bounce |-> "none",
     pending |-> NoPending,
     links |-> [i \in Interfaces |-> {}],
     stations |-> [r \in RadioSet |-> NotConnected],
     checks |-> << >>,                               \* by attempt
     last |-> [i \in Interfaces |-> [ever |-> FALSE, was |-> NoCandidate]],
     failed |-> {},
     placed |-> << >>,                               \* by rank
     sweeps |-> [r \in RadioSet |-> 0],              \* the token of each radio's sweep, 0 for none
     swept |-> 0,
     \* what is out
     scans |-> [r \in RadioSet |-> 0],
     rescans |-> {}, joins |-> {}, rejoins |-> {}, operating |-> {}, deadlines |-> {}, probes |-> {},
     retries |-> {}, waits |-> {}, looks |-> {},
     \* what each command was answered, by its generation, and on which render
     answers |-> [g \in 1..MaxCommands |-> Unanswered]]

(* The observers say what they find before the first command is taken.     *)
Init ==
    /\ \E found \in Found :
         d = [NewDriver EXCEPT !.links = found.links, !.sel.carrier = found.carrier,
                               !.sel.heard = [r \in RadioSet |-> [s \in Ssids |->
                                                IF s \in found.heard[r] THEN 1 ELSE 0]]]
    /\ happened = 0
-----------------------------------------------------------------------------
(* verify.rs: what one attempt looks for on its link.                      *)
Of(x, check) == Candidate(x.sel, check.candidate)
Address(c) == IF IsWireless(c) THEN "lease" ELSE Body[c.body].address

(* Addressing is static where the address is configured; what was on the   *)
(* link before a dynamic attempt is not its own until announced again.     *)
HoldsAddress(x, check) ==
    LET a == Address(Of(x, check)) IN
    a \in x.links[check.on] /\ (a = "lease" => a \notin check.stale)

KnowsGateway(x, check) ==
    /\ HoldsAddress(x, check)
    /\ Address(Of(x, check)) = "lease" =>
         "gateway" \in x.links[check.on] /\ "gateway" \notin check.stale

SameLink(a, b) ==
    /\ [a EXCEPT !.enabled = TRUE, !.body = 0] = [b EXCEPT !.enabled = TRUE, !.body = 0]
    /\ Body[a.body].link = Body[b.body].link

NewCheck(candidate, i, at, stale) ==
    [candidate |-> candidate, on |-> i, at |-> at, armed |-> FALSE, awaits |-> FALSE,
     stale |-> stale, probing |-> FALSE, timer |-> 0]

(* Decision::links, and the attempts in them.                              *)
LinksOf(s) == [i \in Interfaces |-> [candidate |-> s.held[i].candidate, attempt |-> s.held[i].attempt]]
AttemptsIn(links) == {links[i].attempt : i \in {j \in Interfaces : links[j].candidate # 0}}
Attempts(s) == AttemptsIn(LinksOf(s))
-----------------------------------------------------------------------------
(* begin: what the link holds is not a new attempt's own, unless the       *)
(* interface last brought up the same or nothing ever.                     *)
Stale(x, i, c) ==
    IF ~x.last[i].ever \/ (x.last[i].was # NoCandidate /\ SameLink(x.last[i].was, c)) THEN {}
    ELSE x.links[i]

Begins(x, new, i) ==
    NewCheck(new.held[i].candidate, i, new.held[i].at,
             Stale(x, i, Candidate(new, new.held[i].candidate)))

Moved(old, new) ==
    {i \in Interfaces : \/ old.held[i].candidate # new.held[i].candidate
                        \/ old.held[i].attempt # new.held[i].attempt}

FollowLinks(x, new, moved, kept, begun) ==
    [x EXCEPT !.sel = new,
              !.checks = [a \in kept \cup {new.held[i].attempt : i \in begun} |->
                  IF a \in kept THEN @[a]
                  ELSE Begins(x, new, CHOOSE i \in begun : new.held[i].attempt = a)],
              !.wants = @ \/ moved # {} \/ x.sel.hotspot # new.hotspot,
              !.last = [i \in Interfaces |->
                  IF i \in begun THEN [ever |-> TRUE, was |-> Candidate(new, new.held[i].candidate)]
                  ELSE @[i]],
              !.placed = [rank \in DOMAIN @ |->
                  IF \E i \in begun : i \in RadioSet /\ new.held[i].candidate = rank
                  THEN CHOOSE i \in begun : new.held[i].candidate = rank
                  ELSE @[rank]]]

FollowMoved(x, new, moved) ==
    FollowLinks(x, new, moved,
        {a \in DOMAIN x.checks : x.checks[a].on \in moved => On(new, a) = {x.checks[a].on}},
        {i \in moved : new.held[i].candidate # 0 /\ new.held[i].attempt \notin DOMAIN x.checks})

(* follow: a link changed drops the checks on its interface but the one    *)
(* of its attempt, and begins one for an attempt new to it. `said' are the *)
(* candidates whose state is reported.                                     *)
Follow(x, new, said) ==
    [FollowMoved(x, new, Moved(x.sel, new)) EXCEPT !.failed = @ \cup
        {rank \in said : StateOf(new, rank).is = "unavailable" /\ StateOf(new, rank).at # Carrier}]

(* feed: a state is reported where it changed.                             *)
Feed(x, new) == Follow(x, new, {rank \in Ranks(new) : StateOf(x.sel, rank) # StateOf(new, rank)})

Failed(x, a, stage) == Feed(x, FailedStage(x.sel, a, stage))
Passed(x, a, stage) == Feed(x, PassedStage(x.sel, a, stage))

(* A candidate the document no longer brings up lets go of its interface.  *)
StillBroughtUp(doc, was) ==
    \E n \in DOMAIN doc.attachments :
        doc.attachments[n].enabled /\ SameLink(doc.attachments[n], was)

(* What is carried over keeps its check under its new rank.                *)
Reranked(x, new) ==
    [a \in DOMAIN x.checks \cap Attempts(new) |->
        [x.checks[a] EXCEPT !.candidate = new.held[CHOOSE i \in On(new, a) : TRUE].candidate]]

ConfigureWith(x, doc, new) ==
    Follow([x EXCEPT !.configured = TRUE,
                     !.generation = @ + 1,
                     !.failed = {},
                     !.placed = [n \in DOMAIN doc.attachments |-> "none"],
                     !.wants = TRUE,
                     !.checks = Reranked(x, new),
                     !.last = [i \in Interfaces |->
                         IF @[i].was = NoCandidate \/ StillBroughtUp(doc, @[i].was) THEN @[i]
                         ELSE [@[i] EXCEPT !.was = NoCandidate]]],
           new, IF doc = x.sel.doc THEN {} ELSE Ranks(new))

ConfigureDriver(x, doc) == ConfigureWith(x, doc, Configure(x.sel, doc))

Wireless(doc) == \E n \in DOMAIN doc.attachments :
    doc.attachments[n].enabled /\ IsWireless(doc.attachments[n])

ScanForPending(x) ==
    IF ~Wireless(x.sel.doc) THEN x
    ELSE [x EXCEPT !.scanning = [r \in RadioSet |-> @[r] + 1],
                   !.scans = [r \in RadioSet |-> @[r] + 1]]
-----------------------------------------------------------------------------
(* attempt.rs: verifying one attempt.                                      *)
(* deadline: the stage it bounds is kept beside it, for DeadlineIsStages.  *)
Deadline(x, a) ==
    IF a \notin DOMAIN x.checks THEN x
    ELSE LET timer == x.checks[a].timer + 1 IN
         [x EXCEPT !.checks[a].timer = timer,
                   !.deadlines = @ \cup {<<a, timer, x.checks[a].at>>}]

AsksGateway(x, a) ==
    IF \/ a \notin DOMAIN x.checks
       \/ x.checks[a].at # Gateway \/ x.checks[a].probing \/ ~KnowsGateway(x, x.checks[a]) THEN x
    ELSE [x EXCEPT !.checks[a] = [x.checks[a] EXCEPT !.probing = TRUE, !.timer = @ + 1], !.probes = @ \cup {a}]

(* Mutant of Evaluate: a stage passed does not supersede its deadline.     *)
EvaluateKeepsTimer(x, a) ==
    IF a \notin DOMAIN x.checks \/ ~x.checks[a].armed THEN x
    ELSE LET check == x.checks[a] IN
         CASE check.at = Addressing /\ HoldsAddress(x, check) ->
                LET y == [x EXCEPT !.checks[a].at = Gateway]
                IN AsksGateway(Passed(y, a, Addressing), a)
           [] check.at = Gateway -> AsksGateway(x, a)
           [] check.at = Established /\ ~HoldsAddress(x, check) -> Failed(x, a, Addressing)
           [] OTHER -> x

(* An attempt that has its address looks for its gateway, within a deadline *)
(* of its own.                                                             *)
Addressed(x, a) ==
    LET y == [x EXCEPT !.checks[a] = [x.checks[a] EXCEPT !.at = Gateway, !.timer = @ + 1]]
    IN AsksGateway(Deadline(Passed(y, a, Addressing), a), a)

(* evaluate: move an attempt on as far as what its link holds takes it.    *)
Evaluate(x, a) ==
    IF a \notin DOMAIN x.checks \/ ~x.checks[a].armed THEN x
    ELSE LET check == x.checks[a] IN
         CASE check.at = Addressing /\ HoldsAddress(x, check) -> Addressed(x, a)
           [] check.at = Gateway -> AsksGateway(x, a)
           [] check.at = Established /\ ~HoldsAddress(x, check) -> Failed(x, a, Addressing)
           [] OTHER -> x

(* station_channel: where iwd does not say, nl80211 is asked.              *)
TakesChannel(x, r, channel) ==
    IF channel = "none" THEN [x EXCEPT !.operating = @ \cup {r}]
    ELSE Feed(x, StationChannel(x.sel, r, channel))

(* associated: only an attempt still associating takes a join's answer. A  *)
(* join refused is laid at the passphrase once a scan says it is there.    *)
Associates(x, a, result, channel) ==
    IF a \notin DOMAIN x.checks \/ x.checks[a].at # Association THEN x
    ELSE CASE result = "joined" ->
                LET y == Passed([x EXCEPT !.checks[a].at = Addressing], a, Association)
                IN Evaluate(Deadline(TakesChannel(y, x.checks[a].on, channel), a), a)
           [] result = "refused" -> [x EXCEPT !.rescans = @ \cup {<<a, x.checks[a].on>>}]
           [] OTHER -> Failed(x, a, Association)

(* associate: a station already on the network has joined it.              *)
Associate(x, a) ==
    IF a \notin DOMAIN x.checks THEN x
    ELSE IF x.stations[x.checks[a].on].ssid = Of(x, x.checks[a]).ssid
         THEN Associates(x, a, "joined", x.stations[x.checks[a].on].channel)
         ELSE [x EXCEPT !.joins = @ \cup {a}]

(* arm: once the render bringing it up is applied. A first join waits for  *)
(* the proposal's scan of its radio.                                       *)
Arm(x, a) ==
    IF a \notin DOMAIN x.checks \/ x.checks[a].armed THEN x
    ELSE LET check == x.checks[a]
             y == [x EXCEPT !.checks[a].armed = TRUE]
         IN IF check.at = Association
            THEN IF x.scanning[check.on] > 0 THEN [y EXCEPT !.checks[a].awaits = TRUE]
                 ELSE Associate(y, a)
            ELSE IF check.at = Addressing THEN Evaluate(Deadline(y, a), a)
            ELSE Evaluate(y, a)
-----------------------------------------------------------------------------
(* hotspot.rs, and the part of kick that renders.                          *)
SharesChannel(r) == r \in RadioSet /\ Alongside[r] = "shared"

HotspotAwaitsScan(x) ==
    LET r == x.sel.hotspot.radio IN
    IF SharesChannel(r) /\ x.scanning[r] > 0 /\ MayShare(x.sel.doc, r) THEN r ELSE "none"

(* The hotspot a selection renders: none while it waits for the channel of *)
(* the client it follows.                                                  *)
Renders(x) == IF x.sel.hotspot.follows # 0 /\ x.sel.hotspot.channel = "none" THEN "none"
              ELSE x.sel.hotspot.radio

HotspotBarred(x, r) == SharesChannel(r) /\ Associated(x.sel, r) \in Barred

Says(x, is, render) ==
    IF x.pending.kind = "none" THEN x
    ELSE [x EXCEPT !.pending = NoPending,
                   !.answers[x.pending.generation] = [is |-> is, render |-> render]]

(* failed: whatever waits is answered, on the render of that generation.   *)
Fails(x, generation) == Says(x, "failed", generation)

(* The station the hotspot starting or moving is to knock off, once.       *)
Bounced(x, conf) ==
    IF SharesChannel(conf.radio) /\ conf.channel # "none" /\ conf # x.conf THEN conf.radio ELSE "none"

TakesRender(x, awaits, conf) ==
    [x EXCEPT !.wants = FALSE,
              !.pending.render = IF x.pending.kind # "none" /\ @ = "wanted" THEN "taken" ELSE @,
              !.hotspotScanning = awaits,
              !.bounce = Bounced(x, conf),
              !.conf = conf,
              !.apply = [runs |-> TRUE, generation |-> x.generation, links |-> LinksOf(x.sel),
                         domain |-> Domain[x.sel.doc]]]

(* A hotspot that may not run where its client is fails what waits.        *)
RendersOn(x, awaits, radio) ==
    IF HotspotBarred(x, radio) THEN TakesRender(Fails(x, x.generation), awaits, NoConf)
    ELSE TakesRender(x, awaits, [radio |-> radio,
                                 channel |-> IF radio = "none" THEN "none" ELSE Associated(x.sel, radio)])

(* kick: render and apply the decision where it changed and no apply runs, *)
(* the hotspot left out while it awaits its scan.                          *)
KickAwaiting(x, awaits) == RendersOn(x, awaits, IF awaits # "none" THEN "none" ELSE Renders(x))

Kick(x) == IF ~x.configured \/ ~x.wants \/ x.apply.runs THEN x
           ELSE KickAwaiting(x, HotspotAwaitsScan(x))
-----------------------------------------------------------------------------
(* verdict.rs: what a proposal comes to.                                   *)
Changed(replacing, doc) == {n \in DOMAIN doc.attachments : CarriedFrom(replacing, doc)[n] = 0}

Judged(x) ==
    {n \in x.pending.changed : LET c == Candidate(x.sel, n) IN c.enabled /\ Body[c.body].verify}

JudgedOn(x, n) ==
    LET c == Candidate(x.sel, n) IN
    IF c.on # "any" THEN {c.on}
    ELSE IF Current(x.sel, n) # {} THEN Current(x.sel, n)
    ELSE IF x.placed[n] # "none" THEN {x.placed[n]}
    ELSE RadioSet

UpOn(x, i) == x.sel.held[i].candidate # 0 /\ x.sel.held[i].at = Established

Verdict(x) == IF \A n \in Judged(x) : \E i \in JudgedOn(x, n) : UpOn(x, i) THEN "ok" ELSE "failed"

Verifying(x) == \E i \in Interfaces : x.sel.held[i].candidate # 0 /\ x.sel.held[i].at # Established

(* Mutant of Answerable: what is applied beside it is not waited for.      *)
AnswerableEarly(x) ==
    /\ x.pending.kind # "none" /\ x.pending.render = "done" /\ ~x.reprobing
    /\ x.pending.kind = "apply" => ~Verifying(x) /\ \A r \in RadioSet : x.scanning[r] = 0

(* answer: what the pending command waits on has come about.               *)
Answerable(x) ==
    /\ x.pending.kind # "none" /\ x.pending.render = "done" /\ ~x.reprobing
    /\ x.pending.kind = "apply" =>
         /\ ~Verifying(x)
         /\ ~x.apply.runs /\ ~x.wants
         /\ \A r \in RadioSet : x.scanning[r] = 0

Answers(x) ==
    IF ~Answerable(x) THEN x
    ELSE Says(x, IF x.pending.kind = "restore" THEN "ok" ELSE Verdict(x), x.inPlace.generation)

(* retry_later: once nothing is pending, what failed is to be tried again. *)
RetryLater(x) ==
    IF x.pending.kind # "none" THEN x
    ELSE [x EXCEPT !.retries = @ \cup {<<n, x.generation>> : n \in x.failed}, !.failed = {}]

SettleDriver(x) == RetryLater(Answers(x))
-----------------------------------------------------------------------------
(* sweep.rs: looking for a network above the one in force.                 *)
Above(x, route) == IF route = 0 THEN Ranks(x.sel) ELSE 1..(route - 1)

Unheard(x, n) ==
    /\ IsWireless(Candidate(x.sel, n)) /\ Candidate(x.sel, n).enabled
    /\ Hearing(x.sel, Candidate(x.sel, n)) = {}

Sweeping(x) ==
    {r \in RadioSet : x.configured /\ \E n \in Above(x, DefaultRoute(x.sel)) :
        /\ Unheard(x, n)
        /\ r \in RadiosFor(Candidate(x.sel, n).on) /\ x.sel.held[r].candidate \notin 1..n}

(* Each sweep has a token of its own, in the order of the radios.          *)
Token(x, begun, r) ==
    x.swept + Cardinality({n \in DOMAIN RadioOrder : RadioOrder[n] \in begun
                             /\ \E m \in n..Len(RadioOrder) : RadioOrder[m] = r})

SweepOn(x, wanted, begun) ==
    [x EXCEPT !.sweeps = [r \in RadioSet |-> IF r \in begun THEN Token(x, begun, r)
                                             ELSE IF r \in wanted THEN @[r] ELSE 0],
              !.swept = @ + Cardinality(begun),
              !.waits = @ \cup {<<r, Token(x, begun, r)>> : r \in begun}]

SweepAmong(x, wanted) == SweepOn(x, wanted, {r \in wanted : x.sweeps[r] = 0})

Sweep(x) == SweepAmong(x, Sweeping(x))

(* What the code drops where it takes it in.                               *)
Forgets(x) ==
    [x EXCEPT !.joins = @ \cap DOMAIN x.checks, !.rejoins = @ \cap DOMAIN x.checks,
              !.probes = @ \cap DOMAIN x.checks,
              !.deadlines = {t \in @ : t[1] \in DOMAIN x.checks /\ x.checks[t[1]].timer = t[2]},
              !.waits = {w \in @ : x.sweeps[w[1]] = w[2]}]

(* What the loop does before it takes the next.                            *)
Turn(x) == Forgets(Sweep(SettleDriver(Kick(x))))

Becomes(x) == d' = Turn(x)
Happens == happened < MaxHappens /\ happened' = happened + 1
-----------------------------------------------------------------------------
(* command. Stack::check has refused what the selector or the renderer     *)
(* would; a command overtaking another leaves it without an answer.        *)
Overtakes(kind, changed, x) ==
    [x EXCEPT !.pending = [kind |-> kind, generation |-> x.generation, changed |-> changed,
                           render |-> "wanted"],
              !.answers = IF x.pending.kind = "none" THEN @
                          ELSE [@ EXCEPT ![x.pending.generation] = [is |-> "dropped", render |-> 0]]]

Applies(doc, replacing) ==
    /\ d.generation < MaxCommands /\ d.pending.kind # "restore"
    /\ Becomes(ScanForPending(Overtakes("apply", Changed(replacing, doc), ConfigureDriver(d, doc))))
    /\ UNCHANGED happened

(* Only what the daemon starts with is restored, before anything is        *)
(* proposed.                                                               *)
Restores(doc) ==
    /\ d.generation = 0
    /\ Becomes(Overtakes("restore", {}, ConfigureDriver(d, doc)))
    /\ UNCHANGED happened
-----------------------------------------------------------------------------
(* observe.                                                                *)
SeesCarrier(i, up) ==
    /\ up # (i \in d.sel.carrier)
    /\ Happens
    /\ Becomes(Feed(d, IF up THEN CarrierUp(d.sel, i) ELSE CarrierDown(d.sel, i)))

(* An address or a route announced is its attempt's own from here on.      *)
SeesOnLink(i, thing, present) ==
    /\ present # (thing \in d.links[i])
    /\ Happens
    /\ LET on == {a \in DOMAIN d.checks : d.checks[a].on = i}
           x == [d EXCEPT !.links[i] = IF present THEN @ \cup {thing} ELSE @ \ {thing},
                          !.checks = [a \in DOMAIN @ |-> IF a \in on /\ present
                                        THEN [d.checks[a] EXCEPT !.stale = @ \ {thing}] ELSE @[a]]]
       IN Becomes(FoldSet(LAMBDA a, y : Evaluate(y, a), x, on))

(* heard: only a finished scan takes a network out of range.               *)
HeardNow(x, r, before, ssids, scanned) ==
    FoldSet(LAMBDA s, y : Feed(y, IF s \in ssids THEN InRange(y.sel, r, s, 1) ELSE OutOfRange(y.sel, r, s)),
            x, (ssids \ before) \cup (IF scanned THEN before \ ssids ELSE {}))

Heard(x, r, ssids, scanned) == HeardNow(x, r, {s \in Ssids : x.sel.heard[r][s] > 0}, ssids, scanned)

Hears(r, ssids) ==
    /\ \E s \in ssids : d.sel.heard[r][s] = 0
    /\ Happens
    /\ Becomes(Heard(d, r, ssids, FALSE))

(* station: an attempt that has associated fails where its station is      *)
(* disassociated, unless the hotspot starting beside it is to have done it. *)
SeesStation(r, station) ==
    /\ station # d.stations[r]
    /\ Happens
    /\ LET x == [d EXCEPT !.stations[r] = station]
           on == {a \in DOMAIN d.checks : LET c == d.checks[a] IN
                     c.on = r /\ c.armed /\ c.at > Association}
       IN IF on = {} THEN Becomes(x)
          ELSE LET a == CHOOSE a \in on : TRUE IN
               IF station.ssid = Of(d, d.checks[a]).ssid THEN Becomes(TakesChannel(x, r, station.channel))
               ELSE IF station # NotConnected THEN Becomes(x)
               ELSE IF d.bounce = r
                    THEN Becomes([x EXCEPT !.bounce = "none", !.rejoins = @ \cup {a}])
                    ELSE Becomes(Failed(x, a, Association))

SeesRegulatory ==
    /\ Happens
    /\ Becomes(IF d.reprobing THEN [d EXCEPT !.again = TRUE] ELSE [d EXCEPT !.reprobing = TRUE])
-----------------------------------------------------------------------------
(* internal: what comes back of what was started.                          *)
Arms(x, as) == FoldSet(LAMBDA a, y : Arm(y, a), x, as)

(* Mutant of Ended: the render applied is not counted as done.             *)
EndedUncounted(x) == [x EXCEPT !.apply = NoApply]

Ended(x) == [x EXCEPT !.apply = NoApply, !.pending.render = IF @ = "taken" THEN "done" ELSE @]

(* An apply that changed the domain has the radios probed again, and has   *)
(* restarted iwd: the scans under way are aborted, so a proposal scans     *)
(* again. Then what it brought up is armed.                                *)
Probes(x, domain) ==
    IF ~domain THEN x
    ELSE IF x.pending.kind = "apply" THEN ScanForPending([x EXCEPT !.reprobing = TRUE])
    ELSE [x EXCEPT !.reprobing = TRUE]

Applied ==
    /\ d.apply.runs
    /\ Becomes(Arms(Probes([Ended(d) EXCEPT !.inPlace = [d.apply EXCEPT !.runs = FALSE]],
                           d.apply.domain # d.inPlace.domain),
                    AttemptsIn(d.apply.links)))
    /\ UNCHANGED happened

(* One that failed, before or after writing the domain, answers whatever   *)
(* waits, whichever render it waits on.                                    *)
NotApplied(domain) ==
    /\ d.apply.runs
    /\ Happens
    /\ Becomes(Arms(Fails([Ended(d) EXCEPT !.inPlace.domain = domain], d.apply.generation),
                    AttemptsIn(d.apply.links)))

Reprobed ==
    /\ d.reprobing
    /\ Becomes([d EXCEPT !.again = FALSE, !.reprobing = d.again])
    /\ UNCHANGED happened

(* What a scan found: what was heard before, or a change, or nothing where *)
(* it failed.                                                              *)
Finds(x, r, ssids) ==
    \/ UNCHANGED happened /\ ssids = {s \in Ssids : x.sel.heard[r][s] > 0}
    \/ Happens /\ ssids # {s \in Ssids : x.sel.heard[r][s] > 0}

(* scanned_for_pending: the hotspot held back is rendered, and the joins   *)
(* waiting go ahead, once no scan of the radio is left.                    *)
Released(x, waiting) ==
    FoldSet(LAMBDA a, w : Associate(w, a),
            [x EXCEPT !.checks = [a \in DOMAIN @ |->
                IF a \in waiting THEN [@[a] EXCEPT !.awaits = FALSE] ELSE @[a]]],
            waiting)

ReleaseOn(x, r) == Released(x, {a \in DOMAIN x.checks : x.checks[a].on = r /\ x.checks[a].awaits})

LastScanned(x, r) ==
    ReleaseOn(IF x.hotspotScanning = r THEN Kick([x EXCEPT !.wants = TRUE]) ELSE x, r)

ScannedForPending(x, r) ==
    IF x.scanning[r] = 0 THEN x
    ELSE IF x.scanning[r] > 1 THEN [x EXCEPT !.scanning[r] = @ - 1]
    ELSE LastScanned([x EXCEPT !.scanning[r] = 0], r)

Scanned(r, ssids) ==
    /\ d.scans[r] > 0
    /\ Finds(d, r, ssids)
    /\ Becomes(ScannedForPending(Heard([d EXCEPT !.scans[r] = @ - 1], r, ssids, TRUE), r))

(* swept_on and sweep_now: only for the sweep whose token it is.           *)
SweepsOn(x, look) ==
    IF x.sweeps[look[1]] = look[2] THEN [x EXCEPT !.waits = @ \cup {look}] ELSE x

SweptOn(look, ssids) ==
    /\ look \in d.looks
    /\ Finds(d, look[1], ssids)
    /\ Becomes(SweepsOn(Heard([d EXCEPT !.looks = @ \ {look}], look[1], ssids, TRUE), look))

SweepNow(wait) ==
    /\ wait \in d.waits
    /\ LET x == [d EXCEPT !.waits = @ \ {wait}] IN
       Becomes([x EXCEPT !.looks = @ \cup {wait}])
    /\ UNCHANGED happened

(* rescanned: a network still heard refused the key it was given.          *)
Refused(x, a) ==
    IF a \in DOMAIN x.checks /\ x.checks[a].at = Association THEN Failed(x, a, Association) ELSE x

Rescanned(rescan, ssids) ==
    /\ rescan \in d.rescans
    /\ Finds(d, rescan[2], ssids)
    /\ Becomes(Refused(Heard([d EXCEPT !.rescans = @ \ {rescan}], rescan[2], ssids, TRUE), rescan[1]))

Joined(a, result, channel) ==
    /\ a \in d.joins
    /\ Becomes(Associates([d EXCEPT !.joins = @ \ {a}], a, result, channel))
    /\ UNCHANGED happened

Rejoined(a, ok, channel) ==
    /\ a \in d.rejoins
    /\ LET x == [d EXCEPT !.rejoins = @ \ {a}] IN
       Becomes(IF ok THEN TakesChannel(x, x.checks[a].on, channel) ELSE Failed(x, a, Association))
    /\ UNCHANGED happened

(* The channel read may be that of a client gone since.                    *)
Operating(r, channel) ==
    /\ r \in d.operating
    /\ LET x == [d EXCEPT !.operating = @ \ {r}] IN
       Becomes(IF channel = "none" THEN x ELSE Feed(x, StationChannel(x.sel, r, channel)))
    /\ UNCHANGED happened

DeadlinePassed(t) ==
    /\ t \in d.deadlines
    /\ LET x == [d EXCEPT !.deadlines = @ \ {t}]
           check == x.checks[t[1]]
       IN Becomes(IF check.probing \/ check.at \notin {Addressing, Gateway} THEN x
                  ELSE Failed(x, t[1], check.at))
    /\ UNCHANGED happened

(* probed: only the stage is looked at again, not the address.             *)
Probed(a, ok) ==
    /\ a \in d.probes
    /\ LET x == [d EXCEPT !.probes = @ \ {a}, !.checks[a].probing = FALSE] IN
       Becomes(IF x.checks[a].at # Gateway THEN x
               ELSE IF ok THEN Passed([x EXCEPT !.checks[a].at = Established], a, Gateway)
               ELSE Failed(x, a, Gateway))
    /\ UNCHANGED happened

WorthRetrying(x, n) ==
    /\ n \in Ranks(x.sel)
    /\ LET c == Candidate(x.sel, n) IN
       \E i \in IF IsWireless(c) THEN RadiosFor(c.on) ELSE {c.on} : ~UpOn(x, i)

Retries(retry) ==
    /\ retry \in d.retries
    /\ Happens
    /\ LET x == [d EXCEPT !.retries = @ \ {retry}] IN
       Becomes(IF retry[2] = x.generation /\ WorthRetrying(x, retry[1])
               THEN Feed(x, Retried(x.sel, retry[1])) ELSE x)
-----------------------------------------------------------------------------
Stations == [ssid : Ssids, channel : Channels \cup {"none"}] \cup {NotConnected}

Commands == \E doc \in Configurations :
    Restores(doc) \/ \E replacing \in {d.sel.doc, EmptyDocument} : Applies(doc, replacing)

(* What some candidate looks for on a link: nothing tells apart what else  *)
(* it may hold.                                                            *)
Sought(i) ==
    LET ons == UNION {{doc.attachments[n] : n \in DOMAIN doc.attachments} : doc \in Configurations}
        here == {c \in ons : c.on = i \/ (IsWireless(c) /\ i \in RadiosFor(c.on))}
    IN {Address(c) : c \in here} \cup {"gateway" : c \in {b \in here : Address(b) = "lease"}}

Observes ==
    \/ \E i \in WiredSet, up \in BOOLEAN : SeesCarrier(i, up)
    \/ \E i \in Interfaces, present \in BOOLEAN : \E thing \in Sought(i) : SeesOnLink(i, thing, present)
    \/ \E r \in RadioSet, ssids \in SUBSET Ssids : Hears(r, ssids)
    \/ \E r \in RadioSet, station \in Stations : SeesStation(r, station)
    \/ SeesRegulatory

ApplyEnds == Applied \/ \E domain \in {d.inPlace.domain, d.apply.domain} : NotApplied(domain)
JoinEnds(a) == \E channel \in Channels \cup {"none"} :
    \/ \E result \in {"joined", "refused", "failed"} : Joined(a, result, channel)
    \/ \E ok \in BOOLEAN : Rejoined(a, ok, channel)
ScanEnds(r) == \E ssids \in SUBSET Ssids :
    Scanned(r, ssids) \/ \E rescan \in d.rescans : rescan[2] = r /\ Rescanned(rescan, ssids)
LookEnds == \E look \in d.looks, ssids \in SUBSET Ssids : SweptOn(look, ssids)
ProbeEnds(a) == \E ok \in BOOLEAN : Probed(a, ok)
DeadlineOf(a) == \E t \in d.deadlines : t[1] = a /\ DeadlinePassed(t)

Internal ==
    \/ ApplyEnds \/ Reprobed \/ LookEnds
    \/ \E r \in RadioSet : ScanEnds(r) \/ \E channel \in Channels \cup {"none"} : Operating(r, channel)
    \/ \E a \in DOMAIN d.checks : JoinEnds(a) \/ ProbeEnds(a) \/ DeadlineOf(a)
    \/ \E wait \in d.waits : SweepNow(wait)
    \/ \E retry \in d.retries : Retries(retry)

Next == Commands \/ Observes \/ Internal
Spec == Init /\ [][Next]_vars
-----------------------------------------------------------------------------
(* The driver verifies what the selector decided and nothing else: each    *)
(* link has one check, of its candidate at its rank now, on its interface, *)
(* waiting at the stage the selector has it at, through every reordering   *)
(* of the document (driver.rs, configure and follow).                      *)
ChecksFollow ==
    /\ DOMAIN d.checks = Attempts(d.sel)
    /\ \A a \in DOMAIN d.checks : \A i \in On(d.sel, a) :
         /\ d.checks[a].on = i
         /\ d.checks[a].candidate = d.sel.held[i].candidate
         /\ d.checks[a].at = d.sel.held[i].at

(* An attempt stays one attempt at one candidate on one interface whatever *)
(* is configured, so a result against it is never taken for another        *)
(* candidate's (select.rs, configure and its carrying over).               *)
AttemptIsOneCandidates ==
    \A i, j \in Interfaces :
        (d.sel.held[i].candidate # 0 /\ d'.sel.held[j].candidate # 0
            /\ d.sel.held[i].attempt = d'.sel.held[j].attempt) =>
                /\ i = j
                /\ Candidate(d.sel, d.sel.held[i].candidate)
                     = Candidate(d'.sel, d'.sel.held[j].candidate)

(* No attempt is left waiting on nothing: one not yet armed has a render   *)
(* to come, one associating a join, a scan of the proposal's or the scan   *)
(* after a refusal, and one past it its probe or a deadline that is still  *)
(* its own (driver.rs, kick; attempt.rs, arm; sweep.rs,                    *)
(* scanned_for_pending).                                                   *)
AttemptMovesOn ==
    \A a \in DOMAIN d.checks :
        LET c == d.checks[a] IN
        \/ c.at = Established
        \/ ~c.armed /\ (d.wants \/ (d.apply.runs /\ a \in AttemptsIn(d.apply.links)))
        \/ /\ c.at = Association
           /\ \/ a \in d.joins
              \/ c.awaits /\ d.scans[c.on] > 0
              \/ <<a, c.on>> \in d.rescans
        \/ c.at = Gateway /\ c.probing /\ a \in d.probes
        \/ \E t \in d.deadlines : t[1] = a /\ ~c.probing

(* A deadline that can still fail its attempt is the one set for the stage *)
(* the attempt is at: a stage passed as its deadline fired is not failed   *)
(* by it (attempt.rs, deadline_passed).                                    *)
DeadlineIsStages ==
    \A t \in d.deadlines :
        LET c == d.checks[t[1]] IN
        (~c.probing /\ c.at # Established) => c.at = t[3]

(* A command answered well is in force: what was last applied is its own   *)
(* document's, and for a proposal every link the selector has now          *)
(* (driver.rs, answer).                                                    *)
VerifiedInPlace ==
    \A g \in 1..MaxCommands :
        (d'.answers[g].is = "ok" /\ d.answers[g].is # "ok") =>
            /\ d'.inPlace.generation = g
            /\ d.pending.kind = "apply" => d'.inPlace.links = LinksOf(d'.sel)

(* What was verified is what is in place: no result is taken for another   *)
(* candidate's, and no command is answered before it is in force.          *)
VerifiedIsInForce == [][AttemptIsOneCandidates /\ VerifiedInPlace]_vars

(* A radio being swept has one wait or one scan of that sweep under way:   *)
(* it never stops looking while it has something to look for, and a sweep  *)
(* stopped and started again does not look twice (sweep.rs, the tokens).   *)
SweepGoesOn ==
    \A r \in RadioSet : d.sweeps[r] # 0 =>
        Cardinality({w \in d.waits : w = <<r, d.sweeps[r]>>})
            + Cardinality({l \in d.looks : l = <<r, d.sweeps[r]>>}) = 1

(* A hotspot held back for a scan is rendered again once the scan is in    *)
(* (hotspot.rs, hotspot_awaits_scan; sweep.rs, scanned_for_pending).       *)
HotspotNotForgotten ==
    d.hotspotScanning # "none" => d.scans[d.hotspotScanning] > 0 \/ d.wants

(* No command is left waiting on nothing: what keeps it from its answer is *)
(* an apply, a probe of the radios, a scan that is out, or an attempt      *)
(* being verified (driver.rs, answer; sweep.rs, scanned_for_pending).      *)
CommandMovesOn ==
    d.pending.kind # "none" =>
        \/ d.apply.runs \/ d.reprobing \/ Verifying(d)
        \/ \E r \in RadioSet : d.scans[r] > 0

(* The checks are the selector's links, and a deadline that can still fail *)
(* one is that of the stage it is at.                                      *)
ChecksAreCurrent == ChecksFollow /\ DeadlineIsStages

(* Nothing waits on nothing, in any order of scans, joins, probes, renders *)
(* and commands: not an attempt, a command, a hotspot held back or a       *)
(* sweep. Each has something under way that will come back to it.          *)
NothingIsStranded == AttemptMovesOn /\ CommandMovesOn /\ HotspotNotForgotten /\ SweepGoesOn

(* What driver.rs says of a command, that it waits to see its own render   *)
(* applied: it is not failed by the apply of a document before it.         *)
FailureIsOwn == \A g \in 1..MaxCommands : d.answers[g].is = "failed" => d.answers[g].render = g

(* What driver.rs says of its timers: a failed candidate whose interface   *)
(* is left with nothing established is to be tried again.                  *)
FailedIsRetried ==
    (d.configured /\ d.pending.kind = "none") => \A n \in Ranks(d.sel) :
        LET s == StateOf(d.sel, n) IN
        (s.is = "unavailable" /\ s.at # Carrier /\ WorthRetrying(d, n)) => <<n, d.generation>> \in d.retries
=============================================================================
