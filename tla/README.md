# A formal model of bliti

bliti puts a device on the air over Bluetooth Low Energy, lets an operator holding its QR code open
an authenticated channel to it, and through that channel configure its network, read what it reports
of itself, act on it, and, when it is booted from a provisioning medium, set the board up step by
step. This directory models the parts of it where order, failure and concurrency decide whether it
is right, checks them with TLC and proves what matters most with TLAPS.

Every module names the source it models; `PROJECT.json` maps each definition to its lines, lists
the runs, the properties with the mutant of the code that breaks each, the hazards the properties
are for, and the findings.

## The system

### Inventory

| component | source | state it keeps | what makes it hard | modules |
|---|---|---|---|---|
| Provisioning run | `provision/{run,model,context,step,store}.rs` | the run, its steps' reports, prompts and notices; the run kept on the medium; the task carrying it out | acts arrive under a lock while a spawned task awaits; blocking writes outlive the task that asked; power goes between any two steps | `ProvisionModel`, `ProvisionRun` |
| Provisioning steps | `provision/steps/**`, `bootloader`, `luks`, `storage`, `system` | the disk, its encryption, EEPROM, bootloader, overlay, software and sign-in | interrupted at any write and run again: each must resume or redo safely | `ProvisionSteps` |
| Provisioning stream, console and socket | `provision/{stream,session,socket}.rs`, `console/**` | one front end's view of the run; the question asked | several front ends drive one run; typing races progress | `ProvisionConsole` |
| Advertising window, USER button, LED | `provision/{window,button,led,daemon}.rs` | whether the device is on the air and until when; who is connected | a press, an expiry and a disconnection race each other and the radio going on and off the air | `FrontPanel` |
| Network selection | `network/select.rs`, `select/*`, core `capabilities/radios.rs` | which candidate is on which interface, at which stage; the hotspot's radio | reports against attempts already superseded; candidates and hotspot contend for radios | `NetworkSelect`, `NetworkSelector` |
| Network configuration session | `network/session.rs`, `session/*` | the configuration held, how it fares, the file; who holds it; what each client was told | watch channels wake sessions that are mid-write; proposals overtake each other; restart between record and verdict | `NetworkSession` |
| Network driver | `network/stack.rs`, `stack/driver.rs`, `driver/*`, `verify.rs` | attempts checked, renders asked, taken and done, scans and sweeps, deadlines | everything it starts answers later, perhaps for an attempt or document since replaced | `NetworkDriver` |
| Network applier and rendering | `network/apply.rs`, `apply/*`, `render/**` | the files put in place and the record of them | stops anywhere and has to pick up from the record | `NetworkRender`, `NetworkApply` |
| Network observers and probing | `network/{observe,probe}/**` | what the kernel and iwd were last told to be | two streams of changes taken in any order, a peer that dies and returns | `NetworkObserve`, `NetworkProbe` |
| Transmit slots, sessions, pacing | `device.rs`, `device/*`, core `slot.rs`, `gatt.rs` | who holds which slot, which sessions run, the send budget | a client gone and back before its session ended; more clients than slots | `DeviceLink`, `Pacing` |
| Channel | core `channel/{framing,stream,write_backlog,compress,noise}.rs` | partial frames, backlogs, the zlib streams | partial reads and writes at every boundary of every layer | `Channel`, `ByteStream` |
| Messages and documents | core `channel/{envelope,messages,config,capabilities,readings}.rs` | none | what one end writes and the other understands; what is offered and what is accepted | `WireMessages`, `ConfigDocument` |
| Session streams, sampling | `session.rs`, `sampler.rs` | the streams of a channel; the readings and their feed | feeds that lag, subscribers that come while a batch goes out | `SessionFeed`, `PowerControl` |
| Power acts | `power.rs`, `power/systemd.rs` | the act accepted, who has been told | every client is to be told before the device goes, and none may hold it up | `PowerControl` |
| Tailscale | `tailscale.rs`, `tailscale/*` | how the device stands; the act under way | an act outlives the client that asked; state watched elsewhere | `TailscaleActs` |
| Tamanu | `tamanu.rs`, `tamanu/*` | how the device stands; the act under way | as Tailscale, with a poll beside it | `TamanuActs` |
| Backup supply | `facts/power.rs`, `facts/power/**`, `battery.rs`, `battery/*` | runs on battery, charges, the curves and what was learnt | decisions from samples over hours; curves replaced while learning | `BatteryCurve`, `BackupSupply` |
| Web application | `bliti-web/**` | what the page holds of a device, and the settings being edited | opens that overtake each other; a page hidden and shown; a session cut and opened again under edits | `WebLink`, `WebPage`, `WebConfigure` |
| Facts, identity, labels, client library, wire compatibility, program entry | `facts/**`, `identity.rs`, `client.rs`, `bliti-wire-compat`, `main.rs` | a cached root | see [Not modelled](#not-modelled) | |

### How the parts interact

A client's Bluetooth writes reach a *slot*'s session, which runs the *channel* (framing, Noise,
compression, yamux) and above it one task per *stream*. A stream names itself with its first message
and is handed to the configuration session, the sampler's feed, the power, Tailscale, Tamanu or curve
stream, or, in provisioning mode, the provisioning stream. Streams share the device's parts: the
*configurator* task owns the network configuration and drives the *driver* task, which owns the
*selector* and has the *applier* write files; the *provisioner* owns one run behind a lock and spawns
the task that carries it out. Parts tell each other by tokio `watch` channels (latest value, a lost
wake-up is a bug), `mpsc` queues (ordered) and `oneshot` answers (dropped where nobody waits).

## What is modelled

Each module names the state it keeps beside its variables, and `PROJECT.json` gives the lines of every
definition. What follows says how each corresponds to the code and what it is for.

### `ProvisionModel`, `ProvisionRun`: the provisioning run

`ProvisionModel` is the run's data and the pure functions on it (`model.rs`, and `undone` and what
follows from a check in `run.rs`). `ProvisionRun` is the engine: `model` is `Inner::model`, `drivers`
the spawned tasks by generation with the blocking write each has under way, `task` the handle the
engine keeps, `acting` what each front end is in the middle of, `medium` what `store.rs` keeps,
`queued`/`reading` the determination of what is already done, and `board` what the steps' checks would
find. A driver's `pc` is at an await point or between two; an aborted driver stops only at an await
point, and its write goes on without it. `Crash` takes everything but the medium and the board.

The central promise (RUN, "Surviving a reboot") is `RecordedBeforeBegun`: no step begins unless the
medium already holds the run as it stands, so a power cut while a step changes the board leaves a run
that a restart resumes at that step. It spans the lock, the driver, the blocking write, an abort and a
crash.

### `NetworkSelect`, `NetworkSelector`: which candidate is up where

`NetworkSelect` holds the selector's state and every operator of `select.rs` and `place.rs` as a
function from state to state, together with the checks a document passes first; `NetworkSelector` is
the specification that feeds it any event in any order, including reports against attempts that no
longer exist.

### `NetworkSession`: the configuration held, and what clients are told

The configurator's task (`conf`, `job`, `task`, `queue`, `disk`), the snapshot it publishes, each
session's side of the conversation (`sess`), the order they opened in (`holders`) and the backend as
its trait describes it: it configures what it is asked in order, publishes its candidates' states,
answers the last thing it was asked, and may change capabilities by itself. A session's sync is two
steps where the code awaits between them: the snapshot is taken and marked seen and `configuration`
goes out; then, with who is busy read only now, `state`.

### `NetworkDriver`: everything the driver starts, coming back in any order

The task above the selector. One action per thing its loop takes in: a command, an observation, the end
of an apply, a scan, a join, a gateway probe, a deadline, a retry, a change of the radios. Each ends, as
each turn of the loop does, with the trailing `kick` (render and apply what was decided), `settle`
(answer the command waiting) and `sweep`. The counts the code compares to tell a superseded render,
timer or sweep apart are kept as what the comparison says. `NothingIsStranded` says what liveness would: each
attempt, command, held-back hotspot and sweep that waits has something under way that will come back to
it. It is stated of states because the temporal form, over this many kinds of return, is past what TLC
finishes.

`VerifiedIsInForce` is what `NetworkSession` assumes of its backend: an answer is of the candidate it was
asked of, and "good" is answered only of what is in force.

### `NetworkRender`, `NetworkApply`, `NetworkProbe`, `NetworkObserve`: around the driver

`NetworkRender` is the document rendered as files: what is refused and which files with which settings
(`Checks`, then `Renders` of whatever is selected).
`NetworkApply` puts them in place one call at a time; each may fail with or without its effect, or be the
last before the daemon dies, and the next apply learns only from the record on disk. A hotspot the record has is
restarted and one it has not is started (`ReadsAnew`), and a start leaves a hostapd already running as it is, on what it
read before; `unread` is history, the paths for which that happened in this apply, and `unsure` those of them and of
steps that failed, until a step carries them out. `NetworkProbe` reads
a radio's nl80211 description into what a client is offered (`Probes`), starts an access point on one of the
combinations offered (`Airs`), and hears its beacon (`HearsItself`); its property holds the offer against what the renderer accepts. `NetworkObserve` is iwd over D-Bus, with
the stream of signals and the stream of owner changes taken in any order across iwd's restarts and a listing of its
objects that may fail (`ResyncFails`), the
kernel over rtnetlink, gateway probes and a client's scan in parts. `crossed` is history: a signal and an owner
change were taken in the other order than they happened in, and late.

### `WireMessages`, `ConfigDocument`: what is sent and what is understood

The envelope's rule for critical members, every message type's reader and writer, and a document parsed,
checked against the capabilities' mirror, kept and read again. Both are operators, with a step for each time
they are used: a message is received and told on to the next end (`Receives`, `TellsOn`), a proposal saved and what was
kept proposed again (`SavesProposal`, `ProposesAgain`). The inputs are those `MCStack` enumerates: every message with each
member missing, of another type, unknown, critical or not.

### `DeviceLink`, `Pacing`: clients on the air

`DeviceLink` is allocation of slots, the session tasks, the delivery of chunks to the session of a client
(a chunk read from an earlier connection to that of a later one, too), the advertising loop and its permit, and a daemon that restarts. BlueZ is external, and does as the code
says it does: it closes the notification socket at the head of each characteristic the leaving client had
subscribed to. `Pacing` is the schedule several pumps share, over a sliding window; `since` is history, the bytes sent over
the last `t` times for each `t`.

### `Channel` refining `ByteStream`

`Channel` is one direction through every layer: deflate with its flush rules, Noise messages in length
frames, chunks a link takes a few at a time, and the backlog each layer keeps, with a peer that is or is not
the genuine one and a link cut anywhere. `ByteStream` is what the layers promise: bytes as written, in
order, only from the peer it should be, and an end that reads as clean only where it is one.
`ImplementsByteStream` is the specification of `INSTANCE ByteStream`, whose bytes are numbered and whose
written, received and ended are the channel's own. It is checked as a property of the detailed specification, and
proved (`ByteStreamKept`).

### `FrontPanel`, `ProvisionConsole`, `ProvisionSteps`: provisioning around the run

`FrontPanel` is the debounced button, the loop `keep` that is deaf while it registers or unregisters, and the
LED's own task. `ProvisionConsole` is a stream that runs changes together and the conversation above it,
beside another front end. `ProvisionSteps` is every durable write of every step, with a failure or a power
cut before any of them and any step begun again after; unsynced writes to the raw disk reach it in either
order.

### `PowerControl`, `SessionFeed`, `TailscaleActs`, `TamanuActs`, `BatteryCurve`, `BackupSupply`: services

Going away under the sessions, with each wait's bound, and feeds and sessions that open between one wait's end and the
next's beginning (`Told`, then `EndsSessions`); the sampler with its ticks, its slow ticks and its
idling, and the broadcast a subscriber may lag behind; the acts of two streams with what they act on
changing by itself (a call to tailscaled that fails may have had its effect, which for a sign-in is a key taken before the
login that failed, and a device awaiting approval comes up once it is given); the learning of a curve over enumerated runs and charges, in whole units (`Smooths`, `DrawsRun`, `DrawsCharge`,
`Refines`, and `RecordsAnother`, the curve made being the one the next run or charge refines); and the watch over the
battery, its `window` the history of its latest looks and when each was taken, and `timed` whether the look that found the floor
held could read how long the system has been up, with the curves' file across power cuts and saves that fail at any step.

### `WebLink`, `WebPage`, `WebConfigure`: the page

A page runs one task at a time, so a step is what happens between two awaits. `WebLink` is `link.js` as
operators: opens by generation, the listeners attached, the connection and its notifications. `WebPage` is
the page's connecting, losing, reaching again, hiding and showing, and its feed. `WebConfigure` is the
settings screen's reducer against the session a device serves it, with the two directions of the stream,
another session saving beside it, and sessions that end under the page.

### Suites

`MCDevice`, `MCStack` and `MCServices` put parts that share nothing in one run: a variable `part` says which
part a behaviour is of, and the others stay as they begin, so the states are the sum of the parts' and not their
product. Each part still has its own next-state relation and its own properties. `MCProvisionRun`,
`MCNetworkSession` and `MCNetworkDriver` give their modules' constants values.

## Runs

| run | bounds | what it shows |
|---|---|---|
| `provision_two_front_ends` | two steps with an answer and a notice, two front ends (symmetric), two runs or retries, one crash, one failing write or one attach | the medium holds the run before a step begins, steps are carried out in order, an ended run is forgotten, a restart loses at most one step, however the two front ends interleave |
| `provision_liveness` | one front end, two runs or retries, one crash, one failing write | a running run has its task, a stopped step is dropped, done-states settle; a run under way gets somewhere, and a device at rest determines what is done |
| `session` | two sessions (symmetric), two documents, two proposals, one restart, one failure of the file | no wake-up is lost; only the oldest session has the task do anything; what was told survives; the backend runs what is held; verification is against the configuration last judged |
| `session_live` | one session at a time, one proposal, one restart, one failure, one change of states and of capabilities | verdicts come, requests are answered, clients end up told |
| `driver` | a wall port and a radio that shares its channel, two documents, two commands, one observation, fault or retry | checks follow the selector, nothing waits on nothing, a good answer is of what is in force |
| `stack` | two radios, documents in which candidates and hotspot contend, four attempts; three applies with two faults; four moves of iwd or the kernel and one failing call; the enumerated messages, documents and radios | placement is sound and stable, nothing up is taken down without cause; an apply's end is served; what is offered renders; observers end up telling the truth; messages are understood and documents kept |
| `device` | two clients on one slot, two connections, two chunks, one fault; two pumps and nine units of time; six reads of the button; three selections of steps, each tried twice; four opens of a page, two losses and one hiding; two candidates, two saves, one edit, two setbacks | leaving clients harm nobody, writes are read whole, the device comes back on air, the rate holds; the panel is honest; the console asks of what is; the board is never locked out; the page holds what it says, and its screen says what the device is on |
| `services` | two clients, three opens and two acts; six ticks; two acts and one trouble of Tailscale; two commands of Tamanu; six looks at the battery and two changes of its curves; some hundreds of enumerated lessons, each curve refined five times at most (`MaxLearnt`) | the device goes as told; a reader holds what the sampler does; acts run to their end; what is learnt is valid; low and full are as seen; curves survive |
| `channel` | four bytes, records and chunks of two, two queued, reads of two | `Channel` implements `ByteStream`, and what is flushed is read |
| `provision_wrong_abort`, `session_capabilities_lost`, `unpinned_refused` | | [findings](#findings) |

Two of each kind of actor is enough for what the properties are about: a race between two; a proposal that
overtakes another; one restart at every point, and one failure at every write. A further proposal, crash or
failure starts from a state of the same shape. In the channel, four bytes with every size two makes each
layer split and join across each other's boundaries; in the slots, one slot for two clients is the
contended case. The bounds are constants, named in the modules. `FaultOrAttach` (`ProvisionTwo.cfg`) leaves out behaviours
with both a failing write and an attach, which act on different state. `CHECK_DEADLOCK FALSE` is set where the
system may rest: nobody connected and nothing under way, or a bound reached.

Where a property's statement sets a case aside, the case is one of the findings below, where the code does otherwise
than it says, and the property is not to be read as covering it:

* `ScreenFollows`: the pages `crossed`. `LinkIsAsSaid`: the loop gone `stray`. `ObservedAsItIs`: the echo matched by
  process id. `LearntIsValid`: the run begun just below its curve's top (`NearTop`). `ReaderHolds`: what ended between a
  reader's reading and its subscribing.
* `AppliedIsServed`: the paths `unsure`, of a step that failed, or for which a running hostapd was started.
* `ActsRunToTheirEnd`: a sign-in gone `stray`: given up before what it joined was seen, failed with its key taken, ended
  at an approval in a tailnet not named yet, or not signed out again.
* `CurvesAreKept`: the file gone `behind` the daemon: a save refused at the directory's sync, or a direct write.
* `SeenAsItIs` claims the two minutes' grace only where the uptime could be read (`timed`).

### Findings

Three runs are expected to be violated, each stating what the repository says and the code does not do.

* `provision_wrong_abort`: a stop takes whatever handle is held once it has let the lock go, which may be
  that of a run started since; the device then reports a run that nothing carries out.
* `session_capabilities_lost`: `Open::sync` marks new capabilities as told and then returns without
  sending anything because the backend has yet to publish the new configuration's states.
* `unpinned_refused`: a keyed member left unset is refused where its first key does not admit it, though another
  does.

These have a configuration of their own, which TLC refutes, and no run:

| configuration | module | property | what happens |
|---|---|---|---|
| `ProvisionWrongAbort.cfg`, with this as its invariant | `MCProvisionRun` | `StoppedStepDropped` | the run's task is spawned before its handle is kept (`run.rs:437`), so a stop in between aborts nothing and the step goes on for a run that was stopped (`run.md:91`) |
| `SessionSyncFails.cfg` | `MCNetworkSession` | `RefusedIsNotHeld` | a record that fails after its rename leaves the refused proposal in the file (`session.md:63`) |
| `DriverOlderFails.cfg` | `MCNetworkDriver` | `FailureIsOwn` | an apply begun for the document before fails after another was proposed, and answers for it (`driver.rs`, `failed`) |
| `DriverOlderFails.cfg`, with this as its invariant | `MCNetworkDriver` | `FailedIsRetried` | a candidate that failed while a proposal was being verified is not tried again where another proposal with the same candidate overtakes it: `failed` starts afresh, and no retry was scheduled |
| `ApplyReverted.cfg` | `MCStack` | `AppliedIsRunning` | a backend failed after its files were written, and the next apply wants back what the record has: nothing differs, and the daemon is left with the files of the apply that failed |
| `ApplyReverted.cfg`, with this as its invariant | `MCStack` | `RecordedIsRunning` | an apply starts hostapd and cannot save its record; the next, with another configuration for that interface, finds none in the record and starts the unit (`apply.rs:400-419`, `StartUnit` in `system.rs:170-177`), which does nothing to one running: the apply succeeds and is recorded, and hostapd is on the old configuration, where "the next apply writes its files and picks them up again" (`apply.rs:214-215`) |
| `ApplyReverted.cfg`, with this as its invariant | `MCStack` | `NestedIsPartial` | an unknown critical member inside an entry has the whole message refused (`messages.md:134`) |
| `ConsoleStuck.cfg` | `ProvisionConsole` | `RetryIsOffered` | a retry that fails again before the stream sends brings the very state the console acted on, which it takes for not yet acted on, and asks nothing more (`provisioning/console.md:31`) |

The following are stated as definitions beside the properties, each refuted by TLC with a configuration
that names it as the invariant (or property) of its module's suite:

* `DeviceLink.AdvertisesWhenFree` (`discovery.md:57`): a client that connects and leaves without reading the allocation
  took the device off the air, and nothing puts it back.
* `PowerControl.AcceptedIsCarried` (`battery/shutdown.md`): a session that ends between its act's being taken and the
  task's being begun leaves the act taken and nothing carrying it out, and every later act is refused.
* `BatteryCurve.RunIsLearnt` (`charge.md:46`): a run begun just below the top of its curve keeps no point above it, and
  what it teaches is a curve the device does not take.
* `BackupSupply.HeldPastGrace` (`battery/shutdown.md:34`): no shutdown is to begin within two minutes of the system
  starting, and one does where the uptime cannot be read (`facts.rs:143`), which the code means to: "A boot time that
  cannot be read does not hold the shutdown off" (`low.rs:45`). The specification and the code disagree.
* `BackupSupply.CommandTakesEffect` (`curve.md:84`): a command line that found no daemon writes the file itself, and a
  daemon started in between has already read it.
* `SessionFeed.EndedIsSent` (`device-info.md:169`): an entry that ended while the stream was being begun, or in a batch
  missed, stays with the reader.
* `TailscaleActs.NotLeftInOther` (`control/tailscale.md:116`): a join raced by its deadline, a sign-in whose
  key is taken and whose login then fails (`run.rs:167-178`), a logout that fails, or a sign-in done at an approval that
  does not name its tailnet (`run.rs:239-243`), given later, leaves the device in a tailnet that is not its own.
* `WebPage.FeedIsDeclined` (`device-view.md:170`): a page hidden as its channel opens closes a feed it has yet to accept.
  `WebPage.LostStaysLost` (`web-app.md:143`): `closed` does not clear `returning`, and the loop goes on for a device said
  to be lost, and may leave its feed running. `WebPage.NothingIsConnected` (`web-app.md:67`): cancelling while `gatt.connect()` is out leaves the
  connection up.
* `WebConfigure.AnswersAreOwn`: the first configuration after a proposal is taken as its answer, and may be that of
  another's proposal. `WebConfigure.StateComes`: `reported` survives a configuration sent without its state, which is
  then never sent, and the screen stays at applying. `WebConfigure.AppliedIsHeld`, `EditsAreKept` (`screen.md:41`): a
  session cut between its opening configuration and state, or dropped twice, keeps edits nobody made or loses those
  made. `WebConfigure.StatesAreTheirs`: kept edits have fresh keys, and another candidate's state is shown under them.

Met while modelling, and outside what the modules state:

* `run.rs`, `finish`: a run is reported finished before its file is cleared, so a start in between leaves the file, and a
  power cut before the new run is recorded resumes the finished one.
* `task.rs`, `snapshot`: states are taken as the held configuration's where their count matches.
* `determine` and a started run contend for the mapping of the root volume.
* `attempt.rs:273`: the address a probe was sent from may be gone when its answer establishes the attempt.
* `apply.rs`: a hotspot moved from `ap0` to `ap1` that fails after `ap0` is deleted, and is moved back, is restarted
  without its interface. `files::owned` does not scan the resolved drop-ins.
* `render`: a DHCP range of a zero prefix shifts by 32; hostapd's default channel 36 is not checked against no-IR.
* `iwd.rs:281-290`: a listing of iwd's objects that fails is not asked for again, though its message says that stations
  are "observed once it does" answer; until iwd changes owner or a station comes anew, those there are not observed.
* `observe`: IPv6 echo replies are matched by process id alone.
* `tailscale.rs`: a `joined` read that fails leaves the act "busy". `tamanu.rs`: an act whose `accepted` could not be
  sent is never run (`control/tamanu.md:58`), and one that ends while polling is stopped publishes a state that
  goes stale.
* `curve/store.rs`: a save that fails at the directory's sync was refused and is on disk.
* `envelope.rs`: critical members inside a raw document always round-trip and so are never refused; a critical optional
  member given as null is refused as unknown.
* `App.jsx`, `link.js`: an overtaken open disconnects a connection a newer open owns; a resume whose subscribe is
  rejected leaves `resuming` set; hiding and showing twice during a resume leaves no feed; a channel fault does not
  disconnect, so the slot stays held; `useProvision` ignores a drop during the handshake.

## Fairness

* A spawned tokio task that is woken is polled again, and `select!` picks among ready arms at random,
  so a step that stays ready is taken: weak fairness of each task's and session's steps.
* A blocking write ends, in success or failure: weak fairness of the writes.
* A provisioning step ends: every tool it runs either ends or is given a timeout, and an operator who is
  asked answers; this is strong fairness of `StepEnds`, since a step may be taken away by an abort and
  begun again.
* The backend answers an apply: each stage of an attempt has a deadline in `driver.rs`, so no attempt is
  verified for ever.
* The service manager starts the daemon again. Clients, crashes, faults and observations are under no
  fairness.
* In the channel, the task driving the connection and the reader are polled whenever they can go on, which tokio and
  the browser see to: weak fairness of each. The writer's writing, its finishing and the cut are under none.

## Proofs

TLC shows a property of one instance; the theorems below are for every value of the constants that the
modules' assumptions allow: any number of clients, steps, front ends, generations, entries and chunks,
and whatever the bounds are. A part's theorems are of that part's own specification (`PowerSpec`,
`LinkSpec`, `ChanSpec`, and so on), so they do not depend on how a suite composes it.

Every property was checked by TLC before it was proved, on the run that lists it. Each proof rests on an inductive invariant, a conjunction of named parts, with a lemma per action
that has a step for each part the action can disturb, and a last step by `PTL`.

### The provisioning run: `ProvisionRunProofs`

* `TypeCorrect`: `Spec => []TypeOK`.
* `RecordedFirst`: `Spec => []RecordedBeforeBegun`. That the medium still holds the run while its driver
  carries a step out depends on nobody else writing or clearing it, and writes outlive the drivers that
  asked for them. `IInv` is `TypeInv /\ RecordInv`:
  * `TypeInv` adds to the types that a driver past its first write knows its step (`StepKnown`);
  * `WritesOnlyRecording`: a driver has a write under way only while it records, or was aborted there;
  * `FutureBlank`: generations to come, and those an act is about to spawn, have no driver and no write;
  * `ActsApart`: two acts under way began generations of their own;
  * `OneOnDisk`: `Inner::disk` excludes, one writer or clearer at a time;
  * `WritesTheRun`: what the driver of the run held writes is that run, and once it has written nobody
    else is at the disk;
  * `OffIsBlank`: with the power off there is only the medium and the board.
* `Orderly`: `Spec => []RunIsOrderly`, and `LosesAtMostOneStep`: `Spec => RestartLosesAtMostOneStep`, an action
  property. `OrderInv` says that every run there is a copy of (held, being written, kept) has its steps in
  order, that the acts under way are of the run held (`ActsOfHeld`), and what of the steps passed is on the
  medium or about to be (`PassedIsKept`, `PassingIsRecorded`, `LostIsKept`): the medium is behind what is held by one step
  at most, which is what a restart may lose.
* `HeldToItsEnd`: `Spec => []RunIsHeldToItsEnd` where there is one front end (`Alone`). With two it is false: the run
  `provision_wrong_abort` is the counterexample, so the hypothesis is what the code needs and not a
  convenience. `HoldInv` says whose generation is the latest (`ActIsLatest`, `TaskIsEarlier`, `EarlierIsSpent`), that the
  task of the run held is not aborted and its handle is kept (`NotAborted`, `IsCarried`), and `Determined` that
  a device at rest reports the board as it is, or has something under way that ends in its being determined.

### The configuration session: `SessionProofs`

* `SessionsAgreeing`: `Spec => []SessionsAgree`; `BaselineIsKept`: `Spec => BaselineKept`.
* `HeldToldAndRun`: `Spec => []HeldIsToldAndRun` where an error recording means that nothing was recorded
  (`~SyncFails`). The hypothesis is about the file system, and `SessionSyncFails.cfg` shows what its failing does.

`SessionInv` relates what a session has told its client to the snapshot the task published, by what it has
still to see (`Told`, `Held`, `Pending`): a session that has not seen a wake-up may have told anything, one that has
seen it and is between the two halves of its sync has told the first half. `PublishedIsHeld` is the same between the
task and what it holds, `AsksLatest` between the task and the backend's queue, and `Judged` says that a verification runs exactly
while one is owed, of the configuration held against the one last judged.

### Clients on the air and the page: `DeviceProofs`

* `LeavingAlone`, `WritesRead`, `BackOnAir`: `LinkSpec => []` of `LeavesOthersAlone`, `WritesAreRead` and `ComesBackOnAir`. `LinkInv`
  numbers the connections and sessions (`Numbered`) so that one that was replaced is told from its successor
  (`GoneIsGone`), and says who may hold a slot's subscription (`ToldIsHeld`, `Subscribed`) and that the session on a slot
  reads what is delivered to it (`ReadOn`).
* `RateHeld`: `PacingSpec => []WithinRate`, for any set of pumps, slack, chunk and window. What was sent in
  a window is a sum over the pumps' history, and sums over data are out of the provers' reach, so `PacingInv` says
  instead that there is an account of the grants: a schedule in which each chunk granted has its place,
  and the chunks still in hand are those placed from some point on. The bound is then on one number of the account.
* `HoldsAsSaid`: `PageSpec => []LinkIsAsSaid`. `PageHeld` is what the link's listeners, sessions and stops are to each other
  (`LinkHeld`), the attempts under way by their numbers (`Attempts`), what holds unless a loop went on for a
  device said to be lost (`Kept`), and the feed (`Fed`). It rests on the browser failing the awaits that are out
  on a connection before it says anything else of it, as `WebLink` states.

### The channel refines a byte stream: `ChannelProofs`

* `ByteStreamKept`: `ChanSpec => ImplementsByteStream`. The initial states are the byte stream's, and each step of
  the layers is a step of it or a stutter (`Steps`), for any sizes of message, chunk, buffer and read, any number of
  bytes, and whatever deflate keeps back between flushes.

What is in flight is kept back by the deflater, in the writer's backlogs, in chunks on the link, in frames part-received
and in the inflater. `ChanInv` says that there is a numbering of the frames by the last byte put in before
each (`ChanHeld(a)`), that every part of a frame anywhere is of one as the writer made it (`MadeAs`), and that what each
end holds carries consecutive stretches of the stream (`Carries`). A frame opens only as the one the writer
sealed, which is what authentication is, so nothing has to be said of the order frames travel in: out of order they
do not open. `WriterHolds` and `ReaderHolds` are the two ends, and `Ends` when each may say it is at its end. What
the inflater gives out is a recursive function; `OutputsAre` states it in closed form and is proved by a least
counterexample over the naturals. No fairness is used: the byte stream promises nothing will come.

### Setting a device up: `DeviceProofs`

* `PanelHonest`: `PanelSpec => []PanelIsHonest`, and the action property `PressHeld`: `PanelSpec => PressIsHeld`. `PanelInv` says that
  what the loop holds of the air is the air or has a change on its way (`AirInv`), that a press was debounced
  (`PressInv`), and that the LED's task has seen what it shows or has a change to see (`LedFollows`).
* `AsksOfNow`: `ConSpec => []AsksOfWhatIs`. `ConInv` orders the states on their way, in the stream, its queue and
  the console, and places the operator's last accepted act among them.
* `BoardSafe`: `StepsSpec => []BoardIsSafe`. `BoardInv` is, for each step, what the board holds by how far the step has got
  (`WorkInv`), whatever was cut off before; that a thing marked done was done whole (`MarkedInv`); and `NeverLockedOut`.

### Services: `ServicesProofs`

* `GoneAsTold`: `PowerSpec => []GoesAsTold`. `PowerInv` counts the feeds and sessions by who they are (`Counts`), and says
  what was announced to each before the task goes on (`Announced`, `AllWaitedFor`).
* `ReaderHeld`: `FeedSpec => []ReaderHolds`, for any entries and any length of the broadcast: `FeedInv` says what
  a reader *will* hold once it has taken what is queued (`QueueIs`), which is what the sampler holds.
* `TailscaleSeenThrough`, `TamanuSeenThrough`, and, in the composition, `ActsSeenThrough`: `Spec => []ActsRunToTheirEnd`.
  `TailscaleInv` ties the slot to the act's task (`SlotHeld`), and says that only a sign-in under way or gone `stray` has the
  device elsewhere (`SignInOnly`); `TamanuInv` says which looks began since which command (`LooksSince`) and what
  each stream's list follows (`ListsFollow`).
* `SeenAsItWas`, `CurvesKept`: `SupplySpec => []` of `SeenAsItIs` and `CurvesAreKept`. `WatchInv` relates each
  countdown to the looks taken since it began (`FloorSince`, `StillSince`). The grace is proved of the looks that could read
  the uptime, which are those the code makes wait for it.

### Around the driver: `StackProofs`

* `ObservedAlways`: `ObserveSpec => []ObservedAsItIs`. `ObserveInv` is `IwdInv`, about signals and owner changes of iwd's
  lives taken in either order (`InOrderOfLives`, `NewsIsOfNow`, `EndInNow`, and `KnowsOrWillHear`, which says that the observer
  is right or has what will put it right in a queue); `RtnlInv`, about what the kernel's queue ends
  in (`LinkEnds`, `AddressEnds`, and that an address comes after its link); and those of scans, gateways and a client's scan.
* `OfferedAlways`: `OfferSpec => []OfferedIsRendered`, for any documents and radios. It rests on lemmas about the spans
  of channels by band and width, proved by cases, and on `Accepted`: what was checked in a document stays checked whatever of it
  is selected. The provers know nothing of `^`, so that the sizes of the prefixes used are integers of 4 at least is an
  assumption (`PowersOfTwo`), an arithmetic fact that TLC evaluates.
* `ServedAlways`: `ApplySpec => []AppliedIsServed`, for any renderings, any number of applies and faults, and whatever
  order the files of a step are taken in. `ApplyInv` says of each path that is not `unsure` that what is on
  disk is as the record says but for what has vanished, and that its daemon last read that (`SureAre`); that it is as
  wanted once the apply is past its backend (`DoneWith`); that a hotspot has its interface and its opening and will be
  found by the next apply (`HostServed`); and that what a path under way still lacks is among the calls left (`GoesOn`:
  `WillPut`, `WillRead`, `WillStop`). A step that records itself has done all it had to (`Recorded`), but for the paths it left `unread`, which stay
  `unsure`. None of these is inductive without the others: a step that failed is repaired only because
  the next apply finds its paths in the record or on disk. That the calls of a step come in phases,
  take-down, files, bring-up, record, is proved of the sequences themselves (`IsPlan`, from `LaidOut`, `Flattened` and
  `RunsJoin`). It assumes that what is applied has passed the check and fits what is selected, and is finite
  (`RenderingsAssumption`).

### Selecting: `SelectorProofs`

* `AlwaysSettled`: `SelectorSpec => []SelectorInv`, with `Sound`: `SelectorSpec => []PlacementIsSound`, and
  `ForCause`: `SelectorSpec => TakenDownForCause`, an action property, for any interfaces, radios, networks and documents.

`Settled(s)` is that the selector is well formed, of a document that was checked (`InHand`), and that
settling it again changes nothing. Placement goes over the candidates in order, each where it goes given
what the ones above it took. That is a recursive function, so what it computes is put in closed form
instead: `IsPlaced(s, links)` says of every rank at once that it is on an interface exactly where it goes given the
ranks above it. Such a placing exists (`PlacingExists`, by the least rank that could not be placed) and is
what `Place` comes to (`PlaceIsPlacing`, by a least counterexample). From it: a candidate already where it
would go is placed there again (`StaysPlaced`), so that settling twice is settling once
(`SettledStays`); a candidate is left out only when every interface it could go on went to one above it
(`LeftOutForCause`); and the candidate lowest in rank of those on the hotspot's radios would not have taken
the last of them, so one is left (`RadioIsLeft`).

### The driver: `DriverProofs`

For any hardware, documents and bounds, of the whole of `NetworkDriver`'s `Spec`:

* `CurrentAlways`: `Spec => []ChecksAreCurrent`; `NoneStranded`: `Spec => []NothingIsStranded`; and the action property
  `InForceAlways`: `Spec => VerifiedIsInForce`. They rest on `InvariantHolds`: `Spec => []DriverInv`.

`DriverInv` is `DriverHolds /\ TurnEnds`. None of the three properties is inductive: whether something will come back
to an attempt depends on its timer, its checks, the render under way and the counts of scans all at once.
`DriverHolds` says what stands between the steps of a turn as well: that checks and timers are of what the
selector has on an interface (`Follows`, `Timed`), that an interface with no candidate on it has no timer armed
(`Unarmed`), that probes and stations are of attempts there are (`ProbesAre`, `StationsAre`), that each attempt has something to
come back to it (`Stands`), and that the scans counted, the command waiting, the hotspot held back and the sweeps
each have what they wait for (`CountsAre`, `CommandIs`, `HotspotIs`, `SweepsAre`). `TurnEnds` is what the end of the turn adds:
what was left behind by attempts taken down is gone.

In the middle of a turn an attempt has been begun and nothing asked of it yet. `AllStand` therefore excuses the attempts
the handler is about to see to, and each handler's lemma ends in `From(d, y)`, where none is left excused; `TurnStep`
takes every action from there through `kick`, `settle` and `sweep`. What the driver does for a set of attempts is a fold
in the model; `Folds` states it as a recursive function of the set, and what a fold keeps is proved from what one
step of it keeps, by induction over finite sets with the fold in place. The selector is taken from `SelectorProofs`: what is placed
is `Settled`, whatever it is. `VerifiedIsInForce` is of two states: `Descends(s, u)` says that an attempt held after a
step was begun in it or was held before it, on the same interface for the same candidate, and `InForce` that a command
answered well in a step is of what is in place after it.

What is assumed is `OrderAssumption` and `HardwareAssumption` of the selector, `ConfigurationsAssumption`, and
`DriverAssumption`: that there are finitely many networks, and that a carrier found at the start is of a wired interface.

### What is only model-checked, and why

* Liveness, with the enabledness in its fairness: `RunProgresses`, `EventuallyChecked`, `VerdictComes`, `ClientsAreServed`,
  `FlushedIsRead`. The prover has neither.
* `MessagesAreUnderstood`, `DocumentsAreKept`: recursive operators over nested documents, which need an induction over
  data of any size.
* `LearntIsValid`: a curve's points are products and quotients, rounded, of what was measured, and medians chosen by
  counting: nonlinear arithmetic that the solver does not settle.
* `ScreenFollows`: what the screen edits and what it was sent are compared as sequences of which some are filtered out, a
  recursion as well.

## Plan

The components of the inventory that have control are modelled, and the theorems leave the list above of what the runs
check. One part of it is within reach: of `WebConfigure`, the part of `ScreenFollows` about which configuration an answer is of.

## Not modelled

* Noise and the key schedule, identity, board identifiers and firmware reads: correct by computation, with no order to
  check. `Channel` takes the ciphers to be sound and models what the handshake gives: a peer that is the genuine one
  or is not.
* Facts: each is one read of the board formatted for a person. Labels and codes: formatting for print.
* Program entry and pins: argument parsing and wiring. Test generators and doubles: not in a running device. The client
  library: a caller over the channel and messages, with no state between calls. The wire compatibility check: a
  build-time comparison.
* Of the network: the netlink exchange itself and the naming of models, routes (observed as addresses are), and the agent's
  answer to iwd. In `NetworkDriver` every radio can scan, a station already on the network is taken as joined where SAE
  required could still refuse it (`attempt.rs:134-150`), and a station seen busy
  (`driver.rs:480`), which only forgets the network it was on, is left out; no property's verdict depends on these. `NetworkRender`'s `Conf` leaves out `country_code`, `ieee80211d` and isolation.
* Of Tailscale: what a ping and a netcheck report. Of the supply: the estimate of time left (`supply/rate.rs`), statistics
  over floating point. Of the steps: the parsing of EEPROM images, bootloader configurations and LUKS metadata.
* Of the web application: the provisioning page's own reconnecting (`useProvision.js`), the simple network screens, the
  screens of acts, and rendering. The browser is external.
