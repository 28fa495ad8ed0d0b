---------------------------- MODULE DriverProofs ----------------------------
\* What is proved of the driver, for any hardware, documents and bounds:
\* that what it verifies is what its selector decided, that nothing it
\* starts is left without something to come back to it, and that what it
\* answers is in force.
\* 
\* The invariant, DriverInv, says what the driver's fields have to do with
\* one another between the turns of its loop. In the middle of a turn less
\* holds: an attempt may be excused for what is about to be done for it
\* (AllStand), and DriverHolds says what stands all through. Each action
\* is shown to leave the driver in such a state (From), and the turn that
\* ends it to bring the rest about (TurnStep).
\* 
\* The selector is the field `sel' of the driver here: the variable of the
\* same name, and its bound MaxAttempts, are those of the selector's own
\* theorems in SelectorProofs, whose lemmas are of any selector.
EXTENDS SelectorProofs, NetworkDriver

-----------------------------------------------------------------------------
\* Folding over a set of attempts or networks.

\* What the folds of the driver do with one member.
Does(kind, given, y, a) ==
    CASE kind = "arms" -> Arm(y, a)
      [] kind = "releases" -> Associate(y, a)
      [] kind = "evaluates" -> Evaluate(y, a)
      [] kind = "hears" -> Feed(y, IF a \in given.ssids THEN InRange(y.sel, given.r, a, 1)
                                   ELSE OutOfRange(y.sel, given.r, a))

One(s) == CHOOSE a \in s : TRUE

FoldBody(kind, given, x, as, g) ==
    [s \in SUBSET as |-> IF s = {} THEN x ELSE Does(kind, given, g[s \ {One(s)}], One(s))]
Folds(kind, given, x, as) == (CHOOSE g : g = FoldBody(kind, given, x, as, g))[as]

LEMMA ArmsFold == ASSUME NEW x, NEW as PROVE Arms(x, as) = Folds("arms", 0, x, as)
BY DEF Arms, Folds, FoldBody, One, Does, FoldSet, MapThenFoldSet

LEMMA EvaluatesFold ==
    ASSUME NEW x, NEW as
    PROVE  FoldSet(LAMBDA a, y : Evaluate(y, a), x, as) = Folds("evaluates", 0, x, as)
BY DEF Folds, FoldBody, One, Does, FoldSet, MapThenFoldSet

LEMMA ReleasesFold ==
    ASSUME NEW x, NEW as
    PROVE  FoldSet(LAMBDA a, w : Associate(w, a), x, as) = Folds("releases", 0, x, as)
BY DEF Folds, FoldBody, One, Does, FoldSet, MapThenFoldSet

LEMMA HearsFold ==
    ASSUME NEW x, NEW r, NEW before, NEW ssids, NEW scanned
    PROVE  HeardNow(x, r, before, ssids, scanned)
             = Folds("hears", [r |-> r, ssids |-> ssids], x,
                     (ssids \ before) \cup (IF scanned THEN before \ ssids ELSE {}))
BY DEF HeardNow, Folds, FoldBody, One, Does, FoldSet, MapThenFoldSet

\* A run of a fold: the sets folded so far, each one more than the last,
\* and what it had come to.
Runs(kind, given, x, s, n, A, v) ==
    /\ n \in Nat /\ A[0] = {} /\ A[n] = s /\ v[0] = x
    /\ \A m \in 1..n : /\ A[m] # {} /\ A[m - 1] = A[m] \ {One(A[m])}
                       /\ v[m] = Does(kind, given, v[m - 1], One(A[m]))

LEMMA OneIsOf == ASSUME NEW s, s # {} PROVE One(s) \in s
BY DEF One

\* Every finite set has a run.
LEMMA RunExists ==
    ASSUME NEW kind, NEW given, NEW x, NEW as, IsFiniteSet(as)
    PROVE  \E n, A, v : Runs(kind, given, x, as, n, A, v)
<1> DEFINE without == {k \in Nat : \E s \in SUBSET as : Cardinality(s) = k /\ ~\E n, A, v : Runs(kind, given, x, s, n, A, v)}
<1>1. without = {}
  <2> SUFFICES ASSUME without # {} PROVE FALSE
    OBVIOUS
  <2>1. PICK k \in without : \A j \in without : k <= j
    <3>1. without \subseteq Nat
      OBVIOUS
    <3> HIDE DEF without
    <3> QED
      BY <3>1, LeastOf
  <2>2. PICK s \in SUBSET as : Cardinality(s) = k /\ ~\E n, A, v : Runs(kind, given, x, s, n, A, v)
    OBVIOUS
  <2>3. IsFiniteSet(s)
    BY FS_Subset
  <2>4. CASE s = {}
    <3> DEFINE A == [m \in {0} |-> {}]
               v == [m \in {0} |-> x]
    <3>1. 1..0 = {}
      OBVIOUS
    <3>2. A[0] = {} /\ v[0] = x
      OBVIOUS
    <3> HIDE DEF A, v
    <3>3. Runs(kind, given, x, s, 0, A, v)
      BY <2>4, <3>1, <3>2 DEF Runs
    <3> QED
      BY <2>2, <3>3
  <2>5. CASE s # {}
    <3>1. PICK a : a = One(s)
      OBVIOUS
    <3>2. a \in s
      BY <2>5, <3>1, OneIsOf
    <3>3. PICK t : t = s \ {a}
      OBVIOUS
    <3>4. Cardinality(t) = k - 1 /\ t \in SUBSET as /\ k \in Nat
      BY <2>2, <2>3, <3>2, <3>3, FS_RemoveElement
    <3>5. IsFiniteSet(t) /\ Cardinality(t) \in Nat
      BY <2>3, <3>3, FS_Subset, FS_CardinalityType
    <3>6. k - 1 \notin without /\ k - 1 \in Nat
      <4>1. k - 1 \in Nat /\ ~(k <= k - 1)
        BY <3>4, <3>5
      <4> HIDE DEF without
      <4> QED
        BY <2>1, <4>1
    <3>7. PICK n, A, v : Runs(kind, given, x, t, n, A, v)
      BY <3>4, <3>6
    <3>8. n \in Nat
      BY <3>7 DEF Runs
    <3> DEFINE B == [m \in 0..(n + 1) |-> IF m = n + 1 THEN s ELSE A[m]]
               w == [m \in 0..(n + 1) |-> IF m = n + 1 THEN Does(kind, given, v[n], a) ELSE v[m]]
    <3>9. \A m \in 0..n : B[m] = A[m] /\ w[m] = v[m]
      BY <3>8
    <3>10. B[n + 1] = s /\ w[n + 1] = Does(kind, given, v[n], a)
      BY <3>8
    <3> HIDE DEF B, w
    <3>11. ASSUME NEW m \in 1..(n + 1)
           PROVE  /\ B[m] # {} /\ B[m - 1] = B[m] \ {One(B[m])}
                  /\ w[m] = Does(kind, given, w[m - 1], One(B[m]))
      <4>1. CASE m = n + 1
        <5>1. B[n] = t /\ w[n] = v[n] /\ m - 1 = n
          BY <3>7, <3>8, <3>9, <4>1 DEF Runs
        <5> QED
          BY <2>5, <3>1, <3>3, <3>10, <4>1, <5>1
      <4>2. CASE m # n + 1
        <5>1. m \in 1..n /\ m \in 0..n /\ m - 1 \in 0..n
          BY <3>8, <4>2
        <5>2. /\ A[m] # {} /\ A[m - 1] = A[m] \ {One(A[m])}
              /\ v[m] = Does(kind, given, v[m - 1], One(A[m]))
          BY <3>7, <5>1 DEF Runs
        <5> QED
          BY <3>9, <5>1, <5>2
      <4> QED
        BY <4>1, <4>2
    <3>12. B[0] = {} /\ w[0] = x /\ n + 1 \in Nat
      BY <3>7, <3>8, <3>9 DEF Runs
    <3>13. Runs(kind, given, x, s, n + 1, B, w)
      BY <3>10, <3>11, <3>12 DEF Runs
    <3> QED
      BY <2>2, <3>13
  <2> QED
    BY <2>4, <2>5
<1>2. Cardinality(as) \in Nat
  BY FS_CardinalityType
<1> QED
  BY <1>1, <1>2

\* Two runs of one set come to the same.
LEMMA RunsAgree ==
    ASSUME NEW kind, NEW given, NEW x, NEW s, NEW n, NEW A, NEW v, Runs(kind, given, x, s, n, A, v),
           NEW k, NEW B, NEW w, Runs(kind, given, x, s, k, B, w)
    PROVE  v[n] = w[k]
<1> DEFINE bad == {j \in 0..n : \E i \in 0..k : A[j] = B[i] /\ v[j] # w[i]}
<1>1. n \in Nat /\ k \in Nat
  BY DEF Runs
<1>2. bad = {}
  <2> SUFFICES ASSUME bad # {} PROVE FALSE
    OBVIOUS
  <2>1. PICK j \in bad : \A m \in bad : j <= m
    <3>1. bad \subseteq Nat
      BY <1>1
    <3> HIDE DEF bad
    <3> QED
      BY <3>1, LeastOf
  <2>2. PICK i \in 0..k : A[j] = B[i] /\ v[j] # w[i]
    OBVIOUS
  <2>3. CASE A[j] = {}
    <3>1. j = 0 /\ i = 0
      <4>1. j \in 0..n /\ (j \in 1..n => A[j] # {})
        BY DEF Runs
      <4>2. i \in 1..k => B[i] # {}
        BY DEF Runs
      <4> QED
        BY <1>1, <2>2, <2>3, <4>1, <4>2
    <3> QED
      BY <2>2, <3>1 DEF Runs
  <2>4. CASE A[j] # {}
    <3>1. j \in 1..n /\ i \in 1..k
      <4>1. A[0] = {} /\ B[0] = {}
        BY DEF Runs
      <4> QED
        BY <1>1, <2>2, <2>4, <4>1
    <3>2. /\ A[j - 1] = A[j] \ {One(A[j])} /\ v[j] = Does(kind, given, v[j - 1], One(A[j]))
          /\ B[i - 1] = B[i] \ {One(B[i])} /\ w[i] = Does(kind, given, w[i - 1], One(B[i]))
      BY <3>1 DEF Runs
    <3>3. A[j - 1] = B[i - 1] /\ j - 1 \in 0..n /\ i - 1 \in 0..k
      BY <1>1, <2>2, <3>1, <3>2
    <3>4. v[j - 1] # w[i - 1]
      BY <2>2, <3>2
    <3>5. j - 1 \in bad /\ ~(j <= j - 1)
      BY <1>1, <3>1, <3>3, <3>4
    <3> HIDE DEF bad
    <3> QED
      BY <2>1, <3>5
  <2> QED
    BY <2>3, <2>4
<1> QED
  BY <1>1, <1>2 DEF Runs

\* What a fold comes to is what a run of it does.
LEMMA FoldRuns ==
    ASSUME NEW kind, NEW given, NEW x, NEW as, IsFiniteSet(as)
    PROVE  \E n, A, v : Runs(kind, given, x, as, n, A, v) /\ Folds(kind, given, x, as) = v[n]
<1> DEFINE Is(s, y) == \E n, A, v : Runs(kind, given, x, s, n, A, v) /\ y = v[n]
           Value(s) == CHOOSE y : Is(s, y)
           F == [s \in SUBSET as |-> Value(s)]
<1>1. ASSUME NEW s \in SUBSET as PROVE Is(s, F[s])
  <2>1. IsFiniteSet(s)
    BY FS_Subset
  <2>2. \E y : Is(s, y)
    BY <2>1, RunExists
  <2> HIDE DEF Is
  <2> QED
    BY <2>2
<1>2. ASSUME NEW s \in SUBSET as
      PROVE  F[s] = IF s = {} THEN x ELSE Does(kind, given, F[s \ {One(s)}], One(s))
  <2>1. PICK n, A, v : Runs(kind, given, x, s, n, A, v) /\ F[s] = v[n]
    BY <1>1
  <2>2. CASE s = {}
    <3>1. n = 0
      <4>1. n \in Nat /\ A[n] = {} /\ (n \in 1..n => A[n] # {})
        BY <2>1, <2>2 DEF Runs
      <4> QED
        BY <4>1
    <3> QED
      BY <2>1, <2>2, <3>1 DEF Runs
  <2>3. CASE s # {}
    <3>1. PICK t \in SUBSET as : t = s \ {One(s)}
      BY Zenon
    <3>2. n \in 1..n /\ n \in Nat /\ n - 1 \in Nat
      <4>1. n \in Nat /\ A[n] = s /\ A[0] = {}
        BY <2>1 DEF Runs
      <4>2. n # 0
        BY <2>3, <4>1
      <4> QED
        BY <4>1, <4>2
    <3>3. A[n] = s /\ A[n - 1] = t /\ v[n] = Does(kind, given, v[n - 1], One(s))
      BY <2>1, <3>1, <3>2 DEF Runs
    <3>4. Runs(kind, given, x, t, n - 1, A, v)
      <4>1. \A m \in 1..(n - 1) : m \in 1..n
        BY <3>2
      <4> QED
        BY <2>1, <3>2, <3>3, <4>1 DEF Runs
    <3>5. PICK k, B, w : Runs(kind, given, x, t, k, B, w) /\ F[t] = w[k]
      BY <1>1
    <3>6. v[n - 1] = F[t]
      BY <3>4, <3>5, RunsAgree
    <3> HIDE DEF F
    <3> QED
      BY <2>1, <2>3, <3>1, <3>3, <3>6
  <2> QED
    BY <2>2, <2>3
<1> DEFINE g == CHOOSE h : h = FoldBody(kind, given, x, as, h)
<1>3. F = FoldBody(kind, given, x, as, F)
  <2> DEFINE G == FoldBody(kind, given, x, as, F)
  <2>1. G = [s \in SUBSET as |-> IF s = {} THEN x ELSE Does(kind, given, F[s \ {One(s)}], One(s))]
    BY DEF FoldBody
  <2>2. F = [s \in SUBSET as |-> F[s]]
    <3> HIDE DEF Value, Is, G
    <3> QED
      BY Zenon
  <2> HIDE DEF F, G
  <2>3. F = [s \in SUBSET as |-> IF s = {} THEN x ELSE Does(kind, given, F[s \ {One(s)}], One(s))]
    BY <1>2, <2>2, Zenon
  <2> QED
    BY <2>1, <2>3 DEF G
<1> HIDE DEF F, Is
<1>4. g = FoldBody(kind, given, x, as, g)
  BY <1>3, Zenon
<1> HIDE DEF g
<1>5. \A s \in SUBSET as : g[s] = IF s = {} THEN x ELSE Does(kind, given, g[s \ {One(s)}], One(s))
  BY <1>4 DEF FoldBody
<1>6. PICK n, A, v : Runs(kind, given, x, as, n, A, v)
  BY RunExists, Zenon
<1>7. n \in Nat
  BY <1>6 DEF Runs
<1> DEFINE bad == {m \in 0..n : A[m] \in SUBSET as /\ v[m] # g[A[m]]}
<1>8. bad = {}
  <2> SUFFICES ASSUME bad # {} PROVE FALSE
    OBVIOUS
  <2>1. PICK m \in bad : \A j \in bad : m <= j
    <3>1. bad \subseteq 0..n
      OBVIOUS
    <3> HIDE DEF bad
    <3>2. bad \subseteq Nat
      BY <1>7, <3>1
    <3> QED
      BY <3>2, LeastOf
  <2>2. m \in 0..n /\ A[m] \in SUBSET as /\ v[m] # g[A[m]]
    OBVIOUS
  <2>3. CASE m = 0
    BY <1>5, <1>6, <2>2, <2>3 DEF Runs
  <2>4. CASE m # 0
    <3>1. m \in 1..n /\ m - 1 \in 0..n /\ ~(m <= m - 1)
      BY <1>7, <2>2, <2>4
    <3>2. /\ A[m] # {} /\ A[m - 1] = A[m] \ {One(A[m])}
          /\ v[m] = Does(kind, given, v[m - 1], One(A[m]))
      BY <1>6, <3>1 DEF Runs
    <3>3. m - 1 \notin bad
      <4> HIDE DEF bad
      <4> QED
        BY <2>1, <3>1
    <3>4. v[m - 1] = g[A[m - 1]]
      BY <2>2, <3>1, <3>2, <3>3
    <3> QED
      BY <1>5, <2>2, <3>2, <3>4
  <2> QED
    BY <2>3, <2>4
<1>9. v[n] = g[as]
  <2>1. A[n] = as /\ n \in 0..n /\ as \in SUBSET as
    BY <1>6, <1>7 DEF Runs
  <2> QED
    BY <1>8, <2>1
<1> QED
  BY <1>6, <1>9, Zenon DEF Folds, g
-----------------------------------------------------------------------------
\* The driver's fields, and what working on the checks leaves alone.
Fields == {"sel", "configured", "generation", "wants", "apply", "inPlace", "reprobing", "again", "scanning",
           "hotspotScanning", "conf", "bounce", "pending", "links", "stations", "checks", "last", "failed",
           "placed", "sweeps", "swept", "scans", "rescans", "joins", "rejoins", "operating", "deadlines",
           "probes", "retries", "waits", "looks", "answers"}
IsDriver(x) == x = [f \in Fields |-> x[f]]

SameOthers(x, y) ==
    /\ y.configured = x.configured /\ y.generation = x.generation /\ y.apply = x.apply
    /\ y.inPlace = x.inPlace /\ y.reprobing = x.reprobing /\ y.again = x.again
    /\ y.scanning = x.scanning /\ y.hotspotScanning = x.hotspotScanning /\ y.conf = x.conf
    /\ y.bounce = x.bounce /\ y.pending = x.pending /\ y.links = x.links
    /\ y.stations = x.stations /\ y.sweeps = x.sweeps /\ y.swept = x.swept
    /\ y.scans = x.scans /\ y.rejoins = x.rejoins /\ y.waits = x.waits
    /\ y.looks = x.looks /\ y.retries = x.retries /\ y.answers = x.answers

CheckFields == {"candidate", "on", "at", "armed", "awaits", "stale", "probing", "timer"}
IsCheck(c) ==
    /\ c = [f \in CheckFields |-> c[f]]
    /\ c.on \in Interfaces /\ c.at \in Association..Established /\ c.timer \in Nat
    /\ {c.armed, c.awaits, c.probing} \subseteq BOOLEAN

ChecksAre(x) ==
    /\ x.checks = [a \in DOMAIN x.checks |-> x.checks[a]]
    /\ \A a \in DOMAIN x.checks : IsCheck(x.checks[a])

\* The checks are those of the attempts held.
IsOf(c, s, i) == c.on = i /\ c.candidate = s.held[i].candidate /\ c.at = s.held[i].at
Follows(checks, s) ==
    /\ DOMAIN checks = Attempts(s)
    /\ \A i \in Interfaces : s.held[i].candidate # 0 => IsOf(checks[s.held[i].attempt], s, i)

\* A deadline still its attempt's own is that of the stage it is at.
Timed(x) ==
    \A t \in x.deadlines :
        /\ t[1] \in 1..x.sel.next
        /\ t[1] \in DOMAIN x.checks => LET c == x.checks[t[1]] IN
             /\ t[2] \in 0..c.timer
             /\ t[2] = c.timer => t[3] = c.at /\ c.at \in {Addressing, Gateway} /\ ~c.probing

\* A probe is out for an attempt that is at its gateway and says so.
ProbesAre(x) ==
    /\ \A a \in x.probes : a \in 1..x.sel.next
    /\ \A a \in DOMAIN x.checks :
         /\ x.checks[a].probing <=> a \in x.probes
         /\ x.checks[a].probing => x.checks[a].at = Gateway

\* One not yet armed has at most associated.
Unarmed(x) ==
    \A a \in DOMAIN x.checks :
        ~x.checks[a].armed => x.checks[a].at \in {Association, Addressing}

\* Stations are radios', and rejoined on them.
StationsAre(x) ==
    /\ x.stations = [r \in RadioSet |-> x.stations[r]]
    /\ \A r \in RadioSet : x.stations[r].channel \in Channels \cup {"none"}
    /\ \A a \in x.rejoins : /\ a \in 1..x.sel.next
                            /\ a \in DOMAIN x.checks => x.checks[a].on \in RadioSet

Working(x) ==
    /\ IsDriver(x) /\ InHand(x.sel) /\ Numbered(x.sel) /\ ChecksAre(x)
    /\ Timed(x) /\ ProbesAre(x) /\ Unarmed(x) /\ StationsAre(x)

\* What an attempt waits on.
Stands(x, a) ==
    LET c == x.checks[a] IN
    \/ c.at = Established
    \/ ~c.armed /\ (x.wants \/ (x.apply.runs /\ a \in AttemptsIn(x.apply.links)))
    \/ /\ c.at = Association
       /\ \/ a \in x.joins
          \/ c.awaits /\ x.scanning[c.on] > 0
          \/ <<a, c.on>> \in x.rescans
    \/ c.probing
    \/ c.at \in {Addressing, Gateway} /\ <<a, c.timer, c.at>> \in x.deadlines

\* Those excused for now: of some attempts, the ones not armed or the ones
\* still associating, and one besides.
Excused(c, why) == (why = "unarmed" /\ ~c.armed) \/ (why = "joining" /\ c.at = Association)

AllStand(x, S, why, b) ==
    \A a \in DOMAIN x.checks : Stands(x, a) \/ (a \in S /\ Excused(x.checks[a], why)) \/ (a = b /\ b # 0)

Verifies(x, S, why, b) == Working(x) /\ Follows(x.checks, x.sel) /\ AllStand(x, S, why, b)

\* The rest: counts of scans, the command pending, the hotspot held back
\* and the sweeps.
CountsAre(x) == x.scanning \in [RadioSet -> Nat] /\ x.scans \in [RadioSet -> Nat]

ApplyFields == {"runs", "generation", "links", "domain"}
IsApply(p) == p = [f \in ApplyFields |-> p[f]] /\ p.runs \in BOOLEAN
PendingFields == {"kind", "generation", "changed", "render"}
IsPending(p) ==
    /\ p = [f \in PendingFields |-> p[f]]
    /\ p.kind \in {"none", "apply", "restore"} /\ p.render \in {"wanted", "taken", "done"}

\* How far the render of the command pending has got, and that what was
\* rendered last is what is held unless another is wanted.
Underway(x) ==
    /\ x.configured /\ x.pending.generation = x.generation
    /\ x.pending.render = "wanted" => x.wants
    /\ x.pending.render = "taken" => x.apply.runs
    /\ x.pending.render # "wanted" /\ x.apply.runs => x.apply.generation = x.generation
    /\ x.pending.render = "done" => x.inPlace.generation = x.generation
    /\ ~x.wants => (IF x.apply.runs THEN x.apply ELSE x.inPlace).links = LinksOf(x.sel)

CommandTyped(x) ==
    /\ IsApply(x.apply) /\ IsApply(x.inPlace) /\ IsPending(x.pending) /\ x.generation \in Nat
    /\ x.answers = [g \in 1..MaxCommands |-> x.answers[g]]
CommandIs(x) == CommandTyped(x) /\ (x.pending.kind # "none" => Underway(x))

HotspotIs(x) ==
    x.hotspotScanning # "none" =>
        x.hotspotScanning \in RadioSet /\ (x.scanning[x.hotspotScanning] > 0 \/ x.wants)

\* The tokens of sweeps are numbered, and one look or wait goes with each.
LooksAre(x) == \A w \in x.waits \cup x.looks : w \in RadioSet \X Nat /\ w[2] <= x.swept
SweepsAre(x) ==
    /\ x.sweeps \in [RadioSet -> Nat] /\ x.swept \in Nat /\ LooksAre(x)
    /\ \A r \in RadioSet : x.sweeps[r] # 0 =>
         /\ x.sweeps[r] <= x.swept
         /\ (<<r, x.sweeps[r]>> \in x.waits) # (<<r, x.sweeps[r]>> \in x.looks)

Rest(x) == CountsAre(x) /\ CommandIs(x) /\ HotspotIs(x) /\ SweepsAre(x)

DriverHolds(x) == Verifies(x, {}, "none", 0) /\ Rest(x)

\* What a turn leaves besides.
TurnEnds(x) ==
    /\ x.scanning = x.scans
    /\ x.probes \subseteq DOMAIN x.checks /\ x.rejoins \subseteq DOMAIN x.checks
    /\ \A t \in x.deadlines : t[1] \in DOMAIN x.checks /\ t[2] = x.checks[t[1]].timer
    /\ \A w \in x.waits : x.sweeps[w[1]] = w[2]
    /\ x.pending.kind # "none" => x.apply.runs \/ x.reprobing \/ Verifying(x) \/ \E r \in RadioSet : x.scans[r] > 0

DriverInv == DriverHolds(d) /\ TurnEnds(d)
-----------------------------------------------------------------------------
\* Following the selector.

\* How a state of the driver follows from another as it works on what it
\* verifies.
IsNew(c) == ~c.armed /\ ~c.awaits /\ ~c.probing /\ c.timer = 0 /\ c.at \in {Association, Addressing}

Kept(x, y) ==
    \A a \in DOMAIN y.checks :
        \/ a \in DOMAIN x.checks /\ y.checks[a] = x.checks[a]
        \/ a \notin 0..x.sel.next /\ IsNew(y.checks[a]) /\ y.wants

Works(x, y) ==
    /\ SameOthers(x, y) /\ Descends(x.sel, y.sel) /\ y.sel.doc = x.sel.doc
    /\ x.wants => y.wants
    /\ ~y.wants => LinksOf(y.sel) = LinksOf(x.sel)

SameOut(x, y) ==
    /\ y.joins = x.joins /\ y.rescans = x.rescans /\ y.deadlines = x.deadlines /\ y.probes = x.probes

\* The selector's new state carries over what is checked.
Carries(checks, old, new) ==
    /\ \A a \in DOMAIN checks : checks[a].on \notin Moved(old, new) => a \in Attempts(new)
    /\ \A i \in Interfaces : new.held[i].candidate # 0 =>
         IF new.held[i].attempt \in DOMAIN checks THEN IsOf(checks[new.held[i].attempt], new, i)
         ELSE /\ i \in Moved(old, new) /\ new.held[i].attempt \notin 0..old.next
              /\ new.held[i].at \in {Association, Addressing}

LEMMA AttemptsAre ==
    ASSUME NEW s
    PROVE  Attempts(s) = {s.held[i].attempt : i \in {j \in Interfaces : s.held[j].candidate # 0}}
<1> DEFINE links == LinksOf(s)
<1>1. \A i \in Interfaces : links[i].candidate = s.held[i].candidate /\ links[i].attempt = s.held[i].attempt
  BY DEF LinksOf
<1> HIDE DEF links
<1>2. AttemptsIn(links) = {s.held[i].attempt : i \in {j \in Interfaces : s.held[j].candidate # 0}}
  BY <1>1 DEF AttemptsIn
<1> QED
  BY <1>2 DEF Attempts, links

LEMMA HeldIsAttempt ==
    ASSUME NEW s, NEW i \in Interfaces, s.held[i].candidate # 0
    PROVE  s.held[i].attempt \in Attempts(s)
BY AttemptsAre

LEMMA HeldOnce ==
    ASSUME NEW s, Numbered(s), NEW i \in Interfaces, s.held[i].candidate # 0
    PROVE  On(s, s.held[i].attempt) = {i}
BY DEF Numbered, On

KeptOf(checks, new, moved) == {a \in DOMAIN checks : checks[a].on \in moved => On(new, a) = {checks[a].on}}
BegunOf(checks, new, moved) ==
    {i \in moved : new.held[i].candidate # 0 /\ new.held[i].attempt \notin DOMAIN checks}

\* What is kept of the checks, and what is begun, are the attempts held.
LEMMA KeepsHeld ==
    ASSUME NEW checks, NEW old, NEW new, Numbered(new), Carries(checks, old, new), NEW moved, moved = Moved(old, new),
           NEW kept, kept = KeptOf(checks, new, moved), NEW begun, begun = BegunOf(checks, new, moved)
    PROVE  /\ kept = DOMAIN checks \cap Attempts(new)
           /\ begun = {i \in Interfaces : new.held[i].candidate # 0 /\ new.held[i].attempt \notin DOMAIN checks}
           /\ kept \cup {new.held[i].attempt : i \in begun} = Attempts(new)
<1> USE DEF KeptOf, BegunOf
<1>1. ASSUME NEW a \in DOMAIN checks PROVE a \in kept <=> a \in Attempts(new)
  <2>1. CASE a \in Attempts(new)
    <3>1. PICK i \in Interfaces : new.held[i].candidate # 0 /\ new.held[i].attempt = a
      BY <2>1, AttemptsAre
    <3>2. checks[a].on = i /\ On(new, a) = {i}
      BY <3>1, HeldOnce DEF Carries, IsOf
    <3> QED
      BY <2>1, <3>2
  <2>2. CASE a \in kept
    <3>1. CASE checks[a].on \notin moved
      BY <3>1 DEF Carries
    <3>2. CASE checks[a].on \in moved
      <4>1. PICK i : i = checks[a].on
        OBVIOUS
      <4>2. i \in On(new, a)
        BY <2>2, <3>2, <4>1
      <4>3. i \in Interfaces /\ new.held[i].candidate # 0 /\ new.held[i].attempt = a
        BY <4>2 DEF On
      <4>4. new.held[i].attempt \in Attempts(new)
        BY <4>3, HeldIsAttempt
      <4> QED
        BY <2>2, <4>3, <4>4
    <3> QED
      BY <3>1, <3>2
  <2> QED
    BY <2>1, <2>2
<1>2. begun = {i \in Interfaces : new.held[i].candidate # 0 /\ new.held[i].attempt \notin DOMAIN checks}
  BY DEF Carries, Moved
<1>3. kept \cup {new.held[i].attempt : i \in begun} = Attempts(new)
  BY <1>1, <1>2, AttemptsAre
<1> QED
  BY <1>1, <1>2, <1>3

FollowPut(x, s, c, w, l, p) == [x EXCEPT !.sel = s, !.checks = c, !.wants = w, !.last = l, !.placed = p]

LEMMA FollowPuts ==
    ASSUME NEW x, IsDriver(x), NEW s, NEW c, NEW w, NEW l, NEW p, NEW y, y = FollowPut(x, s, c, w, l, p)
    PROVE  /\ IsDriver(y) /\ SameOthers(x, y) /\ SameOut(x, y) /\ y.operating = x.operating
           /\ y.sel = s /\ y.checks = c /\ y.wants = w
<1> USE DEF FollowPut
<1>1. IsDriver(y)
  BY Zenon DEF IsDriver, Fields
<1>2. SameOthers(x, y)
  BY DEF IsDriver, Fields, SameOthers
<1>3. SameOut(x, y)
  BY DEF IsDriver, Fields, SameOut
<1>4. y.operating = x.operating /\ y.sel = s /\ y.checks = c /\ y.wants = w
  BY DEF IsDriver, Fields
<1> QED
  BY <1>1, <1>2, <1>3, <1>4

LEMMA FollowFields ==
    ASSUME NEW x, IsDriver(x), NEW new, NEW moved, NEW kept, NEW begun, NEW y, y = FollowLinks(x, new, moved, kept, begun)
    PROVE  /\ IsDriver(y) /\ SameOthers(x, y) /\ SameOut(x, y) /\ y.operating = x.operating /\ y.sel = new
           /\ y.wants = (x.wants \/ moved # {} \/ x.sel.hotspot # new.hotspot)
           /\ y.checks = [a \in kept \cup {new.held[i].attempt : i \in begun} |->
                  IF a \in kept THEN x.checks[a]
                  ELSE Begins(x, new, CHOOSE i \in begun : new.held[i].attempt = a)]
<1> DEFINE checks == [a \in kept \cup {new.held[i].attempt : i \in begun} |->
                  IF a \in kept THEN x.checks[a]
                  ELSE Begins(x, new, CHOOSE i \in begun : new.held[i].attempt = a)]
           last == [i \in Interfaces |->
                  IF i \in begun THEN [ever |-> TRUE, was |-> Candidate(new, new.held[i].candidate)]
                  ELSE x.last[i]]
           placed == [rank \in DOMAIN x.placed |->
                  IF \E i \in begun : i \in RadioSet /\ new.held[i].candidate = rank
                  THEN CHOOSE i \in begun : new.held[i].candidate = rank
                  ELSE x.placed[rank]]
           wants == x.wants \/ moved # {} \/ x.sel.hotspot # new.hotspot
<1>1. PICK c, l, p, w : c = checks /\ l = last /\ p = placed /\ w = wants
  OBVIOUS
<1>2. y = FollowPut(x, new, c, w, l, p)
  BY <1>1 DEF FollowLinks, FollowPut
<1> HIDE DEF checks, last, placed, wants
<1>3. /\ IsDriver(y) /\ SameOthers(x, y) /\ SameOut(x, y) /\ y.operating = x.operating
      /\ y.sel = new /\ y.checks = c /\ y.wants = w
  BY <1>2, FollowPuts
<1> QED
  BY <1>1, <1>3 DEF checks, wants
-----------------------------------------------------------------------------
LEMMA BegunIs ==
    ASSUME NEW x, NEW new, NEW i \in Interfaces, InHand(new), new.held[i].at \in {Association, Addressing},
           NEW c, c = Begins(x, new, i)
    PROVE  /\ IsCheck(c) /\ IsNew(c)
           /\ c.on = i /\ c.candidate = new.held[i].candidate /\ c.at = new.held[i].at
<1>1. PICK stale : stale = Stale(x, i, Candidate(new, new.held[i].candidate))
  OBVIOUS
<1>2. c = NewCheck(new.held[i].candidate, i, new.held[i].at, stale)
  BY <1>1 DEF Begins
<1>3. PICK candidate, at : candidate = new.held[i].candidate /\ at = new.held[i].at
  OBVIOUS
<1>4. c = [candidate |-> candidate, on |-> i, at |-> at, armed |-> FALSE, awaits |-> FALSE,
           stale |-> stale, probing |-> FALSE, timer |-> 0]
  BY <1>2, <1>3 DEF NewCheck
<1>5. at \in {2, 3}
  BY <1>3 DEF Association, Addressing
<1>6. c.on = i /\ c.candidate = candidate /\ c.at = at /\ ~c.armed /\ ~c.awaits /\ ~c.probing /\ c.timer = 0
      /\ c.armed = FALSE /\ c.awaits = FALSE /\ c.probing = FALSE
  BY <1>4
<1>7. c = [f \in CheckFields |-> c[f]]
  BY <1>4 DEF CheckFields
<1>8. IsCheck(c)
  <2>1. {c.armed, c.awaits, c.probing} \subseteq BOOLEAN
    BY <1>6
  <2>2. c.on \in Interfaces /\ c.at \in 2..5 /\ c.timer \in Nat
    BY <1>5, <1>6
  <2> QED
    BY <1>7, <2>1, <2>2 DEF IsCheck, Association, Established
<1> QED
  BY <1>3, <1>5, <1>6, <1>8 DEF IsNew, Association, Addressing

LEMMA FollowedChecks ==
    ASSUME NEW x, IsDriver(x), ChecksAre(x), NEW new, InHand(new), Numbered(new), Carries(x.checks, x.sel, new),
           NEW y, y = FollowMoved(x, new, Moved(x.sel, new))
    PROVE  /\ IsDriver(y) /\ SameOthers(x, y) /\ SameOut(x, y) /\ y.operating = x.operating /\ y.sel = new
           /\ y.wants = (x.wants \/ Moved(x.sel, new) # {} \/ x.sel.hotspot # new.hotspot)
           /\ ChecksAre(y) /\ Follows(y.checks, new) /\ Kept(x, y)
<1>1. PICK moved : moved = Moved(x.sel, new)
  OBVIOUS
<1>2. PICK kept : kept = KeptOf(x.checks, new, moved)
  OBVIOUS
<1>3. PICK begun : begun = BegunOf(x.checks, new, moved)
  OBVIOUS
<1>4. y = FollowLinks(x, new, moved, kept, begun)
  BY <1>1, <1>2, <1>3 DEF FollowMoved, KeptOf, BegunOf
<1>5. /\ IsDriver(y) /\ SameOthers(x, y) /\ SameOut(x, y) /\ y.operating = x.operating /\ y.sel = new
      /\ y.wants = (x.wants \/ moved # {} \/ x.sel.hotspot # new.hotspot)
      /\ y.checks = [a \in kept \cup {new.held[i].attempt : i \in begun} |->
             IF a \in kept THEN x.checks[a]
             ELSE Begins(x, new, CHOOSE i \in begun : new.held[i].attempt = a)]
  BY <1>4, FollowFields
<1>6. /\ kept = DOMAIN x.checks \cap Attempts(new)
      /\ begun = {i \in Interfaces : new.held[i].candidate # 0 /\ new.held[i].attempt \notin DOMAIN x.checks}
      /\ kept \cup {new.held[i].attempt : i \in begun} = Attempts(new)
  BY <1>1, <1>2, <1>3, KeepsHeld
<1> DEFINE Check1(a) == IF a \in kept THEN x.checks[a]
                        ELSE Begins(x, new, CHOOSE i \in begun : new.held[i].attempt = a)
<1>7. y.checks = [a \in Attempts(new) |-> Check1(a)]
  BY <1>5, <1>6
<1> HIDE DEF Check1
<1>8. DOMAIN y.checks = Attempts(new) /\ y.checks = [a \in DOMAIN y.checks |-> y.checks[a]]
      /\ \A a \in Attempts(new) : y.checks[a] = Check1(a)
  BY <1>7
<1>9. ASSUME NEW a \in kept PROVE y.checks[a] = x.checks[a]
  BY <1>6, <1>8, <1>9 DEF Check1
<1>10. ASSUME NEW i \in begun
       PROVE  LET c == y.checks[new.held[i].attempt] IN
              /\ IsCheck(c) /\ IsNew(c) /\ new.held[i].attempt \notin 0..x.sel.next /\ y.wants
              /\ c.on = i /\ c.candidate = new.held[i].candidate /\ c.at = new.held[i].at
  <2>1. PICK a : a = new.held[i].attempt
    OBVIOUS
  <2>2. i \in Interfaces /\ new.held[i].candidate # 0 /\ a \notin DOMAIN x.checks /\ a \notin kept
    BY <1>6, <2>1
  <2>3. a \in Attempts(new)
    BY <2>1, <2>2, HeldIsAttempt
  <2>4. \A j \in begun : new.held[j].attempt = a => j = i
    BY <1>6, <2>1, <2>2 DEF Numbered
  <2>5. (CHOOSE j \in begun : new.held[j].attempt = a) = i
    BY <2>1, <2>4
  <2>6. y.checks[a] = Begins(x, new, i)
    BY <1>8, <2>2, <2>3, <2>5 DEF Check1
  <2>7. i \in moved /\ a \notin 0..x.sel.next /\ new.held[i].at \in {Association, Addressing}
    BY <1>1, <2>1, <2>2 DEF Carries
  <2>8. y.wants
    BY <1>5, <2>7
  <2> QED
    BY <2>1, <2>2, <2>6, <2>7, <2>8, BegunIs
<1>11. ASSUME NEW a \in Attempts(new), a \notin kept
       PROVE  \E i \in begun : a = new.held[i].attempt
  BY <1>6, <1>11
<1>12. ChecksAre(y)
  <2>1. ASSUME NEW a \in Attempts(new) PROVE IsCheck(y.checks[a])
    <3>1. CASE a \in kept
      BY <1>6, <1>9, <3>1 DEF ChecksAre
    <3>2. CASE a \notin kept
      BY <1>10, <1>11, <2>1, <3>2
    <3> QED
      BY <3>1, <3>2
  <2> QED
    BY <1>8, <2>1 DEF ChecksAre
<1>13. Follows(y.checks, new)
  <2>1. ASSUME NEW i \in Interfaces, new.held[i].candidate # 0
        PROVE  IsOf(y.checks[new.held[i].attempt], new, i)
    <3>1. CASE new.held[i].attempt \in DOMAIN x.checks
      <4>1. new.held[i].attempt \in kept
        BY <1>6, <2>1, <3>1, HeldIsAttempt
      <4> QED
        BY <1>9, <2>1, <3>1, <4>1 DEF Carries
    <3>2. CASE new.held[i].attempt \notin DOMAIN x.checks
      <4>1. i \in begun
        BY <1>6, <2>1, <3>2
      <4> QED
        BY <1>10, <4>1 DEF IsOf
    <3> QED
      BY <3>1, <3>2
  <2> QED
    BY <1>8, <2>1 DEF Follows
<1>14. Kept(x, y)
  <2>1. ASSUME NEW a \in Attempts(new)
        PROVE  \/ a \in DOMAIN x.checks /\ y.checks[a] = x.checks[a]
               \/ a \notin 0..x.sel.next /\ IsNew(y.checks[a]) /\ y.wants
    <3>1. CASE a \in kept
      BY <1>6, <1>9, <3>1
    <3>2. CASE a \notin kept
      BY <1>10, <1>11, <2>1, <3>2
    <3> QED
      BY <3>1, <3>2
  <2> QED
    BY <1>8, <2>1 DEF Kept
<1> QED
  BY <1>1, <1>5, <1>12, <1>13, <1>14

\* What is kept works on and stands.
LEMMA KeptTimed ==
    ASSUME NEW x, NEW y, Kept(x, y), SameOut(x, y), x.sel.next \in Nat, y.sel.next \in Nat, x.sel.next <= y.sel.next
    PROVE  Timed(x) => Timed(y)
<1> SUFFICES ASSUME Timed(x), NEW t \in y.deadlines
             PROVE  /\ t[1] \in 1..y.sel.next
                    /\ t[1] \in DOMAIN y.checks =>
                         /\ t[2] \in 0..y.checks[t[1]].timer
                         /\ t[2] = y.checks[t[1]].timer =>
                              /\ t[3] = y.checks[t[1]].at /\ y.checks[t[1]].at \in {Addressing, Gateway}
                              /\ ~y.checks[t[1]].probing
  BY DEF Timed
<1>1. t \in x.deadlines /\ t[1] \in 1..x.sel.next
  BY DEF SameOut, Timed
<1>2. t[1] \in 0..x.sel.next /\ t[1] \in 1..y.sel.next
  BY <1>1
<1>3. ASSUME t[1] \in DOMAIN y.checks
      PROVE  t[1] \in DOMAIN x.checks /\ y.checks[t[1]] = x.checks[t[1]]
  BY <1>2, <1>3 DEF Kept
<1> QED
  BY <1>1, <1>2, <1>3 DEF Timed

LEMMA KeptProbes ==
    ASSUME NEW x, NEW y, Kept(x, y), SameOut(x, y), x.sel.next \in Nat, y.sel.next \in Nat, x.sel.next <= y.sel.next
    PROVE  ProbesAre(x) => ProbesAre(y)
<1> SUFFICES ASSUME ProbesAre(x) PROVE ProbesAre(y)
  OBVIOUS
<1>1. \A a \in y.probes : a \in x.probes /\ a \in 1..y.sel.next /\ a \in 0..x.sel.next
  BY DEF SameOut, ProbesAre
<1>2. ASSUME NEW a \in DOMAIN y.checks
      PROVE  /\ y.checks[a].probing <=> a \in y.probes
             /\ y.checks[a].probing => y.checks[a].at = Gateway
  <2>1. CASE a \in DOMAIN x.checks /\ y.checks[a] = x.checks[a]
    BY <2>1 DEF SameOut, ProbesAre
  <2>2. CASE a \notin 0..x.sel.next /\ IsNew(y.checks[a])
    BY <1>1, <2>2 DEF IsNew
  <2> QED
    BY <2>1, <2>2 DEF Kept
<1> QED
  BY <1>1, <1>2 DEF ProbesAre

LEMMA KeptStations ==
    ASSUME NEW x, NEW y, Kept(x, y), SameOthers(x, y), x.sel.next \in Nat, y.sel.next \in Nat, x.sel.next <= y.sel.next
    PROVE  StationsAre(x) => StationsAre(y)
<1> SUFFICES ASSUME StationsAre(x) PROVE StationsAre(y)
  OBVIOUS
<1>1. y.stations = x.stations /\ y.rejoins = x.rejoins
  BY DEF SameOthers
<1>2. ASSUME NEW a \in y.rejoins
      PROVE  a \in 1..y.sel.next /\ (a \in DOMAIN y.checks => y.checks[a].on \in RadioSet)
  <2>1. a \in x.rejoins /\ a \in 1..x.sel.next /\ (a \in DOMAIN x.checks => x.checks[a].on \in RadioSet)
    BY <1>1 DEF StationsAre
  <2>2. a \in 0..x.sel.next /\ a \in 1..y.sel.next
    BY <2>1
  <2> QED
    BY <2>1, <2>2 DEF Kept
<1> QED
  BY <1>1, <1>2 DEF StationsAre

LEMMA KeptWorking ==
    ASSUME NEW x, NEW y, Working(x), Kept(x, y), SameOthers(x, y), SameOut(x, y),
           IsDriver(y), InHand(y.sel), Numbered(y.sel), ChecksAre(y), x.sel.next <= y.sel.next
    PROVE  Working(y)
<1>1. x.sel.next \in Nat /\ y.sel.next \in Nat
  BY DEF Working, InHand, Selectors
<1>2. Timed(y) /\ ProbesAre(y) /\ StationsAre(y)
  BY <1>1, KeptTimed, KeptProbes, KeptStations DEF Working
<1>3. Unarmed(y)
  BY DEF Working, Unarmed, Kept, IsNew
<1> QED
  BY <1>2, <1>3 DEF Working

LEMMA KeptStands ==
    ASSUME NEW x, NEW y, Kept(x, y), SameOthers(x, y), SameOut(x, y), x.wants => y.wants,
           NEW S, NEW why, NEW b, AllStand(x, S, why, b)
    PROVE  AllStand(y, S, why, b)
<1> SUFFICES ASSUME NEW a \in DOMAIN y.checks
             PROVE  Stands(y, a) \/ (a \in S /\ Excused(y.checks[a], why)) \/ (a = b /\ b # 0)
  BY DEF AllStand
<1>1. CASE a \in DOMAIN x.checks /\ y.checks[a] = x.checks[a]
  <2>1. Stands(x, a) => Stands(y, a)
    BY <1>1 DEF Stands, SameOthers, SameOut
  <2> QED
    BY <1>1, <2>1 DEF AllStand
<1>2. CASE IsNew(y.checks[a]) /\ y.wants
  BY <1>2 DEF IsNew, Stands
<1> QED
  BY <1>1, <1>2 DEF Kept
-----------------------------------------------------------------------------
Fed(x, y) == Works(x, y) /\ SameOut(x, y) /\ Kept(x, y)

LEMMA FailedPut ==
    ASSUME NEW z, IsDriver(z), NEW f, NEW y, y = [z EXCEPT !.failed = f]
    PROVE  /\ IsDriver(y) /\ SameOthers(z, y) /\ SameOut(z, y) /\ y.operating = z.operating
           /\ y.sel = z.sel /\ y.checks = z.checks /\ y.wants = z.wants
<1>1. IsDriver(y)
  BY DEF IsDriver, Fields
<1>2. SameOthers(z, y)
  BY DEF IsDriver, Fields, SameOthers
<1>3. SameOut(z, y)
  BY DEF IsDriver, Fields, SameOut
<1>4. y.operating = z.operating /\ y.sel = z.sel /\ y.checks = z.checks /\ y.wants = z.wants
  BY DEF IsDriver, Fields
<1> QED
  BY <1>1, <1>2, <1>3, <1>4

LEMMA OthersTwice ==
    ASSUME NEW x, NEW y, NEW z, SameOthers(x, y), SameOthers(y, z)
    PROVE  SameOthers(x, z)
BY DEF SameOthers

LEMMA OutTwice ==
    ASSUME NEW x, NEW y, NEW z, SameOut(x, y), SameOut(y, z)
    PROVE  SameOut(x, z)
BY DEF SameOut

LEMMA NotMoved ==
    ASSUME NEW s, NEW u, Moved(s, u) = {}
    PROVE  LinksOf(u) = LinksOf(s)
<1>1. \A i \in Interfaces : u.held[i].candidate = s.held[i].candidate /\ u.held[i].attempt = s.held[i].attempt
  BY DEF Moved
<1> QED
  BY <1>1 DEF LinksOf

\* The checks follow the selector, and what is new among them is unarmed.
LEMMA FollowVerifies ==
    ASSUME NEW x, Working(x), NEW S, NEW why, NEW b, AllStand(x, S, why, b),
           NEW new, InHand(new), Numbered(new), x.sel.next <= new.next, Carries(x.checks, x.sel, new),
           NEW said, NEW y, y = Follow(x, new, said)
    PROVE  /\ Verifies(y, S, why, b) /\ Kept(x, y) /\ SameOthers(x, y) /\ SameOut(x, y)
           /\ y.sel = new /\ (x.wants => y.wants)
           /\ ~y.wants => LinksOf(y.sel) = LinksOf(x.sel)
<1>1. PICK z : z = FollowMoved(x, new, Moved(x.sel, new))
  OBVIOUS
<1>2. PICK f : y = [z EXCEPT !.failed = f]
  <2> DEFINE f == z.failed \cup {rank \in said : StateOf(new, rank).is = "unavailable" /\ StateOf(new, rank).at # Carrier}
  <2>1. y = [z EXCEPT !.failed = f]
    BY <1>1 DEF Follow
  <2> HIDE DEF f
  <2> QED
    BY <2>1
<1>3. IsDriver(x) /\ ChecksAre(x)
  BY DEF Working
<1>4. /\ IsDriver(z) /\ SameOthers(x, z) /\ SameOut(x, z) /\ z.sel = new
      /\ z.wants = (x.wants \/ Moved(x.sel, new) # {} \/ x.sel.hotspot # new.hotspot)
      /\ ChecksAre(z) /\ Follows(z.checks, new) /\ Kept(x, z)
  BY <1>1, <1>3, FollowedChecks
<1>5. /\ IsDriver(y) /\ SameOthers(z, y) /\ SameOut(z, y)
      /\ y.sel = z.sel /\ y.checks = z.checks /\ y.wants = z.wants
  BY <1>2, <1>4, FailedPut
<1>6. SameOthers(x, y) /\ SameOut(x, y)
  BY <1>4, <1>5, OthersTwice, OutTwice
<1>7. ChecksAre(y) /\ Follows(y.checks, y.sel) /\ Kept(x, y)
  BY <1>4, <1>5 DEF ChecksAre, Kept
<1>8. x.wants => y.wants
  BY <1>4, <1>5
<1>9. ~y.wants => LinksOf(y.sel) = LinksOf(x.sel)
  BY <1>4, <1>5, NotMoved
<1>10. Working(y)
  BY <1>4, <1>5, <1>6, <1>7, KeptWorking
<1>11. AllStand(y, S, why, b)
  BY <1>6, <1>7, <1>8, KeptStands
<1> QED
  BY <1>4, <1>5, <1>6, <1>7, <1>8, <1>9, <1>10, <1>11 DEF Verifies

LEMMA CarriesSettled ==
    ASSUME NEW s, InHand(s), NEW t, Noted(s, t), Numbered(t), NEW u, SettlesTo(t, u), NEW checks, Follows(checks, t)
    PROVE  Carries(checks, s, u)
<1>1. t.next = s.next /\ s.next \in Nat
  BY DEF Noted, InHand, Selectors
<1>2. ASSUME NEW a \in DOMAIN checks, checks[a].on \notin Moved(s, u)
      PROVE  a \in Attempts(u)
  <2>1. PICK i \in Interfaces : t.held[i].candidate # 0 /\ t.held[i].attempt = a
    BY AttemptsAre DEF Follows
  <2>2. checks[a].on = i
    BY <2>1 DEF Follows, IsOf
  <2>3. u.held[i].candidate # 0 /\ u.held[i].attempt = a
    BY <1>2, <2>1, <2>2 DEF Moved, Noted
  <2> QED
    BY <2>3, HeldIsAttempt
<1>3. ASSUME NEW i \in Interfaces, u.held[i].candidate # 0
      PROVE  IF u.held[i].attempt \in DOMAIN checks THEN IsOf(checks[u.held[i].attempt], u, i)
             ELSE /\ i \in Moved(s, u) /\ u.held[i].attempt \notin 0..s.next
                  /\ u.held[i].at \in {Association, Addressing}
  <2>1. CASE u.held[i] = t.held[i]
    <3>1. u.held[i].attempt \in DOMAIN checks
      BY <1>3, <2>1, HeldIsAttempt DEF Follows
    <3>2. IsOf(checks[u.held[i].attempt], u, i)
      BY <1>3, <2>1 DEF Follows, IsOf
    <3> QED
      BY <3>1, <3>2
  <2>2. CASE IsBegun(t, u, i)
    <3>1. PICK a : a = u.held[i].attempt
      OBVIOUS
    <3>2. a \in (s.next + 1)..u.next /\ u.next \in Nat /\ u.held[i].at \in {Association, Addressing}
      BY <1>1, <2>2, <3>1 DEF IsBegun, SettlesTo
    <3>3. a \notin 0..s.next
      BY <1>1, <3>2
    <3>4. a \notin DOMAIN checks
      <4>1. SUFFICES ASSUME a \in DOMAIN checks PROVE FALSE
        OBVIOUS
      <4>2. PICK j \in Interfaces : t.held[j].candidate # 0 /\ t.held[j].attempt = a
        BY <4>1, AttemptsAre DEF Follows
      <4>3. a \in 1..s.next
        BY <1>1, <4>2 DEF Numbered, IsAttempt
      <4> QED
        BY <1>1, <3>3, <4>3
    <3>5. i \in Moved(s, u)
      <4>1. SUFFICES ASSUME i \notin Moved(s, u) PROVE FALSE
        OBVIOUS
      <4>2. t.held[i].candidate # 0 /\ t.held[i].attempt = a
        BY <1>3, <3>1, <4>1 DEF Moved, Noted
      <4>3. a \in 1..s.next
        BY <1>1, <4>2 DEF Numbered, IsAttempt
      <4> QED
        BY <1>1, <3>3, <4>3
    <3> QED
      BY <3>1, <3>2, <3>3, <3>4, <3>5
  <2> QED
    BY <1>3, <2>1, <2>2 DEF SettlesTo
<1> QED
  BY <1>2, <1>3 DEF Carries

LEMMA SettledFeeds ==
    ASSUME NEW x, Working(x), NEW S, NEW why, NEW b, AllStand(x, S, why, b),
           NEW t, Noted(x.sel, t), Numbered(t), Follows(x.checks, t), NEW y, y = Feed(x, Settle(t))
    PROVE  Verifies(y, S, why, b) /\ Fed(x, y) /\ y.sel = Settle(t)
<1>1. PICK new : new = Settle(t)
  OBVIOUS
<1>2. InHand(x.sel) /\ InHand(t) /\ t.next = x.sel.next /\ t.doc = x.sel.doc
  BY DEF Working, Noted
<1>3. InHand(new) /\ Numbered(new) /\ SettlesTo(t, new)
  BY <1>1, <1>2, SettleNumbers
<1>4. x.sel.next <= new.next /\ new.doc = x.sel.doc
  BY <1>2, <1>3 DEF SettlesTo
<1>5. Carries(x.checks, x.sel, new)
  BY <1>2, <1>3, CarriesSettled
<1>6. Descends(x.sel, new)
  BY <1>2, <1>3, NotedDescends
<1>7. PICK said : y = Follow(x, new, said)
  BY <1>1 DEF Feed
<1>8. /\ Verifies(y, S, why, b) /\ Kept(x, y) /\ SameOthers(x, y) /\ SameOut(x, y)
      /\ y.sel = new /\ (x.wants => y.wants)
      /\ ~y.wants => LinksOf(y.sel) = LinksOf(x.sel)
  BY <1>3, <1>4, <1>5, <1>7, FollowVerifies
<1> QED
  BY <1>1, <1>4, <1>6, <1>8 DEF Fed, Works

LEMMA SensedFeeds ==
    ASSUME NEW x, NEW S, NEW why, NEW b, Verifies(x, S, why, b), NEW t, Sensed(x.sel, t), NEW y, y = Feed(x, Settle(t))
    PROVE  Verifies(y, S, why, b) /\ Fed(x, y) /\ y.sel = Settle(t)
<1>1. Working(x) /\ Follows(x.checks, x.sel) /\ AllStand(x, S, why, b)
  BY DEF Verifies
<1>2. Numbered(t)
  BY <1>1, SensedNumbers DEF Working
<1>3. Follows(x.checks, t)
  <2>1. t.held = x.sel.held
    BY DEF Sensed
  <2>2. Attempts(t) = Attempts(x.sel)
    BY <2>1, AttemptsAre
  <2> QED
    BY <1>1, <2>1, <2>2 DEF Follows, IsOf
<1> QED
  BY <1>1, <1>2, <1>3, SensedIsNoted, SettledFeeds
-----------------------------------------------------------------------------
\* One attempt failed, or passed to its next stage.
LEMMA StandsBut ==
    ASSUME NEW y, NEW a, a \notin DOMAIN y.checks \/ Stands(y, a),
           NEW S, NEW why, NEW b \in {0, a}, AllStand(y, S, why, b)
    PROVE  AllStand(y, S \ {a}, why, 0)
BY DEF AllStand

LEMMA CheckedNumbers ==
    ASSUME NEW x, Working(x), Follows(x.checks, x.sel), NEW a \in DOMAIN x.checks
    PROVE  /\ a \in 1..x.sel.next /\ a \in 0..x.sel.next /\ x.sel.next \in Nat
           /\ \E i \in Interfaces : /\ x.sel.held[i].candidate # 0 /\ x.sel.held[i].attempt = a
                                    /\ IsAttempt(x.sel, i) /\ IsOf(x.checks[a], x.sel, i)
<1>1. PICK i \in Interfaces : x.sel.held[i].candidate # 0 /\ x.sel.held[i].attempt = a
  BY AttemptsAre DEF Follows
<1>2. IsAttempt(x.sel, i) /\ IsOf(x.checks[a], x.sel, i)
  BY <1>1 DEF Working, Numbered, Follows
<1>3. x.sel.next \in Nat
  BY DEF Working, InHand, Selectors
<1>4. a \in 1..x.sel.next
  BY <1>1, <1>2 DEF IsAttempt
<1> QED
  BY <1>1, <1>2, <1>3, <1>4

LEMMA FailedStep ==
    ASSUME NEW x, NEW S, NEW why, NEW a, NEW b \in {0, a}, Verifies(x, S, why, b), a \in 1..x.sel.next,
           NEW stage \in Association..Gateway, NEW y, y = Failed(x, a, stage)
    PROVE  Verifies(y, S \ {a}, why, 0) /\ Fed(x, y) /\ a \notin DOMAIN y.checks
<1>1. InHand(x.sel) /\ Numbered(x.sel)
  BY DEF Verifies, Working
<1>2. PICK t : /\ Sensed(x.sel, t) /\ FailedStage(x.sel, a, stage) = Settle(t)
               /\ \A i \in On(x.sel, a) : x.sel.held[i].candidate \in Ranks(x.sel) =>
                    t.failures[x.sel.held[i].candidate] # 0
  BY <1>1, FailedNotes
<1>3. \A i \in On(x.sel, a) : x.sel.held[i].candidate \in Ranks(x.sel)
  BY <1>1 DEF On, Numbered, IsAttempt
<1>4. On(Settle(t), a) = {}
  BY <1>1, <1>2, <1>3, FailedIsGone
<1>5. y = Feed(x, Settle(t))
  BY <1>2 DEF Failed
<1>6. Verifies(y, S, why, b) /\ Fed(x, y) /\ y.sel = Settle(t)
  BY <1>2, <1>5, SensedFeeds
<1>7. a \notin DOMAIN y.checks
  <2>1. SUFFICES ASSUME a \in DOMAIN y.checks PROVE FALSE
    OBVIOUS
  <2>2. PICK i \in Interfaces : y.sel.held[i].candidate # 0 /\ y.sel.held[i].attempt = a
    BY <1>6, <2>1, AttemptsAre DEF Verifies, Follows
  <2> QED
    BY <1>4, <1>6, <2>2 DEF On
<1> QED
  BY <1>6, <1>7, StandsBut DEF Verifies

\* A check gone ahead of the selector, which has yet to be told.
Ahead(x, a, stage) ==
    /\ DOMAIN x.checks = Attempts(x.sel)
    /\ \A i \in Interfaces : x.sel.held[i].candidate # 0 =>
         LET c == x.checks[x.sel.held[i].attempt] IN
         /\ c.on = i /\ c.candidate = x.sel.held[i].candidate
         /\ IF x.sel.held[i].attempt = a THEN x.sel.held[i].at = stage /\ c.at = stage + 1
            ELSE c.at = x.sel.held[i].at

LEMMA PassedStep ==
    ASSUME NEW x, Working(x), NEW S, NEW why, NEW b, AllStand(x, S, why, b),
           NEW a, NEW stage \in Association..Gateway, Ahead(x, a, stage), NEW y, y = Passed(x, a, stage)
    PROVE  Verifies(y, S, why, b) /\ Fed(x, y)
<1>1. InHand(x.sel) /\ Numbered(x.sel)
  BY DEF Working
<1>2. PICK t : Noted(x.sel, t) /\ MovesOn(x.sel, t, a, stage) /\ PassedStage(x.sel, a, stage) = Settle(t)
  BY <1>1, PassedNotes
<1>3. Numbered(t)
  BY <1>1, <1>2, MovedOnNumbers
<1>4. Attempts(t) = Attempts(x.sel)
  <2>1. \A i \in Interfaces : t.held[i].candidate = x.sel.held[i].candidate /\ t.held[i].attempt = x.sel.held[i].attempt
    BY <1>2 DEF Noted
  <2> QED
    BY <2>1, AttemptsAre
<1>5. ASSUME NEW i \in Interfaces, t.held[i].candidate # 0
      PROVE  IsOf(x.checks[t.held[i].attempt], t, i)
  <2>1. t.held[i].candidate = x.sel.held[i].candidate /\ t.held[i].attempt = x.sel.held[i].attempt
    BY <1>2 DEF Noted
  <2>2. t.held[i].at = IF x.sel.held[i].attempt = a /\ x.sel.held[i].at = stage THEN stage + 1 ELSE x.sel.held[i].at
    BY <1>2, <1>5, <2>1 DEF MovesOn, On
  <2> QED
    BY <1>5, <2>1, <2>2 DEF Ahead, IsOf
<1>6. Follows(x.checks, t)
  BY <1>4, <1>5 DEF Follows, Ahead
<1>7. y = Feed(x, Settle(t))
  BY <1>2 DEF Passed
<1> QED
  BY <1>2, <1>3, <1>6, <1>7, SettledFeeds
-----------------------------------------------------------------------------
\* What is done with one attempt's check.
Local(x, y, a) ==
    /\ IsDriver(y) /\ SameOthers(x, y) /\ y.sel = x.sel /\ y.wants = x.wants
    /\ ChecksAre(y) /\ DOMAIN y.checks = DOMAIN x.checks
    /\ \A b \in DOMAIN x.checks : b # a => y.checks[b] = x.checks[b]
    /\ y.checks[a].on = x.checks[a].on /\ y.checks[a].candidate = x.checks[a].candidate
    /\ x.joins \subseteq y.joins /\ x.rescans \subseteq y.rescans /\ x.deadlines \subseteq y.deadlines
    /\ \A t \in y.deadlines : t \in x.deadlines \/ t[1] = a
    /\ \A p : p # a => (p \in y.probes <=> p \in x.probes)

IsDue(x, a) ==
    LET c == x.checks[a] IN
    /\ \A t \in x.deadlines : t[1] = a =>
         /\ t[2] \in 0..c.timer
         /\ t[2] = c.timer => t[3] = c.at /\ c.at \in {Addressing, Gateway} /\ ~c.probing
    /\ a \in x.probes <=> c.probing
    /\ c.probing => c.at = Gateway
    /\ ~c.armed => c.at \in {Association, Addressing}

LEMMA LocalWorking ==
    ASSUME NEW x, Working(x), NEW a \in DOMAIN x.checks, a \in 1..x.sel.next, NEW y, Local(x, y, a), IsDue(y, a)
    PROVE  Working(y)
<1>1. Timed(y)
  <2>1. SUFFICES ASSUME NEW t \in y.deadlines
                 PROVE  /\ t[1] \in 1..y.sel.next
                        /\ t[1] \in DOMAIN y.checks =>
                             /\ t[2] \in 0..y.checks[t[1]].timer
                             /\ t[2] = y.checks[t[1]].timer =>
                                  /\ t[3] = y.checks[t[1]].at /\ y.checks[t[1]].at \in {Addressing, Gateway}
                                  /\ ~y.checks[t[1]].probing
    BY DEF Timed
  <2>2. CASE t[1] = a
    BY <2>2 DEF IsDue, Local
  <2>3. CASE t[1] # a
    <3>1. t \in x.deadlines
      BY <2>3 DEF Local
    <3>2. t[1] \in DOMAIN y.checks => t[1] \in DOMAIN x.checks /\ y.checks[t[1]] = x.checks[t[1]]
      BY <2>3 DEF Local
    <3>3. y.sel = x.sel
      BY DEF Local
    <3> QED
      BY <3>1, <3>2, <3>3 DEF Working, Timed
  <2> QED
    BY <2>2, <2>3
<1>2. ProbesAre(y)
  BY DEF Working, ProbesAre, Local, IsDue
<1>3. Unarmed(y)
  BY DEF Working, Unarmed, Local, IsDue
<1>4. StationsAre(y)
  BY DEF Working, StationsAre, Local, SameOthers
<1> QED
  BY <1>1, <1>2, <1>3, <1>4 DEF Working, Local

LEMMA LocalStands ==
    ASSUME NEW x, NEW a, NEW y, Local(x, y, a), NEW S, NEW why, NEW b \in {0, a}, AllStand(x, S, why, b), a # 0
    PROVE  AllStand(y, S, why, a)
<1> SUFFICES ASSUME NEW k \in DOMAIN y.checks, k # a
             PROVE  Stands(y, k) \/ (k \in S /\ Excused(y.checks[k], why))
  BY DEF AllStand
<1>1. k \in DOMAIN x.checks /\ y.checks[k] = x.checks[k]
  BY DEF Local
<1>2. Stands(x, k) \/ (k \in S /\ Excused(x.checks[k], why))
  BY <1>1 DEF AllStand
<1>3. Stands(x, k) => Stands(y, k)
  BY <1>1 DEF Stands, Local, SameOthers
<1> QED
  BY <1>1, <1>2, <1>3

LEMMA LocalFollows ==
    ASSUME NEW x, NEW a, NEW y, Local(x, y, a), Follows(x.checks, x.sel), y.checks[a].at = x.checks[a].at
    PROVE  Follows(y.checks, y.sel)
<1>1. ASSUME NEW i \in Interfaces, x.sel.held[i].candidate # 0
      PROVE  IsOf(y.checks[x.sel.held[i].attempt], x.sel, i)
  <2>1. x.sel.held[i].attempt \in DOMAIN x.checks
    BY <1>1, HeldIsAttempt DEF Follows
  <2>2. IsOf(x.checks[x.sel.held[i].attempt], x.sel, i)
    BY <1>1 DEF Follows
  <2>3. CASE x.sel.held[i].attempt = a
    BY <2>2, <2>3 DEF IsOf, Local
  <2>4. CASE x.sel.held[i].attempt # a
    BY <2>1, <2>2, <2>4 DEF IsOf, Local
  <2> QED
    BY <2>3, <2>4
<1> QED
  BY <1>1 DEF Follows, Local

LEMMA LocalAhead ==
    ASSUME NEW x, Working(x), NEW a \in DOMAIN x.checks, NEW y, Local(x, y, a), Follows(x.checks, x.sel),
           NEW stage, x.checks[a].at = stage, y.checks[a].at = stage + 1
    PROVE  Ahead(y, a, stage)
<1>1. ASSUME NEW i \in Interfaces, x.sel.held[i].candidate # 0
      PROVE  LET c == y.checks[x.sel.held[i].attempt] IN
             /\ c.on = i /\ c.candidate = x.sel.held[i].candidate
             /\ IF x.sel.held[i].attempt = a THEN x.sel.held[i].at = stage /\ c.at = stage + 1
                ELSE c.at = x.sel.held[i].at
  <2>1. x.sel.held[i].attempt \in DOMAIN x.checks
    BY <1>1, HeldIsAttempt DEF Follows
  <2>2. IsOf(x.checks[x.sel.held[i].attempt], x.sel, i)
    BY <1>1 DEF Follows
  <2>3. CASE x.sel.held[i].attempt = a
    BY <2>2, <2>3 DEF IsOf, Local
  <2>4. CASE x.sel.held[i].attempt # a
    BY <2>1, <2>2, <2>4 DEF IsOf, Local
  <2> QED
    BY <2>3, <2>4
<1> QED
  BY <1>1 DEF Ahead, Local, Follows

LEMMA LocalWorks ==
    ASSUME NEW x, Working(x), NEW a, NEW y, Local(x, y, a)
    PROVE  Works(x, y)
<1>1. Descends(x.sel, x.sel)
  BY DescendsSelf DEF Working
<1> QED
  BY <1>1 DEF Works, Local

\* An attempt's check changed at no stage.
LEMMA LocalStep ==
    ASSUME NEW x, NEW S, NEW why, NEW a \in DOMAIN x.checks, NEW b \in {0, a}, Verifies(x, S, why, b),
           NEW y, Local(x, y, a), IsDue(y, a), y.checks[a].at = x.checks[a].at, Stands(y, a)
    PROVE  Verifies(y, S \ {a}, why, 0) /\ Works(x, y)
<1>1. Working(x) /\ Follows(x.checks, x.sel) /\ AllStand(x, S, why, b)
  BY DEF Verifies
<1>2. a \in 1..x.sel.next /\ x.sel.next \in Nat
  BY <1>1, CheckedNumbers
<1>3. a # 0
  BY <1>2
<1>4. Working(y) /\ Follows(y.checks, y.sel) /\ AllStand(y, S, why, a) /\ Works(x, y)
  BY <1>1, <1>2, <1>3, LocalWorking, LocalFollows, LocalStands, LocalWorks
<1> QED
  BY <1>4, StandsBut DEF Verifies

\* What changes a check.
LEMMA ChecksPut ==
    ASSUME NEW x, ChecksAre(x), NEW a \in DOMAIN x.checks, NEW c, IsCheck(c), NEW h, h = [x.checks EXCEPT ![a] = c],
           NEW y, y.checks = h
    PROVE  /\ ChecksAre(y) /\ DOMAIN y.checks = DOMAIN x.checks /\ y.checks[a] = c
           /\ \A b \in DOMAIN x.checks : b # a => y.checks[b] = x.checks[b]
<1>1. DOMAIN h = DOMAIN x.checks /\ h[a] = c /\ (\A b \in DOMAIN x.checks : b # a => h[b] = x.checks[b])
      /\ h = [b \in DOMAIN h |-> h[b]]
  OBVIOUS
<1>2. \A b \in DOMAIN h : IsCheck(h[b])
  BY <1>1 DEF ChecksAre
<1> QED
  BY <1>1, <1>2 DEF ChecksAre

WorkPut(x, h, joins, rescans, deadlines, probes) ==
    [x EXCEPT !.checks = h, !.joins = joins, !.rescans = rescans, !.deadlines = deadlines, !.probes = probes]

LEMMA WorkPuts ==
    ASSUME NEW x, IsDriver(x), NEW h, NEW joins, NEW rescans, NEW deadlines, NEW probes,
           NEW y, y = WorkPut(x, h, joins, rescans, deadlines, probes)
    PROVE  /\ IsDriver(y) /\ SameOthers(x, y) /\ y.sel = x.sel /\ y.wants = x.wants /\ y.checks = h
           /\ y.joins = joins /\ y.rescans = rescans /\ y.deadlines = deadlines /\ y.probes = probes
<1> USE DEF WorkPut
<1>1. IsDriver(y)
  BY Zenon DEF IsDriver, Fields
<1>2. SameOthers(x, y)
  BY DEF IsDriver, Fields, SameOthers
<1>3. /\ y.sel = x.sel /\ y.wants = x.wants /\ y.checks = h
      /\ y.joins = joins /\ y.rescans = rescans /\ y.deadlines = deadlines /\ y.probes = probes
  BY DEF IsDriver, Fields
<1> QED
  BY <1>1, <1>2, <1>3
-----------------------------------------------------------------------------
LEMMA ChecksOnly ==
    ASSUME NEW x, IsDriver(x), NEW h
    PROVE  [x EXCEPT !.checks = h] = WorkPut(x, h, x.joins, x.rescans, x.deadlines, x.probes)
BY DEF IsDriver, Fields, WorkPut

LEMMA DeadlinesOnly ==
    ASSUME NEW x, IsDriver(x), NEW h, NEW D
    PROVE  [x EXCEPT !.checks = h, !.deadlines = D] = WorkPut(x, h, x.joins, x.rescans, D, x.probes)
BY DEF IsDriver, Fields, WorkPut

LEMMA ProbesOnly ==
    ASSUME NEW x, IsDriver(x), NEW h, NEW P
    PROVE  [x EXCEPT !.checks = h, !.probes = P] = WorkPut(x, h, x.joins, x.rescans, x.deadlines, P)
BY DEF IsDriver, Fields, WorkPut

LEMMA RescansOnly ==
    ASSUME NEW x, IsDriver(x), NEW R
    PROVE  [x EXCEPT !.rescans = R] = WorkPut(x, x.checks, x.joins, R, x.deadlines, x.probes)
BY DEF IsDriver, Fields, WorkPut

LEMMA JoinsOnly ==
    ASSUME NEW x, IsDriver(x), NEW J
    PROVE  [x EXCEPT !.joins = J] = WorkPut(x, x.checks, J, x.rescans, x.deadlines, x.probes)
BY DEF IsDriver, Fields, WorkPut

LEMMA LocalPut ==
    ASSUME NEW x, Working(x), NEW a \in DOMAIN x.checks, NEW c, IsCheck(c), c.on = x.checks[a].on,
           c.candidate = x.checks[a].candidate, NEW h, h = [x.checks EXCEPT ![a] = c],
           NEW J, NEW R, NEW D, NEW P, x.joins \subseteq J, x.rescans \subseteq R, x.deadlines \subseteq D,
           \A t \in D : t \in x.deadlines \/ t[1] = a,
           \A p : p # a => (p \in P <=> p \in x.probes),
           NEW y, y = WorkPut(x, h, J, R, D, P)
    PROVE  /\ Local(x, y, a) /\ y.checks[a] = c
           /\ y.joins = J /\ y.rescans = R /\ y.deadlines = D /\ y.probes = P
<1>1. /\ IsDriver(y) /\ SameOthers(x, y) /\ y.sel = x.sel /\ y.wants = x.wants /\ y.checks = h
      /\ y.joins = J /\ y.rescans = R /\ y.deadlines = D /\ y.probes = P
  BY WorkPuts DEF Working
<1>2. /\ ChecksAre(y) /\ DOMAIN y.checks = DOMAIN x.checks /\ y.checks[a] = c
      /\ \A b \in DOMAIN x.checks : b # a => y.checks[b] = x.checks[b]
  BY <1>1, ChecksPut DEF Working
<1> QED
  BY <1>1, <1>2 DEF Local

\* A check changed in one of its fields.
LEMMA TimerSet ==
    ASSUME NEW c, IsCheck(c), NEW n \in Nat, NEW e, e = [c EXCEPT !.timer = n]
    PROVE  /\ IsCheck(e)
           /\ e.candidate = c.candidate /\ e.on = c.on /\ e.at = c.at /\ e.armed = c.armed
           /\ e.awaits = c.awaits /\ e.probing = c.probing /\ e.timer = n
<1>1. {c.armed, c.awaits, c.probing} \subseteq BOOLEAN /\ c.on \in Interfaces
      /\ c.at \in Association..Established /\ c.timer \in Nat
  BY DEF IsCheck
<1>2. c = [f \in CheckFields |-> c[f]]
  BY DEF IsCheck
<1>3. /\ e.candidate = c.candidate /\ e.on = c.on /\ e.at = c.at /\ e.armed = c.armed
      /\ e.awaits = c.awaits /\ e.probing = c.probing /\ e.timer = n
      /\ e = [f \in CheckFields |-> e[f]]
  BY <1>2 DEF CheckFields
<1>4. {e.armed, e.awaits, e.probing} \subseteq BOOLEAN
  BY <1>1, <1>3
<1> QED
  BY <1>1, <1>3, <1>4 DEF IsCheck

LEMMA AtSet ==
    ASSUME NEW c, IsCheck(c), NEW at \in Association..Established, NEW e, e = [c EXCEPT !.at = at]
    PROVE  /\ IsCheck(e)
           /\ e.candidate = c.candidate /\ e.on = c.on /\ e.at = at /\ e.armed = c.armed
           /\ e.awaits = c.awaits /\ e.probing = c.probing /\ e.timer = c.timer
<1>1. {c.armed, c.awaits, c.probing} \subseteq BOOLEAN /\ c.on \in Interfaces
      /\ c.at \in Association..Established /\ c.timer \in Nat
  BY DEF IsCheck
<1>2. c = [f \in CheckFields |-> c[f]]
  BY DEF IsCheck
<1>3. /\ e.candidate = c.candidate /\ e.on = c.on /\ e.at = at /\ e.armed = c.armed
      /\ e.awaits = c.awaits /\ e.probing = c.probing /\ e.timer = c.timer
      /\ e = [f \in CheckFields |-> e[f]]
  BY <1>2 DEF CheckFields
<1>4. {e.armed, e.awaits, e.probing} \subseteq BOOLEAN
  BY <1>1, <1>3
<1> QED
  BY <1>1, <1>3, <1>4 DEF IsCheck

AtTimer(c, at, n) == [c EXCEPT !.at = at, !.timer = n]

LEMMA AtTimerSet ==
    ASSUME NEW c, IsCheck(c), NEW at \in Association..Established, NEW n \in Nat, NEW e, e = AtTimer(c, at, n)
    PROVE  /\ IsCheck(e)
           /\ e.candidate = c.candidate /\ e.on = c.on /\ e.at = at /\ e.armed = c.armed
           /\ e.awaits = c.awaits /\ e.probing = c.probing /\ e.timer = n
<1>1. {c.armed, c.awaits, c.probing} \subseteq BOOLEAN /\ c.on \in Interfaces
      /\ c.at \in Association..Established /\ c.timer \in Nat
  BY DEF IsCheck
<1>2. c = [f \in CheckFields |-> c[f]]
  BY DEF IsCheck
<1>3. /\ e.candidate = c.candidate /\ e.on = c.on /\ e.at = at /\ e.armed = c.armed
      /\ e.awaits = c.awaits /\ e.probing = c.probing /\ e.timer = n
      /\ e = [f \in CheckFields |-> e[f]]
  BY <1>2 DEF CheckFields, AtTimer
<1>4. {e.armed, e.awaits, e.probing} \subseteq BOOLEAN
  BY <1>1, <1>3
<1> QED
  BY <1>1, <1>3, <1>4 DEF IsCheck

ProbingTimer(c, n) == [c EXCEPT !.probing = TRUE, !.timer = n]

LEMMA ProbingTimerSet ==
    ASSUME NEW c, IsCheck(c), NEW n \in Nat, NEW e, e = ProbingTimer(c, n)
    PROVE  /\ IsCheck(e)
           /\ e.candidate = c.candidate /\ e.on = c.on /\ e.at = c.at /\ e.armed = c.armed
           /\ e.awaits = c.awaits /\ e.probing /\ e.timer = n
<1>1. {c.armed, c.awaits, c.probing} \subseteq BOOLEAN /\ c.on \in Interfaces
      /\ c.at \in Association..Established /\ c.timer \in Nat
  BY DEF IsCheck
<1>2. c = [f \in CheckFields |-> c[f]]
  BY DEF IsCheck
<1>3. /\ e.candidate = c.candidate /\ e.on = c.on /\ e.at = c.at /\ e.armed = c.armed
      /\ e.awaits = c.awaits /\ e.probing /\ e.timer = n
      /\ e = [f \in CheckFields |-> e[f]]
  BY <1>2 DEF CheckFields, ProbingTimer
<1>4. {e.armed, e.awaits, e.probing} \subseteq BOOLEAN
  BY <1>1, <1>3
<1> QED
  BY <1>1, <1>3, <1>4 DEF IsCheck

LEMMA ProbedSet ==
    ASSUME NEW c, IsCheck(c), NEW e, e = [c EXCEPT !.probing = FALSE]
    PROVE  /\ IsCheck(e)
           /\ e.candidate = c.candidate /\ e.on = c.on /\ e.at = c.at /\ e.armed = c.armed
           /\ e.awaits = c.awaits /\ ~e.probing /\ e.timer = c.timer
<1>1. {c.armed, c.awaits, c.probing} \subseteq BOOLEAN /\ c.on \in Interfaces
      /\ c.at \in Association..Established /\ c.timer \in Nat
  BY DEF IsCheck
<1>2. c = [f \in CheckFields |-> c[f]]
  BY DEF IsCheck
<1>3. /\ e.candidate = c.candidate /\ e.on = c.on /\ e.at = c.at /\ e.armed = c.armed
      /\ e.awaits = c.awaits /\ ~e.probing /\ e.timer = c.timer
      /\ e = [f \in CheckFields |-> e[f]]
  BY <1>2 DEF CheckFields
<1>4. {e.armed, e.awaits, e.probing} \subseteq BOOLEAN
  BY <1>1, <1>3
<1> QED
  BY <1>1, <1>3, <1>4 DEF IsCheck

LEMMA ArmedSet ==
    ASSUME NEW c, IsCheck(c), NEW e, e = [c EXCEPT !.armed = TRUE]
    PROVE  /\ IsCheck(e)
           /\ e.candidate = c.candidate /\ e.on = c.on /\ e.at = c.at /\ e.armed
           /\ e.awaits = c.awaits /\ e.probing = c.probing /\ e.timer = c.timer
<1>1. {c.armed, c.awaits, c.probing} \subseteq BOOLEAN /\ c.on \in Interfaces
      /\ c.at \in Association..Established /\ c.timer \in Nat
  BY DEF IsCheck
<1>2. c = [f \in CheckFields |-> c[f]]
  BY DEF IsCheck
<1>3. /\ e.candidate = c.candidate /\ e.on = c.on /\ e.at = c.at /\ e.armed
      /\ e.awaits = c.awaits /\ e.probing = c.probing /\ e.timer = c.timer
      /\ e = [f \in CheckFields |-> e[f]]
  BY <1>2 DEF CheckFields
<1>4. {e.armed, e.awaits, e.probing} \subseteq BOOLEAN
  BY <1>1, <1>3
<1> QED
  BY <1>1, <1>3, <1>4 DEF IsCheck

LEMMA AwaitsSet ==
    ASSUME NEW c, IsCheck(c), NEW w \in BOOLEAN, NEW e, e = [c EXCEPT !.awaits = w]
    PROVE  /\ IsCheck(e)
           /\ e.candidate = c.candidate /\ e.on = c.on /\ e.at = c.at /\ e.armed = c.armed
           /\ e.awaits = w /\ e.probing = c.probing /\ e.timer = c.timer
<1>1. {c.armed, c.awaits, c.probing} \subseteq BOOLEAN /\ c.on \in Interfaces
      /\ c.at \in Association..Established /\ c.timer \in Nat
  BY DEF IsCheck
<1>2. c = [f \in CheckFields |-> c[f]]
  BY DEF IsCheck
<1>3. /\ e.candidate = c.candidate /\ e.on = c.on /\ e.at = c.at /\ e.armed = c.armed
      /\ e.awaits = w /\ e.probing = c.probing /\ e.timer = c.timer
      /\ e = [f \in CheckFields |-> e[f]]
  BY <1>2 DEF CheckFields
<1>4. {e.armed, e.awaits, e.probing} \subseteq BOOLEAN
  BY <1>1, <1>3
<1> QED
  BY <1>1, <1>3, <1>4 DEF IsCheck

LEMMA DeadlineStep ==
    ASSUME NEW x, NEW S, NEW why, NEW a, NEW b \in {0, a}, Verifies(x, S, why, b),
           a \in DOMAIN x.checks => x.checks[a].at \in {Addressing, Gateway} /\ ~x.checks[a].probing,
           NEW y, y = Deadline(x, a)
    PROVE  Verifies(y, S \ {a}, why, 0) /\ Works(x, y)
<1>1. Working(x) /\ Follows(x.checks, x.sel) /\ AllStand(x, S, why, b)
  BY DEF Verifies
<1>2. CASE a \notin DOMAIN x.checks
  <2>1. y = x
    BY <1>2 DEF Deadline
  <2>2. Works(x, x)
    BY <1>1, DescendsSelf DEF Works, SameOthers, Working
  <2> QED
    BY <1>1, <1>2, <2>1, <2>2, StandsBut DEF Verifies
<1>3. CASE a \in DOMAIN x.checks
  <2>1. PICK c : c = x.checks[a]
    OBVIOUS
  <2>2. IsCheck(c) /\ c.timer \in Nat
    BY <1>1, <1>3, <2>1 DEF Working, ChecksAre, IsCheck
  <2>3. PICK n : n = c.timer + 1 /\ n \in Nat
    BY <2>2
  <2>4. PICK e : e = [c EXCEPT !.timer = n]
    OBVIOUS
  <2>5. /\ IsCheck(e) /\ e.timer = n /\ e.on = c.on /\ e.candidate = c.candidate /\ e.at = c.at
        /\ e.armed = c.armed /\ e.awaits = c.awaits /\ e.probing = c.probing
    BY <2>2, <2>3, <2>4, TimerSet
  <2>6. PICK h : h = [x.checks EXCEPT ![a] = e]
    OBVIOUS
  <2>7. PICK D : D = x.deadlines \cup {<<a, n, c.at>>}
    OBVIOUS
  <2>8. y = [x EXCEPT !.checks = h, !.deadlines = D]
    BY <1>3, <2>1, <2>3, <2>4, <2>6, <2>7 DEF Deadline
  <2>9. y = WorkPut(x, h, x.joins, x.rescans, D, x.probes)
    BY <1>1, <2>8, DeadlinesOnly, Zenon DEF Working
  <2>10. \A t \in D : t \in x.deadlines \/ t[1] = a
    BY <2>7
  <2>11. Local(x, y, a) /\ y.checks[a] = e /\ y.deadlines = D /\ y.probes = x.probes
    BY <1>1, <1>3, <2>1, <2>5, <2>6, <2>7, <2>9, <2>10, LocalPut
  <2>12. ASSUME NEW t \in D, t[1] = a
         PROVE  t[2] \in 0..n /\ (t[2] = n => t[3] = e.at /\ e.at \in {Addressing, Gateway} /\ ~e.probing)
    <3>1. CASE t \in x.deadlines
      <4>1. t[2] \in 0..c.timer
        BY <1>1, <1>3, <2>1, <2>12, <3>1 DEF Working, Timed
      <4>2. t[2] \in 0..n /\ t[2] # n
        BY <2>2, <2>3, <4>1
      <4> QED
        BY <4>2
    <3>2. CASE t = <<a, n, c.at>>
      BY <1>3, <2>1, <2>3, <2>5, <3>2
    <3> QED
      BY <2>7, <3>1, <3>2
  <2>13. IsDue(y, a)
    <3>1. (a \in x.probes <=> c.probing) /\ (c.probing => c.at = Gateway)
          /\ (~c.armed => c.at \in {Association, Addressing})
      BY <1>1, <1>3, <2>1 DEF Working, ProbesAre, Unarmed
    <3> QED
      BY <2>5, <2>11, <2>12, <3>1 DEF IsDue
  <2>14. Stands(y, a)
    <3>1. <<a, e.timer, e.at>> \in y.deadlines
      BY <2>5, <2>7, <2>11
    <3> QED
      BY <1>3, <2>1, <2>5, <2>11, <3>1 DEF Stands
  <2> QED
    BY <1>3, <2>1, <2>5, <2>11, <2>13, <2>14, LocalStep
<1> QED
  BY <1>2, <1>3

LEMMA SelfWorks ==
    ASSUME NEW x, Working(x)
    PROVE  Works(x, x)
BY DescendsSelf DEF Works, SameOthers, Working

IsProbing(c, n, f) ==
    /\ IsCheck(f) /\ f.timer = n /\ f.on = c.on /\ f.candidate = c.candidate /\ f.at = c.at
    /\ f.armed = c.armed /\ f.awaits = c.awaits /\ f.probing
LEMMA ProbingIs ==
    ASSUME NEW c, IsCheck(c), NEW n \in Nat, NEW f, f = ProbingTimer(c, n)
    PROVE  IsProbing(c, n, f)
BY ProbingTimerSet DEF IsProbing

LEMMA AsksStep ==
    ASSUME NEW x, NEW S, NEW why, NEW a, Verifies(x, S, why, 0), NEW y, y = AsksGateway(x, a)
    PROVE  Verifies(y, S, why, 0) /\ Works(x, y)
<1>1. Working(x) /\ Follows(x.checks, x.sel) /\ AllStand(x, S, why, 0)
  BY DEF Verifies
<1>2. CASE y = x
  BY <1>1, <1>2, SelfWorks
<1>3. CASE y # x
  <2>1. PICK c : c = x.checks[a]
    OBVIOUS
  <2>2. a \in DOMAIN x.checks /\ c.at = Gateway /\ ~c.probing
    BY <1>3, <2>1 DEF AsksGateway
  <2>3. IsCheck(c) /\ c.timer \in Nat
    BY <1>1, <2>1, <2>2 DEF Working, ChecksAre, IsCheck
  <2>4. PICK n : n = c.timer + 1 /\ n \in Nat
    BY <2>3
  <2>7. PICK f : f = ProbingTimer(c, n)
    OBVIOUS
  <2>8. /\ IsCheck(f) /\ f.timer = n /\ f.on = c.on /\ f.candidate = c.candidate /\ f.at = c.at
        /\ f.armed = c.armed /\ f.awaits = c.awaits /\ f.probing
    <3>1. IsProbing(c, n, f)
      BY <2>3, <2>4, <2>7, ProbingIs
    <3> QED
      BY <3>1 DEF IsProbing
  <2>9. PICK h : h = [x.checks EXCEPT ![a] = f]
    OBVIOUS
  <2>10. PICK P : P = x.probes \cup {a}
    OBVIOUS
  <2>11. y = [x EXCEPT !.checks = h, !.probes = P]
    <3>1. y = [x EXCEPT !.checks[a] = ProbingTimer(x.checks[a], x.checks[a].timer + 1), !.probes = x.probes \cup {a}]
      BY <1>3 DEF AsksGateway, ProbingTimer
    <3>2. f = ProbingTimer(x.checks[a], x.checks[a].timer + 1)
      BY <2>1, <2>4, <2>7
    <3>3. y = [x EXCEPT !.checks[a] = f, !.probes = P]
      BY <2>10, <3>1, <3>2
    <3> QED
      BY <2>9, <3>3
  <2>12. y = WorkPut(x, h, x.joins, x.rescans, x.deadlines, P)
    BY <1>1, <2>11, ProbesOnly, Zenon DEF Working
  <2>13. Local(x, y, a) /\ y.checks[a] = f /\ y.deadlines = x.deadlines /\ y.probes = P
    BY <1>1, <2>1, <2>2, <2>8, <2>9, <2>10, <2>12, LocalPut
  <2>14. IsDue(y, a)
    <3>1. \A t \in x.deadlines : t[1] = a => t[2] \in 0..c.timer
      BY <1>1, <2>1, <2>2 DEF Working, Timed
    <3>2. \A t \in x.deadlines : t[1] = a => t[2] \in 0..n /\ t[2] # n
      BY <2>3, <2>4, <3>1
    <3>3. c.armed
      BY <1>1, <2>1, <2>2 DEF Working, Unarmed, Gateway, Association, Addressing
    <3> QED
      BY <2>2, <2>8, <2>10, <2>13, <3>2, <3>3 DEF IsDue
  <2>15. Stands(y, a)
    BY <2>8, <2>13 DEF Stands
  <2>16. Verifies(y, S \ {a}, why, 0) /\ Works(x, y)
    BY <2>1, <2>2, <2>8, <2>13, <2>14, <2>15, LocalStep
  <2> QED
    BY <2>16 DEF Verifies, AllStand
<1> QED
  BY <1>2, <1>3
-----------------------------------------------------------------------------
LEMMA WorksTwice ==
    ASSUME NEW x, NEW y, NEW z, Works(x, y), Works(y, z)
    PROVE  Works(x, z)
<1>1. SameOthers(x, z)
  BY OthersTwice DEF Works
<1>2. Descends(x.sel, z.sel)
  BY DescendsTwice DEF Works
<1> QED
  BY <1>1, <1>2 DEF Works

LEMMA VerifiesMore ==
    ASSUME NEW x, NEW S, NEW why, NEW a, Verifies(x, S \ {a}, why, 0)
    PROVE  Verifies(x, S, why, 0)
BY DEF Verifies, AllStand

\* Passing on is from a check gone ahead.
LEMMA AheadStep ==
    ASSUME NEW x, NEW S, NEW why, NEW a \in DOMAIN x.checks, NEW b \in {0, a}, Verifies(x, S, why, b),
           NEW stage \in Association..Gateway, NEW z, Local(x, z, a), IsDue(z, a),
           x.checks[a].at = stage, z.checks[a].at = stage + 1, NEW y, y = Passed(z, a, stage)
    PROVE  /\ Verifies(y, S, why, a) /\ Works(x, y) /\ SameOut(z, y)
           /\ a \in DOMAIN y.checks => y.checks[a] = z.checks[a]
<1>1. Working(x) /\ Follows(x.checks, x.sel) /\ AllStand(x, S, why, b)
  BY DEF Verifies
<1>2. a \in 1..x.sel.next /\ a \in 0..x.sel.next /\ x.sel.next \in Nat
  BY <1>1, CheckedNumbers
<1>3. a # 0
  BY <1>2
<1>4. Working(z) /\ AllStand(z, S, why, a) /\ Works(x, z)
  BY <1>1, <1>2, <1>3, LocalWorking, LocalStands, LocalWorks
<1>5. Ahead(z, a, stage)
  BY <1>1, LocalAhead
<1>6. Verifies(y, S, why, a) /\ Fed(z, y)
  BY <1>4, <1>5, PassedStep
<1>7. Works(x, y)
  BY <1>4, <1>6, WorksTwice DEF Fed
<1>8. a \in DOMAIN y.checks => y.checks[a] = z.checks[a]
  BY <1>2, <1>6 DEF Fed, Kept, Local
<1> QED
  BY <1>6, <1>7, <1>8 DEF Fed

LEMMA EvaluateStep ==
    ASSUME NEW x, NEW S, NEW why, NEW a, Verifies(x, S, why, 0), NEW y, y = Evaluate(x, a)
    PROVE  Verifies(y, S, why, 0) /\ Works(x, y)
<1>1. Working(x) /\ Follows(x.checks, x.sel) /\ AllStand(x, S, why, 0)
  BY DEF Verifies
<1>2. CASE y = x
  BY <1>1, <1>2, SelfWorks
<1>3. CASE y # x
  <2>1. PICK c : c = x.checks[a]
    OBVIOUS
  <2>2. a \in DOMAIN x.checks /\ c.armed
    BY <1>3, <2>1 DEF Evaluate
  <2>3. \/ c.at = Addressing /\ HoldsAddress(x, c)
        \/ c.at # Addressing /\ c.at = Gateway /\ y = AsksGateway(x, a)
        \/ c.at # Addressing /\ c.at = Established /\ y = Failed(x, a, Addressing)
    BY <1>3, <2>1, <2>2 DEF Evaluate, Addressing, Gateway, Established
  <2>4. CASE c.at = Addressing /\ HoldsAddress(x, c)
    <3>1. IsCheck(c) /\ c.timer \in Nat
      BY <1>1, <2>1, <2>2 DEF Working, ChecksAre, IsCheck
    <3>2. PICK n : n = c.timer + 1 /\ n \in Nat
      BY <3>1
    <3>3. PICK e : e = AtTimer(c, Gateway, n)
      OBVIOUS
    <3>4. /\ IsCheck(e) /\ e.candidate = c.candidate /\ e.on = c.on /\ e.at = Gateway /\ e.armed = c.armed
          /\ e.awaits = c.awaits /\ e.probing = c.probing /\ e.timer = n
      <4>1. Gateway \in Association..Established
        BY DEF Gateway, Association, Established
      <4> QED
        BY <3>1, <3>2, <3>3, <4>1, AtTimerSet
    <3>5. PICK h : h = [x.checks EXCEPT ![a] = e]
      OBVIOUS
    <3>6. PICK z : z = [x EXCEPT !.checks = h]
      OBVIOUS
    <3>7. y = AsksGateway(Deadline(Passed(z, a, Addressing), a), a)
      <4>1. y = AsksGateway(Deadline(Passed(
                    [x EXCEPT !.checks[a] = AtTimer(x.checks[a], Gateway, x.checks[a].timer + 1)], a, Addressing), a), a)
        <5>1. y = Addressed(x, a)
          BY <1>3, <2>1, <2>2, <2>4 DEF Evaluate, Addressing, Gateway, Established
        <5> QED
          BY <5>1 DEF Addressed, AtTimer
      <4>2. e = AtTimer(x.checks[a], Gateway, x.checks[a].timer + 1)
        BY <2>1, <3>2, <3>3
      <4>3. [x EXCEPT !.checks[a] = e] = z
        BY <3>5, <3>6
      <4> QED
        BY <4>1, <4>2, <4>3
    <3>8. z = WorkPut(x, h, x.joins, x.rescans, x.deadlines, x.probes)
      BY <1>1, <3>6, ChecksOnly DEF Working
    <3>9. Local(x, z, a) /\ z.checks[a] = e /\ z.deadlines = x.deadlines /\ z.probes = x.probes
      BY <1>1, <2>1, <2>2, <3>4, <3>5, <3>8, LocalPut
    <3>10. a \notin x.probes /\ ~c.probing
      BY <1>1, <2>1, <2>2, <2>4 DEF Working, ProbesAre, Addressing, Gateway
    <3>11. IsDue(z, a)
      <4>1. \A t \in x.deadlines : t[1] = a => t[2] \in 0..c.timer
        BY <1>1, <2>1, <2>2 DEF Working, Timed
      <4>2. \A t \in x.deadlines : t[1] = a => t[2] \in 0..n /\ t[2] # n
        BY <3>1, <3>2, <4>1
      <4> QED
        BY <2>2, <3>4, <3>9, <3>10, <4>2 DEF IsDue
    <3>12. PICK p : p = Passed(z, a, Addressing)
      OBVIOUS
    <3>13. Verifies(p, S, why, a) /\ Works(x, p) /\ (a \in DOMAIN p.checks => p.checks[a] = e)
      <4>1. Addressing \in Association..Gateway /\ Gateway = Addressing + 1
        BY DEF Addressing, Association, Gateway
      <4> QED
        BY <2>1, <2>2, <2>4, <3>4, <3>9, <3>11, <3>12, <4>1, AheadStep
    <3>14. PICK q : q = Deadline(p, a)
      OBVIOUS
    <3>15. Verifies(q, S \ {a}, why, 0) /\ Works(p, q)
      BY <3>4, <3>10, <3>13, <3>14, DeadlineStep
    <3>16. Verifies(y, S \ {a}, why, 0) /\ Works(q, y)
      BY <3>7, <3>12, <3>14, <3>15, AsksStep
    <3> QED
      BY <3>13, <3>15, <3>16, WorksTwice, VerifiesMore
  <2>5. CASE c.at = Gateway /\ y = AsksGateway(x, a)
    BY <2>5, AsksStep
  <2>6. CASE c.at = Established /\ y = Failed(x, a, Addressing)
    <3>1. a \in 1..x.sel.next /\ Addressing \in Association..Gateway
      BY <1>1, <2>2, CheckedNumbers DEF Addressing, Association, Gateway
    <3>2. Verifies(y, S \ {a}, why, 0) /\ Fed(x, y)
      BY <2>6, <3>1, FailedStep
    <3> QED
      BY <3>2, VerifiesMore DEF Fed
  <2> QED
    BY <2>3, <2>4, <2>5, <2>6
<1> QED
  BY <1>2, <1>3

LEMMA OperatingPut ==
    ASSUME NEW x, IsDriver(x), NEW o, NEW y, y = [x EXCEPT !.operating = o]
    PROVE  /\ IsDriver(y) /\ SameOthers(x, y) /\ SameOut(x, y)
           /\ y.sel = x.sel /\ y.checks = x.checks /\ y.wants = x.wants
<1>1. IsDriver(y)
  BY DEF IsDriver, Fields
<1>2. SameOthers(x, y)
  BY DEF IsDriver, Fields, SameOthers
<1>3. SameOut(x, y)
  BY DEF IsDriver, Fields, SameOut
<1>4. y.sel = x.sel /\ y.checks = x.checks /\ y.wants = x.wants
  BY DEF IsDriver, Fields
<1> QED
  BY <1>1, <1>2, <1>3, <1>4

LEMMA OperatingStep ==
    ASSUME NEW x, NEW S, NEW why, NEW b, Verifies(x, S, why, b), NEW o, NEW y, y = [x EXCEPT !.operating = o]
    PROVE  Verifies(y, S, why, b) /\ Fed(x, y)
<1>1. Working(x) /\ Follows(x.checks, x.sel) /\ AllStand(x, S, why, b)
  BY DEF Verifies
<1>2. /\ IsDriver(y) /\ SameOthers(x, y) /\ SameOut(x, y)
      /\ y.sel = x.sel /\ y.checks = x.checks /\ y.wants = x.wants
  BY <1>1, OperatingPut DEF Working
<1>3. Kept(x, y)
  BY <1>2 DEF Kept
<1>4. x.sel.next \in Nat
  BY <1>1 DEF Working, InHand, Selectors
<1>5. Working(y)
  <2>1. InHand(y.sel) /\ Numbered(y.sel) /\ ChecksAre(y) /\ x.sel.next <= y.sel.next
    BY <1>1, <1>2, <1>4 DEF Working, ChecksAre
  <2> QED
    BY <1>1, <1>2, <1>3, <2>1, KeptWorking
<1>6. AllStand(y, S, why, b)
  BY <1>1, <1>2, <1>3, KeptStands
<1>7. Works(x, y)
  BY <1>1, <1>2, DescendsSelf DEF Works, Working
<1> QED
  BY <1>1, <1>2, <1>3, <1>5, <1>6, <1>7 DEF Verifies, Fed

LEMMA ChannelStep ==
    ASSUME NEW x, NEW S, NEW why, NEW b, Verifies(x, S, why, b), NEW r \in RadioSet,
           NEW channel \in Channels \cup {"none"}, NEW y, y = TakesChannel(x, r, channel)
    PROVE  Verifies(y, S, why, b) /\ Fed(x, y)
<1>1. CASE channel = "none"
  <2>1. PICK o : o = x.operating \cup {r}
    OBVIOUS
  <2>2. y = [x EXCEPT !.operating = o]
    BY <1>1, <2>1 DEF TakesChannel
  <2> QED
    BY <2>2, OperatingStep
<1>2. CASE channel # "none"
  <2>1. y = Feed(x, StationChannel(x.sel, r, channel))
    BY <1>2 DEF TakesChannel
  <2>2. PICK t : Sensed(x.sel, t) /\ StationChannel(x.sel, r, channel) = Settle(t)
    BY StationChannelNotes DEF Verifies, Working
  <2> QED
    BY <2>1, <2>2, SensedFeeds
<1> QED
  BY <1>1, <1>2
-----------------------------------------------------------------------------
LEMMA OnRadio ==
    ASSUME NEW x, Working(x), Follows(x.checks, x.sel), NEW a \in DOMAIN x.checks, x.checks[a].at = Association
    PROVE  x.checks[a].on \in RadioSet
<1>1. PICK i \in Interfaces : IsAttempt(x.sel, i) /\ IsOf(x.checks[a], x.sel, i)
  BY CheckedNumbers
<1> QED
  BY <1>1 DEF IsAttempt, IsOf

LEMMA SameLocal ==
    ASSUME NEW x, Working(x), NEW a \in DOMAIN x.checks, NEW J, NEW R, x.joins \subseteq J, x.rescans \subseteq R,
           NEW y, y = WorkPut(x, x.checks, J, R, x.deadlines, x.probes)
    PROVE  /\ Local(x, y, a) /\ IsDue(y, a) /\ y.checks = x.checks /\ y.joins = J /\ y.rescans = R
<1>1. /\ IsDriver(y) /\ SameOthers(x, y) /\ y.sel = x.sel /\ y.wants = x.wants /\ y.checks = x.checks
      /\ y.joins = J /\ y.rescans = R /\ y.deadlines = x.deadlines /\ y.probes = x.probes
  BY WorkPuts DEF Working
<1>2. Local(x, y, a)
  BY <1>1 DEF Local, Working, ChecksAre
<1>3. IsDue(y, a)
  BY <1>1 DEF IsDue, Working, Timed, ProbesAre, Unarmed
<1> QED
  BY <1>1, <1>2, <1>3

JoinedTo(x, a) == [x EXCEPT !.checks[a].at = Addressing]

LEMMA JoinedStep ==
    ASSUME NEW x, NEW S, NEW why, NEW a \in DOMAIN x.checks, NEW b \in {0, a}, Verifies(x, S, why, b),
           x.checks[a].at = Association, NEW channel \in Channels \cup {"none"},
           NEW z, z = JoinedTo(x, a),
           NEW y, y = Evaluate(Deadline(TakesChannel(Passed(z, a, Association), x.checks[a].on, channel), a), a)
    PROVE  Verifies(y, S \ {a}, why, 0) /\ Works(x, y)
<1>1. Working(x) /\ Follows(x.checks, x.sel) /\ AllStand(x, S, why, b)
  BY DEF Verifies
<1>2. PICK c : c = x.checks[a]
  OBVIOUS
<1>3. IsCheck(c) /\ c.on \in RadioSet
  BY <1>1, <1>2, OnRadio DEF Working, ChecksAre
<1>4. PICK e : e = [c EXCEPT !.at = Addressing]
  OBVIOUS
<1>5. /\ IsCheck(e) /\ e.candidate = c.candidate /\ e.on = c.on /\ e.at = Addressing /\ e.armed = c.armed
      /\ e.awaits = c.awaits /\ e.probing = c.probing /\ e.timer = c.timer
  <2>1. Addressing \in Association..Established
    BY DEF Addressing, Association, Established
  <2> QED
    BY <1>3, <1>4, <2>1, AtSet
<1>6. PICK h : h = [x.checks EXCEPT ![a] = e]
  OBVIOUS
<1>7. z = [x EXCEPT !.checks = h]
  BY <1>2, <1>4, <1>6 DEF JoinedTo
<1>8. z = WorkPut(x, h, x.joins, x.rescans, x.deadlines, x.probes)
  BY <1>1, <1>7, ChecksOnly DEF Working
<1>9. Local(x, z, a) /\ z.checks[a] = e /\ z.deadlines = x.deadlines /\ z.probes = x.probes
  BY <1>1, <1>2, <1>5, <1>6, <1>8, LocalPut
<1>10. a \notin x.probes /\ ~c.probing
  BY <1>1, <1>2 DEF Working, ProbesAre, Association, Gateway
<1>11. IsDue(z, a)
  <2>1. \A t \in x.deadlines : t[1] = a =>
          t[2] \in 0..c.timer /\ (t[2] = c.timer => c.at \in {Addressing, Gateway})
    BY <1>1, <1>2 DEF Working, Timed
  <2>2. c.at \notin {Addressing, Gateway}
    BY <1>2 DEF Association, Addressing, Gateway
  <2> QED
    BY <1>5, <1>9, <1>10, <2>1, <2>2 DEF IsDue
<1>12. PICK p : p = Passed(z, a, Association)
  OBVIOUS
<1>13. Verifies(p, S, why, a) /\ Works(x, p) /\ (a \in DOMAIN p.checks => p.checks[a] = e)
  <2>1. Association \in Association..Gateway /\ Addressing = Association + 1
    BY DEF Addressing, Association, Gateway
  <2> QED
    BY <1>5, <1>9, <1>11, <1>12, <2>1, AheadStep
<1>14. PICK q : q = TakesChannel(p, c.on, channel)
  OBVIOUS
<1>15. Verifies(q, S, why, a) /\ Fed(p, q)
  BY <1>3, <1>13, <1>14, ChannelStep
<1>16. a \in DOMAIN q.checks => q.checks[a] = e
  <2>1. a \in 0..p.sel.next
    <3>1. a \in 1..x.sel.next /\ x.sel.next \in Nat
      BY <1>1, CheckedNumbers
    <3>2. p.sel.next \in Nat /\ x.sel.next <= p.sel.next
      BY <1>13 DEF Works, Descends
    <3> QED
      BY <3>1, <3>2
  <2> QED
    BY <1>13, <1>15, <2>1 DEF Fed, Kept
<1>17. PICK r : r = Deadline(q, a)
  OBVIOUS
<1>18. Verifies(r, S \ {a}, why, 0) /\ Works(q, r)
  BY <1>5, <1>10, <1>15, <1>16, <1>17, DeadlineStep
<1>19. y = Evaluate(r, a)
  BY <1>2, <1>12, <1>14, <1>17
<1>20. Verifies(y, S \ {a}, why, 0) /\ Works(r, y)
  BY <1>18, <1>19, EvaluateStep
<1> QED
  BY <1>13, <1>15, <1>18, <1>20, WorksTwice DEF Fed

LEMMA AssociatesStep ==
    ASSUME NEW x, NEW S, NEW why, NEW a \in DOMAIN x.checks, NEW b \in {0, a}, Verifies(x, S, why, b),
           x.checks[a].at = Association, NEW result, NEW channel \in Channels \cup {"none"},
           NEW y, y = Associates(x, a, result, channel)
    PROVE  Verifies(y, S \ {a}, why, 0) /\ Works(x, y)
<1>1. Working(x) /\ Follows(x.checks, x.sel) /\ AllStand(x, S, why, b)
  BY DEF Verifies
<1>2. CASE result = "joined"
  <2>1. PICK z : z = JoinedTo(x, a)
    OBVIOUS
  <2>2. y = Evaluate(Deadline(TakesChannel(Passed(z, a, Association), x.checks[a].on, channel), a), a)
    BY <1>2, <2>1 DEF Associates, JoinedTo
  <2> QED
    BY <2>1, <2>2, JoinedStep
<1>3. CASE result = "refused"
  <2>1. PICK R : R = x.rescans \cup {<<a, x.checks[a].on>>}
    OBVIOUS
  <2>2. y = [x EXCEPT !.rescans = R]
    BY <1>3, <2>1 DEF Associates
  <2>3. y = WorkPut(x, x.checks, x.joins, R, x.deadlines, x.probes)
    BY <1>1, <2>2, RescansOnly DEF Working
  <2>4. Local(x, y, a) /\ IsDue(y, a) /\ y.checks = x.checks /\ y.rescans = R
    BY <1>1, <2>1, <2>3, SameLocal
  <2>5. Stands(y, a)
    BY <2>1, <2>4 DEF Stands
  <2> QED
    BY <2>4, <2>5, LocalStep
<1>4. CASE result \notin {"joined", "refused"}
  <2>1. y = Failed(x, a, Association)
    BY <1>4 DEF Associates
  <2>2. a \in 1..x.sel.next /\ Association \in Association..Gateway
    BY <1>1, CheckedNumbers DEF Association, Gateway
  <2> QED
    BY <2>1, <2>2, FailedStep DEF Fed
<1> QED
  BY <1>2, <1>3, <1>4

LEMMA AssociateStep ==
    ASSUME NEW x, NEW S, NEW why, NEW a \in DOMAIN x.checks, NEW b \in {0, a}, Verifies(x, S, why, b),
           x.checks[a].at = Association, NEW y, y = Associate(x, a)
    PROVE  Verifies(y, S \ {a}, why, 0) /\ Works(x, y)
<1>1. Working(x) /\ Follows(x.checks, x.sel) /\ AllStand(x, S, why, b)
  BY DEF Verifies
<1>2. CASE x.stations[x.checks[a].on].ssid = Of(x, x.checks[a]).ssid
  <2>1. PICK channel : channel = x.stations[x.checks[a].on].channel
    OBVIOUS
  <2>2. channel \in Channels \cup {"none"}
    BY <1>1, <2>1, OnRadio DEF Working, StationsAre
  <2>3. y = Associates(x, a, "joined", channel)
    BY <1>2, <2>1 DEF Associate
  <2> QED
    BY <2>2, <2>3, AssociatesStep
<1>3. CASE x.stations[x.checks[a].on].ssid # Of(x, x.checks[a]).ssid
  <2>1. PICK J : J = x.joins \cup {a}
    OBVIOUS
  <2>2. y = [x EXCEPT !.joins = J]
    BY <1>3, <2>1 DEF Associate
  <2>3. y = WorkPut(x, x.checks, J, x.rescans, x.deadlines, x.probes)
    BY <1>1, <2>2, JoinsOnly DEF Working
  <2>4. Local(x, y, a) /\ IsDue(y, a) /\ y.checks = x.checks /\ y.joins = J
    BY <1>1, <2>1, <2>3, SameLocal
  <2>5. Stands(y, a)
    BY <2>1, <2>4 DEF Stands
  <2> QED
    BY <2>4, <2>5, LocalStep
<1> QED
  BY <1>2, <1>3

\* One released joins, where it is still associating.
LEMMA ReleaseStep ==
    ASSUME NEW x, NEW S, NEW a, Verifies(x, S, "joining", 0), NEW y, y = Associate(x, a)
    PROVE  Verifies(y, S \ {a}, "joining", 0) /\ Works(x, y)
<1>1. Working(x) /\ Follows(x.checks, x.sel) /\ AllStand(x, S, "joining", 0)
  BY DEF Verifies
<1>2. CASE a \notin DOMAIN x.checks
  <2>1. y = x
    BY <1>2 DEF Associate
  <2> QED
    BY <1>1, <1>2, <2>1, SelfWorks, StandsBut DEF Verifies
<1>3. CASE a \in DOMAIN x.checks /\ x.checks[a].at = Association
  BY <1>3, AssociateStep
<1>4. CASE a \in DOMAIN x.checks /\ x.checks[a].at # Association
  <2>1. Stands(x, a)
    BY <1>1, <1>4 DEF AllStand, Excused
  <2>2. AllStand(x, S \ {a}, "joining", 0)
    BY <1>1, <2>1, StandsBut
  <2>3. CASE y = x
    BY <1>1, <2>2, <2>3, SelfWorks DEF Verifies
  <2>4. CASE y # x
    <3>1. PICK J : J = x.joins \cup {a}
      OBVIOUS
    <3>2. y = [x EXCEPT !.joins = J]
      BY <1>4, <2>4, <3>1 DEF Associate, Associates
    <3>3. y = WorkPut(x, x.checks, J, x.rescans, x.deadlines, x.probes)
      BY <1>1, <3>2, JoinsOnly DEF Working
    <3>4. Local(x, y, a) /\ IsDue(y, a) /\ y.checks = x.checks /\ y.joins = J
      BY <1>1, <1>4, <3>1, <3>3, SameLocal
    <3>5. Stands(y, a)
      BY <2>1, <3>4 DEF Stands, Local, SameOthers
    <3> QED
      BY <1>4, <3>4, <3>5, LocalStep
  <2> QED
    BY <2>3, <2>4
<1> QED
  BY <1>2, <1>3, <1>4

LEMMA ArmStep ==
    ASSUME NEW x, NEW S, NEW a, Verifies(x, S, "unarmed", 0), NEW y, y = Arm(x, a)
    PROVE  Verifies(y, S \ {a}, "unarmed", 0) /\ Works(x, y)
<1>1. Working(x) /\ Follows(x.checks, x.sel) /\ AllStand(x, S, "unarmed", 0)
  BY DEF Verifies
<1>2. CASE a \notin DOMAIN x.checks \/ x.checks[a].armed
  <2>1. y = x
    BY <1>2 DEF Arm
  <2>2. a \notin DOMAIN x.checks \/ Stands(x, a)
    BY <1>1, <1>2 DEF AllStand, Excused
  <2> QED
    BY <1>1, <2>1, <2>2, SelfWorks, StandsBut DEF Verifies
<1>3. CASE a \in DOMAIN x.checks /\ ~x.checks[a].armed
  <2>1. PICK c : c = x.checks[a]
    OBVIOUS
  <2>2. IsCheck(c) /\ c.at \in {Association, Addressing} /\ ~c.probing /\ a \notin x.probes
    BY <1>1, <1>3, <2>1 DEF Working, ChecksAre, Unarmed, ProbesAre, Association, Addressing, Gateway
  <2>3. PICK e : e = [c EXCEPT !.armed = TRUE]
    OBVIOUS
  <2>4. /\ IsCheck(e) /\ e.candidate = c.candidate /\ e.on = c.on /\ e.at = c.at /\ e.armed
        /\ e.awaits = c.awaits /\ e.probing = c.probing /\ e.timer = c.timer
    BY <2>2, <2>3, ArmedSet
  <2>5. PICK h : h = [x.checks EXCEPT ![a] = e]
    OBVIOUS
  <2>6. PICK z : z = [x EXCEPT !.checks = h]
    OBVIOUS
  <2>7. z = [x EXCEPT !.checks[a].armed = TRUE]
    BY <2>1, <2>3, <2>5, <2>6
  <2>8. z = WorkPut(x, h, x.joins, x.rescans, x.deadlines, x.probes)
    BY <1>1, <2>6, ChecksOnly DEF Working
  <2>9. Local(x, z, a) /\ z.checks[a] = e /\ z.deadlines = x.deadlines /\ z.probes = x.probes
    BY <1>1, <1>3, <2>1, <2>4, <2>5, <2>8, LocalPut
  <2>10. IsDue(z, a)
    <3>1. \A t \in x.deadlines : t[1] = a =>
            t[2] \in 0..c.timer /\ (t[2] = c.timer => t[3] = c.at /\ c.at \in {Addressing, Gateway})
      BY <1>1, <1>3, <2>1 DEF Working, Timed
    <3> QED
      BY <2>2, <2>4, <2>9, <3>1 DEF IsDue
  <2>11. a \in 1..x.sel.next /\ x.sel.next \in Nat
    BY <1>1, <1>3, CheckedNumbers
  <2>12. a # 0
    BY <2>11
  <2>13. Verifies(z, S, "unarmed", a) /\ Works(x, z)
    <3>1. Working(z)
      BY <1>1, <1>3, <2>9, <2>10, <2>11, LocalWorking
    <3>2. Follows(z.checks, z.sel)
      BY <1>1, <2>1, <2>4, <2>9, LocalFollows
    <3>3. AllStand(z, S, "unarmed", a) /\ Works(x, z)
      BY <1>1, <2>9, <2>12, LocalStands, LocalWorks
    <3> QED
      BY <3>1, <3>2, <3>3 DEF Verifies
  <2>14. a \in DOMAIN z.checks
    BY <1>3, <2>9 DEF Local
  <2>15. CASE c.at = Association /\ x.scanning[c.on] > 0
    <3>1. PICK f : f = [e EXCEPT !.awaits = TRUE]
      OBVIOUS
    <3>2. /\ IsCheck(f) /\ f.candidate = e.candidate /\ f.on = e.on /\ f.at = e.at /\ f.armed = e.armed
          /\ f.awaits /\ f.probing = e.probing /\ f.timer = e.timer
      <4>1. f.awaits = TRUE => f.awaits
        OBVIOUS
      <4> QED
        BY <2>4, <3>1, <4>1, AwaitsSet
    <3>3. PICK g : g = [z.checks EXCEPT ![a] = f]
      OBVIOUS
    <3>4. y = [z EXCEPT !.checks = g]
      <4>1. y = [z EXCEPT !.checks[a].awaits = TRUE]
        BY <1>3, <2>1, <2>7, <2>15 DEF Arm
      <4> QED
        BY <2>9, <3>1, <3>3, <4>1
    <3>5. y = WorkPut(z, g, z.joins, z.rescans, z.deadlines, z.probes)
      BY <2>13, <3>4, ChecksOnly DEF Verifies, Working
    <3>6. Local(z, y, a) /\ y.checks[a] = f /\ y.deadlines = z.deadlines /\ y.probes = z.probes
      BY <2>9, <2>13, <2>14, <3>2, <3>3, <3>5, LocalPut DEF Verifies
    <3>7. IsDue(y, a)
      BY <2>9, <2>10, <3>2, <3>6 DEF IsDue
    <3>8. y.scanning = x.scanning
      BY <2>9, <3>6 DEF Local, SameOthers
    <3>9. Stands(y, a)
      BY <2>4, <2>15, <3>2, <3>6, <3>8 DEF Stands
    <3>10. Verifies(y, S \ {a}, "unarmed", 0) /\ Works(z, y)
      BY <2>9, <2>13, <2>14, <3>2, <3>6, <3>7, <3>9, LocalStep
    <3> QED
      BY <2>13, <3>10, WorksTwice
  <2>16. CASE c.at = Association /\ ~(x.scanning[c.on] > 0)
    <3>1. y = Associate(z, a)
      BY <1>3, <2>1, <2>7, <2>16 DEF Arm
    <3>2. Verifies(y, S \ {a}, "unarmed", 0) /\ Works(z, y)
      BY <2>4, <2>9, <2>13, <2>14, <2>16, <3>1, AssociateStep
    <3> QED
      BY <2>13, <3>2, WorksTwice
  <2>17. CASE c.at = Addressing
    <3>1. PICK q : q = Deadline(z, a)
      OBVIOUS
    <3>2. y = Evaluate(q, a)
      BY <1>3, <2>1, <2>7, <2>17, <3>1 DEF Arm, Association, Addressing
    <3>3. Verifies(q, S \ {a}, "unarmed", 0) /\ Works(z, q)
      BY <2>2, <2>4, <2>9, <2>13, <2>17, <3>1, DeadlineStep
    <3>4. Verifies(y, S \ {a}, "unarmed", 0) /\ Works(q, y)
      BY <3>2, <3>3, EvaluateStep
    <3> QED
      BY <2>13, <3>3, <3>4, WorksTwice
  <2> QED
    BY <2>2, <2>15, <2>16, <2>17
<1> QED
  BY <1>2, <1>3
-----------------------------------------------------------------------------
\* Folding over attempts and networks.
LEMMA RunWithin ==
    ASSUME NEW kind, NEW given, NEW x, NEW s, NEW n, NEW A, NEW v, Runs(kind, given, x, s, n, A, v)
    PROVE  \A m \in 0..n : A[m] \subseteq s
<1> DEFINE bad == {k \in 0..n : ~(A[n - k] \subseteq s)}
<1>1. n \in Nat /\ A[n] = s
  BY DEF Runs
<1>2. bad = {}
  <2> SUFFICES ASSUME bad # {} PROVE FALSE
    OBVIOUS
  <2>1. PICK k \in bad : \A j \in bad : k <= j
    <3>1. bad \subseteq 0..n
      OBVIOUS
    <3> HIDE DEF bad
    <3>2. bad \subseteq Nat
      BY <1>1, <3>1
    <3> QED
      BY <3>2, LeastOf
  <2>2. k \in 0..n /\ ~(A[n - k] \subseteq s)
    OBVIOUS
  <2>3. k # 0
    BY <1>1, <2>2
  <2>4. k - 1 \in 0..n /\ ~(k <= k - 1) /\ n - (k - 1) \in 1..n /\ (n - (k - 1)) - 1 = n - k
    BY <1>1, <2>2, <2>3
  <2>5. k - 1 \notin bad
    <3> HIDE DEF bad
    <3> QED
      BY <2>1, <2>4
  <2>6. PICK m : m = n - (k - 1)
    OBVIOUS
  <2>7. m \in 1..n /\ m - 1 = n - k
    BY <2>4, <2>6
  <2>8. A[m] \subseteq s
    BY <2>4, <2>5, <2>6
  <2>9. A[m - 1] \subseteq A[m]
    BY <2>7 DEF Runs
  <2> QED
    BY <2>2, <2>7, <2>8, <2>9
<1>3. ASSUME NEW m \in 0..n PROVE A[m] \subseteq s
  <2>1. n - m \in 0..n /\ n - (n - m) = m
    BY <1>1
  <2> QED
    BY <1>2, <2>1
<1> QED
  BY <1>3

IsKind(kind) == kind \in {"arms", "releases", "evaluates", "hears"}
Given(kind, given, as) == kind = "hears" => as \subseteq Ssids /\ given.r \in RadioSet

\* What holds of a fold as it goes.
Upholds(kind, as, A, S, why, y) ==
    CASE kind = "arms" -> Verifies(y, as \ A, "unarmed", 0)
      [] kind = "releases" -> Verifies(y, as \ A, "joining", 0)
      [] OTHER -> Verifies(y, S, why, 0)

LEMMA DoesStep ==
    ASSUME NEW kind, IsKind(kind), NEW given, NEW as, Given(kind, given, as), NEW A, NEW B, NEW a,
           B = A \ {a}, a \in A, a \in as, NEW S, NEW why, NEW x, Upholds(kind, as, B, S, why, x),
           NEW y, y = Does(kind, given, x, a)
    PROVE  Upholds(kind, as, A, S, why, y) /\ Works(x, y)
<1>1. CASE kind = "arms"
  <2>1. y = Arm(x, a) /\ Verifies(x, as \ B, "unarmed", 0)
    BY <1>1 DEF Does, Upholds
  <2>2. (as \ B) \ {a} = as \ A
    OBVIOUS
  <2>3. Verifies(y, as \ A, "unarmed", 0) /\ Works(x, y)
    BY <2>1, <2>2, ArmStep
  <2> QED
    BY <1>1, <2>3 DEF Upholds
<1>2. CASE kind = "releases"
  <2>1. y = Associate(x, a) /\ Verifies(x, as \ B, "joining", 0)
    BY <1>2 DEF Does, Upholds
  <2>2. (as \ B) \ {a} = as \ A
    OBVIOUS
  <2>3. Verifies(y, as \ A, "joining", 0) /\ Works(x, y)
    BY <2>1, <2>2, ReleaseStep
  <2> QED
    BY <1>2, <2>3 DEF Upholds
<1>3. CASE kind = "evaluates"
  <2>1. y = Evaluate(x, a) /\ Verifies(x, S, why, 0)
    BY <1>3 DEF Does, Upholds
  <2>2. Verifies(y, S, why, 0) /\ Works(x, y)
    BY <2>1, EvaluateStep
  <2> QED
    BY <1>3, <2>2 DEF Upholds
<1>4. CASE kind = "hears"
  <2>1. PICK r : r = given.r
    OBVIOUS
  <2>2. Verifies(x, S, why, 0) /\ r \in RadioSet /\ a \in Ssids /\ InHand(x.sel)
    BY <1>4, <2>1 DEF Upholds, Verifies, Working, Given
  <2>3. \E t : Sensed(x.sel, t) /\ y = Feed(x, Settle(t))
    <3>1. CASE a \in given.ssids
      <4>1. y = Feed(x, InRange(x.sel, r, a, 1))
        BY <1>4, <2>1, <3>1 DEF Does
      <4>2. 1 \in 1..MaxSignal
        BY HardwareAssumption
      <4> QED
        BY <2>2, <4>1, <4>2, InRangeNotes
    <3>2. CASE a \notin given.ssids
      <4>1. y = Feed(x, OutOfRange(x.sel, r, a))
        BY <1>4, <2>1, <3>2 DEF Does
      <4> QED
        BY <2>2, <4>1, OutOfRangeNotes
    <3> QED
      BY <3>1, <3>2
  <2>4. Verifies(y, S, why, 0) /\ Works(x, y)
    BY <2>2, <2>3, SensedFeeds DEF Fed
  <2> QED
    BY <1>4, <2>4 DEF Upholds
<1> QED
  BY <1>1, <1>2, <1>3, <1>4 DEF IsKind

LEMMA FoldStep ==
    ASSUME NEW kind, IsKind(kind), NEW given, NEW as, Given(kind, given, as), IsFiniteSet(as),
           NEW S, NEW why, NEW x, Upholds(kind, as, {}, S, why, x), Working(x),
           NEW y, y = Folds(kind, given, x, as)
    PROVE  Upholds(kind, as, as, S, why, y) /\ Works(x, y)
<1>1. PICK n, A, v : Runs(kind, given, x, as, n, A, v) /\ y = v[n]
  <2>1. PICK n, A, v : Runs(kind, given, x, as, n, A, v) /\ Folds(kind, given, x, as) = v[n]
    BY FoldRuns
  <2> QED
    BY <2>1
<1>2. n \in Nat /\ A[0] = {} /\ A[n] = as /\ v[0] = x
  BY <1>1 DEF Runs
<1>3. Works(x, x)
  BY SelfWorks
<1> DEFINE bad == {m \in 0..n : ~(Upholds(kind, as, A[m], S, why, v[m]) /\ Works(x, v[m]))}
<1>4. bad = {}
  <2> SUFFICES ASSUME bad # {} PROVE FALSE
    OBVIOUS
  <2>1. PICK m \in bad : \A j \in bad : m <= j
    <3>1. bad \subseteq 0..n
      OBVIOUS
    <3> HIDE DEF bad
    <3>2. bad \subseteq Nat
      BY <1>2, <3>1
    <3> QED
      BY <3>2, LeastOf
  <2>2. m \in 0..n /\ ~(Upholds(kind, as, A[m], S, why, v[m]) /\ Works(x, v[m]))
    OBVIOUS
  <2>3. m # 0
    BY <1>2, <1>3, <2>2
  <2>4. m \in 1..n /\ m - 1 \in 0..n /\ ~(m <= m - 1)
    BY <1>2, <2>2, <2>3
  <2>5. m - 1 \notin bad
    <3> HIDE DEF bad
    <3> QED
      BY <2>1, <2>4
  <2>6. Upholds(kind, as, A[m - 1], S, why, v[m - 1]) /\ Works(x, v[m - 1])
    BY <2>4, <2>5
  <2>7. PICK a : a = One(A[m])
    OBVIOUS
  <2>8. a \in A[m] /\ A[m - 1] = A[m] \ {a} /\ v[m] = Does(kind, given, v[m - 1], a)
    BY <1>1, <2>4, <2>7, OneIsOf DEF Runs
  <2>9. a \in as
    BY <1>1, <2>2, <2>8, RunWithin
  <2>10. Upholds(kind, as, A[m], S, why, v[m]) /\ Works(v[m - 1], v[m])
    <3>1. PICK P, Q, z, w : P = A[m] /\ Q = A[m - 1] /\ z = v[m - 1] /\ w = v[m]
      OBVIOUS
    <3> HIDE DEF bad
    <3>3. Q = P \ {a} /\ a \in P /\ Upholds(kind, as, Q, S, why, z) /\ w = Does(kind, given, z, a)
      BY <2>6, <2>8, <3>1
    <3>4. Upholds(kind, as, P, S, why, w) /\ Works(z, w)
      BY <2>9, <3>3, DoesStep
    <3> QED
      BY <3>1, <3>4
  <2>11. Works(x, v[m])
    BY <2>6, <2>10, WorksTwice
  <2> QED
    BY <2>2, <2>10, <2>11
<1>5. n \in 0..n
  BY <1>2
<1> QED
  BY <1>1, <1>2, <1>4, <1>5

LEMMA ArmsStep ==
    ASSUME NEW as, IsFiniteSet(as), NEW x, Verifies(x, as, "unarmed", 0), NEW y, y = Arms(x, as)
    PROVE  Verifies(y, {}, "none", 0) /\ Works(x, y)
<1>1. y = Folds("arms", 0, x, as)
  BY ArmsFold
<1>2. Upholds("arms", as, {}, {}, "none", x) /\ Working(x) /\ IsKind("arms") /\ Given("arms", 0, as)
  BY DEF Upholds, Verifies, IsKind, Given
<1>3. Upholds("arms", as, as, {}, "none", y) /\ Works(x, y)
  BY <1>1, <1>2, FoldStep
<1>4. Verifies(y, {}, "unarmed", 0)
  BY <1>3 DEF Upholds
<1> QED
  BY <1>3, <1>4 DEF Verifies, AllStand

LEMMA ReleasesStep ==
    ASSUME NEW as, IsFiniteSet(as), NEW x, Verifies(x, as, "joining", 0),
           NEW y, y = Folds("releases", 0, x, as)
    PROVE  Verifies(y, {}, "none", 0) /\ Works(x, y)
<1>2. Upholds("releases", as, {}, {}, "none", x) /\ Working(x) /\ IsKind("releases") /\ Given("releases", 0, as)
  BY DEF Upholds, Verifies, IsKind, Given
<1>3. Upholds("releases", as, as, {}, "none", y) /\ Works(x, y)
  BY <1>2, FoldStep
<1>4. Verifies(y, {}, "joining", 0)
  BY <1>3 DEF Upholds
<1> QED
  BY <1>3, <1>4 DEF Verifies, AllStand

LEMMA EvaluatesStep ==
    ASSUME NEW as, IsFiniteSet(as), NEW S, NEW why, NEW x, Verifies(x, S, why, 0),
           NEW y, y = Folds("evaluates", 0, x, as)
    PROVE  Verifies(y, S, why, 0) /\ Works(x, y)
<1>2. Upholds("evaluates", as, {}, S, why, x) /\ Working(x) /\ IsKind("evaluates") /\ Given("evaluates", 0, as)
  BY DEF Upholds, Verifies, IsKind, Given
<1>3. Upholds("evaluates", as, as, S, why, y) /\ Works(x, y)
  BY <1>2, FoldStep
<1> QED
  BY <1>3 DEF Upholds

LEMMA HeardStep ==
    ASSUME NEW S, NEW why, NEW x, Verifies(x, S, why, 0), NEW r \in RadioSet, NEW ssids \in SUBSET Ssids, NEW scanned,
           IsFiniteSet(Ssids), NEW y, y = Heard(x, r, ssids, scanned)
    PROVE  Verifies(y, S, why, 0) /\ Works(x, y)
<1>1. PICK before : before = {s \in Ssids : x.sel.heard[r][s] > 0}
  OBVIOUS
<1>2. PICK as : as = (ssids \ before) \cup (IF scanned THEN before \ ssids ELSE {})
  OBVIOUS
<1>3. as \subseteq Ssids
  BY <1>1, <1>2
<1>4. IsFiniteSet(as)
  BY <1>3, FS_Subset
<1>5. PICK given : given = [r |-> r, ssids |-> ssids]
  OBVIOUS
<1>6. y = HeardNow(x, r, before, ssids, scanned)
  BY <1>1 DEF Heard
<1>7. y = Folds("hears", given, x, as)
  BY <1>2, <1>5, <1>6, HearsFold
<1>8. Upholds("hears", as, {}, S, why, x) /\ Working(x) /\ IsKind("hears")
  BY DEF Upholds, Verifies, IsKind
<1>9. Given("hears", given, as)
  BY <1>3, <1>5 DEF Given
<1>10. Upholds("hears", as, as, S, why, y) /\ Works(x, y)
  BY <1>3, <1>4, <1>7, <1>8, <1>9, FoldStep
<1> QED
  BY <1>10 DEF Upholds

LEMMA AttemptsFinite ==
    ASSUME NEW links
    PROVE  IsFiniteSet(AttemptsIn(links))
<1>1. PICK S : S = {j \in Interfaces : links[j].candidate # 0}
  OBVIOUS
<1>2. IsFiniteSet(S)
  BY <1>1, InterfacesCount, FS_Subset
<1> DEFINE f == [i \in S |-> links[i].attempt]
<1>3. f \in Surjection(S, AttemptsIn(links))
  BY <1>1 DEF AttemptsIn, Surjection
<1> HIDE DEF f
<1> QED
  BY <1>2, <1>3, FS_Surjection
-----------------------------------------------------------------------------
\* What the actions change besides: the rest of the driver.

\* What stays of the verifying where its fields do.
SameChecks(x, y) ==
    /\ y.sel = x.sel /\ y.checks = x.checks /\ y.deadlines = x.deadlines /\ y.probes = x.probes
    /\ y.stations = x.stations /\ y.rejoins = x.rejoins

\* Nothing waits on less.
WaitsOn(x, y) ==
    /\ x.joins \subseteq y.joins /\ x.rescans \subseteq y.rescans
    /\ \A r \in RadioSet : x.scanning[r] > 0 => y.scanning[r] > 0
    /\ \A a \in DOMAIN x.checks :
         x.wants \/ (x.apply.runs /\ a \in AttemptsIn(x.apply.links)) =>
            y.wants \/ (y.apply.runs /\ a \in AttemptsIn(y.apply.links))

LEMMA SameWorking ==
    ASSUME NEW x, Working(x), NEW y, IsDriver(y), SameChecks(x, y)
    PROVE  Working(y)
<1> USE DEF SameChecks
<1>1. ChecksAre(y)
  BY DEF Working, ChecksAre
<1>2. Timed(y)
  BY DEF Working, Timed
<1>3. ProbesAre(y)
  BY DEF Working, ProbesAre
<1>4. Unarmed(y)
  BY DEF Working, Unarmed
<1>5. StationsAre(y)
  BY DEF Working, StationsAre
<1> QED
  BY <1>1, <1>2, <1>3, <1>4, <1>5 DEF Working

LEMMA SameStands ==
    ASSUME NEW x, Working(x), Follows(x.checks, x.sel), NEW y, SameChecks(x, y), WaitsOn(x, y),
           NEW a \in DOMAIN x.checks, Stands(x, a)
    PROVE  Stands(y, a)
<1>1. PICK c : c = x.checks[a] /\ c = y.checks[a]
  BY DEF SameChecks
<1>2. c.at = Association => c.on \in RadioSet
  BY <1>1, OnRadio
<1> QED
  BY <1>1, <1>2 DEF Stands, SameChecks, WaitsOn

LEMMA SameVerifies ==
    ASSUME NEW x, NEW S, NEW why, NEW b, Verifies(x, S, why, b),
           NEW y, IsDriver(y), SameChecks(x, y), WaitsOn(x, y)
    PROVE  Verifies(y, S, why, b)
<1>1. Working(y)
  BY SameWorking DEF Verifies
<1>2. Follows(y.checks, y.sel)
  BY DEF Verifies, SameChecks
<1>3. ASSUME NEW a \in DOMAIN y.checks
      PROVE  Stands(y, a) \/ (a \in S /\ Excused(y.checks[a], why)) \/ (a = b /\ b # 0)
  <2>1. a \in DOMAIN x.checks /\ y.checks[a] = x.checks[a]
    BY DEF SameChecks
  <2>2. Stands(x, a) => Stands(y, a)
    BY <2>1, SameStands DEF Verifies
  <2> QED
    BY <2>1, <2>2 DEF Verifies, AllStand
<1> QED
  BY <1>1, <1>2, <1>3 DEF Verifies, AllStand
-----------------------------------------------------------------------------
\* What a step of the driver is within: what it answers is owed to, and
\* its selector descends from, the driver before the step.
Owes(w, x) ==
    /\ \A g \in 1..MaxCommands : x.answers[g].is = "ok" => w.answers[g].is = "ok"
    /\ x.pending.kind = "restore" /\ x.pending.render = "done" => w.pending.kind = "restore"

Besides(w, x) == CountsAre(x) /\ CommandIs(x) /\ HotspotIs(x) /\ Descends(w.sel, x.sel) /\ Owes(w, x)
Apart(w, x) == Rest(x) /\ x.scanning = x.scans /\ Descends(w.sel, x.sel) /\ Owes(w, x)
From(w, x) == Verifies(x, {}, "none", 0) /\ Apart(w, x)

\* The fields all of that is said of.
SameRest(x, y) ==
    /\ y.sel = x.sel /\ y.configured = x.configured /\ y.generation = x.generation
    /\ y.wants = x.wants /\ y.apply = x.apply /\ y.inPlace = x.inPlace
    /\ y.pending = x.pending /\ y.scanning = x.scanning /\ y.scans = x.scans
    /\ y.hotspotScanning = x.hotspotScanning /\ y.answers = x.answers
    /\ y.waits = x.waits /\ y.looks = x.looks /\ y.sweeps = x.sweeps /\ y.swept = x.swept

LEMMA SameCommand ==
    ASSUME NEW x, CommandIs(x), NEW y, SameRest(x, y)
    PROVE  CommandIs(y)
BY DEF CommandIs, CommandTyped, Underway, SameRest

LEMMA SameApart ==
    ASSUME NEW w, NEW x, Apart(w, x), NEW y, SameRest(x, y)
    PROVE  Apart(w, y)
<1>1. CountsAre(y)
  BY DEF Apart, Rest, CountsAre, SameRest
<1>2. CommandIs(y)
  BY SameCommand DEF Apart, Rest
<1>3. HotspotIs(y)
  BY DEF Apart, Rest, HotspotIs, SameRest
<1>4. SweepsAre(y)
  BY DEF Apart, Rest, SweepsAre, LooksAre, SameRest
<1>5. y.scanning = y.scans /\ Descends(w.sel, y.sel)
  BY DEF Apart, SameRest
<1>6. Owes(w, y)
  BY DEF Apart, Owes, SameRest
<1> QED
  BY <1>1, <1>2, <1>3, <1>4, <1>5, <1>6 DEF Apart, Rest

LEMMA WorksCommand ==
    ASSUME NEW x, CommandIs(x), NEW y, Works(x, y)
    PROVE  CommandIs(y)
<1>1. SameOthers(x, y) /\ (x.wants => y.wants) /\ (~y.wants => LinksOf(y.sel) = LinksOf(x.sel))
  BY DEF Works
<1>2. x.pending.kind # "none" /\ Underway(x) => Underway(y)
  BY <1>1 DEF Underway, SameOthers
<1> QED
  BY <1>1, <1>2 DEF CommandIs, CommandTyped, SameOthers

\* Working on what is verified leaves the rest as it has to be.
LEMMA WorksBesides ==
    ASSUME NEW w, NEW x, Besides(w, x), NEW y, Works(x, y)
    PROVE  Besides(w, y)
<1>0. SameOthers(x, y) /\ Descends(x.sel, y.sel) /\ (x.wants => y.wants)
  BY DEF Works
<1>1. CountsAre(y)
  BY <1>0 DEF Besides, CountsAre, SameOthers
<1>2. CommandIs(y)
  BY WorksCommand DEF Besides
<1>3. HotspotIs(y)
  BY <1>0 DEF Besides, HotspotIs, SameOthers
<1>4. Descends(w.sel, y.sel)
  BY <1>0, DescendsTwice DEF Besides
<1>5. Owes(w, y)
  BY <1>0 DEF Besides, Owes, SameOthers
<1> QED
  BY <1>1, <1>2, <1>3, <1>4, <1>5 DEF Besides

LEMMA WorksApart ==
    ASSUME NEW w, NEW x, Apart(w, x), NEW y, Works(x, y)
    PROVE  Apart(w, y)
<1>1. SameOthers(x, y)
  BY DEF Works
<1>2. Besides(w, y)
  BY WorksBesides DEF Apart, Rest, Besides
<1>3. SweepsAre(y)
  BY <1>1 DEF Apart, Rest, SweepsAre, LooksAre, SameOthers
<1>4. y.scanning = y.scans
  BY <1>1 DEF Apart, SameOthers
<1> QED
  BY <1>2, <1>3, <1>4 DEF Apart, Rest, Besides

\* What is worked on is within the step still.
LEMMA WorksFrom ==
    ASSUME NEW w, NEW x, Apart(w, x), NEW y, Works(x, y), Verifies(y, {}, "none", 0)
    PROVE  From(w, y)
BY WorksApart DEF From

LEMMA SameFrom ==
    ASSUME NEW w, NEW x, From(w, x), NEW y, IsDriver(y), SameRest(x, y), SameChecks(x, y),
           x.joins \subseteq y.joins, x.rescans \subseteq y.rescans
    PROVE  From(w, y)
<1>1. WaitsOn(x, y)
  BY DEF WaitsOn, SameRest
<1>2. Verifies(y, {}, "none", 0)
  BY <1>1, SameVerifies DEF From
<1> QED
  BY <1>2, SameApart DEF From
-----------------------------------------------------------------------------
\* Answering a command, and rendering.
Unmoved(x, y) ==
    /\ y.configured = x.configured /\ y.generation = x.generation /\ y.inPlace = x.inPlace
    /\ y.scanning = x.scanning /\ y.scans = x.scans /\ y.waits = x.waits /\ y.looks = x.looks
    /\ y.sweeps = x.sweeps /\ y.swept = x.swept /\ y.joins = x.joins /\ y.rescans = x.rescans
    /\ y.reprobing = x.reprobing

SaysPut(x, p, ans) == [x EXCEPT !.pending = p, !.answers = ans]

IsSaid(x, y, p, ans) ==
    /\ IsDriver(y) /\ SameChecks(x, y) /\ Unmoved(x, y)
    /\ y.wants = x.wants /\ y.apply = x.apply /\ y.hotspotScanning = x.hotspotScanning
    /\ y.pending = p /\ y.answers = ans

LEMMA SaysPuts ==
    ASSUME NEW x, IsDriver(x), NEW p, NEW ans, NEW y, y = SaysPut(x, p, ans)
    PROVE  IsSaid(x, y, p, ans)
<1> USE DEF SaysPut
<1>1. IsDriver(y)
  BY DEF IsDriver, Fields
<1>2. SameChecks(x, y)
  BY DEF IsDriver, Fields, SameChecks
<1>3. Unmoved(x, y)
  BY DEF IsDriver, Fields, Unmoved
<1>4. y.wants = x.wants /\ y.apply = x.apply /\ y.hotspotScanning = x.hotspotScanning /\ y.pending = p /\ y.answers = ans
  BY DEF IsDriver, Fields
<1> QED
  BY <1>1, <1>2, <1>3, <1>4 DEF IsSaid

LEMMA RestUnmoved ==
    ASSUME NEW x, CountsAre(x), SweepsAre(x), NEW y, Unmoved(x, y), CommandIs(y), HotspotIs(y)
    PROVE  Rest(y)
<1>1. CountsAre(y)
  BY DEF CountsAre, Unmoved
<1>2. SweepsAre(y)
  BY DEF SweepsAre, LooksAre, Unmoved
<1> QED
  BY <1>1, <1>2 DEF Rest

LEMMA NoPendingIs == IsPending(NoPending) /\ NoPending.kind = "none"
BY DEF IsPending, PendingFields, NoPending

RestTyped(x) == CountsAre(x) /\ CommandTyped(x) /\ HotspotIs(x) /\ SweepsAre(x)

LEMMA RestIsTyped == ASSUME NEW x, Rest(x) PROVE RestTyped(x)
BY DEF Rest, RestTyped, CommandIs

LEMMA SaysStep ==
    ASSUME NEW x, NEW S, NEW why, NEW b, Verifies(x, S, why, b), RestTyped(x), NEW said, NEW render,
           NEW y, y = Says(x, said, render)
    PROVE  /\ Verifies(y, S, why, b) /\ Rest(y) /\ SameChecks(x, y) /\ Unmoved(x, y)
           /\ y.wants = x.wants /\ y.apply = x.apply /\ y.hotspotScanning = x.hotspotScanning
           /\ y.pending.kind = "none"
           /\ \A g \in 1..MaxCommands : y.answers[g].is = x.answers[g].is
                \/ (g = x.pending.generation /\ y.answers[g].is = said /\ x.pending.kind # "none")
<1>1. CASE x.pending.kind = "none"
  <2>1. y = x
    BY <1>1 DEF Says
  <2>2. Rest(x)
    BY <1>1 DEF RestTyped, Rest, CommandIs
  <2> QED
    BY <1>1, <2>1, <2>2 DEF SameChecks, Unmoved
<1>2. CASE x.pending.kind # "none"
  <2>1. PICK ans : ans = [x.answers EXCEPT ![x.pending.generation] = [is |-> said, render |-> render]]
    OBVIOUS
  <2>2. y = SaysPut(x, NoPending, ans)
    BY <1>2, <2>1 DEF Says, SaysPut
  <2>3. IsDriver(x)
    BY DEF Verifies, Working
  <2>4. /\ IsDriver(y) /\ SameChecks(x, y) /\ Unmoved(x, y)
        /\ y.wants = x.wants /\ y.apply = x.apply /\ y.hotspotScanning = x.hotspotScanning
        /\ y.pending = NoPending /\ y.answers = ans
    <3>1. IsSaid(x, y, NoPending, ans)
      BY <2>2, <2>3, SaysPuts
    <3> QED
      BY <3>1 DEF IsSaid
  <2>5. WaitsOn(x, y)
    BY <2>4 DEF WaitsOn, Unmoved
  <2>6. Verifies(y, S, why, b)
    BY <2>4, <2>5, SameVerifies
  <2>7. x.answers = [g \in 1..MaxCommands |-> x.answers[g]]
    BY DEF RestTyped, CommandTyped
  <2>8. CommandIs(y)
    <3>1. y.answers = [g \in 1..MaxCommands |-> y.answers[g]]
      BY <2>1, <2>4, <2>7
    <3>2. IsApply(y.apply) /\ IsApply(y.inPlace) /\ y.generation \in Nat
      BY <2>4 DEF RestTyped, CommandTyped, Unmoved
    <3> QED
      BY <2>4, <3>1, <3>2, NoPendingIs DEF CommandIs, CommandTyped
  <2>9. HotspotIs(y)
    BY <2>4 DEF RestTyped, HotspotIs, Unmoved
  <2>10. Rest(y)
    BY <2>4, <2>8, <2>9, RestUnmoved DEF RestTyped
  <2>11. ASSUME NEW g \in 1..MaxCommands
         PROVE  y.answers[g].is = x.answers[g].is
                  \/ (g = x.pending.generation /\ y.answers[g].is = said /\ x.pending.kind # "none")
    <3>1. CASE g = x.pending.generation
      <4>1. y.answers[g] = [is |-> said, render |-> render]
        BY <2>1, <2>4, <2>7, <3>1
      <4> QED
        BY <1>2, <3>1, <4>1
    <3>2. CASE g # x.pending.generation
      BY <2>1, <2>4, <2>7, <3>2
    <3> QED
      BY <3>1, <3>2
  <2> QED
    BY <2>4, <2>6, <2>10, <2>11, NoPendingIs
<1> QED
  BY <1>1, <1>2

Rendering(x) == [runs |-> TRUE, generation |-> x.generation, links |-> LinksOf(x.sel), domain |-> Domain[x.sel.doc]]

TakesPut(x, p, awaits, bounce, conf, apply) ==
    [x EXCEPT !.wants = FALSE, !.pending = p, !.hotspotScanning = awaits, !.bounce = bounce, !.conf = conf,
              !.apply = apply]

IsTaken(x, y, p, awaits, apply) ==
    /\ IsDriver(y) /\ SameChecks(x, y) /\ Unmoved(x, y)
    /\ y.wants = FALSE /\ y.apply = apply /\ y.hotspotScanning = awaits /\ y.pending = p /\ y.answers = x.answers

LEMMA TakesPuts ==
    ASSUME NEW x, IsDriver(x), NEW p, NEW awaits, NEW bounce, NEW conf, NEW apply,
           NEW y, y = TakesPut(x, p, awaits, bounce, conf, apply)
    PROVE  IsTaken(x, y, p, awaits, apply)
<1> USE DEF TakesPut
<1>1. IsDriver(y)
  BY Zenon DEF IsDriver, Fields
<1>2. SameChecks(x, y)
  BY DEF IsDriver, Fields, SameChecks
<1>3. Unmoved(x, y)
  BY DEF IsDriver, Fields, Unmoved
<1>4. y.wants = FALSE /\ y.apply = apply /\ y.hotspotScanning = awaits /\ y.pending = p /\ y.answers = x.answers
  BY DEF IsDriver, Fields
<1> QED
  BY <1>1, <1>2, <1>3, <1>4 DEF IsTaken

LEMMA PendingPut ==
    ASSUME NEW p, IsPending(p), NEW render \in {"wanted", "taken", "done"}, NEW q, q = [p EXCEPT !.render = render]
    PROVE  IsPending(q) /\ q.kind = p.kind /\ q.generation = p.generation /\ q.render = render
BY DEF IsPending, PendingFields

LEMMA RenderingIs == ASSUME NEW x, NEW p, p = Rendering(x)
    PROVE IsApply(p) /\ p.runs /\ p.generation = x.generation /\ p.links = LinksOf(x.sel)
BY DEF IsApply, ApplyFields, Rendering

\* Taking a render, with no apply running.
LEMMA TakesStep ==
    ASSUME NEW x, NEW S, NEW why, NEW b, Verifies(x, S, why, b), Rest(x), x.configured, ~x.apply.runs,
           NEW awaits, awaits # "none" => awaits \in RadioSet /\ x.scanning[awaits] > 0,
           NEW conf, NEW y, y = TakesRender(x, awaits, conf)
    PROVE  /\ Verifies(y, S, why, b) /\ Rest(y) /\ SameChecks(x, y) /\ Unmoved(x, y)
           /\ y.apply.runs /\ y.answers = x.answers /\ y.pending.kind = x.pending.kind
           /\ y.pending.render = "done" => x.pending.render = "done"
<1>1. IsPending(x.pending) /\ IsDriver(x) /\ CommandIs(x)
  BY DEF Rest, CommandIs, CommandTyped, Verifies, Working
<1>2. PICK render : render = IF x.pending.kind # "none" /\ x.pending.render = "wanted" THEN "taken" ELSE x.pending.render
  OBVIOUS
<1>3. render \in {"wanted", "taken", "done"} /\ (render = "done" => x.pending.render = "done")
  BY <1>1, <1>2 DEF IsPending
<1>4. PICK p : p = [x.pending EXCEPT !.render = render]
  OBVIOUS
<1>5. IsPending(p) /\ p.kind = x.pending.kind /\ p.generation = x.pending.generation /\ p.render = render
  BY <1>1, <1>3, <1>4, PendingPut
<1>6. PICK apply, bounce : apply = Rendering(x) /\ bounce = Bounced(x, conf)
  OBVIOUS
<1>7. y = TakesPut(x, p, awaits, bounce, conf, apply)
  BY <1>2, <1>4, <1>6 DEF TakesRender, TakesPut, Rendering
<1>8. /\ IsDriver(y) /\ SameChecks(x, y) /\ Unmoved(x, y)
      /\ y.wants = FALSE /\ y.apply = apply /\ y.hotspotScanning = awaits /\ y.pending = p /\ y.answers = x.answers
  <2>1. IsTaken(x, y, p, awaits, apply)
    BY <1>1, <1>7, TakesPuts
  <2> QED
    BY <2>1 DEF IsTaken
<1>9. IsApply(apply) /\ apply.runs /\ apply.generation = x.generation /\ apply.links = LinksOf(x.sel)
  BY <1>6, RenderingIs
<1>10. WaitsOn(x, y)
  <2>1. \A a \in DOMAIN x.checks : a \in AttemptsIn(y.apply.links)
    BY <1>8, <1>9 DEF Verifies, Follows, Attempts
  <2> QED
    BY <1>8, <1>9, <2>1 DEF WaitsOn, Unmoved
<1>11. Verifies(y, S, why, b)
  BY <1>8, <1>10, SameVerifies
<1>12. CommandIs(y)
  <2>1. /\ IsApply(y.apply) /\ IsApply(y.inPlace) /\ IsPending(y.pending) /\ y.generation \in Nat
        /\ y.answers = [g \in 1..MaxCommands |-> y.answers[g]]
    BY <1>1, <1>5, <1>8, <1>9 DEF CommandIs, CommandTyped, Unmoved
  <2>2. ASSUME y.pending.kind # "none" PROVE Underway(y)
    <3>1. x.pending.kind # "none" /\ Underway(x)
      BY <1>1, <1>5, <1>8, <2>2 DEF CommandIs
    <3>2. render # "wanted"
      BY <1>2, <3>1
    <3>3. y.configured = x.configured /\ y.generation = x.generation /\ y.inPlace = x.inPlace /\ y.sel = x.sel
      BY <1>8 DEF Unmoved, SameChecks
    <3> QED
      BY <1>3, <1>5, <1>8, <1>9, <3>1, <3>2, <3>3 DEF Underway
  <2> QED
    BY <2>1, <2>2 DEF CommandIs, CommandTyped
<1>13. HotspotIs(y)
  BY <1>8 DEF HotspotIs, Unmoved
<1>14. Rest(y)
  BY <1>8, <1>12, <1>13, RestUnmoved DEF Rest
<1> QED
  BY <1>3, <1>5, <1>8, <1>9, <1>11, <1>14

LEMMA AwaitsRadio ==
    ASSUME NEW x, NEW r, r = HotspotAwaitsScan(x), r # "none"
    PROVE  r \in RadioSet /\ x.scanning[r] > 0
BY DEF HotspotAwaitsScan, SharesChannel

\* Nothing configured and wanted is left unrendered, but while one is.
LEMMA KickStep ==
    ASSUME NEW x, NEW S, NEW why, NEW b, Verifies(x, S, why, b), Rest(x), NEW y, y = Kick(x)
    PROVE  /\ Verifies(y, S, why, b) /\ Rest(y) /\ SameChecks(x, y) /\ Unmoved(x, y)
           /\ y.configured /\ y.wants => y.apply.runs
           /\ y.pending.kind # "none" => y.pending.kind = x.pending.kind /\ (y.pending.render = "done" => x.pending.render = "done")
           /\ \A g \in 1..MaxCommands : y.answers[g].is = "ok" => x.answers[g].is = "ok"
<1>1. CASE ~x.configured \/ ~x.wants \/ x.apply.runs
  <2>1. y = x
    BY <1>1 DEF Kick
  <2> QED
    BY <1>1, <2>1 DEF SameChecks, Unmoved
<1>2. CASE ~(~x.configured \/ ~x.wants \/ x.apply.runs)
  <2>1. PICK awaits : awaits = HotspotAwaitsScan(x)
    OBVIOUS
  <2>2. awaits # "none" => awaits \in RadioSet /\ x.scanning[awaits] > 0
    BY <2>1, AwaitsRadio
  <2>3. PICK radio : y = RendersOn(x, awaits, radio)
    BY <1>2, <2>1 DEF Kick, KickAwaiting
  <2>4. CASE HotspotBarred(x, radio)
    <3>1. PICK z : z = Says(x, "failed", x.generation)
      OBVIOUS
    <3>2. y = TakesRender(z, awaits, NoConf)
      BY <2>3, <2>4, <3>1 DEF RendersOn, Fails
    <3>3. /\ Verifies(z, S, why, b) /\ Rest(z) /\ SameChecks(x, z) /\ Unmoved(x, z)
          /\ z.wants = x.wants /\ z.apply = x.apply /\ z.pending.kind = "none"
          /\ \A g \in 1..MaxCommands : z.answers[g].is = x.answers[g].is \/ z.answers[g].is = "failed"
      BY <3>1, SaysStep, RestIsTyped
    <3>4. z.configured /\ ~z.apply.runs /\ (awaits # "none" => awaits \in RadioSet /\ z.scanning[awaits] > 0)
      BY <1>2, <2>2, <3>3 DEF Unmoved
    <3>5. /\ Verifies(y, S, why, b) /\ Rest(y) /\ SameChecks(z, y) /\ Unmoved(z, y)
          /\ y.apply.runs /\ y.answers = z.answers /\ y.pending.kind = z.pending.kind
      BY <3>2, <3>3, <3>4, TakesStep
    <3>6. SameChecks(x, y) /\ Unmoved(x, y)
      BY <3>3, <3>5 DEF SameChecks, Unmoved
    <3> QED
      BY <3>3, <3>5, <3>6
  <2>5. CASE ~HotspotBarred(x, radio)
    <3>1. PICK conf : y = TakesRender(x, awaits, conf)
      BY <2>3, <2>5 DEF RendersOn
    <3> QED
      BY <1>2, <2>2, <3>1, TakesStep
  <2> QED
    BY <2>4, <2>5
<1> QED
  BY <1>1, <1>2
-----------------------------------------------------------------------------
\* What the loop does before it takes the next.
Later(x, y) ==
    /\ y.sel = x.sel /\ y.checks = x.checks /\ y.stations = x.stations /\ y.rescans = x.rescans
    /\ y.configured = x.configured /\ y.generation = x.generation /\ y.wants = x.wants
    /\ y.apply = x.apply /\ y.inPlace = x.inPlace /\ y.pending = x.pending
    /\ y.scanning = x.scanning /\ y.scans = x.scans /\ y.hotspotScanning = x.hotspotScanning
    /\ y.answers = x.answers /\ y.looks = x.looks /\ y.reprobing = x.reprobing

LEMMA LaterRest ==
    ASSUME NEW x, Rest(x), NEW y, Later(x, y), SweepsAre(y)
    PROVE  Rest(y)
<1>1. CountsAre(y)
  BY DEF Rest, CountsAre, Later
<1>2. CommandIs(y)
  BY DEF Rest, CommandIs, CommandTyped, Underway, Later
<1>3. HotspotIs(y)
  BY DEF Rest, HotspotIs, Later
<1> QED
  BY <1>1, <1>2, <1>3 DEF Rest

\* A command pending has something to come back to it.
Moves(x) ==
    x.pending.kind # "none" => x.apply.runs \/ x.reprobing \/ Verifying(x) \/ \E r \in RadioSet : x.scans[r] > 0

\* What was answered well now and not before is in force.
InForce(w, y) ==
    \A g \in 1..MaxCommands :
        (y.answers[g].is = "ok" /\ w.answers[g].is # "ok") =>
            /\ y.inPlace.generation = g
            /\ w.pending.kind = "apply" => y.inPlace.links = LinksOf(y.sel)

LEMMA LaterMoves ==
    ASSUME NEW x, NEW y, Later(x, y)
    PROVE  /\ Moves(x) => Moves(y)
           /\ \A w : InForce(w, x) => InForce(w, y)
<1>1. Moves(x) => Moves(y)
  BY DEF Moves, Later, Verifying
<1>2. \A w : InForce(w, x) => InForce(w, y)
  BY DEF InForce, Later
<1> QED
  BY <1>1, <1>2

\* Kicked, a command that cannot be answered yet waits on something.
LEMMA UnansweredMoves ==
    ASSUME NEW x, Rest(x), x.scanning = x.scans, x.configured /\ x.wants => x.apply.runs, ~Answerable(x)
    PROVE  Moves(x)
<1>1. SUFFICES ASSUME x.pending.kind # "none", ~x.apply.runs, ~x.reprobing, ~Verifying(x), \A r \in RadioSet : ~(x.scans[r] > 0)
               PROVE  FALSE
  BY DEF Moves
<1>2. IsPending(x.pending) /\ Underway(x) /\ x.scans \in [RadioSet -> Nat]
  BY <1>1 DEF Rest, CommandIs, CommandTyped, CountsAre
<1>3. x.configured /\ ~x.wants
  BY <1>1, <1>2 DEF Underway
<1>4. x.pending.render = "done"
  BY <1>1, <1>2, <1>3 DEF Underway, IsPending
<1>5. \A r \in RadioSet : x.scanning[r] = 0
  BY <1>1, <1>2
<1> QED
  BY <1>1, <1>3, <1>4, <1>5 DEF Answerable

\* What is answered well is in force.
LEMMA AnswersStep ==
    ASSUME NEW w, NEW x, Verifies(x, {}, "none", 0), Rest(x), x.scanning = x.scans,
           x.configured /\ x.wants => x.apply.runs, Owes(w, x), NEW y, y = Answers(x)
    PROVE  /\ Verifies(y, {}, "none", 0) /\ Rest(y) /\ SameChecks(x, y) /\ Unmoved(x, y)
           /\ Moves(y) /\ InForce(w, y)
<1>1. CASE ~Answerable(x)
  <2>1. y = x
    BY <1>1 DEF Answers
  <2>2. Moves(x)
    BY <1>1, UnansweredMoves
  <2>3. InForce(w, x)
    BY DEF Owes, InForce
  <2> QED
    BY <2>1, <2>2, <2>3 DEF SameChecks, Unmoved
<1>2. CASE Answerable(x)
  <2>1. PICK said, render : y = Says(x, said, render)
    BY <1>2 DEF Answers
  <2>2. /\ Verifies(y, {}, "none", 0) /\ Rest(y) /\ SameChecks(x, y) /\ Unmoved(x, y)
        /\ y.pending.kind = "none"
        /\ \A g \in 1..MaxCommands : y.answers[g].is = x.answers[g].is \/ g = x.pending.generation
    BY <2>1, SaysStep, RestIsTyped
  <2>3. Moves(y)
    BY <2>2 DEF Moves
  <2>4. x.pending.kind \in {"apply", "restore"} /\ x.pending.render = "done" /\ Underway(x)
    BY <1>2 DEF Answerable, Rest, CommandIs, CommandTyped, IsPending
  <2>5. x.inPlace.generation = x.pending.generation
    BY <2>4 DEF Underway
  <2>6. x.pending.kind = "apply" => x.inPlace.links = LinksOf(x.sel)
    BY <1>2, <2>4 DEF Answerable, Underway
  <2>7. x.pending.kind # "apply" => w.pending.kind = "restore"
    BY <2>4 DEF Owes
  <2>8. y.inPlace = x.inPlace /\ y.sel = x.sel
    BY <2>2 DEF Unmoved, SameChecks
  <2>9. ASSUME NEW g \in 1..MaxCommands, y.answers[g].is = "ok", w.answers[g].is # "ok"
        PROVE  /\ y.inPlace.generation = g
               /\ w.pending.kind = "apply" => y.inPlace.links = LinksOf(y.sel)
    <3>1. g = x.pending.generation
      BY <2>2, <2>9 DEF Owes
    <3> QED
      BY <2>5, <2>6, <2>7, <2>8, <3>1
  <2> QED
    BY <2>2, <2>3, <2>9 DEF InForce
<1> QED
  BY <1>1, <1>2

RetriesPut(x, r, f) == [x EXCEPT !.retries = r, !.failed = f]
LEMMA RetriesPuts ==
    ASSUME NEW x, IsDriver(x), NEW r, NEW f, NEW y, y = RetriesPut(x, r, f)
    PROVE  /\ IsDriver(y) /\ SameChecks(x, y) /\ Later(x, y) /\ Unmoved(x, y)
<1> USE DEF RetriesPut
<1>1. IsDriver(y)
  BY DEF IsDriver, Fields
<1>2. SameChecks(x, y)
  BY DEF IsDriver, Fields, SameChecks
<1>3. Unmoved(x, y)
  BY DEF IsDriver, Fields, Unmoved
<1>4. Later(x, y)
  BY DEF IsDriver, Fields, Later
<1> QED
  BY <1>1, <1>2, <1>3, <1>4

SweepPut(x, s, n, ws) == [x EXCEPT !.sweeps = s, !.swept = n, !.waits = ws]
IsSwept(x, y, s, n, ws) ==
    /\ IsDriver(y) /\ SameChecks(x, y) /\ Later(x, y) /\ y.joins = x.joins
    /\ y.sweeps = s /\ y.swept = n /\ y.waits = ws
LEMMA SweepPuts ==
    ASSUME NEW x, IsDriver(x), NEW s, NEW n, NEW ws, NEW y, y = SweepPut(x, s, n, ws)
    PROVE  IsSwept(x, y, s, n, ws)
<1> USE DEF SweepPut
<1>1. IsDriver(y)
  BY DEF IsDriver, Fields
<1>2. SameChecks(x, y)
  BY DEF IsDriver, Fields, SameChecks
<1>3. Later(x, y)
  BY DEF IsDriver, Fields, Later
<1>4. y.joins = x.joins /\ y.sweeps = s /\ y.swept = n /\ y.waits = ws
  BY DEF IsDriver, Fields
<1> QED
  BY <1>1, <1>2, <1>3, <1>4 DEF IsSwept

LEMMA LaterVerifies ==
    ASSUME NEW x, Verifies(x, {}, "none", 0), NEW y, IsDriver(y), SameChecks(x, y), Later(x, y), y.joins = x.joins
    PROVE  Verifies(y, {}, "none", 0)
<1>1. WaitsOn(x, y)
  BY DEF WaitsOn, Later
<1> QED
  BY <1>1, SameVerifies

\* Retries are of no matter to what is verified.
LEMMA RetryStep ==
    ASSUME NEW x, Verifies(x, {}, "none", 0), Rest(x), NEW y, y = RetryLater(x)
    PROVE  Verifies(y, {}, "none", 0) /\ Rest(y) /\ Later(x, y)
<1>1. CASE x.pending.kind # "none"
  BY <1>1 DEF RetryLater, Later
<1>2. CASE x.pending.kind = "none"
  <2>1. PICK r, f : y = RetriesPut(x, r, f)
    BY <1>2, Zenon DEF RetryLater, RetriesPut
  <2>2. IsDriver(x)
    BY DEF Verifies, Working
  <2>3. IsDriver(y) /\ SameChecks(x, y) /\ Later(x, y) /\ Unmoved(x, y)
    BY <2>1, <2>2, RetriesPuts
  <2>4. Verifies(y, {}, "none", 0)
    BY <2>3, LaterVerifies DEF Unmoved
  <2>5. SweepsAre(y)
    BY <2>3 DEF Rest, SweepsAre, LooksAre, Unmoved
  <2> QED
    BY <2>3, <2>4, <2>5, LaterRest
<1> QED
  BY <1>1, <1>2

\* A sweep begun has a token later than any before it.
LEMMA TokenIs ==
    ASSUME NEW x, x.swept \in Nat, NEW begun, begun \subseteq RadioSet, NEW r \in begun
    PROVE  Token(x, begun, r) \in (x.swept + 1)..(x.swept + Cardinality(begun)) /\ Cardinality(begun) \in Nat
<1>1. IsFiniteSet(begun) /\ Cardinality(begun) \in Nat
  BY InterfacesCount, FS_Subset DEF Interfaces
<1>2. RadioOrder \in Seq(RadioSet) /\ NamedOnce(RadioOrder) /\ \E n \in DOMAIN RadioOrder : RadioOrder[n] = r
  BY HardwareAssumption, OrderAssumption DEF NamedOnce, RadioSet
<1>3. Cardinality(UpTo(RadioOrder, begun, r)) \in 1..Cardinality(begun)
  BY <1>1, <1>2, CountsUpTo
<1>4. Token(x, begun, r) = x.swept + Cardinality(UpTo(RadioOrder, begun, r))
  BY DEF Token, UpTo
<1> QED
  BY <1>1, <1>3, <1>4
-----------------------------------------------------------------------------
LEMMA SweepStep ==
    ASSUME NEW x, Verifies(x, {}, "none", 0), Rest(x), NEW y, y = Sweep(x)
    PROVE  Verifies(y, {}, "none", 0) /\ Rest(y) /\ Later(x, y)
<1>1. PICK wanted : wanted = Sweeping(x)
  OBVIOUS
<1>2. wanted \subseteq RadioSet
  BY <1>1 DEF Sweeping
<1>3. PICK begun : begun = {r \in wanted : x.sweeps[r] = 0}
  OBVIOUS
<1>4. SweepsAre(x) /\ IsDriver(x)
  BY DEF Rest, Verifies, Working
<1>5. begun \subseteq RadioSet /\ x.swept \in Nat
  BY <1>2, <1>3, <1>4 DEF SweepsAre
<1>6. PICK n : n = x.swept + Cardinality(begun)
  OBVIOUS
<1>7. n \in Nat /\ x.swept <= n /\ \A r \in begun : Token(x, begun, r) \in (x.swept + 1)..n
  <2>1. IsFiniteSet(begun) /\ Cardinality(begun) \in Nat
    BY <1>5, InterfacesCount, FS_Subset DEF Interfaces
  <2>2. \A r \in begun : Token(x, begun, r) \in (x.swept + 1)..n
    BY <1>5, <1>6, TokenIs
  <2> QED
    BY <1>5, <1>6, <2>1, <2>2
<1>8. PICK s : s = [r \in RadioSet |-> IF r \in begun THEN Token(x, begun, r)
                                       ELSE IF r \in wanted THEN x.sweeps[r] ELSE 0]
  OBVIOUS
<1>9. PICK ws : ws = x.waits \cup {<<r, Token(x, begun, r)>> : r \in begun}
  OBVIOUS
<1>10. y = SweepPut(x, s, n, ws)
  BY <1>1, <1>3, <1>6, <1>8, <1>9 DEF Sweep, SweepAmong, SweepOn, SweepPut
<1>11. IsSwept(x, y, s, n, ws)
  BY <1>4, <1>10, SweepPuts
<1>12. Verifies(y, {}, "none", 0) /\ Later(x, y)
  BY <1>11, LaterVerifies DEF IsSwept
<1>13. LooksAre(y)
  <2>1. ASSUME NEW e \in x.waits \cup x.looks PROVE e \in RadioSet \X Nat /\ e[2] <= n
    <3>1. e \in RadioSet \X Nat /\ e[2] <= x.swept
      BY <1>4 DEF SweepsAre, LooksAre
    <3> QED
      BY <1>5, <1>7, <3>1
  <2>2. ASSUME NEW r \in begun PROVE <<r, Token(x, begun, r)>> \in RadioSet \X Nat /\ <<r, Token(x, begun, r)>>[2] <= n
    BY <1>5, <1>7
  <2>3. y.waits = ws /\ y.looks = x.looks /\ y.swept = n
    BY <1>11 DEF IsSwept, Later
  <2> QED
    BY <1>9, <2>1, <2>2, <2>3 DEF LooksAre
<1>14. s \in [RadioSet -> Nat]
  <2>1. \A r \in RadioSet : x.sweeps[r] \in Nat
    BY <1>4 DEF SweepsAre
  <2> QED
    BY <1>5, <1>7, <1>8, <2>1
<1>15. ASSUME NEW r \in RadioSet, s[r] # 0
       PROVE  s[r] <= n /\ (<<r, s[r]>> \in ws) # (<<r, s[r]>> \in x.looks)
  <2>1. CASE r \in begun
    <3>1. PICK k : k = Token(x, begun, r)
      OBVIOUS
    <3>2. s[r] = k /\ k \in (x.swept + 1)..n
      BY <1>7, <1>8, <2>1, <3>1
    <3>3. <<r, k>> \in ws
      BY <1>9, <2>1, <3>1
    <3>4. <<r, k>> \notin x.looks
      <4>1. ~(k <= x.swept)
        BY <1>5, <1>7, <3>2
      <4>2. SUFFICES ASSUME <<r, k>> \in x.looks PROVE FALSE
        OBVIOUS
      <4>3. <<r, k>>[2] <= x.swept
        BY <1>4, <4>2 DEF SweepsAre, LooksAre
      <4> QED
        BY <4>1, <4>3
    <3>5. k <= n
      BY <1>5, <1>7, <3>2
    <3> QED
      BY <3>2, <3>3, <3>4, <3>5
  <2>2. CASE r \notin begun
    <3>1. s[r] = x.sweeps[r] /\ x.sweeps[r] # 0
      BY <1>8, <1>15, <2>2
    <3>2. PICK k : k = x.sweeps[r]
      OBVIOUS
    <3>3. k <= x.swept /\ (<<r, k>> \in x.waits) # (<<r, k>> \in x.looks) /\ k \in Nat
      BY <1>4, <3>1, <3>2 DEF SweepsAre
    <3>4. <<r, k>> \in ws <=> <<r, k>> \in x.waits
      BY <1>9, <2>2
    <3>5. k <= n
      BY <1>5, <1>7, <3>3
    <3> QED
      BY <3>1, <3>2, <3>3, <3>4, <3>5
  <2> QED
    BY <2>1, <2>2
<1>16. SweepsAre(y)
  <2>1. y.sweeps = s /\ y.swept = n /\ y.waits = ws /\ y.looks = x.looks
    BY <1>11 DEF IsSwept, Later
  <2> QED
    BY <1>7, <1>13, <1>14, <1>15, <2>1 DEF SweepsAre
<1> QED
  BY <1>12, <1>16, LaterRest
-----------------------------------------------------------------------------
ForgetsPut(x, J, N, P, D, W) ==
    [x EXCEPT !.joins = J, !.rejoins = N, !.probes = P, !.deadlines = D, !.waits = W]
IsForgot(x, y, J, N, P, D, W) ==
    /\ IsDriver(y) /\ Later(x, y) /\ y.sweeps = x.sweeps /\ y.swept = x.swept
    /\ y.joins = J /\ y.rejoins = N /\ y.probes = P /\ y.deadlines = D /\ y.waits = W
LEMMA ForgetsPuts ==
    ASSUME NEW x, IsDriver(x), NEW J, NEW N, NEW P, NEW D, NEW W, NEW y, y = ForgetsPut(x, J, N, P, D, W)
    PROVE  IsForgot(x, y, J, N, P, D, W)
<1> USE DEF ForgetsPut
<1>1. IsDriver(y)
  BY Zenon DEF IsDriver, Fields
<1>2. Later(x, y)
  BY DEF IsDriver, Fields, Later
<1>3. /\ y.sweeps = x.sweeps /\ y.swept = x.swept
      /\ y.joins = J /\ y.rejoins = N /\ y.probes = P /\ y.deadlines = D /\ y.waits = W
  BY DEF IsDriver, Fields
<1> QED
  BY <1>1, <1>2, <1>3 DEF IsForgot

\* What is dropped was of nothing that is being verified.
LEMMA ForgetsStep ==
    ASSUME NEW x, Verifies(x, {}, "none", 0), Rest(x), x.scanning = x.scans, Moves(x), NEW y, y = Forgets(x)
    PROVE  DriverHolds(y) /\ TurnEnds(y) /\ Later(x, y)
<1>1. PICK J, N, P, D, W :
        /\ J = x.joins \cap DOMAIN x.checks /\ N = x.rejoins \cap DOMAIN x.checks
        /\ P = x.probes \cap DOMAIN x.checks
        /\ D = {t \in x.deadlines : t[1] \in DOMAIN x.checks /\ x.checks[t[1]].timer = t[2]}
        /\ W = {e \in x.waits : x.sweeps[e[1]] = e[2]}
  OBVIOUS
<1>2. y = ForgetsPut(x, J, N, P, D, W)
  BY <1>1 DEF Forgets, ForgetsPut
<1>3. Working(x) /\ Follows(x.checks, x.sel) /\ AllStand(x, {}, "none", 0)
  BY DEF Verifies
<1>4. IsForgot(x, y, J, N, P, D, W)
  BY <1>2, <1>3, ForgetsPuts DEF Working
<1>5. /\ IsDriver(y) /\ Later(x, y) /\ y.sweeps = x.sweeps /\ y.swept = x.swept
      /\ y.joins = J /\ y.rejoins = N /\ y.probes = P /\ y.deadlines = D /\ y.waits = W
  BY <1>4 DEF IsForgot
<1>6. y.sel = x.sel /\ y.checks = x.checks /\ y.stations = x.stations
  BY <1>5 DEF Later
<1>7. Working(y)
  <2>1. ChecksAre(y)
    BY <1>3, <1>6 DEF Working, ChecksAre
  <2>2. Timed(y)
    BY <1>1, <1>3, <1>5, <1>6 DEF Working, Timed
  <2>3. ProbesAre(y)
    BY <1>1, <1>3, <1>5, <1>6 DEF Working, ProbesAre
  <2>4. Unarmed(y)
    BY <1>3, <1>6 DEF Working, Unarmed
  <2>5. StationsAre(y)
    BY <1>1, <1>3, <1>5, <1>6 DEF Working, StationsAre
  <2> QED
    BY <1>3, <1>5, <1>6, <2>1, <2>2, <2>3, <2>4, <2>5 DEF Working
<1>8. ASSUME NEW a \in DOMAIN y.checks PROVE Stands(y, a)
  <2>1. PICK c : c = x.checks[a] /\ c = y.checks[a]
    BY <1>6
  <2>2. a \in DOMAIN x.checks /\ Stands(x, a)
    BY <1>3, <1>6, <1>8 DEF AllStand, Excused
  <2>3. a \in x.joins => a \in y.joins
    BY <1>1, <1>5, <2>2
  <2>4. <<a, c.timer, c.at>> \in x.deadlines => <<a, c.timer, c.at>> \in y.deadlines
    BY <1>1, <1>5, <2>1, <2>2
  <2> QED
    BY <1>5, <2>1, <2>2, <2>3, <2>4 DEF Stands, Later
<1>9. Verifies(y, {}, "none", 0)
  BY <1>3, <1>6, <1>7, <1>8 DEF Verifies, AllStand
<1>10. SweepsAre(y)
  <2>1. y.looks = x.looks /\ SweepsAre(x)
    BY <1>5 DEF Later, Rest
  <2>2. LooksAre(y)
    BY <1>1, <1>5, <2>1 DEF SweepsAre, LooksAre
  <2>3. \A r \in RadioSet : <<r, x.sweeps[r]>> \in W <=> <<r, x.sweeps[r]>> \in x.waits
    BY <1>1
  <2> QED
    BY <1>5, <2>1, <2>2, <2>3 DEF SweepsAre
<1>11. Rest(y)
  BY <1>5, <1>10, LaterRest
<1>12. TurnEnds(y)
  <2>1. y.scanning = y.scans
    BY <1>5 DEF Later
  <2>2. y.probes \subseteq DOMAIN y.checks /\ y.rejoins \subseteq DOMAIN y.checks
    BY <1>1, <1>5, <1>6
  <2>3. \A t \in y.deadlines : t[1] \in DOMAIN y.checks /\ t[2] = y.checks[t[1]].timer
    BY <1>1, <1>5, <1>6
  <2>4. \A e \in y.waits : y.sweeps[e[1]] = e[2]
    BY <1>1, <1>5
  <2>5. Moves(y)
    BY <1>5, LaterMoves
  <2> QED
    BY <2>1, <2>2, <2>3, <2>4, <2>5 DEF TurnEnds, Moves
<1> QED
  BY <1>5, <1>9, <1>11, <1>12 DEF DriverHolds

\* A turn leaves everything as it has to be.
LEMMA TurnStep ==
    ASSUME NEW w, NEW x, From(w, x), NEW y, y = Turn(x)
    PROVE  DriverHolds(y) /\ TurnEnds(y) /\ Descends(w.sel, y.sel) /\ InForce(w, y)
<1>1. /\ Verifies(x, {}, "none", 0) /\ Rest(x) /\ x.scanning = x.scans
      /\ Descends(w.sel, x.sel) /\ Owes(w, x)
  BY DEF From, Apart
<1>2. PICK k, s, r, v : k = Kick(x) /\ s = Answers(k) /\ r = RetryLater(s) /\ v = Sweep(r)
  OBVIOUS
<1>3. y = Forgets(v)
  BY <1>2 DEF Turn, SettleDriver
<1>4. /\ Verifies(k, {}, "none", 0) /\ Rest(k) /\ SameChecks(x, k) /\ Unmoved(x, k)
      /\ k.configured /\ k.wants => k.apply.runs
      /\ k.pending.kind # "none" => k.pending.kind = x.pending.kind /\ (k.pending.render = "done" => x.pending.render = "done")
      /\ \A g \in 1..MaxCommands : k.answers[g].is = "ok" => x.answers[g].is = "ok"
  BY <1>1, <1>2, KickStep
<1>5. k.scanning = k.scans /\ k.sel = x.sel
  BY <1>1, <1>4 DEF Unmoved, SameChecks
<1>6. Owes(w, k)
  BY <1>1, <1>4 DEF Owes
<1>7. /\ Verifies(s, {}, "none", 0) /\ Rest(s) /\ SameChecks(k, s) /\ Unmoved(k, s)
      /\ Moves(s) /\ InForce(w, s)
  BY <1>2, <1>4, <1>5, <1>6, AnswersStep
<1>8. s.scanning = s.scans /\ s.sel = x.sel
  BY <1>5, <1>7 DEF Unmoved, SameChecks
<1>9. Verifies(r, {}, "none", 0) /\ Rest(r) /\ Later(s, r)
  BY <1>2, <1>7, RetryStep
<1>10. Verifies(v, {}, "none", 0) /\ Rest(v) /\ Later(r, v)
  BY <1>2, <1>9, SweepStep
<1>11. Moves(v) /\ InForce(w, v)
  BY <1>7, <1>9, <1>10, LaterMoves
<1>12. v.scanning = v.scans /\ v.sel = x.sel
  BY <1>8, <1>9, <1>10 DEF Later
<1>13. DriverHolds(y) /\ TurnEnds(y) /\ Later(v, y)
  BY <1>3, <1>10, <1>11, <1>12, ForgetsStep
<1>14. InForce(w, y)
  BY <1>11, <1>13, LaterMoves
<1>15. y.sel = x.sel
  BY <1>12, <1>13 DEF Later
<1> QED
  BY <1>1, <1>13, <1>14, <1>15
-----------------------------------------------------------------------------
\* The driver before a step, and what is taken from what is out.
LEMMA FromSelf ==
    ASSUME NEW x, DriverHolds(x), TurnEnds(x)
    PROVE  From(x, x)
<1>1. Descends(x.sel, x.sel)
  BY DescendsSelf DEF DriverHolds, Verifies, Working
<1>2. Owes(x, x)
  BY DEF Owes
<1> QED
  BY <1>1, <1>2 DEF From, Apart, DriverHolds, TurnEnds

LEMMA OthersRest ==
    ASSUME NEW x, NEW y, SameOthers(x, y), y.sel = x.sel, y.wants = x.wants
    PROVE  SameRest(x, y)
BY DEF SameOthers, SameRest

RejoinsPut(x, n, s, b) == [x EXCEPT !.rejoins = n, !.stations = s, !.bounce = b]
IsRejoined(x, y, n, s) ==
    /\ IsDriver(y) /\ SameRest(x, y) /\ SameOut(x, y) /\ y.checks = x.checks
    /\ y.rejoins = n /\ y.stations = s
LEMMA RejoinsPuts ==
    ASSUME NEW x, IsDriver(x), NEW n, NEW s, NEW b, NEW y, y = RejoinsPut(x, n, s, b)
    PROVE  IsRejoined(x, y, n, s)
<1> USE DEF RejoinsPut
<1>1. IsDriver(y)
  BY DEF IsDriver, Fields
<1>2. SameRest(x, y)
  BY DEF IsDriver, Fields, SameRest
<1>3. SameOut(x, y)
  BY DEF IsDriver, Fields, SameOut
<1>4. y.checks = x.checks /\ y.rejoins = n /\ y.stations = s
  BY DEF IsDriver, Fields
<1> QED
  BY <1>1, <1>2, <1>3, <1>4 DEF IsRejoined

OutPut(x, o, r, p, u) == [x EXCEPT !.operating = o, !.retries = r, !.reprobing = p, !.again = u]
IsOut(x, y) == IsDriver(y) /\ SameRest(x, y) /\ SameOut(x, y) /\ SameChecks(x, y)
LEMMA OutPuts ==
    ASSUME NEW x, IsDriver(x), NEW o, NEW r, NEW p, NEW u, NEW y, y = OutPut(x, o, r, p, u)
    PROVE  IsOut(x, y)
<1> USE DEF OutPut
<1>1. IsDriver(y)
  BY DEF IsDriver, Fields
<1>2. SameRest(x, y)
  BY DEF IsDriver, Fields, SameRest
<1>3. SameOut(x, y)
  BY DEF IsDriver, Fields, SameOut
<1>4. SameChecks(x, y)
  BY DEF IsDriver, Fields, SameChecks
<1> QED
  BY <1>1, <1>2, <1>3, <1>4 DEF IsOut

LEMMA OutFrom ==
    ASSUME NEW w, NEW x, From(w, x), NEW o, NEW r, NEW p, NEW u, NEW y, y = OutPut(x, o, r, p, u)
    PROVE  From(w, y)
<1>1. IsDriver(x)
  BY DEF From, Verifies, Working
<1>2. IsOut(x, y)
  BY <1>1, OutPuts
<1> QED
  BY <1>2, SameFrom DEF IsOut, SameOut

LEMMA OperatingOnly ==
    ASSUME NEW x, IsDriver(x), NEW o
    PROVE  [x EXCEPT !.operating = o] = OutPut(x, o, x.retries, x.reprobing, x.again)
BY DEF IsDriver, Fields, OutPut

LEMMA RetriesOnly ==
    ASSUME NEW x, IsDriver(x), NEW r
    PROVE  [x EXCEPT !.retries = r] = OutPut(x, x.operating, r, x.reprobing, x.again)
BY DEF IsDriver, Fields, OutPut

LEMMA ReprobingOnly ==
    ASSUME NEW x, IsDriver(x), NEW p
    PROVE  [x EXCEPT !.reprobing = p] = OutPut(x, x.operating, x.retries, p, x.again)
BY DEF IsDriver, Fields, OutPut

LEMMA AgainOnly ==
    ASSUME NEW x, IsDriver(x), NEW u
    PROVE  [x EXCEPT !.again = u] = OutPut(x, x.operating, x.retries, x.reprobing, u)
BY DEF IsDriver, Fields, OutPut

\* What is fed with what was observed is within the step.
LEMMA SensedFrom ==
    ASSUME NEW w, NEW x, From(w, x), NEW t, Sensed(x.sel, t), NEW y, y = Feed(x, Settle(t))
    PROVE  From(w, y)
<1>1. Verifies(y, {}, "none", 0) /\ Works(x, y)
  BY SensedFeeds DEF From, Fed
<1> QED
  BY <1>1, WorksFrom DEF From

LEMMA FromDriver == ASSUME NEW w, NEW x, From(w, x)
    PROVE Verifies(x, {}, "none", 0) /\ Apart(w, x) /\ IsDriver(x) /\ Working(x) /\ InHand(x.sel) /\ Follows(x.checks, x.sel)
BY DEF From, Verifies, Working
-----------------------------------------------------------------------------
\* The steps that look at no attempt of their own.
LEMMA ReprobedStep ==
    ASSUME NEW x, DriverHolds(x), TurnEnds(x), NEW y,
           \/ y = [x EXCEPT !.again = FALSE, !.reprobing = x.again]
           \/ y = (IF x.reprobing THEN [x EXCEPT !.again = TRUE] ELSE [x EXCEPT !.reprobing = TRUE])
    PROVE  From(x, y)
<1>1. From(x, x) /\ IsDriver(x)
  BY FromSelf, FromDriver
<1>2. PICK o, r, p, u : y = OutPut(x, o, r, p, u)
  <2>1. CASE y = [x EXCEPT !.again = FALSE, !.reprobing = x.again]
    <3>1. y = OutPut(x, x.operating, x.retries, x.again, FALSE)
      BY <1>1, <2>1 DEF IsDriver, Fields, OutPut
    <3> QED
      BY <3>1
  <2>2. CASE y = [x EXCEPT !.again = TRUE]
    BY <1>1, <2>2, AgainOnly
  <2>3. CASE y = [x EXCEPT !.reprobing = TRUE]
    BY <1>1, <2>3, ReprobingOnly
  <2> QED
    BY <2>1, <2>2, <2>3
<1> QED
  BY <1>1, <1>2, OutFrom

OperatingFed(z, r, channel) == IF channel = "none" THEN z ELSE Feed(z, StationChannel(z.sel, r, channel))
LEMMA OperatingAction ==
    ASSUME NEW x, DriverHolds(x), TurnEnds(x), NEW r \in RadioSet, NEW channel \in Channels \cup {"none"},
           NEW o, NEW z, z = [x EXCEPT !.operating = o],
           NEW y, y = OperatingFed(z, r, channel)
    PROVE  From(x, y)
<1>1. From(x, x) /\ IsDriver(x)
  BY FromSelf, FromDriver
<1>2. From(x, z)
  <2>1. z = OutPut(x, o, x.retries, x.reprobing, x.again)
    BY <1>1, OperatingOnly
  <2> QED
    BY <1>1, <2>1, OutFrom
<1>3. InHand(z.sel)
  BY <1>2, FromDriver
<1>4. PICK t : Sensed(z.sel, t) /\ StationChannel(z.sel, r, channel) = Settle(t)
  BY <1>3, StationChannelNotes
<1>5. CASE channel = "none"
  BY <1>2, <1>5 DEF OperatingFed
<1>6. CASE channel # "none"
  <2>1. y = Feed(z, Settle(t))
    BY <1>4, <1>6 DEF OperatingFed
  <2> QED
    BY <1>2, <1>4, <2>1, SensedFrom
<1> QED
  BY <1>5, <1>6

RetriedFed(z, retry) ==
    IF retry[2] = z.generation /\ WorthRetrying(z, retry[1]) THEN Feed(z, Retried(z.sel, retry[1])) ELSE z
LEMMA RetriesAction ==
    ASSUME NEW x, DriverHolds(x), TurnEnds(x), NEW retry, NEW r, NEW z, z = [x EXCEPT !.retries = r],
           NEW y, y = RetriedFed(z, retry)
    PROVE  From(x, y)
<1>1. From(x, x) /\ IsDriver(x)
  BY FromSelf, FromDriver
<1>2. From(x, z)
  <2>1. z = OutPut(x, x.operating, r, x.reprobing, x.again)
    BY <1>1, RetriesOnly
  <2> QED
    BY <1>1, <2>1, OutFrom
<1>3. InHand(z.sel)
  BY <1>2, FromDriver
<1>4. PICK n : n = retry[1]
  OBVIOUS
<1>5. PICK t : Sensed(z.sel, t) /\ Retried(z.sel, n) = Settle(t)
  BY <1>3, RetriedNotes
<1>6. CASE y = z
  BY <1>2, <1>6
<1>7. CASE y # z
  <2>1. y = Feed(z, Settle(t))
    BY <1>4, <1>5, <1>7 DEF RetriedFed
  <2> QED
    BY <1>2, <1>5, <2>1, SensedFrom
<1> QED
  BY <1>6, <1>7

LEMMA CarrierAction ==
    ASSUME NEW x, DriverHolds(x), TurnEnds(x), NEW i \in WiredSet, NEW up,
           NEW y, y = Feed(x, IF up THEN CarrierUp(x.sel, i) ELSE CarrierDown(x.sel, i))
    PROVE  From(x, y)
<1>1. From(x, x) /\ InHand(x.sel)
  BY FromSelf, FromDriver
<1>2. PICK t : Sensed(x.sel, t) /\ y = Feed(x, Settle(t))
  <2>1. CASE up
    BY <1>1, <2>1, CarrierUpNotes
  <2>2. CASE ~up
    BY <1>1, <2>2, CarrierDownNotes
  <2> QED
    BY <2>1, <2>2
<1> QED
  BY <1>1, <1>2, SensedFrom

LEMMA HearsAction ==
    ASSUME NEW x, DriverHolds(x), TurnEnds(x), NEW r \in RadioSet, NEW ssids \in SUBSET Ssids,
           NEW y, y = Heard(x, r, ssids, FALSE)
    PROVE  From(x, y)
<1>1. From(x, x) /\ Verifies(x, {}, "none", 0) /\ Apart(x, x)
  BY FromSelf, FromDriver
<1>2. IsFiniteSet(Ssids)
  BY DriverAssumption
<1>3. PICK scanned : y = Heard(x, r, ssids, scanned)
  OBVIOUS
<1>4. Verifies(y, {}, "none", 0) /\ Works(x, y)
  BY <1>1, <1>2, <1>3, HeardStep
<1> QED
  BY <1>1, <1>4, WorksFrom
-----------------------------------------------------------------------------
\* What comes back of what was started for an attempt.

\* One of the things waited on taken, its attempt has nothing else to
\* stand on.
LEMMA LessStands ==
    ASSUME NEW x, Verifies(x, {}, "none", 0), NEW y, IsDriver(y), SameRest(x, y), SameChecks(x, y), NEW S, NEW why, NEW b,
           \A a \in DOMAIN x.checks : Stands(x, a) =>
                Stands(y, a) \/ (a \in S /\ Excused(x.checks[a], why)) \/ (a = b /\ b # 0)
    PROVE  Verifies(y, S, why, b)
<1>1. Working(y)
  BY SameWorking DEF Verifies
<1>2. Follows(y.checks, y.sel) /\ y.checks = x.checks
  BY DEF Verifies, SameChecks
<1>3. \A a \in DOMAIN x.checks : Stands(x, a)
  BY DEF Verifies, AllStand, Excused
<1> QED
  BY <1>1, <1>2, <1>3 DEF Verifies, AllStand

IsWork(x, y, h, J, R, D, P) ==
    /\ IsDriver(y) /\ SameOthers(x, y) /\ y.sel = x.sel /\ y.wants = x.wants /\ y.checks = h
    /\ y.joins = J /\ y.rescans = R /\ y.deadlines = D /\ y.probes = P
LEMMA WorkIs ==
    ASSUME NEW x, IsDriver(x), NEW h, NEW J, NEW R, NEW D, NEW P, NEW y, y = WorkPut(x, h, J, R, D, P)
    PROVE  IsWork(x, y, h, J, R, D, P)
BY WorkPuts DEF IsWork

IsSame(x, y, J, R) ==
    /\ IsDriver(y) /\ SameRest(x, y) /\ SameChecks(x, y) /\ y.joins = J /\ y.rescans = R
LEMMA WorkRest ==
    ASSUME NEW x, IsDriver(x), NEW J, NEW R, NEW y, y = WorkPut(x, x.checks, J, R, x.deadlines, x.probes)
    PROVE  IsSame(x, y, J, R)
<1>1. /\ IsDriver(y) /\ SameOthers(x, y) /\ y.sel = x.sel /\ y.wants = x.wants /\ y.checks = x.checks
      /\ y.joins = J /\ y.rescans = R /\ y.deadlines = x.deadlines /\ y.probes = x.probes
  BY WorkPuts
<1> QED
  BY <1>1, OthersRest DEF SameChecks, SameOthers, IsSame

LEMMA FailedFrom ==
    ASSUME NEW w, NEW x, Apart(w, x), NEW a, a \in 1..x.sel.next, NEW b \in {0, a}, Verifies(x, {}, "none", b),
           NEW stage \in Association..Gateway, NEW y, y = Failed(x, a, stage)
    PROVE  From(w, y)
<1>1. PICK S : S = {}
  OBVIOUS
<1>2. Verifies(x, S, "none", b)
  BY <1>1
<1>3. Verifies(y, S \ {a}, "none", 0) /\ Fed(x, y)
  BY <1>2, FailedStep
<1>4. S \ {a} = {}
  BY <1>1
<1> QED
  BY <1>3, <1>4, WorksFrom DEF Fed

LEMMA JoinedAction ==
    ASSUME NEW x, DriverHolds(x), TurnEnds(x), NEW a \in DOMAIN x.checks, NEW result,
           NEW channel \in Channels \cup {"none"}, NEW z, z = [x EXCEPT !.joins = x.joins \ {a}],
           NEW y, y = Associates(z, a, result, channel)
    PROVE  From(x, y)
<1>1. From(x, x) /\ IsDriver(x) /\ Verifies(x, {}, "none", 0) /\ Apart(x, x) /\ Follows(x.checks, x.sel) /\ Working(x)
  BY FromSelf, FromDriver
<1>2. PICK J : J = x.joins \ {a}
  OBVIOUS
<1>3. z = WorkPut(x, x.checks, J, x.rescans, x.deadlines, x.probes)
  <2>1. z = [x EXCEPT !.joins = J]
    BY <1>2
  <2> QED
    BY <1>1, <2>1, JoinsOnly
<1>4. IsDriver(z) /\ SameRest(x, z) /\ SameChecks(x, z) /\ z.joins = J /\ z.rescans = x.rescans
  <2>1. IsSame(x, z, J, x.rescans)
    BY <1>1, <1>3, WorkRest
  <2> QED
    BY <2>1 DEF IsSame
<1>5. Apart(x, z)
  BY <1>1, <1>4, SameApart
<1>6. a \in DOMAIN z.checks /\ z.checks[a] = x.checks[a] /\ a # 0
  <2>1. a \in 1..x.sel.next /\ x.sel.next \in Nat
    BY <1>1, CheckedNumbers
  <2> QED
    BY <1>4, <2>1 DEF SameChecks
<1>7. ASSUME NEW c \in DOMAIN x.checks, Stands(x, c), c # a \/ x.checks[a].at # Association
      PROVE  Stands(z, c)
  <2>1. x.checks[c].at = Association => (c \in x.joins <=> c \in z.joins)
    BY <1>2, <1>4, <1>7
  <2> QED
    BY <1>4, <1>7, <2>1 DEF Stands, SameRest, SameChecks
<1>8. CASE x.checks[a].at = Association
  <2>1. PICK b : b = a
    OBVIOUS
  <2>2. Verifies(z, {}, "none", b) /\ b \in {0, a}
    BY <1>1, <1>4, <1>6, <1>7, <2>1, LessStands
  <2>3. Verifies(y, {} \ {a}, "none", 0) /\ Works(z, y)
    BY <1>6, <1>8, <2>2, AssociatesStep
  <2>4. {} \ {a} = {}
    OBVIOUS
  <2> QED
    BY <1>5, <2>3, <2>4, WorksFrom
<1>9. CASE x.checks[a].at # Association
  <2>1. y = z
    BY <1>6, <1>9 DEF Associates
  <2>2. Verifies(z, {}, "none", 0)
    BY <1>1, <1>4, <1>7, <1>9, LessStands
  <2> QED
    BY <1>5, <2>1, <2>2 DEF From
<1> QED
  BY <1>8, <1>9

DeadlineFails(z, t) ==
    IF z.checks[t[1]].probing \/ z.checks[t[1]].at \notin {Addressing, Gateway} THEN z
    ELSE Failed(z, t[1], z.checks[t[1]].at)
LEMMA DeadlineAction ==
    ASSUME NEW x, DriverHolds(x), TurnEnds(x), NEW t \in x.deadlines, NEW z, z = [x EXCEPT !.deadlines = x.deadlines \ {t}],
           NEW y, y = DeadlineFails(z, t)
    PROVE  From(x, y)
<1>1. From(x, x) /\ IsDriver(x) /\ Verifies(x, {}, "none", 0) /\ Apart(x, x) /\ Follows(x.checks, x.sel) /\ Working(x)
  BY FromSelf, FromDriver
<1>2. PICK D : D = x.deadlines \ {t}
  OBVIOUS
<1>3. z = WorkPut(x, x.checks, x.joins, x.rescans, D, x.probes)
  BY <1>1, <1>2 DEF IsDriver, Fields, WorkPut
<1>4. /\ IsDriver(z) /\ SameOthers(x, z) /\ z.sel = x.sel /\ z.wants = x.wants /\ z.checks = x.checks
      /\ z.joins = x.joins /\ z.rescans = x.rescans /\ z.deadlines = D /\ z.probes = x.probes
  <2>1. IsWork(x, z, x.checks, x.joins, x.rescans, D, x.probes)
    BY <1>1, <1>3, WorkIs
  <2> QED
    BY <2>1 DEF IsWork
<1>5. Apart(x, z)
  BY <1>1, <1>4, SameApart, OthersRest
<1>6. PICK a : a = t[1]
  OBVIOUS
<1>7. PICK c : c = x.checks[a]
  OBVIOUS
<1>8. a \in DOMAIN x.checks /\ t[2] = c.timer
  BY <1>6, <1>7 DEF TurnEnds
<1>9. t[3] = c.at /\ c.at \in {Addressing, Gateway} /\ ~c.probing
  BY <1>1, <1>6, <1>7, <1>8 DEF Working, Timed
<1>10. y = Failed(z, a, c.at)
  BY <1>4, <1>6, <1>7, <1>9 DEF DeadlineFails
<1>11. a \in 1..z.sel.next /\ a # 0 /\ c.at \in Association..Gateway
  <2>1. a \in 1..x.sel.next /\ x.sel.next \in Nat
    BY <1>1, <1>8, CheckedNumbers
  <2>2. c.at \in Association..Gateway
    BY <1>9 DEF Association, Addressing, Gateway
  <2> QED
    BY <1>4, <2>1, <2>2
<1>12. Working(z)
  <2>1. ChecksAre(z) /\ Unarmed(z)
    BY <1>1, <1>4 DEF Working, ChecksAre, Unarmed
  <2>2. Timed(z)
    BY <1>1, <1>2, <1>4 DEF Working, Timed
  <2>3. ProbesAre(z)
    BY <1>1, <1>4 DEF Working, ProbesAre
  <2>4. StationsAre(z)
    BY <1>1, <1>4 DEF Working, StationsAre, SameOthers
  <2> QED
    BY <1>1, <1>4, <2>1, <2>2, <2>3, <2>4 DEF Working
<1>13. ASSUME NEW e \in DOMAIN x.checks, e # a PROVE Stands(z, e)
  <2>1. Stands(x, e)
    BY <1>1 DEF Verifies, AllStand, Excused
  <2>2. PICK k : k = <<e, x.checks[e].timer, x.checks[e].at>>
    OBVIOUS
  <2>3. k[1] = e /\ k # t
    BY <1>6, <1>13, <2>2
  <2>4. k \in x.deadlines => k \in z.deadlines
    BY <1>2, <1>4, <2>3
  <2> QED
    BY <1>4, <2>1, <2>2, <2>4 DEF Stands, SameOthers
<1>14. PICK b : b = a
  OBVIOUS
<1>15. Verifies(z, {}, "none", b) /\ b \in {0, a}
  BY <1>1, <1>4, <1>11, <1>12, <1>13, <1>14 DEF Verifies, AllStand
<1>16. From(x, y)
  <2>1. PICK stage : stage = c.at
    OBVIOUS
  <2>2. y = Failed(z, a, stage) /\ stage \in Association..Gateway
    BY <1>10, <1>11, <2>1
  <2> QED
    BY <1>5, <1>11, <1>15, <2>2, FailedFrom
<1> QED
  BY <1>16
-----------------------------------------------------------------------------
\* The answer of a probe takes the probe, and leaves its attempt looked
\* at as it is by then.
IsTakenOf(x, y, a, c) ==
    /\ Local(x, y, a) /\ IsDue(y, a) /\ y.checks[a] = c /\ a \in DOMAIN y.checks /\ y.sel = x.sel

LEMMA ProbeTaken ==
    ASSUME NEW x, Working(x), NEW a \in DOMAIN x.checks, \A t \in x.deadlines : t[1] # a,
           NEW c, IsCheck(c), c.on = x.checks[a].on, c.candidate = x.checks[a].candidate,
           c.armed, ~c.probing, NEW h, h = [x.checks EXCEPT ![a] = c], NEW P, P = x.probes \ {a},
           NEW y, y = WorkPut(x, h, x.joins, x.rescans, x.deadlines, P)
    PROVE  IsTakenOf(x, y, a, c)
<1>1. PICK J, R, D : J = x.joins /\ R = x.rescans /\ D = x.deadlines
  OBVIOUS
<1>2. y = WorkPut(x, h, J, R, D, P) /\ a \notin P /\ (\A p : p # a => (p \in P <=> p \in x.probes))
  BY <1>1
<1>3. x.joins \subseteq J /\ x.rescans \subseteq R /\ x.deadlines \subseteq D /\ \A t \in D : t \in x.deadlines
  BY <1>1
<1>4. /\ Local(x, y, a) /\ y.checks[a] = c
      /\ y.joins = J /\ y.rescans = R /\ y.deadlines = D /\ y.probes = P
  BY <1>2, <1>3, LocalPut
<1>5. IsDue(y, a)
  BY <1>1, <1>2, <1>4 DEF IsDue
<1> QED
  BY <1>4, <1>5 DEF IsTakenOf, Local

IsAheadOf(x, z, y, S, why, a) ==
    /\ Verifies(y, S, why, a) /\ Works(x, y)
    /\ a \in DOMAIN y.checks => y.checks[a] = z.checks[a]

LEMMA AheadOf ==
    ASSUME NEW x, NEW S, NEW why, NEW a \in DOMAIN x.checks, NEW b \in {0, a}, Verifies(x, S, why, b),
           NEW stage \in Association..Gateway, NEW z, Local(x, z, a), IsDue(z, a),
           x.checks[a].at = stage, z.checks[a].at = stage + 1, NEW y, y = Passed(z, a, stage)
    PROVE  IsAheadOf(x, z, y, S, why, a)
BY AheadStep DEF IsAheadOf

ProbeBack(z, a, ok) ==
    IF z.checks[a].at # Gateway THEN z
    ELSE IF ok THEN Passed([z EXCEPT !.checks[a].at = Established], a, Gateway)
    ELSE Failed(z, a, Gateway)
LEMMA ProbedAction ==
    ASSUME NEW x, DriverHolds(x), TurnEnds(x), NEW a \in x.probes, NEW ok,
           NEW z, z = [x EXCEPT !.probes = x.probes \ {a}, !.checks[a].probing = FALSE],
           NEW y, y = ProbeBack(z, a, ok)
    PROVE  From(x, y)
<1>1. From(x, x) /\ IsDriver(x) /\ Verifies(x, {}, "none", 0) /\ Apart(x, x) /\ Follows(x.checks, x.sel) /\ Working(x)
  BY FromSelf, FromDriver
<1>2. PICK c : c = x.checks[a]
  OBVIOUS
<1>3. a \in DOMAIN x.checks /\ c.probing /\ c.at = Gateway /\ IsCheck(c)
  BY <1>1, <1>2 DEF TurnEnds, Working, ProbesAre, ChecksAre
<1>4. a \in 1..x.sel.next /\ a # 0
  <2>1. a \in 1..x.sel.next /\ x.sel.next \in Nat
    BY <1>1, <1>3, CheckedNumbers
  <2> QED
    BY <2>1
<1>5. c.armed /\ \A t \in x.deadlines : t[1] # a
  <2>1. c.armed
    BY <1>1, <1>2, <1>3 DEF Working, Unarmed, Association, Addressing, Gateway
  <2>2. \A t \in x.deadlines : t[1] # a
    BY <1>1, <1>2, <1>3 DEF TurnEnds, Working, Timed
  <2> QED
    BY <2>1, <2>2
<1>6. PICK e : e = [c EXCEPT !.probing = FALSE]
  OBVIOUS
<1>7. /\ IsCheck(e)
      /\ e.candidate = c.candidate /\ e.on = c.on /\ e.at = c.at /\ e.armed = c.armed
      /\ e.awaits = c.awaits /\ ~e.probing /\ e.timer = c.timer
  BY <1>3, <1>6, ProbedSet
<1>8. PICK h : h = [x.checks EXCEPT ![a] = e]
  OBVIOUS
<1>9. PICK P : P = x.probes \ {a}
  OBVIOUS
<1>10. z = [x EXCEPT !.checks = h, !.probes = P]
  BY <1>1, <1>2, <1>6, <1>8, <1>9 DEF IsDriver, Fields
<1>11. z = WorkPut(x, h, x.joins, x.rescans, x.deadlines, P)
  BY <1>1, <1>10, ProbesOnly, Zenon
<1>12. IsTakenOf(x, z, a, e)
  <2>1. e.on = x.checks[a].on /\ e.candidate = x.checks[a].candidate /\ e.armed /\ ~e.probing /\ IsCheck(e)
    BY <1>2, <1>5, <1>7
  <2> QED
    BY <1>1, <1>3, <1>5, <1>8, <1>9, <1>11, <2>1, ProbeTaken
<1>13. /\ Local(x, z, a) /\ IsDue(z, a) /\ z.checks[a] = e /\ z.sel = x.sel
  BY <1>12 DEF IsTakenOf
<1>14. PICK b : b = a
  OBVIOUS
<1>15. Verifies(z, {}, "none", b) /\ b \in {0, a} /\ Works(x, z)
  <2>1. Working(z)
    BY <1>1, <1>3, <1>4, <1>13, LocalWorking
  <2>2. Follows(z.checks, z.sel)
    <3>1. z.checks[a].at = x.checks[a].at
      BY <1>2, <1>7, <1>13
    <3> QED
      BY <1>1, <1>13, <3>1, LocalFollows
  <2>3. PICK S : S = {}
    OBVIOUS
  <2>4. PICK n : n = 0
    OBVIOUS
  <2>5. AllStand(x, S, "none", n) /\ n \in {0, a}
    BY <1>1, <2>3, <2>4 DEF Verifies
  <2>6. AllStand(z, S, "none", a)
    BY <1>4, <1>13, <2>5, LocalStands
  <2>7. Works(x, z)
    BY <1>1, <1>13, LocalWorks
  <2> QED
    BY <1>14, <2>1, <2>2, <2>3, <2>6, <2>7 DEF Verifies
<1>16. z.checks[a].at = Gateway
  BY <1>3, <1>7, <1>13
<1>17. CASE ~ok
  <2>1. y = Failed(z, a, Gateway) /\ Gateway \in Association..Gateway
    BY <1>16, <1>17 DEF ProbeBack, Association, Gateway
  <2>2. Apart(x, z) /\ a \in 1..z.sel.next
    BY <1>1, <1>4, <1>13, <1>15, WorksApart
  <2> QED
    BY <1>15, <2>1, <2>2, FailedFrom
<1>18. CASE ok
  <2>1. PICK f : f = [e EXCEPT !.at = Established]
    OBVIOUS
  <2>2. PICK at \in Association..Established : at = Established
    BY DEF Established, Association
  <2>3. /\ IsCheck(f)
        /\ f.candidate = e.candidate /\ f.on = e.on /\ f.at = at /\ f.armed = e.armed
        /\ f.awaits = e.awaits /\ f.probing = e.probing /\ f.timer = e.timer
    BY <1>7, <2>1, <2>2, AtSet
  <2>4. PICK k : k = [x.checks EXCEPT ![a] = f]
    OBVIOUS
  <2>5. PICK v : v = [z EXCEPT !.checks[a].at = Established]
    OBVIOUS
  <2>6. v = [x EXCEPT !.checks = k, !.probes = P]
    <3>1. z.checks = h
      BY <1>1, <1>10 DEF IsDriver, Fields
    <3>2. v = [z EXCEPT !.checks = [h EXCEPT ![a] = f]]
      BY <1>13, <2>1, <2>5, <3>1
    <3>3. [h EXCEPT ![a] = f] = k
      BY <1>8, <2>4
    <3>4. v = [z EXCEPT !.checks = k]
      BY <3>2, <3>3
    <3> QED
      BY <1>1, <1>10, <3>4 DEF IsDriver, Fields
  <2>7. v = WorkPut(x, k, x.joins, x.rescans, x.deadlines, P)
    BY <1>1, <2>6, ProbesOnly, Zenon
  <2>8. /\ f.on = x.checks[a].on /\ f.candidate = x.checks[a].candidate /\ f.armed /\ ~f.probing
    BY <1>2, <1>5, <1>7, <2>3
  <2>9. IsTakenOf(x, v, a, f)
    BY <1>1, <1>3, <1>5, <1>9, <2>3, <2>4, <2>7, <2>8, ProbeTaken
  <2>10. PICK stage \in Association..Gateway : stage = Gateway
    BY DEF Association, Gateway
  <2>11. y = Passed(v, a, stage)
    BY <1>16, <1>18, <2>5, <2>10 DEF ProbeBack
  <2>12. PICK S : S = {}
    OBVIOUS
  <2>13. PICK n : n = 0
    OBVIOUS
  <2>14. Verifies(x, S, "none", n) /\ n \in {0, a}
    BY <1>1, <2>12, <2>13
  <2>15. x.checks[a].at = stage /\ v.checks[a].at = stage + 1 /\ Local(x, v, a) /\ IsDue(v, a) /\ v.checks[a] = f
    BY <1>2, <1>3, <2>2, <2>3, <2>9, <2>10 DEF Gateway, Established, IsTakenOf
  <2>16. /\ Verifies(y, S, "none", a) /\ Works(x, y)
         /\ a \in DOMAIN y.checks => y.checks[a] = v.checks[a]
    <3>1. a \in DOMAIN x.checks /\ n \in {0, a} /\ Verifies(x, S, "none", n) /\ y = Passed(v, a, stage)
      BY <1>3, <2>11, <2>14
    <3>2. IsAheadOf(x, v, y, S, "none", a)
      BY <2>15, <3>1, AheadOf
    <3> QED
      BY <3>2 DEF IsAheadOf
  <2>17. a \in DOMAIN y.checks => Stands(y, a)
    BY <2>2, <2>3, <2>15, <2>16 DEF Stands
  <2>18. Verifies(y, {}, "none", 0)
    BY <1>4, <2>12, <2>16, <2>17 DEF Verifies, AllStand
  <2> QED
    BY <1>1, <2>16, <2>18, WorksFrom
<1> QED
  BY <1>17, <1>18
-----------------------------------------------------------------------------
IsBeside(w, x, y) == From(w, y) /\ y.checks = x.checks /\ y.sel = x.sel

LEMMA RejoinsFrom ==
    ASSUME NEW w, NEW x, From(w, x), NEW n, NEW s, NEW b, NEW y, y = RejoinsPut(x, n, s, b),
           s = [r \in RadioSet |-> s[r]], \A r \in RadioSet : s[r].channel \in Channels \cup {"none"},
           \A a \in n : a \in x.rejoins \/ (a \in DOMAIN x.checks /\ x.checks[a].on \in RadioSet)
    PROVE  IsBeside(w, x, y)
<1>1. IsDriver(x) /\ Verifies(x, {}, "none", 0) /\ Apart(w, x) /\ Follows(x.checks, x.sel) /\ Working(x)
  BY FromDriver
<1>2. IsRejoined(x, y, n, s)
  BY <1>1, RejoinsPuts
<1>3. /\ IsDriver(y) /\ SameRest(x, y) /\ SameOut(x, y) /\ y.checks = x.checks /\ y.sel = x.sel
      /\ y.rejoins = n /\ y.stations = s
  BY <1>2 DEF IsRejoined, SameRest
<1>4. Working(y)
  <2>1. ChecksAre(y) /\ Unarmed(y)
    BY <1>1, <1>3 DEF Working, ChecksAre, Unarmed
  <2>2. Timed(y)
    BY <1>1, <1>3 DEF Working, Timed, SameOut
  <2>3. ProbesAre(y)
    BY <1>1, <1>3 DEF Working, ProbesAre, SameOut
  <2>4. StationsAre(y)
    <3>1. ASSUME NEW a \in n PROVE a \in 1..x.sel.next /\ (a \in DOMAIN x.checks => x.checks[a].on \in RadioSet)
      <4>1. CASE a \in x.rejoins
        BY <1>1, <4>1 DEF Working, StationsAre
      <4>2. CASE a \in DOMAIN x.checks /\ x.checks[a].on \in RadioSet
        BY <1>1, <4>2, CheckedNumbers
      <4> QED
        BY <3>1, <4>1, <4>2
    <3> QED
      BY <1>3, <3>1 DEF StationsAre
  <2> QED
    BY <1>1, <1>3, <2>1, <2>2, <2>3, <2>4 DEF Working
<1>5. ASSUME NEW a \in DOMAIN x.checks, Stands(x, a) PROVE Stands(y, a)
  BY <1>3, <1>5 DEF Stands, SameRest, SameOut
<1>6. Verifies(y, {}, "none", 0)
  BY <1>1, <1>3, <1>4, <1>5 DEF Verifies, AllStand, Excused
<1> QED
  BY <1>1, <1>3, <1>6, SameApart DEF From, IsBeside

RejoinBack(z, a, ok, channel) ==
    IF ok THEN TakesChannel(z, z.checks[a].on, channel) ELSE Failed(z, a, Association)
LEMMA RejoinedAction ==
    ASSUME NEW x, DriverHolds(x), TurnEnds(x), NEW a \in x.rejoins, NEW ok, NEW channel \in Channels \cup {"none"},
           NEW z, z = [x EXCEPT !.rejoins = x.rejoins \ {a}],
           NEW y, y = RejoinBack(z, a, ok, channel)
    PROVE  From(x, y)
<1>1. From(x, x) /\ IsDriver(x) /\ Working(x) /\ Follows(x.checks, x.sel)
  BY FromSelf, FromDriver
<1>2. PICK n, s, b : n = x.rejoins \ {a} /\ s = x.stations /\ b = x.bounce
  OBVIOUS
<1>3. z = RejoinsPut(x, n, s, b)
  BY <1>1, <1>2 DEF IsDriver, Fields, RejoinsPut
<1>4. /\ s = [r \in RadioSet |-> s[r]] /\ \A r \in RadioSet : s[r].channel \in Channels \cup {"none"}
      /\ \A c \in n : c \in x.rejoins
  BY <1>1, <1>2 DEF Working, StationsAre
<1>5. From(x, z) /\ z.checks = x.checks /\ z.sel = x.sel
  <2>1. \A c \in n : c \in x.rejoins \/ (c \in DOMAIN x.checks /\ x.checks[c].on \in RadioSet)
    BY <1>4
  <2>2. IsBeside(x, x, z)
    BY <1>1, <1>3, <1>4, <2>1, RejoinsFrom
  <2> QED
    BY <2>2 DEF IsBeside
<1>6. a \in DOMAIN x.checks /\ x.checks[a].on \in RadioSet
  BY <1>1 DEF TurnEnds, Working, StationsAre
<1>7. Verifies(z, {}, "none", 0) /\ Apart(x, z)
  BY <1>5, FromDriver
<1>8. CASE ok
  <2>1. PICK r : r = x.checks[a].on
    OBVIOUS
  <2>2. y = TakesChannel(z, r, channel) /\ r \in RadioSet
    BY <1>5, <1>6, <1>8, <2>1 DEF RejoinBack
  <2>3. Verifies(y, {}, "none", 0) /\ Fed(z, y)
    BY <1>7, <2>2, ChannelStep
  <2> QED
    BY <1>7, <2>3, WorksFrom DEF Fed
<1>9. CASE ~ok
  <2>1. y = Failed(z, a, Association) /\ Association \in Association..Gateway
    BY <1>9 DEF RejoinBack, Association, Gateway
  <2>2. a \in 1..z.sel.next
    BY <1>1, <1>5, <1>6, CheckedNumbers
  <2>3. PICK k : k = 0
    OBVIOUS
  <2>4. Verifies(z, {}, "none", k) /\ k \in {0, a}
    BY <1>7, <2>3
  <2> QED
    BY <1>7, <2>1, <2>2, <2>4, FailedFrom
<1> QED
  BY <1>8, <1>9
-----------------------------------------------------------------------------
LEMMA BesideFrom ==
    ASSUME NEW w, NEW x, From(w, x), NEW n, NEW s, NEW b, NEW y, y = RejoinsPut(x, n, s, b),
           s = [r \in RadioSet |-> s[r]], \A r \in RadioSet : s[r].channel \in Channels \cup {"none"},
           \A a \in n : a \in x.rejoins \/ (a \in DOMAIN x.checks /\ x.checks[a].on \in RadioSet)
    PROVE  From(w, y)
BY RejoinsFrom DEF IsBeside

Knocked(x, a) == [x EXCEPT !.bounce = "none", !.rejoins = @ \cup {a}]

LEMMA StationAction ==
    ASSUME NEW x, DriverHolds(x), TurnEnds(x), NEW r \in RadioSet,
           NEW station, station.channel \in Channels \cup {"none"},
           NEW z, z = [x EXCEPT !.stations[r] = station], NEW joined, NEW away, NEW on, NEW a,
           on # {} => a \in DOMAIN x.checks /\ x.checks[a].on = r,
           NEW y, y = IF on = {} THEN z
                      ELSE IF joined THEN TakesChannel(z, r, station.channel)
                      ELSE IF ~away THEN z
                      ELSE IF x.bounce = r THEN Knocked(z, a)
                      ELSE Failed(z, a, Association)
    PROVE  From(x, y)
<1>1. From(x, x) /\ IsDriver(x) /\ Working(x) /\ Follows(x.checks, x.sel) /\ StationsAre(x)
  BY FromSelf, FromDriver DEF Working
<1>2. PICK s : s = [x.stations EXCEPT ![r] = station]
  OBVIOUS
<1>3. s = [q \in RadioSet |-> s[q]] /\ \A q \in RadioSet : s[q].channel \in Channels \cup {"none"}
  BY <1>1, <1>2 DEF StationsAre
<1>4. PICK n : n = x.rejoins
  OBVIOUS
<1>5. PICK b : b = x.bounce
  OBVIOUS
<1>6. z = RejoinsPut(x, n, s, b)
  <2>1. z = [x EXCEPT !.stations = s]
    BY <1>2
  <2> QED
    BY <1>1, <1>4, <1>5, <2>1 DEF IsDriver, Fields, RejoinsPut
<1>7. \A c \in n : c \in x.rejoins \/ (c \in DOMAIN x.checks /\ x.checks[c].on \in RadioSet)
  BY <1>4
<1>8. IsBeside(x, x, z)
  BY <1>1, <1>3, <1>6, <1>7, RejoinsFrom
<1>9. From(x, z) /\ z.checks = x.checks /\ z.sel = x.sel
  BY <1>8 DEF IsBeside
<1>10. Verifies(z, {}, "none", 0) /\ Apart(x, z)
  BY <1>9, FromDriver
<1>11. CASE y = z
  BY <1>9, <1>11
<1>12. CASE y = TakesChannel(z, r, station.channel)
  <2>1. Verifies(y, {}, "none", 0) /\ Fed(z, y)
    BY <1>10, <1>12, ChannelStep
  <2> QED
    BY <1>10, <2>1, WorksFrom DEF Fed
<1>13. CASE on # {} /\ y = Knocked(z, a)
  <2>1. PICK m : m = x.rejoins \cup {a}
    OBVIOUS
  <2>2. PICK k : k = "none"
    OBVIOUS
  <2>3. z.rejoins = x.rejoins
    BY <1>1, <1>4, <1>6, Zenon DEF IsDriver, Fields, RejoinsPut
  <2>4. y = [z EXCEPT !.bounce = k, !.rejoins = m]
    BY <1>13, <2>1, <2>2, <2>3 DEF Knocked
  <2>5. y = RejoinsPut(x, m, s, k)
    BY <1>1, <1>6, <2>4, Zenon DEF IsDriver, Fields, RejoinsPut
  <2>6. \A c \in m : c \in x.rejoins \/ (c \in DOMAIN x.checks /\ x.checks[c].on \in RadioSet)
    BY <1>13, <2>1
  <2> QED
    BY <1>1, <1>3, <2>5, <2>6, BesideFrom
<1>14. CASE on # {} /\ y = Failed(z, a, Association)
  <2>1. PICK stage \in Association..Gateway : stage = Association
    BY DEF Association, Gateway
  <2>2. a \in 1..z.sel.next
    BY <1>1, <1>9, <1>14, CheckedNumbers
  <2>3. PICK k : k = 0
    OBVIOUS
  <2>4. Verifies(z, {}, "none", k) /\ k \in {0, a} /\ y = Failed(z, a, stage)
    BY <1>10, <1>14, <2>1, <2>3
  <2> QED
    BY <1>10, <2>2, <2>4, FailedFrom
<1> QED
  BY <1>11, <1>12, <1>13, <1>14
-----------------------------------------------------------------------------
LEMMA ExcusedNone ==
    ASSUME NEW x, NEW S, NEW why, Verifies(x, S, why, 0), \A a \in DOMAIN x.checks : a \in S => ~Excused(x.checks[a], why)
    PROVE  Verifies(x, {}, "none", 0)
BY DEF Verifies, AllStand

IsRefused(w, y) == Verifies(y, {}, "none", 0) /\ Works(w, y)

\* A join refused is laid at its attempt once the scan is in, where it
\* still associates.
LEMMA RefusedStep ==
    ASSUME NEW x, NEW a, NEW S, S = {a}, Verifies(x, S, "joining", 0), NEW y, y = Refused(x, a)
    PROVE  IsRefused(x, y)
<1>1. Works(x, x)
  <2>1. Descends(x.sel, x.sel)
    BY DescendsSelf DEF Verifies, Working
  <2> QED
    BY <2>1 DEF Works, SameOthers
<1>2. CASE a \in DOMAIN x.checks /\ x.checks[a].at = Association
  <2>1. PICK stage \in Association..Gateway : stage = Association
    BY DEF Association, Gateway
  <2>2. PICK k : k = 0
    OBVIOUS
  <2>3. /\ Verifies(x, S, "joining", k) /\ k \in {0, a} /\ y = Failed(x, a, stage) /\ a \in 1..x.sel.next
    <3>1. a \in 1..x.sel.next
      BY <1>2, CheckedNumbers DEF Verifies
    <3> QED
      BY <1>2, <2>1, <2>2, <3>1 DEF Refused
  <2>4. Verifies(y, S \ {a}, "joining", 0) /\ Fed(x, y)
    BY <2>3, FailedStep
  <2>5. \A c \in DOMAIN y.checks : c \in S \ {a} => ~Excused(y.checks[c], "joining")
    OBVIOUS
  <2>6. Verifies(y, {}, "none", 0)
    BY <2>4, <2>5, ExcusedNone
  <2> QED
    BY <2>4, <2>6 DEF Fed, IsRefused
<1>3. CASE ~(a \in DOMAIN x.checks /\ x.checks[a].at = Association)
  <2>1. y = x
    BY <1>3 DEF Refused
  <2>2. \A c \in DOMAIN x.checks : c \in S => ~Excused(x.checks[c], "joining")
    BY <1>3 DEF Excused
  <2> QED
    BY <1>1, <2>1, <2>2, ExcusedNone DEF IsRefused
<1> QED
  BY <1>2, <1>3

LEMMA RescanAction ==
    ASSUME NEW x, DriverHolds(x), TurnEnds(x), NEW rescan \in x.rescans, NEW r \in RadioSet, NEW ssids \in SUBSET Ssids,
           NEW z, z = [x EXCEPT !.rescans = x.rescans \ {rescan}],
           NEW v, v = Heard(z, r, ssids, TRUE), NEW y, y = Refused(v, rescan[1])
    PROVE  From(x, y)
<1>1. From(x, x) /\ IsDriver(x) /\ Verifies(x, {}, "none", 0) /\ Apart(x, x)
  BY FromSelf, FromDriver
<1>2. PICK a : a = rescan[1]
  OBVIOUS
<1>3. PICK R : R = x.rescans \ {rescan}
  OBVIOUS
<1>4. z = WorkPut(x, x.checks, x.joins, R, x.deadlines, x.probes)
  <2>1. z = [x EXCEPT !.rescans = R]
    BY <1>3
  <2> QED
    BY <1>1, <2>1, RescansOnly
<1>5. IsSame(x, z, x.joins, R)
  BY <1>1, <1>4, WorkRest
<1>6. IsDriver(z) /\ SameRest(x, z) /\ SameChecks(x, z) /\ z.joins = x.joins /\ z.rescans = R
  BY <1>5 DEF IsSame
<1>7. PICK S : S = {a}
  OBVIOUS
<1>8. ASSUME NEW c \in DOMAIN x.checks, Stands(x, c)
      PROVE  Stands(z, c) \/ (c \in S /\ Excused(x.checks[c], "joining"))
  <2>1. PICK k : k = <<c, x.checks[c].on>>
    OBVIOUS
  <2>2. k[1] = c
    BY <2>1
  <2>3. CASE c \in S /\ x.checks[c].at = Association
    BY <2>3 DEF Excused
  <2>4. CASE x.checks[c].at # Association
    BY <1>6, <1>8, <2>4 DEF Stands, SameRest, SameChecks
  <2>5. CASE c \notin S
    <3>1. k # rescan
      BY <1>2, <1>7, <2>2, <2>5
    <3>2. k \in x.rescans => k \in z.rescans
      BY <1>3, <1>6, <3>1
    <3> QED
      BY <1>6, <1>8, <2>1, <3>2 DEF Stands, SameRest, SameChecks
  <2> QED
    BY <2>3, <2>4, <2>5
<1>9. PICK why : why = "joining"
  OBVIOUS
<1>10. Verifies(z, S, why, 0)
  BY <1>1, <1>6, <1>8, <1>9, LessStands
<1>11. Apart(x, z)
  BY <1>1, <1>6, SameApart
<1>12. PICK scanned : scanned = TRUE
  OBVIOUS
<1>13. v = Heard(z, r, ssids, scanned) /\ IsFiniteSet(Ssids)
  BY <1>12, DriverAssumption
<1>14. Verifies(v, S, why, 0) /\ Works(z, v)
  BY <1>10, <1>13, HeardStep
<1>15. Apart(x, v)
  BY <1>11, <1>14, WorksApart
<1>16. IsRefused(v, y)
  BY <1>2, <1>7, <1>9, <1>14, RefusedStep
<1> QED
  BY <1>15, <1>16, WorksFrom DEF IsRefused
-----------------------------------------------------------------------------
\* Checks changed in what they await and hold stale alone.
Alike(c, e) ==
    /\ IsCheck(e) /\ e.on = c.on /\ e.candidate = c.candidate /\ e.at = c.at /\ e.armed = c.armed
    /\ e.probing = c.probing /\ e.timer = c.timer

AlikeChecks(x, y) ==
    /\ y.sel = x.sel /\ y.deadlines = x.deadlines /\ y.probes = x.probes
    /\ y.stations = x.stations /\ y.rejoins = x.rejoins
    /\ y.checks = [a \in DOMAIN x.checks |-> y.checks[a]]
    /\ \A a \in DOMAIN x.checks : Alike(x.checks[a], y.checks[a])

IsWorking(y) == Working(y) /\ Follows(y.checks, y.sel)

LEMMA AlikeWorking ==
    ASSUME NEW x, Working(x), Follows(x.checks, x.sel), NEW y, IsDriver(y), AlikeChecks(x, y)
    PROVE  IsWorking(y)
<1>1. DOMAIN y.checks = DOMAIN x.checks
  BY DEF AlikeChecks
<1>2. \A a \in DOMAIN x.checks :
        /\ IsCheck(y.checks[a]) /\ y.checks[a].on = x.checks[a].on /\ y.checks[a].at = x.checks[a].at
        /\ y.checks[a].candidate = x.checks[a].candidate /\ y.checks[a].armed = x.checks[a].armed
        /\ y.checks[a].probing = x.checks[a].probing /\ y.checks[a].timer = x.checks[a].timer
  BY DEF AlikeChecks, Alike
<1>3. y.sel = x.sel /\ y.deadlines = x.deadlines /\ y.probes = x.probes /\ y.stations = x.stations /\ y.rejoins = x.rejoins
  BY DEF AlikeChecks
<1>4. ChecksAre(y)
  BY <1>1, <1>2 DEF ChecksAre, AlikeChecks
<1>5. Timed(y)
  BY <1>1, <1>2, <1>3 DEF Working, Timed
<1>6. ProbesAre(y)
  BY <1>1, <1>2, <1>3 DEF Working, ProbesAre
<1>7. Unarmed(y)
  BY <1>1, <1>2 DEF Working, Unarmed
<1>8. StationsAre(y)
  BY <1>1, <1>2, <1>3 DEF Working, StationsAre
<1>9. Working(y)
  BY <1>3, <1>4, <1>5, <1>6, <1>7, <1>8 DEF Working
<1>10. Follows(y.checks, y.sel)
  <2>1. ASSUME NEW i \in Interfaces, x.sel.held[i].candidate # 0
        PROVE  IsOf(y.checks[x.sel.held[i].attempt], x.sel, i)
    <3>1. x.sel.held[i].attempt \in DOMAIN x.checks
      BY <2>1, HeldIsAttempt DEF Follows
    <3>2. IsOf(x.checks[x.sel.held[i].attempt], x.sel, i)
      BY <2>1 DEF Follows
    <3> QED
      BY <1>2, <3>1, <3>2 DEF IsOf
  <2> QED
    BY <1>1, <1>3, <2>1 DEF Follows
<1> QED
  BY <1>9, <1>10 DEF IsWorking

LinkPut(x, l, h) == [x EXCEPT !.links = l, !.checks = h]
IsLinked(x, y, h) ==
    /\ IsDriver(y) /\ SameRest(x, y) /\ SameOut(x, y) /\ y.checks = h
    /\ y.stations = x.stations /\ y.rejoins = x.rejoins
LEMMA LinkPuts ==
    ASSUME NEW x, IsDriver(x), NEW l, NEW h, NEW y, y = LinkPut(x, l, h)
    PROVE  IsLinked(x, y, h)
<1> USE DEF LinkPut
<1>1. IsDriver(y)
  BY DEF IsDriver, Fields
<1>2. SameRest(x, y)
  BY DEF IsDriver, Fields, SameRest
<1>3. SameOut(x, y)
  BY DEF IsDriver, Fields, SameOut
<1>4. y.checks = h /\ y.stations = x.stations /\ y.rejoins = x.rejoins
  BY DEF IsDriver, Fields
<1> QED
  BY <1>1, <1>2, <1>3, <1>4 DEF IsLinked

LEMMA LinkedAlike ==
    ASSUME NEW x, NEW h, NEW y, IsLinked(x, y, h), h = [a \in DOMAIN x.checks |-> h[a]],
           \A a \in DOMAIN x.checks : Alike(x.checks[a], h[a])
    PROVE  AlikeChecks(x, y)
BY DEF IsLinked, SameRest, SameOut, AlikeChecks

LEMMA StaleSet ==
    ASSUME NEW c, IsCheck(c), NEW thing, NEW e, e = [c EXCEPT !.stale = @ \ {thing}]
    PROVE  Alike(c, e) /\ e.awaits = c.awaits
<1>1. {c.armed, c.awaits, c.probing} \subseteq BOOLEAN /\ c.on \in Interfaces
      /\ c.at \in Association..Established /\ c.timer \in Nat
  BY DEF IsCheck
<1>2. c = [f \in CheckFields |-> c[f]]
  BY DEF IsCheck
<1>3. /\ e.candidate = c.candidate /\ e.on = c.on /\ e.at = c.at /\ e.armed = c.armed
      /\ e.awaits = c.awaits /\ e.probing = c.probing /\ e.timer = c.timer
      /\ e = [f \in CheckFields |-> e[f]]
  BY <1>2 DEF CheckFields
<1>4. {e.armed, e.awaits, e.probing} \subseteq BOOLEAN
  BY <1>1, <1>3
<1>5. IsCheck(e)
  BY <1>1, <1>3, <1>4 DEF IsCheck
<1> QED
  BY <1>3, <1>5 DEF Alike

LEMMA AwaitsCleared ==
    ASSUME NEW c, IsCheck(c), NEW e, e = [c EXCEPT !.awaits = FALSE]
    PROVE  Alike(c, e)
<1>1. {c.armed, c.awaits, c.probing} \subseteq BOOLEAN /\ c.on \in Interfaces
      /\ c.at \in Association..Established /\ c.timer \in Nat
  BY DEF IsCheck
<1>2. c = [f \in CheckFields |-> c[f]]
  BY DEF IsCheck
<1>3. /\ e.candidate = c.candidate /\ e.on = c.on /\ e.at = c.at /\ e.armed = c.armed
      /\ ~e.awaits /\ e.awaits \in BOOLEAN /\ e.probing = c.probing /\ e.timer = c.timer
      /\ e = [f \in CheckFields |-> e[f]]
  BY <1>2 DEF CheckFields
<1>4. {e.armed, e.awaits, e.probing} \subseteq BOOLEAN
  BY <1>1, <1>3
<1>5. IsCheck(e)
  BY <1>1, <1>3, <1>4 DEF IsCheck
<1> QED
  BY <1>3, <1>5 DEF Alike

LEMMA AlikeSelf == ASSUME NEW c, IsCheck(c) PROVE Alike(c, c)
BY DEF Alike

LEMMA CheckedFinite ==
    ASSUME NEW x, Follows(x.checks, x.sel), NEW on, on \subseteq DOMAIN x.checks
    PROVE  IsFiniteSet(on)
<1>1. IsFiniteSet(Attempts(x.sel))
  BY AttemptsFinite DEF Attempts
<1> QED
  BY <1>1, FS_Subset DEF Follows

Announced(x, on, present, thing) ==
    [a \in DOMAIN x.checks |-> IF a \in on /\ present
        THEN [x.checks[a] EXCEPT !.stale = @ \ {thing}] ELSE x.checks[a]]

LEMMA OnLinkAction ==
    ASSUME NEW x, DriverHolds(x), TurnEnds(x), NEW l, NEW thing, NEW on, on \subseteq DOMAIN x.checks, NEW present,
           NEW h, h = Announced(x, on, present, thing),
           NEW z, z = LinkPut(x, l, h), NEW y, y = Folds("evaluates", 0, z, on)
    PROVE  From(x, y)
<1>1. From(x, x) /\ IsDriver(x) /\ Verifies(x, {}, "none", 0) /\ Apart(x, x) /\ Working(x) /\ Follows(x.checks, x.sel)
  BY FromSelf, FromDriver
<1>2. IsLinked(x, z, h)
  BY <1>1, LinkPuts
<1>3. ASSUME NEW a \in DOMAIN x.checks PROVE Alike(x.checks[a], h[a]) /\ h[a].awaits = x.checks[a].awaits
  <2>1. PICK c : c = x.checks[a]
    OBVIOUS
  <2>2. IsCheck(c)
    BY <1>1, <2>1 DEF Working, ChecksAre
  <2>3. CASE a \in on /\ present
    <3>1. PICK e : e = [c EXCEPT !.stale = @ \ {thing}]
      OBVIOUS
    <3>2. h[a] = e
      BY <2>1, <2>3, <3>1 DEF Announced
    <3>3. Alike(c, e) /\ e.awaits = c.awaits
      BY <2>2, <3>1, StaleSet
    <3> QED
      BY <2>1, <3>2, <3>3
  <2>4. CASE ~(a \in on /\ present)
    <3>1. h[a] = c
      BY <2>1, <2>4 DEF Announced
    <3> QED
      BY <2>1, <2>2, <3>1, AlikeSelf
  <2> QED
    BY <2>3, <2>4
<1>4. h = [a \in DOMAIN x.checks |-> h[a]]
  BY DEF Announced
<1>5. AlikeChecks(x, z)
  BY <1>2, <1>3, <1>4, LinkedAlike
<1>6. IsDriver(z) /\ SameRest(x, z) /\ SameOut(x, z) /\ z.checks = h /\ z.sel = x.sel
  BY <1>2 DEF IsLinked, SameRest
<1>7. IsWorking(z)
  BY <1>1, <1>5, <1>6, AlikeWorking
<1>8. ASSUME NEW a \in DOMAIN x.checks, Stands(x, a) PROVE Stands(z, a)
  <2>1. /\ z.checks[a].on = x.checks[a].on /\ z.checks[a].at = x.checks[a].at /\ z.checks[a].armed = x.checks[a].armed
        /\ z.checks[a].probing = x.checks[a].probing /\ z.checks[a].timer = x.checks[a].timer
        /\ z.checks[a].awaits = x.checks[a].awaits
    BY <1>3, <1>6 DEF Alike
  <2> QED
    BY <1>6, <1>8, <2>1 DEF Stands, SameRest, SameOut
<1>9. DOMAIN z.checks = DOMAIN x.checks
  BY <1>5 DEF AlikeChecks
<1>10. Verifies(z, {}, "none", 0)
  BY <1>1, <1>7, <1>8, <1>9 DEF Verifies, AllStand, Excused, IsWorking
<1>11. Apart(x, z)
  BY <1>1, <1>6, SameApart
<1>12. PICK S : S = {}
  OBVIOUS
<1>13. PICK why : why = "none"
  OBVIOUS
<1>14. Verifies(z, S, why, 0) /\ IsFiniteSet(on)
  BY <1>1, <1>10, <1>12, <1>13, CheckedFinite
<1>15. Verifies(y, S, why, 0) /\ Works(z, y)
  BY <1>14, EvaluatesStep
<1> QED
  BY <1>11, <1>12, <1>13, <1>15, WorksFrom
-----------------------------------------------------------------------------
\* The joins waiting on the scans of a radio are let go, once none is left.
IsReleased(x, y) == Verifies(y, {}, "none", 0) /\ \E z : SameRest(x, z) /\ Works(z, y)

LEMMA ReleasedStep ==
    ASSUME NEW x, NEW as, as \subseteq DOMAIN x.checks, Verifies(x, as, "joining", 0),
           \A a \in as : x.checks[a].awaits,
           NEW y, y = Released(x, as)
    PROVE  IsReleased(x, y)
<1>1. Working(x) /\ IsDriver(x) /\ Follows(x.checks, x.sel) /\ AllStand(x, as, "joining", 0)
  BY DEF Verifies, Working
<1>2. PICK h : h = [a \in DOMAIN x.checks |-> IF a \in as THEN [x.checks[a] EXCEPT !.awaits = FALSE] ELSE x.checks[a]]
  OBVIOUS
<1>3. PICK z : z = [x EXCEPT !.checks = h]
  OBVIOUS
<1>4. y = Folds("releases", 0, z, as)
  <2>1. y = FoldSet(LAMBDA a, w : Associate(w, a), z, as)
    BY <1>2, <1>3, Zenon DEF Released
  <2> QED
    BY <2>1, ReleasesFold, Zenon
<1>5. PICK l : l = x.links
  OBVIOUS
<1>6. z = LinkPut(x, l, h)
  BY <1>1, <1>3, <1>5 DEF IsDriver, Fields, LinkPut
<1>7. IsLinked(x, z, h)
  BY <1>1, <1>6, LinkPuts
<1>8. ASSUME NEW a \in DOMAIN x.checks PROVE Alike(x.checks[a], h[a]) /\ (a \notin as => h[a] = x.checks[a])
  <2>1. PICK c : c = x.checks[a]
    OBVIOUS
  <2>2. IsCheck(c)
    BY <1>1, <2>1 DEF Working, ChecksAre
  <2>3. CASE a \in as
    <3>1. PICK e : e = [c EXCEPT !.awaits = FALSE]
      OBVIOUS
    <3>2. h[a] = e
      BY <1>2, <2>1, <2>3, <3>1
    <3>3. Alike(c, e)
      BY <2>2, <3>1, AwaitsCleared
    <3> QED
      BY <2>1, <2>3, <3>2, <3>3
  <2>4. CASE a \notin as
    <3>1. h[a] = c
      BY <1>2, <2>1, <2>4
    <3> QED
      BY <2>1, <2>2, <3>1, AlikeSelf
  <2> QED
    BY <2>3, <2>4
<1>9. h = [a \in DOMAIN x.checks |-> h[a]]
  BY <1>2
<1>10. AlikeChecks(x, z)
  BY <1>7, <1>8, <1>9, LinkedAlike
<1>11. IsDriver(z) /\ SameRest(x, z) /\ SameOut(x, z) /\ z.checks = h /\ z.sel = x.sel
  BY <1>7 DEF IsLinked, SameRest
<1>12. IsWorking(z)
  BY <1>1, <1>10, <1>11, AlikeWorking
<1>13. DOMAIN z.checks = DOMAIN x.checks
  BY <1>10 DEF AlikeChecks
<1>14. ASSUME NEW a \in DOMAIN x.checks PROVE Stands(z, a) \/ (a \in as /\ Excused(z.checks[a], "joining"))
  <2>1. Stands(x, a) \/ (a \in as /\ Excused(x.checks[a], "joining"))
    BY <1>1 DEF AllStand
  <2>2. /\ z.checks[a].on = x.checks[a].on /\ z.checks[a].at = x.checks[a].at /\ z.checks[a].armed = x.checks[a].armed
        /\ z.checks[a].probing = x.checks[a].probing /\ z.checks[a].timer = x.checks[a].timer
    BY <1>8, <1>11 DEF Alike
  <2>3. CASE a \in as /\ x.checks[a].at = Association
    BY <2>2, <2>3 DEF Excused
  <2>4. CASE x.checks[a].at # Association
    <3>1. Stands(x, a)
      BY <2>1, <2>4 DEF Excused
    <3> QED
      BY <1>11, <2>2, <2>4, <3>1 DEF Stands, SameRest, SameOut
  <2>5. CASE a \notin as
    <3>1. z.checks[a] = x.checks[a] /\ Stands(x, a)
      BY <1>8, <1>11, <2>1, <2>5
    <3> QED
      BY <1>11, <3>1 DEF Stands, SameRest, SameOut
  <2> QED
    BY <2>3, <2>4, <2>5
<1>15. Verifies(z, as, "joining", 0)
  BY <1>12, <1>13, <1>14 DEF Verifies, AllStand, IsWorking
<1>16. IsFiniteSet(as)
  BY <1>1, CheckedFinite
<1>17. Verifies(y, {}, "none", 0) /\ Works(z, y)
  BY <1>4, <1>15, <1>16, ReleasesStep
<1> QED
  BY <1>11, <1>17 DEF IsReleased
-----------------------------------------------------------------------------
\* The counts of scans.
CountPut(x, n, m, w) == [x EXCEPT !.scanning = n, !.scans = m, !.wants = w]
IsCounted(x, y, n, m, w) ==
    /\ IsDriver(y) /\ SameChecks(x, y) /\ SameOut(x, y)
    /\ y.scanning = n /\ y.scans = m /\ y.wants = w
    /\ y.configured = x.configured /\ y.generation = x.generation
    /\ y.apply = x.apply /\ y.inPlace = x.inPlace
    /\ y.pending = x.pending /\ y.hotspotScanning = x.hotspotScanning /\ y.answers = x.answers
    /\ y.waits = x.waits /\ y.looks = x.looks /\ y.sweeps = x.sweeps /\ y.swept = x.swept
LEMMA CountPuts ==
    ASSUME NEW x, IsDriver(x), NEW n, NEW m, NEW w, NEW y, y = CountPut(x, n, m, w)
    PROVE  IsCounted(x, y, n, m, w)
<1> USE DEF CountPut
<1>1. IsDriver(y)
  BY DEF IsDriver, Fields
<1>2. SameChecks(x, y)
  BY DEF IsDriver, Fields, SameChecks
<1>3. SameOut(x, y)
  BY DEF IsDriver, Fields, SameOut
<1>4. /\ y.scanning = n /\ y.scans = m /\ y.wants = w
      /\ y.configured = x.configured /\ y.generation = x.generation
      /\ y.apply = x.apply /\ y.inPlace = x.inPlace
      /\ y.pending = x.pending /\ y.hotspotScanning = x.hotspotScanning /\ y.answers = x.answers
      /\ y.waits = x.waits /\ y.looks = x.looks /\ y.sweeps = x.sweeps /\ y.swept = x.swept
  BY DEF IsDriver, Fields
<1> QED
  BY <1>1, <1>2, <1>3, <1>4 DEF IsCounted

\* Counting leaves all but the hotspot held back as it is to be.
LEMMA CountedBesides ==
    ASSUME NEW v, NEW x, Besides(v, x), SweepsAre(x), NEW n \in [RadioSet -> Nat], NEW m \in [RadioSet -> Nat],
           NEW w, w \/ ~x.wants, NEW y, IsCounted(x, y, n, m, w), HotspotIs(y)
    PROVE  Besides(v, y) /\ SweepsAre(y)
<1>1. CountsAre(y)
  BY DEF CountsAre, IsCounted
<1>2. CommandIs(y)
  <2>1. CommandTyped(y)
    BY DEF Besides, CommandIs, CommandTyped, IsCounted
  <2>2. y.pending.kind # "none" => Underway(y)
    BY DEF Besides, CommandIs, Underway, IsCounted, SameChecks
  <2> QED
    BY <2>1, <2>2 DEF CommandIs
<1>3. Descends(v.sel, y.sel)
  BY DEF Besides, IsCounted, SameChecks
<1>4. Owes(v, y)
  BY DEF Besides, Owes, IsCounted
<1>5. SweepsAre(y)
  BY DEF SweepsAre, LooksAre, IsCounted
<1> QED
  BY <1>1, <1>2, <1>3, <1>4, <1>5 DEF Besides

LEMMA BesidesApart ==
    ASSUME NEW w, NEW x, Besides(w, x), SweepsAre(x), x.scanning = x.scans
    PROVE  Apart(w, x)
BY DEF Besides, Apart, Rest
-----------------------------------------------------------------------------
\* A scan of a radio taken in but not yet counted.
Counting(w, x, r) ==
    /\ Besides(w, x) /\ SweepsAre(x) /\ Verifies(x, {}, "none", 0)
    /\ x.scanning[r] > 0 /\ x.scans = [x.scanning EXCEPT ![r] = x.scanning[r] - 1]

IsScans(n, m, r) == n \in [RadioSet -> Nat] /\ m \in [RadioSet -> Nat] /\ n[r] > 0 /\ m = [n EXCEPT ![r] = n[r] - 1]

LEMMA OthersSweeps == ASSUME NEW x, SweepsAre(x), NEW y, SameOthers(x, y) PROVE SweepsAre(y)
<1>1. y.waits = x.waits /\ y.looks = x.looks /\ y.sweeps = x.sweeps /\ y.swept = x.swept
  BY DEF SameOthers
<1> QED
  BY <1>1 DEF SweepsAre, LooksAre

LEMMA CountingStarts ==
    ASSUME NEW x, DriverHolds(x), TurnEnds(x), NEW r \in RadioSet, x.scans[r] > 0, NEW ssids \in SUBSET Ssids,
           NEW z, z = [x EXCEPT !.scans[r] = x.scans[r] - 1], NEW y, y = Heard(z, r, ssids, TRUE)
    PROVE  Counting(x, y, r)
<1>1. From(x, x) /\ IsDriver(x) /\ Verifies(x, {}, "none", 0) /\ Apart(x, x) /\ SweepsAre(x) /\ HotspotIs(x)
  BY FromSelf, FromDriver DEF Apart, Rest
<1>2. Besides(x, x) /\ x.scanning = x.scans /\ CountsAre(x)
  BY <1>1 DEF Apart, Rest, Besides
<1>3. PICK n : n = x.scanning
  OBVIOUS
<1>4. PICK m : m = [n EXCEPT ![r] = n[r] - 1]
  OBVIOUS
<1>5. IsScans(n, m, r)
  BY <1>2, <1>3, <1>4 DEF IsScans, CountsAre
<1>6. PICK w : w = x.wants
  OBVIOUS
<1>7. z = CountPut(x, n, m, w)
  <2>1. z = [x EXCEPT !.scans = m]
    BY <1>2, <1>3, <1>4
  <2> QED
    BY <1>1, <1>3, <1>6, <2>1 DEF IsDriver, Fields, CountPut
<1>8. IsCounted(x, z, n, m, w)
  BY <1>1, <1>7, CountPuts
<1>9. HotspotIs(z)
  BY <1>1, <1>3, <1>6, <1>8 DEF HotspotIs, IsCounted
<1>10. n \in [RadioSet -> Nat] /\ m \in [RadioSet -> Nat] /\ (w \/ ~x.wants)
  BY <1>5, <1>6 DEF IsScans
<1>11. Besides(x, z) /\ SweepsAre(z)
  BY <1>1, <1>2, <1>8, <1>9, <1>10, CountedBesides
<1>12. WaitsOn(x, z)
  BY <1>3, <1>6, <1>8 DEF WaitsOn, IsCounted, SameOut
<1>13. PICK S : S = {}
  OBVIOUS
<1>14. PICK why : why = "none"
  OBVIOUS
<1>15. Verifies(z, S, why, 0)
  <2>1. Verifies(x, S, why, 0) /\ IsDriver(z) /\ SameChecks(x, z)
    BY <1>1, <1>8, <1>13, <1>14 DEF IsCounted
  <2>2. PICK b : b = 0
    OBVIOUS
  <2> QED
    BY <1>12, <2>1, <2>2, SameVerifies
<1>16. PICK scanned : scanned = TRUE
  OBVIOUS
<1>17. y = Heard(z, r, ssids, scanned) /\ IsFiniteSet(Ssids)
  BY <1>16, DriverAssumption
<1>18. Verifies(y, S, why, 0) /\ Works(z, y)
  BY <1>15, <1>17, HeardStep
<1>19. Besides(x, y)
  BY <1>11, <1>18, WorksBesides
<1>20. SameOthers(z, y)
  BY <1>18 DEF Works
<1>21. SweepsAre(y)
  BY <1>11, <1>20, OthersSweeps
<1>22. y.scanning = n /\ y.scans = m
  BY <1>8, <1>20 DEF IsCounted, SameOthers
<1> QED
  BY <1>5, <1>13, <1>14, <1>18, <1>19, <1>21, <1>22 DEF Counting, IsScans

\* One more is out: what waited on the scans still does.
LEMMA CountedDown ==
    ASSUME NEW w, NEW x, NEW r \in RadioSet, Counting(w, x, r), x.scanning[r] > 1,
           NEW y, y = [x EXCEPT !.scanning[r] = x.scanning[r] - 1]
    PROVE  From(w, y)
<1>1. Besides(w, x) /\ SweepsAre(x) /\ Verifies(x, {}, "none", 0) /\ IsDriver(x) /\ CountsAre(x) /\ HotspotIs(x)
  BY DEF Counting, Verifies, Working, Besides
<1>2. PICK n : n = x.scans
  OBVIOUS
<1>3. PICK u : u = x.wants
  OBVIOUS
<1>4. n = [x.scanning EXCEPT ![r] = x.scanning[r] - 1] /\ n \in [RadioSet -> Nat] /\ (u \/ ~x.wants)
  BY <1>1, <1>2, <1>3 DEF Counting, CountsAre
<1>5. y = CountPut(x, n, n, u)
  <2>1. y = [x EXCEPT !.scanning = n]
    BY <1>4
  <2> QED
    BY <1>1, <1>2, <1>3, <2>1 DEF IsDriver, Fields, CountPut
<1>6. IsCounted(x, y, n, n, u)
  BY <1>1, <1>5, CountPuts
<1>7. \A q \in RadioSet : x.scanning[q] > 0 => n[q] > 0
  BY <1>1, <1>4 DEF CountsAre
<1>8. HotspotIs(y)
  BY <1>1, <1>3, <1>6, <1>7 DEF HotspotIs, IsCounted
<1>9. Besides(w, y) /\ SweepsAre(y)
  BY <1>1, <1>4, <1>6, <1>8, CountedBesides
<1>10. Apart(w, y)
  BY <1>6, <1>9, BesidesApart DEF IsCounted
<1>11. WaitsOn(x, y)
  BY <1>3, <1>6, <1>7 DEF WaitsOn, IsCounted, SameOut
<1>12. IsDriver(y) /\ SameChecks(x, y)
  BY <1>6 DEF IsCounted
<1>13. PICK S : S = {}
  OBVIOUS
<1>14. PICK why : why = "none"
  OBVIOUS
<1>15. PICK b : b = 0
  OBVIOUS
<1>16. Verifies(x, S, why, b)
  BY <1>1, <1>13, <1>14, <1>15
<1>17. Verifies(y, S, why, b)
  BY <1>11, <1>12, <1>16, SameVerifies
<1> QED
  BY <1>10, <1>13, <1>14, <1>15, <1>17 DEF From
-----------------------------------------------------------------------------
\* None is left: the hotspot held back for it is rendered, and the joins
\* waiting are let go.
IsLast(w, y, S) == Apart(w, y) /\ Verifies(y, S, "joining", 0)

LEMMA LastCounted ==
    ASSUME NEW w, NEW x, NEW r \in RadioSet, Counting(w, x, r), x.scanning[r] = 1,
           NEW u, u \/ ~x.wants, x.hotspotScanning = r => u,
           NEW y, y = CountPut(x, x.scans, x.scans, u),
           NEW S, S = {a \in DOMAIN y.checks : y.checks[a].on = r /\ y.checks[a].awaits}
    PROVE  IsLast(w, y, S)
<1>1. /\ Besides(w, x) /\ SweepsAre(x) /\ Verifies(x, {}, "none", 0) /\ IsDriver(x) /\ CountsAre(x) /\ HotspotIs(x)
      /\ Working(x) /\ Follows(x.checks, x.sel)
  BY DEF Counting, Verifies, Working, Besides
<1>2. PICK n : n = x.scans
  OBVIOUS
<1>3. n = [x.scanning EXCEPT ![r] = x.scanning[r] - 1] /\ n \in [RadioSet -> Nat]
  BY <1>1, <1>2 DEF Counting, CountsAre
<1>4. \A q \in RadioSet : x.scanning[q] > 0 /\ q # r => n[q] > 0
  BY <1>1, <1>3 DEF CountsAre
<1>5. IsCounted(x, y, n, n, u)
  BY <1>1, <1>2, CountPuts
<1>6. HotspotIs(y)
  BY <1>1, <1>4, <1>5 DEF HotspotIs, IsCounted
<1>7. Besides(w, y) /\ SweepsAre(y)
  BY <1>1, <1>3, <1>5, <1>6, CountedBesides
<1>8. Apart(w, y)
  BY <1>5, <1>7, BesidesApart DEF IsCounted
<1>9. IsDriver(y) /\ SameChecks(x, y) /\ SameOut(x, y) /\ y.scanning = n /\ y.wants = u /\ y.apply = x.apply
  BY <1>5 DEF IsCounted
<1>10. Working(y)
  BY <1>1, <1>9, SameWorking
<1>11. Follows(y.checks, y.sel) /\ y.checks = x.checks
  BY <1>1, <1>9 DEF SameChecks
<1>12. ASSUME NEW a \in DOMAIN x.checks PROVE Stands(y, a) \/ (a \in S /\ Excused(y.checks[a], "joining"))
  <2>1. Stands(x, a)
    BY <1>1 DEF Verifies, AllStand, Excused
  <2>2. PICK c : c = x.checks[a]
    OBVIOUS
  <2>3. CASE c.at = Association /\ c.awaits /\ c.on = r
    BY <1>11, <2>2, <2>3 DEF Excused
  <2>4. CASE c.at = Association /\ c.awaits /\ c.on # r
    <3>1. c.on \in RadioSet
      BY <1>1, <2>2, <2>4, OnRadio
    <3>2. x.scanning[c.on] > 0 => y.scanning[c.on] > 0
      BY <1>4, <1>9, <2>4, <3>1
    <3> QED
      BY <1>9, <1>11, <2>1, <2>2, <3>2 DEF Stands, SameOut
  <2>5. CASE ~(c.at = Association /\ c.awaits)
    BY <1>9, <1>11, <2>1, <2>2, <2>5 DEF Stands, SameOut
  <2> QED
    BY <2>3, <2>4, <2>5
<1>13. Verifies(y, S, "joining", 0)
  BY <1>10, <1>11, <1>12 DEF Verifies, AllStand
<1> QED
  BY <1>8, <1>13 DEF IsLast

LEMMA ReleasesOn ==
    ASSUME NEW w, NEW x, Apart(w, x), NEW r, Verifies(x, {a \in DOMAIN x.checks : x.checks[a].on = r /\ x.checks[a].awaits}, "joining", 0),
           NEW y, y = ReleaseOn(x, r)
    PROVE  From(w, y)
<1>1. PICK as : as = {a \in DOMAIN x.checks : x.checks[a].on = r /\ x.checks[a].awaits}
  OBVIOUS
<1>2. as \subseteq DOMAIN x.checks /\ (\A a \in as : x.checks[a].awaits) /\ Verifies(x, as, "joining", 0)
  BY <1>1
<1>3. y = Released(x, as)
  BY <1>1 DEF ReleaseOn
<1>4. IsReleased(x, y)
  BY <1>2, <1>3, ReleasedStep
<1>5. PICK z : SameRest(x, z) /\ Works(z, y)
  BY <1>4 DEF IsReleased
<1>6. Apart(w, z)
  BY <1>5, SameApart
<1> QED
  BY <1>4, <1>5, <1>6, WorksFrom DEF IsReleased

LEMMA KickedApart ==
    ASSUME NEW w, NEW x, Apart(w, x), NEW S, NEW why, NEW b, Verifies(x, S, why, b), NEW y, y = Kick(x)
    PROVE  Apart(w, y) /\ Verifies(y, S, why, b) /\ y.checks = x.checks
<1>1. Rest(x) /\ x.scanning = x.scans /\ Descends(w.sel, x.sel) /\ Owes(w, x)
  BY DEF Apart
<1>2. /\ Verifies(y, S, why, b) /\ Rest(y) /\ SameChecks(x, y) /\ Unmoved(x, y)
      /\ y.configured /\ y.wants => y.apply.runs
      /\ y.pending.kind # "none" => y.pending.kind = x.pending.kind /\ (y.pending.render = "done" => x.pending.render = "done")
      /\ \A g \in 1..MaxCommands : y.answers[g].is = "ok" => x.answers[g].is = "ok"
  BY <1>1, KickStep
<1>3. Owes(w, y)
  BY <1>1, <1>2 DEF Owes
<1>4. y.scanning = y.scans /\ Descends(w.sel, y.sel)
  BY <1>1, <1>2 DEF Unmoved, SameChecks
<1> QED
  BY <1>2, <1>3, <1>4 DEF Apart, SameChecks

LEMMA CountedWanting ==
    ASSUME NEW x, IsDriver(x), NEW n
    PROVE  CountPut(x, n, n, TRUE) = [[x EXCEPT !.scanning = n, !.scans = n] EXCEPT !.wants = TRUE]
BY DEF IsDriver, Fields, CountPut

LEMMA CountedSame ==
    ASSUME NEW x, IsDriver(x), NEW n, n = x.scans
    PROVE  [x EXCEPT !.scanning = n, !.scans = n] = [x EXCEPT !.scanning = n]
BY DEF IsDriver, Fields

LEMMA LastScannedStep ==
    ASSUME NEW w, NEW x, NEW r \in RadioSet, Counting(w, x, r), x.scanning[r] = 1,
           NEW z, z = [x EXCEPT !.scanning[r] = 0], NEW y, y = LastScanned(z, r)
    PROVE  From(w, y)
<1>1. IsDriver(x) /\ CountsAre(x)
  BY DEF Counting, Verifies, Working, Besides
<1>2. PICK n : n = x.scans
  OBVIOUS
<1>3. n = [x.scanning EXCEPT ![r] = 0]
  BY <1>1, <1>2 DEF Counting, CountsAre
<1>4. z = [x EXCEPT !.scanning = n]
  BY <1>3
<1>5. CASE x.hotspotScanning = r
  <2>1. PICK u : u = TRUE
    OBVIOUS
  <2>2. PICK v : v = CountPut(x, x.scans, x.scans, u)
    OBVIOUS
  <2>3. v = [z EXCEPT !.wants = TRUE] /\ z.hotspotScanning = r
    <3>1. v = CountPut(x, n, n, TRUE)
      BY <1>2, <2>1, <2>2
    <3>2. z.hotspotScanning = x.hotspotScanning
      BY <1>1, <1>4 DEF IsDriver, Fields
    <3>3. CountPut(x, n, n, TRUE) = [[x EXCEPT !.scanning = n, !.scans = n] EXCEPT !.wants = TRUE]
      BY <1>1, CountedWanting, Zenon
    <3>4. [x EXCEPT !.scanning = n, !.scans = n] = z
      BY <1>1, <1>2, <1>4, CountedSame, Zenon
    <3> QED
      BY <1>5, <3>1, <3>2, <3>3, <3>4
  <2>4. PICK S : S = {a \in DOMAIN v.checks : v.checks[a].on = r /\ v.checks[a].awaits}
    OBVIOUS
  <2>5. (x.hotspotScanning = r => u) /\ (u \/ ~x.wants)
    BY <2>1
  <2>6. Apart(w, v) /\ Verifies(v, S, "joining", 0)
    <3>1. IsLast(w, v, S)
      BY <2>2, <2>4, <2>5, LastCounted
    <3> QED
      BY <3>1 DEF IsLast
  <2>7. PICK k : k = Kick(v)
    OBVIOUS
  <2>8. PICK b : b = 0
    OBVIOUS
  <2>9. PICK why : why = "joining"
    OBVIOUS
  <2>10. Apart(w, k) /\ Verifies(k, S, why, b) /\ k.checks = v.checks
    BY <2>6, <2>7, <2>8, <2>9, KickedApart
  <2>11. Verifies(k, {a \in DOMAIN k.checks : k.checks[a].on = r /\ k.checks[a].awaits}, "joining", 0)
    BY <2>4, <2>8, <2>9, <2>10
  <2>12. y = ReleaseOn(k, r)
    BY <2>3, <2>7 DEF LastScanned
  <2> QED
    BY <2>10, <2>11, <2>12, ReleasesOn
<1>6. CASE x.hotspotScanning # r
  <2>1. PICK u : u = x.wants
    OBVIOUS
  <2>2. PICK v : v = CountPut(x, x.scans, x.scans, u)
    OBVIOUS
  <2>3. v = z /\ z.hotspotScanning # r
    BY <1>1, <1>2, <1>4, <1>6, <2>1, <2>2, Zenon DEF IsDriver, Fields, CountPut
  <2>4. PICK S : S = {a \in DOMAIN v.checks : v.checks[a].on = r /\ v.checks[a].awaits}
    OBVIOUS
  <2>5. (x.hotspotScanning = r => u) /\ (u \/ ~x.wants)
    BY <1>6, <2>1
  <2>6. Apart(w, v) /\ Verifies(v, S, "joining", 0)
    <3>1. IsLast(w, v, S)
      BY <2>2, <2>4, <2>5, LastCounted
    <3> QED
      BY <3>1 DEF IsLast
  <2>7. y = ReleaseOn(v, r)
    BY <2>3 DEF LastScanned
  <2> QED
    BY <2>4, <2>6, <2>7, ReleasesOn
<1> QED
  BY <1>5, <1>6

LEMMA ScannedLast ==
    ASSUME NEW v, NEW r, v.scanning[r] = 1
    PROVE  ScannedForPending(v, r) = LastScanned([v EXCEPT !.scanning[r] = 0], r)
BY DEF ScannedForPending

LEMMA ScannedMore ==
    ASSUME NEW v, NEW r, v.scanning[r] \in Nat, v.scanning[r] > 1
    PROVE  ScannedForPending(v, r) = [v EXCEPT !.scanning[r] = v.scanning[r] - 1]
BY DEF ScannedForPending

LEMMA OneOrMore == ASSUME NEW n \in Nat, n > 0 PROVE n = 1 \/ n > 1
OBVIOUS

LEMMA ScannedAction ==
    ASSUME NEW x, DriverHolds(x), TurnEnds(x), NEW r \in RadioSet, x.scans[r] > 0, NEW ssids \in SUBSET Ssids,
           NEW z, z = [x EXCEPT !.scans[r] = x.scans[r] - 1], NEW v, v = Heard(z, r, ssids, TRUE),
           NEW y, y = ScannedForPending(v, r)
    PROVE  From(x, y)
<1>1. Counting(x, v, r)
  BY CountingStarts
<1>2. v.scanning[r] \in Nat /\ v.scanning[r] > 0
  BY <1>1 DEF Counting, Besides, CountsAre
<1>3. PICK n : n = v.scanning[r]
  OBVIOUS
<1>4. n = 1 \/ n > 1
  <2>1. n \in Nat /\ n > 0
    BY <1>2, <1>3
  <2> QED
    BY <2>1, OneOrMore
<1>5. CASE n > 1
  <2>1. y = [v EXCEPT !.scanning[r] = v.scanning[r] - 1] /\ v.scanning[r] > 1
    BY <1>2, <1>3, <1>5, ScannedMore
  <2> QED
    BY <1>1, <2>1, CountedDown
<1>6. CASE n = 1
  <2>1. y = LastScanned([v EXCEPT !.scanning[r] = 0], r) /\ v.scanning[r] = 1
    BY <1>3, <1>6, ScannedLast
  <2> QED
    BY <1>1, <2>1, LastScannedStep
<1> QED
  BY <1>4, <1>5, <1>6
-----------------------------------------------------------------------------
\* Looking for better networks.
LooksPut(x, w, l) == [x EXCEPT !.waits = w, !.looks = l]
IsLooked(x, y, w, l) ==
    /\ IsDriver(y) /\ SameChecks(x, y) /\ SameOut(x, y) /\ y.waits = w /\ y.looks = l
    /\ y.scanning = x.scanning /\ y.scans = x.scans /\ y.wants = x.wants
    /\ y.configured = x.configured /\ y.generation = x.generation
    /\ y.apply = x.apply /\ y.inPlace = x.inPlace
    /\ y.pending = x.pending /\ y.hotspotScanning = x.hotspotScanning /\ y.answers = x.answers
    /\ y.sweeps = x.sweeps /\ y.swept = x.swept
LEMMA LooksPuts ==
    ASSUME NEW x, IsDriver(x), NEW w, NEW l, NEW y, y = LooksPut(x, w, l)
    PROVE  IsLooked(x, y, w, l)
<1> USE DEF LooksPut
<1>1. IsDriver(y)
  BY DEF IsDriver, Fields
<1>2. SameChecks(x, y)
  BY DEF IsDriver, Fields, SameChecks
<1>3. SameOut(x, y)
  BY DEF IsDriver, Fields, SameOut
<1>4. /\ y.waits = w /\ y.looks = l
      /\ y.scanning = x.scanning /\ y.scans = x.scans /\ y.wants = x.wants
      /\ y.configured = x.configured /\ y.generation = x.generation
      /\ y.apply = x.apply /\ y.inPlace = x.inPlace
      /\ y.pending = x.pending /\ y.hotspotScanning = x.hotspotScanning /\ y.answers = x.answers
      /\ y.sweeps = x.sweeps /\ y.swept = x.swept
  BY DEF IsDriver, Fields
<1> QED
  BY <1>1, <1>2, <1>3, <1>4 DEF IsLooked

LEMMA LookedVerifies ==
    ASSUME NEW x, NEW S, NEW why, NEW b, Verifies(x, S, why, b), NEW w, NEW l, NEW y, IsLooked(x, y, w, l)
    PROVE  Verifies(y, S, why, b)
<1>1. WaitsOn(x, y)
  BY DEF WaitsOn, IsLooked, SameOut
<1>2. IsDriver(y) /\ SameChecks(x, y)
  BY DEF IsLooked
<1> QED
  BY <1>1, <1>2, SameVerifies

LEMMA LookedBesides ==
    ASSUME NEW v, NEW x, Besides(v, x), NEW w, NEW l, NEW y, IsLooked(x, y, w, l)
    PROVE  Besides(v, y)
<1>1. CountsAre(y)
  BY DEF Besides, CountsAre, IsLooked
<1>2. CommandIs(y)
  <2>1. CommandTyped(y)
    BY DEF Besides, CommandIs, CommandTyped, IsLooked
  <2>2. y.pending.kind # "none" => Underway(y)
    BY DEF Besides, CommandIs, Underway, IsLooked, SameChecks
  <2> QED
    BY <2>1, <2>2 DEF CommandIs
<1>3. HotspotIs(y)
  BY DEF Besides, HotspotIs, IsLooked
<1>4. Descends(v.sel, y.sel)
  BY DEF Besides, IsLooked, SameChecks
<1>5. Owes(v, y)
  BY DEF Besides, Owes, IsLooked
<1> QED
  BY <1>1, <1>2, <1>3, <1>4, <1>5 DEF Besides

\* A look that comes back has its sweep wait for the next, and a wait over
\* has it look.
LEMMA LookBack ==
    ASSUME NEW x, SweepsAre(x), NEW look \in x.looks, NEW y, y.sweeps = x.sweeps, y.swept = x.swept,
           y.looks = x.looks \ {look},
           y.waits = IF x.sweeps[look[1]] = look[2] THEN x.waits \cup {look} ELSE x.waits
    PROVE  SweepsAre(y)
<1>1. \A k \in x.waits \cup x.looks : k \in RadioSet \X Nat /\ k[2] <= x.swept
  BY DEF SweepsAre, LooksAre
<1>2. look = <<look[1], look[2]>> /\ look[1] \in RadioSet
  BY <1>1
<1>3. y.waits \cup y.looks \subseteq x.waits \cup x.looks
  OBVIOUS
<1>4. LooksAre(y)
  BY <1>1, <1>3 DEF LooksAre
<1>5. ASSUME NEW r \in RadioSet, x.sweeps[r] # 0, NEW k, k = <<r, x.sweeps[r]>>
      PROVE  (k \in y.waits) # (k \in y.looks)
  <2>1. (k \in x.waits) # (k \in x.looks)
    BY <1>5 DEF SweepsAre
  <2>2. CASE k = look
    <3>1. x.sweeps[look[1]] = look[2]
      BY <1>5, <2>2
    <3> QED
      BY <2>2, <3>1
  <2>3. CASE k # look
    BY <2>1, <2>3
  <2> QED
    BY <2>2, <2>3
<1> QED
  BY <1>4, <1>5 DEF SweepsAre

LEMMA WaitOver ==
    ASSUME NEW x, SweepsAre(x), NEW wait \in x.waits, NEW y, y.sweeps = x.sweeps, y.swept = x.swept,
           y.waits = x.waits \ {wait}, y.looks = x.looks \cup {wait}
    PROVE  SweepsAre(y)
<1>1. \A k \in x.waits \cup x.looks : k \in RadioSet \X Nat /\ k[2] <= x.swept
  BY DEF SweepsAre, LooksAre
<1>3. y.waits \cup y.looks \subseteq x.waits \cup x.looks
  OBVIOUS
<1>4. LooksAre(y)
  BY <1>1, <1>3 DEF LooksAre
<1>5. ASSUME NEW r \in RadioSet, x.sweeps[r] # 0, NEW k, k = <<r, x.sweeps[r]>>
      PROVE  (k \in y.waits) # (k \in y.looks)
  <2>1. (k \in x.waits) # (k \in x.looks)
    BY <1>5 DEF SweepsAre
  <2> QED
    BY <2>1
<1> QED
  BY <1>4, <1>5 DEF SweepsAre

LEMMA SweepNowAction ==
    ASSUME NEW x, DriverHolds(x), TurnEnds(x), NEW wait \in x.waits,
           NEW w, w = x.waits \ {wait}, NEW l, l = x.looks \cup {wait}, NEW y, y = LooksPut(x, w, l)
    PROVE  From(x, y)
<1>1. From(x, x) /\ IsDriver(x) /\ Verifies(x, {}, "none", 0) /\ Apart(x, x) /\ SweepsAre(x)
  BY FromSelf, FromDriver DEF Apart, Rest
<1>2. Besides(x, x)
  BY <1>1 DEF Apart, Rest, Besides
<1>3. IsLooked(x, y, w, l)
  BY <1>1, LooksPuts
<1>4. Besides(x, y)
  BY <1>2, <1>3, LookedBesides
<1>5. y.sweeps = x.sweeps /\ y.swept = x.swept /\ y.waits = x.waits \ {wait} /\ y.looks = x.looks \cup {wait}
  BY <1>3 DEF IsLooked
<1>6. SweepsAre(y)
  BY <1>1, <1>5, WaitOver
<1>7. y.scanning = y.scans
  BY <1>1, <1>3 DEF Apart, IsLooked
<1>8. Verifies(y, {}, "none", 0)
  <2>1. PICK S : S = {}
    OBVIOUS
  <2>2. PICK why : why = "none"
    OBVIOUS
  <2>3. PICK b : b = 0
    OBVIOUS
  <2>4. Verifies(x, S, why, b)
    BY <1>1, <2>1, <2>2, <2>3
  <2>5. Verifies(y, S, why, b)
    BY <1>3, <2>4, LookedVerifies
  <2> QED
    BY <2>1, <2>2, <2>3, <2>5
<1> QED
  BY <1>4, <1>6, <1>7, <1>8, BesidesApart DEF From

LEMMA SweepsOnPuts ==
    ASSUME NEW x, IsDriver(x), NEW look, NEW w, w = (IF x.sweeps[look[1]] = look[2] THEN x.waits \cup {look} ELSE x.waits),
           NEW y, y = SweepsOn(x, look)
    PROVE  IsLooked(x, y, w, x.looks)
<1>1. PICK l : l = x.looks
  OBVIOUS
<1>2. y = LooksPut(x, w, l)
  <2>1. CASE x.sweeps[look[1]] = look[2]
    <3>1. y = [x EXCEPT !.waits = x.waits \cup {look}]
      BY <2>1 DEF SweepsOn
    <3>2. y = [x EXCEPT !.waits = w]
      BY <2>1, <3>1
    <3> QED
      BY <1>1, <3>2 DEF IsDriver, Fields, LooksPut
  <2>2. CASE x.sweeps[look[1]] # look[2]
    <3>1. y = x /\ w = x.waits
      BY <2>2 DEF SweepsOn
    <3> QED
      BY <1>1, <3>1 DEF IsDriver, Fields, LooksPut
  <2> QED
    BY <2>1, <2>2
<1> QED
  BY <1>1, <1>2, LooksPuts

LEMMA SweptOnAction ==
    ASSUME NEW x, DriverHolds(x), TurnEnds(x), NEW look \in x.looks, NEW ssids \in SUBSET Ssids,
           NEW z, z = [x EXCEPT !.looks = x.looks \ {look}], NEW v, v = Heard(z, look[1], ssids, TRUE),
           NEW y, y = SweepsOn(v, look)
    PROVE  From(x, y)
<1>1. From(x, x) /\ IsDriver(x) /\ Verifies(x, {}, "none", 0) /\ Apart(x, x) /\ SweepsAre(x)
  BY FromSelf, FromDriver DEF Apart, Rest
<1>2. Besides(x, x) /\ x.scanning = x.scans
  BY <1>1 DEF Apart, Rest, Besides
<1>3. PICK l : l = x.looks \ {look}
  OBVIOUS
<1>4. PICK u : u = x.waits
  OBVIOUS
<1>5. z = LooksPut(x, u, l)
  <2>1. z = [x EXCEPT !.looks = l]
    BY <1>3
  <2> QED
    BY <1>1, <1>4, <2>1 DEF IsDriver, Fields, LooksPut
<1>6. IsLooked(x, z, u, l)
  BY <1>1, <1>5, LooksPuts
<1>7. Besides(x, z)
  BY <1>2, <1>6, LookedBesides
<1>8. PICK S : S = {}
  OBVIOUS
<1>9. PICK why : why = "none"
  OBVIOUS
<1>10. PICK b : b = 0
  OBVIOUS
<1>11. Verifies(z, S, why, b)
  <2>1. Verifies(x, S, why, b)
    BY <1>1, <1>8, <1>9, <1>10
  <2> QED
    BY <1>6, <2>1, LookedVerifies
<1>12. PICK r : r = look[1]
  OBVIOUS
<1>13. r \in RadioSet
  <2>1. look \in RadioSet \X Nat
    BY <1>1 DEF SweepsAre, LooksAre
  <2> QED
    BY <1>12, <2>1
<1>14. PICK scanned : scanned = TRUE
  OBVIOUS
<1>15. v = Heard(z, r, ssids, scanned) /\ IsFiniteSet(Ssids)
  BY <1>12, <1>14, DriverAssumption
<1>16. Verifies(v, S, why, 0) /\ Works(z, v)
  <2>1. Verifies(z, S, why, 0)
    BY <1>10, <1>11
  <2> QED
    BY <1>13, <1>15, <2>1, HeardStep
<1>17. Besides(x, v)
  BY <1>7, <1>16, WorksBesides
<1>18. v.sweeps = x.sweeps /\ v.swept = x.swept /\ v.waits = x.waits /\ v.looks = l /\ v.scanning = v.scans
  <2>1. SameOthers(z, v)
    BY <1>16 DEF Works
  <2> QED
    BY <1>2, <1>4, <1>6, <2>1 DEF SameOthers, IsLooked
<1>19. PICK w : w = (IF v.sweeps[look[1]] = look[2] THEN v.waits \cup {look} ELSE v.waits)
  OBVIOUS
<1>20. IsDriver(v)
  BY <1>16 DEF Verifies, Working
<1>21. IsLooked(v, y, w, v.looks)
  BY <1>19, <1>20, SweepsOnPuts
<1>22. Besides(x, y)
  BY <1>17, <1>21, LookedBesides
<1>23. /\ y.sweeps = x.sweeps /\ y.swept = x.swept /\ y.looks = x.looks \ {look}
       /\ y.waits = (IF x.sweeps[look[1]] = look[2] THEN x.waits \cup {look} ELSE x.waits)
       /\ y.scanning = y.scans
  BY <1>3, <1>18, <1>19, <1>21, Zenon DEF IsLooked
<1>24. SweepsAre(y)
  BY <1>1, <1>23, LookBack
<1>25. Verifies(y, S, why, b)
  BY <1>10, <1>16, <1>21, LookedVerifies
<1>26. Apart(x, y)
  BY <1>22, <1>23, <1>24, BesidesApart
<1> QED
  BY <1>8, <1>9, <1>10, <1>25, <1>26 DEF From
-----------------------------------------------------------------------------
\* An apply that ends.
EndPut(x, q, i) == [x EXCEPT !.apply = NoApply, !.pending = q, !.inPlace = i]
IsEnded(x, y, q, i) ==
    /\ IsDriver(y) /\ SameChecks(x, y) /\ SameOut(x, y) /\ y.apply = NoApply /\ y.pending = q /\ y.inPlace = i
    /\ y.scanning = x.scanning /\ y.scans = x.scans /\ y.wants = x.wants
    /\ y.configured = x.configured /\ y.generation = x.generation
    /\ y.hotspotScanning = x.hotspotScanning /\ y.answers = x.answers
    /\ y.waits = x.waits /\ y.looks = x.looks /\ y.sweeps = x.sweeps /\ y.swept = x.swept
LEMMA EndPuts ==
    ASSUME NEW x, IsDriver(x), NEW q, NEW i, NEW y, y = EndPut(x, q, i)
    PROVE  IsEnded(x, y, q, i)
<1> USE DEF EndPut
<1>1. IsDriver(y)
  BY DEF IsDriver, Fields
<1>2. SameChecks(x, y)
  BY DEF IsDriver, Fields, SameChecks
<1>3. SameOut(x, y)
  BY DEF IsDriver, Fields, SameOut
<1>4. /\ y.apply = NoApply /\ y.pending = q /\ y.inPlace = i
      /\ y.scanning = x.scanning /\ y.scans = x.scans /\ y.wants = x.wants
      /\ y.configured = x.configured /\ y.generation = x.generation
      /\ y.hotspotScanning = x.hotspotScanning /\ y.answers = x.answers
      /\ y.waits = x.waits /\ y.looks = x.looks /\ y.sweeps = x.sweeps /\ y.swept = x.swept
  BY DEF IsDriver, Fields
<1> QED
  BY <1>1, <1>2, <1>3, <1>4 DEF IsEnded

LEMMA NoApplyIs == IsApply(NoApply) /\ ~NoApply.runs
BY DEF IsApply, ApplyFields, NoApply

LEMMA ApplyOver == ASSUME NEW p, IsApply(p), NEW i, i = [p EXCEPT !.runs = FALSE]
    PROVE IsApply(i) /\ i.generation = p.generation /\ i.links = p.links
<1>1. i = [f \in ApplyFields |-> i[f]]
  BY DEF IsApply, ApplyFields
<1>2. i.runs = FALSE /\ i.generation = p.generation /\ i.links = p.links
  BY DEF IsApply, ApplyFields
<1>3. i.runs \in BOOLEAN
  BY <1>2
<1> QED
  BY <1>1, <1>2, <1>3 DEF IsApply

LEMMA ApplyDomain == ASSUME NEW p, IsApply(p), NEW domain, NEW i, i = [p EXCEPT !.domain = domain] PROVE IsApply(i)
<1>1. i = [f \in ApplyFields |-> i[f]]
  BY DEF IsApply, ApplyFields
<1>2. i.runs = p.runs
  BY DEF IsApply, ApplyFields
<1>3. i.runs \in BOOLEAN
  BY <1>2 DEF IsApply
<1> QED
  BY <1>1, <1>3 DEF IsApply

Over(p) == [p EXCEPT !.render = IF p.render = "taken" THEN "done" ELSE p.render]

LEMMA PendingOver ==
    ASSUME NEW p, IsPending(p), NEW q, q = Over(p)
    PROVE  /\ IsPending(q) /\ q.kind = p.kind /\ q.generation = p.generation
           /\ q.render = (IF p.render = "taken" THEN "done" ELSE p.render)
<1>1. q = [f \in PendingFields |-> q[f]]
  BY DEF IsPending, PendingFields, Over
<1>2. /\ q.kind = p.kind /\ q.generation = p.generation
      /\ q.render = (IF p.render = "taken" THEN "done" ELSE p.render)
  BY DEF IsPending, PendingFields, Over
<1>3. p.kind \in {"none", "apply", "restore"} /\ p.render \in {"wanted", "taken", "done"}
  BY DEF IsPending
<1>4. q.kind \in {"none", "apply", "restore"} /\ q.render \in {"wanted", "taken", "done"}
  BY <1>2, <1>3
<1> QED
  BY <1>1, <1>2, <1>4 DEF IsPending

IsOver(x, y, S) == Verifies(y, S, "unarmed", 0) /\ CountsAre(y) /\ CommandTyped(y) /\ HotspotIs(y) /\ SweepsAre(y)

\* What the apply was to bring up is to be armed.
LEMMA EndedIs ==
    ASSUME NEW x, Verifies(x, {}, "none", 0), Rest(x), NEW S, S = AttemptsIn(x.apply.links),
           NEW q, IsPending(q), NEW i, IsApply(i), NEW y, IsEnded(x, y, q, i)
    PROVE  IsOver(x, y, S)
<1>1. IsDriver(y) /\ SameChecks(x, y) /\ SameOut(x, y) /\ y.scanning = x.scanning /\ y.wants = x.wants
  BY DEF IsEnded
<1>2. Working(y) /\ Working(x) /\ Follows(x.checks, x.sel) /\ AllStand(x, {}, "none", 0)
  BY <1>1, SameWorking DEF Verifies
<1>3. Follows(y.checks, y.sel) /\ y.checks = x.checks
  BY <1>1, <1>2 DEF SameChecks
<1>4. ASSUME NEW a \in DOMAIN x.checks PROVE Stands(y, a) \/ (a \in S /\ Excused(y.checks[a], "unarmed"))
  <2>1. Stands(x, a)
    BY <1>2 DEF AllStand, Excused
  <2>2. CASE ~x.checks[a].armed /\ x.apply.runs /\ a \in AttemptsIn(x.apply.links)
    BY <1>3, <2>2 DEF Excused
  <2>3. CASE ~(~x.checks[a].armed /\ x.apply.runs /\ a \in AttemptsIn(x.apply.links))
    BY <1>1, <1>3, <2>1, <2>3 DEF Stands, SameOut, SameChecks
  <2> QED
    BY <2>2, <2>3
<1>5. Verifies(y, S, "unarmed", 0)
  BY <1>2, <1>3, <1>4 DEF Verifies, AllStand
<1>6. CountsAre(y)
  BY DEF Rest, CountsAre, IsEnded
<1>7. CommandTyped(y)
  BY NoApplyIs DEF Rest, CommandIs, CommandTyped, IsEnded
<1>8. HotspotIs(y)
  BY DEF Rest, HotspotIs, IsEnded
<1>9. SweepsAre(y)
  BY DEF Rest, SweepsAre, LooksAre, IsEnded
<1> QED
  BY <1>5, <1>6, <1>7, <1>8, <1>9 DEF IsOver
-----------------------------------------------------------------------------
\* A proposal has the radios scanned.
IsScanned(w, y, S, why, b) == Apart(w, y) /\ Verifies(y, S, why, b)

LEMMA ScanStep ==
    ASSUME NEW w, NEW x, Apart(w, x), NEW S, NEW why, NEW b, Verifies(x, S, why, b), NEW y, y = ScanForPending(x)
    PROVE  IsScanned(w, y, S, why, b)
<1>1. /\ Besides(w, x) /\ SweepsAre(x) /\ CountsAre(x) /\ HotspotIs(x) /\ x.scanning = x.scans /\ IsDriver(x)
  BY DEF Apart, Rest, Besides, Verifies, Working
<1>2. CASE y = x
  BY <1>2 DEF IsScanned
<1>3. CASE y # x
  <2>1. PICK n : n = [r \in RadioSet |-> x.scanning[r] + 1]
    OBVIOUS
  <2>2. PICK m : m = [r \in RadioSet |-> x.scans[r] + 1]
    OBVIOUS
  <2>3. n = m /\ n \in [RadioSet -> Nat] /\ m \in [RadioSet -> Nat] /\ \A r \in RadioSet : n[r] > 0
    BY <1>1, <2>1, <2>2 DEF CountsAre
  <2>4. PICK u : u = x.wants
    OBVIOUS
  <2>5. y = CountPut(x, n, m, u)
    <3>1. y = [x EXCEPT !.scanning = n, !.scans = m]
      BY <1>3, <2>1, <2>2 DEF ScanForPending
    <3> QED
      BY <1>1, <2>4, <3>1 DEF IsDriver, Fields, CountPut
  <2>6. IsCounted(x, y, n, m, u)
    BY <1>1, <2>5, CountPuts
  <2>7. HotspotIs(y)
    BY <1>1, <2>3, <2>6 DEF HotspotIs, IsCounted
  <2>8. u \/ ~x.wants
    BY <2>4
  <2>9. Besides(w, y) /\ SweepsAre(y)
    BY <1>1, <2>3, <2>6, <2>7, <2>8, CountedBesides
  <2>10. Apart(w, y)
    BY <2>3, <2>6, <2>9, BesidesApart DEF IsCounted
  <2>11. WaitsOn(x, y)
    BY <2>3, <2>4, <2>6 DEF WaitsOn, IsCounted, SameOut
  <2>12. IsDriver(y) /\ SameChecks(x, y)
    BY <2>6 DEF IsCounted
  <2>13. Verifies(y, S, why, b)
    BY <2>11, <2>12, SameVerifies
  <2> QED
    BY <2>10, <2>13 DEF IsScanned
<1> QED
  BY <1>2, <1>3

LEMMA ProbesStep ==
    ASSUME NEW w, NEW x, Apart(w, x), NEW S, NEW why, NEW b, Verifies(x, S, why, b), NEW domain, NEW y, y = Probes(x, domain)
    PROVE  IsScanned(w, y, S, why, b)
<1>1. IsDriver(x)
  BY DEF Verifies, Working
<1>2. PICK z : z = [x EXCEPT !.reprobing = TRUE]
  OBVIOUS
<1>3. PICK p : p = TRUE
  OBVIOUS
<1>4. z = OutPut(x, x.operating, x.retries, p, x.again)
  <2>1. z = [x EXCEPT !.reprobing = p]
    BY <1>2, <1>3
  <2> QED
    BY <1>1, <2>1, ReprobingOnly
<1>5. IsOut(x, z)
  BY <1>1, <1>4, OutPuts
<1>6. IsDriver(z) /\ SameRest(x, z) /\ SameOut(x, z) /\ SameChecks(x, z)
  BY <1>5 DEF IsOut
<1>7. WaitsOn(x, z)
  BY <1>6 DEF WaitsOn, SameRest, SameOut
<1>8. Verifies(z, S, why, b) /\ Apart(w, z)
  BY <1>6, <1>7, SameVerifies, SameApart
<1>9. CASE y = x
  BY <1>9 DEF IsScanned
<1>10. CASE y = z
  BY <1>8, <1>10 DEF IsScanned
<1>11. CASE y = ScanForPending(z)
  BY <1>8, <1>11, ScanStep
<1> QED
  BY <1>2, <1>9, <1>10, <1>11 DEF Probes
-----------------------------------------------------------------------------
LEMMA EndedPut ==
    ASSUME NEW x, IsDriver(x), NEW q, q = Over(x.pending), NEW i
    PROVE  [Ended(x) EXCEPT !.inPlace = i] = EndPut(x, q, i)
<1>1. PICK r : r = IF x.pending.render = "taken" THEN "done" ELSE x.pending.render
  OBVIOUS
<1>2. q = [x.pending EXCEPT !.render = r]
  BY <1>1 DEF Over
<1>3. Ended(x) = [x EXCEPT !.apply = NoApply, !.pending.render = r]
  BY <1>1 DEF Ended
<1>4. Ended(x) = [x EXCEPT !.apply = NoApply, !.pending = q]
  BY <1>2, <1>3
<1> QED
  BY <1>4 DEF IsDriver, Fields, EndPut

LEMMA EndedDomain ==
    ASSUME NEW x, IsDriver(x), NEW domain, NEW i, i = [x.inPlace EXCEPT !.domain = domain]
    PROVE  [Ended(x) EXCEPT !.inPlace.domain = domain] = [Ended(x) EXCEPT !.inPlace = i]
<1>1. Ended(x).inPlace = x.inPlace
  BY DEF IsDriver, Fields, Ended
<1> QED
  BY <1>1

LEMMA ArmedFrom ==
    ASSUME NEW w, NEW x, Apart(w, x), NEW links, NEW S, S = AttemptsIn(links), Verifies(x, S, "unarmed", 0),
           NEW y, y = Arms(x, S)
    PROVE  From(w, y)
<1>1. IsFiniteSet(S)
  BY AttemptsFinite
<1>2. Verifies(y, {}, "none", 0) /\ Works(x, y)
  BY <1>1, ArmsStep
<1> QED
  BY <1>2, WorksFrom

IsAnswered(x, y, S, why, b, said) ==
    /\ Verifies(y, S, why, b) /\ Rest(y) /\ SameChecks(x, y) /\ Unmoved(x, y)
    /\ y.wants = x.wants /\ y.apply = x.apply /\ y.hotspotScanning = x.hotspotScanning
    /\ y.pending.kind = "none"
    /\ \A g \in 1..MaxCommands : y.answers[g].is = x.answers[g].is
         \/ (g = x.pending.generation /\ y.answers[g].is = said /\ x.pending.kind # "none")

LEMMA SaysAnswered ==
    ASSUME NEW x, NEW S, NEW why, NEW b, Verifies(x, S, why, b), RestTyped(x), NEW said, NEW render,
           NEW y, y = Says(x, said, render)
    PROVE  IsAnswered(x, y, S, why, b, said)
BY SaysStep DEF IsAnswered

LEMMA AppliedAction ==
    ASSUME NEW x, DriverHolds(x), TurnEnds(x), x.apply.runs, NEW domain,
           NEW z, z = [Ended(x) EXCEPT !.inPlace = [x.apply EXCEPT !.runs = FALSE]],
           NEW v, v = Probes(z, domain), NEW y, y = Arms(v, AttemptsIn(x.apply.links))
    PROVE  From(x, y)
<1>1. From(x, x) /\ IsDriver(x) /\ Verifies(x, {}, "none", 0) /\ Apart(x, x) /\ Rest(x)
  BY FromSelf, FromDriver DEF Apart
<1>2. CommandTyped(x) /\ (x.pending.kind # "none" => Underway(x)) /\ x.scanning = x.scans /\ Descends(x.sel, x.sel)
  BY <1>1 DEF Rest, CommandIs, Apart
<1>3. PICK q : q = Over(x.pending)
  OBVIOUS
<1>4. PICK i : i = [x.apply EXCEPT !.runs = FALSE]
  OBVIOUS
<1>5. z = EndPut(x, q, i)
  <2>1. z = [Ended(x) EXCEPT !.inPlace = i]
    BY <1>4
  <2>2. [Ended(x) EXCEPT !.inPlace = i] = EndPut(x, q, i)
    BY <1>1, <1>3, EndedPut
  <2> QED
    BY <2>1, <2>2
<1>6. IsEnded(x, z, q, i)
  BY <1>1, <1>5, EndPuts
<1>7. /\ IsPending(q) /\ q.kind = x.pending.kind /\ q.generation = x.pending.generation
      /\ q.render = (IF x.pending.render = "taken" THEN "done" ELSE x.pending.render)
  BY <1>2, <1>3, PendingOver DEF CommandTyped
<1>8. IsApply(i) /\ i.generation = x.apply.generation /\ i.links = x.apply.links
  BY <1>2, <1>4, ApplyOver DEF CommandTyped
<1>9. PICK S : S = AttemptsIn(x.apply.links)
  OBVIOUS
<1>10. IsOver(x, z, S)
  BY <1>1, <1>6, <1>7, <1>8, <1>9, EndedIs
<1>11. Verifies(z, S, "unarmed", 0) /\ CountsAre(z) /\ CommandTyped(z) /\ HotspotIs(z) /\ SweepsAre(z)
  BY <1>10 DEF IsOver
<1>12. z.pending.kind # "none" => Underway(z)
  <2>1. /\ z.pending = q /\ z.apply = NoApply /\ z.inPlace = i /\ z.wants = x.wants /\ z.configured = x.configured
        /\ z.generation = x.generation /\ z.sel = x.sel
    BY <1>6 DEF IsEnded, SameChecks
  <2>2. ASSUME x.pending.kind # "none"
        PROVE  /\ x.configured /\ x.pending.generation = x.generation
               /\ x.pending.render = "wanted" => x.wants
               /\ x.pending.render # "wanted" => x.apply.generation = x.generation
               /\ ~x.wants => x.apply.links = LinksOf(x.sel)
    BY <1>2, <2>2 DEF Underway
  <2>3. q.render # "taken" /\ (q.render = "wanted" <=> x.pending.render = "wanted")
    BY <1>7
  <2> QED
    BY <1>7, <1>8, <2>1, <2>2, <2>3, NoApplyIs DEF Underway
<1>13. Rest(z)
  BY <1>11, <1>12 DEF Rest, CommandIs
<1>14. Owes(x, z)
  BY <1>6, <1>7 DEF Owes, IsEnded
<1>15. Apart(x, z)
  BY <1>2, <1>6, <1>13, <1>14 DEF Apart, IsEnded, SameChecks
<1>16. PICK why : why = "unarmed"
  OBVIOUS
<1>17. PICK b : b = 0
  OBVIOUS
<1>18. Verifies(z, S, why, b)
  BY <1>11, <1>16, <1>17
<1>19. IsScanned(x, v, S, why, b)
  BY <1>15, <1>18, ProbesStep
<1>20. Apart(x, v) /\ Verifies(v, S, "unarmed", 0)
  BY <1>16, <1>17, <1>19 DEF IsScanned
<1>21. PICK links : links = x.apply.links
  OBVIOUS
<1>22. S = AttemptsIn(links) /\ y = Arms(v, S)
  BY <1>9, <1>21
<1> QED
  BY <1>20, <1>22, ArmedFrom

LEMMA NotAppliedAction ==
    ASSUME NEW x, DriverHolds(x), TurnEnds(x), x.apply.runs, NEW domain,
           NEW z, z = [Ended(x) EXCEPT !.inPlace.domain = domain],
           NEW v, v = Fails(z, x.apply.generation), NEW y, y = Arms(v, AttemptsIn(x.apply.links))
    PROVE  From(x, y)
<1>1. From(x, x) /\ IsDriver(x) /\ Verifies(x, {}, "none", 0) /\ Apart(x, x) /\ Rest(x)
  BY FromSelf, FromDriver DEF Apart
<1>2. CommandTyped(x) /\ x.scanning = x.scans /\ Descends(x.sel, x.sel)
  BY <1>1 DEF Rest, CommandIs, Apart
<1>3. PICK q : q = Over(x.pending)
  OBVIOUS
<1>4. PICK i : i = [x.inPlace EXCEPT !.domain = domain]
  OBVIOUS
<1>5. z = EndPut(x, q, i)
  <2>1. z = [Ended(x) EXCEPT !.inPlace = i]
    BY <1>1, <1>4, EndedDomain
  <2>2. [Ended(x) EXCEPT !.inPlace = i] = EndPut(x, q, i)
    BY <1>1, <1>3, EndedPut
  <2> QED
    BY <2>1, <2>2
<1>6. IsEnded(x, z, q, i)
  BY <1>1, <1>5, EndPuts
<1>7. IsPending(q) /\ q.kind = x.pending.kind
  BY <1>2, <1>3, PendingOver DEF CommandTyped
<1>8. IsApply(i)
  BY <1>2, <1>4, ApplyDomain DEF CommandTyped
<1>9. PICK S : S = AttemptsIn(x.apply.links)
  OBVIOUS
<1>10. IsOver(x, z, S)
  BY <1>1, <1>6, <1>7, <1>8, <1>9, EndedIs
<1>11. RestTyped(z)
  BY <1>10 DEF IsOver, RestTyped
<1>12. PICK why : why = "unarmed"
  OBVIOUS
<1>13. PICK b : b = 0
  OBVIOUS
<1>14. Verifies(z, S, why, b)
  BY <1>10, <1>12, <1>13 DEF IsOver
<1>15. PICK said : said = "failed"
  OBVIOUS
<1>16. PICK render : render = x.apply.generation
  OBVIOUS
<1>17. v = Says(z, said, render)
  BY <1>15, <1>16 DEF Fails
<1>18. /\ Verifies(v, S, why, b) /\ Rest(v) /\ SameChecks(z, v) /\ Unmoved(z, v)
       /\ v.wants = z.wants /\ v.apply = z.apply /\ v.hotspotScanning = z.hotspotScanning
       /\ v.pending.kind = "none"
       /\ \A g \in 1..MaxCommands : v.answers[g].is = z.answers[g].is
            \/ (g = z.pending.generation /\ v.answers[g].is = said /\ z.pending.kind # "none")
  <2>1. IsAnswered(z, v, S, why, b, said)
    BY <1>11, <1>14, <1>17, SaysAnswered
  <2> QED
    BY <2>1 DEF IsAnswered
<1>19. Owes(x, v)
  <2>1. z.answers = x.answers
    BY <1>6 DEF IsEnded
  <2> QED
    BY <1>15, <1>18, <2>1 DEF Owes
<1>20. Apart(x, v)
  BY <1>2, <1>6, <1>18, <1>19 DEF Apart, IsEnded, SameChecks, Unmoved
<1>21. PICK links : links = x.apply.links
  OBVIOUS
<1>22. S = AttemptsIn(links) /\ y = Arms(v, S) /\ Verifies(v, S, "unarmed", 0)
  BY <1>9, <1>12, <1>13, <1>18, <1>21
<1> QED
  BY <1>20, <1>22, ArmedFrom
-----------------------------------------------------------------------------
\* A document taken: what is carried over keeps its check.
Reaches(s, u) ==
    /\ InHand(u) /\ Numbered(u) /\ s.next <= u.next /\ Descends(s, u)
    /\ \A i \in Interfaces : u.held[i].candidate # 0 =>
         \/ u.held[i].attempt \in (s.next + 1)..u.next /\ u.held[i].at \in {Association, Addressing}
         \/ /\ s.held[i].candidate # 0 /\ u.held[i].attempt = s.held[i].attempt /\ u.held[i].at = s.held[i].at

LEMMA ConfigureReaches ==
    ASSUME NEW s, InHand(s), Numbered(s), NEW doc \in Configurations, NEW u, u = Configure(s, doc)
    PROVE  Reaches(s, u)
<1>1. Checked(doc)
  BY DriverAssumption, ConfigurationsAssumption DEF Checked, Docs
<1>2. CASE doc = s.doc
  <2>1. u = s
    BY <1>2 DEF Configure
  <2>2. Descends(s, s) /\ s.next \in Nat
    BY DescendsSelf DEF InHand, Selectors
  <2> QED
    BY <2>1, <2>2 DEF Reaches
<1>3. CASE doc # s.doc
  <2>1. PICK t : InHand(t) /\ t.doc = doc /\ CarriesOver(s, t) /\ u = Settle(t)
    BY <1>1, <1>3, ConfigureSettles
  <2>2. Numbered(t)
    BY <2>1, CarriedNumbers
  <2>3. InHand(u) /\ Numbered(u) /\ SettlesTo(t, u)
    BY <2>1, <2>2, SettleNumbers
  <2>4. Descends(s, u)
    BY <2>1, <2>3, CarriedDescends
  <2>5. t.next = s.next /\ s.next <= u.next
    BY <2>1, <2>3 DEF CarriesOver, SettlesTo
  <2>6. ASSUME NEW i \in Interfaces, u.held[i].candidate # 0
        PROVE  \/ u.held[i].attempt \in (s.next + 1)..u.next /\ u.held[i].at \in {Association, Addressing}
               \/ /\ s.held[i].candidate # 0 /\ u.held[i].attempt = s.held[i].attempt /\ u.held[i].at = s.held[i].at
    <3>1. CASE IsBegun(t, u, i)
      BY <2>5, <3>1 DEF IsBegun
    <3>2. CASE u.held[i] = t.held[i]
      BY <2>1, <2>6, <3>2 DEF CarriesOver
    <3> QED
      BY <2>3, <2>6, <3>1, <3>2 DEF SettlesTo
  <2> QED
    BY <2>3, <2>4, <2>5, <2>6 DEF Reaches
<1> QED
  BY <1>2, <1>3

\* A check under another rank.
RankSet(c, n) == [c EXCEPT !.candidate = n]
LEMMA RankIs ==
    ASSUME NEW c, IsCheck(c), NEW n, NEW e, e = RankSet(c, n)
    PROVE  /\ IsCheck(e)
           /\ e.candidate = n /\ e.on = c.on /\ e.at = c.at /\ e.armed = c.armed
           /\ e.awaits = c.awaits /\ e.probing = c.probing /\ e.timer = c.timer
<1>1. {c.armed, c.awaits, c.probing} \subseteq BOOLEAN /\ c.on \in Interfaces
      /\ c.at \in Association..Established /\ c.timer \in Nat
  BY DEF IsCheck
<1>2. c = [f \in CheckFields |-> c[f]]
  BY DEF IsCheck
<1>3. /\ e.candidate = n /\ e.on = c.on /\ e.at = c.at /\ e.armed = c.armed
      /\ e.awaits = c.awaits /\ e.probing = c.probing /\ e.timer = c.timer
      /\ e = [f \in CheckFields |-> e[f]]
  BY <1>2 DEF CheckFields, RankSet
<1>4. {e.armed, e.awaits, e.probing} \subseteq BOOLEAN
  BY <1>1, <1>3
<1>5. IsCheck(e)
  BY <1>1, <1>3, <1>4 DEF IsCheck
<1> QED
  BY <1>3, <1>5

SameCheck(c, e) ==
    /\ IsCheck(e) /\ e.on = c.on /\ e.at = c.at /\ e.armed = c.armed
    /\ e.awaits = c.awaits /\ e.probing = c.probing /\ e.timer = c.timer

IsRanked(x, new, h) ==
    /\ h = [a \in DOMAIN h |-> h[a]]
    /\ DOMAIN h = DOMAIN x.checks \cap Attempts(new)
    /\ \A a \in DOMAIN h : SameCheck(x.checks[a], h[a])
    /\ \A i \in Interfaces : (new.held[i].candidate # 0 /\ new.held[i].attempt \in DOMAIN h) =>
         h[new.held[i].attempt].candidate = new.held[i].candidate

LEMMA RerankedIs ==
    ASSUME NEW x, ChecksAre(x), NEW new, Numbered(new), NEW h, h = Reranked(x, new)
    PROVE  IsRanked(x, new, h)
<1> DEFINE E(a) == RankSet(x.checks[a], new.held[CHOOSE i \in On(new, a) : TRUE].candidate)
<1>1. h = [a \in DOMAIN x.checks \cap Attempts(new) |-> E(a)]
  BY DEF Reranked, RankSet
<1>2. ASSUME NEW a \in DOMAIN x.checks \cap Attempts(new) PROVE SameCheck(x.checks[a], E(a))
  <2>1. PICK c : c = x.checks[a]
    OBVIOUS
  <2>2. PICK n : n = new.held[CHOOSE i \in On(new, a) : TRUE].candidate
    OBVIOUS
  <2>3. PICK e : e = RankSet(c, n)
    OBVIOUS
  <2>4. IsCheck(c)
    BY <2>1 DEF ChecksAre
  <2>5. SameCheck(c, e)
    BY <2>3, <2>4, RankIs DEF SameCheck
  <2> QED
    BY <2>1, <2>2, <2>3, <2>5
<1>3. ASSUME NEW i \in Interfaces, new.held[i].candidate # 0, new.held[i].attempt \in DOMAIN x.checks
      PROVE  E(new.held[i].attempt).candidate = new.held[i].candidate
  <2>1. PICK a : a = new.held[i].attempt
    OBVIOUS
  <2>2. On(new, a) = {i}
    BY <1>3, <2>1, HeldOnce
  <2>3. (CHOOSE j \in On(new, a) : TRUE) = i
    BY <2>2
  <2>4. PICK c : c = x.checks[a]
    OBVIOUS
  <2>5. IsCheck(c)
    BY <1>3, <2>1, <2>4 DEF ChecksAre
  <2>6. PICK n : n = new.held[i].candidate
    OBVIOUS
  <2>7. RankSet(c, n).candidate = n
    BY <2>5, RankIs
  <2>8. E(a) = RankSet(c, n)
    BY <2>3, <2>4, <2>6
  <2> QED
    BY <2>1, <2>6, <2>7, <2>8
<1> HIDE DEF E
<1>4. DOMAIN h = DOMAIN x.checks \cap Attempts(new) /\ \A a \in DOMAIN x.checks \cap Attempts(new) : h[a] = E(a)
  BY <1>1
<1>5. h = [a \in DOMAIN h |-> h[a]]
  BY <1>1
<1>6. \A a \in DOMAIN h : SameCheck(x.checks[a], h[a])
  BY <1>2, <1>4
<1>7. \A i \in Interfaces : (new.held[i].candidate # 0 /\ new.held[i].attempt \in DOMAIN h) =>
         h[new.held[i].attempt].candidate = new.held[i].candidate
  BY <1>3, <1>4
<1> QED
  BY <1>4, <1>5, <1>6, <1>7 DEF IsRanked
-----------------------------------------------------------------------------
LEMMA RankedCarries ==
    ASSUME NEW x, Working(x), Follows(x.checks, x.sel), NEW new, Reaches(x.sel, new), NEW h, IsRanked(x, new, h)
    PROVE  Carries(h, x.sel, new)
<1>1. PICK s : s = x.sel
  OBVIOUS
<1>2. InHand(s) /\ Numbered(s) /\ s.next \in Nat /\ new.next \in Nat
  BY <1>1 DEF Working, InHand, Selectors, Reaches
<1>3. \A a \in DOMAIN h : a \in Attempts(new) /\ a \in DOMAIN x.checks
  BY DEF IsRanked
<1>4. ASSUME NEW i \in Interfaces, new.held[i].candidate # 0
      PROVE  IF new.held[i].attempt \in DOMAIN h THEN IsOf(h[new.held[i].attempt], new, i)
             ELSE /\ i \in Moved(s, new) /\ new.held[i].attempt \notin 0..s.next
                  /\ new.held[i].at \in {Association, Addressing}
  <2>1. PICK a : a = new.held[i].attempt
    OBVIOUS
  <2>2. a \in Attempts(new)
    BY <1>4, <2>1, HeldIsAttempt
  <2>3. CASE a \in (s.next + 1)..new.next /\ new.held[i].at \in {Association, Addressing}
    <3>1. a \notin 0..s.next
      BY <1>2, <2>3
    <3>2. a \notin DOMAIN h
      <4>1. SUFFICES ASSUME a \in DOMAIN h PROVE FALSE
        OBVIOUS
      <4>2. PICK j \in Interfaces : s.held[j].candidate # 0 /\ s.held[j].attempt = a
        BY <1>1, <1>3, <4>1, AttemptsAre DEF Follows
      <4>3. a \in 1..s.next
        BY <1>2, <4>2 DEF Numbered, IsAttempt
      <4> QED
        BY <1>2, <3>1, <4>3
    <3>3. i \in Moved(s, new)
      <4>1. SUFFICES ASSUME i \notin Moved(s, new) PROVE FALSE
        OBVIOUS
      <4>2. s.held[i].candidate # 0 /\ s.held[i].attempt = a
        BY <1>4, <2>1, <4>1 DEF Moved
      <4>3. a \in 1..s.next
        BY <1>2, <4>2 DEF Numbered, IsAttempt
      <4> QED
        BY <1>2, <3>1, <4>3
    <3> QED
      BY <2>1, <2>3, <3>1, <3>2, <3>3
  <2>4. CASE s.held[i].candidate # 0 /\ a = s.held[i].attempt /\ new.held[i].at = s.held[i].at
    <3>1. a \in DOMAIN x.checks /\ IsOf(x.checks[a], s, i)
      BY <1>1, <2>4, HeldIsAttempt DEF Follows
    <3>2. a \in DOMAIN h
      BY <2>2, <3>1 DEF IsRanked
    <3>3. h[a].candidate = new.held[i].candidate
      BY <1>4, <2>1, <3>2 DEF IsRanked
    <3>4. h[a].on = x.checks[a].on /\ h[a].at = x.checks[a].at
      BY <3>2 DEF IsRanked, SameCheck
    <3>5. IsOf(h[a], new, i)
      BY <2>4, <3>1, <3>3, <3>4 DEF IsOf
    <3> QED
      BY <2>1, <3>2, <3>5
  <2> QED
    BY <1>1, <1>4, <2>1, <2>3, <2>4 DEF Reaches
<1> QED
  BY <1>1, <1>3, <1>4 DEF Carries

ConfigPut(x, g, f, p, h, l) ==
    [x EXCEPT !.configured = TRUE, !.generation = g, !.failed = f, !.placed = p, !.wants = TRUE,
              !.checks = h, !.last = l]
IsConfigured(x, y, g, h) ==
    /\ IsDriver(y) /\ SameOut(x, y) /\ y.sel = x.sel /\ y.checks = h /\ y.wants /\ y.configured /\ y.generation = g
    /\ y.stations = x.stations /\ y.rejoins = x.rejoins
    /\ y.apply = x.apply /\ y.inPlace = x.inPlace /\ y.scanning = x.scanning /\ y.scans = x.scans
    /\ y.pending = x.pending /\ y.answers = x.answers
    /\ y.waits = x.waits /\ y.looks = x.looks /\ y.sweeps = x.sweeps /\ y.swept = x.swept
LEMMA ConfigPuts ==
    ASSUME NEW x, IsDriver(x), NEW g, NEW f, NEW p, NEW h, NEW l, NEW y, y = ConfigPut(x, g, f, p, h, l)
    PROVE  IsConfigured(x, y, g, h)
<1> USE DEF ConfigPut
<1>1. IsDriver(y)
  BY Zenon DEF IsDriver, Fields
<1>2. SameOut(x, y)
  BY DEF IsDriver, Fields, SameOut
<1>3. /\ y.sel = x.sel /\ y.checks = h /\ y.wants /\ y.configured /\ y.generation = g
      /\ y.stations = x.stations /\ y.rejoins = x.rejoins
  BY DEF IsDriver, Fields
<1>4. /\ y.apply = x.apply /\ y.inPlace = x.inPlace /\ y.scanning = x.scanning /\ y.scans = x.scans
      /\ y.pending = x.pending /\ y.answers = x.answers
      /\ y.waits = x.waits /\ y.looks = x.looks /\ y.sweeps = x.sweeps /\ y.swept = x.swept
  BY DEF IsDriver, Fields
<1> QED
  BY <1>1, <1>2, <1>3, <1>4 DEF IsConfigured

LEMMA ConfiguredWorking ==
    ASSUME NEW x, Verifies(x, {}, "none", 0), NEW new, NEW h, IsRanked(x, new, h), NEW g, NEW y, IsConfigured(x, y, g, h)
    PROVE  Working(y) /\ AllStand(y, {}, "none", 0)
<1>1. Working(x) /\ Follows(x.checks, x.sel) /\ AllStand(x, {}, "none", 0)
  BY DEF Verifies
<1>2. /\ IsDriver(y) /\ SameOut(x, y) /\ y.sel = x.sel /\ y.checks = h /\ y.wants
      /\ y.stations = x.stations /\ y.rejoins = x.rejoins /\ y.scanning = x.scanning /\ y.apply = x.apply
  BY DEF IsConfigured
<1>3. \A a \in DOMAIN h : /\ a \in DOMAIN x.checks
        /\ IsCheck(h[a]) /\ h[a].on = x.checks[a].on /\ h[a].at = x.checks[a].at /\ h[a].armed = x.checks[a].armed
        /\ h[a].awaits = x.checks[a].awaits /\ h[a].probing = x.checks[a].probing /\ h[a].timer = x.checks[a].timer
  BY DEF IsRanked, SameCheck
<1>4. ChecksAre(y)
  BY <1>2, <1>3 DEF ChecksAre, IsRanked
<1>5. Timed(y)
  BY <1>1, <1>2, <1>3 DEF Working, Timed, SameOut
<1>6. ProbesAre(y)
  BY <1>1, <1>2, <1>3 DEF Working, ProbesAre, SameOut
<1>7. Unarmed(y)
  BY <1>1, <1>2, <1>3 DEF Working, Unarmed
<1>8. StationsAre(y)
  BY <1>1, <1>2, <1>3 DEF Working, StationsAre
<1>9. Working(y)
  BY <1>1, <1>2, <1>4, <1>5, <1>6, <1>7, <1>8 DEF Working
<1>10. ASSUME NEW a \in DOMAIN h PROVE Stands(y, a)
  <2>1. Stands(x, a)
    BY <1>1, <1>3 DEF AllStand, Excused
  <2>2. /\ a \in DOMAIN x.checks /\ h[a].on = x.checks[a].on /\ h[a].at = x.checks[a].at /\ h[a].armed = x.checks[a].armed
        /\ h[a].awaits = x.checks[a].awaits /\ h[a].probing = x.checks[a].probing /\ h[a].timer = x.checks[a].timer
    BY <1>3
  <2> QED
    BY <1>2, <2>1, <2>2 DEF Stands, SameOut
<1> QED
  BY <1>2, <1>9, <1>10 DEF AllStand
-----------------------------------------------------------------------------
\* A command taken: its document configured, and what waited overtaken.
IsFollowed(x, y, g, new) ==
    /\ Verifies(y, {}, "none", 0) /\ y.sel = new /\ y.wants /\ y.configured /\ y.generation = g
    /\ y.apply = x.apply /\ y.inPlace = x.inPlace /\ y.scanning = x.scanning /\ y.scans = x.scans
    /\ y.pending = x.pending /\ y.answers = x.answers
    /\ y.waits = x.waits /\ y.looks = x.looks /\ y.sweeps = x.sweeps /\ y.swept = x.swept
    /\ y.hotspotScanning = x.hotspotScanning

LEMMA ConfigurePuts ==
    ASSUME NEW x, IsDriver(x), NEW doc, NEW new
    PROVE  \E f, p, l, said : LET z == ConfigPut(x, x.generation + 1, f, p, Reranked(x, new), l) IN
             ConfigureWith(x, doc, new) = Follow(z, new, said) /\ z.hotspotScanning = x.hotspotScanning
<1> DEFINE last == [i \in Interfaces |->
                         IF x.last[i].was = NoCandidate \/ StillBroughtUp(doc, x.last[i].was) THEN x.last[i]
                         ELSE [x.last[i] EXCEPT !.was = NoCandidate]]
           placed == [n \in DOMAIN doc.attachments |-> "none"]
           told == IF doc = x.sel.doc THEN {} ELSE Ranks(new)
<1>1. PICK h, g : h = Reranked(x, new) /\ g = x.generation + 1
  OBVIOUS
<1>2. PICK l, p, said : l = last /\ p = placed /\ said = told
  OBVIOUS
<1>3. PICK f : f = {}
  BY Zenon
<1>4. PICK z : z = ConfigPut(x, g, f, p, h, l)
  OBVIOUS
<1>5. ConfigureWith(x, doc, new) = Follow(z, new, said)
  BY <1>1, <1>2, <1>3, <1>4 DEF ConfigureWith, ConfigPut
<1> HIDE DEF last, placed, told
<1>6. z.hotspotScanning = x.hotspotScanning
  BY <1>4 DEF ConfigPut, IsDriver, Fields
<1> QED
  BY <1>1, <1>4, <1>5, <1>6

LEMMA ConfigureStep ==
    ASSUME NEW x, Verifies(x, {}, "none", 0), NEW doc \in Configurations, NEW new, new = Configure(x.sel, doc),
           NEW g, g = x.generation + 1, NEW y, y = ConfigureDriver(x, doc)
    PROVE  IsFollowed(x, y, g, new)
<1>1. Working(x) /\ Follows(x.checks, x.sel) /\ IsDriver(x) /\ ChecksAre(x) /\ InHand(x.sel) /\ Numbered(x.sel)
  BY DEF Verifies, Working
<1>2. PICK s : s = x.sel
  OBVIOUS
<1>3. Reaches(s, new)
  BY <1>1, <1>2, ConfigureReaches
<1>4. InHand(new) /\ Numbered(new) /\ s.next <= new.next
  BY <1>3 DEF Reaches
<1>5. PICK h : h = Reranked(x, new)
  OBVIOUS
<1>6. IsRanked(x, new, h)
  BY <1>1, <1>4, <1>5, RerankedIs
<1>7. Carries(h, s, new)
  BY <1>1, <1>2, <1>3, <1>6, RankedCarries
<1>8. PICK f, p, l, said, z : /\ z = ConfigPut(x, g, f, p, h, l) /\ ConfigureWith(x, doc, new) = Follow(z, new, said)
                              /\ z.hotspotScanning = x.hotspotScanning
  BY <1>1, <1>5, ConfigurePuts
<1>9. y = Follow(z, new, said)
  BY <1>8 DEF ConfigureDriver
<1>10. IsConfigured(x, z, g, h)
  BY <1>1, <1>8, ConfigPuts
<1>11. Working(z) /\ AllStand(z, {}, "none", 0)
  BY <1>6, <1>10, ConfiguredWorking
<1>12. z.sel = s /\ z.checks = h /\ z.wants
  BY <1>2, <1>10 DEF IsConfigured
<1>13. /\ Verifies(y, {}, "none", 0) /\ SameOthers(z, y) /\ y.sel = new /\ (z.wants => y.wants)
  <2>1. PICK S, why, b : S = {} /\ why = "none" /\ b = 0
    OBVIOUS
  <2>2. AllStand(z, S, why, b) /\ z.sel.next <= new.next /\ Carries(z.checks, z.sel, new)
    BY <1>4, <1>7, <1>11, <1>12, <2>1
  <2>3. Verifies(y, S, why, b) /\ SameOthers(z, y) /\ y.sel = new /\ (z.wants => y.wants)
    BY <1>4, <1>9, <1>11, <2>2, FollowVerifies
  <2> QED
    BY <2>1, <2>3
<1>14. /\ y.configured /\ y.generation = g /\ y.apply = x.apply /\ y.inPlace = x.inPlace
       /\ y.scanning = x.scanning /\ y.scans = x.scans /\ y.pending = x.pending /\ y.answers = x.answers
       /\ y.waits = x.waits /\ y.looks = x.looks /\ y.sweeps = x.sweeps /\ y.swept = x.swept
       /\ y.hotspotScanning = x.hotspotScanning
  BY <1>8, <1>10, <1>13 DEF SameOthers, IsConfigured
<1> QED
  BY <1>12, <1>13, <1>14 DEF IsFollowed

Command(kind, g, changed) == [kind |-> kind, generation |-> g, changed |-> changed, render |-> "wanted"]
LEMMA CommandIsPending ==
    ASSUME NEW kind \in {"apply", "restore"}, NEW g, NEW changed, NEW p, p = Command(kind, g, changed)
    PROVE  IsPending(p) /\ p.kind = kind /\ p.generation = g /\ p.render = "wanted"
BY DEF IsPending, PendingFields, Command

LEMMA CommandAction ==
    ASSUME NEW x, DriverHolds(x), TurnEnds(x), NEW doc \in Configurations, NEW kind \in {"apply", "restore"}, NEW changed,
           NEW y, y = Overtakes(kind, changed, ConfigureDriver(x, doc))
    PROVE  From(x, y)
<1>1. Verifies(x, {}, "none", 0) /\ Rest(x) /\ x.scanning = x.scans
  BY DEF DriverHolds, TurnEnds
<1>2. PICK new, g, z : new = Configure(x.sel, doc) /\ g = x.generation + 1 /\ z = ConfigureDriver(x, doc)
  OBVIOUS
<1>3. IsFollowed(x, z, g, new)
  BY <1>1, <1>2, ConfigureStep
<1>4. /\ Verifies(z, {}, "none", 0) /\ z.sel = new /\ z.wants /\ z.configured /\ z.generation = g
      /\ z.apply = x.apply /\ z.inPlace = x.inPlace /\ z.scanning = x.scanning /\ z.scans = x.scans
      /\ z.pending = x.pending /\ z.answers = x.answers
      /\ z.waits = x.waits /\ z.looks = x.looks /\ z.sweeps = x.sweeps /\ z.swept = x.swept
      /\ z.hotspotScanning = x.hotspotScanning
  BY <1>3 DEF IsFollowed
<1>5. PICK p : p = Command(kind, g, changed)
  OBVIOUS
<1>6. IsPending(p) /\ p.kind = kind /\ p.generation = g /\ p.render = "wanted"
  BY <1>5, CommandIsPending
<1>7. PICK a : a = x.answers
  OBVIOUS
<1>8. a = [n \in 1..MaxCommands |-> a[n]]
  BY <1>1, <1>7 DEF Rest, CommandIs, CommandTyped
<1>9. PICK ans : ans = IF x.pending.kind = "none" THEN a
                       ELSE [a EXCEPT ![x.pending.generation] = [is |-> "dropped", render |-> 0]]
  OBVIOUS
<1>10. ans = [n \in 1..MaxCommands |-> ans[n]]
  BY <1>8, <1>9
<1>11. \A n \in 1..MaxCommands : ans[n].is = "ok" => a[n].is = "ok"
  <2>1. TAKE n \in 1..MaxCommands
  <2>2. CASE ans = a
    BY <2>2
  <2>3. CASE ans = [a EXCEPT ![x.pending.generation] = [is |-> "dropped", render |-> 0]]
    <3>1. CASE n = x.pending.generation
      <4>1. ans[n] = [is |-> "dropped", render |-> 0]
        BY <1>8, <2>3, <3>1
      <4>2. ans[n].is = "dropped"
        BY <4>1
      <4> QED
        BY <4>2
    <3>2. CASE n # x.pending.generation
      <4>1. ans[n] = a[n]
        BY <1>8, <2>3, <3>2
      <4> QED
        BY <4>1
    <3> QED
      BY <3>1, <3>2
  <2> QED
    BY <1>9, <2>2, <2>3
<1>12. y = SaysPut(z, p, ans)
  BY <1>2, <1>4, <1>5, <1>7, <1>9 DEF Overtakes, Command, SaysPut
<1>13. IsDriver(z)
  BY <1>4 DEF Verifies, Working
<1>14. IsSaid(z, y, p, ans)
  BY <1>12, <1>13, SaysPuts
<1>15. /\ IsDriver(y) /\ SameChecks(z, y) /\ Unmoved(z, y)
       /\ y.wants = z.wants /\ y.apply = z.apply /\ y.hotspotScanning = z.hotspotScanning
       /\ y.pending = p /\ y.answers = ans
  BY <1>14 DEF IsSaid
<1>16. Verifies(y, {}, "none", 0)
  <2>1. WaitsOn(z, y)
    BY <1>15 DEF WaitsOn, Unmoved
  <2> QED
    BY <1>4, <1>15, <2>1, SameVerifies
<1>17. CountsAre(y) /\ SweepsAre(y)
  <2>1. /\ y.scanning = x.scanning /\ y.scans = x.scans
        /\ y.waits = x.waits /\ y.looks = x.looks /\ y.sweeps = x.sweeps /\ y.swept = x.swept
    BY <1>4, <1>15 DEF Unmoved
  <2> QED
    BY <1>1, <2>1 DEF Rest, CountsAre, SweepsAre, LooksAre
<1>18. CommandIs(y)
  <2>1. y.generation = g /\ y.configured /\ y.inPlace = x.inPlace /\ y.apply = x.apply /\ y.wants
    BY <1>4, <1>15 DEF Unmoved
  <2>2. g \in Nat /\ IsApply(x.apply) /\ IsApply(x.inPlace)
    BY <1>1, <1>2 DEF Rest, CommandIs, CommandTyped
  <2>3. CommandTyped(y)
    BY <1>6, <1>10, <1>15, <2>1, <2>2 DEF CommandTyped
  <2>4. Underway(y)
    BY <1>6, <1>15, <2>1 DEF Underway
  <2> QED
    BY <2>3, <2>4 DEF CommandIs
<1>19. HotspotIs(y)
  <2>1. y.scanning = x.scanning /\ y.wants /\ y.hotspotScanning = x.hotspotScanning
    BY <1>4, <1>15 DEF Unmoved
  <2> QED
    BY <1>1, <2>1 DEF Rest, HotspotIs
<1>20. y.scanning = y.scans
  BY <1>1, <1>4, <1>15 DEF Unmoved
<1>21. Descends(x.sel, y.sel)
  <2>1. PICK s : s = x.sel
    OBVIOUS
  <2>2. InHand(s) /\ Numbered(s)
    BY <1>1, <2>1 DEF Verifies, Working
  <2>3. Reaches(s, new)
    BY <1>2, <2>1, <2>2, ConfigureReaches
  <2> QED
    BY <1>4, <1>15, <2>1, <2>3 DEF Reaches, SameChecks
<1>22. Owes(x, y)
  BY <1>6, <1>7, <1>11, <1>15 DEF Owes
<1>23. Apart(x, y)
  BY <1>17, <1>18, <1>19, <1>20, <1>21, <1>22 DEF Apart, Rest
<1> QED
  BY <1>16, <1>23 DEF From

LEMMA ProposalAction ==
    ASSUME NEW x, DriverHolds(x), TurnEnds(x), NEW doc \in Configurations, NEW changed,
           NEW y, y = ScanForPending(Overtakes("apply", changed, ConfigureDriver(x, doc)))
    PROVE  From(x, y)
<1>1. PICK kind \in {"apply", "restore"} : kind = "apply"
  OBVIOUS
<1>2. PICK z : z = Overtakes(kind, changed, ConfigureDriver(x, doc))
  OBVIOUS
<1>3. From(x, z)
  BY <1>2, CommandAction
<1>4. PICK S, why, b : S = {} /\ why = "none" /\ b = 0
  OBVIOUS
<1>5. Verifies(z, S, why, b) /\ Apart(x, z) /\ y = ScanForPending(z)
  BY <1>1, <1>2, <1>3, <1>4, FromDriver
<1>6. IsScanned(x, y, S, why, b)
  BY <1>5, ScanStep
<1> QED
  BY <1>4, <1>6 DEF IsScanned, From
-----------------------------------------------------------------------------
\* Each step of the driver is a turn from what is within the step.
Advances == \E y : From(d, y) /\ d' = Turn(y)

LEMMA Advancing == ASSUME NEW y, From(d, y), Becomes(y) PROVE Advances
BY DEF Becomes, Advances

LEMMA CommandsAdvance ==
    ASSUME DriverHolds(d), TurnEnds(d), Commands
    PROVE  Advances
<1>1. PICK doc \in Configurations : Restores(doc) \/ \E replacing : Applies(doc, replacing)
  BY DEF Commands
<1>2. CASE Restores(doc)
  <2>1. PICK y : y = Overtakes("restore", {}, ConfigureDriver(d, doc))
    OBVIOUS
  <2>2. From(d, y)
    BY <2>1, CommandAction
  <2>3. Becomes(y)
    BY <1>2, <2>1 DEF Restores
  <2> QED
    BY <2>2, <2>3, Advancing
<1>3. CASE \E replacing : Applies(doc, replacing)
  <2>1. PICK replacing : Applies(doc, replacing)
    BY <1>3
  <2>2. PICK changed : changed = Changed(replacing, doc)
    OBVIOUS
  <2>3. PICK y : y = ScanForPending(Overtakes("apply", changed, ConfigureDriver(d, doc)))
    OBVIOUS
  <2>4. From(d, y)
    BY <2>3, ProposalAction
  <2>5. Becomes(y)
    BY <2>1, <2>2, <2>3 DEF Applies
  <2> QED
    BY <2>4, <2>5, Advancing
<1> QED
  BY <1>1, <1>2, <1>3

LEMMA CarrierAdvances ==
    ASSUME DriverHolds(d), TurnEnds(d), NEW i \in WiredSet, NEW up, SeesCarrier(i, up)
    PROVE  Advances
<1>1. PICK y : y = Feed(d, IF up THEN CarrierUp(d.sel, i) ELSE CarrierDown(d.sel, i))
  OBVIOUS
<1>2. From(d, y)
  BY <1>1, CarrierAction
<1>3. Becomes(y)
  BY <1>1 DEF SeesCarrier
<1> QED
  BY <1>2, <1>3, Advancing

LEMMA LinkAdvances ==
    ASSUME DriverHolds(d), TurnEnds(d), NEW i \in Interfaces, NEW thing, NEW present, SeesOnLink(i, thing, present)
    PROVE  Advances
<1> DEFINE put == [d.links EXCEPT ![i] = IF present THEN @ \cup {thing} ELSE @ \ {thing}]
<1>1. PICK on : on = {a \in DOMAIN d.checks : d.checks[a].on = i}
  OBVIOUS
<1>2. PICK h : h = Announced(d, on, present, thing)
  OBVIOUS
<1>3. PICK l : l = put
  OBVIOUS
<1>4. PICK z : z = LinkPut(d, l, h)
  OBVIOUS
<1>5. PICK y : y = Folds("evaluates", 0, z, on)
  OBVIOUS
<1>6. From(d, y)
  <2>1. on \subseteq DOMAIN d.checks
    BY <1>1
  <2> QED
    BY <1>2, <1>4, <1>5, <2>1, OnLinkAction
<1>7. Becomes(FoldSet(LAMBDA a, v : Evaluate(v, a), z, on))
  BY <1>1, <1>2, <1>3, <1>4, Zenon DEF SeesOnLink, Announced, LinkPut
<1>8. Becomes(y)
  BY <1>5, <1>7, EvaluatesFold, Zenon DEF Becomes
<1> QED
  BY <1>6, <1>8, Advancing

LEMMA HearsAdvances ==
    ASSUME DriverHolds(d), TurnEnds(d), NEW r \in RadioSet, NEW ssids \in SUBSET Ssids, Hears(r, ssids)
    PROVE  Advances
<1>1. PICK y : y = Heard(d, r, ssids, FALSE)
  OBVIOUS
<1>2. From(d, y)
  BY <1>1, HearsAction
<1>3. Becomes(y)
  BY <1>1 DEF Hears
<1> QED
  BY <1>2, <1>3, Advancing

LEMMA StationAdvances ==
    ASSUME DriverHolds(d), TurnEnds(d), NEW r \in RadioSet, NEW station \in Stations, SeesStation(r, station)
    PROVE  Advances
<1>1. station.channel \in Channels \cup {"none"}
  BY DEF Stations, NotConnected
<1>2. PICK z : z = [d EXCEPT !.stations[r] = station]
  OBVIOUS
<1>3. PICK on : on = {a \in DOMAIN d.checks : d.checks[a].on = r /\ d.checks[a].armed /\ d.checks[a].at > Association}
  OBVIOUS
<1>4. PICK a : a = CHOOSE b \in on : TRUE
  OBVIOUS
<1>5. on # {} => a \in DOMAIN d.checks /\ d.checks[a].on = r
  BY <1>3, <1>4
<1>6. PICK joined : joined = (station.ssid = Of(d, d.checks[a]).ssid)
  OBVIOUS
<1>7. PICK away : away = (station = NotConnected)
  OBVIOUS
<1>8. PICK y : y = IF on = {} THEN z
                   ELSE IF joined THEN TakesChannel(z, r, station.channel)
                   ELSE IF ~away THEN z
                   ELSE IF d.bounce = r THEN Knocked(z, a)
                   ELSE Failed(z, a, Association)
  OBVIOUS
<1>9. From(d, y)
  BY <1>1, <1>2, <1>5, <1>8, StationAction
<1>10. IF on = {} THEN Becomes(z)
       ELSE IF joined THEN Becomes(TakesChannel(z, r, station.channel))
       ELSE IF ~away THEN Becomes(z)
       ELSE IF d.bounce = r THEN Becomes(Knocked(z, a))
       ELSE Becomes(Failed(z, a, Association))
  BY <1>2, <1>3, <1>4, <1>6, <1>7 DEF SeesStation, Knocked
<1>11. Becomes(y)
  BY <1>8, <1>10 DEF Becomes
<1> QED
  BY <1>9, <1>11, Advancing

LEMMA RegulatoryAdvances ==
    ASSUME DriverHolds(d), TurnEnds(d), SeesRegulatory \/ Reprobed
    PROVE  Advances
<1>1. CASE SeesRegulatory
  <2>1. PICK y : y = (IF d.reprobing THEN [d EXCEPT !.again = TRUE] ELSE [d EXCEPT !.reprobing = TRUE])
    OBVIOUS
  <2>2. From(d, y)
    BY <2>1, ReprobedStep, Zenon
  <2>3. Becomes(y)
    BY <1>1, <2>1 DEF SeesRegulatory
  <2> QED
    BY <2>2, <2>3, Advancing
<1>2. CASE Reprobed
  <2>1. PICK y : y = [d EXCEPT !.again = FALSE, !.reprobing = d.again]
    OBVIOUS
  <2>2. From(d, y)
    BY <2>1, ReprobedStep, Zenon
  <2>3. Becomes(y)
    BY <1>2, <2>1 DEF Reprobed
  <2> QED
    BY <2>2, <2>3, Advancing
<1> QED
  BY <1>1, <1>2

LEMMA ObservesAdvances ==
    ASSUME DriverHolds(d), TurnEnds(d), Observes
    PROVE  Advances
<1>1. CASE \E i \in WiredSet, up \in BOOLEAN : SeesCarrier(i, up)
  BY <1>1, CarrierAdvances
<1>2. CASE \E i \in Interfaces, present \in BOOLEAN : \E thing \in Sought(i) : SeesOnLink(i, thing, present)
  BY <1>2, LinkAdvances
<1>3. CASE \E r \in RadioSet, ssids \in SUBSET Ssids : Hears(r, ssids)
  BY <1>3, HearsAdvances
<1>4. CASE \E r \in RadioSet, station \in Stations : SeesStation(r, station)
  BY <1>4, StationAdvances
<1>5. CASE SeesRegulatory
  BY <1>5, RegulatoryAdvances
<1> QED
  BY <1>1, <1>2, <1>3, <1>4, <1>5 DEF Observes
-----------------------------------------------------------------------------
LEMMA AppliedAdvances ==
    ASSUME DriverHolds(d), TurnEnds(d), Applied
    PROVE  Advances
<1>1. PICK domain : domain = (d.apply.domain # d.inPlace.domain)
  OBVIOUS
<1>2. PICK z : z = [Ended(d) EXCEPT !.inPlace = [d.apply EXCEPT !.runs = FALSE]]
  OBVIOUS
<1>3. PICK v : v = Probes(z, domain)
  OBVIOUS
<1>4. PICK y : y = Arms(v, AttemptsIn(d.apply.links))
  OBVIOUS
<1>5. From(d, y)
  BY <1>2, <1>3, <1>4, AppliedAction DEF Applied
<1>6. Becomes(y)
  BY <1>1, <1>2, <1>3, <1>4 DEF Applied
<1> QED
  BY <1>5, <1>6, Advancing

LEMMA NotAppliedAdvances ==
    ASSUME DriverHolds(d), TurnEnds(d), NEW domain, NotApplied(domain)
    PROVE  Advances
<1>1. PICK z : z = [Ended(d) EXCEPT !.inPlace.domain = domain]
  OBVIOUS
<1>2. PICK v : v = Fails(z, d.apply.generation)
  OBVIOUS
<1>3. PICK y : y = Arms(v, AttemptsIn(d.apply.links))
  OBVIOUS
<1>4. From(d, y)
  BY <1>1, <1>2, <1>3, NotAppliedAction DEF NotApplied
<1>5. Becomes(y)
  BY <1>1, <1>2, <1>3 DEF NotApplied
<1> QED
  BY <1>4, <1>5, Advancing

LEMMA ScannedAdvances ==
    ASSUME DriverHolds(d), TurnEnds(d), NEW r \in RadioSet, NEW ssids \in SUBSET Ssids, Scanned(r, ssids)
    PROVE  Advances
<1>1. PICK z : z = [d EXCEPT !.scans[r] = d.scans[r] - 1]
  OBVIOUS
<1>2. PICK v : v = Heard(z, r, ssids, TRUE)
  OBVIOUS
<1>3. PICK y : y = ScannedForPending(v, r)
  OBVIOUS
<1>4. From(d, y)
  BY <1>1, <1>2, <1>3, ScannedAction DEF Scanned
<1>5. Becomes(y)
  BY <1>1, <1>2, <1>3 DEF Scanned
<1> QED
  BY <1>4, <1>5, Advancing

LEMMA RescannedAdvances ==
    ASSUME DriverHolds(d), TurnEnds(d), NEW rescan, NEW r \in RadioSet, rescan[2] = r,
           NEW ssids \in SUBSET Ssids, Rescanned(rescan, ssids)
    PROVE  Advances
<1>1. PICK z : z = [d EXCEPT !.rescans = d.rescans \ {rescan}]
  OBVIOUS
<1>2. PICK v : v = Heard(z, r, ssids, TRUE)
  OBVIOUS
<1>3. PICK y : y = Refused(v, rescan[1])
  OBVIOUS
<1>4. From(d, y)
  BY <1>1, <1>2, <1>3, RescanAction DEF Rescanned
<1>5. Becomes(y)
  BY <1>1, <1>2, <1>3 DEF Rescanned
<1> QED
  BY <1>4, <1>5, Advancing

LEMMA SweptOnAdvances ==
    ASSUME DriverHolds(d), TurnEnds(d), NEW look \in d.looks, NEW ssids \in SUBSET Ssids, SweptOn(look, ssids)
    PROVE  Advances
<1>1. PICK z : z = [d EXCEPT !.looks = d.looks \ {look}]
  OBVIOUS
<1>2. PICK v : v = Heard(z, look[1], ssids, TRUE)
  OBVIOUS
<1>3. PICK y : y = SweepsOn(v, look)
  OBVIOUS
<1>4. From(d, y)
  BY <1>1, <1>2, <1>3, SweptOnAction
<1>5. Becomes(y)
  BY <1>1, <1>2, <1>3 DEF SweptOn
<1> QED
  BY <1>4, <1>5, Advancing

LEMMA SweepNowAdvances ==
    ASSUME DriverHolds(d), TurnEnds(d), NEW wait, SweepNow(wait)
    PROVE  Advances
<1>1. PICK w : w = d.waits \ {wait}
  OBVIOUS
<1>2. PICK l : l = d.looks \cup {wait}
  OBVIOUS
<1>3. PICK y : y = LooksPut(d, w, l)
  OBVIOUS
<1>4. From(d, y)
  BY <1>1, <1>2, <1>3, SweepNowAction DEF SweepNow
<1>5. PICK z : z = [d EXCEPT !.waits = w] /\ Becomes([z EXCEPT !.looks = @ \cup {wait}])
  BY <1>1 DEF SweepNow
<1>6. [z EXCEPT !.looks = @ \cup {wait}] = y
  <2>1. IsDriver(d)
    BY DEF DriverHolds, Verifies, Working
  <2>2. z.looks = d.looks
    BY <1>5, <2>1 DEF IsDriver, Fields
  <2>3. [z EXCEPT !.looks = @ \cup {wait}] = [z EXCEPT !.looks = l]
    BY <1>2, <2>2
  <2>4. [z EXCEPT !.looks = l] = y
    BY <1>3, <1>5, <2>1 DEF IsDriver, Fields, LooksPut
  <2> QED
    BY <2>3, <2>4
<1>7. Becomes(y)
  BY <1>5, <1>6
<1> QED
  BY <1>4, <1>7, Advancing

LEMMA JoinedAdvances ==
    ASSUME DriverHolds(d), TurnEnds(d), NEW a \in DOMAIN d.checks, NEW result,
           NEW channel \in Channels \cup {"none"}, Joined(a, result, channel)
    PROVE  Advances
<1>1. PICK z : z = [d EXCEPT !.joins = d.joins \ {a}]
  OBVIOUS
<1>2. PICK y : y = Associates(z, a, result, channel)
  OBVIOUS
<1>3. From(d, y)
  BY <1>1, <1>2, JoinedAction
<1>4. Becomes(y)
  BY <1>1, <1>2 DEF Joined
<1> QED
  BY <1>3, <1>4, Advancing

LEMMA RejoinedAdvances ==
    ASSUME DriverHolds(d), TurnEnds(d), NEW a, NEW ok, NEW channel \in Channels \cup {"none"}, Rejoined(a, ok, channel)
    PROVE  Advances
<1>1. PICK z : z = [d EXCEPT !.rejoins = d.rejoins \ {a}]
  OBVIOUS
<1>2. PICK y : y = RejoinBack(z, a, ok, channel)
  OBVIOUS
<1>3. From(d, y)
  BY <1>1, <1>2, RejoinedAction DEF Rejoined
<1>4. Becomes(y)
  BY <1>1, <1>2 DEF Rejoined, RejoinBack
<1> QED
  BY <1>3, <1>4, Advancing

LEMMA OperatingAdvances ==
    ASSUME DriverHolds(d), TurnEnds(d), NEW r \in RadioSet, NEW channel \in Channels \cup {"none"}, Operating(r, channel)
    PROVE  Advances
<1>1. PICK o : o = d.operating \ {r}
  OBVIOUS
<1>2. PICK z : z = [d EXCEPT !.operating = o]
  OBVIOUS
<1>3. PICK y : y = OperatingFed(z, r, channel)
  OBVIOUS
<1>4. From(d, y)
  BY <1>2, <1>3, OperatingAction
<1>5. Becomes(y)
  BY <1>1, <1>2, <1>3 DEF Operating, OperatingFed
<1> QED
  BY <1>4, <1>5, Advancing

LEMMA DeadlineAdvances ==
    ASSUME DriverHolds(d), TurnEnds(d), NEW t, DeadlinePassed(t)
    PROVE  Advances
<1>1. PICK z : z = [d EXCEPT !.deadlines = d.deadlines \ {t}]
  OBVIOUS
<1>2. PICK y : y = DeadlineFails(z, t)
  OBVIOUS
<1>3. From(d, y)
  BY <1>1, <1>2, DeadlineAction DEF DeadlinePassed
<1>4. Becomes(y)
  BY <1>1, <1>2 DEF DeadlinePassed, DeadlineFails
<1> QED
  BY <1>3, <1>4, Advancing

LEMMA ProbedAdvances ==
    ASSUME DriverHolds(d), TurnEnds(d), NEW a, NEW ok, Probed(a, ok)
    PROVE  Advances
<1>1. PICK z : z = [d EXCEPT !.probes = d.probes \ {a}, !.checks[a].probing = FALSE]
  OBVIOUS
<1>2. PICK y : y = ProbeBack(z, a, ok)
  OBVIOUS
<1>3. From(d, y)
  BY <1>1, <1>2, ProbedAction, Zenon DEF Probed
<1>4. Becomes(y)
  BY <1>1, <1>2 DEF Probed, ProbeBack
<1> QED
  BY <1>3, <1>4, Advancing

LEMMA RetriesAdvances ==
    ASSUME DriverHolds(d), TurnEnds(d), NEW retry, Retries(retry)
    PROVE  Advances
<1>1. PICK r : r = d.retries \ {retry}
  OBVIOUS
<1>2. PICK z : z = [d EXCEPT !.retries = r]
  OBVIOUS
<1>3. PICK y : y = RetriedFed(z, retry)
  OBVIOUS
<1>4. From(d, y)
  BY <1>2, <1>3, RetriesAction
<1>5. Becomes(y)
  BY <1>1, <1>2, <1>3 DEF Retries, RetriedFed
<1> QED
  BY <1>4, <1>5, Advancing

LEMMA InternalAdvances ==
    ASSUME DriverHolds(d), TurnEnds(d), Internal
    PROVE  Advances
<1>1. CASE ApplyEnds
  BY <1>1, AppliedAdvances, NotAppliedAdvances DEF ApplyEnds
<1>2. CASE Reprobed
  BY <1>2, RegulatoryAdvances
<1>3. CASE LookEnds
  BY <1>3, SweptOnAdvances DEF LookEnds
<1>4. CASE \E r \in RadioSet : ScanEnds(r)
  BY <1>4, ScannedAdvances, RescannedAdvances DEF ScanEnds
<1>5. CASE \E r \in RadioSet : \E channel \in Channels \cup {"none"} : Operating(r, channel)
  BY <1>5, OperatingAdvances
<1>6. CASE \E a \in DOMAIN d.checks : JoinEnds(a)
  BY <1>6, JoinedAdvances, RejoinedAdvances DEF JoinEnds
<1>7. CASE \E a \in DOMAIN d.checks : ProbeEnds(a)
  BY <1>7, ProbedAdvances DEF ProbeEnds
<1>8. CASE \E a \in DOMAIN d.checks : DeadlineOf(a)
  BY <1>8, DeadlineAdvances DEF DeadlineOf
<1>9. CASE \E wait \in d.waits : SweepNow(wait)
  BY <1>9, SweepNowAdvances
<1>10. CASE \E retry \in d.retries : Retries(retry)
  BY <1>10, RetriesAdvances
<1> QED
  BY <1>1, <1>2, <1>3, <1>4, <1>5, <1>6, <1>7, <1>8, <1>9, <1>10 DEF Internal
-----------------------------------------------------------------------------
\* Where the driver starts: nothing held and nothing out.
StartPut(s, l) == [NewDriver EXCEPT !.links = l, !.sel = s]
IsStart(x, s) ==
    /\ IsDriver(x) /\ x.sel = s /\ x.configured = FALSE /\ x.generation = 0 /\ x.wants = FALSE
    /\ x.apply = NoApply /\ x.inPlace = NoApply /\ x.pending = NoPending /\ x.checks = << >>
    /\ x.scanning = [r \in RadioSet |-> 0] /\ x.scans = [r \in RadioSet |-> 0]
    /\ x.hotspotScanning = "none" /\ x.stations = [r \in RadioSet |-> NotConnected]
    /\ x.sweeps = [r \in RadioSet |-> 0] /\ x.swept = 0
    /\ x.rejoins = {} /\ x.deadlines = {} /\ x.probes = {} /\ x.waits = {} /\ x.looks = {}
    /\ x.answers = [g \in 1..MaxCommands |-> Unanswered]

LEMMA NewIsDriver == IsDriver(NewDriver)
BY DEF IsDriver, Fields, NewDriver

LEMMA NewIsStart == IsStart(NewDriver, NewSelector)
BY NewIsDriver DEF IsStart, NewDriver

LEMMA StartIs ==
    ASSUME NEW s, NEW l, NEW x, x = StartPut(s, l)
    PROVE  IsStart(x, s)
<1>1. PICK n : n = NewDriver
  OBVIOUS
<1>2. IsDriver(n) /\ x = [n EXCEPT !.links = l, !.sel = s]
  BY <1>1, NewIsDriver DEF StartPut
<1>3. /\ IsDriver(x) /\ x.sel = s /\ x.configured = n.configured /\ x.generation = n.generation /\ x.wants = n.wants
  BY <1>2, Zenon DEF IsDriver, Fields
<1>4. /\ x.apply = n.apply /\ x.inPlace = n.inPlace /\ x.pending = n.pending /\ x.checks = n.checks
      /\ x.scanning = n.scanning /\ x.scans = n.scans /\ x.hotspotScanning = n.hotspotScanning
  BY <1>2 DEF IsDriver, Fields
<1>5. /\ x.stations = n.stations /\ x.sweeps = n.sweeps /\ x.swept = n.swept /\ x.rejoins = n.rejoins
      /\ x.deadlines = n.deadlines /\ x.probes = n.probes /\ x.waits = n.waits /\ x.looks = n.looks
      /\ x.answers = n.answers
  BY <1>2 DEF IsDriver, Fields
<1> QED
  BY <1>1, <1>3, <1>4, <1>5, NewIsStart DEF IsStart

LEMMA StartsInHand ==
    ASSUME NEW c \in SUBSET WiredSet, NEW h \in Hearings,
           NEW s, s = [NewSelector EXCEPT !.carrier = c, !.heard = h]
    PROVE  InHand(s) /\ \A i \in Interfaces : s.held[i].candidate = 0
<1>1. PICK n : n = NewSelector
  OBVIOUS
<1>2. InHand(n) /\ \A i \in Interfaces : n.held[i].candidate = 0
  BY <1>1, NewIsSettled DEF Settled, NewSelector, NoHeld
<1>3. n \in Selectors
  BY <1>2 DEF InHand
<1>4. s = [n EXCEPT !.carrier = c, !.heard = h]
  BY <1>1
<1>5. s \in Selectors /\ s.doc = n.doc /\ s.failures = n.failures /\ s.held = n.held
  BY <1>3, <1>4 DEF Selectors
<1> QED
  BY <1>2, <1>5 DEF InHand

LEMMA StartHolds ==
    ASSUME NEW s, InHand(s), \A i \in Interfaces : s.held[i].candidate = 0, NEW x, IsStart(x, s)
    PROVE  DriverHolds(x) /\ TurnEnds(x)
<1> DEFINE fields ==
      /\ IsDriver(x) /\ x.sel = s /\ x.configured = FALSE /\ x.generation = 0 /\ x.wants = FALSE
      /\ x.apply = NoApply /\ x.inPlace = NoApply /\ x.pending = NoPending /\ x.checks = << >>
      /\ x.scanning = [r \in RadioSet |-> 0] /\ x.scans = [r \in RadioSet |-> 0]
      /\ x.hotspotScanning = "none" /\ x.stations = [r \in RadioSet |-> NotConnected]
      /\ x.sweeps = [r \in RadioSet |-> 0] /\ x.swept = 0
      /\ x.rejoins = {} /\ x.deadlines = {} /\ x.probes = {} /\ x.waits = {} /\ x.looks = {}
      /\ x.answers = [g \in 1..MaxCommands |-> Unanswered]
<1>1. fields
  BY DEF IsStart
<1>2. DOMAIN x.checks = {} /\ x.checks = [a \in DOMAIN x.checks |-> x.checks[a]]
  BY <1>1
<1>3. Numbered(s) /\ Attempts(s) = {}
  BY AttemptsAre DEF Numbered
<1>4. ChecksAre(x) /\ Timed(x) /\ ProbesAre(x) /\ Unarmed(x)
  BY <1>1, <1>2 DEF ChecksAre, Timed, ProbesAre, Unarmed
<1>5. StationsAre(x)
  <2>1. \A r \in RadioSet : x.stations[r] = NotConnected
    BY <1>1
  <2>2. NotConnected.channel = "none"
    BY DEF NotConnected
  <2>3. x.stations = [r \in RadioSet |-> x.stations[r]]
    BY <1>1
  <2> QED
    BY <1>1, <2>1, <2>2, <2>3 DEF StationsAre
<1>6. Working(x)
  BY <1>1, <1>3, <1>4, <1>5 DEF Working
<1>7. Follows(x.checks, x.sel)
  BY <1>1, <1>2, <1>3 DEF Follows
<1>8. Verifies(x, {}, "none", 0)
  BY <1>2, <1>6, <1>7 DEF Verifies, AllStand
<1>9. CountsAre(x)
  BY <1>1 DEF CountsAre
<1>10. CommandIs(x)
  <2>1. x.answers = [g \in 1..MaxCommands |-> x.answers[g]]
    BY <1>1
  <2> QED
    BY <1>1, <2>1, NoApplyIs, NoPendingIs DEF CommandIs, CommandTyped
<1>11. HotspotIs(x)
  BY <1>1 DEF HotspotIs
<1>12. SweepsAre(x)
  BY <1>1 DEF SweepsAre, LooksAre
<1>13. TurnEnds(x)
  BY <1>1, <1>2, NoPendingIs DEF TurnEnds
<1> QED
  BY <1>8, <1>9, <1>10, <1>11, <1>12, <1>13 DEF DriverHolds, Rest

LEMMA InitHolds ==
    ASSUME Init
    PROVE  DriverInv
<1>1. PICK found \in Found :
         d = [NewDriver EXCEPT !.links = found.links, !.sel.carrier = found.carrier,
                               !.sel.heard = [r \in RadioSet |-> [s \in Ssids |->
                                                IF s \in found.heard[r] THEN 1 ELSE 0]]]
  BY Zenon DEF Init
<1>2. PICK h : h = [r \in RadioSet |-> [s \in Ssids |-> IF s \in found.heard[r] THEN 1 ELSE 0]]
  OBVIOUS
<1>3. PICK c : c = found.carrier
  OBVIOUS
<1>4. PICK l : l = found.links
  OBVIOUS
<1>5. PICK s : s = [NewSelector EXCEPT !.carrier = c, !.heard = h]
  OBVIOUS
<1>6. c \in SUBSET WiredSet
  BY <1>3, DriverAssumption
<1>7. h \in Hearings
  <2>1. 0 \in 0..MaxSignal /\ 1 \in 0..MaxSignal
    BY HardwareAssumption
  <2> QED
    BY <1>2, <2>1 DEF Hearings
<1>8. InHand(s) /\ \A i \in Interfaces : s.held[i].candidate = 0
  BY <1>5, <1>6, <1>7, StartsInHand, Zenon
<1>9. NewDriver.sel = NewSelector
  BY DEF NewDriver
<1>10. d = StartPut(s, l)
  <2>1. PICK n : n = NewDriver
    OBVIOUS
  <2>2. IsDriver(n) /\ n.sel = NewSelector
    BY <1>9, <2>1, NewIsDriver
  <2>3. d = [n EXCEPT !.links = l, !.sel.carrier = c, !.sel.heard = h]
    BY <1>1, <1>2, <1>3, <1>4, <2>1
  <2>4. [n EXCEPT !.links = l, !.sel.carrier = c, !.sel.heard = h]
          = [n EXCEPT !.links = l, !.sel = [n.sel EXCEPT !.carrier = c, !.heard = h]]
    BY <2>2 DEF IsDriver, Fields
  <2> QED
    BY <1>5, <2>1, <2>2, <2>3, <2>4 DEF StartPut
<1>11. IsStart(d, s)
  BY <1>10, StartIs
<1> QED
  BY <1>8, <1>11, StartHolds DEF DriverInv
-----------------------------------------------------------------------------
LEMMA NextAdvances ==
    ASSUME DriverInv, Next
    PROVE  DriverInv' /\ Descends(d.sel, d'.sel) /\ InForce(d, d')
<1>1. DriverHolds(d) /\ TurnEnds(d)
  BY DEF DriverInv
<1>2. Advances
  BY <1>1, CommandsAdvance, ObservesAdvances, InternalAdvances DEF Next
<1>3. PICK y : From(d, y) /\ d' = Turn(y)
  BY <1>2 DEF Advances
<1>4. DriverHolds(d') /\ TurnEnds(d') /\ Descends(d.sel, d'.sel) /\ InForce(d, d')
  BY <1>3, TurnStep
<1> QED
  BY <1>4 DEF DriverInv

\* What the driver verifies, what it has out and what it last rendered are
\* of one another and of the selector after every turn of its loop,
\* whatever was observed or came back and in whatever order (driver.rs,
\* Driver::run).
THEOREM InvariantHolds == Spec => []DriverInv
<1>1. Init => DriverInv
  BY InitHolds
<1>2. DriverInv /\ [Next]_vars => DriverInv'
  <2>1. ASSUME DriverInv, UNCHANGED vars PROVE DriverInv'
    <3>1. d' = d
      BY <2>1 DEF vars
    <3> QED
      BY <2>1, <3>1 DEF DriverInv
  <2>2. ASSUME DriverInv, Next PROVE DriverInv'
    BY <2>2, NextAdvances
  <2> QED
    BY <2>1, <2>2
<1> QED
  BY <1>1, <1>2, PTL DEF Spec

LEMMA FollowCurrent == ASSUME DriverInv PROVE ChecksAreCurrent
<1>1. Working(d) /\ Follows(d.checks, d.sel) /\ TurnEnds(d)
  BY DEF DriverInv, DriverHolds, Verifies
<1>2. ChecksFollow
  BY <1>1 DEF ChecksFollow, Follows, IsOf, On
<1>3. DeadlineIsStages
  BY <1>1 DEF DeadlineIsStages, Working, Timed, TurnEnds
<1> QED
  BY <1>2, <1>3 DEF ChecksAreCurrent

\* The driver verifies what the selector decided and nothing else, and a
\* deadline that can still fail an attempt is that of the stage it is at
\* (driver.rs, configure and follow; attempt.rs, deadline_passed).
THEOREM CurrentAlways == Spec => []ChecksAreCurrent
<1>1. DriverInv => ChecksAreCurrent
  BY FollowCurrent
<1> QED
  BY <1>1, InvariantHolds, PTL

LEMMA AttemptsMove == ASSUME DriverInv PROVE AttemptMovesOn
<1>1. Working(d) /\ AllStand(d, {}, "none", 0) /\ TurnEnds(d)
  BY DEF DriverInv, DriverHolds, Verifies
<1>2. SUFFICES ASSUME NEW a \in DOMAIN d.checks, NEW c, c = d.checks[a]
               PROVE  \/ c.at = Established
                      \/ ~c.armed /\ (d.wants \/ (d.apply.runs /\ a \in AttemptsIn(d.apply.links)))
                      \/ /\ c.at = Association
                         /\ \/ a \in d.joins
                            \/ c.awaits /\ d.scans[c.on] > 0
                            \/ <<a, c.on>> \in d.rescans
                      \/ c.at = Gateway /\ c.probing /\ a \in d.probes
                      \/ \E t \in d.deadlines : t[1] = a /\ ~c.probing
  BY DEF AttemptMovesOn
<1>3. Stands(d, a)
  BY <1>1 DEF AllStand, Excused
<1>4. d.scanning = d.scans
  BY <1>1 DEF TurnEnds
<1>5. c.probing => c.at = Gateway /\ a \in d.probes
  BY <1>1, <1>2 DEF Working, ProbesAre
<1>6. ASSUME NEW t, t = <<a, c.timer, c.at>>, t \in d.deadlines
      PROVE  t[1] = a /\ ~c.probing
  BY <1>1, <1>2, <1>6 DEF Working, Timed
<1> QED
  BY <1>2, <1>3, <1>4, <1>5, <1>6 DEF Stands

LEMMA OnlyOne ==
    ASSUME NEW S, NEW k, NEW T, T = {e \in S : e = k}
    PROVE  Cardinality(T) = IF k \in S THEN 1 ELSE 0
<1>1. CASE k \in S
  <2>1. T = {k}
    BY <1>1
  <2> QED
    BY <1>1, <2>1, FS_Singleton
<1>2. CASE k \notin S
  <2>1. T = {}
    BY <1>2
  <2> QED
    BY <1>2, <2>1, FS_EmptySet
<1> QED
  BY <1>1, <1>2

LEMMA SweepsGoOn == ASSUME DriverInv PROVE SweepGoesOn
<1>1. SweepsAre(d)
  BY DEF DriverInv, DriverHolds, Rest
<1>2. SUFFICES ASSUME NEW r \in RadioSet, d.sweeps[r] # 0, NEW k, k = <<r, d.sweeps[r]>>
               PROVE  Cardinality({w \in d.waits : w = k}) + Cardinality({l \in d.looks : l = k}) = 1
  BY DEF SweepGoesOn
<1>3. (k \in d.waits) # (k \in d.looks)
  BY <1>1, <1>2 DEF SweepsAre
<1>4. PICK W : W = {w \in d.waits : w = k}
  OBVIOUS
<1>5. PICK L : L = {l \in d.looks : l = k}
  OBVIOUS
<1>6. Cardinality(W) = (IF k \in d.waits THEN 1 ELSE 0) /\ Cardinality(L) = (IF k \in d.looks THEN 1 ELSE 0)
  BY <1>4, <1>5, OnlyOne
<1>7. Cardinality(W) + Cardinality(L) = 1
  BY <1>3, <1>6
<1> QED
  BY <1>4, <1>5, <1>7

LEMMA HasSomethingOut == ASSUME DriverInv PROVE NothingIsStranded
<1>1. CommandMovesOn
  BY DEF DriverInv, TurnEnds, CommandMovesOn
<1>2. HotspotNotForgotten
  BY DEF DriverInv, DriverHolds, Rest, HotspotIs, TurnEnds, HotspotNotForgotten
<1> QED
  BY <1>1, <1>2, AttemptsMove, SweepsGoOn DEF NothingIsStranded

\* Nothing waits on nothing: an attempt, a command, a hotspot held back
\* and a sweep each have something out that will come back to them
\* (driver.rs, kick; attempt.rs, arm; hotspot.rs, hotspot_awaits_scan;
\* sweep.rs, scanned_for_pending and the tokens).
THEOREM NoneStranded == Spec => []NothingIsStranded
<1>1. DriverInv => NothingIsStranded
  BY HasSomethingOut
<1> QED
  BY <1>1, InvariantHolds, PTL

\* An attempt held after a step and before it is at one candidate.
LEMMA OneCandidates ==
    ASSUME NEW s, NEW u, Numbered(s), Descends(s, u), NEW i \in Interfaces, NEW j \in Interfaces,
           s.held[i].candidate # 0, u.held[j].candidate # 0, s.held[i].attempt = u.held[j].attempt
    PROVE  i = j /\ Candidate(s, s.held[i].candidate) = Candidate(u, u.held[j].candidate)
<1>1. s.held[i].attempt \in 1..s.next /\ s.next \in Nat
  BY DEF Numbered, IsAttempt, Descends
<1>2. u.held[j].attempt \notin (s.next + 1)..u.next
  BY <1>1 DEF Descends
<1>3. /\ s.held[j].candidate # 0 /\ s.held[j].attempt = u.held[j].attempt
      /\ Candidate(u, u.held[j].candidate) = Candidate(s, s.held[j].candidate)
  BY <1>2 DEF Descends
<1>4. i = j
  BY <1>3 DEF Numbered
<1> QED
  BY <1>3, <1>4

\* What was verified is what is in place: no result is taken for another
\* candidate's, and no command is answered before it is in force
\* (driver.rs, answer; select.rs, configure and its carrying over).
THEOREM InForceAlways == Spec => VerifiedIsInForce
<1>1. DriverInv /\ [Next]_vars => [AttemptIsOneCandidates /\ VerifiedInPlace]_vars
  <2>1. ASSUME DriverInv, Next PROVE AttemptIsOneCandidates /\ VerifiedInPlace
    <3>1. Descends(d.sel, d'.sel) /\ InForce(d, d')
      BY <2>1, NextAdvances
    <3>2. Numbered(d.sel)
      BY <2>1 DEF DriverInv, DriverHolds, Verifies, Working
    <3>3. AttemptIsOneCandidates
      BY <3>1, <3>2, OneCandidates DEF AttemptIsOneCandidates
    <3>4. VerifiedInPlace
      BY <3>1 DEF VerifiedInPlace, InForce
    <3> QED
      BY <3>3, <3>4
  <2> QED
    BY <2>1
<1> QED
  BY <1>1, InvariantHolds, PTL DEF Spec, VerifiedIsInForce
=============================================================================
