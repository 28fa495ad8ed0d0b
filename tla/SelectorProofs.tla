--------------------------- MODULE SelectorProofs ---------------------------
\* What is proved of the selector, for any interfaces, radios, networks
\* and documents: that where it places the candidates and the hotspot
\* leaves neither out without cause and is where it would place them
\* again, and that what is up is taken down only for cause.
EXTENDS NetworkSelector, FiniteSetTheorems, WellFoundedInduction, TLAPS

-----------------------------------------------------------------------------
\* Numbers and the order of the radios.

\* A non-empty set of numbers has a least one.
LEMMA LeastOf ==
    ASSUME NEW S, S \subseteq Nat, S # {}
    PROVE  \E s \in S : \A t \in S : s <= t
<1> DEFINE R == {ss \in Nat \X Nat : ss[1] < ss[2]}
<1>1. IsWellFoundedOn(R, Nat)
  BY NatLessThanWellFounded DEF OpToRel
<1> HIDE DEF R
<1>2. PICK x \in S : \A y \in S : ~(<<y, x>> \in R)
  BY <1>1, WFMin
<1>3. \A y \in S : ~(y < x)
  BY <1>2 DEF R
<1> QED
  BY <1>3

\* Among things each valued at most n, one is valued most.
LEMMA MostOf ==
    ASSUME NEW S, S # {}, NEW n \in Nat, NEW v, \A s \in S : v[s] \in 0..n
    PROVE  \E s \in S : \A t \in S : v[t] <= v[s]
<1> DEFINE gaps == {n - v[s] : s \in S}
<1>1. gaps \subseteq Nat /\ gaps # {}
  OBVIOUS
<1>2. PICK g \in gaps : \A h \in gaps : g <= h
  <2> HIDE DEF gaps
  <2> QED
    BY <1>1, LeastOf
<1>3. PICK s \in S : g = n - v[s]
  OBVIOUS
<1>4. ASSUME NEW t \in S PROVE v[t] <= v[s]
  <2>1. n - v[s] <= n - v[t]
    BY <1>2, <1>3
  <2>2. v[s] \in 0..n /\ v[t] \in 0..n
    OBVIOUS
  <2> QED
    BY <2>1, <2>2
<1> QED
  BY <1>4

\* The first of some radios is one of them.
LEMMA FirstIsOne ==
    ASSUME NEW radios, radios \subseteq RadioSet, radios # {}
    PROVE  FirstOf(radios) \in radios
<1> DEFINE at == {n \in DOMAIN RadioOrder : RadioOrder[n] \in radios}
<1>1. at \subseteq Nat
  BY HardwareAssumption
<1>2. at # {}
  BY DEF RadioSet
<1>3. PICK n \in at : \A m \in at : n <= m
  <2> HIDE DEF at
  <2> QED
    BY <1>1, <1>2, LeastOf
<1>4. \A m \in 1..(n - 1) : RadioOrder[m] \notin radios
  <2> SUFFICES ASSUME NEW m \in 1..(n - 1), RadioOrder[m] \in radios PROVE FALSE
    OBVIOUS
  <2>1. n \in 1..Len(RadioOrder)
    BY HardwareAssumption
  <2>2. m \in 1..Len(RadioOrder) /\ DOMAIN RadioOrder = 1..Len(RadioOrder) /\ m < n
    BY <2>1, HardwareAssumption
  <2>3. m \in at
    BY <2>2
  <2> QED
    BY <1>3, <2>2, <2>3
<1>5. \E k \in DOMAIN RadioOrder :
          RadioOrder[k] \in radios /\ \A m \in 1..(k - 1) : RadioOrder[m] \notin radios
  BY <1>4
<1> QED
  BY <1>5 DEF FirstOf
-----------------------------------------------------------------------------
\* The selector's values.
Docs == [attachments : Seq(Candidates), hotspot : Hotspots]

\* A document the selector is given: one that was checked.
Checked(doc) ==
    /\ doc \in Docs /\ Check(doc)
    /\ \A n \in DOMAIN doc.attachments :
         IsWireless(doc.attachments[n]) => doc.attachments[n].ssid \in Ssids

Hearings == [RadioSet -> [Ssids -> 0..MaxSignal]]
Tunings == [RadioSet -> Channels \cup {"none"}]
Helds == [candidate : Nat, attempt : Nat, at : Carrier..Established]
Holdings == [Interfaces -> Helds]
Placements == [radio : RadioSet \cup {"none"}, follows : Nat, channel : Channels \cup {"none"}]
Selectors ==
    [doc : Docs, carrier : SUBSET WiredSet, heard : Hearings, channels : Tunings,
     failures : Seq(0..Gateway), held : Holdings, hotspot : Placements, next : Nat]

\* A selector in hand, of a document it was given.
InHand(s) ==
    /\ s \in Selectors /\ Checked(s.doc)
    /\ Len(s.failures) = Len(s.doc.attachments)

\* The ranks carried by the interfaces, what is below one left out.
Linkings(n) == [Interfaces -> 0..n]
Upto(links, k) == [i \in Interfaces |-> IF links[i] < k THEN links[i] ELSE 0]
Unlinked == [i \in Interfaces |-> 0]

\* Where a candidate goes is an interface that it could go on and that is
\* free, and it goes nowhere only when unavailable or left none.
Free(s, rank, links) == {i \in Could(s, rank, links) : links[i] = 0}

LEMMA GoesFree ==
    ASSUME NEW s, NEW rank, NEW links
    PROVE  Goes(s, rank, links) = GoesAmong(s, rank, Free(s, rank, links))
BY DEF Goes, Free

LEMMA CouldAre ==
    ASSUME NEW s, InHand(s), NEW rank \in Ranks(s), NEW links
    PROVE  /\ IsWireless(Candidate(s, rank)) => Could(s, rank, links) \subseteq RadioSet
           /\ Could(s, rank, links) \subseteq Interfaces
<1>1. Check(s.doc)
  BY DEF InHand, Checked
<1>2. CASE IsWireless(Candidate(s, rank))
  BY <1>2 DEF Could, Hearing, RadiosFor, Interfaces
<1>3. CASE ~IsWireless(Candidate(s, rank))
  <2>1. Candidate(s, rank).on \in WiredSet
    BY <1>1, <1>3 DEF Check, Candidate, Ranks
  <2> QED
    BY <1>3, <2>1 DEF Could, Interfaces
<1> QED
  BY <1>2, <1>3

LEMMA BestIsFree ==
    ASSUME NEW s, InHand(s), NEW rank \in Ranks(s), IsWireless(Candidate(s, rank)),
           NEW free, free \subseteq RadioSet, free # {}
    PROVE  BestHearing(s, Candidate(s, rank), free) \in free
<1>1. Candidate(s, rank).ssid \in Ssids
  BY DEF InHand, Checked, Candidate, Ranks
<1> DEFINE ssid == Candidate(s, rank).ssid
           v == [r \in RadioSet |-> s.heard[r][ssid]]
           best == {r \in free : \A q \in free : s.heard[q][ssid] <= s.heard[r][ssid]}
<1>2. s.heard \in Hearings
  BY DEF InHand, Selectors
<1>3. \A r \in free : v[r] \in 0..MaxSignal
  BY <1>1, <1>2 DEF Hearings
<1>4. MaxSignal \in Nat
  BY HardwareAssumption
<1>5. \A r \in free : v[r] = s.heard[r][ssid]
  OBVIOUS
<1>6. \E r \in free : \A q \in free : v[q] <= v[r]
  <2> HIDE DEF v
  <2> QED
    BY <1>3, <1>4, MostOf
<1>7. best # {} /\ best \subseteq RadioSet
  BY <1>5, <1>6
<1>8. FirstOf(best) \in best
  <2> HIDE DEF best
  <2> QED
    BY <1>7, FirstIsOne
<1> QED
  BY <1>8 DEF BestHearing

LEMMA GoesIs ==
    ASSUME NEW s, InHand(s), NEW rank \in Ranks(s), NEW links
    PROVE  /\ Goes(s, rank, links) \in Free(s, rank, links) \cup {"none"}
           /\ Goes(s, rank, links) = "none" => ~Available(s, rank) \/ Free(s, rank, links) = {}
           /\ Goes(s, rank, links) # "none" => Available(s, rank)
<1> DEFINE free == Free(s, rank, links)
           c == Candidate(s, rank)
<1>1. Goes(s, rank, links) = GoesAmong(s, rank, free)
  BY DEF Goes, Free
<1>2. free \subseteq Could(s, rank, links) /\ free \subseteq Interfaces
  BY CouldAre DEF Free
<1>3. "none" \notin Interfaces
  BY HardwareAssumption
<1>4. CASE ~Available(s, rank) \/ free = {}
  <2>1. GoesAmong(s, rank, free) = "none"
    BY <1>4 DEF GoesAmong
  <2> QED
    BY <1>1, <1>4, <2>1 DEF GoesAmong
<1>5. CASE ~(~Available(s, rank) \/ free = {})
  <2>1. GoesAmong(s, rank, free) \in free
    <3>1. CASE ~IsWireless(c)
      <4>1. free = {c.on}
        BY <1>5, <3>1 DEF Free, Could
      <4> QED
        BY <1>5, <3>1, <4>1 DEF GoesAmong
    <3>2. CASE IsWireless(c) /\ Current(s, rank) \cap free # {}
      <4> HIDE DEF free
      <4> QED
        BY <1>5, <3>2 DEF GoesAmong
    <3>3. CASE IsWireless(c) /\ Current(s, rank) \cap free = {}
      <4>1. free \subseteq RadioSet
        BY <1>2, <3>3, CouldAre
      <4>2. BestHearing(s, c, free) \in free
        BY <1>5, <3>3, <4>1, BestIsFree
      <4> QED
        BY <1>5, <3>3, <4>2 DEF GoesAmong
    <3> QED
      BY <3>1, <3>2, <3>3
  <2>2. GoesAmong(s, rank, free) # "none"
    BY <1>2, <1>3, <2>1
  <2> QED
    BY <1>1, <1>5, <2>1, <2>2
<1> QED
  BY <1>4, <1>5
-----------------------------------------------------------------------------
\* Placing the candidates (place.rs, place): each of the first m ranks is
\* where it goes given what the ranks above it took.
PlacedTo(s, links, m) ==
    /\ links \in Linkings(m)
    /\ \A k \in 1..m, i \in Interfaces : links[i] = k <=> Goes(s, k, Upto(links, k)) = i

IsPlaced(s, links) == PlacedTo(s, links, Len(s.doc.attachments))

\* One rank more is placed by putting it where it goes.
LEMMA PlaceOneMore ==
    ASSUME NEW s, InHand(s), NEW m \in Ranks(s), NEW links, PlacedTo(s, links, m - 1)
    PROVE  PlacedTo(s, PutOn(links, Goes(s, m, links), m), m)
<1> DEFINE g == Goes(s, m, links)
           more == PutOn(links, g, m)
<1>1. m \in Nat /\ 1 <= m /\ m - 1 \in Nat
  BY DEF InHand, Selectors, Docs, Ranks
<1>2. links \in Linkings(m - 1) /\ links \in [Interfaces -> 0..(m - 1)]
  BY DEF PlacedTo, Linkings
<1>3. g # "none" => g \in Interfaces /\ links[g] = 0
  BY GoesIs, CouldAre DEF Free
<1>4. "none" \notin Interfaces
  BY HardwareAssumption
<1>5. \A i \in Interfaces : links[i] \in 0..(m - 1)
  BY <1>2
<1> HIDE DEF g
<1>6. /\ more \in [Interfaces -> 0..m]
      /\ \A i \in Interfaces : more[i] = IF i = g THEN m ELSE links[i]
  <2>1. CASE g = "none"
    <3>1. more = links
      BY <2>1 DEF PutOn
    <3> QED
      BY <2>1, <3>1, <1>1, <1>2, <1>4, <1>5
  <2>2. CASE g # "none"
    <3>1. more = [links EXCEPT ![g] = m]
      BY <2>2 DEF PutOn
    <3> HIDE DEF more
    <3> QED
      BY <2>2, <3>1, <1>1, <1>2, <1>3, <1>5
  <2> QED
    BY <2>1, <2>2
<1> HIDE DEF more
<1>7. ASSUME NEW k \in 1..m PROVE Upto(more, k) = Upto(links, k)
  <2>1. \A i \in Interfaces :
            (IF more[i] < k THEN more[i] ELSE 0) = (IF links[i] < k THEN links[i] ELSE 0)
    <3> SUFFICES ASSUME NEW i \in Interfaces
                 PROVE (IF more[i] < k THEN more[i] ELSE 0) = (IF links[i] < k THEN links[i] ELSE 0)
      OBVIOUS
    <3>1. CASE i = g
      <4>1. links[i] = 0 /\ more[i] = m
        BY <1>3, <1>4, <1>6, <3>1
      <4> QED
        BY <1>1, <4>1
    <3>2. CASE i # g
      BY <1>6, <3>2
    <3> QED
      BY <3>1, <3>2
  <2> QED
    BY <2>1 DEF Upto
<1>8. Upto(links, m) = links
  <2>1. \A i \in Interfaces : (IF links[i] < m THEN links[i] ELSE 0) = links[i]
    BY <1>1, <1>5
  <2>2. links = [i \in Interfaces |-> links[i]]
    BY <1>2
  <2> QED
    BY <2>1, <2>2 DEF Upto
<1>9. ASSUME NEW k \in 1..m, NEW i \in Interfaces
      PROVE more[i] = k <=> Goes(s, k, Upto(more, k)) = i
  <2>1. CASE k = m
    <3>1. Goes(s, k, Upto(more, k)) = g
      BY <1>7, <1>8, <2>1 DEF g
    <3>2. links[i] # m
      BY <1>1, <1>5
    <3> QED
      BY <1>6, <2>1, <3>1, <3>2
  <2>2. CASE k # m
    <3>1. k \in 1..(m - 1)
      BY <1>1, <2>2
    <3>2. links[i] = k <=> Goes(s, k, Upto(links, k)) = i
      BY <3>1 DEF PlacedTo
    <3>3. more[i] = k <=> links[i] = k
      <4>1. CASE i = g
        BY <1>1, <1>3, <1>4, <1>6, <2>2, <4>1
      <4>2. CASE i # g
        BY <1>6, <4>2
      <4> QED
        BY <4>1, <4>2
    <3> QED
      BY <1>7, <3>2, <3>3
  <2> QED
    BY <2>1, <2>2
<1> QED
  BY <1>6, <1>9 DEF PlacedTo, Linkings, more, g

\* There is a placing of every candidate.
LEMMA PlacingExists ==
    ASSUME NEW s, InHand(s)
    PROVE  \E links : IsPlaced(s, links)
<1> DEFINE n == Len(s.doc.attachments)
           unplaced == {m \in 0..n : ~\E links : PlacedTo(s, links, m)}
<1>1. n \in Nat /\ Ranks(s) = 1..n
  BY DEF InHand, Selectors, Docs, Ranks
<1>2. unplaced = {}
  <2> SUFFICES ASSUME unplaced # {} PROVE FALSE
    OBVIOUS
  <2> HIDE DEF n
  <2>1. unplaced \subseteq Nat
    BY <1>1
  <2>2. PICK m \in unplaced : \A k \in unplaced : m <= k
    <3> HIDE DEF unplaced
    <3> QED
      BY <2>1, LeastOf
  <2>3. CASE m = 0
    <3>1. Unlinked \in Linkings(0)
      BY DEF Unlinked, Linkings
    <3>2. 1..0 = {}
      OBVIOUS
    <3>3. PlacedTo(s, Unlinked, 0)
      BY <3>1, <3>2 DEF PlacedTo
    <3> QED
      BY <2>2, <2>3, <3>3
  <2>4. CASE m # 0
    <3>1. m \in 1..n /\ m - 1 \in 0..n /\ ~(m <= m - 1)
      BY <1>1, <2>2, <2>4
    <3>2. PICK links : PlacedTo(s, links, m - 1)
      BY <2>2, <3>1
    <3>3. PlacedTo(s, PutOn(links, Goes(s, m, links), m), m)
      BY <1>1, <3>1, <3>2, PlaceOneMore
    <3> QED
      BY <2>2, <3>3
  <2> QED
    BY <2>3, <2>4
<1>3. n \in 0..n
  BY <1>1
<1> QED
  BY <1>2, <1>3 DEF IsPlaced

\* What comes of placing is what its steps come to.
Placing(s, g) ==
    [rank \in 0..Len(s.doc.attachments) |->
        IF rank = 0 THEN [i \in Interfaces |-> 0]
        ELSE PutOn(g[rank - 1], Goes(s, rank, g[rank - 1]), rank)]

LEMMA PlaceIs == ASSUME NEW s PROVE Place(s) = (CHOOSE g : g = Placing(s, g))[Len(s.doc.attachments)]
BY DEF Place, Placing

\* A placing, rank by rank.
LEMMA PlacingSteps ==
    ASSUME NEW s, InHand(s), NEW links, IsPlaced(s, links), NEW k \in Ranks(s)
    PROVE  Upto(links, k + 1) = PutOn(Upto(links, k), Goes(s, k, Upto(links, k)), k)
<1> DEFINE n == Len(s.doc.attachments)
           below == Upto(links, k)
           g == Goes(s, k, below)
           upto == Upto(links, k + 1)
<1>1. n \in Nat /\ Ranks(s) = 1..n /\ k \in 1..n
  BY DEF InHand, Selectors, Docs, Ranks
<1>2. links \in [Interfaces -> 0..n]
  BY DEF IsPlaced, PlacedTo, Linkings
<1>3. \A i \in Interfaces : links[i] = k <=> g = i
  BY <1>1 DEF IsPlaced, PlacedTo
<1>4. g # "none" => g \in Interfaces
  BY GoesIs, CouldAre DEF Free
<1>5. "none" \notin Interfaces
  BY HardwareAssumption
<1>6. \A i \in Interfaces : links[i] \in 0..n
  BY <1>2
<1>7. /\ below = [i \in Interfaces |-> IF links[i] < k THEN links[i] ELSE 0]
      /\ upto = [i \in Interfaces |-> IF links[i] < k + 1 THEN links[i] ELSE 0]
  BY DEF Upto
<1> HIDE DEF g, below, upto, n
<1>8. ASSUME NEW i \in Interfaces
      PROVE upto[i] = IF i = g THEN k ELSE below[i]
  <2>1. CASE i = g
    BY <1>1, <1>3, <1>7, <2>1
  <2>2. CASE i # g
    <3>1. links[i] # k /\ links[i] \in 0..n
      BY <1>3, <1>6, <2>2
    <3>2. links[i] < k + 1 <=> links[i] < k
      BY <1>1, <3>1
    <3> QED
      BY <1>7, <2>2, <3>2
  <2> QED
    BY <2>1, <2>2
<1>9. upto = PutOn(below, g, k)
  <2>1. CASE g = "none"
    <3>1. \A i \in Interfaces : upto[i] = below[i]
      BY <1>5, <1>8, <2>1
    <3>2. upto = below
      BY <1>7, <3>1
    <3> QED
      BY <2>1, <3>2 DEF PutOn
  <2>2. CASE g # "none"
    <3>1. [below EXCEPT ![g] = k] = [i \in Interfaces |-> IF i = g THEN k ELSE below[i]]
      BY <1>4, <1>7, <2>2
    <3>2. upto = [i \in Interfaces |-> IF i = g THEN k ELSE below[i]]
      <4>1. upto = [i \in Interfaces |-> upto[i]]
        BY <1>7
      <4> QED
        BY <1>8, <4>1
    <3> QED
      BY <2>2, <3>1, <3>2 DEF PutOn
  <2> QED
    BY <2>1, <2>2
<1> QED
  BY <1>9 DEF upto, below, g

\* What place comes to is the one placing there is.
LEMMA PlaceIsPlacing ==
    ASSUME NEW s, InHand(s), NEW links, IsPlaced(s, links)
    PROVE  Place(s) = links
<1> DEFINE n == Len(s.doc.attachments)
           F == [k \in 0..n |-> Upto(links, k + 1)]
           g == CHOOSE h : h = Placing(s, h)
<1>1. n \in Nat /\ Ranks(s) = 1..n
  BY DEF InHand, Selectors, Docs, Ranks
<1>2. links \in [Interfaces -> 0..n] /\ \A i \in Interfaces : links[i] \in 0..n
  BY DEF IsPlaced, PlacedTo, Linkings
<1>3. F[0] = [i \in Interfaces |-> 0]
  <2>1. \A i \in Interfaces : (IF links[i] < 0 + 1 THEN links[i] ELSE 0) = 0
    BY <1>1, <1>2
  <2>2. Upto(links, 0 + 1) = [i \in Interfaces |-> 0]
    BY <2>1 DEF Upto
  <2>3. 0 \in 0..n
    BY <1>1
  <2> QED
    BY <2>2, <2>3
<1>4. F[n] = links
  <2>1. \A i \in Interfaces : (IF links[i] < n + 1 THEN links[i] ELSE 0) = links[i]
    BY <1>1, <1>2
  <2>2. links = [i \in Interfaces |-> links[i]]
    BY <1>2
  <2>3. Upto(links, n + 1) = links
    BY <2>1, <2>2 DEF Upto
  <2>4. n \in 0..n
    BY <1>1
  <2> QED
    BY <2>3, <2>4
<1>5. ASSUME NEW k \in 1..n
      PROVE F[k] = PutOn(F[k - 1], Goes(s, k, F[k - 1]), k)
  <2>1. k \in 0..n /\ k - 1 \in 0..n /\ (k - 1) + 1 = k
    BY <1>1
  <2>2. F[k] = Upto(links, k + 1) /\ F[k - 1] = Upto(links, k)
    <3> HIDE DEF n
    <3> QED
      BY <2>1
  <2>3. Upto(links, k + 1) = PutOn(Upto(links, k), Goes(s, k, Upto(links, k)), k)
    BY <1>1, PlacingSteps
  <2> QED
    BY <2>2, <2>3
<1>6. F = Placing(s, F)
  <2>1. \A k \in 0..n : F[k] = IF k = 0 THEN [i \in Interfaces |-> 0]
                               ELSE PutOn(F[k - 1], Goes(s, k, F[k - 1]), k)
    <3> SUFFICES ASSUME NEW k \in 0..n
                 PROVE F[k] = IF k = 0 THEN [i \in Interfaces |-> 0]
                              ELSE PutOn(F[k - 1], Goes(s, k, F[k - 1]), k)
      OBVIOUS
    <3>1. CASE k = 0
      <4> HIDE DEF F
      <4> QED
        BY <1>3, <3>1
    <3>2. CASE k # 0
      <4>1. k \in 1..n
        BY <1>1, <3>2
      <4> HIDE DEF F
      <4> QED
        BY <1>5, <3>2, <4>1
    <3> QED
      BY <3>1, <3>2
  <2>2. F = [k \in 0..n |-> F[k]]
    OBVIOUS
  <2> HIDE DEF F
  <2> QED
    BY <2>1, <2>2 DEF Placing
<1> HIDE DEF F
<1>7. g = Placing(s, g)
  BY <1>6
<1>8. \A k \in 0..n : g[k] = IF k = 0 THEN [i \in Interfaces |-> 0]
                             ELSE PutOn(g[k - 1], Goes(s, k, g[k - 1]), k)
  <2> HIDE DEF g
  <2> QED
    BY <1>7 DEF Placing
<1> DEFINE apart == {k \in 0..n : F[k] # g[k]}
<1> HIDE DEF g, n
<1>9. apart = {}
  <2> SUFFICES ASSUME apart # {} PROVE FALSE
    OBVIOUS
  <2>1. apart \subseteq Nat
    BY <1>1
  <2>2. PICK k \in apart : \A j \in apart : k <= j
    <3> HIDE DEF apart
    <3> QED
      BY <2>1, LeastOf
  <2>3. CASE k = 0
    BY <1>3, <1>8, <2>2, <2>3
  <2>4. CASE k # 0
    <3>1. k \in 1..n /\ k - 1 \in 0..n /\ ~(k <= k - 1)
      BY <1>1, <2>2, <2>4
    <3>2. F[k - 1] = g[k - 1]
      BY <2>2, <3>1
    <3> QED
      BY <1>5, <1>8, <2>2, <2>4, <3>1, <3>2
  <2> QED
    BY <2>3, <2>4
<1>10. n \in 0..n
  BY <1>1
<1>11. g[n] = links
  BY <1>4, <1>9, <1>10
<1> QED
  BY <1>11, PlaceIs DEF g, n

LEMMA PlaceIsPlaced ==
    ASSUME NEW s, InHand(s)
    PROVE  IsPlaced(s, Place(s))
<1>1. PICK links : IsPlaced(s, links)
  BY PlacingExists
<1> QED
  BY <1>1, PlaceIsPlacing
-----------------------------------------------------------------------------
\* Settling.

\* Sets of interfaces, and of places in the order of names, are counted.
LEMMA InterfacesCount ==
    ASSUME NEW S, S \subseteq Interfaces
    PROVE  IsFiniteSet(Interfaces) /\ Cardinality(S) \in Nat
<1>1. /\ DOMAIN WiredOrder = 1..Len(WiredOrder) /\ Len(WiredOrder) \in Nat
      /\ DOMAIN RadioOrder = 1..Len(RadioOrder) /\ Len(RadioOrder) \in Nat
  BY HardwareAssumption
<1>2. IsFiniteSet(DOMAIN WiredOrder) /\ IsFiniteSet(DOMAIN RadioOrder)
  BY <1>1, FS_Interval
<1>3. WiredOrder \in Surjection(DOMAIN WiredOrder, WiredSet) /\ RadioOrder \in Surjection(DOMAIN RadioOrder, RadioSet)
  BY HardwareAssumption DEF Surjection, WiredSet, RadioSet
<1>4. IsFiniteSet(WiredSet) /\ IsFiniteSet(RadioSet)
  BY <1>2, <1>3, FS_Surjection
<1>5. IsFiniteSet(Interfaces)
  BY <1>4, FS_Union DEF Interfaces
<1> QED
  BY <1>5, FS_Subset, FS_CardinalityType

LEMMA NamesCount ==
    ASSUME NEW S, S \subseteq DOMAIN NameOrder
    PROVE  Cardinality(S) \in Nat
<1>1. DOMAIN NameOrder = 1..Len(NameOrder) /\ Len(NameOrder) \in Nat
  <2>1. WiredOrder \in Seq(Interfaces) /\ RadioOrder \in Seq(Interfaces)
    BY HardwareAssumption DEF Interfaces
  <2>2. NameOrder \in Seq(Interfaces)
    BY <2>1 DEF NameOrder
  <2> QED
    BY <2>2
<1>2. IsFiniteSet(DOMAIN NameOrder)
  BY <1>1, FS_Interval
<1> QED
  BY <1>2, FS_Subset, FS_CardinalityType

LEMMA NothingHeld == NoHeld \in Helds /\ NoHeld.candidate = 0
BY DEF NoHeld, Helds, Carrier, Established

LEMMA HeldOnType ==
    ASSUME NEW s, InHand(s), NEW links \in Linkings(Len(s.doc.attachments))
    PROVE  HeldOn(s, links) \in Holdings
<1>1. s.held \in [Interfaces -> Helds] /\ s.next \in Nat /\ Len(s.doc.attachments) \in Nat
  BY DEF InHand, Selectors, Holdings, Docs
<1>2. ASSUME NEW i \in Interfaces
      PROVE (IF links[i] = 0 THEN NoHeld
             ELSE IF Stays(s, links, i) THEN s.held[i]
             ELSE [candidate |-> links[i], attempt |-> AttemptNumber(s, links, i),
                   at |-> NextStage(Carrier, IsWireless(Candidate(s, links[i])))]) \in Helds
  <2>1. links[i] \in Nat
    BY <1>1 DEF Linkings
  <2>2. s.held[i] \in Helds
    BY <1>1
  <2>3. AttemptNumber(s, links, i) \in Nat
    <3> DEFINE S == {n \in DOMAIN NameOrder :
                       Fresh(s, links, NameOrder[n]) /\ \E m \in n..Len(NameOrder) : NameOrder[m] = i}
    <3>1. S \subseteq DOMAIN NameOrder
      OBVIOUS
    <3> HIDE DEF S
    <3>2. Cardinality(S) \in Nat
      BY <3>1, NamesCount
    <3>3. s.next + Cardinality(S) \in Nat
      BY <1>1, <3>2
    <3> QED
      BY <3>3 DEF AttemptNumber, S
  <2>4. NextStage(Carrier, IsWireless(Candidate(s, links[i]))) \in Carrier..Established
    BY DEF NextStage, Carrier, Association, Addressing, Established
  <2>5. [candidate |-> links[i], attempt |-> AttemptNumber(s, links, i),
         at |-> NextStage(Carrier, IsWireless(Candidate(s, links[i])))] \in Helds
    BY <2>1, <2>3, <2>4 DEF Helds
  <2> QED
    BY <2>2, <2>5, NothingHeld
<1> QED
  BY <1>2 DEF HeldOn, Holdings

\* What settling leaves of the channels, and how many attempts it begins.
Tuned(s, links) == [r \in RadioSet |-> IF Stays(s, links, r) THEN s.channels[r] ELSE "none"]
Begun(s, links) == Cardinality({i \in Interfaces : Fresh(s, links, i)})

\* The candidates on their interfaces, before the hotspot is placed.
Linked(s, links) ==
    [s EXCEPT !.held = HeldOn(s, links),
              !.next = @ + Cardinality({i \in Interfaces : Fresh(s, links, i)}),
              !.channels = [r \in RadioSet |-> IF Stays(s, links, r) THEN @[r] ELSE "none"]]

LEMMA SettleIs == ASSUME NEW s PROVE Settle(s) = WithHotspot(Linked(s, Place(s)))
BY DEF Settle, SettleOn, Linked

LEMMA LinkedIs ==
    ASSUME NEW s, InHand(s), NEW links \in Linkings(Len(s.doc.attachments))
    PROVE  /\ InHand(Linked(s, links))
           /\ Linked(s, links).doc = s.doc /\ Linked(s, links).carrier = s.carrier
           /\ Linked(s, links).heard = s.heard /\ Linked(s, links).failures = s.failures
           /\ Linked(s, links).hotspot = s.hotspot
           /\ Linked(s, links).held = HeldOn(s, links)
           /\ Linked(s, links).next = s.next + Begun(s, links)
           /\ Linked(s, links).channels = Tuned(s, links)
<1> DEFINE held == HeldOn(s, links)
           fresh == Begun(s, links)
           tuned == Tuned(s, links)
           z == Linked(s, links)
<1>1. held \in Holdings
  BY HeldOnType
<1>2. fresh \in Nat
  <2> DEFINE S == {i \in Interfaces : Fresh(s, links, i)}
  <2>1. S \subseteq Interfaces
    OBVIOUS
  <2> HIDE DEF S
  <2>2. Cardinality(S) \in Nat
    BY <2>1, InterfacesCount
  <2> QED
    BY <2>2 DEF S, Begun
<1>3. tuned \in Tunings
  <2>1. s.channels \in [RadioSet -> Channels \cup {"none"}]
    BY DEF InHand, Selectors, Tunings
  <2> QED
    BY <2>1 DEF Tunings, Tuned
<1>4. s \in Selectors
  BY DEF InHand
<1>5. z = [s EXCEPT !.held = held, !.next = s.next + fresh, !.channels = tuned]
  BY <1>4 DEF Linked, Selectors, Begun, Tuned
<1> HIDE DEF held, fresh, tuned, z
<1>6. /\ z \in Selectors
      /\ z.doc = s.doc /\ z.carrier = s.carrier /\ z.heard = s.heard /\ z.failures = s.failures
      /\ z.hotspot = s.hotspot /\ z.held = held /\ z.next = s.next + fresh /\ z.channels = tuned
  <2>1. s.next + fresh \in Nat
    BY <1>2, <1>4 DEF Selectors
  <2> DEFINE later == s.next + fresh
  <2>2. z = [s EXCEPT !.held = held, !.next = later, !.channels = tuned] /\ later \in Nat
    BY <1>5, <2>1
  <2> HIDE DEF later
  <2>3. /\ z \in Selectors
        /\ z.doc = s.doc /\ z.carrier = s.carrier /\ z.heard = s.heard /\ z.failures = s.failures
        /\ z.hotspot = s.hotspot /\ z.held = held /\ z.next = later /\ z.channels = tuned
    BY <1>1, <1>3, <1>4, <2>2 DEF Selectors
  <2> QED
    BY <2>3 DEF later
<1>7. InHand(z)
  BY <1>6 DEF InHand
<1> QED
  BY <1>6, <1>7 DEF z, held, fresh, tuned

LEMMA HotspotType ==
    ASSUME NEW s, InHand(s)
    PROVE  PlaceHotspot(s) \in Placements
<1> DEFINE best == Best(s, {r \in HotspotHosts(s.doc) : Tier(s, r) < 3})
           r == IF s.hotspot.radio \in best THEN s.hotspot.radio ELSE FirstOf(best)
<1>1. best \subseteq RadioSet
  BY DEF Best, HotspotHosts, HotspotRadios, RadiosFor
<1>2. NoPlacement \in Placements
  BY DEF NoPlacement, Placements
<1>3. CASE ~s.doc.hotspot.enabled \/ best = {}
  BY <1>2, <1>3 DEF PlaceHotspot, PlaceAmong
<1>4. CASE ~(~s.doc.hotspot.enabled \/ best = {})
  <2>1. r \in RadioSet
    <3> HIDE DEF best
    <3> QED
      BY <1>1, <1>4, FirstIsOne
  <2>2. PlaceHotspot(s) = PlacedOn(s, r)
    BY <1>4 DEF PlaceHotspot, PlaceAmong
  <2> HIDE DEF r
  <2>3. s.held[r] \in Helds /\ s.channels[r] \in Channels \cup {"none"}
    BY <2>1 DEF InHand, Selectors, Holdings, Tunings, Interfaces
  <2>4. s.held[r].candidate \in Nat
    BY <2>3 DEF Helds
  <2>5. Associated(s, r) \in Channels \cup {"none"}
    BY <2>3 DEF Associated
  <2>6. PlacedOn(s, r) \in Placements
    BY <2>1, <2>4, <2>5 DEF PlacedOn, Placements
  <2> QED
    BY <2>2, <2>6
<1> QED
  BY <1>3, <1>4

LEMMA WithHotspotIs ==
    ASSUME NEW s, InHand(s)
    PROVE  /\ InHand(WithHotspot(s))
           /\ WithHotspot(s).doc = s.doc /\ WithHotspot(s).carrier = s.carrier
           /\ WithHotspot(s).heard = s.heard /\ WithHotspot(s).failures = s.failures
           /\ WithHotspot(s).held = s.held /\ WithHotspot(s).next = s.next
           /\ WithHotspot(s).channels = s.channels
           /\ WithHotspot(s).hotspot = PlaceHotspot(s)
<1> DEFINE h == PlaceHotspot(s)
           y == WithHotspot(s)
<1>1. h \in Placements /\ s \in Selectors
  BY HotspotType DEF InHand
<1>2. y = [s EXCEPT !.hotspot = h]
  BY DEF WithHotspot
<1> HIDE DEF h, y
<1>3. /\ y \in Selectors
      /\ y.doc = s.doc /\ y.carrier = s.carrier /\ y.heard = s.heard /\ y.failures = s.failures
      /\ y.held = s.held /\ y.next = s.next /\ y.channels = s.channels /\ y.hotspot = h
  BY <1>1, <1>2 DEF Selectors
<1>4. InHand(y)
  BY <1>3 DEF InHand
<1> QED
  BY <1>3, <1>4 DEF y, h

\* Settling leaves what was observed and reported as it is.
LEMMA SettleKeeps ==
    ASSUME NEW s, InHand(s)
    PROVE  /\ InHand(Settle(s))
           /\ Settle(s).doc = s.doc /\ Settle(s).carrier = s.carrier
           /\ Settle(s).heard = s.heard /\ Settle(s).failures = s.failures
           /\ Settle(s).held = HeldOn(s, Place(s))
           /\ Settle(s).next = s.next + Begun(s, Place(s))
           /\ Settle(s).channels = Tuned(s, Place(s))
           /\ Settle(s).hotspot = PlaceHotspot(Linked(s, Place(s)))
<1>1. Place(s) \in Linkings(Len(s.doc.attachments))
  BY PlaceIsPlaced DEF IsPlaced, PlacedTo
<1>2. PICK links \in Linkings(Len(s.doc.attachments)) : links = Place(s)
  BY <1>1
<1>3. PICK z : z = Linked(s, links)
  OBVIOUS
<1>4. /\ InHand(z) /\ z.doc = s.doc /\ z.carrier = s.carrier /\ z.heard = s.heard
      /\ z.failures = s.failures /\ z.held = HeldOn(s, links)
      /\ z.next = s.next + Begun(s, links) /\ z.channels = Tuned(s, links)
  BY <1>3, LinkedIs
<1>5. Settle(s) = WithHotspot(z)
  BY <1>2, <1>3, SettleIs
<1>6. /\ InHand(WithHotspot(z))
      /\ WithHotspot(z).doc = z.doc /\ WithHotspot(z).carrier = z.carrier
      /\ WithHotspot(z).heard = z.heard /\ WithHotspot(z).failures = z.failures
      /\ WithHotspot(z).held = z.held /\ WithHotspot(z).next = z.next
      /\ WithHotspot(z).channels = z.channels
      /\ WithHotspot(z).hotspot = PlaceHotspot(z)
  BY <1>4, WithHotspotIs
<1> QED
  BY <1>2, <1>3, <1>4, <1>5, <1>6

\* Each interface holds the candidate placed on it, and no candidate is on
\* two of them.
LEMMA HoldsPlaced ==
    ASSUME NEW s, NEW links, NEW i \in Interfaces
    PROVE  HeldOn(s, links)[i].candidate = links[i]
<1>1. CASE links[i] = 0
  BY <1>1, NothingHeld DEF HeldOn
<1>2. CASE links[i] # 0 /\ Stays(s, links, i)
  BY <1>2 DEF HeldOn, Stays
<1>3. CASE links[i] # 0 /\ ~Stays(s, links, i)
  BY <1>3 DEF HeldOn
<1> QED
  BY <1>1, <1>2, <1>3

LEMMA PlacedOnce ==
    ASSUME NEW s, InHand(s), NEW links, IsPlaced(s, links),
           NEW i \in Interfaces, NEW j \in Interfaces, links[i] # 0, links[j] = links[i]
    PROVE  i = j
<1>1. links[i] \in 1..Len(s.doc.attachments)
  BY DEF InHand, Selectors, Docs, IsPlaced, PlacedTo, Linkings
<1> QED
  BY <1>1 DEF IsPlaced, PlacedTo

\* What is held does not come into whether a candidate is available.
SameSenses(s, t) ==
    /\ t.doc = s.doc /\ t.carrier = s.carrier /\ t.heard = s.heard /\ t.failures = s.failures

LEMMA SensesTell ==
    ASSUME NEW s, NEW t, SameSenses(s, t), NEW rank, NEW links
    PROVE  /\ Candidate(t, rank) = Candidate(s, rank) /\ Ranks(t) = Ranks(s)
           /\ Hearing(t, Candidate(s, rank)) = Hearing(s, Candidate(s, rank))
           /\ Available(t, rank) <=> Available(s, rank)
           /\ \A r : SparesHotspot(t, r, links) <=> SparesHotspot(s, r, links)
           /\ Could(t, rank, links) = Could(s, rank, links)
           /\ Free(t, rank, links) = Free(s, rank, links)
<1>1. Candidate(t, rank) = Candidate(s, rank) /\ Ranks(t) = Ranks(s)
  BY DEF SameSenses, Candidate, Ranks
<1>2. Hearing(t, Candidate(s, rank)) = Hearing(s, Candidate(s, rank))
  BY DEF SameSenses, Hearing
<1>3. HasCarrier(t, rank) <=> HasCarrier(s, rank)
  BY <1>1, <1>2 DEF SameSenses, HasCarrier
<1>4. Available(t, rank) <=> Available(s, rank)
  BY <1>1, <1>3 DEF SameSenses, Available
<1>5. \A r : SparesHotspot(t, r, links) <=> SparesHotspot(s, r, links)
  BY DEF SameSenses, SparesHotspot
<1>6. Could(t, rank, links) = Could(s, rank, links)
  BY <1>1, <1>2, <1>5 DEF Could
<1>7. Free(t, rank, links) = Free(s, rank, links)
  BY <1>6 DEF Free
<1> QED
  BY <1>1, <1>2, <1>4, <1>5, <1>6, <1>7

\* A candidate that is where it would be placed is placed there.
LEMMA StaysPlaced ==
    ASSUME NEW s, InHand(s), NEW t, InHand(t), SameSenses(s, t), NEW links, IsPlaced(s, links),
           \A i \in Interfaces : t.held[i].candidate = links[i]
    PROVE  IsPlaced(t, links)
<1>1. Len(t.doc.attachments) = Len(s.doc.attachments) /\ Ranks(s) = 1..Len(s.doc.attachments)
  BY DEF SameSenses, InHand, Selectors, Docs, Ranks
<1>2. "none" \notin Interfaces
  BY HardwareAssumption
<1>3. ASSUME NEW k \in Ranks(s)
      PROVE  Goes(t, k, Upto(links, k)) = Goes(s, k, Upto(links, k))
  <2> DEFINE free == Free(s, k, Upto(links, k))
             c == Candidate(s, k)
             g == Goes(s, k, Upto(links, k))
  <2>0. Free(t, k, Upto(links, k)) = free
    BY SensesTell
  <2>1. Goes(s, k, Upto(links, k)) = GoesAmong(s, k, free) /\ Goes(t, k, Upto(links, k)) = GoesAmong(t, k, free)
    BY <2>0, GoesFree
  <2>2. Candidate(t, k) = c /\ (Available(t, k) <=> Available(s, k))
    BY SensesTell
  <2>3. CASE ~Available(s, k) \/ free = {} \/ ~IsWireless(c)
    <3> HIDE DEF free, c
    <3> QED
      BY <2>1, <2>2, <2>3 DEF GoesAmong, c
  <2>4. CASE Available(s, k) /\ free # {} /\ IsWireless(c)
    <3>1. g \in free /\ free \subseteq Interfaces
      BY <2>4, GoesIs, CouldAre DEF Free
    <3>2. \A i \in Interfaces : links[i] = k <=> g = i
      BY <1>1 DEF IsPlaced, PlacedTo
    <3>3. Current(t, k) = {g}
      <4> HIDE DEF g, free
      <4> QED
        BY <3>1, <3>2 DEF Current
    <3> HIDE DEF g, free, c
    <3>4. GoesAmong(t, k, free) = g
      BY <2>2, <2>4, <3>1, <3>3 DEF GoesAmong
    <3> QED
      BY <2>1, <3>4 DEF g
  <2> QED
    BY <2>3, <2>4
<1> QED
  BY <1>1, <1>3 DEF IsPlaced, PlacedTo

LEMMA SettledPlaces ==
    ASSUME NEW s, InHand(s)
    PROVE  /\ SameSenses(s, Settle(s)) /\ Place(Settle(s)) = Place(s)
           /\ \A i \in Interfaces : Settle(s).held[i].candidate = Place(s)[i]
<1>1. PICK t : t = Settle(s)
  OBVIOUS
<1>2. PICK links : links = Place(s)
  OBVIOUS
<1>3. SameSenses(s, t) /\ InHand(t) /\ t.held = HeldOn(s, links)
  BY <1>1, <1>2, SettleKeeps DEF SameSenses
<1>4. \A i \in Interfaces : t.held[i].candidate = links[i]
  BY <1>3, HoldsPlaced
<1>5. IsPlaced(s, links)
  BY <1>2, PlaceIsPlaced
<1>6. IsPlaced(t, links)
  BY <1>3, <1>4, <1>5, StaysPlaced
<1>7. Place(t) = links
  BY <1>3, <1>6, PlaceIsPlacing
<1> QED
  BY <1>1, <1>2, <1>3, <1>4, <1>7

\* The hotspot stays among the best, the best being told of no more than
\* the document and what is held.
LEMMA BestTells ==
    ASSUME NEW s, NEW t, t.doc = s.doc, t.held = s.held
    PROVE  Best(t, {r \in HotspotHosts(t.doc) : Tier(t, r) < 3})
           = Best(s, {r \in HotspotHosts(s.doc) : Tier(s, r) < 3})
<1>1. \A r : Tier(t, r) = Tier(s, r)
  BY DEF Tier
<1> QED
  BY <1>1 DEF Best

LEMMA HotspotStays ==
    ASSUME NEW s, InHand(s), NEW t, t.doc = s.doc, t.held = s.held, t.channels = s.channels,
           t.hotspot = PlaceHotspot(s)
    PROVE  PlaceHotspot(t) = t.hotspot
<1> DEFINE best == Best(s, {r \in HotspotHosts(s.doc) : Tier(s, r) < 3})
           r == IF s.hotspot.radio \in best THEN s.hotspot.radio ELSE FirstOf(best)
<1>1. PlaceHotspot(s) = PlaceAmong(s, best) /\ PlaceHotspot(t) = PlaceAmong(t, best)
  BY BestTells DEF PlaceHotspot
<1>2. CASE ~s.doc.hotspot.enabled \/ best = {}
  BY <1>1, <1>2 DEF PlaceAmong
<1>3. CASE ~(~s.doc.hotspot.enabled \/ best = {})
  <2>1. best \subseteq RadioSet
    BY DEF Best, HotspotHosts, HotspotRadios, RadiosFor
  <2>2. r \in best
    <3> HIDE DEF best
    <3> QED
      BY <1>3, <2>1, FirstIsOne
  <2>3. PlaceAmong(s, best) = PlacedOn(s, r)
    BY <1>3 DEF PlaceAmong
  <2> HIDE DEF r, best
  <2>4. PlacedOn(s, r).radio = r
    BY DEF PlacedOn
  <2>5. t.hotspot.radio = r
    BY <1>1, <2>3, <2>4
  <2>6. PlaceAmong(t, best) = PlacedOn(t, r)
    BY <1>3, <2>2, <2>5 DEF PlaceAmong
  <2>7. PlacedOn(t, r) = PlacedOn(s, r)
    BY DEF PlacedOn, Associated
  <2> QED
    BY <1>1, <2>3, <2>6, <2>7
<1> QED
  BY <1>2, <1>3

LEMMA SameSelector ==
    ASSUME NEW s \in Selectors, NEW t \in Selectors, SameSenses(s, t), t.channels = s.channels,
           t.held = s.held, t.hotspot = s.hotspot, t.next = s.next
    PROVE  t = s
BY DEF Selectors, SameSenses

\* Settling what has settled changes nothing.
LEMMA SettledStays ==
    ASSUME NEW s, InHand(s)
    PROVE  Settle(Settle(s)) = Settle(s)
<1>1. PICK t : t = Settle(s)
  OBVIOUS
<1>2. PICK u : u = Settle(t)
  OBVIOUS
<1>3. PICK links : links = Place(s)
  OBVIOUS
<1>4. /\ InHand(t) /\ SameSenses(s, t) /\ Place(t) = links
      /\ \A i \in Interfaces : t.held[i].candidate = links[i]
  BY <1>1, <1>3, SettledPlaces, SettleKeeps
<1>5. t.held = HeldOn(s, links)
  BY <1>1, <1>3, SettleKeeps
<1>6. t.channels = Tuned(s, links)
  BY <1>1, <1>3, SettleKeeps
<1>7. t.hotspot = PlaceHotspot(Linked(s, links))
  BY <1>1, <1>3, SettleKeeps
<1>8. /\ InHand(u) /\ SameSenses(t, u) /\ u.held = HeldOn(t, links)
      /\ u.next = t.next + Begun(t, links) /\ u.channels = Tuned(t, links)
      /\ u.hotspot = PlaceHotspot(Linked(t, links))
  BY <1>2, <1>4, SettleKeeps DEF SameSenses
<1>9. t.held \in Holdings /\ t.channels \in Tunings /\ t.next \in Nat
  BY <1>4 DEF InHand, Selectors
<1>10. u.held = t.held
  <2>1. ASSUME NEW i \in Interfaces PROVE HeldOn(t, links)[i] = t.held[i]
    <3>1. CASE links[i] = 0
      <4>1. t.held[i] = NoHeld
        BY <1>5, <3>1 DEF HeldOn
      <4> QED
        BY <3>1, <4>1 DEF HeldOn
    <3>2. CASE links[i] # 0
      BY <1>4, <3>2 DEF HeldOn, Stays
    <3> QED
      BY <3>1, <3>2
  <2>2. HeldOn(t, links) = [i \in Interfaces |-> HeldOn(t, links)[i]]
    BY DEF HeldOn
  <2>3. t.held = [i \in Interfaces |-> t.held[i]]
    BY <1>9 DEF Holdings
  <2>4. HeldOn(t, links) = t.held
    BY <2>1, <2>2, <2>3
  <2> QED
    BY <1>8, <2>4
<1>11. u.next = t.next
  <2>1. {i \in Interfaces : Fresh(t, links, i)} = {}
    BY <1>4 DEF Fresh
  <2>2. Cardinality({}) = 0
    BY FS_EmptySet
  <2> QED
    BY <1>8, <1>9, <2>1, <2>2 DEF Begun
<1>12. u.channels = t.channels
  <2>1. ASSUME NEW r \in RadioSet
        PROVE (IF Stays(t, links, r) THEN t.channels[r] ELSE "none") = t.channels[r]
    <3>1. r \in Interfaces
      BY DEF Interfaces
    <3>2. CASE links[r] # 0
      BY <1>4, <3>1, <3>2 DEF Stays
    <3>3. CASE links[r] = 0
      BY <1>6, <3>3 DEF Stays, Tuned
    <3> QED
      BY <3>2, <3>3
  <2>2. t.channels = [r \in RadioSet |-> t.channels[r]]
    BY <1>9 DEF Tunings
  <2> QED
    BY <1>8, <2>1, <2>2 DEF Tuned
<1>13. u.hotspot = t.hotspot
  <2>1. links \in Linkings(Len(s.doc.attachments)) /\ links \in Linkings(Len(t.doc.attachments))
    BY <1>3, <1>4, PlaceIsPlaced DEF IsPlaced, PlacedTo, SameSenses
  <2>2. PICK z : z = Linked(s, links)
    OBVIOUS
  <2>3. InHand(z) /\ z.doc = s.doc /\ z.held = t.held /\ z.channels = t.channels
    BY <1>5, <1>6, <2>1, <2>2, LinkedIs
  <2>4. PICK y : y = Linked(t, links)
    OBVIOUS
  <2>5. y.doc = t.doc /\ y.held = u.held /\ y.channels = u.channels /\ y.hotspot = t.hotspot
    BY <1>4, <1>8, <2>1, <2>4, LinkedIs
  <2>6. y.hotspot = PlaceHotspot(z) /\ y.doc = z.doc /\ y.held = z.held /\ y.channels = z.channels
    BY <1>4, <1>7, <1>10, <1>12, <2>2, <2>3, <2>5 DEF SameSenses
  <2>7. PlaceHotspot(y) = y.hotspot
    BY <2>3, <2>6, HotspotStays
  <2> QED
    BY <1>8, <2>4, <2>5, <2>7
<1>14. u = t
  BY <1>4, <1>8, <1>10, <1>11, <1>12, <1>13, SameSelector DEF InHand
<1> QED
  BY <1>1, <1>2, <1>14
-----------------------------------------------------------------------------
\* What has settled.
Settled(s) == InHand(s) /\ Settle(s) = s

LEMMA SettledIs ==
    ASSUME NEW s, Settled(s)
    PROVE  /\ InHand(s) /\ IsPlaced(s, Place(s))
           /\ \A i \in Interfaces : s.held[i].candidate = Place(s)[i]
BY PlaceIsPlaced, SettledPlaces DEF Settled

\* A candidate left out though available has every interface it could go
\* on taken by one above it.
LEMMA LeftOutForCause ==
    ASSUME NEW s, InHand(s), NEW links, IsPlaced(s, links), NEW rank \in Ranks(s),
           Available(s, rank), \A i \in Interfaces : links[i] # rank
    PROVE  \A i \in Could(s, rank, Upto(links, rank)) : links[i] # 0 /\ links[i] < rank
<1>1. rank \in 1..Len(s.doc.attachments)
  BY DEF InHand, Selectors, Docs, Ranks
<1> DEFINE below == Upto(links, rank)
<1>2. Goes(s, rank, below) \notin Interfaces
  BY <1>1 DEF IsPlaced, PlacedTo
<1>3. Free(s, rank, below) = {}
  BY <1>2, GoesIs, CouldAre DEF Free
<1>4. Could(s, rank, below) \subseteq Interfaces
  BY CouldAre
<1>5. \A i \in Interfaces : below[i] = IF links[i] < rank THEN links[i] ELSE 0
  BY DEF Upto
<1> HIDE DEF below
<1>6. \A i \in Could(s, rank, below) : links[i] # 0 /\ links[i] < rank
  BY <1>3, <1>4, <1>5 DEF Free
<1> QED
  BY <1>6 DEF below

\* Being last, no client on a one-at-a-time radio takes the only radio the
\* hotspot has.
LEMMA RadioIsLeft ==
    ASSUME NEW s, InHand(s), NEW links, IsPlaced(s, links), s.doc.hotspot.enabled, Admits(s.doc)
    PROVE  \E r \in HotspotHosts(s.doc) : Alongside[r] # "one" \/ links[r] = 0
<1> DEFINE hosts == HotspotHosts(s.doc)
           n == Len(s.doc.attachments)
<1>1. hosts # {}
  BY DEF Admits
<1>2. hosts \subseteq RadioSet /\ hosts \subseteq Interfaces
  BY DEF HotspotHosts, HotspotRadios, RadiosFor, Interfaces
<1>3. n \in Nat /\ links \in [Interfaces -> 0..n] /\ Ranks(s) = 1..n
  BY DEF InHand, Selectors, Docs, IsPlaced, PlacedTo, Linkings, Ranks
<1> SUFFICES ASSUME \A r \in hosts : Alongside[r] = "one" /\ links[r] # 0 PROVE FALSE
  OBVIOUS
<1>4. \A r \in hosts : links[r] \in 0..n
  BY <1>2, <1>3
<1>5. PICK r \in hosts : \A q \in hosts : links[q] <= links[r]
  <2> HIDE DEF hosts, n
  <2> QED
    BY <1>1, <1>3, <1>4, MostOf
<1> DEFINE rank == links[r]
           below == Upto(links, rank)
<1>6. rank \in Ranks(s) /\ rank \in 1..n
  BY <1>3, <1>4
<1>7. Goes(s, rank, below) = r
  BY <1>2, <1>6 DEF IsPlaced, PlacedTo
<1>8. r \in Could(s, rank, below)
  <2>1. r # "none"
    BY <1>2, HardwareAssumption
  <2> QED
    BY <1>6, <1>7, <2>1, GoesIs DEF Free
<1>9. IsWireless(Candidate(s, rank))
  <2> SUFFICES ASSUME ~IsWireless(Candidate(s, rank)) PROVE FALSE
    OBVIOUS
  <2>1. r = Candidate(s, rank).on
    BY <1>8 DEF Could
  <2>2. Candidate(s, rank).on \in WiredSet
    BY <1>6 DEF InHand, Checked, Check, Candidate, Ranks
  <2> QED
    BY <1>2, <2>1, <2>2, HardwareAssumption
<1>10. SparesHotspot(s, r, below)
  BY <1>8, <1>9 DEF Could
<1>11. PICK other \in hosts \ {r} : below[other] = 0
  BY <1>10 DEF SparesHotspot
<1>12. links[other] = rank
  <2>1. below[other] = IF links[other] < rank THEN links[other] ELSE 0
    BY <1>2 DEF Upto
  <2>2. links[other] # 0 /\ links[other] <= rank
    BY <1>5
  <2> HIDE DEF below, rank, hosts
  <2>3. links[other] \in Nat /\ rank \in Nat
    BY <1>3, <1>4, <1>6, <1>11
  <2> QED
    BY <1>11, <2>1, <2>2, <2>3
<1>13. other = r
  BY <1>2, <1>12, PlacedOnce
<1> QED
  BY <1>11, <1>13

LEMMA HostIsBest ==
    ASSUME NEW s, NEW options, options # {}
    PROVE  Best(s, options) # {} /\ Best(s, options) \subseteq options
<1> DEFINE tiers == {Tier(s, r) : r \in options}
<1>1. tiers \subseteq Nat /\ tiers # {}
  BY DEF Tier
<1>2. PICK t \in tiers : \A u \in tiers : t <= u
  <2> HIDE DEF tiers
  <2> QED
    BY <1>1, LeastOf
<1>3. PICK r \in options : t = Tier(s, r)
  OBVIOUS
<1>4. \A q \in options : Tier(s, r) <= Tier(s, q)
  BY <1>2, <1>3
<1> QED
  BY <1>4 DEF Best

LEMMA HotspotIsPlaced ==
    ASSUME NEW s, Settled(s), s.doc.hotspot.enabled, Admits(s.doc)
    PROVE  /\ s.hotspot.radio \in HotspotHosts(s.doc)
           /\ Alongside[s.hotspot.radio] = "one" => s.held[s.hotspot.radio].candidate = 0
<1>1. PICK links : links = Place(s)
  OBVIOUS
<1>2. InHand(s) /\ IsPlaced(s, links) /\ \A i \in Interfaces : s.held[i].candidate = links[i]
  BY <1>1, SettledIs
<1>3. links \in Linkings(Len(s.doc.attachments))
  BY <1>2 DEF IsPlaced, PlacedTo
<1>4. PICK z : z = Linked(s, links)
  OBVIOUS
<1>5. z.doc = s.doc /\ z.held = s.held /\ s.hotspot = PlaceHotspot(z)
  BY <1>1, <1>2, <1>3, <1>4, LinkedIs, SettleKeeps DEF Settled
<1> DEFINE options == {r \in HotspotHosts(s.doc) : Tier(s, r) < 3}
           best == Best(s, options)
           r == IF z.hotspot.radio \in best THEN z.hotspot.radio ELSE FirstOf(best)
<1>6. HotspotHosts(s.doc) \subseteq RadioSet /\ HotspotHosts(s.doc) \subseteq Interfaces
  BY DEF HotspotHosts, HotspotRadios, RadiosFor, Interfaces
<1>7. options # {}
  <2>1. PICK q \in HotspotHosts(s.doc) : Alongside[q] # "one" \/ links[q] = 0
    BY <1>2, RadioIsLeft
  <2>2. Alongside[q] # "none" /\ Alongside[q] \in {"none", "independent", "shared", "one"}
    BY <1>6, <2>1, HardwareAssumption DEF HotspotHosts, HotspotRadios
  <2>3. Tier(s, q) < 3
    BY <1>2, <1>6, <2>1, <2>2 DEF Tier
  <2> QED
    BY <2>1, <2>3
<1>8. best # {} /\ best \subseteq options
  <2> HIDE DEF options
  <2> QED
    BY <1>7, HostIsBest
<1>9. r \in best
  <2>1. best \subseteq RadioSet
    BY <1>6, <1>8
  <2> HIDE DEF best
  <2> QED
    BY <1>8, <2>1, FirstIsOne
<1>10. s.hotspot = PlaceAmong(z, best)
  BY <1>5, BestTells DEF PlaceHotspot
<1>11. PlaceAmong(z, best) = PlacedOn(z, r)
  <2> HIDE DEF best
  <2> QED
    BY <1>5, <1>8 DEF PlaceAmong
<1>12. s.hotspot.radio = r
  <2> HIDE DEF r
  <2> QED
    BY <1>10, <1>11 DEF PlacedOn
<1>13. r \in HotspotHosts(s.doc) /\ Tier(s, r) < 3
  <2> HIDE DEF r
  <2> QED
    BY <1>8, <1>9
<1> HIDE DEF r
<1>14. Alongside[r] = "one" => s.held[r].candidate = 0
  BY <1>13 DEF Tier
<1> QED
  BY <1>12, <1>13, <1>14

\* A candidate on standby is available and on no interface.
LEMMA StandbyIs ==
    ASSUME NEW s, NEW rank, StateOf(s, rank).is = "standby"
    PROVE  Available(s, rank) /\ \A i \in Interfaces : s.held[i].candidate # rank
<1>1. Current(s, rank) = {}
  <2> SUFFICES ASSUME Current(s, rank) # {} PROVE FALSE
    OBVIOUS
  <2> DEFINE at == s.held[CHOOSE i \in Current(s, rank) : TRUE].at
  <2>1. StateOf(s, rank) = IF at # Established THEN [is |-> "verifying", at |-> at]
                           ELSE [is |-> IF rank = DefaultRoute(s) THEN "default-route" ELSE "up", at |-> 0]
    BY DEF StateOf
  <2> HIDE DEF at
  <2> QED
    BY <2>1
<1>2. StateOf(s, rank) =
          IF ~Candidate(s, rank).enabled THEN [is |-> "off", at |-> 0]
          ELSE IF ~HasCarrier(s, rank) THEN [is |-> "unavailable", at |-> Carrier]
          ELSE IF s.failures[rank] # 0 THEN [is |-> "unavailable", at |-> s.failures[rank]]
          ELSE [is |-> "standby", at |-> 0]
  BY <1>1 DEF StateOf
<1>3. Candidate(s, rank).enabled /\ HasCarrier(s, rank) /\ s.failures[rank] = 0
  BY <1>2
<1> QED
  BY <1>1, <1>3 DEF Available, Current

\* What settling is given: the selector with something new in it, each
\* interface holding the attempt it held, or just as it held it.
Noted(s, t) ==
    /\ InHand(t) /\ t.doc = s.doc /\ t.next = s.next
    /\ \A i \in Interfaces : /\ t.held[i].candidate = s.held[i].candidate
                             /\ t.held[i].attempt = s.held[i].attempt

Sensed(s, t) == InHand(t) /\ t.doc = s.doc /\ t.next = s.next /\ t.held = s.held

LEMMA SensedIsNoted ==
    ASSUME NEW s, NEW t, Sensed(s, t)
    PROVE  Noted(s, t)
BY DEF Sensed, Noted

LEMMA SequenceIs ==
    ASSUME NEW n \in Nat, NEW S
    PROVE  /\ \A f \in Seq(S) : Len(f) = n => \A m \in 1..n : f[m] \in S
           /\ \A f \in [1..n -> S] : f \in Seq(S) /\ Len(f) = n
OBVIOUS

LEMMA SensedCarrier ==
    ASSUME NEW s, InHand(s), NEW c \in SUBSET WiredSet
    PROVE  Sensed(s, [s EXCEPT !.carrier = c])
BY DEF Sensed, InHand, Selectors

LEMMA SensedHeard ==
    ASSUME NEW s, InHand(s), NEW h \in Hearings
    PROVE  Sensed(s, [s EXCEPT !.heard = h])
BY DEF Sensed, InHand, Selectors

LEMMA SensedChannels ==
    ASSUME NEW s, InHand(s), NEW c \in Tunings
    PROVE  Sensed(s, [s EXCEPT !.channels = c])
BY DEF Sensed, InHand, Selectors

LEMMA SensedFailures ==
    ASSUME NEW s, InHand(s), NEW f \in Seq(0..Gateway), Len(f) = Len(s.doc.attachments)
    PROVE  Sensed(s, [s EXCEPT !.failures = f])
BY DEF Sensed, InHand, Selectors

LEMMA NotedHeld ==
    ASSUME NEW s, InHand(s), NEW h \in Holdings,
           \A i \in Interfaces : h[i].candidate = s.held[i].candidate /\ h[i].attempt = s.held[i].attempt
    PROVE  Noted(s, [s EXCEPT !.held = h])
BY DEF Noted, InHand, Selectors

LEMMA SensedTwice ==
    ASSUME NEW s, NEW t, NEW u, Sensed(s, t), Sensed(t, u)
    PROVE  Sensed(s, u)
BY DEF Sensed

LEMMA SensedSelf ==
    ASSUME NEW s, InHand(s)
    PROVE  Sensed(s, s)
BY DEF Sensed

LEMMA AnewSensed ==
    ASSUME NEW s, InHand(s), NEW ranks
    PROVE  Sensed(s, Anew(s, ranks))
<1> DEFINE f == [rank \in Ranks(s) |-> IF rank \in ranks THEN 0 ELSE s.failures[rank]]
<1>1. /\ s.doc.attachments \in Seq(Candidates) /\ s.failures \in Seq(0..Gateway)
      /\ Len(s.failures) = Len(s.doc.attachments)
  BY DEF InHand, Selectors, Docs
<1>2. f \in Seq(0..Gateway) /\ Len(f) = Len(s.doc.attachments)
  <2>1. PICK n \in Nat : n = Len(s.doc.attachments)
    BY <1>1
  <2>2. Ranks(s) = 1..n
    BY <1>1, <2>1 DEF Ranks
  <2>3. \A rank \in 1..n : s.failures[rank] \in 0..Gateway
    BY <1>1, <2>1, SequenceIs
  <2>4. f \in [1..n -> 0..Gateway]
    BY <2>2, <2>3 DEF Gateway
  <2> HIDE DEF f
  <2> QED
    BY <2>1, <2>4, SequenceIs
<1>3. Anew(s, ranks) = [s EXCEPT !.failures = f]
  BY DEF Anew
<1> HIDE DEF f
<1> QED
  BY <1>2, <1>3, SensedFailures

LEMMA CarrierUpNotes ==
    ASSUME NEW s, InHand(s), NEW i \in WiredSet
    PROVE  \E t : Sensed(s, t) /\ CarrierUp(s, i) = Settle(t)
<1> DEFINE up == [s EXCEPT !.carrier = s.carrier \cup {i}]
           ranks == {rank \in Ranks(s) : ~IsWireless(Candidate(s, rank)) /\ Candidate(s, rank).on = i}
<1>1. s.carrier \cup {i} \in SUBSET WiredSet
  BY DEF InHand, Selectors
<1>2. Sensed(s, up)
  BY <1>1, SensedCarrier
<1>3. CarrierUp(s, i) = Settle(IF i \in s.carrier THEN up ELSE Anew(up, ranks))
  BY DEF CarrierUp
<1> HIDE DEF up, ranks
<1>4. Sensed(s, Anew(up, ranks))
  BY <1>2, AnewSensed, SensedTwice DEF Sensed
<1> QED
  BY <1>2, <1>3, <1>4

LEMMA CarrierDownNotes ==
    ASSUME NEW s, InHand(s), NEW i \in WiredSet
    PROVE  \E t : Sensed(s, t) /\ CarrierDown(s, i) = Settle(t)
<1> DEFINE down == [s EXCEPT !.carrier = s.carrier \ {i}]
<1>1. s.carrier \ {i} \in SUBSET WiredSet
  BY DEF InHand, Selectors
<1>2. Sensed(s, down)
  BY <1>1, SensedCarrier
<1>3. CarrierDown(s, i) = Settle(down)
  BY DEF CarrierDown
<1> QED
  BY <1>2, <1>3

LEMMA HeardType ==
    ASSUME NEW s, InHand(s), NEW r \in RadioSet, NEW ssid \in Ssids, NEW signal \in 0..MaxSignal
    PROVE  \E h \in Hearings : [s EXCEPT !.heard[r][ssid] = signal] = [s EXCEPT !.heard = h]
<1>1. s.heard \in [RadioSet -> [Ssids -> 0..MaxSignal]]
  BY DEF InHand, Selectors, Hearings
<1> DEFINE h == [s.heard EXCEPT ![r] = [s.heard[r] EXCEPT ![ssid] = signal]]
<1>2. s.heard[r] \in [Ssids -> 0..MaxSignal]
  BY <1>1
<1>3. [s.heard[r] EXCEPT ![ssid] = signal] \in [Ssids -> 0..MaxSignal]
  BY <1>2
<1>4. h \in Hearings
  BY <1>1, <1>3 DEF Hearings
<1>5. [s EXCEPT !.heard[r][ssid] = signal] = [s EXCEPT !.heard = h]
  OBVIOUS
<1> QED
  BY <1>4, <1>5

LEMMA InRangeNotes ==
    ASSUME NEW s, InHand(s), NEW r \in RadioSet, NEW ssid \in Ssids, NEW signal \in 1..MaxSignal
    PROVE  \E t : Sensed(s, t) /\ InRange(s, r, ssid, signal) = Settle(t)
<1> DEFINE hears == [s EXCEPT !.heard[r][ssid] = signal]
           ranks == {rank \in Ranks(s) :
                       LET c == Candidate(s, rank) IN
                       IsWireless(c) /\ c.ssid = ssid /\ c.on \in {"any", r}}
<1>1. signal \in 0..MaxSignal
  BY HardwareAssumption
<1>2. Sensed(s, hears)
  <2>1. PICK h \in Hearings : hears = [s EXCEPT !.heard = h]
    BY <1>1, HeardType
  <2>2. Sensed(s, [s EXCEPT !.heard = h])
    BY SensedHeard
  <2> QED
    BY <2>1, <2>2
<1>3. InRange(s, r, ssid, signal) = Settle(IF s.heard[r][ssid] > 0 THEN hears ELSE Anew(hears, ranks))
  BY DEF InRange
<1> HIDE DEF hears, ranks
<1>4. Sensed(s, Anew(hears, ranks))
  BY <1>2, AnewSensed, SensedTwice DEF Sensed
<1> QED
  BY <1>2, <1>3, <1>4

LEMMA OutOfRangeNotes ==
    ASSUME NEW s, InHand(s), NEW r \in RadioSet, NEW ssid \in Ssids
    PROVE  \E t : Sensed(s, t) /\ OutOfRange(s, r, ssid) = Settle(t)
<1>1. 0 \in 0..MaxSignal
  BY HardwareAssumption
<1>2. PICK h \in Hearings : [s EXCEPT !.heard[r][ssid] = 0] = [s EXCEPT !.heard = h]
  BY <1>1, HeardType
<1>3. Sensed(s, [s EXCEPT !.heard = h])
  BY SensedHeard
<1> QED
  BY <1>2, <1>3 DEF OutOfRange

LEMMA StationChannelNotes ==
    ASSUME NEW s, InHand(s), NEW r \in RadioSet, NEW channel \in Channels \cup {"none"}
    PROVE  \E t : Sensed(s, t) /\ StationChannel(s, r, channel) = Settle(t)
<1> DEFINE c == [s.channels EXCEPT ![r] = channel]
<1>1. s.channels \in [RadioSet -> Channels \cup {"none"}]
  BY DEF InHand, Selectors, Tunings
<1>2. c \in Tunings
  BY <1>1 DEF Tunings
<1>3. [s EXCEPT !.channels[r] = channel] = [s EXCEPT !.channels = c]
  OBVIOUS
<1>4. Sensed(s, [s EXCEPT !.channels = c])
  BY <1>2, SensedChannels
<1> QED
  BY <1>3, <1>4 DEF StationChannel

\* A stage passed is the next one for the attempt that was at it.
MovesOn(s, t, attempt, stage) ==
    \A i \in Interfaces :
        t.held[i].at = IF i \in On(s, attempt) /\ s.held[i].at = stage THEN stage + 1 ELSE s.held[i].at

LEMMA PassedNotes ==
    ASSUME NEW s, InHand(s), NEW attempt, NEW stage \in Association..Gateway
    PROVE  \E t : Noted(s, t) /\ MovesOn(s, t, attempt, stage) /\ PassedStage(s, attempt, stage) = Settle(t)
<1> DEFINE on == On(s, attempt)
           next(i) == NextStage(stage, IsWireless(Candidate(s, s.held[i].candidate)))
           h == [i \in Interfaces |->
                   IF i \in on /\ s.held[i].at = stage THEN [s.held[i] EXCEPT !.at = next(i)] ELSE s.held[i]]
<1>1. s.held \in [Interfaces -> Helds]
  BY DEF InHand, Selectors, Holdings
<1>2. \A i \in Interfaces : next(i) \in Carrier..Established
  BY DEF NextStage, Carrier, Association, Addressing, Gateway, Established
<1>8. \A i \in Interfaces : next(i) = stage + 1
  BY DEF NextStage, Carrier, Association, Addressing, Gateway
<1> HIDE DEF next, on
<1>3. ASSUME NEW i \in Interfaces
      PROVE  /\ h[i] \in Helds /\ h[i].candidate = s.held[i].candidate /\ h[i].attempt = s.held[i].attempt
             /\ h[i].at = IF i \in on /\ s.held[i].at = stage THEN stage + 1 ELSE s.held[i].at
  <2>1. s.held[i] \in Helds /\ next(i) \in Carrier..Established
    BY <1>1, <1>2
  <2>2. PICK at \in Carrier..Established : at = next(i)
    BY <2>1
  <2>3. PICK was \in Helds : was = s.held[i]
    BY <2>1
  <2>4. /\ [was EXCEPT !.at = at] \in Helds
        /\ [was EXCEPT !.at = at].candidate = was.candidate
        /\ [was EXCEPT !.at = at].attempt = was.attempt /\ [was EXCEPT !.at = at].at = at
    BY DEF Helds
  <2>5. h[i] = IF i \in on /\ was.at = stage THEN [was EXCEPT !.at = at] ELSE was
    BY <2>2, <2>3
  <2> HIDE DEF h
  <2> QED
    BY <1>8, <2>2, <2>3, <2>4, <2>5
<1>4. h = [i \in Interfaces |-> h[i]]
  OBVIOUS
<1>5. PassedStage(s, attempt, stage) = Settle([s EXCEPT !.held = h])
  BY DEF PassedStage, next, on
<1> HIDE DEF h
<1>6. h \in Holdings
  BY <1>3, <1>4 DEF Holdings
<1>7. Noted(s, [s EXCEPT !.held = h])
  BY <1>3, <1>6, NotedHeld
<1>9. [s EXCEPT !.held = h].held = h
  BY DEF InHand, Selectors
<1>10. MovesOn(s, [s EXCEPT !.held = h], attempt, stage)
  BY <1>3, <1>9 DEF MovesOn, on
<1> QED
  BY <1>5, <1>7, <1>10

LEMMA FailedNotes ==
    ASSUME NEW s, InHand(s), NEW attempt, NEW stage \in Association..Gateway
    PROVE  \E t : /\ Sensed(s, t) /\ FailedStage(s, attempt, stage) = Settle(t)
                  /\ \A i \in On(s, attempt) : s.held[i].candidate \in Ranks(s) =>
                       t.failures[s.held[i].candidate] # 0
<1> DEFINE hit(rank) == \E i \in On(s, attempt) : s.held[i].candidate = rank
           f == [rank \in Ranks(s) |-> IF hit(rank) THEN stage ELSE s.failures[rank]]
<1>1. /\ s.doc.attachments \in Seq(Candidates) /\ s.failures \in Seq(0..Gateway)
      /\ Len(s.failures) = Len(s.doc.attachments)
  BY DEF InHand, Selectors, Docs
<1>2. FailedStage(s, attempt, stage) = Settle([s EXCEPT !.failures = f])
  BY DEF FailedStage
<1>4. \A i \in On(s, attempt) : s.held[i].candidate \in Ranks(s) => f[s.held[i].candidate] # 0
  BY DEF Association
<1> HIDE DEF hit
<1>3. f \in Seq(0..Gateway) /\ Len(f) = Len(s.doc.attachments)
  <2>1. PICK n \in Nat : n = Len(s.doc.attachments)
    BY <1>1
  <2>2. Ranks(s) = 1..n
    BY <1>1, <2>1 DEF Ranks
  <2>3. \A rank \in 1..n : s.failures[rank] \in 0..Gateway
    BY <1>1, <2>1, SequenceIs
  <2>4. stage \in 0..Gateway
    BY DEF Association, Gateway
  <2>5. f \in [1..n -> 0..Gateway]
    BY <2>2, <2>3, <2>4
  <2> HIDE DEF f
  <2> QED
    BY <2>1, <2>5, SequenceIs
<1> HIDE DEF f
<1>5. [s EXCEPT !.failures = f].failures = f
  BY DEF InHand, Selectors
<1> QED
  BY <1>2, <1>3, <1>4, <1>5, SensedFailures

LEMMA RetriedNotes ==
    ASSUME NEW s, InHand(s), NEW rank
    PROVE  \E t : Sensed(s, t) /\ Retried(s, rank) = Settle(t)
BY AnewSensed DEF Retried

\* Another document: what is carried over takes its attempt with it.
LEMMA CarriedType ==
    ASSUME NEW old \in Docs, NEW new \in Docs, NEW b \in DOMAIN new.attachments
    PROVE  CarriedFrom(old, new)[b] = 0
           \/ /\ CarriedFrom(old, new)[b] \in DOMAIN old.attachments
              /\ old.attachments[CarriedFrom(old, new)[b]] = new.attachments[b]
<1> DEFINE same(a, d) == old.attachments[a] = new.attachments[d]
           before(a, d) == {c \in 1..(a - 1) : same(c, d)}
           earlier(a, d) == {e \in 1..(d - 1) : same(a, e)}
           match == {a \in DOMAIN old.attachments :
                       same(a, b) /\ Cardinality(before(a, b)) = Cardinality(earlier(a, b))}
<1>1. CarriedFrom(old, new)[b] = IF match = {} THEN 0 ELSE CHOOSE a \in match : TRUE
  BY DEF CarriedFrom
<1>2. match \subseteq DOMAIN old.attachments /\ \A a \in match : old.attachments[a] = new.attachments[b]
  OBVIOUS
<1> HIDE DEF match
<1> QED
  BY <1>1, <1>2

CarriesOver(s, t) ==
    /\ t.next = s.next
    /\ \A i \in Interfaces : t.held[i].candidate # 0 =>
         /\ s.held[i].candidate # 0
         /\ t.held[i].attempt = s.held[i].attempt /\ t.held[i].at = s.held[i].at
         /\ t.held[i].candidate \in Ranks(t)
         /\ Candidate(t, t.held[i].candidate) = Candidate(s, s.held[i].candidate)

LEMMA ConfigureSettles ==
    ASSUME NEW s, InHand(s), NEW doc, Checked(doc), doc # s.doc
    PROVE  \E t : InHand(t) /\ t.doc = doc /\ CarriesOver(s, t) /\ Configure(s, doc) = Settle(t)
<1> DEFINE from == CarriedFrom(s.doc, doc)
           now(a) == {b \in DOMAIN doc.attachments : from[b] = a}
           carried(h) == IF h.candidate = 0 \/ now(h.candidate) = {} THEN NoHeld
                         ELSE [h EXCEPT !.candidate = CHOOSE b \in now(h.candidate) : TRUE]
           f == [b \in DOMAIN doc.attachments |-> IF from[b] = 0 THEN 0 ELSE s.failures[from[b]]]
           held == [i \in Interfaces |-> carried(s.held[i])]
           t == [s EXCEPT !.doc = doc, !.failures = f, !.held = held]
<1>1. Configure(s, doc) = Settle(t)
  BY DEF Configure
<1>2. /\ s \in Selectors /\ s.doc \in Docs /\ doc \in Docs
      /\ s.held \in [Interfaces -> Helds] /\ s.failures \in Seq(0..Gateway)
      /\ Len(s.failures) = Len(s.doc.attachments) /\ s.doc.attachments \in Seq(Candidates)
      /\ doc.attachments \in Seq(Candidates)
  BY DEF InHand, Selectors, Checked, Docs, Holdings
<1>3. PICK n \in Nat : n = Len(doc.attachments)
  BY <1>2
<1>4. DOMAIN doc.attachments = 1..n
  BY <1>2, <1>3
<1>5. f \in Seq(0..Gateway) /\ Len(f) = n
  <2>1. PICK m \in Nat : m = Len(s.doc.attachments)
    BY <1>2
  <2>2. DOMAIN s.doc.attachments = 1..m
    BY <1>2, <2>1
  <2>3. \A a \in 1..m : s.failures[a] \in 0..Gateway
    BY <1>2, <2>1, SequenceIs
  <2>4. \A b \in 1..n : from[b] = 0 \/ from[b] \in 1..m
    BY <1>2, <1>4, <2>2, CarriedType
  <2> HIDE DEF from
  <2>5. f \in [1..n -> 0..Gateway]
    BY <1>4, <2>3, <2>4 DEF Gateway
  <2> HIDE DEF f
  <2> QED
    BY <2>5, SequenceIs
<1>0. \A b \in DOMAIN doc.attachments :
          from[b] = 0 \/ (from[b] \in DOMAIN s.doc.attachments /\ s.doc.attachments[from[b]] = doc.attachments[b])
  BY <1>2, CarriedType
<1>6. held \in Holdings
  <2> HIDE DEF from
  <2>1. ASSUME NEW h \in Helds PROVE carried(h) \in Helds
    <3>1. CASE h.candidate = 0 \/ now(h.candidate) = {}
      BY <3>1, NothingHeld
    <3>2. CASE ~(h.candidate = 0 \/ now(h.candidate) = {})
      <4> DEFINE b == CHOOSE d \in now(h.candidate) : TRUE
      <4>1. now(h.candidate) \subseteq Nat
        BY <1>4
      <4> HIDE DEF now
      <4>2. b \in Nat
        BY <3>2, <4>1
      <4>3. carried(h) = [h EXCEPT !.candidate = b]
        BY <3>2
      <4> HIDE DEF b, carried
      <4> QED
        BY <4>2, <4>3 DEF Helds
    <3> QED
      BY <3>1, <3>2
  <2> HIDE DEF carried
  <2> QED
    BY <1>2, <2>1 DEF Holdings
<1>9. ASSUME NEW i \in Interfaces, held[i].candidate # 0
      PROVE  /\ s.held[i].candidate # 0
             /\ held[i].attempt = s.held[i].attempt /\ held[i].at = s.held[i].at
             /\ held[i].candidate \in DOMAIN doc.attachments
             /\ doc.attachments[held[i].candidate] = s.doc.attachments[s.held[i].candidate]
  <2> HIDE DEF from
  <2>1. PICK h \in Helds : h = s.held[i]
    BY <1>2
  <2>2. held[i] = carried(h)
    BY <2>1
  <2>3. ~(h.candidate = 0 \/ now(h.candidate) = {})
    BY <1>9, <2>2, NothingHeld
  <2>4. PICK b \in now(h.candidate) : held[i] = [h EXCEPT !.candidate = b]
    BY <2>2, <2>3
  <2>5. b \in DOMAIN doc.attachments /\ from[b] = h.candidate
    OBVIOUS
  <2>6. doc.attachments[b] = s.doc.attachments[h.candidate]
    BY <1>0, <2>3, <2>5
  <2>7. held[i].candidate = b /\ held[i].attempt = h.attempt /\ held[i].at = h.at
    BY <2>4 DEF Helds
  <2> HIDE DEF held, now
  <2> QED
    BY <2>1, <2>3, <2>5, <2>6, <2>7
<1> HIDE DEF f, held, from
<1>7. /\ t \in Selectors /\ t.doc = doc /\ t.failures = f /\ t.held = held /\ t.next = s.next
  BY <1>2, <1>5, <1>6 DEF Selectors
<1>10. CarriesOver(s, t)
  <2> HIDE DEF t
  <2> QED
    BY <1>7, <1>9 DEF CarriesOver, Ranks, Candidate
<1>8. InHand(t)
  BY <1>3, <1>5, <1>7 DEF InHand
<1> QED
  BY <1>1, <1>7, <1>8, <1>10

\* Nothing is configured at first, and nothing is there to place.
LEMMA NewIsSettled == Settled(NewSelector)
<1> DEFINE s == NewSelector
<1>1. EmptyDocument \in Docs /\ Len(EmptyDocument.attachments) = 0 /\ EmptyDocument.hotspot = NoHotspot
  BY DEF EmptyDocument, Docs, Hotspots, NoHotspot
<1>2. PICK doc \in Docs : doc = EmptyDocument
  BY <1>1
<1>3. Checked(EmptyDocument)
  <2>1. DOMAIN doc.attachments = 1..0
    BY <1>1, <1>2 DEF Docs
  <2>2. 1..0 = {}
    OBVIOUS
  <2>3. doc.hotspot = NoHotspot /\ ~doc.hotspot.enabled
    BY <1>1, <1>2 DEF NoHotspot
  <2> QED
    BY <1>2, <2>1, <2>2, <2>3 DEF Checked, Check
<1>4. InHand(s)
  <2>1. [r \in RadioSet |-> [x \in Ssids |-> 0]] \in Hearings
    BY HardwareAssumption DEF Hearings
  <2>2. [r \in RadioSet |-> "none"] \in Tunings
    BY DEF Tunings
  <2>3. [i \in Interfaces |-> NoHeld] \in Holdings
    BY NothingHeld DEF Holdings
  <2>4. NoPlacement \in Placements
    BY DEF NoPlacement, Placements
  <2>5. << >> \in Seq(0..Gateway) /\ Len(<< >>) = 0
    OBVIOUS
  <2>6. s \in Selectors
    BY <1>1, <2>1, <2>2, <2>3, <2>4, <2>5 DEF NewSelector, Selectors
  <2> QED
    BY <1>1, <1>3, <2>5, <2>6 DEF NewSelector, InHand
<1>5. /\ s.doc = EmptyDocument /\ s.held = [i \in Interfaces |-> NoHeld] /\ s.next = 0
      /\ s.channels = [r \in RadioSet |-> "none"] /\ s.hotspot = NoPlacement
  BY DEF NewSelector
<1>6. PICK t : t = s
  OBVIOUS
<1>7. /\ InHand(t) /\ t.doc = EmptyDocument /\ t.held = [i \in Interfaces |-> NoHeld] /\ t.next = 0
      /\ t.channels = [r \in RadioSet |-> "none"] /\ t.hotspot = NoPlacement
  BY <1>4, <1>5, <1>6
<1> HIDE DEF s
<1>8. IsPlaced(t, Unlinked)
  <2>1. Unlinked \in Linkings(0) /\ 1..0 = {}
    BY DEF Unlinked, Linkings
  <2> QED
    BY <1>1, <1>7, <2>1 DEF IsPlaced, PlacedTo
<1>9. Place(t) = Unlinked
  BY <1>7, <1>8, PlaceIsPlacing
<1>10. PICK u : u = Settle(t)
  OBVIOUS
<1>11. /\ InHand(u) /\ SameSenses(t, u) /\ u.held = HeldOn(t, Unlinked)
       /\ u.next = t.next + Begun(t, Unlinked) /\ u.channels = Tuned(t, Unlinked)
       /\ u.hotspot = PlaceHotspot(Linked(t, Unlinked))
  BY <1>7, <1>9, <1>10, SettleKeeps DEF SameSenses
<1>12. u.held = t.held
  BY <1>7, <1>11 DEF HeldOn, Unlinked
<1>13. u.next = t.next
  <2>1. {i \in Interfaces : Fresh(t, Unlinked, i)} = {}
    BY DEF Fresh, Unlinked
  <2>2. Begun(t, Unlinked) = 0
    BY <2>1, FS_EmptySet DEF Begun
  <2> QED
    BY <1>7, <1>11, <2>2
<1>14. u.channels = t.channels
  <2>1. \A r \in RadioSet : ~Stays(t, Unlinked, r)
    BY DEF Stays, Unlinked, Interfaces
  <2> QED
    BY <1>7, <1>11, <2>1 DEF Tuned
<1>15. u.hotspot = t.hotspot
  <2>1. Unlinked \in Linkings(Len(t.doc.attachments))
    BY <1>8 DEF IsPlaced, PlacedTo
  <2>2. Linked(t, Unlinked).doc = EmptyDocument
    BY <1>7, <2>1, LinkedIs
  <2>3. ~Linked(t, Unlinked).doc.hotspot.enabled
    BY <1>1, <2>2 DEF NoHotspot
  <2> QED
    BY <1>7, <1>11, <2>3 DEF PlaceHotspot, PlaceAmong
<1>16. u = t
  BY <1>7, <1>11, <1>12, <1>13, <1>14, <1>15, SameSelector DEF InHand
<1> QED
  BY <1>6, <1>7, <1>10, <1>16 DEF Settled, s
-----------------------------------------------------------------------------
\* Numbers given in an order.
UpTo(order, S, e) == {k \in DOMAIN order : order[k] \in S /\ \E m \in k..Len(order) : order[m] = e}
NamedOnce(order) == \A m, n \in DOMAIN order : order[m] = order[n] => m = n

\* Counting some of the things in an order up to one of them gives each a
\* number of its own, no greater than how many there are.
LEMMA CountsUpTo ==
    ASSUME NEW X, NEW order \in Seq(X), NamedOnce(order), NEW S, IsFiniteSet(S), S \subseteq X,
           NEW e \in S, \E n \in DOMAIN order : order[n] = e
    PROVE  Cardinality(UpTo(order, S, e)) \in 1..Cardinality(S)
<1> DEFINE at == UpTo(order, S, e)
           f == [k \in at |-> order[k]]
<1>1. PICK n \in DOMAIN order : order[n] = e
  OBVIOUS
<1>2. n \in 1..Len(order) /\ Len(order) \in Nat /\ DOMAIN order = 1..Len(order)
  OBVIOUS
<1>3. n \in at
  BY <1>1, <1>2 DEF UpTo
<1>4. f \in Injection(at, S)
  <2>1. at \subseteq DOMAIN order /\ \A k \in at : order[k] \in S
    BY DEF UpTo
  <2>2. \A k, j \in DOMAIN order : order[k] = order[j] => k = j
    BY DEF NamedOnce
  <2> HIDE DEF at
  <2> QED
    BY <2>1, <2>2 DEF Injection, IsInjective
<1> HIDE DEF at, f
<1>5. IsFiniteSet(at) /\ Cardinality(at) <= Cardinality(S)
  BY <1>4, FS_Injection
<1>6. Cardinality(at) \in Nat /\ Cardinality(S) \in Nat
  BY <1>5, FS_CardinalityType
<1>7. Cardinality(at) # 0
  BY <1>3, <1>5, FS_EmptySet
<1>8. Cardinality(at) \in 1..Cardinality(S)
  BY <1>5, <1>6, <1>7
<1> QED
  BY <1>8 DEF at

LEMMA CountsApart ==
    ASSUME NEW X, NEW order \in Seq(X), NamedOnce(order), NEW S, IsFiniteSet(S), S \subseteq X,
           NEW m \in DOMAIN order, NEW n \in DOMAIN order, m < n, order[n] \in S
    PROVE  Cardinality(UpTo(order, S, order[m])) # Cardinality(UpTo(order, S, order[n]))
<1> DEFINE fewer == UpTo(order, S, order[m])
           more == UpTo(order, S, order[n])
<1>1. DOMAIN order = 1..Len(order) /\ Len(order) \in Nat
  OBVIOUS
<1>2. \A k, j \in DOMAIN order : order[k] = order[j] => k = j
  BY DEF NamedOnce
<1>3. fewer = {k \in DOMAIN order : order[k] \in S /\ k <= m}
  BY <1>1, <1>2 DEF UpTo
<1>4. more = {k \in DOMAIN order : order[k] \in S /\ k <= n}
  BY <1>1, <1>2 DEF UpTo
<1>5. fewer \in SUBSET more /\ n \in more /\ n \notin fewer
  BY <1>1, <1>3, <1>4
<1>6. IsFiniteSet(more)
  <2>1. IsFiniteSet(DOMAIN order)
    BY <1>1, FS_Interval
  <2> QED
    BY <1>4, <2>1, FS_Subset
<1> HIDE DEF fewer, more
<1> QED
  BY <1>5, <1>6, FS_Subset DEF fewer, more

\* The interfaces in the order of their names.
LEMMA NamesOnce ==
    /\ NameOrder \in Seq(Interfaces) /\ NamedOnce(NameOrder)
    /\ \A i \in Interfaces : \E n \in DOMAIN NameOrder : NameOrder[n] = i
<1>1. PICK w \in Seq(WiredSet) : w = WiredOrder
  BY HardwareAssumption
<1>2. PICK r \in Seq(RadioSet) : r = RadioOrder
  BY HardwareAssumption
<1>3. PICK a \in Nat : a = Len(w)
  BY <1>1
<1>4. PICK b \in Nat : b = Len(r)
  BY <1>2
<1>5. /\ \A m, n \in 1..a : w[m] = w[n] => m = n
      /\ \A m, n \in 1..b : r[m] = r[n] => m = n
  BY <1>1, <1>2, <1>3, <1>4, OrderAssumption
<1>6. /\ \A m \in 1..a : w[m] \in WiredSet
      /\ \A m \in 1..b : r[m] \in RadioSet
  BY <1>3, <1>4
<1>7. WiredSet \cap RadioSet = {}
  BY HardwareAssumption
<1>8. w \in Seq(Interfaces) /\ r \in Seq(Interfaces)
  BY DEF Interfaces
<1>9. /\ NameOrder \in Seq(Interfaces) /\ DOMAIN NameOrder = 1..(a + b)
      /\ \A n \in 1..(a + b) : NameOrder[n] = IF n <= a THEN w[n] ELSE r[n - a]
  <2>1. NameOrder = w \o r
    BY <1>1, <1>2 DEF NameOrder
  <2> QED
    BY <1>3, <1>4, <1>8, <2>1
<1>10. NamedOnce(NameOrder)
  <2> SUFFICES ASSUME NEW m \in 1..(a + b), NEW n \in 1..(a + b), NameOrder[m] = NameOrder[n] PROVE m = n
    BY <1>9 DEF NamedOnce
  <2>1. CASE m <= a /\ n <= a
    <3>1. m \in 1..a /\ n \in 1..a /\ w[m] = w[n]
      BY <1>3, <1>4, <1>9, <2>1
    <3> QED
      BY <1>5, <3>1
  <2>2. CASE m <= a /\ ~(n <= a)
    BY <1>3, <1>4, <1>6, <1>7, <1>9, <2>2
  <2>3. CASE ~(m <= a) /\ n <= a
    BY <1>3, <1>4, <1>6, <1>7, <1>9, <2>3
  <2>4. CASE ~(m <= a) /\ ~(n <= a)
    <3>1. m - a \in 1..b /\ n - a \in 1..b /\ r[m - a] = r[n - a]
      BY <1>3, <1>4, <1>9, <2>4
    <3>2. m - a = n - a
      BY <1>5, <3>1
    <3> QED
      BY <3>2
  <2> QED
    BY <2>1, <2>2, <2>3, <2>4
<1>11. ASSUME NEW i \in Interfaces PROVE \E n \in DOMAIN NameOrder : NameOrder[n] = i
  <2>1. CASE i \in WiredSet
    <3>1. PICK n \in 1..a : w[n] = i
      BY <1>1, <1>3, <2>1 DEF WiredSet
    <3>2. n \in 1..(a + b) /\ NameOrder[n] = i
      BY <1>9, <3>1
    <3> QED
      BY <1>9, <3>2
  <2>2. CASE i \in RadioSet
    <3>1. PICK n \in 1..b : r[n] = i
      BY <1>2, <1>4, <2>2 DEF RadioSet
    <3>2. a + n \in 1..(a + b) /\ ~(a + n <= a) /\ (a + n) - a = n
      OBVIOUS
    <3> QED
      BY <1>9, <3>1, <3>2
  <2> QED
    BY <2>1, <2>2 DEF Interfaces
<1> QED
  BY <1>9, <1>10, <1>11
-----------------------------------------------------------------------------
\* Attempts and what becomes of them.

\* Each attempt held is of a candidate, has been numbered, and is on one
\* interface, a radio where it is to associate.
IsAttempt(s, i) ==
    /\ s.held[i].candidate \in Ranks(s) /\ s.held[i].attempt \in 1..s.next
    /\ s.held[i].at \in Association..Established
    /\ s.held[i].at = Association => i \in RadioSet

Numbered(s) ==
    /\ \A i \in Interfaces : s.held[i].candidate # 0 => IsAttempt(s, i)
    /\ \A i, j \in Interfaces :
         (s.held[i].candidate # 0 /\ s.held[j].candidate # 0
            /\ s.held[i].attempt = s.held[j].attempt) => i = j

\* Settling lets an attempt go, keeps it as it is or begins another.
IsBegun(s, u, i) ==
    /\ u.held[i].attempt \in (s.next + 1)..u.next
    /\ u.held[i].at \in {Association, Addressing}

SettlesTo(s, u) ==
    /\ u.doc = s.doc /\ u.next \in Nat /\ s.next <= u.next
    /\ \A i \in Interfaces : u.held[i].candidate # 0 => u.held[i] = s.held[i] \/ IsBegun(s, u, i)

LEMMA FreshNumber ==
    ASSUME NEW s, InHand(s), NEW links, NEW i \in Interfaces, Fresh(s, links, i)
    PROVE  AttemptNumber(s, links, i) \in (s.next + 1)..(s.next + Begun(s, links))
<1> DEFINE S == {j \in Interfaces : Fresh(s, links, j)}
           count == Cardinality(UpTo(NameOrder, S, i))
<1>1. IsFiniteSet(S)
  <2>1. IsFiniteSet(Interfaces)
    BY InterfacesCount
  <2> QED
    BY <2>1, FS_Subset
<1>2. i \in S /\ S \subseteq Interfaces
  OBVIOUS
<1>3. AttemptNumber(s, links, i) = s.next + count
  <2>1. \A n \in DOMAIN NameOrder : NameOrder[n] \in Interfaces
    BY NamesOnce
  <2>2. UpTo(NameOrder, S, i) =
            {n \in DOMAIN NameOrder : Fresh(s, links, NameOrder[n]) /\ \E m \in n..Len(NameOrder) : NameOrder[m] = i}
    BY <2>1 DEF UpTo
  <2> QED
    BY <2>2 DEF AttemptNumber
<1>4. Begun(s, links) = Cardinality(S)
  BY DEF Begun
<1> HIDE DEF S
<1>5. count \in 1..Cardinality(S) /\ Cardinality(S) \in Nat
  BY <1>1, <1>2, NamesOnce, CountsUpTo, FS_CardinalityType
<1> HIDE DEF count
<1>6. s.next \in Nat
  BY DEF InHand, Selectors
<1> QED
  BY <1>3, <1>4, <1>5, <1>6

LEMMA FreshApart ==
    ASSUME NEW s, InHand(s), NEW links, NEW i \in Interfaces, NEW j \in Interfaces,
           Fresh(s, links, i), Fresh(s, links, j), AttemptNumber(s, links, i) = AttemptNumber(s, links, j)
    PROVE  i = j
<1> DEFINE S == {k \in Interfaces : Fresh(s, links, k)}
           count(k) == Cardinality(UpTo(NameOrder, S, k))
<1>1. IsFiniteSet(S)
  <2>1. IsFiniteSet(Interfaces)
    BY InterfacesCount
  <2> QED
    BY <2>1, FS_Subset
<1>2. i \in S /\ j \in S /\ S \subseteq Interfaces
  OBVIOUS
<1>3. ASSUME NEW k \in Interfaces PROVE AttemptNumber(s, links, k) = s.next + count(k)
  <2>1. \A n \in DOMAIN NameOrder : NameOrder[n] \in Interfaces
    BY NamesOnce
  <2>2. UpTo(NameOrder, S, k) =
            {n \in DOMAIN NameOrder : Fresh(s, links, NameOrder[n]) /\ \E m \in n..Len(NameOrder) : NameOrder[m] = k}
    BY <2>1 DEF UpTo
  <2> QED
    BY <2>2 DEF AttemptNumber
<1> HIDE DEF S
<1>4. count(i) \in Nat /\ count(j) \in Nat /\ s.next \in Nat
  <2>1. count(i) \in 1..Cardinality(S) /\ count(j) \in 1..Cardinality(S)
    BY <1>1, <1>2, NamesOnce, CountsUpTo
  <2> QED
    BY <2>1 DEF InHand, Selectors
<1>5. count(i) = count(j)
  <2>1. s.next + count(i) = s.next + count(j)
    BY <1>3
  <2> HIDE DEF count
  <2> QED
    BY <1>4, <2>1
<1>6. PICK m \in DOMAIN NameOrder : NameOrder[m] = i
  BY NamesOnce
<1>7. PICK n \in DOMAIN NameOrder : NameOrder[n] = j
  BY NamesOnce
<1>8. m \in Int /\ n \in Int
  BY NamesOnce
<1>9. ~(m < n)
  BY <1>1, <1>2, <1>5, <1>6, <1>7, NamesOnce, CountsApart
<1>10. ~(n < m)
  BY <1>1, <1>2, <1>5, <1>6, <1>7, NamesOnce, CountsApart
<1> QED
  BY <1>6, <1>7, <1>8, <1>9, <1>10

\* A wireless candidate is placed on a radio.
LEMMA WirelessOnRadio ==
    ASSUME NEW s, InHand(s), NEW links, IsPlaced(s, links), NEW i \in Interfaces, links[i] # 0,
           IsWireless(Candidate(s, links[i]))
    PROVE  i \in RadioSet
<1> DEFINE rank == links[i]
<1>1. rank \in 1..Len(s.doc.attachments) /\ rank \in Ranks(s)
  BY DEF InHand, Selectors, Docs, IsPlaced, PlacedTo, Linkings, Ranks
<1>2. Goes(s, rank, Upto(links, rank)) = i
  BY <1>1 DEF IsPlaced, PlacedTo
<1>3. i # "none"
  BY HardwareAssumption
<1>4. i \in Could(s, rank, Upto(links, rank))
  BY <1>1, <1>2, <1>3, GoesIs DEF Free
<1> QED
  BY <1>1, <1>4, CouldAre

\* What an interface holds once settled.
LEMMA HoldsThen ==
    ASSUME NEW s, InHand(s), NEW u, u = Settle(s), NEW links, links = Place(s),
           NEW i \in Interfaces, u.held[i].candidate # 0
    PROVE  /\ u.held[i].candidate = links[i] /\ links[i] \in Ranks(s)
           /\ \/ Stays(s, links, i) /\ u.held[i] = s.held[i]
              \/ /\ Fresh(s, links, i) /\ u.held[i].attempt = AttemptNumber(s, links, i)
                 /\ u.held[i].at = IF IsWireless(Candidate(s, links[i])) THEN Association ELSE Addressing
<1>1. u.held = HeldOn(s, links)
  BY SettleKeeps
<1>2. u.held[i].candidate = links[i]
  BY <1>1, HoldsPlaced
<1>3. links[i] # 0 /\ links[i] \in Ranks(s)
  BY <1>2, PlaceIsPlaced DEF InHand, Selectors, Docs, IsPlaced, PlacedTo, Linkings, Ranks
<1>4. CASE Stays(s, links, i)
  BY <1>1, <1>2, <1>3, <1>4 DEF HeldOn
<1>5. CASE ~Stays(s, links, i)
  <2>1. Fresh(s, links, i)
    BY <1>3, <1>5 DEF Fresh, Stays
  <2>2. u.held[i] = [candidate |-> links[i], attempt |-> AttemptNumber(s, links, i),
                     at |-> NextStage(Carrier, IsWireless(Candidate(s, links[i])))]
    BY <1>1, <1>3, <1>5 DEF HeldOn
  <2>3. NextStage(Carrier, IsWireless(Candidate(s, links[i])))
            = IF IsWireless(Candidate(s, links[i])) THEN Association ELSE Addressing
    BY DEF NextStage, Carrier
  <2> QED
    BY <1>2, <1>3, <2>1, <2>2, <2>3
<1> QED
  BY <1>4, <1>5

LEMMA SettleNumbers ==
    ASSUME NEW s, InHand(s), Numbered(s), NEW u, u = Settle(s)
    PROVE  InHand(u) /\ Numbered(u) /\ SettlesTo(s, u)
<1>1. PICK links : links = Place(s)
  OBVIOUS
<1>2. PICK begun : begun = Begun(s, links)
  OBVIOUS
<1>3. begun \in Nat
  <2> DEFINE S == {i \in Interfaces : Fresh(s, links, i)}
  <2>1. S \subseteq Interfaces
    OBVIOUS
  <2> HIDE DEF S
  <2>2. Cardinality(S) \in Nat
    BY <2>1, InterfacesCount
  <2> QED
    BY <1>2, <2>2 DEF S, Begun
<1>4. InHand(u) /\ u.doc = s.doc /\ u.next = s.next + begun /\ s.next \in Nat
  BY <1>1, <1>2, SettleKeeps DEF InHand, Selectors
<1>5. Ranks(u) = Ranks(s)
  BY <1>4 DEF Ranks
<1>6. ASSUME NEW i \in Interfaces, u.held[i].candidate # 0
      PROVE  IsAttempt(u, i) /\ (u.held[i] = s.held[i] \/ IsBegun(s, u, i))
  <2>1. u.held[i].candidate = links[i] /\ links[i] \in Ranks(s)
    BY <1>1, <1>6, HoldsThen
  <2>2. CASE Stays(s, links, i) /\ u.held[i] = s.held[i]
    <3>1. s.held[i].candidate # 0
      BY <1>6, <2>2
    <3>2. IsAttempt(s, i)
      BY <3>1 DEF Numbered
    <3> QED
      BY <1>3, <1>4, <1>5, <2>2, <3>2 DEF IsAttempt
  <2>3. CASE /\ Fresh(s, links, i) /\ u.held[i].attempt = AttemptNumber(s, links, i)
             /\ u.held[i].at = IF IsWireless(Candidate(s, links[i])) THEN Association ELSE Addressing
    <3>1. u.held[i].attempt \in (s.next + 1)..u.next
      BY <1>2, <1>4, <2>3, FreshNumber
    <3>2. u.held[i].at = Association => i \in RadioSet
      <4>1. u.held[i].at = Association => IsWireless(Candidate(s, links[i]))
        BY <2>3 DEF Association, Addressing
      <4> QED
        BY <1>1, <1>6, <2>1, <4>1, PlaceIsPlaced, WirelessOnRadio
    <3> QED
      BY <1>3, <1>4, <1>5, <2>1, <2>3, <3>1, <3>2 DEF IsAttempt, IsBegun, Association, Addressing, Established
  <2> QED
    BY <1>1, <1>6, <2>2, <2>3, HoldsThen
<1>7. ASSUME NEW i \in Interfaces, NEW j \in Interfaces, u.held[i].candidate # 0, u.held[j].candidate # 0,
             u.held[i].attempt = u.held[j].attempt
      PROVE  i = j
  <2>1. \A k \in {i, j} : \/ Stays(s, links, k) /\ u.held[k] = s.held[k]
                          \/ Fresh(s, links, k) /\ u.held[k].attempt = AttemptNumber(s, links, k)
    BY <1>1, <1>7, HoldsThen
  <2>2. ASSUME NEW k \in {i, j}, u.held[k] = s.held[k] PROVE s.held[k].candidate # 0 /\ s.held[k].attempt \in 1..s.next
    BY <1>7, <2>2 DEF Numbered, IsAttempt
  <2>3. ASSUME NEW k \in {i, j}, Fresh(s, links, k)
        PROVE  AttemptNumber(s, links, k) \in (s.next + 1)..(s.next + begun)
    BY <1>2, <2>3, FreshNumber
  <2>4. CASE u.held[i] = s.held[i] /\ u.held[j] = s.held[j]
    BY <1>7, <2>4 DEF Numbered
  <2>5. CASE u.held[i] = s.held[i] /\ Fresh(s, links, j) /\ u.held[j].attempt = AttemptNumber(s, links, j)
    BY <1>3, <1>4, <1>7, <2>2, <2>3, <2>5
  <2>6. CASE u.held[j] = s.held[j] /\ Fresh(s, links, i) /\ u.held[i].attempt = AttemptNumber(s, links, i)
    BY <1>3, <1>4, <1>7, <2>2, <2>3, <2>6
  <2>7. CASE /\ Fresh(s, links, i) /\ u.held[i].attempt = AttemptNumber(s, links, i)
             /\ Fresh(s, links, j) /\ u.held[j].attempt = AttemptNumber(s, links, j)
    BY <1>7, <2>7, FreshApart
  <2> QED
    BY <2>1, <2>4, <2>5, <2>6, <2>7
<1>8. Numbered(u)
  BY <1>6, <1>7 DEF Numbered
<1>9. u.next \in Nat /\ s.next <= u.next
  BY <1>3, <1>4
<1> QED
  BY <1>4, <1>6, <1>8, <1>9 DEF SettlesTo

LEMMA SensedNumbers ==
    ASSUME NEW s, Numbered(s), NEW t, Sensed(s, t)
    PROVE  Numbered(t)
<1>1. Ranks(t) = Ranks(s)
  BY DEF Sensed, Ranks
<1> QED
  BY <1>1 DEF Sensed, Numbered, IsAttempt

LEMMA MovedOnNumbers ==
    ASSUME NEW s, InHand(s), Numbered(s), NEW t, Noted(s, t), NEW attempt, NEW stage \in Association..Gateway,
           MovesOn(s, t, attempt, stage)
    PROVE  Numbered(t)
<1>1. Ranks(t) = Ranks(s)
  BY DEF Noted, Ranks
<1>2. ASSUME NEW i \in Interfaces, t.held[i].candidate # 0 PROVE IsAttempt(t, i)
  <2>1. IsAttempt(s, i)
    BY <1>2 DEF Noted, Numbered
  <2>2. stage + 1 \in Addressing..Established /\ stage \in Int
    BY DEF Association, Addressing, Gateway, Established
  <2> QED
    BY <1>1, <2>1, <2>2 DEF IsAttempt, Noted, MovesOn, Association, Addressing, Established
<1> QED
  BY <1>2 DEF Numbered, Noted

LEMMA CarriedNumbers ==
    ASSUME NEW s, Numbered(s), NEW t, CarriesOver(s, t)
    PROVE  Numbered(t)
BY DEF CarriesOver, Numbered, IsAttempt

\* An attempt is always of the candidate it began with, and on the
\* interface it began on.
Descends(s, u) ==
    /\ s.next \in Nat /\ u.next \in Nat /\ s.next <= u.next
    /\ \A i \in Interfaces : u.held[i].candidate # 0 =>
         \/ u.held[i].attempt \in (s.next + 1)..u.next
         \/ /\ s.held[i].candidate # 0 /\ s.held[i].attempt = u.held[i].attempt
            /\ Candidate(u, u.held[i].candidate) = Candidate(s, s.held[i].candidate)

LEMMA DescendsSelf == ASSUME NEW s, InHand(s) PROVE Descends(s, s)
BY DEF Descends, InHand, Selectors

LEMMA DescendsTwice ==
    ASSUME NEW s, NEW t, NEW u, Descends(s, t), Descends(t, u)
    PROVE  Descends(s, u)
<1>1. s.next \in Nat /\ t.next \in Nat /\ u.next \in Nat /\ s.next <= t.next /\ t.next <= u.next
  BY DEF Descends
<1>2. ASSUME NEW i \in Interfaces, u.held[i].candidate # 0
      PROVE \/ u.held[i].attempt \in (s.next + 1)..u.next
            \/ /\ s.held[i].candidate # 0 /\ s.held[i].attempt = u.held[i].attempt
               /\ Candidate(u, u.held[i].candidate) = Candidate(s, s.held[i].candidate)
  <2>1. CASE u.held[i].attempt \in (t.next + 1)..u.next
    BY <1>1, <2>1
  <2>2. CASE /\ t.held[i].candidate # 0 /\ t.held[i].attempt = u.held[i].attempt
             /\ Candidate(u, u.held[i].candidate) = Candidate(t, t.held[i].candidate)
    <3>1. CASE t.held[i].attempt \in (s.next + 1)..t.next
      BY <1>1, <2>2, <3>1
    <3>2. CASE /\ s.held[i].candidate # 0 /\ s.held[i].attempt = t.held[i].attempt
               /\ Candidate(t, t.held[i].candidate) = Candidate(s, s.held[i].candidate)
      BY <2>2, <3>2
    <3> QED
      BY <2>2, <3>1, <3>2 DEF Descends
  <2> QED
    BY <1>2, <2>1, <2>2 DEF Descends
<1> QED
  BY <1>1, <1>2 DEF Descends

LEMMA NotedDescends ==
    ASSUME NEW s, InHand(s), NEW t, Noted(s, t), NEW u, SettlesTo(t, u)
    PROVE  Descends(s, u)
<1>1. s.next \in Nat /\ t.next = s.next /\ u.next \in Nat /\ s.next <= u.next /\ u.doc = s.doc
  BY DEF InHand, Selectors, Noted, SettlesTo
<1>2. ASSUME NEW i \in Interfaces, u.held[i].candidate # 0
      PROVE \/ u.held[i].attempt \in (s.next + 1)..u.next
            \/ /\ s.held[i].candidate # 0 /\ s.held[i].attempt = u.held[i].attempt
               /\ Candidate(u, u.held[i].candidate) = Candidate(s, s.held[i].candidate)
  BY <1>1, <1>2 DEF SettlesTo, IsBegun, Noted, Candidate
<1> QED
  BY <1>1, <1>2 DEF Descends

LEMMA CarriedDescends ==
    ASSUME NEW s, InHand(s), NEW t, CarriesOver(s, t), NEW u, SettlesTo(t, u)
    PROVE  Descends(s, u)
<1>1. s.next \in Nat /\ t.next = s.next /\ u.next \in Nat /\ s.next <= u.next /\ u.doc = t.doc
  BY DEF InHand, Selectors, CarriesOver, SettlesTo
<1>2. ASSUME NEW i \in Interfaces, u.held[i].candidate # 0
      PROVE \/ u.held[i].attempt \in (s.next + 1)..u.next
            \/ /\ s.held[i].candidate # 0 /\ s.held[i].attempt = u.held[i].attempt
               /\ Candidate(u, u.held[i].candidate) = Candidate(s, s.held[i].candidate)
  BY <1>1, <1>2 DEF SettlesTo, IsBegun, CarriesOver, Candidate
<1> QED
  BY <1>1, <1>2 DEF Descends

\* An attempt that failed is given up.
LEMMA FailedIsGone ==
    ASSUME NEW s, InHand(s), Numbered(s), NEW attempt, attempt \in 1..s.next, NEW t, Sensed(s, t),
           \A i \in On(s, attempt) : t.failures[s.held[i].candidate] # 0
    PROVE  On(Settle(t), attempt) = {}
<1>1. PICK u : u = Settle(t)
  OBVIOUS
<1>2. PICK links : links = Place(t)
  OBVIOUS
<1>3. InHand(t) /\ Numbered(t) /\ t.held = s.held /\ t.next = s.next /\ s.next \in Nat
  BY SensedNumbers DEF Sensed, InHand, Selectors
<1>4. SettlesTo(t, u)
  BY <1>1, <1>3, SettleNumbers
<1> SUFFICES ASSUME NEW i \in Interfaces, u.held[i].candidate # 0, u.held[i].attempt = attempt PROVE FALSE
  BY <1>1 DEF On
<1>5. CASE IsBegun(t, u, i)
  BY <1>3, <1>5 DEF IsBegun
<1>6. CASE ~IsBegun(t, u, i)
  <2>1. u.held[i] = s.held[i]
    BY <1>3, <1>4, <1>6 DEF SettlesTo
  <2>2. i \in On(s, attempt)
    BY <2>1 DEF On
  <2> DEFINE rank == links[i]
  <2>3. u.held[i].candidate = rank /\ rank \in Ranks(t)
    BY <1>1, <1>2, <1>3, HoldsThen
  <2>4. t.failures[rank] # 0
    BY <2>1, <2>2, <2>3
  <2>5. rank \in 1..Len(t.doc.attachments) /\ IsPlaced(t, links)
    BY <1>2, <1>3, <2>3, PlaceIsPlaced DEF InHand, Selectors, Docs, Ranks
  <2>6. Goes(t, rank, Upto(links, rank)) = i /\ i # "none"
    BY <2>5, HardwareAssumption DEF IsPlaced, PlacedTo
  <2>7. Available(t, rank)
    BY <1>3, <2>3, <2>6, GoesIs
  <2> QED
    BY <2>4, <2>7 DEF Available
<1> QED
  BY <1>5, <1>6
-----------------------------------------------------------------------------
\* Every step feeds the selector something and settles it, or configures
\* the document it has.
LEMMA EveryStepSettles ==
    ASSUME InHand(sel), SelectorNext
    PROVE  \/ sel' = sel
           \/ \E t : Noted(sel, t) /\ sel' = Settle(t)
           \/ \E t : InHand(t) /\ Admits(t.doc) /\ t.doc # sel.doc /\ sel' = Settle(t)
<1>1. ASSUME NEW doc \in Configurations, Configures(doc)
      PROVE  sel' = sel \/ \E t : InHand(t) /\ Admits(t.doc) /\ t.doc # sel.doc /\ sel' = Settle(t)
  <2>1. Checked(doc)
    BY <1>1, ConfigurationsAssumption DEF Configures, Checked, Docs
  <2>2. CASE doc = sel.doc
    BY <1>1, <2>2 DEF Configures, Selects, Configure
  <2>3. CASE doc # sel.doc
    BY <1>1, <2>1, <2>3, ConfigureSettles DEF Configures, Selects
  <2> QED
    BY <2>2, <2>3
<1>2. CASE Senses
  BY <1>2, SensedIsNoted, CarrierUpNotes, CarrierDownNotes, InRangeNotes, OutOfRangeNotes, StationChannelNotes
     DEF Senses, Selects
<1>3. CASE Reports
  BY <1>3, SensedIsNoted, PassedNotes, FailedNotes DEF Reports, Selects
<1>4. CASE TriesAgain
  BY <1>4, SensedIsNoted, RetriedNotes DEF TriesAgain, Selects
<1> QED
  BY <1>1, <1>2, <1>3, <1>4 DEF SelectorNext

\* The selector's invariant: it has settled, of a document admitted.
SelectorInv == Settled(sel) /\ Admits(sel.doc)

LEMMA SettledStep ==
    ASSUME SelectorInv, [SelectorNext]_sel
    PROVE  SelectorInv'
<1>1. ASSUME NEW t, InHand(t), Admits(t.doc), sel' = Settle(t)
      PROVE  SelectorInv'
  <2>1. PICK u : u = Settle(t)
    OBVIOUS
  <2>2. InHand(u) /\ Settle(u) = u /\ u.doc = t.doc
    BY <1>1, <2>1, SettleKeeps, SettledStays
  <2> QED
    BY <1>1, <2>1, <2>2 DEF Settled, SelectorInv
<1>2. CASE sel' = sel
  BY <1>2 DEF SelectorInv
<1>3. CASE SelectorNext
  <2>1. InHand(sel) /\ Admits(sel.doc)
    BY DEF Settled, SelectorInv
  <2> QED
    BY <1>1, <1>2, <1>3, <2>1, EveryStepSettles DEF Noted
<1> QED
  BY <1>2, <1>3

\* The selector always has settled, of a document it was given (settle of
\* select.rs).
THEOREM AlwaysSettled == SelectorSpec => []SelectorInv
<1>1. SelectorInit => SelectorInv
  <2>1. Admits(EmptyDocument)
    BY DEF Admits, EmptyDocument, NoHotspot
  <2> QED
    BY <2>1, NewIsSettled DEF SelectorInit, SelectorInv, NewSelector
<1>2. SelectorInv /\ [SelectorNext]_sel => SelectorInv'
  BY SettledStep
<1> QED
  BY <1>1, <1>2, PTL DEF SelectorSpec

LEMMA StandbyJustified ==
    ASSUME Settled(sel)
    PROVE  StandbyIsJustified
<1> SUFFICES ASSUME NEW rank \in Ranks(sel), StateOf(sel, rank).is = "standby",
                    NEW i \in IF IsWireless(Candidate(sel, rank)) THEN Hearing(sel, Candidate(sel, rank))
                              ELSE {Candidate(sel, rank).on}
             PROVE  \/ sel.held[i].candidate # 0 /\ sel.held[i].candidate < rank
                    \/ /\ IsWireless(Candidate(sel, rank))
                       /\ sel.doc.hotspot.enabled /\ Alongside[i] = "one"
                       /\ \A other \in HotspotHosts(sel.doc) \ {i} :
                            /\ Alongside[other] = "one"
                            /\ sel.held[other].candidate # 0 /\ sel.held[other].candidate < rank
  BY DEF StandbyIsJustified
<1>1. PICK links : links = Place(sel)
  OBVIOUS
<1>2. InHand(sel) /\ IsPlaced(sel, links) /\ \A j \in Interfaces : sel.held[j].candidate = links[j]
  BY <1>1, SettledIs
<1>3. Available(sel, rank) /\ \A j \in Interfaces : links[j] # rank
  BY <1>2, StandbyIs
<1> DEFINE below == Upto(links, rank)
<1>4. \A j \in Could(sel, rank, below) : links[j] # 0 /\ links[j] < rank
  BY <1>2, <1>3, LeftOutForCause
<1>5. Could(sel, rank, below) \subseteq Interfaces
  BY <1>2, CouldAre
<1>6. \A j \in Interfaces : below[j] = IF links[j] < rank THEN links[j] ELSE 0
  BY DEF Upto
<1> HIDE DEF below
<1>7. CASE i \in Could(sel, rank, below)
  BY <1>2, <1>4, <1>5, <1>7
<1>8. CASE i \notin Could(sel, rank, below)
  <2>1. IsWireless(Candidate(sel, rank)) /\ ~SparesHotspot(sel, i, below)
    BY <1>8 DEF Could
  <2>2. /\ sel.doc.hotspot.enabled /\ Alongside[i] = "one"
        /\ \A other \in HotspotHosts(sel.doc) \ {i} : Alongside[other] = "one" /\ below[other] # 0
    BY <2>1 DEF SparesHotspot
  <2>3. HotspotHosts(sel.doc) \subseteq Interfaces
    BY DEF HotspotHosts, HotspotRadios, RadiosFor, Interfaces
  <2>4. \A other \in HotspotHosts(sel.doc) \ {i} : links[other] # 0 /\ links[other] < rank
    BY <1>6, <2>2, <2>3
  <2> QED
    BY <1>2, <2>1, <2>2, <2>3, <2>4
<1> QED
  BY <1>7, <1>8

\* Where the candidates and the hotspot are placed leaves neither out
\* without cause, and is where they would be placed again (place.rs).
THEOREM Sound == SelectorSpec => []PlacementIsSound
<1>1. SelectorInv => PlacementIsSound
  <2> SUFFICES ASSUME Settled(sel), Admits(sel.doc) PROVE PlacementIsSound
    BY DEF SelectorInv
  <2>1. SettledIsStable
    BY DEF Settled, SettledIsStable
  <2>2. HotspotHasRadio
    BY HotspotIsPlaced DEF HotspotHasRadio
  <2> QED
    BY <2>1, <2>2, StandbyJustified DEF PlacementIsSound
<1> QED
  BY <1>1, AlwaysSettled, PTL

\* An attempt is given up for cause: nothing else moves its candidate.
LEMMA GivenUpForCause ==
    ASSUME NEW s, Settled(s), NEW t, Noted(s, t), NEW u, u = Settle(t), NEW i \in Interfaces,
           NEW rank, rank = s.held[i].candidate, rank # 0, u.held[i].attempt # s.held[i].attempt
    PROVE  \/ ~Available(u, rank)
           \/ u.held[i].candidate \in 1..(rank - 1)
           \/ i \in RadioSet /\ ~SparesHotspot(u, i, [j \in Interfaces |->
                   IF u.held[j].candidate < rank THEN u.held[j].candidate ELSE 0])
           \/ i \in RadioSet /\ i \notin Hearing(u, Candidate(s, rank))
<1>1. PICK links : links = Place(t)
  OBVIOUS
<1>2. PICK was : was = Place(s)
  OBVIOUS
<1>3. InHand(s) /\ IsPlaced(s, was) /\ \A j \in Interfaces : s.held[j].candidate = was[j]
  BY <1>2, SettledIs
<1>4. /\ InHand(t) /\ t.doc = s.doc
      /\ \A j \in Interfaces : t.held[j].candidate = was[j] /\ t.held[j].attempt = s.held[j].attempt
  BY <1>3 DEF Noted
<1>5. IsPlaced(t, links) /\ SameSenses(t, u) /\ u.held = HeldOn(t, links)
  BY <1>1, <1>4, PlaceIsPlaced, SettleKeeps DEF SameSenses
<1>6. \A j \in Interfaces : u.held[j].candidate = links[j]
  BY <1>5, HoldsPlaced
<1>7. rank = was[i]
  BY <1>3
<1>8. rank \in Ranks(s) /\ Ranks(t) = Ranks(s) /\ Candidate(t, rank) = Candidate(s, rank)
  BY <1>3, <1>4, <1>7 DEF InHand, Selectors, Docs, IsPlaced, PlacedTo, Linkings, Ranks, Candidate
<1>9. rank \in 1..Len(s.doc.attachments) /\ Len(t.doc.attachments) = Len(s.doc.attachments) /\ rank \in Nat
  BY <1>4, <1>8 DEF InHand, Selectors, Docs, Ranks
<1>10. links[i] # rank
  <2> SUFFICES ASSUME links[i] = rank PROVE FALSE
    OBVIOUS
  <2>1. u.held[i] = t.held[i]
    BY <1>4, <1>5, <1>7 DEF HeldOn, Stays
  <2> QED
    BY <1>4, <2>1
<1> DEFINE below == Upto(links, rank)
           c == Candidate(s, rank)
<1>11. below = [j \in Interfaces |-> IF u.held[j].candidate < rank THEN u.held[j].candidate ELSE 0]
  BY <1>6 DEF Upto
<1>12. Goes(t, rank, below) # i
  BY <1>5, <1>9, <1>10 DEF IsPlaced, PlacedTo
<1>13. Goes(s, rank, Upto(was, rank)) = i
  BY <1>3, <1>7, <1>9 DEF IsPlaced, PlacedTo
<1>14. i \in Could(s, rank, Upto(was, rank))
  <2>1. i # "none"
    BY HardwareAssumption
  <2> QED
    BY <1>3, <1>8, <1>13, <2>1, GoesIs DEF Free
<1> SUFFICES ASSUME Available(u, rank), u.held[i].candidate \notin 1..(rank - 1),
                    i \in RadioSet => SparesHotspot(u, i, below),
                    i \in RadioSet => i \in Hearing(u, c)
             PROVE  FALSE
  <2> HIDE DEF below, c
  <2> QED
    BY <1>11 DEF c
<1>15. Available(t, rank) /\ (i \in RadioSet => SparesHotspot(t, i, below))
       /\ (i \in RadioSet => i \in Hearing(t, c))
  <2>1. Available(u, rank) <=> Available(t, rank)
    BY <1>5, SensesTell
  <2>2. SparesHotspot(u, i, below) <=> SparesHotspot(t, i, below)
    BY <1>5, SensesTell
  <2>3. Hearing(u, Candidate(t, rank)) = Hearing(t, Candidate(t, rank))
    BY <1>5, SensesTell
  <2>4. Candidate(t, rank) = c
    BY <1>8
  <2> HIDE DEF below, c
  <2> QED
    BY <2>1, <2>2, <2>3, <2>4
<1>16. below[i] = 0
  <2>1. links[i] \in Nat
    BY <1>4, <1>5 DEF InHand, Selectors, Docs, IsPlaced, PlacedTo, Linkings
  <2>2. links[i] \notin 1..(rank - 1)
    BY <1>6
  <2>3. ~(links[i] < rank) \/ links[i] = 0
    BY <1>9, <2>1, <2>2
  <2>4. below[i] = IF links[i] < rank THEN links[i] ELSE 0
    BY DEF Upto
  <2> QED
    BY <2>3, <2>4
<1> HIDE DEF below
<1>17. Goes(t, rank, below) = GoesAmong(t, rank, Free(t, rank, below))
  BY GoesFree
<1>18. CASE ~IsWireless(c)
  <2>1. i = c.on
    BY <1>14, <1>18 DEF Could
  <2>2. i \in Free(t, rank, below)
    BY <1>8, <1>16, <1>18, <2>1 DEF Free, Could
  <2>3. GoesAmong(t, rank, Free(t, rank, below)) = i
    BY <1>8, <1>15, <1>18, <2>1, <2>2 DEF GoesAmong
  <2> QED
    BY <1>12, <1>17, <2>3
<1>19. CASE IsWireless(c)
  <2>1. i \in RadioSet
    BY <1>3, <1>8, <1>14, <1>19, CouldAre
  <2>2. i \in Free(t, rank, below)
    BY <1>8, <1>15, <1>16, <1>19, <2>1 DEF Free, Could
  <2>3. Current(t, rank) = {i}
    <3>1. \A j \in Interfaces : was[j] = rank => j = i
      BY <1>3, <1>7, PlacedOnce
    <3> QED
      BY <1>4, <1>7, <3>1 DEF Current
  <2>4. GoesAmong(t, rank, Free(t, rank, below)) = i
    BY <1>8, <1>15, <1>19, <2>2, <2>3 DEF GoesAmong
  <2> QED
    BY <1>12, <1>17, <2>4
<1> QED
  BY <1>18, <1>19

\* A candidate that is up is taken down only for a reason: it failed or
\* lost its carrier, a candidate above it took the interface or the last
\* radio beside the hotspot's, or another document was configured
\* (select.rs, settle).
THEOREM ForCause == SelectorSpec => TakenDownForCause
<1> DEFINE Cause ==
        \A i \in Interfaces :
            LET rank == sel.held[i].candidate IN
            (rank # 0 /\ sel'.doc = sel.doc /\ sel'.held[i].attempt # sel.held[i].attempt) =>
                \/ ~Available(sel', rank)
                \/ sel'.held[i].candidate \in 1..(rank - 1)
                \/ i \in RadioSet /\ ~SparesHotspot(sel', i, [j \in Interfaces |->
                        IF sel'.held[j].candidate < rank THEN sel'.held[j].candidate ELSE 0])
                \/ i \in RadioSet /\ i \notin Hearing(sel', Candidate(sel, rank))
<1>1. SelectorInv /\ [SelectorNext]_sel => [Cause]_sel
  <2> SUFFICES ASSUME Settled(sel), SelectorNext PROVE Cause \/ sel' = sel
    BY DEF SelectorInv
  <2>1. CASE sel' = sel
    BY <2>1
  <2>2. ASSUME NEW t, Noted(sel, t), sel' = Settle(t) PROVE Cause
    <3> SUFFICES ASSUME NEW i \in Interfaces, NEW rank, rank = sel.held[i].candidate, rank # 0,
                        sel'.held[i].attempt # sel.held[i].attempt
                 PROVE  \/ ~Available(sel', rank)
                        \/ sel'.held[i].candidate \in 1..(rank - 1)
                        \/ i \in RadioSet /\ ~SparesHotspot(sel', i, [j \in Interfaces |->
                                IF sel'.held[j].candidate < rank THEN sel'.held[j].candidate ELSE 0])
                        \/ i \in RadioSet /\ i \notin Hearing(sel', Candidate(sel, rank))
      OBVIOUS
    <3> QED
      BY <2>2, GivenUpForCause
  <2>3. ASSUME NEW t, InHand(t), t.doc # sel.doc, sel' = Settle(t) PROVE Cause
    <3>1. sel'.doc # sel.doc
      BY <2>3, SettleKeeps
    <3> QED
      BY <3>1
  <2> QED
    BY <2>1, <2>2, <2>3, EveryStepSettles DEF Settled
<1> QED
  BY <1>1, AlwaysSettled, PTL DEF SelectorSpec, TakenDownForCause
=============================================================================
