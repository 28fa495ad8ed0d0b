--------------------------- MODULE ChannelProofs ---------------------------
\* What is proved of Channel: it implements ByteStream, for any sizes of
\* message, chunk, buffer and read, and any number of bytes.
\* 
\* Nothing need be said of the order of what is on the wire. A frame opens
\* only as the one the writer sealed under the number the reader comes to
\* next, so it is enough to say of each what stretch of the deflated
\* stream it is, and that the reader's layers hold, one after another,
\* what lies between the last byte read and the last frame opened.
EXTENDS Channel, WellFoundedInduction, TLAPS

-----------------------------------------------------------------------------
\* What a stretch of the deflated stream carries: c[i] is the last byte
\* carried by its first i units, of the t written so far. The stream ends,
\* where it does, at a byte of f.
Counts(s, c, f) ==
    /\ \A i \in 1..Len(s) :
          \/ s[i] \in {Header, Sync} /\ c[i] = c[i - 1]
          \/ s[i] = Finish /\ c[i] = c[i - 1] /\ c[i] \in f
          \/ s[i] \in 1..MaxBytes /\ s[i] = c[i - 1] + 1 /\ c[i] = s[i]
    /\ \A i, j \in 0..Len(s) : i <= j => c[i] <= c[j]
Carries(s, x, y, t, f) ==
    \E c \in [0..Len(s) -> 0..t] : c[0] = x /\ c[Len(s)] = y /\ Counts(s, c, f)

\* Every size is one that something fits in.
LEMMA Sizes == {MaxPlaintext, MaxChunk, MaxQueued, MaxRead, MaxBytes} \subseteq Nat \ {0}
BY ChannelAssumption

\* The units of zlib's own are not bytes.
LEMMA Units == /\ {Header, Sync, Finish} \subseteq Nat /\ Sync # Finish /\ Header # Finish
               /\ \A b \in 1..MaxBytes : b \in Nat /\ b \notin {Header, Sync, Finish}
BY Sizes DEF Header, Sync, Finish

\* A stretch goes from a byte to the same or a later one.
LEMMA CarriesEnds ==
    ASSUME NEW s \in Seq(Nat), NEW x, NEW y, NEW t \in Nat, NEW f, Carries(s, x, y, t, f)
    PROVE  x \in 0..t /\ y \in 0..t /\ x <= y
<1>1. PICK c \in [0..Len(s) -> 0..t] : c[0] = x /\ c[Len(s)] = y /\ Counts(s, c, f)
  BY DEF Carries
<1>2. Len(s) \in Nat /\ 0 \in 0..Len(s) /\ Len(s) \in 0..Len(s) /\ 0 <= Len(s)
  OBVIOUS
<1>3. QED
  BY <1>1, <1>2 DEF Counts

\* One stretch after another.
LEMMA CarriesOn ==
    ASSUME NEW s \in Seq(Nat), NEW u \in Seq(Nat), NEW x, NEW y, NEW z, NEW t \in Nat, NEW f,
           Carries(s, x, y, t, f), Carries(u, y, z, t, f)
    PROVE  Carries(s \o u, x, z, t, f)
<1>1. PICK c \in [0..Len(s) -> 0..t] : c[0] = x /\ c[Len(s)] = y /\ Counts(s, c, f)
  BY DEF Carries
<1>2. PICK d \in [0..Len(u) -> 0..t] : d[0] = y /\ d[Len(u)] = z /\ Counts(u, d, f)
  BY DEF Carries
<1> DEFINE m == Len(s)
           n == Len(u)
           e == [i \in 0..(m + n) |-> IF i <= m THEN c[i] ELSE d[i - m]]
           v == s \o u
<1>3. m \in Nat /\ n \in Nat /\ v \in Seq(Nat) /\ Len(v) = m + n
  OBVIOUS
<1>4. \A i \in 1..(m + n) : v[i] = IF i <= m THEN s[i] ELSE u[i - m]
  OBVIOUS
<1>5. /\ \A i \in 0..m : c[i] \in 0..t
      /\ \A i \in 0..n : d[i] \in 0..t
      /\ c[0] = x /\ c[m] = y /\ d[0] = y /\ d[n] = z
  BY <1>1, <1>2, <1>3
<1>6. /\ \A i \in 1..m : \/ s[i] \in {Header, Sync} /\ c[i] = c[i - 1]
                         \/ s[i] = Finish /\ c[i] = c[i - 1] /\ c[i] \in f
                         \/ s[i] \in 1..MaxBytes /\ s[i] = c[i - 1] + 1 /\ c[i] = s[i]
      /\ \A i, j \in 0..m : i <= j => c[i] <= c[j]
      /\ \A i \in 1..n : \/ u[i] \in {Header, Sync} /\ d[i] = d[i - 1]
                         \/ u[i] = Finish /\ d[i] = d[i - 1] /\ d[i] \in f
                         \/ u[i] \in 1..MaxBytes /\ u[i] = d[i - 1] + 1 /\ d[i] = u[i]
      /\ \A i, j \in 0..n : i <= j => d[i] <= d[j]
  BY <1>1, <1>2 DEF Counts
<1> HIDE DEF m, n, v
<1>7. \A i \in 0..(m + n) : e[i] = IF i <= m THEN c[i] ELSE d[i - m]
  OBVIOUS
<1>8. e \in [0..(m + n) -> 0..t]
  BY <1>3, <1>5
<1> HIDE DEF e
<1>9. ASSUME NEW i \in 1..(m + n)
      PROVE  \/ v[i] \in {Header, Sync} /\ e[i] = e[i - 1]
             \/ v[i] = Finish /\ e[i] = e[i - 1] /\ e[i] \in f
             \/ v[i] \in 1..MaxBytes /\ v[i] = e[i - 1] + 1 /\ e[i] = v[i]
  <2>1. CASE i <= m
    <3>1. i \in 0..(m + n) /\ i - 1 \in 0..(m + n) /\ i - 1 <= m /\ i \in 1..m
      BY <1>3, <2>1
    <3>2. v[i] = s[i] /\ e[i] = c[i] /\ e[i - 1] = c[i - 1]
      BY <1>4, <1>7, <2>1, <3>1
    <3>3. QED
      BY <1>6, <3>1, <3>2
  <2>2. CASE i > m
    <3>1. v[i] = u[i - m] /\ e[i] = d[i - m] /\ i - m \in 1..n
      <4>1. i - m \in 1..n /\ i \in 0..(m + n) /\ ~(i <= m)
        BY <1>3, <2>2
      <4>2. QED
        BY <1>4, <1>7, <4>1
    <3>2. e[i - 1] = d[(i - m) - 1]
      <4>1. i - 1 \in 0..(m + n)
        BY <1>3
      <4>2. CASE i - 1 > m
        BY <1>3, <1>7, <4>1, <4>2
      <4>3. CASE i - 1 = m
        BY <1>3, <1>5, <1>7, <4>1, <4>3
      <4>4. QED
        BY <1>3, <2>2, <4>2, <4>3
    <3>3. QED
      BY <1>6, <3>1, <3>2
  <2>3. QED
    BY <1>3, <2>1, <2>2
<1>10. ASSUME NEW i \in 0..(m + n), NEW j \in 0..(m + n), i <= j
       PROVE  e[i] <= e[j]
  <2>1. CASE j <= m
    <3>1. i <= m /\ i \in 0..m /\ j \in 0..m
      BY <1>3, <1>10, <2>1
    <3>2. QED
      BY <1>6, <1>7, <1>10, <2>1, <3>1
  <2>2. CASE i > m
    <3>1. i - m \in 0..n /\ j - m \in 0..n /\ i - m <= j - m /\ ~(i <= m) /\ ~(j <= m)
      BY <1>3, <1>10, <2>2
    <3>2. QED
      BY <1>6, <1>7, <3>1
  <2>3. CASE i <= m /\ j > m
    <3>1. j - m \in 0..n /\ 0 \in 0..n /\ 0 <= j - m /\ m \in 0..m /\ i \in 0..m /\ ~(j <= m)
      BY <1>3, <1>10, <2>3
    <3>2. e[i] = c[i] /\ e[j] = d[j - m] /\ c[i] <= c[m] /\ d[0] <= d[j - m]
      BY <1>6, <1>7, <2>3, <3>1
    <3>3. c[i] \in Nat /\ c[m] \in Nat /\ d[0] \in Nat /\ d[j - m] \in Nat /\ c[m] = d[0]
      BY <1>5, <3>1
    <3>4. QED
      BY <3>2, <3>3
  <2>4. QED
    BY <1>3, <2>1, <2>2, <2>3
<1>11. e[0] = x /\ e[m + n] = z
  <2>1. 0 \in 0..(m + n) /\ 0 <= m /\ m + n \in 0..(m + n)
    BY <1>3
  <2>2. e[0] = x
    BY <1>5, <1>7, <2>1
  <2>3. CASE n = 0
    BY <1>3, <1>5, <1>7, <2>1, <2>3
  <2>4. CASE n # 0
    <3>1. ~(m + n <= m) /\ (m + n) - m = n
      BY <1>3, <2>4
    <3>2. QED
      BY <1>5, <1>7, <2>1, <3>1
  <2>5. QED
    BY <2>2, <2>3, <2>4
<1>12. Counts(v, e, f) /\ e \in [0..Len(v) -> 0..t] /\ e[Len(v)] = z
  BY <1>3, <1>8, <1>9, <1>10, <1>11 DEF Counts
<1>13. QED
  BY <1>11, <1>12 DEF Carries, v

\* And one cut in two.
LEMMA CarriesCut ==
    ASSUME NEW s \in Seq(Nat), NEW x, NEW z, NEW t \in Nat, NEW f, Carries(s, x, z, t, f), NEW n \in 0..Len(s)
    PROVE  \E y \in 0..t : Carries(SubSeq(s, 1, n), x, y, t, f) /\ Carries(SubSeq(s, n + 1, Len(s)), y, z, t, f)
<1>1. PICK c \in [0..Len(s) -> 0..t] : c[0] = x /\ c[Len(s)] = z /\ Counts(s, c, f)
  BY DEF Carries
<1> DEFINE m == Len(s)
           a == SubSeq(s, 1, n)
           b == SubSeq(s, n + 1, m)
           d == [i \in 0..n |-> c[i]]
           e == [i \in 0..(m - n) |-> c[n + i]]
<1>2. m \in Nat /\ n \in Nat /\ n <= m /\ a \in Seq(Nat) /\ b \in Seq(Nat) /\ Len(a) = n /\ Len(b) = m - n
      /\ m - n \in Nat
  OBVIOUS
<1>3. /\ \A i \in 1..n : a[i] = s[i]
      /\ \A i \in 1..(m - n) : b[i] = s[n + i]
  OBVIOUS
<1>4. /\ \A i \in 1..m : \/ s[i] \in {Header, Sync} /\ c[i] = c[i - 1]
                         \/ s[i] = Finish /\ c[i] = c[i - 1] /\ c[i] \in f
                         \/ s[i] \in 1..MaxBytes /\ s[i] = c[i - 1] + 1 /\ c[i] = s[i]
      /\ \A i, j \in 0..m : i <= j => c[i] <= c[j]
      /\ \A i \in 0..m : c[i] \in 0..t
      /\ c[0] = x /\ c[m] = z
  BY <1>1 DEF Counts
<1> HIDE DEF m, a, b
<1>5. d \in [0..n -> 0..t] /\ e \in [0..(m - n) -> 0..t]
  <2>1. \A i \in 0..n : i \in 0..m
    BY <1>2
  <2>2. \A i \in 0..(m - n) : n + i \in 0..m
    BY <1>2
  <2>3. QED
    BY <1>4, <2>1, <2>2
<1>6. /\ \A i \in 0..n : d[i] = c[i]
      /\ \A i \in 0..(m - n) : e[i] = c[n + i]
  OBVIOUS
<1> HIDE DEF d, e
<1>7. Counts(a, d, f)
  <2>1. ASSUME NEW i \in 1..n
        PROVE  \/ a[i] \in {Header, Sync} /\ d[i] = d[i - 1]
               \/ a[i] = Finish /\ d[i] = d[i - 1] /\ d[i] \in f
               \/ a[i] \in 1..MaxBytes /\ a[i] = d[i - 1] + 1 /\ d[i] = a[i]
    <3>1. i \in 0..n /\ i - 1 \in 0..n /\ i \in 1..m
      BY <1>2
    <3>2. a[i] = s[i] /\ d[i] = c[i] /\ d[i - 1] = c[i - 1]
      BY <1>3, <1>6, <3>1
    <3>3. QED
      BY <1>4, <3>1, <3>2
  <2>2. ASSUME NEW i \in 0..n, NEW j \in 0..n, i <= j PROVE d[i] <= d[j]
    <3>1. d[i] = c[i] /\ d[j] = c[j] /\ i \in 0..m /\ j \in 0..m
      BY <1>2, <1>6
    <3>2. QED
      BY <1>4, <2>2, <3>1
  <2>3. QED
    BY <1>2, <2>1, <2>2 DEF Counts
<1>8. Counts(b, e, f)
  <2>1. ASSUME NEW i \in 1..(m - n)
        PROVE  \/ b[i] \in {Header, Sync} /\ e[i] = e[i - 1]
               \/ b[i] = Finish /\ e[i] = e[i - 1] /\ e[i] \in f
               \/ b[i] \in 1..MaxBytes /\ b[i] = e[i - 1] + 1 /\ e[i] = b[i]
    <3>1. i \in 0..(m - n) /\ i - 1 \in 0..(m - n) /\ n + i \in 1..m /\ n + (i - 1) = (n + i) - 1
      BY <1>2
    <3>2. b[i] = s[n + i] /\ e[i] = c[n + i] /\ e[i - 1] = c[(n + i) - 1]
      BY <1>3, <1>6, <3>1
    <3>3. QED
      BY <1>4, <3>1, <3>2
  <2>2. ASSUME NEW i \in 0..(m - n), NEW j \in 0..(m - n), i <= j PROVE e[i] <= e[j]
    <3>1. n + i \in 0..m /\ n + j \in 0..m /\ n + i <= n + j
      BY <1>2, <2>2
    <3>2. e[i] = c[n + i] /\ e[j] = c[n + j]
      BY <1>6
    <3>3. QED
      BY <1>4, <3>1, <3>2
  <2>3. QED
    BY <1>2, <2>1, <2>2 DEF Counts
<1>9. d[0] = x /\ d[n] = c[n] /\ e[0] = c[n] /\ e[m - n] = z /\ c[n] \in 0..t
  <2>1. 0 \in 0..n /\ n \in 0..n /\ 0 \in 0..(m - n) /\ m - n \in 0..(m - n) /\ n + 0 = n /\ n + (m - n) = m /\ n \in 0..m
    BY <1>2
  <2>2. QED
    BY <1>4, <1>6, <2>1
<1>10. Carries(a, x, c[n], t, f) /\ Carries(b, c[n], z, t, f)
  BY <1>2, <1>5, <1>7, <1>8, <1>9 DEF Carries
<1>11. QED
  BY <1>9, <1>10 DEF a, b, m

\* More written, or the stream finished, changes nothing of one before it.
LEMMA CarriesStill ==
    ASSUME NEW s \in Seq(Nat), NEW x, NEW y, NEW t \in Nat, NEW v \in Nat, NEW f, NEW g,
           Carries(s, x, y, t, f), t <= v, f \subseteq g
    PROVE  Carries(s, x, y, v, g)
<1>1. PICK c \in [0..Len(s) -> 0..t] : c[0] = x /\ c[Len(s)] = y /\ Counts(s, c, f)
  BY DEF Carries
<1>2. c \in [0..Len(s) -> 0..v]
  BY <1>1
<1>3. Counts(s, c, g)
  BY <1>1 DEF Counts
<1>4. QED
  BY <1>1, <1>2, <1>3 DEF Carries

\* Nothing carries nothing.
LEMMA CarriesNone ==
    ASSUME NEW t \in Nat, NEW x \in 0..t, NEW f
    PROVE  Carries(<< >>, x, x, t, f)
<1> DEFINE c == [i \in 0..0 |-> x]
<1>1. c \in [0..Len(<< >>) -> 0..t] /\ c[0] = x /\ c[Len(<< >>)] = x
  OBVIOUS
<1>2. Counts(<< >>, c, f)
  BY DEF Counts
<1>3. QED
  BY <1>1, <1>2 DEF Carries

\* A unit put in: the next byte, a mark of zlib's own, or the end.
LEMMA CarriesUnit ==
    ASSUME NEW t \in Nat, NEW u \in Nat, NEW x \in 0..t, NEW y \in 0..t, NEW f,
           \/ u \in {Header, Sync} /\ y = x
           \/ u = Finish /\ y = x /\ x \in f
           \/ u \in 1..MaxBytes /\ u = x + 1 /\ y = u
    PROVE  Carries(<<u>>, x, y, t, f)
<1> DEFINE c == [i \in 0..1 |-> IF i = 0 THEN x ELSE y]
           s == <<u>>
<1>1. Len(s) = 1 /\ s[1] = u
  OBVIOUS
<1>2. c \in [0..1 -> 0..t] /\ c[0] = x /\ c[1] = y /\ x <= y
  OBVIOUS
<1> HIDE DEF c, s
<1>3. \A i \in 1..1 : i = 1 /\ i - 1 = 0
  OBVIOUS
<1>4. \A i, j \in 0..1 : i <= j => c[i] <= c[j]
  <2>1. \A i \in 0..1 : i = 0 \/ i = 1
    OBVIOUS
  <2>2. c[0] <= c[0] /\ c[1] <= c[1] /\ c[0] <= c[1]
    BY <1>2
  <2>3. ~(1 <= 0)
    OBVIOUS
  <2>4. QED
    BY <2>1, <2>2, <2>3
<1>5. Counts(s, c, f)
  BY <1>1, <1>2, <1>3, <1>4 DEF Counts
<1>6. QED
  BY <1>1, <1>2, <1>5 DEF Carries, s

\* The bytes x + 1 to y, as they come out.
Bytes(x, y) == [j \in 1..(y - x) |-> x + j]
\* Bytes carry themselves.
LEMMA CarriesBytes ==
    ASSUME NEW t \in Nat, t <= MaxBytes, NEW x \in 0..t, NEW y \in 0..t, x <= y, NEW f
    PROVE  Bytes(x, y) \in Seq(Nat) /\ Len(Bytes(x, y)) = y - x /\ Carries(Bytes(x, y), x, y, t, f)
<1> DEFINE n == y - x
           s == Bytes(x, y)
           c == [i \in 0..n |-> x + i]
<1>1. n \in Nat /\ x \in Nat /\ y = x + n /\ MaxBytes \in Nat /\ y <= t /\ y \in Nat
  BY Sizes
<1>2. s \in Seq(Nat) /\ Len(s) = n /\ \A i \in 1..n : s[i] = x + i
  BY <1>1 DEF Bytes
<1> HIDE DEF n, s
<1>3. c \in [0..n -> 0..t]
  BY <1>1
<1>4. \A i \in 0..n : c[i] = x + i
  OBVIOUS
<1> HIDE DEF c
<1>5. ASSUME NEW i \in 1..n
      PROVE  s[i] \in 1..MaxBytes /\ s[i] = c[i - 1] + 1 /\ c[i] = s[i]
  <2>1. i - 1 \in 0..n /\ i \in 0..n /\ x + i = (x + (i - 1)) + 1 /\ x + i \in 1..MaxBytes
    BY <1>1
  <2>2. QED
    BY <1>2, <1>4, <2>1
<1>6. ASSUME NEW i \in 0..n, NEW j \in 0..n, i <= j PROVE c[i] <= c[j]
  BY <1>1, <1>4, <1>6
<1>7. Counts(s, c, f)
  BY <1>2, <1>5, <1>6 DEF Counts
<1>8. c[0] = x /\ c[n] = y
  BY <1>1, <1>4
<1>9. Carries(s, x, y, t, f)
  BY <1>2, <1>3, <1>7, <1>8 DEF Carries
<1>10. QED
  BY <1>2, <1>9 DEF s, n

\* The end of the stream comes after every byte of it.
LEMMA CarriesFinish ==
    ASSUME NEW s \in Seq(Nat), NEW x, NEW y, NEW t \in Nat, NEW f, Carries(s, x, y, t, f),
           NEW k \in 1..Len(s), s[k] = Finish, f \subseteq {t}
    PROVE  y = t /\ t \in f
<1>1. PICK c \in [0..Len(s) -> 0..t] : c[0] = x /\ c[Len(s)] = y /\ Counts(s, c, f)
  BY DEF Carries
<1>2. k \in 0..Len(s) /\ Len(s) \in 0..Len(s) /\ k <= Len(s)
  OBVIOUS
<1>3. c[k] = t /\ t \in f
  BY <1>1, Units DEF Counts
<1>4. c[k] <= c[Len(s)] /\ c[Len(s)] \in 0..t
  BY <1>1, <1>2 DEF Counts
<1>5. QED
  BY <1>1, <1>3, <1>4

\* A number is the least of those of its kind.
LEMMA LeastOne ==
    ASSUME NEW S, S \subseteq Nat, S # {}
    PROVE  \E s \in S : \A t \in S : s <= t
<1> DEFINE R == {ss \in Nat \X Nat : ss[1] < ss[2]}
<1>1. IsWellFoundedOn(R, Nat)
  BY NatLessThanWellFounded DEF OpToRel
<1> HIDE DEF R
<1>2. PICK x \in S : \A y \in S : ~(<<y, x>> \in R)
  BY <1>1, WFMin
<1>3. \A y \in S : ~(y < x)
  BY <1>2 DEF R
<1> QED
  BY <1>3

\* The bytes a stretch inflates to, of each of its first units.
OutTo(u, g) ==
    [i \in 0..Len(u) |->
        IF i = 0 THEN << >>
        ELSE IF u[i] \in {Header, Sync, Finish} THEN g[i - 1] ELSE Append(g[i - 1], u[i])]
\* What comes of inflating is what its steps come to.
LEMMA OutIs == ASSUME NEW u PROVE Outputs(u) = (CHOOSE g : g = OutTo(u, g))[Len(u)]
BY DEF Outputs, OutTo

\* One byte more.
LEMMA BytesOn ==
    ASSUME NEW x \in Nat, NEW y \in Nat, x <= y
    PROVE  Append(Bytes(x, y), y + 1) = Bytes(x, y + 1)
<1> DEFINE n == y - x
           s == Bytes(x, y)
           v == Bytes(x, y + 1)
<1>1. n \in Nat /\ y = x + n /\ (y + 1) - x = n + 1
  OBVIOUS
<1>2. s = [j \in 1..n |-> x + j] /\ v = [j \in 1..(n + 1) |-> x + j]
  BY <1>1 DEF Bytes
<1> HIDE DEF n, s, v
<1>3. s \in Seq(Nat) /\ Len(s) = n
  BY <1>1, <1>2
<1>4. v \in Seq(Nat) /\ Len(v) = n + 1
  BY <1>1, <1>2
<1>5. Append(s, y + 1) \in Seq(Nat) /\ Len(Append(s, y + 1)) = n + 1
  BY <1>3
<1>6. ASSUME NEW j \in 1..(n + 1) PROVE Append(s, y + 1)[j] = v[j]
  <2>1. CASE j \in 1..n
    BY <1>1, <1>2, <1>3, <2>1
  <2>2. CASE j = n + 1
    BY <1>1, <1>2, <1>3, <2>2
  <2>3. j \in 1..n \/ j = n + 1
    <3> n \in Nat
      BY <1>1
    <3> HIDE <1>1
    <3> QED
      OBVIOUS
  <2>4. QED
    BY <2>1, <2>2, <2>3
<1>7. Append(s, y + 1) = v
  BY <1>4, <1>5, <1>6
<1>8. QED
  BY <1>7 DEF s, v

\* A stretch inflates to the bytes it carries.
LEMMA OutputsAre ==
    ASSUME NEW s \in Seq(Nat), NEW x, NEW y, NEW t \in Nat, NEW f, Carries(s, x, y, t, f)
    PROVE  Outputs(s) = Bytes(x, y)
<1>1. PICK c \in [0..Len(s) -> 0..t] : c[0] = x /\ c[Len(s)] = y /\ Counts(s, c, f)
  BY DEF Carries
<1> DEFINE n == Len(s)
           g == [i \in 0..n |-> Bytes(x, c[i])]
           F == CHOOSE h : h = OutTo(s, h)
<1>2. n \in Nat /\ \A i \in 0..n : c[i] \in Nat /\ x <= c[i] /\ x \in Nat
  <2>1. 0 \in 0..n /\ \A i \in 0..n : 0 <= i
    OBVIOUS
  <2>2. \A i \in 0..n : c[i] \in 0..t
    BY <1>1
  <2>3. \A i \in 0..n : c[0] <= c[i]
    BY <1>1, <2>1 DEF Counts
  <2>4. QED
    BY <1>1, <2>1, <2>2, <2>3
<1>3. \A i \in 1..n : \/ s[i] \in {Header, Sync} /\ c[i] = c[i - 1]
                      \/ s[i] = Finish /\ c[i] = c[i - 1]
                      \/ s[i] \in 1..MaxBytes /\ s[i] = c[i - 1] + 1 /\ c[i] = s[i]
  BY <1>1 DEF Counts
<1>4. c[0] = x /\ c[n] = y
  BY <1>1
<1>5. Bytes(x, x) = << >>
  BY <1>2, <1>4 DEF Bytes
<1> DEFINE Of(h, i) == IF i = 0 THEN << >>
                       ELSE IF s[i] \in {Header, Sync, Finish} THEN h[i - 1] ELSE Append(h[i - 1], s[i])
<1> HIDE DEF n
<1>6. ASSUME NEW i \in 0..n PROVE g[i] = Of(g, i)
  <2>1. CASE i = 0
    BY <1>2, <1>4, <1>5, <2>1
  <2>2. CASE i # 0
    <3>1. i \in 1..n /\ i - 1 \in 0..n
      BY <1>2, <2>2
    <3>2. g[i] = Bytes(x, c[i]) /\ g[i - 1] = Bytes(x, c[i - 1])
      BY <3>1
    <3> HIDE DEF g
    <3>3. CASE s[i] \in {Header, Sync, Finish}
      <4>1. c[i] = c[i - 1]
        BY <1>3, <3>1, <3>3, Units
      <4>2. QED
        BY <2>2, <3>2, <3>3, <4>1
    <3>4. CASE s[i] \notin {Header, Sync, Finish}
      <4>1. s[i] = c[i - 1] + 1 /\ c[i] = s[i]
        BY <1>3, <3>1, <3>4
      <4>2. Append(Bytes(x, c[i - 1]), c[i - 1] + 1) = Bytes(x, c[i - 1] + 1)
        BY <1>2, <3>1, BytesOn
      <4>3. QED
        BY <2>2, <3>2, <3>4, <4>1, <4>2
    <3>5. QED
      BY <3>3, <3>4
  <2>3. QED
    BY <2>1, <2>2
<1>7. g = OutTo(s, g)
  <2>1. OutTo(s, g) = [i \in 0..n |-> Of(g, i)]
    BY DEF OutTo, n
  <2>2. g = [i \in 0..n |-> g[i]]
    OBVIOUS
  <2> HIDE DEF g, Of
  <2>3. QED
    BY <1>6, <2>1, <2>2
<1>8. F = OutTo(s, F)
  <2> HIDE DEF g, Of
  <2>1. QED
    BY <1>7
<1> HIDE DEF F
<1>9. \A i \in 0..n : F[i] = Of(F, i)
  <2>1. OutTo(s, F) = [i \in 0..n |-> Of(F, i)]
    BY DEF OutTo, n
  <2> HIDE DEF Of
  <2>2. QED
    BY <1>8, <2>1
<1>10. \A i \in 0..n : F[i] = g[i]
  <2> DEFINE W == {i \in 0..n : F[i] # g[i]}
  <2>1. SUFFICES ASSUME W # {} PROVE FALSE
    OBVIOUS
  <2>2. W \subseteq Nat
    BY <1>2
  <2>3. PICK k \in W : \A j \in W : k <= j
    <3> HIDE DEF W
    <3>1. QED
      BY <2>1, <2>2, LeastOne
  <2>4. k \in 0..n /\ F[k] # g[k]
    OBVIOUS
  <2>5. k # 0
    <3> HIDE DEF g
    <3>1. 0 \in 0..n
      BY <1>2
    <3>2. QED
      BY <1>6, <1>9, <2>4, <3>1
  <2>6. k - 1 \in 0..n /\ ~(k <= k - 1)
    BY <1>2, <2>4, <2>5
  <2>7. F[k - 1] = g[k - 1]
    BY <2>3, <2>6
  <2> HIDE DEF g, W
  <2>8. F[k] = g[k]
    BY <1>6, <1>9, <2>4, <2>5, <2>7
  <2>9. QED
    BY <2>4, <2>8
<1>11. n \in 0..n
  BY <1>2
<1>12. F[n] = Bytes(x, y)
  BY <1>4, <1>10, <1>11
<1>13. QED
  BY <1>12, OutIs DEF F, n

\* A frame as the writer made it: a[n] is the last byte put in before
\* frame n. Whoever holds a part of one holds what names the whole.
Frames == [n : Nat, kind : {"handshake", "transport"}, units : Seq(Nat)]
MadeAs(f, a, sent, t, fin) ==
    f.kind = "transport" => /\ f.n \in Nat /\ 1 <= f.n /\ f.n + 1 <= sent
                            /\ Carries(f.units, a[f.n], a[f.n + 1], t, fin)
Parts(a, sent, t, fin) ==
    {p \in [part : {"prefix", "body"}, len : Nat, of : Frames] : MadeAs(p.of, a, sent, t, fin)}

Writers(P) ==
    [deflating : Seq(Nat), dirty : BOOLEAN, finished : BOOLEAN, out : Seq(Nat), noise : Seq(P), sent : Nat]
Readers(P) ==
    [pending : Seq(P), shaken : BOOLEAN, buf : Seq(P), next : Nat, inBuf : Seq(Nat), inflating : Seq(Nat),
     totalIn : Nat, streamEnd : BOOLEAN, eof : BOOLEAN]

\* Where the stream ends, once it does.
Over == {n \in {Len(written)} : shut}

\* The writer's layers hold what has been written, from what the next
\* frame begins with to the last byte.
WriterHolds(a) ==
    /\ w \in Writers(Parts(a, w.sent, Len(written), Over)) /\ 1 <= w.sent /\ w.finished = shut
    /\ \E y \in Nat : /\ Carries(w.out, a[w.sent], y, Len(written), Over)
                      /\ Carries(w.deflating, y, Len(written), Len(written), Over)

\* The reader's hold what it has taken, from what it has read to what the
\* frames it has decrypted end with.
ReaderHolds(a) ==
    /\ r \in Readers(Parts(a, w.sent, Len(written), Over)) /\ 1 <= r.next /\ r.next <= w.sent
    /\ \E y \in Nat : /\ Carries(r.inflating, Len(received), y, Len(written), Over)
                      /\ Carries(r.inBuf, y, a[r.next], Len(written), Over)

\* What a reader that has shaken, read or ended knows.
Ends ==
    /\ r.shaken => genuine
    /\ ~r.shaken => r.inBuf = << >>
    /\ r.totalIn = 0 => r.inflating = << >> /\ received = << >>
    /\ r.streamEnd => shut /\ received = written /\ r.inBuf = << >> /\ r.inflating = << >>
    /\ ~r.shaken => r.totalIn = 0

\* What is written and read is the bytes up to some byte.
Streams ==
    /\ written = Bytes(0, Len(written)) /\ written \in Seq(Nat) /\ Len(written) <= MaxBytes
    /\ received = Bytes(0, Len(received)) /\ received \in Seq(Nat)
    /\ shut \in BOOLEAN /\ genuine \in BOOLEAN
LinkHolds(a) == link \in [chunks : Seq(Seq(Parts(a, w.sent, Len(written), Over))), open : BOOLEAN]
ChanHeld(a) == WriterHolds(a) /\ ReaderHolds(a) /\ LinkHolds(a) /\ Ends /\ Streams
ChanInv == \E a \in [Nat -> Nat] : ChanHeld(a)

\* A sequence of some things is one of more.
LEMMA SeqWider == ASSUME NEW P, NEW Q, P \subseteq Q PROVE Seq(P) \subseteq Seq(Q) /\ Seq(Seq(P)) \subseteq Seq(Seq(Q))
<1>1. ASSUME NEW A, NEW B, A \subseteq B PROVE Seq(A) \subseteq Seq(B)
  <2>1. SUFFICES ASSUME NEW s \in Seq(A) PROVE s \in Seq(B)
    OBVIOUS
  <2>2. s = [i \in 1..Len(s) |-> s[i]] /\ Len(s) \in Nat /\ \A i \in 1..Len(s) : s[i] \in B
    BY <1>1, <2>1
  <2>3. QED
    BY <2>2
<1>2. QED
  BY <1>1

\* What was made stays as it was made.
LEMMA PartsWider ==
    ASSUME NEW a \in [Nat -> Nat], NEW b \in [Nat -> Nat], NEW m \in Nat, NEW n \in Nat, m <= n,
           NEW t \in Nat, NEW v \in Nat, t <= v, NEW f, NEW g, f \subseteq g, \A i \in Nat : i <= m => b[i] = a[i]
    PROVE  LET P == Parts(a, m, t, f)
               Q == Parts(b, n, v, g)
           IN P \subseteq Q /\ Seq(P) \subseteq Seq(Q) /\ Seq(Seq(P)) \subseteq Seq(Seq(Q))
<1>1. ASSUME NEW p \in Parts(a, m, t, f) PROVE p \in Parts(b, n, v, g)
  <2>1. p \in [part : {"prefix", "body"}, len : Nat, of : Frames] /\ p.of \in Frames /\ MadeAs(p.of, a, m, t, f)
    BY DEF Parts
  <2>2. MadeAs(p.of, b, n, v, g)
    <3>1. SUFFICES ASSUME p.of.kind = "transport"
                   PROVE  /\ p.of.n \in Nat /\ 1 <= p.of.n /\ p.of.n + 1 <= n
                          /\ Carries(p.of.units, b[p.of.n], b[p.of.n + 1], v, g)
      BY DEF MadeAs
    <3>2. /\ p.of.n \in Nat /\ 1 <= p.of.n /\ p.of.n + 1 <= m
          /\ Carries(p.of.units, a[p.of.n], a[p.of.n + 1], t, f)
      BY <2>1, <3>1 DEF MadeAs
    <3>3. b[p.of.n] = a[p.of.n] /\ b[p.of.n + 1] = a[p.of.n + 1]
      BY <3>2
    <3>4. p.of.units \in Seq(Nat)
      BY <2>1 DEF Frames
    <3>5. Carries(p.of.units, a[p.of.n], a[p.of.n + 1], v, g)
      BY <3>2, <3>4, CarriesStill
    <3>6. QED
      BY <3>2, <3>3, <3>5
  <2>3. QED
    BY <2>1, <2>2 DEF Parts
<1>2. QED
  BY <1>1, SeqWider

\* A frame framed is parts of it.
LEMMA FramedIs ==
    ASSUME NEW a, NEW sent, NEW t, NEW fin, NEW f \in Frames, MadeAs(f, a, sent, t, fin)
    PROVE  Framed(f) \in Seq(Parts(a, sent, t, fin))
<1> DEFINE P == Parts(a, sent, t, fin)
<1>1. f.units \in Seq(Nat) /\ Len(f.units) \in Nat
  BY DEF Frames
<1>2. [part |-> "prefix", len |-> Len(f.units), of |-> f] \in P
  BY <1>1 DEF Parts
<1>3. \A i \in 1..Len(f.units) : [part |-> "body", len |-> i, of |-> f] \in P
  BY <1>1 DEF Parts
<1> HIDE DEF P
<1>4. <<[part |-> "prefix", len |-> Len(f.units), of |-> f]>> \in Seq(P)
  BY <1>2
<1>5. [i \in 1..Len(f.units) |-> [part |-> "body", len |-> i, of |-> f]] \in Seq(P)
  BY <1>1, <1>3
<1>6. QED
  BY <1>4, <1>5 DEF Framed, P

\* The handshake's own frame is all there is at the start.
LEMMA ChanStart == ChanInit => ChanInv
<1>1. SUFFICES ASSUME ChanInit PROVE ChanInv
  OBVIOUS
<1> DEFINE a == [i \in Nat |-> 0]
           P == Parts(a, 1, 0, {})
<1>2. a \in [Nat -> Nat] /\ a[1] = 0
  OBVIOUS
<1>3. /\ written = << >> /\ received = << >> /\ shut = FALSE /\ genuine \in BOOLEAN /\ Len(written) = 0 /\ Len(received) = 0
      /\ Over = {}
  BY <1>1 DEF ChanInit, Over
<1>4. Carries(<< >>, 0, 0, 0, {}) /\ Carries(<<Header>>, 0, 0, 0, {}) /\ <<Header>> \in Seq(Nat)
  <2>1. 0 \in Nat /\ 0 \in 0..0 /\ Header \in Nat /\ Header \in {Header, Sync}
    BY DEF Header
  <2>2. Carries(<< >>, 0, 0, 0, {})
    BY <2>1, CarriesNone
  <2>3. Carries(<<Header>>, 0, 0, 0, {})
    BY <2>1, CarriesUnit
  <2>4. <<Header>> \in Seq(Nat)
    BY <2>1
  <2>5. QED
    BY <2>2, <2>3, <2>4
<1>5. Framed(Frame(0, "handshake", <<0>>)) \in Seq(P)
  <2>1. Frame(0, "handshake", <<0>>) \in Frames /\ Frame(0, "handshake", <<0>>).kind # "transport"
    BY DEF Frame, Frames
  <2>2. QED
    BY <2>1, FramedIs DEF MadeAs
<1> HIDE DEF a, P
<1>6. w \in Writers(P) /\ w.sent = 1 /\ w.finished = FALSE /\ w.out = << >> /\ w.deflating = <<Header>>
  BY <1>1, <1>4, <1>5 DEF ChanInit, Writers
<1>7. r \in Readers(P) /\ r.next = 1 /\ r.inBuf = << >> /\ r.inflating = << >> /\ r.shaken = FALSE /\ r.totalIn = 0
      /\ r.streamEnd = FALSE
  BY <1>1 DEF ChanInit, Readers
<1>8. link \in [chunks : Seq(Seq(P)), open : BOOLEAN]
  BY <1>1 DEF ChanInit
<1>9. Parts(a, w.sent, Len(written), Over) = P
  BY <1>3, <1>6 DEF P
<1>10. WriterHolds(a)
  <2>1. Carries(w.out, a[w.sent], 0, Len(written), Over) /\ Carries(w.deflating, 0, Len(written), Len(written), Over)
    BY <1>2, <1>3, <1>4, <1>6
  <2>2. w \in Writers(Parts(a, w.sent, Len(written), Over)) /\ 1 <= w.sent /\ w.finished = shut
    <3>1. w.finished = shut
      BY <1>3, <1>6
    <3>2. w \in Writers(Parts(a, w.sent, Len(written), Over))
      BY <1>6, <1>9
    <3>3. 1 <= w.sent
      BY <1>6
    <3>4. QED
      BY <3>1, <3>2, <3>3
  <2>3. QED
    BY <2>1, <2>2 DEF WriterHolds
<1>11. ReaderHolds(a) /\ LinkHolds(a)
  <2>1. Carries(r.inflating, Len(received), 0, Len(written), Over) /\ Carries(r.inBuf, 0, a[r.next], Len(written), Over)
    BY <1>2, <1>3, <1>4, <1>7
  <2>2. r \in Readers(Parts(a, w.sent, Len(written), Over)) /\ 1 <= r.next /\ r.next <= w.sent
    BY <1>6, <1>7, <1>9
  <2>3. ReaderHolds(a)
    BY <2>1, <2>2 DEF ReaderHolds
  <2>4. QED
    BY <1>8, <1>9, <2>3 DEF LinkHolds
<1>12. Ends /\ Streams
  <2>1. Bytes(0, 0) = << >> /\ 0 <= MaxBytes
    BY Sizes DEF Bytes
  <2>2. QED
    <3>1. Ends
      BY <1>3, <1>7 DEF Ends
    <3>2. written = Bytes(0, Len(written)) /\ received = Bytes(0, Len(received))
      BY <1>3, <2>1
    <3>3. written \in Seq(Nat) /\ received \in Seq(Nat) /\ Len(written) <= MaxBytes
      BY <1>3, <2>1
    <3>4. shut \in BOOLEAN /\ genuine \in BOOLEAN
      BY <1>3
    <3>5. Streams
      BY <3>2, <3>3, <3>4 DEF Streams
    <3>6. QED
      BY <3>1, <3>5
<1>13. QED
  BY <1>2, <1>10, <1>11, <1>12 DEF ChanInv, ChanHeld

\* What the byte stream takes a step to be.
Steps == Abstract!Next \/ UNCHANGED <<written, received, shut, outcome, genuine>>

\* One unit put after others, and where they may be cut.
LEMMA Joined ==
    ASSUME NEW s \in Seq(Nat), NEW u \in Nat
    PROVE  /\ <<u>> \in Seq(Nat) /\ s \o <<u>> \in Seq(Nat)
           /\ Len(s \o <<u>>) \in Nat /\ Len(s) \in Nat
           /\ \A kept \in 0..(Len(s) + 1) : Len(s \o <<u>>) - kept \in 0..Len(s \o <<u>>)
OBVIOUS

\* A sequence cut in two is two sequences.
LEMMA InTwo ==
    ASSUME NEW S, NEW s \in Seq(S), NEW n \in 0..Len(s)
    PROVE  SubSeq(s, 1, n) \in Seq(S) /\ SubSeq(s, n + 1, Len(s)) \in Seq(S)
OBVIOUS

\* A length, and one more.
LEMMA LenIs == ASSUME NEW s \in Seq(Nat) PROVE Len(s) \in Nat /\ Len(s) + 1 \in Nat /\ Len(s) <= Len(s) + 1
OBVIOUS

\* Nothing is more than itself.
LEMMA AtMostItself == ASSUME NEW i \in Nat PROVE i <= i
OBVIOUS

\* What deflate is given goes after what it has, and some of it comes out.
LEMMA LeavesWriter ==
    ASSUME NEW P, NEW x \in Writers(P), NEW left \in Seq(Nat), NEW gone \in Seq(Nat), NEW d \in BOOLEAN, NEW e \in BOOLEAN
    PROVE  LET y == [deflating |-> left, dirty |-> d, finished |-> e, out |-> x.out \o gone,
                     noise |-> x.noise, sent |-> x.sent]
           IN /\ y \in Writers(P) /\ y.sent = x.sent /\ y.finished = e /\ y.out = x.out \o gone /\ y.deflating = left
<1> DEFINE o == x.out \o gone
<1>1. o \in Seq(Nat) /\ x.noise \in Seq(P) /\ x.sent \in Nat
  BY DEF Writers
<1> HIDE DEF o
<1>2. [deflating |-> left, dirty |-> d, finished |-> e, out |-> o, noise |-> x.noise, sent |-> x.sent] \in Writers(P)
  BY <1>1 DEF Writers
<1>3. QED
  BY <1>2 DEF o

\* Of what deflate has and is given, the first units come out.
ComesOut(x, u, z) ==
    \E n \in 0..Len(x.deflating \o <<u>>) :
       /\ z.out = x.out \o SubSeq(x.deflating \o <<u>>, 1, n)
       /\ z.deflating = SubSeq(x.deflating \o <<u>>, n + 1, Len(x.deflating \o <<u>>))
Kept(x) == 0..(Len(x.deflating) + 1)
Deflated(x, u, kept, d, e) == [Deflates(x, <<u>>, kept) EXCEPT !.dirty = d, !.finished = e]

\* What deflate is given leaves a writer (compress.rs, poll_write).
LEMMA DeflatesIs ==
    ASSUME NEW P, NEW x \in Writers(P), NEW u \in Nat, NEW kept \in Kept(x),
           NEW d \in BOOLEAN, NEW e \in BOOLEAN, NEW z, z = Deflated(x, u, kept, d, e)
    PROVE  /\ z \in Writers(P)
           /\ ComesOut(x, u, z)
<1> DEFINE all == x.deflating \o <<u>>
           n == Len(all) - kept
           left == SubSeq(all, n + 1, Len(all))
           gone == SubSeq(all, 1, n)
<1>1. x.deflating \in Seq(Nat)
  BY DEF Writers
<1>2. all \in Seq(Nat) /\ n \in 0..Len(all)
  BY <1>1, Joined DEF Kept
<1>3. left \in Seq(Nat) /\ gone \in Seq(Nat)
  <2> HIDE DEF all, n
  <2>1. QED
    BY <1>2, InTwo
<1>4. z = [deflating |-> left, dirty |-> d, finished |-> e, out |-> x.out \o gone, noise |-> x.noise, sent |-> x.sent]
  BY DEF Writers, Deflates, Deflated
<1> HIDE DEF left, gone, all, n
<1> DEFINE y == [deflating |-> left, dirty |-> d, finished |-> e, out |-> x.out \o gone,
                 noise |-> x.noise, sent |-> x.sent]
<1>5. y \in Writers(P) /\ y.sent = x.sent /\ y.finished = e /\ y.out = x.out \o gone /\ y.deflating = left
  BY <1>3, LeavesWriter
<1>6. z = y
  BY <1>4
<1> HIDE DEF y
<1>7. QED
  BY <1>2, <1>5, <1>6 DEF left, gone, all, ComesOut

\* A writer of some parts is one of more.
LEMMA WritersWider == ASSUME NEW P, NEW Q, Seq(P) \subseteq Seq(Q), NEW x \in Writers(P) PROVE x \in Writers(Q)
BY DEF Writers

\* At most, and at most again.
LEMMA Onward == ASSUME NEW i \in Nat, NEW j \in Nat, NEW k \in Nat, i <= j, j <= k PROVE i <= k
OBVIOUS

\* What the reader and the link hold stays what it was, whatever the
\* writer goes on to do.
LEMMA RestStill ==
    ASSUME NEW a \in [Nat -> Nat], NEW b \in [Nat -> Nat], \A i \in Nat : i <= w.sent => b[i] = a[i],
           WriterHolds(a), ReaderHolds(a), LinkHolds(a), UNCHANGED <<r, received, link>>,
           w'.sent \in Nat, w.sent <= w'.sent, Len(written) \in Nat, Len(written') \in Nat, Len(received) \in Nat,
           Len(written) <= Len(written'), Over \subseteq Over'
    PROVE  ReaderHolds(b)' /\ LinkHolds(b)'
<1> DEFINE P == Parts(a, w.sent, Len(written), Over)
           Q == Parts(b, w'.sent, Len(written'), Over')
<1>1. w.sent \in Nat
  BY DEF WriterHolds, Writers
<1>2. Seq(P) \subseteq Seq(Q) /\ Seq(Seq(P)) \subseteq Seq(Seq(Q))
  BY <1>1, PartsWider
<1>3. r \in Readers(P) /\ 1 <= r.next /\ r.next <= w.sent
  BY DEF ReaderHolds
<1>4. link \in [chunks : Seq(Seq(P)), open : BOOLEAN]
  BY DEF LinkHolds
<1>5. PICK y \in Nat : /\ Carries(r.inflating, Len(received), y, Len(written), Over)
                       /\ Carries(r.inBuf, y, a[r.next], Len(written), Over)
  BY DEF ReaderHolds
<1> HIDE DEF P, Q
<1>6. r.inflating \in Seq(Nat) /\ r.inBuf \in Seq(Nat) /\ r.next \in Nat
  BY <1>3 DEF Readers
<1>7. r \in Readers(Q)
  BY <1>2, <1>3 DEF Readers
<1>8. link \in [chunks : Seq(Seq(Q)), open : BOOLEAN]
  BY <1>2, <1>4
<1>9. Carries(r.inflating, Len(received), y, Len(written'), Over')
  BY <1>5, <1>6, CarriesStill
<1>10. Carries(r.inBuf, y, b[r.next], Len(written'), Over')
  <2>1. b[r.next] = a[r.next]
    BY <1>3, <1>6
  <2>2. Carries(r.inBuf, y, a[r.next], Len(written'), Over')
    BY <1>5, <1>6, CarriesStill
  <2>3. QED
    BY <2>1, <2>2
<1>11. r.next <= w'.sent
  BY <1>1, <1>3, <1>6, Onward
<1>12. r' = r /\ received' = received /\ link' = link
  OBVIOUS
<1>13. r' \in Readers(Q) /\ 1 <= r'.next /\ r'.next <= w'.sent /\ link' \in [chunks : Seq(Seq(Q)), open : BOOLEAN]
  BY <1>3, <1>7, <1>8, <1>11, <1>12
<1>14. Carries(r'.inflating, Len(received'), y, Len(written'), Over') /\ Carries(r'.inBuf, y, b[r'.next], Len(written'), Over')
  BY <1>9, <1>10, <1>12
<1>15. QED
  BY <1>13, <1>14 DEF ReaderHolds, LinkHolds, Q

\* What is put in goes after what is held, and what comes out after what
\* came.
LEMMA DeflatesOn ==
    ASSUME NEW a \in [Nat -> Nat], WriterHolds(a), ReaderHolds(a), LinkHolds(a), shut = FALSE,
           Len(written) \in Nat, Len(written') \in Nat, Len(received) \in Nat, Len(written) <= Len(written'), shut' \in BOOLEAN,
           NEW u \in Nat, Carries(<<u>>, Len(written), Len(written'), Len(written'), Over'),
           w' \in Writers(Parts(a, w.sent, Len(written), Over)), w'.sent = w.sent, w'.finished = shut',
           ComesOut(w, u, w'),
           UNCHANGED <<r, received, link>>
    PROVE  WriterHolds(a)' /\ ReaderHolds(a)' /\ LinkHolds(a)'
<1> DEFINE P == Parts(a, w.sent, Len(written), Over)
           Q == Parts(a, w.sent, Len(written'), Over')
           all == w.deflating \o <<u>>
<1>1. w \in Writers(P) /\ 1 <= w.sent
  BY DEF WriterHolds
<1>2. PICK y \in Nat : /\ Carries(w.out, a[w.sent], y, Len(written), Over)
                       /\ Carries(w.deflating, y, Len(written), Len(written), Over)
  BY DEF WriterHolds
<1> HIDE DEF P, Q
<1>3. w.deflating \in Seq(Nat) /\ w.out \in Seq(Nat) /\ w.sent \in Nat
  BY <1>1 DEF Writers
<1>4. Over \subseteq Over' /\ w.sent <= w.sent
  <2>1. Over \subseteq Over'
    BY DEF Over
  <2>2. w.sent <= w.sent
    BY <1>3, AtMostItself
  <2>3. QED
    BY <2>1, <2>2
<1>5. Seq(P) \subseteq Seq(Q)
  BY <1>3, <1>4, PartsWider DEF P, Q
<1>6. <<u>> \in Seq(Nat) /\ all \in Seq(Nat)
  BY <1>3, Joined
<1> HIDE DEF all
<1>7. PICK n \in 0..Len(all) : /\ w'.out = w.out \o SubSeq(all, 1, n)
                               /\ w'.deflating = SubSeq(all, n + 1, Len(all))
  BY DEF all, ComesOut
<1>8. Carries(all, y, Len(written'), Len(written'), Over')
  <2>1. Carries(w.deflating, y, Len(written), Len(written'), Over')
    BY <1>2, <1>3, <1>4, CarriesStill
  <2>2. QED
    BY <1>3, <1>6, <2>1, CarriesOn DEF all
<1>9. PICK z \in 0..Len(written') : /\ Carries(SubSeq(all, 1, n), y, z, Len(written'), Over')
                                    /\ Carries(SubSeq(all, n + 1, Len(all)), z, Len(written'), Len(written'), Over')
  BY <1>6, <1>8, CarriesCut
<1>10. Carries(w'.out, a[w.sent], z, Len(written'), Over')
  <2>1. Carries(w.out, a[w.sent], y, Len(written'), Over')
    BY <1>2, <1>3, <1>4, CarriesStill
  <2>2. SubSeq(all, 1, n) \in Seq(Nat)
    BY <1>6, InTwo
  <2>3. QED
    BY <1>3, <1>7, <1>9, <2>1, <2>2, CarriesOn
<1>11. w' \in Writers(Q)
  BY <1>5, WritersWider DEF P
<1>12. WriterHolds(a)'
  <2>1. Carries(w'.out, a[w'.sent], z, Len(written'), Over') /\ Carries(w'.deflating, z, Len(written'), Len(written'), Over')
    BY <1>7, <1>9, <1>10
  <2>2. w' \in Writers(Parts(a, w'.sent, Len(written'), Over')) /\ 1 <= w'.sent
    BY <1>1, <1>11 DEF Q
  <2>3. w'.finished = shut' /\ z \in Nat
    OBVIOUS
  <2>4. QED
    BY <2>1, <2>2, <2>3 DEF WriterHolds
<1>13. w'.sent \in Nat /\ w.sent <= w'.sent
  BY <1>3, <1>4
<1>14. \A i \in Nat : i <= w.sent => a[i] = a[i]
  OBVIOUS
<1>15. QED
  BY <1>4, <1>12, <1>13, <1>14, RestStill

\* A byte written (compress.rs, poll_write).
LEMMA WritesByteHolds ==
    ASSUME NEW a \in [Nat -> Nat], ChanHeld(a), WritesByte(Len(written) + 1)
    PROVE  ChanHeld(a)' /\ Steps
<1> DEFINE t == Len(written)
<1>1. /\ WriterHolds(a) /\ ReaderHolds(a) /\ LinkHolds(a) /\ Ends /\ Streams
  BY DEF ChanHeld
<1>2. /\ ~w.finished /\ t < MaxBytes /\ written' = Append(written, t + 1)
      /\ UNCHANGED <<link, r, received, shut, outcome, genuine>>
  BY DEF WritesByte
<1>3. PICK kept \in 0..(Len(w.deflating) + 1) : w' = [Deflates(w, <<t + 1>>, kept) EXCEPT !.dirty = TRUE]
  BY DEF WritesByte
<1>4. w.finished = shut /\ shut = FALSE /\ shut' = shut /\ shut' \in BOOLEAN
  BY <1>1, <1>2 DEF WriterHolds, Streams
<1>5. w' = Deflated(w, t + 1, kept, TRUE, shut')
  <2>1. w \in Writers(Parts(a, w.sent, Len(written), Over))
    BY <1>1 DEF WriterHolds
  <2>2. QED
    BY <1>3, <1>4, <2>1 DEF Writers, Deflates, Deflated
<1>6. /\ written \in Seq(Nat) /\ received \in Seq(Nat) /\ written = Bytes(0, t) /\ MaxBytes \in Nat
  BY <1>1, Sizes DEF Streams
<1>7. /\ Len(written') = t + 1 /\ t \in Nat /\ Len(received) \in Nat /\ written' \in Seq(Nat) /\ t + 1 <= MaxBytes
  <2>1. t \in Nat /\ Len(received) \in Nat /\ t + 1 \in Nat
    BY <1>6, LenIs
  <2>2. written' \in Seq(Nat) /\ Len(written') = t + 1
    BY <1>2, <1>6, <2>1
  <2> HIDE DEF t
  <2>3. t + 1 <= MaxBytes
    BY <1>2, <1>6, <2>1
  <2>4. QED
    BY <2>1, <2>2, <2>3
<1>8. written' = Bytes(0, t + 1)
  <2>1. Append(Bytes(0, t), t + 1) = Bytes(0, t + 1)
    <3>1. 0 \in Nat /\ t \in Nat /\ 0 <= t
      BY <1>7
    <3> HIDE DEF t
    <3>2. QED
      BY <3>1, BytesOn
  <2>2. QED
    BY <1>2, <1>6, <2>1
<1>9. Carries(<<t + 1>>, t, Len(written'), Len(written'), Over')
  <2>1. t + 1 \in 1..MaxBytes /\ t \in 0..(t + 1) /\ t + 1 \in 0..(t + 1) /\ t + 1 \in Nat
    <3> HIDE DEF t
    <3>1. QED
      BY <1>6, <1>7
  <2> HIDE DEF t
  <2>2. Carries(<<t + 1>>, t, t + 1, t + 1, Over')
    BY <2>1, CarriesUnit
  <2>3. QED
    BY <1>7, <2>2
<1>w. w \in Writers(Parts(a, w.sent, Len(written), Over)) /\ kept \in Kept(w)
  BY <1>1 DEF WriterHolds, Kept
<1>d. /\ w' \in Writers(Parts(a, w.sent, Len(written), Over)) /\ w'.sent = w.sent /\ w'.finished = shut'
      /\ ComesOut(w, t + 1, w')
  <2>1. PICK d \in BOOLEAN, e \in BOOLEAN : d = TRUE /\ e = shut'
    BY <1>4
  <2>2. w' = Deflated(w, t + 1, kept, d, e)
    BY <1>5, <2>1
  <2>3. /\ w' \in Writers(Parts(a, w.sent, Len(written), Over))
        /\ ComesOut(w, t + 1, w')
    BY <1>w, <1>4, <1>7, <2>2, DeflatesIs
  <2>4. w'.finished = shut' /\ w'.sent = w.sent
    BY <1>w, <1>5 DEF Deflated, Deflates, Writers
  <2>5. QED
    BY <2>3, <2>4
<1>10. WriterHolds(a)' /\ ReaderHolds(a)' /\ LinkHolds(a)'
  <2>1. t <= Len(written') /\ Len(written') \in Nat /\ t + 1 \in Nat
    BY <1>7
  <2>2. TRUE \in BOOLEAN
    OBVIOUS
  <2>3. QED
    BY <1>1, <1>2, <1>4, <1>d, <1>7, <1>9, <2>1, <2>2, DeflatesOn
<1>11. Ends' /\ Streams'
  <2>1. Ends'
    BY <1>1, <1>2, <1>4 DEF Ends
  <2>2. Streams'
    BY <1>1, <1>2, <1>7, <1>8 DEF Streams
  <2>3. QED
    BY <2>1, <2>2
<1>12. Steps
  <2>1. t + 1 \in 1..MaxBytes
    BY <1>6, <1>7
  <2>2. Abstract!Write
    BY <1>2, <1>4, <2>1 DEF Abstract!Write
  <2>3. QED
    BY <2>2 DEF Steps, Abstract!Next
<1>13. QED
  BY <1>10, <1>11, <1>12 DEF ChanHeld

\* A sync flush (compress.rs, poll_flush).
LEMMA FlushesHolds ==
    ASSUME NEW a \in [Nat -> Nat], ChanHeld(a), Flushes
    PROVE  ChanHeld(a)' /\ Steps
<1> DEFINE t == Len(written)
<1>1. /\ WriterHolds(a) /\ ReaderHolds(a) /\ LinkHolds(a) /\ Ends /\ Streams
  BY DEF ChanHeld
<1>2. /\ ~w.finished /\ UNCHANGED <<link, r, written, received, shut, outcome, genuine>>
      /\ w' = [Deflates(w, <<Sync>>, 0) EXCEPT !.dirty = FALSE]
  BY DEF Flushes
<1>3. w.finished = shut /\ shut = FALSE /\ shut' = shut /\ shut' \in BOOLEAN
  BY <1>1, <1>2 DEF WriterHolds, Streams
<1>4. w \in Writers(Parts(a, w.sent, Len(written), Over))
  BY <1>1 DEF WriterHolds
<1>5. w' = Deflated(w, Sync, 0, FALSE, shut')
  BY <1>2, <1>3, <1>4 DEF Writers, Deflates, Deflated
<1>6. t \in Nat /\ Len(received) \in Nat /\ written' = written
  BY <1>1, <1>2 DEF Streams
<1>7. Sync \in Nat /\ Carries(<<Sync>>, t, Len(written'), Len(written'), Over')
  <2>1. t \in 0..t /\ Sync \in Nat
    BY <1>6, Units
  <2> HIDE DEF t
  <2>2. Carries(<<Sync>>, t, t, t, Over')
    BY <1>6, <2>1, CarriesUnit
  <2>3. QED
    BY <1>6, <2>1, <2>2 DEF t
<1>z. 0 \in Kept(w)
  BY <1>4 DEF Writers, Kept
<1>d. /\ w' \in Writers(Parts(a, w.sent, Len(written), Over)) /\ w'.sent = w.sent /\ w'.finished = shut'
      /\ ComesOut(w, Sync, w')
  <2>1. PICK d \in BOOLEAN, e \in BOOLEAN : d = FALSE /\ e = shut'
    BY <1>3
  <2>2. w' = Deflated(w, Sync, 0, d, e)
    BY <1>5, <2>1
  <2>3. /\ w' \in Writers(Parts(a, w.sent, Len(written), Over))
        /\ ComesOut(w, Sync, w')
    BY <1>z, <1>3, <1>4, <1>7, <2>2, DeflatesIs
  <2>4. w'.finished = shut' /\ w'.sent = w.sent
    BY <1>4, <1>5 DEF Deflated, Deflates, Writers
  <2>5. QED
    BY <2>3, <2>4
<1>8. WriterHolds(a)' /\ ReaderHolds(a)' /\ LinkHolds(a)'
  <2>1. t <= Len(written') /\ Len(written') \in Nat
    BY <1>6, AtMostItself
  <2>2. QED
    BY <1>1, <1>2, <1>3, <1>d, <1>6, <1>7, <2>1, DeflatesOn
<1>9. Ends' /\ Streams' /\ Steps
  BY <1>1, <1>2 DEF Ends, Streams, Steps
<1>10. QED
  BY <1>8, <1>9 DEF ChanHeld

\* The end of the stream, written (compress.rs, poll_close).
LEMMA FinishesHolds ==
    ASSUME NEW a \in [Nat -> Nat], ChanHeld(a), Finishes
    PROVE  ChanHeld(a)' /\ Steps
<1> DEFINE t == Len(written)
<1>1. /\ WriterHolds(a) /\ ReaderHolds(a) /\ LinkHolds(a) /\ Ends /\ Streams
  BY DEF ChanHeld
<1>2. /\ ~w.finished /\ UNCHANGED <<link, r, written, received, outcome, genuine>> /\ shut' = TRUE
      /\ w' = [Deflates(w, <<Finish>>, 0) EXCEPT !.dirty = FALSE, !.finished = TRUE]
  BY DEF Finishes
<1>3. w.finished = shut /\ shut = FALSE /\ shut' \in BOOLEAN
  BY <1>1, <1>2 DEF WriterHolds
<1>4. w \in Writers(Parts(a, w.sent, Len(written), Over))
  BY <1>1 DEF WriterHolds
<1>5. w' = Deflated(w, Finish, 0, FALSE, shut')
  BY <1>2 DEF Deflated
<1>6. t \in Nat /\ Len(received) \in Nat /\ written' = written
  BY <1>1, <1>2 DEF Streams
<1>7. Finish \in Nat /\ Carries(<<Finish>>, t, Len(written'), Len(written'), Over')
  <2>1. t \in 0..t /\ Finish \in Nat
    BY <1>6, Units
  <2> HIDE DEF t
  <2>2. Carries(<<Finish>>, t, t, t, Over')
    <3>1. t \in Over'
      BY <1>2, <1>6 DEF Over, t
    <3>2. QED
      BY <1>6, <2>1, <3>1, CarriesUnit
  <2>3. QED
    BY <1>2, <1>6, <2>1, <2>2 DEF t
<1>z. 0 \in Kept(w)
  BY <1>4 DEF Writers, Kept
<1>d. /\ w' \in Writers(Parts(a, w.sent, Len(written), Over)) /\ w'.sent = w.sent /\ w'.finished = shut'
      /\ ComesOut(w, Finish, w')
  <2>1. PICK d \in BOOLEAN, e \in BOOLEAN : d = FALSE /\ e = shut'
    BY <1>3
  <2>2. w' = Deflated(w, Finish, 0, d, e)
    BY <1>5, <2>1
  <2>3. /\ w' \in Writers(Parts(a, w.sent, Len(written), Over))
        /\ ComesOut(w, Finish, w')
    BY <1>z, <1>3, <1>4, <1>7, <2>2, DeflatesIs
  <2>4. w'.finished = shut' /\ w'.sent = w.sent
    BY <1>4, <1>5 DEF Deflated, Deflates, Writers
  <2>5. QED
    BY <2>3, <2>4
<1>8. WriterHolds(a)' /\ ReaderHolds(a)' /\ LinkHolds(a)'
  <2>1. t <= Len(written') /\ Len(written') \in Nat
    BY <1>6, AtMostItself
  <2>2. QED
    BY <1>1, <1>2, <1>3, <1>d, <1>6, <1>7, <2>1, DeflatesOn
<1>9. Ends' /\ Streams'
  BY <1>1, <1>2, <1>3 DEF Ends, Streams
<1>10. Steps
  BY <1>2, <1>3 DEF Steps, Abstract!Next, Abstract!Shut
<1>11. QED
  BY <1>8, <1>9, <1>10 DEF ChanHeld

\* As much as there is, up to the most there may be.
LEMMA SizeOf ==
    ASSUME NEW S, NEW s \in Seq(S), NEW most \in Nat \ {0}
    PROVE  (IF Len(s) < most THEN Len(s) ELSE most) \in 0..Len(s)
OBVIOUS

\* The writer, once the first n units to be sent are sealed.
Sealed(x, n) ==
    [x EXCEPT !.out = SubSeq(@, n + 1, Len(@)), !.sent = @ + 1,
              !.noise = Framed(Frame(x.sent, "transport", SubSeq(x.out, 1, n)))]
\* A frame of what is to be sent is taken off it (stream.rs,
\* poll_write).
LEMMA SealedIs ==
    ASSUME NEW P, NEW Q, Seq(P) \subseteq Seq(Q), NEW x \in Writers(P), NEW n \in 0..Len(x.out),
           Framed(Frame(x.sent, "transport", SubSeq(x.out, 1, n))) \in Seq(Q)
    PROVE  Sealed(x, n) \in Writers(Q)
<1> DEFINE noise == Framed(Frame(x.sent, "transport", SubSeq(x.out, 1, n)))
           out == SubSeq(x.out, n + 1, Len(x.out))
           sent == x.sent + 1
<1>1. x.out \in Seq(Nat) /\ x.sent \in Nat /\ x.deflating \in Seq(Nat) /\ x.dirty \in BOOLEAN /\ x.finished \in BOOLEAN
  BY DEF Writers
<1>2. out \in Seq(Nat) /\ sent \in Nat
  <2>1. out \in Seq(Nat)
    BY <1>1, InTwo
  <2>2. sent \in Nat
    BY <1>1
  <2>3. QED
    BY <2>1, <2>2
<1>3. noise \in Seq(Q)
  OBVIOUS
<1>4. Sealed(x, n) = [x EXCEPT !.out = out, !.sent = sent, !.noise = noise]
  BY DEF Sealed
<1> HIDE DEF noise, out, sent
<1>5. Sealed(x, n) = [deflating |-> x.deflating, dirty |-> x.dirty, finished |-> x.finished, out |-> out,
                      noise |-> noise, sent |-> sent]
  BY <1>4 DEF Writers
<1>6. Sealed(x, n) \in Writers(Q)
  BY <1>1, <1>2, <1>3, <1>5 DEF Writers
<1>7. QED
  BY <1>6

\* And nothing else of the writer changes.
LEMMA SealedKeeps ==
    ASSUME NEW P, NEW x \in Writers(P), NEW n
    PROVE  /\ Sealed(x, n).sent = x.sent + 1 /\ Sealed(x, n).finished = x.finished
           /\ Sealed(x, n).deflating = x.deflating /\ Sealed(x, n).out = SubSeq(x.out, n + 1, Len(x.out))
BY DEF Sealed, Writers

\* A Noise message sealed: the next frame begins where it ends.
LEMMA EncryptsHolds ==
    ASSUME NEW a \in [Nat -> Nat], ChanHeld(a), Encrypts
    PROVE  ChanInv' /\ Steps
<1> DEFINE t == Len(written)
           n == IF Len(w.out) < MaxPlaintext THEN Len(w.out) ELSE MaxPlaintext
           units == SubSeq(w.out, 1, n)
           rest == SubSeq(w.out, n + 1, Len(w.out))
           m == w.sent
           P == Parts(a, m, t, Over)
           f == Frame(m, "transport", units)
<1>1. WriterHolds(a) /\ ReaderHolds(a) /\ LinkHolds(a) /\ Ends /\ Streams
  BY DEF ChanHeld
<1>2. w' = Sealed(w, n) /\ UNCHANGED <<link, r, written, received, shut, outcome, genuine>>
  BY DEF Encrypts, Sealed
<1>3. w \in Writers(P) /\ 1 <= m /\ w.finished = shut
  BY <1>1 DEF WriterHolds
<1>4. PICK y \in Nat : /\ Carries(w.out, a[m], y, t, Over)
                       /\ Carries(w.deflating, y, t, t, Over)
  BY <1>1 DEF WriterHolds
<1>5. t \in Nat /\ Len(received) \in Nat /\ written' = written /\ Over' = Over
  BY <1>1, <1>2, LenIs DEF Streams, Over
<1>6. w.out \in Seq(Nat) /\ m \in Nat /\ m + 1 \in Nat /\ m <= m + 1 /\ 1 <= m + 1
  <2>1. w.out \in Seq(Nat) /\ m \in Nat
    BY <1>3 DEF Writers
  <2> HIDE DEF m
  <2>2. QED
    BY <1>3, <2>1
<1> HIDE DEF P
<1>7. n \in 0..Len(w.out)
  BY <1>6, Sizes, SizeOf
<1> HIDE DEF n
<1>8. units \in Seq(Nat) /\ rest \in Seq(Nat)
  BY <1>6, <1>7, InTwo
<1>9. PICK z \in 0..t : Carries(units, a[m], z, t, Over) /\ Carries(rest, z, y, t, Over)
  BY <1>4, <1>5, <1>6, <1>7, CarriesCut
<1> HIDE DEF units, rest, t
<1> HIDE DEF m
<1>10. PICK b \in [Nat -> Nat] : b[m + 1] = z /\ b[m] = a[m] /\ \A i \in Nat : i <= m => b[i] = a[i]
  <2> DEFINE d == [i \in Nat |-> IF i = m + 1 THEN z ELSE a[i]]
  <2>1. m + 1 # m /\ \A i \in Nat : i <= m => i # m + 1
    BY <1>6
  <2>2. z \in Nat
    BY <1>5
  <2>3. d \in [Nat -> Nat] /\ d[m + 1] = z /\ d[m] = a[m] /\ \A i \in Nat : i <= m => d[i] = a[i]
    BY <1>6, <2>1, <2>2
  <2> HIDE DEF d
  <2>4. QED
    BY <2>3
<1> DEFINE Q == Parts(b, m + 1, t, Over)
<1>11. Seq(P) \subseteq Seq(Q)
  <2>1. Over \subseteq Over /\ t <= t
    BY <1>5, AtMostItself
  <2>2. QED
    BY <1>5, <1>6, <1>10, <2>1, PartsWider DEF P
<1>12. Framed(f) \in Seq(Q)
  <2>1. f = [n |-> m, kind |-> "transport", units |-> units]
    BY DEF Frame
  <2> HIDE DEF f
  <2>2. f \in Frames /\ f.n = m /\ f.units = units /\ f.kind = "transport"
    <3>1. f \in Frames
      BY <1>6, <1>8, <2>1 DEF Frames
    <3>2. f.n = m /\ f.units = units /\ f.kind = "transport"
      BY <2>1
    <3>3. QED
      BY <3>1, <3>2
  <2>3. m + 1 <= m + 1
    BY <1>6, AtMostItself
  <2>4. MadeAs(f, b, m + 1, t, Over)
    BY <1>3, <1>6, <1>9, <1>10, <2>2, <2>3 DEF MadeAs
  <2>5. QED
    BY <2>2, <2>4, FramedIs
<1> HIDE DEF Q
<1>13. /\ w' \in Writers(Q) /\ w'.sent = m + 1 /\ w'.finished = shut /\ w'.deflating = w.deflating /\ w'.out = rest
  <2>1. Framed(Frame(w.sent, "transport", SubSeq(w.out, 1, n))) \in Seq(Q)
    BY <1>12 DEF units, m
  <2>2. Sealed(w, n) \in Writers(Q)
    BY <1>3, <1>7, <1>11, <2>1, SealedIs
  <2>3. /\ Sealed(w, n).sent = w.sent + 1 /\ Sealed(w, n).finished = w.finished
        /\ Sealed(w, n).deflating = w.deflating /\ Sealed(w, n).out = SubSeq(w.out, n + 1, Len(w.out))
    BY <1>3, SealedKeeps
  <2>4. QED
    BY <1>2, <1>3, <2>2, <2>3 DEF rest, m
<1>14. WriterHolds(b)'
  <2>1. Carries(w'.out, b[w'.sent], y, Len(written'), Over') /\ Carries(w'.deflating, y, Len(written'), Len(written'), Over')
    BY <1>4, <1>5, <1>9, <1>10, <1>13 DEF t
  <2>2. w' \in Writers(Parts(b, w'.sent, Len(written'), Over')) /\ 1 <= w'.sent
    BY <1>5, <1>6, <1>13 DEF Q, t
  <2>3. w'.finished = shut'
    BY <1>2, <1>13
  <2>4. QED
    BY <2>1, <2>2, <2>3 DEF WriterHolds
<1>15. ReaderHolds(b)' /\ LinkHolds(b)'
  <2>1. w'.sent \in Nat /\ w.sent <= w'.sent /\ \A i \in Nat : i <= w.sent => b[i] = a[i]
    BY <1>6, <1>10, <1>13 DEF m
  <2>2. Len(written) <= Len(written') /\ Len(written') \in Nat /\ Over \subseteq Over'
    BY <1>5, AtMostItself DEF t
  <2>3. QED
    BY <1>1, <1>2, <1>5, <1>10, <2>1, <2>2, RestStill DEF t
<1>16. Ends' /\ Streams' /\ Steps
  BY <1>1, <1>2 DEF Ends, Streams, Steps
<1>17. ChanHeld(b)'
  BY <1>14, <1>15, <1>16 DEF ChanHeld
<1>18. QED
  BY <1>10, <1>16, <1>17 DEF ChanInv

\* A writer that does nothing.
LEMMA WriterKept ==
    ASSUME NEW a \in [Nat -> Nat], WriterHolds(a), UNCHANGED <<w, written, shut>>
    PROVE  WriterHolds(a)'
BY DEF WriterHolds, Over

\* A chunk put on the link (gatt.rs, write_chunks).
LEMMA NotifiesHolds ==
    ASSUME NEW a \in [Nat -> Nat], ChanHeld(a), Notifies
    PROVE  ChanHeld(a)' /\ Steps
<1> DEFINE P == Parts(a, w.sent, Len(written), Over)
           n == IF Len(w.noise) < MaxChunk THEN Len(w.noise) ELSE MaxChunk
           gone == SubSeq(w.noise, 1, n)
           left == SubSeq(w.noise, n + 1, Len(w.noise))
<1>1. WriterHolds(a) /\ ReaderHolds(a) /\ LinkHolds(a) /\ Ends /\ Streams
  BY DEF ChanHeld
<1>2. /\ UNCHANGED <<r, written, received, shut, outcome, genuine>>
      /\ link' = [link EXCEPT !.chunks = Append(@, gone)] /\ w' = [w EXCEPT !.noise = left]
  BY DEF Notifies
<1>3. w \in Writers(P) /\ link \in [chunks : Seq(Seq(P)), open : BOOLEAN]
  BY <1>1 DEF WriterHolds, LinkHolds
<1> HIDE DEF P
<1>4. w.noise \in Seq(P) /\ n \in 0..Len(w.noise)
  <2>1. w.noise \in Seq(P)
    BY <1>3 DEF Writers
  <2>2. QED
    BY <2>1, Sizes, SizeOf
<1> HIDE DEF n
<1>5. gone \in Seq(P) /\ left \in Seq(P)
  BY <1>4, InTwo
<1> HIDE DEF gone, left
<1>6. link' \in [chunks : Seq(Seq(P)), open : BOOLEAN]
  <2> DEFINE now == Append(link.chunks, gone)
  <2>1. now \in Seq(Seq(P))
    BY <1>3, <1>5
  <2> HIDE DEF now
  <2>2. link' = [link EXCEPT !.chunks = now]
    BY <1>2 DEF now
  <2>3. QED
    BY <1>3, <2>1, <2>2
<1>7. /\ w' \in Writers(P) /\ w'.sent = w.sent /\ w'.finished = w.finished
      /\ w'.out = w.out /\ w'.deflating = w.deflating
  BY <1>2, <1>3, <1>5 DEF Writers
<1>8. Over' = Over /\ written' = written
  BY <1>2 DEF Over
<1>9. WriterHolds(a)'
  <2>1. PICK y \in Nat : /\ Carries(w.out, a[w.sent], y, Len(written), Over)
                         /\ Carries(w.deflating, y, Len(written), Len(written), Over)
    BY <1>1 DEF WriterHolds
  <2>2. 1 <= w'.sent
    BY <1>1, <1>7 DEF WriterHolds
  <2>3. w'.finished = shut'
    BY <1>1, <1>2, <1>7 DEF WriterHolds
  <2>4. w' \in Writers(Parts(a, w'.sent, Len(written'), Over'))
    BY <1>7, <1>8 DEF P
  <2>5. /\ Carries(w'.out, a[w'.sent], y, Len(written'), Over')
        /\ Carries(w'.deflating, y, Len(written'), Len(written'), Over')
    BY <1>7, <1>8, <2>1
  <2>6. QED
    BY <2>2, <2>3, <2>4, <2>5 DEF WriterHolds
<1>10. LinkHolds(a)'
  BY <1>6, <1>7, <1>8 DEF P, LinkHolds
<1>11. ReaderHolds(a)'
  BY <1>1, <1>2, <1>7, <1>8 DEF ReaderHolds
<1>12. Ends' /\ Streams' /\ Steps
  BY <1>1, <1>2 DEF Ends, Streams, Steps
<1>13. QED
  BY <1>9, <1>10, <1>11, <1>12 DEF ChanHeld

\* The transport closed, or the link cut with some of what was on it.
LEMMA ClosesHolds ==
    ASSUME NEW a \in [Nat -> Nat], ChanHeld(a), Closes \/ Cut
    PROVE  ChanHeld(a)' /\ Steps
<1> DEFINE P == Parts(a, w.sent, Len(written), Over)
<1>1. WriterHolds(a) /\ ReaderHolds(a) /\ LinkHolds(a) /\ Ends /\ Streams
  BY DEF ChanHeld
<1>2. UNCHANGED <<w, r, written, received, shut, outcome, genuine>>
  BY DEF Closes, Cut
<1>3. link \in [chunks : Seq(Seq(P)), open : BOOLEAN]
  BY <1>1 DEF LinkHolds
<1> HIDE DEF P
<1>4. link' \in [chunks : Seq(Seq(P)), open : BOOLEAN]
  <2>1. CASE Closes
    BY <1>3, <2>1 DEF Closes
  <2>2. CASE Cut
    <3>1. PICK n \in 0..Len(link.chunks) : link' = [chunks |-> SubSeq(link.chunks, 1, n), open |-> FALSE]
      BY <2>2 DEF Cut
    <3>2. link.chunks \in Seq(Seq(P))
      BY <1>3
    <3>3. SubSeq(link.chunks, 1, n) \in Seq(Seq(P))
      BY <3>2, InTwo
    <3>4. QED
      BY <3>1, <3>3
  <2>3. QED
    BY <2>1, <2>2
<1>5. LinkHolds(a)'
  BY <1>2, <1>4 DEF P, LinkHolds, Over
<1>6. WriterHolds(a)' /\ ReaderHolds(a)'
  BY <1>1, <1>2 DEF WriterHolds, ReaderHolds, Over
<1>7. Ends' /\ Streams' /\ Steps
  BY <1>1, <1>2 DEF Ends, Streams, Steps
<1>8. QED
  BY <1>5, <1>6, <1>7 DEF ChanHeld

\* Bytes are as many as they are.
LEMMA BytesAre ==
    ASSUME NEW x \in Nat, NEW y \in Nat, x <= y
    PROVE  Bytes(x, y) \in Seq(Nat) /\ Len(Bytes(x, y)) = y - x /\ \A j \in 1..(y - x) : Bytes(x, y)[j] = x + j
BY DEF Bytes

\* Sequences of the same things are the same.
LEMMA SameSeq ==
    ASSUME NEW s \in Seq(Nat), NEW v \in Seq(Nat), NEW n \in Nat, Len(s) = n, Len(v) = n, \A j \in 1..n : s[j] = v[j]
    PROVE  s = v
OBVIOUS

\* One sequence after another, by its elements.
LEMMA Concat ==
    ASSUME NEW s \in Seq(Nat), NEW u \in Seq(Nat)
    PROVE  /\ s \o u \in Seq(Nat) /\ Len(s \o u) = Len(s) + Len(u)
           /\ \A j \in 1..(Len(s) + Len(u)) : (s \o u)[j] = IF j <= Len(s) THEN s[j] ELSE u[j - Len(s)]
OBVIOUS

\* Bytes after those before them.
LEMMA BytesJoin ==
    ASSUME NEW x \in Nat, NEW y \in Nat, NEW z \in Nat, x <= y, y <= z
    PROVE  Bytes(x, y) \o Bytes(y, z) = Bytes(x, z)
<1> DEFINE m == y - x
           n == z - y
           s == Bytes(x, y)
           u == Bytes(y, z)
           v == Bytes(x, z)
<1>1. m \in Nat /\ n \in Nat /\ y = x + m /\ z - x = m + n /\ x <= z
  OBVIOUS
<1>2. s \in Seq(Nat) /\ Len(s) = m /\ \A j \in 1..m : s[j] = x + j
  BY BytesAre
<1>3. u \in Seq(Nat) /\ Len(u) = n /\ \A j \in 1..n : u[j] = y + j
  BY BytesAre
<1>4. v \in Seq(Nat) /\ Len(v) = m + n /\ \A j \in 1..(m + n) : v[j] = x + j
  BY <1>1, BytesAre
<1> HIDE DEF m, n, s, u, v
<1>5. /\ s \o u \in Seq(Nat) /\ Len(s \o u) = m + n /\ m + n \in Nat
      /\ \A j \in 1..(m + n) : (s \o u)[j] = IF j <= m THEN s[j] ELSE u[j - m]
  <2>1. m \in Nat /\ n \in Nat /\ s \in Seq(Nat) /\ u \in Seq(Nat) /\ Len(s) = m /\ Len(u) = n
    BY <1>1, <1>2, <1>3
  <2>2. s \o u \in Seq(Nat) /\ Len(s \o u) = Len(s) + Len(u)
    BY <2>1, Concat
  <2>3. \A j \in 1..(Len(s) + Len(u)) : (s \o u)[j] = IF j <= Len(s) THEN s[j] ELSE u[j - Len(s)]
    BY <2>1, Concat
  <2>4. m + n \in Nat
    BY <1>1
  <2>5. QED
    BY <2>1, <2>2, <2>3, <2>4, Zenon
<1>6. ASSUME NEW j \in 1..(m + n) PROVE (s \o u)[j] = v[j]
  <2>1. CASE j <= m
    <3>1. j \in 1..m
      BY <1>1, <2>1
    <3>2. QED
      BY <1>2, <1>4, <1>5, <2>1, <3>1
  <2>2. CASE ~(j <= m)
    <3>1. j - m \in 1..n /\ y + (j - m) = x + j
      BY <1>1, <2>2
    <3>2. (s \o u)[j] = u[j - m]
      BY <1>5, <2>2
    <3>3. QED
      BY <1>3, <1>4, <3>1, <3>2
  <2>3. QED
    BY <2>1, <2>2
<1>7. s \o u = v
  BY <1>1, <1>4, <1>5, <1>6, SameSeq
<1>8. QED
  BY <1>7 DEF s, u, v

\* Bytes cut in two.
LEMMA BytesCut ==
    ASSUME NEW x \in Nat, NEW y \in Nat, x <= y, NEW k \in Nat, k <= y - x
    PROVE  /\ SubSeq(Bytes(x, y), 1, k) = Bytes(x, x + k)
           /\ SubSeq(Bytes(x, y), k + 1, Len(Bytes(x, y))) = Bytes(x + k, y)
<1> DEFINE n == y - x
           s == Bytes(x, y)
           u == Bytes(x, x + k)
           v == Bytes(x + k, y)
<1>1. n \in Nat /\ y = x + n /\ k <= n /\ x + k \in Nat /\ x <= x + k /\ x + k <= y /\ (x + k) - x = k /\ y - (x + k) = n - k
      /\ n - k \in Nat
  OBVIOUS
<1>2. s \in Seq(Nat) /\ Len(s) = n /\ \A j \in 1..n : s[j] = x + j
  BY BytesAre
<1>3. u \in Seq(Nat) /\ Len(u) = k /\ \A j \in 1..k : u[j] = x + j
  BY <1>1, BytesAre
<1>4. v \in Seq(Nat) /\ Len(v) = n - k /\ \A j \in 1..(n - k) : v[j] = (x + k) + j
  BY <1>1, BytesAre
<1> HIDE DEF n, s, u, v
<1>5. SubSeq(s, 1, k) \in Seq(Nat) /\ Len(SubSeq(s, 1, k)) = k /\ \A j \in 1..k : SubSeq(s, 1, k)[j] = s[j]
  BY <1>1, <1>2
<1>6. /\ SubSeq(s, k + 1, n) \in Seq(Nat) /\ Len(SubSeq(s, k + 1, n)) = n - k
      /\ \A j \in 1..(n - k) : SubSeq(s, k + 1, n)[j] = s[k + j]
  BY <1>1, <1>2
<1>7. SubSeq(s, 1, k) = u
  <2>1. \A j \in 1..k : j \in 1..n
    BY <1>1
  <2>2. \A j \in 1..k : SubSeq(s, 1, k)[j] = u[j]
    BY <1>2, <1>3, <1>5, <2>1
  <2>3. QED
    BY <1>3, <1>5, <2>2, SameSeq
<1>8. SubSeq(s, k + 1, n) = v
  <2>1. \A j \in 1..(n - k) : k + j \in 1..n /\ x + (k + j) = (x + k) + j
    BY <1>1
  <2>2. \A j \in 1..(n - k) : SubSeq(s, k + 1, n)[j] = v[j]
    BY <1>2, <1>4, <1>6, <2>1
  <2>3. QED
    BY <1>1, <1>4, <1>6, <2>2, SameSeq
<1>9. QED
  BY <1>2, <1>7, <1>8 DEF s, u, v
-----------------------------------------------------------------------------
\* What a reader's step leaves as it was.
LEMMA ReadsOn ==
    ASSUME NEW a \in [Nat -> Nat], ChanHeld(a), UNCHANGED <<w, written, received, shut, genuine>>,
           r' \in Readers(Parts(a, w.sent, Len(written), Over)), r'.inflating = r.inflating, r'.inBuf = r.inBuf,
           r'.next = r.next, r'.totalIn = r.totalIn, r'.streamEnd = r.streamEnd,
           r'.shaken = r.shaken \/ (r'.shaken /\ genuine), LinkHolds(a)'
    PROVE  ChanHeld(a)'
<1>1. WriterHolds(a) /\ ReaderHolds(a) /\ Ends /\ Streams
  BY DEF ChanHeld
<1>2. WriterHolds(a)'
  BY <1>1, WriterKept
<1>3. Over' = Over
  BY DEF Over
<1>4. ReaderHolds(a)'
  <2>1. PICK y \in Nat : /\ Carries(r.inflating, Len(received), y, Len(written), Over)
                         /\ Carries(r.inBuf, y, a[r.next], Len(written), Over)
    BY <1>1 DEF ReaderHolds
  <2>2. /\ Carries(r'.inflating, Len(received'), y, Len(written'), Over')
        /\ Carries(r'.inBuf, y, a[r'.next], Len(written'), Over')
    BY <1>3, <2>1
  <2>3. 1 <= r'.next /\ r'.next <= w'.sent
    BY <1>1 DEF ReaderHolds
  <2>4. r' \in Readers(Parts(a, w'.sent, Len(written'), Over'))
    BY <1>3
  <2>5. QED
    BY <2>2, <2>3, <2>4 DEF ReaderHolds
<1>5. Ends'
  BY <1>1 DEF Ends
<1>6. Streams'
  BY <1>1 DEF Streams
<1>7. QED
  BY <1>2, <1>4, <1>5, <1>6 DEF ChanHeld

\* A link on which nothing happens.
LEMMA LinkKept ==
    ASSUME NEW a \in [Nat -> Nat], LinkHolds(a), UNCHANGED <<w, link, written, shut>>
    PROVE  LinkHolds(a)'
BY DEF LinkHolds, Over

\* A chunk taken off the link (gatt.rs, poll_read).
LEMMA PullsChunkHolds ==
    ASSUME NEW a \in [Nat -> Nat], ChanHeld(a), PullsChunk
    PROVE  ChanHeld(a)' /\ Steps
<1> DEFINE P == Parts(a, w.sent, Len(written), Over)
           more == r.pending \o Head(link.chunks)
           rest == Tail(link.chunks)
<1>1. WriterHolds(a) /\ ReaderHolds(a) /\ LinkHolds(a) /\ Ends /\ Streams
  BY DEF ChanHeld
<1>2. /\ link.chunks # << >> /\ link' = [link EXCEPT !.chunks = rest] /\ r' = [r EXCEPT !.pending = more]
      /\ UNCHANGED <<w, written, received, shut, outcome, genuine>>
  BY DEF PullsChunk
<1>3. r \in Readers(P) /\ link \in [chunks : Seq(Seq(P)), open : BOOLEAN]
  BY <1>1 DEF ReaderHolds, LinkHolds
<1> HIDE DEF P
<1>4. rest \in Seq(Seq(P)) /\ Head(link.chunks) \in Seq(P)
  BY <1>2, <1>3
<1>5. more \in Seq(P)
  BY <1>3, <1>4 DEF Readers
<1> HIDE DEF more, rest
<1>6. link' \in [chunks : Seq(Seq(P)), open : BOOLEAN]
  BY <1>2, <1>3, <1>4
<1>7. /\ r' \in Readers(P) /\ r'.inflating = r.inflating /\ r'.inBuf = r.inBuf /\ r'.next = r.next
      /\ r'.totalIn = r.totalIn /\ r'.streamEnd = r.streamEnd /\ r'.shaken = r.shaken
  BY <1>2, <1>3, <1>5 DEF Readers
<1>8. LinkHolds(a)'
  BY <1>2, <1>6 DEF LinkHolds, Over, P
<1>9. ChanHeld(a)'
  BY <1>2, <1>7, <1>8, ReadsOn DEF P
<1>10. QED
  BY <1>2, <1>9 DEF Steps

\* What is left once a frame has been taken (framing.rs, Reassembler).
LEMMA TakenIs ==
    ASSUME NEW P, NEW s \in Seq(P), \A p \in P : p.len \in Nat, HasFrame(s)
    PROVE  Taken(s) \in Seq(P) /\ s[1] \in P
<1>1. s[1] \in P /\ Len(s) \in Nat /\ Len(s) > s[1].len
  BY DEF HasFrame
<1>2. s[1].len \in Nat
  BY <1>1
<1> DEFINE n == s[1].len
<1> HIDE DEF n
<1>3. n + 1 \in 0..Len(s) /\ (n + 1) + 1 = n + 2
  BY <1>1, <1>2 DEF n
<1>4. SubSeq(s, (n + 1) + 1, Len(s)) \in Seq(P)
  BY <1>3, InTwo
<1>5. QED
  BY <1>1, <1>3, <1>4 DEF Taken, n

\* The handshake read, and its keys checked (stream.rs, noise.rs).
LEMMA ShakesHolds ==
    ASSUME NEW a \in [Nat -> Nat], ChanHeld(a), Shakes
    PROVE  ChanHeld(a)' /\ Steps
<1> DEFINE P == Parts(a, w.sent, Len(written), Over)
           left == Taken(r.pending)
<1>1. WriterHolds(a) /\ ReaderHolds(a) /\ LinkHolds(a) /\ Ends /\ Streams
  BY DEF ChanHeld
<1>2. r \in Readers(P) /\ \A p \in P : p.len \in Nat
  BY <1>1 DEF ReaderHolds, Parts
<1> HIDE DEF P
<1>3. CASE genuine
  <2>1. r' = [r EXCEPT !.shaken = TRUE, !.pending = left] /\ UNCHANGED <<w, link, written, received, shut, outcome, genuine>>
    BY <1>3 DEF Shakes, Goes, ReadsTo
  <2>2. left \in Seq(P)
    BY <1>2, TakenIs DEF Shakes, Readers
  <2> HIDE DEF left
  <2>3. /\ r' \in Readers(P) /\ r'.inflating = r.inflating /\ r'.inBuf = r.inBuf /\ r'.next = r.next
        /\ r'.totalIn = r.totalIn /\ r'.streamEnd = r.streamEnd /\ r'.shaken
    BY <1>2, <2>1, <2>2 DEF Readers
  <2>4. LinkHolds(a)'
    BY <1>1, <2>1, LinkKept
  <2>5. ChanHeld(a)'
    BY <1>3, <2>1, <2>3, <2>4, ReadsOn DEF P
  <2>6. QED
    BY <2>1, <2>5 DEF Steps
<1>4. CASE ~genuine
  <2>1. r' = r /\ outcome = "none" /\ outcome' = "refused" /\ UNCHANGED <<w, link, written, received, shut, genuine>>
    BY <1>4 DEF Shakes, ReadEnds, ReadsTo
  <2>2. ChanHeld(a)'
    BY <1>1, <2>1 DEF ChanHeld, WriterHolds, ReaderHolds, LinkHolds, Ends, Streams, Over
  <2>3. Abstract!End
    BY <2>1 DEF Abstract!End
  <2>4. QED
    BY <2>2, <2>3 DEF Steps, Abstract!Next
<1>5. QED
  BY <1>3, <1>4

\* What was read given to the reassembler (stream.rs, poll_read).
LEMMA PushesHolds ==
    ASSUME NEW a \in [Nat -> Nat], ChanHeld(a), Pushes
    PROVE  ChanHeld(a)' /\ Steps
<1> DEFINE P == Parts(a, w.sent, Len(written), Over)
           more == r.buf \o r.pending
<1>1. WriterHolds(a) /\ ReaderHolds(a) /\ LinkHolds(a) /\ Ends /\ Streams
  BY DEF ChanHeld
<1>2. r' = [r EXCEPT !.buf = more, !.pending = << >>] /\ UNCHANGED <<w, link, written, received, shut, outcome, genuine>>
  BY DEF Pushes, Goes, ReadsTo
<1>3. r \in Readers(P)
  BY <1>1 DEF ReaderHolds
<1> HIDE DEF P
<1>4. more \in Seq(P)
  BY <1>3 DEF Readers
<1> HIDE DEF more
<1>5. /\ r' \in Readers(P) /\ r'.inflating = r.inflating /\ r'.inBuf = r.inBuf /\ r'.next = r.next
      /\ r'.totalIn = r.totalIn /\ r'.streamEnd = r.streamEnd /\ r'.shaken = r.shaken
  <2>1. << >> \in Seq(P)
    OBVIOUS
  <2>2. PICK none \in Seq(P) : none = << >>
    BY <2>1
  <2>3. r' = [r EXCEPT !.buf = more, !.pending = none]
    BY <1>2, <2>2
  <2>4. r' \in Readers(P)
    BY <1>3, <1>4, <2>3 DEF Readers
  <2>5. /\ r'.inflating = r.inflating /\ r'.inBuf = r.inBuf /\ r'.next = r.next
        /\ r'.totalIn = r.totalIn /\ r'.streamEnd = r.streamEnd /\ r'.shaken = r.shaken
    BY <1>3, <2>3 DEF Readers
  <2>6. QED
    BY <2>4, <2>5
<1>6. LinkHolds(a)'
  BY <1>1, <1>2, LinkKept
<1>7. ChanHeld(a)'
  BY <1>2, <1>5, <1>6, ReadsOn DEF P
<1>8. QED
  BY <1>2, <1>7 DEF Steps

\* The end of the stream, or of the transport (compress.rs, poll_read).
LEMMA EndsHolds ==
    ASSUME NEW a \in [Nat -> Nat], ChanHeld(a), ReadsEnd \/ ReadsEof
    PROVE  ChanHeld(a)' /\ Steps
<1>1. WriterHolds(a) /\ ReaderHolds(a) /\ LinkHolds(a) /\ Ends /\ Streams
  BY DEF ChanHeld
<1>2. r' = r /\ outcome = "none" /\ UNCHANGED <<w, link, written, received, shut, genuine>>
  BY DEF ReadsEnd, ReadsEof, ReadEnds, ReadsTo
<1>3. ChanHeld(a)'
  BY <1>1, <1>2 DEF ChanHeld, WriterHolds, ReaderHolds, LinkHolds, Ends, Streams, Over
<1>4. \/ outcome' = "end" /\ (received = << >> \/ (shut /\ received = written))
      \/ outcome' \in {"fault", "refused"}
  <2>1. CASE ReadsEnd
    BY <1>1, <2>1 DEF ReadsEnd, ReadEnds, Ends
  <2>2. CASE ReadsEof
    BY <1>1, <2>2 DEF ReadsEof, ReadEnds, EndOf, Ends
  <2>3. QED
    BY <2>1, <2>2
<1>5. Abstract!End
  BY <1>2, <1>4 DEF Abstract!End
<1>6. QED
  BY <1>3, <1>5 DEF Steps, Abstract!Next

\* A frame opened: only the next one the writer sealed can be.
LEMMA TakesFrameHolds ==
    ASSUME NEW a \in [Nat -> Nat], ChanHeld(a), TakesFrame
    PROVE  ChanHeld(a)' /\ Steps
<1> DEFINE P == Parts(a, w.sent, Len(written), Over)
           t == Len(written)
           left == Taken(r.buf)
           f == r.buf[1].of
           more == r.inBuf \o f.units
           n == r.next
<1>1. WriterHolds(a) /\ ReaderHolds(a) /\ LinkHolds(a) /\ Ends /\ Streams
  BY DEF ChanHeld
<1>2. r \in Readers(P) /\ (\A p \in P : p.len \in Nat) /\ 1 <= n /\ n <= w.sent
  BY <1>1 DEF ReaderHolds, Parts
<1>3. PICK y \in Nat : /\ Carries(r.inflating, Len(received), y, t, Over)
                       /\ Carries(r.inBuf, y, a[n], t, Over)
  BY <1>1 DEF ReaderHolds
<1>4. CASE Decrypts(r.buf)
  <2>1. /\ r' = [r EXCEPT !.buf = left, !.next = n + 1, !.inBuf = more]
        /\ UNCHANGED <<w, link, written, received, shut, outcome, genuine>> /\ r.shaken /\ ~r.streamEnd
    BY <1>4 DEF TakesFrame, Goes, ReadsTo
  <2>2. left \in Seq(P) /\ r.buf[1] \in P
    <3> HIDE DEF P
    <3>1. r.buf \in Seq(P) /\ HasFrame(r.buf)
      BY <1>2 DEF TakesFrame, Readers
    <3>2. QED
      BY <1>2, <3>1, TakenIs
  <2>3. f \in Frames /\ MadeAs(f, a, w.sent, t, Over) /\ f.n = n /\ f.kind = "transport"
    BY <1>4, <2>2 DEF Parts, Decrypts
  <2>4. f.units \in Seq(Nat) /\ n + 1 <= w.sent /\ Carries(f.units, a[n], a[n + 1], t, Over)
    BY <2>3 DEF Frames, MadeAs
  <2>5. r.inBuf \in Seq(Nat) /\ n \in Nat /\ t \in Nat
    BY <1>1, <1>2, LenIs DEF Readers, Streams
  <2> HIDE DEF P, f, left
  <2>6. more \in Seq(Nat)
    BY <2>4, <2>5
  <2>7. Carries(more, y, a[n + 1], t, Over)
    BY <1>3, <2>4, <2>5, CarriesOn
  <2> HIDE DEF more, n, t
  <2>8. n + 1 \in Nat /\ 1 <= n + 1
    BY <1>2, <2>5
  <2>9. /\ r' \in Readers(P) /\ r'.inflating = r.inflating /\ r'.inBuf = more /\ r'.next = n + 1
        /\ r'.totalIn = r.totalIn /\ r'.streamEnd = r.streamEnd /\ r'.shaken = r.shaken
    <3> DEFINE m == n + 1
    <3>1. m \in Nat
      BY <2>8
    <3> HIDE DEF m
    <3>2. r' = [r EXCEPT !.buf = left, !.next = m, !.inBuf = more]
      BY <2>1 DEF m
    <3>3. r' \in Readers(P)
      BY <1>2, <2>2, <2>6, <3>1, <3>2 DEF Readers
    <3>4. /\ r'.inflating = r.inflating /\ r'.inBuf = more /\ r'.next = m
          /\ r'.totalIn = r.totalIn /\ r'.streamEnd = r.streamEnd /\ r'.shaken = r.shaken
      BY <1>2, <3>2 DEF Readers
    <3>5. QED
      BY <3>3, <3>4 DEF m
  <2>10. Over' = Over /\ written' = written /\ w' = w /\ received' = received /\ shut' = shut /\ genuine' = genuine
    BY <2>1 DEF Over
  <2>11. ReaderHolds(a)'
    <3>1. Carries(r'.inflating, Len(received'), y, Len(written'), Over') /\ Carries(r'.inBuf, y, a[r'.next], Len(written'), Over')
      BY <1>3, <2>7, <2>9, <2>10 DEF t
    <3>2. 1 <= r'.next /\ r'.next <= w'.sent
      BY <2>4, <2>8, <2>9, <2>10
    <3>3. r' \in Readers(Parts(a, w'.sent, Len(written'), Over'))
      BY <2>9, <2>10 DEF P
    <3>4. QED
      BY <3>1, <3>2, <3>3 DEF ReaderHolds
  <2>12. WriterHolds(a)' /\ LinkHolds(a)'
    BY <1>1, <2>1, <2>10, WriterKept, LinkKept
  <2>13. Ends'
    BY <1>1, <2>1, <2>9, <2>10 DEF Ends
  <2>14. Streams'
    BY <1>1, <2>10 DEF Streams
  <2>15. QED
    BY <2>1, <2>11, <2>12, <2>13, <2>14 DEF ChanHeld, Steps
<1>5. CASE ~Decrypts(r.buf)
  <2>1. r' = r /\ outcome = "none" /\ outcome' = "fault" /\ UNCHANGED <<w, link, written, received, shut, genuine>>
    BY <1>5 DEF TakesFrame, ReadEnds, ReadsTo
  <2>2. ChanHeld(a)'
    BY <1>1, <2>1 DEF ChanHeld, WriterHolds, ReaderHolds, LinkHolds, Ends, Streams, Over
  <2>3. Abstract!End
    BY <2>1 DEF Abstract!End
  <2>4. QED
    BY <2>2, <2>3 DEF Steps, Abstract!Next
<1>6. QED
  BY <1>4, <1>5

\* What is left of the mark of the end, where the end is among what is
\* inflated.
LEMMA FinishingIs ==
    ASSUME NEW s \in Seq(Nat), NEW x, NEW y \in Nat, NEW t \in Nat, y <= t, Carries(s, x, y, t, Over), Over \subseteq {t}
    PROVE  /\ Finishing(s) \in Seq(Nat) /\ Carries(Finishing(s), y, y, t, Over)
           /\ Finishing(s) # << >> => y = t /\ shut
<1>1. CASE \E i \in DOMAIN s : s[i] = Finish
  <2>1. PICK k \in 1..Len(s) : s[k] = Finish
    BY <1>1
  <2>2. y = t /\ t \in Over
    BY <2>1, CarriesFinish
  <2>3. Finishing(s) = <<Finish>> /\ Finish \in Nat /\ y \in 0..t
    BY <1>1, Units DEF Finishing
  <2>4. Carries(<<Finish>>, y, y, t, Over)
    BY <2>2, <2>3, CarriesUnit
  <2>5. shut
    BY <2>2 DEF Over
  <2>6. <<Finish>> \in Seq(Nat)
    BY <2>3
  <2>7. QED
    BY <2>2, <2>3, <2>4, <2>5, <2>6
<1>2. CASE ~(\E i \in DOMAIN s : s[i] = Finish)
  <2>1. Finishing(s) = << >> /\ y \in 0..t
    BY <1>2 DEF Finishing
  <2>2. Carries(<< >>, y, y, t, Over)
    BY <2>1, CarriesNone
  <2>3. << >> \in Seq(Nat)
    OBVIOUS
  <2>4. QED
    BY <2>1, <2>2, <2>3
<1>3. QED
  BY <1>1, <1>2

\* What one call gives, and what it keeps.
LEMMA FillsAre ==
    ASSUME NEW s \in Seq(Nat), NEW x \in Nat, NEW z \in Nat, NEW t \in Nat, x <= z, z <= t, t <= MaxBytes,
           Carries(s, x, z, t, Over), NEW size \in Nat, Over \subseteq {t}
    PROVE  \E q \in Nat :
              /\ x <= q /\ q <= z /\ FillsBuffer(s, size) = Bytes(x, q)
              /\ Len(Outputs(s)) <= size => q = z
              /\ ~(Len(Outputs(s)) <= size) =>
                    LET kept == SubSeq(Outputs(s), size + 1, Len(Outputs(s))) \o Finishing(s)
                    IN kept \in Seq(Nat) /\ Carries(kept, q, z, t, Over)
<1> DEFINE out == Outputs(s)
           n == z - x
           kept == SubSeq(out, size + 1, Len(out)) \o Finishing(s)
<1>1. out = Bytes(x, z)
  BY OutputsAre
<1>2. n \in Nat /\ z = x + n
  OBVIOUS
<1>3. Len(out) = n
  BY <1>1, BytesAre
<1>4. Finishing(s) \in Seq(Nat) /\ Carries(Finishing(s), z, z, t, Over)
  BY FinishingIs
<1> HIDE DEF out
<1>5. CASE n < size
  <2>1. FillsBuffer(s, size) = out /\ Len(out) <= size
    BY <1>2, <1>3, <1>5 DEF FillsBuffer, out
  <2>2. x <= z /\ z <= z
    BY AtMostItself
  <2>3. QED
    BY <1>1, <2>1, <2>2 DEF out
<1>6. CASE n = size
  <2>1. FillsBuffer(s, size) = SubSeq(out, 1, size) /\ Len(out) <= size
    BY <1>2, <1>3, <1>6 DEF FillsBuffer, out
  <2>2. size <= z - x /\ x + size = z
    BY <1>2, <1>6
  <2>3. SubSeq(Bytes(x, z), 1, size) = Bytes(x, z)
    BY <2>2, BytesCut
  <2>4. x <= z /\ z <= z
    BY AtMostItself
  <2>5. QED
    BY <1>1, <2>1, <2>3, <2>4 DEF out
<1>7. CASE n > size
  <2> DEFINE q == x + size
  <2>1. FillsBuffer(s, size) = SubSeq(out, 1, size) /\ ~(Len(out) <= size)
    <3> HIDE DEF n
    <3>1. ~(n < size) /\ ~(n <= size)
      BY <1>2, <1>7
    <3>2. QED
      BY <1>3, <3>1 DEF FillsBuffer, out
  <2>2. size <= z - x /\ q \in Nat /\ x <= q /\ q <= z /\ q <= t /\ z \in 0..t /\ q \in 0..t
    BY <1>2, <1>7
  <2>3. SubSeq(out, 1, size) = Bytes(x, q) /\ SubSeq(out, size + 1, Len(out)) = Bytes(q, z)
    <3>1. size <= z - x
      BY <2>2
    <3>2. /\ SubSeq(Bytes(x, z), 1, size) = Bytes(x, x + size)
          /\ SubSeq(Bytes(x, z), size + 1, Len(Bytes(x, z))) = Bytes(x + size, z)
      BY <3>1, BytesCut
    <3>3. QED
      BY <1>1, <3>2
  <2> HIDE DEF q
  <2>4. Bytes(q, z) \in Seq(Nat) /\ Carries(Bytes(q, z), q, z, t, Over)
    BY <2>2, CarriesBytes
  <2>5. Carries(Bytes(q, z) \o Finishing(s), q, z, t, Over)
    BY <1>4, <2>4, CarriesOn
  <2>6. Bytes(q, z) \o Finishing(s) \in Seq(Nat)
    BY <1>4, <2>4
  <2>7. kept \in Seq(Nat) /\ Carries(kept, q, z, t, Over)
    BY <2>3, <2>5, <2>6
  <2>8. QED
    BY <2>1, <2>2, <2>3, <2>7 DEF out
<1>8. QED
  BY <1>2, <1>5, <1>6, <1>7

\* What has no length is nothing.
LEMMA NoneLong == ASSUME NEW s \in Seq(Nat) PROVE Len(s) \in Nat /\ (Len(s) = 0 => s = << >>)
OBVIOUS

\* One call into the decompressor (compress.rs, poll_read).
LEMMA InflatesHolds ==
    ASSUME NEW a \in [Nat -> Nat], ChanHeld(a), NEW size \in 1..MaxRead, Inflates(size)
    PROVE  ChanHeld(a)' /\ Steps
<1> DEFINE P == Parts(a, w.sent, Len(written), Over)
           t == Len(written)
           x == Len(received)
           s == r.inflating \o r.inBuf
           z == a[r.next]
           out == Outputs(s)
           kept == SubSeq(out, size + 1, Len(out)) \o Finishing(s)
           total == r.totalIn + Len(r.inBuf)
           fits == Len(out) <= size
           left == IF fits THEN << >> ELSE kept
           ended == fits /\ Finishing(s) # << >>
<1>1. WriterHolds(a) /\ ReaderHolds(a) /\ LinkHolds(a) /\ Ends /\ Streams
  BY DEF ChanHeld
<1>2. /\ r.inBuf \o r.inflating # << >> /\ UNCHANGED <<w, link, written, shut, genuine, outcome>>
      /\ received' = received \o FillsBuffer(s, size) /\ outcome = "none"
  BY DEF Inflates, ReadsTo
<1>3. r' = [r EXCEPT !.inBuf = << >>, !.totalIn = total, !.inflating = left, !.streamEnd = ended]
  BY DEF Inflates, ReadsTo, Inflated
<1>4. r \in Readers(P) /\ 1 <= r.next /\ r.next <= w.sent
  BY <1>1 DEF ReaderHolds
<1> HIDE DEF P
<1>5. r.inflating \in Seq(Nat) /\ r.inBuf \in Seq(Nat) /\ r.next \in Nat /\ r.totalIn \in Nat
  BY <1>4 DEF Readers
<1>6. /\ written = Bytes(0, t) /\ received = Bytes(0, x)
  BY <1>1 DEF Streams
<1>7. t \in Nat /\ x \in Nat /\ t <= MaxBytes
  BY <1>1, LenIs DEF Streams
<1>8. Over \subseteq {t}
  BY DEF Over
<1>9. s \in Seq(Nat)
  BY <1>5, Concat
<1> HIDE DEF s, out, t, x, z
<1>10. Carries(s, x, z, t, Over)
  <2>1. PICK y \in Nat : Carries(r.inflating, x, y, t, Over) /\ Carries(r.inBuf, y, z, t, Over)
    BY <1>1 DEF ReaderHolds, x, t, z
  <2>2. QED
    BY <1>5, <1>7, <2>1, CarriesOn DEF s
<1>11. z \in Nat /\ x <= z /\ z <= t /\ z \in 0..t
  <2>1. x \in 0..t /\ z \in 0..t /\ x <= z
    BY <1>7, <1>9, <1>10, CarriesEnds
  <2>2. QED
    BY <1>7, <2>1
<1>12. size \in Nat
  BY Sizes
<1>13. PICK q \in Nat : /\ x <= q /\ q <= z /\ FillsBuffer(s, size) = Bytes(x, q)
                        /\ fits => q = z
                        /\ ~fits => kept \in Seq(Nat) /\ Carries(kept, q, z, t, Over)
  BY <1>7, <1>8, <1>9, <1>10, <1>11, <1>12, FillsAre DEF out
<1>14. Finishing(s) # << >> => z = t /\ shut
  BY <1>7, <1>8, <1>9, <1>10, <1>11, FinishingIs
<1> HIDE DEF kept, fits
<1>15. left \in Seq(Nat) /\ Carries(left, q, z, t, Over)
  <2>1. CASE fits
    <3>1. left = << >> /\ q = z
      BY <1>13, <2>1
    <3>2. Carries(<< >>, z, z, t, Over)
      BY <1>7, <1>11, CarriesNone
    <3>3. << >> \in Seq(Nat)
      OBVIOUS
    <3>4. QED
      BY <3>1, <3>2, <3>3
  <2>2. CASE ~fits
    BY <1>13, <2>2
  <2>3. QED
    BY <2>1, <2>2
<1>16. ended \in BOOLEAN /\ (ended => z = t /\ shut /\ q = t /\ left = << >>)
  BY <1>13, <1>14
<1>17. total \in Nat /\ (total = 0 => r.totalIn = 0 /\ r.inBuf = << >>)
  <2>1. Len(r.inBuf) \in Nat /\ (Len(r.inBuf) = 0 => r.inBuf = << >>)
    BY <1>5, NoneLong
  <2> DEFINE len == Len(r.inBuf)
             was == r.totalIn
  <2> HIDE DEF len, was
  <2>2. len \in Nat /\ was \in Nat /\ (len = 0 => r.inBuf = << >>)
    BY <1>5, <2>1 DEF len, was
  <2>3. was + len \in Nat /\ (was + len = 0 => was = 0 /\ len = 0)
    BY <2>2
  <2>4. QED
    BY <2>2, <2>3 DEF len, was
<1> HIDE DEF left, ended, total
<1>18. /\ r' \in Readers(P) /\ r'.inflating = left /\ r'.inBuf = << >> /\ r'.next = r.next
       /\ r'.totalIn = total /\ r'.shaken = r.shaken
  <2>1. << >> \in Seq(Nat)
    OBVIOUS
  <2>2. PICK none \in Seq(Nat) : none = << >>
    BY <2>1
  <2>3. r' = [r EXCEPT !.inBuf = none, !.totalIn = total, !.inflating = left, !.streamEnd = ended]
    BY <1>3, <2>2
  <2>4. r' \in Readers(P)
    BY <1>4, <1>15, <1>16, <1>17, <2>3 DEF Readers
  <2>5. r'.inflating = left /\ r'.inBuf = none /\ r'.next = r.next /\ r'.totalIn = total
    BY <1>4, <2>3 DEF Readers
  <2>6. r'.shaken = r.shaken
    BY <1>4, <2>3 DEF Readers
  <2>7. QED
    BY <2>2, <2>4, <2>5, <2>6
<1>19. r'.streamEnd = ended
  BY <1>3, <1>4 DEF Readers
<1>20. received' = Bytes(0, q) /\ Len(received') = q /\ received' \in Seq(Nat)
  <2>1. received' = Bytes(0, x) \o Bytes(x, q)
    BY <1>2, <1>6, <1>13
  <2>2. 0 \in Nat /\ 0 <= x /\ 0 <= q
    BY <1>7
  <2>3. received' = Bytes(0, q)
    BY <1>7, <1>13, <2>1, <2>2, BytesJoin
  <2>4. Bytes(0, q) \in Seq(Nat) /\ Len(Bytes(0, q)) = q - 0
    BY <2>2, BytesAre
  <2>5. QED
    BY <2>3, <2>4
<1>21. Over' = Over /\ written' = written /\ w' = w /\ shut' = shut /\ genuine' = genuine /\ Len(written') = t
  BY <1>2 DEF Over, t
<1>22. ReaderHolds(a)'
  <2>1. Carries(<< >>, z, z, t, Over)
    BY <1>7, <1>11, CarriesNone
  <2>2. /\ Carries(r'.inflating, Len(received'), z, Len(written'), Over')
        /\ Carries(r'.inBuf, z, a[r'.next], Len(written'), Over')
    BY <1>15, <1>18, <1>20, <1>21, <2>1 DEF z
  <2>3. 1 <= r'.next /\ r'.next <= w'.sent
    BY <1>4, <1>18, <1>21
  <2>4. r' \in Readers(Parts(a, w'.sent, Len(written'), Over'))
    BY <1>18, <1>21 DEF P, t
  <2>5. QED
    BY <1>11, <2>2, <2>3, <2>4 DEF ReaderHolds
<1>23. WriterHolds(a)' /\ LinkHolds(a)'
  BY <1>1, <1>2, <1>21, WriterKept, LinkKept
<1>24. r.shaken /\ genuine
  <2>1. r.inBuf = << >> => r.inflating # << >>
    BY <1>2
  <2>2. QED
    BY <1>1, <2>1 DEF Ends
<1>25. Ends'
  <2>1. total # 0
    <3>1. SUFFICES ASSUME total = 0 PROVE FALSE
      OBVIOUS
    <3>2. r.inBuf = << >> /\ r.inflating = << >>
      BY <1>1, <1>17, <3>1 DEF Ends
    <3>3. QED
      BY <1>2, <3>2
  <2>2. ended => shut' /\ received' = written' /\ r'.inBuf = << >> /\ r'.inflating = << >>
    BY <1>6, <1>16, <1>18, <1>20, <1>21
  <2>3. QED
    BY <1>18, <1>19, <1>21, <1>24, <2>1, <2>2 DEF Ends
<1>26. Streams'
  <2>1. received' = Bytes(0, Len(received')) /\ received' \in Seq(Nat)
    BY <1>20
  <2>2. QED
    BY <1>1, <1>21, <2>1 DEF Streams
<1>27. Steps
  <2>1. CASE q = x
    <3>1. received' = received
      BY <1>6, <1>20, <2>1
    <3>2. QED
      BY <1>2, <3>1 DEF Steps
  <2>2. CASE q # x
    <3>1. q > x /\ q \in 1..t /\ q <= t - 0 /\ 0 <= t /\ 0 + q = q
      BY <1>7, <1>11, <1>13, <2>2
    <3>2. SubSeq(Bytes(0, t), 1, q) = Bytes(0, 0 + q)
      BY <1>7, <3>1, BytesCut
    <3>3. received' = SubSeq(written, 1, q)
      BY <1>6, <1>20, <3>1, <3>2
    <3>4. Abstract!Receive
      BY <1>2, <1>24, <3>1, <3>3 DEF Abstract!Receive, t, x
    <3>5. QED
      BY <3>4 DEF Steps, Abstract!Next
  <2>3. QED
    BY <2>1, <2>2
<1>28. QED
  BY <1>22, <1>23, <1>25, <1>26, <1>27 DEF ChanHeld

-----------------------------------------------------------------------------
\* Nothing happening.
LEMMA ChanStutter == ChanInv /\ UNCHANGED chanVars => ChanInv' /\ UNCHANGED <<written, received, shut, outcome, genuine>>
<1>1. SUFFICES ASSUME ChanInv, UNCHANGED chanVars
               PROVE  ChanInv' /\ UNCHANGED <<written, received, shut, outcome, genuine>>
  OBVIOUS
<1>2. PICK a \in [Nat -> Nat] : ChanHeld(a)
  BY <1>1 DEF ChanInv
<1>3. UNCHANGED <<w, link, r, written, received, shut, genuine, outcome>>
  BY <1>1 DEF chanVars
<1>4. ChanHeld(a)'
  BY <1>2, <1>3 DEF ChanHeld, WriterHolds, ReaderHolds, LinkHolds, Ends, Streams, Over
<1>5. QED
  BY <1>3, <1>4 DEF ChanInv

\* Every step of the channel is one of the byte stream, or is out of its
\* sight.
LEMMA ChanSteps == ChanInv /\ ChanNext => ChanInv' /\ Steps
<1>1. SUFFICES ASSUME ChanInv, ChanNext PROVE ChanInv' /\ Steps
  OBVIOUS
<1>2. PICK a \in [Nat -> Nat] : ChanHeld(a)
  BY <1>1 DEF ChanInv
<1>3. CASE Encrypts
  BY <1>2, <1>3, EncryptsHolds
<1>4. ChanHeld(a)' /\ Steps => ChanInv' /\ Steps
  BY DEF ChanInv
<1>5. CASE WritesByte(Len(written) + 1)
  BY <1>2, <1>4, <1>5, WritesByteHolds
<1>6. CASE Flushes
  BY <1>2, <1>4, <1>6, FlushesHolds
<1>7. CASE Finishes
  BY <1>2, <1>4, <1>7, FinishesHolds
<1>8. CASE Notifies
  BY <1>2, <1>4, <1>8, NotifiesHolds
<1>9. CASE Closes \/ Cut
  BY <1>2, <1>4, <1>9, ClosesHolds
<1>10. CASE PullsChunk
  BY <1>2, <1>4, <1>10, PullsChunkHolds
<1>11. CASE Shakes
  BY <1>2, <1>4, <1>11, ShakesHolds
<1>12. CASE Pushes
  BY <1>2, <1>4, <1>12, PushesHolds
<1>13. CASE TakesFrame
  BY <1>2, <1>4, <1>13, TakesFrameHolds
<1>14. CASE ReadsEnd \/ ReadsEof
  BY <1>2, <1>4, <1>14, EndsHolds
<1>15. CASE \E size \in 1..MaxRead : Inflates(size)
  BY <1>2, <1>4, <1>15, InflatesHolds
<1>16. QED
  BY <1>1, <1>3, <1>5, <1>6, <1>7, <1>8, <1>9, <1>10, <1>11, <1>12, <1>13, <1>14, <1>15
     DEF ChanNext, DriverStep, ReaderStep

\* The layers of the channel together are a byte stream (channel/):
\* whatever sizes bytes are cut into at each layer, however much deflate
\* keeps back and wherever the link goes, what arrives is what was
\* written, in its order and from who it should be, and an end read as
\* clean is the end of all of it, or of a peer of which nothing was
\* heard.
THEOREM ByteStreamKept == ChanSpec => ImplementsByteStream
<1>1. ChanInit => ChanInv /\ Abstract!Init
  BY ChanStart DEF ChanInit, Abstract!Init
<1>2. ChanInv /\ [ChanNext]_chanVars => ChanInv' /\ [Abstract!Next]_<<written, received, shut, outcome, genuine>>
  BY ChanSteps, ChanStutter DEF Steps
<1>3. QED
  BY <1>1, <1>2, PTL DEF ChanSpec, ImplementsByteStream, Abstract!Spec
=============================================================================
