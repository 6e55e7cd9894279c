------------------------ MODULE LoginThrottle_proofs ------------------------
(***************************************************************************)
(* Proofs about the login throttle, for every number of addresses and      *)
(* usernames and every value of the limits.                                *)
(***************************************************************************)
EXTENDS LoginThrottleHistory, WellFoundedInduction, FiniteSetTheorems,
        SequenceTheorems, TLAPS

----------------------------------------------------------------------------
(* Lemmas about the lists of failure times.                                *)

\* A set of naturals that is not empty has a least element.
LEMMA LeastNatural ==
    ASSUME NEW T \in SUBSET Nat, T # {}
    PROVE  \E m \in T : \A n \in T : m <= n
<1>1. PICK m \in T : \A n \in T : ~(<<n, m>> \in OpToRel(<, Nat))
  BY NatLessThanWellFounded, WFMin
<1>2. \A n \in T : ~(n < m)
  BY <1>1 DEF OpToRel
<1>. QED BY <1>2

\* The expired times of a sorted list are its first Expired(s, t).
LEMMA ExpiredPrefix ==
    ASSUME NEW s \in Seq(Nat), Sorted(s), NEW t \in Nat
    PROVE  /\ Expired(s, t) \in 0..Len(s)
           /\ \A i \in 1..Len(s) : (s[i] + Window <= t) <=> (i <= Expired(s, t))
<1>. DEFINE P(n) == \A i \in 1..Len(s) : (s[i] + Window <= t) <=> (i <= n)
<1>. DEFINE L == {i \in 1..Len(s) : ~(s[i] + Window <= t)}
<1>1. \E n \in 0..Len(s) : P(n)
  <2>1. CASE L = {}
    <3>1. P(Len(s))
      BY <2>1
    <3>. QED BY <3>1
  <2>2. CASE L # {}
    <3>0. L \in SUBSET Nat
      OBVIOUS
    <3>. HIDE DEF L
    <3>1. PICK m \in L : \A n \in L : m <= n
      BY <3>0, <2>2, LeastNatural
    <3>. USE DEF L
    <3>2. m \in 1..Len(s) /\ ~(s[m] + Window <= t)
      OBVIOUS
    <3>3. \A i \in 1..Len(s) : i < m => s[i] + Window <= t
      BY <3>1
    <3>4. \A i \in 1..Len(s) : m <= i => ~(s[i] + Window <= t)
      BY <3>2, LimitsAssumption DEF Sorted
    <3>5. P(m - 1)
      BY <3>2, <3>3, <3>4
    <3>6. m - 1 \in 0..Len(s)
      BY <3>2
    <3>. QED BY <3>5, <3>6
  <2>. QED BY <2>1, <2>2
<1>. QED BY <1>1 DEF Expired

\* A suffix of a list of times.
LEMMA SuffixProperties ==
    ASSUME NEW s \in Seq(Nat), NEW d \in 0..Len(s)
    PROVE  LET w == SubSeq(s, d + 1, Len(s))
           IN  /\ w \in Seq(Nat)
               /\ Len(w) = Len(s) - d
               /\ \A i \in 1..Len(w) : w[i] = s[d + i]
<1>1. \A i \in d+1..Len(s) : s[i] \in Nat
  OBVIOUS
<1>2. d + 1 \in Int /\ Len(s) \in Int
  OBVIOUS
<1>. DEFINE w == SubSeq(s, d + 1, Len(s))
<1>3. /\ w \in Seq(Nat)
      /\ Len(w) = IF d + 1 <= Len(s) THEN Len(s) - (d + 1) + 1 ELSE 0
      /\ \A i \in 1..Len(s) - (d + 1) + 1 : w[i] = s[d + 1 + i - 1]
  BY <1>1, <1>2, SubSeqProperties
<1>. HIDE DEF w
<1>4. /\ w \in Seq(Nat)
      /\ Len(w) = Len(s) - d
      /\ \A i \in 1..Len(w) : w[i] = s[d + i]
  BY <1>3
<1>. QED BY <1>4 DEF w

\* A suffix of a suffix is a suffix.
LEMMA SuffixOfSuffix ==
    ASSUME NEW s \in Seq(Nat), NEW d \in 0..Len(s), NEW e \in 0..(Len(s) - d)
    PROVE  LET w == SubSeq(s, d + 1, Len(s))
           IN  SubSeq(w, e + 1, Len(w)) = SubSeq(s, d + e + 1, Len(s))
<1>. DEFINE w == SubSeq(s, d + 1, Len(s))
            x == SubSeq(w, e + 1, Len(w))
            y == SubSeq(s, d + e + 1, Len(s))
<1>1. w \in Seq(Nat) /\ Len(w) = Len(s) - d /\ \A i \in 1..Len(w) : w[i] = s[d + i]
  BY SuffixProperties
<1>2. /\ d + e \in 0..Len(s)
      /\ e \in 0..Len(w)
  BY <1>1
<1>3. y \in Seq(Nat) /\ Len(y) = Len(s) - (d + e) /\ \A i \in 1..Len(y) : y[i] = s[d + e + i]
  BY <1>2, SuffixProperties
<1>. HIDE DEF w
<1>4. x \in Seq(Nat) /\ Len(x) = Len(w) - e /\ \A i \in 1..Len(x) : x[i] = w[e + i]
  BY <1>1, <1>2, SuffixProperties
<1>. HIDE DEF x, y
<1>5. Len(x) = Len(y)
  BY <1>1, <1>3, <1>4
<1>6. ASSUME NEW i \in 1..Len(x)
      PROVE  x[i] = y[i]
  <2>1. x[i] = w[e + i] /\ e + i \in 1..Len(w)
    BY <1>2, <1>4
  <2>2. w[e + i] = s[d + (e + i)]
    BY <2>1, <1>1
  <2>3. y[i] = s[d + e + i]
    BY <1>3, <1>5
  <2>4. d + (e + i) = d + e + i
    BY <1>2, <2>1
  <2>. QED BY <2>1, <2>2, <2>3, <2>4
<1>7. x = y
  BY <1>3, <1>4, <1>5, <1>6, SeqEqual
<1>. QED BY <1>7 DEF x, y, w

\* Dropping the expired prefix leaves a sorted list of the same times.
LEMMA LiveProperties ==
    ASSUME NEW s \in Seq(Nat), Sorted(s), NEW t \in Nat
    PROVE  /\ Live(s, t) \in Seq(Nat)
           /\ Len(Live(s, t)) = Len(s) - Expired(s, t)
           /\ \A i \in 1..Len(Live(s, t)) : Live(s, t)[i] = s[Expired(s, t) + i]
           /\ Sorted(Live(s, t))
<1>1. Expired(s, t) \in 0..Len(s)
  BY ExpiredPrefix
<1>2. /\ Live(s, t) \in Seq(Nat)
      /\ Len(Live(s, t)) = Len(s) - Expired(s, t)
      /\ \A i \in 1..Len(Live(s, t)) : Live(s, t)[i] = s[Expired(s, t) + i]
  BY <1>1, SuffixProperties DEF Live
<1>. DEFINE e == Expired(s, t)
            w == Live(s, t)
<1>3. ASSUME NEW i \in 1..Len(w), NEW j \in 1..Len(w), i <= j
      PROVE  w[i] <= w[j]
  <2>. HIDE DEF e, w
  <2>1. e \in Nat /\ Len(w) = Len(s) - e
    BY <1>1, <1>2 DEF e, w
  <2>2. w[i] = s[e + i] /\ w[j] = s[e + j]
    BY <1>2 DEF e, w
  <2>3. e + i \in 1..Len(s) /\ e + j \in 1..Len(s) /\ e + i <= e + j
    BY <1>3, <2>1
  <2>4. s[e + i] <= s[e + j]
    BY <2>3 DEF Sorted
  <2>. QED BY <2>2, <2>4
<1>4. Sorted(Live(s, t))
  BY <1>3 DEF Sorted
<1>. QED BY <1>2, <1>4

LEMMA TarpitSpanType == TarpitSpan \in Nat
BY LimitsAssumption DEF TarpitSpan

LEMMA MaxSamplesType ==
    /\ MaxSamples \in Nat
    /\ MaxSamples > HardMaxIp
    /\ MaxSamples > TarpitFree + TarpitSpan
BY TarpitSpanType, LimitsAssumption DEF MaxSamples

\* A list long enough to be cut by the sample cap has a saturated tarpit.
LEMMA RampSaturates ==
    ASSUME NEW n \in Nat, n >= MaxSamples
    PROVE  TarpitDelay(n) = IF TarpitBase = 0 THEN 0 ELSE TarpitCap
<1>1. CASE TarpitBase = 0
  BY <1>1, LimitsAssumption, MaxSamplesType, TarpitSpanType DEF TarpitDelay
<1>2. CASE TarpitBase # 0
  <2>. DEFINE q == (TarpitCap + TarpitBase - 1) \div TarpitBase
  <2>1. q \in Nat /\ TarpitBase * q >= TarpitCap
    BY <1>2, LimitsAssumption
  <2>2. q = TarpitSpan
    BY <1>2 DEF TarpitSpan
  <2>3. n - TarpitFree >= q /\ n - TarpitFree \in Nat /\ ~(n <= TarpitFree)
    BY <2>2, <2>1, MaxSamplesType, LimitsAssumption
  <2>. HIDE DEF q
  <2>4. TarpitBase * (n - TarpitFree) >= TarpitBase * q
    BY <2>1, <2>3, LimitsAssumption
  <2>5. TarpitBase * (n - TarpitFree) \in Nat
    BY <2>3, LimitsAssumption
  <2>. QED BY <1>2, <2>1, <2>3, <2>4, <2>5, LimitsAssumption DEF TarpitDelay
<1>. QED BY <1>1, <1>2

LEMMA TarpitDelayType ==
    ASSUME NEW n \in Nat
    PROVE  TarpitDelay(n) \in 0..TarpitCap
<1>1. CASE n <= TarpitFree
  BY <1>1, LimitsAssumption DEF TarpitDelay
<1>2. CASE ~(n <= TarpitFree)
  <2>1. TarpitBase * (n - TarpitFree) \in Nat
    BY <1>2, LimitsAssumption
  <2>. QED BY <1>2, <2>1, LimitsAssumption DEF TarpitDelay
<1>. QED BY <1>1, <1>2

----------------------------------------------------------------------------
(* One list of a table beside the complete record it stands for.           *)

LEMMA TracksEmpty ==
    ASSUME NEW t \in Nat
    PROVE  Tracks(<<>>, <<>>, t)
<1>1. Sorted(<<>>) /\ Len(<<>>) = 0 /\ <<>> = SubSeq(<<>>, 0 + 1, Len(<<>>))
  BY DEF Sorted
<1>. QED BY <1>1, MaxSamplesType DEF Tracks, Sample, Represents

LEMMA TracksAdvance ==
    ASSUME NEW s \in Seq(Nat), NEW log \in Seq(Nat), NEW t \in Nat, NEW t1 \in Nat,
           t <= t1, Tracks(s, log, t)
    PROVE  Tracks(s, log, t1)
<1>1. Sample(s, t1)
  BY DEF Tracks, Sample
<1>2. Sorted(log) /\ \A i \in 1..Len(log) : log[i] <= t1
  BY DEF Tracks
<1>3. Represents(s, log, t1)
  BY LimitsAssumption DEF Tracks, Represents
<1>. QED BY <1>1, <1>2, <1>3 DEF Tracks

\* Pruning a list.
LEMMA TracksLive ==
    ASSUME NEW s \in Seq(Nat), NEW log \in Seq(Nat), NEW t \in Nat, Tracks(s, log, t)
    PROVE  Tracks(Live(s, t), log, t)
<1>. DEFINE e == Expired(s, t)
            w == Live(s, t)
<1>1. /\ e \in 0..Len(s)
      /\ \A i \in 1..Len(s) : (s[i] + Window <= t) <=> (i <= e)
  BY ExpiredPrefix DEF Tracks, Sample
<1>2. /\ w \in Seq(Nat)
      /\ Len(w) = Len(s) - e
      /\ \A i \in 1..Len(w) : w[i] = s[e + i]
      /\ Sorted(w)
  BY LiveProperties DEF Tracks, Sample
<1>3. PICK d \in 0..Len(log) :
        /\ s = SubSeq(log, d + 1, Len(log))
        /\ d > 0 => log[d] + Window <= t \/ Len(s) >= MaxSamples
  BY DEF Tracks, Represents
<1>4. /\ Len(s) = Len(log) - d
      /\ \A i \in 1..Len(s) : s[i] = log[d + i]
  BY <1>3, SuffixProperties
<1>5. d + e \in 0..Len(log) /\ e \in 0..(Len(log) - d)
  BY <1>1, <1>4
<1>6. w = SubSeq(log, d + e + 1, Len(log))
  BY <1>3, <1>4, <1>5, SuffixOfSuffix DEF Live
<1>. HIDE DEF e, w
<1>7. d + e > 0 => log[d + e] + Window <= t \/ Len(w) >= MaxSamples
  <2>1. CASE e = 0
    BY <2>1, <1>2, <1>3
  <2>2. CASE e > 0
    <3>1. e \in 1..Len(s) /\ s[e] + Window <= t
      BY <2>2, <1>1
    <3>. QED BY <3>1, <1>4
  <2>. QED BY <2>1, <2>2, <1>1
<1>8. Represents(w, log, t)
  BY <1>5, <1>6, <1>7 DEF Represents
<1>9. Sample(w, t)
  <2>0. ASSUME NEW i \in 1..Len(w)
        PROVE  w[i] <= t
    <3>1. w[i] = s[e + i] /\ e + i \in 1..Len(s)
      BY <1>1, <1>2
    <3>2. s[e + i] <= t
      BY <3>1 DEF Tracks, Sample
    <3>. QED BY <3>1, <3>2
  <2>1. \A i \in 1..Len(w) : w[i] <= t
    BY <2>0
  <2>2. Len(w) <= MaxSamples
    BY <1>1, <1>2, MaxSamplesType DEF Tracks, Sample
  <2>. QED BY <1>2, <2>1, <2>2 DEF Sample
<1>. QED BY <1>8, <1>9 DEF Tracks, w

\* Appending to a list and to its suffix.
LEMMA AppendToSuffix ==
    ASSUME NEW log \in Seq(Nat), NEW d \in 0..Len(log), NEW x \in Nat
    PROVE  Append(SubSeq(log, d + 1, Len(log)), x)
             = SubSeq(Append(log, x), d + 1, Len(Append(log, x)))
<1>. DEFINE s == SubSeq(log, d + 1, Len(log))
            l == Append(log, x)
            r == SubSeq(l, d + 1, Len(l))
            q == Append(s, x)
<1>1. s \in Seq(Nat) /\ Len(s) = Len(log) - d /\ \A i \in 1..Len(s) : s[i] = log[d + i]
  BY SuffixProperties
<1>2. /\ l \in Seq(Nat) /\ Len(l) = Len(log) + 1
      /\ \A i \in 1..Len(log) : l[i] = log[i]
      /\ l[Len(log) + 1] = x
  BY AppendProperties
<1>3. d \in 0..Len(l)
  BY <1>2
<1>. HIDE DEF s, l
<1>4. /\ r \in Seq(Nat) /\ Len(r) = Len(l) - d
      /\ \A i \in 1..Len(r) : r[i] = l[d + i]
  BY <1>2, <1>3, SuffixProperties
<1>5. /\ q \in Seq(Nat) /\ Len(q) = Len(s) + 1
      /\ \A i \in 1..Len(s) : q[i] = s[i]
      /\ q[Len(s) + 1] = x
  BY <1>1, AppendProperties
<1>. HIDE DEF r, q
<1>6. Len(q) = Len(r)
  BY <1>1, <1>2, <1>4, <1>5
<1>7. ASSUME NEW i \in 1..Len(q)
      PROVE  q[i] = r[i]
  <2>1. r[i] = l[d + i] /\ d + i \in 1..Len(l)
    BY <1>1, <1>2, <1>4, <1>5, <1>6
  <2>2. CASE i <= Len(s)
    <3>0. i \in 1..Len(s)
      BY <2>2, <1>1, <1>5
    <3>1. q[i] = s[i] /\ s[i] = log[d + i]
      BY <3>0, <1>1, <1>5
    <3>2. l[d + i] = log[d + i]
      BY <2>2, <1>1, <1>2
    <3>. QED BY <2>1, <3>1, <3>2
  <2>3. CASE i = Len(s) + 1
    <3>1. d + i = Len(log) + 1
      BY <2>3, <1>1
    <3>. QED BY <2>1, <2>3, <3>1, <1>2, <1>5
  <2>. QED BY <2>2, <2>3, <1>5, <1>1
<1>8. q = r
  BY <1>4, <1>5, <1>6, <1>7, SeqEqual
<1>. QED BY <1>8 DEF q, r, l, s

\* The newest samples are a suffix, cut only when more than MaxSamples are there.
LEMMA NewestSamplesProperties ==
    ASSUME NEW s \in Seq(Nat)
    PROVE  \E k \in 0..Len(s) :
              /\ NewestSamples(s) = SubSeq(s, k + 1, Len(s))
              /\ NewestSamples(s) \in Seq(Nat)
              /\ Len(NewestSamples(s)) = Len(s) - k
              /\ \A i \in 1..Len(s) - k : NewestSamples(s)[i] = s[k + i]
              /\ Len(NewestSamples(s)) <= MaxSamples
              /\ k > 0 => Len(NewestSamples(s)) = MaxSamples
<1>1. CASE Len(s) > MaxSamples
  <2>. DEFINE k == Len(s) - MaxSamples
  <2>1. k \in 0..Len(s) /\ Len(s) - k = MaxSamples
    BY <1>1, MaxSamplesType
  <2>2. NewestSamples(s) = SubSeq(s, k + 1, Len(s))
    BY <1>1 DEF NewestSamples
  <2>. HIDE DEF k
  <2>. QED BY <2>1, <2>2, SuffixProperties
<1>2. CASE ~(Len(s) > MaxSamples)
  <2>1. NewestSamples(s) = s
    BY <1>2 DEF NewestSamples
  <2>2. s = SubSeq(s, 0 + 1, Len(s))
    BY SubSeqFull
  <2>3. Len(s) <= MaxSamples /\ 0 \in 0..Len(s) /\ Len(s) = Len(s) - 0
    BY <1>2, MaxSamplesType
  <2>4. \A i \in 1..Len(s) - 0 : s[i] = s[0 + i]
    OBVIOUS
  <2>. WITNESS 0 \in 0..Len(s)
  <2>. QED BY <2>1, <2>2, <2>3, <2>4
<1>. QED BY <1>1, <1>2

\* Recording a failure at time t in a list and in the complete record.
LEMMA TracksRecord ==
    ASSUME NEW s \in Seq(Nat), NEW log \in Seq(Nat), NEW t \in Nat, Tracks(s, log, t)
    PROVE  /\ NewestSamples(Append(s, t)) \in Seq(Nat)
           /\ Len(NewestSamples(Append(s, t))) <= Len(s) + 1
           /\ Tracks(NewestSamples(Append(s, t)), Append(log, t), t)
<1>. DEFINE a == Append(s, t)
            l == Append(log, t)
            w == NewestSamples(a)
<1>1. PICK d \in 0..Len(log) :
        /\ s = SubSeq(log, d + 1, Len(log))
        /\ d > 0 => log[d] + Window <= t \/ Len(s) >= MaxSamples
  BY DEF Tracks, Represents
<1>2. /\ a \in Seq(Nat) /\ Len(a) = Len(s) + 1
      /\ \A i \in 1..Len(s) : a[i] = s[i]
      /\ a[Len(s) + 1] = t
  BY AppendProperties
<1>3. /\ l \in Seq(Nat) /\ Len(l) = Len(log) + 1
      /\ \A i \in 1..Len(log) : l[i] = log[i]
      /\ l[Len(log) + 1] = t
  BY AppendProperties
<1>4. a = SubSeq(l, d + 1, Len(l))
  BY <1>1, AppendToSuffix
<1>. HIDE DEF a, l
<1>5. PICK k \in 0..Len(a) :
              /\ w = SubSeq(a, k + 1, Len(a))
              /\ w \in Seq(Nat)
              /\ Len(w) = Len(a) - k
              /\ \A i \in 1..Len(a) - k : w[i] = a[k + i]
              /\ Len(w) <= MaxSamples
              /\ k > 0 => Len(w) = MaxSamples
  BY <1>2, NewestSamplesProperties
<1>. HIDE DEF w
<1>6. Len(s) = Len(log) - d
  BY <1>1, SuffixProperties
<1>7. d \in 0..Len(l) /\ k \in 0..(Len(l) - d) /\ d + k \in 0..Len(l)
  BY <1>2, <1>3, <1>5, <1>6
<1>8. w = SubSeq(l, d + k + 1, Len(l))
  BY <1>3, <1>4, <1>5, <1>7, SuffixOfSuffix
<1>9. d + k > 0 => l[d + k] + Window <= t \/ Len(w) >= MaxSamples
  <2>1. CASE k > 0
    BY <2>1, <1>5, MaxSamplesType
  <2>2. CASE k = 0 /\ d > 0
    <3>1. l[d + k] = log[d] /\ Len(w) = Len(s) + 1
      BY <2>2, <1>2, <1>3, <1>5
    <3>. QED BY <2>2, <3>1, <1>1, MaxSamplesType
  <2>. QED BY <2>1, <2>2, <1>5
<1>10. Represents(w, l, t)
  BY <1>7, <1>8, <1>9 DEF Represents
<1>11. Sorted(l) /\ \A i \in 1..Len(l) : l[i] <= t
  <2>1. Sorted(log) /\ \A i \in 1..Len(log) : log[i] <= t
    BY DEF Tracks
  <2>2. ASSUME NEW i \in 1..Len(l)
        PROVE  l[i] <= t
    <3>1. CASE i \in 1..Len(log)
      BY <3>1, <1>3, <2>1
    <3>2. CASE i = Len(log) + 1
      BY <3>2, <1>3
    <3>. QED BY <3>1, <3>2, <1>3
  <2>3. ASSUME NEW i \in 1..Len(l), NEW j \in 1..Len(l), i <= j
        PROVE  l[i] <= l[j]
    <3>1. CASE j \in 1..Len(log)
      <4>1. i \in 1..Len(log)
        BY <2>3, <3>1
      <4>. QED BY <4>1, <3>1, <2>3, <2>1, <1>3 DEF Sorted
    <3>2. CASE j = Len(log) + 1
      BY <3>2, <2>2, <1>3
    <3>. QED BY <3>1, <3>2, <1>3
  <2>. QED BY <2>2, <2>3 DEF Sorted
<1>12. ASSUME NEW i \in 1..Len(a)
       PROVE  a[i] <= t /\ (\A j \in 1..Len(a) : i <= j => a[i] <= a[j])
  <2>1. Sorted(s) /\ \A j \in 1..Len(s) : s[j] <= t
    BY DEF Tracks, Sample
  <2>2. ASSUME NEW j \in 1..Len(a)
        PROVE  a[j] <= t
    <3>1. CASE j \in 1..Len(s)
      BY <3>1, <1>2, <2>1
    <3>2. CASE j = Len(s) + 1
      BY <3>2, <1>2
    <3>. QED BY <3>1, <3>2, <1>2
  <2>3. ASSUME NEW j \in 1..Len(a), i <= j
        PROVE  a[i] <= a[j]
    <3>1. CASE j \in 1..Len(s)
      <4>1. i \in 1..Len(s)
        BY <2>3, <3>1
      <4>. QED BY <4>1, <3>1, <2>3, <2>1, <1>2 DEF Sorted
    <3>2. CASE j = Len(s) + 1
      BY <3>2, <2>2, <1>2
    <3>. QED BY <3>1, <3>2, <1>2
  <2>. QED BY <2>2, <2>3
<1>13. ASSUME NEW i \in 1..Len(w)
       PROVE  w[i] <= t /\ (\A j \in 1..Len(w) : i <= j => w[i] <= w[j])
  <2>1. w[i] = a[k + i] /\ k + i \in 1..Len(a)
    BY <1>5
  <2>2. ASSUME NEW j \in 1..Len(w), i <= j
        PROVE  w[i] <= w[j]
    <3>1. w[j] = a[k + j] /\ k + j \in 1..Len(a) /\ k + i <= k + j
      BY <1>5, <2>2
    <3>. QED BY <2>1, <3>1, <1>12
  <2>. QED BY <2>1, <2>2, <1>12
<1>14. Sample(w, t)
  BY <1>5, <1>13 DEF Sample, Sorted
<1>15. w \in Seq(Nat) /\ Len(w) <= Len(s) + 1 /\ Tracks(w, l, t)
  BY <1>2, <1>5, <1>10, <1>11, <1>14 DEF Tracks
<1>. QED BY <1>15 DEF w, a, l

\* The list and the complete record count the same recent failures, unless both
\* count at least MaxSamples of them.
LEMMA TracksCount ==
    ASSUME NEW s \in Seq(Nat), NEW log \in Seq(Nat), NEW t \in Nat, Tracks(s, log, t)
    PROVE  LET n == Len(Live(s, t))
               N == Cardinality(Limit!InWindow(log, t))
           IN  /\ n \in Nat /\ N \in Nat
               /\ n = N \/ (n >= MaxSamples /\ N >= MaxSamples)
<1>. DEFINE e == Expired(s, t)
            g == Expired(log, t)
            n == Len(Live(s, t))
            N == Cardinality(Limit!InWindow(log, t))
<1>1. /\ e \in 0..Len(s)
      /\ \A i \in 1..Len(s) : (s[i] + Window <= t) <=> (i <= e)
      /\ n = Len(s) - e
  BY ExpiredPrefix, LiveProperties DEF Tracks, Sample
<1>2. /\ g \in 0..Len(log)
      /\ \A i \in 1..Len(log) : (log[i] + Window <= t) <=> (i <= g)
  BY ExpiredPrefix DEF Tracks
<1>3. N = Len(log) - g
  <2>1. Limit!InWindow(log, t) = (g + 1)..Len(log)
    <3>1. DOMAIN log = 1..Len(log)
      OBVIOUS
    <3>2. \A i \in 1..Len(log) : log[i] \in Nat
      OBVIOUS
    <3>3. \A i \in 1..Len(log) : (log[i] + Window > t) <=> (i >= g + 1)
      BY <1>2, <3>2, LimitsAssumption
    <3>. HIDE DEF g
    <3>. QED BY <3>1, <3>3, <1>2 DEF Limit!InWindow
  <2>2. g + 1 \in Int /\ Len(log) \in Int /\ g \in 0..Len(log)
    BY <1>2
  <2>3. N = Cardinality((g + 1)..Len(log))
    BY <2>1
  <2>. HIDE DEF g, N
  <2>4. Cardinality((g + 1)..Len(log)) = IF g + 1 > Len(log) THEN 0 ELSE Len(log) - (g + 1) + 1
    BY <2>2, FS_Interval
  <2>. QED BY <2>2, <2>3, <2>4
<1>4. PICK d \in 0..Len(log) :
        /\ s = SubSeq(log, d + 1, Len(log))
        /\ d > 0 => log[d] + Window <= t \/ Len(s) >= MaxSamples
  BY DEF Tracks, Represents
<1>5. /\ Len(s) = Len(log) - d
      /\ \A i \in 1..Len(s) : s[i] = log[d + i]
  BY <1>4, SuffixProperties
<1>. HIDE DEF e, g, n, N
<1>6. CASE d <= g
  <2>1. \A i \in 1..Len(s) : (i <= e) <=> (d + i <= g)
    <3>1. ASSUME NEW i \in 1..Len(s)
          PROVE  (i <= e) <=> (d + i <= g)
      <4>1. s[i] = log[d + i]
        BY <1>5
      <4>2. d + i \in 1..Len(log)
        BY <1>5
      <4>. QED BY <4>1, <4>2, <1>1, <1>2
    <3>. QED BY <3>1
  <2>2. e = g - d
    <3>1. ~(e < g - d)
      <4>. SUFFICES ASSUME e < g - d PROVE FALSE
        OBVIOUS
      <4>1. g - d \in 1..Len(s)
        BY <1>1, <1>2, <1>5, <1>6
      <4>2. (g - d <= e) <=> (d + (g - d) <= g)
        BY <4>1, <2>1
      <4>. QED BY <4>2, <1>1, <1>2
    <3>2. ~(e > g - d)
      <4>. SUFFICES ASSUME e > g - d PROVE FALSE
        OBVIOUS
      <4>1. e \in 1..Len(s)
        BY <1>1, <1>2, <1>6
      <4>. QED BY <4>1, <2>1, <1>1, <1>2
    <3>. QED BY <3>1, <3>2, <1>1, <1>2
  <2>. QED BY <2>2, <1>1, <1>2, <1>3, <1>5 DEF n, N
<1>7. CASE g < d
  <2>1. Len(s) >= MaxSamples
    <3>1. d \in 1..Len(log) /\ ~(log[d] + Window <= t)
      BY <1>2, <1>7
    <3>. QED BY <3>1, <1>4
  <2>2. e = 0
    <3>. SUFFICES ASSUME e # 0 PROVE FALSE
      OBVIOUS
    <3>1. 1 \in 1..Len(s) /\ s[1] + Window <= t
      BY <1>1
    <3>2. d + 1 \in 1..Len(log) /\ s[1] = log[d + 1]
      BY <3>1, <1>5
    <3>. QED BY <3>1, <3>2, <1>2, <1>7
  <2>. QED BY <2>1, <2>2, <1>1, <1>2, <1>3, <1>5, <1>7, MaxSamplesType DEF n, N
<1>. QED BY <1>6, <1>7, <1>2 DEF n, N

----------------------------------------------------------------------------
(* A whole table beside the complete record of its keys.                   *)

LEMMA TableAdvance ==
    ASSUME NEW K, NEW tb, NEW log, NEW t \in Nat, NEW t1 \in Nat, t <= t1,
           TableTracks(tb, log, K, t)
    PROVE  TableTracks(tb, log, K, t1)
BY TracksAdvance DEF TableTracks

\* A lookup prunes, and may sweep, but the table still stands for the record.
LEMMA TableRecent ==
    ASSUME NEW K, NEW tb, NEW log, NEW t \in Nat, NEW key,
           TableTracks(tb, log, K, t)
    PROVE  /\ TableTracks(Recent(tb, key, t), log, K, t)
           /\ \A k \in K : Len(Recent(tb, key, t)[k]) <= Len(tb[k])
           /\ key \in K => Recent(tb, key, t)[key] = Live(tb[key], t)
<1>1. ASSUME NEW k \in K
      PROVE  /\ Recent(tb, key, t)[k] \in Seq(Nat)
             /\ Tracks(Recent(tb, key, t)[k], log[k], t)
             /\ Len(Recent(tb, key, t)[k]) <= Len(tb[k])
  <2>1. /\ tb[k] \in Seq(Nat) /\ log[k] \in Seq(Nat)
        /\ Tracks(tb[k], log[k], t) /\ Sorted(tb[k])
    BY DEF TableTracks, Tracks, Sample
  <2>2. /\ Live(tb[k], t) \in Seq(Nat)
        /\ Tracks(Live(tb[k], t), log[k], t)
    BY <2>1, LiveProperties, TracksLive
  <2>3. Len(Live(tb[k], t)) = Len(tb[k]) - Expired(tb[k], t) /\ Expired(tb[k], t) \in 0..Len(tb[k])
    BY <2>1, LiveProperties, ExpiredPrefix
  <2>4. Recent(tb, key, t)[k] = Live(tb[k], t) \/ Recent(tb, key, t)[k] = tb[k]
    BY DEF Recent, TableTracks
  <2>. QED BY <2>1, <2>2, <2>3, <2>4
<1>2. Recent(tb, key, t) \in [K -> Seq(Nat)]
  BY <1>1 DEF Recent, TableTracks
<1>3. key \in K => Recent(tb, key, t)[key] = Live(tb[key], t)
  BY DEF Recent, TableTracks
<1>. QED BY <1>1, <1>2, <1>3 DEF TableTracks

\* Recording a failure of key at time t.
LEMMA TableFailure ==
    ASSUME NEW K, NEW tb, NEW log, NEW t \in Nat, NEW key,
           TableTracks(tb, log, K, t)
    PROVE  /\ TableTracks(WithFailure(tb, key, t), Limit!Logged(log, key, t), K, t)
           /\ \A k \in K \ {key} : Len(WithFailure(tb, key, t)[k]) <= Len(tb[k])
           /\ key \in K => Len(WithFailure(tb, key, t)[key]) <= Len(Live(tb[key], t)) + 1
<1>. DEFINE r == Recent(tb, key, t)
            w == WithFailure(tb, key, t)
            l == Limit!Logged(log, key, t)
<1>1. CASE key \in K
  <2>1. /\ TableTracks(r, log, K, t)
        /\ \A k \in K : Len(r[k]) <= Len(tb[k])
        /\ r[key] = Live(tb[key], t)
    BY <1>1, TableRecent
  <2>2. r \in [K -> Seq(Nat)] /\ log \in [K -> Seq(Nat)] /\ DOMAIN tb = K
    BY <2>1 DEF TableTracks
  <2>3. w = [r EXCEPT ![key] = NewestSamples(Append(r[key], t))]
    BY <1>1, <2>2 DEF WithFailure
  <2>4. l = [log EXCEPT ![key] = Append(log[key], t)]
    BY <1>1, <2>2 DEF Limit!Logged
  <2>. HIDE DEF r, w, l
  <2>5. /\ NewestSamples(Append(r[key], t)) \in Seq(Nat)
        /\ Len(NewestSamples(Append(r[key], t))) <= Len(r[key]) + 1
        /\ Tracks(NewestSamples(Append(r[key], t)), Append(log[key], t), t)
    BY <1>1, <2>1, <2>2, TracksRecord DEF TableTracks
  <2>6. Append(log[key], t) \in Seq(Nat)
    BY <1>1, <2>2, AppendProperties
  <2>7. w \in [K -> Seq(Nat)] /\ l \in [K -> Seq(Nat)]
    BY <2>2, <2>3, <2>4, <2>5, <2>6
  <2>8. \A k \in K : w[k] = IF k = key THEN NewestSamples(Append(r[key], t)) ELSE r[k]
    BY <2>2, <2>3
  <2>9. \A k \in K : l[k] = IF k = key THEN Append(log[key], t) ELSE log[k]
    BY <2>2, <2>4
  <2>10. \A k \in K : Tracks(w[k], l[k], t)
    BY <2>1, <2>5, <2>8, <2>9 DEF TableTracks
  <2>11. TableTracks(w, l, K, t)
    BY <2>7, <2>10 DEF TableTracks
  <2>12. /\ \A k \in K \ {key} : Len(w[k]) <= Len(tb[k])
         /\ Len(w[key]) <= Len(Live(tb[key], t)) + 1
    BY <1>1, <2>1, <2>5, <2>8
  <2>. QED BY <2>11, <2>12 DEF w, l
<1>2. CASE key \notin K
  <2>1. tb \in [K -> Seq(Nat)] /\ log \in [K -> Seq(Nat)]
    BY DEF TableTracks
  <2>2. w = tb
    BY <1>2, <2>1 DEF WithFailure
  <2>3. l = log
    BY <1>2, <2>1 DEF Limit!Logged
  <2>4. \A k \in K : Len(tb[k]) <= Len(tb[k])
    BY <2>1
  <2>. QED BY <1>2, <2>2, <2>3, <2>4
<1>. QED BY <1>1, <1>2

\* A success of key empties its list and its record.
LEMMA TableCleared ==
    ASSUME NEW K, NEW tb, NEW log, NEW t \in Nat, NEW key,
           TableTracks(tb, log, K, t)
    PROVE  /\ TableTracks(Cleared(tb, key), Limit!Forgotten(log, key), K, t)
           /\ \A k \in K : Len(Cleared(tb, key)[k]) <= Len(tb[k])
<1>1. tb \in [K -> Seq(Nat)] /\ log \in [K -> Seq(Nat)]
  BY DEF TableTracks
<1>2. <<>> \in Seq(Nat) /\ Len(<<>>) = 0
  OBVIOUS
<1>3. /\ Cleared(tb, key) \in [K -> Seq(Nat)]
      /\ Limit!Forgotten(log, key) \in [K -> Seq(Nat)]
      /\ \A k \in K : /\ Cleared(tb, key)[k] = IF k = key THEN <<>> ELSE tb[k]
                      /\ Limit!Forgotten(log, key)[k] = IF k = key THEN <<>> ELSE log[k]
  BY <1>1, <1>2 DEF Cleared, Limit!Forgotten
<1>4. \A k \in K : Tracks(Cleared(tb, key)[k], Limit!Forgotten(log, key)[k], t)
  BY <1>3, TracksEmpty DEF TableTracks
<1>5. \A k \in K : Len(Cleared(tb, key)[k]) <= Len(tb[k])
  BY <1>1, <1>2, <1>3
<1>. QED BY <1>3, <1>4, <1>5 DEF TableTracks

----------------------------------------------------------------------------
(* The decisions.                                                          *)

LEMMA SameCardinality == \A S : Limit!Cardinality(S) = Cardinality(S)
BY DEF Limit!Cardinality, Cardinality

\* locked() refuses exactly when the complete record says so.
LEMMA LockAgrees ==
    ASSUME NEW ip \in Ips \cup {NoIp}, now \in Nat, TableTracks(byIp, ipLog, Ips, now)
    PROVE  Locked(ip) <=> Limit!Refused(ip)
<1>1. CASE ip = NoIp
  BY <1>1 DEF Locked, Limit!Refused
<1>2. CASE ip # NoIp
  <2>1. byIp[ip] \in Seq(Nat) /\ ipLog[ip] \in Seq(Nat) /\ Tracks(byIp[ip], ipLog[ip], now)
    BY <1>2 DEF TableTracks
  <2>. DEFINE n == Len(Live(byIp[ip], now))
              N == Cardinality(Limit!InWindow(ipLog[ip], now))
  <2>2. n \in Nat /\ N \in Nat /\ (n = N \/ (n >= MaxSamples /\ N >= MaxSamples))
    BY <2>1, TracksCount
  <2>. HIDE DEF n, N
  <2>3. (n >= HardMaxIp) <=> (N >= HardMaxIp)
    BY <2>2, MaxSamplesType, LimitsAssumption
  <2>. QED BY <1>2, <2>3, SameCardinality DEF Locked, Limit!Refused, n, N
<1>. QED BY <1>1, <1>2

\* tarpit_delay() returns the delay the complete record calls for.
LEMMA DelayAgrees ==
    ASSUME NEW s \in Seq(Nat), NEW log \in Seq(Nat), NEW t \in Nat, Tracks(s, log, t)
    PROVE  TarpitDelay(Len(Live(s, t))) = Limit!RampedDelay(Cardinality(Limit!InWindow(log, t)))
<1>. DEFINE n == Len(Live(s, t))
            N == Cardinality(Limit!InWindow(log, t))
<1>1. n \in Nat /\ N \in Nat /\ (n = N \/ (n >= MaxSamples /\ N >= MaxSamples))
  BY TracksCount
<1>2. \A m \in Nat : TarpitDelay(m) = Limit!RampedDelay(m)
  BY DEF TarpitDelay, Limit!RampedDelay
<1>. HIDE DEF n, N
<1>3. TarpitDelay(n) = TarpitDelay(N)
  BY <1>1, RampSaturates
<1>4. TarpitDelay(n) = Limit!RampedDelay(N)
  BY <1>1, <1>2, <1>3
<1>. QED BY <1>4 DEF n, N

----------------------------------------------------------------------------
(* The state machine.                                                      *)

\* The parts of HistoryInv that are not about one table follow from the rest.
LEMMA HistoryInvParts ==
    ASSUME now \in Nat,
           answer \in [kind : {"none", "refused", "wrong", "welcome"}, delay : 0..TarpitCap],
           FailureBudget,
           TableTracks(byIp, ipLog, Ips, now),
           TableTracks(byUser, userLog, Users, now)
    PROVE  HistoryInv
BY DEF HistoryInv, TypeOK, TableTracks, Tracks

\* The same of the state a step leads to.
LEMMA HistoryInvPartsNext ==
    ASSUME now' \in Nat,
           answer' \in [kind : {"none", "refused", "wrong", "welcome"}, delay : 0..TarpitCap],
           FailureBudget',
           TableTracks(byIp', ipLog', Ips, now'),
           TableTracks(byUser', userLog', Users, now')
    PROVE  HistoryInv'
BY DEF HistoryInv, TypeOK, TableTracks, Tracks

LEMMA InitHistoryInv == HInit => HistoryInv /\ Limit!Init
<1>. SUFFICES ASSUME HInit PROVE HistoryInv /\ Limit!Init
  OBVIOUS
<1>. USE DEF HInit, Init
<1>1. <<>> \in Seq(Nat) /\ Len(<<>>) = 0
  OBVIOUS
<1>2. TableTracks(byIp, ipLog, Ips, now) /\ TableTracks(byUser, userLog, Users, now)
  BY <1>1, TracksEmpty DEF TableTracks
<1>3. FailureBudget
  BY <1>1, LimitsAssumption DEF FailureBudget
<1>4. /\ now \in Nat
      /\ answer \in [kind : {"none", "refused", "wrong", "welcome"}, delay : 0..TarpitCap]
  BY LimitsAssumption
<1>5. Limit!Init
  BY DEF Limit!Init
<1>. QED BY <1>2, <1>3, <1>4, <1>5, HistoryInvParts

\* Consulting the lock: what it leaves of the address table, at the time t1 at which
\* the attempt is recorded.
LEMMA LockConsulted ==
    ASSUME HistoryInv, NEW ip \in Ips \cup {NoIp}, NEW t1 \in Nat, now <= t1
    PROVE  /\ TableTracks(AfterLocked(ip), ipLog, Ips, t1)
           /\ TableTracks(byUser, userLog, Users, t1)
           /\ \A k \in Ips : Len(AfterLocked(ip)[k]) <= Len(byIp[k])
           /\ ~Locked(ip) /\ ip \in Ips => Len(AfterLocked(ip)[ip]) < HardMaxIp
<1>1. now \in Nat /\ TableTracks(byIp, ipLog, Ips, now) /\ TableTracks(byUser, userLog, Users, now)
  BY DEF HistoryInv, TypeOK
<1>2. byIp \in [Ips -> Seq(Nat)]
  BY <1>1 DEF TableTracks
<1>3. CASE ip = NoIp
  <2>1. AfterLocked(ip) = byIp /\ ip \notin Ips
    BY <1>3, KeysAssumption DEF AfterLocked
  <2>2. \A k \in Ips : Len(byIp[k]) <= Len(byIp[k])
    BY <1>2
  <2>. QED BY <1>1, <2>1, <2>2, TableAdvance
<1>4. CASE ip \in Ips
  <2>. DEFINE r == Recent(byIp, ip, now)
  <2>1. AfterLocked(ip) = r /\ ip # NoIp
    BY <1>4, KeysAssumption DEF AfterLocked
  <2>2. /\ TableTracks(r, ipLog, Ips, now)
        /\ \A k \in Ips : Len(r[k]) <= Len(byIp[k])
        /\ r[ip] = Live(byIp[ip], now)
    BY <1>1, <1>4, TableRecent
  <2>3. r[ip] \in Seq(Nat)
    BY <1>4, <2>2 DEF TableTracks
  <2>. HIDE DEF r
  <2>4. ~Locked(ip) => Len(r[ip]) < HardMaxIp
    BY <2>1, <2>2, <2>3, LimitsAssumption DEF Locked
  <2>. QED BY <1>1, <2>1, <2>2, <2>4, TableAdvance
<1>. QED BY <1>3, <1>4

\* Recording a failure in both tables.
LEMMA FailureRecorded ==
    ASSUME HistoryInv, NEW ip \in Ips \cup {NoIp}, NEW u \in Users \cup {NoUser},
           NEW t1 \in Nat, now <= t1, ~Locked(ip)
    PROVE  LET w == WithFailure(AfterLocked(ip), ip, t1)
           IN  /\ TableTracks(w, Limit!Logged(ipLog, ip, t1), Ips, t1)
               /\ TableTracks(WithFailure(byUser, u, t1), Limit!Logged(userLog, u, t1), Users, t1)
               /\ \A k \in Ips : Len(w[k]) <= HardMaxIp
<1>. DEFINE a == AfterLocked(ip)
            w == WithFailure(a, ip, t1)
<1>1. /\ TableTracks(a, ipLog, Ips, t1)
      /\ TableTracks(byUser, userLog, Users, t1)
      /\ \A k \in Ips : Len(a[k]) <= Len(byIp[k])
      /\ ip \in Ips => Len(a[ip]) < HardMaxIp
  BY LockConsulted
<1>2. /\ a \in [Ips -> Seq(Nat)] /\ byIp \in [Ips -> Seq(Nat)]
      /\ \A k \in Ips : Len(byIp[k]) <= HardMaxIp
  BY <1>1 DEF TableTracks, HistoryInv, FailureBudget
<1>. HIDE DEF a
<1>3. /\ TableTracks(w, Limit!Logged(ipLog, ip, t1), Ips, t1)
      /\ \A k \in Ips \ {ip} : Len(w[k]) <= Len(a[k])
      /\ ip \in Ips => Len(w[ip]) <= Len(Live(a[ip], t1)) + 1
  BY <1>1, TableFailure
<1>4. TableTracks(WithFailure(byUser, u, t1), Limit!Logged(userLog, u, t1), Users, t1)
  BY <1>1, TableFailure
<1>5. w \in [Ips -> Seq(Nat)]
  BY <1>3 DEF TableTracks
<1>. HIDE DEF w
<1>6. ASSUME NEW k \in Ips PROVE Len(w[k]) <= HardMaxIp
  <2>1. CASE k # ip
    BY <2>1, <1>1, <1>2, <1>3, <1>5, LimitsAssumption
  <2>2. CASE k = ip
    <3>1. a[k] \in Seq(Nat) /\ Sorted(a[k])
      BY <1>1, <1>2 DEF TableTracks, Tracks, Sample
    <3>2. /\ Len(Live(a[k], t1)) = Len(a[k]) - Expired(a[k], t1)
          /\ Expired(a[k], t1) \in 0..Len(a[k])
      BY <3>1, LiveProperties, ExpiredPrefix
    <3>. QED BY <2>2, <3>1, <3>2, <1>1, <1>3, <1>5, LimitsAssumption
  <2>. QED BY <2>1, <2>2
<1>. QED BY <1>3, <1>4, <1>6 DEF w, a

\* Every step keeps the invariant and is a step of LoginLimit.
LEMMA NextHistoryInv ==
    ASSUME HistoryInv, [HNext]_vars
    PROVE  HistoryInv' /\ [Limit!Next]_(Limit!limitVars)
<1>. USE DEF Limit!limitVars
<1>0. /\ now \in Nat /\ FailureBudget
      /\ TableTracks(byIp, ipLog, Ips, now) /\ TableTracks(byUser, userLog, Users, now)
      /\ answer \in [kind : {"none", "refused", "wrong", "welcome"}, delay : 0..TarpitCap]
  BY DEF HistoryInv, TypeOK
<1>1. CASE HTick
  <2>1. now' \in Nat /\ now <= now'
    BY <1>0, <1>1 DEF HTick, Tick
  <2>2. UNCHANGED <<byIp, byUser, ipLog, userLog, answer>>
    BY <1>1 DEF HTick, Tick, histVars
  <2>3. /\ TableTracks(byIp, ipLog, Ips, now') /\ TableTracks(byUser, userLog, Users, now')
    BY <1>0, <2>1, TableAdvance
  <2>4. FailureBudget'
    BY <1>0, <2>2 DEF FailureBudget
  <2>5. HistoryInv'
    BY <1>0, <2>1, <2>2, <2>3, <2>4, HistoryInvPartsNext
  <2>6. Limit!Next
    BY <1>1, <2>2 DEF HTick, Tick, Limit!Next, Limit!Tick
  <2>. QED BY <2>5, <2>6
<1>2. ASSUME NEW ip \in Ips, HRefuse(ip)
      PROVE  HistoryInv' /\ Limit!Next
  <2>1. /\ Locked(ip) /\ byIp' = AfterLocked(ip)
        /\ answer' = [kind |-> "refused", delay |-> 0]
        /\ UNCHANGED <<now, byUser, ipLog, userLog>>
    BY <1>2 DEF HRefuse, Refuse, histVars
  <2>2. /\ TableTracks(AfterLocked(ip), ipLog, Ips, now)
        /\ \A k \in Ips : Len(AfterLocked(ip)[k]) <= Len(byIp[k])
    BY <1>0, LockConsulted
  <2>3. byIp' \in [Ips -> Seq(Nat)] /\ byIp \in [Ips -> Seq(Nat)]
    BY <1>0, <2>1, <2>2 DEF TableTracks
  <2>4. FailureBudget'
    BY <1>0, <2>1, <2>2, <2>3, LimitsAssumption DEF FailureBudget
  <2>5. HistoryInv'
    BY <1>0, <2>1, <2>2, <2>4, LimitsAssumption, HistoryInvPartsNext
  <2>6. Limit!Refuse(ip)
    BY <1>0, <2>1, LockAgrees DEF Limit!Refuse
  <2>. QED BY <2>5, <2>6 DEF Limit!Next
<1>3. ASSUME NEW u \in Users \cup {NoUser}, NEW ip \in Ips \cup {NoIp},
             NEW t1 \in now..MaxClock, HRejectOverLong(u, ip, t1)
      PROVE  HistoryInv' /\ Limit!Next
  <2>0. t1 \in Nat /\ now <= t1
    BY <1>0, LimitsAssumption
  <2>1. /\ ~Locked(ip) /\ now' = t1
        /\ byIp' = WithFailure(AfterLocked(ip), ip, t1)
        /\ byUser' = WithFailure(byUser, u, t1)
        /\ answer' = [kind |-> "wrong", delay |-> 0]
        /\ ipLog' = Limit!Logged(ipLog, ip, t1)
        /\ userLog' = Limit!Logged(userLog, u, t1)
    BY <1>3 DEF HRejectOverLong, RejectOverLong, LogFailure
  <2>2. /\ TableTracks(byIp', ipLog', Ips, t1)
        /\ TableTracks(byUser', userLog', Users, t1)
        /\ \A k \in Ips : Len(byIp'[k]) <= HardMaxIp
    BY <2>0, <2>1, FailureRecorded
  <2>3. HistoryInv'
    BY <2>0, <2>1, <2>2, LimitsAssumption, HistoryInvPartsNext DEF FailureBudget
  <2>4. Limit!RejectOverLong(u, ip, t1)
    BY <1>0, <2>1, LockAgrees DEF Limit!RejectOverLong
  <2>. QED BY <2>3, <2>4 DEF Limit!Next
<1>4. ASSUME NEW u \in Users \cup {NoUser}, NEW ip \in Ips \cup {NoIp},
             NEW t1 \in now..MaxClock, HWelcome(u, ip, t1)
      PROVE  HistoryInv' /\ Limit!Next
  <2>0. t1 \in Nat /\ now <= t1
    BY <1>0, LimitsAssumption
  <2>1. /\ ~Locked(ip) /\ now' = t1
        /\ byIp' = Cleared(AfterLocked(ip), ip)
        /\ byUser' = Cleared(byUser, u)
        /\ answer' = [kind |-> "welcome", delay |-> 0]
        /\ ipLog' = Limit!Forgotten(ipLog, ip)
        /\ userLog' = Limit!Forgotten(userLog, u)
    BY <1>4 DEF HWelcome, Welcome
  <2>2. /\ TableTracks(AfterLocked(ip), ipLog, Ips, t1)
        /\ TableTracks(byUser, userLog, Users, t1)
        /\ \A k \in Ips : Len(AfterLocked(ip)[k]) <= Len(byIp[k])
    BY <2>0, LockConsulted
  <2>3. /\ TableTracks(byIp', ipLog', Ips, t1)
        /\ \A k \in Ips : Len(byIp'[k]) <= Len(AfterLocked(ip)[k])
    BY <2>0, <2>1, <2>2, TableCleared
  <2>4. TableTracks(byUser', userLog', Users, t1)
    BY <2>0, <2>1, <2>2, TableCleared
  <2>5. FailureBudget'
    <3>1. /\ byIp' \in [Ips -> Seq(Nat)] /\ byIp \in [Ips -> Seq(Nat)]
          /\ AfterLocked(ip) \in [Ips -> Seq(Nat)]
      BY <1>0, <2>2, <2>3 DEF TableTracks
    <3>2. ASSUME NEW k \in Ips PROVE Len(byIp'[k]) <= HardMaxIp
      <4>1. Len(byIp'[k]) \in Nat /\ Len(AfterLocked(ip)[k]) \in Nat /\ Len(byIp[k]) \in Nat
        BY <3>1
      <4>2. Len(byIp[k]) <= HardMaxIp
        BY <1>0 DEF FailureBudget
      <4>. QED BY <4>1, <4>2, <2>2, <2>3, LimitsAssumption
    <3>. QED BY <3>2 DEF FailureBudget
  <2>6. HistoryInv'
    BY <2>0, <2>1, <2>3, <2>4, <2>5, LimitsAssumption, HistoryInvPartsNext
  <2>7. Limit!Welcome(u, ip, t1)
    BY <1>0, <2>1, LockAgrees DEF Limit!Welcome
  <2>. QED BY <2>6, <2>7 DEF Limit!Next
<1>5. ASSUME NEW u \in Users \cup {NoUser}, NEW ip \in Ips \cup {NoIp},
             NEW t1 \in now..MaxClock, NEW t2 \in t1..MaxClock, HReject(u, ip, t1, t2)
      PROVE  HistoryInv' /\ Limit!Next
  <2>. DEFINE wu == WithFailure(byUser, u, t1)
              looked == Recent(wu, u, t2)
  <2>0. t1 \in Nat /\ t2 \in Nat /\ now <= t1 /\ t1 <= t2
    BY <1>0, LimitsAssumption
  <2>1. /\ ~Locked(ip) /\ now' = t2
        /\ byIp' = WithFailure(AfterLocked(ip), ip, t1)
        /\ byUser' = IF u = NoUser THEN wu ELSE looked
        /\ answer' = [kind |-> "wrong",
                      delay |-> IF u = NoUser THEN 0 ELSE TarpitDelay(Len(looked[u]))]
        /\ ipLog' = Limit!Logged(ipLog, ip, t1)
        /\ userLog' = Limit!Logged(userLog, u, t1)
    BY <1>5 DEF HReject, Reject, LogFailure
  <2>2. /\ TableTracks(byIp', ipLog', Ips, t1)
        /\ TableTracks(wu, userLog', Users, t1)
        /\ \A k \in Ips : Len(byIp'[k]) <= HardMaxIp
    BY <2>0, <2>1, FailureRecorded
  <2>3. TableTracks(byIp', ipLog', Ips, t2) /\ TableTracks(wu, userLog', Users, t2)
    BY <2>0, <2>2, TableAdvance
  <2>. HIDE DEF wu
  <2>4. /\ TableTracks(looked, userLog', Users, t2)
        /\ u \in Users => looked[u] = Live(wu[u], t2)
    BY <2>0, <2>3, TableRecent
  <2>. HIDE DEF looked
  <2>5. TableTracks(byUser', userLog', Users, t2)
    BY <2>1, <2>3, <2>4
  <2>6. u # NoUser => /\ TarpitDelay(Len(looked[u])) \in 0..TarpitCap
                      /\ TarpitDelay(Len(looked[u]))
                           = Limit!RampedDelay(Cardinality(Limit!InWindow(userLog'[u], t2)))
    <3>. SUFFICES ASSUME u \in Users
                  PROVE  /\ TarpitDelay(Len(looked[u])) \in 0..TarpitCap
                         /\ TarpitDelay(Len(looked[u]))
                              = Limit!RampedDelay(Cardinality(Limit!InWindow(userLog'[u], t2)))
      OBVIOUS
    <3>1. /\ wu[u] \in Seq(Nat) /\ userLog'[u] \in Seq(Nat)
          /\ Tracks(wu[u], userLog'[u], t2) /\ looked[u] \in Seq(Nat)
      BY <2>3, <2>4 DEF TableTracks
    <3>2. Len(looked[u]) \in Nat
      BY <3>1
    <3>. QED BY <2>0, <2>4, <3>1, <3>2, DelayAgrees, TarpitDelayType
  <2>7. answer' \in [kind : {"none", "refused", "wrong", "welcome"}, delay : 0..TarpitCap]
    BY <2>1, <2>6, LimitsAssumption
  <2>8. HistoryInv'
    BY <2>0, <2>1, <2>2, <2>3, <2>5, <2>7, HistoryInvPartsNext DEF FailureBudget
  <2>9. Limit!Reject(u, ip, t1, t2)
    BY <1>0, <2>1, <2>6, LockAgrees, SameCardinality DEF Limit!Reject
  <2>. QED BY <2>8, <2>9 DEF Limit!Next
<1>6. CASE UNCHANGED vars
  BY <1>6 DEF vars, throttleVars, histVars, HistoryInv, TypeOK, FailureBudget
<1>. QED BY <1>1, <1>2, <1>3, <1>4, <1>5, <1>6 DEF HNext

\* The tables stand for the complete record in every reachable state.
THEOREM HistoryInvariant == HSpec => []HistoryInv
BY InitHistoryInv, NextHistoryInv, PTL DEF HSpec

\* Every list in the tables is sorted, of past times and bounded by _max_samples.
THEOREM TypeCorrect == HSpec => []TypeOK
<1>1. HistoryInv => TypeOK
  BY DEF HistoryInv
<1>. QED BY <1>1, HistoryInvariant, PTL

\* No address ever has more than HardMaxIp failures on record.
THEOREM BudgetKept == HSpec => []FailureBudget
<1>1. HistoryInv => FailureBudget
  BY DEF HistoryInv
<1>. QED BY <1>1, HistoryInvariant, PTL

\* The pruned, swept and capped throttle answers as one that forgets nothing.
THEOREM ThrottleImplementsLimit == HSpec => AnswersAsUnbounded
<1>1. HSpec => [][Limit!Next]_(Limit!limitVars)
  BY HistoryInvariant, NextHistoryInv, PTL DEF HSpec
<1>. QED BY <1>1, InitHistoryInv, PTL DEF HSpec, AnswersAsUnbounded, Limit!Spec

=============================================================================
