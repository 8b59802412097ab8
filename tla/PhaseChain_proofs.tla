-------------------------- MODULE PhaseChain_proofs --------------------------
(***************************************************************************)
(* What holds of the pattern alone holds of the pattern that is fed by the *)
(* estimator: the composition adds audio, never a step that PhaseProbe     *)
(* does not have.  And no loss and no weak window makes a delta compare    *)
(* windows that are further apart than a hop.                              *)
(***************************************************************************)
EXTENDS PhaseChain, PhaseProbe_proofs, WindowLoop, SequenceTheorems

-----------------------------------------------------------------------------
(* The chain implements the pattern *)

LEMMA ChainStep == ASSUME [ChainNext]_chainVars PROVE [Next]_vars
<1>1. CASE Tick
  BY <1>1 DEF Tick, Next
<1>2. CASE Hear
  <2>1. OnDeltaRange \/ UNCHANGED vars
    BY <1>2 DEF Hear
  <2> QED BY <2>1 DEF Next
<1>3. CASE Lose
  BY <1>3 DEF Lose
<1>4. CASE Select
  BY <1>4 DEF Select
<1>5. CASE Speed
  BY <1>5 DEF Speed, Next
<1>6. CASE UNCHANGED chainVars
  BY <1>6 DEF chainVars
<1> QED BY <1>1, <1>2, <1>3, <1>4, <1>5, <1>6 DEF ChainNext

\* Whatever the audio does, the pattern behaves as PhaseProbe says: the callbacks of
\* audio and of a selection reach it through on_delta_range alone.
THEOREM ChainProbes == ChainSpec => Spec
<1>1. ChainInit => Init
  BY DEF ChainInit
<1>2. [ChainNext]_chainVars => [Next]_vars
  BY ChainStep
<1> QED BY <1>1, <1>2, PTL DEF ChainSpec, Spec

\* PatternBounded of the composition: no delta that comes late keeps a pattern going.
THEOREM ChainBounded == ChainSpec => []PatternBounded
  BY ChainProbes, PatternBoundedAlways, PTL

\* FiledUnderDriven of the composition: with several deltas in one packet, too, each is
\* filed under the axis driven when it comes.
THEOREM ChainFiled == ChainSpec => []FiledUnderDriven
  BY ChainProbes, FiledAlways, PTL

\* TransientsDiscarded of the composition.
THEOREM ChainTransients == ChainSpec => []TransientsDiscarded
  BY ChainProbes, TransientsAlways, PTL

\* LegsDrivenInFull of the composition: the legs of a pattern do not wait for audio.
THEOREM ChainLegs == ChainSpec => LegsDrivenInFull
  BY ChainProbes, LegsInFull, PTL

-----------------------------------------------------------------------------
(* What a window is compared with *)

Steady(iq) == iq \in {NoIq, [carrier |-> carrier, hops |-> 1]}

\* IqBefore is the function that its recursion names.
LEMMA IqBeforeIs ==
  ASSUME NEW n \in Nat, NEW strong \in [1..n -> BOOLEAN]
  PROVE  IqBefore(strong) =
           [i \in 1..(n + 1) |->
              IF i = 1 THEN previous ELSE IqAfter(previous, strong[i - 1])]
<1>1. Len(strong) = n
  OBVIOUS
<1> DEFINE F == [i \in 1..(n + 1) |->
                   IF i = 1 THEN previous ELSE IqAfter(previous, strong[i - 1])]
           Step(g) == [i \in 1..(Len(strong) + 1) |->
                         IF i = 1 THEN previous ELSE IqAfter(g[i - 1], strong[i - 1])]
<1>2. ASSUME NEW g PROVE Step(g) = F
  BY <1>1 DEF IqAfter
<1>3. IqBefore(strong) = CHOOSE g : g = Step(g)
  BY DEF IqBefore
<1>4. F = Step(F)
  BY <1>2
<1> HIDE DEF F, Step
<1>5. IqBefore(strong) = Step(IqBefore(strong))
  BY <1>3, <1>4
<1>6. IqBefore(strong) = F
  BY <1>2, <1>5
<1> QED BY <1>6 DEF F

LEMMA IqStaysSteady ==
  ASSUME Steady(previous), NEW n \in Nat, NEW strong \in [1..n -> BOOLEAN],
         NEW i \in 1..(n + 1)
  PROVE  Steady(IqBefore(strong)[i])
<1>1. IqBefore(strong)[i] = IF i = 1 THEN previous ELSE IqAfter(previous, strong[i - 1])
  BY IqBeforeIs
<1>2. Steady(IqAfter(previous, strong[i - 1]))
  BY DEF Steady, IqAfter
<1> QED BY <1>1, <1>2

-----------------------------------------------------------------------------
(* The estimator's buffers *)

\* A message leaves less than a window behind, and its windows lie within the audio.
LEMMA WindowsFit ==
  ASSUME NEW l \in Nat
  PROVE  /\ WindowsIn(l) \in Nat
         /\ WindowsIn(l) * Hop \in 0..l /\ l - WindowsIn(l) * Hop < Window
         /\ \A i \in 1..WindowsIn(l) : (i - 1) * Hop \in Nat /\ i * Hop + Window <= l + Hop
<1>1. Window \in Nat \ {0} /\ Hop \in Nat \ {0} /\ Hop <= Window
  BY EstimatorAssumption
<1>2. CASE l < Window
  BY <1>1, <1>2 DEF WindowsIn
<1>3. CASE l >= Window
  <2> DEFINE q == (l - Window) \div Hop
  <2>1. l - Window \in Nat
    BY <1>1, <1>3
  <2>2. q \in Nat /\ q * Hop <= l - Window /\ l - Window < q * Hop + Hop
    BY <1>1, <2>1, Division
  <2>3. WindowsIn(l) = q + 1
    BY <1>1, <1>3 DEF WindowsIn
  <2> HIDE DEF q
  <2>4. q * Hop \in Nat /\ (q + 1) * Hop = q * Hop + Hop
    BY <1>1, <2>2
  <2>5. /\ WindowsIn(l) \in Nat /\ WindowsIn(l) * Hop = q * Hop + Hop
        /\ WindowsIn(l) * Hop \in 0..l /\ l - WindowsIn(l) * Hop < Window
    BY <1>1, <2>2, <2>3, <2>4
  <2>6. ASSUME NEW i \in 1..WindowsIn(l)
        PROVE  (i - 1) * Hop \in Nat /\ i * Hop + Window <= l + Hop
    <3>1. i - 1 \in Nat /\ q - (i - 1) \in Nat
      BY <2>2, <2>3
    <3>2. (i - 1) * Hop \in Nat /\ (q - (i - 1)) * Hop \in Nat
      BY <1>1, <3>1
    <3>3. i * Hop = (i - 1) * Hop + Hop /\ q * Hop = (i - 1) * Hop + (q - (i - 1)) * Hop
      BY <1>1, <2>2, <3>1
    <3> QED BY <1>1, <2>1, <2>2, <2>4, <3>2, <3>3
  <2> QED BY <2>5, <2>6
<1> QED BY <1>1, <1>2, <1>3

\* The loop of on_audio looks at the windows the estimator counts and leaves what
\* OnAudio leaves of the samples, however long the message.
THEOREM EstimatorTakes ==
  ASSUME NEW l \in Nat
  PROVE  WindowLoop(Window, Hop)[l] =
           [taken |-> WindowsIn(l), rest |-> l - WindowsIn(l) * Hop]
<1>1. Window \in Nat \ {0} /\ Hop \in 1..Window
  BY EstimatorAssumption
<1>2. WindowLoop(Window, Hop)[l] = Outcome(Window, Hop, l)
  BY <1>1, LoopTakes
<1>3. Taken(Window, Hop, l) = WindowsIn(l)
  BY DEF Taken, WindowsIn
<1> QED BY <1>2, <1>3 DEF Outcome

LEMMA Stretch ==
  ASSUME NEW S, NEW q \in Seq(S), NEW i \in Nat, NEW k \in i..Len(q)
  PROVE  LET t == SubSeq(q, i + 1, k)
         IN  t \in Seq(S) /\ Len(t) = k - i /\ \A j \in 1..(k - i) : t[j] = q[i + j]
<1>1. i + 1 \in Int /\ k \in Int /\ Len(q) \in Nat
  OBVIOUS
<1>2. \A j \in (i + 1)..k : q[j] \in S
  OBVIOUS
<1> DEFINE t == SubSeq(q, i + 1, k)
<1>3. /\ t \in Seq(S) /\ Len(t) = IF i + 1 <= k THEN k - (i + 1) + 1 ELSE 0
      /\ \A j \in 1..(k - (i + 1) + 1) : t[j] = q[(i + 1) + j - 1]
  BY <1>1, <1>2, SubSeqProperties
<1> HIDE DEF t
<1>4. t \in Seq(S) /\ Len(t) = k - i /\ \A j \in 1..(k - i) : t[j] = q[i + j]
  BY <1>1, <1>3
<1> QED BY <1>4 DEF t

LEMMA Joined ==
  ASSUME NEW S, NEW x \in Seq(S), NEW y \in Seq(S), NEW z \in Seq(S)
  PROVE  /\ x \o y \o z \in Seq(S) /\ Len(x \o y \o z) = Len(x) + Len(y) + Len(z)
         /\ \A i \in 1..(Len(x) + Len(y) + Len(z)) :
              (x \o y \o z)[i] = IF i <= Len(x) THEN x[i]
                                 ELSE IF i <= Len(x) + Len(y) THEN y[i - Len(x)]
                                 ELSE z[i - Len(x) - Len(y)]
<1>1. Len(x) \in Nat /\ Len(y) \in Nat /\ Len(z) \in Nat
  OBVIOUS
<1>2. x \o y \in Seq(S)
  BY ConcatProperties
<1>3. /\ Len(x \o y) = Len(x) + Len(y)
      /\ \A i \in 1..(Len(x) + Len(y)) :
           (x \o y)[i] = IF i <= Len(x) THEN x[i] ELSE y[i - Len(x)]
  BY ConcatProperties
<1>4. /\ x \o y \o z \in Seq(S) /\ Len(x \o y \o z) = Len(x \o y) + Len(z)
      /\ \A i \in 1..(Len(x \o y) + Len(z)) :
           (x \o y \o z)[i] = IF i <= Len(x \o y) THEN (x \o y)[i] ELSE z[i - Len(x \o y)]
  BY <1>2, ConcatProperties, Zenon
<1> DEFINE xy == x \o y
           xyz == xy \o z
<1>5. /\ Len(xy) = Len(x) + Len(y)
      /\ \A i \in 1..(Len(x) + Len(y)) : xy[i] = IF i <= Len(x) THEN x[i] ELSE y[i - Len(x)]
  BY <1>3
<1>6. /\ Len(xyz) = Len(xy) + Len(z)
      /\ \A i \in 1..(Len(xy) + Len(z)) : xyz[i] = IF i <= Len(xy) THEN xy[i] ELSE z[i - Len(xy)]
  BY <1>4
<1> HIDE DEF xy, xyz
<1>7. Len(xyz) = Len(x) + Len(y) + Len(z)
  BY <1>1, <1>5, <1>6
<1>8. ASSUME NEW i \in 1..(Len(x) + Len(y) + Len(z))
      PROVE  xyz[i] = IF i <= Len(x) THEN x[i]
                      ELSE IF i <= Len(x) + Len(y) THEN y[i - Len(x)]
                      ELSE z[i - Len(x) - Len(y)]
  <2>1. CASE i <= Len(x) + Len(y)
    BY <1>1, <1>5, <1>6, <2>1
  <2>2. CASE ~(i <= Len(x) + Len(y))
    <3>1. xyz[i] = z[i - Len(xy)]
      BY <1>1, <1>5, <1>6, <2>2
    <3>2. i - Len(xy) = i - Len(x) - Len(y)
      BY <1>1, <1>5
    <3> QED BY <1>1, <2>2, <3>1, <3>2
  <2> QED BY <2>1, <2>2
<1> QED BY <1>4, <1>7, <1>8 DEF xyz, xy

\* The first n units on their way r, what stays of them, and the buffers p (past) and
\* s (samples) when these units have come and d others have dropped out.
Packet(r, n) == SubSeq(r, 1, n)
Way(r, n) == SubSeq(r, n + 1, Len(r))
Whole(p, s, r) == p \o s \o r
Past(p, s, r, n, d) == SubSeq(p \o s \o Packet(r, n), d + 1, d + Len(p))
Waiting(s, r, n, d) == SubSeq(s \o Packet(r, n), d + 1, Len(s) + n)

\* A packet moves from the way to the buffers, and what is too old drops out: seen as one
\* stretch of audio, the buffers and the way lose only their oldest units.
LEMMA PacketMoves ==
  ASSUME NEW S, NEW p \in Seq(S), NEW s \in Seq(S), NEW r \in Seq(S),
         NEW n \in 1..Len(r), NEW d \in 0..(Len(s) + n)
  PROVE  /\ Past(p, s, r, n, d) \in Seq(S) /\ Len(Past(p, s, r, n, d)) = Len(p)
         /\ Waiting(s, r, n, d) \in Seq(S) /\ Len(Waiting(s, r, n, d)) = Len(s) + n - d
         /\ \A k \in 1..(Len(p) + Len(s) + n) :
              Whole(p, s, Packet(r, n))[k] = Whole(p, s, r)[k]
         /\ \A j \in 1..(Len(p) + Len(s) + Len(r) - d) :
              Whole(Past(p, s, r, n, d), Waiting(s, r, n, d), Way(r, n))[j]
                = Whole(p, s, r)[d + j]
<1> DEFINE m  == SubSeq(r, 1, n)
           a  == p \o s \o m
           b  == p \o s \o r
           p2 == SubSeq(a, d + 1, d + Len(p))
           s2 == SubSeq(s \o m, d + 1, Len(s) + n)
           r2 == SubSeq(r, n + 1, Len(r))
<1>1. Len(p) \in Nat /\ Len(s) \in Nat /\ Len(r) \in Nat /\ n \in Nat /\ d \in Nat
  OBVIOUS
<1>2. m \in Seq(S)
  BY <1>1, Stretch, 0 \in Nat, 0 + 1 = 1
<1>3. Len(m) = n /\ \A i \in 1..n : m[i] = r[i]
  <2> DEFINE t == SubSeq(r, 0 + 1, n)
  <2>1. Len(t) = n - 0 /\ \A i \in 1..(n - 0) : t[i] = r[0 + i]
    BY <1>1, Stretch, 0 \in Nat
  <2>2. t = m
    BY DEF m
  <2> HIDE DEF t, m
  <2> QED BY <1>1, <2>1, <2>2
<1>4. r2 \in Seq(S) /\ Len(r2) = Len(r) - n /\ \A i \in 1..(Len(r) - n) : r2[i] = r[n + i]
  BY <1>1, Stretch
<1> HIDE DEF m
<1> DEFINE sm == s \o m
<1>5. sm \in Seq(S)
  BY <1>2, ConcatProperties
<1>6. /\ Len(sm) = Len(s) + Len(m)
      /\ \A i \in 1..(Len(s) + Len(m)) : sm[i] = IF i <= Len(s) THEN s[i] ELSE m[i - Len(s)]
  BY <1>2, ConcatProperties
<1>7. a \in Seq(S)
  BY <1>2, Joined
<1>8. /\ Len(a) = Len(p) + Len(s) + Len(m)
      /\ \A i \in 1..(Len(p) + Len(s) + Len(m)) :
           a[i] = IF i <= Len(p) THEN p[i]
                  ELSE IF i <= Len(p) + Len(s) THEN s[i - Len(p)]
                  ELSE m[i - Len(p) - Len(s)]
  BY <1>2, Joined
<1>9. /\ Len(b) = Len(p) + Len(s) + Len(r)
      /\ \A i \in 1..(Len(p) + Len(s) + Len(r)) :
           b[i] = IF i <= Len(p) THEN p[i]
                  ELSE IF i <= Len(p) + Len(s) THEN s[i - Len(p)]
                  ELSE r[i - Len(p) - Len(s)]
  BY Joined
<1> HIDE DEF a, b, sm
<1>10. Len(sm) = Len(s) + n /\ Len(a) = Len(p) + Len(s) + n
  BY <1>1, <1>3, <1>6, <1>8
<1>11. /\ p2 \in Seq(S) /\ Len(p2) = Len(p)
       /\ \A i \in 1..Len(p) : p2[i] = a[d + i]
  <2> DEFINE t == SubSeq(a, d + 1, d + Len(p))
  <2>1. d + Len(p) \in d..Len(a)
    BY <1>1, <1>10
  <2>2. t \in Seq(S) /\ Len(t) = d + Len(p) - d /\ \A i \in 1..(d + Len(p) - d) : t[i] = a[d + i]
    BY <1>1, <1>7, <2>1, Stretch
  <2> HIDE DEF t
  <2>3. t \in Seq(S) /\ Len(t) = Len(p) /\ \A i \in 1..Len(p) : t[i] = a[d + i]
    BY <1>1, <2>2
  <2> QED BY <2>3 DEF t
<1>12. /\ s2 \in Seq(S) /\ Len(s2) = Len(s) + n - d
       /\ \A i \in 1..(Len(s) + n - d) : s2[i] = sm[d + i]
  <2> DEFINE k == Len(s) + n
             t == SubSeq(sm, d + 1, k)
  <2>1. k \in d..Len(sm)
    BY <1>1, <1>10
  <2> HIDE DEF k
  <2>2. t \in Seq(S) /\ Len(t) = k - d /\ \A i \in 1..(k - d) : t[i] = sm[d + i]
    BY <1>1, <1>5, <2>1, Stretch
  <2>3. s2 = t
    BY DEF sm, k
  <2> HIDE DEF t, s2
  <2> QED BY <2>2, <2>3 DEF k
<1> HIDE DEF p2, s2, r2
<1> DEFINE e == p2 \o s2 \o r2
<1>13. /\ Len(e) = Len(p2) + Len(s2) + Len(r2)
       /\ \A j \in 1..(Len(p2) + Len(s2) + Len(r2)) :
            e[j] = IF j <= Len(p2) THEN p2[j]
                   ELSE IF j <= Len(p2) + Len(s2) THEN s2[j - Len(p2)]
                   ELSE r2[j - Len(p2) - Len(s2)]
  <2>1. p2 \in Seq(S) /\ s2 \in Seq(S) /\ r2 \in Seq(S)
    BY <1>4, <1>11, <1>12
  <2> QED BY <2>1, Joined
<1> HIDE DEF e
<1>14. Len(e) = Len(p) + Len(s) + Len(r) - d
  BY <1>1, <1>4, <1>11, <1>12, <1>13
<1>15. ASSUME NEW j \in 1..Len(e)
       PROVE  e[j] = b[d + j]
  <2>1. j \in Nat /\ 1 <= j /\ j <= Len(p) + Len(s) + Len(r) - d
    BY <1>1, <1>14
  <2>2. d + j \in 1..(Len(p) + Len(s) + Len(r)) /\ j \in 1..(Len(p2) + Len(s2) + Len(r2))
    BY <1>1, <1>13, <1>14, <2>1
  <2>3. CASE j <= Len(p)
    <3>1. e[j] = p2[j] /\ p2[j] = a[d + j]
      BY <1>11, <1>13, <2>1, <2>2, <2>3
    <3>2. a[d + j] = b[d + j]
      <4>1. d + j \in 1..(Len(p) + Len(s) + Len(m))
        BY <1>1, <1>3, <2>1, <2>3
      <4>2. CASE d + j <= Len(p) + Len(s)
        BY <1>1, <1>8, <1>9, <2>2, <4>1, <4>2
      <4>3. CASE ~(d + j <= Len(p) + Len(s))
        <5>1. a[d + j] = m[d + j - Len(p) - Len(s)] /\ b[d + j] = r[d + j - Len(p) - Len(s)]
          BY <1>1, <1>8, <1>9, <2>2, <4>1, <4>3
        <5>2. d + j - Len(p) - Len(s) \in 1..n
          BY <1>1, <1>3, <4>1, <4>3
        <5> QED BY <1>3, <5>1, <5>2
      <4> QED BY <4>2, <4>3
    <3> QED BY <3>1, <3>2
  <2>4. CASE ~(j <= Len(p)) /\ j <= Len(p) + (Len(s) + n - d)
    <3> DEFINE i == d + (j - Len(p))
    <3>1. e[j] = sm[i] /\ i \in 1..(Len(s) + Len(m))
      BY <1>1, <1>3, <1>11, <1>12, <1>13, <2>1, <2>2, <2>4
    <3>2. CASE i <= Len(s)
      <4>1. e[j] = s[i] /\ b[d + j] = s[d + j - Len(p)]
        <5> DEFINE k == d + j
        <5>1. ~(k <= Len(p)) /\ k <= Len(p) + Len(s) /\ k \in 1..(Len(p) + Len(s) + Len(r))
          BY <1>1, <2>1, <2>2, <2>4, <3>2
        <5>2. e[j] = s[i]
          BY <1>6, <3>1, <3>2
        <5> HIDE DEF k
        <5>3. b[k] = s[k - Len(p)]
          BY <1>9, <5>1
        <5> QED BY <5>2, <5>3 DEF k
      <4>2. d + j - Len(p) = i
        BY <1>1, <2>1
      <4> QED BY <4>1, <4>2
    <3>3. CASE ~(i <= Len(s))
      <4>0. e[j] = m[i - Len(s)]
        BY <1>6, <3>1, <3>3
      <4>1. b[d + j] = r[d + j - Len(p) - Len(s)]
        <5> DEFINE k == d + j
        <5>1. ~(k <= Len(p)) /\ ~(k <= Len(p) + Len(s)) /\ k \in 1..(Len(p) + Len(s) + Len(r))
          BY <1>1, <2>1, <2>2, <3>3
        <5> HIDE DEF k
        <5>2. b[k] = r[k - Len(p) - Len(s)]
          BY <1>9, <5>1
        <5> QED BY <5>2 DEF k
      <4>2. d + j - Len(p) - Len(s) = i - Len(s) /\ i - Len(s) \in 1..n
        BY <1>1, <1>3, <2>1, <3>1, <3>3
      <4> QED BY <1>3, <4>0, <4>1, <4>2
    <3> QED BY <3>2, <3>3
  <2>5. CASE ~(j <= Len(p) + (Len(s) + n - d))
    <3> DEFINE i == j - Len(p) - (Len(s) + n - d)
    <3> DEFINE c == Len(p2) + Len(s2)
    <3>0. c = Len(p) + (Len(s) + n - d) /\ Len(p2) <= c /\ c \in Nat
      BY <1>1, <1>11, <1>12
    <3>5. ~(j <= Len(p2)) /\ ~(j <= c) /\ j - Len(p2) - Len(s2) = i
      BY <1>1, <1>11, <1>12, <2>1, <2>5, <3>0
    <3>6. e[j] = r2[j - Len(p2) - Len(s2)]
      BY <1>13, <2>2, <3>5
    <3>7. i \in 1..(Len(r) - n)
      BY <1>1, <2>1, <2>5
    <3>1. e[j] = r2[i] /\ i \in 1..(Len(r) - n)
      BY <3>5, <3>6, <3>7
    <3>2. e[j] = r[n + i]
      BY <1>4, <3>1
    <3>3. b[d + j] = r[d + j - Len(p) - Len(s)]
      <4> DEFINE k == d + j
      <4>1. ~(k <= Len(p)) /\ ~(k <= Len(p) + Len(s)) /\ k \in 1..(Len(p) + Len(s) + Len(r))
        BY <1>1, <2>1, <2>2, <2>5
      <4> HIDE DEF k
      <4>2. b[k] = r[k - Len(p) - Len(s)]
        BY <1>9, <4>1
      <4> QED BY <4>2 DEF k
    <3>4. d + j - Len(p) - Len(s) = n + i
      BY <1>1, <2>1
    <3> QED BY <3>2, <3>3, <3>4
  <2> QED BY <2>3, <2>4, <2>5
<1>16. ASSUME NEW k \in 1..(Len(p) + Len(s) + n)
       PROVE  a[k] = b[k]
  <2>1. k \in 1..(Len(p) + Len(s) + Len(m)) /\ k \in 1..(Len(p) + Len(s) + Len(r)) /\ k \in Nat
    BY <1>1, <1>3
  <2>2. CASE k <= Len(p) + Len(s)
    BY <1>8, <1>9, <2>1, <2>2
  <2>3. CASE ~(k <= Len(p) + Len(s))
    <3>1. a[k] = m[k - Len(p) - Len(s)] /\ b[k] = r[k - Len(p) - Len(s)]
      BY <1>1, <1>8, <1>9, <2>1, <2>3
    <3>2. k - Len(p) - Len(s) \in 1..n
      BY <1>1, <1>3, <2>1, <2>3
    <3> QED BY <1>3, <3>1, <3>2
  <2> QED BY <2>2, <2>3
<1> QED
  <2>1. Past(p, s, r, n, d) = p2 /\ Waiting(s, r, n, d) = s2 /\ Way(r, n) = r2
        /\ Packet(r, n) = m
    BY DEF Past, Waiting, Way, Packet, p2, s2, r2, a, m
  <2>2. \A j \in 1..(Len(p) + Len(s) + Len(r) - d) : e[j] = b[d + j]
    BY <1>14, <1>15
  <2>3. \A k \in 1..(Len(p) + Len(s) + n) : a[k] = b[k]
    BY <1>16
  <2>4. e = Whole(p2, s2, r2) /\ b = Whole(p, s, r) /\ a = Whole(p, s, m)
    BY DEF Whole, e, b, a
  <2> QED BY <1>11, <1>12, <2>1, <2>2, <2>3, <2>4

LEMMA PacketTypes ==
  ASSUME NEW S, NEW p \in Seq(S), NEW s \in Seq(S), NEW r \in Seq(S),
         NEW n \in 1..Len(r), NEW d \in 0..(Len(s) + n)
  PROVE  /\ Past(p, s, r, n, d) \in Seq(S) /\ Len(Past(p, s, r, n, d)) = Len(p)
         /\ Waiting(s, r, n, d) \in Seq(S) /\ Len(Waiting(s, r, n, d)) = Len(s) + n - d
BY PacketMoves

LEMMA PacketMovesOn ==
  ASSUME NEW S, NEW p \in Seq(S), NEW s \in Seq(S), NEW r \in Seq(S),
         NEW n \in 1..Len(r), NEW d \in 0..(Len(s) + n),
         NEW i \in 1..(Len(p) + Len(s) + Len(r) - d)
  PROVE  Whole(Past(p, s, r, n, d), Waiting(s, r, n, d), Way(r, n))[i] = Whole(p, s, r)[d + i]
BY PacketMoves

LEMMA PacketInPlace ==
  ASSUME NEW S, NEW p \in Seq(S), NEW s \in Seq(S), NEW r \in Seq(S),
         NEW n \in 1..Len(r), NEW k \in 1..(Len(p) + Len(s) + n)
  PROVE  Whole(p, s, Packet(r, n))[k] = Whole(p, s, r)[k]
<1>1. 0 \in 0..(Len(s) + n)
  OBVIOUS
<1>2. /\ Past(p, s, r, n, 0) \in Seq(S)
      /\ \A j \in 1..(Len(p) + Len(s) + n) : Whole(p, s, Packet(r, n))[j] = Whole(p, s, r)[j]
  BY <1>1, PacketMoves
<1> QED BY <1>2

-----------------------------------------------------------------------------
(* Types, and deltas over one hop *)

Heard == PatternAxes \cup {Unknown, Silence}

BuffersOK ==
  /\ samples \in Seq(Heard) /\ Len(samples) < Window
  /\ past \in Seq(Heard) /\ Len(past) = Hop
  /\ recorded \in Seq(PatternAxes) /\ Len(recorded) <= Latency

CarrierOK ==
  /\ carrier \in Carriers /\ carrierKnown \in BOOLEAN
  /\ Steady(previous) /\ skewed = FALSE
  /\ foreign \in BOOLEAN

ChainOK == TypeOK /\ BuffersOK /\ CarrierOK

LEMMA ChainOKInit == ChainInit => ChainOK
<1> SUFFICES ASSUME ChainInit PROVE ChainOK
  OBVIOUS
<1>1. TypeOK
  BY TypeInit DEF ChainInit
<1>2. BuffersOK
  BY EstimatorAssumption, ChainAssumption DEF ChainInit, EstimatorInit, BuffersOK, Heard
<1>3. CarrierOK
  <2>1. carrierKnown \in BOOLEAN
    BY EstimatorAssumption, Zenon DEF ChainInit, EstimatorInit
  <2>2. carrier \in Carriers /\ previous = NoIq /\ skewed = FALSE /\ foreign = FALSE
    BY EstimatorAssumption DEF ChainInit, EstimatorInit
  <2> QED BY <2>1, <2>2 DEF CarrierOK, Steady
<1> QED BY <1>1, <1>2, <1>3 DEF ChainOK

\* A tick, as the estimator sees it.
LEMMA TickChain ==
  ASSUME ChainOK, Tick
  PROVE  BuffersOK' /\ CarrierOK'
<1>1. UNCHANGED estimatorVars
  BY DEF Tick
<1>2. recorded' \in Seq(PatternAxes) /\ Len(recorded') <= Latency
  <2>1. driven \in PatternAxes /\ recorded \in Seq(PatternAxes) /\ Len(recorded) \in Nat
    BY DEF ChainOK, TypeOK, BuffersOK
  <2>2. recorded' = Append(recorded, driven) /\ Len(recorded) < Latency
    BY DEF Tick
  <2> QED BY <2>1, <2>2, ChainAssumption, AppendProperties
<1>3. foreign' \in BOOLEAN
  BY Zenon DEF Tick
<1> QED
  BY <1>1, <1>2, <1>3 DEF ChainOK, BuffersOK, CarrierOK, Steady, Heard, estimatorVars

\* A packet, with the number of windows it completes.
LEMMA HearChain ==
  ASSUME ChainOK, NEW n \in 1..Len(recorded),
         NEW strong \in Strengths(SubSeq(recorded, 1, n))
  PROVE  LET packet == SubSeq(recorded, 1, n)
             w      == WindowsIn(Len(samples) + n)
         IN /\ packet \in Seq(Heard) /\ Len(packet) = n
            /\ strong \in [1..w -> BOOLEAN] /\ Len(strong) = w
            /\ w \in Nat /\ w * Hop \in 0..(Len(samples) + n)
<1> DEFINE packet == SubSeq(recorded, 1, n)
           w      == WindowsIn(Len(samples) + n)
<1>1. recorded \in Seq(PatternAxes) /\ Len(recorded) \in Nat /\ n \in Nat /\ Len(samples) \in Nat
  BY DEF ChainOK, BuffersOK
<1>2. recorded \in Seq(Heard)
  BY <1>1 DEF Heard
<1>3. packet \in Seq(Heard) /\ Len(packet) = n
  <2>1. packet \in Seq(Heard) /\ Len(packet) = n - 0
    BY <1>1, <1>2, Stretch, 0 \in Nat, 0 + 1 = 1
  <2> QED BY <1>1, <2>1
<1>4. w \in Nat /\ w * Hop \in 0..(Len(samples) + n)
  BY <1>1, WindowsFit, Len(samples) + n \in Nat
<1>5. strong \in [1..w -> BOOLEAN]
  BY <1>3 DEF Strengths
<1> HIDE DEF packet, w
<1>6. Len(strong) = w
  BY <1>4, <1>5
<1> QED BY <1>3, <1>4, <1>5, <1>6 DEF packet, w

LEMMA BuffersHear ==
  ASSUME ChainOK, NEW n \in 1..Len(recorded),
         NEW strong \in Strengths(SubSeq(recorded, 1, n)),
         OnAudio(SubSeq(recorded, 1, n), strong),
         recorded' = SubSeq(recorded, n + 1, Len(recorded))
  PROVE  BuffersOK'
<1> DEFINE packet == SubSeq(recorded, 1, n)
           d      == Len(strong) * Hop
<1>1. /\ packet \in Seq(Heard) /\ Len(packet) = n
      /\ d \in 0..(Len(samples) + n) /\ Len(samples) + n - d < Window
  <2>1. Len(samples) + n \in Nat
    BY DEF ChainOK, BuffersOK
  <2> DEFINE w == WindowsIn(Len(samples) + n)
  <2>2. packet \in Seq(Heard) /\ Len(packet) = n
    BY HearChain
  <2>3. Len(strong) = w
    BY HearChain
  <2>4. w * Hop \in 0..(Len(samples) + n) /\ Len(samples) + n - w * Hop < Window
    BY <2>1, WindowsFit
  <2> HIDE DEF w, packet
  <2> QED BY <2>2, <2>3, <2>4
<1>2. /\ samples \in Seq(Heard) /\ past \in Seq(Heard) /\ Len(past) = Hop
      /\ recorded \in Seq(PatternAxes) /\ recorded \in Seq(Heard)
      /\ Len(samples) \in Nat /\ Len(recorded) \in Nat /\ n \in Nat
      /\ Len(recorded) <= Latency
  BY DEF ChainOK, BuffersOK, Heard
<1>3. /\ samples' = SubSeq(samples \o packet, d + 1, Len(samples) + n)
      /\ past' = SubSeq(past \o samples \o packet, d + 1, d + Len(past))
  BY <1>1, <1>2 DEF OnAudio
<1> HIDE DEF d
<1>4. /\ samples' \in Seq(Heard) /\ Len(samples') = Len(samples) + n - d
      /\ past' \in Seq(Heard) /\ Len(past') = Len(past)
  <2>1. d \in 0..(Len(samples) + n)
    BY <1>1
  <2>2. recorded \in Seq(Heard) /\ samples \in Seq(Heard) /\ past \in Seq(Heard)
    BY <1>2
  <2>3. /\ samples' = Waiting(samples, recorded, n, d)
        /\ past' = Past(past, samples, recorded, n, d)
    BY <1>3 DEF Waiting, Past, Packet
  <2> HIDE DEF packet
  <2>4. n \in 1..Len(recorded)
    OBVIOUS
  <2>5. /\ Past(past, samples, recorded, n, d) \in Seq(Heard)
        /\ Len(Past(past, samples, recorded, n, d)) = Len(past)
        /\ Waiting(samples, recorded, n, d) \in Seq(Heard)
        /\ Len(Waiting(samples, recorded, n, d)) = Len(samples) + n - d
    BY <2>1, <2>2, <2>4, PacketTypes
  <2> QED BY <2>3, <2>5
<1>5. recorded' \in Seq(PatternAxes) /\ Len(recorded') = Len(recorded) - n
  BY <1>2, Stretch
<1> QED
  BY <1>1, <1>2, <1>4, <1>5, ChainAssumption, EstimatorAssumption DEF BuffersOK, Heard

\* Each window is compared with the one a hop before it, of the same carrier, or with none.
LEMMA CarrierHear ==
  ASSUME ChainOK, NEW n \in 1..Len(recorded),
         NEW strong \in Strengths(SubSeq(recorded, 1, n)),
         OnAudio(SubSeq(recorded, 1, n), strong), foreign' \in BOOLEAN
  PROVE  CarrierOK'
<1> DEFINE w == WindowsIn(Len(samples) + n)
<1>1. strong \in [1..w -> BOOLEAN] /\ Len(strong) = w /\ w \in Nat
  BY HearChain
<1> HIDE DEF w
<1>2. Steady(previous) /\ skewed = FALSE /\ carrier \in Carriers /\ carrierKnown \in BOOLEAN
  BY DEF ChainOK, CarrierOK
<1>3. \A i \in 1..(w + 1) : Steady(IqBefore(strong)[i])
  BY <1>1, <1>2, IqStaysSteady
<1>4. carrier' = carrier /\ carrierKnown' = carrierKnown
  BY DEF OnAudio
<1>5. Steady(previous)'
  <2>1. previous' = IF carrierKnown THEN IqBefore(strong)[Len(strong) + 1] ELSE previous
    BY DEF OnAudio
  <2>2. Steady(previous')
    BY <1>1, <1>2, <1>3, <2>1
  <2> QED BY <1>4, <2>2 DEF Steady
<1>6. \A i \in Yields(strong) : IqBefore(strong)[i] = [carrier |-> carrier, hops |-> 1]
  BY <1>1, <1>3 DEF Yields, Steady
<1>7. skewed' = FALSE
  <2>1. skewed' = (skewed \/ \E i \in Yields(strong) :
                               IqBefore(strong)[i] # [carrier |-> carrier, hops |-> 1])
    BY DEF OnAudio
  <2> QED BY <1>2, <1>6, <2>1
<1> QED BY <1>2, <1>4, <1>5, <1>7 DEF CarrierOK

LEMMA ChainOKNext ==
  ASSUME ChainOK, [ChainNext]_chainVars
  PROVE  ChainOK'
<1>0. TypeOK'
  BY TypeNext, ChainStep DEF ChainOK
<1>1. CASE Tick
  BY <1>0, <1>1, TickChain DEF ChainOK
<1>2. CASE Hear
  <2>1. PICK n \in 1..Len(recorded) : \E strong \in Strengths(SubSeq(recorded, 1, n)) :
          /\ OnAudio(SubSeq(recorded, 1, n), strong)
          /\ \/ foreign' = (foreign \/ \E s \in {Recorded(Span(SubSeq(recorded, 1, n), i)) :
                                                   i \in Yields(strong)} :
                                         Unknown \notin s /\ s # {axis})
             \/ foreign' = foreign
          /\ recorded' = SubSeq(recorded, n + 1, Len(recorded))
    BY <1>2, Zenon DEF Hear
  <2>2. PICK strong \in Strengths(SubSeq(recorded, 1, n)) :
          /\ OnAudio(SubSeq(recorded, 1, n), strong)
          /\ \/ foreign' = (foreign \/ \E s \in {Recorded(Span(SubSeq(recorded, 1, n), i)) :
                                                   i \in Yields(strong)} :
                                         Unknown \notin s /\ s # {axis})
             \/ foreign' = foreign
          /\ recorded' = SubSeq(recorded, n + 1, Len(recorded))
    BY <2>1
  <2>3. foreign' \in BOOLEAN
    <3>1. foreign \in BOOLEAN
      BY DEF ChainOK, CarrierOK
    <3>2. CASE foreign' = foreign
      BY <3>1, <3>2
    <3>3. CASE foreign' = (foreign \/ \E s \in {Recorded(Span(SubSeq(recorded, 1, n), i)) :
                                                  i \in Yields(strong)} :
                                        Unknown \notin s /\ s # {axis})
      BY <3>3, Zenon
    <3> QED BY <2>2, <3>2, <3>3
  <2>4. BuffersOK'
    BY <2>2, BuffersHear
  <2>5. CarrierOK'
    BY <2>2, <2>3, CarrierHear
  <2> QED BY <1>0, <2>4, <2>5 DEF ChainOK
<1>3. CASE Lose
  <2>1. PICK n \in 1..Len(recorded) : recorded' = SubSeq(recorded, n + 1, Len(recorded))
    BY <1>3 DEF Lose
  <2>2. recorded \in Seq(PatternAxes) /\ Len(recorded) \in Nat /\ n \in Nat
    BY DEF ChainOK, BuffersOK
  <2>3. recorded' \in Seq(PatternAxes) /\ Len(recorded') = Len(recorded) - n
    BY <2>1, <2>2, Stretch
  <2>4. samples' \in Seq(Heard) /\ Len(samples') = Len(samples)
    <3>1. DOMAIN samples = 1..Len(samples) /\ Len(samples) \in Nat
      BY DEF ChainOK, BuffersOK
    <3> QED BY <1>3, <3>1 DEF Lose, Heard
  <2>5. past' \in Seq(Heard) /\ Len(past') = Len(past)
    <3>1. DOMAIN past = 1..Len(past) /\ Len(past) \in Nat
      BY DEF ChainOK, BuffersOK
    <3> QED BY <1>3, <3>1 DEF Lose, Heard
  <2>6. BuffersOK'
    BY <2>2, <2>3, <2>4, <2>5, ChainAssumption DEF ChainOK, BuffersOK, Heard
  <2>7. CarrierOK'
    BY <1>3 DEF Lose, ChainOK, CarrierOK, Steady
  <2> QED BY <1>0, <2>6, <2>7 DEF ChainOK
<1>4. CASE Select
  <2>1. BuffersOK'
    BY <1>4 DEF Select, SelectCarrier, ChainOK, BuffersOK, Heard
  <2>2. carrier' \in Carriers /\ carrierKnown' = TRUE /\ previous' = NoIq
        /\ skewed' = skewed /\ foreign' = foreign
    BY <1>4 DEF Select, SelectCarrier
  <2> QED BY <1>0, <2>1, <2>2 DEF ChainOK, CarrierOK, Steady
<1>5. CASE Speed \/ UNCHANGED chainVars
  <2>1. UNCHANGED <<estimatorVars, recorded, foreign>>
    BY <1>5 DEF Speed, chainVars
  <2> QED BY <1>0, <2>1 DEF ChainOK, BuffersOK, CarrierOK, Steady, Heard, estimatorVars
<1> QED BY <1>1, <1>2, <1>3, <1>4, <1>5 DEF ChainNext

THEOREM ChainCorrect == ChainSpec => []ChainOK
  BY ChainOKInit, ChainOKNext, PTL DEF ChainSpec

\* Every reachable state is well typed: however many units a packet brings, less than a
\* window waits for the next one.
THEOREM ChainTypeCorrect == ChainSpec => []ChainTypeOK
<1>1. ChainOK => ChainTypeOK
  <2> SUFFICES ASSUME ChainOK PROVE ChainTypeOK
    OBVIOUS
  <2>1. skewed \in BOOLEAN /\ foreign \in BOOLEAN /\ carrierKnown \in BOOLEAN
    BY Zenon DEF ChainOK, CarrierOK
  <2>2. previous \in {NoIq} \cup [carrier : Carriers, hops : {1, 2}] /\ carrier \in Carriers
    BY DEF ChainOK, CarrierOK, Steady
  <2>3. EstimatorTypeOK
    BY <2>1, <2>2 DEF EstimatorTypeOK, ChainOK, BuffersOK
  <2> QED BY <2>1, <2>3 DEF ChainTypeOK, ChainOK, BuffersOK
<1> QED BY <1>1, ChainCorrect, PTL

\* No delta compares windows of two carriers or windows more than a hop apart, whatever
\* was lost or too weak and whenever the carrier was selected anew.
THEOREM OneHopAlways == ChainSpec => []DeltaSpansOneHop
<1>1. ChainOK => DeltaSpansOneHop
  BY DEF ChainOK, CarrierOK, DeltaSpansOneHop
<1> QED BY <1>1, ChainCorrect, PTL

-----------------------------------------------------------------------------
(* Deltas of the driven axis *)

\* What the estimator may still take deltas from, oldest first.
Audio == past \o samples \o recorded

\* What was recorded since the command last changed was recorded under it, unless a loss
\* has made it Unknown.
Recent ==
  \A j \in 1..Len(Audio) : Len(Audio) - j < held => Audio[j] \in {driven, Unknown}

\* Every piece of Audio, and where it lies.
AudioShape ==
  /\ Len(past) = Hop /\ Hop \in Nat /\ Len(samples) \in Nat /\ Len(recorded) \in Nat
  /\ Len(Audio) = Hop + Len(samples) + Len(recorded)
  /\ \A i \in 1..(Hop + Len(samples) + Len(recorded)) :
       Audio[i] = IF i <= Hop THEN past[i]
                  ELSE IF i <= Hop + Len(samples) THEN samples[i - Hop]
                  ELSE recorded[i - Hop - Len(samples)]

LEMMA AudioIs == ChainOK => AudioShape
<1> SUFFICES ASSUME ChainOK PROVE AudioShape
  OBVIOUS
<1>1. past \in Seq(Heard) /\ samples \in Seq(Heard) /\ recorded \in Seq(Heard)
  BY DEF ChainOK, BuffersOK, Heard
<1>2. Len(past) = Hop /\ Hop \in Nat /\ Len(samples) \in Nat /\ Len(recorded) \in Nat
  BY <1>1 DEF ChainOK, BuffersOK
<1>3. /\ Len(Audio) = Len(past) + Len(samples) + Len(recorded)
      /\ \A i \in 1..(Len(past) + Len(samples) + Len(recorded)) :
           Audio[i] = IF i <= Len(past) THEN past[i]
                      ELSE IF i <= Len(past) + Len(samples) THEN samples[i - Len(past)]
                      ELSE recorded[i - Len(past) - Len(samples)]
  BY <1>1, Joined DEF Audio
<1> QED BY <1>2, <1>3 DEF AudioShape

LEMMA TickDrives ==
  ASSUME TypeOK, ControlTick
  PROVE  held' = 0 \/ (driven' = driven /\ held' <= held + 1)
<1>1. held \in Nat
  BY DurationsAssumption DEF TypeOK
<1>2. \E next \in {driven'} : Drive(next)
  BY DEF ControlTick, TickSettle, TickLeg, TickExtend, TickGap, TickAccept, TickRepeat,
         TickBlocked, TickStart, DriveLeg, Drive
<1> QED BY <1>1, <1>2 DEF Drive

LEMMA RecentTick ==
  ASSUME ChainOK, ChainOK', Recent, Tick
  PROVE  Recent'
<1> SUFFICES ASSUME NEW j \in 1..Len(Audio'), Len(Audio') - j < held'
             PROVE  Audio'[j] \in {driven', Unknown}
  BY DEF Recent
<1>0. AudioShape /\ AudioShape'
  BY AudioIs, PTL
<1>1. /\ recorded' = Append(recorded, driven) /\ ControlTick
      /\ samples' = samples /\ past' = past
  BY DEF Tick, estimatorVars
<1>2. recorded \in Seq(PatternAxes) /\ driven \in PatternAxes /\ held \in Nat /\ held' \in Nat
  BY DurationsAssumption DEF ChainOK, BuffersOK, TypeOK
<1>3. /\ Len(recorded') = Len(recorded) + 1
      /\ \A i \in 1..Len(recorded) : recorded'[i] = recorded[i]
      /\ recorded'[Len(recorded) + 1] = driven
  BY <1>1, <1>2, AppendProperties
<1>4. Len(Audio') = Len(Audio) + 1 /\ Len(Audio) \in Nat
  BY <1>0, <1>1, <1>3 DEF AudioShape
<1>5. j \in Nat /\ held' # 0
  BY <1>2, <1>4
<1>6. driven' = driven /\ held' <= held + 1
  BY <1>1, <1>5, TickDrives DEF ChainOK
<1>7. CASE j = Len(Audio) + 1
  <2>1. Audio'[j] = recorded'[Len(recorded) + 1]
    BY <1>0, <1>1, <1>3, <1>4, <1>7 DEF AudioShape
  <2> QED BY <1>3, <1>6, <2>1
<1>8. CASE j # Len(Audio) + 1
  <2>1. j \in 1..Len(Audio) /\ Len(Audio) - j < held
    BY <1>2, <1>4, <1>5, <1>6, <1>8
  <2>2. Audio[j] \in {driven, Unknown}
    BY <2>1 DEF Recent
  <2>3. Audio'[j] = Audio[j]
    <3>1. Len(recorded') = Len(recorded) + 1
      BY <1>3
    <3>2. CASE j <= Hop + Len(samples)
      BY <1>0, <1>1, <1>4, <2>1, <3>1, <3>2 DEF AudioShape
    <3>3. CASE ~(j <= Hop + Len(samples))
      <4>1. /\ Audio'[j] = recorded'[j - Hop - Len(samples)]
            /\ Audio[j] = recorded[j - Hop - Len(samples)]
            /\ j - Hop - Len(samples) \in 1..Len(recorded)
        BY <1>0, <1>1, <1>4, <2>1, <3>1, <3>3 DEF AudioShape
      <4> QED BY <1>3, <4>1
    <3> QED BY <3>2, <3>3
  <2> QED BY <1>6, <2>2, <2>3
<1> QED BY <1>7, <1>8

LEMMA RecentLose ==
  ASSUME ChainOK, ChainOK', Recent, Lose
  PROVE  Recent'
<1> SUFFICES ASSUME NEW j \in 1..Len(Audio'), Len(Audio') - j < held'
             PROVE  Audio'[j] \in {driven', Unknown}
  BY DEF Recent
<1>0. AudioShape /\ AudioShape'
  BY AudioIs, PTL
<1>1. PICK n \in 1..Len(recorded) : recorded' = SubSeq(recorded, n + 1, Len(recorded))
  BY DEF Lose
<1>2. recorded \in Seq(PatternAxes) /\ held \in Nat /\ n \in Nat /\ Len(recorded) \in Nat
  BY DurationsAssumption DEF ChainOK, BuffersOK, TypeOK
<1>3. /\ Len(recorded') = Len(recorded) - n
      /\ \A i \in 1..(Len(recorded) - n) : recorded'[i] = recorded[n + i]
  BY <1>1, <1>2, Stretch
<1>4. DOMAIN samples = 1..Len(samples) /\ DOMAIN past = 1..Len(past) /\ Len(samples) \in Nat
  BY DEF ChainOK, BuffersOK
<1>5. /\ \A i \in 1..Len(samples) : samples'[i] = Unknown
      /\ \A i \in 1..Len(past) : past'[i] = Unknown
  BY <1>4 DEF Lose
<1>6. Len(samples') = Len(samples)
  BY <1>4 DEF Lose
<1>7. driven' = driven /\ held' = held
  BY DEF Lose, vars, history
<1>8. Len(Audio') = Len(Audio) - n /\ Len(Audio) \in Nat /\ j \in Nat
  BY <1>0, <1>2, <1>3, <1>6 DEF AudioShape
<1>9. CASE j <= Hop
  BY <1>0, <1>5, <1>8, <1>9 DEF AudioShape
<1>10. CASE ~(j <= Hop) /\ j <= Hop + Len(samples)
  BY <1>0, <1>5, <1>6, <1>8, <1>10 DEF AudioShape
<1>11. CASE ~(j <= Hop + Len(samples))
  <2>1. /\ Audio'[j] = recorded'[j - Hop - Len(samples)]
        /\ j - Hop - Len(samples) \in 1..(Len(recorded) - n)
    BY <1>0, <1>2, <1>3, <1>6, <1>8, <1>11 DEF AudioShape
  <2>2. Audio'[j] = recorded[n + (j - Hop - Len(samples))]
    BY <1>3, <2>1
  <2>3. n + j \in 1..Len(Audio) /\ Len(Audio) - (n + j) < held
    BY <1>2, <1>7, <1>8
  <2>4. Audio[n + j] = recorded[(n + j) - Hop - Len(samples)]
    <3>1. ~(n + j <= Hop) /\ ~(n + j <= Hop + Len(samples))
      BY <1>0, <1>2, <1>8, <1>11, <2>3 DEF AudioShape
    <3> QED BY <1>0, <2>3, <3>1 DEF AudioShape
  <2>5. (n + j) - Hop - Len(samples) = n + (j - Hop - Len(samples))
    BY <1>0, <1>2, <1>8 DEF AudioShape
  <2> QED BY <1>7, <2>2, <2>3, <2>4, <2>5 DEF Recent
<1> QED BY <1>9, <1>10, <1>11

\* A packet leaves Audio as it was, but for its oldest units.
LEMMA RecentHear ==
  ASSUME ChainOK, ChainOK', Recent, Hear
  PROVE  Recent'
<1> SUFFICES ASSUME NEW j \in 1..Len(Audio'), Len(Audio') - j < held'
             PROVE  Audio'[j] \in {driven', Unknown}
  BY DEF Recent
<1>0. AudioShape /\ AudioShape'
  BY AudioIs, PTL
<1>1. PICK n \in 1..Len(recorded) : \E strong \in Strengths(SubSeq(recorded, 1, n)) :
        /\ OnAudio(SubSeq(recorded, 1, n), strong)
        /\ recorded' = SubSeq(recorded, n + 1, Len(recorded))
  BY DEF Hear
<1>2. PICK strong \in Strengths(SubSeq(recorded, 1, n)) :
        /\ OnAudio(SubSeq(recorded, 1, n), strong)
        /\ recorded' = SubSeq(recorded, n + 1, Len(recorded))
  BY <1>1
<1>3. UNCHANGED <<driven, held>>
  BY DEF Hear, OnDeltaRange, vars, history
<1> DEFINE d == Len(strong) * Hop
<1>4. /\ recorded \in Seq(Heard) /\ samples \in Seq(Heard) /\ past \in Seq(Heard)
      /\ held \in Nat /\ n \in Nat
  BY DurationsAssumption DEF ChainOK, BuffersOK, TypeOK, Heard
<1>5. d \in 0..(Len(samples) + n)
  <2> DEFINE w == WindowsIn(Len(samples) + n)
  <2>1. Len(strong) = w
    BY HearChain
  <2>2. w * Hop \in 0..(Len(samples) + n)
    BY HearChain
  <2> HIDE DEF w
  <2> QED BY <2>1, <2>2
<1>6. /\ samples' = Waiting(samples, recorded, n, d)
      /\ past' = Past(past, samples, recorded, n, d)
      /\ recorded' = Way(recorded, n)
  <2>1. Len(SubSeq(recorded, 1, n)) = n
    BY HearChain
  <2> QED BY <1>0, <1>2, <2>1 DEF OnAudio, Waiting, Past, Way, Packet, AudioShape
<1> HIDE DEF d
<1>7. \A i \in 1..(Len(past) + Len(samples) + Len(recorded) - d) : Audio'[i] = Audio[d + i]
  <2>1. \A i \in 1..(Len(past) + Len(samples) + Len(recorded) - d) :
          Whole(Past(past, samples, recorded, n, d), Waiting(samples, recorded, n, d),
                Way(recorded, n))[i] = Whole(past, samples, recorded)[d + i]
    BY <1>4, <1>5, PacketMovesOn
  <2> QED BY <1>6, <2>1 DEF Audio, Whole
<1>8. Len(samples') = Len(samples) + n - d /\ Len(recorded') = Len(recorded) - n
  <2>1. Len(samples') = Len(samples) + n - d
    <3>1. Len(Waiting(samples, recorded, n, d)) = Len(samples) + n - d
      BY <1>4, <1>5, PacketTypes
    <3> QED BY <1>6, <3>1
  <2>2. Len(recorded') = Len(recorded) - n
    BY <1>0, <1>2, <1>4, Stretch DEF AudioShape
  <2> QED BY <2>1, <2>2
<1>9. /\ Len(Audio') = Len(Audio) - d /\ Len(Audio) \in Nat /\ d \in Nat /\ j \in Nat
      /\ Len(Audio) = Len(past) + Len(samples) + Len(recorded)
  BY <1>0, <1>4, <1>5, <1>8 DEF AudioShape
<1>10. Audio'[j] = Audio[d + j] /\ d + j \in 1..Len(Audio) /\ Len(Audio) - (d + j) < held
  BY <1>3, <1>4, <1>7, <1>9
<1> QED BY <1>3, <1>10 DEF Recent

\* What the delta of window i was taken from is a piece of Audio.
LEMMA SpanIsAudio ==
  ASSUME ChainOK, NEW n \in 1..Len(recorded),
         NEW strong \in Strengths(SubSeq(recorded, 1, n)), NEW i \in Yields(strong)
  PROVE  LET axes == Recorded(Span(SubSeq(recorded, 1, n), i))
         IN  axes # {} /\ \A x \in axes : \E j \in 1..Len(Audio) : x = Audio[j]
<1>0. AudioShape
  BY AudioIs
<1>1. /\ recorded \in Seq(Heard) /\ samples \in Seq(Heard) /\ past \in Seq(Heard)
      /\ n \in Nat /\ Len(recorded) \in Nat /\ Len(samples) \in Nat
      /\ Hop \in Nat \ {0} /\ Window \in Nat \ {0} /\ Len(past) = Hop
  BY EstimatorAssumption DEF ChainOK, BuffersOK, Heard
<1> DEFINE q == past \o samples \o Packet(recorded, n)
           b == (i - 1) * Hop
           e == i * Hop + Window
           t == SubSeq(q, b + 1, e)
<1>2. Packet(recorded, n) \in Seq(Heard) /\ Len(Packet(recorded, n)) = n
  BY HearChain DEF Packet
<1>3. q \in Seq(Heard) /\ Len(q) = Hop + Len(samples) + n
  <2>0. past \in Seq(Heard) /\ samples \in Seq(Heard) /\ Packet(recorded, n) \in Seq(Heard)
    BY <1>1, <1>2
  <2>1. q \in Seq(Heard) /\ Len(q) = Len(past) + Len(samples) + Len(Packet(recorded, n))
    BY <2>0, Joined
  <2> HIDE DEF q
  <2> QED BY <1>1, <1>2, <2>1
<1>4. \A k \in 1..(Hop + Len(samples) + n) : q[k] = Audio[k]
  <2>1. \A k \in 1..(Len(past) + Len(samples) + n) :
          Whole(past, samples, Packet(recorded, n))[k] = Whole(past, samples, recorded)[k]
    BY <1>1, PacketInPlace
  <2> QED BY <1>1, <2>1 DEF Audio, Whole
<1>5. b \in Nat /\ e \in b..Len(q) /\ e - b >= 1
  <2> DEFINE l == Len(samples) + n
  <2>1. i \in 1..WindowsIn(l)
    <3> DEFINE w == WindowsIn(l)
    <3>1. Len(strong) = w
      BY HearChain
    <3>2. i \in 1..Len(strong)
      BY DEF Yields
    <3> HIDE DEF w, l
    <3>3. i \in 1..w
      BY <3>1, <3>2
    <3> QED BY <3>3 DEF w
  <2>2. l \in Nat /\ Len(q) = l + Hop
    <3> HIDE DEF q
    <3> QED BY <1>1, <1>3
  <2>3. i \in Nat /\ i >= 1
    <3>1. WindowsIn(l) \in Nat
      BY <2>2, WindowsFit
    <3> HIDE DEF l
    <3> QED BY <2>1, <3>1
  <2> HIDE DEF l, q
  <2>4. (i - 1) * Hop \in Nat /\ i * Hop + Window <= l + Hop
    BY <2>1, <2>2, WindowsFit
  <2>5. i * Hop = (i - 1) * Hop + Hop
    BY <1>1, <2>3
  <2> QED BY <1>1, <2>2, <2>4, <2>5
<1>6. t = Span(SubSeq(recorded, 1, n), i)
  BY DEF Span, Packet
<1> HIDE DEF q, b, e
<1>7. t \in Seq(Heard) /\ Len(t) = e - b /\ \A k \in 1..(e - b) : t[k] = q[b + k]
  BY <1>3, <1>5, Stretch
<1>8. e \in Nat /\ e <= Hop + Len(samples) + n /\ DOMAIN t = 1..(e - b)
  <2> HIDE DEF t
  <2>1. Len(q) \in Nat
    BY <1>3
  <2>2. e - b \in Nat
    BY <1>3, <1>5, <2>1
  <2> QED BY <1>1, <1>3, <1>5, <1>7, <2>1, <2>2
<1> HIDE DEF t
<1>9. \A k \in 1..(e - b) : t[k] = Audio[b + k] /\ b + k \in 1..Len(Audio)
  <2> TAKE k \in 1..(e - b)
  <2>1. b + k \in 1..(Hop + Len(samples) + n)
    BY <1>1, <1>5, <1>8
  <2>2. b + k \in 1..Len(Audio)
    BY <1>0, <1>1, <2>1 DEF AudioShape
  <2> QED BY <1>4, <1>7, <2>1, <2>2
<1>10. 1 \in 1..(e - b)
  BY <1>5, <1>8
<1> QED BY <1>6, <1>8, <1>9, <1>10 DEF Recorded

\* A sampled vehicle has followed its command for longer than Audio is old, so that every
\* delta is one of the driven axis, which is the one it is filed under.
LEMMA FiledOfDriven ==
  ASSUME ChainOK, Recent, AxisDriven, Followed, probing, sampling,
         NEW n \in 1..Len(recorded), NEW strong \in Strengths(SubSeq(recorded, 1, n)),
         NEW i \in Yields(strong), Unknown \notin Recorded(Span(SubSeq(recorded, 1, n), i))
  PROVE  Recorded(Span(SubSeq(recorded, 1, n), i)) = {axis}
<1> DEFINE axes == Recorded(Span(SubSeq(recorded, 1, n), i))
<1>1. axis = driven
  BY DEF AxisDriven
<1>2. held >= NeutralDelay /\ held \in Nat /\ NeutralDelay \in Nat
  BY DurationsAssumption DEF Followed, Transient, ChainOK, TypeOK
<1>3. Len(Audio) \in Nat /\ Len(Audio) <= NeutralDelay
  <2>1. AudioShape
    BY AudioIs
  <2>2. /\ Len(samples) < Window /\ Len(recorded) <= Latency
        /\ Window \in Nat /\ Hop \in Nat /\ Latency \in Nat
    BY EstimatorAssumption, ChainAssumption DEF ChainOK, BuffersOK
  <2> QED BY <1>2, <2>1, <2>2, DelaysAssumption DEF AudioShape
<1>4. \A j \in 1..Len(Audio) : Audio[j] \in {driven, Unknown}
  BY <1>2, <1>3 DEF Recent
<1>5. axes # {} /\ \A x \in axes : \E j \in 1..Len(Audio) : x = Audio[j]
  BY SpanIsAudio
<1> HIDE DEF axes
<1>6. \A x \in axes : x \in {driven, Unknown}
  BY <1>4, <1>5
<1>7. Unknown \notin axes
  BY DEF axes
<1>8. axes = {driven}
  BY <1>5, <1>6, <1>7
<1> QED BY <1>1, <1>8 DEF axes

\* Extensions are taken back by a new pattern alone.
LEMMA StaysUnextended ==
  ASSUME TypeOK, ControlTick, Unextended'
  PROVE  Unextended \/ elapsed' = 0
<1>1. CASE TickExtend
  <2>1. PICK i \in Legs : /\ Overdue(i, elapsed')
                          /\ extensions' = [extensions EXCEPT ![i] = @ + Extend(@)]
    BY <1>1 DEF TickExtend
  <2>2. extensions \in [Legs -> 0..MaxExtension] /\ extensions[i] < MaxExtension
    BY <2>1 DEF TypeOK, Overdue
  <2>3. extensions[i] + Extend(extensions[i]) > 0
    BY <2>2, DurationsAssumption DEF Extend
  <2>4. extensions'[i] = extensions[i] + Extend(extensions[i])
    BY <2>1, <2>2
  <2>5. extensions'[i] = 0
    BY DEF Unextended, Legs, Axes
  <2> QED BY <2>3, <2>4, <2>5
<1>2. CASE TickRepeat \/ TickStart
  BY <1>2 DEF TickRepeat, TickStart, StartProbe
<1>3. CASE TickSettle \/ TickLeg \/ TickGap \/ TickAccept \/ TickBlocked
  <2>1. extensions' = extensions
    BY <1>3 DEF TickSettle, TickLeg, TickGap, TickAccept, TickBlocked
  <2> QED BY <2>1 DEF Unextended, Legs, Axes
<1> QED BY <1>1, <1>2, <1>3 DEF ControlTick

RecordedOK ==
  /\ ChainOK /\ AxisDriven /\ (Unextended => Followed)
  /\ Recent /\ (Unextended => foreign = FALSE)

LEMMA ForeignNext ==
  ASSUME RecordedOK, [ChainNext]_chainVars, Unextended'
  PROVE  foreign' = FALSE
<1>1. CASE Tick
  <2>1. CASE elapsed' = 0
    BY <1>1, <2>1 DEF Tick
  <2>2. CASE elapsed' # 0
    <3>1. Unextended
      BY <1>1, <2>2, StaysUnextended DEF Tick, RecordedOK, ChainOK
    <3> QED BY <1>1, <3>1 DEF Tick, RecordedOK
  <2> QED BY <2>1, <2>2
<1>2. CASE Hear
  <2>1. Unextended
    <3>1. extensions' = extensions
      BY <1>2 DEF Hear, OnDeltaRange, timeline, vars
    <3> QED BY <3>1 DEF Unextended, Legs, Axes
  <2>2. ChainOK /\ AxisDriven /\ Followed /\ Recent /\ foreign = FALSE
    BY <2>1 DEF RecordedOK
  <2>3. PICK n \in 1..Len(recorded) : \E strong \in Strengths(SubSeq(recorded, 1, n)) :
          \/ /\ probing /\ sampling
             /\ foreign' = (foreign \/ \E s \in {Recorded(Span(SubSeq(recorded, 1, n), i)) :
                                                   i \in Yields(strong)} :
                                         Unknown \notin s /\ s # {axis})
          \/ foreign' = foreign
    BY <1>2, Zenon DEF Hear
  <2>4. PICK strong \in Strengths(SubSeq(recorded, 1, n)) :
          \/ /\ probing /\ sampling
             /\ foreign' = (foreign \/ \E s \in {Recorded(Span(SubSeq(recorded, 1, n), i)) :
                                                   i \in Yields(strong)} :
                                         Unknown \notin s /\ s # {axis})
          \/ foreign' = foreign
    BY <2>3
  <2>5. CASE foreign' = foreign
    BY <2>2, <2>5
  <2>6. CASE /\ probing /\ sampling
             /\ foreign' = (foreign \/ \E s \in {Recorded(Span(SubSeq(recorded, 1, n), i)) :
                                                   i \in Yields(strong)} :
                                         Unknown \notin s /\ s # {axis})
    <3>1. ASSUME NEW i \in Yields(strong),
                 Unknown \notin Recorded(Span(SubSeq(recorded, 1, n), i))
          PROVE  Recorded(Span(SubSeq(recorded, 1, n), i)) = {axis}
      BY <2>2, <2>6, <3>1, FiledOfDriven
    <3> QED BY <2>2, <2>6, <3>1
  <2> QED BY <2>4, <2>5, <2>6
<1>3. CASE Lose \/ Select \/ Speed \/ UNCHANGED chainVars
  <2>1. foreign' = foreign /\ extensions' = extensions
    BY <1>3 DEF Lose, Select, Speed, OnSpeed, SpeedExpires, chainVars, vars, timeline
  <2> QED BY <2>1 DEF RecordedOK, Unextended, Legs, Axes
<1> QED BY <1>1, <1>2, <1>3 DEF ChainNext

LEMMA RecordedNext ==
  ASSUME RecordedOK, [ChainNext]_chainVars
  PROVE  RecordedOK'
<1>1. [Next]_vars
  BY ChainStep
<1>2. ChainOK'
  BY ChainOKNext DEF RecordedOK
<1>3. AxisDriven'
  BY <1>1, AxisNext DEF RecordedOK
<1>4. (Unextended => Followed)'
  BY <1>1, FollowedNext DEF RecordedOK, ChainOK
<1>5. Recent'
  <2>1. CASE Tick \/ Hear \/ Lose
    BY <1>2, <2>1, RecentTick, RecentHear, RecentLose DEF RecordedOK
  <2>2. CASE Select \/ Speed \/ UNCHANGED chainVars
    <3>1. UNCHANGED <<past, samples, recorded, driven, held>>
      BY <2>2 DEF Select, SelectCarrier, Speed, OnSpeed, SpeedExpires, chainVars, vars, history,
                  estimatorVars
    <3> QED BY <3>1 DEF RecordedOK, Recent, Audio
  <2> QED BY <2>1, <2>2 DEF ChainNext
<1>6. (Unextended => foreign = FALSE)'
  BY ForeignNext
<1> QED BY <1>2, <1>3, <1>4, <1>5, <1>6 DEF RecordedOK

\* Unless a leg was extended, no delta is filed under an axis that was not driven while all
\* of its audio was recorded, for every window, hop and latency that the sample delay in a
\* gap outlasts.
THEOREM RecordedAlways == ChainSpec => []RecordedUnderFiled
<1>1. ChainInit => RecordedOK
  <2> SUFFICES ASSUME ChainInit PROVE RecordedOK
    OBVIOUS
  <2>1. ChainOK /\ AxisDriven /\ Followed /\ foreign = FALSE
    BY ChainOKInit, AxisInit DEF ChainInit, Init, Followed
  <2>2. Recent
    <3>1. Len(Audio) \in Nat /\ held = 0
      BY <2>1, AudioIs DEF AudioShape, ChainInit, Init
    <3> QED BY <3>1 DEF Recent
  <2> QED BY <2>1, <2>2 DEF RecordedOK
<1>2. RecordedOK /\ [ChainNext]_chainVars => RecordedOK'
  BY RecordedNext
<1>3. RecordedOK => RecordedUnderFiled
  BY DEF RecordedOK, RecordedUnderFiled, Unextended
<1> QED BY <1>1, <1>2, <1>3, PTL DEF ChainSpec

=============================================================================
