------------------------- MODULE PhaseProbe_proofs --------------------------
(***************************************************************************)
(* Proofs about PhaseProbe for every choice of durations.                  *)
(***************************************************************************)
EXTENDS PhaseProbe, TLAPS

\* An extension leaves no leg beyond the maximum, whether or not it is a multiple of
\* the extension.
LEMMA ExtendOK ==
  ASSUME NEW extension \in 0..MaxExtension
  PROVE  extension + Extend(extension) \in 0..MaxExtension
BY DurationsAssumption DEF Extend

LEMMA TypeInit == Init => TypeOK
<1> SUFFICES ASSUME Init PROVE TypeOK
  OBVIOUS
<1>1. /\ probing \in BOOLEAN /\ elapsed \in Nat
      /\ axis \in PatternAxes /\ active \in Legs \cup {0} /\ sampling \in BOOLEAN
      /\ driven \in PatternAxes /\ speedFresh \in BOOLEAN /\ moving \in BOOLEAN
      /\ misfiled \in BOOLEAN /\ rushed \in BOOLEAN
  BY DEF Init, PatternAxes
<1>2. 0 \in 0..MaxExtension /\ 0 \in 0..Leg
  BY DurationsAssumption
<1>3. extensions \in [Legs -> 0..MaxExtension] /\ held \in 0..Leg /\ ticks \in [Legs -> 0..Leg]
  BY <1>2 DEF Init
<1> QED
  BY <1>1, <1>3 DEF TypeOK

LEMMA DriveOK ==
  ASSUME TypeOK, NEW next \in PatternAxes, Drive(next)
  PROVE  driven' \in PatternAxes /\ held' \in 0..Leg
BY DurationsAssumption DEF Drive, TypeOK

LEMMA DriveLegOK ==
  ASSUME TypeOK, NEW i \in Legs, DriveLeg(i)
  PROVE  /\ driven' \in PatternAxes /\ held' \in 0..Leg
         /\ axis' \in PatternAxes /\ active' \in Legs \cup {0} /\ ticks' \in [Legs -> 0..Leg]
<1>1. Axes[i] \in PatternAxes
  BY DEF PatternAxes
<1>2. driven' \in PatternAxes /\ held' \in 0..Leg
  BY <1>1, DriveOK DEF DriveLeg
<1>3. ticks' \in [Legs -> 0..Leg]
  BY DurationsAssumption DEF DriveLeg, TypeOK
<1> QED
  BY <1>1, <1>2, <1>3 DEF DriveLeg

LEMMA NeutralOK == 0 \in PatternAxes
BY DEF PatternAxes

LEMMA StartProbeOK ==
  ASSUME StartProbe
  PROVE  /\ probing' \in BOOLEAN /\ elapsed' \in Nat
         /\ extensions' \in [Legs -> 0..MaxExtension]
         /\ axis' \in PatternAxes /\ active' \in Legs \cup {0} /\ sampling' \in BOOLEAN
         /\ ticks' \in [Legs -> 0..Leg]
         /\ misfiled' \in BOOLEAN /\ rushed' \in BOOLEAN
<1>1. 0 \in 0..MaxExtension /\ 0 \in 0..Leg
  BY DurationsAssumption
<1> QED
  BY <1>1, NeutralOK DEF StartProbe

LEMMA TypeNext ==
  ASSUME TypeOK, [Next]_vars
  PROVE  TypeOK'
<1>1. CASE TickSettle \/ TickGap
  <2>1. /\ axis' = 0 /\ Drive(0)
        /\ UNCHANGED <<probing, sensed, extensions, active, ticks, misfiled, rushed>>
    BY <1>1 DEF TickSettle, TickGap, Goes, GapIsNeutral
  <2>2. elapsed' \in Nat
    BY <1>1 DEF TickSettle, TickGap, Goes, TypeOK
  <2>3. sampling' \in BOOLEAN
    <3>1. CASE TickSettle
      BY <3>1 DEF TickSettle
    <3>2. CASE TickGap
      <4>1. PICK i \in Legs : sampling' = GapSettled(i, elapsed')
        BY <3>2 DEF TickGap
      <4> QED
        BY <4>1 DEF GapSettled
    <3> QED
      BY <1>1, <3>1, <3>2
  <2> QED
    BY <2>1, <2>2, <2>3, NeutralOK, DriveOK DEF TypeOK, sensed
<1>2. CASE TickLeg
  <2>1. PICK i \in Legs :
          /\ Goes /\ DriveLeg(i)
          /\ sampling' = (elapsed' - Begin[i] >= SampleDelay /\ ~Slow)
          /\ UNCHANGED <<extensions, misfiled, rushed>>
    BY <1>2 DEF TickLeg
  <2>2. elapsed' \in Nat /\ sampling' \in BOOLEAN /\ UNCHANGED <<probing, sensed>>
    BY <2>1 DEF Goes, TypeOK
  <2> QED
    BY <2>1, <2>2, DriveLegOK DEF TypeOK, sensed
<1>3. CASE TickExtend
  <2>1. PICK i \in Legs :
          /\ Goes /\ DriveLeg(i)
          /\ extensions' = [extensions EXCEPT ![i] = @ + Extend(@)]
          /\ sampling' = FALSE /\ UNCHANGED <<misfiled, rushed>>
    BY <1>3 DEF TickExtend
  <2>2. extensions' \in [Legs -> 0..MaxExtension]
    BY <2>1, ExtendOK DEF TypeOK
  <2>3. elapsed' \in Nat /\ UNCHANGED <<probing, sensed>>
    BY <2>1 DEF Goes, TypeOK
  <2> QED
    BY <2>1, <2>2, <2>3, DriveLegOK DEF TypeOK, sensed
<1>4. CASE TickAccept \/ TickBlocked
  <2>1. /\ axis' = 0 /\ Drive(0)
        /\ UNCHANGED <<sensed, extensions, active, ticks, misfiled, rushed>>
    BY <1>4 DEF TickAccept, TickBlocked
  <2>2. elapsed' \in Nat
    BY <1>4 DEF TickAccept, TickBlocked, TypeOK
  <2>3. probing' \in BOOLEAN /\ sampling' \in BOOLEAN
    BY <1>4, Zenon DEF TickAccept, TickBlocked, TypeOK
  <2> QED
    BY <2>1, <2>2, <2>3, NeutralOK, DriveOK DEF TypeOK, sensed
<1>5. CASE TickRepeat \/ TickStart
  <2>1. StartProbe /\ Drive(0) /\ UNCHANGED sensed
    BY <1>5 DEF TickRepeat, TickStart
  <2> QED
    BY <2>1, NeutralOK, DriveOK, StartProbeOK DEF TypeOK, sensed
<1>6. CASE OnDeltaRange
  BY <1>6 DEF OnDeltaRange, TypeOK, timeline, sensed
<1>7. CASE OnSpeed \/ SpeedExpires
  BY <1>7 DEF OnSpeed, SpeedExpires, TypeOK, timeline, history
<1>8. CASE UNCHANGED vars
  BY <1>8 DEF TypeOK, vars, timeline, sensed, history
<1> QED
  BY <1>1, <1>2, <1>3, <1>4, <1>5, <1>6, <1>7, <1>8 DEF Next, ControlTick

\* Every reachable state is well typed: however long the vehicle stays slow, no leg is
\* extended past its maximum.
THEOREM TypeCorrect == Spec => []TypeOK
<1> QED
  BY TypeInit, TypeNext, PTL DEF Spec

-----------------------------------------------------------------------------

\* Between two ticks the axis to file under is the one that is driven.
AxisDriven == (probing => axis = driven) /\ ~misfiled

LEMMA AxisInit == Init => AxisDriven
BY DEF Init, AxisDriven

LEMMA AxisNext ==
  ASSUME AxisDriven, [Next]_vars
  PROVE  AxisDriven'
<1> USE DEF AxisDriven
<1>1. CASE TickSettle \/ TickGap
  BY <1>1 DEF TickSettle, TickGap, GapIsNeutral, Drive
<1>2. CASE TickLeg \/ TickExtend
  BY <1>2 DEF TickLeg, TickExtend, DriveLeg, Drive
<1>3. CASE TickAccept \/ TickBlocked
  BY <1>3 DEF TickAccept, TickBlocked
<1>4. CASE TickRepeat \/ TickStart
  BY <1>4 DEF TickRepeat, TickStart, StartProbe, Drive
<1>5. CASE OnDeltaRange
  BY <1>5 DEF OnDeltaRange, timeline
<1>6. CASE OnSpeed \/ SpeedExpires \/ UNCHANGED vars
  BY <1>6 DEF OnSpeed, SpeedExpires, vars, timeline, history
<1> QED
  BY <1>1, <1>2, <1>3, <1>4, <1>5, <1>6 DEF Next, ControlTick

\* Every delta of the pattern is filed under the axis driven when it came, with every
\* extension, outage and repetition in between.
THEOREM FiledAlways == Spec => []FiledUnderDriven
<1>1. AxisDriven => FiledUnderDriven
  BY DEF AxisDriven, FiledUnderDriven
<1> QED
  BY <1>1, AxisInit, AxisNext, PTL DEF Spec

-----------------------------------------------------------------------------
(* The timeline *)

\* Begin as a function of the extensions, so that it can be spoken of before and after
\* a step.
BeginOf(e) ==
  LET begin[i \in Legs] ==
        IF i = 1 THEN Settle ELSE begin[i - 1] + Leg + e[i - 1] + Neutral
  IN begin
EndOf(e, i) == BeginOf(e)[i] + Leg + e[i]

Extensions == [Legs -> 0..MaxExtension]

LEMMA BeginIs ==
  /\ Begin = BeginOf(extensions) /\ Begin' = BeginOf(extensions')
  /\ \A i : End(i) = EndOf(extensions, i) /\ End(i)' = EndOf(extensions', i)
<1>1. Begin = BeginOf(extensions) /\ Begin' = BeginOf(extensions')
  BY DEF Begin, BeginOf
<1> QED
  BY <1>1 DEF End, EndOf

LEMMA LegsOK ==
  /\ Legs = 1..Len(Axes) /\ Len(Axes) \in {8, 12}
  /\ 1 \in Legs /\ Len(Axes) \in Legs
  /\ \A i \in Legs : i \in Nat /\ Axes[i] \in {-3, -2, -1, 1, 2, 3}
<1>1. CASE HorizontalOnly
  BY <1>1 DEF Legs, Axes
<1>2. CASE ~HorizontalOnly
  BY <1>2 DEF Legs, Axes
<1> QED
  BY <1>1, <1>2

\* What holds for the first leg and passes on from each leg to the next holds for all.
LEMMA LegInduction ==
  ASSUME NEW S, 1 \in S, \A i \in Legs : i \in S /\ i + 1 \in Legs => i + 1 \in S
  PROVE  \A i \in Legs : i \in S
<1>1. CASE Legs = 1..8
  <2>1. 2 \in S /\ 3 \in S /\ 4 \in S /\ 5 \in S /\ 6 \in S /\ 7 \in S /\ 8 \in S
    BY <1>1
  <2> QED
    BY <1>1, <2>1
<1>2. CASE Legs = 1..12
  <2>1. 2 \in S /\ 3 \in S /\ 4 \in S /\ 5 \in S /\ 6 \in S /\ 7 \in S /\ 8 \in S
    BY <1>2
  <2>2. 9 \in S /\ 10 \in S /\ 11 \in S /\ 12 \in S
    BY <1>2, <2>1
  <2> QED
    BY <1>2, <2>1, <2>2
<1> QED
  BY <1>1, <1>2, LegsOK

\* The recursion of BeginOf has a solution, so it is one.
LEMMA BeginRecursion ==
  ASSUME NEW e \in Extensions
  PROVE  BeginOf(e) = [i \in Legs |-> IF i = 1 THEN Settle
                                      ELSE BeginOf(e)[i - 1] + Leg + e[i - 1] + Neutral]
<1> DEFINE Step(f) == [i \in Legs |-> IF i = 1 THEN Settle
                                      ELSE f[i - 1] + Leg + e[i - 1] + Neutral]
           Solves(f, n) == \A i \in Legs : i <= n =>
                             f[i] = IF i = 1 THEN Settle
                                    ELSE f[i - 1] + Leg + e[i - 1] + Neutral
           Solved == {n \in Legs : \E f \in [Legs -> Int] : Solves(f, n)}
<1>1. 1 \in Solved
  <2>1. [i \in Legs |-> Settle] \in [Legs -> Int]
    BY DurationsAssumption
  <2>2. Solves([i \in Legs |-> Settle], 1)
    BY LegsOK
  <2>3. 1 \in Legs
    BY LegsOK
  <2> HIDE DEF Solves
  <2> QED
    BY <2>1, <2>2, <2>3
<1>2. ASSUME NEW n \in Legs, n \in Solved, n + 1 \in Legs
      PROVE  n + 1 \in Solved
  <2>1. PICK f \in [Legs -> Int] : Solves(f, n)
    BY <1>2
  <2> DEFINE g == [f EXCEPT ![n + 1] = f[n] + Leg + e[n] + Neutral]
  <2>2. f[n] + Leg + e[n] + Neutral \in Int
    BY <2>1, DurationsAssumption DEF Extensions
  <2>3. g \in [Legs -> Int]
    BY <2>1, <2>2
  <2>4. ASSUME NEW i \in Legs, i <= n + 1
        PROVE  g[i] = IF i = 1 THEN Settle ELSE g[i - 1] + Leg + e[i - 1] + Neutral
    <3>1. CASE i = n + 1
      <4>1. i # 1 /\ i - 1 = n /\ n # n + 1
        BY <3>1, LegsOK
      <4>2. g[i] = f[n] + Leg + e[n] + Neutral /\ g[i - 1] = f[n]
        BY <1>2, <3>1, <4>1
      <4> QED
        BY <4>1, <4>2
    <3>2. CASE i # n + 1
      <4>1. i <= n /\ i - 1 # n + 1 /\ (i = 1 \/ i - 1 \in Legs)
        BY <2>4, <3>2, LegsOK
      <4>2. g[i] = f[i] /\ (i # 1 => g[i - 1] = f[i - 1])
        BY <3>2, <4>1
      <4> QED
        BY <2>1, <4>1, <4>2
    <3> QED
      BY <3>1, <3>2
  <2> QED
    BY <1>2, <2>3, <2>4
<1>3. \A n \in Legs : n \in Solved
  <2> HIDE DEF Solved
  <2> QED
    BY <1>1, <1>2, LegInduction
<1>4. PICK f \in [Legs -> Int] : Solves(f, Len(Axes))
  <2>1. Len(Axes) \in Legs
    BY LegsOK
  <2> HIDE DEF Solves
  <2> QED
    BY <1>3, <2>1
<1>5. f = Step(f)
  BY <1>4, LegsOK
<1>6. BeginOf(e) = CHOOSE g : g = Step(g)
  BY DEF BeginOf
<1> HIDE DEF Step
<1>7. BeginOf(e) = Step(BeginOf(e))
  BY <1>5, <1>6
<1> QED
  BY <1>7 DEF Step

\* The legs follow each other with their gaps between them.
LEMMA BeginsInOrder ==
  ASSUME NEW e \in Extensions
  PROVE  /\ \A i \in Legs : BeginOf(e)[i] \in Nat /\ e[i] \in Nat
         /\ BeginOf(e)[1] = Settle
         /\ \A i \in Legs : i + 1 \in Legs => BeginOf(e)[i + 1] = EndOf(e, i) + Neutral
         /\ \A i, j \in Legs : i < j => EndOf(e, i) + Neutral <= BeginOf(e)[j]
<1> DEFINE b == BeginOf(e)
<1>1. \A i \in Legs : e[i] \in Nat
  BY DurationsAssumption DEF Extensions
<1>2. 1 \in Legs /\ b[1] = Settle
  BY LegsOK, BeginRecursion
<1>3. ASSUME NEW i \in Legs, i + 1 \in Legs
      PROVE  b[i + 1] = b[i] + Leg + e[i] + Neutral
  <2>1. i + 1 # 1 /\ (i + 1) - 1 = i
    BY LegsOK
  <2> QED
    BY <1>3, <2>1, BeginRecursion
<1> HIDE DEF b
<1>4. \A i \in Legs : b[i] \in Nat
  <2> DEFINE S == {i \in Legs : b[i] \in Nat}
  <2>1. 1 \in S
    BY <1>2, DurationsAssumption
  <2>2. \A i \in Legs : i \in S /\ i + 1 \in Legs => i + 1 \in S
    BY <1>1, <1>3, DurationsAssumption
  <2> HIDE DEF S
  <2>3. \A i \in Legs : i \in S
    BY <2>1, <2>2, LegInduction
  <2> QED
    BY <2>3 DEF S
<1>5. ASSUME NEW i \in Legs
      PROVE  \A j \in Legs : i < j => b[i] + Leg + e[i] + Neutral <= b[j]
  <2> DEFINE S == {j \in Legs : i < j => b[i] + Leg + e[i] + Neutral <= b[j]}
  <2>1. 1 \in S
    BY LegsOK
  <2>2. ASSUME NEW j \in Legs, j \in S, j + 1 \in Legs
        PROVE  j + 1 \in S
    <3>1. /\ b[j + 1] = b[j] + Leg + e[j] + Neutral
          /\ b[i] \in Nat /\ b[j] \in Nat /\ e[i] \in Nat /\ e[j] \in Nat
      BY <1>1, <1>3, <1>4, <2>2
    <3>2. i < j + 1 => i < j \/ i = j
      BY LegsOK
    <3>3. i < j + 1 => b[i] + Leg + e[i] + Neutral <= b[j + 1]
      BY <2>2, <3>1, <3>2, DurationsAssumption
    <3> QED
      BY <2>2, <3>3
  <2> HIDE DEF S
  <2>3. \A j \in Legs : j \in S
    BY <2>1, <2>2, LegInduction
  <2> QED
    BY <2>3 DEF S
<1> QED
  BY <1>1, <1>2, <1>3, <1>4, <1>5 DEF b, EndOf

\* More time for leg i delays the legs after it and no other.
LEMMA ExtensionShifts ==
  ASSUME NEW e \in Extensions, NEW i \in Legs, NEW x \in Nat, e[i] + x <= MaxExtension
  PROVE  LET longer == [e EXCEPT ![i] = @ + x]
         IN /\ longer \in Extensions
            /\ \A j \in Legs :
                 BeginOf(longer)[j] = BeginOf(e)[j] + (IF i < j THEN x ELSE 0)
<1> DEFINE longer == [e EXCEPT ![i] = @ + x]
           b == BeginOf(e)
           c == BeginOf(longer)
           Delay(j) == IF i < j THEN x ELSE 0
           S == {j \in Legs : c[j] = b[j] + Delay(j)}
<1>1. longer \in Extensions
  BY DurationsAssumption DEF Extensions
<1>2. \A j \in Legs : e[j] \in Nat /\ longer[j] = e[j] + (IF j = i THEN x ELSE 0)
  BY DurationsAssumption DEF Extensions
<1>3. /\ \A j \in Legs : b[j] \in Nat /\ c[j] \in Nat
      /\ b[1] = Settle /\ c[1] = Settle
  BY <1>1, BeginsInOrder
<1>4. ASSUME NEW j \in Legs, j + 1 \in Legs
      PROVE  /\ b[j + 1] = b[j] + Leg + e[j] + Neutral
             /\ c[j + 1] = c[j] + Leg + longer[j] + Neutral
  BY <1>1, <1>4, BeginsInOrder DEF EndOf
<1> HIDE DEF b, c, longer
<1>5. 1 \in S
  BY <1>3, LegsOK, DurationsAssumption
<1>6. ASSUME NEW j \in Legs, j \in S, j + 1 \in Legs
      PROVE  j + 1 \in S
  <2>1. Delay(j + 1) = Delay(j) + (IF j = i THEN x ELSE 0)
    BY LegsOK
  <2>2. Delay(j) \in Nat
    OBVIOUS
  <2>3. c[j] = b[j] + Delay(j)
    BY <1>6
  <2> HIDE DEF Delay
  <2>4. c[j + 1] = b[j + 1] + Delay(j + 1)
    BY <1>2, <1>3, <1>4, <1>6, <2>1, <2>2, <2>3, DurationsAssumption
  <2> QED
    BY <1>6, <2>4
<1> HIDE DEF S
<1>7. \A j \in Legs : j \in S
  BY <1>5, <1>6, LegInduction
<1> QED
  BY <1>1, <1>7 DEF b, c, longer, S

-----------------------------------------------------------------------------
(* The pattern on its timeline *)

LEMMA TimelineOK ==
  ASSUME TypeOK
  PROVE  /\ extensions \in Extensions
         /\ \A i \in Legs : /\ Begin[i] \in Nat /\ extensions[i] \in Nat
                            /\ End(i) = Begin[i] + Leg + extensions[i]
                            /\ i + 1 \in Legs => Begin[i + 1] = End(i) + Neutral
         /\ Begin[1] = Settle
         /\ \A i, j \in Legs : i < j => End(i) + Neutral <= Begin[j]
<1>1. extensions \in Extensions
  BY DEF TypeOK, Extensions
<1> QED
  BY <1>1, BeginIs, BeginsInOrder DEF EndOf

\* A tick that leaves the extensions alone leaves the timeline alone.
LEMMA TimelineKept ==
  ASSUME UNCHANGED extensions
  PROVE  UNCHANGED Begin /\ \A i : UNCHANGED End(i)
BY BeginIs

\* A tick that extends leg i moves the end of that leg and all that follows.
LEMMA TimelineMoves ==
  ASSUME TypeOK, NEW i \in Legs, extensions[i] < MaxExtension,
         extensions' = [extensions EXCEPT ![i] = @ + Extend(@)]
  PROVE  \E x \in Nat \ {0} :
           \A j \in Legs : /\ Begin'[j] = Begin[j] + (IF i < j THEN x ELSE 0)
                           /\ End(j)' = End(j) + (IF i <= j THEN x ELSE 0)
<1> DEFINE x == Extend(extensions[i])
<1>1. extensions \in Extensions /\ extensions[i] \in 0..MaxExtension
  BY DEF TypeOK, Extensions
<1>2. x \in Nat \ {0} /\ extensions[i] + x <= MaxExtension
  BY <1>1, DurationsAssumption DEF Extend
<1> HIDE DEF x
<1>3. extensions' = [extensions EXCEPT ![i] = @ + x]
  BY DEF x
<1>4. /\ extensions' \in Extensions
      /\ \A j \in Legs : Begin'[j] = Begin[j] + (IF i < j THEN x ELSE 0)
  <2>1. LET longer == [extensions EXCEPT ![i] = @ + x]
        IN /\ longer \in Extensions
           /\ \A j \in Legs :
                BeginOf(longer)[j] = BeginOf(extensions)[j] + (IF i < j THEN x ELSE 0)
    BY <1>1, <1>2, ExtensionShifts
  <2> QED
    BY <1>3, <2>1, BeginIs
<1>5. ASSUME NEW j \in Legs
      PROVE  End(j)' = End(j) + (IF i <= j THEN x ELSE 0)
  <2>1. End(j) = Begin[j] + Leg + extensions[j] /\ End(j)' = Begin'[j] + Leg + extensions'[j]
    BY BeginIs DEF EndOf
  <2>2. Begin[j] \in Nat /\ extensions[j] \in Nat
    BY TimelineOK
  <2>3. extensions'[j] = extensions[j] + (IF i = j THEN x ELSE 0)
    BY <1>1, <1>2, <1>3, <2>2 DEF Extensions
  <2>4. (i <= j) <=> (i < j \/ i = j)
    BY LegsOK
  <2>5. ~(i < j /\ i = j)
    BY LegsOK
  <2> QED
    BY <1>2, <1>4, <2>1, <2>2, <2>3, <2>4, <2>5, DurationsAssumption
<1> QED
  BY <1>2, <1>4, <1>5

LEMMA EndsInOrder ==
  ASSUME TypeOK, NEW i \in Legs
  PROVE  End(i) <= End(Len(Axes)) /\ End(i) \in Nat /\ Begin[i] + Leg <= End(i)
<1> DEFINE n == Len(Axes)
<1>1. n \in Legs /\ (i = n \/ i < n)
  BY LegsOK
<1> HIDE DEF n
<1>2. \A j \in Legs : /\ Begin[j] \in Nat /\ extensions[j] \in Nat
                      /\ End(j) = Begin[j] + Leg + extensions[j]
  BY TimelineOK
<1>3. i < n => End(i) + Neutral <= Begin[n]
  BY <1>1, TimelineOK
<1> QED
  BY <1>1, <1>2, <1>3, DurationsAssumption DEF n

\* The legs and gaps leave no hole: the pattern is complete behind the last gap.
LEMMA CompleteBehindLast ==
  ASSUME TypeOK, NEW t \in Nat, Complete(t)
  PROVE  End(Len(Axes)) + Neutral <= t
<1> DEFINE S == {i \in Legs : Begin[i] <= t}
<1>1. ASSUME NEW i \in Legs, Begin[i] <= t
      PROVE  End(i) + Neutral <= t
  <2>1. ~InLeg(i, t) /\ ~InGap(i, t)
    BY DEF Complete, StopsAt
  <2> QED
    BY <1>1, <2>1, EndsInOrder, DurationsAssumption DEF InLeg, InGap
<1>2. 1 \in S
  BY LegsOK, TimelineOK DEF Complete
<1>3. \A i \in Legs : i \in S /\ i + 1 \in Legs => i + 1 \in S
  BY <1>1, TimelineOK
<1> HIDE DEF S
<1>4. \A i \in Legs : i \in S
  BY <1>2, <1>3, LegInduction
<1> QED
  BY <1>1, <1>4, LegsOK DEF S

\* The start of a pattern comes before its first leg.
LEMMA StartsEarly ==
  ASSUME StartProbe
  PROVE  /\ elapsed' = 0
         /\ \A i \in Legs : elapsed' < Begin'[i] /\ elapsed' < End(i)'
<1>1. extensions' \in Extensions
  BY DurationsAssumption DEF StartProbe, Extensions
<1>2. /\ \A i \in Legs : Begin'[i] \in Nat /\ extensions'[i] \in Nat
      /\ Begin'[1] = Settle
      /\ \A i \in Legs : End(i)' = Begin'[i] + Leg + extensions'[i]
      /\ \A i, j \in Legs : i < j => End(i)' + Neutral <= Begin'[j]
  BY <1>1, BeginIs, BeginsInOrder DEF EndOf
<1>3. ASSUME NEW i \in Legs
      PROVE  Settle <= Begin'[i]
  <2>1. i = 1 \/ 1 < i
    BY LegsOK
  <2>2. CASE 1 < i
    <3>1. End(1)' = Settle + Leg + extensions'[1] /\ extensions'[1] \in Nat
      BY <1>2, LegsOK
    <3>2. End(1)' + Neutral <= Begin'[i] /\ Begin'[i] \in Nat
      BY <1>2, <2>2, LegsOK
    <3> QED
      BY <3>1, <3>2, DurationsAssumption
  <2>3. CASE i = 1
    BY <1>2, <2>3, DurationsAssumption
  <2> QED
    BY <2>1, <2>2, <2>3
<1>4. elapsed' = 0
  BY DEF StartProbe
<1> QED
  BY <1>2, <1>3, <1>4, DurationsAssumption

\* While the pattern goes on its last gap is ahead.
Bounded ==
  /\ elapsed <= End(Len(Axes)) + Neutral
  /\ probing => elapsed < End(Len(Axes)) + Neutral

LEMMA BoundedNext ==
  ASSUME TypeOK, Bounded, [Next]_vars
  PROVE  Bounded'
<1> DEFINE n == Len(Axes)
<1>1. n \in Legs /\ End(n) \in Nat /\ elapsed \in Nat
  BY LegsOK, EndsInOrder DEF TypeOK
<1>2. Begin[1] = Settle /\ \A i \in Legs : End(i) <= End(n) /\ End(i) \in Nat
  BY EndsInOrder, TimelineOK
<1> HIDE DEF n
<1> USE DEF Bounded
<1>3. CASE TickSettle \/ TickLeg \/ TickGap
  <2>1. elapsed' = elapsed + 1 /\ UNCHANGED <<probing, extensions>>
    BY <1>3 DEF TickSettle, TickLeg, TickGap, Goes
  <2>2. elapsed' < Settle \/ \E i \in Legs : elapsed' < End(i) \/ elapsed' < End(i) + Neutral
    BY <1>3 DEF TickSettle, TickLeg, TickGap, InLeg, InGap
  <2>3. Settle <= End(1) /\ End(1) <= End(n)
    BY <1>2, LegsOK, EndsInOrder, DurationsAssumption
  <2>4. elapsed' < End(n) + Neutral
    BY <1>1, <1>2, <2>1, <2>2, <2>3, LegsOK, DurationsAssumption
  <2> QED
    BY <1>1, <2>1, <2>4, TimelineKept, DurationsAssumption DEF n
<1>4. CASE TickExtend
  <2>1. PICK i \in Legs :
          /\ elapsed' = elapsed + 1 /\ probing /\ extensions[i] < MaxExtension
          /\ extensions' = [extensions EXCEPT ![i] = @ + Extend(@)]
    BY <1>4 DEF TickExtend, Goes, Overdue
  <2>2. PICK x \in Nat \ {0} : End(n)' = End(n) + (IF i <= n THEN x ELSE 0)
    BY <1>1, <2>1, TimelineMoves
  <2>3. i <= n
    BY LegsOK DEF n
  <2>4. elapsed' < End(n)' + Neutral
    BY <1>1, <2>1, <2>2, <2>3, DurationsAssumption DEF n
  <2>5. End(n)' \in Nat
    BY <1>1, <2>2, <2>3
  <2> QED
    BY <1>1, <2>1, <2>4, <2>5, DurationsAssumption DEF n
<1>5. CASE TickAccept
  <2>1. elapsed' = elapsed + 1 /\ probing /\ probing' = FALSE /\ UNCHANGED extensions
    BY <1>5 DEF TickAccept
  <2> QED
    BY <1>1, <2>1, TimelineKept, DurationsAssumption DEF n
<1>6. CASE TickRepeat \/ TickStart
  <2>1. StartProbe
    BY <1>6 DEF TickRepeat, TickStart
  <2>2. elapsed' = 0 /\ elapsed' < End(n)'
    BY <1>1, <2>1, StartsEarly
  <2>3. extensions' \in Extensions
    BY <2>1, DurationsAssumption DEF StartProbe, Extensions
  <2>4. End(n)' \in Nat
    BY <1>1, <2>3, BeginIs, BeginsInOrder, DurationsAssumption DEF EndOf
  <2> QED
    BY <2>2, <2>4, DurationsAssumption DEF n
<1>7. CASE TickBlocked
  <2>1. probing' = FALSE /\ UNCHANGED <<elapsed, extensions>>
    BY <1>7 DEF TickBlocked
  <2> QED
    BY <2>1, TimelineKept
<1>8. CASE OnDeltaRange \/ OnSpeed \/ SpeedExpires \/ UNCHANGED vars
  <2>1. UNCHANGED <<probing, elapsed, extensions>>
    BY <1>8 DEF OnDeltaRange, OnSpeed, SpeedExpires, vars, timeline
  <2> QED
    BY <2>1, TimelineKept
<1> QED
  BY <1>3, <1>4, <1>5, <1>6, <1>7, <1>8 DEF Next, ControlTick

LEMMA BoundedInit == Init => Bounded
<1> SUFFICES ASSUME Init PROVE Bounded
  OBVIOUS
<1>1. TypeOK
  BY TypeInit
<1>2. elapsed = 0 /\ ~probing
  BY DEF Init
<1>3. End(Len(Axes)) \in Nat
  BY <1>1, LegsOK, EndsInOrder
<1> QED
  BY <1>2, <1>3, DurationsAssumption DEF Bounded

\* However slow the vehicle stays and however the extensions fall, the pattern is over
\* with its last gap.
THEOREM PatternBoundedAlways == Spec => []PatternBounded
<1>1. Bounded => PatternBounded
  BY DEF Bounded, PatternBounded
<1>2. TypeOK /\ Bounded /\ [Next]_vars => Bounded'
  BY BoundedNext
<1> QED
  BY <1>1, <1>2, BoundedInit, TypeCorrect, PTL DEF Spec

-----------------------------------------------------------------------------
(* Transients *)

Unextended == \A i \in Legs : extensions[i] = 0

\* In a pattern without extensions the vehicle has followed the command of a leg or of
\* a gap ever since that leg or gap began.
Followed ==
  /\ ~rushed
  /\ probing =>
       /\ sampling => held >= Transient(axis)
       /\ \A i \in Legs : /\ InLeg(i, elapsed) =>
                               driven = Axes[i] /\ held >= elapsed - Begin[i]
                          /\ InGap(i, elapsed) =>
                               driven = 0 /\ (held = Leg \/ held >= elapsed - End(i))

\* No moment lies in two legs or gaps.
LEMMA PlacesApart ==
  ASSUME TypeOK, NEW t \in Nat, NEW i \in Legs, NEW j \in Legs,
         InLeg(i, t) \/ InGap(i, t), InLeg(j, t) \/ InGap(j, t)
  PROVE  i = j /\ ~(InLeg(i, t) /\ InGap(j, t))
<1>1. \A k \in Legs : /\ Begin[k] \in Nat /\ End(k) \in Nat /\ Begin[k] <= End(k)
                      /\ InLeg(k, t) => Begin[k] <= t /\ t < End(k)
                      /\ InGap(k, t) => End(k) <= t /\ t < End(k) + Neutral
  BY EndsInOrder, TimelineOK, DurationsAssumption DEF InLeg, InGap
<1>2. ASSUME NEW k \in Legs, NEW m \in Legs, k < m,
             InLeg(k, t) \/ InGap(k, t), InLeg(m, t) \/ InGap(m, t)
      PROVE  FALSE
  <2>1. End(k) + Neutral <= Begin[m]
    BY <1>2, TimelineOK
  <2> QED
    BY <1>1, <1>2, <2>1, DurationsAssumption
<1>3. i < j \/ j < i \/ i = j
  BY LegsOK
<1>4. i = j
  BY <1>2, <1>3
<1> QED
  BY <1>1, <1>4

LEMMA FollowedDriving ==
  ASSUME TypeOK, Unextended, Followed, TickLeg
  PROVE  Followed'
<1>1. PICK i \in Legs :
        /\ probing /\ elapsed' = elapsed + 1 /\ InLeg(i, elapsed')
        /\ axis' = Axes[i] /\ Drive(Axes[i])
        /\ sampling' = (elapsed' - Begin[i] >= SampleDelay /\ ~Slow)
        /\ UNCHANGED <<extensions, rushed>>
  BY DEF TickLeg, Goes, DriveLeg
<1>2. /\ Begin[i] \in Nat /\ End(i) = Begin[i] + Leg /\ elapsed \in Nat
      /\ held \in 0..Leg /\ Axes[i] # 0
  <2>1. Begin[i] \in Nat /\ End(i) = Begin[i] + Leg + extensions[i] /\ extensions[i] = 0
    BY TimelineOK DEF Unextended
  <2>2. elapsed \in Nat /\ held \in 0..Leg
    BY DEF TypeOK
  <2>3. Axes[i] # 0
    BY LegsOK
  <2> QED
    BY <2>1, <2>2, <2>3, DurationsAssumption
<1>3. driven' = Axes[i] /\ held' \in Nat /\ held' >= elapsed' - Begin[i]
  <2>1. driven' = Axes[i] /\ held' \in 0..Leg
    BY <1>1, <1>2, DurationsAssumption DEF Drive
  <2>2. CASE elapsed' = Begin[i]
    BY <1>2, <2>1, <2>2, DurationsAssumption
  <2>3. CASE elapsed' # Begin[i]
    <3>1. InLeg(i, elapsed)
      BY <1>1, <1>2, <2>3, DurationsAssumption DEF InLeg
    <3>2. driven = Axes[i] /\ held >= elapsed - Begin[i]
      BY <1>1, <3>1 DEF Followed
    <3>3. held' = IF held < Leg THEN held + 1 ELSE held
      BY <1>1, <3>2 DEF Drive
    <3>4. elapsed' < Begin[i] + Leg
      BY <1>1, <1>2 DEF InLeg
    <3> QED
      BY <1>1, <1>2, <2>1, <3>2, <3>3, <3>4, DurationsAssumption
  <2> QED
    BY <2>2, <2>3
<1>4. sampling' => held' >= Transient(axis)'
  <2> SUFFICES ASSUME sampling' PROVE held' >= Transient(axis)'
    OBVIOUS
  <2>1. elapsed' - Begin[i] >= SampleDelay
    BY <1>1, Zenon
  <2>2. Transient(axis)' = SampleDelay
    BY <1>1, <1>2 DEF Transient
  <2> QED
    BY <1>1, <1>2, <1>3, <2>1, <2>2, DurationsAssumption
<1>5. ASSUME NEW j \in Legs
      PROVE  /\ InLeg(j, elapsed)' => driven' = Axes[j] /\ held' >= elapsed' - Begin'[j]
             /\ ~InGap(j, elapsed)'
  <2>1. Begin' = Begin /\ End(j)' = End(j)
    BY <1>1, TimelineKept
  <2>2. /\ InLeg(j, elapsed)' => InLeg(j, elapsed')
        /\ InGap(j, elapsed)' => InGap(j, elapsed')
    BY <2>1 DEF InLeg, InGap
  <2>3. elapsed' \in Nat
    BY <1>1, <1>2
  <2>4. /\ InLeg(j, elapsed)' => i = j
        /\ ~InGap(j, elapsed)'
    BY <1>1, <2>2, <2>3, PlacesApart
  <2> QED
    BY <1>3, <2>1, <2>4
<1>6. ~rushed'
  BY <1>1 DEF Followed
<1> QED
  BY <1>4, <1>5, <1>6 DEF Followed

LEMMA FollowedResting ==
  ASSUME TypeOK, Unextended, Followed, TickGap
  PROVE  Followed'
<1>1. PICK i \in Legs :
        /\ probing /\ elapsed' = elapsed + 1 /\ InGap(i, elapsed')
        /\ axis' = 0 /\ Drive(0)
        /\ sampling' = GapSettled(i, elapsed')
        /\ UNCHANGED <<extensions, rushed>>
  BY DEF TickGap, Goes, GapIsNeutral
<1>2. Begin[i] \in Nat /\ End(i) = Begin[i] + Leg /\ elapsed \in Nat /\ held \in 0..Leg
  BY TimelineOK, DurationsAssumption DEF Unextended, TypeOK
<1>3. /\ driven' = 0 /\ held' \in Nat
      /\ held' = Leg \/ held' >= elapsed' - End(i)
  <2>1. driven' = 0 /\ held' \in 0..Leg
    BY <1>1, <1>2, DurationsAssumption DEF Drive
  <2>2. CASE elapsed' = End(i)
    BY <1>2, <2>1, <2>2, DurationsAssumption
  <2>3. CASE elapsed' # End(i)
    <3>1. InGap(i, elapsed)
      BY <1>1, <1>2, <2>3, DurationsAssumption DEF InGap
    <3>2. driven = 0 /\ (held = Leg \/ held >= elapsed - End(i))
      BY <1>1, <3>1 DEF Followed
    <3>3. held' = IF held < Leg THEN held + 1 ELSE held
      BY <1>1, <3>2 DEF Drive
    <3> QED
      BY <1>1, <1>2, <2>1, <3>2, <3>3, DurationsAssumption
  <2> QED
    BY <2>2, <2>3
<1>4. sampling' => held' >= Transient(axis)'
  <2> SUFFICES ASSUME sampling' PROVE held' >= Transient(axis)'
    OBVIOUS
  <2>1. elapsed' - End(i) >= NeutralDelay
    BY <1>1, Zenon DEF GapSettled
  <2>2. Transient(axis)' = NeutralDelay
    BY <1>1 DEF Transient
  <2> QED
    BY <1>1, <1>2, <1>3, <2>1, <2>2, DurationsAssumption
<1>5. ASSUME NEW j \in Legs
      PROVE  /\ ~InLeg(j, elapsed)'
             /\ InGap(j, elapsed)' =>
                  driven' = 0 /\ (held' = Leg \/ held' >= elapsed' - End(j)')
  <2>1. Begin' = Begin /\ End(j)' = End(j)
    BY <1>1, TimelineKept
  <2>2. /\ InLeg(j, elapsed)' => InLeg(j, elapsed')
        /\ InGap(j, elapsed)' => InGap(j, elapsed')
    BY <2>1 DEF InLeg, InGap
  <2>3. elapsed' \in Nat
    BY <1>1, <1>2
  <2>4. /\ ~InLeg(j, elapsed)'
        /\ InGap(j, elapsed)' => i = j
    BY <1>1, <2>2, <2>3, PlacesApart
  <2> QED
    BY <1>3, <2>1, <2>4
<1>6. ~rushed'
  BY <1>1 DEF Followed
<1> QED
  BY <1>4, <1>5, <1>6 DEF Followed

LEMMA FollowedNext ==
  ASSUME TypeOK, Unextended => Followed, [Next]_vars
  PROVE  (Unextended => Followed)'
<1>1. CASE TickLeg \/ TickGap
  <2>1. UNCHANGED extensions
    BY <1>1 DEF TickLeg, TickGap
  <2> QED
    BY <1>1, <2>1, FollowedDriving, FollowedResting DEF Unextended
<1>2. CASE TickExtend
  <2>1. PICK i \in Legs : /\ extensions[i] < MaxExtension
                          /\ extensions' = [extensions EXCEPT ![i] = @ + Extend(@)]
    BY <1>2 DEF TickExtend, Overdue
  <2>2. extensions \in [Legs -> 0..MaxExtension] /\ extensions[i] \in 0..MaxExtension
    BY DEF TypeOK
  <2>3. extensions'[i] = extensions[i] + Extend(extensions[i])
    BY <2>1, <2>2
  <2>4. extensions'[i] # 0
    BY <2>1, <2>2, <2>3, DurationsAssumption DEF Extend
  <2> QED
    BY <2>4 DEF Unextended
<1>3. CASE TickSettle
  <2>1. /\ elapsed' < Settle /\ sampling' = FALSE /\ UNCHANGED <<extensions, rushed>>
        /\ elapsed' \in Nat
    BY <1>3 DEF TickSettle, Goes, TypeOK
  <2>2. ASSUME NEW i \in Legs
        PROVE  ~InLeg(i, elapsed)' /\ ~InGap(i, elapsed)'
    <3>1. Begin' = Begin /\ End(i)' = End(i)
      BY <2>1, TimelineKept
    <3>2. i = 1 \/ 1 < i
      BY LegsOK
    <3>3. Begin[1] = Settle /\ (1 < i => End(1) + Neutral <= Begin[i])
      BY LegsOK, TimelineOK
    <3>4. Settle <= Begin[i] /\ Begin[i] <= End(i) /\ Begin[i] \in Nat /\ End(i) \in Nat
      <4>1. Begin[1] + Leg <= End(1) /\ End(1) \in Nat /\ Begin[i] + Leg <= End(i)
            /\ End(i) \in Nat /\ Begin[i] \in Nat
        BY LegsOK, EndsInOrder, TimelineOK
      <4> QED
        BY <3>2, <3>3, <4>1, DurationsAssumption
    <3> QED
      BY <2>1, <3>1, <3>4, DurationsAssumption DEF InLeg, InGap
  <2> QED
    BY <2>1, <2>2 DEF Unextended, Followed
<1>4. CASE TickAccept \/ TickBlocked
  <2>1. probing' = FALSE /\ UNCHANGED <<extensions, rushed>>
    BY <1>4 DEF TickAccept, TickBlocked
  <2> QED
    BY <2>1 DEF Unextended, Followed
<1>5. CASE TickRepeat \/ TickStart
  <2>1. StartProbe
    BY <1>5 DEF TickRepeat, TickStart
  <2>2. sampling' = FALSE /\ rushed' = FALSE
    BY <2>1 DEF StartProbe
  <2>3. \A i \in Legs : ~InLeg(i, elapsed)' /\ ~InGap(i, elapsed)'
    <3> SUFFICES ASSUME NEW i \in Legs PROVE ~InLeg(i, elapsed)' /\ ~InGap(i, elapsed)'
      OBVIOUS
    <3>1. elapsed' = 0 /\ elapsed' < Begin'[i] /\ elapsed' < End(i)'
      BY <2>1, StartsEarly
    <3>2. extensions' \in Extensions
      BY <2>1, DurationsAssumption DEF StartProbe, Extensions
    <3>3. Begin'[i] \in Nat /\ End(i)' \in Nat
      BY <3>2, BeginIs, BeginsInOrder, DurationsAssumption DEF EndOf
    <3> QED
      BY <3>1, <3>3 DEF InLeg, InGap
  <2> QED
    BY <2>2, <2>3 DEF Followed
<1>6. CASE OnDeltaRange
  <2>1. /\ probing /\ sampling
        /\ rushed' = (rushed \/ held < Transient(axis))
        /\ UNCHANGED <<probing, elapsed, extensions, axis, sampling, driven, held>>
    BY <1>6 DEF OnDeltaRange, timeline
  <2>2. held \in Nat /\ Transient(axis) \in Nat
    BY DurationsAssumption DEF Transient, TypeOK
  <2>3. CASE Unextended
    <3>1. held >= Transient(axis) /\ ~rushed
      BY <2>1, <2>3 DEF Followed
    <3>2. ~(held < Transient(axis))
      BY <2>2, <3>1
    <3>3. ~rushed'
      BY <2>1, <3>1, <3>2, Zenon
    <3>4. Transient(axis)' = Transient(axis)
      BY <2>1 DEF Transient
    <3>5. \A i \in Legs : UNCHANGED <<InLeg(i, elapsed), InGap(i, elapsed), Begin, End(i)>>
      BY <2>1, TimelineKept DEF InLeg, InGap
    <3> QED
      BY <2>1, <2>3, <3>3, <3>4, <3>5 DEF Followed
  <2> QED
    BY <2>1, <2>3 DEF Unextended
<1>7. CASE OnSpeed \/ SpeedExpires \/ UNCHANGED vars
  <2>1. UNCHANGED <<probing, elapsed, extensions, axis, sampling, driven, held, rushed>>
    BY <1>7 DEF OnSpeed, SpeedExpires, vars, timeline, history
  <2>2. Transient(axis)' = Transient(axis)
    BY <2>1 DEF Transient
  <2>3. \A i \in Legs : UNCHANGED <<InLeg(i, elapsed), InGap(i, elapsed), Begin, End(i)>>
    BY <2>1, TimelineKept DEF InLeg, InGap
  <2> QED
    BY <2>1, <2>2, <2>3 DEF Unextended, Followed
<1> QED
  BY <1>1, <1>2, <1>3, <1>4, <1>5, <1>6, <1>7 DEF Next, ControlTick

\* Unless a leg was extended, no delta is filed before the vehicle has followed the
\* command for the sample delay, in every leg and in every gap.
THEOREM TransientsAlways == Spec => []TransientsDiscarded
<1>1. Init => (Unextended => Followed)
  BY DEF Init, Followed
<1>2. TypeOK /\ (Unextended => Followed) /\ [Next]_vars => (Unextended => Followed)'
  BY FollowedNext
<1>3. (Unextended => Followed) => TransientsDiscarded
  BY DEF Unextended, Followed, TransientsDiscarded
<1> QED
  BY <1>1, <1>2, <1>3, TypeCorrect, PTL DEF Spec

-----------------------------------------------------------------------------
(* Complete legs *)

\* As long as the pattern goes on, a leg has been driven at each of the ticks that have
\* passed since it began, as many as it has.  An extension takes the legs after it back
\* in time, never on.
DrivenSoFar ==
  probing =>
    \A j \in Legs : Begin[j] <= elapsed => ticks[j] = Leg \/ ticks[j] > elapsed - Begin[j]

\* When a moment of leg i or behind it comes, the legs before leg i are complete.
LEMMA DrivenBefore ==
  ASSUME TypeOK, DrivenSoFar, probing, NEW i \in Legs, NEW j \in Legs, j < i,
         Begin[i] <= elapsed + 1
  PROVE  ticks[j] = Leg
<1>1. End(j) + Neutral <= Begin[i]
  BY TimelineOK
<1>2. Begin[j] + Leg <= End(j) /\ Begin[j] \in Nat /\ End(j) \in Nat /\ Begin[i] \in Nat
  BY EndsInOrder, TimelineOK
<1>3. elapsed \in Nat /\ ticks[j] \in 0..Leg
  BY DEF TypeOK
<1>4. Begin[j] <= elapsed /\ elapsed - Begin[j] >= Leg
  BY <1>1, <1>2, <1>3, DurationsAssumption
<1> QED
  BY <1>2, <1>3, <1>4, DurationsAssumption DEF DrivenSoFar

\* A leg that has ended is complete.
LEMMA DrivenBehind ==
  ASSUME TypeOK, DrivenSoFar, probing, NEW i \in Legs, End(i) <= elapsed + 1
  PROVE  ticks[i] = Leg
<1>1. Begin[i] + Leg <= End(i) /\ Begin[i] \in Nat /\ End(i) \in Nat
  BY EndsInOrder, TimelineOK
<1>2. elapsed \in Nat /\ ticks[i] \in 0..Leg
  BY DEF TypeOK
<1>3. Begin[i] <= elapsed /\ elapsed - Begin[i] >= Leg - 1
  BY <1>1, <1>2, DurationsAssumption
<1> QED
  BY <1>1, <1>2, <1>3, DurationsAssumption DEF DrivenSoFar

LEMMA DrivenNext ==
  ASSUME TypeOK, DrivenSoFar, [Next]_vars
  PROVE  DrivenSoFar'
<1>0. /\ elapsed \in Nat /\ \A j \in Legs : ticks[j] \in 0..Leg
      /\ \A j \in Legs : Begin[j] \in Nat /\ End(j) \in Nat /\ Begin[j] + Leg <= End(j)
  BY EndsInOrder, TimelineOK DEF TypeOK
<1>1. CASE TickLeg
  <2>1. PICK i \in Legs :
          /\ probing /\ elapsed' = elapsed + 1 /\ InLeg(i, elapsed')
          /\ ticks' = [ticks EXCEPT ![i] = IF @ < Leg THEN @ + 1 ELSE @]
          /\ UNCHANGED extensions
    BY <1>1 DEF TickLeg, Goes, DriveLeg
  <2>2. ASSUME NEW j \in Legs, Begin'[j] <= elapsed'
        PROVE  ticks'[j] = Leg \/ ticks'[j] > elapsed' - Begin'[j]
    <3>1. Begin' = Begin
      BY <2>1, TimelineKept
    <3>2. CASE j = i
      <4>1. ticks'[i] = IF ticks[i] < Leg THEN ticks[i] + 1 ELSE ticks[i]
        BY <2>1 DEF TypeOK
      <4>2. Begin[i] <= elapsed => ticks[i] = Leg \/ ticks[i] > elapsed - Begin[i]
        BY <2>1 DEF DrivenSoFar
      <4>3. ticks[i] \in 0..Leg /\ Begin[i] \in Nat
        BY <1>0
      <4> QED
        BY <1>0, <2>1, <2>2, <3>1, <3>2, <4>1, <4>2, <4>3, DurationsAssumption
    <3>3. CASE j < i
      <4>1. ticks[j] = Leg
        BY <2>1, <3>3, DrivenBefore DEF InLeg
      <4>2. ticks'[j] = ticks[j]
        BY <2>1, <3>3, LegsOK DEF TypeOK
      <4> QED
        BY <4>1, <4>2
    <3>4. CASE i < j
      <4>1. End(i) + Neutral <= Begin[j] /\ elapsed' < End(i)
        BY <2>1, <3>4, TimelineOK DEF InLeg
      <4> QED
        BY <1>0, <2>1, <2>2, <3>1, <4>1, DurationsAssumption
    <3>5. j = i \/ j < i \/ i < j
      BY LegsOK
    <3> QED
      BY <3>2, <3>3, <3>4, <3>5
  <2> QED
    BY <2>2 DEF DrivenSoFar
<1>2. CASE TickExtend
  <2>1. PICK i \in Legs :
          /\ probing /\ elapsed' = elapsed + 1
          /\ extensions[i] < MaxExtension /\ End(i) <= elapsed'
          /\ extensions' = [extensions EXCEPT ![i] = @ + Extend(@)]
          /\ ticks' = [ticks EXCEPT ![i] = IF @ < Leg THEN @ + 1 ELSE @]
    BY <1>2 DEF TickExtend, Goes, DriveLeg, Overdue
  <2>2. PICK x \in Nat \ {0} : \A j \in Legs : Begin'[j] = Begin[j] + (IF i < j THEN x ELSE 0)
    BY <2>1, TimelineMoves
  <2>3. ticks[i] = Leg
    BY <2>1, DrivenBehind
  <2>4. ticks' = ticks
    BY <2>1, <2>3, DurationsAssumption DEF TypeOK
  <2>5. ASSUME NEW j \in Legs, Begin'[j] <= elapsed'
        PROVE  ticks'[j] = Leg \/ ticks'[j] > elapsed' - Begin'[j]
    <3>1. CASE j = i
      BY <2>3, <2>4, <3>1
    <3>2. CASE j < i
      <4>1. Begin[i] <= elapsed + 1
        BY <1>0, <2>1, DurationsAssumption
      <4> QED
        BY <2>1, <2>4, <3>2, <4>1, DrivenBefore
    <3>3. CASE i < j
      <4>1. Begin'[j] = Begin[j] + x
        BY <2>2, <3>3
      <4>2. Begin[j] <= elapsed => ticks[j] = Leg \/ ticks[j] > elapsed - Begin[j]
        BY <2>1 DEF DrivenSoFar
      <4>3. ticks[j] \in 0..Leg /\ Begin[j] \in Nat /\ elapsed \in Nat
        BY <1>0
      <4> QED
        BY <2>1, <2>4, <2>5, <4>1, <4>2, <4>3, DurationsAssumption
    <3>4. j = i \/ j < i \/ i < j
      BY LegsOK
    <3> QED
      BY <3>1, <3>2, <3>3, <3>4
  <2> QED
    BY <2>5 DEF DrivenSoFar
<1>3. CASE TickSettle \/ TickGap
  <2>1. probing /\ elapsed' = elapsed + 1 /\ UNCHANGED <<ticks, extensions>>
    BY <1>3 DEF TickSettle, TickGap, Goes
  <2>2. ASSUME NEW j \in Legs, Begin[j] <= elapsed'
        PROVE  ticks[j] = Leg
    <3>1. CASE TickSettle
      <4>1. elapsed' < Settle /\ Begin[1] = Settle
        BY <3>1, TimelineOK DEF TickSettle
      <4>2. j = 1 \/ 1 < j
        BY LegsOK
      <4>3. 1 < j => End(1) + Neutral <= Begin[j]
        BY LegsOK, TimelineOK
      <4> QED
        BY <1>0, <2>1, <2>2, <4>1, <4>2, <4>3, LegsOK, DurationsAssumption
    <3>2. CASE TickGap
      <4>1. PICK i \in Legs : End(i) <= elapsed' /\ elapsed' < End(i) + Neutral
        BY <3>2 DEF TickGap, InGap
      <4>2. CASE j = i
        BY <2>1, <4>1, <4>2, DrivenBehind
      <4>3. CASE j < i
        <5>1. Begin[i] <= elapsed + 1
          BY <1>0, <2>1, <4>1, DurationsAssumption
        <5> QED
          BY <2>1, <4>3, <5>1, DrivenBefore
      <4>4. CASE i < j
        <5>1. End(i) + Neutral <= Begin[j]
          BY <4>4, TimelineOK
        <5> QED
          BY <1>0, <2>1, <2>2, <4>1, <5>1, DurationsAssumption
      <4>5. j = i \/ j < i \/ i < j
        BY LegsOK
      <4> QED
        BY <4>2, <4>3, <4>4, <4>5
    <3> QED
      BY <1>3, <3>1, <3>2
  <2>3. Begin' = Begin
    BY <2>1, TimelineKept
  <2> QED
    BY <2>1, <2>2, <2>3 DEF DrivenSoFar
<1>4. CASE TickAccept \/ TickBlocked
  BY <1>4 DEF TickAccept, TickBlocked, DrivenSoFar
<1>5. CASE TickRepeat \/ TickStart
  <2>1. StartProbe
    BY <1>5 DEF TickRepeat, TickStart
  <2>2. extensions' \in Extensions
    BY <2>1, DurationsAssumption DEF StartProbe, Extensions
  <2>3. \A j \in Legs : elapsed' = 0 /\ elapsed' < Begin'[j] /\ Begin'[j] \in Nat
    BY <2>1, <2>2, StartsEarly, BeginIs, BeginsInOrder
  <2>4. \A j \in Legs : ~(Begin'[j] <= elapsed')
    BY <2>3
  <2> QED
    BY <2>4 DEF DrivenSoFar
<1>6. CASE OnDeltaRange \/ OnSpeed \/ SpeedExpires \/ UNCHANGED vars
  <2>1. UNCHANGED <<probing, elapsed, extensions, ticks>>
    BY <1>6 DEF OnDeltaRange, OnSpeed, SpeedExpires, vars, timeline, history
  <2>2. Begin' = Begin
    BY <2>1, TimelineKept
  <2> QED
    BY <2>1, <2>2 DEF DrivenSoFar
<1> QED
  BY <1>1, <1>2, <1>3, <1>4, <1>5, <1>6 DEF Next, ControlTick

LEMMA DrivenWhenOver ==
  ASSUME TypeOK, DrivenSoFar, TickAccept \/ TickRepeat
  PROVE  \A i \in Legs : ticks[i] = Leg
<1>1. probing /\ Complete(elapsed + 1) /\ elapsed + 1 \in Nat
  BY DEF TickAccept, TickRepeat, TypeOK
<1>2. End(Len(Axes)) + Neutral <= elapsed + 1
  BY <1>1, CompleteBehindLast
<1>3. ASSUME NEW i \in Legs
      PROVE  End(i) <= elapsed + 1
  <2>1. End(i) <= End(Len(Axes)) /\ End(i) \in Nat /\ End(Len(Axes)) \in Nat
    BY EndsInOrder, LegsOK
  <2> QED
    BY <1>1, <1>2, <2>1, DurationsAssumption
<1> QED
  BY <1>1, <1>3, DrivenBehind

\* A pattern that is used or repeated drove each leg for its whole time, for every choice
\* of durations and whichever legs were extended when: ABBA stays complete.
THEOREM LegsInFull == Spec => LegsDrivenInFull
<1>1. Init => DrivenSoFar
  BY DEF Init, DrivenSoFar
<1>2. TypeOK /\ DrivenSoFar /\ [Next]_vars => DrivenSoFar'
  BY DrivenNext
<1>3. TypeOK /\ DrivenSoFar /\ [Next]_vars
        => [TickAccept \/ TickRepeat => \A i \in Legs : ticks[i] = Leg]_vars
  BY DrivenWhenOver
<1> QED
  BY <1>1, <1>2, <1>3, TypeCorrect, PTL DEF Spec, LegsDrivenInFull

-----------------------------------------------------------------------------
(* How far the documentation holds *)

\* The pattern returns to a leg that it has left only to extend it.
LegsReturn ==
  [][probing /\ probing' /\ elapsed' > elapsed /\ active' < active
       => extensions'[active'] > extensions[active']]_vars

\* The leg that was driven last has begun.
Begun == probing /\ active # 0 => Begin[active] <= elapsed

LEMMA BegunNext ==
  ASSUME TypeOK, Begun, [Next]_vars
  PROVE  Begun'
<1>1. elapsed \in Nat /\ active \in Legs \cup {0} /\ \A i \in Legs : i # 0 /\ Begin[i] \in Nat
  BY TimelineOK, LegsOK DEF TypeOK
<1>2. CASE TickLeg
  <2>1. PICK i \in Legs :
          elapsed' = elapsed + 1 /\ InLeg(i, elapsed') /\ active' = i /\ UNCHANGED extensions
    BY <1>2 DEF TickLeg, Goes, DriveLeg
  <2> QED
    BY <2>1, TimelineKept DEF Begun, InLeg
<1>3. CASE TickExtend
  <2>1. PICK i \in Legs :
          /\ elapsed' = elapsed + 1 /\ Overdue(i, elapsed') /\ active' = i
          /\ extensions' = [extensions EXCEPT ![i] = @ + Extend(@)]
    BY <1>3 DEF TickExtend, Goes, DriveLeg
  <2>2. End(i) <= elapsed' /\ Begin[i] <= End(i) /\ End(i) \in Nat
    BY <2>1, EndsInOrder, <1>1, DurationsAssumption DEF Overdue
  <2>3. Begin'[i] = Begin[i]
    <3>1. PICK x \in Nat \ {0} :
            \A j \in Legs : Begin'[j] = Begin[j] + (IF i < j THEN x ELSE 0)
      BY <2>1, TimelineMoves DEF Overdue
    <3>2. ~(i < i)
      BY LegsOK
    <3> QED
      BY <1>1, <3>1, <3>2
  <2> QED
    BY <1>1, <2>1, <2>2, <2>3 DEF Begun
<1>4. CASE TickSettle \/ TickGap
  <2>1. elapsed' = elapsed + 1 /\ UNCHANGED <<probing, extensions, active>>
    BY <1>4 DEF TickSettle, TickGap, Goes
  <2> QED
    BY <1>1, <2>1, TimelineKept DEF Begun
<1>5. CASE TickAccept \/ TickBlocked
  BY <1>5 DEF TickAccept, TickBlocked, Begun
<1>6. CASE TickRepeat \/ TickStart
  BY <1>6 DEF TickRepeat, TickStart, StartProbe, Begun
<1>7. CASE OnDeltaRange \/ OnSpeed \/ SpeedExpires \/ UNCHANGED vars
  <2>1. UNCHANGED <<probing, elapsed, extensions, active>>
    BY <1>7 DEF OnDeltaRange, OnSpeed, SpeedExpires, vars, timeline
  <2> QED
    BY <2>1, TimelineKept DEF Begun
<1> QED
  BY <1>2, <1>3, <1>4, <1>5, <1>6, <1>7 DEF Next, ControlTick

\* A tick that drives an earlier leg than the one before extends it.
LEMMA BackToExtend ==
  ASSUME TypeOK, Begun, Next, probing, probing', elapsed' > elapsed, active' < active
  PROVE  extensions'[active'] > extensions[active'] /\ MotionResponse /\ MaxExtension # 0
<1>1. elapsed \in Nat /\ active \in Legs \cup {0} /\ \A i \in Legs : i > 0 /\ Begin[i] \in Nat
      /\ extensions \in [Legs -> 0..MaxExtension] /\ Legs \subseteq Nat
  BY TimelineOK, LegsOK DEF TypeOK
<1>2. CASE TickLeg
  <2>1. PICK i \in Legs :
          elapsed' = elapsed + 1 /\ InLeg(i, elapsed') /\ active' = i
    BY <1>2 DEF TickLeg, Goes, DriveLeg
  <2>2. active \in Legs /\ i < active
    BY <1>1, <2>1
  <2>3. End(i) + Neutral <= Begin[active] /\ Begin[active] <= elapsed /\ End(i) \in Nat
    BY <1>1, <2>2, TimelineOK, EndsInOrder DEF Begun
  <2>4. elapsed + 1 < End(i)
    BY <2>1 DEF InLeg
  <2> QED
    BY <1>1, <2>2, <2>3, <2>4, DurationsAssumption
<1>3. CASE TickExtend
  <2>1. PICK i \in Legs :
          /\ Overdue(i, elapsed') /\ active' = i
          /\ extensions' = [extensions EXCEPT ![i] = @ + Extend(@)]
    BY <1>3 DEF TickExtend, DriveLeg
  <2>2. extensions[i] \in 0..MaxExtension /\ extensions[i] < MaxExtension /\ MotionResponse
    BY <1>1, <2>1 DEF Overdue, Slow
  <2>3. extensions'[i] = extensions[i] + Extend(extensions[i])
    BY <1>1, <2>1
  <2> QED
    BY <2>1, <2>2, <2>3, DurationsAssumption DEF Extend
<1>4. CASE TickSettle \/ TickGap \/ TickAccept \/ TickBlocked
  BY <1>1, <1>4 DEF TickSettle, TickGap, TickAccept, TickBlocked
<1>5. CASE TickRepeat \/ TickStart
  BY <1>1, <1>5 DEF TickRepeat, TickStart, StartProbe
<1>6. CASE OnDeltaRange \/ OnSpeed \/ SpeedExpires
  <2>1. UNCHANGED elapsed
    BY <1>6 DEF OnDeltaRange, OnSpeed, SpeedExpires, timeline
  <2> QED
    BY <1>1, <2>1
<1> QED
  BY <1>2, <1>3, <1>4, <1>5, <1>6 DEF Next, ControlTick

\* For every choice of durations the pattern goes back to a leg only to extend it, so
\* that nothing but an extension contradicts what README.md says: without the response
\* to motion, or with no extension allowed, the legs follow each other.
THEOREM LegsReturnToExtend ==
  Spec => LegsReturn /\ (~MotionResponse \/ MaxExtension = 0 => LegsAdvance)
<1>1. Init => Begun
  BY DEF Init, Begun
<1>2. TypeOK /\ Begun /\ [Next]_vars => Begun'
  BY BegunNext
<1>3. TypeOK /\ Begun /\ [Next]_vars
        => [probing /\ probing' /\ elapsed' > elapsed /\ active' < active
              => extensions'[active'] > extensions[active']]_vars
  BY BackToExtend
<1>4. Spec => LegsReturn
  BY <1>1, <1>2, <1>3, TypeCorrect, PTL DEF Spec, LegsReturn
<1>5. ASSUME ~MotionResponse \/ MaxExtension = 0
      PROVE  Spec => LegsAdvance
  <2>1. TypeOK /\ Begun /\ [Next]_vars
          => [probing /\ probing' /\ elapsed' > elapsed => active' >= active]_vars
    <3> SUFFICES ASSUME TypeOK, Begun, Next, probing, probing', elapsed' > elapsed
                 PROVE  active' >= active
      OBVIOUS
    <3>1. TypeOK'
      BY TypeNext
    <3>2. active \in Nat /\ active' \in Nat
      BY <3>1, LegsOK DEF TypeOK
    <3>3. ~(active' < active)
      BY <1>5, BackToExtend
    <3> QED
      BY <3>2, <3>3
  <2> QED
    BY <1>1, <1>2, <2>1, TypeCorrect, PTL DEF Spec, LegsAdvance
<1> QED
  BY <1>4, <1>5

=============================================================================
