----------------------------- MODULE WindowLoop ------------------------------
(***************************************************************************)
(* The loop with which pinger_frequency_selector.cpp and                   *)
(* pinger_audio_estimator.cpp take windows out of what they have buffered, *)
(* iteration by iteration, and what it comes to for every length: the      *)
(* closed forms their models calculate with.                               *)
(***************************************************************************)
EXTENDS Integers, WellFoundedInduction, TLAPS

\* No more is erased than there is.
Erased(length, hop) == IF hop < length THEN hop ELSE length

\* Lengths of the buffer to the windows the loop takes and what it leaves: while there
\* is a whole window it is looked at and a hop of it erased.
WindowLoop(window, hop) ==
  LET loop[length \in Nat] ==
        IF length < window THEN [taken |-> 0, rest |-> length]
        ELSE LET on == loop[length - Erased(length, hop)]
             IN [taken |-> on.taken + 1, rest |-> on.rest]
  IN loop

\* The same in closed form.
Taken(window, hop, length) ==
  IF length < window THEN 0 ELSE (length - window) \div hop + 1
Outcome(window, hop, length) ==
  [taken |-> Taken(window, hop, length),
   rest  |-> length - Taken(window, hop, length) * hop]

-----------------------------------------------------------------------------

LEMMA Division ==
  ASSUME NEW a \in Nat, NEW b \in Nat \ {0}
  PROVE  /\ a \div b \in Nat
         /\ (a \div b) * b <= a /\ a < (a \div b) * b + b
OBVIOUS

\* A quotient is the only number that fits.
LEMMA Quotient ==
  ASSUME NEW a \in Nat, NEW b \in Nat \ {0}, NEW q \in Int,
         q * b <= a, a < q * b + b
  PROVE  a \div b = q
OBVIOUS

\* A hop less is a window less.
LEMMA HopLess ==
  ASSUME NEW a \in Nat, NEW b \in Nat \ {0}, a >= b
  PROVE  a \div b = (a - b) \div b + 1
<1> DEFINE q == (a - b) \div b
<1>1. a - b \in Nat
  OBVIOUS
<1>2. q \in Nat /\ q * b <= a - b /\ a - b < q * b + b
  BY <1>1, Division
<1> HIDE DEF q
<1>3. (q + 1) * b = q * b + b /\ q * b \in Int
  BY <1>2
<1>4. (q + 1) * b <= a /\ a < (q + 1) * b + b
  BY <1>2, <1>3
<1>5. a \div b = q + 1
  BY <1>2, <1>4, Quotient
<1> QED
  BY <1>5 DEF q

\* The closed form does what one iteration of the loop does.
LEMMA OutcomeIterates ==
  ASSUME NEW window \in Nat \ {0}, NEW hop \in 1..window, NEW length \in Nat
  PROVE  Outcome(window, hop, length) =
           IF length < window THEN [taken |-> 0, rest |-> length]
           ELSE LET on == Outcome(window, hop, length - Erased(length, hop))
                IN [taken |-> on.taken + 1, rest |-> on.rest]
<1>1. CASE length < window
  <2>1. Taken(window, hop, length) = 0
    BY <1>1 DEF Taken
  <2> QED
    BY <1>1, <2>1 DEF Outcome
<1>2. CASE length >= window
  <2>0. hop \in Nat \ {0} /\ hop <= window /\ length >= hop
    BY <1>2
  <2>1. length - Erased(length, hop) = length - hop
    BY <2>0 DEF Erased
  <2>2. Taken(window, hop, length) = Taken(window, hop, length - hop) + 1
    <3>1. CASE length - hop < window
      <4>1. length - window \in Nat /\ 0 * hop <= length - window
            /\ length - window < 0 * hop + hop
        BY <1>2, <2>0, <3>1
      <4>2. (length - window) \div hop = 0
        BY <2>0, <4>1, Quotient
      <4> QED
        BY <1>2, <3>1, <4>2 DEF Taken
    <3>2. CASE length - hop >= window
      <4>1. length - window \in Nat /\ length - window >= hop
            /\ (length - window) - hop = (length - hop) - window
        BY <1>2, <2>0, <3>2
      <4>2. (length - window) \div hop = ((length - hop) - window) \div hop + 1
        BY <2>0, <4>1, HopLess
      <4>3. Taken(window, hop, length) = (length - window) \div hop + 1
        BY <1>2 DEF Taken
      <4>4. Taken(window, hop, length - hop) = ((length - hop) - window) \div hop + 1
        BY <2>0, <3>2 DEF Taken
      <4> QED
        BY <4>2, <4>3, <4>4
    <3> QED
      BY <2>0, <3>1, <3>2
  <2> DEFINE before == Taken(window, hop, length - hop)
  <2>3. before \in Nat
    BY <2>0, Division DEF Taken
  <2> HIDE DEF before
  <2>4. (before + 1) * hop = before * hop + hop /\ before * hop \in Int
    BY <2>0, <2>3
  <2>5. length - (before + 1) * hop = (length - hop) - before * hop
    BY <2>0, <2>4
  <2>6. /\ Outcome(window, hop, length) =
             [taken |-> before + 1, rest |-> length - (before + 1) * hop]
        /\ Outcome(window, hop, length - hop) =
             [taken |-> before, rest |-> (length - hop) - before * hop]
    BY <2>2 DEF Outcome, before
  <2> QED
    BY <1>2, <2>1, <2>5, <2>6
<1> QED
  BY <1>1, <1>2

\* For every length of the buffer the loop of on_audio comes to its end, and takes and
\* leaves what the models calculate.
THEOREM LoopTakes ==
  ASSUME NEW window \in Nat \ {0}, NEW hop \in 1..window, NEW length \in Nat
  PROVE  WindowLoop(window, hop)[length] = Outcome(window, hop, length)
<1> DEFINE Once(loop) ==
             [n \in Nat |-> IF n < window THEN [taken |-> 0, rest |-> n]
                            ELSE LET on == loop[n - Erased(n, hop)]
                                 IN [taken |-> on.taken + 1, rest |-> on.rest]]
           closed == [n \in Nat |-> Outcome(window, hop, n)]
           run == WindowLoop(window, hop)
<1>1. \A n \in Nat : n >= window => n - Erased(n, hop) \in Nat /\ n - Erased(n, hop) < n
  BY DEF Erased
<1>2. closed = Once(closed)
  <2>1. ASSUME NEW n \in Nat
        PROVE  closed[n] = Once(closed)[n]
    <3>1. CASE n < window
      BY <3>1, OutcomeIterates
    <3>2. CASE n >= window
      <4>1. closed[n - Erased(n, hop)] = Outcome(window, hop, n - Erased(n, hop))
        BY <1>1, <3>2
      <4> QED
        BY <3>2, <4>1, OutcomeIterates
    <3> QED
      BY <3>1, <3>2
  <2> QED
    BY <2>1
<1>3. run = CHOOSE loop : loop = Once(loop)
  BY DEF WindowLoop
<1>4. run = Once(run)
  <2> HIDE DEF closed, Once, run
  <2> QED
    BY <1>2, <1>3
<1>5. ASSUME NEW n \in Nat, run[n] # closed[n] PROVE FALSE
  <2> DEFINE wrong == {m \in Nat : run[m] # closed[m]}
  <2>1. PICK m \in wrong : \A k \in wrong : <<k, m>> \notin OpToRel(<, Nat)
    <3>1. wrong \subseteq Nat /\ wrong # {}
      BY <1>5
    <3> HIDE DEF wrong
    <3> QED
      BY <3>1, WFMin, NatLessThanWellFounded, Zenon
  <2>2. m \in Nat /\ run[m] # closed[m]
    BY <2>1
  <2>3. \A k \in Nat : k < m => run[k] = closed[k]
    <3> SUFFICES ASSUME NEW k \in Nat, k < m, run[k] # closed[k] PROVE FALSE
      OBVIOUS
    <3>1. k \in wrong
      OBVIOUS
    <3>2. <<k, m>> \in OpToRel(<, Nat)
      BY <2>2, Zenon DEF OpToRel
    <3> QED
      BY <2>1, <3>1, <3>2, Zenon
  <2>4. run[m] = Once(run)[m] /\ closed[m] = Once(closed)[m]
    <3> HIDE DEF run, closed, Once
    <3> QED
      BY <1>2, <1>4
  <2>5. m >= window => run[m - Erased(m, hop)] = closed[m - Erased(m, hop)]
    <3> HIDE DEF run, closed
    <3> QED
      BY <1>1, <2>2, <2>3
  <2> HIDE DEF run, closed, wrong
  <2>6. Once(run)[m] = Once(closed)[m]
    BY <2>2, <2>5
  <2> QED
    BY <2>2, <2>4, <2>6
<1> HIDE DEF run
<1>6. run[length] = closed[length]
  BY <1>5
<1> QED
  BY <1>6 DEF run

=============================================================================
