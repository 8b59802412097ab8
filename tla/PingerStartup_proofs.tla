------------------------ MODULE PingerStartup_proofs -------------------------
(***************************************************************************)
(* The controller starts on what the operator chose, for every band, every *)
(* list of candidates and every answer, whatever is lost or comes late.    *)
(***************************************************************************)
EXTENDS PingerStartup, WindowLoop, FiniteSetTheorems, SequenceTheorems, TLAPS

-----------------------------------------------------------------------------
(* The list of candidates *)

LEMMA BandIs ==
  /\ Tones \subseteq MinHz..MaxHz /\ IsFiniteSet(Tones)
  /\ NoFrequency \notin MinHz..MaxHz
<1>1. Tones \subseteq MinHz..MaxHz /\ MinHz \in Int /\ MaxHz \in Int
  BY SelectorAssumption
<1>2. IsFiniteSet(MinHz..MaxHz)
  BY <1>1, FS_Interval
<1>3. IsFiniteSet(Tones)
  BY <1>1, <1>2, FS_Subset
<1>4. MinHz > 0
  BY SelectorAssumption
<1> QED BY <1>1, <1>3, <1>4 DEF NoFrequency

LEMMA OrdersAre ==
  ASSUME NEW spectrum, NEW tones \in SUBSET Tones, NEW order \in Orders(spectrum, tones)
  PROVE  order \in Seq(Tones)
<1>1. IsFiniteSet(tones)
  BY BandIs, FS_Subset
<1>2. Cardinality(tones) \in Nat
  BY <1>1, FS_CardinalityType
<1>3. order \in [1..Cardinality(tones) -> tones]
  BY DEF Orders
<1>4. order \in [1..Cardinality(tones) -> Tones]
  BY <1>3
<1> QED BY <1>2, <1>4

LEMMA CutIs ==
  ASSUME NEW order \in Seq(Tones)
  PROVE  Cut(order) \in Seq(Tones) /\ Len(Cut(order)) <= MaxCandidates
<1> DEFINE n == IF Len(order) < MaxCandidates THEN Len(order) ELSE MaxCandidates
<1>1. MaxCandidates \in Nat /\ Len(order) \in Nat
  BY SelectorAssumption
<1>2. n \in Nat /\ n <= Len(order) /\ n <= MaxCandidates
  BY <1>1
<1>3. Cut(order) = SubSeq(order, 1, n)
  BY DEF Cut
<1> HIDE DEF n
<1>4. \A i \in 1..n : order[i] \in Tones
  BY <1>1, <1>2
<1>5. /\ SubSeq(order, 1, n) \in Seq(Tones)
      /\ Len(SubSeq(order, 1, n)) = IF 1 <= n THEN n - 1 + 1 ELSE 0
  BY <1>2, <1>4, SubSeqProperties, 1 \in Int, n \in Int
<1>6. Len(SubSeq(order, 1, n)) = n
  BY <1>2, <1>5
<1> QED BY <1>2, <1>3, <1>5, <1>6

\* Every list finish_monitor can come to is one of candidates, and no longer than it may be.
LEMMA RankedAre ==
  ASSUME NEW spectrum \in Spectra, NEW list \in Ranked(spectrum)
  PROVE  list \in Seq(Candidate) /\ Len(list) <= MaxCandidates
<1> DEFINE good == {t \in DOMAIN spectrum : Qualified(spectrum, t)}
           listed(order) == [i \in DOMAIN order |->
             [frequency |-> order[i], qualified |-> Qualified(spectrum, order[i])]]
<1>1. DOMAIN spectrum \subseteq Tones /\ good \subseteq Tones
  BY DEF Spectra
<1>2. CASE windows = 0
  <2>1. list = <<>>
    BY <1>2 DEF Ranked
  <2> QED BY <2>1, SelectorAssumption
<1>3. CASE windows # 0
  <2>1. PICK order \in IF good # {} THEN Shortlists(spectrum, good)
                        ELSE Orders(spectrum, DOMAIN spectrum) : list = listed(Cut(order))
    BY <1>3 DEF Ranked
  <2>2. order \in Seq(Tones)
    <3>1. CASE good # {}
      <4>1. order \in Shortlists(spectrum, good)
        BY <2>1, <3>1
      <4>2. PICK first \in good : order \in Orders(spectrum, Near(spectrum, good, first))
        BY <4>1 DEF Shortlists
      <4>3. Near(spectrum, good, first) \in SUBSET Tones
        BY <1>1 DEF Near
      <4> QED BY <4>2, <4>3, OrdersAre
    <3>2. CASE ~(good # {})
      BY <1>1, <2>1, <3>2, OrdersAre
    <3> QED BY <3>1, <3>2
  <2> DEFINE cut == Cut(order)
  <2>3. cut \in Seq(Tones) /\ Len(cut) <= MaxCandidates
    BY <2>2, CutIs
  <2>4. list = listed(cut)
    BY <2>1
  <2> HIDE DEF cut
  <2>5. \A i \in DOMAIN cut :
          [frequency |-> cut[i], qualified |-> Qualified(spectrum, cut[i])] \in Candidate
    <3> TAKE i \in DOMAIN cut
    <3>1. cut[i] \in Tones
      BY <2>3
    <3>2. Qualified(spectrum, cut[i]) \in BOOLEAN
      BY Zenon DEF Qualified, Strong, Persistent
    <3> QED BY <3>1, <3>2, Zenon DEF Candidate
  <2>6. DOMAIN cut = 1..Len(cut) /\ Len(cut) \in Nat
    BY <2>3
  <2>7. list \in [1..Len(cut) -> Candidate]
    BY <2>4, <2>5, <2>6
  <2>8. Len(list) = Len(cut)
    BY <2>6, <2>7
  <2> QED BY <2>3, <2>6, <2>7, <2>8
<1> QED BY <1>2, <1>3

-----------------------------------------------------------------------------
(* Types of the selector *)

\* The windows of a message use up all but less than a window of it.
LEMMA WindowsFit ==
  ASSUME NEW n \in Nat
  PROVE  /\ WindowsIn(n) \in Nat /\ WindowsIn(n) * HopSize \in 0..n
         /\ n - WindowsIn(n) * HopSize < FftSize
<1>1. FftSize \in Nat \ {0} /\ HopSize \in Nat \ {0} /\ HopSize <= FftSize
  BY SelectorAssumption
<1>2. CASE n < FftSize
  BY <1>1, <1>2 DEF WindowsIn
<1>3. CASE n >= FftSize
  <2> DEFINE q == (n - FftSize) \div HopSize
  <2>1. n - FftSize \in Nat
    BY <1>1, <1>3
  <2>2. q \in Nat /\ q * HopSize <= n - FftSize /\ n - FftSize < q * HopSize + HopSize
    BY <1>1, <2>1, Division
  <2>3. WindowsIn(n) = q + 1
    BY <1>1, <1>3 DEF WindowsIn
  <2> HIDE DEF q
  <2>4. q * HopSize \in Nat /\ (q + 1) * HopSize = q * HopSize + HopSize
    BY <1>1, <2>2
  <2> QED BY <1>1, <2>2, <2>3, <2>4
<1> QED BY <1>1, <1>2, <1>3

\* The loop of on_audio takes the windows the scan counts and leaves what OnAudio leaves
\* buffered, however long the message.
THEOREM ScanTakes ==
  ASSUME NEW n \in Nat
  PROVE  WindowLoop(FftSize, HopSize)[n] =
           [taken |-> WindowsIn(n), rest |-> n - WindowsIn(n) * HopSize]
<1>1. FftSize \in Nat \ {0} /\ HopSize \in 1..FftSize
  BY SelectorAssumption
<1>2. WindowLoop(FftSize, HopSize)[n] = Outcome(FftSize, HopSize, n)
  BY <1>1, LoopTakes
<1>3. Taken(FftSize, HopSize, n) = WindowsIn(n)
  BY DEF Taken, WindowsIn
<1> QED BY <1>2, <1>3 DEF Outcome

LEMMA ScanOK ==
  ASSUME SelectorTypeOK, OnAudio
  PROVE  SelectorTypeOK'
<1>1. PICK n \in Frames :
        LET taken == IF finished THEN 0 ELSE WindowsIn(buffered + n) IN
          /\ windows + taken <= MaxWindows
          /\ buffered + n <= MaxBuffered
          /\ buffered' = buffered + n - taken * HopSize
          /\ windows' = windows + taken
          /\ \E peaks \in [Tones -> 0..taken] : hits' = [t \in Tones |-> hits[t] + peaks[t]]
          /\ UNCHANGED <<autoSelectTop, choiceVars>>
  BY DEF OnAudio
<1> DEFINE taken == IF finished THEN 0 ELSE WindowsIn(buffered + n)
<1>2. buffered \in Nat /\ windows \in Nat /\ n \in Nat /\ MaxBuffered \in Nat /\ MaxWindows \in Nat
      /\ HopSize \in Nat /\ hits \in [Tones -> 0..windows]
  BY SelectorAssumption DEF SelectorTypeOK
<1>3. /\ taken \in Nat /\ taken * HopSize \in 0..(buffered + n)
      /\ ~finished => buffered + n - taken * HopSize < FftSize
  BY <1>2, WindowsFit
<1>4. PICK peaks \in [Tones -> 0..taken] : hits' = [t \in Tones |-> hits[t] + peaks[t]]
  BY <1>1
<1>5. /\ windows + taken <= MaxWindows /\ buffered + n <= MaxBuffered
      /\ buffered' = buffered + n - taken * HopSize /\ windows' = windows + taken
      /\ UNCHANGED <<autoSelectTop, choiceVars>>
  BY <1>1
<1> HIDE DEF taken
<1>6. buffered' \in 0..MaxBuffered /\ windows' \in 0..MaxWindows
      /\ (~finished => buffered' < FftSize)
  BY <1>2, <1>3, <1>5
<1>7. hits' \in [Tones -> 0..windows']
  BY <1>2, <1>3, <1>4, <1>5
<1> QED BY <1>5, <1>6, <1>7 DEF SelectorTypeOK, choiceVars

LEMMA ChosenOK ==
  ASSUME SelectorTypeOK, NEW frequency, SelectUnlessTaken(frequency)
  PROVE  selected' \in MinHz..MaxHz \cup {NoFrequency}
BY DEF SelectorTypeOK, SelectUnlessTaken

LEMMA FinishOK ==
  ASSUME SelectorTypeOK, FinishMonitor
  PROVE  SelectorTypeOK'
<1>1. candidates' \in Seq(Candidate) /\ Len(candidates') <= MaxCandidates
  BY RankedAre DEF FinishMonitor
<1>2. selected' \in MinHz..MaxHz \cup {NoFrequency}
  BY ChosenOK DEF FinishMonitor, SelectorTypeOK
<1> QED BY <1>1, <1>2 DEF FinishMonitor, SelectorTypeOK, scanVars

LEMMA SelectOK ==
  ASSUME SelectorTypeOK, NEW value, SelectFromText(value)
  PROVE  SelectorTypeOK'
<1>1. selected' \in MinHz..MaxHz \cup {NoFrequency}
  BY ChosenOK DEF SelectFromText, SelectorTypeOK
<1> QED BY <1>1 DEF SelectFromText, SelectorTypeOK, scanVars

-----------------------------------------------------------------------------
(* Types of the whole *)

Waits == {"connecting", "scan", "ask", "await", "handoff"}
Ends  == {"started", "failed", "stopped"}

GateOK ==
  /\ gate \in Waits \cup {"calling"} \cup Ends
  /\ ranked \in Seq(Tones) /\ answer \in Answers \cup {Nothing}
  /\ heard \in MinHz..MaxHz \cup {Nothing}
  /\ deadline \in BOOLEAN /\ isShutdown \in BOOLEAN
  /\ handoff \in {"false", "auto", "true"} /\ gui \in {"absent", "manual", "suspended"}
  /\ restored \in BOOLEAN /\ missed \in BOOLEAN

\* One call is made by the handoff and one by the hook that restores.
CallsOK ==
  /\ calls \in Seq({"suspend", "restore"}) /\ Len(calls) <= 2
  /\ gate \in Waits => calls = <<>>
  /\ ~restored => Len(calls) <= 1
  /\ restored => gate \in Ends

LinksOK ==
  /\ posted \in Answers \cup {Nothing} /\ onWay \in MinHz..MaxHz \cup {Nothing}
  /\ lost \in BOOLEAN /\ intruded \in BOOLEAN

StartupOK == SelectorTypeOK /\ GateOK /\ CallsOK /\ LinksOK

LEMMA StartupOKInit == StartupInit => StartupOK
<1> SUFFICES ASSUME StartupInit PROVE StartupOK
  OBVIOUS
<1>1. SelectorTypeOK
  <2>1. 0 < FftSize /\ 0 \in 0..MaxBuffered /\ 0 \in 0..MaxWindows /\ 0 <= MaxCandidates
    BY SelectorAssumption
  <2>2. hits \in [Tones -> 0..windows] /\ windows = 0 /\ buffered = 0
        /\ candidates = <<>> /\ selected = NoFrequency
    BY DEF StartupInit, SelectorInit
  <2>3. autoSelectTop \in BOOLEAN /\ finished \in BOOLEAN
    BY Zenon DEF StartupInit, SelectorInit
  <2>4. candidates \in Seq(Candidate) /\ Len(candidates) = 0
    BY <2>2
  <2>5. buffered < FftSize /\ buffered \in 0..MaxBuffered /\ windows \in 0..MaxWindows
        /\ Len(candidates) <= MaxCandidates /\ selected \in MinHz..MaxHz \cup {NoFrequency}
    BY <2>1, <2>2, <2>4
  <2> QED BY <2>2, <2>3, <2>4, <2>5, Zenon DEF SelectorTypeOK
<1>2. GateOK
  <2>1. ranked \in Seq(Tones)
    BY DEF StartupInit, GateInit
  <2> QED BY <2>1, Zenon DEF StartupInit, GateInit, GateOK, Waits
<1>3. CallsOK /\ LinksOK
  <2>1. calls \in Seq({"suspend", "restore"}) /\ Len(calls) <= 2 /\ Len(calls) <= 1
    BY DEF StartupInit, GateInit
  <2>2. calls = <<>> /\ restored = FALSE
    BY Zenon DEF StartupInit, GateInit
  <2>3. LinksOK
    BY Zenon DEF StartupInit, LinksOK
  <2> QED BY <2>1, <2>2, <2>3, Zenon DEF CallsOK
<1> QED BY <1>1, <1>2, <1>3 DEF StartupOK

LEMMA PublishOK ==
  ASSUME LinksOK, SelectorTypeOK', PublishSelection
  PROVE  onWay' \in MinHz..MaxHz \cup {Nothing}
BY DEF LinksOK, SelectorTypeOK, PublishSelection, NoFrequency, Nothing

\* A step of the selector.
LEMMA SelectorStep ==
  ASSUME StartupOK, Scan \/ EndScan \/ TakeAnswer \/ Intrude
  PROVE  StartupOK'
<1>1. UNCHANGED gateVars
  BY DEF Scan, EndScan, TakeAnswer, Intrude
<1>2. SelectorTypeOK'
  <2>1. CASE Scan
    BY <2>1, ScanOK DEF Scan, StartupOK
  <2>2. CASE EndScan
    BY <2>2, FinishOK DEF EndScan, StartupOK
  <2>3. CASE TakeAnswer \/ Intrude
    BY <2>3, SelectOK DEF TakeAnswer, Intrude, StartupOK
  <2> QED BY <2>1, <2>2, <2>3
<1>3. onWay' \in MinHz..MaxHz \cup {Nothing}
  <2>1. PublishSelection \/ onWay' = onWay
    BY DEF Scan, EndScan, TakeAnswer, Intrude, linkVars
  <2> QED BY <1>2, <2>1, PublishOK DEF StartupOK, LinksOK
<1>4. posted' \in Answers \cup {Nothing} /\ lost' \in BOOLEAN /\ intruded' \in BOOLEAN
  BY DEF Scan, EndScan, TakeAnswer, Intrude, linkVars, StartupOK, LinksOK
<1>5. GateOK' /\ CallsOK'
  BY <1>1 DEF gateVars, loopVars, guiVars, StartupOK, GateOK, CallsOK
<1> QED BY <1>2, <1>3, <1>4, <1>5 DEF StartupOK, LinksOK

LEMMA ShownIs ==
  ASSUME SelectorTypeOK
  PROVE  [i \in DOMAIN candidates |-> candidates[i].frequency] \in Seq(Tones)
<1>1. DOMAIN candidates = 1..Len(candidates) /\ Len(candidates) \in Nat
  BY DEF SelectorTypeOK
<1>2. \A i \in DOMAIN candidates : candidates[i] \in Candidate
  BY <1>1 DEF SelectorTypeOK
<1>3. \A i \in DOMAIN candidates : candidates[i].frequency \in Tones
  BY <1>2 DEF Candidate
<1>4. [i \in DOMAIN candidates |-> candidates[i].frequency] \in [1..Len(candidates) -> Tones]
  BY <1>1, <1>3
<1> QED BY <1>1, <1>4

\* A step of the gate on its way to the handoff.
LEMMA GateStep ==
  ASSUME StartupOK,
         Show \/ Answer \/ Hear \/ StopLaunch
           \/ (UNCHANGED <<selectorVars, linkVars>>
                 /\ (Connect \/ DoNotAsk \/ Lapse \/ GiveUp \/ Proceed
                       \/ SkipHandoff \/ RefuseHandoff \/ HandoffTimesOut))
  PROVE  StartupOK'
<1> USE DEF StartupOK, GateOK, CallsOK, LinksOK, Waits, Ends
<1>1. UNCHANGED selectorVars => SelectorTypeOK'
  BY DEF selectorVars, scanVars, choiceVars, SelectorTypeOK
<1>2. CASE Show
  BY <1>1, <1>2, ShownIs DEF Show, HearCandidates, linkVars, guiVars
<1>3. CASE Answer
  <2>1. PICK value \in Answers :
          /\ Ask(value)
          /\ \/ posted' = value /\ UNCHANGED lost
             \/ lost' = TRUE /\ UNCHANGED posted
    BY <1>3 DEF Answer
  <2>2. UNCHANGED <<selectorVars, onWay, intruded>>
    BY <1>3 DEF Answer
  <2>3. LinksOK'
    BY <2>1, <2>2
  <2>4. GateOK' /\ CallsOK'
    BY <2>1 DEF Ask, guiVars
  <2> QED BY <1>1, <2>2, <2>3, <2>4
<1>4. CASE Hear
  BY <1>1, <1>4 DEF Hear, HearSelection, guiVars, Nothing
<1>5. CASE StopLaunch
  BY <1>1, <1>5 DEF StopLaunch, Shutdown, loopVars, guiVars, linkVars
<1>6. CASE /\ UNCHANGED <<selectorVars, linkVars>>
           /\ Connect \/ DoNotAsk \/ Lapse \/ Proceed
  <2>1. /\ UNCHANGED <<selectorVars, linkVars, loopVars, guiVars, isShutdown>>
        /\ gate' \in Waits /\ gate \in Waits /\ deadline' \in BOOLEAN
    <3>1. CASE Connect
      BY <1>6, <3>1, Zenon DEF Connect
    <3>2. CASE DoNotAsk
      BY <1>6, <3>2, Zenon DEF DoNotAsk
    <3>3. CASE Lapse
      BY <1>6, <3>3, Zenon DEF Lapse
    <3>4. CASE Proceed
      BY <1>6, <3>4, Zenon DEF Proceed
    <3> QED BY <1>6, <3>1, <3>2, <3>3, <3>4
  <2>2. GateOK'
    BY <2>1 DEF loopVars, guiVars
  <2>3. CallsOK'
    BY <2>1 DEF guiVars
  <2>4. LinksOK'
    BY <2>1 DEF linkVars
  <2> QED BY <1>1, <2>1, <2>2, <2>3, <2>4
<1>7. CASE /\ UNCHANGED <<selectorVars, linkVars>>
           /\ GiveUp \/ SkipHandoff \/ RefuseHandoff \/ HandoffTimesOut
  <2>1. /\ UNCHANGED <<selectorVars, linkVars, loopVars, deadline, guiVars>>
        /\ gate' \in Ends
    <3>1. CASE GiveUp
      BY <1>7, <3>1, Zenon DEF GiveUp, Fail
    <3>2. CASE SkipHandoff
      BY <1>7, <3>2, Zenon DEF SkipHandoff, StartChecked, Fail
    <3>3. CASE RefuseHandoff
      BY <1>7, <3>3, Zenon DEF RefuseHandoff, Fail
    <3>4. CASE HandoffTimesOut
      BY <1>7, <3>4, Zenon DEF HandoffTimesOut, Fail
    <3> QED BY <1>7, <3>1, <3>2, <3>3, <3>4
  <2>2. isShutdown' \in BOOLEAN
    <3>1. CASE GiveUp
      BY <3>1, Zenon DEF GiveUp, Fail
    <3>2. CASE SkipHandoff
      BY <3>2, Zenon DEF SkipHandoff, StartChecked, Fail
    <3>3. CASE RefuseHandoff \/ HandoffTimesOut
      BY <3>3, Zenon DEF RefuseHandoff, HandoffTimesOut, Fail
    <3> QED BY <1>7, <3>1, <3>2, <3>3
  <2>3. GateOK'
    BY <2>1, <2>2 DEF loopVars, guiVars
  <2>4. CallsOK'
    BY <2>1 DEF guiVars
  <2>5. LinksOK'
    BY <2>1 DEF linkVars
  <2> QED BY <1>1, <2>1, <2>3, <2>4, <2>5
<1> QED BY <1>2, <1>3, <1>4, <1>5, <1>6, <1>7

LEMMA CallStep ==
  ASSUME StartupOK, ServeGui \/ (UNCHANGED <<selectorVars, linkVars>> /\ (CallHandoff \/ RestoreGui))
  PROVE  StartupOK'
<1>1. SelectorTypeOK' /\ LinksOK'
  BY DEF ServeGui, StartupOK, LinksOK, linkVars, selectorVars, scanVars, choiceVars,
         SelectorTypeOK
<1>2. calls \in Seq({"suspend", "restore"}) /\ Len(calls) \in Nat
  BY DEF StartupOK, CallsOK
<1>3. CASE ServeGui
  <2>1. calls # <<>> /\ calls' = Tail(calls)
    BY <1>3 DEF ServeGui, GuiServes
  <2>2. calls' \in Seq({"suspend", "restore"}) /\ Len(calls') = Len(calls) - 1
    BY <1>2, <2>1, HeadTailProperties
  <2>3. gate \notin Waits
    BY <2>1 DEF StartupOK, CallsOK
  <2>4. /\ gate' = gate \/ (gate = "calling" /\ gate' \in Ends)
        /\ UNCHANGED <<loopVars, deadline, handoff, restored, missed>>
        /\ isShutdown' \in BOOLEAN /\ gui' \in {"absent", "manual", "suspended"}
    BY <1>3 DEF ServeGui, GuiServes, StartChecked, Fail, Ends, StartupOK, GateOK
  <2>5. GateOK'
    BY <2>4 DEF StartupOK, GateOK, loopVars, Ends
  <2>6. CallsOK'
    BY <1>2, <2>2, <2>3, <2>4 DEF StartupOK, CallsOK, Waits, Ends, GateOK
  <2> QED BY <1>1, <2>5, <2>6 DEF StartupOK
<1>4. CASE CallHandoff
  <2>1. calls = <<>> /\ gate = "handoff"
    BY <1>4 DEF CallHandoff, StartupOK, CallsOK, Waits
  <2>2. calls' \in Seq({"suspend", "restore"}) /\ Len(calls') = 1
    BY <1>2, <1>4, <2>1, AppendProperties DEF CallHandoff
  <2>3. gate' = "calling" /\ UNCHANGED <<loopVars, deadline, isShutdown, handoff, gui, restored, missed>>
    BY <1>4 DEF CallHandoff
  <2>4. GateOK' /\ CallsOK'
    BY <2>1, <2>2, <2>3 DEF StartupOK, GateOK, CallsOK, loopVars, Waits, Ends
  <2> QED BY <1>1, <2>4 DEF StartupOK
<1>5. CASE RestoreGui
  <2>1. gate \in Ends /\ ~restored /\ restored' = TRUE
        /\ UNCHANGED <<gate, loopVars, deadline, isShutdown, handoff, gui>>
    BY <1>5 DEF RestoreGui, Decided, Ends
  <2>2. calls' = calls \/ calls' = Append(calls, "restore")
    BY <1>5 DEF RestoreGui, RestoreService
  <2>3. calls' \in Seq({"suspend", "restore"}) /\ Len(calls') <= Len(calls) + 1
    BY <1>2, <2>2, AppendProperties
  <2>4. missed' \in BOOLEAN
    BY <1>5 DEF RestoreGui, StartupOK, GateOK
  <2>5. GateOK'
    BY <2>1, <2>4 DEF StartupOK, GateOK, loopVars
  <2>6. CallsOK'
    BY <1>2, <2>1, <2>3 DEF StartupOK, CallsOK, Waits, Ends
  <2> QED BY <1>1, <2>5, <2>6 DEF StartupOK
<1> QED BY <1>3, <1>4, <1>5

LEMMA StartupOKNext ==
  ASSUME StartupOK, [StartupNext]_startupVars
  PROVE  StartupOK'
<1>1. CASE UNCHANGED startupVars
  BY <1>1 DEF startupVars, selectorVars, scanVars, choiceVars, gateVars, loopVars, guiVars,
              linkVars, StartupOK, SelectorTypeOK, GateOK, CallsOK, LinksOK
<1>2. CASE GateRuns
  BY <1>2, GateStep, CallStep DEF GateRuns
<1> QED BY <1>1, <1>2, SelectorStep, GateStep, CallStep DEF StartupNext, Ended

\* Every reachable state is well typed: above all the scan keeps up with messages of any
\* length, no list is longer than allowed, and the GUI is called at most twice.
THEOREM StartupTypeCorrect == StartupSpec => []StartupTypeOK
<1>1. StartupOK => StartupTypeOK
  BY DEF StartupOK, GateOK, CallsOK, LinksOK, StartupTypeOK, Waits, Ends
<1> QED BY <1>1, StartupOKInit, StartupOKNext, PTL DEF StartupSpec

-----------------------------------------------------------------------------
(* What is selected, heard and started on *)

Shown == [i \in DOMAIN candidates |-> candidates[i].frequency]

\* There is one selection: what is on its way and what was heard is it.
OneSelection ==
  /\ selected # Nothing => finished
  /\ onWay # Nothing => onWay = selected
  /\ heard # Nothing => heard = selected
  /\ gate \in {"handoff", "calling", "started"} => heard # Nothing

\* The operator answers once, to the list of the selector.
OneAnswer ==
  /\ gate \in {"ask", "await", "handoff", "calling", "started"} \/ answer # Nothing
       => finished /\ ranked = Shown
  /\ gate \in {"connecting", "scan", "ask"} => answer = Nothing /\ posted = Nothing
  /\ posted # Nothing => posted = answer
  /\ autoSelectTop => answer = Nothing
  /\ answer # Nothing => Takes(answer)

\* What an answer that has arrived, or the selector itself, has done.
ChoiceMade ==
  /\ answer # Nothing /\ posted = Nothing /\ ~lost => selected # Nothing
  /\ ~intruded /\ selected # Nothing =>
       IF autoSelectTop
       THEN candidates # <<>> /\ candidates[1] = [frequency |-> selected, qualified |-> TRUE]
       ELSE answer # Nothing /\ selected = Meaning(answer)

ChoiceOK == OneSelection /\ OneAnswer /\ ChoiceMade

LEMMA ChoiceOKInit == StartupInit => ChoiceOK
BY DEF StartupInit, SelectorInit, GateInit, ChoiceOK, OneSelection, OneAnswer, ChoiceMade,
       NoFrequency, Nothing

\* A step that changes neither the selector nor what is posted, and of the gate only
\* where it is.
LEMMA ChoiceKept ==
  ASSUME ChoiceOK,
         UNCHANGED <<selectorVars, linkVars, loopVars>>,
         \/ gate' = gate \/ gate' \in {"failed", "stopped"}
         \/ gate = "connecting" /\ gate' = "scan"
         \/ gate = "ask" /\ gate' = "await"
         \/ gate = "await" /\ gate' = "handoff" /\ heard # Nothing
         \/ gate \in {"handoff", "calling"} /\ gate' \in {"calling", "started"}
  PROVE  ChoiceOK'
<1>1. UNCHANGED <<autoSelectTop, finished, candidates, selected, posted, onWay, lost, intruded,
                  ranked, answer, heard>>
  BY DEF selectorVars, choiceVars, linkVars, loopVars
<1>2. Shown' = Shown /\ Takes(answer)' = Takes(answer) /\ Meaning(answer)' = Meaning(answer)
  BY <1>1 DEF Shown, Takes, InScan, Meaning
<1>3. OneSelection'
  BY <1>1 DEF ChoiceOK, OneSelection
<1>4. OneAnswer'
  BY <1>1, <1>2 DEF ChoiceOK, OneAnswer
<1>5. ChoiceMade'
  BY <1>1, <1>2 DEF ChoiceOK, ChoiceMade
<1> QED BY <1>3, <1>4, <1>5 DEF ChoiceOK

LEMMA GateKeepsChoice ==
  ASSUME ChoiceOK, GateRuns \/ ServeGui \/ StopLaunch
  PROVE  ChoiceOK'
<1>1. UNCHANGED <<selectorVars, linkVars>>
  BY Zenon DEF GateRuns, ServeGui, StopLaunch
<1>2. CASE StopLaunch \/ ServeGui
  <2>1. UNCHANGED loopVars
        /\ (gate' = gate \/ (gate = "calling" /\ gate' \in {"started", "stopped", "failed"}))
    BY <1>2, Zenon DEF StopLaunch, Shutdown, ServeGui, GuiServes, StartChecked, Fail
  <2> QED BY <1>1, <2>1, ChoiceKept
<1>3. CASE GateRuns
  <2>1. CASE Connect \/ DoNotAsk \/ Lapse \/ Proceed
    BY <1>1, <2>1, ChoiceKept DEF Connect, DoNotAsk, Lapse, Proceed
  <2>2. CASE GiveUp \/ RefuseHandoff \/ HandoffTimesOut
    BY <1>1, <2>2, ChoiceKept DEF GiveUp, RefuseHandoff, HandoffTimesOut, Fail
  <2>3. CASE SkipHandoff
    BY <1>1, <2>3, ChoiceKept DEF SkipHandoff, StartChecked, Fail
  <2>4. CASE CallHandoff \/ RestoreGui
    BY <1>1, <2>4, ChoiceKept DEF CallHandoff, RestoreGui
  <2> QED BY <1>3, <2>1, <2>2, <2>3, <2>4 DEF GateRuns
<1> QED BY <1>2, <1>3

\* Show, Answer and Hear.
LEMMA GateLearns ==
  ASSUME ChoiceOK, Show \/ Answer \/ Hear
  PROVE  ChoiceOK'
<1>1. UNCHANGED <<autoSelectTop, finished, candidates, selected>>
  BY DEF Show, Answer, Hear, selectorVars, choiceVars
<1>2. Shown' = Shown
  BY <1>1 DEF Shown
<1>3. CASE Show
  <2>1. /\ finished /\ gate = "scan" /\ gate' = "ask" /\ ranked' = Shown
        /\ UNCHANGED <<answer, heard, posted, onWay, lost, intruded>>
    BY <1>3 DEF Show, HearCandidates, Shown, linkVars
  <2>2. answer = Nothing /\ posted = Nothing
    BY <2>1 DEF ChoiceOK, OneAnswer
  <2>3. OneSelection' /\ OneAnswer'
    BY <1>1, <1>2, <2>1, <2>2 DEF ChoiceOK, OneSelection, OneAnswer
  <2>4. ChoiceMade'
    BY <1>1, <2>1, <2>2, Zenon DEF ChoiceOK, ChoiceMade
  <2> QED BY <2>3, <2>4 DEF ChoiceOK
<1>4. CASE Answer
  <2>1. PICK value \in Answers :
          /\ Ask(value)
          /\ \/ posted' = value /\ UNCHANGED lost
             \/ lost' = TRUE /\ UNCHANGED posted
    BY <1>4 DEF Answer
  <2>2. /\ ~autoSelectTop /\ UNCHANGED <<onWay, intruded, ranked, heard>>
        /\ gate = "ask" /\ gate' = "await" /\ answer' = value /\ Takes(value)
    BY <1>4, <2>1 DEF Answer, Ask
  <2>3. answer = Nothing /\ posted = Nothing /\ finished /\ ranked = Shown
    BY <2>2 DEF ChoiceOK, OneAnswer
  <2>4. Takes(answer)'
    BY <2>2 DEF Takes, InScan
  <2>5. OneSelection'
    BY <1>1, <2>2 DEF ChoiceOK, OneSelection
  <2>6. OneAnswer'
    BY <1>1, <1>2, <2>1, <2>2, <2>3, <2>4 DEF OneAnswer
  <2>7. intruded \/ selected = Nothing
    BY <2>2, <2>3 DEF ChoiceOK, ChoiceMade
  <2>8. ChoiceMade'
    BY <1>1, <2>1, <2>2, <2>3, <2>7, Zenon DEF ChoiceMade
  <2> QED BY <2>5, <2>6, <2>8 DEF ChoiceOK
<1>5. CASE Hear
  <2>1. /\ onWay # Nothing /\ heard' = onWay /\ onWay' = Nothing
        /\ UNCHANGED <<gate, ranked, answer, posted, lost, intruded>>
    BY <1>5 DEF Hear, HearSelection
  <2>2. OneSelection'
    BY <1>1, <2>1 DEF ChoiceOK, OneSelection
  <2>3. OneAnswer'
    BY <1>1, <1>2, <2>1 DEF ChoiceOK, OneAnswer, Takes, InScan
  <2>4. ChoiceMade'
    BY <1>1, <2>1 DEF ChoiceOK, ChoiceMade, Meaning
  <2> QED BY <2>2, <2>3, <2>4 DEF ChoiceOK
<1> QED BY <1>3, <1>4, <1>5

\* The answer the gate lets pass is a choice the selector takes.
LEMMA AnswerSelects ==
  ASSUME StartupOK, ChoiceOK, posted # Nothing, SelectFromText(posted)
  PROVE  /\ selected' = IF selected = Nothing THEN Meaning(answer) ELSE selected
         /\ Meaning(answer) # Nothing
<1>1. posted = answer /\ finished /\ ranked = Shown /\ Takes(answer)
  BY DEF ChoiceOK, OneAnswer
<1>2. DOMAIN ranked = DOMAIN candidates
  BY <1>1 DEF Shown
<1>3. CASE answer \in DOMAIN ranked
  <2>1. ranked[answer] = candidates[answer].frequency
    BY <1>1, <1>2, <1>3 DEF Shown
  <2>2. ranked[answer] \in Tones
    BY <1>3 DEF StartupOK, GateOK
  <2>3. ranked[answer] \in MinHz..MaxHz /\ Meaning(answer) = ranked[answer]
    BY <1>3, <2>2, BandIs DEF Meaning
  <2>4. selected' = IF selected = NoFrequency THEN ranked[answer] ELSE selected
    BY <1>1, <1>2, <1>3, <2>1, <2>3 DEF SelectFromText, SelectUnlessTaken
  <2> QED BY <2>3, <2>4, BandIs DEF NoFrequency, Nothing
<1>4. CASE answer \notin DOMAIN ranked
  <2>1. InScan(answer) /\ answer \in Nat
    BY <1>1, <1>4, GateAssumption DEF Takes, StartupOK, GateOK, Nothing
  <2>2. answer \in MinHz..MaxHz /\ Meaning(answer) = answer
    BY <1>4, <2>1, BandAssumption, SelectorAssumption DEF InScan, Meaning
  <2>3. selected' = IF selected = NoFrequency THEN answer ELSE selected
    BY <1>1, <1>2, <1>4, <2>2 DEF SelectFromText, SelectUnlessTaken
  <2> QED BY <2>2, <2>3, BandIs DEF NoFrequency, Nothing
<1> QED BY <1>3, <1>4

\* A step of the selector that selects once at most.
LEMMA SelectedOnce ==
  ASSUME ChoiceOK, PublishSelection, UNCHANGED <<gate, heard>>,
         selected # Nothing => selected' = selected,
         selected' # Nothing => finished'
  PROVE  OneSelection'
BY DEF ChoiceOK, OneSelection, PublishSelection, Nothing

LEMMA SelectorKeepsChoice ==
  ASSUME StartupOK, ChoiceOK, Scan \/ EndScan \/ TakeAnswer \/ Intrude
  PROVE  ChoiceOK'
<1>1. UNCHANGED gateVars /\ UNCHANGED <<gate, ranked, answer, heard, autoSelectTop>>
  BY DEF Scan, EndScan, TakeAnswer, Intrude, OnAudio, FinishMonitor, SelectFromText, gateVars,
         loopVars
<1>2. Takes(answer)' = Takes(answer) /\ Meaning(answer)' = Meaning(answer)
  BY <1>1 DEF Takes, InScan, Meaning
<1>3. CASE Scan
  <2>1. UNCHANGED <<finished, candidates, selected, linkVars>>
    BY <1>3 DEF Scan, OnAudio, choiceVars
  <2>2. Shown' = Shown
    BY <2>1 DEF Shown
  <2>3. OneSelection' /\ OneAnswer'
    BY <1>1, <1>2, <2>1, <2>2 DEF ChoiceOK, OneSelection, OneAnswer, linkVars
  <2>4. ChoiceMade'
    BY <1>1, <1>2, <2>1 DEF ChoiceOK, ChoiceMade, linkVars
  <2> QED BY <2>3, <2>4 DEF ChoiceOK
<1>4. CASE EndScan
  <2>1. /\ ~finished /\ finished' = TRUE /\ PublishSelection
        /\ UNCHANGED <<posted, lost, intruded>>
        /\ IF AutoSelects(candidates') THEN SelectUnlessTaken(candidates'[1].frequency)
           ELSE UNCHANGED selected
    BY <1>4 DEF EndScan, FinishMonitor
  <2>2. selected = Nothing /\ answer = Nothing
        /\ gate \notin {"ask", "await", "handoff", "calling", "started"}
    BY <2>1 DEF ChoiceOK, OneSelection, OneAnswer
  <2>3. OneSelection'
    BY <1>1, <2>1, <2>2, SelectedOnce
  <2>4. OneAnswer'
    BY <1>1, <2>1, <2>2 DEF ChoiceOK, OneAnswer
  <2>5. candidates' \in Seq(Candidate)
    BY <1>4, FinishOK DEF EndScan, StartupOK, SelectorTypeOK
  <2>6. ASSUME selected' # Nothing
        PROVE  /\ autoSelectTop /\ candidates' # <<>>
               /\ candidates'[1] = [frequency |-> selected', qualified |-> TRUE]
    <3>1. AutoSelects(candidates') /\ selected' = candidates'[1].frequency
      BY <2>1, <2>2, <2>6 DEF SelectUnlessTaken, NoFrequency, Nothing
    <3>2. autoSelectTop /\ candidates' # <<>> /\ candidates'[1].qualified
      BY <3>1, Zenon DEF AutoSelects
    <3>3. candidates'[1] \in Candidate
      BY <2>5, <3>2
    <3>4. candidates'[1].qualified = TRUE
      <4>1. candidates'[1].qualified \in BOOLEAN
        BY <3>3, Zenon DEF Candidate
      <4> QED BY <3>2, <4>1, Zenon
    <3>5. candidates'[1] = [frequency |-> candidates'[1].frequency,
                            qualified |-> candidates'[1].qualified]
      BY <3>3 DEF Candidate
    <3> QED BY <3>1, <3>2, <3>4, <3>5
  <2>7. ChoiceMade'
    BY <1>1, <2>2, <2>6, Zenon DEF ChoiceMade
  <2> QED BY <2>3, <2>4, <2>7 DEF ChoiceOK
<1>5. ASSUME NEW value, SelectFromText(value)
      PROVE  /\ UNCHANGED <<finished, candidates>> /\ Shown' = Shown
             /\ (selected # Nothing => selected' = selected)
             /\ (selected' # Nothing => finished')
  <2>1. UNCHANGED <<finished, candidates>>
    BY <1>5 DEF SelectFromText
  <2>2. selected' = selected \/ (finished /\ selected = Nothing)
    BY <1>5 DEF SelectFromText, SelectUnlessTaken, NoFrequency, Nothing
  <2>3. selected # Nothing => finished
    BY DEF ChoiceOK, OneSelection
  <2> QED BY <2>1, <2>2, <2>3 DEF Shown
<1>6. CASE TakeAnswer
  <2>1. /\ posted # Nothing /\ posted' = Nothing /\ SelectFromText(posted)
        /\ PublishSelection /\ UNCHANGED <<lost, intruded>>
    BY <1>6 DEF TakeAnswer
  <2>2. posted = answer /\ ~autoSelectTop
    BY <2>1 DEF ChoiceOK, OneAnswer
  <2>3. OneSelection'
    BY <1>1, <1>5, <2>1, SelectedOnce
  <2>4. OneAnswer'
    BY <1>1, <1>2, <1>5, <2>1 DEF ChoiceOK, OneAnswer
  <2>5. /\ selected' = IF selected = Nothing THEN Meaning(answer) ELSE selected
        /\ Meaning(answer) # Nothing
    BY <2>1, AnswerSelects
  <2>6. ~intruded /\ selected # Nothing => selected = Meaning(answer)
    BY <2>2 DEF ChoiceOK, ChoiceMade
  <2>7. ChoiceMade'
    BY <1>1, <1>2, <2>1, <2>2, <2>5, <2>6 DEF ChoiceMade
  <2> QED BY <2>3, <2>4, <2>7 DEF ChoiceOK
<1>7. CASE Intrude
  <2>1. PICK value \in Answers : SelectFromText(value)
    BY <1>7 DEF Intrude
  <2>2. intruded' = TRUE /\ PublishSelection /\ UNCHANGED <<posted, lost>>
    BY <1>7 DEF Intrude
  <2>3. OneSelection'
    BY <1>1, <1>5, <2>1, <2>2, SelectedOnce
  <2>4. OneAnswer'
    BY <1>1, <1>2, <1>5, <2>1, <2>2 DEF ChoiceOK, OneAnswer
  <2>5. ChoiceMade'
    BY <1>1, <1>5, <2>1, <2>2 DEF ChoiceOK, ChoiceMade
  <2> QED BY <2>3, <2>4, <2>5 DEF ChoiceOK
<1> QED BY <1>3, <1>4, <1>6, <1>7

LEMMA ChoiceOKNext ==
  ASSUME StartupOK, ChoiceOK, [StartupNext]_startupVars
  PROVE  ChoiceOK'
<1>1. CASE UNCHANGED startupVars
  <2>1. UNCHANGED <<selectorVars, linkVars, loopVars, gate>>
    BY <1>1 DEF startupVars, gateVars
  <2> QED BY <2>1, ChoiceKept
<1> QED BY <1>1, SelectorKeepsChoice, GateLearns, GateKeepsChoice DEF StartupNext, Ended

LEMMA ChoiceOKAlways == StartupSpec => [](StartupOK /\ ChoiceOK)
BY StartupOKInit, StartupOKNext, ChoiceOKInit, ChoiceOKNext, PTL DEF StartupSpec

\* The controller starts on the operator's choice, or on the first candidate left to the
\* selector, unless another node writes on the topic; also when the answer or the
\* selection is lost, comes late, or comes after the shutdown.
THEOREM StartsAsChosenAlways == StartupSpec => []StartsAsChosen
<1>1. ChoiceOK => StartsAsChosen
  BY DEF ChoiceOK, OneSelection, ChoiceMade, StartsAsChosen
<1> QED BY <1>1, ChoiceOKAlways, PTL

\* Whatever the gate lets the operator answer, the selector selects a frequency when it
\* gets there: their two readings of the text agree.
THEOREM AnswerTakenAlways == StartupSpec => []AnswerTaken
<1>1. ChoiceOK => AnswerTaken
  BY DEF ChoiceOK, ChoiceMade, AnswerTaken, NoFrequency, Nothing
<1> QED BY <1>1, ChoiceOKAlways, PTL

-----------------------------------------------------------------------------
(* The gate decides *)

\* Where the gate is, and whether the deadline there has passed.
At(place) == gate = place
Early(place) == gate = place /\ deadline = FALSE
Late(place) == gate = place /\ deadline = TRUE

\* A step of the function itself: it leaves a loop, or the deadline of the loop passes.
LEMMA GateAdvances ==
  ASSUME GateRuns
  PROVE  /\ At("connecting") => At("scan")'
         /\ Early("scan") => Late("scan")' \/ Decided'
         /\ Late("scan") => Decided'
         /\ At("ask") => Early("await")'
         /\ Early("await") => Late("await")' \/ At("handoff")' \/ Decided'
         /\ Late("await") => At("handoff")' \/ Decided'
         /\ At("handoff") => At("calling")' \/ Decided'
         /\ At("calling") => Decided'
<1> USE DEF At, Early, Late, Decided
<1>1. CASE Connect \/ Lapse \/ Proceed
  BY <1>1 DEF Connect, Lapse, Proceed
<1>2. CASE autoSelectTop /\ DoNotAsk
  BY <1>2 DEF DoNotAsk
<1>3. CASE GiveUp
  BY <1>3 DEF GiveUp, Fail
<1>4. CASE SkipHandoff \/ RefuseHandoff
  BY <1>4 DEF SkipHandoff, RefuseHandoff, StartChecked, Fail
<1>5. CASE CallHandoff \/ HandoffTimesOut
  BY <1>5 DEF CallHandoff, HandoffTimesOut, Fail
<1>6. CASE RestoreGui
  BY <1>6 DEF RestoreGui
<1> QED BY <1>1, <1>2, <1>3, <1>4, <1>5, <1>6 DEF GateRuns

\* Nobody else takes the function back or puts its deadline off.
LEMMA GateStays ==
  ASSUME [StartupNext]_startupVars, ~GateRuns
  PROVE  \/ UNCHANGED <<gate, deadline>>
         \/ gate = "scan" /\ At("ask")'
         \/ gate = "ask" /\ Early("await")'
         \/ gate = "calling" /\ Decided'
<1> USE DEF At, Early, Decided
<1>1. CASE Scan \/ EndScan \/ TakeAnswer \/ Intrude
  BY <1>1 DEF Scan, EndScan, TakeAnswer, Intrude, gateVars
<1>2. CASE Show
  BY <1>2 DEF Show, HearCandidates
<1>3. CASE Answer
  BY <1>3 DEF Answer, Ask
<1>4. CASE Hear
  BY <1>4 DEF Hear, HearSelection
<1>5. CASE ServeGui
  BY <1>5 DEF ServeGui, GuiServes, StartChecked, Fail
<1>6. CASE StopLaunch
  BY <1>6 DEF StopLaunch, Shutdown
<1>7. CASE Ended \/ UNCHANGED startupVars
  BY <1>7 DEF Ended, startupVars, gateVars
<1> QED BY <1>1, <1>2, <1>3, <1>4, <1>5, <1>6, <1>7 DEF StartupNext

\* Whatever is lost or fails to answer, the gate starts the controller or ends the launch,
\* unless the operator keeps it waiting, if the function always has a next step.
THEOREM GateDecidesFair == FairStartupSpec /\ []GateGoesOn => GateDecides
<1>1. StartupOK =>
        \/ At("connecting") \/ Early("scan") \/ Late("scan") \/ At("ask")
        \/ Early("await") \/ Late("await") \/ At("handoff") \/ At("calling") \/ Decided
  BY DEF StartupOK, GateOK, Waits, Ends, Decided, At, Early, Late
<1>2. StartupOK /\ At("scan") => Early("scan") \/ Late("scan")
  BY DEF StartupOK, GateOK, At, Early, Late
<1>3. [StartupNext]_startupVars =>
        /\ At("connecting") => (At("connecting") \/ At("scan"))'
        /\ Early("scan") => (Early("scan") \/ Late("scan") \/ At("ask") \/ Decided)'
        /\ Late("scan") => (Late("scan") \/ At("ask") \/ Decided)'
        /\ At("ask") => (At("ask") \/ Early("await"))'
        /\ Early("await") =>
             (Early("await") \/ Late("await") \/ At("handoff") \/ Decided)'
        /\ Late("await") => (Late("await") \/ At("handoff") \/ Decided)'
        /\ At("handoff") => (At("handoff") \/ At("calling") \/ Decided)'
        /\ At("calling") => (At("calling") \/ Decided)'
  <2> SUFFICES ASSUME [StartupNext]_startupVars, ~GateRuns
               PROVE  \/ UNCHANGED <<gate, deadline>>
                      \/ gate = "scan" /\ At("ask")'
                      \/ gate = "ask" /\ Early("await")'
                      \/ gate = "calling" /\ Decided'
    BY GateAdvances DEF At, Early, Late
  <2> QED BY GateStays
<1>4. <<GateRuns>>_startupVars =>
        /\ At("connecting") => At("scan")'
        /\ Early("scan") => (Late("scan") \/ Decided)'
        /\ Late("scan") => Decided'
        /\ Early("await") => (Late("await") \/ At("handoff") \/ Decided)'
        /\ Late("await") => (At("handoff") \/ Decided)'
        /\ At("handoff") => (At("calling") \/ Decided)'
        /\ At("calling") => Decided'
  BY GateAdvances
<1>5. GateGoesOn /\ ~Decided /\ ~At("ask") => ENABLED <<GateRuns>>_startupVars
  BY DEF GateGoesOn, At
<1>6. gate # "ask" <=> ~At("ask")
  BY DEF At
<1>7. ~(At("connecting") /\ At("ask")) /\ ~(Early("scan") /\ At("ask"))
      /\ ~(Late("scan") /\ At("ask")) /\ ~(Early("await") /\ At("ask"))
      /\ ~(Late("await") /\ At("ask")) /\ ~(At("handoff") /\ At("ask"))
      /\ ~(At("calling") /\ At("ask"))
  BY DEF At, Early, Late
<1> QED
  BY <1>1, <1>2, <1>3, <1>4, <1>5, <1>6, <1>7, StartupOKInit, StartupOKNext, PTL
     DEF FairStartupSpec, StartupSpec, GateDecides

-----------------------------------------------------------------------------
(* The GUI gets its RC publisher back *)

\* What may be on its way to the GUI: the call of the handoff, the call of the hook, both.
TakeOver == <<"suspend">>
GiveBack == <<"restore">>
Both == <<"suspend", "restore">>

LEMMA CallsAre ==
  /\ Append(<<>>, "suspend") = TakeOver /\ Append(<<>>, "restore") = GiveBack
  /\ Append(TakeOver, "restore") = Both
  /\ Tail(TakeOver) = <<>> /\ Tail(GiveBack) = <<>> /\ Tail(Both) = GiveBack
  /\ Head(TakeOver) = "suspend" /\ Head(GiveBack) = "restore" /\ Head(Both) = "suspend"
  /\ TakeOver # <<>> /\ GiveBack # <<>> /\ Both # <<>>
  /\ TakeOver # GiveBack /\ TakeOver # Both /\ GiveBack # Both
<1> USE DEF TakeOver, GiveBack, Both
<1>1. Append(<<>>, "suspend") = TakeOver /\ Append(<<>>, "restore") = GiveBack
  OBVIOUS
<1>2. Append(TakeOver, "restore") = Both
  <2> DEFINE words == {"suspend", "restore"}
  <2>1. TakeOver \in Seq(words) /\ Both \in Seq(words) /\ Len(TakeOver) = 1
    OBVIOUS
  <2>2. /\ Append(TakeOver, "restore") \in Seq(words)
        /\ Len(Append(TakeOver, "restore")) = 2
        /\ Append(TakeOver, "restore")[1] = "suspend"
        /\ Append(TakeOver, "restore")[2] = "restore"
    BY <2>1, AppendProperties
  <2>3. Len(Both) = 2 /\ Both[1] = "suspend" /\ Both[2] = "restore"
    OBVIOUS
  <2> HIDE DEF TakeOver, Both
  <2> QED BY <2>1, <2>2, <2>3, SeqEqual
<1>3. Tail(TakeOver) = <<>> /\ Tail(GiveBack) = <<>>
  OBVIOUS
<1>4. Tail(Both) = GiveBack
  OBVIOUS
<1>5. Head(TakeOver) = "suspend" /\ Head(GiveBack) = "restore" /\ Head(Both) = "suspend"
  OBVIOUS
<1>6. TakeOver # <<>> /\ GiveBack # <<>> /\ Both # <<>>
  OBVIOUS
<1>7. TakeOver # GiveBack /\ TakeOver # Both /\ GiveBack # Both
  OBVIOUS
<1> QED BY <1>1, <1>2, <1>3, <1>4, <1>5, <1>6, <1>7

\* The GUI is suspended only after the gate has decided, by the call the gate made; from
\* then on the hook is still to run, or its call is the last on the way, or it missed the
\* service.
Traced ==
  /\ calls \in {<<>>, TakeOver, GiveBack, Both}
  /\ gate \in Waits => calls = <<>> /\ gui # "suspended" /\ ~restored
  /\ gate = "calling" => calls = TakeOver /\ ~restored
  /\ calls \in {TakeOver, Both} => gui = "manual" /\ handoff # "false"
  /\ calls \in {GiveBack, Both} => restored
  /\ calls = TakeOver /\ restored => missed
  /\ gui = "suspended" =>
       handoff # "false" /\ (IF restored THEN missed \/ calls = GiveBack ELSE calls = <<>>)

LEMMA TracedNext ==
  ASSUME StartupOK, Traced, [StartupNext]_startupVars
  PROVE  Traced'
<1> USE DEF Traced
<1>1. CASE ServeGui
  <2>1. gate \in {"calling"} \cup Ends
    BY <1>1, CallsAre DEF ServeGui, GuiServes, StartupOK, GateOK, Waits
  <2>2. gate' \in Ends /\ UNCHANGED <<handoff, restored, missed>>
    BY <1>1, <2>1, CallsAre DEF ServeGui, GuiServes, StartChecked, Fail, Ends
  <2>3. \/ calls = TakeOver /\ calls' = <<>> /\ gui' \in {gui, "suspended"}
        \/ calls = Both /\ calls' = GiveBack /\ gui' \in {gui, "suspended"}
        \/ calls = GiveBack /\ calls' = <<>> /\ gui' = "manual"
    BY <1>1, CallsAre DEF ServeGui, GuiServes
  <2> QED BY <2>2, <2>3, CallsAre DEF Ends, Waits
<1>2. CASE CallHandoff
  BY <1>2, CallsAre DEF CallHandoff, StartupOK, GateOK, Waits
<1>3. CASE RestoreGui
  <2>1. gate \in Ends /\ ~restored /\ restored' = TRUE /\ UNCHANGED <<gate, handoff, gui>>
    BY <1>3 DEF RestoreGui, Decided, Ends
  <2>2. \/ handoff # "false" /\ gui # "absent" /\ calls' = Append(calls, "restore")
             /\ UNCHANGED missed
        \/ handoff # "false" /\ missed' = TRUE /\ UNCHANGED calls
        \/ handoff = "false" /\ UNCHANGED <<calls, missed>>
    BY <1>3 DEF RestoreGui, RestoreService
  <2>3. calls \in {<<>>, TakeOver}
    BY <2>1, CallsAre
  <2> QED BY <2>1, <2>2, <2>3, CallsAre DEF Ends, Waits
<1>4. ASSUME UNCHANGED guiVars,
             \/ gate' = gate \/ (gate' \in Waits /\ gate \in Waits)
             \/ (gate' \in Ends /\ gate \in Waits) \/ (gate = "calling" /\ gate' \in Ends)
      PROVE  Traced'
  <2>1. UNCHANGED <<handoff, gui, calls, restored, missed>>
    BY <1>4 DEF guiVars
  <2> QED BY <1>4, <2>1, CallsAre DEF Ends, Waits
<1>5. CASE GateRuns /\ ~CallHandoff /\ ~RestoreGui
  <2>1. UNCHANGED guiVars
    BY <1>5 DEF GateRuns, Connect, DoNotAsk, Lapse, GiveUp, Proceed, SkipHandoff,
                RefuseHandoff, HandoffTimesOut
  <2>2. \/ gate' = gate \/ (gate' \in Waits /\ gate \in Waits)
        \/ (gate' \in Ends /\ gate \in Waits) \/ (gate = "calling" /\ gate' \in Ends)
    BY <1>5 DEF GateRuns, Connect, DoNotAsk, Lapse, GiveUp, Proceed, SkipHandoff,
                RefuseHandoff, HandoffTimesOut, StartChecked, Fail, Waits, Ends
  <2> QED BY <1>4, <2>1, <2>2
<1>6. CASE Show \/ Answer \/ Hear \/ StopLaunch
  <2>1. /\ UNCHANGED guiVars
        /\ gate' = gate \/ (gate' \in Waits /\ gate \in Waits)
    BY <1>6 DEF Show, HearCandidates, Answer, Ask, Hear, HearSelection, StopLaunch, Shutdown,
                Waits
  <2> QED BY <1>4, <2>1
<1>7. CASE Scan \/ EndScan \/ TakeAnswer \/ Intrude \/ Ended \/ UNCHANGED startupVars
  <2>1. UNCHANGED <<gate, guiVars>>
    BY <1>7 DEF Scan, EndScan, TakeAnswer, Intrude, Ended, startupVars, gateVars
  <2> QED BY <1>4, <2>1
<1> QED
  BY <1>1, <1>2, <1>3, <1>5, <1>6, <1>7 DEF StartupNext, GateRuns

LEMMA TracedAlways == StartupSpec => [](StartupOK /\ Traced)
<1>1. StartupInit => Traced
  BY CallsAre DEF StartupInit, GateInit, Traced, Waits
<1> QED BY <1>1, StartupOKInit, StartupOKNext, TracedNext, PTL DEF StartupSpec

\* The shutdown and the hook are for good, and a suspended GUI stays so until it is given
\* back.
LEMMA ShutdownKeeps ==
  ASSUME StartupOK, Traced, [StartupNext]_startupVars
  PROVE  /\ isShutdown => isShutdown'
         /\ restored => restored'
         /\ gui = "suspended" => gui' \in {"suspended", "manual"}
<1>1. CASE ServeGui
  BY <1>1 DEF ServeGui, GuiServes, StartChecked, Fail, StartupOK, GateOK
<1>2. CASE GateRuns
  BY <1>2 DEF GateRuns, Connect, DoNotAsk, Lapse, GiveUp, Proceed, SkipHandoff,
              RefuseHandoff, HandoffTimesOut, CallHandoff, RestoreGui, StartChecked, Fail,
              guiVars
<1>3. CASE Show \/ Answer \/ Hear \/ StopLaunch
  BY <1>3 DEF Show, HearCandidates, Answer, Ask, Hear, HearSelection, StopLaunch, Shutdown,
              guiVars
<1>4. CASE Scan \/ EndScan \/ TakeAnswer \/ Intrude \/ Ended \/ UNCHANGED startupVars
  BY <1>4 DEF Scan, EndScan, TakeAnswer, Intrude, Ended, startupVars, gateVars, guiVars
<1> QED BY <1>1, <1>2, <1>3, <1>4 DEF StartupNext

\* A launch that ends, at any point of the handoff, gives the GUI its RC publisher back or
\* missed its service, if the hook has its turn and the GUI can serve what has got there.
THEOREM GuiReturnedFair ==
  FairStartupSpec /\ []GateGoesOn /\ []GuiAnswers => GuiReturned
<1> DEFINE Suspended == gui = "suspended"
           Returned == gui = "manual"
           Returning == calls = GiveBack
<1>1. Traced /\ StartupOK /\ Suspended =>
        Decided /\ (restored => missed \/ Returning) /\ ~Returned
  BY CallsAre DEF Traced, StartupOK, GateOK, Waits, Ends, Decided
<1>2. StartupOK /\ Traced /\ [StartupNext]_startupVars =>
        /\ isShutdown => isShutdown'
        /\ restored => restored'
        /\ Suspended => (Suspended \/ Returned)'
  BY ShutdownKeeps
<1>3. Decided /\ <<GateRuns>>_startupVars => restored'
  BY DEF Decided, GateRuns, Connect, DoNotAsk, Lapse, GiveUp, Proceed, SkipHandoff,
         RefuseHandoff, HandoffTimesOut, CallHandoff, RestoreGui
<1>4. Returning /\ <<ServeGui>>_startupVars => Returned'
  BY CallsAre DEF ServeGui, GuiServes
<1>5. GateGoesOn /\ Decided /\ isShutdown /\ ~restored => ENABLED <<GateRuns>>_startupVars
  BY DEF GateGoesOn
<1>6. GuiAnswers /\ Returning => ENABLED <<ServeGui>>_startupVars
  BY CallsAre DEF GuiAnswers
<1>7. isShutdown /\ gui = "suspended" <=> isShutdown /\ Suspended
  OBVIOUS
<1>8. gui = "manual" \/ missed <=> Returned \/ missed
  OBVIOUS
<1> HIDE DEF Suspended, Returned, Returning
<1> QED
  BY <1>1, <1>2, <1>3, <1>4, <1>5, <1>6, <1>7, <1>8, TracedAlways, PTL
     DEF FairStartupSpec, StartupSpec, GuiReturned

-----------------------------------------------------------------------------
(* What the operator is offered *)

\* No tone is listed twice, so that a number of the list names one; no listed tone was
\* found in fewer windows than a later one; and what did not qualify stands beside
\* nothing that did.
Sound(list) ==
  \A i, j \in DOMAIN list :
    /\ list[i].frequency = list[j].frequency => i = j
    /\ list[i].qualified = list[j].qualified
    /\ i < j => hits[list[i].frequency] >= hits[list[j].frequency]

OfferSound == Sound(candidates)

\* An order of the sort has every tone once, and among tones that qualify alike it is an
\* order of their hits.
LEMMA OrdersSound ==
  ASSUME NEW spectrum, NEW tones \in SUBSET Tones, NEW order \in Orders(spectrum, tones),
         hits \in [Tones -> Nat],
         \A a, b \in tones : Qualified(spectrum, a) = Qualified(spectrum, b)
  PROVE  \A i, j \in DOMAIN order :
           /\ order[i] \in tones
           /\ order[i] = order[j] => i = j
           /\ i < j => hits[order[i]] >= hits[order[j]]
<1>1. IsFiniteSet(tones)
  BY BandIs, FS_Subset
<1> DEFINE n == Cardinality(tones)
<1>2. n \in Nat
  BY <1>1, FS_CardinalityType
<1>3. /\ order \in [1..n -> tones]
      /\ \A t \in tones : \E i \in 1..n : order[i] = t
      /\ \A i, j \in 1..n : i < j => ~Before(spectrum, order[j], order[i])
  BY DEF Orders
<1>4. IsFiniteSet(1..n) /\ Cardinality(1..n) = n
  BY <1>2, FS_Interval
<1>5. order \in Surjection(1..n, tones)
  BY <1>3 DEF Surjection
<1> HIDE DEF n
<1>6. order \in Injection(1..n, tones)
  BY <1>1, <1>4, <1>5, FS_SurjSameCardinalityImpliesInj DEF n
<1>7. \A i, j \in 1..n : order[i] = order[j] => i = j
  BY <1>6 DEF Injection, IsInjective
<1>8. ASSUME NEW i \in 1..n, NEW j \in 1..n, i < j
      PROVE  hits[order[i]] >= hits[order[j]]
  <2>1. /\ order[i] \in tones /\ order[j] \in tones
        /\ Qualified(spectrum, order[i]) = Qualified(spectrum, order[j])
    BY <1>3
  <2>2. hits[order[i]] \in Nat /\ hits[order[j]] \in Nat
    BY <2>1
  <2>3. ~(hits[order[j]] > hits[order[i]])
    BY <1>3, <1>8, <2>1, <2>2 DEF Before
  <2> QED BY <2>2, <2>3
<1> QED BY <1>3, <1>7, <1>8

\* A list that is cut keeps its beginning.
LEMMA CutKeeps ==
  ASSUME NEW order \in Seq(Tones)
  PROVE  /\ DOMAIN Cut(order) \subseteq DOMAIN order /\ DOMAIN Cut(order) \subseteq Int
         /\ \A i \in DOMAIN Cut(order) : Cut(order)[i] = order[i]
<1> DEFINE n == IF Len(order) < MaxCandidates THEN Len(order) ELSE MaxCandidates
<1>1. MaxCandidates \in Nat /\ Len(order) \in Nat /\ DOMAIN order = 1..Len(order)
  BY SelectorAssumption
<1>2. n \in Nat /\ n <= Len(order)
  BY <1>1
<1>3. Cut(order) = SubSeq(order, 1, n)
  BY DEF Cut
<1> HIDE DEF n
<1>4. SubSeq(order, 1, n) = [i \in 1..n |-> order[i]]
  BY <1>1, <1>2
<1> QED BY <1>1, <1>2, <1>3, <1>4

LEMMA RankedSound ==
  ASSUME NEW spectrum \in Spectra, NEW list \in Ranked(spectrum), hits \in [Tones -> Nat]
  PROVE  Sound(list)
<1> DEFINE good == {t \in DOMAIN spectrum : Qualified(spectrum, t)}
           listed(order) == [i \in DOMAIN order |->
             [frequency |-> order[i], qualified |-> Qualified(spectrum, order[i])]]
<1>1. DOMAIN spectrum \subseteq Tones /\ good \subseteq Tones
  BY DEF Spectra
<1>2. CASE windows = 0
  <2>1. DOMAIN list = {}
    BY <1>2 DEF Ranked
  <2> QED BY <2>1 DEF Sound
<1>3. CASE windows # 0
  <2>1. PICK order \in IF good # {} THEN Shortlists(spectrum, good)
                        ELSE Orders(spectrum, DOMAIN spectrum) : list = listed(Cut(order))
    BY <1>3 DEF Ranked
  <2>2. PICK tones \in SUBSET Tones :
          /\ order \in Orders(spectrum, tones)
          /\ \A a, b \in tones : Qualified(spectrum, a) = Qualified(spectrum, b)
    <3>1. CASE good # {}
      <4>1. PICK first \in good : order \in Orders(spectrum, Near(spectrum, good, first))
        BY <2>1, <3>1 DEF Shortlists
      <4>2. Near(spectrum, good, first) \subseteq good
        BY DEF Near
      <4>3. \A a, b \in good : Qualified(spectrum, a) = Qualified(spectrum, b)
        <5>1. \A a \in good : Qualified(spectrum, a)
          OBVIOUS
        <5>2. \A a \in good : Qualified(spectrum, a) = TRUE
          BY <5>1, Zenon DEF Qualified, Strong, Persistent
        <5> QED BY <5>2
      <4> QED BY <1>1, <4>1, <4>2, <4>3
    <3>2. CASE good = {}
      <4>1. \A a \in DOMAIN spectrum : ~Qualified(spectrum, a)
        BY <3>2
      <4>2. \A a \in DOMAIN spectrum : Qualified(spectrum, a) = FALSE
        BY <4>1, Zenon DEF Qualified, Strong, Persistent
      <4> QED BY <1>1, <2>1, <3>2, <4>2
    <3> QED BY <3>1, <3>2
  <2>3. \A i, j \in DOMAIN order :
          /\ order[i] \in tones
          /\ order[i] = order[j] => i = j
          /\ i < j => hits[order[i]] >= hits[order[j]]
    BY <2>2, OrdersSound
  <2>4. order \in Seq(Tones)
    BY <2>2, OrdersAre
  <2> DEFINE cut == Cut(order)
  <2>5. DOMAIN cut \subseteq DOMAIN order /\ \A i \in DOMAIN cut : cut[i] = order[i]
    BY <2>4, CutKeeps
  <2>6. list = listed(cut)
    BY <2>1
  <2> HIDE DEF cut
  <2>7. /\ DOMAIN list = DOMAIN cut
        /\ \A i \in DOMAIN list : /\ list[i].frequency = order[i]
                                  /\ list[i].qualified = Qualified(spectrum, order[i])
    BY <2>5, <2>6
  <2> HIDE DEF listed, good
  <2> SUFFICES ASSUME NEW i \in DOMAIN list, NEW j \in DOMAIN list
               PROVE  /\ list[i].frequency = list[j].frequency => i = j
                      /\ list[i].qualified = list[j].qualified
                      /\ i < j => hits[list[i].frequency] >= hits[list[j].frequency]
    BY DEF Sound
  <2>8. i \in DOMAIN order /\ j \in DOMAIN order
    BY <2>5, <2>7
  <2>9. list[i].qualified = list[j].qualified
    BY <2>2, <2>3, <2>7, <2>8
  <2> QED BY <2>3, <2>7, <2>8, <2>9
<1> QED BY <1>2, <1>3

\* What is offered once the scan is over; before, nothing is.
OfferOK == OfferSound /\ (~finished => candidates = <<>>)

LEMMA OfferNext ==
  ASSUME SelectorTypeOK, OfferOK, [StartupNext]_startupVars
  PROVE  OfferOK'
<1>1. hits \in [Tones -> Nat]
  BY DEF SelectorTypeOK
<1>2. ASSUME UNCHANGED <<hits, candidates, finished>> PROVE OfferOK'
  BY <1>2 DEF OfferOK, OfferSound, Sound
<1>3. CASE Scan
  <2>1. UNCHANGED <<candidates, finished>>
    BY <1>3 DEF Scan, OnAudio, choiceVars
  <2>2. CASE ~finished
    <3>1. DOMAIN candidates' = {} /\ candidates' = <<>>
      BY <2>1, <2>2 DEF OfferOK
    <3> QED BY <3>1 DEF OfferOK, OfferSound, Sound
  <2>3. CASE finished
    <3>1. PICK peaks \in [Tones -> 0..0] : hits' = [t \in Tones |-> hits[t] + peaks[t]]
      BY <1>3, <2>3 DEF Scan, OnAudio
    <3>2. hits' = hits
      BY <1>1, <3>1
    <3> QED BY <1>2, <2>1, <3>2
  <2> QED BY <2>2, <2>3
<1>4. CASE EndScan
  <2>1. PICK spectrum \in Spectra : candidates' \in Ranked(spectrum)
    BY <1>4 DEF EndScan, FinishMonitor
  <2>2. finished' = TRUE /\ hits' = hits
    BY <1>4 DEF EndScan, FinishMonitor, scanVars
  <2>3. Sound(candidates')
    BY <1>1, <2>1, RankedSound
  <2> QED BY <2>2, <2>3 DEF OfferOK, OfferSound, Sound
<1>5. CASE \/ TakeAnswer \/ Intrude \/ Show \/ Answer \/ Hear \/ GateRuns \/ ServeGui
           \/ StopLaunch \/ Ended \/ UNCHANGED startupVars
  <2>1. UNCHANGED <<hits, candidates, finished>>
    BY <1>5 DEF TakeAnswer, Intrude, Show, Answer, Hear, GateRuns, ServeGui, StopLaunch, Ended,
                SelectFromText, selectorVars, scanVars, choiceVars, startupVars
  <2> QED BY <1>2, <2>1
<1> QED BY <1>3, <1>4, <1>5 DEF StartupNext

\* The list the operator chooses from never names a tone twice, is in the order of the
\* evidence, and mixes no peak that is for diagnosis only with one that qualified.
THEOREM OfferSoundAlways == StartupSpec => []OfferSound
<1>1. StartupInit => OfferOK
  <2>1. StartupInit => candidates = <<>> /\ DOMAIN candidates = {}
    BY DEF StartupInit, SelectorInit
  <2> QED BY <2>1 DEF OfferOK, OfferSound, Sound
<1>2. StartupTypeOK => SelectorTypeOK
  BY DEF StartupTypeOK
<1>3. SelectorTypeOK /\ OfferOK /\ [StartupNext]_startupVars => OfferOK'
  BY OfferNext
<1>4. OfferOK => OfferSound
  BY DEF OfferOK
<1> QED BY <1>1, <1>2, <1>3, <1>4, StartupTypeCorrect, PTL DEF StartupSpec

-----------------------------------------------------------------------------
(* The launch keeps its promise *)

\* A call is on its way only for the gate that waits for it, or in a launch that is closing.
Pending == calls # <<>> => gate = "calling" \/ isShutdown

LEMMA PendingNext ==
  ASSUME StartupOK, Traced, Pending, [StartupNext]_startupVars
  PROVE  Pending'
<1>1. isShutdown => isShutdown'
  BY ShutdownKeeps
<1>2. CASE ServeGui
  <2>1. gate = "calling" => calls' = <<>>
    BY <1>2, CallsAre DEF ServeGui, GuiServes, Traced
  <2>2. calls # <<>>
    BY <1>2 DEF ServeGui, GuiServes
  <2> QED BY <1>1, <2>1, <2>2 DEF Pending
<1>3. CASE CallHandoff
  BY <1>3 DEF CallHandoff, Pending
<1>4. CASE RestoreGui
  BY <1>4 DEF RestoreGui, Pending
<1>5. CASE HandoffTimesOut
  BY <1>5 DEF HandoffTimesOut, Fail, Pending
<1>6. ASSUME calls' = calls, gate' = gate \/ gate # "calling"
      PROVE  Pending'
  BY <1>1, <1>6 DEF Pending
<1>7. CASE GateRuns /\ ~CallHandoff /\ ~RestoreGui /\ ~HandoffTimesOut
  <2>1. calls' = calls /\ gate # "calling"
    BY <1>7 DEF GateRuns, Connect, DoNotAsk, Lapse, GiveUp, Proceed, SkipHandoff,
                RefuseHandoff, guiVars
  <2> QED BY <1>6, <2>1
<1>8. CASE Show \/ Answer \/ Hear \/ StopLaunch
  <2>1. calls' = calls /\ (gate' = gate \/ gate # "calling")
    BY <1>8 DEF Show, HearCandidates, Answer, Ask, Hear, HearSelection, StopLaunch, Shutdown,
                guiVars
  <2> QED BY <1>6, <2>1
<1>9. CASE Scan \/ EndScan \/ TakeAnswer \/ Intrude \/ Ended \/ UNCHANGED startupVars
  <2>1. UNCHANGED <<calls, gate>>
    BY <1>9 DEF Scan, EndScan, TakeAnswer, Intrude, Ended, startupVars, gateVars, guiVars
  <2> QED BY <1>6, <2>1
<1> QED
  BY <1>2, <1>3, <1>4, <1>5, <1>7, <1>8, <1>9 DEF StartupNext

\* What a step of the launch does that the promise is about.
LaunchStep == [Launch!Next]_(Launch!vars)

\* The selector selects at most once, inside its band.
LEMMA SelectorLaunches ==
  ASSUME Scan \/ EndScan \/ TakeAnswer \/ Intrude
  PROVE  LaunchStep
<1>1. UNCHANGED gateVars
  BY DEF Scan, EndScan, TakeAnswer, Intrude
<1>2. UNCHANGED <<StartedOn, isShutdown, Owner, Settled>>
  BY <1>1 DEF gateVars, loopVars, guiVars, StartedOn, Owner, Settled
<1>3. selected' = selected \/ (selected = Nothing /\ selected' \in MinHz..MaxHz)
  <2>1. ASSUME NEW hz, SelectUnlessTaken(hz)
        PROVE  selected' = selected \/ (selected = Nothing /\ selected' \in MinHz..MaxHz)
    BY <2>1 DEF SelectUnlessTaken, NoFrequency, Nothing
  <2>2. CASE Scan
    BY <2>2 DEF Scan, OnAudio, choiceVars
  <2>3. CASE EndScan
    BY <2>1, <2>3 DEF EndScan, FinishMonitor
  <2>4. CASE TakeAnswer \/ Intrude
    BY <2>1, <2>4 DEF TakeAnswer, Intrude, SelectFromText
  <2> QED BY <2>2, <2>3, <2>4
<1> QED
  BY <1>2, <1>3 DEF LaunchStep, Launch!Next, Launch!Choose, Launch!vars

\* What starts the controller starts it on the selection.
LEMMA StartsOnSelection ==
  ASSUME StartupOK, ChoiceOK, gate \in {"handoff", "calling"}, UNCHANGED <<selected, heard>>,
         StartChecked
  PROVE  /\ StartedOn = Nothing /\ selected # Nothing
         /\ isShutdown => isShutdown' /\ StartedOn' = Nothing
         /\ ~isShutdown => ~isShutdown' /\ StartedOn' = selected
<1>1. heard = selected /\ heard # Nothing /\ heard \in MinHz..MaxHz
  BY DEF ChoiceOK, OneSelection, StartupOK, GateOK
<1>2. InScan(heard)
  BY <1>1, BandAssumption, SelectorAssumption DEF InScan
<1> QED
  BY <1>1, <1>2 DEF StartChecked, StartedOn

LEMMA GateLaunches ==
  ASSUME StartupOK, ChoiceOK, Traced, GateRuns
  PROVE  LaunchStep
<1> USE DEF LaunchStep, Launch!Next, Launch!vars
<1>1. UNCHANGED selected
  BY DEF GateRuns, selectorVars, choiceVars
<1>2. CASE Connect \/ DoNotAsk \/ Lapse \/ Proceed
  <2>1. UNCHANGED <<guiVars, isShutdown>> /\ gate # "started" /\ gate' # "started"
    BY <1>2 DEF Connect, DoNotAsk, Lapse, Proceed
  <2>2. UNCHANGED <<StartedOn, Owner, Settled>>
    BY <2>1 DEF guiVars, StartedOn, Owner, Settled
  <2> QED BY <1>1, <2>1, <2>2
<1>3. CASE GiveUp \/ RefuseHandoff \/ HandoffTimesOut
  <2>1. UNCHANGED guiVars /\ gate # "started" /\ gate' # "started"
        /\ (UNCHANGED isShutdown \/ isShutdown' = TRUE)
    BY <1>3 DEF GiveUp, RefuseHandoff, HandoffTimesOut, Fail
  <2>2. UNCHANGED <<StartedOn, Owner, Settled>>
    BY <2>1 DEF guiVars, StartedOn, Owner, Settled
  <2>3. isShutdown \in BOOLEAN
    BY DEF StartupOK, GateOK
  <2> QED BY <1>1, <2>1, <2>2, <2>3 DEF Launch!Close
<1>4. CASE SkipHandoff
  <2>1. gate = "handoff" /\ StartChecked /\ UNCHANGED <<heard, guiVars>>
    BY <1>4 DEF SkipHandoff, loopVars
  <2>2. UNCHANGED <<Owner, Settled>>
    BY <2>1 DEF guiVars, Owner, Settled
  <2>3. isShutdown \in BOOLEAN /\ isShutdown' \in BOOLEAN
    BY <2>1 DEF StartupOK, GateOK, StartChecked, Fail
  <2>4. /\ StartedOn = Nothing /\ selected # Nothing
        /\ isShutdown => isShutdown' /\ StartedOn' = Nothing
        /\ ~isShutdown => ~isShutdown' /\ StartedOn' = selected
    BY <1>1, <2>1, StartsOnSelection
  <2> QED BY <1>1, <2>2, <2>3, <2>4 DEF Launch!Start
<1>5. CASE CallHandoff
  <2>1. gate = "handoff" /\ gate' = "calling" /\ UNCHANGED <<isShutdown, gui, restored>>
    BY <1>5 DEF CallHandoff
  <2>2. UNCHANGED <<StartedOn, Owner>> /\ ~restored
    BY <2>1 DEF StartedOn, Owner, Traced, Waits
  <2>3. UNCHANGED Settled
    BY <2>1, <2>2 DEF Settled
  <2> QED BY <1>1, <2>1, <2>2, <2>3
<1>6. CASE RestoreGui
  <2>1. isShutdown /\ ~restored /\ UNCHANGED <<gate, heard, isShutdown, gui>>
    BY <1>6 DEF RestoreGui, loopVars
  <2>2. UNCHANGED <<StartedOn, Owner>> /\ ~Settled
    BY <2>1 DEF StartedOn, Owner, Settled
  <2>3. Settled = FALSE /\ Settled' \in BOOLEAN
    BY <2>1, <2>2 DEF Settled
  <2> QED BY <1>1, <2>1, <2>2, <2>3 DEF Launch!Settle
<1> QED
  BY <1>2, <1>3, <1>4, <1>5, <1>6 DEF GateRuns

LEMMA GuiLaunches ==
  ASSUME StartupOK, ChoiceOK, Traced, Pending, ServeGui
  PROVE  LaunchStep
<1> USE DEF LaunchStep, Launch!Next, Launch!vars
<1>1. UNCHANGED <<selected, heard, restored>> /\ calls # <<>>
  BY DEF ServeGui, GuiServes, selectorVars, choiceVars, loopVars
<1>2. Settled = FALSE /\ Settled' \in BOOLEAN
  BY <1>1 DEF Settled
<1>3. isShutdown \in BOOLEAN
  BY DEF StartupOK, GateOK
<1>4. CASE gate = "calling"
  <2>1. calls = TakeOver /\ Settled' = FALSE /\ StartedOn = Nothing
    BY <1>1, <1>4 DEF Traced, Settled, StartedOn
  <2>2. gui = "manual" /\ Owner = "gui"
    BY <2>1 DEF Traced, Owner
  <2>3. CASE gui' = "suspended" /\ StartChecked
    <3>1. Owner' = "controller"
      BY <2>3 DEF Owner
    <3>2. /\ selected # Nothing
          /\ isShutdown => isShutdown' /\ StartedOn' = Nothing
          /\ ~isShutdown => ~isShutdown' /\ StartedOn' = selected
      BY <1>1, <1>4, <2>3, StartsOnSelection
    <3>3. isShutdown' \in BOOLEAN
      BY <1>3, <2>3 DEF StartChecked, Fail
    <3> QED
      BY <1>1, <1>2, <1>3, <2>1, <2>2, <3>1, <3>2, <3>3 DEF Launch!Start, Launch!YieldLate
  <2>4. CASE UNCHANGED gui /\ Fail
    <3>1. UNCHANGED <<Owner, StartedOn>> /\ isShutdown' = TRUE
      BY <1>4, <2>4 DEF Owner, StartedOn, Fail
    <3> QED BY <1>1, <1>2, <1>3, <2>1, <3>1 DEF Launch!Close
  <2> QED
    BY <1>4, <2>1, <2>3, <2>4, CallsAre DEF ServeGui, GuiServes
<1>5. CASE gate # "calling"
  <2>1. isShutdown = TRUE /\ UNCHANGED <<gate, isShutdown>>
    <3>1. calls = TakeOver \/ calls = Both \/ calls = GiveBack
      BY <1>1 DEF Traced
    <3>2. UNCHANGED <<gate, isShutdown>>
      BY <1>5, <3>1, CallsAre DEF ServeGui, GuiServes
    <3> QED BY <1>1, <1>3, <1>5, <3>2 DEF Pending
  <2>2. UNCHANGED StartedOn
    BY <1>1, <2>1 DEF StartedOn
  <2>3. gui' = "suspended" \/ UNCHANGED gui
        \/ (calls = GiveBack /\ calls' = <<>> /\ gui' = "manual")
    BY CallsAre DEF ServeGui, GuiServes, Traced
  <2>4. CASE gui' = "suspended"
    <3>1. Owner' = "controller"
      BY <2>4 DEF Owner
    <3> QED BY <1>1, <1>2, <2>1, <2>2, <3>1 DEF Launch!YieldLate
  <2>5. CASE UNCHANGED gui
    <3>1. UNCHANGED Owner
      BY <2>5 DEF Owner
    <3> QED BY <1>1, <1>2, <2>1, <2>2, <3>1 DEF Launch!Settle
  <2>6. CASE calls = GiveBack /\ calls' = <<>> /\ gui' = "manual"
    <3>1. Owner' = "gui" /\ restored
      BY <2>6 DEF Owner, Traced
    <3>2. Settled' = TRUE
      BY <1>1, <2>6, <3>1 DEF Settled
    <3> QED BY <1>1, <1>2, <2>1, <2>2, <3>1, <3>2 DEF Launch!Settle
  <2> QED BY <2>3, <2>4, <2>5, <2>6
<1> QED BY <1>4, <1>5

LEMMA LaunchNext ==
  ASSUME StartupOK, ChoiceOK, Traced, Pending, [StartupNext]_startupVars
  PROVE  LaunchStep
<1>1. CASE Show \/ Answer \/ Hear
  <2>1. UNCHANGED <<guiVars, isShutdown, selected>> /\ gate # "started" /\ gate' # "started"
    BY <1>1 DEF Show, HearCandidates, Answer, Ask, Hear, HearSelection, selectorVars,
                choiceVars
  <2>2. UNCHANGED <<StartedOn, Owner, Settled>>
    BY <2>1 DEF guiVars, StartedOn, Owner, Settled
  <2> QED BY <2>1, <2>2 DEF LaunchStep, Launch!vars
<1>2. CASE StopLaunch
  <2>1. UNCHANGED <<guiVars, gate, heard, selected>> /\ isShutdown' = TRUE /\ ~isShutdown
    BY <1>2 DEF StopLaunch, Shutdown, selectorVars, choiceVars, loopVars
  <2>2. UNCHANGED <<StartedOn, Owner, Settled>>
    BY <2>1 DEF guiVars, StartedOn, Owner, Settled
  <2> QED BY <2>1, <2>2 DEF LaunchStep, Launch!Next, Launch!Close
<1>3. CASE Ended \/ UNCHANGED startupVars
  <2>1. UNCHANGED startupVars
    BY <1>3 DEF Ended
  <2>2. UNCHANGED <<selected, isShutdown, gate, heard, gui, restored, calls>>
    BY <2>1 DEF startupVars, selectorVars, choiceVars, gateVars, loopVars, guiVars
  <2>3. UNCHANGED <<StartedOn, Owner, Settled>>
    BY <2>2 DEF StartedOn, Owner, Settled
  <2> QED BY <2>2, <2>3 DEF LaunchStep, Launch!vars
<1> QED
  BY <1>1, <1>2, <1>3, SelectorLaunches, GateLaunches, GuiLaunches DEF StartupNext

\* Whoever chooses and whichever message is lost or late, the launch is what it promises:
\* one frequency for good, a controller that starts on it and at most once, and a GUI that
\* yields to a controller that starts and gets its publisher back for good.
THEOREM LaunchImplemented == StartupSpec => ImplementsLaunch
<1>1. StartupInit => Launch!Init
  <2> SUFFICES ASSUME StartupInit PROVE Launch!Init
    OBVIOUS
  <2>1. /\ selected = Nothing /\ gate = "connecting" /\ gui # "suspended"
        /\ isShutdown = FALSE /\ restored = FALSE
    BY DEF StartupInit, SelectorInit, GateInit, NoFrequency, Nothing
  <2>2. StartedOn = Nothing /\ Owner = "gui" /\ Settled = FALSE
    BY <2>1 DEF StartedOn, Owner, Settled
  <2> QED BY <2>1, <2>2 DEF Launch!Init
<1>2. StartupInit => Pending
  BY DEF StartupInit, GateInit, Pending
<1>3. StartupOK /\ Traced /\ Pending /\ [StartupNext]_startupVars => Pending'
  BY PendingNext
<1>4. StartupOK /\ ChoiceOK /\ Traced /\ Pending /\ [StartupNext]_startupVars =>
        [Launch!Next]_(Launch!vars)
  BY LaunchNext DEF LaunchStep
<1> QED
  BY <1>1, <1>2, <1>3, <1>4, ChoiceOKAlways, TracedAlways, PTL
     DEF StartupSpec, ImplementsLaunch, Launch!Spec

=============================================================================
