---------------------------- MODULE PingerStartup ----------------------------
(***************************************************************************)
(* The start of a mission from the interactive launch: the selector scans, *)
(* the gate shows what it found and has the operator choose, or leaves the *)
(* choice to the selector, and starts the controller on the selection it   *)
(* hears.                                                                  *)
(*                                                                         *)
(* The topics differ in what they keep: the candidates are transient_local *)
(* and reach a gate that connects late; a selection published before that  *)
(* is lost, and so may be an answer.                                       *)
(***************************************************************************)
EXTENDS FrequencySelector, LaunchGate

\* The launch file gives its scan range to the selector.
ASSUME BandAssumption == ScanMin = MinHz /\ ScanMax = MaxHz

VARIABLES
  posted,    (* the operator's answer on manual_selection, Nothing when there is none *)
  onWay,     (* the selection on its way to the gate, likewise                        *)
  lost,      (* history: the answer was lost                                          *)
  intruded   (* history: another node has published on manual_selection               *)

linkVars    == <<posted, onWay, lost, intruded>>
startupVars == <<selectorVars, gateVars, linkVars>>

-----------------------------------------------------------------------------
(* The selector *)

\* A new selection reaches the subscriptions there are.
PublishSelection ==
  onWay' = IF selected' # selected /\ gate # "connecting" THEN selected' ELSE onWay

Scan == OnAudio /\ UNCHANGED <<gateVars, linkVars>>

EndScan == FinishMonitor /\ PublishSelection /\ UNCHANGED <<gateVars, posted, lost, intruded>>

TakeAnswer ==
  /\ posted # Nothing /\ posted' = Nothing
  /\ SelectFromText(posted) /\ PublishSelection
  /\ UNCHANGED <<gateVars, lost, intruded>>

\* Somebody else writes on the topic, or a selector with a terminal reads from it.
Intrude ==
  /\ ~intruded /\ intruded' = TRUE
  /\ \E value \in Answers : SelectFromText(value)
  /\ PublishSelection
  /\ UNCHANGED <<gateVars, posted, lost>>

-----------------------------------------------------------------------------
(* The gate *)

Show ==
  /\ finished /\ HearCandidates([i \in DOMAIN candidates |-> candidates[i].frequency])
  /\ UNCHANGED <<selectorVars, linkVars>>

Answer ==
  /\ ~autoSelectTop
  /\ \E value \in Answers :
       /\ Ask(value)
       /\ \/ posted' = value /\ UNCHANGED lost
          \/ lost' = TRUE /\ UNCHANGED posted
  /\ UNCHANGED <<selectorVars, onWay, intruded>>

Hear ==
  /\ onWay # Nothing /\ HearSelection(onWay) /\ onWay' = Nothing
  /\ UNCHANGED <<selectorVars, posted, lost, intruded>>

GateRuns ==
  /\ UNCHANGED <<selectorVars, linkVars>>
  /\ \/ Connect \/ (autoSelectTop /\ DoNotAsk) \/ Lapse \/ GiveUp \/ Proceed
     \/ SkipHandoff \/ RefuseHandoff \/ CallHandoff \/ HandoffTimesOut \/ RestoreGui

ServeGui == GuiServes /\ UNCHANGED <<selectorVars, linkVars>>

StopLaunch == Shutdown /\ UNCHANGED <<selectorVars, linkVars>>

\* Nothing is left to do.
Ended == isShutdown /\ restored /\ calls = <<>> /\ UNCHANGED startupVars

-----------------------------------------------------------------------------
StartupInit ==
  /\ SelectorInit /\ GateInit
  /\ posted = Nothing /\ onWay = Nothing /\ lost = FALSE /\ intruded = FALSE

StartupNext ==
  \/ Scan \/ EndScan \/ TakeAnswer \/ Intrude
  \/ Show \/ Answer \/ Hear \/ GateRuns \/ ServeGui \/ StopLaunch \/ Ended

StartupSpec == StartupInit /\ [][StartupNext]_startupVars

\* launch goes on with its function and its hook; the clocks of its deadlines run.
FairStartupSpec == StartupSpec /\ WF_startupVars(GateRuns)

-----------------------------------------------------------------------------
(* Properties *)

\* Every variable is in its domain.
StartupTypeOK ==
  /\ SelectorTypeOK
  /\ gate \in {"connecting", "scan", "ask", "await", "handoff", "calling",
               "started", "failed", "stopped"}
  /\ ranked \in Seq(Tones) /\ answer \in Answers \cup {Nothing}
  /\ heard \in MinHz..MaxHz \cup {Nothing}
  /\ deadline \in BOOLEAN /\ isShutdown \in BOOLEAN
  /\ handoff \in {"false", "auto", "true"} /\ gui \in {"absent", "manual", "suspended"}
  /\ calls \in Seq({"suspend", "restore"}) /\ Len(calls) <= 2
  /\ restored \in BOOLEAN /\ missed \in BOOLEAN
  /\ posted \in Answers \cup {Nothing} /\ onWay \in MinHz..MaxHz \cup {Nothing}
  /\ lost \in BOOLEAN /\ intruded \in BOOLEAN

\* What the operator meant with an answer to the list that was shown.
Meaning(value) == IF value \in DOMAIN ranked THEN ranked[value] ELSE value

\* The controller starts on the one selection of this launch; unless somebody else
\* writes on the topic that is the operator's choice from the list shown, or, left to
\* the selector, the first candidate, which has qualified.
StartsAsChosen ==
  gate = "started" =>
    /\ heard = selected
    /\ intruded
       \/ IF autoSelectTop THEN candidates[1] = [frequency |-> heard, qualified |-> TRUE]
          ELSE heard = Meaning(answer)

\* An answer that the gate lets pass is never refused by the selector: once it has got
\* there, a frequency is selected.
AnswerTaken ==
  gate = "await" /\ answer # Nothing /\ posted = Nothing /\ ~lost => selected # NoFrequency

\* Whatever is lost or fails to answer, the gate starts the controller or ends the
\* launch; only the operator may keep it waiting.
GateDecides == []<>(gate # "ask") => <>Decided

\* A launch that ends, at any point of the handoff, gives the GUI its RC publisher back,
\* if the GUI serves its calls and its service is found.
GuiReturned ==
  WF_startupVars(ServeGui) =>
    [](isShutdown /\ gui = "suspended" => <>(gui = "manual" \/ missed))

-----------------------------------------------------------------------------
(* What the interactive launch promises *)

StartedOn == IF gate = "started" THEN heard ELSE Nothing
Owner == IF gui = "suspended" THEN "controller" ELSE "gui"
Settled == restored /\ calls = <<>>

Launch == INSTANCE HomingLaunch WITH
  Band <- MinHz..MaxHz, None <- Nothing, choice <- selected, started <- StartedOn,
  closing <- isShutdown, owner <- Owner, settled <- Settled

\* The selector, the operator, the gate and its shutdown hook keep that promise, whichever
\* of their messages are lost or late, the call of a handoff that timed out included.
ImplementsLaunch == Launch!Spec

-----------------------------------------------------------------------------
(* What the progress rests on *)

\* Until the gate has decided it has a next step, whoever else is silent, unless the
\* operator is asked; the hook has one after it.
GateGoesOn ==
  (~Decided /\ gate # "ask") \/ (Decided /\ isShutdown /\ ~restored)
    => ENABLED <<GateRuns>>_startupVars

\* A call that has got to the GUI can be served.
GuiAnswers == calls # <<>> => ENABLED <<ServeGui>>_startupVars

=============================================================================
