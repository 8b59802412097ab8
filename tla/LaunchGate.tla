----------------------------- MODULE LaunchGate ------------------------------
(***************************************************************************)
(* _start_real_homing_after_selection of the interactive launch, which     *)
(* lets the controller start once a frequency is selected, with its RC     *)
(* handoff from the simulator GUI and the restoring at shutdown.           *)
(*                                                                         *)
(* launch runs these functions one at a time, to their end: the restore    *)
(* hook waits for the gate.  The GUI is not part of this repository; it    *)
(* serves the calls it gets in their order.                                *)
(***************************************************************************)
EXTENDS Integers, Sequences

CONSTANTS
  ScanMin, ScanMax,  (* scan_min_frequency_hz, scan_max_frequency_hz            *)
  Answers            (* what the operator may type, as numbers                  *)

ASSUME GateAssumption ==
  ScanMin \in Nat \ {0} /\ ScanMax \in Nat /\ Answers \subseteq Nat

Nothing == 0

VARIABLES
  gate,        (* where the function is: connecting, scan, ask, await, handoff,  *)
               (* calling; or how it ended: started, failed, stopped             *)
  ranked,      (* the frequencies it shows, in their order                       *)
  answer,      (* the operator's choice                                          *)
  heard,       (* selected_frequency[-1], Nothing while the list is empty        *)
  deadline,    (* the deadline of the loop the function is in has passed         *)
  isShutdown,  (* context.is_shutdown                                            *)
  handoff,     (* gui_rc_handoff: false, auto or true                            *)
  gui,         (* the GUI's RC publisher: absent, manual or suspended            *)
  calls,       (* calls the GUI has yet to serve                                 *)
  restored,    (* the restore hook has run                                       *)
  missed       (* history: it did not find the service in its 0.75 s             *)

loopVars == <<ranked, answer, heard>>
guiVars  == <<handoff, gui, calls, restored, missed>>
gateVars == <<gate, loopVars, deadline, isShutdown, guiVars>>

Decided == gate \in {"started", "failed", "stopped"}
InScan(hz) == ScanMin <= hz /\ hz <= ScanMax

\* A RuntimeError ends the launch.
Fail == gate' = "failed" /\ isShutdown' = TRUE

-----------------------------------------------------------------------------
(* Waiting for the scan and for the operator *)

\* The node, its subscriptions and its publisher are there, discovery included.
Connect ==
  /\ gate = "connecting" /\ gate' = "scan"
  /\ UNCHANGED <<loopVars, deadline, isShutdown, guiVars>>

HearCandidates(list) ==
  /\ gate = "scan" /\ ~isShutdown /\ ranked' = list
  /\ gate' = "ask"
  /\ UNCHANGED <<answer, heard, deadline, isShutdown, guiVars>>

\* Mutation: as many numbers are taken as candidates can be.
TakesAnyOfFive(value) == value \in 1..5 \/ InScan(value)
Takes(value) == value \in DOMAIN ranked \/ InScan(value)

\* The operator gives an answer that passes; any other is asked for again.  The wait
\* for the selection has a deadline of its own.
Ask(value) ==
  /\ gate = "ask" /\ Takes(value)
  /\ answer' = value /\ gate' = "await" /\ deadline' = FALSE
  /\ UNCHANGED <<ranked, heard, isShutdown, guiVars>>

\* With auto_select_top nobody is asked.
DoNotAsk ==
  /\ gate = "ask" /\ gate' = "await" /\ deadline' = FALSE
  /\ UNCHANGED <<loopVars, isShutdown, guiVars>>

-----------------------------------------------------------------------------
(* Waiting for the selection *)

\* The subscription queues what comes before the loop; the newest counts.
HearSelection(frequency) ==
  /\ gate \in {"scan", "ask", "await"} /\ heard' = frequency
  /\ UNCHANGED <<gate, ranked, answer, deadline, isShutdown, guiVars>>

\* Mutation: the deadline is put off again when it has passed.
LapseAgain ==
  /\ gate \in {"scan", "await"} /\ deadline' = ~deadline
  /\ UNCHANGED <<gate, loopVars, isShutdown, guiVars>>
Lapse ==
  /\ gate \in {"scan", "await"} /\ ~deadline /\ deadline' = TRUE
  /\ UNCHANGED <<gate, loopVars, isShutdown, guiVars>>

\* A loop ends without what it waits for.
GiveUp ==
  /\ \/ gate = "scan" \/ (gate = "await" /\ heard = Nothing)
  /\ IF isShutdown THEN gate' = "stopped" /\ UNCHANGED isShutdown
     ELSE deadline /\ Fail
  /\ UNCHANGED <<loopVars, deadline, guiVars>>

Proceed ==
  /\ gate = "await" /\ heard # Nothing /\ gate' = "handoff"
  /\ UNCHANGED <<loopVars, deadline, isShutdown, guiVars>>

-----------------------------------------------------------------------------
(* RC handoff *)

\* Mutation: the handoff of a launch that shuts down is followed by the start.
StartInShutdown ==
  IF InScan(heard) THEN gate' = "started" /\ UNCHANGED isShutdown ELSE Fail
\* What follows the handoff.
StartChecked ==
  IF isShutdown THEN gate' = "stopped" /\ UNCHANGED isShutdown
  ELSE IF InScan(heard) THEN gate' = "started" /\ UNCHANGED isShutdown
  ELSE Fail

\* The handoff is switched off, or there is no service in 0.75 s and auto allows it.
SkipHandoff ==
  /\ gate = "handoff" /\ handoff \in {"false", "auto"}
  /\ StartChecked
  /\ UNCHANGED <<loopVars, deadline, guiVars>>

RefuseHandoff ==
  /\ gate = "handoff" /\ handoff = "true" /\ Fail
  /\ UNCHANGED <<loopVars, deadline, guiVars>>

CallHandoff ==
  /\ gate = "handoff" /\ handoff # "false" /\ gui # "absent"
  /\ gate' = "calling" /\ calls' = Append(calls, "suspend")
  /\ UNCHANGED <<loopVars, deadline, isShutdown, handoff, gui, restored, missed>>

\* The GUI serves the call it got first; it may refuse to hand over.
GuiServes ==
  /\ calls # <<>> /\ calls' = Tail(calls)
  /\ \/ Head(calls) = "suspend" /\ gui' = "suspended"
        /\ IF gate = "calling" THEN StartChecked ELSE UNCHANGED <<gate, isShutdown>>
     \/ Head(calls) = "suspend" /\ UNCHANGED gui
        /\ IF gate = "calling" THEN Fail ELSE UNCHANGED <<gate, isShutdown>>
     \/ Head(calls) = "restore" /\ gui' = "manual" /\ UNCHANGED <<gate, isShutdown>>
  /\ UNCHANGED <<loopVars, deadline, handoff, restored, missed>>

\* No response in 3 s; the call is on its way all the same.
HandoffTimesOut ==
  /\ gate = "calling" /\ Fail
  /\ UNCHANGED <<loopVars, deadline, guiVars>>

-----------------------------------------------------------------------------
(* Shutdown *)

\* The operator stops the launch, or a process it watches has ended.
Shutdown ==
  /\ ~isShutdown /\ isShutdown' = TRUE
  /\ UNCHANGED <<gate, loopVars, deadline, guiVars>>

\* Mutation: the service of the handoff is called again.
RestoreCall == "suspend"
RestoreService == "restore"

\* _restore_gui_rc_on_shutdown.
RestoreGui ==
  /\ isShutdown /\ Decided /\ ~restored /\ restored' = TRUE
  /\ \/ handoff # "false" /\ gui # "absent"
        /\ calls' = Append(calls, RestoreService) /\ UNCHANGED missed
     \/ handoff # "false" /\ missed' = TRUE /\ UNCHANGED calls
     \/ handoff = "false" /\ UNCHANGED <<calls, missed>>
  /\ UNCHANGED <<gate, loopVars, deadline, isShutdown, handoff, gui>>

-----------------------------------------------------------------------------
GateInit ==
  /\ gate = "connecting" /\ ranked = <<>> /\ answer = Nothing /\ heard = Nothing
  /\ deadline = FALSE /\ isShutdown = FALSE
  /\ handoff \in {"false", "auto", "true"} /\ gui \in {"absent", "manual"}
  /\ calls = <<>> /\ restored = FALSE /\ missed = FALSE

=============================================================================
