-------------------------- MODULE FrequencySelector --------------------------
(***************************************************************************)
(* pinger_frequency_selector.cpp: the scan of the audio stream for tones   *)
(* that persist, the ranking of the peaks and the one selection.           *)
(*                                                                         *)
(* Frequencies are integers, tones of the scan lie farther apart than      *)
(* candidate_cluster_hz_ and candidate_separation_hz_.  A spectrum is what *)
(* the code derives from it: which tones peak, and how far each stands out *)
(* of the band (snr) and of its neighbours (prominence), as the level of   *)
(* the thresholds it reaches: 1 persistent_min_..., 2 min_....             *)
(***************************************************************************)
EXTENDS Integers, FiniteSets, Sequences

CONSTANTS
  MinHz, MaxHz,       (* min_frequency_, max_frequency_                          *)
  Tones,              (* the frequencies that may peak                           *)
  Frames,             (* the lengths of audio messages, in frames                *)
  FftSize, HopSize,   (* fft_size_, fft_hop_size_                                *)
  MaxWindows,         (* the windows that fit into monitor_s_                    *)
  MaxBuffered,        (* bounds a run: the selector itself does not              *)
  MinimumHits,        (* minimum_candidate_hits_                                 *)
  PersistentPercent,  (* persistent_min_ratio_                                   *)
  RelativeLevels,     (* relative_to_top_snr_db_, in levels                      *)
  MaxCandidates       (* max_candidates_                                         *)

ASSUME SelectorAssumption ==
  /\ MinHz \in Nat /\ MaxHz \in Nat /\ Tones \subseteq MinHz..MaxHz
  /\ Frames \subseteq Nat \ {0}
  /\ FftSize \in Nat \ {0} /\ HopSize \in 1..FftSize
  /\ MaxWindows \in Nat /\ MaxBuffered \in Nat
  /\ MinimumHits \in Nat \ {0} /\ PersistentPercent \in 1..100
  /\ RelativeLevels \in Nat
  /\ MaxCandidates \in Nat \ {0} /\ MaxCandidates < MinHz

NoFrequency == 0

VARIABLES
  autoSelectTop,  (* auto_select_top_                                            *)
  buffered,       (* the length of each of channel_samples_                      *)
  windows,        (* fft_windows_                                                *)
  hits,           (* the hits of repeated_candidates_ near each tone             *)
  finished,       (* monitor_finished_                                           *)
  candidates,     (* final_candidates_                                           *)
  selected        (* the published selection; NoFrequency: selected_ is false    *)

scanVars     == <<buffered, windows, hits>>
choiceVars   == <<finished, candidates, selected>>
selectorVars == <<autoSelectTop, scanVars, choiceVars>>

Candidate == [frequency : Tones, qualified : BOOLEAN]

-----------------------------------------------------------------------------
(* The scan *)

\* Mutation: a message is good for one window.
OneWindowIn(frames) == IF frames < FftSize THEN 0 ELSE 1
\* The windows the loop of on_audio takes from so many frames.
WindowsIn(frames) == IF frames < FftSize THEN 0 ELSE (frames - FftSize) \div HopSize + 1

OnAudio ==
  \E n \in Frames :
    LET taken == IF finished THEN 0 ELSE WindowsIn(buffered + n) IN
      /\ windows + taken <= MaxWindows
      /\ buffered + n <= MaxBuffered
      /\ buffered' = buffered + n - taken * HopSize
      /\ windows' = windows + taken
      /\ \E peaks \in [Tones -> 0..taken] : hits' = [t \in Tones |-> hits[t] + peaks[t]]
      /\ UNCHANGED <<autoSelectTop, choiceVars>>

-----------------------------------------------------------------------------
(* The ranking *)

Peak == [snr : 0..2, prominence : 0..2]

\* A spectrum says of some tones how they stand out.
Spectra == UNION {[peaks -> Peak] : peaks \in SUBSET Tones}

Strong(peak, count) == peak.snr = 2 /\ peak.prominence = 2 /\ count >= MinimumHits
Persistent(peak, count) ==
  /\ peak.snr >= 1 /\ peak.prominence >= 1 /\ count >= MinimumHits
  /\ 100 * count >= PersistentPercent * windows
Qualified(spectrum, t) ==
  Strong(spectrum[t], hits[t]) \/ Persistent(spectrum[t], hits[t])

\* Tone a is sorted before tone b: qualified first, then by hits, then by snr.
Before(spectrum, a, b) ==
  IF Qualified(spectrum, a) # Qualified(spectrum, b) THEN Qualified(spectrum, a)
  ELSE IF hits[a] # hits[b] THEN hits[a] > hits[b]
  ELSE spectrum[a].snr > spectrum[b].snr

\* Every order std::sort may leave tones in.
Orders(spectrum, tones) ==
  {order \in [1..Cardinality(tones) -> tones] :
     /\ \A t \in tones : \E i \in DOMAIN order : order[i] = t
     /\ \A i, j \in DOMAIN order : i < j => ~Before(spectrum, order[j], order[i])}

\* The peaks that are not far below the first of the list.
Near(spectrum, tones, first) ==
  IF RelativeLevels = 0 THEN tones
  ELSE {t \in tones : spectrum[t].snr >= spectrum[first].snr - RelativeLevels}

\* Whichever may come first decides which of the others stay.
Shortlists(spectrum, tones) ==
  UNION {{order \in Orders(spectrum, Near(spectrum, tones, first)) : order[1] = first} :
           first \in {t \in tones : \A u \in tones : ~Before(spectrum, u, t)}}

Cut(order) ==
  SubSeq(order, 1, IF Len(order) < MaxCandidates THEN Len(order) ELSE MaxCandidates)

\* ranked(true), or ranked(false) when nothing qualifies.
Ranked(spectrum) ==
  LET good == {t \in DOMAIN spectrum : Qualified(spectrum, t)}
      listed(order) == [i \in DOMAIN order |->
        [frequency |-> order[i], qualified |-> Qualified(spectrum, order[i])]]
  IN IF windows = 0 THEN {<<>>}
     ELSE {listed(Cut(order)) : order \in IF good # {} THEN Shortlists(spectrum, good)
                                          ELSE Orders(spectrum, DOMAIN spectrum)}

-----------------------------------------------------------------------------
(* The selection *)

\* select: the first frequency of the band is published, whoever asks for it.
SelectUnlessTaken(frequency) ==
  selected' = IF selected = NoFrequency /\ frequency \in MinHz..MaxHz
              THEN frequency ELSE selected

\* select_from_text: the number of a candidate or a frequency.
SelectFromText(value) ==
  /\ IF ~finished THEN UNCHANGED selected
     ELSE IF value \in DOMAIN candidates
          THEN SelectUnlessTaken(candidates[value].frequency)
          ELSE SelectUnlessTaken(value)
  /\ UNCHANGED <<autoSelectTop, scanVars, finished, candidates>>

\* Mutation: the first candidate is selected, qualified or not.
AutoSelectsAnyway(list) == autoSelectTop /\ list # <<>>
AutoSelects(list) == autoSelectTop /\ list # <<>> /\ list[1].qualified

\* finish_monitor, when monitor_s_ have passed.
FinishMonitor ==
  /\ ~finished /\ finished' = TRUE
  /\ \E spectrum \in Spectra : candidates' \in Ranked(spectrum)
  /\ IF AutoSelects(candidates') THEN SelectUnlessTaken(candidates'[1].frequency)
     ELSE UNCHANGED selected
  /\ UNCHANGED <<autoSelectTop, scanVars>>

-----------------------------------------------------------------------------
SelectorInit ==
  /\ autoSelectTop \in BOOLEAN
  /\ buffered = 0 /\ windows = 0 /\ hits = [t \in Tones |-> 0]
  /\ finished = FALSE /\ candidates = <<>> /\ selected = NoFrequency

\* Every variable is in its domain; above all the scan keeps up with the audio: no
\* message leaves a whole window behind.
SelectorTypeOK ==
  /\ autoSelectTop \in BOOLEAN /\ finished \in BOOLEAN
  /\ buffered \in 0..MaxBuffered /\ (~finished => buffered < FftSize)
  /\ windows \in 0..MaxWindows /\ hits \in [Tones -> 0..windows]
  /\ candidates \in Seq(Candidate) /\ Len(candidates) <= MaxCandidates
  /\ selected \in MinHz..MaxHz \cup {NoFrequency}

=============================================================================
