---------------------------- MODULE TradingModes ----------------------------
(***************************************************************************)
(* Trading modes (services/trading_mode.py, api/routes/trading_mode.py):    *)
(* one of four presets of limits and sizes, held in memory, logged as a    *)
(* row with every change and restored from the latest row at start-up.     *)
(* One signal meanwhile reads the preset again and again on its way: for   *)
(* its expiry, its size, the frequency limits, the free slots and the      *)
(* label of the recorded trade (main.py, trade_frequency_controller.py,    *)
(* execution_portfolio_gate.py, trade_recorder.py).                        *)
(***************************************************************************)
EXTENDS Naturals, Sequences

CONSTANTS
  None,
  Setters,      \* requests to change the mode that may be under way at once
  DailyCap,     \* per mode: entries a day
  MaxSets       \* bound: changes of the mode

Modes == {"conservative", "balanced", "aggressive", "scalper"}
Stages == <<"expiry", "size", "frequency", "slots", "label">>

\* Every mode has a cap, and no mode is none.
PresetConstants == DailyCap \in [Modes -> Nat] /\ None \notin Modes

VARIABLES
  mode,         \* in memory; None while the process is down
  rows,         \* the modes logged, oldest first
  setting,      \* per request: the mode it has set but not logged yet, or None
  latest,       \* the mode that was set last
  confirmed,    \* a scalper request was confirmed
  unsure,       \* since the last clean change: a row was lost or two requests overlapped
  read,         \* per stage passed: the preset the signal read there
  midway,       \* the mode changed while the signal was on its way
  today,        \* entries made today
  sets

vars == <<mode, rows, setting, latest, confirmed, unsure, read, midway, today, sets>>

Init ==
  /\ mode = "balanced" /\ latest = "balanced" /\ rows = <<>>
  /\ setting = [s \in Setters |-> None]
  /\ confirmed = FALSE /\ unsure = FALSE
  /\ read = <<>> /\ midway = FALSE
  /\ today = 0 /\ sets = 0

\* set_mode: memory first.  Scalper needs a confirmation (the route).
Set(s) ==
  /\ mode # None /\ setting[s] = None /\ sets < MaxSets
  /\ \E m \in Modes, sure \in BOOLEAN :
       /\ m = "scalper" => sure
       /\ mode' = m /\ latest' = m
       /\ setting' = [setting EXCEPT ![s] = m]
       /\ confirmed' = (confirmed \/ (m = "scalper" /\ sure))
       /\ midway' = (midway \/ (read # <<>> /\ m # mode))
  /\ unsure' = \E o \in Setters \ {s} : setting[o] # None
  /\ sets' = sets + 1
  /\ UNCHANGED <<rows, read, today>>

\* ... then the row, which may fail to be written: a warning in the log.
Log(s) ==
  /\ setting[s] # None
  /\ setting' = [setting EXCEPT ![s] = None]
  /\ \/ rows' = Append(rows, setting[s]) /\ UNCHANGED unsure
     \/ rows' = rows /\ unsure' = TRUE
  /\ UNCHANGED <<mode, latest, confirmed, read, midway, today, sets>>

\* The process dies: memory and the rows not yet written are gone.
Crash ==
  /\ mode # None
  /\ mode' = None
  /\ unsure' = (unsure \/ \E s \in Setters : setting[s] # None)
  /\ setting' = [s \in Setters |-> None]
  /\ read' = <<>> /\ midway' = FALSE
  /\ UNCHANGED <<rows, latest, confirmed, today, sets>>

\* rehydrate: the latest row, or balanced when there is none or it cannot be read.
Rehydrate ==
  /\ mode = None
  /\ \/ /\ mode' = IF rows = <<>> THEN "balanced" ELSE rows[Len(rows)]
        /\ UNCHANGED unsure
     \/ /\ mode' = "balanced"
        /\ unsure' = TRUE
  /\ UNCHANGED <<rows, setting, latest, confirmed, read, midway, today, sets>>

\* The signal reads the preset at its next stage; the frequency controller
\* refuses it when the day's entries have reached the cap.
Pass ==
  /\ mode # None /\ Len(read) < Len(Stages)
  /\ Stages[Len(read) + 1] = "frequency" => today < DailyCap[mode]
  /\ read' = Append(read, mode)
  /\ today' = IF Len(read') = Len(Stages) THEN today + 1 ELSE today
  /\ UNCHANGED <<mode, rows, setting, latest, confirmed, unsure, midway, sets>>

\* The next signal; the one before may have been dropped anywhere.
NextSignal ==
  /\ read # <<>>
  /\ read' = <<>> /\ midway' = FALSE
  /\ UNCHANGED <<mode, rows, setting, latest, confirmed, unsure, today, sets>>

Next ==
  \/ \E s \in Setters : Set(s) \/ Log(s)
  \/ Crash \/ Rehydrate \/ Pass \/ NextSignal

-----------------------------------------------------------------------------
TypeOK ==
  /\ mode \in Modes \cup {None} /\ latest \in Modes
  /\ rows \in Seq(Modes) /\ Len(rows) <= MaxSets
  /\ setting \in [Setters -> Modes \cup {None}]
  /\ read \in Seq(Modes) /\ Len(read) <= Len(Stages)
  /\ today \in Nat

\* The mode in memory is the one that was set last, across restarts, unless a
\* row was lost or two requests overlapped; and scalper is never on that
\* nobody confirmed.
ModeSurvives ==
  /\ mode # None /\ ~unsure => mode = latest
  /\ mode = "scalper" => confirmed

\* A trade was sized, limited and labelled by one preset, unless the mode
\* changed while its signal was on the way.
OnePresetOrMidway ==
  Len(read) = Len(Stages) /\ ~midway =>
    /\ \A i \in DOMAIN read : read[i] = read[Len(read)]
    /\ today <= DailyCap[read[Len(read)]]
=============================================================================
