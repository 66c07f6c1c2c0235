------------------------------- MODULE WeatherGates -------------------------------
(***************************************************************************)
(* The weather gates of the survey (backend/server.py): the gate of phase  *)
(* one, the pulse during a mission and the search for a window to          *)
(* reschedule to, each with thresholds of its own over the same hours.     *)
(*                                                                         *)
(* A forecast is calm but for a few hours.  Rain is in hundredths of an    *)
(* inch, wind in tenths of a mile per hour, clouds and probability in      *)
(* percent; the gate and the windows see the same forecast.                *)
(***************************************************************************)
EXTENDS Integers, FiniteSets, FiniteSetsExt

CONSTANTS
    Skies,          \* what the weather may be in an hour other than calm
    RoughHours,     \* hours that may be rough
    MaxRough,       \* how many of them are
    Slots,          \* hours in the evening at which a flight may start
    MaxLooks        \* Init gives it to looksLeft or withholds it

ASSUME WeatherAssumption ==
    /\ \A sky \in Skies : {sky.rain, sky.probability, sky.wind, sky.clouds} \subseteq Nat
    /\ {MaxRough, MaxLooks} \subseteq Nat /\ Slots \subseteq Int /\ RoughHours \subseteq Int

VARIABLES
    rough,          \* the weather of the rough hours
    windows,        \* the slots suggested
    gate,           \* what phase one said at the last slot: the slot, whether the weather
                    \* service answered, and each gate
    pulse,          \* whether the pulse recommended to abort in the same hour
    looksLeft

weatherVars == <<rough, windows, gate, pulse, looksLeft>>

----------------------------------------------------------------------------
Calm == [rain |-> 0, probability |-> 0, wind |-> 0, clouds |-> 0]

Hour(h) == IF h \in DOMAIN rough THEN rough[h] ELSE Calm

Hours(first, last) == MapThenSumSet(LAMBDA h : Hour(h).rain, first .. last)

Clouds(first, last) == MapThenSumSet(LAMBDA h : Hour(h).clouds, first .. last)

Likely(first, last) == Max({Hour(h).probability : h \in first .. last})

NoGate == [slot |-> -1, answered |-> FALSE, moisture |-> "none", solar |-> "none",
           front |-> "none", wind |-> "none"]

WeatherInit ==
    /\ rough \in UNION {[hours -> Skies] : hours \in {S \in SUBSET RoughHours :
                                                       Cardinality(S) <= MaxRough}}
    /\ windows = {} /\ gate = NoGate /\ pulse = FALSE

----------------------------------------------------------------------------
\* _classify_open_meteo at an hour: a day back, twelve hours back, the two hours to come.
Measured(h) ==
    [rain |-> Hours(h - 24, h - 1), clouds |-> Clouds(h - 12, h - 1),
     probability |-> Likely(h + 1, h + 2), front |-> Hours(h + 1, h + 2), wind |-> Hour(h).wind]

Grade(value, warn, fail) ==
    IF value > fail THEN "FAIL" ELSE IF value > warn THEN "WARN" ELSE "PASS"

\* _astm_phase1; without an answer of the weather service every gate fails.
RunGates(h, answered) ==
    /\ looksLeft > 0 /\ looksLeft' = looksLeft - 1
    /\ LET m == Measured(h)
       IN /\ gate' = IF answered
                     THEN [slot |-> h, answered |-> TRUE, moisture |-> Grade(m.rain, 1, 5),
                           solar |-> Grade(m.clouds, 50 * 12, 70 * 12),
                           front |-> IF m.probability > 30 \/ m.front > 1 THEN "FAIL" ELSE "PASS",
                           wind |-> Grade(m.wind, 50, 80)]
                     ELSE [slot |-> h, answered |-> FALSE, moisture |-> "FAIL", solar |-> "FAIL",
                           front |-> "FAIL", wind |-> "FAIL"]
          /\ pulse' = (answered /\ (m.rain > 5 \/ m.clouds > 70 * 12 \/ m.probability > 30
                                    \/ m.front > 1 \/ m.wind > 80))
    /\ UNCHANGED <<rough, windows>>

\* Mutant of Suits: the day before is looked at only from the evening on.
SuitsShort(h) ==
    /\ Hours(h - 12, h - 1) <= 5
    /\ Likely(h, h + 1) <= 30 /\ Hours(h, h + 1) <= 1
    /\ Clouds(h - 12, h - 1) <= 70 * 12 /\ Hour(h).wind <= 50

\* The conditions of reschedule_suggestions and _safe_reschedule_windows, whose two hours of
\* forecast begin an hour earlier than those of the gate.
Suits(h) ==
    /\ Hours(h - 24, h - 1) <= 5
    /\ Likely(h, h + 1) <= 30 /\ Hours(h, h + 1) <= 1
    /\ Clouds(h - 12, h - 1) <= 70 * 12 /\ Hour(h).wind <= 50

\* The first three slots that suit.
SuggestWindows ==
    /\ looksLeft > 0 /\ looksLeft' = looksLeft - 1
    /\ windows' = {h \in Slots : /\ Suits(h)
                                 /\ Cardinality({g \in Slots : g < h /\ Suits(g)}) < 3}
    /\ UNCHANGED <<rough, gate, pulse>>

WeatherNext ==
    \/ SuggestWindows
    \/ \E h \in Slots, answered \in BOOLEAN : RunGates(h, answered)

WeatherSpec == WeatherInit /\ [][WeatherNext]_weatherVars

----------------------------------------------------------------------------
(* Properties *)

FailedGates == {g \in {"moisture", "solar", "front", "wind"} : gate[g] = "FAIL"}

\* The three sets of thresholds agree: whoever flies in a suggested window passes every gate,
\* unless the service does not answer or the second hour after the start is wet, which the
\* search does not look at; and the pulse recommends to abort exactly where the gate, asked
\* in that hour, fails.
WindowsPassTheGate ==
    LET wetLater == Hour(gate.slot + 2).probability > 30 \/ Hour(gate.slot + 2).rain > 0
    IN gate.answered =>
          /\ gate.slot \in windows /\ ~wetLater => FailedGates = {}
          /\ pulse <=> FailedGates # {}

\* Suggested are "windows that satisfy all 4 ASTM gates" (docstring of reschedule_suggestions).
WindowsSatisfyGates == gate.answered /\ gate.slot \in windows => FailedGates = {}
=============================================================================
