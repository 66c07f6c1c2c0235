------------------------------- MODULE FieldFlight -------------------------------
(***************************************************************************)
(* The pilot's tablet (backend/routes/pilot.py, geofence.py and            *)
(* geofence_service.py): the calendar of the day, the gutter node and the  *)
(* perimeter of a job, the preflight and the launch, and the strikes of a  *)
(* contractor whose phones are met inside the perimeter of an unpaid job.  *)
(*                                                                         *)
(* One job, one contractor and one unit.  Places, names and the checks     *)
(* that are always green are left out.  Every handler awaits the store     *)
(* between its reads and writes.                                           *)
(***************************************************************************)
EXTENDS Integers, FiniteSets

CONSTANTS
    Tablets,        \* calls under way
    MaxFieldCalls   \* Init gives it to fieldCallsLeft or withholds it

ASSUME FieldAssumption == MaxFieldCalls \in Nat

VARIABLES
    calendar,       \* copies of the day's jobs, and whether the weather is cleared
    site,           \* perimeters and two-factor loops: how many were made, which are active
    node,           \* node links without and with a deployment
    flown,          \* rows of the launch log and of the authorizations
    fleet,          \* phase of the unit in memory, phase on the map, scans
    strikes,        \* contractor_blacklist: strikes and status; breaches recorded
    paid,           \* a cleared invoice is there
    tablet,         \* each call: its step and what it has read
    brokenOff,      \* history: where a call died between its two writes and none was formed since
    fieldCallsLeft

fieldVars == <<calendar, site, node, flown, fleet, strikes, paid, tablet, brokenOff,
               fieldCallsLeft>>

----------------------------------------------------------------------------
Kinds == {"zone", "loop"}

FlightPhase ==
    [PRE_FLIGHT |-> "FLIGHT_ASSESSMENT", LAUNCH |-> "LAUNCH_PROTOCOL", IN_FLIGHT |-> "IN_FLIGHT",
     SCAN |-> "IN_FLIGHT", TRANSFER |-> "DATA_TRANSFER", CONSENSUS |-> "DATA_TRANSFER",
     LANDING |-> "LANDING", COMPLETE |-> "LANDING"]

Rest == [step |-> "idle", kind |-> "none", read |-> 0]

FieldInit ==
    /\ calendar = [copies |-> 0, cleared |-> TRUE]
    /\ site = [k \in Kinds |-> [made |-> 0, active |-> {}]]
    /\ node = [linked |-> 0, deployed |-> 0]
    /\ flown = [launches |-> 0, authorized |-> {}]
    /\ fleet = [unit |-> "LANDING", map |-> "TRANSIT_TO_JOB", scans |-> 0]
    /\ strikes = [count |-> 0, restricted |-> FALSE, breaches |-> 0]
    /\ paid \in BOOLEAN
    /\ tablet = [t \in Tablets |-> Rest]
    /\ brokenOff = {}

----------------------------------------------------------------------------
Enter(t, call) ==
    /\ tablet[t] = Rest /\ fieldCallsLeft > 0
    /\ fieldCallsLeft' = fieldCallsLeft - 1
    /\ tablet' = [tablet EXCEPT ![t] = call]

Reaches(t, step) == tablet[t].step = step /\ UNCHANGED fieldCallsLeft

GoOn(t, call) == tablet' = [tablet EXCEPT ![t] = call]

Finish(t) == GoOn(t, Rest)

----------------------------------------------------------------------------
(* seed_pilot_calendar, of the first look at a day *)

OpenCalendar(t) ==
    /\ calendar.copies = 0
    /\ Enter(t, [Rest EXCEPT !.step = "clear"])
    /\ UNCHANGED <<calendar, site, node, flown, fleet, strikes, paid, brokenOff>>

ClearCalendar(t) ==
    /\ Reaches(t, "clear") /\ GoOn(t, [Rest EXCEPT !.step = "seed"])
    /\ calendar' = [calendar EXCEPT !.copies = 0]
    /\ UNCHANGED <<site, node, flown, fleet, strikes, paid, brokenOff>>

SeedCalendar(t) ==
    /\ Reaches(t, "seed") /\ Finish(t)
    /\ calendar' = [copies |-> calendar.copies + 1, cleared |-> TRUE]
    /\ UNCHANGED <<site, node, flown, fleet, strikes, paid, brokenOff>>

\* The weather closes or opens the job.
TurnWeather ==
    /\ fieldCallsLeft > 0 /\ calendar.copies > 0
    /\ calendar' = [calendar EXCEPT !.cleared = ~@]
    /\ UNCHANGED <<site, node, flown, fleet, strikes, paid, tablet, brokenOff, fieldCallsLeft>>

----------------------------------------------------------------------------
(* init_zone_for_job and post_gutter_node_link: those before are made inactive, then one is *)
(* inserted                                                                                 *)

BeginForm(t, k) ==
    /\ Enter(t, [Rest EXCEPT !.step = "retire", !.kind = k])
    /\ UNCHANGED <<calendar, site, node, flown, fleet, strikes, paid, brokenOff>>

\* Mutant of RetireActive: the new one is inserted before those there are are retired.
RetireLate(t) ==
    /\ Reaches(t, "retire")
    /\ LET k == tablet[t].kind
       IN /\ site' = [site EXCEPT ![k].active = {}, ![k].made = @ + 1]
          /\ Finish(t)
    /\ UNCHANGED <<calendar, node, flown, fleet, strikes, paid, brokenOff>>

RetireActive(t) ==
    /\ Reaches(t, "retire")
    /\ site' = [site EXCEPT ![tablet[t].kind].active = {}]
    /\ GoOn(t, [tablet[t] EXCEPT !.step = "form"])
    /\ UNCHANGED <<calendar, node, flown, fleet, strikes, paid, brokenOff>>

FormActive(t) ==
    /\ Reaches(t, "form") /\ Finish(t)
    /\ LET k == tablet[t].kind
       IN /\ site' = [site EXCEPT ![k] = [made |-> @.made + 1, active |-> @.active \cup {@.made + 1}]]
          /\ brokenOff' = brokenOff \ {k}
    /\ UNCHANGED <<calendar, node, flown, fleet, strikes, paid>>

----------------------------------------------------------------------------
(* pilot_check_node and pilot_node_deployed *)

BeginCheckNode(t) ==
    /\ node.linked + node.deployed = 0
    /\ Enter(t, [Rest EXCEPT !.step = "link"])
    /\ UNCHANGED <<calendar, site, node, flown, fleet, strikes, paid, brokenOff>>

LinkNode(t) ==
    /\ Reaches(t, "link") /\ Finish(t)
    /\ node' = [node EXCEPT !.linked = @ + 1]
    /\ UNCHANGED <<calendar, site, flown, fleet, strikes, paid, brokenOff>>

DeployNode(t) ==
    /\ node.linked > 0
    /\ Enter(t, Rest)
    /\ node' = [linked |-> node.linked - 1, deployed |-> node.deployed + 1]
    /\ UNCHANGED <<calendar, site, flown, fleet, strikes, paid, brokenOff>>

----------------------------------------------------------------------------
(* The preflight of pilot_launch and of post_authorize_launch, which read the loop and the *)
(* perimeter one after the other, in opposite orders                                       *)

BeginPreflight(t, first) ==
    /\ calendar.copies > 0 /\ calendar.cleared
    /\ \E id \in site[first].active : Enter(t, [step |-> "second", kind |-> first, read |-> id])
    /\ UNCHANGED <<calendar, site, node, flown, fleet, strikes, paid, brokenOff>>

PassPreflight(t) ==
    /\ Reaches(t, "second")
    /\ LET second == IF tablet[t].kind = "loop" THEN "zone" ELSE "loop"
       IN \E id \in site[second].active :
             IF second = "zone" THEN GoOn(t, [Rest EXCEPT !.step = "launch"])
             ELSE GoOn(t, [step |-> "sign", kind |-> "zone", read |-> tablet[t].read])
    /\ UNCHANGED <<calendar, site, node, flown, fleet, strikes, paid, brokenOff>>

FailPreflight(t) ==
    /\ Reaches(t, "second") /\ Finish(t)
    /\ site[IF tablet[t].kind = "loop" THEN "zone" ELSE "loop"].active = {}
    /\ UNCHANGED <<calendar, site, node, flown, fleet, strikes, paid, brokenOff>>

\* Memory first, then the log.
LaunchUnit(t) ==
    /\ Reaches(t, "launch") /\ Finish(t)
    /\ fleet' = [fleet EXCEPT !.unit = "LAUNCH_PROTOCOL"]
    /\ flown' = [flown EXCEPT !.launches = @ + 1]
    /\ UNCHANGED <<calendar, site, node, strikes, paid, brokenOff>>

SignAuthorization(t) ==
    /\ Reaches(t, "sign") /\ Finish(t)
    /\ flown' = [flown EXCEPT !.authorized = @ \cup {tablet[t].read}]
    /\ UNCHANGED <<calendar, site, node, fleet, strikes, paid, brokenOff>>

----------------------------------------------------------------------------
(* pilot_set_phase, pilot_location_heartbeat *)

SetPhase(t, target) ==
    /\ Enter(t, Rest)
    /\ fleet' = [unit |-> FlightPhase[target], map |-> target,
                 scans |-> fleet.scans + IF target = "COMPLETE" THEN 1 ELSE 0]
    /\ UNCHANGED <<calendar, site, node, flown, strikes, paid, brokenOff>>

\* The tablet reports the phase it believes in, TRANSIT_TO_JOB if it names none.
Heartbeat(t) ==
    /\ Enter(t, Rest)
    /\ fleet' = [fleet EXCEPT !.map = "TRANSIT_TO_JOB"]
    /\ UNCHANGED <<calendar, site, node, flown, strikes, paid, brokenOff>>

----------------------------------------------------------------------------
(* post_simulate_breach by a phone of the contractor's tripwire *)

BeginBreach(t) ==
    /\ site["zone"].active # {}
    /\ Enter(t, [Rest EXCEPT !.step = "invoice"])
    /\ UNCHANGED <<calendar, site, node, flown, fleet, strikes, paid, brokenOff>>

PayInvoice ==
    /\ ~paid /\ fieldCallsLeft > 0
    /\ paid' = TRUE
    /\ UNCHANGED <<calendar, site, node, flown, fleet, strikes, tablet, brokenOff, fieldCallsLeft>>

\* Only a breach without a cleared invoice goes on to a strike.
RecordBreach(t) ==
    /\ Reaches(t, "invoice")
    /\ IF paid THEN Finish(t) /\ UNCHANGED strikes
       ELSE /\ GoOn(t, [Rest EXCEPT !.step = "count"])
            /\ strikes' = [strikes EXCEPT !.breaches = @ + 1]
    /\ UNCHANGED <<calendar, site, node, flown, fleet, paid, brokenOff>>

ReadStrikes(t) ==
    /\ Reaches(t, "count") /\ GoOn(t, [Rest EXCEPT !.step = "strike", !.read = strikes.count])
    /\ UNCHANGED <<calendar, site, node, flown, fleet, strikes, paid, brokenOff>>

\* Mutant of Restricts: the count before this strike is compared.
RestrictsFirst(count) == count >= 1

Restricts(count) == count >= 2

\* increment_strike writes the count it read and the status of that count.
Strike(t) ==
    /\ Reaches(t, "strike") /\ Finish(t)
    /\ LET count == tablet[t].read + 1
       IN strikes' = [strikes EXCEPT !.count = count, !.restricted = Restricts(count)]
    /\ UNCHANGED <<calendar, site, node, flown, fleet, paid, brokenOff>>

----------------------------------------------------------------------------
\* The server dies within a call, or the store raises.
BreakOff(t) ==
    /\ tablet[t] # Rest /\ Finish(t)
    /\ brokenOff' = brokenOff \cup IF tablet[t].step = "form" THEN {tablet[t].kind} ELSE {}
    /\ UNCHANGED <<calendar, site, node, flown, fleet, strikes, paid, fieldCallsLeft>>

FieldNext ==
    \/ TurnWeather \/ PayInvoice
    \/ \E t \in Tablets :
        \/ OpenCalendar(t) \/ ClearCalendar(t) \/ SeedCalendar(t)
        \/ \E k \in Kinds : BeginForm(t, k) \/ BeginPreflight(t, k)
        \/ RetireActive(t) \/ FormActive(t)
        \/ BeginCheckNode(t) \/ LinkNode(t) \/ DeployNode(t)
        \/ PassPreflight(t) \/ FailPreflight(t) \/ LaunchUnit(t) \/ SignAuthorization(t)
        \/ \E target \in DOMAIN FlightPhase : SetPhase(t, target)
        \/ Heartbeat(t)
        \/ BeginBreach(t) \/ RecordBreach(t) \/ ReadStrikes(t) \/ Strike(t)
        \/ BreakOff(t)

FieldSpec == FieldInit /\ fieldCallsLeft \in Nat /\ [][FieldNext]_fieldVars

----------------------------------------------------------------------------
(* Properties *)

\* A perimeter or loop that was formed stands until a call replaces it: however the calls
\* overlap, there is none only while one of them is between its two writes, or since one
\* died there and until the next is formed.
PerimeterStands ==
    \A k \in Kinds : site[k].made > 0 /\ site[k].active = {} =>
        k \in brokenOff \/ \E t \in Tablets : tablet[t].step = "form" /\ tablet[t].kind = k

\* "One active zone per job" (docstring of init_zone_for_job).
OneActiveZone == Cardinality(site["zone"].active) <= 1

\* A contractor is restricted after two recorded breaches of unpaid jobs at the earliest, and
\* is never said to have more strikes than breaches.  Overlapping strikes may be lost, and a
\* late one may lift a restriction.
RestrictedWasWarned ==
    /\ strikes.restricted => strikes.breaches >= 2
    /\ strikes.count <= strikes.breaches
=============================================================================
