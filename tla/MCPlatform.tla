------------------------------ MODULE MCPlatform ------------------------------
(* The parts of the platform that share no state, for TLC: a behaviour calls    *)
(* one of them.                                                                 *)
EXTENDS SurveyJob, LegacyPassport, Takeoff, DatasetLab, FieldFlight, Billing, WeatherGates,
        PassportSeal, IndexReadiness

CONSTANTS c1, c2, t1, t2, p1, p2, s1, s2, none

\* Quantities and openings; -1 is the length of a slab laid backwards.
SomeMeasures == {-1, 0, 31, 200}

\* A data set with a license, one whose README alone speaks of it, one of the vendor's samples.
SomeSources ==
    {[dji |-> FALSE, tree |-> [licenses |-> {"CC0"}, readmeBy |-> FALSE, images |-> 1,
                               unsupported |-> FALSE, located |-> TRUE]],
     [dji |-> FALSE, tree |-> [licenses |-> {}, readmeBy |-> TRUE, images |-> 1,
                               unsupported |-> FALSE, located |-> FALSE]],
     [dji |-> TRUE, tree |-> [licenses |-> {}, readmeBy |-> FALSE, images |-> 1,
                              unsupported |-> TRUE, located |-> TRUE]]}

\* Single commands, and profiles of the runner.
SomePlans ==
    {<<"dry_run">>, <<"acquire">>, <<"license", "inventory", "candidate">>,
     <<"license", "inventory", "reconstruct">>}

\* A dull hour, a wet one, a windy one, and a storm.
SomeSkies ==
    {[rain |-> 0, probability |-> 0, wind |-> 0, clouds |-> 100],
     [rain |-> 3, probability |-> 40, wind |-> 0, clouds |-> 100],
     [rain |-> 0, probability |-> 0, wind |-> 60, clouds |-> 0],
     [rain |-> 6, probability |-> 0, wind |-> 90, clouds |-> 0]}

\* One of each kind that INDEX_SPECS has.
SomeIndexes ==
    <<[name |-> "uniq_tenant_passport_seq", unique |-> TRUE, critical |-> TRUE],
      [name |-> "idx_passport_head_revision", unique |-> FALSE, critical |-> FALSE],
      [name |-> "uniq_outbox_idempotency_key", unique |-> TRUE, critical |-> FALSE]>>

\* As an estimator gives them: 1'-8", whose feet are rounded, three as a number, 2'-3-3/4",
\* 11/4", 1/2", minus a foot, a number without a unit, one over nothing, and nothing.
Written(feet, whole, num, den) ==
    [text |-> TRUE, feet |-> feet, whole |-> whole, num |-> num, den |-> den,
     dashed |-> FALSE, marked |-> TRUE]

SomeLengths ==
    {Written(1, 8, none, 1), [Written(3, none, none, 1) EXCEPT !.text = FALSE],
     [Written(2, 3, 3, 4) EXCEPT !.dashed = TRUE], Written(none, none, 11, 4),
     Written(none, none, 1, 2), Written(-1, none, none, 1),
     [Written(12, none, none, 1) EXCEPT !.marked = FALSE], Written(none, none, 1, 0), none}

\* A quarter of a yard of concrete and a little more; drywall of a sheet and of two with its
\* waste, and what is just short and just beyond one sheet.
SomeQuantities == {-1, 0, 675, 676, 2900, 2909, 2910, 3000}

Parts == {"survey", "legacy", "estimate", "takeoff", "lab", "field", "billing", "weather", "seal", "index"}

\* The calls that part is given in a behaviour that is part's, and none otherwise.
Given(part, chosen, calls) == IF part = chosen THEN calls ELSE 0

Init ==
    \E part \in Parts :
        /\ SurveyInit /\ requestsLeft = Given("survey", part, MaxRequests)
        /\ LegacyInit /\ writesLeft = Given("legacy", part, MaxWrites)
        /\ EstimateInit /\ estimatesLeft = Given("estimate", part, MaxEstimates)
        /\ TakeoffInit /\ reckonedLeft = Given("takeoff", part, MaxReckoned)
        /\ LabInit /\ plansLeft = Given("lab", part, MaxPlans) /\ deathsLeft = MaxDeaths
        /\ part # "lab" => source.dji
        /\ FieldInit /\ fieldCallsLeft = Given("field", part, MaxFieldCalls)
        /\ part # "field" => paid
        /\ BillingInit /\ payCallsLeft = Given("billing", part, MaxPayCalls)
        /\ WeatherInit /\ looksLeft = Given("weather", part, MaxLooks)
        /\ part # "weather" => rough = <<>>
        /\ SealInit /\ verifiesLeft = Given("seal", part, MaxVerifies)
        /\ keyChangesLeft = Given("seal", part, MaxKeyChanges)
        /\ part # "seal" => keys = UnsetKeys
        /\ IndexInit /\ startsLeft = Given("index", part, MaxStarts)
        /\ part # "index" => repeated = {}

Next ==
    \/ /\ SurveyNext
       /\ UNCHANGED <<takeoffVars, legacyVars, estimateVars, labVars, fieldVars,
                      billingVars, weatherVars, sealVars, indexVars>>
    \/ /\ LegacyNext
       /\ UNCHANGED <<surveyVars, takeoffVars, estimateVars, labVars, fieldVars,
                      billingVars, weatherVars, sealVars, indexVars>>
    \/ /\ EstimateNext
       /\ UNCHANGED <<surveyVars, takeoffVars, legacyVars, labVars, fieldVars,
                      billingVars, weatherVars, sealVars, indexVars>>
    \/ /\ TakeoffNext
       /\ UNCHANGED <<surveyVars, legacyVars, estimateVars, labVars, fieldVars,
                      billingVars, weatherVars, sealVars, indexVars>>
    \/ /\ LabNext
       /\ UNCHANGED <<surveyVars, takeoffVars, legacyVars, estimateVars, fieldVars,
                      billingVars, weatherVars, sealVars, indexVars>>
    \/ /\ FieldNext
       /\ UNCHANGED <<surveyVars, takeoffVars, legacyVars, estimateVars, labVars,
                      billingVars, weatherVars, sealVars, indexVars>>
    \/ /\ BillingNext
       /\ UNCHANGED <<surveyVars, takeoffVars, legacyVars, estimateVars, labVars,
                      fieldVars, weatherVars, sealVars, indexVars>>
    \/ /\ WeatherNext
       /\ UNCHANGED <<surveyVars, takeoffVars, legacyVars, estimateVars, labVars,
                      fieldVars, billingVars, sealVars, indexVars>>
    \/ /\ SealNext
       /\ UNCHANGED <<surveyVars, takeoffVars, legacyVars, estimateVars, labVars,
                      fieldVars, billingVars, weatherVars, indexVars>>
    \/ /\ IndexNext
       /\ UNCHANGED <<surveyVars, takeoffVars, legacyVars, estimateVars, labVars,
                      fieldVars, billingVars, weatherVars, sealVars>>

Spec ==
    Init /\ [][Next]_<<surveyVars, takeoffVars, legacyVars, estimateVars, labVars, fieldVars,
                       billingVars, weatherVars, sealVars, indexVars>>

Swap == [x \in {c1, c2, p1, p2} |-> x]

\* No behaviour has both callers and processes: they are swapped together.
CallersSymmetry ==
    {[Swap EXCEPT ![c1] = c2, ![c2] = c1, ![p1] = p2, ![p2] = p1]} \cup Permutations({t1, t2})
=============================================================================
