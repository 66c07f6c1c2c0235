---------------------------- MODULE MCPublications ----------------------------
(* Evidence packages, report packages, projections, ATC missions, Habitat views   *)
(* and links for TLC.  They share no state: a behaviour is about one of them.     *)
EXTENDS EvidenceIntake, ReportPublication, ProjectionMarkers, AtcMission, HabitatView,
        HabitatLink, TLC

CONSTANTS m1, d1, d2, k1, kind1, c1, c2, a1, a2, x1, o1, o2, o3, nothing

AllCalls == [uploads |-> MaxUploads, deletes |-> MaxDeletes, finalizes |-> MaxFinalizes,
             crashes |-> MaxCrashes, others |-> MaxOthers]

NoCalls == [k \in DOMAIN AllCalls |-> 0]

\* Image pairs that name nothing, the same image twice, each other's, or an image out of range.
SomePackages ==
    [awe : BOOLEAN, supported : BOOLEAN, missing : BOOLEAN, digests : BOOLEAN,
     links : {<<>>, <<0>>, <<1, 1>>, <<2, 0>>, <<0, 1, 2>>, <<2, 2, 1>>}, thermal : 0 .. 3]

\* Together they take more from a score than it has.
SomeObjects ==
    {[severity |-> "CRITICAL", priority |-> "IMMEDIATE", impact |-> {"air", "water"},
      homeowner |-> TRUE],
     [severity |-> "MAJOR", priority |-> "SCHEDULE", impact |-> {"water"}, homeowner |-> TRUE],
     [severity |-> "CRITICAL", priority |-> "URGENT", impact |-> {"water", "energy"},
      homeowner |-> TRUE]}

\* Two drafts beside a canceled mission, or three missions whose evidence is ready.
MissionsMet ==
    \/ mission = [o \in Orchestrations |-> IF o = o3 THEN CanceledMission ELSE NewMission]
    \/ stepsLeft > 0 /\ \A o \in Orchestrations : mission[o].state = "EVIDENCE_MANIFEST_READY"

Init ==
    /\ EvidenceInit /\ PackagesInit /\ MarkersInit /\ AtcInit /\ HabitatInit
    /\ LinkInit
    /\ \E calls \in {<<AllCalls, 0, 0, 0, 0, 0, 0>>, <<NoCalls, MaxCalls, 0, 0, 0, 0, 0>>,
                     <<NoCalls, 0, MaxWork, 0, 0, 0, 0>>, <<NoCalls, 0, 0, MaxSteps, 0, 0, 0>>,
                     <<NoCalls, 0, 0, 0, MaxChecks, 0, 0>>, <<NoCalls, 0, 0, 0, 0, MaxViews, 0>>,
                     <<NoCalls, 0, 0, 0, 0, 0, MaxReads>>} :
         /\ budget = calls[1] /\ packageCalls = calls[2] /\ markerCalls = calls[3]
         /\ stepsLeft = calls[4] /\ checksLeft = calls[5] /\ viewsLeft = calls[6]
         /\ readsLeft = calls[7]
    /\ stopsLeft = MaxStops /\ MissionsMet

Next ==
    \/ EvidenceNext /\ UNCHANGED <<reportVars, markerVars, atcVars, habitatVars, linkVars>>
    \/ PackagesNext /\ UNCHANGED <<evidenceVars, markerVars, atcVars, habitatVars, linkVars>>
    \/ MarkersNext /\ UNCHANGED <<evidenceVars, reportVars, atcVars, habitatVars, linkVars>>
    \/ AtcNext /\ UNCHANGED <<evidenceVars, reportVars, markerVars, habitatVars, linkVars>>
    \/ HabitatNext /\ UNCHANGED <<evidenceVars, reportVars, markerVars, atcVars, linkVars>>
    \/ LinkNext /\ UNCHANGED <<evidenceVars, reportVars, markerVars, atcVars, habitatVars>>

Spec ==
    Init /\ [][Next]_<<evidenceVars, reportVars, markerVars, atcVars, habitatVars, linkVars>>

TypeOK == EvidenceTypeOK /\ PackagesTypeOK /\ MarkersTypeOK

Swap == [x \in {c1, c2, o1, o2} |-> x]

\* No behaviour has both callers and missions: they are swapped together.
PublicationsSymmetry ==
    {[Swap EXCEPT ![c1] = c2, ![c2] = c1, ![o1] = o2, ![o2] = o1]}
      \cup Permutations({a1, a2}) \cup Permutations({d1, d2})
=============================================================================
