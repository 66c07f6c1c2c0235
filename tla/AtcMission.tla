----------------------------- MODULE AtcMission ------------------------------
(***************************************************************************)
(* The ATC lane (nextgen/mission_state_machine.py and nextgen/atc): the    *)
(* orchestration of single missions and of the pair a Passport handoff     *)
(* needs, the quality gate of a capture package and the compatibility      *)
(* check of an evidence candidate.                                         *)
(*                                                                         *)
(* transition is public: a caller may take any edge of the table, the ones *)
(* that the other operations guard included.  validate_pair_for_handoff    *)
(* writes flags and partners before transitions that may raise, and what   *)
(* it wrote stays.                                                         *)
(***************************************************************************)
EXTENDS Integers, Sequences, FiniteSets, FiniteSetsExt, SequencesExt

CONSTANTS
    Orchestrations, \* missions: of MissionOrchestration
    NoPair,
    CapturePackages,       \* capture packages: records of CapturePackage
    Candidates,         \* evidence candidates: records of Candidate
    MaxSteps,       \* bounds the calls about missions
    MaxStops,       \* bounds the transitions to BLOCKED, CANCELED and FAILED
    MaxChecks       \* bounds the packages and candidates looked at

\* links[v] is the thermal image the visual one names, 0 for none; images are numbered.
CapturePackage == [awe : BOOLEAN, supported : BOOLEAN, missing : BOOLEAN, digests : BOOLEAN,
                   links : Seq(Nat), thermal : Nat]

Candidate == [contract : {"GeometryCandidate", "AWEEvidenceCandidate"},
              declared : {"itself", "ApprovedGeometry"},
              profile : {"mapping", "awe"},
              provenance : BOOLEAN,
              status : {"", "CANDIDATE", "APPROVED"},
              approved : BOOLEAN,       \* is_production_approved
              thermal : {"none", "observed", "diagnosed"},
              dimensions : BOOLEAN]     \* is_dimensional_authority, extents

ASSUME AtcAssumption ==
    /\ NoPair \notin Orchestrations
    /\ CapturePackages \subseteq CapturePackage /\ Candidates \subseteq Candidate
    /\ MaxSteps \in Nat /\ MaxStops \in Nat /\ MaxChecks \in Nat

VARIABLES
    mission,
    passed,     \* history: the gates and stops each mission went through
    stepsLeft,
    stopsLeft,
    checked,    \* what was looked at last, with the verdict
    checksLeft

atcVars == <<mission, passed, stepsLeft, stopsLeft, checked, checksLeft>>

----------------------------------------------------------------------------
(* Missions *)

Types == {"DAYTIME_PRECISION_MAPPING", "NIGHTTIME_AWE_VISUAL_THERMAL"}

Stopped == {"BLOCKED", "CANCELED", "FAILED"}

\* _BASE_TRANSITIONS
BaseTransitions == [
    DRAFT |-> {"PROFILE_SELECTED", "CANCELED"},
    PROFILE_SELECTED |-> {"PREFLIGHT_PENDING", "CANCELED", "BLOCKED"},
    PREFLIGHT_PENDING |-> {"PREFLIGHT_PASSED", "PREFLIGHT_FAILED", "CANCELED", "BLOCKED"},
    PREFLIGHT_FAILED |-> {"PREFLIGHT_PENDING", "CANCELED", "FAILED"},
    PREFLIGHT_PASSED |-> {"CAPTURE_PACKAGE_ASSEMBLED", "CANCELED", "BLOCKED"},
    CAPTURE_PACKAGE_ASSEMBLED |-> {"EVIDENCE_MANIFEST_READY", "CANCELED", "FAILED"},
    EVIDENCE_MANIFEST_READY |->
        {"GEOMETRY_CANDIDATE_READY", "AWE_CANDIDATE_READY", "BLOCKED", "FAILED"},
    GEOMETRY_CANDIDATE_READY |-> {"ATC_PAIR_VALIDATED", "BLOCKED", "FAILED"},
    AWE_CANDIDATE_READY |-> {"ATC_PAIR_VALIDATED", "BLOCKED", "FAILED"},
    ATC_PAIR_VALIDATED |-> {"READY_FOR_PASSPORT_HANDOFF", "BLOCKED"},
    READY_FOR_PASSPORT_HANDOFF |-> {"BLOCKED"},
    BLOCKED |-> {"CANCELED", "FAILED"},
    CANCELED |-> {},
    FAILED |-> {}]

NewMission == [state |-> "DRAFT", type |-> "", pair |-> NoPair,
               geometry |-> FALSE, awe |-> FALSE, valid4e |-> FALSE, valid4t |-> FALSE]

Gates == {"PREFLIGHT_PASSED", "EVIDENCE_MANIFEST_READY"}

ReadyMission(type) == [NewMission EXCEPT !.type = type, !.state = "EVIDENCE_MANIFEST_READY"]

CanceledMission == [NewMission EXCEPT !.state = "CANCELED"]

\* A mission is met as a draft, canceled as one, or with its evidence ready.
AtcInit ==
    /\ mission \in [Orchestrations -> {NewMission, CanceledMission} \cup
                                        {ReadyMission(type) : type \in Types}]
    /\ passed = [m \in Orchestrations |->
                   IF mission[m] = NewMission THEN {}
                   ELSE IF mission[m] = CanceledMission THEN {"CANCELED"} ELSE Gates]
    /\ checked = <<>>

Record(m, state) == passed' = [passed EXCEPT ![m] = @ \cup ({state} \cap (Gates \cup Stopped))]

Transition(m, to) ==
    /\ to \in BaseTransitions[mission[m].state]
    /\ to \in Stopped => stopsLeft > 0
    /\ stopsLeft' = IF to \in Stopped THEN stopsLeft - 1 ELSE stopsLeft
    /\ mission' = [mission EXCEPT ![m].state = to]
    /\ Record(m, to)
    /\ UNCHANGED <<checked, checksLeft>>

SelectProfile(m, type) ==
    /\ mission[m].state = "DRAFT"
    /\ mission' = [mission EXCEPT ![m].type = type, ![m].state = "PROFILE_SELECTED"]
    /\ Record(m, "PROFILE_SELECTED")
    /\ UNCHANGED <<stopsLeft, checked, checksLeft>>

\* mark_candidate_ready does not ask for the type of the mission.
MarkGeometryReady(m) ==
    /\ mission[m].state = "EVIDENCE_MANIFEST_READY"
    /\ mission' = [mission EXCEPT ![m].geometry = TRUE, ![m].state = "GEOMETRY_CANDIDATE_READY"]
    /\ Record(m, "GEOMETRY_CANDIDATE_READY")
    /\ UNCHANGED <<stopsLeft, checked, checksLeft>>

MarkAweReady(m) ==
    /\ mission[m].state = "EVIDENCE_MANIFEST_READY"
    /\ mission' = [mission EXCEPT ![m].awe = TRUE, ![m].state = "AWE_CANDIDATE_READY"]
    /\ Record(m, "AWE_CANDIDATE_READY")
    /\ UNCHANGED <<stopsLeft, checked, checksLeft>>

\* Mutant of MayPair: the flags are asked for, not the types.
ReadyToPair(m, a) == mission[m].geometry /\ mission[a].awe

MayPair(m, a) ==
    /\ mission[m].type = "DAYTIME_PRECISION_MAPPING"
    /\ mission[a].type = "NIGHTTIME_AWE_VISUAL_THERMAL"
    /\ mission[m].geometry /\ mission[a].awe

Validated(state, candidate) == IF state = candidate THEN "ATC_PAIR_VALIDATED" ELSE state

MayHandOff(state) == "READY_FOR_PASSPORT_HANDOFF" \in BaseTransitions[state]

HandedOff(state) == IF MayHandOff(state) THEN "READY_FOR_PASSPORT_HANDOFF" ELSE state

\* validate_pair_for_handoff: the pair is written, each goes to ATC_PAIR_VALIDATED if it is a
\* candidate, then both are handed off; the mapping mission's failure leaves the other as it is.
ValidatePair(m, a) ==
    /\ m # a /\ MayPair(m, a)
    /\ LET map == Validated(mission[m].state, "GEOMETRY_CANDIDATE_READY")
           awe == Validated(mission[a].state, "AWE_CANDIDATE_READY")
       IN  mission' = [mission EXCEPT
               ![m].valid4e = TRUE, ![m].pair = a, ![m].state = HandedOff(map),
               ![a].valid4t = TRUE, ![a].pair = m,
               ![a].state = IF MayHandOff(map) THEN HandedOff(awe) ELSE awe]
    /\ UNCHANGED <<passed, stopsLeft, checked, checksLeft>>

\* can_passport_accept_either: nobody asks whether the two are each other's pair.
PassportAccepts(m, a) ==
    /\ mission[m].valid4e /\ mission[a].valid4t /\ mission[m].geometry /\ mission[a].awe
    /\ mission[m].state \in {"ATC_PAIR_VALIDATED", "READY_FOR_PASSPORT_HANDOFF",
                             "GEOMETRY_CANDIDATE_READY"}
    /\ mission[a].state \in {"ATC_PAIR_VALIDATED", "READY_FOR_PASSPORT_HANDOFF",
                             "AWE_CANDIDATE_READY"}

----------------------------------------------------------------------------
(* CapturePackages: assess_synthetic_package *)

Pairable(image, thermal, used) == image \in 1 .. thermal /\ image \notin used

\* Links first, in the order of the visual images; the others in the order of both.
Pairs(p) ==
    LET linked == FoldLeft(
            LAMBDA acc, v : IF Pairable(p.links[v], p.thermal, acc.used)
                            THEN [acc EXCEPT !.pairs = @ \cup {<<v, p.links[v]>>},
                                             !.used = @ \cup {p.links[v]}]
                            ELSE [acc EXCEPT !.left = Append(@, v)],
            [pairs |-> {}, used |-> {}, left |-> <<>>],
            [v \in DOMAIN p.links |-> v])
        free == SetToSortSeq((1 .. p.thermal) \ linked.used, <)
    IN  linked.pairs \cup
          {<<linked.left[n], free[n]>> : n \in DOMAIN linked.left \cap DOMAIN free}

\* A package without any thermal image is taken for paired.
PairingOk(p) ==
    p.thermal > 0 => /\ Pairs(p) # {}
                     /\ \A t \in 1 .. p.thermal : \E pair \in Pairs(p) : pair[2] = t

\* verify_checksums counts a required artifact that is missing against the sums, so that
\* ADDITIONAL_CAPTURE_REQUIRED is left to the pairing; and the fixture is always a limitation.
QualityGate(p) ==
    IF ~p.supported THEN "UNSUPPORTED_FORMAT"
    ELSE IF p.missing \/ ~p.digests THEN "REJECTED_PACKAGE"
    ELSE IF p.awe /\ ~PairingOk(p) THEN "ADDITIONAL_CAPTURE_REQUIRED"
    ELSE "USABLE_WITH_LIMITATIONS"

AssessPackage(p) ==
    /\ checked' = <<p, QualityGate(p)>>
    /\ UNCHANGED <<mission, passed, stepsLeft, stopsLeft>>

----------------------------------------------------------------------------
(* Candidates: validate_compatibility *)

IsAwe(c) == c.contract = "AWEEvidenceCandidate" \/ c.profile = "awe"

IsGeometry(c) == c.contract = "GeometryCandidate" \/ c.profile = "mapping"

\* The approval_status of a geometry candidate is not looked at.
Compatible(c) ==
    /\ c.declared # "ApprovedGeometry" /\ c.provenance
    /\ IsAwe(c) => /\ ~c.dimensions /\ ~c.approved
                   /\ c.status # "APPROVED" /\ c.thermal # "diagnosed"
    /\ IsGeometry(c) => c.thermal = "none" /\ ~c.approved

CheckCandidate(c) ==
    /\ checked' = <<c, IF Compatible(c) THEN "ok" ELSE "refused">>
    /\ UNCHANGED <<mission, passed, stepsLeft, stopsLeft>>

----------------------------------------------------------------------------
AtcNext ==
    \/ /\ stepsLeft > 0 /\ stepsLeft' = stepsLeft - 1
       /\ \E m \in Orchestrations :
            \/ \E to \in DOMAIN BaseTransitions : Transition(m, to)
            \/ \E type \in Types : SelectProfile(m, type)
            \/ MarkGeometryReady(m) \/ MarkAweReady(m)
            \/ \E a \in Orchestrations : ValidatePair(m, a)
    \/ /\ checksLeft > 0 /\ checksLeft' = checksLeft - 1
       /\ \/ \E p \in CapturePackages : AssessPackage(p)
          \/ \E c \in Candidates : CheckCandidate(c)

AtcSpec == AtcInit /\ [][AtcNext]_atcVars

----------------------------------------------------------------------------
(* Properties *)

\* Two missions that Passport may accept from, whoever each was paired with and whatever
\* validation of theirs failed halfway, are one of mapping and one of AWE, passed preflight,
\* had their evidence manifest ready, and were not stopped since.
AcceptedPassedGates ==
    \A m, a \in Orchestrations : PassportAccepts(m, a) =>
        /\ mission[m].type = "DAYTIME_PRECISION_MAPPING"
        /\ mission[a].type = "NIGHTTIME_AWE_VISUAL_THERMAL"
        /\ \A n \in {m, a} : /\ Gates \subseteq passed[n]
                             /\ passed[n] \cap Stopped = {}
                             /\ mission[n].pair # NoPair

\* The thermal images of an AWE package that is found usable each have a visual image of
\* their own, however the links of the images contradict each other.
UsableIsPaired ==
    checked # <<>> /\ checked[2] = "USABLE_WITH_LIMITATIONS" /\ checked[1].awe =>
        \A t \in 1 .. checked[1].thermal :
            /\ Cardinality({pair \in Pairs(checked[1]) : pair[2] = t}) = 1
            /\ \A one, other \in Pairs(checked[1]) : one[1] = other[1] => one = other
=============================================================================
