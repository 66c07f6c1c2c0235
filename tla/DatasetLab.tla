----------------------------- MODULE DatasetLab ------------------------------
(***************************************************************************)
(* The external dataset laboratory (nextgen/dataset_lab): acquisition of a *)
(* data set, the license gate, inventory, the development candidate and    *)
(* the reconstruction by OpenDroneMap in a container.                      *)
(*                                                                         *)
(* All state is files.  A process is one call of the command line or one   *)
(* experiment of the runner, which goes through the stages of a profile    *)
(* and carries on when one of them fails.  Nothing locks the files: the    *)
(* steps of two processes interleave, and a process may die between any    *)
(* two of them.                                                            *)
(*                                                                         *)
(* The name of a reconstruction is the second in which it began.  Two that *)
(* begin in one second share their directories; here each has its own.     *)
(***************************************************************************)
EXTENDS Integers, Sequences

CONSTANTS
    Sources,        \* what may be acquired: records of Source
    Processes,
    Plans,          \* the sequences of stages a process may be asked for
    Absent,         \* no file
    MaxPlans, MaxRuns, MaxDeaths

Markers == {"CC0", "CC-BY", "MIT", "UNKNOWN"}

\* What the files of a data set say to the code that reads them.
Tree == [licenses : SUBSET Markers, readmeBy : BOOLEAN, images : Nat,
         unsupported : BOOLEAN, located : BOOLEAN]

Source == [dji : BOOLEAN, tree : Tree]

\* What is in the directory of a reconstruction.
Projects == [images : Nat, exit : 0 .. 1, model : BOOLEAN, described : BOOLEAN]

ASSUME LabAssumption ==
    /\ Sources \subseteq Source
    /\ Absent \notin Tree \cup Projects
    /\ {MaxPlans, MaxRuns, MaxDeaths} \subseteq Nat

VARIABLES
    source,         \* the registry entry, and what is found at its address
    content,        \* content/: the tree, or Absent when empty
    archive,        \* whether source.zip is complete
    staging,        \* quarantine/ holds an extracted tree
    manifest,       \* file_manifest.json: the tree it was made of
    acquisition,    \* latest_acquisition.json
    license,        \* license_status.json
    lastCheck,      \* receipts/license-check-latest.json
    inventory,      \* artifacts/inventory.json
    candidate,      \* artifacts/development_candidate.json: its readiness
    quarantine,     \* reconstructions/quarantine_<run>
    output,         \* reconstructions/<run>
    receipt,        \* artifacts/reconstruction_<run>.json: its status
    latest,         \* artifacts/reconstruction_latest.json: the run it describes
    process,
    runs,           \* reconstructions begun
    plansLeft, deathsLeft

acquired == <<content, archive, staging, manifest, acquisition>>
judged == <<license, lastCheck, inventory, candidate>>
built == <<quarantine, output, receipt, latest>>
labVars == <<source, acquired, judged, built, process, runs, plansLeft, deathsLeft>>

----------------------------------------------------------------------------
Runs == 1 .. MaxRuns

Resting == [plan |-> <<>>, pc |-> "idle", run |-> 0, fault |-> "none", sum |-> Absent]

LabInit ==
    /\ source \in Sources
    /\ content = Absent /\ archive = FALSE /\ staging = FALSE /\ manifest = Absent
    /\ acquisition = [status |-> "none", sum |-> Absent]
    /\ license = "none" /\ lastCheck = "none" /\ inventory = Absent /\ candidate = "none"
    /\ quarantine = [r \in Runs |-> Absent] /\ output = [r \in Runs |-> Absent]
    /\ receipt = [r \in Runs |-> "none"] /\ latest = 0
    /\ process = [p \in Processes |-> Resting]
    /\ runs = 0

----------------------------------------------------------------------------
(* Processes *)

At(p, pc) == process[p].pc = pc /\ UNCHANGED <<source, plansLeft, deathsLeft>>

\* The process is about to begin the stage named.
Stage(p, name) ==
    /\ At(p, "idle")
    /\ process[p].plan # <<>> /\ Head(process[p].plan) = name

\* A stage ends, in whatever way: the next one is due.
EndStage(p) == process' = [process EXCEPT ![p] = [Resting EXCEPT !.plan = Tail(process[p].plan)]]

To(p, pc) == process' = [process EXCEPT ![p].pc = pc]

\* A call of the command line has a plan of one stage.
Call(p, plan) ==
    /\ process[p] = Resting /\ plansLeft > 0
    /\ plansLeft' = plansLeft - 1
    /\ process' = [process EXCEPT ![p].plan = plan]
    /\ UNCHANGED <<source, acquired, judged, built, runs, deathsLeft>>

Die(p) ==
    /\ process[p] # Resting /\ deathsLeft > 0
    /\ deathsLeft' = deathsLeft - 1
    /\ process' = [process EXCEPT ![p] = Resting]
    /\ UNCHANGED <<source, acquired, judged, built, runs, plansLeft>>

----------------------------------------------------------------------------
(* acquire_dataset *)

\* Written whatever came of it; only a clone records the sum of its manifest.
SaveAcquisition(status, sum) == acquisition' = [status |-> status, sum |-> sum]

\* A dry run overwrites the receipt of the acquisition that was made.
DryRun(p) ==
    /\ Stage(p, "dry_run")
    /\ SaveAcquisition("dry_run", Absent)
    /\ EndStage(p)
    /\ UNCHANGED <<content, archive, staging, manifest, judged, built, runs>>

\* What a clone killed at its time limit leaves behind: some of the files.
Partial == {[source.tree EXCEPT !.licenses = l, !.images = n] :
               l \in {{}, source.tree.licenses}, n \in {0, source.tree.images}}

\* git clone, unless a clone is there, whole or not.
StartClone(p) ==
    /\ Stage(p, "acquire") /\ ~source.dji
    /\ \/ content = Absent /\ content' \in Partial /\ To(p, "clone")
       \/ content # Absent /\ UNCHANGED content /\ To(p, "head")
    /\ UNCHANGED <<archive, staging, manifest, acquisition, judged, built, runs>>

\* git removes what it cloned when it fails, but not when it is killed.
EndClone(p) ==
    /\ At(p, "clone")
    /\ \/ /\ content' = source.tree /\ To(p, "head")
          /\ UNCHANGED acquisition
       \/ /\ content' \in {Absent, content}
          /\ SaveAcquisition("failed", Absent)
          /\ EndStage(p)
    /\ UNCHANGED <<archive, staging, manifest, judged, built, runs>>

\* git rev-parse HEAD, and the manifest of the files that are there.
ReadHead(p) ==
    /\ At(p, "head")
    /\ \/ /\ content # Absent
          /\ manifest' = content
          /\ process' = [process EXCEPT ![p].pc = "acquired", ![p].sum = content]
          /\ UNCHANGED acquisition
       \/ /\ content # source.tree
          /\ SaveAcquisition("failed", Absent)
          /\ EndStage(p)
          /\ UNCHANGED manifest
    /\ UNCHANGED <<content, archive, staging, judged, built, runs>>

\* The archive is downloaded, unless one is there.
Download(p) ==
    /\ Stage(p, "acquire") /\ source.dji
    /\ \/ archive' = TRUE /\ To(p, "extract") /\ UNCHANGED acquisition
       \/ /\ ~archive /\ UNCHANGED archive
          /\ SaveAcquisition("failed", Absent) /\ EndStage(p)
    /\ UNCHANGED <<content, staging, manifest, judged, built, runs>>

\* The old content is removed before the new one takes its place.
Extract(p) ==
    /\ At(p, "extract")
    /\ \/ staging' = TRUE /\ content' = Absent /\ To(p, "swap") /\ UNCHANGED acquisition
       \/ /\ staging' \in BOOLEAN /\ UNCHANGED content
          /\ SaveAcquisition("failed", Absent) /\ EndStage(p)
    /\ UNCHANGED <<archive, manifest, judged, built, runs>>

SwapContent(p) ==
    /\ At(p, "swap")
    /\ IF staging /\ content = Absent
         THEN /\ content' = source.tree /\ staging' = FALSE
              /\ To(p, "acquired") /\ UNCHANGED acquisition
         ELSE /\ SaveAcquisition("failed", Absent) /\ EndStage(p)
              /\ UNCHANGED <<content, staging>>
    /\ UNCHANGED <<archive, manifest, judged, built, runs>>

EndAcquisition(p) ==
    /\ At(p, "acquired")
    /\ SaveAcquisition("acquired", process[p].sum)
    /\ EndStage(p)
    /\ UNCHANGED <<content, archive, staging, manifest, judged, built, runs>>

----------------------------------------------------------------------------
(* license_check, inventory_dataset, build_candidate_package *)

Known == Markers \ {"UNKNOWN"}

\* Never permissive without a text that says so.
LicenseOf(tree) ==
    IF source.dji THEN "REVIEW_REQUIRED"
    ELSE IF tree.licenses = {"CC0"} THEN "VERIFIED_PERMISSIVE"
    ELSE IF (tree.licenses # {} /\ tree.licenses \subseteq Known) \/ tree.readmeBy
      THEN "VERIFIED_RESTRICTED"
    ELSE "REVIEW_REQUIRED"

\* Without content only the receipt is written: an earlier license_status.json stays.
CheckLicense(p) ==
    /\ Stage(p, "license")
    /\ IF content = Absent
         THEN lastCheck' = "REVIEW_REQUIRED" /\ UNCHANGED license
         ELSE lastCheck' = LicenseOf(content) /\ license' = LicenseOf(content)
    /\ EndStage(p)
    /\ UNCHANGED <<acquired, inventory, candidate, built, runs>>

TakeInventory(p) ==
    /\ Stage(p, "inventory")
    /\ inventory' = IF content = Absent THEN inventory ELSE content
    /\ EndStage(p)
    /\ UNCHANGED <<acquired, license, lastCheck, candidate, built, runs>>

\* The status the candidate is judged by.
Recorded == IF license # "none" THEN license
            ELSE IF lastCheck # "none" THEN lastCheck ELSE "UNKNOWN"

Readiness ==
    IF inventory.images = 0
      THEN IF Recorded = "UNKNOWN" THEN "LICENSE_BLOCKED" ELSE "REJECTED_DATASET"
    ELSE IF inventory.unsupported THEN "UNSUPPORTED_FORMAT"
    ELSE IF Recorded # "VERIFIED_PERMISSIVE" THEN "USABLE_WITH_LIMITATIONS"
    ELSE IF inventory.located THEN "READY_FOR_DEVELOPMENT_REVIEW"
    ELSE "ADDITIONAL_DATA_REQUIRED"

BuildCandidate(p) ==
    /\ Stage(p, "candidate")
    /\ candidate' = IF inventory = Absent THEN candidate ELSE Readiness
    /\ EndStage(p)
    /\ UNCHANGED <<acquired, license, lastCheck, inventory, built, runs>>

----------------------------------------------------------------------------
(* run_odm_reconstruction *)

\* What failure_proof.py asks for, to see it refused; "none" for a run that is meant.
Faults == {"none", "escape", "low_disk", "timeout"}

\* The end of a run that promoted nothing.
Refuse(p, r, status) ==
    /\ receipt' = [receipt EXCEPT ![r] = status]
    /\ EndStage(p)
    /\ UNCHANGED <<acquired, judged, output, latest>>

\* Without docker or the pinned image the run is skipped.
BeginRun(p, fault, odm) ==
    /\ Stage(p, "reconstruct") /\ runs < MaxRuns
    /\ runs' = runs + 1
    /\ CASE fault = "escape" -> Refuse(p, runs', "FAILED")
         [] fault # "escape" /\ ~odm -> Refuse(p, runs', "SKIPPED")
         [] OTHER ->
              /\ process' = [process EXCEPT ![p].pc = "gate", ![p].run = runs', ![p].fault = fault]
              /\ UNCHANGED <<acquired, judged, output, receipt, latest>>
    /\ UNCHANGED quarantine

\* _license_and_readiness_gate: REVIEW_REQUIRED passes it.
Judged == license # "none" /\ candidate \notin {"REJECTED_DATASET", "LICENSE_BLOCKED"}

PassGate(p) ==
    /\ At(p, "gate")
    /\ IF Judged /\ ~source.dji
         THEN To(p, "source") /\ UNCHANGED <<acquired, judged, output, receipt, latest>>
         ELSE Refuse(p, process[p].run, IF Judged THEN "LICENSE_BLOCKED" ELSE "FAILED")
    /\ UNCHANGED <<quarantine, runs>>

\* _verify_source_checksum: the sum of the manifest, not of the files it lists.
Verified == acquisition.status = "acquired" /\ acquisition.sum \in {Absent, manifest}

\* ... and the space left on the disk.
VerifySource(p, full) ==
    /\ At(p, "source")
    /\ IF Verified /\ ~full /\ process[p].fault # "low_disk"
         THEN To(p, "prepare") /\ UNCHANGED <<acquired, judged, output, receipt, latest>>
         ELSE Refuse(p, process[p].run, "FAILED")
    /\ UNCHANGED <<quarantine, runs>>

Project(images) == [images |-> images, exit |-> 1, model |-> FALSE, described |-> FALSE]

\* _prepare_project: the images are copied to a fresh directory.
Prepare(p) ==
    /\ At(p, "prepare")
    /\ LET images == IF content = Absent THEN 0 ELSE content.images IN
       /\ quarantine' = [quarantine EXCEPT ![process[p].run] = Project(images)]
       /\ IF images = 0 THEN Refuse(p, process[p].run, "FAILED")
          ELSE To(p, "odm") /\ UNCHANGED <<acquired, judged, output, receipt, latest>>
    /\ UNCHANGED runs

\* Mutant of Succeeded: the exit code decides.
ExitedWell(exit, model) == exit = 0

\* Neither a zero exit nor an output is a success by itself.
Succeeded(exit, model) == exit = 0 /\ model

\* The container ends with a code and leaves an orthophoto or point cloud, or none.  A
\* run that times out keeps what it has in quarantine.
RunOdm(p, exit, model, late) ==
    /\ At(p, "odm")
    /\ process[p].fault = "timeout" => late
    /\ LET r == process[p].run IN
       /\ quarantine' = [quarantine EXCEPT ![r].exit = exit, ![r].model = model]
       /\ IF Succeeded(exit, model) /\ ~late
            THEN To(p, "promote") /\ UNCHANGED <<acquired, judged, output, receipt, latest>>
            ELSE Refuse(p, r, "FAILED")
    /\ UNCHANGED runs

Promote(p) ==
    /\ At(p, "promote")
    /\ output' = [output EXCEPT ![process[p].run] = quarantine[process[p].run]]
    /\ quarantine' = [quarantine EXCEPT ![process[p].run] = Absent]
    /\ To(p, "receipt")
    /\ UNCHANGED <<acquired, judged, receipt, latest, runs>>

SaveReceipt(p) ==
    /\ At(p, "receipt")
    /\ receipt' = [receipt EXCEPT ![process[p].run] = "SUCCESS"]
    /\ To(p, "latest")
    /\ UNCHANGED <<acquired, judged, quarantine, output, latest, runs>>

SaveLatest(p) ==
    /\ At(p, "latest")
    /\ latest' = process[p].run
    /\ To(p, "describe")
    /\ UNCHANGED <<acquired, judged, quarantine, output, receipt, runs>>

\* reconstruction_output_manifest.json, beside the outputs.
Describe(p) ==
    /\ At(p, "describe")
    /\ output' = [output EXCEPT ![process[p].run].described = TRUE]
    /\ EndStage(p)
    /\ UNCHANGED <<acquired, judged, quarantine, receipt, latest, runs>>

----------------------------------------------------------------------------
LabNext ==
    \E p \in Processes :
        \/ \E plan \in Plans : Call(p, plan)
        \/ Die(p)
        \/ DryRun(p)
        \/ StartClone(p) \/ EndClone(p) \/ ReadHead(p)
        \/ Download(p) \/ Extract(p) \/ SwapContent(p)
        \/ EndAcquisition(p)
        \/ CheckLicense(p) \/ TakeInventory(p) \/ BuildCandidate(p)
        \/ \E fault \in Faults, odm \in BOOLEAN : BeginRun(p, fault, odm)
        \/ PassGate(p)
        \/ \E full \in BOOLEAN : VerifySource(p, full)
        \/ Prepare(p)
        \/ \E exit \in 0 .. 1, model, late \in BOOLEAN : RunOdm(p, exit, model, late)
        \/ Promote(p) \/ SaveReceipt(p) \/ SaveLatest(p) \/ Describe(p)

LabSpec == LabInit /\ [][LabNext]_labVars

----------------------------------------------------------------------------
(* Properties *)

\* reconstruction_latest.json names a run whose project was promoted from images, with an
\* exit code of zero and an orthophoto or point cloud, whatever calls ran beside it and
\* wherever they died; and no project of a run that failed is in the place of the promoted
\* ("Only successful promoted runs update reconstruction_latest.json so negative proofs
\* cannot overwrite the authoritative success receipt").
LatestIsReconstructed ==
    /\ latest # 0 =>
         /\ output[latest] # Absent /\ receipt[latest] = "SUCCESS"
         /\ license # "none" /\ ~source.dji
    /\ \A r \in Runs : output[r] # Absent =>
         /\ output[r].images > 0 /\ output[r].exit = 0 /\ output[r].model
         /\ receipt[r] \in {"none", "SUCCESS"}
=============================================================================
