---------------------------- MODULE EvidenceIntake ----------------------------
(***************************************************************************)
(* Missions, their evidence and the packages made of it                    *)
(* (nextgen/routes/missions.py, routes/evidence.py, storage.py).           *)
(*                                                                         *)
(* A session is one request.  Between two awaits of a handler any other    *)
(* request may run; no handler reads again what it has read.  A file is    *)
(* stored under the hash of its content, so the items of a mission that    *)
(* hold the same content share one file.                                   *)
(***************************************************************************)
EXTENDS Integers, Sequences, FiniteSets, FiniteSetsExt

CONSTANTS
    Missions,
    Digests,        \* contents of files
    Required,       \* min_count of the required category of the product's profile
    Targets,        \* stages an operator may ask for
    Sessions,
    NoMission, NoDigest,
    MaxUploads, MaxDeletes, MaxFinalizes, MaxCrashes,
    MaxOthers       \* bounds the relationships and advances asked for

ASSUME EvidenceAssumption ==
    /\ NoMission \notin Missions /\ NoDigest \notin Digests
    /\ Required \in Nat \ {0}
    /\ Targets \subseteq 1 .. 15
    /\ {MaxUploads, MaxDeletes, MaxFinalizes, MaxCrashes, MaxOthers} \subseteq Nat

VARIABLES
    stage,      \* missions: the stage of each
    item,       \* evidence_items, with their ids
    used,       \* how many ids were given out
    object,     \* the files in storage
    unlinked,   \* history: the files some deletion removed
    link,       \* evidence_relationships
    packed,     \* mission_packages, in the order of insertion
    event,      \* outbox events EVIDENCE_PACKAGE_FINALIZED, by idempotency key
    session,
    budget      \* what is left of the bounds

evidenceVars == <<stage, item, used, object, unlinked, link, packed, event, session, budget>>
stores == <<stage, item, used, object, unlinked, link, packed, event>>

----------------------------------------------------------------------------
Item == [id : Nat \ {0}, mission : Missions, digest : Digests, required : BOOLEAN]

MissionPackage == [mission : Missions, version : Nat \ {0}, items : SUBSET Item]

IdleSession == [pc |-> "idle", mission |-> NoMission, digest |-> NoDigest, required |-> FALSE,
                duplicate |-> FALSE, left |-> 0, right |-> 0, version |-> 0, items |-> {},
                stage |-> 0]

Steps == {"idle", "put", "find", "insert", "relate", "guard", "delete", "unrelate", "unlink",
          "other", "link", "validate", "number", "list", "package", "emit", "promote", "advance"}

EvidenceTypeOK ==
    /\ stage \in [Missions -> 1 .. 15]
    /\ item \subseteq Item
    /\ used \in Nat /\ \A i \in item : i.id <= used
    /\ object \subseteq Missions \X Digests /\ unlinked \subseteq Missions \X Digests
    /\ \A l \in link : l[1] \in 1 .. used /\ l[2] \in 1 .. used
    /\ \A n \in DOMAIN packed : packed[n] \in MissionPackage
    /\ \A e \in event : e[1] \in Missions /\ e[2] \in Nat
    /\ \A s \in Sessions : session[s].pc \in Steps /\ session[s].stage \in 0 .. 15

EvidenceInit ==
    /\ stage = [m \in Missions |-> 1]
    /\ item = {} /\ used = 0
    /\ object = {} /\ unlinked = {} /\ link = {}
    /\ packed = <<>> /\ event = {}
    /\ session = [s \in Sessions |-> IdleSession]

----------------------------------------------------------------------------
(* Control of a handler *)

Begin(s, kind, locals) ==
    /\ session[s].pc = "idle"
    /\ budget[kind] > 0
    /\ budget' = [budget EXCEPT ![kind] = @ - 1]
    /\ session' = [session EXCEPT ![s] = locals]
    /\ UNCHANGED stores

AtStep(s, from) == session[s].pc = from /\ UNCHANGED budget

GotoStep(s, to) == session' = [session EXCEPT ![s].pc = to]

Finish(s) == session' = [session EXCEPT ![s] = IdleSession]

File(s) == <<session[s].mission, session[s].digest>>

Of(m) == {i \in item : i.mission = m}

----------------------------------------------------------------------------
(* upload_evidence *)

BeginUpload(s, m, d, required, intended) ==
    Begin(s, "uploads", [IdleSession EXCEPT !.pc = "put", !.mission = m, !.digest = d,
                                            !.required = required, !.duplicate = intended])

\* storage.put: the file is renamed into its place, unless it is there.
PutFile(s) ==
    /\ AtStep(s, "put")
    /\ object' = object \cup {File(s)}
    /\ GotoStep(s, "find")
    /\ UNCHANGED <<stage, item, used, unlinked, link, packed, event>>

\* Any item of the tenant with this content.
Twins(s) == {i \in item : i.digest = session[s].digest}

\* Mutant of RefuseDuplicate: the file of the refused upload is removed.
RefuseAndClean(s) ==
    /\ AtStep(s, "find")
    /\ Twins(s) # {} /\ ~session[s].duplicate
    /\ object' = object \ {File(s)}
    /\ Finish(s)
    /\ UNCHANGED <<stage, item, used, unlinked, link, packed, event>>

\* The file stays in storage.
RefuseDuplicate(s) ==
    /\ AtStep(s, "find")
    /\ Twins(s) # {} /\ ~session[s].duplicate
    /\ Finish(s)
    /\ UNCHANGED stores

FindDuplicate(s) ==
    /\ AtStep(s, "find")
    /\ \/ Twins(s) = {} /\ GotoStep(s, "insert")
       \/ /\ session[s].duplicate
          /\ \E i \in Twins(s) : session' = [session EXCEPT ![s].pc = "insert",
                                                             ![s].right = i.id]
    /\ UNCHANGED stores

InsertItem(s) ==
    /\ AtStep(s, "insert")
    /\ used' = used + 1
    /\ item' = item \cup {[id |-> used + 1, mission |-> session[s].mission,
                           digest |-> session[s].digest, required |-> session[s].required]}
    /\ session' = [session EXCEPT ![s] = IF @.right = 0 THEN IdleSession
                                         ELSE [@ EXCEPT !.pc = "relate", !.left = used + 1]]
    /\ UNCHANGED <<stage, object, unlinked, link, packed, event>>

\* Also the end of link_duplicate.
InsertLink(s) ==
    /\ AtStep(s, "relate")
    /\ link' = link \cup {<<session[s].left, session[s].right>>}
    /\ Finish(s)
    /\ UNCHANGED <<stage, item, used, object, unlinked, packed, event>>

----------------------------------------------------------------------------
(* link_duplicate: both items are looked for, one after the other *)

BeginLink(s, i, right) ==
    /\ i \in item
    /\ Begin(s, "others", [IdleSession EXCEPT !.pc = "other", !.left = i.id, !.right = right])

FindOther(s) ==
    /\ AtStep(s, "other")
    /\ IF \E i \in item : i.id = session[s].right THEN GotoStep(s, "relate") ELSE Finish(s)
    /\ UNCHANGED stores

----------------------------------------------------------------------------
(* delete_evidence *)

BeginDelete(s, i) ==
    /\ i \in item
    /\ Begin(s, "deletes", [IdleSession EXCEPT !.pc = "guard", !.left = i.id,
                                               !.mission = i.mission, !.digest = i.digest])

Finalized(id) == \E n \in DOMAIN packed : \E i \in packed[n].items : i.id = id

\* Refused if the item is in a finalized package by now.
GuardDelete(s) ==
    /\ AtStep(s, "guard")
    /\ IF Finalized(session[s].left) THEN Finish(s) ELSE GotoStep(s, "delete")
    /\ UNCHANGED stores

DeleteItem(s) ==
    /\ AtStep(s, "delete")
    /\ item' = {i \in item : i.id # session[s].left}
    /\ GotoStep(s, "unrelate")
    /\ UNCHANGED <<stage, used, object, unlinked, link, packed, event>>

DeleteLinks(s) ==
    /\ AtStep(s, "unrelate")
    /\ link' = {l \in link : session[s].left \notin {l[1], l[2]}}
    /\ GotoStep(s, "unlink")
    /\ UNCHANGED <<stage, item, used, object, unlinked, packed, event>>

\* delete_pending: whether other items have the same content is not asked.
DeleteFile(s) ==
    /\ AtStep(s, "unlink")
    /\ object' = object \ {File(s)}
    /\ unlinked' = unlinked \cup {File(s)}
    /\ Finish(s)
    /\ UNCHANGED <<stage, item, used, link, packed, event>>

----------------------------------------------------------------------------
(* finalize_package *)

BeginFinalize(s, m) ==
    Begin(s, "finalizes", [IdleSession EXCEPT !.pc = "validate", !.mission = m, !.stage = stage[m]])

Passes(items) == Cardinality({i \in items : i.required}) >= Required

Validate(s) ==
    /\ AtStep(s, "validate")
    /\ IF Passes(Of(session[s].mission)) THEN GotoStep(s, "number") ELSE Finish(s)
    /\ UNCHANGED stores

Versions(m) == {packed[n].version : n \in {k \in DOMAIN packed : packed[k].mission = m}}

\* Mutant of ReadVersion: two are added.
ReadVersionAfter(s) ==
    /\ AtStep(s, "number")
    /\ session' = [session EXCEPT ![s].pc = "list",
                                  ![s].version = Max(Versions(session[s].mission) \cup {0}) + 2]
    /\ UNCHANGED stores

ReadVersion(s) ==
    /\ AtStep(s, "number")
    /\ session' = [session EXCEPT ![s].pc = "list",
                                  ![s].version = Max(Versions(session[s].mission) \cup {0}) + 1]
    /\ UNCHANGED stores

\* The items are read a second time; this time they are packed as they are.
ListItems(s) ==
    /\ AtStep(s, "list")
    /\ session' = [session EXCEPT ![s].pc = "package", ![s].items = Of(session[s].mission)]
    /\ UNCHANGED stores

InsertMissionPackage(s) ==
    /\ AtStep(s, "package")
    /\ packed' = Append(packed, [mission |-> session[s].mission, version |-> session[s].version,
                                   items |-> session[s].items])
    /\ GotoStep(s, "emit")
    /\ UNCHANGED <<stage, item, used, object, unlinked, link, event>>

\* emit_outbox_event: one event for each key, whichever package came first.  A request that
\* did not see it and meets the index fails here.
EmitFinalized(s) ==
    /\ AtStep(s, "emit")
    /\ event' = event \cup {<<session[s].mission, session[s].version>>}
    /\ \/ GotoStep(s, "promote")
       \/ <<session[s].mission, session[s].version>> \in event /\ Finish(s)
    /\ UNCHANGED <<stage, item, used, object, unlinked, link, packed>>

\* By the stage that was read at the start.
PromoteMission(s) ==
    /\ AtStep(s, "promote")
    /\ stage' = IF session[s].stage < 7 THEN [stage EXCEPT ![session[s].mission] = 7] ELSE stage
    /\ Finish(s)
    /\ UNCHANGED <<item, used, object, unlinked, link, packed, event>>

----------------------------------------------------------------------------
(* advance_mission, and a process that dies *)

BeginAdvance(s, m, to) ==
    /\ stage[m] <= to
    /\ Begin(s, "others", [IdleSession EXCEPT !.pc = "advance", !.mission = m, !.stage = to])

SaveStage(s) ==
    /\ AtStep(s, "advance")
    /\ stage' = [stage EXCEPT ![session[s].mission] = session[s].stage]
    /\ Finish(s)
    /\ UNCHANGED <<item, used, object, unlinked, link, packed, event>>

Crash(s) ==
    /\ session[s].pc # "idle"
    /\ budget.crashes > 0
    /\ budget' = [budget EXCEPT !.crashes = @ - 1]
    /\ Finish(s)
    /\ UNCHANGED stores

----------------------------------------------------------------------------
Ask(s) ==
    \/ \E m \in Missions, d \in Digests, required, intended \in BOOLEAN :
          BeginUpload(s, m, d, required, intended)
    \/ \E i \in item : BeginDelete(s, i)
    \/ \E i \in item, right \in 1 .. used : BeginLink(s, i, right)
    \/ \E m \in Missions : BeginFinalize(s, m)
    \/ \E m \in Missions, to \in Targets : BeginAdvance(s, m, to)

Answer(s) ==
    \/ PutFile(s)       \/ RefuseDuplicate(s)   \/ FindDuplicate(s) \/ InsertItem(s)
    \/ InsertLink(s)    \/ FindOther(s)
    \/ GuardDelete(s)   \/ DeleteItem(s)        \/ DeleteLinks(s)   \/ DeleteFile(s)
    \/ Validate(s)      \/ ReadVersion(s)       \/ ListItems(s)     \/ InsertMissionPackage(s)
    \/ EmitFinalized(s) \/ PromoteMission(s)    \/ SaveStage(s)     \/ Crash(s)

EvidenceNext == \E s \in Sessions : Ask(s) \/ Answer(s)

EvidenceSpec ==
    /\ EvidenceInit
    /\ budget \in [{"uploads", "deletes", "finalizes", "crashes", "others"} -> Nat]
    /\ [][EvidenceNext]_evidenceVars

----------------------------------------------------------------------------
(* Properties *)

\* A recorded item has its file, through crashes and refused uploads alike, unless a
\* deletion removed a file of that mission and content.
RecordedIsStored ==
    \A i \in item : <<i.mission, i.digest>> \in object \cup unlinked

\* The versions of a mission's packages have no gap, however its finalizations overlap.
VersionsWithoutGap ==
    \A n \in DOMAIN packed : packed[n].version > 1 =>
        \E k \in 1 .. n - 1 : /\ packed[k].mission = packed[n].mission
                              /\ packed[k].version = packed[n].version - 1

\* Whoever consumes the event of a finalized package finds the package.
AnnouncedArePackaged ==
    \A e \in event : \E n \in DOMAIN packed :
        packed[n].mission = e[1] /\ packed[n].version = e[2]

\* Versions count a mission's packages, and are announced when there is a package.
PackagesInOrder == VersionsWithoutGap /\ AnnouncedArePackaged

\* The file of an item of a finalized package stays in storage: delete_pending is for
\* an object referenced only by a pending upload.
FinalizedIsStored ==
    \A n \in DOMAIN packed : \A i \in packed[n].items : <<i.mission, i.digest>> \in object

\* A finalized package is never overwritten by another of its version.
VersionsAreUnique ==
    \A n, k \in DOMAIN packed : packed[n].mission = packed[k].mission /\ n # k
                                    => packed[n].version # packed[k].version

\* A package holds what its product's profile requires.
PackagesAreComplete == \A n \in DOMAIN packed : Passes(packed[n].items)

\* The workflow does not regress.
StageNeverRegresses == [][\A m \in Missions : stage'[m] >= stage[m]]_stage
=============================================================================
