------------------------- MODULE PublicationsProofs --------------------------
(***************************************************************************)
(* What the publications of a passport guarantee: the evidence and packages *)
(* of an intake, the history of a report package, the markers of a         *)
(* projection, the acceptance of an ATC mission, and what a homeowner is   *)
(* shown, for any set of them.                                             *)
(***************************************************************************)
EXTENDS EvidenceIntake, ReportPublication, ProjectionMarkers, AtcMission, HabitatView,
        HabitatLink, ProofBasics

----------------------------------------------------------------------------
(* Evidence intake *)

Local ==
    [pc : Steps, mission : Missions \cup {NoMission}, digest : Digests \cup {NoDigest},
     required : BOOLEAN, duplicate : BOOLEAN, left : Nat, right : Nat, version : Nat,
     items : SUBSET Item, stage : 0 .. 15]

Packaged(m, v) == \E n \in DOMAIN packed : packed[n].mission = m /\ packed[n].version = v

\* What a session at each step has left behind.  A file may be deleted under it, and other
\* packages may be inserted.
Knows(l) ==
    /\ l.pc \in {"put", "find", "insert"} => l.mission \in Missions /\ l.digest \in Digests
    /\ l.pc \in {"validate", "number", "list", "package", "emit", "promote", "advance"}
         => l.mission \in Missions
    /\ l.pc \in {"find", "insert"} => <<l.mission, l.digest>> \in object \cup unlinked
    /\ l.pc \in {"list", "package"} => /\ l.version \in 1 .. Len(packed) + 1
                                       /\ l.version > 1 => Packaged(l.mission, l.version - 1)
    /\ l.pc = "emit" => l.version > 0 /\ Packaged(l.mission, l.version)
    /\ l.pc = "advance" => l.stage > 0

EvidenceTypes ==
    /\ item \subseteq Item /\ used \in Nat
    /\ stage \in [Missions -> 1 .. 15]
    /\ packed \in Seq(MissionPackage)
    /\ session \in [Sessions -> Local]

\* A package's version is no more than its place, so that the versions of a mission have a
\* largest one.
EvidenceInv ==
    /\ EvidenceTypes
    /\ RecordedIsStored /\ VersionsWithoutGap /\ AnnouncedArePackaged
    /\ \A n \in DOMAIN packed : packed[n].version <= n
    /\ \A s \in Sessions : Knows(session[s])

LEMMA IdleIsLocal == IdleSession \in Local /\ Knows(IdleSession)
  BY DEF IdleSession, Local, Knows, Steps

LEMMA InitEvidence == EvidenceInit => EvidenceInv
  <1> SUFFICES ASSUME EvidenceInit PROVE EvidenceInv
    OBVIOUS
  <1>1. EvidenceTypes
    BY IdleIsLocal DEF EvidenceInit, EvidenceTypes
  <1>2. \A s \in Sessions : Knows(session[s])
    BY IdleIsLocal DEF EvidenceInit
  <1>3. RecordedIsStored /\ VersionsWithoutGap /\ AnnouncedArePackaged
    BY DEF EvidenceInit, RecordedIsStored, VersionsWithoutGap, AnnouncedArePackaged
  <1> QED
    BY <1>1, <1>2, <1>3 DEF EvidenceInv, EvidenceInit

\* The largest version of a mission, and the one a finalization gives out.
LEMMA NextVersion ==
  ASSUME EvidenceInv, NEW m \in Missions
  PROVE  LET v == Max(Versions(m) \cup {0}) + 1
         IN v \in 1 .. Len(packed) + 1 /\ (v > 1 => Packaged(m, v - 1))
  <1> DEFINE T == Versions(m) \cup {0}
  <1>1. T \subseteq 0 .. Len(packed) /\ Len(packed) \in Nat
    <2>1. ASSUME NEW n \in DOMAIN packed PROVE packed[n].version \in 0 .. Len(packed)
      <3>1. n \in 1 .. Len(packed) /\ packed[n] \in MissionPackage /\ packed[n].version <= n
        BY DEF EvidenceInv, EvidenceTypes
      <3> QED
        BY <3>1 DEF MissionPackage
    <2> QED
      BY <2>1 DEF Versions, EvidenceInv, EvidenceTypes
  <1>2. PICK x \in T : \A y \in T : x >= y
    BY <1>1, GreatestNatural
  <1>3. Max(T) \in T
    BY <1>2 DEF Max
  <1>4. \A v \in Versions(m) : Packaged(m, v)
    BY DEF Versions, Packaged
  <1> HIDE DEF T
  <1>5. Max(T) \in 0 .. Len(packed) /\ (Max(T) > 0 => Max(T) \in Versions(m))
    BY <1>1, <1>3 DEF T
  <1> QED
    BY <1>1, <1>4, <1>5 DEF T

\* Files leave the storage only by a deletion, and packages are only added.
LEMMA StoresGrow ==
  ASSUME EvidenceInv, [EvidenceNext]_evidenceVars
  PROVE  /\ object \cup unlinked \subseteq object' \cup unlinked'
         /\ packed' = packed \/ \E s \in Sessions : InsertMissionPackage(s)
         /\ event' = event \/ \E s \in Sessions : EmitFinalized(s)
         /\ item' \subseteq item \/ \E s \in Sessions : InsertItem(s)
  <1>1. CASE UNCHANGED evidenceVars
    BY <1>1 DEF evidenceVars
  <1>2. ASSUME NEW s \in Sessions, Ask(s) PROVE UNCHANGED stores
    BY <1>2 DEF Ask, BeginUpload, BeginDelete, BeginLink, BeginFinalize, BeginAdvance, Begin
  <1>3. ASSUME NEW s \in Sessions, Answer(s), ~InsertItem(s), ~InsertMissionPackage(s),
               ~EmitFinalized(s)
        PROVE  /\ object \cup unlinked \subseteq object' \cup unlinked'
               /\ UNCHANGED <<packed, event>> /\ item' \subseteq item
    BY <1>3 DEF Answer, PutFile, RefuseDuplicate, FindDuplicate, InsertLink, FindOther,
         GuardDelete, DeleteItem, DeleteLinks, DeleteFile, Validate, ReadVersion, ListItems,
         PromoteMission, SaveStage, Crash, stores
  <1>4. ASSUME NEW s \in Sessions,
               InsertItem(s) \/ InsertMissionPackage(s) \/ EmitFinalized(s)
        PROVE  /\ UNCHANGED <<object, unlinked>>
               /\ packed' = packed \/ InsertMissionPackage(s)
               /\ event' = event \/ EmitFinalized(s)
               /\ item' = item \/ InsertItem(s)
    BY <1>4 DEF InsertItem, InsertMissionPackage, EmitFinalized
  <1> QED
    BY <1>1, <1>2, <1>3, <1>4 DEF EvidenceNext, stores

LEMMA PackageAdded ==
  ASSUME EvidenceInv, NEW s \in Sessions, InsertMissionPackage(s)
  PROVE  LET p == [mission |-> session[s].mission, version |-> session[s].version,
                   items |-> session[s].items]
         IN p \in MissionPackage /\ packed' = Append(packed, p)
  <1>1. session[s] \in Local /\ Knows(session[s]) /\ session[s].pc = "package"
    BY DEF InsertMissionPackage, AtStep, EvidenceInv, EvidenceTypes
  <1>2. /\ session[s].mission \in Missions /\ session[s].version \in Nat \ {0}
        /\ session[s].items \in SUBSET Item
    BY <1>1 DEF Knows, Local
  <1> QED
    BY <1>2 DEF InsertMissionPackage, MissionPackage

LEMMA PackagesStay ==
  ASSUME EvidenceInv, [EvidenceNext]_evidenceVars
  PROVE  /\ packed' \in Seq(MissionPackage) /\ Len(packed) <= Len(packed')
         /\ \A n \in DOMAIN packed : n \in DOMAIN packed' /\ packed'[n] = packed[n]
  <1>1. packed \in Seq(MissionPackage)
    BY DEF EvidenceInv, EvidenceTypes
  <1>2. packed' = packed \/ \E p \in MissionPackage : packed' = Append(packed, p)
    BY StoresGrow, PackageAdded
  <1> QED
    BY <1>1, <1>2

\* What a session knows stays true.
LEMMA KnowledgeStays ==
  ASSUME EvidenceInv, [EvidenceNext]_evidenceVars, NEW l \in Local, Knows(l)
  PROVE  Knows(l)'
  <1>1. \A m \in Missions, v \in Nat : Packaged(m, v) => Packaged(m, v)'
    BY PackagesStay DEF Packaged
  <1>2. Len(packed) \in Nat /\ Len(packed') \in Nat /\ Len(packed) <= Len(packed')
    BY PackagesStay DEF EvidenceInv, EvidenceTypes
  <1>3. object \cup unlinked \subseteq object' \cup unlinked'
    BY StoresGrow
  <1>4. l.version \in Nat
    BY DEF Local
  <1> QED
    BY <1>1, <1>2, <1>3, <1>4 DEF Knows

\* The session that takes a step, and what it knows then.
Becomes(s, l) == l \in Local /\ Knows(l)' /\ session' = [session EXCEPT ![s] = l]

LEMMA BeginBecomes ==
  ASSUME EvidenceInv, NEW s \in Sessions, Ask(s)
  PROVE  \E l \in Local : Becomes(s, l)
  <1> USE IdleIsLocal
  <1>1. ASSUME NEW l \in Local, NEW kind, Begin(s, kind, l), Knows(l), Ask(s) PROVE Becomes(s, l)
    BY <1>1, KnowledgeStays DEF Becomes, Begin, EvidenceNext
  <1>2. ASSUME NEW m \in Missions, NEW d \in Digests, NEW required \in BOOLEAN,
               NEW intended \in BOOLEAN, BeginUpload(s, m, d, required, intended)
        PROVE  \E l \in Local : Becomes(s, l)
    BY <1>1, <1>2 DEF BeginUpload, Local, Knows, Steps, IdleSession
  <1>3. ASSUME NEW i \in item, BeginDelete(s, i) PROVE \E l \in Local : Becomes(s, l)
    BY <1>1, <1>3 DEF BeginDelete, Local, Knows, Steps, IdleSession, EvidenceInv, EvidenceTypes, Item
  <1>4. ASSUME NEW i \in item, NEW right \in 1 .. used, BeginLink(s, i, right)
        PROVE  \E l \in Local : Becomes(s, l)
    <2>1. i.id \in Nat /\ right \in Nat
      BY DEF EvidenceInv, EvidenceTypes, Item
    <2>2. [IdleSession EXCEPT !.pc = "other", !.left = i.id, !.right = right] \in Local
      BY <2>1 DEF Local, Steps
    <2> QED
      BY <1>1, <1>4, <2>2 DEF BeginLink, Knows, IdleSession
  <1>5. ASSUME NEW m \in Missions, BeginFinalize(s, m) PROVE \E l \in Local : Becomes(s, l)
    <2>1. stage[m] \in 0 .. 15
      BY DEF EvidenceInv, EvidenceTypes
    <2>2. [IdleSession EXCEPT !.pc = "validate", !.mission = m, !.stage = stage[m]] \in Local
      BY <2>1 DEF Local, Steps
    <2> QED
      BY <1>1, <1>5, <2>2 DEF BeginFinalize, Knows, IdleSession
  <1>6. ASSUME NEW m \in Missions, NEW to \in Targets, BeginAdvance(s, m, to)
        PROVE  \E l \in Local : Becomes(s, l)
    <2>1. to \in 0 .. 15 /\ to > 0
      BY EvidenceAssumption
    <2>2. [IdleSession EXCEPT !.pc = "advance", !.mission = m, !.stage = to] \in Local
      BY <2>1 DEF Local, Steps
    <2> QED
      BY <1>1, <1>6, <2>1, <2>2 DEF BeginAdvance, Knows, IdleSession
  <1> QED
    BY <1>2, <1>3, <1>4, <1>5, <1>6 DEF Ask

LEMMA AnswerBecomes ==
  ASSUME EvidenceInv, NEW s \in Sessions, Answer(s)
  PROVE  \E l \in Local : Becomes(s, l)
  <1> USE IdleIsLocal
  <1> DEFINE Goes(l) == session' = [session EXCEPT ![s] = l]
  <1>1. PICK h : h = session[s]
    OBVIOUS
  <1>2. h \in Local /\ Knows(h) /\ session[s] = h /\ s \in DOMAIN session
    BY <1>1 DEF EvidenceInv, EvidenceTypes
  <1>3. [EvidenceNext]_evidenceVars
    BY DEF EvidenceNext
  <1>4. ASSUME NEW l \in Local, Knows(l), Goes(l) PROVE Becomes(s, l)
    BY <1>3, <1>4, KnowledgeStays DEF Becomes
  <1> HIDE DEF Goes
  <1>5. ASSUME RefuseDuplicate(s) PROVE \E l \in Local : Becomes(s, l)
    BY <1>5, <1>2, <1>4 DEF RefuseDuplicate, Finish, Goes
  <1>6. ASSUME InsertLink(s) PROVE \E l \in Local : Becomes(s, l)
    BY <1>6, <1>2, <1>4 DEF InsertLink, Finish, Goes
  <1>7. ASSUME DeleteFile(s) PROVE \E l \in Local : Becomes(s, l)
    BY <1>7, <1>2, <1>4 DEF DeleteFile, Finish, Goes
  <1>8. ASSUME PromoteMission(s) PROVE \E l \in Local : Becomes(s, l)
    BY <1>8, <1>2, <1>4 DEF PromoteMission, Finish, Goes
  <1>9. ASSUME SaveStage(s) PROVE \E l \in Local : Becomes(s, l)
    BY <1>9, <1>2, <1>4 DEF SaveStage, Finish, Goes
  <1>10. ASSUME Crash(s) PROVE \E l \in Local : Becomes(s, l)
    BY <1>10, <1>2, <1>4 DEF Crash, Finish, Goes
  <1>11. ASSUME DeleteItem(s) PROVE \E l \in Local : Becomes(s, l)
    <2>1. [h EXCEPT !.pc = "unrelate"] \in Local /\ Knows([h EXCEPT !.pc = "unrelate"])
      BY <1>11, <1>2 DEF Local, Knows, Steps
    <2> QED
      BY <1>11, <1>2, <1>4, <2>1 DEF DeleteItem, GotoStep, Goes
  <1>12. ASSUME DeleteLinks(s) PROVE \E l \in Local : Becomes(s, l)
    <2>1. [h EXCEPT !.pc = "unlink"] \in Local /\ Knows([h EXCEPT !.pc = "unlink"])
      BY <1>12, <1>2 DEF Local, Knows, Steps
    <2> QED
      BY <1>12, <1>2, <1>4, <2>1 DEF DeleteLinks, GotoStep, Goes
  <1>13. ASSUME FindOther(s) PROVE \E l \in Local : Becomes(s, l)
    <2>1. [h EXCEPT !.pc = "relate"] \in Local /\ Knows([h EXCEPT !.pc = "relate"])
      BY <1>13, <1>2 DEF FindOther, AtStep, Local, Knows, Steps
    <2> QED
      BY <1>13, <1>2, <1>4, <2>1 DEF FindOther, GotoStep, Finish, Goes
  <1>14. ASSUME GuardDelete(s) PROVE \E l \in Local : Becomes(s, l)
    <2>1. [h EXCEPT !.pc = "delete"] \in Local /\ Knows([h EXCEPT !.pc = "delete"])
      BY <1>14, <1>2 DEF GuardDelete, AtStep, Local, Knows, Steps
    <2> QED
      BY <1>14, <1>2, <1>4, <2>1 DEF GuardDelete, GotoStep, Finish, Goes
  <1>15. ASSUME Validate(s) PROVE \E l \in Local : Becomes(s, l)
    <2>1. [h EXCEPT !.pc = "number"] \in Local /\ Knows([h EXCEPT !.pc = "number"])
      BY <1>15, <1>2 DEF Validate, AtStep, Local, Knows, Steps
    <2> QED
      BY <1>15, <1>2, <1>4, <2>1 DEF Validate, GotoStep, Finish, Goes
  <1>16. ASSUME EmitFinalized(s) PROVE \E l \in Local : Becomes(s, l)
    <2>1. [h EXCEPT !.pc = "promote"] \in Local /\ Knows([h EXCEPT !.pc = "promote"])
      BY <1>16, <1>2 DEF EmitFinalized, AtStep, Local, Knows, Steps
    <2> QED
      BY <1>16, <1>2, <1>4, <2>1 DEF EmitFinalized, GotoStep, Finish, Goes
  <1>17. ASSUME PutFile(s) PROVE \E l \in Local : Becomes(s, l)
    <2>1. PICK l : l = [h EXCEPT !.pc = "find"]
      OBVIOUS
    <2>2. l \in Local /\ l.pc = "find" /\ l.mission = h.mission /\ l.digest = h.digest
      BY <1>2, <2>1 DEF Local, Steps
    <2>3. /\ h.mission \in Missions /\ h.digest \in Digests
          /\ <<h.mission, h.digest>> \in object'
      BY <1>17, <1>2 DEF PutFile, AtStep, File, Knows
    <2> QED
      BY <1>17, <1>2, <2>1, <2>2, <2>3 DEF PutFile, GotoStep, Becomes, Knows
  <1>18. ASSUME FindDuplicate(s) PROVE \E l \in Local : Becomes(s, l)
    <2>1. ASSUME NEW right \in Nat
          PROVE  /\ [h EXCEPT !.pc = "insert", !.right = right] \in Local
                 /\ Knows([h EXCEPT !.pc = "insert", !.right = right])
      BY <1>18, <1>2 DEF FindDuplicate, AtStep, Local, Knows, Steps
    <2>2. CASE GotoStep(s, "insert")
      <3>1. [h EXCEPT !.pc = "insert"] \in Local /\ Knows([h EXCEPT !.pc = "insert"])
        BY <1>18, <1>2 DEF FindDuplicate, AtStep, Local, Knows, Steps
      <3> QED
        BY <2>2, <1>2, <1>4, <3>1 DEF GotoStep, Goes
    <2>3. ASSUME NEW i \in Twins(s),
                 session' = [session EXCEPT ![s].pc = "insert", ![s].right = i.id]
          PROVE  \E l \in Local : Becomes(s, l)
      <3>1. i.id \in Nat
        BY DEF Twins, EvidenceInv, EvidenceTypes, Item
      <3> QED
        BY <2>1, <2>3, <3>1, <1>2, <1>4 DEF Goes
    <2> QED
      BY <1>18, <2>2, <2>3 DEF FindDuplicate
  <1>19. ASSUME InsertItem(s) PROVE \E l \in Local : Becomes(s, l)
    <2>1. used + 1 \in Nat
      BY DEF EvidenceInv, EvidenceTypes
    <2>2. /\ [h EXCEPT !.pc = "relate", !.left = used + 1] \in Local
          /\ Knows([h EXCEPT !.pc = "relate", !.left = used + 1])
      BY <1>2, <2>1 DEF Local, Knows, Steps
    <2> QED
      BY <1>19, <1>2, <1>4, <2>2 DEF InsertItem, Goes
  <1>20. ASSUME ReadVersion(s) PROVE \E l \in Local : Becomes(s, l)
    <2>1. PICK v : v = Max(Versions(h.mission) \cup {0}) + 1
      OBVIOUS
    <2>2. h.mission \in Missions
      BY <1>20, <1>2 DEF ReadVersion, AtStep, Knows
    <2>3. Len(packed) \in Nat
      BY DEF EvidenceInv, EvidenceTypes
    <2>4. v \in 1 .. Len(packed) + 1 /\ (v > 1 => Packaged(h.mission, v - 1))
      BY <2>1, <2>2, NextVersion, Zenon
    <2>5. PICK l : l = [h EXCEPT !.pc = "list", !.version = v]
      OBVIOUS
    <2>a. v \in Nat
      BY <2>3, <2>4
    <2>6. l \in Local /\ l.pc = "list" /\ l.mission = h.mission /\ l.version = v
      BY <1>2, <2>5, <2>a DEF Local, Steps
    <2>7. Knows(l)
      BY <2>2, <2>4, <2>6 DEF Knows
    <2> QED
      BY <1>20, <1>2, <1>4, <2>1, <2>5, <2>6, <2>7 DEF ReadVersion, Goes
  <1>21. ASSUME ListItems(s) PROVE \E l \in Local : Becomes(s, l)
    <2>1. PICK items : items = Of(h.mission)
      OBVIOUS
    <2>2. items \subseteq Item
      BY <2>1 DEF Of, EvidenceInv, EvidenceTypes
    <2>3. /\ [h EXCEPT !.pc = "package", !.items = items] \in Local
          /\ Knows([h EXCEPT !.pc = "package", !.items = items])
      BY <1>21, <1>2, <2>2 DEF ListItems, AtStep, Local, Knows, Steps
    <2> QED
      BY <1>21, <1>2, <1>4, <2>1, <2>3 DEF ListItems, Goes
  <1>22. ASSUME InsertMissionPackage(s) PROVE \E l \in Local : Becomes(s, l)
    <2>1. PICK l : l = [h EXCEPT !.pc = "emit"]
      OBVIOUS
    <2>2. /\ l \in Local /\ l.pc = "emit" /\ l.mission = h.mission /\ l.version = h.version
          /\ h.mission \in Missions
      BY <1>22, <1>2, <2>1 DEF InsertMissionPackage, AtStep, Local, Knows, Steps
    <2>3. h.version \in Nat /\ h.version > 0
      BY <1>22, <1>2 DEF InsertMissionPackage, AtStep, Knows, EvidenceInv, EvidenceTypes
    <2> DEFINE p == [mission |-> h.mission, version |-> h.version, items |-> h.items]
    <2>4. p \in MissionPackage /\ packed' = Append(packed, p)
      BY <1>22, <1>2, PackageAdded
    <2>5. Len(packed) + 1 \in DOMAIN packed' /\ packed'[Len(packed) + 1] = p
      BY <2>4 DEF EvidenceInv, EvidenceTypes
    <2>6. Packaged(l.mission, l.version)'
      BY <2>2, <2>5 DEF Packaged
    <2> QED
      BY <1>22, <1>2, <2>1, <2>2, <2>3, <2>6 DEF InsertMissionPackage, GotoStep, Becomes, Knows
  <1> QED
    BY <1>5, <1>6, <1>7, <1>8, <1>9, <1>10, <1>11, <1>12, <1>13, <1>14, <1>15, <1>16, <1>17, <1>18, <1>19, <1>20, <1>21, <1>22 DEF Answer

\* Who may write the missions' stages, and the number of ids given out.
LEMMA StagesAndIds ==
  ASSUME EvidenceInv, [EvidenceNext]_evidenceVars
  PROVE  /\ stage' = stage \/ \E s \in Sessions : PromoteMission(s) \/ SaveStage(s)
         /\ used' = used \/ used' = used + 1
  <1>1. CASE UNCHANGED evidenceVars
    BY <1>1 DEF evidenceVars
  <1>2. ASSUME NEW s \in Sessions, Ask(s) PROVE UNCHANGED stores
    BY <1>2 DEF Ask, BeginUpload, BeginDelete, BeginLink, BeginFinalize, BeginAdvance, Begin
  <1>3. ASSUME NEW s \in Sessions, Answer(s), ~PromoteMission(s), ~SaveStage(s)
        PROVE  stage' = stage /\ (used' = used \/ used' = used + 1)
    BY <1>3 DEF Answer, PutFile, RefuseDuplicate, FindDuplicate, InsertItem, InsertLink,
         FindOther, GuardDelete, DeleteItem, DeleteLinks, DeleteFile, Validate, ReadVersion,
         ListItems, InsertMissionPackage, EmitFinalized, Crash, stores
  <1>4. ASSUME NEW s \in Sessions, PromoteMission(s) \/ SaveStage(s) PROVE used' = used
    BY <1>4 DEF PromoteMission, SaveStage
  <1> QED
    BY <1>1, <1>2, <1>3, <1>4 DEF EvidenceNext, stores

\* The item an upload records is one whose file was stored.
LEMMA ItemAdded ==
  ASSUME EvidenceInv, NEW s \in Sessions, InsertItem(s)
  PROVE  \E i \in Item : /\ item' = item \cup {i}
                         /\ <<i.mission, i.digest>> \in object \cup unlinked
  <1>1. session[s] \in Local /\ Knows(session[s]) /\ session[s].pc = "insert" /\ used \in Nat
    BY DEF InsertItem, AtStep, EvidenceInv, EvidenceTypes
  <1>2. /\ session[s].mission \in Missions /\ session[s].digest \in Digests
        /\ session[s].required \in BOOLEAN
        /\ <<session[s].mission, session[s].digest>> \in object \cup unlinked
    BY <1>1 DEF Knows, Local
  <1>3. used + 1 \in Nat \ {0}
    BY <1>1
  <1> DEFINE i == [id |-> used + 1, mission |-> session[s].mission,
                   digest |-> session[s].digest, required |-> session[s].required]
  <1>4. i \in Item
    BY <1>2, <1>3 DEF Item
  <1> QED
    BY <1>2, <1>4 DEF InsertItem

LEMMA EvidenceStep ==
  ASSUME EvidenceInv, [EvidenceNext]_evidenceVars
  PROVE  EvidenceInv'
  <1>1. /\ session' \in [Sessions -> Local]
        /\ \A s \in Sessions : Knows(session[s])'
    <2>1. CASE UNCHANGED evidenceVars
      <3>1. ASSUME NEW r \in Sessions PROVE Knows(session[r])'
        <4>1. PICK k \in Local : k = session[r] /\ k = session'[r]
          BY <2>1 DEF evidenceVars, EvidenceInv, EvidenceTypes
        <4>2. Knows(k)'
          BY <4>1, KnowledgeStays DEF EvidenceInv
        <4> QED
          BY <4>1, <4>2
      <3> QED
        BY <2>1, <3>1 DEF evidenceVars, EvidenceInv, EvidenceTypes
    <2>2. ASSUME NEW s \in Sessions, Ask(s) \/ Answer(s)
          PROVE  /\ session' \in [Sessions -> Local]
                 /\ \A r \in Sessions : Knows(session[r])'
      <3>1. PICK l \in Local : Becomes(s, l)
        BY <2>2, BeginBecomes, AnswerBecomes
      <3>2. \A r \in Sessions : session[r] \in Local /\ Knows(session[r])
        BY DEF EvidenceInv, EvidenceTypes
      <3>3. ASSUME NEW r \in Sessions PROVE Knows(session[r])'
        <4>1. PICK k \in Local : k = session'[r] /\ (k = l \/ k = session[r])
          BY <3>1, <3>2 DEF Becomes, EvidenceInv, EvidenceTypes
        <4>2. Knows(k)'
          BY <3>1, <3>2, <4>1, KnowledgeStays DEF Becomes
        <4> QED
          BY <4>1, <4>2
      <3> QED
        BY <3>1, <3>3 DEF Becomes, EvidenceInv, EvidenceTypes
    <2> QED
      BY <2>1, <2>2 DEF EvidenceNext
  <1>2. item' \subseteq item \/ \E i \in Item : /\ item' = item \cup {i}
                                               /\ <<i.mission, i.digest>> \in object \cup unlinked
    BY StoresGrow, ItemAdded
  <1>3. stage' \in [Missions -> 1 .. 15]
    <2>1. ASSUME NEW s \in Sessions, PromoteMission(s) PROVE stage' \in [Missions -> 1 .. 15]
      <3>1. stage \in [Missions -> 1 .. 15] /\ 7 \in 1 .. 15
        BY DEF EvidenceInv, EvidenceTypes
      <3>2. stage' = stage \/ stage' = [stage EXCEPT ![session[s].mission] = 7]
        BY <2>1 DEF PromoteMission
      <3> QED
        BY <3>1, <3>2
    <2>2. ASSUME NEW s \in Sessions, SaveStage(s) PROVE stage' \in [Missions -> 1 .. 15]
      <3>1. session[s] \in Local /\ Knows(session[s]) /\ session[s].pc = "advance"
        BY <2>2 DEF SaveStage, AtStep, EvidenceInv, EvidenceTypes
      <3>2. session[s].stage \in 1 .. 15
        BY <3>1 DEF Knows, Local
      <3> QED
        BY <2>2, <3>2 DEF SaveStage, EvidenceInv, EvidenceTypes
    <2> QED
      BY <2>1, <2>2, StagesAndIds DEF EvidenceInv, EvidenceTypes
  <1>4. EvidenceTypes'
    <2>1. item \subseteq Item /\ used \in Nat
      BY DEF EvidenceInv, EvidenceTypes
    <2>3. item' \subseteq Item
      BY <1>2, <2>1
    <2>4. used' \in Nat
      BY <2>1, StagesAndIds
    <2>2. packed' \in Seq(MissionPackage)
      BY PackagesStay
    <2> QED
      BY <1>1, <1>3, <2>2, <2>3, <2>4 DEF EvidenceTypes
  <1>5. RecordedIsStored'
    BY <1>2, StoresGrow DEF EvidenceInv, RecordedIsStored
  <1>6. VersionsWithoutGap' /\ \A n \in DOMAIN packed' : packed'[n].version <= n
    <2>1. packed \in Seq(MissionPackage) /\ Len(packed) \in Nat
      BY DEF EvidenceInv, EvidenceTypes
    <2>2. CASE packed' = packed
      BY <2>2 DEF EvidenceInv, VersionsWithoutGap
    <2>3. ASSUME NEW s \in Sessions, InsertMissionPackage(s)
          PROVE  VersionsWithoutGap' /\ \A n \in DOMAIN packed' : packed'[n].version <= n
      <3>1. PICK p \in MissionPackage :
               /\ packed' = Append(packed, p)
               /\ p.mission = session[s].mission /\ p.version = session[s].version
        BY <2>3, PackageAdded
      <3>2. session[s] \in Local /\ Knows(session[s]) /\ session[s].pc = "package"
        BY <2>3 DEF InsertMissionPackage, AtStep, EvidenceInv, EvidenceTypes
      <3>3. /\ p.version \in 1 .. Len(packed) + 1
            /\ p.version > 1 => Packaged(p.mission, p.version - 1)
        BY <3>1, <3>2 DEF Knows
      <3>4. \A n \in DOMAIN packed' :
               \/ n \in DOMAIN packed /\ packed'[n] = packed[n]
               \/ n = Len(packed) + 1 /\ packed'[n] = p
        BY <2>1, <3>1
      <3>5. \A n \in DOMAIN packed : n \in 1 .. Len(packed) /\ packed'[n] = packed[n]
        BY <2>1, <3>1
      <3>6. \A n \in DOMAIN packed' : packed'[n].version <= n
        BY <2>1, <3>3, <3>4 DEF EvidenceInv
      <3>7. ASSUME NEW n \in DOMAIN packed', packed'[n].version > 1
            PROVE  \E k \in 1 .. n - 1 : /\ packed'[k].mission = packed'[n].mission
                                         /\ packed'[k].version = packed'[n].version - 1
        <4>1. CASE n \in DOMAIN packed /\ packed'[n] = packed[n]
          <5>1. PICK k \in 1 .. n - 1 : /\ packed[k].mission = packed[n].mission
                                        /\ packed[k].version = packed[n].version - 1
            BY <3>7, <4>1 DEF EvidenceInv, VersionsWithoutGap
          <5>2. k \in DOMAIN packed
            BY <4>1, <3>5, <2>1
          <5> QED
            BY <4>1, <5>1, <5>2, <3>5
        <4>2. CASE n = Len(packed) + 1 /\ packed'[n] = p
          <5>1. PICK k \in DOMAIN packed : /\ packed[k].mission = p.mission
                                           /\ packed[k].version = p.version - 1
            BY <3>3, <3>7, <4>2 DEF Packaged
          <5>2. k \in 1 .. n - 1
            BY <4>2, <3>5, <2>1
          <5> QED
            BY <4>2, <5>1, <5>2, <3>5
        <4> QED
          BY <3>4, <4>1, <4>2
      <3> QED
        BY <3>6, <3>7 DEF VersionsWithoutGap
    <2> QED
      BY <2>2, <2>3, StoresGrow
  <1>7. AnnouncedArePackaged'
    <2>1. \A e \in event' : Packaged(e[1], e[2])
      <3>1. ASSUME NEW s \in Sessions, EmitFinalized(s), NEW e \in event'
            PROVE  Packaged(e[1], e[2])
        <4>1. session[s] \in Local /\ Knows(session[s]) /\ session[s].pc = "emit"
          BY <3>1 DEF EmitFinalized, AtStep, EvidenceInv, EvidenceTypes
        <4>2. e \in event \/ e = <<session[s].mission, session[s].version>>
          BY <3>1 DEF EmitFinalized
        <4> QED
          BY <4>1, <4>2 DEF Knows, EvidenceInv, AnnouncedArePackaged, Packaged
      <3> QED
        BY <3>1, StoresGrow DEF EvidenceInv, AnnouncedArePackaged, Packaged
    <2> QED
      BY <2>1, PackagesStay DEF AnnouncedArePackaged, Packaged
  <1> QED
    BY <1>1, <1>4, <1>5, <1>6, <1>7 DEF EvidenceInv

\* An item that is recorded has its file, unless a deletion removed a file of that mission
\* and content (upload_evidence, delete_evidence).
THEOREM RecordedAlwaysStored == EvidenceSpec => []RecordedIsStored
  <1>1. EvidenceInv => RecordedIsStored
    BY DEF EvidenceInv
  <1> QED
    BY InitEvidence, EvidenceStep, <1>1, PTL DEF EvidenceSpec

\* The packages of a mission are numbered without a gap, and every event announces a
\* package that was inserted (finalize_package).
THEOREM PackagesAlwaysInOrder == EvidenceSpec => []PackagesInOrder
  <1>1. EvidenceInv => PackagesInOrder
    BY DEF EvidenceInv, PackagesInOrder
  <1> QED
    BY InitEvidence, EvidenceStep, <1>1, PTL DEF EvidenceSpec

----------------------------------------------------------------------------
(* Projection markers *)

WorkSteps == {"idle", "entries", "lookup", "mark", "compare", "matched", "drift_detected",
              "insufficient_data", "inspect", "repair", "result", "approve"}

Work == [pc : WorkSteps, audience : Audiences \cup {NoAudience}, source : Sources \cup {NoSource},
         head : Nat, shown : SUBSET Nat, at : Nat]

\* What a worker at each step has read is no more than there is: the head only grows, and a
\* published result is not taken back.
ReadsTrue(l) ==
    /\ l.head <= head /\ l.shown \subseteq 1 .. head
    /\ l.pc \in {"lookup", "mark"} => Complete(l)
    /\ l.pc = "approve" => l.source \in published

MarkersInv ==
    /\ head \in Nat /\ withheld \subseteq 1 .. head /\ marker \in Seq(Marker)
    /\ work \in [Workers -> Work]
    /\ ApprovedIsPublished
    /\ \A w \in Workers : ReadsTrue(work[w])

LEMMA InitMarkers == MarkersInit => MarkersInv
  BY DEF MarkersInit, MarkersInv, NoWork, Work, WorkSteps, ReadsTrue, Complete,
     ApprovedIsPublished

\* What a worker read stays true.
LEMMA ReadsStayTrue ==
  ASSUME MarkersInv, [MarkersNext]_markerVars
  PROVE  /\ head' \in Nat /\ withheld' \subseteq 1 .. head' /\ published \subseteq published'
         /\ \A l \in Work : ReadsTrue(l) => ReadsTrue(l)'
  <1>1. head \in Nat /\ withheld \subseteq 1 .. head
    BY DEF MarkersInv
  <1>2. CASE UNCHANGED markerVars
    BY <1>1, <1>2 DEF markerVars, markers, ReadsTrue, Complete
  <1>3. ASSUME UNCHANGED <<head, withheld>>, published \subseteq published'
        PROVE  /\ head' \in Nat /\ withheld' \subseteq 1 .. head' /\ published \subseteq published'
               /\ \A l \in Work : ReadsTrue(l) => ReadsTrue(l)'
    BY <1>1, <1>3 DEF ReadsTrue, Complete
  <1>4. CASE AppendEntry
    <2>1. /\ head' = head + 1 /\ published' = published
          /\ withheld \subseteq withheld' /\ withheld' \subseteq withheld \cup {head + 1}
      BY <1>4 DEF AppendEntry
    <2>2. ASSUME NEW l \in Work, ReadsTrue(l) PROVE ReadsTrue(l)'
      <3>1. /\ l.head \in Nat /\ l.head <= head' /\ l.shown \subseteq 1 .. head'
            /\ l.shown \cap withheld' = l.shown \cap withheld
        BY <1>1, <2>1, <2>2 DEF ReadsTrue, Work
      <3>2. MaxEntries \in Nat
        BY MarkerAssumption
      <3>3. Complete(l) => Complete(l)'
        BY <1>1, <2>1, <3>1, <3>2 DEF Complete
      <3> QED
        BY <2>1, <2>2, <3>1, <3>3 DEF ReadsTrue
    <2> QED
      BY <1>1, <2>1, <2>2
  <1>5. ASSUME NEW x \in Sources, PublishSource(x)
        PROVE  UNCHANGED <<head, withheld>> /\ published \subseteq published'
    BY <1>5 DEF PublishSource
  <1>6. ASSUME NEW w \in Workers, WorkStep(w)
        PROVE  UNCHANGED <<head, withheld>> /\ published' = published
    BY <1>6 DEF WorkStep, BeginProjection, ReadEntries, FindMarker, SaveMarker, BeginReconcile,
         Compare, Report, BeginRepair, Inspect, Repair, BeginSource, FindResult, ApproveSource,
         Working, markers
  <1> QED
    BY <1>2, <1>3, <1>4, <1>5, <1>6 DEF MarkersNext

\* One worker takes a step, and has read what is there.
WorkBecomes(w, l) == l \in Work /\ ReadsTrue(l)' /\ work' = [work EXCEPT ![w] = l]

LEMMA WorkerBecomes ==
  ASSUME MarkersInv, MarkersNext, NEW w \in Workers, WorkStep(w)
  PROVE  \E l \in Work : WorkBecomes(w, l)
  <1> DEFINE Goes(l) == work' = [work EXCEPT ![w] = l]
  <1>1. PICK h : h = work[w]
    OBVIOUS
  <1>2. h \in Work /\ ReadsTrue(h) /\ work[w] = h /\ w \in DOMAIN work /\ head \in Nat
    BY <1>1 DEF MarkersInv
  <1>3. ASSUME NEW l \in Work, ReadsTrue(l), Goes(l) PROVE \E k \in Work : WorkBecomes(w, k)
    BY <1>3, ReadsStayTrue DEF WorkBecomes
  <1> HIDE DEF Goes
  <1>4. NoWork \in Work /\ ReadsTrue(NoWork)
    BY <1>2 DEF NoWork, Work, WorkSteps, ReadsTrue
  <1>5. ASSUME Done(w) PROVE \E k \in Work : WorkBecomes(w, k)
    BY <1>3, <1>4, <1>5 DEF Done, Goes
  <1>6. ASSUME NEW pc \in WorkSteps \ {"lookup", "mark", "approve"}, Advance(w, pc)
        PROVE  \E k \in Work : WorkBecomes(w, k)
    <2>1. [h EXCEPT !.pc = pc] \in Work /\ ReadsTrue([h EXCEPT !.pc = pc])
      BY <1>2 DEF Work, ReadsTrue
    <2> QED
      BY <1>2, <1>3, <1>6, <2>1 DEF Advance, Goes
  <1>7. ASSUME NEW a \in Audiences, BeginProjection(w, a) PROVE \E k \in Work : WorkBecomes(w, k)
    <2>1. PICK l : l = [NoWork EXCEPT !.pc = "entries", !.audience = a, !.head = head]
      OBVIOUS
    <2>2. l \in Work /\ l.pc = "entries" /\ l.head = head /\ l.shown = {}
      BY <1>2, <1>4, <2>1 DEF NoWork, Work, WorkSteps
    <2>3. ReadsTrue(l)
      BY <1>2, <2>2 DEF ReadsTrue
    <2> QED
      BY <1>3, <1>7, <2>1, <2>2, <2>3 DEF BeginProjection, Working, Goes
  <1>8. ASSUME BeginReconcile(w) \/ BeginRepair(w) PROVE \E k \in Work : WorkBecomes(w, k)
    <2>1. ASSUME NEW pc \in {"compare", "inspect"}
          PROVE  /\ [NoWork EXCEPT !.pc = pc, !.head = head] \in Work
                 /\ ReadsTrue([NoWork EXCEPT !.pc = pc, !.head = head])
      <3>1. PICK l : l = [NoWork EXCEPT !.pc = pc, !.head = head]
        OBVIOUS
      <3>2. l \in Work /\ l.pc \in {"compare", "inspect"} /\ l.head = head /\ l.shown = {}
        BY <1>2, <1>4, <3>1 DEF NoWork, Work, WorkSteps
      <3> QED
        BY <1>2, <3>1, <3>2 DEF ReadsTrue
    <2> QED
      BY <1>3, <1>8, <2>1 DEF BeginReconcile, BeginRepair, Working, Goes
  <1>9. ASSUME NEW x \in Sources, BeginSource(w, x) PROVE \E k \in Work : WorkBecomes(w, k)
    <2>1. PICK l : l = [NoWork EXCEPT !.pc = "result", !.source = x]
      OBVIOUS
    <2>2. l \in Work /\ l.pc = "result" /\ l.head = NoWork.head /\ l.shown = {}
      BY <1>4, <2>1 DEF NoWork, Work, WorkSteps
    <2>3. ReadsTrue(l)
      BY <1>4, <2>2 DEF ReadsTrue
    <2> QED
      BY <1>3, <1>9, <2>1, <2>2, <2>3 DEF BeginSource, Working, Goes
  <1>10. ASSUME ReadEntries(w) PROVE \E k \in Work : WorkBecomes(w, k)
    <2>1. PICK n : n = Newest \ withheld
      OBVIOUS
    <2>2. n \subseteq 1 .. head /\ n \in SUBSET Nat
      BY <2>1 DEF Newest
    <2>3. PICK l : l = [h EXCEPT !.pc = "lookup", !.shown = n]
      OBVIOUS
    <2>4. l \in Work /\ l.pc = "lookup" /\ l.shown = n /\ l.head = h.head
      BY <1>2, <2>2, <2>3 DEF Work, WorkSteps
    <2>5. ReadsTrue(l)
      <3>1. h.head \in Nat /\ h.head <= head /\ MaxEntries \in Nat
        BY <1>2, MarkerAssumption DEF Work, ReadsTrue
      <3>2. \A e \in 1 .. h.head : e \in n \cup withheld \/ head - e >= MaxEntries
        BY <1>2, <2>1, <3>1 DEF Newest
      <3> QED
        BY <2>1, <2>2, <2>4, <3>1, <3>2 DEF ReadsTrue, Complete
    <2> QED
      BY <1>2, <1>3, <1>10, <2>1, <2>3, <2>4, <2>5 DEF ReadEntries, Goes
  <1>11. ASSUME FindMarker(w) PROVE \E k \in Work : WorkBecomes(w, k)
    <2>1. ASSUME NEW n \in Nat
          PROVE  /\ [h EXCEPT !.pc = "mark", !.at = n] \in Work
                 /\ ReadsTrue([h EXCEPT !.pc = "mark", !.at = n])
      BY <1>2, <1>11 DEF FindMarker, Doing, Work, WorkSteps, ReadsTrue, Complete
    <2>2. [h EXCEPT !.pc = "mark"] \in Work /\ ReadsTrue([h EXCEPT !.pc = "mark"])
      BY <1>2, <1>11 DEF FindMarker, Doing, Work, WorkSteps, ReadsTrue, Complete
    <2>3. CASE Advance(w, "mark")
      BY <1>2, <1>3, <2>2, <2>3 DEF Advance, Goes
    <2>4. ASSUME NEW n \in Own(w), work' = [work EXCEPT ![w].pc = "mark", ![w].at = n]
          PROVE  \E k \in Work : WorkBecomes(w, k)
      <3>1. n \in Nat
        BY DEF Own, MarkersInv
      <3> QED
        BY <1>2, <1>3, <2>1, <2>4, <3>1 DEF Goes
    <2> QED
      BY <1>5, <1>11, <2>3, <2>4 DEF FindMarker
  <1>12. ASSUME Compare(w) PROVE \E k \in Work : WorkBecomes(w, k)
    BY <1>6, <1>12 DEF Compare, Verdict, WorkSteps
  <1>13. ASSUME Inspect(w) PROVE \E k \in Work : WorkBecomes(w, k)
    <2>1. ASSUME NEW n \in Nat
          PROVE  /\ [h EXCEPT !.pc = "repair", !.at = n] \in Work
                 /\ ReadsTrue([h EXCEPT !.pc = "repair", !.at = n])
      BY <1>2 DEF Work, WorkSteps, ReadsTrue
    <2>2. FirstMarker \in Nat
      BY DEF FirstMarker
    <2> QED
      BY <1>2, <1>3, <1>5, <1>13, <2>1, <2>2 DEF Inspect, Goes
  <1>14. ASSUME FindResult(w) PROVE \E k \in Work : WorkBecomes(w, k)
    <2>1. CASE Done(w)
      BY <1>5, <2>1
    <2>2. CASE work[w].source \in published \ approved /\ Advance(w, "approve")
      <3>1. [h EXCEPT !.pc = "approve"] \in Work /\ ReadsTrue([h EXCEPT !.pc = "approve"])
        BY <1>2, <2>2 DEF Work, WorkSteps, ReadsTrue
      <3> QED
        BY <1>2, <1>3, <2>2, <3>1 DEF Advance, Goes
    <2> QED
      BY <1>14, <2>1, <2>2 DEF FindResult
  <1>15. ASSUME SaveMarker(w) \/ Report(w) \/ Repair(w) \/ ApproveSource(w)
         PROVE  \E k \in Work : WorkBecomes(w, k)
    BY <1>5, <1>15 DEF SaveMarker, Report, Repair, ApproveSource
  <1> QED
    BY <1>7, <1>8, <1>9, <1>10, <1>11, <1>12, <1>13, <1>14, <1>15 DEF WorkStep

LEMMA MarkersStep ==
  ASSUME MarkersInv, [MarkersNext]_markerVars
  PROVE  MarkersInv'
  <1>1. work' = work \/ \E w \in Workers : \E l \in Work : WorkBecomes(w, l)
    <2>1. CASE UNCHANGED markerVars
      BY <2>1 DEF markerVars
    <2>2. ASSUME MarkersNext, NEW w \in Workers, WorkStep(w)
          PROVE  \E l \in Work : WorkBecomes(w, l)
      BY <2>2, WorkerBecomes
    <2> QED
      BY <2>1, <2>2 DEF MarkersNext, AppendEntry, PublishSource
  <1>2. work' \in [Workers -> Work] /\ \A r \in Workers : ReadsTrue(work[r])'
    <2>1. ASSUME NEW r \in Workers PROVE ReadsTrue(work[r])'
      <3>1. work \in [Workers -> Work] /\ \A w \in Workers : ReadsTrue(work[w])
        BY DEF MarkersInv
      <3>2. PICK k : k = work'[r]
        OBVIOUS
      <3>3. k \in Work /\ (ReadsTrue(k) \/ ReadsTrue(k)')
        BY <1>1, <3>1, <3>2 DEF WorkBecomes
      <3>4. ReadsTrue(k)'
        BY <3>3, ReadsStayTrue
      <3> QED
        BY <3>2, <3>4
    <2>2. work' \in [Workers -> Work]
      BY <1>1 DEF WorkBecomes, MarkersInv
    <2> QED
      BY <2>1, <2>2
  <1>3. marker' \in Seq(Marker)
    <2>1. marker \in Seq(Marker)
      BY DEF MarkersInv
    <2>2. ASSUME NEW w \in Workers, SaveMarker(w) PROVE marker' \in Seq(Marker)
      <3> DEFINE new == [audience |-> work[w].audience, head |-> work[w].head,
                         count |-> Cardinality(work[w].shown)]
      <3>1. work[w] \in Work /\ work[w].shown \subseteq 1 .. head /\ head \in Nat
        BY DEF MarkersInv, ReadsTrue
      <3>2. IsFiniteSet(1 .. head)
        <4>1. PICK one \in Int, top \in Int : one = 1 /\ top = head
          BY <3>1
        <4>2. IsFiniteSet(one .. top)
          BY FS_Interval, Zenon
        <4> QED
          BY <4>1, <4>2
      <3>3. IsFiniteSet(work[w].shown)
        BY <3>1, <3>2, FS_Subset
      <3>4. Cardinality(work[w].shown) \in Nat
        BY <3>3, FS_CardinalityType
      <3>5. new \in Marker
        BY <3>1, <3>4 DEF Work, Marker
      <3>6. marker' = Append(marker, new) \/ marker' = [marker EXCEPT ![work[w].at] = new]
        BY <2>2 DEF SaveMarker
      <3> QED
        BY <2>1, <3>5, <3>6
    <2>3. ASSUME NEW w \in Workers, Repair(w) PROVE marker' \in Seq(Marker)
      <3> DEFINE new == [audience |-> NoAudience, head |-> work[w].head, count |-> 0]
      <3>1. work[w].head \in Nat
        BY DEF MarkersInv, Work
      <3>2. new \in Marker
        BY <3>1 DEF Marker
      <3>3. CASE marker' = Append(marker, new)
        BY <2>1, <3>2, <3>3
      <3>4. CASE marker' = [marker EXCEPT ![1].head = work[w].head]
        <4>1. CASE 1 \in DOMAIN marker
          <5>1. PICK m : m = [marker[1] EXCEPT !.head = work[w].head]
            OBVIOUS
          <5>2. marker[1] \in Marker
            BY <2>1, <4>1
          <5>3. m \in Marker
            BY <3>1, <5>1, <5>2 DEF Marker
          <5>4. marker' = [marker EXCEPT ![1] = m]
            BY <3>4, <5>1
          <5> QED
            BY <2>1, <4>1, <5>3, <5>4
        <4>2. CASE 1 \notin DOMAIN marker
          <5>1. marker' = marker
            BY <2>1, <3>4, <4>2
          <5> QED
            BY <2>1, <5>1
        <4> QED
          BY <4>1, <4>2
      <3> QED
        BY <2>3, <3>3, <3>4 DEF Repair
    <2>4. ASSUME MarkersNext, ~\E w \in Workers : SaveMarker(w) \/ Repair(w)
          PROVE  marker' = marker
      BY <2>4 DEF MarkersNext, AppendEntry, PublishSource, WorkStep, BeginProjection, ReadEntries,
           FindMarker, BeginReconcile, Compare, Report, BeginRepair, Inspect, BeginSource,
           FindResult, ApproveSource, Working, markers
    <2> QED
      BY <2>1, <2>2, <2>3, <2>4 DEF markerVars, markers
  <1>4. ApprovedIsPublished'
    <2>1. ASSUME NEW w \in Workers, ApproveSource(w) PROVE approved' \subseteq published
      BY <2>1 DEF ApproveSource, Doing, MarkersInv, ReadsTrue, ApprovedIsPublished
    <2>2. ASSUME MarkersNext, ~\E w \in Workers : ApproveSource(w) PROVE approved' = approved
      BY <2>2 DEF MarkersNext, AppendEntry, PublishSource, WorkStep, BeginProjection, ReadEntries,
           FindMarker, SaveMarker, BeginReconcile, Compare, Report, BeginRepair, Inspect, Repair,
           BeginSource, FindResult, Working, markers
    <2> QED
      BY <2>1, <2>2, ReadsStayTrue DEF markerVars, markers, MarkersInv, ApprovedIsPublished
  <1> QED
    BY <1>2, <1>3, <1>4, ReadsStayTrue DEF MarkersInv

\* A projection shows every released entry of the head it names, up to its limit, and none
\* that is withheld, however many entries are appended between its two reads
\* (produce_bounded_passport_projection).
THEOREM ProjectionAlwaysFull == MarkersSpec => []ProjectionIsFull
  <1>1. MarkersInv => ProjectionIsFull
    BY DEF MarkersInv, ReadsTrue, ProjectionIsFull
  <1> QED
    BY InitMarkers, MarkersStep, <1>1, PTL DEF MarkersSpec

\* Reconciliation approves a source only when its result was published
\* (reconcile_source_publication_state).
THEOREM ApprovedAlwaysPublished == MarkersSpec => []ApprovedIsPublished
  <1>1. MarkersInv => ApprovedIsPublished
    BY DEF MarkersInv
  <1> QED
    BY InitMarkers, MarkersStep, <1>1, PTL DEF MarkersSpec

----------------------------------------------------------------------------
(* ATC missions *)

MissionStates == DOMAIN BaseTransitions

MissionRecord ==
    [state : MissionStates, type : Types \cup {""}, pair : Orchestrations \cup {NoPair},
     geometry : BOOLEAN, awe : BOOLEAN, valid4e : BOOLEAN, valid4t : BOOLEAN]

\* The states a mission is in only after its evidence manifest was ready.
ManifestReady == {"EVIDENCE_MANIFEST_READY", "GEOMETRY_CANDIDATE_READY", "AWE_CANDIDATE_READY",
                  "ATC_PAIR_VALIDATED", "READY_FOR_PASSPORT_HANDOFF"}

Preflighted == {"PREFLIGHT_PASSED", "CAPTURE_PACKAGE_ASSEMBLED"} \cup ManifestReady

\* What the flags and the state of one mission say of its type, its partner and its past.
MissionHolds(h, past) ==
    /\ h.state = "DRAFT" => h.type = ""
    /\ h.valid4e => h.type = "DAYTIME_PRECISION_MAPPING" /\ h.pair # NoPair
    /\ h.valid4t => h.type = "NIGHTTIME_AWE_VISUAL_THERMAL" /\ h.pair # NoPair
    /\ h.state \in Preflighted => "PREFLIGHT_PASSED" \in past
    /\ h.state \in ManifestReady => "EVIDENCE_MANIFEST_READY" \in past
    /\ h.state \notin Stopped => past \cap Stopped = {}

MissionInv ==
    /\ mission \in [Orchestrations -> MissionRecord]
    /\ passed \in [Orchestrations -> SUBSET (Gates \cup Stopped)]
    /\ \A m \in Orchestrations : MissionHolds(mission[m], passed[m])

\* The states of the table, by name.
LEMMA StatesOfTable ==
    MissionStates = {"DRAFT", "PROFILE_SELECTED", "PREFLIGHT_PENDING", "PREFLIGHT_FAILED",
        "PREFLIGHT_PASSED", "CAPTURE_PACKAGE_ASSEMBLED", "EVIDENCE_MANIFEST_READY",
        "GEOMETRY_CANDIDATE_READY", "AWE_CANDIDATE_READY", "ATC_PAIR_VALIDATED",
        "READY_FOR_PASSPORT_HANDOFF", "BLOCKED", "CANCELED", "FAILED"}
  BY DEF MissionStates, BaseTransitions

\* No edge of the table leads around a gate, out of a stop or back to a draft.
LEMMA EdgesKeepGates ==
    ASSUME NEW s \in MissionStates, NEW to \in BaseTransitions[s]
    PROVE  /\ to \in MissionStates \ {"DRAFT"}
           /\ s \in Stopped => to \in Stopped
           /\ to \in ManifestReady => s \in ManifestReady \/ to = "EVIDENCE_MANIFEST_READY"
           /\ to \in Preflighted => s \in Preflighted \/ to = "PREFLIGHT_PASSED"
           /\ to \in ManifestReady => s \in Preflighted
  BY StatesOfTable DEF BaseTransitions, Stopped, ManifestReady, Preflighted

\* Only a validated pair may be handed off.
LEMMA HandOffEdge ==
    \A s \in MissionStates : MayHandOff(s) => s = "ATC_PAIR_VALIDATED"
  BY StatesOfTable DEF MayHandOff, BaseTransitions

\* A mission that takes an edge of the table, with its history, still holds.
LEMMA EdgeHolds ==
    ASSUME NEW h \in MissionRecord, NEW past \in SUBSET (Gates \cup Stopped),
           MissionHolds(h, past), NEW to \in BaseTransitions[h.state],
           NEW l \in MissionRecord,
           l.state = to, l.pair = h.pair, l.valid4e = h.valid4e, l.valid4t = h.valid4t,
           h.type = l.type \/ (h.state = "DRAFT" /\ ~h.valid4e /\ ~h.valid4t)
    PROVE  MissionHolds(l, past \cup ({to} \cap (Gates \cup Stopped)))
  <1>1. h.state \in MissionStates
    BY DEF MissionRecord
  <1>2. /\ to \in MissionStates \ {"DRAFT"}
        /\ h.state \in Stopped => to \in Stopped
        /\ to \in ManifestReady => h.state \in ManifestReady \/ to = "EVIDENCE_MANIFEST_READY"
        /\ to \in Preflighted => h.state \in Preflighted \/ to = "PREFLIGHT_PASSED"
    BY <1>1, EdgesKeepGates
  <1>3. {"PREFLIGHT_PASSED", "EVIDENCE_MANIFEST_READY"} = Gates
    BY DEF Gates
  <1> HIDE DEF Gates
  <1>4. to \notin Stopped => (past \cup ({to} \cap (Gates \cup Stopped))) \cap Stopped = {}
    BY <1>2 DEF MissionHolds
  <1> QED
    BY <1>2, <1>3, <1>4 DEF MissionHolds

\* One mission takes an edge, whatever else of its record changes.
LEMMA OneMissionMoves ==
    ASSUME MissionInv, NEW m \in Orchestrations, NEW l \in MissionRecord,
           l.state \in BaseTransitions[mission[m].state],
           l.pair = mission[m].pair,
           l.valid4e = mission[m].valid4e, l.valid4t = mission[m].valid4t,
           \/ l.type = mission[m].type
           \/ mission[m].state = "DRAFT",
           mission' = [mission EXCEPT ![m] = l],
           Record(m, l.state)
    PROVE  MissionInv'
  <1>1. PICK h \in MissionRecord : h = mission[m]
    BY DEF MissionInv
  <1>2. PICK past \in SUBSET (Gates \cup Stopped) : past = passed[m]
    BY DEF MissionInv
  <1>3. MissionHolds(h, past)
    BY <1>1, <1>2 DEF MissionInv
  <1>4. h.state = "DRAFT" => ~h.valid4e /\ ~h.valid4t
    BY <1>3 DEF MissionHolds, MissionRecord
  <1>5. MissionHolds(l, past \cup ({l.state} \cap (Gates \cup Stopped)))
    BY <1>1, <1>3, <1>4, EdgeHolds
  <1>6. passed' = [passed EXCEPT ![m] = past \cup ({l.state} \cap (Gates \cup Stopped))]
    BY <1>2 DEF Record
  <1>7. passed' \in [Orchestrations -> SUBSET (Gates \cup Stopped)]
    BY <1>6 DEF MissionInv
  <1>8. mission' \in [Orchestrations -> MissionRecord]
    BY DEF MissionInv
  <1>9. mission'[m] = l /\ passed'[m] = past \cup ({l.state} \cap (Gates \cup Stopped))
    BY <1>6 DEF MissionInv
  <1>10. \A o \in Orchestrations : o # m => mission'[o] = mission[o] /\ passed'[o] = passed[o]
    BY <1>6 DEF MissionInv
  <1>11. ASSUME NEW o \in Orchestrations PROVE MissionHolds(mission'[o], passed'[o])
    <2>1. CASE o = m
      BY <1>5, <1>9, <2>1
    <2>2. CASE o # m
      BY <1>10, <2>2 DEF MissionInv
    <2> QED
      BY <2>1, <2>2
  <1> QED
    BY <1>7, <1>8, <1>11 DEF MissionInv

\* A partner is written, and the states only move towards the handoff.
LEMMA PairedHolds ==
    ASSUME NEW h \in MissionRecord, NEW past, MissionHolds(h, past),
           NEW l \in MissionRecord,
           l.state \in {h.state, "ATC_PAIR_VALIDATED", "READY_FOR_PASSPORT_HANDOFF"},
           l.state # h.state => h.state \in ManifestReady,
           l.type = h.type, l.pair # NoPair,
           l.valid4e => h.valid4e \/ h.type = "DAYTIME_PRECISION_MAPPING",
           l.valid4t => h.valid4t \/ h.type = "NIGHTTIME_AWE_VISUAL_THERMAL"
    PROVE  MissionHolds(l, past)
  BY DEF MissionHolds, ManifestReady, Preflighted, Stopped

LEMMA PairMoves ==
    ASSUME MissionInv, AtcAssumption, NEW m \in Orchestrations, NEW a \in Orchestrations,
           ValidatePair(m, a)
    PROVE  MissionInv'
  <1> DEFINE map == Validated(mission[m].state, "GEOMETRY_CANDIDATE_READY")
             awe == Validated(mission[a].state, "AWE_CANDIDATE_READY")
             aweState == IF MayHandOff(map) THEN HandedOff(awe) ELSE awe
  <1>1. PICK h \in MissionRecord : h = mission[m]
    BY DEF MissionInv
  <1>2. PICK g \in MissionRecord : g = mission[a]
    BY DEF MissionInv
  <1>3. /\ h.state \in MissionStates /\ g.state \in MissionStates
        /\ {"ATC_PAIR_VALIDATED", "READY_FOR_PASSPORT_HANDOFF"} \subseteq MissionStates
    BY <1>1, <1>2, StatesOfTable DEF MissionRecord
  <1>4. /\ map \in {h.state, "ATC_PAIR_VALIDATED"} /\ map \in MissionStates
        /\ map # h.state => h.state \in ManifestReady
    BY <1>1, <1>3 DEF Validated, ManifestReady
  <1>5. /\ awe \in {g.state, "ATC_PAIR_VALIDATED"} /\ awe \in MissionStates
        /\ awe # g.state => g.state \in ManifestReady
    BY <1>2, <1>3 DEF Validated, ManifestReady
  <1> HIDE DEF map, awe
  <1>6. \A s \in MissionStates : HandedOff(s) # s => s = "ATC_PAIR_VALIDATED"
    BY HandOffEdge DEF HandedOff
  <1>7. \A s \in MissionStates : HandedOff(s) \in {s, "READY_FOR_PASSPORT_HANDOFF"}
    BY DEF HandedOff
  <1>8. /\ HandedOff(map) \in {h.state, "ATC_PAIR_VALIDATED", "READY_FOR_PASSPORT_HANDOFF"}
        /\ HandedOff(map) # h.state => h.state \in ManifestReady
    BY <1>4, <1>6, <1>7 DEF ManifestReady
  <1>9. /\ aweState \in {g.state, "ATC_PAIR_VALIDATED", "READY_FOR_PASSPORT_HANDOFF"}
        /\ aweState # g.state => g.state \in ManifestReady
    BY <1>5, <1>6, <1>7 DEF ManifestReady
  <1> HIDE DEF aweState
  <1> DEFINE k == [h EXCEPT !.valid4e = TRUE, !.pair = a, !.state = HandedOff(map)]
             l == [g EXCEPT !.valid4t = TRUE, !.pair = m, !.state = aweState]
  <1>10. HandedOff(map) \in MissionStates /\ aweState \in MissionStates
    BY <1>3, <1>8, <1>9
  <1>11. /\ k \in MissionRecord /\ k.state = HandedOff(map) /\ k.type = h.type
         /\ k.pair = a /\ k.valid4t = h.valid4t
    BY <1>10 DEF MissionRecord
  <1>12. /\ l \in MissionRecord /\ l.state = aweState /\ l.type = g.type
         /\ l.pair = m /\ l.valid4e = g.valid4e
    BY <1>10 DEF MissionRecord
  <1>13. /\ m # a /\ h.type = "DAYTIME_PRECISION_MAPPING" /\ g.type = "NIGHTTIME_AWE_VISUAL_THERMAL"
         /\ passed' = passed
    BY <1>1, <1>2 DEF ValidatePair, MayPair
  <1>14. mission' = [mission EXCEPT ![m] = k, ![a] = l]
    <2>1. mission' = [mission EXCEPT
               ![m].valid4e = TRUE, ![m].pair = a, ![m].state = HandedOff(map),
               ![a].valid4t = TRUE, ![a].pair = m, ![a].state = aweState]
      BY DEF ValidatePair, map, awe, aweState
    <2>2. \A o \in Orchestrations : o \notin {m, a} => mission'[o] = mission[o]
      BY <2>1 DEF MissionInv
    <2>3. mission'[m] = k
      BY <1>1, <1>13, <2>1 DEF MissionInv
    <2>4. mission'[a] = l
      BY <1>2, <1>13, <2>1 DEF MissionInv
    <2> HIDE DEF k, l
    <2>5. mission' = [o \in Orchestrations |-> mission'[o]]
      BY <2>1 DEF MissionInv
    <2>6. [mission EXCEPT ![m] = k, ![a] = l]
              = [o \in Orchestrations |-> IF o = a THEN l ELSE IF o = m THEN k ELSE mission[o]]
      BY <1>13 DEF MissionInv
    <2>7. \A o \in Orchestrations :
              mission'[o] = IF o = a THEN l ELSE IF o = m THEN k ELSE mission[o]
      BY <1>13, <2>2, <2>3, <2>4
    <2> QED
      BY <2>5, <2>6, <2>7
  <1> HIDE DEF k, l
  <1>15. a # NoPair /\ m # NoPair
    BY DEF AtcAssumption
  <1>16. MissionHolds(k, passed[m])
    BY <1>1, <1>8, <1>11, <1>13, <1>15, PairedHolds DEF MissionInv
  <1>17. MissionHolds(l, passed[a])
    BY <1>2, <1>9, <1>12, <1>13, <1>15, PairedHolds DEF MissionInv
  <1> QED
    BY <1>11, <1>12, <1>13, <1>14, <1>16, <1>17 DEF MissionInv

\* Every step keeps what the missions' records say of their past.
LEMMA MissionsKept == MissionInv /\ [AtcNext]_atcVars => MissionInv'
  <1> SUFFICES ASSUME MissionInv, [AtcNext]_atcVars PROVE MissionInv'
    OBVIOUS
  <1>0. AtcAssumption
    BY AtcAssumption
  <1>1. ASSUME NEW m \in Orchestrations, NEW to \in DOMAIN BaseTransitions, Transition(m, to)
        PROVE  MissionInv'
    <2>1. PICK h \in MissionRecord : h = mission[m]
      BY DEF MissionInv
    <2>2. PICK l : l = [h EXCEPT !.state = to]
      OBVIOUS
    <2>3. /\ l \in MissionRecord /\ l.state = to /\ l.type = h.type /\ l.pair = h.pair
          /\ l.valid4e = h.valid4e /\ l.valid4t = h.valid4t
      BY <2>2, <1>1 DEF MissionRecord, MissionStates
    <2>4. mission' = [mission EXCEPT ![m] = l]
      BY <1>1, <2>1, <2>2 DEF Transition, MissionInv
    <2>5. to \in BaseTransitions[h.state] /\ Record(m, to)
      BY <1>1, <2>1 DEF Transition
    <2> QED
      BY <2>1, <2>3, <2>4, <2>5, OneMissionMoves
  <1>2. ASSUME NEW m \in Orchestrations, NEW type \in Types, SelectProfile(m, type)
        PROVE  MissionInv'
    <2>1. PICK h \in MissionRecord : h = mission[m]
      BY DEF MissionInv
    <2>2. PICK l : l = [h EXCEPT !.type = type, !.state = "PROFILE_SELECTED"]
      OBVIOUS
    <2>3. /\ l \in MissionRecord /\ l.state = "PROFILE_SELECTED" /\ l.pair = h.pair
          /\ l.valid4e = h.valid4e /\ l.valid4t = h.valid4t
      BY <2>2, StatesOfTable DEF MissionRecord
    <2>4. mission' = [mission EXCEPT ![m] = l]
      BY <1>2, <2>1, <2>2 DEF SelectProfile, MissionInv
    <2>5. h.state = "DRAFT" /\ Record(m, l.state) /\ l.state \in BaseTransitions[h.state]
      BY <1>2, <2>1, <2>3 DEF SelectProfile, BaseTransitions
    <2> QED
      BY <2>1, <2>3, <2>4, <2>5, OneMissionMoves
  <1>3. ASSUME NEW m \in Orchestrations, MarkGeometryReady(m) PROVE MissionInv'
    <2>1. PICK h \in MissionRecord : h = mission[m]
      BY DEF MissionInv
    <2>2. PICK l : l = [h EXCEPT !.geometry = TRUE, !.state = "GEOMETRY_CANDIDATE_READY"]
      OBVIOUS
    <2>3. /\ l \in MissionRecord /\ l.state = "GEOMETRY_CANDIDATE_READY" /\ l.type = h.type
          /\ l.pair = h.pair /\ l.valid4e = h.valid4e /\ l.valid4t = h.valid4t
      BY <2>2, StatesOfTable DEF MissionRecord
    <2>4. mission' = [mission EXCEPT ![m] = l]
      BY <1>3, <2>1, <2>2 DEF MarkGeometryReady, MissionInv
    <2>5. Record(m, l.state) /\ l.state \in BaseTransitions[h.state]
      BY <1>3, <2>1, <2>3 DEF MarkGeometryReady, BaseTransitions
    <2> QED
      BY <2>1, <2>3, <2>4, <2>5, OneMissionMoves
  <1>4. ASSUME NEW m \in Orchestrations, MarkAweReady(m) PROVE MissionInv'
    <2>1. PICK h \in MissionRecord : h = mission[m]
      BY DEF MissionInv
    <2>2. PICK l : l = [h EXCEPT !.awe = TRUE, !.state = "AWE_CANDIDATE_READY"]
      OBVIOUS
    <2>3. /\ l \in MissionRecord /\ l.state = "AWE_CANDIDATE_READY" /\ l.type = h.type
          /\ l.pair = h.pair /\ l.valid4e = h.valid4e /\ l.valid4t = h.valid4t
      BY <2>2, StatesOfTable DEF MissionRecord
    <2>4. mission' = [mission EXCEPT ![m] = l]
      BY <1>4, <2>1, <2>2 DEF MarkAweReady, MissionInv
    <2>5. Record(m, l.state) /\ l.state \in BaseTransitions[h.state]
      BY <1>4, <2>1, <2>3 DEF MarkAweReady, BaseTransitions
    <2> QED
      BY <2>1, <2>3, <2>4, <2>5, OneMissionMoves
  <1>5. CASE UNCHANGED <<mission, passed>>
    BY <1>5 DEF MissionInv
  <1> QED
    BY <1>0, <1>1, <1>2, <1>3, <1>4, <1>5, PairMoves
       DEF AtcNext, AssessPackage, CheckCandidate, atcVars

\* The records a mission is met with hold of the history it is met with.
LEMMA MissionsMet == AtcInit => MissionInv
  <1> SUFFICES ASSUME AtcInit PROVE MissionInv
    OBVIOUS
  <1>1. ASSUME NEW type \in Types \cup {""}, NEW state \in MissionStates
        PROVE  [NewMission EXCEPT !.type = type, !.state = state] \in MissionRecord
    BY DEF NewMission, MissionRecord
  <1>2. /\ NewMission \in MissionRecord /\ NewMission.state = "DRAFT" /\ NewMission.type = ""
        /\ NewMission.valid4e = FALSE /\ NewMission.valid4t = FALSE
    BY StatesOfTable DEF NewMission, MissionRecord
  <1>3. /\ CanceledMission \in MissionRecord /\ CanceledMission.state = "CANCELED"
        /\ CanceledMission.valid4e = FALSE /\ CanceledMission.valid4t = FALSE
    BY StatesOfTable DEF CanceledMission, NewMission, MissionRecord
  <1>4. ASSUME NEW type \in Types
        PROVE  /\ ReadyMission(type) \in MissionRecord
               /\ ReadyMission(type).state = "EVIDENCE_MANIFEST_READY"
               /\ ReadyMission(type).valid4e = FALSE /\ ReadyMission(type).valid4t = FALSE
    BY <1>1, StatesOfTable DEF ReadyMission, NewMission
  <1>5. ASSUME NEW m \in Orchestrations
        PROVE  /\ mission[m] \in MissionRecord
               /\ passed[m] \in SUBSET (Gates \cup Stopped)
               /\ MissionHolds(mission[m], passed[m])
    <2>1. passed[m] = IF mission[m] = NewMission THEN {}
                      ELSE IF mission[m] = CanceledMission THEN {"CANCELED"} ELSE Gates
      BY DEF AtcInit
    <2>2. CASE mission[m] = NewMission
      BY <1>2, <2>1, <2>2 DEF MissionHolds, Preflighted, ManifestReady
    <2>3. CASE mission[m] = CanceledMission
      <3>1. CanceledMission # NewMission
        BY <1>2, <1>3
      <3> QED
        BY <1>3, <2>1, <2>3, <3>1 DEF MissionHolds, Preflighted, ManifestReady, Stopped
    <2>4. ASSUME NEW type \in Types, mission[m] = ReadyMission(type)
          PROVE  /\ mission[m] \in MissionRecord
                 /\ passed[m] \in SUBSET (Gates \cup Stopped)
                 /\ MissionHolds(mission[m], passed[m])
      <3>1. ReadyMission(type) # NewMission /\ ReadyMission(type) # CanceledMission
        BY <1>2, <1>3, <1>4
      <3>2. passed[m] = Gates
        BY <2>1, <2>4, <3>1
      <3> QED
        BY <1>4, <2>4, <3>2 DEF MissionHolds, Gates, Stopped
    <2> QED
      BY <2>2, <2>3, <2>4 DEF AtcInit
  <1>6. /\ mission = [m \in Orchestrations |-> mission[m]]
        /\ passed = [m \in Orchestrations |-> passed[m]]
    BY DEF AtcInit
  <1>7. /\ mission \in [Orchestrations -> MissionRecord]
        /\ passed \in [Orchestrations -> SUBSET (Gates \cup Stopped)]
    BY <1>5, <1>6
  <1> QED
    BY <1>5, <1>7 DEF MissionInv

\* Two missions Passport may accept from are one of mapping and one of AWE that went
\* through their gates and were not stopped since, for any missions, however callers mix
\* the edges of the table with the guarded operations and whoever was paired with whom.
THEOREM AcceptedAlwaysPassedGates == AtcSpec => []AcceptedPassedGates
  <1>1. MissionInv => AcceptedPassedGates
    <2> SUFFICES ASSUME MissionInv, NEW m \in Orchestrations, NEW a \in Orchestrations,
                        PassportAccepts(m, a)
                 PROVE  /\ mission[m].type = "DAYTIME_PRECISION_MAPPING"
                        /\ mission[a].type = "NIGHTTIME_AWE_VISUAL_THERMAL"
                        /\ \A n \in {m, a} : /\ Gates \subseteq passed[n]
                                             /\ passed[n] \cap Stopped = {}
                                             /\ mission[n].pair # NoPair
      BY DEF AcceptedPassedGates
    <2>1. /\ mission[m].state \in ManifestReady /\ mission[a].state \in ManifestReady
          /\ mission[m].valid4e /\ mission[a].valid4t
      BY DEF PassportAccepts, ManifestReady
    <2>2. MissionHolds(mission[m], passed[m]) /\ MissionHolds(mission[a], passed[a])
      BY DEF MissionInv
    <2> QED
      BY <2>1, <2>2 DEF MissionHolds, Gates, Preflighted, ManifestReady, Stopped
  <1> QED
    BY <1>1, MissionsMet, MissionsKept, PTL DEF AtcSpec

----------------------------------------------------------------------------
(* Habitat views *)

HabitatInv == view = NoDocument \/ view = ViewOf(bag)

\* A view that is shown for available was made from an estimate that settles.
LEMMA EstimateSettles ==
    ASSUME NEW e, ~RefusesEstimate(e)
    PROVE  /\ Availability(e) = "available" =>
                {e.status, e.availability} \cap {"awaiting_review", "AWAITING_REVIEW"} = {}
           /\ e.count = 0 => Availability(e) = "available"
  <1>1. Availability(e) \in Unsettled \cup {"available"}
    BY DEF Availability, Unsettled
  <1>2. ~AwaitingApproved(e.status, Knowledge(Availability(e)))
    BY DEF RefusesEstimate
  <1>3. ~ZeroUnknown(e.count, Knowledge(Availability(e)))
    BY DEF RefusesEstimate
  <1>4. Availability(e) \in Unsettled => Knowledge(Availability(e)) \in Unsettled
    BY DEF Knowledge
  <1>5. e.count = 0 => Availability(e) = "available"
    BY <1>1, <1>3, <1>4 DEF ZeroUnknown
  <1>6. ASSUME Availability(e) = "available"
        PROVE  /\ e.status \notin {"awaiting_review", "AWAITING_REVIEW"}
               /\ e.availability \notin {"awaiting_review", "AWAITING_REVIEW"}
    <2>1. Knowledge(Availability(e)) = "known"
      BY <1>6 DEF Knowledge, Unsettled
    <2>2. e.status \notin {"awaiting_review", "AWAITING_REVIEW"}
      BY <1>2, <2>1 DEF AwaitingApproved
    <2>3. e.availability # "" => e.availability \in {"approved", "published", "ready", "available"}
      BY <1>6 DEF Availability, Unsettled
    <2> QED
      BY <2>2, <2>3
  <1> QED
    BY <1>5, <1>6

\* Only a layer that has authority makes a property known.
LEMMA KnownByLayer ==
    ASSUME NEW r, PropertyKnowledge(r) = "known"
    PROVE  ~r.superseded /\ \E layer \in Layers : Authoritative(r, layer)
  <1>1. OverallState(r) \in Layers \cup {"superseded", "scan_recorded", "no_scan"}
    BY DEF OverallState, Layers
  <1>2. OverallState(r) \in Layers
    BY <1>1 DEF PropertyKnowledge, Layers
  <1>3. ~r.superseded /\ OverallState(r) \in r.layers
    BY <1>2 DEF OverallState, Layers
  <1>4. LayerState(r, OverallState(r)) = OverallState(r)
    BY <1>3 DEF LayerState
  <1> QED
    BY <1>2, <1>3, <1>4 DEF Authoritative

\* A contract or payment is accepted when something backs it or it says so itself.
LEMMA AcceptedIsBacked ==
    ASSUME NEW o, OpportunityView(o).status = "accepted"
    PROVE  o.backed \/ o.status = "accepted"
  BY DEF OpportunityView

\* The consumer's table of reports agrees with the states of the packages.
LEMMA ReportsAgree ==
    /\ \A r : ShowsReport(r) => r.publication \notin PackageStates \ Released /\ ~r.superseded
    /\ \A state \in Released : /\ ShowsReport(SafeFields(state))
                               /\ SafeFields(state) \in ReportFields
  <1>1. ASSUME NEW r, ShowsReport(r)
        PROVE  r.publication \notin PackageStates \ Released /\ ~r.superseded
    BY <1>1 DEF ShowsReport, ApprovedForDelivery, Token, PackageStates, Released
  <1>2. ASSUME NEW state \in Released
        PROVE  ShowsReport(SafeFields(state)) /\ SafeFields(state) \in ReportFields
    <2>1. PICK r : r = SafeFields(state)
      OBVIOUS
    <2>2. /\ r.publication = state /\ r.delivery = state /\ r.flag = "" /\ r.named
          /\ ~r.superseded
      BY <2>1 DEF SafeFields, Released
    <2>3. r \in ReportFields
      BY <2>1 DEF SafeFields, Released, ReportFields, PackageStates
    <2> QED
      BY <2>1, <2>2, <2>3 DEF ShowsReport, ApprovedForDelivery, Token, Released
  <1> QED
    BY <1>1, <1>2

\* Whatever documents a homeowner's view is made of, and whatever words they say of
\* themselves, what it shows for settled is settled at its source.
THEOREM HomeownerAlwaysSeesSettled == HabitatSpec => []HomeownerSeesSettled
  <1>1. HabitatInit => HabitatInv
    BY DEF HabitatInit, HabitatInv
  <1>2. HabitatInv /\ [HabitatNext]_habitatVars => HabitatInv'
    BY DEF HabitatInv, HabitatNext, habitatVars, BuildView
  <1>3. HabitatInv => HomeownerSeesSettled
    <2> SUFFICES ASSUME HabitatInv, ViewShown PROVE HomeownerSeesSettled
      BY DEF HomeownerSeesSettled
    <2> DEFINE e == bag.estimate
               o == bag.opportunity
               r == bag.report
    <2>1. view = ViewOf(bag)
      BY DEF HabitatInv, ViewShown
    <2>2. /\ view.refused = Refused(bag)
          /\ view.estimate = IF e = NoDocument THEN "unavailable" ELSE Availability(e)
          /\ view.count = IF e = NoDocument THEN -1 ELSE e.count
          /\ view.report = (r # NoDocument /\ ShowsReport(r))
          /\ view.opportunity = IF o = NoDocument THEN NoDocument ELSE OpportunityView(o)
          /\ view.property = PropertyKnowledge(bag.reality)
      BY <2>1 DEF ViewOf
    <2>3. ~Refused(bag)
      BY <2>2 DEF ViewShown
    <2>4. e # NoDocument => ~RefusesEstimate(e)
      BY <2>3 DEF Refused
    <2>5. view.estimate = "available" =>
            {e.status, e.availability} \cap {"awaiting_review", "AWAITING_REVIEW"} = {}
      BY <2>2, <2>4, EstimateSettles
    <2>6. view.count = 0 => view.estimate = "available"
      <3>1. -1 # 0
        OBVIOUS
      <3>2. CASE e = NoDocument
        BY <2>2, <3>1, <3>2
      <3>3. CASE e # NoDocument
        BY <2>2, <2>4, <3>3, EstimateSettles
      <3> QED
        BY <3>2, <3>3
    <2>7. view.opportunity # NoDocument /\ view.opportunity.status = "accepted" =>
            o.backed \/ o.status = "accepted"
      BY <2>2, AcceptedIsBacked
    <2>8. view.property = "known" =>
            /\ ~bag.reality.superseded
            /\ \E layer \in Layers : Authoritative(bag.reality, layer)
      BY <2>2, KnownByLayer
    <2>9. view.report => r.publication \notin PackageStates \ Released /\ ~r.superseded
      BY <2>2, ReportsAgree
    <2>10. \A state \in Released : r = SafeFields(state) => view.report
      BY <2>2, ReportsAgree, DocumentAssumption
    <2> QED
      BY <2>5, <2>6, <2>7, <2>8, <2>9, <2>10 DEF HomeownerSeesSettled
  <1> QED
    BY <1>1, <1>2, <1>3, PTL DEF HabitatSpec

----------------------------------------------------------------------------
(* Report packages *)

CallSteps == {"idle", "insert", "write", "refresh", "move", "request", "announce", "lookup",
              "enter"}

CallRecord ==
    [pc : CallSteps, package : Nat, key : PackageKeys \cup {NoKey}, kind : Kinds \cup {NoKind},
     state : States, target : States, checksum : Nat,
     then : {"idle", "request", "announce"}]

\* Package p was, at some time, in state s.
WasIn(p, s) == p \in DOMAIN package /\ s \in package[p].reached

\* The states of a package's past call for the ones before them.
PastIsWhole(past) ==
    /\ "RENDERING" \in past => "INPUTS_VALIDATED" \in past
    /\ "RENDERED" \in past => "RENDERING" \in past
    /\ "UNDER_REVIEW" \in past => "RENDERED" \in past
    /\ "APPROVED_FOR_DELIVERY" \in past => "UNDER_REVIEW" \in past
    /\ "DELIVERING" \in past => "APPROVED_FOR_DELIVERY" \in past
    /\ "DELIVERED" \in past => "DELIVERING" \in past

\* Unless a call raced with another, what is under review and what comes after it is content
\* that was reviewed.
ContentIsReviewed(h) ==
    ~h.raced /\ h.state \in {"UNDER_REVIEW", "APPROVED_FOR_DELIVERY", "DELIVERING", "DELIVERED"}
        => h.checksum \in h.reviewed

PackageWhole(h) == h.state \in h.reached /\ PastIsWhole(h.reached) /\ ContentIsReviewed(h)

\* A checksum that package p had under review, if no call raced.
WasReviewed(p, sum) ==
    p \in DOMAIN package /\ (package[p].raced \/ sum \in package[p].reviewed)

\* What a call knows of its package stays true, though others write the package too.
CallKnows(k) ==
    /\ k \in CallRecord
    /\ k.pc \notin {"idle", "insert"} => k.package \in DOMAIN package
    /\ k.pc = "insert" => k.key \in PackageKeys
    /\ k.pc = "enter" \/ k.pc = "lookup" =>
         k.kind \in Kinds /\ k.state \in Eligible /\ WasIn(k.package, k.state)
    /\ k.pc = "write" => WasIn(k.package, k.state) /\ k.target \in Allowed[k.state]
    /\ k.then # "idle" => k.target \in {"DELIVERING", "DELIVERED"}
    /\ k.pc = "move" => k.target = "DELIVERING" /\ k.then = "request"
    /\ k.pc = "request" => WasReviewed(k.package, k.checksum)
    /\ k.pc = "refresh" => k.then # "idle"
    /\ k.pc \in {"request", "announce"} \/ k.then # "idle" =>
         WasIn(k.package, "APPROVED_FOR_DELIVERY")

ReportInv ==
    /\ package \in Seq(Package) /\ rendered \in Nat
    /\ entry \in Seq(Entry)
    /\ call \in [Callers -> CallRecord]
    /\ \A c \in Callers : CallKnows(call[c])
    /\ \A p \in DOMAIN package : PackageWhole(package[p])
    /\ \A r \in request : WasIn(r[1], "APPROVED_FOR_DELIVERY") /\ WasReviewed(r[1], r[2])
    /\ \A p \in delivered : WasIn(p, "APPROVED_FOR_DELIVERY")
    /\ \A n \in DOMAIN entry : WasIn(entry[n].package, entry[n].state)

\* The table of transitions, as far as the past of a package rests on it.
LEMMA TransitionsKeepPast ==
    ASSUME NEW past \in SUBSET States, PastIsWhole(past),
           NEW s \in past, NEW to \in Allowed[s]
    PROVE  to \in States /\ PastIsWhole(past \cup {to})
  <1>1. s \in States
    OBVIOUS
  <1>2. /\ to \in States
        /\ to = "RENDERING" => s \in {"INPUTS_VALIDATED", "UNDER_REVIEW"}
        /\ to = "RENDERED" => s = "RENDERING"
        /\ to = "UNDER_REVIEW" => s = "RENDERED"
        /\ to = "APPROVED_FOR_DELIVERY" => s = "UNDER_REVIEW"
        /\ to = "DELIVERING" => s = "APPROVED_FOR_DELIVERY"
        /\ to = "DELIVERED" => s = "DELIVERING"
    BY <1>1 DEF Allowed, States
  <1> QED
    BY <1>2 DEF PastIsWhole

LEMMA NoCallKnows == CallKnows(NoCall) /\ NoCall.pc = "idle" /\ NoCall \in CallRecord
  <1>1. NoCall \in CallRecord
    BY DEF NoCall, CallRecord, CallSteps, States
  <1>2. NoCall.pc = "idle" /\ NoCall.then = "idle"
    BY DEF NoCall
  <1> QED
    BY <1>1, <1>2 DEF CallKnows

\* Pasts only grow.
PastsGrow == \A p \in DOMAIN package :
    /\ p \in DOMAIN package' /\ package[p].reached \subseteq package'[p].reached
    /\ package[p].reviewed \subseteq package'[p].reviewed
    /\ package[p].raced => package'[p].raced

LEMMA KnowledgeOfPast ==
    ASSUME PastsGrow
    PROVE  /\ \A p, s : WasIn(p, s) => WasIn(p, s)'
           /\ \A p, sum : WasReviewed(p, sum) => WasReviewed(p, sum)'
           /\ \A k : CallKnows(k) => CallKnows(k)'
  <1>1. ASSUME NEW p, NEW s, WasIn(p, s) PROVE WasIn(p, s)'
    BY <1>1 DEF PastsGrow, WasIn
  <1>3. ASSUME NEW p, NEW sum, WasReviewed(p, sum) PROVE WasReviewed(p, sum)'
    BY <1>3 DEF PastsGrow, WasReviewed
  <1>2. ASSUME NEW k, CallKnows(k) PROVE CallKnows(k)'
    <2>1. k.pc \notin {"idle", "insert"} => k.package \in DOMAIN package'
      BY <1>2 DEF CallKnows, PastsGrow
    <2> QED
      BY <1>1, <1>2, <1>3, <2>1 DEF CallKnows
  <1> QED
    BY <1>1, <1>2, <1>3

\* What a call that begins has read of its package.
LEMMA ReadKnows ==
    ASSUME ReportInv, NEW p \in DOMAIN package
    PROVE  /\ Read(p) \in CallRecord
           /\ Read(p).package = p /\ Read(p).state = package[p].state
           /\ Read(p).then = "idle" /\ Read(p).pc = "idle"
           /\ Read(p).state \in States /\ WasIn(p, Read(p).state)
           /\ Read(p).checksum = package[p].checksum
  <1>1. package[p] \in Package /\ p \in Nat
    BY DEF ReportInv
  <1>2. PICK h : h = package[p]
    OBVIOUS
  <1>3. h.state \in States /\ h.checksum \in Nat
    BY <1>1, <1>2 DEF Package
  <1>4. Read(p) = [NoCall EXCEPT !.package = p, !.state = h.state, !.checksum = h.checksum]
    BY <1>2 DEF Read
  <1>5. /\ Read(p) \in CallRecord /\ Read(p).package = p /\ Read(p).state = h.state
        /\ Read(p).then = "idle" /\ Read(p).pc = "idle" /\ Read(p).checksum = h.checksum
    BY <1>1, <1>3, <1>4, NoCallKnows DEF CallRecord, NoCall
  <1>6. WasIn(p, h.state)
    BY <1>2 DEF ReportInv, WasIn, PackageWhole
  <1> QED
    BY <1>2, <1>3, <1>5, <1>6

\* A package whose delivery may be asked for was approved.
LEMMA DeliverableWasApproved ==
    ASSUME ReportInv, NEW p \in DOMAIN package,
           package[p].state \in {"APPROVED_FOR_DELIVERY", "DELIVERING", "DELIVERED"}
    PROVE  WasIn(p, "APPROVED_FOR_DELIVERY") /\ WasReviewed(p, package[p].checksum)
  BY DEF ReportInv, WasIn, WasReviewed, PackageWhole, PastIsWhole, ContentIsReviewed

\* Every call becomes one that knows what it rests on, whoever wrote meanwhile.
CallBecomes(c, k) == CallKnows(k) /\ call' = [call EXCEPT ![c] = k]

\* A call begins.
LEMMA CallBegins ==
    ASSUME ReportInv, NEW c \in Callers, Call(c)
    PROVE  \E k : CallBecomes(c, k)
  <1>1. ASSUME NEW key \in PackageKeys, BeginPropose(c, key)
        PROVE  \E k : CallBecomes(c, k)
    <2>1. PICK k : k = [NoCall EXCEPT !.pc = "insert", !.key = key]
      OBVIOUS
    <2>2. k \in CallRecord /\ k.pc = "insert" /\ k.key = key /\ k.then = "idle"
      BY <2>1, NoCallKnows DEF CallRecord, CallSteps, NoCall
    <2>3. CallKnows(k)
      BY <2>2 DEF CallKnows
    <2> QED
      BY <1>1, <2>1, <2>3 DEF BeginPropose, Started, CallBecomes
  <1>2. ASSUME NEW p \in DOMAIN package, NEW target \in States, BeginTransition(c, p, target)
        PROVE  \E k : CallBecomes(c, k)
    <2>0. PICK d \in CallRecord :
             /\ d = Read(p) /\ d.package = p /\ d.then = "idle" /\ d.state = package[p].state
             /\ d.checksum = package[p].checksum
      BY ReadKnows
    <2>1. PICK sum : sum = IF target = "RENDERED" THEN rendered + 1 ELSE 0
      OBVIOUS
    <2>2. sum \in Nat
      BY <2>1 DEF ReportInv
    <2>3. PICK k : k = [d EXCEPT !.pc = "write", !.target = target, !.checksum = sum]
      OBVIOUS
    <2>4. /\ k \in CallRecord /\ k.pc = "write" /\ k.target = target /\ k.package = p
          /\ k.then = "idle" /\ k.state = package[p].state
      BY <2>0, <2>2, <2>3 DEF CallRecord, CallSteps
    <2>5. target \in Allowed[package[p].state] /\ WasIn(p, package[p].state)
          /\ package[p].state \in States
      BY <1>2, ReadKnows DEF BeginTransition
    <2>6. CallKnows(k)
      BY <2>4, <2>5 DEF CallKnows
    <2> QED
      BY <1>2, <2>0, <2>1, <2>3, <2>6 DEF BeginTransition, Started, CallBecomes
  <1>3. ASSUME NEW p \in DOMAIN package, BeginEnqueue(c, p)
        PROVE  \E k : CallBecomes(c, k)
    <2>0. PICK d \in CallRecord :
             /\ d = Read(p) /\ d.package = p /\ d.then = "idle" /\ d.state = package[p].state
             /\ d.checksum = package[p].checksum
      BY ReadKnows
    <2>1. WasIn(p, "APPROVED_FOR_DELIVERY") /\ WasReviewed(p, package[p].checksum)
      BY <1>3, DeliverableWasApproved DEF BeginEnqueue, Deliverable
    <2>2. CASE package[p].state = "DELIVERING"
      <3>1. PICK k : k = [d EXCEPT !.pc = "request"]
        OBVIOUS
      <3>2. /\ k \in CallRecord /\ k.pc = "request" /\ k.package = p /\ k.then = "idle"
            /\ k.checksum = package[p].checksum
        BY <2>0, <3>1 DEF CallRecord, CallSteps
      <3>3. CallKnows(k)
        BY <2>1, <3>2 DEF CallKnows
      <3> QED
        BY <1>3, <2>0, <2>2, <3>1, <3>3 DEF BeginEnqueue, Started, CallBecomes
    <2>3. CASE package[p].state # "DELIVERING"
      <3>1. PICK k : k = [d EXCEPT !.pc = "move", !.target = "DELIVERING",
                                         !.then = "request"]
        OBVIOUS
      <3>2. /\ k \in CallRecord /\ k.pc = "move" /\ k.package = p /\ k.then = "request"
            /\ k.target = "DELIVERING"
        BY <2>0, <3>1 DEF CallRecord, CallSteps, States
      <3>3. CallKnows(k)
        BY <2>1, <3>2 DEF CallKnows
      <3> QED
        BY <1>3, <2>0, <2>3, <3>1, <3>3 DEF BeginEnqueue, Started, CallBecomes
    <2> QED
      BY <2>2, <2>3
  <1>4. ASSUME NEW p \in DOMAIN package, BeginDelivered(c, p)
        PROVE  \E k : CallBecomes(c, k)
    <2>0. PICK d \in CallRecord :
             /\ d = Read(p) /\ d.package = p /\ d.then = "idle" /\ d.state = package[p].state
             /\ d.checksum = package[p].checksum
      BY ReadKnows
    <2>1. WasIn(p, "APPROVED_FOR_DELIVERY")
      BY <1>4, DeliverableWasApproved DEF BeginDelivered
    <2>2. CASE package[p].state = "DELIVERING"
      <3>1. PICK k : k = [d EXCEPT !.pc = "write", !.target = "DELIVERED",
                                         !.then = "announce"]
        OBVIOUS
      <3>2. /\ k \in CallRecord /\ k.pc = "write" /\ k.package = p /\ k.then = "announce"
            /\ k.target = "DELIVERED" /\ k.state = "DELIVERING"
        BY <2>0, <2>2, <3>1 DEF CallRecord, CallSteps, States
      <3>3. k.target \in Allowed["DELIVERING"] /\ "DELIVERING" \in States
        BY <3>2 DEF Allowed, States
      <3>4. WasIn(p, "DELIVERING")
        BY <2>2, ReadKnows
      <3>5. CallKnows(k)
        BY <2>1, <3>2, <3>3, <3>4 DEF CallKnows
      <3> QED
        BY <1>4, <2>0, <2>2, <3>1, <3>5 DEF BeginDelivered, Started, CallBecomes
    <2>3. CASE package[p].state # "DELIVERING"
      <3>1. PICK k : k = [d EXCEPT !.pc = "announce"]
        OBVIOUS
      <3>2. k \in CallRecord /\ k.pc = "announce" /\ k.package = p /\ k.then = "idle"
        BY <2>0, <3>1 DEF CallRecord, CallSteps
      <3>3. CallKnows(k)
        BY <2>1, <3>2 DEF CallKnows
      <3> QED
        BY <1>4, <2>0, <2>3, <3>1, <3>3 DEF BeginDelivered, Started, CallBecomes
    <2> QED
      BY <2>2, <2>3
  <1>5. ASSUME NEW p \in DOMAIN package, NEW kind \in Kinds, BeginTimeline(c, p, kind)
        PROVE  \E k : CallBecomes(c, k)
    <2>0. PICK d \in CallRecord :
             /\ d = Read(p) /\ d.package = p /\ d.then = "idle" /\ d.state = package[p].state
             /\ d.checksum = package[p].checksum
      BY ReadKnows
    <2>1. PICK k : k = [d EXCEPT !.pc = "lookup", !.kind = kind]
      OBVIOUS
    <2>2. /\ k \in CallRecord /\ k.pc = "lookup" /\ k.package = p /\ k.then = "idle"
          /\ k.kind = kind /\ k.state = package[p].state
      BY <2>0, <2>1 DEF CallRecord, CallSteps
    <2>3. k.state \in Eligible /\ WasIn(p, k.state)
      BY <1>5, <2>2, ReadKnows DEF BeginTimeline
    <2>4. CallKnows(k)
      BY <2>2, <2>3 DEF CallKnows
    <2> QED
      BY <1>5, <2>0, <2>1, <2>4 DEF BeginTimeline, Started, CallBecomes
  <1> QED
    BY <1>1, <1>2, <1>3, <1>4, <1>5 DEF Call

\* A call that begins writes nothing of a report but the count of renderings.
LEMMA CallReadsOnly ==
    ASSUME ReportInv, NEW c \in Callers, Call(c)
    PROVE  UNCHANGED <<package, request, delivered, entry>> /\ rendered' \in Nat
  <1>0. rendered \in Nat /\ rendered + 1 \in Nat
    BY DEF ReportInv
  <1>1. ASSUME NEW p, NEW target, BeginTransition(c, p, target)
        PROVE  UNCHANGED <<package, request, delivered, entry>> /\ rendered' \in Nat
    BY <1>0, <1>1 DEF BeginTransition
  <1>2. ASSUME NEW key, BeginPropose(c, key) PROVE UNCHANGED reports
    BY <1>2 DEF BeginPropose
  <1>3. ASSUME NEW p, BeginEnqueue(c, p) \/ BeginDelivered(c, p) PROVE UNCHANGED reports
    BY <1>3 DEF BeginEnqueue, BeginDelivered
  <1>4. ASSUME NEW p, NEW kind, BeginTimeline(c, p, kind) PROVE UNCHANGED reports
    BY <1>4 DEF BeginTimeline
  <1> QED
    BY <1>0, <1>1, <1>2, <1>3, <1>4 DEF Call, reports

\* A call proceeds, ends or dies without writing.
LEMMA CallContinues ==
    ASSUME ReportInv, NEW c \in Callers,
           Move(c) \/ Lookup(c) \/ Die(c)
    PROVE  (\E k : CallBecomes(c, k)) /\ UNCHANGED reports
  <1>1. PICK h : h = call[c]
    OBVIOUS
  <1>2. CallKnows(h) /\ h \in CallRecord
    BY <1>1 DEF ReportInv
  <1>3. Ended(c) => CallBecomes(c, NoCall)
    BY NoCallKnows DEF Ended, CallBecomes
  <1>5. CASE Move(c)
    <2>1. /\ h.pc = "move" /\ h.target = "DELIVERING" /\ h.then = "request"
          /\ h.package \in DOMAIN package /\ WasIn(h.package, "APPROVED_FOR_DELIVERY")
      BY <1>1, <1>2, <1>5 DEF Move, At, CallKnows
    <2>2. PICK s : s = package[h.package].state
      OBVIOUS
    <2>3. s \in States /\ WasIn(h.package, s)
      BY <2>1, <2>2, ReadKnows
    <2>4. ASSUME "DELIVERING" \in Allowed[s],
                 call' = [call EXCEPT ![c].pc = "write", ![c].state = s]
          PROVE  \E k : CallBecomes(c, k)
      <3>1. PICK k : k = [h EXCEPT !.pc = "write", !.state = s]
        OBVIOUS
      <3>2. /\ k \in CallRecord /\ k.pc = "write" /\ k.package = h.package /\ k.then = "request"
            /\ k.target = "DELIVERING" /\ k.state = s
        BY <1>2, <2>1, <2>3, <3>1 DEF CallRecord, CallSteps
      <3>3. CallKnows(k)
        BY <2>1, <2>3, <2>4, <3>2 DEF CallKnows
      <3>4. call' = [call EXCEPT ![c] = k]
        BY <1>1, <2>4, <3>1 DEF ReportInv
      <3> QED
        BY <3>3, <3>4 DEF CallBecomes
    <2>5. ASSUME Goto(c, "refresh") PROVE \E k : CallBecomes(c, k)
      <3>1. PICK k : k = [h EXCEPT !.pc = "refresh"]
        OBVIOUS
      <3>2. /\ k \in CallRecord /\ k.pc = "refresh" /\ k.package = h.package
            /\ k.then = "request" /\ k.target = "DELIVERING"
        BY <1>2, <2>1, <3>1 DEF CallRecord, CallSteps
      <3>3. CallKnows(k)
        BY <2>1, <3>2 DEF CallKnows
      <3>4. call' = [call EXCEPT ![c] = k]
        BY <1>1, <2>5, <3>1 DEF Goto, ReportInv
      <3> QED
        BY <3>3, <3>4 DEF CallBecomes
    <2> QED
      BY <1>1, <1>3, <1>5, <2>2, <2>4, <2>5 DEF Move
  <1>6. CASE Lookup(c)
    <2>1. h.pc = "lookup"
      BY <1>1, <1>6 DEF Lookup, At
    <2>2. ASSUME Goto(c, "enter") PROVE \E k : CallBecomes(c, k)
      <3>1. PICK k : k = [h EXCEPT !.pc = "enter"]
        OBVIOUS
      <3>2. /\ k \in CallRecord /\ k.pc = "enter" /\ k.package = h.package /\ k.then = h.then
            /\ k.kind = h.kind /\ k.state = h.state /\ k.target = h.target
        BY <1>2, <3>1 DEF CallRecord, CallSteps
      <3>3. CallKnows(k)
        BY <1>2, <2>1, <3>2 DEF CallKnows
      <3>4. call' = [call EXCEPT ![c] = k]
        BY <1>1, <2>2, <3>1 DEF Goto, ReportInv
      <3> QED
        BY <3>3, <3>4 DEF CallBecomes
    <2> QED
      BY <1>3, <1>6, <2>2 DEF Lookup
  <1>7. CASE Die(c)
    BY <1>3, <1>7 DEF Die
  <1> QED
    BY <1>5, <1>6, <1>7

\* All calls go on knowing what they rest on when one of them moves and pasts grow.
LEMMA CallsStayTrue ==
    ASSUME ReportInv, PastsGrow, NEW c \in Callers, NEW k, CallBecomes(c, k)
    PROVE  call' \in [Callers -> CallRecord] /\ \A d \in Callers : CallKnows(call[d])'
  <1>1. CallKnows(k) /\ k \in CallRecord /\ call' = [call EXCEPT ![c] = k]
    BY DEF CallBecomes, CallKnows
  <1>2. call' \in [Callers -> CallRecord]
    BY <1>1 DEF ReportInv
  <1>3. ASSUME NEW d \in Callers PROVE CallKnows(call[d])'
    <2>1. PICK h : h = call'[d]
      OBVIOUS
    <2>2. h = k \/ h = call[d]
      BY <1>1, <2>1 DEF ReportInv
    <2>3. CallKnows(h)
      BY <1>1, <2>2 DEF ReportInv
    <2>4. CallKnows(h)'
      BY <2>3, KnowledgeOfPast
    <2> QED
      BY <2>1, <2>4 DEF CallKnows
  <1> QED
    BY <1>2, <1>3

\* The stores stay true when the pasts grow and nothing else is written.
LEMMA ReportsStayTrue ==
    ASSUME ReportInv, PastsGrow
    PROVE  /\ \A r \in request : WasIn(r[1], "APPROVED_FOR_DELIVERY")'
           /\ \A r \in request : WasReviewed(r[1], r[2])'
           /\ \A p \in delivered : WasIn(p, "APPROVED_FOR_DELIVERY")'
           /\ \A n \in DOMAIN entry : WasIn(entry[n].package, entry[n].state)'
                  <=> (entry'[n].package \in DOMAIN package' /\
                       entry'[n].state \in package'[entry'[n].package].reached)
           /\ \A n \in DOMAIN entry :
                  entry[n].package \in DOMAIN package' /\
                  entry[n].state \in package'[entry[n].package].reached
  <1>1. /\ \A p, s : WasIn(p, s) => WasIn(p, s)'
        /\ \A p, sum : WasReviewed(p, sum) => WasReviewed(p, sum)'
    BY KnowledgeOfPast
  <1>2. ASSUME NEW n \in DOMAIN entry
        PROVE  /\ entry[n].package \in DOMAIN package'
               /\ entry[n].state \in package'[entry[n].package].reached
    <2>1. PICK e : e = entry[n]
      OBVIOUS
    <2>2. WasIn(e.package, e.state)
      BY <2>1 DEF ReportInv
    <2> QED
      BY <1>1, <2>1, <2>2 DEF WasIn
  <1> QED
    BY <1>1, <1>2 DEF ReportInv, WasIn

\* The package's state and past stay whole when a call writes.
LEMMA WriteKeepsPasts ==
    ASSUME ReportInv, NEW c \in Callers, WriteState(c)
    PROVE  /\ PastsGrow
           /\ package' \in Seq(Package)
           /\ \A p \in DOMAIN package' : PackageWhole(package'[p])
           /\ \E k : CallBecomes(c, k)
  <1>1. PICK h : h = call[c]
    OBVIOUS
  <1>2. CallKnows(h) /\ h \in CallRecord /\ h.pc = "write"
    BY <1>1 DEF ReportInv, WriteState, At
  <1>3. PICK p : p = h.package
    OBVIOUS
  <1>4. p \in DOMAIN package
    BY <1>2, <1>3 DEF CallKnows
  <1>5. PICK old : old = package[p]
    OBVIOUS
  <1>6. old \in Package /\ PackageWhole(old) /\ PastIsWhole(old.reached)
    BY <1>4, <1>5 DEF ReportInv, PackageWhole
  <1>7. PICK s \in States : s = h.state /\ WasIn(p, s) /\ h.target \in Allowed[s]
    BY <1>2, <1>3 DEF CallKnows, CallRecord
  <1>8. old.reached \in SUBSET States /\ s \in old.reached
    BY <1>5, <1>6, <1>7 DEF Package, WasIn
  <1>9. h.target \in States /\ PastIsWhole(old.reached \cup {h.target})
    BY <1>6, <1>7, <1>8, TransitionsKeepPast
  <1>10. PICK sum : sum = IF h.target = "RENDERED" THEN h.checksum ELSE old.checksum
    OBVIOUS
  <1>11. sum \in Nat
    BY <1>2, <1>6, <1>10 DEF CallRecord, Package
  <1>22. PICK seen : seen = IF h.target = "UNDER_REVIEW" THEN old.reviewed \cup {old.checksum}
                                                         ELSE old.reviewed
    OBVIOUS
  <1>23. PICK late \in BOOLEAN : late = (old.raced \/ old.state # h.state)
    OBVIOUS
  <1>24. seen \in SUBSET Nat /\ old.reviewed \subseteq seen /\ (old.raced => late)
    BY <1>6, <1>22, <1>23 DEF Package
  <1>12. PICK new : new = [old EXCEPT !.state = h.target, !.reached = @ \cup {h.target},
                                      !.checksum = sum, !.reviewed = seen, !.raced = late]
    OBVIOUS
  <1>13. /\ new \in Package /\ new.state = h.target
         /\ new.reached = old.reached \cup {h.target}
         /\ new.checksum = sum /\ new.reviewed = seen /\ new.raced = late
    BY <1>6, <1>8, <1>9, <1>11, <1>12, <1>24 DEF Package
  <1>25. ContentIsReviewed(new)
    <2>1. SUFFICES ASSUME ~late, new.state \in {"UNDER_REVIEW", "APPROVED_FOR_DELIVERY",
                                                 "DELIVERING", "DELIVERED"}
                   PROVE  sum \in seen
      BY <1>13 DEF ContentIsReviewed
    <2>2. ~old.raced /\ old.state = s /\ h.target \in Allowed[s] /\ sum = old.checksum
      BY <1>7, <1>10, <1>13, <1>23, <2>1
    <2>3. CASE h.target = "UNDER_REVIEW"
      BY <1>22, <2>2, <2>3
    <2>4. CASE h.target # "UNDER_REVIEW"
      <3>1. old.state \in {"UNDER_REVIEW", "APPROVED_FOR_DELIVERY", "DELIVERING"}
        BY <1>13, <2>1, <2>2, <2>4 DEF Allowed, States
      <3> QED
        BY <1>6, <1>24, <2>2, <3>1 DEF PackageWhole, ContentIsReviewed
    <2> QED
      BY <2>3, <2>4
  <1>14. package' = [package EXCEPT ![p] = new]
    BY <1>1, <1>3, <1>4, <1>5, <1>10, <1>12, <1>22, <1>23 DEF WriteState, ReportInv
  <1>15. package' \in Seq(Package)
    BY <1>4, <1>13, <1>14 DEF ReportInv
  <1>16. /\ DOMAIN package' = DOMAIN package
         /\ \A q \in DOMAIN package : package'[q] = IF q = p THEN new ELSE package[q]
    BY <1>4, <1>14
  <1>17. PastsGrow
    BY <1>5, <1>13, <1>16, <1>24 DEF PastsGrow
  <1>18. \A q \in DOMAIN package' : PackageWhole(package'[q])
    BY <1>9, <1>13, <1>16, <1>25 DEF ReportInv, PackageWhole
  <1>21. IF h.then = "idle" THEN Ended(c) ELSE Goto(c, "refresh")
    BY <1>1 DEF WriteState
  <1>19. ASSUME h.then = "idle" PROVE \E k : CallBecomes(c, k)
    BY <1>19, <1>21, NoCallKnows DEF Ended, CallBecomes
  <1>20. ASSUME h.then # "idle" PROVE \E k : CallBecomes(c, k)
    <2>1. PICK k : k = [h EXCEPT !.pc = "refresh"]
      OBVIOUS
    <2>2. /\ k \in CallRecord /\ k.pc = "refresh" /\ k.package = h.package
          /\ k.then = h.then /\ k.target = h.target
      BY <1>2, <2>1 DEF CallRecord, CallSteps
    <2>3. CallKnows(k)
      BY <1>2, <1>20, <2>2 DEF CallKnows
    <2>4. call' = [call EXCEPT ![c] = k]
      BY <1>1, <1>20, <1>21, <2>1 DEF Goto, ReportInv
    <2> QED
      BY <2>3, <2>4 DEF CallBecomes
  <1> QED
    BY <1>15, <1>17, <1>18, <1>19, <1>20

\* The same when a call reads the package again, and finds it moved or not.
LEMMA RefreshKeepsPasts ==
    ASSUME ReportInv, NEW c \in Callers, Refresh(c)
    PROVE  /\ PastsGrow
           /\ package' \in Seq(Package)
           /\ \A p \in DOMAIN package' : PackageWhole(package'[p])
           /\ call' \in [Callers -> CallRecord]
           /\ \A d \in Callers : CallKnows(call[d])'
  <1>1. PICK h : h = call[c]
    OBVIOUS
  <1>2. CallKnows(h) /\ h \in CallRecord /\ h.pc = "refresh"
    BY <1>1 DEF ReportInv, Refresh, At
  <1>3. PICK p : p = h.package
    OBVIOUS
  <1>4. /\ p \in DOMAIN package /\ h.then \in {"request", "announce"}
        /\ h.target \in {"DELIVERING", "DELIVERED"} /\ WasIn(p, "APPROVED_FOR_DELIVERY")
    BY <1>2, <1>3 DEF CallKnows, CallRecord
  <1>5. PICK old : old = package[p]
    OBVIOUS
  <1>6. old \in Package /\ PackageWhole(old)
    BY <1>4, <1>5 DEF ReportInv
  <1>7. PICK late \in BOOLEAN : late = (old.raced \/ old.state # h.target)
    OBVIOUS
  <1>8. PICK new : new = [old EXCEPT !.raced = late]
    OBVIOUS
  <1>9. /\ new \in Package /\ new.state = old.state /\ new.reached = old.reached
        /\ new.checksum = old.checksum /\ new.reviewed = old.reviewed /\ new.raced = late
        /\ (old.raced => late)
    BY <1>6, <1>7, <1>8 DEF Package
  <1>10. PackageWhole(new)
    BY <1>6, <1>9 DEF PackageWhole, ContentIsReviewed
  <1>11. package' = [package EXCEPT ![p] = new]
    BY <1>1, <1>3, <1>4, <1>5, <1>7, <1>8 DEF Refresh, ReportInv
  <1>12. /\ package' \in Seq(Package) /\ DOMAIN package' = DOMAIN package
         /\ \A q \in DOMAIN package : package'[q] = IF q = p THEN new ELSE package[q]
    BY <1>4, <1>9, <1>11 DEF ReportInv
  <1>13. PastsGrow
    BY <1>5, <1>9, <1>12 DEF PastsGrow
  <1>14. \A q \in DOMAIN package' : PackageWhole(package'[q])
    BY <1>10, <1>12 DEF ReportInv
  <1>15. PICK k : k = [h EXCEPT !.pc = h.then, !.checksum = old.checksum]
    OBVIOUS
  <1>16. /\ k \in CallRecord /\ k.pc = h.then /\ k.package = p /\ k.then = h.then
         /\ k.target = h.target /\ k.checksum = old.checksum
    BY <1>2, <1>3, <1>4, <1>6, <1>15 DEF CallRecord, CallSteps, Package
  <1>17. call' = [call EXCEPT ![c] = k]
    BY <1>1, <1>3, <1>5, <1>15 DEF Refresh, ReportInv
  <1>18. WasReviewed(p, old.checksum)'
    BY <1>4, <1>6, <1>7, <1>9, <1>12 DEF WasReviewed, PackageWhole, ContentIsReviewed
  <1>19. WasIn(p, "APPROVED_FOR_DELIVERY")' /\ p \in DOMAIN package'
    BY <1>4, <1>12, <1>13, KnowledgeOfPast
  <1>20. CallKnows(k)'
    BY <1>4, <1>16, <1>18, <1>19 DEF CallKnows
  <1>21. ASSUME NEW d \in Callers PROVE CallKnows(call[d])'
    <2>1. PICK g : g = call'[d]
      OBVIOUS
    <2>2. g = k \/ g = call[d]
      BY <1>17, <2>1 DEF ReportInv
    <2>3. CallKnows(g)'
      BY <1>13, <1>20, <2>2, KnowledgeOfPast DEF ReportInv
    <2> QED
      BY <2>1, <2>3 DEF CallKnows
  <1> QED
    BY <1>12, <1>13, <1>14, <1>16, <1>17, <1>21 DEF ReportInv

\* The same when a package is inserted.
LEMMA InsertKeepsPasts ==
    ASSUME ReportInv, NEW c \in Callers, InsertPackage(c)
    PROVE  /\ PastsGrow
           /\ package' \in Seq(Package)
           /\ \A p \in DOMAIN package' : PackageWhole(package'[p])
  <1>1. PICK h : h = call[c]
    OBVIOUS
  <1>2. h.key \in PackageKeys
    BY <1>1 DEF ReportInv, CallKnows, InsertPackage, At
  <1>3. PICK new : new = [key |-> h.key, state |-> "PROPOSED", checksum |-> 0,
                          reached |-> {"PROPOSED"}, reviewed |-> {}, raced |-> FALSE]
    OBVIOUS
  <1>4. new \in Package /\ PackageWhole(new)
    BY <1>2, <1>3 DEF Package, States, PackageWhole, PastIsWhole, ContentIsReviewed
  <1>5. package' = Append(package, new) /\ package \in Seq(Package)
    BY <1>1, <1>3 DEF InsertPackage, ReportInv
  <1>6. package' \in Seq(Package) /\ DOMAIN package = 1 .. Len(package)
        /\ DOMAIN package' = 1 .. (Len(package) + 1) /\ Len(package) \in Nat
    BY <1>4, <1>5
  <1>7. \A p \in DOMAIN package' :
           package'[p] = IF p = Len(package) + 1 THEN new ELSE package[p]
    BY <1>4, <1>5, <1>6
  <1>8. \A p \in DOMAIN package : p \in DOMAIN package' /\ p # Len(package) + 1
    BY <1>6
  <1>9. \A p \in DOMAIN package' : p # Len(package) + 1 => p \in DOMAIN package
    BY <1>6
  <1>10. PastsGrow
    BY <1>7, <1>8 DEF PastsGrow
  <1> QED
    BY <1>4, <1>6, <1>7, <1>9, <1>10 DEF ReportInv

\* What every step keeps of the packages, the calls, the events and the timeline.
LEMMA ReportsKept == ReportInv /\ [PackagesNext]_reportVars => ReportInv'
  <1> SUFFICES ASSUME ReportInv, [PackagesNext]_reportVars PROVE ReportInv'
    OBVIOUS
  <1> DEFINE PastsWhole == \A p \in DOMAIN package' : PackageWhole(package'[p])
  <1>0. ASSUME package' \in Seq(Package), PastsGrow, PastsWhole,
               NEW c \in Callers, NEW k, CallBecomes(c, k), rendered' \in Nat,
               UNCHANGED <<request, delivered, entry>>
        PROVE  ReportInv'
    <2>1. call' \in [Callers -> CallRecord] /\ \A d \in Callers : CallKnows(call[d])'
      BY <1>0, CallsStayTrue
    <2>2. /\ \A r \in request' : WasIn(r[1], "APPROVED_FOR_DELIVERY")' /\ WasReviewed(r[1], r[2])'
          /\ \A p \in delivered' : WasIn(p, "APPROVED_FOR_DELIVERY")'
      BY <1>0, ReportsStayTrue
    <2>3. \A n \in DOMAIN entry' : WasIn(entry[n].package, entry[n].state)'
      BY <1>0, ReportsStayTrue DEF WasIn
    <2> QED
      BY <1>0, <2>1, <2>2, <2>3 DEF ReportInv
  <1>1. UNCHANGED package => PastsGrow /\ PastsWhole /\ package' \in Seq(Package)
    BY DEF PastsGrow, ReportInv
  <1> HIDE DEF PastsWhole
  <1>8. ASSUME NEW c \in Callers, Refresh(c) PROVE ReportInv'
    <2>1. PastsGrow /\ package' \in Seq(Package) /\ PastsWhole
          /\ call' \in [Callers -> CallRecord] /\ \A d \in Callers : CallKnows(call[d])'
      BY <1>8, RefreshKeepsPasts DEF PastsWhole
    <2>2. UNCHANGED <<request, delivered, entry, rendered>>
      BY <1>8 DEF Refresh
    <2>3. /\ \A r \in request' : WasIn(r[1], "APPROVED_FOR_DELIVERY")' /\ WasReviewed(r[1], r[2])'
          /\ \A p \in delivered' : WasIn(p, "APPROVED_FOR_DELIVERY")'
      BY <2>1, <2>2, ReportsStayTrue
    <2>4. \A n \in DOMAIN entry' : WasIn(entry[n].package, entry[n].state)'
      BY <2>1, <2>2, ReportsStayTrue DEF WasIn
    <2> QED
      BY <2>1, <2>2, <2>3, <2>4 DEF ReportInv, PastsWhole
  <1>2. ASSUME NEW c \in Callers, Call(c) PROVE ReportInv'
    BY <1>0, <1>1, <1>2, CallBegins, CallReadsOnly
  <1>3. ASSUME NEW c \in Callers, InsertPackage(c) PROVE ReportInv'
    <2>1. CallBecomes(c, NoCall)
      BY <1>3, NoCallKnows DEF InsertPackage, Ended, CallBecomes
    <2>2. PastsGrow /\ package' \in Seq(Package) /\ PastsWhole
      BY <1>3, InsertKeepsPasts DEF PastsWhole
    <2> QED
      BY <1>0, <1>3, <2>1, <2>2 DEF InsertPackage, ReportInv
  <1>4. ASSUME NEW c \in Callers, WriteState(c) PROVE ReportInv'
    <2>1. (\E k : CallBecomes(c, k)) /\ PastsGrow /\ package' \in Seq(Package) /\ PastsWhole
      BY <1>4, WriteKeepsPasts DEF PastsWhole
    <2>2. rendered' \in Nat /\ UNCHANGED <<request, delivered, entry>>
      BY <1>4 DEF WriteState, ReportInv
    <2> QED
      BY <1>0, <2>1, <2>2
  <1>5. ASSUME NEW c \in Callers, Move(c) \/ Lookup(c) \/ Die(c) PROVE ReportInv'
    <2>1. (\E k : CallBecomes(c, k)) /\ UNCHANGED reports
      BY <1>5, CallContinues
    <2>2. rendered' \in Nat /\ UNCHANGED <<package, request, delivered, entry>>
      BY <2>1 DEF reports, ReportInv
    <2> QED
      BY <1>0, <1>1, <2>1, <2>2
  <1>6. ASSUME NEW c \in Callers, Request(c) \/ Announce(c) \/ InsertEntry(c) PROVE ReportInv'
    <2>1. PICK h : h = call[c]
      OBVIOUS
    <2>2. CallKnows(h) /\ h \in CallRecord
      BY <2>1 DEF ReportInv
    <2>3. CallBecomes(c, NoCall)
      BY <1>6, NoCallKnows DEF Request, Announce, InsertEntry, Ended, CallBecomes
    <2>4. UNCHANGED <<package, rendered>>
      BY <1>6 DEF Request, Announce, InsertEntry
    <2>5. call' \in [Callers -> CallRecord] /\ \A d \in Callers : CallKnows(call[d])'
      BY <1>1, <2>3, <2>4, CallsStayTrue
    <2>6. /\ \A p, s : WasIn(p, s)' <=> WasIn(p, s)
          /\ \A p, sum : WasReviewed(p, sum)' <=> WasReviewed(p, sum)
      BY <2>4 DEF WasIn, WasReviewed
    <2>7. CASE Request(c)
      <3>1. /\ h.pc = "request" /\ WasIn(h.package, "APPROVED_FOR_DELIVERY")
            /\ WasReviewed(h.package, h.checksum)
        BY <2>1, <2>2, <2>7 DEF Request, At, CallKnows
      <3>2. request' \subseteq request \cup {<<h.package, h.checksum>>}
            /\ UNCHANGED <<delivered, entry>>
        BY <2>1, <2>7 DEF Request
      <3>3. \A r \in request' : WasIn(r[1], "APPROVED_FOR_DELIVERY") /\ WasReviewed(r[1], r[2])
        BY <3>1, <3>2 DEF ReportInv
      <3>4. \A n \in DOMAIN entry' : WasIn(entry[n].package, entry[n].state)'
        BY <2>4, <3>2 DEF ReportInv, WasIn
      <3>5. \A p \in delivered' : WasIn(p, "APPROVED_FOR_DELIVERY")'
        BY <2>6, <3>2 DEF ReportInv
      <3>6. \A r \in request' : WasIn(r[1], "APPROVED_FOR_DELIVERY")' /\ WasReviewed(r[1], r[2])'
        BY <2>6, <3>3
      <3> QED
        BY <2>4, <2>5, <3>2, <3>4, <3>5, <3>6 DEF ReportInv
    <2>8. CASE Announce(c)
      <3>1. h.pc = "announce" /\ WasIn(h.package, "APPROVED_FOR_DELIVERY")
        BY <2>1, <2>2, <2>8 DEF Announce, At, CallKnows
      <3>2. delivered' = delivered \cup {h.package} /\ UNCHANGED <<request, entry>>
        BY <2>1, <2>8 DEF Announce
      <3>3. \A p \in delivered' : WasIn(p, "APPROVED_FOR_DELIVERY")'
        BY <2>6, <3>1, <3>2 DEF ReportInv
      <3>4. \A n \in DOMAIN entry' : WasIn(entry[n].package, entry[n].state)'
        BY <2>4, <3>2 DEF ReportInv, WasIn
      <3>5. \A r \in request' : WasIn(r[1], "APPROVED_FOR_DELIVERY")' /\ WasReviewed(r[1], r[2])'
        BY <2>6, <3>2 DEF ReportInv
      <3> QED
        BY <2>4, <2>5, <3>2, <3>3, <3>4, <3>5 DEF ReportInv
    <2>9. CASE InsertEntry(c)
      <3>1. /\ h.pc = "enter" /\ h.kind \in Kinds /\ h.state \in Eligible
            /\ WasIn(h.package, h.state)
        BY <2>1, <2>2, <2>9 DEF InsertEntry, At, CallKnows
      <3>2. PICK e : e = [package |-> h.package, kind |-> h.kind, state |-> h.state]
        OBVIOUS
      <3>3. h.package \in Nat \ {0}
        BY <3>1 DEF WasIn, ReportInv
      <3>4. e \in Entry /\ e.package = h.package /\ e.state = h.state
        BY <3>1, <3>2, <3>3 DEF Entry
      <3>5. entry' = Append(entry, e) /\ UNCHANGED <<request, delivered>>
        BY <2>1, <2>9, <3>2 DEF InsertEntry
      <3>6. entry' \in Seq(Entry)
        BY <3>4, <3>5 DEF ReportInv
      <3>7. \A n \in DOMAIN entry' : entry'[n] = e \/ (n \in DOMAIN entry /\ entry'[n] = entry[n])
        BY <3>4, <3>5 DEF ReportInv
      <3>8. ASSUME NEW n \in DOMAIN entry' PROVE WasIn(entry[n].package, entry[n].state)'
        <4>1. PICK g : g = entry'[n]
          OBVIOUS
        <4>2. WasIn(g.package, g.state)
          BY <3>1, <3>4, <3>7, <4>1 DEF ReportInv
        <4> QED
          BY <2>4, <4>1, <4>2 DEF WasIn
      <3>9. /\ \A p \in delivered' : WasIn(p, "APPROVED_FOR_DELIVERY")'
            /\ \A r \in request' : WasIn(r[1], "APPROVED_FOR_DELIVERY")' /\ WasReviewed(r[1], r[2])'
        BY <2>6, <3>5 DEF ReportInv
      <3> QED
        BY <2>4, <2>5, <3>6, <3>8, <3>9 DEF ReportInv
    <2> QED
      BY <1>6, <2>7, <2>8, <2>9
  <1>7. CASE UNCHANGED reportVars
    <2>1. UNCHANGED <<package, request, delivered, entry, rendered, call>>
      BY <1>7 DEF reportVars, reports
    <2> QED
      BY <2>1 DEF ReportInv, CallKnows, WasIn, WasReviewed
  <1> QED
    BY <1>2, <1>3, <1>4, <1>5, <1>6, <1>7, <1>8 DEF PackagesNext, Proceed

LEMMA InitReports == PackagesInit => ReportInv
  BY NoCallKnows DEF PackagesInit, ReportInv, CallKnows

\* For any packages and any number of callers that overlap, overwrite each other or die:
\* what is sent was rendered, reviewed and approved once, with this content unless a call
\* went on with a package that another had moved, and the timeline tells of each package a
\* state it had.
THEOREM HistoryAlwaysTrue == PackagesSpec => []HistoryIsTrue
  <1>1. ReportInv => HistoryIsTrue
    <2> SUFFICES ASSUME ReportInv PROVE HistoryIsTrue
      OBVIOUS
    <2>1. ASSUME NEW p \in DOMAIN package, Sent(p)
          PROVE  {"INPUTS_VALIDATED", "RENDERING", "RENDERED", "UNDER_REVIEW",
                  "APPROVED_FOR_DELIVERY"} \subseteq package[p].reached
      <3>1. package[p].state \in package[p].reached /\ PastIsWhole(package[p].reached)
        BY DEF ReportInv, PackageWhole
      <3>2. "APPROVED_FOR_DELIVERY" \in package[p].reached
        <4>1. CASE Shown(package[p].state)
                     \in {"APPROVED_FOR_DELIVERY", "DELIVERING", "DELIVERED"}
          <5>1. package[p].state \in {"APPROVED_FOR_DELIVERY", "DELIVERING", "DELIVERED"}
            BY <4>1 DEF Shown
          <5> QED
            BY <3>1, <5>1 DEF PastIsWhole
        <4>2. CASE p \in delivered \/ \E r \in request : r[1] = p
          BY <4>2 DEF ReportInv, WasIn
        <4> QED
          BY <2>1, <4>1, <4>2 DEF Sent
      <3> QED
        BY <3>1, <3>2 DEF PastIsWhole
    <2>2. ASSUME NEW n \in DOMAIN entry
          PROVE  entry[n].state \in package[entry[n].package].reached \cap Eligible
      <3>1. entry[n] \in Entry
        BY DEF ReportInv
      <3> QED
        BY <3>1 DEF ReportInv, WasIn, Entry
    <2>3. ContentWasReviewed
      BY DEF ContentWasReviewed, ReportInv, PackageWhole, ContentIsReviewed, WasReviewed
    <2> QED
      BY <2>1, <2>2, <2>3 DEF HistoryIsTrue, DeliveredWasReviewed, TimelineIsTrue
  <1> QED
    BY <1>1, InitReports, ReportsKept, PTL DEF PackagesSpec

----------------------------------------------------------------------------
(* The homeowner's link: the scores of a page. *)

LEMMA RoundedIsNear ==
    ASSUME NEW x \in Int
    PROVE  /\ Rounded(x) \in Int
           /\ \A n \in Int : x >= 100 * n => Rounded(x) >= n
           /\ \A n \in Int : x <= 100 * n => Rounded(x) <= n
           /\ \A n \in Int : x = 100 * n => Rounded(x) = n
  <1>1. PICK q \in Int, r \in 0 .. 99 : q = x \div 100 /\ r = x % 100 /\ x = 100 * q + r
    OBVIOUS
  <1>2. Rounded(x) = IF r > 50 \/ (r = 50 /\ q % 2 = 1) THEN q + 1 ELSE q
    BY <1>1 DEF Rounded
  <1>3. Rounded(x) \in {q, q + 1} /\ (r = 0 => Rounded(x) = q)
    BY <1>2
  <1> QED
    BY <1>1, <1>3

\* 99.5 is rounded to 100, and nothing less is.
LEMMA RoundedToHundred ==
    ASSUME NEW x \in Int, Rounded(x) = 100
    PROVE  x >= 9950
  <1>1. PICK q \in Int, r \in 0 .. 99 : q = x \div 100 /\ r = x % 100 /\ x = 100 * q + r
    OBVIOUS
  <1>2. 100 = IF r > 50 \/ (r = 50 /\ q % 2 = 1) THEN q + 1 ELSE q
    BY <1>1 DEF Rounded
  <1>3. (q = 99 /\ r >= 50) \/ q = 100
    BY <1>1, <1>2
  <1> QED
    BY <1>1, <1>3

\* Penalties are subtracted from a hundred, and no further than to zero.
LEMMA ScoreInRange ==
    ASSUME ObjectAssumption, NEW objects, objects \subseteq Objects, IsFiniteSet(objects),
           NEW category
    PROVE  Score(objects, category) \in 0 .. 100
  <1>1. PICK met : met = {o \in objects : category \in o.impact}
    OBVIOUS
  <1>2. IsFiniteSet(met) /\ met \subseteq Objects
    BY <1>1, FS_Subset
  <1>3. PICK F : F = [o \in met |-> Penalty[o.severity] * Weight[o.priority]]
    OBVIOUS
  <1>4. \A o \in met : F[o] \in Nat
    <2>1. ASSUME NEW o \in met PROVE F[o] \in Nat
      <3>1. o.severity \in DOMAIN Penalty /\ o.priority \in DOMAIN Weight
        BY <1>2 DEF ObjectAssumption
      <3>2. Penalty[o.severity] \in Nat
        BY <3>1 DEF Penalty
      <3>3. Weight[o.priority] \in Nat
        BY <3>1 DEF Weight
      <3>4. Penalty[o.severity] * Weight[o.priority] \in Nat
        BY <3>2, <3>3
      <3> QED
        BY <1>3, <3>4
    <2> QED
      BY <2>1
  <1> DEFINE Table(g) == g = [s \in SUBSET met |->
                  IF s = {} THEN 0
                  ELSE Penalty[(CHOOSE x \in s : TRUE).severity]
                         * Weight[(CHOOSE x \in s : TRUE).priority]
                       + g[s \ {CHOOSE x \in s : TRUE}]]
  <1>5. PICK penalty : penalty = (CHOOSE g : Table(g))[met]
    OBVIOUS
  <1>6. Score(objects, category) = Max({0, Rounded(10000 - penalty)})
    BY <1>1, <1>5 DEF Score, MapThenSumSet, MapThenFoldSet
  <1>7. \A s \in SUBSET met : s # {} =>
          F[Chosen(s)] = Penalty[(CHOOSE x \in s : TRUE).severity]
                           * Weight[(CHOOSE x \in s : TRUE).priority]
    BY <1>3, ChosenIn DEF Chosen
  <1>8. \A g : Sums(F, met, g) => Table(g)
    BY <1>7 DEF Sums, Chosen
  <1>9. ASSUME NEW g, Table(g) PROVE Sums(F, met, g)
    <2>1. \A s \in SUBSET met :
            (IF s = {} THEN 0
             ELSE Penalty[(CHOOSE x \in s : TRUE).severity]
                    * Weight[(CHOOSE x \in s : TRUE).priority]
                  + g[s \ {CHOOSE x \in s : TRUE}])
            = IF s = {} THEN 0 ELSE F[Chosen(s)] + g[s \ {Chosen(s)}]
      BY <1>7 DEF Chosen
    <2>2. g = [s \in SUBSET met |->
                  IF s = {} THEN 0
                  ELSE Penalty[(CHOOSE x \in s : TRUE).severity]
                         * Weight[(CHOOSE x \in s : TRUE).priority]
                       + g[s \ {CHOOSE x \in s : TRUE}]]
      BY <1>9
    <2>3. g = [s \in SUBSET met |->
                  IF s = {} THEN 0 ELSE F[Chosen(s)] + g[s \ {Chosen(s)}]]
      BY <2>1, <2>2, Zenon
    <2> QED
      BY <2>3 DEF Sums
  <1>10. PICK k : k = CHOOSE g : Table(g)
    OBVIOUS
  <1>11. PICK m : m = CHOOSE g : Sums(F, met, g)
    OBVIOUS
  <1>12. Sums(F, met, m)
    BY <1>2, <1>11, SumsExist
  <1>13. Table(m)
    BY <1>8, <1>12, Zenon
  <1>14. Table(k)
    <2> HIDE DEF Table
    <2> QED
      BY <1>10, <1>13
  <1>15. Sums(F, met, k)
    BY <1>9, <1>14
  <1>16. met \in SUBSET met
    OBVIOUS
  <1>17. k[met] = m[met]
    BY <1>2, <1>12, <1>15, <1>16, SumsAgree
  <1> HIDE DEF Table
  <1>18. penalty = SumOver(F, met)
    BY <1>5, <1>10, <1>11, <1>17 DEF SumOver
  <1>19. penalty \in Nat
    BY <1>2, <1>4, <1>18, SumIsNat
  <1>20. PICK x : x = 10000 - penalty
    OBVIOUS
  <1>21. x \in Int /\ x <= 100 * 100
    BY <1>19, <1>20
  <1>22. Rounded(x) \in Int /\ Rounded(x) <= 100
    BY <1>21, RoundedIsNear
  <1>23. PICK y : y = Rounded(x)
    OBVIOUS
  <1>24. y \in Int /\ 0 \in Int
    BY <1>22, <1>23
  <1>25. Max({0, y}) \in {0, y} /\ Max({0, y}) >= 0
    BY ONLY <1>24, MaxOfTwo
  <1> QED
    BY <1>6, <1>20, <1>22, <1>23, <1>25

\* The weights sum to a hundred.
LEMMA CompositeLiesAmong ==
    ASSUME NEW air \in 0 .. 100, NEW water \in 0 .. 100, NEW energy \in 0 .. 100
    PROVE  LET c == Composite(air, water, energy) IN
           (air <= c \/ water <= c \/ energy <= c) /\ (c <= air \/ c <= water \/ c <= energy)
  <1>1. PICK x : x = 30 * air + 40 * water + 30 * energy
    OBVIOUS
  <1>2. x \in Int
    BY <1>1
  <1>3. Composite(air, water, energy) = Rounded(x)
    BY <1>1 DEF Composite
  <1>4. PICK low \in {air, water, energy} : low <= air /\ low <= water /\ low <= energy
    OBVIOUS
  <1>5. PICK high \in {air, water, energy} : high >= air /\ high >= water /\ high >= energy
    OBVIOUS
  <1>6. low \in Int /\ high \in Int
    BY <1>4, <1>5
  <1>7. x >= 100 * low /\ x <= 100 * high
    BY <1>1, <1>4, <1>5, <1>6
  <1>8. Rounded(x) >= low /\ Rounded(x) <= high /\ Rounded(x) \in Int
    BY <1>2, <1>6, <1>7, RoundedIsNear
  <1> QED
    BY <1>3, <1>4, <1>5, <1>8

LEMMA CompletenessIsTrue ==
    ASSUME NEW objects, IsFiniteSet(objects)
    PROVE  LET backed == objects \cap finalized IN
           /\ Completeness(objects) = 100 =>
                 objects # {} /\ 200 * Cardinality(backed) >= 199 * Cardinality(objects)
           /\ objects # {} /\ backed = objects => Completeness(objects) = 100
  <1>1. PICK k : k = Cardinality(objects \cap finalized)
    OBVIOUS
  <1>2. PICK n : n = Cardinality(objects)
    OBVIOUS
  <1>3. k \in Nat /\ n \in Nat /\ (objects # {} => n # 0)
    BY <1>1, <1>2, FS_Subset, FS_CardinalityType, FS_EmptySet
  <1>4. CASE objects = {}
    BY <1>4 DEF Completeness
  <1>5. CASE objects # {}
    <2>1. n \in Nat \ {0}
      BY <1>3, <1>5
    <2>2. PICK y : y = (10000 * k) \div n
      OBVIOUS
    <2>3. PICK m : m = 10000 * k
      OBVIOUS
    <2>4. m \in Nat
      BY <1>3, <2>3
    <2>5. y \in Int /\ y * n <= m
      BY <2>1, <2>2, <2>3, <2>4
    <2>6. Completeness(objects) = Rounded(y)
      BY <1>1, <1>2, <1>5, <2>2 DEF Completeness
    <2>7. ASSUME Rounded(y) = 100
          PROVE  200 * k >= 199 * n
      <3>1. y >= 9950
        BY <2>5, <2>7, RoundedToHundred
      <3>2. y * n >= 9950 * n
        BY <2>1, <2>5, <3>1
      <3> QED
        BY <1>3, <2>1, <2>3, <2>5, <3>2
    <2>8. ASSUME k = n
          PROVE  Rounded(y) = 100
      <3>1. y = 10000
        BY <2>1, <2>2, <2>8
      <3> QED
        BY <3>1, RoundedIsNear
    <2> QED
      BY <1>1, <1>2, <1>5, <2>6, <2>7, <2>8
  <1> QED
    BY <1>4, <1>5

----------------------------------------------------------------------------
LinkInv == cleared \subseteq Objects /\ IsFiniteSet(cleared) /\ ScoresAgree

LEMMA ShowViewInv ==
    ASSUME ObjectAssumption, LinkInv, NEW r, ShowView(r)
    PROVE  ScoresAgree'
  <1>1. PICK shown : shown = {o \in cleared : o.homeowner}
    OBVIOUS
  <1>2. shown \subseteq Objects /\ IsFiniteSet(shown)
    BY <1>1, FS_Subset DEF LinkInv
  <1>3. PICK scores : scores = [c \in Categories |-> Score(shown, c)]
    OBVIOUS
  <1>4. \A c \in Categories : scores[c] \in 0 .. 100
    BY <1>2, <1>3, ScoreInRange
  <1>5. PICK composite : composite = Composite(scores["air"], scores["water"], scores["energy"])
    OBVIOUS
  <1>6. /\ \E c \in Categories : scores[c] <= composite
        /\ \E c \in Categories : composite <= scores[c]
    <2>1. /\ scores["air"] \in 0 .. 100 /\ scores["water"] \in 0 .. 100
          /\ scores["energy"] \in 0 .. 100
      BY <1>4 DEF Categories
    <2>2. /\ \E s \in {scores["air"], scores["water"], scores["energy"]} : s <= composite
          /\ \E s \in {scores["air"], scores["water"], scores["energy"]} : composite <= s
      <3>1. PICK a, w, e : a = scores["air"] /\ w = scores["water"] /\ e = scores["energy"]
        OBVIOUS
      <3>2. a \in 0 .. 100 /\ w \in 0 .. 100 /\ e \in 0 .. 100
        BY <2>1, <3>1
      <3>3. PICK c : c = Composite(a, w, e)
        OBVIOUS
      <3>4. (a <= c \/ w <= c \/ e <= c) /\ (c <= a \/ c <= w \/ c <= e)
        BY ONLY <3>2, <3>3, CompositeLiesAmong
      <3> QED
        BY <1>5, <3>1, <3>3, <3>4
    <2> QED
      BY <2>2 DEF Categories
  <1>7. PICK whole : whole = Completeness(shown)
    OBVIOUS
  <1>8. PICK backed : backed = shown \cap finalized
    OBVIOUS
  <1>9. /\ whole = 100 =>
             shown # {} /\ 200 * Cardinality(backed) >= 199 * Cardinality(shown)
        /\ shown # {} /\ backed = shown => whole = 100
    BY <1>2, <1>7, <1>8, CompletenessIsTrue
  <1>10. page' = [shown |-> shown, scores |-> scores, composite |-> composite,
                  completeness |-> whole, backed |-> backed]
    BY <1>1, <1>3, <1>5, <1>7, <1>8 DEF ShowView
  <1>11. /\ page'.shown = shown /\ page'.scores = scores /\ page'.composite = composite
         /\ page'.completeness = whole /\ page'.backed = backed
    BY <1>10
  <1> QED
    BY <1>4, <1>6, <1>9, <1>11 DEF ScoresAgree

LEMMA LinkInitInv == LinkInit => LinkInv
  BY FS_EmptySet DEF LinkInit, LinkInv, ScoresAgree, NoView, Categories

LEMMA LinkStep == ObjectAssumption /\ LinkInv /\ [LinkNext]_linkVars => LinkInv'
  <1> SUFFICES ASSUME ObjectAssumption, LinkInv, [LinkNext]_linkVars PROVE LinkInv'
    OBVIOUS
  <1>1. CASE UNCHANGED linkVars \/ Tick \/ RevokeGrant \/ Reboot
    <2>1. UNCHANGED <<cleared, page>>
      BY <1>1 DEF linkVars, Tick, RevokeGrant, Reboot
    <2> QED
      BY <2>1 DEF LinkInv, ScoresAgree
  <1>2. ASSUME NEW r \in Readers, Arrive(r) \/ FindGrant(r) \/ UseGrant(r)
        PROVE  LinkInv'
    BY <1>2 DEF Arrive, FindGrant, UseGrant, LinkInv, ScoresAgree
  <1>3. ASSUME NEW r \in Readers, ShowView(r)
        PROVE  LinkInv'
    <2>1. ScoresAgree'
      BY <1>3, ShowViewInv
    <2> QED
      BY <1>3, <2>1 DEF ShowView, LinkInv
  <1>4. ASSUME NEW o \in Objects, Publish(o)
        PROVE  LinkInv'
    BY <1>4, FS_AddElement DEF Publish, LinkInv, ScoresAgree
  <1>5. ASSUME NEW o \in Objects, FinalizeEvidence(o)
        PROVE  LinkInv'
    BY <1>5 DEF FinalizeEvidence, LinkInv, ScoresAgree
  <1> QED
    BY <1>1, <1>2, <1>3, <1>4, <1>5 DEF LinkNext

\* The composite on a homeowner's page lies among its three scores, each of them between 0
\* and 100, and its evidence is called complete only if no more than rounding hides is
\* missing, for any number of findings.
THEOREM ScoresAlwaysAgree == LinkSpec => []ScoresAgree
  <1>1. LinkInit => LinkInv
    BY LinkInitInv
  <1>2. LinkInv /\ [LinkNext]_linkVars => LinkInv'
    BY LinkStep, ObjectAssumption
  <1>3. LinkInv => ScoresAgree
    BY DEF LinkInv
  <1> QED
    BY <1>1, <1>2, <1>3, PTL DEF LinkSpec
==============================================================================
