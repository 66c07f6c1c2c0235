-------------------------- MODULE ContractorProofs ---------------------------
(***************************************************************************)
(* What the contractor's side guarantees: survey jobs and their bill, the  *)
(* legacy passport, field flights, billing and the weather gates, for any  *)
(* number of requests, callers, tablets and payers.                        *)
(***************************************************************************)
EXTENDS SurveyJob, LegacyPassport, FieldFlight, Billing, WeatherGates, ProofBasics

----------------------------------------------------------------------------
(* Survey job *)

Standing(steps) == {r \in Requests : request[r] \in steps}

\* Requests between an entry of the bill and what it is for.
Underway == Steps \ {"idle"}

SurveyTypes ==
    /\ meter \in [drops : Nat, flagged : Nat, charges : Nat]
    /\ launch \in [authorized : Nat, captured : Nat]
    /\ request \in [Requests -> Steps]
    /\ IsFiniteSet(Standing(Underway))

\* Each launch that is to be captured was billed, each that is to be billed was authorized,
\* and each penalty that is to be charged was flagged, by the request that stands there.
BillIsOwned ==
    /\ launch.captured + Cardinality(Standing({"capture"})) <= meter.drops
    /\ meter.drops + Cardinality(Standing({"fly", "bill"})) <= launch.authorized
    /\ meter.charges + Cardinality(Standing({"charge"})) <= meter.flagged

SurveyInv == SurveyTypes /\ BillIsOwned

LEMMA InitSurvey == SurveyInit => SurveyInv
  <1> SUFFICES ASSUME SurveyInit PROVE SurveyInv
    OBVIOUS
  <1>1. \A steps \in SUBSET Underway : Standing(steps) = {}
    BY DEF SurveyInit, Standing, Underway
  <1>2. /\ Standing(Underway) = {} /\ Standing({"capture"}) = {} /\ Standing({"charge"}) = {}
        /\ Standing({"fly", "bill"}) = {}
    BY <1>1 DEF Underway, Steps
  <1> QED
    BY <1>2, FS_EmptySet DEF SurveyInit, SurveyInv, SurveyTypes, BillIsOwned, Steps

One(holds) == IF holds THEN 1 ELSE 0

\* A request that goes from one step to another is counted at the one and not the other.
LEMMA StandingMoves ==
  ASSUME SurveyTypes, NEW r \in Requests, NEW to \in Steps,
         request' = [request EXCEPT ![r] = to], NEW steps, steps \subseteq Underway
  PROVE  /\ IsFiniteSet(Standing(steps)) /\ IsFiniteSet(Standing(steps)')
         /\ Cardinality(Standing(steps)) \in Nat
         /\ Cardinality(Standing(steps)') \in Nat
         /\ Cardinality(Standing(steps)') =
              Cardinality(Standing(steps)) - One(request[r] \in steps) + One(to \in steps)
  <1> DEFINE S == Standing(steps)
             T == Standing(steps)'
  <1>1. IsFiniteSet(S)
    <2>1. S \subseteq Standing(Underway)
      BY DEF Standing
    <2> QED
      BY <2>1, FS_Subset DEF SurveyTypes
  <1>2. T = (S \ {r}) \cup (IF to \in steps THEN {r} ELSE {})
    BY DEF Standing, SurveyTypes
  <1>3. r \in S <=> request[r] \in steps
    BY DEF Standing
  <1> HIDE DEF S, T
  <1>4. /\ IsFiniteSet(S \ {r}) /\ r \notin S \ {r}
        /\ Cardinality(S \ {r}) = Cardinality(S) - One(r \in S)
    <2>1. Cardinality(S) \in Nat
      BY <1>1, FS_CardinalityType
    <2> QED
      BY <1>1, <2>1, FS_RemoveElement DEF One
  <1>5. Cardinality(S) \in Nat /\ Cardinality(S \ {r}) \in Nat
    BY <1>1, <1>4, FS_CardinalityType
  <1>6. CASE to \in steps
    <2>1. T = (S \ {r}) \cup {r}
      BY <1>2, <1>6
    <2>2. IsFiniteSet(T) /\ Cardinality(T) = Cardinality(S \ {r}) + 1
      BY <1>4, <2>1, FS_AddElement
    <2> QED
      BY <1>1, <1>3, <1>4, <1>5, <1>6, <2>2 DEF One, S, T
  <1>7. CASE to \notin steps
    <2>1. T = S \ {r}
      BY <1>2, <1>7
    <2> QED
      BY <1>1, <1>3, <1>4, <1>5, <1>7, <2>1 DEF One, S, T
  <1> QED
    BY <1>6, <1>7

\* The bill grows by no more than the requests that have earned it.
Earned(from, to) ==
    /\ launch'.captured + One(to = "capture") - One(from = "capture") - launch.captured
         <= meter'.drops - meter.drops
    /\ meter'.drops + One(to \in {"fly", "bill"}) - One(from \in {"fly", "bill"}) - meter.drops
         <= launch'.authorized - launch.authorized
    /\ meter'.charges + One(to = "charge") - One(from = "charge") - meter.charges
         <= meter'.flagged - meter.flagged

LEMMA SurveyMoves ==
  ASSUME SurveyTypes, NEW r \in Requests, NEW from \in Steps, NEW to \in Steps,
         request[r] = from, request' = [request EXCEPT ![r] = to],
         launch' \in [authorized : Nat, captured : Nat],
         meter' \in [drops : Nat, flagged : Nat, charges : Nat],
         BillIsOwned, Earned(from, to)
  PROVE  SurveyInv'
  <1>1. \A steps \in SUBSET Underway :
          /\ IsFiniteSet(Standing(steps)')
          /\ Cardinality(Standing(steps)) \in Nat
          /\ Cardinality(Standing(steps)') \in Nat
          /\ Cardinality(Standing(steps)') =
               Cardinality(Standing(steps)) - One(from \in steps) + One(to \in steps)
    BY StandingMoves
  <1>2. /\ Underway \in SUBSET Underway /\ {"capture"} \in SUBSET Underway
        /\ {"fly", "bill"} \in SUBSET Underway /\ {"charge"} \in SUBSET Underway
    BY DEF Underway, Steps
  <1> DEFINE a == Cardinality(Standing({"capture"}))
             b == Cardinality(Standing({"fly", "bill"}))
             c == Cardinality(Standing({"charge"}))
             x == Cardinality(Standing({"capture"})')
             y == Cardinality(Standing({"fly", "bill"})')
             z == Cardinality(Standing({"charge"})')
  <1>3. /\ a \in Nat /\ x \in Nat /\ x = a - One(from \in {"capture"}) + One(to \in {"capture"})
        /\ b \in Nat /\ y \in Nat /\ y = b - One(from \in {"fly", "bill"}) + One(to \in {"fly", "bill"})
        /\ c \in Nat /\ z \in Nat /\ z = c - One(from \in {"charge"}) + One(to \in {"charge"})
    BY <1>1, <1>2, Zenon
  <1>4. /\ launch.captured + a <= meter.drops
        /\ meter.drops + b <= launch.authorized
        /\ meter.charges + c <= meter.flagged
    BY DEF BillIsOwned
  <1>5. SurveyTypes'
    BY <1>1, <1>2 DEF SurveyTypes
  <1>6. /\ launch.captured \in Nat /\ launch.authorized \in Nat
        /\ meter.drops \in Nat /\ meter.flagged \in Nat /\ meter.charges \in Nat
        /\ launch'.captured \in Nat /\ launch'.authorized \in Nat
        /\ meter'.drops \in Nat /\ meter'.flagged \in Nat /\ meter'.charges \in Nat
    BY DEF SurveyTypes
  <1> HIDE DEF a, b, c, x, y, z
  <1>7. launch'.captured + x <= meter'.drops
    BY <1>3, <1>4, <1>6 DEF One, Earned
  <1>8. meter'.drops + y <= launch'.authorized
    BY <1>3, <1>4, <1>6 DEF One, Earned
  <1>9. meter'.charges + z <= meter'.flagged
    BY <1>3, <1>4, <1>6 DEF One, Earned
  <1> QED
    BY <1>5, <1>7, <1>8, <1>9 DEF SurveyInv, BillIsOwned, x, y, z

LEMMA SurveyStep ==
  ASSUME SurveyInv, [SurveyNext]_surveyVars
  PROVE  SurveyInv'
  <1>1. SurveyTypes /\ BillIsOwned
    BY DEF SurveyInv
  <1>2. /\ launch.captured \in Nat /\ launch.authorized \in Nat
        /\ meter.drops \in Nat /\ meter.flagged \in Nat /\ meter.charges \in Nat
    BY <1>1 DEF SurveyTypes
  <1>3. CASE UNCHANGED surveyVars
    BY <1>3 DEF surveyVars, SurveyInv, SurveyTypes, BillIsOwned, Standing
  \* Steps that leave the bill alone, and where they may lead.
  <1>4. ASSUME NEW r \in Requests, UNCHANGED <<meter, launch>>,
               NEW from \in Steps, NEW to \in Steps, request[r] = from,
               request' = [request EXCEPT ![r] = to],
               to \notin {"capture", "fly", "charge"}, to = "bill" => from = "fly"
        PROVE  SurveyInv'
    <2>1. Earned(from, to)
      BY <1>2, <1>4 DEF One, Earned
    <2>2. /\ meter' \in [drops : Nat, flagged : Nat, charges : Nat]
          /\ launch' \in [authorized : Nat, captured : Nat]
      BY <1>1, <1>4 DEF SurveyTypes
    <2> QED
      BY <1>1, <1>4, <2>1, <2>2, SurveyMoves
  <1>5. ASSUME NEW r \in Requests, NEW to \in Steps \ {"capture", "fly", "charge", "bill"},
               Accept(r, to)
        PROVE  SurveyInv'
    BY <1>4, <1>5 DEF Accept, Steps
  <1>6. ASSUME NEW r \in Requests,
               \/ BeginPhase1(r) \/ BeginLaunch(r) \/ BeginDryRun(r) \/ BeginNotify(r)
               \/ BeginReply(r) \/ BeginReminder(r) \/ BeginProposal(r) \/ BeginApproval(r)
               \/ BeginSent(r) \/ BeginEmail(r) \/ BeginCommand(r)
        PROVE  SurveyInv'
    BY <1>5, <1>6 DEF BeginPhase1, BeginLaunch, BeginCommand, BeginDryRun, BeginNotify, BeginReply,
         BeginReminder, BeginProposal, BeginApproval, BeginSent, BeginEmail, Steps
  <1>7. ASSUME NEW r \in Requests,
               \/ SavePhase1(r) \/ SaveWindows(r) \/ SaveSchedule(r) \/ ConfirmReminder(r)
               \/ SavePricing(r) \/ SaveApproval(r) \/ SaveSent(r) \/ SaveEmailed(r)
               \/ Abandon(r) \/ Fly(r) \/ TakeOff(r)
        PROVE  SurveyInv'
    <2>1. PICK from \in Steps, to \in {"idle", "bill"} :
             /\ request[r] = from /\ request' = [request EXCEPT ![r] = to]
             /\ to = "bill" => from = "fly"
      BY <1>1, <1>7 DEF SavePhase1, SaveWindows, SaveSchedule, ConfirmReminder, SavePricing,
           SaveApproval, SaveSent, SaveEmailed, Abandon, Fly, TakeOff, Then, SurveyTypes, Steps
    <2>2. UNCHANGED <<meter, launch>>
      BY <1>7 DEF SavePhase1, SaveWindows, SaveSchedule, ConfirmReminder, SavePricing,
           SaveApproval, SaveSent, SaveEmailed, Abandon, Fly, TakeOff
    <2> QED
      BY <1>4, <2>1, <2>2 DEF Steps
  <1>8. ASSUME NEW r \in Requests, AuthorizeLaunch(r) PROVE SurveyInv'
    <2>1. /\ request[r] = "authorize" /\ request' = [request EXCEPT ![r] = "fly"]
          /\ launch' = [launch EXCEPT !.authorized = @ + 1] /\ meter' = meter
      BY <1>8 DEF AuthorizeLaunch, Then
    <2>2. /\ launch' \in [authorized : Nat, captured : Nat]
          /\ launch'.authorized = launch.authorized + 1 /\ launch'.captured = launch.captured
      BY <1>1, <2>1 DEF SurveyTypes
    <2>3. Earned("authorize", "fly")
      BY <1>2, <2>1, <2>2 DEF One, Earned
    <2>4. /\ meter' \in [drops : Nat, flagged : Nat, charges : Nat]
          /\ launch' \in [authorized : Nat, captured : Nat]
      BY <1>1, <2>1, <2>2 DEF SurveyTypes
    <2>5. "authorize" \in Steps /\ "fly" \in Steps
      BY DEF Steps
    <2> QED
      BY <1>1, <2>1, <2>3, <2>4, <2>5, SurveyMoves
  <1>9. ASSUME NEW r \in Requests, RecordFleetDrop(r) PROVE SurveyInv'
    <2>1. /\ request[r] = "bill" /\ request' = [request EXCEPT ![r] = "capture"]
          /\ meter' = [meter EXCEPT !.drops = @ + 1] /\ launch' = launch
      BY <1>9 DEF RecordFleetDrop, Then
    <2>2. /\ meter' \in [drops : Nat, flagged : Nat, charges : Nat]
          /\ meter'.drops = meter.drops + 1 /\ meter'.flagged = meter.flagged
          /\ meter'.charges = meter.charges
      BY <1>1, <2>1 DEF SurveyTypes
    <2>3. Earned("bill", "capture")
      BY <1>2, <2>1, <2>2 DEF One, Earned
    <2>4. /\ meter' \in [drops : Nat, flagged : Nat, charges : Nat]
          /\ launch' \in [authorized : Nat, captured : Nat]
      BY <1>1, <2>1, <2>2 DEF SurveyTypes
    <2>5. "bill" \in Steps /\ "capture" \in Steps
      BY DEF Steps
    <2> QED
      BY <1>1, <2>1, <2>3, <2>4, <2>5, SurveyMoves
  <1>10. ASSUME NEW r \in Requests, Capture(r) PROVE SurveyInv'
    <2>1. /\ request[r] = "capture" /\ request' = [request EXCEPT ![r] = "idle"]
          /\ launch' = [launch EXCEPT !.captured = @ + 1] /\ meter' = meter
      BY <1>10 DEF Capture, Then
    <2>2. /\ launch' \in [authorized : Nat, captured : Nat]
          /\ launch'.authorized = launch.authorized /\ launch'.captured = launch.captured + 1
      BY <1>1, <2>1 DEF SurveyTypes
    <2>3. Earned("capture", "idle")
      BY <1>2, <2>1, <2>2 DEF One, Earned
    <2>4. /\ meter' \in [drops : Nat, flagged : Nat, charges : Nat]
          /\ launch' \in [authorized : Nat, captured : Nat]
      BY <1>1, <2>1, <2>2 DEF SurveyTypes
    <2>5. "capture" \in Steps /\ "idle" \in Steps
      BY DEF Steps
    <2> QED
      BY <1>1, <2>1, <2>3, <2>4, <2>5, SurveyMoves
  <1>11. ASSUME NEW r \in Requests, FlagDryRun(r) PROVE SurveyInv'
    <2>1. /\ request[r] = "flag" /\ request' = [request EXCEPT ![r] = "charge"]
          /\ meter' = [meter EXCEPT !.flagged = @ + 1] /\ launch' = launch
      BY <1>11 DEF FlagDryRun, Then
    <2>2. /\ meter' \in [drops : Nat, flagged : Nat, charges : Nat]
          /\ meter'.drops = meter.drops /\ meter'.flagged = meter.flagged + 1
          /\ meter'.charges = meter.charges
      BY <1>1, <2>1 DEF SurveyTypes
    <2>3. Earned("flag", "charge")
      BY <1>2, <2>1, <2>2 DEF One, Earned
    <2>4. /\ meter' \in [drops : Nat, flagged : Nat, charges : Nat]
          /\ launch' \in [authorized : Nat, captured : Nat]
      BY <1>1, <2>1, <2>2 DEF SurveyTypes
    <2>5. "flag" \in Steps /\ "charge" \in Steps
      BY DEF Steps
    <2> QED
      BY <1>1, <2>1, <2>3, <2>4, <2>5, SurveyMoves
  <1>12. ASSUME NEW r \in Requests, ChargeDryRun(r) PROVE SurveyInv'
    <2>1. /\ request[r] = "charge" /\ request' = [request EXCEPT ![r] = "idle"]
          /\ meter' = [meter EXCEPT !.charges = @ + 1] /\ launch' = launch
      BY <1>12 DEF ChargeDryRun, Then
    <2>2. /\ meter' \in [drops : Nat, flagged : Nat, charges : Nat]
          /\ meter'.drops = meter.drops /\ meter'.flagged = meter.flagged
          /\ meter'.charges = meter.charges + 1
      BY <1>1, <2>1 DEF SurveyTypes
    <2>3. Earned("charge", "idle")
      BY <1>2, <2>1, <2>2 DEF One, Earned
    <2>4. /\ meter' \in [drops : Nat, flagged : Nat, charges : Nat]
          /\ launch' \in [authorized : Nat, captured : Nat]
      BY <1>1, <2>1, <2>2 DEF SurveyTypes
    <2>5. "charge" \in Steps /\ "idle" \in Steps
      BY DEF Steps
    <2> QED
      BY <1>1, <2>1, <2>3, <2>4, <2>5, SurveyMoves
  <1> QED
    BY <1>3, <1>6, <1>7, <1>8, <1>9, <1>10, <1>11, <1>12 DEF SurveyNext

\* Every captured launch was billed, nothing is billed that was not authorized and no penalty
\* is charged that was not flagged, however the requests overlap, are repeated or break off
\* (operator_launch, operator_dry_run).
THEOREM AlwaysBilledAsFlown == SurveySpec => []BilledAsFlown
  <1>1. SurveyInv => BilledAsFlown
    <2> SUFFICES ASSUME SurveyInv PROVE BilledAsFlown
      OBVIOUS
    <2>1. \A steps \in SUBSET Underway : Cardinality(Standing(steps)) \in Nat
      <3>1. ASSUME NEW steps \in SUBSET Underway PROVE Cardinality(Standing(steps)) \in Nat
        <4>1. Standing(steps) \subseteq Standing(Underway) /\ IsFiniteSet(Standing(Underway))
          BY DEF Standing, SurveyInv, SurveyTypes
        <4> QED
          BY <4>1, FS_Subset, FS_CardinalityType
      <3> QED
        BY <3>1
    <2>2. /\ Cardinality(Standing({"capture"})) \in Nat /\ Cardinality(Standing({"charge"})) \in Nat
          /\ Cardinality(Standing({"fly", "bill"})) \in Nat
      BY <2>1 DEF Underway, Steps
    <2>3. /\ launch.captured \in Nat /\ launch.authorized \in Nat
          /\ meter.drops \in Nat /\ meter.flagged \in Nat /\ meter.charges \in Nat
      BY DEF SurveyInv, SurveyTypes
    <2> QED
      BY <2>2, <2>3 DEF SurveyInv, BillIsOwned, BilledAsFlown
  <1> QED
    BY InitSurvey, SurveyStep, <1>1, PTL DEF SurveySpec

----------------------------------------------------------------------------
(* Legacy passport: what a ledger is *)

AgreesWithTokens(ledger) ==
    \A i \in DOMAIN ledger :
        /\ ledger[i].event \in {"SIGNED", "REQUESTED"} => ledger[i].about \in Tokens
        /\ ledger[i].event = "SIGNED" => cosign[ledger[i].about] = "signed"
        /\ ledger[i].event = "REQUESTED" => cosign[ledger[i].about] # "none"

\* A ledger that a document or a caller may hold; what its entries are about is left open.
Sound(ledger) ==
    /\ \E S : ledger \in Seq(S)
    /\ ChainVerified(ledger) /\ AgreesWithTokens(ledger)

\* What is appended is a sequence, and what it says of tokens is true.
Appendable(news) ==
    /\ \E n \in Nat : DOMAIN news = 1 .. n
    /\ \A i \in DOMAIN news :
          /\ news[i].event \in {"SIGNED", "REQUESTED"} => news[i].about \in Tokens
          /\ news[i].event = "SIGNED" => cosign[news[i].about] = "signed"
          /\ news[i].event = "REQUESTED" => cosign[news[i].about] # "none"

LEMMA EmptyIsSound == Sound(<<>>)
  <1>1. <<>> \in Seq({}) /\ DOMAIN <<>> = {}
    OBVIOUS
  <1> QED
    BY <1>1 DEF Sound, ChainVerified, AgreesWithTokens

LEMMA AppendIsSound ==
  ASSUME NEW ledger, Sound(ledger), NEW news, Appendable(news), stamp \in Nat
  PROVE  Sound(AppendLedger(ledger, news))
  <1>1. PICK S : ledger \in Seq(S)
    BY DEF Sound
  <1>2. PICK n \in Nat : DOMAIN news = 1 .. n
    BY DEF Appendable
  <1>3. PICK more : more = [i \in DOMAIN news |->
                 [event |-> news[i].event, about |-> news[i].about, hash |-> stamp + i,
                  prev |-> IF i = 1 THEN Hash(ledger) ELSE stamp + i - 1]]
    OBVIOUS
  <1>4. PICK R : R = {more[i] : i \in 1 .. n}
    OBVIOUS
  <1>5. more \in Seq(R) /\ Len(more) = n
    <2>1. more \in [1 .. n -> R]
      BY <1>2, <1>3, <1>4
    <2> QED
      BY <2>1
  <1>6. PICK all : all = ledger \o more
    OBVIOUS
  <1>7. ledger \in Seq(S \cup R) /\ more \in Seq(S \cup R)
    BY <1>1, <1>5
  <1>8. all \in Seq(S \cup R) /\ Len(all) = Len(ledger) + n /\ Len(ledger) \in Nat
    <2>1. Len(ledger) \in Nat /\ Len(all) = Len(ledger) + Len(more)
      BY <1>6, <1>7
    <2> QED
      BY <1>5, <1>6, <1>7, <2>1
  <1>9. /\ \A i \in 1 .. Len(ledger) : all[i] = ledger[i]
        /\ \A i \in 1 .. n : all[Len(ledger) + i] = more[i]
    BY <1>5, <1>6, <1>7, <1>8
  <1>10. \A i \in DOMAIN all : \/ i \in 1 .. Len(ledger)
                               \/ \E j \in 1 .. n : i = Len(ledger) + j
    <2>1. ASSUME NEW i \in 1 .. Len(ledger) + n, i \notin 1 .. Len(ledger)
          PROVE  i - Len(ledger) \in 1 .. n /\ i = Len(ledger) + (i - Len(ledger))
      BY <1>8, <2>1
    <2> QED
      BY <1>8, <2>1
  <1>11. \A j \in 1 .. n : /\ more[j].event = news[j].event /\ more[j].about = news[j].about
                           /\ more[j].hash = stamp + j
                           /\ more[j].prev = IF j = 1 THEN Hash(ledger) ELSE stamp + j - 1
    BY <1>2, <1>3
  <1>12. AgreesWithTokens(all)
    <2>1. DOMAIN ledger = 1 .. Len(ledger)
      BY <1>1
    <2>2. ASSUME NEW i \in 1 .. Len(ledger)
          PROVE  /\ all[i].event \in {"SIGNED", "REQUESTED"} => all[i].about \in Tokens
                 /\ all[i].event = "SIGNED" => cosign[all[i].about] = "signed"
                 /\ all[i].event = "REQUESTED" => cosign[all[i].about] # "none"
      BY <1>9, <2>1 DEF Sound, AgreesWithTokens
    <2>3. ASSUME NEW j \in 1 .. n, NEW i, i = Len(ledger) + j
          PROVE  /\ all[i].event \in {"SIGNED", "REQUESTED"} => all[i].about \in Tokens
                 /\ all[i].event = "SIGNED" => cosign[all[i].about] = "signed"
                 /\ all[i].event = "REQUESTED" => cosign[all[i].about] # "none"
      <3>1. all[i] = more[j] /\ j \in DOMAIN news
        BY <1>2, <1>9, <2>3
      <3> QED
        BY <1>11, <3>1 DEF Appendable
    <2> QED
      BY <1>10, <2>2, <2>3 DEF AgreesWithTokens
  <1>13. ChainVerified(all)
    <2>1. DOMAIN ledger = 1 .. Len(ledger) /\ ChainVerified(ledger)
      BY <1>1 DEF Sound
    <2>2. ASSUME NEW i \in 1 .. Len(ledger)
          PROVE  all[i].prev = IF i = 1 THEN 0 ELSE all[i - 1].hash
      <3>1. ledger[i].prev = IF i = 1 THEN 0 ELSE ledger[i - 1].hash
        BY <2>1 DEF ChainVerified
      <3>2. i # 1 => i - 1 \in 1 .. Len(ledger)
        BY <1>8
      <3> QED
        BY <1>9, <3>1, <3>2
    <2>3. ASSUME NEW j \in 1 .. n
          PROVE  LET i == Len(ledger) + j
                 IN all[i].prev = IF i = 1 THEN 0 ELSE all[i - 1].hash
      <3>1. CASE j # 1
        <4>1. j - 1 \in 1 .. n /\ Len(ledger) + j # 1
              /\ Len(ledger) + j - 1 = Len(ledger) + (j - 1)
          BY <1>8, <3>1
        <4>2. all[Len(ledger) + j - 1] = more[j - 1] /\ all[Len(ledger) + j] = more[j]
          BY <1>9, <4>1
        <4>3. more[j - 1].hash = stamp + (j - 1) /\ more[j].prev = stamp + j - 1
          BY <1>11, <3>1, <4>1
        <4> QED
          BY <4>1, <4>2, <4>3
      <3>2. CASE j = 1 /\ ledger = <<>>
        <4>1. Len(ledger) = 0
          BY <3>2
        <4>2. more[1].prev = 0 /\ all[1] = more[1]
          BY <1>9, <1>11, <3>2, <4>1 DEF Hash
        <4> QED
          BY <3>2, <4>1, <4>2
      <3>3. CASE j = 1 /\ ledger # <<>>
        <4>1. Len(ledger) \in 1 .. Len(ledger)
          BY <1>1, <3>3
        <4>2. more[1].prev = ledger[Len(ledger)].hash
          BY <1>11, <3>3 DEF Hash, Last
        <4>3. all[Len(ledger)] = ledger[Len(ledger)] /\ all[Len(ledger) + 1] = more[1]
          BY <1>9, <3>3, <4>1
        <4> QED
          BY <3>3, <4>1, <4>2, <4>3, <1>8
      <3> QED
        BY <3>1, <3>2, <3>3
    <2> QED
      BY <1>10, <2>2, <2>3 DEF ChainVerified
  <1> QED
    BY <1>3, <1>6, <1>8, <1>12, <1>13 DEF Sound, AppendLedger

LEMMA OneIsAppendable ==
  ASSUME NEW event, NEW about,
         event \in {"SIGNED", "REQUESTED"} => about \in Tokens,
         event = "SIGNED" => cosign[about] = "signed",
         event = "REQUESTED" => cosign[about] # "none"
  PROVE  Appendable(<<Of(event, about)>>) /\ Len(<<Of(event, about)>>) = 1
  BY DEF Appendable, Of

LEMMA StormsAreAppendable ==
  ASSUME NEW days, IsFiniteSet(days)
  PROVE  /\ \E S : Storms(days) \in Seq(S)
         /\ Len(Storms(days)) \in Nat
         /\ \A i \in DOMAIN Storms(days) : Storms(days)[i].event = "STORM"
         /\ Appendable(Storms(days))
  <1>1. Cardinality(days) \in Nat
    BY FS_CardinalityType
  <1>2. PICK s : s = Storms(days)
    OBVIOUS
  <1>3. DOMAIN s = 1 .. Cardinality(days) /\ \A i \in DOMAIN s : s[i].event = "STORM"
    BY <1>2 DEF Storms, Of
  <1>4. s \in [1 .. Cardinality(days) -> {s[i] : i \in DOMAIN s}]
    BY <1>2, <1>3 DEF Storms
  <1>5. s \in Seq({s[i] : i \in DOMAIN s}) /\ Len(s) = Cardinality(days)
    BY <1>1, <1>4
  <1> QED
    BY <1>1, <1>2, <1>3, <1>5 DEF Appendable

LEMMA IssueIsAppendable ==
  ASSUME NEW days, IsFiniteSet(days)
  PROVE  LET news == <<Of("BASELINE", Nobody)>> \o Storms(days) \o <<Of("AUDIT", Nobody)>>
         IN Appendable(news) /\ Len(news) \in Nat
  <1>1. PICK s : s = Storms(days)
    OBVIOUS
  <1>2. PICK S : s \in Seq(S)
    BY <1>1, StormsAreAppendable
  <1>3. \A i \in 1 .. Len(s) : s[i].event = "STORM"
    BY <1>1, <1>2, StormsAreAppendable
  <1> DEFINE first == Of("BASELINE", Nobody)
             last == Of("AUDIT", Nobody)
  <1>4. PICK R : R = S \cup {first, last}
    OBVIOUS
  <1>5. s \in Seq(R) /\ first \in R /\ last \in R /\ Len(s) \in Nat
    BY <1>2, <1>4
  <1>6. first.event = "BASELINE" /\ last.event = "AUDIT"
    BY DEF Of
  <1> HIDE DEF first, last
  <1>7. PICK news : news = <<first>> \o s \o <<last>>
    OBVIOUS
  <1>8. news \in Seq(R) /\ Len(news) = Len(s) + 2
    BY <1>5, <1>7
  <1>9. \A i \in 1 .. Len(news) : news[i].event \in {"BASELINE", "STORM", "AUDIT"}
    BY <1>3, <1>5, <1>6, <1>7, <1>8
  <1>10. DOMAIN news = 1 .. Len(news) /\ Len(news) \in Nat
    BY <1>5, <1>8
  <1> QED
    BY <1>1, <1>7, <1>9, <1>10 DEF Appendable, first, last

----------------------------------------------------------------------------
(* Legacy passport: its documents, tokens and callers *)

CallFields == {"step", "rec", "since", "found", "rec2", "token"}

DocumentFields == {"ledger", "scans", "checked"}

\* A request goes through these steps before its token is minted.
Minting == {"diff", "scans", "reread", "claim", "mint"}

DocumentsSound ==
    /\ \E S : passports \in Seq(S)
    /\ \A i \in DOMAIN passports : /\ DOMAIN passports[i] = DocumentFields
                                   /\ Sound(passports[i].ledger)

\* What a caller holds stays true while others write.
CallerKnows(h) ==
    /\ DOMAIN h = CallFields /\ Sound(h.rec) /\ Sound(h.rec2)
    /\ h.step \notin {"idle", "issue"} => passports # <<>>
    /\ h.step \in {"diff", "mint", "announce", "sign", "load", "endorse"} => h.token \in Tokens
    /\ h.step \in Minting => h.token \in Tokens \cup {Nobody}
    /\ h.step \in {"load", "endorse"} => cosign[h.token] = "signed"
    /\ h.step = "announce" => cosign[h.token] # "none"

\* A token that is to be minted is not minted yet, and is the caller's alone.
Reserved(c) == call[c].step \in Minting /\ call[c].token # Nobody

TokensAreOwned ==
    \A c \in Callers : Reserved(c) =>
        /\ cosign[call[c].token] = "none"
        /\ \A d \in Callers \ {c} : call[d].token # call[c].token

LegacyInv ==
    /\ DocumentsSound
    /\ cosign \in [Tokens -> {"none", "open", "signed"}]
    /\ passports = <<>> => \A t \in Tokens : cosign[t] = "none"
    /\ DOMAIN sky = {"today", "storms", "outages"} /\ IsFiniteSet(sky.storms)
    /\ stamp \in Nat
    /\ DOMAIN call = Callers /\ \A c \in Callers : CallerKnows(call[c])
    /\ TokensAreOwned

LEMMA IdleKnows ==
  /\ Idle.step = "idle" /\ Idle.token = Nobody /\ DOMAIN Idle = CallFields
  /\ Idle.rec = <<>> /\ Idle.rec2 = <<>> /\ CallerKnows(Idle)
  BY EmptyIsSound DEF Idle, CallerKnows, CallFields, Minting

LEMMA InitLegacy == LegacyInit => LegacyInv
  <1> SUFFICES ASSUME LegacyInit PROVE LegacyInv
    OBVIOUS
  <1>1. passports \in Seq({}) /\ DOMAIN passports = {}
    BY DEF LegacyInit
  <1>2. DOMAIN call = Callers /\ \A c \in Callers : call[c] = Idle
    BY DEF LegacyInit
  <1>3. TokensAreOwned
    BY <1>2, IdleKnows DEF TokensAreOwned, Reserved, Minting
  <1>4. IsFiniteSet(sky.storms) /\ DOMAIN sky = {"today", "storms", "outages"}
    BY FS_EmptySet DEF LegacyInit
  <1>5. \A c \in Callers : CallerKnows(call[c])
    BY <1>2, IdleKnows
  <1> QED
    BY <1>1, <1>2, <1>3, <1>4, <1>5 DEF LegacyInit, LegacyInv, DocumentsSound

\* The steps that write tokens, and the order they are written in.
LEMMA TokensAdvance ==
  ASSUME LegacyInv, [LegacyNext]_legacyVars
  PROVE  /\ cosign' \in [Tokens -> {"none", "open", "signed"}]
         /\ \A t \in Tokens : /\ cosign[t] = "signed" => cosign'[t] = "signed"
                              /\ cosign[t] # "none" => cosign'[t] # "none"
  <1>1. cosign \in [Tokens -> {"none", "open", "signed"}]
    BY DEF LegacyInv
  <1>2. ASSUME NEW c \in Callers, MintToken(c)
        PROVE  /\ call[c].token \in Tokens /\ cosign[call[c].token] = "none"
               /\ cosign' = [cosign EXCEPT ![call[c].token] = "open"]
    <2>1. call[c].step = "mint" /\ CallerKnows(call[c])
      BY <1>2 DEF MintToken, Hold, LegacyInv
    <2>2. call[c].token \in Tokens /\ Reserved(c)
      BY <2>1, LegacyAssumption DEF CallerKnows, Reserved, Minting
    <2> QED
      BY <1>2, <2>2 DEF MintToken, LegacyInv, TokensAreOwned
  <1>3. ASSUME NEW c \in Callers, SignToken(c)
        PROVE  /\ call[c].token \in Tokens
               /\ cosign' = [cosign EXCEPT ![call[c].token] = "signed"]
    BY <1>3 DEF SignToken, Hold, LegacyInv, CallerKnows
  <1>4. ASSUME LegacyNext, ~\E c \in Callers : MintToken(c) \/ SignToken(c)
        PROVE  cosign' = cosign
    BY <1>4 DEF LegacyNext, DayPasses, BeginIssue, SaveIssue, BeginAppend, SaveAppend, BeginSweep,
         SaveSweep, SaveCheckup, BeginSeed, SaveScans, ReadForClaim, SaveClaim, BeginRequest,
         ReuseToken, FindNoToken, Diff, SaveRequest, BeginSubmit, LoadForEndorsement,
         SaveEndorsement, Vanish, Start
  <1>5. CASE cosign' = cosign
    BY <1>1, <1>5
  <1>6. ASSUME NEW c \in Callers, MintToken(c) \/ SignToken(c)
        PROVE  /\ cosign' \in [Tokens -> {"none", "open", "signed"}]
               /\ \A t \in Tokens : /\ cosign[t] = "signed" => cosign'[t] = "signed"
                                    /\ cosign[t] # "none" => cosign'[t] # "none"
    BY <1>1, <1>2, <1>3, <1>6
  <1> QED
    BY <1>4, <1>5, <1>6 DEF legacyVars

\* Every entry that speaks of a token speaks of one there is.
LEMMA SoundStays ==
  ASSUME LegacyInv, [LegacyNext]_legacyVars, NEW ledger, Sound(ledger)
  PROVE  Sound(ledger)'
  <1>1. cosign \in [Tokens -> {"none", "open", "signed"}] /\ DOMAIN cosign' = Tokens
    BY TokensAdvance DEF LegacyInv
  <1> QED
    BY <1>1, TokensAdvance DEF Sound, AgreesWithTokens, ChainVerified

LEMMA ExceptIsSeq ==
  ASSUME NEW S, NEW s \in Seq(S), NEW x \in S, NEW i
  PROVE  [s EXCEPT ![i] = x] \in Seq(S)
  <1>1. s \in [1 .. Len(s) -> S] /\ Len(s) \in Nat
    OBVIOUS
  <1>2. PICK t : t = [s EXCEPT ![i] = x]
    OBVIOUS
  <1>3. t \in [1 .. Len(s) -> S]
    BY <1>1, <1>2
  <1>4. t \in Seq(S)
    BY <1>1, <1>3
  <1> QED
    BY <1>2, <1>4

\* The first document's ledger is replaced by a sound one.
LEMMA SaveIsSound ==
  ASSUME DocumentsSound, NEW ledger, Sound(ledger),
         \/ passports' = [passports EXCEPT ![1].ledger = ledger]
         \/ \E day : passports' = [passports EXCEPT ![1].ledger = ledger, ![1].checked = day]
  PROVE  /\ \E S : passports' \in Seq(S)
         /\ DOMAIN passports' = DOMAIN passports
         /\ \A i \in DOMAIN passports' :
               /\ DOMAIN passports'[i] = DocumentFields
               /\ passports'[i].ledger = ledger \/ Sound(passports'[i].ledger)
  <1>1. PICK S : passports \in Seq(S)
    BY DEF DocumentsSound
  <1>2. PICK first : passports' = [passports EXCEPT ![1] = first]
                       /\ (1 \in DOMAIN passports =>
                             DOMAIN first = DocumentFields /\ first.ledger = ledger)
    <2>1. CASE passports' = [passports EXCEPT ![1].ledger = ledger]
      <3>1. PICK first : first = [passports[1] EXCEPT !.ledger = ledger]
        OBVIOUS
      <3>2. 1 \in DOMAIN passports => DOMAIN first = DocumentFields /\ first.ledger = ledger
        BY <3>1 DEF DocumentsSound, DocumentFields
      <3> QED
        BY <2>1, <3>1, <3>2
    <2>2. ASSUME NEW day, passports' = [passports EXCEPT ![1].ledger = ledger, ![1].checked = day]
          PROVE  \E first : passports' = [passports EXCEPT ![1] = first]
                              /\ (1 \in DOMAIN passports =>
                                    DOMAIN first = DocumentFields /\ first.ledger = ledger)
      <3>1. PICK first : first = [passports[1] EXCEPT !.ledger = ledger, !.checked = day]
        OBVIOUS
      <3>2. 1 \in DOMAIN passports => DOMAIN first = DocumentFields /\ first.ledger = ledger
        BY <3>1 DEF DocumentsSound, DocumentFields
      <3>3. passports' = [passports EXCEPT ![1] = first]
        BY <2>2, <3>1
      <3> QED
        BY <3>2, <3>3
    <2> QED
      BY <2>1, <2>2
  <1>3. DOMAIN passports' = DOMAIN passports
    BY <1>2
  <1>4. passports' \in Seq(S \cup {first})
    <2>1. passports \in Seq(S \cup {first}) /\ first \in S \cup {first}
      BY <1>1
    <2> QED
      BY <1>2, <2>1, ExceptIsSeq
  <1>5. \A i \in DOMAIN passports' : passports'[i] = IF i = 1 THEN first ELSE passports[i]
    BY <1>2, <1>3
  <1> QED
    BY <1>2, <1>3, <1>4, <1>5 DEF DocumentsSound

\* A document's ledger is written by one save, over a ledger that is sound.
LEMMA DocumentsStep ==
  ASSUME LegacyInv, [LegacyNext]_legacyVars
  PROVE  /\ DocumentsSound'
         /\ stamp' \in Nat
         /\ passports # <<>> => passports' # <<>>
  <1> DEFINE Goal == /\ DocumentsSound' /\ stamp' \in Nat
                     /\ passports # <<>> => passports' # <<>>
  <1>1. DocumentsSound /\ stamp \in Nat
    BY DEF LegacyInv
  <1>2. ASSUME UNCHANGED passports, stamp' \in Nat PROVE Goal
    <2>1. ASSUME NEW i \in DOMAIN passports PROVE Sound(passports[i].ledger)'
      <3>1. PICK ledger : ledger = passports[i].ledger
        OBVIOUS
      <3>2. Sound(ledger)'
        BY <1>1, <3>1, SoundStays DEF DocumentsSound
      <3> QED
        BY <1>2, <3>1, <3>2
    <2> QED
      BY <1>1, <1>2, <2>1 DEF DocumentsSound
  <1>3. ASSUME NEW ledger, Sound(ledger), stamp' \in Nat,
               \/ passports' = [passports EXCEPT ![1].ledger = ledger]
               \/ \E day : passports' = [passports EXCEPT ![1].ledger = ledger, ![1].checked = day]
        PROVE  Goal
    <2>1. /\ \E S : passports' \in Seq(S)
          /\ DOMAIN passports' = DOMAIN passports
          /\ \A i \in DOMAIN passports' :
                /\ DOMAIN passports'[i] = DocumentFields
                /\ passports'[i].ledger = ledger \/ Sound(passports'[i].ledger)
      BY <1>1, <1>3, SaveIsSound
    <2>2. ASSUME NEW i \in DOMAIN passports' PROVE Sound(passports[i].ledger)'
      <3>1. PICK l : l = passports'[i].ledger
        OBVIOUS
      <3>2. Sound(l)
        BY <1>3, <2>1, <3>1
      <3>3. Sound(l)'
        BY <3>2, SoundStays
      <3> QED
        BY <3>1, <3>3
    <2>3. passports # <<>> => passports' # <<>>
      <3>1. PICK S, T : passports \in Seq(S) /\ passports' \in Seq(T)
        BY <1>1, <2>1 DEF DocumentsSound
      <3> QED
        BY <2>1, <3>1
    <2> QED
      BY <1>3, <2>1, <2>2, <2>3 DEF DocumentsSound
  <1>4. ASSUME NEW rec, Sound(rec), NEW news, Appendable(news), Len(news) \in Nat,
               SaveLedger(rec, news)
        PROVE  Goal
    <2>1. PICK ledger : ledger = AppendLedger(rec, news)
      OBVIOUS
    <2>2. Sound(ledger)
      BY <1>1, <1>4, <2>1, AppendIsSound
    <2>3. passports' = [passports EXCEPT ![1].ledger = ledger] /\ stamp' \in Nat
      BY <1>1, <1>4, <2>1 DEF SaveLedger
    <2> QED
      BY <1>3, <2>2, <2>3
  <1> HIDE DEF Goal
  <1>5. ASSUME NEW c \in Callers, NEW outage \in BOOLEAN, NEW day
        PROVE  IsFiniteSet(Archive(day, outage))
    <2>1. Archive(day, outage) \subseteq sky.storms
      BY DEF Archive
    <2> QED
      BY <2>1, FS_Subset DEF LegacyInv
  <1>6. ASSUME NEW c \in Callers, SaveIssue(c) PROVE Goal
    <2>1. PICK days : /\ IsFiniteSet(days)
                      /\ LET news == <<Of("BASELINE", Nobody)>> \o Storms(days)
                                       \o <<Of("AUDIT", Nobody)>>
                         IN /\ passports' = Append(passports,
                                              [ledger |-> AppendLedger(<<>>, news),
                                               scans |-> FALSE, checked |-> -LookBack])
                            /\ stamp' = stamp + Len(news)
      BY <1>5, <1>6 DEF SaveIssue
    <2>2. PICK news : news = <<Of("BASELINE", Nobody)>> \o Storms(days) \o <<Of("AUDIT", Nobody)>>
      OBVIOUS
    <2>3. Appendable(news) /\ Len(news) \in Nat
      BY <2>1, <2>2, IssueIsAppendable
    <2>4. PICK ledger : ledger = AppendLedger(<<>>, news)
      OBVIOUS
    <2>5. Sound(ledger)'
      BY <1>1, <2>3, <2>4, AppendIsSound, EmptyIsSound, SoundStays
    <2>6. PICK new : new = [ledger |-> ledger, scans |-> FALSE, checked |-> -LookBack]
      OBVIOUS
    <2>7. DOMAIN new = DocumentFields /\ new.ledger = ledger
      BY <2>6 DEF DocumentFields
    <2>8. passports' = Append(passports, new) /\ stamp' \in Nat
      BY <1>1, <2>1, <2>2, <2>3, <2>4, <2>6
    <2>9. PICK S : passports \in Seq(S)
      BY <1>1 DEF DocumentsSound
    <2>10. passports \in Seq(S \cup {new})
      BY <2>9
    <2>11. passports' \in Seq(S \cup {new}) /\ passports' # <<>>
      BY <2>8, <2>10
    <2>12. \A i \in DOMAIN passports' :
              passports'[i] = new \/ (i \in DOMAIN passports /\ passports'[i] = passports[i])
      BY <2>8, <2>10
    <2>13. ASSUME NEW i \in DOMAIN passports'
           PROVE  DOMAIN passports'[i] = DocumentFields /\ Sound(passports[i].ledger)'
      <3>1. CASE passports'[i] = new
        BY <2>5, <2>7, <3>1
      <3>2. CASE i \in DOMAIN passports /\ passports'[i] = passports[i]
        <4>1. PICK l : l = passports[i].ledger
          OBVIOUS
        <4>2. Sound(l)'
          BY <1>1, <3>2, <4>1, SoundStays DEF DocumentsSound
        <4> QED
          BY <1>1, <3>2, <4>1, <4>2 DEF DocumentsSound
      <3> QED
        BY <2>12, <3>1, <3>2
    <2> QED
      BY <2>8, <2>11, <2>13 DEF DocumentsSound, Goal
  <1>7. ASSUME NEW c \in Callers, SaveSweep(c) PROVE Goal
    <2>1. PICK outage \in BOOLEAN :
            LET new == NewStorms(call[c].rec, Archive(SweepStart(call[c].since), outage))
            IN /\ passports' = [passports EXCEPT ![1].ledger = AppendLedger(call[c].rec, Storms(new)),
                                                 ![1].checked = sky.today]
               /\ stamp' = stamp + Cardinality(new)
      BY <1>7 DEF SaveSweep
    <2>2. PICK new : new = NewStorms(call[c].rec, Archive(SweepStart(call[c].since), outage))
      OBVIOUS
    <2>3. IsFiniteSet(new)
      <3>1. new \subseteq Archive(SweepStart(call[c].since), outage)
        BY <2>2 DEF NewStorms
      <3> QED
        BY <1>5, <3>1, FS_Subset
    <2>4. Appendable(Storms(new)) /\ Cardinality(new) \in Nat
      BY <2>3, StormsAreAppendable, FS_CardinalityType
    <2>5. PICK ledger : ledger = AppendLedger(call[c].rec, Storms(new))
      OBVIOUS
    <2>6. Sound(ledger)
      BY <1>1, <2>4, <2>5, AppendIsSound DEF LegacyInv, CallerKnows
    <2>7. /\ passports' = [passports EXCEPT ![1].ledger = ledger, ![1].checked = sky.today]
          /\ stamp' \in Nat
      BY <1>1, <2>1, <2>2, <2>4, <2>5
    <2> QED
      BY <1>3, <2>6, <2>7
  <1>8. ASSUME NEW c \in Callers, SaveScans(c) PROVE Goal
    <2>1. PICK S : passports \in Seq(S)
      BY <1>1 DEF DocumentsSound
    <2>2. passports' = [passports EXCEPT ![1].scans = TRUE] /\ stamp' = stamp
      BY <1>8 DEF SaveScans
    <2>3. PICK first : first = [passports[1] EXCEPT !.scans = TRUE]
      OBVIOUS
    <2>4. 1 \in DOMAIN passports => DOMAIN first = DocumentFields
                                     /\ first.ledger = passports[1].ledger
      BY <1>1, <2>3 DEF DocumentsSound, DocumentFields
    <2>5. passports' = [passports EXCEPT ![1] = first]
      BY <2>2, <2>3
    <2>6. DOMAIN passports' = DOMAIN passports
          /\ \A i \in DOMAIN passports : passports'[i] = IF i = 1 THEN first ELSE passports[i]
      BY <2>5
    <2>7. passports' \in Seq(S \cup {first})
      <3>1. passports \in Seq(S \cup {first}) /\ first \in S \cup {first}
        BY <2>1
      <3> QED
        BY <2>5, <3>1, ExceptIsSeq
    <2>8. ASSUME NEW i \in DOMAIN passports'
          PROVE  DOMAIN passports'[i] = DocumentFields /\ Sound(passports[i].ledger)'
      <3>1. PICK l : l = passports[i].ledger
        OBVIOUS
      <3>2. Sound(l)'
        BY <1>1, <2>6, <3>1, SoundStays DEF DocumentsSound
      <3>3. passports'[i].ledger = l
        BY <2>4, <2>6, <3>1
      <3> QED
        BY <1>1, <2>4, <2>6, <3>2, <3>3 DEF DocumentsSound
    <2>9. passports # <<>> => passports' # <<>>
      BY <2>1, <2>6, <2>7
    <2> QED
      BY <1>1, <2>2, <2>7, <2>8, <2>9 DEF DocumentsSound, Goal
  <1>9. ASSUME NEW c \in Callers, SaveAppend(c) PROVE Goal
    <2>1. PICK event \in {"NOTE", "STORM"} : SaveLedger(call[c].rec, <<Of(event, Nobody)>>)
      BY <1>9 DEF SaveAppend
    <2>2. CallerKnows(call[c]) /\ call[c].step = "append"
      BY <1>9 DEF SaveAppend, Done, Hold, LegacyInv
    <2>3. Sound(call[c].rec)
      BY <2>2 DEF CallerKnows
    <2> QED
      BY <1>4, <2>1, <2>3, OneIsAppendable
  <1>10. ASSUME NEW c \in Callers, SaveClaim(c) PROVE Goal
    BY <1>4, <1>10, OneIsAppendable DEF SaveClaim, LegacyInv, CallerKnows
  <1>11. ASSUME NEW c \in Callers, SaveRequest(c) PROVE Goal
    <2>1. CallerKnows(call[c]) /\ call[c].step = "announce"
      BY <1>11 DEF SaveRequest, Done, Hold, LegacyInv
    <2>2. call[c].token \in Tokens /\ cosign[call[c].token] # "none" /\ Sound(call[c].rec)
      BY <2>1 DEF CallerKnows
    <2> QED
      BY <1>4, <1>11, <2>2, OneIsAppendable DEF SaveRequest
  <1>12. ASSUME NEW c \in Callers, SaveEndorsement(c) PROVE Goal
    <2>1. CallerKnows(call[c]) /\ call[c].step = "endorse"
      BY <1>12 DEF SaveEndorsement, Done, Hold, LegacyInv
    <2>2. call[c].token \in Tokens /\ cosign[call[c].token] = "signed" /\ Sound(call[c].rec)
      BY <2>1 DEF CallerKnows
    <2> QED
      BY <1>4, <1>12, <2>2, OneIsAppendable DEF SaveEndorsement
  <1>13. ASSUME LegacyNext,
                ~\E c \in Callers : \/ SaveIssue(c) \/ SaveAppend(c) \/ SaveSweep(c)
                                    \/ SaveScans(c) \/ SaveClaim(c) \/ SaveRequest(c)
                                    \/ SaveEndorsement(c)
         PROVE  UNCHANGED <<passports, stamp>>
    BY <1>13 DEF LegacyNext, DayPasses, BeginIssue, BeginAppend, BeginSweep, SaveCheckup,
         BeginSeed, ReadForClaim, BeginRequest, ReuseToken, FindNoToken, Diff, MintToken,
         BeginSubmit, SignToken, LoadForEndorsement, Vanish, Start
  <1>14. Goal
    BY <1>1, <1>2, <1>6, <1>7, <1>8, <1>9, <1>10, <1>11, <1>12, <1>13 DEF legacyVars
  <1> QED
    BY <1>14 DEF Goal

\* One caller takes a step; what it holds then is sound, and its token is one it had, one that
\* was handed to the carrier, or one that nobody has.
CallerBecomes(c, l) ==
    /\ CallerKnows(l)' /\ call' = [call EXCEPT ![c] = l]
    /\ \/ l.token = Nobody /\ cosign' = cosign
       \/ /\ l.token = call[c].token /\ cosign' = cosign
          /\ l.step \in Minting => call[c].step \in Minting
       \/ /\ l.token = call[c].token /\ l.token \in Tokens /\ l.step \notin Minting
          /\ \E v \in {"open", "signed"} : cosign' = [cosign EXCEPT ![l.token] = v]
       \/ cosign[l.token] # "none" /\ l.step \notin Minting /\ cosign' = cosign
       \/ cosign[l.token] = "none" /\ (\A d \in Callers : call[d].token # l.token) /\ cosign' = cosign

LEMMA CallerStep ==
  ASSUME LegacyInv, LegacyNext, NEW c \in Callers,
         \/ BeginIssue(c)   \/ SaveIssue(c)    \/ BeginAppend(c) \/ SaveAppend(c)
         \/ BeginSweep(c)   \/ SaveSweep(c)    \/ SaveCheckup(c)
         \/ BeginSeed(c)    \/ SaveScans(c)    \/ ReadForClaim(c) \/ SaveClaim(c)
         \/ BeginRequest(c) \/ ReuseToken(c)   \/ FindNoToken(c)  \/ Diff(c)
         \/ MintToken(c)    \/ SaveRequest(c)
         \/ BeginSubmit(c)  \/ SignToken(c)    \/ LoadForEndorsement(c) \/ SaveEndorsement(c)
         \/ Vanish(c)
  PROVE  \E l : CallerBecomes(c, l)
  <1> DEFINE Goes(l) == call' = [call EXCEPT ![c] = l]
  <1>1. PICK h : h = call[c]
    OBVIOUS
  <1>2. CallerKnows(h) /\ call[c] = h
    BY <1>1 DEF LegacyInv
  <1>3. /\ \A ledger : Sound(ledger) => Sound(ledger)'
        /\ passports # <<>> => passports' # <<>>
        /\ \A t \in Tokens : /\ cosign[t] = "signed" => cosign'[t] = "signed"
                             /\ cosign[t] # "none" => cosign'[t] # "none"
    BY SoundStays, DocumentsStep, TokensAdvance
  <1>4. CallerKnows(Idle)'
    BY <1>3, IdleKnows, EmptyIsSound DEF CallerKnows, Minting
  <1>5. ASSUME Goes(Idle), cosign' = cosign PROVE \E l : CallerBecomes(c, l)
    BY <1>4, <1>5, IdleKnows DEF CallerBecomes
  <1> HIDE DEF Goes
  <1>6. passports # <<>> => Sound(passports[1].ledger)
    <2>1. PICK S : passports \in Seq(S)
      BY DEF LegacyInv, DocumentsSound
    <2>2. passports # <<>> => 1 \in DOMAIN passports
      BY <2>1
    <2> QED
      BY <2>2 DEF LegacyInv, DocumentsSound
  \* A call that begins, with a ledger it has read.
  <1>7. ASSUME NEW step \in {"issue", "append", "sweep", "scans", "request"}, NEW l,
               step # "issue" => passports # <<>>, cosign' = cosign,
               DOMAIN l = CallFields, l.step = step, l.token = Nobody, l.rec2 = <<>>,
               l.rec = <<>> \/ Sound(l.rec), Goes(l)
        PROVE  \E k : CallerBecomes(c, k)
    <2>1. CallerKnows(l)'
      BY <1>3, <1>7, EmptyIsSound DEF CallerKnows, Minting
    <2> QED
      BY <1>7, <2>1 DEF CallerBecomes, Goes
  <1>8. CASE BeginIssue(c)
    <2>1. PICK l : l = [Idle EXCEPT !.step = "issue"]
      OBVIOUS
    <2>2. DOMAIN l = CallFields /\ l.step = "issue" /\ l.token = Nobody /\ l.rec2 = <<>> /\ l.rec = <<>>
      BY <2>1, IdleKnows DEF CallFields
    <2> QED
      BY <1>7, <1>8, <2>1, <2>2 DEF BeginIssue, Start, Goes
  <1>9. CASE BeginAppend(c) \/ BeginRequest(c)
    <2>a. PICK step \in {"append", "request"} :
            Goes([Idle EXCEPT !.step = step, !.rec = passports[1].ledger])
      BY <1>9 DEF BeginAppend, BeginRequest, Start, Goes
    <2>1. PICK l : l = [Idle EXCEPT !.step = step, !.rec = passports[1].ledger] /\ Goes(l)
      BY <2>a
    <2>2. /\ DOMAIN l = CallFields /\ l.step = step /\ l.token = Nobody /\ l.rec2 = <<>>
          /\ l.rec = passports[1].ledger
      BY <2>1, IdleKnows DEF CallFields
    <2>3. passports # <<>> /\ cosign' = cosign
      BY <1>9 DEF BeginAppend, BeginRequest, Start
    <2> QED
      BY <1>6, <1>7, <2>1, <2>2, <2>3
  <1>10. CASE BeginSweep(c)
    <2>a. PICK i \in DOMAIN passports :
            Goes([Idle EXCEPT !.step = "sweep", !.rec = passports[i].ledger,
                              !.since = passports[i].checked])
      BY <1>10 DEF BeginSweep, Start, Goes
    <2>1. PICK l : l = [Idle EXCEPT !.step = "sweep", !.rec = passports[i].ledger,
                                    !.since = passports[i].checked] /\ Goes(l)
      BY <2>a
    <2>2. /\ DOMAIN l = CallFields /\ l.step = "sweep" /\ l.token = Nobody /\ l.rec2 = <<>>
          /\ l.rec = passports[i].ledger
      BY <2>1, IdleKnows DEF CallFields
    <2>3. passports # <<>> /\ cosign' = cosign /\ Sound(passports[i].ledger)
      <3>1. passports # <<>>
        BY <2>a
      <3> QED
        BY <1>10, <3>1, <2>1 DEF BeginSweep, Start, LegacyInv, DocumentsSound
    <2> QED
      BY <1>7, <2>1, <2>2, <2>3
  <1>11. CASE BeginSeed(c)
    <2>1. PICK l : l = [Idle EXCEPT !.step = "scans"] /\ Goes(l)
      BY <1>11 DEF BeginSeed, Start, Goes
    <2>2. DOMAIN l = CallFields /\ l.step = "scans" /\ l.token = Nobody /\ l.rec2 = <<>> /\ l.rec = <<>>
      BY <2>1, IdleKnows DEF CallFields
    <2>3. passports # <<>> /\ cosign' = cosign
      BY <1>11 DEF BeginSeed, Start
    <2> QED
      BY <1>7, <2>1, <2>2, <2>3
  <1>12. CASE SaveIssue(c) \/ SaveAppend(c) \/ SaveCheckup(c) \/ ReuseToken(c) \/ SaveRequest(c)
              \/ SaveEndorsement(c) \/ Vanish(c)
    BY <1>5, <1>12 DEF SaveIssue, SaveAppend, SaveCheckup, ReuseToken, SaveRequest,
         SaveEndorsement, Vanish, Done, Hold, Goes
  <1>13. CASE SaveSweep(c)
    <2>1. PICK new : call' = [call EXCEPT ![c] = IF new = {} THEN Idle
                                ELSE [Idle EXCEPT !.step = "checkup", !.found = new]]
      BY <1>13 DEF SaveSweep
    <2>2. cosign' = cosign /\ h.step = "sweep"
      BY <1>2, <1>13 DEF SaveSweep
    <2>3. PICK l : l = [Idle EXCEPT !.step = "checkup", !.found = new]
      OBVIOUS
    <2>4. /\ DOMAIN l = CallFields /\ l.step = "checkup" /\ l.token = Nobody /\ l.rec2 = <<>>
          /\ l.rec = <<>>
      BY <2>3, IdleKnows DEF CallFields
    <2>5. CallerKnows(l)'
      BY <1>2, <1>3, <2>2, <2>4, EmptyIsSound DEF CallerKnows, Minting
    <2>6. Goes(l) => CallerBecomes(c, l)
      BY <2>2, <2>4, <2>5 DEF CallerBecomes, Goes
    <2> QED
      BY <1>5, <2>1, <2>2, <2>3, <2>6 DEF Goes
  \* A call that goes on with what it has, and perhaps what it reads.
  <1>14. ASSUME NEW l, Goes(l), cosign' = cosign, h.step \notin {"idle", "issue"},
                DOMAIN l = CallFields, l.token = h.token,
                Sound(l.rec), Sound(l.rec2),
                \/ h.step \in Minting /\ l.step \in {"scans", "reread", "claim"}
                \/ h.step \in Minting /\ l.step = "mint" /\ h.token \in Tokens
                \/ h.step = "load" /\ l.step = "endorse"
         PROVE  \E k : CallerBecomes(c, k)
    <2>1. CallerKnows(l)'
      BY <1>2, <1>3, <1>14 DEF CallerKnows, Minting
    <2> QED
      BY <1>2, <1>14, <2>1 DEF CallerBecomes, Goes, Minting
  <1>15. CASE SaveScans(c)
    <2>1. PICK l : l = [h EXCEPT !.step = "reread"] /\ Goes(l)
      BY <1>2, <1>15 DEF SaveScans, Hold, Goes
    <2>2. /\ DOMAIN l = CallFields /\ l.step = "reread" /\ l.token = h.token
          /\ l.rec = h.rec /\ l.rec2 = h.rec2
      BY <1>2, <2>1 DEF CallerKnows, CallFields
    <2>3. h.step = "scans" /\ cosign' = cosign
      BY <1>2, <1>15 DEF SaveScans, Hold
    <2> QED
      BY <1>2, <1>14, <2>1, <2>2, <2>3 DEF CallerKnows, Minting
  <1>16. CASE ReadForClaim(c)
    <2>1. PICK l : l = [h EXCEPT !.step = "claim", !.rec2 = passports[1].ledger] /\ Goes(l)
      BY <1>2, <1>16 DEF ReadForClaim, Hold, Goes
    <2>2. /\ DOMAIN l = CallFields /\ l.step = "claim" /\ l.token = h.token
          /\ l.rec = h.rec /\ l.rec2 = passports[1].ledger
      BY <1>2, <2>1 DEF CallerKnows, CallFields
    <2>3. h.step = "reread" /\ cosign' = cosign
      BY <1>2, <1>16 DEF ReadForClaim, Hold
    <2> QED
      BY <1>2, <1>6, <1>14, <2>1, <2>2, <2>3 DEF CallerKnows, Minting
  <1>17. CASE SaveClaim(c)
    <2>1. h.step = "claim" /\ cosign' = cosign
      BY <1>2, <1>17 DEF SaveClaim, Hold
    <2>2. CASE h.token = Nobody
      BY <1>2, <1>5, <1>17, <2>1, <2>2 DEF SaveClaim, Hold, Goes
    <2>3. CASE h.token # Nobody
      <3>1. PICK l : l = [h EXCEPT !.step = "mint", !.rec2 = <<>>] /\ Goes(l)
        BY <1>2, <1>17, <2>3 DEF SaveClaim, Hold, Goes
      <3>2. /\ DOMAIN l = CallFields /\ l.step = "mint" /\ l.token = h.token
            /\ l.rec = h.rec /\ l.rec2 = <<>>
        BY <1>2, <3>1 DEF CallerKnows, CallFields
      <3>3. h.token \in Tokens
        BY <1>2, <2>1, <2>3 DEF CallerKnows, Minting
      <3> QED
        BY <1>2, <1>14, <2>1, <3>1, <3>2, <3>3, EmptyIsSound DEF CallerKnows, Minting
    <2> QED
      BY <2>2, <2>3
  <1>18. CASE Diff(c)
    <2>a. PICK step \in {"mint", "scans"} : Goes([h EXCEPT !.step = step])
      BY <1>2, <1>18 DEF Diff, Hold, Goes
    <2>1. PICK l : l = [h EXCEPT !.step = step] /\ Goes(l)
      BY <2>a
    <2>2. /\ DOMAIN l = CallFields /\ l.step = step /\ l.token = h.token
          /\ l.rec = h.rec /\ l.rec2 = h.rec2
      BY <1>2, <2>1 DEF CallerKnows, CallFields
    <2>3. h.step = "diff" /\ cosign' = cosign
      BY <1>2, <1>18 DEF Diff, Hold
    <2>4. h.token \in Tokens
      BY <1>2, <2>3 DEF CallerKnows
    <2> QED
      BY <1>2, <1>14, <2>1, <2>2, <2>3, <2>4 DEF CallerKnows, Minting
  <1>19. CASE LoadForEndorsement(c)
    <2>1. PICK l : l = [h EXCEPT !.step = "endorse", !.rec = passports[1].ledger] /\ Goes(l)
      BY <1>2, <1>19 DEF LoadForEndorsement, Hold, Goes
    <2>2. /\ DOMAIN l = CallFields /\ l.step = "endorse" /\ l.token = h.token
          /\ l.rec = passports[1].ledger /\ l.rec2 = h.rec2
      BY <1>2, <2>1 DEF CallerKnows, CallFields
    <2>3. h.step = "load" /\ cosign' = cosign
      BY <1>2, <1>19 DEF LoadForEndorsement, Hold
    <2> QED
      BY <1>2, <1>6, <1>14, <2>1, <2>2, <2>3 DEF CallerKnows
  \* Tokens
  <1>20. CASE FindNoToken(c)
    <2>a. PICK t \in Tokens :
            /\ cosign[t] = "none" /\ \A d \in Callers : call[d].token # t
            /\ Goes([h EXCEPT !.step = "diff", !.token = t])
      BY <1>2, <1>20 DEF FindNoToken, Hold, Goes
    <2>1. PICK l : l = [h EXCEPT !.step = "diff", !.token = t] /\ Goes(l)
      BY <2>a
    <2>2. /\ DOMAIN l = CallFields /\ l.step = "diff" /\ l.token = t
          /\ l.rec = h.rec /\ l.rec2 = h.rec2
      BY <1>2, <2>1 DEF CallerKnows, CallFields
    <2>3. h.step = "request" /\ cosign' = cosign
      BY <1>2, <1>20 DEF FindNoToken, Hold
    <2>4. CallerKnows(l)'
      BY <1>2, <1>3, <2>1, <2>2, <2>3 DEF CallerKnows, Minting
    <2>5. cosign[l.token] = "none" /\ \A d \in Callers : call[d].token # l.token
      BY <2>a, <2>2
    <2> QED
      BY <2>1, <2>3, <2>4, <2>5 DEF CallerBecomes, Goes
  <1>21. CASE BeginSubmit(c)
    <2>a. PICK t \in Tokens : /\ cosign[t] = "open" /\ cosign' = cosign
                              /\ Goes([Idle EXCEPT !.step = "sign", !.token = t])
      BY <1>21 DEF BeginSubmit, Start, Goes
    <2>1. PICK l : l = [Idle EXCEPT !.step = "sign", !.token = t] /\ Goes(l)
      BY <2>a
    <2>2. /\ DOMAIN l = CallFields /\ l.step = "sign" /\ l.token = t
          /\ l.rec = <<>> /\ l.rec2 = <<>>
      BY <2>1, IdleKnows DEF CallFields
    <2>3. passports # <<>>
      BY <2>a DEF LegacyInv
    <2>4. CallerKnows(l)'
      BY <1>3, <2>a, <2>2, <2>3, EmptyIsSound DEF CallerKnows, Minting
    <2> QED
      BY <2>a, <2>1, <2>2, <2>4 DEF CallerBecomes, Goes, Minting
  <1>22. CASE MintToken(c) \/ SignToken(c)
    <2>a. PICK step \in {"announce", "load"}, v \in {"open", "signed"} :
            /\ Goes([h EXCEPT !.step = step])
            /\ cosign' = [cosign EXCEPT ![h.token] = v] /\ h.step \in {"mint", "sign"}
            /\ step = "load" => v = "signed"
      <3>1. CASE MintToken(c)
        BY <1>2, <3>1 DEF MintToken, Hold, Goes
      <3>2. CASE SignToken(c)
        BY <1>2, <3>2 DEF SignToken, Hold, Goes
      <3> QED
        BY <1>22, <3>1, <3>2
    <2>1. PICK l : l = [h EXCEPT !.step = step] /\ Goes(l)
      BY <2>a
    <2>2. /\ DOMAIN l = CallFields /\ l.step = step /\ l.token = h.token
          /\ l.rec = h.rec /\ l.rec2 = h.rec2
      BY <1>2, <2>1 DEF CallerKnows, CallFields
    <2>3. h.token \in Tokens
      BY <1>2, <2>a DEF CallerKnows
    <2>4. cosign'[h.token] = v
      BY <2>a, <2>3 DEF LegacyInv
    <2>5. CallerKnows(l)'
      BY <1>2, <1>3, <2>a, <2>2, <2>3, <2>4 DEF CallerKnows, Minting
    <2>6. l.step \notin Minting /\ l.token = call[c].token /\ l.token \in Tokens
      BY <1>2, <2>1, <2>2, <2>3 DEF Minting
    <2>7. \E w \in {"open", "signed"} : cosign' = [cosign EXCEPT ![l.token] = w]
      BY <2>a, <2>2
    <2>8. call' = [call EXCEPT ![c] = l]
      BY <2>1 DEF Goes
    <2> QED
      BY <2>5, <2>6, <2>7, <2>8 DEF CallerBecomes
  <1> QED
    BY <1>8, <1>9, <1>10, <1>11, <1>12, <1>13, <1>15, <1>16, <1>17, <1>18, <1>19, <1>20, <1>21, <1>22

LEMMA LegacyStep ==
  ASSUME LegacyInv, [LegacyNext]_legacyVars
  PROVE  LegacyInv'
  <1>1. \/ UNCHANGED <<call, cosign>>
        \/ \E c \in Callers : \E l : CallerBecomes(c, l)
    BY CallerStep DEF LegacyNext, DayPasses, legacyVars
  <1>2. /\ \A ledger : Sound(ledger) => Sound(ledger)'
        /\ passports # <<>> => passports' # <<>>
        /\ \A t \in Tokens : /\ cosign[t] = "signed" => cosign'[t] = "signed"
                             /\ cosign[t] # "none" => cosign'[t] # "none"
    BY SoundStays, DocumentsStep, TokensAdvance
  <1>3. ASSUME NEW h, CallerKnows(h) PROVE CallerKnows(h)'
    BY <1>2, <1>3 DEF CallerKnows, Minting
  <1>4. DOMAIN call' = Callers /\ \A c \in Callers : CallerKnows(call[c])'
    <2>1. DOMAIN call' = Callers
      BY <1>1 DEF CallerBecomes, LegacyInv
    <2>2. ASSUME NEW c \in Callers PROVE CallerKnows(call[c])'
      <3>1. PICK h : h = call'[c]
        OBVIOUS
      <3>2. CallerKnows(h) \/ CallerKnows(h)'
        BY <1>1, <3>1 DEF CallerBecomes, LegacyInv
      <3>3. CallerKnows(h)'
        BY <1>3, <3>2
      <3> QED
        BY <3>1, <3>3
    <2> QED
      BY <2>1, <2>2
  <1>5. TokensAreOwned'
    <2>1. CASE UNCHANGED <<call, cosign>>
      BY <2>1 DEF LegacyInv, TokensAreOwned, Reserved
    <2>2. ASSUME NEW c \in Callers, NEW l, CallerBecomes(c, l) PROVE TokensAreOwned'
      <3>1. /\ call'[c] = l /\ \A d \in Callers \ {c} : call'[d] = call[d]
            /\ cosign \in [Tokens -> {"none", "open", "signed"}] /\ TokensAreOwned
            /\ \A d \in Callers : CallerKnows(call[d])
        BY <2>2 DEF CallerBecomes, LegacyInv
      <3>2. ASSUME NEW d \in Callers, call'[d].step \in Minting, call'[d].token # Nobody
            PROVE  /\ cosign'[call'[d].token] = "none"
                   /\ \A e \in Callers \ {d} : call'[e].token # call'[d].token
        <4>1. CASE d # c
          <5>1. /\ call'[d] = call[d] /\ cosign[call[d].token] = "none"
                /\ call[d].token \in Tokens
                /\ \A e \in Callers \ {d} : call[e].token # call[d].token
            BY <3>1, <3>2, <4>1 DEF TokensAreOwned, Reserved, CallerKnows
          <5>2. l.token # call[d].token
            BY <2>2, <3>2, <4>1, <5>1 DEF CallerBecomes
          <5>3. cosign'[call[d].token] = cosign[call[d].token]
            BY <2>2, <3>1, <5>1, <5>2 DEF CallerBecomes
          <5> QED
            BY <3>1, <5>1, <5>2, <5>3
        <4>2. CASE d = c
          <5>1. CASE l.token = call[c].token /\ call[c].step \in Minting /\ cosign' = cosign
            BY <3>1, <3>2, <4>2, <5>1 DEF TokensAreOwned, Reserved
          <5>2. CASE /\ cosign[l.token] = "none" /\ cosign' = cosign
                     /\ \A e \in Callers : call[e].token # l.token
            BY <3>1, <4>2, <5>2
          <5> QED
            BY <2>2, <3>1, <3>2, <4>2, <5>1, <5>2 DEF CallerBecomes
        <4> QED
          BY <4>1, <4>2
      <3> QED
        BY <3>2 DEF TokensAreOwned, Reserved
    <2> QED
      BY <1>1, <2>1, <2>2
  <1>6. passports' = <<>> => \A t \in Tokens : cosign'[t] = "none"
    <2>1. ASSUME NEW c \in Callers, NEW l, CallerBecomes(c, l), cosign' # cosign
          PROVE  passports # <<>>
      <3>1. PICK v \in {"open", "signed"} : cosign' = [cosign EXCEPT ![l.token] = v]
        BY <2>1 DEF CallerBecomes
      <3>2. MintToken(c) \/ SignToken(c) \/ \E d \in Callers : MintToken(d) \/ SignToken(d)
        BY <2>1 DEF LegacyNext, legacyVars, DayPasses, BeginIssue, SaveIssue, BeginAppend,
             SaveAppend, BeginSweep, SaveSweep, SaveCheckup, BeginSeed, SaveScans, ReadForClaim,
             SaveClaim, BeginRequest, ReuseToken, FindNoToken, Diff, SaveRequest, BeginSubmit,
             LoadForEndorsement, SaveEndorsement, Vanish, Start
      <3> QED
        BY <3>2 DEF MintToken, SignToken, Hold, LegacyInv, CallerKnows
    <2> QED
      BY <1>1, <1>2, <2>1 DEF LegacyInv
  <1>7. DOMAIN sky' = {"today", "storms", "outages"} /\ IsFiniteSet(sky'.storms)
    <2>1. DOMAIN sky = {"today", "storms", "outages"} /\ IsFiniteSet(sky.storms)
      BY DEF LegacyInv
    <2>2. CASE DayPasses
      <3>1. PICK storm \in BOOLEAN :
              sky' = [sky EXCEPT !.today = @ + 1,
                                 !.storms = IF storm THEN @ \cup {sky.today} ELSE @]
        BY <2>2 DEF DayPasses
      <3>2. /\ DOMAIN sky' = {"today", "storms", "outages"}
            /\ sky'.storms = sky.storms \/ sky'.storms = sky.storms \cup {sky.today}
        BY <2>1, <3>1
      <3> QED
        BY <2>1, <3>2, FS_AddElement
    <2>3. ASSUME NEW outage \in BOOLEAN, Reached(outage)
          PROVE  DOMAIN sky' = {"today", "storms", "outages"} /\ sky'.storms = sky.storms
      BY <2>1, <2>3 DEF Reached
    <2>4. ASSUME LegacyNext, ~DayPasses, ~\E outage \in BOOLEAN : Reached(outage)
          PROVE  sky' = sky
      BY <2>4 DEF LegacyNext, BeginIssue, SaveIssue, BeginAppend, SaveAppend, BeginSweep,
           SaveSweep, SaveCheckup, BeginSeed, SaveScans, ReadForClaim, SaveClaim, BeginRequest,
           ReuseToken, FindNoToken, Diff, MintToken, SaveRequest, BeginSubmit, SignToken,
           LoadForEndorsement, SaveEndorsement, Vanish, Start, Done, Hold
    <2> QED
      BY <2>1, <2>2, <2>3, <2>4 DEF legacyVars
  <1> QED
    BY <1>4, <1>5, <1>6, <1>7, DocumentsStep, TokensAdvance DEF LegacyInv

\* The verification of a ledger never finds its chain broken, although writers overlap and
\* overwrite each other (append_event, seed_demo_scans, request_cosign, submit_cosign,
\* storm_watcher_sweep).
THEOREM LegacyChainAlwaysVerifies == LegacySpec => []LegacyChainVerifies
  <1>1. LegacyInv => LegacyChainVerifies
    BY DEF LegacyInv, DocumentsSound, Sound, LegacyChainVerifies, Ledgers
  <1> QED
    BY InitLegacy, LegacyStep, <1>1, PTL DEF LegacySpec

\* A signature on a ledger is one of a signed token, and a request one of a minted token,
\* wherever a submission breaks off (submit_cosign, request_cosign).
THEOREM EndorsedAlwaysSigned == LegacySpec => []EndorsedAreSigned
  <1>1. LegacyInv => EndorsedAreSigned
    BY DEF LegacyInv, DocumentsSound, Sound, AgreesWithTokens, EndorsedAreSigned, Ledgers
  <1> QED
    BY InitLegacy, LegacyStep, <1>1, PTL DEF LegacySpec

----------------------------------------------------------------------------
(* Field flight *)

FieldSteps == {"idle", "clear", "seed", "retire", "form", "link", "second", "launch", "sign",
               "invoice", "count", "strike"}

FieldCall == [step : FieldSteps, kind : Kinds \cup {"none"}, read : Nat]

\* Between the breach that is recorded and its strike.
Striking == {t \in Tablets : tablet[t].step \in {"count", "strike"}}

FieldTypes ==
    /\ tablet \in [Tablets -> FieldCall]
    /\ \A t \in Tablets : tablet[t].step \in {"retire", "form"} => tablet[t].kind \in Kinds
    /\ site \in [Kinds -> [made : Nat, active : SUBSET Nat]]
    /\ strikes \in [count : Nat, restricted : BOOLEAN, breaches : Nat]

\* Every strike under way has a breach of its own, beside those that are counted already or
\* that it has read.
StrikesAreOwned ==
    /\ IsFiniteSet(Striking)
    /\ strikes.count + Cardinality(Striking) <= strikes.breaches
    /\ \A t \in Tablets : tablet[t].step = "strike" =>
          tablet[t].read + Cardinality(Striking) <= strikes.breaches
    /\ strikes.restricted => strikes.breaches >= 2

FieldInv == FieldTypes /\ PerimeterStands /\ StrikesAreOwned

LEMMA InitField == FieldInit => FieldInv
  <1> SUFFICES ASSUME FieldInit PROVE FieldInv
    OBVIOUS
  <1>1. FieldTypes /\ PerimeterStands
    BY DEF FieldInit, FieldTypes, PerimeterStands, FieldCall, FieldSteps, Rest, Kinds
  <1>2. Striking = {}
    BY DEF FieldInit, Striking, Rest
  <1> QED
    BY <1>1, <1>2, FS_EmptySet DEF FieldInit, FieldInv, StrikesAreOwned, Rest

\* A step that neither replaces a perimeter or loop nor has to do with a strike.
Quietly(t, l) ==
    /\ tablet[t].step \notin {"form", "count", "strike"}
    /\ l \in FieldCall /\ l.step \notin {"form", "count", "strike"}
    /\ l.step = "retire" => l.kind \in Kinds
    /\ tablet' = [tablet EXCEPT ![t] = l]
    /\ UNCHANGED <<site, strikes, brokenOff>>

LEMMA RestIsCall == Rest \in FieldCall /\ Rest.step = "idle"
  BY DEF Rest, FieldCall, FieldSteps

LEMMA QuietSteps ==
  ASSUME FieldTypes, FieldNext
  PROVE  \/ UNCHANGED <<site, strikes, brokenOff, tablet>>
         \/ \E t \in Tablets : \/ \E l \in FieldCall : Quietly(t, l)
                               \/ RetireActive(t) \/ FormActive(t)
                               \/ RecordBreach(t) /\ ~paid
                               \/ ReadStrikes(t) \/ Strike(t) \/ BreakOff(t)
  <1> USE RestIsCall
  <1>1. CASE TurnWeather \/ PayInvoice
    BY <1>1 DEF TurnWeather, PayInvoice
  <1>2. ASSUME NEW t \in Tablets,
               \/ OpenCalendar(t) \/ ClearCalendar(t) \/ SeedCalendar(t)
               \/ BeginCheckNode(t) \/ LinkNode(t) \/ DeployNode(t)
               \/ FailPreflight(t) \/ LaunchUnit(t) \/ SignAuthorization(t)
               \/ \E target \in DOMAIN FlightPhase : SetPhase(t, target)
               \/ Heartbeat(t) \/ BeginBreach(t) \/ (RecordBreach(t) /\ paid)
        PROVE  \E l \in FieldCall : Quietly(t, l)
    <2>1. ASSUME NEW step \in FieldSteps PROVE [Rest EXCEPT !.step = step] \in FieldCall
      BY DEF Rest, FieldCall
    <2>2. CASE OpenCalendar(t)
      BY <2>1, <2>2 DEF OpenCalendar, Enter, Quietly, FieldSteps, Rest
    <2>3. CASE ClearCalendar(t)
      BY <2>1, <2>3 DEF ClearCalendar, Reaches, GoOn, Quietly, FieldSteps, Rest
    <2>4. CASE BeginCheckNode(t)
      BY <2>1, <2>4 DEF BeginCheckNode, Enter, Quietly, FieldSteps, Rest
    <2>5. CASE BeginBreach(t)
      BY <2>1, <2>5 DEF BeginBreach, Enter, Quietly, FieldSteps, Rest
    <2>6. CASE SeedCalendar(t) \/ LinkNode(t) \/ FailPreflight(t) \/ LaunchUnit(t)
               \/ SignAuthorization(t) \/ (RecordBreach(t) /\ paid)
      BY <2>6 DEF SeedCalendar, LinkNode, FailPreflight, LaunchUnit, SignAuthorization,
           RecordBreach, Reaches, Finish, GoOn, Quietly
    <2>7. CASE DeployNode(t) \/ Heartbeat(t) \/ \E target \in DOMAIN FlightPhase : SetPhase(t, target)
      BY <2>7 DEF DeployNode, Heartbeat, SetPhase, Enter, Quietly
    <2> QED
      BY <1>2, <2>2, <2>3, <2>4, <2>5, <2>6, <2>7
  <1>3. ASSUME NEW t \in Tablets, NEW k \in Kinds, BeginForm(t, k)
        PROVE  \E l \in FieldCall : Quietly(t, l)
    <2>1. PICK l : l = [Rest EXCEPT !.step = "retire", !.kind = k]
      OBVIOUS
    <2>2. l \in FieldCall /\ l.step = "retire" /\ l.kind = k
      BY <2>1 DEF FieldCall, FieldSteps, Rest
    <2> QED
      BY <1>3, <2>1, <2>2 DEF BeginForm, Enter, Quietly
  <1>4. ASSUME NEW t \in Tablets, NEW k \in Kinds, BeginPreflight(t, k)
        PROVE  \E l \in FieldCall : Quietly(t, l)
    <2>1. ASSUME NEW id \in site[k].active
          PROVE  [step |-> "second", kind |-> k, read |-> id] \in FieldCall
      BY DEF FieldCall, FieldSteps, FieldTypes
    <2> QED
      BY <1>4, <2>1 DEF BeginPreflight, Enter, Quietly
  <1>5. ASSUME NEW t \in Tablets, PassPreflight(t)
        PROVE  \E l \in FieldCall : Quietly(t, l)
    <2>1. tablet[t].read \in Nat
      BY DEF FieldTypes, FieldCall
    <2>2. /\ [Rest EXCEPT !.step = "launch"] \in FieldCall
          /\ [step |-> "sign", kind |-> "zone", read |-> tablet[t].read] \in FieldCall
      BY <2>1 DEF FieldCall, FieldSteps, Rest, Kinds
    <2> QED
      BY <1>5, <2>2 DEF PassPreflight, Reaches, GoOn, Quietly, Rest
  <1> QED
    BY <1>1, <1>2, <1>3, <1>4, <1>5 DEF FieldNext

LEMMA FieldTypesStep ==
  ASSUME FieldTypes, [FieldNext]_fieldVars
  PROVE  FieldTypes'
  <1>1. CASE UNCHANGED <<site, strikes, brokenOff, tablet>>
    BY <1>1 DEF FieldTypes
  <1>2. ASSUME NEW t \in Tablets, NEW l \in FieldCall, Quietly(t, l) PROVE FieldTypes'
    BY <1>2 DEF FieldTypes, Quietly
  <1>3. ASSUME NEW t \in Tablets, RetireActive(t) PROVE FieldTypes'
    <2>1. PICK l : l = [tablet[t] EXCEPT !.step = "form"]
      OBVIOUS
    <2>2. tablet[t] \in FieldCall /\ tablet[t].step = "retire" /\ tablet[t].kind \in Kinds
      BY <1>3 DEF FieldTypes, RetireActive, Reaches
    <2>3. l \in FieldCall /\ l.kind \in Kinds
      BY <2>1, <2>2 DEF FieldCall, FieldSteps
    <2>4. site' \in [Kinds -> [made : Nat, active : SUBSET Nat]]
      <3>1. [site[tablet[t].kind] EXCEPT !.active = {}] \in [made : Nat, active : SUBSET Nat]
        BY <2>2 DEF FieldTypes
      <3>2. site' = [site EXCEPT ![tablet[t].kind] = [site[tablet[t].kind] EXCEPT !.active = {}]]
        BY <1>3 DEF RetireActive
      <3> QED
        BY <3>1, <3>2 DEF FieldTypes
    <2>5. tablet' = [tablet EXCEPT ![t] = l] /\ UNCHANGED strikes
      BY <1>3, <2>1 DEF RetireActive, GoOn
    <2> QED
      BY <2>3, <2>4, <2>5 DEF FieldTypes
  <1>4. ASSUME NEW t \in Tablets, FormActive(t) PROVE FieldTypes'
    <2>1. PICK k : k = tablet[t].kind
      OBVIOUS
    <2>2. k \in Kinds /\ site[k].made \in Nat /\ site[k].active \in SUBSET Nat
      BY <1>4, <2>1 DEF FieldTypes, FormActive, Reaches
    <2>3. site' = [site EXCEPT ![k] = [made |-> site[k].made + 1,
                                       active |-> site[k].active \cup {site[k].made + 1}]]
      BY <1>4, <2>1 DEF FormActive
    <2>4. site' \in [Kinds -> [made : Nat, active : SUBSET Nat]]
      BY <2>2, <2>3 DEF FieldTypes
    <2> QED
      BY <1>4, <2>4, RestIsCall DEF FieldTypes, FormActive, Finish, GoOn
  <1>5. ASSUME NEW t \in Tablets, RecordBreach(t), ~paid PROVE FieldTypes'
    <2>1. [Rest EXCEPT !.step = "count"] \in FieldCall
      BY DEF FieldCall, FieldSteps, Rest
    <2> QED
      BY <1>5, <2>1 DEF FieldTypes, RecordBreach, GoOn, Rest
  <1>6. ASSUME NEW t \in Tablets, ReadStrikes(t) PROVE FieldTypes'
    <2>1. strikes.count \in Nat
      BY DEF FieldTypes
    <2>2. [Rest EXCEPT !.step = "strike", !.read = strikes.count] \in FieldCall
      BY <2>1 DEF FieldCall, FieldSteps, Rest
    <2> QED
      BY <1>6, <2>2 DEF FieldTypes, ReadStrikes, GoOn, Rest
  <1>7. ASSUME NEW t \in Tablets, Strike(t) PROVE FieldTypes'
    <2>1. tablet[t].read + 1 \in Nat
      BY DEF FieldTypes, FieldCall
    <2>2. strikes' \in [count : Nat, restricted : BOOLEAN, breaches : Nat]
      <3>1. PICK count : count = tablet[t].read + 1
        OBVIOUS
      <3>2. count \in Nat /\ Restricts(count) \in BOOLEAN
        BY <2>1, <3>1 DEF Restricts
      <3>3. strikes' = [strikes EXCEPT !.count = count, !.restricted = Restricts(count)]
        BY <1>7, <3>1 DEF Strike
      <3> QED
        BY <3>2, <3>3 DEF FieldTypes
    <2> QED
      BY <1>7, <2>2, RestIsCall DEF FieldTypes, Strike, Finish, GoOn
  <1>8. ASSUME NEW t \in Tablets, BreakOff(t) PROVE FieldTypes'
    BY <1>8, RestIsCall DEF FieldTypes, BreakOff, Finish, GoOn
  <1>9. CASE UNCHANGED fieldVars
    BY <1>1, <1>9 DEF fieldVars
  <1> QED
    BY <1>1, <1>2, <1>3, <1>4, <1>5, <1>6, <1>7, <1>8, <1>9, QuietSteps

LEMMA PerimeterStep ==
  ASSUME FieldTypes, PerimeterStands, [FieldNext]_fieldVars
  PROVE  PerimeterStands'
  <1>1. CASE UNCHANGED <<site, strikes, brokenOff, tablet>>
    BY <1>1 DEF PerimeterStands
  <1>2. ASSUME NEW t \in Tablets, UNCHANGED site, brokenOff \subseteq brokenOff',
               \A r \in Tablets \ {t} : tablet'[r] = tablet[r],
               tablet[t].step = "form" => tablet[t].kind \in brokenOff'
        PROVE  PerimeterStands'
    BY <1>2 DEF PerimeterStands
  <1>3. ASSUME NEW t \in Tablets, NEW l \in FieldCall, Quietly(t, l) PROVE PerimeterStands'
    BY <1>2, <1>3 DEF Quietly, FieldTypes
  <1>4. ASSUME NEW t \in Tablets, RetireActive(t) PROVE PerimeterStands'
    <2>1. tablet[t] \in FieldCall /\ tablet[t].kind \in Kinds /\ tablet[t].step = "retire"
      BY <1>4 DEF FieldTypes, RetireActive, Reaches
    <2>2. tablet'[t].step = "form" /\ tablet'[t].kind = tablet[t].kind
      BY <1>4, <2>1 DEF RetireActive, GoOn, FieldTypes, FieldCall
    <2>3. \A k \in Kinds \ {tablet[t].kind} : site'[k] = site[k]
      BY <1>4 DEF RetireActive, FieldTypes
    <2>4. \A r \in Tablets \ {t} : tablet'[r] = tablet[r]
      BY <1>4 DEF RetireActive, GoOn, FieldTypes
    <2> QED
      BY <1>4, <2>1, <2>2, <2>3, <2>4 DEF RetireActive, PerimeterStands
  <1>5. ASSUME NEW t \in Tablets, FormActive(t) PROVE PerimeterStands'
    <2>1. PICK k : k = tablet[t].kind
      OBVIOUS
    <2>2. k \in Kinds /\ k \in DOMAIN site
      BY <1>5, <2>1 DEF FieldTypes, FormActive, Reaches
    <2>3. site'[k].active # {} /\ \A j \in Kinds \ {k} : site'[j] = site[j]
      BY <1>5, <2>1, <2>2 DEF FormActive
    <2>4. \A r \in Tablets \ {t} : tablet'[r] = tablet[r]
      BY <1>5 DEF FormActive, Finish, GoOn, FieldTypes
    <2> QED
      BY <1>5, <2>1, <2>3, <2>4 DEF FormActive, PerimeterStands
  <1>6. ASSUME NEW t \in Tablets, RecordBreach(t) \/ ReadStrikes(t) \/ Strike(t)
        PROVE  PerimeterStands'
    BY <1>2, <1>6 DEF RecordBreach, ReadStrikes, Strike, Reaches, Finish, GoOn, FieldTypes
  <1>7. ASSUME NEW t \in Tablets, BreakOff(t) PROVE PerimeterStands'
    BY <1>2, <1>7 DEF BreakOff, Finish, GoOn, FieldTypes
  <1>8. CASE UNCHANGED fieldVars
    BY <1>1, <1>8 DEF fieldVars
  <1> QED
    BY <1>1, <1>3, <1>4, <1>5, <1>6, <1>7, <1>8, QuietSteps

LEMMA StrikesStep ==
  ASSUME FieldTypes, StrikesAreOwned, [FieldNext]_fieldVars
  PROVE  StrikesAreOwned'
  <1> DEFINE P == Cardinality(Striking)
  <1>1. P \in Nat /\ strikes.count \in Nat /\ strikes.breaches \in Nat /\ IsFiniteSet(Striking)
    BY FS_CardinalityType DEF StrikesAreOwned, FieldTypes
  <1>2. \A t \in Tablets : tablet[t].read \in Nat
    BY DEF FieldTypes, FieldCall
  <1>3. ASSUME Striking' = Striking, strikes' = strikes,
               \A t \in Tablets : tablet'[t].step = "strike" =>
                  tablet'[t].read + P <= strikes.breaches
        PROVE  StrikesAreOwned'
    BY <1>3 DEF StrikesAreOwned
  <1>4. CASE UNCHANGED <<site, strikes, brokenOff, tablet>>
    BY <1>3, <1>4 DEF StrikesAreOwned, Striking
  <1>5. ASSUME NEW t \in Tablets, NEW l \in FieldCall, Quietly(t, l) PROVE StrikesAreOwned'
    <2>1. Striking' = Striking
      BY <1>5 DEF Quietly, Striking, FieldTypes
    <2> QED
      BY <1>3, <1>5, <2>1 DEF StrikesAreOwned, Quietly, FieldTypes
  <1>6. ASSUME NEW t \in Tablets, RetireActive(t) \/ FormActive(t) PROVE StrikesAreOwned'
    <2>1. PICK l : tablet' = [tablet EXCEPT ![t] = l] /\ l.step \in {"form", "idle"}
      <3>1. CASE RetireActive(t)
        <4>1. [tablet[t] EXCEPT !.step = "form"].step = "form"
          BY DEF FieldTypes, FieldCall
        <4> QED
          BY <3>1, <4>1 DEF RetireActive, GoOn
      <3>2. CASE FormActive(t)
        BY <3>2, RestIsCall DEF FormActive, Finish, GoOn
      <3> QED
        BY <1>6, <3>1, <3>2
    <2>2. tablet[t].step \in {"retire", "form"} /\ strikes' = strikes
      BY <1>6 DEF RetireActive, FormActive, Reaches
    <2>3. Striking' = Striking
      BY <2>1, <2>2 DEF Striking, FieldTypes
    <2> QED
      BY <1>3, <2>1, <2>2, <2>3 DEF StrikesAreOwned, FieldTypes
  <1>7. ASSUME NEW t \in Tablets, RecordBreach(t), ~paid PROVE StrikesAreOwned'
    <2>1. tablet' = [tablet EXCEPT ![t] = [Rest EXCEPT !.step = "count"]]
      BY <1>7 DEF RecordBreach, GoOn
    <2>2. Striking' = Striking \cup {t} /\ t \notin Striking
      BY <1>7, <2>1 DEF RecordBreach, Reaches, Striking, FieldTypes, Rest
    <2>3. IsFiniteSet(Striking') /\ Cardinality(Striking') = P + 1
      BY <1>1, <2>2, FS_AddElement
    <2>4. strikes' = [strikes EXCEPT !.breaches = @ + 1]
      BY <1>7 DEF RecordBreach
    <2>5. /\ strikes'.count = strikes.count /\ strikes'.restricted = strikes.restricted
          /\ strikes'.breaches = strikes.breaches + 1
      BY <2>4 DEF FieldTypes
    <2>6. \A r \in Tablets : tablet'[r].step = "strike" => tablet'[r] = tablet[r]
      BY <2>1 DEF FieldTypes, Rest
    <2> QED
      BY <1>1, <1>2, <2>3, <2>5, <2>6 DEF StrikesAreOwned
  <1>8. ASSUME NEW t \in Tablets, ReadStrikes(t) PROVE StrikesAreOwned'
    <2>1. tablet' = [tablet EXCEPT ![t] = [Rest EXCEPT !.step = "strike", !.read = strikes.count]]
      BY <1>8 DEF ReadStrikes, GoOn
    <2>2. Striking' = Striking
      BY <1>8, <2>1 DEF ReadStrikes, Reaches, Striking, FieldTypes, Rest
    <2>3. \A r \in Tablets : tablet'[r] = tablet[r] \/ tablet'[r].read = strikes.count
      BY <2>1 DEF FieldTypes, Rest
    <2> QED
      BY <1>3, <1>8, <2>2, <2>3 DEF ReadStrikes, StrikesAreOwned
  <1>9. ASSUME NEW t \in Tablets, tablet' = [tablet EXCEPT ![t] = Rest]
        PROVE  /\ Striking' = Striking \ {t}
               /\ IsFiniteSet(Striking')
               /\ Cardinality(Striking') = IF t \in Striking THEN P - 1 ELSE P
               /\ \A r \in Tablets : tablet'[r].step = "strike" => tablet'[r] = tablet[r]
    <2>1. Striking' = Striking \ {t}
      BY <1>9 DEF Striking, FieldTypes, Rest
    <2>2. \A r \in Tablets : tablet'[r].step = "strike" => tablet'[r] = tablet[r]
      BY <1>9 DEF FieldTypes, Rest
    <2> QED
      BY <1>1, <2>1, <2>2, FS_RemoveElement
  <1>10. ASSUME NEW t \in Tablets, Strike(t) PROVE StrikesAreOwned'
    <2>1. tablet' = [tablet EXCEPT ![t] = Rest] /\ tablet[t].step = "strike" /\ t \in Striking
      BY <1>10 DEF Strike, Reaches, Finish, GoOn, Striking
    <2>2. /\ strikes'.count = tablet[t].read + 1 /\ strikes'.breaches = strikes.breaches
          /\ strikes'.restricted => tablet[t].read + 1 >= 2
      BY <1>10 DEF Strike, FieldTypes, Restricts
    <2>3. tablet[t].read + P <= strikes.breaches
      BY <2>1 DEF StrikesAreOwned
    <2>4. IsFiniteSet(Striking') /\ Cardinality(Striking') = P - 1 /\ P - 1 \in Nat
      BY <1>9, <2>1, FS_CardinalityType
    <2>5. \A r \in Tablets : tablet'[r].step = "strike" => tablet'[r] = tablet[r]
      BY <1>9, <2>1
    <2>6. strikes'.count + Cardinality(Striking') <= strikes'.breaches
      BY <1>1, <1>2, <2>2, <2>3, <2>4
    <2>7. strikes'.restricted => strikes'.breaches >= 2
      BY <1>1, <1>2, <2>2, <2>3, <2>4
    <2> QED
      BY <1>1, <1>2, <2>2, <2>4, <2>5, <2>6, <2>7 DEF StrikesAreOwned
  <1>11. ASSUME NEW t \in Tablets, BreakOff(t) PROVE StrikesAreOwned'
    <2>1. tablet' = [tablet EXCEPT ![t] = Rest] /\ strikes' = strikes
      BY <1>11 DEF BreakOff, Finish, GoOn
    <2>2. IsFiniteSet(Striking') /\ Cardinality(Striking') \in Int /\ Cardinality(Striking') <= P
      <3>1. /\ IsFiniteSet(Striking')
            /\ Cardinality(Striking') = IF t \in Striking THEN P - 1 ELSE P
        BY <1>9, <2>1
      <3> HIDE DEF P
      <3> QED
        BY <1>1, <3>1
    <2>3. \A r \in Tablets : tablet'[r].step = "strike" => tablet'[r] = tablet[r]
      BY <1>9, <2>1
    <2> QED
      BY <1>1, <1>2, <2>1, <2>2, <2>3 DEF StrikesAreOwned
  <1>12. CASE UNCHANGED fieldVars
    BY <1>4, <1>12 DEF fieldVars
  <1> QED
    BY <1>4, <1>5, <1>6, <1>7, <1>8, <1>10, <1>11, <1>12, QuietSteps

LEMMA FieldStep == FieldInv /\ [FieldNext]_fieldVars => FieldInv'
  BY FieldTypesStep, PerimeterStep, StrikesStep DEF FieldInv

\* A perimeter or loop that was formed is missing only while a call is between its two
\* writes, or since one died there and until the next is formed (init_zone_for_job,
\* post_gutter_node_link).
THEOREM PerimeterAlwaysStands == FieldSpec => []PerimeterStands
  <1>1. FieldInv => PerimeterStands
    BY DEF FieldInv
  <1> QED
    BY InitField, FieldStep, <1>1, PTL DEF FieldSpec

\* No contractor is restricted before the second recorded breach, and none is said to have
\* more strikes than breaches, however the strikes overlap (increment_strike).
THEOREM RestrictedAlwaysWarned == FieldSpec => []RestrictedWasWarned
  <1>1. FieldInv => RestrictedWasWarned
    <2> SUFFICES ASSUME FieldInv PROVE RestrictedWasWarned
      OBVIOUS
    <2>1. /\ strikes.count \in Nat /\ strikes.breaches \in Nat
          /\ Cardinality(Striking) \in Nat
          /\ strikes.count + Cardinality(Striking) <= strikes.breaches
      BY FS_CardinalityType DEF FieldInv, FieldTypes, StrikesAreOwned
    <2> QED
      BY <2>1 DEF FieldInv, StrikesAreOwned, RestrictedWasWarned
  <1> QED
    BY InitField, FieldStep, <1>1, PTL DEF FieldSpec

----------------------------------------------------------------------------
(* Billing *)

PaySteps == {"idle", "record", "compare", "pay", "expire", "activate"}

PayCall == [step : PaySteps, of : CheckoutSessions \cup {"none"},
            status : {"none", "open", "paid", "expired"}]

\* What a request knows of its session: nobody else records it, and what the service said of
\* a session that is paid or expired stays so.
KnowsSession(l) ==
    /\ l.step # "idle" => l.of \in CheckoutSessions
    /\ l.step = "record" => service[l.of] = "open" /\ transaction[l.of] = "none"
    /\ l.step = "compare" /\ l.status \in {"paid", "expired"} => service[l.of] = l.status
    /\ l.step \in {"pay", "activate"} => service[l.of] = "paid"
    /\ l.step = "expire" => service[l.of] = "expired"

BillingTypes ==
    /\ service \in [CheckoutSessions -> {"none", "open", "orphan", "paid", "expired"}]
    /\ transaction \in [CheckoutSessions -> {"none", "initiated", "paid", "expired"}]
    /\ payer \in [Payers -> PayCall]

\* A row is written of a session that was returned, by the one request that created it.
RowsAreOwned ==
    /\ \A s \in CheckoutSessions : service[s] \in {"none", "orphan"} => transaction[s] = "none"
    /\ \A p \in Payers : KnowsSession(payer[p])
    /\ \A p, q \in Payers : payer[p].step = "record" /\ payer[q].step = "record"
                              /\ payer[p].of = payer[q].of => p = q

BillingInv == BillingTypes /\ RowsAreOwned /\ BillingAgrees

LEMMA InitBilling == BillingInit => BillingInv
  BY DEF BillingInit, BillingInv, BillingTypes, RowsAreOwned, BillingAgrees, KnowsSession, NoPayer,
         PayCall, PaySteps

\* Only the request at its turn changes, and it becomes l.
PayerBecomes(p, l) == l \in PayCall /\ payer' = [payer EXCEPT ![p] = l]

LEMMA NoPayerKnows == NoPayer \in PayCall /\ NoPayer.step = "idle"
  BY DEF NoPayer, PayCall, PaySteps

\* What the steps of a request have in common: it leaves its step, and keeps its session.
LEMMA PayerTurns ==
  ASSUME BillingInv, NEW p \in Payers
  PROVE  /\ \A step \in PaySteps : Turn(p, step) =>
               \E l \in PayCall : /\ PayerBecomes(p, l) /\ l.step = step
                                  /\ l.of = payer[p].of /\ l.status = payer[p].status
         /\ payer' = [payer EXCEPT ![p] = NoPayer] => PayerBecomes(p, NoPayer)
  <1>1. payer[p] \in PayCall
    BY DEF BillingInv, BillingTypes
  <1>2. ASSUME NEW step \in PaySteps, Turn(p, step)
        PROVE  \E l \in PayCall : /\ PayerBecomes(p, l) /\ l.step = step
                                  /\ l.of = payer[p].of /\ l.status = payer[p].status
    <2>1. PICK l : l = [payer[p] EXCEPT !.step = step]
      OBVIOUS
    <2>2. l \in PayCall /\ l.step = step /\ l.of = payer[p].of /\ l.status = payer[p].status
      BY <1>1, <2>1 DEF PayCall
    <2> QED
      BY <1>2, <2>1, <2>2 DEF Turn, PayerBecomes
  <1> QED
    BY <1>2, NoPayerKnows DEF PayerBecomes

LEMMA BillingStep ==
  ASSUME BillingInv, [BillingNext]_billingVars
  PROVE  BillingInv'
  <1> USE NoPayerKnows
  <1>1. BillingTypes /\ RowsAreOwned /\ BillingAgrees
    BY DEF BillingInv
  <1>2. CASE UNCHANGED billingVars
    BY <1>2 DEF billingVars, BillingInv, BillingTypes, RowsAreOwned, BillingAgrees, KnowsSession
  <1>3. ASSUME NEW p \in Payers, NEW l \in PayCall, PayerBecomes(p, l)
        PROVE  /\ payer' \in [Payers -> PayCall] /\ payer'[p] = l
               /\ \A q \in Payers \ {p} : payer'[q] = payer[q]
    BY <1>3 DEF PayerBecomes, BillingInv, BillingTypes
  <1>4. ASSUME NEW s \in CheckoutSessions, Settle(s) PROVE BillingInv'
    <2>1. PICK end \in {"paid", "expired"} : service' = [service EXCEPT ![s] = end]
      BY <1>4 DEF Settle
    <2>2. service[s] = "open" /\ transaction[s] # "none" /\ UNCHANGED <<transaction, payer>>
      BY <1>4 DEF Settle
    <2>3. BillingTypes'
      BY <1>1, <2>1, <2>2 DEF BillingTypes
    <2>4. RowsAreOwned'
      BY <1>1, <2>1, <2>2 DEF BillingTypes, RowsAreOwned, KnowsSession
    <2>5. BillingAgrees'
      BY <1>1, <1>4, <2>1, <2>2 DEF Settle, BillingTypes, BillingAgrees
    <2> QED
      BY <2>3, <2>4, <2>5 DEF BillingInv
  <1>5. ASSUME NEW p \in Payers, NEW s \in CheckoutSessions, CreateSession(p, s)
        PROVE  BillingInv'
    <2>1. service[s] = "none" /\ transaction[s] = "none" /\ payer[p] = NoPayer
      BY <1>1, <1>5 DEF CreateSession, RowsAreOwned
    <2>2. CASE /\ service' = [service EXCEPT ![s] = "open"]
               /\ payer' = [payer EXCEPT ![p] = [step |-> "record", of |-> s, status |-> "open"]]
      <3>1. PICK l : l = [step |-> "record", of |-> s, status |-> "open"]
        OBVIOUS
      <3>2. PayerBecomes(p, l)
        BY <2>2, <3>1 DEF PayerBecomes, PayCall, PaySteps
      <3>3. \A q \in Payers \ {p} : payer[q].step = "record" => payer[q].of # s
        BY <1>1, <2>1 DEF RowsAreOwned, KnowsSession
      <3>4. /\ payer' \in [Payers -> PayCall] /\ payer'[p] = l
            /\ \A q \in Payers \ {p} : payer'[q] = payer[q]
        BY <1>3, <3>2 DEF PayerBecomes
      <3>5. UNCHANGED <<transaction, subscription, lapsed>>
        BY <1>5 DEF CreateSession
      <3>6. BillingTypes'
        BY <1>1, <2>2, <3>4, <3>5 DEF BillingTypes
      <3>7. RowsAreOwned'
        BY <1>1, <2>1, <2>2, <3>1, <3>3, <3>4, <3>5 DEF BillingTypes, RowsAreOwned, KnowsSession
      <3>8. BillingAgrees'
        BY <1>1, <2>1, <2>2, <3>4, <3>5 DEF BillingTypes, BillingAgrees
      <3> QED
        BY <3>6, <3>7, <3>8 DEF BillingInv
    <2>3. CASE service' = [service EXCEPT ![s] = "orphan"] /\ UNCHANGED payer
      <3>1. UNCHANGED <<transaction, subscription, lapsed>>
        BY <1>5 DEF CreateSession
      <3>2. BillingTypes'
        BY <1>1, <2>3, <3>1 DEF BillingTypes
      <3>3. RowsAreOwned'
        BY <1>1, <2>1, <2>3, <3>1 DEF BillingTypes, RowsAreOwned, KnowsSession
      <3>4. BillingAgrees'
        BY <1>1, <2>1, <2>3, <3>1 DEF BillingTypes, BillingAgrees
      <3> QED
        BY <3>2, <3>3, <3>4 DEF BillingInv
    <2> QED
      BY <1>5, <2>2, <2>3 DEF CreateSession
  <1>6. ASSUME NEW p \in Payers, NEW l \in PayCall, PayerBecomes(p, l), UNCHANGED service,
               \A s \in CheckoutSessions : transaction'[s] = transaction[s]
                                             \/ (s = payer[p].of /\ payer[p].step # "idle"),
               transaction' \in [CheckoutSessions -> {"none", "initiated", "paid", "expired"}],
               KnowsSession(l)', l.step # "record",
               \A s \in CheckoutSessions : transaction'[s] # transaction[s] =>
                  /\ service[s] \in {"open", "paid", "expired"}
                  /\ \A q \in Payers \ {p} : payer[q].step = "record" => payer[q].of # s
        PROVE  BillingTypes' /\ RowsAreOwned'
    <2>1. /\ payer' \in [Payers -> PayCall] /\ payer'[p] = l
          /\ \A q \in Payers \ {p} : payer'[q] = payer[q]
      BY <1>3, <1>6
    <2>2. \A q \in Payers \ {p} : KnowsSession(payer[q])'
      <3>1. ASSUME NEW q \in Payers \ {p} PROVE KnowsSession(payer[q])'
        BY <1>1, <1>6, <2>1 DEF RowsAreOwned, KnowsSession
      <3> QED
        BY <3>1
    <2>3. \A q \in Payers : KnowsSession(payer[q])'
      <3>1. KnowsSession(payer[p])'
        BY <1>6, <2>1 DEF KnowsSession
      <3> QED
        BY <2>2, <3>1
    <2>4. \A q, r \in Payers : payer'[q].step = "record" /\ payer'[r].step = "record"
                                 /\ payer'[q].of = payer'[r].of => q = r
      BY <1>1, <1>6, <2>1 DEF RowsAreOwned
    <2> QED
      BY <1>1, <1>6, <2>1, <2>3, <2>4 DEF BillingTypes, RowsAreOwned
  <1>7. ASSUME NEW p \in Payers, NEW s \in CheckoutSessions, Poll(p, s) PROVE BillingInv'
    <2>1. PICK l : l = [step |-> "compare", of |-> s, status |-> service[s]]
      OBVIOUS
    <2>2. PayerBecomes(p, l) /\ UNCHANGED <<service, transaction, subscription, lapsed>>
      BY <1>7, <2>1 DEF Poll, PayerBecomes, PayCall, PaySteps
    <2>3. KnowsSession(l)'
      BY <2>1, <2>2 DEF KnowsSession
    <2>4. BillingTypes' /\ RowsAreOwned'
      BY <1>1, <1>6, <2>1, <2>2, <2>3 DEF PayerBecomes, BillingTypes
    <2>5. BillingAgrees'
      BY <1>1, <1>3, <1>7, <2>2 DEF Poll, PayerBecomes, BillingAgrees
    <2> QED
      BY <2>4, <2>5 DEF BillingInv
  <1>8. ASSUME NEW p \in Payers, RecordTransaction(p) PROVE BillingInv'
    <2>1. PICK s : s = payer[p].of
      OBVIOUS
    <2>2. /\ s \in CheckoutSessions /\ service[s] = "open"
          /\ \A q \in Payers \ {p} : payer[q].step = "record" => payer[q].of # s
      BY <1>1, <1>8, <2>1 DEF RecordTransaction, RowsAreOwned, KnowsSession
    <2>3. /\ PayerBecomes(p, NoPayer) /\ UNCHANGED <<service, subscription, lapsed>>
          /\ transaction' = [transaction EXCEPT ![s] = "initiated"]
      BY <1>8, <2>1 DEF RecordTransaction, PayerBecomes
    <2>4. BillingTypes' /\ RowsAreOwned'
      BY <1>1, <1>6, <1>8, <2>1, <2>2, <2>3 DEF RecordTransaction, BillingTypes, KnowsSession
    <2>5. BillingAgrees'
      BY <1>1, <1>3, <1>8, <2>2, <2>3 DEF RecordTransaction, BillingTypes, BillingAgrees
    <2> QED
      BY <2>4, <2>5 DEF BillingInv
  <1>9. ASSUME NEW p \in Payers, Compare(p) PROVE BillingInv'
    <2>1. /\ payer[p].of \in CheckoutSessions
          /\ payer[p].status \in {"paid", "expired"} => service[payer[p].of] = payer[p].status
          /\ UNCHANGED <<service, transaction, subscription, lapsed>>
      BY <1>1, <1>9 DEF Compare, RowsAreOwned, KnowsSession
    <2>2. PICK l \in PayCall : PayerBecomes(p, l) /\ KnowsSession(l)' /\ l.step # "record"
      <3>1. CASE Turn(p, "pay") /\ payer[p].status = "paid"
        <4>1. PICK l \in PayCall : /\ PayerBecomes(p, l) /\ l.step = "pay"
                                   /\ l.of = payer[p].of
          BY <3>1, PayerTurns DEF PaySteps
        <4> QED
          BY <2>1, <3>1, <4>1 DEF KnowsSession
      <3>2. CASE Turn(p, "expire") /\ payer[p].status = "expired"
        <4>1. PICK l \in PayCall : /\ PayerBecomes(p, l) /\ l.step = "expire"
                                   /\ l.of = payer[p].of
          BY <3>2, PayerTurns DEF PaySteps
        <4> QED
          BY <2>1, <3>2, <4>1 DEF KnowsSession
      <3>3. CASE payer' = [payer EXCEPT ![p] = NoPayer]
        BY <3>3, PayerTurns DEF KnowsSession
      <3> QED
        BY <1>9, <3>1, <3>2, <3>3 DEF Compare, Activates
    <2>3. BillingTypes' /\ RowsAreOwned'
      BY <1>1, <1>6, <2>1, <2>2 DEF BillingTypes
    <2>4. BillingAgrees'
      BY <1>1, <1>3, <1>9, <2>1, <2>2 DEF Compare, BillingAgrees
    <2> QED
      BY <2>3, <2>4 DEF BillingInv
  <1>10. ASSUME NEW p \in Payers, MarkPaid(p) PROVE BillingInv'
    <2>1. PICK s : s = payer[p].of
      OBVIOUS
    <2>2. s \in CheckoutSessions /\ service[s] = "paid"
      BY <1>1, <1>10, <2>1 DEF MarkPaid, RowsAreOwned, KnowsSession
    <2>3. /\ transaction' = [transaction EXCEPT ![s] = "paid"]
          /\ UNCHANGED <<service, subscription, lapsed>>
      BY <1>10, <2>1 DEF MarkPaid
    <2>4. PICK l \in PayCall : PayerBecomes(p, l) /\ l.step = "activate" /\ l.of = s
      BY <1>10, <2>1, PayerTurns DEF MarkPaid, PaySteps
    <2>5. KnowsSession(l)'
      BY <2>2, <2>3, <2>4 DEF KnowsSession
    <2>6. \A q \in Payers \ {p} : payer[q].step = "record" => payer[q].of # s
      BY <1>1, <2>2 DEF RowsAreOwned, KnowsSession
    <2>7. BillingTypes' /\ RowsAreOwned'
      BY <1>1, <1>6, <1>10, <2>1, <2>2, <2>3, <2>4, <2>5, <2>6 DEF MarkPaid, BillingTypes
    <2>8. BillingAgrees'
      BY <1>1, <1>3, <1>10, <2>2, <2>3, <2>4 DEF MarkPaid, BillingTypes, BillingAgrees
    <2> QED
      BY <2>7, <2>8 DEF BillingInv
  <1>11. ASSUME NEW p \in Payers, MarkExpired(p) PROVE BillingInv'
    <2>1. PICK s : s = payer[p].of
      OBVIOUS
    <2>2. s \in CheckoutSessions /\ service[s] = "expired"
      BY <1>1, <1>11, <2>1 DEF MarkExpired, RowsAreOwned, KnowsSession
    <2>3. /\ transaction' = [transaction EXCEPT ![s] = "expired"]
          /\ UNCHANGED <<service, subscription, lapsed>> /\ PayerBecomes(p, NoPayer)
      BY <1>11, <2>1 DEF MarkExpired, PayerBecomes
    <2>4. \A q \in Payers \ {p} : payer[q].step = "record" => payer[q].of # s
      BY <1>1, <2>2 DEF RowsAreOwned, KnowsSession
    <2>5. KnowsSession(NoPayer)'
      BY DEF KnowsSession
    <2>6. BillingTypes' /\ RowsAreOwned'
      BY <1>1, <1>6, <1>11, <2>1, <2>2, <2>3, <2>4, <2>5 DEF MarkExpired, BillingTypes
    <2>7. BillingAgrees'
      BY <1>1, <1>3, <1>11, <2>2, <2>3 DEF MarkExpired, BillingTypes, BillingAgrees
    <2> QED
      BY <2>6, <2>7 DEF BillingInv
  <1>12. ASSUME NEW p \in Payers, ActivateSubscription(p) \/ Lapse(p) PROVE BillingInv'
    <2>1. PayerBecomes(p, NoPayer) /\ UNCHANGED <<service, transaction>>
      BY <1>12 DEF ActivateSubscription, Lapse, PayerBecomes
    <2>2. KnowsSession(NoPayer)'
      BY DEF KnowsSession
    <2>3. BillingTypes' /\ RowsAreOwned'
      BY <1>1, <1>6, <2>1, <2>2 DEF BillingTypes
    <2>4. CASE ActivateSubscription(p)
      <3>1. payer[p].of \in CheckoutSessions /\ service[payer[p].of] = "paid"
        BY <1>1, <2>4 DEF ActivateSubscription, RowsAreOwned, KnowsSession
      <3>2. BillingAgrees'
        BY <1>1, <2>1, <2>4, <3>1 DEF ActivateSubscription, BillingAgrees
      <3> QED
        BY <2>3, <3>2 DEF BillingInv
    <2>5. CASE Lapse(p)
      <3>1. BillingAgrees'
        BY <1>1, <1>3, <2>1, <2>5 DEF Lapse, BillingAgrees
      <3> QED
        BY <2>3, <3>1 DEF BillingInv
    <2> QED
      BY <1>12, <2>4, <2>5
  <1> QED
    BY <1>2, <1>4, <1>5, <1>7, <1>8, <1>9, <1>10, <1>11, <1>12 DEF BillingNext, Webhook

\* Whoever has a subscription paid, no row contradicts the payment service, and a payment on
\* record activates unless a request dies between its two writes (billing_checkout,
\* billing_status, stripe_webhook).
THEOREM BillingAlwaysAgrees == BillingSpec => []BillingAgrees
  <1>1. BillingInv => BillingAgrees
    BY DEF BillingInv
  <1> QED
    BY InitBilling, BillingStep, <1>1, PTL DEF BillingSpec

----------------------------------------------------------------------------
(* The weather gates: sums and maxima of a forecast are numbers. *)

\* MapThenSumSet, with the terms as a function.
LEMMA HoursAreSums ==
    ASSUME NEW first \in Int, NEW last \in Int
    PROVE  Hours(first, last)
             = SumOver([h \in first .. last |-> Hour(h).rain], first .. last)
  <1>1. PICK S : S = first .. last
    OBVIOUS
  <1>2. IsFiniteSet(S)
    BY <1>1, FS_Interval
  <1>3. PICK F : F = [h \in S |-> Hour(h).rain]
    OBVIOUS
  <1> DEFINE Table(g) == g = [s \in SUBSET S |->
                  IF s = {} THEN 0
                  ELSE Hour(CHOOSE x \in s : TRUE).rain + g[s \ {CHOOSE x \in s : TRUE}]]
  <1>4. Hours(first, last) = (CHOOSE g : Table(g))[S]
    BY <1>1 DEF Hours, MapThenSumSet, MapThenFoldSet
  <1>5. \A s \in SUBSET S : s # {} => F[Chosen(s)] = Hour(CHOOSE x \in s : TRUE).rain
    BY <1>3, ChosenIn DEF Chosen
  <1>6. \A g : Sums(F, S, g) => Table(g)
    BY <1>5 DEF Sums, Chosen
  <1>7. \A g : Table(g) => Sums(F, S, g)
    BY <1>5 DEF Sums, Chosen
  <1>8. PICK k : k = CHOOSE g : Table(g)
    OBVIOUS
  <1>9. PICK m : m = CHOOSE g : Sums(F, S, g)
    OBVIOUS
  <1>10. Sums(F, S, m)
    BY <1>2, <1>9, SumsExist
  <1>11. \E g : Table(g)
    BY <1>6, <1>10
  <1>12. Table(k)
    BY <1>8, <1>11
  <1>13. Sums(F, S, k)
    BY <1>7, <1>12
  <1>14. S \in SUBSET S
    OBVIOUS
  <1>15. k[S] = m[S]
    BY <1>2, <1>10, <1>13, <1>14, SumsAgree
  <1> HIDE DEF Table
  <1> QED
    BY <1>1, <1>3, <1>4, <1>8, <1>9, <1>15 DEF SumOver

LEMMA CloudsAreSums ==
    ASSUME NEW first \in Int, NEW last \in Int
    PROVE  Clouds(first, last)
             = SumOver([h \in first .. last |-> Hour(h).clouds], first .. last)
  <1>1. PICK S : S = first .. last
    OBVIOUS
  <1>2. IsFiniteSet(S)
    BY <1>1, FS_Interval
  <1>3. PICK F : F = [h \in S |-> Hour(h).clouds]
    OBVIOUS
  <1> DEFINE Table(g) == g = [s \in SUBSET S |->
                  IF s = {} THEN 0
                  ELSE Hour(CHOOSE x \in s : TRUE).clouds + g[s \ {CHOOSE x \in s : TRUE}]]
  <1>4. Clouds(first, last) = (CHOOSE g : Table(g))[S]
    BY <1>1 DEF Clouds, MapThenSumSet, MapThenFoldSet
  <1>5. \A s \in SUBSET S : s # {} => F[Chosen(s)] = Hour(CHOOSE x \in s : TRUE).clouds
    BY <1>3, ChosenIn DEF Chosen
  <1>6. \A g : Sums(F, S, g) => Table(g)
    BY <1>5 DEF Sums, Chosen
  <1>7. \A g : Table(g) => Sums(F, S, g)
    BY <1>5 DEF Sums, Chosen
  <1>8. PICK k : k = CHOOSE g : Table(g)
    OBVIOUS
  <1>9. PICK m : m = CHOOSE g : Sums(F, S, g)
    OBVIOUS
  <1>10. Sums(F, S, m)
    BY <1>2, <1>9, SumsExist
  <1>11. \E g : Table(g)
    BY <1>6, <1>10
  <1>12. Table(k)
    BY <1>8, <1>11
  <1>13. Sums(F, S, k)
    BY <1>7, <1>12
  <1>14. S \in SUBSET S
    OBVIOUS
  <1>15. k[S] = m[S]
    BY <1>2, <1>10, <1>13, <1>14, SumsAgree
  <1> HIDE DEF Table
  <1> QED
    BY <1>1, <1>3, <1>4, <1>8, <1>9, <1>15 DEF SumOver

LEMMA SteadyHours ==
    rough' = rough => \A first, last : /\ Hours(first, last)' = Hours(first, last)
                                       /\ Clouds(first, last)' = Clouds(first, last)
                                       /\ Likely(first, last)' = Likely(first, last)
  BY DEF Hours, Clouds, Likely, Hour, MapThenSumSet, MapThenFoldSet, Max

\* Every hour has numbers, and so has every stretch of hours.
HourInv ==
    \A h \in Int : /\ Hour(h).rain \in Nat /\ Hour(h).probability \in Nat
                   /\ Hour(h).wind \in Nat /\ Hour(h).clouds \in Nat

LEMMA StretchesAreNumbers ==
    ASSUME HourInv, NEW first \in Int, NEW last \in Int
    PROVE  Hours(first, last) \in Nat /\ Clouds(first, last) \in Nat
  <1>1. PICK S : S = first .. last
    OBVIOUS
  <1>2. IsFiniteSet(S) /\ S \subseteq Int
    BY <1>1, FS_Interval
  <1>3. PICK F : F = [h \in S |-> Hour(h).rain]
    OBVIOUS
  <1>4. SumOver(F, S) \in Nat
    BY <1>2, <1>3, SumIsNat DEF HourInv
  <1>5. PICK G : G = [h \in S |-> Hour(h).clouds]
    OBVIOUS
  <1>6. SumOver(G, S) \in Nat
    BY <1>2, <1>5, SumIsNat DEF HourInv
  <1> QED
    BY <1>1, <1>3, <1>4, <1>5, <1>6, HoursAreSums, CloudsAreSums

LEMMA TwoHours ==
    ASSUME HourInv, NEW h \in Int
    PROVE  /\ Hours(h, h + 1) = Hour(h).rain + Hour(h + 1).rain
           /\ Likely(h, h + 1) \in {Hour(h).probability, Hour(h + 1).probability}
           /\ Likely(h, h + 1) >= Hour(h).probability
           /\ Likely(h, h + 1) >= Hour(h + 1).probability
  <1>1. PICK S : S = h .. h + 1
    OBVIOUS
  <1>2. S = {h, h + 1} /\ h # h + 1 /\ h + 1 \in Int
    BY <1>1
  <1>3. PICK F : F = [x \in S |-> Hour(x).rain]
    OBVIOUS
  <1>4. F[h] = Hour(h).rain /\ F[h + 1] = Hour(h + 1).rain
    BY <1>2, <1>3
  <1>5. F[h] \in Nat /\ F[h + 1] \in Nat
    BY <1>2, <1>4 DEF HourInv
  <1>6. PICK k : k = h + 1
    OBVIOUS
  <1>7. SumOver(F, {h, k}) = F[h] + F[k]
    BY <1>2, <1>5, <1>6, SumOfTwo
  <1>8. Hours(h, k) = SumOver(F, S)
    BY <1>1, <1>2, <1>3, <1>6, HoursAreSums
  <1>9. Hours(h, h + 1) = Hour(h).rain + Hour(h + 1).rain
    BY <1>2, <1>4, <1>6, <1>7, <1>8
  <1>10. PICK p : p = Hour(h).probability
    OBVIOUS
  <1>11. PICK q : q = Hour(h + 1).probability
    OBVIOUS
  <1>12. p \in Int /\ q \in Int
    BY <1>2, <1>10, <1>11 DEF HourInv
  <1>13. {Hour(x).probability : x \in S} = {p, q}
    BY <1>2, <1>10, <1>11
  <1>14. Likely(h, h + 1) = Max({p, q})
    BY <1>1, <1>13 DEF Likely
  <1> QED
    BY <1>9, <1>10, <1>11, <1>12, <1>14, MaxOfTwo

----------------------------------------------------------------------------
RoughInv == DOMAIN rough \subseteq Int /\ \A h \in DOMAIN rough : rough[h] \in Skies

LEMMA RoughHoursAreNumbers == WeatherAssumption /\ RoughInv => HourInv
  <1> SUFFICES ASSUME WeatherAssumption, RoughInv, NEW h \in Int
               PROVE  /\ Hour(h).rain \in Nat /\ Hour(h).probability \in Nat
                      /\ Hour(h).wind \in Nat /\ Hour(h).clouds \in Nat
    BY DEF HourInv
  <1>1. CASE h \in DOMAIN rough
    BY <1>1 DEF RoughInv, Hour, WeatherAssumption
  <1>2. CASE h \notin DOMAIN rough
    BY <1>2 DEF Hour, Calm
  <1> QED
    BY <1>1, <1>2

\* What phase one says of an hour, and what the pulse does.
Graded(h) ==
    /\ gate.moisture = Grade(Hours(h - 24, h - 1), 1, 5)
    /\ gate.solar = Grade(Clouds(h - 12, h - 1), 50 * 12, 70 * 12)
    /\ gate.front = IF Likely(h + 1, h + 2) > 30 \/ Hours(h + 1, h + 2) > 1
                    THEN "FAIL" ELSE "PASS"
    /\ gate.wind = Grade(Hour(h).wind, 50, 80)

Pulsed(h) ==
    pulse = (\/ Hours(h - 24, h - 1) > 5 \/ Clouds(h - 12, h - 1) > 70 * 12
             \/ Likely(h + 1, h + 2) > 30 \/ Hours(h + 1, h + 2) > 1
             \/ Hour(h).wind > 80)

\* The gates were not asked or not answered, or say what was measured.
GateInv ==
    \/ ~gate.answered
    \/ gate.slot \in Slots /\ Graded(gate.slot) /\ Pulsed(gate.slot)

WeatherInv ==
    /\ RoughInv /\ GateInv
    /\ \A h \in windows : h \in Slots /\ Suits(h)

LEMMA SuitedPasses ==
    ASSUME WeatherAssumption, RoughInv, NEW h \in Slots, Suits(h), Graded(h),
           ~(Hour(h + 2).probability > 30 \/ Hour(h + 2).rain > 0)
    PROVE  "FAIL" \notin {gate.moisture, gate.solar, gate.front, gate.wind}
  <1>0. HourInv /\ h \in Int
    BY RoughHoursAreNumbers DEF WeatherAssumption
  <1>1. /\ h - 24 \in Int /\ h - 12 \in Int /\ h - 1 \in Int /\ h + 1 \in Int /\ h + 2 \in Int
        /\ h + 1 + 1 = h + 2
    BY <1>0
  <1>2. /\ Hours(h - 24, h - 1) \in Nat /\ Clouds(h - 12, h - 1) \in Nat
    BY <1>0, <1>1, StretchesAreNumbers
  <1>3. /\ Hours(h - 24, h - 1) <= 5 /\ Clouds(h - 12, h - 1) <= 70 * 12
        /\ Likely(h, h + 1) <= 30 /\ Hours(h, h + 1) <= 1 /\ Hour(h).wind <= 50
    BY DEF Suits
  <1>4. gate.moisture # "FAIL" /\ gate.solar # "FAIL"
    BY <1>2, <1>3 DEF Graded, Grade
  <1>5. gate.wind # "FAIL"
    BY <1>0, <1>3 DEF Graded, Grade, HourInv
  <1>6. /\ Hour(h).rain \in Nat /\ Hour(h + 1).rain \in Nat /\ Hour(h + 2).rain \in Nat
        /\ Hour(h).probability \in Nat /\ Hour(h + 1).probability \in Nat
        /\ Hour(h + 2).probability \in Nat
    BY <1>0, <1>1 DEF HourInv
  <1>7. /\ Hours(h, h + 1) = Hour(h).rain + Hour(h + 1).rain
        /\ Likely(h, h + 1) >= Hour(h + 1).probability
        /\ Likely(h, h + 1) \in {Hour(h).probability, Hour(h + 1).probability}
    BY <1>0, TwoHours
  <1>8. PICK k : k = h + 1
    OBVIOUS
  <1>9. /\ Hours(k, k + 1) = Hour(k).rain + Hour(k + 1).rain
        /\ Likely(k, k + 1) \in {Hour(k).probability, Hour(k + 1).probability}
    BY <1>0, <1>1, <1>8, TwoHours
  <1>10. Hour(h + 1).probability <= 30 /\ Hour(h + 1).rain <= 1
    BY <1>3, <1>6, <1>7
  <1>11. Hour(h + 2).probability <= 30 /\ Hour(h + 2).rain = 0
    BY <1>6
  <1>12. /\ Hours(h + 1, h + 2) = Hour(h + 1).rain + Hour(h + 2).rain
         /\ Likely(h + 1, h + 2) \in {Hour(h + 1).probability, Hour(h + 2).probability}
    BY <1>1, <1>8, <1>9
  <1>13. ~(Likely(h + 1, h + 2) > 30) /\ ~(Hours(h + 1, h + 2) > 1)
    BY <1>6, <1>10, <1>11, <1>12
  <1>14. gate.front # "FAIL"
    BY <1>13 DEF Graded
  <1> QED
    BY <1>4, <1>5, <1>14

LEMMA PulseFollowsGate ==
    ASSUME NEW h, Graded(h), Pulsed(h)
    PROVE  pulse <=> "FAIL" \in {gate.moisture, gate.solar, gate.front, gate.wind}
  <1>1. gate.moisture = "FAIL" <=> Hours(h - 24, h - 1) > 5
    BY DEF Graded, Grade
  <1>2. gate.solar = "FAIL" <=> Clouds(h - 12, h - 1) > 70 * 12
    BY DEF Graded, Grade
  <1>3. gate.front = "FAIL" <=> Likely(h + 1, h + 2) > 30 \/ Hours(h + 1, h + 2) > 1
    BY DEF Graded
  <1>4. gate.wind = "FAIL" <=> Hour(h).wind > 80
    BY DEF Graded, Grade
  <1> QED
    BY <1>1, <1>2, <1>3, <1>4 DEF Pulsed

LEMMA WindowsFollow == WeatherAssumption /\ WeatherInv => WindowsPassTheGate
  <1> SUFFICES ASSUME WeatherAssumption, WeatherInv PROVE WindowsPassTheGate
    OBVIOUS
  <1>1. CASE ~gate.answered
    BY <1>1 DEF WindowsPassTheGate
  <1>2. FailedGates = {} <=> "FAIL" \notin {gate.moisture, gate.solar, gate.front, gate.wind}
    BY DEF FailedGates
  <1>3. CASE gate.slot \in Slots /\ Graded(gate.slot) /\ Pulsed(gate.slot)
    <2>1. pulse <=> "FAIL" \in {gate.moisture, gate.solar, gate.front, gate.wind}
      BY <1>3, PulseFollowsGate
    <2>2. PICK h : h = gate.slot
      OBVIOUS
    <2>3. ASSUME h \in windows, ~(Hour(h + 2).probability > 30 \/ Hour(h + 2).rain > 0)
          PROVE  "FAIL" \notin {gate.moisture, gate.solar, gate.front, gate.wind}
      <3>1. Suits(h) /\ RoughInv /\ h \in Slots /\ Graded(h)
        BY <1>3, <2>2, <2>3 DEF WeatherInv
      <3> QED
        BY <2>3, <3>1, SuitedPasses
    <2> QED
      BY <1>2, <2>1, <2>2, <2>3 DEF WindowsPassTheGate
  <1> QED
    BY <1>1, <1>3 DEF WeatherInv, GateInv

LEMMA SteadySky ==
    ASSUME rough' = rough
    PROVE  \A h : (Hour(h)' = Hour(h)) /\ (Suits(h)' = Suits(h))
  <1>1. \A h : Hour(h)' = Hour(h)
    BY DEF Hour
  <1> QED
    BY <1>1, SteadyHours DEF Suits

LEMMA SteadyGate ==
    ASSUME rough' = rough, gate' = gate, pulse' = pulse
    PROVE  \A h : (Graded(h)' <=> Graded(h)) /\ (Pulsed(h)' <=> Pulsed(h))
  <1> SUFFICES ASSUME NEW CONSTANT h
               PROVE  (Graded(h)' <=> Graded(h)) /\ (Pulsed(h)' <=> Pulsed(h))
    OBVIOUS
  <1>1. Hour(h)' = Hour(h)
    BY SteadySky
  <1>2. /\ Hours(h - 24, h - 1)' = Hours(h - 24, h - 1)
        /\ Clouds(h - 12, h - 1)' = Clouds(h - 12, h - 1)
        /\ Likely(h + 1, h + 2)' = Likely(h + 1, h + 2)
        /\ Hours(h + 1, h + 2)' = Hours(h + 1, h + 2)
    BY SteadyHours
  <1>3. Graded(h)' <=> Graded(h)
    BY <1>1, <1>2 DEF Graded, Grade
  <1>4. Pulsed(h)' <=> Pulsed(h)
    BY <1>1, <1>2 DEF Pulsed
  <1> QED
    BY <1>3, <1>4

LEMMA WeatherInitInv == WeatherAssumption /\ WeatherInit => WeatherInv
  <1> SUFFICES ASSUME WeatherAssumption, WeatherInit PROVE WeatherInv
    OBVIOUS
  <1>1. PICK hours \in SUBSET RoughHours : rough \in [hours -> Skies]
    BY DEF WeatherInit
  <1>2. RoughInv
    BY <1>1 DEF RoughInv, WeatherAssumption
  <1> QED
    BY <1>2 DEF WeatherInit, WeatherInv, GateInv, NoGate

LEMMA SuggestInv == WeatherInv /\ SuggestWindows => WeatherInv'
  <1> SUFFICES ASSUME WeatherInv, SuggestWindows PROVE WeatherInv'
    OBVIOUS
  <1>1. rough' = rough /\ gate' = gate /\ pulse' = pulse
    BY DEF SuggestWindows
  <1>2. \A h \in windows' : h \in Slots /\ Suits(h)
    BY DEF SuggestWindows
  <1>3. \A h \in windows' : Suits(h)'
    BY <1>1, <1>2, SteadySky
  <1>4. RoughInv'
    BY <1>1 DEF WeatherInv, RoughInv
  <1>5. GateInv'
    <2>1. \A h : (Graded(h)' <=> Graded(h)) /\ (Pulsed(h)' <=> Pulsed(h))
      BY <1>1, SteadyGate
    <2> QED
      BY <1>1, <2>1 DEF WeatherInv, GateInv
  <1> QED
    BY <1>2, <1>3, <1>4, <1>5 DEF WeatherInv

LEMMA RunGatesInv ==
    ASSUME WeatherInv, NEW h \in Slots, NEW answered \in BOOLEAN, RunGates(h, answered)
    PROVE  WeatherInv'
  <1>1. rough' = rough /\ windows' = windows
    BY DEF RunGates
  <1>2. RoughInv' /\ \A k \in windows' : k \in Slots /\ Suits(k)'
    BY <1>1, SteadySky DEF WeatherInv, RoughInv
  <1>3. GateInv'
    <2>1. CASE ~answered
      <3>1. gate' = [slot |-> h, answered |-> FALSE, moisture |-> "FAIL", solar |-> "FAIL",
                     front |-> "FAIL", wind |-> "FAIL"]
        BY <2>1 DEF RunGates
      <3> QED
        BY <3>1 DEF GateInv
    <2>2. CASE answered
      <3>1. PICK g : g = gate'
        OBVIOUS
      <3>2. /\ g.slot = h
            /\ g.moisture = Grade(Hours(h - 24, h - 1), 1, 5)
            /\ g.solar = Grade(Clouds(h - 12, h - 1), 50 * 12, 70 * 12)
            /\ g.front = IF Likely(h + 1, h + 2) > 30 \/ Hours(h + 1, h + 2) > 1
                         THEN "FAIL" ELSE "PASS"
            /\ g.wind = Grade(Hour(h).wind, 50, 80)
        BY <2>2, <3>1 DEF RunGates, Measured
      <3>3. pulse' = (\/ Hours(h - 24, h - 1) > 5 \/ Clouds(h - 12, h - 1) > 70 * 12
                      \/ Likely(h + 1, h + 2) > 30 \/ Hours(h + 1, h + 2) > 1
                      \/ Hour(h).wind > 80)
        BY <2>2 DEF RunGates, Measured
      <3>4. Graded(h)'
        BY <1>1, <3>1, <3>2, SteadySky, SteadyHours DEF Graded, Grade
      <3>5. Pulsed(h)'
        BY <1>1, <3>3, SteadySky, SteadyHours DEF Pulsed
      <3>6. gate'.slot = h
        BY <3>1, <3>2
      <3> QED
        BY <3>4, <3>5, <3>6 DEF GateInv
    <2> QED
      BY <2>1, <2>2
  <1> QED
    BY <1>2, <1>3 DEF WeatherInv

\* Whoever flies in a suggested window passes every gate that is answered, unless the second
\* hour is wet, and the pulse aborts exactly where the gate fails, for every forecast.
THEOREM WindowsAlwaysPass == WeatherSpec => []WindowsPassTheGate
  <1>1. WeatherInit => WeatherInv
    BY WeatherInitInv, WeatherAssumption
  <1>2. WeatherInv /\ [WeatherNext]_weatherVars => WeatherInv'
    <2> SUFFICES ASSUME WeatherInv, [WeatherNext]_weatherVars PROVE WeatherInv'
      OBVIOUS
    <2>1. CASE UNCHANGED weatherVars
      <3>1. UNCHANGED <<rough, windows, gate, pulse>>
        BY <2>1 DEF weatherVars
      <3>2. \A h : (Graded(h)' <=> Graded(h)) /\ (Pulsed(h)' <=> Pulsed(h))
        BY <3>1, SteadyGate
      <3> QED
        BY <3>1, <3>2, SteadySky DEF WeatherInv, RoughInv, GateInv
    <2>2. CASE SuggestWindows
      BY <2>2, SuggestInv
    <2>3. ASSUME NEW h \in Slots, NEW answered \in BOOLEAN, RunGates(h, answered)
          PROVE  WeatherInv'
      BY <2>3, RunGatesInv
    <2> QED
      BY <2>1, <2>2, <2>3 DEF WeatherNext
  <1>3. WeatherInv => WindowsPassTheGate
    BY WindowsFollow, WeatherAssumption
  <1> QED
    BY <1>1, <1>2, <1>3, PTL DEF WeatherSpec
==============================================================================
