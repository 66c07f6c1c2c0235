--------------------------- MODULE EstimateProofs ----------------------------
(***************************************************************************)
(* What an estimate and a takeoff buy, how their lengths are read, and what *)
(* the replay of a ledger proves, for any measured inputs.                 *)
(***************************************************************************)
EXTENDS Takeoff, ProofBasics

LEMMA RegistryFacts ==
    ASSUME NEW m \in Materials
    PROVE  Coverage[m] \in Nat \ {0} /\ WastePercent[m] \in Nat
  BY DEF Materials, Coverage, WastePercent

\* Rounding up is enough, and one fewer would not be.
LEMMA CeilingIsLeast ==
    ASSUME NEW a \in Nat, NEW b \in Nat \ {0}
    PROVE  /\ Ceiling(a, b) * b >= a
           /\ Ceiling(a, b) > 0 => (Ceiling(a, b) - 1) * b < a
  <1>1. CASE a = 0
    BY <1>1 DEF Ceiling
  <1>2. CASE a # 0
    <2> DEFINE c == (a + b - 1) \div b
               r == (a + b - 1) % b
    <2>1. a + b - 1 = b * c + r /\ r \in 0 .. b - 1 /\ c \in Int
      OBVIOUS
    <2>2. c * b >= a /\ (c - 1) * b < a
      BY <2>1
    <2> QED
      BY <1>2, <2>2 DEF Ceiling
  <1> QED
    BY <1>1, <1>2

----------------------------------------------------------------------------
\* What an accepted input of a family is.
LEMMA AcceptedInputs ==
    ASSUME NEW family \in Families, NEW names \in InputNames[family],
           NEW in \in [names -> Measures \cup {Unknown}], Accepts(family, in)
    PROVE  in \in [names -> Int]
  BY EstimateAssumption DEF Accepts

\* Every line names a material of the registry and takes a whole number of its unit.
LEMMA LinesAreMeasured ==
    ASSUME NEW family \in Families, NEW names \in InputNames[family],
           NEW in \in [names -> Int], NEW i \in DOMAIN LinesOf(family, in)
    PROVE  /\ LinesOf(family, in)[i] \in Materials
           /\ Base(LinesOf(family, in)[i], in) \in Int
  <1> USE DEF Families, InputNames, Materials, Coverage
  <1>1. CASE family = "roofing"
    <2>1. "roof" \in names /\ names \in {{"roof"}, {"roof", "ridge"}} /\ DOMAIN in = names
      BY <1>1
    <2>2. CASE "ridge" \in names
      <3> DEFINE two == <<"asphalt_shingles", "underlayment">>
                 one == <<"ridge_cap">>
      <3>1. LinesOf(family, in) = two \o one
        BY <1>1, <2>1, <2>2 DEF LinesOf
      <3>2. /\ two \in Seq({"asphalt_shingles", "underlayment"}) /\ Len(two) = 2
            /\ one \in Seq({"ridge_cap"}) /\ Len(one) = 1
        OBVIOUS
      <3>3. i \in 1 .. 3 /\ (two \o one)[i] = IF i <= 2 THEN two[i] ELSE one[i - 2]
        BY <3>1, <3>2
      <3>4. LinesOf(family, in)[i] \in {"asphalt_shingles", "underlayment", "ridge_cap"}
        BY <3>1, <3>3
      <3> QED
        BY <2>1, <2>2, <3>4 DEF Base
    <2>3. CASE "ridge" \notin names
      <3>1. LinesOf(family, in) = <<"asphalt_shingles", "underlayment">>
        BY <1>1, <2>1, <2>3 DEF LinesOf
      <3> QED
        BY <2>1, <3>1 DEF Base
    <2> QED
      BY <2>2, <2>3
  <1>2. CASE family = "siding"
    BY <1>2 DEF LinesOf, Base
  <1>3. CASE family = "concrete"
    <2>1. LinesOf(family, in)[i] = "ready_mix" /\ {"length", "width", "thickness"} = names
      BY <1>3 DEF LinesOf
    <2>2. in.length \in Int /\ in.width \in Int /\ in.thickness \in Int
      BY <2>1
    <2>3. in.length * in.width * in.thickness \in Int
      BY <2>2
    <2> QED
      BY <2>1, <2>3 DEF Base
  <1>4. CASE family = "flooring"
    BY <1>4 DEF LinesOf, Base
  <1>5. CASE family = "drywall"
    BY <1>5 DEF LinesOf, Base
  <1>6. CASE family = "insulation"
    BY <1>6 DEF LinesOf, Base
  <1> QED
    BY <1>1, <1>2, <1>3, <1>4, <1>5, <1>6

----------------------------------------------------------------------------
\* The rules are those of the registry until there is an estimate to buy for.
FirstBook == book = [m \in Materials |-> [version |-> 1, coverage |-> Coverage[m]]]

EstimateInv ==
    /\ estimate.family = "none" => FirstBook
    /\ EnoughIsBought

\* What makes a conversion right: its rule, and what was measured for it.
EnoughFor(c) ==
    LET needed == WithWaste(c.rule, c.base)
    IN /\ c.purchase * Coverage[c.rule] >= needed
       /\ c.purchase > 0 => (c.purchase - 1) * Coverage[c.rule] < needed

LEMMA ConvertBuys ==
    ASSUME FirstBook, NEW rule \in Materials, NEW base \in Nat
    PROVE  EnoughFor(Convert(rule, base))
  <1>1. Coverage[rule] \in Nat \ {0} /\ WastePercent[rule] \in Nat
    BY RegistryFacts
  <1>2. book[rule].coverage = Coverage[rule]
    BY DEF FirstBook
  <1>3. WithWaste(rule, base) \in Nat
    BY <1>1 DEF WithWaste, Waste
  <1>4. /\ Convert(rule, base).rule = rule /\ Convert(rule, base).base = base
        /\ Convert(rule, base).purchase = Ceiling(WithWaste(rule, base), Coverage[rule])
    BY <1>2 DEF Convert, Packages
  <1> QED
    BY <1>1, <1>3, <1>4, CeilingIsLeast DEF EnoughFor

LEMMA ExpandBuys ==
    ASSUME FirstBook, NEW family \in Families, NEW names \in InputNames[family],
           NEW in \in [names -> Measures \cup {Unknown}], NEW overrides,
           \A x \in DOMAIN overrides : overrides[x] \in Materials,
           Expand(family, in, overrides)
    PROVE  EnoughIsBought' /\ estimate'.family \in Families
  <1> DEFINE lines == LinesOf(family, in)
             rule(i) == IF lines[i] \in DOMAIN overrides THEN overrides[lines[i]] ELSE lines[i]
  <1>1. in \in [names -> Int]
    BY AcceptedInputs DEF Expand
  <1>2. ASSUME NEW i \in DOMAIN lines
        PROVE  rule(i) \in Materials /\ Base(lines[i], in) \in Nat
    <2>1. lines[i] \in Materials /\ Base(lines[i], in) \in Int
      BY <1>1, <1>2, LinesAreMeasured
    <2>2. Base(lines[i], in) >= 0
      BY <1>2 DEF Expand
    <2> QED
      BY <2>1, <2>2
  <1>3. /\ estimate'.family = family
        /\ estimate'.conversions = [i \in DOMAIN lines |-> Convert(rule(i), Base(lines[i], in))]
    BY DEF Expand
  <1>4. \A i \in DOMAIN estimate'.conversions : EnoughFor(estimate'.conversions[i])
    BY <1>2, <1>3, ConvertBuys
  <1> QED
    BY <1>3, <1>4 DEF EnoughIsBought, EnoughFor, WithWaste, Waste

LEMMA EstimateStep == EstimateInv /\ [EstimateNext]_estimateVars => EstimateInv'
  <1> SUFFICES ASSUME EstimateInv, [EstimateNext]_estimateVars PROVE EstimateInv'
    OBVIOUS
  <1>1. ASSUME NEW family \in Families, NEW names \in InputNames[family],
               NEW in \in [names -> Measures \cup {Unknown}], NEW overrides,
               \A x \in DOMAIN overrides : overrides[x] \in Materials,
               estimate.family = "none", Expand(family, in, overrides)
        PROVE  EstimateInv'
    <2>1. "none" \notin Families
      BY DEF Families, InputNames
    <2> QED
      BY <1>1, <2>1, ExpandBuys DEF EstimateInv
  <1>2. CASE estimate' = estimate /\ (estimate.family = "none" => book' = book)
    BY <1>2 DEF EstimateInv, FirstBook, EnoughIsBought, WithWaste, Waste
  <1>3. CASE BuildLedger \/ Replay \/ UNCHANGED estimateVars
    BY <1>2, <1>3 DEF BuildLedger, Replay, estimateVars
  <1>4. ASSUME NEW i, AlterQuantities(i) \/ SwapSteps(i) PROVE EstimateInv'
    BY <1>2, <1>4 DEF AlterQuantities, SwapSteps
  <1>5. ASSUME NEW m \in Materials, UpgradeRule(m) PROVE EstimateInv'
    BY <1>2, <1>5 DEF UpgradeRule
  <1>6. ASSUME estimate.family = "none",
               NEW family \in Families, NEW names \in InputNames[family],
               NEW in \in [names -> Measures \cup {Unknown}],
               \/ Expand(family, in, <<>>)
               \/ \E m \in Materials \ {"flooring_plank"} :
                     Expand(family, in, [x \in {m} |-> "flooring_plank"])
        PROVE  EstimateInv'
    <2>1. "flooring_plank" \in Materials
      BY DEF Materials, Coverage
    <2>2. CASE Expand(family, in, <<>>)
      BY <1>1, <1>6, <2>2
    <2>3. ASSUME NEW m, Expand(family, in, [x \in {m} |-> "flooring_plank"])
          PROVE  EstimateInv'
      BY <1>1, <1>6, <2>1, <2>3
    <2> QED
      BY <1>6, <2>2, <2>3
  <1> QED
    BY <1>3, <1>4, <1>5, <1>6 DEF EstimateNext

----------------------------------------------------------------------------
\* For any measured inputs the packages of every line cover what was measured and its
\* waste, and one fewer would not.
THEOREM EnoughAlwaysBought == EstimateSpec => []EnoughIsBought
  <1>1. EstimateInit => EstimateInv
    BY DEF EstimateInit, EstimateInv, FirstBook, EnoughIsBought, NoEstimate
  <1>2. EstimateInv => EnoughIsBought
    BY DEF EstimateInv
  <1> QED
    BY <1>1, <1>2, EstimateStep, PTL DEF EstimateSpec

----------------------------------------------------------------------------
(* Replay *)

\* A conversion by the rules of the registry.
FirstConversion(rule, base) ==
    [rule |-> rule, version |-> 1, base |-> base, waste |-> Waste(rule, base),
     purchase |-> Ceiling(WithWaste(rule, base), Coverage[rule])]

ConversionsExpanded ==
    /\ DOMAIN estimate.conversions = DOMAIN estimate.lines
    /\ \A i \in DOMAIN estimate.lines : \E rule \in Materials :
          /\ Base(estimate.lines[i], estimate.inputs) >= 0
          /\ estimate.conversions[i]
               = FirstConversion(rule, Base(estimate.lines[i], estimate.inputs))

Expanded ==
    /\ estimate.family \in Families
    /\ \E names \in InputNames[estimate.family] : estimate.inputs \in [names -> Int]
    /\ estimate.family = "drywall" => estimate.inputs.ceiling >= 0
    /\ estimate.lines = LinesOf(estimate.family, estimate.inputs)
    /\ ConversionsExpanded

LineCount == Len(estimate.lines)

\* A step of the ledger as build_assembly_ledger writes it.
OriginalStep(i) ==
    IF i <= LineCount
    THEN LET base == Base(estimate.lines[i], estimate.inputs)
         IN [kind |-> "assembly", sequence |-> i, material |-> estimate.lines[i],
             version |-> 1, inputs |-> estimate.inputs, base |-> base,
             waste |-> 0, purchase |-> 0, output |-> base]
    ELSE LET c == estimate.conversions[i - LineCount]
         IN [kind |-> "conversion", sequence |-> i, material |-> c.rule,
             version |-> c.version, inputs |-> <<>>, base |-> c.base,
             waste |-> c.waste, purchase |-> c.purchase, output |-> c.purchase]

StepFields ==
    {"kind", "sequence", "material", "version", "inputs", "base", "waste", "purchase", "output"}

\* What no alteration touches in a step is what was written under its sequence.
KeepsIdentity(s) ==
    /\ DOMAIN s = StepFields
    /\ s.sequence \in 1 .. 2 * LineCount
    /\ s.kind = OriginalStep(s.sequence).kind
    /\ s.material = OriginalStep(s.sequence).material
    /\ s.version = OriginalStep(s.sequence).version

Confirms == \A i \in DOMAIN ledger : Available(ledger[i]) /\ Verifies(ledger[i])

LedgerKept ==
    /\ DOMAIN ledger = 1 .. 2 * LineCount
    /\ \A i \in DOMAIN ledger : KeepsIdentity(ledger[i])
    /\ altered = 0 => \A i \in DOMAIN ledger : ledger[i] = OriginalStep(i)

ReplayInv ==
    /\ altered \in Nat
    /\ \A m \in Materials : book[m].version = 1 => book[m].coverage = Coverage[m]
    /\ estimate.family = "none" => FirstBook /\ ledger = <<>>
    /\ estimate.family # "none" => Expanded
    /\ ledger # <<>> => LedgerKept
    /\ verdict # "none" => ledger # <<>> /\ (verdict = "ok" <=> InOrder /\ Confirms)

LEMMA RoofingLines ==
    ASSUME NEW in, NEW S, {"asphalt_shingles", "underlayment", "ridge_cap"} \subseteq S
    PROVE  LinesOf("roofing", in) \in Seq(S)
  <1>1. PICK first : first = <<"asphalt_shingles", "underlayment">>
    OBVIOUS
  <1>2. PICK rest : rest = IF "ridge" \in DOMAIN in THEN <<"ridge_cap">> ELSE <<>>
    OBVIOUS
  <1>3. first \in Seq(S)
    BY <1>1
  <1>4. <<"ridge_cap">> \in Seq(S) /\ <<>> \in Seq(S)
    OBVIOUS
  <1>5. rest \in Seq(S)
    BY <1>2, <1>4
  <1>6. first \o rest \in Seq(S)
    BY <1>3, <1>5
  <1>7. LinesOf("roofing", in) = first \o rest
    BY <1>1, <1>2 DEF LinesOf
  <1> QED
    BY <1>6, <1>7

LEMMA LinesAreCounted ==
    ASSUME NEW family \in Families, NEW in
    PROVE  LinesOf(family, in) \in Seq(Materials)
  <1>1. {"asphalt_shingles", "underlayment", "ridge_cap"} \subseteq Materials
    BY DEF Materials, Coverage
  <1>2. CASE family = "roofing"
    BY <1>1, <1>2, RoofingLines
  <1>3. CASE family \in {"siding", "concrete", "flooring", "drywall", "insulation"}
    BY <1>3 DEF LinesOf, Materials, Coverage
  <1> QED
    BY <1>2, <1>3 DEF Families, InputNames

LEMMA CountOfLines ==
    ASSUME Expanded
    PROVE  LineCount \in Nat /\ DOMAIN estimate.lines = 1 .. LineCount
  BY LinesAreCounted DEF Expanded, LineCount

\* The conversion an accepted line is given.
LEMMA ExpandExpands ==
    ASSUME FirstBook, NEW family \in Families, NEW names \in InputNames[family],
           NEW in \in [names -> Measures \cup {Unknown}], NEW overrides,
           \A x \in DOMAIN overrides : overrides[x] \in Materials,
           Expand(family, in, overrides)
    PROVE  Expanded'
  <1> DEFINE lines == LinesOf(family, in)
             rule(i) == IF lines[i] \in DOMAIN overrides THEN overrides[lines[i]] ELSE lines[i]
  <1>1. in \in [names -> Int]
    BY AcceptedInputs DEF Expand
  <1>2. ASSUME NEW i \in DOMAIN lines PROVE rule(i) \in Materials
    BY <1>1, <1>2, LinesAreMeasured
  <1>3. /\ estimate'.family = family /\ estimate'.inputs = in /\ estimate'.lines = lines
        /\ estimate'.conversions = [i \in DOMAIN lines |-> Convert(rule(i), Base(lines[i], in))]
    BY DEF Expand
  <1>4. ASSUME NEW r \in Materials, NEW base PROVE Convert(r, base) = FirstConversion(r, base)
    <2>1. book[r].version = 1 /\ book[r].coverage = Coverage[r]
      BY DEF FirstBook
    <2> QED
      BY <2>1 DEF Convert, Packages, FirstConversion
  <1>5. ConversionsExpanded'
    <2>1. \A i \in DOMAIN lines : Base(lines[i], in) >= 0
      BY DEF Expand
    <2> HIDE DEF lines, rule
    <2>2. \A i \in DOMAIN lines : Convert(rule(i), Base(lines[i], in))
                                  = FirstConversion(rule(i), Base(lines[i], in))
      BY <1>2, <1>4
    <2> QED
      BY <1>2, <1>3, <2>1, <2>2 DEF ConversionsExpanded
  <1>6. family = "drywall" => in.ceiling >= 0
    <2>1. family = "drywall" => "ceiling" \in DOMAIN in
      BY <1>1 DEF InputNames
    <2>2. Accepts(family, in)
      BY DEF Expand
    <2> QED
      BY <2>1, <2>2 DEF Accepts
  <1> QED
    BY <1>1, <1>3, <1>5, <1>6 DEF Expanded

\* A ledger as it was built confirms itself, while its rules are there.
LEMMA HonestConfirms ==
    ASSUME ReplayInv, ledger # <<>>, altered = 0,
           \A i \in DOMAIN ledger : Available(ledger[i]),
           ~(estimate.family = "drywall" /\ estimate.inputs.ceiling > 0)
    PROVE  InOrder /\ Confirms
  <1>1. Expanded /\ LedgerKept
    BY DEF ReplayInv
  <1>2. LineCount \in Nat /\ DOMAIN estimate.lines = 1 .. LineCount
    BY <1>1, CountOfLines
  <1>3. \A i \in DOMAIN ledger : ledger[i] = OriginalStep(i) /\ i \in 1 .. 2 * LineCount
    BY <1>1 DEF LedgerKept
  <1>4. InOrder
    BY <1>3 DEF InOrder, OriginalStep
  <1>5. ASSUME NEW i \in DOMAIN ledger PROVE Verifies(ledger[i])
    <2>1. PICK s : s = ledger[i]
      OBVIOUS
    <2>2. CASE i <= LineCount
      <3>1. i \in DOMAIN estimate.lines
        BY <1>2, <1>3, <2>2
      <3>2. /\ s.kind = "assembly" /\ s.material = estimate.lines[i]
            /\ s.base = Base(estimate.lines[i], estimate.inputs) /\ s.output = s.base
            /\ s.inputs = estimate.inputs
        BY <1>3, <2>1, <2>2 DEF OriginalStep
      <3>3. ASSUME s.material = "drywall_sheet" PROVE estimate.inputs.wall = s.base
        <4>1. estimate.family = "drywall"
          <5>1. estimate.family = "roofing" =>
                  estimate.lines[i] \in {"asphalt_shingles", "underlayment", "ridge_cap"}
            <6>1. PICK Roofing : Roofing = {"asphalt_shingles", "underlayment", "ridge_cap"}
              OBVIOUS
            <6>2. LinesOf("roofing", estimate.inputs) \in Seq(Roofing)
              BY <6>1, RoofingLines
            <6> QED
              BY <1>1, <3>1, <6>1, <6>2 DEF Expanded
          <5>2. ASSUME estimate.family \in {"siding", "concrete", "flooring", "insulation"}
                PROVE  estimate.lines[i]
                         \in {"siding_panel", "ready_mix", "flooring_plank", "batt_insulation"}
            <6>1. PICK f : f = estimate.family
              OBVIOUS
            <6>2. LinesOf(f, estimate.inputs) \in {<<"siding_panel">>, <<"ready_mix">>,
                                             <<"flooring_plank">>, <<"batt_insulation">>}
              BY <5>2, <6>1 DEF LinesOf
            <6> QED
              BY <1>1, <3>1, <6>1, <6>2 DEF Expanded
          <5>3. estimate.family \in {"roofing", "siding", "concrete", "flooring", "drywall",
                                     "insulation"}
            BY <1>1 DEF Expanded, Families, InputNames
          <5>4. estimate.lines[i] = "drywall_sheet"
            BY <3>2, <3>3
          <5> QED
            BY <5>1, <5>2, <5>3, <5>4
        <4>2. estimate.inputs \in [{"wall", "ceiling"} -> Int]
          <5>1. InputNames["drywall"] = {{"wall", "ceiling"}}
            BY DEF InputNames
          <5> QED
            BY <1>1, <4>1, <5>1 DEF Expanded
        <4>3. estimate.inputs.wall \in Int /\ estimate.inputs.ceiling \in Int
          BY <4>2
        <4>4. estimate.inputs.ceiling = 0
          BY <1>1, <4>1, <4>3 DEF Expanded
        <4> QED
          BY <3>2, <3>3, <4>3, <4>4 DEF Base
      <3> QED
        BY <2>1, <3>2, <3>3 DEF Verifies, Recompute
    <2>3. CASE ~(i <= LineCount)
      <3>1. PICK k : k = i - LineCount
        OBVIOUS
      <3>2. k \in DOMAIN estimate.lines
        BY <1>2, <1>3, <2>3, <3>1
      <3>3. PICK rule \in Materials :
               /\ Base(estimate.lines[k], estimate.inputs) >= 0
               /\ estimate.conversions[k]
                    = FirstConversion(rule, Base(estimate.lines[k], estimate.inputs))
        BY <1>1, <3>2 DEF Expanded, ConversionsExpanded
      <3>4. PICK base : base = Base(estimate.lines[k], estimate.inputs)
        OBVIOUS
      <3>5. /\ s.kind = "conversion" /\ s.material = rule /\ s.version = 1 /\ s.base = base
            /\ s.waste = Waste(rule, base) /\ s.output = s.purchase
            /\ s.purchase = Ceiling(WithWaste(rule, base), Coverage[rule]) /\ base >= 0
        BY <1>3, <2>1, <2>3, <3>1, <3>3, <3>4 DEF OriginalStep, FirstConversion
      <3>6. book[rule].coverage = Coverage[rule]
        BY <2>1, <3>5 DEF Available, ReplayInv
      <3> QED
        BY <2>1, <3>5, <3>6 DEF Verifies, Packages
    <2> QED
      BY <2>2, <2>3
  <1> QED
    BY <1>4, <1>5 DEF Confirms

\* The conversions of a ledger that confirms itself are those of the bases it records.
LEMMA ConfirmedConversion ==
    ASSUME ReplayInv, ledger # <<>>, InOrder, Confirms,
           NEW i \in DOMAIN estimate.conversions
    PROVE  LET c == estimate.conversions[i]
               step == ledger[Len(estimate.lines) + i]
           IN /\ step.material = c.rule /\ step.version = c.version
              /\ step.waste = Waste(c.rule, step.base)
              /\ step.purchase = Ceiling(WithWaste(c.rule, step.base), Coverage[c.rule])
              /\ step.output = step.purchase
              /\ step.base = c.base => step.purchase = c.purchase /\ step.waste = c.waste
  <1>1. Expanded /\ LedgerKept
    BY DEF ReplayInv
  <1>2. LineCount \in Nat /\ DOMAIN estimate.lines = 1 .. LineCount
    BY <1>1, CountOfLines
  <1>3. i \in DOMAIN estimate.lines
    BY <1>1 DEF Expanded, ConversionsExpanded
  <1>4. PICK n : n = LineCount + i
    OBVIOUS
  <1>5. n \in DOMAIN ledger /\ ~(n <= LineCount) /\ n - LineCount = i
    BY <1>1, <1>2, <1>3, <1>4 DEF LedgerKept
  <1>6. PICK step : step = ledger[n]
    OBVIOUS
  <1>7. step.sequence = n
    BY <1>5, <1>6 DEF InOrder
  <1>8. PICK rule \in Materials :
           estimate.conversions[i] = FirstConversion(rule, Base(estimate.lines[i], estimate.inputs))
    BY <1>1, <1>3 DEF Expanded, ConversionsExpanded
  <1>9. PICK c : c = estimate.conversions[i]
    OBVIOUS
  <1>10. /\ c.rule = rule /\ c.version = 1 /\ c.waste = Waste(rule, c.base)
         /\ c.purchase = Ceiling(WithWaste(rule, c.base), Coverage[rule])
    BY <1>8, <1>9 DEF FirstConversion
  <1>11. /\ OriginalStep(n).kind = "conversion" /\ OriginalStep(n).material = c.rule
         /\ OriginalStep(n).version = c.version
    BY <1>5, <1>9 DEF OriginalStep
  <1>12. step.kind = "conversion" /\ step.material = rule /\ step.version = 1
    BY <1>1, <1>5, <1>6, <1>7, <1>10, <1>11 DEF LedgerKept, KeepsIdentity
  <1>13. book[rule].coverage = Coverage[rule]
    BY <1>5, <1>6, <1>12 DEF Confirms, Available, ReplayInv
  <1>14. /\ step.output = Packages(rule, step.base) /\ step.purchase = Packages(rule, step.base)
         /\ step.waste = Waste(rule, step.base)
    BY <1>5, <1>6, <1>12 DEF Confirms, Verifies
  <1>15. Packages(rule, step.base) = Ceiling(WithWaste(rule, step.base), Coverage[rule])
    BY <1>13 DEF Packages
  <1> QED
    BY <1>4, <1>6, <1>9, <1>10, <1>12, <1>14, <1>15 DEF LineCount

\* Its lines are what their inputs come to.
LEMMA ConfirmedLine ==
    ASSUME ReplayInv, ledger # <<>>, InOrder, Confirms,
           NEW i \in DOMAIN estimate.lines,
           ledger[i].inputs = estimate.inputs,
           ledger[i].base = Base(estimate.lines[i], estimate.inputs)
    PROVE  estimate.lines[i] = "drywall_sheet"
             \/ ledger[i].output = Base(estimate.lines[i], estimate.inputs)
  <1>1. Expanded /\ LedgerKept
    BY DEF ReplayInv
  <1>2. LineCount \in Nat /\ DOMAIN estimate.lines = 1 .. LineCount
    BY <1>1, CountOfLines
  <1>3. i \in DOMAIN ledger /\ i <= LineCount
    BY <1>1, <1>2 DEF LedgerKept
  <1>4. PICK step : step = ledger[i]
    OBVIOUS
  <1>5. step.sequence = i
    BY <1>3, <1>4 DEF InOrder
  <1>6. step.kind = "assembly" /\ step.material = estimate.lines[i]
    BY <1>1, <1>3, <1>4, <1>5 DEF LedgerKept, KeepsIdentity, OriginalStep
  <1>7. step.output = Recompute(step)
    BY <1>3, <1>4, <1>6 DEF Confirms, Verifies
  <1> QED
    BY <1>4, <1>6, <1>7 DEF Recompute

\* What an alteration leaves of a ledger.
LEMMA AlteredKeeps ==
    ASSUME ReplayInv, ledger # <<>>, NEW i \in DOMAIN ledger,
           AlterQuantities(i) \/ SwapSteps(i)
    PROVE  LedgerKept' /\ ledger' # <<>>
  <1>1. LedgerKept /\ altered \in Nat
    BY DEF ReplayInv
  <1>2. altered' # 0 /\ UNCHANGED estimate
    BY <1>1 DEF AlterQuantities, SwapSteps
  <1>3. \A s : KeepsIdentity(s) => KeepsIdentity(s)'
    BY <1>2 DEF KeepsIdentity, OriginalStep, LineCount
  <1>4. LineCount' = LineCount
    BY <1>2 DEF LineCount
  <1>5. ASSUME AlterQuantities(i)
        PROVE  DOMAIN ledger' = DOMAIN ledger /\ \A j \in DOMAIN ledger : KeepsIdentity(ledger'[j])
    <2>1. PICK some, change : ledger' = [ledger EXCEPT ![i] = Rewritten(ledger[i], some, change)]
      BY <1>5 DEF AlterQuantities
    <2>2. PICK s : s = ledger[i]
      OBVIOUS
    <2>3. KeepsIdentity(s)
      BY <1>1, <2>2 DEF LedgerKept
    <2>4. PICK t : t = Rewritten(s, some, change)
      OBVIOUS
    <2>5. DOMAIN s = StepFields
      BY <2>3 DEF KeepsIdentity
    <2>6. /\ DOMAIN t = StepFields /\ t.sequence = s.sequence /\ t.kind = s.kind
          /\ t.material = s.material /\ t.version = s.version
      BY <2>4, <2>5 DEF StepFields, Rewritten
    <2>7. KeepsIdentity(t)
      BY <2>3, <2>6 DEF KeepsIdentity
    <2> QED
      BY <1>1, <2>1, <2>2, <2>4, <2>7 DEF LedgerKept
  <1>6. ASSUME SwapSteps(i)
        PROVE  DOMAIN ledger' = DOMAIN ledger /\ \A j \in DOMAIN ledger : KeepsIdentity(ledger'[j])
    <2>1. /\ i + 1 \in DOMAIN ledger
          /\ ledger' = [ledger EXCEPT ![i] = ledger[i + 1], ![i + 1] = ledger[i]]
      BY <1>6 DEF SwapSteps
    <2> QED
      BY <1>1, <2>1 DEF LedgerKept
  <1>7. DOMAIN ledger' = DOMAIN ledger /\ \A j \in DOMAIN ledger' : KeepsIdentity(ledger'[j])
    BY <1>5, <1>6
  <1>8. \A j \in DOMAIN ledger' : KeepsIdentity(ledger[j])'
    <2> SUFFICES ASSUME NEW j \in DOMAIN ledger' PROVE KeepsIdentity(ledger[j])'
      OBVIOUS
    <2>1. PICK s : s = ledger'[j]
      OBVIOUS
    <2>2. KeepsIdentity(s)'
      BY <1>3, <1>7, <2>1
    <2> QED
      BY <2>1, <2>2 DEF KeepsIdentity
  <1>9. ledger' # <<>>
    BY <1>7
  <1> QED
    BY <1>1, <1>2, <1>4, <1>7, <1>8, <1>9 DEF LedgerKept

\* Replay confirms or refuses; the order in which it stops does not matter for which.
LEMMA ReplayDecides ==
    ASSUME Replay PROVE ledger # <<>> /\ (verdict' = "ok" <=> InOrder /\ Confirms)
  <1> DEFINE bad == {i \in DOMAIN ledger :
                       ~Available(ledger[i]) \/ ~Verifies(ledger[i])}
  <1>1. verdict' = CASE ~InOrder                    -> "missing"
                     [] InOrder /\ bad = {}         -> "ok"
                     [] OTHER -> IF Available(ledger[Min(bad)]) THEN "mismatch" ELSE "missing"
    BY DEF Replay
  <1>2. bad = {} <=> Confirms
    BY DEF Confirms
  <1> HIDE DEF bad
  <1>3. CASE ~InOrder
    BY <1>1, <1>3 DEF Replay
  <1>4. CASE InOrder /\ bad = {}
    BY <1>1, <1>2, <1>4 DEF Replay
  <1>5. CASE InOrder /\ bad # {}
    BY <1>1, <1>2, <1>5 DEF Replay
  <1> QED
    BY <1>3, <1>4, <1>5

LEMMA ReplayStep == ReplayInv /\ [EstimateNext]_estimateVars => ReplayInv'
  <1> SUFFICES ASSUME ReplayInv, [EstimateNext]_estimateVars PROVE ReplayInv'
    OBVIOUS
  <1>0. estimate.family = "none" => ledger = <<>> /\ verdict = "none" /\ FirstBook
    BY DEF ReplayInv
  <1>1. ASSUME NEW family \in Families, NEW names \in InputNames[family],
               NEW in \in [names -> Measures \cup {Unknown}], NEW overrides,
               \A x \in DOMAIN overrides : overrides[x] \in Materials,
               estimate.family = "none", Expand(family, in, overrides)
        PROVE  ReplayInv'
    <2>1. "none" \notin Families
      BY DEF Families, InputNames
    <2>2. Expanded'
      BY <1>0, <1>1, ExpandExpands
    <2>3. estimate'.family # "none"
      BY <2>1, <2>2 DEF Expanded
    <2>4. UNCHANGED <<ledger, book, altered, verdict>>
      BY <1>1 DEF Expand
    <2> QED
      BY <1>0, <1>1, <2>2, <2>3, <2>4 DEF ReplayInv
  <1>2. ASSUME UNCHANGED estimate
        PROVE  /\ Expanded => Expanded'
               /\ \A i : OriginalStep(i)' = OriginalStep(i)
               /\ LineCount' = LineCount
    BY <1>2 DEF Expanded, ConversionsExpanded, OriginalStep, LineCount
  <1>3. CASE BuildLedger
    <2>1. UNCHANGED <<estimate, book, altered, verdict>> /\ estimate.family # "none" /\ ledger = <<>>
      BY <1>3 DEF BuildLedger
    <2>2. ledger' = [i \in 1 .. 2 * LineCount |-> OriginalStep(i)]
      BY <1>3 DEF BuildLedger, OriginalStep, LineCount
    <2>3. Expanded /\ LineCount \in Nat /\ DOMAIN estimate.lines = 1 .. LineCount
      BY <2>1, CountOfLines DEF ReplayInv
    <2>4. ASSUME NEW i \in 1 .. 2 * LineCount PROVE KeepsIdentity(OriginalStep(i))'
      <3>1. OriginalStep(i).sequence = i /\ DOMAIN OriginalStep(i) = StepFields
        BY DEF OriginalStep, StepFields
      <3>2. KeepsIdentity(OriginalStep(i))
        BY <3>1 DEF KeepsIdentity
      <3> QED
        BY <1>2, <2>1, <3>2 DEF KeepsIdentity, OriginalStep, LineCount
    <2>5. LedgerKept'
      <3>1. DOMAIN ledger' = 1 .. 2 * LineCount'
        BY <1>2, <2>1, <2>2
      <3>2. \A i \in DOMAIN ledger' : ledger'[i] = OriginalStep(i)'
        BY <1>2, <2>1, <2>2
      <3>3. ASSUME NEW i \in DOMAIN ledger' PROVE KeepsIdentity(ledger[i])'
        <4>1. ledger'[i] = OriginalStep(i)' /\ i \in 1 .. 2 * LineCount
          BY <2>2, <3>2, <3>3
        <4>2. KeepsIdentity(OriginalStep(i))'
          BY <2>4, <4>1
        <4> QED
          BY <4>1, <4>2 DEF KeepsIdentity
      <3> QED
        BY <3>1, <3>2, <3>3 DEF LedgerKept
    <2> QED
      BY <1>2, <2>1, <2>3, <2>5 DEF ReplayInv, FirstBook
  <1>4. CASE Replay
    <2>1. UNCHANGED <<estimate, ledger, book, altered>> /\ ledger # <<>>
      BY <1>4 DEF Replay
    <2>2. verdict' = "ok" <=> InOrder /\ Confirms
      BY <1>4, ReplayDecides
    <2>3. InOrder' = InOrder /\ Confirms' = Confirms
      BY <2>1 DEF InOrder, Confirms, Available, Verifies, Recompute, Packages
    <2>4. LedgerKept'
      BY <1>2, <2>1 DEF ReplayInv, LedgerKept, KeepsIdentity
    <2> QED
      BY <1>2, <2>1, <2>2, <2>3, <2>4 DEF ReplayInv, FirstBook
  <1>5. ASSUME NEW i \in DOMAIN ledger, AlterQuantities(i) \/ SwapSteps(i) PROVE ReplayInv'
    <2>1. UNCHANGED <<estimate, book, verdict>> /\ verdict = "none" /\ altered' = altered + 1
      BY <1>5 DEF AlterQuantities, SwapSteps
    <2>2. ledger # <<>>
      BY <1>5
    <2>3. LedgerKept' /\ ledger' # <<>>
      BY <1>5, <2>2, AlteredKeeps
    <2> QED
      BY <1>2, <2>1, <2>2, <2>3 DEF ReplayInv, FirstBook
  <1>6. ASSUME NEW m \in Materials, UpgradeRule(m) PROVE ReplayInv'
    <2>1. /\ UNCHANGED <<estimate, ledger, altered, verdict>> /\ verdict = "none"
          /\ estimate.family # "none"
      BY <1>6 DEF UpgradeRule
    <2>2. PICK cover \in NewCoverages :
             book' = [book EXCEPT ![m] = [version |-> 2, coverage |-> cover]]
      BY <1>6 DEF UpgradeRule
    <2>3. \A n \in Materials : book'[n].version = 1 => book'[n].coverage = Coverage[n]
      <3> SUFFICES ASSUME NEW n \in Materials, book'[n].version = 1
                   PROVE  book'[n].coverage = Coverage[n]
        OBVIOUS
      <3>1. book'[n] = book[n] \/ book'[n] = [version |-> 2, coverage |-> cover]
        BY <2>2
      <3>2. book'[n] # [version |-> 2, coverage |-> cover]
        BY <3>1
      <3> QED
        BY <3>1, <3>2 DEF ReplayInv
    <2>4. ledger # <<>> => LedgerKept'
      BY <1>2, <2>1 DEF ReplayInv, LedgerKept, KeepsIdentity
    <2> QED
      BY <1>2, <2>1, <2>3, <2>4 DEF ReplayInv
  <1>7. CASE UNCHANGED estimateVars
    <2>1. UNCHANGED <<estimate, ledger, book, altered, verdict>>
      BY <1>7 DEF estimateVars
    <2>2. InOrder' = InOrder /\ Confirms' = Confirms
      BY <2>1 DEF InOrder, Confirms, Available, Verifies, Recompute, Packages
    <2>3. LedgerKept => LedgerKept'
      BY <1>2, <2>1 DEF LedgerKept, KeepsIdentity
    <2> QED
      BY <1>2, <2>1, <2>2, <2>3 DEF ReplayInv, FirstBook
  <1>8. ASSUME estimate.family = "none",
               NEW family \in Families, NEW names \in InputNames[family],
               NEW in \in [names -> Measures \cup {Unknown}],
               \/ Expand(family, in, <<>>)
               \/ \E m \in Materials \ {"flooring_plank"} :
                     Expand(family, in, [x \in {m} |-> "flooring_plank"])
        PROVE  ReplayInv'
    <2>1. "flooring_plank" \in Materials
      BY DEF Materials, Coverage
    <2>2. CASE Expand(family, in, <<>>)
      BY <1>1, <1>8, <2>2
    <2>3. ASSUME NEW m, Expand(family, in, [x \in {m} |-> "flooring_plank"])
          PROVE  ReplayInv'
      BY <1>1, <1>8, <2>1, <2>3
    <2> QED
      BY <1>8, <2>2, <2>3
  <1> QED
    BY <1>3, <1>4, <1>5, <1>6, <1>7, <1>8 DEF EstimateNext

\* For any measured inputs, any alteration of the quantities or the order of a stored ledger
\* and any later rules: the results of a ledger that replays are those of the bases it records,
\* under the rules they were calculated with, and those that were calculated if the bases still
\* are; and a ledger nobody altered replays as long as its rules are there and no drywall
\* ceiling is in it (execute_ledger_replay).
THEOREM ReplayAlwaysSound == EstimateSpec => []ReplayIsSound
  <1>1. EstimateInit => ReplayInv
    BY DEF EstimateInit, ReplayInv, FirstBook, NoEstimate
  <1>2. ReplayInv => ReplayIsSound
    <2> SUFFICES ASSUME ReplayInv PROVE ReplayIsSound
      OBVIOUS
    <2>1. HonestLedgersReplay
      BY HonestConfirms DEF HonestLedgersReplay, ReplayInv
    <2>2. ASSUME verdict = "ok" PROVE AlteredResultsAreRefused
      <3>1. ledger # <<>> /\ InOrder /\ Confirms
        BY <2>2 DEF ReplayInv
      <3> QED
        BY <3>1, ConfirmedConversion, ConfirmedLine DEF AlteredResultsAreRefused
    <2> QED
      BY <2>1, <2>2 DEF ReplayIsSound, AlteredResultsAreRefused
  <1> QED
    BY <1>1, <1>2, ReplayStep, PTL DEF EstimateSpec

----------------------------------------------------------------------------
(* Takeoffs: the arithmetic of rounding up, and of fractions in lower terms. *)

LEMMA CeilingIsNat ==
    ASSUME NEW a \in Nat, NEW b \in Nat \ {0}
    PROVE  Ceiling(a, b) \in Nat
  <1>1. CASE a = 0
    BY <1>1 DEF Ceiling
  <1>2. CASE a # 0
    <2>1. (a + b - 1) \div b >= 0 /\ (a + b - 1) \div b \in Int
      BY <1>2
    <2> QED
      BY <1>2, <2>1 DEF Ceiling
  <1> QED
    BY <1>1, <1>2

\* Two numbers that are enough, neither more than is needed, are one.
LEMMA OneLeast ==
    ASSUME NEW a \in Nat, NEW b \in Nat \ {0}, NEW x \in Nat, NEW y \in Nat,
           x * b >= a, x > 0 => (x - 1) * b < a,
           y * b >= a, y > 0 => (y - 1) * b < a
    PROVE  x = y
  <1>1. ASSUME NEW p \in Nat, NEW q \in Nat, p < q, p * b >= a, (q - 1) * b < a PROVE FALSE
    <2>1. q - 1 \in Nat /\ p <= q - 1
      BY <1>1
    <2>2. p * b <= (q - 1) * b
      BY <2>1
    <2>3. p * b \in Int /\ (q - 1) * b \in Int
      BY <2>1
    <2> QED
      BY <1>1, <2>2, <2>3
  <1>2. ~(x < y)
    BY <1>1
  <1>3. ~(y < x)
    BY <1>1
  <1> QED
    BY <1>2, <1>3

\* Rounding up what may lie beyond a multiple: never less than is needed, and at most one more.
LEMMA RoundUpIsLeast ==
    ASSUME NEW rounded, NEW a \in Nat, NEW b \in Nat \ {0}, NEW n \in RoundUp(rounded, a, b)
    PROVE  /\ n \in Nat /\ n * b >= a
           /\ n > 0 => (n - 1) * b < a \/ (rounded /\ (n - 1) * b = a)
           /\ n - Ceiling(a, b) \in 0 .. (IF rounded THEN 1 ELSE 0)
  <1>1. PICK x \in Nat : x = Ceiling(a, b)
    BY CeilingIsNat
  <1>2. x * b >= a /\ (x > 0 => (x - 1) * b < a)
    BY <1>1, CeilingIsLeast
  <1>3. CASE n = x
    BY <1>1, <1>2, <1>3
  <1>4. CASE rounded /\ n = Ceiling(a + 1, b)
    <2>1. PICK y \in Nat : y = n
      BY <1>4, CeilingIsNat
    <2>2. y * b >= a + 1 /\ (y > 0 => (y - 1) * b < a + 1)
      BY <1>4, <2>1, CeilingIsLeast
    <2>3. y > 0
      BY <2>2
    <2>4. PICK p \in Int : p = (y - 1) * b
      OBVIOUS
    <2>5. p <= a
      BY <2>2, <2>3, <2>4
    <2>6. y <= x + 1
      <3> SUFFICES ASSUME y - 1 >= x + 1 PROVE FALSE
        OBVIOUS
      <3>1. p >= (x + 1) * b /\ (x + 1) * b = x * b + b /\ x * b \in Int
        BY <2>4
      <3> QED
        BY <1>2, <2>5, <3>1
    <2>7. y >= x
      <3> SUFFICES ASSUME y <= x - 1 PROVE FALSE
        OBVIOUS
      <3>1. y * b <= (x - 1) * b /\ x > 0 /\ y * b \in Int /\ (x - 1) * b \in Int
        OBVIOUS
      <3> QED
        BY <1>2, <2>2, <3>1
    <2>8. y * b \in Int /\ y * b >= a
      BY <2>2
    <2>9. y - x \in 0 .. 1
      BY <2>6, <2>7
    <2> QED
      BY <1>1, <1>4, <2>1, <2>4, <2>5, <2>8, <2>9
  <1> QED
    BY <1>1, <1>3, <1>4 DEF RoundUp

\* The same fraction in other terms is rounded to the same number.
LEMMA CeilingScales ==
    ASSUME NEW a \in Nat, NEW b \in Nat \ {0}, NEW k \in Nat \ {0}
    PROVE  Ceiling(a * k, b * k) = Ceiling(a, b)
  <1>0. a * k \in Nat /\ b * k \in Nat \ {0}
    OBVIOUS
  <1>1. PICK x \in Nat : x = Ceiling(a, b)
    BY CeilingIsNat
  <1>2. PICK y \in Nat : y = Ceiling(a * k, b * k)
    BY <1>0, CeilingIsNat
  <1>3. x * b >= a /\ (x > 0 => (x - 1) * b < a)
    BY <1>1, CeilingIsLeast
  <1>4. y * (b * k) >= a * k /\ (y > 0 => (y - 1) * (b * k) < a * k)
    BY <1>0, <1>2, CeilingIsLeast
  <1>5. ASSUME NEW m \in Int, NEW n \in Int, m * k >= n * k PROVE m >= n
    BY <1>5
  <1>6. ASSUME NEW m \in Int, NEW n \in Int, m * k < n * k PROVE m < n
    BY <1>6
  <1>7. y * (b * k) = (y * b) * k /\ (y - 1) * (b * k) = ((y - 1) * b) * k
    OBVIOUS
  <1>8. y * b \in Int /\ (y - 1) * b \in Int
    OBVIOUS
  <1>9. y * b >= a /\ (y > 0 => (y - 1) * b < a)
    BY <1>4, <1>5, <1>6, <1>7, <1>8
  <1> QED
    BY <1>1, <1>2, <1>3, <1>9, OneLeast

LEMMA QuotientOf ==
    ASSUME NEW k \in Nat \ {0}, NEW m \in Int
    PROVE  (k * m) \div k = m
  <1>1. PICK d \in Int : d = (k * m) \div k
    OBVIOUS
  <1>2. PICK r \in 0 .. k - 1 : k * m = k * d + r
    BY <1>1
  <1>3. k * (m - d) = r /\ m - d \in Int
    BY <1>2
  <1>4. m - d = 0
    BY <1>3
  <1> QED
    BY <1>1, <1>4

LEMMA ExactQuotient ==
    ASSUME NEW k \in Nat \ {0}, NEW n \in Int, n % k = 0
    PROVE  n \div k \in Int /\ n = k * (n \div k)
  OBVIOUS

\* A quantity and its waste, the fraction (100 + waste) / 100 divided through by c.
InLowerTerms(q, policy, c, u, v) ==
    /\ u * c = 100 + WastePercent[policy] /\ v * c = 100
    /\ Gross(q, policy) = [num |-> q.num * u, den |-> q.den * v]

LEMMA GrossOfWaste ==
    ASSUME NEW q, NEW policy \in Materials
    PROVE  \E c, u, v \in Nat \ {0} : InLowerTerms(q, policy, c, u, v)
  <1>0. policy # Unknown
    BY TakeoffAssumption
  <1>1. PICK w \in Nat : w = WastePercent[policy]
    BY RegistryFacts
  <1>2. PICK T : T = {k \in 1 .. 100 : 100 % k = 0 /\ w % k = 0}
    OBVIOUS
  <1>3. T \subseteq 0 .. 100 /\ 1 \in T
    BY <1>2
  <1>4. PICK c : c = Max(T)
    OBVIOUS
  <1>5. c \in T
    <2>1. \E x \in T : \A y \in T : x >= y
      BY <1>3, GreatestNatural
    <2> QED
      BY <1>4, <2>1 DEF Max
  <1>6. c \in Nat \ {0} /\ 100 % c = 0 /\ w % c = 0
    BY <1>2, <1>5
  <1>7. PICK v \in Int : v = 100 \div c /\ 100 = c * v
    BY <1>6, ExactQuotient
  <1>8. PICK p \in Int : p = w \div c /\ w = c * p
    BY <1>6, ExactQuotient
  <1>9. 100 + w = c * (v + p)
    BY <1>6, <1>7, <1>8
  <1>10. (100 + w) \div c = v + p
    BY <1>6, <1>9, QuotientOf
  <1>11. v \in Nat \ {0} /\ p \in Nat
    BY <1>6, <1>7, <1>8
  <1>12. Gross(q, policy) = [num |-> q.num * (v + p), den |-> q.den * v]
    BY <1>0, <1>1, <1>2, <1>4, <1>7, <1>10 DEF Gross
  <1>13. PICK u \in Nat \ {0} : u = v + p
    BY <1>11
  <1>14. Gross(q, policy) = [num |-> q.num * u, den |-> q.den * v]
    BY ONLY <1>12, <1>13
  <1>15. u * c = 100 + WastePercent[policy] /\ v * c = 100
    BY <1>1, <1>6, <1>7, <1>9, <1>11, <1>13
  <1>16. InLowerTerms(q, policy, c, u, v)
    BY <1>14, <1>15 DEF InLowerTerms
  <1>17. c \in Nat \ {0} /\ v \in Nat \ {0}
    BY <1>6, <1>11
  <1> QED
    BY ONLY <1>13, <1>16, <1>17

LEMMA GrossKeepsType ==
    ASSUME NEW q, q.num \in Int, q.den \in Int, q.den >= 4, NEW policy, Applicable(policy)
    PROVE  /\ Gross(q, policy).num \in Int
           /\ Gross(q, policy).den \in Int /\ Gross(q, policy).den >= q.den
           /\ q.num >= 0 => Gross(q, policy).num >= 0
           /\ Gross(q, policy).num >= 0 => q.num >= 0
  <1>1. CASE policy = Unknown
    BY <1>1 DEF Gross
  <1>2. CASE policy # Unknown
    <2>1. policy \in Materials
      BY <1>2 DEF Applicable, Registered
    <2>2. PICK u \in Nat \ {0}, v \in Nat \ {0} :
             Gross(q, policy) = [num |-> q.num * u, den |-> q.den * v]
      BY <2>1, GrossOfWaste DEF InLowerTerms
    <2>3. q.num * u \in Int /\ q.den * v \in Int /\ q.den * v >= q.den
      OBVIOUS
    <2>4. (q.num >= 0 => q.num * u >= 0) /\ (q.num * u >= 0 => q.num >= 0)
      OBVIOUS
    <2> QED
      BY <2>2, <2>3, <2>4
  <1> QED
    BY <1>1, <1>2

----------------------------------------------------------------------------
(* A length is what is written. *)

WrittenAs(l) ==
    LET n(part) == IF part = Unknown THEN 0 ELSE part
    IN /\ l.whole # Unknown \/ n(l.num) < 10
       /\ n(l.feet) >= 0 \/ (l.whole = Unknown /\ l.num = Unknown)
       /\ n(l.whole) >= 0 \/ l.num = Unknown
       => Resolve(l) * l.den = (n(l.feet) * Foot + n(l.whole) * Inch) * l.den + n(l.num) * Inch

LEMMA LengthParts ==
    ASSUME NEW l \in Lengths, l # Unknown
    PROVE  /\ l.feet \in Int \cup {Unknown} /\ l.whole \in Int \cup {Unknown}
           /\ l.num \in Int \cup {Unknown} /\ l.den \in {0, 1, 2, 4}
           /\ ~l.text => l.num = Unknown
  BY TakeoffAssumption

LEMMA FractionOfInch ==
    ASSUME NEW n \in Int, NEW d \in {1, 2, 4}
    PROVE  (n * 4) \div d \in Int /\ ((n * 4) \div d) * d = n * 4
  OBVIOUS

LEMMA InchesAreInt ==
    ASSUME NEW l \in Lengths, Resolvable(l)
    PROVE  /\ Inches(l) \in Int /\ Resolve(l) \in Int
           /\ l.whole # Unknown \/ l.num = Unknown \/ l.num < 10 =>
                 Inches(l) = (IF l.whole = Unknown THEN 0 ELSE l.whole * 4)
                             + (IF l.num = Unknown THEN 0 ELSE (l.num * 4) \div l.den)
           /\ l.num # Unknown => l.den \in {1, 2, 4}
  <1>1. l # Unknown
    BY DEF Resolvable
  <1>2. /\ l.feet \in Int \cup {Unknown} /\ l.whole \in Int \cup {Unknown}
        /\ l.num \in Int \cup {Unknown} /\ l.den \in {0, 1, 2, 4}
        /\ ~l.text => l.num = Unknown
    BY <1>1, LengthParts
  <1>3. l.num # Unknown => l.den \in {1, 2, 4}
    BY <1>2 DEF Resolvable, NumberOf, Parses
  <1>4. PICK feet, whole, num, den :
           feet = l.feet /\ whole = l.whole /\ num = l.num /\ den = l.den
    OBVIOUS
  <1>6. CASE num = Unknown
    <2>1. Inches(l) = (IF whole = Unknown THEN 0 ELSE whole) * 4 + 0
      BY <1>2, <1>4, <1>6 DEF Inches, Inch
    <2> QED
      BY <1>2, <1>4, <1>6, <2>1 DEF Resolve, Foot, Inch
  <1>7. CASE num # Unknown /\ whole # Unknown
    <2>1. Inches(l) = whole * 4 + ((num * 4) \div den)
      BY <1>2, <1>4, <1>7 DEF Inches, Inch
    <2>2. (num * 4) \div den \in Int
      BY <1>2, <1>3, <1>4, <1>7, FractionOfInch
    <2>3. Inches(l) \in Int
      BY <1>2, <1>4, <1>7, <2>1, <2>2
    <2>4. Resolve(l) \in Int
      BY <1>2, <2>3 DEF Resolve, Foot, Inch
    <2> QED
      BY <1>3, <1>4, <1>7, <2>1, <2>3, <2>4
  <1>8. CASE num # Unknown /\ whole = Unknown
    <2>0. num \in Int /\ den \in {1, 2, 4}
      BY <1>2, <1>3, <1>4, <1>8
    <2>1. CASE num >= 10
      <3>1. PICK s \in Int, t \in Int : s = num \div 10 /\ t = num % 10
        BY <2>0
      <3>2. Inches(l) = s * 4 + ((t * 4) \div den)
        <4>1. l.whole = Unknown /\ l.num # Unknown /\ l.num >= 10 /\ l.den = den
          BY <1>4, <1>8, <2>1
        <4>2. l.num \div 10 = s /\ l.num % 10 = t
          BY <1>4, <3>1
        <4> QED
          BY <4>1, <4>2, Zenon DEF Inches, Inch
      <3>3. (t * 4) \div den \in Int
        BY <2>0, FractionOfInch
      <3>4. Inches(l) \in Int
        BY <3>2, <3>3
      <3>5. Resolve(l) \in Int
        BY <1>2, <3>4 DEF Resolve, Foot, Inch
      <3> QED
        BY <1>3, <1>4, <1>8, <2>0, <2>1, <3>4, <3>5
    <2>2. CASE ~(num >= 10)
      <3>1. Inches(l) = 0 * 4 + ((num * 4) \div den)
        BY <1>4, <1>8, <2>0, <2>2 DEF Inches, Inch
      <3>2. (num * 4) \div den \in Int
        BY <2>0, FractionOfInch
      <3>3. Inches(l) \in Int
        BY <3>1, <3>2
      <3>4. Resolve(l) \in Int
        BY <1>2, <3>3 DEF Resolve, Foot, Inch
      <3> QED
        BY <1>3, <1>4, <1>8, <3>1, <3>2, <3>3, <3>4
    <2> QED
      BY <2>1, <2>2
  <1> QED
    BY <1>6, <1>7, <1>8

LEMMA ReadAsWritten ==
    ASSUME NEW l \in Lengths, Resolvable(l)
    PROVE  WrittenAs(l)
  <1>1. l # Unknown
    BY DEF Resolvable
  <1> DEFINE n(part) == IF part = Unknown THEN 0 ELSE part
  <1>2. /\ l.feet \in Int \cup {Unknown} /\ l.whole \in Int \cup {Unknown}
        /\ l.num \in Int \cup {Unknown} /\ l.den \in {0, 1, 2, 4}
    BY <1>1, LengthParts
  <1>3. SUFFICES ASSUME l.whole # Unknown \/ n(l.num) < 10
                 PROVE  Resolve(l) * l.den
                          = (n(l.feet) * Foot + n(l.whole) * Inch) * l.den + n(l.num) * Inch
    BY DEF WrittenAs
  <1>4. PICK f \in Int : f = n(l.feet)
    BY <1>2
  <1>5. PICK w \in Int : w = n(l.whole)
    BY <1>2
  <1>6. PICK k \in Int : k = IF l.num = Unknown THEN 0 ELSE (l.num * 4) \div l.den
    BY <1>2, InchesAreInt, FractionOfInch
  <1>7. l.whole # Unknown \/ l.num = Unknown \/ l.num < 10
    BY <1>3
  <1>8. Inches(l) = w * 4 + k
    BY <1>2, <1>5, <1>6, <1>7, InchesAreInt
  <1>9. k * l.den = n(l.num) * 4
    BY <1>2, <1>6, InchesAreInt, FractionOfInch
  <1>10. Resolve(l) = f * 48 + w * 4 + k
    BY <1>2, <1>4, <1>8 DEF Resolve, Foot, Inch
  <1>11. PICK d \in Int : d = l.den
    BY <1>2
  <1>12. (f * 48 + w * 4 + k) * d = (f * 48 + w * 4) * d + k * d
    OBVIOUS
  <1> QED
    BY <1>4, <1>5, <1>9, <1>10, <1>11, <1>12 DEF Foot, Inch

----------------------------------------------------------------------------
(* What every result of a takeoff is, and where it came from. *)

\* Its lengths were read as they are resolved.
ReadRight(r) ==
    \A j \in DOMAIN r.given :
        r.given[j] \in Lengths /\ Resolvable(r.given[j]) /\ r.inputs[j] = Resolve(r.given[j])

Sized(q) == q.num \in Int /\ q.den \in Int /\ q.den >= 4

Net(r) == [num |-> r.inputs[1], den |-> r.inputs[2]]

\* A slab with the waste of concrete is the product of its sides with it.
SlabOf(r) ==
    /\ r.inputs[1] \in Int /\ r.inputs[2] \in Int /\ r.inputs[3] \in Int
    /\ [num |-> r.num, den |-> r.den]
         = Gross([num |-> r.inputs[1] * r.inputs[2] * r.inputs[3],
                  den |-> Foot * Foot * Foot], r.policy)

\* What was bought was rounded up from what it covers.
RoundedUp(r) ==
    /\ Sized(Net(r)) /\ r.inputs[1] >= 0 /\ r.inputs[3] \in Nat \ {0}
    /\ Applicable(r.policy)
    /\ r.formula = "piece" =>
          LET gross == Gross(Net(r), r.policy)
          IN r.num \in RoundUp(r.rounded, gross.num * 100, gross.den * r.inputs[3])
    /\ r.formula = "purchase" =>
          r.policy = Unknown
          /\ r.num \in RoundUp(r.rounded, r.inputs[1],
                               (r.inputs[2] \div 4) * 27 * r.inputs[3])

Sound(r) ==
    /\ ReadRight(r)
    /\ r.unit \in {"sq_ft", "cu_ft"} => Sized(r)
    /\ r.unit = "cu_ft" /\ r.policy = "ready_mix" => SlabOf(r)
    /\ r.formula \in {"piece", "purchase"} => RoundedUp(r)

\* Concrete is bought for the result before it.
BoughtFor(r, slab) ==
    slab.unit = "cu_ft" /\ r.inputs[1] = slab.num /\ r.inputs[2] = slab.den

ResultsInv ==
    /\ IsSeq(results)
    /\ \A i \in DOMAIN results : Sound(results[i])
    /\ \A i \in DOMAIN results :
          results[i].formula = "purchase" /\ i > 1 => BoughtFor(results[i], results[i - 1])

TakeoffInv == FirstBook /\ ResultsInv

LEMMA MeasureStep ==
    ASSUME NEW formula \in DOMAIN Formulas \ {"piece", "purchase"}, NEW lengths, NEW policy, NEW q,
           Measure(formula, lengths, policy, q),
           \A j \in DOMAIN lengths : lengths[j] \in Lengths,
           Formulas[formula] \in {"sq_ft", "cu_ft"} => Sized(q),
           Formulas[formula] = "cu_ft" =>
              \E a, b, c \in Lengths : lengths = <<a, b, c>> /\ q = Product3(a, b, c)
    PROVE  ResultsInv'
  <1> DEFINE inputs == [i \in DOMAIN lengths |-> Resolve(lengths[i])]
             rounded == \E i \in DOMAIN lengths : Rounded(lengths[i])
  <1>1. PICK r : r = QuantityResult(formula, lengths, inputs, policy, rounded, Gross(q, policy))
    OBVIOUS
  <1>2. /\ results' = <<r>> /\ Applicable(policy)
        /\ \A j \in DOMAIN lengths : Resolvable(lengths[j])
    BY <1>1 DEF Measure
  <1>3. PICK g : g = Gross(q, policy)
    OBVIOUS
  <1>4. /\ r.formula = formula /\ r.unit = Formulas[formula] /\ r.given = lengths
        /\ r.inputs = inputs /\ r.policy = policy /\ r.num = g.num /\ r.den = g.den
    BY <1>1, <1>3 DEF QuantityResult
  <1>5. ReadRight(r)
    BY <1>2, <1>4 DEF ReadRight
  <1>6. r.unit \in {"sq_ft", "cu_ft"} => Sized(r)
    <2> SUFFICES ASSUME r.unit \in {"sq_ft", "cu_ft"} PROVE Sized(r)
      OBVIOUS
    <2>1. q.num \in Int /\ q.den \in Int /\ q.den >= 4
      BY <1>4 DEF Sized
    <2>2. g.num \in Int /\ g.den \in Int /\ g.den >= q.den
      BY <1>2, <1>3, <2>1, GrossKeepsType
    <2> QED
      BY <1>4, <2>1, <2>2 DEF Sized
  <1>7. ASSUME r.unit = "cu_ft" PROVE SlabOf(r)
    <2>1. PICK a \in Lengths, b \in Lengths, c \in Lengths :
             lengths = <<a, b, c>> /\ q = Product3(a, b, c)
      BY <1>4, <1>7
    <2>2. Resolvable(a) /\ Resolvable(b) /\ Resolvable(c)
      BY <1>2, <2>1
    <2>3. Resolve(a) \in Int /\ Resolve(b) \in Int /\ Resolve(c) \in Int
      BY <2>2, InchesAreInt
    <2>4. r.inputs[1] = Resolve(a) /\ r.inputs[2] = Resolve(b) /\ r.inputs[3] = Resolve(c)
      BY <1>4, <2>1
    <2>5. q = [num |-> r.inputs[1] * r.inputs[2] * r.inputs[3], den |-> Foot * Foot * Foot]
      BY <2>1, <2>4 DEF Product3
    <2>6. g = [num |-> g.num, den |-> g.den]
      BY <1>3 DEF Gross
    <2> QED
      BY <1>3, <1>4, <2>3, <2>4, <2>5, <2>6 DEF SlabOf
  <1>8. Sound(r)
    BY <1>4, <1>5, <1>6, <1>7 DEF Sound
  <1>9. /\ IsSeq(<<r>>) /\ DOMAIN <<r>> = {1} /\ <<r>>[1] = r
    <2>1. <<r>> \in Seq({r}) /\ DOMAIN <<r>> = {1} /\ <<r>>[1] = r
      OBVIOUS
    <2>2. IsSeq(<<r>>)
      BY <2>1, Zenon DEF IsSeq
    <2> QED
      BY <2>1, <2>2
  <1>10. PICK s : s = <<r>>
    OBVIOUS
  <1>11. /\ IsSeq(s) /\ \A i \in DOMAIN s : i = 1 /\ s[i] = r
    BY <1>9, <1>10
  <1>12. results' = s
    BY <1>2, <1>10
  <1>13. /\ IsSeq(results') /\ \A i \in DOMAIN results' : Sound(results'[i]) /\ ~(i > 1)
    BY <1>8, <1>11, <1>12
  <1> QED
    BY <1>13 DEF ResultsInv

LEMMA AreaIsSized ==
    ASSUME NEW a \in Lengths, NEW b \in Lengths, Resolvable(a), Resolvable(b)
    PROVE  Sized(Product(a, b)) /\ Sized([Product(a, b) EXCEPT !.den = 2 * @])
  <1>1. PICK x \in Int, y \in Int : x = Resolve(a) /\ y = Resolve(b)
    BY InchesAreInt
  <1>2. Product(a, b) = [num |-> x * y, den |-> 2304]
    BY <1>1 DEF Product, Foot, Inch
  <1>3. x * y \in Int
    OBVIOUS
  <1> QED
    BY <1>2, <1>3 DEF Sized

LEMMA VolumeIsSized ==
    ASSUME NEW a \in Lengths, NEW b \in Lengths, NEW c \in Lengths,
           Resolvable(a), Resolvable(b), Resolvable(c)
    PROVE  Sized(Product3(a, b, c))
  <1>1. PICK x \in Int, y \in Int, z \in Int : x = Resolve(a) /\ y = Resolve(b) /\ z = Resolve(c)
    BY InchesAreInt
  <1>2. Product3(a, b, c) = [num |-> x * y * z, den |-> 110592]
    BY <1>1 DEF Product3, Foot, Inch
  <1>3. x * y * z \in Int
    OBVIOUS
  <1> QED
    BY <1>2, <1>3 DEF Sized

\* What is measured is read, sized, and a slab if it is of concrete.
LEMMA MeasuredStep ==
    ASSUME \/ \E lengths \in {<<>>} \cup (Lengths \X Lengths) : LinearSum(lengths)
           \/ \E a, b \in Lengths : AreaRectangle(a, b) \/ AreaTriangle(a, b)
           \/ \E length \in Lengths, width \in {4, Unknown}, pieces \in {-1, 0, 3} :
                 BoardFeet(2, width, length, pieces)
           \/ \E a, b, c \in Lengths :
                 \/ VolumeRectangular(a, b, c)
                 \/ \E policy \in Policies : ConcreteVolume(a, b, c, policy)
    PROVE  ResultsInv'
  <1> USE DEF Formulas
  <1>1. ASSUME NEW lengths \in {<<>>} \cup (Lengths \X Lengths), LinearSum(lengths)
        PROVE  ResultsInv'
    <2>1. PICK q : Measure("linear", lengths, Unknown, q)
      BY <1>1 DEF LinearSum
    <2>2. \A j \in DOMAIN lengths : lengths[j] \in Lengths
      BY <1>1
    <2> QED
      BY <2>1, <2>2, MeasureStep
  <1>2. ASSUME NEW a \in Lengths, NEW b \in Lengths, AreaRectangle(a, b) \/ AreaTriangle(a, b)
        PROVE  ResultsInv'
    <2>1. PICK formula, q :
             /\ formula \in {"rectangle", "triangle"}
             /\ Measure(formula, <<a, b>>, Unknown, q)
             /\ q \in {Product(a, b), [Product(a, b) EXCEPT !.den = 2 * @]}
      BY <1>2 DEF AreaRectangle, AreaTriangle
    <2>2. Resolvable(a) /\ Resolvable(b)
      BY <2>1 DEF Measure
    <2>3. Sized(q)
      BY <2>1, <2>2, AreaIsSized
    <2>4. \A j \in DOMAIN <<a, b>> : <<a, b>>[j] \in Lengths
      OBVIOUS
    <2> QED
      BY <2>1, <2>3, <2>4, MeasureStep
  <1>3. ASSUME NEW length \in Lengths, NEW width, NEW pieces, BoardFeet(2, width, length, pieces)
        PROVE  ResultsInv'
    <2>1. PICK q : Measure("board_foot", <<length>>, Unknown, q)
      BY <1>3 DEF BoardFeet
    <2>2. \A j \in DOMAIN <<length>> : <<length>>[j] \in Lengths
      OBVIOUS
    <2> QED
      BY <2>1, <2>2, MeasureStep
  <1>4. ASSUME NEW a \in Lengths, NEW b \in Lengths, NEW c \in Lengths, NEW policy,
               VolumeRectangular(a, b, c) \/ ConcreteVolume(a, b, c, policy)
        PROVE  ResultsInv'
    <2>1. PICK formula, p :
             formula \in {"volume", "concrete"} /\ Measure(formula, <<a, b, c>>, p, Product3(a, b, c))
      BY <1>4 DEF VolumeRectangular, ConcreteVolume
    <2>2. Resolvable(a) /\ Resolvable(b) /\ Resolvable(c)
      BY <2>1 DEF Measure
    <2>3. Sized(Product3(a, b, c))
      BY <2>2, VolumeIsSized
    <2>4. \A j \in DOMAIN <<a, b, c>> : <<a, b, c>>[j] \in Lengths
      OBVIOUS
    <2> QED
      BY <2>1, <2>3, <2>4, MeasureStep
  <1> QED
    BY <1>1, <1>2, <1>3, <1>4

----------------------------------------------------------------------------
(* What is reckoned. *)

\* What there is to reckon from is sized, and is the last result when there is one.
LEMMA QuantityFacts ==
    ASSUME ResultsInv, NEW unit \in {"sq_ft", "cu_ft"}, NEW from \in Quantities(unit)
    PROVE  /\ Sized(from)
           /\ results # <<>> => from = results[Len(results)] /\ from.unit = unit
  <1>1. CASE results = <<>>
    BY <1>1, TakeoffAssumption DEF Quantities, Sized
  <1>2. CASE results # <<>>
    <2>1. from = Last(results) /\ from.unit = unit
      BY <1>2 DEF Quantities
    <2>2. from = results[Len(results)]
      BY <2>1 DEF Last
    <2>3. Len(results) \in DOMAIN results
      <3>1. IsSeq(results)
        BY DEF ResultsInv
      <3>2. PICK S : results \in Seq(S)
        BY <3>1 DEF IsSeq
      <3> QED
        BY <1>2, <3>2
    <2>4. Sound(from)
      BY <2>2, <2>3 DEF ResultsInv
    <2> QED
      BY <2>1, <2>2, <2>4 DEF Sound
  <1> QED
    BY <1>1, <1>2

\* One more result that is sound, and bought for the last if it is concrete that was bought.
LEMMA ReckonStep ==
    ASSUME ResultsInv, NEW r, results' = Append(results, r), Sound(r),
           r.formula = "purchase" /\ results # <<>> => BoughtFor(r, results[Len(results)])
    PROVE  ResultsInv'
  <1>1. PICK s : s = results
    OBVIOUS
  <1>2. PICK t : t = Append(s, r)
    OBVIOUS
  <1>3. IsSeq(s) /\ \A i \in DOMAIN s : Sound(s[i])
    BY <1>1 DEF ResultsInv
  <1>4. \A i \in DOMAIN s : s[i].formula = "purchase" /\ i > 1 => BoughtFor(s[i], s[i - 1])
    BY <1>1 DEF ResultsInv
  <1>5. PICK n \in Nat : n = Len(s) /\ DOMAIN s = 1 .. n
    BY <1>3, SeqBasics
  <1>6. /\ IsSeq(t) /\ Len(t) = n + 1
        /\ \A i \in 1 .. n : t[i] = s[i]
        /\ t[n + 1] = r
    BY <1>2, <1>3, <1>5, AppendBasics
  <1>7. DOMAIN t = 1 .. n + 1
    BY <1>6, SeqBasics
  <1>8. \A i \in DOMAIN t : Sound(t[i])
    BY <1>3, <1>5, <1>6, <1>7
  <1>9. ASSUME NEW i \in DOMAIN t, t[i].formula = "purchase", i > 1
        PROVE  BoughtFor(t[i], t[i - 1])
    <2>1. i \in 1 .. n + 1 /\ i - 1 \in 1 .. n /\ t[i - 1] = s[i - 1]
      BY <1>6, <1>7, <1>9
    <2>2. CASE i <= n
      BY <1>4, <1>5, <1>6, <1>9, <2>1, <2>2
    <2>3. CASE i = n + 1
      <3>1. t[i] = r /\ t[i - 1] = s[n] /\ n > 0
        BY <1>6, <1>9, <2>1, <2>3
      <3>2. results # <<>>
        BY <1>1, <1>5, <3>1
      <3> QED
        BY <1>1, <1>5, <1>9, <3>1, <3>2
    <2> QED
      BY <2>1, <2>2, <2>3
  <1>10. results' = t
    BY <1>1, <1>2
  <1> QED
    BY <1>6, <1>8, <1>9, <1>10 DEF ResultsInv

\* What a result reckoned from a quantity holds.
Reckoned(r, formula, from, others, policy, q) ==
    /\ results' = Append(results, r) /\ Applicable(policy)
    /\ r.formula = formula /\ r.unit = Formulas[formula] /\ r.policy = policy
    /\ r.inputs = <<from.num, from.den>> \o others
    /\ r.num = q.num /\ r.rounded = from.rounded /\ ReadRight(r)

LEMMA ReckonedResult ==
    ASSUME ResultsInv, NEW formula, NEW from, NEW others, NEW policy, NEW q,
           Reckon(formula, from, others, policy, q)
    PROVE  \E r : Reckoned(r, formula, from, others, policy, q)
  <1>1. PICK in : in = <<from.num, from.den>> \o others
    OBVIOUS
  <1>2. PICK r : r = QuantityResult(formula, <<>>, in, policy, from.rounded, q)
    OBVIOUS
  <1>3. results' = Append(results, r) /\ Applicable(policy)
    BY <1>1, <1>2 DEF Reckon
  <1>4. /\ r.formula = formula /\ r.unit = Formulas[formula] /\ r.policy = policy
        /\ r.inputs = in /\ r.num = q.num /\ r.given = <<>> /\ r.rounded = from.rounded
    BY <1>2 DEF QuantityResult
  <1>5. ReadRight(r)
    BY <1>4 DEF ReadRight
  <1> QED
    BY <1>1, <1>3, <1>4, <1>5 DEF Reckoned

LEMMA ThirdInput ==
    ASSUME NEW a, NEW b, NEW c
    PROVE  LET in == <<a, b>> \o <<c>> IN in[1] = a /\ in[2] = b /\ in[3] = c
  OBVIOUS

LEMMA WasteAndSquares ==
    ASSUME ResultsInv, NEW from, NEW policy,
           ApplyWaste(from, policy) \/ RoofingSquares(from, policy)
    PROVE  ResultsInv'
  <1>1. PICK formula, others, q :
           /\ formula \in {"waste", "square"} /\ Reckon(formula, from, others, policy, q)
    BY DEF ApplyWaste, RoofingSquares
  <1>2. PICK r :
           /\ results' = Append(results, r)
           /\ r.formula = formula /\ r.unit = Formulas[formula] /\ ReadRight(r)
    BY <1>1, ReckonedResult DEF Reckoned
  <1>3. r.unit \in {"unit", "square"} /\ r.formula \notin {"piece", "purchase"}
    BY <1>1, <1>2 DEF Formulas
  <1>4. Sound(r)
    BY <1>2, <1>3 DEF Sound
  <1> QED
    BY <1>2, <1>3, <1>4, ReckonStep

LEMMA PiecesStep ==
    ASSUME ResultsInv, NEW from \in Quantities("sq_ft"), NEW policy,
           NEW coverage \in {0, 100, Coverage.drywall_sheet, Unknown},
           PiecesFromCoverage(from, coverage, policy)
    PROVE  ResultsInv'
  <1>1. coverage \in Nat \ {0}
    BY EstimateAssumption DEF PiecesFromCoverage, Coverage
  <1>2. PICK r :
           /\ results' = Append(results, r) /\ Applicable(policy)
           /\ r.formula = "piece" /\ r.unit = Formulas["piece"] /\ r.policy = policy
           /\ r.inputs = <<from.num, from.den>> \o <<coverage>>
           /\ r.num \in Pieces(from, coverage, policy) /\ r.rounded = from.rounded /\ ReadRight(r)
    <2>1. PICK n, formula, others, q, p :
             /\ n \in Pieces(from, coverage, policy)
             /\ formula = "piece" /\ others = <<coverage>> /\ p = policy
             /\ q = [num |-> n, den |-> 1]
             /\ Reckon(formula, from, others, p, q)
      BY DEF PiecesFromCoverage
    <2>2. PICK r : Reckoned(r, formula, from, others, p, q)
      BY <2>1, ReckonedResult
    <2>3. q.num \in Pieces(from, coverage, policy)
      BY <2>1
    <2> QED
      BY <2>1, <2>2, <2>3, Zenon DEF Reckoned
  <1>3. /\ r.inputs[1] = from.num /\ r.inputs[2] = from.den /\ r.inputs[3] = coverage
    BY <1>2, ThirdInput
  <1>4. Sized(from) /\ from.num >= 0
    BY QuantityFacts DEF PiecesFromCoverage
  <1>5. Net(r).num = from.num /\ Net(r).den = from.den
    BY <1>3 DEF Net
  <1>6. LET gross == Gross(Net(r), policy)
        IN r.num \in RoundUp(r.rounded, gross.num * 100, gross.den * coverage)
    <2>1. Gross(Net(r), policy) = Gross(from, policy)
      BY <1>5 DEF Gross
    <2> QED
      BY <1>2, <2>1 DEF Pieces
  <1>7. RoundedUp(r)
    BY <1>1, <1>2, <1>3, <1>4, <1>5, <1>6 DEF RoundedUp, Sized
  <1>8. r.unit = "piece"
    BY <1>2 DEF Formulas
  <1>9. Sound(r)
    BY <1>2, <1>7, <1>8 DEF Sound
  <1> QED
    BY <1>2, <1>9, ReckonStep

LEMMA PurchaseStep ==
    ASSUME ResultsInv, NEW from \in Quantities("cu_ft"), NEW increment \in Increments,
           ConcretePurchase(from, increment)
    PROVE  ResultsInv'
  <1>1. increment \in Nat \ {0}
    BY TakeoffAssumption DEF ConcretePurchase
  <1>2. PICK r :
           /\ results' = Append(results, r)
           /\ r.formula = "purchase" /\ r.unit = Formulas["purchase"] /\ r.policy = Unknown
           /\ r.inputs = <<from.num, from.den>> \o <<increment>>
           /\ r.num \in RoundUp(from.rounded, from.num, (from.den \div 4) * 27 * increment)
           /\ r.rounded = from.rounded /\ ReadRight(r)
    <2>1. PICK n, formula, others, q, p :
             /\ n \in RoundUp(from.rounded, from.num, (from.den \div 4) * 27 * increment)
             /\ formula = "purchase" /\ others = <<increment>> /\ p = Unknown
             /\ q = [num |-> n, den |-> 1]
             /\ Reckon(formula, from, others, p, q)
      BY DEF ConcretePurchase
    <2>2. PICK r : Reckoned(r, formula, from, others, p, q)
      BY <2>1, ReckonedResult
    <2>3. q.num \in RoundUp(from.rounded, from.num, (from.den \div 4) * 27 * increment)
      BY <2>1
    <2> QED
      BY <2>1, <2>2, <2>3, Zenon DEF Reckoned
  <1>3. /\ r.inputs[1] = from.num /\ r.inputs[2] = from.den /\ r.inputs[3] = increment
    BY <1>2, ThirdInput
  <1>4. Sized(from) /\ from.num >= 0
    BY QuantityFacts DEF ConcretePurchase
  <1>5. Net(r).num = from.num /\ Net(r).den = from.den
    BY <1>3 DEF Net
  <1>6. RoundedUp(r)
    BY <1>1, <1>2, <1>3, <1>4, <1>5 DEF RoundedUp, Sized, Applicable
  <1>7. r.unit = "cu_yd"
    BY <1>2 DEF Formulas
  <1>8. Sound(r)
    BY <1>2, <1>6, <1>7 DEF Sound
  <1>9. results # <<>> => BoughtFor(r, results[Len(results)])
    BY <1>3, QuantityFacts DEF BoughtFor
  <1> QED
    BY <1>2, <1>8, <1>9, ReckonStep

LEMMA TakeoffStep ==
    TakeoffInv /\ [TakeoffNext /\ UNCHANGED estimateVars]_<<takeoffVars, estimateVars>>
    => TakeoffInv'
  <1> SUFFICES ASSUME TakeoffInv,
                      [TakeoffNext /\ UNCHANGED estimateVars]_<<takeoffVars, estimateVars>>
               PROVE  TakeoffInv'
    OBVIOUS
  <1>1. FirstBook' /\ ResultsInv
    BY DEF TakeoffInv, FirstBook, estimateVars
  <1>2. CASE results' = results
    BY <1>1, <1>2 DEF TakeoffInv, ResultsInv
  <1>3. CASE BuildTakeoff \/ UNCHANGED <<takeoffVars, estimateVars>>
    BY <1>2, <1>3 DEF BuildTakeoff, takeoffVars
  <1>4. ASSUME NEW policy, NEW unit, NEW from \in Quantities(unit), ApplyWaste(from, policy)
        PROVE  ResultsInv'
    BY <1>1, <1>4, WasteAndSquares
  <1>5. ASSUME NEW policy, NEW from \in Quantities("sq_ft"),
               \/ RoofingSquares(from, policy)
               \/ \E coverage \in {0, 100, Coverage.drywall_sheet, Unknown} :
                     PiecesFromCoverage(from, coverage, policy)
        PROVE  ResultsInv'
    BY <1>1, <1>5, WasteAndSquares, PiecesStep
  <1>6. ASSUME NEW from \in Quantities("cu_ft"), NEW increment \in Increments,
               ConcretePurchase(from, increment)
        PROVE  ResultsInv'
    BY <1>1, <1>6, PurchaseStep
  <1>7. CASE TakeoffNext
    <2>1. \/ BuildTakeoff
          \/ ResultsInv'
      BY <1>4, <1>5, <1>6, <1>7, MeasuredStep, Zenon DEF TakeoffNext
    <2> QED
      BY <1>1, <1>3, <2>1 DEF TakeoffInv
  <1> QED
    BY <1>3, <1>7

----------------------------------------------------------------------------
(* The properties of a takeoff follow from where its results came from. *)

LEMMA PiecesAreLeast ==
    ASSUME NEW r, RoundedUp(r), r.formula = "piece"
    PROVE  LET net == Gross(Net(r), r.policy)
               Bought(n) == n * r.inputs[3] * net.den
           IN /\ Bought(r.num) >= net.num * 100
              /\ r.num > 0 => \/ Bought(r.num - 1) < net.num * 100
                              \/ r.rounded /\ Bought(r.num - 1) = net.num * 100
  <1>1. PICK g : g = Gross(Net(r), r.policy)
    OBVIOUS
  <1>2. g.num \in Nat /\ g.den \in Nat \ {0}
    <2>1. /\ Net(r).num \in Int /\ Net(r).den \in Int /\ Net(r).den >= 4 /\ Applicable(r.policy)
          /\ Net(r).num >= 0
      BY DEF RoundedUp, Sized, Net
    <2> QED
      BY <1>1, <2>1, GrossKeepsType
  <1>3. PICK c \in Nat \ {0} : c = r.inputs[3]
    BY DEF RoundedUp
  <1>4. PICK a \in Nat, b \in Nat \ {0} : a = g.num * 100 /\ b = g.den * c
    BY <1>2
  <1>5. r.num \in RoundUp(r.rounded, a, b)
    BY <1>1, <1>3, <1>4 DEF RoundedUp
  <1>6. PICK x \in Nat : x = r.num
    BY <1>4, <1>5, RoundUpIsLeast
  <1>7. x * b >= a /\ (x > 0 => (x - 1) * b < a \/ (r.rounded /\ (x - 1) * b = a))
    <2>1. x \in RoundUp(r.rounded, a, b)
      BY <1>5, <1>6
    <2> QED
      BY <2>1, RoundUpIsLeast, Zenon
  <1>8. PICK d \in Nat : d = g.den
    BY <1>2
  <1>9. x * b = x * c * d /\ (x - 1) * b = (x - 1) * c * d
    BY <1>4, <1>8
  <1>10. (x - 1) * c * d \in Int /\ x * c * d \in Int
    OBVIOUS
  <1>11. x * c * d >= a
         /\ (x > 0 => (x - 1) * c * d < a \/ (r.rounded /\ (x - 1) * c * d = a))
    BY <1>7, <1>9, <1>10
  <1> QED
    BY <1>1, <1>3, <1>4, <1>6, <1>8, <1>11

LEMMA PurchaseIsLeast ==
    ASSUME NEW r, RoundedUp(r), r.formula = "purchase"
    PROVE  LET net == Gross(Net(r), r.policy)
               Bought(n) == n * r.inputs[3] * 27 * (net.den \div 4)
           IN /\ Bought(r.num) >= net.num
              /\ r.num > 0 => \/ Bought(r.num - 1) < net.num
                              \/ r.rounded /\ Bought(r.num - 1) = net.num
  <1>1. Gross(Net(r), r.policy) = [num |-> r.inputs[1], den |-> r.inputs[2]]
    BY DEF RoundedUp, Gross, Net
  <1>2. PICK a \in Nat : a = r.inputs[1]
    BY DEF RoundedUp, Sized, Net
  <1>3. PICK c \in Nat \ {0} : c = r.inputs[3]
    BY DEF RoundedUp
  <1>4. PICK d \in Nat \ {0} : d = r.inputs[2] \div 4
    <2>1. r.inputs[2] \in Int /\ r.inputs[2] >= 4
      BY DEF RoundedUp, Sized, Net
    <2>2. r.inputs[2] \div 4 \in Int /\ r.inputs[2] \div 4 >= 1
      BY <2>1
    <2> QED
      BY <2>2
  <1>5. PICK b \in Nat \ {0} : b = d * 27 * c
    <2>1. d * 27 * c \in Nat \ {0}
      OBVIOUS
    <2> QED
      BY <2>1
  <1>6. r.num \in RoundUp(r.rounded, a, b)
    BY <1>2, <1>3, <1>4, <1>5 DEF RoundedUp
  <1>7. PICK x \in Nat : x = r.num
    BY <1>6, RoundUpIsLeast
  <1>8. x * b >= a /\ (x > 0 => (x - 1) * b < a \/ (r.rounded /\ (x - 1) * b = a))
    BY <1>6, <1>7, RoundUpIsLeast
  <1>9. x * b = x * c * 27 * d /\ (x - 1) * b = (x - 1) * c * 27 * d
    BY <1>5
  <1>10. (x - 1) * c * 27 * d \in Int /\ x * c * 27 * d \in Int
    OBVIOUS
  <1>11. x * c * 27 * d >= a
         /\ (x > 0 => \/ (x - 1) * c * 27 * d < a
                      \/ r.rounded /\ (x - 1) * c * 27 * d = a)
    BY <1>8, <1>9, <1>10
  <1> QED
    BY <1>1, <1>2, <1>3, <1>4, <1>7, <1>11

\* Pieces of a whole area are the packages an estimate of it has.
LEMMA PiecesArePackages ==
    ASSUME FirstBook, NEW r, RoundedUp(r), r.formula = "piece", r.policy # Unknown,
           r.inputs[3] = Coverage[r.policy], r.inputs[1] % r.inputs[2] = 0
    PROVE  r.num - Packages(r.policy, r.inputs[1] \div r.inputs[2])
             \in 0 .. (IF r.rounded THEN 1 ELSE 0)
  <1>1. PICK policy \in Materials : policy = r.policy
    BY DEF RoundedUp, Applicable, Registered
  <1>2. PICK d \in Nat \ {0} : d = r.inputs[2]
    BY DEF RoundedUp, Sized, Net
  <1>3. PICK a \in Nat : a = r.inputs[1]
    BY DEF RoundedUp, Sized, Net
  <1>4. PICK m \in Nat : m = a \div d /\ a = d * m
    <2>1. PICK m \in Int : m = a \div d /\ a = d * m
      BY <1>2, <1>3, ExactQuotient
    <2>2. m >= 0
      BY <2>1
    <2> QED
      BY <2>1, <2>2
  <1>5. PICK w \in Nat, cov \in Nat \ {0} : w = WastePercent[policy] /\ cov = Coverage[policy]
    BY RegistryFacts
  <1>6. PICK c, u, v \in Nat \ {0} : InLowerTerms(Net(r), policy, c, u, v)
    BY GrossOfWaste
  <1>7. Gross(Net(r), policy).num = a * u /\ Gross(Net(r), policy).den = d * v
    BY <1>2, <1>3, <1>6 DEF Net, InLowerTerms
  <1>8. r.num - Ceiling(a * u * 100, d * v * cov) \in 0 .. (IF r.rounded THEN 1 ELSE 0)
    <2>1. PICK x \in Nat, y \in Nat \ {0} : x = a * u * 100 /\ y = d * v * cov
      <3>1. a * u * 100 \in Nat /\ d * v * cov \in Nat \ {0}
        OBVIOUS
      <3> QED
        BY <3>1
    <2>2. r.num \in RoundUp(r.rounded, x, y)
      BY <1>1, <1>5, <1>7, <2>1 DEF RoundedUp
    <2> QED
      BY <2>1, <2>2, RoundUpIsLeast
  <1>9. PICK k \in Nat \ {0} : k = d * v
    OBVIOUS
  <1>10. PICK p \in Nat : p = m * (100 + w)
    OBVIOUS
  <1>11. a * u * 100 = p * k
    <2>0. u * c = 100 + w /\ v * c = 100
      BY <1>5, <1>6 DEF InLowerTerms
    <2>1. a * u * 100 = (d * m) * u * (v * c)
      BY <1>4, <2>0
    <2>2. (d * m) * u * (v * c) = (m * (u * c)) * (d * v)
      OBVIOUS
    <2> QED
      BY <2>0, <1>9, <1>10, <2>1, <2>2
  <1>12. d * v * cov = cov * k
    BY <1>9
  <1>13. r.num - Ceiling(p, cov) \in 0 .. (IF r.rounded THEN 1 ELSE 0)
    <2>1. r.num - Ceiling(p * k, cov * k) \in 0 .. (IF r.rounded THEN 1 ELSE 0)
      BY <1>8, <1>11, <1>12, Zenon
    <2>2. Ceiling(p * k, cov * k) = Ceiling(p, cov)
      BY CeilingScales
    <2> QED
      BY <2>1, <2>2, Zenon
  <1>14. WithWaste(policy, m) = p
    BY <1>5, <1>10 DEF WithWaste, Waste
  <1>15. book[policy].coverage = cov
    BY <1>5 DEF FirstBook
  <1> QED
    BY <1>1, <1>2, <1>3, <1>4, <1>13, <1>14, <1>15 DEF Packages

Sides(slab) == slab.inputs[1] * slab.inputs[2] * slab.inputs[3]
Whole(n) == n % (Foot * Foot * Foot) = 0

\* A slab of whole cubic feet is bought in the quarter yards an estimate of it has.
LEMMA SlabIsPackages ==
    ASSUME FirstBook, NEW slab, SlabOf(slab), slab.policy = "ready_mix",
           NEW r, RoundedUp(r), r.formula = "purchase", r.inputs[3] = 1, BoughtFor(r, slab),
           NEW n, n = Sides(slab), Whole(n)
    PROVE  r.num - Packages("ready_mix", n \div (Foot * Foot * Foot))
             \in 0 .. (IF r.rounded THEN 1 ELSE 0)
  <1>0. "ready_mix" \in Materials /\ WastePercent["ready_mix"] = 8 /\ Coverage["ready_mix"] = 675
    BY DEF Materials, WastePercent, Coverage
  <1>1. PICK f, g \in Nat \ {0} : f = Foot * Foot * Foot /\ f = 4 * g
    <2>1. PICK k \in Nat \ {0} : k = Foot
      BY DEF Foot, Inch
    <2>2. k = 4 * 12
      BY <2>1 DEF Foot, Inch
    <2>3. k * k * k = 4 * (12 * k * k) /\ 12 * k * k \in Nat \ {0} /\ k * k * k \in Nat \ {0}
      BY <2>2
    <2> QED
      BY <2>1, <2>3
  <1>2. n \in Int
    BY DEF SlabOf, Sides
  <1>3. PICK m \in Int : m = n \div f /\ n = f * m
    <2>1. n % f = 0
      BY <1>1 DEF Whole
    <2> QED
      BY <1>2, <2>1, ExactQuotient
  <1>4. PICK q : q = [num |-> n, den |-> f]
    OBVIOUS
  <1>5. PICK c, u, v \in Nat \ {0} : InLowerTerms(q, "ready_mix", c, u, v)
    BY <1>0, GrossOfWaste
  <1>6. u * c = 108 /\ v * c = 100
    BY <1>0, <1>5 DEF InLowerTerms
  <1>7. r.inputs[1] = n * u /\ r.inputs[2] = f * v
    <2>1. [num |-> slab.num, den |-> slab.den] = Gross(q, "ready_mix")
      BY <1>1, <1>4 DEF SlabOf, Sides
    <2>2. q.num = n /\ q.den = f
      BY <1>4
    <2>3. slab.num = n * u /\ slab.den = f * v
      BY <1>5, <2>1, <2>2 DEF InLowerTerms
    <2> QED
      BY <2>3 DEF BoughtFor
  <1>8. PICK a \in Nat : a = n * u
    BY <1>7 DEF RoundedUp, Sized, Net
  <1>9. m >= 0
    BY <1>3, <1>8
  <1>10. PICK b \in Nat \ {0} : b = g * v * 27
    <2>1. g * v * 27 \in Nat \ {0}
      OBVIOUS
    <2> QED
      BY <2>1
  <1>11. r.num - Ceiling(a, b) \in 0 .. (IF r.rounded THEN 1 ELSE 0)
    <2>1. (f * v) \div 4 = g * v
      <3>1. f * v = 4 * (g * v) /\ g * v \in Int
        BY <1>1
      <3> QED
        BY <3>1, QuotientOf
    <2>2. (g * v) * 27 * 1 = b
      BY <1>10
    <2>3. r.num \in RoundUp(r.rounded, r.inputs[1], (r.inputs[2] \div 4) * 27 * r.inputs[3])
      BY DEF RoundedUp
    <2>4. r.num \in RoundUp(r.rounded, a, b)
      BY <1>7, <1>8, <2>1, <2>2, <2>3, Zenon
    <2> QED
      BY <2>4, RoundUpIsLeast
  <1>12. PICK p \in Nat : p = m * 108
    BY <1>9
  <1>13. a * c = p * f
    <2>1. a * c = (f * m) * (u * c)
      BY <1>3, <1>8
    <2> QED
      BY <1>6, <1>12, <2>1
  <1>14. b * c = 675 * f
    <2>1. b * c = g * 27 * (v * c)
      BY <1>10
    <2> QED
      BY <1>1, <1>6, <2>1
  <1>15. Ceiling(a * c, b * c) = Ceiling(a, b)
    BY CeilingScales
  <1>16. Ceiling(p * f, 675 * f) = Ceiling(p, 675)
    BY CeilingScales
  <1>17. r.num - Ceiling(p, 675) \in 0 .. (IF r.rounded THEN 1 ELSE 0)
    BY ONLY <1>11, <1>13, <1>14, <1>15, <1>16
  <1>18. WithWaste("ready_mix", m) = p
    BY <1>0, <1>12 DEF WithWaste, Waste
  <1>19. book["ready_mix"].coverage = 675
    BY <1>0 DEF FirstBook
  <1> QED
    BY <1>1, <1>3, <1>17, <1>18, <1>19 DEF Packages

----------------------------------------------------------------------------
\* Whatever lengths an estimator gives, those the engine accepts are read as they are
\* written, but for the two kinds the property leaves out (parse_feet_inches).
THEOREM LengthsAlwaysAsWritten == TakeoffSpec => []LengthsAreAsWritten
  <1>1. EstimateInit /\ TakeoffInit => TakeoffInv
    <2>1. IsSeq(<< >>)
      BY DEF IsSeq
    <2> QED
      BY <2>1 DEF EstimateInit, TakeoffInit, TakeoffInv, FirstBook, ResultsInv
  <1>2. TakeoffInv => LengthsAreAsWritten
    <2> SUFFICES ASSUME TakeoffInv, NEW i \in DOMAIN results, NEW j \in DOMAIN results[i].given
                 PROVE  /\ WrittenAs(results[i].given[j])
                        /\ results[i].inputs[j] = Resolve(results[i].given[j])
      BY DEF LengthsAreAsWritten, WrittenAs
    <2>1. ReadRight(results[i])
      BY DEF TakeoffInv, ResultsInv, Sound
    <2> QED
      BY <2>1, ReadAsWritten DEF ReadRight
  <1> QED
    BY <1>1, <1>2, TakeoffStep, PTL DEF TakeoffSpec

\* Whatever is measured, what is bought by the piece or by the increment covers it and its
\* waste, and the engine and the assembly calculator buy the same; one less would not cover
\* it, unless one less does exactly and a length was rounded to 28 digits, where the engine may
\* buy one more (pieces_from_coverage, concrete_purchase_cy).
THEOREM PurchasesAlwaysAgree == TakeoffSpec => []PurchasesAgree
  <1>1. EstimateInit /\ TakeoffInit => TakeoffInv
    <2>1. IsSeq(<< >>)
      BY DEF IsSeq
    <2> QED
      BY <2>1 DEF EstimateInit, TakeoffInit, TakeoffInv, FirstBook, ResultsInv
  <1>2. TakeoffInv => LeastIsBought
    <2> SUFFICES ASSUME TakeoffInv, NEW i \in DOMAIN results,
                        results[i].formula \in {"piece", "purchase"}
                 PROVE  LET r == results[i]
                            net == Gross(Net(r), r.policy)
                            needed == IF r.formula = "piece" THEN net.num * 100 ELSE net.num
                            Bought(n) == IF r.formula = "piece" THEN n * r.inputs[3] * net.den
                                         ELSE n * r.inputs[3] * 27 * (net.den \div 4)
                        IN /\ Bought(r.num) >= needed
                           /\ r.num > 0 => \/ Bought(r.num - 1) < needed
                                           \/ r.rounded /\ Bought(r.num - 1) = needed
      BY DEF LeastIsBought, Net
    <2>1. RoundedUp(results[i])
      BY DEF TakeoffInv, ResultsInv, Sound
    <2>2. CASE results[i].formula = "piece"
      BY <2>1, <2>2, PiecesAreLeast
    <2>3. CASE results[i].formula = "purchase"
      BY <2>1, <2>3, PurchaseIsLeast
    <2> QED
      BY <2>2, <2>3
  <1>3. TakeoffInv => CalculatorsAgree
    <2>1. ASSUME TakeoffInv, NEW i \in DOMAIN results, results[i].formula = "piece",
                 results[i].policy # Unknown,
                 results[i].inputs[3] = Coverage[results[i].policy],
                 results[i].inputs[1] % results[i].inputs[2] = 0
          PROVE  results[i].num
                   - Packages(results[i].policy, results[i].inputs[1] \div results[i].inputs[2])
                   \in 0 .. (IF results[i].rounded THEN 1 ELSE 0)
      <3>1. RoundedUp(results[i]) /\ FirstBook
        BY <2>1 DEF TakeoffInv, ResultsInv, Sound
      <3> QED
        BY <2>1, <3>1, PiecesArePackages
    <2>2. ASSUME TakeoffInv, NEW i \in DOMAIN results, results[i].formula = "purchase", i > 1,
                 results[i - 1].policy = "ready_mix", results[i].inputs[3] = 1,
                 NEW n, n = Sides(results[i - 1]), Whole(n)
          PROVE  results[i].num - Packages("ready_mix", n \div (Foot * Foot * Foot))
                   \in 0 .. (IF results[i].rounded THEN 1 ELSE 0)
      <3>1. RoundedUp(results[i]) /\ FirstBook /\ BoughtFor(results[i], results[i - 1])
        BY <2>2 DEF TakeoffInv, ResultsInv, Sound
      <3>2. i - 1 \in DOMAIN results
        BY <2>2, SeqBasics DEF TakeoffInv, ResultsInv
      <3>3. SlabOf(results[i - 1])
        BY <2>2, <3>1, <3>2 DEF TakeoffInv, ResultsInv, Sound, BoughtFor
      <3> QED
        BY <2>2, <3>1, <3>3, SlabIsPackages
    <2> QED
      BY <2>1, <2>2 DEF CalculatorsAgree, Sides, Whole
  <1> QED
    BY <1>1, <1>2, <1>3, TakeoffStep, PTL DEF TakeoffSpec, PurchasesAgree
==============================================================================
