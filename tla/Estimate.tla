-------------------------------- MODULE Estimate --------------------------------
(***************************************************************************)
(* An estimate of the estimator package (backend/nextgen/estimator): the   *)
(* measured inputs of an assembly are expanded into lines of material,     *)
(* each line is converted into packages to buy, the calculation is written *)
(* to a ledger, and the ledger is replayed later, when it may have been    *)
(* altered in the store and the purchase rules may be others.              *)
(*                                                                         *)
(* Inputs are whole feet, square or cubic feet; what follows from them, a  *)
(* waste, a coverage, is in hundredths of the input's unit.  A purchase    *)
(* rule is named by its material, and what concrete rounds to is counted   *)
(* in quarter yards of 6.75 cubic feet.                                    *)
(***************************************************************************)
EXTENDS Integers, Sequences, FiniteSets, FiniteSetsExt

CONSTANTS
    Measures,       \* known inputs
    Unknown,        \* an input that is not known
    NewCoverages,   \* what a package may cover under a later version of its rule
    MaxAlterations,
    MaxEstimates    \* Init gives it to estimatesLeft or withholds it

ASSUME EstimateAssumption ==
    /\ Measures \subseteq Int /\ Unknown \notin Int
    /\ NewCoverages \subseteq Nat \ {0}
    /\ {MaxAlterations, MaxEstimates} \subseteq Nat

VARIABLES
    estimate,       \* the expansion: family, inputs, lines and conversions
    ledger,         \* its replay steps, as they are stored now
    book,           \* the purchase rules now: version and coverage of each
    altered,        \* history: how often the stored ledger was altered
    verdict,        \* of the last replay
    estimatesLeft

estimateVars == <<estimate, ledger, book, altered, verdict, estimatesLeft>>

----------------------------------------------------------------------------
(* The registries *)

\* The inputs of each family; a ridge is left out of a roof when it is not given.
InputNames ==
    [roofing |-> {{"roof"}, {"roof", "ridge"}}, siding |-> {{"wall", "openings"}},
     concrete |-> {{"length", "width", "thickness"}}, flooring |-> {{"floor"}},
     drywall |-> {{"wall", "ceiling"}}, insulation |-> {{"area"}}]

Families == DOMAIN InputNames

WastePercent ==
    [asphalt_shingles |-> 10, underlayment |-> 5, ridge_cap |-> 10, siding_panel |-> 7,
     ready_mix |-> 8, flooring_plank |-> 8, drywall_sheet |-> 10, batt_insulation |-> 5]

\* package_size over unit_factor, in hundredths
Coverage ==
    [asphalt_shingles |-> 3330, underlayment |-> 40000, ridge_cap |-> 2000,
     siding_panel |-> 3200, ready_mix |-> 675, flooring_plank |-> 2200,
     drywall_sheet |-> 3200, batt_insulation |-> 8800]

Materials == DOMAIN Coverage

Unit(material) ==
    CASE material = "ridge_cap" -> "ft" [] material = "ready_mix" -> "cu_ft" [] OTHER -> "sq_ft"

----------------------------------------------------------------------------
(* Expansion and conversion *)

\* What a line of each material takes of the inputs.
Base(material, in) ==
    CASE material \in {"asphalt_shingles", "underlayment"} -> in.roof
      [] material = "ridge_cap"       -> in.ridge
      [] material = "siding_panel"    -> in.wall - in.openings
      [] material = "ready_mix"       -> in.length * in.width * in.thickness
      [] material = "flooring_plank"  -> in.floor
      [] material = "drywall_sheet"   -> in.wall + in.ceiling
      [] material = "batt_insulation" -> in.area

LinesOf(family, in) ==
    CASE family = "roofing"    -> <<"asphalt_shingles", "underlayment">>
                                    \o IF "ridge" \in DOMAIN in THEN <<"ridge_cap">> ELSE <<>>
      [] family = "siding"     -> <<"siding_panel">>
      [] family = "concrete"   -> <<"ready_mix">>
      [] family = "flooring"   -> <<"flooring_plank">>
      [] family = "drywall"    -> <<"drywall_sheet">>
      [] family = "insulation" -> <<"batt_insulation">>

\* Only the sides of a slab may be negative.
Accepts(family, in) ==
    /\ \A n \in DOMAIN in : in[n] # Unknown
    /\ family # "concrete" => \A n \in DOMAIN in : in[n] >= 0
    /\ family = "siding" => in.openings <= in.wall

Waste(rule, base) == base * WastePercent[rule]

WithWaste(rule, base) == base * 100 + Waste(rule, base)

Ceiling(a, b) == IF a = 0 THEN 0 ELSE (a + b - 1) \div b

\* Mutant of Packages: waste is added to the packages.
PackagesThenWaste(rule, base) ==
    Ceiling(Ceiling(base * 100, book[rule].coverage) * (100 + WastePercent[rule]), 100)

Packages(rule, base) == Ceiling(WithWaste(rule, base), book[rule].coverage)

Convert(rule, base) ==
    [rule |-> rule, version |-> book[rule].version, base |-> base, waste |-> Waste(rule, base),
     purchase |-> Packages(rule, base)]

----------------------------------------------------------------------------
NoEstimate == [family |-> "none", inputs |-> <<>>, lines |-> <<>>, conversions |-> <<>>]

EstimateInit ==
    /\ estimate = NoEstimate
    /\ ledger = <<>> /\ altered = 0 /\ verdict = "none"
    /\ book = [m \in Materials |-> [version |-> 1, coverage |-> Coverage[m]]]

EstimateTypeOK ==
    /\ estimate.family \in Families \cup {"none"}
    /\ \A i \in DOMAIN estimate.conversions :
          LET c == estimate.conversions[i]
          IN c.rule \in Materials /\ {c.version, c.base, c.waste, c.purchase} \subseteq Nat
    /\ \A i \in DOMAIN ledger : ledger[i].kind \in {"assembly", "conversion"}
    /\ book \in [Materials -> [version : Nat, coverage : Nat]]
    /\ verdict \in {"none", "ok", "mismatch", "missing"}

\* expand: a material may be bought by a rule of another with its unit.
Expand(family, in, overrides) ==
    /\ estimatesLeft' = estimatesLeft - 1
    /\ Accepts(family, in)
    /\ LET lines == LinesOf(family, in)
           rule(i) == IF lines[i] \in DOMAIN overrides THEN overrides[lines[i]] ELSE lines[i]
       IN /\ \A i \in DOMAIN lines : Unit(rule(i)) = Unit(lines[i]) /\ Base(lines[i], in) >= 0
          /\ estimate' = [family |-> family, inputs |-> in, lines |-> lines,
                          conversions |-> [i \in DOMAIN lines |->
                                             Convert(rule(i), Base(lines[i], in))]]
    /\ UNCHANGED <<ledger, book, altered, verdict>>

\* build_assembly_ledger
BuildLedger ==
    /\ estimate.family # "none" /\ ledger = <<>>
    /\ LET n == Len(estimate.lines)
       IN ledger' = [i \in 1 .. 2 * n |->
            IF i <= n
            THEN LET base == Base(estimate.lines[i], estimate.inputs)
                 IN [kind |-> "assembly", sequence |-> i, material |-> estimate.lines[i],
                     version |-> 1, inputs |-> estimate.inputs, base |-> base,
                     waste |-> 0, purchase |-> 0, output |-> base]
            ELSE LET c == estimate.conversions[i - n]
                 IN [kind |-> "conversion", sequence |-> i, material |-> c.rule,
                     version |-> c.version, inputs |-> <<>>, base |-> c.base,
                     waste |-> c.waste, purchase |-> c.purchase, output |-> c.purchase]]
    /\ UNCHANGED <<estimate, book, altered, verdict, estimatesLeft>>

----------------------------------------------------------------------------
(* Replay *)

\* _recompute_assembly_step takes the inputs the step recorded: no side of a slab is among
\* those it looks for, and of those of drywall the wall is found first.
Recompute(step) ==
    CASE step.material = "ready_mix"     -> step.base
      [] step.material = "drywall_sheet" -> step.inputs.wall
      [] OTHER                           -> Base(step.material, step.inputs)

\* Mutant of Verifies: only the output is compared.
VerifiesOutput(step) ==
    IF step.kind = "assembly" THEN step.output = Recompute(step)
    ELSE step.base >= 0 /\ step.output = Packages(step.material, step.base)

\* A conversion is calculated again from the base it recorded.
Verifies(step) ==
    IF step.kind = "assembly" THEN step.output = Recompute(step)
    ELSE /\ step.base >= 0
         /\ step.output = Packages(step.material, step.base)
         /\ step.purchase = Packages(step.material, step.base)
         /\ step.waste = Waste(step.material, step.base)

\* The recorded version of a purchase rule must be the one there is.
Available(step) == step.kind = "conversion" => step.version = book[step.material].version

InOrder == \A i \in DOMAIN ledger : ledger[i].sequence = i

\* execute_ledger_replay stops at the first step it cannot confirm.
Replay ==
    /\ ledger # <<>>
    /\ LET bad == {i \in DOMAIN ledger :
                     ~Available(ledger[i]) \/ ~Verifies(ledger[i])}
       IN verdict' = CASE ~InOrder                    -> "missing"
                       [] InOrder /\ bad = {}         -> "ok"
                       [] OTHER -> IF Available(ledger[Min(bad)]) THEN "mismatch" ELSE "missing"
    /\ UNCHANGED <<estimate, ledger, book, altered, estimatesLeft>>

----------------------------------------------------------------------------
(* What may happen to a stored ledger, and to the rules *)

\* The quantities of a step are written over, what it was calculated from among them.
RecordedQuantities(step) ==
    IF step.kind = "assembly" THEN {"output", "base"} \cup DOMAIN step.inputs
    ELSE {"output", "base", "purchase", "waste"}

Rewritten(step, some, change) ==
    LET by(name) == IF name \in some THEN change ELSE 0
    IN [step EXCEPT !.output = @ + by("output"), !.purchase = @ + by("purchase"),
                    !.base = @ + by("base"),
                    !.waste = @ + by("waste") * WastePercent[step.material],
                    !.inputs = [name \in DOMAIN @ |-> @[name] + by(name)]]

AlterQuantities(i) ==
    /\ altered < MaxAlterations /\ verdict = "none"
    /\ \E some \in SUBSET RecordedQuantities(ledger[i]) \ {{}} : \E change \in {-1, 1} :
          ledger' = [ledger EXCEPT ![i] = Rewritten(@, some, change)]
    /\ altered' = altered + 1
    /\ UNCHANGED <<estimate, book, verdict, estimatesLeft>>

\* The order of the steps is lost.
SwapSteps(i) ==
    /\ altered < MaxAlterations /\ verdict = "none"
    /\ i + 1 \in DOMAIN ledger
    /\ ledger' = [ledger EXCEPT ![i] = ledger[i + 1], ![i + 1] = ledger[i]]
    /\ altered' = altered + 1
    /\ UNCHANGED <<estimate, book, verdict, estimatesLeft>>

\* A locked rule changes with its version.
UpgradeRule(material) ==
    /\ estimate.family # "none" /\ verdict = "none"
    /\ book[material].version = 1
    /\ \E i \in DOMAIN estimate.conversions : estimate.conversions[i].rule = material
    /\ \E coverage \in NewCoverages :
          book' = [book EXCEPT ![material] = [version |-> 2, coverage |-> coverage]]
    /\ UNCHANGED <<estimate, ledger, altered, verdict, estimatesLeft>>

EstimateNext ==
    \/ /\ estimate.family = "none" /\ estimatesLeft > 0
       /\ \E family \in Families : \E names \in InputNames[family] :
          \E in \in [names -> Measures \cup {Unknown}] :
             \/ Expand(family, in, <<>>)
             \/ \E m \in Materials \ {"flooring_plank"} :
                   Expand(family, in, [x \in {m} |-> "flooring_plank"])
    \/ BuildLedger
    \/ Replay
    \/ \E i \in DOMAIN ledger : AlterQuantities(i) \/ SwapSteps(i)
    \/ \E material \in Materials : UpgradeRule(material)

EstimateSpec == EstimateInit /\ estimatesLeft \in Nat /\ [][EstimateNext]_estimateVars

----------------------------------------------------------------------------
(* Properties *)

\* The packages of every line cover what was measured and its waste, and one package fewer
\* would not; nothing is bought for nothing.
EnoughIsBought ==
    \A i \in DOMAIN estimate.conversions :
        LET c == estimate.conversions[i]
            needed == WithWaste(c.rule, c.base)
        IN /\ c.purchase * Coverage[c.rule] >= needed
           /\ c.purchase > 0 => (c.purchase - 1) * Coverage[c.rule] < needed

\* A ledger nobody altered replays, as long as its rules are there; the exception is a
\* drywall ceiling, which _recompute_assembly_step forgets.
HonestLedgersReplay ==
    verdict # "none" /\ altered = 0
    /\ (\A i \in DOMAIN ledger : Available(ledger[i]))
    /\ ~(estimate.family = "drywall" /\ estimate.inputs.ceiling > 0)
    => verdict = "ok"

\* Whatever was altered in a ledger that replays, and whether or not the rules have changed
\* since: the results of every conversion are those of the base it now records, under the
\* version of the rule it was calculated with, and so the calculated ones unless the base was
\* altered with them; and every line but one of drywall gives what its inputs come to.
AlteredResultsAreRefused ==
    verdict = "ok" =>
        /\ \A i \in DOMAIN estimate.conversions :
            LET c == estimate.conversions[i]
                step == ledger[Len(estimate.lines) + i]
            IN /\ step.material = c.rule /\ step.version = c.version
               /\ step.waste = Waste(c.rule, step.base)
               /\ step.purchase = Ceiling(WithWaste(c.rule, step.base), Coverage[c.rule])
               /\ step.output = step.purchase
               /\ step.base = c.base => step.purchase = c.purchase /\ step.waste = c.waste
        /\ \A i \in DOMAIN estimate.lines :
            LET line == estimate.lines[i]
                base == Base(line, estimate.inputs)
            IN ledger[i].inputs = estimate.inputs /\ ledger[i].base = base
                 => line = "drywall_sheet" \/ ledger[i].output = base

\* Replay refuses what does not follow from what the ledger records, and nothing honest.
ReplayIsSound == HonestLedgersReplay /\ AlteredResultsAreRefused

\* Nothing negative was measured; the sides of a slab may be negative in pairs.
MeasuredIsPositive ==
    \A n \in DOMAIN estimate.inputs : estimate.inputs[n] >= 0
=============================================================================
