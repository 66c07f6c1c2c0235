--------------------------------- MODULE Takeoff ---------------------------------
(***************************************************************************)
(* A takeoff with the construction math engine (backend/nextgen/estimator/ *)
(* engine.py): lengths, some of them as a person writes them, become a     *)
(* linear sum, an area, a volume or board feet; what is reckoned from it   *)
(* are the gross quantity, roofing squares, whole pieces, yards of         *)
(* concrete; the results are copied into a ledger.  Estimate reaches its   *)
(* packages by code of its own; here the two are compared.                 *)
(*                                                                         *)
(* A length is a number of quarter inches, a quantity the fraction         *)
(* num / den of its unit that it should be, a coverage is in hundredths of *)
(* it, an increment of concrete in quarters of a yard.  The engine has 28  *)
(* decimal digits: feet are rounded to them unless the inches are a        *)
(* multiple of three quarters.  A result remembers whether a length was.   *)
(***************************************************************************)
EXTENDS Estimate, SequencesExt

CONSTANTS
    Lengths,        \* as they are given
    Policies,       \* waste policies asked for, of the registry or not
    Increments,     \* of ready-mix purchase
    NetQuantities,  \* numbers an estimator has from elsewhere, in hundredths
    MaxReckoned     \* Init gives it to reckonedLeft or withholds it

ASSUME TakeoffAssumption ==
    /\ Lengths \ {Unknown} \subseteq
          [text : BOOLEAN, feet : Int \cup {Unknown}, whole : Int \cup {Unknown},
           num : Int \cup {Unknown}, den : {0, 1, 2, 4}, dashed : BOOLEAN, marked : BOOLEAN]
    /\ \A l \in Lengths \ {Unknown} : ~l.text => l.num = Unknown
    /\ Unknown \notin Materials
    /\ (Increments \ {Unknown}) \cup NetQuantities \subseteq Int
    /\ MaxReckoned \in Nat

VARIABLES
    results,        \* what the engine returned, with its provenance
    entries,        \* of the ledger made of them
    reckonedLeft

takeoffVars == <<results, entries, reckonedLeft>>

----------------------------------------------------------------------------
(* parse_feet_inches *)

Inch == 4
Foot == 12 * Inch

\* A length is a number, or a text: feet, inches whole and broken, a dash between the two,
\* and the mark of its first part (' or ft, " or in).
NumberOf(l) == ~l.text

\* Only inches after feet may be dashed (3-3/4), and only there the mark may be missing.
Parses(l) ==
    /\ l.marked
    /\ l.num # Unknown => l.den # 0
    /\ l.feet = Unknown => ~l.dashed

\* Mutant of Inches: a dash is the sign of what follows it.
InchesSigned(l) ==
    (IF l.whole = Unknown THEN 0 ELSE l.whole * Inch)
    + (IF l.num = Unknown THEN 0
       ELSE (IF l.dashed THEN -1 ELSE 1) * ((l.num * Inch) \div l.den))

\* The digits of a numerator but the last are taken for whole inches when none are written:
\* 15/16 is read as 1 5/16.  The sign of whole inches is not that of the fraction.
Inches(l) ==
    LET split == l.whole = Unknown /\ l.num # Unknown /\ l.num >= 10
        whole == CASE split -> l.num \div 10 [] l.whole # Unknown -> l.whole [] OTHER -> 0
        num   == IF split THEN l.num % 10 ELSE l.num
    IN whole * Inch + IF l.num = Unknown THEN 0 ELSE (num * Inch) \div l.den

\* _resolve_feet: a number is in feet.
Resolvable(l) == l # Unknown /\ (NumberOf(l) \/ Parses(l))

Resolve(l) == (IF l.feet = Unknown THEN 0 ELSE l.feet * Foot) + Inches(l)

\* Twelfths of an inch have an end in decimals only for the multiples of three quarters.
Rounded(l) == ~NumberOf(l) /\ Inches(l) % 3 # 0

\* to_integral_value(ROUND_CEILING) of num / den, which may lie beyond the whole number it
\* should be when it comes of a rounded length.
RoundUp(rounded, num, den) ==
    {Ceiling(num, den)} \cup IF rounded /\ num > 0 THEN {Ceiling(num + 1, den)} ELSE {}

----------------------------------------------------------------------------
(* The registries, and what the engine returns *)

\* The unit of what each formula yields.
Formulas ==
    [linear |-> "ft", rectangle |-> "sq_ft", triangle |-> "sq_ft", volume |-> "cu_ft",
     board_foot |-> "bf", square |-> "square", concrete |-> "cu_ft", purchase |-> "cu_yd",
     piece |-> "piece", waste |-> "unit"]

\* WasteRegistry.get: policies are named by the material that has them.  None is no waste,
\* except where waste is all that is asked for.
Registered(policy) == policy \in Materials
Applicable(policy) == policy # Unknown => Registered(policy)

\* In lowest terms of a hundred.
Gross(q, policy) ==
    IF policy = Unknown THEN [num |-> q.num, den |-> q.den]
    ELSE LET w == WastePercent[policy]
             common == Max({k \in 1 .. 100 : 100 % k = 0 /\ w % k = 0})
         IN [num |-> q.num * ((100 + w) \div common), den |-> q.den * (100 \div common)]

\* _result: with what it was calculated from.
QuantityResult(formula, given, inputs, policy, rounded, q) ==
    [formula |-> formula, unit |-> Formulas[formula], given |-> given, inputs |-> inputs,
     policy |-> policy, rounded |-> rounded, num |-> q.num, den |-> q.den]

\* From lengths: all of them are resolved before anything is calculated.
Measure(formula, lengths, policy, q) ==
    /\ \A i \in DOMAIN lengths : Resolvable(lengths[i])
    /\ Applicable(policy)
    /\ LET inputs == [i \in DOMAIN lengths |-> Resolve(lengths[i])]
           rounded == \E i \in DOMAIN lengths : Rounded(lengths[i])
       IN results' = <<QuantityResult(formula, lengths, inputs, policy, rounded,
                                      Gross(q, policy))>>

\* From the value of a quantity, whatever its unit.
Reckon(formula, from, others, policy, q) ==
    /\ Applicable(policy)
    /\ LET inputs == <<from.num, from.den>> \o others
       IN results' = Append(results, QuantityResult(formula, <<>>, inputs, policy,
                                                    from.rounded, q))

----------------------------------------------------------------------------
(* The methods of the engine *)

Product(a, b) == [num |-> Resolve(a) * Resolve(b), den |-> Foot * Foot]
Product3(a, b, c) ==
    [num |-> Resolve(a) * Resolve(b) * Resolve(c), den |-> Foot * Foot * Foot]

\* No segments are unknown, not zero.
LinearSum(lengths) ==
    /\ lengths # <<>>
    /\ Measure("linear", lengths, Unknown,
               [num |-> SumFunction([i \in DOMAIN lengths |-> Resolve(lengths[i])]),
                den |-> Foot])

AreaRectangle(length, width) ==
    Measure("rectangle", <<length, width>>, Unknown, Product(length, width))

AreaTriangle(base, height) ==
    Measure("triangle", <<base, height>>, Unknown,
            [Product(base, height) EXCEPT !.den = 2 * @])

VolumeRectangular(length, width, depth) ==
    Measure("volume", <<length, width, depth>>, Unknown, Product3(length, width, depth))

\* Thickness and width are numbers of inches.
BoardFeet(thickness, width, length, pieces) ==
    /\ Unknown \notin {thickness, width, pieces} /\ pieces >= 0
    /\ Measure("board_foot", <<length>>, Unknown,
               [num |-> thickness * width * Resolve(length) * pieces, den |-> 12 * Foot])

ConcreteVolume(length, width, thickness, policy) ==
    Measure("concrete", <<length, width, thickness>>, policy,
            Product3(length, width, thickness))

ApplyWaste(from, policy) ==
    /\ Registered(policy)
    /\ Reckon("waste", from, <<WastePercent[policy]>>, policy, Gross(from, policy))

RoofingSquares(from, policy) ==
    /\ from.num >= 0
    /\ Reckon("square", from, <<>>, policy, [Gross(from, policy) EXCEPT !.den = 100 * @])

\* Mutant of Pieces: waste is added to the pieces.
PiecesThenWaste(from, coverage, policy) ==
    LET n == [num |-> Ceiling(from.num * 100, from.den * coverage), den |-> 1]
    IN {Ceiling(Gross(n, policy).num, Gross(n, policy).den)}

Pieces(from, coverage, policy) ==
    LET gross == Gross(from, policy)
    IN RoundUp(from.rounded, gross.num * 100, gross.den * coverage)

PiecesFromCoverage(from, coverage, policy) ==
    /\ from.num >= 0 /\ coverage # Unknown /\ coverage > 0 /\ Applicable(policy)
    /\ \E n \in Pieces(from, coverage, policy) :
          Reckon("piece", from, <<coverage>>, policy, [num |-> n, den |-> 1])

\* A cubic yard is 27 cubic feet; what is bought is counted in increments.  Every
\* denominator here is a multiple of 4.
ConcretePurchase(from, increment) ==
    /\ from.num >= 0 /\ increment # Unknown /\ increment > 0
    /\ \E n \in RoundUp(from.rounded, from.num, (from.den \div 4) * 27 * increment) :
          Reckon("purchase", from, <<increment>>, Unknown, [num |-> n, den |-> 1])

\* build_ledger
BuildTakeoff ==
    /\ results # <<>> /\ entries = <<>>
    /\ entries' = [i \in DOMAIN results |->
                     LET r == results[i]
                     IN [sequence |-> i, formula |-> r.formula, policy |-> r.policy,
                         inputs |-> r.inputs, unit |-> r.unit, output |-> <<r.num, r.den>>]]
    /\ UNCHANGED <<results, reckonedLeft>>

----------------------------------------------------------------------------
TakeoffInit == results = <<>> /\ entries = <<>>

\* What may be reckoned from: the last result, or a number to begin with; waste is added
\* to none twice.
Quantities(unit) ==
    IF results = <<>> THEN [num : NetQuantities, den : {100}, unit : {unit}, rounded : {FALSE}]
    ELSE {r \in {Last(results)} : r.unit = unit}

Wasted == results # <<>> /\ Last(results).policy # Unknown

TakeoffNext ==
    \/ /\ reckonedLeft > 0 /\ entries = <<>>
       /\ reckonedLeft' = reckonedLeft - 1
       /\ UNCHANGED entries
       /\ \/ /\ results = <<>>
             /\ \/ \E lengths \in {<<>>} \cup (Lengths \X Lengths) : LinearSum(lengths)
                \/ \E a, b \in Lengths : AreaRectangle(a, b) \/ AreaTriangle(a, b)
                \/ \E length \in Lengths, width \in {4, Unknown}, pieces \in {-1, 0, 3} :
                      BoardFeet(2, width, length, pieces)
                \/ \E a, b, c \in Lengths :
                      \/ VolumeRectangular(a, b, c)
                      \/ \E policy \in Policies : ConcreteVolume(a, b, c, policy)
          \/ \E policy \in IF Wasted THEN {Unknown} ELSE Policies :
                \/ \E unit \in {"ft", "sq_ft", "cu_ft"} : \E from \in Quantities(unit) :
                      ApplyWaste(from, policy)
                \/ \E from \in Quantities("sq_ft") :
                      \/ RoofingSquares(from, policy)
                      \/ \E coverage \in {0, 100, Coverage.drywall_sheet, Unknown} :
                            PiecesFromCoverage(from, coverage, policy)
          \/ \E from \in Quantities("cu_ft"), increment \in Increments :
                ConcretePurchase(from, increment)
    \/ BuildTakeoff

\* The rules an estimate buys by stay those of the registry.
TakeoffSpec ==
    /\ EstimateInit /\ TakeoffInit /\ reckonedLeft \in Nat
    /\ [][TakeoffNext /\ UNCHANGED estimateVars]_<<takeoffVars, estimateVars>>

----------------------------------------------------------------------------
(* Properties *)

\* A text is read as the length that is written.  Left out are the two that are misread: a
\* fraction without whole inches whose numerator has two digits, and a negative part with
\* another after it.
LengthsAreAsWritten ==
    \A i \in DOMAIN results : \A j \in DOMAIN results[i].given :
        LET l == results[i].given[j]
            n(part) == IF part = Unknown THEN 0 ELSE part
        IN /\ l.whole # Unknown \/ n(l.num) < 10
           /\ n(l.feet) >= 0 \/ (l.whole = Unknown /\ l.num = Unknown)
           /\ n(l.whole) >= 0 \/ l.num = Unknown
           => results[i].inputs[j] * l.den
                = (n(l.feet) * Foot + n(l.whole) * Inch) * l.den + n(l.num) * Inch

\* What is bought by the piece or by the increment covers the quantity and its waste, and
\* one less would not; where a length was rounded one less may do, but then it does exactly.
LeastIsBought ==
    \A i \in DOMAIN results :
        LET r == results[i]
            net == Gross([num |-> r.inputs[1], den |-> r.inputs[2]], r.policy)
            needed == IF r.formula = "piece" THEN net.num * 100 ELSE net.num
            Bought(n) == IF r.formula = "piece" THEN n * r.inputs[3] * net.den
                         ELSE n * r.inputs[3] * 27 * (net.den \div 4)
        IN r.formula \in {"piece", "purchase"} =>
               /\ Bought(r.num) >= needed
               /\ r.num > 0 => \/ Bought(r.num - 1) < needed
                               \/ r.rounded /\ Bought(r.num - 1) = needed

\* The two calculators of the package agree, wherever the quantity is whole: pieces are the
\* packages of an estimate of the same area, and a wasted slab is bought in the quarter
\* yards an estimate of it has; or one more, where a length was rounded.
CalculatorsAgree ==
    \A i \in DOMAIN results :
        LET r == results[i]
            Agrees(rule, num, den) ==
                num % den = 0 =>
                    r.num - Packages(rule, num \div den) \in 0 .. (IF r.rounded THEN 1 ELSE 0)
            slab == results[i - 1]
        IN /\ r.formula = "piece" /\ r.policy # Unknown =>
                 (r.inputs[3] = Coverage[r.policy]
                     => Agrees(r.policy, r.inputs[1], r.inputs[2]))
           /\ r.formula = "purchase" /\ i > 1 =>
                 (slab.policy = "ready_mix" /\ r.inputs[3] = 1
                     => LET in == slab.inputs
                        IN Agrees("ready_mix", in[1] * in[2] * in[3], Foot * Foot * Foot))

PurchasesAgree == LeastIsBought /\ CalculatorsAgree

\* Pieces are "Ceil(net_with_waste / coverage_per_piece)" (docstring of pieces_from_coverage).
PiecesAreCeiling ==
    \A i \in DOMAIN results :
        LET r == results[i]
            net == Gross([num |-> r.inputs[1], den |-> r.inputs[2]], r.policy)
        IN r.formula = "piece" => r.num = Ceiling(net.num * 100, net.den * r.inputs[3])
=============================================================================
