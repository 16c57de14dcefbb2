-------------------------- MODULE Computations_proofs --------------------------
(***************************************************************************)
(* What the operators of the risk desk, the reports and the rebalance do   *)
(* of any input; then that the answers of MCComputations have their        *)
(* properties, by these facts and those of Operators_proofs.               *)
(***************************************************************************)
EXTENDS Operators_proofs

-----------------------------------------------------------------------------
(* The levels of a report: any slots of the classes that have a volatility.*)

Durations == Int \cup {NoDuration}
SlotRecords ==
    [class : DOMAIN Vol, weight : Int, tier : 1..3, duration : Durations,
     mode : {"measurable", "fermi", "auto"}]

WeightsOf(slots) == [i \in DOMAIN slots |-> slots[i].weight]

LEMMA SlotsAreMany ==
    ASSUME NEW slots \in Seq(SlotRecords)
    PROVE  IsFiniteSet(DOMAIN slots) /\ DOMAIN slots \in SUBSET Int
           /\ \A i \in DOMAIN slots : slots[i] \in SlotRecords
<1>1. PICK n \in Nat : slots \in [1..n -> SlotRecords] /\ DOMAIN slots = 1..n
    BY LenProperties
<1>2. QED BY <1>1, FS_Interval

LEMMA WeightsAreNumbers ==
    ASSUME NEW slots \in Seq(SlotRecords)
    PROVE  IsFun(WeightsOf(slots)) /\ Summable(WeightsOf(slots)) /\ DOMAIN WeightsOf(slots) = DOMAIN slots
<1>1. \A i \in DOMAIN slots : slots[i].weight \in Int
    BY SlotsAreMany DEF SlotRecords
<1>2. QED BY <1>1, SlotsAreMany DEF WeightsOf, IsFun, Summable

(* The weight of some slots is a sum over them.                            *)
LEMMA WeightIsTotal ==
    ASSUME NEW slots, NEW some \in SUBSET DOMAIN slots
    PROVE  WeightOf(slots, some) = TotalOf(On(WeightsOf(slots), some))
<1>1. On(WeightsOf(slots), some) = [i \in some |-> slots[i].weight]
    BY DEF On, WeightsOf
<1>2. QED BY <1>1 DEF WeightOf

LEMMA WeightIsNumber ==
    ASSUME NEW slots \in Seq(SlotRecords), NEW some \in SUBSET DOMAIN slots
    PROVE  WeightOf(slots, some) \in Int
<1>1. PICK w : w = WeightsOf(slots)
    OBVIOUS
<1>2. Summable(w) /\ DOMAIN w = DOMAIN slots
    BY <1>1, WeightsAreNumbers
<1>3. PICK f : Adds(f, w, DOMAIN w)
    BY <1>2, SumsExist
<1>4. TotalOf(On(w, some)) = f[some] /\ f[some] \in Int
    BY <1>2, <1>3 DEF Adds
<1>5. QED BY <1>1, <1>4, WeightIsTotal

(* Each slot contributes a number to the variance.                         *)
LEMMA VolatilityIsNumber == ASSUME NEW slot \in SlotRecords PROVE Volatility(slot) \in Int
<1>1. Vol[slot.class] \in Int /\ PlainVol \in Int /\ FermiVol \in Int
    BY RiskAssumption DEF SlotRecords
<1>2. CASE IsFermi(slot)
    <2>1. Volatility(slot) = FermiVol * Vol[slot.class]
        BY <1>2 DEF Volatility
    <2>2. QED BY <1>1, <2>1
<1>3. CASE ~ IsFermi(slot)
    <2>1. Volatility(slot) = PlainVol * Vol[slot.class]
        BY <1>3 DEF Volatility
    <2>2. QED BY <1>1, <2>1
<1>4. QED BY <1>2, <1>3

LEMMA ContributionsAreNumbers ==
    ASSUME NEW slots \in Seq(SlotRecords)
    PROVE  IsFun(Marginal(slots)) /\ DOMAIN Marginal(slots) = DOMAIN slots
           /\ \A i \in DOMAIN slots : Marginal(slots)[i] \in Int
<1> DEFINE with(i) == [j \in DOMAIN slots |->
                          slots[j].weight * Volatility(slots[i]) * Volatility(slots[j])
                                          * Rho(slots[i].class, slots[j].class)]
<1>1. Marginal(slots) = [i \in DOMAIN slots |-> slots[i].weight * TotalOf(with(i))]
    BY DEF Marginal
<1>2. ASSUME NEW i \in DOMAIN slots, NEW j \in DOMAIN slots
      PROVE  slots[j].weight * Volatility(slots[i]) * Volatility(slots[j])
                             * Rho(slots[i].class, slots[j].class) \in Int
    <2>1. slots[i] \in SlotRecords /\ slots[j] \in SlotRecords
        BY SlotsAreMany
    <2>2. slots[j].weight \in Int /\ slots[i].class \in DOMAIN Vol /\ slots[j].class \in DOMAIN Vol
        BY <2>1 DEF SlotRecords
    <2>3. PICK a \in Int, b \in Int, c \in Int, d \in Int :
              /\ a = slots[j].weight /\ b = Volatility(slots[i]) /\ c = Volatility(slots[j])
              /\ d = Rho(slots[i].class, slots[j].class)
        BY <2>1, <2>2, VolatilityIsNumber, RiskAssumption
    <2>4. a * b * c * d \in Int
        OBVIOUS
    <2>5. QED BY <2>3, <2>4
<1>3. \A i \in DOMAIN slots : TotalOf(with(i)) \in Int
    <2>1. SUFFICES ASSUME NEW i \in DOMAIN slots PROVE TotalOf(with(i)) \in Int
        OBVIOUS
    <2>2. PICK w : w = with(i)
        OBVIOUS
    <2>3. IsFun(w) /\ Summable(w)
        BY <1>2, <2>2, SlotsAreMany DEF IsFun, Summable
    <2>4. QED BY <2>2, <2>3, TotalIsNumber
<1> HIDE DEF with
<1>4. \A i \in DOMAIN slots : slots[i].weight \in Int
    BY SlotsAreMany DEF SlotRecords
<1>5. QED BY <1>1, <1>3, <1>4 DEF IsFun

LEMMA SharesAreNumbers ==
    ASSUME NEW slots \in Seq(SlotRecords)
    PROVE  IsFun(VarianceShares(slots)) /\ Summable(VarianceShares(slots))
           /\ DOMAIN VarianceShares(slots) = DOMAIN slots
<1>1. CASE TotalOf(Marginal(slots)) > 0
    BY <1>1, ContributionsAreNumbers, SlotsAreMany DEF VarianceShares, Summable
<1>2. CASE ~ (TotalOf(Marginal(slots)) > 0)
    BY <1>2, SlotsAreMany DEF VarianceShares, Summable, IsFun
<1>3. QED BY <1>1, <1>2

(* Where no class comes twice a class names one slot.                      *)
LEMMA OneOfEach ==
    ASSUME NEW slots \in Seq(SlotRecords), NoClassTwice(slots)
    PROVE  /\ \A i, j \in DOMAIN slots : slots[i].class = slots[j].class => i = j
           /\ \A i \in DOMAIN slots : Max(OfClass(slots, slots[i].class)) = i
<1>1. PICK n \in Nat : n = Len(slots) /\ DOMAIN slots = 1..n
    BY LenProperties
<1>2. PICK h : h = [i \in 1..n |-> slots[i].class]
    OBVIOUS
<1>3. h \in Surjection(1..n, ClassesOf(slots))
    BY <1>1, <1>2 DEF Surjection, ClassesOf
<1>4. IsFiniteSet(1..n) /\ Cardinality(1..n) = n
    BY FS_Interval
<1>5. h \in Injection(1..n, ClassesOf(slots))
    <2>1. Cardinality(ClassesOf(slots)) = n
        BY <1>1 DEF NoClassTwice
    <2>2. QED BY <1>3, <1>4, <2>1, FS_Surjection
<1>6. \A i, j \in 1..n : h[i] = h[j] => i = j
    BY <1>5 DEF Injection, IsInjective
<1>7. \A i, j \in DOMAIN slots : slots[i].class = slots[j].class => i = j
    BY <1>1, <1>2, <1>6
<1>8. ASSUME NEW i \in DOMAIN slots PROVE Max(OfClass(slots, slots[i].class)) = i
    <2>1. PICK D : D = OfClass(slots, slots[i].class)
        OBVIOUS
    <2>2. D = {i}
        BY <1>7, <2>1 DEF OfClass
    <2>3. D \in SUBSET Int /\ D # {} /\ IsFiniteSet(D)
        <3>1. IsFiniteSet({i})
            BY FS_Singleton
        <3>2. QED BY <1>1, <2>2, <3>1
    <2>4. Max(D) \in D
        BY <2>3, MaxIsGreatest
    <2>5. QED BY <2>1, <2>2, <2>4
<1>9. QED BY <1>7, <1>8

(* Looked up by class, the same numbers.                                   *)
ByClass(v, slots) == [class \in ClassesOf(slots) |-> v[Max(OfClass(slots, class))]]

LEMMA ByClassAdds ==
    ASSUME NEW slots \in Seq(SlotRecords), NoClassTwice(slots),
           NEW v, IsFun(v), Summable(v), DOMAIN v = DOMAIN slots
    PROVE  /\ TotalOf(ByClass(v, slots)) = TotalOf(v)
           /\ \A i \in DOMAIN slots : ByClass(v, slots)[slots[i].class] = v[i]
<1>1. PICK by : by = ByClass(v, slots)
    OBVIOUS
<1>2. IsFun(by) /\ DOMAIN by = ClassesOf(slots)
    BY <1>1 DEF IsFun, ByClass
<1>3. \A i \in DOMAIN slots : slots[i].class \in ClassesOf(slots) /\ by[slots[i].class] = v[i]
    <2>1. \A class \in ClassesOf(slots) : by[class] = v[Max(OfClass(slots, class))]
        BY <1>1 DEF ByClass
    <2>2. \A i \in DOMAIN slots : slots[i].class \in ClassesOf(slots)
        BY DEF ClassesOf
    <2>3. \A i \in DOMAIN slots : Max(OfClass(slots, slots[i].class)) = i
        BY OneOfEach
    <2>4. QED BY <2>1, <2>2, <2>3
<1>4. PICK h : \A i \in DOMAIN slots : h[i] = slots[i].class
    <2> DEFINE h == [i \in DOMAIN slots |-> slots[i].class]
    <2>1. \A i \in DOMAIN slots : h[i] = slots[i].class
        OBVIOUS
    <2>2. QED BY <2>1
<1>5. \A class \in DOMAIN by : \E i \in DOMAIN slots : h[i] = class
    BY <1>2, <1>4 DEF ClassesOf
<1>6. \A i, j \in DOMAIN slots : h[i] = h[j] => i = j
    BY <1>4, OneOfEach
<1>7. Renames(h, by, v)
    BY <1>2, <1>3, <1>4, <1>5, <1>6 DEF Renames, Summable
<1>8. \A class \in DOMAIN by : by[class] \in Int
    <2>1. \A i \in DOMAIN slots : v[i] \in Int
        BY DEF Summable
    <2>2. QED BY <1>3, <1>4, <1>5, <2>1
<1>9. TotalOf(by) = TotalOf(v)
    BY <1>2, <1>7, <1>8, TotalRenamed
<1>10. QED BY <1>1, <1>3, <1>9

(* Weights by any key add up to the weight of all.                         *)
LEMMA WeightsByKey ==
    ASSUME NEW slots \in Seq(SlotRecords), NEW p, NEW by, IsFun(by),
           DOMAIN by = {p[i] : i \in DOMAIN slots},
           \A c \in DOMAIN by : by[c] = WeightOf(slots, PartOf(slots, p, c))
    PROVE  TotalOf(by) = WeightOf(slots, DOMAIN slots)
<1>1. PICK w : w = WeightsOf(slots)
    OBVIOUS
<1>2. IsFun(w) /\ Summable(w) /\ DOMAIN w = DOMAIN slots
    BY <1>1, WeightsAreNumbers
<1>3. \A c : PartOf(slots, p, c) = PartOf(w, p, c) /\ PartOf(slots, p, c) \in SUBSET DOMAIN slots
    BY <1>2 DEF PartOf
<1>4. \A some \in SUBSET DOMAIN slots : WeightOf(slots, some) = TotalOf(On(w, some))
    BY <1>1, WeightIsTotal
<1>5. Parts(by, w, p)
    BY <1>2, <1>3, <1>4 DEF Parts
<1>6. TotalOf(by) = TotalOf(w)
    BY <1>2, <1>5, TotalByParts
<1>7. On(w, DOMAIN slots) = w
    BY <1>2, TotalOfAll
<1>8. QED BY <1>4, <1>6, <1>7

LEMMA TiersAddUp ==
    ASSUME NEW slots \in Seq(SlotRecords)
    PROVE  TotalOf(EvaluateLiquidity(slots).tiers) = WeightOf(slots, DOMAIN slots)
<1>1. PICK tiers : tiers = [t \in {slots[i].tier : i \in DOMAIN slots} |->
                              WeightOf(slots, {i \in DOMAIN slots : slots[i].tier = t})]
    OBVIOUS
<1>2. EvaluateLiquidity(slots).tiers = tiers
    BY <1>1 DEF EvaluateLiquidity
<1>3. PICK p : \A i \in DOMAIN slots : p[i] = slots[i].tier
    <2> DEFINE p == [i \in DOMAIN slots |-> slots[i].tier]
    <2>1. \A i \in DOMAIN slots : p[i] = slots[i].tier
        OBVIOUS
    <2>2. QED BY <2>1
<1>4. \A t : PartOf(slots, p, t) = {i \in DOMAIN slots : slots[i].tier = t}
    BY <1>3 DEF PartOf
<1>5. /\ IsFun(tiers) /\ DOMAIN tiers = {p[i] : i \in DOMAIN slots}
      /\ \A t \in DOMAIN tiers : tiers[t] = WeightOf(slots, PartOf(slots, p, t))
    <2>1. DOMAIN tiers = {p[i] : i \in DOMAIN slots} /\ IsFun(tiers)
        BY <1>1, <1>3 DEF IsFun
    <2>2. \A t \in DOMAIN tiers : tiers[t] = WeightOf(slots, {i \in DOMAIN slots : slots[i].tier = t})
        BY <1>1
    <2>3. QED BY <1>4, <2>1, <2>2
<1>6. TotalOf(tiers) = WeightOf(slots, DOMAIN slots)
    BY <1>5, WeightsByKey
<1>7. QED BY <1>2, <1>6

LEMMA BucketsAddUp ==
    ASSUME NEW slots \in Seq(SlotRecords), NoClassTwice(slots)
    PROVE  LET buckets == DurationRisk(slots)
           IN  /\ TotalOf([b \in DOMAIN buckets |-> buckets[b].weight]) = WeightOf(slots, DOMAIN slots)
               /\ TotalOf([b \in DOMAIN buckets |-> buckets[b].share]) = TotalOf(VarianceShares(slots))
<1>1. PICK p : \A i \in DOMAIN slots : p[i] = Bucket(slots[i].duration)
    <2> DEFINE p == [i \in DOMAIN slots |-> Bucket(slots[i].duration)]
    <2>1. \A i \in DOMAIN slots : p[i] = Bucket(slots[i].duration)
        OBVIOUS
    <2>2. QED BY <2>1
<1>2. PICK K : K = {p[i] : i \in DOMAIN slots}
    OBVIOUS
<1>3. PICK v : v = VarianceShares(slots)
    OBVIOUS
<1>4. IsFun(v) /\ Summable(v) /\ DOMAIN v = DOMAIN slots
    BY <1>3, SharesAreNumbers
<1>5. PICK by : by = ByClass(v, slots)
    OBVIOUS
<1>6. ShareByClass(slots) = by /\ \A i \in DOMAIN slots : by[slots[i].class] = v[i]
    <2>1. ShareByClass(slots) = by
        BY <1>3, <1>5 DEF ShareByClass, ByClass
    <2>2. \A i \in DOMAIN slots : ByClass(v, slots)[slots[i].class] = v[i]
        BY <1>4, ByClassAdds
    <2>3. QED BY <1>5, <2>1, <2>2
<1>7. {Bucket(slots[i].duration) : i \in DOMAIN slots} = K
    BY <1>1, <1>2
<1>8. \A b : {i \in DOMAIN slots : Bucket(slots[i].duration) = b} = PartOf(slots, p, b)
    BY <1>1 DEF PartOf
<1>9. \A b : PartOf(slots, p, b) \in SUBSET DOMAIN slots
    BY DEF PartOf
<1>10. PICK buckets : buckets = DurationRisk(slots)
    OBVIOUS
<1>11. buckets = [b \in K |-> [weight |-> WeightOf(slots, PartOf(slots, p, b)),
                               share |-> TotalOf(On(v, PartOf(slots, p, b)))]]
    <2>1. buckets = [b \in {Bucket(slots[i].duration) : i \in DOMAIN slots} |->
                       [weight |-> WeightOf(slots, {i \in DOMAIN slots : Bucket(slots[i].duration) = b}),
                        share |-> TotalOf([i \in {i \in DOMAIN slots : Bucket(slots[i].duration) = b} |->
                                              ShareByClass(slots)[slots[i].class]])]]
        BY <1>10, Zenon DEF DurationRisk
    <2>2. \A b : [i \in PartOf(slots, p, b) |-> by[slots[i].class]] = On(v, PartOf(slots, p, b))
        BY <1>6, <1>9 DEF On
    <2>3. buckets = [b \in K |-> [weight |-> WeightOf(slots, PartOf(slots, p, b)),
                                  share |-> TotalOf([i \in PartOf(slots, p, b) |-> by[slots[i].class]])]]
        BY <1>6, <1>7, <1>8, <2>1
    <2>4. QED BY <2>2, <2>3
<1>12. PICK weights : weights = [b \in DOMAIN buckets |-> buckets[b].weight]
    OBVIOUS
<1>13. PICK shares : shares = [b \in DOMAIN buckets |-> buckets[b].share]
    OBVIOUS
<1>14. TotalOf(weights) = WeightOf(slots, DOMAIN slots)
    <2>1. DOMAIN weights = K /\ IsFun(weights)
          /\ \A b \in K : weights[b] = WeightOf(slots, PartOf(slots, p, b))
        BY <1>11, <1>12 DEF IsFun
    <2>2. QED BY <1>2, <2>1, WeightsByKey
<1>15. TotalOf(shares) = TotalOf(v)
    <2>1. DOMAIN shares = K /\ IsFun(shares)
          /\ \A b \in K : shares[b] = TotalOf(On(v, PartOf(slots, p, b)))
        BY <1>11, <1>13 DEF IsFun
    <2>2. \A b : PartOf(slots, p, b) = PartOf(v, p, b)
        BY <1>4 DEF PartOf
    <2>3. K = {p[i] : i \in DOMAIN v}
        BY <1>2, <1>4
    <2>4. Parts(shares, v, p)
        BY <2>1, <2>2, <2>3 DEF Parts
    <2>5. QED BY <1>4, <2>4, TotalByParts
<1>16. QED BY <1>3, <1>10, <1>12, <1>13, <1>14, <1>15

LEMMA StressAddsUp ==
    ASSUME NEW slots \in Seq(SlotRecords), NoClassTwice(slots), NEW pack \in DOMAIN Shocks
    PROVE  TotalOf(StressOf(slots, Shocks[pack]).by_class) = StressOf(slots, Shocks[pack]).return
<1>1. PICK shocks : shocks = Shocks[pack]
    OBVIOUS
<1>2. \A class \in DOMAIN shocks : shocks[class] \in Int
    BY <1>1, RiskAssumption
<1> DEFINE shocked(i) == slots[i].weight * IF slots[i].class \in DOMAIN shocks
                                           THEN shocks[slots[i].class] ELSE 0
<1>3. \A i \in DOMAIN slots : shocked(i) \in Int
    <2>1. SUFFICES ASSUME NEW i \in DOMAIN slots PROVE shocked(i) \in Int
        OBVIOUS
    <2>2. PICK a \in Int : a = slots[i].weight
        BY SlotsAreMany DEF SlotRecords
    <2>3. CASE slots[i].class \in DOMAIN shocks
        <3>1. PICK b \in Int : b = shocks[slots[i].class]
            BY <1>2, <2>3
        <3>2. shocked(i) = a * b
            BY <2>2, <2>3, <3>1
        <3>3. QED BY <3>2
    <2>4. CASE slots[i].class \notin DOMAIN shocks
        <3>1. shocked(i) = a * 0
            BY <2>2, <2>4
        <3>2. QED BY <3>1
    <2>5. QED BY <2>3, <2>4
<1>4. PICK v : v = [i \in DOMAIN slots |-> shocked(i)]
    OBVIOUS
<1>5. /\ StressOf(slots, shocks).return = TotalOf(v)
      /\ StressOf(slots, shocks).by_class
            = [class \in ClassesOf(slots) |-> shocked(Max(OfClass(slots, class)))]
    BY <1>4, Zenon DEF StressOf
<1>6. IsFun(v) /\ Summable(v) /\ DOMAIN v = DOMAIN slots
    <2> HIDE DEF shocked
    <2>1. QED BY <1>3, <1>4, SlotsAreMany DEF IsFun, Summable
<1>7. \A class \in ClassesOf(slots) : shocked(Max(OfClass(slots, class))) = v[Max(OfClass(slots, class))]
    <2> HIDE DEF shocked
    <2>1. SUFFICES ASSUME NEW class \in ClassesOf(slots)
                   PROVE  Max(OfClass(slots, class)) \in DOMAIN slots
        BY <1>4
    <2>2. PICK i \in DOMAIN slots : class = slots[i].class
        BY DEF ClassesOf
    <2>3. Max(OfClass(slots, slots[i].class)) = i
        BY OneOfEach
    <2>4. QED BY <2>2, <2>3
<1> HIDE DEF shocked
<1>8. StressOf(slots, shocks).by_class = ByClass(v, slots)
    BY <1>5, <1>7 DEF ByClass
<1>9. TotalOf(ByClass(v, slots)) = TotalOf(v)
    BY <1>6, ByClassAdds
<1>10. QED BY <1>1, <1>5, <1>8, <1>9

(* Each level of a report divides up the portfolio, for any slots of one   *)
(* class each (evaluate_portfolio_risk).                                   *)
LEMMA LevelsDoAddUp ==
    ASSUME NEW portfolio, portfolio.slots \in Seq(SlotRecords), NoClassTwice(portfolio.slots),
           portfolio.whole = WeightOf(portfolio.slots, DOMAIN portfolio.slots),
           NEW pack \in DOMAIN Shocks \cup {NoPack}
    PROVE  LevelsAddUp(EvaluatePortfolioRisk(portfolio, pack))
<1>1. PICK slots \in Seq(SlotRecords) : slots = portfolio.slots
    OBVIOUS
<1>2. NoClassTwice(slots) /\ portfolio.whole = WeightOf(slots, DOMAIN slots)
    BY <1>1
<1>3. PICK report : report = EvaluatePortfolioRisk(portfolio, pack)
    OBVIOUS
<1>4. /\ report.whole = portfolio.whole
      /\ report.variance = TotalOf(VarianceShares(slots))
      /\ report.by_class = ShareByClass(slots)
      /\ report.by_duration = DurationRisk(slots)
      /\ report.stress = EvaluateStress(slots, pack)
      /\ report.liquidity = EvaluateLiquidity(slots)
    BY <1>1, <1>3 DEF EvaluatePortfolioRisk
<1>5. TotalOf(report.by_class) = report.variance
    <2>1. PICK v : v = VarianceShares(slots)
        OBVIOUS
    <2>2. IsFun(v) /\ Summable(v) /\ DOMAIN v = DOMAIN slots
        BY <2>1, SharesAreNumbers
    <2>3. TotalOf(ByClass(v, slots)) = TotalOf(v)
        BY <1>2, <2>2, ByClassAdds
    <2>4. ShareByClass(slots) = ByClass(v, slots)
        BY <2>1 DEF ShareByClass, ByClass
    <2>5. QED BY <1>4, <2>1, <2>3, <2>4
<1>6. /\ TotalOf([b \in DOMAIN report.by_duration |-> report.by_duration[b].weight]) = report.whole
      /\ TotalOf([b \in DOMAIN report.by_duration |-> report.by_duration[b].share]) = report.variance
    BY <1>2, <1>4, BucketsAddUp
<1>7. TotalOf(report.liquidity.tiers) = report.whole
    BY <1>2, <1>4, TiersAddUp
<1>8. ASSUME NEW name \in DOMAIN report.stress
      PROVE  TotalOf(report.stress[name].by_class) = report.stress[name].return
    <2>1. PICK names : names = IF pack = NoPack THEN DOMAIN Shocks ELSE {pack}
        OBVIOUS
    <2>2. report.stress = [n \in names |-> StressOf(slots, Shocks[n])]
        BY <1>4, <2>1 DEF EvaluateStress
    <2>3. name \in DOMAIN Shocks /\ report.stress[name] = StressOf(slots, Shocks[name])
        BY <2>1, <2>2
    <2>4. QED BY <1>2, <2>3, StressAddsUp
<1>9. LevelsAddUp(report)
    BY <1>5, <1>6, <1>7, <1>8, Zenon DEF LevelsAddUp
<1>10. QED BY <1>3, <1>9

-----------------------------------------------------------------------------
(* Overlays.                                                               *)

(* A set put in a list, each of its members once.                          *)
Lists(order, S, n) ==
    /\ n = Cardinality(S) /\ order \in [1..n -> S]
    /\ \A x \in S : \E i \in 1..n : order[i] = x
    /\ \A i, j \in 1..n : order[i] = order[j] => i = j

LEMMA ListsEach ==
    ASSUME NEW S, IsFiniteSet(S)
    PROVE  \E n \in Nat : Lists(SetToSeq(S), S, n)
<1>1. PICK n \in Nat : n = Cardinality(S) /\ ExistsBijection(1..n, S)
    BY FS_CardinalityType
<1>2. PICK g \in Bijection(1..n, S) : TRUE
    BY <1>1 DEF ExistsBijection
<1>3. \E f \in [1..n -> S] : IsInjective(f)
    BY <1>2 DEF Bijection, Injection, Surjection
<1>4. PICK f : f = SetToSeq(S)
    OBVIOUS
<1>5. f \in [1..n -> S] /\ IsInjective(f)
    BY <1>1, <1>3, <1>4, Zenon DEF SetToSeq
<1>6. f \in Injection(1..n, S)
    BY <1>5 DEF Injection
<1>7. IsFiniteSet(1..n) /\ Cardinality(1..n) = n
    BY FS_Interval
<1>8. f \in Surjection(1..n, S)
    BY <1>1, <1>6, <1>7, FS_Injection
<1>9. \A i, j \in 1..n : f[i] = f[j] => i = j
    BY <1>5 DEF IsInjective
<1>10. \A x \in S : \E i \in 1..n : f[i] = x
    BY <1>8 DEF Surjection
<1>11. QED BY <1>1, <1>4, <1>5, <1>9, <1>10 DEF Lists

(* What an overlay keeps, which classes it leaves and what they weigh.     *)
KeptOf(slots, drop) == {i \in DOMAIN slots : slots[i].class \notin drop}

ClassesUnder(slots, overlay) ==
    {slots[i].class : i \in KeptOf(slots, overlay.drop)} \cup ClassesOf(overlay.add)
        \cup DOMAIN overlay.tilts

WeightUnder(slots, overlay) ==
    [class \in ClassesUnder(slots, overlay) |->
        WeightOf(slots, KeptOf(slots, overlay.drop) \cap OfClass(slots, class))
        + WeightOf(overlay.add, OfClass(overlay.add, class)) + TiltOf(overlay, class)]

RejectedBy(weight) == (\E class \in DOMAIN weight : weight[class] < 0) \/ TotalOf(weight) <= 0

SlotUnder(slots, overlay, class) ==
    [Template(slots, overlay, class) EXCEPT !.weight = WeightUnder(slots, overlay)[class]]

SlotsUnder(slots, overlay) ==
    LET order == SetToSeq(ClassesUnder(slots, overlay))
    IN  [i \in DOMAIN order |-> SlotUnder(slots, overlay, order[i])]

LEMMA OverlayApplied ==
    ASSUME NEW portfolio, NEW overlay
    PROVE  ApplyOverlay(portfolio, overlay)
              = IF RejectedBy(WeightUnder(portfolio.slots, overlay)) THEN Rejected
                ELSE [whole |-> TotalOf(WeightUnder(portfolio.slots, overlay)),
                      slots |-> SlotsUnder(portfolio.slots, overlay)]
<1>1. PICK slots : slots = portfolio.slots
    OBVIOUS
<1>2. DOMAIN WeightUnder(slots, overlay) = ClassesUnder(slots, overlay)
    BY DEF WeightUnder
<1>3. QED BY <1>1, <1>2, Zenon
          DEF ApplyOverlay, RejectedBy, SlotsUnder, SlotUnder, WeightUnder, ClassesUnder, KeptOf

(* What an overlay adds and tilts.                                         *)
IsOverlay(overlay) ==
    /\ overlay.add \in Seq(SlotRecords)
    /\ IsFiniteSet(DOMAIN overlay.tilts) /\ DOMAIN overlay.tilts \in SUBSET DOMAIN Vol
    /\ \A class \in DOMAIN overlay.tilts : overlay.tilts[class] \in Int

LEMMA ClassesUnderAreFew ==
    ASSUME NEW slots \in Seq(SlotRecords), NEW overlay, IsOverlay(overlay)
    PROVE  IsFiniteSet(ClassesUnder(slots, overlay)) /\ ClassesUnder(slots, overlay) \in SUBSET DOMAIN Vol
<1>1. PICK kept : kept = KeptOf(slots, overlay.drop)
    OBVIOUS
<1>2. PICK of : \A i \in DOMAIN slots : of[i] = slots[i].class
    <2> DEFINE f == [i \in DOMAIN slots |-> slots[i].class]
    <2>1. \A i \in DOMAIN slots : f[i] = slots[i].class
        OBVIOUS
    <2>2. QED BY <2>1
<1>3. PICK add \in Seq(SlotRecords) : add = overlay.add
    BY DEF IsOverlay
<1>4. PICK by : \A i \in DOMAIN add : by[i] = add[i].class
    <2> DEFINE f == [i \in DOMAIN add |-> add[i].class]
    <2>1. \A i \in DOMAIN add : f[i] = add[i].class
        OBVIOUS
    <2>2. QED BY <2>1
<1>5. PICK A, B, C : A = {of[i] : i \in kept} /\ B = {by[i] : i \in DOMAIN add} /\ C = DOMAIN overlay.tilts
    OBVIOUS
<1>6. kept \in SUBSET DOMAIN slots
    BY <1>1 DEF KeptOf
<1>7. ClassesUnder(slots, overlay) = (A \cup B) \cup C
    BY <1>1, <1>2, <1>3, <1>4, <1>5, <1>6 DEF ClassesUnder, ClassesOf
<1>8. IsFiniteSet(A) /\ IsFiniteSet(B) /\ IsFiniteSet(C)
    <2>1. IsFiniteSet(kept)
        BY <1>6, SlotsAreMany, FS_Subset
    <2>2. IsFiniteSet({of[i] : i \in kept})
        BY <2>1, ImageIsFinite
    <2>3. IsFiniteSet({by[i] : i \in DOMAIN add})
        BY SlotsAreMany, ImageIsFinite
    <2>4. QED BY <1>5, <2>2, <2>3 DEF IsOverlay
<1>9. IsFiniteSet((A \cup B) \cup C)
    <2>1. IsFiniteSet(A \cup B)
        BY <1>8, FS_Union
    <2>2. QED BY <1>8, <2>1, FS_Union
<1>10. A \in SUBSET DOMAIN Vol /\ B \in SUBSET DOMAIN Vol /\ C \in SUBSET DOMAIN Vol
    <2>1. \A i \in kept : of[i] \in DOMAIN Vol
        BY <1>2, <1>6, SlotsAreMany DEF SlotRecords
    <2>2. \A i \in DOMAIN add : by[i] \in DOMAIN Vol
        BY <1>4, SlotsAreMany DEF SlotRecords
    <2>3. QED BY <1>5, <2>1, <2>2 DEF IsOverlay
<1>11. QED BY <1>7, <1>9, <1>10

LEMMA WeightsUnderAreNumbers ==
    ASSUME NEW slots \in Seq(SlotRecords), NEW overlay, IsOverlay(overlay)
    PROVE  IsFun(WeightUnder(slots, overlay)) /\ Summable(WeightUnder(slots, overlay))
           /\ DOMAIN WeightUnder(slots, overlay) = ClassesUnder(slots, overlay)
<1>1. ASSUME NEW class
      PROVE  WeightOf(slots, KeptOf(slots, overlay.drop) \cap OfClass(slots, class))
             + WeightOf(overlay.add, OfClass(overlay.add, class)) + TiltOf(overlay, class) \in Int
    <2>1. KeptOf(slots, overlay.drop) \cap OfClass(slots, class) \in SUBSET DOMAIN slots
        BY DEF KeptOf
    <2>2. PICK a \in Int : a = WeightOf(slots, KeptOf(slots, overlay.drop) \cap OfClass(slots, class))
        BY <2>1, WeightIsNumber
    <2>3. PICK add \in Seq(SlotRecords) : add = overlay.add
        BY DEF IsOverlay
    <2>4. OfClass(add, class) \in SUBSET DOMAIN add
        BY DEF OfClass
    <2>5. PICK b \in Int : b = WeightOf(add, OfClass(add, class))
        BY <2>4, WeightIsNumber
    <2>6. PICK c \in Int : c = TiltOf(overlay, class)
        <3>1. CASE class \in DOMAIN overlay.tilts
            BY <3>1 DEF TiltOf, IsOverlay
        <3>2. CASE class \notin DOMAIN overlay.tilts
            BY <3>2 DEF TiltOf
        <3>3. QED BY <3>1, <3>2
    <2>7. a + b + c \in Int
        OBVIOUS
    <2>8. QED BY <2>2, <2>3, <2>5, <2>6, <2>7
<1>2. QED BY <1>1, ClassesUnderAreFew DEF WeightUnder, IsFun, Summable

LEMMA TemplateIsSlot ==
    ASSUME NEW slots \in Seq(SlotRecords), NEW overlay, IsOverlay(overlay), NEW class \in DOMAIN Vol
    PROVE  Template(slots, overlay, class) \in SlotRecords /\ Template(slots, overlay, class).class = class
<1>1. PICK add \in Seq(SlotRecords) : add = overlay.add
    BY DEF IsOverlay
<1>2. PICK added, kept : /\ added = OfClass(add, class)
                         /\ kept = IF class \in overlay.drop THEN {} ELSE OfClass(slots, class)
    OBVIOUS
<1>3. Template(slots, overlay, class)
          = IF added # {} THEN add[Max(added)] ELSE IF kept # {} THEN slots[Min(kept)]
            ELSE PlainSlot(class)
    BY <1>1, <1>2, Zenon DEF Template
<1>4. CASE added # {}
    <2>1. added \in SUBSET DOMAIN add
        BY <1>2 DEF OfClass
    <2>2. added \in SUBSET Int /\ IsFiniteSet(added)
        BY <2>1, SlotsAreMany, FS_Subset
    <2>3. PICK i \in added : i = Max(added)
        BY <1>4, <2>2, MaxIsGreatest
    <2>4. add[i] \in SlotRecords /\ add[i].class = class
        BY <1>2, <2>1, <2>3, SlotsAreMany DEF OfClass
    <2>5. QED BY <1>3, <1>4, <2>3, <2>4
<1>5. CASE added = {} /\ kept # {}
    <2>1. kept = OfClass(slots, class) /\ kept \in SUBSET DOMAIN slots
        BY <1>2, <1>5 DEF OfClass
    <2>2. kept \in SUBSET Int /\ IsFiniteSet(kept)
        BY <2>1, SlotsAreMany, FS_Subset
    <2>3. PICK i \in kept : i = Min(kept)
        BY <1>5, <2>2, MinIsLeast
    <2>4. slots[i] \in SlotRecords /\ slots[i].class = class
        BY <2>1, <2>3, SlotsAreMany DEF OfClass
    <2>5. QED BY <1>3, <1>5, <2>3, <2>4
<1>6. CASE added = {} /\ kept = {}
    <2>1. PlainSlot(class) \in SlotRecords /\ PlainSlot(class).class = class
        BY DEF PlainSlot, SlotRecords, Durations
    <2>2. QED BY <1>3, <1>6, <2>1
<1>7. QED BY <1>4, <1>5, <1>6

(* What an overlay proposes has one slot of each class it leaves.          *)
LEMMA SlotsUnderAreSlots ==
    ASSUME NEW slots \in Seq(SlotRecords), NEW overlay, IsOverlay(overlay)
    PROVE  /\ SlotsUnder(slots, overlay) \in Seq(SlotRecords)
           /\ NoClassTwice(SlotsUnder(slots, overlay))
           /\ \A i \in DOMAIN SlotsUnder(slots, overlay) :
                 /\ SlotsUnder(slots, overlay)[i].class \in ClassesUnder(slots, overlay)
                 /\ SlotsUnder(slots, overlay)[i].weight
                       = WeightUnder(slots, overlay)[SlotsUnder(slots, overlay)[i].class]
           /\ TotalOf(WeightsOf(SlotsUnder(slots, overlay))) = TotalOf(WeightUnder(slots, overlay))
<1>1. PICK S, w : S = ClassesUnder(slots, overlay) /\ w = WeightUnder(slots, overlay)
    OBVIOUS
<1>2. IsFiniteSet(S) /\ S \in SUBSET DOMAIN Vol
    BY <1>1, ClassesUnderAreFew
<1>3. IsFun(w) /\ Summable(w) /\ DOMAIN w = S
    BY <1>1, WeightsUnderAreNumbers
<1>4. PICK order : order = SetToSeq(S)
    OBVIOUS
<1>5. PICK n \in Nat : /\ n = Cardinality(S) /\ order \in [1..n -> S]
                       /\ \A x \in S : \E i \in 1..n : order[i] = x
                       /\ \A i, j \in 1..n : order[i] = order[j] => i = j
    <2>1. PICK n \in Nat : Lists(order, S, n)
        BY <1>2, <1>4, ListsEach
    <2>2. QED BY <2>1 DEF Lists
<1>6. PICK under : under = SlotsUnder(slots, overlay)
    OBVIOUS
<1>7. under = [i \in 1..n |-> SlotUnder(slots, overlay, order[i])]
    BY <1>1, <1>4, <1>5, <1>6 DEF SlotsUnder
<1>8. ASSUME NEW class \in S
      PROVE  /\ SlotUnder(slots, overlay, class) \in SlotRecords
             /\ SlotUnder(slots, overlay, class).class = class
             /\ SlotUnder(slots, overlay, class).weight = w[class]
    <2>1. PICK t : t = Template(slots, overlay, class)
        OBVIOUS
    <2>2. t \in SlotRecords /\ t.class = class
        BY <1>2, <2>1, TemplateIsSlot
    <2>3. SlotUnder(slots, overlay, class) = [t EXCEPT !.weight = w[class]]
        BY <1>1, <2>1 DEF SlotUnder
    <2>4. w[class] \in Int
        BY <1>3 DEF Summable
    <2>5. QED BY <2>2, <2>3, <2>4 DEF SlotRecords
<1>9. \A i \in 1..n : /\ under[i] \in SlotRecords /\ under[i].class = order[i]
                      /\ under[i].weight = w[order[i]] /\ order[i] \in S
    BY <1>5, <1>7, <1>8
<1>10. under \in Seq(SlotRecords) /\ DOMAIN under = 1..n /\ Len(under) = n
    <2>1. under \in [1..n -> SlotRecords]
        BY <1>7, <1>9
    <2>2. QED BY <2>1
<1>11. NoClassTwice(under)
    <2>1. ClassesOf(under) = S
        BY <1>5, <1>9, <1>10 DEF ClassesOf
    <2>2. QED BY <1>5, <1>10, <2>1 DEF NoClassTwice
<1>12. \A i \in DOMAIN under : under[i].class \in S /\ under[i].weight = w[under[i].class]
    BY <1>9, <1>10
<1>13. TotalOf(WeightsOf(under)) = TotalOf(w)
    <2>1. PICK v : v = WeightsOf(under)
        OBVIOUS
    <2>2. IsFun(v) /\ DOMAIN v = 1..n /\ IsFiniteSet(DOMAIN v)
        BY <1>10, <2>1, WeightsAreNumbers DEF Summable
    <2>3. \A i \in 1..n : v[i] = w[order[i]]
        BY <1>9, <1>10, <2>1 DEF WeightsOf
    <2>4. Renames(order, w, v)
        BY <1>3, <1>5, <2>2, <2>3 DEF Renames
    <2>5. QED BY <1>3, <2>1, <2>4, TotalRenamed DEF Summable
<1>14. QED BY <1>1, <1>6, <1>10, <1>11, <1>12, <1>13

(* An overlay proposes a portfolio a request could have named.             *)
LEMMA OverlaysArePortfolios ==
    ASSUME NEW slots \in Seq(SlotRecords), NEW overlay, IsOverlay(overlay),
           NEW derived, ~ RejectedBy(WeightUnder(slots, overlay)),
           derived = [whole |-> TotalOf(WeightUnder(slots, overlay)), slots |-> SlotsUnder(slots, overlay)]
    PROVE  /\ IsPortfolio(derived) /\ derived.slots \in Seq(SlotRecords)
           /\ NoClassTwice(derived.slots)
           /\ derived.whole = WeightOf(derived.slots, DOMAIN derived.slots)
<1>1. PICK w : w = WeightUnder(slots, overlay)
    OBVIOUS
<1>2. IsFun(w) /\ Summable(w) /\ DOMAIN w = ClassesUnder(slots, overlay)
    BY <1>1, WeightsUnderAreNumbers
<1>3. PICK under \in Seq(SlotRecords) : under = SlotsUnder(slots, overlay)
    BY SlotsUnderAreSlots
<1>4. /\ NoClassTwice(under) /\ TotalOf(WeightsOf(under)) = TotalOf(w)
      /\ \A i \in DOMAIN under : under[i].class \in DOMAIN w /\ under[i].weight = w[under[i].class]
    BY <1>1, <1>2, <1>3, SlotsUnderAreSlots
<1>5. derived.slots = under /\ derived.whole = TotalOf(w)
    BY <1>1, <1>3
<1>6. PICK f : Adds(f, w, DOMAIN w)
    BY <1>2, SumsExist
<1>7. TotalOf(w) = f[DOMAIN w] /\ TotalOf(w) \in Int
    BY <1>2, <1>6, TotalIsAdded
<1>8. TotalOf(w) > 0 /\ \A class \in DOMAIN w : w[class] \in Int /\ w[class] >= 0
    <2>1. ~ (TotalOf(w) <= 0) /\ \A class \in DOMAIN w : ~ (w[class] < 0)
        BY <1>1 DEF RejectedBy
    <2>2. \A class \in DOMAIN w : w[class] \in Int
        BY <1>2 DEF Summable
    <2>3. QED BY <1>7, <2>1, <2>2
<1>9. \A class \in DOMAIN w : w[class] \in 0..TotalOf(w)
    <2>1. PICK D : D = DOMAIN w
        OBVIOUS
    <2>2. IsFiniteSet(D) /\ Adds(f, w, D) /\ D \in SUBSET D
        BY <1>2, <1>6, <2>1 DEF Summable
    <2>3. \A class \in D : f[D] >= w[class]
        BY <1>8, <2>1, <2>2, AtLeastEach
    <2>4. QED BY <1>7, <1>8, <2>1, <2>3
<1>10. WeightOf(under, DOMAIN under) = TotalOf(w)
    <2>1. PICK v : v = WeightsOf(under)
        OBVIOUS
    <2>2. On(v, DOMAIN v) = v /\ DOMAIN v = DOMAIN under
        BY <2>1, WeightsAreNumbers, TotalOfAll
    <2>3. WeightOf(under, DOMAIN under) = TotalOf(On(v, DOMAIN under))
        BY <2>1, WeightIsTotal
    <2>4. QED BY <1>4, <2>1, <2>2, <2>3
<1>11. under # <<>>
    <2>1. SUFFICES ASSUME under = <<>> PROVE FALSE
        OBVIOUS
    <2>2. PICK v : v = WeightsOf(under)
        OBVIOUS
    <2>3. IsFun(v) /\ Summable(v) /\ DOMAIN v = DOMAIN under
        BY <2>2, WeightsAreNumbers
    <2>4. DOMAIN v = {}
        <3>1. DOMAIN under = 1..0
            BY <2>1
        <3>2. QED BY <2>3, <3>1, NoneOfNone
    <2>5. PICK g : Adds(g, v, DOMAIN v)
        BY <2>3, SumsExist
    <2>6. TotalOf(v) = g[DOMAIN v] /\ g[{}] = 0
        BY <2>3, <2>5, TotalIsAdded DEF Adds
    <2>7. QED BY <1>4, <1>8, <2>2, <2>4, <2>6
<1>12. \A i \in DOMAIN under : under[i].weight \in 0..TotalOf(w) /\ under[i].tier \in 1..3
    <2>1. \A i \in DOMAIN under : under[i].tier \in 1..3
        BY SlotsAreMany DEF SlotRecords
    <2>2. QED BY <1>4, <1>9, <2>1
<1>13. IsPortfolio(derived)
    BY <1>5, <1>10, <1>11, <1>12 DEF IsPortfolio
<1>14. QED BY <1>4, <1>5, <1>10, <1>13

(* The deltas take all of the one to all of the other.                     *)
LEMMA DeltasDoAddUp ==
    ASSUME NEW A, IsFun(A), Summable(A), NEW B, IsFun(B), Summable(B),
           NEW baseline, baseline.by_class = A, NEW proposed, proposed.by_class = B
    PROVE  LET deltas == DiffReports(baseline, proposed)
           IN  /\ TotalOf([c \in DOMAIN deltas |-> deltas[c].from]) = TotalOf(A)
               /\ TotalOf([c \in DOMAIN deltas |-> deltas[c].to]) = TotalOf(B)
<1>1. PICK deltas : deltas = DiffReports(baseline, proposed)
    OBVIOUS
<1>2. PICK K : K = DOMAIN A \cup DOMAIN B
    OBVIOUS
<1>3. deltas = [c \in K |-> [from |-> IF c \in DOMAIN A THEN A[c] ELSE 0,
                             to |-> IF c \in DOMAIN B THEN B[c] ELSE 0]]
    BY <1>1, <1>2 DEF DiffReports
<1>4. IsFiniteSet(K)
    BY <1>2, FS_Union DEF Summable
<1>5. PICK from : from = [c \in DOMAIN deltas |-> deltas[c].from]
    OBVIOUS
<1>6. PICK to : to = [c \in DOMAIN deltas |-> deltas[c].to]
    OBVIOUS
<1>7. DOMAIN from = K /\ IsFun(from) /\ \A c \in K : from[c] = IF c \in DOMAIN A THEN A[c] ELSE 0
    BY <1>3, <1>5 DEF IsFun
<1>8. DOMAIN to = K /\ IsFun(to) /\ \A c \in K : to[c] = IF c \in DOMAIN B THEN B[c] ELSE 0
    BY <1>3, <1>6 DEF IsFun
<1>9. Summable(from) /\ Summable(to)
    <2>1. \A c \in K : from[c] \in Int
        BY <1>7 DEF Summable
    <2>2. \A c \in K : to[c] \in Int
        BY <1>8 DEF Summable
    <2>3. QED BY <1>4, <1>7, <1>8, <2>1, <2>2 DEF Summable
<1>10. TotalOf(from) = TotalOf(A)
    BY <1>2, <1>7, <1>9, TotalOfMore
<1>11. TotalOf(to) = TotalOf(B)
    BY <1>2, <1>8, <1>9, TotalOfMore
<1>12. QED BY <1>1, <1>5, <1>6, <1>10, <1>11

(* Of what is dropped nothing is left: the same overlay without the drop,  *)
(* on the slots that are not dropped, lays the same slots.                 *)
Remaining(slots, drop) == Restrict(slots, {i \in DOMAIN slots : slots[i].class \notin drop})

LEMMA NothingOfTheDroppedIsLeft ==
    ASSUME NEW slots \in Seq(SlotRecords), NEW overlay, NEW plain, plain.drop = {},
           plain.add = overlay.add, plain.tilts = overlay.tilts
    PROVE  /\ WeightUnder(Remaining(slots, overlay.drop), plain) = WeightUnder(slots, overlay)
           /\ SlotsUnder(Remaining(slots, overlay.drop), plain) = SlotsUnder(slots, overlay)
<1>1. PICK drop, kept, rest : /\ drop = overlay.drop /\ kept = KeptOf(slots, overlay.drop)
                              /\ rest = Remaining(slots, overlay.drop)
    OBVIOUS
<1>2. kept = {i \in DOMAIN slots : slots[i].class \notin drop} /\ kept \in SUBSET DOMAIN slots
    BY <1>1 DEF KeptOf
<1>3. rest = [i \in kept |-> slots[i]]
    BY <1>1, <1>2 DEF Remaining, Restrict
<1>4. KeptOf(rest, plain.drop) = kept
    BY <1>3 DEF KeptOf
<1>5. ClassesUnder(rest, plain) = ClassesUnder(slots, overlay)
    <2>1. {rest[i].class : i \in kept} = {slots[i].class : i \in kept}
        BY <1>3
    <2>2. QED BY <1>1, <1>4, <2>1 DEF ClassesUnder
<1>6. \A class : kept \cap OfClass(rest, class) = kept \cap OfClass(slots, class)
    BY <1>2, <1>3 DEF OfClass
<1>7. \A some \in SUBSET kept : WeightOf(rest, some) = WeightOf(slots, some)
    <2>1. SUFFICES ASSUME NEW some \in SUBSET kept PROVE WeightOf(rest, some) = WeightOf(slots, some)
        OBVIOUS
    <2>2. [i \in some |-> rest[i].weight] = [i \in some |-> slots[i].weight]
        BY <1>3
    <2>3. QED BY <2>2 DEF WeightOf
<1>8. WeightUnder(rest, plain) = WeightUnder(slots, overlay)
    <2>1. \A class : WeightOf(rest, kept \cap OfClass(rest, class))
                         = WeightOf(slots, kept \cap OfClass(slots, class))
        BY <1>6, <1>7
    <2>2. \A class : TiltOf(plain, class) = TiltOf(overlay, class)
        BY DEF TiltOf
    <2>3. QED BY <1>1, <1>4, <1>5, <2>1, <2>2 DEF WeightUnder
<1>9. \A class : Template(rest, plain, class) = Template(slots, overlay, class)
    <2>1. SUFFICES ASSUME NEW class PROVE Template(rest, plain, class) = Template(slots, overlay, class)
        OBVIOUS
    <2>2. PICK left : left = OfClass(rest, class)
        OBVIOUS
    <2>3. left = IF class \in overlay.drop THEN {} ELSE OfClass(slots, class)
        BY <1>1, <1>2, <1>3, <2>2 DEF OfClass
    <2>4. left # {} => rest[Min(left)] = slots[Min(left)]
        <3>1. left \in SUBSET kept
            BY <1>3, <2>2 DEF OfClass
        <3>2. left \in SUBSET Int /\ IsFiniteSet(left)
            BY <1>2, <3>1, SlotsAreMany, FS_Subset
        <3>3. left # {} => Min(left) \in left
            BY <3>2, MinIsLeast
        <3>4. QED BY <1>3, <3>1, <3>3
    <2>5. PICK added : added = OfClass(overlay.add, class)
        OBVIOUS
    <2>6. Template(rest, plain, class)
              = IF added # {} THEN overlay.add[Max(added)] ELSE IF left # {} THEN rest[Min(left)]
                ELSE PlainSlot(class)
        BY <2>2, <2>5 DEF Template
    <2>7. Template(slots, overlay, class)
              = IF added # {} THEN overlay.add[Max(added)] ELSE IF left # {} THEN slots[Min(left)]
                ELSE PlainSlot(class)
        BY <2>3, <2>5, Zenon DEF Template
    <2>8. QED BY <2>4, <2>6, <2>7
<1>10. \A class : SlotUnder(rest, plain, class) = SlotUnder(slots, overlay, class)
    BY <1>8, <1>9 DEF SlotUnder
<1>11. SlotsUnder(rest, plain) = SlotsUnder(slots, overlay)
    BY <1>5, <1>10 DEF SlotsUnder
<1>12. QED BY <1>1, <1>8, <1>11

(* What a request names.                                                   *)
AsRecords(portfolio, overlay) ==
    /\ \E whole, slots : portfolio = [whole |-> whole, slots |-> slots]
    /\ \E drop, add, tilts, pack :
          overlay = [drop |-> drop, add |-> add, tilts |-> tilts, pack |-> pack]

LEMMA WithoutAsApplied ==
    ASSUME NEW portfolio, portfolio.slots \in Seq(SlotRecords), NEW overlay, AsRecords(portfolio, overlay)
    PROVE  ApplyOverlay(Without(portfolio, overlay.drop), [overlay EXCEPT !.drop = {}])
              = ApplyOverlay(portfolio, overlay)
<1>1. PICK without, plain : /\ without = Without(portfolio, overlay.drop)
                            /\ plain = [overlay EXCEPT !.drop = {}]
    OBVIOUS
<1>2. PICK slots \in Seq(SlotRecords) : slots = portfolio.slots
    OBVIOUS
<1>3. without.slots = Remaining(slots, overlay.drop)
    <2>1. PICK whole, given : portfolio = [whole |-> whole, slots |-> given]
        BY DEF AsRecords
    <2>2. given = slots
        BY <1>2, <2>1
    <2>3. without = [portfolio EXCEPT !.slots = Remaining(slots, overlay.drop)]
        BY <1>1, <1>2, Zenon DEF Without, Remaining
    <2>4. QED BY <2>1, <2>3
<1>4. plain.drop = {} /\ plain.add = overlay.add /\ plain.tilts = overlay.tilts
    <2>1. PICK drop, add, tilts, pack :
              overlay = [drop |-> drop, add |-> add, tilts |-> tilts, pack |-> pack]
        BY DEF AsRecords
    <2>2. QED BY <1>1, <2>1
<1>5. /\ WeightUnder(without.slots, plain) = WeightUnder(slots, overlay)
      /\ SlotsUnder(without.slots, plain) = SlotsUnder(slots, overlay)
    BY <1>3, <1>4, NothingOfTheDroppedIsLeft
<1>6. ApplyOverlay(without, plain)
          = IF RejectedBy(WeightUnder(without.slots, plain)) THEN Rejected
            ELSE [whole |-> TotalOf(WeightUnder(without.slots, plain)),
                  slots |-> SlotsUnder(without.slots, plain)]
    BY OverlayApplied
<1>7. ApplyOverlay(portfolio, overlay)
          = IF RejectedBy(WeightUnder(slots, overlay)) THEN Rejected
            ELSE [whole |-> TotalOf(WeightUnder(slots, overlay)), slots |-> SlotsUnder(slots, overlay)]
    BY <1>2, OverlayApplied, Zenon
<1>8. QED BY <1>1, <1>5, <1>6, <1>7

(* Without an overlay the levels of the report add up.                     *)
LEMMA ReportsAddUp ==
    ASSUME NEW portfolio, portfolio.slots \in Seq(SlotRecords), IsPortfolio(portfolio),
           NoClassTwice(portfolio.slots)
    PROVE  LevelsAddUp(EvaluatePortfolioRisk(portfolio, NoPack))
<1>1. portfolio.whole = WeightOf(portfolio.slots, DOMAIN portfolio.slots)
    BY DEF IsPortfolio
<1>2. NoPack \in DOMAIN Shocks \cup {NoPack}
    OBVIOUS
<1>3. QED BY <1>1, <1>2, LevelsDoAddUp

(* The shares by class are numbers.                                        *)
LEMMA SharesByClassAreNumbers ==
    ASSUME NEW slots \in Seq(SlotRecords), NoClassTwice(slots)
    PROVE  IsFun(ShareByClass(slots)) /\ Summable(ShareByClass(slots))
<1>1. PICK v, by : v = VarianceShares(slots) /\ by = ByClass(v, slots)
    OBVIOUS
<1>2. IsFun(v) /\ Summable(v) /\ DOMAIN v = DOMAIN slots
    BY <1>1, SharesAreNumbers
<1>3. ShareByClass(slots) = by
    BY <1>1 DEF ShareByClass, ByClass
<1>4. IsFun(by) /\ DOMAIN by = ClassesOf(slots)
    BY <1>1 DEF IsFun, ByClass
<1>5. \A i \in DOMAIN slots : by[slots[i].class] = v[i] /\ v[i] \in Int
    BY <1>1, <1>2, ByClassAdds DEF Summable
<1>6. \A class \in ClassesOf(slots) : by[class] \in Int
    BY <1>5 DEF ClassesOf
<1>7. IsFiniteSet(ClassesOf(slots))
    <2>1. PICK of : \A i \in DOMAIN slots : of[i] = slots[i].class
        <3> DEFINE f == [i \in DOMAIN slots |-> slots[i].class]
        <3>1. \A i \in DOMAIN slots : f[i] = slots[i].class
            OBVIOUS
        <3>2. QED BY <3>1
    <2>2. ClassesOf(slots) = {of[i] : i \in DOMAIN slots}
        BY <2>1 DEF ClassesOf
    <2>3. IsFiniteSet({of[i] : i \in DOMAIN slots})
        BY SlotsAreMany, ImageIsFinite
    <2>4. QED BY <2>2, <2>3
<1>8. QED BY <1>3, <1>4, <1>6, <1>7 DEF Summable

(* An overlay proposes a portfolio or is rejected; what it drops is gone,  *)
(* the levels add up, and so do the deltas, for any portfolio and overlay  *)
(* of the classes that have a volatility (evaluate_risk, apply_overlay).   *)
THEOREM OverlaysAreSound ==
    ASSUME NEW portfolio, portfolio.slots \in Seq(SlotRecords), IsPortfolio(portfolio),
           NEW overlay, overlay # NoOverlay, IsOverlay(overlay), AsRecords(portfolio, overlay)
    PROVE  IF \/ overlay.pack \notin DOMAIN Shocks \cup {NoPack}
              \/ ApplyOverlay(Without(portfolio, overlay.drop), [overlay EXCEPT !.drop = {}]) = Rejected
           THEN EvaluateRisk(portfolio, overlay) = Rejected
           ELSE OverlayIsSound(EvaluateRisk(portfolio, overlay), portfolio, overlay)
<1>1. PICK report, derived, same, outcome :
          /\ report = EvaluatePortfolioRisk(portfolio, NoPack)
          /\ derived = ApplyOverlay(portfolio, overlay)
          /\ same = ApplyOverlay(Without(portfolio, overlay.drop), [overlay EXCEPT !.drop = {}])
          /\ outcome = EvaluateRisk(portfolio, overlay)
    OBVIOUS
<1>2. same = derived
    BY <1>1, WithoutAsApplied
<1>3. outcome = EvaluateDeltas(report, derived, overlay.pack)
    BY <1>1, Zenon DEF EvaluateRisk
<1>4. CASE overlay.pack \notin DOMAIN Shocks \cup {NoPack} \/ same = Rejected
    <2>1. outcome = Rejected
        BY <1>2, <1>3, <1>4 DEF EvaluateDeltas
    <2>2. QED BY <1>1, <1>4, <2>1
<1>5. CASE ~ (overlay.pack \notin DOMAIN Shocks \cup {NoPack} \/ same = Rejected)
    <2>1. PICK proposed : proposed = EvaluatePortfolioRisk(derived, overlay.pack)
        OBVIOUS
    <2>2. outcome = Proposal(report, derived, proposed)
        BY <1>2, <1>3, <1>5, <2>1 DEF EvaluateDeltas
    <2>3. /\ outcome.report = report /\ outcome.derived = derived /\ outcome.proposed = proposed
          /\ outcome.deltas = DiffReports(report, proposed)
        BY <2>2 DEF Proposal
    <2>4. PICK slots \in Seq(SlotRecords) : slots = portfolio.slots
        OBVIOUS
    <2>5. ~ RejectedBy(WeightUnder(slots, overlay))
          /\ derived = [whole |-> TotalOf(WeightUnder(slots, overlay)), slots |-> SlotsUnder(slots, overlay)]
        <3>1. derived = IF RejectedBy(WeightUnder(slots, overlay)) THEN Rejected
                        ELSE [whole |-> TotalOf(WeightUnder(slots, overlay)),
                              slots |-> SlotsUnder(slots, overlay)]
            BY <1>1, <2>4, OverlayApplied, Zenon
        <3>2. QED BY <1>2, <1>5, <3>1
    <2>6. /\ IsPortfolio(derived) /\ derived.slots \in Seq(SlotRecords)
          /\ NoClassTwice(derived.slots)
          /\ derived.whole = WeightOf(derived.slots, DOMAIN derived.slots)
        BY <2>5, OverlaysArePortfolios
    <2>7. LevelsAddUp(proposed)
        BY <1>5, <2>1, <2>6, LevelsDoAddUp
    <2>8. NoClassTwice(slots) => LevelsAddUp(report)
        BY <1>1, <2>4, ReportsAddUp
    <2>9. NoClassTwice(slots) => DeltasAddUp(outcome)
        <3>1. SUFFICES ASSUME NoClassTwice(slots) PROVE DeltasAddUp(outcome)
            OBVIOUS
        <3>2. report.variance = TotalOf(report.by_class) /\ proposed.variance = TotalOf(proposed.by_class)
            BY <2>7, <2>8, <3>1, Zenon DEF LevelsAddUp
        <3>3. PICK A, B : A = report.by_class /\ B = proposed.by_class
            OBVIOUS
        <3>4. IsFun(A) /\ Summable(A)
            <4>1. A = ShareByClass(slots)
                BY <1>1, <2>4, <3>3 DEF EvaluatePortfolioRisk
            <4>2. QED BY <4>1, SharesByClassAreNumbers, <3>1
        <3>5. IsFun(B) /\ Summable(B)
            <4>1. B = ShareByClass(derived.slots)
                BY <2>1, <3>3 DEF EvaluatePortfolioRisk
            <4>2. QED BY <2>6, <4>1, SharesByClassAreNumbers
        <3>6. PICK deltas : deltas = DiffReports(report, proposed)
            OBVIOUS
        <3>7. /\ TotalOf([c \in DOMAIN deltas |-> deltas[c].from]) = TotalOf(A)
              /\ TotalOf([c \in DOMAIN deltas |-> deltas[c].to]) = TotalOf(B)
            BY <3>3, <3>4, <3>5, <3>6, DeltasDoAddUp
        <3>8. outcome.deltas = deltas
            BY <2>3, <3>6
        <3>9. QED BY <2>3, <3>2, <3>3, <3>7, <3>8 DEF DeltasAddUp
    <2>10. OverlayIsSound(outcome, portfolio, overlay)
        BY <1>1, <1>2, <2>3, <2>4, <2>6, <2>7, <2>8, <2>9 DEF OverlayIsSound
    <2>11. QED BY <1>1, <1>5, <2>10
<1>6. QED BY <1>4, <1>5

-----------------------------------------------------------------------------
(* Alerts: any settings, any channels that are up.                         *)

IsSettings(settings) ==
    settings \in [onError : BOOLEAN, email : BOOLEAN, to : BOOLEAN, host : {"", "blank", "set"},
                  messaging : BOOLEAN, url : {"", "blank", "set"}]

(* Whatever the caller was about to answer, the health check foretells it. *)
LEMMA FailuresAreForetold ==
    ASSUME NEW settings, IsSettings(settings), NEW up, NEW answer, answer # Lost
    PROVE  Foretold(CheckRiskNotifyConfig(settings), RecordRiskFailure(answer, settings, up),
                    settings, up)
<1>1. PICK tried, gaps, enabled, alert, outcome, verdict :
          /\ tried = IF settings.onError THEN Tried(settings) ELSE {}
          /\ gaps = NotifyConfigGaps(settings) /\ enabled = Enabled(settings)
          /\ alert = DispatchRiskAlert(settings, up)
          /\ outcome = RecordRiskFailure(answer, settings, up)
          /\ verdict = CheckRiskNotifyConfig(settings)
    OBVIOUS
<1>2. PICK mailFails \in BOOLEAN :
          mailFails <=> "email" \in tried /\ ~ Delivers("email", settings, up)
    OBVIOUS
<1>3. /\ alert.sent = IF mailFails THEN {} ELSE {channel \in tried : Delivers(channel, settings, up)}
      /\ alert.raised <=> \E channel \in tried : ~ Delivers(channel, settings, up)
    BY <1>1, <1>2 DEF DispatchRiskAlert
<1>4. /\ outcome.sent = alert.sent
      /\ outcome.reply = Lost <=> \E channel \in tried : ~ Delivers(channel, settings, up)
    BY <1>1, <1>3 DEF RecordRiskFailure
<1>5. verdict = IF ~ settings.onError THEN "skipped" ELSE IF gaps # {} THEN "warn"
                ELSE IF enabled # {} THEN "ok" ELSE "skipped"
    BY <1>1, Zenon DEF CheckRiskNotifyConfig
<1>6. enabled \in SUBSET {"email", "messaging"}
    BY <1>1 DEF Enabled, Channels
<1>7. tried \in SUBSET enabled
    BY <1>1 DEF Tried
<1>8. ("email" \in enabled <=> settings.email) /\ ("messaging" \in enabled <=> settings.messaging)
    BY <1>1 DEF Enabled, Channels, IsSettings
<1>9. settings.onError =>
          /\ "email" \in tried <=> settings.email /\ settings.to /\ settings.host # ""
          /\ "messaging" \in tried <=> settings.messaging /\ settings.url = "set"
    BY <1>1, <1>8 DEF Tried
<1>10. settings.onError =>
          /\ "email" \in gaps <=> settings.email /\ (~ settings.to \/ settings.host \in {"", "blank"})
          /\ "messaging" \in gaps <=> settings.messaging /\ settings.url \in {"", "blank"}
          /\ gaps \in SUBSET {"email", "messaging"}
    BY <1>1, <1>6, <1>8 DEF NotifyConfigGaps
<1>11. /\ Delivers("email", settings, up) <=> "email" \in up /\ settings.host = "set"
       /\ Delivers("messaging", settings, up) <=> "messaging" \in up
    BY DEF Delivers
<1>12. settings.onError \in BOOLEAN /\ settings.email \in BOOLEAN /\ settings.to \in BOOLEAN
       /\ settings.messaging \in BOOLEAN /\ settings.host \in {"", "blank", "set"}
       /\ settings.url \in {"", "blank", "set"}
    BY DEF IsSettings
<1>13. verdict = "skipped" => outcome.sent = {} /\ outcome.reply # Lost
    <2>1. SUFFICES ASSUME verdict = "skipped" PROVE tried = {}
        BY <1>2, <1>3, <1>4
    <2>2. CASE ~ settings.onError
        BY <1>1, <2>2
    <2>3. CASE settings.onError
        BY <1>5, <1>7, <2>1, <2>3
    <2>4. QED BY <1>12, <2>2, <2>3
<1>14. ASSUME verdict = "ok"
       PROVE  /\ tried = enabled
              /\ \A channel \in tried : Delivers(channel, settings, up) <=> channel \in up
    <2>1. settings.onError /\ gaps = {}
        BY <1>5, <1>12, <1>14
    <2>2. (settings.email => settings.to /\ settings.host = "set")
          /\ (settings.messaging => settings.url = "set")
        BY <1>10, <1>12, <2>1
    <2>3. tried = enabled
        BY <1>6, <1>7, <1>8, <1>9, <2>1, <2>2
    <2>4. QED BY <1>6, <1>7, <1>8, <1>11, <2>2, <2>3
<1>15. verdict = "ok" /\ enabled \subseteq up => outcome.sent = enabled /\ outcome.reply # Lost
    BY <1>2, <1>3, <1>4, <1>14
<1>16. verdict = "ok" /\ ~ enabled \subseteq up => outcome.reply = Lost
    BY <1>4, <1>14
<1>17. ASSUME verdict = "warn" PROVE outcome.sent # enabled
    <2>1. settings.onError /\ gaps # {}
        BY <1>5, <1>12, <1>17
    <2>2. CASE "messaging" \in gaps
        <3>1. "messaging" \in enabled /\ "messaging" \notin tried
            BY <1>8, <1>9, <1>10, <2>1, <2>2
        <3>2. outcome.sent \in SUBSET tried
            BY <1>3, <1>4
        <3>3. QED BY <3>1, <3>2
    <2>3. CASE "email" \in gaps
        <3>1. "email" \in enabled /\ ~ ("email" \in tried /\ settings.host = "set")
            BY <1>8, <1>9, <1>10, <1>12, <2>1, <2>3
        <3>2. "email" \notin outcome.sent
            BY <1>2, <1>3, <1>4, <1>11, <3>1
        <3>3. QED BY <3>1, <3>2
    <2>4. QED BY <1>10, <2>1, <2>2, <2>3
<1>18. Foretold(verdict, outcome, settings, up)
    BY <1>1, <1>13, <1>15, <1>16, <1>17 DEF Foretold
<1>19. QED BY <1>1, <1>18

LEMMA FailuresAnswer ==
    ASSUME NEW answer, NEW settings, NEW up
    PROVE  RecordRiskFailure(answer, settings, up).reply \in {answer, Lost}
BY DEF RecordRiskFailure

(* No verdict on the alerts takes the health page down.                    *)
LEMMA AlertsKeepHealth ==
    ASSUME NEW site, NEW settings, NEW checks, checks = RunInfraChecks(site, settings)
    PROVE  HealthStatus(checks) = HealthStatus([checks EXCEPT !.alerts = "skipped"])
<1>1. PICK other : other = [checks EXCEPT !.alerts = "skipped"]
    OBVIOUS
<1>2. DOMAIN checks = {"database", "data", "sandbox", "queue", "store", "alerts"}
      /\ checks.alerts = CheckRiskNotifyConfig(settings)
    BY DEF RunInfraChecks
<1>3. DOMAIN other = DOMAIN checks /\ other.alerts = "skipped"
      /\ \A c \in DOMAIN checks : c # "alerts" => other[c] = checks[c]
    BY <1>1, <1>2
<1>4. checks.alerts # "error"
    BY <1>2 DEF CheckRiskNotifyConfig
<1>5. "error" \in {checks[c] : c \in DOMAIN checks} <=> "error" \in {other[c] : c \in DOMAIN other}
    <2>1. \A c \in DOMAIN checks : checks[c] = "error" <=> other[c] = "error"
        BY <1>2, <1>3, <1>4
    <2>2. QED BY <1>3, <2>1
<1>6. HealthStatus(checks) = HealthStatus(other)
    BY <1>5, Zenon DEF HealthStatus
<1>7. QED BY <1>1, <1>6

-----------------------------------------------------------------------------
(* POST /api/risk: any body.                                               *)

LEMMA RejectionIsNoReport ==
    /\ \A r : [report |-> r] # Rejected
    /\ \A r, d, p, x : [report |-> r, derived |-> d, proposed |-> p, deltas |-> x] # Rejected
    /\ \A w, s : [whole |-> w, slots |-> s] # Rejected
<1>1. DOMAIN Rejected = {"rejected"}
    BY DEF Rejected
<1>2. \A r : "report" \in DOMAIN [report |-> r]
    OBVIOUS
<1>3. \A r, d, p, x : "report" \in DOMAIN [report |-> r, derived |-> d, proposed |-> p, deltas |-> x]
    OBVIOUS
<1>4. \A w, s : "whole" \in DOMAIN [whole |-> w, slots |-> s]
    OBVIOUS
<1>5. "report" \notin {"rejected"} /\ "whole" \notin {"rejected"}
    OBVIOUS
<1>6. QED BY <1>1, <1>2, <1>3, <1>4, <1>5

LEMMA RejectionsOfRisk ==
    ASSUME NEW portfolio, NEW overlay
    PROVE  EvaluateRisk(portfolio, overlay) = Rejected <=>
              /\ overlay # NoOverlay
              /\ \/ overlay.pack \notin DOMAIN Shocks \cup {NoPack}
                 \/ ApplyOverlay(portfolio, overlay) = Rejected
<1>1. CASE overlay = NoOverlay
    BY <1>1, RejectionIsNoReport DEF EvaluateRisk
<1>2. CASE overlay # NoOverlay
    <2>1. PICK report, derived : /\ report = EvaluatePortfolioRisk(portfolio, NoPack)
                                 /\ derived = ApplyOverlay(portfolio, overlay)
        OBVIOUS
    <2>2. EvaluateRisk(portfolio, overlay) = EvaluateDeltas(report, derived, overlay.pack)
        BY <1>2, <2>1, Zenon DEF EvaluateRisk
    <2>3. Proposal(report, derived, EvaluatePortfolioRisk(derived, overlay.pack)) # Rejected
        BY RejectionIsNoReport DEF Proposal
    <2>4. QED BY <1>2, <2>1, <2>2, <2>3 DEF EvaluateDeltas
<1>3. QED BY <1>1, <1>2

(* A body that parses, as parse_risk_request reads it.                     *)
IsBody(raw) ==
    /\ raw \notin {NotUtf8, NotJson, NotObject}
    /\ raw.horizon \in {"missing", "unread", "bad", "ok"}
    /\ raw.notional \in {"unread", "bad", "ok"} /\ raw.regime \in {"unknown", "ok"}

LEMMA BodiesAreRead ==
    ASSUME NEW raw, IsBody(raw)
    PROVE  /\ EvaluateRiskHttp(raw) \in {200, 400, 422, 500}
           /\ EvaluateRiskHttp(raw) = 200 <=> Evaluable(raw)
<1>1. PICK status : status = ParseRiskRequest(raw)
    OBVIOUS
<1>2. status \in {200, 400, 422, 500}
    BY <1>1 DEF ParseRiskRequest
<1>3. status = 200 <=> /\ raw.portfolio \notin {Missing, Bad} /\ raw.horizon = "ok"
                       /\ raw.notional = "ok" /\ raw.regime = "ok" /\ raw.overlay # Bad
    <2>1. CASE raw.portfolio = Missing \/ raw.horizon = "missing"
        <3>1. status = 400
            BY <1>1, <2>1 DEF ParseRiskRequest
        <3>2. QED BY <2>1, <3>1
    <2>2. CASE ~ (raw.portfolio = Missing \/ raw.horizon = "missing")
        <3>1. status = IF raw.portfolio = Bad THEN 422
                       ELSE IF raw.horizon # "ok" THEN IF raw.horizon = "unread" THEN 500 ELSE 422
                       ELSE IF raw.notional = "unread" THEN 500
                       ELSE IF raw.regime = "unknown" THEN 400
                       ELSE IF raw.overlay = Bad \/ raw.notional = "bad" THEN 422
                       ELSE 200
            BY <1>1, <2>2 DEF ParseRiskRequest
        <3>2. QED BY <2>2, <3>1 DEF IsBody
    <2>3. QED BY <2>1, <2>2
<1>4. EvaluateRiskHttp(raw) = IF status # 200 THEN status
                              ELSE IF EvaluateRisk(raw.portfolio, raw.overlay) = Rejected THEN 422 ELSE 200
    BY <1>1, Zenon DEF EvaluateRiskHttp
<1>5. EvaluateRiskHttp(raw) \in {200, 400, 422, 500}
    BY <1>2, <1>4
<1>6. EvaluateRiskHttp(raw) = 200
          <=> status = 200 /\ EvaluateRisk(raw.portfolio, raw.overlay) # Rejected
    BY <1>4
<1>7. EvaluateRiskHttp(raw) = 200 <=> Evaluable(raw)
    BY <1>3, <1>6, RejectionsOfRisk DEF Evaluable, IsBody
<1>8. QED BY <1>5, <1>7

(* What the health check says of the alerts foretells what a request that  *)
(* fails does, for any body, settings and channels (evaluate_risk_json).   *)
THEOREM RequestsAreForetold ==
    ASSUME NEW raw, raw \in {NotUtf8, NotJson, NotObject} \/ IsBody(raw),
           NEW settings, IsSettings(settings), NEW up, NEW outcome,
           outcome = EvaluateRiskJson(raw, settings, up)
    PROVE  /\ outcome.reply = 200 <=> Evaluable(raw)
           /\ Evaluable(raw) => outcome.sent = {}
           /\ raw = NotUtf8 => outcome.reply = Lost /\ outcome.sent = {}
           /\ ~ Evaluable(raw) /\ raw # NotUtf8 =>
                 Foretold(CheckRiskNotifyConfig(settings), outcome, settings, up)
<1>1. Lost \notin {200, 400, 422, 500}
    BY DeskAssumption
<1>2. CASE raw = NotUtf8
    <2>1. outcome = [reply |-> Lost, sent |-> {}]
        BY <1>2, DeskAssumption, Zenon DEF EvaluateRiskJson
    <2>2. ~ Evaluable(raw)
        BY <1>2 DEF Evaluable
    <2>3. QED BY <1>1, <1>2, <2>1, <2>2
<1>3. CASE raw # NotUtf8 /\ raw \in {NotJson, NotObject}
    <2>1. outcome = RecordRiskFailure(400, settings, up)
        BY <1>3 DEF EvaluateRiskJson
    <2>2. ~ Evaluable(raw)
        BY <1>3 DEF Evaluable
    <2>3. 400 # Lost
        BY <1>1
    <2>4. outcome.reply \in {400, Lost}
        BY <2>1, FailuresAnswer
    <2>5. Foretold(CheckRiskNotifyConfig(settings), outcome, settings, up)
        BY <2>1, <2>3, FailuresAreForetold
    <2>6. QED BY <1>1, <1>3, <2>2, <2>4, <2>5
<1>4. CASE raw \notin {NotUtf8, NotJson, NotObject}
    <2>1. IsBody(raw)
        BY <1>4
    <2>2. PICK status : status = EvaluateRiskHttp(raw)
        OBVIOUS
    <2>3. status \in {200, 400, 422, 500} /\ (status = 200 <=> Evaluable(raw))
        BY <2>1, <2>2, BodiesAreRead
    <2>4. outcome = IF status = 200 THEN [reply |-> 200, sent |-> {}]
                    ELSE RecordRiskFailure(status, settings, up)
        BY <1>4, <2>2 DEF EvaluateRiskJson, RespondWith
    <2>5. CASE status = 200
        BY <1>1, <1>4, <2>3, <2>4, <2>5
    <2>6. CASE status # 200
        <3>1. outcome = RecordRiskFailure(status, settings, up) /\ status # Lost
            BY <1>1, <2>3, <2>4, <2>6
        <3>2. outcome.reply \in {status, Lost}
            BY <3>1, FailuresAnswer
        <3>3. Foretold(CheckRiskNotifyConfig(settings), outcome, settings, up)
            BY <3>1, FailuresAreForetold
        <3>4. QED BY <1>1, <1>4, <2>3, <2>6, <3>2, <3>3
    <2>7. QED BY <2>5, <2>6
<1>5. QED BY <1>2, <1>3, <1>4

-----------------------------------------------------------------------------
(* The risk panel: the book of a household as a portfolio.                 *)

(* A lot is worth nothing or something, or has no mark.                    *)
IsHousehold(lots, funds) ==
    /\ IsFiniteSet(DOMAIN lots) /\ DOMAIN lots \in SUBSET (Nat \ {0})
    /\ \A i \in DOMAIN lots : lots[i].value \in Nat \cup {NoMark}
    /\ IsFun(funds) /\ IsFiniteSet(DOMAIN funds) /\ \A i \in DOMAIN funds : funds[i] \in Nat

WithMark(lots) == {i \in DOMAIN lots : lots[i].value # NoMark}
Worth(lots) == {i \in DOMAIN lots : lots[i].value # NoMark /\ lots[i].value > 0}
ClassOfLot(lots, i) ==
    IF lots[i].ticker \in DOMAIN TickerClass
    THEN TickerClass[lots[i].ticker] ELSE [class |-> "equity", tier |-> 1]
HeldIn(lots, class) == {i \in Worth(lots) : ClassOfLot(lots, i).class = class}
InFunds(funds) == TotalOf([i \in {i \in DOMAIN funds : funds[i] > 0} |-> funds[i]])
ClassesIn(lots, funds) ==
    {ClassOfLot(lots, i).class : i \in Worth(lots)}
        \cup IF InFunds(funds) > 0 THEN {"alternatives"} ELSE {}
WeightIn(lots, funds, class) ==
    TotalOf([i \in HeldIn(lots, class) |-> lots[i].value])
    + IF class = "alternatives" THEN InFunds(funds) ELSE 0
WeightsIn(lots, funds) == [class \in ClassesIn(lots, funds) |-> WeightIn(lots, funds, class)]
DurationOf(class) ==
    CASE class = "fixed_income" -> Short + 1 [] class = "alternatives" -> Long [] OTHER -> NoDuration
TierIn(lots, class) ==
    IF class = "alternatives" THEN 3 ELSE Min({ClassOfLot(lots, i).tier : i \in HeldIn(lots, class)})
SlotIn(lots, funds, class) ==
    [class |-> class, weight |-> WeightIn(lots, funds, class), tier |-> TierIn(lots, class),
     duration |-> DurationOf(class), mode |-> "auto"]
SlotsIn(lots, funds) ==
    LET order == SetToSeq(ClassesIn(lots, funds))
    IN  [k \in DOMAIN order |-> SlotIn(lots, funds, order[k])]

LEMMA PortfolioIs ==
    ASSUME NEW lots, NEW funds
    PROVE  PortfolioOf(lots, funds)
              = IF ClassesIn(lots, funds) = {} THEN Rejected
                ELSE [whole |-> TotalOf(WeightsIn(lots, funds)), slots |-> SlotsIn(lots, funds)]
BY Zenon DEF PortfolioOf, ClassesIn, WeightsIn, SlotsIn, SlotIn, TierIn, DurationOf, WeightIn,
      InFunds, HeldIn, ClassOfLot, Worth

LEMMA FundsAreCounted ==
    ASSUME NEW funds, IsFun(funds), IsFiniteSet(DOMAIN funds), \A i \in DOMAIN funds : funds[i] \in Nat
    PROVE  InFunds(funds) = TotalOf(funds) /\ InFunds(funds) \in Int /\ InFunds(funds) >= 0
<1>1. PICK D : D = {i \in DOMAIN funds : funds[i] > 0}
    OBVIOUS
<1>2. PICK w : w = [i \in D |-> funds[i]]
    OBVIOUS
<1>3. IsFun(w) /\ DOMAIN w = D /\ D \in SUBSET DOMAIN funds
    BY <1>1, <1>2 DEF IsFun
<1>4. Summable(funds) /\ Summable(w)
    <2>1. IsFiniteSet(D)
        BY <1>3, FS_Subset
    <2>2. QED BY <1>2, <1>3, <2>1 DEF Summable
<1>5. \A i \in DOMAIN funds : funds[i] = IF i \in DOMAIN w THEN w[i] ELSE 0
    BY <1>1, <1>2, <1>3
<1>6. TotalOf(funds) = TotalOf(w)
    BY <1>3, <1>4, <1>5, TotalOfMore
<1>7. PICK f : Adds(f, w, D)
    BY <1>3, <1>4, SumsExist
<1>8. TotalOf(w) = f[D] /\ TotalOf(w) \in Int
    BY <1>3, <1>7, TotalIsAdded
<1>9. f[D] >= 0
    <2>1. \A i \in D : w[i] \in Int /\ w[i] >= 0
        BY <1>2, <1>3
    <2>2. D \in SUBSET D /\ IsFiniteSet(D)
        BY <1>3, <1>4 DEF Summable
    <2>3. QED BY <1>7, <2>1, <2>2, AtLeastEach
<1>10. InFunds(funds) = TotalOf(w)
    BY <1>1, <1>2 DEF InFunds
<1>11. QED BY <1>6, <1>8, <1>9, <1>10

(* What the panel weighs, in one sum: the worth of each lot at its place   *)
(* and, when there is any, what is in funds at place 0.                    *)
Weighed(lots, funds) ==
    [i \in Worth(lots) \cup (IF InFunds(funds) > 0 THEN {0} ELSE {}) |->
        IF i = 0 THEN InFunds(funds) ELSE lots[i].value]
ClassAt(lots, funds) ==
    [i \in Worth(lots) \cup (IF InFunds(funds) > 0 THEN {0} ELSE {}) |->
        IF i = 0 THEN "alternatives" ELSE ClassOfLot(lots, i).class]

LEMMA WeighedIsPositive ==
    ASSUME NEW lots, NEW funds, IsHousehold(lots, funds)
    PROVE  LET w == Weighed(lots, funds)
           IN  /\ IsFun(w) /\ Summable(w) /\ \A i \in DOMAIN w : w[i] \in Int /\ w[i] > 0
               /\ DOMAIN w = Worth(lots) \cup (IF InFunds(funds) > 0 THEN {0} ELSE {})
               /\ Worth(lots) \in SUBSET (Nat \ {0}) /\ IsFiniteSet(Worth(lots))
               /\ \A i \in Worth(lots) : w[i] = lots[i].value
<1>1. PICK D, w : D = Worth(lots) \cup (IF InFunds(funds) > 0 THEN {0} ELSE {})
                  /\ w = Weighed(lots, funds)
    OBVIOUS
<1>2. IsFiniteSet(Worth(lots)) /\ Worth(lots) \in SUBSET (Nat \ {0})
    <2>1. Worth(lots) \in SUBSET DOMAIN lots
        BY DEF Worth
    <2>2. QED BY <2>1, FS_Subset DEF IsHousehold
<1>3. IsFiniteSet(D)
    <2>1. IsFiniteSet({0}) /\ IsFiniteSet({})
        BY FS_Singleton, FS_EmptySet
    <2>2. CASE InFunds(funds) > 0
        <3>1. D = Worth(lots) \cup {0}
            BY <1>1, <2>2
        <3>2. QED BY <1>2, <2>1, <3>1, FS_Union
    <2>3. CASE ~ (InFunds(funds) > 0)
        BY <1>1, <1>2, <2>3
    <2>4. QED BY <2>2, <2>3
<1>4. InFunds(funds) \in Int
    BY FundsAreCounted DEF IsHousehold
<1>5. \A i \in Worth(lots) : lots[i].value \in Int /\ lots[i].value > 0
    BY DEF Worth, IsHousehold
<1>6. DOMAIN w = D /\ IsFun(w) /\ \A i \in D : w[i] = IF i = 0 THEN InFunds(funds) ELSE lots[i].value
    BY <1>1 DEF Weighed, IsFun
<1>7. \A i \in D : w[i] \in Int /\ w[i] > 0
    BY <1>1, <1>2, <1>4, <1>5, <1>6
<1>8. Summable(w)
    BY <1>3, <1>6, <1>7 DEF Summable
<1>9. \A i \in Worth(lots) : w[i] = lots[i].value
    BY <1>1, <1>2, <1>6
<1>10. QED BY <1>1, <1>2, <1>6, <1>7, <1>8, <1>9

(* A class weighs what is at the places of the class, which is something.  *)
LEMMA ClassWeighs ==
    ASSUME NEW lots, NEW funds, IsHousehold(lots, funds),
           NEW w, w = Weighed(lots, funds), NEW p, p = ClassAt(lots, funds),
           NEW class \in ClassesIn(lots, funds)
    PROVE  /\ WeightIn(lots, funds, class) = TotalOf(On(w, PartOf(w, p, class)))
           /\ WeightIn(lots, funds, class) \in Int /\ WeightIn(lots, funds, class) > 0
<1>1. PICK D, W, fund : /\ D = DOMAIN w /\ W = Worth(lots) /\ fund = InFunds(funds)
    OBVIOUS
<1>2. /\ IsFun(w) /\ Summable(w) /\ \A i \in D : w[i] \in Int /\ w[i] > 0
      /\ D = W \cup (IF fund > 0 THEN {0} ELSE {})
      /\ W \in SUBSET (Nat \ {0}) /\ IsFiniteSet(W) /\ \A i \in W : w[i] = lots[i].value
    BY <1>1, WeighedIsPositive
<1>3. fund \in Int /\ fund >= 0
    BY <1>1, FundsAreCounted DEF IsHousehold
<1>4. /\ DOMAIN p = D /\ \A i \in W : p[i] = ClassOfLot(lots, i).class
      /\ 0 \in D => p[0] = "alternatives" /\ w[0] = fund
    BY <1>1, <1>2 DEF ClassAt, Weighed
<1>5. PICK f : Adds(f, w, D)
    BY <1>1, <1>2, SumsExist
<1>6. PICK held, part : held = HeldIn(lots, class) /\ part = PartOf(w, p, class)
    OBVIOUS
<1>7. held \in SUBSET W /\ held \in SUBSET D /\ part \in SUBSET D /\ held = {i \in W : p[i] = class}
    BY <1>1, <1>2, <1>4, <1>6 DEF HeldIn, PartOf
<1>8. TotalOf([i \in held |-> lots[i].value]) = f[held] /\ f[held] \in Int
    <2>1. On(w, held) = [i \in held |-> lots[i].value]
        BY <1>2, <1>7 DEF On
    <2>2. QED BY <1>5, <1>7, <2>1 DEF Adds
<1>9. WeightIn(lots, funds, class) = f[held] + IF class = "alternatives" THEN fund ELSE 0
    BY <1>1, <1>6, <1>8 DEF WeightIn
<1>10. TotalOf(On(w, part)) = f[part] /\ f[part] \in Int
    BY <1>5, <1>7 DEF Adds
<1>11. WeightIn(lots, funds, class) = f[part]
    <2>1. CASE class = "alternatives" /\ fund > 0
        <3>1. 0 \in part /\ part \ {0} = held
            BY <1>1, <1>2, <1>4, <1>6, <1>7, <2>1 DEF PartOf
        <3>2. f[part] = w[0] + f[part \ {0}]
            BY <1>5, <1>7, <3>1 DEF Adds
        <3>3. f[part] = w[0] + f[held] /\ w[0] = fund
            BY <1>4, <1>7, <3>1, <3>2
        <3>4. PICK h \in Int : h = f[held]
            BY <1>8
        <3>5. WeightIn(lots, funds, class) = h + fund
            BY <1>9, <2>1, <3>4
        <3>6. f[part] = fund + h
            BY <3>3, <3>4
        <3>7. QED BY <1>3, <3>5, <3>6
    <2>2. CASE ~ (class = "alternatives" /\ fund > 0)
        <3>1. part = held
            BY <1>1, <1>2, <1>4, <1>6, <1>7, <2>2 DEF PartOf
        <3>2. WeightIn(lots, funds, class) = f[held]
            BY <1>3, <1>8, <1>9, <2>2
        <3>3. QED BY <3>1, <3>2
    <2>3. QED BY <2>1, <2>2
<1>12. PICK i \in part : TRUE
    <2>1. CASE class \in {ClassOfLot(lots, i).class : i \in W}
        BY <1>1, <1>2, <1>4, <1>6, <2>1 DEF PartOf
    <2>2. CASE class \notin {ClassOfLot(lots, i).class : i \in W}
        <3>1. fund > 0 /\ class = "alternatives"
            BY <1>1, <2>2 DEF ClassesIn
        <3>2. 0 \in part
            BY <1>1, <1>2, <1>4, <1>6, <3>1 DEF PartOf
        <3>3. QED BY <3>2
    <2>3. QED BY <2>1, <2>2
<1>13. f[part] > 0
    <2>1. \A x \in D : w[x] \in Int /\ w[x] >= 0
        BY <1>2
    <2>2. IsFiniteSet(D)
        BY <1>1, <1>2 DEF Summable
    <2>3. f[part] >= w[i]
        BY <1>5, <1>7, <2>1, <2>2, AtLeastEach
    <2>4. w[i] \in Int /\ w[i] > 0
        BY <1>2, <1>7
    <2>5. QED BY <1>10, <2>3, <2>4
<1>14. QED BY <1>6, <1>10, <1>11, <1>13

(* The classes weigh together what the household is worth.                 *)
LEMMA BookWeighs ==
    ASSUME NEW lots, NEW funds, IsHousehold(lots, funds),
           NEW weights, weights = WeightsIn(lots, funds)
    PROVE  /\ IsFun(weights) /\ Summable(weights) /\ DOMAIN weights = ClassesIn(lots, funds)
           /\ \A class \in DOMAIN weights : weights[class] > 0
           /\ TotalOf(weights) = HouseholdNotional(lots, funds)
           /\ TotalOf(weights) \in Int /\ TotalOf(weights) >= 0
           /\ TotalOf(weights) > 0 <=> ClassesIn(lots, funds) # {}
           /\ \A class \in DOMAIN weights : weights[class] <= TotalOf(weights)
<1>1. PICK w, p : w = Weighed(lots, funds) /\ p = ClassAt(lots, funds)
    OBVIOUS
<1>2. PICK D, W, fund : /\ D = DOMAIN w /\ W = Worth(lots) /\ fund = InFunds(funds)
    OBVIOUS
<1>3. /\ IsFun(w) /\ Summable(w) /\ \A i \in D : w[i] \in Int /\ w[i] > 0
      /\ D = W \cup (IF fund > 0 THEN {0} ELSE {})
      /\ W \in SUBSET (Nat \ {0}) /\ IsFiniteSet(W) /\ \A i \in W : w[i] = lots[i].value
    BY <1>1, <1>2, WeighedIsPositive
<1>4. fund \in Int /\ fund >= 0 /\ fund = TotalOf(funds)
    BY <1>2, FundsAreCounted DEF IsHousehold
<1>5. /\ DOMAIN p = D /\ \A i \in W : p[i] = ClassOfLot(lots, i).class
      /\ 0 \in D => p[0] = "alternatives" /\ w[0] = fund
    BY <1>1, <1>2, <1>3 DEF ClassAt, Weighed
<1>6. ClassesIn(lots, funds) = {p[i] : i \in D}
    <2>1. CASE fund > 0
        <3>1. D = W \cup {0}
            BY <1>3, <2>1
        <3>2. {p[i] : i \in D} = {ClassOfLot(lots, i).class : i \in W} \cup {"alternatives"}
            BY <1>5, <3>1
        <3>3. QED BY <1>2, <2>1, <3>2 DEF ClassesIn
    <2>2. CASE ~ (fund > 0)
        <3>1. D = W
            BY <1>3, <2>2
        <3>2. {p[i] : i \in D} = {ClassOfLot(lots, i).class : i \in W}
            BY <1>5, <3>1
        <3>3. QED BY <1>2, <2>2, <3>2 DEF ClassesIn
    <2>3. QED BY <2>1, <2>2
<1>7. IsFun(weights) /\ DOMAIN weights = ClassesIn(lots, funds)
      /\ \A class \in DOMAIN weights : weights[class] = WeightIn(lots, funds, class)
    BY DEF WeightsIn, IsFun
<1>8. \A class \in DOMAIN weights :
          /\ weights[class] = TotalOf(On(w, PartOf(w, p, class)))
          /\ weights[class] \in Int /\ weights[class] > 0
    BY <1>1, <1>7, ClassWeighs
<1>9. Parts(weights, w, p)
    BY <1>2, <1>6, <1>7, <1>8 DEF Parts
<1>10. IsFiniteSet(DOMAIN weights)
    <2>1. IsFiniteSet({p[i] : i \in D})
        BY <1>2, <1>3, ImageIsFinite DEF Summable
    <2>2. QED BY <1>6, <1>7, <2>1
<1>11. Summable(weights)
    BY <1>8, <1>10 DEF Summable
<1>12. TotalOf(weights) = TotalOf(w)
    BY <1>3, <1>9, TotalByParts
<1>13. PICK g : Adds(g, weights, DOMAIN weights)
    BY <1>11, SumsExist
<1>14. TotalOf(weights) = g[DOMAIN weights] /\ TotalOf(weights) \in Int
    BY <1>7, <1>13, TotalIsAdded
<1>15. g[DOMAIN weights] >= 0 /\ \A class \in DOMAIN weights : g[DOMAIN weights] >= weights[class]
    <2>1. \A class \in DOMAIN weights : weights[class] \in Int /\ weights[class] >= 0
        BY <1>8
    <2>2. PICK K : K = DOMAIN weights
        OBVIOUS
    <2>3. K \in SUBSET K /\ IsFiniteSet(K) /\ Adds(g, weights, K)
          /\ \A class \in K : weights[class] \in Int /\ weights[class] >= 0
        BY <1>10, <1>13, <2>1, <2>2
    <2>4. g[K] >= 0 /\ \A class \in K : g[K] >= weights[class]
        BY <2>3, AtLeastEach
    <2>5. QED BY <2>2, <2>4
<1>16. TotalOf(weights) > 0 <=> ClassesIn(lots, funds) # {}
    <2>1. CASE DOMAIN weights = {}
        <3>1. g[DOMAIN weights] = 0
            BY <1>13, <2>1 DEF Adds
        <3>2. QED BY <1>7, <1>14, <2>1, <3>1
    <2>2. CASE DOMAIN weights # {}
        <3>1. PICK class \in DOMAIN weights : TRUE
            BY <2>2
        <3>2. g[DOMAIN weights] >= weights[class] /\ weights[class] \in Int /\ weights[class] > 0
            BY <1>8, <1>15
        <3>3. QED BY <1>7, <1>14, <2>2, <3>2
    <2>3. QED BY <2>1, <2>2
<1>17. PICK f : Adds(f, w, D)
    BY <1>2, <1>3, SumsExist
<1>18. TotalOf(w) = f[D]
    BY <1>2, <1>3, <1>17, TotalIsAdded
<1>19. f[D] = f[W] + fund /\ f[W] \in Int /\ W \in SUBSET D
    <2>1. W \in SUBSET D
        BY <1>3
    <2>2. f[W] \in Int
        BY <1>17, <2>1 DEF Adds
    <2>3. CASE fund > 0
        <3>1. 0 \in D /\ D \ {0} = W
            BY <1>3, <2>3
        <3>2. f[D] = w[0] + f[D \ {0}]
            BY <1>17, <3>1 DEF Adds
        <3>3. f[D] = fund + f[W]
            BY <1>5, <3>1, <3>2
        <3>4. PICK h \in Int : h = f[W]
            BY <2>2
        <3>5. f[D] = h + fund
            BY <1>4, <3>3, <3>4
        <3>6. QED BY <2>1, <2>2, <3>4, <3>5
    <2>4. CASE ~ (fund > 0)
        <3>1. D = W /\ fund = 0
            BY <1>3, <1>4, <2>4
        <3>2. QED BY <2>1, <2>2, <3>1
    <2>5. QED BY <2>3, <2>4
<1>20. TotalOf([i \in WithMark(lots) |-> lots[i].value]) = f[W]
    <2>1. PICK u, v : u = [i \in WithMark(lots) |-> lots[i].value] /\ v = On(w, W)
        OBVIOUS
    <2>2. WithMark(lots) \in SUBSET DOMAIN lots /\ W \in SUBSET WithMark(lots)
        BY <1>2 DEF WithMark, Worth
    <2>3. IsFun(u) /\ DOMAIN u = WithMark(lots) /\ IsFun(v) /\ DOMAIN v = W
        BY <2>1 DEF IsFun, On
    <2>4. \A i \in WithMark(lots) : u[i] = lots[i].value /\ lots[i].value \in Nat
        BY <2>1 DEF WithMark, IsHousehold
    <2>5. Summable(u)
        <3>1. IsFiniteSet(WithMark(lots))
            BY <2>2, FS_Subset DEF IsHousehold
        <3>2. QED BY <2>3, <2>4, <3>1 DEF Summable
    <2>6. \A i \in DOMAIN u : u[i] = IF i \in DOMAIN v THEN v[i] ELSE 0
        <3>1. SUFFICES ASSUME NEW i \in DOMAIN u PROVE u[i] = IF i \in DOMAIN v THEN v[i] ELSE 0
            OBVIOUS
        <3>2. CASE i \in W
            <4>1. v[i] = w[i]
                BY <2>1, <3>2 DEF On
            <4>2. QED BY <1>3, <2>3, <2>4, <3>2, <4>1
        <3>3. CASE i \notin W
            <4>1. ~ (lots[i].value > 0)
                BY <1>2, <2>2, <2>3, <3>3 DEF Worth, WithMark
            <4>2. QED BY <2>3, <2>4, <3>3, <4>1
        <3>4. QED BY <3>2, <3>3
    <2>7. TotalOf(u) = TotalOf(v)
        BY <2>2, <2>3, <2>5, <2>6, TotalOfMore
    <2>8. TotalOf(v) = f[W]
        BY <1>17, <1>19, <2>1 DEF Adds
    <2>9. QED BY <2>1, <2>7, <2>8
<1>21. HouseholdNotional(lots, funds) = f[W] + fund
    BY <1>4, <1>20 DEF HouseholdNotional, WithMark
<1>22. TotalOf(weights) = HouseholdNotional(lots, funds)
    BY <1>12, <1>18, <1>19, <1>21
<1>23. QED BY <1>7, <1>8, <1>11, <1>14, <1>15, <1>16, <1>22

LEMMA LotsAreClassed ==
    ASSUME NEW lots, NEW i
    PROVE  ClassOfLot(lots, i).class \in DOMAIN Vol /\ ClassOfLot(lots, i).tier \in 1..3
<1>1. CASE lots[i].ticker \in DOMAIN TickerClass
    BY <1>1, DeskAssumption DEF ClassOfLot
<1>2. CASE lots[i].ticker \notin DOMAIN TickerClass
    BY <1>2, DeskAssumption DEF ClassOfLot
<1>3. QED BY <1>1, <1>2

LEMMA TierOfHeld ==
    ASSUME NEW lots, NEW funds, IsHousehold(lots, funds), NEW class \in ClassesIn(lots, funds)
    PROVE  TierIn(lots, class) \in 1..3
<1>1. CASE class = "alternatives"
    BY <1>1 DEF TierIn
<1>2. CASE class # "alternatives"
    <2>1. PICK held : held = HeldIn(lots, class)
        OBVIOUS
    <2>2. PICK of : \A i \in held : of[i] = ClassOfLot(lots, i).tier
        <3> DEFINE f == [i \in held |-> ClassOfLot(lots, i).tier]
        <3>1. \A i \in held : f[i] = ClassOfLot(lots, i).tier
            OBVIOUS
        <3>2. QED BY <3>1
    <2>3. PICK tiers : tiers = {of[i] : i \in held}
        OBVIOUS
    <2>4. {ClassOfLot(lots, i).tier : i \in HeldIn(lots, class)} = tiers
        BY <2>1, <2>2, <2>3
    <2>5. tiers \in SUBSET (1..3)
        <3>1. \A i \in held : of[i] \in 1..3
            BY <2>2, LotsAreClassed
        <3>2. QED BY <2>3, <3>1
    <2>6. held # {}
        BY <1>2, <2>1 DEF ClassesIn, HeldIn
    <2>7. tiers \in SUBSET Int /\ IsFiniteSet(tiers) /\ tiers # {}
        <3>1. IsFiniteSet(1..3)
            <4>1. 1 \in Int /\ 3 \in Int
                OBVIOUS
            <4>2. QED BY <4>1, FS_Interval, Zenon
        <3>2. IsFiniteSet(tiers)
            BY <2>5, <3>1, FS_Subset
        <3>3. QED BY <2>3, <2>5, <2>6, <3>2
    <2>8. Min(tiers) \in tiers
        BY <2>7, MinIsLeast
    <2>9. QED BY <1>2, <2>4, <2>5, <2>8 DEF TierIn
<1>3. QED BY <1>1, <1>2

LEMMA ClassesAreFew ==
    ASSUME NEW lots, NEW funds
    PROVE  ClassesIn(lots, funds) \in SUBSET DOMAIN Vol
<1>1. \A i \in Worth(lots) : ClassOfLot(lots, i).class \in DOMAIN Vol
    BY LotsAreClassed
<1>2. "alternatives" \in DOMAIN Vol
    BY DeskAssumption
<1>3. CASE InFunds(funds) > 0
    BY <1>1, <1>2, <1>3 DEF ClassesIn
<1>4. CASE ~ (InFunds(funds) > 0)
    BY <1>1, <1>4 DEF ClassesIn
<1>5. QED BY <1>3, <1>4

LEMMA SlotsInAreSlots ==
    ASSUME NEW lots, NEW funds, IsHousehold(lots, funds),
           NEW slots, slots = SlotsIn(lots, funds),
           NEW weights, weights = WeightsIn(lots, funds)
    PROVE  /\ slots \in Seq(SlotRecords)
           /\ \A i \in DOMAIN slots : slots[i].weight \in 0..TotalOf(weights) /\ slots[i].weight > 0
                                      /\ slots[i].tier \in 1..3
           /\ WeightOf(slots, DOMAIN slots) = TotalOf(weights)
           /\ ClassesIn(lots, funds) # {} => slots # <<>>
<1>1. PICK S : S = ClassesIn(lots, funds)
    OBVIOUS
<1>2. /\ IsFun(weights) /\ Summable(weights) /\ DOMAIN weights = S
      /\ \A class \in S : weights[class] > 0 /\ weights[class] <= TotalOf(weights)
      /\ TotalOf(weights) \in Int
    BY <1>1, BookWeighs
<1>3. IsFiniteSet(S) /\ \A class \in S : weights[class] \in Int
    BY <1>2 DEF Summable
<1>4. PICK order : order = SetToSeq(S)
    OBVIOUS
<1>5. PICK n \in Nat : /\ n = Cardinality(S) /\ order \in [1..n -> S]
                       /\ \A x \in S : \E i \in 1..n : order[i] = x
                       /\ \A i, j \in 1..n : order[i] = order[j] => i = j
    <2>1. PICK n \in Nat : Lists(order, S, n)
        BY <1>3, <1>4, ListsEach
    <2>2. QED BY <2>1 DEF Lists
<1>6. slots = [k \in 1..n |-> SlotIn(lots, funds, order[k])]
    BY <1>1, <1>4, <1>5 DEF SlotsIn
<1>7. ASSUME NEW class \in S
      PROVE  /\ SlotIn(lots, funds, class) \in SlotRecords
             /\ SlotIn(lots, funds, class).weight = weights[class]
    <2>1. weights[class] = WeightIn(lots, funds, class)
        BY <1>1 DEF WeightsIn
    <2>2. TierIn(lots, class) \in 1..3
        BY <1>1, TierOfHeld
    <2>3. DurationOf(class) \in Durations
        BY DeskAssumption DEF DurationOf, Durations
    <2>4. class \in DOMAIN Vol
        BY <1>1, ClassesAreFew
    <2>5. QED BY <1>3, <2>1, <2>2, <2>3, <2>4 DEF SlotIn, SlotRecords
<1>8. \A k \in 1..n : slots[k] \in SlotRecords /\ slots[k].weight = weights[order[k]] /\ order[k] \in S
    BY <1>5, <1>6, <1>7
<1>9. slots \in Seq(SlotRecords) /\ DOMAIN slots = 1..n
    <2>1. slots \in [1..n -> SlotRecords]
        BY <1>6, <1>8
    <2>2. QED BY <2>1
<1>10. \A i \in DOMAIN slots : slots[i].weight \in 0..TotalOf(weights) /\ slots[i].weight > 0
                               /\ slots[i].tier \in 1..3
    <2>1. SUFFICES ASSUME NEW i \in 1..n
                   PROVE  slots[i].weight \in 0..TotalOf(weights) /\ slots[i].weight > 0
                          /\ slots[i].tier \in 1..3
        BY <1>9
    <2>2. slots[i] \in SlotRecords /\ slots[i].weight = weights[order[i]] /\ order[i] \in S
        BY <1>8
    <2>3. PICK v, all \in Int : v = weights[order[i]] /\ all = TotalOf(weights) /\ v \in Int
        BY <1>2, <1>3, <2>2
    <2>4. v > 0 /\ v <= all
        BY <1>2, <2>2, <2>3
    <2>5. QED BY <2>2, <2>3, <2>4 DEF SlotRecords
<1>11. WeightOf(slots, DOMAIN slots) = TotalOf(weights)
    <2>1. PICK v : v = WeightsOf(slots)
        OBVIOUS
    <2>2. IsFun(v) /\ DOMAIN v = 1..n /\ IsFiniteSet(DOMAIN v)
        BY <1>9, <2>1, WeightsAreNumbers DEF Summable
    <2>3. \A i \in 1..n : v[i] = weights[order[i]]
        BY <1>8, <1>9, <2>1 DEF WeightsOf
    <2>4. Renames(order, weights, v)
        BY <1>2, <1>5, <2>2, <2>3 DEF Renames
    <2>5. TotalOf(v) = TotalOf(weights)
        BY <1>2, <1>3, <2>4, TotalRenamed
    <2>6. WeightOf(slots, DOMAIN slots) = TotalOf(v)
        BY <2>1 DEF WeightOf, WeightsOf
    <2>7. QED BY <2>5, <2>6
<1>12. S # {} => slots # <<>>
    <2>1. SUFFICES ASSUME NEW x \in S PROVE slots # <<>>
        OBVIOUS
    <2>2. PICK i \in 1..n : order[i] = x
        BY <1>5
    <2>3. QED BY <1>9, <2>2
<1>13. QED BY <1>1, <1>9, <1>10, <1>11, <1>12

(* The book of a household is a portfolio of what it is worth, when it is  *)
(* worth something, and refused otherwise, for any lots and funds          *)
(* (build_portfolio_from_holdings).                                        *)
THEOREM BooksArePortfolios ==
    ASSUME NEW lots, NEW funds, IsHousehold(lots, funds), NEW portfolio, portfolio = PortfolioOf(lots, funds)
    PROVE  /\ portfolio = Rejected <=> HouseholdNotional(lots, funds) <= 0
           /\ portfolio # Rejected =>
                 /\ IsPortfolio(portfolio) /\ portfolio.slots \in Seq(SlotRecords)
                 /\ portfolio.whole = HouseholdNotional(lots, funds)
                 /\ portfolio.whole \in Nat /\ portfolio.whole > 0
                 /\ \A i \in DOMAIN portfolio.slots : portfolio.slots[i].weight > 0
<1>1. PICK S, weights, slots : /\ S = ClassesIn(lots, funds) /\ weights = WeightsIn(lots, funds)
                               /\ slots = SlotsIn(lots, funds)
    OBVIOUS
<1>2. portfolio = IF S = {} THEN Rejected ELSE [whole |-> TotalOf(weights), slots |-> slots]
    BY <1>1, PortfolioIs
<1>3. /\ TotalOf(weights) = HouseholdNotional(lots, funds)
      /\ TotalOf(weights) \in Int /\ TotalOf(weights) >= 0 /\ (TotalOf(weights) > 0 <=> S # {})
    BY <1>1, BookWeighs
<1>4. /\ slots \in Seq(SlotRecords)
      /\ \A i \in DOMAIN slots : slots[i].weight \in 0..TotalOf(weights) /\ slots[i].weight > 0
                                 /\ slots[i].tier \in 1..3
      /\ WeightOf(slots, DOMAIN slots) = TotalOf(weights)
      /\ S # {} => slots # <<>>
    BY <1>1, SlotsInAreSlots
<1>5. CASE S = {}
    BY <1>2, <1>3, <1>5
<1>6. CASE S # {}
    <2>1. portfolio = [whole |-> TotalOf(weights), slots |-> slots]
        BY <1>2, <1>6
    <2>2. portfolio # Rejected
        BY <2>1, RejectionIsNoReport
    <2>3. portfolio.whole = TotalOf(weights) /\ portfolio.slots = slots
        BY <2>1
    <2>4. IsPortfolio(portfolio)
        BY <1>4, <1>6, <2>3 DEF IsPortfolio
    <2>5. TotalOf(weights) > 0
        BY <1>3, <1>6
    <2>6. QED BY <1>3, <1>4, <2>2, <2>3, <2>4, <2>5
<1>7. QED BY <1>5, <1>6

LEMMA TenthIsPart == ASSUME NEW whole \in Nat PROVE Tenth(whole) \in Nat
BY DEF Tenth

LEMMA DemoIsOverlay ==
    ASSUME NEW whole \in Nat, NEW overlay, overlay = DemoOverlay(whole)
    PROVE  /\ IsOverlay(overlay) /\ overlay # NoOverlay /\ overlay.pack = NoPack
           /\ overlay.drop = {} /\ overlay.add = <<>>
           /\ DOMAIN overlay.tilts = {"equity", "fixed_income"}
           /\ overlay.tilts["equity"] = - Tenth(whole) /\ overlay.tilts["fixed_income"] = Tenth(whole)
<1>1. PICK tenth \in Nat : tenth = Tenth(whole)
    BY TenthIsPart
<1>2. PICK tilts : tilts = [class \in {"equity", "fixed_income"} |->
                              IF class = "equity" THEN - tenth ELSE tenth]
    OBVIOUS
<1>3. overlay = [drop |-> {}, add |-> <<>>, pack |-> NoPack, tilts |-> tilts]
    BY <1>1, <1>2 DEF DemoOverlay
<1>4. DOMAIN tilts = {"equity", "fixed_income"} /\ tilts["equity"] = - tenth
      /\ tilts["fixed_income"] = tenth
    BY <1>2
<1>5. IsFiniteSet({"equity", "fixed_income"})
    <2>1. IsFiniteSet({"equity"})
        BY FS_Singleton
    <2>2. IsFiniteSet({"equity"} \cup {"fixed_income"})
        BY <2>1, FS_AddElement
    <2>3. {"equity", "fixed_income"} = {"equity"} \cup {"fixed_income"}
        OBVIOUS
    <2>4. QED BY <2>2, <2>3
<1>6. {"equity", "fixed_income"} \in SUBSET DOMAIN Vol
    BY DeskAssumption
<1>7. <<>> \in Seq(SlotRecords)
    OBVIOUS
<1>8. IsOverlay(overlay)
    BY <1>3, <1>4, <1>5, <1>6, <1>7 DEF IsOverlay
<1>9. overlay # NoOverlay
    <2>1. tilts \in [{"equity", "fixed_income"} -> Int]
        BY <1>2
    <2>2. overlay \in [drop : {{}}, add : {<<>>}, pack : {NoPack},
                       tilts : [{"equity", "fixed_income"} -> Int]]
        BY <1>3, <2>1
    <2>3. QED BY <2>2, DeskAssumption
<1>10. QED BY <1>1, <1>3, <1>4, <1>8, <1>9

(* The weight of some slots, of none that is negative.                     *)
LEMMA WeightIsAtLeast ==
    ASSUME NEW slots \in Seq(SlotRecords), \A i \in DOMAIN slots : slots[i].weight >= 0,
           NEW some \in SUBSET DOMAIN slots
    PROVE  WeightOf(slots, some) >= 0 /\ \A i \in some : WeightOf(slots, some) >= slots[i].weight
<1>1. PICK w, D : w = WeightsOf(slots) /\ D = DOMAIN slots
    OBVIOUS
<1>2. IsFun(w) /\ Summable(w) /\ DOMAIN w = D /\ IsFiniteSet(D)
    BY <1>1, WeightsAreNumbers DEF Summable
<1>3. PICK f : Adds(f, w, D)
    BY <1>2, SumsExist
<1>4. \A i \in D : w[i] = slots[i].weight /\ w[i] \in Int /\ w[i] >= 0
    BY <1>1, <1>2 DEF WeightsOf, Summable
<1>5. some \in SUBSET D
    BY <1>1
<1>6. f[some] >= 0 /\ \A i \in some : f[some] >= w[i]
    BY <1>2, <1>3, <1>4, <1>5, AtLeastEach
<1>7. WeightOf(slots, some) = f[some]
    <2>1. WeightOf(slots, some) = TotalOf(On(w, some))
        BY <1>1, WeightIsTotal
    <2>2. QED BY <1>3, <1>5, <2>1 DEF Adds
<1>8. QED BY <1>4, <1>5, <1>6, <1>7

(* The weight of a class under the demo overlay.                           *)
LEMMA DemoWeighs ==
    ASSUME NEW slots \in Seq(SlotRecords), NEW whole \in Nat, NEW overlay, overlay = DemoOverlay(whole),
           NEW weight, weight = WeightUnder(slots, overlay), NEW tenth, tenth = Tenth(whole)
    PROVE  /\ {"equity", "fixed_income"} \in SUBSET DOMAIN weight
           /\ \A i \in DOMAIN slots : slots[i].class \in DOMAIN weight
           /\ \A class \in DOMAIN weight :
                 weight[class] = IF class = "equity" THEN WeightOf(slots, OfClass(slots, class)) - tenth
                                 ELSE IF class = "fixed_income"
                                 THEN WeightOf(slots, OfClass(slots, class)) + tenth
                                 ELSE WeightOf(slots, OfClass(slots, class))
<1>1. /\ IsOverlay(overlay) /\ overlay.drop = {} /\ overlay.add = <<>>
      /\ DOMAIN overlay.tilts = {"equity", "fixed_income"}
      /\ overlay.tilts["equity"] = - tenth /\ overlay.tilts["fixed_income"] = tenth
    BY DemoIsOverlay
<1>2. tenth \in Nat
    BY TenthIsPart
<1>3. KeptOf(slots, overlay.drop) = DOMAIN slots
    BY <1>1 DEF KeptOf
<1>4. DOMAIN weight = ClassesUnder(slots, overlay)
    BY DEF WeightUnder
<1>5. /\ {"equity", "fixed_income"} \in SUBSET DOMAIN weight
      /\ \A i \in DOMAIN slots : slots[i].class \in DOMAIN weight
    BY <1>1, <1>3, <1>4 DEF ClassesUnder
<1>6. ASSUME NEW class \in DOMAIN weight
      PROVE  weight[class] = WeightOf(slots, OfClass(slots, class)) + TiltOf(overlay, class)
    <2>1. KeptOf(slots, overlay.drop) \cap OfClass(slots, class) = OfClass(slots, class)
        BY <1>3 DEF OfClass
    <2>2. WeightOf(overlay.add, OfClass(overlay.add, class)) = 0
        <3>1. PICK add : add = overlay.add
            OBVIOUS
        <3>2. add = <<>> /\ add \in Seq(SlotRecords)
            BY <1>1, <3>1
        <3>3. DOMAIN add = {}
            BY <3>2, NoneOfNone
        <3>4. OfClass(add, class) = {}
            BY <3>3 DEF OfClass
        <3>5. PICK w : w = WeightsOf(add)
            OBVIOUS
        <3>6. Summable(w) /\ DOMAIN w = {}
            BY <3>2, <3>3, <3>5, WeightsAreNumbers
        <3>7. PICK f : Adds(f, w, DOMAIN w)
            BY <3>6, SumsExist
        <3>8. TotalOf(On(w, {})) = f[{}] /\ f[{}] = 0
            BY <3>7 DEF Adds
        <3>9. {} \in SUBSET DOMAIN add
            OBVIOUS
        <3>10. WeightOf(add, {}) = TotalOf(On(w, {}))
            BY <3>5, <3>9, WeightIsTotal
        <3>11. QED BY <3>1, <3>4, <3>8, <3>10
    <2>3. weight[class] = WeightOf(slots, OfClass(slots, class)) + 0 + TiltOf(overlay, class)
        BY <1>4, <2>1, <2>2 DEF WeightUnder
    <2>4. OfClass(slots, class) \in SUBSET DOMAIN slots
        BY DEF OfClass
    <2>5. PICK a \in Int : a = WeightOf(slots, OfClass(slots, class))
        BY <2>4, WeightIsNumber
    <2>6. QED BY <2>3, <2>5
<1>7. ASSUME NEW class \in DOMAIN weight
      PROVE  weight[class] = IF class = "equity" THEN WeightOf(slots, OfClass(slots, class)) - tenth
                             ELSE IF class = "fixed_income"
                             THEN WeightOf(slots, OfClass(slots, class)) + tenth
                             ELSE WeightOf(slots, OfClass(slots, class))
    <2>1. OfClass(slots, class) \in SUBSET DOMAIN slots
        BY DEF OfClass
    <2>2. PICK a \in Int : a = WeightOf(slots, OfClass(slots, class))
        BY <2>1, WeightIsNumber
    <2>3. TiltOf(overlay, class) = IF class = "equity" THEN - tenth
                                   ELSE IF class = "fixed_income" THEN tenth ELSE 0
        BY <1>1 DEF TiltOf
    <2>4. weight[class] = a + TiltOf(overlay, class)
        BY <1>6, <2>2
    <2>5. QED BY <1>2, <2>2, <2>3, <2>4
<1>8. QED BY <1>5, <1>7

(* The demo overlay takes no more than there is exactly when a tenth of the*)
(* whole is equity.                                                        *)
LEMMA DemoIsRejected ==
    ASSUME NEW portfolio, NEW slots \in Seq(SlotRecords), slots = portfolio.slots, slots # <<>>,
           \A i \in DOMAIN slots : slots[i].weight > 0,
           NEW whole \in Nat, NEW overlay, overlay = DemoOverlay(whole)
    PROVE  EvaluateRisk(portfolio, overlay) = Rejected
              <=> WeightOf(slots, OfClass(slots, "equity")) < Tenth(whole)
<1>1. PICK weight, tenth : weight = WeightUnder(slots, overlay) /\ tenth = Tenth(whole)
    OBVIOUS
<1>2. PICK D : D = DOMAIN weight
    OBVIOUS
<1>3. /\ {"equity", "fixed_income"} \in SUBSET D /\ \A i \in DOMAIN slots : slots[i].class \in D
      /\ \A class \in D :
            weight[class] = IF class = "equity" THEN WeightOf(slots, OfClass(slots, class)) - tenth
                            ELSE IF class = "fixed_income"
                            THEN WeightOf(slots, OfClass(slots, class)) + tenth
                            ELSE WeightOf(slots, OfClass(slots, class))
    BY <1>1, <1>2, DemoWeighs
<1>4. tenth \in Nat
    BY <1>1, TenthIsPart
<1>5. \A i \in DOMAIN slots : slots[i].weight \in Int
    BY SlotsAreMany DEF SlotRecords
<1>6. ASSUME NEW class
      PROVE  /\ WeightOf(slots, OfClass(slots, class)) \in Int
             /\ WeightOf(slots, OfClass(slots, class)) >= 0
             /\ \A i \in OfClass(slots, class) : WeightOf(slots, OfClass(slots, class)) >= slots[i].weight
    <2>1. OfClass(slots, class) \in SUBSET DOMAIN slots
        BY DEF OfClass
    <2>2. \A i \in DOMAIN slots : slots[i].weight >= 0
        BY <1>5
    <2>3. QED BY <2>1, <2>2, WeightIsNumber, WeightIsAtLeast
<1>7. PICK equity \in Int : equity = WeightOf(slots, OfClass(slots, "equity"))
    BY <1>6
<1>8. weight["equity"] = equity - tenth /\ "equity" \in D
    BY <1>3, <1>7
<1>9. EvaluateRisk(portfolio, overlay) = Rejected <=> RejectedBy(weight)
    <2>1. overlay # NoOverlay /\ overlay.pack \in DOMAIN Shocks \cup {NoPack}
        BY DemoIsOverlay
    <2>2. EvaluateRisk(portfolio, overlay) = Rejected <=> ApplyOverlay(portfolio, overlay) = Rejected
        BY <2>1, RejectionsOfRisk
    <2>3. ApplyOverlay(portfolio, overlay)
              = IF RejectedBy(weight) THEN Rejected
                ELSE [whole |-> TotalOf(weight), slots |-> SlotsUnder(slots, overlay)]
        BY <1>1, OverlayApplied
    <2>4. [whole |-> TotalOf(weight), slots |-> SlotsUnder(slots, overlay)] # Rejected
        BY RejectionIsNoReport
    <2>5. QED BY <2>2, <2>3, <2>4
<1>10. CASE equity < tenth
    <2>1. weight["equity"] < 0
        BY <1>4, <1>8, <1>10
    <2>2. RejectedBy(weight)
        BY <1>2, <1>8, <2>1 DEF RejectedBy
    <2>3. QED BY <1>1, <1>7, <1>9, <1>10, <2>2
<1>11. CASE ~ (equity < tenth)
    <2>1. ASSUME NEW class \in D PROVE weight[class] \in Int /\ weight[class] >= 0
        <3>1. PICK a \in Int : a = WeightOf(slots, OfClass(slots, class)) /\ a >= 0
            BY <1>6
        <3>2. weight[class] = IF class = "equity" THEN a - tenth
                              ELSE IF class = "fixed_income" THEN a + tenth ELSE a
            BY <1>3, <3>1
        <3>3. class = "equity" => a = equity
            BY <1>7, <3>1
        <3>4. QED BY <1>4, <1>11, <3>1, <3>2, <3>3
    <2>2. \E class \in D : weight[class] > 0
        <3>1. CASE tenth > 0
            <4>1. PICK a \in Int : a = WeightOf(slots, OfClass(slots, "fixed_income")) /\ a >= 0
                BY <1>6
            <4>2. weight["fixed_income"] = a + tenth /\ "fixed_income" \in D
                BY <1>3, <4>1
            <4>3. weight["fixed_income"] > 0
                BY <1>4, <3>1, <4>1, <4>2
            <4>4. QED BY <4>2, <4>3
        <3>2. CASE ~ (tenth > 0)
            <4>1. PICK i \in DOMAIN slots : TRUE
                <5>1. DOMAIN slots # {}
                    <6>1. PICK n \in Nat : slots \in [1..n -> SlotRecords] /\ DOMAIN slots = 1..n /\ n = Len(slots)
                        BY LenProperties
                    <6>2. n # 0
                        BY <6>1, EmptySeq
                    <6>3. 1 \in 1..n
                        BY <6>2
                    <6>4. QED BY <6>1, <6>3
                <5>2. QED BY <5>1
            <4>2. PICK class \in D : class = slots[i].class
                BY <1>3
            <4>3. i \in OfClass(slots, class)
                BY <4>2 DEF OfClass
            <4>4. PICK a \in Int : a = WeightOf(slots, OfClass(slots, class)) /\ a >= slots[i].weight
                BY <1>6, <4>3
            <4>5. a > 0
                BY <1>5, <4>4
            <4>6. weight[class] = a
                BY <1>3, <1>4, <3>2, <4>4
            <4>7. QED BY <4>5, <4>6
        <3>3. QED BY <3>1, <3>2
    <2>3. TotalOf(weight) \in Int /\ TotalOf(weight) > 0
        <3>1. IsOverlay(overlay)
            BY DemoIsOverlay
        <3>2. IsFun(weight) /\ Summable(weight) /\ IsFiniteSet(D)
            BY <1>1, <1>2, <3>1, WeightsUnderAreNumbers DEF Summable
        <3>3. PICK f : Adds(f, weight, D)
            BY <1>2, <3>2, SumsExist
        <3>4. TotalOf(weight) = f[D] /\ TotalOf(weight) \in Int
            BY <1>2, <3>2, <3>3, TotalIsAdded
        <3>5. PICK class \in D : weight[class] > 0
            BY <2>2
        <3>6. D \in SUBSET D
            OBVIOUS
        <3>7. f[D] >= weight[class]
            BY <2>1, <3>2, <3>3, <3>6, AtLeastEach
        <3>8. weight[class] \in Int
            BY <2>1
        <3>9. QED BY <3>4, <3>5, <3>7, <3>8
    <2>4. ~ RejectedBy(weight)
        BY <1>2, <2>1, <2>3 DEF RejectedBy
    <2>5. QED BY <1>1, <1>7, <1>9, <1>11, <2>4
<1>12. QED BY <1>10, <1>11

(* A panel shows a report exactly of a household that is Reportable, and   *)
(* what the health check says of the alerts foretells what a panel that    *)
(* fails does, for any lots and funds (load_risk_dashboard).               *)
THEOREM PanelsAreForetold ==
    ASSUME NEW lots, NEW funds, IsHousehold(lots, funds), NEW demo \in BOOLEAN,
           NEW settings, IsSettings(settings), NEW up, NEW outcome,
           outcome = LoadRiskDashboard(lots, funds, demo, settings, up)
    PROVE  /\ outcome.reply = "report" <=> Reportable(lots, funds, demo)
           /\ outcome.reply # "report" =>
                 Foretold(CheckRiskNotifyConfig(settings), outcome, settings, up)
<1>1. PICK portfolio : portfolio = PortfolioOf(lots, funds)
    OBVIOUS
<1>2. PICK slots, whole : slots = portfolio.slots /\ whole = portfolio.whole
    OBVIOUS
<1>3. /\ portfolio = Rejected <=> HouseholdNotional(lots, funds) <= 0
      /\ portfolio # Rejected =>
            /\ IsPortfolio(portfolio) /\ slots \in Seq(SlotRecords)
            /\ whole = HouseholdNotional(lots, funds) /\ whole \in Nat /\ whole > 0
            /\ \A i \in DOMAIN slots : slots[i].weight > 0
    BY <1>1, <1>2, BooksArePortfolios
<1>4. PICK failed : failed = RecordRiskFailure("error", settings, up)
    OBVIOUS
<1>5. failed.reply # "report" /\ Foretold(CheckRiskNotifyConfig(settings), failed, settings, up)
    <2>1. "error" # Lost /\ "report" # Lost
        BY DeskAssumption
    <2>2. failed.reply \in {"error", Lost}
        BY <1>4, FailuresAnswer
    <2>3. QED BY <1>4, <2>1, <2>2, FailuresAreForetold
<1>6. PICK tenth, equity : tenth = Tenth(whole) /\ equity = WeightOf(slots, OfClass(slots, "equity"))
    OBVIOUS
<1>7. portfolio # Rejected => equity \in Int /\ tenth \in Int
    <2>1. OfClass(slots, "equity") \in SUBSET DOMAIN slots
        BY DEF OfClass
    <2>2. QED BY <1>3, <1>6, <2>1, TenthIsPart, WeightIsNumber
<1>8. Reportable(lots, funds, demo) <=> /\ HouseholdNotional(lots, funds) > 0
                                        /\ IsPortfolio(portfolio)
                                        /\ whole = HouseholdNotional(lots, funds)
                                        /\ demo => equity >= tenth
    BY <1>1, <1>2, <1>6, Zenon DEF Reportable, OfClass
<1>9. HouseholdNotional(lots, funds) \in Int
    BY BookWeighs
<1>10. CASE portfolio = Rejected
    <2>1. outcome = failed
        BY <1>1, <1>4, <1>10 DEF LoadRiskDashboard
    <2>2. ~ Reportable(lots, funds, demo)
        BY <1>3, <1>8, <1>9, <1>10
    <2>3. QED BY <1>5, <2>1, <2>2
<1>11. CASE portfolio # Rejected /\ demo = FALSE
    <2>1. EvaluateRisk(portfolio, NoOverlay) # Rejected
        BY RejectionsOfRisk
    <2>2. outcome = [reply |-> "report", sent |-> {}]
        BY <1>1, <1>11, <2>1, Zenon DEF LoadRiskDashboard
    <2>3. Reportable(lots, funds, demo)
        BY <1>3, <1>8, <1>11
    <2>4. QED BY <2>2, <2>3
<1>12. CASE portfolio # Rejected /\ demo = TRUE
    <2>1. PICK overlay : overlay = DemoOverlay(whole)
        OBVIOUS
    <2>2. EvaluateRisk(portfolio, overlay) = Rejected <=> equity < tenth
        <3>1. slots # <<>>
            BY <1>2, <1>3, <1>12 DEF IsPortfolio
        <3>2. QED BY <1>2, <1>3, <1>6, <1>12, <2>1, <3>1, DemoIsRejected
    <2>3. Reportable(lots, funds, demo) <=> ~ (equity < tenth)
        <3>1. PICK e \in Int : e = equity
            BY <1>7, <1>12
        <3>2. PICK t \in Int : t = tenth
            BY <1>7, <1>12
        <3>3. e >= t <=> ~ (e < t)
            OBVIOUS
        <3>4. equity >= tenth <=> ~ (equity < tenth)
            BY <3>1, <3>2, <3>3
        <3>5. Reportable(lots, funds, demo) <=> equity >= tenth
            BY <1>3, <1>8, <1>12
        <3>6. QED BY <3>4, <3>5
    <2>4. CASE equity < tenth
        <3>1. outcome = failed
            BY <1>1, <1>2, <1>4, <1>12, <2>1, <2>2, <2>4, Zenon DEF LoadRiskDashboard
        <3>2. QED BY <1>5, <2>3, <2>4, <3>1
    <2>5. CASE ~ (equity < tenth)
        <3>1. outcome = [reply |-> "report", sent |-> {}]
            BY <1>1, <1>2, <1>4, <1>12, <2>1, <2>2, <2>5, Zenon DEF LoadRiskDashboard
        <3>2. QED BY <2>3, <2>5, <3>1
    <2>6. QED BY <2>4, <2>5
<1>13. QED BY <1>10, <1>11, <1>12

-----------------------------------------------------------------------------
(* Reports: months, and the report an earlier one is compared with.        *)

LEMMA QuotientIs ==
    ASSUME NEW x \in Int, NEW d \in Nat, d > 0, NEW q \in Int, q * d <= x, x < (q + 1) * d
    PROVE  x \div d = q
<1>1. PICK p \in Int : p = x \div d /\ p * d <= x /\ x < (p + 1) * d
    BY Quotient
<1>2. PICK a \in Int, b \in Int, c \in Int, e \in Int :
          a = p * d /\ b = (p + 1) * d /\ c = q * d /\ e = (q + 1) * d
    OBVIOUS
<1>3. a < e /\ c < b
    BY <1>1, <1>2
<1>4. p < q + 1 /\ q < p + 1
    BY <1>2, <1>3, ProductsOrder
<1>5. QED BY <1>1, <1>4

LEMMA MonthsAreCounted ==
    ASSUME NEW day \in Nat
    PROVE  YearOf(day) * YearMonths + MonthOf(day) = day \div MonthDays
<1>1. PICK d \in Nat, m \in Nat : d = MonthDays /\ m = YearMonths /\ d > 0 /\ m > 0
    BY CalendarAssumption
<1>2. PICK q \in Int : q = day \div d /\ q * d <= day /\ day < (q + 1) * d
    BY <1>1, Quotient
<1>3. PICK y \in Int : y = q \div m /\ y * m <= q /\ q < (y + 1) * m
    BY <1>1, <1>2, Quotient
<1>4. PICK r \in Int : r = q % m /\ q = y * m + r
    BY <1>1, <1>2, <1>3
<1>5. d * m \in Nat /\ d * m > 0
    <2>1. 0 * m < d * m
        BY <1>1, ProductGrowsStrictly
    <2>2. QED BY <2>1
<1>6. day \div (d * m) = y
    <2>1. y * m * d <= q * d
        <3>1. y * m \in Int
            OBVIOUS
        <3>2. QED BY <1>1, <1>3, <3>1, ProductGrows
    <2>2. (q + 1) * d <= (y + 1) * m * d
        <3>1. (y + 1) * m \in Int /\ q + 1 <= (y + 1) * m
            BY <1>3
        <3>2. QED BY <1>1, <3>1, ProductGrows
    <2>3. y * (d * m) = y * m * d /\ (y + 1) * (d * m) = (y + 1) * m * d
        OBVIOUS
    <2>4. y * (d * m) <= day /\ day < (y + 1) * (d * m)
        <3>1. PICK a \in Int, b \in Int, c \in Int, e \in Int :
                  /\ a = y * m * d /\ b = q * d /\ c = (q + 1) * d /\ e = (y + 1) * m * d
            OBVIOUS
        <3>2. a <= b /\ c <= e /\ b <= day /\ day < c
            BY <1>2, <2>1, <2>2, <3>1
        <3>3. a <= day /\ day < e
            BY <3>2
        <3>4. QED BY <2>3, <3>1, <3>3
    <2>5. QED BY <1>5, <2>4, QuotientIs
<1>7. YearOf(day) = y /\ MonthOf(day) = r
    BY <1>1, <1>2, <1>4, <1>6 DEF YearOf, MonthOf
<1>8. QED BY <1>1, <1>2, <1>4, <1>7

LEMMA MonthsAreBegun ==
    ASSUME NEW a \in Nat, NEW b \in Nat, a < b
    PROVE  MonthsBetween(a, b) = Cardinality(MonthsBegun(a, b))
<1>1. PICK d \in Nat : d = MonthDays /\ d > 0
    BY CalendarAssumption
<1>2. PICK p \in Int : p = a \div d /\ p * d <= a /\ a < (p + 1) * d
    BY <1>1, Quotient
<1>3. PICK q \in Int : q = b \div d /\ q * d <= b /\ b < (q + 1) * d
    BY <1>1, Quotient
<1>4. MonthsBetween(a, b) = q - p
    <2>1. PICK y \in Int, m \in Int, z \in Int, n \in Int, k \in Nat :
              /\ y = YearOf(a) /\ m = MonthOf(a) /\ z = YearOf(b) /\ n = MonthOf(b)
              /\ k = YearMonths
        <3>1. YearMonths \in Nat /\ YearMonths > 0
            BY CalendarAssumption
        <3>2. PICK k \in Nat, e \in Nat : k = YearMonths /\ k > 0 /\ e = MonthDays * YearMonths /\ e > 0
            <4>1. PICK k \in Nat : k = YearMonths /\ k > 0
                BY <3>1
            <4>2. 0 * k < d * k /\ d * k \in Nat
                BY <1>1, <4>1, ProductGrowsStrictly
            <4>3. QED BY <1>1, <4>1, <4>2
        <3>3. a \div e \in Int /\ b \div e \in Int /\ p % k \in Int /\ q % k \in Int
            BY <3>2
        <3>4. QED BY <1>1, <1>2, <1>3, <3>2, <3>3 DEF YearOf, MonthOf
    <2>2. y * k + m = p /\ z * k + n = q
        BY <1>1, <1>2, <1>3, <2>1, MonthsAreCounted
    <2>3. MonthsBetween(a, b) = (z - y) * k + n - m
        BY <2>1 DEF MonthsBetween
    <2>4. (z - y) * k = z * k - y * k
        OBVIOUS
    <2>5. QED BY <2>2, <2>3, <2>4
<1>5. p <= q
    <2>1. p * d < (q + 1) * d
        BY <1>2, <1>3
    <2>2. p < q + 1
        BY <1>1, <2>1, ProductsOrder
    <2>3. QED BY <2>2
<1> DEFINE S == (p + 1)..q
           T == MonthsBegun(a, b)
           f == [k \in S |-> k * d]
<1>6. f \in Bijection(S, T)
    <2>1. ASSUME NEW k \in S PROVE f[k] \in T
        <3>1. PICK x \in Int, u \in Int, v \in Int : x = k * d /\ u = (p + 1) * d /\ v = q * d
            OBVIOUS
        <3>2. u <= x /\ x <= v
            BY <1>1, <3>1, ProductGrows
        <3>3. a + 1 <= x /\ x <= b
            BY <1>2, <1>3, <3>1, <3>2
        <3>4. x % d = 0
            <4>1. k * d <= x /\ x < (k + 1) * d
                BY <1>1, <3>1
            <4>2. x \div d = k
                BY <1>1, <4>1, QuotientIs
            <4>3. PICK r \in Int : r = x % d /\ x = (x \div d) * d + r
                BY <1>1
            <4>4. QED BY <3>1, <4>2, <4>3
        <3>5. x \in (a + 1)..b
            BY <3>3
        <3>6. QED BY <1>1, <3>1, <3>4, <3>5 DEF MonthsBegun
    <2>2. ASSUME NEW x \in T PROVE \E k \in S : f[k] = x
        <3>1. x \in (a + 1)..b /\ x % d = 0
            BY <1>1 DEF MonthsBegun
        <3>2. PICK k \in Int : k = x \div d /\ x = k * d
            BY <1>1, <3>1
        <3>3. PICK u \in Int, v \in Int : u = p * d /\ v = (q + 1) * d
            OBVIOUS
        <3>4. u < k * d /\ k * d < v
            BY <1>2, <1>3, <3>1, <3>2, <3>3
        <3>5. p < k /\ k < q + 1
            BY <1>1, <3>3, <3>4, ProductsOrder
        <3>6. QED BY <3>2, <3>5
    <2>3. ASSUME NEW j \in S, NEW k \in S, f[j] = f[k] PROVE j = k
        <3>1. PICK x \in Int, y \in Int : x = j * d /\ y = k * d /\ x = y
            BY <2>3
        <3>2. ~ (j < k) /\ ~ (k < j)
            BY <1>1, <3>1, ProductsOrder
        <3>3. QED BY <3>2
    <2> HIDE DEF T
    <2>4. f \in [S -> T]
        BY <2>1
    <2> HIDE DEF f
    <2>5. \A j, k \in S : f[j] = f[k] => j = k
        BY <2>3
    <2> HIDE DEF S
    <2>6. f \in Injection(S, T)
        BY <2>4, <2>5 DEF Injection, IsInjective
    <2>7. f \in Surjection(S, T)
        BY <2>2, <2>4 DEF Surjection
    <2>8. QED BY <2>6, <2>7 DEF Bijection
<1> HIDE DEF f, T
<1>7. IsFiniteSet(S) /\ Cardinality(S) = q - p
    <2>1. IsFiniteSet(S) /\ Cardinality(S) = IF p + 1 > q THEN 0 ELSE q - (p + 1) + 1
        BY FS_Interval
    <2>2. QED BY <1>5, <2>1
<1>8. Cardinality(T) = Cardinality(S)
    <2>1. ExistsBijection(S, T)
        BY <1>6 DEF ExistsBijection
    <2>2. QED BY <1>7, <2>1, FS_Bijection
<1>9. QED BY <1>4, <1>7, <1>8 DEF T

(* The bundles on disk, each generated at its own time.                    *)
IsArchive(bundles) ==
    /\ IsFiniteSet(DOMAIN bundles)
    /\ \A i \in DOMAIN bundles : bundles[i].asOf \in Nat /\ bundles[i].generated \in Int
    /\ \A i, j \in DOMAIN bundles : bundles[i].generated = bundles[j].generated => i = j

LEMMA ImagesOfNumbers ==
    ASSUME NEW S, IsFiniteSet(S), S # {}, NEW f, \A i \in S : f[i] \in Int
    PROVE  \E i \in S : f[i] = Max({f[j] : j \in S}) /\ \A j \in S : f[i] >= f[j]
<1>1. PICK D : D = {f[j] : j \in S}
    OBVIOUS
<1>2. IsFiniteSet(D) /\ D \in SUBSET Int /\ D # {}
    BY <1>1, ImageIsFinite
<1>3. Max(D) \in D /\ \A y \in D : Max(D) >= y
    BY <1>2, MaxIsGreatest
<1>4. QED BY <1>1, <1>3

(* The prior bundle is the last of the last day before.                    *)
IsPrior(bundles, before, i) ==
    /\ i \in before
    /\ bundles[i].asOf = Max({bundles[j].asOf : j \in before})
    /\ LET ofDay == {j \in before : bundles[j].asOf = Max({bundles[k].asOf : k \in before})}
       IN  {j \in ofDay : \A k \in ofDay : bundles[k].generated <= bundles[j].generated} = {i}

ReadBefore(bundles, asOf) ==
    {i \in DOMAIN bundles : bundles[i].readable /\ bundles[i].asOf < asOf}

LEMMA PriorIsLast ==
    ASSUME NEW bundles, IsArchive(bundles), NEW asOf, ReadBefore(bundles, asOf) # {}
    PROVE  \E i : /\ FindPriorBundle(bundles, asOf) = bundles[i]
                  /\ IsPrior(bundles, ReadBefore(bundles, asOf), i)
<1>0. PICK before : before = ReadBefore(bundles, asOf) /\ before \in SUBSET DOMAIN bundles /\ before # {}
    BY DEF ReadBefore
<1> DEFINE Follows(i, j) == \/ bundles[j].asOf < bundles[i].asOf
                            \/ /\ bundles[j].asOf = bundles[i].asOf
                               /\ bundles[j].generated <= bundles[i].generated
           chosen == CHOOSE i \in before : \A j \in before : Follows(i, j)
<1>1. IsFiniteSet(before)
    BY <1>0, FS_Subset DEF IsArchive
<1>2. \A i \in before : bundles[i].asOf \in Int /\ bundles[i].generated \in Int
    BY <1>0 DEF IsArchive
<1>3. PICK day \in Int : /\ day = Max({bundles[j].asOf : j \in before})
                         /\ \E i \in before : bundles[i].asOf = day
                         /\ \A j \in before : bundles[j].asOf <= day
    <2> DEFINE f == [i \in before |-> bundles[i].asOf]
    <2>1. \A i \in before : f[i] \in Int
        BY <1>2
    <2>2. {f[j] : j \in before} = {bundles[j].asOf : j \in before}
        OBVIOUS
    <2>3. \A i \in before : f[i] = bundles[i].asOf
        OBVIOUS
    <2> HIDE DEF f
    <2>4. PICK i \in before : f[i] = Max({f[j] : j \in before}) /\ \A j \in before : f[i] >= f[j]
        BY <1>0, <1>1, <2>1, ImagesOfNumbers
    <2>5. QED BY <1>2, <2>2, <2>3, <2>4
<1>4. PICK ofDay : ofDay = {j \in before : bundles[j].asOf = day}
    OBVIOUS
<1>5. PICK last \in ofDay : \A j \in ofDay : bundles[last].generated >= bundles[j].generated
    <2> DEFINE f == [i \in ofDay |-> bundles[i].generated]
    <2>1. \A i \in ofDay : f[i] \in Int /\ f[i] = bundles[i].generated
        BY <1>2, <1>4
    <2>2. IsFiniteSet(ofDay) /\ ofDay # {}
        BY <1>1, <1>3, <1>4, FS_Subset
    <2> HIDE DEF f
    <2>3. PICK i \in ofDay : \A j \in ofDay : f[i] >= f[j]
        BY <2>1, <2>2, ImagesOfNumbers
    <2>4. QED BY <2>1, <2>3
<1>6. \A j \in before : Follows(last, j)
    <2>1. ASSUME NEW j \in before PROVE Follows(last, j)
        <3>1. bundles[j].asOf <= day /\ bundles[j].asOf \in Int /\ bundles[last].asOf = day
            BY <1>2, <1>3, <1>4
        <3>2. CASE bundles[j].asOf < day
            BY <3>1, <3>2
        <3>3. CASE bundles[j].asOf = day
            <4>1. j \in ofDay /\ last \in before
                BY <1>4, <3>3
            <4>2. bundles[last].generated >= bundles[j].generated
                BY <1>5, <4>1
            <4>3. bundles[last].generated \in Int /\ bundles[j].generated \in Int
                BY <1>2, <4>1
            <4>4. QED BY <3>1, <3>3, <4>2, <4>3
        <3>4. QED BY <3>1, <3>2, <3>3
    <2>2. QED BY <2>1
<1>7. chosen \in before /\ \A j \in before : Follows(chosen, j)
    <2>1. last \in before
        BY <1>4
    <2> HIDE DEF Follows
    <2>2. QED BY <1>6, <2>1
<1>8. FindPriorBundle(bundles, asOf) = bundles[chosen]
    <2> DEFINE early == ReadBefore(bundles, asOf)
    <2>1. FindPriorBundle(bundles, asOf) =
              IF early = {} THEN NoComparison
              ELSE bundles[CHOOSE i \in early : \A j \in early : Follows(i, j)]
        BY Zenon DEF FindPriorBundle, ReadBefore
    <2> HIDE DEF early
    <2>2. before = early
        BY <1>0 DEF early
    <2>3. QED BY <1>0, <2>1, <2>2
<1>9. PICK i \in before : i = chosen /\ \A j \in before : Follows(i, j)
    BY <1>7
<1>10. bundles[i].asOf = day
    <2>1. Follows(i, last) /\ bundles[i].asOf <= day /\ bundles[last].asOf = day
        BY <1>3, <1>4, <1>9
    <2>2. bundles[i].asOf \in Int
        BY <1>2
    <2>3. QED BY <2>1, <2>2
<1>11. ASSUME NEW j \in ofDay PROVE bundles[j].generated <= bundles[i].generated
    <2>1. Follows(i, j) /\ bundles[j].asOf = day
        BY <1>4, <1>9
    <2>2. QED BY <1>10, <2>1
<1>12. {j \in ofDay : \A k \in ofDay : bundles[k].generated <= bundles[j].generated} = {i}
    <2>1. i \in ofDay
        BY <1>4, <1>10
    <2>2. ASSUME NEW j \in ofDay, \A k \in ofDay : bundles[k].generated <= bundles[j].generated
          PROVE  j = i
        <3>1. bundles[i].generated <= bundles[j].generated
              /\ bundles[j].generated <= bundles[i].generated
            BY <1>11, <2>1, <2>2
        <3>2. bundles[i].generated \in Int /\ bundles[j].generated \in Int
            BY <1>2, <1>4
        <3>3. bundles[i].generated = bundles[j].generated
            BY <3>1, <3>2
        <3>4. i \in DOMAIN bundles /\ j \in DOMAIN bundles
            BY <1>0, <1>4
        <3>5. QED BY <3>3, <3>4 DEF IsArchive
    <2>3. QED BY <1>11, <2>1, <2>2
<1>13. IsPrior(bundles, before, i)
    BY <1>3, <1>4, <1>9, <1>10, <1>12, Zenon DEF IsPrior
<1>14. QED BY <1>0, <1>8, <1>9, <1>13

(* No bundle is taken for the lack of one, and its weights are numbers.    *)
IsCompared(bundles) ==
    \A i \in DOMAIN bundles :
        /\ bundles[i] # NoComparison
        /\ \A s \in DOMAIN bundles[i].weights : bundles[i].weights[s] \in Int

Compared(bundles, asOf, figures, weights) ==
    BuildComparison(FindPriorBundle(bundles, asOf), asOf, figures, weights)

LEMMA FirstIsAlone ==
    ASSUME NEW bundles, NEW asOf, ReadBefore(bundles, asOf) = {}, NEW figures, NEW weights
    PROVE  Compared(bundles, asOf, figures, weights) = NoComparison
<1>1. FindPriorBundle(bundles, asOf) = NoComparison
    BY DEF FindPriorBundle, ReadBefore
<1>2. QED BY <1>1 DEF Compared, BuildComparison

IsComparison(comparison, prior, asOf, weights) ==
    /\ comparison # NoComparison
    /\ comparison.adjacent <=> Cardinality(MonthsBegun(prior.asOf, asOf)) = 1
    /\ comparison["drift"] = Deltas(weights, prior.weights)

LEMMA LaterIsCompared ==
    ASSUME NEW bundles, IsArchive(bundles), IsCompared(bundles), NEW asOf \in Nat,
           ReadBefore(bundles, asOf) # {}, NEW figures, NEW weights, IsNoFunction(NoComparison)
    PROVE  \E i : /\ IsPrior(bundles, ReadBefore(bundles, asOf), i)
                  /\ IsComparison(Compared(bundles, asOf, figures, weights), bundles[i], asOf, weights)
<1>1. PICK i : /\ FindPriorBundle(bundles, asOf) = bundles[i]
               /\ IsPrior(bundles, ReadBefore(bundles, asOf), i)
    BY PriorIsLast
<1>2. i \in DOMAIN bundles /\ bundles[i].asOf < asOf
    BY <1>1 DEF IsPrior, ReadBefore
<1>3. bundles[i] # NoComparison /\ bundles[i].asOf \in Nat
    BY <1>2 DEF IsCompared, IsArchive
<1> DEFINE adjacent == MonthsBetween(bundles[i].asOf, asOf) = 1
           performance == Deltas(figures, bundles[i].figures)
           drift == Deltas(weights, bundles[i].weights)
           comparison == [asOf |-> bundles[i].asOf, adjacent |-> adjacent,
                          performance |-> performance, drift |-> drift]
<1>4. Compared(bundles, asOf, figures, weights) = comparison
    BY <1>1, <1>3 DEF Compared, BuildComparison
<1>5. adjacent <=> Cardinality(MonthsBegun(bundles[i].asOf, asOf)) = 1
    BY <1>2, <1>3, MonthsAreBegun
<1> HIDE DEF adjacent, performance, drift
<1>6. NoComparison # comparison
    <2>1. comparison \in [{"asOf", "adjacent", "performance", "drift"} ->
                             {bundles[i].asOf, adjacent, performance, drift}]
        OBVIOUS
    <2> HIDE DEF comparison
    <2>2. QED BY <2>1, NoFunctionIs
<1>7. (comparison.adjacent <=> adjacent) /\ comparison["drift"] = drift
    <2>1. comparison.adjacent = adjacent
        BY Zenon
    <2>2. comparison["drift"] = drift
        OBVIOUS
    <2>3. QED BY <2>1, <2>2
<1> HIDE DEF comparison
<1>8. IsComparison(comparison, bundles[i], asOf, weights)
    BY <1>5, <1>6, <1>7 DEF IsComparison, drift
<1>9. QED BY <1>1, <1>4, <1>8

(* The cells of a sleeve: its earlier weight and the change, or nothing.   *)
AreCells(cells, weights, prior, s) ==
    IF s \in DOMAIN prior THEN cells = <<prior[s], weights[s] - prior[s]>>
    ELSE cells = <<NotGiven, NotGiven>>

LEMMA CellsOfPrior ==
    ASSUME NEW bundle, NEW prior, NEW asOf, NEW weights, bundle.weights = weights,
           IsComparison(bundle.comparison, prior, asOf, weights),
           \A s \in DOMAIN weights : weights[s] \in Int,
           \A s \in DOMAIN prior.weights : prior.weights[s] \in Int,
           NEW s \in DOMAIN weights
    PROVE  AreCells(PriorCells(bundle, "drift", DOMAIN bundle.weights)[s], weights, prior.weights, s)
<1> DEFINE delta == bundle.comparison["drift"][s]
           cells == PriorCells(bundle, "drift", DOMAIN bundle.weights)[s]
           old == IF s \in DOMAIN prior.weights THEN prior.weights[s] ELSE NotGiven
<1>1. delta = Delta(weights[s], old)
    BY DEF IsComparison, Deltas
<1>2. cells = IF delta.prior = NotGiven THEN <<NotGiven, NotGiven>>
              ELSE <<delta.prior, delta.change>>
    BY DEF PriorCells, IsComparison
<1>3. NotGiven \notin Int
    BY CalendarAssumption
<1>4. CASE s \in DOMAIN prior.weights
    <2>1. PICK a \in Int, b \in Int : a = weights[s] /\ b = prior.weights[s]
        BY <1>4
    <2>2. a # NotGiven /\ b # NotGiven
        BY <1>3, <2>1
    <2>3. delta.prior = b /\ delta.change = a - b
        BY <1>1, <1>4, <2>1, <2>2 DEF Delta
    <2> HIDE DEF delta, cells
    <2>4. cells = <<b, a - b>>
        BY <1>2, <2>2, <2>3
    <2>5. QED BY <1>4, <2>1, <2>4 DEF cells, AreCells
<1>5. CASE s \notin DOMAIN prior.weights
    <2>1. delta.prior = NotGiven
        BY <1>1, <1>5 DEF Delta
    <2> HIDE DEF delta, cells
    <2>2. cells = <<NotGiven, NotGiven>>
        BY <1>2, <2>1
    <2>3. QED BY <1>5, <2>2 DEF cells, AreCells
<1>6. QED BY <1>4, <1>5

(* A bundle says what it is compared with.                                 *)
Confesses(bundle) ==
    /\ "first report" \in bundle.limitations <=> bundle.comparison = NoComparison
    /\ "gap" \in bundle.limitations <=> bundle.comparison # NoComparison /\ ~ bundle.comparison.adjacent

(* The comparison is candid, of any bundles on disk: with the last report  *)
(* before, whose months it counts and whose weights it shows               *)
(* (find_prior_bundle, _months_between, _build_comparison).                *)
THEOREM ComparisonsAreCandid ==
    ASSUME NEW household, IsArchive(household.earlier), IsCompared(household.earlier),
           NEW asOf \in Nat, IsNoFunction(NoComparison), NEW report, NEW figures,
           Confesses(report.bundle),
           report.internal.b.rows = PriorCells(report.bundle, "drift", DOMAIN report.bundle.weights),
           report.bundle.comparison =
               Compared(household.earlier, asOf, figures, report.bundle.weights),
           \A s \in DOMAIN report.bundle.weights : report.bundle.weights[s] \in Int
    PROVE  ComparisonIsCandid(report, household, asOf)
<1> DEFINE bundles == household.earlier
           bundle == report.bundle
           before == ReadableBefore(household, asOf)
           lastDay == Max({bundles[i].asOf : i \in before})
           ofDay == {i \in before : bundles[i].asOf = lastDay}
           lastOfDay == {i \in ofDay : \A j \in ofDay : bundles[j].generated <= bundles[i].generated}
           rows == report.internal.b.rows
<1>1. before = ReadBefore(bundles, asOf)
    BY DEF ReadableBefore, ReadBefore
<1>2. "first report" \in bundle.limitations <=> before = {}
    <2>1. CASE before = {}
        <3>1. bundle.comparison = NoComparison
            BY <1>1, <2>1, FirstIsAlone
        <3>2. QED BY <2>1, <3>1 DEF Confesses
    <2>2. CASE before # {}
        <3>1. PICK i : IsComparison(Compared(bundles, asOf, figures, bundle.weights), bundles[i],
                                    asOf, bundle.weights)
            BY <1>1, <2>2, LaterIsCompared
        <3>2. bundle.comparison # NoComparison
            BY <3>1 DEF IsComparison
        <3>3. QED BY <2>2, <3>2 DEF Confesses
    <2>3. QED BY <2>1, <2>2
<1>3. ASSUME before # {}
      PROVE  /\ "gap" \in bundle.limitations <=> Cardinality(MonthsBegun(lastDay, asOf)) # 1
             /\ \A s \in DOMAIN rows : rows[s] = <<NotGiven, NotGiven>>
                    <=> \E i \in lastOfDay : s \notin DOMAIN bundles[i].weights
             /\ \A s \in DOMAIN rows :
                    rows[s][1] # NotGiven => rows[s][1] + rows[s][2] = bundle.weights[s]
    <2>1. PICK i : /\ IsPrior(bundles, ReadBefore(bundles, asOf), i)
                   /\ IsComparison(Compared(bundles, asOf, figures, bundle.weights), bundles[i],
                                   asOf, bundle.weights)
        BY <1>1, <1>3, LaterIsCompared
    <2>2. /\ i \in before /\ bundles[i].asOf = lastDay /\ lastOfDay = {i}
        BY <1>1, <2>1, Zenon DEF IsPrior
    <2>3. IsComparison(bundle.comparison, bundles[i], asOf, bundle.weights)
        BY <2>1
    <2>4. "gap" \in bundle.limitations <=> Cardinality(MonthsBegun(lastDay, asOf)) # 1
        <3> HIDE DEF lastDay
        <3>1. QED BY <2>2, <2>3 DEF IsComparison, Confesses
    <2>5. i \in DOMAIN bundles /\ \A s \in DOMAIN bundles[i].weights : bundles[i].weights[s] \in Int
        BY <1>1, <2>2 DEF ReadBefore, IsCompared
    <2>6. DOMAIN rows = DOMAIN bundle.weights
        BY DEF PriorCells
    <2>7. ASSUME NEW s \in DOMAIN bundle.weights
          PROVE  AreCells(rows[s], bundle.weights, bundles[i].weights, s)
        BY <2>3, <2>5, CellsOfPrior
    <2>8. NotGiven \notin Int
        BY CalendarAssumption
    <2> HIDE DEF rows, lastDay, lastOfDay, bundles, bundle
    <2>9. ASSUME NEW s \in DOMAIN rows
          PROVE  /\ rows[s] = <<NotGiven, NotGiven>> <=> s \notin DOMAIN bundles[i].weights
                 /\ rows[s][1] # NotGiven => rows[s][1] + rows[s][2] = bundle.weights[s]
        <3>1. CASE s \in DOMAIN bundles[i].weights
            <4>1. PICK a \in Int, b \in Int : a = bundle.weights[s] /\ b = bundles[i].weights[s]
                BY <2>5, <2>6, <3>1 DEF bundle
            <4>2. rows[s] = <<b, a - b>>
                BY <2>6, <2>7, <3>1, <4>1 DEF AreCells
            <4>3. rows[s][1] = b /\ rows[s][2] = a - b
                BY <4>2
            <4>4. QED BY <2>8, <3>1, <4>1, <4>2, <4>3
        <3>2. CASE s \notin DOMAIN bundles[i].weights
            <4>1. rows[s] = <<NotGiven, NotGiven>>
                BY <2>6, <2>7, <3>2 DEF AreCells
            <4>2. rows[s][1] = NotGiven
                BY <4>1
            <4>3. QED BY <3>2, <4>1, <4>2
        <3>3. QED BY <3>1, <3>2
    <2>10. QED BY <2>2, <2>4, <2>9
<1>4. QED BY <1>2, <1>3, Zenon DEF ComparisonIsCandid

-----------------------------------------------------------------------------
(* What the packs say of taxes, of the policy and of pending requests.     *)

LEMMA TotalsAdd ==
    ASSUME NEW D, IsFiniteSet(D), NEW u, NEW v, NEW w, IsFun(u), IsFun(v), IsFun(w),
           DOMAIN u = D, DOMAIN v = D, DOMAIN w = D,
           \A x \in D : u[x] \in Int /\ v[x] \in Int /\ w[x] = u[x] + v[x]
    PROVE  TotalOf(w) = TotalOf(u) + TotalOf(v)
<1>1. Summable(u) /\ Summable(v) /\ Summable(w)
    BY DEF Summable
<1>2. PICK f : Adds(f, u, D)
    BY <1>1, SumsExist
<1>3. PICK g : Adds(g, v, D)
    BY <1>1, SumsExist
<1>4. PICK h : Adds(h, w, D)
    BY <1>1, SumsExist
<1>5. \A s \in SUBSET D : f[s] \in Int /\ g[s] \in Int /\ h[s] \in Int
    BY <1>2, <1>3, <1>4 DEF Adds
<1> DEFINE Holding == {s \in SUBSET D : h[s] = f[s] + g[s]}
<1>6. {} \in Holding
    BY <1>2, <1>3, <1>4 DEF Adds
<1>7. ASSUME NEW s \in SUBSET D, NEW x \in D, s \in Holding, x \notin s
      PROVE  s \cup {x} \in Holding
    <2> HIDE DEF Holding
    <2>0. s \in SUBSET D /\ x \in D /\ x \notin s /\ (s \cup {x}) \ {x} = s
        BY <1>7
    <2>1. PICK t \in SUBSET D : t = s \cup {x} /\ x \in t /\ t \ {x} = s
        <3>1. s \cup {x} \in SUBSET D /\ x \in s \cup {x}
            BY <2>0
        <3>2. QED BY <2>0, <3>1
    <2>2. f[t] = u[x] + f[t \ {x}] /\ g[t] = v[x] + g[t \ {x}] /\ h[t] = w[x] + h[t \ {x}]
        BY <1>2, <1>3, <1>4, <2>1 DEF Adds
    <2>3. h[s] = f[s] + g[s]
        BY <1>7 DEF Holding
    <2>4. PICK a \in Int, b \in Int, c \in Int, d \in Int :
              u[x] = a /\ v[x] = b /\ f[s] = c /\ g[s] = d
        BY <1>5, <2>0
    <2>5. w[x] = a + b
        BY <2>0, <2>4
    <2>6. h[s] = c + d
        BY <2>3, <2>4
    <2>7. f[t] = a + c /\ g[t] = b + d /\ h[t] = (a + b) + (c + d)
        BY <2>1, <2>2, <2>4, <2>5, <2>6
    <2>8. h[t] = f[t] + g[t]
        BY <2>7
    <2>9. QED BY <2>1, <2>8 DEF Holding
<1>8. D \in Holding
    <2> HIDE DEF Holding
    <2>1. \A s \in SUBSET D, x \in D : s \in Holding /\ x \notin s => s \cup {x} \in Holding
        BY <1>7
    <2>2. \A s \in SUBSET D : s \in Holding
        BY <1>6, <2>1, EverySubset
    <2>3. QED BY <2>2
<1>9. TotalOf(u) = f[D] /\ TotalOf(v) = g[D] /\ TotalOf(w) = h[D]
    BY <1>2, <1>3, <1>4, TotalIsAdded
<1>10. QED BY <1>8, <1>9

(* A book with a gain in every place, or a loss.                           *)
IsGained(lots) ==
    /\ \E n \in Nat : DOMAIN lots = 1..n
    /\ \A i \in DOMAIN lots : lots[i].gain \in Int /\ lots[i].gain # Unpriced

LEMMA SurtaxIsOnGains ==
    ASSUME NEW lots, IsGained(lots), NEW asOf
    PROVE  ReportedTax(lots, asOf, TRUE) - ReportedTax(lots, asOf, FALSE) = 0
               <=> \A i \in DOMAIN lots : lots[i].gain <= 0
<1> DEFINE D == DOMAIN lots
           w == [i \in D |-> PositionGainTax(lots[i], asOf, TRUE)]
           u == [i \in D |-> PositionGainTax(lots[i], asOf, FALSE)]
           v == [i \in D |-> IF lots[i].gain > 0 THEN lots[i].gain * Niit ELSE 0]
<1>1. IsFiniteSet(D)
    <2>1. PICK n \in Nat : D = 1..n
        BY DEF IsGained
    <2> HIDE DEF D
    <2>2. QED BY <2>1, FS_Interval
<1>2. PICK k \in Nat : k = Niit /\ k > 0
    BY RatesAssumption
<1>3. ASSUME NEW i \in D
      PROVE  /\ u[i] \in Int /\ v[i] \in Int /\ w[i] = u[i] + v[i] /\ v[i] >= 0
             /\ v[i] = 0 <=> lots[i].gain <= 0
    <2>1. PICK g \in Int, r \in Int : g = lots[i].gain /\ g # Unpriced /\ r = ReportRate(lots[i].acquired, asOf)
        <3>1. ReportRate(lots[i].acquired, asOf) \in Int
            BY RatesAssumption DEF ReportRate
        <3>2. QED BY <3>1 DEF IsGained
    <2>2. PICK p \in Int, q \in Int : p = g * r /\ q = g * k
        OBVIOUS
    <2>3. u[i] = p
        BY <2>1, <2>2 DEF PositionGainTax, TaxOnRealizedGain
    <2>4. v[i] = IF g > 0 THEN q ELSE 0
        BY <1>2, <2>1, <2>2
    <2>5. w[i] = p + IF g > 0 THEN q ELSE 0
        BY <1>2, <2>1, <2>2 DEF PositionGainTax, TaxOnRealizedGain
    <2>6. g > 0 => q > 0
        <3>1. 0 < g => 0 * k < g * k
            BY <1>2, ProductGrowsStrictly
        <3>2. QED BY <2>2, <3>1
    <2> HIDE DEF u, v, w
    <2>7. QED BY <2>1, <2>3, <2>4, <2>5, <2>6
<1>4. /\ ReportedTax(lots, asOf, TRUE) = TotalOf(w) /\ ReportedTax(lots, asOf, FALSE) = TotalOf(u)
      /\ IsFun(u) /\ IsFun(v) /\ IsFun(w) /\ DOMAIN u = D /\ DOMAIN v = D /\ DOMAIN w = D
    BY DEF ReportedTax, IsFun
<1> HIDE DEF u, v, w
<1>5. TotalOf(w) = TotalOf(u) + TotalOf(v)
    <2>1. \A i \in D : u[i] \in Int /\ v[i] \in Int /\ w[i] = u[i] + v[i]
        BY <1>3
    <2>2. QED BY <1>1, <1>4, <2>1, TotalsAdd
<1>6. Summable(u) /\ Summable(v)
    BY <1>1, <1>3, <1>4 DEF Summable
<1>7. PICK f : Adds(f, v, D)
    BY <1>4, <1>6, SumsExist
<1>8. TotalOf(u) \in Int /\ TotalOf(v) = f[D] /\ f[D] \in Int
    <2>1. TotalOf(v) = f[D] /\ TotalOf(v) \in Int
        BY <1>4, <1>7, TotalIsAdded
    <2>2. QED BY <1>4, <1>6, <2>1, TotalIsNumber
<1>9. f[D] = 0 <=> \A i \in D : v[i] = 0
    <2>1. D \in SUBSET D /\ \A i \in D : v[i] \in Int /\ v[i] >= 0
        BY <1>3
    <2>2. ASSUME \A i \in D : v[i] = 0 PROVE f[D] = 0
        BY <1>1, <1>7, <2>1, <2>2, NothingAdds
    <2>3. \A i \in D : f[D] >= v[i]
        BY <1>1, <1>7, <2>1, AtLeastEach
    <2>4. ASSUME f[D] = 0, NEW i \in D PROVE v[i] = 0
        BY <2>1, <2>3, <2>4
    <2>5. QED BY <2>2, <2>4
<1>10. ReportedTax(lots, asOf, TRUE) - ReportedTax(lots, asOf, FALSE) = f[D]
    <2>1. PICK a \in Int, b \in Int : a = TotalOf(u) /\ b = f[D] /\ TotalOf(v) = b
        BY <1>8
    <2>2. (a + b) - a = b
        OBVIOUS
    <2>3. TotalOf(w) = a + b
        BY <1>5, <2>1
    <2>4. QED BY <1>4, <2>1, <2>2, <2>3
<1>11. QED BY <1>3, <1>9, <1>10

(* Only the second scenario can differ from what is without a surtax.      *)
LEMMA ScenariosTellGains ==
    ASSUME NEW lots, IsGained(lots), NEW asOf
    PROVE  (\A i \in DOMAIN CollectTaxScenarios(lots, asOf) :
                CollectTaxScenarios(lots, asOf)[i].delta = 0)
               <=> \A lot \in ToSet(lots) : lot.gain <= 0
<1> DEFINE scenarios == CollectTaxScenarios(lots, asOf)
           Tax(surtax) == ReportedTax(lots, asOf, surtax)
<1>1. DOMAIN scenarios = 1..2 /\ \A i \in 1..2 : scenarios[i].delta = Tax(i = 2) - Tax(FALSE)
    BY DEF CollectTaxScenarios
<1>1a. scenarios[1].delta = Tax(1 = 2) - Tax(FALSE) /\ scenarios[2].delta = Tax(2 = 2) - Tax(FALSE)
    <2>1. 1 \in 1..2 /\ 2 \in 1..2
        OBVIOUS
    <2> HIDE DEF scenarios, Tax
    <2>2. QED BY <1>1, <2>1, Zenon
<1>2. Tax(1 = 2) = Tax(FALSE) /\ Tax(2 = 2) = Tax(TRUE)
    <2>1. (1 = 2) = FALSE /\ (2 = 2) = TRUE
        OBVIOUS
    <2>2. QED BY <2>1, Zenon
<1>3. Tax(FALSE) \in Int
    <2> DEFINE w == [i \in DOMAIN lots |-> PositionGainTax(lots[i], asOf, FALSE)]
    <2>1. \A i \in DOMAIN lots : PositionGainTax(lots[i], asOf, FALSE) \in Int
        <3>1. SUFFICES ASSUME NEW i \in DOMAIN lots
                       PROVE  PositionGainTax(lots[i], asOf, FALSE) \in Int
            OBVIOUS
        <3>2. PICK g \in Int, r \in Int :
                  g = lots[i].gain /\ g # Unpriced /\ r = ReportRate(lots[i].acquired, asOf)
            <4>1. ReportRate(lots[i].acquired, asOf) \in Int
                BY RatesAssumption DEF ReportRate
            <4>2. QED BY <4>1 DEF IsGained
        <3>3. PICK p \in Int : p = g * r
            OBVIOUS
        <3>4. PositionGainTax(lots[i], asOf, FALSE) = p
            BY <3>2, <3>3 DEF PositionGainTax, TaxOnRealizedGain
        <3>5. QED BY <3>4
    <2>2. IsFun(w) /\ IsFiniteSet(DOMAIN lots) /\ DOMAIN w = DOMAIN lots
        BY FS_Interval DEF IsFun, IsGained
    <2>3. Summable(w)
        BY <2>1, <2>2 DEF Summable
    <2> HIDE DEF w
    <2>4. TotalOf(w) \in Int
        BY <2>2, <2>3, TotalIsNumber
    <2>5. QED BY <2>4 DEF ReportedTax, w
<1>4. Tax(TRUE) - Tax(FALSE) = 0 <=> \A i \in DOMAIN lots : lots[i].gain <= 0
    BY SurtaxIsOnGains
<1> HIDE DEF Tax, scenarios
<1>5. scenarios[1].delta = 0
    <2>1. PICK a \in Int : a = Tax(FALSE)
        BY <1>3
    <2>2. scenarios[1].delta = Tax(FALSE) - Tax(FALSE)
        BY <1>1a, <1>2, Zenon
    <2>3. a - a = 0
        OBVIOUS
    <2>4. QED BY <2>1, <2>2, <2>3, Zenon
<1>6. scenarios[2].delta = Tax(TRUE) - Tax(FALSE)
    BY <1>1a, <1>2, Zenon
<1>7. (\A i \in DOMAIN scenarios : scenarios[i].delta = 0) <=> \A i \in DOMAIN lots : lots[i].gain <= 0
    <2>1. DOMAIN scenarios = {1, 2}
        <3>1. 1..2 = {1, 2}
            OBVIOUS
        <3>2. QED BY <1>1, <3>1
    <2>2. (\A i \in DOMAIN scenarios : scenarios[i].delta = 0)
              <=> scenarios[1].delta = 0 /\ scenarios[2].delta = 0
        BY <2>1, Zenon
    <2>3. QED BY <1>4, <1>5, <1>6, <2>2, Zenon
<1>8. (\A lot \in ToSet(lots) : lot.gain <= 0) <=> \A i \in DOMAIN lots : lots[i].gain <= 0
    BY DEF ToSet
<1>9. QED BY <1>7, <1>8 DEF scenarios

LEMMA PendingAreCounted ==
    ASSUME NEW requests, IsFiniteSet(DOMAIN requests)
    PROVE  PendingApprovalCount(requests) > 0
               <=> \E i \in DOMAIN requests : requests[i] = "pending" /\ i <= Newest
<1>1. PICK S : S = {i \in DOMAIN requests : i <= Newest /\ requests[i] = "pending"}
    OBVIOUS
<1>2. IsFiniteSet(S)
    BY <1>1, FS_Subset
<1>3. Cardinality(S) \in Nat /\ (Cardinality(S) = 0 <=> S = {})
    BY <1>2, FS_CardinalityType, FS_EmptySet
<1>4. PendingApprovalCount(requests) = Cardinality(S)
    BY <1>1 DEF PendingApprovalCount
<1>5. QED BY <1>1, <1>3, <1>4

LEMMA AlertsAreFew ==
    ASSUME NEW lots, IsMarked(lots), NEW policy, IsFiniteSet(DOMAIN policy.targets)
    PROVE  /\ IsFiniteSet(PolicyCheck(lots, policy).alerts)
           /\ IsFiniteSet(PolicyCheck(lots, policy).concentration)
<1> DEFINE kinds == {"min", "max", "drift", "liquidity"}
           subjects == DOMAIN policy.targets \cup {"book"}
           weights == Weights(lots, policy.targets)
           drift == DriftAlerts(weights, policy.targets)
           low == policy.floor # NoLimit /\ Illiquid(lots, policy.floor)
<1>1. IsFiniteSet(kinds \X subjects)
    <2>1. IsFiniteSet(subjects)
        BY FS_Singleton, FS_AddElement
    <2>2. IsFiniteSet({"min"})
        BY FS_Singleton
    <2>3. IsFiniteSet({"min"} \cup {"max"})
        BY <2>2, FS_AddElement
    <2>4. IsFiniteSet(({"min"} \cup {"max"}) \cup {"drift"})
        BY <2>3, FS_AddElement
    <2>5. IsFiniteSet((({"min"} \cup {"max"}) \cup {"drift"}) \cup {"liquidity"})
        BY <2>4, FS_AddElement
    <2>6. kinds = (({"min"} \cup {"max"}) \cup {"drift"}) \cup {"liquidity"}
        OBVIOUS
    <2> HIDE DEF subjects, kinds
    <2>7. QED BY <2>1, <2>5, <2>6, FS_Product
<1>2. drift \subseteq kinds \X subjects
    <2> HIDE DEF weights
    <2>1. QED BY DEF DriftAlerts
<1>3. PolicyCheck(lots, policy).alerts = drift \cup IF low THEN {<<"liquidity", "book">>} ELSE {}
    BY Zenon DEF PolicyCheck
<1>4. <<"liquidity", "book">> \in kinds \X subjects
    OBVIOUS
<1> HIDE DEF kinds, subjects, drift, low
<1>5. PolicyCheck(lots, policy).alerts \in SUBSET (kinds \X subjects)
    BY <1>2, <1>3, <1>4
<1>6. IsFiniteSet(PolicyCheck(lots, policy).alerts)
    BY <1>1, <1>5, FS_Subset
<1>7. IsFiniteSet(PolicyCheck(lots, policy).concentration)
    <2>1. PICK S : S = {l \in MarkedLots(lots) : WorthOf(MarkedLots(lots)) > 0
                            /\ l.value * One > policy.limit * WorthOf(MarkedLots(lots))}
        OBVIOUS
    <2>2. IsFiniteSet(S)
        <3>1. IsFiniteSet(MarkedLots(lots)) /\ S \in SUBSET MarkedLots(lots)
            BY <2>1, MarkedAreFew
        <3>2. QED BY <3>1, FS_Subset
    <2> DEFINE f == [l \in S |-> l.id]
    <2>3. PolicyCheck(lots, policy).concentration = {f[l] : l \in S}
        BY <2>1 DEF PolicyCheck, ConcentrationAlerts
    <2> HIDE DEF f
    <2>4. QED BY <2>2, <2>3, ImageIsFinite
<1>8. QED BY <1>6, <1>7

(* The lots with a value, each in some place of the list.                  *)
LEMMA ValuedAreValued ==
    ASSUME NEW lots, \E n \in Nat : DOMAIN lots = 1..n
    PROVE  ToSet(Valued(lots)) =
               {lots[i] : i \in {j \in DOMAIN lots : lots[j].value # Unpriced /\ lots[j].value > 0}}
<1> DEFINE places == {j \in DOMAIN lots : lots[j].value # Unpriced /\ lots[j].value > 0}
           before == Stably(places, LAMBDA i, j : FALSE)
           order == InOrder(places, before)
<1>1. IsFiniteSet(places) /\ places \in SUBSET Int
    <2>1. IsFiniteSet(DOMAIN lots) /\ DOMAIN lots \in SUBSET Int /\ places \in SUBSET DOMAIN lots
        BY FS_Interval
    <2> HIDE DEF places
    <2>2. QED BY <2>1, FS_Subset
<1>2. StrictOrder(places, before)
    <2>1. before = {p \in places \X places : <<p[1], p[2]>> \in {} \/ (<<p[2], p[1]>> \notin {} /\ p[1] < p[2])}
        BY DEF Stably
    <2>2. WeakOrder(places, {})
        BY DEF WeakOrder
    <2> HIDE DEF places, before
    <2>3. QED BY <1>1, <2>1, <2>2, StablyOrders
<1>3. IsOrder(order, places, before)
    <2> HIDE DEF before, places
    <2>1. QED BY <1>1, <1>2, OrderIsPut
<1>4. Valued(lots) = [k \in DOMAIN order |-> lots[order[k]]]
    BY Zenon DEF Valued, Ranked
<1> HIDE DEF order, before, places
<1>5. /\ \A k \in DOMAIN order : order[k] \in places
      /\ \A p \in places : \E k \in DOMAIN order : order[k] = p
    BY <1>3 DEF IsOrder
<1>6. ToSet(Valued(lots)) = {lots[i] : i \in places}
    BY <1>4, <1>5 DEF ToSet
<1>7. QED BY <1>6 DEF places

-----------------------------------------------------------------------------
(* When a report is collected, and what its bundle is.                     *)

(* A statement: marked lots, bought on a day at a cost, of which the ones  *)
(* without a mark have no gain.                                            *)
IsStatement(lots) ==
    /\ IsMarked(lots)
    /\ \A i \in DOMAIN lots :
          /\ lots[i].acquired \in Int /\ lots[i].cost \in Int
          /\ lots[i].gain \in Int \cup {Unpriced}
          /\ lots[i].gain = Unpriced <=> lots[i].value = Unpriced

AreFunds(funds) == IsFun(funds) /\ IsFiniteSet(DOMAIN funds) /\ \A i \in DOMAIN funds : funds[i] \in Nat

LEMMA PlacesAreCounted ==
    ASSUME NEW lots, \E n \in Nat : DOMAIN lots = 1..n
    PROVE  /\ IsFiniteSet(DOMAIN lots) /\ DOMAIN lots \in SUBSET (Nat \ {0})
           /\ lots = <<>> => DOMAIN lots = {}
<1>1. PICK n \in Nat : DOMAIN lots = 1..n
    OBVIOUS
<1>2. IsFiniteSet(1..n)
    BY FS_Interval
<1>3. QED BY <1>1, <1>2, NoneOfNone

(* Whatever a book is, an attribution of it is raised on a lot that cannot *)
(* be attributed, and only then.                                           *)
LEMMA AttributionIsRaised ==
    ASSUME NEW lots, NEW asOf, IsNoFunction(NotAttributed)
    PROVE  Attribution(lots, asOf) = NotAttributed
               <=> \E lot \in ToSet(lots) : Unattributable(lot, asOf)
<1> DEFINE order == InOrder(DOMAIN lots, Outranking(lots, asOf))
           rows == [k \in DOMAIN order |-> Row(lots, order[k], asOf)]
<1>1. Attribution(lots, asOf) =
          IF \E lot \in ToSet(lots) : Unattributable(lot, asOf) THEN NotAttributed ELSE rows
    BY Zenon DEF Attribution
<1>2. rows # NotAttributed
    <2>1. rows \in [DOMAIN order -> {Row(lots, order[k], asOf) : k \in DOMAIN order}]
        BY Zenon
    <2> HIDE DEF rows, order
    <2>2. QED BY <2>1, NoFunctionIs
<1>3. QED BY <1>1, <1>2

LEMMA CollectedAttribution ==
    ASSUME NEW lots, IsStatement(lots), NEW asOf \in Int, IsNoFunction(NotAttributed),
           \A i \in DOMAIN lots : lots[i].acquired <= asOf /\ lots[i].value # Unpriced
    PROVE  CollectAttribution(lots, asOf) = NotAttributed
               <=> \E i \in DOMAIN lots : lots[i].value > 0 /\ ~ lots[i].cost > 0
<1> DEFINE places == {j \in DOMAIN lots : lots[j].value # Unpriced /\ lots[j].value > 0}
           valued == Valued(lots)
<1>1. ToSet(valued) = {lots[i] : i \in places}
    BY ValuedAreValued DEF IsStatement, IsMarked
<1>2. <<>> # NotAttributed
    <2>1. <<>> \in [{} -> {}]
        BY NoneOfNone
    <2>2. QED BY <2>1, NoFunctionIs
<1>3. ASSUME valued = <<>> PROVE places = {}
    <2>1. DOMAIN <<>> = {}
        BY NoneOfNone
    <2>2. ToSet(valued) = {}
        BY <1>3, <2>1 DEF ToSet
    <2> HIDE DEF places, valued
    <2>3. QED BY <1>1, <2>2
<1>4. ASSUME NEW i \in places PROVE Unattributable(lots[i], asOf) <=> ~ lots[i].cost > 0
    <2>1. lots[i].acquired \in Int /\ lots[i].cost \in Int /\ lots[i].gain # Unpriced
        BY DEF IsStatement
    <2>2. i \in DOMAIN lots
        OBVIOUS
    <2>3. lots[i].cost <= 0 <=> ~ lots[i].cost > 0
        BY <2>1
    <2>4. ~ lots[i].acquired > asOf
        BY <2>1, <2>2
    <2>5. QED BY <2>1, <2>2, <2>3, <2>4 DEF Unattributable
<1>5. CollectAttribution(lots, asOf) = IF valued = <<>> THEN <<>> ELSE Attribution(valued, asOf)
    BY DEF CollectAttribution
<1>6. Attribution(valued, asOf) = NotAttributed
          <=> \E lot \in ToSet(valued) : Unattributable(lot, asOf)
    BY AttributionIsRaised
<1>7. (\E lot \in ToSet(valued) : Unattributable(lot, asOf)) <=> \E i \in places : ~ lots[i].cost > 0
    <2> HIDE DEF places, valued
    <2>1. QED BY <1>1, <1>4
<1>8. (\E i \in places : ~ lots[i].cost > 0)
          <=> \E i \in DOMAIN lots : lots[i].value > 0 /\ ~ lots[i].cost > 0
    OBVIOUS
<1> HIDE DEF places, valued
<1>9. QED BY <1>2, <1>3, <1>5, <1>6, <1>7, <1>8

(* The risk of a book is told when any lot or fund of it is worth          *)
(* something.                                                              *)
LEMMA CollectedRisk ==
    ASSUME NEW lots, IsStatement(lots), NEW funds, AreFunds(funds),
           \A i \in DOMAIN lots : lots[i].value # Unpriced
    PROVE  CollectRiskHeadline(lots, funds) = Rejected
               <=> ~ ((\E i \in DOMAIN lots : lots[i].value > 0) \/ \E i \in DOMAIN funds : funds[i] > 0)
<1> DEFINE held == [i \in DOMAIN lots |-> [ticker |-> lots[i].security,
                        value |-> IF lots[i].value = Unpriced THEN NoMark ELSE lots[i].value]]
           portfolio == PortfolioOf(held, funds)
<1>1. /\ DOMAIN held = DOMAIN lots
      /\ \A i \in DOMAIN lots : held[i].value = lots[i].value
    OBVIOUS
<1>2. \A i \in DOMAIN lots : lots[i].value \in Nat /\ lots[i].value # NoMark
    BY DeskAssumption DEF IsStatement, IsMarked
<1>3. CollectRiskHeadline(lots, funds) =
          IF portfolio = Rejected THEN Rejected ELSE EvaluateRisk(portfolio, NoOverlay)
    BY DEF CollectRiskHeadline
<1> HIDE DEF held
<1>4. IsHousehold(held, funds)
    <2>1. IsFiniteSet(DOMAIN lots) /\ DOMAIN lots \in SUBSET (Nat \ {0})
        BY PlacesAreCounted DEF IsStatement, IsMarked
    <2>2. QED BY <1>1, <1>2, <2>1 DEF IsHousehold, AreFunds
<1>5. portfolio = Rejected <=> ClassesIn(held, funds) = {}
    <2>1. PICK weights : weights = WeightsIn(held, funds)
        OBVIOUS
    <2>2. /\ TotalOf(weights) = HouseholdNotional(held, funds) /\ TotalOf(weights) \in Int
          /\ TotalOf(weights) >= 0 /\ (TotalOf(weights) > 0 <=> ClassesIn(held, funds) # {})
        BY <1>4, <2>1, BookWeighs
    <2>3. portfolio = Rejected <=> HouseholdNotional(held, funds) <= 0
        BY <1>4, BooksArePortfolios
    <2>4. QED BY <2>2, <2>3
<1>6. EvaluateRisk(portfolio, NoOverlay) # Rejected
    BY RejectionsOfRisk
<1>7. InFunds(funds) > 0 <=> \E i \in DOMAIN funds : funds[i] > 0
    <2>1. InFunds(funds) = TotalOf(funds) /\ InFunds(funds) \in Int
        BY FundsAreCounted DEF AreFunds
    <2>2. Summable(funds)
        BY DEF AreFunds, Summable
    <2>3. PICK f : Adds(f, funds, DOMAIN funds)
        BY <2>2, SumsExist DEF AreFunds
    <2>4. TotalOf(funds) = f[DOMAIN funds]
        BY <2>3, TotalIsAdded DEF AreFunds
    <2>5. \A i \in DOMAIN funds : funds[i] \in Int /\ funds[i] >= 0
        BY DEF AreFunds
    <2>6. f[DOMAIN funds] >= 0 /\ \A i \in DOMAIN funds : f[DOMAIN funds] >= funds[i]
        BY <2>3, <2>5, AtLeastEach DEF AreFunds
    <2>7. ASSUME \A i \in DOMAIN funds : funds[i] = 0 PROVE f[DOMAIN funds] = 0
        BY <2>3, <2>7, NothingAdds DEF AreFunds
    <2>8. QED BY <2>1, <2>4, <2>5, <2>6, <2>7
<1>8. ClassesIn(held, funds) = {} <=>
          (\A i \in DOMAIN lots : ~ lots[i].value > 0) /\ ~ InFunds(funds) > 0
    <2>1. Worth(held) = {i \in DOMAIN lots : lots[i].value > 0}
        BY <1>1, <1>2 DEF Worth
    <2>2. (IF InFunds(funds) > 0 THEN {"alternatives"} ELSE {}) = {} <=> ~ InFunds(funds) > 0
        OBVIOUS
    <2>3. ClassesIn(held, funds) = {} <=> Worth(held) = {} /\ ~ InFunds(funds) > 0
        BY <2>2 DEF ClassesIn
    <2>4. QED BY <2>1, <2>3
<1> HIDE DEF portfolio
<1>9. QED BY <1>3, <1>5, <1>6, <1>7, <1>8

(* What is collected once nothing stands against it.                       *)
BundleOf(household, asOf, now) ==
    [readable |-> TRUE, asOf |-> asOf, generated |-> now,
     figures |-> PerformanceFigures(household.lots, household.realized),
     weights |-> Weights(household.lots, household.policy.targets),
     tax |-> CollectTaxScenarios(household.lots, asOf),
     risk |-> CollectRiskHeadline(household.lots, household.funds),
     alerts |-> PolicyCheck(household.lots, household.policy).alerts,
     concentration |-> PolicyCheck(household.lots, household.policy).concentration,
     attribution |-> CollectAttribution(household.lots, asOf),
     comparison |-> Compared(household.earlier, asOf,
                             PerformanceFigures(household.lots, household.realized),
                             Weights(household.lots, household.policy.targets)),
     pending |-> PendingApprovalCount(household.requests),
     breaks |-> household.breaks, staged |-> household.staged,
     limitations |-> Limitations(household, CollectTaxScenarios(household.lots, asOf),
                                 PendingApprovalCount(household.requests),
                                 CollectAttribution(household.lots, asOf) # <<>>,
                                 Compared(household.earlier, asOf,
                                          PerformanceFigures(household.lots, household.realized),
                                          Weights(household.lots, household.policy.targets))),
     external |-> TRUE, pdf |-> FALSE]

Unmeasured(lots, asOf) == \E i \in DOMAIN lots : asOf < lots[i].acquired \/ lots[i].value = Unpriced

LEMMA BundleIs ==
    ASSUME NEW household, NEW asOf, NEW now
    PROVE  CollectReportBundle(household, asOf, now) =
               IF \/ household.lots = <<>> \/ household.policy = NoPolicy
                  \/ Unmeasured(household.lots, asOf)
               THEN Uncollected
               ELSE IF \/ CollectAttribution(household.lots, asOf) = NotAttributed
                       \/ CollectRiskHeadline(household.lots, household.funds) = Rejected
               THEN Uncollected ELSE BundleOf(household, asOf, now)
BY Zenon DEF CollectReportBundle, Unmeasured, BundleOf, Compared

LEMMA BundleIsCollected ==
    ASSUME NEW household, NEW asOf, NEW now, IsNoFunction(Uncollected)
    PROVE  BundleOf(household, asOf, now) # Uncollected
<1> DEFINE bundle == BundleOf(household, asOf, now)
<1>1. bundle = [f \in DOMAIN bundle |-> bundle[f]]
    BY DEF BundleOf
<1> HIDE DEF bundle
<1>2. PICK D, R : D = DOMAIN bundle /\ R = {bundle[f] : f \in DOMAIN bundle}
    OBVIOUS
<1>3. bundle \in [D -> R]
    BY <1>1, <1>2
<1>4. bundle # Uncollected
    BY <1>3, NoFunctionIs
<1>5. QED BY <1>4 DEF bundle

(* A household of statements, with a policy that can be checked exactly,   *)
(* its funds, its requests, and the bundles on disk, none of which was     *)
(* generated at the time of the new one.                                   *)
IsReported(household, now) ==
    /\ IsStatement(household.lots) /\ AreFunds(household.funds)
    /\ IsFiniteSet(DOMAIN household.requests)
    /\ household.policy # NoPolicy =>
          /\ IsFiniteSet(DOMAIN household.policy.targets)
          /\ IsFine(household.policy.targets, WorthOf(MarkedLots(household.lots)))
    /\ IsArchive(household.earlier) /\ IsCompared(household.earlier)
    /\ \E bundles : household.earlier \in Seq(bundles)
    /\ \A i \in DOMAIN household.earlier : household.earlier[i].generated # now

(* A report is collected exactly when the book can be reported.            *)
LEMMA CollectedWhenCollectable ==
    ASSUME NEW household, NEW now, IsReported(household, now), NEW asOf \in Int,
           IsNoFunction(NotAttributed), IsNoFunction(Uncollected)
    PROVE  /\ CollectReportBundle(household, asOf, now) = Uncollected <=> ~ Collectable(household, asOf)
           /\ Collectable(household, asOf) =>
                 CollectReportBundle(household, asOf, now) = BundleOf(household, asOf, now)
<1>1. PICK lots, funds : lots = household.lots /\ funds = household.funds
    OBVIOUS
<1>2. IsStatement(lots) /\ AreFunds(funds)
    BY <1>1 DEF IsReported
<1>3. PICK bundle, attribution, risk :
          /\ bundle = BundleOf(household, asOf, now)
          /\ attribution = CollectAttribution(lots, asOf)
          /\ risk = CollectRiskHeadline(lots, funds)
    OBVIOUS
<1>4. bundle # Uncollected
    BY <1>3, BundleIsCollected
<1>5. CollectReportBundle(household, asOf, now) =
          IF lots = <<>> \/ household.policy = NoPolicy \/ Unmeasured(lots, asOf) THEN Uncollected
          ELSE IF attribution = NotAttributed \/ risk = Rejected THEN Uncollected ELSE bundle
    BY <1>1, <1>3, BundleIs
<1>6. Collectable(household, asOf) <=>
          /\ lots # <<>> /\ household.policy # NoPolicy
          /\ \A i \in DOMAIN lots :
                lots[i].acquired <= asOf /\ lots[i].value # Unpriced /\ (lots[i].value > 0 => lots[i].cost > 0)
          /\ (\E i \in DOMAIN lots : lots[i].value > 0) \/ \E i \in DOMAIN funds : funds[i] > 0
    BY <1>1, Zenon DEF Collectable
<1>7. Unmeasured(lots, asOf) <=>
          ~ \A i \in DOMAIN lots : lots[i].acquired <= asOf /\ lots[i].value # Unpriced
    BY <1>2 DEF IsStatement, Unmeasured
<1>8. ASSUME ~ Unmeasured(lots, asOf)
      PROVE  /\ attribution = NotAttributed <=> \E i \in DOMAIN lots : lots[i].value > 0 /\ ~ lots[i].cost > 0
             /\ risk = Rejected <=> ~ ((\E i \in DOMAIN lots : lots[i].value > 0)
                                        \/ \E i \in DOMAIN funds : funds[i] > 0)
    BY <1>2, <1>3, <1>7, <1>8, CollectedAttribution, CollectedRisk
<1>9. QED BY <1>3, <1>4, <1>5, <1>6, <1>7, <1>8

(* What the limitations of a bundle confess.                               *)
LEMMA LimitationsTell ==
    ASSUME NEW household, NEW scenarios, NEW pending, NEW attributed, NEW comparison,
           NEW said, said = Limitations(household, scenarios, pending, attributed, comparison)
    PROVE  /\ "zero tax" \in said <=> \A i \in DOMAIN scenarios : scenarios[i].delta = 0
           /\ "breaks" \in said <=> household.breaks
           /\ "pending" \in said <=> pending > 0
           /\ "not attributed" \in said <=> ~ attributed
           /\ "first report" \in said <=> comparison = NoComparison
           /\ "gap" \in said <=> comparison # NoComparison /\ ~ comparison.adjacent
BY Zenon DEF Limitations

-----------------------------------------------------------------------------
(* A report that is written, and the panel that shows it.                  *)

LEMMA WeightsAreWhole ==
    ASSUME NEW lots, IsMarked(lots), One \in Int, NEW targets, NEW s \in DOMAIN targets
    PROVE  Weights(lots, targets)[s] \in Int
<1>1. PICK f : Weighs(f, MarkedLots(lots))
    BY MarkedAreFew, WorthsAreSums
<1>2. MarkedLots(lots) \in SUBSET MarkedLots(lots) /\ InSleeve(lots, s) \in SUBSET MarkedLots(lots)
    BY DEF InSleeve
<1>3. WorthOf(MarkedLots(lots)) \in Nat /\ WorthOf(InSleeve(lots, s)) \in Nat
    BY <1>1, <1>2 DEF Weighs
<1>4. CASE WorthOf(MarkedLots(lots)) > 0
    <2>1. PICK a \in Nat, d \in Nat, k \in Int :
              a = WorthOf(InSleeve(lots, s)) /\ d = WorthOf(MarkedLots(lots)) /\ d > 0 /\ k = One
        BY <1>3, <1>4
    <2>2. a * k \in Int /\ (a * k) \div d \in Int
        BY <2>1
    <2>3. Weights(lots, targets)[s] = (a * k) \div d
        BY <1>1, <1>4, <2>1, WeightIsShare
    <2>4. QED BY <2>2, <2>3
<1>5. CASE ~ WorthOf(MarkedLots(lots)) > 0
    <2>1. TotalOf(WorthBySleeve(lots)) = WorthOf(MarkedLots(lots))
        BY <1>1, SleevesAddUp
    <2>2. TotalOf(WorthBySleeve(lots)) <= 0
        BY <1>3, <1>5, <2>1
    <2>3. Weights(lots, targets)[s] = 0
        BY <2>2 DEF Weights
    <2>4. QED BY <2>3
<1>6. QED BY <1>4, <1>5

(* The new bundle is the latest when none on disk is as late.              *)
LEMMA LatestIsNew ==
    ASSUME NEW bundles, \E B : bundles \in Seq(B), NEW bundle, bundle.generated \in Int,
           \A i \in DOMAIN bundles : /\ bundles[i].generated \in Int
                                     /\ bundles[i].generated < bundle.generated
    PROVE  LatestBundle(Append(bundles, bundle)) = bundle
<1>1. PICK B : bundles \in Seq(B)
    OBVIOUS
<1>2. PICK C : C = B \cup {bundle} /\ bundle \in C
    OBVIOUS
<1>3. bundles \in Seq(C)
    BY <1>1, <1>2, SeqDef
<1>4. PICK all : all = Append(bundles, bundle)
    OBVIOUS
<1>5. PICK m \in Nat : m = Len(bundles) /\ DOMAIN bundles = 1..m
    BY <1>3
<1>6. /\ DOMAIN all = 1..(m + 1) /\ all[m + 1] = bundle
      /\ \A i \in 1..m : all[i] = bundles[i]
    <2>1. /\ all \in Seq(C) /\ Len(all) = Len(bundles) + 1
          /\ \A i \in 1..Len(bundles) : all[i] = bundles[i]
          /\ all[Len(bundles) + 1] = bundle
        BY <1>2, <1>3, <1>4, AppendProperties
    <2>2. DOMAIN all = 1..Len(all)
        BY <2>1
    <2>3. QED BY <1>5, <2>1, <2>2
<1>7. \A i \in DOMAIN all : (\A j \in DOMAIN all : all[j].generated <= all[i].generated) <=> i = m + 1
    <2>1. \A i \in DOMAIN all : i = m + 1 \/ i \in 1..m
        BY <1>6
    <2>2. \A i \in 1..m : all[i].generated \in Int /\ all[i].generated < all[m + 1].generated
        BY <1>5, <1>6
    <2>3. m + 1 \in DOMAIN all /\ all[m + 1].generated \in Int
        BY <1>6
    <2>4. QED BY <2>1, <2>2, <2>3
<1>8. (CHOOSE i \in DOMAIN all : \A j \in DOMAIN all : all[j].generated <= all[i].generated) = m + 1
    <2>1. m + 1 \in DOMAIN all
        BY <1>6
    <2>2. QED BY <1>7, <2>1
<1>9. QED BY <1>4, <1>6, <1>8 DEF LatestBundle

(* The panel on the new bundle.                                            *)
ShowsBundle(panel, bundle) ==
    /\ panel.status = "live" /\ panel.delivery = "awaiting"
    /\ panel.asOf = bundle.asOf
    /\ panel.attributed <=> bundle.attribution # <<>>
    /\ panel.comparison = ComparisonSummary(bundle.comparison)

LEMMA PanelShows ==
    ASSUME NEW bundles, NEW bundle, bundles # <<>>, LatestBundle(bundles) = bundle,
           bundle.readable, bundle.external, ~ bundle.pdf
    PROVE  ShowsBundle(LoadReportWriterPanel(bundles), bundle)
<1> DEFINE attributed == bundle.attribution # <<>>
           delivery == IF bundle.pdf THEN "delivered" ELSE "awaiting"
           panel == [status |-> "live", asOf |-> bundle.asOf,
                     comparison |-> ComparisonSummary(bundle.comparison),
                     attributed |-> attributed, delivery |-> delivery]
<1>1. LoadReportWriterPanel(bundles) = panel
    BY Zenon DEF LoadReportWriterPanel
<1>2. delivery = "awaiting"
    BY Zenon
<1> HIDE DEF attributed, delivery
<1>3. /\ panel.status = "live" /\ panel.delivery = delivery /\ panel.asOf = bundle.asOf
      /\ panel.comparison = ComparisonSummary(bundle.comparison)
    BY Zenon
<1>4. panel.attributed = attributed
    BY Zenon
<1> HIDE DEF panel
<1>5. ShowsBundle(panel, bundle)
    BY <1>2, <1>3, <1>4, Zenon DEF ShowsBundle, attributed
<1>6. QED BY <1>1, <1>5

(* What is written of a bundle.                                            *)
IsWritten(report, bundle, earlier) ==
    /\ report.bundle = bundle
    /\ report.external.limitations = bundle.limitations
    /\ report.internal.limitations = bundle.limitations
    /\ report.external.bluf.policy = PolicyNote(bundle)
    /\ report.internal.headline.alerts = Cardinality(bundle.alerts)
    /\ report.internal.headline.concentration = Cardinality(bundle.concentration)
    /\ report.internal.d = bundle.attribution
    /\ report.internal.b.rows = PriorCells(bundle, "drift", DOMAIN bundle.weights)
    /\ report.panel = LoadReportWriterPanel(Append(earlier, bundle))

LEMMA ReportIs ==
    ASSUME NEW earlier, NEW bundle
    PROVE  /\ "bundle" \in DOMAIN WriteReports(earlier, bundle) <=> bundle # Uncollected
           /\ bundle # Uncollected => IsWritten(WriteReports(earlier, bundle), bundle, earlier)
<1>1. CASE bundle = Uncollected
    <2>1. WriteReports(earlier, bundle) = [panel |-> LoadReportWriterPanel(earlier)]
        BY <1>1 DEF WriteReports
    <2>2. QED BY <1>1, <2>1
<1>2. CASE bundle # Uncollected
    <2> DEFINE external == RenderExternal(bundle)
               internal == RenderInternal(bundle)
               panel == LoadReportWriterPanel(Append(earlier, bundle))
               report == [bundle |-> bundle, external |-> external, internal |-> internal,
                          panel |-> panel]
    <2>1. WriteReports(earlier, bundle) = report
        BY <1>2 DEF WriteReports
    <2>2. external.limitations = bundle.limitations /\ external.bluf.policy = PolicyNote(bundle)
        BY DEF RenderExternal, ExternalBluf
    <2>3. /\ internal.limitations = bundle.limitations
          /\ internal.headline = InternalHeadline(bundle)
          /\ internal.d = bundle.attribution
          /\ internal.b = ExhibitBInternal(bundle)
        BY DEF RenderInternal, ExhibitDAttribution
    <2>4. /\ InternalHeadline(bundle).alerts = Cardinality(bundle.alerts)
          /\ InternalHeadline(bundle).concentration = Cardinality(bundle.concentration)
          /\ ExhibitBInternal(bundle).rows = PriorCells(bundle, "drift", DOMAIN bundle.weights)
        BY DEF InternalHeadline, ExhibitBInternal
    <2> HIDE DEF external, internal, panel
    <2>5. /\ report.bundle = bundle /\ report.external = external /\ report.internal = internal
          /\ report.panel = panel /\ "bundle" \in DOMAIN report
        OBVIOUS
    <2> HIDE DEF report
    <2>6. IsWritten(report, bundle, earlier)
        BY <2>2, <2>3, <2>4, <2>5 DEF IsWritten, panel
    <2>7. QED BY <1>2, <2>1, <2>5, <2>6
<1>3. QED BY <1>1, <1>2

LEMMA ConfessionsOf ==
    ASSUME NEW household, NEW asOf, NEW now, NEW bundle, bundle = BundleOf(household, asOf, now)
    PROVE  /\ Confesses(bundle)
           /\ "zero tax" \in bundle.limitations
                  <=> \A i \in DOMAIN CollectTaxScenarios(household.lots, asOf) :
                          CollectTaxScenarios(household.lots, asOf)[i].delta = 0
           /\ "breaks" \in bundle.limitations <=> household.breaks
           /\ "pending" \in bundle.limitations <=> PendingApprovalCount(household.requests) > 0
           /\ "not attributed" \in bundle.limitations <=> bundle.attribution = <<>>
<1> DEFINE figures == PerformanceFigures(household.lots, household.realized)
           weights == Weights(household.lots, household.policy.targets)
           scenarios == CollectTaxScenarios(household.lots, asOf)
           pending == PendingApprovalCount(household.requests)
           attribution == CollectAttribution(household.lots, asOf)
           comparison == Compared(household.earlier, asOf, figures, weights)
           attributed == attribution # <<>>
           said == Limitations(household, scenarios, pending, attributed, comparison)
<1>1. bundle.limitations = said /\ bundle.attribution = attribution /\ bundle.comparison = comparison
    BY Zenon DEF BundleOf
<1>2. attributed <=> attribution # <<>>
    BY Zenon
<1> HIDE DEF attributed, attribution, comparison, scenarios, pending
<1>3. /\ "zero tax" \in said <=> \A i \in DOMAIN scenarios : scenarios[i].delta = 0
      /\ "breaks" \in said <=> household.breaks
      /\ "pending" \in said <=> pending > 0
      /\ "not attributed" \in said <=> ~ attributed
      /\ "first report" \in said <=> comparison = NoComparison
      /\ "gap" \in said <=> comparison # NoComparison /\ ~ comparison.adjacent
    BY LimitationsTell
<1> HIDE DEF said
<1>4. Confesses(bundle)
    BY <1>1, <1>3, Zenon DEF Confesses
<1>5. "zero tax" \in bundle.limitations <=> \A i \in DOMAIN scenarios : scenarios[i].delta = 0
    BY <1>1, <1>3, Zenon
<1>6. /\ "breaks" \in bundle.limitations <=> household.breaks
      /\ "pending" \in bundle.limitations <=> pending > 0
    BY <1>1, <1>3, Zenon
<1>7. "not attributed" \in bundle.limitations <=> bundle.attribution = <<>>
    BY <1>1, <1>2, <1>3, Zenon
<1>8. QED BY <1>4, <1>5, <1>6, <1>7, Zenon DEF scenarios, pending

LEMMA SummariesApart ==
    ASSUME NEW comparison
    PROVE  /\ ComparisonSummary(comparison) = "first report" <=> comparison = NoComparison
           /\ ComparisonSummary(comparison) = "non-adjacent"
                  <=> comparison # NoComparison /\ ~ comparison.adjacent
<1>1. "first report" # "adjacent" /\ "first report" # "non-adjacent" /\ "adjacent" # "non-adjacent"
    OBVIOUS
<1>2. QED BY <1>1, Zenon DEF ComparisonSummary

(* The panel tells the story of the bundle.                                *)
THEOREM PanelsAreCandid ==
    ASSUME NEW household, NEW now \in Int, IsReported(household, now), NEW asOf,
           NEW bundle, bundle = BundleOf(household, asOf, now),
           NEW report, IsWritten(report, bundle, household.earlier)
    PROVE  PanelIsCandid(report, household, now)
<1> DEFINE earlier == household.earlier
<1>1. SUFFICES ASSUME {i \in DOMAIN earlier : earlier[i].generated > now} = {}
               PROVE  /\ report.panel.status = "live" /\ report.panel.delivery = "awaiting"
                      /\ report.panel.asOf = report.bundle.asOf
                      /\ report.panel.attributed <=> "not attributed" \notin report.bundle.limitations
                      /\ report.panel.comparison = "first report"
                             <=> "first report" \in report.bundle.limitations
                      /\ report.panel.comparison = "non-adjacent"
                             <=> "gap" \in report.bundle.limitations
    BY Zenon DEF PanelIsCandid
<1>2. bundle.generated = now /\ bundle.readable = TRUE /\ bundle.external = TRUE /\ bundle.pdf = FALSE
    BY Zenon DEF BundleOf
<1>3. \A i \in DOMAIN earlier : earlier[i].generated \in Int /\ earlier[i].generated < now
    <2>1. \A i \in DOMAIN earlier :
              earlier[i].generated \in Int /\ earlier[i].generated # now /\ ~ earlier[i].generated > now
        BY <1>1 DEF IsReported, IsArchive
    <2>2. QED BY <2>1
<1>4. \E B : earlier \in Seq(B)
    BY DEF IsReported
<1>5. PICK all : all = Append(earlier, bundle)
    OBVIOUS
<1>6. LatestBundle(all) = bundle
    BY <1>2, <1>3, <1>4, <1>5, LatestIsNew
<1>7. all # <<>>
    <2>1. PICK B : earlier \in Seq(B)
        BY <1>4
    <2>2. PICK C : C = B \cup {bundle}
        OBVIOUS
    <2>3. earlier \in Seq(C) /\ bundle \in C
        BY <2>1, <2>2, SeqDef
    <2>4. QED BY <1>5, <2>3, AppendProperties
<1>8. bundle.readable /\ bundle.external /\ ~ bundle.pdf
    BY <1>2
<1>9. ShowsBundle(report.panel, bundle)
    <2>1. ShowsBundle(LoadReportWriterPanel(all), bundle)
        BY <1>6, <1>7, <1>8, PanelShows
    <2>2. QED BY <1>5, <2>1 DEF IsWritten
<1>10. report.bundle = bundle
    BY DEF IsWritten
<1>11. /\ Confesses(bundle)
       /\ "not attributed" \in bundle.limitations <=> bundle.attribution = <<>>
    BY ConfessionsOf
<1>12. /\ ComparisonSummary(bundle.comparison) = "first report" <=> bundle.comparison = NoComparison
       /\ ComparisonSummary(bundle.comparison) = "non-adjacent"
              <=> bundle.comparison # NoComparison /\ ~ bundle.comparison.adjacent
    BY SummariesApart
<1>13. /\ report.panel.status = "live" /\ report.panel.delivery = "awaiting"
       /\ report.panel.asOf = report.bundle.asOf
    BY <1>9, <1>10 DEF ShowsBundle
<1>14. report.panel.attributed <=> "not attributed" \notin report.bundle.limitations
    BY <1>9, <1>10, <1>11, Zenon DEF ShowsBundle
<1>15. /\ report.panel.comparison = "first report" <=> "first report" \in report.bundle.limitations
       /\ report.panel.comparison = "non-adjacent" <=> "gap" \in report.bundle.limitations
    BY <1>9, <1>10, <1>11, <1>12, Zenon DEF ShowsBundle, Confesses
<1>16. QED BY <1>13, <1>14, <1>15

(* Both packs tell of the policy what holds, of the tax what it is, and of *)
(* the requests what is pending.                                           *)
THEOREM PacksAreCandidOf ==
    ASSUME NEW household, NEW now, IsReported(household, now), NEW asOf \in Int, DriftAlert >= 0,
           Collectable(household, asOf), NEW bundle, bundle = BundleOf(household, asOf, now),
           NEW report, IsWritten(report, bundle, household.earlier)
    PROVE  PacksAreCandid(report, household)
<1>1. PICK lots, policy : lots = household.lots /\ policy = household.policy
    OBVIOUS
<1>2. IsStatement(lots) /\ IsMarked(lots) /\ IsFiniteSet(DOMAIN policy.targets)
      /\ IsFine(policy.targets, WorthOf(MarkedLots(lots)))
    BY <1>1 DEF IsReported, Collectable, IsStatement
<1>3. PICK alerts, concentration :
          /\ alerts = PolicyCheck(lots, policy).alerts
          /\ concentration = PolicyCheck(lots, policy).concentration
    OBVIOUS
<1>4. bundle.alerts = alerts /\ bundle.concentration = concentration
    BY <1>1, <1>3, Zenon DEF BundleOf
<1>5. PolicyNote(bundle) = "within" <=> alerts = {} /\ concentration = {}
    <2>1. "within" # "breaches"
        OBVIOUS
    <2>2. QED BY <1>4, <2>1, Zenon DEF PolicyNote, IpsInBand
<1>6. WorthOf(MarkedLots(lots)) > 0 =>
          (PolicyNote(bundle) = "within" <=> ~ OutOfPolicy(lots, policy))
    <2>1. ASSUME WorthOf(MarkedLots(lots)) > 0
          PROVE  alerts # {} \/ concentration # {} <=> OutOfPolicy(lots, policy)
        BY <1>2, <1>3, <2>1, PolicyCheckIsExact
    <2>2. QED BY <1>5, <2>1
<1>7. PolicyNote(bundle) = "within" <=> Cardinality(alerts) + Cardinality(concentration) = 0
    <2>1. IsFiniteSet(alerts) /\ IsFiniteSet(concentration)
        BY <1>2, <1>3, AlertsAreFew
    <2>2. /\ Cardinality(alerts) \in Nat /\ (Cardinality(alerts) = 0 <=> alerts = {})
          /\ Cardinality(concentration) \in Nat /\ (Cardinality(concentration) = 0 <=> concentration = {})
        BY <2>1, FS_CardinalityType, FS_EmptySet
    <2>3. PICK a \in Nat, c \in Nat : a = Cardinality(alerts) /\ c = Cardinality(concentration)
        BY <2>2
    <2>4. a + c = 0 <=> a = 0 /\ c = 0
        OBVIOUS
    <2>5. QED BY <1>5, <2>2, <2>3, <2>4
<1>8. PendingApprovalCount(household.requests) > 0
          <=> \E i \in DOMAIN household.requests :
                  household.requests[i] = "pending" /\ i <= Newest
    BY PendingAreCounted DEF IsReported
<1>9. (\A i \in DOMAIN CollectTaxScenarios(lots, asOf) : CollectTaxScenarios(lots, asOf)[i].delta = 0)
          <=> \A lot \in ToSet(lots) : lot.gain <= 0
    <2>1. \A i \in DOMAIN lots : lots[i].value # Unpriced
        BY <1>1, Zenon DEF Collectable
    <2>2. IsGained(lots)
        BY <1>2, <2>1 DEF IsStatement, IsMarked, IsGained
    <2>3. QED BY <2>2, ScenariosTellGains
<1>10. /\ "zero tax" \in bundle.limitations <=> \A lot \in ToSet(lots) : lot.gain <= 0
       /\ "breaks" \in bundle.limitations <=> household.breaks
       /\ "pending" \in bundle.limitations <=>
              \E i \in DOMAIN household.requests : household.requests[i] = "pending" /\ i <= Newest
       /\ "not attributed" \in bundle.limitations <=> bundle.attribution = <<>>
    BY <1>1, <1>8, <1>9, ConfessionsOf
<1>11. /\ report.external.limitations = bundle.limitations
       /\ report.internal.limitations = bundle.limitations
       /\ report.external.bluf.policy = PolicyNote(bundle)
       /\ report.internal.headline.alerts = Cardinality(alerts)
       /\ report.internal.headline.concentration = Cardinality(concentration)
       /\ report.internal.d = bundle.attribution
    BY <1>4 DEF IsWritten
<1>12. QED BY <1>1, <1>6, <1>7, <1>10, <1>11, Zenon DEF PacksAreCandid

(* A report is written exactly when the book can be reported, of any       *)
(* household, and what is written is candid (build_report,                 *)
(* collect_report_bundle, render_external_bundle, render_internal_bundle,  *)
(* load_report_writer_panel).                                              *)
THEOREM ReportsAreCandidOf ==
    ASSUME NEW household, NEW now \in Int, IsReported(household, now), NEW asOf \in Nat,
           DriftAlert >= 0, One \in Int,
           IsNoFunction(NotAttributed), IsNoFunction(Uncollected), IsNoFunction(NoComparison),
           NEW report, report = BuildReport(household, asOf, now)
    PROVE  /\ "bundle" \in DOMAIN report <=> Collectable(household, asOf)
           /\ Collectable(household, asOf) =>
                 /\ ComparisonIsCandid(report, household, asOf)
                 /\ PacksAreCandid(report, household)
                 /\ PanelIsCandid(report, household, now)
<1>1. PICK bundle : bundle = CollectReportBundle(household, asOf, now)
    OBVIOUS
<1>2. report = WriteReports(household.earlier, bundle)
    BY <1>1 DEF BuildReport
<1>3. asOf \in Int
    OBVIOUS
<1>4. /\ bundle = Uncollected <=> ~ Collectable(household, asOf)
      /\ Collectable(household, asOf) => bundle = BundleOf(household, asOf, now)
    BY <1>1, <1>3, CollectedWhenCollectable
<1>5. "bundle" \in DOMAIN report <=> Collectable(household, asOf)
    BY <1>2, <1>4, ReportIs
<1>6. ASSUME Collectable(household, asOf)
      PROVE  /\ ComparisonIsCandid(report, household, asOf)
             /\ PacksAreCandid(report, household)
             /\ PanelIsCandid(report, household, now)
    <2>1. bundle = BundleOf(household, asOf, now) /\ bundle # Uncollected
        BY <1>4, <1>6
    <2>2. IsWritten(report, bundle, household.earlier)
        BY <1>2, <2>1, ReportIs
    <2>3. PacksAreCandid(report, household)
        BY <1>3, <1>6, <2>1, <2>2, PacksAreCandidOf
    <2>4. PanelIsCandid(report, household, now)
        BY <2>1, <2>2, PanelsAreCandid
    <2>5. ComparisonIsCandid(report, household, asOf)
        <3> DEFINE figures == PerformanceFigures(household.lots, household.realized)
                   weights == Weights(household.lots, household.policy.targets)
        <3>1. report.bundle = bundle
            BY <2>2 DEF IsWritten
        <3>2. bundle.weights = weights /\ bundle.comparison = Compared(household.earlier, asOf, figures, weights)
            BY <2>1, Zenon DEF BundleOf
        <3>3. Confesses(report.bundle)
            BY <2>1, <3>1, ConfessionsOf
        <3>4. report.internal.b.rows = PriorCells(report.bundle, "drift", DOMAIN report.bundle.weights)
            BY <2>2, <3>1 DEF IsWritten
        <3>5. DOMAIN weights = DOMAIN household.policy.targets
            BY DEF Weights
        <3>6. \A s \in DOMAIN weights : weights[s] \in Int
            BY <3>5, WeightsAreWhole DEF IsReported, IsStatement
        <3> HIDE DEF figures, weights
        <3>7. report.bundle.comparison = Compared(household.earlier, asOf, figures, report.bundle.weights)
            BY <3>1, <3>2
        <3>8. \A s \in DOMAIN report.bundle.weights : report.bundle.weights[s] \in Int
            BY <3>1, <3>2, <3>6
        <3>9. IsArchive(household.earlier) /\ IsCompared(household.earlier)
            BY DEF IsReported
        <3>10. QED BY <3>3, <3>4, <3>7, <3>8, <3>9, ComparisonsAreCandid
    <2>6. QED BY <2>3, <2>4, <2>5
<1>7. QED BY <1>5, <1>6

-----------------------------------------------------------------------------
(* The rebalance, of a book of any size. First, of totals.                 *)

(* u gives every member of D a number.                                     *)
IsOver(u, D) == IsFun(u) /\ DOMAIN u = D /\ \A x \in D : u[x] \in Int

LEMMA OverIsSummed ==
    ASSUME NEW D, IsFiniteSet(D), NEW u, IsOver(u, D)
    PROVE  /\ TotalOf(u) \in Int
           /\ \E f : Adds(f, u, D) /\ TotalOf(u) = f[D]
<1>1. Summable(u)
    BY DEF IsOver, Summable
<1>2. PICK f : Adds(f, u, D)
    BY <1>1, SumsExist DEF IsOver
<1>3. TotalOf(u) = f[D]
    BY <1>2, TotalIsAdded DEF IsOver
<1>4. TotalOf(u) \in Int
    BY <1>1, TotalIsNumber DEF IsOver
<1>5. QED BY <1>2, <1>3, <1>4

LEMMA OversAdd ==
    ASSUME NEW D, IsFiniteSet(D), NEW u, NEW v, NEW w, IsOver(u, D), IsOver(v, D), IsOver(w, D),
           \A x \in D : w[x] = u[x] + v[x]
    PROVE  TotalOf(w) = TotalOf(u) + TotalOf(v)
<1>1. \A x \in D : u[x] \in Int /\ v[x] \in Int /\ w[x] = u[x] + v[x]
    BY DEF IsOver
<1>2. QED BY <1>1, TotalsAdd DEF IsOver

LEMMA NotNegative ==
    ASSUME NEW D, IsFiniteSet(D), NEW u, IsOver(u, D), \A x \in D : u[x] >= 0
    PROVE  /\ TotalOf(u) >= 0 /\ \A x \in D : TotalOf(u) >= u[x]
<1>1. PICK f : Adds(f, u, D) /\ TotalOf(u) = f[D]
    BY OverIsSummed
<1>2. \A x \in D : u[x] \in Int /\ u[x] >= 0
    BY DEF IsOver
<1>3. D \in SUBSET D
    OBVIOUS
<1>4. QED BY <1>1, <1>2, <1>3, AtLeastEach

(* Totals are in the order of what is totalled, and equal only for equals. *)
LEMMA TotalsOrder ==
    ASSUME NEW D, IsFiniteSet(D), NEW u, NEW v, IsOver(u, D), IsOver(v, D),
           \A x \in D : u[x] <= v[x]
    PROVE  /\ TotalOf(u) <= TotalOf(v)
           /\ TotalOf(u) = TotalOf(v) => u = v
<1>1. PICK z : z = [x \in D |-> v[x] - u[x]]
    OBVIOUS
<1>2. IsOver(z, D) /\ \A x \in D : z[x] = v[x] - u[x]
    BY <1>1 DEF IsOver, IsFun
<1>3. \A x \in D : v[x] = u[x] + z[x] /\ z[x] >= 0
    BY <1>2 DEF IsOver
<1>4. TotalOf(v) = TotalOf(u) + TotalOf(z)
    BY <1>2, <1>3, OversAdd
<1>5. TotalOf(z) >= 0 /\ \A x \in D : TotalOf(z) >= z[x]
    BY <1>2, <1>3, NotNegative
<1>6. TotalOf(u) \in Int /\ TotalOf(v) \in Int /\ TotalOf(z) \in Int
    BY <1>2, OverIsSummed
<1>7. TotalOf(u) <= TotalOf(v)
    BY <1>4, <1>5, <1>6
<1>8. ASSUME TotalOf(u) = TotalOf(v) PROVE u = v
    <2>1. TotalOf(z) = 0
        BY <1>4, <1>6, <1>8
    <2>2. \A x \in D : z[x] = 0
        BY <1>2, <1>3, <1>5, <2>1 DEF IsOver
    <2>3. \A x \in D : u[x] = v[x]
        BY <1>2, <2>2 DEF IsOver
    <2>4. QED BY <2>3 DEF IsOver, IsFun
<1>9. QED BY <1>7, <1>8

LEMMA TotalScales ==
    ASSUME NEW D, IsFiniteSet(D), NEW u, NEW v, IsOver(u, D), IsOver(v, D), NEW k \in Int,
           \A x \in D : v[x] = u[x] * k
    PROVE  TotalOf(v) = TotalOf(u) * k
<1>1. PICK f : Adds(f, u, D) /\ TotalOf(u) = f[D]
    BY OverIsSummed
<1>2. PICK g : Adds(g, v, D) /\ TotalOf(v) = g[D]
    BY OverIsSummed
<1>3. \A s \in SUBSET D : f[s] \in Int /\ g[s] \in Int
    BY <1>1, <1>2 DEF Adds
<1> DEFINE Holding == {s \in SUBSET D : g[s] = f[s] * k}
<1>4. {} \in Holding
    BY <1>1, <1>2 DEF Adds
<1>5. ASSUME NEW s \in SUBSET D, NEW x \in D, s \in Holding, x \notin s
      PROVE  s \cup {x} \in Holding
    <2> HIDE DEF Holding
    <2>1. s \in SUBSET D /\ x \in D /\ x \notin s /\ (s \cup {x}) \ {x} = s
        BY <1>5
    <2>2. PICK t \in SUBSET D : t = s \cup {x} /\ x \in t /\ t \ {x} = s
        <3>1. s \cup {x} \in SUBSET D /\ x \in s \cup {x}
            BY <2>1
        <3>2. QED BY <2>1, <3>1
    <2>3. f[t] = u[x] + f[s] /\ g[t] = v[x] + g[s]
        BY <1>1, <1>2, <2>2 DEF Adds
    <2>4. PICK a \in Int, b \in Int : u[x] = a /\ f[s] = b
        BY <1>3, <2>1 DEF IsOver
    <2>5. v[x] = a * k /\ g[s] = b * k
        BY <1>5, <2>1, <2>4 DEF Holding
    <2>6. (a + b) * k = a * k + b * k
        OBVIOUS
    <2>7. g[t] = f[t] * k
        BY <2>3, <2>4, <2>5, <2>6
    <2>8. QED BY <2>2, <2>7 DEF Holding
<1>6. D \in Holding
    <2> HIDE DEF Holding
    <2>1. \A s \in SUBSET D, x \in D : s \in Holding /\ x \notin s => s \cup {x} \in Holding
        BY <1>5
    <2>2. \A s \in SUBSET D : s \in Holding
        BY <1>4, <2>1, EverySubset
    <2>3. QED BY <2>2
<1>7. QED BY <1>1, <1>2, <1>6

(* The same t for every member of a part A.                                *)
LEMMA ShareOfEach ==
    ASSUME NEW D, IsFiniteSet(D), NEW A \in SUBSET D, NEW t \in Int, NEW z, IsOver(z, D),
           \A x \in D : z[x] = IF x \in A THEN t ELSE 0
    PROVE  TotalOf(z) = Cardinality(A) * t
<1>1. PICK v : v = [x \in A |-> t]
    OBVIOUS
<1>2. IsFiniteSet(A)
    BY FS_Subset
<1>3. IsOver(v, A) /\ \A x \in A : v[x] = t
    BY <1>1 DEF IsOver, IsFun
<1>4. TotalOf(z) = TotalOf(v)
    <2>1. Summable(z)
        BY DEF IsOver, Summable
    <2>2. DOMAIN v \in SUBSET DOMAIN z /\ \A x \in DOMAIN z : z[x] = IF x \in DOMAIN v THEN v[x] ELSE 0
        BY <1>3 DEF IsOver
    <2>3. QED BY <1>3, <2>1, <2>2, TotalOfMore DEF IsOver
<1>5. PICK f : Adds(f, v, A) /\ TotalOf(v) = f[A]
    BY <1>2, <1>3, OverIsSummed
<1> DEFINE Holding == {s \in SUBSET A : f[s] = Cardinality(s) * t}
<1>6. {} \in Holding
    <2>1. Cardinality({}) = 0 /\ 0 * t = 0
        BY FS_EmptySet
    <2>2. QED BY <1>5, <2>1 DEF Adds
<1>7. ASSUME NEW s \in SUBSET A, NEW x \in A, s \in Holding, x \notin s
      PROVE  s \cup {x} \in Holding
    <2> HIDE DEF Holding
    <2>1. s \in SUBSET A /\ x \in A /\ x \notin s /\ (s \cup {x}) \ {x} = s
        BY <1>7
    <2>2. PICK r \in SUBSET A : r = s \cup {x} /\ x \in r /\ r \ {x} = s
        <3>1. s \cup {x} \in SUBSET A /\ x \in s \cup {x}
            BY <2>1
        <3>2. QED BY <2>1, <3>1
    <2>3. f[r] = t + f[s]
        <3>1. f[r] = v[x] + f[r \ {x}]
            BY <1>5, <2>2 DEF Adds
        <3>2. v[x] = t
            BY <1>3
        <3>3. QED BY <2>2, <3>1, <3>2
    <2>4. PICK n \in Nat : n = Cardinality(s) /\ Cardinality(r) = n + 1
        <3>1. IsFiniteSet(s)
            BY <1>2, <2>1, FS_Subset
        <3>2. Cardinality(s) \in Nat
            BY <3>1, FS_CardinalityType
        <3>3. Cardinality(s \cup {x}) = Cardinality(s) + 1
            BY <2>1, <3>1, FS_AddElement
        <3>4. QED BY <2>2, <3>2, <3>3
    <2>5. f[s] = n * t
        BY <1>7, <2>4 DEF Holding
    <2>6. (n + 1) * t = t + n * t
        OBVIOUS
    <2>7. f[r] = Cardinality(r) * t
        BY <2>3, <2>4, <2>5, <2>6
    <2>8. QED BY <2>2, <2>7 DEF Holding
<1>8. A \in Holding
    <2> HIDE DEF Holding
    <2>1. \A s \in SUBSET A, x \in A : s \in Holding /\ x \notin s => s \cup {x} \in Holding
        BY <1>7
    <2>2. \A s \in SUBSET A : s \in Holding
        BY <1>2, <1>6, <2>1, EverySubset
    <2>3. QED BY <2>2
<1>9. QED BY <1>4, <1>5, <1>8

(* Totals of multiples are multiples.                                      *)
LEMMA TotalOnGrid ==
    ASSUME NEW D, IsFiniteSet(D), NEW u, IsOver(u, D), NEW q \in Int, \A x \in D : OnGrid(u[x], q)
    PROVE  OnGrid(TotalOf(u), q)
<1>1. PICK a : a = [x \in D |-> CHOOSE m \in Int : u[x] = m * q]
    OBVIOUS
<1>2. \A x \in D : a[x] \in Int /\ u[x] = a[x] * q
    BY <1>1 DEF OnGrid
<1>3. IsOver(a, D)
    BY <1>1, <1>2 DEF IsOver, IsFun
<1>4. TotalOf(u) = TotalOf(a) * q
    BY <1>2, <1>3, TotalScales
<1>5. TotalOf(a) \in Int
    BY <1>3, OverIsSummed
<1>6. QED BY <1>4, <1>5 DEF OnGrid

(* Clip keeps between the bounds, and keeps what is there already.         *)
LEMMA ClipKeeps ==
    ASSUME NEW x \in Int, NEW low \in Int, NEW high \in Int, low <= high
    PROVE  /\ Clip(x, low, high) \in Int
           /\ low <= Clip(x, low, high) /\ Clip(x, low, high) <= high
           /\ low <= x /\ x <= high => Clip(x, low, high) = x
           /\ x <= low => Clip(x, low, high) = low
           /\ x >= high => Clip(x, low, high) = high
BY DEF Clip

LEMMA ClipOrders ==
    ASSUME NEW x \in Int, NEW y \in Int, NEW low \in Int, NEW high \in Int, low <= high, x <= y
    PROVE  Clip(x, low, high) <= Clip(y, low, high)
BY DEF Clip

(* Multiples of q that differ are at least q apart.                        *)
LEMMA GridGap ==
    ASSUME NEW x \in Int, NEW y \in Int, NEW q \in Nat, q > 0, OnGrid(x, q), OnGrid(y, q), x < y
    PROVE  x + q <= y
<1>1. PICK i \in Int, j \in Int : x = i * q /\ y = j * q
    BY DEF OnGrid
<1>2. i < j
    BY <1>1, ProductsOrder
<1>3. i + 1 <= j /\ i + 1 \in Int
    BY <1>2
<1>4. (i + 1) * q <= j * q
    BY <1>3, ProductGrows
<1>5. (i + 1) * q = i * q + q
    OBVIOUS
<1>6. QED BY <1>1, <1>4, <1>5

LEMMA GridDifference ==
    ASSUME NEW x \in Int, NEW y \in Int, NEW q \in Int, OnGrid(x, q), OnGrid(y, q),
           NEW z, z = x - y
    PROVE  OnGrid(z, q)
<1>1. PICK i \in Int, j \in Int : x = i * q /\ y = j * q
    BY DEF OnGrid
<1>2. z = (i - j) * q /\ i - j \in Int
    BY <1>1
<1>3. QED BY <1>2 DEF OnGrid

(* Between two multiples of q, what is clipped goes down one for one or    *)
(* stays.                                                                  *)
LEMMA ClipGoesDown ==
    ASSUME NEW x \in Int, NEW low \in Int, NEW high \in Int, low <= high,
           NEW q \in Nat, q > 0, OnGrid(x, q), OnGrid(low, q), OnGrid(high, q), NEW t \in 0..q
    PROVE  Clip(x, low, high) =
               Clip(x - t, low, high) + (IF low < x /\ x <= high THEN t ELSE 0)
<1>1. CASE low < x /\ x <= high
    <2>1. low + q <= x
        BY <1>1, GridGap
    <2>2. low <= x - t /\ x - t <= high /\ x - t \in Int /\ low <= x
        BY <1>1, <2>1
    <2>3. Clip(x, low, high) = x /\ Clip(x - t, low, high) = x - t
        BY <1>1, <2>2, ClipKeeps
    <2>4. QED BY <1>1, <2>3
<1>2. CASE x <= low
    <2>1. x - t <= low /\ x - t \in Int
        BY <1>2
    <2>2. Clip(x, low, high) = low /\ Clip(x - t, low, high) = low
        BY <1>2, <2>1, ClipKeeps
    <2>3. ~ (low < x)
        BY <1>2
    <2>4. QED BY <2>2, <2>3
<1>3. CASE high < x
    <2>1. high + q <= x
        BY <1>3, GridGap
    <2>2. x - t >= high /\ x - t \in Int /\ x >= high
        BY <1>3, <2>1
    <2>3. Clip(x, low, high) = high /\ Clip(x - t, low, high) = high
        BY <2>2, ClipKeeps
    <2>4. ~ (x <= high)
        BY <1>3
    <2>5. QED BY <2>3, <2>4
<1>4. QED BY <1>1, <1>2, <1>3

(* The bounds a sleeve of D has, all of them multiples of q.               *)
IsBounded(targets, D) ==
    \A s \in D : /\ FloorOf(targets, s) \in Int /\ CapOf(targets, s) \in Int
                 /\ 0 <= FloorOf(targets, s) /\ FloorOf(targets, s) <= CapOf(targets, s)
                 /\ CapOf(targets, s) <= One

OnGridAll(targets, D, q) ==
    /\ OnGrid(One, q)
    /\ \A s \in D : OnGrid(FloorOf(targets, s), q) /\ OnGrid(CapOf(targets, s), q)

LEMMA LoweredIs ==
    ASSUME NEW D, IsFiniteSet(D), NEW w, IsOver(w, D), NEW targets, IsBounded(targets, D),
           NEW by \in Int
    PROVE  /\ IsOver(Lowered(w, targets, by), D)
           /\ TotalOf(Lowered(w, targets, by)) \in Int
           /\ \A s \in D : /\ Lowered(w, targets, by)[s] =
                                  Clip(w[s] - by, FloorOf(targets, s), CapOf(targets, s))
                           /\ FloorOf(targets, s) <= Lowered(w, targets, by)[s]
                           /\ Lowered(w, targets, by)[s] <= CapOf(targets, s)
<1>1. PICK v : v = Lowered(w, targets, by)
    OBVIOUS
<1>2. IsFun(v) /\ DOMAIN v = D
    BY <1>1 DEF Lowered, IsFun, IsOver
<1>3. \A s \in D : v[s] = Clip(w[s] - by, FloorOf(targets, s), CapOf(targets, s))
    BY <1>1 DEF Lowered, IsOver
<1>4. ASSUME NEW s \in D
      PROVE  v[s] \in Int /\ FloorOf(targets, s) <= v[s] /\ v[s] <= CapOf(targets, s)
    <2>1. PICK x \in Int, low \in Int, high \in Int :
              x = w[s] - by /\ low = FloorOf(targets, s) /\ high = CapOf(targets, s) /\ low <= high
        BY DEF IsOver, IsBounded
    <2>2. v[s] = Clip(x, low, high)
        BY <1>3, <2>1
    <2>3. QED BY <2>1, <2>2, ClipKeeps
<1>5. IsOver(v, D)
    BY <1>2, <1>4 DEF IsOver
<1>6. QED BY <1>1, <1>3, <1>4, <1>5, OverIsSummed

LEMMA LoweredGives ==
    ASSUME NEW D, IsFiniteSet(D), NEW w, IsOver(w, D), NEW targets, IsBounded(targets, D),
           NEW by \in Int, NEW v, v = Lowered(w, targets, by)
    PROVE  /\ IsOver(v, D)
           /\ \A s \in D : /\ v[s] = Clip(w[s] - by, FloorOf(targets, s), CapOf(targets, s))
                           /\ FloorOf(targets, s) <= v[s] /\ v[s] <= CapOf(targets, s)
<1>1. IsOver(Lowered(w, targets, by), D)
    BY LoweredIs
<1>2. \A s \in D : /\ Lowered(w, targets, by)[s] =
                        Clip(w[s] - by, FloorOf(targets, s), CapOf(targets, s))
                  /\ FloorOf(targets, s) <= Lowered(w, targets, by)[s]
                  /\ Lowered(w, targets, by)[s] <= CapOf(targets, s)
    BY LoweredIs
<1>3. QED BY <1>1, <1>2, Zenon

(* The total goes down by the same for each step between two multiples.    *)
LEMMA TotalGoesDown ==
    ASSUME NEW D, IsFiniteSet(D), NEW w, IsOver(w, D), NEW targets, IsBounded(targets, D),
           NEW q \in Nat, q > 0, OnGridAll(targets, D, q), \A s \in D : OnGrid(w[s], q),
           NEW b \in Int, OnGrid(b, q)
    PROVE  \E m \in 0..Cardinality(D) : \A t \in 0..q :
               TotalOf(Lowered(w, targets, b)) = TotalOf(Lowered(w, targets, b + t)) + m * t
<1> DEFINE A == {s \in D : FloorOf(targets, s) < w[s] - b /\ w[s] - b <= CapOf(targets, s)}
<1>1. Cardinality(A) \in 0..Cardinality(D)
    <2>1. IsFiniteSet(A) /\ Cardinality(A) <= Cardinality(D)
        BY FS_Subset
    <2>2. Cardinality(A) \in Nat /\ Cardinality(D) \in Nat
        BY <2>1, FS_CardinalityType
    <2>3. QED BY <2>1, <2>2
<1>2. ASSUME NEW t \in 0..q
      PROVE  TotalOf(Lowered(w, targets, b)) =
                 TotalOf(Lowered(w, targets, b + t)) + Cardinality(A) * t
    <2>1. PICK z : z = [s \in D |-> IF s \in A THEN t ELSE 0]
        OBVIOUS
    <2>2. t \in Int /\ b + t \in Int
        OBVIOUS
    <2>3. IsOver(z, D) /\ \A s \in D : z[s] = IF s \in A THEN t ELSE 0
        BY <2>1, <2>2 DEF IsOver, IsFun
    <2>4. PICK u, v : u = Lowered(w, targets, b) /\ v = Lowered(w, targets, b + t)
        OBVIOUS
    <2>5. IsOver(u, D) /\ \A s \in D :
              u[s] = Clip(w[s] - b, FloorOf(targets, s), CapOf(targets, s))
        BY <2>4, LoweredGives
    <2>6. IsOver(v, D) /\ \A s \in D :
              v[s] = Clip(w[s] - (b + t), FloorOf(targets, s), CapOf(targets, s))
        <3>1. PICK by \in Int : by = b + t
            BY <2>2
        <3>2. QED BY <2>4, <3>1, LoweredGives
    <2>7. ASSUME NEW s \in D PROVE u[s] = v[s] + z[s]
        <3>1. PICK x \in Int, low \in Int, high \in Int :
                  x = w[s] - b /\ low = FloorOf(targets, s) /\ high = CapOf(targets, s)
            BY DEF IsOver, IsBounded
        <3>2. low <= high /\ OnGrid(low, q) /\ OnGrid(high, q)
            BY <3>1 DEF IsBounded, OnGridAll
        <3>3. OnGrid(x, q)
            <4>1. PICK y \in Int : y = w[s] /\ OnGrid(y, q)
                BY DEF IsOver
            <4>2. x = y - b /\ q \in Int
                BY <3>1, <4>1
            <4>3. QED BY <4>1, <4>2, GridDifference
        <3>4. Clip(x, low, high) = Clip(x - t, low, high) + (IF low < x /\ x <= high THEN t ELSE 0)
            BY <3>2, <3>3, ClipGoesDown
        <3>5. x - t = w[s] - (b + t)
            BY <2>2, <3>1 DEF IsOver
        <3>6. u[s] = Clip(x, low, high) /\ v[s] = Clip(x - t, low, high)
            BY <2>5, <2>6, <3>1, <3>5
        <3>7. z[s] = IF low < x /\ x <= high THEN t ELSE 0
            BY <2>3, <3>1
        <3>8. QED BY <3>4, <3>6, <3>7
    <2> HIDE DEF A
    <2>8. TotalOf(u) = TotalOf(v) + TotalOf(z)
        BY <2>3, <2>5, <2>6, <2>7, OversAdd
    <2>9. TotalOf(z) = Cardinality(A) * t
        <3>1. A \in SUBSET D
            BY DEF A
        <3>2. QED BY <2>2, <2>3, <3>1, ShareOfEach
    <2>10. QED BY <2>4, <2>8, <2>9
<1> HIDE DEF A
<1>3. QED BY <1>1, <1>2

LEMMA CrossingArithmetic ==
    ASSUME NEW q \in Nat, q > 0, NEW a \in Int, NEW m \in Nat, NEW c \in Int, NEW d \in Int,
           NEW t \in 0..(q - 1), m > 0 => a = d * m,
           c = a - m * t, c >= 0, a - m * (t + 1) < 0
    PROVE  c = 0
<1>1. m * (t + 1) = m * t + m /\ m * t = t * m /\ m * t \in Int
    OBVIOUS
<1>2. m > 0
    BY <1>1
<1>3. a = d * m
    BY <1>2
<1>4. ~ (d < t)
    <2>1. SUFFICES ASSUME d < t PROVE FALSE
        OBVIOUS
    <2>2. d * m < t * m
        BY <1>2, <2>1, ProductsOrder
    <2>3. QED BY <1>1, <1>3, <2>2
<1>5. d < t + 1
    <2>1. (t + 1) * m = m * (t + 1) /\ t + 1 \in Int
        OBVIOUS
    <2>2. d * m < (t + 1) * m
        BY <1>1, <1>3, <2>1
    <2>3. QED BY <1>2, <2>1, <2>2, ProductsOrder
<1>6. d = t
    BY <1>4, <1>5
<1>7. QED BY <1>1, <1>3, <1>6

(* Whatever number of sleeves takes part, what is left over can be shared. *)
SharedEvenly(n, q) == \A m \in 1..n : OnGrid(q, m)

(* Where the total passes the whole it meets it.                           *)
LEMMA TotalMeets ==
    ASSUME NEW D, IsFiniteSet(D), NEW w, IsOver(w, D), NEW targets, IsBounded(targets, D),
           NEW q \in Nat, q > 0, OnGridAll(targets, D, q), \A s \in D : OnGrid(w[s], q),
           One \in Int, SharedEvenly(Cardinality(D), q), NEW by \in Int,
           TotalOf(Lowered(w, targets, by)) >= One, TotalOf(Lowered(w, targets, by + 1)) < One
    PROVE  TotalOf(Lowered(w, targets, by)) = One
<1>1. PICK p \in Int : p * q <= by /\ by < (p + 1) * q
    BY Quotient
<1>2. PICK b \in Int : b = p * q /\ OnGrid(b, q)
    BY DEF OnGrid
<1>3. (p + 1) * q = p * q + q
    OBVIOUS
<1>4. PICK t \in 0..(q - 1) : t = by - b
    BY <1>1, <1>2, <1>3
<1>5. by = b + t /\ by + 1 = b + (t + 1) /\ t \in 0..q /\ t + 1 \in 0..q
    BY <1>2, <1>4
<1>6. PICK m \in 0..Cardinality(D) : \A r \in 0..q :
          TotalOf(Lowered(w, targets, b)) = TotalOf(Lowered(w, targets, b + r)) + m * r
    BY <1>2, TotalGoesDown
<1>7. PICK g \in Int : g = TotalOf(Lowered(w, targets, b)) /\ OnGrid(g, q)
    <2>1. IsOver(Lowered(w, targets, b), D) /\ TotalOf(Lowered(w, targets, b)) \in Int
        BY LoweredIs
    <2>2. ASSUME NEW s \in D PROVE OnGrid(Lowered(w, targets, b)[s], q)
        <3>1. PICK x \in Int, low \in Int, high \in Int :
                  x = w[s] - b /\ low = FloorOf(targets, s) /\ high = CapOf(targets, s)
            BY DEF IsOver, IsBounded
        <3>2. OnGrid(low, q) /\ OnGrid(high, q)
            BY <3>1 DEF OnGridAll
        <3>3. OnGrid(x, q)
            <4>1. PICK y \in Int : y = w[s] /\ OnGrid(y, q)
                BY DEF IsOver
            <4>2. x = y - b /\ q \in Int
                BY <3>1, <4>1
            <4>3. QED BY <1>2, <4>1, <4>2, GridDifference
        <3>4. Clip(x, low, high) \in {x, low, high}
            BY DEF Clip
        <3>5. Lowered(w, targets, b)[s] = Clip(x, low, high)
            BY <3>1, LoweredIs
        <3>6. QED BY <3>2, <3>3, <3>4, <3>5
    <2>3. OnGrid(TotalOf(Lowered(w, targets, b)), q)
        BY <2>1, <2>2, TotalOnGrid
    <2>4. QED BY <2>1, <2>3
<1>8. PICK x \in Int, y \in Int :
          x = TotalOf(Lowered(w, targets, by)) /\ y = TotalOf(Lowered(w, targets, by + 1))
    BY LoweredIs
<1>9. m \in Nat /\ x = g - m * t /\ y = g - m * (t + 1)
    <2>1. Cardinality(D) \in Nat
        BY FS_CardinalityType
    <2>2. m \in Nat /\ m * t \in Int /\ m * (t + 1) \in Int
        BY <2>1
    <2>3. g = x + m * t /\ g = y + m * (t + 1)
        BY <1>5, <1>6, <1>7, <1>8
    <2>4. QED BY <2>2, <2>3
<1>10. PICK one \in Int, d \in Int : one = One /\ (m > 0 => g - one = d * m)
    <2>1. PICK i \in Int, j \in Int : g = i * q /\ One = j * q
        BY <1>7 DEF OnGridAll, OnGrid
    <2>2. CASE m > 0
        <3>1. m \in 1..Cardinality(D)
            BY <1>9, <2>2
        <3>2. PICK k \in Int : q = k * m
            BY <3>1 DEF SharedEvenly, OnGrid
        <3>3. PICK e \in Int : e = i - j
            OBVIOUS
        <3>4. g - One = e * q
            BY <2>1, <3>3
        <3>5. e * q = (e * k) * m /\ e * k \in Int
            BY <3>2
        <3>6. QED BY <3>4, <3>5
    <2>3. CASE ~ (m > 0)
        BY <2>3
    <2>4. QED BY <2>2, <2>3
<1>11. x - one = (g - one) - m * t /\ (g - one) - m * (t + 1) < 0 /\ x - one >= 0
    <2>1. m * t \in Int /\ m * (t + 1) \in Int
        BY <1>9
    <2>2. QED BY <1>8, <1>9, <1>10, <2>1
<1>12. x - one = 0
    <2>1. PICK a \in Int, c \in Int : a = g - one /\ c = x - one
        OBVIOUS
    <2>2. QED BY <1>9, <1>10, <1>11, <2>1, CrossingArithmetic
<1>13. QED BY <1>8, <1>10, <1>12

(* Lowered by the whole book each weight is at its floor, raised by it at  *)
(* its cap: in between there is an amount for which the weights sum to it. *)
LEMMA TotalEnds ==
    ASSUME NEW D, IsFiniteSet(D), NEW w, IsOver(w, D), NEW targets, IsBounded(targets, D),
           One \in Int, \A s \in D : 0 <= w[s] /\ w[s] <= One, BoundsMeet(targets, D)
    PROVE  /\ TotalOf(Lowered(w, targets, One)) <= One
           /\ TotalOf(Lowered(w, targets, -One)) >= One
<1>1. PICK u, v : u = [s \in D |-> FloorOf(targets, s)] /\ v = [s \in D |-> CapOf(targets, s)]
    OBVIOUS
<1>2. /\ IsOver(u, D) /\ IsOver(v, D)
      /\ \A s \in D : u[s] = FloorOf(targets, s) /\ v[s] = CapOf(targets, s)
    BY <1>1 DEF IsOver, IsFun, IsBounded
<1>3. TotalOf(u) <= One /\ TotalOf(v) >= One
    BY <1>1 DEF BoundsMeet
<1>4. PICK x, y : x = Lowered(w, targets, One) /\ y = Lowered(w, targets, -One)
    OBVIOUS
<1>5. -One \in Int
    OBVIOUS
<1>6. /\ IsOver(x, D) /\ IsOver(y, D)
      /\ \A s \in D : /\ x[s] = Clip(w[s] - One, FloorOf(targets, s), CapOf(targets, s))
                      /\ y[s] = Clip(w[s] - (-One), FloorOf(targets, s), CapOf(targets, s))
    <2>1. IsOver(x, D) /\ \A s \in D : x[s] = Clip(w[s] - One, FloorOf(targets, s), CapOf(targets, s))
        BY <1>4, LoweredGives
    <2>2. PICK by \in Int : by = -One
        BY <1>5
    <2>3. IsOver(y, D) /\ \A s \in D : y[s] = Clip(w[s] - by, FloorOf(targets, s), CapOf(targets, s))
        BY <1>4, <2>2, LoweredGives
    <2>4. QED BY <2>1, <2>2, <2>3
<1>7. ASSUME NEW s \in D PROVE x[s] = u[s] /\ y[s] = v[s]
    <2>1. PICK low \in Int, high \in Int, a \in Int :
              /\ low = FloorOf(targets, s) /\ high = CapOf(targets, s) /\ a = w[s]
              /\ 0 <= low /\ low <= high /\ high <= One /\ 0 <= a /\ a <= One
        BY DEF IsBounded, IsOver
    <2>2. a - One \in Int /\ a - One <= low /\ a - (-One) \in Int /\ a - (-One) >= high
        BY <2>1
    <2>3. Clip(a - One, low, high) = low /\ Clip(a - (-One), low, high) = high
        <3>1. PICK under \in Int, over \in Int :
                  under = a - One /\ over = a - (-One) /\ under <= low /\ over >= high
            BY <2>2
        <3>2. Clip(under, low, high) = low
            BY <2>1, <3>1, ClipKeeps
        <3>3. Clip(over, low, high) = high
            BY <2>1, <3>1, ClipKeeps
        <3>4. QED BY <3>1, <3>2, <3>3, Zenon
    <2>4. x[s] = Clip(a - One, low, high) /\ y[s] = Clip(a - (-One), low, high)
        BY <1>6, <2>1, Zenon
    <2>5. u[s] = low /\ v[s] = high
        BY <1>2, <2>1, Zenon
    <2>6. QED BY <2>3, <2>4, <2>5, Zenon
<1>8. x = u /\ y = v
    BY <1>2, <1>6, <1>7 DEF IsOver, IsFun
<1>9. QED BY <1>3, <1>4, <1>8

LEMMA ProjectionMeets ==
    ASSUME NEW D, IsFiniteSet(D), NEW w, IsOver(w, D), NEW targets, IsBounded(targets, D),
           NEW q \in Nat, q > 0, OnGridAll(targets, D, q), \A s \in D : OnGrid(w[s], q),
           One \in Nat, One > 0, SharedEvenly(Cardinality(D), q),
           \A s \in D : 0 <= w[s] /\ w[s] <= One, BoundsMeet(targets, D)
    PROVE  \E by \in (IF TotalOf(Lowered(w, targets, 0)) >= One THEN 0..One ELSE (-One)..(-1)) :
               TotalOf(Lowered(w, targets, by)) = One
<1>1. /\ TotalOf(Lowered(w, targets, One)) <= One
      /\ TotalOf(Lowered(w, targets, -One)) >= One
    <2>1. One \in Int
        OBVIOUS
    <2>2. QED BY <2>1, TotalEnds
<1>2. \A by \in Int : TotalOf(Lowered(w, targets, by)) \in Int
    BY LoweredIs
<1>3. \A by \in Int : /\ TotalOf(Lowered(w, targets, by)) >= One
                      /\ TotalOf(Lowered(w, targets, by + 1)) < One
                      => TotalOf(Lowered(w, targets, by)) = One
    <2>1. One \in Int
        OBVIOUS
    <2>2. QED BY <2>1, TotalMeets
<1>4. CASE TotalOf(Lowered(w, targets, 0)) >= One
    <2> DEFINE S == {by \in 0..One : TotalOf(Lowered(w, targets, by)) >= One}
    <2>1. S \in SUBSET Int /\ IsFiniteSet(S) /\ S # {}
        <3>1. 0 \in Int /\ One \in Int /\ IsFiniteSet(0..One)
            BY FS_Interval
        <3>2. IsFiniteSet(S)
            BY <3>1, FS_Subset
        <3>3. 0 \in S
            BY <1>4
        <3>4. QED BY <3>2, <3>3
    <2>2. PICK by \in S : \A y \in S : by >= y
        <3> HIDE DEF S
        <3>1. QED BY <2>1, MaxIsGreatest
    <2>3. CASE by = One
        BY <1>1, <1>2, <2>2, <2>3, <1>4
    <2>4. CASE by # One
        <3>1. by + 1 \in 0..One /\ by + 1 \notin S
            BY <2>2, <2>4
        <3>2. by \in Int /\ by + 1 \in Int
            BY <2>2
        <3>3. TotalOf(Lowered(w, targets, by + 1)) < One
            BY <1>2, <3>1, <3>2
        <3>4. TotalOf(Lowered(w, targets, by)) = One
            BY <1>3, <2>2, <3>2, <3>3
        <3>5. QED BY <1>4, <2>2, <3>4
    <2>5. QED BY <2>3, <2>4
<1>5. CASE ~ (TotalOf(Lowered(w, targets, 0)) >= One)
    <2> DEFINE S == {by \in (-One)..(-1) : TotalOf(Lowered(w, targets, by)) >= One}
    <2>1. S \in SUBSET Int /\ IsFiniteSet(S) /\ S # {}
        <3>1. -One \in Int /\ -1 \in Int /\ IsFiniteSet((-One)..(-1))
            BY FS_Interval
        <3>2. IsFiniteSet(S)
            BY <3>1, FS_Subset
        <3>3. -One \in S
            BY <1>1
        <3>4. QED BY <3>2, <3>3
    <2>2. PICK by \in S : \A y \in S : by >= y
        <3> HIDE DEF S
        <3>1. QED BY <2>1, MaxIsGreatest
    <2>3. by \in Int /\ by + 1 \in Int
        BY <2>2
    <2>4. TotalOf(Lowered(w, targets, by + 1)) < One
        <3>1. CASE by = -1
            <4>1. by + 1 = 0
                BY <3>1
            <4>2. TotalOf(Lowered(w, targets, 0)) \in Int
                BY <1>2
            <4>3. QED BY <1>5, <4>1, <4>2
        <3>2. CASE by # -1
            <4>1. by + 1 \in (-One)..(-1) /\ by + 1 \notin S
                BY <2>2, <3>2
            <4>2. QED BY <1>2, <2>3, <4>1
        <3>3. QED BY <3>1, <3>2
    <2>5. TotalOf(Lowered(w, targets, by)) = One
        BY <1>3, <2>2, <2>3, <2>4
    <2>6. QED BY <1>5, <2>2, <2>5
<1>6. QED BY <1>4, <1>5

(* Whatever weights it is given, up to the whole book each, the projection *)
(* returns weights inside every bound that sum to the whole book.          *)
LEMMA ProjectionIsIn ==
    ASSUME NEW D, IsFiniteSet(D), NEW w, IsOver(w, D), NEW targets, IsBounded(targets, D),
           NEW q \in Nat, q > 0, OnGridAll(targets, D, q), \A s \in D : OnGrid(w[s], q),
           One \in Nat, One > 0, SharedEvenly(Cardinality(D), q),
           \A s \in D : 0 <= w[s] /\ w[s] <= One, BoundsMeet(targets, D)
    PROVE  InPolicy(Project(w, targets), targets) /\ IsOver(Project(w, targets), D)
<1> DEFINE side == IF TotalOf(Lowered(w, targets, 0)) >= One THEN 0..One ELSE (-One)..(-1)
<1>1. \E by \in side : TotalOf(Lowered(w, targets, by)) = One
    BY ProjectionMeets
<1>2. side \subseteq Int
    OBVIOUS
<1>3. PICK by \in Int : TotalOf(Lowered(w, targets, by)) = One
                        /\ Project(w, targets) = Lowered(w, targets, by)
    <2> HIDE DEF side
    <2>1. PICK by : by = CHOOSE b \in side : TotalOf(Lowered(w, targets, b)) = One
        OBVIOUS
    <2>2. by \in side /\ TotalOf(Lowered(w, targets, by)) = One
        BY <1>1, <2>1, Zenon
    <2>3. Project(w, targets) = Lowered(w, targets, by)
        BY <2>1, Zenon DEF Project, side
    <2>4. QED BY <1>2, <2>2, <2>3
<1>4. PICK v : v = Project(w, targets)
    OBVIOUS
<1>5. IsOver(v, D) /\ \A s \in D : FloorOf(targets, s) <= v[s] /\ v[s] <= CapOf(targets, s)
    BY <1>3, <1>4, LoweredGives
<1>6. TotalOf(v) = One /\ DOMAIN v = D
    BY <1>3, <1>4, <1>5 DEF IsOver
<1>7. QED BY <1>4, <1>5, <1>6 DEF InPolicy

(* The projection changes nothing that is in the policy already.           *)
LEMMA ProjectionStays ==
    ASSUME NEW D, IsFiniteSet(D), NEW w, IsOver(w, D), NEW targets, IsBounded(targets, D),
           One \in Nat, InPolicy(w, targets)
    PROVE  Project(w, targets) = w
<1>1. TotalOf(w) = One /\ \A s \in D : FloorOf(targets, s) <= w[s] /\ w[s] <= CapOf(targets, s)
    BY DEF InPolicy, IsOver
<1>2. ASSUME NEW s \in D, NEW by \in Nat
      PROVE  /\ Lowered(w, targets, by)[s] <= w[s]
             /\ by = 0 => Lowered(w, targets, by)[s] = w[s]
    <2>1. PICK x \in Int, low \in Int, high \in Int :
              /\ x = w[s] /\ low = FloorOf(targets, s) /\ high = CapOf(targets, s)
              /\ low <= x /\ x <= high
        BY <1>1 DEF IsOver, IsBounded
    <2>2. Lowered(w, targets, by)[s] = Clip(x - by, low, high)
        BY <2>1, LoweredIs
    <2>3. Clip(x, low, high) = x /\ Clip(x - by, low, high) <= Clip(x, low, high)
        <3>1. x - by \in Int /\ x - by <= x /\ low <= high
            BY <2>1
        <3>2. QED BY <2>1, <3>1, ClipKeeps, ClipOrders
    <2>4. by = 0 => x - by = x
        OBVIOUS
    <2>5. QED BY <2>1, <2>2, <2>3, <2>4
<1>3. Lowered(w, targets, 0) = w
    <2>1. IsOver(Lowered(w, targets, 0), D)
        BY LoweredIs
    <2>2. \A s \in D : Lowered(w, targets, 0)[s] = w[s]
        BY <1>2
    <2>3. PICK v : v = Lowered(w, targets, 0)
        OBVIOUS
    <2>4. v = w
        BY <2>1, <2>2, <2>3 DEF IsOver, IsFun
    <2>5. QED BY <2>3, <2>4
<1>4. PICK by : /\ by \in 0..One /\ TotalOf(Lowered(w, targets, by)) = One
                /\ Project(w, targets) = Lowered(w, targets, by)
    <2>1. TotalOf(Lowered(w, targets, 0)) >= One /\ 0 \in 0..One
        BY <1>1, <1>3
    <2>2. \E b \in 0..One : TotalOf(Lowered(w, targets, b)) = One
        BY <1>1, <1>3, <2>1
    <2>3. PICK by : by = CHOOSE b \in 0..One : TotalOf(Lowered(w, targets, b)) = One
        OBVIOUS
    <2>4. by \in 0..One /\ TotalOf(Lowered(w, targets, by)) = One
        BY <2>2, <2>3, Zenon
    <2>5. Project(w, targets) = Lowered(w, targets, by)
        BY <2>1, <2>3, Zenon DEF Project
    <2>6. QED BY <2>4, <2>5
<1>5. PICK v : v = Lowered(w, targets, by)
    OBVIOUS
<1>6. by \in Int /\ by \in Nat
    BY <1>4
<1>7. IsOver(v, D) /\ \A s \in D : v[s] <= w[s]
    BY <1>2, <1>5, <1>6, LoweredIs
<1>8. TotalOf(v) = TotalOf(w)
    BY <1>1, <1>4, <1>5
<1>9. v = w
    BY <1>7, <1>8, TotalsOrder
<1>10. QED BY <1>4, <1>5, <1>9

(* Part of the way: the budget pays for budget of far.                     *)
LEMMA Cancelled ==
    ASSUME NEW x \in Int, NEW y \in Int, NEW k \in Nat, k > 0, x * k = y * k
    PROVE  x = y
<1>1. ~ (x < y) /\ ~ (y < x)
    <2>1. PICK a \in Int : a = x * k /\ a = y * k
        OBVIOUS
    <2>2. ~ (a < a)
        OBVIOUS
    <2>3. QED BY <2>1, <2>2, ProductsOrder
<1>2. QED BY <1>1

LEMMA PartOfMore ==
    ASSUME NEW budget \in Nat, NEW far \in Nat, 0 < budget, budget < far,
           NEW d \in Nat, NEW e \in Int, e * far = d * budget
    PROVE  0 <= e /\ e <= d
<1>1. PICK a \in Int, b \in Int, c \in Int : a = e * far /\ b = d * budget /\ c = d * far /\ a = b
    OBVIOUS
<1>2. 0 * budget <= d * budget /\ 0 * budget = 0 /\ 0 * far = 0
    BY ProductGrows
<1>3. ~ (e < 0)
    <2>1. SUFFICES ASSUME e < 0 PROVE FALSE
        OBVIOUS
    <2>2. e * far < 0 * far
        BY <2>1, ProductGrowsStrictly
    <2>3. QED BY <1>1, <1>2, <2>2
<1>4. b <= c
    <2>1. budget * d <= far * d
        BY ProductGrows
    <2>2. budget * d = d * budget /\ far * d = d * far
        OBVIOUS
    <2>3. QED BY <1>1, <2>1, <2>2
<1>5. ~ (d < e)
    <2>1. SUFFICES ASSUME d < e PROVE FALSE
        OBVIOUS
    <2>2. d * far < e * far
        BY <2>1, ProductGrowsStrictly
    <2>3. QED BY <1>1, <1>4, <2>2
<1>6. QED BY <1>3, <1>5

IsPart(d, e, far, budget) ==
    /\ d >= 0 => 0 <= e /\ e <= d
    /\ d <= 0 => d <= e /\ e <= 0
    /\ Magnitude(e) * far = Magnitude(d) * budget
    /\ Magnitude(d) \in Nat /\ Magnitude(e) \in Nat

LEMMA PartOfWay ==
    ASSUME NEW budget \in Nat, NEW far \in Nat, 0 < budget, budget < far,
           NEW d \in Int, NEW e \in Int, e * far = d * budget
    PROVE  IsPart(d, e, far, budget)
<1>1. PICK c \in Int, f \in Int : c = -d /\ f = -e
    OBVIOUS
<1>2. f * far = c * budget
    <2>1. f * far = -(e * far) /\ c * budget = -(d * budget)
        BY <1>1
    <2>2. QED BY <2>1
<1>3. d >= 0 => 0 <= e /\ e <= d
    BY PartOfMore
<1>4. d <= 0 => 0 <= f /\ f <= c
    <2>1. ASSUME d <= 0 PROVE c \in Nat
        BY <1>1, <2>1
    <2>2. QED BY <1>2, <2>1, PartOfMore
<1>5. CASE d >= 0
    <2>1. 0 <= e /\ e <= d
        BY <1>3, <1>5
    <2>2. Magnitude(d) = d /\ Magnitude(e) = e
        BY <1>5, <2>1 DEF Magnitude
    <2>3. d <= 0 => d = 0 /\ e = 0
        BY <1>5, <2>1
    <2>4. QED BY <1>5, <2>1, <2>2, <2>3 DEF IsPart
<1>6. CASE ~ (d >= 0)
    <2>1. 0 <= f /\ f <= c /\ c > 0
        BY <1>1, <1>4, <1>6
    <2>2. Magnitude(d) = c
        BY <1>1, <1>6 DEF Magnitude
    <2>3. Magnitude(e) = f
        BY <1>1, <2>1 DEF Magnitude
    <2>4. QED BY <1>1, <1>2, <1>6, <2>1, <2>2, <2>3 DEF IsPart
<1>7. QED BY <1>5, <1>6

(* A turnover is the total of what every sleeve moves.                     *)
LEMMA TurnoverIs ==
    ASSUME NEW D, IsFiniteSet(D), NEW u, NEW v, IsOver(u, D), IsOver(v, D),
           NEW m, IsOver(m, D), \A s \in D : m[s] = Magnitude(v[s] - u[s])
    PROVE  Turnover(u, v) = TotalOf(m)
<1>1. PICK n : n = [s \in DOMAIN v |-> Magnitude(v[s] - u[s])]
    OBVIOUS
<1>2. Turnover(u, v) = TotalOf(n)
    BY <1>1, Zenon DEF Turnover
<1>3. n = m
    BY <1>1 DEF IsOver, IsFun
<1>4. QED BY <1>2, <1>3

(* e is what budget pays for of the way from cur to opt.                   *)
PaidFor(e, cur, opt, budget, far, D) ==
    \A s \in D : e[s] * far = (opt[s] - cur[s]) * budget

Between(cur, x, opt, D) ==
    \A s \in D : \/ cur[s] <= x[s] /\ x[s] <= opt[s]
                 \/ cur[s] >= x[s] /\ x[s] >= opt[s]

LEMMA MovesPartWay ==
    ASSUME NEW D, IsFiniteSet(D), NEW cur, NEW opt, NEW e, NEW x,
           IsOver(cur, D), IsOver(opt, D), IsOver(e, D), IsOver(x, D),
           TotalOf(cur) = TotalOf(opt), NEW budget \in Nat, NEW far \in Nat,
           far = Turnover(cur, opt), 0 < budget, budget < far,
           PaidFor(e, cur, opt, budget, far, D), \A s \in D : x[s] = cur[s] + e[s]
    PROVE  TotalOf(x) = TotalOf(cur) /\ Between(cur, x, opt, D) /\ Turnover(cur, x) = budget
<1>1. PICK d : d = [s \in D |-> opt[s] - cur[s]]
    OBVIOUS
<1>2. IsOver(d, D) /\ \A s \in D : d[s] = opt[s] - cur[s]
    BY <1>1 DEF IsOver, IsFun
<1>3. PICK y : y = [s \in D |-> d[s] * budget]
    OBVIOUS
<1>4. IsOver(y, D) /\ \A s \in D : y[s] = d[s] * budget
    BY <1>2, <1>3 DEF IsOver, IsFun
<1>5. \A s \in D : e[s] * far = d[s] * budget
    BY <1>2 DEF PaidFor
<1>6. TotalOf(y) = TotalOf(d) * budget
    BY <1>2, <1>4, TotalScales
<1>7. TotalOf(y) = TotalOf(e) * far
    <2>1. \A s \in D : y[s] = e[s] * far
        BY <1>4, <1>5
    <2>2. far \in Int
        OBVIOUS
    <2>3. QED BY <1>4, <2>1, <2>2, TotalScales
<1>8. PICK tc \in Int, to \in Int, td \in Int, te \in Int, tx \in Int :
          /\ tc = TotalOf(cur) /\ to = TotalOf(opt) /\ td = TotalOf(d)
          /\ te = TotalOf(e) /\ tx = TotalOf(x)
    BY <1>2, OverIsSummed
<1>9. to = tc + td
    <2>1. \A s \in D : opt[s] = cur[s] + d[s]
        BY <1>2 DEF IsOver
    <2>2. TotalOf(opt) = TotalOf(cur) + TotalOf(d)
        BY <1>2, <2>1, OversAdd
    <2>3. QED BY <1>8, <2>2
<1>10. tx = tc + te
    <2>1. TotalOf(x) = TotalOf(cur) + TotalOf(e)
        BY OversAdd
    <2>2. QED BY <1>8, <2>1
<1>11. te = 0
    <2>1. td = 0
        BY <1>8, <1>9
    <2>2. te * far = 0 * far
        BY <1>6, <1>7, <1>8, <2>1
    <2>3. far > 0
        OBVIOUS
    <2>4. QED BY <2>2, <2>3, Cancelled
<1>12. TotalOf(x) = TotalOf(cur)
    BY <1>8, <1>10, <1>11
<1>13. ASSUME NEW s \in D
       PROVE  IsPart(d[s], e[s], far, budget)
    <2>1. PICK a \in Int, b \in Int : a = d[s] /\ b = e[s]
        BY <1>2 DEF IsOver
    <2>2. b * far = a * budget
        BY <1>5, <2>1
    <2>3. QED BY <2>1, <2>2, PartOfWay
<1>14. Between(cur, x, opt, D)
    <2>1. ASSUME NEW s \in D
          PROVE  \/ cur[s] <= x[s] /\ x[s] <= opt[s]
                 \/ cur[s] >= x[s] /\ x[s] >= opt[s]
        <3>1. PICK a \in Int, b \in Int, c \in Int, o \in Int, z \in Int :
                  a = d[s] /\ b = e[s] /\ c = cur[s] /\ o = opt[s] /\ z = x[s]
            BY <1>2 DEF IsOver
        <3>2. a = o - c /\ z = c + b
            BY <1>2, <3>1
        <3>3. (a >= 0 => 0 <= b /\ b <= a) /\ (a <= 0 => a <= b /\ b <= 0)
            BY <1>13, <3>1 DEF IsPart
        <3>4. QED BY <3>1, <3>2, <3>3
    <2>2. QED BY <2>1 DEF Between
<1>15. Turnover(cur, x) = budget
    <2>1. PICK m, n, y2 : /\ m = [s \in D |-> Magnitude(e[s])] /\ n = [s \in D |-> Magnitude(d[s])]
                          /\ y2 = [s \in D |-> Magnitude(d[s]) * budget]
        OBVIOUS
    <2>2. /\ IsOver(m, D) /\ IsOver(n, D)
          /\ \A s \in D : m[s] = Magnitude(e[s]) /\ n[s] = Magnitude(d[s])
        BY <1>13, <2>1 DEF IsOver, IsFun, IsPart
    <2>3. IsOver(y2, D) /\ \A s \in D : y2[s] = n[s] * budget
        BY <1>13, <2>1 DEF IsOver, IsFun, IsPart
    <2>4. \A s \in D : y2[s] = m[s] * far
        BY <1>13, <2>2, <2>3 DEF IsPart
    <2>5. TotalOf(y2) = TotalOf(n) * budget
        BY <2>2, <2>3, TotalScales
    <2>6. TotalOf(y2) = TotalOf(m) * far
        <3>1. far \in Int
            OBVIOUS
        <3>2. QED BY <2>2, <2>3, <2>4, <3>1, TotalScales
    <2>7. far = TotalOf(n)
        <3>1. \A s \in D : n[s] = Magnitude(opt[s] - cur[s])
            BY <1>2, <2>2
        <3>2. QED BY <2>2, <3>1, TurnoverIs
    <2>8. Turnover(cur, x) = TotalOf(m)
        <3>1. \A s \in D : e[s] = x[s] - cur[s]
            BY DEF IsOver
        <3>2. \A s \in D : m[s] = Magnitude(x[s] - cur[s])
            BY <2>2, <3>1
        <3>3. QED BY <2>2, <3>2, TurnoverIs
    <2>9. PICK t \in Int : t = TotalOf(m)
        BY <2>2, OverIsSummed
    <2>10. t * far = budget * far
        BY <2>5, <2>6, <2>7, <2>9
    <2>11. far > 0 /\ budget \in Int
        OBVIOUS
    <2>12. QED BY <2>8, <2>9, <2>10, <2>11, Cancelled
<1>16. QED BY <1>12, <1>14, <1>15

-----------------------------------------------------------------------------
(* The advice itself.                                                      *)

LEMMA RebalanceIs ==
    ASSUME NEW worth, NEW targets, NEW budget, NEW optimum, NEW universe,
           universe = DOMAIN worth \cup DOMAIN targets, NEW current,
           current = CurrentWeights(worth, universe), NEW target,
           target = Advised(current, optimum, targets, budget),
           TotalOf(worth) > 0, TotalOf(worth) \in Int, BoundsMeet(targets, universe),
           TotalOf(target) = One, IsNoFunction(Infeasible), NEW answer,
           answer = RunMvRebalance(worth, targets, budget, optimum)
    PROVE  /\ answer # Infeasible
           /\ answer.current = current /\ answer.target = target
           /\ answer.turnover = Turnover(current, target)
           /\ answer.cut = (budget # NoBudget /\ Turnover(current, optimum) > budget)
<1> DEFINE given == [current |-> current, target |-> target, turnover |-> Turnover(current, target),
                      cut |-> budget # NoBudget /\ Turnover(current, optimum) > budget,
                      unbounded |-> universe \ DOMAIN targets,
                      binding |-> {s \in DOMAIN targets :
                                      target[s] \in {targets[s].min, targets[s].max}}]
<1>1. RunMvRebalance(worth, targets, budget, optimum) =
          IF TotalOf(worth) <= 0 \/ ~ BoundsMeet(targets, universe) THEN Infeasible
          ELSE IF TotalOf(target) # One THEN Infeasible ELSE given
    BY Zenon DEF RunMvRebalance
<1>2. Infeasible # given
    BY NoRecordIs
<1>3. ~ (TotalOf(worth) <= 0)
    OBVIOUS
<1>4. /\ given.current = current /\ given.target = target
      /\ given.turnover = Turnover(current, target)
      /\ given.cut = (budget # NoBudget /\ Turnover(current, optimum) > budget)
    BY Zenon
<1> HIDE DEF given
<1>5. answer = given
    BY <1>1, <1>3, Zenon
<1>6. QED BY <1>2, <1>4, <1>5, Zenon

(* A book, an optimum and bounds it can be advised within.                 *)
IsBalanced(current, optimum, targets, D, q) ==
    /\ IsFiniteSet(D) /\ IsOver(current, D) /\ IsOver(optimum, D)
    /\ TotalOf(current) = One /\ \A s \in D : 0 <= current[s] /\ current[s] <= One
    /\ \A s \in D : OnGrid(current[s], q)
    /\ InPolicy(optimum, targets) /\ BoundsMeet(targets, D)
    /\ IsBounded(targets, D) /\ OnGridAll(targets, D, q) /\ SharedEvenly(Cardinality(D), q)

(* What is advised.                                                        *)
IsAdvised(target, current, optimum, targets, budget, D) ==
    /\ InPolicy(target, targets)
    /\ InPolicy(current, targets) =>
          /\ Between(current, target, optimum, D)
          /\ Turnover(current, target) =
                 IF budget # NoBudget /\ Turnover(current, optimum) > budget
                 THEN budget ELSE Turnover(current, optimum)

LEMMA WholeWay ==
    ASSUME NEW current, NEW optimum, NEW targets, NEW D, NEW q, IsBalanced(current, optimum, targets, D, q),
           NEW budget, budget = NoBudget \/ (Turnover(current, optimum) <= budget /\ budget \in Int)
    PROVE  IsAdvised(optimum, current, optimum, targets, budget, D)
<1>1. Turnover(current, optimum) \in Int
    <2>1. PICK m : m = [s \in D |-> Magnitude(optimum[s] - current[s])]
        OBVIOUS
    <2>2. \A s \in D : optimum[s] \in Int /\ current[s] \in Int
        BY DEF IsBalanced, IsOver
    <2>3. IsOver(m, D) /\ \A s \in D : m[s] = Magnitude(optimum[s] - current[s])
        BY <2>1, <2>2 DEF IsOver, IsFun, Magnitude
    <2>4. IsFiniteSet(D) /\ IsOver(current, D) /\ IsOver(optimum, D)
        BY DEF IsBalanced
    <2>5. Turnover(current, optimum) = TotalOf(m)
        BY <2>3, <2>4, TurnoverIs
    <2>6. TotalOf(m) \in Int
        BY <2>3, <2>4, OverIsSummed
    <2>7. QED BY <2>5, <2>6
<1>2. ~ (budget # NoBudget /\ Turnover(current, optimum) > budget)
    BY <1>1
<1>3. Between(current, optimum, optimum, D)
    BY DEF Between, IsBalanced, IsOver
<1>4. InPolicy(optimum, targets)
    BY DEF IsBalanced
<1>5. QED BY <1>2, <1>3, <1>4, Zenon DEF IsAdvised

LEMMA GridSum ==
    ASSUME NEW x \in Int, NEW y \in Int, NEW q \in Int, OnGrid(x, q), OnGrid(y, q),
           NEW z, z = x + y
    PROVE  OnGrid(z, q)
<1>1. PICK i \in Int, j \in Int : x = i * q /\ y = j * q
    BY DEF OnGrid
<1>2. z = (i + j) * q /\ i + j \in Int
    BY <1>1
<1>3. QED BY <1>2 DEF OnGrid

LEMMA PartPaid ==
    ASSUME NEW d \in Int, NEW e \in Int, NEW far \in Nat, far > 0, NEW budget \in Nat,
           e * far = d * budget
    PROVE  (budget * d) \div far = e
<1>1. PICK x \in Int : x = budget * d
    OBVIOUS
<1>2. budget * d = d * budget /\ (e + 1) * far = e * far + far
    OBVIOUS
<1>3. e * far <= x /\ x < (e + 1) * far
    <2>1. PICK y \in Int : y = e * far
        OBVIOUS
    <2>2. QED BY <1>1, <1>2, <2>1
<1>4. QED BY <1>1, <1>3, QuotientIs

(* What the budget pays for of the way, sleeve by sleeve, when it divides. *)
IsPaid(e, current, optimum, budget, D, q) ==
    /\ IsOver(e, D) /\ PaidFor(e, current, optimum, budget, Turnover(current, optimum), D)
    /\ \A s \in D : OnGrid(e[s], q)

(* From a book in its policy the target is on the way, as far as is paid.  *)
IsPartly(target, current, optimum, targets, budget, D) ==
    /\ InPolicy(target, targets)
    /\ InPolicy(current, targets) =>
          Between(current, target, optimum, D) /\ Turnover(current, target) = budget

LEMMA PartWay ==
    ASSUME NEW current, NEW optimum, NEW targets, NEW D, NEW q \in Nat, q > 0,
           IsBalanced(current, optimum, targets, D, q), One \in Nat, One > 0,
           NEW budget \in Nat, budget > 0, NEW far \in Nat, far = Turnover(current, optimum),
           budget < far, NEW e, IsPaid(e, current, optimum, budget, D, q),
           NEW x, IsFun(x), DOMAIN x = D,
           \A s \in D : x[s] = current[s] + (budget * (optimum[s] - current[s])) \div far,
           NEW target, target = Project(x, targets)
    PROVE  IsPartly(target, current, optimum, targets, budget, D)
<1>1. /\ IsFiniteSet(D) /\ IsOver(current, D) /\ IsOver(optimum, D) /\ IsOver(e, D)
      /\ TotalOf(current) = One /\ InPolicy(optimum, targets) /\ TotalOf(optimum) = One
      /\ IsBounded(targets, D) /\ OnGridAll(targets, D, q) /\ SharedEvenly(Cardinality(D), q)
      /\ BoundsMeet(targets, D)
    BY DEF IsBalanced, IsPaid, InPolicy
<1>2. PaidFor(e, current, optimum, budget, far, D)
    BY DEF IsPaid
<1>3. ASSUME NEW s \in D PROVE x[s] = current[s] + e[s]
    <2>1. PICK d \in Int, p \in Int : d = optimum[s] - current[s] /\ p = e[s]
        BY <1>1 DEF IsOver
    <2>2. p * far = d * budget
        BY <1>2, <2>1 DEF PaidFor
    <2>3. (budget * d) \div far = p
        BY <2>2, PartPaid
    <2>4. x[s] = current[s] + (budget * (optimum[s] - current[s])) \div far
        OBVIOUS
    <2>5. QED BY <2>1, <2>3, <2>4
<1>4. IsOver(x, D)
    BY <1>1, <1>3 DEF IsOver
<1>5. TotalOf(x) = One /\ Between(current, x, optimum, D) /\ Turnover(current, x) = budget
    BY <1>1, <1>2, <1>3, <1>4, MovesPartWay
<1>6. ASSUME NEW s \in D PROVE 0 <= x[s] /\ x[s] <= One /\ OnGrid(x[s], q)
    <2>1. PICK c \in Int, o \in Int, z \in Int, p \in Int, low \in Int, high \in Int :
              /\ c = current[s] /\ o = optimum[s] /\ z = x[s] /\ p = e[s]
              /\ low = FloorOf(targets, s) /\ high = CapOf(targets, s)
        BY <1>1, <1>4 DEF IsOver, IsBounded
    <2>2. 0 <= c /\ c <= One /\ OnGrid(c, q) /\ OnGrid(p, q)
        BY <2>1 DEF IsBalanced, IsPaid
    <2>3. low <= o /\ o <= high /\ 0 <= low /\ high <= One
        BY <1>1, <2>1 DEF InPolicy, IsOver, IsBounded
    <2>4. \/ c <= z /\ z <= o
          \/ c >= z /\ z >= o
        BY <1>5, <2>1 DEF Between
    <2>5. OnGrid(z, q)
        <3>1. z = c + p
            BY <1>3, <2>1
        <3>2. q \in Int
            OBVIOUS
        <3>3. QED BY <2>2, <3>1, <3>2, GridSum
    <2>6. QED BY <2>1, <2>2, <2>3, <2>4, <2>5
<1>7. InPolicy(Project(x, targets), targets)
    BY <1>1, <1>4, <1>6, ProjectionIsIn
<1>8. ASSUME InPolicy(current, targets) PROVE Project(x, targets) = x
    <2>1. ASSUME NEW s \in D PROVE FloorOf(targets, s) <= x[s] /\ x[s] <= CapOf(targets, s)
        <3>1. PICK c \in Int, o \in Int, z \in Int, low \in Int, high \in Int :
                  /\ c = current[s] /\ o = optimum[s] /\ z = x[s]
                  /\ low = FloorOf(targets, s) /\ high = CapOf(targets, s)
            BY <1>1, <1>4 DEF IsOver, IsBounded
        <3>2. low <= o /\ o <= high /\ low <= c /\ c <= high
            BY <1>1, <1>8, <3>1 DEF InPolicy, IsOver
        <3>3. \/ c <= z /\ z <= o
              \/ c >= z /\ z >= o
            BY <1>5, <3>1 DEF Between
        <3>4. QED BY <3>1, <3>2, <3>3
    <2>2. InPolicy(x, targets)
        BY <1>5, <2>1 DEF InPolicy
    <2>3. QED BY <1>1, <1>4, <2>2, ProjectionStays
<1>9. QED BY <1>5, <1>7, <1>8, Zenon DEF IsPartly

(* Whatever the sleeves, the bounds and the optimum inside them, as long as*)
(* weights, budget and sleeves divide: the advised target is in the policy,*)
(* and from a book in its policy it goes straight towards the optimum as   *)
(* far as the budget allows (run_mv_rebalance, project_capped_simplex).    *)
THEOREM RebalancesKeepPolicy ==
    ASSUME NEW worth, TotalOf(worth) \in Int, TotalOf(worth) > 0, NEW targets, NEW optimum,
           NEW D, D = DOMAIN worth \cup DOMAIN targets, NEW current,
           current = CurrentWeights(worth, D), NEW q \in Nat, q > 0,
           IsBalanced(current, optimum, targets, D, q), One \in Nat, One > 0,
           NEW far \in Nat, far = Turnover(current, optimum), NEW budget,
           budget # NoBudget => /\ budget \in Nat /\ budget > 0
                                /\ budget < far => \E e : IsPaid(e, current, optimum, budget, D, q),
           IsNoFunction(Infeasible), NEW answer,
           answer = RunMvRebalance(worth, targets, budget, optimum)
    PROVE  answer # Infeasible /\ KeepsPolicy(answer, targets, optimum, budget)
<1>1. PICK target : target = Advised(current, optimum, targets, budget)
    OBVIOUS
<1>2. IsAdvised(target, current, optimum, targets, budget, D)
    <2>1. CASE budget = NoBudget \/ Turnover(current, optimum) <= budget
        <3>1. target = optimum
            BY <1>1, <2>1, Zenon DEF Advised
        <3>2. budget = NoBudget \/ (Turnover(current, optimum) <= budget /\ budget \in Int)
            BY <2>1
        <3>3. QED BY <3>1, <3>2, WholeWay
    <2>2. CASE ~ (budget = NoBudget \/ Turnover(current, optimum) <= budget)
        <3>1. budget # NoBudget /\ budget \in Nat /\ budget > 0 /\ budget < far
            BY <2>2
        <3>2. PICK e : IsPaid(e, current, optimum, budget, D, q)
            BY <3>1
        <3>3. PICK x : x = [s \in DOMAIN current |-> current[s]
                               + (budget * (optimum[s] - current[s])) \div Turnover(current, optimum)]
            OBVIOUS
        <3>4. target = Project(x, targets)
            BY <1>1, <2>2, <3>3, Zenon DEF Advised
        <3>5. /\ IsFun(x) /\ DOMAIN x = D
              /\ \A s \in D : x[s] = current[s] + (budget * (optimum[s] - current[s])) \div far
            BY <3>3 DEF IsBalanced, IsOver, IsFun
        <3>6. IsPartly(target, current, optimum, targets, budget, D)
            BY <3>1, <3>2, <3>4, <3>5, PartWay
        <3>7. Turnover(current, optimum) > budget
            BY <3>1
        <3>8. QED BY <3>1, <3>6, <3>7, Zenon DEF IsAdvised, IsPartly
    <2>3. QED BY <2>1, <2>2
<1>3. TotalOf(target) = One /\ BoundsMeet(targets, D)
    BY <1>2 DEF IsAdvised, InPolicy, IsBalanced
<1>4. /\ answer # Infeasible
      /\ answer.current = current /\ answer.target = target
      /\ answer.turnover = Turnover(current, target)
      /\ answer.cut = (budget # NoBudget /\ Turnover(current, optimum) > budget)
    BY <1>1, <1>3, RebalanceIs
<1>5. ASSUME InPolicy(answer.current, targets) PROVE OnTheWay(answer, optimum, budget)
    <2>1. InPolicy(current, targets)
        BY <1>4, <1>5
    <2>2. /\ Between(current, target, optimum, D)
          /\ Turnover(current, target) =
                 IF budget # NoBudget /\ Turnover(current, optimum) > budget
                 THEN budget ELSE Turnover(current, optimum)
        BY <1>2, <2>1, Zenon DEF IsAdvised
    <2>3. DOMAIN optimum = D
        BY DEF IsBalanced, IsOver
    <2>4. \A s \in DOMAIN optimum :
              \/ answer.current[s] <= answer.target[s] /\ answer.target[s] <= optimum[s]
              \/ answer.current[s] >= answer.target[s] /\ answer.target[s] >= optimum[s]
        BY <1>4, <2>2, <2>3, Zenon DEF Between
    <2>5. answer.turnover = IF answer.cut THEN budget ELSE Turnover(answer.current, optimum)
        BY <1>4, <2>2, Zenon
    <2>6. QED BY <2>4, <2>5, Zenon DEF OnTheWay
<1>6. InPolicy(answer.target, targets)
    BY <1>2, <1>4, Zenon DEF IsAdvised
<1>7. QED BY <1>4, <1>5, <1>6, Zenon DEF KeepsPolicy

-----------------------------------------------------------------------------
(* The answers. A result is that of the computation asked for, of an input *)
(* that was given.                                                         *)
AnswerInv ==
    /\ Given
    /\ result # NotYet =>
          /\ input.of = "file" => result = Breaks(input.rows, input.books)
          /\ input.of = "chains" => result = AssignChains(input.lots, Group, input.sales)
          /\ input.of = "harvest" =>
                result = [all |-> TaxAwareOptimizer(input.lots, Group, input.policy, Today),
                          mip |-> MipOptimizer(input.lots, Group, input.policy, Today)]
          /\ input.of = "evidence" =>
                result = [report |-> PerformanceReport(input.evidence, input.asOf),
                          stats |-> StatsDaily(input.evidence, input.asOf)]
          /\ input.of = "rebalance" =>
                result = RunMvRebalance(input.worth, input.targets, input.budget, input.optimum)
          /\ input.of = "reading" =>
                result = [panel |-> Watch(input.lots, Today),
                          flags |-> FlagNonPerforming(input.lots, input.funds, One \div 2, Today)]
          /\ input.of = "advice" =>
                result = Advise(input.lots, input.funds, input.policy, input.risk,
                                input.optimum, GroupOf, Today)
          /\ input.of = "requests" => result = Panels(input.list)
          /\ input.of = "overlay" => result = EvaluateRisk(input.portfolio, input.overlay)
          /\ input.of = "request" =>
                LET outcome == EvaluateRiskJson(input.raw, input.settings, input.up)
                IN  result = [reply |-> outcome.reply, sent |-> outcome.sent,
                              checks |-> RunInfraChecks(input.site, input.settings)]
          /\ input.of = "panel" =>
                result = LoadRiskDashboard(input.lots, input.funds, input.demo,
                                           input.settings, input.up)
          /\ input.of = "report" => result = BuildReport(input.household, input.asOf, Now)
          /\ input.of = "message" => result = DispatchMessage(input.context, input.message)
          /\ input.of = "events" => result = EmitAll(input.events, input.subscribers)

LEMMA KindsApart ==
    /\ Files => input.of = "file"
    /\ Chains => input.of = "chains"
    /\ Harvests => input.of = "harvest"
    /\ Evidence => input.of = "evidence"
    /\ Rebalances => input.of = "rebalance"
    /\ Readings => input.of = "reading"
    /\ Consultations => input.of = "advice"
    /\ Requests => input.of = "requests"
    /\ Overlaid => input.of = "overlay"
    /\ RiskRequests => input.of = "request"
    /\ RiskPanels => input.of = "panel"
    /\ Reports => input.of = "report"
    /\ Messages => input.of = "message"
    /\ Emissions => input.of = "events"
<1>1. Files => input.of = "file"
    BY DEF Files
<1>2. Chains => input.of = "chains"
    BY DEF Chains
<1>3. Harvests => input.of = "harvest"
    BY DEF Harvests
<1>4. Evidence => input.of = "evidence"
    BY DEF Evidence
<1>5. Rebalances => input.of = "rebalance"
    BY DEF Rebalances
<1>6. Readings => input.of = "reading"
    BY DEF Readings
<1>7. Consultations => input.of = "advice"
    BY DEF Consultations
<1>8. Requests => input.of = "requests"
    BY DEF Requests
<1>9. Overlaid => input.of = "overlay"
    BY DEF Overlaid
<1>10. RiskRequests => input.of = "request"
    BY DEF RiskRequests
<1>11. RiskPanels => input.of = "panel"
    BY DEF RiskPanels
<1>12. Reports => input.of = "report"
    <2>1. Reports => \E asOf, household :
                        input = [of |-> "report", asOf |-> asOf, household |-> household]
        BY Zenon DEF Reports
    <2>2. QED BY <2>1
<1>13. Messages => input.of = "message"
    BY DEF Messages
<1>14. Emissions => input.of = "events"
    BY DEF Emissions
<1>15. QED BY <1>1, <1>2, <1>3, <1>4, <1>5, <1>6, <1>7, <1>8, <1>9, <1>10, <1>11, <1>12, <1>13, <1>14

LEMMA GivenStays ==
    ASSUME Given, UNCHANGED input PROVE Given'
<1> USE DEF Given
<1>1. CASE "file" \in Computed /\ Files
    BY <1>1 DEF Files
<1>2. CASE "chains" \in Computed /\ Chains
    BY <1>2 DEF Chains
<1>3. CASE "harvest" \in Computed /\ Harvests
    BY <1>3 DEF Harvests
<1>4. CASE "evidence" \in Computed /\ Evidence
    BY <1>4 DEF Evidence
<1>5. CASE "rebalance" \in Computed /\ Rebalances
    BY <1>5 DEF Rebalances
<1>6. CASE "reading" \in Computed /\ Readings
    BY <1>6 DEF Readings
<1>7. CASE "advice" \in Computed /\ Consultations
    BY <1>7 DEF Consultations
<1>8. CASE "requests" \in Computed /\ Requests
    BY <1>8 DEF Requests
<1>9. CASE "overlay" \in Computed /\ Overlaid
    BY <1>9 DEF Overlaid
<1>10. CASE "request" \in Computed /\ RiskRequests
    BY <1>10 DEF RiskRequests
<1>11. CASE "panel" \in Computed /\ RiskPanels
    BY <1>11 DEF RiskPanels
<1>12. CASE "report" \in Computed /\ Reports
    BY <1>12 DEF Reports
<1>13. CASE "message" \in Computed /\ Messages
    BY <1>13 DEF Messages
<1>14. CASE "events" \in Computed /\ Emissions
    BY <1>14 DEF Emissions
<1>15. QED BY <1>1, <1>2, <1>3, <1>4, <1>5, <1>6, <1>7, <1>8, <1>9, <1>10, <1>11, <1>12, <1>13, <1>14

(* A result is computed once, from the input it is an answer to.           *)
LEMMA AnswerStep == AnswerInv /\ [Next]_vars => AnswerInv'
<1> SUFFICES ASSUME AnswerInv, [Next]_vars PROVE AnswerInv'
    OBVIOUS
<1>1. UNCHANGED input
    BY DEF Next, vars
<1>2. Given'
    BY <1>1, GivenStays DEF AnswerInv
<1>3. CASE UNCHANGED vars
    BY <1>2, <1>3 DEF AnswerInv, vars
<1>4. CASE Next
    BY <1>1, <1>2, <1>4 DEF AnswerInv, Next, Reconcile, Assign, Harvest, Read, Balance, Analyse,
          Consult, Answer, Evaluate, Reply, ShowRisk, Write, Ask, Tell
<1>5. QED BY <1>3, <1>4

(* Every answer is the computation's, of an input the program can be given *)
(* (the inductive invariant of the answers).                               *)
THEOREM AnswersAreComputed == Spec => []AnswerInv
<1>1. Init => AnswerInv
    BY DEF Init, AnswerInv
<1>2. QED BY <1>1, AnswerStep, PTL DEF Spec

-----------------------------------------------------------------------------
(* What the answers are for.                                               *)

LEMMA FilesGiven ==
    ASSUME Given, input.of = "file"
    PROVE  /\ input.rows # <<>>
           /\ NamesPositions(input.rows, input.books, Accounts, Securities)
           /\ \A scheme \in Schemes :
                 /\ IsFiniteSet(DOMAIN input.books.ids[scheme])
                 /\ Securities \subseteq DOMAIN input.books.ids[scheme]
<1>1. Files
    BY KindsApart DEF Given
<1>2. PICK rows \in UNION {[1..n -> CustodianRows] : n \in 1..MaxRows},
           held \in SUBSET Keys, marks \in SUBSET Dates, ids \in Identifiers :
           \E lots \in [held -> 0..MaxQty] :
              input = [of |-> "file", rows |-> rows,
                       books |-> [lots |-> lots, marks |-> marks, ids |-> ids,
                                  custodied |-> {"acct_1"}]]
    BY <1>1 DEF Files
<1>3. PICK lots \in [held -> 0..MaxQty] :
          input = [of |-> "file", rows |-> rows,
                   books |-> [lots |-> lots, marks |-> marks, ids |-> ids,
                              custodied |-> {"acct_1"}]]
    BY <1>2
<1>4. PICK n \in 1..MaxRows : rows \in [1..n -> CustodianRows]
    OBVIOUS
<1>5. rows # <<>>
    BY <1>4
<1>6. NamesPositions(rows, input.books, Accounts, Securities)
    BY <1>3, <1>4 DEF NamesPositions, CustodianRows, Keys
<1>7. \A scheme \in Schemes : DOMAIN ids[scheme] = Securities
    <2>1. DOMAIN Distinct = Securities
        BY DEF Distinct, Securities
    <2>2. DOMAIN Shared = Securities
        BY DEF Shared, Securities
    <2>3. QED BY <2>1, <2>2 DEF Identifiers, Schemes
<1>8. IsFiniteSet(Securities)
    <2>1. IsFiniteSet({"sec_1"})
        BY FS_Singleton
    <2>2. IsFiniteSet({"sec_1"} \cup {"sec_2"})
        BY <2>1, FS_AddElement
    <2>3. QED BY <2>2 DEF Securities
<1>9. QED BY <1>3, <1>5, <1>6, <1>7, <1>8

(* A file is quiet exactly when it and the books agree, and its quantity   *)
(* breaks name each differing position and no other (reconcile_ingest).    *)
THEOREM BreaksAreComplete == Spec => []BreaksAreTheDifferences
<1>1. ASSUME AnswerInv PROVE BreaksAreTheDifferences
    <2>1. SUFFICES ASSUME Done("file"), NoDuplicates(input.rows)
                   PROVE  /\ result = {} <=> Agree(input.rows, input.books)
                          /\ Named(result) = Differing(input.rows, input.books)
        BY DEF BreaksAreTheDifferences
    <2>2. result = Breaks(input.rows, input.books)
        BY <1>1, <2>1 DEF Done, AnswerInv
    <2>3. Given /\ input.of = "file"
        BY <1>1, <2>1 DEF Done, AnswerInv
    <2>4. QED BY <2>1, <2>2, <2>3, FilesGiven, QuietMeansAgreement, QuantityBreaksAreExact
<1>2. QED BY <1>1, AnswersAreComputed, PTL

LEMMA EvidenceGiven ==
    ASSUME Given, input.of = "evidence"
    PROVE  Dated(input.evidence) /\ input.asOf \in Int
<1>1. Evidence
    BY KindsApart DEF Given
<1>2. PICK keys \in SUBSET MarkKeys :
          \E priced \in [keys -> 0..2],
             lots \in Holdings, realized \in Realized, signals \in Exports, asOf \in Days :
             input = [of |-> "evidence", asOf |-> asOf,
                      evidence |-> [marks |-> Marks(priced), lots |-> lots,
                                    realized |-> realized, signals |-> signals]]
    BY <1>1 DEF Evidence
<1>3. PICK priced \in [keys -> 0..2], lots \in Holdings, realized \in Realized,
           signals \in Exports, asOf \in Days :
          input = [of |-> "evidence", asOf |-> asOf,
                   evidence |-> [marks |-> Marks(priced), lots |-> lots,
                                 realized |-> realized, signals |-> signals]]
    BY <1>2
<1>4. /\ input.asOf = asOf /\ input.evidence.marks = Marks(priced)
      /\ input.evidence.signals = signals
    BY <1>3
<1>5. \A k \in keys : k[2] \in Int /\ k = <<k[1], k[2]>>
    BY DEF MarkKeys
<1>6. \A m \in Marks(priced) : <<m.security, m.day>> \in keys
                               /\ m.price = priced[<<m.security, m.day>>]
                               /\ m = [security |-> m.security, day |-> m.day, price |-> m.price]
    BY <1>5 DEF Marks
<1>7. (\A m \in Marks(priced) : m.day \in Int) /\ OneMarkADay(Marks(priced))
    <2>1. ASSUME NEW m \in Marks(priced)
          PROVE  m.day \in Int
        <3>1. <<m.security, m.day>> \in keys
            BY <1>6
        <3>2. <<m.security, m.day>>[2] \in Int
            BY <1>5, <3>1
        <3>3. QED BY <3>2
    <2>2. ASSUME NEW m \in Marks(priced), NEW n \in Marks(priced),
                 m.security = n.security, m.day = n.day
          PROVE  m = n
        <3>1. m.price = n.price
            BY <1>6, <2>2
        <3>2. QED BY <1>6, <2>2, <3>1
    <2>3. QED BY <2>1, <2>2 DEF OneMarkADay
<1>8. IsFiniteSet(Marks(priced))
    <2>1. IsFiniteSet(MarkKeys)
        <3>1. \A a, b, c, d, e : IsFiniteSet({a, b, c, d, e})
            <4> TAKE a, b, c, d, e
            <4>1. IsFiniteSet({a})
                BY FS_Singleton
            <4>2. IsFiniteSet({a} \cup {b})
                BY <4>1, FS_AddElement
            <4>3. IsFiniteSet(({a} \cup {b}) \cup {c})
                BY <4>2, FS_AddElement
            <4>4. IsFiniteSet((({a} \cup {b}) \cup {c}) \cup {d})
                BY <4>3, FS_AddElement
            <4>5. IsFiniteSet(((({a} \cup {b}) \cup {c}) \cup {d}) \cup {e})
                BY <4>4, FS_AddElement
            <4>6. {a, b, c, d, e} = ((({a} \cup {b}) \cup {c}) \cup {d}) \cup {e}
                OBVIOUS
            <4>7. QED BY <4>5, <4>6
        <3>2. QED BY <3>1 DEF MarkKeys
    <2>2. IsFiniteSet(keys)
        BY <2>1, FS_Subset
    <2> DEFINE f == [k \in keys |-> [security |-> k[1], day |-> k[2], price |-> priced[k]]]
    <2>3. Marks(priced) = {f[k] : k \in keys}
        BY DEF Marks
    <2> HIDE DEF f
    <2>4. QED BY <2>2, <2>3, ImageIsFinite
<1>9. /\ DOMAIN signals \in SUBSET Int /\ IsFiniteSet(DOMAIN signals)
      /\ \A i \in DOMAIN signals : signals[i].day \in Int
    <2>1. \E n \in 0..3 : DOMAIN signals = 1..n
        BY DEF Exports
    <2>2. IsFiniteSet(DOMAIN signals) /\ DOMAIN signals \in SUBSET Int
        BY <2>1, FS_Interval
    <2>3. \A i \in DOMAIN signals : signals[i].day \in Int
        BY DEF Exports, Snapshot
    <2>4. QED BY <2>2, <2>3
<1>10. input.asOf \in Int
    BY <1>4 DEF Days
<1>11. Dated(input.evidence)
    BY <1>4, <1>7, <1>8, <1>9 DEF Dated
<1>12. QED BY <1>10, <1>11

(* What a reader says of a day it would have said with the evidence of     *)
(* that day alone, or it raises (walk_forward, fiij ingest, stats daily).  *)
THEOREM ReadersDoNotPeek == Spec => []NoPeeking
<1>1. ASSUME AnswerInv PROVE NoPeeking
    <2>1. SUFFICES ASSUME Done("evidence")
                   PROVE  /\ Blind(Positions, input.evidence, input.asOf)
                          /\ Blind(StatsDaily, input.evidence, input.asOf)
                          /\ Blind(LoadSnapshot, input.evidence, input.asOf)
                          /\ Blind(LAMBDA e, day : RunBacktest(e, 1, day), input.evidence, input.asOf)
        BY DEF NoPeeking
    <2>2. Dated(input.evidence) /\ input.asOf \in Int
        BY <1>1, <2>1, EvidenceGiven DEF Done, AnswerInv
    <2>3. Blind(Positions, input.evidence, input.asOf)
        BY <2>2, PositionsAreBlind DEF Blind
    <2>4. Blind(StatsDaily, input.evidence, input.asOf)
        BY <2>2, StatsAreBlind DEF Blind
    <2>5. Blind(LoadSnapshot, input.evidence, input.asOf)
        BY <2>2, SnapshotsAreBlind DEF Blind
    <2>6. Blind(LAMBDA e, day : RunBacktest(e, 1, day), input.evidence, input.asOf)
        BY <2>2, BacktestsAreBlind DEF Blind
    <2>7. QED BY <2>3, <2>4, <2>5, <2>6 DEF Blind
<1>2. QED BY <1>1, AnswersAreComputed, PTL

(* A lot of a book has whole prices, and an expectation once it is bought. *)
LEMMA BookLotIsRead ==
    ASSUME NEW id, NEW account, NEW security \in DOMAIN SleeveOf, NEW price \in Prices \cup {<<0, 1>>},
           NEW acquired \in 1..5
    PROVE  LET lot == Lot(id, BookLot(account, security, price, acquired))
           IN  /\ lot.acquired \in Int /\ lot.cost \in Int
               /\ lot.gain \in Int \cup {Unpriced}
               /\ lot.acquired <= Today => Expected(lot.sleeve, Today - lot.acquired) \in Int
<1> DEFINE lot == Lot(id, BookLot(account, security, price, acquired))
<1>1. /\ lot.acquired = acquired /\ lot.cost = price[2] /\ lot.sleeve = SleeveOf[security]
      /\ lot.gain = IF price[1] = Unpriced THEN Unpriced ELSE price[1] - price[2]
    BY DEF Lot, BookLot
<1>2. price[2] \in Int /\ (price[1] \in Int \/ price[1] = Unpriced)
    <2>1. CASE price \in Worthwhile
        BY <2>1 DEF Worthwhile
    <2>2. CASE price \in {<<Unpriced, 2>>, <<2, 0>>, <<0, 1>>}
        BY <2>2
    <2>3. QED BY <2>1, <2>2 DEF Prices
<1>3. SleeveOf[security] \in Sleeves
    BY DEF SleeveOf, Sleeves
<1>4. acquired <= Today => Today - acquired \in 0..Today
    BY DEF Today
<1> HIDE DEF lot
<1>5. lot.gain \in Int \cup {Unpriced}
    BY <1>1, <1>2
<1>6. lot.acquired <= Today => Expected(lot.sleeve, Today - lot.acquired) \in Int
    BY <1>1, <1>3, <1>4, ExpectedAssumption
<1>7. QED BY <1>1, <1>2, <1>5, <1>6 DEF lot

LEMMA ReadingsGiven ==
    ASSUME Given, input.of = "reading"
    PROVE  IsRead(input.lots, Today)
<1>1. Readings
    BY KindsApart DEF Given
<1>2. PICK n \in 1..3 :
          \E shapes \in [1..n -> IF n < 3 THEN ReadShapes ELSE StockShapes],
             funds \in {{}, {Fund(1)}, {Fund(5)}} :
             input = [of |-> "reading", lots |-> NamedLots(shapes), funds |-> funds]
    BY <1>1 DEF Readings
<1>3. PICK shapes \in [1..n -> IF n < 3 THEN ReadShapes ELSE StockShapes] :
          input.lots = NamedLots(shapes)
    BY <1>2
<1>4. \A i \in 1..n : \E account \in Accounts, security \in DOMAIN SleeveOf, price \in Prices,
                         acquired \in 1..5 :
                         shapes[i] = BookLot(account, security, price, acquired)
    <2>1. ASSUME NEW i \in 1..n
          PROVE  \E account \in Accounts, security \in DOMAIN SleeveOf, price \in Prices,
                    acquired \in 1..5 : shapes[i] = BookLot(account, security, price, acquired)
        <3>1. shapes[i] \in ReadShapes \cup StockShapes
            OBVIOUS
        <3>2. CASE shapes[i] \in ReadShapes
            <4>1. PICK account \in Accounts, security \in DOMAIN SleeveOf, price \in Prices,
                       acquired \in {1, 3, 5} : shapes[i] = BookLot(account, security, price, acquired)
                BY <3>2 DEF ReadShapes
            <4>2. acquired \in 1..5
                OBVIOUS
            <4>3. QED BY <4>1, <4>2
        <3>3. CASE shapes[i] \in StockShapes
            <4>1. PICK price \in Worthwhile, acquired \in {1, 3} :
                      shapes[i] = BookLot("acct_1", "stock", price, acquired)
                BY <3>3 DEF StockShapes
            <4>2. acquired \in 1..5 /\ "acct_1" \in Accounts /\ "stock" \in DOMAIN SleeveOf
                  /\ price \in Prices
                BY DEF Accounts, SleeveOf, Prices
            <4>3. QED BY <4>1, <4>2
        <3>4. QED BY <3>1, <3>2, <3>3
    <2>2. QED BY <2>1
<1>5. DOMAIN input.lots = 1..n /\ \A i \in 1..n : input.lots[i] = Lot(LotId[i], shapes[i])
    BY <1>3 DEF NamedLots
<1>6. ASSUME NEW i \in 1..n
      PROVE  /\ input.lots[i].id = LotId[i]
             /\ input.lots[i].acquired \in Int /\ input.lots[i].cost \in Int
             /\ input.lots[i].gain \in Int \cup {Unpriced}
             /\ input.lots[i].acquired <= Today =>
                   Expected(input.lots[i].sleeve, Today - input.lots[i].acquired) \in Int
    <2>1. PICK account \in Accounts, security \in DOMAIN SleeveOf, price \in Prices,
               acquired \in 1..5 : shapes[i] = BookLot(account, security, price, acquired)
        BY <1>4
    <2>2. input.lots[i] = Lot(LotId[i], BookLot(account, security, price, acquired))
        BY <1>5, <2>1
    <2> DEFINE lot == Lot(LotId[i], BookLot(account, security, price, acquired))
    <2>3. lot.id = LotId[i]
        BY DEF Lot, BookLot
    <2>4. /\ lot.acquired \in Int /\ lot.cost \in Int
          /\ lot.gain \in Int \cup {Unpriced}
          /\ lot.acquired <= Today => Expected(lot.sleeve, Today - lot.acquired) \in Int
        BY BookLotIsRead, Zenon
    <2>5. input.lots[i] = lot
        BY <2>2
    <2> HIDE DEF lot
    <2>6. QED BY <2>3, <2>4, <2>5
<1>7. \A i, j \in 1..n : LotId[i] = LotId[j] => i = j
    BY DEF LotId
<1>8. n \in Nat
    OBVIOUS
<1>9. QED BY <1>5, <1>6, <1>7, <1>8 DEF IsRead

(* The watch panel, the review and the flags agree on every book           *)
(* (load_kill_criteria_dashboard, flag_non_performing).                    *)
THEOREM PanelsDoAgree == IsNoFunction(NotAttributed) => (Spec => []PanelsAgree)
<1> SUFFICES ASSUME IsNoFunction(NotAttributed) PROVE Spec => []PanelsAgree
    OBVIOUS
<1>1. ASSUME AnswerInv PROVE PanelsAgree
    <2>1. SUFFICES ASSUME Done("reading")
                   PROVE  ReadingsAgree(result.panel, result.flags, input.lots, Today)
        BY DEF PanelsAgree
    <2>2. /\ result.panel = Watch(input.lots, Today)
          /\ result.flags = FlagNonPerforming(input.lots, input.funds, One \div 2, Today)
        BY <1>1, <2>1 DEF Done, AnswerInv
    <2>3. IsRead(input.lots, Today)
        BY <1>1, <2>1, ReadingsGiven DEF Done, AnswerInv
    <2>4. Today \in Int
        BY DEF Today
    <2>5. QED BY <2>2, <2>3, <2>4, ReadingsDoAgree
<1>2. QED BY <1>1, AnswersAreComputed, PTL

(* The lots are named in the order of the list.                            *)
NamesApart(lots, n) ==
    /\ n \in 1..4 /\ DOMAIN lots = 1..n /\ lots = [i \in 1..n |-> lots[i]]
    /\ \A i \in 1..n : lots[i].id = LotId[i]

LEMMA NamedListsAreBooks ==
    ASSUME NEW lots, NEW n, NamesApart(lots, n)
    PROVE  IsBook(lots)
<1>1. n \in Nat /\ IsLong(lots, n)
    BY DEF NamesApart, IsLong
<1>2. \A i \in 1..n : i \in 1..4
    BY DEF NamesApart
<1>3. \A i, j \in 1..4 : LotId[i] \in Int /\ (LotId[i] = LotId[j] => i = j)
    BY DEF LotId
<1>4. \A i \in DOMAIN lots : i \in 1..4 /\ lots[i].id = LotId[i]
    BY <1>2 DEF NamesApart
<1>5. \A i \in DOMAIN lots : lots[i].id \in Int
    BY <1>3, <1>4
<1>6. \A i, j \in DOMAIN lots : lots[i].id = lots[j].id => i = j
    BY <1>3, <1>4
<1>7. \E m \in Nat : IsLong(lots, m)
    BY <1>1
<1>8. QED BY <1>5, <1>6, <1>7 DEF IsBook

LEMMA HarvestsGiven ==
    ASSUME Given, input.of = "harvest"
    PROVE  IsPriced(input.lots) /\ IsBook(input.lots)
<1>1. Harvests
    BY KindsApart DEF Given
<1>2. PICK n \in 1..3 :
          \E shapes \in [1..n -> IF n < 3 THEN AnyShape ELSE OpenShape], policy \in {{}, {"bond"}} :
             input = [of |-> "harvest", lots |-> NamedLots(shapes), policy |-> policy]
    BY <1>1 DEF Harvests
<1>3. PICK shapes \in [1..n -> IF n < 3 THEN AnyShape ELSE OpenShape] :
          input.lots = NamedLots(shapes)
    BY <1>2
<1>4. DOMAIN input.lots = 1..n /\ \A i \in 1..n : input.lots[i] = Lot(LotId[i], shapes[i])
    BY <1>3 DEF NamedLots
<1>5. ASSUME NEW i \in 1..n
      PROVE  /\ input.lots[i].gain \in Int \cup {Unpriced}
             /\ input.lots[i].gain # Unpriced => input.lots[i].value \in Nat
    <2>1. \E s, a, r : \E p \in Priced : shapes[i] = Shape(s, a, r, p)
        <3>1. shapes[i] \in AnyShape
            BY DEF OpenShape
        <3>2. PICK s \in DOMAIN Group, a \in {1, 2, 3, 5}, r \in BOOLEAN, p \in Priced :
                  shapes[i] = Shape(s, a, r, p)
            BY <3>1 DEF AnyShape
        <3>3. QED BY <3>2
    <2>2. PICK s, a, r : \E p \in Priced : shapes[i] = Shape(s, a, r, p)
        BY <2>1
    <2>3. PICK p \in Priced : shapes[i] = Shape(s, a, r, p)
        BY <2>2
    <2> DEFINE lot == Lot(LotId[i], Shape(s, a, r, p))
    <2>a. lot.gain = p[1] /\ lot.value = p[2]
        BY DEF Lot, Shape
    <2>b. input.lots[i] = lot
        BY <1>4, <2>3
    <2> HIDE DEF lot
    <2>4. input.lots[i].gain = p[1] /\ input.lots[i].value = p[2]
        BY <2>a, <2>b
    <2>5. p[1] \in Int \cup {Unpriced} /\ (p[1] # Unpriced => p[2] \in Nat)
        BY DEF Priced
    <2>6. QED BY <2>4, <2>5
<1>6. n \in Nat
    OBVIOUS
<1>7. IsBook(input.lots)
    <2>1. \A i \in 1..n : input.lots[i].id = LotId[i]
        <3>1. \A i \in 1..n : Lot(LotId[i], shapes[i]).id = LotId[i]
            BY DEF Lot
        <3>2. QED BY <1>4, <3>1
    <2>2. NamesApart(input.lots, n)
        BY <1>3, <1>4, <2>1 DEF NamesApart, NamedLots
    <2>3. QED BY <2>2, NamedListsAreBooks
<1>8. QED BY <1>4, <1>5, <1>6, <1>7 DEF IsPriced

LEMMA HarvestAnswered ==
    ASSUME AnswerInv, Done("harvest")
    PROVE  /\ result.all = TaxAwareOptimizer(input.lots, Group, input.policy, Today)
           /\ result.mip = MipOptimizer(input.lots, Group, input.policy, Today)
           /\ IsPriced(input.lots) /\ IsBook(input.lots)
BY HarvestsGiven DEF AnswerInv, Done

(* No harvest passes over a loss or claims another saving than the tax     *)
(* report.                                                                 *)
THEOREM HarvestsAreAccounted == Spec => []HarvestIsAccounted
<1>1. ASSUME AnswerInv PROVE HarvestIsAccounted
    <2>1. SUFFICES ASSUME Done("harvest"), result.all # Refused
                   PROVE  /\ Accounted(result.all, input.lots)
                          /\ \A niit \in BOOLEAN :
                                result.all.tax = ReportedTax(result.all.trades, Today, niit)
        BY DEF HarvestIsAccounted
    <2>2. QED BY <1>1, <2>1, HarvestAnswered, HarvestDoesAccount
<1>2. QED BY <1>1, AnswersAreComputed, PTL

(* The MIP stub keeps the best harvests of the heuristic.                  *)
THEOREM TheBestAreKept == Spec => []MipKeepsTheBest
<1>1. ASSUME AnswerInv PROVE MipKeepsTheBest
    <2>1. SUFFICES ASSUME Done("harvest"), result.all # Refused
                   PROVE  BestOf(result.mip, result.all, Today)
        BY DEF MipKeepsTheBest
    <2>2. QED BY <1>1, <2>1, HarvestAnswered, MipDoesKeepTheBest
<1>2. QED BY <1>1, AnswersAreComputed, PTL

(* What a solver proposes to sell, the ledger ties into no chain.          *)
THEOREM HarvestsMakeNoChains == Spec => []HarvestsAreUnlinked
<1>1. ASSUME AnswerInv PROVE HarvestsAreUnlinked
    <2>1. SUFFICES ASSUME Done("harvest")
                   PROVE  \/ result.all = Refused /\ result.mip = Refused
                          \/ \A trades \in {result.all.trades, result.mip.trades} :
                                LET chains == AssignChains(input.lots, Group, AsSales(trades, Today))
                                IN  \A id \in LotIds(input.lots) : chains[id] = 0
        BY DEF HarvestsAreUnlinked
    <2>2. CASE TotalValue(input.lots) <= 0
        BY <1>1, <2>1, <2>2, HarvestAnswered DEF TaxAwareOptimizer, MipOptimizer
    <2>3. CASE ~ (TotalValue(input.lots) <= 0)
        BY <1>1, <2>1, <2>3, HarvestAnswered, HarvestsDoNotLink
    <2>4. QED BY <2>2, <2>3
<1>2. QED BY <1>1, AnswersAreComputed, PTL

LEMMA ChainsGiven ==
    ASSUME Given, input.of = "chains"
    PROVE  IsBook(input.lots) /\ AreSales(input.lots, input.sales)
<1>1. Chains
    BY KindsApart DEF Given
<1>2. PICK n \in 2..MaxLots :
          \E shapes \in [1..n -> ChainShapes], sales \in UNION {[1..k -> Sales(n)] : k \in 1..MaxSales} :
             input = [of |-> "chains", lots |-> NamedLots(shapes), sales |-> sales]
    BY <1>1 DEF Chains
<1>3. PICK shapes \in [1..n -> ChainShapes], sales \in UNION {[1..k -> Sales(n)] : k \in 1..MaxSales} :
          input.lots = NamedLots(shapes) /\ input.sales = sales
    BY <1>2
<1>4. n \in 1..4
    <2>1. MaxLots \in 1..4
        BY BoundsAssumption DEF LotId
    <2>2. QED BY <2>1
<1>5. DOMAIN input.lots = 1..n /\ \A i \in 1..n : input.lots[i] = Lot(LotId[i], shapes[i])
    BY <1>3 DEF NamedLots
<1>6. \A i \in 1..n : input.lots[i].id = LotId[i]
    <2>1. \A i \in 1..n : Lot(LotId[i], shapes[i]).id = LotId[i]
        BY DEF Lot
    <2>2. QED BY <1>5, <2>1
<1>7. IsBook(input.lots)
    <2>1. NamesApart(input.lots, n)
        BY <1>3, <1>4, <1>5, <1>6 DEF NamesApart, NamedLots
    <2>2. QED BY <2>1, NamedListsAreBooks
<1>8. PICK k \in 1..MaxSales : input.sales \in [1..k -> Sales(n)]
    BY <1>3
<1>9. \A i \in 1..k : \E j \in 1..n : input.sales[i].lot = LotId[j]
    <2>1. ASSUME NEW sale \in Sales(n) PROVE \E j \in 1..n : sale.lot = LotId[j]
        <3>1. \A L : [lot : {LotId[i] : i \in 1..n}, day : {1, 3}, loss : L]
                        \subseteq {r \in [lot : {LotId[i] : i \in 1..n}, day : {1, 3}, loss : L] :
                                     \E j \in 1..n : r.lot = LotId[j]}
            OBVIOUS
        <3>2. \E L : Sales(n) = [lot : {LotId[i] : i \in 1..n}, day : {1, 3}, loss : L]
            BY Zenon DEF Sales
        <3>3. QED BY <3>1, <3>2
    <2>2. QED BY <1>8, <2>1
<1>10. \A i \in 1..k : IsLotOf(input.lots, input.sales[i].lot)
    BY <1>5, <1>6, <1>9 DEF IsLotOf
<1>11. k \in Nat /\ IsLong(input.sales, k) /\ DOMAIN input.sales = 1..k
    BY <1>8, BoundsAssumption DEF IsLong
<1>12. QED BY <1>7, <1>10, <1>11 DEF AreSales

(* The chains assigned are the closure of the links of the sales.          *)
THEOREM ChainsAreTheClosure == Spec => []ChainsAreClosure
<1>1. ASSUME AnswerInv PROVE ChainsAreClosure
    <2>1. SUFFICES ASSUME Done("chains")
                   PROVE  ClosureOfLinks(result, input.lots, Group, input.sales)
        BY DEF ChainsAreClosure
    <2>2. result = AssignChains(input.lots, Group, input.sales)
        BY <1>1, <2>1 DEF Done, AnswerInv
    <2>3. IsBook(input.lots) /\ AreSales(input.lots, input.sales)
        BY <1>1, <2>1, ChainsGiven DEF Done, AnswerInv
    <2>4. QED BY <2>2, <2>3, ChainsAreClosed
<1>2. QED BY <1>1, AnswersAreComputed, PTL

LEMMA EmissionsGiven ==
    ASSUME Given, input.of = "events"
    PROVE  \E E : \E n \in Nat :
              /\ input.events \in [1..n -> E]
              /\ \A i \in 1..n : HeardBy(input.subscribers, input.events[i]) \in Seq(BOOLEAN)
<1>1. Emissions
    BY KindsApart DEF Given
<1>2. PICK n \in 1..4, filled \in Listening, opened \in Listening :
           \E ops \in [1..n -> {"order.filled", "break.opened", "ingest.completed"}] :
              input = [of |-> "events", events |-> [i \in 1..n |-> [op |-> ops[i], id |-> i]],
                       subscribers |-> Subscribed(filled, opened)]
    BY <1>1 DEF Emissions
<1>3. PICK ops \in [1..n -> {"order.filled", "break.opened", "ingest.completed"}] :
          input = [of |-> "events", events |-> [i \in 1..n |-> [op |-> ops[i], id |-> i]],
                   subscribers |-> Subscribed(filled, opened)]
    BY <1>2
<1>4. PICK events : events = input.events
    OBVIOUS
<1>5. PICK listeners : listeners = input.subscribers
    OBVIOUS
<1>6. events = [i \in 1..n |-> [op |-> ops[i], id |-> i]]
    BY <1>3, <1>4
<1>7. listeners = [op \in {"order.filled", "break.opened"} |->
                     IF op = "order.filled" THEN filled ELSE opened]
    BY <1>3, <1>5 DEF Subscribed
<1> DEFINE E == {events[i] : i \in 1..n}
<1>8. events \in [1..n -> E] /\ n \in Nat
    BY <1>6
<1>9. \A heard \in Listening : heard \in Seq(BOOLEAN)
    <2>1. SUFFICES ASSUME NEW heard \in Listening PROVE heard \in Seq(BOOLEAN)
        OBVIOUS
    <2>2. PICK n1 \in 0..3 : heard \in [1..n1 -> BOOLEAN]
        BY DEF Listening
    <2>3. QED BY <2>2
<1>10. \A i \in 1..n : HeardBy(listeners, events[i]) \in Seq(BOOLEAN)
    <2>1. SUFFICES ASSUME NEW event PROVE HeardBy(listeners, event) \in Seq(BOOLEAN)
        OBVIOUS
    <2>2. DOMAIN listeners = {"order.filled", "break.opened"}
        BY <1>7
    <2>3. listeners["order.filled"] = filled /\ listeners["break.opened"] = opened
        BY <1>7
    <2>4. <<>> \in Seq(BOOLEAN)
        OBVIOUS
    <2>5. CASE event.op \in DOMAIN listeners
        BY <1>9, <2>2, <2>3, <2>5 DEF HeardBy
    <2>6. CASE event.op \notin DOMAIN listeners
        BY <2>4, <2>6 DEF HeardBy
    <2>7. QED BY <2>5, <2>6
<1>11. QED BY <1>4, <1>5, <1>8, <1>10

(* Every answer tells where it failed, no evaluation needs a transaction,  *)
(* and every event reaches its own (dispatch_message, emit_event).         *)
THEOREM MessagesDoStay == Spec => []MessagesAreContained
<1>1. ASSUME AnswerInv, Done("message")
      PROVE  TellsWhereItFailed(result, input.context, input.message)
             /\ IsPure(input.context, input.message)
    <2>1. result = DispatchMessage(input.context, input.message)
        BY <1>1 DEF Done, AnswerInv
    <2>2. Messages
        BY <1>1, KindsApart DEF Done, AnswerInv, Given
    <2>3. PICK op \in Registered \cup {"no.such.op"}, typed \in BOOLEAN, session \in BOOLEAN,
               failing \in SUBSET (ToSet(Legs) \cup {"ledger.positions", "orders.stage", Scoring}) :
             input = [of |-> "message",
                      message |-> [op |-> op, typed |-> typed, correlation |-> "workflow"],
                      context |-> [session |-> session, correlation |-> "none",
                                   failing |-> failing]]
        BY <2>2 DEF Messages
    <2>4. PICK context : context = input.context
        OBVIOUS
    <2>5. PICK message : message = input.message
        OBVIOUS
    <2>6. IsContext(context) /\ message.typed \in BOOLEAN
        BY <2>3, <2>4, <2>5 DEF IsContext
    <2>7. TellsWhereItFailed(DispatchMessage(context, message), context, message)
        BY <2>6, AnswersTellWhereTheyFailed
    <2>8. IsPure(context, message)
        BY <2>6, EvaluationsArePure
    <2>9. QED BY <2>1, <2>4, <2>5, <2>7, <2>8
<1>2. ASSUME AnswerInv, Done("events") PROVE Contained(result, input.events, input.subscribers)
    <2>1. result = EmitAll(input.events, input.subscribers)
        BY <1>2 DEF Done, AnswerInv
    <2>2. Given /\ input.of = "events"
        BY <1>2 DEF Done, AnswerInv
    <2>3. PICK events, subscribers : events = input.events /\ subscribers = input.subscribers
        OBVIOUS
    <2>4. Contained(EmitAll(events, subscribers), events, subscribers)
        BY <2>2, <2>3, EmissionsGiven, EveryEventReachesItsOwn
    <2>5. QED BY <2>1, <2>3, <2>4
<1>3. AnswerInv => MessagesAreContained
    BY <1>1, <1>2 DEF MessagesAreContained
<1>4. QED BY <1>3, AnswersAreComputed, PTL

(* The register tells every answer (start_request, patch_request).         *)
THEOREM RegisterDoesTell == Spec => []RegisterTellsAnswers
<1>1. ASSUME AnswerInv, Done("requests") PROVE ShowsAnswers(input.list, result)
    <2>1. result = Panels(input.list)
        BY <1>1 DEF Done, AnswerInv
    <2>2. Requests
        BY <1>1, KindsApart DEF Done, AnswerInv, Given
    <2>3. PICK n \in 1..MaxRequests : \E page \in [1..n -> BOOLEAN], answer \in [1..n -> Answers] :
              input = [of |-> "requests", list |-> [i \in 1..n |-> Request(i, page[i], answer[i])]]
        BY <2>2 DEF Requests
    <2>4. PICK page, answer :
              input = [of |-> "requests", list |-> [i \in 1..n |-> Request(i, page[i], answer[i])]]
        BY <2>3
    <2>5. PICK list : list = [i \in 1..n |-> Request(i, page[i], answer[i])]
        OBVIOUS
    <2>6. input.list = list /\ n \in Nat /\ list \in [1..n -> {list[i] : i \in 1..n}]
        BY <2>4, <2>5
    <2>7. ShowsAnswers(list, Panels(list))
        BY <2>6, PanelsShowTheAnswers
    <2>8. QED BY <2>1, <2>6, <2>7
<1>2. AnswerInv => RegisterTellsAnswers
    BY <1>1 DEF RegisterTellsAnswers
<1>3. QED BY <1>2, AnswersAreComputed, PTL

(* Overlays are sound and reports add up (evaluate_risk).                  *)
LEMMA ShapesAreSlots == SlotShapes \in SUBSET SlotRecords
<1>1. {"equity", "fixed_income", "fx", "alternatives"} \in SUBSET DOMAIN Vol
    <2>1. \A slot \in SlotShapes : slot.class \in DOMAIN Vol
        BY ClassesAssumption
    <2>2. Slot("alternatives", 0, 3, 7, "auto") \in SlotShapes
        BY DEF SlotShapes
    <2>3. Slot("alternatives", 0, 3, 7, "auto").class = "alternatives"
        BY DEF Slot
    <2>4. "alternatives" \in DOMAIN Vol
        BY <2>1, <2>2, <2>3
    <2>5. QED BY <2>4, ClassesAssumption
<1>2. QED BY <1>1 DEF SlotShapes, Slot, SlotRecords, Durations

LEMMA PortfoliosGiven ==
    ASSUME NEW portfolio \in Portfolios
    PROVE  /\ portfolio.slots \in Seq(SlotRecords) /\ IsPortfolio(portfolio)
           /\ \E whole, slots : portfolio = [whole |-> whole, slots |-> slots]
<1>1. PICK n \in 1..3 : \E shapes \in [1..n -> SlotShapes], weights \in Weighings(n) :
          portfolio = [whole |-> 4, slots |-> [i \in DOMAIN shapes |->
                                                  [shapes[i] EXCEPT !.weight = weights[i]]]]
    BY DEF Portfolios
<1>2. PICK shapes \in [1..n -> SlotShapes], weights \in Weighings(n) :
          portfolio = [whole |-> 4, slots |-> [i \in DOMAIN shapes |->
                                                  [shapes[i] EXCEPT !.weight = weights[i]]]]
    BY <1>1
<1>3. PICK slots : slots = [i \in 1..n |-> [shapes[i] EXCEPT !.weight = weights[i]]]
    OBVIOUS
<1>4. portfolio = [whole |-> 4, slots |-> slots]
    BY <1>2, <1>3
<1>5. weights \in [1..n -> 0..4] /\ TotalOf(weights) = 4
    BY DEF Weighings
<1>6. \A i \in 1..n : shapes[i] \in SlotRecords
    BY ShapesAreSlots
<1>7. \A i \in 1..n : slots[i] \in SlotRecords /\ slots[i].weight = weights[i]
                      /\ slots[i].tier \in 1..3
    BY <1>3, <1>5, <1>6 DEF SlotRecords
<1>8. DOMAIN slots = 1..n /\ slots \in [1..n -> SlotRecords] /\ n \in Nat
    BY <1>3, <1>7
<1>9. slots \in Seq(SlotRecords) /\ slots # <<>>
    BY <1>8
<1>10. WeightOf(slots, DOMAIN slots) = 4
    <2>1. [i \in DOMAIN slots |-> slots[i].weight] = weights
        BY <1>5, <1>7, <1>8
    <2>2. QED BY <1>5, <2>1 DEF WeightOf
<1>11. IsPortfolio(portfolio)
    BY <1>4, <1>5, <1>7, <1>8, <1>9, <1>10 DEF IsPortfolio
<1>12. QED BY <1>4, <1>9, <1>11

LEMMA OverlaysGiven ==
    ASSUME NEW overlay \in Overlays
    PROVE  /\ IsOverlay(overlay)
           /\ \E drop, add, tilts, pack :
                 overlay = [drop |-> drop, add |-> add, tilts |-> tilts, pack |-> pack]
<1>1. \E drop, add, tilts, pack :
          overlay = [drop |-> drop, add |-> add, tilts |-> tilts, pack |-> pack]
    BY DEF Overlays
<1>2. overlay.add \in Seq(SlotRecords)
    <2>1. \A class \in {"equity", "fx"}, weight \in Int, tier \in 1..3, duration \in Int,
             mode \in {"measurable", "fermi", "auto"} :
             Slot(class, weight, tier, duration, mode) \in SlotRecords
        BY ClassesAssumption DEF Slot, SlotRecords, Durations
    <2>2. \A a, b \in SlotRecords : <<>> \in Seq(SlotRecords) /\ <<a>> \in Seq(SlotRecords)
                                    /\ <<a, b>> \in Seq(SlotRecords)
        OBVIOUS
    <2>3. PICK a, b, c : /\ a = Slot("fx", 1, 1, 8, "auto") /\ b = Slot("equity", 1, 2, 5, "auto")
                         /\ c = Slot("equity", 1, 3, 7, "fermi")
        OBVIOUS
    <2>4. a \in SlotRecords /\ b \in SlotRecords /\ c \in SlotRecords
        BY <2>1, <2>3
    <2>5. overlay.add \in {<<>>, <<a>>, <<b, c>>}
        BY <2>3 DEF Overlays
    <2>6. QED BY <2>2, <2>4, <2>5
<1>3. overlay.tilts \in {<<>>, ToBonds, [class \in {"fx"} |-> -2], [class \in {"equity"} |-> 0]}
    BY DEF Overlays
<1>4. /\ DOMAIN overlay.tilts \in SUBSET {"equity", "fixed_income", "fx"}
      /\ \A class \in DOMAIN overlay.tilts : overlay.tilts[class] \in Int
    <2>1. CASE overlay.tilts = <<>>
        <3>1. DOMAIN overlay.tilts = {}
            BY <2>1, NoneOfNone
        <3>2. QED BY <3>1
    <2>2. CASE overlay.tilts = ToBonds
        BY <2>2 DEF ToBonds
    <2>3. CASE overlay.tilts = [class \in {"fx"} |-> -2]
        BY <2>3
    <2>4. CASE overlay.tilts = [class \in {"equity"} |-> 0]
        BY <2>4
    <2>5. QED BY <1>3, <2>1, <2>2, <2>3, <2>4
<1>5. IsFiniteSet(DOMAIN overlay.tilts)
    <2>1. IsFiniteSet({"equity", "fixed_income", "fx"})
        <3>1. IsFiniteSet({"equity"})
            BY FS_Singleton
        <3>2. IsFiniteSet({"equity"} \cup {"fixed_income"})
            BY <3>1, FS_AddElement
        <3>3. IsFiniteSet(({"equity"} \cup {"fixed_income"}) \cup {"fx"})
            BY <3>2, FS_AddElement
        <3>4. {"equity", "fixed_income", "fx"} = ({"equity"} \cup {"fixed_income"}) \cup {"fx"}
            OBVIOUS
        <3>5. QED BY <3>3, <3>4
    <2>2. QED BY <1>4, <2>1, FS_Subset
<1>6. IsOverlay(overlay)
    BY <1>2, <1>4, <1>5, ClassesAssumption DEF IsOverlay
<1>7. QED BY <1>1, <1>6

THEOREM OverlaysDoAddUp == Spec => []OverlaysAddUp
<1>1. ASSUME AnswerInv, Done("overlay")
      PROVE  IF input.overlay = NoOverlay
             THEN NoClassTwice(input.portfolio.slots) => LevelsAddUp(result.report)
             ELSE IF \/ input.overlay.pack \notin DOMAIN Shocks \cup {NoPack}
                     \/ ApplyOverlay(Without(input.portfolio, input.overlay.drop),
                                     [input.overlay EXCEPT !.drop = {}]) = Rejected
             THEN result = Rejected
             ELSE OverlayIsSound(result, input.portfolio, input.overlay)
    <2>1. result = EvaluateRisk(input.portfolio, input.overlay)
        BY <1>1 DEF Done, AnswerInv
    <2>2. Overlaid
        BY <1>1, KindsApart DEF Done, AnswerInv, Given
    <2>3. input.portfolio \in Portfolios /\ input.overlay \in Overlays \cup {NoOverlay}
        BY <2>2 DEF Overlaid
    <2>4. PICK portfolio \in Portfolios, overlay \in Overlays \cup {NoOverlay} :
              portfolio = input.portfolio /\ overlay = input.overlay
        BY <2>3
    <2>5. /\ portfolio.slots \in Seq(SlotRecords) /\ IsPortfolio(portfolio)
          /\ \E whole, slots : portfolio = [whole |-> whole, slots |-> slots]
        BY PortfoliosGiven
    <2>6. CASE overlay = NoOverlay
        <3>1. result.report = EvaluatePortfolioRisk(portfolio, NoPack)
            BY <2>1, <2>4, <2>6 DEF EvaluateRisk
        <3>2. NoClassTwice(portfolio.slots) => LevelsAddUp(EvaluatePortfolioRisk(portfolio, NoPack))
            BY <2>5, ReportsAddUp
        <3>3. QED BY <2>4, <2>6, <3>1, <3>2
    <2>7. CASE overlay # NoOverlay
        <3>1. IsOverlay(overlay) /\ AsRecords(portfolio, overlay)
            BY <2>5, <2>7, OverlaysGiven DEF AsRecords
        <3>2. PICK outcome : outcome = EvaluateRisk(portfolio, overlay)
            OBVIOUS
        <3>3. IF \/ overlay.pack \notin DOMAIN Shocks \cup {NoPack}
                 \/ ApplyOverlay(Without(portfolio, overlay.drop), [overlay EXCEPT !.drop = {}]) = Rejected
              THEN outcome = Rejected
              ELSE OverlayIsSound(outcome, portfolio, overlay)
            BY <2>5, <2>7, <3>1, <3>2, OverlaysAreSound, Zenon
        <3>4. result = outcome
            BY <2>1, <2>4, <3>2
        <3>5. QED BY <2>4, <2>7, <3>3, <3>4, Zenon
    <2>8. QED BY <2>6, <2>7
<1>2. AnswerInv => OverlaysAddUp
    BY <1>1, Zenon DEF OverlaysAddUp
<1>3. QED BY <1>2, AnswersAreComputed, PTL

(* Alerts are foretold (evaluate_risk_json, load_risk_dashboard).          *)
LEMMA RequestsDoForetell ==
    ASSUME AnswerInv, Done("request")
    PROVE  /\ result.reply = 200 <=> Evaluable(input.raw)
           /\ Evaluable(input.raw) => result.sent = {}
           /\ input.raw = NotUtf8 => result.reply = Lost /\ result.sent = {}
           /\ ~ Evaluable(input.raw) /\ input.raw # NotUtf8 =>
                 Foretold(result.checks.alerts, result, input.settings, input.up)
           /\ HealthStatus(result.checks) = HealthStatus([result.checks EXCEPT !.alerts = "skipped"])
<1>1. RiskRequests
    BY KindsApart DEF Done, AnswerInv, Given
<1>2. PICK raw \in Raws, settings \in Settings, up \in SUBSET Channels, site \in Sites :
          raw = input.raw /\ settings = input.settings /\ up = input.up /\ site = input.site
    BY <1>1 DEF RiskRequests
<1>3. raw \in {NotUtf8, NotJson, NotObject} \/ IsBody(raw)
    <2>1. raw \in Bodies => raw.horizon \in {"missing", "unread", "bad", "ok"}
                            /\ raw.notional \in {"unread", "bad", "ok"} /\ raw.regime \in {"unknown", "ok"}
        BY DEF Bodies
    <2>2. QED BY <2>1 DEF Raws, IsBody
<1>4. IsSettings(settings)
    BY DEF Settings, IsSettings
<1>5. PICK outcome, checks : /\ outcome = EvaluateRiskJson(raw, settings, up)
                             /\ checks = RunInfraChecks(site, settings)
    OBVIOUS
<1>6. result = [reply |-> outcome.reply, sent |-> outcome.sent, checks |-> checks]
    BY <1>2, <1>5 DEF Done, AnswerInv
<1>7. result.reply = outcome.reply /\ result.sent = outcome.sent /\ result.checks = checks
    BY <1>6
<1>8. /\ outcome.reply = 200 <=> Evaluable(raw)
      /\ Evaluable(raw) => outcome.sent = {}
      /\ raw = NotUtf8 => outcome.reply = Lost /\ outcome.sent = {}
      /\ ~ Evaluable(raw) /\ raw # NotUtf8 =>
            Foretold(CheckRiskNotifyConfig(settings), outcome, settings, up)
    BY <1>3, <1>4, <1>5, RequestsAreForetold
<1>9. checks.alerts = CheckRiskNotifyConfig(settings)
    BY <1>5 DEF RunInfraChecks
<1>10. PICK verdict : verdict = CheckRiskNotifyConfig(settings)
    OBVIOUS
<1>11. Foretold(verdict, outcome, settings, up) => Foretold(verdict, result, settings, up)
    BY <1>7 DEF Foretold
<1>12. HealthStatus(checks) = HealthStatus([checks EXCEPT !.alerts = "skipped"])
    BY <1>5, AlertsKeepHealth, Zenon
<1>13. QED BY <1>2, <1>7, <1>8, <1>9, <1>10, <1>11, <1>12

LEMMA BooksGiven ==
    ASSUME NEW n \in Nat, NEW lots \in [1..n -> Held],
           NEW funds \in {<<>>, << 0 >>, << 90 >>, <<50, 0>>}
    PROVE  IsHousehold(lots, funds)
<1>1. DOMAIN lots = 1..n /\ IsFiniteSet(1..n) /\ 1..n \in SUBSET (Nat \ {0})
    BY FS_Interval
<1>2. \A i \in 1..n : lots[i].value \in Nat \cup {NoMark}
    BY DEF Held
<1>3. funds \in Seq(Nat)
    <2>1. \A a, b \in Nat : <<>> \in Seq(Nat) /\ <<a>> \in Seq(Nat) /\ <<a, b>> \in Seq(Nat)
        OBVIOUS
    <2>2. PICK a, b, c \in Nat : a = 0 /\ b = 90 /\ c = 50
        OBVIOUS
    <2>3. funds \in {<<>>, <<a>>, <<b>>, <<c, a>>}
        BY <2>2
    <2>4. QED BY <2>1, <2>3
<1>4. PICK k \in Nat : funds \in [1..k -> Nat]
    BY <1>3, LenProperties
<1>5. IsFun(funds) /\ IsFiniteSet(DOMAIN funds) /\ \A i \in DOMAIN funds : funds[i] \in Nat
    <2>1. DOMAIN funds = 1..k /\ IsFiniteSet(1..k)
        BY <1>4, FS_Interval
    <2>2. QED BY <1>4, <2>1 DEF IsFun
<1>6. QED BY <1>1, <1>2, <1>5 DEF IsHousehold

LEMMA PanelsDoForetell ==
    ASSUME AnswerInv, Done("panel")
    PROVE  /\ result.reply = "report" <=> Reportable(input.lots, input.funds, input.demo)
           /\ result.reply # "report" =>
                 Foretold(CheckRiskNotifyConfig(input.settings), result, input.settings, input.up)
<1>1. RiskPanels
    BY KindsApart DEF Done, AnswerInv, Given
<1>2. PICK lots \in UNION {[1..k -> Held] : k \in 0..2}, funds \in {<<>>, << 0 >>, << 90 >>, <<50, 0>>},
           demo \in BOOLEAN, up \in SUBSET Channels :
          lots = input.lots /\ funds = input.funds /\ demo = input.demo /\ up = input.up
          /\ input.settings = Full
    BY <1>1 DEF RiskPanels
<1>3. IsHousehold(lots, funds)
    <2>1. PICK n \in 0..2 : lots \in [1..n -> Held]
        OBVIOUS
    <2>2. n \in Nat
        OBVIOUS
    <2>3. QED BY <2>1, <2>2, BooksGiven
<1>4. IsSettings(Full)
    BY DEF IsSettings, Full
<1>5. PICK outcome : outcome = LoadRiskDashboard(lots, funds, demo, Full, up)
    OBVIOUS
<1>6. result = outcome
    BY <1>2, <1>5 DEF Done, AnswerInv
<1>7. /\ outcome.reply = "report" <=> Reportable(lots, funds, demo)
      /\ outcome.reply # "report" => Foretold(CheckRiskNotifyConfig(Full), outcome, Full, up)
    BY <1>3, <1>4, <1>5, PanelsAreForetold
<1>8. QED BY <1>2, <1>6, <1>7

THEOREM AlertsDoForetell == Spec => []AlertsAreForetold
<1>1. AnswerInv => AlertsAreForetold
    BY RequestsDoForetell, PanelsDoForetell, Zenon DEF AlertsAreForetold
<1>2. QED BY <1>1, AnswersAreComputed, PTL

-----------------------------------------------------------------------------
(* Books to advise and to report on.                                       *)

(* A lot of a stock or a bond at a price of the model.                     *)
IsSlip(lot, id) ==
    \E security \in {"stock", "bond"}, price \in Prices \cup {<<0, 1>>}, acquired \in 1..5 :
        lot = Lot(id, BookLot("acct_1", security, price, acquired))

LEMMA SlipIsMarked ==
    ASSUME NEW lot, NEW id, IsSlip(lot, id)
    PROVE  /\ lot.id = id
           /\ lot.value \in 0..4 \cup {Unpriced}
           /\ lot.sleeve \in {"equity", "bonds"}
           /\ lot.acquired \in Int /\ lot.cost \in Int
           /\ lot.gain \in Int \cup {Unpriced}
           /\ lot.acquired <= Today => Expected(lot.sleeve, Today - lot.acquired) \in Int
<1>1. PICK security \in {"stock", "bond"}, price \in Prices \cup {<<0, 1>>}, acquired \in 1..5 :
          lot = Lot(id, BookLot("acct_1", security, price, acquired))
    BY DEF IsSlip
<1>2. lot.id = id /\ lot.value = price[1] /\ lot.sleeve = SleeveOf[security]
    BY <1>1 DEF Lot, BookLot
<1>3. price[1] \in 0..4 \cup {Unpriced}
    BY DEF Prices, Worthwhile
<1>4. security \in DOMAIN SleeveOf /\ SleeveOf[security] \in {"equity", "bonds"}
    BY DEF SleeveOf
<1>5. /\ lot.acquired \in Int /\ lot.cost \in Int
      /\ lot.gain \in Int \cup {Unpriced}
      /\ lot.acquired <= Today => Expected(lot.sleeve, Today - lot.acquired) \in Int
    <2> DEFINE slip == Lot(id, BookLot("acct_1", security, price, acquired))
    <2>1. /\ slip.acquired \in Int /\ slip.cost \in Int
          /\ slip.gain \in Int \cup {Unpriced}
          /\ slip.acquired <= Today => Expected(slip.sleeve, Today - slip.acquired) \in Int
        BY <1>4, BookLotIsRead, Zenon
    <2>2. lot = slip
        BY <1>1
    <2> HIDE DEF slip
    <2>3. QED BY <2>1, <2>2
<1>6. QED BY <1>2, <1>3, <1>4, <1>5

(* A list of up to two lots under names of their own.                      *)
IsSlips(lots, n, ids) ==
    /\ n \in 0..2 /\ DOMAIN lots = 1..n
    /\ \A i, j \in 1..n : ids[i] = ids[j] => i = j
    /\ \A i \in 1..n : IsSlip(lots[i], ids[i])

LEMMA SlipsAreBooks ==
    ASSUME NEW lots, NEW n, NEW ids, IsSlips(lots, n, ids)
    PROVE  /\ IsMarked(lots) /\ IsRead(lots, Today)
           /\ {lot.sleeve : lot \in MarkedLots(lots)} \subseteq {"equity", "bonds"}
<1>1. ASSUME NEW i \in 1..n
      PROVE  /\ lots[i].id = ids[i]
             /\ lots[i].value \in 0..4 \cup {Unpriced}
             /\ lots[i].sleeve \in {"equity", "bonds"}
             /\ lots[i].acquired \in Int /\ lots[i].cost \in Int
             /\ lots[i].gain \in Int \cup {Unpriced}
             /\ lots[i].acquired <= Today => Expected(lots[i].sleeve, Today - lots[i].acquired) \in Int
    <2>1. IsSlip(lots[i], ids[i])
        BY DEF IsSlips
    <2>2. QED BY <2>1, SlipIsMarked
<1>2. n \in Nat /\ DOMAIN lots = 1..n /\ \A i, j \in 1..n : ids[i] = ids[j] => i = j
    BY DEF IsSlips
<1>3. \A i, j \in DOMAIN lots : lots[i].id = lots[j].id => i = j
    BY <1>1, <1>2
<1>4. IsRead(lots, Today)
    BY <1>1, <1>2, <1>3 DEF IsRead
<1>5. IsMarked(lots)
    <2>1. \A i, j \in DOMAIN lots : lots[i] = lots[j] => i = j
        BY <1>3
    <2>2. \A i \in DOMAIN lots : lots[i].value \in Nat \cup {Unpriced}
        BY <1>1, <1>2
    <2>3. QED BY <1>2, <2>1, <2>2 DEF IsMarked
<1>6. {lot.sleeve : lot \in MarkedLots(lots)} \subseteq {"equity", "bonds"}
    BY <1>1, <1>2 DEF MarkedLots, ToSet
<1>7. QED BY <1>4, <1>5, <1>6

LEMMA TwoLotsWeigh ==
    ASSUME NEW M, NEW f, Weighs(f, M), NEW a, NEW b, M \subseteq {a, b},
           \A lot \in M : lot.value <= 4
    PROVE  WorthOf(M) <= 8
<1> DEFINE w == [lot \in M |-> lot.value]
<1>1. /\ Adds(f, w, M) /\ IsFiniteSet(M) /\ \A x \in M : w[x] \in Int
      /\ \A A \in SUBSET M : WorthOf(A) = f[A] /\ f[A] \in Nat
    BY DEF Weighs
<1> HIDE DEF w
<1>2. PICK A \in SUBSET M, B \in SUBSET M : A = M \cap {a} /\ B = M \ {a}
    OBVIOUS
<1>3. ASSUME NEW c, NEW C \in SUBSET M, C \subseteq {c} PROVE f[C] <= 4
    <2>1. CASE C = {}
        <3>1. f[C] = 0
            BY <1>1, <2>1 DEF Adds
        <3>2. QED BY <3>1
    <2>2. CASE C # {}
        <3>1. C = {c} /\ c \in M
            BY <1>3, <2>2
        <3>2. WorthOf({c}) = c.value
            <4>1. {} \in SUBSET M
                OBVIOUS
            <4>2. QED BY <3>1, <4>1, PartsWeighLess
        <3>3. QED BY <1>1, <3>1, <3>2
    <2>3. QED BY <2>1, <2>2
<1>4. f[A] <= 4 /\ f[B] <= 4
    <2>1. A \subseteq {a} /\ B \subseteq {b}
        BY <1>2
    <2>2. QED BY <1>3, <2>1
<1>5. f[M] = f[A] + f[B]
    <2>1. PICK U : U = M
        OBVIOUS
    <2>2. Adds(f, w, M) /\ IsFiniteSet(M) /\ A \cap B = {} /\ U = A \cup B
        BY <1>1, <1>2, <2>1
    <2>3. \A x \in M : w[x] \in Int
        BY <1>1
    <2>4. f[U] = f[A] + f[B]
        BY <2>2, <2>3, AddsApart
    <2>5. QED BY <2>1, <2>4
<1>6. M \in SUBSET M /\ f[A] \in Nat /\ f[B] \in Nat
    BY <1>1
<1>7. QED BY <1>1, <1>4, <1>5, <1>6

LEMMA SlipsWeigh ==
    ASSUME NEW lots, NEW n, NEW ids, IsSlips(lots, n, ids)
    PROVE  WorthOf(MarkedLots(lots)) \in Nat /\ WorthOf(MarkedLots(lots)) <= 8
<1>1. IsMarked(lots)
    BY SlipsAreBooks
<1>2. PICK f : Weighs(f, MarkedLots(lots))
    BY <1>1, MarkedAreFew, WorthsAreSums
<1>3. MarkedLots(lots) = {lots[i] : i \in {j \in DOMAIN lots : lots[j].value # Unpriced}}
    BY <1>1, MarkedAreFew
<1>4. MarkedLots(lots) \subseteq {lots[1], lots[2]}
    BY <1>3 DEF IsSlips
<1>5. \A lot \in MarkedLots(lots) : lot.value <= 4
    <2>1. ASSUME NEW i \in DOMAIN lots, lots[i].value # Unpriced PROVE lots[i].value <= 4
        <3>1. IsSlip(lots[i], ids[i])
            BY DEF IsSlips
        <3>2. lots[i].value \in 0..4 \cup {Unpriced}
            BY <3>1, SlipIsMarked
        <3>3. QED BY <2>1, <3>2
    <2>2. QED BY <1>3, <2>1
<1>6. WorthOf(MarkedLots(lots)) \in Nat
    <2>1. MarkedLots(lots) \in SUBSET MarkedLots(lots)
        OBVIOUS
    <2>2. QED BY <1>2, <2>1 DEF Weighs
<1>7. QED BY <1>2, <1>4, <1>5, <1>6, TwoLotsWeigh

-----------------------------------------------------------------------------
(* The policies a household is given: their bounds are fine, and whenever  *)
(* they can be met there is an optimum among the points looked at.         *)

LEMMA Thirds ==
    /\ Third \in Nat /\ Third > 0 /\ One = 3 * Third /\ DriftAlert \in Nat
    /\ \E step \in Nat : 8 <= step /\ OnGrid(Third, step) /\ OnGrid(DriftAlert, step)
<1>1. PICK step \in 8..One : {Third, DriftAlert} \subseteq {m * step : m \in 0..One}
    BY GridAssumption
<1>2. PICK k \in 0..One : Third = k * step
    BY <1>1
<1>3. PICK d \in 0..One : DriftAlert = d * step
    BY <1>1
<1>4. step \in Nat /\ 8 <= step /\ One \in Nat /\ One > 0 /\ k \in Int /\ d \in Int
    BY GridAssumption
<1>5. OnGrid(Third, step) /\ OnGrid(DriftAlert, step)
    BY <1>2, <1>3, <1>4 DEF OnGrid
<1>6. Third \in Int
    BY <1>4 DEF Third
<1>7. PICK t \in Int, one \in Int : t = Third /\ one = One /\ one > 0 /\ one = 3 * t
    BY <1>4, <1>6, GridAssumption
<1>8. t \in Nat /\ t > 0
    BY <1>7
<1>9. QED BY <1>4, <1>5, <1>7, <1>8, GridAssumption

IsTarget(target) == \E min, mid, max \in 0..3 : target = Target(min, mid, max)

LEMMA TargetIs ==
    ASSUME NEW min \in 0..3, NEW mid \in 0..3, NEW max \in 0..3
    PROVE  LET target == Target(min, mid, max)
           IN  target.min = min * Third /\ target.target = mid * Third /\ target.max = max * Third
BY DEF Target

LEMMA TargetsAreFine ==
    ASSUME NEW targets, \A s \in DOMAIN targets : IsTarget(targets[s]),
           NEW worth \in Nat, worth <= 8
    PROVE  IsFine(targets, worth)
<1>1. PICK step \in Nat : 8 <= step /\ OnGrid(Third, step) /\ OnGrid(DriftAlert, step)
    BY Thirds
<1>2. PICK k \in Int, d \in Int : Third = k * step /\ DriftAlert = d * step
    BY <1>1 DEF OnGrid
<1>3. Third \in Int /\ DriftAlert \in Int /\ One = 3 * Third
    BY Thirds
<1>4. \A m \in 0..3 : m * Third \in Int /\ OnGrid(m * Third, step) /\ OnGrid(m * Third + DriftAlert, step)
    <2>1. ASSUME NEW m \in 0..3
          PROVE  m * Third \in Int /\ OnGrid(m * Third, step) /\ OnGrid(m * Third + DriftAlert, step)
        <3>1. m * Third = (m * k) * step /\ m * k \in Int
            BY <1>2
        <3>2. m * Third + DriftAlert = (m * k + d) * step /\ m * k + d \in Int
            BY <1>2, <3>1
        <3>3. m * Third \in Int
            BY <1>3
        <3>4. QED BY <3>1, <3>2, <3>3 DEF OnGrid
    <2>2. QED BY <2>1
<1>5. OnGrid(One, step) /\ One \in Int
    BY <1>3, <1>4
<1>6. ASSUME NEW s \in DOMAIN targets
      PROVE  /\ targets[s].max \in Int /\ targets[s].min \in Int /\ targets[s].target \in Int
             /\ OnGrid(targets[s].max, step) /\ OnGrid(targets[s].target + DriftAlert, step)
    <2>1. PICK min \in 0..3, mid \in 0..3, max \in 0..3 : targets[s] = Target(min, mid, max)
        BY DEF IsTarget
    <2>2. /\ targets[s].min = min * Third /\ targets[s].target = mid * Third
          /\ targets[s].max = max * Third
        BY <2>1, TargetIs
    <2>3. QED BY <1>4, <2>2
<1>7. worth <= step
    BY <1>1
<1>8. QED BY <1>3, <1>5, <1>6, <1>7 DEF IsFine

LEMMA TotalOfOne ==
    ASSUME NEW w, NEW a, IsFun(w), DOMAIN w = {a}, w[a] \in Int PROVE TotalOf(w) = w[a]
<1>1. Summable(w)
    BY FS_Singleton DEF Summable
<1>2. PICK f : Adds(f, w, {a})
    BY <1>1, SumsExist
<1>3. {a} \in SUBSET {a} /\ a \in {a} /\ {a} \ {a} = {}
    OBVIOUS
<1>4. f[{a}] = w[a] + f[{}] /\ f[{}] = 0
    BY <1>2, <1>3 DEF Adds
<1>5. TotalOf(w) = f[{a}]
    BY <1>2, TotalIsAdded
<1>6. QED BY <1>4, <1>5

LEMMA TotalOfTwo ==
    ASSUME NEW w, NEW a, NEW b, a # b, IsFun(w), DOMAIN w = {a, b}, w[a] \in Int, w[b] \in Int
    PROVE  TotalOf(w) = w[a] + w[b]
<1>1. Summable(w)
    <2>1. IsFiniteSet({a}) /\ {a, b} = {a} \cup {b}
        BY FS_Singleton
    <2>2. IsFiniteSet({a, b})
        BY <2>1, FS_AddElement
    <2>3. QED BY <2>2 DEF Summable
<1>2. PICK f : Adds(f, w, {a, b})
    BY <1>1, SumsExist
<1>3. /\ {a, b} \in SUBSET {a, b} /\ a \in {a, b} /\ {a, b} \ {a} = {b}
      /\ {b} \in SUBSET {a, b} /\ b \in {b} /\ {b} \ {b} = {}
    OBVIOUS
<1>4. f[{a, b}] = w[a] + f[{b}]
    BY <1>2, <1>3 DEF Adds
<1>5. f[{b}] = w[b] + f[{}] /\ f[{}] = 0
    BY <1>2, <1>3 DEF Adds
<1>6. TotalOf(w) = f[{a, b}]
    BY <1>2, TotalIsAdded
<1>7. QED BY <1>4, <1>5, <1>6

(* The whole book in one sleeve that may hold it, and nothing elsewhere.   *)
LEMMA AllOnOne ==
    ASSUME NEW universe, IsFiniteSet(universe), NEW targets, NEW s \in universe,
           FloorOf(targets, s) <= One, One <= CapOf(targets, s),
           \A x \in universe \ {s} : FloorOf(targets, x) <= 0 /\ 0 <= CapOf(targets, x)
    PROVE  Optima(universe, targets) # {}
<1> DEFINE w == [x \in universe |-> IF x = s THEN One ELSE 0]
           v == [x \in {s} |-> One]
<1>1. One \in Int
    BY GridAssumption
<1>2. w \in [universe -> {0, Third, 2 * Third, One}]
    OBVIOUS
<1>3. /\ IsFun(w) /\ Summable(w) /\ IsFun(v) /\ DOMAIN v \in SUBSET DOMAIN w
      /\ \A x \in DOMAIN w : w[x] = IF x \in DOMAIN v THEN v[x] ELSE 0
      /\ DOMAIN v = {s} /\ v[s] = One
    BY <1>1 DEF IsFun, Summable
<1>4. \A x \in DOMAIN w : FloorOf(targets, x) <= w[x] /\ w[x] <= CapOf(targets, x)
    OBVIOUS
<1> HIDE DEF w, v
<1>5. TotalOf(w) = TotalOf(v)
    BY <1>3, TotalOfMore
<1>6. TotalOf(v) = One
    BY <1>1, <1>3, TotalOfOne
<1>7. InPolicy(w, targets)
    BY <1>4, <1>5, <1>6 DEF InPolicy
<1>8. QED BY <1>2, <1>7 DEF Optima

LEMMA NothingTotals ==
    ASSUME NEW w, IsFun(w), DOMAIN w = {} PROVE TotalOf(w) = 0
<1>1. Summable(w)
    BY FS_EmptySet DEF Summable
<1>2. PICK f : Adds(f, w, {})
    BY <1>1, SumsExist
<1>3. TotalOf(w) = f[{}]
    BY <1>2, TotalIsAdded
<1>4. QED BY <1>2, <1>3 DEF Adds

LEMMA FewSleeves ==
    ASSUME NEW S, S \subseteq {"equity", "bonds", "cash"} PROVE IsFiniteSet(S)
<1>1. IsFiniteSet({"equity"}) /\ {"equity", "bonds"} = {"equity"} \cup {"bonds"}
    BY FS_Singleton
<1>2. IsFiniteSet({"equity", "bonds"})
    BY <1>1, FS_AddElement
<1>3. {"equity", "bonds", "cash"} = {"equity", "bonds"} \cup {"cash"}
    OBVIOUS
<1>4. IsFiniteSet({"equity", "bonds", "cash"})
    BY <1>2, <1>3, FS_AddElement
<1>5. QED BY <1>4, FS_Subset

(* The policies with no target, one, and two.                              *)
LEMMA FreeHasOptimum ==
    ASSUME NEW held, held \subseteq {"equity", "bonds"}, BoundsMeet(<<>>, held)
    PROVE  Optima(held, <<>>) # {}
<1>1. DOMAIN <<>> = {}
    BY NoneOfNone
<1>2. \A s : FloorOf(<<>>, s) = 0 /\ CapOf(<<>>, s) = One
    BY <1>1, Zenon DEF FloorOf, CapOf
<1>3. One \in Nat /\ One > 0
    BY Thirds
<1>4. held # {}
    <2>1. SUFFICES ASSUME held = {} PROVE FALSE
        OBVIOUS
    <2> DEFINE w == [s \in held |-> CapOf(<<>>, s)]
    <2>2. IsFun(w) /\ DOMAIN w = {}
        BY <2>1 DEF IsFun
    <2>3. TotalOf(w) >= One
        BY DEF BoundsMeet
    <2> HIDE DEF w
    <2>4. TotalOf(w) = 0
        BY <2>2, NothingTotals
    <2>5. QED BY <1>3, <2>3, <2>4
<1>5. PICK s \in held : TRUE
    BY <1>4
<1>6. IsFiniteSet(held)
    BY FewSleeves
<1>7. QED BY <1>2, <1>3, <1>5, <1>6, AllOnOne

(* A sleeve that may take the whole book makes an optimum.                 *)
LEMMA OneTakesAll ==
    ASSUME NEW universe, universe \subseteq {"equity", "bonds", "cash"}, NEW targets,
           NEW s \in universe,
           s \in DOMAIN targets => targets[s].min <= One /\ One <= targets[s].max,
           \A x \in DOMAIN targets : x # s => targets[x].min <= 0 /\ 0 <= targets[x].max
    PROVE  Optima(universe, targets) # {}
<1>1. One \in Nat
    BY Thirds
<1>2. FloorOf(targets, s) <= One /\ One <= CapOf(targets, s)
    BY <1>1 DEF FloorOf, CapOf
<1>3. \A x \in universe \ {s} : FloorOf(targets, x) <= 0 /\ 0 <= CapOf(targets, x)
    BY <1>1 DEF FloorOf, CapOf
<1>4. QED BY <1>2, <1>3, FewSleeves, AllOnOne

(* The bounds of two sleeves that leave a third of the book no place, and  *)
(* of two that take more than there is.                                    *)
LEMMA TwoCapsTooLow ==
    ASSUME NEW targets, DOMAIN targets = {"equity", "cash"},
           targets["equity"].max = Third, targets["cash"].max = Third
    PROVE  ~ BoundsMeet(targets, {"equity", "cash"})
<1> DEFINE w == [s \in {"equity", "cash"} |-> CapOf(targets, s)]
<1>1. Third \in Nat /\ Third > 0 /\ One = 3 * Third
    BY Thirds
<1>2. IsFun(w) /\ DOMAIN w = {"equity", "cash"} /\ w["equity"] = Third /\ w["cash"] = Third
    BY DEF IsFun, CapOf
<1>3. BoundsMeet(targets, {"equity", "cash"}) => TotalOf(w) >= One
    BY DEF BoundsMeet
<1> HIDE DEF w
<1>4. TotalOf(w) = Third + Third
    BY <1>1, <1>2, TotalOfTwo
<1>5. QED BY <1>1, <1>3, <1>4

LEMMA TwoFloorsTooHigh ==
    ASSUME NEW targets, DOMAIN targets = {"equity", "bonds"},
           targets["equity"].min = 2 * Third, targets["bonds"].min = 2 * Third
    PROVE  ~ BoundsMeet(targets, {"equity", "bonds"})
<1> DEFINE w == [s \in {"equity", "bonds"} |-> FloorOf(targets, s)]
<1>1. Third \in Nat /\ Third > 0 /\ One = 3 * Third
    BY Thirds
<1>2. /\ IsFun(w) /\ DOMAIN w = {"equity", "bonds"}
      /\ w["equity"] = 2 * Third /\ w["bonds"] = 2 * Third
    BY DEF IsFun, FloorOf
<1>3. BoundsMeet(targets, {"equity", "bonds"}) => TotalOf(w) <= One
    BY DEF BoundsMeet
<1> HIDE DEF w
<1>4. TotalOf(w) = 2 * Third + 2 * Third
    BY <1>1, <1>2, TotalOfTwo
<1>5. QED BY <1>1, <1>3, <1>4

(* The targets a policy may have.                                          *)
IsOffered(targets) ==
    \/ targets = <<>>
    \/ targets = Only("equity", Target(1, 2, 3))
    \/ targets = Both("equity", Target(2, 3, 3), "bonds", Target(0, 0, 1))
    \/ targets = Both("equity", Target(0, 1, 1), "cash", Target(0, 0, 1))
    \/ targets = Both("equity", Target(2, 2, 3), "bonds", Target(2, 2, 3))

LEMMA PolicyOffers ==
    ASSUME NEW policy \in Policies, policy # NoPolicy
    PROVE  policy.budget = NoBudget /\ IsOffered(policy.targets)
<1> DEFINE offers == {<<>>, Only("equity", Target(1, 2, 3)),
                      Both("equity", Target(2, 3, 3), "bonds", Target(0, 0, 1)),
                      Both("equity", Target(0, 1, 1), "cash", Target(0, 0, 1)),
                      Both("equity", Target(2, 2, 3), "bonds", Target(2, 2, 3))}
<1>1. policy \in [targets : offers, limit : {One \div 2, One}, floor : {NoLimit, One \div 2},
                  budget : {NoBudget}, restricted : {{"bond"}}]
    BY DEF Policies
<1>2. \A targets \in offers : IsOffered(targets)
    BY DEF IsOffered
<1> HIDE DEF offers
<1>3. policy.targets \in offers /\ policy.budget \in {NoBudget}
    BY <1>1
<1>4. QED BY <1>2, <1>3

LEMMA ThreeThirds ==
    \A min, mid, max \in 0..3 :
        /\ min <= 3 => Target(min, mid, max).min <= One
        /\ max = 3 => One <= Target(min, mid, max).max
        /\ min = 0 => Target(min, mid, max).min <= 0
        /\ 0 <= Target(min, mid, max).max
<1>1. PICK t \in Nat : t = Third /\ t > 0 /\ One = 3 * t
    BY Thirds
<1>2. ASSUME NEW min \in 0..3, NEW mid \in 0..3, NEW max \in 0..3
      PROVE  /\ min <= 3 => Target(min, mid, max).min <= One
             /\ max = 3 => One <= Target(min, mid, max).max
             /\ min = 0 => Target(min, mid, max).min <= 0
             /\ 0 <= Target(min, mid, max).max
    <2>1. Target(min, mid, max).min = min * t /\ Target(min, mid, max).max = max * t
        BY <1>1 DEF Target
    <2>2. min * t <= 3 * t /\ 0 <= max * t
        <3>1. min \in {0, 1, 2, 3} /\ max \in {0, 1, 2, 3}
            OBVIOUS
        <3>2. QED BY <3>1
    <2>3. QED BY <1>1, <2>1, <2>2
<1>3. QED BY <1>2

(* A policy that can be met is met by one of the points looked at.         *)
LEMMA OfferedIsMet ==
    ASSUME NEW targets, IsOffered(targets), NEW held, held \subseteq {"equity", "bonds"},
           BoundsMeet(targets, DOMAIN targets \cup held)
    PROVE  Optima(DOMAIN targets \cup held, targets) # {}
<1>1. CASE targets = <<>>
    <2>1. DOMAIN <<>> \cup held = held
        BY NoneOfNone
    <2>2. QED BY <1>1, <2>1, FreeHasOptimum
<1>2. CASE targets = Only("equity", Target(1, 2, 3))
    <2>1. DOMAIN targets = {"equity"} /\ targets["equity"] = Target(1, 2, 3)
        BY <1>2 DEF Only
    <2>2. targets["equity"].min <= One /\ One <= targets["equity"].max
        BY <2>1, ThreeThirds
    <2>3. PICK universe : universe = DOMAIN targets \cup held
        OBVIOUS
    <2>4. "equity" \in universe /\ universe \subseteq {"equity", "bonds", "cash"}
        BY <2>1, <2>3
    <2>5. QED BY <2>1, <2>2, <2>3, <2>4, OneTakesAll
<1>3. CASE targets = Both("equity", Target(2, 3, 3), "bonds", Target(0, 0, 1))
    <2>1. /\ DOMAIN targets = {"equity", "bonds"} /\ targets["equity"] = Target(2, 3, 3)
          /\ targets["bonds"] = Target(0, 0, 1)
        BY <1>3 DEF Both
    <2>2. /\ targets["equity"].min <= One /\ One <= targets["equity"].max
          /\ targets["bonds"].min <= 0 /\ 0 <= targets["bonds"].max
        BY <2>1, ThreeThirds
    <2>3. PICK universe : universe = DOMAIN targets \cup held
        OBVIOUS
    <2>4. "equity" \in universe /\ universe \subseteq {"equity", "bonds", "cash"}
        BY <2>1, <2>3
    <2>5. QED BY <2>1, <2>2, <2>3, <2>4, OneTakesAll
<1>4. CASE targets = Both("equity", Target(0, 1, 1), "cash", Target(0, 0, 1))
    <2>1. /\ DOMAIN targets = {"equity", "cash"} /\ targets["equity"] = Target(0, 1, 1)
          /\ targets["cash"] = Target(0, 0, 1)
        BY <1>4 DEF Both
    <2>2. /\ targets["equity"].min <= 0 /\ 0 <= targets["equity"].max
          /\ targets["cash"].min <= 0 /\ 0 <= targets["cash"].max
        BY <2>1, ThreeThirds
    <2>3. PICK universe : universe = DOMAIN targets \cup held
        OBVIOUS
    <2>4. universe \subseteq {"equity", "bonds", "cash"}
        BY <2>1, <2>3
    <2>5. CASE "bonds" \in held
        <3>1. "bonds" \in universe /\ "bonds" \notin DOMAIN targets
            BY <2>1, <2>3, <2>5
        <3>2. QED BY <2>1, <2>2, <2>3, <2>4, <3>1, OneTakesAll
    <2>6. CASE "bonds" \notin held
        <3>1. DOMAIN targets \cup held = {"equity", "cash"}
            BY <2>1, <2>6
        <3>2. targets["equity"].max = Third /\ targets["cash"].max = Third
            BY <2>1, Thirds DEF Target
        <3>3. ~ BoundsMeet(targets, {"equity", "cash"})
            BY <2>1, <3>2, TwoCapsTooLow
        <3>4. QED BY <3>1, <3>3
    <2>7. QED BY <2>5, <2>6
<1>5. CASE targets = Both("equity", Target(2, 2, 3), "bonds", Target(2, 2, 3))
    <2>1. /\ DOMAIN targets = {"equity", "bonds"} /\ targets["equity"] = Target(2, 2, 3)
          /\ targets["bonds"] = Target(2, 2, 3)
        BY <1>5 DEF Both
    <2>2. DOMAIN targets \cup held = {"equity", "bonds"}
        BY <2>1
    <2>3. targets["equity"].min = 2 * Third /\ targets["bonds"].min = 2 * Third
        BY <2>1, Thirds DEF Target
    <2>4. ~ BoundsMeet(targets, {"equity", "bonds"})
        BY <2>1, <2>3, TwoFloorsTooHigh
    <2>5. QED BY <2>2, <2>4
<1>6. QED BY <1>1, <1>2, <1>3, <1>4, <1>5 DEF IsOffered

LEMMA OfferedIsFine ==
    ASSUME NEW targets, IsOffered(targets), NEW worth \in Nat, worth <= 8
    PROVE  IsFine(targets, worth)
<1>1. ASSUME NEW s \in DOMAIN targets PROVE IsTarget(targets[s])
    <2>1. DOMAIN <<>> = {}
        BY NoneOfNone
    <2>2. \A min, mid, max \in 0..3 : IsTarget(Target(min, mid, max))
        BY DEF IsTarget
    <2>3. CASE targets = <<>>
        BY <1>1, <2>1, <2>3
    <2>4. CASE targets = Only("equity", Target(1, 2, 3))
        BY <1>1, <2>2, <2>4 DEF Only
    <2>5. CASE targets = Both("equity", Target(2, 3, 3), "bonds", Target(0, 0, 1))
        <3>1. s \in {"equity", "bonds"} /\ targets["equity"] = Target(2, 3, 3)
              /\ targets["bonds"] = Target(0, 0, 1)
            BY <1>1, <2>5 DEF Both
        <3>2. QED BY <2>2, <3>1
    <2>6. CASE targets = Both("equity", Target(0, 1, 1), "cash", Target(0, 0, 1))
        <3>1. s \in {"equity", "cash"} /\ targets["equity"] = Target(0, 1, 1)
              /\ targets["cash"] = Target(0, 0, 1)
            BY <1>1, <2>6 DEF Both
        <3>2. QED BY <2>2, <3>1
    <2>7. CASE targets = Both("equity", Target(2, 2, 3), "bonds", Target(2, 2, 3))
        <3>1. s \in {"equity", "bonds"} /\ targets["equity"] = Target(2, 2, 3)
              /\ targets["bonds"] = Target(2, 2, 3)
            BY <1>1, <2>7 DEF Both
        <3>2. QED BY <2>2, <3>1
    <2>8. QED BY <2>3, <2>4, <2>5, <2>6, <2>7 DEF IsOffered
<1>2. QED BY <1>1, TargetsAreFine

LEMMA OptimumIsOne ==
    ASSUME NEW lots, IsMarked(lots),
           {lot.sleeve : lot \in MarkedLots(lots)} \subseteq {"equity", "bonds"},
           NEW policy, policy # NoPolicy, IsOffered(policy.targets), policy.budget = NoBudget
    PROVE  HasOptimum(lots, policy, OptimumFor(lots, policy))
<1> DEFINE held == {lot.sleeve : lot \in MarkedLots(lots)}
           universe == DOMAIN policy.targets \cup held
           found == Optima(universe, policy.targets)
<1>1. DOMAIN WorthBySleeve(lots) \cup DOMAIN policy.targets = universe
    BY DEF WorthBySleeve
<1>2. OptimumFor(lots, policy) = CHOOSE w \in AnOptimum(universe, policy.targets) : TRUE
    BY <1>1 DEF OptimumFor
<1>3. SleevesOf(lots, policy) = universe
    BY DEF SleevesOf
<1>4. ASSUME BoundsMeet(policy.targets, universe) PROVE TotalOf(OptimumFor(lots, policy)) = One
    <2>1. found # {}
        BY <1>4, OfferedIsMet
    <2>2. AnOptimum(universe, policy.targets) = found
        BY <2>1 DEF AnOptimum
    <2> HIDE DEF found
    <2>3. OptimumFor(lots, policy) \in found
        BY <1>2, <2>1, <2>2
    <2>4. InPolicy(OptimumFor(lots, policy), policy.targets)
        BY <2>3, Zenon DEF found, Optima
    <2>5. QED BY <2>4 DEF InPolicy
<1>5. QED BY <1>3, <1>4 DEF HasOptimum

(* A request for advice that is given: its lots are slips, its policy is   *)
(* one of the policies, its optimum is the optimum for the two.            *)
LEMMA ConsultationsGiven ==
    ASSUME Given, input.of = "advice"
    PROVE  /\ \E n : IsSlips(input.lots, n, LotId)
           /\ input.policy \in Policies /\ input.risk[1] # "breach"
           /\ input.optimum = OptimumFor(input.lots, input.policy)
<1>1. Consultations
    BY KindsApart DEF Given
<1>2. PICK n \in 0..2 :
          \E shapes \in [1..n -> AdviceShapes], policy \in Policies,
             funds \in (IF n = 0 THEN {{}, {[nav |-> 1]}} ELSE {{[nav |-> 1]}}), risk \in Verdicts :
             input = [of |-> "advice", lots |-> NamedLots(shapes), funds |-> funds,
                      policy |-> policy, risk |-> risk,
                      optimum |-> OptimumFor(NamedLots(shapes), policy)]
    BY <1>1 DEF Consultations
<1>3. PICK shapes \in [1..n -> AdviceShapes], policy \in Policies, risk \in Verdicts :
          /\ input.lots = NamedLots(shapes) /\ input.policy = policy /\ input.risk = risk
          /\ input.optimum = OptimumFor(NamedLots(shapes), policy)
    BY <1>2
<1>4. ASSUME NEW i \in 1..n PROVE IsSlip(Lot(LotId[i], shapes[i]), LotId[i])
    <2>1. shapes[i] \in AdviceShapes
        OBVIOUS
    <2>2. PICK s \in {"stock", "bond"}, p \in Prices \cup {<< 0, 1>>}, d \in {1, 5} :
              shapes[i] = BookLot("acct_1", s, p, d)
        BY <2>1 DEF AdviceShapes
    <2>3. d \in 1..5
        OBVIOUS
    <2>4. QED BY <2>2, <2>3 DEF IsSlip
<1>5. DOMAIN input.lots = 1..n /\ \A i \in 1..n : input.lots[i] = Lot(LotId[i], shapes[i])
    BY <1>3 DEF NamedLots
<1>6. \A i, j \in 1..n : LotId[i] = LotId[j] => i = j
    <2>1. \A i, j \in 1..4 : LotId[i] = LotId[j] => i = j
        BY DEF LotId
    <2>2. 1..n \subseteq 1..4
        OBVIOUS
    <2>3. QED BY <2>1, <2>2
<1>7. IsSlips(input.lots, n, LotId)
    BY <1>4, <1>5, <1>6 DEF IsSlips
<1>8. risk[1] # "breach"
    <2>1. \A two, four : Verdict(two, four)[1] = "pass"
        BY DEF Verdict
    <2>2. \E two, four : risk = Verdict(two, four)
        BY DEF Verdicts
    <2>3. QED BY <2>1, <2>2
<1>9. QED BY <1>3, <1>7, <1>8

(* A request is answered exactly when it can be, and its headline is a     *)
(* breach exactly when the engine or the book says so (pm.advise,          *)
(* policy.check, score_axioms).                                            *)
THEOREM HeadlineDoesTell == RaisedApart => (Spec => []HeadlineIsHonest)
<1> SUFFICES ASSUME RaisedApart PROVE Spec => []HeadlineIsHonest
    OBVIOUS
<1>1. ASSUME AnswerInv PROVE HeadlineIsHonest
    <2>1. SUFFICES ASSUME Done("advice")
                   PROVE  /\ result = Failed <=> ~ Advisable(input.lots, input.policy, Today)
                          /\ result # Failed =>
                                Honest(result, input.lots, input.policy, input.risk)
        BY DEF HeadlineIsHonest
    <2>2. result = Advise(input.lots, input.funds, input.policy, input.risk, input.optimum,
                          GroupOf, Today)
        BY <1>1, <2>1 DEF Done, AnswerInv
    <2>3. /\ \E n : IsSlips(input.lots, n, LotId)
          /\ input.policy \in Policies /\ input.risk[1] # "breach"
          /\ input.optimum = OptimumFor(input.lots, input.policy)
        BY <1>1, <2>1, ConsultationsGiven DEF Done, AnswerInv
    <2>4. PICK lots, funds, policy, risk, optimum :
              /\ lots = input.lots /\ funds = input.funds /\ policy = input.policy
              /\ risk = input.risk /\ optimum = input.optimum
        OBVIOUS
    <2>5. PICK n : IsSlips(lots, n, LotId)
        BY <2>3, <2>4
    <2>6. /\ IsMarked(lots) /\ IsRead(lots, Today)
          /\ {lot.sleeve : lot \in MarkedLots(lots)} \subseteq {"equity", "bonds"}
        BY <2>5, SlipsAreBooks
    <2>7. ASSUME policy # NoPolicy
          PROVE  /\ HasOptimum(lots, policy, optimum)
                 /\ IsFine(policy.targets, WorthOf(MarkedLots(lots)))
        <3>1. policy.budget = NoBudget /\ IsOffered(policy.targets)
            BY <2>3, <2>4, <2>7, PolicyOffers
        <3>2. HasOptimum(lots, policy, optimum)
            BY <2>3, <2>4, <2>6, <2>7, <3>1, OptimumIsOne
        <3>3. WorthOf(MarkedLots(lots)) \in Nat /\ WorthOf(MarkedLots(lots)) <= 8
            BY <2>5, SlipsWeigh
        <3>4. QED BY <3>1, <3>2, <3>3, OfferedIsFine
    <2>8. Today \in Int /\ DriftAlert >= 0 /\ risk[1] # "breach"
        BY <2>3, <2>4, Thirds DEF Today
    <2>9. PICK advice : advice = Advise(lots, funds, policy, risk, optimum, GroupOf, Today)
        OBVIOUS
    <2>10. /\ advice = Failed <=> ~ Advisable(lots, policy, Today)
           /\ advice # Failed => Honest(advice, lots, policy, risk)
        BY <2>6, <2>7, <2>8, <2>9, HeadlinesAreHonest
    <2>11. QED BY <2>2, <2>4, <2>9, <2>10
<1>2. QED BY <1>1, AnswersAreComputed, PTL

-----------------------------------------------------------------------------
(* The households that are reported on.                                    *)

LEMMA SlipIsPriced ==
    ASSUME NEW lot, NEW id, IsSlip(lot, id)
    PROVE  lot.gain = Unpriced <=> lot.value = Unpriced
<1>1. PICK security \in {"stock", "bond"}, price \in Prices \cup {<< 0, 1>>}, acquired \in 1..5 :
          lot = Lot(id, BookLot("acct_1", security, price, acquired))
    BY DEF IsSlip
<1>2. lot.value = price[1] /\ lot.gain = IF price[1] = Unpriced THEN Unpriced ELSE price[1] - price[2]
    BY <1>1 DEF Lot, BookLot
<1>3. price[2] \in Int /\ (price[1] \in Int \/ price[1] = Unpriced)
    <2>1. CASE price \in Worthwhile
        BY <2>1 DEF Worthwhile
    <2>2. CASE price \in {<<Unpriced, 2>>, <<2, 0>>, <<0, 1>>}
        BY <2>2
    <2>3. QED BY <2>1, <2>2 DEF Prices
<1>4. Unpriced \notin Int
    BY RatesAssumption
<1>5. CASE price[1] = Unpriced
    BY <1>2, <1>5
<1>6. CASE price[1] # Unpriced
    <2>1. price[1] - price[2] \in Int
        BY <1>3, <1>6
    <2>2. lot.gain = price[1] - price[2]
        BY <1>2, <1>6
    <2>3. QED BY <1>2, <1>4, <1>6, <2>1, <2>2
<1>7. QED BY <1>5, <1>6

LEMMA SlipsAreStatements ==
    ASSUME NEW lots, NEW n, NEW ids, IsSlips(lots, n, ids)
    PROVE  IsStatement(lots)
<1>1. IsMarked(lots) /\ DOMAIN lots = 1..n
    BY SlipsAreBooks DEF IsSlips
<1>2. ASSUME NEW i \in DOMAIN lots
      PROVE  /\ lots[i].acquired \in Int /\ lots[i].cost \in Int
             /\ lots[i].gain \in Int \cup {Unpriced}
             /\ lots[i].gain = Unpriced <=> lots[i].value = Unpriced
    <2>1. IsSlip(lots[i], ids[i])
        BY <1>1 DEF IsSlips
    <2>2. QED BY <2>1, SlipIsMarked, SlipIsPriced
<1>3. QED BY <1>1, <1>2 DEF IsStatement

LEMMA StatementIsSlip ==
    ASSUME NEW i \in 1..2, NEW price \in StatementPrices, NEW acquired \in {1, 5}
    PROVE  IsSlip(Lot(i, Statement(i, price, acquired)), i)
<1>1. PICK security \in {"stock", "bond"} : security = IF i = 1 THEN "stock" ELSE "bond"
    OBVIOUS
<1>2. Statement(i, price, acquired) = BookLot("acct_1", security, price, acquired)
    BY <1>1 DEF Statement
<1>3. price \in Prices \cup {<< 0, 1>>} /\ acquired \in 1..5
    BY DEF StatementPrices, Prices
<1>4. QED BY <1>2, <1>3 DEF IsSlip

(* A list of statements under their places.                                *)
Placed(lots) == \E n : IsSlips(lots, n, [i \in 1..2 |-> i])

LEMMA StatementsArePlaced ==
    ASSUME NEW lots \in Statements PROVE Placed(lots)
<1>0. PICK n \in 0..2 : \E prices \in [1..n -> StatementPrices], acquired \in {1, 5} :
          lots = [i \in DOMAIN prices |-> Lot(i, Statement(i, prices[i], acquired))]
    BY DEF Statements
<1>1. PICK prices \in [1..n -> StatementPrices], acquired \in {1, 5} :
          lots = [i \in DOMAIN prices |-> Lot(i, Statement(i, prices[i], acquired))]
    BY <1>0
<1> DEFINE ids == [i \in 1..2 |-> i]
<1>2. DOMAIN lots = 1..n /\ 1..n \subseteq 1..2
    BY <1>1
<1>3. \A i \in 1..n : ids[i] = i
    BY <1>2
<1>4. ASSUME NEW i \in 1..n PROVE IsSlip(lots[i], ids[i])
    <2>1. i \in 1..2 /\ prices[i] \in StatementPrices
        BY <1>2
    <2>2. IsSlip(Lot(i, Statement(i, prices[i], acquired)), i)
        BY <2>1, StatementIsSlip
    <2>3. lots[i] = Lot(i, Statement(i, prices[i], acquired))
        BY <1>1
    <2>4. QED BY <1>3, <2>2, <2>3
<1> HIDE DEF ids
<1>5. IsSlips(lots, n, ids)
    BY <1>2, <1>3, <1>4 DEF IsSlips
<1>6. QED BY <1>5 DEF Placed, ids

LEMMA LastingIsPlaced == Placed(Lasting)
<1> DEFINE ids == [i \in 1..2 |-> i]
           price == <<3, 2>>
<1>1. price \in StatementPrices
    BY DEF StatementPrices, Worthwhile
<1>2. 1 \in 1..2 /\ 1 \in {1, 5}
    OBVIOUS
<1> HIDE DEF price
<1>3. IsSlip(Lot(1, Statement(1, price, 1)), 1)
    BY <1>1, <1>2, StatementIsSlip
<1>4. DOMAIN Lasting = 1..1 /\ Lasting[1] = Lot(1, Statement(1, price, 1))
    BY DEF Lasting, price
<1>5. \A i \in 1..1 : i = 1
    OBVIOUS
<1>6. ids[1] = 1 /\ 1 \in 0..2
    BY <1>2
<1> HIDE DEF ids
<1>7. IsSlips(Lasting, 1, ids)
    BY <1>3, <1>4, <1>5, <1>6 DEF IsSlips
<1>8. QED BY <1>7 DEF Placed, ids

(* The policies of the reports, and the bounds in them.                    *)
IsReportPolicy(policy) ==
    /\ IsFiniteSet(DOMAIN policy.targets)
    /\ \A s \in DOMAIN policy.targets : IsTarget(policy.targets[s])

LEMMA ReportPoliciesAreFine ==
    ASSUME NEW policy \in ReportPolicies \cup {Standing}, policy # NoPolicy
    PROVE  IsReportPolicy(policy)
<1>1. \A min, mid, max \in 0..3 : IsTarget(Target(min, mid, max))
    BY DEF IsTarget
<1>2. ASSUME NEW s, NEW target, IsTarget(target), policy.targets = Only(s, target)
      PROVE  IsReportPolicy(policy)
    <2>1. DOMAIN policy.targets = {s} /\ policy.targets[s] = target
        BY <1>2 DEF Only
    <2>2. IsFiniteSet({s})
        BY FS_Singleton
    <2>3. QED BY <1>2, <2>1, <2>2 DEF IsReportPolicy
<1>3. CASE policy = Standing
    <2>1. policy.targets = Both("equity", Target(1, 2, 3), "bonds", Target(0, 0, 1))
        BY <1>3 DEF Standing
    <2>2. /\ DOMAIN policy.targets = {"equity", "bonds"}
          /\ policy.targets["equity"] = Target(1, 2, 3) /\ policy.targets["bonds"] = Target(0, 0, 1)
        BY <2>1 DEF Both
    <2>3. IsFiniteSet({"equity", "bonds"})
        BY FewSleeves
    <2>4. QED BY <1>1, <2>2, <2>3 DEF IsReportPolicy
<1>4. CASE policy # Standing
    <2> DEFINE offers == {Only("equity", Target(1, 2, 3)), Only("bonds", Target(0, 0, 1))}
    <2>1. policy \in [targets : offers, limit : {One \div 2, One}, floor : {NoLimit, One \div 2},
                      budget : {NoBudget}, restricted : {{}}]
        BY <1>4 DEF ReportPolicies
    <2>2. policy.targets \in offers
        <3> HIDE DEF offers
        <3>1. QED BY <2>1
    <2>3. IsTarget(Target(1, 2, 3)) /\ IsTarget(Target(0, 0, 1))
        BY <1>1
    <2>4. CASE policy.targets = Only("equity", Target(1, 2, 3))
        BY <1>2, <2>3, <2>4
    <2>5. CASE policy.targets = Only("bonds", Target(0, 0, 1))
        BY <1>2, <2>3, <2>5
    <2>6. QED BY <2>2, <2>4, <2>5
<1>5. QED BY <1>3, <1>4

(* The bundles on disk.                                                    *)
IsOnDisk(bundle) ==
    \E r \in BOOLEAN, d \in {1, 4, 5, 6, 7}, g \in {1, 2, Now + 1}, s \in {"equity", "bonds"} :
        bundle = Earlier(r, d, g, s)

LEMMA OnDiskIs ==
    ASSUME NEW bundle, IsOnDisk(bundle), IsNoFunction(NoComparison)
    PROVE  /\ bundle.asOf \in Nat /\ bundle.generated \in Int /\ bundle.generated # Now
           /\ bundle # NoComparison
           /\ \A s \in DOMAIN bundle.weights : bundle.weights[s] \in Int
<1>1. PICK r \in BOOLEAN, d \in {1, 4, 5, 6, 7}, g \in {1, 2, Now + 1}, sleeve \in {"equity", "bonds"} :
          bundle = Earlier(r, d, g, sleeve)
    BY DEF IsOnDisk
<1>2. bundle.asOf = d /\ bundle.generated = g /\ bundle.weights = Only(sleeve, One \div 2)
    BY <1>1, Zenon DEF Earlier
<1>3. bundle.generated \in Int /\ bundle.generated # Now
    BY <1>2 DEF Now
<1>4. One \div 2 \in Int
    BY Thirds
<1>5. \A s \in DOMAIN bundle.weights : bundle.weights[s] \in Int
    BY <1>2, <1>4 DEF Only
<1>6. bundle # NoComparison
    <2>1. bundle = [f \in DOMAIN bundle |-> bundle[f]]
        BY <1>1 DEF Earlier
    <2>2. PICK D, R : D = DOMAIN bundle /\ R = {bundle[f] : f \in DOMAIN bundle}
        OBVIOUS
    <2>3. bundle \in [D -> R]
        BY <2>1, <2>2
    <2>4. QED BY <2>3, NoFunctionIs
<1>7. QED BY <1>2, <1>3, <1>5, <1>6

(* A report that is asked for: a list of statements, a policy, and the     *)
(* bundles on disk, if any.                                                *)
IsAsked(household) ==
    /\ Placed(household.lots) /\ AreFunds(household.funds)
    /\ IsFiniteSet(DOMAIN household.requests)
    /\ household.policy \in ReportPolicies \cup {Standing}
    /\ \E n \in 0..2 : DOMAIN household.earlier = 1..n
    /\ \E bundles : household.earlier \in Seq(bundles)
    /\ \A i \in DOMAIN household.earlier : IsOnDisk(household.earlier[i])
    /\ \A i, j \in DOMAIN household.earlier :
          household.earlier[i].generated = household.earlier[j].generated => i = j

LEMMA EmptyLists ==
    /\ <<>> \in Seq({}) /\ DOMAIN <<>> = 1..0 /\ DOMAIN <<>> = {} /\ IsFun(<<>>)
    /\ IsFiniteSet(DOMAIN <<>>)
<1>1. <<>> \in Seq({}) /\ DOMAIN <<>> = 1..0 /\ DOMAIN <<>> = {}
    BY NoneOfNone
<1>2. IsFun(<<>>)
    BY <1>1 DEF IsFun
<1>3. QED BY <1>1, <1>2, FS_EmptySet

LEMMA ReportsGiven ==
    ASSUME Given, input.of = "report"
    PROVE  IsAsked(input.household) /\ input.asOf \in Nat
<1>1. Reports
    BY KindsApart DEF Given
<1>2. CASE \E lots \in Statements, policy \in ReportPolicies, funds \in {<<>>, <<1>>},
              statuses \in UNION {[1..n -> {"pending", "approved"}] : n \in {0, 1, 3}}, breaks \in BOOLEAN :
              input = [of |-> "report", asOf |-> Today,
                       household |-> [Household(lots, policy) EXCEPT
                           !.funds = funds, !.requests = statuses, !.breaks = breaks]]
    <2>0. PICK lots \in Statements, policy \in ReportPolicies, funds \in {<<>>, <<1>>},
              statuses \in UNION {[1..n -> {"pending", "approved"}] : n \in {0, 1, 3}},
              breaks \in BOOLEAN :
              input = [of |-> "report", asOf |-> Today,
                       household |-> [Household(lots, policy) EXCEPT
                           !.funds = funds, !.requests = statuses, !.breaks = breaks]]
        BY <1>2
    <2>1. PICK n \in {0, 1, 3} : statuses \in [1..n -> {"pending", "approved"}]
        OBVIOUS
    <2>2. PICK household : household = input.household
        OBVIOUS
    <2>3. household = [lots |-> lots, funds |-> funds, policy |-> policy, requests |-> statuses,
                       breaks |-> breaks, realized |-> 1, staged |-> 0, earlier |-> <<>>]
        BY <2>0, <2>2 DEF Household
    <2>4. /\ household.lots = lots /\ household.funds = funds /\ household.policy = policy
          /\ household.requests = statuses /\ household.earlier = <<>>
        BY <2>3
    <2>5. Placed(household.lots)
        BY <2>4, StatementsArePlaced
    <2>6. AreFunds(household.funds)
        <3>1. AreFunds(<<>>)
            BY EmptyLists DEF AreFunds
        <3>2. AreFunds(<<1>>)
            <4>1. PICK one : one = <<1>>
                OBVIOUS
            <4>2. DOMAIN one = 1..1 /\ one[1] = 1 /\ \A i \in 1..1 : i = 1
                BY <4>1
            <4>3. IsFun(one)
                BY <4>1 DEF IsFun
            <4>4. IsFiniteSet(DOMAIN one)
                <5>1. DOMAIN one = {1}
                    BY <4>2
                <5>2. QED BY <5>1, FS_Singleton
            <4>5. AreFunds(one)
                BY <4>2, <4>3, <4>4 DEF AreFunds
            <4>6. QED BY <4>1, <4>5
        <3>3. QED BY <2>4, <3>1, <3>2
    <2>7. IsFiniteSet(DOMAIN household.requests)
        <3>1. DOMAIN statuses = 1..n /\ n \in Int
            BY <2>1
        <3>2. QED BY <2>4, <3>1, FS_Interval
    <2>8. input.asOf \in Nat
        BY <2>0 DEF Today
    <2>9. PICK none : none = <<>>
        OBVIOUS
    <2>10. none \in Seq({}) /\ DOMAIN none = 1..0 /\ DOMAIN none = {}
        BY <2>9, EmptyLists
    <2>11. household.earlier = none
        BY <2>4, <2>9
    <2>12. /\ \E k \in 0..2 : DOMAIN household.earlier = 1..k
           /\ \E bundles : household.earlier \in Seq(bundles)
           /\ DOMAIN household.earlier = {}
        BY <2>10, <2>11
    <2>13. IsAsked(household)
        BY <2>4, <2>5, <2>6, <2>7, <2>12 DEF IsAsked
    <2>14. QED BY <2>2, <2>8, <2>13
<1>3. CASE \E earlier \in UNION {[1..n -> OnDisk] : n \in 1..2}, asOf \in {5, 6, 7, 8, 13} :
              /\ \A i, j \in DOMAIN earlier : i # j => earlier[i].generated # earlier[j].generated
              /\ input = [of |-> "report", asOf |-> asOf,
                          household |-> [Household(Lasting, Standing) EXCEPT !.earlier = earlier]]
    <2>0. PICK earlier \in UNION {[1..n -> OnDisk] : n \in 1..2}, asOf \in {5, 6, 7, 8, 13} :
              /\ \A i, j \in DOMAIN earlier : i # j => earlier[i].generated # earlier[j].generated
              /\ input = [of |-> "report", asOf |-> asOf,
                          household |-> [Household(Lasting, Standing) EXCEPT !.earlier = earlier]]
        BY <1>3
    <2>1. PICK n \in 1..2 : earlier \in [1..n -> OnDisk]
        OBVIOUS
    <2>2. PICK household : household = input.household
        OBVIOUS
    <2>3. household = [lots |-> Lasting, funds |-> <<>>, policy |-> Standing, requests |-> <<>>,
                       breaks |-> FALSE, realized |-> 1, staged |-> 0, earlier |-> earlier]
        BY <2>0, <2>2 DEF Household
    <2>4. /\ household.lots = Lasting /\ household.funds = <<>> /\ household.policy = Standing
          /\ household.requests = <<>> /\ household.earlier = earlier
        BY <2>3
    <2>5. Placed(household.lots)
        BY <2>4, LastingIsPlaced
    <2>6. AreFunds(household.funds) /\ IsFiniteSet(DOMAIN household.requests)
        <3>1. AreFunds(<<>>)
            BY EmptyLists DEF AreFunds
        <3>2. QED BY <2>4, <3>1, EmptyLists
    <2>7. input.asOf \in Nat
        BY <2>0
    <2>8. DOMAIN earlier = 1..n /\ n \in 0..2 /\ earlier \in Seq(OnDisk)
        BY <2>1, SeqDef
    <2>9. \A i \in DOMAIN earlier : IsOnDisk(earlier[i])
        <3>1. \A bundle \in OnDisk : IsOnDisk(bundle)
            BY DEF OnDisk, IsOnDisk
        <3>2. \A i \in DOMAIN earlier : earlier[i] \in OnDisk
            BY <2>1
        <3>3. QED BY <3>1, <3>2
    <2>10. \A i, j \in DOMAIN earlier : earlier[i].generated = earlier[j].generated => i = j
        BY <2>0
    <2>11. IsAsked(household)
        BY <2>4, <2>5, <2>6, <2>8, <2>9, <2>10 DEF IsAsked
    <2>12. QED BY <2>2, <2>7, <2>11
<1>4. QED BY <1>1, <1>2, <1>3 DEF Reports

LEMMA AskedIsReported ==
    ASSUME NEW household, IsAsked(household), IsNoFunction(NoComparison)
    PROVE  IsReported(household, Now)
<1>1. PICK n : IsSlips(household.lots, n, [i \in 1..2 |-> i])
    BY DEF IsAsked, Placed
<1>2. IsStatement(household.lots)
    BY <1>1, SlipsAreStatements
<1>3. WorthOf(MarkedLots(household.lots)) \in Nat /\ WorthOf(MarkedLots(household.lots)) <= 8
    BY <1>1, SlipsWeigh
<1>4. ASSUME household.policy # NoPolicy
      PROVE  /\ IsFiniteSet(DOMAIN household.policy.targets)
             /\ IsFine(household.policy.targets, WorthOf(MarkedLots(household.lots)))
    <2>1. IsReportPolicy(household.policy)
        BY <1>4, ReportPoliciesAreFine DEF IsAsked
    <2>2. QED BY <1>3, <2>1, TargetsAreFine DEF IsReportPolicy
<1>5. IsFiniteSet(DOMAIN household.earlier)
    <2>1. PICK m \in 0..2 : DOMAIN household.earlier = 1..m
        BY DEF IsAsked
    <2>2. m \in Int /\ IsFiniteSet(1..m)
        BY FS_Interval
    <2>3. QED BY <2>1, <2>2
<1>6. ASSUME NEW i \in DOMAIN household.earlier
      PROVE  LET bundle == household.earlier[i]
             IN  /\ bundle.asOf \in Nat /\ bundle.generated \in Int /\ bundle.generated # Now
                 /\ bundle # NoComparison
                 /\ \A s \in DOMAIN bundle.weights : bundle.weights[s] \in Int
    <2>1. IsOnDisk(household.earlier[i])
        BY DEF IsAsked
    <2>2. QED BY <2>1, OnDiskIs
<1>7. IsArchive(household.earlier) /\ IsCompared(household.earlier)
    BY <1>5, <1>6 DEF IsArchive, IsCompared, IsAsked
<1>8. QED BY <1>2, <1>4, <1>6, <1>7 DEF IsReported, IsAsked

(* A report is written exactly when the book can be reported, and it is    *)
(* candid (build_report).                                                  *)
THEOREM ReportsAreCandid ==
    RaisedApart /\ IsNoFunction(NoComparison) /\ IsNoFunction(Uncollected)
        => (Spec => []ReportIsCandid)
<1> SUFFICES ASSUME RaisedApart, IsNoFunction(NoComparison), IsNoFunction(Uncollected)
             PROVE  Spec => []ReportIsCandid
    OBVIOUS
<1>1. ASSUME AnswerInv PROVE ReportIsCandid
    <2>1. SUFFICES ASSUME Done("report")
                   PROVE  /\ "bundle" \in DOMAIN result <=> Collectable(input.household, input.asOf)
                          /\ Collectable(input.household, input.asOf) =>
                                /\ ComparisonIsCandid(result, input.household, input.asOf)
                                /\ PacksAreCandid(result, input.household)
                                /\ PanelIsCandid(result, input.household, Now)
        BY DEF ReportIsCandid
    <2>2. result = BuildReport(input.household, input.asOf, Now)
        BY <1>1, <2>1 DEF Done, AnswerInv
    <2>3. IsAsked(input.household) /\ input.asOf \in Nat
        BY <1>1, <2>1, ReportsGiven DEF Done, AnswerInv
    <2>4. IsReported(input.household, Now)
        BY <2>3, AskedIsReported
    <2>5. Now \in Int /\ DriftAlert >= 0 /\ One \in Int /\ IsNoFunction(NotAttributed)
        BY Thirds DEF Now, RaisedApart
    <2>6. PICK household, asOf, report :
              household = input.household /\ asOf = input.asOf /\ report = result
        OBVIOUS
    <2>7. /\ "bundle" \in DOMAIN report <=> Collectable(household, asOf)
          /\ Collectable(household, asOf) =>
                /\ ComparisonIsCandid(report, household, asOf)
                /\ PacksAreCandid(report, household)
                /\ PanelIsCandid(report, household, Now)
        BY <2>2, <2>3, <2>4, <2>5, <2>6, ReportsAreCandidOf
    <2>8. QED BY <2>6, <2>7
<1>2. QED BY <1>1, AnswersAreComputed, PTL

-----------------------------------------------------------------------------
(* The rebalances given: thirds of the book, that budgets of thirds divide.*)

IsThirds(x) == \E m \in 0..3 : x = m * Third

LEMMA Grains ==
    \E q \in Nat : /\ q > 0 /\ Third = 12 * q /\ One = 36 * q
                   /\ SharedEvenly(3, q)
<1>1. PICK grain \in 1..One : One = 216 * grain
    BY ShareAssumption
<1>2. One \in Nat /\ Third \in Nat /\ One = 3 * Third
    BY Thirds
<1>3. PICK g \in Nat, t \in Nat, one \in Nat :
          g = grain /\ g > 0 /\ t = Third /\ one = One /\ one = 216 * g /\ one = 3 * t
    BY <1>1, <1>2
<1>4. PICK q \in Nat : q = 6 * g /\ q > 0
    BY <1>3
<1>5. Third = 12 * q /\ One = 36 * q
    BY <1>3, <1>4
<1>6. ASSUME NEW m \in 1..3 PROVE OnGrid(q, m)
    <2>1. m = 1 \/ m = 2 \/ m = 3
        OBVIOUS
    <2>2. q = q * 1 /\ q = (3 * g) * 2 /\ q = (2 * g) * 3
        BY <1>4
    <2>3. q \in Int /\ 3 * g \in Int /\ 2 * g \in Int
        OBVIOUS
    <2>4. QED BY <2>1, <2>2, <2>3 DEF OnGrid
<1>7. QED BY <1>4, <1>5, <1>6 DEF SharedEvenly

LEMMA FewShare ==
    ASSUME NEW D, D \subseteq Sleeves, NEW q, SharedEvenly(3, q)
    PROVE  IsFiniteSet(D) /\ SharedEvenly(Cardinality(D), q)
<1>1. IsFiniteSet({"equity"}) /\ Cardinality({"equity"}) = 1
    BY FS_Singleton
<1>2. PICK two : two = {"equity"} \cup {"bonds"}
    OBVIOUS
<1>3. IsFiniteSet(two) /\ Cardinality(two) = 2 /\ "cash" \notin two
    BY <1>1, <1>2, FS_AddElement
<1>4. PICK three : three = two \cup {"cash"}
    OBVIOUS
<1>5. IsFiniteSet(three) /\ Cardinality(three) = 3
    BY <1>3, <1>4, FS_AddElement
<1>6. D \subseteq three
    BY <1>2, <1>4 DEF Sleeves
<1>7. IsFiniteSet(D) /\ Cardinality(D) <= Cardinality(three)
    BY <1>5, <1>6, FS_Subset
<1>8. Cardinality(D) \in Nat /\ Cardinality(D) <= 3
    BY <1>5, <1>7, FS_CardinalityType
<1>9. 1..Cardinality(D) \subseteq 1..3
    BY <1>8
<1>10. QED BY <1>7, <1>9 DEF SharedEvenly

LEMMA ThirdsAre ==
    ASSUME NEW x, IsThirds(x), NEW q \in Nat, Third = 12 * q
    PROVE  x \in Int /\ 0 <= x /\ x <= One /\ OnGrid(x, q) /\ OnGrid(x, Third)
           /\ x \in {0, Third, 2 * Third, One}
<1>1. PICK m \in 0..3 : x = m * Third
    BY DEF IsThirds
<1>2. Third \in Nat /\ One = 3 * Third
    BY Thirds
<1>3. m = 0 \/ m = 1 \/ m = 2 \/ m = 3
    OBVIOUS
<1>4. x = (12 * m) * q /\ 12 * m \in Int /\ m \in Int
    <2>1. (12 * m) * q = m * (12 * q)
        OBVIOUS
    <2>2. QED BY <1>1, <2>1
<1>5. OnGrid(x, q) /\ OnGrid(x, Third)
    BY <1>1, <1>4 DEF OnGrid
<1>6. x \in Int /\ 0 <= x /\ x <= One /\ x \in {0, Third, 2 * Third, One}
    BY <1>1, <1>2, <1>3
<1>7. QED BY <1>5, <1>6

LEMMA BoundsAreThirds ==
    ASSUME NEW targets, NEW targeted, targets \in [targeted -> BoundsOf], NEW s
    PROVE  /\ IsThirds(FloorOf(targets, s)) /\ IsThirds(CapOf(targets, s))
           /\ FloorOf(targets, s) <= CapOf(targets, s)
<1>1. Third \in Nat /\ One = 3 * Third
    BY Thirds
<1>2. 0 * Third = 0 /\ 1 * Third = Third
    BY <1>1
<1>3. CASE s \in DOMAIN targets
    <2>1. targets[s] \in BoundsOf
        BY <1>3
    <2>2. PICK min \in 0..3, max \in 0..3 :
              min <= max /\ targets[s].min = min * Third /\ targets[s].max = max * Third
        BY <2>1 DEF BoundsOf, Bound
    <2>3. FloorOf(targets, s) = min * Third /\ CapOf(targets, s) = max * Third
        BY <1>3, <2>2 DEF FloorOf, CapOf
    <2>4. min * Third <= max * Third
        BY <1>1, <2>2, ProductGrows
    <2>5. QED BY <2>3, <2>4 DEF IsThirds
<1>4. CASE s \notin DOMAIN targets
    <2>1. FloorOf(targets, s) = 0 * Third /\ CapOf(targets, s) = 3 * Third
        BY <1>1, <1>2, <1>4 DEF FloorOf, CapOf
    <2>2. 0 \in 0..3 /\ 3 \in 0..3 /\ 0 * Third <= 3 * Third
        BY <1>1
    <2>3. QED BY <2>1, <2>2 DEF IsThirds
<1>5. QED BY <1>3, <1>4

(* What the book weighs.                                                   *)
LEMMA WeightsAreThirds ==
    ASSUME NEW worth \in Worths, TotalOf(worth) # 0, NEW D, IsFiniteSet(D), DOMAIN worth \subseteq D,
           NEW current, current = CurrentWeights(worth, D)
    PROVE  /\ TotalOf(worth) \in Int /\ TotalOf(worth) > 0
           /\ IsOver(current, D) /\ TotalOf(current) = One /\ \A s \in D : IsThirds(current[s])
<1>1. PICK held : worth \in [held -> 0..3] /\ held \subseteq D
    BY DEF Worths
<1>2. IsOver(worth, held) /\ IsFiniteSet(held) /\ \A s \in held : worth[s] \in 0..3
    BY <1>1, FS_Subset DEF IsOver, IsFun
<1>3. TotalOf(worth) = 1 \/ TotalOf(worth) = 3
    BY DEF Worths
<1>4. One = 3 * Third /\ Third \in Nat
    BY Thirds
<1>5. PICK all \in Nat, k \in Nat : /\ all = TotalOf(worth) /\ all > 0 /\ One = all * k
                                    /\ ((all = 1 /\ k = 3 * Third) \/ (all = 3 /\ k = Third))
    <2>1. CASE TotalOf(worth) = 1
        <3>1. One = 1 * One /\ One \in Nat
            BY <1>4
        <3>2. QED BY <1>4, <2>1, <3>1
    <2>2. CASE TotalOf(worth) = 3
        BY <1>4, <2>2
    <2>3. QED BY <1>3, <2>1, <2>2
<1>6. PICK v : v = [s \in D |-> IF s \in DOMAIN worth THEN worth[s] ELSE 0]
    OBVIOUS
<1>7. /\ IsOver(v, D)
      /\ \A s \in D : v[s] = IF s \in DOMAIN worth THEN worth[s] ELSE 0
    BY <1>1, <1>2, <1>6 DEF IsOver, IsFun
<1>8. TotalOf(v) = TotalOf(worth)
    <2>1. IsFun(v) /\ DOMAIN v = D /\ Summable(v) /\ IsFun(worth) /\ DOMAIN worth \in SUBSET D
        BY <1>1, <1>2, <1>7 DEF IsOver, Summable
    <2>2. QED BY <1>7, <2>1, TotalOfMore
<1>9. ASSUME NEW s \in D PROVE v[s] \in 0..3 /\ v[s] <= all
    <2>1. CASE s \in held
        <3>1. TotalOf(worth) >= worth[s]
            <4>1. \A x \in held : worth[x] >= 0
                BY <1>2
            <4>2. QED BY <1>2, <2>1, <4>1, NotNegative
        <3>2. v[s] = worth[s]
            BY <1>1, <1>7, <2>1
        <3>3. QED BY <1>2, <1>5, <2>1, <3>1, <3>2
    <2>2. CASE s \notin held
        <3>1. v[s] = 0
            BY <1>1, <1>7, <2>2
        <3>2. QED BY <1>5, <3>1
    <2>3. QED BY <2>1, <2>2
<1>10. IsFun(current) /\ DOMAIN current = D
    BY DEF CurrentWeights, IsFun
<1>11. ASSUME NEW s \in D PROVE current[s] = v[s] * k
    <2>1. CASE s \in DOMAIN worth
        <3>1. current[s] = (worth[s] * One) \div TotalOf(worth)
            BY <2>1 DEF CurrentWeights
        <3>2. PICK a \in Nat : a = v[s] /\ a = worth[s]
            BY <1>7, <1>9, <2>1
        <3>3. PICK p \in Int, x \in Int : p = a * k /\ x = a * One
            BY <1>4
        <3>4. x = p * all /\ (p + 1) * all = p * all + all
            <4>1. a * (all * k) = (a * k) * all
                OBVIOUS
            <4>2. QED BY <1>5, <3>3, <4>1
        <3>5. p * all <= x /\ x < (p + 1) * all
            <4>1. PICK y \in Int : y = p * all
                OBVIOUS
            <4>2. QED BY <1>5, <3>4, <4>1
        <3>6. x \div all = p
            BY <1>5, <3>5, QuotientIs
        <3>7. QED BY <1>5, <3>1, <3>2, <3>3, <3>6
    <2>2. CASE s \notin DOMAIN worth
        <3>1. current[s] = 0
            BY <2>2 DEF CurrentWeights
        <3>2. v[s] = 0 /\ 0 * k = 0
            BY <1>7, <2>2
        <3>3. QED BY <3>1, <3>2
    <2>3. QED BY <2>1, <2>2
<1>12. IsOver(current, D)
    <2>1. ASSUME NEW s \in D PROVE current[s] \in Int
        <3>1. PICK a \in Int : a = v[s]
            BY <1>9
        <3>2. a * k \in Int
            OBVIOUS
        <3>3. QED BY <1>11, <3>1, <3>2
    <2>2. QED BY <1>10, <2>1 DEF IsOver
<1>13. TotalOf(current) = One
    <2>1. TotalOf(current) = TotalOf(v) * k
        <3>1. k \in Int
            OBVIOUS
        <3>2. QED BY <1>7, <1>11, <1>12, <3>1, TotalScales
    <2>2. QED BY <1>5, <1>8, <2>1
<1>14. ASSUME NEW s \in D PROVE IsThirds(current[s])
    <2>1. PICK a \in 0..3 : a = v[s] /\ a <= all
        BY <1>9
    <2>2. CASE all = 1 /\ k = 3 * Third
        <3>1. a * k = (3 * a) * Third /\ 3 * a \in 0..3
            BY <1>4, <2>1, <2>2
        <3>2. QED BY <1>11, <2>1, <3>1 DEF IsThirds
    <2>3. CASE all = 3 /\ k = Third
        BY <1>11, <2>1, <2>3 DEF IsThirds
    <2>4. QED BY <1>5, <2>2, <2>3
<1>15. QED BY <1>5, <1>12, <1>13, <1>14

(* How far the optimum is: an even number of thirds, six at most.          *)
LEMMA HowFar ==
    ASSUME NEW D, IsFiniteSet(D), NEW u, NEW v, IsOver(u, D), IsOver(v, D),
           TotalOf(u) = One, TotalOf(v) = One,
           \A s \in D : IsThirds(u[s]) /\ IsThirds(v[s])
    PROVE  \E e \in 0..3 : Turnover(u, v) = 2 * (e * Third)
<1>1. Third \in Nat /\ Third > 0 /\ One = 3 * Third
    BY Thirds
<1>2. PICK q \in Nat : Third = 12 * q
    BY Grains
<1>3. \A s \in D : /\ u[s] \in Int /\ v[s] \in Int /\ 0 <= u[s] /\ 0 <= v[s]
                   /\ OnGrid(u[s], Third) /\ OnGrid(v[s], Third)
    BY <1>2, ThirdsAre
<1>4. PICK d, m, p, t :
          /\ d = [s \in D |-> v[s] - u[s]] /\ m = [s \in D |-> Magnitude(v[s] - u[s])]
          /\ p = [s \in D |-> IF v[s] > u[s] THEN v[s] - u[s] ELSE 0]
          /\ t = [s \in D |-> (IF v[s] > u[s] THEN v[s] - u[s] ELSE 0) * 2]
    OBVIOUS
<1>5. ASSUME NEW s \in D
      PROVE  /\ d[s] \in Int /\ m[s] \in Int /\ p[s] \in Int /\ t[s] \in Int
             /\ d[s] = v[s] - u[s] /\ m[s] = Magnitude(v[s] - u[s]) /\ t[s] = p[s] * 2
             /\ p[s] = IF v[s] > u[s] THEN v[s] - u[s] ELSE 0
             /\ v[s] = u[s] + d[s] /\ t[s] = m[s] + d[s]
             /\ 0 <= p[s] /\ p[s] <= v[s]
    <2>1. PICK a \in Int, b \in Int : a = u[s] /\ b = v[s] /\ 0 <= a /\ 0 <= b
        BY <1>3
    <2>2. /\ d[s] = b - a /\ m[s] = Magnitude(b - a) /\ p[s] = IF b > a THEN b - a ELSE 0
          /\ t[s] = (IF b > a THEN b - a ELSE 0) * 2
        BY <1>4, <2>1
    <2>3. Magnitude(b - a) = IF b > a THEN b - a ELSE a - b
        BY DEF Magnitude
    <2>4. QED BY <2>1, <2>2, <2>3
<1>6. IsOver(d, D) /\ IsOver(m, D) /\ IsOver(p, D) /\ IsOver(t, D)
    <2>1. \A f \in {d, m, p, t} : IsFun(f) /\ DOMAIN f = D
        BY <1>4 DEF IsFun
    <2>2. QED BY <1>5, <2>1 DEF IsOver
<1>7. PICK tu \in Int, tv \in Int, td \in Int, tm \in Int, tp \in Int, tt \in Int :
          /\ tu = TotalOf(u) /\ tv = TotalOf(v) /\ td = TotalOf(d) /\ tm = TotalOf(m)
          /\ tp = TotalOf(p) /\ tt = TotalOf(t)
    BY <1>6, OverIsSummed
<1>8. tv = tu + td /\ tt = tm + td /\ tt = tp * 2
    <2>1. TotalOf(v) = TotalOf(u) + TotalOf(d)
        BY <1>5, <1>6, OversAdd
    <2>2. TotalOf(t) = TotalOf(m) + TotalOf(d)
        BY <1>5, <1>6, OversAdd
    <2>3. TotalOf(t) = TotalOf(p) * 2
        <3>1. 2 \in Int
            OBVIOUS
        <3>2. QED BY <1>5, <1>6, <3>1, TotalScales
    <2>4. QED BY <1>7, <2>1, <2>2, <2>3
<1>9. tm = 2 * tp
    BY <1>7, <1>8
<1>10. Turnover(u, v) = tm
    BY <1>5, <1>6, <1>7, TurnoverIs
<1>11. tp >= 0 /\ tp <= One
    <2>1. TotalOf(p) >= 0
        BY <1>5, <1>6, NotNegative
    <2>2. TotalOf(p) <= TotalOf(v)
        BY <1>5, <1>6, TotalsOrder
    <2>3. QED BY <1>7, <2>1, <2>2
<1>12. OnGrid(tp, Third)
    <2>1. ASSUME NEW s \in D PROVE OnGrid(p[s], Third)
        <3>1. PICK a \in Int, b \in Int : a = u[s] /\ b = v[s] /\ OnGrid(a, Third) /\ OnGrid(b, Third)
            BY <1>3
        <3>2. PICK i \in Int, j \in Int : a = i * Third /\ b = j * Third
            BY <3>1 DEF OnGrid
        <3>3. b - a = (j - i) * Third /\ j - i \in Int
            BY <1>1, <3>2
        <3>4. 0 = 0 * Third
            BY <1>1
        <3>5. p[s] = b - a \/ p[s] = 0
            BY <1>5, <3>1
        <3>6. QED BY <3>3, <3>4, <3>5 DEF OnGrid
    <2>2. Third \in Int
        BY <1>1
    <2>3. OnGrid(TotalOf(p), Third)
        BY <1>6, <2>1, <2>2, TotalOnGrid
    <2>4. QED BY <1>7, <2>3
<1>13. PICK e \in Int : tp = e * Third
    BY <1>12 DEF OnGrid
<1>14. e \in 0..3
    <2>1. (-1) * Third < e * Third /\ e * Third < 4 * Third
        BY <1>1, <1>11, <1>13
    <2>2. -1 < e /\ e < 4
        BY <1>1, <2>1, ProductsOrder
    <2>3. QED BY <2>2
<1>15. QED BY <1>9, <1>10, <1>13, <1>14

LEMMA PartArithmetic ==
    ASSUME NEW k \in Int, NEW a \in Int, NEW h \in Int, NEW f \in Int, NEW t \in Int, h * f = t
    PROVE  ((k * a) * h) * (f * t) = (a * t) * (k * t)
<1>1. ((k * a) * h) * (f * t) = (k * a) * ((h * f) * t)
    OBVIOUS
<1>2. (k * a) * (t * t) = (a * t) * (k * t)
    OBVIOUS
<1>3. QED BY <1>1, <1>2

(* A budget of one or two thirds divides the way there.                    *)
LEMMA BudgetsPay ==
    ASSUME NEW D, IsFiniteSet(D), NEW u, NEW v, IsOver(u, D), IsOver(v, D),
           TotalOf(u) = One, TotalOf(v) = One,
           \A s \in D : IsThirds(u[s]) /\ IsThirds(v[s]),
           NEW q \in Nat, Third = 12 * q,
           NEW k \in 1..2, NEW budget, budget = k * Third, budget < Turnover(u, v)
    PROVE  \E e : IsPaid(e, u, v, budget, D, q)
<1>1. Third \in Nat /\ Third > 0
    BY Thirds
<1>2. PICK n \in 0..3 : Turnover(u, v) = 2 * (n * Third)
    BY HowFar
<1>3. PICK t \in Nat, far \in Int : t = Third /\ t > 0 /\ t = 12 * q /\ far = Turnover(u, v)
    BY <1>1, <1>2
<1>4. n \in 1..3
    <2>1. n # 0
        <3>1. SUFFICES ASSUME n = 0 PROVE FALSE
            OBVIOUS
        <3>2. Turnover(u, v) = 0
            BY <1>1, <1>2, <3>1
        <3>3. k * Third \in Int /\ k * Third >= 0
            BY <1>1
        <3>4. QED BY <3>2, <3>3
    <2>2. QED BY <2>1
<1>5. PICK h \in Int, j \in Int, f \in Int : f = 2 * n /\ h = j * q /\ h * f = t
    <2>1. n = 1 \/ n = 2 \/ n = 3
        BY <1>4
    <2>2. CASE n = 1
        <3>1. (6 * q) * 2 = t /\ 6 * q \in Int /\ 6 \in Int
            BY <1>3
        <3>2. QED BY <2>2, <3>1
    <2>3. CASE n = 2
        <3>1. (3 * q) * 4 = t /\ 3 * q \in Int /\ 3 \in Int
            BY <1>3
        <3>2. QED BY <2>3, <3>1
    <2>4. CASE n = 3
        <3>1. (2 * q) * 6 = t /\ 2 * q \in Int /\ 2 \in Int
            BY <1>3
        <3>2. QED BY <2>4, <3>1
    <2>5. QED BY <2>1, <2>2, <2>3, <2>4
<1>6. far = f * t
    BY <1>2, <1>3, <1>5
<1>7. ASSUME NEW s \in D PROVE \E a \in Int : v[s] - u[s] = a * t
    <2>1. PICK i \in 0..3, l \in 0..3 : u[s] = i * Third /\ v[s] = l * Third
        BY DEF IsThirds
    <2>2. l * t - i * t = (l - i) * t /\ l - i \in Int
        OBVIOUS
    <2>3. QED BY <1>3, <2>1, <2>2
<1>8. PICK a : a = [s \in D |-> CHOOSE x \in Int : v[s] - u[s] = x * t]
    OBVIOUS
<1>9. \A s \in D : a[s] \in Int /\ v[s] - u[s] = a[s] * t
    BY <1>7, <1>8
<1>10. PICK e : e = [s \in D |-> (k * a[s]) * h]
    OBVIOUS
<1>11. IsOver(e, D) /\ \A s \in D : e[s] = (k * a[s]) * h
    BY <1>9, <1>10 DEF IsOver, IsFun
<1>12. ASSUME NEW s \in D PROVE e[s] * far = (v[s] - u[s]) * budget /\ OnGrid(e[s], q)
    <2>1. PICK b \in Int, x \in Int : b = a[s] /\ x = (k * b) * h /\ x = e[s]
        BY <1>9, <1>11
    <2>2. k \in Int /\ t \in Int
        OBVIOUS
    <2>3. ((k * b) * h) * (f * t) = (b * t) * (k * t)
        BY <1>5, <2>2, PartArithmetic
    <2>4. v[s] - u[s] = b * t /\ budget = k * t
        BY <1>3, <1>9, <2>1
    <2>5. x = (k * b * j) * q /\ k * b * j \in Int
        BY <1>5, <2>1
    <2>6. e[s] * far = (v[s] - u[s]) * budget
        BY <1>6, <2>1, <2>3, <2>4
    <2>7. OnGrid(e[s], q)
        BY <2>1, <2>5 DEF OnGrid
    <2>8. QED BY <2>6, <2>7
<1>13. PaidFor(e, u, v, budget, Turnover(u, v), D)
    BY <1>3, <1>12 DEF PaidFor
<1>14. QED BY <1>11, <1>12, <1>13 DEF IsPaid

(* Bounds of thirds that can be met are met by an optimum of thirds.       *)
IsBoundByThirds(targets, D) ==
    \A s \in D : /\ IsThirds(FloorOf(targets, s)) /\ IsThirds(CapOf(targets, s))
                 /\ FloorOf(targets, s) <= CapOf(targets, s)

LEMMA OptimaAreMet ==
    ASSUME NEW D, IsFiniteSet(D), NEW targets, IsBoundByThirds(targets, D),
           Optima(D, targets) # {}
    PROVE  BoundsMeet(targets, D)
<1>1. PICK w \in [D -> {0, Third, 2 * Third, One}] : InPolicy(w, targets)
    BY DEF Optima
<1>2. Third \in Nat /\ One \in Int
    BY Thirds
<1>3. PICK q \in Nat : Third = 12 * q
    BY Grains
<1>4. PICK u, v : u = [s \in D |-> FloorOf(targets, s)] /\ v = [s \in D |-> CapOf(targets, s)]
    OBVIOUS
<1>5. \A s \in D : FloorOf(targets, s) \in Int /\ CapOf(targets, s) \in Int
    BY <1>3, ThirdsAre DEF IsBoundByThirds
<1>6. IsOver(w, D) /\ IsOver(u, D) /\ IsOver(v, D)
    BY <1>1, <1>2, <1>4, <1>5 DEF IsOver, IsFun
<1>7. TotalOf(w) = One /\ \A s \in D : u[s] <= w[s] /\ w[s] <= v[s]
    BY <1>1, <1>4 DEF InPolicy
<1>8. TotalOf(u) <= One /\ One <= TotalOf(v)
    BY <1>6, <1>7, TotalsOrder
<1>9. TotalOf(v) \in Int
    BY <1>6, OverIsSummed
<1>10. TotalOf(v) >= One
    BY <1>2, <1>8, <1>9
<1>11. QED BY <1>4, <1>8, <1>10 DEF BoundsMeet

(* Weights of thirds inside their bounds that do not sum to more than One. *)
IsWithin(v, targets, D) ==
    /\ IsOver(v, D) /\ TotalOf(v) <= One
    /\ \A s \in D : /\ IsThirds(v[s])
                    /\ FloorOf(targets, s) <= v[s] /\ v[s] <= CapOf(targets, s)

LEMMA WithinOnGrid ==
    ASSUME NEW D, IsFiniteSet(D), NEW v, NEW targets, IsWithin(v, targets, D)
    PROVE  TotalOf(v) \in 0..One /\ OnGrid(TotalOf(v), Third)
<1>1. PICK q \in Nat : Third = 12 * q
    BY Grains
<1>2. \A s \in D : v[s] \in Int /\ 0 <= v[s] /\ OnGrid(v[s], Third)
    BY <1>1, ThirdsAre DEF IsWithin
<1>3. IsOver(v, D) /\ TotalOf(v) <= One /\ Third \in Int /\ One \in Int
    BY Thirds DEF IsWithin
<1>4. OnGrid(TotalOf(v), Third)
    BY <1>2, <1>3, TotalOnGrid
<1>5. TotalOf(v) >= 0 /\ TotalOf(v) \in Int
    <2>1. \A s \in D : v[s] >= 0
        BY <1>2
    <2>2. TotalOf(v) >= 0
        BY <1>3, <2>1, NotNegative
    <2>3. QED BY <1>3, <2>2, OverIsSummed
<1>6. QED BY <1>3, <1>4, <1>5

(* What falls short of One somewhere has room for another third.           *)
LEMMA ThirdMore ==
    ASSUME NEW D, IsFiniteSet(D), NEW targets, IsBoundByThirds(targets, D),
           BoundsMeet(targets, D), NEW v, IsWithin(v, targets, D), TotalOf(v) # One
    PROVE  \E w : IsWithin(w, targets, D) /\ TotalOf(w) = TotalOf(v) + Third
<1>1. PICK third \in Nat, one \in Nat :
          third = Third /\ third > 0 /\ one = One /\ one = 3 * third
    BY Thirds
<1>2. PICK q \in Nat : Third = 12 * q
    BY Grains
<1>3. PICK total \in Int : total = TotalOf(v) /\ OnGrid(total, Third) /\ total < One
    BY <1>1, WithinOnGrid DEF IsWithin
<1>4. OnGrid(One, Third)
    BY <1>1 DEF OnGrid
<1>5. total + Third <= One
    BY <1>1, <1>3, <1>4, GridGap
<1>6. IsOver(v, D)
    BY DEF IsWithin
<1>7. PICK s \in D : v[s] < CapOf(targets, s)
    <2>1. SUFFICES ASSUME \A s \in D : ~ (v[s] < CapOf(targets, s)) PROVE FALSE
        OBVIOUS
    <2>2. PICK u : u = [s \in D |-> CapOf(targets, s)]
        OBVIOUS
    <2>3. \A s \in D : CapOf(targets, s) \in Int
        BY <1>2, ThirdsAre DEF IsBoundByThirds
    <2>4. IsOver(u, D) /\ \A s \in D : u[s] = CapOf(targets, s)
        BY <2>2, <2>3 DEF IsOver, IsFun
    <2>5. \A s \in D : u[s] <= v[s]
        BY <1>6, <2>1, <2>3, <2>4 DEF IsOver
    <2>6. TotalOf(u) <= TotalOf(v)
        BY <1>6, <2>4, <2>5, TotalsOrder
    <2>7. TotalOf(u) >= One
        BY <2>2 DEF BoundsMeet
    <2>8. TotalOf(u) \in Int
        BY <2>4, OverIsSummed
    <2>9. QED BY <1>1, <1>3, <2>6, <2>7, <2>8
<1>8. PICK z, w : /\ z = [x \in D |-> IF x \in {s} THEN Third ELSE 0]
                  /\ w = [x \in D |-> v[x] + z[x]]
    OBVIOUS
<1>9. IsOver(z, D) /\ \A x \in D : z[x] = IF x \in {s} THEN Third ELSE 0
    BY <1>1, <1>8 DEF IsOver, IsFun
<1>10. IsOver(w, D) /\ \A x \in D : w[x] = v[x] + z[x]
    BY <1>6, <1>8, <1>9 DEF IsOver, IsFun
<1>11. TotalOf(z) = Third
    <2>1. Cardinality({s}) = 1 /\ {s} \in SUBSET D
        BY FS_Singleton
    <2>2. Third \in Int
        BY <1>1
    <2>3. TotalOf(z) = Cardinality({s}) * Third
        BY <1>9, <2>1, <2>2, ShareOfEach
    <2>4. QED BY <1>1, <2>1, <2>3
<1>12. TotalOf(w) = total + Third
    <2>1. TotalOf(w) = TotalOf(v) + TotalOf(z)
        BY <1>6, <1>9, <1>10, OversAdd
    <2>2. QED BY <1>3, <1>11, <2>1
<1>13. ASSUME NEW x \in D
       PROVE  IsThirds(w[x]) /\ FloorOf(targets, x) <= w[x] /\ w[x] <= CapOf(targets, x)
    <2>1. PICK a \in Int, low \in Int, high \in Int :
              /\ a = v[x] /\ low = FloorOf(targets, x) /\ high = CapOf(targets, x)
              /\ low <= a /\ a <= high /\ OnGrid(a, Third) /\ OnGrid(high, Third)
        BY <1>2, ThirdsAre DEF IsWithin, IsBoundByThirds
    <2>2. CASE x = s
        <3>1. a < high /\ w[x] = a + third
            BY <1>1, <1>7, <1>9, <1>10, <2>1, <2>2
        <3>2. a + third <= high
            BY <1>1, <2>1, <3>1, GridGap
        <3>3. PICK m \in 0..3, n \in 0..3 : a = m * third /\ high = n * third
            BY <1>1, <2>1 DEF IsWithin, IsBoundByThirds, IsThirds
        <3>4. m < n
            <4>1. m * third < n * third /\ m \in Int /\ n \in Int
                BY <3>1, <3>3
            <4>2. QED BY <1>1, <4>1, ProductsOrder
        <3>5. m + 1 \in 0..3 /\ (m + 1) * third = m * third + third
            BY <3>4
        <3>6. IsThirds(w[x])
            BY <1>1, <3>1, <3>3, <3>5 DEF IsThirds
        <3>7. QED BY <1>1, <2>1, <3>1, <3>2, <3>6
    <2>3. CASE x # s
        <3>1. w[x] = a
            BY <1>9, <1>10, <2>1, <2>3
        <3>2. IsThirds(v[x])
            BY DEF IsWithin
        <3>3. QED BY <2>1, <3>1, <3>2
    <2>4. QED BY <2>2, <2>3
<1>14. TotalOf(w) <= One
    BY <1>5, <1>12
<1>15. IsWithin(w, targets, D)
    BY <1>10, <1>13, <1>14 DEF IsWithin
<1>16. QED BY <1>3, <1>12, <1>15

LEMMA MetHaveOptima ==
    ASSUME NEW D, IsFiniteSet(D), NEW targets, IsBoundByThirds(targets, D), BoundsMeet(targets, D)
    PROVE  Optima(D, targets) # {}
<1> DEFINE S == {n \in 0..One : \E v : IsWithin(v, targets, D) /\ TotalOf(v) = n}
<1>1. PICK third \in Nat, one \in Nat :
          third = Third /\ third > 0 /\ one = One /\ one = 3 * third
    BY Thirds
<1>2. PICK q \in Nat : Third = 12 * q
    BY Grains
<1>3. S # {}
    <2>1. PICK u : u = [s \in D |-> FloorOf(targets, s)]
        OBVIOUS
    <2>2. \A s \in D : FloorOf(targets, s) \in Int
        BY <1>2, ThirdsAre DEF IsBoundByThirds
    <2>3. IsOver(u, D) /\ \A s \in D : u[s] = FloorOf(targets, s)
        BY <2>1, <2>2 DEF IsOver, IsFun
    <2>4. TotalOf(u) <= One
        BY <2>1 DEF BoundsMeet
    <2>5. IsWithin(u, targets, D)
        BY <2>2, <2>3, <2>4 DEF IsWithin, IsBoundByThirds
    <2>6. TotalOf(u) \in 0..One
        BY <2>5, WithinOnGrid
    <2>7. QED BY <2>5, <2>6
<1>4. S \in SUBSET Int /\ IsFiniteSet(S)
    <2>1. 0 \in Int /\ One \in Int /\ IsFiniteSet(0..One)
        BY <1>1, FS_Interval
    <2>2. IsFiniteSet(S)
        BY <2>1, FS_Subset
    <2>3. QED BY <2>1, <2>2
<1>5. PICK n \in S : \A y \in S : n >= y
    <2> HIDE DEF S
    <2>1. QED BY <1>3, <1>4, MaxIsGreatest
<1>6. PICK v : IsWithin(v, targets, D) /\ TotalOf(v) = n
    OBVIOUS
<1>7. TotalOf(v) = One
    <2>1. SUFFICES ASSUME TotalOf(v) # One PROVE FALSE
        OBVIOUS
    <2>2. PICK w : IsWithin(w, targets, D) /\ TotalOf(w) = TotalOf(v) + Third
        BY <1>6, <2>1, ThirdMore
    <2>3. TotalOf(w) \in 0..One
        BY <2>2, WithinOnGrid
    <2>4. TotalOf(w) \in S
        BY <2>2, <2>3
    <2>5. QED BY <1>1, <1>4, <1>5, <1>6, <2>2, <2>4
<1>8. v \in [D -> {0, Third, 2 * Third, One}]
    <2>1. \A s \in D : v[s] \in {0, Third, 2 * Third, One}
        BY <1>2, <1>6, ThirdsAre DEF IsWithin
    <2>2. QED BY <1>6, <2>1 DEF IsWithin, IsOver, IsFun
<1>9. InPolicy(v, targets)
    BY <1>6, <1>7 DEF InPolicy, IsWithin, IsOver
<1>10. QED BY <1>8, <1>9 DEF Optima

(* What is given, and the answer to it.                                    *)
IsRebalance(worth, targets, budget, optimum) ==
    /\ worth \in Worths /\ budget \in {NoBudget, Third, 2 * Third}
    /\ \E targeted \in SUBSET Sleeves : targets \in [targeted -> BoundsOf]
    /\ optimum \in AnOptimum(DOMAIN worth \cup DOMAIN targets, targets)

IsRightAnswer(answer, worth, targets, budget, optimum) ==
    IF TotalOf(worth) = 0 \/ Optima(DOMAIN worth \cup DOMAIN targets, targets) = {}
    THEN answer = Infeasible
    ELSE answer # Infeasible /\ KeepsPolicy(answer, targets, optimum, budget)

LEMMA RebalancesGiven ==
    ASSUME Given, input.of = "rebalance"
    PROVE  IsRebalance(input.worth, input.targets, input.budget, input.optimum)
<1>1. Rebalances
    BY KindsApart DEF Given
<1>2. PICK worth \in Worths, targeted \in SUBSET Sleeves : \E targets \in [targeted -> BoundsOf],
          budget \in {NoBudget, Third, 2 * Third} :
          \E optimum \in AnOptimum(DOMAIN worth \cup targeted, targets) :
              input = [of |-> "rebalance", worth |-> worth, targets |-> targets,
                       budget |-> budget, optimum |-> optimum]
    BY <1>1 DEF Rebalances
<1>3. PICK targets \in [targeted -> BoundsOf], budget \in {NoBudget, Third, 2 * Third} :
          \E optimum \in AnOptimum(DOMAIN worth \cup targeted, targets) :
              input = [of |-> "rebalance", worth |-> worth, targets |-> targets,
                       budget |-> budget, optimum |-> optimum]
    BY <1>2
<1>4. PICK optimum \in AnOptimum(DOMAIN worth \cup targeted, targets) :
              input = [of |-> "rebalance", worth |-> worth, targets |-> targets,
                       budget |-> budget, optimum |-> optimum]
    BY <1>3
<1>5. /\ input.worth = worth /\ input.targets = targets
      /\ input.budget = budget /\ input.optimum = optimum
    BY <1>4
<1>6. DOMAIN targets = targeted
    OBVIOUS
<1>7. IsRebalance(worth, targets, budget, optimum)
    BY <1>6, Zenon DEF IsRebalance
<1>8. QED BY <1>5, <1>7

LEMMA RebalanceAnswers ==
    ASSUME IsNoFunction(Infeasible), NEW worth, NEW targets, NEW budget, NEW optimum,
           IsRebalance(worth, targets, budget, optimum),
           NEW answer, answer = RunMvRebalance(worth, targets, budget, optimum)
    PROVE  IsRightAnswer(answer, worth, targets, budget, optimum)
<1>0. PICK D, targeted : /\ targeted \in SUBSET Sleeves /\ targets \in [targeted -> BoundsOf]
                         /\ D = DOMAIN worth \cup DOMAIN targets
                         /\ worth \in Worths /\ budget \in {NoBudget, Third, 2 * Third}
                         /\ optimum \in AnOptimum(D, targets)
    <2>1. PICK targeted \in SUBSET Sleeves : targets \in [targeted -> BoundsOf]
        BY DEF IsRebalance
    <2>2. PICK D : D = DOMAIN worth \cup DOMAIN targets
        OBVIOUS
    <2>3. /\ worth \in Worths /\ budget \in {NoBudget, Third, 2 * Third}
          /\ optimum \in AnOptimum(D, targets)
        BY <2>2 DEF IsRebalance
    <2>4. QED BY <2>1, <2>2, <2>3
<1>1. Third \in Nat /\ Third > 0 /\ One = 3 * Third /\ One \in Nat /\ One > 0
    BY Thirds
<1>2. PICK q \in Nat : q > 0 /\ Third = 12 * q /\ One = 36 * q /\ SharedEvenly(3, q)
    BY Grains
<1>3. D \subseteq Sleeves /\ DOMAIN worth \subseteq D
    <2>1. DOMAIN worth \subseteq Sleeves
        BY <1>0 DEF Worths
    <2>2. DOMAIN targets = targeted
        BY <1>0
    <2>3. QED BY <1>0, <2>1, <2>2
<1>4. IsFiniteSet(D) /\ SharedEvenly(Cardinality(D), q)
    BY <1>2, <1>3, FewShare
<1>5. \A s \in D : /\ IsThirds(FloorOf(targets, s)) /\ IsThirds(CapOf(targets, s))
                   /\ FloorOf(targets, s) <= CapOf(targets, s)
    BY <1>0, BoundsAreThirds
<1>6. IsBoundByThirds(targets, D)
    BY <1>5 DEF IsBoundByThirds
<1>7. Optima(D, targets) = {} <=> ~ BoundsMeet(targets, D)
    BY <1>4, <1>6, OptimaAreMet, MetHaveOptima
<1>8. CASE TotalOf(worth) = 0 \/ Optima(D, targets) = {}
    <2>1. TotalOf(worth) <= 0 \/ ~ BoundsMeet(targets, D)
        BY <1>7, <1>8
    <2>2. answer = Infeasible
        BY <1>0, <2>1, Zenon DEF RunMvRebalance
    <2>3. QED BY <1>0, <1>8, <2>2 DEF IsRightAnswer
<1>9. CASE ~ (TotalOf(worth) = 0 \/ Optima(D, targets) = {})
    <2>1. PICK current : current = CurrentWeights(worth, D)
        OBVIOUS
    <2>2. /\ TotalOf(worth) \in Int /\ TotalOf(worth) > 0
          /\ IsOver(current, D) /\ TotalOf(current) = One /\ \A s \in D : IsThirds(current[s])
        BY <1>0, <1>3, <1>4, <1>9, <2>1, WeightsAreThirds
    <2>3. optimum \in Optima(D, targets)
        BY <1>0, <1>9, Zenon DEF AnOptimum
    <2>4. optimum \in [D -> {0, Third, 2 * Third, One}] /\ InPolicy(optimum, targets)
        BY <2>3 DEF Optima
    <2>5. IsOver(optimum, D) /\ TotalOf(optimum) = One
        BY <1>1, <2>4 DEF IsOver, IsFun, InPolicy
    <2>6. \A s \in D : IsThirds(optimum[s])
        <3>1. ASSUME NEW x \in {0, Third, 2 * Third, One} PROVE IsThirds(x)
            <4>1. 0 = 0 * Third /\ Third = 1 * Third
                BY <1>1
            <4>2. QED BY <1>1, <4>1 DEF IsThirds
        <3>2. QED BY <2>4, <3>1
    <2>7. PICK far \in Nat : far = Turnover(current, optimum)
        <3>1. PICK e \in 0..3 : Turnover(current, optimum) = 2 * (e * Third)
            BY <1>4, <2>2, <2>5, <2>6, HowFar
        <3>2. 2 * (e * Third) \in Nat
            BY <1>1
        <3>3. QED BY <3>1, <3>2
    <2>8. IsBalanced(current, optimum, targets, D, q)
        <3>1. \A s \in D : /\ 0 <= current[s] /\ current[s] <= One /\ OnGrid(current[s], q)
            BY <1>2, <2>2, ThirdsAre
        <3>2. IsBounded(targets, D)
            BY <1>2, <1>5, ThirdsAre DEF IsBounded
        <3>3. OnGridAll(targets, D, q)
            <4>1. OnGrid(One, q)
                BY <1>2 DEF OnGrid
            <4>2. QED BY <1>2, <1>5, <4>1, ThirdsAre DEF OnGridAll
        <3>4. BoundsMeet(targets, D)
            BY <1>7, <1>9
        <3>5. QED BY <1>4, <2>2, <2>4, <2>5, <3>1, <3>2, <3>3, <3>4 DEF IsBalanced
    <2>9. ASSUME budget # NoBudget
          PROVE  /\ budget \in Nat /\ budget > 0
                 /\ budget < far => \E e : IsPaid(e, current, optimum, budget, D, q)
        <3>1. PICK k \in 1..2 : budget = k * Third
            <4>1. budget = 1 * Third \/ budget = 2 * Third
                BY <1>0, <1>1, <2>9
            <4>2. QED BY <4>1
        <3>2. budget \in Nat /\ budget > 0
            BY <1>1, <3>1
        <3>3. ASSUME budget < far PROVE \E e : IsPaid(e, current, optimum, budget, D, q)
            <4>1. budget < Turnover(current, optimum)
                BY <2>7, <3>3
            <4>2. QED BY <1>2, <1>4, <2>2, <2>5, <2>6, <3>1, <4>1, BudgetsPay
        <3>4. QED BY <3>2, <3>3
    <2>10. answer # Infeasible /\ KeepsPolicy(answer, targets, optimum, budget)
        BY <1>0, <1>1, <1>2, <2>1, <2>2, <2>7, <2>8, <2>9, RebalancesKeepPolicy
    <2>11. QED BY <1>0, <1>9, <2>10, Zenon DEF IsRightAnswer
<1>10. QED BY <1>8, <1>9

(* The advised target is in the policy, straight on the way to the optimum *)
(* as far as the budget allows, and refused only when none could be        *)
(* (run_mv_rebalance).                                                     *)
THEOREM RebalanceDoesKeep == IsNoFunction(Infeasible) => (Spec => []RebalanceKeepsPolicy)
<1> SUFFICES ASSUME IsNoFunction(Infeasible) PROVE Spec => []RebalanceKeepsPolicy
    OBVIOUS
<1>1. ASSUME AnswerInv PROVE RebalanceKeepsPolicy
    <2>1. SUFFICES ASSUME Done("rebalance")
                   PROVE  LET D == DOMAIN input.worth \cup DOMAIN input.targets
                          IN  IF TotalOf(input.worth) = 0 \/ Optima(D, input.targets) = {}
                              THEN result = Infeasible
                              ELSE result # Infeasible
                                   /\ KeepsPolicy(result, input.targets, input.optimum, input.budget)
        BY Zenon DEF RebalanceKeepsPolicy
    <2>2. /\ Given /\ input.of = "rebalance"
          /\ result = RunMvRebalance(input.worth, input.targets, input.budget, input.optimum)
        BY <1>1, <2>1 DEF Done, AnswerInv
    <2>3. IsRebalance(input.worth, input.targets, input.budget, input.optimum)
        BY <2>2, RebalancesGiven
    <2>4. IsRightAnswer(result, input.worth, input.targets, input.budget, input.optimum)
        BY <2>2, <2>3, RebalanceAnswers
    <2>5. QED BY <2>4, Zenon DEF IsRightAnswer
<1>2. QED BY <1>1, AnswersAreComputed, PTL
=============================================================================
