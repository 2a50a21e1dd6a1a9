-------------------------------- MODULE Council --------------------------------
(***************************************************************************)
(* What the council makes of a root at a moment: the features of a horizon *)
(* (libs/features), the four analysts (libs/analysts), the skeptic         *)
(* (libs/skeptic) and the arbiter (libs/arbiter), one after the other.     *)
(*                                                                         *)
(* A case is a record of what they are given: the root's asset class and   *)
(* liquidity, the session's flags, and the continuous series.  Scores are  *)
(* integers, in millionths before a rounding to four places and in ten     *)
(* thousandths after it; liquidity is in thousandths and the skeptic's     *)
(* score in hundredths.  Texts (drivers, objections, summaries) are left   *)
(* out.                                                                    *)
(***************************************************************************)
EXTENDS Integers, FiniteSets, FiniteSetsExt, Sequences, SequencesExt

Horizons == {"H1S", "H3S", "H2W", "H4W"}
Directions == {"bullish", "bearish", "no_edge"}
Verdicts == {"pass", "soft_fail", "human_review", "reject"}

Rounded(n, d) == (n + d \div 2) \div d
Abs(n) == IF n < 0 THEN -n ELSE n
Clamped(x, low, high) == IF x < low THEN low ELSE IF x > high THEN high ELSE x
Amount(condition, n) == IF condition THEN n ELSE 0

-----------------------------------------------------------------------------
\* horizon_scale, in hundredths.
Scale == [H1S |-> 100, H3S |-> 135, H2W |-> 175, H4W |-> 215]

\* The features the analysts read.  roll counts twentieths of the pressure of the last
\* trading days, expiry thirtieths of the pressure of the expiry.
Features(case, h) ==
    LET scale == Scale[h]
        roll == Max({0, 20 - case.series.toLastTrade})
        expiry == Max({0, 30 - case.series.toExpiry})
        share == case.series.nextShare
    IN [return |-> Rounded((800000 + 120 * share - 25000 * roll) * scale, 1000),
        volatility |-> ((140000 + 9000 * roll + 2000 * expiry) * scale) \div 100,
        slope |-> ((180000 - 3500 * roll) * scale) \div 100,
        vwap |-> ((120000 + 40 * share - 10000 * roll) * scale) \div 100]

-----------------------------------------------------------------------------
\* _direction_from_score and _probability_from_score.
Direction(score, threshold) ==
    IF score >= threshold THEN "bullish" ELSE IF score <= -threshold THEN "bearish" ELSE "no_edge"

Probability(score, floor) == Clamped(Rounded(500000 + (55 * Abs(score)) \div 100, 100), floor, 8600)

TrendVol(f) ==
    LET score == f.slope + f.return - (4 * f.volatility) \div 10 IN
    [direction |-> Direction(score, 120000), probability |-> Probability(score, 3400), weight |-> 32,
     confidence |-> Clamped(Rounded(540000 + (55 * f.slope) \div 100 - f.volatility \div 10, 100), 4000, 9300)]

\* A deep dive ranks its root alone, so that its root is always selected.
FlowLiquidity(case, f) ==
    LET score == (5 * f.vwap) \div 6 + 450 * (case.liquidity - 500) - 180000 IN
    [direction |-> Direction(score, 120000), probability |-> Probability(score, 3500), weight |-> 23,
     confidence |-> Clamped(Rounded(480000 + 350 * case.liquidity, 100), 3800, 9000)]

OiRoll(case, f) ==
    LET risk == case.series.rollRisk
        score == (8 * f.return) \div 10 - 35 * case.series.nextShare
                 - Amount(risk, 180000) - Amount(case.series.toLastTrade <= 5, 120000)
    IN [direction |-> Direction(score, 80000), probability |-> Probability(score, 3300), weight |-> 25,
        confidence |-> Clamped(Rounded(460000 + (IF risk THEN -40000 ELSE 180000) + (35 * f.return) \div 100, 100), 3600, 8800)]

MacroEvent(case) ==
    LET score == 20000 + Amount(case.asset = "currency", 80000) - Amount(case.asset = "commodity", 20000)
                 - Amount(case.weekend, 120000) - Amount(case.clearing, 80000) - Amount(case.series.rollRisk, 50000)
    IN [direction |-> Direction(score, 90000), probability |-> Probability(score, 3100), weight |-> 20,
        confidence |-> 4400 + Amount(case.asset = "currency", 800)]

\* _freshness: the same for every analyst.
Freshness(case) == 9500 - Amount(case.weekend, 400) - Amount(case.series.rollRisk, 500)

Analysts(case, h) ==
    LET f == Features(case, h) IN <<TrendVol(f), FlowLiquidity(case, f), OiRoll(case, f), MacroEvent(case)>>

-----------------------------------------------------------------------------
\* The skeptic's flags.  macro is the last analyst.
NearExpiryFlag(case) == case.near \/ case.series.rollRisk \/ case.series.toExpiry <= 7
LowLiquidity(case) == case.liquidity < 650
Unconfirmed(outputs) == outputs[4].direction = "no_edge" /\ outputs[4].confidence < 5000

Contradiction(outputs) ==
    Cardinality({o.direction : o \in {p \in Range(outputs) : p.confidence >= 5800}} \ {"no_edge"}) > 1

SkepticScore(case, outputs) ==
    Max({0, 100 - Amount(Freshness(case) < 7000, 22) - Amount(LowLiquidity(case), 32)
              - Amount(NearExpiryFlag(case), 22) - Amount(Unconfirmed(outputs), 10)
              - Amount(Contradiction(outputs), 16)})

Verdict(case, outputs) ==
    LET score == SkepticScore(case, outputs) IN
    IF Contradiction(outputs) /\ score <= 62 THEN "human_review"
    ELSE IF score < 35 THEN "reject"
    ELSE IF score < 65 \/ LowLiquidity(case) \/ NearExpiryFlag(case) THEN "soft_fail"
    ELSE "pass"

-----------------------------------------------------------------------------
\* n / d in ten thousandths, by long division within 32 bits.
Share(n, d) == 100 * ((100 * n) \div d) + Rounded(100 * ((100 * n) % d), d)

\* weight * probability * confidence, in ten millionths.
Contribution(o) == Rounded(o.weight * ((o.probability * o.confidence) \div 10), 100)

\* Of the four analysts.
Total(values) == values[1] + values[2] + values[3] + values[4]

\* _aggregate_probabilities
Probabilities(case, outputs) ==
    LET score == SkepticScore(case, outputs)
        For(d) == Rounded(score * Total([i \in DOMAIN outputs |-> Amount(outputs[i].direction = d, Contribution(outputs[i]))]), 100)
        Flat(o) == IF o.direction = "no_edge" THEN Contribution(o) + 8000 * o.weight
                   ELSE (18 * o.weight * (10000 - o.probability)) \div 10
        all == For("bullish") + For("bearish") + Total([i \in DOMAIN outputs |-> Flat(outputs[i])]) + 45000 * (100 - score)
        up == Share(For("bullish"), all)
        down == Share(For("bearish"), all)
    IN [bullish |-> up, bearish |-> down, no_edge |-> Max({0, 10000 - up - down})]

FinalDirection(p) ==
    IF p.bullish >= Max({p.bearish, p.no_edge, 4200}) THEN "bullish"
    ELSE IF p.bearish >= Max({p.bullish, p.no_edge, 4200}) THEN "bearish" ELSE "no_edge"

\* The lead of the likeliest of the three over the next.
Spread(p) ==
    LET all == <<p.bullish, p.bearish, p.no_edge>>
        best == CHOOSE i \in DOMAIN all : \A j \in DOMAIN all : all[i] >= all[j]
    IN all[best] - Max({all[j] : j \in DOMAIN all \ {best}})

Confidence(case, outputs, p) ==
    Clamped(Rounded(55 * Total([i \in DOMAIN outputs |-> outputs[i].confidence])
                    + 14000 * SkepticScore(case, outputs) + 160 * Spread(p), 400), 3500, 9500)

Deduction == [pass |-> 0, soft_fail |-> 120000, human_review |-> 180000, reject |-> 280000]

Priority(case, outputs, p) ==
    LET freshness == Clamped(Rounded(Freshness(case) * SkepticScore(case, outputs) + 80000, 100), 4000, 9800) IN
    Clamped(Rounded(100 * Confidence(case, outputs, p) + 8 * freshness + 120 * case.liquidity
                    + Amount(FinalDirection(p) # "no_edge", 100000) - Deduction[Verdict(case, outputs)], 10000), 1, 99)

\* The signal of a horizon, or none: a set of at most one.
Signal(case, h) ==
    LET outputs == Analysts(case, h)
        p == Probabilities(case, outputs)
        signal == [horizon |-> h, contract |-> case.series.active, direction |-> FinalDirection(p),
                   confidence |-> Confidence(case, outputs, p), priority |-> Priority(case, outputs, p),
                   verdict |-> Verdict(case, outputs), nearExpiry |-> NearExpiryFlag(case)]
        dropped == signal.direction = "no_edge" /\ signal.confidence < 5200 /\ signal.verdict = "pass"
    IN {s \in {signal} : ~dropped}
=============================================================================
