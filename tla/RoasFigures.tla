---------------------------- MODULE RoasFigures ----------------------------
(***************************************************************************)
(* The arithmetic of the ROAS calculator (content.ts).  The fees of an     *)
(* order are computed twice, for the calculator's panel (computeRoas-      *)
(* Metrics) and for the badges of the ads table (computeBreakEvenRoas-     *)
(* FromCalculatorState); the net profit on an ad's page follows the panel  *)
(* and adds the tax on ads, which the break-even ROAS leaves out.          *)
(*                                                                         *)
(* What Shopee reports of an ad, its units, sales, spend and ROAS, is read *)
(* from the page: each figure is there or not, and none follows from the   *)
(* others or from the price that was entered.                              *)
(*                                                                         *)
(* Percentages are counted in half percents and amounts of money, where    *)
(* fees enter, in 200ths of a rupiah, so that all is exact in integers;    *)
(* only the ad spend and the profit shown are rounded, as the code does.   *)
(* A ratio is a pair, its denominator positive; the ROAS of the page is    *)
(* counted in hundredths, as Shopee prints it.  ProcessingFee and PromoCap *)
(* are 1250 and 60000 in the code.                                         *)
(***************************************************************************)
EXTENDS Integers

CONSTANTS
  ProcessingFee, PromoCap,
  Prices, Costs, Operations, CategoryPcts, FreeDelivery,
  Units, Revenues, Spends, Roases,   \* what Shopee's page may report
  None                  \* not filled in, or not reported

VARIABLE input          \* what is entered, and what the ad's page reports

\* A figure of the page, as it is parsed or not there.
Read(figures) == figures \cup {None}
Inputs ==
  [price : Prices, hpp : Costs \cup {None}, operational : Operations \cup {None},
   category : CategoryPcts, promo : BOOLEAN, freeDelivery : BOOLEAN,
   size : {"regular", "special"}, regular : FreeDelivery, special : FreeDelivery,
   units : Read(Units), revenue : Read(Revenues),
   spend : Read(Spends), roas : Read(Roases)]

Init == input \in Inputs
Next == UNCHANGED input
Spec == Init /\ [][Next]_input

-----------------------------------------------------------------------------
Scale == 200
PromoPct == 9           \* 4.5 percent
Least(a, b) == IF a < b THEN a ELSE b
Most(a, b) == IF a < b THEN b ELSE a
OrZero(x) == IF x = None THEN 0 ELSE x
\* A cap of 0 is none.
Capped(fee, cap) == IF cap > 0 THEN Least(fee, cap * Scale) ELSE fee
Surcharge(s, config) ==
  IF s.freeDelivery THEN Capped(s.price * config.pct, config.cap) ELSE 0
Promo(s) == IF s.promo THEN Least(s.price * PromoPct, PromoCap * Scale) ELSE 0

\* computeBreakEvenRoasFromCalculatorState, from the fields of a saved entry
TableMargin(s) ==
  (s.price - s.hpp - OrZero(s.operational)) * Scale
  - (s.price * s.category + Promo(s) + ProcessingFee * Scale
     + Surcharge(s, IF s.size = "special" THEN s.special ELSE s.regular))
BreakEven(s) ==
  IF s.price <= 0 \/ s.hpp = None THEN None
  ELSE IF TableMargin(s) <= 0 THEN None
  ELSE <<s.price * Scale, TableMargin(s)>>

\* computeRoasTierTargetsFromCalculatorState: the greater of a multiple and a
\* distance, both in fiftieths.
Tiers == <<"rugi", "kompetitif", "konservatif", "prospektif">>
Times == [rugi |-> 50, kompetitif |-> 82, konservatif |-> 125, prospektif |-> 200]
Plus == [rugi |-> 0, kompetitif |-> 80, konservatif |-> 180, prospektif |-> 350]
Target(base, tier) ==
  <<Most(Times[tier] * base[1], 50 * base[1] + Plus[tier] * base[2]), 50 * base[2]>>

\* Variant: the panel takes the surcharge of regular sizes for all.
PanelFeesOfRegular(s) ==
  s.price * s.category + Promo(s) + Surcharge(s, s.regular) + ProcessingFee * Scale
\* computeRoasMetrics; a cost that is not filled in counts as none.
PanelFees(s) ==
  LET config == IF s.size = "special" THEN s.special ELSE s.regular IN
  s.price * s.category + Promo(s) + Surcharge(s, config) + ProcessingFee * Scale
PanelProfit(s) ==
  (s.price - OrZero(s.hpp) - OrZero(s.operational)) * Scale - PanelFees(s)
PanelBreakEven(s) ==
  IF s.price > 0 /\ PanelProfit(s) > 0 THEN <<s.price * Scale, PanelProfit(s)>> ELSE None
\* What is left of an order at a tier, when price / roas goes to the ad; times
\* the tier's ROAS.
TierProfit(s, tier) ==
  LET roas == Target(PanelBreakEven(s), tier) IN
  PanelProfit(s) * roas[1] - s.price * Scale * roas[2]

-----------------------------------------------------------------------------
\* The ROAS of the ad's row is at least the target of a tier.
Reaches(s, tier) ==
  LET target == Target(BreakEven(s), tier) IN s.roas * target[2] >= 100 * target[1]

\* The badge of the ROAS column (computeShopeeAdsAnalysisBadges).
Badge(s) ==
  CASE BreakEven(s) = None -> "Isi Kalkulator"
    [] BreakEven(s) # None /\ OrZero(s.roas) = 0 -> "BONCOS"
    [] OTHER -> IF Reaches(s, "prospektif") THEN "SEMPURNA"
                ELSE IF Reaches(s, "konservatif") THEN "BAGUS"
                ELSE IF Reaches(s, "kompetitif") THEN "CUKUP" ELSE "BURUK"

\* getShopeeAdsDashboardComputedMetricLabels: the net profit of an ad, from the
\* sales reported or else the price times the units, after a spend with 11
\* percent tax, rounded.
ActualSpend(s) == (OrZero(s.spend) * 111 + 50) \div 100
NetRevenue(s) == IF s.revenue = None THEN s.price * s.units ELSE s.revenue
NetProfit(s) ==
  IF s.hpp = None \/ s.price <= 0 \/ s.units = None THEN None
  ELSE NetRevenue(s) * Scale - (s.hpp + OrZero(s.operational)) * s.units * Scale
       - PanelFees(s) * s.units - ActualSpend(s) * Scale
\* Math.round, in the label of the page.
NetProfitShown(s) == (NetProfit(s) + Scale \div 2) \div Scale

-----------------------------------------------------------------------------
\* Row and page report a spend, sales and a ROAS that is their ratio up to one
\* hundredth.
Tallies(s) ==
  /\ None \notin {s.units, s.revenue, s.spend, s.roas} /\ s.spend > 0
  /\ s.spend * (s.roas - 1) <= 100 * s.revenue
  /\ 100 * s.revenue <= s.spend * (s.roas + 1)

\* The three places agree: the panel and the table have the same break-even
\* ROAS; at it an order leaves nothing, and every tier asks for more than the
\* last.  Of an ad whose reported figures tally, the table and the page say the
\* same, although the one rates Shopee's ROAS, without tax, and the other adds
\* up sales, costs and the taxed spend: rated CUKUP or better it shows a profit,
\* unless it sold below the entered price; below the break-even ROAS it shows
\* none, unless it sold above the entered price.
FiguresAgree ==
  /\ input.hpp # None => BreakEven(input) = PanelBreakEven(input)
  /\ PanelBreakEven(input) # None =>
       /\ TierProfit(input, "rugi") = 0
       /\ \A i \in 1..3 : Target(PanelBreakEven(input), Tiers[i])[1]
                            < Target(PanelBreakEven(input), Tiers[i + 1])[1]
  /\ Tallies(input) =>
       /\ Badge(input) \in {"CUKUP", "BAGUS", "SEMPURNA"}
            /\ input.revenue >= input.price * input.units => NetProfitShown(input) > 0
       /\ Badge(input) = "BURUK" /\ ~Reaches(input, "rugi")
            /\ input.revenue <= input.price * input.units => NetProfitShown(input) <= 0
=============================================================================
