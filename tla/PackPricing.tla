----------------------------- MODULE PackPricing -----------------------------
(***************************************************************************)
(* Prices: what a pack costs, from the price of a consultation and its     *)
(* discount, with the tax that the charge carries; and the menu of packs   *)
(* that the calculator of the panel proposes.  Amounts are whole pesos, a  *)
(* percentage is in tenths.                                                *)
(***************************************************************************)
EXTENDS Integers, Sequences, FiniteSets

Larger(x, y) == IF x < y THEN y ELSE x
Smaller(x, y) == IF x < y THEN x ELSE y
\* Math.round, Math.floor and Math.ceil of x / y, for y > 0.
Nearest(x, y) == (2*x + y) \div (2*y)
Down(x, y) == x \div y
Up(x, y) == (x + y - 1) \div y

-----------------------------------------------------------------------------
(***************************************************************************)
(* The price of a pack.  An offering has quantity, unitPrice and discount, *)
(* a record of type and value; a percentage discounts its share.           *)
(***************************************************************************)
\* Of an amount given in thousandths.
RoundToCharmPrice(amount) ==
  IF amount < 1000000 THEN Nearest(amount, 1000) ELSE Nearest(amount, 1000000) * 1000 - 1

Subtotal(offering) == offering.quantity * offering.unitPrice

\* In thousandths; 0 without a discount or of a type that is not known.
RawDiscount(offering) ==
  LET value == offering.discount.value IN
  CASE offering.discount.type = "percentage" /\ value > 0 -> Subtotal(offering) * value
    [] offering.discount.type = "fixed" /\ value > 0 -> 100 * value
    [] OTHER -> 0

\* Mutant: the rounded total is not kept under the subtotal.
TotalUnclamped(offering) ==
  IF RawDiscount(offering) <= 0 THEN Subtotal(offering)
  ELSE Larger(RoundToCharmPrice(1000 * Subtotal(offering) - RawDiscount(offering)), 0)

Total(offering) ==
  IF RawDiscount(offering) <= 0 THEN Subtotal(offering)
  ELSE Smaller(Larger(RoundToCharmPrice(1000 * Subtotal(offering) - RawDiscount(offering)), 0),
               Subtotal(offering))

CalculatePackPrice(offering) ==
  [subtotal |-> Subtotal(offering), total |-> Total(offering),
   discountAmount |-> Subtotal(offering) - Total(offering)]

\* The base and the tax of an amount that has the tax included or not.
CalculateTax(amount, rate, included) ==
  LET base == Nearest(1000 * amount, 1000 + rate)
      tax == Nearest(amount * rate, 1000)
  IN  IF amount <= 0 \/ rate <= 0 THEN [base |-> amount, taxAmount |-> 0, total |-> amount]
      ELSE IF included THEN [base |-> base, taxAmount |-> amount - base, total |-> amount]
      ELSE [base |-> amount, taxAmount |-> tax, total |-> amount + tax]

\* What a purchase charges: the percentage of a promotional code, 0 without
\* one, discounts the total of the pack, and the tax comes last.
PromoDiscount(offering, percent) == Nearest(Total(offering) * percent, 100)
Charge(offering, percent, rate, included) ==
  CalculateTax(Larger(0, Total(offering) - PromoDiscount(offering, percent)), rate, included)

\* The gateway takes no less.
MinChargeAmount == 5000
PurchaseOutcome(offering, percent, rate, included) ==
  LET charge == Charge(offering, percent, rate, included).total IN
  IF charge <= 0 THEN IF percent > 0 THEN "free" ELSE "rejected"
  ELSE IF charge < MinChargeAmount THEN "rejected" ELSE "charged"

\* What the catalogue announces.
CatalogRow(offering, rate, included) ==
  [subtotal |-> Subtotal(offering), total |-> Total(offering),
   unitPriceWithDiscount |-> Nearest(Total(offering), offering.quantity),
   tax |-> CalculateTax(Total(offering), rate, included)]

-----------------------------------------------------------------------------
(***************************************************************************)
(* The menu of the calculator.  A request has the price p0 and the floor,  *)
(* the sizes, start (where the discount starts, 0 for the smallest size),  *)
(* the costs (variableCost, fixedCosts; NoCost if not given), charm and    *)
(* technique.  The linear curve is exact, in parts of Step(in); the other  *)
(* two are given as any whole prices at the sizes, in.curve.               *)
(***************************************************************************)
NoCost == -1
DefaultPackSizes == {1, 5, 10, 25, 50, 100, 200}

\* Without repetitions, at least 1, in order.
PackSizes(in) ==
  LET sizes == {Larger(1, q) : q \in IF in.sizes = {} THEN DefaultPackSizes ELSE in.sizes}
  IN  [i \in 1..Cardinality(sizes) |->
         CHOOSE q \in sizes : Cardinality({r \in sizes : r <= q}) = i]

Biggest(in) == LET s == PackSizes(in) IN s[Len(s)]
StartQuantity(in) == IF in.start = 0 THEN PackSizes(in)[1] ELSE in.start

Accepts(in) == in.floor < in.p0 /\ (in.start # 0 => in.start < Biggest(in))

\* What a price is counted in parts of.
Step(in) ==
  IF in.technique = "linear" /\ Biggest(in) > StartQuantity(in)
  THEN Biggest(in) - StartQuantity(in) ELSE 1

\* The price of one consultation in a pack of q.
PriceAt(in, q) ==
  IF q <= StartQuantity(in) \/ Biggest(in) <= StartQuantity(in) THEN in.p0 * Step(in)
  ELSE IF in.technique = "linear"
       THEN in.p0 * Step(in) - (in.p0 - in.floor) * (q - StartQuantity(in))
       ELSE in.curve[q]

UnitRaw(in, q) == Larger(in.floor * Step(in), PriceAt(in, q))

\* The total before the totals are made to grow: the largest that ends in 999
\* and is not above the curve, nor under what the floor rounds up to.
CharmTotal(in, q) ==
  LET d == Step(in)
      total == UnitRaw(in, q) * q
      charmDown == Down(total + d, 1000 * d) * 1000 - 1
      floorGuard == Up(in.floor * q, 1000) * 1000 - 1
  IN  IF in.charm /\ q > 1 /\ UnitRaw(in, q) < in.p0 * d
      THEN Larger(charmDown, floorGuard) * d ELSE total

\* The totals of the menu.
Totals(in) ==
  LET sizes == PackSizes(in)
      after(previous, q) == IF CharmTotal(in, q) <= previous THEN previous + 1000 * Step(in)
                            ELSE CharmTotal(in, q)
      total[i \in 0..Len(sizes)] == IF i = 0 THEN 0 ELSE after(total[i-1], sizes[i])
  IN  [i \in 1..Len(sizes) |-> total[i]]

\* The columns shown for the pack of each size.
Row(in, i) ==
  LET d == Step(in)
      q == PackSizes(in)[i]
      total == Totals(in)[i]
      margin == total - in.variableCost * q * d   \* in parts of q*d
      more == total - (IF i = 1 THEN 0 ELSE Totals(in)[i-1])
      extra == q - (IF i = 1 THEN 0 ELSE PackSizes(in)[i-1])
  IN  [quantity |-> q, totalPrice |-> Nearest(total, d), unitPrice |-> Nearest(total, q * d),
       discount |-> Nearest(1000 * (in.p0 * q * d - total), in.p0 * q * d),
       savings |-> Nearest(in.p0 * q * d - total, d),
       marginalPrice |-> IF i = 1 THEN NoCost ELSE Nearest(more, extra * d),
       breakEven |-> IF in.fixedCosts # NoCost /\ in.variableCost # NoCost /\ margin > 0
                     THEN Up(in.fixedCosts * q * d, margin) ELSE NoCost,
       sellsAtLoss |-> i > 1 /\ in.variableCost # NoCost
                       /\ more < in.variableCost * extra * d]

\* Pairs of sizes such that buying the smaller many times is cheaper.
BreaksSelfSelection(in) ==
  LET sizes == PackSizes(in)
      price(i) == Nearest(Totals(in)[i], Step(in))
      cheaper(i, j) == j < i /\ Up(sizes[i], sizes[j]) * price(j) < price(i)
  IN  {pair \in (1..Len(sizes)) \X (1..Len(sizes)) : cheaper(pair[1], pair[2])}

Simulate(in) ==
  IF ~Accepts(in) THEN [packs |-> <<>>, warnings |-> {}]
  ELSE [packs |-> [i \in 1..Len(PackSizes(in)) |-> Row(in, i)],
        warnings |-> BreaksSelfSelection(in)]

-----------------------------------------------------------------------------
(***************************************************************************)
(* Properties of every input.                                              *)
(***************************************************************************)

\* What the customer is charged and the invoice shows adds up to the peso: the
\* total is the subtotal less a discount that is not negative and never more
\* than the subtotal; base and tax are not negative and are the charge, which a
\* code never makes greater than what the catalogue announces, and without a
\* code is just that.
ChargeAddsUp(offering, percent, rate, included) ==
  LET price == CalculatePackPrice(offering)
      charge == Charge(offering, percent, rate, included)
      announced == CatalogRow(offering, rate, included).tax.total
  IN  /\ price.discountAmount \in 0..price.subtotal
      /\ price.total + price.discountAmount = price.subtotal
      /\ charge.base >= 0 /\ charge.taxAmount >= 0
      /\ charge.base + charge.taxAmount = charge.total
      /\ IF percent = 0 THEN charge.total = announced ELSE charge.total <= announced

\* In the menu a bigger pack costs more, and its price per consultation lies
\* at most a peso per pack under the floor.
MenuGrows(in) ==
  LET totals == Totals(in) IN
  Accepts(in) => \A i \in 1..Len(totals) :
                   /\ i > 1 => totals[i] > totals[i-1]
                   /\ totals[i] >= (in.floor * PackSizes(in)[i] - 1) * Step(in)
=============================================================================
