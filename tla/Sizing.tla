-------------------------------- MODULE Sizing --------------------------------
(***************************************************************************)
(* Fees, prices and the search for the largest admissible size, in the     *)
(* bounded integers of fixed.py.  One unit here is one unit there, so a    *)
(* product of a quantity and a price is exact and the 12 decimal places    *)
(* need no definition of their own.                                        *)
(***************************************************************************)
EXTENDS Integers

CONSTANTS
  BpsDen,      \* what makes a rate a fraction: BPS_DENOMINATOR
  FeeBps,      \* fee_bps of the execution policy
  SlipBps,     \* slippage_bps of the execution policy
  Tick         \* price_tick of the instruments

ASSUME RatesAssumption ==
  /\ BpsDen \in Nat \ {0}
  /\ FeeBps \in Nat
  /\ SlipBps \in 0..BpsDen
  /\ Tick \in Nat \ {0}

CeilDiv(n, d) == -((-n) \div d)

Fee(gross) == CeilDiv(gross * FeeBps, BpsDen)

\* What a trade of this gross amount takes from the cash balance before any proceeds.
Debit(side, gross) == (IF side = "buy" THEN gross ELSE 0) + Fee(gross)

\* The price the evaluator assumes for a quote, always against the account.
WorstPrice(side, quote) ==
  IF side = "buy" THEN CeilDiv(quote * (BpsDen + SlipBps), BpsDen)
                  ELSE (quote * (BpsDen - SlipBps)) \div BpsDen

\* The price of a simulated fill, rounded to the tick against the account.
FillPrice(side, raw) ==
  IF side = "buy" THEN CeilDiv(raw * (BpsDen + SlipBps), BpsDen * Tick) * Tick
                  ELSE ((raw * (BpsDen - SlipBps)) \div (BpsDen * Tick)) * Tick

BisectStopsEarly(high, allowed) ==
  LET Search[span \in (0..high) \X (0..high)] ==
        LET low == span[1]
            top == span[2]
            middle == (low + top + 1) \div 2
        IN  IF low + 1 >= top THEN low
            ELSE IF middle \in allowed THEN Search[<<middle, top>>] ELSE Search[<<low, middle - 1>>]
  IN  Search[<<0, high>>]

(* The integer search of both the evaluator and the ledger, which asks of the middle
   whether it is allowed and never asks of 0.                                     *)
Bisect(high, allowed) ==
  LET Search[span \in (0..high) \X (0..high)] ==
        LET low == span[1]
            top == span[2]
            middle == (low + top + 1) \div 2
        IN  IF low >= top THEN low
            ELSE IF middle \in allowed THEN Search[<<middle, top>>] ELSE Search[<<low, middle - 1>>]
  IN  Search[<<0, high>>]

\* What the search is for.
Largest(allowed) == CHOOSE n \in allowed \cup {0} : \A m \in allowed : m <= n
=============================================================================
