------------------------------ MODULE PaperTrading ------------------------------
(***************************************************************************)
(* What the account machine and the paper venue have in common: a ledger   *)
(* and a risk session under the same clock, what both are given, and the   *)
(* shape it has.                                                           *)
(***************************************************************************)
EXTENDS PaperLedger, RiskSession

CONSTANTS
  Requests,       \* what agents may ask for
  Feeds,          \* contents of a market observation: instrument, levels, resync
  ControlStates,  \* what the supervisor may report
  InitialLedger, InitialControls,
  MaxTime, MaxSequence

-------------------------------------------------------------------------------
Sides == {"buy", "sell"}

LevelType == [price : Nat, quantity : Nat]

HoldingType == [quantity : Nat, basis : Nat, mark : Nat, markTime : Int]

ControlType ==
  [version : Nat, token : Nat, halted : BOOLEAN, asOf : Int, validUntil : Int, leaseExpires : Int]

IsPartial(f, S, T) == DOMAIN f \subseteq S /\ f \in [DOMAIN f -> T]

\* A ledger as the account opens with it: its initial portfolio shows what it holds.
Opens(L) ==
  /\ L = [cash |-> L.cash, holdings |-> L.holdings, realized |-> L.realized, fees |-> 0,
          orders |-> <<>>, books |-> <<>>, healthy |-> <<>>, asOf |-> L.asOf, sealed |-> FALSE,
          peak |-> L.peak, initial |-> L.initial]
  /\ L.cash \in Nat /\ {L.realized, L.asOf, L.peak} \subseteq Int
  /\ IsPartial(L.holdings, Instruments, HoldingType)
  /\ L.initial = Snapshot(L)

\* What they are given has the shape its readers demand.
ASSUME TradingAssumption ==
  /\ IsFiniteSet(Instruments) /\ MaxTime \in Int
  /\ \A r \in Requests :
       /\ r.instrument \in Instruments /\ r.side \in Sides
       /\ {r.notional, r.bid, r.ask, r.size} \subseteq Nat /\ {r.expires, r.observed} \subseteq Int
  /\ \A f \in Feeds :
       /\ f.bids \in Seq(LevelType) \ {<<>>} /\ f.asks \in Seq(LevelType) /\ f.resync \in BOOLEAN
  /\ ControlStates \cup {InitialControls} \subseteq ControlType
  /\ Opens(InitialLedger)

-------------------------------------------------------------------------------
VARIABLES
  now,            \* time of the last command, or of the clock
  ledger

Intents == {r.intent : r \in Requests}
=============================================================================
